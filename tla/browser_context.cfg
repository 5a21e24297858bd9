\* The login mode may be changed between two actions.
CONSTANTS
    wc = wc
    repo = repo
    outer = outer
    inner = inner
    c1 = c1
    c2 = c2
    c3 = c3
    c4 = c4
    c5 = c5
    Root = Root
    Default = Default
    None = None
    Bookmarks <- MCBookmarks
    Urls <- MCUrls
    Folders <- MCFolders
    FolderIn <- MCFolderIn
    Contexts <- MCContexts
    WhileRunning = FALSE
    Switching = TRUE
SPECIFICATION Spec
INVARIANTS
    ActionsHaveContext
