\* One login or one for each bookmark, no change between them; bookmarks and
\* tree are left alone while an action runs.
CONSTANTS
    wc = wc
    repo = repo
    outer = outer
    inner = inner
    c1 = c1
    c2 = c2
    c3 = c3
    c4 = c4
    c5 = c5
    Root = Root
    Default = Default
    None = None
    Bookmarks <- MCBookmarks
    Urls <- MCUrls
    Folders <- MCFolders
    FolderIn <- MCFolderIn
    Contexts <- MCContexts
    WhileRunning = FALSE
    Switching = FALSE
SYMMETRY MCSymmetry
SPECIFICATION Spec
INVARIANTS
    TypeOK
    NoDanglingContext
    OneLoginOrOneEach
    CommandsUseSelection
    ListIsFresh
    NoNestedTreeRefresh
PROPERTIES
    AddedBookmarkIsShown
