\* Each component alone.  The log dialog, the actions and the temporary files
\* have bounds at which their behaviours end.
CONSTANTS
    Validated = {"url"}
    Direct = {"diff"}
    Words = {"a", "b"}
    NoWord = NoWord
    Entered <- MCEntered
    MaxCount = 2
    MaxEntered = 2
    Histories <- MCHistories
    Touches <- MCTouches
    LogLimit = 2
    MaxLogs = 2
    MaxOthers = 1
    COL_COUNT = 4
    HiddenByReset = {3}
    Reported <- MCReported
    Dot = "dot"
    Folders = {"dot", "dir"}
    Name <- MCName
    Base <- MCBase
    Ext <- MCExt
    Rev <- MCRev
    Disks <- MCDisks
    Filters <- MCFilters
    Sorts <- MCSorts
    MaxSelected = 2
    Messages = {"fix", "add"}
    NoMessage = NoMessage
    MaxPerformed = 2
    MaxCommits = 2
    MaxNotes = 2
    MaxExternals = 2
    TempPaths = {"t1", "t2", "t3"}
    MaxFetches = 2
    Hosts <- MCHosts
    Begins <- MCBegins
    Repositories <- MCRepositories
    WorkingCopies <- MCWorkingCopies
    Versioned <- MCVersioned
    Drops <- MCDrops
    Destinations <- MCDestinations
    Currents <- MCCurrents
SPECIFICATION Spec
CHECK_DEADLOCK FALSE
INVARIANTS
    NewestFirst
    StoredIsWhole
    CleanMeansStored
    PagesContiguous
    MoreIfEntriesRemain
    DetailsMatchSelection
    ClickSortsThatColumn
    SortColumnIsShown
    MenuShowsSorting
    CommandsGetWhatWasSelected
    RowsInOrder
    MessageIsThisActions
    SummaryIsOfThisUpdate
    PurgedAtExit
    UnwantedIsKept
    DropFollowsPatterns
PROPERTIES
    DiffShowsTheChange
