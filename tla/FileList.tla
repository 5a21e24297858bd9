------------------------------ MODULE FileList -------------------------------
(***************************************************************************)
(* librapidsvn/src/filelist_ctrl.cpp with the status filter of             *)
(* libsvncpp/src/client_status.cpp: what a refresh of the file list reads, *)
(* lists, selects again and how it is sorted, and which items a command    *)
(* then gets.  One folder that is not a URL, without its subfolders'       *)
(* contents (flat mode off).                                               *)
(*                                                                         *)
(* What changed on disk since the last refresh is found out by the next    *)
(* one.  Externals, locks and items that exist only in the repository are  *)
(* left out.                                                               *)
(***************************************************************************)
EXTENDS Integers, FiniteSets, SequencesExt

CONSTANTS
    Reported,   \* the items of the folder in the order svn reports them
    Dot,        \* the folder itself
    Folders,    \* the items that are folders, Dot included
    Name, Base, Ext, \* [items -> Nat]: places of the name, of the name without
                     \* extension and of the extension, upper and lower case alike
    Rev,        \* [items -> Nat]: revision
    Disks,      \* the states the folder may be in: functions from items to statuses
    Filters,    \* the filter settings the user tries
    Sorts,      \* the sort settings: [column, ascending]
    MaxSelected \* bound on the items selected at once

Statuses == {"absent", "ignored", "obstructed", "unversioned", "conflicted",
             "modified", "outdated", "normal"}
FilterNames == {"unversioned", "unmodified", "modified", "conflicted", "ignored"}

ListItems == Range(Reported)

ASSUME FileListAssumption ==
    /\ Reported \in Seq(ListItems)
    /\ \A m, n \in DOMAIN Reported : m # n => Reported[m] # Reported[n]
    /\ Dot \in Folders /\ Folders \subseteq ListItems
    /\ {Name, Base, Ext, Rev} \subseteq [ListItems -> Nat]
    /\ \A i, j \in ListItems : Name[i] = Name[j] => Base[i] = Base[j] /\ Ext[i] = Ext[j]
    /\ Sorts \subseteq [column : {"name", "path", "ext", "rev", "status"}, ascending : BOOLEAN]
    /\ \A disk \in Disks : DOMAIN disk = ListItems /\ Range(disk) \subseteq Statuses
    /\ \A f \in Filters : f \subseteq FilterNames

VARIABLES
    status,     \* what the last refresh read: the data of the rows
    list,       \* the rows, a sequence of items
    chosen,     \* the selected items
    filter,     \* ShowUnversioned, ShowUnmodified, ...: those that are set
    sort,       \* SortColumn and SortAscending
    wanted,     \* history: what the user selected
    misled      \* history: the row of another item was selected again

fileVars == <<status, list, chosen, filter, sort, wanted, misled>>

-----------------------------------------------------------------------------
(* CompareItems                                                            *)

IsDir(i) == i \in Folders
Cmp(a, b) == IF a < b THEN -1 ELSE IF a > b THEN 1 ELSE 0

\* Compare of two statuses: the place in the table.
StatusRank(s) ==
    CHOOSE n \in 1 .. 7 : << "ignored", "obstructed", "unversioned", "conflicted",
                             "modified", "outdated", "normal" >>[n] = s

\* CompareColumn.  Below one folder two paths differ in the name; the path
\* column compares it without the extension.
CompareColumn(column, i, j) ==
    CASE column = "name" -> Cmp(Name[i], Name[j])
      [] column = "path" -> Cmp(Base[i], Base[j])
      [] column = "ext" -> Cmp(Ext[i], Ext[j])
      [] column = "rev" -> Cmp(Rev[i], Rev[j])
      [] column = "status" -> Cmp(StatusRank(status[i]), StatusRank(status[j]))

\* The first column that tells the two apart (IncludePath is set).
FirstDifference(columns, i, j) ==
    LET tells == {n \in DOMAIN columns : CompareColumn(columns[n], i, j) # 0}
    IN  IF tells = {} THEN 0 ELSE CompareColumn(columns[Min(tells)], i, j)

Columns(column) ==
    CASE column = "name" -> << "name", "path" >>
      [] column = "path" -> << "path", "name" >>
      [] OTHER -> << column, "path", "name" >>

-----------------------------------------------------------------------------
(* Faulty variants of definitions below: bugs the properties must notice.  *)

\* The number of rows is taken before the row is inserted.
ReselectBefore(found, filled) ==
    IF found \in chosen /\ Len(filled) > 1 THEN {filled[Len(filled) - 1]} ELSE {}

\* The rule for folders is turned round with the direction.
CompareItemsReversed(i, j) ==
    (IF IsDir(i) /\ (~IsDir(j) \/ i = Dot) THEN -1
     ELSE IF IsDir(j) /\ (~IsDir(i) \/ j = Dot) THEN 1
     ELSE FirstDifference(Columns(sort.column), i, j)) * (IF sort.ascending THEN 1 ELSE -1)

-----------------------------------------------------------------------------
\* "Directories always precede files AND current working directory '.' always
\* first", in both directions.
CompareItems(i, j) ==
    IF IsDir(i) /\ (~IsDir(j) \/ i = Dot) THEN -1
    ELSE IF IsDir(j) /\ (~IsDir(i) \/ j = Dot) THEN 1
    ELSE FirstDifference(Columns(sort.column), i, j) * (IF sort.ascending THEN 1 ELSE -1)

-----------------------------------------------------------------------------
(* Reading and listing                                                     *)

\* svn reports unmodified items only to get_all and ignored ones to no_ignore.
ReportedBySvn(s, f) ==
    /\ s # "absent"
    /\ s = "normal" => "unmodified" \in f
    /\ s = "ignored" => "ignored" \in f

\* filteredStatusFunc.  Ignored items have no entry either.
PassesFilter(s, f) ==
    CASE s \in {"unversioned", "ignored"} -> "unversioned" \in f
      [] s \in {"normal", "outdated"} -> "unmodified" \in f
      [] OTHER -> "modified" \in f \/ ("conflicted" \in f /\ s = "conflicted")

\* Status::isVersioned of the copy a list of statuses holds.
IsVersioned(s) == s \notin {"unversioned", "ignored", "obstructed"}

Found(read, f) == {i \in ListItems : ReportedBySvn(read[i], f) /\ PassesFilter(read[i], f)}

\* CreateLabels: a row for a versioned item, or if unversioned ones are shown.
GetsRow(s, f) == IsVersioned(s) \/ "unversioned" \in f

\* If an item was selected before, the last row so far is.
Reselect(found, filled) ==
    IF found \in chosen /\ filled # << >> THEN {Last(filled)} ELSE {}

\* The loop of RefreshFileList.
Fill(read, f) ==
    LET upTo[n \in 0 .. Len(Reported)] ==
            IF n = 0 THEN [rows |-> << >>, chosen |-> {}]
            ELSE IF Reported[n] \notin Found(read, f) THEN upTo[n - 1]
            ELSE LET i == Reported[n]
                     before == upTo[n - 1]
                     filled == IF GetsRow(read[i], f) THEN Append(before.rows, i)
                                                      ELSE before.rows
                 IN  [rows |-> filled, chosen |-> before.chosen \cup Reselect(i, filled)]
    IN  upTo[Len(Reported)]

\* SortItems: the rows in another order, and all a sort is sure of is the
\* order of neighbours.
Orders == UNION {Bijection(1 .. n, 1 .. n) : n \in 0 .. Len(Reported)}

Rearranged(rows) ==
    {[n \in DOMAIN rows |-> rows[order[n]]] : order \in {o \in Orders : DOMAIN o = DOMAIN rows}}

NeighboursInOrder ==
    \A n \in 1 .. Len(list) - 1 : CompareItems(list[n], list[n + 1]) <= 0

SortItems(rows) == list' \in Rearranged(rows) /\ NeighboursInOrder'

-----------------------------------------------------------------------------
(* Operations                                                              *)

\* RefreshFileList with the filter f.  Whether SortItems keeps the selection is
\* the toolkit's choice: natively it does, the generic control drops it.
Refresh(f) ==
    /\ sort' = sort /\ filter' = f
    /\ \E read \in Disks :
          /\ status' = read
          /\ LET filled == Fill(read, f)
             IN  SortItems(filled.rows) /\ chosen' \in {filled.chosen, {}}
          /\ misled' = (misled \/ \E i \in chosen :
                                    i \in Found(read, f) /\ ~GetsRow(read[i], f))
    /\ wanted' = wanted

RefreshFileList == Refresh(filter)

\* OnShowUnversioned and the others: toggle and refresh.
SetFilter(f) == f # filter /\ Refresh(f)

\* OnColumnSorting and others: ApplySortChanges.
SetSort(s) ==
    /\ sort' = s
    /\ UNCHANGED <<status, filter, wanted, misled>>
    /\ SortItems(list)
    /\ chosen' \in {chosen, {}}

\* The listing fails: MainFrame::RefreshFileList empties the list.
RefreshFails ==
    /\ list' = << >> /\ chosen' = {}
    /\ UNCHANGED <<status, filter, sort, wanted, misled>>

UserSelects(items) ==
    /\ Cardinality(items) <= MaxSelected
    /\ chosen' = items /\ wanted' = items
    /\ misled' = FALSE
    /\ UNCHANGED <<status, list, filter, sort>>

-----------------------------------------------------------------------------
FileInit ==
    /\ status = [i \in ListItems |-> "absent"]
    /\ list = << >> /\ chosen = {} /\ wanted = {} /\ misled = FALSE
    /\ filter \in Filters /\ sort \in Sorts

FileNext ==
    \/ RefreshFileList \/ RefreshFails
    \/ \E f \in Filters : SetFilter(f)
    \/ \E s \in Sorts : SetSort(s)
    \/ \E items \in SUBSET Range(list) : UserSelects(items)

-----------------------------------------------------------------------------
(* Properties                                                              *)

\* GetStatusSel gives a command only items the user selected: however often
\* the list is read again, filtered, sorted and items come and go, the
\* selection is restored to the same items or lost, never moved to others;
\* unless an obstructed item lost its row to the filter (its neighbour is then
\* selected instead).
CommandsGetWhatWasSelected == ~misled => chosen \subseteq wanted \cap Range(list)

\* CompareItems: the neighbours' order is the order of all.  Of any two rows the
\* upper one is not the later, asked either way round, '.' is first and folders
\* precede files.  "The entries are always sorted in unique way" is true but for
\* names that differ only in case: these may tie, and no others do.
RowsInOrder ==
    \A m, n \in DOMAIN list : m < n =>
        /\ \/ CompareItems(list[m], list[n]) = -1
           \/ CompareItems(list[m], list[n]) = 0 /\ Name[list[m]] = Name[list[n]]
        /\ CompareItems(list[n], list[m]) = -CompareItems(list[m], list[n])
        /\ IsDir(list[n]) => IsDir(list[m])
        /\ list[n] # Dot
=============================================================================
