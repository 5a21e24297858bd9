----------------------------- MODULE FileColumns -----------------------------
(***************************************************************************)
(* librapidsvn/src/filelist_ctrl.cpp, columns.cpp and the handlers of      *)
(* main_frame.cpp that use them: which columns the file list shows, the    *)
(* column it is sorted by, the menus that tell the user, and what of it    *)
(* survives the end of the program.                                        *)
(*                                                                         *)
(* Every handler ends with a refresh of the list, which rebuilds the       *)
(* columns (UpdateColumns).  The widths of the columns are left out.       *)
(***************************************************************************)
EXTENDS Naturals, SequencesExt, FiniteSetsExt

CONSTANTS
    COL_COUNT,      \* number of columns
    HiddenByReset   \* those ResetColumns hides, besides the path

COL_NAME == 0
COL_PATH == 1
AllColumns == 0 .. COL_COUNT - 1

ASSUME ColumnsAssumption ==
    /\ COL_COUNT \in Nat /\ COL_COUNT > 2
    /\ HiddenByReset \subseteq AllColumns \ {COL_NAME, COL_PATH}

VARIABLES
    cols,       \* FileListCtrl::Data: [visible, sort, ascending, flat]
    header,     \* the control's columns: those of the last UpdateColumns
    menu,       \* [sort, ascending]: what the sort menu shows as checked
    updates,    \* pending TOKEN_UPDATE_ASCENDING and TOKEN_UPDATE_SORTING
    saved,      \* what WriteConfig left: [visible, sort, ascending]
    unsynced    \* history: ResetColumns changed the sorting, the menu not

colVars == <<cols, header, menu, updates, saved, unsynced>>

-----------------------------------------------------------------------------
(* Data                                                                    *)

\* UpdateColumns: a column of the control for each that is visible.
HeaderOf(cs) ==
    LET shown[n \in 0 .. COL_COUNT] ==
            IF n = 0 THEN << >>
            ELSE IF n - 1 \in cs.visible THEN Append(shown[n - 1], n - 1)
            ELSE shown[n - 1]
    IN  shown[COL_COUNT]

\* ReadConfig.
FromConfig(cfg) ==
    [visible |-> cfg.visible \ {COL_PATH}, sort |-> cfg.sort,
     ascending |-> cfg.ascending, flat |-> FALSE]

\* The columns the loop of GetRealColumn has skipped when it gets to i.
Skipped(i) == Cardinality({c \in 0 .. i - 1 : c \notin cols.visible})

-----------------------------------------------------------------------------
(* Faulty variants of definitions below: bugs the properties must notice.  *)

\* The loop ends at the first column that is far enough, visible or not.
GetRealColumnTooEarly(clicked) ==
    clicked + Skipped(Min({i \in 0 .. COL_COUNT : i = COL_COUNT \/ i >= clicked + Skipped(i)}))

\* The sort column is hidden like any other.
SetColumnVisibleKeepsSort(cs, col, visible) ==
    IF col = COL_NAME THEN cs
    ELSE [cs EXCEPT !.visible = IF visible THEN @ \cup {col} ELSE @ \ {col}]

\* Only the direction is sent to the menu.
PostUpdatesOne == updates' = Append(updates, "ascending")

-----------------------------------------------------------------------------
(* Columns                                                                 *)

\* SetColumnVisible: the name is always shown, and a list sorted by a column
\* that gets hidden is sorted by name.
SetColumnVisible(cs, col, visible) ==
    IF col = COL_NAME THEN cs
    ELSE LET hides == ~visible /\ col = cs.sort
         IN  [cs EXCEPT !.visible = IF visible THEN @ \cup {col} ELSE @ \ {col},
                        !.sort = IF hides THEN COL_NAME ELSE @,
                        !.ascending = @ \/ hides]

SetFlat(cs, flat) == SetColumnVisible([cs EXCEPT !.flat = flat], COL_PATH, flat)

\* GetRealColumn: the loop ends at the first visible column that is clicked
\* and what was skipped away from the first one.
GetRealColumn(clicked) ==
    LET stops == {i \in 0 .. COL_COUNT :
                     i = COL_COUNT \/ (i >= clicked + Skipped(i) /\ i \in cols.visible)}
    IN  clicked + Skipped(Min(stops))

-----------------------------------------------------------------------------
(* Handlers                                                                *)

\* MainFrame::RefreshFileList, whether or not it lists anything.
Rebuild == header' = HeaderOf(cols')

\* UpdateMenuSorting and UpdateMenuAscending.
SyncMenu == menu' = [sort |-> cols'.sort, ascending |-> cols'.ascending] /\ unsynced' = FALSE

\* OnFlatView, and OnFolderBrowserSelChanged with the bookmark's flat mode;
\* SetIncludePathVisibility updates the menu only when the mode is not flat.
ShowFlat(flat) ==
    /\ cols' = SetFlat(cols, flat)
    /\ IF flat THEN UNCHANGED <<menu, unsynced>> ELSE SyncMenu
    /\ Rebuild
    /\ UNCHANGED <<updates, saved>>

\* OnColumn: a column is checked or unchecked in the menu.
OnColumn(col) ==
    /\ col \notin {COL_NAME, COL_PATH}
    /\ cols' = SetColumnVisible(cols, col, col \notin cols.visible)
    /\ SyncMenu
    /\ Rebuild
    /\ UNCHANGED <<updates, saved>>

\* OnColumnReset: the sort menu is not brought up to date.  ResetColumns sets
\* the visibility of one column after the other with SetColumnVisible.
OnColumnReset ==
    /\ LET shown == {c \in AllColumns : IF c = COL_PATH THEN cols.flat ELSE c \notin HiddenByReset}
           hides == cols.sort \notin shown
       IN  cols' = [cols EXCEPT !.visible = shown,
                                !.sort = IF hides THEN COL_NAME ELSE @,
                                !.ascending = @ \/ hides]
    /\ unsynced' = (unsynced \/ <<cols'.sort, cols'.ascending>> # <<cols.sort, cols.ascending>>)
    /\ Rebuild
    /\ UNCHANGED <<menu, updates, saved>>

PostUpdates == updates' = updates \o << "ascending", "sorting" >>

\* OnColumnLeftClick on the i-th column of the control, counted from 0.
OnColumnLeftClick(i) ==
    /\ i < Len(header) /\ updates = << >>
    /\ LET col == GetRealColumn(i)
       IN  cols' = [cols EXCEPT !.sort = col,
                                !.ascending = IF col = cols.sort THEN ~@ ELSE TRUE]
    /\ PostUpdates
    /\ UNCHANGED <<header, menu, saved, unsynced>>

\* OnColumnSorting: the entries of hidden columns are disabled, except the
\* path's.  The radio item checks itself.
OnColumnSorting(col) ==
    /\ col \in cols.visible \cup {COL_PATH}
    /\ cols' = [cols EXCEPT !.sort = col, !.ascending = TRUE]
    /\ SyncMenu
    /\ UNCHANGED <<header, updates, saved>>

\* OnSortAscending: the check item toggles itself, the list its own flag.
OnSortAscending ==
    /\ cols' = [cols EXCEPT !.ascending = ~@]
    /\ menu' = [menu EXCEPT !.ascending = ~@]
    /\ UNCHANGED <<header, updates, saved, unsynced>>

\* TOKEN_UPDATE_SORTING and TOKEN_UPDATE_ASCENDING.
UpdateMenu ==
    /\ updates # << >>
    /\ menu' = IF Head(updates) = "sorting" THEN [menu EXCEPT !.sort = cols.sort]
                                            ELSE [menu EXCEPT !.ascending = cols.ascending]
    /\ updates' = Tail(updates)
    /\ UNCHANGED <<cols, header, saved, unsynced>>

\* The control is created again and the frame shows its state.
Start(cfg) ==
    /\ cols' = FromConfig(cfg)
    /\ updates' = << >>
    /\ SyncMenu
    /\ Rebuild

\* ~FileListCtrl writes the configuration; a program that dies does not.
Quit == saved' = [visible |-> cols.visible, sort |-> cols.sort, ascending |-> cols.ascending]
        /\ Start(saved')
Die == Start(saved) /\ UNCHANGED saved

-----------------------------------------------------------------------------
ColInit ==
    /\ saved = [visible |-> AllColumns, sort |-> COL_NAME, ascending |-> TRUE]
    /\ cols = FromConfig(saved)
    /\ header = HeaderOf(cols)
    /\ menu = [sort |-> COL_NAME, ascending |-> TRUE]
    /\ updates = << >>
    /\ unsynced = FALSE

ColNext ==
    \/ \E flat \in BOOLEAN : ShowFlat(flat)
    \/ \E col \in AllColumns : OnColumn(col) \/ OnColumnLeftClick(col) \/ OnColumnSorting(col)
    \/ OnColumnReset \/ OnSortAscending \/ UpdateMenu
    \/ Quit \/ Die

-----------------------------------------------------------------------------
(* Properties                                                              *)

\* GetRealColumn, "the real column ... if there are invisible columns this
\* translates to something completely different": a click on a header always
\* sorts by the column that stands there, whatever was shown, hidden, reset or
\* read from the configuration before.
ClickSortsThatColumn ==
    \A i \in DOMAIN header : GetRealColumn(i - 1) = header[i]

\* OnColumn, "Automatically define a new sorting column after an old one is
\* disabled": the list is never sorted by a column the user cannot see, other
\* than the path, in no order of handlers, exits and crashes.
SortColumnIsShown == cols.sort \in Range(header) \cup {COL_PATH}

\* Once the posted updates have arrived the menu shows how the list is sorted,
\* unless ResetColumns changed that, which leaves the menu as it was until the
\* next handler that brings it up to date.
MenuShowsSorting ==
    updates = << >> /\ ~unsynced =>
        menu = [sort |-> cols.sort, ascending |-> cols.ascending]
=============================================================================
