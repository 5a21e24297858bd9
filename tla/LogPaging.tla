------------------------------ MODULE LogPaging ------------------------------
(***************************************************************************)
(* librapidsvn/src/log_dlg.cpp, log_rev_list.cpp and log_action.cpp: the   *)
(* history of a file is fetched in pages of LogLimit entries plus the one  *)
(* the next page begins with; the modal dialog asks for the next page with *)
(* an event, an action fetches it in the worker thread, and the answer is  *)
(* an event that names the dialog.  With the list of revisions, its        *)
(* selection, and what the dialog derives from it.                         *)
(*                                                                         *)
(* Of the worker only whether it is busy is kept; ThreadedWorker has the   *)
(* rest.  The list is sorted by its revision column, the others likewise.  *)
(***************************************************************************)
EXTENDS Integers, SequencesExt, FiniteSetsExt

CONSTANTS
    Histories,  \* histories the file may have at first: sets of revision numbers
    Touches,    \* [revisions -> SUBSET paths]: LogEntry::changedPaths; its domain
                \* bounds the revisions
    LogLimit,   \* LogAction::LogLimit
    MaxLogs,    \* bound on the dialogs opened one after the other
    MaxOthers   \* bound on the pending other commands of the dialog

ASSUME LogAssumption ==
    /\ LogLimit \in Nat \ {0}
    /\ DOMAIN Touches \subseteq Nat
    /\ \A h \in Histories : h # {} /\ IsFiniteSet(h) /\ h \subseteq DOMAIN Touches

INVALID == -1       \* SVN_INVALID_REVNUM
NoRow == 0

VARIABLES
    history,    \* the revisions in which the file had changed when the last dialog
                \* was opened
    newer,      \* those in which it has changed since
    dlg,        \* the number of the open LogDlg, 0 if none is open
    logs,       \* how many dialogs there were
    entries,    \* LogDlg::Data::entries, newest first
    next,       \* LogDlg::m_NextRevision
    more,       \* whether the button More is enabled
    rows,       \* LogRevList: for each row the index of its entry
    ascending,  \* LogRevList::ColSortInfo::Ascending
    selected,   \* the selected rows
    details,    \* [message, files]: the text and the affected files shown
    jobs,       \* pending events of the frame that this dialog is about
    doing,      \* what the worker does: a request, or Idle
    lost,       \* history: a request of the open dialog got no answer
    misread,    \* history: the details were derived from a list out of order
    undefined   \* an answer was given to a dialog that is gone

logVars == <<history, newer, dlg, logs, entries, next, more, rows, ascending, selected,
             details, jobs, doing, lost, misread, undefined>>

-----------------------------------------------------------------------------
(* Lists of revisions                                                      *)

Idle == [kind |-> "idle"]

\* How many are greater, how many smaller.
Above(S, r) == Cardinality({q \in S : q > r})
Below(S, r) == Cardinality({q \in S : q < r})

Descending(S) == [n \in 1 .. Cardinality(S) |-> CHOOSE r \in S : Above(S, r) = n - 1]
Ascending(S) == [n \in 1 .. Cardinality(S) |-> CHOOSE r \in S : Below(S, r) = n - 1]

\* Client::log from a revision back to the start, at most LogLimit + 1.
Log(revs, start) ==
    LET found == Descending({r \in revs : r <= start})
    IN  SubSeq(found, 1, IF Len(found) > LogLimit + 1 THEN LogLimit + 1 ELSE Len(found))

\* What the dialog keeps of a page, and where the next one begins.
Kept(page) == IF Len(page) > LogLimit THEN Front(page) ELSE page
NextOf(page) == IF Len(page) > LogLimit THEN Last(page) ELSE INVALID

RevisionAt(row) == entries[rows[row]]
InOrder == \A i \in DOMAIN rows : rows[i] = i
SelectedRows == Ascending(selected)
SelectedRevisions == [i \in DOMAIN SelectedRows |-> RevisionAt(SelectedRows[i])]

NoDetails == [message |-> INVALID, files |-> {}]

-----------------------------------------------------------------------------
(* Faulty variants of definitions below: bugs the properties must notice.  *)

\* A page of exactly LogLimit entries counts as one with a rest.
HasMoreAtLimit(page) == Len(page) >= LogLimit

\* The button stays enabled, so the same page is asked for twice.
OnMoreStaysEnabled ==
    /\ more /\ next # INVALID
    /\ Len(jobs) <= MaxOthers
    /\ jobs' = Append(jobs, [kind |-> "next", start |-> next, dlg |-> dlg])
    /\ UNCHANGED <<history, newer, dlg, logs, entries, next, more, rows, ascending, selected,
                   details, doing, lost, misread, undefined>>

\* The row above instead of the one below.
PriorRevisionAbove(row) == IF row > 1 THEN RevisionAt(row - 1) ELSE INVALID

\* The text of the first selected revision stays when there are two.
DetailsOfFirst(sel) ==
    IF sel = {} THEN NoDetails
    ELSE [message |-> entries[Min(sel)], files |-> Touches[entries[Min(sel)]]]

-----------------------------------------------------------------------------
(* The selection, and whether there is more                                *)

HasMore(page) == Len(page) > LogLimit

\* GetPriorRevision: the revision of the row below.
PriorRevision(row) == IF row < Len(rows) THEN RevisionAt(row + 1) ELSE INVALID

\* GetAffectedPathsForItem takes the row for the index of the entry.
PathsOf(row) == Touches[entries[row]]

\* FillAffectedFiles: of the first selected entry, what all of them touch.
AffectedFiles(sel) == {p \in PathsOf(Min(sel)) : \A r \in sel : p \in PathsOf(r)}

\* The message of a single selected row, and the affected files.
DetailsOf(sel) ==
    IF sel = {} THEN NoDetails
    ELSE [message |-> IF Cardinality(sel) = 1 THEN entries[Min(sel)] ELSE INVALID,
          files |-> AffectedFiles(sel)]

\* ReduceSelectionToOnlyTwoItems: each row it deselects raises an event whose
\* handler reduces the selection first; the loop then goes on from its rows.
Following(sel, row) == LET later == {r \in sel : r > row}
                       IN  IF later = {} THEN NoRow ELSE Min(later)

At(sel, row, focusedWasSelected) ==
    [sel |-> sel, previous |-> row, focusedWasSelected |-> focusedWasSelected]

Reduced(rest, sel) ==
    IF Cardinality(sel) <= 2 THEN sel ELSE rest[At(sel, Following(sel, Min(sel)), FALSE)]

Deselect(rest, sel, row) == IF row \in sel THEN Reduced(rest, sel \ {row}) ELSE sel

\* A turn of the loop.
ReduceFrom(rest, focus, at) ==
    LET current == Following(at.sel, at.previous)
        atFocus == at.previous = focus
    IN  IF current = NoRow
        THEN IF at.focusedWasSelected THEN Deselect(rest, at.sel, at.previous) ELSE at.sel
        ELSE rest[At(IF atFocus THEN at.sel ELSE Deselect(rest, at.sel, at.previous),
                     current, at.focusedWasSelected \/ atFocus)]

Reduce(all, focus) ==
    LET rest[at \in [sel : SUBSET all, previous : all, focusedWasSelected : BOOLEAN]] ==
            ReduceFrom(rest, focus, at)
    IN  Reduced(rest, all)

\* UpdateSelection, on every change of the selection.
UpdateSelection(sel, focus) ==
    LET left == Reduce(sel, focus)
    IN  /\ selected' = left
        /\ details' = DetailsOf(left)
        /\ misread' = ~InOrder

-----------------------------------------------------------------------------
(* The dialog                                                              *)

Open == dlg # 0 /\ ~undefined

\* TOKEN_LOG: a dialog with the first page, which begins at HEAD.  LogAction has
\* not ended yet.
OpenLog ==
    /\ dlg = 0 /\ ~undefined /\ logs < MaxLogs /\ doing = Idle
    /\ history' = history \cup newer /\ newer' = {}
    /\ LET page == Log(history', Max(history'))
       IN  /\ entries' = Kept(page)
           /\ next' = NextOf(page)
           /\ more' = HasMore(page)
           /\ rows' = [i \in DOMAIN Kept(page) |-> i]
    /\ dlg' = logs + 1
    /\ logs' = logs + 1
    /\ ascending' = FALSE
    /\ selected' = {} /\ details' = NoDetails
    /\ doing' = [kind |-> "other"]
    /\ lost' = FALSE /\ misread' = FALSE
    /\ UNCHANGED <<jobs, undefined>>

Close ==
    /\ Open
    /\ dlg' = 0
    /\ entries' = << >> /\ rows' = << >> /\ selected' = {} /\ details' = NoDetails
    /\ next' = INVALID /\ more' = FALSE /\ ascending' = FALSE
    /\ lost' = FALSE /\ misread' = FALSE
    /\ UNCHANGED <<history, newer, logs, jobs, doing, undefined>>

OnMore ==
    /\ Open /\ more /\ next # INVALID
    /\ more' = FALSE
    /\ jobs' = Append(jobs, [kind |-> "next", start |-> next, dlg |-> dlg])
    /\ UNCHANGED <<history, newer, dlg, logs, entries, next, rows, ascending, selected,
                   details, doing, lost, misread, undefined>>

\* A click selects one row, with Ctrl it adds or takes one.
Click(row) ==
    /\ Open /\ UpdateSelection({row}, row)
    /\ UNCHANGED <<history, newer, dlg, logs, entries, next, more, rows, ascending, jobs,
                   doing, lost, undefined>>

CtrlClick(row) ==
    /\ Open /\ UpdateSelection((selected \ {row}) \cup ({row} \ selected), row)
    /\ UNCHANGED <<history, newer, dlg, logs, entries, next, more, rows, ascending, jobs,
                   doing, lost, undefined>>

\* SortItems by the revision: the n-th row is the entry of the n-th revision.
SortedRows(up) ==
    LET revs == IF up THEN Ascending(Range(entries)) ELSE Descending(Range(entries))
    IN  [n \in DOMAIN entries |-> CHOOSE i \in DOMAIN entries : entries[i] = revs[n]]

\* OnColClick on the revisions.  A native control keeps its rows selected
\* wherever they go, the generic one drops the selection.
OnColClick ==
    /\ Open
    /\ ascending' = ~ascending
    /\ rows' = SortedRows(ascending')
    /\ \/ /\ selected' = {n \in DOMAIN rows' : \E r \in selected : rows[r] = rows'[n]}
          /\ UNCHANGED <<details, misread>>
       \/ selected' = {} /\ details' = NoDetails /\ misread' = FALSE
    /\ UNCHANGED <<history, newer, dlg, logs, entries, next, more, jobs, doing, lost, undefined>>

\* OnDiff on a working copy, the only branch modelled: two selected revisions,
\* or one and its prior one; with none below, the revision is left out and the
\* file compared with BASE.
OnDiff ==
    /\ Open /\ selected # {}
    /\ Cardinality({i \in DOMAIN jobs : jobs[i].kind = "diff"}) < MaxOthers
    /\ LET revs == SelectedRevisions
           second == IF Len(revs) = 2 THEN revs[2] ELSE PriorRevision(SelectedRows[1])
       IN  jobs' = Append(jobs, [kind |-> "diff", with |-> << revs[1], second >>])
    /\ UNCHANGED <<history, newer, dlg, logs, entries, next, more, rows, ascending, selected,
                   details, doing, lost, misread, undefined>>

-----------------------------------------------------------------------------
(* Frame and worker                                                        *)

\* The dialog m points to is used, whether it is still there or not.
NextLogEntriesCallback(job) ==
    IF job.dlg # dlg
    THEN undefined' = TRUE /\ UNCHANGED <<entries, next, more, rows>>
    ELSE /\ entries' = entries \o Kept(job.page)
         /\ next' = NextOf(job.page)
         /\ more' = HasMore(job.page)
         /\ rows' = rows \o [i \in DOMAIN Kept(job.page) |-> Len(rows) + i]
         /\ UNCHANGED undefined

\* Perform: accepted if the worker is idle, else refused and dropped.
Accept(job) ==
    /\ IF doing = Idle
       THEN doing' = job /\ UNCHANGED lost
       ELSE /\ lost' = (lost \/ (job.kind = "next" /\ job.dlg = dlg))
            /\ UNCHANGED doing
    /\ UNCHANGED <<entries, next, more, rows, undefined>>

Dispatch ==
    /\ jobs # << >> /\ ~undefined
    /\ IF Head(jobs).kind = "answer"
       THEN NextLogEntriesCallback(Head(jobs)) /\ UNCHANGED <<doing, lost>>
       ELSE Accept(Head(jobs))
    /\ jobs' = Tail(jobs)
    /\ UNCHANGED <<history, newer, dlg, logs, ascending, selected, details, misread>>

\* LogNextAction::Perform posts its answer before the worker is idle again.
Answer ==
    /\ doing.kind = "next"
    /\ jobs' = Append(jobs, [kind |-> "answer", dlg |-> doing.dlg,
                              page |-> Log(history \cup newer, doing.start)])
    /\ doing' = [kind |-> "other"]
    /\ UNCHANGED <<history, newer, dlg, logs, entries, next, more, rows, ascending, selected,
                   details, lost, misread, undefined>>

\* client.log throws: the action ends with a message and without an answer.
Fail ==
    /\ doing.kind = "next"
    /\ lost' = (lost \/ doing.dlg = dlg)
    /\ doing' = [kind |-> "other"]
    /\ UNCHANGED <<history, newer, dlg, logs, entries, next, more, rows, ascending, selected,
                   details, jobs, misread, undefined>>

\* The worker is done with whatever it did.
Done ==
    /\ doing.kind \in {"other", "diff"}
    /\ doing' = Idle
    /\ UNCHANGED <<history, newer, dlg, logs, entries, next, more, rows, ascending, selected,
                   details, jobs, lost, misread, undefined>>

\* Somebody commits a change of the file.
OthersCommit(r) ==
    /\ \A q \in history \cup newer : q < r
    /\ newer' = newer \cup {r}
    /\ UNCHANGED <<history, dlg, logs, entries, next, more, rows, ascending, selected,
                   details, jobs, doing, lost, misread, undefined>>

-----------------------------------------------------------------------------
LogInit ==
    /\ history \in Histories /\ newer = {}
    /\ dlg = 0 /\ logs = 0
    /\ entries = << >> /\ rows = << >> /\ selected = {} /\ details = NoDetails
    /\ next = INVALID /\ more = FALSE /\ ascending = FALSE
    /\ jobs = << >> /\ doing = Idle /\ lost = FALSE
    /\ misread = FALSE /\ undefined = FALSE

LogNext ==
    \/ OpenLog \/ Close \/ OnMore \/ OnColClick \/ OnDiff
    \/ \E row \in DOMAIN rows : Click(row) \/ CtrlClick(row)
    \/ Dispatch \/ Answer \/ Fail \/ Done
    \/ \E r \in DOMAIN Touches : OthersCommit(r)

-----------------------------------------------------------------------------
(* Properties                                                              *)

Outstanding ==
    \/ doing.kind = "next" /\ doing.dlg = dlg
    \/ \E i \in DOMAIN jobs : jobs[i].kind \in {"next", "answer"} /\ jobs[i].dlg = dlg

\* log_dlg.cpp, "only included so we know if more are available": however the
\* pages, other commands, refusals and failures follow each other and whatever is
\* committed meanwhile, the dialog shows the newest entries of the history as it
\* was when it was opened, each once and none left out.
PagesContiguous == Open => IsPrefix(entries, Descending(history))

\* Once no request is under way More is offered exactly if entries of it remain,
\* unless a request of this dialog was refused or failed.
MoreIfEntriesRemain ==
    Open /\ ~Outstanding /\ ~lost => (more <=> Len(entries) < Cardinality(history))

\* At most two revisions are selected; the message shown belongs to the only
\* one selected and the files are those that every selected revision touches,
\* also after the list was sorted; unless the selection changed while the list
\* was sorted otherwise than it came in.
DetailsMatchSelection ==
    Open /\ ~misread =>
        LET revs == {RevisionAt(r) : r \in selected}
        IN  /\ Cardinality(revs) <= 2
            /\ details.message = IF Cardinality(revs) = 1 THEN CHOOSE r \in revs : TRUE ELSE INVALID
            /\ details.files = IF revs = {} THEN {} ELSE {p \in UNION {Touches[r] : r \in revs} :
                                                             \A r \in revs : p \in Touches[r]}

\* "Diff" of one revision shows what it changed: it is compared with the
\* revision of the file before it, also across the border of two pages, unless
\* it is the last one shown or the list was sorted.
DiffShowsTheChange ==
    [][\A d \in Range(jobs') \ Range(jobs) :
          d.kind = "diff" /\ Cardinality(selected) = 1 /\ InOrder /\ d.with[2] # INVALID =>
              /\ d.with[2] < d.with[1]
              /\ \A r \in history \cup newer : r < d.with[1] => r <= d.with[2]]_logVars
=============================================================================
