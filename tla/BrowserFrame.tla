---------------------------- MODULE BrowserFrame ----------------------------
(***************************************************************************)
(* librapidsvn/src/main_frame.cpp with the folder browser: which path and  *)
(* which context the frame, its file list and the action in flight use,    *)
(* and when the list is refreshed.                                         *)
(*                                                                         *)
(* A refresh of the tree reads the selected bookmark's folders; for a url  *)
(* that may ask for a login, and the dialog's event loop dispatches the    *)
(* worker's events.  pending holds the refreshes that wait there.  The     *)
(* worker is reduced to what it does to the frame: module ThreadedWorker   *)
(* has its steps.                                                          *)
(***************************************************************************)
EXTENDS FolderBrowser

CONSTANTS
    WhileRunning,   \* are the menus Bookmarks and View, which stay enabled
                    \* while an action runs, used then?
    Switching       \* does the user change between one login for all
                    \* bookmarks and one for each?

ASSUME UserAssumption == WhileRunning \in BOOLEAN /\ Switching \in BOOLEAN

VARIABLES
    frame,      \* MainFrame and MainFrame::Data
    job,        \* the action the worker has, or None
    queue,      \* events posted to the frame
    pending     \* tree refreshes waiting for a login, innermost first

vars == <<fb, present, frame, job, queue, pending>>

FlagSet == {"none", "dont", "later", "tree"}

\* path: currentPath; ctx: m_context; flat: the file list's mode; later:
\* updateAfterActivate.  History: lost, the last refresh did not find the
\* folder that was selected; stale, the list was filled with another path or
\* before an action changed what it shows.
FrameData == [path: Nodes, ctx: Contexts \cup {Default, None}, flat: BOOLEAN,
              running: BOOLEAN, dontUpdate: BOOLEAN, skip: BOOLEAN,
              later: BOOLEAN, lost: BOOLEAN, stale: BOOLEAN]

Job == [ctx: Contexts \cup {Default, None}, flags: FlagSet,
        adds: Bookmarks \cup {None}]

\* The null pointer is no action.
ASSUME JobAssumption == None \notin Job

Event == [tok: {"ADD_BOOKMARK", "END"}, flags: FlagSet,
          name: Bookmarks \cup {None}]

\* A tree refresh and what its caller does next: nothing, select a
\* bookmark, select and show it, or end an action.
TreeRefresh == [bookmark: Bookmarks \cup {None}, path: Nodes, was: BOOLEAN,
                then: {"return", "select", "show", "end"},
                name: Bookmarks \cup {None}]

-----------------------------------------------------------------------------
(* Steps of the handlers                                                   *)

UpdateCurrentPath(f, o) == [f EXCEPT !.path = o.sel, !.ctx = GetContext(o),
                                     !.stale = @ \/ o.sel # f.path,
                                     !.lost = FALSE]

RefreshFileList(f) == IF f.dontUpdate THEN f ELSE [f EXCEPT !.stale = FALSE]

\* OnFolderBrowserSelChanged, which wxTreeCtrl calls when the selection has
\* moved from the one in was to the one in o.
SelChanged(f, was, o) ==
    IF was.sel = o.sel \/ f.running THEN f
    ELSE RefreshFileList(UpdateCurrentPath([f EXCEPT !.flat = IsFlat(o)], o))

JobContexts == IF job = None THEN {} ELSE {job.ctx}

\* Contexts whose identity may not be given to a new object yet.
Used(o) == OwnedContexts(fb) \cup OwnedContexts(o) \cup {frame.ctx} \cup JobContexts

\* The step ends with the browser at o, the frame at f and the job at j.
\* Deleted contexts are remembered as long as anybody points to them.
Becomes(o, f, j) ==
    /\ fb' = [o EXCEPT !.freed = @ \cap ({f.ctx} \cup
                                   IF j = None THEN {} ELSE {j.ctx})]
    /\ frame' = f
    /\ job' = j

\* MainFrame::RefreshFolderBrowser and FolderBrowser::RefreshFolderBrowser up
\* to the point where the folders of the remembered bookmark are read.  The
\* selection changes on the way are not noticed: the frame is running.
BeginRefresh(o, f, then, name) ==
    LET b  == BookmarkOf(o.sel)
        o1 == Expand(Collapse(o, Root), Root)
        f1 == [f EXCEPT !.running = TRUE,
                        !.dontUpdate = IF f.skip THEN @ ELSE TRUE]
    IN  /\ Becomes(IF b = None THEN o1 ELSE SelectBookmark(o1, b), f1, job)
        /\ pending' = << [bookmark |-> IF b \in o1.nodes THEN b ELSE None,
                          path |-> o.sel, was |-> f.running,
                          then |-> then, name |-> name] >> \o pending

\* The event loop runs: the outer one, or that of a login dialog.
Dispatching == pending # << >> => Head(pending).bookmark \in Urls

Take(tok) == Dispatching /\ queue # << >> /\ Head(queue).tok = tok /\ queue' = Tail(queue)

-----------------------------------------------------------------------------
(* Faulty variants of definitions below: bugs the properties must notice.  *)

\* The tree refresh forgets to allow file list updates again when nothing
\* was running before.
RefreshedStuck(f, e, o) ==
    LET f1 == [f EXCEPT !.running = e.was /\ @,
                        !.lost = @ \/ o.sel # e.path]
        f2 == IF f1.skip THEN f1
              ELSE RefreshFileList([f1 EXCEPT !.dontUpdate = ~e.was])
    IN  [f2 EXCEPT !.skip = FALSE]

\* Every end of an action that may change files refreshes the tree.
DispatchEndTree ==
    /\ Take("END")
    /\ LET flags == Head(queue).flags
       IN  IF flags \in {"none", "tree"}
           THEN BeginRefresh(fb, frame, "end", None)
           ELSE /\ Becomes(fb, [frame EXCEPT !.later = @ \/ flags = "later",
                                            !.running = FALSE], job)
                /\ UNCHANGED pending
    /\ UNCHANGED present

\* The handler of TOKEN_ADD_BOOKMARK relies on the selection event.
ShowBookmarkByEvent(f, was, o) == SelChanged(f, was, o)

-----------------------------------------------------------------------------
\* The rest of the two functions.
Refreshed(f, e, o) ==
    LET f1 == [f EXCEPT !.running = e.was /\ @,
                        !.lost = @ \/ o.sel # e.path]
        f2 == IF f1.skip THEN f1
              ELSE RefreshFileList([f1 EXCEPT !.dontUpdate = FALSE])
    IN  [f2 EXCEPT !.skip = FALSE]

\* TOKEN_ADD_BOOKMARK once the bookmark is selected.
ShowBookmark(f, was, o) ==
    RefreshFileList(UpdateCurrentPath(SelChanged(f, was, o), o))

\* The members as the constructors leave them.
NewFrame == [path |-> Root, ctx |-> None, flat |-> FALSE, running |-> FALSE,
             dontUpdate |-> FALSE, skip |-> FALSE, later |-> FALSE,
             lost |-> FALSE, stale |-> FALSE]

\* After the constructor: bookmarks read from the configuration, contexts
\* made by SetAuthPerBookmark.
Init ==
    /\ present = Folders
    /\ \E S \in SUBSET Bookmarks, flat \in BOOLEAN, perBookmark \in BOOLEAN :
          fb = SetAuthPerBookmark(
                 [bm |-> [b \in S |-> [ctx |-> None, flat |-> flat]],
                  single |-> None, nodes |-> S, open |-> {Root}, sel |-> Root,
                  freed |-> {}], perBookmark, {None})
    /\ frame = UpdateCurrentPath(NewFrame, fb)
    /\ job = None
    /\ queue = << >>
    /\ pending = << >>

-----------------------------------------------------------------------------
(* What the user does                                                      *)

\* Tree and file list take input only while nothing is running.
Enabled == pending = << >> /\ ~frame.running

\* The menus Bookmarks, View and Extras have no update handler.
MenuEnabled == pending = << >> /\ (WhileRunning \/ ~frame.running)

SelectNode(n) ==
    /\ Enabled
    /\ n \in fb.nodes \cup {Root}
    /\ LET o == [fb EXCEPT !.sel = n]
       IN  Becomes(o, SelChanged(frame, fb, o), job)
    /\ UNCHANGED <<present, queue, pending>>

OnExpandItem(n) ==
    /\ Enabled
    /\ n \in (fb.nodes \cup {Root}) \ fb.open
    /\ Becomes(Expand(fb, n), frame, job)
    /\ UNCHANGED <<present, queue, pending>>

\* Also OnTreeKeyDown, which collapses the parent of the selection.
OnCollapseItem(n) ==
    /\ Enabled
    /\ n \in fb.open
    /\ LET o == Collapse(fb, n)
       IN  Becomes(o, SelChanged(frame, fb, o), job)
    /\ UNCHANGED <<present, queue, pending>>

\* A directory in the file list is opened.
InvokeDefaultAction(dir) ==
    /\ Enabled
    /\ frame.path # Root
    /\ dir \in present
    /\ FolderIn[dir] = frame.path \/ (frame.flat /\ frame.path \in Ancestry[dir])
    /\ LET o == SelectFolder(fb, dir)
       IN  Becomes(o, SelChanged(frame, fb, o), job)
    /\ UNCHANGED <<present, queue, pending>>

\* MainFrame::Perform for a command on the selection.  The worker of an
\* earlier action is done: module ThreadedWorker shows when it is not.
Perform(flags, adds) ==
    /\ Enabled
    /\ job = None
    /\ Becomes(fb, [frame EXCEPT !.running = TRUE],
               [ctx |-> frame.ctx, flags |-> flags, adds |-> adds])
    /\ UNCHANGED <<present, queue, pending>>

\* OnRefresh, OnRefreshWithUpdate, OnIndicateModifiedChildren
OnRefresh ==
    /\ MenuEnabled
    /\ BeginRefresh(fb, frame, "return", None)
    /\ UNCHANGED <<present, queue>>

OnFlatView ==
    /\ MenuEnabled
    /\ LET o == SetFlat(fb, ~IsFlat(fb))
       IN  Becomes(o, RefreshFileList([frame EXCEPT !.flat = IsFlat(o)]), job)
    /\ UNCHANGED <<present, queue, pending>>

\* AddWcBookmark, AddRepoBookmark.  The stored path may differ from the one
\* entered (a trailing separator, ".."); then it is not found afterwards.
AddWcBookmark(b) ==
    /\ MenuEnabled
    /\ \E asStored \in BOOLEAN :
          BeginRefresh(AddBookmark(fb, b, Used(fb)), [frame EXCEPT !.skip = TRUE],
                       "select", IF asStored THEN b ELSE None)
    /\ UNCHANGED <<present, queue>>

OnRemoveBookmark ==
    /\ MenuEnabled
    /\ fb.sel \in Bookmarks
    /\ LET o == SelectFolder(fb, Root)
       IN  Becomes(RemoveBookmark(o, fb.sel), SelChanged(frame, fb, o), job)
    /\ UNCHANGED <<present, queue, pending>>

EditBookmark(b) ==
    /\ MenuEnabled
    /\ fb.sel \in Bookmarks \ {b}
    /\ LET o  == SelectFolder(fb, Root)
           o1 == RemoveBookmark(o, fb.sel)
       IN  \E asStored \in BOOLEAN :
              BeginRefresh(AddBookmark(o1, b, Used(o1)),
                           SelChanged(frame, fb, o),
                           "select", IF asStored THEN b ELSE None)
    /\ UNCHANGED <<present, queue>>

ShowPreferences ==
    /\ MenuEnabled
    /\ \E perBookmark \in BOOLEAN :
          /\ Switching \/ perBookmark = (fb.single = None)
          /\ Becomes(SetAuthPerBookmark(fb, perBookmark, Used(fb)), frame, job)
    /\ UNCHANGED <<present, queue, pending>>

\* A path in the log window, which is enabled at all times; isFile if it is
\* a file in that folder.
OnLogListBrowse(path, isFile) ==
    /\ MenuEnabled
    /\ path \in present \cup Bookmarks
    /\ \E b \in ContainingBookmarks(fb, path) \cap fb.nodes :
          LET o1 == SelectBookmark(fb, b)
              f1 == SelChanged(frame, fb, o1)
              o2 == SelectFolder(o1, path)
              f2 == SelChanged(f1, o1, o2)
          IN  Becomes(o2,
                      IF o2.sel = path /\ isFile
                      THEN RefreshFileList(UpdateCurrentPath(f2, o2))
                      ELSE f2,
                      job)
    /\ UNCHANGED <<present, queue, pending>>

OnActivate ==
    /\ Dispatching
    /\ \/ frame.later
       \/ BookmarkOf(frame.path) \notin Urls /\ ~frame.flat /\ ~frame.running
    /\ Becomes(fb, RefreshFileList([frame EXCEPT !.later = FALSE]), job)
    /\ UNCHANGED <<present, queue, pending>>

\* The frame is closed and the program started again.
Restart ==
    /\ pending = << >> /\ queue = << >> /\ job = None
    /\ \E resetFlat \in BOOLEAN :
          LET o == SetAuthPerBookmark(Reloaded(fb, resetFlat), fb.single = None,
                                      {None})
          IN  BeginRefresh(o, UpdateCurrentPath(NewFrame, o), "return", None)
    /\ UNCHANGED <<present, queue>>

-----------------------------------------------------------------------------
(* The worker and its events                                               *)

\* The action does what it does, with its context, and ends or fails.  A failure
\* posts TOKEN_(SVN_)INTERNAL_ERROR in place of TOKEN_ACTION_END; its handler
\* refreshes the list and clears running, as for an end without flags.
WorkerEnds ==
    /\ job # None
    /\ present' \in {present} \cup {present \ (Below(f) \cup {f}) : f \in Folders}
                    \cup {present \cup (Folders \cap Ancestry[f]) : f \in Folders}
    /\ \E done \in BOOLEAN, flags \in {job.flags, "none"} :
          queue' = queue \o
             (IF done /\ job.adds # None
              THEN << [tok |-> "ADD_BOOKMARK", flags |-> "none", name |-> job.adds] >>
              ELSE << >>)
             \o << [tok |-> "END", flags |-> flags, name |-> None] >>
    /\ Becomes(fb, [frame EXCEPT !.stale = @ \/ job.flags # "dont"], None)
    /\ UNCHANGED pending

DispatchAddBookmark ==
    /\ Take("ADD_BOOKMARK")
    /\ LET b == Head(queue).name
       IN  \E asStored \in BOOLEAN :
              BeginRefresh(AddBookmark(fb, b, Used(fb)), frame, "show",
                           IF asStored THEN b ELSE None)
    /\ UNCHANGED present

\* TOKEN_ACTION_END, and with "none" also TOKEN_(SVN_)INTERNAL_ERROR.
DispatchEnd ==
    /\ Take("END")
    /\ LET flags == Head(queue).flags
           f     == IF flags = "later" THEN [frame EXCEPT !.later = TRUE]
                    ELSE IF flags = "none" THEN RefreshFileList(frame)
                    ELSE frame
       IN  IF flags = "tree"
           THEN BeginRefresh(fb, frame, "end", None)
           ELSE /\ Becomes(fb, [f EXCEPT !.running = FALSE], job)
                /\ UNCHANGED pending
    /\ UNCHANGED present

\* The login dialog, if there was one, is closed, the folders are read, and
\* the callers of the refresh finish.
FinishRefresh ==
    /\ pending # << >>
    /\ pending' = Tail(pending)
    /\ LET e  == Head(pending)
           o1 == IF e.bookmark = None THEN fb
                 ELSE SelectFolder(Expand(fb, e.bookmark), e.path)
           o2 == IF e.name = None THEN o1 ELSE SelectBookmark(o1, e.name)
           f1 == Refreshed(frame, e, o1)
       IN  Becomes(o2,
                   CASE e.then = "return" -> f1
                     [] e.then = "select" -> SelChanged(f1, o1, o2)
                     [] e.then = "show"   -> ShowBookmark(f1, o1, o2)
                     [] e.then = "end"    -> [f1 EXCEPT !.running = FALSE],
                   job)
    /\ UNCHANGED <<present, queue>>

UserNext ==
    \/ \E n \in Nodes : SelectNode(n) \/ OnExpandItem(n) \/ OnCollapseItem(n)
    \/ \E d \in Folders : InvokeDefaultAction(d)
    \/ \E flags \in FlagSet : Perform(flags, None)
    \/ \E b \in Bookmarks :
          Perform("none", b) \/ AddWcBookmark(b) \/ EditBookmark(b)
    \/ OnRefresh \/ OnFlatView \/ OnRemoveBookmark \/ ShowPreferences
    \/ \E p \in Folders \cup Bookmarks, isFile \in BOOLEAN :
          OnLogListBrowse(p, isFile)
    \/ OnActivate
    \/ Restart

Next == UserNext \/ WorkerEnds \/ DispatchAddBookmark \/ DispatchEnd \/ FinishRefresh

Spec == Init /\ [][Next]_vars

-----------------------------------------------------------------------------
(* Properties                                                              *)

TypeOK ==
    /\ fb \in Data
    /\ present \in SUBSET Folders
    /\ frame \in FrameData
    /\ job \in Job \cup {None}
    /\ queue \in Seq(Event)
    /\ pending \in Seq(TreeRefresh)

\* The action in flight has a context, and nobody has deleted it.  (A
\* comment in action.cpp: "the context under which the action will be
\* performed".)
ActionsHaveContext == job # None => job.ctx # None /\ job.ctx \notin fb.freed

\* Whoever uses a context next has one that exists: the frame gives m_context
\* to every action and to the file list, and the action in flight uses the
\* one it was given.  (main_frame.cpp only reads m_context again when the
\* selection changes, folder_browser.cpp deletes contexts at other times.)
NoDanglingContext ==
    /\ frame.ctx # None /\ frame.ctx \notin fb.freed
    /\ ActionsHaveContext

\* Either there is a single login and no bookmark has a context, or every
\* bookmark has one of its own.  (folder_browser.hpp, SetAuthPerBookmark; a
\* bookmark without one makes GetContext return a null pointer.)
OneLoginOrOneEach ==
    IF fb.single # None
    THEN \A b \in DOMAIN fb.bm : fb.bm[b].ctx = None
    ELSE \A b \in DOMAIN fb.bm :
            /\ fb.bm[b].ctx # None
            /\ \A c \in DOMAIN fb.bm \ {b} : fb.bm[c].ctx # fb.bm[b].ctx

\* While the user can give commands they act on the folder that is selected
\* in the tree, unless the last refresh found that folder gone.
CommandsUseSelection == Enabled /\ ~frame.lost => frame.path = fb.sel

\* When everything has come to rest the list shows the current path and what
\* the actions did there: no suppressed refresh is lost, whichever handlers
\* were nested in the refresh that suppressed it.
ListIsFresh ==
    Enabled /\ job = None /\ queue = << >> /\ ~frame.later
        => ~frame.stale

\* A checkout that asked for a bookmark ends with this bookmark selected,
\* current and listed, although the tree is rebuilt under the running frame,
\* which ignores selection changes.
AddedBookmarkIsShown ==
    [][FinishRefresh /\ Head(pending).then = "show" /\ Head(pending).name # None
         => LET b == Head(pending).name
            IN  fb'.sel = b /\ frame'.path = b /\ ~frame'.stale]_vars

\* No tree refresh starts while another one waits for a login inside an
\* expansion: it would delete the item that is being filled.
NoNestedTreeRefresh == Len(pending) <= 1
=============================================================================
