----------------------------- MODULE MainFrame ------------------------------
(***************************************************************************)
(* librapidsvn/src/main_frame.cpp: the event loop that starts actions and  *)
(* takes the worker's events, composed with the worker thread.             *)
(*                                                                         *)
(* The main thread runs one handler at a time, but a handler that opens a  *)
(* modal dialog runs an event loop inside it, and that loop dispatches     *)
(* pending events to the frame like the outer one.  stack holds the        *)
(* handlers that wait for their dialog, innermost first.                   *)
(***************************************************************************)
EXTENDS ThreadedWorker

CONSTANTS
    MaxDepth,   \* bound: how many dialogs are open on top of each other
    Reentrant   \* may events that start an action be dispatched while an
                \* action's Prepare waits for its dialog?

ASSUME DepthAssumption     == MaxDepth \in Nat
ASSUME ReentrantAssumption == Reentrant \in BOOLEAN

VARIABLES
    stack,                  \* handlers waiting for their dialog
    running,                \* m_running
    isCancelled,            \* Listener::Data::isCancelled
    updateAfterActivate,    \* set by an UPDATE_LATER action
    isErrorDialogActive,    \* m_isErrorDialogActive
    stopped                 \* history: the actions the user pressed Stop for:
                            \* that were in the worker's hands, or done but
                            \* not in the file list yet

frameVars == <<stack, running, isCancelled, updateAfterActivate,
               isErrorDialogActive, stopped>>
vars == <<workerVars, frameVars>>

\* "prepare": ThreadedWorker::Perform in Action::Prepare; "error": message
\* box of TOKEN_ERROR; "internal": that of TOKEN_SVN_INTERNAL_ERROR; "log":
\* the LogDlg of TOKEN_LOG.
Frame == [kind: {"prepare", "error", "internal", "log"},
          act: Actions \cup {None}]

Dialog(k)  == [kind |-> k, act |-> None]
Preparing(a) == [kind |-> "prepare", act |-> a]
InPrepare  == \E i \in 1..Len(stack) : stack[i].kind = "prepare"

Push(f) == Len(stack) < MaxDepth /\ stack' = <<f>> \o stack
OnTop(k) == stack # << >> /\ Head(stack).kind = k
Pop     == stack' = Tail(stack)

Init ==
    /\ WorkerInit
    /\ stack = << >>
    /\ running = FALSE
    /\ isCancelled = FALSE
    /\ updateAfterActivate = FALSE
    /\ isErrorDialogActive = FALSE
    /\ stopped = {}

-----------------------------------------------------------------------------
(* Helpers of MainFrame::Data                                              *)

\* The cancel flag after SetRunning(true): reset unless already running.
CancelAfterSetRunning(c) == IF running THEN c ELSE FALSE

\* RefreshFileList with the cancel flag at c: it calls SetRunning(true)
\* first when nothing is running, and the status calls of an update that
\* is cancelled throw, which leaves an empty list.
RefreshFileList(c) ==
    /\ isCancelled' = CancelAfterSetRunning(c)
    /\ unseen' = IF CancelAfterSetRunning(c) THEN unseen ELSE {}

\* The event at the head of the queue, and its removal.
Next1(tok) == queue # << >> /\ Head(queue).tok = tok
Take       == queue' = Tail(queue)

-----------------------------------------------------------------------------
(* Faulty variants of definitions below: bugs the properties must notice.  *)

\* MainFrame::Perform does not reset the cancel flag.
PerformKeepsCancel(a, q) ==
    /\ \/ Refuse(a, q) /\ UNCHANGED stack
       \/ BeginPrepare(a, q) /\ Push(Preparing(a))
    /\ UNCHANGED <<running, isCancelled, updateAfterActivate,
                   isErrorDialogActive, stopped>>

\* The handler of TOKEN_SVN_INTERNAL_ERROR does not reset the cancel flag.
CloseInternalErrorCancelled ==
    /\ OnTop("internal")
    /\ Pop
    /\ isErrorDialogActive' = FALSE
    /\ RefreshFileList(isCancelled)
    /\ running' = FALSE
    /\ UNCHANGED <<action, state, result, threadVars, queue, heap, accepted,
                   refused, performs, threw, updateAfterActivate, stopped>>

\* The handler of TOKEN_ACTION_END leaves the frame running.
DispatchEndRunning ==
    /\ Next1("ACTION_END")
    /\ Take
    /\ IF Head(queue).flags \in {"none", "tree"}
       THEN RefreshFileList(isCancelled)
       ELSE UNCHANGED <<isCancelled, unseen>>
    /\ updateAfterActivate' = (Head(queue).flags = "later"
                               \/ updateAfterActivate)
    /\ UNCHANGED <<action, state, result, threadVars, heap, accepted, refused,
                   performs, threw, stack, running, isErrorDialogActive,
                   stopped>>

-----------------------------------------------------------------------------
\* MainFrame::Perform up to the point where it returns or waits in Prepare.
Perform(a, q) ==
    /\ isCancelled' = FALSE
    /\ \/ Refuse(a, q) /\ UNCHANGED stack
       \/ BeginPrepare(a, q) /\ Push(Preparing(a))
    /\ UNCHANGED <<running, updateAfterActivate, isErrorDialogActive, stopped>>

-----------------------------------------------------------------------------
(* What the user does                                                      *)

\* A file command: enabled by OnUpdateCommand only while nothing runs, and
\* only when no dialog is in front of the frame.
FileCommand(a) ==
    /\ stack = << >>
    /\ ~running
    /\ heap[a] = "unborn"
    /\ Perform(a, queue)

\* A button of LogDlg or of CommitDlg, or files dropped onto the frame:
\* posts TOKEN_GET, TOKEN_VIEW, TOKEN_DIFF, TOKEN_MERGE, ...
RequestAction(a) ==
    /\ heap[a] = "unborn"
    /\ \/ OnTop("log")
       \/ OnTop("prepare") /\ Reentrant
       \/ stack = << >> /\ ~running
    /\ heap' = [heap EXCEPT ![a] = "requested"]
    /\ queue' = Post(queue, Request(a))
    /\ UNCHANGED <<action, state, result, threadVars, historyVars, frameVars>>

\* OnStop; the tool is enabled by SetRunning.
OnStop ==
    /\ stack = << >>
    /\ running
    /\ isCancelled' = TRUE
    /\ stopped' = stopped \cup unseen
                   \cup ({IF InPerform THEN wact ELSE action} \ {None})
    /\ UNCHANGED <<workerVars, stack, running, updateAfterActivate,
                   isErrorDialogActive>>

\* OnActivate, when it refreshes: local stands for a path that is no URL
\* in a bookmark that is not flat.  The frame is also activated while a
\* dialog is open, which is why the code asks for the error dialog.
OnActivate ==
    /\ \E local \in BOOLEAN :
          updateAfterActivate \/ (local /\ ~running /\ ~isErrorDialogActive)
    /\ updateAfterActivate' = FALSE
    /\ RefreshFileList(isCancelled)
    /\ UNCHANGED <<action, state, result, threadVars, queue, heap, accepted,
                   refused, performs, threw, stack, running, isErrorDialogActive,
                   stopped>>

-----------------------------------------------------------------------------
(* The innermost dialog is answered                                        *)

\* The dialog of Prepare was confirmed: the action is accepted.
PrepareSucceeds ==
    /\ OnTop("prepare")
    /\ PublishAction(Head(stack).act)
    /\ Pop
    /\ isCancelled' = CancelAfterSetRunning(isCancelled)
    /\ running' = TRUE
    /\ UNCHANGED <<updateAfterActivate, isErrorDialogActive, stopped>>

PrepareDoesNot ==
    /\ OnTop("prepare")
    /\ \E how \in {"ABORTED", "ERROR"} : PrepareFails(Head(stack).act, how)
    /\ Pop
    /\ UNCHANGED <<running, isCancelled, updateAfterActivate,
                   isErrorDialogActive, stopped>>

CloseError ==
    /\ OnTop("error")
    /\ Pop
    /\ isErrorDialogActive' = FALSE
    /\ UNCHANGED <<workerVars, running, isCancelled, updateAfterActivate,
                   stopped>>

\* The rest of the TOKEN_SVN_INTERNAL_ERROR handler.
CloseInternalError ==
    /\ OnTop("internal")
    /\ Pop
    /\ isErrorDialogActive' = FALSE
    /\ RefreshFileList(FALSE)
    /\ running' = FALSE
    /\ UNCHANGED <<action, state, result, threadVars, queue, heap, accepted,
                   refused, performs, threw, updateAfterActivate, stopped>>

CloseLogDlg ==
    /\ OnTop("log")
    /\ Pop
    /\ UNCHANGED <<workerVars, running, isCancelled, updateAfterActivate,
                   isErrorDialogActive, stopped>>

CloseDialog == \/ PrepareSucceeds \/ PrepareDoesNot \/ CloseError
               \/ CloseInternalError \/ CloseLogDlg

-----------------------------------------------------------------------------
(* OnActionEvent: the event at the head of the queue is dispatched.        *)

DispatchStart ==
    /\ Next1("START")
    /\ Take
    /\ UNCHANGED <<action, state, result, threadVars, heap, historyVars,
                   frameVars>>

\* TOKEN_GET, TOKEN_VIEW, TOKEN_DIFF, ...: new ...Action, Perform.
DispatchRequest ==
    /\ Next1("REQUEST")
    /\ InPrepare => Reentrant
    /\ Perform(Head(queue).act, Tail(queue))

DispatchError ==
    /\ Next1("ERROR")
    /\ Take
    /\ Push(Dialog("error"))
    /\ isErrorDialogActive' = TRUE
    /\ UNCHANGED <<action, state, result, threadVars, heap, historyVars,
                   running, isCancelled, updateAfterActivate, stopped>>

DispatchInternalError ==
    /\ Next1("SVN_INTERNAL_ERROR")
    /\ Take
    /\ Push(Dialog("internal"))
    /\ isErrorDialogActive' = TRUE
    /\ UNCHANGED <<action, state, result, threadVars, heap, historyVars,
                   running, isCancelled, updateAfterActivate, stopped>>

\* UPDATE_LATER postpones the refresh, DONT_UPDATE leaves it out; UPDATE_TREE
\* refreshes the folder browser, which ends with the same RefreshFileList.
DispatchEnd ==
    /\ Next1("ACTION_END")
    /\ Take
    /\ IF Head(queue).flags \in {"none", "tree"}
       THEN RefreshFileList(isCancelled)
       ELSE UNCHANGED <<isCancelled, unseen>>
    /\ updateAfterActivate' = (Head(queue).flags = "later"
                               \/ updateAfterActivate)
    /\ running' = FALSE
    /\ UNCHANGED <<action, state, result, threadVars, heap, accepted, refused,
                   performs, threw, stack, isErrorDialogActive, stopped>>

\* if (action != 0) delete action;
DispatchDelete ==
    /\ Next1("DELETE_ACTION")
    /\ Take
    /\ LET a == Head(queue).act
       IN  heap' = IF a # None THEN [heap EXCEPT ![a] = "freed"] ELSE heap
    /\ UNCHANGED <<action, state, result, threadVars, historyVars, frameVars>>

DispatchLog ==
    /\ Next1("LOG")
    /\ Take
    /\ Push(Dialog("log"))
    /\ UNCHANGED <<action, state, result, threadVars, heap, historyVars,
                   running, isCancelled, updateAfterActivate,
                   isErrorDialogActive, stopped>>

Dispatch == \/ DispatchStart \/ DispatchRequest \/ DispatchError
            \/ DispatchInternalError \/ DispatchEnd \/ DispatchDelete
            \/ DispatchLog

-----------------------------------------------------------------------------
UserNext == \/ \E a \in Actions : FileCommand(a) \/ RequestAction(a)
            \/ OnStop
            \/ OnActivate

WorkerStep == WorkerNext /\ UNCHANGED frameVars

Next == WorkerStep \/ UserNext \/ CloseDialog \/ Dispatch

\* The operating system schedules both threads, every Perform ends, the
\* event loop dispatches what is pending and the user answers dialogs.
Fairness == /\ WF_vars(WorkerStep)
            /\ WF_vars(Dispatch)
            /\ WF_vars(CloseDialog)

Spec == Init /\ [][Next]_vars

FairSpec == Spec /\ Fairness

-----------------------------------------------------------------------------
(* Properties that hold however the handlers nest                          *)

TypeOK ==
    /\ action \in Actions \cup {None}
    /\ state \in {"NONE", "INIT", "RUNNING"}
    /\ result \in {"NOTHING", "ABORTED", "ERROR", "SUCCESS"}
    /\ wpc \in {"poll", "start", "perform", "logged", "end", "delete", "clear"}
    /\ wact \in Actions \cup {None}
    /\ wflags \in FlagSet
    /\ queue \in Seq(Event)
    /\ heap \in [Actions -> HeapStates]
    /\ accepted \in SUBSET Actions
    /\ refused \in SUBSET Actions
    /\ performs \in [Actions -> Nat]
    /\ threw \in SUBSET Actions
    /\ unseen \in SUBSET Actions
    /\ stack \in Seq(Frame)
    /\ running \in BOOLEAN
    /\ isCancelled \in BOOLEAN
    /\ updateAfterActivate \in BOOLEAN
    /\ isErrorDialogActive \in BOOLEAN
    /\ stopped \in SUBSET Actions

\* Whatever the worker thread dereferences is an object nobody has deleted:
\* the one whose Perform it is inside, and *m->action as long as it will
\* still read the pointer.  (threaded_worker.cpp reads m->action six times
\* without a lock while the frame deletes objects.)
NoUseAfterFree ==
    /\ InPerform => heap[wact] = "live"
    /\ wpc \in {"start", "perform", "logged", "end", "delete"}
         => action # None /\ heap[action] = "live"

\* No object is deleted twice: every TOKEN_DELETE_ACTION in the queue names
\* an object that is still alive, and no two name the same.
NoDoubleFree ==
    \A i \in 1..Len(queue) :
        queue[i].tok = "DELETE_ACTION" /\ queue[i].act # None =>
            /\ heap[queue[i].act] = "live"
            /\ \A j \in 1..Len(queue) :
                  queue[j] = queue[i] => i = j

\* A commit or a delete is carried out at most once, although the worker
\* polls the same pointer again every 10 ms.
PerformedAtMostOnce == \A a \in Actions : performs[a] <= 1

\* Only what Perform accepted is ever run: an action whose Prepare is still
\* waiting for its dialog, was cancelled or refused does nothing.
OnlyAcceptedPerformed ==
    \A a \in Actions : performs[a] > 0 => a \in accepted

\* A Stop pressed for one action never cancels another one: while an action
\* runs with the cancel flag set, it was this action the user stopped.
StopHitsItsTarget == InPerform /\ isCancelled => wact \in stopped

-----------------------------------------------------------------------------
(* Properties of runs in which no action is started from inside Prepare    *)

\* How far the worker is with an action, seen from action_worker.hpp.
StatusOf(a) ==
    IF heap[a] \in {"unborn", "requested"} THEN "new"
    ELSE IF a \in refused THEN "refused"
    ELSE IF heap[a] = "freed" THEN "released"
    ELSE IF a \notin accepted THEN "offered"
    ELSE IF performs[a] = 0 THEN "accepted"
    ELSE IF InPerform /\ wact = a THEN "running"
    ELSE "finished"

Promise == INSTANCE ActionWorker
              WITH status <- [a \in Actions |-> StatusOf(a)]

\* The frame and the worker thread together keep the promise of
\* action_worker.hpp, as far as it is about safety.
KeepsPromise == Promise!Spec

\* The worker's half of the promise: what it accepted it runs, finishes and
\* releases.
KeepsPromiseFairly == Promise!FairSpec

\* GetState says RUNNING exactly while the worker is inside an action.
StateIsTruthful == (state = "RUNNING") = InPerform

\* Nothing is pending anywhere.
AtRest == stack = << >> /\ queue = << >> /\ wpc = "poll" /\ action = None

\* Once everything is at rest the file list shows what the actions did,
\* except for what finished in spite of the user's Stop, because the refresh
\* after it is cancelled with it.  What the Stop interrupted is shown.
ListCatchesUp == AtRest => unseen \subseteq stopped \ threw

\* The frame never stays in its "running" state, with tree and list
\* disabled, for good.
UIRecovers == running ~> ~running

-----------------------------------------------------------------------------
(* What comments in the code say, and the code does not keep               *)

\* action_worker.hpp: "In this case you have to release action".
RefusedAreReleased == AtRest => \A a \in refused : heap[a] = "freed"

\* action_worker.hpp: an accepted action is "released after its finished".
ReleasedWhenFinished ==
    AtRest => \A a \in accepted : heap[a] = "freed" /\ performs[a] = 1

\* main_frame.cpp, OnActivate: refresh "NOT if another action is running".
NoRefreshDuringAction == [][OnActivate => ~InPerform]_vars
=============================================================================
