--------------------------- MODULE ThreadedWorker ---------------------------
(***************************************************************************)
(* librapidsvn/src/threaded_worker.cpp: the thread that runs actions.      *)
(*                                                                         *)
(* The main thread hands an action over by writing the pointer m->action   *)
(* without a lock; the worker polls it every 10 ms, dereferences it again  *)
(* for every use, reports to the main frame with posted events and writes  *)
(* 0 into it as its very last step.  Every read and write of the pointer   *)
(* that the other thread can come between is a step of its own.            *)
(*                                                                         *)
(* The operators of the main thread (Refuse, BeginPrepare, PrepareFails,   *)
(* PublishAction, DeleteAction) leave queue to the caller where the caller *)
(* takes an event off it in the same step.                                 *)
(***************************************************************************)
EXTENDS Naturals, Sequences

CONSTANTS Actions,  \* the Action objects the program ever creates
          None,     \* the null pointer
          Flags,    \* the flags each action was constructed with
          LogActions \* the actions whose Perform posts a TOKEN_LOG

\* action.cpp: no flag, DONT_UPDATE, UPDATE_LATER or UPDATE_TREE.
FlagSet == {"none", "dont", "later", "tree"}

ASSUME ActionsAssumption == None \notin Actions
ASSUME FlagsAssumption   == Flags \in [Actions -> FlagSet]
ASSUME LogAssumption     == LogActions \subseteq Actions

VARIABLES
    action,     \* m->action, shared by both threads without a lock
    state,      \* m->state
    result,     \* m->result
    wpc,        \* where the worker thread is in ExecuteAction
    wact,       \* the object whose Action::Perform the worker is inside
    wflags,     \* the local variable actionFlags of ExecuteAction
    queue,      \* events posted to the main frame and not yet dispatched
    heap,       \* life of each Action object
    accepted,   \* history: ThreadedWorker::Perform returned true
    refused,    \* history: it returned false before taking the action
    performs,   \* history: how often Action::Perform was entered
    threw,      \* history: the actions whose Perform threw
    unseen      \* history: actions that may have changed files since the
                \* file list was last read

threadVars  == <<wpc, wact, wflags>>
historyVars == <<accepted, refused, performs, threw, unseen>>
workerVars  == <<action, state, result, threadVars, queue, heap, historyVars>>

HeapStates == {"unborn", "requested", "live", "freed"}

\* The events this component and its caller exchange through the queue.
Token == {"START", "ACTION_END", "SVN_INTERNAL_ERROR", "DELETE_ACTION", "LOG",
          "ERROR", "REQUEST"}
Event == [tok: Token, act: Actions \cup {None}, flags: FlagSet]

Plain(tok)     == [tok |-> tok, act |-> None, flags |-> "none"]
End(flags)     == [tok |-> "ACTION_END", act |-> None, flags |-> flags]
Delete(a)      == [tok |-> "DELETE_ACTION", act |-> a, flags |-> "none"]
Request(a)     == [tok |-> "REQUEST", act |-> a, flags |-> "none"]

Post(q, e) == Append(q, e)

\* The worker is inside Action::Perform of wact.
InPerform == wpc \in {"perform", "logged"}

WorkerInit ==
    /\ action = None
    /\ state = "NONE"
    /\ result = "NOTHING"
    /\ wpc = "poll"
    /\ wact = None
    /\ wflags = "none"
    /\ queue = << >>
    /\ heap = [a \in Actions |-> "unborn"]
    /\ accepted = {}
    /\ refused = {}
    /\ performs = [a \in Actions |-> 0]
    /\ threw = {}
    /\ unseen = {}

-----------------------------------------------------------------------------
(* Faulty variants of definitions below: bugs the properties must notice.  *)

\* The pointer is not cleared after TOKEN_DELETE_ACTION was posted.
ClearActionForgotten ==
    /\ wpc = "clear"
    /\ wpc' = "poll"
    /\ wact' = None
    /\ UNCHANGED <<action, state, result, wflags, queue, heap, historyVars>>

\* The return at the end of the catch block is missing.
PerformThrowsFallsThrough ==
    /\ wpc = "perform"
    /\ queue' = Post(Post(queue, Plain("SVN_INTERNAL_ERROR")), Delete(action))
    /\ state' = "NONE"
    /\ result' = "ERROR"
    /\ unseen' = unseen \cup {wact}
    /\ threw' = threw \cup {wact}
    /\ wpc' = "end"
    /\ UNCHANGED <<action, wact, wflags, heap, accepted, refused, performs>>

\* The catch block forgets the state.
PerformThrowsInRunning ==
    /\ wpc = "perform"
    /\ queue' = Post(queue, Plain("SVN_INTERNAL_ERROR"))
    /\ result' = "ERROR"
    /\ unseen' = unseen \cup {wact}
    /\ threw' = threw \cup {wact}
    /\ wpc' = "delete"
    /\ UNCHANGED <<action, state, wact, wflags, heap, accepted, refused,
                   performs>>

\* The catch block clears the pointer without asking for the deletion.
PerformThrowsLeaks ==
    /\ wpc = "perform"
    /\ queue' = Post(queue, Plain("SVN_INTERNAL_ERROR"))
    /\ state' = "NONE"
    /\ result' = "ERROR"
    /\ unseen' = unseen \cup {wact}
    /\ threw' = threw \cup {wact}
    /\ wpc' = "clear"
    /\ UNCHANGED <<action, wact, wflags, heap, accepted, refused, performs>>

\* The action is handed to the worker before its Prepare.
BeginPreparePublishes(a, q) ==
    /\ action = None
    /\ action' = a
    /\ result' = "NOTHING"
    /\ state' = "INIT"
    /\ heap' = [heap EXCEPT ![a] = "live"]
    /\ queue' = q
    /\ UNCHANGED <<threadVars, historyVars>>

\* The result is written into the state.
PrepareFailsMixedUp(a, how) ==
    /\ state' = how
    /\ heap' = [heap EXCEPT ![a] = "freed"]
    /\ queue' = IF how = "ERROR" THEN Post(queue, Plain("ERROR")) ELSE queue
    /\ UNCHANGED <<action, result, threadVars, historyVars>>

-----------------------------------------------------------------------------
(* The worker thread: Entry's loop calls ExecuteAction every 10 ms.        *)

\* if (action == 0) return; otherwise announce the action.
Poll ==
    /\ wpc = "poll"
    /\ action # None
    /\ queue' = Post(queue, Plain("START"))
    /\ wpc' = "start"
    /\ UNCHANGED <<action, state, result, wact, wflags, heap, historyVars>>

\* action->Perform() is entered on whatever the pointer names by now.
EnterPerform ==
    /\ wpc = "start"
    /\ wpc' = "perform"
    /\ wact' = action
    /\ state' = "RUNNING"
    /\ performs' = [performs EXCEPT ![action] = @ + 1]
    /\ UNCHANGED <<action, result, wflags, queue, heap,
                   accepted, refused, threw, unseen>>

\* LogAction::Perform hands the entries it fetched to the frame.
PostLog ==
    /\ wpc = "perform"
    /\ wact \in LogActions
    /\ queue' = Post(queue, Plain("LOG"))
    /\ wpc' = "logged"
    /\ UNCHANGED <<action, state, result, wact, wflags, heap, historyVars>>

\* Perform returns; its result and the flags of *m->action are noted.  What
\* the action changed is not in the file list yet.
PerformReturns ==
    /\ wpc = IF wact \in LogActions THEN "logged" ELSE "perform"
    /\ \E r \in {"SUCCESS", "ERROR"} : result' = r
    /\ wflags' = Flags[action]
    /\ state' = "NONE"
    /\ unseen' = IF Flags[wact] \in {"none", "tree"}
                 THEN unseen \cup {wact} ELSE unseen
    /\ wpc' = "end"
    /\ UNCHANGED <<action, wact, queue, heap, accepted, refused, performs,
                   threw>>

\* Perform throws: part of the work may be done.
PerformThrows ==
    /\ wpc = "perform"
    /\ queue' = Post(queue, Plain("SVN_INTERNAL_ERROR"))
    /\ state' = "NONE"
    /\ result' = "ERROR"
    /\ unseen' = unseen \cup {wact}
    /\ threw' = threw \cup {wact}
    /\ wpc' = "delete"
    /\ UNCHANGED <<action, wact, wflags, heap, accepted, refused, performs>>

PostEnd ==
    /\ wpc = "end"
    /\ queue' = Post(queue, End(wflags))
    /\ wpc' = "delete"
    /\ UNCHANGED <<action, state, result, wact, wflags, heap, historyVars>>

\* DeleteAction, first statement: the frame is asked to delete *m->action.
PostDelete ==
    /\ wpc = "delete"
    /\ queue' = Post(queue, Delete(action))
    /\ wpc' = "clear"
    /\ UNCHANGED <<action, state, result, wact, wflags, heap, historyVars>>

\* DeleteAction, second statement: action = 0.
ClearAction ==
    /\ wpc = "clear"
    /\ action' = None
    /\ wpc' = "poll"
    /\ wact' = None
    /\ UNCHANGED <<state, result, wflags, queue, heap, historyVars>>

WorkerNext == \/ Poll \/ EnterPerform \/ PostLog \/ PerformReturns
              \/ PerformThrows \/ PostEnd \/ PostDelete \/ ClearAction

-----------------------------------------------------------------------------
(* ThreadedWorker::Perform, called by the main thread.  q is the queue as  *)
(* the caller leaves it.                                                   *)

\* Another action is there: trace an error and return false; the action
\* object stays where it is.  (A missing context has the same effect; the
\* frame has one from the end of its constructor on.)
Refuse(a, q) ==
    /\ action # None
    /\ queue' = Post(q, Plain("ERROR"))
    /\ heap' = [heap EXCEPT ![a] = "live"]
    /\ refused' = refused \cup {a}
    /\ UNCHANGED <<action, state, result, threadVars,
                   accepted, performs, threw, unseen>>

\* Nothing is running: the action's Prepare is called.
BeginPrepare(a, q) ==
    /\ action = None
    /\ result' = "NOTHING"
    /\ state' = "INIT"
    /\ heap' = [heap EXCEPT ![a] = "live"]
    /\ queue' = q
    /\ UNCHANGED <<action, threadVars, historyVars>>

\* Prepare returned false or threw; an exception is traced as well.
PrepareFails(a, how) ==
    /\ result' = how
    /\ state' = "NONE"
    /\ heap' = [heap EXCEPT ![a] = "freed"]
    /\ queue' = IF how = "ERROR" THEN Post(queue, Plain("ERROR")) ELSE queue
    /\ UNCHANGED <<action, threadVars, historyVars>>

\* Prepare returned true: m->action = action_; return true.
PublishAction(a) ==
    /\ action' = a
    /\ accepted' = accepted \cup {a}
    /\ UNCHANGED <<state, result, threadVars, queue, heap,
                   refused, performs, threw, unseen>>
=============================================================================
