---------------------------- MODULE ActionWorker ----------------------------
(***************************************************************************)
(* What include/action_worker.hpp promises to the code that hands actions  *)
(* to a worker: an offered action is either refused (and stays the         *)
(* caller's), rejected by its own Prepare (and released by the worker), or *)
(* accepted; an accepted action is run exactly once, alone, and released   *)
(* after it has finished.  ThreadedWorker together with the event loop of  *)
(* MainFrame is shown to implement this module (MainFrame!Promise).        *)
(***************************************************************************)
CONSTANT Actions    \* the Action objects the program ever creates

VARIABLE status     \* [Actions -> Status]: how far the worker is with each

Status == {"new", "offered", "refused", "accepted", "running",
           "finished", "released"}

\* The worker owns the action and has not run it to its end.
Active(a) == status[a] \in {"accepted", "running"}

Step(a, from, to) ==
    /\ status[a] = from
    /\ status' = [status EXCEPT ![a] = to]

-----------------------------------------------------------------------------
Init == status = [a \in Actions |-> "new"]

\* The caller offers the action; the worker lets it prepare itself.
Offer(a) ==
    /\ \A b \in Actions : ~Active(b)
    /\ Step(a, "new", "offered")

\* Perform returns false at once: the action remains the caller's to release.
Refuse(a) == Step(a, "new", "refused")

\* Prepare cancels or fails: the worker releases the action.
Reject(a) == Step(a, "offered", "released")

\* Perform returns true: from here on the worker owns the action.
Accept(a) ==
    /\ \A b \in Actions : ~Active(b)
    /\ Step(a, "offered", "accepted")

Run(a) == Step(a, "accepted", "running")

Finish(a) == Step(a, "running", "finished")

Release(a) == Step(a, "finished", "released")

Next == \E a \in Actions :
            \/ Offer(a) \/ Refuse(a) \/ Reject(a) \/ Accept(a)
            \/ Run(a) \/ Finish(a) \/ Release(a)

\* What was accepted is run, finished and released.
Fairness == \A a \in Actions :
    /\ WF_status(Run(a))
    /\ WF_status(Finish(a))
    /\ WF_status(Release(a))

Spec == Init /\ [][Next]_status

FairSpec == Spec /\ Fairness

-----------------------------------------------------------------------------
TypeOK == status \in [Actions -> Status]

\* Two actions are never owned and unfinished at the same time.
OneAtATime == \A a, b \in Actions : Active(a) /\ Active(b) => a = b
=============================================================================
