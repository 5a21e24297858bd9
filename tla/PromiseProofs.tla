--------------------------- MODULE PromiseProofs ----------------------------
(***************************************************************************)
(* Proofs about MainFrame when no event starts an action from inside       *)
(* another one's Prepare: the frame and the worker thread implement        *)
(* ActionWorker, GetState tells the truth, and the file list catches up.   *)
(* For every set of actions, their flags and any depth of dialogs.         *)
(***************************************************************************)
EXTENDS MainFrameProofs

-----------------------------------------------------------------------------
(* The invariant on top of IInv                                            *)

\* At most one Prepare waits for its dialog, and then nothing is published.
AloneInv ==
    /\ \A a, b \in Actions : Waiting(stack, a) /\ Waiting(stack, b) => a = b
    /\ \A a \in Actions : Waiting(stack, a) => action = None

\* The worker stays with the object it found: what the pointer names from
\* Perform on is that object, and it was run before its deletion is asked
\* for.  The only accepted action that was not run yet is the one published.
WorkInv ==
    /\ wpc \in {"perform", "logged", "end", "delete", "clear"}
         => action \in Actions /\ wact = action /\ performs[action] # 0
    /\ \A a \in accepted : performs[a] = 0 => action = a
    /\ \A a \in Actions :
         Pending(queue, "DELETE_ACTION", a) => performs[a] # 0

\* A refused action never gets any further.
RefusedInv ==
    \A a \in refused : /\ a \notin accepted
                       /\ heap[a] \in {"live", "freed"}
                       /\ ~Waiting(stack, a)

PInv == IInv /\ AloneInv /\ WorkInv /\ RefusedInv /\ StateIsTruthful

\* The abstract state of ActionWorker.
Statuses == [a \in Actions |-> StatusOf(a)]

-----------------------------------------------------------------------------
(* The worker and the promise: frame by frame                              *)

\* While a Prepare waits, or when nothing is published, no action is with
\* the worker: there is room for one.
LEMMA NothingActive ==
    ASSUME PInv, action = None
    PROVE  /\ \A b \in Actions : Statuses[b] \notin {"accepted", "running"}
           /\ ~InPerform
<1> USE DEF PInv
<1>1. ~InPerform
  BY ActionsAssumption DEF WorkInv, InPerform
<1>2. ASSUME NEW b \in Actions
      PROVE  StatusOf(b) \notin {"accepted", "running"}
  BY <1>1, ActionsAssumption DEF StatusOf, WorkInv
<1> QED BY <1>1, <1>2 DEF Statuses

\* What StatusOf depends on: if nothing of it changes, the step is a stutter.
LEMMA SameStatus ==
    ASSUME UNCHANGED <<accepted, refused, performs, wact>>,
           InPerform' = InPerform,
           \A a \in Actions :
               \/ heap'[a] = heap[a]
               \/ {heap[a], heap'[a]} \subseteq {"unborn", "requested"}
    PROVE  Statuses' = Statuses
<1>1. ASSUME NEW a \in Actions
      PROVE  StatusOf(a)' = StatusOf(a)
  BY DEF StatusOf
<1> QED BY <1>1 DEF Statuses

\* Steps that touch neither the pointer nor the life of an action, and
\* neither open a Prepare nor ask for a deletion.
LEMMA Bystander ==
    ASSUME PInv, IInv',
           UNCHANGED <<action, state, accepted, refused, performs, wact>>,
           InPerform' = InPerform,
           wpc' \in {"perform", "logged", "end", "delete", "clear"}
              => wpc \in {"perform", "logged", "end", "delete", "clear"},
           \A a \in Actions :
               \/ heap'[a] = heap[a]
               \/ {heap[a], heap'[a]} \subseteq {"unborn", "requested"},
           \A a \in Actions : Waiting(stack', a) => Waiting(stack, a),
           \A a \in Actions : Pending(queue', "DELETE_ACTION", a)
                                 => Pending(queue, "DELETE_ACTION", a)
    PROVE  PInv' /\ Statuses' = Statuses
<1> USE DEF PInv
<1>1. Statuses' = Statuses
  BY SameStatus
<1>2. AloneInv'
  BY DEF AloneInv
<1>3. WorkInv'
  BY DEF WorkInv
<1>4. RefusedInv'
  BY DEF RefusedInv, IInv, TypeOK
<1>5. StateIsTruthful'
  BY DEF StateIsTruthful
<1> QED BY <1>1, <1>2, <1>3, <1>4, <1>5
\* One action moves on and the others stay where they are.
LEMMA OneMoves ==
    ASSUME NEW a \in Actions,
           \A b \in Actions \ {a} : StatusOf(b)' = StatusOf(b)
    PROVE  Promise!Step(a, StatusOf(a), StatusOf(a)')
<1>1. Statuses[a] = StatusOf(a)
  BY DEF Statuses
<1>2. Statuses' = [Statuses EXCEPT ![a] = StatusOf(a)']
  BY DEF Statuses
<1> QED BY <1>1, <1>2 DEF Promise!Step, Statuses

\* What the step of the frame and the worker is for ActionWorker.
Kept == Promise!Next \/ Statuses' = Statuses

-----------------------------------------------------------------------------
(* Steps of the worker thread                                              *)

LEMMA EnterPerformKept ==
    ASSUME PInv, IInv', EnterPerform, UNCHANGED frameVars
    PROVE  PInv' /\ Kept
<1> USE DEF PInv
<1>1. /\ UNCHANGED <<action, queue, heap, accepted, refused, stack>>
      /\ wpc = "start" /\ wpc' = "perform"
      /\ wact' = action /\ state' = "RUNNING"
      /\ performs' = [performs EXCEPT ![action] = @ + 1]
  BY DEF EnterPerform, frameVars
<1>2. PICK a \in Actions : a = action
  BY <1>1 DEF IInv, TypeOK, PointerInv
<1>3. /\ a \in accepted /\ a \notin refused
      /\ heap[a] = "live" /\ performs[a] = 0
      /\ performs \in [Actions -> Nat]
  BY <1>1, <1>2 DEF IInv, TypeOK, PointerInv, Held, RefusedInv
<1>4. /\ performs'[a] = 1
      /\ \A b \in Actions \ {a} : performs'[b] = performs[b]
      /\ InPerform' /\ ~InPerform
  BY <1>1, <1>2, <1>3 DEF InPerform
<1>5. AloneInv' /\ RefusedInv'
  BY <1>1 DEF AloneInv, RefusedInv
<1>6. WorkInv'
  BY <1>1, <1>2, <1>3, <1>4 DEF WorkInv
<1>7. StateIsTruthful'
  BY <1>1, <1>4 DEF StateIsTruthful
<1>8. StatusOf(a) = "accepted" /\ StatusOf(a)' = "running"
  BY <1>1, <1>2, <1>3, <1>4 DEF StatusOf
<1>9. \A b \in Actions \ {a} : StatusOf(b)' = StatusOf(b)
  BY <1>1, <1>2, <1>4 DEF StatusOf
<1>10. Promise!Run(a)
  BY <1>8, <1>9, OneMoves DEF Promise!Run
<1> QED BY <1>5, <1>6, <1>7, <1>10 DEF Kept, Promise!Next

\* Perform ends, with or without an exception.
LEMMA PerformEndsKept ==
    ASSUME PInv, IInv', InPerform, PerformReturns \/ PerformThrows,
           UNCHANGED frameVars
    PROVE  PInv' /\ Kept
<1> USE DEF PInv
<1>1. /\ UNCHANGED <<action, wact, heap, accepted, refused, performs, stack>>
      /\ wpc' \in {"end", "delete"}
      /\ state' = "NONE"
      /\ queue' = queue \/ queue' = Post(queue, Plain("SVN_INTERNAL_ERROR"))
  BY DEF PerformReturns, PerformThrows, frameVars
<1>2. PICK a \in Actions : a = action
  BY DEF WorkInv, InPerform
<1>3. /\ a \in accepted /\ a \notin refused
      /\ heap[a] = "live" /\ performs[a] # 0
      /\ wact = a
  BY <1>2 DEF IInv, PointerInv, Held, RefusedInv, WorkInv, InPerform
<1>4. ~InPerform'
  BY <1>1 DEF InPerform
<1>5. \A b \in Actions : Pending(queue', "DELETE_ACTION", b)
                            => Pending(queue, "DELETE_ACTION", b)
  <2>1. Plain("SVN_INTERNAL_ERROR") \in Event
    BY DEF Plain, Event, Token, FlagSet
  <2>2. queue \in Seq(Event)
    BY DEF IInv, TypeOK
  <2> QED BY <1>1, <2>1, <2>2, PostPending DEF Plain
<1>6. AloneInv' /\ RefusedInv'
  BY <1>1 DEF AloneInv, RefusedInv
<1>7. WorkInv'
  BY <1>1, <1>2, <1>3, <1>5 DEF WorkInv
<1>8. StateIsTruthful'
  BY <1>1, <1>4 DEF StateIsTruthful, InPerform
<1>9. StatusOf(a) = "running" /\ StatusOf(a)' = "finished"
  BY <1>1, <1>3, <1>4 DEF StatusOf
<1>10. \A b \in Actions \ {a} : StatusOf(b)' = StatusOf(b)
  BY <1>1, <1>3, <1>4 DEF StatusOf
<1>11. Promise!Finish(a)
  BY <1>9, <1>10, OneMoves DEF Promise!Finish
<1> QED BY <1>6, <1>7, <1>8, <1>11 DEF Kept, Promise!Next

\* The deletion is asked for once the action has been run.
LEMMA PostDeleteKept ==
    ASSUME PInv, IInv', PostDelete, UNCHANGED frameVars
    PROVE  PInv' /\ Kept
<1> USE DEF PInv
<1>1. /\ UNCHANGED <<action, wact, state, heap, accepted, refused, performs,
                     stack>>
      /\ wpc = "delete" /\ wpc' = "clear"
      /\ queue' = Post(queue, Delete(action))
  BY DEF PostDelete, frameVars, historyVars
<1>2. action \in Actions /\ performs[action] # 0
  BY <1>1 DEF WorkInv
<1>3. \A b \in Actions : Pending(queue', "DELETE_ACTION", b)
                            => Pending(queue, "DELETE_ACTION", b) \/ b = action
  <2>1. Delete(action) \in Event
    BY <1>2 DEF Delete, Event, Token, FlagSet
  <2>2. queue \in Seq(Event)
    BY DEF IInv, TypeOK
  <2> QED BY <1>1, <2>1, <2>2, PostPending DEF Delete
<1>4. AloneInv' /\ RefusedInv'
  BY <1>1 DEF AloneInv, RefusedInv
<1>5. WorkInv'
  BY <1>1, <1>2, <1>3 DEF WorkInv
<1>6. InPerform' = InPerform
  BY <1>1 DEF InPerform
<1>7. StateIsTruthful'
  BY <1>1, <1>6 DEF StateIsTruthful
<1>8. Statuses' = Statuses
  BY <1>1, <1>6, SameStatus
<1> QED BY <1>4, <1>5, <1>7, <1>8 DEF Kept

LEMMA ClearActionKept ==
    ASSUME PInv, IInv', ClearAction, UNCHANGED frameVars
    PROVE  PInv' /\ Kept
<1> USE DEF PInv
<1>1. /\ UNCHANGED <<state, queue, heap, accepted, refused, performs, stack>>
      /\ wpc = "clear" /\ wpc' = "poll"
      /\ action' = None
  BY DEF ClearAction, frameVars, historyVars
<1>2. ~InPerform /\ ~InPerform'
  BY <1>1 DEF InPerform
<1>3. AloneInv' /\ RefusedInv'
  BY <1>1 DEF AloneInv, RefusedInv
<1>4. WorkInv'
  BY <1>1 DEF WorkInv
<1>5. StateIsTruthful'
  BY <1>1, <1>2 DEF StateIsTruthful, InPerform
<1>6. \A a \in Actions : StatusOf(a)' = StatusOf(a)
  BY <1>1, <1>2 DEF StatusOf
<1>7. Statuses' = Statuses
  BY <1>6 DEF Statuses
<1> QED BY <1>3, <1>4, <1>5, <1>7 DEF Kept

\* What the worker posts besides deletions is nothing to ActionWorker.
LEMMA WorkerPostsKept ==
    ASSUME PInv, IInv', Poll \/ PostLog \/ PostEnd, UNCHANGED frameVars
    PROVE  PInv' /\ Kept
<1>1. /\ UNCHANGED <<action, state, wact, heap, accepted, refused, performs,
                     stack>>
      /\ \/ wpc = "poll" /\ wpc' = "start"
         \/ wpc = "perform" /\ wpc' = "logged"
         \/ wpc = "end" /\ wpc' = "delete"
  BY DEF Poll, PostLog, PostEnd, frameVars, historyVars
<1>2. PICK e \in {Plain("START"), Plain("LOG"), End(wflags)} :
         queue' = Post(queue, e)
  BY DEF Poll, PostLog, PostEnd
<1>3. \A a : Pending(queue', "DELETE_ACTION", a)
                <=> Pending(queue, "DELETE_ACTION", a)
  <2>1. e \in Event /\ e.tok # "DELETE_ACTION"
    BY <1>2 DEF Plain, End, Event, Token, FlagSet, PInv, IInv, TypeOK
  <2>2. queue \in Seq(Event)
    BY DEF PInv, IInv, TypeOK
  <2> QED BY <1>2, <2>1, <2>2, PostPending
<1>4. InPerform' = InPerform
  BY <1>1 DEF InPerform
<1> QED BY <1>1, <1>3, <1>4, Bystander DEF Kept
-----------------------------------------------------------------------------
(* Steps of the main thread: an action is offered to the worker            *)

\* The worker has another action already: the new one is refused.
LEMMA RefuseKept ==
    ASSUME PInv, IInv', NEW a \in Actions,
           heap[a] \in {"unborn", "requested"},
           NEW q \in Seq(Event),
           \A b : Pending(q, "DELETE_ACTION", b)
                     => Pending(queue, "DELETE_ACTION", b),
           Refuse(a, q), UNCHANGED stack
    PROVE  PInv' /\ Kept
<1> USE DEF PInv
<1>1. /\ UNCHANGED <<action, state, wpc, wact, accepted, performs, stack>>
      /\ queue' = Post(q, Plain("ERROR"))
      /\ heap' = [heap EXCEPT ![a] = "live"]
      /\ refused' = refused \cup {a}
  BY DEF Refuse, threadVars
<1>2. /\ heap'[a] = "live"
      /\ \A b \in Actions \ {a} : heap'[b] = heap[b]
      /\ a \notin accepted /\ a \notin refused /\ ~Waiting(stack, a)
  BY <1>1 DEF IInv, TypeOK, HeapInv, StackInv, RefusedInv
<1>3. \A b : Pending(queue', "DELETE_ACTION", b)
                => Pending(queue, "DELETE_ACTION", b)
  <2>1. Plain("ERROR") \in Event
    BY DEF Plain, Event, Token, FlagSet
  <2> QED BY <1>1, <2>1, PostPending DEF Plain
<1>4. AloneInv'
  BY <1>1 DEF AloneInv
<1>5. WorkInv'
  BY <1>1, <1>3 DEF WorkInv
<1>6. RefusedInv'
  BY <1>1, <1>2 DEF RefusedInv, IInv, TypeOK
<1>7. StateIsTruthful'
  BY <1>1 DEF StateIsTruthful, InPerform
<1>8. StatusOf(a) = "new" /\ StatusOf(a)' = "refused"
  BY <1>1, <1>2 DEF StatusOf
<1>9. \A b \in Actions \ {a} : StatusOf(b)' = StatusOf(b)
  BY <1>1, <1>2 DEF StatusOf, InPerform
<1>10. Promise!Refuse(a)
  BY <1>8, <1>9, OneMoves DEF Promise!Refuse
<1> QED BY <1>4, <1>5, <1>6, <1>7, <1>10 DEF Kept, Promise!Next

\* The worker has none, and no other Prepare waits: this one begins.
LEMMA BeginPrepareKept ==
    ASSUME PInv, IInv', NEW a \in Actions,
           heap[a] \in {"unborn", "requested"},
           NEW q \in Seq(Event),
           \A b : Pending(q, "DELETE_ACTION", b)
                     => Pending(queue, "DELETE_ACTION", b),
           \A b \in Actions : ~Waiting(stack, b),
           BeginPrepare(a, q), Push(Preparing(a))
    PROVE  PInv' /\ Kept
<1> USE DEF PInv
<1>1. /\ UNCHANGED <<action, wpc, wact, accepted, refused, performs>>
      /\ action = None
      /\ state' = "INIT"
      /\ queue' = q
      /\ heap' = [heap EXCEPT ![a] = "live"]
  BY DEF BeginPrepare, threadVars, historyVars
<1>2. /\ heap'[a] = "live"
      /\ \A b \in Actions \ {a} : heap'[b] = heap[b]
      /\ a \notin accepted /\ a \notin refused
  BY <1>1 DEF IInv, TypeOK, HeapInv, RefusedInv
<1>3. /\ \A b \in Actions : Statuses[b] \notin {"accepted", "running"}
      /\ ~InPerform
  BY <1>1, NothingActive
<1>4. \A b \in Actions : Waiting(stack', b) => b = a
  <2>1. Preparing(a) \in Frame /\ stack \in Seq(Frame)
    BY DEF Preparing, Frame, IInv, TypeOK
  <2> QED BY <2>1, PushStack DEF Push, Preparing
<1>5. AloneInv'
  BY <1>1, <1>4 DEF AloneInv
<1>6. WorkInv'
  BY <1>1 DEF WorkInv
<1>7. RefusedInv'
  BY <1>1, <1>2, <1>4 DEF RefusedInv, IInv, TypeOK
<1>8. StateIsTruthful'
  BY <1>1, <1>3 DEF StateIsTruthful, InPerform
<1>9. StatusOf(a) = "new" /\ StatusOf(a)' = "offered"
  BY <1>1, <1>2 DEF StatusOf
<1>10. \A b \in Actions \ {a} : StatusOf(b)' = StatusOf(b)
  BY <1>1, <1>2 DEF StatusOf, InPerform
<1>11. Promise!Offer(a)
  BY <1>3, <1>9, <1>10, OneMoves
  DEF Promise!Offer, Promise!Active, Statuses
<1> QED BY <1>5, <1>6, <1>7, <1>8, <1>11 DEF Kept, Promise!Next

LEMMA FileCommandKept ==
    ASSUME PInv, IInv', NEW a \in Actions, FileCommand(a)
    PROVE  PInv' /\ Kept
<1>1. /\ heap[a] \in {"unborn", "requested"}
      /\ \/ Refuse(a, queue) /\ UNCHANGED stack
         \/ BeginPrepare(a, queue) /\ Push(Preparing(a))
  BY DEF FileCommand, Perform
<1>2. \A b \in Actions : ~Waiting(stack, b)
  BY DEF FileCommand, Waiting
<1>3. queue \in Seq(Event)
  BY DEF PInv, IInv, TypeOK
<1> QED BY <1>1, <1>2, <1>3, RefuseKept, BeginPrepareKept

\* The event is not dispatched from inside a Prepare.
LEMMA DispatchRequestKept ==
    ASSUME PInv, IInv', ~Reentrant, DispatchRequest
    PROVE  PInv' /\ Kept
<1>1. PICK a : a = Head(queue).act
  OBVIOUS
<1>2. /\ queue \in Seq(Event)
      /\ queue # << >>
      /\ Head(queue).tok = "REQUEST"
      /\ ~InPrepare
      /\ \/ Refuse(a, Tail(queue)) /\ UNCHANGED stack
         \/ BeginPrepare(a, Tail(queue)) /\ Push(Preparing(a))
  BY <1>1 DEF DispatchRequest, Next1, Perform, PInv, IInv, TypeOK
<1>3. /\ Tail(queue) \in Seq(Event)
      /\ Pending(queue, "REQUEST", a)
      /\ \A b : Pending(Tail(queue), "DELETE_ACTION", b)
                   => Pending(queue, "DELETE_ACTION", b)
      /\ a \in Actions \cup {None}
  BY <1>1, <1>2, TakePending DEF Event
<1>4. a \in Actions /\ heap[a] = "requested"
  BY <1>3 DEF PInv, IInv, QueueInv
<1>5. \A b \in Actions : ~Waiting(stack, b)
  BY <1>2 DEF InPrepare, Waiting
<1> QED BY <1>2, <1>3, <1>4, <1>5, RefuseKept, BeginPrepareKept
-----------------------------------------------------------------------------
(* Steps of the main thread: Prepare has ended, an object is deleted       *)

\* The action whose Prepare waited is with no other one on the stack.
LEMMA PrepareOnTop ==
    ASSUME PInv, IInv', OnTop("prepare"), Pop
    PROVE  \E a \in Actions :
              /\ a = Head(stack).act
              /\ action = None
              /\ a \notin accepted /\ a \notin refused /\ heap[a] = "live"
              /\ performs[a] = 0
              /\ ~InPerform
              /\ \A b \in Actions : ~Waiting(stack', b)
<1> USE DEF PInv
<1>1. PICK a : a = Head(stack).act
  OBVIOUS
<1>2. /\ stack \in Seq(Frame)
      /\ stack # << >>
      /\ Head(stack).kind = "prepare"
      /\ stack' = Tail(stack)
      /\ Distinct(stack)
  BY DEF OnTop, Pop, IInv, TypeOK, StackInv
<1>3. /\ Waiting(stack, a)
      /\ ~Waiting(stack', a)
      /\ \A b : Waiting(stack', b) => Waiting(stack, b)
      /\ a \in Actions \cup {None}
  BY <1>1, <1>2, PopStack DEF Frame
<1>4. a \in Actions /\ a \notin accepted /\ heap[a] = "live"
  BY <1>3 DEF IInv, StackInv
<1>5. a \notin refused /\ performs[a] = 0
  BY <1>3, <1>4 DEF RefusedInv, IInv, HeapInv
<1>6. action = None
  BY <1>3, <1>4 DEF AloneInv
<1>7. \A b \in Actions : ~Waiting(stack', b)
  BY <1>3, <1>4 DEF AloneInv
<1> QED BY <1>1, <1>4, <1>5, <1>6, <1>7, NothingActive

LEMMA PrepareSucceedsKept ==
    ASSUME PInv, IInv', PrepareSucceeds
    PROVE  PInv' /\ Kept
<1> USE DEF PInv
<1>1. PICK a \in Actions :
         /\ a = Head(stack).act
         /\ action = None
         /\ a \notin accepted /\ a \notin refused /\ heap[a] = "live"
         /\ performs[a] = 0
         /\ ~InPerform
         /\ \A b \in Actions : ~Waiting(stack', b)
  BY PrepareOnTop DEF PrepareSucceeds
<1>2. /\ UNCHANGED <<state, wpc, wact, queue, heap, refused, performs>>
      /\ action' = a
      /\ accepted' = accepted \cup {a}
  BY <1>1 DEF PrepareSucceeds, PublishAction, threadVars
<1>3. AloneInv'
  BY <1>1 DEF AloneInv
<1>4. WorkInv'
  BY <1>1, <1>2, ActionsAssumption DEF WorkInv, IInv, TypeOK
<1>5. RefusedInv'
  BY <1>1, <1>2 DEF RefusedInv, IInv, TypeOK
<1>6. StateIsTruthful'
  BY <1>2 DEF StateIsTruthful, InPerform
<1>7. StatusOf(a) = "offered" /\ StatusOf(a)' = "accepted"
  BY <1>1, <1>2 DEF StatusOf
<1>8. \A b \in Actions \ {a} : StatusOf(b)' = StatusOf(b)
  BY <1>1, <1>2 DEF StatusOf, InPerform
<1>9. \A b \in Actions : Statuses[b] \notin {"accepted", "running"}
  BY <1>1, NothingActive
<1>10. Promise!Accept(a)
  BY <1>7, <1>8, <1>9, OneMoves DEF Promise!Accept, Promise!Active, Statuses
<1> QED BY <1>3, <1>4, <1>5, <1>6, <1>10 DEF Kept, Promise!Next

LEMMA PrepareDoesNotKept ==
    ASSUME PInv, IInv', PrepareDoesNot
    PROVE  PInv' /\ Kept
<1> USE DEF PInv
<1>1. PICK a \in Actions :
         /\ a = Head(stack).act
         /\ action = None
         /\ a \notin accepted /\ a \notin refused /\ heap[a] = "live"
         /\ performs[a] = 0
         /\ ~InPerform
         /\ \A b \in Actions : ~Waiting(stack', b)
  BY PrepareOnTop DEF PrepareDoesNot
<1>2. /\ UNCHANGED <<action, wpc, wact, accepted, refused, performs>>
      /\ state' = "NONE"
      /\ heap' = [heap EXCEPT ![a] = "freed"]
      /\ queue' = queue \/ queue' = Post(queue, Plain("ERROR"))
  BY <1>1 DEF PrepareDoesNot, PrepareFails, threadVars, historyVars
<1>3. /\ heap'[a] = "freed"
      /\ \A b \in Actions \ {a} : heap'[b] = heap[b]
  BY <1>2 DEF IInv, TypeOK
<1>4. \A b : Pending(queue', "DELETE_ACTION", b)
                => Pending(queue, "DELETE_ACTION", b)
  <2>1. Plain("ERROR") \in Event /\ queue \in Seq(Event)
    BY DEF Plain, Event, Token, FlagSet, IInv, TypeOK
  <2> QED BY <1>2, <2>1, PostPending DEF Plain
<1>5. AloneInv'
  BY <1>1 DEF AloneInv
<1>6. WorkInv'
  BY <1>2, <1>4 DEF WorkInv
<1>7. RefusedInv'
  BY <1>1, <1>2, <1>3 DEF RefusedInv, IInv, TypeOK
<1>8. StateIsTruthful'
  BY <1>1, <1>2 DEF StateIsTruthful, InPerform
<1>9. StatusOf(a) = "offered" /\ StatusOf(a)' = "released"
  BY <1>1, <1>2, <1>3 DEF StatusOf
<1>10. \A b \in Actions \ {a} : StatusOf(b)' = StatusOf(b)
  BY <1>2, <1>3 DEF StatusOf, InPerform
<1>11. Promise!Reject(a)
  BY <1>9, <1>10, OneMoves DEF Promise!Reject
<1> QED BY <1>5, <1>6, <1>7, <1>8, <1>11 DEF Kept, Promise!Next

LEMMA DispatchDeleteKept ==
    ASSUME PInv, IInv', DispatchDelete
    PROVE  PInv' /\ Kept
<1> USE DEF PInv
<1>1. PICK a : a = Head(queue).act
  OBVIOUS
<1>2. /\ UNCHANGED <<action, state, wpc, wact, accepted, refused, performs,
                     stack>>
      /\ queue \in Seq(Event)
      /\ queue # << >>
      /\ Head(queue).tok = "DELETE_ACTION"
      /\ queue' = Tail(queue)
      /\ heap' = IF a # None THEN [heap EXCEPT ![a] = "freed"] ELSE heap
  BY <1>1 DEF DispatchDelete, Next1, Take, threadVars, historyVars, frameVars,
              IInv, TypeOK
<1>3. /\ Pending(queue, "DELETE_ACTION", a)
      /\ \A b : Pending(queue', "DELETE_ACTION", b)
                   => Pending(queue, "DELETE_ACTION", b)
      /\ a \in Actions \cup {None}
  BY <1>1, <1>2, TakePending DEF Event
<1>4. /\ a \in Actions /\ a \in accepted /\ heap[a] = "live"
      /\ a \notin refused
      /\ performs[a] # 0
  BY <1>3 DEF IInv, QueueInv, TypeOK, RefusedInv, WorkInv
<1>5. ~(InPerform /\ wact = a)
  BY <1>3 DEF IInv, PointerInv, Held
<1>6. /\ heap'[a] = "freed"
      /\ \A b \in Actions \ {a} : heap'[b] = heap[b]
  BY <1>2, <1>4, ActionsAssumption DEF IInv, TypeOK
<1>7. AloneInv'
  BY <1>2 DEF AloneInv
<1>8. WorkInv'
  BY <1>2, <1>3 DEF WorkInv
<1>9. RefusedInv'
  BY <1>2, <1>4, <1>6 DEF RefusedInv, IInv, TypeOK
<1>10. StateIsTruthful'
  BY <1>2 DEF StateIsTruthful, InPerform
<1>11. StatusOf(a) = "finished" /\ StatusOf(a)' = "released"
  BY <1>2, <1>4, <1>5, <1>6 DEF StatusOf
<1>12. \A b \in Actions \ {a} : StatusOf(b)' = StatusOf(b)
  BY <1>2, <1>6 DEF StatusOf, InPerform
<1>13. Promise!Release(a)
  BY <1>4, <1>11, <1>12, OneMoves DEF Promise!Release
<1> QED BY <1>4, <1>7, <1>8, <1>9, <1>10, <1>13 DEF Kept, Promise!Next

-----------------------------------------------------------------------------
(* Steps of the main thread that are nothing to ActionWorker               *)

LEMMA RequestActionKept ==
    ASSUME PInv, IInv', NEW a \in Actions, RequestAction(a)
    PROVE  PInv' /\ Kept
<1>1. /\ UNCHANGED <<action, state, wpc, wact, accepted, refused, performs,
                     stack>>
      /\ heap[a] = "unborn"
      /\ heap' = [heap EXCEPT ![a] = "requested"]
      /\ queue' = Post(queue, Request(a))
  BY DEF RequestAction, threadVars, historyVars, frameVars
<1>2. \A b : Pending(queue', "DELETE_ACTION", b)
                <=> Pending(queue, "DELETE_ACTION", b)
  <2>1. Request(a) \in Event /\ queue \in Seq(Event)
    BY DEF Request, Event, Token, FlagSet, PInv, IInv, TypeOK
  <2> QED BY <1>1, <2>1, PostPending DEF Request
<1>3. \A b \in Actions :
         \/ heap'[b] = heap[b]
         \/ {heap[b], heap'[b]} \subseteq {"unborn", "requested"}
  BY <1>1 DEF PInv, IInv, TypeOK
<1>4. InPerform' = InPerform
  BY <1>1 DEF InPerform
<1> QED BY <1>1, <1>2, <1>3, <1>4, Bystander DEF Kept

\* OnStop, OnActivate and the dialogs that are not about an action's Prepare.
LEMMA FrameOnlyKept ==
    ASSUME PInv, IInv',
           \/ OnStop \/ OnActivate
           \/ CloseError \/ CloseInternalError \/ CloseLogDlg
    PROVE  PInv' /\ Kept
<1>1. UNCHANGED <<action, state, wpc, wact, queue, heap, accepted, refused,
                  performs>>
  BY DEF OnStop, OnActivate, CloseError, CloseInternalError, CloseLogDlg,
         workerVars, threadVars, historyVars
<1>2. \/ UNCHANGED stack
      \/ stack # << >> /\ stack' = Tail(stack)
  BY DEF OnStop, OnActivate, CloseError, CloseInternalError, CloseLogDlg,
         OnTop, Pop
<1>3. \A b \in Actions : Waiting(stack', b) => Waiting(stack, b)
  <2>1. stack \in Seq(Frame)
    BY DEF PInv, IInv, TypeOK
  <2>2. CASE UNCHANGED stack
    BY <2>2
  <2>3. CASE stack # << >> /\ stack' = Tail(stack)
    BY <2>1, <2>3, PopStack
  <2> QED BY <1>2, <2>2, <2>3
<1>4. InPerform' = InPerform
  BY <1>1 DEF InPerform
<1> QED BY <1>1, <1>3, <1>4, Bystander DEF Kept

\* Events that report something.
LEMMA DispatchReportKept ==
    ASSUME PInv, IInv',
           \/ DispatchStart \/ DispatchError \/ DispatchInternalError
           \/ DispatchEnd \/ DispatchLog
    PROVE  PInv' /\ Kept
<1>1. /\ UNCHANGED <<action, state, wpc, wact, heap, accepted, refused,
                     performs>>
      /\ queue # << >>
      /\ queue' = Tail(queue)
  BY DEF DispatchStart, DispatchError, DispatchInternalError, DispatchEnd,
         DispatchLog, Next1, Take, threadVars, historyVars
<1>2. \/ UNCHANGED stack
      \/ \E k \in {"error", "internal", "log"} : stack' = <<Dialog(k)>> \o stack
  BY DEF DispatchStart, DispatchError, DispatchInternalError, DispatchEnd,
         DispatchLog, Push, frameVars
<1>3. \A b \in Actions : Waiting(stack', b) => Waiting(stack, b)
  <2>1. ASSUME NEW k \in {"error", "internal", "log"},
               stack' = <<Dialog(k)>> \o stack
        PROVE  \A b \in Actions : Waiting(stack', b) => Waiting(stack, b)
    <3>1. Dialog(k) \in Frame /\ stack \in Seq(Frame)
      BY DEF Dialog, Frame, PInv, IInv, TypeOK
    <3> QED BY <2>1, <3>1, PushStack DEF Dialog
  <2> QED BY <1>2, <2>1
<1>4. \A b : Pending(queue', "DELETE_ACTION", b)
                => Pending(queue, "DELETE_ACTION", b)
  <2>1. queue \in Seq(Event)
    BY DEF PInv, IInv, TypeOK
  <2> QED BY <1>1, <2>1, TakePending
<1>5. InPerform' = InPerform
  BY <1>1 DEF InPerform
<1> QED BY <1>1, <1>3, <1>4, <1>5, Bystander DEF Kept

-----------------------------------------------------------------------------
(* The promise is kept                                                     *)

LEMMA InitKept == Init => PInv /\ Promise!Init
<1> SUFFICES ASSUME Init PROVE PInv /\ Promise!Init
  OBVIOUS
<1> USE DEF Init, WorkerInit
<1>1. IInv
  BY InitIInv
<1>2. AloneInv /\ WorkInv /\ RefusedInv
  BY DEF AloneInv, WorkInv, RefusedInv, Waiting, Pending
<1>3. StateIsTruthful
  BY DEF StateIsTruthful, InPerform
<1>4. Promise!Init
  BY DEF Promise!Init, StatusOf
<1> QED BY <1>1, <1>2, <1>3, <1>4 DEF PInv

LEMMA NextKept ==
    ASSUME ~Reentrant, PInv, [Next]_vars
    PROVE  PInv' /\ Kept
<1>1. IInv'
  BY NextIInv DEF PInv
<1>2. CASE WorkerStep
  <2>1. ASSUME PerformReturns \/ PerformThrows
        PROVE  InPerform
    BY <2>1 DEF PerformReturns, PerformThrows, InPerform
  <2>2. WorkerNext /\ UNCHANGED frameVars
    BY <1>2 DEF WorkerStep
  <2> QED
    BY <1>1, <2>1, <2>2, EnterPerformKept, PerformEndsKept, PostDeleteKept,
       ClearActionKept, WorkerPostsKept
    DEF WorkerNext
<1>3. CASE UserNext
  BY <1>1, <1>3, FileCommandKept, RequestActionKept, FrameOnlyKept DEF UserNext
<1>4. CASE CloseDialog
  BY <1>1, <1>4, PrepareSucceedsKept, PrepareDoesNotKept, FrameOnlyKept
  DEF CloseDialog
<1>5. CASE Dispatch
  BY <1>1, <1>5, DispatchRequestKept, DispatchDeleteKept, DispatchReportKept
  DEF Dispatch
<1>6. CASE UNCHANGED vars
  <2>1. UNCHANGED <<action, state, wpc, wact, queue, heap, accepted, refused,
                    performs, stack>>
    BY <1>6 DEF vars, workerVars, threadVars, historyVars, frameVars
  <2>2. InPerform' = InPerform
    BY <2>1 DEF InPerform
  <2> QED BY <1>1, <2>1, <2>2, Bystander DEF Kept
<1> QED BY <1>2, <1>3, <1>4, <1>5, <1>6 DEF Next

\* Where no event starts an action from inside Prepare, the frame and the
\* worker thread implement what action_worker.hpp promises, as far as it is
\* about safety.
THEOREM PromiseKept == ASSUME ~Reentrant PROVE Spec => KeepsPromise
<1>1. Init => PInv /\ Promise!Init
  BY InitKept
<1>2. PInv /\ [Next]_vars
        => PInv' /\ [Promise!Next]_([a \in Actions |-> StatusOf(a)])
  BY NextKept DEF Kept, Statuses
<1> QED BY <1>1, <1>2, PTL DEF Spec, KeepsPromise, Promise!Spec

\* The worker never has two actions that are accepted and not yet finished.
THEOREM OneActionAtATime == ASSUME ~Reentrant PROVE Spec => []Promise!OneAtATime
<1>1. Init => PInv
  BY InitKept
<1>2. PInv /\ [Next]_vars => PInv'
  BY NextKept
<1>3. PInv => Promise!OneAtATime
  <2> SUFFICES ASSUME PInv, NEW a \in Actions, NEW b \in Actions,
                      StatusOf(a) \in {"accepted", "running"},
                      StatusOf(b) \in {"accepted", "running"}
               PROVE  a = b
    BY DEF Promise!OneAtATime, Promise!Active
  <2>1. \A c \in {a, b} : \/ c \in accepted /\ performs[c] = 0
                          \/ InPerform /\ wact = c
    BY DEF StatusOf
  <2>2. \A c \in {a, b} : c = action
    BY <2>1 DEF PInv, WorkInv, InPerform
  <2> QED BY <2>2
<1> QED BY <1>1, <1>2, <1>3, PTL DEF Spec

\* GetState answers RUNNING exactly while the worker is inside an action's
\* Perform.
THEOREM StateTruthful == ASSUME ~Reentrant PROVE Spec => []StateIsTruthful
<1>1. Init => PInv
  BY InitKept
<1>2. PInv /\ [Next]_vars => PInv'
  BY NextKept
<1>3. PInv => StateIsTruthful
  BY DEF PInv
<1> QED BY <1>1, <1>2, <1>3, PTL DEF Spec
-----------------------------------------------------------------------------
(* The file list                                                           *)

InQueue(q, e) == \E i \in 1..Len(q) : q[i] = e

\* A dialog of this kind is open.
Open(s, k) == \E i \in 1..Len(s) : s[i].kind = k

\* The frame will be told, or is being told, that an action threw.
Reported == \/ InQueue(queue, Plain("SVN_INTERNAL_ERROR"))
            \/ Open(stack, "internal")

\* A refresh is on its way to the frame.
RefreshDue == \/ \E f \in {"none", "tree"} : InQueue(queue, End(f))
              \/ wpc = "end" /\ wflags \in {"none", "tree"}

\* Whatever the list does not show yet has a reason: a Stop, an exception
\* that will be reported, or a refresh that is on its way.
UnseenInv ==
    /\ \A a \in threw : performs[a] # 0 /\ ~(InPerform /\ wact = a)
    /\ isCancelled => unseen \subseteq stopped
    /\ unseen \cap threw # {} => Reported
    /\ unseen \subseteq stopped \cup threw \/ RefreshDue

LInv == PInv /\ UnseenInv

\* Taking an event leaves the others in the queue, posting leaves all.
LEMMA QueueKeeps ==
    ASSUME NEW q \in Seq(Event)
    PROVE  /\ \A e : q # << >> /\ InQueue(q, e)
                     => e = Head(q) \/ InQueue(Tail(q), e)
           /\ \A f \in Event :
                /\ InQueue(Post(q, f), f)
                /\ \A e : InQueue(q, e) => InQueue(Post(q, f), e)
<1>1. ASSUME NEW e, q # << >>, InQueue(q, e)
      PROVE  e = Head(q) \/ InQueue(Tail(q), e)
  <2>1. PICK i \in 1..Len(q) : q[i] = e
    BY <1>1 DEF InQueue
  <2>2. CASE i = 1
    BY <2>1, <2>2
  <2>3. CASE i # 1
    <3>1. i - 1 \in 1..Len(Tail(q)) /\ Tail(q)[i - 1] = q[i]
      BY <1>1, <2>3
    <3> QED BY <2>1, <3>1 DEF InQueue
  <2> QED BY <2>2, <2>3
<1>2. ASSUME NEW f \in Event
      PROVE  /\ InQueue(Post(q, f), f)
             /\ \A e : InQueue(q, e) => InQueue(Post(q, f), e)
  <2> DEFINE p == Post(q, f)
  <2>1. /\ Len(p) = Len(q) + 1
        /\ \A i \in 1..Len(q) : p[i] = q[i]
        /\ p[Len(q) + 1] = f
        /\ Len(q) \in Nat
    BY PostIndex
  <2> HIDE DEF p
  <2>2. InQueue(p, f)
    <3>1. Len(q) + 1 \in 1..Len(p)
      BY <2>1
    <3> QED BY <2>1, <3>1 DEF InQueue
  <2>3. ASSUME NEW e, InQueue(q, e)
        PROVE  InQueue(p, e)
    <3>1. PICK i \in 1..Len(q) : q[i] = e
      BY <2>3 DEF InQueue
    <3>2. i \in 1..Len(p) /\ p[i] = e
      BY <2>1, <3>1
    <3> QED BY <3>2 DEF InQueue
  <2> QED BY <2>2, <2>3 DEF p
<1> QED BY <1>1, <1>2

\* Closing the innermost dialog leaves the others, opening one leaves all.
LEMMA StackKeeps ==
    ASSUME NEW s \in Seq(Frame)
    PROVE  /\ \A k : s # << >> /\ Open(s, k)
                     => Head(s).kind = k \/ Open(Tail(s), k)
           /\ \A f \in Frame :
                /\ Open(<<f>> \o s, f.kind)
                /\ \A k : Open(s, k) => Open(<<f>> \o s, k)
<1>1. ASSUME NEW k, s # << >>, Open(s, k)
      PROVE  Head(s).kind = k \/ Open(Tail(s), k)
  <2>1. PICK i \in 1..Len(s) : s[i].kind = k
    BY <1>1 DEF Open
  <2>2. CASE i = 1
    BY <2>1, <2>2
  <2>3. CASE i # 1
    <3>1. i - 1 \in 1..Len(Tail(s)) /\ Tail(s)[i - 1] = s[i]
      BY <1>1, <2>3
    <3> QED BY <2>1, <3>1 DEF Open
  <2> QED BY <2>2, <2>3
<1>2. ASSUME NEW f \in Frame
      PROVE  /\ Open(<<f>> \o s, f.kind)
             /\ \A k : Open(s, k) => Open(<<f>> \o s, k)
  <2> DEFINE t == <<f>> \o s
  <2>1. /\ Len(s) \in Nat
        /\ Len(t) = Len(s) + 1
        /\ t[1] = f
        /\ \A i \in 1..Len(s) : t[i + 1] = s[i]
    <3>1. <<f>> \in Seq(Frame) /\ Len(<<f>>) = 1 /\ <<f>>[1] = f
      OBVIOUS
    <3>2. /\ Len(t) = 1 + Len(s)
          /\ \A i \in 1..Len(t) : t[i] = IF i <= 1 THEN <<f>>[i] ELSE s[i - 1]
      BY <3>1, ConcatProperties
    <3>3. Len(s) \in Nat
      OBVIOUS
    <3> HIDE DEF t
    <3> QED BY <3>1, <3>2, <3>3
  <2> HIDE DEF t
  <2>2. Open(t, f.kind)
    BY <2>1 DEF Open
  <2>3. ASSUME NEW k, Open(s, k)
        PROVE  Open(t, k)
    <3>1. PICK i \in 1..Len(s) : s[i].kind = k
      BY <2>3 DEF Open
    <3>2. i + 1 \in 1..Len(t) /\ t[i + 1].kind = k
      BY <2>1, <3>1
    <3> QED BY <3>2 DEF Open
  <2> QED BY <2>2, <2>3 DEF t
<1> QED BY <1>1, <1>2

\* Steps that neither change files nor read them.
LEMMA SameUnseen ==
    ASSUME UnseenInv, UNCHANGED <<unseen, threw, stopped>>,
           isCancelled' => isCancelled,
           \A a \in threw : /\ performs'[a] # 0
                            /\ InPerform' /\ wact' = a => InPerform /\ wact = a,
           Reported => Reported',
           RefreshDue => RefreshDue'
    PROVE  UnseenInv'
BY DEF UnseenInv

\* Once the list was read, nothing is missing from it.
LEMMA AllSeen ==
    ASSUME UnseenInv, UNCHANGED <<threw, performs, wpc, wact>>, unseen' = {}
    PROVE  UnseenInv'
BY DEF UnseenInv, InPerform
\* The worker's steps besides the end of Perform.
LEMMA WorkerUnseen ==
    ASSUME LInv, UNCHANGED frameVars,
           \/ Poll \/ EnterPerform \/ PostLog \/ PostEnd \/ PostDelete
           \/ ClearAction
    PROVE  UnseenInv'
<1> USE DEF LInv
<1>1. UNCHANGED <<unseen, threw, stopped, isCancelled, stack>>
  BY DEF Poll, EnterPerform, PostLog, PostEnd, PostDelete, ClearAction,
         frameVars, historyVars
<1>2. TypeOK
  BY DEF PInv, IInv
<1>3. ASSUME NEW a \in threw
      PROVE  /\ performs'[a] # 0
             /\ InPerform' /\ wact' = a => InPerform /\ wact = a
  <2>1. CASE EnterPerform
    <3>1. action \in Actions /\ performs[action] = 0
      BY <2>1 DEF EnterPerform, PInv, IInv, TypeOK, PointerInv
    <3>2. a \in Actions /\ performs[a] # 0 /\ a # action
      BY <1>2, <3>1 DEF UnseenInv, TypeOK
    <3> QED BY <1>2, <2>1, <3>1, <3>2 DEF EnterPerform, TypeOK
  <2>2. CASE Poll \/ PostLog \/ PostEnd \/ PostDelete \/ ClearAction
    <3>1. UNCHANGED performs /\ (InPerform' => InPerform /\ wact' = wact)
      BY <2>2 DEF Poll, PostLog, PostEnd, PostDelete, ClearAction, InPerform,
                  historyVars
    <3> QED BY <3>1 DEF UnseenInv
  <2> QED BY <2>1, <2>2
<1>4. \A e : InQueue(queue, e) => InQueue(queue', e)
  <2>1. CASE UNCHANGED queue
    BY <2>1
  <2>2. CASE \E e \in {Plain("START"), Plain("LOG"), End(wflags),
                       Delete(action)} : queue' = Post(queue, e)
    <3>1. PICK e : /\ e \in {Plain("START"), Plain("LOG"), End(wflags),
                             Delete(action)}
                   /\ queue' = Post(queue, e)
      BY <2>2
    <3>2. e \in Event /\ queue \in Seq(Event)
      BY <1>2, <3>1 DEF Plain, End, Delete, Event, Token, FlagSet, TypeOK
    <3> QED BY <3>1, <3>2, QueueKeeps
  <2> QED
    BY <2>1, <2>2 DEF Poll, EnterPerform, PostLog, PostEnd, PostDelete,
                      ClearAction
<1>5. Reported => Reported'
  BY <1>1, <1>4 DEF Reported
<1>6. RefreshDue => RefreshDue'
  <2>1. CASE PostEnd
    <3>1. End(wflags) \in Event /\ queue \in Seq(Event)
      BY <1>2 DEF End, Event, Token, TypeOK
    <3>2. InQueue(queue', End(wflags))
      BY <2>1, <3>1, QueueKeeps DEF PostEnd
    <3> QED BY <1>4, <3>2 DEF RefreshDue
  <2>2. CASE Poll \/ EnterPerform \/ PostLog \/ PostDelete \/ ClearAction
    <3>1. wpc # "end"
      BY <2>2 DEF Poll, EnterPerform, PostLog, PostDelete, ClearAction
    <3> QED BY <1>4, <3>1 DEF RefreshDue
  <2> QED BY <2>1, <2>2
<1> QED BY <1>1, <1>3, <1>5, <1>6, SameUnseen

\* What was stopped may stay out of the list; for what was not, the frame
\* will be told to refresh.
LEMMA PerformReturnsUnseen ==
    ASSUME LInv, UNCHANGED frameVars, PerformReturns
    PROVE  UnseenInv'
<1> USE DEF LInv
<1>1. /\ UNCHANGED <<threw, stopped, isCancelled, stack, queue, performs>>
      /\ InPerform /\ ~InPerform'
      /\ wpc # "end" /\ wpc' = "end"
      /\ wflags' = Flags[wact]
      /\ unseen' = IF Flags[wact] \in {"none", "tree"}
                   THEN unseen \cup {wact} ELSE unseen
  BY DEF PerformReturns, frameVars, PInv, WorkInv, InPerform
<1>2. isCancelled => wact \in stopped
  BY <1>1 DEF PInv, IInv, StopInv
<1>3. wact \notin threw
  BY <1>1 DEF UnseenInv
<1>4. isCancelled' => unseen' \subseteq stopped'
  BY <1>1, <1>2 DEF UnseenInv
<1>5. unseen' \cap threw' # {} => Reported'
  BY <1>1, <1>3 DEF UnseenInv, Reported
<1>6. unseen' \subseteq stopped' \cup threw' \/ RefreshDue'
  <2>1. CASE Flags[wact] \in {"none", "tree"}
    BY <1>1, <2>1 DEF RefreshDue
  <2>2. CASE Flags[wact] \notin {"none", "tree"}
    BY <1>1, <2>2 DEF UnseenInv, RefreshDue
  <2> QED BY <2>1, <2>2
<1> QED BY <1>1, <1>4, <1>5, <1>6 DEF UnseenInv

\* An exception is reported, and the report ends with a refresh.
LEMMA PerformThrowsUnseen ==
    ASSUME LInv, UNCHANGED frameVars, PerformThrows
    PROVE  UnseenInv'
<1> USE DEF LInv
<1>1. /\ UNCHANGED <<stopped, isCancelled, stack, performs>>
      /\ InPerform /\ ~InPerform'
      /\ wpc # "end"
      /\ unseen' = unseen \cup {wact}
      /\ threw' = threw \cup {wact}
      /\ performs[wact] # 0
      /\ queue' = Post(queue, Plain("SVN_INTERNAL_ERROR"))
  BY DEF PerformThrows, frameVars, PInv, WorkInv, InPerform
<1>2. isCancelled => wact \in stopped
  BY <1>1 DEF PInv, IInv, StopInv
<1>3. /\ InQueue(queue', Plain("SVN_INTERNAL_ERROR"))
      /\ \A e : InQueue(queue, e) => InQueue(queue', e)
  <2>1. Plain("SVN_INTERNAL_ERROR") \in Event /\ queue \in Seq(Event)
    BY DEF Plain, Event, Token, FlagSet, PInv, IInv, TypeOK
  <2> QED BY <1>1, <2>1, QueueKeeps
<1>4. RefreshDue => RefreshDue'
  BY <1>1, <1>3 DEF RefreshDue
<1> QED BY <1>1, <1>2, <1>3, <1>4 DEF UnseenInv, Reported

\* Main-thread steps that post at most one event, and open or close no
\* dialog of TOKEN_SVN_INTERNAL_ERROR; MainFrame::Perform among them.
LEMMA OffersUnseen ==
    ASSUME LInv,
           \/ \E a \in Actions : FileCommand(a) \/ RequestAction(a)
           \/ PrepareSucceeds \/ PrepareDoesNot \/ DispatchRequest
    PROVE  UnseenInv'
<1> USE DEF LInv
<1>1. /\ UNCHANGED <<unseen, threw, stopped, performs, wpc, wact, wflags>>
      /\ isCancelled' => isCancelled
  <2>1. CASE \E a \in Actions : FileCommand(a)
    BY <2>1 DEF FileCommand, Perform, Refuse, BeginPrepare, threadVars,
                historyVars
  <2>2. CASE DispatchRequest
    BY <2>2 DEF DispatchRequest, Perform, Refuse, BeginPrepare, threadVars,
                historyVars
  <2>3. CASE \E a \in Actions : RequestAction(a)
    BY <2>3 DEF RequestAction, threadVars, historyVars, frameVars
  <2>4. CASE PrepareSucceeds
    <3>1. isCancelled \in BOOLEAN
      BY DEF PInv, IInv, TypeOK
    <3> QED BY <2>4, <3>1 DEF PrepareSucceeds, PublishAction,
                              CancelAfterSetRunning, threadVars
  <2>5. CASE PrepareDoesNot
    BY <2>5 DEF PrepareDoesNot, PrepareFails, threadVars, historyVars
  <2> QED BY <2>1, <2>2, <2>3, <2>4, <2>5
<1>2. queue \in Seq(Event) /\ stack \in Seq(Frame)
  BY DEF PInv, IInv, TypeOK
<1>3. PICK q : /\ q = queue \/ (/\ queue # << >>
                                 /\ Head(queue).tok = "REQUEST"
                                 /\ q = Tail(queue))
               /\ \/ queue' = q
                  \/ queue' = Post(q, Plain("ERROR"))
                  \/ \E a \in Actions : queue' = Post(q, Request(a))
  <2>1. CASE DispatchRequest
    BY <2>1 DEF DispatchRequest, Next1, Perform, Refuse, BeginPrepare
  <2>2. CASE \/ \E a \in Actions : FileCommand(a) \/ RequestAction(a)
             \/ PrepareSucceeds \/ PrepareDoesNot
    BY <2>2 DEF FileCommand, RequestAction, PrepareSucceeds, PrepareDoesNot,
                Perform, Refuse, BeginPrepare, PrepareFails, PublishAction
  <2> QED BY <2>1, <2>2
<1>4. \A e : InQueue(queue, e) /\ e.tok # "REQUEST" => InQueue(queue', e)
  <2>1. q \in Seq(Event)
    BY <1>2, <1>3
  <2>2. \A e : InQueue(queue, e) /\ e.tok # "REQUEST" => InQueue(q, e)
    BY <1>2, <1>3, QueueKeeps
  <2>3. CASE queue' = q
    BY <2>2, <2>3
  <2>4. ASSUME NEW f \in Event, queue' = Post(q, f)
        PROVE  \A e : InQueue(q, e) => InQueue(queue', e)
    BY <2>1, <2>4, QueueKeeps
  <2>5. /\ Plain("ERROR") \in Event
        /\ \A a \in Actions : Request(a) \in Event
    BY DEF Plain, Request, Event, Token, FlagSet
  <2> QED BY <1>3, <2>2, <2>3, <2>4, <2>5
<1>5. Open(stack, "internal") => Open(stack', "internal")
  <2>1. CASE UNCHANGED stack
    BY <2>1
  <2>2. CASE \E a \in Actions \cup {None} : stack' = <<Preparing(a)>> \o stack
    <3>1. \A a \in Actions \cup {None} : Preparing(a) \in Frame
      BY DEF Preparing, Frame
    <3> QED BY <1>2, <2>2, <3>1, StackKeeps
  <2>3. CASE OnTop("prepare") /\ Pop
    BY <1>2, <2>3, StackKeeps DEF OnTop, Pop
  <2>4. DispatchRequest => Head(queue).act \in Actions \cup {None}
    BY <1>2, TakePending DEF DispatchRequest, Next1, Event
  <2>5. CASE \E a \in Actions : FileCommand(a)
    BY <2>1, <2>2, <2>5 DEF FileCommand, Perform, Push
  <2>6. CASE DispatchRequest
    BY <2>1, <2>2, <2>4, <2>6 DEF DispatchRequest, Perform, Push
  <2>7. CASE \E a \in Actions : RequestAction(a)
    BY <2>1, <2>7 DEF RequestAction, frameVars
  <2> QED BY <2>3, <2>5, <2>6, <2>7 DEF PrepareSucceeds, PrepareDoesNot
<1>6. /\ Plain("SVN_INTERNAL_ERROR").tok # "REQUEST"
      /\ \A f : End(f).tok # "REQUEST"
  BY DEF Plain, End
<1>7. Reported => Reported'
  BY <1>4, <1>5, <1>6 DEF Reported
<1>8. RefreshDue => RefreshDue'
  BY <1>1, <1>4, <1>6 DEF RefreshDue
<1>9. \A a \in threw : performs'[a] # 0
                      /\ (InPerform' /\ wact' = a => InPerform /\ wact = a)
  BY <1>1 DEF UnseenInv, InPerform
<1> QED BY <1>1, <1>7, <1>8, <1>9, SameUnseen
\* Everything the list does not show is among what the user stopped.
LEMMA OnStopUnseen ==
    ASSUME LInv, OnStop
    PROVE  UnseenInv'
<1>1. /\ UNCHANGED <<unseen, threw, performs, wpc, wact, wflags, queue, stack>>
      /\ unseen \subseteq stopped'
      /\ stopped \subseteq stopped'
  BY DEF OnStop, workerVars, threadVars, historyVars
<1> QED BY <1>1 DEF LInv, UnseenInv, InPerform, Reported, RefreshDue

\* A refresh that is not carried out was cancelled by a Stop.
LEMMA RefreshUnseen ==
    ASSUME LInv, NEW c \in BOOLEAN, c => isCancelled, RefreshFileList(c)
    PROVE  /\ isCancelled' => isCancelled
           /\ unseen' = {} \/ (unseen' = unseen /\ unseen \subseteq stopped)
<1>1. CASE running /\ c
  BY <1>1 DEF RefreshFileList, CancelAfterSetRunning, LInv, UnseenInv
<1>2. CASE ~(running /\ c)
  BY <1>2 DEF RefreshFileList, CancelAfterSetRunning, LInv, PInv, IInv, TypeOK
<1> QED BY <1>1, <1>2

LEMMA OnActivateUnseen ==
    ASSUME LInv, OnActivate
    PROVE  UnseenInv'
<1>1. /\ UNCHANGED <<threw, performs, stopped, wpc, wact, wflags, queue, stack>>
      /\ RefreshFileList(isCancelled)
  BY DEF OnActivate, threadVars
<1>2. /\ isCancelled' => isCancelled
      /\ unseen' = {} \/ unseen' = unseen
  BY <1>1, RefreshUnseen DEF LInv, PInv, IInv, TypeOK
<1>3. CASE unseen' = {}
  BY <1>1, <1>3, AllSeen DEF LInv
<1>4. CASE unseen' = unseen
  BY <1>1, <1>2, <1>4 DEF LInv, UnseenInv, InPerform, Reported, RefreshDue
<1> QED BY <1>2, <1>3, <1>4

LEMMA CloseDialogUnseen ==
    ASSUME LInv, CloseError \/ CloseLogDlg \/ CloseInternalError
    PROVE  UnseenInv'
<1>1. CASE CloseError \/ CloseLogDlg
  <2>1. /\ UNCHANGED <<unseen, threw, stopped, isCancelled, performs, wpc,
                       wact, wflags, queue>>
        /\ stack # << >>
        /\ Head(stack).kind # "internal"
        /\ stack' = Tail(stack)
    BY <1>1 DEF CloseError, CloseLogDlg, OnTop, Pop, workerVars, threadVars,
                historyVars
  <2>2. Open(stack, "internal") => Open(stack', "internal")
    BY <2>1, StackKeeps DEF LInv, PInv, IInv, TypeOK
  <2> QED
    BY <2>1, <2>2 DEF LInv, UnseenInv, InPerform, Reported, RefreshDue
<1>2. CASE CloseInternalError
  <2>1. /\ UNCHANGED <<threw, performs, wpc, wact>>
        /\ unseen' = {}
    BY <1>2 DEF CloseInternalError, RefreshFileList, CancelAfterSetRunning,
                threadVars
  <2> QED BY <2>1, AllSeen DEF LInv
<1> QED BY <1>1, <1>2

\* Taking an event that is not about the list.
LEMMA DispatchOtherUnseen ==
    ASSUME LInv,
           DispatchStart \/ DispatchError \/ DispatchDelete \/ DispatchLog
    PROVE  UnseenInv'
<1>1. /\ UNCHANGED <<unseen, threw, stopped, isCancelled, performs, wpc, wact,
                     wflags>>
      /\ queue # << >>
      /\ Head(queue).tok \notin {"ACTION_END", "SVN_INTERNAL_ERROR"}
      /\ queue' = Tail(queue)
  BY DEF DispatchStart, DispatchError, DispatchDelete, DispatchLog, Next1,
         Take, threadVars, historyVars, frameVars
<1>2. \A e : InQueue(queue, e)
                /\ e.tok \in {"ACTION_END", "SVN_INTERNAL_ERROR"}
                => InQueue(queue', e)
  BY <1>1, QueueKeeps DEF LInv, PInv, IInv, TypeOK
<1>3. Open(stack, "internal") => Open(stack', "internal")
  <2>1. CASE UNCHANGED stack
    BY <2>1
  <2>2. CASE \E k \in {"error", "log"} : stack' = <<Dialog(k)>> \o stack
    <3>1. \A k \in {"error", "log"} : Dialog(k) \in Frame
      BY DEF Dialog, Frame
    <3>2. stack \in Seq(Frame)
      BY DEF LInv, PInv, IInv, TypeOK
    <3> QED BY <2>2, <3>1, <3>2, StackKeeps
  <2> QED
    BY <2>1, <2>2 DEF DispatchStart, DispatchError, DispatchDelete,
                      DispatchLog, Push, frameVars
<1>4. Reported => Reported'
  BY <1>2, <1>3 DEF Reported, Plain
<1>5. RefreshDue => RefreshDue'
  BY <1>1, <1>2 DEF RefreshDue, End
<1> QED BY <1>1, <1>4, <1>5 DEF LInv, UnseenInv, InPerform

LEMMA DispatchInternalErrorUnseen ==
    ASSUME LInv, DispatchInternalError
    PROVE  UnseenInv'
<1>1. /\ UNCHANGED <<unseen, threw, stopped, isCancelled, performs, wpc, wact,
                     wflags>>
      /\ queue # << >>
      /\ Head(queue).tok = "SVN_INTERNAL_ERROR"
      /\ queue' = Tail(queue)
      /\ stack' = <<Dialog("internal")>> \o stack
  BY DEF DispatchInternalError, Next1, Take, Push, threadVars, historyVars
<1>2. \A f : InQueue(queue, End(f)) => InQueue(queue', End(f))
  BY <1>1, QueueKeeps DEF LInv, PInv, IInv, TypeOK, End
<1>3. Open(stack', "internal")
  <2>1. Dialog("internal") \in Frame /\ Dialog("internal").kind = "internal"
    BY DEF Dialog, Frame
  <2>2. stack \in Seq(Frame)
    BY DEF LInv, PInv, IInv, TypeOK
  <2> QED BY <1>1, <2>1, <2>2, StackKeeps
<1>4. RefreshDue => RefreshDue'
  BY <1>1, <1>2 DEF RefreshDue
<1> QED BY <1>1, <1>3, <1>4 DEF LInv, UnseenInv, InPerform, Reported

\* The refresh that was due is carried out, or a Stop cancels it.
LEMMA DispatchEndUnseen ==
    ASSUME LInv, DispatchEnd
    PROVE  UnseenInv'
<1>1. /\ UNCHANGED <<threw, performs, stopped, wpc, wact, wflags, stack>>
      /\ queue # << >>
      /\ Head(queue).tok = "ACTION_END"
      /\ queue' = Tail(queue)
      /\ IF Head(queue).flags \in {"none", "tree"}
         THEN RefreshFileList(isCancelled)
         ELSE UNCHANGED <<isCancelled, unseen>>
  BY DEF DispatchEnd, Next1, Take, threadVars
<1>2. \A e : InQueue(queue, e) => e = Head(queue) \/ InQueue(queue', e)
  BY <1>1, QueueKeeps DEF LInv, PInv, IInv, TypeOK
<1>3. Reported => Reported'
  BY <1>1, <1>2 DEF Reported, Plain
<1>4. CASE Head(queue).flags \in {"none", "tree"}
  <2>1. /\ isCancelled' => isCancelled
        /\ unseen' = {} \/ (unseen' = unseen /\ unseen \subseteq stopped)
    BY <1>1, <1>4, RefreshUnseen DEF LInv, PInv, IInv, TypeOK
  <2>2. CASE unseen' = {}
    BY <1>1, <2>2, AllSeen DEF LInv
  <2>3. CASE unseen' = unseen /\ unseen \subseteq stopped
    BY <1>1, <1>3, <2>1, <2>3 DEF LInv, UnseenInv, InPerform
  <2> QED BY <2>1, <2>2, <2>3
<1>5. CASE Head(queue).flags \notin {"none", "tree"}
  <2>1. RefreshDue => RefreshDue'
    BY <1>1, <1>2, <1>5 DEF RefreshDue, End
  <2> QED BY <1>1, <1>3, <1>5, <2>1 DEF LInv, UnseenInv, InPerform
<1> QED BY <1>4, <1>5

LEMMA NextUnseen ==
    ASSUME ~Reentrant, LInv, [Next]_vars
    PROVE  LInv'
<1>1. SUFFICES UnseenInv'
  BY NextKept DEF LInv
<1>2. CASE WorkerStep
  BY <1>2, WorkerUnseen, PerformReturnsUnseen, PerformThrowsUnseen
  DEF WorkerStep, WorkerNext
<1>3. CASE UserNext
  BY <1>3, OffersUnseen, OnStopUnseen, OnActivateUnseen DEF UserNext
<1>4. CASE CloseDialog
  BY <1>4, OffersUnseen, CloseDialogUnseen DEF CloseDialog
<1>5. CASE Dispatch
  BY <1>5, OffersUnseen, DispatchOtherUnseen, DispatchInternalErrorUnseen,
     DispatchEndUnseen
  DEF Dispatch
<1>6. CASE UNCHANGED vars
  BY <1>6 DEF LInv, UnseenInv, InPerform, Reported, RefreshDue, vars,
              workerVars, threadVars, historyVars, frameVars
<1> QED BY <1>2, <1>3, <1>4, <1>5, <1>6 DEF Next

\* Once nothing is pending the file list shows what the actions did, those
\* that threw included; only what ended in spite of a Stop may be missing.
THEOREM ListHasCaughtUp == ASSUME ~Reentrant PROVE Spec => []ListCatchesUp
<1>1. Init => LInv
  BY InitKept DEF LInv, UnseenInv, Init, WorkerInit
<1>2. LInv /\ [Next]_vars => LInv'
  BY NextUnseen
<1>3. LInv => ListCatchesUp
  <2> SUFFICES ASSUME LInv, AtRest PROVE unseen \subseteq stopped \ threw
    BY DEF ListCatchesUp
  <2>1. ~Reported /\ ~RefreshDue
    BY DEF AtRest, Reported, RefreshDue, InQueue, Open
  <2> QED BY <2>1 DEF LInv, UnseenInv
<1> QED BY <1>1, <1>2, <1>3, PTL DEF Spec
=============================================================================
