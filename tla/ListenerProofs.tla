--------------------------- MODULE ListenerProofs ---------------------------
(***************************************************************************)
(* Proofs about Listener: it keeps its types whatever overlaps; and where  *)
(* the prompts of the two threads do not overlap, every prompt gets its    *)
(* own answer, however many prompts there are and whatever they ask for.   *)
(***************************************************************************)
EXTENDS Listener, SequenceTheorems, TLAPS

CallbackStates == [of: Prompts, direct: BOOLEAN, owns: BOOLEAN,
                   pc: {"lock", "dialog", "unlock", "return"}]

-----------------------------------------------------------------------------
(* Types                                                                   *)

\* The first callback of a stack can be changed, removed or covered.
LEMMA StackTypes ==
    ASSUME NEW stack \in Seq(CallbackStates), NEW p \in Prompts,
           NEW direct \in BOOLEAN
    PROVE  /\ <<Callback(p, direct)>> \o stack \in Seq(CallbackStates)
           /\ stack # << >> => /\ Tail(stack) \in Seq(CallbackStates)
                               /\ Head(stack) \in CallbackStates
                               /\ Head(stack) = stack[1]
<1>1. <<Callback(p, direct)>> \in Seq(CallbackStates)
  BY DEF Callback, CallbackStates
<1>2. <<Callback(p, direct)>> \o stack \in Seq(CallbackStates)
  BY <1>1, ConcatProperties
<1> QED
  BY <1>2, HeadTailProperties

\* The program counter of the first callback changes, or its ownership too.
LEMMA TopTypes ==
    ASSUME NEW stack \in Seq(CallbackStates), stack # << >>,
           NEW pc \in {"lock", "dialog", "unlock", "return"}, NEW owns \in BOOLEAN
    PROVE  /\ [stack EXCEPT ![1].pc = pc] \in Seq(CallbackStates)
           /\ [stack EXCEPT ![1].pc = pc, ![1].owns = owns] \in Seq(CallbackStates)
<1>1. stack[1] \in CallbackStates
  BY HeadTailProperties
<1>2. ASSUME NEW top \in CallbackStates
      PROVE  [stack EXCEPT ![1] = top] \in Seq(CallbackStates)
  BY ExceptSeq
<1>3. /\ [stack[1] EXCEPT !.pc = pc] \in CallbackStates
      /\ [stack[1] EXCEPT !.pc = pc, !.owns = owns] \in CallbackStates
  BY <1>1 DEF CallbackStates
<1>4. [stack EXCEPT ![1].pc = pc] = [stack EXCEPT ![1] = [stack[1] EXCEPT !.pc = pc]]
  OBVIOUS
<1>5. [stack EXCEPT ![1].pc = pc, ![1].owns = owns]
        = [stack EXCEPT ![1] = [stack[1] EXCEPT !.pc = pc, !.owns = owns]]
  OBVIOUS
<1> QED
  BY <1>2, <1>3, <1>4, <1>5

\* What the caller of a prompt gets is of its type.
LEMMA AnswerType ==
    ASSUME TypeOK, NEW p \in Prompts
    PROVE  Answer(p) \in Prompts \cup {Nobody, "none", "refused"}
  BY KindAssumption DEF TypeOK, Answer

\* A proposal for the answer leaves the fields of their type.
LEMMA AskedDataType ==
    ASSUME TypeOK, NEW p
    PROVE  AskedData(p) \in [Kinds -> Prompts \cup {Nobody}]
  BY DEF TypeOK, AskedData, Kinds

LEMMA TypeInit == Init => TypeOK
<1>1. << >> \in Seq(WorkerPrompts) /\ << >> \in Seq(CallbackStates)
  OBVIOUS
<1>2. Init => data \in [Kinds -> Prompts \cup {Nobody}]
  BY DEF Init
<1>3. Init => /\ user \in [Prompts -> {"open", "ok", "cancel"}]
              /\ result \in [Prompts -> Prompts \cup {Nobody, "none", "refused"}]
  BY DEF Init
<1> QED
  BY <1>1, <1>2, <1>3 DEF Init, TypeOK, CallbackStates

\* The steps of the worker thread.
LEMMA TypeWorker ==
    ASSUME TypeOK,
           \/ \E p \in WorkerPrompts : WorkerAsks(p)
           \/ WorkerGoesOn
    PROVE  TypeOK'
<1>1. ASSUME NEW p \in WorkerPrompts, WorkerAsks(p) PROVE TypeOK'
  <2>1. AskedData(p) \in [Kinds -> Prompts \cup {Nobody}]
    BY AskedDataType
  <2>2. Append(signals, p) \in Seq(WorkerPrompts)
    BY AppendProperties DEF TypeOK
  <2> QED
    BY <1>1, <2>1, <2>2 DEF TypeOK, WorkerAsks
<1>2. CASE Wait
  BY <1>2 DEF TypeOK, Wait
<1>3. CASE WakeUp
  BY <1>3 DEF TypeOK, WakeUp
<1>4. CASE WorkerReturns
  <2>1. CASE wprompt = Nobody
    BY <1>4, <2>1, PromptsAssumption DEF TypeOK, WorkerReturns
  <2>2. CASE wprompt \in WorkerPrompts
    <3>1. Answer(wprompt) \in Prompts \cup {Nobody, "none", "refused"}
      BY <2>2, AnswerType DEF Prompts
    <3> QED
      BY <1>4, <3>1 DEF TypeOK, WorkerReturns
  <2> QED
    BY <2>1, <2>2 DEF TypeOK
<1> QED
  BY <1>1, <1>2, <1>3, <1>4 DEF WorkerGoesOn

\* The steps of the main thread.
LEMMA TypeMain ==
    ASSUME TypeOK,
           \/ \E p \in MainPrompts : MainAsks(p)
           \/ MainGoesOn
    PROVE  TypeOK'
<1> USE DEF CallbackStates
<1>1. ASSUME NEW p \in MainPrompts, MainAsks(p) PROVE TypeOK'
  <2>1. AskedData(p) \in [Kinds -> Prompts \cup {Nobody}]
    BY AskedDataType
  <2>2. <<Callback(p, TRUE)>> \o callbacks \in Seq(CallbackStates)
    BY StackTypes DEF TypeOK, Prompts
  <2> QED
    BY <1>1, <2>1, <2>2 DEF TypeOK, MainAsks
<1>2. CASE DispatchSignal
  <2>1. /\ Head(signals) \in Prompts
        /\ Tail(signals) \in Seq(WorkerPrompts)
    BY <1>2, HeadTailProperties DEF TypeOK, DispatchSignal, Prompts
  <2>2. <<Callback(Head(signals), FALSE)>> \o callbacks \in Seq(CallbackStates)
    BY <2>1, StackTypes DEF TypeOK
  <2> QED
    BY <1>2, <2>1, <2>2 DEF TypeOK, DispatchSignal
<1>3. CASE LockMutex
  <2>1. (mutex = "free") \in BOOLEAN
    OBVIOUS
  <2>2. [callbacks EXCEPT ![1].pc = "dialog", ![1].owns = mutex = "free"]
          \in Seq(CallbackStates)
    BY <1>3, <2>1, TopTypes DEF TypeOK, LockMutex, At
  <2> QED
    BY <1>3, <2>2 DEF TypeOK, LockMutex
<1>4. CASE CloseDialog
  <2>1. [callbacks EXCEPT ![1].pc = "unlock"] \in Seq(CallbackStates)
    BY <1>4, TopTypes DEF TypeOK, CloseDialog, At
  <2>2. Top \in CallbackStates
    BY <1>4, HeadTailProperties DEF TypeOK, CloseDialog, At, Top
  <2>3. Top.of \in Prompts /\ Kind[Top.of] \in Kinds
    BY <2>2, KindAssumption
  <2>4. dataReceived' \in BOOLEAN
    BY <1>4, <2>3 DEF TypeOK, CloseDialog, Kinds
  <2>5. /\ data' \in [Kinds -> Prompts \cup {Nobody}]
        /\ user' \in [Prompts -> {"open", "ok", "cancel"}]
    BY <1>4, <2>3 DEF TypeOK, CloseDialog
  <2>6. wpc' \in {"idle", "posted", "waiting", "woken", "answered"}
    BY <1>4 DEF TypeOK, CloseDialog, SignalDone
  <2> QED
    BY <1>4, <2>1, <2>4, <2>5, <2>6 DEF TypeOK, CloseDialog
<1>5. CASE UnlockMutex
  <2>1. mutex' \in {"free", "main", "worker"}
    BY <1>5 DEF TypeOK, UnlockMutex
  <2>2. /\ [callbacks EXCEPT ![1].pc = "return"] \in Seq(CallbackStates)
        /\ Tail(callbacks) \in Seq(CallbackStates)
    BY <1>5, TopTypes, HeadTailProperties DEF TypeOK, UnlockMutex, At
  <2> QED
    BY <1>5, <2>1, <2>2 DEF TypeOK, UnlockMutex
<1>6. CASE MainReturns
  <2>1. Top \in CallbackStates /\ Tail(callbacks) \in Seq(CallbackStates)
    BY <1>6, HeadTailProperties DEF TypeOK, MainReturns, At, Top
  <2>2. Answer(Top.of) \in Prompts \cup {Nobody, "none", "refused"}
    BY <2>1, AnswerType
  <2> QED
    BY <1>6, <2>1, <2>2 DEF TypeOK, MainReturns
<1> QED
  BY <1>1, <1>2, <1>3, <1>4, <1>5, <1>6 DEF MainGoesOn

LEMMA TypeStep == TypeOK /\ [Next]_vars => TypeOK'
<1> SUFFICES ASSUME TypeOK, [Next]_vars PROVE TypeOK'
  OBVIOUS
<1>1. CASE Next
  BY <1>1, TypeWorker, TypeMain DEF Next
<1>2. CASE UNCHANGED vars
  BY <1>2 DEF TypeOK, vars
<1> QED
  BY <1>1, <1>2

\* The fields of the Listener, the mutex, the signals and the stack of
\* dialogs hold what the code declares, whatever prompts overlap.
THEOREM ListenerTypes == Spec => []TypeOK
  BY TypeInit, TypeStep, PTL DEF Spec

-----------------------------------------------------------------------------
(* Answers                                                                 *)

\* What p returns if it is answered: AnswersMatch for one prompt.
Due(p) == IF user[p] = "ok" \/ Kind[p] = "trust" THEN p ELSE "refused"

\* The user has answered p, and the shared flag and fields say so.
Answered(p) == user[p] # "open" /\ Answer(p) = Due(p)

\* The one callback there is.
Only(c) == callbacks = <<c>>

\* No prompt of the worker is under way: the main thread may be in one of its
\* own, or at the end of the callback for a prompt that has returned.
WorkerIdle ==
    /\ wpc = "idle"
    /\ signals = << >>
    /\ \/ callbacks = << >> /\ ~dataReceived
       \/ \E c \in CallbackStates :
            /\ Only(c)
            /\ ~c.direct
            /\ c.pc = "unlock"
            /\ ~dataReceived
       \/ \E c \in CallbackStates :
            /\ Only(c)
            /\ c.direct
            /\ result[c.of] = "none"
            /\ \/ c.pc \in {"lock", "dialog"} /\ ~dataReceived
               \/ c.pc \in {"unlock", "return"} /\ Answered(c.of)

\* The worker has asked and the user has not answered: its prompt is in the
\* signal or in the dialog.
WorkerAsked ==
    /\ wpc \in {"posted", "waiting"}
    /\ wprompt \in WorkerPrompts
    /\ result[wprompt] = "none"
    /\ ~dataReceived
    /\ \/ signals = <<wprompt>> /\ callbacks = << >>
       \/ /\ signals = << >>
          /\ \E c \in CallbackStates :
               /\ Only(c)
               /\ ~c.direct
               /\ c.of = wprompt
               /\ c.pc \in {"lock", "dialog"}

\* The user has answered and the prompt has not returned.
WorkerTold ==
    /\ wpc # "idle"
    /\ wprompt \in WorkerPrompts
    /\ result[wprompt] = "none"
    /\ Answered(wprompt)
    /\ signals = << >>
    /\ \/ callbacks = << >>
       \/ \E c \in CallbackStates : Only(c) /\ ~c.direct /\ c.pc = "unlock"

\* One prompt at a time: the fields are about the only prompt under way.
OneAtATime == WorkerIdle \/ WorkerAsked \/ WorkerTold

AnswerInv == TypeOK /\ AnswersMatch /\ OneAtATime

\* A callback alone on the stack: what the operators on sequences make of it.
LEMMA OnlyOne ==
    ASSUME NEW c \in CallbackStates, Only(c)
    PROVE  /\ callbacks # << >>
           /\ Top = c
           /\ Tail(callbacks) = << >>
           /\ \A pc \in {"lock", "dialog", "unlock", "return"} :
                /\ [callbacks EXCEPT ![1].pc = pc] = <<[c EXCEPT !.pc = pc]>>
                /\ [c EXCEPT !.pc = pc] \in CallbackStates
                /\ [c EXCEPT !.pc = pc].of = c.of
                /\ [c EXCEPT !.pc = pc].direct = c.direct
                /\ [c EXCEPT !.pc = pc].pc = pc
  BY DEF Only, Top, CallbackStates

\* LockMutex on it.
LEMMA OnlyOneLocks ==
    ASSUME NEW c \in CallbackStates, Only(c), NEW owns \in BOOLEAN
    PROVE  LET d == [c EXCEPT !.pc = "dialog", !.owns = owns] IN
           /\ [callbacks EXCEPT ![1].pc = "dialog", ![1].owns = owns] = <<d>>
           /\ d \in CallbackStates
           /\ d.of = c.of
           /\ d.direct = c.direct
           /\ d.pc = "dialog"
  BY DEF Only, CallbackStates

\* A callback that starts with nothing below it.
LEMMA FirstCallback ==
    ASSUME NEW p \in Prompts, NEW direct \in BOOLEAN
    PROVE  LET c == Callback(p, direct) IN
           /\ <<c>> \o << >> = <<c>>
           /\ c \in CallbackStates
           /\ c.of = p
           /\ c.direct = direct
           /\ c.pc = "lock"
<1>1. Callback(p, direct) \in CallbackStates
  BY DEF Callback, CallbackStates
<1>2. <<Callback(p, direct)>> \o << >> = <<Callback(p, direct)>>
  BY <1>1, ConcatEmptySeq
<1> QED
  BY <1>1, <1>2 DEF Callback

LEMMA AnswerInit == Init => AnswersMatch /\ OneAtATime
  BY DEF Init, AnswersMatch, OneAtATime, WorkerIdle

\* A step of the worker.
LEMMA AnswerWorker ==
    ASSUME AnswerInv, ~Overlap,
           \/ \E p \in WorkerPrompts : WorkerAsks(p)
           \/ WorkerGoesOn
    PROVE  AnswersMatch' /\ OneAtATime'
<1> USE DEF AnswerInv
<1>1. ASSUME NEW p \in WorkerPrompts, WorkerAsks(p) PROVE AnswersMatch' /\ OneAtATime'
  <2>1. AnswersMatch'
    BY <1>1 DEF AnswersMatch, WorkerAsks
  <2>2. callbacks = << >> /\ wpc = "idle" /\ signals = << >> /\ ~dataReceived
    BY <1>1 DEF WorkerAsks, OneAtATime, WorkerIdle, WorkerAsked, WorkerTold, Only
  <2>3. signals' = <<p>>
    BY <1>1, <2>2 DEF WorkerAsks
  <2>4. WorkerAsked'
    BY <1>1, <2>2, <2>3 DEF WorkerAsks, WorkerAsked
  <2> QED
    BY <2>1, <2>4 DEF OneAtATime
<1>2. CASE Wait
  <2>1. AnswersMatch'
    BY <1>2 DEF AnswersMatch, Wait
  <2>2. ASSUME WorkerAsked PROVE OneAtATime'
    BY <1>2, <2>2 DEF Wait, WorkerAsked, Only, OneAtATime
  <2>3. ASSUME WorkerTold PROVE OneAtATime'
    BY <1>2, <2>3 DEF Wait, WorkerTold, Only, OneAtATime, Answered, Answer, Due
  <2> QED
    BY <1>2, <2>1, <2>2, <2>3 DEF Wait, OneAtATime, WorkerIdle
<1>3. CASE WakeUp
  <2>1. AnswersMatch'
    BY <1>3 DEF AnswersMatch, WakeUp
  <2>2. WorkerTold
    BY <1>3 DEF WakeUp, OneAtATime, WorkerIdle, WorkerAsked
  <2>3. WorkerTold'
    BY <1>3, <2>2 DEF WakeUp, WorkerTold, Only, Answered, Answer, Due
  <2> QED
    BY <2>1, <2>3 DEF OneAtATime
<1>4. CASE WorkerReturns
  <2>1. WorkerTold
    BY <1>4 DEF WorkerReturns, OneAtATime, WorkerIdle, WorkerAsked
  <2>2. AnswersMatch'
    BY <1>4, <2>1 DEF WorkerReturns, WorkerTold, AnswersMatch, Answered, Due, TypeOK
  <2>3. WorkerIdle'
    BY <1>4, <2>1 DEF WorkerReturns, WorkerTold, WorkerIdle, Only
  <2> QED
    BY <2>2, <2>3 DEF OneAtATime
<1> QED
  BY <1>1, <1>2, <1>3, <1>4 DEF WorkerGoesOn

\* The user answers the prompt of the only callback there is.
LEMMA ClosedIsAnswered ==
    ASSUME AnswerInv, NEW c \in CallbackStates, Only(c), CloseDialog,
           result[c.of] = "none", ~dataReceived
    PROVE  Answered(c.of)' /\ AnswersMatch'
<1>1. Top = c /\ c.of \in Prompts
  BY OnlyOne DEF CallbackStates
<1>2. Kind[c.of] \in Kinds /\ data \in [Kinds -> Prompts \cup {Nobody}]
  BY <1>1, KindAssumption DEF AnswerInv, TypeOK
<1>3. PICK ok \in BOOLEAN :
        /\ user' = [user EXCEPT ![c.of] = IF ok THEN "ok" ELSE "cancel"]
        /\ dataReceived' = CASE Kind[c.of] = "login" -> ok \/ dataReceived
                             [] Kind[c.of] = "cert"  -> ok
                             [] Kind[c.of] = "trust" -> TRUE
        /\ data' = IF ok \/ Kind[c.of] # "login" THEN [data EXCEPT ![Kind[c.of]] = c.of]
                   ELSE data
  BY <1>1 DEF CloseDialog
<1>4. user'[c.of] = IF ok THEN "ok" ELSE "cancel"
  BY <1>1, <1>3 DEF AnswerInv, TypeOK
<1>5. ASSUME Kind[c.of] = "trust" PROVE Answered(c.of)'
  BY <1>2, <1>3, <1>4, <1>5 DEF Answered, Answer, Due
<1>6. ASSUME Kind[c.of] # "trust", ok PROVE Answered(c.of)'
  <2>1. dataReceived' = TRUE /\ data'[Kind[c.of]] = c.of
    BY <1>2, <1>3, <1>6 DEF Kinds
  <2> QED
    BY <1>4, <1>6, <2>1 DEF Answered, Answer, Due
<1>7. ASSUME Kind[c.of] # "trust", ~ok PROVE Answered(c.of)'
  <2>1. dataReceived' = FALSE
    BY <1>2, <1>3, <1>7 DEF Kinds
  <2> QED
    BY <1>4, <1>7, <2>1 DEF Answered, Answer, Due
<1>8. AnswersMatch'
  BY <1>1, <1>3 DEF CloseDialog, AnswersMatch, AnswerInv, TypeOK
<1> QED
  BY <1>5, <1>6, <1>7, <1>8

\* A step of the main thread.
LEMMA AnswerMain ==
    ASSUME AnswerInv, ~Overlap,
           \/ \E p \in MainPrompts : MainAsks(p)
           \/ MainGoesOn
    PROVE  AnswersMatch' /\ OneAtATime'
<1> USE DEF AnswerInv
<1>1. ASSUME NEW p \in MainPrompts, MainAsks(p) PROVE AnswersMatch' /\ OneAtATime'
  <2>1. AnswersMatch'
    BY <1>1 DEF AnswersMatch, MainAsks
  <2>2. callbacks = << >> /\ wpc = "idle" /\ signals = << >> /\ ~dataReceived
    BY <1>1 DEF MainAsks, OneAtATime, WorkerIdle, WorkerAsked, WorkerTold, Only
  <2>3. /\ callbacks' = <<Callback(p, TRUE)>>
        /\ Callback(p, TRUE) \in CallbackStates
        /\ Callback(p, TRUE).of = p
        /\ Callback(p, TRUE).direct = TRUE
        /\ Callback(p, TRUE).pc = "lock"
    BY <1>1, <2>2, FirstCallback DEF MainAsks, Prompts
  <2>4. WorkerIdle'
    BY <1>1, <2>2, <2>3 DEF MainAsks, WorkerIdle, Only
  <2> QED
    BY <2>1, <2>4 DEF OneAtATime
<1>2. CASE DispatchSignal
  <2>1. AnswersMatch'
    BY <1>2 DEF AnswersMatch, DispatchSignal
  <2>2. WorkerAsked /\ signals = <<wprompt>> /\ callbacks = << >>
    BY <1>2 DEF DispatchSignal, OneAtATime, WorkerIdle, WorkerAsked, WorkerTold
  <2>3. wprompt \in Prompts /\ Head(signals) = wprompt /\ Tail(signals) = << >>
    BY <2>2 DEF WorkerAsked, Prompts
  <2>4. /\ callbacks' = <<Callback(wprompt, FALSE)>>
        /\ Callback(wprompt, FALSE) \in CallbackStates
        /\ Callback(wprompt, FALSE).of = wprompt
        /\ Callback(wprompt, FALSE).direct = FALSE
        /\ Callback(wprompt, FALSE).pc = "lock"
    BY <1>2, <2>2, <2>3, FirstCallback DEF DispatchSignal
  <2>5. WorkerAsked'
    BY <1>2, <2>2, <2>3, <2>4 DEF DispatchSignal, WorkerAsked, Only
  <2> QED
    BY <2>1, <2>5 DEF OneAtATime
<1>3. CASE LockMutex
  <2>1. AnswersMatch'
    BY <1>3 DEF AnswersMatch, LockMutex
  <2>2. callbacks # << >> /\ Top.pc = "lock"
    BY <1>3 DEF LockMutex, At
  <2>3. PICK c \in CallbackStates : Only(c)
    BY <2>2 DEF OneAtATime, WorkerIdle, WorkerAsked, WorkerTold
  <2>4. c.pc = "lock"
    BY <2>2, <2>3, OnlyOne
  <2>5. PICK d \in CallbackStates :
          callbacks' = <<d>> /\ d.of = c.of /\ d.direct = c.direct /\ d.pc = "dialog"
    <3> DEFINE d == [c EXCEPT !.pc = "dialog", !.owns = (mutex = "free")]
    <3>1. (mutex = "free") \in BOOLEAN
      OBVIOUS
    <3>2. /\ [callbacks EXCEPT ![1].pc = "dialog", ![1].owns = (mutex = "free")] = <<d>>
          /\ d \in CallbackStates
          /\ d.of = c.of /\ d.direct = c.direct /\ d.pc = "dialog"
      BY <2>3, <3>1, OnlyOneLocks
    <3>3. callbacks' = <<d>>
      BY <1>3, <3>2 DEF LockMutex
    <3> QED
      BY <3>2, <3>3
  <2>6. Only(d)'
    BY <2>5 DEF Only
  <2>7. \A e \in CallbackStates : Only(e) => e = c
    BY <2>3 DEF Only
  <2>8. ASSUME WorkerIdle PROVE WorkerIdle'
    BY <1>3, <2>4, <2>5, <2>6, <2>7, <2>8, <2>2 DEF LockMutex, WorkerIdle
  <2>9. ASSUME WorkerAsked PROVE WorkerAsked'
    BY <1>3, <2>4, <2>5, <2>6, <2>7, <2>9, <2>2 DEF LockMutex, WorkerAsked
  <2>10. ~WorkerTold
    BY <2>2, <2>4, <2>7 DEF WorkerTold
  <2> QED
    BY <2>1, <2>8, <2>9, <2>10 DEF OneAtATime
<1>4. CASE CloseDialog
  <2>1. callbacks # << >> /\ Top.pc = "dialog"
    BY <1>4 DEF CloseDialog, At
  <2>2. PICK c \in CallbackStates : Only(c)
    BY <2>1 DEF OneAtATime, WorkerIdle, WorkerAsked, WorkerTold
  <2>3. c.pc = "dialog" /\ Top = c
    BY <2>1, <2>2, OnlyOne
  <2>4. PICK d \in CallbackStates :
          callbacks' = <<d>> /\ d.of = c.of /\ d.direct = c.direct /\ d.pc = "unlock"
    BY <1>4, <2>2, OnlyOne DEF CloseDialog
  <2>5. Only(d)'
    BY <2>4 DEF Only
  <2>6. \A e \in CallbackStates : Only(e) => e = c
    BY <2>2 DEF Only
  <2>7. ~WorkerTold
    BY <2>1, <2>3, <2>6 DEF WorkerTold
  <2>8. result[c.of] = "none" /\ ~dataReceived
    BY <2>1, <2>3, <2>6, <2>7 DEF OneAtATime, WorkerIdle, WorkerAsked
  <2>9. Answered(c.of)' /\ AnswersMatch'
    BY <1>4, <2>2, <2>8, ClosedIsAnswered
  <2>10. ASSUME WorkerIdle PROVE WorkerIdle'
    BY <1>4, <2>1, <2>3, <2>4, <2>5, <2>6, <2>9, <2>10
    DEF CloseDialog, SignalDone, WorkerIdle
  <2>11. ASSUME WorkerAsked PROVE WorkerTold'
    <3>1. c.of = wprompt /\ ~c.direct /\ signals = << >>
      BY <2>1, <2>6, <2>11 DEF WorkerAsked
    <3>2. wpc' # "idle"
      BY <1>4, <2>11 DEF CloseDialog, SignalDone, WorkerAsked
    <3>3. UNCHANGED <<wprompt, signals, result>>
      BY <1>4 DEF CloseDialog
    <3> QED
      BY <2>4, <2>5, <2>9, <2>11, <3>1, <3>2, <3>3 DEF WorkerAsked, WorkerTold
  <2> QED
    BY <2>7, <2>9, <2>10, <2>11 DEF OneAtATime
<1>5. CASE UnlockMutex
  <2>1. AnswersMatch'
    BY <1>5 DEF AnswersMatch, UnlockMutex
  <2>2. callbacks # << >> /\ Top.pc = "unlock"
    BY <1>5 DEF UnlockMutex, At
  <2>3. PICK c \in CallbackStates : Only(c)
    BY <2>2 DEF OneAtATime, WorkerIdle, WorkerAsked, WorkerTold
  <2>4. c.pc = "unlock" /\ Top = c
    BY <2>2, <2>3, OnlyOne
  <2>5. \A e \in CallbackStates : Only(e) => e = c
    BY <2>3 DEF Only
  <2>6. ~WorkerAsked
    BY <2>2, <2>4, <2>5 DEF WorkerAsked
  <2>7. \A p : Answered(p) => Answered(p)'
    BY <1>5 DEF UnlockMutex, Answered, Answer, Due
  <2>8. ASSUME c.direct PROVE WorkerIdle'
    <3>1. PICK d \in CallbackStates :
            callbacks' = <<d>> /\ d.of = c.of /\ d.direct = c.direct /\ d.pc = "return"
      BY <1>5, <2>3, <2>4, <2>8, OnlyOne DEF UnlockMutex
    <3>2. Only(d)'
      BY <3>1 DEF Only
    <3>3. WorkerIdle /\ result[c.of] = "none" /\ Answered(c.of)
      BY <2>2, <2>4, <2>5, <2>6, <2>8 DEF OneAtATime, WorkerIdle, WorkerTold
    <3>4. UNCHANGED <<wpc, signals, result>>
      BY <1>5 DEF UnlockMutex
    <3> QED
      BY <2>7, <2>8, <3>1, <3>2, <3>3, <3>4 DEF WorkerIdle
  <2>9. ASSUME ~c.direct PROVE OneAtATime'
    <3>1. callbacks' = << >>
      BY <1>5, <2>3, <2>4, <2>9, OnlyOne DEF UnlockMutex
    <3>2. UNCHANGED <<wpc, wprompt, signals, result, dataReceived>>
      BY <1>5 DEF UnlockMutex
    <3>3. ASSUME WorkerIdle PROVE WorkerIdle'
      BY <2>2, <2>4, <2>5, <2>9, <3>1, <3>2, <3>3 DEF WorkerIdle
    <3>4. ASSUME WorkerTold PROVE WorkerTold'
      BY <2>7, <3>1, <3>2, <3>4 DEF WorkerTold
    <3> QED
      BY <2>6, <3>3, <3>4 DEF OneAtATime
  <2> QED
    BY <2>1, <2>8, <2>9 DEF OneAtATime
<1>6. CASE MainReturns
  <2>1. callbacks # << >> /\ Top.pc = "return"
    BY <1>6 DEF MainReturns, At
  <2>2. PICK c \in CallbackStates : Only(c)
    BY <2>1 DEF OneAtATime, WorkerIdle, WorkerAsked, WorkerTold
  <2>3. c.pc = "return" /\ Top = c /\ Tail(callbacks) = << >>
    BY <2>1, <2>2, OnlyOne
  <2>4. \A e \in CallbackStates : Only(e) => e = c
    BY <2>2 DEF Only
  <2>5. WorkerIdle /\ result[c.of] = "none" /\ Answered(c.of)
    BY <2>1, <2>3, <2>4 DEF OneAtATime, WorkerIdle, WorkerAsked, WorkerTold
  <2>6. c.of \in Prompts
    BY DEF CallbackStates
  <2>7. AnswersMatch'
    BY <1>6, <2>3, <2>5, <2>6 DEF MainReturns, AnswersMatch, Answered, Due, TypeOK
  <2>8. WorkerIdle'
    BY <1>6, <2>3, <2>5 DEF MainReturns, WorkerIdle
  <2> QED
    BY <2>7, <2>8 DEF OneAtATime
<1> QED
  BY <1>1, <1>2, <1>3, <1>4, <1>5, <1>6 DEF MainGoesOn

LEMMA AnswerStep == ~Overlap /\ AnswerInv /\ [Next]_vars => AnswerInv'
<1> SUFFICES ASSUME ~Overlap, AnswerInv, [Next]_vars PROVE AnswerInv'
  OBVIOUS
<1>1. TypeOK'
  BY TypeStep DEF AnswerInv
<1>2. CASE Next
  BY <1>1, <1>2, AnswerWorker, AnswerMain DEF Next, AnswerInv
<1>3. CASE UNCHANGED vars
  BY <1>1, <1>3 DEF AnswerInv, AnswersMatch, OneAtATime, WorkerIdle, WorkerAsked,
                    WorkerTold, Only, Answered, Answer, Due, vars
<1> QED
  BY <1>2, <1>3

LEMMA AnswerInvariance == ~Overlap => (Spec => []AnswerInv)
<1>1. Init => AnswerInv
  BY TypeInit, AnswerInit DEF AnswerInv
<1> SUFFICES ASSUME ~Overlap PROVE Spec => []AnswerInv
  OBVIOUS
<1>2. AnswerInv /\ [Next]_vars => AnswerInv'
  BY AnswerStep
<1> QED
  BY <1>1, <1>2, PTL DEF Spec

\* Where the prompts do not overlap, every prompt of either thread returns
\* what the user answered to it and to no other one, although one flag and one
\* set of fields serve them all and nothing makes the worker wait long enough.
THEOREM OwnAnswer == ~Overlap => (Spec => []AnswersMatch)
<1>1. AnswerInv => AnswersMatch
  BY DEF AnswerInv
<1> QED
  BY <1>1, AnswerInvariance, PTL

\* "Parent has done its job and signalled": the worker goes on only after the
\* user has answered.
THEOREM DoneBeforeGoingOn == ~Overlap => (Spec => []ParentIsDone)
<1>1. AnswerInv => ParentIsDone
  BY DEF AnswerInv, OneAtATime, WorkerIdle, WorkerAsked, WorkerTold, Answered,
         ParentIsDone
<1> QED
  BY <1>1, AnswerInvariance, PTL
=============================================================================
