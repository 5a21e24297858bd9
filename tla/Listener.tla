------------------------------ MODULE Listener ------------------------------
(***************************************************************************)
(* librapidsvn/src/listener.cpp: how a prompt of the Subversion library    *)
(* (login, client certificate, server trust) reaches the user.             *)
(*                                                                         *)
(* One Listener serves both threads.  A prompt of the worker thread posts  *)
(* a signal to the frame and waits on a condition; a prompt of the main    *)
(* thread calls the same dialog code directly.  The dialog code takes the  *)
(* mutex and broadcasts the condition; the question, the answer and the    *)
(* flag dataReceived lie in fields both threads share.                     *)
(***************************************************************************)
EXTENDS Naturals, Sequences

CONSTANTS WorkerPrompts,    \* prompts raised inside Action::Perform
          MainPrompts,      \* prompts raised by the main thread's own calls
          Kind,             \* what each prompt asks for
          Nobody,           \* no prompt
          Overlap           \* may the main thread prompt while the worker
                            \* does?

Prompts == WorkerPrompts \cup MainPrompts
\* The log message is asked for as the login is, the password of a client
\* certificate as the certificate.
Kinds   == {"login", "cert", "trust"}

ASSUME PromptsAssumption == /\ Nobody \notin Prompts
                            /\ WorkerPrompts \cap MainPrompts = {}
ASSUME KindAssumption    == Kind \in [Prompts -> Kinds]
ASSUME OverlapAssumption == Overlap \in BOOLEAN

VARIABLES
    mutex,          \* who holds Data::mutex
    dataReceived,   \* Data::dataReceived
    data,           \* whose answer username and password, certFile and
                    \* sslServerTrustAnswer hold
    signals,        \* SIG_... events posted to the frame, each with the
                    \* prompt it is for
    callbacks,      \* dialogs of the main thread, innermost first
    wpc,            \* where the worker is in sendSignalAndWait
    wprompt,        \* the prompt it is there for
    user,           \* history: what the user answered to each prompt
    result          \* history: what each prompt returned: "refused", or
                    \* whose answer

vars == <<mutex, dataReceived, data, signals, callbacks, wpc, wprompt, user,
          result>>

Callback(p, direct) == [of |-> p, direct |-> direct, pc |-> "lock",
                        owns |-> FALSE]

Top       == Head(callbacks)
At(pc)    == callbacks # << >> /\ Top.pc = pc
\* The event loop of the frame, or of the innermost dialog, is running.
EventLoop == callbacks # << >> => Top.pc = "dialog"

\* Listener::contextGet...: only the login stores a proposal in the fields
\* of the answer.
AskedData(p) == IF Kind[p] = "login" THEN [data EXCEPT !["login"] = Nobody]
                ELSE data

\* What the caller of the Listener gets; the trust prompt returns
\* sslServerTrustAnswer whatever the flag says.
Answer(p) == IF Kind[p] = "trust" \/ dataReceived THEN data[Kind[p]]
             ELSE "refused"

Init ==
    /\ mutex = "free"
    /\ dataReceived = FALSE
    /\ data = [k \in Kinds |-> Nobody]
    /\ signals = << >>
    /\ callbacks = << >>
    /\ wpc = "idle"
    /\ wprompt = Nobody
    /\ user = [p \in Prompts |-> "open"]
    /\ result = [p \in Prompts |-> "none"]

-----------------------------------------------------------------------------
(* Faulty variants of definitions below: bugs the properties must notice.  *)

\* dataReceived is not reset for the next callback.
WorkerReturnsStale ==
    /\ wpc = "answered"
    /\ result' = [result EXCEPT ![wprompt] = Answer(wprompt)]
    /\ wpc' = "idle"
    /\ wprompt' = Nobody
    /\ UNCHANGED <<mutex, dataReceived, data, signals, callbacks, user>>

\* signalDone does nothing in the main thread, as its comment has it.
SignalDoneSilent == UNCHANGED wpc

\* The main thread posts a signal too.
MainAsksPosts(p) ==
    /\ EventLoop
    /\ result[p] = "none"
    /\ ~Overlap => wpc = "idle" /\ callbacks = << >>
    /\ data' = AskedData(p)
    /\ signals' = Append(signals, p)
    /\ UNCHANGED <<mutex, dataReceived, callbacks, wpc, wprompt, user, result>>

\* The condition is not waited for at all.
WaitReturns ==
    /\ wpc = "posted"
    /\ wpc' = "answered"
    /\ UNCHANGED <<mutex, dataReceived, data, signals, callbacks, wprompt,
                   user, result>>

-----------------------------------------------------------------------------
(* The worker thread: sendSignalAndWait outside the main thread            *)

\* wxPostEvent.
WorkerAsks(p) ==
    /\ wpc = "idle"
    /\ result[p] = "none"
    /\ ~Overlap => callbacks = << >>
    /\ data' = AskedData(p)
    /\ signals' = Append(signals, p)
    /\ wpc' = "posted"
    /\ wprompt' = p
    /\ UNCHANGED <<mutex, dataReceived, callbacks, user, result>>

\* parentDoneSignal->Wait(): gives the mutex up and sleeps.  At the first
\* prompt the worker does not hold it, which the library leaves undefined:
\* the main thread's lock survives or is lost.
Wait ==
    /\ wpc = "posted"
    /\ wpc' = "waiting"
    /\ mutex' \in IF mutex = "main" THEN {"main", "free"} ELSE {"free"}
    /\ UNCHANGED <<dataReceived, data, signals, callbacks, wprompt, user,
                   result>>

\* Wait returns with the mutex locked; nobody unlocks it.
WakeUp ==
    /\ wpc = "woken"
    /\ mutex = "free"
    /\ mutex' = "worker"
    /\ wpc' = "answered"
    /\ UNCHANGED <<dataReceived, data, signals, callbacks, wprompt, user,
                   result>>

WorkerReturns ==
    /\ wpc = "answered"
    /\ result' = [result EXCEPT ![wprompt] = Answer(wprompt)]
    /\ dataReceived' = FALSE
    /\ wpc' = "idle"
    /\ wprompt' = Nobody
    /\ UNCHANGED <<mutex, data, signals, callbacks, user>>

-----------------------------------------------------------------------------
(* The main thread: handleEvent, for a signal or for a prompt of its own   *)

\* parentDoneSignal->Broadcast(): wakes the worker if it waits already.
SignalDone == wpc' = IF wpc = "waiting" THEN "woken" ELSE wpc

DispatchSignal ==
    /\ EventLoop
    /\ signals # << >>
    /\ signals' = Tail(signals)
    /\ callbacks' = <<Callback(Head(signals), FALSE)>> \o callbacks
    /\ UNCHANGED <<mutex, dataReceived, data, wpc, wprompt, user, result>>

MainAsks(p) ==
    /\ EventLoop
    /\ result[p] = "none"
    /\ \A i \in 1..Len(callbacks) : callbacks[i].of # p
    /\ ~Overlap => wpc = "idle" /\ callbacks = << >>
    /\ data' = AskedData(p)
    /\ callbacks' = <<Callback(p, TRUE)>> \o callbacks
    /\ UNCHANGED <<mutex, dataReceived, signals, wpc, wprompt, user, result>>

\* wxMutexLocker: waits while the worker holds the mutex; in a dialog on top
\* of another one it reports wxMUTEX_DEAD_LOCK and goes on without.
LockMutex ==
    /\ At("lock")
    /\ mutex # "worker"
    /\ mutex' = "main"
    /\ callbacks' = [callbacks EXCEPT ![1].pc = "dialog",
                                      ![1].owns = mutex = "free"]
    /\ UNCHANGED <<dataReceived, data, signals, wpc, wprompt, user, result>>

\* The dialog is closed.  A cancelled login leaves dataReceived as it is, a
\* certificate sets it to the outcome, and trust always to true.
CloseDialog ==
    /\ At("dialog")
    /\ \E ok \in BOOLEAN :
         LET p == Top.of IN
         /\ user' = [user EXCEPT ![p] = IF ok THEN "ok" ELSE "cancel"]
         /\ dataReceived' = CASE Kind[p] = "login" -> ok \/ dataReceived
                              [] Kind[p] = "cert"  -> ok
                              [] Kind[p] = "trust" -> TRUE
         /\ data' = IF ok \/ Kind[p] # "login" THEN [data EXCEPT ![Kind[p]] = p]
                    ELSE data
    /\ SignalDone
    /\ callbacks' = [callbacks EXCEPT ![1].pc = "unlock"]
    /\ UNCHANGED <<mutex, signals, wprompt, result>>

\* The locker's destructor.  The worker may have got the mutex meanwhile if
\* its Wait took it away; then the unlock fails or frees it.
UnlockMutex ==
    /\ At("unlock")
    /\ mutex' \in CASE ~Top.owns         -> {mutex}
                    [] mutex = "worker"  -> {"worker", "free"}
                    [] OTHER             -> {"free"}
    /\ callbacks' = IF Top.direct THEN [callbacks EXCEPT ![1].pc = "return"]
                    ELSE Tail(callbacks)
    /\ UNCHANGED <<dataReceived, data, signals, wpc, wprompt, user, result>>

MainReturns ==
    /\ At("return")
    /\ result' = [result EXCEPT ![Top.of] = Answer(Top.of)]
    /\ dataReceived' = FALSE
    /\ callbacks' = Tail(callbacks)
    /\ UNCHANGED <<mutex, data, signals, wpc, wprompt, user>>

-----------------------------------------------------------------------------
WorkerGoesOn == Wait \/ WakeUp \/ WorkerReturns

MainGoesOn == \/ DispatchSignal \/ LockMutex \/ CloseDialog \/ UnlockMutex
              \/ MainReturns

Next == \/ \E p \in WorkerPrompts : WorkerAsks(p)
        \/ \E p \in MainPrompts : MainAsks(p)
        \/ WorkerGoesOn
        \/ MainGoesOn

Spec == Init /\ [][Next]_vars

\* Both threads are scheduled and the user answers every dialog.
FairSpec == Spec /\ WF_vars(WorkerGoesOn) /\ WF_vars(MainGoesOn)

-----------------------------------------------------------------------------
(* Properties                                                              *)

TypeOK ==
    /\ mutex \in {"free", "main", "worker"}
    /\ dataReceived \in BOOLEAN
    /\ data \in [Kinds -> Prompts \cup {Nobody}]
    /\ signals \in Seq(WorkerPrompts)
    /\ callbacks \in Seq([of: Prompts, direct: BOOLEAN, owns: BOOLEAN,
                          pc: {"lock", "dialog", "unlock", "return"}])
    /\ wpc \in {"idle", "posted", "waiting", "woken", "answered"}
    /\ wprompt \in WorkerPrompts \cup {Nobody}
    /\ user \in [Prompts -> {"open", "ok", "cancel"}]
    /\ result \in [Prompts -> Prompts \cup {Nobody, "none", "refused"}]

\* Every prompt returns what the user answered to it and to no other one: a
\* confirmed one its own data, a cancelled one a refusal (server trust: its
\* own answer in both cases), although flag and fields are shared.
AnswersMatch ==
    \A p \in Prompts : result[p] # "none" =>
        /\ user[p] # "open"
        /\ result[p] = IF user[p] = "ok" \/ Kind[p] = "trust" THEN p
                       ELSE "refused"

\* contextGetLogin: "Parent has done its job and signalled": the worker does
\* not go on before the user has answered its prompt.
ParentIsDone == wpc = "answered" => user[wprompt] # "open"

\* A worker that waits before the user answers gets the answer.
AnswersGetThrough == \A p \in WorkerPrompts :
    wpc = "waiting" /\ wprompt = p /\ user[p] = "open" ~> result[p] # "none"

\* A prompt of the main thread returns once the user has answered: "if we
\* are already in the main thread we can skip" the signal "and wait here".
MainPromptsReturn == \A p \in MainPrompts :
    (\E i \in 1..Len(callbacks) : callbacks[i].of = p) ~> result[p] # "none"
=============================================================================
