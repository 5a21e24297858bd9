-------------------------- MODULE MainFrameProofs ---------------------------
(***************************************************************************)
(* Proofs about MainFrame, for every set of actions, every choice of their *)
(* flags and any depth of nested dialogs, events that start an action from *)
(* inside another one's Prepare included.                                  *)
(***************************************************************************)
EXTENDS MainFrame, SequenceTheorems, TLAPS

-----------------------------------------------------------------------------
(* The inductive invariant                                                 *)

\* An event with this token about a waits in q.
Pending(q, tok, a) ==
    \E i \in 1..Len(q) : q[i].tok = tok /\ q[i].act = a

\* No action is to be deleted twice, or requested twice.
Unique(q) ==
    \A i, j \in 1..Len(q) :
        /\ q[i].tok \in {"DELETE_ACTION", "REQUEST"}
        /\ q[i].tok = q[j].tok
        /\ q[i].act = q[j].act
        => i = j

\* The Prepare of a waits for its dialog.
Waiting(s, a) ==
    \E i \in 1..Len(s) : s[i].kind = "prepare" /\ s[i].act = a

Distinct(s) ==
    \A i, j \in 1..Len(s) :
        /\ s[i].kind = "prepare"
        /\ s[j].kind = "prepare"
        /\ s[i].act = s[j].act
        => i = j

\* The worker may use a: accepted, alive, and its deletion not asked for.
Held(a) ==
    /\ a \in accepted
    /\ heap[a] = "live"
    /\ ~Pending(queue, "DELETE_ACTION", a)

\* What the worker thread finds behind the pointer and in its own hands.
PointerInv ==
    /\ wpc \in {"poll", "start"} /\ action # None
         => Held(action) /\ performs[action] = 0
    /\ wpc = "start" => action # None
    /\ wpc \in {"perform", "logged", "end", "delete"} => Held(action)
    /\ InPerform => Held(wact)

QueueInv ==
    /\ \A a \in Actions \cup {None} :
         /\ Pending(queue, "DELETE_ACTION", a)
              => a \in accepted /\ heap[a] = "live"
         /\ Pending(queue, "REQUEST", a)
              => a \in Actions /\ heap[a] = "requested"
    /\ Unique(queue)

StackInv ==
    /\ \A a \in Actions \cup {None} : Waiting(stack, a)
         => a \in Actions /\ a \notin accepted /\ heap[a] = "live"
    /\ Distinct(stack)

HeapInv ==
    \A a \in Actions :
        /\ a \in accepted => heap[a] \in {"live", "freed"}
        /\ performs[a] # 0 => a \in accepted /\ performs[a] = 1

\* A Stop in force is meant for the action the worker has or is about to
\* run, and is never in force while an action prepares itself.
StopInv ==
    /\ \A a \in Actions \cup {None} : Waiting(stack, a) => ~isCancelled
    /\ isCancelled =>
         /\ InPerform => wact \in stopped
         /\ wpc \in {"poll", "start"} /\ action # None => action \in stopped

IInv == TypeOK /\ PointerInv /\ QueueInv /\ StackInv /\ HeapInv /\ StopInv

-----------------------------------------------------------------------------
(* The queue and the stack                                                 *)

\* Posting appends the event and keeps the others in place.
LEMMA PostIndex ==
    ASSUME NEW q \in Seq(Event), NEW e \in Event
    PROVE  /\ Post(q, e) \in Seq(Event)
           /\ Len(Post(q, e)) = Len(q) + 1
           /\ \A i \in 1..Len(q) : Post(q, e)[i] = q[i]
           /\ Post(q, e)[Len(q) + 1] = e
           /\ Len(q) \in Nat
           /\ \A i \in 1..Len(Post(q, e)) :
                 i = Len(q) + 1 \/ (i \in 1..Len(q) /\ Post(q, e)[i] = q[i])
BY DEF Post

\* What waits in the queue after an event was posted.
LEMMA PostPending ==
    ASSUME NEW q \in Seq(Event), NEW e \in Event, NEW tok, NEW a
    PROVE  Pending(Post(q, e), tok, a)
             <=> Pending(q, tok, a) \/ (e.tok = tok /\ e.act = a)
<1> DEFINE p == Post(q, e)
<1>1. /\ Len(p) = Len(q) + 1
      /\ \A i \in 1..Len(q) : p[i] = q[i]
      /\ p[Len(q) + 1] = e
      /\ Len(q) \in Nat
      /\ \A i \in 1..Len(p) : i = Len(q) + 1 \/ (i \in 1..Len(q) /\ p[i] = q[i])
  BY PostIndex
<1> HIDE DEF p
<1>2. ASSUME Pending(p, tok, a)
      PROVE  Pending(q, tok, a) \/ (e.tok = tok /\ e.act = a)
  BY <1>1, <1>2 DEF Pending
<1>3. ASSUME Pending(q, tok, a)
      PROVE  Pending(p, tok, a)
  <2>1. PICK i \in 1..Len(q) : q[i].tok = tok /\ q[i].act = a
    BY <1>3 DEF Pending
  <2>2. i \in 1..Len(p) /\ p[i] = q[i]
    BY <1>1
  <2> QED BY <2>1, <2>2 DEF Pending
<1>4. ASSUME e.tok = tok /\ e.act = a
      PROVE  Pending(p, tok, a)
  <2>1. Len(q) + 1 \in 1..Len(p)
    BY <1>1
  <2> QED BY <1>1, <1>4, <2>1 DEF Pending
<1> QED BY <1>2, <1>3, <1>4 DEF p

\* Posting keeps the queue free of duplicates if the event is new.
LEMMA PostUnique ==
    ASSUME NEW q \in Seq(Event), NEW e \in Event, Unique(q),
           e.tok \in {"DELETE_ACTION", "REQUEST"} => ~Pending(q, e.tok, e.act)
    PROVE  Unique(Post(q, e))
<1> DEFINE p == Post(q, e)
<1>1. /\ p[Len(q) + 1] = e
      /\ \A i \in 1..Len(p) : i = Len(q) + 1 \/ (i \in 1..Len(q) /\ p[i] = q[i])
  BY PostIndex
<1> HIDE DEF p
<1>2. SUFFICES ASSUME NEW i \in 1..Len(p), NEW j \in 1..Len(p),
                      p[i].tok \in {"DELETE_ACTION", "REQUEST"},
                      p[i].tok = p[j].tok, p[i].act = p[j].act
               PROVE  i = j
  BY DEF Unique, p
<1>3. CASE i \in 1..Len(q) /\ p[i] = q[i] /\ j \in 1..Len(q) /\ p[j] = q[j]
  BY <1>2, <1>3 DEF Unique
<1>4. CASE i = Len(q) + 1 /\ j \in 1..Len(q) /\ p[j] = q[j]
  BY <1>1, <1>2, <1>4 DEF Pending
<1>5. CASE j = Len(q) + 1 /\ i \in 1..Len(q) /\ p[i] = q[i]
  BY <1>1, <1>2, <1>5 DEF Pending
<1> QED BY <1>1, <1>3, <1>4, <1>5

\* Taking the first event shifts the others.
LEMMA TakeIndex ==
    ASSUME NEW q \in Seq(Event), q # << >>
    PROVE  /\ Tail(q) \in Seq(Event)
           /\ Head(q) \in Event
           /\ Head(q) = q[1]
           /\ 1 \in 1..Len(q)
           /\ Len(Tail(q)) = Len(q) - 1
           /\ \A i \in 1..Len(Tail(q)) : i + 1 \in 1..Len(q) /\ Tail(q)[i] = q[i + 1]
OBVIOUS

\* What waits after the first event was taken has waited before.
LEMMA TakePending ==
    ASSUME NEW q \in Seq(Event), q # << >>
    PROVE  /\ Head(q) \in Event
           /\ Tail(q) \in Seq(Event)
           /\ Pending(q, Head(q).tok, Head(q).act)
           /\ \A tok, a : Pending(Tail(q), tok, a) => Pending(q, tok, a)
BY TakeIndex DEF Pending

\* The queue stays free of duplicates, and of the event that was taken.
LEMMA TakeUnique ==
    ASSUME NEW q \in Seq(Event), q # << >>, Unique(q)
    PROVE  /\ Unique(Tail(q))
           /\ Head(q).tok \in {"DELETE_ACTION", "REQUEST"}
                => ~Pending(Tail(q), Head(q).tok, Head(q).act)
<1> DEFINE t == Tail(q)
<1>1. /\ Head(q) = q[1]
      /\ 1 \in 1..Len(q)
      /\ \A i \in 1..Len(t) : i + 1 \in 1..Len(q) /\ t[i] = q[i + 1]
      /\ Len(t) \in Nat
  BY TakeIndex
<1> HIDE DEF t
<1>2. Unique(t)
  <2>1. SUFFICES ASSUME NEW i \in 1..Len(t), NEW j \in 1..Len(t),
                        t[i].tok \in {"DELETE_ACTION", "REQUEST"},
                        t[i].tok = t[j].tok, t[i].act = t[j].act
                 PROVE  i = j
    BY DEF Unique
  <2>2. i + 1 = j + 1
    BY <1>1, <2>1 DEF Unique
  <2> QED BY <1>1, <2>2
<1>3. ASSUME q[1].tok \in {"DELETE_ACTION", "REQUEST"},
             Pending(t, q[1].tok, q[1].act)
      PROVE  FALSE
  <2>1. PICK i \in 1..Len(t) : t[i].tok = q[1].tok /\ t[i].act = q[1].act
    BY <1>3 DEF Pending
  <2>2. i + 1 = 1
    BY <1>1, <1>3, <2>1 DEF Unique
  <2> QED BY <1>1, <2>2
<1> QED BY <1>1, <1>2, <1>3 DEF t

\* The dialog f opens in front of those of s.
LEMMA PushStack ==
    ASSUME NEW s \in Seq(Frame), NEW f \in Frame
    PROVE  /\ <<f>> \o s \in Seq(Frame)
           /\ \A a : Waiting(<<f>> \o s, a)
                 <=> Waiting(s, a) \/ (f.kind = "prepare" /\ f.act = a)
           /\ Distinct(s) /\ (f.kind = "prepare" => ~Waiting(s, f.act))
                 => Distinct(<<f>> \o s)
<1> DEFINE t == <<f>> \o s
<1>1. /\ t \in Seq(Frame)
      /\ Len(t) = Len(s) + 1
      /\ t[1] = f
      /\ \A i \in 1..Len(s) : i + 1 \in 1..Len(t) /\ t[i + 1] = s[i]
      /\ \A i \in 1..Len(t) : i = 1 \/ (i - 1 \in 1..Len(s) /\ t[i] = s[i - 1])
  <2>1. <<f>> \in Seq(Frame) /\ Len(<<f>>) = 1 /\ <<f>>[1] = f
    OBVIOUS
  <2>2. /\ t \in Seq(Frame)
        /\ Len(t) = 1 + Len(s)
        /\ \A i \in 1..Len(t) :
              t[i] = IF i <= 1 THEN <<f>>[i] ELSE s[i - 1]
    BY <2>1, ConcatProperties
  <2>3. Len(s) \in Nat
    OBVIOUS
  <2> HIDE DEF t
  <2> QED BY <2>1, <2>2, <2>3
<1> HIDE DEF t
<1>2. ASSUME NEW a
      PROVE  Waiting(t, a)
               <=> Waiting(s, a) \/ (f.kind = "prepare" /\ f.act = a)
  <2>1. ASSUME Waiting(t, a)
        PROVE  Waiting(s, a) \/ (f.kind = "prepare" /\ f.act = a)
    BY <1>1, <2>1 DEF Waiting
  <2>2. ASSUME Waiting(s, a)
        PROVE  Waiting(t, a)
    <3>1. PICK i \in 1..Len(s) : s[i].kind = "prepare" /\ s[i].act = a
      BY <2>2 DEF Waiting
    <3>2. i + 1 \in 1..Len(t) /\ t[i + 1] = s[i]
      BY <1>1
    <3> QED BY <3>1, <3>2 DEF Waiting
  <2>3. ASSUME f.kind = "prepare" /\ f.act = a
        PROVE  Waiting(t, a)
    <3>1. 1 \in 1..Len(t)
      BY <1>1
    <3> QED BY <1>1, <2>3, <3>1 DEF Waiting
  <2> QED BY <2>1, <2>2, <2>3
<1>3. ASSUME Distinct(s), f.kind = "prepare" => ~Waiting(s, f.act)
      PROVE  Distinct(t)
  <2>1. SUFFICES ASSUME NEW i \in 1..Len(t), NEW j \in 1..Len(t),
                        t[i].kind = "prepare", t[j].kind = "prepare",
                        t[i].act = t[j].act
                 PROVE  i = j
    BY DEF Distinct
  <2>2. CASE i = 1 /\ j # 1
    BY <1>1, <1>3, <2>1, <2>2 DEF Waiting
  <2>3. CASE j = 1 /\ i # 1
    BY <1>1, <1>3, <2>1, <2>3 DEF Waiting
  <2>4. CASE i # 1 /\ j # 1
    <3>1. i - 1 = j - 1
      BY <1>1, <1>3, <2>1, <2>4 DEF Distinct
    <3> QED BY <3>1
  <2> QED BY <2>2, <2>3, <2>4
<1> QED BY <1>1, <1>2, <1>3 DEF t

\* The innermost dialog is closed.
LEMMA PopStack ==
    ASSUME NEW s \in Seq(Frame), s # << >>
    PROVE  /\ Tail(s) \in Seq(Frame)
           /\ Head(s) \in Frame
           /\ Head(s).kind = "prepare" => Waiting(s, Head(s).act)
           /\ \A a : Waiting(Tail(s), a) => Waiting(s, a)
           /\ Distinct(s) =>
                /\ Distinct(Tail(s))
                /\ Head(s).kind = "prepare" => ~Waiting(Tail(s), Head(s).act)
<1>1. /\ Tail(s) \in Seq(Frame)
      /\ Head(s) \in Frame
      /\ Head(s) = s[1]
      /\ 1 \in 1..Len(s)
      /\ Len(Tail(s)) = Len(s) - 1
      /\ \A i \in 1..Len(Tail(s)) : i + 1 \in 1..Len(s) /\ Tail(s)[i] = s[i + 1]
  OBVIOUS
<1>2. \A a : Waiting(Tail(s), a) => Waiting(s, a)
  BY <1>1 DEF Waiting
<1>3. Head(s).kind = "prepare" => Waiting(s, Head(s).act)
  BY <1>1 DEF Waiting
<1>4. Distinct(s) =>
        /\ Distinct(Tail(s))
        /\ Head(s).kind = "prepare" => ~Waiting(Tail(s), Head(s).act)
  BY <1>1 DEF Waiting, Distinct
<1> QED BY <1>1, <1>2, <1>3, <1>4

\* What waits for an action after an event was posted to the frame.
LEMMA PostToFrame ==
    ASSUME TypeOK, NEW e \in Event, queue' = Post(queue, e)
    PROVE  /\ queue' \in Seq(Event)
           /\ \A tok \in {"DELETE_ACTION", "REQUEST"} : \A a :
                 Pending(queue', tok, a)
                   <=> Pending(queue, tok, a) \/ (e.tok = tok /\ e.act = a)
<1>1. queue \in Seq(Event)
  BY DEF TypeOK
<1>2. queue' \in Seq(Event)
  BY <1>1, PostIndex
<1>3. ASSUME NEW tok, NEW a
      PROVE  Pending(queue', tok, a)
               <=> Pending(queue, tok, a) \/ (e.tok = tok /\ e.act = a)
  <2>1. Pending(Post(queue, e), tok, a)
          <=> Pending(queue, tok, a) \/ (e.tok = tok /\ e.act = a)
    BY <1>1, PostPending
  <2> QED BY <2>1
<1> QED BY <1>2, <1>3

\* Posting an event that neither requests nor deletes an action leaves what
\* waits for an action as it is.
LEMMA PostOther ==
    ASSUME TypeOK, QueueInv, NEW e \in Event,
           e.tok \notin {"DELETE_ACTION", "REQUEST"},
           queue' = Post(queue, e), UNCHANGED <<heap, accepted>>
    PROVE  /\ QueueInv'
           /\ queue' \in Seq(Event)
           /\ \A a : Pending(queue', "DELETE_ACTION", a)
                    <=> Pending(queue, "DELETE_ACTION", a)
<1>1. queue \in Seq(Event)
  BY DEF TypeOK
<1>2. queue' \in Seq(Event)
  BY PostToFrame
<1>3. \A tok \in {"DELETE_ACTION", "REQUEST"} : \A a :
         Pending(queue', tok, a) <=> Pending(queue, tok, a)
  BY PostToFrame
<1>4. Unique(queue')
  BY <1>1, PostUnique DEF QueueInv
<1>5. QueueInv'
  BY <1>3, <1>4 DEF QueueInv
<1> QED BY <1>2, <1>3, <1>5

-----------------------------------------------------------------------------
(* Steps of the worker thread                                              *)

LEMMA PollStep ==
    ASSUME IInv, Poll, UNCHANGED frameVars
    PROVE  IInv'
<1> USE DEF IInv, frameVars, Poll, historyVars
<1>1. Plain("START") \in Event /\ Plain("START").tok = "START"
  BY DEF Plain, Event, Token, FlagSet
<1>2. /\ QueueInv'
      /\ queue' \in Seq(Event)
      /\ \A a : Pending(queue', "DELETE_ACTION", a)
                <=> Pending(queue, "DELETE_ACTION", a)
  BY <1>1, PostOther
<1>3. TypeOK'
  BY <1>2 DEF TypeOK
<1>4. PointerInv'
  BY <1>2 DEF PointerInv, Held, InPerform
<1>5. StackInv'
  BY DEF StackInv
<1>6. HeapInv'
  BY DEF HeapInv
<1>7. StopInv'
  BY DEF StopInv, InPerform
<1> QED BY <1>2, <1>3, <1>4, <1>5, <1>6, <1>7

LEMMA EnterPerformStep ==
    ASSUME IInv, EnterPerform, UNCHANGED frameVars
    PROVE  IInv'
<1> USE DEF IInv, frameVars, EnterPerform
<1>1. action \in Actions /\ Held(action) /\ performs[action] = 0
  BY DEF TypeOK, PointerInv
<1>2. TypeOK'
  BY <1>1 DEF TypeOK
<1>3. PointerInv'
  BY <1>1 DEF PointerInv, Held, InPerform
<1>4. QueueInv'
  BY DEF QueueInv
<1>5. StackInv'
  BY DEF StackInv
<1>6. HeapInv'
  BY <1>1 DEF HeapInv, TypeOK, Held
<1>7. StopInv'
  BY <1>1, ActionsAssumption DEF StopInv, InPerform
<1> QED BY <1>2, <1>3, <1>4, <1>5, <1>6, <1>7

LEMMA PostLogStep ==
    ASSUME IInv, PostLog, UNCHANGED frameVars
    PROVE  IInv'
<1> USE DEF IInv, frameVars, PostLog, historyVars
<1>1. Plain("LOG") \in Event /\ Plain("LOG").tok = "LOG"
  BY DEF Plain, Event, Token, FlagSet
<1>2. /\ QueueInv'
      /\ queue' \in Seq(Event)
      /\ \A a : Pending(queue', "DELETE_ACTION", a)
                <=> Pending(queue, "DELETE_ACTION", a)
  BY <1>1, PostOther
<1>3. TypeOK'
  BY <1>2 DEF TypeOK
<1>4. PointerInv'
  BY <1>2 DEF PointerInv, Held, InPerform
<1>5. StackInv'
  BY DEF StackInv
<1>6. HeapInv'
  BY DEF HeapInv
<1>7. StopInv'
  BY DEF StopInv, InPerform
<1> QED BY <1>2, <1>3, <1>4, <1>5, <1>6, <1>7

LEMMA PerformReturnsStep ==
    ASSUME IInv, PerformReturns, UNCHANGED frameVars
    PROVE  IInv'
<1> USE DEF IInv, frameVars, PerformReturns
<1>1. InPerform
  BY DEF InPerform
<1>2. Held(action) /\ Held(wact)
  BY <1>1 DEF PointerInv, InPerform
<1>3. action \in Actions /\ wact \in Actions
  BY <1>2 DEF Held, TypeOK
<1>4. TypeOK'
  BY <1>3, FlagsAssumption DEF TypeOK
<1>5. PointerInv'
  BY <1>2 DEF PointerInv, Held, InPerform
<1>6. QueueInv'
  BY DEF QueueInv
<1>7. StackInv'
  BY DEF StackInv
<1>8. HeapInv'
  BY DEF HeapInv
<1>9. StopInv'
  BY DEF StopInv, InPerform
<1> QED BY <1>4, <1>5, <1>6, <1>7, <1>8, <1>9

LEMMA PerformThrowsStep ==
    ASSUME IInv, PerformThrows, UNCHANGED frameVars
    PROVE  IInv'
<1> USE DEF IInv, frameVars, PerformThrows
<1>1. /\ Plain("SVN_INTERNAL_ERROR") \in Event
      /\ Plain("SVN_INTERNAL_ERROR").tok = "SVN_INTERNAL_ERROR"
  BY DEF Plain, Event, Token, FlagSet
<1>2. /\ QueueInv'
      /\ queue' \in Seq(Event)
      /\ \A a : Pending(queue', "DELETE_ACTION", a)
                <=> Pending(queue, "DELETE_ACTION", a)
  BY <1>1, PostOther
<1>3. Held(action) /\ Held(wact)
  BY DEF PointerInv, InPerform
<1>4. TypeOK'
  BY <1>2, <1>3 DEF TypeOK, Held
<1>5. PointerInv'
  BY <1>2, <1>3 DEF PointerInv, Held, InPerform
<1>6. StackInv'
  BY DEF StackInv
<1>7. HeapInv'
  BY DEF HeapInv
<1>8. StopInv'
  BY DEF StopInv, InPerform
<1> QED BY <1>2, <1>4, <1>5, <1>6, <1>7, <1>8

LEMMA PostEndStep ==
    ASSUME IInv, PostEnd, UNCHANGED frameVars
    PROVE  IInv'
<1> USE DEF IInv, frameVars, PostEnd, historyVars
<1>1. End(wflags) \in Event /\ End(wflags).tok = "ACTION_END"
  BY DEF End, Event, Token, TypeOK
<1>2. /\ QueueInv'
      /\ queue' \in Seq(Event)
      /\ \A a : Pending(queue', "DELETE_ACTION", a)
                <=> Pending(queue, "DELETE_ACTION", a)
  BY <1>1, PostOther
<1>3. TypeOK'
  BY <1>2 DEF TypeOK
<1>4. PointerInv'
  BY <1>2 DEF PointerInv, Held, InPerform
<1>5. StackInv'
  BY DEF StackInv
<1>6. HeapInv'
  BY DEF HeapInv
<1>7. StopInv'
  BY DEF StopInv, InPerform
<1> QED BY <1>2, <1>3, <1>4, <1>5, <1>6, <1>7

\* The one place where a deletion is asked for: the object is held, so no
\* other deletion of it waits.
LEMMA PostDeleteStep ==
    ASSUME IInv, PostDelete, UNCHANGED frameVars
    PROVE  IInv'
<1> USE DEF IInv, frameVars, PostDelete, historyVars
<1>1. Held(action) /\ action \in Actions
  BY DEF PointerInv, Held, TypeOK
<1>2. /\ Delete(action) \in Event
      /\ Delete(action).tok = "DELETE_ACTION"
      /\ Delete(action).act = action
  BY <1>1 DEF Delete, Event, Token, FlagSet
<1>3. queue \in Seq(Event)
  BY DEF TypeOK
<1>4. /\ queue' \in Seq(Event)
      /\ \A tok \in {"DELETE_ACTION", "REQUEST"} : \A a : Pending(queue', tok, a)
           <=> Pending(queue, tok, a) \/ (tok = "DELETE_ACTION" /\ a = action)
  BY <1>2, PostToFrame
<1>5. Unique(queue')
  BY <1>1, <1>2, <1>3, PostUnique DEF QueueInv, Held
<1>6. QueueInv'
  BY <1>1, <1>4, <1>5 DEF QueueInv, Held
<1>7. TypeOK'
  BY <1>4 DEF TypeOK
<1>8. PointerInv'
  BY DEF PointerInv, InPerform
<1>9. StackInv' /\ HeapInv'
  BY DEF StackInv, HeapInv
<1>10. StopInv'
  BY DEF StopInv, InPerform
<1> QED BY <1>6, <1>7, <1>8, <1>9, <1>10

LEMMA ClearActionStep ==
    ASSUME IInv, ClearAction, UNCHANGED frameVars
    PROVE  IInv'
<1> USE DEF IInv, frameVars, ClearAction, historyVars
<1>1. TypeOK'
  BY DEF TypeOK
<1>2. PointerInv'
  BY DEF PointerInv, InPerform
<1>3. QueueInv'
  BY DEF QueueInv
<1>4. StackInv' /\ HeapInv'
  BY DEF StackInv, HeapInv
<1>5. StopInv'
  BY DEF StopInv, InPerform
<1> QED BY <1>1, <1>2, <1>3, <1>4, <1>5

-----------------------------------------------------------------------------
(* Steps of the main thread: an action is offered to the worker            *)

\* MainFrame::Perform keeps the invariant when the action is new and q is
\* the queue without the event, if any, that asked for it.
LEMMA PerformStep ==
    ASSUME IInv,
           NEW a \in Actions, heap[a] \in {"unborn", "requested"},
           NEW q \in Seq(Event), Unique(q), ~Pending(q, "REQUEST", a),
           \A tok \in {"DELETE_ACTION", "REQUEST"} : \A b :
               Pending(q, tok, b) => Pending(queue, tok, b),
           Perform(a, q)
    PROVE  IInv'
<1> USE DEF IInv
<1>1. /\ a \notin accepted
      /\ ~Pending(queue, "DELETE_ACTION", a)
      /\ ~Waiting(stack, a)
      /\ heap' = [heap EXCEPT ![a] = "live"]
      /\ heap' \in [Actions -> HeapStates]
      /\ ~isCancelled'
  BY DEF HeapInv, QueueInv, StackInv, Perform, Refuse, BeginPrepare, TypeOK,
         HeapStates
<1>2. /\ UNCHANGED <<action, wpc, wact, accepted, performs, running, stopped,
                     updateAfterActivate, isErrorDialogActive, wflags, threw,
                     unseen>>
      /\ isCancelled' \in BOOLEAN
  BY DEF Perform, Refuse, BeginPrepare, threadVars, historyVars
<1>3. /\ queue' \in Seq(Event)
      /\ Unique(queue')
      /\ \A tok \in {"DELETE_ACTION", "REQUEST"} : \A b :
            Pending(queue', tok, b) => Pending(q, tok, b)
  <2>1. CASE queue' = q
    BY <2>1
  <2>2. CASE queue' = Post(q, Plain("ERROR"))
    <3>1. Plain("ERROR") \in Event /\ Plain("ERROR").tok = "ERROR"
      BY DEF Plain, Event, Token, FlagSet
    <3>2. queue' \in Seq(Event) /\ Unique(queue')
      BY <2>2, <3>1, PostIndex, PostUnique
    <3>3. ASSUME NEW tok \in {"DELETE_ACTION", "REQUEST"}, NEW b,
                 Pending(queue', tok, b)
          PROVE  Pending(q, tok, b)
      <4>1. Pending(Post(q, Plain("ERROR")), tok, b)
              <=> \/ Pending(q, tok, b)
                  \/ Plain("ERROR").tok = tok /\ Plain("ERROR").act = b
        BY <3>1, PostPending
      <4> QED BY <2>2, <3>1, <3>3, <4>1
    <3> QED BY <3>2, <3>3
  <2> QED BY <2>1, <2>2 DEF Perform, Refuse, BeginPrepare
<1>4. PointerInv'
  BY <1>1, <1>2, <1>3 DEF PointerInv, Held, InPerform, TypeOK
<1>5. QueueInv'
  BY <1>1, <1>2, <1>3 DEF QueueInv, TypeOK
<1>6. HeapInv'
  BY <1>1, <1>2 DEF HeapInv, TypeOK
<1>7. /\ stack' \in Seq(Frame)
      /\ Distinct(stack')
      /\ \A b : Waiting(stack', b) => Waiting(stack, b) \/ b = a
  <2>1. CASE UNCHANGED stack
    BY <2>1 DEF TypeOK, StackInv
  <2>2. CASE Push(Preparing(a))
    <3>1. /\ Preparing(a) \in Frame
          /\ Preparing(a).act = a
          /\ stack \in Seq(Frame)
          /\ stack' = <<Preparing(a)>> \o stack
      BY <2>2 DEF Preparing, Frame, Push, TypeOK
    <3> QED BY <1>1, <3>1, PushStack DEF StackInv
  <2> QED BY <2>1, <2>2 DEF Perform
<1>8. StackInv'
  BY <1>1, <1>2, <1>7 DEF StackInv, TypeOK
<1>9. StopInv'
  BY <1>1 DEF StopInv
<1>10. state' \in {"NONE", "INIT", "RUNNING"}
       /\ result' \in {"NOTHING", "ABORTED", "ERROR", "SUCCESS"}
       /\ refused' \in SUBSET Actions
  BY DEF TypeOK, Perform, Refuse, BeginPrepare, historyVars
<1>11. TypeOK'
  BY <1>1, <1>2, <1>3, <1>7, <1>10 DEF TypeOK
<1> QED BY <1>4, <1>5, <1>6, <1>8, <1>9, <1>11

LEMMA FileCommandStep ==
    ASSUME IInv, NEW a \in Actions, FileCommand(a)
    PROVE  IInv'
<1>1. /\ queue \in Seq(Event)
      /\ Unique(queue)
      /\ ~Pending(queue, "REQUEST", a)
  BY DEF IInv, TypeOK, QueueInv, FileCommand
<1> QED BY <1>1, PerformStep DEF FileCommand

LEMMA DispatchRequestStep ==
    ASSUME IInv, DispatchRequest
    PROVE  IInv'
<1> DEFINE a == Head(queue).act
<1>1. queue \in Seq(Event) /\ queue # << >> /\ Head(queue).tok = "REQUEST"
  BY DEF IInv, TypeOK, DispatchRequest, Next1
<1>2. /\ Tail(queue) \in Seq(Event)
      /\ Pending(queue, "REQUEST", a)
      /\ a \in Actions \cup {None}
      /\ \A tok \in {"DELETE_ACTION", "REQUEST"} : \A b :
            Pending(Tail(queue), tok, b) => Pending(queue, tok, b)
  BY <1>1, TakePending DEF Event
<1>3. Unique(Tail(queue)) /\ ~Pending(Tail(queue), "REQUEST", a)
  BY <1>1, TakeUnique DEF IInv, QueueInv
<1>4. a \in Actions /\ heap[a] = "requested"
  BY <1>2 DEF IInv, QueueInv
<1>5. Perform(a, Tail(queue))
  BY DEF DispatchRequest
<1> HIDE DEF a
<1> QED BY <1>2, <1>3, <1>4, <1>5, PerformStep

LEMMA RequestActionStep ==
    ASSUME IInv, NEW a \in Actions, RequestAction(a)
    PROVE  IInv'
<1> USE DEF IInv
<1>1. /\ heap[a] = "unborn"
      /\ heap' = [heap EXCEPT ![a] = "requested"]
      /\ queue' = Post(queue, Request(a))
      /\ UNCHANGED <<action, state, result, wpc, wact, wflags, accepted,
                     refused, performs, threw, unseen, frameVars>>
  BY DEF RequestAction, threadVars, historyVars
<1>2. /\ a \notin accepted
      /\ ~Pending(queue, "DELETE_ACTION", a)
      /\ ~Pending(queue, "REQUEST", a)
      /\ ~Waiting(stack, a)
      /\ heap' \in [Actions -> HeapStates]
  BY <1>1 DEF HeapInv, QueueInv, StackInv, TypeOK, HeapStates
<1>3. /\ Request(a) \in Event
      /\ Request(a).tok = "REQUEST"
      /\ Request(a).act = a
  BY DEF Request, Event, Token, FlagSet
<1>4. /\ queue' \in Seq(Event)
      /\ \A b : Pending(queue', "DELETE_ACTION", b)
                <=> Pending(queue, "DELETE_ACTION", b)
      /\ \A b : Pending(queue', "REQUEST", b)
                <=> Pending(queue, "REQUEST", b) \/ b = a
  BY <1>1, <1>3, PostToFrame
<1>5. Unique(queue')
  BY <1>1, <1>2, <1>3, PostUnique DEF QueueInv, TypeOK
<1>6. QueueInv'
  BY <1>1, <1>2, <1>4, <1>5 DEF QueueInv, TypeOK
<1>7. TypeOK'
  BY <1>1, <1>2, <1>4 DEF TypeOK, frameVars
<1>8. PointerInv'
  BY <1>1, <1>2, <1>4 DEF PointerInv, Held, InPerform, TypeOK
<1>9. StackInv'
  BY <1>1, <1>2 DEF StackInv, TypeOK, frameVars
<1>10. HeapInv'
  BY <1>1, <1>2 DEF HeapInv, TypeOK
<1>11. StopInv'
  BY <1>1 DEF StopInv, InPerform, frameVars
<1> QED BY <1>6, <1>7, <1>8, <1>9, <1>10, <1>11

-----------------------------------------------------------------------------
(* Steps of the main thread: handlers that leave the objects alone         *)

\* Taking an event other than a deletion keeps the part of the invariant
\* that is about the queue and the worker.
LEMMA TakeOther ==
    ASSUME IInv, queue # << >>, Take,
           UNCHANGED <<heap, accepted, performs, action, wpc, wact>>
    PROVE  /\ queue' \in Seq(Event)
           /\ QueueInv'
           /\ PointerInv'
           /\ HeapInv'
<1> USE DEF IInv, Take
<1>1. queue \in Seq(Event) /\ Unique(queue)
  BY DEF TypeOK, QueueInv
<1>2. /\ queue' \in Seq(Event)
      /\ Unique(queue')
      /\ \A tok, b : Pending(queue', tok, b) => Pending(queue, tok, b)
  BY <1>1, TakePending, TakeUnique
<1>3. QueueInv'
  BY <1>2 DEF QueueInv
<1>4. PointerInv'
  BY <1>2 DEF PointerInv, Held, InPerform
<1>5. HeapInv'
  BY DEF HeapInv
<1> QED BY <1>2, <1>3, <1>4, <1>5

\* A handler opens its dialog, which is not one of Prepare.
LEMMA PushDialog ==
    ASSUME IInv, NEW k \in {"error", "internal", "log"}, Push(Dialog(k)),
           UNCHANGED <<heap, accepted, isCancelled, wpc, wact, action, stopped>>
    PROVE  stack' \in Seq(Frame) /\ StackInv' /\ StopInv'
<1> USE DEF IInv
<1>1. /\ Dialog(k) \in Frame
      /\ Dialog(k).kind # "prepare"
      /\ stack \in Seq(Frame)
      /\ stack' = <<Dialog(k)>> \o stack
  BY DEF Dialog, Frame, Push, TypeOK
<1>2. /\ stack' \in Seq(Frame)
      /\ Distinct(stack')
      /\ \A b : Waiting(stack', b) => Waiting(stack, b)
  BY <1>1, PushStack DEF StackInv
<1>3. StackInv'
  BY <1>2 DEF StackInv
<1>4. StopInv'
  BY <1>2 DEF StopInv, InPerform
<1> QED BY <1>2, <1>3, <1>4

\* The innermost dialog closes.
LEMMA PopDialog ==
    ASSUME IInv, stack # << >>, Pop,
           UNCHANGED <<heap, accepted, wpc, wact, action, stopped>>,
           isCancelled' => isCancelled
    PROVE  stack' \in Seq(Frame) /\ StackInv' /\ StopInv'
<1> USE DEF IInv, Pop
<1>1. stack \in Seq(Frame)
  BY DEF TypeOK
<1>2. /\ stack' \in Seq(Frame)
      /\ Distinct(stack')
      /\ \A b : Waiting(stack', b) => Waiting(stack, b)
  BY <1>1, PopStack DEF StackInv
<1>3. StackInv'
  BY <1>2 DEF StackInv
<1>4. StopInv'
  BY <1>2 DEF StopInv, InPerform
<1> QED BY <1>2, <1>3, <1>4

\* A refresh never sets the cancel flag.
LEMMA RefreshCancel ==
    ASSUME TypeOK, NEW c \in BOOLEAN, RefreshFileList(c)
    PROVE  /\ isCancelled' \in BOOLEAN
           /\ isCancelled' => c
           /\ unseen' \in SUBSET Actions
BY DEF TypeOK, RefreshFileList, CancelAfterSetRunning

LEMMA OnStopStep ==
    ASSUME IInv, OnStop
    PROVE  IInv'
<1> USE DEF IInv
<1>1. /\ UNCHANGED <<action, state, result, wpc, wact, wflags, queue, heap,
                     accepted, refused, performs, threw, unseen, stack,
                     running, updateAfterActivate, isErrorDialogActive>>
      /\ isCancelled' = TRUE
      /\ stack = << >>
      /\ stopped' = stopped \cup unseen
                     \cup ({IF InPerform THEN wact ELSE action} \ {None})
  BY DEF OnStop, workerVars, threadVars, historyVars
<1>2. TypeOK'
  BY <1>1 DEF TypeOK
<1>3. PointerInv' /\ QueueInv' /\ StackInv' /\ HeapInv'
  BY <1>1 DEF PointerInv, Held, InPerform, QueueInv, StackInv, HeapInv
<1>4. \A a \in Actions \cup {None} : ~Waiting(stack', a)
  BY <1>1 DEF Waiting
<1>5. InPerform' => wact' \in stopped'
  <2>1. SUFFICES ASSUME InPerform PROVE wact \in stopped'
    BY <1>1 DEF InPerform
  <2>2. wact # None
    BY <2>1, ActionsAssumption DEF PointerInv, Held, TypeOK
  <2> QED BY <1>1, <2>1, <2>2
<1>6. wpc' \in {"poll", "start"} /\ action' # None => action' \in stopped'
  BY <1>1 DEF InPerform
<1>7. StopInv'
  BY <1>4, <1>5, <1>6 DEF StopInv
<1> QED BY <1>2, <1>3, <1>7

LEMMA OnActivateStep ==
    ASSUME IInv, OnActivate
    PROVE  IInv'
<1> USE DEF IInv
<1>1. /\ UNCHANGED <<action, state, result, wpc, wact, wflags, queue, heap,
                     accepted, refused, performs, threw, stack, running,
                     isErrorDialogActive, stopped>>
      /\ updateAfterActivate' = FALSE
  BY DEF OnActivate, threadVars
<1>2. /\ isCancelled' \in BOOLEAN
      /\ isCancelled' => isCancelled
      /\ unseen' \in SUBSET Actions
  <2>1. isCancelled \in BOOLEAN
    BY DEF TypeOK
  <2> QED BY <2>1, RefreshCancel DEF OnActivate
<1>3. TypeOK'
  BY <1>1, <1>2 DEF TypeOK
<1>4. PointerInv' /\ QueueInv' /\ StackInv' /\ HeapInv'
  BY <1>1 DEF PointerInv, Held, InPerform, QueueInv, StackInv, HeapInv
<1>5. StopInv'
  BY <1>1, <1>2 DEF StopInv, InPerform
<1> QED BY <1>3, <1>4, <1>5

LEMMA CloseErrorStep ==
    ASSUME IInv, CloseError
    PROVE  IInv'
<1> USE DEF IInv
<1>1. /\ UNCHANGED <<action, state, result, wpc, wact, wflags, queue, heap,
                     accepted, refused, performs, threw, unseen, running,
                     isCancelled, updateAfterActivate, stopped>>
      /\ isErrorDialogActive' = FALSE
      /\ stack # << >>
      /\ Pop
  BY DEF CloseError, OnTop, workerVars, threadVars, historyVars
<1>2. stack' \in Seq(Frame) /\ StackInv' /\ StopInv'
  BY <1>1, PopDialog
<1>3. TypeOK'
  <2>1. isErrorDialogActive' \in BOOLEAN
    BY <1>1
  <2> QED BY <1>1, <1>2, <2>1 DEF TypeOK
<1>4. PointerInv' /\ QueueInv' /\ HeapInv'
  BY <1>1 DEF PointerInv, Held, InPerform, QueueInv, HeapInv
<1> QED BY <1>2, <1>3, <1>4

LEMMA CloseInternalErrorStep ==
    ASSUME IInv, CloseInternalError
    PROVE  IInv'
<1> USE DEF IInv
<1>1. /\ UNCHANGED <<action, state, result, wpc, wact, wflags, queue, heap,
                     accepted, refused, performs, threw,
                     updateAfterActivate, stopped>>
      /\ isErrorDialogActive' = FALSE
      /\ running' = FALSE
      /\ stack # << >>
      /\ Pop
  BY DEF CloseInternalError, OnTop, threadVars
<1>2. /\ isCancelled' \in BOOLEAN
      /\ ~isCancelled'
      /\ unseen' \in SUBSET Actions
  BY RefreshCancel DEF CloseInternalError
<1>3. stack' \in Seq(Frame) /\ StackInv' /\ StopInv'
  BY <1>1, <1>2, PopDialog
<1>4. TypeOK'
  BY <1>1, <1>2, <1>3 DEF TypeOK
<1>5. PointerInv' /\ QueueInv' /\ HeapInv'
  BY <1>1 DEF PointerInv, Held, InPerform, QueueInv, HeapInv
<1> QED BY <1>3, <1>4, <1>5

LEMMA CloseLogDlgStep ==
    ASSUME IInv, CloseLogDlg
    PROVE  IInv'
<1> USE DEF IInv
<1>1. /\ UNCHANGED <<action, state, result, wpc, wact, wflags, queue, heap,
                     accepted, refused, performs, threw, unseen, running,
                     isCancelled, updateAfterActivate, isErrorDialogActive,
                     stopped>>
      /\ stack # << >>
      /\ Pop
  BY DEF CloseLogDlg, OnTop, workerVars, threadVars, historyVars
<1>2. stack' \in Seq(Frame) /\ StackInv' /\ StopInv'
  BY <1>1, PopDialog
<1>3. TypeOK'
  BY <1>1, <1>2 DEF TypeOK
<1>4. PointerInv' /\ QueueInv' /\ HeapInv'
  BY <1>1 DEF PointerInv, Held, InPerform, QueueInv, HeapInv
<1> QED BY <1>2, <1>3, <1>4

LEMMA DispatchStartStep ==
    ASSUME IInv, DispatchStart
    PROVE  IInv'
<1>1. /\ UNCHANGED <<action, state, result, wpc, wact, wflags, heap,
                     accepted, refused, performs, threw, unseen, frameVars>>
      /\ queue # << >>
      /\ Take
  BY DEF DispatchStart, Next1, threadVars, historyVars
<1>2. queue' \in Seq(Event) /\ PointerInv' /\ QueueInv' /\ HeapInv'
  BY <1>1, TakeOther
<1>3. StackInv' /\ StopInv'
  BY <1>1 DEF IInv, StackInv, StopInv, InPerform, frameVars
<1>4. TypeOK'
  BY <1>1, <1>2 DEF IInv, TypeOK, frameVars
<1> QED BY <1>2, <1>3, <1>4 DEF IInv

LEMMA DispatchErrorStep ==
    ASSUME IInv, DispatchError
    PROVE  IInv'
<1>1. /\ UNCHANGED <<action, state, result, wpc, wact, wflags, heap,
                     accepted, refused, performs, threw, unseen, running,
                     isCancelled, updateAfterActivate, stopped>>
      /\ isErrorDialogActive' \in BOOLEAN
      /\ queue # << >>
      /\ Take
      /\ Push(Dialog("error"))
  BY DEF DispatchError, Next1, threadVars, historyVars, IInv, TypeOK
<1>2. queue' \in Seq(Event) /\ PointerInv' /\ QueueInv' /\ HeapInv'
  BY <1>1, TakeOther
<1>3. stack' \in Seq(Frame) /\ StackInv' /\ StopInv'
  BY <1>1, PushDialog
<1>4. TypeOK'
  BY <1>1, <1>2, <1>3 DEF IInv, TypeOK
<1> QED BY <1>2, <1>3, <1>4 DEF IInv

LEMMA DispatchInternalErrorStep ==
    ASSUME IInv, DispatchInternalError
    PROVE  IInv'
<1>1. /\ UNCHANGED <<action, state, result, wpc, wact, wflags, heap,
                     accepted, refused, performs, threw, unseen, running,
                     isCancelled, updateAfterActivate, stopped>>
      /\ isErrorDialogActive' \in BOOLEAN
      /\ queue # << >>
      /\ Take
      /\ Push(Dialog("internal"))
  BY DEF DispatchInternalError, Next1, threadVars, historyVars, IInv, TypeOK
<1>2. queue' \in Seq(Event) /\ PointerInv' /\ QueueInv' /\ HeapInv'
  BY <1>1, TakeOther
<1>3. stack' \in Seq(Frame) /\ StackInv' /\ StopInv'
  BY <1>1, PushDialog
<1>4. TypeOK'
  BY <1>1, <1>2, <1>3 DEF IInv, TypeOK
<1> QED BY <1>2, <1>3, <1>4 DEF IInv

LEMMA DispatchLogStep ==
    ASSUME IInv, DispatchLog
    PROVE  IInv'
<1>1. /\ UNCHANGED <<action, state, result, wpc, wact, wflags, heap,
                     accepted, refused, performs, threw, unseen, running,
                     isCancelled, updateAfterActivate, stopped>>
      /\ isErrorDialogActive' \in BOOLEAN
      /\ queue # << >>
      /\ Take
      /\ Push(Dialog("log"))
  BY DEF DispatchLog, Next1, threadVars, historyVars, IInv, TypeOK
<1>2. queue' \in Seq(Event) /\ PointerInv' /\ QueueInv' /\ HeapInv'
  BY <1>1, TakeOther
<1>3. stack' \in Seq(Frame) /\ StackInv' /\ StopInv'
  BY <1>1, PushDialog
<1>4. TypeOK'
  BY <1>1, <1>2, <1>3 DEF IInv, TypeOK
<1> QED BY <1>2, <1>3, <1>4 DEF IInv

LEMMA DispatchEndStep ==
    ASSUME IInv, DispatchEnd
    PROVE  IInv'
<1>1. /\ UNCHANGED <<action, state, result, wpc, wact, wflags, heap,
                     accepted, refused, performs, threw, stack,
                     isErrorDialogActive, stopped>>
      /\ updateAfterActivate' \in BOOLEAN
      /\ running' = FALSE
      /\ queue # << >>
      /\ Take
  BY DEF DispatchEnd, Next1, threadVars, IInv, TypeOK
<1>2. /\ isCancelled' \in BOOLEAN
      /\ isCancelled' => isCancelled
      /\ unseen' \in SUBSET Actions
  <2>1. TypeOK /\ isCancelled \in BOOLEAN
    BY DEF IInv, TypeOK
  <2>2. CASE RefreshFileList(isCancelled)
    BY <2>1, <2>2, RefreshCancel
  <2>3. CASE UNCHANGED <<isCancelled, unseen>>
    BY <2>1, <2>3 DEF TypeOK
  <2> QED BY <2>2, <2>3 DEF DispatchEnd
<1>3. queue' \in Seq(Event) /\ PointerInv' /\ QueueInv' /\ HeapInv'
  BY <1>1, TakeOther
<1>4. StackInv' /\ StopInv'
  BY <1>1, <1>2 DEF IInv, StackInv, StopInv, InPerform
<1>5. TypeOK'
  BY <1>1, <1>2, <1>3 DEF IInv, TypeOK
<1> QED BY <1>3, <1>4, <1>5 DEF IInv

-----------------------------------------------------------------------------
(* Steps of the main thread: an object is published or deleted             *)

\* The pointer is written while the worker may be anywhere: what it held is
\* still alive, and what it finds instead is alive and not run yet.
LEMMA PrepareSucceedsStep ==
    ASSUME IInv, PrepareSucceeds
    PROVE  IInv'
<1> USE DEF IInv
<1> DEFINE a == Head(stack).act
<1>1. /\ UNCHANGED <<state, result, wpc, wact, wflags, queue, heap, refused,
                     performs, threw, unseen, updateAfterActivate,
                     isErrorDialogActive, stopped>>
      /\ action' = a
      /\ accepted' = accepted \cup {a}
      /\ stack # << >>
      /\ Head(stack).kind = "prepare"
      /\ stack' = Tail(stack)
      /\ running' = TRUE
      /\ isCancelled' = CancelAfterSetRunning(isCancelled)
  BY DEF PrepareSucceeds, PublishAction, OnTop, Pop, threadVars
<1>2. /\ stack' \in Seq(Frame)
      /\ Distinct(stack')
      /\ Waiting(stack, a)
      /\ ~Waiting(stack', a)
      /\ \A b : Waiting(stack', b) => Waiting(stack, b)
      /\ a \in Actions \cup {None}
  BY <1>1, PopStack DEF TypeOK, StackInv, Frame
<1>3. /\ a \in Actions
      /\ a \notin accepted
      /\ heap[a] = "live"
      /\ ~isCancelled
  BY <1>2 DEF StackInv, StopInv
<1>4. ~isCancelled' /\ isCancelled' \in BOOLEAN
  BY <1>1, <1>3 DEF CancelAfterSetRunning, TypeOK
<1> HIDE DEF a
<1>5. TypeOK'
  BY <1>1, <1>2, <1>3, <1>4 DEF TypeOK
<1>6. ~Pending(queue, "DELETE_ACTION", a) /\ performs[a] = 0
  BY <1>3 DEF QueueInv, HeapInv, TypeOK
<1>7. PointerInv'
  BY <1>1, <1>3, <1>6, ActionsAssumption DEF PointerInv, Held, InPerform
<1>8. QueueInv'
  BY <1>1 DEF QueueInv
<1>9. StackInv'
  BY <1>1, <1>2 DEF StackInv
<1>10. HeapInv'
  BY <1>1, <1>3 DEF HeapInv
<1>11. StopInv'
  BY <1>4 DEF StopInv
<1> QED BY <1>5, <1>7, <1>8, <1>9, <1>10, <1>11

\* The action deleted after a failed Prepare is in nobody else's hands.
LEMMA PrepareDoesNotStep ==
    ASSUME IInv, PrepareDoesNot
    PROVE  IInv'
<1> USE DEF IInv
<1> DEFINE a == Head(stack).act
<1>1. /\ UNCHANGED <<action, wpc, wact, wflags, accepted, refused, performs,
                     threw, unseen, running, isCancelled,
                     updateAfterActivate, isErrorDialogActive, stopped>>
      /\ heap' = [heap EXCEPT ![a] = "freed"]
      /\ stack # << >>
      /\ Head(stack).kind = "prepare"
      /\ Pop
      /\ state' = "NONE"
      /\ result' \in {"ABORTED", "ERROR"}
      /\ queue' = queue \/ queue' = Post(queue, Plain("ERROR"))
  BY DEF PrepareDoesNot, PrepareFails, OnTop, threadVars, historyVars
<1>2. /\ stack' \in Seq(Frame)
      /\ Distinct(stack')
      /\ Waiting(stack, a)
      /\ ~Waiting(stack', a)
      /\ \A b : Waiting(stack', b) => Waiting(stack, b)
      /\ a \in Actions \cup {None}
  BY <1>1, PopStack DEF TypeOK, StackInv, Frame, Pop
<1>3. a \in Actions /\ a \notin accepted /\ heap[a] = "live"
  BY <1>2 DEF StackInv
<1> HIDE DEF a
<1>4. /\ queue' \in Seq(Event)
      /\ Unique(queue')
      /\ \A tok \in {"DELETE_ACTION", "REQUEST"} : \A b :
            Pending(queue', tok, b) <=> Pending(queue, tok, b)
  <2>1. CASE queue' = queue
    BY <2>1 DEF TypeOK, QueueInv
  <2>2. CASE queue' = Post(queue, Plain("ERROR"))
    <3>1. Plain("ERROR") \in Event /\ Plain("ERROR").tok = "ERROR"
      BY DEF Plain, Event, Token, FlagSet
    <3> QED BY <2>2, <3>1, PostToFrame, PostUnique DEF TypeOK, QueueInv
  <2> QED BY <1>1, <2>1, <2>2
<1>5. TypeOK'
  BY <1>1, <1>2, <1>3, <1>4 DEF TypeOK, HeapStates
<1>6. PointerInv'
  BY <1>1, <1>3, <1>4 DEF PointerInv, Held, InPerform, TypeOK
<1>7. QueueInv'
  BY <1>1, <1>3, <1>4 DEF QueueInv, TypeOK
<1>8. StackInv'
  BY <1>1, <1>2, <1>3 DEF StackInv, TypeOK
<1>9. HeapInv'
  BY <1>1, <1>3 DEF HeapInv, TypeOK
<1>10. StopInv'
  BY <1>1, <1>2 DEF StopInv, InPerform
<1> QED BY <1>5, <1>6, <1>7, <1>8, <1>9, <1>10

\* The object a TOKEN_DELETE_ACTION names is alive, and after its deletion
\* nobody holds it.
LEMMA DispatchDeleteStep ==
    ASSUME IInv, DispatchDelete
    PROVE  IInv'
<1> USE DEF IInv
<1> DEFINE a == Head(queue).act
<1>1. /\ UNCHANGED <<action, state, result, wpc, wact, wflags, accepted,
                     refused, performs, threw, unseen, frameVars>>
      /\ queue # << >>
      /\ Head(queue).tok = "DELETE_ACTION"
      /\ queue' = Tail(queue)
      /\ heap' = IF a # None THEN [heap EXCEPT ![a] = "freed"] ELSE heap
  BY DEF DispatchDelete, Next1, Take, threadVars, historyVars
<1>2. /\ queue' \in Seq(Event)
      /\ Unique(queue')
      /\ Pending(queue, "DELETE_ACTION", a)
      /\ ~Pending(queue', "DELETE_ACTION", a)
      /\ \A tok, b : Pending(queue', tok, b) => Pending(queue, tok, b)
      /\ a \in Actions \cup {None}
  <2>1. queue \in Seq(Event) /\ Unique(queue)
    BY DEF TypeOK, QueueInv
  <2>2. /\ queue' \in Seq(Event)
        /\ Pending(queue, "DELETE_ACTION", a)
        /\ \A tok, b : Pending(queue', tok, b) => Pending(queue, tok, b)
        /\ a \in Actions \cup {None}
    BY <1>1, <2>1, TakePending DEF Event
  <2>3. Unique(queue') /\ ~Pending(queue', "DELETE_ACTION", a)
    BY <1>1, <2>1, TakeUnique
  <2> QED BY <2>2, <2>3
<1>3. a \in Actions /\ a \in accepted /\ heap[a] = "live"
  BY <1>2 DEF QueueInv, TypeOK
<1> HIDE DEF a
<1>4. heap' = [heap EXCEPT ![a] = "freed"]
  BY <1>1, <1>3, ActionsAssumption
<1>5. TypeOK'
  BY <1>1, <1>2, <1>3, <1>4 DEF TypeOK, HeapStates, frameVars
<1>6. \A b \in Actions : Held(b) => Held(b)'
  BY <1>1, <1>2, <1>4 DEF Held, TypeOK
<1>7. PointerInv'
  BY <1>1, <1>6 DEF PointerInv, InPerform, TypeOK, Held
<1>8. QueueInv'
  BY <1>1, <1>2, <1>3, <1>4 DEF QueueInv, TypeOK
<1>9. StackInv'
  BY <1>1, <1>3, <1>4 DEF StackInv, TypeOK, frameVars
<1>10. HeapInv'
  BY <1>1, <1>3, <1>4 DEF HeapInv, TypeOK
<1>11. StopInv'
  BY <1>1 DEF StopInv, InPerform, frameVars
<1> QED BY <1>5, <1>7, <1>8, <1>9, <1>10, <1>11

-----------------------------------------------------------------------------
(* The invariant holds, and what follows from it                           *)

LEMMA InitIInv == Init => IInv
<1> SUFFICES ASSUME Init PROVE IInv
  OBVIOUS
<1> USE DEF Init, WorkerInit
<1>1. TypeOK
  <2>1. queue \in Seq(Event) /\ stack \in Seq(Frame)
    BY DEF Init, WorkerInit
  <2> QED BY <2>1 DEF TypeOK, FlagSet, HeapStates
<1>2. PointerInv
  BY DEF PointerInv, InPerform
<1>3. QueueInv /\ StackInv
  BY DEF QueueInv, StackInv, Pending, Waiting, Unique, Distinct
<1>4. HeapInv
  BY DEF HeapInv
<1>5. StopInv
  BY DEF StopInv, InPerform
<1> QED BY <1>1, <1>2, <1>3, <1>4, <1>5 DEF IInv

LEMMA StutterIInv ==
    ASSUME IInv, UNCHANGED vars
    PROVE  IInv'
BY DEF IInv, TypeOK, PointerInv, Held, InPerform, QueueInv, StackInv, HeapInv,
       StopInv, vars, workerVars, threadVars, historyVars, frameVars

LEMMA NextIInv == IInv /\ [Next]_vars => IInv'
<1> SUFFICES ASSUME IInv, [Next]_vars PROVE IInv'
  OBVIOUS
<1>1. CASE WorkerStep
  <2>1. WorkerNext /\ UNCHANGED frameVars
    BY <1>1 DEF WorkerStep
  <2> QED
    BY <2>1, PollStep, EnterPerformStep, PostLogStep, PerformReturnsStep,
       PerformThrowsStep, PostEndStep, PostDeleteStep, ClearActionStep
    DEF WorkerNext
<1>2. CASE UserNext
  BY <1>2, FileCommandStep, RequestActionStep, OnStopStep, OnActivateStep
  DEF UserNext
<1>3. CASE CloseDialog
  BY <1>3, PrepareSucceedsStep, PrepareDoesNotStep, CloseErrorStep,
     CloseInternalErrorStep, CloseLogDlgStep
  DEF CloseDialog
<1>4. CASE Dispatch
  BY <1>4, DispatchStartStep, DispatchRequestStep, DispatchErrorStep,
     DispatchInternalErrorStep, DispatchEndStep, DispatchDeleteStep,
     DispatchLogStep
  DEF Dispatch
<1>5. CASE UNCHANGED vars
  BY <1>5, StutterIInv
<1> QED BY <1>1, <1>2, <1>3, <1>4, <1>5 DEF Next

\* The inductive invariant holds in every reachable state.
THEOREM Invariance == Spec => []IInv
BY InitIInv, NextIInv, PTL DEF Spec

\* Type correctness: queue, stack, pointer and flags only ever hold values
\* of their types.
THEOREM TypeCorrect == Spec => []TypeOK
<1>1. IInv => TypeOK
  BY DEF IInv
<1> QED BY <1>1, Invariance, PTL

\* ThreadedWorker::Data never dereferences a deleted Action, although the
\* pointer is read without a lock and objects are deleted by the other
\* thread.
THEOREM NeverUsesFreed == Spec => []NoUseAfterFree
<1>1. IInv => NoUseAfterFree
  <2> SUFFICES ASSUME IInv PROVE NoUseAfterFree
    OBVIOUS
  <2>1. InPerform => heap[wact] = "live"
    BY DEF IInv, PointerInv, Held
  <2>2. wpc \in {"start", "perform", "logged", "end", "delete"}
          => action # None /\ heap[action] = "live"
    BY ActionsAssumption DEF IInv, TypeOK, PointerInv, Held
  <2> QED BY <2>1, <2>2 DEF NoUseAfterFree
<1> QED BY <1>1, Invariance, PTL

\* The handler of TOKEN_DELETE_ACTION never deletes an object twice.
THEOREM NeverFreesTwice == Spec => []NoDoubleFree
<1>1. IInv => NoDoubleFree
  <2> SUFFICES ASSUME IInv,
                      NEW i \in 1..Len(queue),
                      queue[i].tok = "DELETE_ACTION", queue[i].act # None
               PROVE  /\ heap[queue[i].act] = "live"
                      /\ \A j \in 1..Len(queue) : queue[j] = queue[i] => i = j
    BY DEF NoDoubleFree
  <2>1. queue[i] \in Event
    BY DEF IInv, TypeOK
  <2>2. queue[i].act \in Actions \cup {None}
    BY <2>1 DEF Event
  <2>3. Pending(queue, "DELETE_ACTION", queue[i].act)
    BY DEF Pending
  <2>4. heap[queue[i].act] = "live"
    BY <2>2, <2>3 DEF IInv, QueueInv
  <2>5. \A j \in 1..Len(queue) : queue[j] = queue[i] => i = j
    BY DEF IInv, QueueInv, Unique
  <2> QED BY <2>4, <2>5
<1> QED BY <1>1, Invariance, PTL

\* ExecuteAction, called every 10 ms, runs no action a second time.
THEOREM NeverPerformsTwice == Spec => []PerformedAtMostOnce
<1>1. IInv => PerformedAtMostOnce
  <2> SUFFICES ASSUME IInv, NEW a \in Actions PROVE performs[a] <= 1
    BY DEF PerformedAtMostOnce
  <2>1. CASE performs[a] = 0
    BY <2>1
  <2>2. CASE performs[a] = 1
    BY <2>2
  <2> QED BY <2>1, <2>2 DEF IInv, HeapInv
<1> QED BY <1>1, Invariance, PTL

\* The worker runs nothing whose Prepare has not succeeded.
THEOREM OnlyAccepted == Spec => []OnlyAcceptedPerformed
<1>1. IInv => OnlyAcceptedPerformed
  <2> SUFFICES ASSUME IInv, NEW a \in Actions, performs[a] > 0
               PROVE  a \in accepted
    BY DEF OnlyAcceptedPerformed
  <2>1. performs[a] # 0
    OBVIOUS
  <2> QED BY <2>1 DEF IInv, HeapInv
<1> QED BY <1>1, Invariance, PTL

\* A Stop never carries over to an action that was started after it.
THEOREM StopIsForItsAction == Spec => []StopHitsItsTarget
<1>1. IInv => StopHitsItsTarget
  BY DEF IInv, StopInv, StopHitsItsTarget
<1> QED BY <1>1, Invariance, PTL
=============================================================================
