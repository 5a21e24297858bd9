----------------------------- MODULE PartsProofs -----------------------------
(***************************************************************************)
(* What the callbacks of the library, the temporary files, the history of  *)
(* entered texts and dropped files keep true, for any messages, names,     *)
(* texts and paths, however many actions and sessions follow each other.   *)
(***************************************************************************)
EXTENDS ClientCallbacks, TempFiles, HistoryManager, DragAndDrop, NumberFacts,
        SequenceTheorems, FiniteSetTheorems, TLAPS

-----------------------------------------------------------------------------
(* Log messages                                                            *)

\* While an action runs, a message that counts as set was given for it.
MessageInv ==
    /\ commits \subseteq meant
    /\ acting # "none" /\ logIsSet => logMessage \in meant

\* Initially nothing was committed.
LEMMA MessageInit == CallbackInit => MessageInv
  BY DEF CallbackInit, MessageInv

\* Perform forgets that a message is set, so the message of an earlier action
\* is neither used nor taken for an answer.
LEMMA MessageStep == MessageInv /\ [CallbackNext]_callbackVars => MessageInv'
<1> SUFFICES ASSUME MessageInv, [CallbackNext]_callbackVars PROVE MessageInv'
  OBVIOUS
<1> USE DEF MessageInv
<1>1. ASSUME NEW kind \in Kinds, Perform(kind) PROVE MessageInv'
  BY <1>1 DEF Perform
<1>2. CASE End
  BY <1>2 DEF End
<1>3. ASSUME NEW m \in Messages, Commit(m) PROVE MessageInv'
  BY <1>3 DEF Commit, UseLogMessage
<1>4. ASSUME NEW m \in Messages, CommitRemote(m) PROVE MessageInv'
  <2>1. CASE logIsSet
    BY <1>4, <2>1 DEF CommitRemote, UseLogMessage
  <2>2. CASE ~logIsSet
    BY <1>4, <2>2 DEF CommitRemote, UseLogMessage
  <2> QED
    BY <2>1, <2>2
<1>5. CASE RefuseMessage
  BY <1>5 DEF RefuseMessage
<1>6. ASSUME UNCHANGED <<acting, messageVars>> PROVE MessageInv'
  BY <1>6 DEF messageVars
<1>7. CASE CallbackNext
  <2>1. ASSUME NEW s, NotifyAdd(s) PROVE UNCHANGED <<acting, messageVars>>
    BY <2>1 DEF NotifyAdd, Notified
  <2>2. CASE NotifyDelete
    BY <1>6, <2>2 DEF NotifyDelete, Notified
  <2>3. ASSUME NEW c, NEW p, NEW d, NotifyUpdate(c, p, d) PROVE UNCHANGED <<acting, messageVars>>
    BY <2>3 DEF NotifyUpdate, Notified
  <2>4. CASE NotifyExternal \/ FailExternal \/ CompleteExternal \/ CompleteTarget
    BY <1>6, <2>4 DEF NotifyExternal, FailExternal, CompleteExternal, CompleteTarget
  <2> QED
    BY <1>1, <1>2, <1>3, <1>4, <1>5, <1>6, <1>7, <2>1, <2>2, <2>3, <2>4 DEF CallbackNext
<1>8. CASE UNCHANGED callbackVars
  BY <1>6, <1>8 DEF callbackVars
<1> QED
  BY <1>7, <1>8

\* Context::reset, "called at the beginning of an action": no action ever
\* commits with a message that was given for another one.
THEOREM NoForeignMessage == CallbackSpec => []MessageIsThisActions
<1>1. MessageInv => MessageIsThisActions
  BY DEF MessageInv, MessageIsThisActions
<1> QED
  BY <1>1, MessageInit, MessageStep, PTL DEF CallbackSpec

-----------------------------------------------------------------------------
(* Summaries of updates                                                    *)

\* Unless something was left in the counter it holds what the update of this
\* target did, and the listener waits for just the externals under way.
SummaryInv ==
    /\ externalCounter \in Nat /\ underWay \in Nat
    /\ ~tainted => counter = done /\ externalCounter = underWay
    /\ ~shown.tainted => shown.said = shown.was

\* Nothing was counted yet.
LEMMA SummaryInit == CallbackInit => SummaryInv
  BY DEF CallbackInit, SummaryInv, NoSummary

\* A change is counted for the program and for the history alike.
LEMMA CountStep ==
    ASSUME SummaryInv, NEW c, Count(c), Notified
    PROVE  SummaryInv'
  BY DEF SummaryInv, Count, Notified

\* The listener takes the completion for that of an external if it waits for
\* one, and shows and empties the counter if it does not.
LEMMA CompletedStep ==
    ASSUME SummaryInv, Completed
    PROVE  /\ externalCounter' \in Nat
           /\ externalCounter = 0 => counter' = Nothing /\ externalCounter' = 0
           /\ externalCounter # 0 => counter' = counter /\ externalCounter' = externalCounter - 1
           /\ ~shown'.tainted => shown'.said = shown'.was
<1>1. CASE externalCounter = 0
  BY <1>1 DEF SummaryInv, Completed
<1>2. CASE externalCounter # 0
  BY <1>2 DEF SummaryInv, Completed
<1> QED
  BY <1>1, <1>2

\* What an action leaves behind is marked, and the mark goes when a completed
\* target empties the counter.
LEMMA SummaryStep == SummaryInv /\ [CallbackNext]_callbackVars => SummaryInv'
<1> SUFFICES ASSUME SummaryInv, [CallbackNext]_callbackVars PROVE SummaryInv'
  OBVIOUS
<1>1. ASSUME UNCHANGED updateVars PROVE SummaryInv'
  BY <1>1 DEF SummaryInv, updateVars
<1>2. ASSUME NEW kind, Perform(kind) PROVE SummaryInv'
  BY <1>1, <1>2 DEF Perform
<1>3. CASE End
  BY <1>3 DEF End, SummaryInv, NoSummary
<1>4. ASSUME NEW m, Commit(m) \/ CommitRemote(m) PROVE SummaryInv'
  BY <1>1, <1>4 DEF Commit, CommitRemote
<1>5. CASE RefuseMessage
  BY <1>1, <1>5 DEF RefuseMessage
<1>6. ASSUME NEW s, NotifyAdd(s) PROVE SummaryInv'
  BY <1>6, CountStep DEF NotifyAdd
<1>7. CASE NotifyDelete
  BY <1>7, CountStep DEF NotifyDelete
<1>8. ASSUME NEW c, NEW p, NEW d, NotifyUpdate(c, p, d) PROVE SummaryInv'
  BY <1>8, CountStep DEF NotifyUpdate
<1>9. CASE NotifyExternal
  BY <1>9 DEF NotifyExternal, SummaryInv
<1>10. CASE FailExternal
  BY <1>10 DEF FailExternal, SummaryInv
<1>11. CASE CompleteExternal
  BY <1>11, CompletedStep DEF CompleteExternal, SummaryInv
<1>12. CASE CompleteTarget
  BY <1>12, CompletedStep DEF CompleteTarget, SummaryInv
<1>13. CASE UNCHANGED callbackVars
  BY <1>1, <1>13 DEF callbackVars, updateVars
<1> QED
  BY <1>2, <1>3, <1>4, <1>5, <1>6, <1>7, <1>8, <1>9, <1>10, <1>11, <1>12, <1>13 DEF CallbackNext

\* contextNotify: the summary traced at the end of an update is that of this
\* update of this target, however many externals complete in between.
THEOREM SummaryIsRight == CallbackSpec => []SummaryIsOfThisUpdate
<1>1. SummaryInv => SummaryIsOfThisUpdate
  BY DEF SummaryInv, SummaryIsOfThisUpdate
<1> QED
  BY <1>1, SummaryInit, SummaryStep, PTL DEF CallbackSpec

-----------------------------------------------------------------------------
(* Temporary files                                                         *)

\* The file that is being fetched.
Fetched == {fetching.file} \cap TempPaths

\* While the preference was set throughout, a file on disk is remembered, or
\* being fetched, or an orphan; no remembered file is an unwanted one, and the
\* file that is being fetched is neither.
TempInv ==
    /\ fetching \in [left : Nat, file : TempPaths \cup {"none"}]
    /\ fetching.file # "none" => fetching.left > 0
    /\ phase \in {"running", "purged"}
    /\ tempFiles \subseteq onDisk
    /\ Fetched \subseteq onDisk \ (unwanted \cup tempFiles)
    /\ unwanted \subseteq onDisk \ tempFiles
    /\ alwaysOn => purgeTempFiles
    /\ alwaysOn /\ phase = "running" => onDisk \subseteq tempFiles \cup Fetched \cup orphans
    /\ alwaysOn /\ phase = "purged" => onDisk \subseteq orphans

\* There are no temporary files in the beginning.
LEMMA TempInitInv == TempInit => TempInv
  BY TempAssumption DEF TempInit, TempInv, NotFetching, Fetched

\* Each file that is fetched is new, so to remember it cannot make a file of
\* another action be purged.
LEMMA TempStep == TempInv /\ [TempNext]_tempVars => TempInv'
<1> SUFFICES ASSUME TempInv, [TempNext]_tempVars PROVE TempInv'
  OBVIOUS
<1> USE TempAssumption DEF TempInv, Fetched
<1>1. ASSUME NEW n \in 1 .. MaxFetches, StartFetching(n) PROVE TempInv'
  BY <1>1 DEF StartFetching, Fetch, NotFetching
<1>2. ASSUME NEW f \in TempPaths, OpenTempFile(f) PROVE TempInv'
  BY <1>2 DEF OpenTempFile, Fetch
<1>3. CASE GetPathAsTempFile
  <2>1. CASE purgeTempFiles
    BY <1>3, <2>1 DEF GetPathAsTempFile, Fetch, OptionallyRegisterTempFile
  <2>2. CASE ~purgeTempFiles
    BY <1>3, <2>2 DEF GetPathAsTempFile, Fetch, OptionallyRegisterTempFile
  <2> QED
    BY <2>1, <2>2
<1>4. CASE GetFails
  BY <1>4 DEF GetFails, NotFetching
<1>5. ASSUME NEW value \in BOOLEAN, SetPurgeTempFiles(value) PROVE TempInv'
  BY <1>5 DEF SetPurgeTempFiles
<1>6. CASE Exit
  BY <1>6 DEF Exit, OptionallyPurgeTempFiles
<1>7. CASE StartAgain
  BY <1>7 DEF StartAgain, NotFetching
<1>8. CASE UNCHANGED tempVars
  BY <1>8 DEF tempVars
<1> QED
  BY <1>1, <1>2, <1>3, <1>4, <1>5, <1>6, <1>7, <1>8 DEF TempNext

\* The strengthening holds in every reachable state.
LEMMA TempInvariance == TempSpec => []TempInv
  BY TempInitInv, TempStep, PTL DEF TempSpec

\* "Remember this temporary file so we can delete it when the application
\* exits": a session with the preference set leaves no file that it fetched.
THEOREM NothingIsLeft == TempSpec => []PurgedAtExit
<1>1. TempInv => PurgedAtExit
  BY DEF TempInv, PurgedAtExit
<1> QED
  BY <1>1, TempInvariance, PTL

\* What was fetched while the preference was not set is never purged.
THEOREM NothingElseIsPurged == TempSpec => []UnwantedIsKept
<1>1. TempInv => UnwantedIsKept
  BY DEF TempInv, UnwantedIsKept
<1> QED
  BY <1>1, TempInvariance, PTL

-----------------------------------------------------------------------------
HistSpec == HistInit /\ [][HistNext]_histVars

-----------------------------------------------------------------------------
(* History: reading a list from the configuration                          *)

Text == [word : Words \cup {NoWord}, blanks : BOOLEAN]

\* What is left of the texts that are not empty when they are trimmed.
CleanText == {t \in Text : t.blanks = FALSE /\ t # Empty}

\* Trimming leaves a clean text or nothing.
LEMMA TrimIsClean ==
    ASSUME NEW t \in Text
    PROVE  Trim(t) \in Text /\ (Trim(t) # Empty => Trim(t) \in CleanText)
  BY DEF Trim, Text, CleanText

LEMMA CleanIsTrimmed ==
    ASSUME NEW t \in CleanText
    PROVE  t \in Text /\ Trim(t) = t /\ t # Empty
  BY DEF Trim, Text, CleanText

\* What the loop has collected after it looked at the i-th value.
Step(list, g, i) ==
    IF i = 0 THEN << >>
    ELSE IF Trim(list[i]) = Empty THEN g[i - 1]
    ELSE Append(g[i - 1], Trim(list[i]))

\* The loop is well defined: each step looks at the one before.
LEMMA LoopExists ==
    ASSUME NEW list, NEW n \in Nat
    PROVE  \E g : g = [i \in 0 .. n |-> Step(list, g, i)]
<1> DEFINE T == {m \in 0 .. n : \E g : g = [i \in 0 .. m |-> Step(list, g, i)]}
<1>1. 0 \in T
  <2> DEFINE g == [i \in 0 .. 0 |-> << >>]
  <2>1. g = [i \in 0 .. 0 |-> Step(list, g, i)]
    BY DEF Step
  <2> QED
    BY <2>1
<1>2. ASSUME NEW m \in 0 .. n - 1, m \in T PROVE m + 1 \in T
  <2>1. PICK g : g = [i \in 0 .. m |-> Step(list, g, i)]
    BY <1>2
  <2> DEFINE h == [i \in 0 .. m + 1 |-> IF i = m + 1 THEN Step(list, g, i) ELSE g[i]]
  <2>0. m \in Nat
    OBVIOUS
  <2>5. h[m + 1] = Step(list, g, m + 1)
    BY <2>0
  <2>6. \A i \in 0 .. m : h[i] = g[i]
    BY <2>0
  <2>7. h = [i \in 0 .. m + 1 |-> h[i]]
    OBVIOUS
  <2> HIDE DEF h
  <2>2. \A i \in 0 .. m : h[i] = g[i] /\ g[i] = Step(list, g, i)
    BY <2>1, <2>6
  <2>3. ASSUME NEW i \in 0 .. m + 1 PROVE h[i] = Step(list, h, i)
    <3>1. CASE i = 0
      BY <2>0, <2>2, <3>1 DEF Step
    <3>2. CASE i # 0
      <4>1. i - 1 \in 0 .. m /\ h[i - 1] = g[i - 1]
        BY <2>0, <2>2, <3>2
      <4>2. Step(list, h, i) = Step(list, g, i)
        BY <4>1, <3>2 DEF Step
      <4>3. i \in 0 .. m \/ i = m + 1
        BY <2>0
      <4>4. h[i] = Step(list, g, i)
        BY <2>2, <2>5, <4>3
      <4> QED
        BY <4>2, <4>4
    <3> QED
      BY <3>1, <3>2
  <2>4. h = [i \in 0 .. m + 1 |-> Step(list, h, i)]
    BY <2>3, <2>7
  <2> QED
    BY <2>0, <2>4
<1> HIDE DEF T
<1>3. T = 0 .. n
  <2>1. T \in SUBSET (0 .. n)
    BY DEF T
  <2> QED
    BY <1>1, <1>2, <2>1, Induction
<1> QED
  BY <1>3 DEF T

\* What the loop returns, step by step.
LEMMA Loop ==
    ASSUME NEW list, Len(list) \in Nat
    PROVE  \E g : /\ NonEmptyTrimmed(list) = g[Len(list)]
                  /\ \A i \in 0 .. Len(list) : g[i] = Step(list, g, i)
<1> DEFINE g == CHOOSE g : g = [i \in 0 .. Len(list) |-> Step(list, g, i)]
<1>1. NonEmptyTrimmed(list) = g[Len(list)]
  BY DEF NonEmptyTrimmed, Step
<1>2. g = [i \in 0 .. Len(list) |-> Step(list, g, i)]
  BY LoopExists
<1> HIDE DEF g
<1>3. \A i \in 0 .. Len(list) : g[i] = Step(list, g, i)
  BY <1>2
<1> QED
  BY <1>1, <1>3

\* ReadSingleList returns clean texts.
LEMMA ReadIsClean ==
    ASSUME NEW list \in Seq(Text)
    PROVE  NonEmptyTrimmed(list) \in Seq(CleanText)
<1>0. Len(list) \in Nat
  OBVIOUS
<1>1. PICK g : /\ NonEmptyTrimmed(list) = g[Len(list)]
               /\ \A i \in 0 .. Len(list) : g[i] = Step(list, g, i)
  BY <1>0, Loop
<1> DEFINE T == {i \in 0 .. Len(list) : g[i] \in Seq(CleanText)}
<1>2. 0 \in T
  <2>1. 0 \in 0 .. Len(list)
    BY <1>0
  <2>2. g[0] = << >>
    BY <1>1, <2>1 DEF Step
  <2> QED
    BY <2>1, <2>2, EmptySeq
<1>3. ASSUME NEW m \in 0 .. Len(list) - 1, m \in T PROVE m + 1 \in T
  <2>1. m + 1 \in 1 .. Len(list) /\ list[m + 1] \in Text /\ g[m] \in Seq(CleanText)
    BY <1>0, <1>3
  <2>2. g[m + 1] = IF Trim(list[m + 1]) = Empty THEN g[m] ELSE Append(g[m], Trim(list[m + 1]))
    BY <1>0, <1>1, <2>1 DEF Step
  <2>3. g[m + 1] \in Seq(CleanText)
    <3>1. CASE Trim(list[m + 1]) = Empty
      BY <2>1, <2>2, <3>1
    <3>2. CASE Trim(list[m + 1]) # Empty
      BY <2>1, <2>2, <3>2, TrimIsClean, AppendProperties
    <3> QED
      BY <3>1, <3>2
  <2> QED
    BY <1>0, <2>1, <2>3
<1> HIDE DEF T
<1>4. T = 0 .. Len(list)
  <2>1. T \in SUBSET (0 .. Len(list))
    BY DEF T
  <2> QED
    BY <1>0, <1>2, <1>3, <2>1, Induction
<1> QED
  BY <1>0, <1>1, <1>4 DEF T

\* Of a list of clean texts it loses nothing.
LEMMA ReadKeepsClean ==
    ASSUME NEW list \in Seq(CleanText)
    PROVE  NonEmptyTrimmed(list) = list
<1>0. Len(list) \in Nat
  OBVIOUS
<1>1. PICK g : /\ NonEmptyTrimmed(list) = g[Len(list)]
               /\ \A i \in 0 .. Len(list) : g[i] = Step(list, g, i)
  BY <1>0, Loop
<1> DEFINE T == {i \in 0 .. Len(list) : g[i] = SubSeq(list, 1, i)}
<1>2. 0 \in T
  <2>1. 0 \in 0 .. Len(list)
    BY <1>0
  <2>2. g[0] = << >>
    BY <1>1, <2>1 DEF Step
  <2>3. SubSeq(list, 1, 0) = << >>
    BY SubSeqEmpty
  <2> QED
    BY <2>1, <2>2, <2>3
<1>3. ASSUME NEW m \in 0 .. Len(list) - 1, m \in T PROVE m + 1 \in T
  <2>1. m + 1 \in 1 .. Len(list) /\ list[m + 1] \in CleanText /\ g[m] = SubSeq(list, 1, m)
    BY <1>0, <1>3
  <2>2. g[m + 1] = Append(g[m], list[m + 1])
    <3>1. Trim(list[m + 1]) = list[m + 1] /\ list[m + 1] # Empty
      BY <2>1, CleanIsTrimmed
    <3>2. m + 1 \in 0 .. Len(list) /\ m + 1 # 0 /\ (m + 1) - 1 = m
      BY <1>0
    <3>3. g[m + 1] = Step(list, g, m + 1)
      BY <1>1, <3>2
    <3> QED
      BY <3>1, <3>2, <3>3, Zenon DEF Step
  <2>3. SubSeq(list, 1, m) \in Seq(CleanText) /\ SubSeq(list, 1, m + 1) = SubSeq(list, 1, m) \o << list[m + 1] >>
    <3>1. 1 \in 1 .. Len(list) /\ m + 1 \in 1 .. Len(list) /\ (m + 1) - 1 = m
      BY <1>0, <2>1
    <3>2. SubSeq(list, 1, m + 1) = SubSeq(list, 1, (m + 1) - 1) \o << list[m + 1] >>
      BY <3>1, SubSeqRecursiveSecond
    <3>3. \A i \in 1 .. m : list[i] \in CleanText
      BY <1>0, <2>1
    <3>4. SubSeq(list, 1, m) \in Seq(CleanText)
      BY <3>3, SubSeqProperties
    <3> QED
      BY <3>1, <3>2, <3>4
  <2>4. g[m + 1] = SubSeq(list, 1, m + 1)
    BY <2>1, <2>2, <2>3, AppendIsConcat
  <2> QED
    BY <1>0, <2>1, <2>4
<1> HIDE DEF T
<1>4. T = 0 .. Len(list)
  <2>1. T \in SUBSET (0 .. Len(list))
    BY DEF T
  <2> QED
    BY <1>0, <1>2, <1>3, <2>1, Induction
<1>5. g[Len(list)] = SubSeq(list, 1, Len(list))
  BY <1>0, <1>4 DEF T
<1> QED
  BY <1>1, <1>5, SubSeqFull

LEMMA ReadNothing == NonEmptyTrimmed(<< >>) = << >>
<1>1. << >> \in Seq(CleanText)
  BY EmptySeq
<1> QED
  BY <1>1, ReadKeepsClean

-----------------------------------------------------------------------------
(* Taking an entry to the front                                            *)

\* RemoveFirst takes one occurrence out, if there is one, and leaves the rest
\* in order.
LEMMA RemoveFirstFacts ==
    ASSUME NEW S, NEW list \in Seq(S), NEW e
    PROVE  /\ RemoveFirst(list, e) \in Seq(S)
           /\ \/ RemoveFirst(list, e) = list /\ \A i \in 1 .. Len(list) : list[i] # e
              \/ \E k \in 1 .. Len(list) :
                    /\ list[k] = e
                    /\ Len(RemoveFirst(list, e)) = Len(list) - 1
                    /\ \A i \in 1 .. Len(list) - 1 :
                          RemoveFirst(list, e)[i] = list[IF i < k THEN i ELSE i + 1]
<1>0. Len(list) \in Nat /\ \A i \in 1 .. Len(list) : list[i] \in S
  OBVIOUS
<1>1. CASE \A i \in 1 .. Len(list) : list[i] # e
  BY <1>1 DEF RemoveFirst
<1>2. CASE \E i \in 1 .. Len(list) : list[i] = e
  <2> DEFINE at == {i \in 1 .. Len(list) : list[i] = e}
             k == Min(at)
  <2>1. at \in SUBSET Nat /\ at # {}
    BY <1>2
  <2>2. k \in at
    <3> HIDE DEF at
    <3> QED
      BY <2>1, MinIsSmallest
  <2>3. RemoveFirst(list, e) = SubSeq(list, 1, k - 1) \o SubSeq(list, k + 1, Len(list))
    BY <1>2, <2>1 DEF RemoveFirst, RemoveAt, SelectInSeq
  <2>4. k \in 1 .. Len(list) /\ list[k] = e /\ k \in Int /\ k - 1 \in Nat /\ k + 1 \in Int
    BY <1>0, <2>2
  <2> HIDE DEF k
  <2> DEFINE a == SubSeq(list, 1, k - 1)
             b == SubSeq(list, k + 1, Len(list))
  <2>5. a \in Seq(S) /\ Len(a) = k - 1 /\ \A i \in 1 .. k - 1 : a[i] = list[i]
    <3>1. \A i \in 1 .. k - 1 : list[i] \in S
      BY <1>0, <2>4
    <3>2. /\ SubSeq(list, 1, k - 1) \in Seq(S)
          /\ Len(SubSeq(list, 1, k - 1)) = IF 1 <= k - 1 THEN (k - 1) - 1 + 1 ELSE 0
          /\ \A i \in 1 .. (k - 1) - 1 + 1 : SubSeq(list, 1, k - 1)[i] = list[1 + i - 1]
      BY <2>4, <3>1, SubSeqProperties
    <3> QED
      BY <2>4, <3>2
  <2>6. /\ b \in Seq(S) /\ Len(b) = Len(list) - k
        /\ \A i \in 1 .. Len(list) - k : b[i] = list[k + i]
    <3>1. \A i \in k + 1 .. Len(list) : list[i] \in S
      BY <1>0, <2>4
    <3>2. /\ SubSeq(list, k + 1, Len(list)) \in Seq(S)
          /\ Len(SubSeq(list, k + 1, Len(list))) =
                 IF k + 1 <= Len(list) THEN Len(list) - (k + 1) + 1 ELSE 0
          /\ \A i \in 1 .. Len(list) - (k + 1) + 1 :
                 SubSeq(list, k + 1, Len(list))[i] = list[(k + 1) + i - 1]
      BY <1>0, <2>4, <3>1, SubSeqProperties
    <3> QED
      BY <1>0, <2>4, <3>2
  <2> HIDE DEF a, b
  <2>7. RemoveFirst(list, e) = a \o b
    BY <2>3 DEF a, b
  <2>8. /\ a \o b \in Seq(S) /\ Len(a \o b) = Len(list) - 1
        /\ \A i \in 1 .. Len(list) - 1 : (a \o b)[i] = IF i <= k - 1 THEN a[i] ELSE b[i - (k - 1)]
    <3>1. /\ a \o b \in Seq(S) /\ Len(a \o b) = Len(a) + Len(b)
          /\ \A i \in 1 .. Len(a) + Len(b) :
                 (a \o b)[i] = IF i <= Len(a) THEN a[i] ELSE b[i - Len(a)]
      BY <2>5, <2>6, ConcatProperties
    <3>2. Len(a) + Len(b) = Len(list) - 1
      BY <1>0, <2>4, <2>5, <2>6
    <3> QED
      BY <2>5, <3>1, <3>2
  <2>9. ASSUME NEW i \in 1 .. Len(list) - 1
        PROVE  (a \o b)[i] = list[IF i < k THEN i ELSE i + 1]
    <3>1. CASE i < k
      BY <1>0, <2>4, <2>5, <2>8, <3>1
    <3>2. CASE ~(i < k)
      <4>1. i - (k - 1) \in 1 .. Len(list) - k /\ k + (i - (k - 1)) = i + 1 /\ ~(i <= k - 1)
        BY <1>0, <2>4, <3>2
      <4> QED
        BY <2>6, <2>8, <3>2, <4>1
    <3> QED
      BY <3>1, <3>2
  <2> QED
    BY <2>4, <2>7, <2>8, <2>9
<1> QED
  BY <1>1, <1>2

\* The new entry is first, once, and what was there follows in its order.
LEMMA ToFrontFacts ==
    ASSUME NEW S, NEW list \in Seq(S), NEW e \in S
    PROVE  /\ ToFront(list, e) \in Seq(S)
           /\ Len(ToFront(list, e)) = Len(RemoveFirst(list, e)) + 1
           /\ ToFront(list, e)[1] = e
           /\ \A i \in 2 .. Len(ToFront(list, e)) : ToFront(list, e)[i] = RemoveFirst(list, e)[i - 1]
<1> DEFINE r == RemoveFirst(list, e)
<1>1. r \in Seq(S) /\ Len(r) \in Nat
  BY RemoveFirstFacts
<1>2. ToFront(list, e) = << e >> \o r
  BY DEF ToFront
<1> HIDE DEF r
<1>3. << e >> \in Seq(S) /\ Len(<< e >>) = 1 /\ << e >>[1] = e
  OBVIOUS
<1>4. /\ << e >> \o r \in Seq(S) /\ Len(<< e >> \o r) = 1 + Len(r)
      /\ \A i \in 1 .. 1 + Len(r) : (<< e >> \o r)[i] = IF i <= 1 THEN << e >>[i] ELSE r[i - 1]
  BY <1>1, <1>3, ConcatProperties
<1> QED
  BY <1>1, <1>2, <1>3, <1>4 DEF r

-----------------------------------------------------------------------------
(* What is stored                                                          *)

\* The types of the variables.
HistType ==
    /\ DOMAIN lists \subseteq Names
    /\ \A n \in DOMAIN lists : lists[n] \in Seq(Text)
    /\ clean \in BOOLEAN
    /\ config \in [Names -> [count : 0 .. MaxCount, values : [1 .. MaxCount -> Text]]]
    /\ saving \in [phase : {"using", "writing", "written"}, left : SUBSET Names, done : [Names -> Nat]]
    /\ before \in [Names -> Seq(Text)]
    /\ entered \in [Names -> Seq(Text)]

\* ReadSingleList of a configuration is a list of clean texts.
LEMMA StoredType ==
    ASSUME HistType, NEW n \in Names
    PROVE  Stored(config, n) \in Seq(CleanText) /\ Stored(config, n) \in Seq(Text)
<1> DEFINE c == config[n].count
           v == config[n].values
<1>1. c \in Nat /\ AtMost(c) \in 0 .. MaxCount /\ v \in [1 .. MaxCount -> Text]
  BY HistoryAssumption DEF HistType, AtMost
<1>2. Stored(config, n) = NonEmptyTrimmed(SubSeq(v, 1, AtMost(c)))
  BY DEF Stored
<1> HIDE DEF c, v
<1>3. AtMost(c) \in Int /\ \A i \in 1 .. AtMost(c) : v[i] \in Text
  BY <1>1, HistoryAssumption
<1>4. SubSeq(v, 1, AtMost(c)) \in Seq(Text)
  BY <1>3, SubSeqProperties
<1>5. NonEmptyTrimmed(SubSeq(v, 1, AtMost(c))) \in Seq(CleanText)
  BY <1>4, ReadIsClean
<1>6. CleanText \subseteq Text
  BY DEF CleanText
<1> QED
  BY <1>2, <1>5, <1>6, SeqMonotonic

\* A count of 0 stands for an empty list.
LEMMA StoredZero ==
    ASSUME NEW n, config[n].count = 0
    PROVE  Stored(config, n) = << >>
<1>1. AtMost(config[n].count) = 0
  BY HistoryAssumption DEF AtMost
<1>2. SubSeq(config[n].values, 1, 0) = << >>
  BY SubSeqEmpty
<1> QED
  BY <1>1, <1>2, ReadNothing DEF Stored

\* What of a list in memory is stored is a first part of it.
LEMMA LimitedFacts ==
    ASSUME HistType, NEW n \in DOMAIN lists
    PROVE  /\ Limited(n) \in Seq(Text)
           /\ Len(Limited(n)) \in Nat /\ Len(Limited(n)) <= MaxCount
           /\ Len(Limited(n)) <= Len(lists[n])
           /\ DOMAIN Limited(n) = 1 .. Len(Limited(n))
           /\ \A i \in 1 .. Len(Limited(n)) : Limited(n)[i] = lists[n][i] /\ lists[n][i] \in Text
<1> DEFINE l == lists[n]
           k == AtMost(Len(l))
<1>1. l \in Seq(Text) /\ Len(l) \in Nat /\ \A i \in 1 .. Len(l) : l[i] \in Text
  BY DEF HistType
<1>2. k \in Nat /\ k <= MaxCount /\ k <= Len(l)
  BY <1>1, HistoryAssumption DEF AtMost
<1>3. Limited(n) = SubSeq(l, 1, k)
  BY DEF Limited
<1> HIDE DEF l, k
<1>4. \A i \in 1 .. k : l[i] \in Text
  BY <1>1, <1>2
<1>5. k \in Int
  BY <1>2
<1>6. /\ SubSeq(l, 1, k) \in Seq(Text)
      /\ Len(SubSeq(l, 1, k)) = IF 1 <= k THEN k - 1 + 1 ELSE 0
      /\ \A i \in 1 .. k - 1 + 1 : SubSeq(l, 1, k)[i] = l[1 + i - 1]
  BY <1>4, <1>5, SubSeqProperties
<1>7. Len(SubSeq(l, 1, k)) = k /\ \A i \in 1 .. k : SubSeq(l, 1, k)[i] = l[i]
  BY <1>2, <1>6
<1>8. DOMAIN SubSeq(l, 1, k) = 1 .. k
  BY <1>6, <1>7
<1> QED
  BY <1>2, <1>3, <1>4, <1>6, <1>7, <1>8 DEF l

\* The list is written: WriteSingleList got to its end.
Finished(n) ==
    /\ config[n].count = Len(Limited(n))
    /\ \A i \in 1 .. config[n].count : config[n].values[i] = lists[n][i]

\* A list that is written is read as what of it should be stored.
LEMMA StoredFinished ==
    ASSUME HistType, NEW n \in DOMAIN lists, Finished(n)
    PROVE  Stored(config, n) = NonEmptyTrimmed(Limited(n))
<1> DEFINE v == config[n].values
           k == Len(Limited(n))
<1>1. /\ Limited(n) \in Seq(Text) /\ k \in Nat /\ k <= MaxCount
      /\ \A i \in 1 .. k : Limited(n)[i] = lists[n][i] /\ lists[n][i] \in Text
  BY LimitedFacts
<1>2. config[n].count = k /\ \A i \in 1 .. k : v[i] = lists[n][i]
  BY DEF Finished
<1>3. AtMost(k) = k
  BY <1>1, HistoryAssumption DEF AtMost
<1>4. Stored(config, n) = NonEmptyTrimmed(SubSeq(v, 1, k))
  BY <1>2, <1>3 DEF Stored
<1> HIDE DEF v, k
<1>5. k \in Int /\ \A i \in 1 .. k : v[i] \in Text
  BY <1>1, <1>2
<1>6. /\ SubSeq(v, 1, k) \in Seq(Text)
      /\ Len(SubSeq(v, 1, k)) = IF 1 <= k THEN k - 1 + 1 ELSE 0
      /\ \A i \in 1 .. k - 1 + 1 : SubSeq(v, 1, k)[i] = v[1 + i - 1]
  BY <1>5, SubSeqProperties
<1>7. Len(SubSeq(v, 1, k)) = k /\ \A i \in 1 .. k : SubSeq(v, 1, k)[i] = v[i]
  BY <1>1, <1>6
<1>8. SubSeq(v, 1, k) = Limited(n)
  <2>1. Len(SubSeq(v, 1, k)) = Len(Limited(n))
    BY <1>7 DEF k
  <2>2. \A i \in 1 .. Len(SubSeq(v, 1, k)) : SubSeq(v, 1, k)[i] = Limited(n)[i]
    BY <1>1, <1>2, <1>7
  <2> QED
    BY <1>1, <1>6, <2>1, <2>2, SeqEqual
<1> QED
  BY <1>4, <1>8

-----------------------------------------------------------------------------
(* The single steps                                                        *)

\* What a step of writing one list leaves alone.
OthersKept(name) ==
    /\ saving'.phase = saving.phase
    /\ \A n \in Names \ {name} :
          config'[n] = config[n] /\ saving'.done[n] = saving.done[n]

StoreTyped ==
    /\ config \in [Names -> [count : 0 .. MaxCount, values : [1 .. MaxCount -> Text]]]
    /\ saving \in [phase : {"using", "writing", "written"}, left : SUBSET Names, done : [Names -> Nat]]

LEMMA WriteZeroFacts ==
    ASSUME HistType, NEW name \in Names, WriteZero(name)
    PROVE  /\ StoreTyped' /\ OthersKept(name)
           /\ saving'.left = saving.left
           /\ saving'.done[name] = 1 /\ config'[name].count = 0
<1>1. 0 \in 0 .. MaxCount
  BY HistoryAssumption
<1>2. /\ config' \in [Names -> [count : 0 .. MaxCount, values : [1 .. MaxCount -> Text]]]
      /\ config'[name].count = 0
      /\ \A n \in Names \ {name} : config'[n] = config[n]
  BY <1>1 DEF WriteZero, HistType
<1>3. /\ saving' \in [phase : {"using", "writing", "written"}, left : SUBSET Names, done : [Names -> Nat]]
      /\ saving'.phase = saving.phase /\ saving'.left = saving.left
      /\ saving'.done[name] = 1
      /\ \A n \in Names \ {name} : saving'.done[n] = saving.done[n]
  BY DEF WriteZero, HistType
<1> QED
  BY <1>2, <1>3 DEF StoreTyped, OthersKept

LEMMA WriteValueFacts ==
    ASSUME HistType, NEW name \in DOMAIN lists, WriteValue(name)
    PROVE  LET i == saving.done[name]
           IN  /\ StoreTyped' /\ OthersKept(name)
               /\ saving'.left = saving.left
               /\ i \in 1 .. Len(Limited(name)) /\ saving'.done[name] = i + 1
               /\ config'[name].count = config[name].count
               /\ config'[name].values = [config[name].values EXCEPT ![i] = lists[name][i]]
               /\ i \in 1 .. MaxCount
<1> DEFINE i == saving.done[name]
           x == lists[name][i]
<1>1. name \in Names /\ i \in 1 .. Len(Limited(name)) /\ i \in Nat /\ i \in 1 .. MaxCount /\ x \in Text
  <2>1. /\ Len(Limited(name)) \in Nat /\ Len(Limited(name)) <= MaxCount
        /\ DOMAIN Limited(name) = 1 .. Len(Limited(name))
        /\ \A j \in 1 .. Len(Limited(name)) : lists[name][j] \in Text
    BY LimitedFacts
  <2>2. i \in DOMAIN Limited(name)
    BY DEF WriteValue
  <2>3. name \in Names
    BY DEF HistType
  <2> QED
    BY <2>1, <2>2, <2>3, HistoryAssumption
<1>2. /\ config' = [config EXCEPT ![name].values[i] = x]
      /\ saving' = [saving EXCEPT !.done[name] = i + 1]
  BY DEF WriteValue
<1> HIDE DEF i, x
<1>3. /\ config' \in [Names -> [count : 0 .. MaxCount, values : [1 .. MaxCount -> Text]]]
      /\ config'[name].count = config[name].count
      /\ config'[name].values = [config[name].values EXCEPT ![i] = x]
      /\ \A n \in Names \ {name} : config'[n] = config[n]
  BY <1>1, <1>2 DEF HistType
<1>4. /\ saving' \in [phase : {"using", "writing", "written"}, left : SUBSET Names, done : [Names -> Nat]]
      /\ saving'.phase = saving.phase /\ saving'.left = saving.left
      /\ saving'.done[name] = i + 1
      /\ \A n \in Names \ {name} : saving'.done[n] = saving.done[n]
  <2> DEFINE k == i + 1
  <2>1. k \in Nat /\ name \in Names
    BY <1>1
  <2>2. saving' = [saving EXCEPT !.done[name] = k]
    BY <1>2
  <2> HIDE DEF k
  <2>3. /\ saving' \in [phase : {"using", "writing", "written"}, left : SUBSET Names, done : [Names -> Nat]]
        /\ saving'.phase = saving.phase /\ saving'.left = saving.left
        /\ saving'.done[name] = k
        /\ \A n \in Names \ {name} : saving'.done[n] = saving.done[n]
    BY <2>1, <2>2 DEF HistType
  <2> QED
    BY <2>3 DEF k
<1> QED
  BY <1>1, <1>3, <1>4 DEF StoreTyped, OthersKept, i, x

LEMMA WriteCountFacts ==
    ASSUME HistType, NEW name \in DOMAIN lists, WriteCount(name)
    PROVE  /\ StoreTyped' /\ OthersKept(name)
           /\ saving'.left = saving.left \ {name}
           /\ saving.done[name] = Len(Limited(name)) + 1
           /\ config'[name].count = Len(Limited(name))
           /\ config'[name].values = config[name].values
<1> DEFINE k == Len(Limited(name))
<1>1. name \in Names /\ k \in 0 .. MaxCount
  BY LimitedFacts, HistoryAssumption DEF HistType
<1>2. /\ config' = [config EXCEPT ![name].count = k]
      /\ saving' = [saving EXCEPT !.left = @ \ {name}]
      /\ saving.done[name] = k + 1
  BY DEF WriteCount
<1> HIDE DEF k
<1>3. /\ config' \in [Names -> [count : 0 .. MaxCount, values : [1 .. MaxCount -> Text]]]
      /\ config'[name].count = k
      /\ config'[name].values = config[name].values
      /\ \A n \in Names \ {name} : config'[n] = config[n]
  BY <1>1, <1>2 DEF HistType
<1>4. /\ saving' \in [phase : {"using", "writing", "written"}, left : SUBSET Names, done : [Names -> Nat]]
      /\ saving'.phase = saving.phase /\ saving'.left = saving.left \ {name}
      /\ \A n \in Names \ {name} : saving'.done[n] = saving.done[n]
  <2> DEFINE rest == saving.left \ {name}
  <2>1. rest \in SUBSET Names
    BY DEF HistType
  <2>2. saving' = [saving EXCEPT !.left = rest]
    BY <1>2
  <2> HIDE DEF rest
  <2>3. /\ saving' \in [phase : {"using", "writing", "written"}, left : SUBSET Names, done : [Names -> Nat]]
        /\ saving'.phase = saving.phase /\ saving'.left = rest /\ saving'.done = saving.done
    BY <2>1, <2>2 DEF HistType
  <2> QED
    BY <2>3 DEF rest
<1> QED
  BY <1>2, <1>3, <1>4 DEF StoreTyped, OthersKept, k

\* A list that is read or added to is in memory; the others stay.
LEMMA PutFacts ==
    ASSUME NEW name, NEW list, lists' = Put(name, list)
    PROVE  /\ DOMAIN lists' = DOMAIN lists \cup {name}
           /\ lists'[name] = list
           /\ \A n \in DOMAIN lists \ {name} : lists'[n] = lists[n]
  BY DEF Put

LEMMA ReadType ==
    ASSUME HistType, NEW name \in Names
    PROVE  Read(name) \in Seq(Text)
  BY StoredType DEF Read, InMemory, HistType

\* The types are kept when a list is put into memory ...
LEMMA PutType ==
    ASSUME HistType, NEW name \in Names, NEW list \in Seq(Text), lists' = Put(name, list),
           clean' \in BOOLEAN, UNCHANGED <<config, saving, before>>,
           entered' \in [Names -> Seq(Text)]
    PROVE  HistType'
<1>1. /\ DOMAIN lists' = DOMAIN lists \cup {name}
      /\ lists'[name] = list
      /\ \A n \in DOMAIN lists \ {name} : lists'[n] = lists[n]
  BY PutFacts
<1>2. DOMAIN lists' \subseteq Names /\ \A n \in DOMAIN lists' : lists'[n] \in Seq(Text)
  BY <1>1 DEF HistType
<1> QED
  BY <1>2 DEF HistType

\* ... with a new entry at its front, ...
LEMMA AddEntryFacts ==
    ASSUME HistType, NEW name \in Names, NEW entry \in Text, AddEntryToList(name, entry)
    PROVE  /\ ToFront(Read(name), entry) \in Seq(Text)
           /\ lists' = Put(name, ToFront(Read(name), entry))
           /\ clean' = FALSE
           /\ entered' \in [Names -> Seq(Text)]
           /\ entered'[name] = << entry >> \o entered[name]
           /\ \A n \in Names \ {name} : entered'[n] = entered[n]
<1>1. ToFront(Read(name), entry) \in Seq(Text)
  BY ReadType, ToFrontFacts
<1>2. << entry >> \o entered[name] \in Seq(Text)
  <2>1. << entry >> \in Seq(Text) /\ entered[name] \in Seq(Text)
    BY DEF HistType
  <2> QED
    BY <2>1, ConcatProperties
<1> QED
  BY <1>1, <1>2 DEF AddEntryToList, HistType

-----------------------------------------------------------------------------
(* Writing                                                                 *)

\* Which lists are still to be written.  What is declared written while the
\* program runs is that there is nothing to write.
PhaseInv ==
    /\ saving.left \subseteq DOMAIN lists
    /\ saving.phase = "using" => saving.left = {} /\ \A n \in Names : saving.done[n] = 0
    /\ saving.phase = "written" => saving.left = {}
    /\ clean /\ saving.phase # "written" => DOMAIN lists = {}

\* The count is 0, and of the values the first ones are the new ones.
Halfway(n) ==
    /\ config[n].count = 0
    /\ saving.done[n] <= Len(Limited(n)) + 1
    /\ \A i \in 1 .. saving.done[n] - 1 : config[n].values[i] = lists[n][i]

Untouched(n) ==
    \/ saving.phase = "using"
    \/ n \notin DOMAIN lists
    \/ n \in saving.left /\ saving.done[n] = 0

\* How far each list is written: not begun, on the way, or done.
Progress(n) ==
    /\ Untouched(n) => Stored(config, n) = before[n]
    /\ saving.phase # "using" /\ n \in saving.left /\ saving.done[n] # 0 => Halfway(n)
    /\ saving.phase # "using" /\ n \in DOMAIN lists \ saving.left => Finished(n)

WriteInv == HistType /\ PhaseInv /\ \A n \in Names : Progress(n)

\* What is stored of a list depends on its part of the configuration alone.
LEMMA SameStored ==
    ASSUME NEW n, config'[n] = config[n]
    PROVE  Stored(config, n)' = Stored(config, n)
  BY DEF Stored

\* The list of another name makes no progress.
LEMMA ProgressKept ==
    ASSUME NEW n, Progress(n), config'[n] = config[n], before' = before, lists' = lists,
           saving.phase # "using", saving'.phase # "using",
           n \in saving'.left <=> n \in saving.left, saving'.done[n] = saving.done[n]
    PROVE  Progress(n)'
<1>1. Stored(config, n)' = Stored(config, n)
  BY SameStored
<1>2. Limited(n)' = Limited(n)
  BY DEF Limited
<1>3. Untouched(n)' => Untouched(n)
  BY DEF Untouched
<1>4. Halfway(n) => Halfway(n)'
  BY <1>2 DEF Halfway
<1>5. Finished(n) => Finished(n)'
  BY <1>2 DEF Finished
<1> QED
  BY <1>1, <1>3, <1>4, <1>5 DEF Progress

\* Before anything is written the lists in memory do not matter.
LEMMA UsingStep ==
    ASSUME PhaseInv, \A n \in Names : Progress(n), saving.phase = "using", UNCHANGED <<config, saving, before>>,
           clean' => DOMAIN lists' = {}
    PROVE  PhaseInv' /\ \A n \in Names : Progress(n)'
<1>1. PhaseInv'
  BY DEF PhaseInv
<1>2. ASSUME NEW n \in Names PROVE Progress(n)'
  <2>1. Stored(config, n)' = Stored(config, n)
    BY SameStored
  <2> QED
    BY <2>1 DEF Progress, Untouched
<1> QED
  BY <1>1, <1>2

\* The texts that are entered are texts.
LEMMA EnteredIsText ==
    ASSUME NEW t \in Entered
    PROVE  t \in Text /\ Trim(t) \in Text
  BY HistoryAssumption, TrimIsClean DEF Text

LEMMA WriteInvInit == HistInit => WriteInv
<1> SUFFICES ASSUME HistInit PROVE WriteInv
  OBVIOUS
<1>1. HistType
  <2>1. << >> \in Seq(Text)
    BY EmptySeq
  <2>2. Empty \in Text /\ 0 \in 0 .. MaxCount
    BY HistoryAssumption DEF Empty, Text
  <2>3. DOMAIN lists = {}
    BY DEF HistInit
  <2>4. config \in [Names -> [count : 0 .. MaxCount, values : [1 .. MaxCount -> Text]]]
    BY <2>2 DEF HistInit
  <2>5. saving \in [phase : {"using", "writing", "written"}, left : SUBSET Names, done : [Names -> Nat]]
    BY DEF HistInit
  <2>6. before \in [Names -> Seq(Text)] /\ entered \in [Names -> Seq(Text)] /\ clean \in BOOLEAN
    BY <2>1 DEF HistInit
  <2> QED
    BY <2>3, <2>4, <2>5, <2>6 DEF HistType
<1>2. PhaseInv
  BY DEF HistInit, PhaseInv
<1>3. ASSUME NEW n \in Names PROVE Progress(n)
  <2>1. config[n].count = 0 /\ before[n] = << >> /\ saving.phase = "using"
    BY DEF HistInit
  <2> QED
    BY <2>1, StoredZero DEF Progress
<1> QED
  BY <1>1, <1>2, <1>3 DEF WriteInv

\* One Write to the configuration.
LEMMA WriteStepInv ==
    ASSUME WriteInv, WriteStep
    PROVE  WriteInv'
<1>1. PICK name \in saving.left : WriteZero(name) \/ WriteValue(name) \/ WriteCount(name)
  BY DEF WriteStep
<1>2. name \in Names /\ name \in DOMAIN lists /\ saving.phase = "writing"
  BY DEF WriteStep, WriteInv, HistType, PhaseInv
<1>3. HistType /\ PhaseInv /\ Progress(name) /\ UNCHANGED <<lists, clean, before, entered>>
  BY <1>2 DEF WriteInv, WriteStep
<1>4. /\ StoreTyped' /\ OthersKept(name)
      /\ saving'.left = saving.left \/ saving'.left = saving.left \ {name}
  BY <1>1, <1>2, <1>3, WriteZeroFacts, WriteValueFacts, WriteCountFacts
<1>5. HistType'
  BY <1>3, <1>4 DEF HistType, StoreTyped
<1>6. PhaseInv'
  BY <1>2, <1>3, <1>4 DEF PhaseInv, OthersKept
<1>7. Limited(name)' = Limited(name) /\ Len(Limited(name)) \in Nat
  BY <1>2, <1>3, LimitedFacts DEF Limited
<1>8. saving'.phase = "writing"
  BY <1>2, <1>4 DEF OthersKept
<1>9. Progress(name)'
  <2>1. CASE WriteZero(name)
    <3>1. saving'.left = saving.left /\ saving'.done[name] = 1 /\ config'[name].count = 0
      BY <1>2, <1>3, <2>1, WriteZeroFacts
    <3> QED
      BY <1>1, <1>2, <1>3, <1>7, <1>8, <3>1 DEF Progress, Untouched, Halfway
  <2>2. CASE WriteValue(name)
    <3> DEFINE i == saving.done[name]
    <3>1. /\ saving'.left = saving.left
          /\ i \in 1 .. Len(Limited(name)) /\ saving'.done[name] = i + 1
          /\ config'[name].count = config[name].count
          /\ config'[name].values = [config[name].values EXCEPT ![i] = lists[name][i]]
          /\ i \in 1 .. MaxCount
      BY <1>2, <1>3, <2>2, WriteValueFacts
    <3>2. DOMAIN config[name].values = 1 .. MaxCount
      BY <1>2, <1>3 DEF HistType
    <3>3. i # 0 /\ i \in Nat
      BY <1>7, <3>1
    <3>4. Halfway(name)
      BY <1>1, <1>2, <1>3, <3>3 DEF Progress
    <3>5. Halfway(name)'
      <4>1. ASSUME NEW j \in 1 .. saving'.done[name] - 1
            PROVE  config'[name].values[j] = lists'[name][j]
        <5>1. CASE j = i
          BY <1>3, <3>1, <3>2, <5>1
        <5>2. CASE j # i
          <6>1. j \in 1 .. i - 1
            BY <3>1, <3>3, <5>2
          <6> QED
            BY <1>3, <3>1, <3>4, <5>2, <6>1 DEF Halfway
        <5> QED
          BY <5>1, <5>2
      <4> QED
        BY <1>7, <3>1, <3>4, <4>1 DEF Halfway
    <3> QED
      BY <1>1, <1>2, <1>3, <1>8, <3>1, <3>3, <3>5 DEF Progress, Untouched
  <2>3. CASE WriteCount(name)
    <3>1. /\ saving'.left = saving.left \ {name}
          /\ saving.done[name] = Len(Limited(name)) + 1
          /\ config'[name].count = Len(Limited(name))
          /\ config'[name].values = config[name].values
      BY <1>2, <1>3, <2>3, WriteCountFacts
    <3>2. Halfway(name)
      BY <1>1, <1>2, <1>3, <1>7, <3>1 DEF Progress
    <3>3. Finished(name)'
      BY <1>3, <1>7, <3>1, <3>2 DEF Halfway, Finished
    <3> QED
      BY <1>2, <1>3, <1>8, <3>1, <3>3 DEF Progress, Untouched
  <2> QED
    BY <1>1, <2>1, <2>2, <2>3
<1>10. ASSUME NEW n \in Names \ {name} PROVE Progress(n)'
  <2>1. Progress(n) /\ config'[n] = config[n] /\ saving'.done[n] = saving.done[n]
    BY <1>4 DEF WriteInv, OthersKept
  <2>2. n \in saving'.left <=> n \in saving.left
    BY <1>4
  <2> QED
    BY <1>2, <1>3, <1>8, <2>1, <2>2, ProgressKept
<1> QED
  BY <1>5, <1>6, <1>9, <1>10 DEF WriteInv

\* A new session finds what is stored, and has changed nothing.
LEMMA NewSessionInv ==
    ASSUME WriteInv, NewSession
    PROVE  WriteInv'
<1>1. \A n \in Names : Stored(config, n) \in Seq(Text)
  BY StoredType DEF WriteInv
<1>2. HistType'
  <2>1. DOMAIN lists' = {} /\ clean' \in BOOLEAN
    BY DEF NewSession
  <2>2. saving' \in [phase : {"using", "writing", "written"}, left : SUBSET Names, done : [Names -> Nat]]
    BY DEF NewSession
  <2>3. before' \in [Names -> Seq(Text)]
    BY <1>1 DEF NewSession
  <2>4. entered' \in [Names -> Seq(Text)]
    BY EmptySeq DEF NewSession
  <2>5. config' = config
    BY DEF NewSession
  <2> QED
    BY <2>1, <2>2, <2>3, <2>4, <2>5 DEF WriteInv, HistType
<1>3. PhaseInv'
  BY DEF NewSession, PhaseInv
<1>4. ASSUME NEW n \in Names PROVE Progress(n)'
  <2>1. config' = config /\ before'[n] = Stored(config, n) /\ saving'.phase = "using"
    BY DEF NewSession
  <2>2. Stored(config, n)' = Stored(config, n)
    BY <2>1, SameStored
  <2> QED
    BY <2>1, <2>2 DEF Progress
<1> QED
  BY <1>2, <1>3, <1>4 DEF WriteInv

LEMMA WriteInvStep == WriteInv /\ [HistNext]_histVars => WriteInv'
<1> SUFFICES ASSUME WriteInv, [HistNext]_histVars PROVE WriteInv'
  OBVIOUS
<1>0. HistType /\ PhaseInv /\ \A n \in Names : Progress(n)
  BY DEF WriteInv
<1>1. ASSUME NEW name \in Names, ReadList(name) PROVE WriteInv'
  <2>1. /\ lists' = Put(name, Read(name)) /\ saving.phase = "using"
        /\ UNCHANGED <<config, saving, before, entered>>
    BY <1>1 DEF ReadList
  <2>2. clean' \in BOOLEAN
    BY <1>1 DEF ReadList
  <2>3. clean' => DOMAIN lists' = {}
    <3>1. clean' => clean /\ InMemory(name)
      BY <1>1 DEF ReadList
    <3> QED
      BY <1>0, <2>1, <3>1 DEF PhaseInv, InMemory
  <2>4. Read(name) \in Seq(Text)
    BY <1>0, <1>1, ReadType
  <2>5. HistType'
    <3>1. entered' \in [Names -> Seq(Text)]
      BY <1>0, <2>1 DEF HistType
    <3> QED
      BY <1>0, <1>1, <2>1, <2>2, <2>4, <3>1, PutType
  <2> QED
    BY <1>0, <2>1, <2>3, <2>5, UsingStep DEF WriteInv
<1>2. ASSUME NEW name \in Names, NEW entry \in Text, AddEntryToList(name, entry),
             saving.phase = "using", UNCHANGED <<config, saving, before>>
      PROVE  WriteInv'
  <2>1. /\ ToFront(Read(name), entry) \in Seq(Text)
        /\ lists' = Put(name, ToFront(Read(name), entry))
        /\ clean' = FALSE
        /\ entered' \in [Names -> Seq(Text)]
    BY <1>0, <1>2, AddEntryFacts
  <2>2. HistType'
    <3> DEFINE list == ToFront(Read(name), entry)
    <3>1. list \in Seq(Text) /\ lists' = Put(name, list) /\ clean' \in BOOLEAN
      BY <2>1
    <3> HIDE DEF list
    <3> QED
      BY <1>0, <1>2, <2>1, <3>1, PutType
  <2> QED
    BY <1>0, <1>2, <2>1, <2>2, UsingStep DEF WriteInv
<1>3. ASSUME NEW name \in Validated, NEW t \in Entered, EnterValidated(name, t) PROVE WriteInv'
  BY <1>2, <1>3, EnteredIsText DEF EnterValidated, Names
<1>4. ASSUME NEW name \in Direct, NEW t \in Entered, EnterDirect(name, t) PROVE WriteInv'
  BY <1>2, <1>4, EnteredIsText DEF EnterDirect, Names
<1>5. CASE BeginCleanup
  <2>1. /\ saving' = [saving EXCEPT !.phase = "writing", !.left = DOMAIN lists]
        /\ saving.phase = "using"
        /\ UNCHANGED <<lists, clean, config, before, entered>>
    BY <1>5 DEF BeginCleanup
  <2>2. /\ saving' \in [phase : {"using", "writing", "written"}, left : SUBSET Names, done : [Names -> Nat]]
        /\ saving'.phase = "writing" /\ saving'.left = DOMAIN lists /\ saving'.done = saving.done
    BY <1>0, <2>1 DEF HistType
  <2>3. HistType'
    BY <1>0, <2>1, <2>2 DEF HistType
  <2>4. PhaseInv'
    BY <1>0, <2>1, <2>2 DEF PhaseInv
  <2>5. ASSUME NEW n \in Names PROVE Progress(n)'
    <3>1. Stored(config, n)' = Stored(config, n)
      BY <2>1, SameStored
    <3>2. Stored(config, n) = before[n]
      BY <1>0, <2>1 DEF Progress, Untouched
    <3>3. saving'.done[n] = 0
      BY <1>0, <2>1, <2>2 DEF PhaseInv
    <3> QED
      BY <2>1, <2>2, <3>1, <3>2, <3>3 DEF Progress
  <2> QED
    BY <2>3, <2>4, <2>5 DEF WriteInv
<1>6. CASE WriteStep
  BY <1>6, WriteStepInv
<1>7. CASE FinishCleanup
  <2>1. /\ saving' = [saving EXCEPT !.phase = "written"]
        /\ saving.phase = "writing" /\ saving.left = {}
        /\ clean' = TRUE
        /\ UNCHANGED <<lists, config, before, entered>>
    BY <1>7 DEF FinishCleanup
  <2>2. /\ saving' \in [phase : {"using", "writing", "written"}, left : SUBSET Names, done : [Names -> Nat]]
        /\ saving'.phase = "written" /\ saving'.left = saving.left /\ saving'.done = saving.done
    BY <1>0, <2>1 DEF HistType
  <2>3. HistType'
    BY <1>0, <2>1, <2>2 DEF HistType
  <2>4. PhaseInv'
    BY <1>0, <2>1, <2>2 DEF PhaseInv
  <2>5. ASSUME NEW n \in Names PROVE Progress(n)'
    BY <1>0, <2>1, <2>2, ProgressKept
  <2> QED
    BY <2>3, <2>4, <2>5 DEF WriteInv
<1>8. CASE Restart \/ Crash
  BY <1>8, NewSessionInv DEF Restart, Crash
<1>9. CASE UNCHANGED histVars
  <2>1. UNCHANGED <<lists, clean, config, saving, before, entered>>
    BY <1>9 DEF histVars
  <2>2. HistType' /\ PhaseInv'
    BY <1>0, <2>1 DEF HistType, PhaseInv
  <2>3. ASSUME NEW n \in Names PROVE Progress(n)'
    <3>1. Stored(config, n)' = Stored(config, n) /\ Limited(n)' = Limited(n)
      BY <2>1, SameStored DEF Limited
    <3> QED
      BY <1>0, <2>1, <3>1 DEF Progress, Untouched, Halfway, Finished
  <2> QED
    BY <2>2, <2>3 DEF WriteInv
<1> QED
  BY <1>1, <1>3, <1>4, <1>5, <1>6, <1>7, <1>8, <1>9 DEF HistNext

\* Every list is stored as WriteInv says, which is never half.
LEMMA WholeLists == WriteInv => StoredIsWhole
<1> SUFFICES ASSUME WriteInv, NEW n \in Names
             PROVE  \/ Stored(config, n) \in {<< >>, before[n]}
                    \/ InMemory(n) /\ Stored(config, n) = NonEmptyTrimmed(Limited(n))
  BY DEF StoredIsWhole
<1>0. HistType /\ Progress(n)
  BY DEF WriteInv
<1>1. CASE Untouched(n)
  BY <1>0, <1>1 DEF Progress
<1>2. CASE ~Untouched(n) /\ n \in saving.left
  BY <1>0, <1>2, StoredZero DEF Progress, Untouched, Halfway
<1>3. CASE ~Untouched(n) /\ n \notin saving.left
  BY <1>0, <1>3, StoredFinished DEF Progress, Untouched, InMemory
<1> QED
  BY <1>1, <1>2, <1>3

\* WriteSingleList writes the count last: a program that dies while it writes
\* leaves each list as it was, as it should be, or empty, for any MAX_COUNT
\* and any number of lists.
THEOREM StoredWhole == HistSpec => []StoredIsWhole
  BY WriteInvInit, WriteInvStep, WholeLists, PTL DEF HistSpec

\* The assertion of Data::~Data: whatever is declared written is stored.
THEOREM CleanIsStored == HistSpec => []CleanMeansStored
<1>1. WriteInv => CleanMeansStored
  <2> SUFFICES ASSUME WriteInv, clean, NEW n \in DOMAIN lists
               PROVE  Stored(config, n) = NonEmptyTrimmed(Limited(n))
    BY DEF CleanMeansStored
  <2>1. n \in Names /\ saving.phase = "written" /\ saving.left = {}
    BY DEF WriteInv, HistType, PhaseInv
  <2>2. Finished(n)
    BY <2>1 DEF WriteInv, Progress
  <2> QED
    BY <2>2, StoredFinished DEF WriteInv
<1> QED
  BY <1>1, WriteInvInit, WriteInvStep, PTL DEF HistSpec
-----------------------------------------------------------------------------
(* The order of the entries                                                *)

\* How many entries ago t was entered, of what was entered.
AgeIn(es, t) ==
    LET at == {i \in DOMAIN es : es[i] = t}
    IN  IF at = {} THEN Len(es) + 1 ELSE CHOOSE i \in at : \A j \in at : i <= j

\* Age is the place of the first occurrence.
LEMMA AgeFacts ==
    ASSUME NEW es \in Seq(Text), NEW t
    PROVE  /\ AgeIn(es, t) \in 1 .. Len(es) + 1
           /\ \A i \in 1 .. Len(es) : es[i] = t => AgeIn(es, t) <= i
           /\ AgeIn(es, t) <= Len(es) => es[AgeIn(es, t)] = t
<1> DEFINE at == {i \in DOMAIN es : es[i] = t}
<1>1. DOMAIN es = 1 .. Len(es) /\ Len(es) \in Nat
  OBVIOUS
<1>2. CASE at = {}
  <2>1. AgeIn(es, t) = Len(es) + 1
    BY <1>2 DEF AgeIn
  <2>2. \A i \in 1 .. Len(es) : es[i] # t
    BY <1>1, <1>2
  <2> QED
    BY <1>1, <2>1, <2>2
<1>3. CASE at # {}
  <2>1. at \in SUBSET Nat
    BY <1>1
  <2>2. AgeIn(es, t) = Min(at)
    BY <1>3 DEF AgeIn, Min
  <2>3. Min(at) \in at /\ \A j \in at : Min(at) <= j
    <3> HIDE DEF at
    <3> QED
      BY <1>3, <2>1, MinIsSmallest
  <2> QED
    BY <1>1, <2>2, <2>3
<1> QED
  BY <1>2, <1>3

\* The age is known by the first occurrence.
LEMMA AgeIs ==
    ASSUME NEW es \in Seq(Text), NEW t, NEW k \in 1 .. Len(es) + 1,
           \A i \in 1 .. Len(es) : es[i] = t => k <= i,
           k <= Len(es) => es[k] = t
    PROVE  AgeIn(es, t) = k
<1> DEFINE a == AgeIn(es, t)
<1>1. /\ a \in 1 .. Len(es) + 1
      /\ \A i \in 1 .. Len(es) : es[i] = t => a <= i
      /\ a <= Len(es) => es[a] = t
  BY AgeFacts
<1>2. Len(es) \in Nat
  OBVIOUS
<1> HIDE DEF a
<1>3. a = k
  BY <1>1, <1>2
<1> QED
  BY <1>3 DEF a

\* What was just entered is youngest, everything else is one older.
LEMMA AgeAfter ==
    ASSUME NEW es \in Seq(Text), NEW e \in Text, NEW t
    PROVE  AgeIn(<< e >> \o es, t) = IF t = e THEN 1 ELSE AgeIn(es, t) + 1
<1> DEFINE n == << e >> \o es
<1>1. /\ n \in Seq(Text) /\ Len(n) = Len(es) + 1 /\ n[1] = e
      /\ \A i \in 2 .. Len(n) : n[i] = es[i - 1]
  <2>1. << e >> \in Seq(Text) /\ Len(<< e >>) = 1 /\ << e >>[1] = e /\ Len(es) \in Nat
    OBVIOUS
  <2>2. /\ << e >> \o es \in Seq(Text) /\ Len(<< e >> \o es) = 1 + Len(es)
        /\ \A i \in 1 .. 1 + Len(es) : (<< e >> \o es)[i] = IF i <= 1 THEN << e >>[i] ELSE es[i - 1]
    BY <2>1, ConcatProperties
  <2> QED
    BY <2>1, <2>2
<1> HIDE DEF n
<1>2. Len(es) \in Nat
  OBVIOUS
<1>3. CASE t = e
  <2>1. 1 \in 1 .. Len(n) + 1 /\ \A i \in 1 .. Len(n) : 1 <= i
    BY <1>1, <1>2
  <2>2. AgeIn(n, t) = 1
    BY <1>1, <1>3, <2>1, AgeIs
  <2> QED
    BY <1>3, <2>2 DEF n
<1>4. CASE t # e
  <2> DEFINE a == AgeIn(es, t)
             k == a + 1
  <2>1. /\ a \in 1 .. Len(es) + 1
        /\ \A i \in 1 .. Len(es) : es[i] = t => a <= i
        /\ a <= Len(es) => es[a] = t
    BY AgeFacts
  <2> HIDE DEF a
  <2>2. k \in 1 .. Len(n) + 1 /\ k \in 2 .. Len(n) + 1 /\ k - 1 = a
    BY <1>1, <1>2, <2>1
  <2>3. ASSUME NEW i \in 1 .. Len(n), n[i] = t PROVE k <= i
    <3>1. i # 1
      BY <1>1, <1>4, <2>3
    <3>2. i - 1 \in 1 .. Len(es) /\ es[i - 1] = t
      BY <1>1, <1>2, <2>3, <3>1
    <3>3. a <= i - 1
      BY <2>1, <3>2
    <3> QED
      BY <1>2, <2>1, <3>3
  <2>4. k <= Len(n) => n[k] = t
    <3> SUFFICES ASSUME k <= Len(n) PROVE n[k] = t
      OBVIOUS
    <3>1. k \in 2 .. Len(n) /\ a <= Len(es)
      BY <1>1, <1>2, <2>1, <2>2
    <3>2. n[k] = es[k - 1]
      BY <1>1, <3>1
    <3> QED
      BY <2>1, <2>2, <3>1, <3>2
  <2> HIDE DEF k
  <2>5. AgeIn(n, t) = k
    BY <1>1, <2>2, <2>3, <2>4, AgeIs
  <2> QED
    BY <1>4, <2>5 DEF n, k, a
<1> QED
  BY <1>3, <1>4

Distinct(s) == \A i, j \in 1 .. Len(s) : i < j => s[i] # s[j]

\* The most recently entered first.
ByAge(s, es) == \A i, j \in 1 .. Len(s) : i < j => AgeIn(es, s[i]) <= AgeIn(es, s[j])

\* AddEntryToList keeps the order: the new entry is youngest, it is taken from
\* its old place, and the others grow older by one.
LEMMA ToFrontOrder ==
    ASSUME NEW list \in Seq(CleanText), NEW e \in CleanText, NEW es \in Seq(Text),
           Distinct(list), ByAge(list, es)
    PROVE  /\ ToFront(list, e) \in Seq(CleanText)
           /\ Distinct(ToFront(list, e))
           /\ ByAge(ToFront(list, e), << e >> \o es)
<1> DEFINE r == RemoveFirst(list, e)
           f == ToFront(list, e)
           age(t) == AgeIn(es, t)
<1>1. e \in Text /\ Len(list) \in Nat
  BY DEF CleanText
<1>2. /\ r \in Seq(CleanText) /\ Len(r) \in Nat
      /\ \A i \in 1 .. Len(r) : r[i] # e
      /\ \A i, j \in 1 .. Len(r) : i < j => r[i] # r[j] /\ age(r[i]) <= age(r[j])
  <2>0. \A i, j \in 1 .. Len(list) : i < j => list[i] # list[j] /\ age(list[i]) <= age(list[j])
    BY DEF Distinct, ByAge
  <2>1. /\ r \in Seq(CleanText)
        /\ \/ r = list /\ \A i \in 1 .. Len(list) : list[i] # e
           \/ \E k \in 1 .. Len(list) :
                 /\ list[k] = e
                 /\ Len(r) = Len(list) - 1
                 /\ \A i \in 1 .. Len(list) - 1 : r[i] = list[IF i < k THEN i ELSE i + 1]
    BY RemoveFirstFacts
  <2> HIDE DEF r, age
  <2>2. CASE r = list /\ \A i \in 1 .. Len(list) : list[i] # e
    BY <1>1, <2>0, <2>1, <2>2
  <2>3. ASSUME NEW k \in 1 .. Len(list), list[k] = e, Len(r) = Len(list) - 1,
               \A i \in 1 .. Len(list) - 1 : r[i] = list[IF i < k THEN i ELSE i + 1]
        PROVE  /\ \A i \in 1 .. Len(r) : r[i] # e
               /\ \A i, j \in 1 .. Len(r) : i < j => r[i] # r[j] /\ age(r[i]) <= age(r[j])
    <3> DEFINE old(i) == IF i < k THEN i ELSE i + 1
    <3>1. \A i \in 1 .. Len(r) : old(i) \in 1 .. Len(list) /\ old(i) # k /\ r[i] = list[old(i)]
      BY <1>1, <2>3
    <3>2. \A i, j \in 1 .. Len(r) : i < j => old(i) < old(j)
      BY <1>1, <2>3
    <3> HIDE DEF old
    <3>3. ASSUME NEW i \in 1 .. Len(r) PROVE r[i] # e
      <4>1. old(i) < k \/ k < old(i)
        BY <1>1, <3>1
      <4> QED
        BY <2>0, <2>3, <3>1, <4>1
    <3>4. ASSUME NEW i \in 1 .. Len(r), NEW j \in 1 .. Len(r), i < j
          PROVE  r[i] # r[j] /\ age(r[i]) <= age(r[j])
      BY <2>0, <3>1, <3>2, <3>4
    <3> QED
      BY <3>3, <3>4
  <2>4. Len(r) \in Nat
    BY <2>1
  <2> QED
    BY <2>1, <2>2, <2>3, <2>4
<1>3. /\ f \in Seq(CleanText) /\ Len(f) = Len(r) + 1 /\ f[1] = e
      /\ \A i \in 2 .. Len(f) : f[i] = r[i - 1]
  BY ToFrontFacts
<1>4. \A t : AgeIn(<< e >> \o es, t) = IF t = e THEN 1 ELSE age(t) + 1
  BY <1>1, AgeAfter
<1>5. \A t : age(t) \in Nat
  <2> SUFFICES ASSUME NEW t PROVE age(t) \in Nat
    OBVIOUS
  <2>1. AgeIn(es, t) \in 1 .. Len(es) + 1 /\ Len(es) \in Nat
    BY AgeFacts
  <2> QED
    BY <2>1
<1> DEFINE now(t) == AgeIn(<< e >> \o es, t)
<1>6. \A t : now(t) = IF t = e THEN 1 ELSE age(t) + 1
  BY <1>4
<1> HIDE DEF r, f, age, now
<1>7. ASSUME NEW i \in 1 .. Len(f), NEW j \in 1 .. Len(f), i < j
      PROVE  f[i] # f[j] /\ now(f[i]) <= now(f[j])
  <2>1. j - 1 \in 1 .. Len(r) /\ j \in 2 .. Len(f)
    BY <1>2, <1>3, <1>7
  <2>2. f[j] = r[j - 1] /\ f[j] # e
    BY <1>2, <1>3, <2>1
  <2>3. now(f[j]) = age(f[j]) + 1 /\ age(f[j]) \in Nat
    BY <1>5, <1>6, <2>2
  <2>4. CASE i = 1
    <3>1. f[i] = e /\ now(f[i]) = 1
      BY <1>3, <1>6, <2>4
    <3> QED
      BY <2>2, <2>3, <3>1
  <2>5. CASE i # 1
    <3>1. i - 1 \in 1 .. Len(r) /\ i \in 2 .. Len(f) /\ i - 1 < j - 1
      BY <1>2, <1>3, <1>7, <2>5
    <3>2. f[i] = r[i - 1] /\ f[i] # e
      BY <1>2, <1>3, <3>1
    <3>3. now(f[i]) = age(f[i]) + 1 /\ age(f[i]) \in Nat
      BY <1>5, <1>6, <3>2
    <3>4. f[i] # f[j] /\ age(f[i]) <= age(f[j])
      BY <1>2, <2>1, <2>2, <3>1, <3>2
    <3> QED
      BY <2>3, <3>3, <3>4
  <2> QED
    BY <2>4, <2>5
<1> QED
  BY <1>3, <1>7 DEF Distinct, ByAge, f, now

\* Before anything is entered everything is of the same age.
LEMMA NothingEntered ==
    ASSUME NEW t
    PROVE  AgeIn(<< >>, t) = 1
<1>1. << >> \in Seq(Text) /\ Len(<< >>) = 0
  BY EmptySeq
<1>2. AgeIn(<< >>, t) \in 1 .. Len(<< >>) + 1
  BY <1>1, AgeFacts
<1> QED
  BY <1>1, <1>2

\* A list that dialogs fill is clean, without repetition and ordered; what is
\* stored has no repetition; and nothing is entered in a list not in memory.
OrderInv ==
    \A n \in Validated :
        /\ Distinct(before[n])
        /\ n \in DOMAIN lists =>
              lists[n] \in Seq(CleanText) /\ Distinct(lists[n]) /\ ByAge(lists[n], entered[n])
        /\ n \notin DOMAIN lists => entered[n] = << >>

\* What is stored of an ordered list is without repetition, too.
LEMMA StoredDistinct ==
    ASSUME WriteInv, OrderInv, NEW n \in Validated
    PROVE  Distinct(Stored(config, n))
<1>1. n \in Names
  BY DEF Names
<1>2. \/ Stored(config, n) \in {<< >>, before[n]}
      \/ InMemory(n) /\ Stored(config, n) = NonEmptyTrimmed(Limited(n))
  BY <1>1, WholeLists DEF StoredIsWhole
<1>3. CASE Stored(config, n) = << >>
  <2>1. Len(<< >>) = 0
    BY EmptySeq
  <2> QED
    BY <1>3, <2>1 DEF Distinct
<1>4. CASE Stored(config, n) = before[n]
  BY <1>4 DEF OrderInv
<1>5. CASE InMemory(n) /\ Stored(config, n) = NonEmptyTrimmed(Limited(n))
  <2>1. n \in DOMAIN lists /\ lists[n] \in Seq(CleanText) /\ Distinct(lists[n])
    BY <1>5 DEF OrderInv, InMemory
  <2>2. /\ Limited(n) \in Seq(Text) /\ Len(Limited(n)) \in Nat /\ Len(Limited(n)) <= Len(lists[n])
        /\ \A i \in 1 .. Len(Limited(n)) : Limited(n)[i] = lists[n][i]
    BY <2>1, LimitedFacts DEF WriteInv
  <2>3. \A i \in 1 .. Len(Limited(n)) : i \in 1 .. Len(lists[n]) /\ lists[n][i] \in CleanText
    BY <2>1, <2>2
  <2>4. Limited(n) \in Seq(CleanText)
    <3> DEFINE l == Limited(n)
    <3>1. l \in Seq(Text) /\ \A i \in 1 .. Len(l) : l[i] \in CleanText
      BY <2>2, <2>3
    <3> HIDE DEF l
    <3>2. Len(l) \in Int /\ 1 \in Int
      BY <3>1
    <3>3. SubSeq(l, 1, Len(l)) \in Seq(CleanText)
      BY <3>1, <3>2, SubSeqProperties
    <3>4. SubSeq(l, 1, Len(l)) = l
      BY <3>1, SubSeqFull
    <3> QED
      BY <3>3, <3>4 DEF l
  <2>5. Stored(config, n) = Limited(n)
    BY <1>5, <2>4, ReadKeepsClean
  <2>6. Distinct(Limited(n))
    BY <2>1, <2>2, <2>3 DEF Distinct
  <2> QED
    BY <2>5, <2>6
<1> QED
  BY <1>2, <1>3, <1>4, <1>5

LEMMA OrderInit == HistInit => OrderInv
<1> SUFFICES ASSUME HistInit, NEW n \in Validated
             PROVE  n \notin DOMAIN lists /\ before[n] = << >> /\ entered[n] = << >> /\ Distinct(before[n])
  BY DEF OrderInv
<1>1. n \in Names
  BY DEF Names
<1>2. DOMAIN lists = {} /\ before[n] = << >> /\ entered[n] = << >>
  BY <1>1 DEF HistInit
<1>3. Len(<< >>) = 0
  BY EmptySeq
<1> QED
  BY <1>2, <1>3 DEF Distinct

\* A list that is read or was read is clean, and ordered.
LEMMA ReadOrder ==
    ASSUME WriteInv, OrderInv, saving.phase = "using", NEW n \in Validated
    PROVE  Read(n) \in Seq(CleanText) /\ Distinct(Read(n)) /\ ByAge(Read(n), entered[n])
<1>1. n \in Names
  BY DEF Names
<1>2. CASE n \in DOMAIN lists
  BY <1>2 DEF OrderInv, Read, InMemory
<1>3. CASE n \notin DOMAIN lists
  <2>1. Read(n) = Stored(config, n) /\ entered[n] = << >>
    BY <1>3 DEF OrderInv, Read, InMemory
  <2>2. Stored(config, n) \in Seq(CleanText)
    BY <1>1, StoredType DEF WriteInv
  <2>3. Distinct(Stored(config, n))
    BY StoredDistinct
  <2>4. ByAge(Read(n), << >>)
    BY NothingEntered DEF ByAge
  <2> QED
    BY <2>1, <2>2, <2>3, <2>4
<1> QED
  BY <1>2, <1>3

LEMMA OrderStep == WriteInv /\ OrderInv /\ [HistNext]_histVars => OrderInv'
<1> SUFFICES ASSUME WriteInv, OrderInv, [HistNext]_histVars, NEW n \in Validated
             PROVE  /\ Distinct(before'[n])
                    /\ n \in DOMAIN lists' =>
                          /\ lists'[n] \in Seq(CleanText) /\ Distinct(lists'[n])
                          /\ ByAge(lists'[n], entered'[n])
                    /\ n \notin DOMAIN lists' => entered'[n] = << >>
  BY DEF OrderInv
<1> DEFINE Goal == /\ Distinct(before'[n])
                   /\ n \in DOMAIN lists' =>
                         /\ lists'[n] \in Seq(CleanText) /\ Distinct(lists'[n])
                         /\ ByAge(lists'[n], entered'[n])
                   /\ n \notin DOMAIN lists' => entered'[n] = << >>
<1>0. n \in Names /\ HistType
  BY DEF Names, WriteInv
<1>1. ASSUME before' = before, n \in DOMAIN lists' <=> n \in DOMAIN lists,
             n \in DOMAIN lists => lists'[n] = lists[n], entered'[n] = entered[n]
      PROVE  Goal
  BY <1>1 DEF OrderInv
<1>2. ASSUME NEW name \in Names, ReadList(name) PROVE Goal
  <2>1. /\ lists' = Put(name, Read(name)) /\ saving.phase = "using"
        /\ UNCHANGED <<config, saving, before, entered>>
    BY <1>2 DEF ReadList
  <2>2. /\ DOMAIN lists' = DOMAIN lists \cup {name}
        /\ lists'[name] = Read(name)
        /\ \A m \in DOMAIN lists \ {name} : lists'[m] = lists[m]
    BY <2>1, PutFacts
  <2>3. CASE name = n
    <3>1. Read(n) \in Seq(CleanText) /\ Distinct(Read(n)) /\ ByAge(Read(n), entered[n])
      BY <2>1, ReadOrder
    <3> QED
      BY <2>1, <2>2, <2>3, <3>1 DEF OrderInv
  <2>4. CASE name # n
    BY <1>1, <2>1, <2>2, <2>4
  <2> QED
    BY <2>3, <2>4
<1>3. ASSUME NEW name \in Names, NEW entry \in Text, AddEntryToList(name, entry),
             saving.phase = "using", UNCHANGED <<config, saving, before>>, name # n
      PROVE  Goal
  <2>1. /\ lists' = Put(name, ToFront(Read(name), entry))
        /\ \A m \in Names \ {name} : entered'[m] = entered[m]
    BY <1>0, <1>3, AddEntryFacts
  <2>2. /\ DOMAIN lists' = DOMAIN lists \cup {name}
        /\ \A m \in DOMAIN lists \ {name} : lists'[m] = lists[m]
    BY <2>1, PutFacts
  <2> QED
    BY <1>0, <1>1, <1>3, <2>1, <2>2
<1>4. ASSUME NEW name \in Validated, NEW t \in Entered, EnterValidated(name, t) PROVE Goal
  <2>1. /\ Trim(t) \in CleanText /\ Trim(t) \in Text /\ name \in Names
        /\ AddEntryToList(name, Trim(t)) /\ saving.phase = "using"
        /\ UNCHANGED <<config, saving, before>>
    BY <1>4, EnteredIsText, TrimIsClean DEF EnterValidated, Names
  <2>2. CASE name # n
    BY <1>3, <2>1, <2>2
  <2>3. CASE name = n
    <3> DEFINE e == Trim(t)
    <3>1. e \in CleanText /\ e \in Text
      BY <2>1
    <3>2. /\ lists' = Put(n, ToFront(Read(n), e))
          /\ entered'[n] = << e >> \o entered[n]
      BY <1>0, <2>1, <2>3, AddEntryFacts
    <3> HIDE DEF e
    <3>3. DOMAIN lists' = DOMAIN lists \cup {n} /\ lists'[n] = ToFront(Read(n), e)
      BY <3>2, PutFacts
    <3>4. Read(n) \in Seq(CleanText) /\ Distinct(Read(n)) /\ ByAge(Read(n), entered[n])
      BY <2>1, ReadOrder
    <3>5. entered[n] \in Seq(Text)
      BY <1>0 DEF HistType
    <3>6. /\ ToFront(Read(n), e) \in Seq(CleanText)
          /\ Distinct(ToFront(Read(n), e))
          /\ ByAge(ToFront(Read(n), e), << e >> \o entered[n])
      BY <3>1, <3>4, <3>5, ToFrontOrder
    <3>7. Distinct(before'[n])
      BY <2>1 DEF OrderInv
    <3> QED
      BY <3>2, <3>3, <3>6, <3>7
  <2> QED
    BY <2>2, <2>3
<1>5. ASSUME NEW name \in Direct, NEW t \in Entered, EnterDirect(name, t) PROVE Goal
  <2>1. name \in Names /\ name # n
    BY HistoryAssumption DEF Names
  <2>2. /\ t \in Text /\ AddEntryToList(name, t) /\ saving.phase = "using"
        /\ UNCHANGED <<config, saving, before>>
    BY <1>5, EnteredIsText DEF EnterDirect
  <2> QED
    BY <1>3, <2>1, <2>2
<1>6. CASE BeginCleanup \/ WriteStep \/ FinishCleanup
  <2>1. UNCHANGED <<lists, before, entered>>
    BY <1>6 DEF BeginCleanup, WriteStep, FinishCleanup
  <2> QED
    BY <1>1, <2>1
<1>7. CASE Restart \/ Crash
  <2>1. DOMAIN lists' = {} /\ before'[n] = Stored(config, n) /\ entered'[n] = << >>
    BY <1>0, <1>7 DEF Restart, Crash, NewSession
  <2> QED
    BY <2>1, StoredDistinct
<1>8. CASE UNCHANGED histVars
  BY <1>1, <1>8 DEF histVars
<1> QED
  BY <1>2, <1>4, <1>5, <1>6, <1>7, <1>8 DEF HistNext

\* hist_mgr.hpp: "The first entry in the list will be the most recent entered
\* string", with nothing there twice, through any number of sessions.
THEOREM MostRecentFirst == HistSpec => []NewestFirst
<1>1. WriteInv /\ OrderInv => NewestFirst
  <2> SUFFICES ASSUME WriteInv, OrderInv, NEW n \in Validated \cap DOMAIN lists,
                      NEW i \in DOMAIN lists[n], NEW j \in DOMAIN lists[n], i < j
               PROVE  /\ lists[n][i] # lists[n][j]
                      /\ Age(n, lists[n][i]) <= Age(n, lists[n][j])
    BY DEF NewestFirst
  <2>1. lists[n] \in Seq(CleanText) /\ Distinct(lists[n]) /\ ByAge(lists[n], entered[n])
    BY DEF OrderInv
  <2>2. DOMAIN lists[n] = 1 .. Len(lists[n])
    BY <2>1
  <2>3. \A t : Age(n, t) = AgeIn(entered[n], t)
    BY DEF Age, AgeIn
  <2> QED
    BY <2>1, <2>2, <2>3 DEF Distinct, ByAge
<1> QED
  BY <1>1, WriteInvInit, WriteInvStep, OrderInit, OrderStep, PTL DEF HistSpec

-----------------------------------------------------------------------------
(* Dragging and dropping: paths                                            *)

\* Drops and what becomes of them, for any paths.
DropSpec == DropInit /\ [][DropNext]_dropVars

\* What a prefix is, component by component.
LEMMA PrefixIs ==
    ASSUME NEW S, NEW s \in Seq(S), NEW t \in Seq(S)
    PROVE  IsPrefix(s, t) <=> Len(s) <= Len(t) /\ \A i \in 1 .. Len(s) : s[i] = t[i]
<1> DEFINE n == Len(s)
           a == SubSeq(s, 1, n)
           b == SubSeq(t, 1, n)
<1>1. n \in Nat /\ Len(t) \in Nat /\ \A i \in 1 .. n : s[i] \in S
  OBVIOUS
<1>2. CASE n <= Len(t)
  <2>1. \A i \in 1 .. n : t[i] \in S
    BY <1>1, <1>2
  <2> HIDE DEF n
  <2>2. /\ a \in Seq(S) /\ Len(a) = IF 1 <= n THEN n - 1 + 1 ELSE 0
        /\ \A i \in 1 .. n - 1 + 1 : a[i] = s[1 + i - 1]
    BY <1>1, SubSeqProperties
  <2>3. /\ b \in Seq(S) /\ Len(b) = IF 1 <= n THEN n - 1 + 1 ELSE 0
        /\ \A i \in 1 .. n - 1 + 1 : b[i] = t[1 + i - 1]
    BY <1>1, <2>1, SubSeqProperties
  <2>4. /\ n - 1 + 1 = n /\ (~(1 <= n) => n = 0)
        /\ \A i \in 1 .. n : 1 + i - 1 = i
    BY <1>1
  <2>5. /\ a \in Seq(S) /\ b \in Seq(S) /\ Len(a) = n /\ Len(b) = n
        /\ \A i \in 1 .. n : a[i] = s[i] /\ b[i] = t[i]
    BY <2>2, <2>3, <2>4
  <2> HIDE DEF a, b
  <2>6. a = b <=> \A i \in 1 .. n : s[i] = t[i]
    BY <2>5
  <2> QED
    BY <1>2, <2>6 DEF IsPrefix, a, b, n
<1>3. CASE ~(n <= Len(t))
  BY <1>3 DEF IsPrefix
<1> QED
  BY <1>2, <1>3

\* The beginning of a path.
LEMMA BeginningIs ==
    ASSUME NEW S, NEW s \in Seq(S), NEW n \in 0 .. Len(s)
    PROVE  /\ SubSeq(s, 1, n) \in Seq(S) /\ Len(SubSeq(s, 1, n)) = n
           /\ \A i \in 1 .. n : SubSeq(s, 1, n)[i] = s[i]
           /\ IsPrefix(SubSeq(s, 1, n), s)
<1> DEFINE a == SubSeq(s, 1, n)
<1>1. n \in Nat /\ Len(s) \in Nat /\ n <= Len(s) /\ \A i \in 1 .. n : s[i] \in S
  OBVIOUS
<1>2. /\ a \in Seq(S) /\ Len(a) = IF 1 <= n THEN n - 1 + 1 ELSE 0
      /\ \A i \in 1 .. n - 1 + 1 : a[i] = s[1 + i - 1]
  BY <1>1, SubSeqProperties
<1>3. /\ n - 1 + 1 = n /\ (~(1 <= n) => n = 0)
      /\ \A i \in 1 .. n : 1 + i - 1 = i
  BY <1>1
<1>4. a \in Seq(S) /\ Len(a) = n /\ \A i \in 1 .. n : a[i] = s[i]
  BY <1>2, <1>3
<1> HIDE DEF a
<1>5. IsPrefix(a, s)
  BY <1>1, <1>4, PrefixIs
<1> QED
  BY <1>4, <1>5 DEF a

LEMMA DirpathIs ==
    ASSUME NEW S, NEW s \in Seq(S), Len(s) > 1
    PROVE  /\ Dirpath(s) \in Seq(S) /\ Len(Dirpath(s)) = Len(s) - 1 /\ Len(s) \in Nat
           /\ \A i \in 1 .. Len(s) - 1 : Dirpath(s)[i] = s[i]
           /\ IsPrefix(Dirpath(s), s)
<1> DEFINE n == Len(s) - 1
<1>1. n \in 0 .. Len(s) /\ Len(s) \in Nat
  OBVIOUS
<1>2. Dirpath(s) = SubSeq(s, 1, n)
  BY DEF Dirpath, Front
<1> HIDE DEF n
<1>3. /\ SubSeq(s, 1, n) \in Seq(S) /\ Len(SubSeq(s, 1, n)) = n
      /\ \A i \in 1 .. n : SubSeq(s, 1, n)[i] = s[i]
      /\ IsPrefix(SubSeq(s, 1, n), s)
  BY <1>1, BeginningIs
<1> QED
  BY <1>1, <1>2, <1>3 DEF n

\* The base is the longest path on which both lie.
Base(b, p, q) ==
    /\ IsPrefix(b, p) /\ IsPrefix(b, q)
    /\ \A i \in 0 .. Len(p) : IsPrefix(SubSeq(p, 1, i), q) => i <= Len(b)

\* What two paths have in common.
LEMMA CommonPrefixFacts ==
    ASSUME NEW S, NEW p \in Seq(S), NEW q \in Seq(S)
    PROVE  /\ LongestCommonPrefix({p, q}) \in Seq(S)
           /\ Base(LongestCommonPrefix({p, q}), p, q)
<1> DEFINE C == CommonPrefixes({p, q})
           common == {i \in 0 .. Len(p) : IsPrefix(SubSeq(p, 1, i), q)}
<1>1. Len(p) \in Nat /\ Len(q) \in Nat
  OBVIOUS
<1>2. \A x : x \in C <=> /\ IsPrefix(x, p) /\ IsPrefix(x, q)
                         /\ \/ \E i \in 0 .. Len(p) : x = SubSeq(p, 1, i)
                            \/ \E i \in 0 .. Len(q) : x = SubSeq(q, 1, i)
  BY DEF CommonPrefixes, Prefixes
<1>3. \A x \in C : x \in Seq(S)
  BY <1>2, BeginningIs
<1>4. \A i \in common : SubSeq(p, 1, i) \in C /\ Len(SubSeq(p, 1, i)) = i
  BY <1>2, BeginningIs
<1>5. ASSUME NEW x \in C PROVE Len(x) \in common
  <2>1. x \in Seq(S) /\ IsPrefix(x, p) /\ IsPrefix(x, q)
    BY <1>2, <1>3
  <2> DEFINE n == Len(x)
             y == SubSeq(p, 1, n)
  <2>2. n \in 0 .. Len(p) /\ \A i \in 1 .. n : x[i] = p[i]
    BY <1>1, <2>1, PrefixIs
  <2>3. y \in Seq(S) /\ Len(y) = n /\ \A i \in 1 .. n : y[i] = p[i]
    <3> HIDE DEF n
    <3> QED
      BY <2>2, BeginningIs
  <2> HIDE DEF y
  <2>4. x = y
    BY <2>1, <2>2, <2>3
  <2> QED
    BY <2>1, <2>2, <2>4 DEF y
<1>6. PICK n \in common : \A i \in common : i <= n
  <2> DEFINE gaps == {Len(p) - i : i \in common}
  <2>1. SubSeq(p, 1, 0) \in Seq(S) /\ Len(SubSeq(p, 1, 0)) = 0
    <3>1. 0 \in 0 .. Len(p)
      BY <1>1
    <3> QED
      BY <3>1, BeginningIs
  <2>2. IsPrefix(SubSeq(p, 1, 0), q)
    <3> DEFINE e == SubSeq(p, 1, 0)
    <3>1. 0 <= Len(q) /\ e \in Seq(S) /\ Len(e) = 0
      BY <1>1, <2>1
    <3> HIDE DEF e
    <3>2. \A i \in 1 .. Len(e) : e[i] = q[i]
      BY <3>1
    <3>3. IsPrefix(e, q)
      BY <3>1, <3>2, PrefixIs
    <3> QED
      BY <3>3 DEF e
  <2>3. 0 \in common
    BY <1>1, <2>2
  <2>4. gaps \in SUBSET Nat /\ gaps # {}
    BY <1>1, <2>3
  <2> HIDE DEF common
  <2>5. PICK g \in gaps : \A x \in gaps : g <= x
    <3> HIDE DEF gaps
    <3> QED
      BY <2>4, Smallest
  <2>6. PICK n \in common : g = Len(p) - n
    OBVIOUS
  <2>7. ASSUME NEW i \in common PROVE i <= n
    <3>1. Len(p) - n <= Len(p) - i
      BY <2>5, <2>6
    <3> QED
      BY <1>1, <3>1 DEF common
  <2> QED
    BY <2>7
<1> DEFINE longest == SubSeq(p, 1, n)
<1>7. longest \in C /\ \A x \in C : Len(x) <= Len(longest)
  BY <1>4, <1>5, <1>6
<1> DEFINE shared == LongestCommonPrefix({p, q})
<1>8. shared = CHOOSE x \in C : \A y \in C : Len(y) <= Len(x)
  BY DEF LongestCommonPrefix
<1> HIDE DEF C, longest, shared
<1>9. shared \in C /\ \A y \in C : Len(y) <= Len(shared)
  BY <1>7, <1>8
<1>10. \A i \in common : i <= Len(shared)
  BY <1>4, <1>9
<1> QED
  BY <1>2, <1>3, <1>9, <1>10 DEF Base, shared

\* A path that begins another is a beginning of it.
LEMMA PrefixIsBeginning ==
    ASSUME NEW S, NEW s \in Seq(S), NEW t \in Seq(S), IsPrefix(s, t)
    PROVE  /\ Len(s) \in 0 .. Len(t) /\ Len(s) \in Nat /\ Len(t) \in Nat
           /\ s = SubSeq(t, 1, Len(s))
<1> DEFINE n == Len(s)
           y == SubSeq(t, 1, n)
<1>1. n \in 0 .. Len(t) /\ n \in Nat /\ Len(t) \in Nat /\ \A i \in 1 .. n : s[i] = t[i]
  BY PrefixIs
<1>2. y \in Seq(S) /\ Len(y) = n /\ \A i \in 1 .. n : y[i] = t[i]
  <2> HIDE DEF n
  <2> QED
    BY <1>1, BeginningIs
<1> HIDE DEF y
<1>3. s = y
  BY <1>1, <1>2
<1> QED
  BY <1>1, <1>3 DEF y

\* The base path of a drop leads to the folder the file is dragged from, along
\* all that this folder and the destination share and at most one name further.
LEMMA BasePathIs ==
    ASSUME NEW S, NEW src \in Seq(S), NEW dest \in Seq(S), Len(src) > 1
    PROVE  /\ Shared(src, dest) \in Seq(S) /\ Base(Shared(src, dest), Dirpath(src), dest)
           /\ Shared(src, dest) = SubSeq(Dirpath(src), 1, Len(Shared(src, dest)))
           /\ BasePath(src, dest) \in Seq(S)
           /\ BasePath(src, dest) = SubSeq(Dirpath(src), 1, Len(BasePath(src, dest)))
           /\ Len(Shared(src, dest)) \in Nat /\ Len(BasePath(src, dest)) \in 0 .. Len(Dirpath(src))
           /\ Len(BasePath(src, dest)) =
                 Len(Shared(src, dest)) + (IF SlashDiffers(src, dest) THEN 1 ELSE 0)
<1> DEFINE D == Dirpath(src)
           c == Shared(src, dest)
           n == Len(c) + (IF SlashDiffers(src, dest) THEN 1 ELSE 0)
           b == SubSeq(src, 1, n)
           d == SubSeq(D, 1, n)
<1>1. /\ D \in Seq(S) /\ Len(D) = Len(src) - 1 /\ Len(src) \in Nat
      /\ \A i \in 1 .. Len(src) - 1 : D[i] = src[i]
  BY DirpathIs
<1>2. c \in Seq(S) /\ Base(c, D, dest)
  BY <1>1, CommonPrefixFacts DEF Shared
<1>3. SlashDiffers(src, dest) => Len(c) + 1 < Len(src)
  BY DEF SlashDiffers
<1>4. BasePath(src, dest) = b
  BY DEF BasePath
<1> HIDE DEF D, c
<1>5. IsPrefix(c, D)
  BY <1>2 DEF Base
<1>6. Len(c) \in Nat /\ Len(c) \in 0 .. Len(D) /\ c = SubSeq(D, 1, Len(c))
  BY <1>1, <1>2, <1>5, PrefixIsBeginning
<1>7. n \in 0 .. Len(D) /\ n \in 0 .. Len(src)
  BY <1>1, <1>3, <1>6
<1>8. n = Len(c) + (IF SlashDiffers(src, dest) THEN 1 ELSE 0)
  OBVIOUS
<1> HIDE DEF n
<1>9. /\ b \in Seq(S) /\ Len(b) = n /\ (\A i \in 1 .. n : b[i] = src[i])
      /\ d \in Seq(S) /\ Len(d) = n /\ (\A i \in 1 .. n : d[i] = D[i])
  BY <1>1, <1>7, BeginningIs
<1> HIDE DEF b, d
<1>10. \A i \in 1 .. n : D[i] = src[i]
  BY <1>1, <1>7
<1>11. b = d
  BY <1>9, <1>10
<1> QED
  BY <1>2, <1>4, <1>6, <1>7, <1>8, <1>9, <1>11 DEF D, c, d

-----------------------------------------------------------------------------
(* Files and folders of drops                                              *)

PathNames == UNION {Range(p) : p \in Repositories \cup WorkingCopies \cup Versioned
                                  \cup Destinations \cup Dragged}

\* All paths are made of the same names.
LEMMA PathsAreNames ==
    \A p \in Repositories \cup WorkingCopies \cup Versioned \cup Destinations \cup Dragged :
       p \in Seq(PathNames)
<1> DEFINE A == Repositories \cup WorkingCopies \cup Versioned \cup Destinations \cup Dragged
<1> SUFFICES ASSUME NEW p \in A PROVE p \in Seq(PathNames)
  OBVIOUS
<1>1. p \in Seq(Range(p))
  BY DropAssumption
<1>2. Range(p) \subseteq PathNames
  BY DEF PathNames
<1> HIDE DEF A
<1> DEFINE R == Range(p)
<1> HIDE DEF R
<1>3. p \in Seq(R) /\ R \subseteq PathNames
  BY <1>1, <1>2 DEF R
<1> QED
  BY <1>3

\* What a drop may be.
LEMMA DropIs ==
    /\ \A files \in Drops : /\ files \in Seq(Dragged) /\ files # << >>
                             /\ Range(files) \subseteq Dragged
    /\ \A p \in Destinations \cup Dragged : p \in Seq(PathNames) /\ Len(p) > 1 /\ Len(p) \in Nat
    /\ \A r \in Repositories \cup WorkingCopies \cup Versioned : r \in Seq(PathNames)
<1>1. ASSUME NEW files \in Drops
      PROVE  files \in Seq(Dragged) /\ files # << >> /\ Range(files) \subseteq Dragged
  <2> DEFINE R == Range(files)
  <2>1. files \in Seq(R) /\ files # << >>
    BY DropAssumption
  <2>2. R \subseteq Dragged
    BY DEF Dragged
  <2> HIDE DEF R
  <2>3. files \in Seq(Dragged)
    BY <2>1, <2>2
  <2> QED
    BY <2>1, <2>2, <2>3 DEF R
<1>2. ASSUME NEW p \in Destinations \cup Dragged
      PROVE  p \in Seq(PathNames) /\ Len(p) > 1 /\ Len(p) \in Nat
  <2>1. p \in Seq(PathNames)
    BY PathsAreNames
  <2>2. Len(p) > 1
    BY DropAssumption
  <2> QED
    BY <2>1, <2>2
<1> QED
  BY <1>1, <1>2, PathsAreNames

\* A folder or file that is asked for is never the empty path.
LEMMA CheckWcIs ==
    ASSUME NEW p \in Seq(PathNames), p # << >>
    PROVE  CheckWc(p) <=> p \in Versioned
  BY DEF CheckWc

\* The first component of a path is that of its folder.
LEMMA FolderOfFile ==
    ASSUME NEW p \in Destinations \cup Dragged
    PROVE  /\ Dirpath(p) \in Seq(PathNames) /\ Dirpath(p) # << >> /\ Dirpath(p)[1] = p[1]
           /\ Len(Dirpath(p)) \in Nat /\ Len(Dirpath(p)) >= 1
           /\ CheckWc(p) <=> p \in Versioned
           /\ CheckWc(Dirpath(p)) <=> Dirpath(p) \in Versioned
<1>1. p \in Seq(PathNames) /\ Len(p) > 1 /\ Len(p) \in Nat
  BY DropIs
<1> DEFINE D == Dirpath(p)
<1>2. /\ D \in Seq(PathNames) /\ Len(D) = Len(p) - 1
      /\ \A i \in 1 .. Len(p) - 1 : D[i] = p[i]
  BY <1>1, DirpathIs
<1> HIDE DEF D
<1>3. D[1] = p[1] /\ D # << >> /\ p # << >> /\ Len(D) \in Nat /\ Len(D) >= 1
  BY <1>1, <1>2
<1> QED
  BY <1>1, <1>2, <1>3, CheckWcIs DEF D

\* What Prepare would do with one file alone.
Alone(f, dest) ==
    IF Dirpath(f) = dest \/ f = dest THEN "nothing"
    ELSE IF IsUrl(dest)
    THEN IF IsUrl(f) THEN IF IsInSameTree(f, dest) THEN "copy or move" ELSE "nothing"
         ELSE IF CheckWc(f) THEN "nothing" ELSE "import"
    ELSE IF IsUrl(f) THEN "nothing"
    ELSE IF CheckWc(Dirpath(f)) /\ IsInSameTree(f, dest) THEN "copy or move"
    ELSE IF CheckWc(f) THEN "nothing" ELSE "add"

\* Whether two URLs share a component tells whether they are of one repository.
LEMMA SameRepository ==
    ASSUME NEW f \in Dragged, NEW dest \in Destinations, IsUrl(f), IsUrl(dest),
           ~Indistinct(f, dest), ~TakenForTheSame(f, dest)
    PROVE  BasePath(f, dest) # << >> <=> RepositoryOf(f) = RepositoryOf(dest)
<1> DEFINE b == BasePath(f, dest)
           c == Shared(f, dest)
           D == Dirpath(f)
<1>1. f \in Seq(PathNames) /\ Len(f) > 1 /\ Len(f) \in Nat
  BY DropIs
<1>2. dest \in Seq(PathNames) /\ Len(dest) > 1 /\ Len(dest) \in Nat
  BY DropIs
<1>3. /\ c \in Seq(PathNames) /\ Base(c, D, dest) /\ Len(c) \in Nat
      /\ b \in Seq(PathNames) /\ Len(b) = Len(c) + (IF SlashDiffers(f, dest) THEN 1 ELSE 0)
  BY <1>1, <1>2, BasePathIs
<1>4. D \in Seq(PathNames) /\ D[1] = f[1] /\ Len(D) \in Nat /\ Len(D) >= 1
  BY FolderOfFile
<1>5. f[1] = dest[1] => RepositoryOf(f) = RepositoryOf(dest)
  BY DEF Indistinct
<1>8. Len(b) = 1 => ~SlashDiffers(f, dest)
  BY DEF TakenForTheSame
<1> HIDE DEF b, c, D
<1>6. CASE f[1] = dest[1]
  <2> DEFINE x == SubSeq(D, 1, 1)
  <2>1. 1 \in 0 .. Len(D)
    BY <1>4
  <2>2. x \in Seq(PathNames) /\ Len(x) = 1 /\ \A i \in 1 .. 1 : x[i] = D[i]
    BY <1>4, <2>1, BeginningIs
  <2> HIDE DEF x
  <2>3. Len(x) <= Len(dest) /\ \A i \in 1 .. Len(x) : x[i] = dest[i]
    BY <1>2, <1>4, <1>6, <2>2
  <2>4. IsPrefix(x, dest)
    BY <1>2, <2>2, <2>3, PrefixIs
  <2>5. 1 <= Len(c)
    BY <1>3, <2>1, <2>4 DEF Base, x
  <2>6. b # << >>
    BY <1>3, <2>5
  <2> QED
    BY <1>5, <1>6, <2>6 DEF b
<1>7. CASE f[1] # dest[1]
  <2>1. b = << >>
    <3>1. Len(c) = 0
      <4> SUFFICES ASSUME Len(c) # 0 PROVE FALSE
        OBVIOUS
      <4>1. 1 <= Len(c)
        BY <1>3
      <4>2. \A i \in 1 .. Len(c) : c[i] = D[i] /\ c[i] = dest[i]
        BY <1>2, <1>3, <1>4, PrefixIs DEF Base
      <4> QED
        BY <1>3, <1>4, <1>7, <4>1, <4>2
    <3>2. Len(b) = 0
      BY <1>3, <1>8, <3>1
    <3> QED
      BY <1>3, <3>2
  <2>2. PICK r \in Repositories : IsPrefix(r, f)
    BY DropAssumption DEF IsUrl
  <2>3. r \in Seq(PathNames) /\ r # << >>
    BY DropIs, DropAssumption
  <2>4. Len(r) \in Nat /\ 1 <= Len(r)
    BY <2>3
  <2>5. \A i \in 1 .. Len(r) : r[i] = f[i]
    BY <1>1, <2>2, <2>3, PrefixIs
  <2>6. ~IsPrefix(r, dest)
    <3> SUFFICES ASSUME IsPrefix(r, dest) PROVE FALSE
      OBVIOUS
    <3>1. \A i \in 1 .. Len(r) : r[i] = dest[i]
      BY <1>2, <2>3, PrefixIs
    <3> QED
      BY <1>7, <2>4, <2>5, <3>1
  <2>7. r \in RepositoryOf(f) /\ r \notin RepositoryOf(dest)
    BY <2>2, <2>6 DEF RepositoryOf
  <2> QED
    BY <2>1, <2>7 DEF b
<1> QED
  BY <1>6, <1>7

\* Whether the base is versioned tells whether they are of one working copy.
LEMMA SameWorkingCopy ==
    ASSUME NEW f \in Dragged, NEW dest \in Destinations, ~IsUrl(f), ~IsUrl(dest),
           Dirpath(f) \in Versioned, ~Indistinct(f, dest), ~TakenForTheSame(f, dest)
    PROVE  CheckWc(BasePath(f, dest)) <=> WorkingCopyOf(f) = WorkingCopyOf(dest)
<1> DEFINE b == BasePath(f, dest)
           c == Shared(f, dest)
           D == Dirpath(f)
<1>1. f \in Seq(PathNames) /\ Len(f) > 1 /\ Len(f) \in Nat
  BY DropIs
<1>2. dest \in Seq(PathNames) /\ Len(dest) > 1 /\ Len(dest) \in Nat
  BY DropIs
<1>3. /\ c \in Seq(PathNames) /\ Base(c, D, dest) /\ Len(c) \in Nat
      /\ c = SubSeq(D, 1, Len(c))
      /\ b \in Seq(PathNames) /\ b = SubSeq(D, 1, Len(b)) /\ Len(b) \in 0 .. Len(D)
      /\ Len(b) = Len(c) + (IF SlashDiffers(f, dest) THEN 1 ELSE 0)
  BY <1>1, <1>2, BasePathIs
<1>4. /\ D \in Seq(PathNames) /\ Len(D) = Len(f) - 1 /\ D \in Versioned
      /\ \A i \in 1 .. Len(f) - 1 : D[i] = f[i]
  BY <1>1, DirpathIs
<1>5. /\ b # << >> /\ (c \in Versioned => WorkingCopyOf(f) = WorkingCopyOf(dest))
      /\ SlashDiffers(f, dest) => b \notin WorkingCopies
  BY DEF Indistinct, TakenForTheSame
<1>6. CheckWc(b) <=> b \in Versioned
  BY <1>3, <1>5, CheckWcIs
<1> HIDE DEF b, c, D
<1>8. ASSUME b \in Versioned PROVE WorkingCopyOf(f) = WorkingCopyOf(dest)
  <2>1. CASE ~SlashDiffers(f, dest)
    BY <1>3, <1>5, <1>8, <2>1
  <2>2. CASE SlashDiffers(f, dest)
    <3>1. PICK w \in WorkingCopies :
              IsPrefix(w, b) /\ \A n \in Len(w) .. Len(b) : SubSeq(b, 1, n) \in Versioned
      BY <1>8, DropAssumption
    <3>2. w \in Seq(PathNames) /\ w # b
      BY <1>5, <2>2, <3>1, DropIs
    <3>3. Len(w) \in 0 .. Len(b) /\ Len(w) \in Nat /\ w = SubSeq(b, 1, Len(w))
      BY <1>3, <3>1, <3>2, PrefixIsBeginning
    <3> DEFINE m == Len(b)
               k == Len(c)
               x == SubSeq(b, 1, k)
    <3>4. m = k + 1 /\ k \in Nat /\ k \in 0 .. m /\ k \in 0 .. Len(D) /\ m \in 0 .. Len(D)
      BY <1>3, <1>4, <2>2
    <3> HIDE DEF m, k
    <3>5. /\ b \in Seq(PathNames) /\ \A i \in 1 .. m : b[i] = D[i]
      BY <1>3, <1>4, <3>4, BeginningIs DEF m
    <3>6. x \in Seq(PathNames) /\ Len(x) = k /\ \A i \in 1 .. k : x[i] = b[i]
      BY <3>4, <3>5, BeginningIs DEF m
    <3>7. c \in Seq(PathNames) /\ Len(c) = k /\ \A i \in 1 .. k : c[i] = D[i]
      BY <1>3, <1>4, <3>4, BeginningIs DEF k
    <3> HIDE DEF x
    <3>8. x = c
      BY <3>4, <3>5, <3>6, <3>7
    <3>9. Len(w) # m
      <4> SUFFICES ASSUME Len(w) = m PROVE FALSE
        OBVIOUS
      <4>1. w = SubSeq(b, 1, m)
        BY <3>3
      <4>2. SubSeq(b, 1, m) \in Seq(PathNames) /\ Len(SubSeq(b, 1, m)) = m
            /\ \A i \in 1 .. m : SubSeq(b, 1, m)[i] = b[i]
        <5>1. m \in 0 .. Len(b)
          BY <3>4 DEF m
        <5> QED
          BY <3>5, <5>1, BeginningIs
      <4>3. w = b
        BY <3>2, <3>5, <4>1, <4>2 DEF m
      <4> QED
        BY <3>2, <4>3
    <3>10. k \in Len(w) .. m
      <4>1. Len(w) \in 0 .. m /\ Len(w) \in Nat
        BY <3>3 DEF m
      <4> QED
        BY <3>4, <3>9, <4>1
    <3>11. x \in Versioned
      BY <3>1, <3>10 DEF x, m
    <3> QED
      BY <1>5, <3>8, <3>11
  <2> QED
    BY <2>1, <2>2
<1>7. ASSUME WorkingCopyOf(f) = WorkingCopyOf(dest) PROVE b \in Versioned
  <2>1. PICK w \in WorkingCopies :
            IsPrefix(w, D) /\ \A n \in Len(w) .. Len(D) : SubSeq(D, 1, n) \in Versioned
    BY <1>4, DropAssumption
  <2>2. w \in Seq(PathNames)
    BY DropIs
  <2>3. /\ Len(w) \in 0 .. Len(D) /\ Len(w) \in Nat /\ Len(D) \in Nat /\ w = SubSeq(D, 1, Len(w))
        /\ \A i \in 1 .. Len(w) : w[i] = D[i]
    BY <1>4, <2>1, <2>2, PrefixIsBeginning, PrefixIs
  <2>4. Len(w) <= Len(f) /\ \A i \in 1 .. Len(w) : w[i] = f[i]
    BY <1>1, <1>4, <2>3
  <2>5. IsPrefix(w, f)
    BY <1>1, <2>2, <2>4, PrefixIs
  <2>6. IsPrefix(w, dest)
    <3>1. w \in WorkingCopyOf(f)
      BY <2>5 DEF WorkingCopyOf
    <3>2. w \in WorkingCopyOf(dest)
      BY <1>7, <3>1
    <3> QED
      BY <3>2 DEF WorkingCopyOf
  <2>7. IsPrefix(SubSeq(D, 1, Len(w)), dest)
    BY <2>3, <2>6
  <2> DEFINE k == Len(w)
             n == Len(b)
  <2>8. k <= n
    <3>1. \A i \in 0 .. Len(D) : IsPrefix(SubSeq(D, 1, i), dest) => i <= Len(c)
      BY <1>3 DEF Base
    <3>3. Len(c) <= n /\ Len(c) \in Nat /\ n \in Nat
      BY <1>3, <1>4
    <3>2. k \in 0 .. Len(D) /\ IsPrefix(SubSeq(D, 1, k), dest)
      BY <2>3, <2>7
    <3>4. k \in Nat
      BY <2>3
    <3> HIDE DEF k, n
    <3>5. k <= Len(c)
      BY <3>1, <3>2
    <3> QED
      BY <3>3, <3>4, <3>5
  <2>9. n \in 0 .. Len(D) /\ n \in Nat /\ b = SubSeq(D, 1, n)
    BY <1>3, <1>4
  <2>10. n \in k .. Len(D)
    <3>1. k \in Nat /\ Len(D) \in Nat
      BY <2>3
    <3> HIDE DEF k, n
    <3> QED
      BY <2>8, <2>9, <3>1
  <2>11. SubSeq(D, 1, n) \in Versioned
    <3>1. \A m \in k .. Len(D) : SubSeq(D, 1, m) \in Versioned
      BY <2>1
    <3> HIDE DEF k, n
    <3> QED
      BY <2>10, <3>1
  <2> QED
    BY <2>9, <2>11
<1> QED
  BY <1>6, <1>7, <1>8 DEF b

\* Alone, a file is treated as the table says.
LEMMA AloneAsTable ==
    ASSUME NEW f \in Dragged, NEW dest \in Destinations,
           ~Indistinct(f, dest), ~TakenForTheSame(f, dest)
    PROVE  Alone(f, dest) = Pattern(f, dest)
<1>1. CheckWc(f) <=> f \in Versioned
  BY FolderOfFile
<1>2. CheckWc(Dirpath(f)) <=> Dirpath(f) \in Versioned
  BY FolderOfFile
<1>3. CASE Dirpath(f) = dest \/ f = dest
  <2>1. Alone(f, dest) = "nothing"
    BY <1>3 DEF Alone
  <2>2. Pattern(f, dest) = "nothing"
    BY <1>3 DEF Pattern
  <2> QED
    BY <2>1, <2>2
<1>4. CASE ~(Dirpath(f) = dest \/ f = dest)
  <2>1. CASE IsUrl(f) /\ IsUrl(dest)
    <3>1. BasePath(f, dest) # << >> <=> RepositoryOf(f) = RepositoryOf(dest)
      BY <2>1, SameRepository
    <3> QED
      BY <1>4, <2>1, <3>1 DEF Alone, Pattern, IsInSameTree
  <2>2. CASE ~IsUrl(f) /\ IsUrl(dest)
    BY <1>1, <1>4, <2>2 DEF Alone, Pattern
  <2>3. CASE IsUrl(f) /\ ~IsUrl(dest)
    BY <1>4, <2>3 DEF Alone, Pattern
  <2>4. CASE ~IsUrl(f) /\ ~IsUrl(dest)
    <3>1. CASE Dirpath(f) \in Versioned
      <4>1. CheckWc(BasePath(f, dest)) <=> WorkingCopyOf(f) = WorkingCopyOf(dest)
        BY <2>4, <3>1, SameWorkingCopy
      <4> QED
        BY <1>1, <1>2, <1>4, <2>4, <3>1, <4>1 DEF Alone, Pattern, IsInSameTree, IsWcEntry
    <3>2. CASE Dirpath(f) \notin Versioned
      BY <1>1, <1>2, <1>4, <2>4, <3>2 DEF Alone, Pattern, IsWcEntry
    <3> QED
      BY <3>1, <3>2
  <2> QED
    BY <2>1, <2>2, <2>3, <2>4
<1> QED
  BY <1>3, <1>4

\* Files of one folder are all URLs or none, and have the same base.
LEMMA OneFolder ==
    ASSUME NEW f \in Dragged, NEW g \in Dragged, NEW dest \in Destinations,
           Dirpath(f) = Dirpath(g)
    PROVE  /\ IsUrl(f) <=> IsUrl(g)
           /\ BasePath(f, dest) = BasePath(g, dest)
           /\ IsInSameTree(f, dest) <=> IsInSameTree(g, dest)
<1>1. f[1] = g[1]
  BY FolderOfFile
<1>2. IsUrl(f) <=> IsUrl(g)
  BY <1>1 DEF IsUrl
<1>3. /\ f \in Seq(PathNames) /\ Len(f) > 1
      /\ g \in Seq(PathNames) /\ Len(g) > 1
      /\ dest \in Seq(PathNames)
  BY DropIs
<1> DEFINE D == Dirpath(f)
           c == Shared(f, dest)
           n == Len(c) + 1
<1>4. Shared(g, dest) = c
  BY DEF Shared
<1>5. /\ Len(c) \in Nat
      /\ BasePath(f, dest) = SubSeq(D, 1, Len(BasePath(f, dest)))
      /\ Len(BasePath(f, dest)) = Len(c) + (IF SlashDiffers(f, dest) THEN 1 ELSE 0)
      /\ BasePath(g, dest) = SubSeq(D, 1, Len(BasePath(g, dest)))
      /\ Len(BasePath(g, dest)) = Len(c) + (IF SlashDiffers(g, dest) THEN 1 ELSE 0)
  BY <1>3, <1>4, BasePathIs
<1>6. /\ Len(D) = Len(f) - 1 /\ Len(D) = Len(g) - 1 /\ Len(f) \in Nat /\ Len(g) \in Nat
      /\ \A i \in 1 .. Len(f) - 1 : D[i] = f[i]
      /\ \A i \in 1 .. Len(g) - 1 : D[i] = g[i]
  BY <1>3, DirpathIs
<1>7. Len(f) = Len(g) /\ (n < Len(f) => f[n] = g[n])
  <2>1. Len(f) = Len(g)
    BY <1>6
  <2> HIDE DEF D, c
  <2>2. ASSUME n < Len(f) PROVE f[n] = g[n]
    <3>1. n \in 1 .. Len(f) - 1 /\ n \in 1 .. Len(g) - 1
      BY <1>5, <1>6, <2>1, <2>2
    <3> HIDE DEF n
    <3> QED
      BY <1>6, <3>1
  <2> QED
    BY <2>1, <2>2
<1>8. SlashDiffers(f, dest) <=> SlashDiffers(g, dest)
  BY <1>4, <1>7 DEF SlashDiffers
<1>9. BasePath(f, dest) = BasePath(g, dest)
  BY <1>5, <1>8
<1> QED
  BY <1>2, <1>9 DEF IsInSameTree

\* Prepare decides for all files what each alone would have got, or nothing if
\* one alone would have got nothing.
LEMMA OfferIs ==
    ASSUME NEW files \in Drops, NEW dest \in Destinations,
           \A f, g \in Range(files) : Dirpath(f) = Dirpath(g)
    PROVE  \/ \A f \in Range(files) : Alone(f, dest) = Offer(files, dest)
           \/ /\ Offer(files, dest) = "nothing"
              /\ \E f \in Range(files) : Alone(f, dest) = "nothing"
<1> DEFINE F == Range(files)
           first == files[1]
<1>1. first \in F /\ F \subseteq Dragged
  <2>1. files \in Seq(Dragged) /\ files # << >> /\ F \subseteq Dragged
    BY DropIs
  <2>2. 1 \in DOMAIN files
    BY <2>1
  <2> QED
    BY <2>1, <2>2 DEF Range
<1>2. \A f \in F : /\ IsUrl(f) <=> IsUrl(first)
                   /\ Dirpath(f) = Dirpath(first)
                   /\ IsInSameTree(f, dest) <=> IsInSameTree(first, dest)
  BY <1>1, OneFolder
<1>3. CASE \E f \in F : Dirpath(f) = dest \/ f = dest
  <2>1. Offer(files, dest) = "nothing"
    BY <1>3 DEF Offer
  <2>2. \E f \in F : Alone(f, dest) = "nothing"
    BY <1>3 DEF Alone
  <2> QED
    BY <2>1, <2>2
<1>4. CASE ~\E f \in F : Dirpath(f) = dest \/ f = dest
  <2> DEFINE rest(f, v) == IF CheckWc(f) THEN "nothing" ELSE v
  <2>1. CASE IsUrl(first)
    <3>1. ASSUME NEW f \in F PROVE Alone(f, dest) = Offer(files, dest)
      <4>1. /\ IsUrl(f) /\ (IsInSameTree(f, dest) <=> IsInSameTree(first, dest))
            /\ ~(Dirpath(f) = dest \/ f = dest)
        BY <1>2, <1>4, <2>1
      <4> QED
        BY <1>4, <2>1, <4>1 DEF Alone, Offer
    <3> QED
      BY <3>1
  <2>2. CASE ~IsUrl(first) /\ ~IsUrl(dest) /\ CheckWc(Dirpath(first)) /\ IsInSameTree(first, dest)
    <3>1. ASSUME NEW f \in F PROVE Alone(f, dest) = Offer(files, dest)
      <4>1. /\ ~IsUrl(f) /\ CheckWc(Dirpath(f)) /\ IsInSameTree(f, dest)
            /\ ~(Dirpath(f) = dest \/ f = dest)
        BY <1>2, <1>4, <2>2
      <4> QED
        BY <1>4, <2>2, <4>1 DEF Alone, Offer
    <3> QED
      BY <3>1
  <2>3. CASE /\ ~IsUrl(first)
             /\ IsUrl(dest) \/ ~(CheckWc(Dirpath(first)) /\ IsInSameTree(first, dest))
    <3> DEFINE v == IF IsUrl(dest) THEN "import" ELSE "add"
    <3>1. Offer(files, dest) = IF \E f \in F : CheckWc(f) THEN "nothing" ELSE v
      BY <1>4, <2>3 DEF Offer
    <3>2. ASSUME NEW f \in F PROVE Alone(f, dest) = IF CheckWc(f) THEN "nothing" ELSE v
      <4>1. /\ ~IsUrl(f) /\ ~(Dirpath(f) = dest \/ f = dest)
            /\ IsUrl(dest) \/ ~(CheckWc(Dirpath(f)) /\ IsInSameTree(f, dest))
        BY <1>2, <1>4, <2>3
      <4> QED
        BY <4>1 DEF Alone
    <3> HIDE DEF v, F
    <3>3. \/ \A f \in F : Alone(f, dest) = Offer(files, dest)
          \/ /\ Offer(files, dest) = "nothing"
             /\ \E f \in F : Alone(f, dest) = "nothing"
      BY <3>1, <3>2
    <3> QED
      BY <3>3 DEF F
  <2> QED
    BY <2>1, <2>2, <2>3
<1> QED
  BY <1>3, <1>4

\* A set that holds one thing or all of whose members are one thing.
LEMMA TheOne ==
    ASSUME NEW S, IsFiniteSet(S), S # {}, NEW v,
           (\A x \in S : x = v) \/ (v = "nothing" /\ "nothing" \in S)
    PROVE  v = IF Cardinality(S) = 1 THEN CHOOSE x \in S : TRUE ELSE "nothing"
<1>1. CASE \A x \in S : x = v
  <2>1. S = {v}
    BY <1>1
  <2>2. Cardinality(S) = 1
    BY <2>1, FS_Singleton
  <2> QED
    BY <2>1, <2>2
<1>2. CASE v = "nothing" /\ "nothing" \in S
  <2>1. CASE Cardinality(S) = 1
    <3>1. PICK x : S = {x}
      BY <2>1, FS_Singleton
    <3>2. (CHOOSE y \in S : TRUE) = "nothing"
      BY <1>2, <3>1
    <3> QED
      BY <1>2, <2>1, <3>2
  <2>2. CASE Cardinality(S) # 1
    BY <1>2, <2>2
  <2> QED
    BY <2>1, <2>2
<1> QED
  BY <1>1, <1>2

\* A function has no more values than arguments.
LEMMA FiniteValues ==
    ASSUME NEW S, IsFiniteSet(S), NEW f
    PROVE  IsFiniteSet({f[x] : x \in S})
<1> DEFINE T == {f[x] : x \in S}
           g == [x \in S |-> f[x]]
<1>1. g \in [S -> T] /\ \A t \in T : \E x \in S : g[x] = t
  OBVIOUS
<1>2. g \in Surjection(S, T)
  BY <1>1 DEF Surjection
<1> HIDE DEF g, T
<1>3. IsFiniteSet(T)
  BY <1>2, FS_Surjection
<1> QED
  BY <1>3 DEF T

\* The files of a drop are finitely many.
LEMMA FiniteDrop ==
    ASSUME NEW files \in Drops
    PROVE  IsFiniteSet(Range(files)) /\ Range(files) # {}
<1>1. files \in Seq(Dragged) /\ files # << >>
  BY DropIs
<1>2. DOMAIN files = 1 .. Len(files) /\ Len(files) \in Nat /\ 1 \in DOMAIN files
  BY <1>1
<1>3. IsFiniteSet(1 .. Len(files))
  BY <1>2, FS_Interval
<1>4. Range(files) = {files[i] : i \in 1 .. Len(files)}
  BY <1>2 DEF Range
<1>5. IsFiniteSet({files[i] : i \in 1 .. Len(files)})
  BY <1>3, FiniteValues
<1>6. files[1] \in Range(files)
  BY <1>2 DEF Range
<1> QED
  BY <1>4, <1>5, <1>6

-----------------------------------------------------------------------------
(* Drops                                                                   *)

\* What is decided about was dropped.
DropInv ==
    /\ dropped # NoDrop => dropped.files \in Drops /\ dropped.dest \in Destinations
    /\ DropFollowsPatterns

\* What Prepare decides follows the table.
LEMMA OfferFollows ==
    ASSUME NEW files \in Drops, NEW dest \in Destinations,
           Cardinality({Dirpath(f) : f \in Range(files)}) = 1,
           \A f \in Range(files) : ~Indistinct(f, dest) /\ ~TakenForTheSame(f, dest)
    PROVE  Offer(files, dest) =
             IF Cardinality({Pattern(f, dest) : f \in Range(files)}) = 1
             THEN CHOOSE p \in {Pattern(f, dest) : f \in Range(files)} : TRUE
             ELSE "nothing"
<1> DEFINE F == Range(files)
           v == Offer(files, dest)
           P == {Pattern(f, dest) : f \in F}
<1>1. F \subseteq Dragged /\ F # {}
  BY DropIs, FiniteDrop
<1>2. \A f, g \in F : Dirpath(f) = Dirpath(g)
  <2> DEFINE dirs == {Dirpath(f) : f \in F}
             dir == [f \in F |-> Dirpath(f)]
  <2>3. dirs = {dir[f] : f \in F}
    OBVIOUS
  <2>4. IsFiniteSet(F)
    BY FiniteDrop
  <2>1. IsFiniteSet(dirs)
    <3> HIDE DEF dir, F
    <3>1. IsFiniteSet({dir[f] : f \in F})
      BY <2>4, FiniteValues
    <3> QED
      BY <2>3, <3>1
  <2>2. PICK d : dirs = {d}
    BY <2>1, FS_Singleton
  <2> QED
    BY <2>2
<1>3. \A f \in F : Alone(f, dest) = Pattern(f, dest)
  BY <1>1, AloneAsTable
<1>4. \/ \A f \in F : Pattern(f, dest) = v
      \/ v = "nothing" /\ \E f \in F : Pattern(f, dest) = "nothing"
  BY <1>2, <1>3, OfferIs
<1>5. IsFiniteSet(P)
  <2> DEFINE pattern == [f \in F |-> Pattern(f, dest)]
  <2>1. P = {pattern[f] : f \in F}
    OBVIOUS
  <2>2. IsFiniteSet(F)
    BY FiniteDrop
  <2> HIDE DEF pattern, F
  <2>3. IsFiniteSet({pattern[f] : f \in F})
    BY <2>2, FiniteValues
  <2> QED
    BY <2>1, <2>3
<1>6. /\ P # {}
      /\ (\A x \in P : x = v) \/ (v = "nothing" /\ "nothing" \in P)
  BY <1>1, <1>4
<1> HIDE DEF P, v
<1>7. v = IF Cardinality(P) = 1 THEN CHOOSE x \in P : TRUE ELSE "nothing"
  BY <1>5, <1>6, TheOne
<1> QED
  BY <1>7 DEF P, v

\* Initially nothing was dropped.
LEMMA NothingDropped == DropInit => DropInv
<1> SUFFICES ASSUME DropInit PROVE DropInv
  OBVIOUS
<1>1. dropped = NoDrop /\ decided.files = << >>
  BY DEF DropInit, Undecided
<1>2. Range(decided.files) = {}
  BY <1>1 DEF Range
<1>3. DropFollowsPatterns
  BY <1>2 DEF DropFollowsPatterns
<1> QED
  BY <1>1, <1>3 DEF DropInv

\* Only a drop changes what is decided, and it decides as the table says.
LEMMA DropStep == DropInv /\ [DropNext]_dropVars => DropInv'
<1> SUFFICES ASSUME DropInv, [DropNext]_dropVars PROVE DropInv'
  OBVIOUS
<1>1. ASSUME UNCHANGED decided PROVE DropFollowsPatterns'
  <2>1. DropFollowsPatterns /\ decided' = decided
    BY <1>1 DEF DropInv
  <2> QED
    BY <2>1 DEF DropFollowsPatterns, Indistinct, TakenForTheSame, SlashDiffers, BasePath, Shared
<1>2. ASSUME NEW files \in Drops, NEW dest \in Destinations, OnDropFiles(files, dest)
      PROVE  DropInv'
  <2>1. dropped' = [files |-> files, dest |-> dest] /\ decided'.files = << >>
    BY <1>2 DEF OnDropFiles, Undecided
  <2>2. Range(decided'.files) = {}
    BY <2>1 DEF Range
  <2>3. DropFollowsPatterns'
    BY <2>2 DEF DropFollowsPatterns
  <2> QED
    BY <2>1, <2>3 DEF DropInv
<1>3. ASSUME NEW dir \in Currents, SelectFolder(dir) PROVE DropInv'
  BY <1>1, <1>3 DEF SelectFolder, DropInv
<1>4. ASSUME NEW how, NEW recursive \in BOOLEAN, Prepare(how, recursive) PROVE DropInv'
  <2> DEFINE files == dropped.files
             dest == dropped.dest
  <2>1. /\ files \in Drops /\ dest \in Destinations /\ dropped' = NoDrop
        /\ decided' = [files |-> files, dest |-> dest, offer |-> Offer(files, dest)]
    BY <1>4 DEF Prepare, DropInv
  <2>2. decided'.files = files /\ decided'.dest = dest /\ decided'.offer = Offer(files, dest)
    BY <2>1
  <2> HIDE DEF files, dest
  <2>3. ASSUME Cardinality({Dirpath(f) : f \in Range(files)}) = 1,
               \A f \in Range(files) : ~Indistinct(f, dest) /\ ~TakenForTheSame(f, dest)
        PROVE  Offer(files, dest) =
                 IF Cardinality({Pattern(f, dest) : f \in Range(files)}) = 1
                 THEN CHOOSE p \in {Pattern(f, dest) : f \in Range(files)} : TRUE
                 ELSE "nothing"
    BY <2>1, <2>3, OfferFollows
  <2>4. DropFollowsPatterns'
    BY <2>2, <2>3 DEF DropFollowsPatterns
  <2> QED
    BY <2>1, <2>4 DEF DropInv
<1>5. CASE Refuse
  BY <1>1, <1>5 DEF Refuse, DropInv
<1>6. CASE PerformFile
  BY <1>1, <1>6 DEF PerformFile, DropInv
<1>7. CASE PerformFails
  BY <1>1, <1>7 DEF PerformFails, DropInv
<1>8. CASE UNCHANGED dropVars
  BY <1>1, <1>8 DEF dropVars, DropInv
<1> QED
  BY <1>2, <1>3, <1>4, <1>5, <1>6, <1>7, <1>8 DEF DropNext

\* IsInSameTree, Prepare: what is offered for dropped files of one folder is what
\* the table of patterns says of each of them, or nothing if it says different
\* things, for any names, working copies and repositories and whatever folder is
\* shown meanwhile, save where the code cannot tell two places apart or takes a
\* host or working copy for another because of their names.
THEOREM DropsFollowTable == DropSpec => []DropFollowsPatterns
<1>1. DropInv => DropFollowsPatterns
  BY DEF DropInv
<1> QED
  BY NothingDropped, DropStep, <1>1, PTL DEF DropSpec
=============================================================================
