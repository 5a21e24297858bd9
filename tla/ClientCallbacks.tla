--------------------------- MODULE ClientCallbacks ---------------------------
(***************************************************************************)
(* What the Subversion library asks of the program and tells it while an   *)
(* action runs: the log message of a commit (libsvncpp/src/context.cpp,    *)
(* client_modify.cpp) and the notifications that the listener counts into  *)
(* the summary of an update (librapidsvn/src/listener.cpp).                *)
(*                                                                         *)
(* The state outlives the actions: the context belongs to a bookmark or to *)
(* all of them, the counter is a static of Listener::contextNotify.  How   *)
(* the library calls back is external: svn_client_update3 updates a target,*)
(* then its externals, each of which completes or fails on its own, then   *)
(* reports the target completed; svn_client_merge reports the same changes *)
(* and completes nothing.  Only one action runs at a time (ThreadedWorker).*)
(***************************************************************************)
EXTENDS Naturals, FiniteSetsExt

CONSTANTS
    Messages,       \* log messages
    NoMessage,      \* the message of a new context
    MaxPerformed,   \* bound on the actions performed
    MaxCommits,     \* bound on the commits of one action (copy, move)
    MaxNotes,       \* bound on the notifications in the counter
    MaxExternals    \* bound on the externals the listener waits for

ASSUME CallbacksAssumption ==
    /\ Messages # {} /\ NoMessage \notin Messages
    /\ MaxPerformed \in Nat /\ MaxCommits \in Nat /\ MaxNotes \in Nat /\ MaxExternals \in Nat

\* The actions by what they make the library call back.
Kinds == {"commit", "remote", "update", "merge"}
Counted == {"conflicted", "merged", "added", "deleted", "updated"}
Nothing == [c \in Counted |-> 0]
NoSummary == [said |-> Nothing, was |-> Nothing, tainted |-> FALSE]

VARIABLES
    acting,     \* the kind of the running action, "none" if there is none
    performed,  \* how many actions were performed
    logIsSet,   \* Context::Data::logIsSet
    logMessage, \* Context::Data::logMessage
    counter,    \* updateCounter without externalCounter
    externalCounter,
    underWay,   \* external: externals the library is updating
    commits,    \* history: the messages this action committed with
    meant,      \* history: the messages the user gave for this action
    done,       \* history: what this update of a target has done
    shown,      \* history: the last summary traced, with what was done
    tainted     \* history: since the last summary an update, an external or a
                \* merge ended without one

callbackVars == <<acting, performed, logIsSet, logMessage, counter, externalCounter, underWay,
                  commits, meant, done, shown, tainted>>

messageVars == <<logIsSet, logMessage, commits, meant>>
updateVars == <<counter, externalCounter, underWay, done, shown, tainted>>

-----------------------------------------------------------------------------
(* Faulty variants of definitions below: bugs the properties must notice.  *)

\* ThreadedWorker::Perform does not reset the context.
PerformWithoutReset(kind) ==
    /\ acting = "none" /\ performed < MaxPerformed
    /\ acting' = kind
    /\ performed' = performed + 1
    /\ UNCHANGED <<messageVars, updateVars>>

\* An external that completes is taken for the target.
CompletedTooEarly ==
    IF externalCounter <= 1
    THEN /\ shown' = [said |-> counter, was |-> done, tainted |-> tainted]
         /\ counter' = Nothing /\ externalCounter' = 0
    ELSE externalCounter' = externalCounter - 1 /\ UNCHANGED <<counter, shown>>

-----------------------------------------------------------------------------
(* The action                                                              *)

\* ThreadedWorker::Perform of an idle worker; Context::reset.
Perform(kind) ==
    /\ acting = "none" /\ performed < MaxPerformed
    /\ acting' = kind
    /\ performed' = performed + 1
    /\ logIsSet' = FALSE
    /\ UNCHANGED <<logMessage, commits, meant, updateVars>>

\* The action ends, with or without an error: what it counted and did not
\* show stays, and so do the externals it never heard of again.
End ==
    /\ acting # "none"
    /\ acting' = "none"
    /\ underWay' = 0
    /\ tainted' = (tainted \/ done # Nothing \/ externalCounter # 0)
    /\ commits' = {} /\ meant' = {} /\ done' = Nothing /\ shown' = NoSummary
    /\ UNCHANGED <<performed, logIsSet, logMessage, counter, externalCounter>>

-----------------------------------------------------------------------------
(* Log messages                                                            *)

\* onLogMsg with the message that is set.
UseLogMessage(m) == commits' = commits \cup {m}

\* Client::commit and Client::import set the message of their dialog.
Commit(m) ==
    /\ acting = "commit" /\ commits = {}
    /\ logMessage' = m /\ logIsSet' = TRUE
    /\ meant' = meant \cup {m}
    /\ UseLogMessage(m)
    /\ UNCHANGED <<acting, performed, updateVars>>

\* mkdir, copy, move and remove of URLs: onLogMsg asks, once for each commit,
\* unless a message is set; retrieveLogMessage keeps the answer.
CommitRemote(m) ==
    /\ acting = "remote" /\ Cardinality(commits) < MaxCommits
    /\ IF logIsSet
       THEN UseLogMessage(logMessage) /\ UNCHANGED <<logMessage, meant>>
       ELSE /\ logMessage' = m
            /\ meant' = meant \cup {m}
            /\ UseLogMessage(m)
    /\ UNCHANGED <<acting, performed, logIsSet, updateVars>>

\* The user cancels the dialog: SVN_ERR_CANCELLED, the action ends.
RefuseMessage ==
    /\ acting = "remote" /\ ~logIsSet
    /\ logIsSet' = FALSE
    /\ acting' = "none"
    /\ commits' = {} /\ meant' = {}
    /\ UNCHANGED <<performed, logMessage, updateVars>>

-----------------------------------------------------------------------------
(* Notifications                                                           *)

Updating == acting \in {"update", "merge"}
Count(c) == counter' = [counter EXCEPT ![c] = @ + 1] /\ done' = [done EXCEPT ![c] = @ + 1]
Notified == UNCHANGED <<acting, performed, messageVars, externalCounter, underWay, shown, tainted>>
CanNote == Updating /\ MapThenSumSet(LAMBDA c : counter[c], Counted) < MaxNotes

\* svn_wc_notify_update_add; the state is that of the content or the properties.
NotifyAdd(state) ==
    /\ CanNote
    /\ Count(IF state = "conflicted" THEN "conflicted" ELSE "added")
    /\ Notified

NotifyDelete == CanNote /\ Count("deleted") /\ Notified

\* svn_wc_notify_update_update: the graver of the two states counts; of a
\* folder whose properties did not change, and of no change, nothing does.
NotifyUpdate(content, prop, isDir) ==
    /\ CanNote
    /\ ~(isDir /\ prop = "unchanged")
    /\ LET is(s) == s \in {content, prop}
       IN  /\ is("conflicted") \/ is("merged") \/ is("changed")
           /\ Count(IF is("conflicted") THEN "conflicted"
                    ELSE IF is("merged") THEN "merged" ELSE "updated")
    /\ Notified

\* svn_wc_notify_update_external: the library begins with an external.
NotifyExternal ==
    /\ acting = "update" /\ externalCounter < MaxExternals
    /\ underWay' = underWay + 1
    /\ externalCounter' = externalCounter + 1
    /\ UNCHANGED <<acting, performed, messageVars, counter, done, shown, tainted>>

\* An external fails: it is reported, and never completed.
FailExternal ==
    /\ underWay > 0
    /\ underWay' = underWay - 1
    /\ tainted' = TRUE
    /\ UNCHANGED <<acting, performed, messageVars, counter, externalCounter, done, shown>>

\* svn_wc_notify_update_completed as the listener takes it.
Completed ==
    IF externalCounter = 0
    THEN /\ shown' = [said |-> counter, was |-> done, tainted |-> tainted]
         /\ counter' = Nothing /\ externalCounter' = 0
    ELSE externalCounter' = externalCounter - 1 /\ UNCHANGED <<counter, shown>>

CompleteExternal ==
    /\ underWay > 0
    /\ underWay' = underWay - 1
    /\ Completed
    /\ UNCHANGED <<acting, performed, messageVars, done, tainted>>

\* The target is completed; another target of the same update may follow.
CompleteTarget ==
    /\ acting = "update" /\ underWay = 0
    /\ Completed
    /\ done' = Nothing
    /\ tainted' = (tainted /\ externalCounter # 0)
    /\ UNCHANGED <<acting, performed, messageVars, underWay>>

-----------------------------------------------------------------------------
CallbackInit ==
    /\ acting = "none" /\ performed = 0
    /\ logIsSet = FALSE /\ logMessage = NoMessage
    /\ counter = Nothing /\ externalCounter = 0 /\ underWay = 0
    /\ commits = {} /\ meant = {} /\ done = Nothing /\ shown = NoSummary
    /\ tainted = FALSE

CallbackNext ==
    \/ \E kind \in Kinds : Perform(kind)
    \/ End
    \/ \E m \in Messages : Commit(m) \/ CommitRemote(m)
    \/ RefuseMessage
    \/ \E s \in {"conflicted", "changed"} : NotifyAdd(s)
    \/ NotifyDelete
    \/ \E content, prop \in {"conflicted", "merged", "changed", "unchanged"}, isDir \in BOOLEAN :
          NotifyUpdate(content, prop, isDir)
    \/ NotifyExternal \/ FailExternal \/ CompleteExternal \/ CompleteTarget

CallbackSpec == CallbackInit /\ [][CallbackNext]_callbackVars

-----------------------------------------------------------------------------
(* Properties                                                              *)

\* Context::reset, "called at the beginning of an action. the log message will
\* be reset": whatever was committed before, refused or asked for with the
\* same context, no action commits with a message given for another one.
MessageIsThisActions == commits \subseteq meant

\* contextNotify: the summary at the end of an update counts what this update
\* of this target did, its externals included, unless since the last summary
\* an update or one of its externals failed, or a merge was made, and left
\* something in the counter.
SummaryIsOfThisUpdate == ~shown.tainted => shown.said = shown.was
=============================================================================
