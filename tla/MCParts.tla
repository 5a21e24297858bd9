------------------------------- MODULE MCParts -------------------------------
(***************************************************************************)
(* Small instances of the components that keep their state to themselves.  *)
(* One of them moves in each behaviour: part says which, so that their     *)
(* states add up and do not multiply.                                      *)
(***************************************************************************)
EXTENDS HistoryManager, LogPaging, FileColumns, FileList, ClientCallbacks, TempFiles, DragAndDrop

VARIABLE part

vars == <<part, histVars, logVars, colVars, fileVars, callbackVars, tempVars, dropVars>>

Parts == {"history", "log", "columns", "files", "callbacks", "temp", "drop"}

\* A component that does not move has one initial state.
Settled ==
    /\ part = "log" \/ history = CHOOSE h \in Histories : TRUE
    /\ part = "files" \/ <<filter, sort>> = CHOOSE fs \in Filters \X Sorts : TRUE
    /\ part = "temp" \/ purgeTempFiles
    /\ part = "drop" \/ currentDir = CHOOSE d \in Currents : TRUE

Init ==
    /\ part \in Parts
    /\ HistInit /\ LogInit /\ ColInit /\ FileInit /\ CallbackInit /\ TempInit /\ DropInit
    /\ Settled

Next ==
    /\ part' = part
    /\ \/ part = "history" /\ HistNext
          /\ UNCHANGED <<logVars, colVars, fileVars, callbackVars, tempVars, dropVars>>
       \/ part = "log" /\ LogNext
          /\ UNCHANGED <<histVars, colVars, fileVars, callbackVars, tempVars, dropVars>>
       \/ part = "columns" /\ ColNext
          /\ UNCHANGED <<histVars, logVars, fileVars, callbackVars, tempVars, dropVars>>
       \/ part = "files" /\ FileNext
          /\ UNCHANGED <<histVars, logVars, colVars, callbackVars, tempVars, dropVars>>
       \/ part = "callbacks" /\ CallbackNext
          /\ UNCHANGED <<histVars, logVars, colVars, fileVars, tempVars, dropVars>>
       \/ part = "temp" /\ TempNext
          /\ UNCHANGED <<histVars, logVars, colVars, fileVars, callbackVars, dropVars>>
       \/ part = "drop" /\ DropNext
          /\ UNCHANGED <<histVars, logVars, colVars, fileVars, callbackVars, tempVars>>

Spec == Init /\ [][Next]_vars

-----------------------------------------------------------------------------
(* HistoryManager: a word, another with a blank, and a blank alone.        *)

MCEntered == {[word |-> "a", blanks |-> FALSE], [word |-> "b", blanks |-> TRUE],
              [word |-> NoWord, blanks |-> TRUE]}

(* LogPaging: a page, and a page and a half, and what commits add.         *)

MCHistories == {{3, 4}, {1, 2, 4}}
MCTouches == [r \in 1 .. 5 |-> IF r % 3 = 0 THEN {"p"} ELSE IF r % 3 = 1 THEN {"q"} ELSE {"p", "q"}]

(* FileList: the folder, one below it and three files: f1 is before f2 by  *)
(* name and after it by name without extension (a-b.c, a.c), f3 has the    *)
(* name of f2 in capitals and its revision; f3 comes when dir goes.        *)

MCReported == << "f1", "dir", "f3", "dot", "f2" >>
MCName == [dot |-> 3, dir |-> 4, f1 |-> 1, f2 |-> 2, f3 |-> 2]
MCBase == [dot |-> 3, dir |-> 4, f1 |-> 2, f2 |-> 1, f3 |-> 1]
MCExt == [dot |-> 0, dir |-> 0, f1 |-> 1, f2 |-> 1, f3 |-> 1]
MCRev == [dot |-> 1, dir |-> 1, f1 |-> 1, f2 |-> 2, f3 |-> 2]
MCDisks == {[dot |-> "normal", dir |-> dir, f1 |-> f1, f2 |-> f2, f3 |-> "absent"] :
                << dir, f1, f2 >> \in {"normal"} \X {"absent", "ignored", "unversioned"}
                                              \X {"conflicted"}
                                   \cup {<< "obstructed", "unversioned", "conflicted" >>,
                                         << "normal", "unversioned", "outdated" >>}}
           \cup {[dot |-> "normal", dir |-> "absent", f1 |-> "unversioned", f2 |-> "conflicted",
                  f3 |-> "conflicted"]}
MCFilters == {FilterNames, FilterNames \ {"unversioned"}, {"conflicted", "unversioned"}}
MCSorts == {[column |-> "name", ascending |-> TRUE], [column |-> "rev", ascending |-> FALSE],
            [column |-> "status", ascending |-> TRUE]}

(* DragAndDrop: two repositories of one host and one of another whose name *)
(* begins alike; working copies side by side, two of them with names that  *)
(* begin alike, inside each other and elsewhere; plain folders.            *)

MCHosts == {"h1", "h10"}
MCBegins == {<< "h1", "h10" >>, << "a", "ab" >>, << "d", "d2" >>}
MCRepositories == {<< "h1", "r1" >>, << "h1", "r2" >>, << "h10", "r3" >>}
MCWorkingCopies == {<< "w", "a" >>, << "w", "ab" >>, << "w", "a", "x" >>, << "c" >>}
MCVersioned == MCWorkingCopies \cup {<< "w", "a", "d" >>, << "w", "a", "d2" >>}
MCDrops == {<< << "h1", "r1", "x" >> >>, << << "h1", "r2", "y" >> >>, << << "h10", "r3", "z" >> >>,
            << << "w", "ab", "g" >> >>, << << "c", "k" >> >>, << << "p", "q" >> >>,
            << << "w", "a", "d" >> >>, << << "w", "a", "f" >> >>, << << "w", "a", "d", "k" >> >>,
            << << "w", "a", "d" >>, << "w", "a", "f" >> >>,
            << << "w", "a", "f" >>, << "w", "a", "d" >> >>,
            << << "w", "p" >>, << "w", "a" >> >>, << << "w", "a" >>, << "w", "p" >> >>}
MCDestinations == {<< "h1", "r1" >>, << "h1", "r1", "t" >>, << "h10", "r3" >>, << "w", "a" >>,
                   << "w", "a", "d2" >>, << "w", "a", "d" >>, << "w", "a", "x" >>, << "w", "ab" >>}
MCCurrents == {<< "w", "a" >>, << "p" >>}
=============================================================================
