--------------------------- MODULE HistoryManager ---------------------------
(***************************************************************************)
(* librapidsvn/src/hist_mgr.cpp: the lists of what the user entered         *)
(* earlier, kept in memory and written to the configuration when the       *)
(* program exits; with hist_val.cpp and the other places that add to them. *)
(* The configuration is the registry: every Write is stored at once, and   *)
(* the program may die between two of them.  (A configuration file is      *)
(* written as a whole after Cleanup, rapidsvn_app.cpp:134.)                *)
(*                                                                         *)
(* A text is a word and whether blanks follow it; wxString::Trim removes   *)
(* them.  WriteList of the public interface is called by nobody.           *)
(***************************************************************************)
EXTENDS Naturals, SequencesExt, FiniteSetsExt

CONSTANTS
    Validated,  \* names of lists that dialogs fill through HistoryValidator
    Direct,     \* names of lists that code adds to as it is entered
    Words,      \* what texts are made of
    NoWord,     \* the word of an empty text
    Entered,    \* the texts the user enters
    MaxCount,   \* MAX_COUNT: entries stored of a list
    MaxEntered  \* bound on what is entered in one session

ASSUME HistoryAssumption ==
    /\ Validated \cap Direct = {}
    /\ MaxCount \in Nat \ {0}
    /\ MaxEntered \in Nat
    /\ NoWord \notin Words
    /\ Entered \subseteq [word : Words \cup {NoWord}, blanks : BOOLEAN]

Names == Validated \cup Direct
Empty == [word |-> NoWord, blanks |-> FALSE]
Trim(t) == [word |-> t.word, blanks |-> FALSE]

VARIABLES
    lists,      \* Data::lists: a function on the names of the lists in memory
    clean,      \* Data::clean
    config,     \* [Names -> [count, values]]: what wxConfig holds
    saving,     \* [phase, left, done]: how far WriteAllLists is
    before,     \* history: what the session found stored
    entered     \* history: what the session entered, newest first

histVars == <<lists, clean, config, saving, before, entered>>

-----------------------------------------------------------------------------
(* Data                                                                    *)

AtMost(n) == IF n > MaxCount THEN MaxCount ELSE n

\* The loop of ReadSingleList.
NonEmptyTrimmed(list) ==
    LET value(i) == Trim(list[i])
        read[i \in 0 .. Len(list)] ==
            IF i = 0 THEN << >>
            ELSE IF value(i) = Empty THEN read[i - 1]
            ELSE Append(read[i - 1], value(i))
    IN  read[Len(list)]

\* What ReadSingleList makes of the stored values.
Stored(cfg, name) == NonEmptyTrimmed(SubSeq(cfg[name].values, 1, AtMost(cfg[name].count)))

\* What WriteSingleList stores of the list in memory.
Limited(name) == SubSeq(lists[name], 1, AtMost(Len(lists[name])))

InMemory(name) == name \in DOMAIN lists

\* The list, read from the configuration if it is not in memory.
Read(name) == IF InMemory(name) THEN lists[name] ELSE Stored(config, name)

Put(name, list) ==
    [n \in DOMAIN lists \cup {name} |-> IF n = name THEN list ELSE lists[n]]

ToFront(list, entry) == << entry >> \o RemoveFirst(list, entry)

-----------------------------------------------------------------------------
(* Faulty variants of definitions below: bugs the properties must notice.  *)

\* An entry that is there already is not taken from its old place.
AddEntryTwice(name, entry) ==
    /\ lists' = Put(name, << entry >> \o Read(name))
    /\ clean' = FALSE
    /\ entered' = [entered EXCEPT ![name] = << entry >> \o @]

\* The old count stays until the values are written.
WriteKeepsCount(name) ==
    /\ saving.done[name] = 0
    /\ config' = config
    /\ saving' = [saving EXCEPT !.done[name] = 1]

\* The data is declared written before it is.
BeginCleanupClean ==
    /\ saving.phase = "using"
    /\ saving' = [saving EXCEPT !.phase = "writing", !.left = DOMAIN lists]
    /\ clean' = TRUE
    /\ UNCHANGED <<lists, config, before, entered>>

-----------------------------------------------------------------------------
(* Operations                                                              *)

\* A list read the first time counts as not written.
ReadList(name) ==
    /\ saving.phase = "using"
    /\ lists' = Put(name, Read(name))
    /\ clean' = (clean /\ InMemory(name))
    /\ UNCHANGED <<config, saving, before, entered>>

AddEntryToList(name, entry) ==
    /\ lists' = Put(name, ToFront(Read(name), entry))
    /\ clean' = FALSE
    /\ entered' = [entered EXCEPT ![name] = << entry >> \o @]

CanEnter == MapThenSumSet(LAMBDA n : Len(entered[n]), Names) < MaxEntered

\* HistoryValidator::TransferFromWindow: trimmed, and only if anything is left.
EnterValidated(name, text) ==
    /\ saving.phase = "using" /\ CanEnter
    /\ Trim(text) # Empty
    /\ AddEntryToList(name, Trim(text))
    /\ UNCHANGED <<config, saving, before>>

\* DiffDlg::OnButtonOK and MainFrame::AddWcBookmark: as it is.  The dialog
\* enters its two texts one after the other.
EnterDirect(name, text) ==
    /\ saving.phase = "using" /\ CanEnter
    /\ AddEntryToList(name, text)
    /\ UNCHANGED <<config, saving, before>>

\* RapidSvnApp::OnExit calls Cleanup: WriteAllLists begins.
BeginCleanup ==
    /\ saving.phase = "using"
    /\ saving' = [saving EXCEPT !.phase = "writing", !.left = DOMAIN lists]
    /\ UNCHANGED <<lists, clean, config, before, entered>>

\* WriteSingleList: first the count 0, ...
WriteZero(name) ==
    /\ saving.done[name] = 0
    /\ config' = [config EXCEPT ![name].count = 0]
    /\ saving' = [saving EXCEPT !.done[name] = 1]

\* ... then the values, ...
WriteValue(name) ==
    LET i == saving.done[name]
    IN  /\ i \in DOMAIN Limited(name)
        /\ config' = [config EXCEPT ![name].values[i] = lists[name][i]]
        /\ saving' = [saving EXCEPT !.done[name] = i + 1]

\* ... then their number.
WriteCount(name) ==
    LET n == Len(Limited(name))
    IN  /\ saving.done[name] = n + 1
        /\ config' = [config EXCEPT ![name].count = n]
        /\ saving' = [saving EXCEPT !.left = @ \ {name}]

\* One Write; the lists are written one after the other.
WriteStep ==
    /\ saving.phase = "writing"
    /\ \E name \in saving.left :
          /\ \A n \in saving.left \ {name} : saving.done[n] = 0
          /\ WriteZero(name) \/ WriteValue(name) \/ WriteCount(name)
    /\ UNCHANGED <<lists, clean, before, entered>>

FinishCleanup ==
    /\ saving.phase = "writing" /\ saving.left = {}
    /\ clean' = TRUE
    /\ saving' = [saving EXCEPT !.phase = "written"]
    /\ UNCHANGED <<lists, config, before, entered>>

NewSession ==
    /\ lists' = << >>
    /\ clean' = TRUE
    /\ saving' = [phase |-> "using", left |-> {}, done |-> [n \in Names |-> 0]]
    /\ before' = [n \in Names |-> Stored(config, n)]
    /\ entered' = [n \in Names |-> << >>]
    /\ UNCHANGED config

\* The program has exited and is started again.
Restart == saving.phase = "written" /\ NewSession

\* The program dies, at any time, and is started again.
Crash == saving.phase # "written" /\ NewSession

-----------------------------------------------------------------------------
HistInit ==
    /\ lists = << >>
    /\ clean = TRUE
    /\ config = [n \in Names |-> [count |-> 0, values |-> [i \in 1 .. MaxCount |-> Empty]]]
    /\ saving = [phase |-> "using", left |-> {}, done |-> [n \in Names |-> 0]]
    /\ before = [n \in Names |-> << >>]
    /\ entered = [n \in Names |-> << >>]

HistNext ==
    \/ \E n \in Names : ReadList(n)
    \/ \E n \in Validated, t \in Entered : EnterValidated(n, t)
    \/ \E n \in Direct, t \in Entered : EnterDirect(n, t)
    \/ BeginCleanup \/ WriteStep \/ FinishCleanup
    \/ Restart \/ Crash

-----------------------------------------------------------------------------
(* Properties                                                              *)

\* Age of a text: how many entries ago the session entered it.
Age(name, t) ==
    LET at == {i \in DOMAIN entered[name] : entered[name][i] = t}
    IN  IF at = {} THEN Len(entered[name]) + 1 ELSE CHOOSE i \in at : \A j \in at : i <= j

\* hist_mgr.hpp: "The first entry in the list will be the most recent entered
\* string."  A list that dialogs fill is ordered by when its texts were last
\* entered, what earlier sessions stored comes last, and nothing is there
\* twice, through any number of sessions and crashes.
NewestFirst ==
    \A n \in Validated \cap DOMAIN lists :
        \A i, j \in DOMAIN lists[n] : i < j =>
            /\ lists[n][i] # lists[n][j]
            /\ Age(n, lists[n][i]) <= Age(n, lists[n][j])

\* WriteSingleList writes the count last, "only if everything goes smooth":
\* wherever the program dies, the next session finds a list as the last
\* session stored it, as this one wanted to store it, or none; never a
\* mixture of the two.
StoredIsWhole ==
    \A n \in Names :
        \/ Stored(config, n) \in {<< >>, before[n]}
        \/ InMemory(n) /\ Stored(config, n) = NonEmptyTrimmed(Limited(n))

\* Data::~Data asserts that "all data has been written": the flag it looks at
\* is only set when every list in memory is stored.
CleanMeansStored ==
    clean => \A n \in DOMAIN lists : Stored(config, n) = NonEmptyTrimmed(Limited(n))
=============================================================================
