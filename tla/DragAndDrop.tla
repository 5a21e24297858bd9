----------------------------- MODULE DragAndDrop -----------------------------
(***************************************************************************)
(* librapidsvn/src/drag_n_drop_action.cpp: what becomes of files that are  *)
(* dropped on a folder, decided in the main thread from their paths and    *)
(* carried out in the worker thread, one file after the other.             *)
(*                                                                         *)
(* A path is the sequence of its components, of a URL the first is scheme  *)
(* and host.  The code compares paths character by character; all that     *)
(* needs to be known of the characters of a name is which names begin with *)
(* it: Begins.                                                             *)
(***************************************************************************)
EXTENDS Naturals, FiniteSets, SequencesExt

CONSTANTS
    Hosts,          \* the first components of URLs
    Begins,         \* <<a, b>>: the name b begins with a and is longer
    Repositories,   \* the roots of repositories
    WorkingCopies,  \* the roots of working copies
    Versioned,      \* the folders of working copies: Wc::checkWc is true
    Drops,          \* what is dragged: sequences of paths, ...
    Destinations,   \* ... folders they are dropped on ...
    Currents        \* ... and local folders the frame shows meanwhile

Dragged == UNION {Range(files) : files \in Drops}

\* URLs are those of repositories, and a versioned folder lies in a working
\* copy as do the folders between it and its root.
ASSUME DropAssumption ==
    /\ \A p \in Repositories \cup WorkingCopies \cup Versioned \cup Destinations \cup Dragged :
          p \in Seq(Range(p))
    /\ \A files \in Drops : files \in Seq(Range(files)) /\ files # << >>
    /\ \A names \in Begins : names[1] # names[2]
    /\ \A p \in Destinations \cup Dragged :
          Len(p) > 1 /\ (p[1] \in Hosts => \E r \in Repositories : IsPrefix(r, p))
    /\ \A r \in Repositories : r # << >>
    /\ \A f \in Versioned : \E w \in WorkingCopies :
          IsPrefix(w, f) /\ \A n \in Len(w) .. Len(f) : SubSeq(f, 1, n) \in Versioned

VARIABLES
    dropped,    \* the posted TOKEN_DRAG_N_DROP, or NoDrop
    currentDir, \* MainFrame::Data::currentPath, the working directory
    decided,    \* history: the last drop Prepare decided about, and how
    carrying    \* [how, left, recursive]: how many files the worker has yet to do

dropVars == <<dropped, currentDir, decided, carrying>>

NoDrop == [files |-> << >>, dest |-> << >>]
NoWork == [how |-> "nothing", left |-> 0, recursive |-> FALSE]
Undecided == [files |-> << >>, dest |-> << >>, offer |-> "nothing"]

IsUrl(p) == p[1] \in Hosts
Dirpath(p) == Front(p)

-----------------------------------------------------------------------------
(* Prepare                                                                 *)

\* What the folder of the source and the destination have in common.
Shared(src, dest) == LongestCommonPrefix({Dirpath(src), dest})

\* The next name on the way to the source begins the one on the way to the
\* destination: the first character that differs is the slash behind it.
SlashDiffers(src, dest) ==
    LET n == Len(Shared(src, dest)) + 1
    IN  n < Len(src) /\ n <= Len(dest) /\ <<src[n], dest[n]>> \in Begins

\* The base path: up to the last slash of what is matching.  That takes in one
\* character of the source more than the two have in common, but of the last
\* name, behind which there is no slash, never anything.
BasePath(src, dest) ==
    SubSeq(src, 1, Len(Shared(src, dest)) + (IF SlashDiffers(src, dest) THEN 1 ELSE 0))

\* Wc::checkWc; the empty path is the working directory.
CheckWc(p) == p \in Versioned \/ (p = << >> /\ currentDir \in Versioned)

-----------------------------------------------------------------------------
(* Faulty variants of definitions below: bugs the properties must notice.  *)

\* Any common folder will do.
IsInSameTreeAnyBase(src, dest) == BasePath(src, dest) # << >>

-----------------------------------------------------------------------------
\* The base of two URLs without a host in common is the scheme, which is no
\* URL and no folder; one that ends with a host is a URL.
IsInSameTree(src, dest) ==
    LET base == BasePath(src, dest)
    IN  IF IsUrl(src) THEN base # << >> ELSE CheckWc(base)

\* Prepare up to the dialog: what it offers to do with the files.
Offer(files, dest) ==
    LET first == files[1]
        anyFolder == \E f \in Range(files) : CheckWc(f)
    IN  IF \E f \in Range(files) : Dirpath(f) = dest \/ f = dest THEN "nothing"
        ELSE IF IsUrl(dest)
        THEN IF IsUrl(first) THEN IF IsInSameTree(first, dest) THEN "copy or move" ELSE "nothing"
             ELSE IF anyFolder THEN "nothing" ELSE "import"
        ELSE IF IsUrl(first) THEN "nothing"
        ELSE IF CheckWc(Dirpath(first)) /\ IsInSameTree(first, dest) THEN "copy or move"
        ELSE IF anyFolder THEN "nothing" ELSE "add"

-----------------------------------------------------------------------------
(* Steps                                                                   *)

\* RapidSvnDropTarget::OnDropFiles posts the drop.
OnDropFiles(files, dest) ==
    /\ dropped = NoDrop
    /\ dropped' = [files |-> files, dest |-> dest]
    /\ decided' = Undecided
    /\ UNCHANGED <<currentDir, carrying>>

\* The user selects another folder before the drop is taken up.
SelectFolder(dir) ==
    /\ currentDir' = dir
    /\ UNCHANGED <<dropped, decided, carrying>>

\* TOKEN_DRAG_N_DROP with an idle worker: the action is prepared and the user
\* chooses from what the dialogs offer, or cancels one.
Prepare(how, recursive) ==
    LET offer == Offer(dropped.files, dropped.dest)
    IN  /\ dropped # NoDrop /\ carrying = NoWork
        /\ decided' = [files |-> dropped.files, dest |-> dropped.dest, offer |-> offer]
        /\ \/ how = "nothing" /\ carrying' = NoWork
           \/ /\ \/ offer = "copy or move" /\ how \in {"copy", "move"}
                 \/ offer \in {"import", "add"} /\ how = offer
              /\ recursive = ~IsUrl(dropped.dest) \/ how = "import"
              /\ carrying' = [how |-> how, left |-> Len(dropped.files), recursive |-> recursive]
        /\ dropped' = NoDrop
        /\ UNCHANGED currentDir

\* The same while another action runs: refused (ThreadedWorker::Perform).
Refuse ==
    /\ dropped # NoDrop /\ carrying # NoWork
    /\ dropped' = NoDrop
    /\ UNCHANGED <<currentDir, decided, carrying>>

\* Perform: one file more, or the client throws and the rest is left alone.
PerformFile ==
    /\ carrying # NoWork
    /\ carrying' = IF carrying.left > 1 THEN [carrying EXCEPT !.left = @ - 1] ELSE NoWork
    /\ UNCHANGED <<dropped, currentDir, decided>>

PerformFails ==
    /\ carrying # NoWork
    /\ carrying' = NoWork
    /\ UNCHANGED <<dropped, currentDir, decided>>

-----------------------------------------------------------------------------
DropInit ==
    /\ dropped = NoDrop /\ carrying = NoWork
    /\ decided = Undecided
    /\ currentDir \in Currents

DropNext ==
    \/ \E files \in Drops, dest \in Destinations : OnDropFiles(files, dest)
    \/ \E dir \in Currents : SelectFolder(dir)
    \/ \E how \in {"nothing", "copy", "move", "import", "add"}, recursive \in BOOLEAN :
          Prepare(how, recursive)
    \/ Refuse \/ PerformFile \/ PerformFails

-----------------------------------------------------------------------------
(* Properties                                                              *)

RepositoryOf(p) == {r \in Repositories : IsPrefix(r, p)}
WorkingCopyOf(p) == {w \in WorkingCopies : IsPrefix(w, p)}
IsWcEntry(p) == ~IsUrl(p) /\ Dirpath(p) \in Versioned

\* The table "DragDrop action patterns" in Prepare, line by line.
Pattern(src, dest) ==
    IF Dirpath(src) = dest \/ src = dest THEN "nothing"
    ELSE CASE IsUrl(src) /\ IsUrl(dest) ->
                IF RepositoryOf(src) = RepositoryOf(dest) THEN "copy or move" ELSE "nothing"
           [] ~IsUrl(src) /\ IsUrl(dest) -> IF src \in Versioned THEN "nothing" ELSE "import"
           [] IsUrl(src) /\ ~IsUrl(dest) -> "nothing"
           [] ~IsUrl(src) /\ ~IsUrl(dest) ->
                IF IsWcEntry(src) /\ WorkingCopyOf(src) = WorkingCopyOf(dest) THEN "copy or move"
                ELSE IF src \in Versioned THEN "nothing" ELSE "add"

\* What the code cannot tell apart: two repositories of one host, a working
\* copy and another inside it, and two that have only the root directory in
\* common (the working directory then decides).
Indistinct(src, dest) ==
    \/ IsUrl(src) /\ IsUrl(dest) /\ src[1] = dest[1] /\ RepositoryOf(src) # RepositoryOf(dest)
    \/ /\ ~IsUrl(src) /\ ~IsUrl(dest)
       /\ \/ BasePath(src, dest) = << >>
          \/ Shared(src, dest) \in Versioned /\ WorkingCopyOf(src) # WorkingCopyOf(dest)

\* What the code takes for the same: a host or a working copy and another beside
\* it whose name begins with that of the first (trunk and trunk-old).  Between
\* other folders of such names it makes no difference.
TakenForTheSame(src, dest) ==
    /\ SlashDiffers(src, dest)
    /\ IF IsUrl(src) THEN Len(BasePath(src, dest)) = 1
                     ELSE BasePath(src, dest) \in WorkingCopies

\* Files of one folder are treated as the table says of each of them, or not at
\* all if it says different things; also when the user has gone to another
\* folder before the drop is taken up, whichever file comes first, and whatever
\* name begins with another, save for the cases above.
DropFollowsPatterns ==
    LET files == Range(decided.files)
        patterns == {Pattern(f, decided.dest) : f \in files}
    IN  (files # {} /\ Cardinality({Dirpath(f) : f \in files}) = 1
         /\ \A f \in files : ~Indistinct(f, decided.dest) /\ ~TakenForTheSame(f, decided.dest))
        => decided.offer = IF Cardinality(patterns) = 1 THEN CHOOSE p \in patterns : TRUE
                                                        ELSE "nothing"
=============================================================================
