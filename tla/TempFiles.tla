------------------------------ MODULE TempFiles ------------------------------
(***************************************************************************)
(* The temporary files that View, Diff and the external programs show:     *)
(* fetched by the running action in the worker thread (action.cpp,         *)
(* diff_action.cpp, view_action.cpp, external_program_action.cpp, libsvncpp*)
(* client_cat.cpp), remembered by the application object and purged when   *)
(* it exits, if the user wants that (rapidsvn/rapidsvn_app.cpp).           *)
(*                                                                         *)
(* The program may be quit while the worker fetches: ~ThreadedWorker asks  *)
(* the detached thread to end and does not wait for it, so the worker goes *)
(* on until the process ends.  The array of names is shared without a      *)
(* lock; here the two threads use it one after the other.                  *)
(***************************************************************************)
EXTENDS Naturals, FiniteSets

CONSTANTS
    TempPaths,      \* names svn_io_open_unique_file may find
    MaxFetches      \* files an action fetches at most (TWO_REVISIONS: two)

ASSUME TempAssumption == MaxFetches \in Nat \ {0} /\ "none" \notin TempPaths

VARIABLES
    purgeTempFiles, \* Preferences::purgeTempFiles
    tempFiles,      \* RapidSvnApp::m_TempFiles
    onDisk,         \* the temporary files there are
    fetching,       \* [left, file]: what the running action has yet to fetch
    phase,          \* "running", "purged" after OnExit
    alwaysOn,       \* history: the preference was set all through the session
    unwanted,       \* history: files nobody is to purge, fetched while it was not
    orphans         \* history: files of earlier sessions, of failed fetches, of an
                    \* action that ran when the program exited, and files that could
                    \* not be removed

tempVars == <<purgeTempFiles, tempFiles, onDisk, fetching, phase, alwaysOn, unwanted, orphans>>

NotFetching == [left |-> 0, file |-> "none"]

-----------------------------------------------------------------------------
(* Faulty variants of definitions below: bugs the properties must notice.  *)

\* The list is cleared before it is added to.
OptionallyRegisterTempFileLast(f) == tempFiles' = IF purgeTempFiles THEN {f} ELSE {}

\* A file is remembered whatever the preference says.
OptionallyRegisterTempFileAlways(f) == tempFiles' = tempFiles \cup {f}

-----------------------------------------------------------------------------
(* The worker                                                              *)

Fetch(left, file) == fetching' = [left |-> left, file |-> file]

OptionallyRegisterTempFile(f) == tempFiles' = IF purgeTempFiles THEN tempFiles \cup {f} ELSE {}

\* An action that fetches n files is performed.
StartFetching(n) ==
    /\ phase = "running" /\ fetching = NotFetching
    /\ Fetch(n, "none")
    /\ UNCHANGED <<purgeTempFiles, tempFiles, onDisk, phase, alwaysOn, unwanted, orphans>>

\* Client::get: openTempFile makes a new file ...
OpenTempFile(f) ==
    /\ fetching.left > 0 /\ fetching.file = "none" /\ f \notin onDisk
    /\ Fetch(fetching.left, f)
    /\ onDisk' = onDisk \cup {f}
    /\ orphans' = IF phase = "running" THEN orphans ELSE orphans \cup {f}
    /\ UNCHANGED <<purgeTempFiles, tempFiles, phase, alwaysOn, unwanted>>

\* ... svn_client_cat2 writes it, and it is remembered, ...
GetPathAsTempFile ==
    /\ fetching.file # "none"
    /\ OptionallyRegisterTempFile(fetching.file)
    /\ Fetch(fetching.left - 1, "none")
    /\ unwanted' = IF purgeTempFiles THEN unwanted ELSE unwanted \cup {fetching.file}
    /\ UNCHANGED <<purgeTempFiles, onDisk, phase, alwaysOn, orphans>>

\* ... or one of the two throws: the action ends, and the file stays.
GetFails ==
    /\ fetching # NotFetching
    /\ fetching' = NotFetching
    /\ orphans' = orphans \cup ({fetching.file} \cap TempPaths)
    /\ UNCHANGED <<purgeTempFiles, tempFiles, onDisk, phase, alwaysOn, unwanted>>

-----------------------------------------------------------------------------
(* The application                                                         *)

\* The preferences dialog.
SetPurgeTempFiles(value) ==
    /\ phase = "running"
    /\ purgeTempFiles' = value
    /\ alwaysOn' = (alwaysOn /\ value)
    /\ UNCHANGED <<tempFiles, onDisk, fetching, phase, unwanted, orphans>>

\* wxRemoveFile may fail, which goes unnoticed: the files kept stay.
OptionallyPurgeTempFiles(kept) ==
    /\ onDisk' = IF purgeTempFiles THEN onDisk \ (tempFiles \ kept) ELSE onDisk
    /\ tempFiles' = {}

\* OnExit.
Exit ==
    /\ phase = "running"
    /\ phase' = "purged"
    /\ \E kept \in SUBSET tempFiles :
          /\ OptionallyPurgeTempFiles(kept)
          /\ orphans' = orphans \cup kept \cup ({fetching.file} \cap TempPaths)
    /\ UNCHANGED <<purgeTempFiles, fetching, alwaysOn, unwanted>>

\* The process ends, after OnExit or because it died; it is started again.
StartAgain ==
    /\ phase' = "running"
    /\ tempFiles' = {}
    /\ fetching' = NotFetching
    /\ alwaysOn' = purgeTempFiles
    /\ unwanted' = unwanted \cap onDisk
    /\ orphans' = onDisk
    /\ UNCHANGED <<purgeTempFiles, onDisk>>

-----------------------------------------------------------------------------
TempInit ==
    /\ purgeTempFiles \in BOOLEAN /\ alwaysOn = purgeTempFiles
    /\ tempFiles = {} /\ onDisk = {} /\ unwanted = {} /\ orphans = {}
    /\ fetching = NotFetching
    /\ phase = "running"

TempNext ==
    \/ \E n \in 1 .. MaxFetches : StartFetching(n)
    \/ \E f \in TempPaths : OpenTempFile(f)
    \/ GetPathAsTempFile \/ GetFails
    \/ \E value \in BOOLEAN : SetPurgeTempFiles(value)
    \/ Exit \/ StartAgain

TempSpec == TempInit /\ [][TempNext]_tempVars

-----------------------------------------------------------------------------
(* Properties                                                              *)

\* GetPathAsTempFile, "Remember this temporary file so we can delete it when
\* the application exits": if the preference was set throughout, a session
\* leaves behind no file that any of its actions fetched, unless the fetching
\* failed or was not over when the program exited, or the file could not be
\* removed.
PurgedAtExit == phase = "purged" /\ alwaysOn => onDisk \subseteq orphans

\* What was fetched while the user did not want files purged stays, although
\* the preference may be changed before the exit, and whatever name a file of
\* the same session or a later one gets.
UnwantedIsKept == unwanted \subseteq onDisk
=============================================================================
