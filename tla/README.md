# RapidSVN: TLA+ models of the worker, the main frame and its parts

RapidSVN is a graphical Subversion client. The main thread runs a wxWidgets
frame; every Subversion operation is an `Action` object that a worker thread
executes while the frame stays responsive. The two threads share the pointer to
the action, a cancel flag, the fields through which the library's prompts are
answered, and the frame's event queue; hardly any of it is locked. That protocol
is the part of the program a unit test reaches least (the repository's tests
cover path splitting and two helpers of the log dialog), and it is the core of
this project. Around it are models of what else keeps state over several events:
bookmarks with their login contexts and the refreshes of tree and list, the log
dialog, the file list, recently used lists, what the library calls back,
temporary files, and the decision what a drop means.

Files: modules `*.tla`, TLC configurations `*.cfg`, and `PROJECT.json`, which
lists components, runs, mutants, the map from definitions to source lines,
findings, hazards and theorems. Paths below are relative to the repository root.

## 1. Inventory

| component | state it keeps | operations | correct when |
|---|---|---|---|
| threaded worker, `threaded_worker.cpp` | pointer to the action, state, result, context, tracer | `Perform` (main thread), `Entry`/`ExecuteAction`/`DeleteAction` (worker thread) | nothing freed is used, each accepted action runs once and is released, state is truthful |
| main frame, `main_frame.cpp` | running flag, cancel flag (in the listener), refresh flags, error-dialog flag, current path and context | `Perform`, `OnActionEvent` (24 tokens), `OnActivate`, `OnStop`, refreshes, bookmark and preference commands | the interface recovers, Stop stops what it was pressed for, the list shows what happened |
| listener, `listener.cpp` | mutex, condition, dataReceived, answers, update counter | prompts, `handleEvent`, notifications | every prompt gets its own answer and returns |
| action events, tracer | one event object, its client data | init, Post | data is not shared between two events |
| action and its subclasses | parent, flags, context, selection, own data | `Prepare` (main thread, dialogs), `Perform` (worker) | a failure half way is reported and visible |
| simple worker, `simple_worker.cpp` (a build option) | as the threaded worker | synchronous `Perform` | same promise as the threaded worker |
| folder browser | bookmarks with their contexts, single or default context, tree | add, edit, remove, `SetAuthPerBookmark`, `GetContext`, selection | no context is deleted while frame, worker or action points to it |
| file list control | columns, sort order, filters, items | refresh, sort, filter, persistence | order is a total preorder, filters hide only what they name |
| log dialog and log actions | entries, next revision | paging, reduction of affected paths | no entry lost or shown twice, no callback into a closed dialog |
| status selection, action factory | six summary bits | `push_back`, `CheckStatusSel` of each action | a command is enabled exactly for the selections it can handle |
| svncpp | contexts, client calls, values, pools | thin wrappers of the library | credentials live as long as they are used |
| history manager, preferences | recently used lists, clean flag | read, add, write | lists survive a restart, bounded, without duplicates |
| dialogs, utilities, application, build, docs | none of the protocol | | not modelled |

How they interact: a command or a posted token reaches `MainFrame::Perform`,
which resets the cancel flag, hands context and tracer to the worker and calls
`ThreadedWorker::Perform`. That runs `Action::Prepare`, usually a modal dialog
with a nested event loop, and publishes the pointer. The thread polls the
pointer every 10 ms, runs the action, posts START, END or an error and a request
to delete the object, and clears the pointer. The frame refreshes its views on
END according to the action's flags. During an action the library calls the
listener, which posts a signal to the frame and waits for the user.

What is hard: interleaving of two threads over unlocked fields; handlers that
are re-entered while a dialog is open; events that arrive after the state they
speak of has changed (the END of one action while the next runs); one cancel bit
for all actions; exceptions in the middle of an action; a condition variable
used without its mutex and without a predicate; contexts deleted while in use.
To that come long sequences of ordinary calls: pages of a log requested, refused
and answered late, a selection restored over refreshes, a write interrupted half
way, a counter that outlives its update. `PROJECT.json` lists these at their
lines under "hazards" with the properties about them; a hazard without one says
why.

## 2. Modules

| module | what it is |
|---|---|
| `ActionWorker` | the promise of `action_worker.hpp`: offered, refused, rejected, accepted, run, finished, released |
| `ThreadedWorker` | the worker thread and `ThreadedWorker::Perform`; no specification of its own, its operators are composed by MainFrame |
| `MainFrame` | the event loop, the user, nested dialogs, composed with the worker; states the properties |
| `MCMainFrame` | instances for TLC |
| `MainFrameProofs` | inductive invariant and theorems, nested starts included |
| `PromiseProofs` | extends it for `Reentrant = FALSE`: the refinement of `ActionWorker`, truthful state, the list catches up |
| `Listener`, `MCListener`, `ListenerProofs` | prompts across the two threads |
| `FolderBrowser` | bookmarks, contexts and tree: operators on `FolderBrowser::Data` |
| `BrowserFrame`, `MCBrowserFrame` | the frame's handlers that use them, current path and context, refreshes |
| `BrowserFrameProofs` | lemmas about FolderBrowser's operators, invariant and theorems of BrowserFrame |
| `HistoryManager` | recently used lists in memory and in the configuration |
| `LogPaging` | the log dialog, its pages, selection, details and diff |
| `FileColumns` | columns, sorting and the menus that show them, configuration |
| `FileList` | what a refresh lists, its order, the selection that survives it |
| `ClientCallbacks` | log messages and the update counter over several actions |
| `TempFiles` | temporary files, their registration and purging at exit |
| `DragAndDrop` | `DragAndDropAction`: what becomes of dropped files |
| `MCParts` | instances of the seven above |
| `PartsProofs` | theorems about ClientCallbacks, TempFiles, HistoryManager and DragAndDrop |
| `ListProofs` | theorems about FileColumns and FileList |
| `LogProofs` | theorems about LogPaging |
| `NumberFacts` | lemmas all three use: the smallest of a set of numbers, loops |

**ThreadedWorker.** `action`, `state`, `result` are the fields of
`ThreadedWorker::Data`; `wpc`, `wact` and `wflags` are the thread's position in
`ExecuteAction`, the object whose Perform is on its stack, and its local flags;
`queue` is the frame's list of pending events; `heap` is the life of each
`Action` object. Each read or write of the pointer that another thread can come
between is a step: `Poll`, `EnterPerform`, `PostLog`, `PerformReturns`,
`PerformThrows`, `PostEnd`, `PostDelete`, `ClearAction`. The main thread's half
of `Perform` is split where a dialog can run: `Refuse` or `BeginPrepare`, then
`PrepareFails` or `PublishAction`. `accepted`, `refused`, `performs`, `threw`
and `unseen` are history. The announcement of the action is one step, the log
window's own messages (TOKEN_INFO) are left out: they change no state. The event
object lives on the worker's stack and is posted by value.

**MainFrame.** `stack` holds the handlers of the main thread that wait for a
dialog, innermost first; only the innermost one can be answered, and pending
events are dispatched whatever is on it, because a modal dialog disables windows
and not events. `running`, `isCancelled`, `updateAfterActivate` and
`isErrorDialogActive` are the code's flags. The actions are `FileCommand`,
`RequestAction` (a dialog's button or a drop, which posts a token), `OnStop`,
`OnActivate`, the ends of the dialogs, and one `Dispatch...` per kind of token.
All tokens that only create an action and call `Perform` are one event,
`REQUEST`. `RefreshFileList` stands for both refreshes: its effect on the
properties is what it does to the cancel flag and that the list is current
afterwards, unless the refresh was cancelled. `stopped` is history.

**Listener.** `wpc` is the worker's place in `sendSignalAndWait`, `callbacks` the
dialogs of the main thread, for a signal or for a prompt of its own. Three kinds
of prompt show the three ways the code treats `dataReceived`: a cancelled login
(log message) leaves it, a certificate (and its password) sets it to the outcome,
server trust always sets it. Waiting without owning the mutex is undefined; the
model lets the main thread's lock survive or be lost, which is what a plain
pthread mutex and a Windows mutex do. Spurious wake-ups are left out, they would
only add to what `listener_woken` shows. Prompts of the worker are handled in
this module and not as entries of MainFrame's stack.

**FolderBrowser and BrowserFrame.** `fb` is `FolderBrowser::Data`: bookmarks
with their context and flat mode, the single context, the items in the tree,
those expanded, the selection, and the deleted contexts that somebody still
points to (one nobody points to may be allocated again). Every operator of
FolderBrowser maps one such value to the next, as the method does; BrowserFrame
strings them together to the frame's handlers: bookmark commands, selection,
preferences, activation of a folder, end of an action, restart. `frame` has the
current path and context and the flags `running`, `dontUpdate`, `skip` and
`later`. A refresh of the tree reads the folders of a URL, which may ask for a
login, whose event loop dispatches the worker's events: `pending` holds the
refreshes that wait there, with what their caller does next. The worker is
reduced to the job it has (context, flags, bookmark to add) and the events it
posts; ThreadedWorker has its steps. An action that fails ends like one without
flags: the frame's handler of the error event (`main_frame.cpp:1731-1741`) does
to path, tree and list what that of END does then, after a message box. The
exceptions of the tree refresh (`main_frame.cpp:975-978`) are left out. `lost`
and `stale` are history.

**The seven parts.** Each is a component that keeps its state to itself, with its
own `...Init` and `...Next`:

* `HistoryManager`: `WriteAllLists` is one step per value stored, so that a crash
  can come between two; a text is a word with or without blanks behind it, since
  some callers trim and others do not.
* `LogPaging`: the dialog asks with an event, an action fetches `LogLimit`
  entries and one more, the answer is an event that names the dialog. Other
  actions make the worker refuse. Rows are indices of entries, as in
  `LogRevList`. Others may commit at any time (`OthersCommit`, external), so the log
  is asked for from the newest revision of that moment or from a given one;
  `history` is what a dialog was opened on, `newer` what has come since. Of
  `OnDiff` the branch for a working copy is modelled; that for a URL, or for a
  single affected file, takes the number below the revision and reads nothing of
  the list.
* `FileColumns`: the control is told a position among the visible columns; the
  menu is told of changes by posted events; `ReadConfig` and `WriteConfig`.
* `FileList`: `Refresh` is filter, rows, selection and sort as the code has
  them; what changed on disk is found by the next refresh. `CompareItems` has
  every case of the code's `CompareItems` the modelled columns reach. Names, and
  names without extension, have places in an alphabet without case, as
  `CmpNoCase` compares them: two items may share one.
* `ClientCallbacks`: `Context` and the static counter live longer than an action.
  How the library calls back is external, and stated in the module's head.
* `TempFiles`: opening, fetching and registering a file are steps, the program
  may be quit between them, and the worker goes on.
* `DragAndDrop`: paths are sequences of components. The code compares characters
  and takes one of the source more than match (`drag_n_drop_action.cpp:129`), so
  that components alone would not do: `Begins` says which names begin with
  which, and `SlashDiffers` is the one case in which the character too many is a
  slash and adds a name to the base. `Prepare` decides in the main thread,
  `Perform` takes one file after the other.

In `MCParts` the variable `part` says which component moves in a behaviour, so
that their states add up and do not multiply; the others keep one initial state
(`Settled`). None of them reads another's variables.

## 3. Runs

| run | bounds | checks |
|---|---|---|
| `frame_reentrant` | 3 actions, 3 nested dialogs, actions may be started inside Prepare | `TypeOK`, `NoUseAfterFree`, `NoDoubleFree`, `PerformedAtMostOnce`, `OnlyAcceptedPerformed`, `StopHitsItsTarget` |
| `frame_alone` | 3 actions, nothing started inside Prepare | `StateIsTruthful`, `ListCatchesUp`, refinement `KeepsPromise` (safety) |
| `frame_promise` | 2 actions, fairness | refinement `KeepsPromiseFairly`, `UIRecovers` |
| `listener` | 3 prompts of the worker, 2 of the main thread, not overlapping | `TypeOK`, `AnswersMatch`, `ParentIsDone`, `AnswersGetThrough` |
| `browser` | a working copy, a repository, two nested folders, 5 contexts | `TypeOK`, `NoDanglingContext`, `OneLoginOrOneEach`, `CommandsUseSelection`, `ListIsFresh`, `NoNestedTreeRefresh`, `AddedBookmarkIsShown` |
| `parts` | see below | `NewestFirst`, `StoredIsWhole`, `CleanMeansStored`; `PagesContiguous`, `MoreIfEntriesRemain`, `DetailsMatchSelection`, `DiffShowsTheChange`; `ClickSortsThatColumn`, `SortColumnIsShown`, `MenuShowsSorting`; `CommandsGetWhatWasSelected`, `RowsInOrder`; `MessageIsThisActions`, `SummaryIsOfThisUpdate`; `PurgedAtExit`, `UnwantedIsKept`; `DropFollowsPatterns` |
| `browser_context` | as `browser`, the login mode changes between actions | a counterexample, see findings |
| `refused_leak`, `lost_action`, `refresh_running` | as above | a counterexample each, see findings |
| `listener_woken`, `listener_hang` | as `listener`, the first with overlapping prompts | a counterexample each |

Three actions, one for each way the list is refreshed after it (at once with the
tree, never, on the next activation), are enough for every case the code
distinguishes: one running, one waiting in Prepare and one that overwrites,
is refused or comes late. An action object is used once, which bounds the
behaviours; `MaxDepth` bounds dialogs on top of each other, and an event that
would open one more dialog waits. Symmetry is not used, since the actions
differ. Two actions are enough for liveness, which is about one action and its
successor.

`Reentrant` separates two modes. TRUE is the program as it is: CommitDlg's diff
button posts a token while `CommitAction::Prepare` is on the stack. There the
memory-safety properties still hold, and the promise of the interface does not
(`lost_action`). FALSE dispatches no request during Prepare; the promise,
truthful state and the refresh property are checked there, because nested starts
break them for the one reason the finding names.

`WhileRunning` and `Switching` do the same for the browser: FALSE leaves the
menus Bookmarks and View alone while an action runs, and the login mode
unchanged. TRUE is the program as it is. `browser_context` sets `Switching`
alone, which is enough to break the properties about contexts; no run sets
`WhileRunning`, under which `CommandsUseSelection` and `NoNestedTreeRefresh`
fail too (section 6). Five contexts are as many as frame, action, bookmarks and
a replaced one can hold at once. Symmetry over contexts is sound: they are
compared for nothing but who points to them, and a new one is any that nobody
points to. Two bookmarks of different kind and two folders inside each other are
all the cases `FindContainingBookmark`, selection and removal distinguish.

`parts` has, with the bounds in `parts.cfg` and the sets in `MCParts`: lists cut
at 2 of which 2 texts are entered in a session, one trimmed, one not, one blank;
a page of 2 entries with a history of just one page and one of a page and a
half, each with a revision others may still commit, 2 dialogs, 1 foreign
action; 4 columns of which one is hidden by a reset; 5 items (the folder, one
below it, two files whose order by name and by name without extension is
opposite, a third whose name differs from one of theirs only in case) in eight
states of the disk with each status the filters tell apart, 2 selected; 2
messages, 2 actions with 2 commits, 2 notifications and 2 externals each; 3
temporary files fetched at most 2 at a time; two repositories on one host and
one on another whose name begins with that of the first, working copies beside,
inside and apart from each other, two of them and two folders of one with names
that begin alike, and folders that are none. In each the boundary comes up (a
list that overflows, a page that ends with the history and one that does not).
Deadlock is not checked: dialogs, actions and temporary files have bounds at
which behaviours end.

Several properties exempt what the code gets wrong, each by one history variable
that says so in its module, and section 4 tells of them: `lost` (the folder
selected is gone after a refresh), `misread` (details read after a sort), a
request refused or failed (`MoreIfEntriesRemain`), `unsynced` (`ResetColumns`
leaves the menu), `misled` (an obstructed item without a row), `tainted` (counts
left by a failed update, external or merge), `orphans` (a failed fetch, one that
ends after quitting, earlier sessions, one the system refuses to remove),
`Indistinct` (what drag and drop does not tell apart) and `TakenForTheSame`
(what it takes for the same because of the character too many). The properties
hold of every behaviour in which that has not happened.

`ListCatchesUp` excludes actions that finished in spite of a Stop: the cancel
flag then also cancels the refresh at the end, as the code has it.

**Fairness.** `WF` for the worker's steps (the operating system schedules the
thread and every Perform ends), for dispatching events (the event loop runs,
nested or not) and for closing the innermost dialog (the user answers). Nothing
is assumed of commands, Stop or activation. For the listener: `WF` for each
thread's continuation. The browser and the parts state safety only and assume
no fairness.

**Deadlock** is checked in the frame's runs: activation and new commands keep
the frame live, and in the browser's. In the listener's it is not, a run ends
when all prompts were asked; nor in `parts`.

**Mutants.** Each property of a passing run is paired with a faulty variant of a
definition, kept in a section "Faulty variants" before the definition: a pointer
not cleared, a missing return in a catch block, a state not reset, the cancel
flag not reset, the action published too early, a page of just
the limit taken for one with a rest, an entry not taken from its old place in a
list, a clean flag set before the lists are written.

## 4. Findings

1. `refused_leak`: a refused action is never deleted, though `action_worker.hpp`
   tells the caller to. The window is real: END enables the commands before the
   worker has cleared its pointer.
2. `lost_action`: an accepted action can be overwritten and then is neither run
   nor released, when another one was started from inside its Prepare.
3. `refresh_running`: `OnActivate` refreshes during an action, against its
   comment.
4. `listener_woken`: a prompt answered in the main thread wakes a worker that
   waits for its own prompt.
5. `listener_hang`: after a prompt of the worker the mutex stays locked, and a
   prompt of the main thread blocks the interface.
6. `browser_context`: with no action running, the login mode is changed in the
   preferences. The contexts are deleted and replaced, the frame still points to
   one of the old ones, and the next command hands it to the worker.

Not stated as a run: if the user closes a dialog before the worker has reached
`Wait`, the broadcast is lost and the worker waits for ever; `AnswersGetThrough`
is therefore about a worker that already waits. In reentrant mode END may carry
the flags of the overwriting action, so that the list is not refreshed.

Further disagreements met while reading, exempted from a property or left out,
file by file (`librapidsvn/src` unless said otherwise):

* `log_dlg.cpp`, `log_action.cpp`: closing the dialog with a request outstanding
  lets the answer call a dialog that is gone (the model ends there, `undefined`);
  a request that is refused or fails leaves the button More disabled; after the
  list was sorted, details and prior revision take the row for the entry's index;
  the last loaded row's Diff compares with BASE; `LogNextAction` asks
  `GetTarget()` and not the path it was given.
* `filelist_ctrl.cpp`, columns: a reset does not tell the sort menu; Sort by Path
  stays enabled; `SetSortColumn` allows `col <= COL_COUNT`; `ReadConfig` may keep
  a sort column that is hidden.
* `filelist_ctrl.cpp`, selection: an obstructed selected item has no row while
  unversioned items are hidden, and its neighbour gets selected; in flat mode
  the order by path is not transitive; also outside it the order is not unique,
  as the comment at 463-471 has it: all comparisons ignore case (`CmpNoCase`,
  274-293, 336, 397), so that Makefile and makefile in one folder tie when the
  columns do and stand as the control's sort happens to leave them; a refresh
  nested in another's login prompt adds every row twice. Commands fall back to
  the tree's folder when a refresh drops the selection, and a restored selection
  makes the list the active pane (`main_frame.cpp:576`).
* `listener.cpp`, `libsvncpp/src/context.cpp`: counts are left over by a failed
  update, external or merge; `onSslServerTrustPrompt` leaves two fields of the
  credential uninitialised for a temporary acceptance; `TraceDefaultMessage`
  indexes before it tests the bound.
* `rapidsvn_app.cpp`, `action.cpp`: the file of a failed fetch is never
  registered; to register one with the preference off forgets those before; what
  is fetched after the purge remains; a removal that fails goes unnoticed (169).
* `drag_n_drop_action.cpp`: `SubString(0, i)` (129) ends with the first
  character of the source that does not match. If that is a slash, the base has
  one name more than the paths have in common: /w/trunk/f dropped on
  /w/trunk-old gets the base /w/trunk, passes for a file of the same working
  copy, and copy or move is offered where the table above says add; likewise a
  file of http://h1 dropped on http://h10, where it says nothing. Two
  repositories of one host count as one; two working copies that share only the
  root are told apart by the working directory; an imported folder is never
  imported recursively; the first file decides for all; moving stops at the
  first failure.

## 5. Proofs

`MainFrameProofs` proves for every set of actions, flags and log actions, every
`MaxDepth` and both values of `Reentrant`, from the constants' assumptions alone
(`None` is no action; `Flags`, `LogActions`, `MaxDepth` and `Reentrant` have
their types):

* `Invariance`: `Spec => []IInv`
* `TypeCorrect`, `NeverUsesFreed`, `NeverFreesTwice`, `NeverPerformsTwice`,
  `OnlyAccepted`, `StopIsForItsAction`: the six invariants of `frame_reentrant`.

None of the properties is inductive alone. That the worker does not use a freed
object depends on who may still post or dispatch a deletion of it, so `IInv`
joins: `PointerInv` (what the worker thread finds behind the pointer and in its
hands is accepted, live, and no deletion of it is pending; before Perform it has
not been performed), `QueueInv` (a pending deletion names an accepted live
object, a request one that does not exist yet, and no two events agree on token
and object), `StackInv` (an action waiting in Prepare is live, not accepted and
waits only once), `HeapInv` (an accepted action exists, only accepted ones were
performed, and once), and `StopInv` (the cancel flag is never set while a
Prepare waits, and otherwise only with a stop recorded for what the worker has).
The nested overwriting does not break it: the overwritten object is accepted,
live and out of reach. Each action of `Next` has a lemma per part it can
disturb; lemmas on appending to and taking from the queue are stated once. TLC
checked `IInv` on the reentrant instance before it was proved.

`ListenerProofs` proves of `Listener`, for any prompts and kinds:

* `ListenerTypes`: `Spec => []TypeOK`, whether or not prompts overlap.
* `OwnAnswer`, `DoneBeforeGoingOn`: where they do not overlap (`Overlap =
  FALSE`), every prompt returns the user's answer to it, and the worker does not
  go on before. The inductive invariant joins `TypeOK`, `AnswersMatch` and
  `OneAtATime`. The last is needed because `dataReceived` and the answer fields
  belong to no prompt: it says that a signal, a dialog or a waiting worker are
  about the only prompt under way, in one of three phases (the worker is idle,
  has asked, has been told), and what flag and fields hold in each.

`PromiseProofs` proves of `MainFrame`, for any actions and flags and any depth of
dialogs, where no event starts an action inside another's Prepare:

* `PromiseKept`: `Spec => KeepsPromise`. Initial states map to initial states,
  and every step of frame and worker is a step of `ActionWorker` on the status
  of one action, or leaves all statuses alone. `OneActionAtATime` is
  `ActionWorker`'s own invariant, carried over by the mapping.
* `StateTruthful`, `ListHasCaughtUp`: `StateIsTruthful` and `ListCatchesUp`.

`PInv` adds to `IInv` what only holds without nesting: one Prepare at a time,
and nothing published while it waits (`AloneInv`); the pointer names the object
the thread works on until it is cleared, and that object was run before its
deletion is posted (`WorkInv`, false as soon as an action can be overwritten); a
refused action gets no further (`RefusedInv`). For the list `UnseenInv` says
that whatever it does not show yet has a reason: a Stop, an exception that was
posted, or a refresh on its way.

`BrowserFrameProofs` proves all seven properties of the run `browser`
(`TypeCorrect`, `ContextsExist`, `LoginsAreSeparate`, `PathIsSelection`,
`ListStaysFresh`, `OneRefreshAtATime`, `CheckoutEndsOnItsBookmark`), for every
tree of folders, any number of bookmarks, actions, refreshes and restarts, where
the user leaves bookmarks and tree alone during an action (`~WhileRunning`).
Only `ContextsExist` also needs that the login mode is left alone
(`~Switching`), and `browser_context` shows that it fails otherwise; TLC finds
no counterexample to the other six on the instance of `browser` with `Switching
= TRUE` either (396,144 states). The frame is in one of five phases: `Idle`,
`Working`, `Ended` (what the action posted is in the queue), `Adding` (a
checkout's new bookmark waits for a login, inside whose event loop the END may
be dispatched), `Refreshing`. Each phase fixes what is queued, what waits, and
how path, selection, context and list correspond; the lemmas go from phase to
phase. That a removed bookmark does not take the frame's context along rests on
removal selecting the root first. The lemmas on FolderBrowser's operators say
what each keeps of `Whole`: tree, bookmarks and contexts belong together.
Assumed are that every folder is below a bookmark (`AcyclicAssumption`), that
there are more context identities than the frame, the bookmarks and replaced
ones can hold (`HeapAssumption`: allocation succeeds), and that "no job" is no
job (`JobAssumption`).

`ListProofs` proves, for any number of columns and any items:

* `ClickSorts`, `SortShown`, `MenuIsRight`. A column's place in the header is
  the number of visible columns before it, and place and hidden ones before it
  give the column back, which is what `GetRealColumn` counts (`ColInv`). The
  menu lags by exactly the events still posted (`MenuInv`).
* `RowsSorted`, `SelectionIsKept`. Of two items `CompareItems` puts at most one
  before the other, neither only if their names are alike but for case, and not
  to come after is transitive (`Order`: by class, then key, then name and
  extension), so that the order of neighbours a sort leaves gives the order of
  all rows. Without flat mode, that is; in it the code's order is not transitive
  (section 4). `ListInv` joins that each item found has one row and the
  selection restored row by row by the loop that fills the list is of the same
  items.

`LogProofs` proves, for any history, page length, dialogs and other actions:

* `PagesAreContiguous`, `MoreIsRight`. While the dialog is open its entries are
  the beginning, in descending order, of the history it was opened on, whatever
  is committed meanwhile (`Committed`: a request names its first revision, and
  what was committed since is above it; `NewerAreAbove`), `next` is the entry
  after them, and there is at most one request or answer of this dialog under
  way, which is for that page; More is disabled meanwhile (`PageInv`). Answers
  to closed dialogs are told apart by the dialog they name.
* `DetailsAreOfSelection`, `DiffIsOfTheChange`. Rows and entries are in
  one-to-one correspondence whatever the order (`RowsInv`), the loop that
  reduces the selection to two rows ends and keeps two of them (at most three
  can be selected when it begins), and the details are of the rows that are left
  (`SelectionInv`).

`PartsProofs` proves, from the components' own initial states and steps, for any
messages, temporary files, lists, texts, paths and bounds:

* `NoForeignMessage`: while an action runs, a message that counts as set was
  given for this action (`MessageInv`), because every action begins with a
  reset.
* `SummaryIsRight`: unless tainted, the counter is what this update did and
  `externalCounter` the number of externals under way (`SummaryInv`).
* `NothingIsLeft`, `NothingElseIsPurged`: each file on disk is remembered, being
  fetched, or an orphan; the one being fetched is new, so it is neither unwanted
  nor remembered (`TempInv`).
* `StoredWhole`, `CleanIsStored`: each list has been left untouched, is half
  written with its count still 0, or is finished (`WriteInv`, by list), so a
  crash between any two values leaves one of the three outcomes.
* `MostRecentFirst`: a list that dialogs fill is clean, without repetition and
  ordered by when its texts were last entered (`OrderInv`); a list that was cut
  and stored is so in the next session.
* `DropsFollowTable`: what the dragged file's folder and the destination have in
  common is the longest path on which both lie, and there is one such path; the
  base path is this, or one name of the source more (`SlashDiffers`). So it
  tells one repository or working copy from another wherever neither
  `Indistinct` nor `TakenForTheSame` holds, and is the same for all files of a
  folder. Then `Prepare` decides for all of them what it would decide for each
  alone, which is the line of the table, or nothing as soon as one alone would
  get nothing. `DropAssumption` says that URLs are in repositories, and that
  between a versioned folder and the root of some working copy all folders are
  versioned.

`NumberFacts` proves the existence of a smallest number in a set, and induction
as a fact about sets of numbers: loops in the models are recursive functions or
turns of a loop stated as a function, and what they compute is proved by it.

Constants are assumed to have their types and distinguished values to be
distinct, and what is named above, nothing else. TLC evaluates every assumption
in the runs.

Only model-checked: liveness (`UIRecovers`, `KeepsPromiseFairly`,
`AnswersGetThrough`), which is out of the prover's reach, and the six
counterexamples. Every safety property of a passing run is a theorem, those of
`frame_alone` in the mode in which the run checks them, those of `browser` also
where the login mode changes, but for `NoDanglingContext`.

## 6. Plan

What is left, in this order:

1. BrowserFrame with bookmarks and tree changed during an action
   (`WhileRunning`). `CommandsUseSelection` and `NoNestedTreeRefresh` fail
   there; for the types and separate logins an action's own context needs one
   more identity per instance, and the invariant has to let phases overlap.
2. The active pane and the events by which the toolkit reports focus and
   selection (`main_frame.cpp:576`), composed with `FileList`.
3. Shutdown with an action running, beyond the temporary files.
4. `SimpleWorker` as a second implementation of `ActionWorker`, should it be
   built again. Its catch blocks neither delete the action nor reset the state.

**Not modelled, and why.**

* The greater part of the source by lines is generated interface code, headers
  that declare, bitmaps as byte arrays, the layout of dialogs and translations:
  no state that a property could be about.
* The wrappers in `libsvncpp` fill in arguments and call the Subversion library,
  which is a source of outcomes here (succeeds, fails, throws, prompts,
  notifies). Their value classes convert strings, for which the repository has
  unit tests.
* The actions' `CheckStatusSel` and `Prepare` are a table and dialogs; nothing
  states a second time which selections a command is for, so that a property
  would repeat the code. Uninitialised members and wrong indices of single
  dialogs (`update_dlg`, `checkout_dlg`, `export_dlg`, `merge_dlg`,
  `external_program_action`) are questions of one function, found by reading.
* `SimpleWorker` is built only when USE_SIMPLE_WORKER is defined, and the
  definition is commented out (`config.hpp:35`).
* Text comparison in `FindContainingBookmark`: in the model paths are nodes and
  prefixes are ancestors.
* The lists of a refresh nested in another's login prompt, and `MoveAction`'s
  loop over several targets: of a partial failure only the refresh that follows
  it is modelled (`ListCatchesUp`).
