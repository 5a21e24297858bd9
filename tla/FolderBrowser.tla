--------------------------- MODULE FolderBrowser ---------------------------
(***************************************************************************)
(* librapidsvn/src/folder_browser.cpp: the bookmarks, the svn::Context     *)
(* each of them owns, and the tree of bookmarks and folders.               *)
(*                                                                         *)
(* The state is FolderBrowser::Data; every operator maps one value of it   *)
(* to the next, and module BrowserFrame strings them together to the       *)
(* handlers of the main frame.  Paths are nodes of a constant tree: what   *)
(* is on disk below a bookmark is a set of them.                           *)
(***************************************************************************)
EXTENDS Naturals, Sequences, FiniteSets

CONSTANTS
    Bookmarks,  \* the paths and urls that may be bookmarked
    Urls,       \* those of them that are urls
    Folders,    \* the folders that may be found below a bookmark
    FolderIn,   \* the folder or bookmark each folder is in
    Root,       \* the node "Bookmarks"; as a path the empty string
    Contexts,   \* identities of heap-allocated contexts
    Default,    \* the member defaultContext, which is never deleted
    None

ASSUME TreeAssumption ==
    /\ Urls \subseteq Bookmarks
    /\ FolderIn \in [Folders -> Folders \cup Bookmarks]
    /\ Bookmarks \cap Folders = {}
    /\ Root \notin Bookmarks \cup Folders
    /\ None \notin Bookmarks

\* Every folder is somewhere below a bookmark: there is no cycle.
ASSUME AcyclicAssumption ==
    \A S \in SUBSET Folders : S # {} => \E f \in S : FolderIn[f] \notin S

ASSUME ContextAssumption == /\ {Default, None} \cap Contexts = {}
                            /\ Default # None

\* Memory for a new context never runs out: there are more identities than
\* bookmarks, frame and new bookmarks can hold at the same time.
ASSUME HeapAssumption ==
    /\ IsFiniteSet(Bookmarks) /\ IsFiniteSet(Contexts)
    /\ Cardinality(Contexts) > 2 * Cardinality(Bookmarks)
    /\ Cardinality(Contexts) > 2

VARIABLES
    fb,         \* FolderBrowser::Data
    present     \* the folders that are on disk (or in the repository)

Nodes == Folders \cup Bookmarks \cup {Root}

Bookmark == [ctx: Contexts \cup {None}, flat: BOOLEAN]

\* nodes: the items below the root that the tree holds; open: the expanded
\* items.  freed: deleted contexts that somebody still points to.
Data == [bm: UNION {[S -> Bookmark] : S \in SUBSET Bookmarks},
         single: Contexts \cup {None},
         nodes: SUBSET (Nodes \ {Root}),
         open: SUBSET Nodes,
         sel: Nodes,
         freed: SUBSET Contexts]

\* The nodes from n up to the root.
Ancestry[n \in Nodes] ==
    {n} \cup (IF n = Root THEN {}
              ELSE IF n \in Bookmarks THEN {Root}
              ELSE Ancestry[FolderIn[n]])

Below(n) == {m \in Nodes : n \in Ancestry[m]} \ {n}

NodeIn(n) == IF n \in Bookmarks THEN Root ELSE FolderIn[n]

\* GetSelectedBookmarkId: up in the hierarchy until there is a bookmark.
BookmarkOf(n) ==
    IF Ancestry[n] \cap Bookmarks = {} THEN None
    ELSE CHOOSE b \in Bookmarks : b \in Ancestry[n]

-----------------------------------------------------------------------------
(* The tree                                                                *)

\* What OnExpandItem appends: one node for each bookmark, or the folders
\* that the status of the node lists (none if that fails).
Children(o, n) == IF n = Root THEN DOMAIN o.bm
                  ELSE {f \in present : FolderIn[f] = n}

Expand(o, n) ==
    IF n \in o.open THEN o
    ELSE [o EXCEPT !.nodes = @ \cup Children(o, n), !.open = @ \cup {n}]

\* OnCollapseItem deletes what is below.  wxTreeCtrl moves a selection that
\* goes with it to the collapsed item.
Collapse(o, n) ==
    [o EXCEPT !.nodes = @ \ Below(n),
              !.open = @ \ (Below(n) \cup {n}),
              !.sel = IF @ \in Below(n) THEN n ELSE @]

SelectBookmark(o, b) == IF b \in o.nodes THEN [o EXCEPT !.sel = b] ELSE o

-----------------------------------------------------------------------------
(* A faulty variant of the definition below.                               *)

\* SelectFolder selects what the search ended with, found or not.
SelectFolderAnyway(o, path) ==
    LET b        == BookmarkOf(o.sel)
        OnTheWay == {n \in Ancestry[path] : b \in Ancestry[n]}
        Reached  == {n \in OnTheWay :
                        \A m \in (OnTheWay \cap Ancestry[n]) \ {b} :
                            m \in Expand(o, NodeIn(m)).nodes}
        Opened   == Reached \ {path}
    IN  IF path = Root THEN [o EXCEPT !.sel = Root]
        ELSE IF b = None THEN o
        ELSE [o EXCEPT
                !.nodes = @ \cup UNION {Children(o, n) : n \in Opened \ o.open},
                !.open = @ \cup Opened,
                !.sel = IF path \in Reached THEN path ELSE None]

-----------------------------------------------------------------------------
\* SelectFolder: from the selected bookmark down to path, expanding what is
\* on the way, as far as there are nodes.  Only the full path is selected.
SelectFolder(o, path) ==
    LET b        == BookmarkOf(o.sel)
        OnTheWay == {n \in Ancestry[path] : b \in Ancestry[n]}
        Reached  == {n \in OnTheWay :
                        \A m \in (OnTheWay \cap Ancestry[n]) \ {b} :
                            m \in Expand(o, NodeIn(m)).nodes}
        Opened   == Reached \ {path}
    IN  IF path = Root THEN [o EXCEPT !.sel = Root]
        ELSE IF b = None THEN o
        ELSE [o EXCEPT
                !.nodes = @ \cup UNION {Children(o, n) : n \in Opened \ o.open},
                !.open = @ \cup Opened,
                !.sel = IF path \in Reached THEN path ELSE @]

\* FindContainingBookmark takes the first bookmark whose text the path begins
\* with.  Here no bookmark's text is the beginning of a sibling's.
ContainingBookmarks(o, path) == {b \in DOMAIN o.bm : b \in Ancestry[path]}

-----------------------------------------------------------------------------
(* Contexts                                                                *)

OwnedContexts(o) == {o.single} \cup {o.bm[b].ctx : b \in DOMAIN o.bm}

\* One new context for each member of S, none of which the set used holds.
\* An identity nobody points to any more serves again.
NewContexts(S, used) ==
    CHOOSE new \in [S -> Contexts \ used] :
        \A x, y \in S : new[x] = new[y] => x = y

\* GetContext of the selection.
GetContext(o) ==
    LET b == BookmarkOf(o.sel)
    IN  IF o.single # None THEN o.single
        ELSE IF b = None THEN Default
        ELSE IF b \in DOMAIN o.bm THEN o.bm[b].ctx ELSE None

\* GetSelectedBookmark: None stands for InvalidBookmark.
SelectedBookmark(o) ==
    IF BookmarkOf(o.sel) \in DOMAIN o.bm THEN BookmarkOf(o.sel) ELSE None

IsFlat(o) == SelectedBookmark(o) # None /\ o.bm[SelectedBookmark(o)].flat

SetFlat(o, flat) ==
    IF SelectedBookmark(o) = None THEN o
    ELSE [o EXCEPT !.bm[SelectedBookmark(o)].flat = flat]

-----------------------------------------------------------------------------
(* Faulty variants of definitions below: bugs the properties must notice.  *)

\* AddBookmark deletes the context of the entry it overwrites.
AddBookmarkDeletes(o, b, used) ==
    LET old == IF b \in DOMAIN o.bm THEN {o.bm[b].ctx} \ {None} ELSE {}
        new == NewContexts({b}, used)
        ctx == IF o.single = None THEN new[b] ELSE None
    IN  [o EXCEPT !.bm = [x \in DOMAIN @ \cup {b} |->
                            IF x = b THEN [ctx |-> ctx, flat |-> FALSE]
                            ELSE @[x]],
                  !.freed = (@ \ {ctx}) \cup old]

\* AddBookmark gives the new entry a context only when it was not there.
AddBookmarkOnce(o, b, used) ==
    LET new == NewContexts({b}, used)
        ctx == IF o.single = None /\ b \notin DOMAIN o.bm THEN new[b] ELSE None
    IN  [o EXCEPT !.bm = [x \in DOMAIN @ \cup {b} |->
                            IF x = b THEN [ctx |-> ctx, flat |-> FALSE]
                            ELSE @[x]],
                  !.freed = @ \ {ctx}]

-----------------------------------------------------------------------------
\* AddBookmark: an entry that exists is overwritten by a new one; the
\* context it pointed to is neither kept nor deleted.
AddBookmark(o, b, used) ==
    LET new == NewContexts({b}, used)
        ctx == IF o.single = None THEN new[b] ELSE None
    IN  [o EXCEPT !.bm = [x \in DOMAIN @ \cup {b} |->
                            IF x = b THEN [ctx |-> ctx, flat |-> FALSE]
                            ELSE @[x]],
                  !.freed = @ \ {ctx}]

\* RemoveBookmark after it has selected the root: the node is deleted and
\* the map's entry with its context.
RemoveBookmark(o, b) ==
    [o EXCEPT !.nodes = @ \ (Below(b) \cup {b}),
              !.open = @ \ (Below(b) \cup {b}),
              !.bm = [x \in DOMAIN @ \ {b} |-> @[x]],
              !.freed = @ \cup ({o.bm[b].ctx} \ {None})]

\* SetAuthPerBookmark: with true the single context is deleted and every
\* bookmark gets a new one, whether it had one or not; with false the
\* bookmarks' contexts are deleted and there is a new single one.
SetAuthPerBookmark(o, perBookmark, used) ==
    IF perBookmark
    THEN LET new == NewContexts(DOMAIN o.bm, used)
         IN  [o EXCEPT !.single = None,
                       !.bm = [b \in DOMAIN @ |-> [@[b] EXCEPT !.ctx = new[b]]],
                       !.freed = (@ \ {new[b] : b \in DOMAIN o.bm})
                                     \cup ({o.single} \ {None})]
    ELSE LET new == NewContexts({None}, used)[None]
         IN  [o EXCEPT !.single = new,
                       !.bm = [b \in DOMAIN @ |-> [@[b] EXCEPT !.ctx = None]],
                       !.freed = (@ \ {new}) \cup
                            ({o.bm[b].ctx : b \in DOMAIN o.bm} \ {None})]

\* WriteConfig at the end of one session and ReadConfig at the start of the
\* next: paths and settings are kept, contexts are not.
Reloaded(o, resetFlatModeOnStart) ==
    [o EXCEPT !.bm = [b \in DOMAIN @ |->
                        [ctx |-> None,
                         flat |-> @[b].flat /\ ~resetFlatModeOnStart]],
              !.single = None, !.nodes = {}, !.open = {}, !.sel = Root,
              !.freed = {}]
=============================================================================
