------------------------- MODULE BrowserFrameProofs -------------------------
(***************************************************************************)
(* Proofs about BrowserFrame for a user who leaves bookmarks and tree      *)
(* alone while an action runs: for every tree of folders, every set of     *)
(* bookmarks and any number of actions, refreshes and restarts.  Only that *)
(* no deleted context is used needs that the user does not change between  *)
(* the two ways of logging in.                                             *)
(*                                                                         *)
(* At any time the frame is in one of five phases, which say what is       *)
(* posted to it, what it waits for and how path, list and selection        *)
(* correspond; the proof follows them from step to step.  Before it come   *)
(* the lemmas about FolderBrowser's operators: what each of them keeps of  *)
(* the correspondence between tree, bookmarks and contexts.                *)
(***************************************************************************)
EXTENDS BrowserFrame, FiniteSetTheorems, FunctionTheorems, TLAPS

-----------------------------------------------------------------------------
(* The tree of nodes                                                       *)

\* Where the way up from a node leads next.
Up(n) == IF n = Root THEN {} ELSE IF n \in Bookmarks THEN {Root}
         ELSE {FolderIn[n]}

\* A set of nodes from which no way up leads out.
Closed(T) == \A n \in T : Up(n) \subseteq T

\* Going up once stays inside the tree.
LEMMA UpInNodes ==
    ASSUME NEW n \in Nodes
    PROVE  /\ Up(n) \subseteq Nodes
           /\ n = Root => Up(n) = {}
           /\ n \in Bookmarks => n # Root /\ Up(n) = {Root}
           /\ n \in Folders => /\ n # Root /\ n \notin Bookmarks
                               /\ Up(n) = {FolderIn[n]}
                               /\ FolderIn[n] \in Folders \cup Bookmarks
           /\ n = Root \/ n \in Bookmarks \/ n \in Folders
BY TreeAssumption DEF Up, Nodes

\* The recursive definition of Ancestry has a solution: the smallest closed
\* set around each node.
LEMMA AncestryUnfolds ==
    Ancestry = [n \in Nodes |->
                  {n} \cup (IF n = Root THEN {}
                            ELSE IF n \in Bookmarks THEN {Root}
                            ELSE Ancestry[FolderIn[n]])]
<1> DEFINE Body(g) == [n \in Nodes |->
                         {n} \cup (IF n = Root THEN {}
                                   ELSE IF n \in Bookmarks THEN {Root}
                                   ELSE g[FolderIn[n]])]
           G == [n \in Nodes |->
                   {m \in Nodes : \A T \in SUBSET Nodes :
                                     n \in T /\ Closed(T) => m \in T}]
<1>1. ASSUME NEW n \in Nodes
      PROVE  G[n] = Body(G)[n]
  <2>1. n \in G[n]
    OBVIOUS
  <2>2. CASE n = Root
    <3>1. {Root} \in SUBSET Nodes /\ Closed({Root})
      BY DEF Closed, Nodes, Up
    <3>2. G[n] \subseteq {Root}
      BY <2>2, <3>1
    <3> QED BY <2>1, <2>2, <3>2
  <2>3. CASE n \in Bookmarks
    <3>1. n # Root /\ Root \in Nodes
      BY <2>3, UpInNodes DEF Nodes
    <3>2. {n, Root} \in SUBSET Nodes /\ Closed({n, Root})
      BY <2>3, <3>1 DEF Closed, Nodes, Up
    <3>3. G[n] \subseteq {n, Root}
      BY <3>2
    <3>4. Root \in G[n]
      BY <2>3, <3>1 DEF Closed, Up
    <3> QED BY <2>1, <2>3, <3>1, <3>3, <3>4
  <2>4. CASE n \in Folders
    <3> DEFINE p == FolderIn[n]
    <3>1. n # Root /\ n \notin Bookmarks /\ p \in Nodes /\ Up(n) = {p}
      BY <2>4, UpInNodes DEF Nodes
    <3> HIDE DEF p
    <3>2. G[n] \subseteq {n} \cup G[p]
      <4> SUFFICES ASSUME NEW m \in G[n], m # n,
                          NEW T \in SUBSET Nodes, p \in T, Closed(T)
                   PROVE  m \in T
        BY <3>1
      <4>1. T \cup {n} \in SUBSET Nodes /\ Closed(T \cup {n})
        BY <3>1 DEF Closed
      <4>2. m \in T \cup {n}
        BY <4>1
      <4> QED BY <4>2
    <3>3. G[p] \subseteq G[n]
      BY <3>1 DEF Closed
    <3> HIDE DEF G
    <3>4. Body(G)[n] = {n} \cup G[p]
      BY <3>1 DEF p
    <3> QED BY <2>1, <3>2, <3>3, <3>4
  <2> QED BY <2>2, <2>3, <2>4, UpInNodes
<1>2. G = Body(G)
  <2> DEFINE B == Body(G)
  <2>1. G = [n \in Nodes |-> G[n]]
    OBVIOUS
  <2>2. B = [n \in Nodes |-> B[n]]
    OBVIOUS
  <2>3. \A n \in Nodes : G[n] = B[n]
    BY <1>1
  <2> HIDE DEF G, B
  <2>4. G = B
    BY <2>1, <2>2, <2>3
  <2> QED BY <2>4 DEF B
<1>3. Ancestry = CHOOSE g : g = Body(g)
  BY DEF Ancestry
<1> HIDE DEF G, Body
<1>4. Ancestry = Body(Ancestry)
  BY <1>2, <1>3
<1> QED BY <1>4 DEF Body

\* Ancestry by the kind of the node.
LEMMA AncestryOf ==
    /\ Ancestry[Root] = {Root}
    /\ \A b \in Bookmarks : Ancestry[b] = {b, Root}
    /\ \A f \in Folders : Ancestry[f] = {f} \cup Ancestry[FolderIn[f]]
<1> DEFINE Body(n) == {n} \cup (IF n = Root THEN {}
                               ELSE IF n \in Bookmarks THEN {Root}
                               ELSE Ancestry[FolderIn[n]])
<1>1. \A n \in Nodes : Ancestry[n] = Body(n)
  <2>1. Ancestry = [n \in Nodes |-> Body(n)]
    BY AncestryUnfolds
  <2> HIDE DEF Body
  <2> QED BY <2>1
<1>2. Root \in Nodes /\ Bookmarks \subseteq Nodes /\ Folders \subseteq Nodes
  BY DEF Nodes
<1>3. Ancestry[Root] = {Root}
  BY <1>1, <1>2
<1>4. ASSUME NEW b \in Bookmarks PROVE Ancestry[b] = {b, Root}
  BY <1>1, <1>2, UpInNodes
<1>5. ASSUME NEW f \in Folders
      PROVE  Ancestry[f] = {f} \cup Ancestry[FolderIn[f]]
  BY <1>1, <1>2, UpInNodes
<1> QED BY <1>3, <1>4, <1>5

\* Each way up ends at the root and passes exactly one bookmark; what lies
\* on it has its own way up there too.
LEMMA AncestryFacts ==
    ASSUME NEW n \in Nodes
    PROVE  /\ n \in Ancestry[n]
           /\ Root \in Ancestry[n]
           /\ Ancestry[n] \subseteq Nodes
           /\ \A m \in Ancestry[n] : Ancestry[m] \subseteq Ancestry[n]
           /\ n # Root => \E b \in Bookmarks : Ancestry[n] \cap Bookmarks = {b}
<1> DEFINE Good(m) ==
      /\ m \in Ancestry[m]
      /\ Root \in Ancestry[m]
      /\ Ancestry[m] \subseteq Nodes
      /\ \A k \in Ancestry[m] : Ancestry[k] \subseteq Ancestry[m]
      /\ m # Root => \E b \in Bookmarks : Ancestry[m] \cap Bookmarks = {b}
<1>1. Good(Root)
  BY AncestryOf DEF Nodes
<1>2. ASSUME NEW b \in Bookmarks PROVE Good(b)
  <2>1. Ancestry[b] = {b, Root} /\ Ancestry[Root] = {Root}
    BY AncestryOf
  <2>2. Root \notin Bookmarks
    BY TreeAssumption
  <2>3. Ancestry[b] \cap Bookmarks = {b}
    BY <2>1, <2>2
  <2> QED BY <2>1, <2>3 DEF Nodes
<1>3. ASSUME NEW f \in Folders, Good(FolderIn[f]) PROVE Good(f)
  <2> DEFINE p == FolderIn[f]
  <2>1. p \in Folders \cup Bookmarks /\ p # Root /\ f \notin Bookmarks
    BY TreeAssumption
  <2>2. Ancestry[f] = {f} \cup Ancestry[p]
    BY AncestryOf
  <2> HIDE DEF p
  <2>3. Good(p)
    BY <1>3 DEF p
  <2>4. Ancestry[f] \cap Bookmarks = Ancestry[p] \cap Bookmarks
    BY <2>1, <2>2
  <2>5. \A k \in Ancestry[f] : Ancestry[k] \subseteq Ancestry[f]
    BY <2>2, <2>3
  <2> QED BY <2>1, <2>2, <2>3, <2>4, <2>5 DEF Nodes
<1>4. \A f \in Folders : Good(f)
  <2> DEFINE S == {f \in Folders : ~Good(f)}
  <2>1. ASSUME S # {} PROVE FALSE
    <3>1. PICK f \in S : FolderIn[f] \notin S
      BY <2>1, AcyclicAssumption
    <3>2. FolderIn[f] \in Folders \cup Bookmarks
      BY <3>1, TreeAssumption
    <3>3. Good(FolderIn[f])
      BY <1>2, <3>1, <3>2
    <3> QED BY <1>3, <3>1, <3>3
  <2> QED BY <2>1
<1> QED BY <1>1, <1>2, <1>4 DEF Nodes

\* The bookmark of a node: none for the root, otherwise the only one on the
\* way up, which it shares with every node on that way.
LEMMA BookmarkOfFacts ==
    ASSUME NEW n \in Nodes
    PROVE  /\ BookmarkOf(n) \in Bookmarks \cup {None}
           /\ BookmarkOf(n) = None <=> n = Root
           /\ n # Root => Ancestry[n] \cap Bookmarks = {BookmarkOf(n)}
           /\ n \in Bookmarks => BookmarkOf(n) = n
           /\ \A m \in Ancestry[n] \ {Root} : BookmarkOf(m) = BookmarkOf(n)
           /\ n \in Folders => BookmarkOf(n) = BookmarkOf(FolderIn[n])
<1> DEFINE A(m) == Ancestry[m] \cap Bookmarks
<1>1. ASSUME NEW m \in Nodes, m # Root
      PROVE  /\ BookmarkOf(m) \in Bookmarks
             /\ A(m) = {BookmarkOf(m)}
  <2>1. PICK b \in Bookmarks : A(m) = {b}
    BY <1>1, AncestryFacts
  <2>2. BookmarkOf(m) = CHOOSE c \in Bookmarks : c \in Ancestry[m]
    BY <2>1 DEF BookmarkOf
  <2>3. BookmarkOf(m) = b
    BY <2>1, <2>2
  <2> QED BY <2>1, <2>3
<1>2. BookmarkOf(Root) = None
  BY AncestryOf, TreeAssumption DEF BookmarkOf
<1>3. BookmarkOf(n) = None <=> n = Root
  BY <1>1, <1>2, TreeAssumption
<1>4. n \in Bookmarks => BookmarkOf(n) = n
  BY <1>1, AncestryFacts, TreeAssumption
<1>5. ASSUME NEW m \in Ancestry[n] \ {Root}
      PROVE  BookmarkOf(m) = BookmarkOf(n)
  <2>1. m \in Nodes /\ Ancestry[m] \subseteq Ancestry[n] /\ n # Root
    BY AncestryFacts, AncestryOf
  <2>2. A(m) \subseteq A(n) /\ A(m) = {BookmarkOf(m)} /\ A(n) = {BookmarkOf(n)}
    BY <1>1, <2>1
  <2> QED BY <2>2
<1>6. ASSUME n \in Folders PROVE BookmarkOf(n) = BookmarkOf(FolderIn[n])
  <2>1. FolderIn[n] \in Nodes /\ FolderIn[n] # Root
    BY <1>6, TreeAssumption DEF Nodes
  <2>2. FolderIn[n] \in Ancestry[n]
    BY <1>6, <2>1, AncestryOf, AncestryFacts
  <2> QED BY <1>5, <2>1, <2>2
<1> QED BY <1>1, <1>2, <1>3, <1>4, <1>5, <1>6
-----------------------------------------------------------------------------
(* Contexts                                                                *)

\* There is a new context for each member of S as long as enough contexts
\* are left; they differ from those in use and from each other.
LEMMA RoomForContexts ==
    ASSUME NEW S, NEW U, IsFiniteSet(S),
           Cardinality(Contexts \cap U) + Cardinality(S) <= Cardinality(Contexts)
    PROVE  /\ NewContexts(S, U) \in [S -> Contexts \ U]
           /\ \A x, y \in S :
                 NewContexts(S, U)[x] = NewContexts(S, U)[y] => x = y
<1> DEFINE T == Contexts \ U
           s == Cardinality(S)
           t == Cardinality(T)
<1>1. /\ IsFiniteSet(T) /\ s \in Nat /\ t \in Nat
      /\ ExistsBijection(1..s, S) /\ ExistsBijection(1..t, T)
      /\ s <= t
  <2>1. /\ IsFiniteSet(T) /\ IsFiniteSet(Contexts \cap U)
        /\ t = Cardinality(Contexts) - Cardinality(Contexts \cap U)
    BY FS_Difference, FS_Intersection, HeapAssumption
  <2>2. /\ s \in Nat /\ t \in Nat /\ Cardinality(Contexts) \in Nat
        /\ Cardinality(Contexts \cap U) \in Nat
    BY <2>1, FS_CardinalityType, HeapAssumption
  <2> QED BY <2>1, <2>2, FS_CardinalityType
<1> HIDE DEF s, t, T
<1>2. ExistsInjection(S, 1..s)
  <2>1. ExistsBijection(S, 1..s)
    BY <1>1, Fun_ExistsBijSymmetric
  <2> QED BY <2>1 DEF ExistsBijection, ExistsInjection, Bijection
<1>3. ExistsInjection(1..s, 1..t)
  <2>1. [i \in 1..s |-> i] \in Injection(1..s, 1..t)
    BY <1>1 DEF Injection, IsInjective
  <2> QED BY <2>1 DEF ExistsInjection
<1>4. ExistsInjection(1..t, T)
  BY <1>1 DEF ExistsBijection, ExistsInjection, Bijection
<1>5. ExistsInjection(S, T)
  BY <1>2, <1>3, <1>4, Fun_ExistsInjTransitive
<1>6. PICK f \in [S -> T] : \A x, y \in S : f[x] = f[y] => x = y
  BY <1>5 DEF ExistsInjection, Injection, IsInjective
<1>7. \E new \in [S -> Contexts \ U] :
         \A x, y \in S : new[x] = new[y] => x = y
  BY <1>6 DEF T
<1> QED BY <1>7 DEF NewContexts

\* The bookmarks' contexts and one more are few enough.
LEMMA ContextsInUse ==
    ASSUME NEW D \in SUBSET Bookmarks, NEW g \in [D -> Contexts \cup {None}],
           NEW x, NEW U, U \subseteq {g[b] : b \in D} \cup {x, Default, None}
    PROVE  /\ IsFiniteSet(D) /\ Cardinality(D) <= Cardinality(Bookmarks)
           /\ Cardinality(D) \in Nat /\ Cardinality(Bookmarks) \in Nat
           /\ Cardinality(Contexts \cap U) \in Nat
           /\ Cardinality(Contexts \cap U) <= Cardinality(Bookmarks) + 1
<1> DEFINE R == {g[b] : b \in D}
<1>1. /\ IsFiniteSet(D) /\ Cardinality(D) <= Cardinality(Bookmarks)
      /\ Cardinality(D) \in Nat /\ Cardinality(Bookmarks) \in Nat
  BY FS_Subset, FS_CardinalityType, HeapAssumption
<1>2. g \in Surjection(D, R)
  BY DEF Surjection
<1>3. /\ IsFiniteSet(R) /\ Cardinality(R) <= Cardinality(D)
      /\ Cardinality(R) \in Nat
  BY <1>1, <1>2, FS_Surjection, FS_CardinalityType
<1> HIDE DEF R
<1>4. /\ IsFiniteSet(R \cup {x})
      /\ Cardinality(R \cup {x}) <= Cardinality(R) + 1
      /\ Cardinality(R \cup {x}) \in Nat
  BY <1>3, FS_AddElement, FS_CardinalityType
<1>5. Contexts \cap U \in SUBSET (R \cup {x})
  BY ContextAssumption DEF R
<1>6. /\ IsFiniteSet(Contexts \cap U)
      /\ Cardinality(Contexts \cap U) <= Cardinality(R \cup {x})
      /\ Cardinality(Contexts \cap U) \in Nat
  BY <1>4, <1>5, FS_Subset, FS_CardinalityType
<1> QED BY <1>1, <1>3, <1>4, <1>6

\* Two contexts are always few enough.
LEMMA TwoInUse ==
    ASSUME NEW x, NEW y, NEW U, U \subseteq {x, y, Default, None}
    PROVE  /\ Cardinality(Contexts \cap U) \in Nat
           /\ Cardinality(Contexts \cap U) <= 2
<1>1. Contexts \cap U \in SUBSET ({x} \cup {y})
  BY ContextAssumption
<1>2. IsFiniteSet({x}) /\ Cardinality({x}) = 1
  BY FS_Singleton
<1>3. /\ IsFiniteSet({x} \cup {y})
      /\ Cardinality({x} \cup {y}) <= 2
      /\ Cardinality({x} \cup {y}) \in Nat
  <2>1. /\ IsFiniteSet({x} \cup {y})
        /\ \/ Cardinality({x} \cup {y}) = Cardinality({x})
           \/ Cardinality({x} \cup {y}) = Cardinality({x}) + 1
    BY <1>2, FS_AddElement
  <2> QED BY <1>2, <2>1
<1> QED BY <1>1, <1>3, FS_Subset, FS_CardinalityType

-----------------------------------------------------------------------------
(* What holds of the browser's data between two operations                 *)

\* The bookmark of every node in the tree is in the map.
Known(o) == \A n \in o.nodes \cup o.open \cup {o.sel} :
                BookmarkOf(n) \in DOMAIN o.bm \cup {None}

\* A single login, or one of its own for each bookmark.
Logins(o) ==
    IF o.single # None
    THEN \A b \in DOMAIN o.bm : o.bm[b].ctx = None
    ELSE \A b \in DOMAIN o.bm :
            /\ o.bm[b].ctx # None
            /\ \A c \in DOMAIN o.bm \ {b} : o.bm[c].ctx # o.bm[b].ctx

Whole(o) == o \in Data /\ Known(o) /\ Logins(o)

\* Only the tree differs.
SameBookmarks(p, o) == p.bm = o.bm /\ p.single = o.single /\ p.freed = o.freed

\* The types of the members.
LEMMA DataFields ==
    ASSUME NEW o \in Data
    PROVE  /\ DOMAIN o.bm \in SUBSET Bookmarks
           /\ o.bm \in [DOMAIN o.bm -> Bookmark]
           /\ o.single \in Contexts \cup {None}
           /\ o.nodes \in SUBSET (Nodes \ {Root})
           /\ o.open \in SUBSET Nodes
           /\ o.sel \in Nodes
           /\ o.freed \in SUBSET Contexts
<1>1. o.bm \in UNION {[S -> Bookmark] : S \in SUBSET Bookmarks}
  BY DEF Data
<1>2. PICK S \in SUBSET Bookmarks : o.bm \in [S -> Bookmark]
  BY <1>1
<1> QED BY <1>2 DEF Data

\* Other bookmarks and contexts under the same tree.
WithBookmarks(o, m, c, F) == [o EXCEPT !.bm = m, !.single = c, !.freed = F]

LEMMA BookmarksUpdate ==
    ASSUME NEW o \in Data, NEW D \in SUBSET Bookmarks, NEW m \in [D -> Bookmark],
           NEW c \in Contexts \cup {None}, NEW F \in SUBSET Contexts
    PROVE  /\ WithBookmarks(o, m, c, F) \in Data
           /\ WithBookmarks(o, m, c, F).bm = m
           /\ WithBookmarks(o, m, c, F).single = c
           /\ WithBookmarks(o, m, c, F).freed = F
           /\ WithBookmarks(o, m, c, F).nodes = o.nodes
           /\ WithBookmarks(o, m, c, F).open = o.open
           /\ WithBookmarks(o, m, c, F).sel = o.sel
<1>1. m \in UNION {[S -> Bookmark] : S \in SUBSET Bookmarks}
  OBVIOUS
<1> QED BY <1>1 DEF WithBookmarks, Data

\* Another tree over the same bookmarks.
WithTree(o, N, E, s) == [o EXCEPT !.nodes = N, !.open = E, !.sel = s]

LEMMA TreeUpdate ==
    ASSUME NEW o, Whole(o),
           NEW N \in SUBSET (Nodes \ {Root}), NEW E \in SUBSET Nodes,
           NEW s \in Nodes,
           \A n \in N \cup E \cup {s} : BookmarkOf(n) \in DOMAIN o.bm \cup {None}
    PROVE  /\ Whole(WithTree(o, N, E, s))
           /\ SameBookmarks(WithTree(o, N, E, s), o)
           /\ WithTree(o, N, E, s).nodes = N
           /\ WithTree(o, N, E, s).open = E
           /\ WithTree(o, N, E, s).sel = s
<1> DEFINE p == WithTree(o, N, E, s)
<1>1. o \in Data
  BY DEF Whole
<1>2. /\ p.bm = o.bm /\ p.single = o.single /\ p.freed = o.freed
      /\ p.nodes = N /\ p.open = E /\ p.sel = s
      /\ p \in Data
  BY <1>1 DEF WithTree, Data
<1> HIDE DEF p
<1>3. Known(p) /\ Logins(p)
  BY <1>2 DEF Known, Logins, Whole
<1> QED BY <1>2, <1>3 DEF SameBookmarks, Whole, p

-----------------------------------------------------------------------------
(* Operations on the tree                                                  *)

LEMMA ExpandFacts ==
    ASSUME NEW o, Whole(o), present \in SUBSET Folders,
           NEW n \in Nodes, BookmarkOf(n) \in DOMAIN o.bm \cup {None}
    PROVE  LET p == Expand(o, n)
           IN  /\ Whole(p) /\ SameBookmarks(p, o)
               /\ p.sel = o.sel /\ o.nodes \subseteq p.nodes
               /\ n = Root /\ Root \notin o.open => DOMAIN o.bm \subseteq p.nodes
<1>1. CASE n \in o.open
  BY <1>1 DEF Expand, SameBookmarks
<1>2. CASE n \notin o.open
  <2> DEFINE C == Children(o, n)
             N == o.nodes \cup C
             E == o.open \cup {n}
  <2>1. o \in Data
    BY DEF Whole
  <2>2. /\ C \in SUBSET (Nodes \ {Root})
        /\ \A m \in C : BookmarkOf(m) \in DOMAIN o.bm \cup {None}
        /\ n = Root => C = DOMAIN o.bm
    <3>1. CASE n = Root
      BY <2>1, <3>1, DataFields, BookmarkOfFacts, TreeAssumption
      DEF Children, Nodes
    <3>2. CASE n # Root
      <4>1. C = {f \in present : FolderIn[f] = n}
        BY <3>2 DEF Children
      <4>2. \A f \in Folders : f \in Nodes \ {Root}
        BY TreeAssumption DEF Nodes
      <4>3. \A f \in C : BookmarkOf(f) = BookmarkOf(n)
        BY <4>1, <4>2, BookmarkOfFacts
      <4> QED BY <3>2, <4>1, <4>2, <4>3
    <3> QED BY <3>1, <3>2
  <2> HIDE DEF C
  <2>3. /\ N \in SUBSET (Nodes \ {Root}) /\ E \in SUBSET Nodes
        /\ o.sel \in Nodes
        /\ \A m \in N \cup E \cup {o.sel} : BookmarkOf(m) \in DOMAIN o.bm \cup {None}
    BY <2>1, <2>2, DataFields DEF Whole, Known
  <2>4. Expand(o, n) = WithTree(o, N, E, o.sel)
    BY <1>2, <2>1 DEF Expand, C, Data, WithTree
  <2> HIDE DEF N, E
  <2> DEFINE p == WithTree(o, N, E, o.sel)
  <2>5. /\ Whole(p) /\ SameBookmarks(p, o)
        /\ p.nodes = N /\ p.sel = o.sel
    BY <2>3, TreeUpdate
  <2> QED BY <2>2, <2>4, <2>5 DEF N
<1> QED BY <1>1, <1>2

LEMMA CollapseFacts ==
    ASSUME NEW o, Whole(o), NEW n \in Nodes,
           BookmarkOf(n) \in DOMAIN o.bm \cup {None}
    PROVE  LET p == Collapse(o, n)
           IN  /\ Whole(p) /\ SameBookmarks(p, o)
               /\ n \notin p.open
<1> DEFINE N == o.nodes \ Below(n)
           E == o.open \ (Below(n) \cup {n})
           s == IF o.sel \in Below(n) THEN n ELSE o.sel
           p == WithTree(o, N, E, s)
<1>1. o \in Data
  BY DEF Whole
<1>2. /\ N \in SUBSET (Nodes \ {Root}) /\ E \in SUBSET Nodes /\ s \in Nodes
      /\ \A m \in N \cup E \cup {s} : BookmarkOf(m) \in DOMAIN o.bm \cup {None}
  BY <1>1, DataFields DEF Whole, Known
<1>3. Collapse(o, n) = p
  BY <1>1 DEF Collapse, Data, WithTree
<1>4. n \notin E
  OBVIOUS
<1> HIDE DEF N, E, s
<1>5. Whole(p) /\ SameBookmarks(p, o) /\ p.open = E
  BY <1>2, TreeUpdate
<1> QED BY <1>3, <1>4, <1>5

LEMMA SelectNodeFacts ==
    ASSUME NEW o, Whole(o), NEW n \in o.nodes \cup {Root}
    PROVE  LET p == [o EXCEPT !.sel = n]
           IN  /\ Whole(p) /\ SameBookmarks(p, o)
               /\ p.sel = n /\ p.nodes = o.nodes
<1> DEFINE p == WithTree(o, o.nodes, o.open, n)
<1>1. o \in Data
  BY DEF Whole
<1>2. /\ o.nodes \in SUBSET (Nodes \ {Root}) /\ o.open \in SUBSET Nodes
      /\ n \in Nodes
      /\ \A m \in o.nodes \cup o.open \cup {n} :
            BookmarkOf(m) \in DOMAIN o.bm \cup {None}
  <2>1. o.nodes \in SUBSET (Nodes \ {Root}) /\ o.open \in SUBSET Nodes
    BY <1>1, DataFields
  <2>2. Root \in Nodes /\ BookmarkOf(Root) = None
    BY BookmarkOfFacts DEF Nodes
  <2> QED BY <2>1, <2>2 DEF Whole, Known
<1>3. [o EXCEPT !.sel = n] = p
  BY <1>1 DEF Data, WithTree
<1>4. Whole(p) /\ SameBookmarks(p, o) /\ p.sel = n /\ p.nodes = o.nodes
  BY <1>2, TreeUpdate
<1> HIDE DEF p
<1> QED BY <1>3, <1>4

LEMMA SelectBookmarkFacts ==
    ASSUME NEW o, Whole(o), NEW b
    PROVE  LET p == SelectBookmark(o, b)
           IN  /\ Whole(p) /\ SameBookmarks(p, o)
               /\ p.nodes = o.nodes
               /\ b \in o.nodes => p.sel = b
               /\ b \notin o.nodes => p.sel = o.sel
<1>1. CASE b \in o.nodes
  BY <1>1, SelectNodeFacts DEF SelectBookmark
<1>2. CASE b \notin o.nodes
  BY <1>2 DEF SelectBookmark, SameBookmarks
<1> QED BY <1>1, <1>2

LEMMA SelectFolderFacts ==
    ASSUME NEW o, Whole(o), present \in SUBSET Folders, NEW path \in Nodes
    PROVE  LET p == SelectFolder(o, path)
           IN  /\ Whole(p) /\ SameBookmarks(p, o)
               /\ o.nodes \subseteq p.nodes
               /\ p.sel \in {o.sel, path}
               /\ path = Root => p.sel = Root
<1> DEFINE b        == BookmarkOf(o.sel)
           OnTheWay == {n \in Ancestry[path] : b \in Ancestry[n]}
           Reached  == {n \in OnTheWay :
                          \A m \in (OnTheWay \cap Ancestry[n]) \ {b} :
                              m \in Expand(o, NodeIn(m)).nodes}
           Opened   == Reached \ {path}
           C == UNION {Children(o, n) : n \in Opened \ o.open}
           N == o.nodes \cup C
           E == o.open \cup Opened
           s == IF path \in Reached THEN path ELSE o.sel
           p == WithTree(o, N, E, s)
<1>1. o \in Data
  BY DEF Whole
<1>2. CASE path = Root
  BY <1>2, SelectNodeFacts DEF SelectFolder
<1>3. CASE path # Root /\ b = None
  BY <1>3 DEF SelectFolder, SameBookmarks
<1>4. CASE path # Root /\ b # None
  <2>1. b \in Bookmarks /\ b \in DOMAIN o.bm /\ b # Root /\ b \in Nodes
    BY <1>1, <1>4, DataFields, BookmarkOfFacts, TreeAssumption
    DEF Whole, Known, Nodes
  <2>2. \A n \in OnTheWay : n \in Nodes /\ n # Root /\ BookmarkOf(n) = b
    <3> SUFFICES ASSUME NEW n \in OnTheWay
                 PROVE  n \in Nodes /\ n # Root /\ BookmarkOf(n) = b
      OBVIOUS
    <3>1. n \in Nodes /\ b \in Ancestry[n]
      BY AncestryFacts
    <3>2. n # Root
      BY <2>1, <3>1, AncestryOf
    <3>3. BookmarkOf(b) = BookmarkOf(n) /\ BookmarkOf(b) = b
      BY <2>1, <3>1, BookmarkOfFacts
    <3> QED BY <3>1, <3>2, <3>3
  <2>3. Reached \subseteq OnTheWay
    OBVIOUS
  <2> HIDE DEF b, OnTheWay, Reached
  <2>4. /\ C \in SUBSET (Nodes \ {Root})
        /\ \A f \in C : BookmarkOf(f) = b
    <3> SUFFICES ASSUME NEW n \in Opened, NEW f \in Children(o, n)
                 PROVE  f \in Nodes \ {Root} /\ BookmarkOf(f) = b
      OBVIOUS
    <3>1. f \in Folders /\ FolderIn[f] = n /\ BookmarkOf(n) = b
      BY <2>2, <2>3 DEF Children
    <3> QED BY <3>1, BookmarkOfFacts, TreeAssumption DEF Nodes
  <2>5. /\ N \in SUBSET (Nodes \ {Root}) /\ E \in SUBSET Nodes /\ s \in Nodes
        /\ \A m \in N \cup E \cup {s} : BookmarkOf(m) \in DOMAIN o.bm \cup {None}
    <3>1. /\ o.nodes \in SUBSET (Nodes \ {Root}) /\ o.open \in SUBSET Nodes
          /\ o.sel \in Nodes
      BY <1>1, DataFields
    <3> HIDE DEF C
    <3> QED BY <2>1, <2>2, <2>3, <2>4, <3>1 DEF Whole, Known
  <2>6. SelectFolder(o, path) = p
    BY <1>1, <1>4 DEF SelectFolder, Data, WithTree, b, OnTheWay, Reached
  <2>7. s \in {o.sel, path} /\ o.nodes \subseteq N
    OBVIOUS
  <2> HIDE DEF N, E, s
  <2>8. /\ Whole(p) /\ SameBookmarks(p, o)
        /\ p.nodes = N /\ p.sel = s
    BY <2>5, TreeUpdate
  <2> HIDE DEF p
  <2> QED BY <1>4, <2>6, <2>7, <2>8
<1> QED BY <1>2, <1>3, <1>4
-----------------------------------------------------------------------------
(* Operations on the bookmarks and their contexts                          *)

\* Only the bookmarks and their contexts differ.
SameTree(p, o) == p.nodes = o.nodes /\ p.open = o.open /\ p.sel = o.sel

\* There is memory for a new context of every bookmark, and for one more.
LEMMA RoomLeft ==
    ASSUME NEW o, Whole(o), NEW x, NEW U,
           U \subseteq OwnedContexts(o) \cup {x, Default, None}
    PROVE  /\ Cardinality(Contexts \cap U) + 1 <= Cardinality(Contexts)
           /\ Cardinality(Contexts \cap U) + Cardinality(DOMAIN o.bm)
                 <= Cardinality(Contexts)
<1>1. /\ DOMAIN o.bm \in SUBSET Bookmarks /\ o.bm \in [DOMAIN o.bm -> Bookmark]
      /\ o.single \in Contexts \cup {None}
  BY DataFields DEF Whole
<1>2. /\ Cardinality(Contexts) \in Nat /\ Cardinality(Bookmarks) \in Nat
      /\ Cardinality(Contexts) > 2 * Cardinality(Bookmarks)
      /\ Cardinality(Contexts) > 2
  BY FS_CardinalityType, HeapAssumption
<1>3. CASE o.single = None
  <2> DEFINE D == DOMAIN o.bm
             g == [b \in D |-> o.bm[b].ctx]
  <2>1. D \in SUBSET Bookmarks /\ g \in [D -> Contexts \cup {None}]
    BY <1>1 DEF Bookmark
  <2>2. U \subseteq {g[b] : b \in D} \cup {x, Default, None}
    BY <1>3 DEF OwnedContexts
  <2> HIDE DEF g
  <2>3. /\ Cardinality(D) <= Cardinality(Bookmarks)
        /\ Cardinality(D) \in Nat
        /\ Cardinality(Contexts \cap U) \in Nat
        /\ Cardinality(Contexts \cap U) <= Cardinality(Bookmarks) + 1
    BY <2>1, <2>2, ContextsInUse
  <2> QED BY <1>2, <2>3
<1>4. CASE o.single # None
  <2>1. \A b \in DOMAIN o.bm : o.bm[b].ctx = None
    BY <1>4 DEF Whole, Logins
  <2>2. U \subseteq {x, o.single, Default, None}
    BY <2>1 DEF OwnedContexts
  <2>3. /\ Cardinality(Contexts \cap U) \in Nat
        /\ Cardinality(Contexts \cap U) <= 2
    BY <2>2, TwoInUse
  <2>4. /\ Cardinality(DOMAIN o.bm) \in Nat
        /\ Cardinality(DOMAIN o.bm) <= Cardinality(Bookmarks)
    BY <1>1, FS_Subset, FS_CardinalityType, HeapAssumption
  <2> DEFINE k == Cardinality(Contexts \cap U)
             m == Cardinality(DOMAIN o.bm)
  <2> HIDE DEF k, m
  <2>5. /\ k \in Nat /\ k <= 2
        /\ m \in Nat /\ m <= Cardinality(Bookmarks)
    BY <2>3, <2>4 DEF k, m
  <2>6. k + 1 <= Cardinality(Contexts) /\ k + m <= Cardinality(Contexts)
    BY <1>2, <2>5
  <2> QED BY <2>6 DEF k, m
<1> QED BY <1>3, <1>4

\* The new entry has a context of its own, or none with a single login.
LEMMA AddBookmarkFacts ==
    ASSUME NEW o, Whole(o), NEW b \in Bookmarks, NEW U,
           {o.bm[x].ctx : x \in DOMAIN o.bm} \subseteq U,
           o.single = None =>
               Cardinality(Contexts \cap U) + 1 <= Cardinality(Contexts)
    PROVE  LET p == AddBookmark(o, b, U)
           IN  /\ Whole(p) /\ SameTree(p, o)
               /\ DOMAIN p.bm = DOMAIN o.bm \cup {b}
               /\ p.single = o.single
               /\ p.freed \subseteq o.freed
<1> DEFINE c == IF o.single = None THEN NewContexts({b}, U)[b] ELSE None
           D == DOMAIN o.bm \cup {b}
           m == [x \in D |-> IF x = b THEN [ctx |-> c, flat |-> FALSE]
                             ELSE o.bm[x]]
           F == o.freed \ {c}
           p == WithBookmarks(o, m, o.single, F)
<1>1. /\ o \in Data
      /\ DOMAIN o.bm \in SUBSET Bookmarks
      /\ o.bm \in [DOMAIN o.bm -> Bookmark]
      /\ o.single \in Contexts \cup {None}
      /\ o.freed \in SUBSET Contexts
  BY DataFields DEF Whole
<1>2. o.single = None => NewContexts({b}, U) \in [{b} -> Contexts \ U]
  BY FS_Singleton, RoomForContexts
<1>3. /\ o.single = None => c \in Contexts /\ c # None /\ c \notin U
      /\ o.single # None => c = None
  BY <1>2, ContextAssumption
<1>4. AddBookmark(o, b, U) = p
  BY <1>1 DEF AddBookmark, WithBookmarks, Data
<1> HIDE DEF c
<1>5. /\ D \in SUBSET Bookmarks
      /\ m \in [D -> Bookmark]
      /\ F \in SUBSET Contexts /\ F \subseteq o.freed
  BY <1>1, <1>3 DEF Bookmark
<1>6. /\ m[b].ctx = c
      /\ \A x \in D \ {b} : m[x].ctx = o.bm[x].ctx /\ x \in DOMAIN o.bm
      /\ DOMAIN m = D
  OBVIOUS
<1>7. D = DOMAIN o.bm \cup {b}
  OBVIOUS
<1> HIDE DEF m, F, D
<1>8. /\ p \in Data
      /\ p.nodes = o.nodes /\ p.open = o.open /\ p.sel = o.sel
      /\ p.bm = m /\ p.single = o.single /\ p.freed = F
  <2>1. /\ o \in Data /\ D \in SUBSET Bookmarks /\ m \in [D -> Bookmark]
        /\ o.single \in Contexts \cup {None} /\ F \in SUBSET Contexts
    BY <1>1, <1>5
  <2> HIDE DEF p
  <2>2. p = WithBookmarks(o, m, o.single, F)
    BY DEF p
  <2> QED BY <2>1, <2>2, BookmarksUpdate
<1> HIDE DEF p
<1>9. Known(p)
  BY <1>6, <1>7, <1>8 DEF Known, Whole
<1>10. Logins(p)
  <2>1. CASE o.single # None
    BY <1>3, <1>6, <1>8, <2>1 DEF Logins, Whole
  <2>2. CASE o.single = None
    <3>1. \A x \in D \ {b} : m[x].ctx \in U
      <4>1. \A x \in DOMAIN o.bm : o.bm[x].ctx \in U
        OBVIOUS
      <4> QED BY <1>6, <4>1
    <3>2. c # None /\ c \notin U
      BY <1>3, <2>2
    <3>3. \A x \in D \ {b} :
             /\ m[x].ctx # None
             /\ \A y \in D \ {b, x} : m[y].ctx # m[x].ctx
      BY <1>6, <2>2 DEF Logins, Whole
    <3> QED BY <1>6, <1>8, <2>2, <3>1, <3>2, <3>3 DEF Logins
  <2> QED BY <2>1, <2>2
<1> QED BY <1>4, <1>5, <1>6, <1>7, <1>8, <1>9, <1>10 DEF Whole, SameTree

\* No node of a removed bookmark stays in the tree.
LEMMA RemoveBookmarkFacts ==
    ASSUME NEW o, Whole(o), o.sel = Root, NEW b \in DOMAIN o.bm
    PROVE  LET p == RemoveBookmark(o, b)
           IN  /\ Whole(p) /\ p.sel = Root
               /\ DOMAIN p.bm = DOMAIN o.bm \ {b}
               /\ \A x \in DOMAIN p.bm : p.bm[x] = o.bm[x]
               /\ p.single = o.single
               /\ p.freed = o.freed \cup ({o.bm[b].ctx} \ {None})
<1> DEFINE D == DOMAIN o.bm \ {b}
           m == [x \in D |-> o.bm[x]]
           F == o.freed \cup ({o.bm[b].ctx} \ {None})
           N == o.nodes \ (Below(b) \cup {b})
           E == o.open \ (Below(b) \cup {b})
           q == [o EXCEPT !.nodes = N, !.open = E]
           p == WithBookmarks(q, m, o.single, F)
<1>1. /\ o \in Data
      /\ DOMAIN o.bm \in SUBSET Bookmarks
      /\ o.bm \in [DOMAIN o.bm -> Bookmark]
      /\ o.single \in Contexts \cup {None}
      /\ o.freed \in SUBSET Contexts
      /\ o.nodes \in SUBSET (Nodes \ {Root}) /\ o.open \in SUBSET Nodes
  BY DataFields DEF Whole
<1>2. RemoveBookmark(o, b) = p
  BY <1>1 DEF RemoveBookmark, WithBookmarks, Data
<1>3. \A n \in Nodes : BookmarkOf(n) = b => n \in Below(b) \cup {b}
  <2> SUFFICES ASSUME NEW n \in Nodes, BookmarkOf(n) = b
               PROVE  b \in Ancestry[n]
    BY DEF Below
  <2>1. n # Root
    BY <1>1, BookmarkOfFacts, TreeAssumption
  <2> QED BY <2>1, BookmarkOfFacts
<1>4. /\ D \in SUBSET Bookmarks /\ m \in [D -> Bookmark]
      /\ F \in SUBSET Contexts
      /\ N \in SUBSET (Nodes \ {Root}) /\ E \in SUBSET Nodes
      /\ \A n \in N \cup E : n \notin Below(b) \cup {b} /\ n \in o.nodes \cup o.open
      /\ DOMAIN m = D /\ \A x \in D : m[x] = o.bm[x]
  <2>1. o.bm[b].ctx \in Contexts \cup {None}
    BY <1>1 DEF Bookmark
  <2> QED BY <1>1, <2>1
<1> HIDE DEF m, F, N, E
<1>5. /\ q \in Data
      /\ q.nodes = N /\ q.open = E /\ q.sel = Root
  BY <1>1, <1>4 DEF Data
<1> HIDE DEF q
<1>6. /\ p \in Data
      /\ p.nodes = N /\ p.open = E /\ p.sel = Root
      /\ p.bm = m /\ p.single = o.single /\ p.freed = F
  BY <1>1, <1>4, <1>5, BookmarksUpdate
<1> HIDE DEF p
<1>7. Known(p)
  <2>1. BookmarkOf(Root) = None
    BY BookmarkOfFacts DEF Nodes
  <2>2. ASSUME NEW n \in N \cup E
        PROVE  BookmarkOf(n) \in D \cup {None}
    <3>1. n \in Nodes /\ BookmarkOf(n) \in DOMAIN o.bm \cup {None}
      BY <1>1, <1>4 DEF Known, Whole
    <3> QED BY <1>3, <1>4, <3>1
  <2> QED BY <1>4, <1>6, <2>1, <2>2 DEF Known
<1>8. Logins(p)
  BY <1>4, <1>6 DEF Logins, Whole
<1> QED BY <1>2, <1>4, <1>6, <1>7, <1>8 DEF Whole, F

\* Whatever the entries were before: afterwards there is a single login or
\* one for each bookmark, and only the others' contexts have been deleted.
LEMMA SetAuthFacts ==
    ASSUME NEW o \in Data, Known(o), NEW perBookmark \in BOOLEAN, NEW U,
           Cardinality(Contexts \cap U)
                   + Cardinality(IF perBookmark THEN DOMAIN o.bm ELSE {None})
               <= Cardinality(Contexts)
    PROVE  LET p == SetAuthPerBookmark(o, perBookmark, U)
           IN  /\ Whole(p) /\ SameTree(p, o)
               /\ DOMAIN p.bm = DOMAIN o.bm
               /\ p.single = None <=> perBookmark
               /\ p.freed \subseteq o.freed \cup
                    ((IF perBookmark THEN {o.single}
                      ELSE {o.bm[b].ctx : b \in DOMAIN o.bm}) \ {None})
<1> DEFINE D == DOMAIN o.bm
           S == IF perBookmark THEN D ELSE {None}
           new == NewContexts(S, U)
           m == [b \in D |-> [o.bm[b] EXCEPT
                                !.ctx = IF perBookmark THEN new[b] ELSE None]]
           c == IF perBookmark THEN None ELSE new[None]
           gone == (IF perBookmark THEN {o.single}
                    ELSE {o.bm[b].ctx : b \in D}) \ {None}
           F == (o.freed \ IF perBookmark THEN {new[b] : b \in D} ELSE {new[None]})
                    \cup gone
           p == WithBookmarks(o, m, c, F)
<1>1. /\ D \in SUBSET Bookmarks /\ o.bm \in [D -> Bookmark]
      /\ o.single \in Contexts \cup {None} /\ o.freed \in SUBSET Contexts
  BY DataFields
<1>2. IsFiniteSet(D) /\ IsFiniteSet({None})
  BY <1>1, FS_Subset, FS_Singleton, HeapAssumption
<1>3. /\ new \in [S -> Contexts \ U]
      /\ \A x, y \in S : new[x] = new[y] => x = y
  BY <1>2, RoomForContexts
<1>4. SetAuthPerBookmark(o, perBookmark, U) = p
  <2>1. CASE perBookmark
    BY <2>1 DEF SetAuthPerBookmark, WithBookmarks, Data
  <2>2. CASE ~perBookmark
    BY <2>2 DEF SetAuthPerBookmark, WithBookmarks, Data
  <2> QED BY <2>1, <2>2
<1> HIDE DEF new
<1>5. gone \in SUBSET Contexts
  <2>1. \A b \in D : o.bm[b].ctx \in Contexts \cup {None}
    BY <1>1 DEF Bookmark
  <2> QED BY <1>1, <2>1
<1>6. F \in SUBSET Contexts /\ F \subseteq o.freed \cup gone
  BY <1>1, <1>5
<1>7. c \in Contexts \cup {None} /\ (c = None <=> perBookmark)
  BY <1>3, ContextAssumption
<1>8. /\ m \in [D -> Bookmark]
      /\ \A b \in D : m[b].ctx = IF perBookmark THEN new[b] ELSE None
  <2> SUFFICES ASSUME NEW b \in D
               PROVE  /\ m[b] \in Bookmark
                      /\ m[b].ctx = IF perBookmark THEN new[b] ELSE None
    OBVIOUS
  <2>1. o.bm[b] \in Bookmark
    BY <1>1
  <2>2. (IF perBookmark THEN new[b] ELSE None) \in Contexts \cup {None}
    BY <1>3
  <2> QED BY <2>1, <2>2 DEF Bookmark
<1>9. DOMAIN m = D
  OBVIOUS
<1> HIDE DEF m, c, F, D
<1>10. /\ p \in Data
       /\ p.nodes = o.nodes /\ p.open = o.open /\ p.sel = o.sel
       /\ p.bm = m /\ p.single = c /\ p.freed = F
  <2>1. /\ o \in Data /\ D \in SUBSET Bookmarks /\ m \in [D -> Bookmark]
        /\ c \in Contexts \cup {None} /\ F \in SUBSET Contexts
    BY <1>1, <1>6, <1>7, <1>8
  <2> HIDE DEF p
  <2>2. p = WithBookmarks(o, m, c, F)
    BY DEF p
  <2> QED BY <2>1, <2>2, BookmarksUpdate
<1> HIDE DEF p
<1>11. Known(p)
  BY <1>9, <1>10 DEF Known, D
<1>12. Logins(p)
  <2>1. CASE perBookmark
    BY <1>3, <1>7, <1>8, <1>9, <1>10, <2>1, ContextAssumption DEF Logins
  <2>2. CASE ~perBookmark
    BY <1>7, <1>8, <1>9, <1>10, <2>2 DEF Logins
  <2> QED BY <2>1, <2>2
<1>13. /\ Whole(p) /\ SameTree(p, o) /\ DOMAIN p.bm = DOMAIN o.bm
       /\ p.single = None <=> perBookmark
  BY <1>7, <1>9, <1>10, <1>11, <1>12 DEF Whole, SameTree, D
<1> QED BY <1>4, <1>6, <1>10, <1>13 DEF D

\* The view's mode is of no concern to tree and contexts.
LEMMA SetFlatFacts ==
    ASSUME NEW o, Whole(o), NEW flat \in BOOLEAN
    PROVE  LET p == SetFlat(o, flat)
           IN  /\ Whole(p) /\ SameTree(p, o)
               /\ DOMAIN p.bm = DOMAIN o.bm
               /\ p.single = o.single /\ p.freed = o.freed
<1> DEFINE b == SelectedBookmark(o)
           m == [o.bm EXCEPT ![b].flat = flat]
           p == WithBookmarks(o, m, o.single, o.freed)
<1>1. CASE b = None
  BY <1>1 DEF SetFlat, SameTree
<1>2. CASE b # None
  <2>1. /\ o \in Data
        /\ DOMAIN o.bm \in SUBSET Bookmarks /\ o.bm \in [DOMAIN o.bm -> Bookmark]
        /\ o.single \in Contexts \cup {None} /\ o.freed \in SUBSET Contexts
    BY DataFields DEF Whole
  <2>2. b \in DOMAIN o.bm
    BY <1>2 DEF SelectedBookmark
  <2>3. SetFlat(o, flat) = p
    BY <1>2, <2>1, <2>2 DEF SetFlat, WithBookmarks, Data
  <2> HIDE DEF b
  <2>4. /\ m \in [DOMAIN o.bm -> Bookmark]
        /\ \A x \in DOMAIN o.bm : m[x].ctx = o.bm[x].ctx
        /\ DOMAIN m = DOMAIN o.bm
    <3>1. \A x \in DOMAIN o.bm : o.bm[x] \in Bookmark
      BY <2>1
    <3>2. /\ [o.bm[b] EXCEPT !.flat = flat] \in Bookmark
          /\ [o.bm[b] EXCEPT !.flat = flat].ctx = o.bm[b].ctx
      BY <2>2, <3>1 DEF Bookmark
    <3>3. m = [x \in DOMAIN o.bm |->
                 IF x = b THEN [o.bm[b] EXCEPT !.flat = flat] ELSE o.bm[x]]
      BY <2>1, <2>2
    <3> QED BY <3>1, <3>2, <3>3
  <2> HIDE DEF m
  <2>5. /\ p \in Data
        /\ p.nodes = o.nodes /\ p.open = o.open /\ p.sel = o.sel
        /\ p.bm = m /\ p.single = o.single /\ p.freed = o.freed
    <3> HIDE DEF p
    <3>1. p = WithBookmarks(o, m, o.single, o.freed)
      BY DEF p
    <3> QED BY <2>1, <2>4, <3>1, BookmarksUpdate
  <2> HIDE DEF p
  <2>6. Known(p) /\ Logins(p)
    BY <2>4, <2>5 DEF Known, Logins, Whole
  <2> QED BY <2>3, <2>4, <2>5, <2>6 DEF Whole, SameTree
<1> QED BY <1>1, <1>2

\* What is read from the configuration has no contexts yet.
LEMMA ReloadedFacts ==
    ASSUME NEW o \in Data, NEW reset \in BOOLEAN
    PROVE  LET p == Reloaded(o, reset)
           IN  /\ p \in Data /\ Known(p)
               /\ p.single = None /\ p.freed = {} /\ p.sel = Root
               /\ DOMAIN p.bm = DOMAIN o.bm
               /\ \A b \in DOMAIN p.bm : p.bm[b].ctx = None
<1> DEFINE m == [b \in DOMAIN o.bm |->
                   [ctx |-> None, flat |-> o.bm[b].flat /\ ~reset]]
           q == [o EXCEPT !.nodes = {}, !.open = {}, !.sel = Root]
           p == WithBookmarks(q, m, None, {})
<1>1. DOMAIN o.bm \in SUBSET Bookmarks /\ o.bm \in [DOMAIN o.bm -> Bookmark]
  BY DataFields
<1>2. Reloaded(o, reset) = p
  BY <1>1 DEF Reloaded, WithBookmarks, Data
<1>3. /\ m \in [DOMAIN o.bm -> Bookmark]
      /\ DOMAIN m = DOMAIN o.bm
      /\ \A b \in DOMAIN m : m[b].ctx = None
  BY DEF Bookmark
<1>4. Root \in Nodes /\ BookmarkOf(Root) = None
  BY BookmarkOfFacts DEF Nodes
<1>5. q \in Data /\ q.nodes = {} /\ q.open = {} /\ q.sel = Root
  BY <1>4 DEF Data
<1> HIDE DEF m, q
<1>6. /\ p \in Data
      /\ p.nodes = {} /\ p.open = {} /\ p.sel = Root
      /\ p.bm = m /\ p.single = None /\ p.freed = {}
  <2> HIDE DEF p
  <2>1. p = WithBookmarks(q, m, None, {})
    BY DEF p
  <2>2. {} \in SUBSET Contexts /\ None \in Contexts \cup {None}
    OBVIOUS
  <2> QED BY <1>1, <1>3, <1>5, <2>1, <2>2, BookmarksUpdate
<1> HIDE DEF p
<1> QED BY <1>2, <1>3, <1>4, <1>6 DEF Known

\* GetContext never fails.
LEMMA GetContextFacts ==
    ASSUME NEW o, Whole(o)
    PROVE  /\ GetContext(o) \in Contexts \cup {Default}
           /\ GetContext(o) # None
           /\ o.sel = Root =>
                 GetContext(o) = IF o.single # None THEN o.single ELSE Default
<1>1. /\ o.bm \in [DOMAIN o.bm -> Bookmark]
      /\ o.single \in Contexts \cup {None} /\ o.sel \in Nodes
  BY DataFields DEF Whole
<1>2. BookmarkOf(o.sel) \in DOMAIN o.bm \cup {None}
  BY DEF Whole, Known
<1>3. \A b \in DOMAIN o.bm : o.bm[b].ctx \in Contexts \cup {None}
  BY <1>1 DEF Bookmark
<1>4. o.sel = Root => BookmarkOf(o.sel) = None
  BY <1>1, BookmarkOfFacts
<1>5. o.single = None => \A b \in DOMAIN o.bm : o.bm[b].ctx # None
  BY DEF Whole, Logins
<1> QED BY <1>1, <1>2, <1>3, <1>4, <1>5, ContextAssumption DEF GetContext

-----------------------------------------------------------------------------
(* The inductive invariant                                                 *)

\* Nothing is suppressed, and the frame's path is the selection.
Quiet(f, o) == ~f.dontUpdate /\ ~f.skip /\ (~f.lost => f.path = o.sel)

\* A list that is not fresh will be when the window is activated.
Fresh(f) == f.stale => f.later

END(flags) == [tok |-> "END", flags |-> flags, name |-> None]
ADD(b) == [tok |-> "ADD_BOOKMARK", flags |-> "none", name |-> b]

\* What a refresh remembers is still there.
Remembered(e, o) == /\ e.bookmark \in DOMAIN o.bm \cup {None}
                    /\ e.name # None => e.name \in o.nodes \cap DOMAIN o.bm

Idle == /\ job = None /\ queue = << >> /\ pending = << >>
        /\ ~frame.running /\ Quiet(frame, fb) /\ Fresh(frame)

Working == /\ job # None /\ queue = << >> /\ pending = << >>
           /\ frame.running /\ Quiet(frame, fb) /\ Fresh(frame)
           /\ job.ctx = frame.ctx
           /\ job.adds # None => job.flags = "none"

Ended == /\ job = None /\ pending = << >>
         /\ frame.running /\ Quiet(frame, fb)
         /\ \/ /\ \E flags \in FlagSet : queue = <<END(flags)>>
               /\ queue = <<END("dont")>> => Fresh(frame)
            \/ \E b \in Bookmarks : queue = <<ADD(b), END("none")>>

\* The refresh for a new bookmark waits for a login.  Meanwhile the event
\* that ends the action may be dispatched, but no other.
Adding == /\ job = None /\ ~frame.skip
          /\ \E e \in TreeRefresh :
                /\ pending = <<e>> /\ Remembered(e, fb)
                /\ e.then = "show" /\ e.was
          /\ \/ frame.running /\ queue = <<END("none")>>
             \/ ~frame.running /\ queue = << >>

\* Any other refresh does.
Refreshing == /\ job = None /\ queue = << >> /\ frame.running
              /\ frame.skip => ~frame.dontUpdate /\ Fresh(frame)
              /\ \E e \in TreeRefresh :
                    /\ pending = <<e>> /\ Remembered(e, fb)
                    /\ ~frame.lost => frame.path = e.path
                    /\ \/ e.then = "return" /\ ~e.was /\ e.name = None
                       \/ e.then = "select" /\ ~e.was
                       \/ e.then = "end" /\ e.name = None /\ ~frame.skip

Phase == Idle \/ Working \/ Ended \/ Adding \/ Refreshing

Base == /\ TypeOK
        /\ Whole(fb) /\ (Switching \/ fb.freed = {})
        /\ frame.ctx # None

IInv == Base /\ Phase

-----------------------------------------------------------------------------
(* The steps of the handlers                                               *)

LEMMA UpdateCurrentPathFacts ==
    ASSUME NEW f \in FrameData, NEW o, Whole(o)
    PROVE  LET g == UpdateCurrentPath(f, o)
           IN  /\ g \in FrameData
               /\ g.path = o.sel /\ g.ctx = GetContext(o) /\ g.ctx # None
               /\ ~g.lost
               /\ g.stale = (f.stale \/ o.sel # f.path)
               /\ g.running = f.running /\ g.dontUpdate = f.dontUpdate
               /\ g.skip = f.skip /\ g.later = f.later
<1>1. /\ o.sel \in Nodes
      /\ GetContext(o) \in Contexts \cup {Default} /\ GetContext(o) # None
  BY DataFields, GetContextFacts DEF Whole
<1> QED BY <1>1 DEF UpdateCurrentPath, FrameData

LEMMA RefreshFileListFacts ==
    ASSUME NEW f \in FrameData
    PROVE  LET g == RefreshFileList(f)
           IN  /\ g \in FrameData
               /\ ~f.dontUpdate => ~g.stale
               /\ g.stale => f.stale
               /\ g.path = f.path /\ g.ctx = f.ctx /\ g.lost = f.lost
               /\ g.running = f.running /\ g.dontUpdate = f.dontUpdate
               /\ g.skip = f.skip /\ g.later = f.later
BY DEF RefreshFileList, FrameData

\* A selection event either does nothing or brings path and list to where
\* the selection is.
LEMMA SelChangedFacts ==
    ASSUME NEW f \in FrameData, NEW was, NEW o, Whole(o)
    PROVE  LET g == SelChanged(f, was, o)
           IN  /\ g \in FrameData
               /\ was.sel = o.sel \/ f.running => g = f
               /\ ~(was.sel = o.sel \/ f.running) =>
                     /\ g.path = o.sel /\ g.ctx = GetContext(o)
                     /\ ~g.lost
                     /\ ~f.dontUpdate => ~g.stale
               /\ g.ctx \in {f.ctx, GetContext(o)}
               /\ g.running = f.running /\ g.dontUpdate = f.dontUpdate
               /\ g.skip = f.skip /\ g.later = f.later
<1>1. CASE was.sel = o.sel \/ f.running
  BY <1>1 DEF SelChanged
<1>2. CASE ~(was.sel = o.sel \/ f.running)
  <2> DEFINE f1 == [f EXCEPT !.flat = IsFlat(o)]
             f2 == UpdateCurrentPath(f1, o)
             g == RefreshFileList(f2)
  <2>1. IsFlat(o) \in BOOLEAN
    <3>1. o.bm \in [DOMAIN o.bm -> Bookmark]
      BY DataFields DEF Whole
    <3>2. SelectedBookmark(o) # None => SelectedBookmark(o) \in DOMAIN o.bm
      BY DEF SelectedBookmark
    <3>3. \A b \in DOMAIN o.bm : o.bm[b].flat \in BOOLEAN
      BY <3>1 DEF Bookmark
    <3> QED BY <3>2, <3>3 DEF IsFlat
  <2>2. /\ f1 \in FrameData
        /\ f1.running = f.running /\ f1.dontUpdate = f.dontUpdate
        /\ f1.skip = f.skip /\ f1.later = f.later
    BY <2>1 DEF FrameData
  <2> HIDE DEF f1
  <2>3. /\ f2 \in FrameData
        /\ f2.path = o.sel /\ f2.ctx = GetContext(o) /\ ~f2.lost
        /\ f2.running = f1.running /\ f2.dontUpdate = f1.dontUpdate
        /\ f2.skip = f1.skip /\ f2.later = f1.later
    BY <2>2, UpdateCurrentPathFacts
  <2> HIDE DEF f2
  <2>4. /\ g \in FrameData
        /\ ~f2.dontUpdate => ~g.stale
        /\ g.path = f2.path /\ g.ctx = f2.ctx /\ g.lost = f2.lost
        /\ g.running = f2.running /\ g.dontUpdate = f2.dontUpdate
        /\ g.skip = f2.skip /\ g.later = f2.later
    BY <2>3, RefreshFileListFacts
  <2>5. SelChanged(f, was, o) = g
    BY <1>2 DEF SelChanged, f1, f2
  <2> HIDE DEF g
  <2> QED BY <1>2, <2>2, <2>3, <2>4, <2>5
<1> QED BY <1>1, <1>2

\* The end of a tree refresh allows updates again; unless it was skipped
\* the list is fresh.
LEMMA RefreshedFacts ==
    ASSUME NEW f \in FrameData, NEW e \in TreeRefresh, NEW o
    PROVE  LET g == Refreshed(f, e, o)
           IN  /\ g \in FrameData
               /\ g.running = (e.was /\ f.running)
               /\ ~g.skip
               /\ g.lost = (f.lost \/ o.sel # e.path)
               /\ ~f.skip => ~g.dontUpdate /\ ~g.stale
               /\ f.skip => g.dontUpdate = f.dontUpdate /\ g.stale = f.stale
               /\ g.path = f.path /\ g.ctx = f.ctx /\ g.later = f.later
<1> DEFINE f1 == [f EXCEPT !.running = e.was /\ @,
                           !.lost = @ \/ o.sel # e.path]
           h  == [f1 EXCEPT !.dontUpdate = FALSE]
           f2 == IF f1.skip THEN f1 ELSE RefreshFileList(h)
           g  == [f2 EXCEPT !.skip = FALSE]
<1>1. /\ f1 \in FrameData
      /\ f1.running = (e.was /\ f.running)
      /\ f1.lost = (f.lost \/ o.sel # e.path)
      /\ f1.skip = f.skip /\ f1.dontUpdate = f.dontUpdate
      /\ f1.stale = f.stale /\ f1.path = f.path /\ f1.ctx = f.ctx
      /\ f1.later = f.later
  BY DEF FrameData, TreeRefresh
<1>2. Refreshed(f, e, o) = g
  BY DEF Refreshed
<1> HIDE DEF f1
<1>3. /\ h \in FrameData /\ ~h.dontUpdate
      /\ h.running = f1.running /\ h.lost = f1.lost
      /\ h.path = f1.path /\ h.ctx = f1.ctx /\ h.later = f1.later
  BY <1>1 DEF FrameData
<1> HIDE DEF h
<1>4. /\ f2 \in FrameData
      /\ f2.running = f1.running /\ f2.lost = f1.lost
      /\ f2.path = f1.path /\ f2.ctx = f1.ctx /\ f2.later = f1.later
      /\ ~f1.skip => ~f2.dontUpdate /\ ~f2.stale
      /\ f1.skip => f2 = f1
  <2>1. CASE f1.skip
    BY <1>1, <2>1
  <2>2. CASE ~f1.skip
    <3>1. f2 = RefreshFileList(h)
      BY <2>2
    <3> HIDE DEF f2
    <3> QED BY <1>3, <2>2, <3>1, RefreshFileListFacts
  <2> QED BY <2>1, <2>2
<1> HIDE DEF f2
<1>5. /\ g \in FrameData /\ ~g.skip
      /\ g.running = f2.running /\ g.lost = f2.lost
      /\ g.dontUpdate = f2.dontUpdate /\ g.stale = f2.stale
      /\ g.path = f2.path /\ g.ctx = f2.ctx /\ g.later = f2.later
  BY <1>4 DEF FrameData
<1> HIDE DEF g
<1> QED BY <1>1, <1>2, <1>4, <1>5

\* No deleted context is used any more after the step.
LEMMA BecomesFacts ==
    ASSUME NEW o, Whole(o), NEW f, NEW j, Becomes(o, f, j),
           Switching \/ \A c \in o.freed : c # f.ctx /\ (j # None => c # j.ctx)
    PROVE  /\ Whole(fb') /\ (Switching \/ fb'.freed = {})
           /\ fb'.bm = o.bm /\ fb'.single = o.single
           /\ fb'.nodes = o.nodes /\ fb'.open = o.open /\ fb'.sel = o.sel
           /\ frame' = f /\ job' = j
<1> DEFINE F == o.freed \cap ({f.ctx} \cup IF j = None THEN {} ELSE {j.ctx})
           p == WithBookmarks(o, o.bm, o.single, F)
<1>1. /\ o \in Data
      /\ DOMAIN o.bm \in SUBSET Bookmarks /\ o.bm \in [DOMAIN o.bm -> Bookmark]
      /\ o.single \in Contexts \cup {None} /\ F \in SUBSET Contexts
  BY DataFields DEF Whole
<1>6. Switching \/ F = {}
  OBVIOUS
<1>7. fb' = [o EXCEPT !.freed = F]
  BY DEF Becomes
<1> HIDE DEF F
<1>2. /\ p \in Data
      /\ p.nodes = o.nodes /\ p.open = o.open /\ p.sel = o.sel
      /\ p.bm = o.bm /\ p.single = o.single /\ p.freed = F
  <2> HIDE DEF p
  <2>1. p = WithBookmarks(o, o.bm, o.single, F)
    BY DEF p
  <2> QED BY <1>1, <2>1, BookmarksUpdate
<1>3. fb' = p
  BY <1>1, <1>7 DEF WithBookmarks, Data
<1> HIDE DEF p
<1>4. Known(p) /\ Logins(p)
  BY <1>2 DEF Known, Logins, Whole
<1>5. frame' = f /\ job' = j
  BY DEF Becomes
<1> QED BY <1>2, <1>3, <1>4, <1>5, <1>6 DEF Whole

\* What a refresh of the tree leaves behind until its folders are read.
LEMMA BeginRefreshFacts ==
    ASSUME NEW o, Whole(o), NEW f \in FrameData,
           Switching \/ \A c \in o.freed : c # f.ctx,
           present \in SUBSET Folders, pending = << >>, job = None,
           NEW then \in {"return", "select", "show", "end"},
           NEW name \in DOMAIN o.bm \cup {None},
           BeginRefresh(o, f, then, name)
    PROVE  /\ Whole(fb') /\ (Switching \/ fb'.freed = {}) /\ job' = None
           /\ frame' \in FrameData
           /\ frame'.running /\ frame'.skip = f.skip
           /\ f.skip => frame'.dontUpdate = f.dontUpdate
           /\ frame'.path = f.path /\ frame'.ctx = f.ctx
           /\ frame'.lost = f.lost /\ frame'.stale = f.stale
           /\ frame'.later = f.later
           /\ \E e \in TreeRefresh :
                 /\ pending' = <<e>> /\ Remembered(e, fb')
                 /\ e.path = o.sel /\ e.was = f.running
                 /\ e.then = then /\ e.name = name
<1> DEFINE b  == BookmarkOf(o.sel)
           o0 == Collapse(o, Root)
           o1 == Expand(o0, Root)
           o2 == IF b = None THEN o1 ELSE SelectBookmark(o1, b)
           f1 == [f EXCEPT !.running = TRUE,
                           !.dontUpdate = IF f.skip THEN @ ELSE TRUE]
           e  == [bookmark |-> IF b \in o1.nodes THEN b ELSE None,
                  path |-> o.sel, was |-> f.running,
                  then |-> then, name |-> name]
<1>1. /\ o \in Data /\ o.sel \in Nodes /\ DOMAIN o.bm \in SUBSET Bookmarks
      /\ b \in DOMAIN o.bm \cup {None}
  BY DataFields DEF Whole, Known
<1>2. Root \in Nodes /\ BookmarkOf(Root) = None
  BY BookmarkOfFacts DEF Nodes
<1>3. Becomes(o2, f1, None) /\ pending' = <<e>> \o << >>
  BY DEF BeginRefresh
<1>4. pending' = <<e>>
  <2> HIDE DEF e
  <2> QED BY <1>3
<1>5. Whole(o0) /\ SameBookmarks(o0, o) /\ Root \notin o0.open
  BY <1>2, CollapseFacts
<1> HIDE DEF b, o0
<1>6. /\ Whole(o1) /\ SameBookmarks(o1, o0)
      /\ DOMAIN o0.bm \subseteq o1.nodes
  BY <1>2, <1>5, ExpandFacts
<1> HIDE DEF o1
<1>7. Whole(o2) /\ SameBookmarks(o2, o1) /\ o2.nodes = o1.nodes
  BY <1>6, SelectBookmarkFacts DEF SameBookmarks
<1> HIDE DEF o2
<1>8. o2.bm = o.bm /\ o2.freed = o.freed /\ DOMAIN o.bm \subseteq o2.nodes
  BY <1>5, <1>6, <1>7 DEF SameBookmarks
<1>9. /\ f1 \in FrameData
      /\ f1.running /\ f1.skip = f.skip
      /\ f.skip => f1.dontUpdate = f.dontUpdate
      /\ f1.path = f.path /\ f1.ctx = f.ctx
      /\ f1.lost = f.lost /\ f1.stale = f.stale /\ f1.later = f.later
  BY DEF FrameData
<1> HIDE DEF f1
<1>10. /\ Whole(fb') /\ (Switching \/ fb'.freed = {}) /\ fb'.bm = o2.bm
       /\ fb'.nodes = o2.nodes /\ frame' = f1 /\ job' = None
  BY <1>3, <1>7, <1>8, <1>9, BecomesFacts
<1>11. /\ e \in TreeRefresh
       /\ e.bookmark \in DOMAIN o.bm \cup {None}
       /\ e.path = o.sel /\ e.was = f.running
       /\ e.then = then /\ e.name = name
  BY <1>1 DEF TreeRefresh, FrameData
<1> HIDE DEF e
<1>12. Remembered(e, fb')
  BY <1>8, <1>10, <1>11 DEF Remembered
<1> QED BY <1>4, <1>9, <1>10, <1>11, <1>12

\* What holds of the browser whenever the user can give a command.
LEMMA Commands ==
    ASSUME IInv, ~WhileRunning, MenuEnabled
    PROVE  Base /\ Idle
BY DEF IInv, Phase, MenuEnabled, Idle, Working, Ended, Adding, Refreshing

\* A selection event leaves a settled frame settled.
LEMMA SelChangedSettles ==
    ASSUME NEW f \in FrameData, NEW was, NEW o, Whole(o),
           ~f.running, Quiet(f, was), Fresh(f), f.ctx # None
    PROVE  LET g == SelChanged(f, was, o)
           IN  /\ g \in FrameData /\ ~g.running
               /\ Quiet(g, o) /\ Fresh(g) /\ g.ctx # None
<1> DEFINE g == SelChanged(f, was, o)
<1>1. GetContext(o) # None
  BY GetContextFacts
<1>2. /\ g \in FrameData
      /\ was.sel = o.sel => g = f
      /\ was.sel # o.sel => g.path = o.sel /\ ~g.lost /\ ~g.stale
      /\ g.ctx \in {f.ctx, GetContext(o)}
      /\ g.running = f.running /\ g.dontUpdate = f.dontUpdate
      /\ g.skip = f.skip /\ g.later = f.later
  BY SelChangedFacts DEF Quiet
<1> HIDE DEF g
<1> QED BY <1>1, <1>2 DEF Quiet, Fresh, g

\* A command that is done at once ends in the idle phase again.
LEMMA IdleStep ==
    ASSUME Base, Idle, NEW o, Whole(o), NEW f \in FrameData,
           Becomes(o, f, job), UNCHANGED <<present, queue, pending>>,
           Switching \/ \A c \in o.freed : c # f.ctx,
           ~f.running, Quiet(f, o), Fresh(f), f.ctx # None
    PROVE  IInv'
<1>1. /\ Whole(fb') /\ (Switching \/ fb'.freed = {}) /\ fb'.sel = o.sel
      /\ frame' = f /\ job' = None
  BY BecomesFacts DEF Idle
<1>2. Base'
  BY <1>1 DEF Base, TypeOK, Whole
<1>3. Idle'
  BY <1>1 DEF Idle, Quiet, Fresh
<1> QED BY <1>2, <1>3 DEF IInv, Phase

-----------------------------------------------------------------------------
(* What the user does                                                      *)

\* Commands that move the selection, and nothing else.
LEMMA SelectionStep ==
    ASSUME Base, Idle, NEW o, Whole(o), Switching \/ o.freed = {},
           Becomes(o, SelChanged(frame, fb, o), job),
           UNCHANGED <<present, queue, pending>>
    PROVE  IInv'
<1> DEFINE f == SelChanged(frame, fb, o)
<1>1. f \in FrameData /\ ~f.running /\ Quiet(f, o) /\ Fresh(f) /\ f.ctx # None
  BY SelChangedSettles DEF Base, TypeOK, Idle
<1>2. Becomes(o, f, job)
  OBVIOUS
<1> HIDE DEF f
<1> QED BY <1>1, <1>2, IdleStep

LEMMA SelectNodeStep ==
    ASSUME IInv, ~WhileRunning, NEW n, SelectNode(n)
    PROVE  IInv'
<1> DEFINE o == [fb EXCEPT !.sel = n]
<1>1. Base /\ Idle
  BY Commands DEF SelectNode, Enabled, MenuEnabled
<1>2. Whole(o) /\ (Switching \/ o.freed = {})
  BY <1>1, SelectNodeFacts DEF SelectNode, Base, SameBookmarks
<1>3. Becomes(o, SelChanged(frame, fb, o), job)
  BY DEF SelectNode
<1>4. UNCHANGED <<present, queue, pending>>
  BY DEF SelectNode
<1> HIDE DEF o
<1> QED BY <1>1, <1>2, <1>3, <1>4, SelectionStep

\* Every node in the tree is known.
LEMMA NodesKnown ==
    ASSUME Base
    PROVE  /\ \A n \in fb.nodes \cup fb.open \cup {fb.sel, Root} :
                 n \in Nodes /\ BookmarkOf(n) \in DOMAIN fb.bm \cup {None}
           /\ DOMAIN fb.bm \in SUBSET Bookmarks
           /\ \A b \in DOMAIN fb.bm : b # None /\ b # Root
           /\ \A b \in DOMAIN fb.bm :
                 b \in Nodes /\ BookmarkOf(b) \in DOMAIN fb.bm \cup {None}
<1>1. Whole(fb) /\ fb \in Data
  BY DEF Base, Whole
<1>2. /\ fb.nodes \in SUBSET (Nodes \ {Root}) /\ fb.open \in SUBSET Nodes
      /\ fb.sel \in Nodes /\ DOMAIN fb.bm \in SUBSET Bookmarks
  BY <1>1, DataFields
<1>3. Root \in Nodes /\ BookmarkOf(Root) = None
  BY BookmarkOfFacts DEF Nodes
<1> QED BY <1>1, <1>2, <1>3, BookmarkOfFacts, TreeAssumption
    DEF Whole, Known, Nodes

LEMMA OnExpandItemStep ==
    ASSUME IInv, ~WhileRunning, NEW n, OnExpandItem(n)
    PROVE  IInv'
<1> DEFINE o == Expand(fb, n)
<1>1. Base /\ Idle
  BY Commands DEF OnExpandItem, Enabled, MenuEnabled
<1>2. n \in Nodes /\ BookmarkOf(n) \in DOMAIN fb.bm \cup {None}
  BY <1>1, NodesKnown DEF OnExpandItem
<1>3. Whole(o) /\ (Switching \/ o.freed = {}) /\ o.sel = fb.sel
  BY <1>1, <1>2, ExpandFacts DEF Base, TypeOK, SameBookmarks
<1>4. Becomes(o, frame, job) /\ UNCHANGED <<present, queue, pending>>
  BY DEF OnExpandItem
<1> HIDE DEF o
<1>5. /\ frame \in FrameData /\ ~frame.running /\ frame.ctx # None
      /\ Quiet(frame, o) /\ Fresh(frame)
  BY <1>1, <1>3 DEF Base, TypeOK, Idle, Quiet
<1> QED BY <1>1, <1>3, <1>4, <1>5, IdleStep

LEMMA OnCollapseItemStep ==
    ASSUME IInv, ~WhileRunning, NEW n, OnCollapseItem(n)
    PROVE  IInv'
<1> DEFINE o == Collapse(fb, n)
<1>1. Base /\ Idle
  BY Commands DEF OnCollapseItem, Enabled, MenuEnabled
<1>2. n \in Nodes /\ BookmarkOf(n) \in DOMAIN fb.bm \cup {None}
  BY <1>1, NodesKnown DEF OnCollapseItem
<1>3. Whole(o) /\ (Switching \/ o.freed = {})
  BY <1>1, <1>2, CollapseFacts DEF Base, SameBookmarks
<1>4. /\ Becomes(o, SelChanged(frame, fb, o), job)
      /\ UNCHANGED <<present, queue, pending>>
  BY DEF OnCollapseItem
<1> HIDE DEF o
<1> QED BY <1>1, <1>3, <1>4, SelectionStep

LEMMA InvokeDefaultActionStep ==
    ASSUME IInv, ~WhileRunning, NEW dir \in Folders, InvokeDefaultAction(dir)
    PROVE  IInv'
<1> DEFINE o == SelectFolder(fb, dir)
<1>1. Base /\ Idle
  BY Commands DEF InvokeDefaultAction, Enabled, MenuEnabled
<1>2. Whole(o) /\ (Switching \/ o.freed = {})
  <2>1. dir \in Nodes
    BY DEF Nodes
  <2>2. Whole(fb) /\ (Switching \/ fb.freed = {}) /\ present \in SUBSET Folders
    BY <1>1 DEF Base, TypeOK
  <2> QED BY <2>1, <2>2, SelectFolderFacts DEF SameBookmarks
<1>3. /\ Becomes(o, SelChanged(frame, fb, o), job)
      /\ UNCHANGED <<present, queue, pending>>
  BY DEF InvokeDefaultAction
<1> HIDE DEF o
<1> QED BY <1>1, <1>2, <1>3, SelectionStep

LEMMA PerformStep ==
    ASSUME IInv, ~WhileRunning, NEW flags \in FlagSet,
           NEW adds \in Bookmarks \cup {None},
           adds # None => flags = "none", Perform(flags, adds)
    PROVE  IInv'
<1> DEFINE f == [frame EXCEPT !.running = TRUE]
           j == [ctx |-> frame.ctx, flags |-> flags, adds |-> adds]
<1>1. Base /\ Idle
  BY Commands DEF Perform, Enabled, MenuEnabled
<1>2. /\ f \in FrameData /\ f.running
      /\ f.ctx = frame.ctx /\ f.path = frame.path /\ f.lost = frame.lost
      /\ f.dontUpdate = frame.dontUpdate /\ f.skip = frame.skip
      /\ f.stale = frame.stale /\ f.later = frame.later
  BY <1>1 DEF Base, TypeOK, FrameData
<1>3. /\ j \in Job /\ j.ctx = frame.ctx /\ j.flags = flags /\ j.adds = adds
  BY <1>1 DEF Base, TypeOK, FrameData, Job
<1>4. /\ Becomes(fb, f, j) /\ UNCHANGED <<present, queue, pending>>
  BY DEF Perform
<1>5. j # None
  BY <1>3, JobAssumption
<1> HIDE DEF f, j
<1>6. /\ Whole(fb') /\ (Switching \/ fb'.freed = {}) /\ fb'.sel = fb.sel
      /\ frame' = f /\ job' = j
  BY <1>1, <1>4, BecomesFacts DEF Base
<1>7. Base'
  BY <1>1, <1>2, <1>3, <1>4, <1>6 DEF Base, TypeOK, Whole
<1>8. Working'
  BY <1>1, <1>2, <1>3, <1>4, <1>5, <1>6
  DEF Idle, Working, Quiet, Fresh
<1> QED BY <1>7, <1>8 DEF IInv, Phase

\* A refresh that a command starts.
LEMMA RefreshStep ==
    ASSUME Base, job = None, queue = << >>, pending = << >>,
           NEW o, Whole(o), NEW f \in FrameData,
           Switching \/ \A c \in o.freed : c # f.ctx,
           NEW then \in {"return", "select"},
           NEW name \in DOMAIN o.bm \cup {None},
           then = "return" => name = None,
           BeginRefresh(o, f, then, name), UNCHANGED <<present, queue>>,
           ~f.running, ~f.dontUpdate, Fresh(f), f.ctx # None,
           ~f.lost => f.path = o.sel
    PROVE  IInv'
<1>1. /\ Whole(fb') /\ (Switching \/ fb'.freed = {}) /\ job' = None
      /\ frame' \in FrameData
      /\ frame'.running /\ frame'.skip = f.skip
      /\ f.skip => frame'.dontUpdate = f.dontUpdate
      /\ frame'.path = f.path /\ frame'.ctx = f.ctx
      /\ frame'.lost = f.lost /\ frame'.stale = f.stale
      /\ frame'.later = f.later
      /\ \E e \in TreeRefresh :
            /\ pending' = <<e>> /\ Remembered(e, fb')
            /\ e.path = o.sel /\ e.was = f.running
            /\ e.then = then /\ e.name = name
  BY BeginRefreshFacts DEF Base, TypeOK
<1>2. PICK e \in TreeRefresh :
         /\ pending' = <<e>> /\ Remembered(e, fb')
         /\ e.path = o.sel /\ ~e.was
         /\ e.then = then /\ e.name = name
  BY <1>1
<1>3. Base'
  BY <1>1, <1>2 DEF Base, TypeOK, Whole
<1>4. Refreshing'
  BY <1>1, <1>2 DEF Refreshing, Fresh
<1> QED BY <1>3, <1>4 DEF IInv, Phase

LEMMA OnRefreshStep ==
    ASSUME IInv, ~WhileRunning, OnRefresh
    PROVE  IInv'
<1>1. Base /\ Idle
  BY Commands DEF OnRefresh
<1>2. /\ Whole(fb) /\ frame \in FrameData /\ frame.ctx # None
      /\ (Switching \/ \A c \in fb.freed : c # frame.ctx)
      /\ ~frame.running /\ ~frame.dontUpdate /\ Fresh(frame)
      /\ ~frame.lost => frame.path = fb.sel
  BY <1>1 DEF Base, TypeOK, Idle, Quiet
<1>3. /\ BeginRefresh(fb, frame, "return", None) /\ UNCHANGED <<present, queue>>
      /\ job = None /\ queue = << >> /\ pending = << >>
  BY <1>1 DEF OnRefresh, Idle
<1> QED BY <1>1, <1>2, <1>3, RefreshStep

LEMMA OnFlatViewStep ==
    ASSUME IInv, ~WhileRunning, OnFlatView
    PROVE  IInv'
<1> DEFINE o == SetFlat(fb, ~IsFlat(fb))
           f1 == [frame EXCEPT !.flat = IsFlat(o)]
           f == RefreshFileList(f1)
<1>1. Base /\ Idle
  BY Commands DEF OnFlatView
<1>2. \A p : Whole(p) => IsFlat(p) \in BOOLEAN
  <2> SUFFICES ASSUME NEW p, Whole(p)
               PROVE  IsFlat(p) \in BOOLEAN
    OBVIOUS
  <2>1. p.bm \in [DOMAIN p.bm -> Bookmark]
    BY DataFields DEF Whole
  <2>2. \A b \in DOMAIN p.bm : p.bm[b].flat \in BOOLEAN
    BY <2>1 DEF Bookmark
  <2> QED BY <2>2 DEF IsFlat, SelectedBookmark
<1>3. Whole(o) /\ (Switching \/ o.freed = {}) /\ o.sel = fb.sel
  <2>1. Whole(fb) /\ (Switching \/ fb.freed = {}) /\ (~IsFlat(fb)) \in BOOLEAN
    BY <1>1, <1>2 DEF Base
  <2> QED BY <2>1, SetFlatFacts DEF SameTree
<1>4. Becomes(o, f, job) /\ UNCHANGED <<present, queue, pending>>
  BY DEF OnFlatView
<1> HIDE DEF o
<1>5. /\ f1 \in FrameData /\ f1.ctx = frame.ctx /\ f1.running = frame.running
      /\ f1.path = frame.path /\ f1.lost = frame.lost
      /\ f1.dontUpdate = frame.dontUpdate /\ f1.skip = frame.skip
      /\ f1.stale = frame.stale /\ f1.later = frame.later
  BY <1>1, <1>2, <1>3 DEF Base, TypeOK, FrameData
<1> HIDE DEF f1
<1>6. /\ f \in FrameData /\ f.ctx = f1.ctx /\ f.running = f1.running
      /\ f.path = f1.path /\ f.lost = f1.lost
      /\ f.dontUpdate = f1.dontUpdate /\ f.skip = f1.skip
      /\ f.stale => f1.stale
      /\ f.later = f1.later
  BY <1>5, RefreshFileListFacts
<1> HIDE DEF f
<1>7. ~f.running /\ Quiet(f, o) /\ Fresh(f) /\ f.ctx # None
  BY <1>1, <1>3, <1>5, <1>6 DEF Base, Idle, Quiet, Fresh
<1> QED BY <1>1, <1>3, <1>4, <1>6, <1>7, IdleStep

\* While the frame and nobody else holds a context, there is room for more.
LEMMA UsedIsBounded ==
    ASSUME Base, job = None, NEW o,
           OwnedContexts(o) \subseteq OwnedContexts(fb) \cup {None}
    PROVE  /\ Cardinality(Contexts \cap Used(o)) + 1 <= Cardinality(Contexts)
           /\ Cardinality(Contexts \cap Used(o)) + Cardinality(DOMAIN fb.bm)
                 <= Cardinality(Contexts)
<1>1. Used(o) \subseteq OwnedContexts(fb) \cup {frame.ctx, Default, None}
  BY DEF Used, JobContexts
<1>2. Whole(fb)
  BY DEF Base
<1> QED BY <1>1, <1>2, RoomLeft

LEMMA AddWcBookmarkStep ==
    ASSUME IInv, ~WhileRunning, NEW b \in Bookmarks, AddWcBookmark(b)
    PROVE  IInv'
<1> DEFINE o == AddBookmark(fb, b, Used(fb))
           f == [frame EXCEPT !.skip = TRUE]
<1>1. Base /\ Idle
  BY Commands DEF AddWcBookmark
<1>2. /\ Whole(o) /\ o.sel = fb.sel /\ (Switching \/ o.freed = {})
      /\ DOMAIN o.bm = DOMAIN fb.bm \cup {b}
  <2>1. Whole(fb) /\ (Switching \/ fb.freed = {})
    BY <1>1 DEF Base
  <2>2. {fb.bm[x].ctx : x \in DOMAIN fb.bm} \subseteq Used(fb)
    BY DEF Used, OwnedContexts
  <2>3. Cardinality(Contexts \cap Used(fb)) + 1 <= Cardinality(Contexts)
    BY <1>1, UsedIsBounded DEF Idle
  <2> QED BY <2>1, <2>2, <2>3, AddBookmarkFacts DEF SameTree
<1>3. PICK asStored \in BOOLEAN :
         BeginRefresh(o, f, "select", IF asStored THEN b ELSE None)
  BY DEF AddWcBookmark
<1>4. UNCHANGED <<present, queue>>
  BY DEF AddWcBookmark
<1> HIDE DEF o
<1>5. /\ f \in FrameData /\ f.ctx = frame.ctx /\ f.running = frame.running
      /\ f.path = frame.path /\ f.lost = frame.lost
      /\ f.dontUpdate = frame.dontUpdate
      /\ f.stale = frame.stale /\ f.later = frame.later
  BY <1>1 DEF Base, TypeOK, FrameData
<1> HIDE DEF f
<1>6. /\ ~f.running /\ ~f.dontUpdate /\ Fresh(f) /\ f.ctx # None
      /\ ~f.lost => f.path = o.sel
      /\ job = None /\ queue = << >> /\ pending = << >>
  BY <1>1, <1>2, <1>5 DEF Base, Idle, Quiet, Fresh
<1>7. (IF asStored THEN b ELSE None) \in DOMAIN o.bm \cup {None}
  BY <1>2
<1> QED BY <1>1, <1>2, <1>3, <1>4, <1>5, <1>6, <1>7, RefreshStep

\* After the selection has left a bookmark for the root the frame no longer
\* uses this bookmark's context.
LEMMA LeavingABookmark ==
    ASSUME Base, Idle, fb.sel \in Bookmarks
    PROVE  LET o == SelectFolder(fb, Root)
               f == SelChanged(frame, fb, o)
               p == RemoveBookmark(o, fb.sel)
           IN  /\ fb.sel \in DOMAIN fb.bm
               /\ Whole(p) /\ p.sel = Root
               /\ OwnedContexts(p) \subseteq OwnedContexts(fb)
               /\ f \in FrameData /\ ~f.running /\ f.ctx # None
               /\ Quiet(f, p) /\ Fresh(f)
               /\ (Switching \/ \A c \in p.freed : c # f.ctx)
<1> DEFINE o == SelectFolder(fb, Root)
           f == SelChanged(frame, fb, o)
           b == fb.sel
           p == RemoveBookmark(o, b)
<1>1. /\ Whole(fb) /\ (Switching \/ fb.freed = {}) /\ frame \in FrameData
      /\ present \in SUBSET Folders
      /\ ~frame.running /\ Quiet(frame, fb) /\ Fresh(frame) /\ frame.ctx # None
  BY DEF Base, TypeOK, Idle
<1>2. Root \in Nodes /\ b # Root /\ b \in Nodes
  BY TreeAssumption DEF Nodes
<1>3. /\ Whole(o) /\ SameBookmarks(o, fb) /\ o.sel = Root
  BY <1>1, <1>2, SelectFolderFacts
<1>4. b \in DOMAIN fb.bm
  <2>1. BookmarkOf(b) = b /\ b # None
    BY <1>2, BookmarkOfFacts, TreeAssumption
  <2>2. BookmarkOf(b) \in DOMAIN fb.bm \cup {None}
    BY NodesKnown
  <2> QED BY <2>1, <2>2
<1> HIDE DEF o, b
<1>5. /\ f \in FrameData /\ ~f.running /\ Quiet(f, o) /\ Fresh(f)
      /\ f.ctx # None
  BY <1>1, <1>3, SelChangedSettles
<1>6. f.ctx = IF fb.single # None THEN fb.single ELSE Default
  <2>1. f.ctx = GetContext(o)
    <3>1. fb.sel # o.sel /\ ~frame.running
      BY <1>1, <1>2, <1>3 DEF b
    <3> QED BY <1>1, <1>3, <3>1, SelChangedFacts
  <2> HIDE DEF f
  <2> QED BY <1>3, <2>1, GetContextFacts DEF SameBookmarks
<1> HIDE DEF f
<1>7. /\ Whole(p) /\ p.sel = Root
      /\ DOMAIN p.bm = DOMAIN o.bm \ {b}
      /\ \A x \in DOMAIN p.bm : p.bm[x] = o.bm[x]
      /\ p.single = o.single
      /\ p.freed = o.freed \cup ({o.bm[b].ctx} \ {None})
  <2>1. b \in DOMAIN o.bm
    BY <1>3, <1>4 DEF SameBookmarks
  <2> QED BY <1>3, <2>1, RemoveBookmarkFacts
<1> HIDE DEF p
<1>8. Switching \/ \A c \in p.freed : c # f.ctx
  <2> SUFFICES ASSUME ~Switching, NEW c \in p.freed
               PROVE  c # f.ctx
    OBVIOUS
  <2>1. c = fb.bm[b].ctx /\ c # None
    BY <1>1, <1>3, <1>7 DEF SameBookmarks
  <2>2. fb.single = None
    BY <1>1, <1>4, <2>1 DEF Whole, Logins
  <2>3. c \in Contexts
    BY <1>7, DataFields DEF Whole
  <2> QED BY <1>6, <2>2, <2>3, ContextAssumption
<1>9. OwnedContexts(p) \subseteq OwnedContexts(fb)
  BY <1>3, <1>7 DEF OwnedContexts, SameBookmarks
<1>10. Quiet(f, p)
  BY <1>3, <1>5, <1>7 DEF Quiet
<1> QED BY <1>4, <1>5, <1>7, <1>8, <1>9, <1>10 DEF o, f, b, p

LEMMA OnRemoveBookmarkStep ==
    ASSUME IInv, ~WhileRunning, OnRemoveBookmark
    PROVE  IInv'
<1> DEFINE o == SelectFolder(fb, Root)
           f == SelChanged(frame, fb, o)
           p == RemoveBookmark(o, fb.sel)
<1>1. Base /\ Idle /\ fb.sel \in Bookmarks
  BY Commands DEF OnRemoveBookmark
<1>2. /\ Whole(p)
      /\ f \in FrameData /\ ~f.running /\ f.ctx # None
      /\ Quiet(f, p) /\ Fresh(f)
      /\ (Switching \/ \A c \in p.freed : c # f.ctx)
  BY <1>1, LeavingABookmark
<1>3. Becomes(p, f, job) /\ UNCHANGED <<present, queue, pending>>
  BY DEF OnRemoveBookmark
<1> HIDE DEF p, f
<1> QED BY <1>1, <1>2, <1>3, IdleStep

LEMMA EditBookmarkStep ==
    ASSUME IInv, ~WhileRunning, NEW b \in Bookmarks, EditBookmark(b)
    PROVE  IInv'
<1> DEFINE o0 == SelectFolder(fb, Root)
           f == SelChanged(frame, fb, o0)
           p == RemoveBookmark(o0, fb.sel)
           o == AddBookmark(p, b, Used(p))
<1>1. Base /\ Idle /\ fb.sel \in Bookmarks
  BY Commands DEF EditBookmark
<1>2. /\ Whole(p) /\ p.sel = Root
      /\ OwnedContexts(p) \subseteq OwnedContexts(fb)
      /\ f \in FrameData /\ ~f.running /\ f.ctx # None
      /\ Quiet(f, p) /\ Fresh(f)
      /\ (Switching \/ \A c \in p.freed : c # f.ctx)
  BY <1>1, LeavingABookmark
<1>3. /\ UNCHANGED <<present, queue>>
      /\ \E asStored \in BOOLEAN :
            BeginRefresh(o, f, "select", IF asStored THEN b ELSE None)
  BY DEF EditBookmark
<1> HIDE DEF f, p
<1>4. /\ Whole(o) /\ o.sel = p.sel /\ o.freed \subseteq p.freed
      /\ DOMAIN o.bm = DOMAIN p.bm \cup {b}
  <2>1. {p.bm[x].ctx : x \in DOMAIN p.bm} \subseteq Used(p)
    BY DEF Used, OwnedContexts
  <2>2. Cardinality(Contexts \cap Used(p)) + 1 <= Cardinality(Contexts)
    <3>1. OwnedContexts(p) \subseteq OwnedContexts(fb) \cup {None}
      BY <1>2
    <3> QED BY <1>1, <3>1, UsedIsBounded DEF Idle
  <2> QED BY <1>2, <2>1, <2>2, AddBookmarkFacts DEF SameTree
<1>5. PICK asStored \in BOOLEAN :
         BeginRefresh(o, f, "select", IF asStored THEN b ELSE None)
  BY <1>3
<1> HIDE DEF o
<1>6. /\ ~f.dontUpdate
      /\ ~f.lost => f.path = o.sel
      /\ (Switching \/ \A c \in o.freed : c # f.ctx)
      /\ job = None /\ queue = << >> /\ pending = << >>
  BY <1>1, <1>2, <1>4 DEF Idle, Quiet
<1>7. (IF asStored THEN b ELSE None) \in DOMAIN o.bm \cup {None}
  BY <1>4
<1> QED BY <1>1, <1>2, <1>3, <1>4, <1>5, <1>6, <1>7, RefreshStep

\* Without a change between the two ways of logging in nobody's context is
\* deleted: for a single login the old object stays behind unused.  With one
\* the frame may keep a deleted context, but nothing else changes.
LEMMA ShowPreferencesStep ==
    ASSUME IInv, ~WhileRunning, ShowPreferences
    PROVE  IInv'
<1>1. Base /\ Idle
  BY Commands DEF ShowPreferences
<1>2. PICK perBookmark \in BOOLEAN :
         /\ Switching \/ perBookmark = (fb.single = None)
         /\ Becomes(SetAuthPerBookmark(fb, perBookmark, Used(fb)), frame, job)
  BY DEF ShowPreferences
<1> DEFINE o == SetAuthPerBookmark(fb, perBookmark, Used(fb))
           S == IF perBookmark THEN DOMAIN fb.bm ELSE {None}
<1>3. /\ Whole(fb) /\ fb \in Data /\ Known(fb) /\ Logins(fb) /\ (Switching \/ fb.freed = {})
  BY <1>1 DEF Base, Whole
<1>4. Cardinality(Contexts \cap Used(fb)) + Cardinality(S) <= Cardinality(Contexts)
  <2>1. Cardinality({None}) = 1
    BY FS_Singleton
  <2> QED BY <1>1, <1>2, <2>1, UsedIsBounded DEF Idle
<1>5. /\ Whole(o) /\ SameTree(o, fb)
      /\ o.freed \subseteq fb.freed \cup
           ((IF perBookmark THEN {fb.single}
             ELSE {fb.bm[b].ctx : b \in DOMAIN fb.bm}) \ {None})
  BY <1>3, <1>4, SetAuthFacts
<1> HIDE DEF o, S
<1>6. Switching \/ o.freed = {}
  <2> SUFFICES ASSUME ~Switching PROVE o.freed = {}
    OBVIOUS
  <2>1. perBookmark => {fb.single} \ {None} = {}
    BY <1>2
  <2>2. ~perBookmark => {fb.bm[b].ctx : b \in DOMAIN fb.bm} \ {None} = {}
    BY <1>2, <1>3 DEF Logins
  <2> QED BY <1>3, <1>5, <2>1, <2>2
<1>7. /\ frame \in FrameData /\ ~frame.running /\ frame.ctx # None
      /\ Quiet(frame, o) /\ Fresh(frame)
  BY <1>1, <1>5 DEF Base, TypeOK, Idle, Quiet, SameTree
<1>8. Becomes(o, frame, job) /\ UNCHANGED <<present, queue, pending>>
  BY <1>2 DEF ShowPreferences, o
<1> QED BY <1>1, <1>5, <1>6, <1>7, <1>8, IdleStep

LEMMA OnLogListBrowseStep ==
    ASSUME IInv, ~WhileRunning, NEW path \in Folders \cup Bookmarks,
           NEW isFile, OnLogListBrowse(path, isFile)
    PROVE  IInv'
<1>1. Base /\ Idle
  BY Commands DEF OnLogListBrowse
<1>2. PICK b \in ContainingBookmarks(fb, path) \cap fb.nodes :
         LET o1 == SelectBookmark(fb, b)
             f1 == SelChanged(frame, fb, o1)
             o2 == SelectFolder(o1, path)
             f2 == SelChanged(f1, o1, o2)
         IN  Becomes(o2,
                     IF o2.sel = path /\ isFile
                     THEN RefreshFileList(UpdateCurrentPath(f2, o2))
                     ELSE f2,
                     job)
  BY DEF OnLogListBrowse
<1> DEFINE o1 == SelectBookmark(fb, b)
           f1 == SelChanged(frame, fb, o1)
           o2 == SelectFolder(o1, path)
           f2 == SelChanged(f1, o1, o2)
           f3 == UpdateCurrentPath(f2, o2)
           f4 == RefreshFileList(f3)
           f == IF o2.sel = path /\ isFile THEN f4 ELSE f2
<1>3. Becomes(o2, f, job)
  BY <1>2
<1>4. Whole(o1) /\ (Switching \/ o1.freed = {})
  BY <1>1, SelectBookmarkFacts DEF Base, SameBookmarks
<1>5. /\ f1 \in FrameData /\ ~f1.running
      /\ Quiet(f1, o1) /\ Fresh(f1) /\ f1.ctx # None
  BY <1>1, <1>4, SelChangedSettles DEF Base, TypeOK, Idle
<1> HIDE DEF o1, f1
<1>6. Whole(o2) /\ (Switching \/ o2.freed = {})
  <2>1. path \in Nodes /\ present \in SUBSET Folders
    BY <1>1 DEF Nodes, Base, TypeOK
  <2> QED BY <1>4, <2>1, SelectFolderFacts DEF SameBookmarks
<1> HIDE DEF o2
<1>7. /\ f2 \in FrameData /\ ~f2.running
      /\ Quiet(f2, o2) /\ Fresh(f2) /\ f2.ctx # None
  BY <1>5, <1>6, SelChangedSettles
<1> HIDE DEF f2
<1>8. /\ f3 \in FrameData
      /\ f3.path = o2.sel /\ f3.ctx # None /\ f3.running = f2.running
      /\ f3.dontUpdate = f2.dontUpdate /\ f3.skip = f2.skip
  BY <1>6, <1>7, UpdateCurrentPathFacts
<1> HIDE DEF f3
<1>9. /\ f4 \in FrameData
      /\ ~f3.dontUpdate => ~f4.stale
      /\ f4.path = f3.path /\ f4.ctx = f3.ctx /\ f4.running = f3.running
      /\ f4.dontUpdate = f3.dontUpdate /\ f4.skip = f3.skip
  BY <1>8, RefreshFileListFacts
<1> HIDE DEF f4
<1>10. /\ f \in FrameData /\ ~f.running
       /\ Quiet(f, o2) /\ Fresh(f) /\ f.ctx # None
  <2>1. CASE o2.sel = path /\ isFile
    <3>1. f = f4
      BY <2>1
    <3> QED BY <1>7, <1>8, <1>9, <3>1 DEF Quiet, Fresh
  <2>2. CASE ~(o2.sel = path /\ isFile)
    <3>1. f = f2
      BY <2>2
    <3> QED BY <1>7, <3>1
  <2> QED BY <2>1, <2>2
<1> HIDE DEF f
<1>11. UNCHANGED <<present, queue, pending>>
  BY DEF OnLogListBrowse
<1> QED BY <1>1, <1>3, <1>6, <1>10, <1>11, IdleStep

LEMMA OnActivateStep ==
    ASSUME IInv, OnActivate
    PROVE  IInv'
<1> DEFINE f0 == [frame EXCEPT !.later = FALSE]
           f == RefreshFileList(f0)
<1>1. /\ Whole(fb) /\ (Switching \/ fb.freed = {}) /\ frame \in FrameData /\ frame.ctx # None
  BY DEF IInv, Base, TypeOK
<1>2. Becomes(fb, f, job) /\ UNCHANGED <<present, queue, pending>>
  BY DEF OnActivate
<1>3. /\ f0 \in FrameData /\ f0.ctx = frame.ctx /\ f0.running = frame.running
      /\ f0.path = frame.path /\ f0.lost = frame.lost
      /\ f0.dontUpdate = frame.dontUpdate /\ f0.skip = frame.skip
  BY <1>1 DEF FrameData
<1> HIDE DEF f0
<1>4. /\ f \in FrameData /\ f.ctx = frame.ctx /\ f.running = frame.running
      /\ f.path = frame.path /\ f.lost = frame.lost
      /\ f.dontUpdate = frame.dontUpdate /\ f.skip = frame.skip
      /\ ~frame.dontUpdate => ~f.stale
  BY <1>3, RefreshFileListFacts
<1> HIDE DEF f
<1>5. /\ Whole(fb') /\ (Switching \/ fb'.freed = {}) /\ fb'.sel = fb.sel
      /\ fb'.bm = fb.bm /\ fb'.nodes = fb.nodes
      /\ frame' = f /\ job' = job
  BY <1>1, <1>2, BecomesFacts
<1>6. Base'
  BY <1>1, <1>2, <1>4, <1>5 DEF IInv, Base, TypeOK, Whole
<1>7. CASE Idle
  <2>1. Idle'
    BY <1>2, <1>4, <1>5, <1>7 DEF Idle, Quiet, Fresh
  <2> QED BY <1>6, <2>1 DEF IInv, Phase
<1>8. CASE Working
  <2>1. Working'
    BY <1>2, <1>4, <1>5, <1>8 DEF Working, Quiet, Fresh
  <2> QED BY <1>6, <2>1 DEF IInv, Phase
<1>9. CASE Ended
  <2>1. Ended'
    BY <1>2, <1>4, <1>5, <1>9 DEF Ended, Quiet, Fresh
  <2> QED BY <1>6, <2>1 DEF IInv, Phase
<1>10. CASE Adding
  <2>1. Adding'
    BY <1>2, <1>4, <1>5, <1>10 DEF Adding, Remembered
  <2> QED BY <1>6, <2>1 DEF IInv, Phase
<1>11. CASE Refreshing
  <2>1. Refreshing'
    BY <1>2, <1>4, <1>5, <1>11 DEF Refreshing, Remembered, Fresh
  <2> QED BY <1>6, <2>1 DEF IInv, Phase
<1> QED BY <1>7, <1>8, <1>9, <1>10, <1>11 DEF IInv, Phase

\* A session starts with what the last one has written.
LEMMA RestartStep ==
    ASSUME IInv, Restart
    PROVE  IInv'
<1>1. Base /\ job = None /\ queue = << >> /\ pending = << >>
  BY DEF IInv, Restart
<1>2. PICK resetFlat \in BOOLEAN :
         LET o == SetAuthPerBookmark(Reloaded(fb, resetFlat),
                                     fb.single = None, {None})
         IN  BeginRefresh(o, UpdateCurrentPath(NewFrame, o), "return", None)
  BY DEF Restart
<1> DEFINE p == Reloaded(fb, resetFlat)
           perBookmark == fb.single = None
           o == SetAuthPerBookmark(p, perBookmark, {None})
           f == UpdateCurrentPath(NewFrame, o)
           S == IF perBookmark THEN DOMAIN p.bm ELSE {None}
<1>3. BeginRefresh(o, f, "return", None)
  BY <1>2
<1>4. Whole(fb) /\ fb \in Data
  BY <1>1 DEF Base, Whole
<1>5. /\ p \in Data /\ Known(p)
      /\ p.single = None /\ p.freed = {} /\ p.sel = Root
      /\ DOMAIN p.bm = DOMAIN fb.bm
      /\ \A b \in DOMAIN p.bm : p.bm[b].ctx = None
  BY <1>4, ReloadedFacts
<1> HIDE DEF p
<1>6. Cardinality(Contexts \cap {None}) + Cardinality(S) <= Cardinality(Contexts)
  <2>1. Contexts \cap {None} = {}
    BY ContextAssumption
  <2>2. Cardinality({}) = 0 /\ Cardinality({None}) = 1
    BY FS_EmptySet, FS_Singleton
  <2>3. /\ Cardinality(DOMAIN p.bm) \in Nat
        /\ Cardinality(DOMAIN p.bm) <= Cardinality(Bookmarks)
    BY <1>5, DataFields, FS_Subset, FS_CardinalityType, HeapAssumption
  <2>4. Cardinality(Bookmarks) \in Nat /\ Cardinality(Contexts) \in Nat
    BY FS_CardinalityType, HeapAssumption
  <2>5. Cardinality(S) = Cardinality(DOMAIN p.bm) \/ Cardinality(S) = 1
    BY <2>2
  <2>6. /\ Cardinality(Contexts) > 2 * Cardinality(Bookmarks)
        /\ Cardinality(Contexts) > 2
    BY HeapAssumption
  <2> HIDE DEF S
  <2> QED BY <2>1, <2>2, <2>3, <2>4, <2>5, <2>6
<1>7. perBookmark \in BOOLEAN
  OBVIOUS
<1> HIDE DEF perBookmark
<1>8. /\ Whole(o) /\ (Switching \/ o.freed = {}) /\ o.sel = Root
  <2>1. /\ Whole(o) /\ SameTree(o, p)
        /\ o.freed \subseteq p.freed \cup
             ((IF perBookmark THEN {p.single}
               ELSE {p.bm[b].ctx : b \in DOMAIN p.bm}) \ {None})
    BY <1>5, <1>6, <1>7, SetAuthFacts
  <2> HIDE DEF o
  <2> QED BY <1>5, <2>1 DEF SameTree
<1> HIDE DEF o
<1>9. /\ NewFrame \in FrameData /\ ~NewFrame.running /\ ~NewFrame.dontUpdate
      /\ NewFrame.path = Root /\ ~NewFrame.skip /\ ~NewFrame.stale
  BY DEF NewFrame, FrameData, Nodes
<1>10. /\ f \in FrameData /\ ~f.running /\ ~f.dontUpdate /\ f.ctx # None
       /\ ~f.lost => f.path = o.sel
       /\ Fresh(f) /\ Quiet(f, o)
  <2>1. /\ f \in FrameData
        /\ f.path = o.sel /\ f.ctx # None
        /\ f.stale = (NewFrame.stale \/ o.sel # NewFrame.path)
        /\ f.running = NewFrame.running /\ f.dontUpdate = NewFrame.dontUpdate
        /\ f.skip = NewFrame.skip
    BY <1>8, <1>9, UpdateCurrentPathFacts
  <2> HIDE DEF f
  <2> QED BY <1>8, <1>9, <2>1 DEF Fresh, Quiet
<1> HIDE DEF f
<1>11. Switching \/ \A c \in o.freed : c # f.ctx
  BY <1>8
<1>12. UNCHANGED <<present, queue>>
  BY DEF Restart
<1>13. None \in DOMAIN o.bm \cup {None}
  OBVIOUS
<1> QED BY <1>1, <1>3, <1>8, <1>10, <1>11, <1>12, <1>13, RefreshStep

-----------------------------------------------------------------------------
(* The worker, its events, and the end of a refresh                        *)

\* Short sequences.
LEMMA OneOrTwo ==
    ASSUME NEW S, NEW x \in S, NEW y \in S
    PROVE  /\ <<x>> \in Seq(S) /\ <<x, y>> \in Seq(S)
           /\ << >> \o <<x>> \o <<y>> = <<x, y>>
           /\ << >> \o << >> \o <<x>> = <<x>>
<1>1. <<x>> \in Seq(S) /\ <<y>> \in Seq(S) /\ <<x, y>> \in Seq(S)
  OBVIOUS
<1>2. \A s \in Seq(S) : << >> \o s = s
  OBVIOUS
<1>3. <<x>> \o <<y>> = <<x, y>>
  <2> DEFINE s == <<x>> \o <<y>>
  <2>1. s \in Seq(S) /\ Len(s) = 2 /\ s[1] = x /\ s[2] = y
    BY <1>1
  <2>2. <<x, y>> \in Seq(S) /\ Len(<<x, y>>) = 2
    BY <1>1
  <2> HIDE DEF s
  <2>3. s = [i \in 1..2 |-> s[i]]
    BY <2>1
  <2>4. <<x, y>> = [i \in 1..2 |-> <<x, y>>[i]]
    BY <2>2
  <2>5. \A i \in 1..2 : s[i] = <<x, y>>[i]
    BY <2>1
  <2> QED BY <2>3, <2>4, <2>5 DEF s
<1> QED BY <1>1, <1>2, <1>3

LEMMA WorkerEndsStep ==
    ASSUME IInv, WorkerEnds
    PROVE  IInv'
<1> DEFINE f == [frame EXCEPT !.stale = @ \/ job.flags # "dont"]
<1>1. Base /\ Working
  BY DEF IInv, Phase, WorkerEnds, Idle, Working, Ended, Adding, Refreshing
<1>2. /\ Whole(fb) /\ (Switching \/ fb.freed = {}) /\ frame \in FrameData /\ frame.ctx # None
      /\ present \in SUBSET Folders /\ job \in Job
  BY <1>1 DEF Base, TypeOK, Working
<1>3. /\ f \in FrameData /\ f.ctx = frame.ctx /\ f.running = frame.running
      /\ f.path = frame.path /\ f.lost = frame.lost
      /\ f.dontUpdate = frame.dontUpdate /\ f.skip = frame.skip
      /\ f.later = frame.later
      /\ job.flags = "dont" => f.stale = frame.stale
  BY <1>2 DEF FrameData
<1>4. Becomes(fb, f, None) /\ UNCHANGED pending
  BY DEF WorkerEnds
<1> HIDE DEF f
<1>5. /\ Whole(fb') /\ (Switching \/ fb'.freed = {}) /\ fb'.sel = fb.sel
      /\ frame' = f /\ job' = None
  BY <1>2, <1>4, BecomesFacts
<1>6. present' \in SUBSET Folders
  BY <1>2 DEF WorkerEnds
<1>7. PICK done \in BOOLEAN, flags \in {job.flags, "none"} :
         queue' = queue \o
             (IF done /\ job.adds # None THEN <<ADD(job.adds)>> ELSE << >>)
             \o <<END(flags)>>
  BY DEF WorkerEnds, ADD, END
<1>8. /\ job.flags \in FlagSet /\ job.adds \in Bookmarks \cup {None}
      /\ job.adds # None => job.flags = "none"
  BY <1>1, <1>2 DEF Job, Working
<1>9. \A g \in FlagSet : END(g) \in Event
  BY DEF END, Event
<1>10. \A b \in Bookmarks : ADD(b) \in Event
  BY DEF ADD, Event, FlagSet
<1>15. flags \in FlagSet /\ (flags = "dont" => job.flags = "dont")
       /\ (job.adds # None => flags = "none")
  BY <1>8 DEF FlagSet
<1>11. \/ queue' = <<END(flags)>>
       \/ job.adds \in Bookmarks /\ queue' = <<ADD(job.adds), END("none")>>
  <2>1. queue = << >>
    BY <1>1 DEF Working
  <2>2. CASE done /\ job.adds # None
    <3>1. queue' = << >> \o <<ADD(job.adds)>> \o <<END("none")>>
      BY <1>7, <1>15, <2>1, <2>2
    <3>2. ADD(job.adds) \in Event /\ END("none") \in Event
      BY <1>8, <1>9, <1>10, <2>2 DEF FlagSet
    <3> QED BY <1>8, <2>2, <3>1, <3>2, OneOrTwo
  <2>3. CASE ~(done /\ job.adds # None)
    <3>1. queue' = << >> \o << >> \o <<END(flags)>>
      BY <1>7, <2>1, <2>3
    <3> QED BY <3>1
  <2> QED BY <2>2, <2>3
<1>12. queue' \in Seq(Event)
  <2>1. /\ END(flags) \in Event /\ END("none") \in Event
        /\ job.adds \in Bookmarks => ADD(job.adds) \in Event
    BY <1>9, <1>10, <1>15 DEF FlagSet
  <2> QED BY <1>11, <2>1, OneOrTwo
<1>13. Base'
  BY <1>1, <1>2, <1>3, <1>4, <1>5, <1>6, <1>12 DEF Base, TypeOK, Whole
<1>14. Ended'
  <2>1. queue' = <<END("dont")>> => job.flags = "dont"
    <3>1. Len(<<ADD(job.adds), END("none")>>) # Len(<<END("dont")>>)
      OBVIOUS
    <3>2. <<END(flags)>> = <<END("dont")>> => flags = "dont"
      BY DEF END
    <3> QED BY <1>11, <1>15, <3>1, <3>2
  <2>2. queue' = <<END("dont")>> => Fresh(f)
    BY <1>1, <1>3, <2>1 DEF Working, Fresh
  <2>3. f.running /\ Quiet(f, fb')
    BY <1>1, <1>3, <1>5 DEF Working, Quiet
  <2> QED BY <1>1, <1>4, <1>5, <1>11, <1>15, <2>2, <2>3 DEF Working, Ended
<1> QED BY <1>13, <1>14 DEF IInv, Phase

LEMMA DispatchAddBookmarkStep ==
    ASSUME IInv, DispatchAddBookmark
    PROVE  IInv'
<1>1. /\ queue # << >> /\ Head(queue).tok = "ADD_BOOKMARK"
      /\ queue' = Tail(queue) /\ UNCHANGED present
  BY DEF DispatchAddBookmark, Take
<1>2. \A flags : Head(<<END(flags)>>).tok # "ADD_BOOKMARK"
  BY DEF END
<1>3. Base /\ Ended
  BY <1>1, <1>2 DEF IInv, Phase, Idle, Working, Ended, Adding, Refreshing
<1>4. PICK b \in Bookmarks : queue = <<ADD(b), END("none")>>
  BY <1>1, <1>2, <1>3 DEF Ended
<1>5. Head(queue).name = b /\ queue' = <<END("none")>>
  <2>1. Head(queue) = ADD(b)
    BY <1>4
  <2>2. Tail(queue) = <<END("none")>>
    BY <1>4
  <2> QED BY <1>1, <2>1, <2>2 DEF ADD
<1> DEFINE o == AddBookmark(fb, b, Used(fb))
<1>6. PICK asStored \in BOOLEAN :
         BeginRefresh(o, frame, "show", IF asStored THEN b ELSE None)
  BY <1>5 DEF DispatchAddBookmark
<1>7. /\ Whole(o) /\ (Switching \/ o.freed = {}) /\ o.sel = fb.sel
      /\ DOMAIN o.bm = DOMAIN fb.bm \cup {b}
  <2>1. Whole(fb) /\ (Switching \/ fb.freed = {})
    BY <1>3 DEF Base
  <2>2. {fb.bm[x].ctx : x \in DOMAIN fb.bm} \subseteq Used(fb)
    BY DEF Used, OwnedContexts
  <2>3. Cardinality(Contexts \cap Used(fb)) + 1 <= Cardinality(Contexts)
    BY <1>3, UsedIsBounded DEF Ended
  <2> QED BY <2>1, <2>2, <2>3, AddBookmarkFacts DEF SameTree
<1> HIDE DEF o
<1> DEFINE name == IF asStored THEN b ELSE None
<1>8. name \in DOMAIN o.bm \cup {None}
  BY <1>7
<1>9. BeginRefresh(o, frame, "show", name)
  BY <1>6
<1> HIDE DEF name
<1>10. /\ frame \in FrameData /\ present \in SUBSET Folders
       /\ pending = << >> /\ job = None
       /\ (Switching \/ \A c \in o.freed : c # frame.ctx)
       /\ frame.running /\ ~frame.skip /\ frame.ctx # None
  BY <1>3, <1>7 DEF Base, TypeOK, Ended, Quiet
<1>11. /\ Whole(fb') /\ (Switching \/ fb'.freed = {}) /\ job' = None
       /\ frame' \in FrameData
       /\ frame'.running /\ frame'.skip = frame.skip
       /\ frame'.ctx = frame.ctx
       /\ \E e \in TreeRefresh :
             /\ pending' = <<e>> /\ Remembered(e, fb')
             /\ e.was = frame.running /\ e.then = "show"
  <2>1. /\ Whole(fb') /\ (Switching \/ fb'.freed = {}) /\ job' = None
        /\ frame' \in FrameData
        /\ frame'.running /\ frame'.skip = frame.skip
        /\ frame.skip => frame'.dontUpdate = frame.dontUpdate
        /\ frame'.path = frame.path /\ frame'.ctx = frame.ctx
        /\ frame'.lost = frame.lost /\ frame'.stale = frame.stale
        /\ frame'.later = frame.later
        /\ \E e \in TreeRefresh :
              /\ pending' = <<e>> /\ Remembered(e, fb')
              /\ e.path = o.sel /\ e.was = frame.running
              /\ e.then = "show" /\ e.name = name
    <3>1. "show" \in {"return", "select", "show", "end"}
      OBVIOUS
    <3> QED BY <1>7, <1>8, <1>9, <1>10, <3>1, BeginRefreshFacts
  <2> QED BY <2>1
<1>12. PICK e \in TreeRefresh :
          /\ pending' = <<e>> /\ Remembered(e, fb')
          /\ e.was /\ e.then = "show"
  BY <1>10, <1>11
<1>13. END("none") \in Event
  BY DEF END, Event, FlagSet
<1>14. Base'
  <2>1. queue' \in Seq(Event) /\ pending' \in Seq(TreeRefresh)
    BY <1>5, <1>12, <1>13, OneOrTwo
  <2> QED BY <1>1, <1>10, <1>11, <2>1 DEF Base, TypeOK, Whole
<1>15. Adding'
  BY <1>5, <1>10, <1>11, <1>12 DEF Adding
<1> QED BY <1>14, <1>15 DEF IInv, Phase

LEMMA DispatchEndStep ==
    ASSUME IInv, DispatchEnd
    PROVE  IInv'
<1>1. /\ queue # << >> /\ Head(queue).tok = "END"
      /\ queue' = Tail(queue) /\ UNCHANGED present
  BY DEF DispatchEnd, Take
<1>2. \A b, flags : Head(<<ADD(b), END(flags)>>).tok # "END"
  BY DEF ADD
<1>3. Base /\ job = None /\ frame.running
      /\ \/ Ended /\ \E flags \in FlagSet : queue = <<END(flags)>>
         \/ Adding /\ queue = <<END("none")>>
  BY <1>1, <1>2 DEF IInv, Phase, Idle, Working, Ended, Adding, Refreshing
<1>4. PICK flags \in FlagSet : /\ queue = <<END(flags)>>
                               /\ Ended \/ (Adding /\ flags = "none")
  BY <1>3 DEF FlagSet
<1>5. Head(queue).flags = flags /\ queue' = << >>
  <2>1. Head(queue) = END(flags) /\ Tail(queue) = << >>
    BY <1>4
  <2> QED BY <1>1, <2>1 DEF END
<1>6. /\ Whole(fb) /\ (Switching \/ fb.freed = {}) /\ frame \in FrameData /\ frame.ctx # None
      /\ present \in SUBSET Folders
  BY <1>3 DEF Base, TypeOK
<1>7. CASE flags = "tree"
  <2>1. /\ Ended /\ pending = << >> /\ ~frame.skip
        /\ ~frame.lost => frame.path = fb.sel
    BY <1>4, <1>7 DEF Ended, Quiet
  <2>2. BeginRefresh(fb, frame, "end", None)
    BY <1>5, <1>7 DEF DispatchEnd
  <2>3. /\ Whole(fb') /\ (Switching \/ fb'.freed = {}) /\ job' = None
        /\ frame' \in FrameData
        /\ frame'.running /\ frame'.skip = frame.skip
        /\ frame.skip => frame'.dontUpdate = frame.dontUpdate
        /\ frame'.path = frame.path /\ frame'.ctx = frame.ctx
        /\ frame'.lost = frame.lost /\ frame'.stale = frame.stale
        /\ frame'.later = frame.later
        /\ \E e \in TreeRefresh :
              /\ pending' = <<e>> /\ Remembered(e, fb')
              /\ e.path = fb.sel /\ e.was = frame.running
              /\ e.then = "end" /\ e.name = None
    <3>1. /\ "end" \in {"return", "select", "show", "end"}
          /\ None \in DOMAIN fb.bm \cup {None}
          /\ (Switching \/ \A c \in fb.freed : c # frame.ctx)
      BY <1>6
    <3> QED BY <1>3, <1>6, <2>1, <2>2, <3>1, BeginRefreshFacts
  <2>4. PICK e \in TreeRefresh :
           /\ pending' = <<e>> /\ Remembered(e, fb')
           /\ e.path = fb.sel /\ e.then = "end" /\ e.name = None
    BY <2>3
  <2>5. Base'
    <3>1. queue' \in Seq(Event) /\ pending' \in Seq(TreeRefresh)
      BY <1>5, <2>4, OneOrTwo
    <3> QED BY <1>1, <1>6, <2>3, <3>1 DEF Base, TypeOK, Whole
  <2>6. Refreshing'
    BY <1>5, <2>1, <2>3, <2>4 DEF Refreshing
  <2> QED BY <2>5, <2>6 DEF IInv, Phase
<1>8. CASE flags # "tree"
  <2> DEFINE f0 == IF flags = "later" THEN [frame EXCEPT !.later = TRUE]
                   ELSE IF flags = "none" THEN RefreshFileList(frame)
                   ELSE frame
             f == [f0 EXCEPT !.running = FALSE]
  <2>1. Becomes(fb, f, job) /\ UNCHANGED pending
    BY <1>5, <1>8 DEF DispatchEnd
  <2>2. /\ f0 \in FrameData
        /\ f0.ctx = frame.ctx /\ f0.path = frame.path /\ f0.lost = frame.lost
        /\ f0.dontUpdate = frame.dontUpdate /\ f0.skip = frame.skip
        /\ flags = "later" => f0.later
        /\ flags = "none" /\ ~frame.dontUpdate => ~f0.stale
        /\ flags = "dont" => f0 = frame
    <3>1. CASE flags = "later"
      BY <1>6, <3>1 DEF FrameData
    <3>2. CASE flags = "none"
      BY <1>6, <3>2, RefreshFileListFacts
    <3>3. CASE flags = "dont"
      BY <1>6, <3>3
    <3> QED BY <1>8, <3>1, <3>2, <3>3 DEF FlagSet
  <2> HIDE DEF f0
  <2>3. /\ f \in FrameData /\ ~f.running
        /\ f.ctx = f0.ctx /\ f.path = f0.path /\ f.lost = f0.lost
        /\ f.dontUpdate = f0.dontUpdate /\ f.skip = f0.skip
        /\ f.later = f0.later /\ f.stale = f0.stale
    BY <2>2 DEF FrameData
  <2> HIDE DEF f
  <2>4. /\ Whole(fb') /\ (Switching \/ fb'.freed = {}) /\ fb'.sel = fb.sel
        /\ fb'.bm = fb.bm /\ fb'.nodes = fb.nodes
        /\ frame' = f /\ job' = None
    BY <1>3, <1>6, <2>1, BecomesFacts
  <2>5. Base'
    BY <1>1, <1>3, <1>5, <1>6, <2>1, <2>2, <2>3, <2>4 DEF Base, TypeOK, Whole
  <2>6. CASE Ended
    <3>1. flags = "dont" => Fresh(frame)
      BY <1>4, <2>6 DEF Ended
    <3>2. Idle'
      BY <1>4, <1>5, <1>8, <2>1, <2>2, <2>3, <2>4, <2>6, <3>1
      DEF Ended, Idle, Quiet, Fresh, FlagSet
    <3> QED BY <2>5, <3>2 DEF IInv, Phase
  <2>7. CASE Adding
    <3>1. Adding'
      BY <1>5, <2>1, <2>2, <2>3, <2>4, <2>7 DEF Adding, Remembered
    <3> QED BY <2>5, <3>1 DEF IInv, Phase
  <2> QED BY <1>4, <2>6, <2>7
<1> QED BY <1>7, <1>8

\* How a refresh ends, in either of the phases that have one: the frame is
\* idle again, unless the end of the action still has to be dispatched.
LEMMA FinishRefreshFacts ==
    ASSUME IInv, FinishRefresh
    PROVE  /\ IInv'
           /\ Head(pending).then = "show" /\ Head(pending).name # None =>
                 LET b == Head(pending).name
                 IN  fb'.sel = b /\ frame'.path = b /\ ~frame'.stale
<1>1. Base /\ job = None /\ (Adding \/ Refreshing)
  BY DEF IInv, Phase, FinishRefresh, Idle, Working, Ended, Adding, Refreshing
<1>2. PICK e \in TreeRefresh :
         /\ pending = <<e>> /\ Remembered(e, fb)
         /\ Adding => e.then = "show" /\ e.was
         /\ Refreshing =>
               /\ ~frame.lost => frame.path = e.path
               /\ \/ e.then = "return" /\ ~e.was /\ e.name = None
                  \/ e.then = "select" /\ ~e.was
                  \/ e.then = "end" /\ e.name = None /\ ~frame.skip
  <2>1. CASE Adding /\ Refreshing
    BY <2>1 DEF Adding, Refreshing
  <2>2. CASE Adding /\ ~Refreshing
    <3>1. \E e \in TreeRefresh : /\ pending = <<e>> /\ Remembered(e, fb)
                                 /\ e.then = "show" /\ e.was
      BY <2>2 DEF Adding
    <3> QED BY <2>2, <3>1
  <2>3. CASE ~Adding /\ Refreshing
    <3>1. \E e \in TreeRefresh :
             /\ pending = <<e>> /\ Remembered(e, fb)
             /\ ~frame.lost => frame.path = e.path
             /\ \/ e.then = "return" /\ ~e.was /\ e.name = None
                \/ e.then = "select" /\ ~e.was
                \/ e.then = "end" /\ e.name = None /\ ~frame.skip
      BY <2>3 DEF Refreshing
    <3> QED BY <2>3, <3>1
  <2> QED BY <1>1, <2>1, <2>2, <2>3
<1>3. Head(pending) = e /\ pending' = << >> /\ UNCHANGED <<present, queue>>
  <2>1. Head(<<e>>) = e /\ Tail(<<e>>) = << >>
    OBVIOUS
  <2> QED BY <1>2, <2>1 DEF FinishRefresh
<1> DEFINE x  == Expand(fb, e.bookmark)
           o1 == IF e.bookmark = None THEN fb ELSE SelectFolder(x, e.path)
           o2 == IF e.name = None THEN o1 ELSE SelectBookmark(o1, e.name)
           f1 == Refreshed(frame, e, o1)
           f  == CASE e.then = "return" -> f1
                   [] e.then = "select" -> SelChanged(f1, o1, o2)
                   [] e.then = "show"   -> ShowBookmark(f1, o1, o2)
                   [] e.then = "end"    -> [f1 EXCEPT !.running = FALSE]
<1>4. Becomes(o2, f, job)
  BY <1>3 DEF FinishRefresh
<1>5. /\ Whole(fb) /\ (Switching \/ fb.freed = {}) /\ frame \in FrameData /\ frame.ctx # None
      /\ present \in SUBSET Folders
      /\ e.path \in Nodes /\ e.bookmark \in DOMAIN fb.bm \cup {None}
      /\ e.name # None => e.name \in fb.nodes
  BY <1>1, <1>2 DEF Base, TypeOK, TreeRefresh, Remembered
<1>6. Whole(o1) /\ (Switching \/ o1.freed = {}) /\ fb.nodes \subseteq o1.nodes
  <2>1. CASE e.bookmark = None
    BY <1>5, <2>1
  <2>2. CASE e.bookmark # None
    <3>1. /\ e.bookmark \in Nodes
          /\ BookmarkOf(e.bookmark) \in DOMAIN fb.bm \cup {None}
      BY <1>1, <1>5, <2>2, NodesKnown
    <3>2. Whole(x) /\ SameBookmarks(x, fb) /\ fb.nodes \subseteq x.nodes
      BY <1>5, <3>1, ExpandFacts
    <3> HIDE DEF x
    <3>3. /\ Whole(SelectFolder(x, e.path))
          /\ SameBookmarks(SelectFolder(x, e.path), x)
          /\ x.nodes \subseteq SelectFolder(x, e.path).nodes
      BY <1>5, <3>2, SelectFolderFacts
    <3> QED BY <1>5, <2>2, <3>2, <3>3 DEF SameBookmarks
  <2> QED BY <2>1, <2>2
<1> HIDE DEF o1
<1>7. /\ Whole(o2) /\ (Switching \/ o2.freed = {})
      /\ e.name = None => o2 = o1
      /\ e.name # None => o2.sel = e.name
  <2>1. CASE e.name = None
    BY <1>6, <2>1
  <2>2. CASE e.name # None
    BY <1>5, <1>6, <2>2, SelectBookmarkFacts DEF SameBookmarks
  <2> QED BY <2>1, <2>2
<1> HIDE DEF o2
<1>8. /\ f1 \in FrameData
      /\ f1.running = (e.was /\ frame.running)
      /\ ~f1.skip
      /\ f1.lost = (frame.lost \/ o1.sel # e.path)
      /\ ~frame.skip => ~f1.dontUpdate /\ ~f1.stale
      /\ frame.skip => f1.dontUpdate = frame.dontUpdate /\ f1.stale = frame.stale
      /\ f1.path = frame.path /\ f1.ctx = frame.ctx /\ f1.later = frame.later
  BY <1>5, RefreshedFacts
<1> HIDE DEF f1
\* In either phase:
<1>9. ASSUME f \in FrameData, f.ctx # None, Quiet(f, o2), Fresh(f),
             \/ ~f.running /\ queue = << >>
             \/ f.running /\ queue = <<END("none")>>
      PROVE  /\ IInv' /\ fb'.sel = o2.sel /\ frame' = f
  <2> HIDE DEF f
  <2>1. /\ Whole(fb') /\ (Switching \/ fb'.freed = {}) /\ fb'.sel = o2.sel
        /\ frame' = f /\ job' = None
    BY <1>1, <1>4, <1>7, BecomesFacts
  <2>2. Base'
    <3>1. pending' \in Seq(TreeRefresh)
      BY <1>3
    <3> QED BY <1>1, <1>3, <1>9, <2>1, <3>1 DEF Base, TypeOK, Whole
  <2>3. Idle' \/ Ended'
    <3>1. CASE ~f.running /\ queue = << >>
      <4>1. Idle'
        BY <1>3, <1>9, <2>1, <3>1 DEF Idle, Quiet, Fresh
      <4> QED BY <4>1
    <3>2. CASE f.running /\ queue = <<END("none")>>
      <4>1. Ended'
        BY <1>3, <1>9, <2>1, <3>2 DEF Ended, Quiet, Fresh, FlagSet
      <4> QED BY <4>1
    <3> QED BY <1>9, <3>1, <3>2
  <2> QED BY <2>1, <2>2, <2>3 DEF IInv, Phase
<1>10. CASE Refreshing
  <2>1. /\ queue = << >> /\ frame.running
        /\ frame.skip => ~frame.dontUpdate /\ Fresh(frame)
        /\ ~frame.lost => frame.path = e.path
        /\ \/ e.then = "return" /\ ~e.was /\ e.name = None
           \/ e.then = "select" /\ ~e.was
           \/ e.then = "end" /\ e.name = None /\ ~frame.skip
    BY <1>2, <1>10 DEF Refreshing
  <2>2. Quiet(f1, o1) /\ Fresh(f1) /\ f1.ctx # None
    BY <1>5, <1>8, <2>1 DEF Quiet, Fresh
  <2>3. CASE e.then = "return" /\ ~e.was /\ e.name = None
    <3>1. f = f1 /\ o2 = o1
      BY <1>7, <2>3
    <3>2. ~f1.running
      BY <1>8, <2>3
    <3> HIDE DEF f
    <3> QED BY <1>3, <1>8, <1>9, <2>1, <2>2, <2>3, <3>1, <3>2 DEF f
  <2>4. CASE e.then = "select" /\ ~e.was
    <3>1. f = SelChanged(f1, o1, o2)
      BY <2>4
    <3>2. ~f1.running
      BY <1>8, <2>4
    <3>3. /\ f \in FrameData /\ ~f.running /\ Quiet(f, o2) /\ Fresh(f)
          /\ f.ctx # None
      BY <1>7, <1>8, <2>2, <3>1, <3>2, SelChangedSettles
    <3> QED BY <1>3, <1>9, <2>1, <2>4, <3>3
  <2>5. CASE e.then = "end" /\ e.name = None /\ ~frame.skip
    <3>1. f = [f1 EXCEPT !.running = FALSE] /\ o2 = o1
      BY <1>7, <2>5
    <3> HIDE DEF f
    <3>2. /\ f \in FrameData /\ ~f.running
          /\ f.ctx = f1.ctx /\ f.path = f1.path /\ f.lost = f1.lost
          /\ f.dontUpdate = f1.dontUpdate /\ f.skip = f1.skip
          /\ f.stale = f1.stale /\ f.later = f1.later
      BY <1>8, <3>1 DEF FrameData
    <3>3. Quiet(f, o2) /\ Fresh(f) /\ f.ctx # None
      BY <2>2, <3>1, <3>2 DEF Quiet, Fresh
    <3> QED BY <1>3, <1>9, <2>1, <2>5, <3>2, <3>3 DEF f
  <2> QED BY <2>1, <2>3, <2>4, <2>5
<1>11. CASE Adding
  <2> DEFINE g == SelChanged(f1, o1, o2)
             h == UpdateCurrentPath(g, o2)
  <2>1. /\ e.then = "show" /\ e.was /\ ~frame.skip
        /\ \/ frame.running /\ queue = <<END("none")>>
           \/ ~frame.running /\ queue = << >>
    BY <1>2, <1>11 DEF Adding
  <2>2. f = RefreshFileList(h)
    BY <2>1 DEF ShowBookmark
  <2>3. /\ g \in FrameData
        /\ g.running = f1.running /\ g.dontUpdate = f1.dontUpdate
        /\ g.skip = f1.skip
    BY <1>7, <1>8, SelChangedFacts
  <2> HIDE DEF g
  <2>4. /\ h \in FrameData
        /\ h.path = o2.sel /\ h.ctx # None /\ ~h.lost
        /\ h.running = g.running /\ h.dontUpdate = g.dontUpdate
        /\ h.skip = g.skip
    BY <1>7, <2>3, UpdateCurrentPathFacts
  <2> HIDE DEF h
  <2> HIDE DEF f
  <2>5. /\ f \in FrameData
        /\ ~h.dontUpdate => ~f.stale
        /\ f.path = h.path /\ f.ctx = h.ctx /\ f.lost = h.lost
        /\ f.running = h.running /\ f.dontUpdate = h.dontUpdate
        /\ f.skip = h.skip
    BY <2>2, <2>4, RefreshFileListFacts
  <2>6. /\ f.ctx # None /\ Quiet(f, o2) /\ ~f.stale /\ Fresh(f)
        /\ f.path = o2.sel
        /\ \/ f.running /\ queue = <<END("none")>>
           \/ ~f.running /\ queue = << >>
    BY <1>8, <2>1, <2>3, <2>4, <2>5 DEF Quiet, Fresh
  <2>7. IInv' /\ fb'.sel = o2.sel /\ frame' = f
    BY <1>9, <2>1, <2>5, <2>6 DEF f
  <2> QED BY <1>3, <1>7, <2>6, <2>7
<1> QED BY <1>1, <1>10, <1>11

-----------------------------------------------------------------------------
(* The theorems                                                            *)

LEMMA InitEstablishes == Init => IInv
<1> SUFFICES ASSUME Init PROVE IInv
  OBVIOUS
<1>1. PICK S \in SUBSET Bookmarks, flat \in BOOLEAN, perBookmark \in BOOLEAN :
         fb = SetAuthPerBookmark(
                [bm |-> [b \in S |-> [ctx |-> None, flat |-> flat]],
                 single |-> None, nodes |-> S, open |-> {Root}, sel |-> Root,
                 freed |-> {}], perBookmark, {None})
  BY DEF Init
<1> DEFINE m == [b \in S |-> [ctx |-> None, flat |-> flat]]
           o == [bm |-> m, single |-> None, nodes |-> S, open |-> {Root},
                 sel |-> Root, freed |-> {}]
           R == IF perBookmark THEN DOMAIN o.bm ELSE {None}
<1>2. fb = SetAuthPerBookmark(o, perBookmark, {None})
  BY <1>1
<1>3. /\ m \in [S -> Bookmark] /\ DOMAIN m = S
      /\ \A b \in S : m[b].ctx = None
  BY DEF Bookmark
<1> HIDE DEF m
<1>4. /\ o \in Data
      /\ o.bm = m /\ o.single = None /\ o.nodes = S /\ o.open = {Root}
      /\ o.sel = Root /\ o.freed = {}
  <2>1. m \in UNION {[T -> Bookmark] : T \in SUBSET Bookmarks}
    BY <1>3
  <2>2. S \in SUBSET (Nodes \ {Root}) /\ Root \in Nodes
    BY TreeAssumption DEF Nodes
  <2> QED BY <2>1, <2>2 DEF Data
<1> HIDE DEF o
<1>5. Known(o)
  <2>1. \A b \in S : BookmarkOf(b) = b
    BY BookmarkOfFacts DEF Nodes
  <2>2. BookmarkOf(Root) = None
    BY BookmarkOfFacts DEF Nodes
  <2> QED BY <1>3, <1>4, <2>1, <2>2 DEF Known
<1>6. Cardinality(Contexts \cap {None}) + Cardinality(R) <= Cardinality(Contexts)
  <2>1. Contexts \cap {None} = {}
    BY ContextAssumption
  <2>2. Cardinality({}) = 0 /\ Cardinality({None}) = 1
    BY FS_EmptySet, FS_Singleton
  <2>3. Cardinality(S) \in Nat /\ Cardinality(S) <= Cardinality(Bookmarks)
    BY FS_Subset, FS_CardinalityType, HeapAssumption
  <2>4. Cardinality(Bookmarks) \in Nat /\ Cardinality(Contexts) \in Nat
    BY FS_CardinalityType, HeapAssumption
  <2>5. Cardinality(R) = Cardinality(S) \/ Cardinality(R) = 1
    BY <1>3, <1>4, <2>2
  <2>6. /\ Cardinality(Contexts) > 2 * Cardinality(Bookmarks)
        /\ Cardinality(Contexts) > 2
    BY HeapAssumption
  <2>7. Cardinality(Contexts \cap {None}) = 0
    BY <2>1, <2>2
  <2> DEFINE k == Cardinality(R)
  <2>8. k \in Nat /\ k <= Cardinality(Contexts)
    BY <2>3, <2>4, <2>5, <2>6
  <2> HIDE DEF k
  <2>9. 0 + k <= Cardinality(Contexts)
    BY <2>4, <2>8
  <2> QED BY <2>7, <2>9 DEF k
<1>7. /\ Whole(fb) /\ fb.sel = Root /\ (Switching \/ fb.freed = {})
  <2>1. /\ Whole(fb) /\ SameTree(fb, o)
        /\ fb.freed \subseteq o.freed \cup
             ((IF perBookmark THEN {o.single}
               ELSE {o.bm[b].ctx : b \in DOMAIN o.bm}) \ {None})
    BY <1>2, <1>4, <1>5, <1>6, SetAuthFacts
  <2> QED BY <1>3, <1>4, <2>1 DEF SameTree
<1>8. /\ NewFrame \in FrameData /\ ~NewFrame.running /\ ~NewFrame.dontUpdate
      /\ NewFrame.path = Root /\ ~NewFrame.skip /\ ~NewFrame.stale
  BY DEF NewFrame, FrameData, Nodes
<1>9. /\ frame \in FrameData
      /\ frame.path = fb.sel /\ frame.ctx # None
      /\ frame.stale = (NewFrame.stale \/ fb.sel # NewFrame.path)
      /\ frame.running = NewFrame.running
      /\ frame.dontUpdate = NewFrame.dontUpdate /\ frame.skip = NewFrame.skip
  <2>1. frame = UpdateCurrentPath(NewFrame, fb)
    BY DEF Init
  <2> QED BY <1>7, <1>8, <2>1, UpdateCurrentPathFacts
<1>10. /\ present = Folders /\ job = None /\ queue = << >> /\ pending = << >>
  BY DEF Init
<1>11. Base
  BY <1>7, <1>9, <1>10 DEF Base, TypeOK, Whole
<1>12. Idle
  BY <1>7, <1>8, <1>9, <1>10 DEF Idle, Quiet, Fresh
<1> QED BY <1>11, <1>12 DEF IInv, Phase

LEMMA NextKeeps ==
    ASSUME ~WhileRunning, IInv, [Next]_vars
    PROVE  IInv'
<1>1. CASE UserNext
  <2>1. ASSUME NEW n \in Nodes,
               SelectNode(n) \/ OnExpandItem(n) \/ OnCollapseItem(n)
        PROVE  IInv'
    BY <2>1, SelectNodeStep, OnExpandItemStep, OnCollapseItemStep
  <2>2. ASSUME NEW d \in Folders, InvokeDefaultAction(d)
        PROVE  IInv'
    BY <2>2, InvokeDefaultActionStep
  <2>3. ASSUME NEW flags \in FlagSet, Perform(flags, None)
        PROVE  IInv'
    BY <2>3, PerformStep
  <2>4. ASSUME NEW b \in Bookmarks,
               Perform("none", b) \/ AddWcBookmark(b) \/ EditBookmark(b)
        PROVE  IInv'
    BY <2>4, PerformStep, AddWcBookmarkStep, EditBookmarkStep DEF FlagSet
  <2>5. CASE OnRefresh \/ OnFlatView \/ OnRemoveBookmark \/ ShowPreferences
    BY <2>5, OnRefreshStep, OnFlatViewStep, OnRemoveBookmarkStep,
       ShowPreferencesStep
  <2>6. ASSUME NEW p \in Folders \cup Bookmarks, NEW isFile \in BOOLEAN,
               OnLogListBrowse(p, isFile)
        PROVE  IInv'
    BY <2>6, OnLogListBrowseStep
  <2>7. CASE OnActivate \/ Restart
    BY <2>7, OnActivateStep, RestartStep
  <2> QED BY <1>1, <2>1, <2>2, <2>3, <2>4, <2>5, <2>6, <2>7 DEF UserNext
<1>2. CASE WorkerEnds
  BY <1>2, WorkerEndsStep
<1>3. CASE DispatchAddBookmark
  BY <1>3, DispatchAddBookmarkStep
<1>4. CASE DispatchEnd
  BY <1>4, DispatchEndStep
<1>5. CASE FinishRefresh
  BY <1>5, FinishRefreshFacts
<1>6. CASE UNCHANGED vars
  BY <1>6 DEF vars, IInv, Base, TypeOK, Phase, Idle, Working, Ended, Adding,
              Refreshing
<1> QED BY <1>1, <1>2, <1>3, <1>4, <1>5, <1>6 DEF Next

LEMMA Invariant ==
    ASSUME ~WhileRunning
    PROVE  Spec => []IInv
<1>1. Init => IInv
  BY InitEstablishes
<1>2. IInv /\ [Next]_vars => IInv'
  BY NextKeeps
<1> QED BY <1>1, <1>2, PTL DEF Spec

\* Every variable stays in its type.  (Where tree and menus lie still while
\* an action runs.)
THEOREM TypeCorrect ==
    ASSUME ~WhileRunning
    PROVE  Spec => []TypeOK
<1>1. IInv => TypeOK
  BY DEF IInv, Base
<1> QED BY <1>1, Invariant, PTL

\* The frame, and the action it has started, never use a context that has
\* been deleted, although removing and editing bookmarks delete contexts: the
\* selection has left the bookmark before, and the frame's context with it.
THEOREM ContextsExist ==
    ASSUME ~WhileRunning, ~Switching
    PROVE  Spec => []NoDanglingContext
<1>1. IInv => NoDanglingContext
  BY DEF IInv, Base, Phase, Idle, Working, Ended, Adding, Refreshing,
         NoDanglingContext, ActionsHaveContext
<1> QED BY <1>1, Invariant, PTL

\* After any history of adding, editing and removing bookmarks, closing the
\* program and starting it again, and of changes between the two, there is
\* either one login or one context for each bookmark, and no two share theirs.
THEOREM LoginsAreSeparate ==
    ASSUME ~WhileRunning
    PROVE  Spec => []OneLoginOrOneEach
<1>1. IInv => OneLoginOrOneEach
  BY DEF IInv, Base, Whole, Logins, OneLoginOrOneEach
<1> QED BY <1>1, Invariant, PTL

\* Commands act on the selected folder, unless the last refresh of the tree
\* did not find it any more.
THEOREM PathIsSelection ==
    ASSUME ~WhileRunning
    PROVE  Spec => []CommandsUseSelection
<1>1. IInv => CommandsUseSelection
  BY DEF IInv, Phase, Idle, Working, Ended, Adding, Refreshing, Quiet,
         Enabled, CommandsUseSelection
<1> QED BY <1>1, Invariant, PTL

\* No update of the file list gets lost between the handlers that suppress
\* updates and those that ask for them.
THEOREM ListStaysFresh ==
    ASSUME ~WhileRunning
    PROVE  Spec => []ListIsFresh
<1>1. IInv => ListIsFresh
  BY DEF IInv, Phase, Idle, Working, Ended, Adding, Refreshing, Fresh,
         Enabled, ListIsFresh
<1> QED BY <1>1, Invariant, PTL

\* Refreshes of the tree never nest.
THEOREM OneRefreshAtATime ==
    ASSUME ~WhileRunning
    PROVE  Spec => []NoNestedTreeRefresh
<1>1. IInv => NoNestedTreeRefresh
  <2> SUFFICES ASSUME IInv PROVE Len(pending) <= 1
    BY DEF NoNestedTreeRefresh
  <2>1. pending = << >> \/ \E e \in TreeRefresh : pending = <<e>>
    BY DEF IInv, Phase, Idle, Working, Ended, Adding, Refreshing
  <2>2. CASE pending = << >>
    BY <2>2
  <2>3. CASE \E e \in TreeRefresh : pending = <<e>>
    BY <2>3
  <2> QED BY <2>1, <2>2, <2>3
<1> QED BY <1>1, Invariant, PTL

\* A checkout that asks for a bookmark ends on this bookmark: it is selected,
\* current and listed, also if the end of the action was dispatched while
\* the tree was waiting for a login.
THEOREM CheckoutEndsOnItsBookmark ==
    ASSUME ~WhileRunning
    PROVE  Spec => AddedBookmarkIsShown
<1>1. IInv /\ [Next]_vars =>
        [FinishRefresh /\ Head(pending).then = "show" /\ Head(pending).name # None
           => LET b == Head(pending).name
              IN  fb'.sel = b /\ frame'.path = b /\ ~frame'.stale]_vars
  BY FinishRefreshFacts
<1> QED BY <1>1, Invariant, PTL DEF Spec, AddedBookmarkIsShown
=============================================================================
