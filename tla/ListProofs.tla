------------------------------ MODULE ListProofs ------------------------------
(***************************************************************************)
(* What the file list shows of its columns, for any number of columns, and *)
(* whatever the user shows, hides, resets and sorts by, in any session;    *)
(* and its rows and selection, for any items and whatever becomes of them. *)
(***************************************************************************)
EXTENDS FileColumns, FileList, NumberFacts, SequenceTheorems, FiniteSetTheorems, TLAPS

ColSpec == ColInit /\ [][ColNext]_colVars

-----------------------------------------------------------------------------
(* The columns of the control                                              *)

\* One turn of the loop of UpdateColumns.
Turn(visible, g, n) ==
    IF n = 0 THEN << >>
    ELSE IF n - 1 \in visible THEN Append(g[n - 1], n - 1)
    ELSE g[n - 1]

\* The loop is well defined.
LEMMA LoopExists ==
    ASSUME NEW visible, NEW n \in Nat
    PROVE  \E g : g = [i \in 0 .. n |-> Turn(visible, g, i)]
<1> DEFINE T == {m \in 0 .. n : \E g : g = [i \in 0 .. m |-> Turn(visible, g, i)]}
<1>1. 0 \in T
  <2> DEFINE g == [i \in 0 .. 0 |-> << >>]
  <2>1. g = [i \in 0 .. 0 |-> Turn(visible, g, i)]
    BY DEF Turn
  <2> QED
    BY <2>1
<1>2. ASSUME NEW m \in 0 .. n - 1, m \in T PROVE m + 1 \in T
  <2>1. PICK g : g = [i \in 0 .. m |-> Turn(visible, g, i)]
    BY <1>2
  <2> DEFINE h == [i \in 0 .. m + 1 |-> IF i = m + 1 THEN Turn(visible, g, i) ELSE g[i]]
  <2>2. m \in Nat
    OBVIOUS
  <2>3. h[m + 1] = Turn(visible, g, m + 1)
    BY <2>2
  <2>4. \A i \in 0 .. m : h[i] = g[i]
    BY <2>2
  <2>5. h = [i \in 0 .. m + 1 |-> h[i]]
    OBVIOUS
  <2> HIDE DEF h
  <2>6. \A i \in 0 .. m : h[i] = g[i] /\ g[i] = Turn(visible, g, i)
    BY <2>1, <2>4
  <2>7. ASSUME NEW i \in 0 .. m + 1 PROVE h[i] = Turn(visible, h, i)
    <3>1. CASE i = 0
      BY <2>2, <2>6, <3>1 DEF Turn
    <3>2. CASE i # 0
      <4>1. i - 1 \in 0 .. m /\ h[i - 1] = g[i - 1]
        BY <2>2, <2>6, <3>2
      <4>2. Turn(visible, h, i) = Turn(visible, g, i)
        BY <4>1, <3>2 DEF Turn
      <4>3. i \in 0 .. m \/ i = m + 1
        BY <2>2
      <4>4. h[i] = Turn(visible, g, i)
        BY <2>3, <2>6, <4>3
      <4> QED
        BY <4>2, <4>4
    <3> QED
      BY <3>1, <3>2
  <2>8. h = [i \in 0 .. m + 1 |-> Turn(visible, h, i)]
    BY <2>5, <2>7
  <2> QED
    BY <2>2, <2>8
<1> HIDE DEF T
<1>3. T = 0 .. n
  <2>1. T \in SUBSET (0 .. n)
    BY DEF T
  <2> QED
    BY <1>1, <1>2, <2>1, Induction
<1> QED
  BY <1>3 DEF T

\* What the loop returns, turn by turn.
LEMMA Loop ==
    ASSUME NEW cs
    PROVE  \E g : /\ HeaderOf(cs) = g[COL_COUNT]
                  /\ \A i \in 0 .. COL_COUNT : g[i] = Turn(cs.visible, g, i)
<1> DEFINE g == CHOOSE g : g = [i \in 0 .. COL_COUNT |-> Turn(cs.visible, g, i)]
<1>1. HeaderOf(cs) = g[COL_COUNT]
  BY DEF HeaderOf, Turn
<1>2. g = [i \in 0 .. COL_COUNT |-> Turn(cs.visible, g, i)]
  BY LoopExists, ColumnsAssumption
<1> HIDE DEF g
<1>3. \A i \in 0 .. COL_COUNT : g[i] = Turn(cs.visible, g, i)
  BY <1>2
<1> QED
  BY <1>1, <1>3

\* The columns left out before column n.
Hidden(visible, n) == {c \in 0 .. n - 1 : c \notin visible}

\* One more column is hidden or not.
LEMMA HiddenCount ==
    ASSUME NEW visible, NEW n \in Nat
    PROVE  /\ Cardinality(Hidden(visible, 0)) = 0
           /\ Cardinality(Hidden(visible, n)) \in Nat
           /\ n \in visible => Cardinality(Hidden(visible, n + 1)) = Cardinality(Hidden(visible, n))
           /\ n \notin visible => Cardinality(Hidden(visible, n + 1)) = Cardinality(Hidden(visible, n)) + 1
<1>1. IsFiniteSet(Hidden(visible, n))
  <2>1. IsFiniteSet(0 .. n - 1)
    BY FS_Interval
  <2>2. Hidden(visible, n) \subseteq 0 .. n - 1
    BY DEF Hidden
  <2> QED
    BY <2>1, <2>2, FS_Subset
<1>2. Hidden(visible, 0) = {}
  BY DEF Hidden
<1>3. ASSUME n \in visible PROVE Hidden(visible, n + 1) = Hidden(visible, n)
  BY <1>3 DEF Hidden
<1>4. ASSUME n \notin visible PROVE Hidden(visible, n + 1) = Hidden(visible, n) \cup {n}
  BY <1>4 DEF Hidden
<1>5. n \notin Hidden(visible, n)
  BY DEF Hidden
<1> QED
  BY <1>1, <1>2, <1>3, <1>4, <1>5, FS_EmptySet, FS_AddElement, FS_CardinalityType

\* The column at place k of the control: the k-th that is visible, with as many
\* visible ones before it as there are places.
LEMMA HeaderFacts ==
    ASSUME NEW cs
    PROVE  LET v == cs.visible
               h == HeaderOf(cs)
           IN  /\ h \in Seq(AllColumns)
               /\ \A k \in 1 .. Len(h) :
                     /\ h[k] \in AllColumns /\ h[k] \in v
                     /\ h[k] = (k - 1) + Cardinality(Hidden(v, h[k]))
               /\ \A c \in AllColumns : c \in v => \E k \in 1 .. Len(h) : h[k] = c
<1> DEFINE v == cs.visible
           size(n) == Cardinality(Hidden(v, n))
<1>1. PICK g : /\ HeaderOf(cs) = g[COL_COUNT]
               /\ \A i \in 0 .. COL_COUNT : g[i] = Turn(v, g, i)
  BY Loop
<1>2. COL_COUNT \in Nat
  BY ColumnsAssumption
<1> DEFINE Good(n) == /\ g[n] \in Seq(AllColumns)
                      /\ Len(g[n]) + size(n) = n
                      /\ \A k \in 1 .. Len(g[n]) :
                            /\ g[n][k] \in 0 .. n - 1 /\ g[n][k] \in v
                            /\ g[n][k] = (k - 1) + size(g[n][k])
                      /\ \A c \in 0 .. n - 1 : c \in v => \E k \in 1 .. Len(g[n]) : g[n][k] = c
           T == {n \in 0 .. COL_COUNT : Good(n)}
<1>3. \A n \in Nat : /\ size(0) = 0 /\ size(n) \in Nat
                     /\ n \in v => size(n + 1) = size(n)
                     /\ n \notin v => size(n + 1) = size(n) + 1
  BY HiddenCount
<1> HIDE DEF v, size
<1>4. 0 \in T
  <2>1. 0 \in 0 .. COL_COUNT
    BY <1>2
  <2>2. g[0] = << >>
    BY <1>1, <2>1 DEF Turn
  <2>3. << >> \in Seq(AllColumns) /\ Len(<< >>) = 0
    BY EmptySeq
  <2>4. Good(0)
    BY <1>3, <2>2, <2>3
  <2> QED
    BY <2>1, <2>4
<1>5. ASSUME NEW m \in 0 .. COL_COUNT - 1, m \in T PROVE m + 1 \in T
  <2>1. m \in Nat /\ m + 1 \in 0 .. COL_COUNT /\ m + 1 # 0 /\ (m + 1) - 1 = m /\ m \in AllColumns
    BY <1>2 DEF AllColumns
  <2>2. g[m + 1] = IF m \in v THEN Append(g[m], m) ELSE g[m]
    BY <1>1, <2>1 DEF Turn
  <2>3. Good(m)
    BY <1>5
  <2> DEFINE s == g[m]
  <2>4. /\ s \in Seq(AllColumns) /\ Len(s) \in Nat
        /\ Len(s) + size(m) = m
        /\ \A k \in 1 .. Len(s) :
              s[k] \in 0 .. m - 1 /\ s[k] \in v /\ s[k] = (k - 1) + size(s[k])
        /\ \A c \in 0 .. m - 1 : c \in v => \E k \in 1 .. Len(s) : s[k] = c
    BY <2>3
  <2>7. g[m + 1] = IF m \in v THEN Append(s, m) ELSE s
    BY <2>2
  <2> HIDE DEF s
  <2>5. CASE m \in v
    <3> DEFINE t == g[m + 1]
    <3>1. /\ t \in Seq(AllColumns) /\ Len(t) = Len(s) + 1
          /\ \A k \in 1 .. Len(s) : t[k] = s[k]
          /\ t[Len(s) + 1] = m
      BY <2>1, <2>7, <2>4, <2>5, AppendProperties
    <3>2. size(m + 1) = size(m) /\ size(m) \in Nat
      BY <1>3, <2>1, <2>5
    <3>3. Len(t) + size(m + 1) = m + 1
      BY <2>1, <2>4, <3>1, <3>2
    <3>4. ASSUME NEW k \in 1 .. Len(t)
          PROVE  t[k] \in 0 .. m /\ t[k] \in v /\ t[k] = (k - 1) + size(t[k])
      <4>1. CASE k = Len(s) + 1
        <5>1. t[k] = m
          BY <3>1, <4>1
        <5>2. m = (k - 1) + size(m)
          BY <2>1, <2>4, <3>2, <4>1
        <5> QED
          BY <2>1, <2>5, <5>1, <5>2
      <4>2. CASE k # Len(s) + 1
        <5>1. k \in 1 .. Len(s) /\ t[k] = s[k]
          BY <2>4, <3>1, <4>2
        <5>2. s[k] \in 0 .. m - 1 /\ s[k] \in v /\ s[k] = (k - 1) + size(s[k])
          BY <2>4, <5>1
        <5> QED
          BY <2>1, <5>1, <5>2
      <4> QED
        BY <4>1, <4>2
    <3>5. ASSUME NEW c \in 0 .. m, c \in v PROVE \E k \in 1 .. Len(t) : t[k] = c
      <4>1. CASE c = m
        BY <2>4, <3>1, <4>1
      <4>2. CASE c # m
        <5>1. PICK k \in 1 .. Len(s) : s[k] = c
          BY <2>1, <2>4, <3>5, <4>2
        <5> HIDE DEF t
        <5>2. k \in 1 .. Len(t)
          BY <2>4, <3>1
        <5>3. t[k] = c
          BY <3>1, <5>1
        <5> QED
          BY <5>2, <5>3
      <4> QED
        BY <4>1, <4>2
    <3>6. Good(m + 1)
      BY <2>1, <2>4, <3>1, <3>3, <3>4, <3>5
    <3> QED
      BY <2>1, <3>6
  <2>6. CASE m \notin v
    <3>1. g[m + 1] = s
      BY <2>7, <2>6
    <3>2. size(m + 1) = size(m) + 1 /\ size(m) \in Nat
      BY <1>3, <2>1, <2>6
    <3>3. \A c \in 0 .. m : c \in v => c \in 0 .. m - 1
      BY <2>1, <2>6
    <3>4. \A c \in 0 .. m - 1 : c \in 0 .. m
      BY <2>1
    <3>5. Len(s) + size(m + 1) = m + 1
      BY <2>1, <2>4, <3>2
    <3>6. Good(m + 1)
      BY <2>1, <2>4, <3>1, <3>3, <3>4, <3>5
    <3> QED
      BY <2>1, <3>6
  <2> QED
    BY <2>5, <2>6
<1>6. T = 0 .. COL_COUNT
  <2>1. T \in SUBSET (0 .. COL_COUNT)
    OBVIOUS
  <2> HIDE DEF T
  <2>2. \A m \in 0 .. COL_COUNT - 1 : m \in T => m + 1 \in T
    BY <1>5
  <2> QED
    BY <1>2, <1>4, <2>1, <2>2, Induction
<1>7. Good(COL_COUNT)
  <2>1. COL_COUNT \in T
    <3> HIDE DEF T
    <3> QED
      BY <1>2, <1>6
  <2> QED
    BY <2>1
<1> QED
  BY <1>1, <1>7 DEF AllColumns, v, size

-----------------------------------------------------------------------------
(* The column that was clicked                                             *)

\* The further on, the more visible columns there are before: n - size(n) of
\* them before n.
LEMMA VisibleBefore ==
    ASSUME NEW v, NEW n \in Nat, NEW i \in 0 .. n
    PROVE  i - Cardinality(Hidden(v, i)) <= n - Cardinality(Hidden(v, n))
<1> DEFINE size(j) == Cardinality(Hidden(v, j))
<1>1. \A j \in Nat : /\ size(j) \in Nat
                     /\ j \in v => size(j + 1) = size(j)
                     /\ j \notin v => size(j + 1) = size(j) + 1
  BY HiddenCount
<1> HIDE DEF size
<1> DEFINE T == {d \in 0 .. n - i : i - size(i) <= (i + d) - size(i + d)}
<1>2. n - i \in Nat /\ i \in Nat
  OBVIOUS
<1>3. 0 \in T
  BY <1>1, <1>2
<1>4. ASSUME NEW d \in 0 .. (n - i) - 1, d \in T PROVE d + 1 \in T
  <2>1. i + d \in Nat /\ d + 1 \in 0 .. n - i /\ i + (d + 1) = (i + d) + 1
    BY <1>2
  <2>2. size(i + d) \in Nat /\ size((i + d) + 1) <= size(i + d) + 1 /\ size((i + d) + 1) \in Nat /\ size(i) \in Nat
    BY <1>1, <1>2, <2>1
  <2>3. i - size(i) <= (i + d) - size(i + d)
    BY <1>4
  <2>4. i - size(i) <= ((i + d) + 1) - size((i + d) + 1)
    BY <1>2, <2>1, <2>2, <2>3
  <2> QED
    BY <2>1, <2>4
<1>5. T = 0 .. n - i
  <2>1. T \in SUBSET (0 .. n - i)
    OBVIOUS
  <2> HIDE DEF T
  <2> QED
    BY <1>2, <1>3, <1>4, <2>1, Induction
<1>6. n - i \in T /\ i + (n - i) = n
  BY <1>2, <1>5
<1> QED
  BY <1>6 DEF size

\* GetRealColumn undoes UpdateColumns: from the place of a column in the
\* control it finds the column, whichever are visible.
LEMMA RealColumn ==
    ASSUME NEW k \in 1 .. Len(HeaderOf(cols))
    PROVE  GetRealColumn(k - 1) = HeaderOf(cols)[k]
<1> DEFINE v == cols.visible
           size(j) == Cardinality(Hidden(v, j))
           c == HeaderOf(cols)[k]
           clicked == k - 1
           stops == {i \in 0 .. COL_COUNT :
                        i = COL_COUNT \/ (i >= clicked + Skipped(i) /\ i \in cols.visible)}
<1>1. \A i : Skipped(i) = size(i)
  BY DEF Skipped, Hidden
<1>2. c \in AllColumns /\ c \in v /\ c = clicked + size(c)
  BY HeaderFacts
<1>3. clicked \in Nat
  <2>1. HeaderOf(cols) \in Seq(AllColumns)
    BY HeaderFacts
  <2>2. Len(HeaderOf(cols)) \in Nat
    BY <2>1
  <2> QED
    BY <2>2
<1>4. COL_COUNT \in Nat /\ c \in Nat /\ c < COL_COUNT
  BY <1>2, ColumnsAssumption DEF AllColumns
<1>5. \A j \in Nat : /\ size(j) \in Nat
                     /\ j \in v => size(j + 1) = size(j)
  BY HiddenCount
<1>6. \A i \in 0 .. c : i - size(i) <= c - size(c)
  BY <1>4, VisibleBefore
<1>7. GetRealColumn(clicked) = clicked + Skipped(Min(stops))
  BY DEF GetRealColumn
<1> HIDE DEF v, size, c, clicked
<1>8. c \in stops
  BY <1>1, <1>2, <1>3, <1>4, <1>5 DEF v
<1>9. ASSUME NEW i \in stops, ~(c <= i) PROVE FALSE
  <2>1. i \in Nat /\ i < c /\ i # COL_COUNT
    BY <1>4, <1>9
  <2>2. i \in v /\ i >= clicked + size(i)
    BY <1>1, <2>1 DEF v
  <2>3. size(i + 1) = size(i) /\ size(i) \in Nat /\ size(c) \in Nat
    BY <1>4, <1>5, <2>1, <2>2
  <2>4. (i + 1) - size(i + 1) <= c - size(c)
    <3>1. i + 1 \in 0 .. c
      BY <1>4, <2>1
    <3> QED
      BY <1>6, <3>1
  <2>5. c - size(c) = clicked
    BY <1>2, <1>3, <1>4, <2>3
  <2> QED
    BY <1>3, <2>1, <2>2, <2>3, <2>4, <2>5
<1>10. Min(stops) = c
  <2>1. stops \in SUBSET Nat
    BY <1>4
  <2>2. \A i \in stops : c <= i
    BY <1>9
  <2> HIDE DEF stops
  <2> QED
    BY <1>8, <2>1, <2>2, MinIs
<1> HIDE DEF stops
<1>11. GetRealColumn(clicked) = c
  BY <1>1, <1>2, <1>7, <1>10
<1> QED
  BY <1>11 DEF c, clicked

-----------------------------------------------------------------------------
(* The handlers                                                            *)

\* The types of FileListCtrl::Data's part and of what is saved of it.
Settings == [visible : SUBSET AllColumns, sort : AllColumns, ascending : BOOLEAN, flat : BOOLEAN]
Config == [visible : SUBSET AllColumns, sort : AllColumns, ascending : BOOLEAN]

\* What is shown and sorted by: the name always is visible, and the sort column
\* is, unless it is the path.
Sound(cs) ==
    /\ cs.visible \subseteq AllColumns /\ COL_NAME \in cs.visible
    /\ cs.sort \in cs.visible \cup {COL_PATH}

ColType ==
    /\ cols \in Settings /\ saved \in Config
    /\ unsynced \in BOOLEAN

\* The control shows what the list says, and so does what was saved.
ColInv ==
    /\ ColType
    /\ Sound(cols) /\ Sound(saved)
    /\ header = HeaderOf(cols)

LEMMA NameAndPath == COL_NAME \in AllColumns /\ COL_PATH \in AllColumns /\ COL_NAME # COL_PATH
  BY ColumnsAssumption DEF AllColumns, COL_NAME, COL_PATH

\* The columns of the control depend on nothing but what is visible.
LEMMA SameHeader ==
    ASSUME NEW a, NEW b, a.visible = b.visible
    PROVE  HeaderOf(a) = HeaderOf(b)
  BY DEF HeaderOf

\* SetColumnVisible keeps the name visible and the sort column with it.
LEMMA SetColumnVisibleFacts ==
    ASSUME NEW cs \in Settings,
           Sound(cs), NEW col \in AllColumns, NEW visible \in BOOLEAN
    PROVE  /\ SetColumnVisible(cs, col, visible) \in Settings
           /\ Sound(SetColumnVisible(cs, col, visible))
           /\ visible => /\ SetColumnVisible(cs, col, visible).sort = cs.sort
                         /\ SetColumnVisible(cs, col, visible).ascending = cs.ascending
<1> DEFINE new == SetColumnVisible(cs, col, visible)
<1>1. CASE col = COL_NAME
  BY <1>1 DEF SetColumnVisible
<1>2. CASE col # COL_NAME /\ visible
  <2> DEFINE shown == cs.visible \cup {col}
  <2>1. new = [cs EXCEPT !.visible = shown, !.sort = cs.sort, !.ascending = cs.ascending]
    BY <1>2 DEF SetColumnVisible, Settings
  <2>2. shown \in SUBSET AllColumns /\ COL_NAME \in shown /\ cs.sort \in shown \cup {COL_PATH}
    BY DEF Sound, Settings
  <2> HIDE DEF shown, new
  <2>3. /\ new \in Settings
        /\ new.visible = shown /\ new.sort = cs.sort /\ new.ascending = cs.ascending
    BY <2>1, <2>2 DEF Settings
  <2> QED
    BY <2>2, <2>3 DEF Sound, new
<1>3. CASE col # COL_NAME /\ ~visible /\ col = cs.sort
  <2> DEFINE shown == cs.visible \ {col}
  <2>1. new = [cs EXCEPT !.visible = shown, !.sort = COL_NAME, !.ascending = TRUE]
    BY <1>3 DEF SetColumnVisible, Settings
  <2>2. shown \in SUBSET AllColumns /\ COL_NAME \in shown
    BY <1>3 DEF Sound, Settings
  <2> HIDE DEF shown, new
  <2>3. /\ new \in Settings
        /\ new.visible = shown /\ new.sort = COL_NAME
    BY <2>1, <2>2, NameAndPath DEF Settings
  <2> QED
    BY <1>3, <2>2, <2>3 DEF Sound, new
<1>4. CASE col # COL_NAME /\ ~visible /\ col # cs.sort
  <2> DEFINE shown == cs.visible \ {col}
  <2>1. new = [cs EXCEPT !.visible = shown, !.sort = cs.sort, !.ascending = cs.ascending]
    BY <1>4 DEF SetColumnVisible, Settings
  <2>2. shown \in SUBSET AllColumns /\ COL_NAME \in shown /\ cs.sort \in shown \cup {COL_PATH}
    BY <1>4 DEF Sound, Settings
  <2> HIDE DEF shown, new
  <2>3. /\ new \in Settings
        /\ new.visible = shown /\ new.sort = cs.sort
    BY <2>1, <2>2 DEF Settings
  <2> QED
    BY <1>4, <2>2, <2>3 DEF Sound, new
<1> QED
  BY <1>1, <1>2, <1>3, <1>4

\* A configuration is read with the path hidden.
LEMMA FromConfigFacts ==
    ASSUME NEW cfg \in Config, Sound(cfg)
    PROVE  FromConfig(cfg) \in Settings /\ Sound(FromConfig(cfg))
  BY NameAndPath DEF FromConfig, Config, Settings, Sound

LEMMA SetFlatFacts ==
    ASSUME NEW cs \in Settings, Sound(cs), NEW flat \in BOOLEAN
    PROVE  /\ SetFlat(cs, flat) \in Settings /\ Sound(SetFlat(cs, flat))
           /\ flat => /\ SetFlat(cs, flat).sort = cs.sort
                      /\ SetFlat(cs, flat).ascending = cs.ascending
<1> DEFINE f == [cs EXCEPT !.flat = flat]
<1>1. f \in Settings /\ f.visible = cs.visible /\ f.sort = cs.sort /\ f.ascending = cs.ascending
  BY DEF Settings
<1>2. SetFlat(cs, flat) = SetColumnVisible(f, COL_PATH, flat)
  BY DEF SetFlat
<1>3. Sound(f)
  BY <1>1 DEF Sound
<1> HIDE DEF f
<1>4. /\ SetColumnVisible(f, COL_PATH, flat) \in Settings
      /\ Sound(SetColumnVisible(f, COL_PATH, flat))
      /\ flat => /\ SetColumnVisible(f, COL_PATH, flat).sort = f.sort
                 /\ SetColumnVisible(f, COL_PATH, flat).ascending = f.ascending
  BY <1>1, <1>3, NameAndPath, SetColumnVisibleFacts DEF Settings
<1> QED
  BY <1>1, <1>2, <1>4

LEMMA ColInvInit == ColInit => ColInv
<1> SUFFICES ASSUME ColInit PROVE ColInv
  OBVIOUS
<1>1. /\ saved = [visible |-> AllColumns, sort |-> COL_NAME, ascending |-> TRUE]
      /\ cols = FromConfig(saved) /\ header = HeaderOf(cols) /\ unsynced = FALSE
  BY DEF ColInit
<1>2. saved \in Config /\ Sound(saved)
  BY <1>1, NameAndPath DEF Config, Sound
<1>3. cols \in Settings /\ Sound(cols)
  BY <1>1, <1>2, FromConfigFacts
<1> QED
  BY <1>1, <1>2, <1>3 DEF ColInv, ColType, Settings, Config

\* What a handler makes of the columns is sound, and what the control shows is
\* brought up to date or still is.
LEMMA ColsStep ==
    ASSUME ColInv, ColNext
    PROVE  /\ cols' \in Settings /\ Sound(cols')
           /\ (cols'.visible = cols.visible /\ header' = header) \/ header' = HeaderOf(cols')
<1> DEFINE Goal == /\ cols' \in Settings /\ Sound(cols')
                   /\ (cols'.visible = cols.visible /\ header' = header) \/ header' = HeaderOf(cols')
<1>0. cols \in Settings /\ Sound(cols) /\ saved \in Config /\ Sound(saved) /\ header = HeaderOf(cols)
  BY DEF ColInv, ColType, Settings, Config
<1>1. ASSUME NEW flat \in BOOLEAN, ShowFlat(flat) PROVE Goal
  BY <1>0, <1>1, SetFlatFacts DEF ShowFlat, Rebuild
<1>2. ASSUME NEW col \in AllColumns, OnColumn(col) PROVE Goal
  <2> DEFINE shows == col \notin cols.visible
  <2>1. cols' = SetColumnVisible(cols, col, shows) /\ shows \in BOOLEAN /\ header' = HeaderOf(cols')
    BY <1>2 DEF OnColumn, Rebuild
  <2> HIDE DEF shows
  <2>2. SetColumnVisible(cols, col, shows) \in Settings /\ Sound(SetColumnVisible(cols, col, shows))
    BY <1>0, <2>1, SetColumnVisibleFacts DEF Settings
  <2> QED
    BY <2>1, <2>2
<1>3. ASSUME NEW column \in AllColumns, NEW asc \in BOOLEAN, column \in cols.visible \cup {COL_PATH},
             cols' = [cols EXCEPT !.sort = column, !.ascending = asc], header' = header
      PROVE  Goal
  <2>1. /\ cols' \in Settings /\ cols'.visible = cols.visible /\ cols'.sort = column
    BY <1>0, <1>3 DEF Settings
  <2> QED
    BY <1>0, <1>3, <2>1 DEF Sound
<1>4. ASSUME NEW i \in AllColumns, OnColumnLeftClick(i) PROVE Goal
  <2> DEFINE col == GetRealColumn(i)
             asc == IF col = cols.sort THEN ~cols.ascending ELSE TRUE
  <2>1. i < Len(header) /\ header' = header
    BY <1>4 DEF OnColumnLeftClick
  <2>2. cols' = [cols EXCEPT !.sort = col, !.ascending = asc]
    BY <1>4 DEF OnColumnLeftClick
  <2>3. asc \in BOOLEAN
    BY <1>0 DEF Settings
  <2>4. col \in AllColumns /\ col \in cols.visible
    <3>1. HeaderOf(cols) \in Seq(AllColumns) /\ i \in Nat /\ i + 1 \in 1 .. Len(HeaderOf(cols)) /\ (i + 1) - 1 = i
      <4>1. HeaderOf(cols) \in Seq(AllColumns)
        BY HeaderFacts
      <4>2. Len(HeaderOf(cols)) \in Nat /\ i \in Nat
        BY <4>1, ColumnsAssumption DEF AllColumns
      <4> QED
        BY <1>0, <2>1, <4>1, <4>2
    <3>2. col = HeaderOf(cols)[i + 1]
      <4> DEFINE k == i + 1
      <4>1. k \in 1 .. Len(HeaderOf(cols)) /\ k - 1 = i
        BY <3>1
      <4> HIDE DEF k
      <4>2. GetRealColumn(k - 1) = HeaderOf(cols)[k]
        BY <4>1, RealColumn
      <4> QED
        BY <4>1, <4>2 DEF k
    <3>3. HeaderOf(cols)[i + 1] \in AllColumns /\ HeaderOf(cols)[i + 1] \in cols.visible
      BY <3>1, HeaderFacts
    <3> QED
      BY <3>2, <3>3
  <2> HIDE DEF col, asc
  <2> QED
    BY <1>3, <2>1, <2>2, <2>3, <2>4
<1>5. ASSUME NEW col \in AllColumns, OnColumnSorting(col) PROVE Goal
  BY <1>3, <1>5 DEF OnColumnSorting
<1>6. CASE OnColumnReset
  <2> DEFINE shown == {c \in AllColumns : IF c = COL_PATH THEN cols.flat ELSE c \notin HiddenByReset}
             column == IF cols.sort \notin shown THEN COL_NAME ELSE cols.sort
             asc == cols.ascending \/ cols.sort \notin shown
  <2>1. /\ cols' = [cols EXCEPT !.visible = shown, !.sort = column, !.ascending = asc]
        /\ header' = HeaderOf(cols')
    BY <1>6 DEF OnColumnReset, Rebuild
  <2>2. COL_NAME \in shown /\ shown \in SUBSET AllColumns
    BY NameAndPath, ColumnsAssumption
  <2>3. column \in shown /\ asc \in BOOLEAN
    BY <2>2
  <2> HIDE DEF shown, column, asc
  <2>4. cols' \in Settings /\ cols'.visible = shown /\ cols'.sort = column
    BY <1>0, <2>1, <2>2, <2>3 DEF Settings
  <2> QED
    BY <2>1, <2>2, <2>3, <2>4 DEF Sound
<1>7. CASE OnSortAscending
  <2> DEFINE asc == ~cols.ascending
  <2>1. cols' = [cols EXCEPT !.ascending = asc] /\ asc \in BOOLEAN /\ header' = header
    BY <1>7 DEF OnSortAscending
  <2> HIDE DEF asc
  <2>2. cols' \in Settings /\ cols'.visible = cols.visible /\ cols'.sort = cols.sort
    BY <1>0, <2>1 DEF Settings
  <2> QED
    BY <1>0, <2>1, <2>2 DEF Sound
<1>8. CASE UpdateMenu
  BY <1>0, <1>8 DEF UpdateMenu
<1>9. CASE Quit
  <2> DEFINE cfg == [visible |-> cols.visible, sort |-> cols.sort, ascending |-> cols.ascending]
  <2>1. cfg \in Config /\ Sound(cfg)
    BY <1>0 DEF Settings, Config, Sound
  <2>2. cols' = FromConfig(cfg) /\ header' = HeaderOf(cols')
    BY <1>9 DEF Quit, Start, Rebuild
  <2> HIDE DEF cfg
  <2> QED
    BY <2>1, <2>2, FromConfigFacts
<1>10. CASE Die
  BY <1>0, <1>10, FromConfigFacts DEF Die, Start, Rebuild
<1> QED
  BY <1>1, <1>2, <1>4, <1>5, <1>6, <1>7, <1>8, <1>9, <1>10 DEF ColNext

\* What is saved is what was sound when the program ended.
LEMMA SavedStep ==
    ASSUME ColInv, ColNext
    PROVE  saved' \in Config /\ Sound(saved') /\ unsynced' \in BOOLEAN
<1>0. cols \in Settings /\ Sound(cols) /\ saved \in Config /\ Sound(saved) /\ unsynced \in BOOLEAN
  BY DEF ColInv, ColType, Settings, Config
<1>1. CASE Quit
  <2>1. saved' = [visible |-> cols.visible, sort |-> cols.sort, ascending |-> cols.ascending]
    BY <1>1 DEF Quit
  <2>2. unsynced' = FALSE
    BY <1>1 DEF Quit, Start, SyncMenu
  <2> QED
    BY <1>0, <2>1, <2>2 DEF Settings, Config, Sound
<1>2. CASE ~Quit
  <2>1. saved' = saved
    BY <1>2 DEF ColNext, ShowFlat, OnColumn, OnColumnLeftClick, OnColumnSorting, OnColumnReset,
                OnSortAscending, UpdateMenu, Die
  <2>2. unsynced' = FALSE \/ unsynced' = unsynced
          \/ unsynced' = (unsynced \/ <<cols'.sort, cols'.ascending>> # <<cols.sort, cols.ascending>>)
    BY <1>2 DEF ColNext, ShowFlat, OnColumn, OnColumnLeftClick, OnColumnSorting, OnColumnReset,
                OnSortAscending, UpdateMenu, Die, Start, SyncMenu
  <2> QED
    BY <1>0, <2>1, <2>2
<1> QED
  BY <1>1, <1>2

LEMMA ColInvStep == ColInv /\ [ColNext]_colVars => ColInv'
<1> SUFFICES ASSUME ColInv, [ColNext]_colVars PROVE ColInv'
  OBVIOUS
<1>1. CASE ColNext
  <2>1. /\ cols' \in Settings /\ Sound(cols')
        /\ (cols'.visible = cols.visible /\ header' = header) \/ header' = HeaderOf(cols')
    BY <1>1, ColsStep
  <2>2. saved' \in Config /\ Sound(saved') /\ unsynced' \in BOOLEAN
    BY <1>1, SavedStep
  <2>3. header' = HeaderOf(cols')
    <3>1. ASSUME cols'.visible = cols.visible PROVE HeaderOf(cols') = HeaderOf(cols)
      BY <3>1, SameHeader
    <3> QED
      BY <2>1, <3>1 DEF ColInv
  <2> QED
    BY <2>1, <2>2, <2>3 DEF ColInv, ColType, Settings, Config
<1>2. CASE UNCHANGED colVars
  BY <1>2 DEF colVars, ColInv, ColType, Sound
<1> QED
  BY <1>1, <1>2

\* GetRealColumn: a click on a header sorts by the column that stands there,
\* for any number of columns and whichever are hidden.
THEOREM ClickSorts == ColSpec => []ClickSortsThatColumn
<1>1. ColInv => ClickSortsThatColumn
  <2> SUFFICES ASSUME ColInv, NEW i \in DOMAIN header PROVE GetRealColumn(i - 1) = header[i]
    BY DEF ClickSortsThatColumn
  <2>1. header = HeaderOf(cols) /\ HeaderOf(cols) \in Seq(AllColumns)
    BY HeaderFacts DEF ColInv
  <2>2. i \in 1 .. Len(HeaderOf(cols))
    BY <2>1
  <2> QED
    BY <2>1, <2>2, RealColumn
<1> QED
  BY <1>1, ColInvInit, ColInvStep, PTL DEF ColSpec

\* OnColumn, ResetColumns, ReadConfig: the list is never sorted by a column
\* that is not shown, other than the path.
THEOREM SortShown == ColSpec => []SortColumnIsShown
<1>1. ColInv => SortColumnIsShown
  <2> SUFFICES ASSUME ColInv, cols.sort # COL_PATH PROVE cols.sort \in Range(header)
    BY DEF SortColumnIsShown
  <2>1. header = HeaderOf(cols) /\ HeaderOf(cols) \in Seq(AllColumns)
    BY HeaderFacts DEF ColInv
  <2>2. cols.sort \in AllColumns /\ cols.sort \in cols.visible
    BY DEF ColInv, Sound
  <2>3. PICK k \in 1 .. Len(HeaderOf(cols)) : HeaderOf(cols)[k] = cols.sort
    BY <2>2, HeaderFacts
  <2>4. k \in DOMAIN header /\ header[k] = cols.sort
    BY <2>1, <2>3
  <2> QED
    BY <2>4 DEF Range
<1> QED
  BY <1>1, ColInvInit, ColInvStep, PTL DEF ColSpec

-----------------------------------------------------------------------------
(* The sort menu                                                           *)

\* What was clicked is still on its way to the menu: first the direction, then
\* the column; without that, and a reset, the menu is up to date.
MenuInv ==
    /\ menu \in [sort : AllColumns, ascending : BOOLEAN]
    /\ updates \in {<< >>, << "sorting" >>, << "ascending", "sorting" >>}
    /\ ~unsynced /\ updates = << >> => menu.sort = cols.sort
    /\ ~unsynced /\ updates # << "ascending", "sorting" >> => menu.ascending = cols.ascending

\* The queues of updates are told apart by what comes first and what is left.
LEMMA Queues ==
    /\ << >> # << "sorting" >> /\ << >> # << "ascending", "sorting" >>
    /\ << "sorting" >> # << "ascending", "sorting" >>
    /\ Head(<< "sorting" >>) = "sorting" /\ Tail(<< "sorting" >>) = << >>
    /\ Head(<< "ascending", "sorting" >>) = "ascending"
    /\ Tail(<< "ascending", "sorting" >>) = << "sorting" >>
    /\ << >> \o << "ascending", "sorting" >> = << "ascending", "sorting" >>
  OBVIOUS

LEMMA MenuInit == ColInit => MenuInv
  BY NameAndPath DEF ColInit, MenuInv, FromConfig

LEMMA MenuStep == ColInv /\ MenuInv /\ [ColNext]_colVars => MenuInv'
<1> SUFFICES ASSUME ColInv, MenuInv, [ColNext]_colVars PROVE MenuInv'
  OBVIOUS
<1>0. cols \in Settings /\ Sound(cols) /\ unsynced \in BOOLEAN
  BY DEF ColInv, ColType
<1>1. cols' \in Settings
  BY <1>0, ColsStep DEF colVars
<1>2. ASSUME SyncMenu, updates' = updates \/ updates' = << >> PROVE MenuInv'
  <2>1. menu' = [sort |-> cols'.sort, ascending |-> cols'.ascending]
    BY <1>2 DEF SyncMenu
  <2>2. menu' \in [sort : AllColumns, ascending : BOOLEAN]
    BY <1>1, <2>1 DEF Settings
  <2>3. menu'.sort = cols'.sort /\ menu'.ascending = cols'.ascending
    BY <2>1
  <2>4. updates' \in {<< >>, << "sorting" >>, << "ascending", "sorting" >>}
    BY <1>2 DEF MenuInv
  <2> QED
    BY <2>2, <2>3, <2>4 DEF MenuInv
<1>3. ASSUME cols'.sort = cols.sort, cols'.ascending = cols.ascending, UNCHANGED <<menu, updates>>,
             ~unsynced' => ~unsynced
      PROVE  MenuInv'
  BY <1>3 DEF MenuInv
<1>4. ASSUME NEW flat \in BOOLEAN, ShowFlat(flat) PROVE MenuInv'
  <2>1. CASE flat
    <3>1. cols' = SetFlat(cols, flat) /\ UNCHANGED <<menu, unsynced, updates>>
      BY <1>4, <2>1 DEF ShowFlat
    <3>2. SetFlat(cols, flat).sort = cols.sort /\ SetFlat(cols, flat).ascending = cols.ascending
      BY <1>0, <2>1, SetFlatFacts
    <3> QED
      BY <1>3, <3>1, <3>2
  <2>2. CASE ~flat
    BY <1>2, <1>4, <2>2 DEF ShowFlat
  <2> QED
    BY <2>1, <2>2
<1>5. ASSUME NEW col \in AllColumns, OnColumn(col) \/ OnColumnSorting(col) PROVE MenuInv'
  BY <1>2, <1>5 DEF OnColumn, OnColumnSorting
<1>6. ASSUME NEW i \in AllColumns, OnColumnLeftClick(i) PROVE MenuInv'
  <2>1. updates = << >> /\ updates' = updates \o << "ascending", "sorting" >> /\ menu' = menu
    BY <1>6 DEF OnColumnLeftClick, PostUpdates
  <2>2. updates' = << "ascending", "sorting" >>
    BY <2>1, Queues
  <2> QED
    BY <2>1, <2>2, Queues DEF MenuInv
<1>7. CASE OnColumnReset
  <2>1. unsynced' = (unsynced \/ <<cols'.sort, cols'.ascending>> # <<cols.sort, cols.ascending>>)
        /\ UNCHANGED <<menu, updates>>
    BY <1>7 DEF OnColumnReset
  <2>2. CASE <<cols'.sort, cols'.ascending>> = <<cols.sort, cols.ascending>>
    <3>1. cols'.sort = cols.sort /\ cols'.ascending = cols.ascending
      BY <2>2
    <3>2. ~unsynced' => ~unsynced
      BY <1>0, <2>1
    <3> QED
      BY <1>3, <2>1, <3>1, <3>2
  <2>3. CASE <<cols'.sort, cols'.ascending>> # <<cols.sort, cols.ascending>>
    <3>1. unsynced'
      BY <2>1, <2>3
    <3> QED
      BY <2>1, <3>1 DEF MenuInv
  <2> QED
    BY <2>2, <2>3
<1>8. CASE OnSortAscending
  <2> DEFINE asc == ~cols.ascending
             checked == ~menu.ascending
  <2>1. /\ cols' = [cols EXCEPT !.ascending = asc] /\ asc \in BOOLEAN
        /\ menu' = [menu EXCEPT !.ascending = checked] /\ checked \in BOOLEAN
        /\ UNCHANGED <<updates, unsynced>>
    BY <1>8 DEF OnSortAscending
  <2>2. menu.ascending = cols.ascending => checked = asc
    OBVIOUS
  <2> HIDE DEF asc, checked
  <2>3. cols'.ascending = asc /\ cols'.sort = cols.sort
    BY <1>0, <2>1 DEF Settings
  <2>4. menu' \in [sort : AllColumns, ascending : BOOLEAN] /\ menu'.ascending = checked /\ menu'.sort = menu.sort
    BY <2>1 DEF MenuInv
  <2> QED
    BY <2>1, <2>2, <2>3, <2>4 DEF MenuInv
<1>9. CASE UpdateMenu
  <2>1. /\ updates # << >> /\ UNCHANGED <<cols, unsynced>> /\ updates' = Tail(updates)
        /\ menu' = IF Head(updates) = "sorting" THEN [menu EXCEPT !.sort = cols.sort]
                                                ELSE [menu EXCEPT !.ascending = cols.ascending]
    BY <1>9 DEF UpdateMenu
  <2>2. CASE updates = << "sorting" >>
    <3>1. menu' = [menu EXCEPT !.sort = cols.sort] /\ updates' = << >>
      BY <2>1, <2>2, Queues
    <3>2. /\ menu' \in [sort : AllColumns, ascending : BOOLEAN]
          /\ menu'.sort = cols.sort /\ menu'.ascending = menu.ascending
      BY <1>0, <3>1 DEF MenuInv, Settings
    <3>3. ~unsynced => menu.ascending = cols.ascending
      BY <2>2, Queues DEF MenuInv
    <3> QED
      BY <2>1, <3>1, <3>2, <3>3 DEF MenuInv
  <2>3. CASE updates = << "ascending", "sorting" >>
    <3>1. menu' = [menu EXCEPT !.ascending = cols.ascending] /\ updates' = << "sorting" >>
      BY <2>1, <2>3, Queues
    <3>2. /\ menu' \in [sort : AllColumns, ascending : BOOLEAN]
          /\ menu'.ascending = cols.ascending
      BY <1>0, <3>1 DEF MenuInv, Settings
    <3> QED
      BY <2>1, <3>1, <3>2, Queues DEF MenuInv
  <2> QED
    BY <2>1, <2>2, <2>3 DEF MenuInv
<1>10. CASE Quit \/ Die
  <2>1. SyncMenu /\ updates' = << >>
    BY <1>10 DEF Quit, Die, Start
  <2> QED
    BY <1>2, <2>1
<1>11. CASE UNCHANGED colVars
  BY <1>3, <1>11 DEF colVars
<1> QED
  BY <1>4, <1>5, <1>6, <1>7, <1>8, <1>9, <1>10, <1>11 DEF ColNext

\* The posted updates bring the menu up to date, in whatever order they meet
\* the other handlers.
THEOREM MenuIsRight == ColSpec => []MenuShowsSorting
<1>1. MenuInv => MenuShowsSorting
  <2> SUFFICES ASSUME MenuInv, updates = << >>, ~unsynced
               PROVE  menu = [sort |-> cols.sort, ascending |-> cols.ascending]
    BY DEF MenuShowsSorting
  <2>1. menu.sort = cols.sort /\ menu.ascending = cols.ascending
    BY Queues DEF MenuInv
  <2>2. menu = [sort |-> menu.sort, ascending |-> menu.ascending]
    BY DEF MenuInv
  <2> QED
    BY <2>1, <2>2, Zenon
<1> QED
  BY <1>1, ColInvInit, ColInvStep, MenuInit, MenuStep, PTL DEF ColSpec

-----------------------------------------------------------------------------
(* The rows of the list and what is selected of them.                      *)

FileSpec == FileInit /\ [][FileNext]_fileVars

-----------------------------------------------------------------------------
(* The order of the rows                                                   *)

\* What a column compares by.
Key(column, i) ==
    CASE column = "name" -> Name[i]
      [] column = "path" -> Base[i]
      [] column = "ext" -> Ext[i]
      [] column = "rev" -> Rev[i]
      [] column = "status" -> StatusRank(status[i])

\* By the column, then by the name without extension, then by the name.
Less(column, i, j) ==
    \/ Key(column, i) < Key(column, j)
    \/ Key(column, i) = Key(column, j) /\ Base[i] < Base[j]
    \/ Key(column, i) = Key(column, j) /\ Base[i] = Base[j] /\ Name[i] < Name[j]

\* The folder itself, its folders, its files.
Class(i) == IF i = Dot THEN 0 ELSE IF IsDir(i) THEN 1 ELSE 2

\* The order CompareItems stands for.
Precedes(i, j) ==
    \/ Class(i) < Class(j)
    \/ Class(i) = Class(j) /\ (IF sort.ascending THEN Less(sort.column, i, j)
                                                 ELSE Less(sort.column, j, i))

ColumnNames == {"name", "path", "ext", "rev", "status"}

\* An item that was found on disk.
Present(i) == i \in ListItems /\ status[i] \in Statuses \ {"absent"}

SortOk == sort.column \in ColumnNames /\ sort.ascending \in BOOLEAN

LEMMA RankIsNat ==
    ASSUME NEW s \in Statuses \ {"absent"}
    PROVE  StatusRank(s) \in Nat
<1> DEFINE table == << "ignored", "obstructed", "unversioned", "conflicted",
                       "modified", "outdated", "normal" >>
<1>1. \E n \in 1 .. 7 : table[n] = s
  <2>1. /\ table[1] = "ignored" /\ table[2] = "obstructed" /\ table[3] = "unversioned"
        /\ table[4] = "conflicted" /\ table[5] = "modified" /\ table[6] = "outdated"
        /\ table[7] = "normal"
    OBVIOUS
  <2> HIDE DEF table
  <2>2. s \in {"ignored", "obstructed", "unversioned", "conflicted", "modified", "outdated", "normal"}
    BY DEF Statuses
  <2> QED
    BY <2>1, <2>2
<1>2. StatusRank(s) = CHOOSE n \in 1 .. 7 : table[n] = s
  BY DEF StatusRank
<1> HIDE DEF table
<1> QED
  BY <1>1, <1>2

LEMMA ItemNumbers ==
    ASSUME NEW i \in ListItems
    PROVE  Name[i] \in Nat /\ Base[i] \in Nat /\ Ext[i] \in Nat /\ Rev[i] \in Nat
  BY FileListAssumption

LEMMA KeyIsNat ==
    ASSUME NEW i, Present(i), NEW column \in ColumnNames
    PROVE  Key(column, i) \in Nat
<1>1. i \in ListItems /\ StatusRank(status[i]) \in Nat
  BY RankIsNat DEF Present
<1>2. Name[i] \in Nat /\ Base[i] \in Nat /\ Ext[i] \in Nat /\ Rev[i] \in Nat
  BY <1>1, ItemNumbers
<1> QED
  BY <1>1, <1>2 DEF Key, ColumnNames

\* The order is one: of two items at most one precedes the other, neither only
\* if their names are alike, and "does not come after" is transitive.
LEMMA Order ==
    ASSUME SortOk
    PROVE  /\ \A i, j : Present(i) /\ Present(j) => ~(Precedes(i, j) /\ Precedes(j, i))
           /\ \A i, j : Present(i) /\ Present(j) /\ ~Precedes(i, j) /\ ~Precedes(j, i)
                            => Name[i] = Name[j]
           /\ \A i, j, k : Present(i) /\ Present(j) /\ Present(k) /\ ~Precedes(j, i) /\ ~Precedes(k, j)
                            => ~Precedes(k, i)
<1> DEFINE c == sort.column
<1>1. c \in ColumnNames /\ sort.ascending \in BOOLEAN
  BY DEF SortOk
<1>2. \A i : Class(i) \in 0 .. 2
  BY DEF Class
<1>3. \A i : Present(i) => Key(c, i) \in Nat /\ Base[i] \in Nat /\ Name[i] \in Nat
  BY <1>1, KeyIsNat, ItemNumbers DEF Present
<1> HIDE DEF c
<1>4. ASSUME NEW i, NEW j, Present(i), Present(j)
      PROVE  ~(Less(c, i, j) /\ Less(c, j, i)) /\ (~Less(c, i, j) /\ ~Less(c, j, i) => Name[i] = Name[j])
  BY <1>3, <1>4 DEF Less
<1>5. ASSUME NEW i, NEW j, NEW k, Present(i), Present(j), Present(k), ~Less(c, j, i), ~Less(c, k, j)
      PROVE  ~Less(c, k, i)
  BY <1>3, <1>5 DEF Less
<1>6. \A i, j : Precedes(i, j) <=>
          \/ Class(i) < Class(j)
          \/ Class(i) = Class(j) /\ (IF sort.ascending THEN Less(c, i, j) ELSE Less(c, j, i))
  BY DEF Precedes, c
<1>7. ASSUME NEW i, NEW j, Present(i), Present(j)
      PROVE  ~(Precedes(i, j) /\ Precedes(j, i)) /\ (~Precedes(i, j) /\ ~Precedes(j, i) => Name[i] = Name[j])
  BY <1>1, <1>2, <1>4, <1>6, <1>7
<1>8. ASSUME NEW i, NEW j, NEW k, Present(i), Present(j), Present(k), ~Precedes(j, i), ~Precedes(k, j)
      PROVE  ~Precedes(k, i)
  BY <1>1, <1>2, <1>5, <1>6, <1>8
<1> QED
  BY <1>7, <1>8

\* Cmp tells which of two numbers is smaller.
LEMMA CmpIs ==
    ASSUME NEW a \in Nat, NEW b \in Nat
    PROVE  /\ a = b <=> Cmp(a, b) = 0
           /\ a < b <=> Cmp(a, b) = -1
           /\ b < a <=> Cmp(a, b) = 1
  BY DEF Cmp

\* The first of two or three columns that tells two items apart.
LEMMA FirstOfTwo ==
    ASSUME NEW c1, NEW c2, NEW i, NEW j
    PROVE  FirstDifference(<<c1, c2>>, i, j) =
              IF CompareColumn(c1, i, j) # 0 THEN CompareColumn(c1, i, j)
              ELSE CompareColumn(c2, i, j)
<1> DEFINE cs == <<c1, c2>>
           tells == {n \in DOMAIN cs : CompareColumn(cs[n], i, j) # 0}
<1>1. FirstDifference(cs, i, j) = IF tells = {} THEN 0 ELSE CompareColumn(cs[Min(tells)], i, j)
  BY DEF FirstDifference
<1>2. DOMAIN cs = 1 .. 2 /\ cs[1] = c1 /\ cs[2] = c2
  OBVIOUS
<1>3. tells = {n \in 1 .. 2 : CompareColumn(cs[n], i, j) # 0}
  BY <1>2
<1> HIDE DEF cs, tells
<1>4. tells \in SUBSET Nat /\ \A n \in tells : n = 1 \/ n = 2
  BY <1>3
<1>5. 1 \in tells <=> CompareColumn(c1, i, j) # 0
  BY <1>2, <1>3
<1>6. 2 \in tells <=> CompareColumn(c2, i, j) # 0
  BY <1>2, <1>3
<1>7. CASE 1 \in tells
  <2>1. \A n \in tells : 1 <= n
    BY <1>4
  <2>2. Min(tells) = 1
    BY <1>4, <1>7, <2>1, MinIs
  <2> QED
    BY <1>1, <1>2, <1>5, <1>7, <2>2 DEF cs
<1>8. CASE 1 \notin tells /\ 2 \in tells
  <2>1. \A n \in tells : 2 <= n
    BY <1>4, <1>8
  <2>2. Min(tells) = 2
    BY <1>4, <1>8, <2>1, MinIs
  <2> QED
    BY <1>1, <1>2, <1>5, <1>8, <2>2 DEF cs
<1>9. CASE 1 \notin tells /\ 2 \notin tells
  <2>1. tells = {}
    BY <1>4, <1>9
  <2> QED
    BY <1>1, <1>5, <1>6, <1>9, <2>1 DEF cs
<1> QED
  BY <1>7, <1>8, <1>9

LEMMA FirstOfThree ==
    ASSUME NEW c1, NEW c2, NEW c3, NEW i, NEW j
    PROVE  FirstDifference(<<c1, c2, c3>>, i, j) =
              IF CompareColumn(c1, i, j) # 0 THEN CompareColumn(c1, i, j)
              ELSE IF CompareColumn(c2, i, j) # 0 THEN CompareColumn(c2, i, j)
              ELSE CompareColumn(c3, i, j)
<1> DEFINE cs == <<c1, c2, c3>>
           tells == {n \in DOMAIN cs : CompareColumn(cs[n], i, j) # 0}
<1>1. FirstDifference(cs, i, j) = IF tells = {} THEN 0 ELSE CompareColumn(cs[Min(tells)], i, j)
  BY DEF FirstDifference
<1>2. DOMAIN cs = 1 .. 3 /\ cs[1] = c1 /\ cs[2] = c2 /\ cs[3] = c3
  OBVIOUS
<1>3. tells = {n \in 1 .. 3 : CompareColumn(cs[n], i, j) # 0}
  BY <1>2
<1> HIDE DEF cs, tells
<1>4. tells \in SUBSET Nat /\ \A n \in tells : n = 1 \/ n = 2 \/ n = 3
  BY <1>3
<1>5. /\ 1 \in tells <=> CompareColumn(c1, i, j) # 0
      /\ 2 \in tells <=> CompareColumn(c2, i, j) # 0
      /\ 3 \in tells <=> CompareColumn(c3, i, j) # 0
  BY <1>2, <1>3
<1>6. ASSUME NEW n \in tells, \A m \in tells : n <= m
      PROVE  FirstDifference(cs, i, j) = CompareColumn(cs[n], i, j)
  <2>1. Min(tells) = n
    BY <1>4, <1>6, MinIs
  <2> QED
    BY <1>1, <2>1
<1>7. CASE 1 \in tells
  <2>1. \A n \in tells : 1 <= n
    BY <1>4
  <2>2. FirstDifference(cs, i, j) = CompareColumn(cs[1], i, j)
    BY <1>6, <1>7, <2>1
  <2> QED
    BY <1>2, <1>5, <1>7, <2>2 DEF cs
<1>8. CASE 1 \notin tells /\ 2 \in tells
  <2>1. \A n \in tells : 2 <= n
    BY <1>4, <1>8
  <2>2. FirstDifference(cs, i, j) = CompareColumn(cs[2], i, j)
    BY <1>6, <1>8, <2>1
  <2> QED
    BY <1>2, <1>5, <1>8, <2>2 DEF cs
<1>9. CASE 1 \notin tells /\ 2 \notin tells /\ 3 \in tells
  <2>1. \A n \in tells : 3 <= n
    BY <1>4, <1>9
  <2>2. FirstDifference(cs, i, j) = CompareColumn(cs[3], i, j)
    BY <1>6, <1>9, <2>1
  <2> QED
    BY <1>2, <1>5, <1>9, <2>2 DEF cs
<1>10. CASE 1 \notin tells /\ 2 \notin tells /\ 3 \notin tells
  <2>1. tells = {}
    BY <1>4, <1>10
  <2> QED
    BY <1>1, <1>5, <1>10, <2>1 DEF cs
<1> QED
  BY <1>7, <1>8, <1>9, <1>10

\* CompareItems answers by that order.
LEMMA CompareIs ==
    ASSUME SortOk, NEW i, NEW j, Present(i), Present(j), i # j
    PROVE  CompareItems(i, j) = IF Precedes(i, j) THEN -1 ELSE IF Precedes(j, i) THEN 1 ELSE 0
<1> DEFINE c == sort.column
           fd == FirstDifference(Columns(c), i, j)
<1>1. c \in ColumnNames /\ sort.ascending \in BOOLEAN /\ i \in ListItems /\ j \in ListItems
  BY DEF SortOk, Present
<1>2. /\ Base[i] \in Nat /\ Name[i] \in Nat /\ Base[j] \in Nat /\ Name[j] \in Nat
      /\ Key(c, i) \in Nat /\ Key(c, j) \in Nat
  BY <1>1, KeyIsNat, ItemNumbers
<1>3. Name[i] = Name[j] => Base[i] = Base[j]
  BY <1>1, FileListAssumption
<1>4. /\ CompareColumn("name", i, j) = Cmp(Name[i], Name[j])
      /\ CompareColumn("path", i, j) = Cmp(Base[i], Base[j])
  BY DEF CompareColumn
<1>5. CompareColumn(c, i, j) = Cmp(Key(c, i), Key(c, j))
  BY <1>1 DEF CompareColumn, Key, ColumnNames
<1>6. /\ c = "name" => Key(c, i) = Name[i] /\ Key(c, j) = Name[j]
      /\ c = "path" => Key(c, i) = Base[i] /\ Key(c, j) = Base[j]
  BY DEF Key
<1> HIDE DEF c
<1>7. fd = IF Less(c, i, j) THEN -1 ELSE IF Less(c, j, i) THEN 1 ELSE 0
  <2>1. CASE c = "name"
    <3>1. Columns(c) = << "name", "path" >>
      BY <2>1 DEF Columns
    <3>2. fd = IF CompareColumn("name", i, j) # 0 THEN CompareColumn("name", i, j)
               ELSE CompareColumn("path", i, j)
      BY <3>1, FirstOfTwo
    <3> QED
      BY <1>2, <1>3, <1>4, <1>6, <2>1, <3>2 DEF Cmp, Less
  <2>2. CASE c = "path"
    <3>1. Columns(c) = << "path", "name" >>
      BY <2>2 DEF Columns
    <3>2. fd = IF CompareColumn("path", i, j) # 0 THEN CompareColumn("path", i, j)
               ELSE CompareColumn("name", i, j)
      BY <3>1, FirstOfTwo
    <3> QED
      BY <1>2, <1>3, <1>4, <1>6, <2>2, <3>2 DEF Cmp, Less
  <2>3. CASE c \notin {"name", "path"}
    <3>1. Columns(c) = << c, "path", "name" >>
      BY <2>3 DEF Columns
    <3>2. fd = IF CompareColumn(c, i, j) # 0 THEN CompareColumn(c, i, j)
               ELSE IF CompareColumn("path", i, j) # 0 THEN CompareColumn("path", i, j)
               ELSE CompareColumn("name", i, j)
      BY <3>1, FirstOfThree
    <3> QED
      BY <1>2, <1>3, <1>4, <1>5, <2>3, <3>2 DEF Cmp, Less
  <2> QED
    BY <2>1, <2>2, <2>3
<1>8. ~(Less(c, i, j) /\ Less(c, j, i))
  BY <1>2 DEF Less
<1>9. CompareItems(i, j) =
        IF IsDir(i) /\ (~IsDir(j) \/ i = Dot) THEN -1
        ELSE IF IsDir(j) /\ (~IsDir(i) \/ j = Dot) THEN 1
        ELSE fd * (IF sort.ascending THEN 1 ELSE -1)
  BY DEF CompareItems, c
<1>10. /\ Precedes(i, j) <=>
              \/ Class(i) < Class(j)
              \/ Class(i) = Class(j) /\ (IF sort.ascending THEN Less(c, i, j) ELSE Less(c, j, i))
       /\ Precedes(j, i) <=>
              \/ Class(j) < Class(i)
              \/ Class(j) = Class(i) /\ (IF sort.ascending THEN Less(c, j, i) ELSE Less(c, i, j))
  BY DEF Precedes, c
<1>11. IsDir(Dot)
  BY FileListAssumption DEF IsDir
<1> HIDE DEF fd
<1>12. CASE Class(i) < Class(j)
  BY <1>9, <1>10, <1>11, <1>12 DEF Class
<1>13. CASE Class(j) < Class(i)
  <2>1. ~(Class(i) < Class(j)) /\ Class(i) # Class(j)
    BY <1>13 DEF Class
  <2>2. CompareItems(i, j) = 1
    BY <1>9, <1>11, <1>13 DEF Class
  <2> QED
    BY <1>10, <1>13, <2>1, <2>2
<1>14. CASE Class(i) = Class(j)
  <2>1. CompareItems(i, j) = fd * (IF sort.ascending THEN 1 ELSE -1)
    BY <1>9, <1>11, <1>14 DEF Class
  <2>2. Class(i) \in 0 .. 2
    BY DEF Class
  <2>3. CASE sort.ascending
    <3>1. (Precedes(i, j) <=> Less(c, i, j)) /\ (Precedes(j, i) <=> Less(c, j, i))
      BY <1>10, <1>14, <2>2, <2>3
    <3>2. CompareItems(i, j) = fd
      BY <1>7, <2>1, <2>3
    <3> QED
      BY <1>7, <3>1, <3>2
  <2>4. CASE ~sort.ascending
    <3>1. (Precedes(i, j) <=> Less(c, j, i)) /\ (Precedes(j, i) <=> Less(c, i, j))
      BY <1>10, <1>14, <2>2, <2>4
    <3>2. CompareItems(i, j) = IF Less(c, i, j) THEN (-1) * (-1)
                               ELSE IF Less(c, j, i) THEN 1 * (-1) ELSE 0 * (-1)
      BY <1>7, <2>1, <2>4
    <3>3. CompareItems(i, j) = IF Less(c, i, j) THEN 1 ELSE IF Less(c, j, i) THEN -1 ELSE 0
      BY <3>2
    <3> QED
      BY <1>8, <3>1, <3>3
  <2> QED
    BY <2>3, <2>4
<1>15. Class(i) \in 0 .. 2 /\ Class(j) \in 0 .. 2
  BY DEF Class
<1> QED
  BY <1>12, <1>13, <1>14, <1>15

-----------------------------------------------------------------------------
(* The rows                                                                *)

\* No item has two rows.
Distinct(rows) == \A m, n \in 1 .. Len(rows) : m # n => rows[m] # rows[n]

\* A rearrangement has the same items, each once.
LEMMA RearrangedFacts ==
    ASSUME NEW rows \in Seq(ListItems), Distinct(rows), NEW s \in Rearranged(rows)
    PROVE  /\ s \in Seq(ListItems) /\ Len(s) = Len(rows)
           /\ Range(s) = Range(rows)
           /\ Distinct(s)
<1> DEFINE N == 1 .. Len(rows)
<1>1. Len(rows) \in Nat /\ DOMAIN rows = N /\ \A k \in N : rows[k] \in ListItems
  OBVIOUS
<1>2. PICK order \in Orders : DOMAIN order = N /\ s = [n \in N |-> rows[order[n]]]
  BY <1>1 DEF Rearranged
<1>3. /\ order \in [N -> N]
      /\ \A k \in N : \E n \in N : order[n] = k
      /\ IsInjective(order)
  <2>1. PICK m \in 0 .. Len(Reported) : order \in Bijection(1 .. m, 1 .. m)
    BY <1>2 DEF Orders
  <2>2. /\ order \in [1 .. m -> 1 .. m]
        /\ \A k \in 1 .. m : \E n \in 1 .. m : order[n] = k
        /\ IsInjective(order)
    BY <2>1 DEF Bijection, Injection, Surjection
  <2>3. 1 .. m = N
    BY <1>2, <2>2
  <2> QED
    BY <2>2, <2>3
<1>4. \A k \in N : order[k] \in N /\ s[k] = rows[order[k]]
  BY <1>2, <1>3
<1>5. s \in Seq(ListItems) /\ Len(s) = Len(rows) /\ DOMAIN s = N
  <2>1. s \in [N -> ListItems]
    BY <1>1, <1>2, <1>3
  <2> QED
    BY <1>1, <2>1
<1>6. Range(s) = Range(rows)
  <2>1. \A x \in Range(s) : x \in Range(rows)
    BY <1>1, <1>4, <1>5 DEF Range
  <2>2. ASSUME NEW x \in Range(rows) PROVE x \in Range(s)
    <3>1. PICK k \in N : rows[k] = x
      BY <1>1 DEF Range
    <3>2. PICK n \in N : order[n] = k
      BY <1>3
    <3>3. s[n] = x
      BY <1>4, <3>1, <3>2
    <3> QED
      BY <1>5, <3>3 DEF Range
  <2> QED
    BY <2>1, <2>2
<1>7. Distinct(s)
  <2> SUFFICES ASSUME NEW m \in N, NEW n \in N, m # n
               PROVE  s[m] # s[n]
    BY <1>5 DEF Distinct
  <2>1. order[m] # order[n]
    BY <1>3 DEF IsInjective
  <2> QED
    BY <1>4, <2>1 DEF Distinct
<1> QED
  BY <1>5, <1>6, <1>7

\* One turn of the loop of RefreshFileList.
FillTurn(read, f, g, n) ==
    IF n = 0 THEN [rows |-> << >>, chosen |-> {}]
    ELSE IF Reported[n] \notin Found(read, f) THEN g[n - 1]
    ELSE LET i == Reported[n]
             filled == IF GetsRow(read[i], f) THEN Append(g[n - 1].rows, i)
                                              ELSE g[n - 1].rows
         IN  [rows |-> filled, chosen |-> g[n - 1].chosen \cup Reselect(i, filled)]

LEMMA FillLoopExists ==
    ASSUME NEW read, NEW f, NEW n \in Nat
    PROVE  \E g : g = [i \in 0 .. n |-> FillTurn(read, f, g, i)]
<1> DEFINE T == {m \in 0 .. n : \E g : g = [i \in 0 .. m |-> FillTurn(read, f, g, i)]}
<1>1. 0 \in T
  <2> DEFINE g == [i \in 0 .. 0 |-> [rows |-> << >>, chosen |-> {}]]
  <2>1. g = [i \in 0 .. 0 |-> FillTurn(read, f, g, i)]
    BY DEF FillTurn
  <2> QED
    BY <2>1
<1>2. ASSUME NEW m \in 0 .. n - 1, m \in T PROVE m + 1 \in T
  <2>1. PICK g : g = [i \in 0 .. m |-> FillTurn(read, f, g, i)]
    BY <1>2
  <2> DEFINE h == [i \in 0 .. m + 1 |-> IF i = m + 1 THEN FillTurn(read, f, g, i) ELSE g[i]]
  <2>2. m \in Nat
    OBVIOUS
  <2>3. h[m + 1] = FillTurn(read, f, g, m + 1)
    BY <2>2
  <2>4. \A i \in 0 .. m : h[i] = g[i]
    BY <2>2
  <2>5. h = [i \in 0 .. m + 1 |-> h[i]]
    OBVIOUS
  <2> HIDE DEF h
  <2>6. \A i \in 0 .. m : h[i] = g[i] /\ g[i] = FillTurn(read, f, g, i)
    BY <2>1, <2>4
  <2>7. ASSUME NEW i \in 0 .. m + 1 PROVE h[i] = FillTurn(read, f, h, i)
    <3>1. CASE i = 0
      <4>1. i \in 0 .. m /\ FillTurn(read, f, h, i) = FillTurn(read, f, g, i)
        BY <2>2, <3>1 DEF FillTurn
      <4> QED
        BY <2>6, <4>1
    <3>2. CASE i # 0
      <4>1. i - 1 \in 0 .. m /\ h[i - 1] = g[i - 1]
        BY <2>2, <2>6, <3>2
      <4>2. FillTurn(read, f, h, i) = FillTurn(read, f, g, i)
        BY <4>1, <3>2 DEF FillTurn
      <4>3. i \in 0 .. m \/ i = m + 1
        BY <2>2
      <4>4. h[i] = FillTurn(read, f, g, i)
        BY <2>3, <2>6, <4>3
      <4> QED
        BY <4>2, <4>4
    <3> QED
      BY <3>1, <3>2
  <2>8. h = [i \in 0 .. m + 1 |-> FillTurn(read, f, h, i)]
    BY <2>5, <2>7
  <2> QED
    BY <2>2, <2>8
<1> HIDE DEF T
<1>3. T = 0 .. n
  <2>1. T \in SUBSET (0 .. n)
    BY DEF T
  <2> QED
    BY <1>1, <1>2, <2>1, Induction
<1> QED
  BY <1>3 DEF T

LEMMA FillLoop ==
    ASSUME NEW read, NEW f
    PROVE  \E g : /\ Fill(read, f) = g[Len(Reported)]
                  /\ \A i \in 0 .. Len(Reported) : g[i] = FillTurn(read, f, g, i)
<1> DEFINE g == CHOOSE g : g = [i \in 0 .. Len(Reported) |-> FillTurn(read, f, g, i)]
<1>1. Fill(read, f) = g[Len(Reported)]
  BY DEF Fill, FillTurn
<1>2. g = [i \in 0 .. Len(Reported) |-> FillTurn(read, f, g, i)]
  <2>1. Len(Reported) \in Nat
    BY FileListAssumption
  <2> QED
    BY <2>1, FillLoopExists
<1> HIDE DEF g
<1>3. \A i \in 0 .. Len(Reported) : g[i] = FillTurn(read, f, g, i)
  BY <1>2
<1> QED
  BY <1>1, <1>3

\* No item that was selected is found and left without a row.
EachKeepsItsRow(read, f) == \A i \in chosen : i \in Found(read, f) => GetsRow(read[i], f)

\* The refresh lists items that were found, each once; and if each selected
\* item that is still there gets its row, no other item is selected.
LEMMA FillFacts ==
    ASSUME NEW read, NEW f
    PROVE  LET fl == Fill(read, f)
           IN  /\ fl.rows \in Seq(ListItems) /\ Distinct(fl.rows)
               /\ \A i \in Range(fl.rows) : i \in Found(read, f)
               /\ EachKeepsItsRow(read, f) => fl.chosen \subseteq chosen \cap Range(fl.rows)
<1> DEFINE N == Len(Reported)
           found == Found(read, f)
<1>1. PICK g : /\ Fill(read, f) = g[N]
               /\ \A i \in 0 .. N : g[i] = FillTurn(read, f, g, i)
  BY FillLoop
<1>2. /\ N \in Nat
      /\ \A m \in 1 .. N : Reported[m] \in ListItems
      /\ \A m, n \in 1 .. N : m # n => Reported[m] # Reported[n]
  <2>1. /\ Reported \in Seq(ListItems)
        /\ \A m, n \in DOMAIN Reported : m # n => Reported[m] # Reported[n]
    BY FileListAssumption
  <2>2. DOMAIN Reported = 1 .. N /\ N \in Nat
    BY <2>1
  <2>3. \A m \in 1 .. N : Reported[m] \in ListItems
    BY <2>1, <2>2
  <2> QED
    BY <2>1, <2>2, <2>3
<1>3. found \subseteq ListItems
  BY DEF Found
<1> DEFINE Good(n) ==
             /\ g[n].rows \in Seq(ListItems) /\ Distinct(g[n].rows)
             /\ \A k \in 1 .. Len(g[n].rows) :
                   /\ g[n].rows[k] \in found
                   /\ \E m \in 1 .. n : g[n].rows[k] = Reported[m]
             /\ EachKeepsItsRow(read, f) => g[n].chosen \subseteq chosen \cap Range(g[n].rows)
           T == {n \in 0 .. N : Good(n)}
<1> HIDE DEF found, N
<1>4. 0 \in T
  <2>1. 0 \in 0 .. N
    BY <1>2
  <2>2. g[0] = [rows |-> << >>, chosen |-> {}]
    BY <1>1, <2>1 DEF FillTurn
  <2>3. g[0].rows = << >> /\ g[0].chosen = {}
    BY <2>2
  <2>4. << >> \in Seq(ListItems) /\ Len(<< >>) = 0
    OBVIOUS
  <2>5. Good(0)
    BY <2>3, <2>4 DEF Distinct
  <2> QED
    BY <2>1, <2>5
<1>5. ASSUME NEW m \in 0 .. N - 1, m \in T PROVE m + 1 \in T
  <2>1. m \in Nat /\ m + 1 \in 1 .. N /\ m + 1 \in 0 .. N /\ m + 1 # 0 /\ (m + 1) - 1 = m
    BY <1>2
  <2> DEFINE i == Reported[m + 1]
             rows == g[m].rows
             sel == g[m].chosen
             rows1 == g[m + 1].rows
             sel1 == g[m + 1].chosen
  <2>2. /\ rows \in Seq(ListItems) /\ Distinct(rows)
        /\ \A k \in 1 .. Len(rows) :
              rows[k] \in found /\ \E l \in 1 .. m : rows[k] = Reported[l]
        /\ EachKeepsItsRow(read, f) => sel \subseteq chosen \cap Range(rows)
    BY <1>5
  <2>3. g[m + 1] = FillTurn(read, f, g, m + 1)
    BY <1>1, <2>1
  <2>4. i \in ListItems /\ \A l \in 1 .. m : Reported[l] # i
    BY <1>2, <2>1
  <2>5. SUFFICES /\ rows1 \in Seq(ListItems) /\ Distinct(rows1)
                 /\ \A k \in 1 .. Len(rows1) :
                       rows1[k] \in found /\ \E l \in 1 .. m + 1 : rows1[k] = Reported[l]
                 /\ EachKeepsItsRow(read, f) => sel1 \subseteq chosen \cap Range(rows1)
    BY <2>1
  <2>6. \A l \in 1 .. m : l \in 1 .. m + 1
    BY <2>1
  <2>7. CASE i \notin found
    <3>1. rows1 = rows /\ sel1 = sel
      BY <2>1, <2>3, <2>7 DEF FillTurn, found
    <3> QED
      BY <2>2, <2>6, <3>1
  <2>8. CASE i \in found /\ GetsRow(read[i], f)
    <3>1. rows1 = Append(rows, i) /\ sel1 = sel \cup Reselect(i, Append(rows, i))
      BY <2>1, <2>3, <2>8 DEF FillTurn, found
    <3> HIDE DEF rows, sel, rows1, sel1, i
    <3>2. /\ rows1 \in Seq(ListItems) /\ Len(rows1) = Len(rows) + 1 /\ Len(rows) \in Nat
          /\ \A k \in 1 .. Len(rows) : rows1[k] = rows[k]
          /\ rows1[Len(rows) + 1] = i
      BY <2>2, <2>4, <3>1, AppendProperties
    <3>3. ASSUME NEW k \in 1 .. Len(rows1)
          PROVE  rows1[k] \in found /\ \E l \in 1 .. m + 1 : rows1[k] = Reported[l]
      <4>1. CASE k = Len(rows) + 1
        <5>1. rows1[k] = i /\ i = Reported[m + 1] /\ m + 1 \in 1 .. m + 1
          BY <2>1, <3>2, <4>1 DEF i
        <5> QED
          BY <2>8, <5>1
      <4>2. CASE k # Len(rows) + 1
        <5>1. k \in 1 .. Len(rows) /\ rows1[k] = rows[k]
          BY <3>2, <4>2
        <5> QED
          BY <2>2, <2>6, <5>1
      <4> QED
        BY <4>1, <4>2
    <3>4. Distinct(rows1)
      <4>1. \A k \in 1 .. Len(rows) : rows[k] # i
        BY <2>2, <2>4
      <4>2. \A k, l \in 1 .. Len(rows) : k # l => rows[k] # rows[l]
        BY <2>2 DEF Distinct
      <4>3. \A k \in 1 .. Len(rows1) : k \in 1 .. Len(rows) \/ k = Len(rows) + 1
        BY <3>2
      <4> QED
        BY <3>2, <4>1, <4>2, <4>3 DEF Distinct
    <3>5. DOMAIN rows = 1 .. Len(rows) /\ DOMAIN rows1 = 1 .. Len(rows1)
      BY <2>2, <3>2
    <3>6. \A x \in Range(rows) : x \in Range(rows1)
      BY <3>2, <3>5 DEF Range
    <3>7. i \in Range(rows1)
      BY <3>2, <3>5 DEF Range
    <3>8. Reselect(i, rows1) \subseteq {i} /\ (i \notin chosen => Reselect(i, rows1) = {})
      <4>1. Last(rows1) = i
        BY <3>2 DEF Last
      <4> QED
        BY <4>1 DEF Reselect
    <3>9. EachKeepsItsRow(read, f) => sel1 \subseteq chosen \cap Range(rows1)
      BY <2>2, <3>1, <3>6, <3>7, <3>8
    <3> QED
      BY <3>2, <3>3, <3>4, <3>9
  <2>9. CASE i \in found /\ ~GetsRow(read[i], f)
    <3>1. rows1 = rows /\ sel1 = sel \cup Reselect(i, rows)
      BY <2>1, <2>3, <2>9 DEF FillTurn, found
    <3>2. EachKeepsItsRow(read, f) => i \notin chosen
      BY <2>9 DEF EachKeepsItsRow, found
    <3>3. i \notin chosen => Reselect(i, rows) = {}
      BY DEF Reselect
    <3> HIDE DEF rows, sel, rows1, sel1, i
    <3> QED
      BY <2>2, <2>6, <3>1, <3>2, <3>3
  <2> QED
    BY <2>7, <2>8, <2>9
<1>6. T = 0 .. N
  <2>1. T \in SUBSET (0 .. N)
    OBVIOUS
  <2> HIDE DEF T
  <2> QED
    BY <1>2, <1>4, <1>5, <2>1, Induction
<1>7. Good(N)
  BY <1>2, <1>6
<1> DEFINE fl == Fill(read, f)
<1>8. /\ fl.rows \in Seq(ListItems) /\ Distinct(fl.rows)
      /\ \A k \in 1 .. Len(fl.rows) : fl.rows[k] \in found
      /\ EachKeepsItsRow(read, f) => fl.chosen \subseteq chosen \cap Range(fl.rows)
  BY <1>1, <1>7
<1> HIDE DEF fl
<1>9. \A i \in Range(fl.rows) : i \in found
  BY <1>8 DEF Range
<1> QED
  BY <1>8, <1>9 DEF fl, found

-----------------------------------------------------------------------------
(* The handlers                                                            *)

\* The rows are items that were found, each once, and the last sort left each
\* in order with the next; what is selected is what the user selected.
ListInv ==
    /\ list \in Seq(ListItems) /\ Distinct(list)
    /\ \A n \in 1 .. Len(list) : Present(list[n])
    /\ SortOk
    /\ NeighboursInOrder
    /\ CommandsGetWhatWasSelected

LEMMA ListInvInit == FileInit => ListInv
<1> SUFFICES ASSUME FileInit PROVE ListInv
  OBVIOUS
<1>1. list = << >> /\ << >> \in Seq(ListItems) /\ Len(<< >>) = 0 /\ chosen = {}
  BY DEF FileInit
<1>2. SortOk
  <2>1. sort \in [column : ColumnNames, ascending : BOOLEAN]
    BY FileListAssumption DEF FileInit, ColumnNames
  <2> QED
    BY <2>1 DEF SortOk
<1> QED
  BY <1>1, <1>2 DEF ListInv, Distinct, NeighboursInOrder, CommandsGetWhatWasSelected

LEMMA SettingOk == \A s \in Sorts : s.column \in ColumnNames /\ s.ascending \in BOOLEAN
<1> SUFFICES ASSUME NEW s \in Sorts PROVE s.column \in ColumnNames /\ s.ascending \in BOOLEAN
  OBVIOUS
<1>1. s \in [column : ColumnNames, ascending : BOOLEAN]
  BY FileListAssumption DEF ColumnNames
<1> QED
  BY <1>1

\* A refresh: the rows are those it found, sorted; the selection is restored or lost.
LEMMA RefreshStep ==
    ASSUME ListInv, NEW f, Refresh(f)
    PROVE  ListInv'
<1>1. PICK read \in Disks :
          /\ status' = read
          /\ SortItems(Fill(read, f).rows) /\ chosen' \in {Fill(read, f).chosen, {}}
          /\ misled' = (misled \/ \E i \in chosen :
                                    i \in Found(read, f) /\ ~GetsRow(read[i], f))
  BY DEF Refresh
<1>2. sort' = sort /\ wanted' = wanted
  BY DEF Refresh
<1> DEFINE rows == Fill(read, f).rows
           sel == Fill(read, f).chosen
<1>3. /\ rows \in Seq(ListItems) /\ Distinct(rows)
      /\ \A i \in Range(rows) : i \in Found(read, f)
      /\ EachKeepsItsRow(read, f) => sel \subseteq chosen \cap Range(rows)
  BY FillFacts
<1>4. list' \in Rearranged(rows) /\ NeighboursInOrder' /\ chosen' \in {sel, {}}
  BY <1>1 DEF SortItems
<1> HIDE DEF rows, sel
<1>5. /\ list' \in Seq(ListItems) /\ Len(list') = Len(rows)
      /\ Range(list') = Range(rows)
      /\ Distinct(list')
  <2> DEFINE s == list'
  <2>1. s \in Rearranged(rows)
    BY <1>4
  <2> HIDE DEF s
  <2>2. s \in Seq(ListItems) /\ Len(s) = Len(rows) /\ Range(s) = Range(rows) /\ Distinct(s)
    BY <1>3, <2>1, RearrangedFacts
  <2> QED
    BY <2>2 DEF s
<1>6. ASSUME NEW n \in 1 .. Len(list') PROVE Present(list[n])'
  <2>1. list'[n] \in Range(list') /\ list'[n] \in ListItems
    BY <1>5 DEF Range
  <2>2. list'[n] \in Found(read, f)
    BY <1>3, <1>5, <2>1
  <2>3. read[list'[n]] # "absent"
    BY <2>2 DEF Found, ReportedBySvn
  <2>4. read[list'[n]] \in Statuses
    BY <2>1, FileListAssumption DEF Range
  <2> QED
    BY <1>1, <2>1, <2>3, <2>4 DEF Present
<1>7. ASSUME ~misled' PROVE chosen' \subseteq wanted' \cap Range(list')
  <2>1. ~misled /\ EachKeepsItsRow(read, f)
    BY <1>1, <1>7 DEF EachKeepsItsRow
  <2>2. chosen \subseteq wanted
    BY <2>1 DEF ListInv, CommandsGetWhatWasSelected
  <2>3. sel \subseteq chosen \cap Range(rows)
    BY <1>3, <2>1
  <2> QED
    BY <1>2, <1>4, <1>5, <2>2, <2>3
<1>8. SortOk'
  BY <1>2 DEF ListInv, SortOk
<1> QED
  BY <1>4, <1>5, <1>6, <1>7, <1>8 DEF ListInv, Distinct, CommandsGetWhatWasSelected

\* Another sorting: the same rows in another order.
LEMMA SortStep ==
    ASSUME ListInv, NEW s \in Sorts, SetSort(s)
    PROVE  ListInv'
<1>1. /\ sort' = s /\ UNCHANGED <<status, filter, wanted, misled>>
      /\ list' \in Rearranged(list) /\ NeighboursInOrder'
      /\ chosen' \in {chosen, {}}
  BY DEF SetSort, SortItems
<1>2. list \in Seq(ListItems) /\ \A n \in 1 .. Len(list) : Present(list[n])
  BY DEF ListInv
<1>3. /\ list' \in Seq(ListItems) /\ Len(list') = Len(list)
      /\ Range(list') = Range(list)
      /\ Distinct(list')
  <2> DEFINE new == list'
  <2>1. new \in Rearranged(list)
    BY <1>1
  <2> HIDE DEF new
  <2>2. new \in Seq(ListItems) /\ Len(new) = Len(list) /\ Range(new) = Range(list) /\ Distinct(new)
    BY <1>2, <2>1, RearrangedFacts DEF ListInv
  <2> QED
    BY <2>2 DEF new
<1>4. ASSUME NEW n \in 1 .. Len(list') PROVE Present(list[n])'
  <2>1. list'[n] \in Range(list)
    <3>1. n \in DOMAIN list'
      BY <1>3
    <3>2. list'[n] \in Range(list')
      BY <3>1 DEF Range
    <3> QED
      BY <1>3, <3>2
  <2>2. PICK m \in 1 .. Len(list) : list[m] = list'[n]
    BY <1>2, <2>1 DEF Range
  <2>3. Present(list'[n])
    BY <1>2, <2>2
  <2> QED
    BY <1>1, <2>3 DEF Present
<1>5. SortOk'
  BY <1>1, SettingOk DEF SortOk
<1>6. ASSUME ~misled' PROVE chosen' \subseteq wanted' \cap Range(list')
  <2>1. chosen \subseteq wanted \cap Range(list)
    BY <1>1, <1>6 DEF ListInv, CommandsGetWhatWasSelected
  <2> QED
    BY <1>1, <1>3, <2>1
<1> QED
  BY <1>1, <1>3, <1>4, <1>5, <1>6 DEF ListInv, Distinct, CommandsGetWhatWasSelected

\* What else the rows' order depends on stays.
LEMMA RowsStay ==
    ASSUME ListInv, UNCHANGED <<status, list, sort>>, CommandsGetWhatWasSelected'
    PROVE  ListInv'
<1>1. NeighboursInOrder'
  <2>1. ASSUME NEW c, NEW i, NEW j PROVE CompareColumn(c, i, j)' = CompareColumn(c, i, j)
    BY DEF CompareColumn
  <2>2. ASSUME NEW cs, NEW i, NEW j PROVE FirstDifference(cs, i, j)' = FirstDifference(cs, i, j)
    <3>1. {n \in DOMAIN cs : CompareColumn(cs[n], i, j) # 0}'
            = {n \in DOMAIN cs : CompareColumn(cs[n], i, j) # 0}
      BY <2>1
    <3> QED
      BY <2>1, <3>1 DEF FirstDifference
  <2>3. ASSUME NEW i, NEW j PROVE CompareItems(i, j)' = CompareItems(i, j)
    BY <2>2 DEF CompareItems
  <2> QED
    BY <2>3 DEF ListInv, NeighboursInOrder
<1> QED
  BY <1>1 DEF ListInv, Distinct, Present, SortOk

LEMMA ListInvStep == ListInv /\ [FileNext]_fileVars => ListInv'
<1> SUFFICES ASSUME ListInv, [FileNext]_fileVars PROVE ListInv'
  OBVIOUS
<1>1. CASE RefreshFileList
  BY <1>1, RefreshStep DEF RefreshFileList
<1>2. ASSUME NEW f \in Filters, SetFilter(f) PROVE ListInv'
  BY <1>2, RefreshStep DEF SetFilter
<1>3. ASSUME NEW s \in Sorts, SetSort(s) PROVE ListInv'
  BY <1>3, SortStep
<1>4. CASE RefreshFails
  <2>1. list' = << >> /\ chosen' = {} /\ UNCHANGED <<status, filter, sort, wanted, misled>>
    BY <1>4 DEF RefreshFails
  <2>2. << >> \in Seq(ListItems) /\ Len(<< >>) = 0
    OBVIOUS
  <2>3. SortOk'
    BY <2>1 DEF ListInv, SortOk
  <2>4. NeighboursInOrder'
    BY <2>1, <2>2 DEF NeighboursInOrder
  <2> QED
    BY <2>1, <2>2, <2>3, <2>4 DEF ListInv, Distinct, CommandsGetWhatWasSelected
<1>5. ASSUME NEW items \in SUBSET Range(list), UserSelects(items) PROVE ListInv'
  <2>1. CommandsGetWhatWasSelected'
    BY <1>5 DEF UserSelects, CommandsGetWhatWasSelected
  <2> QED
    BY <1>5, <2>1, RowsStay DEF UserSelects
<1>6. CASE UNCHANGED fileVars
  <2>1. CommandsGetWhatWasSelected'
    BY <1>6 DEF fileVars, ListInv, CommandsGetWhatWasSelected
  <2> QED
    BY <1>6, <2>1, RowsStay DEF fileVars
<1> QED
  BY <1>1, <1>2, <1>3, <1>4, <1>5, <1>6 DEF FileNext

\* RefreshFileList, GetStatusSel: a command gets only what the user selected.
THEOREM SelectionIsKept == FileSpec => []CommandsGetWhatWasSelected
<1>1. ListInv => CommandsGetWhatWasSelected
  BY DEF ListInv
<1> QED
  BY <1>1, ListInvInit, ListInvStep, PTL DEF FileSpec

\* Rows in order with their neighbours are all in order.
LEMMA AllInOrder ==
    ASSUME ListInv, NEW m \in 1 .. Len(list), NEW n \in 1 .. Len(list), m < n
    PROVE  ~Precedes(list[n], list[m])
<1>1. /\ Len(list) \in Nat
      /\ \A k \in 1 .. Len(list) : Present(list[k])
      /\ \A k, l \in 1 .. Len(list) : k # l => list[k] # list[l]
      /\ SortOk
  BY DEF ListInv, Distinct
<1>2. ASSUME NEW k \in 1 .. Len(list) - 1 PROVE ~Precedes(list[k + 1], list[k])
  <2>1. CompareItems(list[k], list[k + 1]) <= 0
    BY DEF ListInv, NeighboursInOrder
  <2>2. k \in 1 .. Len(list) /\ k + 1 \in 1 .. Len(list) /\ k # k + 1
    BY <1>1
  <2>3. Present(list[k]) /\ Present(list[k + 1]) /\ list[k] # list[k + 1]
    BY <1>1, <2>2
  <2>4. CompareItems(list[k], list[k + 1]) =
           IF Precedes(list[k], list[k + 1]) THEN -1
           ELSE IF Precedes(list[k + 1], list[k]) THEN 1 ELSE 0
    BY <1>1, <2>3, CompareIs
  <2> QED
    BY <1>1, <2>1, <2>3, <2>4, Order
<1> DEFINE N == n - m - 1
           T == {d \in 0 .. N : ~Precedes(list[m + 1 + d], list[m])}
<1>3. N \in Nat /\ m \in Nat /\ n \in Nat
  BY <1>1
<1>4. 0 \in T
  <2>1. m \in 1 .. Len(list) - 1 /\ m + 1 + 0 = m + 1 /\ 0 \in 0 .. N
    BY <1>1, <1>3
  <2> QED
    BY <1>2, <2>1
<1>5. ASSUME NEW d \in 0 .. N - 1, d \in T PROVE d + 1 \in T
  <2> DEFINE k == m + 1 + d
  <2>1. k \in 1 .. Len(list) - 1 /\ k \in 1 .. Len(list) /\ k + 1 \in 1 .. Len(list)
        /\ d + 1 \in 0 .. N /\ m + 1 + (d + 1) = k + 1
    BY <1>1, <1>3
  <2>2. ~Precedes(list[k], list[m])
    BY <1>5
  <2> HIDE DEF k
  <2>3. ~Precedes(list[k + 1], list[k])
    BY <1>2, <2>1
  <2>4. Present(list[m]) /\ Present(list[k]) /\ Present(list[k + 1])
    BY <1>1, <2>1
  <2>5. ~Precedes(list[k + 1], list[m])
    BY <1>1, <2>2, <2>3, <2>4, Order
  <2> QED
    BY <2>1, <2>5
<1>6. T = 0 .. N
  <2>1. T \in SUBSET (0 .. N)
    OBVIOUS
  <2> HIDE DEF T
  <2> QED
    BY <1>3, <1>4, <1>5, <2>1, Induction
<1>7. N \in T
  <2> HIDE DEF T, N
  <2> QED
    BY <1>3, <1>6
<1>8. m + 1 + N = n
  BY <1>3
<1>9. ~Precedes(list[m + 1 + N], list[m])
  BY <1>7
<1> QED
  BY <1>8, <1>9

\* CompareItems, SortItems: whatever column and direction, and whatever order
\* the sort leaves in which neighbours agree, any two rows are in order, the
\* folder itself before its folders and these before its files; and only names
\* that differ in nothing but case tie.
THEOREM RowsSorted == FileSpec => []RowsInOrder
<1>1. ListInv => RowsInOrder
  <2> SUFFICES ASSUME ListInv, NEW m \in DOMAIN list, NEW n \in DOMAIN list, m < n
               PROVE  /\ \/ CompareItems(list[m], list[n]) = -1
                         \/ CompareItems(list[m], list[n]) = 0 /\ Name[list[m]] = Name[list[n]]
                      /\ CompareItems(list[n], list[m]) = -CompareItems(list[m], list[n])
                      /\ IsDir(list[n]) => IsDir(list[m])
                      /\ list[n] # Dot
    BY DEF RowsInOrder
  <2>1. list \in Seq(ListItems) /\ DOMAIN list = 1 .. Len(list) /\ Len(list) \in Nat
    BY DEF ListInv
  <2>2. m \in 1 .. Len(list) /\ n \in 1 .. Len(list) /\ m # n
    BY <2>1
  <2>3. ~Precedes(list[n], list[m])
    BY <2>2, AllInOrder
  <2>4. Present(list[m]) /\ Present(list[n]) /\ list[m] # list[n] /\ SortOk
    BY <2>2 DEF ListInv, Distinct
  <2>5. CompareItems(list[m], list[n]) = IF Precedes(list[m], list[n]) THEN -1 ELSE 0
    BY <2>3, <2>4, CompareIs
  <2>6. CompareItems(list[n], list[m]) = IF Precedes(list[m], list[n]) THEN 1 ELSE 0
    BY <2>3, <2>4, CompareIs
  <2>7. ~Precedes(list[m], list[n]) => Name[list[m]] = Name[list[n]]
    BY <2>3, <2>4, Order
  <2>8. Class(list[m]) <= Class(list[n])
    BY <2>3 DEF Precedes, Class
  <2>9. IsDir(Dot)
    BY FileListAssumption DEF IsDir
  <2>10. IsDir(list[n]) => IsDir(list[m])
    BY <2>8, <2>9 DEF Class
  <2>11. list[n] # Dot
    BY <2>4, <2>8 DEF Class
  <2> QED
    BY <2>5, <2>6, <2>7, <2>10, <2>11
<1> QED
  BY <1>1, ListInvInit, ListInvStep, PTL DEF FileSpec
=============================================================================
