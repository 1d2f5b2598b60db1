-------------------------- MODULE BoardTree_proofs --------------------------
(***************************************************************************)
(* Proofs about SerialBoard and BoardTree.  First, what MoveCard's two     *)
(* shifts do to a table of any size, and the theorems about SerialBoard    *)
(* that follow.  Then BoardTree: boards come whole, columns follow those   *)
(* their request saw, trees are consistent, and the cards go on as         *)
(* SerialBoard says.                                                       *)
(***************************************************************************)
EXTENDS BoardTree, FiniteSetTheorems, WellFoundedInduction, TLAPS

\* Two rows are the same when their columns and positions are.
LEMMA RowEqual ==
  ASSUME NEW r \in Row, NEW s \in Row, r.col = s.col, r.pos = s.pos
  PROVE  r = s
  BY DEF Row

\* Step 1 keeps every position in range: only rows above another are lowered.
LEMMA TakeOutType ==
  ASSUME NEW rows \in [Cards -> Row], NEW from \in Row
  PROVE  TakeOut(rows, from) \in [Cards -> Row]
  <1> SUFFICES ASSUME NEW x \in Cards, AfterSource(rows[x], from)
               PROVE  Lowered(rows[x]) \in Row
    BY DEF TakeOut
  <1>1. rows[x].pos \in MinInt4 .. MaxInt4 /\ from.pos \in MinInt4 .. MaxInt4
    BY DEF Row, Int4
  <1>2. rows[x].pos - 1 \in MinInt4 .. MaxInt4
    BY <1>1, Int4Range DEF AfterSource
  <1> QED
    BY <1>2 DEF Lowered, Row, Int4

\* A move that fits keeps every position in range.
LEMMA MovedType ==
  ASSUME NEW rows \in [Cards -> Row], NEW c \in Cards, NEW to \in Targets,
         MoveFits(rows, c, to)
  PROVE  Moved(rows, c, to) \in [Cards -> Row]
  <1> DEFINE t == TakeOut(rows, rows[c])
  <1>1. t \in [Cards -> Row]
    BY TakeOutType
  <1>2. to \in Row
    BY DestInRange DEF Targets, Row
  <1>3. ASSUME NEW x \in Cards, FromGap(t[x], to)
        PROVE  Raised(t[x]) \in Row
    <2>1. t[x].pos \in MinInt4 .. MaxInt4 /\ t[x] \in Row
      BY <1>1 DEF Row, Int4
    <2>2. t[x].pos # MaxInt4
      BY <1>3 DEF MoveFits, RaiseOverflows
    <2>3. t[x].pos + 1 \in MinInt4 .. MaxInt4
      BY <2>1, <2>2, Int4Range
    <2> QED
      BY <2>1, <2>3 DEF Raised, Row, Int4
  <1>4. MakeGap(t, to) \in [Cards -> Row]
    BY <1>1, <1>3 DEF MakeGap
  <1> QED
    BY <1>2, <1>4 DEF Moved

\* Every operation keeps the table well typed.
LEMMA TypeStep == TypeOK /\ [Next]_cards => TypeOK'
  <1> SUFFICES ASSUME TypeOK, [Next]_cards PROVE TypeOK'
    OBVIOUS
  <1> USE DEF TypeOK
  <1>1. ASSUME NEW c \in Cards, NEW column \in Columns, CreateCard(c, column)
        PROVE  TypeOK'
    BY <1>1 DEF CreateCard, Row
  <1>2. ASSUME NEW c \in Cards, NEW to \in Targets, MoveCard(c, to)
        PROVE  TypeOK'
    BY <1>2, MovedType DEF MoveCard
  <1>3. ASSUME NEW c \in Cards, DeleteCard(c) PROVE TypeOK'
    BY <1>3, Int4Range DEF DeleteCard, GoneRow, Row, Int4
  <1>4. ASSUME NEW c \in Cards, NotFound(c) PROVE TypeOK'
    BY <1>4 DEF NotFound
  <1>5. CASE UNCHANGED cards
    BY <1>5
  <1> QED
    BY <1>1, <1>2, <1>3, <1>4, <1>5 DEF Next

\* The table is always well typed: in particular no position leaves int4.
THEOREM TypeCorrect == Spec => []TypeOK
  <1>1. Init => TypeOK
    BY DEF Init, Arrangements, TypeOK
  <1> QED
    BY <1>1, TypeStep, PTL DEF Spec
-----------------------------------------------------------------------------
\* Step 1 never puts two of the other rows in one place: the place a lowered
\* row takes from an unlowered one can only be the moved card's own.
LEMMA TakeOutSeparates ==
  ASSUME NEW rows \in [Cards -> Row], NEW c \in Cards, Unique(rows), Exists(rows[c]),
         NEW x \in Cards \ {c}, NEW y \in Cards \ {c},
         Exists(TakeOut(rows, rows[c])[x]),
         TakeOut(rows, rows[c])[x] = TakeOut(rows, rows[c])[y]
  PROVE  x = y
  <1> DEFINE t == TakeOut(rows, rows[c])
             f == rows[c]
             rx == rows[x]
             ry == rows[y]
  <1>1. rx \in Row /\ ry \in Row /\ f \in Row
    OBVIOUS
  <1>2. rx.pos \in Int /\ ry.pos \in Int /\ f.pos \in Int
    BY <1>1, Int4Range DEF Row, Int4
  <1>3. /\ t[x].col = rx.col
        /\ t[x].pos = IF AfterSource(rx, f) THEN rx.pos - 1 ELSE rx.pos
    BY <1>1 DEF TakeOut, Lowered, Row
  <1>4. /\ t[y].col = ry.col
        /\ t[y].pos = IF AfterSource(ry, f) THEN ry.pos - 1 ELSE ry.pos
    BY <1>1 DEF TakeOut, Lowered, Row
  <1>5. rx.col = ry.col /\ t[x].pos = t[y].pos /\ rx.col \in Columns
    BY <1>3, <1>4 DEF Exists
  <1>6. rx.pos # ry.pos => (rx.pos = f.pos \/ ry.pos = f.pos) /\ rx.col = f.col
    BY <1>2, <1>3, <1>4, <1>5 DEF AfterSource
  <1>7. rx # f /\ ry # f
    BY <1>5 DEF Unique, Exists
  <1>8. rx.pos = ry.pos
    BY <1>1, <1>5, <1>6, <1>7, RowEqual
  <1> HIDE DEF rx, ry, f, t
  <1>9. rx = ry
    BY <1>1, <1>5, <1>8, RowEqual
  <1> QED
    BY <1>5, <1>9 DEF Unique, Exists, rx, ry

\* Step 2 opens a place nobody is in and keeps the others apart.
LEMMA MovedUnique ==
  ASSUME NEW rows \in [Cards -> Row], NEW c \in Cards, NEW to \in Targets,
         Unique(rows), Exists(rows[c])
  PROVE  Unique(Moved(rows, c, to))
  <1> DEFINE t == TakeOut(rows, rows[c])
             m == Moved(rows, c, to)
  <1>1. t \in [Cards -> Row]
    BY TakeOutType
  <1>2. to \in Row /\ to.pos \in Int
    <2>1. to \in Row
      BY DestInRange DEF Targets, Row
    <2> QED
      BY <2>1, Int4Range DEF Row, Int4
  <1>3. \A x \in Cards : t[x] \in Row /\ t[x].pos \in Int
    BY <1>1, Int4Range DEF Row, Int4
  <1>4. m[c] = to
    BY DEF Moved, MakeGap
  <1>5. \A x \in Cards \ {c} :
          /\ m[x].col = t[x].col
          /\ m[x].pos = IF FromGap(t[x], to) THEN t[x].pos + 1 ELSE t[x].pos
    BY <1>3 DEF Moved, MakeGap, Raised, Row
  <1> HIDE DEF t, m
  <1>6. ASSUME NEW x \in Cards \ {c} PROVE m[x] # m[c]
    <2>1. m[x].col = to.col => m[x].pos # to.pos
      BY <1>2, <1>3, <1>5 DEF FromGap
    <2> QED
      BY <2>1, <1>4
  <1>7. ASSUME NEW x \in Cards \ {c}, NEW y \in Cards \ {c}, Exists(m[x]), m[x] = m[y]
        PROVE  x = y
    <2>1. t[x].col = t[y].col /\ t[x].col \in Columns
      BY <1>5, <1>7 DEF Exists
    <2>2. t[x].pos = t[y].pos
      BY <1>2, <1>3, <1>5, <1>7, <2>1 DEF FromGap
    <2>3. t[x] = t[y]
      BY <1>3, <2>1, <2>2, RowEqual
    <2> QED
      BY <2>1, <2>3, TakeOutSeparates DEF Exists, t
  <1>8. \A x, y \in Cards : Exists(m[x]) /\ m[x] = m[y] => x = y
    BY <1>6, <1>7
  <1> QED
    BY <1>8 DEF Unique, m

\* A new card goes where no card of its column is.
LEMMA CreatedUnique ==
  ASSUME TypeOK, UniquePositions, NEW c \in Cards, NEW column \in Columns, CreateCard(c, column)
  PROVE  UniquePositions'
  <1> USE DEF UniquePositions
  <1>1. PICK p \in Int4 : /\ IsNextPos(cards, column, p)
                          /\ cards' = [cards EXCEPT ![c] = [col |-> column, pos |-> p]]
    BY DEF CreateCard
  <1>2. \A x \in Cards : cards[x] # [col |-> column, pos |-> p]
    <2> SUFFICES ASSUME NEW x \in Cards, cards[x] = [col |-> column, pos |-> p]
                 PROVE  FALSE
      OBVIOUS
    <2>1. cards[x].col = column /\ cards[x].pos = p
      OBVIOUS
    <2>2. p \in Int
      BY Int4Range DEF Int4
    <2> QED
      BY <1>1, <2>1, <2>2 DEF IsNextPos
  <1> QED
    BY <1>1, <1>2 DEF Unique, TypeOK

\* No two cards ever share a place, for any number of cards and columns and
\* whatever positions are asked for.
THEOREM UniqueAlways == Spec => []UniquePositions
  <1> USE DEF UniquePositions
  <1>1. Init => UniquePositions
    BY DEF Init, Arrangements, Dense
  <1>2. TypeOK /\ UniquePositions /\ [Next]_cards => UniquePositions'
    <2> SUFFICES ASSUME TypeOK, UniquePositions, [Next]_cards PROVE UniquePositions'
      OBVIOUS
    <2>1. ASSUME NEW c \in Cards, NEW column \in Columns, CreateCard(c, column)
          PROVE  UniquePositions'
      BY <2>1, CreatedUnique
    <2>2. ASSUME NEW c \in Cards, NEW to \in Targets, MoveCard(c, to)
          PROVE  UniquePositions'
      BY <2>2, MovedUnique DEF MoveCard, TypeOK
    <2>3. ASSUME NEW c \in Cards, DeleteCard(c) PROVE UniquePositions'
      <3>1. ~Exists(GoneRow)
        BY Markers DEF Exists, GoneRow
      <3> QED
        BY <2>3, <3>1 DEF DeleteCard, Unique, TypeOK
    <2>4. ASSUME NEW c \in Cards, NotFound(c) PROVE UniquePositions'
      BY <2>4 DEF NotFound
    <2>5. CASE UNCHANGED cards
      BY <2>5
    <2> QED
      BY <2>1, <2>2, <2>3, <2>4, <2>5 DEF Next
  <1> QED
    BY <1>1, <1>2, TypeCorrect, PTL DEF Spec
-----------------------------------------------------------------------------
\* A move keeps the order of the other cards of every column.
LEMMA MovedKeepsOrder ==
  ASSUME NEW rows \in [Cards -> Row], NEW c \in Cards, NEW to \in Targets,
         Unique(rows), Exists(rows[c]),
         NEW x \in Cards \ {c}, NEW y \in Cards \ {c}
  PROVE  LET m == Moved(rows, c, to)
         IN  /\ m[x].col = rows[x].col
             /\ rows[x].col = rows[y].col /\ rows[x].pos < rows[y].pos
                  => m[x].pos < m[y].pos
  <1> DEFINE t == TakeOut(rows, rows[c])
             m == Moved(rows, c, to)
             f == rows[c]
  <1>1. \A z \in Cards : rows[z] \in Row /\ rows[z].pos \in Int
    BY Int4Range DEF Row, Int4
  <1>2. \A z \in Cards :
          /\ t[z] \in Row /\ t[z].pos \in Int
          /\ t[z].col = rows[z].col
          /\ t[z].pos = IF AfterSource(rows[z], f) THEN rows[z].pos - 1 ELSE rows[z].pos
    <2>1. t \in [Cards -> Row]
      BY TakeOutType
    <2>2. \A z \in Cards : t[z] \in Row /\ t[z].pos \in Int
      BY <2>1, Int4Range DEF Row, Int4
    <2>3. \A z \in Cards : t[z] = IF AfterSource(rows[z], f) THEN Lowered(rows[z]) ELSE rows[z]
      BY DEF TakeOut
    <2>4. \A r \in Row : Lowered(r).col = r.col /\ Lowered(r).pos = r.pos - 1
      BY DEF Lowered, Row
    <2> HIDE DEF t, f
    <2> QED
      BY <1>1, <2>2, <2>3, <2>4
  <1>3. \A z \in Cards \ {c} :
          /\ m[z].col = t[z].col
          /\ m[z].pos = IF FromGap(t[z], to) THEN t[z].pos + 1 ELSE t[z].pos
    <2>1. \A z \in Cards \ {c} : m[z] = IF FromGap(t[z], to) THEN Raised(t[z]) ELSE t[z]
      BY DEF Moved, MakeGap
    <2>2. \A r \in Row : Raised(r).col = r.col /\ Raised(r).pos = r.pos + 1
      BY DEF Raised, Row
    <2> QED
      BY <1>2, <2>1, <2>2
  <1>4. rows[x].col = f.col => rows[x].pos # f.pos
    BY <1>1, RowEqual DEF Unique, Exists
  <1>5. to.pos \in Int
    <2>1. to \in Row
      BY DestInRange DEF Targets, Row
    <2> QED
      BY <2>1, Int4Range DEF Row, Int4
  <1> HIDE DEF t, m, f
  <1>6. ASSUME rows[x].col = rows[y].col, rows[x].pos < rows[y].pos
        PROVE  m[x].pos < m[y].pos
    <2>1. t[x].pos < t[y].pos
      <3>1. f.pos \in Int
        BY <1>1 DEF f
      <3> QED
        BY <1>1, <1>2, <1>4, <1>6, <3>1 DEF AfterSource
    <2> QED
      BY <1>2, <1>3, <1>5, <1>6, <2>1 DEF FromGap
  <1> QED
    BY <1>2, <1>3, <1>6 DEF m

\* No operation on a card reorders the other cards of a column or carries one
\* of them to another column.
THEOREM OrderKept == Spec => OthersKeepOrder
  <1> DEFINE Kept(c) == \A x, y \in Cards \ {c} :
                /\ cards'[x].col = cards[x].col
                /\ cards[x].col = cards[y].col /\ cards[x].pos < cards[y].pos
                     => cards'[x].pos < cards'[y].pos
  <1>1. TypeOK /\ UniquePositions /\ [Next]_cards => [\E c \in Cards : Kept(c)]_cards
    <2> SUFFICES ASSUME TypeOK, UniquePositions, NEW c \in Cards,
                        \/ \E column \in Columns : CreateCard(c, column)
                        \/ \E to \in Targets : MoveCard(c, to)
                        \/ DeleteCard(c)
                        \/ NotFound(c)
                 PROVE  Kept(c)
      BY DEF Next
    <2>1. CASE \E column \in Columns : CreateCard(c, column)
      BY <2>1 DEF CreateCard, TypeOK
    <2>2. CASE \E to \in Targets : MoveCard(c, to)
      BY <2>2, MovedKeepsOrder DEF MoveCard, TypeOK, UniquePositions
    <2>3. CASE DeleteCard(c)
      BY <2>3 DEF DeleteCard, TypeOK
    <2>4. CASE NotFound(c)
      BY <2>4 DEF NotFound
    <2> QED
      BY <2>1, <2>2, <2>3, <2>4
  <1> QED
    BY <1>1, TypeCorrect, UniqueAlways, PTL DEF Spec, OthersKeepOrder
-----------------------------------------------------------------------------
(***************************************************************************)
(* Numbers without holes                                                   *)
(***************************************************************************)
LEMMA SmallestOf ==
  ASSUME NEW S, S \subseteq Nat, S # {}
  PROVE  \E n \in S : \A m \in S : n <= m
  <1> DEFINE R == {ss \in Nat \X Nat : ss[1] < ss[2]}
  <1>1. IsWellFoundedOn(R, Nat)
    BY NatLessThanWellFounded DEF OpToRel
  <1> HIDE DEF R
  <1>2. PICK n \in S : \A m \in S : ~ (<<m, n>> \in R)
    BY <1>1, WFMin
  <1>3. \A m \in S : ~(m < n)
    BY <1>2 DEF R
  <1> QED
    BY <1>3

\* Distinct numbers of which each but 0 has its predecessor among them are
\* 0, 1, 2, ... up to how many they are.
LEMMA NoneSkipped ==
  ASSUME NEW S, IsFiniteSet(S), NEW f \in [S -> Nat],
         \A x, y \in S : f[x] = f[y] => x = y,
         \A x \in S : f[x] > 0 => \E y \in S : f[y] = f[x] - 1,
         NEW k \in Nat, k < Cardinality(S)
  PROVE  \E x \in S : f[x] = k
  <1> SUFFICES ASSUME \A x \in S : f[x] # k PROVE FALSE
    OBVIOUS
  <1>1. \A x \in S : f[x] < k
    <2> DEFINE T == {f[x] : x \in {y \in S : f[y] > k}}
    <2> SUFFICES ASSUME NEW z \in S, f[z] > k PROVE FALSE
      OBVIOUS
    <2>1. T \subseteq Nat /\ f[z] \in T
      OBVIOUS
    <2>2. PICK n \in T : \A m \in T : n <= m
      <3> HIDE DEF T
      <3> QED
        BY <2>1, SmallestOf
    <2>3. PICK x \in S : f[x] = n /\ f[x] > k
      OBVIOUS
    <2>4. PICK y \in S : f[y] = f[x] - 1
      BY <2>3
    <2>5. f[y] > k
      BY <2>3, <2>4
    <2>6. f[y] \in T
      BY <2>5
    <2>7. n <= f[y] /\ f[x] \in Nat /\ f[y] \in Nat
      BY <2>2, <2>6
    <2> QED
      BY <2>3, <2>4, <2>7
  <1>2. f \in Injection(S, 0 .. k - 1)
    <2>1. f \in [S -> 0 .. k - 1]
      BY <1>1
    <2> QED
      BY <2>1 DEF Injection, IsInjective
  <1>3. IsFiniteSet(0 .. k - 1) /\ Cardinality(0 .. k - 1) = k
    BY FS_Interval
  <1>4. Cardinality(S) <= k
    BY <1>2, <1>3, FS_Injection
  <1> QED
    BY <1>4, FS_CardinalityType

\* Of such numbers, n are below n.
LEMMA AsManyBelow ==
  ASSUME NEW S, IsFiniteSet(S), NEW f \in [S -> Nat],
         \A x, y \in S : f[x] = f[y] => x = y,
         \A x \in S : f[x] > 0 => \E y \in S : f[y] = f[x] - 1,
         NEW n \in 0 .. Cardinality(S)
  PROVE  Cardinality({x \in S : f[x] < n}) = n
  <1> DEFINE B == {x \in S : f[x] < n}
             g == [x \in B |-> f[x]]
  <1>1. Cardinality(S) \in Nat
    BY FS_CardinalityType
  <1>2. g \in Injection(B, 0 .. n - 1)
    BY <1>1 DEF Injection, IsInjective
  <1>3. \A k \in 0 .. n - 1 : \E x \in B : g[x] = k
    <2> SUFFICES ASSUME NEW k \in 0 .. n - 1 PROVE \E x \in B : g[x] = k
      OBVIOUS
    <2>1. PICK x \in S : f[x] = k
      BY <1>1, NoneSkipped
    <2> QED
      BY <1>1, <2>1
  <1>4. g \in Surjection(B, 0 .. n - 1)
    BY <1>2, <1>3 DEF Injection, Surjection
  <1>5. IsFiniteSet(0 .. n - 1) /\ Cardinality(0 .. n - 1) = n
    <2>1. n \in Nat
      BY <1>1
    <2> QED
      BY <2>1, FS_Interval
  <1> HIDE DEF B, g
  <1>6. Cardinality(B) = n
    BY <1>2, <1>4, <1>5, FS_Injection
  <1> QED
    BY <1>6 DEF B
-----------------------------------------------------------------------------
(***************************************************************************)
(* Holes and drop indexes of SerialBoard                                   *)
(***************************************************************************)
LEMMA TakenOut ==
  ASSUME NEW rows \in [Cards -> Row], NEW from \in Row, NEW x \in Cards
  PROVE  LET t == TakeOut(rows, from)[x]
         IN  /\ t \in Row /\ t.pos \in Int /\ t.col = rows[x].col
             /\ t.pos = IF AfterSource(rows[x], from) THEN rows[x].pos - 1 ELSE rows[x].pos
  <1>1. TakeOut(rows, from)[x] \in Row
    BY TakeOutType
  <1>2. TakeOut(rows, from)[x] = IF AfterSource(rows[x], from) THEN Lowered(rows[x]) ELSE rows[x]
    BY DEF TakeOut
  <1> QED
    BY <1>1, <1>2, Int4Range DEF Lowered, Row, Int4

\* A table without holes, field by field.
LEMMA PlaceBefore ==
  ASSUME NEW rows \in [Cards -> Row], Dense(rows), NEW x \in Cards, Exists(rows[x])
  PROVE  /\ rows[x].pos >= 0
         /\ rows[x].pos > 0 => \E y \in Cards :
              rows[y].col = rows[x].col /\ rows[y].pos = rows[x].pos - 1
  <1>1. rows[x] \in Row /\ rows[x].pos \in Int
    BY Int4Range DEF Row, Int4
  <1>2. \A r \in Row : Lowered(r).col = r.col /\ Lowered(r).pos = r.pos - 1
    BY DEF Lowered, Row
  <1>3. /\ rows[x].pos >= 0
        /\ rows[x].pos > 0 => \E y \in Cards : rows[y] = Lowered(rows[x])
    BY Zenon DEF Dense, Lowered
  <1> QED
    BY <1>1, <1>2, <1>3

\* Taking a card out of a table without holes leaves none among the others.
LEMMA OthersDense ==
  ASSUME NEW rows \in [Cards -> Row], NEW c \in Cards, Dense(rows), Exists(rows[c]),
         NEW x \in Cards \ {c}, Exists(rows[x])
  PROVE  LET t == TakeOut(rows, rows[c])
         IN  /\ t[x].pos >= 0
             /\ t[x].pos > 0 => \E y \in Cards \ {c} :
                  t[y].col = t[x].col /\ t[y].pos = t[x].pos - 1
  <1> DEFINE t == TakeOut(rows, rows[c])
             from == rows[c]
  <1>1. \A z \in Cards :
          /\ rows[z] \in Row /\ rows[z].pos \in Int /\ t[z].pos \in Int /\ t[z].col = rows[z].col
          /\ t[z].pos = IF AfterSource(rows[z], from) THEN rows[z].pos - 1 ELSE rows[z].pos
    BY TakenOut, Int4Range DEF Row, Int4
  <1>2. ASSUME NEW z \in Cards, Exists(rows[z])
        PROVE  /\ rows[z].pos >= 0
               /\ rows[z].pos > 0 => \E y \in Cards :
                    rows[y].col = rows[z].col /\ rows[y].pos = rows[z].pos - 1
    BY <1>2, PlaceBefore
  <1>3. rows[x].col = from.col => rows[x].pos # from.pos
    BY <1>1, RowEqual DEF Dense, Unique, Exists
  <1> HIDE DEF t
  <1>4. CASE AfterSource(rows[x], from)
    <2>1. /\ rows[x].col = from.col /\ rows[x].pos > from.pos /\ from.pos >= 0
          /\ t[x].pos = rows[x].pos - 1
      BY <1>1, <1>2, <1>4 DEF AfterSource
    <2>2. PICK y \in Cards : rows[y].col = from.col /\ rows[y].pos = rows[x].pos - 1
      BY <1>1, <1>2, <2>1
    <2>3. CASE rows[y].pos > from.pos
      <3>1. AfterSource(rows[y], from) /\ y # c
        BY <1>1, <2>2, <2>3 DEF AfterSource
      <3> QED
        BY <1>1, <2>1, <2>2, <3>1 DEF t
    <2>4. CASE rows[y].pos <= from.pos
      <3>1. t[x].pos = from.pos
        BY <1>1, <2>1, <2>2, <2>4
      <3>2. ASSUME t[x].pos > 0
            PROVE  \E z \in Cards \ {c} : t[z].col = t[x].col /\ t[z].pos = t[x].pos - 1
        <4>1. PICK z \in Cards : rows[z].col = from.col /\ rows[z].pos = from.pos - 1
          BY <1>2, <3>1, <3>2
        <4>2. z # c /\ ~AfterSource(rows[z], from)
          BY <1>1, <4>1 DEF AfterSource
        <4> QED
          BY <1>1, <2>1, <3>1, <4>1, <4>2
      <3> QED
        BY <1>1, <2>1, <3>1, <3>2 DEF t
    <2> QED
      BY <1>1, <2>2, <2>3, <2>4
  <1>5. CASE ~AfterSource(rows[x], from)
    <2>1. t[x].pos = rows[x].pos /\ rows[x].pos >= 0
      BY <1>1, <1>2, <1>5
    <2>2. ASSUME t[x].pos > 0
          PROVE  \E y \in Cards \ {c} : t[y].col = t[x].col /\ t[y].pos = t[x].pos - 1
      <3>1. PICK y \in Cards : rows[y].col = rows[x].col /\ rows[y].pos = rows[x].pos - 1
        BY <1>2, <2>1, <2>2
      <3>2. y # c /\ ~AfterSource(rows[y], from)
        BY <1>1, <1>3, <1>5, <3>1 DEF AfterSource
      <3> QED
        BY <1>1, <2>1, <3>1, <3>2
    <2> QED
      BY <2>1, <2>2 DEF t
  <1> QED
    BY <1>4, <1>5

\* Once a card is out of a table without holes, n of the others in a column are below
\* n, and the place under n is taken, for every drop index n.
LEMMA PlacesBelow ==
  ASSUME NEW rows \in [Cards -> Row], NEW c \in Cards, Dense(rows), Exists(rows[c]),
         NEW column \in Columns, NEW n \in 0 .. Cardinality(OthersIn(rows, c, column))
  PROVE  LET t == TakeOut(rows, rows[c])
         IN  /\ n \in Nat
             /\ Cardinality({x \in OthersIn(rows, c, column) : t[x].pos < n}) = n
             /\ n > 0 => \E x \in OthersIn(rows, c, column) : t[x].pos = n - 1
  <1> DEFINE t == TakeOut(rows, rows[c])
             O == OthersIn(rows, c, column)
             f == [x \in O |-> t[x].pos]
  <1>1. \A x \in O : x \in Cards \ {c} /\ rows[x].col = column /\ Exists(rows[x])
    BY DEF OthersIn, Exists
  <1>2. \A x \in O : t[x] \in Row /\ t[x].pos \in Int /\ t[x].col = column
    BY <1>1, TakenOut
  <1>3. \A x \in O : t[x].pos >= 0 /\ t[x].pos \in Nat /\ t[x].pos \in 0 .. MaxInt4
    <2> SUFFICES ASSUME NEW x \in O
                 PROVE  t[x].pos >= 0 /\ t[x].pos \in Nat /\ t[x].pos \in 0 .. MaxInt4
      OBVIOUS
    <2>1. t[x].pos >= 0
      BY <1>1, OthersDense
    <2>2. t[x].pos \in MinInt4 .. MaxInt4
      BY <1>2 DEF Row, Int4
    <2> HIDE DEF t
    <2> QED
      BY <2>1, <2>2, Int4Range
  <1>4. \A x, y \in O : f[x] = f[y] => x = y
    <2> SUFFICES ASSUME NEW x \in O, NEW y \in O, t[x].pos = t[y].pos PROVE x = y
      OBVIOUS
    <2>1. t[x] = t[y] /\ Exists(t[x])
      BY <1>2, RowEqual DEF Exists
    <2> QED
      BY <1>1, <2>1, TakeOutSeparates DEF Dense
  <1>5. \A x \in O : f[x] > 0 => \E y \in O : f[y] = f[x] - 1
    <2> SUFFICES ASSUME NEW x \in O, t[x].pos > 0 PROVE \E y \in O : t[y].pos = t[x].pos - 1
      OBVIOUS
    <2>1. PICK y \in Cards \ {c} : t[y].col = t[x].col /\ t[y].pos = t[x].pos - 1
      BY <1>1, OthersDense
    <2>2. rows[y].col = column
      BY <1>2, <2>1, TakenOut
    <2> QED
      BY <2>1, <2>2 DEF OthersIn
  <1> HIDE DEF t, O
  <1>6. f \in [O -> Nat] /\ f \in Injection(O, 0 .. MaxInt4)
    BY <1>3, <1>4 DEF Injection, IsInjective
  <1>7. IsFiniteSet(O)
    <2>1. IsFiniteSet(0 .. MaxInt4)
      BY FS_Interval, Int4Range
    <2> QED
      BY <1>6, <2>1, FS_Injection
  <1>8. Cardinality(O) \in Nat /\ n \in 0 .. Cardinality(O)
    BY <1>7, FS_CardinalityType DEF O
  <1> HIDE DEF f
  <1>9. Cardinality({x \in O : f[x] < n}) = n
    BY <1>4, <1>5, <1>6, <1>7, <1>8, AsManyBelow
  <1>10. n > 0 => \E x \in O : f[x] = n - 1
    <2>1. n > 0 => n - 1 \in Nat /\ n - 1 < Cardinality(O)
      BY <1>8
    <2> QED
      BY <1>4, <1>5, <1>6, <1>7, <2>1, NoneSkipped
  <1>11. {x \in O : f[x] < n} = {x \in O : t[x].pos < n}
    BY DEF f
  <1>12. n > 0 => \E x \in O : t[x].pos = n - 1
    BY <1>10 DEF f
  <1>13. Cardinality({x \in O : t[x].pos < n}) = n
    BY <1>9, <1>11
  <1> QED
    BY <1>8, <1>12, <1>13 DEF O, t

\* Where a move leaves the other cards.
LEMMA MovedOthers ==
  ASSUME NEW rows \in [Cards -> Row], NEW c \in Cards, NEW to \in Targets,
         NEW x \in Cards \ {c}
  PROVE  LET t == TakeOut(rows, rows[c])[x]
             m == Moved(rows, c, to)[x]
         IN  /\ m.col = t.col /\ t.col = rows[x].col /\ t.pos \in Int
             /\ m.pos = IF t.col = to.col /\ t.pos >= to.pos THEN t.pos + 1 ELSE t.pos
  <1> DEFINE t == TakeOut(rows, rows[c])[x]
             m == Moved(rows, c, to)[x]
  <1>1. t \in Row /\ t.pos \in Int /\ t.col = rows[x].col
    BY TakenOut
  <1>2. m = IF FromGap(t, to) THEN Raised(t) ELSE t
    BY DEF Moved, MakeGap
  <1> HIDE DEF t, m
  <1>3. /\ m.col = t.col
        /\ m.pos = IF t.col = to.col /\ t.pos >= to.pos THEN t.pos + 1 ELSE t.pos
    BY <1>1, <1>2 DEF FromGap, Raised, Row
  <1> QED
    BY <1>1, <1>3 DEF t, m

\* A card dropped at an index the column has leaves no hole, and fills the gap.
LEMMA DroppedDense ==
  ASSUME NEW rows \in [Cards -> Row], NEW c \in Cards, NEW to \in Targets,
         Dense(rows), Exists(rows[c]), MoveFits(rows, c, to), IsDropIndex(rows, c, to)
  PROVE  Dense(Moved(rows, c, to))
  <1> DEFINE t == TakeOut(rows, rows[c])
             m == Moved(rows, c, to)
             O == OthersIn(rows, c, to.col)
  <1>1. to.col \in Columns /\ to.pos \in 0 .. Cardinality(O)
    BY DEF Targets, IsDropIndex
  <1>2. to.pos \in Nat /\ (to.pos > 0 => \E x \in O : t[x].pos = to.pos - 1)
    <2> DEFINE column == to.col
               n == to.pos
    <2>1. column \in Columns /\ n \in 0 .. Cardinality(OthersIn(rows, c, column))
      BY <1>1
    <2> HIDE DEF column, n
    <2>2. n \in Nat /\ (n > 0 => \E x \in OthersIn(rows, c, column) : t[x].pos = n - 1)
      BY <2>1, PlacesBelow
    <2> QED
      BY <2>2 DEF column, n
  <1>3. m \in [Cards -> Row] /\ Unique(m) /\ m[c] = to
    <2>1. m[c] = to
      BY DEF Moved, MakeGap
    <2> QED
      BY <2>1, MovedType, MovedUnique DEF Dense
  <1>4. \A x \in Cards \ {c} :
          /\ m[x].col = t[x].col /\ t[x].col = rows[x].col /\ t[x].pos \in Int
          /\ m[x].pos = IF t[x].col = to.col /\ t[x].pos >= to.pos THEN t[x].pos + 1 ELSE t[x].pos
    BY MovedOthers
  <1>5. \A x \in Cards \ {c} : Exists(rows[x]) =>
          /\ t[x].pos >= 0
          /\ t[x].pos > 0 => \E y \in Cards \ {c} :
               t[y].col = t[x].col /\ t[y].pos = t[x].pos - 1
    BY OthersDense
  <1>6. \A x \in O : x \in Cards \ {c} /\ t[x].col = to.col
    <2> SUFFICES ASSUME NEW x \in O PROVE x \in Cards \ {c} /\ t[x].col = to.col
      OBVIOUS
    <2>1. x \in Cards \ {c} /\ rows[x].col = to.col
      BY DEF OthersIn
    <2> HIDE DEF t
    <2> QED
      BY <1>4, <2>1
  <1> HIDE DEF t, m, O
  <1>7. ASSUME NEW x \in Cards, Exists(m[x])
        PROVE  /\ m[x].pos >= 0
               /\ m[x].pos > 0 => \E y \in Cards :
                    m[y].col = m[x].col /\ m[y].pos = m[x].pos - 1
    <2>1. CASE x = c
      <3>1. ASSUME to.pos > 0
            PROVE  \E y \in Cards : m[y].col = to.col /\ m[y].pos = to.pos - 1
        <4>1. PICK y \in O : t[y].pos = to.pos - 1
          BY <1>2, <3>1
        <4>2. y \in Cards \ {c} /\ t[y].col = to.col /\ ~(t[y].pos >= to.pos)
          BY <1>2, <1>6, <4>1
        <4> QED
          BY <1>4, <4>1, <4>2
      <3> QED
        BY <1>2, <1>3, <2>1, <3>1
    <2>2. CASE x # c
      <3>1. Exists(rows[x])
        BY <1>4, <1>7, <2>2 DEF Exists
      <3>2. t[x].pos \in Int /\ t[x].pos >= 0 /\ m[x].col = t[x].col
        BY <1>4, <1>5, <2>2, <3>1
      <3>3. CASE t[x].col = to.col /\ t[x].pos = to.pos
        <4>1. m[x].pos = to.pos + 1
          BY <1>4, <2>2, <3>3
        <4>2. m[c].col = m[x].col /\ m[c].pos = m[x].pos - 1
          BY <1>2, <1>3, <3>2, <3>3, <4>1
        <4> QED
          BY <1>2, <4>1, <4>2
      <3>4. CASE ~(t[x].col = to.col /\ t[x].pos = to.pos)
        <4>1. m[x].pos >= 0
          BY <1>4, <2>2, <3>2
        <4>2. ASSUME m[x].pos > 0
              PROVE  \E y \in Cards : m[y].col = m[x].col /\ m[y].pos = m[x].pos - 1
          <5>1. t[x].pos > 0
            BY <1>2, <1>4, <2>2, <3>2, <3>4, <4>2
          <5>2. PICK y \in Cards \ {c} : t[y].col = t[x].col /\ t[y].pos = t[x].pos - 1
            BY <1>5, <2>2, <3>1, <5>1
          <5>3. m[y].col = m[x].col /\ m[y].pos = m[x].pos - 1
            BY <1>2, <1>4, <2>2, <3>2, <3>4, <5>2
          <5> QED
            BY <5>3
        <4> QED
          BY <4>1, <4>2
      <3> QED
        BY <3>3, <3>4
    <2> QED
      BY <2>1, <2>2
  <1>8. ASSUME NEW x \in Cards, NEW y \in Cards, m[y].col = m[x].col, m[y].pos = m[x].pos - 1
        PROVE  m[y] = [m[x] EXCEPT !.pos = @ - 1]
    BY <1>3, <1>8 DEF Row
  <1>9. Dense(m)
    BY <1>3, <1>7, <1>8 DEF Dense
  <1> QED
    BY <1>9 DEF m

\* A new card goes right after the last one of its column.
LEMMA CreatedDense ==
  ASSUME TypeOK, Dense(cards), NEW c \in Cards, NEW column \in Columns, CreateCard(c, column)
  PROVE  Dense(cards')
  <1>1. PICK p \in Int4 : /\ IsNextPos(cards, column, p)
                          /\ cards' = [cards EXCEPT ![c] = [col |-> column, pos |-> p]]
    BY DEF CreateCard
  <1>2. /\ cards'[c].col = column /\ cards'[c].pos = p
        /\ \A x \in Cards \ {c} : cards'[x] = cards[x]
    BY <1>1 DEF TypeOK
  <1>3. ~Exists(cards[c]) /\ p \in Int /\ \A x \in Cards : cards[x].pos \in Int
    BY Markers, Int4Range DEF CreateCard, Exists, UnbornRow, TypeOK, Row, Int4
  <1>4. ASSUME NEW x \in Cards, Exists(cards[x])
        PROVE  /\ cards[x].pos >= 0
               /\ cards[x].pos > 0 => \E y \in Cards \ {c} :
                    cards[y].col = cards[x].col /\ cards[y].pos = cards[x].pos - 1
    <2>1. /\ cards[x].pos >= 0
          /\ cards[x].pos > 0 => \E y \in Cards :
               cards[y].col = cards[x].col /\ cards[y].pos = cards[x].pos - 1
      BY <1>4, PlaceBefore DEF TypeOK
    <2> QED
      BY <1>3, <1>4, <2>1 DEF Exists
  <1>5. p >= 0 /\ (p > 0 => \E y \in Cards \ {c} : cards[y].col = column /\ cards[y].pos = p - 1)
    <2>1. CASE p = 0
      BY <2>1
    <2>2. CASE p # 0
      <3>1. PICK y \in Cards : cards[y].col = column /\ p = cards[y].pos + 1
        BY <1>1, <2>2 DEF IsNextPos
      <3>2. Exists(cards[y]) /\ y # c
        BY <1>3, <3>1 DEF Exists
      <3> QED
        BY <1>3, <1>4, <3>1, <3>2
    <2> QED
      BY <2>1, <2>2
  <1>6. ASSUME NEW x \in Cards, Exists(cards'[x])
        PROVE  /\ cards'[x].pos >= 0
               /\ cards'[x].pos > 0 => \E y \in Cards :
                    cards'[y] = [cards'[x] EXCEPT !.pos = @ - 1]
    <2>1. cards'[x].pos >= 0
      BY <1>2, <1>4, <1>5, <1>6
    <2>2. ASSUME cards'[x].pos > 0
          PROVE  \E y \in Cards : cards'[y] = [cards'[x] EXCEPT !.pos = @ - 1]
      <3>1. PICK y \in Cards \ {c} :
              cards[y].col = cards'[x].col /\ cards[y].pos = cards'[x].pos - 1
        BY <1>2, <1>4, <1>5, <1>6, <2>2
      <3>2. cards'[y] \in Row /\ cards'[x] \in Row
        BY TypeStep DEF Next, TypeOK
      <3>3. cards'[y].col = cards'[x].col /\ cards'[y].pos = cards'[x].pos - 1
        BY <1>2, <3>1
      <3>4. cards'[y] = [cards'[x] EXCEPT !.pos = @ - 1]
        BY <3>2, <3>3 DEF Row
      <3> QED
        BY <3>4
    <2> QED
      BY <2>1, <2>2
  <1>7. Unique(cards')
    BY CreatedUnique DEF UniquePositions, Dense
  <1> QED
    BY <1>6, <1>7 DEF Dense

\* A table gets its holes from deletions (and from positions no list has): neither a
\* creation nor a drop at an index of the column opens one, for any number of cards.
THEOREM HolesComeFromDeletes == Spec => HolesOnlyFromDeletes
  <1> DEFINE Keeps(c) ==
        /\ Dense(cards)
        /\ \/ \E column \in Columns : CreateCard(c, column)
           \/ \E to \in Targets : IsDropIndex(cards, c, to) /\ MoveCard(c, to)
        => Dense(cards')
  <1>1. TypeOK => [\A c \in Cards : Keeps(c)]_cards
    <2> SUFFICES ASSUME TypeOK, NEW c \in Cards, Dense(cards),
                        \/ \E column \in Columns : CreateCard(c, column)
                        \/ \E to \in Targets : IsDropIndex(cards, c, to) /\ MoveCard(c, to)
                 PROVE  Dense(cards')
      OBVIOUS
    <2>1. CASE \E column \in Columns : CreateCard(c, column)
      BY <2>1, CreatedDense
    <2>2. CASE \E to \in Targets : IsDropIndex(cards, c, to) /\ MoveCard(c, to)
      <3>1. PICK to \in Targets : IsDropIndex(cards, c, to) /\ MoveCard(c, to)
        BY <2>2
      <3> QED
        BY <3>1, DroppedDense DEF MoveCard, TypeOK
    <2> QED
      BY <2>1, <2>2
  <1> QED
    BY <1>1, TypeCorrect, PTL DEF HolesOnlyFromDeletes

\* Without holes, a card dropped at index n has n other cards of the column above it.
LEMMA DroppedAtIndex ==
  ASSUME NEW rows \in [Cards -> Row], NEW c \in Cards, NEW to \in Targets,
         Dense(rows), Exists(rows[c]), IsDropIndex(rows, c, to)
  PROVE  OthersBefore(Moved(rows, c, to), c, to) = to.pos
  <1> DEFINE t == TakeOut(rows, rows[c])
             m == Moved(rows, c, to)
             column == to.col
             n == to.pos
  <1>1. column \in Columns /\ n \in 0 .. Cardinality(OthersIn(rows, c, column))
    BY DEF Targets, IsDropIndex
  <1>2. \A x \in Cards \ {c} :
          /\ m[x].col = rows[x].col /\ t[x].pos \in Int
          /\ m[x].pos = IF t[x].col = column /\ t[x].pos >= n THEN t[x].pos + 1 ELSE t[x].pos
          /\ t[x].col = rows[x].col
    BY MovedOthers
  <1> HIDE DEF m, column, n
  <1>3. n \in Nat /\ Cardinality({x \in OthersIn(rows, c, column) : t[x].pos < n}) = n
    BY <1>1, PlacesBelow
  <1> HIDE DEF t
  <1>4. OthersIn(m, c, column) = OthersIn(rows, c, column)
    BY <1>2 DEF OthersIn
  <1>5. {x \in OthersIn(m, c, column) : m[x].pos < n} = {x \in OthersIn(rows, c, column) : t[x].pos < n}
    BY <1>2, <1>3, <1>4 DEF OthersIn
  <1>6. Cardinality({x \in OthersIn(m, c, column) : m[x].pos < n}) = n
    BY <1>3, <1>5
  <1> QED
    BY <1>6 DEF OthersBefore, m, column, n

\* As long as nobody has deleted a card, a card goes where it was dropped, for any
\* number of cards and columns.
THEOREM DropsHonouredWhenDense == Spec => DropIndexHonouredWhenDense
  <1> DEFINE Honoured(c, to) ==
        Dense(cards) /\ IsDropIndex(cards, c, to) /\ MoveCard(c, to)
          => OthersBefore(cards', c, to) = to.pos
  <1>1. TypeOK => [\A c \in Cards : \A to \in Targets : Honoured(c, to)]_cards
    BY DroppedAtIndex DEF MoveCard, TypeOK
  <1> QED
    BY <1>1, TypeCorrect, PTL DEF DropIndexHonouredWhenDense
-----------------------------------------------------------------------------
(***************************************************************************)
(* BoardTree                                                               *)
(***************************************************************************)
ColumnRow == [board : Boards \cup {NoBoard}, pos : Nat]

Soundness ==
  /\ \A k \in Columns : columns[k].board \in boards \cup {NoBoard}
  /\ \A p \in Requests : JobIsSound(p)

LEMMA InvIsParts ==
  TreeIInv <=> /\ TreeTypeOK /\ BoardsAreWhole /\ TreeIsConsistent /\ Soundness
               /\ \A r \in Readers : PageIsSound(r)
  BY DEF TreeIInv, Soundness
-----------------------------------------------------------------------------
\* The cards of the tree are those of SerialBoard.
LEMMA CardsGoOn == TreeTypeOK /\ [TreeNext]_treeVars => [Next]_cards
  <1> SUFFICES ASSUME TreeNext PROVE [Next]_cards
    BY DEF treeVars
  <1>1. CASE CardChange
    BY <1>1 DEF CardChange, Next
  <1>2. ASSUME NEW p \in Requests,
               \/ BeginBoard(p) \/ InsertDefault(p) \/ CommitBoard(p)
               \/ AskColumn(p) \/ ReadMax(p) \/ InsertColumn(p) \/ Cut(p)
        PROVE  UNCHANGED cards
    BY <1>2 DEF BeginBoard, InsertDefault, CommitBoard, AskColumn, ReadMax, InsertColumn, Cut
  <1>3. ASSUME NEW r \in Readers, ListColumns(r) \/ ReadCards(r) \/ EndRead(r)
        PROVE  UNCHANGED cards
    BY <1>3 DEF ListColumns, ReadCards, EndRead
  <1> QED BY <1>1, <1>2, <1>3 DEF TreeNext

LEMMA CardsStart == TreeInit => Init
  <1> SUFFICES ASSUME TreeInit PROVE Init OBVIOUS
  <1>1. cards = [x \in Cards |-> UnbornRow] BY DEF TreeInit
  <1>2. UnbornRow \in Row /\ ~Exists(UnbornRow)
    BY Markers, Int4Range DEF UnbornRow, Row, Int4, Exists
  <1>3. cards \in [Cards -> Row] /\ \A x \in Cards : cards[x] = UnbornRow BY <1>1, <1>2
  <1>4. Dense(cards) BY <1>2, <1>3 DEF Dense, Unique
  <1> QED BY <1>3, <1>4 DEF Init, Arrangements
-----------------------------------------------------------------------------
\* Types.
LEMMA TreeTypesStart == TreeInit => TreeTypeOK
  <1> SUFFICES ASSUME TreeInit PROVE TreeTypeOK OBVIOUS
  <1>1. TypeOK BY CardsStart DEF Init, Arrangements, TypeOK
  <1>2. boards \in SUBSET Boards /\ columns \in [Columns -> ColumnRow]
    BY DEF TreeInit, NoColumnRow, ColumnRow
  <1>3. <<>> \in Seq(Columns) /\ Len(<<>>) = 0 OBVIOUS
  <1>4. NoJob \in Job BY <1>3 DEF NoJob, Job
  <1>5. job \in [Requests -> Job] /\ \A p \in Requests : Len(job[p].made) <= Defaults
    BY <1>3, <1>4, TreeConstants DEF TreeInit, NoJob
  <1>6. page \in [Readers -> Page] BY DEF TreeInit, NoPage, Page
  <1> QED BY <1>1, <1>2, <1>5, <1>6 DEF TreeTypeOK, ColumnRow

\* A step that changes one job keeps the jobs' types when it does so for this one.
LEMMA JobsTyped ==
  ASSUME TreeTypeOK, NEW p \in Requests, NEW j \in Job, Len(j.made) <= Defaults,
         job' = [job EXCEPT ![p] = j]
  PROVE  job' \in [Requests -> Job] /\ \A q \in Requests : Len(job'[q].made) <= Defaults
  <1>1. job \in [Requests -> Job] /\ \A q \in Requests : Len(job[q].made) <= Defaults
    BY DEF TreeTypeOK
  <1> QED BY <1>1

LEMMA TreeTypesStep == TreeTypeOK /\ Soundness /\ [TreeNext]_treeVars => TreeTypeOK'
  <1> SUFFICES ASSUME TreeTypeOK, Soundness, [TreeNext]_treeVars PROVE TreeTypeOK' OBVIOUS
  <1> DEFINE JobsOK == job \in [Requests -> Job]
                         /\ \A q \in Requests : Len(job[q].made) <= Defaults
             OthersOK == boards \in SUBSET Boards /\ columns \in [Columns -> ColumnRow]
             PagesOK == page \in [Readers -> Page]
  <1>1. TypeOK' BY CardsGoOn, TypeStep DEF TreeTypeOK
  <1>2. JobsOK /\ OthersOK /\ PagesOK /\ cards \in [Cards -> Row]
    BY DEF TreeTypeOK, ColumnRow, TypeOK
  <1>3. NoJob \in Job /\ Len(NoJob.made) <= Defaults
    <2>1. <<>> \in Seq(Columns) /\ Len(<<>>) = 0 OBVIOUS
    <2> QED BY <2>1, TreeConstants DEF NoJob, Job
  <1>4. ASSUME NEW p \in Requests
        PROVE  /\ job[p] \in Job /\ Len(job[p].made) <= Defaults
               /\ job[p].made \in Seq(Columns) /\ job[p].board \in Boards \cup {NoBoard}
               /\ Made(p) \subseteq Columns
    <2>1. job[p] \in Job /\ Len(job[p].made) <= Defaults BY <1>2
    <2>2. job[p].made \in Seq(Columns) BY <2>1 DEF Job
    <2> QED BY <2>1, <2>2 DEF Job, Made
  <1>5. ASSUME NEW p \in Requests,
               \/ BeginBoard(p) \/ InsertDefault(p) \/ CommitBoard(p)
               \/ AskColumn(p) \/ ReadMax(p) \/ InsertColumn(p) \/ Cut(p)
        PROVE  JobsOK'
    <2>1. ASSUME NEW j \in Job, Len(j.made) <= Defaults, job' = [job EXCEPT ![p] = j]
          PROVE  JobsOK'
      BY <2>1, JobsTyped
    <2>2. CASE BeginBoard(p)
      <3>1. PICK b \in Boards : job' = [job EXCEPT ![p].at = "board", ![p].board = b]
        BY <2>2 DEF BeginBoard
      <3> DEFINE j == [job[p] EXCEPT !.at = "board", !.board = b]
      <3>2. j \in Job /\ j.made = job[p].made BY <1>4 DEF Job
      <3>3. job' = [job EXCEPT ![p] = j] BY <3>1, <1>2
      <3> QED BY <2>1, <3>2, <3>3, <1>4
    <2>3. CASE InsertDefault(p)
      <3>1. PICK k \in Columns : job' = [job EXCEPT ![p].made = Append(@, k)]
        BY <2>3 DEF InsertDefault, UnusedColumns, ColumnsOf
      <3> DEFINE j == [job[p] EXCEPT !.made = Append(job[p].made, k)]
      <3>2. Append(job[p].made, k) \in Seq(Columns)
              /\ Len(Append(job[p].made, k)) = Len(job[p].made) + 1
        BY <1>4
      <3>3. j \in Job /\ j.made = Append(job[p].made, k) BY <1>4, <3>2 DEF Job
      <3>4. Len(job[p].made) < Defaults /\ Len(job[p].made) \in Nat
        BY <2>3, <1>4 DEF InsertDefault
      <3>5. Len(j.made) <= Defaults BY <3>2, <3>3, <3>4, TreeConstants
      <3>6. job' = [job EXCEPT ![p] = j] BY <3>1, <1>2
      <3> QED BY <2>1, <3>3, <3>5, <3>6
    <2>4. CASE CommitBoard(p) \/ InsertColumn(p) \/ Cut(p)
      <3>1. job' = [job EXCEPT ![p] = NoJob] BY <2>4 DEF CommitBoard, InsertColumn, Cut
      <3> QED BY <2>1, <1>3, <3>1
    <2>5. CASE AskColumn(p)
      <3>1. PICK b \in boards : job' = [job EXCEPT ![p].at = "max", ![p].board = b]
        BY <2>5 DEF AskColumn
      <3> DEFINE j == [job[p] EXCEPT !.at = "max", !.board = b]
      <3>2. b \in Boards BY <1>2
      <3>3. j \in Job /\ j.made = job[p].made BY <1>4, <3>2 DEF Job
      <3>4. job' = [job EXCEPT ![p] = j] BY <3>1, <1>2
      <3> QED BY <2>1, <3>3, <3>4, <1>4
    <2>6. CASE ReadMax(p)
      <3>1. PICK k \in Columns :
              job' = [job EXCEPT ![p].at = "insert", ![p].pos = columns[k].pos + 1,
                                 ![p].seen = ColumnsOf(job[p].board)]
        BY <2>6 DEF ReadMax, ColumnsOf
      <3> DEFINE j == [job[p] EXCEPT !.at = "insert", !.pos = columns[k].pos + 1,
                                     !.seen = ColumnsOf(job[p].board)]
      <3>2. columns[k].pos + 1 \in Nat BY <1>2 DEF ColumnRow
      <3>3. ColumnsOf(job[p].board) \in SUBSET Columns BY DEF ColumnsOf
      <3>4. j \in Job /\ j.made = job[p].made BY <1>4, <3>2, <3>3 DEF Job
      <3>5. job' = [job EXCEPT ![p] = j] BY <3>1, <1>2
      <3> QED BY <2>1, <3>4, <3>5, <1>4
    <2> QED BY <1>5, <2>2, <2>3, <2>4, <2>5, <2>6
  <1>6. ASSUME NEW p \in Requests,
               \/ BeginBoard(p) \/ InsertDefault(p) \/ CommitBoard(p)
               \/ AskColumn(p) \/ ReadMax(p) \/ InsertColumn(p) \/ Cut(p)
        PROVE  OthersOK' /\ PagesOK'
    <2>1. CASE CommitBoard(p)
      <3>1. PICK index \in [Made(p) -> 1 .. Defaults] :
              columns' = [k \in Columns |->
                IF k \in Made(p) THEN [board |-> job[p].board, pos |-> index[k] - 1]
                                 ELSE columns[k]]
        BY <2>1 DEF CommitBoard
      <3>2. \A k \in Made(p) : index[k] - 1 \in Nat BY <3>1, TreeConstants
      <3>3. columns' \in [Columns -> ColumnRow] BY <3>1, <3>2, <1>2, <1>4 DEF ColumnRow
      <3>4. boards' \in SUBSET Boards
        <4>1. job[p].board \in Boards
          BY <2>1 DEF CommitBoard, Soundness, JobIsSound
        <4> QED BY <4>1, <2>1, <1>2 DEF CommitBoard
      <3> QED BY <2>1, <3>3, <3>4, <1>2 DEF CommitBoard
    <2>2. CASE InsertColumn(p)
      <3>1. [board |-> job[p].board, pos |-> job[p].pos] \in ColumnRow
        BY <1>4 DEF Job, ColumnRow
      <3> QED BY <2>2, <3>1, <1>2 DEF InsertColumn
    <2>3. CASE ~CommitBoard(p) /\ ~InsertColumn(p)
      BY <1>6, <2>3, <1>2 DEF BeginBoard, InsertDefault, AskColumn, ReadMax, Cut
    <2> QED BY <2>1, <2>2, <2>3
  <1>7. ASSUME NEW r \in Readers, ListColumns(r) \/ ReadCards(r) \/ EndRead(r)
        PROVE  JobsOK' /\ OthersOK' /\ PagesOK'
    <2>1. JobsOK' /\ OthersOK' BY <1>2, <1>7 DEF ListColumns, ReadCards, EndRead
    <2>2. page'[r] \in Page /\ page' = [page EXCEPT ![r] = page'[r]]
      <3>1. CASE ListColumns(r)
        <4>1. PICK cols \in {ColumnsOf(b) : b \in boards}
                        \cup {{k} : k \in Columns \ ColumnsOf(NoBoard)} :
                page' = [page EXCEPT ![r] =
                  [at |-> "listed", cols |-> cols, tree |-> {}, stayed |-> CardsIn(cols)]]
          BY <3>1 DEF ListColumns
        <4>2. cols \subseteq Columns /\ CardsIn(cols) \subseteq Cards BY DEF ColumnsOf, CardsIn
        <4> QED BY <4>1, <4>2, <1>2 DEF Page
      <3>2. CASE ReadCards(r)
        <4> DEFINE tree == {<<x, cards[x].col>> : x \in CardsIn(page[r].cols)}
                   x == [page[r] EXCEPT !.at = "read", !.tree = tree]
        <4>1. page' = [page EXCEPT ![r] = x] BY <3>2, <1>2 DEF ReadCards
        <4>2. page[r] \in Page BY <1>2
        <4>3. tree \subseteq Cards \X Columns BY <4>2 DEF CardsIn, Page
        <4>4. x \in Page BY <4>2, <4>3 DEF Page
        <4> QED BY <4>1, <4>4, <1>2
      <3>3. CASE EndRead(r)
        <4>1. NoPage \in Page BY DEF NoPage, Page
        <4> QED BY <3>3, <4>1, <1>2 DEF EndRead
      <3> QED BY <1>7, <3>1, <3>2, <3>3
    <2> QED BY <1>2, <2>1, <2>2
  <1>8. ASSUME CardChange PROVE JobsOK' /\ OthersOK' /\ PagesOK'
    <2>1. JobsOK' /\ OthersOK' BY <1>2, <1>8 DEF CardChange
    <2>2. \A r \in Readers : page'[r] \in Page
      <3> TAKE r \in Readers
      <3>1. page[r] \in Page BY <1>2
      <3>2. page'[r] = IF page[r].at = "listed"
              THEN [page[r] EXCEPT !.stayed = {x \in page[r].stayed : cards'[x].col = cards[x].col}]
              ELSE page[r]
        BY <1>8 DEF CardChange
      <3> QED BY <3>1, <3>2 DEF Page
    <2>3. page' = [r \in Readers |-> page'[r]] BY <1>8 DEF CardChange
    <2>4. PagesOK' BY <2>2, <2>3
    <2> QED BY <2>1, <2>4
  <1>9. ASSUME UNCHANGED treeVars PROVE JobsOK' /\ OthersOK' /\ PagesOK'
    BY <1>9, <1>2 DEF treeVars
  <1>10. JobsOK' /\ OthersOK' /\ PagesOK'
    BY <1>5, <1>6, <1>7, <1>8, <1>9 DEF TreeNext
  <1> QED BY <1>1, <1>10 DEF TreeTypeOK, ColumnRow
-----------------------------------------------------------------------------
\* What is known of a request's job.
LEMMA JobFields ==
  ASSUME TreeTypeOK, NEW p \in Requests
  PROVE  /\ job[p] \in Job /\ job[p].made \in Seq(Columns)
         /\ job[p].pos \in Nat /\ job[p].board \in Boards \cup {NoBoard}
         /\ \A k \in Columns : columns[k].pos \in Nat /\ columns[k].board \in Boards \cup {NoBoard}
         /\ Made(p) \subseteq Columns
  <1>1. job[p] \in Job BY DEF TreeTypeOK
  <1>2. job[p].made \in Seq(Columns) BY <1>1 DEF Job
  <1>3. columns \in [Columns -> ColumnRow] BY DEF TreeTypeOK, ColumnRow
  <1> QED BY <1>1, <1>2, <1>3 DEF Job, Made, ColumnRow

\* Nothing changes a column once it is on a board.
ColumnsStay == \A k \in Columns : columns[k].board # NoBoard => columns'[k] = columns[k]

LEMMA PositionsStay ==
  ASSUME ColumnsStay, NEW b \in Boards
  PROVE  Positions(b) \subseteq Positions(b)'
  BY TreeConstants DEF ColumnsStay, Positions, ColumnsOf

\* What a request holds is not disturbed by another's step.
LEMMA OthersSound ==
  ASSUME TreeTypeOK, Soundness, NEW p \in Requests, NEW j, job' = [job EXCEPT ![p] = j],
         ColumnsStay, boards \subseteq boards',
         \A q \in Requests \ {p} : job[q].at = "board" =>
           /\ job[q].board \notin boards' /\ job[q].board # j.board
           /\ \A k \in Made(q) :
                columns'[k] = columns[k] /\ \A i \in 1 .. Len(j.made) : j.made[i] # k
  PROVE  \A q \in Requests \ {p} : JobIsSound(q)'
  <1> SUFFICES ASSUME NEW q \in Requests \ {p} PROVE JobIsSound(q)' OBVIOUS
  <1>1. job'[p] = j /\ \A r \in Requests \ {p} : job'[r] = job[r] BY DEF TreeTypeOK
  <1>2. \A r \in Requests \ {p} : Made(r)' = Made(r) BY <1>1 DEF Made
  <1>3. JobIsSound(q) /\ job'[q] = job[q] BY <1>1 DEF Soundness
  <1>4. job[q].at = "board" =>
          /\ job[q].board \in Boards \ boards'
          /\ \A m, n \in 1 .. Len(job[q].made) : job[q].made[m] = job[q].made[n] => m = n
    BY <1>3 DEF JobIsSound
  <1>5. job[q].at = "board" => Made(q)' \subseteq ColumnsOf(NoBoard)'
    <2> SUFFICES ASSUME job[q].at = "board", NEW k \in Made(q)
                 PROVE  k \in Columns /\ columns'[k].board = NoBoard
      BY <1>2 DEF ColumnsOf
    <2>1. k \in Columns /\ columns[k].board = NoBoard BY <1>3 DEF JobIsSound, ColumnsOf
    <2> QED BY <2>1
  <1>6. ASSUME job[q].at = "board", NEW r \in Requests \ {q}
        PROVE  job'[r].board # job[q].board /\ Made(r)' \cap Made(q)' = {}
    <2>1. CASE r = p
      <3>1. Made(r)' = {j.made[i] : i \in 1 .. Len(j.made)} BY <1>1, <2>1 DEF Made
      <3> QED BY <1>1, <1>2, <1>6, <2>1, <3>1
    <2>2. CASE r # p
      BY <1>1, <1>2, <1>3, <1>6, <2>2 DEF JobIsSound
    <2> QED BY <2>1, <2>2
  <1>7. job[q].at = "insert" =>
          /\ job[q].board \in boards
          /\ 0 .. job[q].pos - 1 \subseteq Positions(job[q].board)
          /\ \A x \in job[q].seen : columns[x].board = job[q].board /\ columns[x].pos < job[q].pos
    BY <1>3 DEF JobIsSound
  <1>8. job[q].at = "insert" =>
          /\ 0 .. job[q].pos - 1 \subseteq Positions(job[q].board)'
          /\ \A x \in job[q].seen :
               columns'[x].board = job[q].board /\ columns'[x].pos < job[q].pos
    <2> SUFFICES ASSUME job[q].at = "insert"
                 PROVE  /\ 0 .. job[q].pos - 1 \subseteq Positions(job[q].board)'
                        /\ \A x \in job[q].seen : columns'[x] = columns[x]
      BY <1>7
    <2>1. job[q].board \in Boards BY <1>7 DEF TreeTypeOK
    <2>2. Positions(job[q].board) \subseteq Positions(job[q].board)' BY <2>1, PositionsStay
    <2>3. job[q].seen \subseteq Columns BY JobFields DEF Job
    <2> QED BY <1>7, <2>1, <2>2, <2>3, TreeConstants DEF ColumnsStay
  <1>9. job[q].at \in {"max", "insert"} => job[q].board \in boards' BY <1>3 DEF JobIsSound
  <1>10. job[q].at # "board" => job[q].made = <<>> BY <1>3 DEF JobIsSound
  <1> QED BY <1>3, <1>4, <1>5, <1>6, <1>8, <1>9, <1>10 DEF JobIsSound

\* A finished job is sound.
LEMMA NoJobSound ==
  ASSUME NEW p \in Requests, job'[p] = NoJob
  PROVE  JobIsSound(p)'
  BY DEF JobIsSound, NoJob
-----------------------------------------------------------------------------
\* One lemma for each step of a request that leaves boards and columns alone.
LEMMA Undisturbed ==
  ASSUME TreeTypeOK, Soundness, NEW p \in Requests, NEW j, job' = [job EXCEPT ![p] = j],
         UNCHANGED <<boards, columns>>,
         \A q \in Requests \ {p} : job[q].at = "board" =>
           /\ job[q].board # j.board
           /\ \A k \in Made(q), i \in 1 .. Len(j.made) : j.made[i] # k
  PROVE  \A q \in Requests \ {p} : JobIsSound(q)'
  <1>1. ColumnsStay BY DEF ColumnsStay
  <1>2. \A q \in Requests \ {p} : job[q].at = "board" => job[q].board \notin boards'
    BY DEF Soundness, JobIsSound
  <1> QED BY <1>1, <1>2, OthersSound

LEMMA BeginKeeps ==
  ASSUME TreeTypeOK, Soundness, NEW p \in Requests, BeginBoard(p)
  PROVE  Soundness'
  <1>1. PICK b \in Boards \ boards :
          /\ \A q \in Requests : job[q].board # b
          /\ job' = [job EXCEPT ![p].at = "board", ![p].board = b]
    BY DEF BeginBoard
  <1> DEFINE j == [job[p] EXCEPT !.at = "board", !.board = b]
  <1>2. job[p].at = "idle" /\ UNCHANGED <<boards, columns>> BY DEF BeginBoard
  <1>3. job[p] \in Job /\ job[p].made = <<>> BY <1>2, JobFields DEF Soundness, JobIsSound
  <1>4. job' = [job EXCEPT ![p] = j] BY <1>1 DEF TreeTypeOK
  <1>5. j.at = "board" /\ j.board = b /\ j.made = <<>> BY <1>3 DEF Job
  <1> HIDE DEF j
  <1>6. \A q \in Requests \ {p} : JobIsSound(q)'
    <2>1. \A q \in Requests \ {p} : job[q].at = "board" =>
            /\ job[q].board # j.board
            /\ \A x \in Made(q), i \in 1 .. Len(j.made) : j.made[i] # x
      BY <1>1, <1>5
    <2> QED BY <1>2, <1>4, <2>1, Undisturbed
  <1>7. JobIsSound(p)'
    <2>1. job'[p] = j /\ Made(p)' = {} BY <1>4, <1>5 DEF TreeTypeOK, Made
    <2>2. \A q \in Requests \ {p} : job'[q].board # b BY <1>1, <1>4 DEF TreeTypeOK
    <2>3. Len(j.made) = 0 BY <1>5
    <2>4. \A m, n \in 1 .. Len(j.made) : j.made[m] = j.made[n] => m = n BY <2>3
    <2>5. b \in Boards \ boards' BY <1>2
    <2> QED BY <1>5, <2>1, <2>2, <2>4, <2>5 DEF JobIsSound
  <1> QED BY <1>2, <1>6, <1>7 DEF Soundness

LEMMA InsertDefaultKeeps ==
  ASSUME TreeTypeOK, Soundness, NEW p \in Requests, InsertDefault(p)
  PROVE  Soundness'
  <1>1. PICK k \in UnusedColumns : job' = [job EXCEPT ![p].made = Append(@, k)]
    BY DEF InsertDefault
  <1> DEFINE j == [job[p] EXCEPT !.made = Append(job[p].made, k)]
  <1>2. job[p].at = "board" /\ UNCHANGED <<boards, columns>> BY DEF InsertDefault
  <1>3. /\ k \in Columns /\ k \in ColumnsOf(NoBoard) /\ \A q \in Requests : k \notin Made(q)
    BY <1>1 DEF UnusedColumns, ColumnsOf
  <1>4. job[p] \in Job /\ job[p].made \in Seq(Columns) BY JobFields
  <1>5. job' = [job EXCEPT ![p] = j] BY <1>1 DEF TreeTypeOK
  <1>6. j.at = "board" /\ j.board = job[p].board /\ j.made = Append(job[p].made, k)
    BY <1>2, <1>4 DEF Job
  <1> HIDE DEF j
  <1>7. /\ Len(j.made) = Len(job[p].made) + 1 /\ j.made[Len(j.made)] = k
        /\ \A i \in 1 .. Len(job[p].made) : j.made[i] = job[p].made[i]
    BY <1>4, <1>6
  <1>8. JobIsSound(p) BY DEF Soundness
  <1>9. \A i \in 1 .. Len(j.made) : j.made[i] = k \/ j.made[i] \in Made(p)
    <2> TAKE i \in 1 .. Len(j.made)
    <2>1. i = Len(j.made) \/ i \in 1 .. Len(job[p].made) BY <1>4, <1>7
    <2> QED BY <1>7, <2>1 DEF Made
  <1>10. \A q \in Requests \ {p} : JobIsSound(q)'
    <2>1. \A q \in Requests \ {p} : job[q].board # job[p].board /\ Made(q) \cap Made(p) = {}
      BY <1>2, <1>8 DEF JobIsSound
    <2>2. \A q \in Requests \ {p} : job[q].at = "board" =>
            /\ job[q].board # j.board
            /\ \A x \in Made(q), i \in 1 .. Len(j.made) : j.made[i] # x
      BY <1>3, <1>6, <1>9, <2>1
    <2> QED BY <1>2, <1>5, <2>2, Undisturbed
  <1>11. JobIsSound(p)'
    <2>1. job'[p] = j /\ \A q \in Requests \ {p} : job'[q] = job[q] BY <1>5 DEF TreeTypeOK
    <2>2. Made(p)' \subseteq Made(p) \cup {k} BY <1>9, <2>1 DEF Made
    <2>3. \A q \in Requests \ {p} : Made(q)' = Made(q) BY <2>1 DEF Made
    <2>4. \A m, n \in 1 .. Len(j.made) : j.made[m] = j.made[n] => m = n
      <3> SUFFICES ASSUME NEW m \in 1 .. Len(j.made), NEW n \in 1 .. Len(j.made),
                          j.made[m] = j.made[n]
                   PROVE  m = n
        OBVIOUS
      <3>1. m = Len(j.made) \/ m \in 1 .. Len(job[p].made) BY <1>4, <1>7
      <3>2. n = Len(j.made) \/ n \in 1 .. Len(job[p].made) BY <1>4, <1>7
      <3>3. \A i \in 1 .. Len(job[p].made) : job[p].made[i] # k BY <1>3 DEF Made
      <3>4. \A x, y \in 1 .. Len(job[p].made) : job[p].made[x] = job[p].made[y] => x = y
        BY <1>2, <1>8 DEF JobIsSound
      <3> QED BY <1>7, <3>1, <3>2, <3>3, <3>4
    <2>5. /\ job[p].board \in Boards \ boards /\ Made(p) \subseteq ColumnsOf(NoBoard)
          /\ \A q \in Requests \ {p} : job[q].board # job[p].board /\ Made(q) \cap Made(p) = {}
      BY <1>2, <1>8 DEF JobIsSound
    <2>6. ColumnsOf(NoBoard)' = ColumnsOf(NoBoard) BY <1>2 DEF ColumnsOf
    <2>7. \A q \in Requests \ {p} : job'[q].board # j.board /\ Made(q)' \cap Made(p)' = {}
      BY <1>3, <1>6, <2>1, <2>2, <2>3, <2>5
    <2>8. Made(p)' \subseteq ColumnsOf(NoBoard)' BY <1>3, <2>2, <2>5, <2>6
    <2> QED BY <1>2, <1>6, <2>1, <2>4, <2>5, <2>7, <2>8 DEF JobIsSound
  <1> QED BY <1>2, <1>10, <1>11 DEF Soundness

LEMMA AskKeeps ==
  ASSUME TreeTypeOK, Soundness, NEW p \in Requests, AskColumn(p)
  PROVE  Soundness'
  <1>1. PICK b \in boards : job' = [job EXCEPT ![p].at = "max", ![p].board = b]
    BY DEF AskColumn
  <1> DEFINE j == [job[p] EXCEPT !.at = "max", !.board = b]
  <1>2. job[p].at = "idle" /\ UNCHANGED <<boards, columns>> BY DEF AskColumn
  <1>3. job[p] \in Job /\ job[p].made = <<>> BY <1>2, JobFields DEF Soundness, JobIsSound
  <1>4. job' = [job EXCEPT ![p] = j] BY <1>1 DEF TreeTypeOK
  <1>5. j.at = "max" /\ j.board = b /\ j.made = <<>> BY <1>3 DEF Job
  <1> HIDE DEF j
  <1>6. \A q \in Requests \ {p} : job[q].at = "board" => job[q].board \notin boards
    BY DEF Soundness, JobIsSound
  <1>7. \A q \in Requests \ {p} : JobIsSound(q)'
    <2>1. \A q \in Requests \ {p} : job[q].at = "board" =>
            /\ job[q].board # j.board
            /\ \A x \in Made(q), i \in 1 .. Len(j.made) : j.made[i] # x
      BY <1>1, <1>5, <1>6
    <2> QED BY <1>2, <1>4, <2>1, Undisturbed
  <1>8. JobIsSound(p)'
    <2>1. job'[p] = j BY <1>4 DEF TreeTypeOK
    <2>2. b \in boards' BY <1>2
    <2> QED BY <1>5, <2>1, <2>2 DEF JobIsSound
  <1> QED BY <1>2, <1>7, <1>8 DEF Soundness

LEMMA ReadMaxKeeps ==
  ASSUME TreeTypeOK, BoardsAreWhole, Soundness, NEW p \in Requests, ReadMax(p)
  PROVE  Soundness'
  <1>0. PICK b \in Boards : job[p].board = b /\ b \in boards
    BY DEF ReadMax, Soundness, JobIsSound, TreeTypeOK
  <1>1. PICK k \in ColumnsOf(b) :
          /\ \A x \in ColumnsOf(b) : columns[x].pos <= columns[k].pos
          /\ job' = [job EXCEPT ![p].at = "insert", ![p].pos = columns[k].pos + 1,
                                ![p].seen = ColumnsOf(b)]
    BY <1>0 DEF ReadMax
  <1> DEFINE j == [job[p] EXCEPT !.at = "insert", !.pos = columns[k].pos + 1,
                                 !.seen = ColumnsOf(b)]
  <1>2. job[p].at = "max" /\ UNCHANGED <<boards, columns>> BY DEF ReadMax
  <1>3. job[p] \in Job /\ job[p].made = <<>>
    BY <1>2, JobFields DEF Soundness, JobIsSound
  <1>4. job' = [job EXCEPT ![p] = j] BY <1>1 DEF TreeTypeOK
  <1>5. j.at = "insert" /\ j.board = b /\ j.made = <<>> /\ j.pos = columns[k].pos + 1
          /\ j.seen = ColumnsOf(b)
    BY <1>0, <1>3 DEF Job
  <1> HIDE DEF j
  <1>6. \A q \in Requests \ {p} : job[q].at = "board" => job[q].board \notin boards
    BY DEF Soundness, JobIsSound
  <1>7. \A q \in Requests \ {p} : JobIsSound(q)'
    <2>1. \A q \in Requests \ {p} : job[q].at = "board" =>
            /\ job[q].board # j.board
            /\ \A x \in Made(q), i \in 1 .. Len(j.made) : j.made[i] # x
      BY <1>0, <1>3, <1>5, <1>6
    <2> QED BY <1>2, <1>4, <2>1, Undisturbed
  <1>8. JobIsSound(p)'
    <2>1. job'[p] = j BY <1>4 DEF TreeTypeOK
    <2>2. Positions(b)' = Positions(b) BY <1>2 DEF Positions, ColumnsOf
    <2>3. columns[k].pos \in Positions(b) /\ columns[k].pos \in Nat
      BY <1>1, JobFields DEF Positions, ColumnsOf
    <2>4. 0 .. columns[k].pos \subseteq Positions(b) BY <1>0, <2>3 DEF BoardsAreWhole
    <2>5. 0 .. j.pos - 1 \subseteq Positions(b)' BY <1>5, <2>2, <2>3, <2>4
    <2>6. \A x \in j.seen : columns'[x].board = b /\ columns'[x].pos < j.pos
      <3> TAKE x \in j.seen
      <3>1. x \in Columns /\ columns[x].board = b /\ columns[x].pos <= columns[k].pos
        BY <1>1, <1>5 DEF ColumnsOf
      <3>2. columns[x].pos \in Nat BY <3>1, JobFields
      <3> QED BY <1>2, <1>5, <2>3, <3>1, <3>2
    <2> QED BY <1>0, <1>2, <1>3, <1>5, <2>1, <2>5, <2>6 DEF JobIsSound
  <1> QED BY <1>2, <1>7, <1>8 DEF Soundness

LEMMA CutKeeps ==
  ASSUME TreeTypeOK, Soundness, NEW p \in Requests, Cut(p)
  PROVE  Soundness'
  <1>1. job' = [job EXCEPT ![p] = NoJob] /\ UNCHANGED <<boards, columns>> BY DEF Cut
  <1>2. \A q \in Requests \ {p} : job[q].at = "board" => job[q].board # NoJob.board
    BY TreeConstants DEF Soundness, JobIsSound, NoJob
  <1>3. Len(NoJob.made) = 0 BY DEF NoJob
  <1>4. \A q \in Requests \ {p} : JobIsSound(q)'
    <2>1. \A q \in Requests \ {p} : job[q].at = "board" =>
            /\ job[q].board # NoJob.board
            /\ \A x \in Made(q), i \in 1 .. Len(NoJob.made) : NoJob.made[i] # x
      BY <1>2, <1>3
    <2> QED BY <1>1, <2>1, Undisturbed
  <1>5. JobIsSound(p)' BY <1>1, NoJobSound DEF TreeTypeOK
  <1> QED BY <1>1, <1>4, <1>5 DEF Soundness
-----------------------------------------------------------------------------
\* A new board has columns 0 to Defaults - 1, and no other board changes.
LEMMA CommitKeeps ==
  ASSUME TreeTypeOK, BoardsAreWhole, Soundness, NEW p \in Requests, CommitBoard(p)
  PROVE  Soundness' /\ BoardsAreWhole'
  <1>0. PICK b \in Boards : job[p].board = b
    BY DEF CommitBoard, Soundness, JobIsSound
  <1> DEFINE made == job[p].made
  <1>1. PICK index \in [Made(p) -> 1 .. Defaults] :
          /\ \A k \in Made(p) : made[index[k]] = k
          /\ columns' = [k \in Columns |->
               IF k \in Made(p) THEN [board |-> b, pos |-> index[k] - 1] ELSE columns[k]]
    BY <1>0 DEF CommitBoard
  <1>2. /\ job[p].at = "board" /\ Len(made) = Defaults
        /\ boards' = boards \cup {b} /\ job' = [job EXCEPT ![p] = NoJob]
    BY <1>0 DEF CommitBoard
  <1>3. /\ b \in Boards \ boards /\ Made(p) \subseteq ColumnsOf(NoBoard)
        /\ \A m, n \in 1 .. Len(made) : made[m] = made[n] => m = n
        /\ \A q \in Requests \ {p} : job[q].board # b /\ Made(q) \cap Made(p) = {}
    BY <1>0, <1>2 DEF Soundness, JobIsSound
  <1>4. \A k \in Made(p) : k \in Columns /\ columns[k].board = NoBoard
    BY <1>3 DEF ColumnsOf
  <1>5. /\ \A k \in Made(p) : columns'[k].board = b /\ columns'[k].pos = index[k] - 1
        /\ \A k \in Columns \ Made(p) : columns'[k] = columns[k]
    BY <1>1, <1>4
  <1>6. ColumnsStay BY <1>4, <1>5 DEF ColumnsStay
  <1>7. \A q \in Requests \ {p} : JobIsSound(q)'
    <2>1. ASSUME NEW q \in Requests \ {p}, job[q].at = "board"
          PROVE  /\ job[q].board \notin boards' /\ job[q].board # NoJob.board
                 /\ \A k \in Made(q) : columns'[k] = columns[k]
      <3>1. job[q].board \in Boards \ boards /\ Made(q) \subseteq Columns
        BY <2>1, JobFields DEF Soundness, JobIsSound
      <3> QED BY <1>2, <1>3, <1>5, <3>1, TreeConstants DEF NoJob
    <2>2. Len(NoJob.made) = 0 BY DEF NoJob
    <2>3. \A q \in Requests \ {p} : job[q].at = "board" =>
            /\ job[q].board \notin boards' /\ job[q].board # NoJob.board
            /\ \A x \in Made(q) :
                 columns'[x] = columns[x] /\ \A i \in 1 .. Len(NoJob.made) : NoJob.made[i] # x
      BY <2>1, <2>2
    <2>4. boards \subseteq boards' BY <1>2
    <2> QED BY <1>2, <1>6, <2>3, <2>4, OthersSound
  <1>8. JobIsSound(p)' BY <1>2, NoJobSound DEF TreeTypeOK
  <1>9. \A k \in Columns : columns'[k].board \in boards' \cup {NoBoard}
    BY <1>2, <1>5 DEF Soundness
  <1>10. Soundness' BY <1>7, <1>8, <1>9 DEF Soundness
  <1>11. ColumnsOf(b)' = Made(p)
    <2>1. ColumnsOf(b) = {} BY <1>3 DEF BoardsAreWhole
    <2>2. \A k \in Columns : columns[k].board # b BY <2>1 DEF ColumnsOf
    <2>3. \A k \in Columns : columns'[k].board = b <=> k \in Made(p) BY <1>5, <2>2
    <2> QED BY <1>4, <2>3 DEF ColumnsOf
  <1>12. \A i \in 1 .. Defaults : made[i] \in Made(p) /\ index[made[i]] = i
    BY <1>1, <1>2, <1>3 DEF Made
  <1>13. \A i \in 0 .. Defaults - 1 : i \in Positions(b)'
    <2> TAKE i \in 0 .. Defaults - 1
    <2>1. i + 1 \in 1 .. Defaults BY TreeConstants
    <2>2. made[i + 1] \in Made(p) /\ columns'[made[i + 1]].pos = i
      BY <1>5, <1>12, <2>1
    <2> QED BY <1>11, <2>2 DEF Positions
  <1>14. \A q \in Positions(b)' : q \in 0 .. Defaults - 1
    <2> TAKE q \in Positions(b)'
    <2>1. PICK k \in Made(p) : q = columns'[k].pos BY <1>11 DEF Positions
    <2> QED BY <1>1, <1>5, <2>1, TreeConstants
  <1>15. Defaults - 1 \in Positions(b)' /\ \A q \in Positions(b)' : 0 .. q \subseteq Positions(b)'
    BY <1>13, <1>14, TreeConstants
  <1>16. \A x \in Boards \ {b} : ColumnsOf(x)' = ColumnsOf(x) /\ Positions(x)' = Positions(x)
    <2> TAKE x \in Boards \ {b}
    <2>1. ColumnsOf(x)' = ColumnsOf(x) BY <1>4, <1>5, TreeConstants DEF ColumnsOf
    <2>2. \A k \in ColumnsOf(x) : columns'[k] = columns[k]
      BY <1>4, <1>5, TreeConstants DEF ColumnsOf
    <2> QED BY <2>1, <2>2 DEF Positions
  <1>17. BoardsAreWhole'
    <2> SUFFICES ASSUME NEW x \in Boards
                 PROVE  IF x \in boards'
                          THEN /\ Defaults - 1 \in Positions(x)'
                               /\ \A q \in Positions(x)' : 0 .. q \subseteq Positions(x)'
                          ELSE ColumnsOf(x)' = {}
      BY DEF BoardsAreWhole
    <2>1. CASE x = b BY <1>2, <1>15, <2>1
    <2>2. CASE x # b BY <1>2, <1>16, <2>2 DEF BoardsAreWhole
    <2> QED BY <2>1, <2>2
  <1> QED BY <1>10, <1>17

\* A new column takes a position all lower ones of which are taken.
LEMMA InsertColumnKeeps ==
  ASSUME TreeTypeOK, BoardsAreWhole, Soundness, NEW p \in Requests, InsertColumn(p)
  PROVE  Soundness' /\ BoardsAreWhole'
  <1>0. PICK b \in Boards : job[p].board = b /\ b \in boards
    BY DEF InsertColumn, Soundness, JobIsSound, TreeTypeOK
  <1>1. PICK k \in UnusedColumns :
          columns' = [columns EXCEPT ![k] = [board |-> b, pos |-> job[p].pos]]
    BY <1>0 DEF InsertColumn
  <1>2. job[p].at = "insert" /\ job' = [job EXCEPT ![p] = NoJob] /\ boards' = boards
    BY DEF InsertColumn
  <1>3. k \in Columns /\ columns[k].board = NoBoard /\ \A q \in Requests : k \notin Made(q)
    BY <1>1 DEF UnusedColumns, ColumnsOf
  <1>4. /\ columns'[k] = [board |-> b, pos |-> job[p].pos]
        /\ \A x \in Columns \ {k} : columns'[x] = columns[x]
    BY <1>1, <1>3 DEF TreeTypeOK
  <1>5. /\ b \in boards /\ b \in Boards /\ job[p].pos \in Nat
        /\ 0 .. job[p].pos - 1 \subseteq Positions(b)
    BY <1>0, <1>2, JobFields DEF Soundness, JobIsSound
  <1>6. ColumnsStay BY <1>3, <1>4 DEF ColumnsStay
  <1>7. \A q \in Requests \ {p} : JobIsSound(q)'
    <2>1. ASSUME NEW q \in Requests \ {p}, job[q].at = "board"
          PROVE  /\ job[q].board \notin boards' /\ job[q].board # NoJob.board
                 /\ \A x \in Made(q) : columns'[x] = columns[x]
      <3>1. job[q].board \in Boards \ boards /\ Made(q) \subseteq Columns
        BY <2>1, JobFields DEF Soundness, JobIsSound
      <3> QED BY <1>2, <1>3, <1>4, <3>1, TreeConstants DEF NoJob
    <2>2. Len(NoJob.made) = 0 BY DEF NoJob
    <2>3. \A q \in Requests \ {p} : job[q].at = "board" =>
            /\ job[q].board \notin boards' /\ job[q].board # NoJob.board
            /\ \A x \in Made(q) :
                 columns'[x] = columns[x] /\ \A i \in 1 .. Len(NoJob.made) : NoJob.made[i] # x
      BY <2>1, <2>2
    <2>4. boards \subseteq boards' BY <1>2
    <2> QED BY <1>2, <1>6, <2>3, <2>4, OthersSound
  <1>8. JobIsSound(p)' BY <1>2, NoJobSound DEF TreeTypeOK
  <1>9. \A x \in Columns : columns'[x].board \in boards' \cup {NoBoard}
    BY <1>2, <1>4, <1>5 DEF Soundness
  <1>10. Soundness' BY <1>7, <1>8, <1>9 DEF Soundness
  <1>11. Positions(b)' = Positions(b) \cup {job[p].pos}
    <2>1. ColumnsOf(b)' = ColumnsOf(b) \cup {k}
      BY <1>3, <1>4 DEF ColumnsOf
    <2>2. \A x \in ColumnsOf(b) : columns'[x] = columns[x]
      BY <1>3, <1>4, <1>5, TreeConstants DEF ColumnsOf
    <2> QED BY <1>4, <2>1, <2>2 DEF Positions
  <1>12. \A x \in Boards \ {b} : ColumnsOf(x)' = ColumnsOf(x) /\ Positions(x)' = Positions(x)
    <2> TAKE x \in Boards \ {b}
    <2>1. ColumnsOf(x)' = ColumnsOf(x) BY <1>3, <1>4, TreeConstants DEF ColumnsOf
    <2>2. \A y \in ColumnsOf(x) : columns'[y] = columns[y]
      BY <1>3, <1>4, TreeConstants DEF ColumnsOf
    <2> QED BY <2>1, <2>2 DEF Positions
  <1>13. Defaults - 1 \in Positions(b) /\ \A q \in Positions(b) : 0 .. q \subseteq Positions(b)
    BY <1>5 DEF BoardsAreWhole
  <1>14. Defaults - 1 \in Positions(b)' /\ \A q \in Positions(b)' : 0 .. q \subseteq Positions(b)'
    <2>1. 0 .. job[p].pos \subseteq Positions(b) \cup {job[p].pos}
      <3> SUFFICES ASSUME NEW i \in 0 .. job[p].pos, i # job[p].pos PROVE i \in Positions(b)
        OBVIOUS
      <3>1. i \in 0 .. job[p].pos - 1 BY <1>5
      <3> QED BY <1>5, <3>1
    <2> QED BY <1>11, <1>13, <2>1
  <1>15. BoardsAreWhole'
    <2> SUFFICES ASSUME NEW x \in Boards
                 PROVE  IF x \in boards'
                          THEN /\ Defaults - 1 \in Positions(x)'
                               /\ \A q \in Positions(x)' : 0 .. q \subseteq Positions(x)'
                          ELSE ColumnsOf(x)' = {}
      BY DEF BoardsAreWhole
    <2>1. CASE x = b BY <1>2, <1>5, <1>14, <2>1
    <2>2. CASE x # b BY <1>2, <1>12, <2>2 DEF BoardsAreWhole
    <2> QED BY <2>1, <2>2
  <1> QED BY <1>10, <1>15
-----------------------------------------------------------------------------
\* Columns only appear, and boards with their columns.
LEMMA TreeGrows ==
  TreeTypeOK /\ BoardsAreWhole /\ Soundness /\ [TreeNext]_treeVars
    => Soundness' /\ BoardsAreWhole'
  <1> SUFFICES ASSUME TreeTypeOK, BoardsAreWhole, Soundness, [TreeNext]_treeVars
               PROVE  Soundness' /\ BoardsAreWhole'
    OBVIOUS
  <1>1. ASSUME UNCHANGED <<boards, columns>> PROVE BoardsAreWhole'
    BY <1>1 DEF BoardsAreWhole, Positions, ColumnsOf
  <1>2. ASSUME UNCHANGED <<boards, columns, job>> PROVE Soundness' /\ BoardsAreWhole'
    <2>1. \A p \in Requests : JobIsSound(p)'
      <3> TAKE p \in Requests
      <3>1. JobIsSound(p) BY DEF Soundness
      <3>2. \A q \in Requests : Made(q)' = Made(q) BY <1>2 DEF Made
      <3>3. ColumnsOf(NoBoard)' = ColumnsOf(NoBoard) BY <1>2 DEF ColumnsOf
      <3>4. Positions(job[p].board)' = Positions(job[p].board) BY <1>2 DEF Positions, ColumnsOf
      <3> QED BY <1>2, <3>1, <3>2, <3>3, <3>4 DEF JobIsSound
    <2>2. Soundness' BY <1>2, <2>1 DEF Soundness
    <2> QED BY <1>1, <1>2, <2>2
  <1>3. ASSUME CardChange PROVE Soundness' /\ BoardsAreWhole' BY <1>2, <1>3 DEF CardChange
  <1>4. ASSUME NEW r \in Readers, ListColumns(r) \/ ReadCards(r) \/ EndRead(r)
        PROVE  Soundness' /\ BoardsAreWhole'
    BY <1>2, <1>4 DEF ListColumns, ReadCards, EndRead
  <1>5. ASSUME NEW p \in Requests,
               \/ BeginBoard(p) \/ InsertDefault(p) \/ CommitBoard(p)
               \/ AskColumn(p) \/ ReadMax(p) \/ InsertColumn(p) \/ Cut(p)
        PROVE  Soundness' /\ BoardsAreWhole'
    <2>1. CASE BeginBoard(p) BY <1>1, <2>1, BeginKeeps DEF BeginBoard
    <2>2. CASE InsertDefault(p) BY <1>1, <2>2, InsertDefaultKeeps DEF InsertDefault
    <2>3. CASE CommitBoard(p) BY <2>3, CommitKeeps
    <2>4. CASE AskColumn(p) BY <1>1, <2>4, AskKeeps DEF AskColumn
    <2>5. CASE ReadMax(p) BY <1>1, <2>5, ReadMaxKeeps DEF ReadMax
    <2>6. CASE InsertColumn(p) BY <2>6, InsertColumnKeeps
    <2>7. CASE Cut(p) BY <1>1, <2>7, CutKeeps DEF Cut
    <2> QED BY <1>5, <2>1, <2>2, <2>3, <2>4, <2>5, <2>6, <2>7
  <1>6. ASSUME UNCHANGED treeVars PROVE Soundness' /\ BoardsAreWhole' BY <1>2, <1>6 DEF treeVars
  <1> QED BY <1>3, <1>4, <1>5, <1>6 DEF TreeNext

LEMMA TreeStart == TreeInit => Soundness /\ BoardsAreWhole
  <1> SUFFICES ASSUME TreeInit PROVE Soundness /\ BoardsAreWhole OBVIOUS
  <1>1. /\ boards = {} /\ \A k \in Columns : columns[k].board = NoBoard
        /\ \A p \in Requests : job[p] = NoJob
    BY DEF TreeInit, NoColumnRow
  <1>2. BoardsAreWhole BY <1>1, TreeConstants DEF BoardsAreWhole, ColumnsOf
  <1>3. \A p \in Requests : JobIsSound(p) BY <1>1 DEF JobIsSound, NoJob
  <1> QED BY <1>1, <1>2, <1>3 DEF Soundness
-----------------------------------------------------------------------------
Pages == TreeIsConsistent /\ \A r \in Readers : PageIsSound(r)

\* A reader's step finds the cards of its columns where they are; the changes of
\* cards in between leave those that stay.
LEMMA PagesKeep == TreeTypeOK /\ Pages /\ [TreeNext]_treeVars => Pages'
  <1> SUFFICES ASSUME TreeTypeOK, Pages, [TreeNext]_treeVars, NEW r \in Readers
               PROVE  /\ page'[r].at = "read" =>
                           /\ \A s, t \in page'[r].tree : s[1] = t[1] => s = t
                           /\ \A x \in page'[r].stayed : \E t \in page'[r].tree : t[1] = x
                      /\ page'[r].at = "listed" => \A x \in page'[r].stayed :
                           x \in Cards /\ cards'[x].col \in page'[r].cols
    BY DEF Pages, TreeIsConsistent, PageIsSound, CardsIn
  <1>1. page \in [Readers -> Page] /\ page[r] \in Page BY DEF TreeTypeOK
  <1>2. page[r].at = "read" =>
          /\ \A s, t \in page[r].tree : s[1] = t[1] => s = t
          /\ \A x \in page[r].stayed : \E t \in page[r].tree : t[1] = x
    BY DEF Pages, TreeIsConsistent
  <1>3. page[r].at = "listed" => \A x \in page[r].stayed :
          x \in Cards /\ cards[x].col \in page[r].cols
    BY DEF Pages, PageIsSound, CardsIn
  <1>4. CASE page'[r] = page[r] /\ cards' = cards
    BY <1>2, <1>3, <1>4
  <1>5. CASE ListColumns(r)
    <2>1. PICK cols : page'[r] =
            [at |-> "listed", cols |-> cols, tree |-> {}, stayed |-> CardsIn(cols)]
      BY <1>1, <1>5 DEF ListColumns
    <2>2. cards' = cards BY <1>5 DEF ListColumns
    <2> QED BY <2>1, <2>2 DEF CardsIn
  <1>6. CASE ReadCards(r)
    <2> DEFINE tree == {<<x, cards[x].col>> : x \in CardsIn(page[r].cols)}
    <2>1. page'[r] = [page[r] EXCEPT !.at = "read", !.tree = tree]
      BY <1>1, <1>6 DEF ReadCards
    <2>2. page'[r].at = "read" /\ page'[r].tree = tree /\ page'[r].stayed = page[r].stayed
      BY <1>1, <2>1 DEF Page
    <2>3. page[r].stayed \subseteq CardsIn(page[r].cols) BY <1>3, <1>6 DEF ReadCards, CardsIn
    <2>4. \A x \in page[r].stayed : <<x, cards[x].col>> \in tree BY <2>3
    <2>5. \A s, t \in tree : s[1] = t[1] => s = t OBVIOUS
    <2>6. \A x \in page[r].stayed : \E t \in tree : t[1] = x BY <2>4
    <2> HIDE DEF tree
    <2> QED BY <2>2, <2>5, <2>6
  <1>7. CASE EndRead(r)
    <2>1. page'[r] = NoPage BY <1>1, <1>7 DEF EndRead
    <2> QED BY <2>1 DEF NoPage
  <1>8. CASE CardChange
    <2>1. CASE page[r].at = "listed"
      <3> DEFINE stayed == {x \in page[r].stayed : cards'[x].col = cards[x].col}
      <3>1. page'[r] = [page[r] EXCEPT !.stayed = stayed] BY <1>8, <2>1 DEF CardChange
      <3>2. page'[r].at = "listed" /\ page'[r].cols = page[r].cols /\ page'[r].stayed = stayed
        BY <1>1, <2>1, <3>1 DEF Page
      <3>3. \A x \in stayed : x \in Cards /\ cards'[x].col \in page[r].cols
        BY <1>3, <2>1
      <3> QED BY <3>2, <3>3
    <2>2. CASE page[r].at # "listed"
      <3>1. page'[r] = page[r] BY <1>8, <2>2 DEF CardChange
      <3> QED BY <1>2, <2>2, <3>1
    <2> QED BY <2>1, <2>2
  <1>9. CASE ~CardChange /\ ~(ListColumns(r) \/ ReadCards(r) \/ EndRead(r))
    <2>1. ASSUME NEW q \in Readers \ {r}, ListColumns(q) \/ ReadCards(q) \/ EndRead(q)
          PROVE  page'[r] = page[r] /\ cards' = cards
      BY <1>1, <2>1 DEF ListColumns, ReadCards, EndRead
    <2>2. ASSUME NEW p \in Requests,
                 \/ BeginBoard(p) \/ InsertDefault(p) \/ CommitBoard(p)
                 \/ AskColumn(p) \/ ReadMax(p) \/ InsertColumn(p) \/ Cut(p)
          PROVE  page'[r] = page[r] /\ cards' = cards
      BY <2>2 DEF BeginBoard, InsertDefault, CommitBoard, AskColumn, ReadMax, InsertColumn, Cut
    <2>3. page'[r] = page[r] /\ cards' = cards
      BY <1>9, <2>1, <2>2 DEF TreeNext, treeVars
    <2> QED BY <1>4, <2>3
  <1> QED BY <1>5, <1>6, <1>7, <1>8, <1>9

LEMMA PagesStart == TreeInit => Pages
  BY DEF TreeInit, Pages, TreeIsConsistent, PageIsSound, NoPage
-----------------------------------------------------------------------------
\* The invariant: boards are whole, trees consistent, and what a request still
\* holds goes on to be true.
THEOREM TreeInvariant == TreeSpec => []TreeIInv
  <1> DEFINE Inv == TreeTypeOK /\ BoardsAreWhole /\ Soundness /\ Pages
  <1>1. TreeInit => Inv BY TreeTypesStart, TreeStart, PagesStart
  <1>2. Inv /\ [TreeNext]_treeVars => Inv' BY TreeTypesStep, TreeGrows, PagesKeep
  <1>3. Inv <=> TreeIInv BY InvIsParts DEF Pages
  <1> HIDE DEF Inv
  <1> QED BY <1>1, <1>2, <1>3, PTL DEF TreeSpec

\* Whichever creations overlap or fail, a board has all of its default columns or
\* is not there, and no position of it is out of reach.
THEOREM BoardsAlwaysWhole == TreeSpec => []BoardsAreWhole
  <1>1. TreeIInv => BoardsAreWhole BY DEF TreeIInv
  <1> QED BY <1>1, TreeInvariant, PTL

\* GetBoard's two reads show no card twice, and each that stayed.
THEOREM TreesConsistent == TreeSpec => []TreeIsConsistent
  <1>1. TreeIInv => TreeIsConsistent BY DEF TreeIInv
  <1> QED BY <1>1, TreeInvariant, PTL

\* A column goes after every column its request found.
THEOREM ColumnsFollow == TreeSpec => LaterColumnsFollow
  <1> DEFINE Follows ==
        \A p \in Requests, k \in Columns :
          job[p].at = "insert" /\ job'[p].at = "idle" /\ columns'[k] # columns[k]
            => \A x \in job[p].seen : columns[x].pos < columns'[k].pos
  <1>1. TreeIInv /\ [TreeNext]_treeVars => [Follows]_treeVars
    <2> SUFFICES ASSUME TreeIInv, TreeNext, NEW p \in Requests, NEW k \in Columns,
                        job[p].at = "insert", job'[p].at = "idle", columns'[k] # columns[k],
                        NEW x \in job[p].seen
                 PROVE  columns[x].pos < columns'[k].pos
      OBVIOUS
    <2>1. TreeTypeOK /\ JobIsSound(p) BY DEF TreeIInv
    <2>2. columns[x].pos < job[p].pos BY <2>1 DEF JobIsSound
    <2>3. CASE InsertColumn(p)
      <3>1. columns'[k].pos = job[p].pos
        <4>1. PICK n \in Columns :
                columns' = [columns EXCEPT ![n] = [board |-> job[p].board, pos |-> job[p].pos]]
          BY <2>3 DEF InsertColumn, UnusedColumns, ColumnsOf
        <4> QED BY <2>1, <4>1 DEF TreeTypeOK
      <3> QED BY <2>2, <3>1
    <2>4. ASSUME NEW q \in Requests \ {p},
                 \/ BeginBoard(q) \/ InsertDefault(q) \/ CommitBoard(q)
                 \/ AskColumn(q) \/ ReadMax(q) \/ InsertColumn(q) \/ Cut(q)
          PROVE  job'[p] = job[p]
      BY <2>1, <2>4 DEF TreeTypeOK, BeginBoard, InsertDefault, CommitBoard, AskColumn, ReadMax,
                        InsertColumn, Cut
    <2>5. CASE \/ BeginBoard(p) \/ InsertDefault(p) \/ CommitBoard(p)
               \/ AskColumn(p) \/ ReadMax(p) \/ Cut(p)
      BY <2>5 DEF BeginBoard, InsertDefault, CommitBoard, AskColumn, ReadMax, Cut
    <2>6. CASE CardChange \/ \E r \in Readers : ListColumns(r) \/ ReadCards(r) \/ EndRead(r)
      BY <2>6 DEF CardChange, ListColumns, ReadCards, EndRead
    <2> QED BY <2>3, <2>4, <2>5, <2>6 DEF TreeNext
  <1> QED BY <1>1, TreeInvariant, PTL DEF TreeSpec, LaterColumnsFollow

\* Boards and columns coming and going to be read leave the cards to SerialBoard:
\* what is proved of it holds here.
THEOREM TreeCardsAreSerial == TreeSpec => Spec
  <1>1. TreeIInv => TreeTypeOK BY DEF TreeIInv
  <1> QED BY <1>1, CardsStart, CardsGoOn, TreeInvariant, PTL DEF TreeSpec, Spec
=============================================================================
