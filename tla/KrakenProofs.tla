----------------------------- MODULE KrakenProofs -----------------------------
(***************************************************************************)
(* Theorems about the incremental book of kraken.rs, for any number of     *)
(* prices and any depth: what the checksum is worth, and that it never     *)
(* gives a false alarm.                                                    *)
(***************************************************************************)
EXTENDS Kraken, WellFoundedInduction, FiniteSetTheorems, TLAPS

LEMMA LeastNatural ==
  ASSUME NEW T \in SUBSET Nat, T # {}
  PROVE  \E m \in T : \A k \in T : m <= k
  <1>1. PICK m \in T : \A k \in T : <<k, m>> \notin OpToRel(<, Nat)
    BY WFMin, NatLessThanWellFounded, Zenon
  <1>2. \A k \in T : ~(k < m)
    BY <1>1, Zenon DEF OpToRel
  <1> QED
    BY <1>2

LEMMA NaturalsByInduction ==
  ASSUME NEW S \in SUBSET Nat, 0 \in S, \A n \in S : n + 1 \in S
  PROVE  S = Nat
  <1> SUFFICES ASSUME Nat \ S # {} PROVE FALSE
    OBVIOUS
  <1>1. PICK m \in Nat \ S : \A k \in Nat \ S : m <= k
    BY LeastNatural
  <1>2. m # 0 /\ m - 1 \in Nat
    BY <1>1
  <1>3. m - 1 \in S
    BY <1>1, <1>2
  <1> QED
    BY <1>2, <1>3

----------------------------------------------------------------------------
(* The best Depth levels of a book. *)

(* The prices of a side that stand before q. *)
Ahead(b, side, q) == {p \in Price : b[<<side, p>>] # 0 /\ Better(side, p, q)}

LEMMA AheadFinite ==
  ASSUME NEW b, NEW side, NEW q
  PROVE  IsFiniteSet(Ahead(b, side, q)) /\ Cardinality(Ahead(b, side, q)) \in Nat
<1>1. Ahead(b, side, q) \subseteq Price
  BY DEF Ahead
<1> QED BY <1>1, FS_Subset, FS_CardinalityType, KrakenAssumption

(* Cutting off leaves no more prices ahead of one than there were. *)
LEMMA TopAhead ==
  ASSUME NEW b, NEW side \in Side, NEW q
  PROVE  Cardinality(Ahead(Top(b), side, q)) <= Cardinality(Ahead(b, side, q))
<1>1. Ahead(Top(b), side, q) \subseteq Ahead(b, side, q)
  <2> SUFFICES ASSUME NEW p \in Price, Top(b)[<<side, p>>] # 0
               PROVE  b[<<side, p>>] # 0
    BY DEF Ahead
  <2>1. <<side, p>> \in Cells
    BY DEF Cells
  <2>2. Top(b)[<<side, p>>] \in {b[<<side, p>>], 0}
    BY <2>1 DEF Top
  <2> QED BY <2>2
<1> QED BY <1>1, AheadFinite, FS_Subset


(* When Depth prices stand before q, Depth of them are among the best.     *)
LEMMA EnoughAhead ==
  ASSUME NEW b, NEW side \in Side, NEW q \in Price,
         Cardinality(Ahead(b, side, q)) >= Depth
  PROVE  Cardinality(Ahead(Top(b), side, q)) >= Depth
<1> DEFINE A == Ahead(b, side, q)
           T == Ahead(Top(b), side, q)
           Place(p) == Cardinality(Ahead(b, side, p))
           places == {Place(p) : p \in A \ T}
<1>1. /\ IsFiniteSet(A) /\ IsFiniteSet(T)
      /\ Cardinality(A) \in Nat /\ Cardinality(T) \in Nat
      /\ \A p \in Price : IsFiniteSet(Ahead(b, side, p)) /\ Place(p) \in Nat
  BY AheadFinite
<1>2. ASSUME NEW p \in Price
      PROVE  p \in T <=> p \in A /\ Place(p) < Depth
  <2>1. <<side, p>> \in Cells /\ <<side, p>>[1] = side /\ <<side, p>>[2] = p
    BY DEF Cells
  <2>2. Top(b)[<<side, p>>] = IF Place(p) < Depth THEN b[<<side, p>>] ELSE 0
    BY <2>1 DEF Top, Ahead
  <2> QED
    BY <2>2 DEF Ahead
<1>3. A \subseteq Price /\ T \subseteq Price
  BY DEF Ahead
<1> SUFFICES ASSUME Cardinality(T) < Depth
             PROVE  FALSE
  BY <1>1, KrakenAssumption
<1>4. A \ T # {}
  <2> SUFFICES ASSUME A \subseteq T PROVE FALSE
    OBVIOUS
  <2>1. Cardinality(A) <= Cardinality(T)
    BY <1>1, FS_Subset
  <2> QED
    BY <1>1, <2>1, KrakenAssumption
<1>5. places \in SUBSET Nat /\ places # {}
  BY <1>1, <1>3, <1>4
<1>6. PICK m \in places : \A k \in places : m <= k
  BY <1>5, LeastNatural
<1>7. PICK p \in A \ T : m = Place(p)
  BY <1>6
<1>8. p \in Price /\ Place(p) \in Nat /\ Place(p) >= Depth
  BY <1>1, <1>2, <1>3, <1>7, KrakenAssumption
<1>9. Ahead(b, side, p) \subseteq T
  <2> SUFFICES ASSUME NEW r \in Ahead(b, side, p), r \notin T
               PROVE  FALSE
    OBVIOUS
  <2>1. r \in Price /\ b[<<side, r>>] # 0 /\ Better(side, r, p) /\ Better(side, p, q)
    BY <1>7 DEF Ahead
  <2>2. /\ Better(side, r, q) /\ r \notin Ahead(b, side, r)
        /\ Ahead(b, side, r) \subseteq Ahead(b, side, p)
    BY <1>8, <2>1, KrakenAssumption DEF Better, Ahead
  <2>3. r \in A \ T
    BY <2>1, <2>2 DEF Ahead
  <2>4. Place(r) < Place(p)
    <3>1. Ahead(b, side, r) # Ahead(b, side, p)
      BY <2>2
    <3>2. Place(r) <= Place(p) /\ (Place(r) = Place(p) => Ahead(b, side, r) = Ahead(b, side, p))
      BY <1>1, <1>8, <2>2, FS_Subset
    <3> QED
      BY <1>1, <1>8, <2>1, <3>1, <3>2
  <2>5. Place(p) <= Place(r)
    BY <1>6, <1>7, <2>3
  <2> QED
    BY <1>1, <1>8, <2>1, <2>4, <2>5
<1>10. Place(p) <= Cardinality(T)
  BY <1>1, <1>9, FS_Subset
<1> QED
  BY <1>1, <1>8, <1>10, KrakenAssumption

(* A book that has the best levels of another and no price the other lacks *)
(* has the same best levels.                                               *)
LEMMA SameTop ==
  ASSUME NEW a, NEW b,
         \A c \in Cells : /\ Top(b)[c] # 0 => a[c] = b[c]
                          /\ a[c] # 0 => b[c] # 0
  PROVE  Top(a) = Top(b)
<1>1. ASSUME NEW c \in Cells
      PROVE  Top(a)[c] = Top(b)[c]
  <2>1. c[1] \in Side /\ c[2] \in Price /\ c = <<c[1], c[2]>>
    BY DEF Cells
  <2>2. /\ Top(a)[c] = IF Cardinality(Ahead(a, c[1], c[2])) < Depth THEN a[c] ELSE 0
        /\ Top(b)[c] = IF Cardinality(Ahead(b, c[1], c[2])) < Depth THEN b[c] ELSE 0
    BY DEF Top, Ahead
  <2>3. /\ Cardinality(Ahead(a, c[1], c[2])) \in Nat
        /\ Cardinality(Ahead(b, c[1], c[2])) \in Nat
        /\ Cardinality(Ahead(Top(b), c[1], c[2])) \in Nat
        /\ IsFiniteSet(Ahead(a, c[1], c[2])) /\ IsFiniteSet(Ahead(b, c[1], c[2]))
    BY AheadFinite
  <2>4. \A p \in Price : <<c[1], p>> \in Cells
    BY <2>1 DEF Cells
  <2>5. Ahead(a, c[1], c[2]) \subseteq Ahead(b, c[1], c[2])
    BY <2>4 DEF Ahead
  <2>6. Ahead(Top(b), c[1], c[2]) \subseteq Ahead(a, c[1], c[2])
    <3> SUFFICES ASSUME NEW p \in Price, Top(b)[<<c[1], p>>] # 0
                 PROVE  a[<<c[1], p>>] # 0
      BY DEF Ahead
    <3>1. a[<<c[1], p>>] = b[<<c[1], p>>]
      BY <2>4
    <3>2. Top(b)[<<c[1], p>>] \in {b[<<c[1], p>>], 0}
      BY <2>4 DEF Top
    <3> QED
      BY <3>1, <3>2
  <2>7. Cardinality(Ahead(a, c[1], c[2])) <= Cardinality(Ahead(b, c[1], c[2]))
    BY <2>3, <2>5, FS_Subset
  <2>8. Cardinality(Ahead(Top(b), c[1], c[2])) <= Cardinality(Ahead(a, c[1], c[2]))
    BY <2>3, <2>6, FS_Subset
  <2>9. CASE Top(b)[c] # 0
    BY <2>2, <2>3, <2>7, <2>9, KrakenAssumption
  <2>10. CASE Top(b)[c] = 0 /\ b[c] = 0
    BY <2>2, <2>10
  <2>11. CASE Top(b)[c] = 0 /\ b[c] # 0
    <3>1. Cardinality(Ahead(b, c[1], c[2])) >= Depth
      BY <2>2, <2>3, <2>11, KrakenAssumption
    <3>2. Cardinality(Ahead(Top(b), c[1], c[2])) >= Depth
      BY <2>1, <3>1, EnoughAhead
    <3> QED
      BY <2>2, <2>3, <2>8, <2>11, <3>2, KrakenAssumption
  <2> QED
    BY <2>9, <2>10, <2>11
<1>2. Top(a) = [c \in Cells |-> Top(a)[c]] /\ Top(b) = [c \in Cells |-> Top(b)[c]]
  BY DEF Top
<1> QED
  BY <1>1, <1>2

(* What was cut off to the best Depth levels is not cut off again. *)
LEMMA TopIdempotent ==
  ASSUME NEW b
  PROVE  Top(Top(b)) = Top(b)
<1>1. \A c \in Cells : Top(b)[c] \in {b[c], 0}
  BY DEF Top
<1> QED
  BY <1>1, SameTop

LEMMA TopType ==
  ASSUME NEW b \in KrakenBook
  PROVE  Top(b) \in KrakenBook
BY DEF Top, KrakenBook

(* held with the given cells as b has them. *)
Overlaid(b, cells, held) == [c \in Cells |-> IF c \in cells THEN b[c] ELSE held[c]]

(* The cells an update mentions, overlaid on the old best levels, give the *)
(* new best levels, whatever fell out of them or came back.                *)
LEMMA MentionedIsEnough ==
  ASSUME NEW old \in KrakenBook, NEW new \in KrakenBook
  PROVE  Top(Overlaid(new, Mentioned(old, new), Top(old))) = Top(new)
<1> DEFINE a == Overlaid(new, Mentioned(old, new), Top(old))
<1>1. ASSUME NEW c \in Cells
      PROVE  /\ Top(new)[c] # 0 => a[c] = new[c]
             /\ a[c] # 0 => new[c] # 0
  <2>1. Top(new)[c] \in {new[c], 0}
    BY DEF Top
  <2>2. CASE c \in Mentioned(old, new)
    BY <2>2 DEF Overlaid
  <2>3. CASE c \notin Mentioned(old, new)
    <3>1. a[c] = Top(old)[c]
      BY <2>3 DEF Overlaid
    <3> QED
      BY <2>1, <2>3, <3>1 DEF Mentioned
  <2> QED
    BY <2>2, <2>3
<1> HIDE DEF a
<1>2. Top(a) = Top(new)
  BY <1>1, SameTop
<1> QED
  BY <1>2 DEF a

----------------------------------------------------------------------------
(* What apply_update does to a cell. *)

Cell(level) == <<level.side, level.price>>

(* The recursive function in Steps exists, so its equation holds. *)
LEMMA StepsUnfold ==
  ASSUME NEW b, NEW levels, Len(levels) \in Nat
  PROVE  /\ Steps(b, levels)[0] = b
         /\ \A n \in 1..Len(levels) :
              Steps(b, levels)[n] = Upsert(Steps(b, levels)[n - 1], levels[n])
  <1> DEFINE Goes(f, n) ==
               f = [k \in 0..n |-> IF k = 0 THEN b ELSE Upsert(f[k - 1], levels[k])]
             S == {n \in Nat : \E f : Goes(f, n)}
  <1>1. 0 \in S
    <2> DEFINE f == [k \in 0..0 |-> b]
    <2>1. Goes(f, 0)
      OBVIOUS
    <2> QED
      BY <2>1
  <1>2. ASSUME NEW n \in S PROVE n + 1 \in S
    <2>1. PICK f : Goes(f, n)
      OBVIOUS
    <2> DEFINE g == [k \in 0..(n + 1) |-> IF k = 0 THEN b ELSE Upsert(f[k - 1], levels[k])]
    <2>2. \A k \in 0..n : g[k] = f[k]
      BY <2>1
    <2>3. Goes(g, n + 1)
      <3>1. \A k \in 0..(n + 1) :
              g[k] = IF k = 0 THEN b ELSE Upsert(g[k - 1], levels[k])
        <4> SUFFICES ASSUME NEW k \in 0..(n + 1), k # 0
                     PROVE  g[k] = Upsert(g[k - 1], levels[k])
          OBVIOUS
        <4>1. k - 1 \in 0..n
          OBVIOUS
        <4>2. g[k - 1] = f[k - 1]
          BY <2>2, <4>1
        <4> HIDE DEF Goes
        <4>3. g[k] = Upsert(f[k - 1], levels[k])
          OBVIOUS
        <4> QED
          BY <4>2, <4>3
      <3>2. DOMAIN g = 0..(n + 1)
        OBVIOUS
      <3> QED
        BY <3>1, <3>2
    <2> HIDE DEF g, Goes
    <2> QED
      BY <2>3
  <1> HIDE DEF S
  <1>3. S = Nat
    <2>1. S \in SUBSET Nat
      BY DEF S
    <2> QED
      BY <1>1, <1>2, <2>1, NaturalsByInduction
  <1>4. \E f : Goes(f, Len(levels))
    BY <1>3 DEF S
  <1>5. Goes(Steps(b, levels), Len(levels))
    <2>1. Steps(b, levels) = CHOOSE f : Goes(f, Len(levels))
      BY DEF Steps
    <2> HIDE DEF Goes
    <2> QED
      BY <1>4, <2>1
  <1> QED
    BY <1>5

(* After n levels a cell holds what some level of them says, the same for  *)
(* every book to start with, or what it held before.                       *)
Settled(levels, n, c) ==
  \/ /\ \A i \in 1..n : Cell(levels[i]) # c
     /\ \A b \in KrakenBook : Steps(b, levels)[n][c] = b[c]
  \/ \E i \in 1..n :
       /\ Cell(levels[i]) = c
       /\ \A b \in KrakenBook : Steps(b, levels)[n][c] = levels[i].qty

LEMMA StepsSettle ==
  ASSUME NEW levels \in Seq(WireLevel)
  PROVE  \A n \in 0..Len(levels) :
           /\ \A b \in KrakenBook : Steps(b, levels)[n] \in KrakenBook
           /\ \A c \in Cells : Settled(levels, n, c)
  <1> DEFINE P(n) == /\ \A b \in KrakenBook : Steps(b, levels)[n] \in KrakenBook
                     /\ \A c \in Cells : Settled(levels, n, c)
             S == {n \in Nat : n <= Len(levels) => P(n)}
  <1>a. Len(levels) \in Nat
    OBVIOUS
  <1>1. 0 \in S
    <2>1. \A b \in KrakenBook : Steps(b, levels)[0] = b
      BY <1>a, StepsUnfold
    <2> QED
      BY <2>1 DEF Settled
  <1>2. ASSUME NEW n \in S PROVE n + 1 \in S
    <2> SUFFICES ASSUME n + 1 <= Len(levels)
                 PROVE  P(n + 1)
      OBVIOUS
    <2>1. /\ \A b \in KrakenBook : Steps(b, levels)[n] \in KrakenBook
          /\ \A c \in Cells : Settled(levels, n, c)
      BY <1>a
    <2> DEFINE l == levels[n + 1]
    <2>2. /\ l.side \in Side /\ l.price \in Price /\ l.qty \in Qty \cup {0}
          /\ Cell(l) \in Cells
      <3>1. l \in WireLevel
        BY <1>a
      <3> HIDE DEF l
      <3> QED
        BY <3>1 DEF WireLevel, Cell, Cells
    <2>3. \A b \in KrakenBook :
            Steps(b, levels)[n + 1] = [Steps(b, levels)[n] EXCEPT ![Cell(l)] = l.qty]
      <3>1. n + 1 \in 1..Len(levels) /\ (n + 1) - 1 = n
        BY <1>a
      <3>2. \A b : Steps(b, levels)[n + 1] = Upsert(Steps(b, levels)[n], levels[n + 1])
        BY <1>a, <3>1, StepsUnfold
      <3> QED
        BY <3>2 DEF Upsert, Cell
    <2> HIDE DEF l
    <2>4. ASSUME NEW b \in KrakenBook
          PROVE  /\ Steps(b, levels)[n + 1] \in KrakenBook
                 /\ \A c \in Cells :
                      Steps(b, levels)[n + 1][c] = IF c = Cell(l) THEN l.qty
                                                   ELSE Steps(b, levels)[n][c]
      <3>1. Steps(b, levels)[n] \in [Cells -> Qty \cup {0}]
        BY <2>1 DEF KrakenBook
      <3>2. Steps(b, levels)[n + 1] = [Steps(b, levels)[n] EXCEPT ![Cell(l)] = l.qty]
        BY <2>3
      <3> QED
        BY <2>2, <3>1, <3>2 DEF KrakenBook
    <2>5. ASSUME NEW c \in Cells
          PROVE  Settled(levels, n + 1, c)
      <3>1. \A i \in 1..(n + 1) : i \in 1..n \/ (i = n + 1 /\ levels[i] = l)
        BY DEF l
      <3>2. n + 1 \in 1..(n + 1) /\ levels[n + 1] = l /\ 1..n \subseteq 1..(n + 1)
        BY DEF l
      <3>3. CASE c = Cell(l)
        BY <2>4, <3>2, <3>3 DEF Settled
      <3>4. CASE c # Cell(l)
        <4>1. \A b \in KrakenBook : Steps(b, levels)[n + 1][c] = Steps(b, levels)[n][c]
          BY <2>4, <3>4
        <4>2. Settled(levels, n, c)
          BY <2>1
        <4>3. CASE /\ \A i \in 1..n : Cell(levels[i]) # c
                   /\ \A b \in KrakenBook : Steps(b, levels)[n][c] = b[c]
          BY <3>1, <3>4, <4>1, <4>3 DEF Settled
        <4>4. CASE \E i \in 1..n :
                     /\ Cell(levels[i]) = c
                     /\ \A b \in KrakenBook : Steps(b, levels)[n][c] = levels[i].qty
          BY <3>2, <4>1, <4>4 DEF Settled
        <4> QED
          BY <4>2, <4>3, <4>4 DEF Settled
      <3> QED
        BY <3>3, <3>4
    <2> QED
      BY <2>4, <2>5
  <1>3. S = Nat
    <2>1. S \in SUBSET Nat
      OBVIOUS
    <2> HIDE DEF S
    <2> QED
      BY <1>1, <1>2, <2>1, NaturalsByInduction
  <1> QED
    <2> SUFFICES ASSUME NEW n \in 0..Len(levels) PROVE P(n)
      OBVIOUS
    <2>1. n \in S
      <3> HIDE DEF S
      <3> QED
        BY <1>3
    <2> QED
      BY <2>1

(* What UpToGarbled leaves can be read.                                    *)
LEMMA ReadablePart ==
  ASSUME NEW levels \in Seq(WireLevel \cup {Garbled})
  PROVE  /\ UpToGarbled(levels) \in Seq(WireLevel)
         /\ Readable(levels) <=> levels \in Seq(WireLevel)
         /\ Readable(levels) => UpToGarbled(levels) = levels
  <1> DEFINE I == {i \in 1..Len(levels) : levels[i] = Garbled}
             first == SelectInSeq(levels, LAMBDA l : l = Garbled)
  <1>1. first = IF I # {} THEN Min(I) ELSE 0
    BY DEF SelectInSeq
  <1>2. Len(levels) \in Nat
    OBVIOUS
  <1>3. CASE I = {}
    <2>1. first = 0
      BY <1>1, <1>3
    <2>2. levels \in Seq(WireLevel)
      <3>1. \A i \in 1..Len(levels) : levels[i] \in WireLevel
        BY <1>3
      <3> QED
        BY <3>1
    <2> HIDE DEF first
    <2>3. Readable(levels)
      BY <2>1 DEF Readable, first
    <2> QED
      BY <2>2, <2>3 DEF UpToGarbled
  <1>4. CASE I # {}
    <2>1. PICK m \in I : \A k \in I : m <= k
      <3>1. I \in SUBSET Nat
        BY <1>2
      <3> QED
        BY <1>4, <3>1, LeastNatural
    <2>2. Min(I) = m
      <3>1. Min(I) \in I /\ \A k \in I : Min(I) <= k
        BY <2>1 DEF Min
      <3> QED
        BY <1>2, <2>1, <3>1
    <2>3. first = m /\ m \in 1..Len(levels) /\ levels[m] = Garbled
      BY <1>1, <1>4, <2>1, <2>2
    <2> HIDE DEF first
    <2>4. ~Readable(levels)
      BY <2>3 DEF Readable, first
    <2>5. UpToGarbled(levels) = SubSeq(levels, 1, m - 1)
      BY <2>3, <2>4 DEF UpToGarbled, first
    <2>6. \A i \in 1..(m - 1) : levels[i] \in WireLevel
      BY <1>2, <2>1, <2>3
    <2>7. SubSeq(levels, 1, m - 1) \in Seq(WireLevel)
      BY <1>2, <2>3, <2>6
    <2>8. levels \notin Seq(WireLevel)
      BY <2>3, NamesAssumption
    <2> QED
      BY <2>4, <2>5, <2>7, <2>8
  <1> QED
    BY <1>3, <1>4

LEMMA AppliedType ==
  ASSUME NEW b \in KrakenBook, NEW levels \in Seq(WireLevel \cup {Garbled})
  PROVE  Applied(b, levels) \in KrakenBook
  <1> DEFINE r == UpToGarbled(levels)
  <1>1. r \in Seq(WireLevel) /\ Len(r) \in 0..Len(r)
    BY ReadablePart
  <1> HIDE DEF r
  <1>2. Steps(b, r)[Len(r)] \in KrakenBook
    BY <1>1, StepsSettle
  <1> QED
    BY <1>2 DEF Applied, r

(* Applied to two books, readable levels leave the same in every cell they *)
(* mention, and in any other what each book held.                          *)
LEMMA AppliedSettles ==
  ASSUME NEW levels \in Seq(WireLevel), NEW c \in Cells
  PROVE  \/ /\ \A i \in 1..Len(levels) : Cell(levels[i]) # c
            /\ \A b \in KrakenBook : Applied(b, levels)[c] = b[c]
         \/ \E i \in 1..Len(levels) :
              /\ Cell(levels[i]) = c
              /\ \A b \in KrakenBook : Applied(b, levels)[c] = levels[i].qty
  <1>1. UpToGarbled(levels) = levels
    <2>1. levels \in Seq(WireLevel \cup {Garbled})
      OBVIOUS
    <2> QED
      BY <2>1, ReadablePart
  <1>2. \A b : Applied(b, levels) = Steps(b, levels)[Len(levels)]
    BY <1>1 DEF Applied
  <1>3. Settled(levels, Len(levels), c)
    <2>1. Len(levels) \in 0..Len(levels)
      OBVIOUS
    <2> QED
      BY <2>1, StepsSettle
  <1> QED
    BY <1>2, <1>3 DEF Settled

----------------------------------------------------------------------------
(* The messages of the venue. *)

LEMMA SeqsCover ==
  ASSUME NEW T, IsFiniteSet(T), NEW f \in SetToSeqs(T)
  PROVE  /\ f \in Seq(T)
         /\ \A x \in T : \E i \in 1..Len(f) : f[i] = x
  <1> DEFINE D == 1..Cardinality(T)
  <1>1. Cardinality(T) \in Nat /\ IsFiniteSet(D) /\ Cardinality(D) = Cardinality(T)
    BY FS_CardinalityType, FS_Interval
  <1>2. f \in [D -> T] /\ \A i, j \in D : i # j => f[i] # f[j]
    BY DEF SetToSeqs
  <1>3. f \in Injection(D, T)
    BY <1>2 DEF Injection, IsInjective
  <1>4. f \in Surjection(D, T)
    BY <1>1, <1>3, FS_Injection
  <1>5. f \in Seq(T) /\ Len(f) = Cardinality(T)
    BY <1>1, <1>2
  <1> QED
    BY <1>4, <1>5 DEF Surjection

LEMMA CellsFinite == IsFiniteSet(Cells)
  <1>1. IsFiniteSet(Side)
    <2>1. IsFiniteSet({"bids"}) /\ Side = {"bids"} \cup {"asks"}
      BY FS_Singleton DEF Side
    <2> QED
      BY <2>1, FS_AddElement
  <1> QED
    BY <1>1, FS_Product, KrakenAssumption DEF Cells

(* A message of the venue lists exactly the cells it is made for, each     *)
(* with the quantity the venue has there.                                  *)
Lists(msg, kind, b, cells) ==
  /\ msg = [kind |-> kind, levels |-> msg.levels, checksum |-> Top(b)]
  /\ msg.levels \in Seq(WireLevel)
  /\ \A i \in 1..Len(msg.levels) : \E c \in cells : msg.levels[i] = Level(b, c)
  /\ \A c \in cells : \E i \in 1..Len(msg.levels) : msg.levels[i] = Level(b, c)

LEMMA MessageLists ==
  ASSUME NEW kind, NEW b \in KrakenBook, NEW cells, cells \subseteq Cells,
         NEW msg \in Messages(kind, b, cells)
  PROVE  Lists(msg, kind, b, cells)
  <1> DEFINE B == {c \in cells : c[1] = "bids"}
             A == {c \in cells : c[1] = "asks"}
  <1>1. PICK order \in SetToSeqs(B) \X SetToSeqs(A) :
          msg = MessageOf(kind, b, order[1], order[2])
    BY DEF Messages
  <1>a. PICK bids \in SetToSeqs(B) :
          \E asks \in SetToSeqs(A) : msg = MessageOf(kind, b, bids, asks)
    BY <1>1
  <1>2. PICK asks \in SetToSeqs(A) : msg = MessageOf(kind, b, bids, asks)
    BY <1>a
  <1> DEFINE bs == [i \in DOMAIN bids |-> Level(b, bids[i])]
             as == [i \in DOMAIN asks |-> Level(b, asks[i])]
  <1>3. IsFiniteSet(A) /\ IsFiniteSet(B)
    BY CellsFinite, FS_Subset
  <1>6. \A c \in cells : c \in A \/ c \in B
    BY DEF Cells, Side
  <1> HIDE DEF A
  <1> HIDE DEF B
  <1>4. /\ bids \in Seq(B) /\ \A c \in B : \E i \in 1..Len(bids) : bids[i] = c
        /\ asks \in Seq(A) /\ \A c \in A : \E i \in 1..Len(asks) : asks[i] = c
    BY <1>3, SeqsCover
  <1>5. \A c \in Cells : Level(b, c) \in WireLevel
    BY DEF Cells, KrakenBook, Level, WireLevel
  <1>7. A \subseteq cells /\ B \subseteq cells
    BY DEF A, B
  <1>8. /\ bs \in Seq(WireLevel) /\ Len(bs) = Len(bids) /\ Len(bids) \in Nat
        /\ \A i \in 1..Len(bids) : bids[i] \in B /\ bs[i] = Level(b, bids[i])
    <2>1. Len(bids) \in Nat /\ DOMAIN bids = 1..Len(bids) /\ \A i \in 1..Len(bids) : bids[i] \in B
      BY <1>4
    <2>2. bs \in [1..Len(bids) -> WireLevel]
      BY <1>5, <1>7, <2>1
    <2> QED
      BY <2>1, <2>2
  <1>9. /\ as \in Seq(WireLevel) /\ Len(as) = Len(asks) /\ Len(asks) \in Nat
        /\ \A i \in 1..Len(asks) : asks[i] \in A /\ as[i] = Level(b, asks[i])
    <2>1. Len(asks) \in Nat /\ DOMAIN asks = 1..Len(asks) /\ \A i \in 1..Len(asks) : asks[i] \in A
      BY <1>4
    <2>2. as \in [1..Len(asks) -> WireLevel]
      BY <1>5, <1>7, <2>1
    <2> QED
      BY <2>1, <2>2
  <1>10. /\ msg.levels = bs \o as
         /\ msg = [kind |-> kind, levels |-> msg.levels, checksum |-> Top(b)]
    BY <1>2 DEF Checksum, MessageOf
  <1> HIDE DEF bs
  <1> HIDE DEF as
  <1>11. /\ bs \o as \in Seq(WireLevel) /\ Len(bs \o as) = Len(bids) + Len(asks)
         /\ \A i \in 1..Len(bids) : (bs \o as)[i] = bs[i]
         /\ \A i \in 1..Len(asks) : (bs \o as)[Len(bids) + i] = as[i]
    <2>1. ASSUME NEW x \in Seq(WireLevel), NEW y \in Seq(WireLevel)
          PROVE  /\ x \o y \in Seq(WireLevel) /\ Len(x \o y) = Len(x) + Len(y)
                 /\ \A i \in 1..Len(x) : (x \o y)[i] = x[i]
                 /\ \A i \in 1..Len(y) : (x \o y)[Len(x) + i] = y[i]
      OBVIOUS
    <2>2. bs \in Seq(WireLevel) /\ as \in Seq(WireLevel)
      BY <1>8, <1>9
    <2>3. Len(bs) = Len(bids) /\ Len(as) = Len(asks)
      BY <1>8, <1>9
    <2>4. /\ bs \o as \in Seq(WireLevel) /\ Len(bs \o as) = Len(bs) + Len(as)
          /\ \A i \in 1..Len(bs) : (bs \o as)[i] = bs[i]
          /\ \A i \in 1..Len(as) : (bs \o as)[Len(bs) + i] = as[i]
      BY <2>1, <2>2, Zenon
    <2> QED
      BY <2>3, <2>4, Zenon
  <1>12. ASSUME NEW i \in 1..Len(bs \o as)
         PROVE  \E c \in cells : (bs \o as)[i] = Level(b, c)
    <2>1. CASE i \in 1..Len(bids)
      BY <1>7, <1>8, <1>11, <2>1
    <2>2. CASE i \notin 1..Len(bids)
      <3>1. i - Len(bids) \in 1..Len(asks) /\ i = Len(bids) + (i - Len(bids))
        BY <1>8, <1>9, <1>11, <2>2
      <3>2. (bs \o as)[i] = as[i - Len(bids)]
        BY <1>11, <3>1
      <3> QED
        BY <1>7, <1>9, <3>1, <3>2
    <2> QED
      BY <2>1, <2>2
  <1>13. ASSUME NEW c \in cells
         PROVE  \E i \in 1..Len(bs \o as) : (bs \o as)[i] = Level(b, c)
    <2>1. CASE c \in B
      <3>1. PICK i \in 1..Len(bids) : bids[i] = c
        BY <1>4, <2>1
      <3>2. i \in 1..Len(bs \o as)
        BY <1>8, <1>9, <1>11
      <3>3. (bs \o as)[i] = Level(b, c)
        BY <1>8, <1>11, <3>1
      <3> QED
        BY <3>2, <3>3
    <2>2. CASE c \in A
      <3>1. PICK i \in 1..Len(asks) : asks[i] = c
        BY <1>4, <2>2
      <3>2. Len(bids) + i \in 1..Len(bs \o as)
        BY <1>8, <1>9, <1>11
      <3>3. (bs \o as)[Len(bids) + i] = Level(b, c)
        BY <1>9, <1>11, <3>1
      <3> QED
        BY <3>2, <3>3
    <2> QED
      BY <1>6, <2>1, <2>2
  <1> QED
    <2>1. msg.levels \in Seq(WireLevel)
      BY <1>10, <1>11
    <2>2. \A i \in 1..Len(msg.levels) : \E c \in cells : msg.levels[i] = Level(b, c)
      BY <1>10, <1>12
    <2>3. \A c \in cells : \E i \in 1..Len(msg.levels) : msg.levels[i] = Level(b, c)
      BY <1>10, <1>13
    <2> QED
      BY <1>10, <2>1, <2>2, <2>3 DEF Lists

LEMMA AppliedMessage ==
  ASSUME NEW kind, NEW b \in KrakenBook, NEW cells, cells \subseteq Cells,
         NEW msg \in Messages(kind, b, cells), NEW held \in KrakenBook
  PROVE  Applied(held, msg.levels) = Overlaid(b, cells, held)
  <1>1. /\ msg.levels \in Seq(WireLevel)
        /\ \A i \in 1..Len(msg.levels) : \E c \in cells : msg.levels[i] = Level(b, c)
        /\ \A c \in cells : \E i \in 1..Len(msg.levels) : msg.levels[i] = Level(b, c)
    <2>1. Lists(msg, kind, b, cells)
      BY MessageLists
    <2> QED
      BY <2>1 DEF Lists
  <1>2. \A c \in Cells : Cell(Level(b, c)) = c /\ Level(b, c).qty = b[c]
    BY DEF Cells, Cell, Level
  <1>3. ASSUME NEW c \in Cells
        PROVE  Applied(held, msg.levels)[c] = IF c \in cells THEN b[c] ELSE held[c]
    <2>1. CASE /\ \A i \in 1..Len(msg.levels) : Cell(msg.levels[i]) # c
               /\ \A x \in KrakenBook : Applied(x, msg.levels)[c] = x[c]
      BY <1>1, <1>2, <2>1
    <2>2. CASE \E i \in 1..Len(msg.levels) :
                 /\ Cell(msg.levels[i]) = c
                 /\ \A x \in KrakenBook : Applied(x, msg.levels)[c] = msg.levels[i].qty
      <3>1. PICK i \in 1..Len(msg.levels) :
              /\ Cell(msg.levels[i]) = c
              /\ Applied(held, msg.levels)[c] = msg.levels[i].qty
        BY <2>2
      <3>2. PICK d \in cells : msg.levels[i] = Level(b, d)
        BY <1>1
      <3>3. d = c /\ msg.levels[i].qty = b[c]
        BY <1>2, <3>1, <3>2
      <3> QED
        BY <3>1, <3>2, <3>3
    <2> QED
      BY <1>1, <2>1, <2>2, AppliedSettles
  <1>4. Applied(held, msg.levels) \in KrakenBook
    <2>1. msg.levels \in Seq(WireLevel \cup {Garbled})
      BY <1>1
    <2> QED
      BY <2>1, AppliedType
  <1> QED
    BY <1>3, <1>4 DEF KrakenBook, Overlaid

LEMMA EmptyBookType == EmptyBook \in KrakenBook
  BY DEF EmptyBook, KrakenBook

LEMMA Intact ==
  ASSUME NEW levels \in Seq(WireLevel)
  PROVE  Readable(levels)
  <1>1. levels \in Seq(WireLevel \cup {Garbled})
    OBVIOUS
  <1> QED
    BY <1>1, ReadablePart

(* A snapshot that arrives intact is accepted, whatever was held before.   *)
LEMMA SnapshotAccepted ==
  ASSUME NEW held, NEW b \in KrakenBook, NEW msg \in Messages("snapshot", b, Best(b))
  PROVE  Parsed(held, msg) = Outcome(Top(b), Top(b))
  <1>1. Best(b) \subseteq Cells
    BY DEF Best
  <1>2. /\ msg.kind = "snapshot" /\ msg.checksum = Top(b) /\ Readable(msg.levels)
    <2>1. Lists(msg, "snapshot", b, Best(b))
      BY <1>1, MessageLists
    <2> QED
      BY <2>1, Intact DEF Lists
  <1>3. Applied(EmptyBook, msg.levels) = Top(b)
    <2>1. Applied(EmptyBook, msg.levels) = Overlaid(b, Best(b), EmptyBook)
      BY <1>1, AppliedMessage, EmptyBookType
    <2>2. \A c \in Cells : (IF c \in Best(b) THEN b[c] ELSE EmptyBook[c]) = Top(b)[c]
      BY DEF Best, EmptyBook, Top
    <2>3. Top(b) = [c \in Cells |-> Top(b)[c]]
      BY DEF Top
    <2> QED
      BY <2>1, <2>2, <2>3 DEF Overlaid
  <1> QED
    BY <1>2, <1>3, TopIdempotent DEF Parsed, ParseSnapshot, Truncate, Checksum

(* An update that arrives intact at the book before it is accepted.        *)
LEMMA UpdateAccepted ==
  ASSUME NEW old \in KrakenBook, NEW new \in KrakenBook,
         NEW msg \in Messages("update", new, Mentioned(old, new))
  PROVE  Parsed(Top(old), msg) = Outcome(Top(new), Top(new))
  <1>1. Mentioned(old, new) \subseteq Cells
    BY DEF Mentioned
  <1>2. /\ msg.kind = "update" /\ msg.checksum = Top(new) /\ Readable(msg.levels)
    <2>1. /\ msg.kind = "update" /\ msg.checksum = Top(new)
          /\ msg.levels \in Seq(WireLevel)
      <3>1. Lists(msg, "update", new, Mentioned(old, new))
        BY <1>1, MessageLists
      <3> QED
        BY <3>1 DEF Lists
    <2> QED
      BY <2>1, Intact
  <1>3. Top(old) \in KrakenBook /\ Top(old) # NoBook
    BY TopType, NamesAssumption
  <1>4. Top(Applied(Top(old), msg.levels)) = Top(new)
    <2>1. Applied(Top(old), msg.levels) = Overlaid(new, Mentioned(old, new), Top(old))
      BY <1>1, <1>3, AppliedMessage
    <2> QED
      BY <2>1, MentionedIsEnough
  <1> QED
    BY <1>2, <1>3, <1>4, TopIdempotent DEF Parsed, ParseUpdate, Truncate, Checksum

----------------------------------------------------------------------------
(* Parsing, and the steps of the feed. *)

(* Levels are absolute: applied to the best of what they made of a book    *)
(* they make the same of it again.                                         *)
LEMMA Reapplied ==
  ASSUME NEW b \in KrakenBook, NEW levels \in Seq(WireLevel)
  PROVE  Top(Applied(Top(Applied(b, levels)), levels)) = Top(Applied(b, levels))
  <1> DEFINE once == Applied(b, levels)
             twice == Applied(Top(once), levels)
  <1>1. once \in KrakenBook /\ Top(once) \in KrakenBook
    <2>1. levels \in Seq(WireLevel \cup {Garbled})
      OBVIOUS
    <2> QED
      BY <2>1, AppliedType, TopType
  <1>2. ASSUME NEW c \in Cells
        PROVE  twice[c] \in {once[c], Top(once)[c]}
    <2> HIDE DEF once
    <2>1. CASE \A x \in KrakenBook : Applied(x, levels)[c] = x[c]
      BY <1>1, <2>1
    <2>2. CASE \E i \in 1..Len(levels) : \A x \in KrakenBook : Applied(x, levels)[c] = levels[i].qty
      BY <1>1, <2>2 DEF once
    <2> QED
      BY <2>1, <2>2, AppliedSettles
  <1>3. \A c \in Cells : Top(once)[c] \in {once[c], 0}
    BY DEF Top
  <1> HIDE DEF once
  <1> HIDE DEF twice
  <1>4. Top(twice) = Top(once)
    BY <1>2, <1>3, SameTop
  <1> QED
    BY <1>4 DEF once, twice

LEMMA ParsedType ==
  ASSUME NEW held \in KrakenBook \cup {NoBook}, NEW msg \in Message
  PROVE  /\ Parsed(held, msg).held \in KrakenBook \cup {NoBook}
         /\ Parsed(held, msg).result \in KrakenBook \cup {NoBook}
  <1>1. msg.levels \in Seq(WireLevel \cup {Garbled})
    BY DEF Message
  <1>2. \A x \in KrakenBook : /\ Applied(x, msg.levels) \in KrakenBook
                              /\ Truncate(Applied(x, msg.levels)) \in KrakenBook
    BY <1>1, AppliedType, TopType DEF Truncate
  <1>3. CASE msg.kind = "snapshot"
    BY <1>2, <1>3, EmptyBookType DEF Parsed, ParseSnapshot, Outcome
  <1>4. CASE msg.kind = "update"
    BY <1>2, <1>4 DEF Parsed, ParseUpdate, Outcome
  <1>5. CASE msg.kind \notin {"snapshot", "update"}
    BY <1>5 DEF Parsed, Outcome
  <1> QED
    BY <1>3, <1>4, <1>5

LEMMA MessageType ==
  ASSUME NEW kind \in {"snapshot", "update"}, NEW b \in KrakenBook,
         NEW cells, cells \subseteq Cells, NEW msg \in Messages(kind, b, cells)
  PROVE  msg \in Message /\ Garblings(msg) \subseteq Message
  <1>1. Lists(msg, kind, b, cells)
    BY MessageLists
  <1>2. /\ msg = [kind |-> kind, levels |-> msg.levels, checksum |-> Top(b)]
        /\ msg.levels \in Seq(WireLevel) /\ Top(b) \in KrakenBook
    BY <1>1, TopType DEF Lists
  <1>3. msg \in Message
    BY <1>2 DEF Message
  <1>4. [msg EXCEPT !.kind = "other"] \in Message
    BY <1>3 DEF Message
  <1>5. ASSUME NEW i \in DOMAIN msg.levels
        PROVE  [msg EXCEPT !.levels[i] = Garbled] \in Message
    <2>1. [msg.levels EXCEPT ![i] = Garbled] \in Seq(WireLevel \cup {Garbled})
      BY <1>2
    <2>2. [msg EXCEPT !.levels[i] = Garbled]
            = [msg EXCEPT !.levels = [msg.levels EXCEPT ![i] = Garbled]]
      OBVIOUS
    <2> QED
      BY <1>3, <2>1, <2>2 DEF Message
  <1> QED
    BY <1>3, <1>4, <1>5 DEF Garblings

(* A book that parse returns is the one the checksum was made of. *)
LEMMA AcceptedIsTrue ==
  ASSUME NEW b, NEW msg, Parsed(b, msg).result # NoBook
  PROVE  Parsed(b, msg).result = msg.checksum
<1>1. ASSUME NEW x, Checksum(Truncate(x)) = msg.checksum
      PROVE  Truncate(x) = msg.checksum
  BY <1>1, TopIdempotent DEF Checksum, Truncate
<1>2. CASE msg.kind = "snapshot"
  <2>1. Parsed(b, msg) = ParseSnapshot(b, msg)
    BY <1>2 DEF Parsed
  <2> QED BY <1>1, <2>1 DEF ParseSnapshot, Outcome
<1>3. CASE msg.kind = "update"
  <2>1. Parsed(b, msg) = ParseUpdate(b, msg)
    BY <1>3 DEF Parsed
  <2> QED BY <1>1, <2>1 DEF ParseUpdate, Outcome
<1>4. CASE msg.kind \notin {"snapshot", "update"}
  BY <1>4 DEF Parsed, Outcome
<1> QED BY <1>2, <1>3, <1>4

(* Whatever was garbled, lost, or held from an earlier connection, a book  *)
(* that parse returns has the best levels the venue had when it sent the   *)
(* message.                                                                *)
THEOREM BooksAreTrue == Spec => []OnlyTrueBooks
<1>1. Init => OnlyTrueBooks
  BY DEF Init, Idle, OnlyTrueBooks
<1>2. OnlyTrueBooks /\ [Next]_vars => OnlyTrueBooks'
  <2> SUFFICES ASSUME OnlyTrueBooks, [Next]_vars
               PROVE  OnlyTrueBooks'
    OBVIOUS
  <2>1. CASE Parse
    <3>1. last' = [msg |-> Head(wire), result |-> Parsed(book, Head(wire)).result]
      BY <2>1 DEF Parse
    <3> QED BY <3>1, AcceptedIsTrue DEF OnlyTrueBooks
  <2>2. CASE Subscribe \/ VenueUpdates \/ Disconnect
    BY <2>2 DEF Subscribe, VenueUpdates, Disconnect, Idle, OnlyTrueBooks
  <2>3. CASE UNCHANGED vars
    BY <2>3 DEF vars, OnlyTrueBooks
  <2> QED BY <2>1, <2>2, <2>3 DEF Next
<1> QED BY <1>1, <1>2, PTL DEF Spec

(* What can be on the wire after a send. *)
LEMMA SendOneType ==
  ASSUME NEW kind \in {"snapshot", "update"}, NEW b \in KrakenBook,
         NEW cells, cells \subseteq Cells, garbled \in 0..MaxGarbled,
         SendOne(Messages(kind, b, cells))
  PROVE  /\ wire' \in Seq(Message) /\ Len(wire') <= 1 /\ garbled' \in 0..MaxGarbled
         /\ garbled' = 0 => \E msg \in Messages(kind, b, cells) : wire' = <<msg>>
  <1>1. CASE /\ \E msg \in Messages(kind, b, cells) : wire' = <<msg>>
             /\ UNCHANGED garbled
    <2>1. PICK msg \in Messages(kind, b, cells) : wire' = <<msg>>
      BY <1>1
    <2>2. msg \in Message
      BY MessageType
    <2> QED
      BY <1>1, <2>1, <2>2
  <1>2. CASE /\ garbled < MaxGarbled
             /\ \E msg \in Messages(kind, b, cells) : \E bad \in Garblings(msg) : wire' = <<bad>>
             /\ garbled' = garbled + 1
    <2>1. PICK msg \in Messages(kind, b, cells) : \E bad \in Garblings(msg) : wire' = <<bad>>
      BY <1>2
    <2>2. PICK bad \in Garblings(msg) : wire' = <<bad>>
      BY <2>1
    <2>3. bad \in Message
      BY MessageType
    <2>4. garbled' \in 0..MaxGarbled /\ garbled' # 0
      BY <1>2, GarbledAssumption
    <2> QED
      BY <2>2, <2>3, <2>4
  <1> QED
    BY <1>1, <1>2 DEF SendOne

(* A connection begins with nothing garbled. *)
LEMMA NothingGarbled == 0 \in 0..MaxGarbled
  BY GarbledAssumption

(* Nothing parsed yet is a message and no book. *)
LEMMA IdleType == Idle \in [msg : Message, result : KrakenBook \cup {NoBook}]
  <1>1. <<>> \in Seq(WireLevel \cup {Garbled})
    OBVIOUS
  <1> QED
    BY <1>1, EmptyBookType DEF Idle, Message

(* Whatever is garbled or lost, the held book is a book.                   *)
THEOREM TypeCorrect == Spec => []TypeOK
<1>1. Init => TypeOK
  <2>1. <<>> \in Seq(Message) /\ Len(<<>>) <= 1
    OBVIOUS
  <2> QED
    BY <2>1, EmptyBookType, IdleType, NothingGarbled DEF Init, TypeOK
<1>2. TypeOK /\ [Next]_vars => TypeOK'
  <2> SUFFICES ASSUME TypeOK, [Next]_vars
               PROVE  TypeOK'
    OBVIOUS
  <2> USE DEF TypeOK
  <2>1. CASE Parse
    <3>1. Head(wire) \in Message /\ Tail(wire) \in Seq(Message) /\ Len(Tail(wire)) <= 1
      BY <2>1 DEF Parse
    <3>2. /\ Parsed(book, Head(wire)).held \in KrakenBook \cup {NoBook}
          /\ Parsed(book, Head(wire)).result \in KrakenBook \cup {NoBook}
      BY <3>1, ParsedType
    <3>3. /\ book' = Parsed(book, Head(wire)).held
          /\ last' = [msg |-> Head(wire), result |-> Parsed(book, Head(wire)).result]
          /\ synced' \in BOOLEAN /\ wire' = Tail(wire)
          /\ UNCHANGED <<venueBook, connected, garbled>>
      BY <2>1 DEF Parse
    <3>4. last' \in [msg : Message, result : KrakenBook \cup {NoBook}]
      BY <3>1, <3>2, <3>3
    <3> QED
      BY <3>1, <3>2, <3>3, <3>4
  <2>2. CASE Subscribe
    <3>1. Best(venueBook') \subseteq Cells
      BY DEF Best
    <3>2. venueBook' \in KrakenBook /\ SendOne(Messages("snapshot", venueBook', Best(venueBook')))
      BY <2>2 DEF Subscribe
    <3>3. wire' \in Seq(Message) /\ Len(wire') <= 1 /\ garbled' \in 0..MaxGarbled
      BY <3>1, <3>2, SendOneType
    <3> QED
      BY <2>2, <3>2, <3>3, IdleType DEF Subscribe
  <2>3. CASE VenueUpdates
    <3>1. Mentioned(venueBook, venueBook') \subseteq Cells
      BY DEF Mentioned
    <3>2. venueBook' \in KrakenBook
      BY <2>3 DEF VenueUpdates, Successors
    <3>3. wire' \in Seq(Message) /\ Len(wire') <= 1 /\ garbled' \in 0..MaxGarbled
      <4>1. CASE SendOne(Messages("update", venueBook', Mentioned(venueBook, venueBook')))
        BY <3>1, <3>2, <4>1, SendOneType
      <4>2. CASE UNCHANGED <<wire, garbled>>
        BY <4>2
      <4> QED
        BY <2>3, <4>1, <4>2 DEF VenueUpdates
    <3> QED
      BY <2>3, <3>2, <3>3, IdleType DEF VenueUpdates
  <2>4. CASE Disconnect
    <3>1. <<>> \in Seq(Message) /\ Len(<<>>) <= 1
      OBVIOUS
    <3> QED
      BY <2>4, <3>1, EmptyBookType, IdleType, NothingGarbled DEF Disconnect
  <2>5. CASE UNCHANGED vars
    BY <2>5 DEF vars
  <2> QED
    BY <2>1, <2>2, <2>3, <2>4, <2>5 DEF Next
<1> QED
  BY <1>1, <1>2, PTL DEF Spec

(* On a connection on which nothing was garbled the book is the venue's,   *)
(* or the message that makes it so is on its way.                          *)
THEOREM StaysInStep == Spec => []InStep
<1>1. Init => InStep
  BY DEF Init, InStep
<1>2. TypeOK /\ TypeOK' /\ InStep /\ [Next]_vars => InStep'
  <2> SUFFICES ASSUME TypeOK, TypeOK', InStep, [Next]_vars
               PROVE  InStep'
    OBVIOUS
  <2>1. CASE Parse
    <3>1. /\ wire # <<>> /\ wire' = Tail(wire) /\ connected
          /\ book' = Parsed(book, Head(wire)).held
          /\ UNCHANGED <<venueBook, connected, garbled>>
      BY <2>1 DEF Parse, InStep
    <3>2. wire' = <<>>
      BY <3>1 DEF TypeOK
    <3>3. ASSUME garbled = 0
          PROVE  book' = Top(venueBook)
      <4>1. CASE \E msg \in Messages("snapshot", venueBook, Best(venueBook)) : wire = <<msg>>
        <5>1. PICK msg \in Messages("snapshot", venueBook, Best(venueBook)) : wire = <<msg>>
          BY <4>1
        <5>2. Parsed(book, msg) = Outcome(Top(venueBook), Top(venueBook))
          BY SnapshotAccepted DEF TypeOK
        <5> QED
          BY <3>1, <5>1, <5>2 DEF Outcome
      <4>2. ASSUME NEW old \in KrakenBook, book = Top(old),
                   \E msg \in Messages("update", venueBook, Mentioned(old, venueBook)) :
                     wire = <<msg>>
            PROVE  book' = Top(venueBook)
        <5>1. PICK msg \in Messages("update", venueBook, Mentioned(old, venueBook)) : wire = <<msg>>
          BY <4>2
        <5>2. Parsed(Top(old), msg) = Outcome(Top(venueBook), Top(venueBook))
          BY UpdateAccepted DEF TypeOK
        <5> QED
          BY <3>1, <4>2, <5>1, <5>2 DEF Outcome
      <4> QED
        BY <3>1, <3>3, <4>1, <4>2 DEF InStep
    <3> QED
      BY <3>1, <3>2, <3>3 DEF InStep
  <2>2. CASE Subscribe
    <3>1. garbled' = 0 => \E msg \in Messages("snapshot", venueBook', Best(venueBook')) : wire' = <<msg>>
      <4>1. Best(venueBook') \subseteq Cells
        BY DEF Best
      <4>2. SendOne(Messages("snapshot", venueBook', Best(venueBook')))
        BY <2>2 DEF Subscribe
      <4> QED
        BY <4>1, <4>2, SendOneType DEF TypeOK
    <3> QED
      BY <2>2, <3>1 DEF Subscribe, InStep
  <2>3. CASE VenueUpdates
    <3> DEFINE M == Mentioned(venueBook, venueBook')
    <3>1. connected /\ connected' /\ wire = <<>> /\ book' = book
      BY <2>3 DEF VenueUpdates
    <3>2. CASE M = {} /\ UNCHANGED <<wire, garbled>>
      <4>1. Overlaid(venueBook', M, Top(venueBook)) = Top(venueBook)
        BY <3>2 DEF Overlaid, Top
      <4>2. Top(Overlaid(venueBook', M, Top(venueBook))) = Top(venueBook')
        BY MentionedIsEnough DEF TypeOK
      <4>3. Top(venueBook') = Top(venueBook)
        BY <4>1, <4>2, TopIdempotent
      <4>4. garbled = 0 => book = Top(venueBook)
        BY <3>1 DEF InStep
      <4> QED
        BY <3>1, <3>2, <4>3, <4>4 DEF InStep
    <3>3. CASE SendOne(Messages("update", venueBook', M))
      <4>1. garbled' = 0 => \E msg \in Messages("update", venueBook', M) : wire' = <<msg>>
        <5>1. M \subseteq Cells
          BY DEF Mentioned
        <5> QED
          BY <3>3, <5>1, SendOneType DEF TypeOK
      <4>2. garbled' = 0 => garbled = 0
        BY <3>3 DEF SendOne, TypeOK
      <4>3. garbled = 0 => book = Top(venueBook)
        BY <3>1 DEF InStep
      <4> QED
        BY <3>1, <4>1, <4>2, <4>3 DEF InStep, TypeOK
    <3> QED
      BY <2>3, <3>2, <3>3 DEF VenueUpdates
  <2>4. CASE Disconnect
    BY <2>4 DEF Disconnect, InStep
  <2>5. CASE UNCHANGED vars
    BY <2>5 DEF vars, InStep
  <2> QED
    BY <2>1, <2>2, <2>3, <2>4, <2>5 DEF Next
<1> QED
  BY <1>1, <1>2, TypeCorrect, PTL DEF Spec

(* No false alarm: an undisturbed connection keeps the held book the       *)
(* venue's through every change.                                           *)
THEOREM BookFollowsVenue == Spec => []HeldBookFollowsVenue
<1>1. InStep /\ TypeOK => HeldBookFollowsVenue
  <2> SUFFICES ASSUME InStep, TypeOK, synced, garbled = 0, wire = <<>>
               PROVE  book = Top(venueBook)
    BY DEF HeldBookFollowsVenue
  <2>1. \A msg : <<msg>> # <<>>
    OBVIOUS
  <2> QED
    BY <2>1 DEF InStep
<1> QED
  BY <1>1, StaysInStep, TypeCorrect, PTL DEF Spec

(* A message that was accepted can be parsed once more without harm.       *)
THEOREM ReparsingChangesNothing == Spec => []ReparsingIsHarmless
<1>1. Init => ReparsingIsHarmless
  BY DEF Init, Idle, ReparsingIsHarmless
<1>2. TypeOK /\ ReparsingIsHarmless /\ [Next]_vars => ReparsingIsHarmless'
  <2> SUFFICES ASSUME TypeOK, ReparsingIsHarmless, [Next]_vars
               PROVE  ReparsingIsHarmless'
    OBVIOUS
  <2>1. CASE Parse
    <3> DEFINE msg == Head(wire)
               result == Parsed(book, msg).result
    <3>1. last' = [msg |-> msg, result |-> result]
      BY <2>1 DEF Parse
    <3>2. msg \in Message /\ msg.levels \in Seq(WireLevel \cup {Garbled})
      <4>1. msg \in Message
        BY <2>1 DEF Parse, TypeOK
      <4> QED
        BY <4>1 DEF Message
    <3> HIDE DEF msg
    <3>3. ASSUME result # NoBook
          PROVE  Parsed(result, msg) = Outcome(result, result)
      <4>1. CASE msg.kind = "snapshot"
        BY <3>3, <4>1 DEF Parsed, ParseSnapshot, Outcome
      <4>2. CASE msg.kind = "update"
        <5>1. /\ book # NoBook /\ Readable(msg.levels)
              /\ result = Truncate(Applied(book, msg.levels))
              /\ Checksum(result) = msg.checksum
          BY <3>3, <4>2 DEF Parsed, ParseUpdate, Outcome
        <5>2. book \in KrakenBook /\ msg.levels \in Seq(WireLevel)
          BY <3>2, <5>1, ReadablePart DEF TypeOK
        <5>3. Truncate(Applied(result, msg.levels)) = result
          BY <5>1, <5>2, Reapplied DEF Truncate
        <5> HIDE DEF result
        <5> QED
          BY <3>3, <4>2, <5>1, <5>3 DEF Parsed, ParseUpdate, Outcome
      <4>3. CASE msg.kind \notin {"snapshot", "update"}
        BY <3>3, <4>3 DEF Parsed, Outcome
      <4> QED
        BY <4>1, <4>2, <4>3
    <3> HIDE DEF result
    <3> QED
      BY <3>1, <3>3 DEF ReparsingIsHarmless
  <2>2. CASE Subscribe \/ VenueUpdates \/ Disconnect
    BY <2>2 DEF Subscribe, VenueUpdates, Disconnect, Idle, ReparsingIsHarmless
  <2>3. CASE UNCHANGED vars
    BY <2>3 DEF vars, ReparsingIsHarmless
  <2> QED
    BY <2>1, <2>2, <2>3 DEF Next
<1> QED
  BY <1>1, <1>2, TypeCorrect, PTL DEF Spec
=============================================================================
