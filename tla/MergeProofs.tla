---------------------------- MODULE MergeProofs ----------------------------
(***************************************************************************)
(* Theorems about MergeLoop for every set of venues, every TopN and every  *)
(* set of input lists.                                                     *)
(***************************************************************************)
EXTENDS MergeLoop, WellFoundedInduction, FiniteSetTheorems, TLAPS

(* What one pass of the loop does, in terms of the front it emits. *)
LEMMA EmitFacts ==
  ASSUME TypeOK, NEW v \in Venue, Emit(v)
  PROVE  /\ cursor[v] < Len(lists[v])
         /\ Front(lists, cursor, v) = lists[v][cursor[v] + 1]
         /\ Front(lists, cursor, v) \in Level
         /\ out' = Append(out, Tagged(v, Front(lists, cursor, v)))
         /\ cursor' = [cursor EXCEPT ![v] = @ + 1]
         /\ UNCHANGED <<side, lists>>
         /\ \A u \in Venue : cursor[u] < Len(lists[u]) =>
              ~Better(side, lists[u][cursor[u] + 1], Front(lists, cursor, v))
  <1>1. DOMAIN lists = Venue /\ lists[v] \in Seq(Level) /\ cursor[v] \in Nat
    BY DEF TypeOK
  <1>2. cursor[v] < Len(lists[v])
    BY <1>1 DEF Emit, IsBest, Pending
  <1>3. lists[v][cursor[v] + 1] \in Level
    BY <1>1, <1>2
  <1>4. \A u \in Venue : cursor[u] < Len(lists[u]) =>
          ~Better(side, lists[u][cursor[u] + 1], Front(lists, cursor, v))
    BY <1>1 DEF Emit, IsBest, Pending, Front
  <1> QED
    BY <1>2, <1>3, <1>4 DEF Emit, Front

LEMMA CursorStep ==
  ASSUME TypeOK, NEW v \in Venue, Emit(v)
  PROVE  /\ cursor' \in [Venue -> Nat]
         /\ \A u \in Venue : cursor'[u] = IF u = v THEN cursor[u] + 1 ELSE cursor[u]
         /\ \A u \in Venue : Len(lists[u]) \in Nat /\ cursor[u] \in Nat
  BY DEF TypeOK, Emit

LEMMA TaggedType ==
  ASSUME NEW v \in Venue, NEW l \in Level
  PROVE  /\ Tagged(v, l) \in OutLevel
         /\ Tagged(v, l).price = l.price
         /\ Tagged(v, l).amount = l.amount
  BY DEF Tagged, Level, OutLevel

(* A cursor never runs past its list and the output is well typed.         *)
THEOREM MergeTypeCorrect == Spec => []TypeOK
  <1>1. Init => TypeOK
    <2> SUFFICES ASSUME Init PROVE TypeOK
      OBVIOUS
    <2>1. lists \in [Venue -> Seq(Level)]
      BY InputListsAssumption DEF Init
    <2> QED
      BY <2>1 DEF Init, TypeOK
  <1>2. TypeOK /\ [Next]_vars => TypeOK'
    <2> SUFFICES ASSUME TypeOK, [Next]_vars PROVE TypeOK'
      OBVIOUS
    <2>1. ASSUME NEW v \in Venue, Emit(v)
          PROVE  TypeOK'
      <3>1. out' \in Seq(OutLevel)
        <4>1. Tagged(v, Front(lists, cursor, v)) \in OutLevel
          BY <2>1, EmitFacts, TaggedType
        <4>2. out \in Seq(OutLevel) /\ out' = Append(out, Tagged(v, Front(lists, cursor, v)))
          BY <2>1, EmitFacts DEF TypeOK
        <4> QED
          BY <4>1, <4>2
      <3>2. cursor' \in [Venue -> Nat] /\ \A u \in Venue : cursor'[u] <= Len(lists[u])
        <4>1. cursor' \in [Venue -> Nat]
          BY <2>1, CursorStep
        <4>2. ASSUME NEW u \in Venue PROVE cursor'[u] <= Len(lists[u])
          <5>1. cursor[u] <= Len(lists[u]) /\ cursor[v] < Len(lists[v])
            BY <2>1, EmitFacts DEF TypeOK
          <5> QED
            BY <2>1, <5>1, CursorStep
        <4> QED
          BY <4>1, <4>2
      <3> QED
        BY <2>1, <3>1, <3>2, EmitFacts DEF TypeOK
    <2>2. CASE UNCHANGED vars
      BY <2>2 DEF vars, TypeOK
    <2> QED
      BY <2>1, <2>2 DEF Next
  <1> QED
    BY <1>1, <1>2, PTL DEF Spec

(* Precedes is the negation of Better the other way round, and transitive. *)
LEMMA PrecedesIsNotWorse ==
  ASSUME side \in Side, NEW a \in Level, NEW b \in Level
  PROVE  Precedes(a, b) <=> ~Better(side, b, a)
  BY DEF Precedes, Rank, Better, Side, Bid, Ask, Level

LEMMA PrecedesTransitive ==
  ASSUME side \in Side, NEW a \in Level, NEW b \in Level, NEW c \in Level,
         Precedes(a, b), Precedes(b, c)
  PROVE  Precedes(a, c)
  BY DEF Precedes, Rank, Side, Bid, Ask, Level

(* The lists stay the sorted ones of the initial state. *)
ListsSorted == \A v \in Venue : BestFirst(side, lists[v])

LEMMA ListsStaySorted == Spec => []ListsSorted
  <1>1. Init => ListsSorted
    BY DEF Init, ListsSorted
  <1>2. ListsSorted /\ [Next]_vars => ListsSorted'
    BY DEF ListsSorted, BestFirst, Next, Emit, vars, Better
  <1> QED
    BY <1>1, <1>2, PTL DEF Spec

(* Whatever is left behind its cursor comes after the front emitted now.   *)
LEMMA FrontPrecedesRest ==
  ASSUME TypeOK, ListsSorted, NEW v \in Venue, Emit(v),
         NEW u \in Venue, NEW k \in (cursor[u] + 1)..Len(lists[u])
  PROVE  Precedes(Front(lists, cursor, v), lists[u][k])
  <1> DEFINE f == Front(lists, cursor, v)
             g == lists[u][cursor[u] + 1]
  <1>1. lists[u] \in Seq(Level) /\ cursor[u] \in Nat /\ k \in Nat /\ side \in Side
    BY DEF TypeOK
  <1>2. /\ cursor[u] < Len(lists[u]) /\ cursor[u] + 1 \in 1..Len(lists[u])
        /\ k \in 1..Len(lists[u])
    BY <1>1
  <1>3. f \in Level /\ g \in Level /\ lists[u][k] \in Level
    BY <1>1, <1>2, EmitFacts
  <1>4. Precedes(f, g)
    BY <1>1, <1>2, <1>3, EmitFacts, PrecedesIsNotWorse
  <1>5. Precedes(g, lists[u][k])
    <2>1. CASE k = cursor[u] + 1
      BY <1>3, <2>1 DEF Precedes, Level
    <2>2. CASE k # cursor[u] + 1
      <3>1. ~Better(side, lists[u][k], g)
        BY <1>1, <1>2, <2>2 DEF ListsSorted, BestFirst
      <3> QED
        BY <1>1, <1>3, <3>1, PrecedesIsNotWorse
    <2> QED
      BY <2>1, <2>2
  <1> HIDE DEF f, g
  <1>6. Precedes(f, lists[u][k])
    BY <1>1, <1>3, <1>4, <1>5, PrecedesTransitive
  <1> QED
    BY <1>6 DEF f

(* merge_side's output is sorted best first and nothing it left out is     *)
(* better than anything it emitted, whatever the lists.                    *)
THEOREM MergeSideBestFirst == Spec => [](OutBestFirst /\ NothingBetterLeftBehind)
  <1> DEFINE Inv == OutBestFirst /\ NothingBetterLeftBehind
  <1>1. Init => Inv
    BY DEF Init, OutBestFirst, NothingBetterLeftBehind
  <1>2. TypeOK /\ TypeOK' /\ ListsSorted /\ Inv /\ [Next]_vars => Inv'
    <2> SUFFICES ASSUME TypeOK, TypeOK', ListsSorted, Inv, [Next]_vars
                 PROVE  Inv'
      OBVIOUS
    <2>1. ASSUME NEW v \in Venue, Emit(v)
          PROVE  Inv'
      <3> DEFINE f == Front(lists, cursor, v)
                 e == Tagged(v, f)
      <3>1. /\ f \in Level
            /\ f = lists[v][cursor[v] + 1]
            /\ e.price = f.price /\ e.amount = f.amount
            /\ cursor[v] + 1 \in (cursor[v] + 1)..Len(lists[v])
        BY <2>1, EmitFacts, TaggedType DEF TypeOK
      <3>2. /\ out \in Seq(OutLevel)
            /\ out' = Append(out, e)
            /\ Len(out') = Len(out) + 1
            /\ out'[Len(out) + 1] = e
            /\ \A i \in 1..Len(out) : out'[i] = out[i]
        <4>1. out \in Seq(OutLevel) /\ out' = Append(out, e)
          BY <2>1, EmitFacts DEF TypeOK
        <4>2. e \in OutLevel
          BY <3>1, TaggedType
        <4> HIDE DEF e
        <4> QED
          BY <4>1, <4>2
      <3>3. side' = side /\ lists' = lists
        BY <2>1, EmitFacts
      <3>4. \A i \in 1..Len(out) : Precedes(out[i], f)
        BY <3>1 DEF NothingBetterLeftBehind
      <3>5. \A i \in 1..Len(out) : Precedes(out[i], e)
        BY <3>1, <3>4 DEF Precedes, Rank
      <3>6. OutBestFirst'
        <4> SUFFICES ASSUME NEW i \in 1..Len(out'), NEW j \in 1..Len(out'), i < j
                     PROVE  Precedes(out'[i], out'[j])
          BY <3>3 DEF OutBestFirst, Precedes, Rank
        <4>1. i \in 1..Len(out)
          BY <3>2
        <4>2. Precedes(out'[i], out'[j])
          BY <3>2, <3>5, <4>1 DEF OutBestFirst
        <4> QED
          BY <4>2
      <3>7. NothingBetterLeftBehind'
        <4> SUFFICES ASSUME NEW i \in 1..Len(out'), NEW u \in Venue,
                            NEW k \in (cursor'[u] + 1)..Len(lists[u])
                     PROVE  Precedes(out'[i], lists[u][k])
          BY <3>3 DEF NothingBetterLeftBehind, Precedes, Rank
        <4>1. k \in (cursor[u] + 1)..Len(lists[u])
          BY <2>1, CursorStep
        <4>2. CASE i \in 1..Len(out)
          BY <3>2, <4>1, <4>2 DEF NothingBetterLeftBehind
        <4>3. CASE i = Len(out) + 1
          <5>1. Precedes(f, lists[u][k])
            BY <2>1, <4>1, FrontPrecedesRest
          <5> QED
            BY <3>1, <3>2, <4>3, <5>1 DEF Precedes, Rank
        <4> QED
          BY <3>2, <4>2, <4>3
      <3> QED
        BY <3>6, <3>7
    <2>2. CASE UNCHANGED vars
      BY <2>2 DEF vars, OutBestFirst, NothingBetterLeftBehind, Precedes, Rank
    <2> QED
      BY <2>1, <2>2 DEF Next
  <1> QED
    BY <1>1, <1>2, MergeTypeCorrect, ListsStaySorted, PTL DEF Spec

(* merge_side never emits a level while a better one waits in any list:    *)
(* the half of MergeSideBestFirst that makes the cut at TopN the right     *)
(* one.                                                                    *)
THEOREM NothingBetterLeft == Spec => []NothingBetterLeftBehind
BY MergeSideBestFirst, PTL

LEMMA LeastNatural ==
  ASSUME NEW T \in SUBSET Nat, T # {}
  PROVE  \E m \in T : \A k \in T : m <= k
  <1>1. PICK m \in T : \A k \in T : <<k, m>> \notin OpToRel(<, Nat)
    BY WFMin, NatLessThanWellFounded, Zenon
  <1>2. \A k \in T : ~(k < m)
    BY <1>1, Zenon DEF OpToRel
  <1> QED
    BY <1>2

LEMMA NaturalsByInduction ==
  ASSUME NEW S \in SUBSET Nat, 0 \in S, \A n \in S : n + 1 \in S
  PROVE  S = Nat
  <1> SUFFICES ASSUME Nat \ S # {} PROVE FALSE
    OBVIOUS
  <1>1. PICK m \in Nat \ S : \A k \in Nat \ S : m <= k
    BY LeastNatural
  <1>2. m # 0 /\ m - 1 \in Nat
    BY <1>1
  <1>3. m - 1 \in S
    BY <1>1, <1>2
  <1> QED
    BY <1>2, <1>3

(* The recursive function in Passes exists, so its equation holds. *)
LEMMA PassesUnfold ==
  ASSUME NEW s, NEW levels
  PROVE  /\ Passes(s, levels)[0] = Untouched(levels)
         /\ \A n \in 1..TopN :
              Passes(s, levels)[n] = Pass(s, levels, Passes(s, levels)[n - 1])
  <1> DEFINE Goes(f, n) ==
               f = [k \in 0..n |-> IF k = 0 THEN Untouched(levels)
                                   ELSE Pass(s, levels, f[k - 1])]
             S == {n \in Nat : \E f : Goes(f, n)}
  <1>1. 0 \in S
    <2> DEFINE f == [k \in 0..0 |-> Untouched(levels)]
    <2>1. Goes(f, 0)
      OBVIOUS
    <2> QED
      BY <2>1
  <1>2. ASSUME NEW n \in S PROVE n + 1 \in S
    <2>1. PICK f : Goes(f, n)
      OBVIOUS
    <2> DEFINE g == [k \in 0..(n + 1) |-> IF k = 0 THEN Untouched(levels)
                                          ELSE Pass(s, levels, f[k - 1])]
    <2>2. \A k \in 0..n : g[k] = f[k]
      BY <2>1
    <2>3. Goes(g, n + 1)
      <3>1. \A k \in 0..(n + 1) :
              g[k] = IF k = 0 THEN Untouched(levels) ELSE Pass(s, levels, g[k - 1])
        <4> SUFFICES ASSUME NEW k \in 0..(n + 1), k # 0
                     PROVE  g[k] = Pass(s, levels, g[k - 1])
          OBVIOUS
        <4>1. k - 1 \in 0..n
          OBVIOUS
        <4>2. g[k - 1] = f[k - 1]
          BY <2>2, <4>1
        <4> HIDE DEF Goes
        <4>3. g[k] = Pass(s, levels, f[k - 1])
          OBVIOUS
        <4> QED
          BY <4>2, <4>3
      <3>2. DOMAIN g = 0..(n + 1)
        OBVIOUS
      <3> QED
        BY <3>1, <3>2
    <2> HIDE DEF g, Goes
    <2> QED
      BY <2>3
  <1> HIDE DEF S
  <1>3. S = Nat
    <2>1. S \in SUBSET Nat
      BY DEF S
    <2> QED
      BY <1>1, <1>2, <2>1, NaturalsByInduction
  <1>4. \E f : Goes(f, TopN)
    BY <1>3, TopNAssumption DEF S
  <1>5. Goes(Passes(s, levels), TopN)
    <2>1. Passes(s, levels) = CHOOSE f : Goes(f, TopN)
      BY DEF Passes
    <2> HIDE DEF Goes
    <2> QED
      BY <1>4, <2>1
  <1> QED
    BY <1>5, TopNAssumption

(* At most one front is the best: of two that tie, the earlier venue's.    *)
LEMMA BestIsUnique ==
  ASSUME NEW s, NEW levels, NEW at, DOMAIN levels \subseteq Venue,
         NEW u, NEW v, IsBest(s, levels, at, u), IsBest(s, levels, at, v)
  PROVE  u = v
  <1>1. u \in Int /\ v \in Int
    BY VenueAssumption DEF IsBest, Pending
  <1>2. ~(u < v) /\ ~(v < u)
    BY DEF IsBest
  <1> QED
    BY <1>1, <1>2

(* The loop's state is that of the recursive function after as many passes *)
(* as levels are out.                                                      *)
LoopState == [cursor |-> cursor, out |-> out]

LoopInv ==
  /\ Len(out) <= TopN
  /\ Passes(side, lists)[Len(out)] = LoopState

LEMMA EmitIsPass ==
  ASSUME TypeOK, NEW v \in Venue, Emit(v)
  PROVE  Pass(side, lists, LoopState) = LoopState'
  <1>1. DOMAIN lists = Venue
    BY DEF TypeOK
  <1>2. IsBest(side, lists, cursor, v) /\ Pending(lists, cursor) # {}
    BY DEF Emit, IsBest
  <1>3. (CHOOSE u \in DOMAIN lists : IsBest(side, lists, cursor, u)) = v
    <2> DEFINE w == CHOOSE u \in DOMAIN lists : IsBest(side, lists, cursor, u)
    <2>1. w \in DOMAIN lists /\ IsBest(side, lists, cursor, w)
      BY <1>1, <1>2
    <2> HIDE DEF w
    <2>2. w = v
      BY <1>1, <1>2, <2>1, BestIsUnique
    <2> QED
      BY <2>2 DEF w
  <1> QED
    BY <1>2, <1>3 DEF Pass, LoopState, Emit

LEMMA LoopFollowsPasses == Spec => []LoopInv
  <1>1. Init => LoopInv
    <2> SUFFICES ASSUME Init PROVE LoopInv
      OBVIOUS
    <2>1. LoopState = Untouched(lists) /\ Len(out) = 0
      BY DEF Init, LoopState, Untouched
    <2> QED
      BY <2>1, PassesUnfold, TopNAssumption DEF LoopInv
  <1>2. TypeOK /\ LoopInv /\ [Next]_vars => LoopInv'
    <2> SUFFICES ASSUME TypeOK, LoopInv, [Next]_vars PROVE LoopInv'
      OBVIOUS
    <2>1. ASSUME NEW v \in Venue, Emit(v) PROVE LoopInv'
      <3>1. Len(out) < TopN /\ Len(out) \in Nat /\ UNCHANGED <<side, lists>>
        BY <2>1 DEF Emit, TypeOK
      <3>2. Len(out') = Len(out) + 1
        BY <2>1 DEF Emit, TypeOK
      <3>3. Passes(side, lists)[Len(out) + 1] = Pass(side, lists, Passes(side, lists)[Len(out)])
        <4>1. Len(out) + 1 \in 1..TopN /\ (Len(out) + 1) - 1 = Len(out)
          BY <3>1, TopNAssumption
        <4> QED
          BY <4>1, PassesUnfold
      <3>4. Passes(side, lists)[Len(out')] = LoopState'
        BY <2>1, <3>2, <3>3, EmitIsPass DEF LoopInv
      <3> QED
        BY <3>1, <3>2, <3>4, TopNAssumption DEF LoopInv
    <2>2. CASE UNCHANGED vars
      BY <2>2 DEF vars, LoopInv, LoopState
    <2> QED
      BY <2>1, <2>2 DEF Next
  <1> QED
    BY <1>1, <1>2, MergeTypeCorrect, PTL DEF Spec

(* Once no level is pending, further passes change nothing. *)
LEMMA PassesEnd ==
  ASSUME TypeOK, LoopInv, Pending(lists, cursor) = {}
  PROVE  Passes(side, lists)[TopN] = LoopState
  <1> DEFINE S == {n \in Nat : Len(out) + n <= TopN =>
                                 Passes(side, lists)[Len(out) + n] = LoopState}
  <1>a. Len(out) \in Nat /\ TopN \in Nat /\ Len(out) <= TopN
    BY TopNAssumption DEF TypeOK, LoopInv
  <1>1. 0 \in S
    BY <1>a DEF LoopInv
  <1>2. ASSUME NEW n \in S PROVE n + 1 \in S
    <2> SUFFICES ASSUME Len(out) + (n + 1) <= TopN
                 PROVE  Passes(side, lists)[Len(out) + (n + 1)] = LoopState
      BY DEF S
    <2>1. /\ Len(out) + (n + 1) \in 1..TopN
          /\ (Len(out) + (n + 1)) - 1 = Len(out) + n /\ Len(out) + n <= TopN
      BY <1>a
    <2>2. Passes(side, lists)[Len(out) + n] = LoopState
      BY <2>1
    <2>3. Passes(side, lists)[Len(out) + (n + 1)] = Pass(side, lists, LoopState)
      BY <2>1, <2>2, PassesUnfold
    <2> QED
      BY <2>3 DEF Pass, LoopState
  <1>3. S = Nat
    <2> HIDE DEF S
    <2>1. S \in SUBSET Nat
      BY DEF S
    <2> QED
      BY <1>1, <1>2, <2>1, NaturalsByInduction
  <1>4. TopN - Len(out) \in S
    <2> HIDE DEF S
    <2> QED
      BY <1>a, <1>3
  <1> QED
    BY <1>a, <1>4

(* merge_side as the aggregator calls it (a recursive function) is what    *)
(* the loop, step by step, ends with; it stops short of TopN levels only   *)
(* when every list is used up.                                             *)
THEOREM LoopIsMergeSide == Spec => []LoopComputesMergeSide
  <1>1. TypeOK /\ LoopInv => LoopComputesMergeSide
    <2> SUFFICES ASSUME TypeOK, LoopInv, Finished
                 PROVE  /\ out = MergeSide([v \in Venue |-> [s \in Side |-> lists[v]]], side)
                        /\ Len(out) = TopN \/ \A v \in Venue : cursor[v] = Len(lists[v])
      BY DEF LoopComputesMergeSide
    <2> DEFINE books == [v \in Venue |-> [s \in Side |-> lists[v]]]
    <2>1. [v \in DOMAIN books |-> books[v][side]] = lists
      BY DEF TypeOK
    <2>2. MergeSide(books, side) = Passes(side, lists)[TopN].out
      BY <2>1 DEF MergeSide
    <2>3. Passes(side, lists)[TopN] = LoopState
      BY PassesEnd DEF Finished, LoopInv
    <2>4. Pending(lists, cursor) = {} => \A v \in Venue : cursor[v] = Len(lists[v])
      <3> SUFFICES ASSUME Pending(lists, cursor) = {}, NEW v \in Venue
                   PROVE  cursor[v] = Len(lists[v])
        OBVIOUS
      <3>1. ~(cursor[v] < Len(lists[v])) /\ cursor[v] <= Len(lists[v])
        BY DEF TypeOK, Pending
      <3>2. cursor[v] \in Nat /\ Len(lists[v]) \in Nat
        BY DEF TypeOK
      <3> QED
        BY <3>1, <3>2
    <2> QED
      BY <2>2, <2>3, <2>4 DEF Finished, LoopState
  <1> QED
    BY <1>1, MergeTypeCorrect, LoopFollowsPasses, PTL

(* Tags and lengths play no part in Before: it is a strict order of the    *)
(* levels on offer.                                                        *)
LEMMA OnOffer ==
  ASSUME TypeOK
  PROVE  \A e : e \in AllLevels <=>
           \E v \in Venue : \E k \in 1..Len(lists[v]) : e = <<v, k>>
  BY DEF AllLevels

LEMMA BeforeIsAsymmetric ==
  ASSUME TypeOK, NEW d \in AllLevels, NEW e \in AllLevels, Before(d, e)
  PROVE  ~Before(e, d) /\ d # e
  <1>a. PICK u \in Venue : \E j \in 1..Len(lists[u]) : d = <<u, j>>
    BY OnOffer
  <1>1. PICK j \in 1..Len(lists[u]) : d = <<u, j>>
    BY <1>a
  <1>b. PICK v \in Venue : \E k \in 1..Len(lists[v]) : e = <<v, k>>
    BY OnOffer
  <1>2. PICK k \in 1..Len(lists[v]) : e = <<v, k>>
    BY <1>b
  <1>3. /\ lists[u][j] \in Level /\ lists[v][k] \in Level
        /\ u \in Int /\ v \in Int /\ j \in Int /\ k \in Int
    BY VenueAssumption DEF TypeOK
  <1>4. d[1] = u /\ d[2] = j /\ e[1] = v /\ e[2] = k
    BY <1>1, <1>2
  <1> DEFINE a == lists[u][j]
             b == lists[v][k]
  <1>5. \A f \in Level : Rank(f) \in Int /\ f.amount \in Int
    BY DEF Rank, Level
  <1>6. \/ Rank(a) < Rank(b)
        \/ Rank(a) = Rank(b) /\ a.amount > b.amount
        \/ Rank(a) = Rank(b) /\ a.amount = b.amount /\ (u < v \/ (u = v /\ j < k))
    BY <1>4 DEF Before
  <1>7. /\ Rank(a) \in Int /\ Rank(b) \in Int
        /\ a.amount \in Int /\ b.amount \in Int
    BY <1>3, <1>5
  <1> HIDE DEF a, b
  <1>8. ~(\/ Rank(b) < Rank(a)
          \/ Rank(b) = Rank(a) /\ b.amount > a.amount
          \/ Rank(b) = Rank(a) /\ b.amount = a.amount /\ (v < u \/ (v = u /\ k < j)))
    BY <1>7, <1>3, <1>6
  <1>9. ~Before(e, d)
    BY <1>4, <1>8 DEF Before, a, b
  <1>10. d # e
    <2>1. CASE d = e
      BY <1>4, <1>9, <2>1
    <2> QED
      BY <2>1
  <1> QED
    BY <1>9, <1>10

(* The places already merged. *)
Merged == UNION {{v} \X (1..cursor[v]) : v \in Venue}

LEMMA MergedPlaces ==
  ASSUME TypeOK
  PROVE  /\ Merged \subseteq AllLevels
         /\ \A v \in Venue, k \in Nat : <<v, k>> \in Merged <=> k \in 1..cursor[v]
  BY DEF Merged, AllLevels, TypeOK

(* What has been merged comes before all that has not, level by level, and *)
(* there is one level out for each.                                        *)
MergedInv ==
  /\ IsFiniteSet(Merged) /\ Cardinality(Merged) = Len(out)
  /\ \A d \in Merged, e \in AllLevels \ Merged : Before(d, e)

(* Two comparisons in a row, with what the second leaves open on a tie.    *)
LEMMA NotBetterTwice ==
  ASSUME side \in Side, NEW f \in Level, NEW g \in Level, NEW h \in Level,
         ~Better(side, g, f), ~Better(side, h, g)
  PROVE  \/ Rank(f) < Rank(h)
         \/ Rank(f) = Rank(h) /\ f.amount > h.amount
         \/ Rank(f) = Rank(h) /\ f.amount = h.amount /\ ~Better(side, f, g)
  <1>1. /\ f.price \in Int /\ g.price \in Int /\ h.price \in Int
        /\ f.amount \in Int /\ g.amount \in Int /\ h.amount \in Int
    BY DEF Level
  <1>2. CASE side = Ask
    BY <1>1, <1>2 DEF Better, Rank, Bid, Ask
  <1>3. CASE side = Bid
    BY <1>1, <1>3 DEF Better, Rank, Bid, Ask
  <1> QED
    BY <1>2, <1>3 DEF Side

(* The front emitted now comes before all that is left.                    *)
LEMMA FrontIsNext ==
  ASSUME TypeOK, ListsSorted, NEW v \in Venue, Emit(v),
         NEW e \in AllLevels \ Merged, e # <<v, cursor[v] + 1>>
  PROVE  Before(<<v, cursor[v] + 1>>, e)
  <1> DEFINE f == lists[v][cursor[v] + 1]
  <1>a. PICK u \in Venue : \E k \in 1..Len(lists[u]) : e = <<u, k>>
    BY OnOffer
  <1>1. PICK k \in 1..Len(lists[u]) : e = <<u, k>>
    BY <1>a
  <1>2. /\ cursor[u] \in Nat /\ k > cursor[u] /\ lists[u] \in Seq(Level)
        /\ cursor[v] \in Nat /\ u \in Int /\ v \in Int /\ side \in Side
    BY <1>1, MergedPlaces, VenueAssumption DEF TypeOK
  <1> DEFINE g == lists[u][cursor[u] + 1]
  <1>3. /\ cursor[u] < Len(lists[u])
        /\ f \in Level /\ g \in Level /\ lists[u][k] \in Level
        /\ f = Front(lists, cursor, v) /\ g = Front(lists, cursor, u)
    BY <1>1, <1>2, EmitFacts DEF Front
  <1>4. ~Better(side, g, f) /\ (u < v => Better(side, f, g))
    BY <1>2, <1>3 DEF Emit, IsBest, Pending, TypeOK
  <1>5. ~Better(side, lists[u][k], g)
    <2>1. CASE k = cursor[u] + 1
      BY <1>3, <2>1 DEF Better, Level
    <2>2. CASE k # cursor[u] + 1
      <3>1. cursor[u] + 1 \in 1..Len(lists[u]) /\ cursor[u] + 1 < k
        BY <1>2, <1>3, <2>2
      <3> QED
        BY <3>1 DEF ListsSorted, BestFirst
    <2> QED
      BY <2>1, <2>2
  <1>6. v # u \/ cursor[v] + 1 < k
    BY <1>1, <1>2
  <1> HIDE DEF f, g
  <1>7. \/ Rank(f) < Rank(lists[u][k])
        \/ Rank(f) = Rank(lists[u][k]) /\ f.amount > lists[u][k].amount
        \/ Rank(f) = Rank(lists[u][k]) /\ f.amount = lists[u][k].amount
             /\ ~Better(side, f, g)
    BY <1>2, <1>3, <1>4, <1>5, NotBetterTwice
  <1>8. \/ Rank(f) < Rank(lists[u][k])
        \/ Rank(f) = Rank(lists[u][k]) /\ f.amount > lists[u][k].amount
        \/ Rank(f) = Rank(lists[u][k]) /\ f.amount = lists[u][k].amount
             /\ (v < u \/ (v = u /\ cursor[v] + 1 < k))
    BY <1>2, <1>4, <1>6, <1>7
  <1> QED
    BY <1>1, <1>8 DEF Before, f

(* Each pass merges one more place. *)
LEMMA MergedGrows ==
  ASSUME TypeOK, NEW v \in Venue, Emit(v)
  PROVE  /\ Merged' = Merged \cup {<<v, cursor[v] + 1>>}
         /\ <<v, cursor[v] + 1>> \in AllLevels \ Merged
         /\ AllLevels' = AllLevels
         /\ \A d, e : Before(d, e)' = Before(d, e)
  <1>1. /\ cursor[v] \in Nat /\ cursor[v] + 1 \in 1..Len(lists[v])
        /\ side' = side /\ lists' = lists
    BY EmitFacts DEF TypeOK
  <1>2. <<v, cursor[v] + 1>> \in AllLevels \ Merged
    BY <1>1, OnOffer, MergedPlaces
  <1>3. \A u \in Venue :
          1..cursor'[u] = IF u = v THEN (1..cursor[v]) \cup {cursor[v] + 1} ELSE 1..cursor[u]
    <2> SUFFICES ASSUME NEW u \in Venue, u = v
                 PROVE  1..cursor'[u] = (1..cursor[v]) \cup {cursor[v] + 1}
      BY CursorStep
    <2>1. cursor'[u] = cursor[v] + 1
      BY CursorStep
    <2> QED
      BY <1>1, <2>1
  <1>4. Merged' = Merged \cup {<<v, cursor[v] + 1>>}
    <2>1. \A d : d \in Merged <=> \E u \in Venue : \E k \in 1..cursor[u] : d = <<u, k>>
      BY DEF Merged
    <2>2. \A d : d \in Merged' <=> \E u \in Venue : \E k \in 1..cursor'[u] : d = <<u, k>>
      BY DEF Merged
    <2>3. \A u \in Venue : \A k :
            k \in 1..cursor'[u] <=> k \in 1..cursor[u] \/ (u = v /\ k = cursor[v] + 1)
      BY <1>3
    <2> QED
      BY <2>1, <2>2, <2>3, Zenon
  <1> QED
    BY <1>1, <1>2, <1>4 DEF AllLevels, Before, Rank

(* The i-th level out is the i-th of all levels in the reference order:    *)
(* the loop computes the top TopN of the union of the venues' books.       *)
THEOREM OutIsTheTop == Spec => []OutIsTopN
  <1> DEFINE Inv == MergedInv /\ OutIsTopN
  <1>1. Init => Inv
    <2> SUFFICES ASSUME Init PROVE Inv
      OBVIOUS
    <2>1. Merged = {} /\ out = <<>>
      BY DEF Init, Merged
    <2> QED
      BY <2>1, FS_EmptySet DEF MergedInv, OutIsTopN
  <1>2. TypeOK /\ TypeOK' /\ ListsSorted /\ Inv /\ [Next]_vars => Inv'
    <2> SUFFICES ASSUME TypeOK, TypeOK', ListsSorted, Inv, [Next]_vars
                 PROVE  Inv'
      OBVIOUS
    <2>1. ASSUME NEW v \in Venue, Emit(v)
          PROVE  Inv'
      <3> DEFINE next == <<v, cursor[v] + 1>>
      <3>1. /\ Merged' = Merged \cup {next} /\ next \in AllLevels \ Merged
            /\ AllLevels' = AllLevels /\ \A d, e : Before(d, e)' = Before(d, e)
        BY <2>1, MergedGrows
      <3>2. \A e \in AllLevels \ Merged : e # next => Before(next, e)
        BY <2>1, FrontIsNext
      <3>3. /\ out \in Seq(OutLevel) /\ Len(out) \in Nat /\ Len(out') = Len(out) + 1
            /\ out'[Len(out) + 1] = Tagged(v, lists[v][cursor[v] + 1])
            /\ \A i \in 1..Len(out) : out'[i] = out[i]
            /\ lists' = lists
        <4>1. out \in Seq(OutLevel) /\ out' = Append(out, Tagged(v, lists[v][cursor[v] + 1]))
          BY <2>1, EmitFacts DEF TypeOK
        <4>2. Tagged(v, lists[v][cursor[v] + 1]) \in OutLevel
          BY <2>1, EmitFacts, TaggedType
        <4> QED
          BY <2>1, <4>1, <4>2, EmitFacts
      <3> HIDE DEF next
      <3>4. MergedInv'
        <4>1. IsFiniteSet(Merged') /\ Cardinality(Merged') = Len(out')
          BY <3>1, <3>3, FS_AddElement DEF MergedInv
        <4>2. \A d \in Merged', e \in AllLevels' \ Merged' : Before(d, e)'
          BY <3>1, <3>2 DEF MergedInv
        <4> QED
          BY <4>1, <4>2 DEF MergedInv
      <3>5. {d \in AllLevels : Before(d, next)} = Merged
        <4>1. \A d \in Merged : d \in AllLevels /\ Before(d, next)
          BY <3>1, MergedPlaces DEF MergedInv
        <4>2. \A d \in AllLevels : Before(d, next) => d \in Merged
          BY <3>1, <3>2, BeforeIsAsymmetric
        <4> QED
          BY <4>1, <4>2
      <3>6. ASSUME NEW i \in 1..Len(out')
            PROVE  \E e \in AllLevels :
                     /\ out'[i] = Tagged(e[1], lists[e[1]][e[2]])
                     /\ Cardinality({d \in AllLevels : Before(d, e)}) = i - 1
        <4>1. CASE i \in 1..Len(out)
          BY <3>3, <4>1 DEF OutIsTopN
        <4>2. CASE i = Len(out) + 1
          <5>1. out'[i] = Tagged(next[1], lists[next[1]][next[2]])
            BY <3>3, <4>2 DEF next
          <5>2. Cardinality({d \in AllLevels : Before(d, next)}) = i - 1
            <6>1. Cardinality(Merged) = Len(out)
              BY DEF MergedInv
            <6>2. Cardinality({d \in AllLevels : Before(d, next)}) = Cardinality(Merged)
              BY <3>5, Zenon
            <6>3. Len(out) = i - 1
              BY <3>3, <4>2
            <6> QED
              BY <6>1, <6>2, <6>3, Zenon
          <5> QED
            BY <3>1, <5>1, <5>2
        <4>3. i \in 1..Len(out) \/ i = Len(out) + 1
          BY <3>3
        <4> QED
          BY <4>1, <4>2, <4>3
      <3>7. OutIsTopN'
        BY <3>1, <3>3, <3>6 DEF OutIsTopN
      <3> QED
        BY <3>4, <3>7
    <2>2. CASE UNCHANGED vars
      <3>1. /\ AllLevels' = AllLevels /\ Merged' = Merged
            /\ \A d, e : Before(d, e)' = Before(d, e)
        BY <2>2 DEF vars, AllLevels, Merged, Before, Rank
      <3> QED
        BY <2>2, <3>1 DEF vars, MergedInv, OutIsTopN
    <2> QED
      BY <2>1, <2>2 DEF Next
  <1> QED
    BY <1>1, <1>2, MergeTypeCorrect, ListsStaySorted, PTL DEF Spec
============================================================================
