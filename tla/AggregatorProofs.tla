-------------------------- MODULE AggregatorProofs --------------------------
(***************************************************************************)
(* Theorems about Aggregator for every set of venues, books, thresholds    *)
(* and intervals, and about its place in the Pipeline for every set of     *)
(* clients.  Only the last part needs what Pipeline assumes.               *)
(***************************************************************************)
EXTENDS ClientStatus, WellFoundedInduction, FiniteSetTheorems, TLAPS

LEMMA StateFields ==
  ASSUME NEW states, DOMAIN states \subseteq Venue,
         states \in [DOMAIN states -> VenueState]
  PROVE  \A v \in DOMAIN states :
           /\ v \in Venue
           /\ states[v].book \in Book
           /\ states[v].lastUpdate \in Nat
           /\ Staleness[v] \in Nat
  <1> SUFFICES ASSUME NEW v \in DOMAIN states
               PROVE  /\ v \in Venue
                      /\ states[v].book \in Book
                      /\ states[v].lastUpdate \in Nat
                      /\ Staleness[v] \in Nat
    OBVIOUS
  <1>1. states[v] \in VenueState
    OBVIOUS
  <1> QED
    BY <1>1, TimingAssumption DEF VenueState

LEMMA RecordedType ==
  ASSUME NEW states, DOMAIN states \subseteq Venue,
         states \in [DOMAIN states -> VenueState],
         NEW v \in Venue, NEW book \in Book, NEW t \in Nat
  PROVE  /\ DOMAIN Recorded(states, v, book, t) \subseteq Venue
         /\ Recorded(states, v, book, t) \in
              [DOMAIN Recorded(states, v, book, t) -> VenueState]
  BY DEF Recorded, VenueState

(* Whatever is merged is a merge of books that feeds may send. *)
LEMMA FreshMergeType ==
  ASSUME NEW states, DOMAIN states \subseteq Venue,
         states \in [DOMAIN states -> VenueState], NEW t
  PROVE  MergeBooks(FreshVenues(states, t)) \in Summary \cup {NoSummary}
  <1> DEFINE S == {u \in DOMAIN states : t - states[u].lastUpdate < Staleness[u]}
  <1>1. S \in SUBSET Venue
    OBVIOUS
  <1>2. FreshVenues(states, t) \in [S -> Book]
    BY DEF FreshVenues, VenueState
  <1>3. FreshVenues(states, t) \in UNION {[R -> Book] : R \in SUBSET Venue}
    BY <1>1, <1>2
  <1> QED
    BY <1>3 DEF Summary

LEMMA QueueStep ==
  ASSUME NEW q \in Seq(Venue \X Book), q # <<>>
  PROVE  /\ Tail(q) \in Seq(Venue \X Book)
         /\ Len(Tail(q)) = Len(q) - 1
         /\ Head(q)[1] \in Venue
         /\ Head(q)[2] \in Book
  <1>1. Head(q) \in Venue \X Book
    OBVIOUS
  <1> QED
    BY <1>1

LEMMA SamplesType ==
  ASSUME samples \in [{"parse", "mergePublish", "total"} -> Nat],
         NEW kinds, CountSamples(kinds)
  PROVE  /\ samples' \in [{"parse", "mergePublish", "total"} -> Nat]
         /\ \A k \in {"parse", "mergePublish", "total"} :
              samples'[k] = IF k \in kinds THEN samples[k] + 1 ELSE samples[k]
  BY DEF CountSamples

(* The three outcomes of a message, with the summary it merged. *)
LEMMA ReceiveOutcome ==
  ASSUME TypeOK, Receive
  PROVE  /\ Head(queue)[1] \in Venue
         /\ Head(queue)[2] \in Book
         /\ queue' = Tail(queue)
         /\ queue' \in Seq(Venue \X Book)
         /\ Len(queue') = Len(queue) - 1 /\ Len(queue) \in Nat
         /\ venues' = Recorded(venues, Head(queue)[1], Head(queue)[2], now)
         /\ DOMAIN venues' \subseteq Venue
         /\ venues' \in [DOMAIN venues' -> VenueState]
         /\ \E summary \in Summary \cup {NoSummary} :
              /\ summary = MergeBooks(FreshVenues(venues', now))
              /\ \/ summary = NoSummary /\ NothingToPublish
                 \/ summary # NoSummary /\ IsDuplicate(summary) /\ SkipDuplicate(summary)
                 \/ summary # NoSummary /\ ~IsDuplicate(summary) /\ Publish(summary)
  <1>1. /\ queue' = Tail(queue)
        /\ queue' \in Seq(Venue \X Book)
        /\ Len(queue') = Len(queue) - 1 /\ Len(queue) \in Nat
        /\ Head(queue)[1] \in Venue
        /\ Head(queue)[2] \in Book
    BY QueueStep DEF Receive, TypeOK, ChannelTypeOK
  <1>2. venues' = Recorded(venues, Head(queue)[1], Head(queue)[2], now)
    BY DEF Receive, RecordAndPublish
  <1>3. /\ DOMAIN venues' \subseteq Venue
        /\ venues' \in [DOMAIN venues' -> VenueState]
    BY <1>1, <1>2, RecordedType DEF TypeOK, VenuesTypeOK, TimersTypeOK
  <1>4. MergeBooks(FreshVenues(venues', now)) \in Summary \cup {NoSummary}
    BY <1>3, FreshMergeType
  <1> DEFINE summary == MergeBooks(FreshVenues(venues', now))
  <1>5. \/ summary = NoSummary /\ NothingToPublish
        \/ summary # NoSummary /\ IsDuplicate(summary) /\ SkipDuplicate(summary)
        \/ summary # NoSummary /\ ~IsDuplicate(summary) /\ Publish(summary)
    BY DEF Receive, RecordAndPublish
  <1> HIDE DEF summary
  <1> QED
    BY <1>1, <1>2, <1>3, <1>4, <1>5 DEF summary

(* Every step but Receive leaves the venues and the summaries alone. *)
LEMMA OnlyReceivePublishes ==
  ASSUME [Next]_vars, ~Receive
  PROVE  UNCHANGED <<venues, lastPublished, watch>>
  BY DEF Next, vars, published, counters, timers, ChannelClosed, GraceCheck,
         Report, Tick, FeedEnds, Send

----------------------------------------------------------------------------
(* What the aggregator relies on in the merge. *)

LEMMA LeastNatural ==
  ASSUME NEW T \in SUBSET Nat, T # {}
  PROVE  \E m \in T : \A k \in T : m <= k
  <1>1. PICK m \in T : \A k \in T : <<k, m>> \notin OpToRel(<, Nat)
    BY WFMin, NatLessThanWellFounded, Zenon
  <1>2. \A k \in T : ~(k < m)
    BY <1>1, Zenon DEF OpToRel
  <1> QED
    BY <1>2

LEMMA NaturalsByInduction ==
  ASSUME NEW S \in SUBSET Nat, 0 \in S, \A n \in S : n + 1 \in S
  PROVE  S = Nat
  <1> SUFFICES ASSUME Nat \ S # {} PROVE FALSE
    OBVIOUS
  <1>1. PICK m \in Nat \ S : \A k \in Nat \ S : m <= k
    BY LeastNatural
  <1>2. m # 0 /\ m - 1 \in Nat
    BY <1>1
  <1>3. m - 1 \in S
    BY <1>1, <1>2
  <1> QED
    BY <1>2, <1>3

(* The recursive function in Passes exists, so its equation holds. *)
LEMMA PassesUnfold ==
  ASSUME NEW s, NEW levels
  PROVE  /\ Passes(s, levels)[0] = Untouched(levels)
         /\ \A n \in 1..TopN :
              Passes(s, levels)[n] = Pass(s, levels, Passes(s, levels)[n - 1])
  <1> DEFINE Goes(f, n) ==
               f = [k \in 0..n |-> IF k = 0 THEN Untouched(levels)
                                   ELSE Pass(s, levels, f[k - 1])]
             S == {n \in Nat : \E f : Goes(f, n)}
  <1>1. 0 \in S
    <2> DEFINE f == [k \in 0..0 |-> Untouched(levels)]
    <2>1. Goes(f, 0)
      OBVIOUS
    <2> QED
      BY <2>1
  <1>2. ASSUME NEW n \in S PROVE n + 1 \in S
    <2>1. PICK f : Goes(f, n)
      OBVIOUS
    <2> DEFINE g == [k \in 0..(n + 1) |-> IF k = 0 THEN Untouched(levels)
                                          ELSE Pass(s, levels, f[k - 1])]
    <2>2. \A k \in 0..n : g[k] = f[k]
      BY <2>1
    <2>3. Goes(g, n + 1)
      <3>1. \A k \in 0..(n + 1) :
              g[k] = IF k = 0 THEN Untouched(levels) ELSE Pass(s, levels, g[k - 1])
        <4> SUFFICES ASSUME NEW k \in 0..(n + 1), k # 0
                     PROVE  g[k] = Pass(s, levels, g[k - 1])
          OBVIOUS
        <4>1. k - 1 \in 0..n
          OBVIOUS
        <4>2. g[k - 1] = f[k - 1]
          BY <2>2, <4>1
        <4> HIDE DEF Goes
        <4>3. g[k] = Pass(s, levels, f[k - 1])
          OBVIOUS
        <4> QED
          BY <4>2, <4>3
      <3>2. DOMAIN g = 0..(n + 1)
        OBVIOUS
      <3> QED
        BY <3>1, <3>2
    <2> HIDE DEF g, Goes
    <2> QED
      BY <2>3
  <1> HIDE DEF S
  <1>3. S = Nat
    <2>1. S \in SUBSET Nat
      BY DEF S
    <2> QED
      BY <1>1, <1>2, <2>1, NaturalsByInduction
  <1>4. \E f : Goes(f, TopN)
    BY <1>3, TopNAssumption DEF S
  <1>5. Goes(Passes(s, levels), TopN)
    <2>1. Passes(s, levels) = CHOOSE f : Goes(f, TopN)
      BY DEF Passes
    <2> HIDE DEF Goes
    <2> QED
      BY <1>4, <2>1
  <1> QED
    BY <1>5, TopNAssumption


(* The order of two venues' fronts that min_by uses: the better front, of  *)
(* two that tie the earlier venue's.                                       *)
Ahead(s, levels, at, u, v) ==
  \/ Better(s, Front(levels, at, u), Front(levels, at, v))
  \/ ~Better(s, Front(levels, at, v), Front(levels, at, u)) /\ u < v

LEMMA AheadIsTotal ==
  ASSUME NEW s \in Side, NEW levels, NEW at,
         NEW T \in SUBSET Venue, \A v \in T : Front(levels, at, v) \in Level,
         NEW u \in T, NEW v \in T, NEW w \in T
  PROVE  /\ u # v => Ahead(s, levels, at, u, v) \/ Ahead(s, levels, at, v, u)
         /\ Ahead(s, levels, at, u, v) /\ Ahead(s, levels, at, v, w) => Ahead(s, levels, at, u, w)
  <1> DEFINE a == Front(levels, at, u)
             b == Front(levels, at, v)
             c == Front(levels, at, w)
  <1>1. u \in Int /\ v \in Int /\ w \in Int /\ a \in Level /\ b \in Level /\ c \in Level
    BY VenueAssumption
  <1> HIDE DEF a, b, c
  <1>2. /\ a.price \in Int /\ b.price \in Int /\ c.price \in Int
        /\ a.amount \in Int /\ b.amount \in Int /\ c.amount \in Int
    BY <1>1 DEF Level
  <1>3. (s = Ask /\ s # Bid) \/ (s = Bid /\ s # Ask)
    BY DEF Side, Bid, Ask
  <1>4. u # v => (Better(s, a, b) \/ (~Better(s, b, a) /\ u < v))
                   \/ (Better(s, b, a) \/ (~Better(s, a, b) /\ v < u))
    BY <1>1
  <1>5. (Better(s, a, b) \/ (~Better(s, b, a) /\ u < v)) /\ (Better(s, b, c) \/ (~Better(s, c, b) /\ v < w))
          => (Better(s, a, c) \/ (~Better(s, c, a) /\ u < w))
    BY <1>1, <1>2, <1>3 DEF Better
  <1> QED
    BY <1>4, <1>5 DEF Ahead, a, b, c

(* As long as a level is pending, one of the fronts is the best. *)
LEMMA BestExists ==
  ASSUME NEW s \in Side, NEW levels, NEW at,
         DOMAIN levels \subseteq Venue, Pending(levels, at) # {},
         \A v \in Pending(levels, at) : Front(levels, at, v) \in Level
  PROVE  \E v \in DOMAIN levels : IsBest(s, levels, at, v)
  <1> DEFINE P == Pending(levels, at)
             First(m, T) == \A u \in T : u = m \/ Ahead(s, levels, at, m, u)
             S == {n \in Nat : \A T \in SUBSET P :
                     IsFiniteSet(T) /\ Cardinality(T) = n + 1 => \E m \in T : First(m, T)}
  <1>a. P \in SUBSET Venue /\ P \subseteq DOMAIN levels
    BY DEF Pending
  <1> HIDE DEF P
  <1>1. 0 \in S
    <2> SUFFICES ASSUME NEW T \in SUBSET P, IsFiniteSet(T), Cardinality(T) = 1
                 PROVE  \E m \in T : First(m, T)
      OBVIOUS
    <2>1. PICK m : T = {m}
      BY FS_Singleton
    <2> QED
      BY <2>1
  <1>2. ASSUME NEW n \in S PROVE n + 1 \in S
    <2> SUFFICES ASSUME NEW T \in SUBSET P, IsFiniteSet(T), Cardinality(T) = n + 2
                 PROVE  \E m \in T : First(m, T)
      OBVIOUS
    <2>1. PICK x \in T : TRUE
      BY FS_EmptySet
    <2>2. IsFiniteSet(T \ {x}) /\ Cardinality(T \ {x}) = n + 1
      BY FS_RemoveElement
    <2>3. PICK m \in T \ {x} : First(m, T \ {x})
      BY <2>2
    <2>4. \A u \in P : Front(levels, at, u) \in Level
      BY DEF P
    <2>5. CASE Ahead(s, levels, at, m, x)
      BY <2>3, <2>5
    <2>6. CASE ~Ahead(s, levels, at, m, x)
      <3>1. Ahead(s, levels, at, x, m)
        BY <1>a, <2>3, <2>4, <2>6, AheadIsTotal
      <3>2. ASSUME NEW u \in T \ {x} PROVE Ahead(s, levels, at, x, u)
        BY <1>a, <2>3, <2>4, <3>1, AheadIsTotal
      <3> QED
        BY <3>2
    <2> QED
      BY <2>5, <2>6
  <1>3. S = Nat
    <2>1. S \in SUBSET Nat
      OBVIOUS
    <2> HIDE DEF S
    <2> QED
      BY <1>1, <1>2, <2>1, NaturalsByInduction
  <1>4. IsFiniteSet(P) /\ Cardinality(P) \in Nat \ {0}
    BY <1>a, VenueAssumption, FS_Subset, FS_EmptySet, FS_CardinalityType DEF P
  <1>5. \E m \in P : First(m, P)
    <2>1. Cardinality(P) - 1 \in S
      <3> HIDE DEF S
      <3> QED
        BY <1>3, <1>4
    <2> QED
      BY <1>4, <2>1
  <1>6. PICK m \in P : First(m, P)
    BY <1>5
  <1>7. ASSUME NEW u \in P
        PROVE  /\ ~Better(s, Front(levels, at, u), Front(levels, at, m))
               /\ u < m => Better(s, Front(levels, at, m), Front(levels, at, u))
    <2>1. /\ Front(levels, at, u) \in Level /\ Front(levels, at, m) \in Level
          /\ u \in Int /\ m \in Int
      BY <1>a, VenueAssumption DEF P
    <2>2. u = m \/ Ahead(s, levels, at, m, u)
      BY <1>6
    <2>3. \A x, y \in Level : Better(s, x, y) => ~Better(s, y, x)
      BY DEF Better, Level, Side, Bid, Ask
    <2> QED
      BY <2>1, <2>2, <2>3 DEF Ahead
  <1> QED
    BY <1>a, <1>7 DEF IsBest, P

(* A price's rank on its side: the best price has the lowest.              *)
PriceRank(s, level) == IF s = Ask THEN level.price ELSE -level.price

OutOf(V) == [exchange : V, price : Int, amount : Int]

(* What every pass keeps: the first level out is no worse than any other,  *)
(* out or not yet out, and what is out names a venue of the merge.         *)
BestCameFirst(s, levels, r) ==
  /\ r.cursor \in [DOMAIN levels -> Nat]
  /\ r.out \in Seq(OutOf(DOMAIN levels))
  /\ \A i \in 1..Len(r.out) : PriceRank(s, r.out[1]) <= PriceRank(s, r.out[i])
  /\ r.out # <<>> =>
       \A v \in DOMAIN levels : \A k \in (r.cursor[v] + 1)..Len(levels[v]) :
         PriceRank(s, r.out[1]) <= PriceRank(s, levels[v][k])

(* The front a pass emits is no worse in price than anything not yet out.  *)
LEMMA BestIsNoWorse ==
  ASSUME NEW s \in Side, NEW levels, DOMAIN levels \subseteq Venue,
         levels \in [DOMAIN levels -> Seq(Level)],
         \A v \in DOMAIN levels : BestFirst(s, levels[v]),
         NEW at \in [DOMAIN levels -> Nat],
         NEW v, IsBest(s, levels, at, v),
         NEW u \in DOMAIN levels, NEW k \in (at[u] + 1)..Len(levels[u])
  PROVE  /\ v \in DOMAIN levels /\ at[v] < Len(levels[v])
         /\ Front(levels, at, v) \in Level
         /\ PriceRank(s, Front(levels, at, v)) <= PriceRank(s, levels[u][k])
  <1> DEFINE f == Front(levels, at, v)
             g == Front(levels, at, u)
             h == levels[u][k]
  <1>1. v \in DOMAIN levels /\ at[v] < Len(levels[v])
    BY DEF IsBest, Pending
  <1>2. /\ at[u] \in Nat /\ at[v] \in Nat
        /\ levels[u] \in Seq(Level) /\ levels[v] \in Seq(Level)
        /\ Len(levels[u]) \in Nat /\ Len(levels[v]) \in Nat
    BY <1>1
  <1>3. /\ u \in Pending(levels, at) /\ k \in 1..Len(levels[u])
        /\ at[u] + 1 \in 1..Len(levels[u]) /\ at[v] + 1 \in 1..Len(levels[v])
    BY <1>1, <1>2 DEF Pending
  <1>4. f \in Level /\ g \in Level /\ h \in Level
    BY <1>2, <1>3 DEF Front
  <1>5. ~Better(s, g, f)
    BY <1>3 DEF IsBest
  <1>6. k = at[u] + 1 \/ ~Better(s, h, g)
    BY <1>2, <1>3 DEF BestFirst, Front
  <1>7. k = at[u] + 1 => h = g
    BY DEF Front
  <1> HIDE DEF f, g, h
  <1>8. /\ f.price \in Int /\ g.price \in Int /\ h.price \in Int
        /\ f.amount \in Int /\ g.amount \in Int /\ h.amount \in Int
    BY <1>4 DEF Level
  <1>9. PriceRank(s, f) <= PriceRank(s, g)
    BY <1>5, <1>8 DEF Better, PriceRank, Side, Bid, Ask
  <1>10. PriceRank(s, g) <= PriceRank(s, h)
    BY <1>6, <1>7, <1>8 DEF Better, PriceRank, Side, Bid, Ask
  <1>11. PriceRank(s, f) <= PriceRank(s, h)
    BY <1>8, <1>9, <1>10 DEF PriceRank
  <1> QED
    BY <1>1, <1>4, <1>11 DEF f, h

LEMMA PassKeepsBestFirst ==
  ASSUME NEW s \in Side, NEW levels, DOMAIN levels \subseteq Venue,
         levels \in [DOMAIN levels -> Seq(Level)],
         \A v \in DOMAIN levels : BestFirst(s, levels[v]),
         NEW r, BestCameFirst(s, levels, r)
  PROVE  BestCameFirst(s, levels, Pass(s, levels, r))
  <1>1. CASE Pending(levels, r.cursor) = {}
    BY <1>1 DEF Pass
  <1>2. CASE Pending(levels, r.cursor) # {}
    <2> DEFINE at == r.cursor
               v == CHOOSE u \in DOMAIN levels : IsBest(s, levels, at, u)
               f == Front(levels, at, v)
               e == Tagged(v, f)
               q == Pass(s, levels, r)
    <2>1. /\ at \in [DOMAIN levels -> Nat]
          /\ r.out \in Seq(OutOf(DOMAIN levels)) /\ Len(r.out) \in Nat
      BY DEF BestCameFirst
    <2>2. \A u \in Pending(levels, at) : Front(levels, at, u) \in Level
      <3> SUFFICES ASSUME NEW u \in DOMAIN levels, at[u] < Len(levels[u])
                   PROVE  Front(levels, at, u) \in Level
        BY DEF Pending
      <3>1. at[u] \in Nat /\ levels[u] \in Seq(Level)
        BY <2>1
      <3> QED
        BY <3>1 DEF Front
    <2>3. v \in DOMAIN levels /\ IsBest(s, levels, at, v)
      <3>1. \E u \in DOMAIN levels : IsBest(s, levels, at, u)
        BY <1>2, <2>2, BestExists
      <3> QED
        BY <3>1
    <2>4. q.cursor = [at EXCEPT ![v] = @ + 1] /\ q.out = Append(r.out, e)
      BY <1>2 DEF Pass
    <2> HIDE DEF v
    <2>5. f \in Level /\ at[v] \in Nat /\ at[v] + 1 \in (at[v] + 1)..Len(levels[v])
      <3>1. v \in Pending(levels, at)
        BY <2>3 DEF IsBest
      <3>2. at[v] \in Nat /\ levels[v] \in Seq(Level) /\ at[v] < Len(levels[v])
        BY <2>1, <3>1 DEF Pending
      <3> QED
        BY <2>2, <3>1, <3>2
    <2>6. /\ e \in OutOf(DOMAIN levels) /\ e.price = f.price
      BY <2>3, <2>5 DEF Tagged, OutOf, Level
    <2>7. PriceRank(s, e) = PriceRank(s, f) /\ PriceRank(s, e) \in Int
      BY <2>5, <2>6 DEF PriceRank, Level
    <2>8. \A u \in DOMAIN levels : \A k \in (at[u] + 1)..Len(levels[u]) :
            PriceRank(s, e) <= PriceRank(s, levels[u][k])
      BY <2>1, <2>3, <2>7, BestIsNoWorse
    <2>9. r.out # <<>> => PriceRank(s, r.out[1]) <= PriceRank(s, e)
      BY <2>3, <2>5, <2>7 DEF BestCameFirst, Front
    <2> HIDE DEF q, e, f
    <2>10. /\ q.out \in Seq(OutOf(DOMAIN levels)) /\ Len(q.out) = Len(r.out) + 1
           /\ q.out[Len(r.out) + 1] = e
           /\ \A i \in 1..Len(r.out) : q.out[i] = r.out[i]
      BY <2>1, <2>4, <2>6
    <2>11. /\ q.cursor \in [DOMAIN levels -> Nat]
           /\ \A u \in DOMAIN levels : q.cursor[u] \in {at[u], at[u] + 1}
      BY <2>1, <2>3, <2>4
    <2>12. PriceRank(s, q.out[1]) =
             IF r.out = <<>> THEN PriceRank(s, e) ELSE PriceRank(s, r.out[1])
      <3>1. r.out = <<>> => Len(r.out) = 0
        OBVIOUS
      <3>2. r.out # <<>> => 1 \in 1..Len(r.out)
        BY <2>1
      <3> QED
        BY <2>10, <3>1, <3>2
    <2>13. ASSUME NEW i \in 1..Len(q.out)
           PROVE  PriceRank(s, q.out[1]) <= PriceRank(s, q.out[i])
      <3>1. CASE i \in 1..Len(r.out)
        <4>1. r.out # <<>>
          BY <3>1
        <4> QED
          BY <2>10, <2>12, <3>1, <4>1 DEF BestCameFirst
      <3>2. CASE i = Len(r.out) + 1
        BY <2>7, <2>9, <2>10, <2>12, <3>2
      <3> QED
        BY <2>1, <2>10, <3>1, <3>2
    <2>14. ASSUME NEW u \in DOMAIN levels, NEW k \in (q.cursor[u] + 1)..Len(levels[u])
           PROVE  PriceRank(s, q.out[1]) <= PriceRank(s, levels[u][k])
      <3>1. at[u] \in Nat /\ q.cursor[u] \in {at[u], at[u] + 1}
        BY <2>1, <2>11
      <3>2. levels[u] \in Seq(Level) /\ Len(levels[u]) \in Nat
        OBVIOUS
      <3>3. k \in (at[u] + 1)..Len(levels[u])
        <4>1. k \in Int /\ q.cursor[u] + 1 <= k /\ k <= Len(levels[u])
          BY <3>1, <3>2
        <4> QED
          BY <3>1, <3>2, <4>1
      <3> QED
        BY <2>8, <2>12, <3>3 DEF BestCameFirst
    <2>15. BestCameFirst(s, levels, q)
      BY <2>10, <2>11, <2>13, <2>14 DEF BestCameFirst
    <2> QED
      BY <2>15 DEF q
  <1> QED
    BY <1>1, <1>2

(* merge_side gives out the best level of the side first, and every level  *)
(* with a venue of the merge, whatever venues take part.                   *)
LEMMA MergeSideBest ==
  ASSUME NEW books, DOMAIN books \subseteq Venue, books \in [DOMAIN books -> Book],
         NEW s \in Side
  PROVE  LET out == MergeSide(books, s)
         IN  /\ out \in Seq(OutOf(DOMAIN books))
             /\ \A i \in 1..Len(out) : PriceRank(s, out[1]) <= PriceRank(s, out[i])
  <1> DEFINE levels == [v \in DOMAIN books |-> books[v][s]]
             S == {n \in Nat : n <= TopN => BestCameFirst(s, levels, Passes(s, levels)[n])}
  <1>1. /\ DOMAIN levels = DOMAIN books
        /\ levels \in [DOMAIN levels -> Seq(Level)]
        /\ \A v \in DOMAIN levels : BestFirst(s, levels[v])
    BY BookAssumption
  <1> HIDE DEF levels
  <1>2. 0 \in S
    <2>1. BestCameFirst(s, levels, Untouched(levels))
      BY DEF BestCameFirst, Untouched
    <2> QED
      BY <2>1, PassesUnfold
  <1>3. ASSUME NEW n \in S PROVE n + 1 \in S
    <2> SUFFICES ASSUME n + 1 <= TopN
                 PROVE  BestCameFirst(s, levels, Passes(s, levels)[n + 1])
      OBVIOUS
    <2>1. BestCameFirst(s, levels, Passes(s, levels)[n])
      BY TopNAssumption
    <2>2. n + 1 \in 1..TopN /\ (n + 1) - 1 = n
      BY TopNAssumption
    <2>3. Passes(s, levels)[n + 1] = Pass(s, levels, Passes(s, levels)[n])
      BY <2>2, PassesUnfold
    <2> QED
      BY <1>1, <2>1, <2>3, PassKeepsBestFirst
  <1>4. S = Nat
    <2>1. S \in SUBSET Nat
      OBVIOUS
    <2> HIDE DEF S
    <2> QED
      BY <1>2, <1>3, <2>1, NaturalsByInduction
  <1>5. BestCameFirst(s, levels, Passes(s, levels)[TopN])
    <2>1. TopN \in S
      <3> HIDE DEF S
      <3> QED
        BY <1>4, TopNAssumption
    <2> QED
      BY <2>1, TopNAssumption
  <1>6. MergeSide(books, s) = Passes(s, levels)[TopN].out
    BY DEF MergeSide, levels
  <1> QED
    BY <1>1, <1>5, <1>6 DEF BestCameFirst
----------------------------------------------------------------------------

(* The aggregator's state is well typed in every reachable state.          *)
THEOREM TypeCorrect == Spec => []TypeOK
  <1> USE TimingAssumption, BoundAssumption
  <1>1. Init => TypeOK
    BY DEF Init, TypeOK, ChannelTypeOK, VenuesTypeOK, PublishedTypeOK,
           CountersTypeOK, TimersTypeOK, NoSamples, VenueState
  <1>2. TypeOK /\ [Next]_vars => TypeOK'
    <2> SUFFICES ASSUME TypeOK, [Next]_vars
                 PROVE  TypeOK'
      OBVIOUS
    <2>1. CASE Receive
      <3>1. PICK summary \in Summary \cup {NoSummary} :
              \/ summary = NoSummary /\ NothingToPublish
              \/ summary # NoSummary /\ IsDuplicate(summary) /\ SkipDuplicate(summary)
              \/ summary # NoSummary /\ ~IsDuplicate(summary) /\ Publish(summary)
        BY <2>1, ReceiveOutcome
      <3>2. ChannelTypeOK'
        BY <2>1, ReceiveOutcome DEF TypeOK, ChannelTypeOK, Receive
      <3>3. VenuesTypeOK'
        BY <2>1, ReceiveOutcome DEF VenuesTypeOK
      <3>4. PublishedTypeOK'
        BY <3>1 DEF TypeOK, PublishedTypeOK, NothingToPublish, SkipDuplicate,
                    Publish, published
      <3>5. CountersTypeOK'
        <4>1. samples' \in [{"parse", "mergePublish", "total"} -> Nat]
          BY <3>1, SamplesType DEF TypeOK, CountersTypeOK, NothingToPublish,
                                   SkipDuplicate, Publish
        <4>2. updateCount' \in Nat /\ duplicateCount' \in Nat
          BY <3>1 DEF TypeOK, CountersTypeOK, NothingToPublish, SkipDuplicate, Publish
        <4> QED
          BY <4>1, <4>2 DEF CountersTypeOK
      <3>6. TimersTypeOK'
        BY <2>1 DEF TypeOK, TimersTypeOK, Receive, timers
      <3> QED
        BY <3>2, <3>3, <3>4, <3>5, <3>6 DEF TypeOK
    <2>2. CASE ~Receive
      <3>1. VenuesTypeOK' /\ PublishedTypeOK'
        BY <2>2, OnlyReceivePublishes DEF TypeOK, VenuesTypeOK, PublishedTypeOK
      <3>2. ChannelTypeOK'
        <4>1. ASSUME NEW v \in Venue, NEW book \in Book, Send(v, book)
              PROVE  ChannelTypeOK'
          BY <4>1 DEF TypeOK, ChannelTypeOK, Send
        <4>2. ASSUME NEW v \in Venue, FeedEnds(v)
              PROVE  ChannelTypeOK'
          BY <4>2 DEF TypeOK, ChannelTypeOK, FeedEnds
        <4>3. CASE UNCHANGED <<senders, sends, queue>>
          BY <4>3 DEF TypeOK, ChannelTypeOK
        <4> QED
          BY <2>2, <4>1, <4>2, <4>3
          DEF Next, vars, ChannelClosed, GraceCheck, Report, Tick
      <3>3. CountersTypeOK'
        <4>1. CASE Report
          BY <4>1 DEF TypeOK, CountersTypeOK, Report, ResetHistograms, NoSamples
        <4>2. CASE UNCHANGED <<updateCount, duplicateCount, samples>>
          BY <4>2 DEF TypeOK, CountersTypeOK
        <4> QED
          BY <2>2, <4>1, <4>2
          DEF Next, vars, ChannelClosed, GraceCheck, Tick, FeedEnds, Send, counters
      <3>4. TimersTypeOK'
        <4> USE DEF TypeOK, TimersTypeOK
        <4>1. CASE GraceCheck
          BY <4>1 DEF GraceCheck
        <4>2. CASE Report
          BY <4>2 DEF Report, CountersTypeOK
        <4>3. CASE Tick
          BY <4>3 DEF Tick, timers
        <4>4. CASE ChannelClosed
          BY <4>4 DEF ChannelClosed, timers
        <4>5. CASE UNCHANGED <<now, timers, status>>
          BY <4>5 DEF timers
        <4> QED
          BY <2>2, <4>1, <4>2, <4>3, <4>4, <4>5 DEF Next, vars, FeedEnds, Send, timers
      <3> QED
        BY <3>1, <3>2, <3>3, <3>4 DEF TypeOK
    <2> QED
      BY <2>1, <2>2
  <1> QED
    BY <1>1, <1>2, PTL DEF Spec

(* The watch always holds last_published, and no book is from the future.  *)
THEOREM PublishInvariant == Spec => []PublishInv
  <1>1. Init => PublishInv
    BY DEF Init, PublishInv
  <1>2. TypeOK /\ TypeOK' /\ PublishInv /\ [Next]_vars => PublishInv'
    <2> SUFFICES ASSUME TypeOK, TypeOK', PublishInv, [Next]_vars
                 PROVE  PublishInv'
      OBVIOUS
    <2>1. CASE Receive
      <3>1. PICK summary \in Summary \cup {NoSummary} :
              \/ summary = NoSummary /\ NothingToPublish
              \/ summary # NoSummary /\ IsDuplicate(summary) /\ SkipDuplicate(summary)
              \/ summary # NoSummary /\ ~IsDuplicate(summary) /\ Publish(summary)
        BY <2>1, ReceiveOutcome
      <3>2. watch'.value = lastPublished'
        BY <3>1 DEF PublishInv, NothingToPublish, SkipDuplicate, Publish,
                    IsDuplicate, published
      <3>3. now' = now /\ venues' = Recorded(venues, Head(queue)[1], Head(queue)[2], now)
        BY <2>1, ReceiveOutcome DEF Receive
      <3>4. \A v \in DOMAIN venues' : venues'[v].lastUpdate <= now'
        <4>1. now \in Nat /\ \A v \in DOMAIN venues : venues[v].lastUpdate <= now
          BY DEF PublishInv, TypeOK, TimersTypeOK
        <4> QED
          BY <3>3, <4>1 DEF Recorded
      <3> QED
        BY <3>2, <3>4 DEF PublishInv
    <2>2. CASE ~Receive
      <3>1. UNCHANGED <<venues, lastPublished, watch>>
        BY <2>2, OnlyReceivePublishes
      <3>2. now \in Nat /\ (now' = now \/ now' = now + 1)
        BY <2>2 DEF Next, vars, ChannelClosed, GraceCheck, Report, Tick,
                    FeedEnds, Send, TypeOK, TimersTypeOK
      <3>3. \A v \in DOMAIN venues : venues[v].lastUpdate \in Nat
        BY StateFields DEF TypeOK, VenuesTypeOK, TimersTypeOK
      <3>4. \A v \in DOMAIN venues : venues[v].lastUpdate <= now'
        BY <3>2, <3>3 DEF PublishInv
      <3> QED
        BY <3>1, <3>4 DEF PublishInv
    <2> QED
      BY <2>1, <2>2
  <1> QED
    BY <1>1, <1>2, TypeCorrect, PTL DEF Spec

(* Every change of the watch is news: a new summary, one version on.       *)
THEOREM NewsOnly == Spec => OnlyNewsIsPublished
  <1>1. TypeOK /\ PublishInv /\ [Next]_vars =>
          [watch' # watch =>
             /\ watch'.value \notin {watch.value, NoSummary}
             /\ watch'.version = watch.version + 1]_vars
    <2> SUFFICES ASSUME TypeOK, PublishInv, [Next]_vars, watch' # watch
                 PROVE  /\ watch'.value \notin {watch.value, NoSummary}
                        /\ watch'.version = watch.version + 1
      OBVIOUS
    <2>1. Receive
      BY OnlyReceivePublishes
    <2>2. PICK summary \in Summary \cup {NoSummary} :
              \/ summary = NoSummary /\ NothingToPublish
              \/ summary # NoSummary /\ IsDuplicate(summary) /\ SkipDuplicate(summary)
              \/ summary # NoSummary /\ ~IsDuplicate(summary) /\ Publish(summary)
      BY <2>1, ReceiveOutcome
    <2>3. summary # NoSummary /\ ~IsDuplicate(summary) /\ Publish(summary)
      BY <2>2 DEF NothingToPublish, SkipDuplicate, published
    <2> QED
      BY <2>3 DEF PublishInv, IsDuplicate, Publish, TypeOK, PublishedTypeOK
  <1> QED
    BY <1>1, TypeCorrect, PublishInvariant, PTL DEF Spec, OnlyNewsIsPublished

(* fresh_venues keeps exactly the venues whose book is younger than their  *)
(* threshold at the time of the message.                                   *)
LEMMA FreshVenuesIsFreshBooks ==
  ASSUME NEW states, DOMAIN states \subseteq Venue,
         states \in [DOMAIN states -> VenueState], NEW t \in Nat
  PROVE  {u \in DOMAIN states : t - states[u].lastUpdate < Staleness[u]}
           = {u \in DOMAIN states : states[u].lastUpdate + Staleness[u] > t}
  <1>1. \A u \in DOMAIN states : states[u].lastUpdate \in Nat /\ Staleness[u] \in Nat
    BY StateFields
  <1>2. \A u \in DOMAIN states :
          t - states[u].lastUpdate < Staleness[u] <=> states[u].lastUpdate + Staleness[u] > t
    BY <1>1
  <1> QED
    BY <1>2

(* The watch shows the merge of what was fresh at the last message.        *)
THEOREM CurrentAsOfLastMessage == Spec => []PublishedIsCurrent
  <1>1. Init => PublishedIsCurrent
    BY DEF Init, PublishedIsCurrent
  <1>2. TypeOK /\ TypeOK' /\ PublishInv /\ PublishedIsCurrent /\ [Next]_vars
          => PublishedIsCurrent'
    <2> SUFFICES ASSUME TypeOK, TypeOK', PublishInv, PublishedIsCurrent, [Next]_vars
                 PROVE  PublishedIsCurrent'
      OBVIOUS
    <2>1. CASE Receive
      <3> DEFINE h == Head(queue)[1]
      <3>1. PICK summary \in Summary \cup {NoSummary} :
              /\ summary = MergeBooks(FreshVenues(venues', now))
              /\ \/ summary = NoSummary /\ NothingToPublish
                 \/ summary # NoSummary /\ IsDuplicate(summary) /\ SkipDuplicate(summary)
                 \/ summary # NoSummary /\ ~IsDuplicate(summary) /\ Publish(summary)
        BY <2>1, ReceiveOutcome
      <3>2. summary # NoSummary => watch'.value = summary
        BY <3>1 DEF PublishInv, SkipDuplicate, Publish, IsDuplicate
      <3>3. venues' = Recorded(venues, h, Head(queue)[2], now)
        BY <2>1, ReceiveOutcome
      <3>4. /\ h \in DOMAIN venues'
            /\ venues'[h].lastUpdate = now
            /\ \A u \in DOMAIN venues' : venues'[u].lastUpdate <= now
        <4>1. now \in Nat /\ \A v \in DOMAIN venues : venues[v].lastUpdate <= now
          BY DEF PublishInv, TypeOK, TimersTypeOK
        <4> QED
          BY <3>3, <4>1 DEF Recorded
      <3>5. \A v \in DOMAIN venues' : HeardLast(v)' => venues'[v].lastUpdate = now
        <4>1. now \in Nat /\ \A v \in DOMAIN venues' : venues'[v].lastUpdate \in Nat
          BY <2>1, ReceiveOutcome, StateFields DEF TypeOK, VenuesTypeOK, TimersTypeOK
        <4> QED
          BY <3>4, <4>1 DEF HeardLast
      <3>6. FreshBooksAt(now)' = FreshVenues(venues', now)
        <4>1. now' = now
          BY <2>1 DEF Receive
        <4>2. {u \in DOMAIN venues' : now - venues'[u].lastUpdate < Staleness[u]}
                = {u \in DOMAIN venues' : venues'[u].lastUpdate + Staleness[u] > now}
          BY <2>1, ReceiveOutcome, FreshVenuesIsFreshBooks DEF TypeOK, VenuesTypeOK, TimersTypeOK
        <4> QED
          BY <4>1, <4>2 DEF FreshVenues, FreshBooksAt
      <3>7. now' = now
        BY <2>1 DEF Receive
      <3>8. ASSUME NEW v \in DOMAIN venues', HeardLast(v)'
            PROVE  LET s == MergeBooks(FreshBooksAt(venues[v].lastUpdate)')
                   IN  s # NoSummary => watch'.value = s
        <4>1. venues'[v].lastUpdate = now'
          BY <3>5, <3>7, <3>8
        <4>2. FreshBooksAt(venues[v].lastUpdate)' = FreshBooksAt(now)'
          BY <4>1
        <4> QED
          BY <3>1, <3>2, <3>6, <4>2
      <3> QED
        BY <3>8 DEF PublishedIsCurrent
    <2>2. CASE ~Receive
      <3>1. UNCHANGED <<venues, watch>>
        BY <2>2, OnlyReceivePublishes
      <3> QED
        BY <3>1 DEF PublishedIsCurrent, HeardLast, FreshBooksAt
    <2> QED
      BY <2>1, <2>2
  <1> QED
    BY <1>1, <1>2, TypeCorrect, PublishInvariant, PTL DEF Spec

LEMMA OutFields ==
  ASSUME NEW V, NEW out \in Seq(OutOf(V))
  PROVE  /\ DOMAIN out = 1..Len(out) /\ (out # <<>> => 1 \in DOMAIN out)
         /\ \A i \in DOMAIN out : out[i].exchange \in V /\ out[i].price \in Int
  <1>1. DOMAIN out = 1..Len(out) /\ (out # <<>> => 1 \in DOMAIN out)
    OBVIOUS
  <1>2. ASSUME NEW i \in DOMAIN out
        PROVE  out[i].exchange \in V /\ out[i].price \in Int
    <2>1. out[i] \in OutOf(V)
      BY <1>1
    <2> QED
      BY <2>1 DEF OutOf
  <1> QED
    BY <1>1, <1>2

(* The published spread spans the market: its ends are the best prices of  *)
(* all levels shown, because every venue's side comes best first and a     *)
(* pass emits the best front.                                              *)
THEOREM SpreadIsTheMarkets == Spec => []SpreadSpansTheMarket
  <1>1. ASSUME TypeOK, watch.value # NoSummary
        PROVE  SpreadSpansTheMarket
    <2>1. watch.value \in Summary
      BY <1>1 DEF TypeOK, PublishedTypeOK
    <2>2. PICK S \in SUBSET Venue : \E f \in [S -> Book] : watch.value = MergeBooks(f)
      BY <2>1 DEF Summary
    <2>3. PICK f \in [S -> Book] : watch.value = MergeBooks(f)
      BY <2>2
    <2> DEFINE bids == MergeSide(f, Bid)
               asks == MergeSide(f, Ask)
               B == {bids[i].price : i \in DOMAIN bids}
               A == {asks[i].price : i \in DOMAIN asks}
    <2>4. /\ bids # <<>> /\ asks # <<>>
          /\ watch.value = [spread |-> asks[1].price - bids[1].price,
                            bids |-> bids, asks |-> asks]
      BY <1>1, <2>3 DEF MergeBooks
    <2>5. DOMAIN f = S /\ Bid \in Side /\ Ask \in Side /\ Bid # Ask
      BY DEF Side, Bid, Ask
    <2>6. /\ bids \in Seq(OutOf(S))
          /\ \A i \in 1..Len(bids) : PriceRank(Bid, bids[1]) <= PriceRank(Bid, bids[i])
      BY <2>5, MergeSideBest
    <2>7. /\ asks \in Seq(OutOf(S))
          /\ \A i \in 1..Len(asks) : PriceRank(Ask, asks[1]) <= PriceRank(Ask, asks[i])
      BY <2>5, MergeSideBest
    <2> HIDE DEF bids, asks
    <2>8. /\ DOMAIN bids = 1..Len(bids) /\ 1 \in DOMAIN bids
          /\ \A i \in DOMAIN bids : bids[i].price \in Int
      BY <2>4, <2>6, OutFields
    <2>9. /\ DOMAIN asks = 1..Len(asks) /\ 1 \in DOMAIN asks
          /\ \A i \in DOMAIN asks : asks[i].price \in Int
      BY <2>4, <2>7, OutFields
    <2>10. \A x \in B : x <= bids[1].price
      BY <2>5, <2>6, <2>8 DEF PriceRank
    <2>11. \A x \in A : asks[1].price <= x
      BY <2>5, <2>7, <2>9 DEF PriceRank
    <2>12. bids[1].price \in B /\ asks[1].price \in A
      BY <2>8, <2>9
    <2>13. /\ watch.value.bids = bids /\ watch.value.asks = asks
           /\ watch.value.spread = asks[1].price - bids[1].price
      BY <2>4
    <2>14. /\ B = {watch.value.bids[i].price : i \in DOMAIN watch.value.bids}
           /\ A = {watch.value.asks[i].price : i \in DOMAIN watch.value.asks}
      BY <2>13
    <2> HIDE DEF A, B
    <2> QED
      BY <2>10, <2>11, <2>12, <2>13, <2>14 DEF SpreadSpansTheMarket
  <1>2. TypeOK => SpreadSpansTheMarket
    BY <1>1 DEF SpreadSpansTheMarket
  <1> QED
    BY <1>2, TypeCorrect, PTL DEF Spec

(* The figures of every report add up, whatever is queued or reset when.   *)
THEOREM ReportsConsistent == Spec => []ReportsAddUp
  <1>1. Init => ReportsAddUp
    BY DEF Init, ReportsAddUp, NoSamples
  <1>2. TypeOK /\ ReportsAddUp /\ [Next]_vars => ReportsAddUp'
    <2> SUFFICES ASSUME TypeOK, ReportsAddUp, [Next]_vars
                 PROVE  ReportsAddUp'
      OBVIOUS
    <2>a. /\ sends \in Nat /\ updateCount \in Nat /\ duplicateCount \in Nat
          /\ countAtReport \in Nat /\ watch.version \in Nat
          /\ queue \in Seq(Venue \X Book)
          /\ samples \in [{"parse", "mergePublish", "total"} -> Nat]
      BY DEF TypeOK, ChannelTypeOK, PublishedTypeOK, CountersTypeOK, TimersTypeOK
    <2>b. Len(queue) \in Nat /\ samples.parse \in Nat /\ samples.mergePublish \in Nat
            /\ samples.total \in Nat
      BY <2>a
    <2>1. CASE Receive
      <3>1. PICK summary \in Summary \cup {NoSummary} :
              \/ summary = NoSummary /\ NothingToPublish
              \/ summary # NoSummary /\ IsDuplicate(summary) /\ SkipDuplicate(summary)
              \/ summary # NoSummary /\ ~IsDuplicate(summary) /\ Publish(summary)
        BY <2>1, ReceiveOutcome
      <3>2. /\ Len(queue') = Len(queue) - 1
            /\ UNCHANGED <<sends, countAtReport>>
        BY <2>1, ReceiveOutcome DEF Receive, timers
      <3>3. CASE NothingToPublish
        <4>1. /\ samples'.parse = samples.parse + 1
              /\ samples'.mergePublish = samples.mergePublish
              /\ samples'.total = samples.total
          BY <2>a, <3>3, SamplesType DEF NothingToPublish
        <4>2. UNCHANGED <<watch, updateCount, duplicateCount>>
          BY <3>3 DEF NothingToPublish, published
        <4> QED
          BY <2>a, <2>b, <3>2, <4>1, <4>2 DEF ReportsAddUp
      <3>4. CASE SkipDuplicate(summary)
        <4>1. /\ samples'.parse = samples.parse + 1
              /\ samples'.mergePublish = samples.mergePublish
              /\ samples'.total = samples.total
          BY <2>a, <3>4, SamplesType DEF SkipDuplicate
        <4>2. duplicateCount' = duplicateCount + 1 /\ UNCHANGED <<watch, updateCount>>
          BY <3>4 DEF SkipDuplicate
        <4> QED
          BY <2>a, <2>b, <3>2, <4>1, <4>2, SMTT(60) DEF ReportsAddUp
      <3>5. CASE Publish(summary)
        <4>1. /\ samples'.parse = samples.parse + 1
              /\ samples'.mergePublish = samples.mergePublish + 1
              /\ samples'.total = samples.total + 1
          BY <2>a, <3>5, SamplesType DEF Publish
        <4>2. /\ watch'.version = watch.version + 1
              /\ updateCount' = updateCount + 1
              /\ duplicateCount' = duplicateCount
          BY <3>5 DEF Publish
        <4> QED
          BY <2>a, <2>b, <3>2, <4>1, <4>2, SMTT(60) DEF ReportsAddUp
      <3> QED
        BY <3>1, <3>3, <3>4, <3>5
    <2>2. CASE Report
      <3>1. /\ samples' = NoSamples
            /\ countAtReport' = updateCount
            /\ UNCHANGED <<sends, queue, watch, updateCount, duplicateCount>>
        BY <2>2 DEF Report, ResetHistograms, published
      <3> QED
        BY <2>a, <2>b, <3>1 DEF ReportsAddUp, NoSamples
    <2>3. ASSUME NEW v \in Venue, NEW book \in Book, Send(v, book)
          PROVE  ReportsAddUp'
      <3>1. /\ sends' = sends + 1
            /\ queue' = Append(queue, <<v, book>>)
            /\ UNCHANGED <<watch, updateCount, duplicateCount, samples, countAtReport>>
        BY <2>3 DEF Send, published, counters, timers
      <3>2. Len(queue') = Len(queue) + 1
        BY <2>a, <3>1
      <3> QED
        BY <2>a, <2>b, <3>1, <3>2 DEF ReportsAddUp
    <2>4. CASE UNCHANGED <<sends, queue, watch, updateCount, duplicateCount,
                           samples, countAtReport>>
      BY <2>4 DEF ReportsAddUp
    <2> QED
      BY <2>1, <2>2, <2>3, <2>4
      DEF Next, ChannelClosed, GraceCheck, Tick, FeedEnds, vars, published,
          counters, timers
  <1> QED
    BY <1>1, <1>2, TypeCorrect, PTL DEF Spec

(* The grace exit comes after Grace, within a check interval, and only to  *)
(* a process no venue ever spoke to.                                       *)
THEOREM GraceExitCorrect == Spec => []GraceExit
  <1> USE TimingAssumption
  <1>1. Init => GraceExit /\ GraceInv
    BY DEF Init, GraceExit, GraceInv
  <1>2. TypeOK /\ GraceExit /\ GraceInv /\ [Next]_vars => GraceExit' /\ GraceInv'
    <2> SUFFICES ASSUME TypeOK, GraceExit, GraceInv, [Next]_vars
                 PROVE  GraceExit' /\ GraceInv'
      OBVIOUS
    <2>a. now \in Nat /\ nextGrace \in Nat
      BY DEF TypeOK, VenuesTypeOK, TimersTypeOK
    <2>1. CASE Receive
      <3>1. Head(queue)[1] \in DOMAIN venues'
        BY <2>1, ReceiveOutcome DEF Recorded
      <3>2. status = "running" /\ UNCHANGED <<now, nextGrace, status>>
        BY <2>1 DEF Receive, timers
      <3> QED
        BY <3>1, <3>2 DEF GraceExit, GraceInv
    <2>2. CASE GraceCheck
      <3>1. /\ status = "running" /\ now >= nextGrace
            /\ nextGrace' = nextGrace + GraceCheckInterval
            /\ status' = IF now > Grace /\ DOMAIN venues = {} THEN "noData" ELSE "running"
            /\ UNCHANGED <<now, venues>>
        BY <2>2 DEF GraceCheck, PastGrace
      <3> QED
        BY <2>a, <3>1 DEF GraceExit, GraceInv
    <2>3. CASE Tick
      <3>1. /\ now' = now + 1
            /\ status = "running" => now < nextGrace + TimerLag
            /\ UNCHANGED <<venues, nextGrace, status>>
        BY <2>3 DEF Tick, timers
      <3> QED
        BY <2>a, <3>1 DEF GraceExit, GraceInv
    <2>4. CASE ChannelClosed
      BY <2>4 DEF ChannelClosed, GraceExit, GraceInv
    <2>5. CASE UNCHANGED <<now, venues, nextGrace, status>>
      BY <2>5 DEF GraceExit, GraceInv
    <2> QED
      BY <2>1, <2>2, <2>3, <2>4, <2>5
      DEF Next, Report, FeedEnds, Send, vars, published, counters, timers
  <1> QED
    BY <1>1, <1>2, TypeCorrect, PTL DEF Spec
----------------------------------------------------------------------------
(* The aggregator around the watch channel (Pipeline) is the publisher     *)
(* that the theorems about BookStream take for granted.                    *)

(* A publication takes a book off the channel, so there are never more of  *)
(* them than books sent.                                                   *)
EnoughVersions ==
  watch.version + Len(queue) <= sends /\ sends <= MaxSends

(* The pipeline's steps are steps of the aggregator or leave it alone. *)
LEMMA PipelineIsAggregator == PipelineSpec => Spec
<1>1. PipelineInit => Init
  BY DEF PipelineInit
<1>2. [PipelineNext]_allVars => [Next]_vars
  BY DEF PipelineNext, ServerStep, ClientStep, allVars
<1> QED
  BY <1>1, <1>2, PTL DEF PipelineSpec, Spec

LEMMA VersionsSuffice == Spec => []EnoughVersions
<1>1. Init => EnoughVersions
  BY BoundAssumption DEF Init, EnoughVersions
<1>2. TypeOK /\ EnoughVersions /\ [Next]_vars => EnoughVersions'
  <2> SUFFICES ASSUME TypeOK, EnoughVersions, [Next]_vars
               PROVE  EnoughVersions'
    OBVIOUS
  <2>1. watch.version \in Nat /\ sends \in Nat /\ Len(queue) \in Nat /\ MaxSends \in Nat
    BY BoundAssumption DEF TypeOK, PublishedTypeOK, ChannelTypeOK
  <2>2. CASE Receive
    <3>1. PICK summary \in Summary \cup {NoSummary} :
            \/ summary = NoSummary /\ NothingToPublish
            \/ summary # NoSummary /\ IsDuplicate(summary) /\ SkipDuplicate(summary)
            \/ summary # NoSummary /\ ~IsDuplicate(summary) /\ Publish(summary)
      BY <2>2, ReceiveOutcome
    <3>2. watch'.version \in {watch.version, watch.version + 1}
      BY <3>1 DEF NothingToPublish, SkipDuplicate, Publish, published
    <3>3. Len(queue') = Len(queue) - 1 /\ sends' = sends
      BY <2>2, ReceiveOutcome DEF Receive
    <3> QED
      BY <2>1, <3>2, <3>3 DEF EnoughVersions
  <2>3. CASE ~Receive
    <3>1. watch' = watch
      BY <2>3, OnlyReceivePublishes
    <3>2. \/ UNCHANGED <<sends, queue>>
          \/ \E v \in Venue, book \in Book : Send(v, book)
      BY <2>3 DEF Next, vars, ChannelClosed, GraceCheck, Report, Tick, FeedEnds
    <3>3. ASSUME NEW v \in Venue, NEW book \in Book, Send(v, book)
          PROVE  sends' = sends + 1 /\ Len(queue') = Len(queue) + 1 /\ sends < MaxSends
      BY <3>3 DEF Send, TypeOK, ChannelTypeOK
    <3> QED
      BY <2>1, <3>1, <3>2, <3>3 DEF EnoughVersions
  <2> QED
    BY <2>2, <2>3
<1> QED
  BY <1>1, <1>2, TypeCorrect, PTL DEF Spec

(* record_and_publish sends on the watch as BookStream's publisher does. *)
LEMMA ReceiveIsPublish ==
  ASSUME TypeOK, PublishInv, EnoughVersions, Receive, ServerStep
  PROVE  \/ \E summary \in Published : Streams!Publish(summary)
         \/ UNCHANGED Streams!vars
<1>1. PICK summary \in Summary \cup {NoSummary} :
        \/ summary = NoSummary /\ NothingToPublish
        \/ summary # NoSummary /\ IsDuplicate(summary) /\ SkipDuplicate(summary)
        \/ summary # NoSummary /\ ~IsDuplicate(summary) /\ Publish(summary)
  BY ReceiveOutcome
<1>2. /\ status = "running" /\ status' = status
      /\ UNCHANGED clients
      /\ log' = IF watch'.version = watch.version THEN log ELSE Append(log, watch'.value)
  BY DEF Receive, ServerStep
<1>3. CASE watch' = watch
  BY <1>2, <1>3 DEF Streams!vars, Streams!channel, Streams!given, clients
<1>4. CASE watch' # watch
  <2>1. summary # NoSummary /\ ~IsDuplicate(summary) /\ Publish(summary)
    BY <1>1, <1>4 DEF NothingToPublish, SkipDuplicate, published
  <2>2. watch' = [value |-> summary, version |-> watch.version + 1] /\ summary # watch.value
    BY <2>1 DEF Publish, PublishInv, IsDuplicate
  <2>3. watch.version \in Nat /\ sends \in Nat /\ Len(queue) \in Nat /\ Len(queue) > 0
    BY ReceiveOutcome DEF TypeOK, PublishedTypeOK, ChannelTypeOK, Receive
  <2>4. watch.version < MaxVersion
    BY <2>3, PipelineAssumption, BoundAssumption DEF EnoughVersions
  <2>5. log' = Append(log, summary)
    BY <1>2, <2>2, <2>3
  <2>6. Streams!Publish(summary)
    BY <1>2, <2>2, <2>4, <2>5 DEF Streams!Publish, Streams!given, clients
  <2> QED
    BY <1>1, <2>1, <2>6, PipelineAssumption
<1> QED
  BY <1>3, <1>4

(* Everything else the server does is the end of the publisher, or nothing *)
(* the streams notice.                                                     *)
LEMMA ServerAside ==
  ASSUME ~Receive, ServerStep
  PROVE  Streams!SenderDropped \/ UNCHANGED Streams!vars
<1>1. UNCHANGED watch /\ UNCHANGED log /\ UNCHANGED clients
  BY OnlyReceivePublishes DEF ServerStep
<1>2. status' = status \/ (status = "running" /\ status' # "running")
  BY DEF ServerStep, Next, ChannelClosed, GraceCheck, Report, Tick, FeedEnds, Send
<1> QED
  BY <1>1, <1>2 DEF Streams!SenderDropped, Streams!vars, Streams!channel, Streams!given, clients

(* The aggregator publishes as BookStream takes its publisher to: values   *)
(* that differ from the last, one version at a time, nothing after the     *)
(* end.  The theorems about the streams hold behind the real aggregator.   *)
THEOREM AggregatorFeedsTheStreams == PipelineSpec => FeedsTheStreams
<1>1. PipelineInit => Streams!Init
  BY DEF PipelineInit
<1>2. TypeOK /\ PublishInv /\ EnoughVersions /\ [PipelineNext]_allVars
        => [Streams!Next]_(Streams!vars)
  <2> SUFFICES ASSUME TypeOK, PublishInv, EnoughVersions, [PipelineNext]_allVars
               PROVE  [Streams!Next]_(Streams!vars)
    OBVIOUS
  <2>1. CASE ServerStep
    BY <2>1, ReceiveIsPublish, ServerAside DEF Streams!Next
  <2>2. ASSUME NEW c \in Client, ClientStep(c)
        PROVE  Streams!Next
    BY <2>2 DEF ClientStep, Streams!Next
  <2>3. CASE UNCHANGED allVars
    BY <2>3 DEF allVars, vars, published, clients, Streams!vars, Streams!channel,
                Streams!given
  <2> QED
    BY <2>1, <2>2, <2>3 DEF PipelineNext
<1> QED
  BY <1>1, <1>2, PipelineIsAggregator, TypeCorrect, PublishInvariant, VersionsSuffice, PTL
  DEF PipelineSpec, FeedsTheStreams, Streams!Spec
----------------------------------------------------------------------------
(* The viewer's header behind the aggregator (ClientStatus). *)

(* The viewer's steps are steps of the pipeline. *)
LEMMA StatusIsPipeline == StatusSpec => PipelineSpec
<1>1. StatusInit => PipelineInit
  BY DEF StatusInit
<1>2. [StatusNext]_statusVars => [PipelineNext]_allVars
  <2>1. ASSUME NEW c \in Client, Draw(c) \/ Other(c)
        PROVE  PipelineNext
    BY <2>1 DEF Draw, Other, PipelineNext, ClientStep
  <2> QED
    BY <2>1 DEF StatusNext, PipelineNext, statusVars
<1> QED
  BY <1>1, <1>2, PTL DEF StatusSpec, PipelineSpec

(* Behind the watch: once it was written to, it holds a summary and a book *)
(* was received; a client at the watch's version shows the watch's value.  *)
ShownInv ==
  /\ watch.version > 0 => watch.value # NoSummary /\ DOMAIN venues # {}
  /\ pos \in [Client -> Nat] /\ DOMAIN shown = Client
  /\ \A c \in Client :
       /\ pos[c] <= watch.version
       /\ pos[c] > 0 /\ pos[c] = watch.version => shown[c] = watch.value

LEMMA ShownInvariant == PipelineSpec => []ShownInv
<1>1. PipelineInit => ShownInv
  BY DEF PipelineInit, Init, Streams!Init, ShownInv
<1>2. TypeOK /\ TypeOK' /\ ShownInv /\ [PipelineNext]_allVars => ShownInv'
  <2> SUFFICES ASSUME TypeOK, TypeOK', ShownInv, [PipelineNext]_allVars
               PROVE  ShownInv'
    OBVIOUS
  <2>a. watch.version \in Nat
    BY DEF TypeOK, PublishedTypeOK
  <2>1. CASE ServerStep /\ Receive
    <3>1. PICK summary \in Summary \cup {NoSummary} :
            \/ summary = NoSummary /\ NothingToPublish
            \/ summary # NoSummary /\ IsDuplicate(summary) /\ SkipDuplicate(summary)
            \/ summary # NoSummary /\ ~IsDuplicate(summary) /\ Publish(summary)
      BY <2>1, ReceiveOutcome
    <3>2. \/ watch' = watch
          \/ watch'.version = watch.version + 1 /\ watch'.value # NoSummary
      BY <3>1 DEF NothingToPublish, SkipDuplicate, Publish, published
    <3>3. DOMAIN venues' # {}
      BY <2>1, ReceiveOutcome DEF Recorded
    <3>4. UNCHANGED <<pos, shown>>
      BY <2>1 DEF ServerStep, clients
    <3> QED
      BY <2>a, <3>2, <3>3, <3>4 DEF ShownInv
  <2>2. CASE ServerStep /\ ~Receive
    <3>1. UNCHANGED <<venues, watch, pos, shown>>
      BY <2>2, OnlyReceivePublishes DEF ServerStep, clients
    <3> QED
      BY <3>1 DEF ShownInv
  <2>3. ASSUME NEW d \in Client, ClientStep(d)
        PROVE  ShownInv'
    <3>1. UNCHANGED <<venues, watch>>
      BY <2>3 DEF ClientStep, vars, published
    <3>2. CASE UNCHANGED <<pos, shown>>
      BY <3>1, <3>2 DEF ShownInv
    <3>3. CASE /\ pos' = [pos EXCEPT ![d] = watch.version]
               /\ shown' = [shown EXCEPT ![d] = watch.value]
      BY <2>a, <3>1, <3>3 DEF ShownInv
    <3> QED
      BY <2>3, <3>2, <3>3
      DEF ClientStep, Streams!Subscribe, Streams!Disconnect, Streams!Poll,
          Streams!StreamEnds, Streams!Deliver, Streams!given
  <2>4. CASE UNCHANGED allVars
    BY <2>4 DEF ShownInv, allVars, vars, published, clients
  <2> QED
    BY <2>1, <2>2, <2>3, <2>4 DEF PipelineNext
<1> QED
  BY <1>1, <1>2, PipelineIsAggregator, TypeCorrect, PTL DEF PipelineSpec

(* Somebody was heard last, and LastMerge is when. *)
LEMMA LastMergeExists ==
  ASSUME TypeOK, PublishInv, DOMAIN venues # {}
  PROVE  \E v \in DOMAIN venues : HeardLast(v) /\ LastMerge = venues[v].lastUpdate
<1> DEFINE times == {venues[v].lastUpdate : v \in DOMAIN venues}
           ages == {now - t : t \in times}
<1>1. now \in Nat /\ \A v \in DOMAIN venues : venues[v].lastUpdate \in Nat
  BY StateFields DEF TypeOK, VenuesTypeOK, TimersTypeOK
<1>2. \A v \in DOMAIN venues : venues[v].lastUpdate <= now
  BY DEF PublishInv
<1>3. ages \in SUBSET Nat /\ ages # {}
  BY <1>1, <1>2
<1>4. PICK m \in ages : \A k \in ages : m <= k
  BY <1>3, LeastNatural
<1>5. PICK w \in DOMAIN venues : m = now - venues[w].lastUpdate
  BY <1>4
<1>6. HeardLast(w)
  <2> SUFFICES ASSUME NEW u \in DOMAIN venues
               PROVE  venues[u].lastUpdate <= venues[w].lastUpdate
    BY DEF HeardLast
  <2>1. now - venues[u].lastUpdate \in ages
    OBVIOUS
  <2>2. m <= now - venues[u].lastUpdate
    BY <1>4, <2>1
  <2>3. now \in Nat /\ venues[u].lastUpdate \in Nat /\ venues[w].lastUpdate \in Nat
    BY <1>1
  <2> QED
    BY <1>5, <2>2, <2>3
<1>7. /\ LastMerge \in times
      /\ \A v \in DOMAIN venues : venues[v].lastUpdate <= LastMerge
  <2>1. \E t \in times : \A v \in DOMAIN venues : venues[v].lastUpdate <= t
    BY <1>6 DEF HeardLast
  <2> QED
    BY <2>1 DEF LastMerge
<1>8. PICK v \in DOMAIN venues : LastMerge = venues[v].lastUpdate
  BY <1>7
<1>9. HeardLast(v)
  BY <1>7, <1>8 DEF HeardLast
<1> QED
  BY <1>8, <1>9

(* A merge names only venues it merged. *)
LEMMA MergeNamesItsVenues ==
  ASSUME NEW books, DOMAIN books \subseteq Venue, books \in [DOMAIN books -> Book],
         MergeBooks(books) # NoSummary
  PROVE  Present(MergeBooks(books)) \subseteq DOMAIN books
<1> DEFINE bids == MergeSide(books, Bid)
           asks == MergeSide(books, Ask)
<1>1. bids \in Seq(OutOf(DOMAIN books)) /\ asks \in Seq(OutOf(DOMAIN books))
  BY MergeSideBest DEF Side, Bid, Ask
<1>2. MergeBooks(books).bids = bids /\ MergeBooks(books).asks = asks
  BY DEF MergeBooks
<1> HIDE DEF bids, asks
<1>3. VenuesIn(bids) \subseteq DOMAIN books /\ VenuesIn(asks) \subseteq DOMAIN books
  BY <1>1, OutFields DEF VenuesIn
<1> QED
  BY <1>2, <1>3 DEF Present

(* An up-to-date viewer never shows a venue as up that the last merge left *)
(* out: what it shows is the watch's value, which is that merge.           *)
THEOREM UpMeansMerged == StatusSpec => []NoVenueUpInError
<1>1. TypeOK /\ PublishInv /\ PublishedIsCurrent /\ ShownInv => NoVenueUpInError
  <2> SUFFICES ASSUME TypeOK, PublishInv, PublishedIsCurrent, ShownInv,
                      NEW c \in Client, UpToDate(c),
                      MergeBooks(FreshBooksAt(LastMerge)) # NoSummary
               PROVE  Up(c) \subseteq Merged
    BY DEF NoVenueUpInError
  <2>1. pos[c] > 0 /\ pos[c] = watch.version /\ watch.version \in Nat
    BY DEF UpToDate, TypeOK, PublishedTypeOK
  <2>2. shown[c] = watch.value /\ DOMAIN venues # {}
    BY <2>1 DEF ShownInv
  <2>3. PICK v \in DOMAIN venues : HeardLast(v) /\ LastMerge = venues[v].lastUpdate
    BY <2>2, LastMergeExists
  <2>4. watch.value = MergeBooks(FreshBooksAt(LastMerge))
    BY <2>3 DEF PublishedIsCurrent
  <2> DEFINE books == FreshBooksAt(LastMerge)
  <2>5. DOMAIN books \subseteq Venue /\ books \in [DOMAIN books -> Book]
    BY StateFields DEF FreshBooksAt, TypeOK, VenuesTypeOK
  <2>6. Present(watch.value) \subseteq DOMAIN books
    BY <2>4, <2>5, MergeNamesItsVenues
  <2> QED
    BY <2>1, <2>2, <2>6 DEF Up, Merged
<1> QED
  BY <1>1, StatusIsPipeline, PipelineIsAggregator, TypeCorrect, PublishInvariant,
     CurrentAsOfLastMessage, ShownInvariant, PTL DEF StatusSpec, PipelineSpec, Spec
==================================================
