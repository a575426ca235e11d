----------------------------- MODULE Aggregator -----------------------------
(***************************************************************************)
(* The aggregator task of src/aggregator.rs: it takes (venue, book) pairs  *)
(* off the bounded mpsc channel the feeds share, keeps the last book of    *)
(* each venue, merges the fresh ones and publishes a summary that differs  *)
(* from the last one into the watch channel.  Two interval timers run in   *)
(* the same `select!`: the grace check and the latency report.             *)
(*                                                                         *)
(* The clock is discrete.  A timer that is due is served before the clock  *)
(* has moved more than TimerLag past its deadline; a message may wait in   *)
(* the channel for any time.                                               *)
(***************************************************************************)
EXTENDS Merge

CONSTANTS
  Book,               \* the books a feed may send
  Staleness,          \* Venue::staleness_threshold
  Grace,              \* GRACE
  GraceCheckInterval, \* GRACE_CHECK_INTERVAL
  ReportInterval,     \* REPORT_INTERVAL
  QueueCap,           \* capacity of the mpsc channel (32 in main.rs)
  TimerLag,           \* how late the loop may serve a due timer
  MaxTime,            \* bound: the clock stops here
  MaxSends            \* bound: books sent by all the feeds together

ASSUME BookAssumption ==
  /\ Book \subseteq [Side -> Seq(Level)]
  /\ \A book \in Book, side \in Side : BestFirst(side, book[side])
ASSUME TimingAssumption ==
  /\ Staleness \in [Venue -> Nat \ {0}]
  /\ Grace \in Nat
  /\ GraceCheckInterval \in Nat \ {0}
  /\ ReportInterval \in Nat \ {0}
  /\ TimerLag \in Nat
ASSUME BoundAssumption ==
  /\ QueueCap \in Nat \ {0}
  /\ MaxTime \in Nat
  /\ MaxSends \in Nat

VARIABLES
  now,            \* Instant::now()
  senders,        \* feeds whose mpsc sender is still alive
  sends,          \* books sent so far (bounded by MaxSends)
  queue,          \* the mpsc channel
  venues,         \* Aggregator::venues: a VenueState per venue heard from
  lastPublished,  \* Aggregator::last_published
  watch,          \* the watch channel: its value and its version
  updateCount,    \* Aggregator::update_count
  duplicateCount, \* Aggregator::duplicate_count
  samples,        \* how many samples each of the three histograms holds
  countAtReport,  \* update_count_at_last_report
  nextGrace,      \* deadline of the grace_check interval
  nextReport,     \* deadline of the report_tick interval
  status          \* "running", or why `run` returned

counters == <<updateCount, duplicateCount, samples>>
timers == <<countAtReport, nextGrace, nextReport>>
published == <<lastPublished, watch>>
vars == <<now, senders, sends, queue, venues, published, counters, timers, status>>

NoSamples == [parse |-> 0, mergePublish |-> 0, total |-> 0]

(* Aggregator::new, the two intervals with their immediate first tick      *)
(* consumed, and the channels main.rs creates.                             *)
Init ==
  /\ now = 0
  /\ senders = Venue
  /\ sends = 0
  /\ queue = <<>>
  /\ venues = [v \in {} |-> 0]
  /\ lastPublished = NoSummary
  /\ watch = [value |-> NoSummary, version |-> 0]
  /\ updateCount = 0
  /\ duplicateCount = 0
  /\ samples = NoSamples
  /\ countAtReport = 0
  /\ nextGrace = GraceCheckInterval
  /\ nextReport = ReportInterval
  /\ status = "running"

(* fresh_venues: the books of the venues heard from within their threshold. *)
FreshVenues(states, t) ==
  [v \in {u \in DOMAIN states : t - states[u].lastUpdate < Staleness[u]}
     |-> states[v].book]

(* venues.insert(venue, VenueState { book, last_update: now }) *)
Recorded(states, v, book, t) ==
  [u \in DOMAIN states \cup {v} |->
     IF u = v THEN [book |-> book, lastUpdate |-> t] ELSE states[u]]

(* Faulty variants of IsDuplicate: only the spread is compared; nothing is. *)
SameSpread(summary) == lastPublished # NoSummary /\ lastPublished.spread = summary.spread
NeverDuplicate(summary) == FALSE

(* The comparison against the last merged summary. *)
IsDuplicate(summary) == lastPublished # NoSummary /\ lastPublished = summary

(* record_duration; Histogram::new makes histograms that grow, which take  *)
(* every sample.                                                           *)
CountSamples(kinds) ==
  samples' = [k \in DOMAIN samples |-> IF k \in kinds THEN samples[k] + 1 ELSE samples[k]]

(* One side is empty: only the parse sample is kept. *)
NothingToPublish ==
  /\ CountSamples({"parse"})
  /\ UNCHANGED <<published, updateCount, duplicateCount>>

SkipDuplicate(summary) ==
  /\ lastPublished' = summary
  /\ duplicateCount' = duplicateCount + 1
  /\ CountSamples({"parse"})
  /\ UNCHANGED <<watch, updateCount>>

Publish(summary) ==
  /\ lastPublished' = summary
  /\ watch' = [value |-> summary, version |-> watch.version + 1]
  /\ CountSamples({"parse", "mergePublish", "total"})
  /\ updateCount' = updateCount + 1
  /\ UNCHANGED duplicateCount

(* record_and_publish *)
RecordAndPublish(v, book, t) ==
  /\ venues' = Recorded(venues, v, book, t)
  /\ LET summary == MergeBooks(FreshVenues(venues', t))
     IN  \/ summary = NoSummary /\ NothingToPublish
         \/ summary # NoSummary /\ IsDuplicate(summary) /\ SkipDuplicate(summary)
         \/ summary # NoSummary /\ ~IsDuplicate(summary) /\ Publish(summary)

(* rx.recv() yields a message. *)
Receive ==
  /\ status = "running"
  /\ queue # <<>>
  /\ queue' = Tail(queue)
  /\ RecordAndPublish(Head(queue)[1], Head(queue)[2], now)
  /\ UNCHANGED <<now, senders, sends, timers, status>>

(* rx.recv() yields None: every sender is gone and the channel is empty. *)
ChannelClosed ==
  /\ status = "running"
  /\ queue = <<>>
  /\ senders = {}
  /\ status' = "closed"
  /\ UNCHANGED <<now, senders, sends, queue, venues, published, counters, timers>>

(* Faulty variant of PastGrace: a fed aggregator gives up as well. *)
PastGraceRegardless(t, venuesEmpty) == t > Grace

(* past_grace *)
PastGrace(t, venuesEmpty) == t > Grace /\ venuesEmpty

(* grace_check.tick() *)
GraceCheck ==
  /\ status = "running"
  /\ now >= nextGrace
  /\ nextGrace' = nextGrace + GraceCheckInterval
  /\ status' = IF PastGrace(now, DOMAIN venues = {}) THEN "noData" ELSE status
  /\ UNCHANGED <<now, senders, sends, queue, venues, published, counters,
                 countAtReport, nextReport>>

(* Faulty variant of ResetHistograms: the total span is forgotten. *)
ResetHistogramsPartly == samples' = [NoSamples EXCEPT !.total = samples.total]

(* log_report: read, then reset the three histograms. *)
ResetHistograms == samples' = NoSamples

(* report_tick.tick() *)
Report ==
  /\ status = "running"
  /\ now >= nextReport
  /\ nextReport' = nextReport + ReportInterval
  /\ ResetHistograms
  /\ countAtReport' = updateCount
  /\ UNCHANGED <<now, senders, sends, queue, venues, published,
                 updateCount, duplicateCount, nextGrace, status>>
----------------------------------------------------------------------------
(* Faulty variant of Send: an unbounded channel. *)
SendUnbounded(v, book) ==
  /\ status = "running"
  /\ v \in senders
  /\ sends < MaxSends
  /\ queue' = Append(queue, <<v, book>>)
  /\ sends' = sends + 1
  /\ UNCHANGED <<now, senders, venues, published, counters, timers, status>>

(* The feeds, seen from the channel: a send waits for room. *)
Send(v, book) ==
  /\ status = "running"
  /\ v \in senders
  /\ Len(queue) < QueueCap
  /\ sends < MaxSends
  /\ queue' = Append(queue, <<v, book>>)
  /\ sends' = sends + 1
  /\ UNCHANGED <<now, senders, venues, published, counters, timers, status>>

(* A feed task panics and drops its sender; what it has sent stays queued. *)
FeedEnds(v) ==
  /\ v \in senders
  /\ senders' = senders \ {v}
  /\ UNCHANGED <<now, sends, queue, venues, published, counters, timers, status>>

Tick ==
  /\ now < MaxTime
  /\ status = "running" =>
       now < nextGrace + TimerLag /\ now < nextReport + TimerLag
  /\ now' = now + 1
  /\ UNCHANGED <<senders, sends, queue, venues, published, counters, timers, status>>

Next ==
  \/ Receive
  \/ ChannelClosed
  \/ GraceCheck
  \/ Report
  \/ Tick
  \/ \E v \in Venue : FeedEnds(v) \/ \E book \in Book : Send(v, book)

Spec == Init /\ [][Next]_vars

(* The task is polled while it can run, and time passes. *)
Fairness == WF_vars(Tick) /\ WF_vars(GraceCheck) /\ WF_vars(Report)
              /\ WF_vars(Receive) /\ WF_vars(ChannelClosed)

FairSpec == Spec /\ Fairness
----------------------------------------------------------------------------
(* What `merge` may return for the books at hand. *)
Summary ==
  {MergeBooks(f) : f \in UNION {[S -> Book] : S \in SUBSET Venue}} \ {NoSummary}

VenueState == [book : Book, lastUpdate : Nat]

ChannelTypeOK ==
  /\ senders \subseteq Venue
  /\ sends \in Nat
  /\ queue \in Seq(Venue \X Book)
  /\ Len(queue) <= QueueCap

VenuesTypeOK ==
  /\ DOMAIN venues \subseteq Venue
  /\ venues \in [DOMAIN venues -> VenueState]

PublishedTypeOK ==
  /\ lastPublished \in Summary \cup {NoSummary}
  /\ watch \in [value : Summary \cup {NoSummary}, version : Nat]

CountersTypeOK ==
  /\ updateCount \in Nat
  /\ duplicateCount \in Nat
  /\ samples \in [{"parse", "mergePublish", "total"} -> Nat]

TimersTypeOK ==
  /\ now \in Nat
  /\ countAtReport \in Nat
  /\ nextGrace \in Nat
  /\ nextReport \in Nat
  /\ status \in {"running", "noData", "closed"}

(* The aggregator's state is well typed, the channel never holds more than *)
(* it may, and what is held or shown as a summary is a merge of books that *)
(* feeds sent.                                                             *)
TypeOK ==
  ChannelTypeOK /\ VenuesTypeOK /\ PublishedTypeOK /\ CountersTypeOK /\ TimersTypeOK
----------------------------------------------------------------------------
(* The venues whose last book was less than their threshold old at t.      *)
FreshBooksAt(t) ==
  LET fresh == {v \in DOMAIN venues : venues[v].lastUpdate + Staleness[v] > t}
  IN  [v \in fresh |-> venues[v].book]

(* v's book is the last one the aggregator took off the channel, or was    *)
(* taken at the same instant.                                              *)
HeardLast(v) ==
  \A u \in DOMAIN venues : venues[u].lastUpdate <= venues[v].lastUpdate

(* However messages, timers and silences interleave, what the watch shows  *)
(* is the merge of the books that were fresh when the last message was     *)
(* processed, unless that merge had an empty side (record_and_publish then *)
(* leaves the older summary in place): the duplicate test never hides a    *)
(* change of the market and never lets last_published drift from what was  *)
(* really sent.                                                            *)
PublishedIsCurrent ==
  \A v \in DOMAIN venues :
    HeardLast(v) =>
      LET summary == MergeBooks(FreshBooksAt(venues[v].lastUpdate))
      IN  summary # NoSummary => watch.value = summary

(* A watch update is always news: subscribers are never woken for a        *)
(* summary equal to the one they were shown last, and a value once         *)
(* published is never replaced by "nothing".                               *)
OnlyNewsIsPublished ==
  [][watch' # watch =>
       /\ watch'.value \notin {watch.value, NoSummary}
       /\ watch'.version = watch.version + 1]_vars

(* The figures of a latency report belong together: since the last report  *)
(* the two publish histograms hold one sample per published update, the    *)
(* u64 subtraction in log_report cannot underflow, every version of the    *)
(* watch is counted once, and no merge is counted that no message caused.  *)
ReportsAddUp ==
  /\ countAtReport <= updateCount
  /\ samples.mergePublish = updateCount - countAtReport
  /\ samples.total = samples.mergePublish
  /\ samples.parse >= samples.total
  /\ updateCount = watch.version
  /\ updateCount + duplicateCount <= sends - Len(queue)

(* The grace exit: `run` gives up only after more than Grace without any   *)
(* book from any venue, and then at the first check past it, even if no    *)
(* message ever wakes the loop.  A venue that was heard once, however long *)
(* ago, keeps the process up.                                              *)
GraceExit ==
  /\ status = "noData" => DOMAIN venues = {} /\ now > Grace
  /\ status = "running" /\ DOMAIN venues = {} =>
       now <= Grace + GraceCheckInterval + TimerLag

(* The published spread spans the market: lowest ask minus highest bid of  *)
(* all levels shown, negative when two venues cross.                       *)
SpreadSpansTheMarket ==
  watch.value # NoSummary =>
    LET bids == {watch.value.bids[i].price : i \in DOMAIN watch.value.bids}
        asks == {watch.value.asks[i].price : i \in DOMAIN watch.value.asks}
    IN  \E b \in bids, a \in asks :
          /\ watch.value.spread = a - b
          /\ \A x \in bids : x <= b
          /\ \A x \in asks : a <= x
----------------------------------------------------------------------------
(* What the invariants above need to be inductive. *)

(* The watch and last_published never differ, and no book is from the future. *)
PublishInv ==
  /\ watch.value = lastPublished
  /\ \A v \in DOMAIN venues : venues[v].lastUpdate <= now

(* Until a book arrives the next grace check is at most one interval past  *)
(* Grace, and it is served at most TimerLag late.                          *)
GraceInv ==
  status = "running" =>
    /\ now <= nextGrace + TimerLag
    /\ DOMAIN venues = {} => nextGrace <= Grace + GraceCheckInterval
============================================================================
