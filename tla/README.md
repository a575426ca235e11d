# Specifications of rust-crypto-orderbook

The service takes order books from three exchanges, merges the fresh ones into
one top-10 book, and streams it over gRPC. This directory holds TLA+ models of
its tasks, the TLC configurations that check them on small instances, and TLAPS
proofs of the properties that hold for all of them. Paths are relative to the
repository (`src/` is the crate's source directory, `specs/` its design notes).

Tools: `tlc -config X.cfg M` for a run, `tlapm M.tla` for a proof module.

## 1. The system

```
 Binance feed  --\                                    /--> BookSummary stream --> client
 Bitstamp feed ---> mpsc(32) --> aggregator --> watch ---> BookSummary stream --> client
 Kraken feed   --/   (Venue, Book)      Option<Arc<Summary>>    (any number)
```

Five tasks share one `JoinSet` (`main.rs`): three feeds, the aggregator, the
gRPC server. They share no memory except the two channels. The process ends with
the first task that ends.

| Component | State | Operations | Interacts through |
|---|---|---|---|
| merge (`merge.rs`) | none; the loop has a cursor per venue | `merge_side`, `merge` | called by the aggregator |
| aggregator (`aggregator.rs`) | last book and time per venue, last published summary, counters, three histograms, two interval timers | `record_and_publish`, grace check, report | receives from the mpsc channel, sends to the watch |
| feed driver (`feed.rs`) | `Backoff.attempt`, `connected_at`, `TokenBucket`, the websocket | connect, subscribe, read, send, idle ping, back off, acquire | venue, `Exchange` trait, mpsc channel |
| rate limit (`TokenBucket`, `Venue::connect_rate`) | tokens, `last_refill` | `refill`, `acquire` | owned by one feed |
| Kraken (`exchange/kraken.rs`) | the incremental book in a `Mutex` | snapshot and update arms of `parse` | called by the feed; outlives a connection |
| Binance, Bitstamp | none | `parse` of one message | called by the feed |
| gRPC service (`server.rs`) | a watch receiver per call | `book_summary` | watch, tonic |
| client (`bin/client.rs`) | `VenueTracker`, `Stats` | reconnect loop, drawing a frame | gRPC, the terminal |
| supervisor (`main.rs`) | `Config`, the `JoinSet` | start, first task to end | owns every task |
| configuration (`config.rs`) | none | `from_env` | read once by `main` |
| proxy (`proxy.rs`) | none across calls | `connect_through_proxy` | called by the feed |
| load test (`bin/loadtest.rs`) | a shared counter | subscribers, report | gRPC |
| telemetry | none | set up logging | - |

What is hard about each, and so what its properties are about:

- **aggregator**: freshness is only evaluated when a message arrives, the
  duplicate test compares with the last *merge*, an empty side leaves an older
  summary in place, and both timers race the channel. It is right when the watch
  always shows the merge of what was fresh at the last message, an update is
  always news, the figures of a report belong together, and the grace exit comes
  on time and only if no venue was ever heard.
- **gRPC stream**: a watch receiver sees only the newest value, starts with the
  current one, may be slow, and the sender may go at any moment. It is right when
  no client goes back in time, none is left behind, and none loses the last
  summary.
- **feed**: failures at every await, a delay that must survive a connection which
  drops at once, a subscription that belongs to one connection, half-open
  connections. It is right when books flow again after any fault, and when
  reconnecting stays under the ceiling.
- **token bucket**: saved-up tokens and rounding of the computed sleep.
- **Kraken**: state across messages and connections, partial failure in the middle
  of an update, levels that leave and re-enter the best ten. It is right when
  only books the venue really had are published, and a healthy stream never
  raises a false alarm.
- **merge**: order, ties and the cut at `TOP_N` over many lists.
- **supervisor**: a task that ends closes channels before the `JoinSet` hears of it,
  so its end may be overtaken by the ends it causes. It is right when any end ends
  the process and code 0 never stands for a failure.
- **configuration**: the same setting is read at three places that may each leave
  the process.
- **parsers**: many levels, any of which may not parse; events that carry data of
  another shape.
- **proxy**: an answer cut into packets, read through a buffer that is then dropped,
  from a peer that may close at any byte.
- **client**: it guesses venue health from frames that do not come for every merge,
  survives restarts of the server, and redraws a screen it never clears.

`PROJECT.json` lists the hazards line by line.

## 2. The modules

| Module | Models | Role |
|---|---|---|
| `Merge` | `merge.rs` | operators `Better`, `IsBest`, `MergeSide`, `MergeBooks` |
| `MergeLoop`, `MCMergeLoop` | the `while` loop of `merge_side` | one iteration per step, against a reference order |
| `Aggregator`, `MCAggregator` | `aggregator.rs` | one action per `select!` branch, plus feeds and clock |
| `LatestSummary` | - | abstract: what a BookSummary client is promised |
| `BookStream` | `server.rs`, the watch channel | implements `LatestSummary` |
| `Pipeline` | the channels of `main.rs` | composes `Aggregator` and `BookStream` |
| `ConnectRate` | arithmetic of `TokenBucket`, `connect_rate` | shared by the next two |
| `TokenBucket` | `TokenBucket::acquire`, any caller | abstract: the ceiling on attempts |
| `Feed`, `MCFeed` | `run_feed`, `run_once`, `Backoff` | implements `TokenBucket` |
| `Kraken` | `exchange/kraken.rs` | the incremental book and its venue |
| `Startup` | the first half of `main`, `config.rs` | arguments, environment, bind address |
| `Supervisor` | the second half of `main` | tasks, their ends, the exit code |
| `Main` | `main` | composes `Startup` and `Supervisor` |
| `Snapshots` | `exchange/binance.rs`, `exchange/bitstamp.rs` | `parse` over any sequence of messages |
| `ProxyTunnel` | `proxy.rs`, `proxy_addr` | the CONNECT handshake and its peer |
| `Connection` | `run_once_inner`, from proxy to `parse` | composes `ProxyTunnel` and `Snapshots` |
| `Viewer` | the reconnect loop of `bin/client.rs` | over `BookStream`, with server restarts |
| `ClientStatus`, `MCClientStatus` | `VenueTracker`, `venue_status` | over `Pipeline` |
| `LevelCell` | `level_cell`, `shade_cell` | one window of a cell per step |
| `ClientScreen` | `main`, `connect_and_stream` of `bin/client.rs` | composes `Viewer` and `LevelCell` |
| `MergeProofs`, `AggregatorProofs`, `TokenBucketProofs`, `FeedProofs`, `KrakenProofs`, `ConnectionProofs`, `MainProofs`, `ClientScreenProofs` | - | theorems |

Operators whose comment begins "Faulty variant of" are no part of any
specification: each is a plausible bug in the code that one property must catch
when it takes the place of the operator after it.

### How they correspond to the code

**Merge.** Prices and amounts are integers (ticks), so the rounding of the spread
to 8 decimals is exact; NaN is left out (`total_cmp` would order it, and a decimal
string does not parse into it from these venues). A venue is its number in the
declaration order of `enum Venue`, which is the BTreeMap's order. `IsBest` is
`min_by` with the first of equal elements; `Pass` is the loop's body on what it has so
far, `MergeSide` iterates it as a recursive function, `MergeLoop` is the same loop as a
state machine, and both are proved to agree.

**Aggregator.** `Receive` is `rx.recv()` yielding a message *and the whole of*
`record_and_publish` (insert, freshness, merge, duplicate test, send, samples,
counters); `ChannelClosed` is its `None`; `GraceCheck` and `Report` are the two
`tick()` branches, `Report` with the reset of all three histograms. A histogram is
the number of samples it holds. Time is discrete; a book may wait in the channel
for any time, and a timer that is due is served at most `TimerLag` units late.
`Send` waits for room in the channel; `FeedEnds` drops a sender.

**BookStream.** Each call is a `WatchStream`: the first poll yields the current
value, each later one waits for a version not seen, and the closed sender is
noticed only if there is none; `Deliver` is the `filter_map` that drops `None`.
`log`, `pos` and `shown` are history. A client polls when it likes.

**Pipeline.** A step is a step of `Aggregator!Next` (a publication goes on
`BookStream`'s log) or of one client's stream; `senderAlive` is
`status = "running"`, because `run` owns the sending half.

**TokenBucket / Feed.** Tokens are counted in integer fractions and time in units
of which `Second` make a second. `phase` says at which await of `run_feed` the task
is. `BackOff` is everything between `run_once` returning and the sleep:
`reset_if_stable`, `next_delay`, `jittered` (its two ends and its middle), the
dropped connection. The network is the environment: while `faulty` it may refuse a
connection or a subscription, end or silently kill a connection (also in the middle
of its handshake), leave a stream yielding no books, or ask for a reconnect
(Bitstamp), after which it sends none and the feed reads on until it closes.
Connecting directly or through the proxy is one action; `ProxyTunnel` opens it up.
`ReadBook` and `Sent` are separate because `tx.send(..).await` suspends the loop on
a full channel, during which no ping is sent.

**Kraken.** A side is a function from price to quantity (0: no level), which is what
the sorted `Vec` with unique prices represents. `Upsert`, `Truncate`, `Checksum`
and the two arms of `parse_book_message` are operators; `Steps` applies the levels of a
message one after the other, as a recursive function; `UpToGarbled` keeps the
early return in the middle of `apply_update`, which leaves the levels before the
unreadable one applied and nothing cut off. The checksum is taken to be injective
on the levels it covers (CRC32 is not, with probability 2^-32). The venue is
modelled from what `kraken.rs` relies on; messages of one connection come in
order, and between connections anything may have happened to the market.

**Startup.** One step per statement of `main` that may leave it. A setting is
absent, a text that does not parse, bytes that are not Unicode (on which clap leaves
the process like on the former), or a value named for its origin; `VarOr` is `env::var(..)` with a default. `Main` spawns
`Supervisor`'s tasks when the last of these steps has succeeded.

**Supervisor.** A task is `running`, then `dropped` (its future is gone, and with it
its channel ends), then `joinable`; `JoinNext` takes the first that became so and
returns, which aborts the rest. Feeds end by panic only, as `run_feed` never
returns. `exit` records the task `main` returned for and so the exit code.

**Snapshots.** A message is its event and a payload: both sides, nothing, or data of
another shape. Levels are pairs of texts that parse or do not. `noted` is the
level it was logged at, because that is all that tells a recognized control event
from an unknown one.

**ProxyTunnel.** `wire` is what the socket holds, `reader` what the `BufReader` has
taken from it, `buf` the lines of the answer. The proxy sends line by line and may
close at any point; the target does not speak before the TLS hello.

**Connection.** `Upgrade` is the TLS and websocket handshake. It takes what is left on
the tunnel for its own answer, so it succeeds only on a clean tunnel, and may fail
on any. Behind it `Snapshots` is given the messages.

**Viewer.** `BookStream` with one client, whose calls the loop makes. `ServerEnds` is
the aggregator returning, `ServerStarts` a new process with an empty watch, which
ends whatever stream was still open. `pos` is what the screen shows of the present
process.

**ClientStatus.** `Pipeline` with `lastSeen`; `Draw` is `VenueTracker::update` on each
item. Client and server share a clock, so that their answers can be compared.

**LevelCell, ClientScreen.** A cell is the pair of colours of each column. `ClientScreen`
paints every summary that is polled before the loop goes on, as one row of two cells
(the bid's from the right, the ask's from the left, which is what `render` does ten
times), while server and network go on; a level that is missing is blank and has no
colours. A write may fail, which ends `connect_and_stream` like any other error.

## 3. What is checked

All runs finish in under two minutes. "Clock stops" means deadlock is off because
a bound ends the run, not the system.

| Run | Shows |
|---|---|
| `merge_loop` | output is best-first, no better level is left behind, the i-th level out is the i-th of the reference order of the union (ties by amount, then venue), and the loop computes `MergeSide` |
| `aggregator` | `PublishedIsCurrent`, `OnlyNewsIsPublished`, `ReportsAddUp`, `GraceExit`, `SpreadSpansTheMarket` through every interleaving of books, timers, silences and feeds that die |
| `book_stream` | `NothingWithheld`, `LastSummaryReachesEveryone`, and refinement of `LatestSummary` including its liveness |
| `pipeline` | behind the real aggregator and in front of the viewer's header: the aggregator is the publisher `BookStream` assumes (`FeedsTheStreams`), while no task has ended, a client that stays catches up with the last merge (`NewsReachesClients`), and one that is up to date never shows a venue as up that the last merge left out (`NoVenueUpInError`) |
| `token_bucket` | `RateCeiling` (no window gets more than capacity plus refill), `OneSleepIsEnough`, `EveryAskIsGranted` |
| `feed_rates` | with the source's own delays, window and Kraken/Bitstamp rate: no sequence of failures and connections ever makes the bucket throttle; and `BackoffSuffices`, the hypothesis of the theorem `NeverThrottles`, holds of them |
| `feed_recovery` | `Feed` implements `TokenBucket`; after the network heals, books flow again unless the feed is in one of the three `Silence` states |
| `kraken` | `OnlyTrueBooks`, `HeldBookFollowsVenue` (no false alarm), `ReparsingIsHarmless` |
| `main` | `StartsAsAsked`: a value that counts and does not parse starts nothing, otherwise every setting comes from its strongest origin, with two deviations from the comments of the code left out by name (`Overruled`, `FallsBack`; section 5); `AnyEndEndsProcess`; `CleanExitMeansNoData`, through every order in which ends overtake each other |
| `connection` | the tunnel starts at the target's first byte however the answer is cut; the proxy's part of an attempt ends however it behaves; a book comes out of exactly the legible book messages, level for level |
| `client` | the screen shows the whole newest summary of the running server again, through restarts, broken connections and failed writes, but for a connection that died without a sign; every column of a cell is written once, in order, in its colours |
| `control_events` | a Bitstamp control event is not recognized: the disagreement of section 5 that is a defect of the code |

### Bounds, and why they are enough

- `merge_loop`: three venues, lists of up to 2 of 6 levels, `TopN` 3. Three venues
  tie pairwise and all together; lists run out before, at and after the cut.
- `aggregator`: two venues with thresholds 2 and 3, `Grace` 3 checked every 2 (so a
  check falls inside and one past it, as 60 and 5 do), reports every 3, channel of
  2, three books, clock up to 7. That is a book of each venue, one gone stale, a
  third message, both timers twice, a full channel. Books: two that cross each
  other and one with an empty side.
- `book_stream`: two clients, three summaries, four publications, so that the same
  summary may come back and a client may skip one between polls.
- `pipeline`: one client (clients do not interact; `book_stream` has two), channel
  of 1, clock up to 3, two venues whose thresholds differ, three books (two that
  cross, one with an empty side): a venue goes stale, falls out of a frame and
  returns, with a duplicate and a one-sided book in between.
- `feed_rates`: half seconds, so that 0.5 x jitter and 0.5 tokens/s are whole.
  `AttemptCap` 5 is where the delay reaches 30 s; `MaxSince` is the time to fill
  the bucket; `held` and `idle` saturate one past and at their thresholds. These
  caps lose nothing: no guard tells larger values apart.
- `feed_recovery`: the same code with delays of 1 and 2 s and a bucket of one token,
  so that throttling happens, with both subscription and idle ping on.
- `kraken`: two prices and two quantities a side, the best 1 subscribed, at most one
  price a side changed between messages: enough for a level to fall out of the
  best, return, change while out of sight, and for an update to carry a removal and
  an insertion in either order. Two garbled messages per connection, each in any level
  or whole, so that a half-applied update meets another. Any number of connections.
- `token_bucket` has no bound on time: its state space is finite.
- `main`: every combination of absent, unreadable and usable values; two feeds (one
  to end first, one to keep the channel open); its state space is finite.
- `connection`: four lines or pieces of data on the wire, any number read at once: an
  answer with headers, and data behind it, in one packet or several. Sides of up to
  two levels, any of whose two texts may be unreadable: first, last, only and both.
  Nothing is kept between messages but the last result.
- `client`: three publications per server process, any number of restarts; the source's
  width and split, and every bar length that amounts from 0 to 40 give.

### Fairness

- `BookStream`: weak fairness of a client's poll and of the end of its stream; tonic
  polls the stream of a client that keeps reading. Nothing is assumed about clients
  joining or leaving.
- `ClientStatus`: weak fairness of a client's poll, and only while every task is
  running (`Alive`). The first task to end makes `main` return, which aborts the
  server: a summary published just before may never go out, and `NewsReachesClients`
  claims nothing of it. Nothing is assumed about the feeds and the aggregator.
- `TokenBucket`, `Feed`: weak fairness of time, of timers that are due, and of the
  task being polled. In `Feed` also that connection attempts and subscriptions end
  one way or the other, that a venue sends books on a healthy subscribed connection
  (it is the environment assumption of the README's "reconnects"), and that the
  aggregator drains its channel. `PingFails` has strong fairness: a single ping into a dead
  connection may succeed (the kernel buffers it), but the retransmission timeout
  ends that, so of infinitely many some fails.
- `Feed`: a Bitstamp that has asked for a reconnect closes the connection; nothing in
  the feed would.
- `Main`: weak fairness of the steps of `main`, of the runtime telling the `JoinSet`
  of an ended task, and of `main` being polled.
- `Connection`: weak fairness of the task up to the handshake, and of a proxy that
  finishes its answer or closes (a proxy that does neither is the handshake `Feed`
  lists as a silence).
- `ClientScreen`: weak fairness of the loop and of painting, of a server that is there
  answering and streaming, and of whoever runs the server starting it again.
- No liveness is claimed of the network while it is faulty.

## 4. What is proved

Every theorem holds for all values of the constants that meet the named
assumptions, for instance any set of venues, any books, any thresholds.

| Module | Theorem | Argument |
|---|---|---|
| `MergeProofs` | `MergeTypeCorrect`, `MergeSideBestFirst` | `OutBestFirst` alone is not inductive: the next level could be better than one already out. Together with `NothingBetterLeftBehind` and sortedness of the inputs it is |
| | `NothingBetterLeft` | the other half of the same invariant |
| | `LoopIsMergeSide` | `LoopInv`: after n iterations the loop's state is `Passes[n]`, as each `Emit` is a `Pass` (`EmitIsPass`); that `Passes` unfolds is shown by induction over the number of passes |
| | `OutIsTheTop` | `MergedInv`: what is out comes before all that is not, in the reference order, and there are as many such levels as are out; so the place of a level in `out` is its place in the order |
| `AggregatorProofs` | `TypeCorrect` | per action, over the parts of `TypeOK` |
| | `CurrentAsOfLastMessage` | `PublishInv`: watch and `lastPublished` never differ, and no book is from the future. Needed because the duplicate test reads one and the property the other |
| | `NewsOnly` | from `PublishInv` and the type invariant |
| | `SpreadIsTheMarkets` | the watch is a merge of books that were fresh (`PublishedIsCurrent`), and the first level of a merge is a best level of what was merged, so the spread is that of the best bid and ask of the market |
| | `ReportsConsistent` | the conjunction itself is inductive given types |
| | `GraceExitCorrect` | `GraceInv`: until a book arrives the next check is at most one interval past `Grace`, and the clock at most `TimerLag` past the check |
| | `AggregatorFeedsTheStreams` | `PipelineSpec => Streams!Spec`: a step of the aggregator that changes the watch is a `Publish` of a summary unlike the last (from `PublishInv`), within the bound on versions because every publication takes a sent book off the channel (`EnoughVersions`); any other is `SenderDropped` or a stutter. So what `ClientScreenProofs` says of `BookStream` applies behind the real aggregator |
| | `UpMeansMerged` | `ShownInv`: a client at the newest version shows the watch's value, which is the last merge (`CurrentAsOfLastMessage`); a merge names no venue but those it took (`MergeNamesItsVenues`), and the header takes for up the venues its frame names |
| `TokenBucketProofs` | `TypeCorrect`, `CeilingHolds`, `SleepSuffices` | `BucketInv`: debt plus refilled tokens never exceeds the capacity; tokens plus what the rest of the sleep refills reach a token. Rests on lemmas about `Refilled` and `WaitFor` |
| `FeedProofs` | `FeedImplementsBucket` | each step of `Feed` maps to a step of `TokenBucket` or leaves its variables alone (`BucketTypeCorrect`: tokens and clock stay in range) |
| | `TypeCorrect` | per action; that a delay is a natural number rests on `PowerOfTwo`, counted as subsets because the prover knows nothing else of `^` |
| | `NeverThrottles` | for any delays and rates that satisfy `Outpaces`. `RateInv`: at attempt a at least `left[a]` is in the bucket; during a backoff, what is in it and what the rest of the sleep refills cover the next token and what must be left then; and the time held is refilled too, so that a connection that resets the delay has filled the bucket |
| `KrakenProofs` | `BooksAreTrue` | a book is accepted only if its checksum agrees, and the checksum of what `truncate` leaves is all of it: cutting off to the best `Depth` levels twice is the same as once (`TopIdempotent`), as no price has more ahead of it afterwards (`TopAhead`). Needs nothing of `upsert` |
| | `TypeCorrect` | per action; a message's levels are applied to a book one by one and leave one (`AppliedType`) |
| | `BookFollowsVenue` | `InStep` (also a theorem, `StaysInStep`): on an undisturbed connection the held book is the venue's best, or the one message that makes it so is on its way. What a side is after a message depends on the last word on each price only (`StepsSettle`, by induction over the message), hence not on the order of its levels; and the levels that entered, left or changed among the best are enough to get from one best book to the next (`MentionedIsEnough`) |
| | `ReparsingChangesNothing` | a message that was accepted has given each price it mentions its last word already (`Reapplied`), garbled or not |
| `ConnectionProofs` | `StartsClean` | `TunnelInv`: all that was sent, whether read, buffered or on the wire, is one sequence that reading does not change (`FillMoves`, `ReadLineMoves`); it is a status line, header lines and a blank line, and behind a 200 nothing follows before the tunnel stands. So the line that completes the answer is the last there is |
| | `BooksAreWhole` | a side parses exactly if each level does (`LegibleParses`); then by the arms of `parse` |
| `MainProofs` | `ServesAsAsked` | `StartupInv`: how far the settings are at each step, and which reasons to exit did not occur. The safety part of `StartsAsAsked`, with its two deviations |
| | `CleanExitIsHonest` | `MainSpec` implements `Supervisor`'s `Spec`. `EndInv`: a running task has no result, feeds end by panic only, the server never with `ok`, and what `ChannelCloses` and `GivesUp` required stays true after them, because a task that ended does not run again and a dead aggregator hears nothing |
| `ClientScreenProofs` | `TypeCorrect` | of `BookStream`, per action |
| | `NothingIsWithheld`, `LastSummaryDelivered` | `StreamInv`: the watch is the end of the log, and each client's `pos`, `seen`, `shown` agree with it |
| | `StreamsImplementLatestSummary` | `Spec => Abstract!Spec`: under `StreamInv` each step is a `LatestSummary` step or a stutter |
| | `ColumnsPainted`, `CellsAreWhole` | `CellInv`: what is written so far is `at` columns in their colours; a window between neighbouring boundaries has one colour (`OneColourAWindow`), and short of the right edge there is always a next boundary (`NextBoundary`) |
| | `ScreenPaintsCells`, `ScreenIsPaintedRight` | each step of the screen is a step of one cell or leaves it alone, so both properties hold on the screen, whatever server, network and failing writes do meanwhile |

Assumptions: `VenueAssumption` (venues are finitely many integers), `TopNAssumption`,
`InputListsAssumption`, `BookAssumption` (a book's sides are best first, as `model.rs`
promises of `Book`), `TimingAssumption`, `BoundAssumption`, `BookStreamAssumption`,
`PipelineAssumption`, `ConnectRateAssumption`, `FeedAssumption`, `KrakenAssumption`,
`NamesAssumption` (a garbled message is no level, no book is no book),
`SnapshotsAssumption`, `ConnectionAssumption`, `GarbledAssumption`, `MainAssumption` (a
usable value is not what stands for an absent or an unusable one),
`SupervisorAssumption`, `LevelCellAssumption`. TLC evaluates each on its instances.
`NeverThrottles` has a hypothesis of its own, `Outpaces(left)`; `BackoffSuffices` of
`MCFeed` says that the source's numbers satisfy it, with the `left` that follows from
them, and TLC evaluates it in `feed_rates`. In `feed_recovery` it is false, and there
the bucket does throttle.

Only model-checked: everything temporal that needs fairness (`EveryAskIsGranted`,
`BooksFlowAgain`, `NewsReachesClients`, `AnyEndEndsProcess`, `AttemptEnds`,
`CatchesUp`, the liveness in `StartsAsAsked` and the fair half of
`ImplementsLatestSummary`): the prover knows neither `ENABLED` nor fairness. Every
safety property that a passing run checks is a theorem. Inductions over the number of passes or
the length of a message are over sets of natural numbers (`NaturalsByInduction`,
`LeastNatural`), because the library's induction theorems take an operator, which
this prover cannot instantiate.

## 5. Where the documents and the code disagree

One disagreement has a run:

- `control_events`: a test's comment (`bitstamp.rs:148`) says `bts:request_reconnect`
  must be recognized, and specs/006 that `bts:error` is logged at warn. The `data`
  these events carry is no book, so the whole envelope fails to deserialize and they
  are skipped at debug as unrecognizable. The feed is not affected (both ways return
  `None`).

The others were met while modelling; they follow from a few lines of the code and
have no run:

- specs/004 says that when every venue is stale a client receives nothing and waits.
  Nothing wakes `record_and_publish` then, the watch keeps its last summary
  (`server.rs:43`), and a client that subscribes is shown it.
- `feed.rs:58` says the bucket matches Binance's 300 attempts in 5 minutes. Capacity 5
  at one per second is 305. (Backoff keeps a feed far below.)
- `aggregator.rs:19` says `GRACE` covers a full backoff cycle of 61 s. It is 60 s, and
  the process ends at the first check past it, during the last delay.
- specs/012 says a reconnect discards the local book. It stays held (as `kraken.rs:23`
  itself notes); the run `kraken` shows the checksum makes this harmless.
- `main.rs:62` and the README say flags win. An `ORDERBOOK_PORT` that does not parse
  stops the start before a usable `--port` is looked at (`Overruled` in `Startup`).
- `config.rs:39` says an unparseable port is a hard error. One that is not Unicode
  falls back to the default port, and likewise pair and host (`FallsBack`).
- specs/009 says the client's age of a venue runs behind the server's by about one
  publish interval. A merge that changes nothing sends no frame, so the client's
  count starts as much earlier as the market stood still.
- `compose.yml:35` says an empty variable counts as absent. An empty `HTTPS_PROXY`
  hides an `HTTP_PROXY` that is set (compose sets both alike).
- `client.rs:159` says a redraw never needs a clear-to-end-of-line. With two venues
  silent for 100 s the header is one column wider than the table (the padding
  saturates at zero), and the next narrower one leaves that column standing.

A few more things a reader of the code may want to know. `ReparsingIsHarmless`: the
module comment of `kraken.rs` warns that a message parsed twice is applied twice;
levels are absolute, so the second time changes nothing. `Silence`: a
handshake that is never answered, a half-open connection to Binance or Bitstamp, and
a Kraken stream after a checksum mismatch are ended by nothing in the feed. And the
first attempt of a feed takes no token, so the ceiling of the bucket counts every
attempt but that one. `CleanExitMeansNoData`: the grace exit ends the process with
code 0, and so does the aggregator's end when every feed has panicked and the news
of that is overtaken. `CatchesUp`: the viewer has neither keepalive nor timeout, so a
half-open connection to the server leaves its last frame standing.

## 6. What is not modelled

- Text: JSON syntax, decimal parsing and formatting, URLs, logging. A message is what
  serde and the decimal parser make of it.
- Kraken's symbol conversion: a pair with an unlisted quote currency is never
  subscribed (specs/012 documents the limit).
- Values of the latency histograms: only how many samples each holds. `f64` rounding.
- The viewer's header as columns, its spread line with the message rate (`Stats`), time
  of day and ctrl-c. Prices of 1000 and more are wider
  than the field `LevelCell` takes them to fill.
- The load test (`bin/loadtest.rs`): a measuring tool that nothing of the service
  depends on.
- A Kraken snapshot with a price listed twice or with quantity zero:
  `from_snapshot` keeps both, and the model's venue never sends such a list.
- The ways a proxy's answer can fail to be read (a read error, bytes that are no
  UTF-8): like a proxy that closes, each ends the attempt with an error.
- A histogram that rejects a sample (`record_duration` logs it): `Histogram::new` makes
  histograms that grow.
- `telemetry.rs`, `lib.rs`, `build.rs`: logging set-up and generated code, no state.

## 7. Plan

Order of work; done so far:

1. `Merge`, `MergeLoop`: the pure core, with `MergeProofs`.
2. `Aggregator`: the heart of the service, with `AggregatorProofs`.
3. `LatestSummary`, `BookStream`: abstract promise and implementation, with proofs.
4. `ConnectRate`, `TokenBucket`, `Feed`: reconnecting, with proofs.
5. `Kraken`: the incremental book, with `KrakenProofs`.
6. `Pipeline`: aggregator and streams together, proved in `AggregatorProofs`.
7. `Startup`, `Supervisor`, `Main`: the process, with `MainProofs`.
8. `Snapshots`, and Bitstamp's request for a reconnect in `Feed`.
9. `ProxyTunnel`, `Connection`: the handshake inside a connection attempt, and what
   is read behind it, with `ConnectionProofs`.
10. `Viewer`, `ClientStatus`, `LevelCell`, `ClientScreen`: the client, with
    `ClientScreenProofs`.

Left:

11. `Feed` composed with `Kraken`: the held book across the feed's real reconnects,
    and a subscription that is never sent because the symbol does not convert.
12. Proofs: the ceiling of `TokenBucket` for `Feed` with the attempts counted by a
    history variable, so that its first attempt is counted too; that a client of
    `Pipeline` loses nothing, from `AggregatorFeedsTheStreams` and the theorems on
    `BookStream`, in one statement.
