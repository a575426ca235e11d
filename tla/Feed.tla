-------------------------------- MODULE Feed --------------------------------
(***************************************************************************)
(* One venue's feed task, run_feed of src/feed.rs: connect, subscribe if   *)
(* the venue asks for it, read frames, send books to the aggregator; when  *)
(* a connection ends or cannot be made, back off, take a token from the    *)
(* bucket and start over.                                                  *)
(*                                                                         *)
(* The network misbehaves while `faulty`: connection attempts fail,        *)
(* connections close, break, or go dead without a sign (half-open), and a  *)
(* subscription is refused or its stream stops making sense to `parse`.    *)
(***************************************************************************)
EXTENDS ConnectRate

CONSTANTS
  Second,          \* units of time in a second (even: 0.5 x jitter is whole)
  MaxDelay,        \* cap of the backoff delay (30 s), even
  AttemptCap,      \* bound: attempts are not told apart beyond it
  StabilityWindow, \* STABILITY_WINDOW
  NeedsSubscribe,  \* subscribe_message returns Some (Bitstamp, Kraken)
  Pings,           \* the idle ping is on (Kraken)
  IdlePing         \* kraken_idle_ping

ASSUME FeedAssumption ==
  /\ Second \in Nat \ {0} /\ Second % 2 = 0
  /\ MaxDelay \in Nat \ {0} /\ MaxDelay % 2 = 0
  /\ AttemptCap \in Nat /\ Second * 2^AttemptCap >= MaxDelay
  /\ StabilityWindow \in Nat
  /\ IdlePing \in Nat \ {0}
  /\ {NeedsSubscribe, Pings} \subseteq BOOLEAN

VARIABLES
  phase,    \* where run_feed is; "sending" is tx.send(..).await
  attempt,  \* Backoff::attempt
  sleep,    \* what is left of the backoff's or the bucket's sleep
  tokens,   \* TokenBucket::tokens
  since,    \* time since TokenBucket::last_refill
  held,     \* time since connected_at, not told apart beyond StabilityWindow
  idle,     \* time the pending ws.next() has waited (only with Pings)
  link,     \* the connection: "none", "up", "dead"
  stream,   \* what the venue sends on it: "silent", "books", "stuck", "leaving"
  faulty    \* the network may misbehave

backoff == <<attempt, sleep>>
bucket == <<tokens, since>>
connection == <<held, idle, link, stream>>
vars == <<phase, backoff, bucket, connection, faulty>>

Init ==
  /\ phase = "connecting"
  /\ attempt = 0
  /\ sleep = 0
  /\ tokens = Capacity
  /\ since = 0
  /\ held = 0
  /\ idle = 0
  /\ link = "none"
  /\ stream = "silent"
  /\ faulty = TRUE

(* Backoff::next_delay: 2^attempt seconds, capped. *)
Delay(a) == IF Second * 2^a < MaxDelay THEN Second * 2^a ELSE MaxDelay

(* Backoff::jittered: 0.5 to 1.5 times the delay. *)
Jittered(delay) == {delay \div 2, delay, delay + delay \div 2}

(* Faulty variant of ResetIfStable: any connection that was made resets. *)
ResetAlways == 0

(* Backoff::reset_if_stable *)
ResetIfStable == IF held > StabilityWindow THEN 0 ELSE attempt

(* run_feed after run_once: the next delay, and the connection is dropped. *)
BackOff(a) ==
  /\ phase' = "backoff"
  /\ sleep' \in Jittered(Delay(a))
  /\ attempt' = IF a < AttemptCap THEN a + 1 ELSE a
  /\ held' = 0
  /\ idle' = 0
  /\ link' = "none"
  /\ stream' = "silent"
  /\ UNCHANGED <<bucket, faulty>>

(* Faulty variant of ConnectFails: a handshake that fails halfway leaves   *)
(* its connection open.                                                    *)
ConnectFailsHalfway ==
  /\ phase = "connecting"
  /\ faulty \/ link = "dead"
  /\ phase' = "backoff"
  /\ sleep' \in Jittered(Delay(attempt))
  /\ UNCHANGED <<attempt, bucket, connection, faulty>>

(* connected_at is None: there is nothing to judge. *)
ConnectFails ==
  /\ phase = "connecting"
  /\ faulty \/ link = "dead"
  /\ BackOff(attempt)

Connects ==
  /\ phase = "connecting"
  /\ link = "none"
  /\ link' = "up"
  /\ IF NeedsSubscribe
     THEN phase' = "subscribing" /\ UNCHANGED stream
     ELSE phase' = "reading" /\ stream' = "books"
  /\ UNCHANGED <<backoff, bucket, held, idle, faulty>>

(* Faulty variant of Subscribes: the subscription is taken to outlive the  *)
(* first connection.                                                       *)
SubscribesOnce ==
  /\ phase = "subscribing"
  /\ phase' = "reading"
  /\ stream' = IF attempt = 0 THEN "books" ELSE "silent"
  /\ UNCHANGED <<backoff, bucket, held, idle, link, faulty>>

(* The subscription is sent.  A refusal is only logged (parse of kraken.rs *)
(* and bitstamp.rs), and the loop reads on.                                *)
Subscribes ==
  /\ phase = "subscribing"
  /\ phase' = "reading"
  /\ \/ link = "up" /\ stream' = "books"
     \/ faulty /\ stream' = "stuck"
     \/ link = "dead" /\ UNCHANGED stream
  /\ UNCHANGED <<backoff, bucket, held, idle, link, faulty>>

SubscribeFails ==
  /\ phase = "subscribing"
  /\ faulty \/ link = "dead"
  /\ BackOff(ResetIfStable)

(* A frame that parses into a book; the send waits for room. *)
ReadBook ==
  /\ phase = "reading"
  /\ link = "up"
  /\ stream = "books"
  /\ phase' = "sending"
  /\ idle' = 0
  /\ UNCHANGED <<backoff, bucket, held, link, stream, faulty>>

Sent ==
  /\ phase = "sending"
  /\ phase' = "reading"
  /\ UNCHANGED <<backoff, bucket, connection, faulty>>

(* Any other frame: ping, pong, heartbeat, status, acknowledgement. *)
ReadOther ==
  /\ phase = "reading"
  /\ link = "up"
  /\ idle' = 0
  /\ UNCHANGED <<phase, backoff, bucket, held, link, stream, faulty>>

(* Close frame, end of stream, or a read error. *)
ConnectionEnds ==
  /\ phase = "reading"
  /\ faulty \/ link = "dead" \/ stream = "leaving"
  /\ BackOff(ResetIfStable)

IdleTimeout == Pings /\ phase = "reading" /\ idle >= IdlePing

(* The idle ping is written; into a dead connection it may still seem to   *)
(* work, as long as the operating system buffers it.                       *)
PingIdle ==
  /\ IdleTimeout
  /\ idle' = 0
  /\ UNCHANGED <<phase, backoff, bucket, held, link, stream, faulty>>

PingFails ==
  /\ IdleTimeout
  /\ link = "dead"
  /\ BackOff(ResetIfStable)

(* tokio::time::sleep(wait) is over. *)
BackoffOver ==
  /\ phase = "backoff"
  /\ sleep = 0
  /\ phase' = "acquiring"
  /\ UNCHANGED <<backoff, bucket, connection, faulty>>

(* Faulty variant of Acquire: the token is not spent. *)
AcquireForFree ==
  /\ phase = "acquiring"
  /\ Refilled(tokens, since) >= Token
  /\ tokens' = Refilled(tokens, since)
  /\ since' = 0
  /\ phase' = "connecting"
  /\ UNCHANGED <<backoff, connection, faulty>>

(* TokenBucket::acquire with a token there ... *)
Acquire ==
  /\ phase = "acquiring"
  /\ Refilled(tokens, since) >= Token
  /\ tokens' = Refilled(tokens, since) - Token
  /\ since' = 0
  /\ phase' = "connecting"
  /\ UNCHANGED <<backoff, connection, faulty>>

(* ... and without. *)
Throttle ==
  /\ phase = "acquiring"
  /\ Refilled(tokens, since) < Token
  /\ tokens' = Refilled(tokens, since)
  /\ since' = 0
  /\ phase' = "throttled"
  /\ sleep' = WaitFor(tokens')
  /\ UNCHANGED <<attempt, connection, faulty>>

ThrottleOver ==
  /\ phase = "throttled"
  /\ sleep = 0
  /\ phase' = "acquiring"
  /\ UNCHANGED <<backoff, bucket, connection, faulty>>
----------------------------------------------------------------------------
(* The world outside the task. *)

(* The peer goes without a sign, perhaps in the middle of the handshake    *)
(* (proxy answer, TLS, websocket upgrade), which has no timeout either.    *)
LinkDies ==
  /\ faulty
  /\ link = "up" \/ phase = "connecting"
  /\ link' = "dead"
  /\ UNCHANGED <<phase, backoff, bucket, held, idle, stream, faulty>>

(* A message leaves `parse` without its book (Kraken's checksum mismatch): *)
(* from here on this connection yields none.                               *)
StreamBreaks ==
  /\ faulty
  /\ NeedsSubscribe
  /\ phase = "reading"
  /\ stream = "books"
  /\ stream' = "stuck"
  /\ UNCHANGED <<phase, backoff, bucket, held, idle, link, faulty>>

(* bts:request_reconnect: the venue will close the connection and sends no *)
(* more books.  `parse` logs it, and the loop reads on until it does.      *)
AsksReconnect ==
  /\ faulty
  /\ NeedsSubscribe
  /\ phase = "reading"
  /\ stream = "books"
  /\ stream' = "leaving"
  /\ UNCHANGED <<phase, backoff, bucket, held, idle, link, faulty>>

(* The network is healthy from now on. *)
Heal ==
  /\ faulty
  /\ faulty' = FALSE
  /\ UNCHANGED <<phase, backoff, bucket, connection>>

(* connected_at is taken. *)
Connected == phase \in {"subscribing", "reading", "sending"}

Tick ==
  /\ since' = OneLater(since)
  /\ sleep' = IF sleep > 0 THEN sleep - 1 ELSE 0
  /\ held' = IF Connected /\ held <= StabilityWindow THEN held + 1 ELSE held
  /\ idle' = IF Pings /\ phase = "reading" /\ idle < IdlePing THEN idle + 1 ELSE idle
  /\ UNCHANGED <<phase, attempt, tokens, link, stream, faulty>>

Next ==
  \/ ConnectFails \/ Connects
  \/ Subscribes \/ SubscribeFails
  \/ ReadBook \/ Sent \/ ReadOther \/ ConnectionEnds
  \/ PingIdle \/ PingFails
  \/ BackoffOver \/ Acquire \/ Throttle \/ ThrottleOver
  \/ LinkDies \/ StreamBreaks \/ AsksReconnect \/ Heal \/ Tick

Spec == Init /\ [][Next]_vars

(* The task is polled, timers fire, a connection attempt ends, the venue   *)
(* sends what was subscribed to, the aggregator drains its channel.  Pings *)
(* into a dead connection fail in the end (the operating system gives up   *)
(* retransmitting), though any single one may not.  A venue that has asked *)
(* for a reconnect closes the connection: nothing else would end it.       *)
Fairness ==
  /\ WF_vars(Tick)
  /\ WF_vars(Connects)
  /\ WF_vars(Subscribes \/ SubscribeFails)
  /\ WF_vars(ReadBook)
  /\ WF_vars(Sent)
  /\ WF_vars(link = "up" /\ stream = "leaving" /\ ConnectionEnds)
  /\ SF_vars(PingFails)
  /\ WF_vars(BackoffOver)
  /\ WF_vars(Acquire)
  /\ WF_vars(Throttle)
  /\ WF_vars(ThrottleOver)

FairSpec == Spec /\ Fairness
----------------------------------------------------------------------------
TypeOK ==
  /\ phase \in {"connecting", "subscribing", "reading", "sending",
                "backoff", "acquiring", "throttled"}
  /\ attempt \in 0..AttemptCap
  /\ sleep \in Nat
  /\ tokens \in 0..Capacity
  /\ since \in 0..MaxSince
  /\ held \in 0..StabilityWindow + 1
  /\ idle \in 0..IdlePing
  /\ link \in {"none", "up", "dead"}
  /\ stream \in {"silent", "books", "stuck", "leaving"}
  /\ faulty \in BOOLEAN
  /\ Connected => link # "none"
  /\ link # "none" => Connected \/ phase = "connecting"

(* With the delays and rates of the source, the backoff alone keeps a feed *)
(* below its ceiling, whatever the venue does: the bucket is a second line *)
(* of defence that is never needed, because only a connection held for     *)
(* longer than STABILITY_WINDOW resets the delay, and by then the bucket   *)
(* is full again.                                                          *)
BucketNeverThrottles == phase # "throttled"

(* What BucketNeverThrottles takes of the delays and rates.  The fractions *)
(* left[a], at least in the bucket when a delay is chosen at attempt a,    *)
(* cover with what the shortest such delay refills a token and what has to *)
(* be left at the next attempt; and a stable connection refills it all.    *)
Outpaces(left) ==
  /\ left \in [0..AttemptCap -> 0..Capacity]
  /\ \A a \in 0..AttemptCap :
       Refilled(left[a], Delay(a) \div 2) >=
         left[IF a < AttemptCap THEN a + 1 ELSE a] + Token
  /\ Refilled(0, StabilityWindow + 1) = Capacity

(* run_feed uses the bucket as TokenBucket describes it, so its ceiling    *)
(* (TokenBucket!RateCeiling) holds for every attempt of a feed but its     *)
(* first, which takes no token, through any mixture of failures, backoff   *)
(* and long connections.                                                   *)
Bucket == INSTANCE TokenBucket WITH
  state <- CASE phase = "acquiring" -> "acquiring"
             [] phase = "throttled" -> "sleeping"
             [] OTHER -> "away",
  sleep <- IF phase = "throttled" THEN sleep ELSE 0,
  debt <- Capacity - Refilled(tokens, since)

ImplementsBucket == Bucket!Spec

(* Three silences nothing in the task ends: an attempt whose handshake is  *)
(* never answered, a half-open connection to a venue without the idle ping *)
(* (Binance, Bitstamp), and a stream that lives but yields no books.       *)
Silence ==
  \/ phase = "connecting" /\ link = "dead"
  \/ phase = "reading" /\ link = "dead" /\ ~Pings
  \/ phase = "reading" /\ link = "up" /\ stream = "stuck"

(* "Reconnects forever": once the network is healthy the feed sends books  *)
(* again, whatever state the faults left it in, except in these three.     *)
BooksFlowAgain == ~faulty ~> (phase = "sending" \/ Silence)
============================================================================
