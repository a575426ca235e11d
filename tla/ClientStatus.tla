---------------------------- MODULE ClientStatus ----------------------------
(***************************************************************************)
(* The header of the terminal viewer (VenueTracker and venue_status of     *)
(* src/bin/client.rs) at the end of the Pipeline: a venue with a level in  *)
(* the frame is shown up, any other as stale since the last frame that had *)
(* one.  The client and the aggregator read the same clock here, so that   *)
(* their answers can be compared.                                          *)
(***************************************************************************)
EXTENDS Pipeline

VARIABLE lastSeen  \* VenueTracker::last_seen, per client and venue

statusVars == <<allVars, lastSeen>>

(* VenueTracker::new: every venue is seeded with the current instant. *)
StatusInit ==
  /\ PipelineInit
  /\ lastSeen = [c \in Client |-> [v \in Venue |-> now]]

VenuesIn(levels) == {levels[i].exchange : i \in DOMAIN levels}

(* Faulty variant of Present: a venue once seen stays up. *)
PresentOnceSeen(summary) ==
  VenuesIn(summary.bids) \cup VenuesIn(summary.asks)
    \cup {v \in Venue : \E c \in Client : lastSeen[c][v] > 0}

(* VenueTracker::update: the venues with a level on either side. *)
Present(summary) == VenuesIn(summary.bids) \cup VenuesIn(summary.asks)

(* A frame is drawn; an update without a summary draws none. *)
Draw(c) ==
  /\ UNCHANGED vars
  /\ Streams!Poll(c)
  /\ lastSeen' =
       IF watch.value = NoSummary THEN lastSeen
       ELSE [lastSeen EXCEPT ![c] =
               [v \in Venue |-> IF v \in Present(watch.value) THEN now ELSE @[v]]]

Other(c) ==
  /\ UNCHANGED <<vars, lastSeen>>
  /\ Streams!Subscribe(c) \/ Streams!Disconnect(c) \/ Streams!StreamEnds(c)

StatusNext ==
  \/ ServerStep /\ UNCHANGED lastSeen
  \/ \E c \in Client : Draw(c) \/ Other(c)

StatusSpec == StatusInit /\ [][StatusNext]_statusVars

(* While the process lives, tonic polls the streams of clients that keep   *)
(* reading.                                                                *)
StatusFairSpec ==
  StatusSpec /\ \A c \in Client : WF_statusVars(Alive /\ Draw(c))
----------------------------------------------------------------------------
(* c has drawn the newest summary the server has published. *)
UpToDate(c) == pos[c] > 0 /\ pos[c] = watch.version

(* venue_status *)
Up(c) == IF pos[c] = 0 THEN {} ELSE Present(shown[c])
StaleFor(c, v) == now - lastSeen[c][v]

(* The venues the last merge took, and when it was made. *)
LastMerge == CHOOSE t \in {venues[v].lastUpdate : v \in DOMAIN venues} :
               \A v \in DOMAIN venues : venues[v].lastUpdate <= t
Merged == DOMAIN FreshBooksAt(LastMerge)

(* The guess from the levels errs on one side only: a client that is up to *)
(* date never shows a venue as up that the aggregator left out of its last *)
(* merge, through restreams, duplicates that send no frame and venues that *)
(* come and go (a merge with an empty side leaves the older frame).        *)
NoVenueUpInError ==
  \A c \in Client :
    UpToDate(c) => Up(c) \subseteq Merged \/ MergeBooks(FreshBooksAt(LastMerge)) = NoSummary
============================================================================
