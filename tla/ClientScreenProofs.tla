-------------------------- MODULE ClientScreenProofs --------------------------
(***************************************************************************)
(* From the watch channel to the terminal: the streams of BookStream keep  *)
(* their promise for any number of clients, summaries and publications, a  *)
(* level's cell is painted right for every width, place of the             *)
(* foreground's boundary and pair of amounts, and the viewer around both   *)
(* paints as LevelCell does, whatever becomes of its server.               *)
(***************************************************************************)
EXTENDS ClientScreen, SequenceTheorems, TLAPS

LEMMA WatchTyped ==
  ASSUME TypeOK
  PROVE  /\ watch.version \in 0..MaxVersion
         /\ watch.value \in Summary \cup {NoSummary}
BY DEF TypeOK

(* One more entry at the end of the log moves none of the others. *)
LEMMA Appended ==
  ASSUME NEW l \in Seq(Summary), NEW s \in Summary
  PROVE  /\ Append(l, s) \in Seq(Summary)
         /\ Len(Append(l, s)) = Len(l) + 1
         /\ Append(l, s)[Len(l) + 1] = s
         /\ \A i \in 1..Len(l) : Append(l, s)[i] = l[i]
         /\ Append(l, s) # <<>>
OBVIOUS

(* The state of the streams is well typed. *)
THEOREM TypeCorrect == Spec => []TypeOK
<1>1. Init => TypeOK
  BY BookStreamAssumption DEF Init, TypeOK
<1>2. TypeOK /\ [Next]_vars => TypeOK'
  <2> SUFFICES ASSUME TypeOK, [Next]_vars
               PROVE  TypeOK'
    OBVIOUS
  <2>1. ASSUME NEW summary \in Summary, Publish(summary)
        PROVE  TypeOK'
    <3>1. watch' \in [value : Summary \cup {NoSummary}, version : 0..MaxVersion]
      BY <2>1, WatchTyped, BookStreamAssumption DEF Publish
    <3>2. log' \in Seq(Summary)
      BY <2>1, Appended DEF Publish, TypeOK
    <3> QED BY <2>1, <3>1, <3>2 DEF Publish, given, TypeOK
  <2>2. CASE SenderDropped
    BY <2>2 DEF SenderDropped, given, TypeOK
  <2>3. ASSUME NEW c \in Client, Subscribe(c)
        PROVE  TypeOK'
    BY <2>3, BookStreamAssumption DEF Subscribe, channel, given, TypeOK
  <2>4. ASSUME NEW c \in Client, Disconnect(c)
        PROVE  TypeOK'
    BY <2>4 DEF Disconnect, channel, given, TypeOK
  <2>5. ASSUME NEW c \in Client, Poll(c)
        PROVE  TypeOK'
    <3>1. UNCHANGED given \/ (/\ pos' = [pos EXCEPT ![c] = watch.version]
                              /\ shown' = [shown EXCEPT ![c] = watch.value]
                              /\ watch.value # NoSummary)
      BY <2>5 DEF Poll, Deliver
    <3>2. pos' \in [Client -> 0..MaxVersion] /\ shown' \in [Client -> Summary \cup {<<>>}]
      BY <3>1, WatchTyped DEF given, TypeOK
    <3>3. /\ stream' = [stream EXCEPT ![c] = "changed"]
          /\ seen' = [seen EXCEPT ![c] = watch.version]
          /\ UNCHANGED <<watch, senderAlive, log>>
      BY <2>5 DEF Poll, channel
    <3> QED BY <3>2, <3>3, WatchTyped DEF TypeOK
  <2>6. ASSUME NEW c \in Client, StreamEnds(c)
        PROVE  TypeOK'
    BY <2>6 DEF StreamEnds, channel, given, TypeOK
  <2>7. CASE UNCHANGED vars
    BY <2>7 DEF vars, channel, given, TypeOK
  <2> QED BY <2>1, <2>2, <2>3, <2>4, <2>5, <2>6, <2>7 DEF Next
<1> QED BY <1>1, <1>2, PTL DEF Spec

(* A client that is not the one acting keeps its invariant as long as the  *)
(* channel stays as it is.                                                 *)
LEMMA Bystander ==
  ASSUME NEW d \in Client, ClientInv(d), UNCHANGED channel,
         stream'[d] = stream[d], seen'[d] = seen[d],
         pos'[d] = pos[d], shown'[d] = shown[d]
  PROVE  ClientInv(d)'
BY DEF ClientInv, channel

(* Watch, log, and every client's position agree. *)
THEOREM StreamInvariant == Spec => []StreamInv
<1>1. Init => StreamInv
  BY DEF Init, StreamInv, WatchInv, ClientInv
<1>2. TypeOK /\ StreamInv /\ [Next]_vars => StreamInv'
  <2> SUFFICES ASSUME TypeOK, StreamInv, [Next]_vars
               PROVE  StreamInv'
    OBVIOUS
  <2>1. ASSUME NEW summary \in Summary, Publish(summary)
        PROVE  StreamInv'
    <3>1. /\ log' = Append(log, summary) /\ log \in Seq(Summary)
          /\ watch' = [value |-> summary, version |-> watch.version + 1]
          /\ senderAlive
          /\ UNCHANGED <<senderAlive, stream, seen, pos, shown>>
      BY <2>1 DEF Publish, given, TypeOK
    <3>2. WatchInv'
      BY <3>1, Appended DEF StreamInv, WatchInv
    <3>3. ASSUME NEW c \in Client
          PROVE  ClientInv(c)'
      <4>1. ClientInv(c) /\ pos[c] \in Nat /\ seen[c] \in Nat
        BY DEF StreamInv, TypeOK
      <4>2. stream[c] # "ended"
        BY <3>1, <4>1 DEF ClientInv
      <4>3. Len(log') = Len(log) + 1 /\ Len(log) \in Nat
        BY <3>1, Appended
      <4>4. pos[c] # 0 => log'[pos[c]] = log[pos[c]]
        BY <3>1, <4>1, Appended DEF ClientInv
      <4> QED BY <3>1, <4>1, <4>2, <4>3, <4>4 DEF ClientInv
    <3> QED BY <3>2, <3>3 DEF StreamInv
  <2>2. CASE SenderDropped
    <3>1. WatchInv'
      BY <2>2 DEF SenderDropped, StreamInv, WatchInv
    <3>2. ASSUME NEW c \in Client
          PROVE  ClientInv(c)'
      BY <2>2 DEF SenderDropped, given, StreamInv, ClientInv
    <3> QED BY <3>1, <3>2 DEF StreamInv
  <2>3. ASSUME NEW c \in Client,
               Subscribe(c) \/ Disconnect(c) \/ Poll(c) \/ StreamEnds(c)
        PROVE  StreamInv'
    <3>1. UNCHANGED channel
      BY <2>3 DEF Subscribe, Disconnect, Poll, StreamEnds
    <3>2. WatchInv'
      BY <3>1 DEF channel, StreamInv, WatchInv
    <3>3. ASSUME NEW d \in Client, d # c
          PROVE  ClientInv(d)'
      <4>1. /\ stream'[d] = stream[d] /\ seen'[d] = seen[d]
            /\ pos'[d] = pos[d] /\ shown'[d] = shown[d]
        BY <2>3, <3>3 DEF Subscribe, Disconnect, Poll, StreamEnds, Deliver, given, TypeOK
      <4> QED BY <3>1, <4>1, Bystander DEF StreamInv
    <3>4. ClientInv(c)'
      <4> USE DEF channel, given
      <4>1. ClientInv(c) /\ WatchInv /\ Len(log) \in Nat /\ pos[c] \in Nat /\ seen[c] \in Nat
        BY DEF StreamInv, TypeOK
      <4>2. CASE Subscribe(c)
        BY <4>1, <4>2 DEF Subscribe, ClientInv, TypeOK
      <4>3. CASE Disconnect(c)
        BY <4>1, <4>3 DEF Disconnect, ClientInv, TypeOK
      <4>4. CASE StreamEnds(c)
        BY <4>1, <4>4 DEF StreamEnds, Unseen, ClientInv, WatchInv, TypeOK
      <4>5. CASE Poll(c)
        <5>1. stream'[c] = "changed" /\ seen'[c] = Len(log) /\ log' = log
          BY <4>1, <4>5 DEF Poll, WatchInv, TypeOK
        <5>2. CASE log = <<>>
          <6>1. Len(log) = 0 /\ UNCHANGED given
            BY <4>1, <4>5, <5>2 DEF Poll, Deliver, WatchInv
          <6> QED BY <4>1, <5>1, <6>1 DEF ClientInv
        <5>3. CASE log # <<>>
          <6>1. Len(log) > 0 /\ log[Len(log)] \in Summary
            BY <5>3 DEF TypeOK
          <6>2. watch.value = log[Len(log)] /\ watch.value # NoSummary /\ watch.version = Len(log)
            BY <4>1, <5>3, <6>1, BookStreamAssumption DEF WatchInv
          <6>3. pos'[c] = Len(log) /\ shown'[c] = log[Len(log)]
            BY <4>5, <6>2 DEF Poll, Deliver, TypeOK
          <6> QED BY <4>1, <5>1, <6>1, <6>3 DEF ClientInv
        <5> QED BY <5>2, <5>3
      <4> QED BY <2>3, <4>2, <4>3, <4>4, <4>5
    <3> QED BY <3>2, <3>3, <3>4 DEF StreamInv
  <2>4. CASE UNCHANGED vars
    BY <2>4 DEF vars, channel, given, StreamInv, WatchInv, ClientInv
  <2> QED BY <2>1, <2>2, <2>3, <2>4 DEF Next
<1> QED BY <1>1, <1>2, TypeCorrect, PTL DEF Spec

(* A polled stream has been given everything it has seen. *)
THEOREM NothingIsWithheld == Spec => []NothingWithheld
<1>1. StreamInv => NothingWithheld
  BY DEF StreamInv, ClientInv, NothingWithheld
<1> QED BY <1>1, StreamInvariant, PTL

(* An ended stream's client has the last summary ever published. *)
THEOREM LastSummaryDelivered == Spec => []LastSummaryReachesEveryone
<1>1. TypeOK /\ StreamInv => LastSummaryReachesEveryone
  <2> SUFFICES ASSUME TypeOK, StreamInv, NEW c \in Client, stream[c] = "ended", log # <<>>
               PROVE  shown[c] = log[Len(log)]
    BY DEF LastSummaryReachesEveryone
  <2>1. Len(log) > 0 /\ Len(log) \in Nat
    BY DEF TypeOK
  <2> QED BY <2>1 DEF StreamInv, ClientInv
<1> QED BY <1>1, TypeCorrect, StreamInvariant, PTL

(* The view of one client, and of all but one. *)
LEMMA ViewOf ==
  ASSUME NEW c \in Client
  PROVE  View[c] = CASE stream[c] = "first" -> "new"
                     [] stream[c] = "changed" -> IF seen[c] = 0 THEN "new" ELSE "live"
                     [] OTHER -> stream[c]
BY DEF View

LEMMA ViewOfOne ==
  ASSUME NEW c \in Client, NEW s, TypeOK,
         \A d \in Client \ {c} : stream'[d] = stream[d] /\ seen'[d] = seen[d],
         View'[c] = s
  PROVE  View' = [View EXCEPT ![c] = s]
<1>1. \A d \in Client \ {c} : View'[d] = View[d]
  BY DEF View
<1>2. View \in [Client -> {View[d] : d \in Client}] /\ View = [d \in Client |-> View[d]]
  BY DEF View
<1>3. View' = [d \in Client |-> View'[d]]
  BY DEF View
<1> QED BY <1>1, <1>2, <1>3

(* The streams implement LatestSummary, fairness aside: each client is     *)
(* shown published summaries only, never an older one than before, and     *)
(* loses none of the last when its stream ends.                            *)
THEOREM StreamsImplementLatestSummary == Spec => Abstract!Spec
<1>1. Init => Abstract!Init
  BY DEF Init, View, Abstract!Init
<1>2. TypeOK /\ StreamInv /\ [Next]_vars => [Abstract!Next]_Abstract!vars
  <2> SUFFICES ASSUME TypeOK, StreamInv, [Next]_vars
               PROVE  [Abstract!Next]_Abstract!vars
    OBVIOUS
  <2>1. ASSUME NEW summary \in Summary, Publish(summary)
        PROVE  Abstract!Next
    <3>1. View' = View
      BY <2>1 DEF Publish, View
    <3>2. Abstract!Publish
      BY <2>1, <3>1 DEF Publish, given, Abstract!Publish
    <3> QED BY <3>2 DEF Abstract!Next
  <2>2. CASE SenderDropped
    <3>1. View' = View
      BY <2>2 DEF SenderDropped, View
    <3>2. Abstract!Close
      BY <2>2, <3>1 DEF SenderDropped, given, Abstract!Close
    <3> QED BY <3>2 DEF Abstract!Next
  <2>3. ASSUME NEW c \in Client, Subscribe(c)
        PROVE  Abstract!Next
    <3>1. View'[c] = "new" /\ View[c] = "none"
      BY <2>3, ViewOf DEF Subscribe, View, TypeOK
    <3>2. View' = [View EXCEPT ![c] = "new"]
      BY <2>3, <3>1, ViewOfOne DEF Subscribe, TypeOK
    <3>3. Abstract!Join(c)
      BY <2>3, <3>1, <3>2 DEF Subscribe, channel, given, Abstract!Join
    <3> QED BY <3>3 DEF Abstract!Next
  <2>4. ASSUME NEW c \in Client, Disconnect(c)
        PROVE  Abstract!Next
    <3>1. View'[c] = "none" /\ View[c] # "none"
      BY <2>4, ViewOf DEF Disconnect, View, TypeOK
    <3>2. View' = [View EXCEPT ![c] = "none"]
      BY <2>4, <3>1, ViewOfOne DEF Disconnect, TypeOK
    <3>3. Abstract!Leave(c)
      BY <2>4, <3>1, <3>2 DEF Disconnect, channel, given, Abstract!Leave
    <3> QED BY <3>3 DEF Abstract!Next
  <2>5. ASSUME NEW c \in Client, Poll(c)
        PROVE  Abstract!Next \/ UNCHANGED Abstract!vars
    <3>1. /\ stream' = [stream EXCEPT ![c] = "changed"]
          /\ seen' = [seen EXCEPT ![c] = Len(log)]
          /\ UNCHANGED <<watch, senderAlive, log>>
          /\ Deliver(c) /\ Unseen(c)
      BY <2>5 DEF Poll, channel, StreamInv, WatchInv
    <3>2. /\ stream'[c] = "changed" /\ seen'[c] = Len(log)
          /\ \A d \in Client \ {c} : stream'[d] = stream[d] /\ seen'[d] = seen[d]
      BY <3>1 DEF TypeOK
    <3>3. Len(log) \in Nat /\ pos[c] \in Nat /\ seen[c] \in Nat /\ ClientInv(c) /\ WatchInv
      BY DEF StreamInv, TypeOK
    <3>4. CASE log = <<>>
      <4>1. UNCHANGED given /\ Len(log) = 0
        BY <3>1, <3>3, <3>4 DEF Deliver, WatchInv
      <4>2. View[c] = "new" /\ View'[c] = "new"
        BY <3>1, <3>2, <3>3, <4>1 DEF View, Unseen, ClientInv, WatchInv
      <4>3. View' = [View EXCEPT ![c] = "new"]
        BY <3>2, <4>2, ViewOfOne
      <4>4. View' = View
        BY <4>2, <4>3 DEF View
      <4> QED BY <3>1, <4>1, <4>4 DEF given, Abstract!vars
    <3>5. CASE log # <<>>
      <4>1. Len(log) \in 1..Len(log) /\ log[Len(log)] \in Summary
        BY <3>5 DEF TypeOK
      <4>2. watch.value = log[Len(log)] /\ watch.value # NoSummary /\ watch.version = Len(log)
        BY <3>3, <3>5, <4>1, BookStreamAssumption DEF WatchInv
      <4>3. pos' = [pos EXCEPT ![c] = Len(log)] /\ shown' = [shown EXCEPT ![c] = log[Len(log)]]
        BY <3>1, <4>2 DEF Deliver
      <4>4. View'[c] = "live"
        BY <3>2, <4>1 DEF View
      <4>5. View' = [View EXCEPT ![c] = "live"]
        BY <3>2, <4>4, ViewOfOne
      <4>6. \/ View[c] = "new" /\ Len(log) >= pos[c]
            \/ View[c] = "live" /\ Len(log) > pos[c]
        BY <3>1, <3>3, <4>2 DEF View, Unseen, ClientInv
      <4>7. Abstract!Show(c, Len(log))
        BY <3>1, <4>3, <4>5, <4>6 DEF Abstract!Show
      <4> QED BY <4>1, <4>7 DEF Abstract!Next
    <3> QED BY <3>4, <3>5
  <2>6. ASSUME NEW c \in Client, StreamEnds(c)
        PROVE  Abstract!Next
    <3>1. Len(log) \in Nat /\ pos[c] \in Nat /\ seen[c] \in Nat /\ ClientInv(c) /\ WatchInv
      BY DEF StreamInv, TypeOK
    <3>2. View'[c] = "ended"
      BY <2>6 DEF StreamEnds, View, TypeOK
    <3>3. View' = [View EXCEPT ![c] = "ended"]
      BY <2>6, <3>2, ViewOfOne DEF StreamEnds, TypeOK
    <3>4. stream[c] = "changed" /\ seen[c] = Len(log) /\ pos[c] = Len(log)
      BY <2>6, <3>1 DEF StreamEnds, Unseen, ClientInv, WatchInv
    <3>5. \/ View[c] = "live" /\ pos[c] = Len(log)
          \/ View[c] = "new" /\ log = <<>>
      <4>1. Len(log) = 0 => log = <<>>
        BY DEF TypeOK
      <4> QED BY <3>4, <4>1 DEF View
    <3>6. Abstract!End(c)
      BY <2>6, <3>3, <3>5 DEF StreamEnds, channel, given, Abstract!End
    <3> QED BY <3>6 DEF Abstract!Next
  <2>7. CASE UNCHANGED vars
    BY <2>7 DEF vars, channel, given, View, Abstract!vars
  <2> QED BY <2>1, <2>2, <2>3, <2>4, <2>5, <2>6, <2>7 DEF Next
<1> QED BY <1>1, <1>2, TypeCorrect, StreamInvariant, PTL DEF Spec, Abstract!Spec
----------------------------------------------------------------------------
(* The cell of a level. *)

(* round(amount / max * Width) needs no clamp: it is a length of the cell. *)
LEMMA FillFits ==
  ASSUME NEW max \in Nat, NEW amount \in 0..max
  PROVE  FillLen(amount, max) \in 0..Width
<1>1. CASE max = 0
  BY <1>1, LevelCellAssumption DEF FillLen
<1>2. CASE max > 0
  <2> DEFINE x == 2 * amount * Width + max
             y == 2 * max
  <2>1. amount * Width \in Nat /\ amount * Width <= max * Width
    BY LevelCellAssumption
  <2>2. x \in Nat /\ y \in Nat \ {0} /\ x < y * (Width + 1)
    BY <1>2, <2>1, LevelCellAssumption
  <2> HIDE DEF x, y
  <2>3. x \div y \in 0..Width
    BY <2>2, LevelCellAssumption
  <2> QED BY <1>2, <2>3 DEF FillLen, x, y
<1> QED BY <1>1, <1>2

LEMMA FillsFit == Fills \subseteq 0..Width
<1> SUFFICES ASSUME NEW length \in Fills PROVE length \in 0..Width
  OBVIOUS
<1>1. PICK max \in 0..MaxAmount : \E amount \in 0..max : length = FillLen(amount, max)
  BY DEF Fills
<1>2. PICK amount \in 0..max : length = FillLen(amount, max)
  BY <1>1
<1>3. max \in Nat
  BY LevelCellAssumption
<1> QED BY <1>2, <1>3, FillFits

LEMMA InitCell == CellInit => CellInv
BY FillsFit, LevelCellAssumption DEF CellInit, CellInv, EveryColumnOnce

LEMMA StartsCell ==
  ASSUME NEW from \in {"left", "right"}, StartCell(from)
  PROVE  CellInv'
BY FillsFit, LevelCellAssumption DEF StartCell, CellInv, EveryColumnOnce

(* No boundary lies inside a window: its colours are those of each column. *)
LEMMA OneColourAWindow ==
  ASSUME CellInv, NEW end \in Boundaries, EndsWindow(end), NEW i \in at + 1..end
  PROVE  Colours(at) = [fg |-> IF i <= Split THEN "price" ELSE "dim",
                        bg |-> IF Shaded(i) THEN "bar" ELSE "none"]
<1>1. end \in 0..Width
  BY LevelCellAssumption DEF CellInv, Boundaries, BarStart, BarEnd
<1>2. at < Split <=> i <= Split
  BY <1>1, LevelCellAssumption DEF CellInv, EndsWindow, Boundaries
<1>3. BarStart <= at /\ at < BarEnd <=> Shaded(i)
  BY <1>1, LevelCellAssumption
     DEF CellInv, EndsWindow, Boundaries, BarStart, BarEnd, Shaded
<1> QED BY <1>2, <1>3 DEF Colours

LEMMA WindowCell ==
  ASSUME CellInv, NEW end \in Boundaries, Window(end)
  PROVE  CellInv'
<1> DEFINE piece == [i \in 1..end - at |-> Colours(at)]
           Pair == [fg : {"price", "dim"}, bg : {"bar", "none"}]
<1>1. end \in 0..Width /\ at \in 0..Width /\ at < end
  BY LevelCellAssumption
     DEF CellInv, Window, EndsWindow, Boundaries, BarStart, BarEnd
<1>2. piece \in Seq(Pair) /\ Len(piece) = end - at
  <2>1. Colours(at) \in Pair
    BY DEF Colours
  <2>2. end - at \in Nat
    BY <1>1
  <2>3. piece \in [1..end - at -> Pair]
    BY <2>1
  <2> HIDE DEF piece, Pair
  <2> QED BY <2>2, <2>3
<1>3. out \in Seq(Pair) /\ Len(out) = at /\ out' = out \o piece /\ at' = end
  BY DEF CellInv, EveryColumnOnce, Window
<1> HIDE DEF piece, Pair
<1>4. out' \in Seq(Pair) /\ Len(out') = end
  <2>1. out \o piece \in Seq(Pair) /\ Len(out \o piece) = Len(out) + Len(piece)
    BY <1>2, <1>3, ConcatProperties
  <2> QED BY <1>1, <1>2, <1>3, <2>1
<1>5. ASSUME NEW i \in 1..end
      PROVE  out'[i] = [fg |-> IF i <= Split THEN "price" ELSE "dim",
                        bg |-> IF Shaded(i) THEN "bar" ELSE "none"]
  <2>1. CASE i <= at
    <3>1. out'[i] = out[i]
      BY <1>1, <1>2, <1>3, <2>1
    <3> QED BY <1>1, <2>1, <3>1 DEF CellInv, EveryColumnOnce
  <2>2. CASE i > at
    <3>1. out'[i] = piece[i - at]
      BY <1>1, <1>2, <1>3, <2>2
    <3>2. piece[i - at] = Colours(at)
      BY <1>1, <2>2 DEF piece
    <3>3. i \in at + 1..end
      BY <1>1, <2>2
    <3> QED BY <3>1, <3>2, <3>3, OneColourAWindow DEF Window
  <2> QED BY <1>1, <2>1, <2>2
<1>6. side' = side /\ fill' = fill
  BY DEF Window
<1>7. EveryColumnOnce'
  BY <1>3, <1>4, <1>5, <1>6 DEF EveryColumnOnce, Shaded
<1> QED BY <1>1, <1>3, <1>4, <1>6, <1>7 DEF CellInv, Pair

(* From anywhere but the right edge there is a next boundary. *)
LEMMA NextBoundary ==
  ASSUME CellInv
  PROVE  WholeCell
<1>1. Boundaries \subseteq 0..Width /\ Width \in Boundaries
  BY LevelCellAssumption DEF CellInv, Boundaries, BarStart, BarEnd
<1>2. CASE at = Width
  BY <1>1, <1>2, LevelCellAssumption DEF WholeCell, EndsWindow
<1>3. CASE at < Width
  <2>1. \E end \in Boundaries : at < end /\ \A b \in Boundaries : b <= at \/ end <= b
    <3> DEFINE Least(x, y) == IF at < x /\ x <= y THEN x ELSE y
               end == Least(0, Least(Split, Least(BarStart, Least(BarEnd, Width))))
    <3>1. BarStart \in 0..Width /\ BarEnd \in 0..Width
      BY <1>1 DEF Boundaries
    <3>2. end \in Boundaries
      BY DEF Boundaries
    <3>3. at < end
      BY <1>3
    <3>4. \A b \in Boundaries : b <= at \/ end <= b
      BY <1>3, <3>1, LevelCellAssumption DEF Boundaries, CellInv
    <3> HIDE DEF end
    <3> QED BY <3>2, <3>3, <3>4
  <2>2. at # Width
    BY <1>3, LevelCellAssumption DEF CellInv
  <2> QED BY <2>1, <2>2 DEF WholeCell, EndsWindow
<1> QED BY <1>2, <1>3, LevelCellAssumption DEF CellInv

LEMMA CellInvariant == CellSpec => []CellInv
<1>1. CellInv /\ [CellNext]_cellVars => CellInv'
  <2> SUFFICES ASSUME CellInv, [CellNext]_cellVars PROVE CellInv'
    OBVIOUS
  <2>1. CASE CellNext
    BY <2>1, WindowCell, StartsCell DEF CellNext
  <2>2. CASE UNCHANGED cellVars
    BY <2>2 DEF cellVars, CellInv, EveryColumnOnce, Shaded
  <2> QED BY <2>1, <2>2
<1> QED BY <1>1, InitCell, PTL DEF CellSpec

(* shade_cell writes every column once and in its colours, for every width *)
(* of cell and bar.                                                        *)
THEOREM ColumnsPainted == CellSpec => []EveryColumnOnce
<1>1. CellInv => EveryColumnOnce
  BY DEF CellInv
<1> QED BY <1>1, CellInvariant, PTL

(* shade_cell's windows end at the right edge and nowhere before it. *)
THEOREM CellsAreWhole == CellSpec => []WholeCell
BY CellInvariant, NextBoundary, PTL
----------------------------------------------------------------------------
(* The viewer. *)

(* Every step of the viewer, its server and the network is a step of the   *)
(* cell or leaves it alone.                                                *)
THEOREM ScreenPaintsCells == ScreenSpec => CellSpec
<1>1. ScreenInit => CellInit
  BY DEF ScreenInit
<1>2. [ScreenNext]_screenVars => [CellNext]_cellVars
  BY DEF ScreenNext, StartsFrame, Paints, PaintsWindow, NextCell, Writes, WriteFails,
         Reconnects, Loops, Elsewhere, CellNext, cellVars, screenVars
<1> QED
  BY <1>1, <1>2, PTL DEF ScreenSpec, CellSpec

(* The cells on the screen are painted right through every restart of the  *)
(* server and every frame that could not be written.                       *)
THEOREM ScreenIsPaintedRight == ScreenSpec => [](EveryColumnOnce /\ WholeCell)
<1> QED
  BY ScreenPaintsCells, ColumnsPainted, CellsAreWhole, PTL
===============================================================================
