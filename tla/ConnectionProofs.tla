--------------------------- MODULE ConnectionProofs ---------------------------
(***************************************************************************)
(* A connection of a feed, for any bounds on what a proxy sends and on the *)
(* levels of a message: the tunnel begins with the target's first byte,    *)
(* and `parse` returns whole books or none.                                *)
(***************************************************************************)
EXTENDS Connection, TLAPS

Line == {"200", "407", "header", "blank", "data"}

(* Everything the proxy has sent, read or not. *)
Sent == buf \o reader \o wire

(* The answer is a status line, header lines and a blank line, in this     *)
(* order; what follows it is data, and only a refusal is followed by any   *)
(* before the client has read it.                                          *)
Answered(sent, k) ==
  /\ k \in 2..Len(sent)
  /\ sent[1] \in {"200", "407"}
  /\ \A i \in 2..(k - 1) : sent[i] = "header"
  /\ sent[k] = "blank"
  /\ \A i \in (k + 1)..Len(sent) : sent[i] = "data"
  /\ sent[1] = "200" => k = Len(sent)

(* What may have been sent when `next` is to follow and `read` lines have  *)
(* been read: the blank line is not among these.                           *)
Shaped(sent, next, read) ==
  \/ next = "status" /\ sent = <<>>
  \/ /\ next = "headers"
     /\ sent # <<>> /\ sent[1] \in {"200", "407"}
     /\ \A i \in 2..Len(sent) : sent[i] = "header"
  \/ next = "data" /\ \E k \in (read + 1)..Len(sent) : Answered(sent, k)

(* What TunnelStartsClean needs to be inductive. *)
TunnelInv ==
  /\ answer \in {"status", "headers", "data"}
  /\ wire \in Seq(Line) /\ reader \in Seq(Line) /\ buf \in Seq(Line)
  /\ phase \in {"start", "direct", "dial"} =>
       answer = "status" /\ wire = <<>> /\ reader = <<>> /\ buf = <<>>
  /\ phase = "headers" => Shaped(Sent, answer, Len(buf))
  /\ phase = "tunnel" =>
       answer = "data" /\ reader = <<>> /\ \A i \in DOMAIN wire : wire[i] = "data"

(* The parts of what was sent. *)
LEMMA SentParts ==
  ASSUME NEW a \in Seq(Line), NEW b \in Seq(Line), NEW c \in Seq(Line)
  PROVE  LET s == a \o b \o c
         IN  /\ s \in Seq(Line)
             /\ Len(s) = Len(a) + Len(b) + Len(c)
             /\ \A i \in 1..Len(a) : s[i] = a[i]
             /\ \A i \in 1..Len(b) : s[Len(a) + i] = b[i]
             /\ \A i \in 1..Len(c) : s[Len(a) + Len(b) + i] = c[i]
<1>1. /\ a \o b \in Seq(Line) /\ Len(a \o b) = Len(a) + Len(b)
      /\ \A i \in 1..Len(a) : (a \o b)[i] = a[i]
      /\ \A i \in 1..Len(b) : (a \o b)[Len(a) + i] = b[i]
  OBVIOUS
<1> DEFINE d == a \o b
<1>2. d \in Seq(Line)
  BY <1>1
<1> HIDE DEF d
<1>3. /\ d \o c \in Seq(Line) /\ Len(d \o c) = Len(d) + Len(c)
      /\ \A i \in 1..Len(d) : (d \o c)[i] = d[i]
      /\ \A i \in 1..Len(c) : (d \o c)[Len(d) + i] = c[i]
  BY <1>2
<1>4. Len(a) \in Nat /\ Len(b) \in Nat /\ Len(d) = Len(a) + Len(b)
  BY <1>1 DEF d
<1>5. \A i \in 1..Len(a) : d[i] = a[i] /\ i \in 1..Len(d)
  BY <1>1, <1>4 DEF d
<1>6. \A i \in 1..Len(b) : d[Len(a) + i] = b[i] /\ Len(a) + i \in 1..Len(d)
  BY <1>1, <1>4 DEF d
<1>7. /\ d \o c \in Seq(Line) /\ Len(d \o c) = Len(a) + Len(b) + Len(c)
      /\ \A i \in 1..Len(a) : (d \o c)[i] = a[i]
      /\ \A i \in 1..Len(b) : (d \o c)[Len(a) + i] = b[i]
      /\ \A i \in 1..Len(c) : (d \o c)[Len(a) + Len(b) + i] = c[i]
  BY <1>3, <1>4, <1>5, <1>6
<1> QED
  BY <1>7 DEF d

(* s is a, then b, then c. *)
Parts(s, a, b, c) ==
  /\ s \in Seq(Line) /\ Len(s) = Len(a) + Len(b) + Len(c)
  /\ \A i \in 1..Len(a) : s[i] = a[i]
  /\ \A i \in 1..Len(b) : s[Len(a) + i] = b[i]
  /\ \A i \in 1..Len(c) : s[Len(a) + Len(b) + i] = c[i]

LEMMA SentOfParts ==
  ASSUME NEW a \in Seq(Line), NEW b \in Seq(Line), NEW c \in Seq(Line), NEW s,
         Parts(s, a, b, c)
  PROVE  s = a \o b \o c
<1>0. /\ s \in Seq(Line) /\ Len(s) = Len(a) + Len(b) + Len(c)
      /\ \A i \in 1..Len(a) : s[i] = a[i]
      /\ \A i \in 1..Len(b) : s[Len(a) + i] = b[i]
      /\ \A i \in 1..Len(c) : s[Len(a) + Len(b) + i] = c[i]
  BY DEF Parts
<1> DEFINE t == a \o b \o c
<1>1. /\ t \in Seq(Line) /\ Len(t) = Len(a) + Len(b) + Len(c)
      /\ \A i \in 1..Len(a) : t[i] = a[i]
      /\ \A i \in 1..Len(b) : t[Len(a) + i] = b[i]
      /\ \A i \in 1..Len(c) : t[Len(a) + Len(b) + i] = c[i]
  BY SentParts
<1> HIDE DEF t
<1>2. ASSUME NEW i \in 1..Len(s) PROVE s[i] = t[i]
  <2>1. Len(a) \in Nat /\ Len(b) \in Nat /\ Len(c) \in Nat
    OBVIOUS
  <2>2. CASE i \in 1..Len(a)
    BY <1>0, <1>1, <2>2
  <2>3. CASE i - Len(a) \in 1..Len(b)
    <3>1. i = Len(a) + (i - Len(a))
      BY <2>1
    <3> QED
      BY <1>0, <1>1, <2>3, <3>1
  <2>4. CASE i - (Len(a) + Len(b)) \in 1..Len(c)
    <3>1. i = Len(a) + Len(b) + (i - (Len(a) + Len(b)))
      BY <2>1
    <3> QED
      BY <1>0, <1>1, <2>4, <3>1
  <2> QED
    BY <1>0, <2>1, <2>2, <2>3, <2>4
<1>3. s = t
  BY <1>0, <1>1, <1>2
<1> QED
  BY <1>3 DEF t

(* Reading moves lines along; nothing is lost or put in another order.     *)
LEMMA FillMoves ==
  ASSUME TunnelInv, Tunnel!Fill
  PROVE  /\ wire' \in Seq(Line) /\ reader' \in Seq(Line)
         /\ Sent' = Sent
<1>1. PICK n \in 1..Len(wire) :
        /\ reader' = SubSeq(wire, 1, n)
        /\ wire' = SubSeq(wire, n + 1, Len(wire))
  BY DEF Tunnel!Fill
<1>2. wire \in Seq(Line) /\ buf \in Seq(Line) /\ reader = <<>> /\ reader \in Seq(Line) /\ buf' = buf
  BY DEF TunnelInv, Tunnel!Fill
<1>3. /\ reader' \in Seq(Line) /\ Len(reader') = n /\ \A i \in 1..n : reader'[i] = wire[i]
  BY <1>1, <1>2
<1>4. /\ wire' \in Seq(Line) /\ Len(wire') = Len(wire) - n
      /\ \A i \in 1..(Len(wire) - n) : wire'[i] = wire[n + i]
  BY <1>1, <1>2
<1>5. /\ Sent \in Seq(Line) /\ Len(Sent) = Len(buf) + Len(wire)
      /\ \A i \in 1..Len(buf) : Sent[i] = buf[i]
      /\ \A i \in 1..Len(wire) : Sent[Len(buf) + i] = wire[i]
  BY <1>2, SentParts DEF Sent
<1>6. Len(wire) \in Nat /\ Len(buf) \in Nat
  BY <1>2
<1>7. \A i \in 1..n : Sent[Len(buf) + i] = reader'[i]
  <2> SUFFICES ASSUME NEW i \in 1..n
               PROVE  Sent[Len(buf) + i] = reader'[i]
    OBVIOUS
  <2>1. i \in 1..Len(wire)
    BY <1>6
  <2> QED
    BY <1>3, <1>5, <2>1
<1>8. \A i \in 1..(Len(wire) - n) : Sent[Len(buf) + n + i] = wire'[i]
  <2> SUFFICES ASSUME NEW i \in 1..(Len(wire) - n)
               PROVE  Sent[Len(buf) + n + i] = wire'[i]
    OBVIOUS
  <2>1. n + i \in 1..Len(wire) /\ Len(buf) + (n + i) = Len(buf) + n + i
    BY <1>6
  <2> QED
    BY <1>4, <1>5, <2>1
<1>9. Sent = buf \o reader' \o wire'
  <2>1. Len(Sent) = Len(buf) + Len(reader') + Len(wire')
    BY <1>3, <1>4, <1>5, <1>6
  <2>2. Parts(Sent, buf, reader', wire')
    BY <1>3, <1>4, <1>5, <1>7, <1>8, <2>1 DEF Parts
  <2> QED
    BY <1>2, <1>3, <1>4, <2>2, SentOfParts
<1> QED
  BY <1>2, <1>3, <1>4, <1>9 DEF Sent

LEMMA ReadLineMoves ==
  ASSUME TunnelInv, Tunnel!ReadLine
  PROVE  /\ buf' \in Seq(Line) /\ reader' \in Seq(Line)
         /\ Sent' = Sent
         /\ Len(buf') = Len(buf) + 1 /\ Len(buf') <= Len(Sent)
         /\ buf'[1] = Sent[1] /\ buf'[Len(buf')] = Sent[Len(buf')]
         /\ Len(buf') = Len(Sent) => reader' = <<>> /\ wire' = <<>>
<1>1. /\ wire \in Seq(Line) /\ buf \in Seq(Line) /\ reader \in Seq(Line) /\ reader # <<>>
      /\ buf' = Append(buf, Head(reader)) /\ reader' = Tail(reader) /\ wire' = wire
  BY DEF TunnelInv, Tunnel!ReadLine, Tunnel!peer
<1>2. /\ buf' \in Seq(Line) /\ Len(buf') = Len(buf) + 1 /\ buf'[Len(buf) + 1] = reader[1]
      /\ \A i \in 1..Len(buf) : buf'[i] = buf[i]
  BY <1>1
<1>3. /\ reader' \in Seq(Line) /\ Len(reader') = Len(reader) - 1
      /\ \A i \in 1..(Len(reader) - 1) : reader'[i] = reader[i + 1]
  BY <1>1
<1>4. /\ Sent \in Seq(Line) /\ Len(Sent) = Len(buf) + Len(reader) + Len(wire)
      /\ \A i \in 1..Len(buf) : Sent[i] = buf[i]
      /\ \A i \in 1..Len(reader) : Sent[Len(buf) + i] = reader[i]
      /\ \A i \in 1..Len(wire) : Sent[Len(buf) + Len(reader) + i] = wire[i]
  BY <1>1, SentParts DEF Sent
<1>5. Len(wire) \in Nat /\ Len(buf) \in Nat /\ Len(reader) \in Nat \ {0}
  BY <1>1
<1>6. \A i \in 1..Len(buf') : Sent[i] = buf'[i]
  <2> SUFFICES ASSUME NEW i \in 1..Len(buf')
               PROVE  Sent[i] = buf'[i]
    OBVIOUS
  <2>1. CASE i \in 1..Len(buf)
    BY <1>2, <1>4, <2>1
  <2>2. CASE i = Len(buf) + 1
    BY <1>2, <1>4, <1>5, <2>2
  <2> QED
    BY <1>2, <1>5, <2>1, <2>2
<1>7. \A i \in 1..Len(reader') : Sent[Len(buf') + i] = reader'[i]
  <2> SUFFICES ASSUME NEW i \in 1..Len(reader')
               PROVE  Sent[Len(buf') + i] = reader'[i]
    OBVIOUS
  <2>1. i + 1 \in 1..Len(reader) /\ Len(buf') + i = Len(buf) + (i + 1)
    BY <1>2, <1>3, <1>5
  <2> QED
    BY <1>3, <1>4, <1>5, <2>1
<1>8. \A i \in 1..Len(wire') : Sent[Len(buf') + Len(reader') + i] = wire'[i]
  <2>1. Len(buf') + Len(reader') = Len(buf) + Len(reader)
    BY <1>2, <1>3, <1>5
  <2> QED
    BY <1>1, <1>4, <2>1
<1>9. Len(Sent) = Len(buf') + Len(reader') + Len(wire')
  BY <1>1, <1>2, <1>3, <1>4, <1>5
<1>10. Sent = buf' \o reader' \o wire'
  <2>1. Parts(Sent, buf', reader', wire')
    BY <1>4, <1>6, <1>7, <1>8, <1>9 DEF Parts
  <2>2. wire' \in Seq(Line)
    BY <1>1
  <2> QED
    BY <1>2, <1>3, <2>1, <2>2, SentOfParts
<1>11. Len(buf') = Len(Sent) => reader' = <<>> /\ wire' = <<>>
  <2> SUFFICES ASSUME Len(buf') = Len(Sent)
               PROVE  reader' = <<>> /\ wire' = <<>>
    OBVIOUS
  <2>1. Len(reader') = 0 /\ Len(wire') = 0
    BY <1>1, <1>3, <1>5, <1>9
  <2>2. wire' \in Seq(Line)
    BY <1>1
  <2> QED
    BY <1>3, <2>1, <2>2
<1>12. 1 \in 1..Len(buf') /\ Len(buf') \in 1..Len(buf')
  BY <1>2, <1>5
<1>13. Len(buf') <= Len(Sent)
  BY <1>1, <1>3, <1>5, <1>9
<1> QED
  BY <1>2, <1>3, <1>6, <1>10, <1>11, <1>12, <1>13 DEF Sent

(* A line that is sent comes after all others. *)
LEMMA SendAppends ==
  ASSUME TunnelInv, NEW line \in Line, wire' = Append(wire, line),
         UNCHANGED <<buf, reader>>
  PROVE  /\ wire' \in Seq(Line)
         /\ Sent \in Seq(Line) /\ Sent' \in Seq(Line)
         /\ Len(Sent') = Len(Sent) + 1
         /\ Sent'[Len(Sent) + 1] = line
         /\ \A i \in 1..Len(Sent) : Sent'[i] = Sent[i]
<1>1. wire \in Seq(Line) /\ buf \in Seq(Line) /\ reader \in Seq(Line)
  BY DEF TunnelInv
<1>2. /\ wire' \in Seq(Line) /\ Len(wire') = Len(wire) + 1 /\ wire'[Len(wire) + 1] = line
      /\ \A i \in 1..Len(wire) : wire'[i] = wire[i]
  BY <1>1
<1>3. /\ Sent \in Seq(Line) /\ Len(Sent) = Len(buf) + Len(reader) + Len(wire)
      /\ \A i \in 1..Len(buf) : Sent[i] = buf[i]
      /\ \A i \in 1..Len(reader) : Sent[Len(buf) + i] = reader[i]
      /\ \A i \in 1..Len(wire) : Sent[Len(buf) + Len(reader) + i] = wire[i]
  BY <1>1, SentParts DEF Sent
<1>4. Len(wire) \in Nat /\ Len(buf) \in Nat /\ Len(reader) \in Nat
  BY <1>1
<1> DEFINE s == Append(Sent, line)
<1>5. /\ s \in Seq(Line) /\ Len(s) = Len(Sent) + 1 /\ s[Len(Sent) + 1] = line
      /\ \A i \in 1..Len(Sent) : s[i] = Sent[i]
  BY <1>3
<1> HIDE DEF s
<1>6. /\ \A i \in 1..Len(buf) : s[i] = buf[i]
      /\ \A i \in 1..Len(reader) : s[Len(buf) + i] = reader[i]
  <2>1. \A i \in 1..Len(buf) : i \in 1..Len(Sent)
    BY <1>3, <1>4
  <2>2. \A i \in 1..Len(reader) : Len(buf) + i \in 1..Len(Sent)
    BY <1>3, <1>4
  <2> QED
    BY <1>3, <1>5, <2>1, <2>2
<1>7. \A i \in 1..Len(wire') : s[Len(buf) + Len(reader) + i] = wire'[i]
  <2> SUFFICES ASSUME NEW i \in 1..Len(wire')
               PROVE  s[Len(buf) + Len(reader) + i] = wire'[i]
    OBVIOUS
  <2>1. CASE i \in 1..Len(wire)
    <3>1. Len(buf) + Len(reader) + i \in 1..Len(Sent)
      BY <1>3, <1>4, <2>1
    <3> QED
      BY <1>2, <1>3, <1>5, <2>1, <3>1
  <2>2. CASE i = Len(wire) + 1
    <3>1. Len(buf) + Len(reader) + i = Len(Sent) + 1
      BY <1>3, <1>4, <2>2
    <3> QED
      BY <1>2, <1>5, <2>2, <3>1
  <2> QED
    BY <1>2, <1>4, <2>1, <2>2
<1>8. Len(s) = Len(buf) + Len(reader) + Len(wire')
  BY <1>2, <1>3, <1>4, <1>5
<1>9. s = buf \o reader \o wire'
  <2>1. Parts(s, buf, reader, wire')
    BY <1>5, <1>6, <1>7, <1>8 DEF Parts
  <2> QED
    BY <1>1, <1>2, <2>1, SentOfParts
<1>10. Sent' = s
  BY <1>9 DEF Sent
<1> QED
  BY <1>2, <1>3, <1>5, <1>10

LEMMA GrowsInShape ==
  ASSUME NEW s \in Seq(Line), NEW t \in Seq(Line), NEW line, NEW next, NEW after,
         NEW read \in 0..Len(s),
         Len(t) = Len(s) + 1, t[Len(s) + 1] = line, \A i \in 1..Len(s) : t[i] = s[i],
         Shaped(s, next, read),
         \/ next = "status" /\ line \in {"200", "407"} /\ after = "headers"
         \/ next = "headers" /\ line = "header" /\ after = "headers"
         \/ next = "headers" /\ line = "blank" /\ after = "data"
         \/ next = "data" /\ line = "data" /\ after = "data" /\ s[1] = "407"
  PROVE  Shaped(t, after, read)
<1>1. Len(s) \in Nat /\ Len(t) \in Nat /\ t # <<>>
  OBVIOUS
<1>2. CASE next = "status"
  <2>1. Len(s) = 0 /\ t[1] \in {"200", "407"} /\ after = "headers"
    BY <1>2 DEF Shaped
  <2> QED
    BY <1>1, <2>1 DEF Shaped
<1>3. CASE next = "headers"
  <2>1. Len(s) >= 1 /\ t[1] \in {"200", "407"} /\ \A i \in 2..Len(s) : t[i] = "header"
    BY <1>1, <1>3 DEF Shaped
  <2>2. CASE line = "header"
    BY <1>1, <1>3, <2>1, <2>2 DEF Shaped
  <2>3. CASE line = "blank"
    <3>1. Answered(t, Len(t))
      BY <1>1, <2>1, <2>3 DEF Answered
    <3>2. Len(t) \in (read + 1)..Len(t)
      BY <1>1
    <3>3. after = "data"
      BY <1>3, <2>3
    <3> QED
      BY <3>1, <3>2, <3>3 DEF Shaped
  <2> QED
    BY <1>3, <2>2, <2>3
<1>4. CASE next = "data"
  <2>1. PICK k \in (read + 1)..Len(s) : Answered(s, k)
    BY <1>4 DEF Shaped
  <2>2. k \in 2..Len(s) /\ s[1] = "407" /\ line = "data" /\ after = "data"
    BY <1>4, <2>1 DEF Answered
  <2>3. \A i \in (k + 1)..Len(t) : t[i] = "data"
    <3> SUFFICES ASSUME NEW i \in (k + 1)..Len(t)
                 PROVE  t[i] = "data"
      OBVIOUS
    <3>1. CASE i = Len(s) + 1
      BY <2>2, <3>1
    <3>2. CASE i # Len(s) + 1
      <4>1. i \in 1..Len(s) /\ i \in (k + 1)..Len(s)
        BY <1>1, <2>2, <3>2
      <4> QED
        BY <2>1, <4>1 DEF Answered
    <3> QED
      BY <3>1, <3>2
  <2>4. /\ k \in 2..Len(t) /\ t[1] = "407" /\ t[k] = "blank"
        /\ \A i \in 2..(k - 1) : t[i] = "header"
    BY <1>1, <2>1, <2>2 DEF Answered
  <2>5. Answered(t, k)
    BY <2>3, <2>4 DEF Answered
  <2>6. k \in (read + 1)..Len(t)
    BY <1>1
  <2> QED
    BY <2>2, <2>5, <2>6 DEF Shaped
<1> QED
  BY <1>2, <1>3, <1>4

(* One step of an attempt: there is one case for each action. *)
LEMMA TunnelSteps ==
  ASSUME TunnelInv, Tunnel!Next
  PROVE  TunnelInv'
<1>0. /\ answer \in {"status", "headers", "data"}
      /\ wire \in Seq(Line) /\ reader \in Seq(Line) /\ buf \in Seq(Line)
      /\ Len(buf) \in Nat
  BY DEF TunnelInv
<1>1. CASE Tunnel!Choose
  BY <1>1 DEF TunnelInv, Tunnel!Choose, Tunnel!peer
<1>2. CASE Tunnel!Dial
  <2>1. /\ wire = <<>> /\ reader = <<>> /\ buf = <<>> /\ answer = "status"
        /\ UNCHANGED <<wire, reader, buf, answer>>
        /\ phase' \in {"headers", "failed"}
    BY <1>2 DEF TunnelInv, Tunnel!Dial, Tunnel!peer
  <2>2. Sent' = <<>>
    BY <2>1 DEF Sent
  <2>3. Shaped(Sent', answer', Len(buf'))
    BY <2>1, <2>2 DEF Shaped
  <2> QED
    BY <1>0, <2>1, <2>3 DEF TunnelInv
<1>3. CASE Tunnel!Fill
  <2>1. wire' \in Seq(Line) /\ reader' \in Seq(Line) /\ Sent' = Sent
    BY <1>3, FillMoves
  <2>2. phase = "headers" /\ phase' = "headers" /\ UNCHANGED <<buf, answer>>
    BY <1>3 DEF Tunnel!Fill
  <2>3. Shaped(Sent', answer', Len(buf'))
    BY <2>1, <2>2 DEF TunnelInv
  <2> QED
    BY <1>0, <2>1, <2>2, <2>3 DEF TunnelInv
<1>4. CASE Tunnel!ReadLine
  <2>1. /\ buf' \in Seq(Line) /\ reader' \in Seq(Line)
        /\ Sent' = Sent
        /\ Len(buf') = Len(buf) + 1 /\ Len(buf') <= Len(Sent)
        /\ buf'[1] = Sent[1] /\ buf'[Len(buf')] = Sent[Len(buf')]
        /\ Len(buf') = Len(Sent) => reader' = <<>> /\ wire' = <<>>
    BY <1>4, ReadLineMoves
  <2>2. /\ phase = "headers" /\ UNCHANGED <<wire, answer>>
        /\ phase' = IF ~(buf'[Len(buf')] = "blank") THEN "headers"
                    ELSE IF buf'[1] = "200" THEN "tunnel" ELSE "failed"
    BY <1>4 DEF Tunnel!ReadLine, Tunnel!peer, Tunnel!Complete
  <2>3. Shaped(Sent, answer, Len(buf))
    BY <2>2 DEF TunnelInv
  <2>4. Len(Sent) \in Nat
    <3>1. Sent \in Seq(Line)
      BY <1>0, SentParts DEF Sent
    <3> QED
      BY <3>1
  <2> DEFINE n == Len(buf')
  <2>5. n \in 1..Len(Sent)
    BY <1>0, <2>1, <2>4
  <2>6. CASE answer = "status"
    <3>1. Len(Sent) = 0
      BY <2>3, <2>6 DEF Shaped
    <3> QED
      BY <2>5, <3>1
  <2>7. CASE answer = "headers"
    <3>1. Sent[n] \in {"200", "407", "header"}
      BY <2>3, <2>5, <2>7 DEF Shaped
    <3>2. phase' = "headers"
      BY <2>1, <2>2, <3>1
    <3>3. Shaped(Sent', answer', Len(buf'))
      BY <2>1, <2>2, <2>3, <2>7 DEF Shaped
    <3> QED
      BY <1>0, <2>1, <2>2, <3>2, <3>3 DEF TunnelInv
  <2>8. CASE answer = "data"
    <3>1. PICK k \in (Len(buf) + 1)..Len(Sent) : Answered(Sent, k)
      BY <2>3, <2>8 DEF Shaped
    <3>2. k \in n..Len(Sent) /\ k \in 2..Len(Sent)
      BY <2>1, <3>1 DEF Answered
    <3>3. CASE k = n
      <4>1. Sent[n] = "blank"
        BY <3>1, <3>3 DEF Answered
      <4>2. phase' = IF Sent[1] = "200" THEN "tunnel" ELSE "failed"
        BY <2>1, <2>2, <4>1
      <4>3. Sent[1] = "200" => reader' = <<>> /\ wire' = <<>>
        BY <2>1, <3>1, <3>3 DEF Answered
      <4> QED
        BY <1>0, <2>1, <2>2, <2>8, <4>2, <4>3 DEF TunnelInv
    <3>4. CASE k # n
      <4>1. n \in 1..(k - 1) /\ k \in (n + 1)..Len(Sent)
        BY <2>4, <2>5, <3>2, <3>4
      <4>2. Sent[n] \in {"200", "407", "header"}
        BY <2>4, <3>1, <4>1 DEF Answered
      <4>3. phase' = "headers"
        BY <2>1, <2>2, <4>2
      <4>4. Shaped(Sent', answer', Len(buf'))
        BY <2>1, <2>2, <2>8, <3>1, <4>1 DEF Shaped
      <4> QED
        BY <1>0, <2>1, <2>2, <4>3, <4>4 DEF TunnelInv
    <3> QED
      BY <3>3, <3>4
  <2> QED
    BY <1>0, <2>6, <2>7, <2>8
<1>5. CASE Tunnel!ReadEnd
  BY <1>5 DEF TunnelInv, Tunnel!ReadEnd, Tunnel!peer
<1>6. ASSUME NEW line \in Line, NEW after \in {"headers", "data"}, Tunnel!Sends(line, after),
             \/ answer = "status" /\ line \in {"200", "407"} /\ after = "headers"
             \/ answer = "headers" /\ line = "header" /\ after = "headers"
             \/ answer = "headers" /\ line = "blank" /\ after = "data"
             \/ /\ answer = "data" /\ line = "data" /\ after = "data"
                /\ phase = "tunnel" \/ Sent[1] = "407"
      PROVE  TunnelInv'
  <2>1. /\ wire' = Append(wire, line) /\ answer' = after
        /\ phase \in {"headers", "tunnel"} /\ UNCHANGED <<phase, reader, buf>>
    BY <1>6 DEF Tunnel!Sends
  <2>2. /\ wire' \in Seq(Line)
        /\ Sent \in Seq(Line) /\ Sent' \in Seq(Line)
        /\ Len(Sent') = Len(Sent) + 1
        /\ Sent'[Len(Sent) + 1] = line
        /\ \A i \in 1..Len(Sent) : Sent'[i] = Sent[i]
    BY <2>1, SendAppends
  <2>3. CASE phase = "headers"
    <3>1. Shaped(Sent, answer, Len(buf))
      BY <2>3 DEF TunnelInv
    <3>2. Len(buf) \in 0..Len(Sent)
      <4>1. Len(Sent) = Len(buf) + Len(reader) + Len(wire)
        BY <1>0, SentParts DEF Sent
      <4> QED
        BY <1>0, <4>1
    <3>3. Shaped(Sent', after, Len(buf))
      BY <1>6, <2>2, <2>3, <3>1, <3>2, GrowsInShape
    <3> QED
      BY <1>0, <2>1, <2>2, <2>3, <3>3 DEF TunnelInv
  <2>4. CASE phase = "tunnel"
    <3>1. answer = "data" /\ reader = <<>> /\ \A i \in DOMAIN wire : wire[i] = "data"
      BY <2>4 DEF TunnelInv
    <3>2. line = "data" /\ after = "data"
      BY <1>6, <3>1
    <3>3. \A i \in DOMAIN wire' : wire'[i] = "data"
      BY <1>0, <2>1, <3>1, <3>2
    <3> QED
      BY <1>0, <2>1, <2>2, <2>4, <3>1, <3>2, <3>3 DEF TunnelInv
  <2> QED
    BY <2>1, <2>3, <2>4
<1>7. CASE Tunnel!Answers
  <2>1. CASE answer = "status" /\ \E s \in Tunnel!Status : Tunnel!Sends(s, "headers")
    <3>1. PICK s \in {"200", "407"} : Tunnel!Sends(s, "headers")
      BY <2>1 DEF Tunnel!Status
    <3>2. s \in Line
      BY DEF Line
    <3> QED
      BY <1>6, <2>1, <3>1, <3>2
  <2>2. CASE answer = "headers" /\ Tunnel!Sends("header", "headers")
    <3>1. "header" \in Line
      BY DEF Line
    <3> QED
      BY <1>6, <2>2, <3>1
  <2>3. CASE Tunnel!Finishes
    <3>1. "blank" \in Line
      BY DEF Line
    <3> QED
      BY <1>6, <2>3, <3>1 DEF Tunnel!Finishes
  <2> QED
    BY <1>7, <2>1, <2>2, <2>3 DEF Tunnel!Answers
<1>8. CASE Tunnel!Data
  <2>1. "data" \in Line
    BY DEF Line
  <2>2. Tunnel!Refused => Sent[1] = "407"
    BY DEF Tunnel!Refused, Sent
  <2> QED
    BY <1>6, <1>8, <2>1, <2>2 DEF Tunnel!Data
<1>9. CASE Tunnel!Closes
  <2>1. UNCHANGED <<phase, wire, reader, buf, answer>>
    BY <1>9 DEF Tunnel!Closes
  <2>2. Sent' = Sent
    BY <2>1 DEF Sent
  <2> QED
    BY <2>1, <2>2 DEF TunnelInv
<1> QED
  BY <1>1, <1>2, <1>3, <1>4, <1>5, <1>7, <1>8, <1>9 DEF Tunnel!Next

(* A tunnel begins with the target's first byte (read_connect_response of  *)
(* src/proxy.rs), for any length of the answer and of what is sent after.  *)
THEOREM StartsClean == ConnectionSpec => []TunnelStartsClean
<1>1. ConnectionInit => TunnelInv
  BY DEF ConnectionInit, Tunnel!Init, TunnelInv
<1>2. ASSUME TunnelInv, [ConnectionNext]_<<tunnelVars, vars>>
      PROVE  TunnelInv'
  <2>1. CASE Connecting
    BY <1>2, <2>1, TunnelSteps DEF Connecting
  <2>2. CASE Upgrade
    BY <2>2 DEF Upgrade, TunnelInv
  <2>3. CASE UNCHANGED tunnelVars
    <3>1. Sent' = Sent /\ UNCHANGED <<phase, wire, reader, buf, answer>>
      BY <2>3 DEF tunnelVars, Sent
    <3> QED
      BY <1>2, <3>1 DEF TunnelInv
  <2> QED
    BY <1>2, <2>1, <2>2, <2>3 DEF ConnectionNext, Receive
<1>3. TunnelInv => TunnelStartsClean
  BY DEF TunnelInv, TunnelStartsClean, Tunnel!TunnelStartsClean
<1> QED
  BY <1>1, <1>2, <1>3, PTL DEF ConnectionSpec
----------------------------------------------------------------------------
(* A side parses when each of its levels does. *)
LEMMA LegibleParses ==
  ASSUME NEW levels \in Levels
  PROVE  ParseLevels(levels) = IF Legible(levels) THEN Some(levels) ELSE None
<1>1. PICK n \in 0..MaxLevels : levels \in [1..n -> WireLevel]
  BY DEF Levels, BoundedSeq, SeqOf
<1>2. ASSUME NEW i \in DOMAIN levels
      PROVE  ToLevel(levels[i]) = None <=> levels[i] \notin [price : Number, amount : Number]
  <2>1. levels[i] \in WireLevel
    BY <1>1
  <2> QED
    BY <2>1, SnapshotsAssumption DEF WireLevel, ToLevel, None, Some
<1>3. Legible(levels) <=> \A i \in DOMAIN levels : levels[i] \in [price : Number, amount : Number]
  <2> DEFINE Read == [price : Number, amount : Number]
  <2> HIDE DEF Read
  <2>1. n \in Nat /\ DOMAIN levels = 1..n
    BY <1>1, SnapshotsAssumption
  <2>2. ASSUME \A i \in DOMAIN levels : levels[i] \in Read
        PROVE  levels \in Seq(Read)
    <3>1. levels \in [1..n -> Read]
      BY <1>1, <2>1, <2>2
    <3> QED
      BY <2>1, <3>1
  <2>3. ASSUME levels \in Seq(Read), NEW i \in DOMAIN levels
        PROVE  levels[i] \in Read
    BY <2>1, <2>3
  <2> QED
    BY <2>2, <2>3 DEF Legible, Read
<1> QED
  BY <1>2, <1>3 DEF ParseLevels

(* `parse` (src/exchange/binance.rs, src/exchange/bitstamp.rs) returns a   *)
(* whole book or none, for any numbers and any length of a side.           *)
THEOREM BooksAreWhole == ConnectionSpec => []WholeBooksOnly
<1>1. ConnectionInit => WholeBooksOnly
  BY DEF ConnectionInit, Init, WholeBooksOnly, None
<1>2. ASSUME NEW m \in Message, Parse(m)
      PROVE  WholeBooksOnly'
  <2> DEFINE p == m.payload
             isBook == /\ m.event \in {"depth", "data"}
                       /\ p.kind = "sides"
                       /\ Legible(p.bids) /\ Legible(p.asks)
             whole == IF isBook THEN Some([bids |-> p.bids, asks |-> p.asks]) ELSE None
  <2>1. book' = whole
    <3>1. p \in Payload /\ p.kind \in {"sides", "missing", "foreign"}
      BY DEF Message, Payload
    <3>2. CASE Skip(m)
      BY <3>2 DEF Skip, Deserializes
    <3>3. CASE ParseOther(m)
      BY <3>3 DEF ParseOther
    <3>4. CASE ParseBook(m) /\ p.kind # "sides"
      BY <3>1, <3>4 DEF ParseBook, Deserializes
    <3>5. CASE ParseBook(m) /\ p.kind = "sides"
      <4>1. p.bids \in Levels /\ p.asks \in Levels
        BY <3>1, <3>5 DEF Payload
      <4>2. /\ ParseLevels(p.bids) = IF Legible(p.bids) THEN Some(p.bids) ELSE None
            /\ ParseLevels(p.asks) = IF Legible(p.asks) THEN Some(p.asks) ELSE None
        BY <4>1, LegibleParses
      <4>3. ToBook(p) = IF Legible(p.bids) /\ Legible(p.asks)
                          THEN Some([bids |-> p.bids, asks |-> p.asks]) ELSE None
        BY <4>2 DEF ToBook, None, Some
      <4>4. book' = ToBook(p) /\ m.event \in {"depth", "data"}
        BY <3>5 DEF ParseBook
      <4> QED
        BY <3>5, <4>3, <4>4
    <3> QED
      BY <1>2, <3>2, <3>3, <3>4, <3>5 DEF Parse
  <2>2. message' = <<m>>
    BY <1>2 DEF Parse, Some
  <2> HIDE DEF whole
  <2>3. \A i \in DOMAIN message' : message'[i] = m
    BY <2>2
  <2> USE DEF whole
  <2> QED
    BY <2>1, <2>3 DEF WholeBooksOnly
<1>3. ASSUME WholeBooksOnly, [ConnectionNext]_<<tunnelVars, vars>>
      PROVE  WholeBooksOnly'
  <2>1. CASE Receive
    BY <1>2, <2>1 DEF Receive, Next
  <2>2. CASE UNCHANGED vars
    BY <1>3, <2>2 DEF vars, WholeBooksOnly
  <2> QED
    BY <1>3, <2>1, <2>2 DEF ConnectionNext, Connecting, Upgrade
<1> QED
  BY <1>1, <1>3, PTL DEF ConnectionSpec
===============================================================================
