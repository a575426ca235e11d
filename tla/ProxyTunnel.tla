---------------------------- MODULE ProxyTunnel ----------------------------
(***************************************************************************)
(* How a connection attempt of a feed gets its byte stream: proxy_addr of  *)
(* src/feed.rs, and the CONNECT handshake of src/proxy.rs with a proxy     *)
(* that answers a line at a time and may close at any moment.              *)
(***************************************************************************)
EXTENDS Integers, Sequences

CONSTANT MaxWire  \* bound: header lines, and pieces of data, on the wire

VARIABLES
  phase,   \* "start", "direct", "dial", "headers", "tunnel", "failed"
  wire,    \* sent to us and not yet read from the socket
  reader,  \* read from the socket by the BufReader, not yet from it
  buf,     \* the response read so far, by line
  answer,  \* what the proxy sends next: "status", "headers", "data"
  proxy    \* "open" or "closed"

peer == <<wire, answer, proxy>>
vars == <<phase, wire, reader, buf, answer, proxy>>

Status == {"200", "407"}
Value == {"absent", "empty", "garbage", "address"}

Init ==
  /\ phase = "start"
  /\ wire = <<>> /\ reader = <<>> /\ buf = <<>>
  /\ answer = "status"
  /\ proxy = "open"

(* env::var("HTTPS_PROXY").or_else(..HTTP_PROXY) is the first that is set; *)
(* an empty one is filtered out after that.                                *)
Raw(env) == IF env.HTTPS_PROXY # "absent" THEN env.HTTPS_PROXY ELSE env.HTTP_PROXY

(* proxy_addr: a value parse_proxy_addr cannot read means a direct try. *)
Choose ==
  /\ phase = "start"
  /\ \E env \in [HTTPS_PROXY : Value, HTTP_PROXY : Value] :
       phase' = IF Raw(env) = "address" THEN "dial" ELSE "direct"
  /\ UNCHANGED <<reader, buf, peer>>

(* TcpStream::connect and the CONNECT request. *)
Dial ==
  /\ phase = "dial"
  /\ phase' \in {"headers", "failed"}
  /\ UNCHANGED <<reader, buf, peer>>

(* The BufReader takes what the socket has, perhaps more than a line. *)
Fill ==
  /\ phase = "headers"
  /\ reader = <<>>
  /\ \E n \in 1..Len(wire) :
       /\ reader' = SubSeq(wire, 1, n)
       /\ wire' = SubSeq(wire, n + 1, Len(wire))
  /\ UNCHANGED <<phase, buf, answer, proxy>>

(* Faulty variant of Complete: the status line is taken for the answer. *)
FirstLine(lines) == TRUE

(* buf.ends_with("\r\n\r\n") *)
Complete(lines) == lines[Len(lines)] = "blank"

(* read_until a line end; after the blank line the status line decides and *)
(* the BufReader is dropped, with whatever it holds.                       *)
ReadLine ==
  /\ phase = "headers"
  /\ reader # <<>>
  /\ buf' = Append(buf, Head(reader))
  /\ reader' = Tail(reader)
  /\ phase' = IF ~Complete(buf') THEN "headers"
              ELSE IF buf'[1] = "200" THEN "tunnel" ELSE "failed"
  /\ UNCHANGED <<peer>>

(* Faulty variant of ReadEnd: reading nothing is not told from reading. *)
ReadEndIgnored == phase = "headers" /\ proxy = "closed" /\ UNCHANGED vars

(* n == 0: closed before the answer was complete.  A read that fails, and  *)
(* an answer that is no UTF-8, end the attempt in the same way.            *)
ReadEnd ==
  /\ phase = "headers"
  /\ proxy = "closed" /\ wire = <<>> /\ reader = <<>>
  /\ phase' = "failed"
  /\ UNCHANGED <<reader, buf, peer>>
----------------------------------------------------------------------------
Sends(line, next) ==
  /\ proxy = "open"
  /\ phase \in {"headers", "tunnel"}
  /\ Len(wire) < MaxWire
  /\ wire' = Append(wire, line)
  /\ answer' = next
  /\ UNCHANGED <<phase, reader, buf, proxy>>

Finishes == answer = "headers" /\ Sends("blank", "data")

Answers ==
  \/ answer = "status" /\ \E s \in Status : Sends(s, "headers")
  \/ answer = "headers" /\ Len(buf) < MaxWire /\ Sends("header", "headers")
  \/ Finishes

(* The target's bytes, or the body of a refusal.  The target does not      *)
(* speak before the client's TLS hello.                                    *)
Refused == LET sent == buf \o reader \o wire IN sent # <<>> /\ Head(sent) = "407"
Data == answer = "data" /\ (phase = "tunnel" \/ Refused) /\ Sends("data", "data")

Closes ==
  /\ proxy = "open"
  /\ phase \in {"headers", "tunnel"}
  /\ proxy' = "closed"
  /\ UNCHANGED <<phase, wire, reader, buf, answer>>

Next == Choose \/ Dial \/ Fill \/ ReadLine \/ ReadEnd \/ Answers \/ Data \/ Closes

Spec == Init /\ [][Next]_vars
----------------------------------------------------------------------------
(* What the TLS layer reads from the tunnel begins with the target's first *)
(* byte: no line of the answer is left on the wire, however the answer is  *)
(* cut into packets, and nothing of the target is lost with the BufReader. *)
TunnelStartsClean ==
  phase = "tunnel" =>
    /\ reader = <<>>
    /\ \A i \in DOMAIN wire : wire[i] = "data"

(* An attempt ends however the proxy answers and whenever it closes,       *)
(* provided it does one of them.                                           *)
AttemptEnds == <>(phase \in {"direct", "tunnel", "failed"})
============================================================================
