----------------------------- MODULE Connection -----------------------------
(***************************************************************************)
(* One connection of a Binance or Bitstamp feed (run_once_inner of         *)
(* src/feed.rs), from the choice between proxy and direct (ProxyTunnel)    *)
(* over the handshake to the messages `parse` is given (Snapshots).        *)
(***************************************************************************)
EXTENDS Snapshots

CONSTANT MaxWire  \* ProxyTunnel's

ASSUME ConnectionAssumption == MaxWire \in Nat \ {0}

VARIABLES phase, wire, reader, buf, answer, proxy  \* ProxyTunnel's

tunnelVars == <<phase, wire, reader, buf, answer, proxy>>

Tunnel == INSTANCE ProxyTunnel

ConnectionInit == Tunnel!Init /\ Init

Connecting == Tunnel!Next /\ UNCHANGED vars

(* client_async_tls over the tunnel, or connect_async: it takes what the   *)
(* tunnel holds for the beginning of its own answer.  The tunnel's state   *)
(* goes with it.                                                           *)
Upgrade ==
  /\ phase \in {"direct", "tunnel"}
  /\ \/ phase' = "open" /\ \A i \in DOMAIN wire : wire[i] = "data"
     \/ phase' = "failed"
  /\ wire' = <<>> /\ reader' = <<>> /\ buf' = <<>>
  /\ answer' = "status"
  /\ proxy' = "open"
  /\ UNCHANGED vars

(* ws.next() yields a text. *)
Receive == phase = "open" /\ Next /\ UNCHANGED tunnelVars

ConnectionNext == Connecting \/ Upgrade \/ Receive

(* The task is polled, and a proxy answers in the end, or closes.  Nothing *)
(* is assumed of the handshake after it.                                   *)
ConnectionSpec ==
  /\ ConnectionInit /\ [][ConnectionNext]_<<tunnelVars, vars>>
  /\ WF_tunnelVars(Tunnel!Choose) /\ WF_tunnelVars(Tunnel!Dial)
  /\ WF_tunnelVars(Tunnel!Fill) /\ WF_tunnelVars(Tunnel!ReadLine)
  /\ WF_tunnelVars(Tunnel!ReadEnd)
  /\ WF_tunnelVars(phase = "headers" /\ (Tunnel!Finishes \/ Tunnel!Closes))
----------------------------------------------------------------------------
(* What the TLS layer reads begins with the target's first byte.           *)
TunnelStartsClean == Tunnel!TunnelStartsClean

(* The proxy's part of an attempt ends however and whenever it answers or  *)
(* closes.                                                                 *)
AttemptEnds == Tunnel!AttemptEnds
=============================================================================
