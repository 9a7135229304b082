----------------------- MODULE TunnelExchange_proofs -----------------------
(***************************************************************************)
(* What a tunnel carries, for every window, buffer and high-water mark and *)
(* every exchange: proofs of the safety properties of TunnelExchange.      *)
(*                                                                         *)
(* The argument is about order: on each wire the blocks in flight come     *)
(* behind at most one message of the handshake and before every <close/>   *)
(* (Shaped), so that who takes a <close/> has taken every block, and a     *)
(* side that neither ended, failed nor was released makes its peer's end   *)
(* of the tunnel an orderly one (OrderOf).                                 *)
(***************************************************************************)
EXTENDS TunnelExchange, TLAPS

Stanzas  == {"open", "yes", "no", "data", "close"}
Greeting == {"open", "yes", "no"}

(* Messages of the handshake that lead a wire w. *)
LeadOf(w) == IF w # <<>> /\ Head(w) \in Greeting THEN 1 ELSE 0

(* It carries n blocks behind them, and then only <close/>s. *)
Shaped(w, n) ==
  /\ w \in Seq(Stanzas) /\ n \in Nat /\ LeadOf(w) + n <= Len(w)
  /\ \A k \in 1..Len(w) : k > LeadOf(w) => w[k] = IF k <= LeadOf(w) + n THEN "data" ELSE "close"

HasClose(w, n) == LeadOf(w) + n < Len(w)

(* Blocks on their way from s. *)
Flight(s) == tun[s].sent - tun[Other(s)].arrived

Tunnels ==
  [state : {"none", "expected", "abandoned", "opening", "open", "closing", "over"},
   arrived : Nat, read : Nat, sent : Nat, eof : {"no", "end", "error"}]
Sockets ==
  [state : {"none", "open", "ending", "destroyed"},
   said : Nat, fin : BOOLEAN, taken : Nat, ended : BOOLEAN, wrote : Nat, heard : Nat]
Bridges ==
  [state : {"none", "due", "on", "done"}, failed : BOOLEAN, tunnelEnded : BOOLEAN, pending : BOOLEAN]

Typed ==
  /\ plan \in Plans
  /\ pc \in {"idle", "disco", "asking", "expecting", "settled"}
  /\ outcome \in {"none", "tunnel", "response", "failed"}
  /\ iq \in {"unsent", "asked", "answered", "received", "expired"}
  /\ hp \in {"idle", "dialling", "due", "opening", "dead", "called", "done", "left"}
  /\ up \subseteq Sides
  /\ wire \in [Sides -> Seq(Stanzas)]
  /\ tun \in [Sides -> Tunnels] /\ sock \in [Sides -> Sockets] /\ bridge \in [Sides -> Bridges]

WireOf(s) ==
  /\ Shaped(wire[s], Flight(s))
  /\ HasClose(wire[s], Flight(s)) => tun[s].state = "over"

(* How an end came to be over. *)
EofOf(s) ==
  /\ tun[s].eof # "no" => tun[s].state = "over"
  /\ tun[s].eof = "end" /\ ~sock[s].ended => Flight(Other(s)) = 0 /\ tun[Other(s)].state = "over"

(* Where the call and the handshake are, and what cannot have happened     *)
(* before them.                                                            *)
ExitPhase ==
  /\ hp \in {"idle", "dialling", "due", "done", "left"} => tun["exit"] = NoTunnel /\ wire["exit"] = <<>>
  /\ hp # "called" =>
       /\ bridge["exit"] = NoBridge
       /\ tun["exit"].sent = 0 /\ tun["exit"].arrived = 0 /\ tun["exit"].read = 0
  /\ hp \in {"idle", "dialling", "done"} => sock["exit"] = NoSocket
  /\ hp \in {"due", "opening", "dead", "called", "left"} => sock["exit"].state # "none"
  /\ hp = "opening" =>
       /\ tun["exit"].state \in {"opening", "over"}
       /\ LeadOf(wire["exit"]) = 1 \/ LeadOf(wire["client"]) = 1
  /\ hp = "dead" => tun["exit"].state \in {"none", "over"}
  /\ hp = "called" => tun["exit"].state \in {"open", "closing", "over"}

ClientPhase ==
  /\ hp \notin {"opening", "called"} => wire["client"] = <<>> /\ bridge["client"].state = "none"
  /\ bridge["client"].state = "none" =>
       tun["client"].sent = 0 /\ tun["client"].state \in {"none", "expected", "abandoned", "over"}
  /\ bridge["client"].state # "none" =>
       pc = "settled" /\ outcome = "tunnel" /\ tun["client"].state \in {"open", "closing", "over"}
  /\ pc \in {"idle", "disco", "asking"} => tun["client"] = NoTunnel
  /\ pc = "expecting" <=> tun["client"].state = "expected"
  /\ sock["client"].state # "none"

HandshakePhase ==
  /\ LeadOf(wire["client"]) = 1 =>
       /\ hp = "opening" /\ Head(wire["client"]) # "open" /\ LeadOf(wire["exit"]) = 0
       /\ Head(wire["client"]) = "no" => bridge["client"].state = "none" /\ wire["client"] = <<"no">>
  /\ LeadOf(wire["exit"]) = 1 =>
       /\ hp = "opening" /\ Head(wire["exit"]) = "open"
       /\ wire["client"] = <<>> /\ bridge["client"].state = "none"
       /\ tun["client"].arrived = 0 /\ tun["client"].read = 0 /\ tun["client"].eof # "end"

(* Nothing is on its way before the <open/>, which is looked at behind the *)
(* answer.                                                                 *)
EarlyPhase ==
  /\ pc \in {"idle", "disco"} => iq = "unsent" /\ hp = "idle"
  /\ pc # "settled" =>
       /\ wire["client"] = <<>>
       /\ wire["exit"] # <<>> \/ Live("exit") => LeadOf(wire["exit"]) = 1

Phase == ExitPhase /\ ClientPhase /\ HandshakePhase /\ EarlyPhase

BridgeOf(s) ==
  /\ bridge[s].state # "on" =>
       /\ ~bridge[s].failed /\ ~bridge[s].tunnelEnded /\ ~bridge[s].pending
       /\ sock[s].taken = 0 /\ ~sock[s].ended /\ sock[s].wrote = 0 /\ tun[s].sent = 0
       /\ sock[s].state # "ending"
  /\ bridge[s].state # "none" => sock[s].state # "none"
  /\ bridge[s].failed => sock[s].state = "destroyed" /\ ~bridge[s].pending
  /\ sock[s].fin => sock[s].said = plan.says[s]
  /\ sock[s].ended => sock[s].fin /\ sock[s].taken = sock[s].said /\ ~bridge[s].pending
  /\ tun[s].state = "closing" => sock[s].ended
  /\ sock[s].state = "ending" => sock[s].ended \/ bridge[s].tunnelEnded
  /\ sock[s].state = "destroyed" /\ On(s) /\ ~bridge[s].failed =>
       (sock[s].ended \/ bridge[s].tunnelEnded) /\ sock[s].heard = sock[s].wrote

(* What the buffers between two applications hold. *)
FlowOf(s) ==
  /\ sock[s].taken <= sock[s].said /\ tun[s].read <= tun[s].arrived /\ sock[s].heard <= sock[s].wrote
  /\ ~bridge[s].tunnelEnded =>
       \/ sock[s].taken = tun[s].sent
       \/ sock[s].taken = tun[s].sent + 1 /\ (bridge[s].pending \/ bridge[s].failed)
  /\ bridge[s].pending /\ ~bridge[s].tunnelEnded => sock[s].taken = tun[s].sent + 1
  /\ tun[s].sent - tun[Other(s)].read <= Window + Buffer
  /\ sock[s].wrote - sock[s].heard <= HighWater

(* s has done nothing that ends its tunnel. *)
Faithful(s) ==
  /\ up = Sides /\ ~bridge[s].failed /\ ~sock[s].fin /\ bridge[s].state # "done"
  /\ s = "client" => bridge[s].state # "none"

(* Then its peer's end is orderly, and what it has read it has written.    *)
OrderOf(s) ==
  Faithful(s) =>
    LET o == Other(s) IN
    /\ ~HasClose(wire[s], Flight(s))
    /\ tun[o].eof = "end" => sock[o].ended
    /\ bridge[o].tunnelEnded /\ ~bridge[o].failed => sock[o].ended
    /\ ~bridge[o].failed /\ ~bridge[o].pending => sock[o].taken = tun[o].sent
    /\ bridge[o].pending => sock[o].taken = tun[o].sent + 1
    /\ tun[s].eof # "error" => tun[s].read = sock[s].wrote
    /\ tun[s].state = "over" => tun[s].eof # "no"
    /\ s = "client" => tun[s].eof # "error"
    /\ bridge[s].tunnelEnded => tun[s].eof = "end" /\ tun[s].read = tun[s].arrived

TunnelInv ==
  /\ Typed /\ Phase
  /\ \A s \in Sides : WireOf(s) /\ EofOf(s) /\ BridgeOf(s) /\ FlowOf(s) /\ OrderOf(s)

-----------------------------------------------------------------------------
(* The wires. *)

LEMMA EmptyWire ==
  /\ Shaped(<<>>, 0) /\ LeadOf(<<>>) = 0 /\ ~HasClose(<<>>, 0)
  /\ \A x \in Greeting : Shaped(<<x>>, 0) /\ LeadOf(<<x>>) = 1 /\ ~HasClose(<<x>>, 0)
<1>1. Shaped(<<>>, 0) /\ LeadOf(<<>>) = 0 /\ ~HasClose(<<>>, 0)
  BY DEF Shaped, LeadOf, HasClose
<1>2. ASSUME NEW x \in Greeting PROVE Shaped(<<x>>, 0) /\ LeadOf(<<x>>) = 1 /\ ~HasClose(<<x>>, 0)
  <2>1. <<x>> \in Seq(Stanzas) /\ Len(<<x>>) = 1 /\ Head(<<x>>) = x /\ <<x>> # <<>>
    BY <1>2 DEF Greeting, Stanzas
  <2>2. LeadOf(<<x>>) = 1
    BY <1>2, <2>1 DEF LeadOf
  <2> QED BY <2>1, <2>2 DEF Shaped, HasClose
<1> QED BY <1>1, <1>2

LEMMA PutData ==
  ASSUME NEW w, NEW n, Shaped(w, n), ~HasClose(w, n)
  PROVE  /\ Shaped(Append(w, "data"), n + 1) /\ ~HasClose(Append(w, "data"), n + 1)
         /\ LeadOf(Append(w, "data")) = LeadOf(w)
         /\ LeadOf(w) = 1 => Head(Append(w, "data")) = Head(w)
<1> DEFINE v == Append(w, "data")
<1>1. w \in Seq(Stanzas) /\ n \in Nat /\ LeadOf(w) \in {0, 1} /\ LeadOf(w) + n = Len(w)
  BY DEF Shaped, HasClose, LeadOf
<1>2. v \in Seq(Stanzas) /\ Len(v) = Len(w) + 1 /\ v[Len(w) + 1] = "data" /\ \A k \in 1..Len(w) : v[k] = w[k]
  BY <1>1 DEF Stanzas
<1>3. v # <<>> /\ Head(v) = v[1]
  <2>1. Len(v) > 0  BY <1>1, <1>2
  <2> HIDE DEF v
  <2> QED BY <1>2, <2>1
<1>4. LeadOf(v) = LeadOf(w) /\ (LeadOf(w) = 1 => Head(v) = Head(w))
  <2>1. CASE w = <<>>
    BY <1>2, <1>3, <2>1 DEF LeadOf, Greeting
  <2>2. CASE w # <<>>
    <3>1. Head(w) = w[1] /\ 1 \in 1..Len(w)
      BY <1>1, <2>2
    <3> QED BY <1>2, <1>3, <2>2, <3>1 DEF LeadOf
  <2> QED BY <2>1, <2>2
<1> HIDE DEF v
<1> QED BY <1>1, <1>2, <1>4 DEF Shaped, HasClose, v

LEMMA PutClose ==
  ASSUME NEW w, NEW n, Shaped(w, n)
  PROVE  /\ Shaped(Append(w, "close"), n)
         /\ LeadOf(Append(w, "close")) = LeadOf(w)
         /\ LeadOf(w) = 1 => Head(Append(w, "close")) = Head(w)
<1> DEFINE v == Append(w, "close")
<1>1. w \in Seq(Stanzas) /\ n \in Nat /\ LeadOf(w) \in {0, 1} /\ LeadOf(w) + n <= Len(w)
  BY DEF Shaped, LeadOf
<1>2. v \in Seq(Stanzas) /\ Len(v) = Len(w) + 1 /\ v[Len(w) + 1] = "close" /\ \A k \in 1..Len(w) : v[k] = w[k]
  BY <1>1 DEF Stanzas
<1>3. v # <<>> /\ Head(v) = v[1]
  <2>1. Len(v) > 0  BY <1>1, <1>2
  <2> HIDE DEF v
  <2> QED BY <1>2, <2>1
<1>4. LeadOf(v) = LeadOf(w) /\ (LeadOf(w) = 1 => Head(v) = Head(w))
  <2>1. CASE w = <<>>
    BY <1>2, <1>3, <2>1 DEF LeadOf, Greeting
  <2>2. CASE w # <<>>
    <3>1. Head(w) = w[1] /\ 1 \in 1..Len(w)
      BY <1>1, <2>2
    <3> QED BY <1>2, <1>3, <2>2, <3>1 DEF LeadOf
  <2> QED BY <2>1, <2>2
<1>5. \A k \in 1..Len(v) : k > LeadOf(v) => v[k] = IF k <= LeadOf(v) + n THEN "data" ELSE "close"
  <2>1. TAKE k \in 1..Len(v)
  <2>2. CASE k = Len(w) + 1
    BY <1>1, <1>2, <1>4, <2>2
  <2>3. CASE k \in 1..Len(w)
    BY <1>1, <1>2, <1>4, <2>3 DEF Shaped
  <2> QED BY <1>1, <1>2, <2>2, <2>3
<1> HIDE DEF v
<1> QED BY <1>1, <1>2, <1>4, <1>5 DEF Shaped, v

(* What a wire is without its head. *)
LEMMA TakeHead ==
  ASSUME NEW w, NEW n, Shaped(w, n), w # <<>>
  PROVE  /\ LeadOf(Tail(w)) = 0
         /\ Head(w) \in Greeting =>
              LeadOf(w) = 1 /\ Shaped(Tail(w), n) /\ (HasClose(Tail(w), n) <=> HasClose(w, n))
         /\ Head(w) = "data" =>
              LeadOf(w) = 0 /\ n > 0 /\ Shaped(Tail(w), n - 1) /\ (HasClose(Tail(w), n - 1) <=> HasClose(w, n))
         /\ Head(w) = "close" => n = 0 /\ LeadOf(w) = 0 /\ HasClose(w, n) /\ Shaped(Tail(w), n)
<1> DEFINE v == Tail(w)
           l == LeadOf(w)
<1>1. /\ w \in Seq(Stanzas) /\ n \in Nat /\ l \in {0, 1} /\ l + n <= Len(w)
      /\ \A k \in 1..Len(w) : k > l => w[k] = IF k <= l + n THEN "data" ELSE "close"
  BY DEF Shaped, LeadOf
<1>2. /\ v \in Seq(Stanzas) /\ Len(w) \in Nat \ {0} /\ Len(v) = Len(w) - 1
      /\ \A k \in 1..Len(v) : v[k] = w[k + 1]
      /\ Head(w) = w[1]
  BY <1>1
<1>3. (Head(w) \in Greeting <=> l = 1)
  BY DEF LeadOf
<1>4. LeadOf(v) = 0
  <2>1. v # <<>> => Head(v) = w[2] /\ 2 \in 1..Len(w)
    BY <1>1, <1>2
  <2>2. v # <<>> => Head(v) \in {"data", "close"}
    BY <1>1, <2>1
  <2> QED BY <2>2 DEF LeadOf, Greeting
<1>5. l = 0 => w[1] = IF 1 <= n THEN "data" ELSE "close"
  BY <1>1, <1>2
<1> HIDE DEF v, l
<1>6. Head(w) \in Greeting => Shaped(v, n) /\ (HasClose(v, n) <=> HasClose(w, n))
  <2>1. SUFFICES ASSUME Head(w) \in Greeting
                 PROVE  Shaped(v, n) /\ (HasClose(v, n) <=> HasClose(w, n))
    OBVIOUS
  <2>2. l = 1
    BY <1>3, <2>1
  <2>3. \A k \in 1..Len(v) : v[k] = IF k <= n THEN "data" ELSE "close"
    <3>1. TAKE k \in 1..Len(v)
    <3>2. k + 1 \in 1..Len(w) /\ k + 1 > l /\ (k + 1 <= l + n <=> k <= n)
      BY <1>1, <1>2, <2>2
    <3> QED BY <1>1, <1>2, <3>2
  <2> QED BY <1>1, <1>2, <1>4, <2>2, <2>3 DEF Shaped, HasClose, l
<1>7. Head(w) = "data" => l = 0 /\ n > 0 /\ Shaped(v, n - 1) /\ (HasClose(v, n - 1) <=> HasClose(w, n))
  <2>1. SUFFICES ASSUME Head(w) = "data"
                 PROVE  l = 0 /\ n > 0 /\ Shaped(v, n - 1) /\ (HasClose(v, n - 1) <=> HasClose(w, n))
    OBVIOUS
  <2>2. l = 0 /\ n > 0
    BY <1>1, <1>2, <1>3, <1>5, <2>1 DEF Greeting
  <2> QED BY <1>1, <1>2, <1>4, <2>2 DEF Shaped, HasClose, l
<1>8. Head(w) = "close" => n = 0 /\ l = 0 /\ HasClose(w, n) /\ Shaped(v, n)
  <2>1. SUFFICES ASSUME Head(w) = "close"
                 PROVE  n = 0 /\ l = 0 /\ HasClose(w, n) /\ Shaped(v, n)
    OBVIOUS
  <2>2. l = 0 /\ n = 0
    BY <1>1, <1>2, <1>3, <1>5, <2>1 DEF Greeting
  <2> QED BY <1>1, <1>2, <1>4, <2>2 DEF Shaped, HasClose, l
<1> QED BY <1>3, <1>4, <1>6, <1>7, <1>8 DEF v, l

-----------------------------------------------------------------------------
(* The invariant holds at first. *)

LEMMA TwoSides ==
  \A s \in Sides : /\ Other(s) \in Sides /\ Other(Other(s)) = s /\ Other(s) # s
                   /\ Sides = {s, Other(s)}
BY DEF Sides, Other

LEMMA InitSound ==
  Init => TunnelInv
<1> SUFFICES ASSUME Init PROVE TunnelInv
  OBVIOUS
<1> USE DEF Init, Sides, Other, NoTunnel, NoSocket, NoBridge
<1>1. Typed
  <2>1. NoTunnel \in Tunnels /\ NoBridge \in Bridges
        /\ NoSocket \in Sockets /\ [NoSocket EXCEPT !.state = "open"] \in Sockets
    BY DEF Tunnels, Sockets, Bridges
  <2>2. <<>> \in Seq(Stanzas)
    OBVIOUS
  <2> HIDE DEF NoTunnel, NoSocket, NoBridge
  <2> QED BY <2>1, <2>2 DEF Typed
<1>2. Phase
  BY EmptyWire DEF Phase, ExitPhase, ClientPhase, HandshakePhase, EarlyPhase, Live
<1>3. ASSUME NEW s \in Sides PROVE WireOf(s) /\ EofOf(s)
  BY EmptyWire DEF WireOf, EofOf, Flight
<1>4. ASSUME NEW s \in Sides PROVE BridgeOf(s)
  BY DEF BridgeOf, On
<1>5. ASSUME NEW s \in Sides PROVE FlowOf(s)
  BY TunnelAssumption DEF TunnelAssumption, FlowOf
<1>6. ASSUME NEW s \in Sides PROVE OrderOf(s)
  BY EmptyWire DEF OrderOf, Faithful, Flight
<1> QED BY <1>1, <1>2, <1>3, <1>4, <1>5, <1>6 DEF TunnelInv

-----------------------------------------------------------------------------
(* The bridge's steps. *)

(* Steps that leave the call, the wires and the tunnel's ends alone.       *)
LEMMA SocketSteps ==
  ASSUME TunnelInv, NEW s \in Sides, UNCHANGED <<plan, callVars, up, wire, tun>>,
         sock' \in [Sides -> Sockets], bridge' \in [Sides -> Bridges],
         sock'[Other(s)] = sock[Other(s)], bridge'[Other(s)] = bridge[Other(s)],
         bridge'[s].state = bridge[s].state,
         (sock'[s].state = "none") <=> (sock[s].state = "none"),
         s = "exit" /\ hp # "called" => bridge'[s] = bridge[s],
         s = "exit" /\ hp \in {"idle", "dialling", "done"} => sock'[s] = sock[s],
         sock[s].ended => sock'[s].ended,
         BridgeOf(s)', FlowOf(s)', OrderOf(s)', OrderOf(Other(s))'
  PROVE  TunnelInv'
<1> USE DEF TunnelInv
<1> DEFINE o == Other(s)
<1>1. o \in Sides /\ Other(o) = s /\ o # s /\ Sides = {s, o} /\ s \in Sides
  BY TwoSides
<1>2. Typed'
  BY DEF Typed, callVars
<1>3. ExitPhase'
  <2>1. s = "exit" \/ o = "exit"  BY <1>1 DEF Sides
  <2> QED BY <1>1, <2>1 DEF Phase, ExitPhase, callVars
<1>4. ClientPhase'
  <2>1. s = "client" \/ o = "client"  BY <1>1 DEF Sides
  <2> QED BY <1>1, <2>1 DEF Phase, ClientPhase, callVars
<1>5. HandshakePhase'
  <2>1. s = "client" \/ o = "client"  BY <1>1 DEF Sides
  <2> QED BY <1>1, <2>1 DEF Phase, HandshakePhase, callVars
<1>5a. EarlyPhase'
  BY DEF Phase, EarlyPhase, callVars, Live
<1>6. ASSUME NEW d \in Sides PROVE WireOf(d)'
  BY DEF WireOf, Flight
<1>7. ASSUME NEW d \in Sides PROVE EofOf(d)'
  <2>1. sock[d].ended => sock'[d].ended
    BY <1>1
  <2> QED BY <2>1 DEF EofOf, Flight
<1>8. BridgeOf(o)'
  BY <1>1 DEF BridgeOf, On
<1>9. FlowOf(o)'
  BY <1>1 DEF FlowOf
<1> QED BY <1>1, <1>2, <1>3, <1>4, <1>5, <1>5a, <1>6, <1>7, <1>8, <1>9 DEF Phase

(* A side and its peer, by their fields. *)
LEMMA SidesTyped ==
  ASSUME Typed, NEW s \in Sides
  PROVE  /\ tun[s] \in Tunnels /\ sock[s] \in Sockets /\ bridge[s] \in Bridges /\ wire[s] \in Seq(Stanzas)
         /\ tun[s].arrived \in Nat /\ tun[s].read \in Nat /\ tun[s].sent \in Nat
         /\ sock[s].said \in Nat /\ sock[s].taken \in Nat /\ sock[s].wrote \in Nat /\ sock[s].heard \in Nat
         /\ sock[s].fin \in BOOLEAN /\ sock[s].ended \in BOOLEAN
         /\ bridge[s].failed \in BOOLEAN /\ bridge[s].tunnelEnded \in BOOLEAN /\ bridge[s].pending \in BOOLEAN
         /\ Window \in Nat \ {0} /\ Buffer \in Nat \ {0} /\ HighWater \in Nat \ {0}
BY TunnelAssumption DEF TunnelAssumption, Typed, Tunnels, Sockets, Bridges

LEMMA TakeChunkKeeps ==
  ASSUME TunnelInv, NEW s \in Sides, TakeChunk(s)
  PROVE  TunnelInv'
<1> USE DEF TunnelInv
<1> DEFINE o == Other(s)
<1>1. o \in Sides /\ Other(o) = s /\ o # s /\ Sides = {s, o}
  BY TwoSides
<1>2. /\ bridge[s].state = "on" /\ sock[s].state # "destroyed"
      /\ sock[s].taken < sock[s].said /\ ~bridge[s].pending
      /\ sock' = [sock EXCEPT ![s].taken = @ + 1]
      /\ bridge' = [bridge EXCEPT ![s].pending = ~bridge[s].tunnelEnded]
      /\ UNCHANGED <<plan, callVars, up, wire, tun>>
  BY DEF TakeChunk, On
<1>3. /\ sock[s] \in Sockets /\ bridge[s] \in Bridges /\ sock[s].taken \in Nat /\ sock[s].said \in Nat
      /\ bridge[s].tunnelEnded \in BOOLEAN /\ tun[s].sent \in Nat
  BY SidesTyped
<1>4. /\ sock' \in [Sides -> Sockets] /\ bridge' \in [Sides -> Bridges]
      /\ sock'[o] = sock[o] /\ bridge'[o] = bridge[o]
  <2>1. [sock[s] EXCEPT !.taken = @ + 1] \in Sockets
    BY <1>3 DEF Sockets
  <2>2. [bridge[s] EXCEPT !.pending = ~bridge[s].tunnelEnded] \in Bridges
    BY <1>3 DEF Bridges
  <2> QED BY <1>1, <1>2, <2>1, <2>2 DEF Typed
<1>5. /\ sock'[s].taken = sock[s].taken + 1 /\ bridge'[s].pending = ~bridge[s].tunnelEnded
      /\ sock'[s].state = sock[s].state /\ sock'[s].said = sock[s].said /\ sock'[s].fin = sock[s].fin
      /\ sock'[s].ended = sock[s].ended /\ sock'[s].wrote = sock[s].wrote /\ sock'[s].heard = sock[s].heard
      /\ bridge'[s].state = bridge[s].state /\ bridge'[s].failed = bridge[s].failed
      /\ bridge'[s].tunnelEnded = bridge[s].tunnelEnded
  BY <1>2, <1>3 DEF Typed
<1>6. BridgeOf(s) /\ FlowOf(s) /\ OrderOf(s) /\ OrderOf(o)
  BY <1>1
<1>7. ~bridge[s].failed /\ ~sock[s].ended
  BY <1>2, <1>3, <1>6 DEF BridgeOf
<1>8. BridgeOf(s)'
  BY <1>2, <1>5, <1>6, <1>7 DEF BridgeOf, On
<1>9. FlowOf(s)'
  <2>1. UNCHANGED tun
    BY <1>2
  <2>2. CASE bridge[s].tunnelEnded
    BY <1>2, <1>3, <1>5, <1>6, <2>1, <2>2 DEF FlowOf
  <2>3. CASE ~bridge[s].tunnelEnded
    <3>1. bridge'[s].pending /\ sock[s].taken = tun[s].sent
      BY <1>2, <1>3, <1>5, <1>6, <1>7, <2>3 DEF FlowOf
    <3> QED BY <1>2, <1>3, <1>5, <1>6, <2>1, <2>3, <3>1 DEF FlowOf
  <2> QED BY <2>2, <2>3
<1>10. OrderOf(s)'
  BY <1>1, <1>2, <1>4, <1>5, <1>6 DEF OrderOf, Faithful, On, Flight
<1>11. OrderOf(o)'
  <2>1. SUFFICES ASSUME Faithful(o)' PROVE OrderOf(o)'
    BY DEF OrderOf
  <2>2. Faithful(o)
    BY <1>2, <1>4, <2>1 DEF Faithful
  <2>3. ~bridge[s].tunnelEnded /\ sock[s].taken = tun[s].sent
    BY <1>1, <1>2, <1>3, <1>6, <1>7, <2>2 DEF OrderOf
  <2>4. bridge'[s].pending /\ sock'[s].taken = tun[s].sent + 1
    BY <1>5, <2>3
  <2> QED BY <1>1, <1>2, <1>4, <1>5, <1>6, <2>2, <2>3, <2>4 DEF OrderOf, Faithful, On, Flight
<1>12. s = "exit" => hp = "called"
  BY <1>2 DEF Phase, ExitPhase, NoBridge
<1> QED BY <1>2, <1>4, <1>5, <1>8, <1>9, <1>10, <1>11, <1>12, SocketSteps

(* Steps of a socket and the application behind it that take and write     *)
(* nothing.                                                                *)
LEMMA SocketAlone ==
  ASSUME TunnelInv, NEW s \in Sides, UNCHANGED <<plan, callVars, up, wire, tun, bridge>>,
         NEW new \in Sockets, sock' = [sock EXCEPT ![s] = new],
         sock[s].state # "none", new.state # "none",
         new.taken = sock[s].taken, new.ended = sock[s].ended, new.wrote = sock[s].wrote,
         sock[s].fin => new.fin,
         BridgeOf(s)', FlowOf(s)'
  PROVE  TunnelInv'
<1> USE DEF TunnelInv
<1> DEFINE o == Other(s)
<1>1. o \in Sides /\ Other(o) = s /\ o # s
  BY TwoSides
<1>2. sock' \in [Sides -> Sockets] /\ sock'[o] = sock[o] /\ sock'[s] = new
  BY <1>1 DEF Typed
<1>3. OrderOf(s) /\ OrderOf(o)
  BY <1>1
<1>4. OrderOf(s)'
  <2>1. Faithful(s)' => Faithful(s)
    BY <1>2 DEF Faithful
  <2> QED BY <1>1, <1>2, <1>3, <2>1 DEF OrderOf, Flight
<1>5. OrderOf(o)'
  <2>1. Faithful(o)' => Faithful(o)
    BY <1>1, <1>2 DEF Faithful
  <2> QED BY <1>1, <1>2, <1>3, <2>1 DEF OrderOf, Flight
<1>6. s = "exit" => hp \notin {"idle", "dialling", "done"}
  BY DEF Phase, ExitPhase, NoSocket
<1>7. bridge' \in [Sides -> Bridges]
  BY DEF Typed
<1>8. (sock'[s].state = "none") <=> (sock[s].state = "none")
  BY <1>2
<1> QED BY <1>1, <1>2, <1>4, <1>5, <1>6, <1>7, <1>8, SocketSteps

LEMMA AppSaysKeeps ==
  ASSUME TunnelInv, NEW s \in Sides, AppSays(s)
  PROVE  TunnelInv'
<1> DEFINE n   == sock[s].said + 1
           new == [sock[s] EXCEPT !.said = n]
<1>1. /\ sock[s].state \in {"open", "ending"} /\ ~sock[s].fin /\ sock' = [sock EXCEPT ![s] = new]
      /\ UNCHANGED <<plan, callVars, up, wire, tun, bridge>>
  BY DEF AppSays
<1>2. sock[s] \in Sockets /\ sock[s].said \in Nat /\ sock[s].taken \in Nat /\ sock \in [Sides -> Sockets]
  BY SidesTyped DEF TunnelInv, Typed
<1>3. n \in Nat /\ n > sock[s].said
  BY <1>2
<1> HIDE DEF n
<1>4. /\ new \in Sockets /\ new.said = n
      /\ new.state = sock[s].state /\ new.fin = sock[s].fin /\ new.taken = sock[s].taken
      /\ new.ended = sock[s].ended /\ new.wrote = sock[s].wrote /\ new.heard = sock[s].heard
  BY <1>2, <1>3 DEF Sockets
<1> HIDE DEF new
<1>5. sock'[s] = new
  BY <1>1, <1>2
<1>6. BridgeOf(s) /\ FlowOf(s)
  BY DEF TunnelInv
<1>7. BridgeOf(s)'
  BY <1>1, <1>4, <1>5, <1>6 DEF BridgeOf, On
<1>8. FlowOf(s)'
  <2>1. sock[s].taken <= n
    BY <1>2, <1>3, <1>6 DEF FlowOf
  <2> QED BY <1>1, <1>4, <1>5, <1>6, <2>1 DEF FlowOf
<1>9. new.state # "none" /\ sock[s].state # "none"
  BY <1>1, <1>4
<1> QED BY <1>1, <1>4, <1>7, <1>8, <1>9, SocketAlone

LEMMA AppHearsKeeps ==
  ASSUME TunnelInv, NEW s \in Sides, AppHears(s)
  PROVE  TunnelInv'
<1> DEFINE n   == sock[s].heard + 1
           new == [sock[s] EXCEPT !.heard = n]
<1>1. /\ sock[s].state \in {"open", "ending"} /\ sock[s].heard < sock[s].wrote
      /\ sock' = [sock EXCEPT ![s] = new]
      /\ UNCHANGED <<plan, callVars, up, wire, tun, bridge>>
  BY DEF AppHears
<1>2. sock[s] \in Sockets /\ sock[s].heard \in Nat /\ sock[s].wrote \in Nat /\ sock \in [Sides -> Sockets]
  BY SidesTyped DEF TunnelInv, Typed
<1>3. n \in Nat /\ n = sock[s].heard + 1
  BY <1>2
<1> HIDE DEF n
<1>4. /\ new \in Sockets /\ new.heard = n
      /\ new.state = sock[s].state /\ new.fin = sock[s].fin /\ new.taken = sock[s].taken
      /\ new.ended = sock[s].ended /\ new.wrote = sock[s].wrote /\ new.said = sock[s].said
  BY <1>2, <1>3 DEF Sockets
<1> HIDE DEF new
<1>5. sock'[s] = new
  BY <1>1, <1>2
<1>6. BridgeOf(s) /\ FlowOf(s)
  BY DEF TunnelInv
<1>7. BridgeOf(s)'
  BY <1>1, <1>4, <1>5, <1>6 DEF BridgeOf, On
<1>8. FlowOf(s)'
  <2>1. n <= sock[s].wrote /\ sock[s].wrote - n <= HighWater
    BY <1>1, <1>2, <1>3, <1>6, SidesTyped DEF FlowOf, TunnelInv
  <2> QED BY <1>1, <1>4, <1>5, <1>6, <2>1 DEF FlowOf
<1>9. new.state # "none" /\ sock[s].state # "none"
  BY <1>1, <1>4
<1> QED BY <1>1, <1>4, <1>7, <1>8, <1>9, SocketAlone

LEMMA AppEndsKeeps ==
  ASSUME TunnelInv, NEW s \in Sides, AppEnds(s)
  PROVE  TunnelInv'
<1> DEFINE new == [sock[s] EXCEPT !.fin = TRUE]
<1>1. /\ sock[s].state \in {"open", "ending"} /\ ~sock[s].fin /\ sock[s].said = plan.says[s]
      /\ sock' = [sock EXCEPT ![s] = new]
      /\ UNCHANGED <<plan, callVars, up, wire, tun, bridge>>
  BY DEF AppEnds
<1>2. sock[s] \in Sockets /\ sock \in [Sides -> Sockets]
  BY SidesTyped DEF TunnelInv, Typed
<1>4. /\ new \in Sockets /\ new.fin = TRUE
      /\ new.state = sock[s].state /\ new.heard = sock[s].heard /\ new.taken = sock[s].taken
      /\ new.ended = sock[s].ended /\ new.wrote = sock[s].wrote /\ new.said = sock[s].said
  BY <1>2 DEF Sockets
<1> HIDE DEF new
<1>5. sock'[s] = new
  BY <1>1, <1>2
<1>6. BridgeOf(s) /\ FlowOf(s)
  BY DEF TunnelInv
<1>7. BridgeOf(s)'
  BY <1>1, <1>4, <1>5, <1>6 DEF BridgeOf, On
<1>8. FlowOf(s)'
  BY <1>1, <1>4, <1>5, <1>6 DEF FlowOf
<1>9. new.state # "none" /\ sock[s].state # "none"
  BY <1>1, <1>4
<1> QED BY <1>1, <1>4, <1>7, <1>8, <1>9, SocketAlone

(* A socket that no bridge looks after, or that has given all it held, is  *)
(* destroyed.                                                              *)
LEMMA DestroyedKeeps ==
  ASSUME TunnelInv, NEW s \in Sides, UNCHANGED <<plan, callVars, up, wire, tun, bridge>>,
         sock[s].state # "none",
         ~On(s) \/ bridge[s].failed \/ (sock[s].state = "ending" /\ sock[s].heard = sock[s].wrote),
         sock' = [sock EXCEPT ![s].state = "destroyed"]
  PROVE  TunnelInv'
<1> DEFINE new == [sock[s] EXCEPT !.state = "destroyed"]
<1>2. sock[s] \in Sockets /\ sock \in [Sides -> Sockets]
  BY SidesTyped DEF TunnelInv, Typed
<1>4. /\ new \in Sockets /\ new.state = "destroyed"
      /\ new.fin = sock[s].fin /\ new.heard = sock[s].heard /\ new.taken = sock[s].taken
      /\ new.ended = sock[s].ended /\ new.wrote = sock[s].wrote /\ new.said = sock[s].said
  BY <1>2 DEF Sockets
<1>3. sock' = [sock EXCEPT ![s] = new]
  OBVIOUS
<1> HIDE DEF new
<1>5. sock'[s] = new
  BY <1>2, <1>3
<1>6. BridgeOf(s) /\ FlowOf(s)
  BY DEF TunnelInv
<1>7. BridgeOf(s)'
  <2>1. sock[s].state = "ending" => sock[s].ended \/ bridge[s].tunnelEnded
    BY <1>6 DEF BridgeOf
  <2> QED BY <1>4, <1>5, <1>6, <2>1 DEF BridgeOf, On
<1>8. FlowOf(s)'
  BY <1>4, <1>5, <1>6 DEF FlowOf
<1>9. new.state # "none"
  BY <1>4
<1> QED BY <1>3, <1>4, <1>7, <1>8, <1>9, SocketAlone

(* The peer closed the tunnel: the bridge's downstream half is done.       *)
LEMMA EndingKeeps ==
  ASSUME TunnelInv, NEW s \in Sides, Reading(s), UNCHANGED <<plan, callVars, up, wire, tun>>,
         bridge' = [bridge EXCEPT ![s].tunnelEnded = TRUE],
         NEW new \in Sockets, sock' = [sock EXCEPT ![s] = new],
         new.taken = sock[s].taken, new.ended = sock[s].ended, new.wrote = sock[s].wrote,
         new.said = sock[s].said, new.fin = sock[s].fin, new.heard = sock[s].heard,
         sock[s].state = "destroyed" => new.state = "destroyed",
         sock[s].state # "destroyed" =>
           new.state = "ending" /\ tun[s].eof = "end" /\ tun[s].read = tun[s].arrived
  PROVE  TunnelInv'
<1> USE DEF TunnelInv
<1> DEFINE o == Other(s)
<1>1. o \in Sides /\ Other(o) = s /\ o # s
  BY TwoSides
<1>2. bridge[s].state = "on" /\ ~bridge[s].failed /\ ~bridge[s].tunnelEnded
  BY DEF Reading, On
<1>3. /\ sock[s] \in Sockets /\ bridge[s] \in Bridges
      /\ sock \in [Sides -> Sockets] /\ bridge \in [Sides -> Bridges]
  BY SidesTyped DEF Typed
<1>4. /\ sock' \in [Sides -> Sockets] /\ sock'[o] = sock[o] /\ sock'[s] = new
  BY <1>1, <1>3
<1>5. /\ bridge' \in [Sides -> Bridges] /\ bridge'[o] = bridge[o]
      /\ bridge'[s].tunnelEnded = TRUE
      /\ bridge'[s].state = bridge[s].state /\ bridge'[s].failed = bridge[s].failed
      /\ bridge'[s].pending = bridge[s].pending
  <2>1. [bridge[s] EXCEPT !.tunnelEnded = TRUE] \in Bridges
    BY <1>3 DEF Bridges
  <2> QED BY <1>1, <1>3, <2>1
<1>6. BridgeOf(s) /\ FlowOf(s) /\ OrderOf(s) /\ OrderOf(o)
  BY <1>1
<1>7. BridgeOf(s)'
  BY <1>2, <1>4, <1>5, <1>6 DEF BridgeOf, On
<1>8. FlowOf(s)'
  BY <1>2, <1>4, <1>5, <1>6 DEF FlowOf
<1>9. OrderOf(s)'
  <2>1. SUFFICES ASSUME Faithful(s)' PROVE OrderOf(s)'
    BY DEF OrderOf
  <2>2. Faithful(s)
    BY <1>2, <1>4, <1>5, <2>1 DEF Faithful
  <2>3. sock[s].state # "destroyed"
    BY <1>2, <1>6, <2>2 DEF BridgeOf, Faithful, On
  <2> QED BY <1>1, <1>2, <1>4, <1>5, <1>6, <2>2, <2>3 DEF OrderOf, Flight
<1>10. OrderOf(o)'
  <2>1. SUFFICES ASSUME Faithful(o)' PROVE OrderOf(o)'
    BY DEF OrderOf
  <2>2. Faithful(o)
    BY <1>1, <1>2, <1>4, <1>5, <2>1 DEF Faithful
  <2>3. sock[s].ended
    <3>1. CASE sock[s].state = "destroyed"
      BY <1>2, <1>6, <3>1 DEF BridgeOf, On
    <3>2. CASE sock[s].state # "destroyed"
      BY <1>1, <1>6, <2>2, <3>2 DEF OrderOf
    <3> QED BY <3>1, <3>2
  <2> QED BY <1>1, <1>2, <1>4, <1>5, <1>6, <2>2, <2>3 DEF OrderOf, Flight
<1>11. s = "exit" => hp = "called"
  BY <1>2 DEF Phase, ExitPhase, NoBridge
<1>12. (sock'[s].state = "none") <=> (sock[s].state = "none")
  BY <1>2, <1>4, <1>6 DEF BridgeOf
<1> QED BY <1>1, <1>4, <1>5, <1>7, <1>8, <1>9, <1>10, <1>11, <1>12, SocketSteps

-----------------------------------------------------------------------------
(* Steps at one end of a tunnel whose bridge is there. *)

LEMMA SideSteps ==
  ASSUME TunnelInv, NEW s \in Sides, UNCHANGED <<plan, callVars, up>>,
         NEW w \in Seq(Stanzas), NEW t \in Tunnels, NEW k \in Sockets, NEW b \in Bridges,
         wire' = [wire EXCEPT ![s] = w], tun' = [tun EXCEPT ![s] = t],
         sock' = [sock EXCEPT ![s] = k], bridge' = [bridge EXCEPT ![s] = b],
         bridge[s].state # "none", b.state # "none", k.state # "none",
         t.state \in {"open", "closing", "over"},
         LeadOf(w) = LeadOf(wire[s]), LeadOf(wire[s]) = 1 => Head(w) = Head(wire[s]),
         t.arrived = tun[s].arrived, t.read >= tun[s].read,
         tun[s].state = "over" => t.state = "over" /\ t.sent = tun[s].sent,
         tun[s].state = "over" /\ wire[s] = <<>> => w = <<>>,
         WireOf(s)', EofOf(s)', BridgeOf(s)', FlowOf(s)', OrderOf(s)', OrderOf(Other(s))'
  PROVE  TunnelInv'
<1> USE DEF TunnelInv
<1> DEFINE o == Other(s)
<1>1. o \in Sides /\ Other(o) = s /\ o # s /\ Sides = {s, o}
  BY TwoSides
<1>2. /\ wire'[s] = w /\ tun'[s] = t /\ sock'[s] = k /\ bridge'[s] = b
      /\ wire'[o] = wire[o] /\ tun'[o] = tun[o] /\ sock'[o] = sock[o] /\ bridge'[o] = bridge[o]
  BY <1>1 DEF Typed
<1>3. Typed'
  BY DEF Typed, callVars
<1>4. hp \in {"opening", "called"} /\ (s = "exit" => hp = "called")
  <2>1. s = "exit" => hp = "called"
    BY DEF Phase, ExitPhase, NoBridge
  <2>2. s = "client" => hp \in {"opening", "called"}
    BY DEF Phase, ClientPhase
  <2> QED BY <2>1, <2>2 DEF Sides
<1>5. ExitPhase'
  <2>1. CASE s = "exit"
    BY <1>2, <1>4, <2>1 DEF ExitPhase, callVars
  <2>2. CASE o = "exit"
    <3>1. LeadOf(wire'["exit"]) = LeadOf(wire["exit"]) /\ LeadOf(wire'["client"]) = LeadOf(wire["client"])
      BY <1>1, <1>2, <2>2 DEF Sides
    <3> QED BY <1>2, <2>2, <3>1 DEF Phase, ExitPhase, callVars
  <2> QED BY <1>1, <2>1, <2>2 DEF Sides
<1>6. ClientPhase'
  <2>1. CASE s = "client"
    BY <1>2, <1>4, <2>1 DEF Phase, ClientPhase, callVars
  <2>2. CASE o = "client"
    BY <1>2, <2>2 DEF Phase, ClientPhase, callVars
  <2> QED BY <1>1, <2>1, <2>2 DEF Sides
<1>7. HandshakePhase'
  <2>1. CASE s = "client"
    <3>1. LeadOf(wire["exit"]) # 1 /\ wire'["exit"] = wire["exit"]
      BY <1>1, <1>2, <2>1 DEF Phase, HandshakePhase, Sides
    <3> QED BY <1>2, <2>1, <3>1 DEF Phase, HandshakePhase, callVars
  <2>2. CASE o = "client"
    <3>1. s = "exit" /\ hp = "called"
      BY <1>1, <1>4, <2>2 DEF Sides
    <3>2. LeadOf(wire["exit"]) # 1 /\ LeadOf(wire["client"]) # 1
      BY <3>1 DEF Phase, HandshakePhase
    <3> QED BY <1>2, <2>2, <3>1, <3>2 DEF HandshakePhase
  <2> QED BY <1>1, <2>1, <2>2 DEF Sides
<1>7a. EarlyPhase'
  <2>1. CASE s = "client"
    BY <2>1 DEF Phase, ClientPhase, EarlyPhase, callVars
  <2>2. CASE s = "exit"
    <3>1. hp = "called" /\ LeadOf(wire["exit"]) # 1 /\ tun["exit"].state \in {"open", "closing", "over"}
      BY <1>4, <2>2 DEF Phase, HandshakePhase, ExitPhase
    <3>2. pc # "settled" => wire["exit"] = <<>> /\ tun["exit"].state = "over"
      BY <3>1 DEF Phase, EarlyPhase, Live
    <3> QED BY <1>1, <1>2, <2>2, <3>1, <3>2 DEF Phase, EarlyPhase, callVars, Live, Sides
  <2> QED BY <2>1, <2>2 DEF Sides
<1>8. WireOf(o)'
  BY <1>1, <1>2 DEF WireOf, Flight
<1>9. EofOf(o)'
  BY <1>1, <1>2 DEF EofOf, Flight
<1>10. BridgeOf(o)'
  BY <1>1, <1>2 DEF BridgeOf, On
<1>11. FlowOf(o)'
  <2>1. /\ tun[o].sent \in Nat /\ tun[s].read \in Nat /\ t.read \in Nat
        /\ tun[o].sent - tun[s].read <= Window + Buffer /\ Window \in Nat /\ Buffer \in Nat
    BY <1>1, SidesTyped DEF FlowOf, Tunnels
  <2>2. tun[o].sent - t.read <= Window + Buffer
    BY <2>1
  <2> QED BY <1>1, <1>2, <2>2 DEF FlowOf
<1> QED BY <1>1, <1>3, <1>5, <1>6, <1>7, <1>7a, <1>8, <1>9, <1>10, <1>11 DEF Phase

(* abort(): what the wire carries, and the end of the tunnel. *)
LEMMA Aborting ==
  ASSUME Typed, NEW s \in Sides, WireOf(s), EofOf(s), AbortTells(s)
  PROVE  /\ wire' = [wire EXCEPT ![s] = wire'[s]] /\ wire'[s] \in Seq(Stanzas)
         /\ Shaped(wire'[s], Flight(s))
         /\ LeadOf(wire'[s]) = LeadOf(wire[s])
         /\ LeadOf(wire[s]) = 1 => Head(wire'[s]) = Head(wire[s])
         /\ wire[s] = <<>> /\ ~Live(s) => wire'[s] = <<>>
<1>1. wire \in [Sides -> Seq(Stanzas)] /\ Shaped(wire[s], Flight(s))
  BY DEF Typed, WireOf
<1>2. CASE Live(s)
  <2>1. wire' = [wire EXCEPT ![s] = Append(wire[s], "close")]
    BY <1>2 DEF AbortTells, Put
  <2>2. wire'[s] = Append(wire[s], "close")
    BY <1>1, <2>1
  <2>3. Append(wire[s], "close") \in Seq(Stanzas)
    BY <1>1 DEF Stanzas
  <2> QED BY <1>1, <1>2, <2>1, <2>2, <2>3, PutClose
<1>3. CASE ~Live(s)
  <2>1. wire' = wire
    BY <1>3 DEF AbortTells
  <2> QED BY <1>1, <2>1
<1> QED BY <1>2, <1>3

LEMMA AbortedTunnel ==
  ASSUME NEW t \in Tunnels
  PROVE  /\ Aborted(t) \in Tunnels /\ Aborted(t).state = "over" /\ Aborted(t).eof # "no"
         /\ t.eof # "no" => Aborted(t).eof = t.eof
         /\ Aborted(t).eof = "end" <=> t.eof = "end"
         /\ Aborted(t).arrived = t.arrived /\ Aborted(t).read = t.read /\ Aborted(t).sent = t.sent
BY DEF Aborted, Tunnels

LEMMA StutterKeeps ==
  ASSUME TunnelInv, UNCHANGED vars
  PROVE  TunnelInv'
BY DEF TunnelInv, vars, pipeVars, callVars, Typed, Phase, ExitPhase, ClientPhase, HandshakePhase, EarlyPhase, Live,
       WireOf, EofOf, BridgeOf, FlowOf, OrderOf, Faithful, Flight, On

LEMMA FailKeeps ==
  ASSUME TunnelInv, NEW s \in Sides, On(s), Fail(s), UNCHANGED <<plan, callVars, up>>
  PROVE  TunnelInv'
<1> USE DEF TunnelInv
<1> DEFINE o == Other(s)
           w == wire'[s]
           t == Aborted(tun[s])
           k == [sock[s] EXCEPT !.state = "destroyed"]
           b == [[bridge[s] EXCEPT !.failed = TRUE] EXCEPT !.pending = FALSE]
<1>1. o \in Sides /\ Other(o) = s /\ o # s /\ Sides = {s, o}
  BY TwoSides
<1>2. CASE bridge[s].failed
  <2>1. UNCHANGED vars
    BY <1>2 DEF Fail, vars
  <2> QED BY <2>1, StutterKeeps
<1>3. CASE ~bridge[s].failed
  <2>1. /\ bridge' = [bridge EXCEPT ![s].failed = TRUE, ![s].pending = FALSE]
        /\ sock' = [sock EXCEPT ![s] = k] /\ tun' = [tun EXCEPT ![s] = t] /\ AbortTells(s)
    BY <1>3 DEF Fail, AbortTunnel
  <2>2. /\ bridge[s] \in Bridges /\ sock[s] \in Sockets /\ tun[s] \in Tunnels
        /\ bridge \in [Sides -> Bridges] /\ sock \in [Sides -> Sockets] /\ tun \in [Sides -> Tunnels]
        /\ wire \in [Sides -> Seq(Stanzas)]
    BY SidesTyped DEF Typed
  <2>3. bridge' = [bridge EXCEPT ![s] = b]
    BY <2>1, <2>2
  <2>4. /\ b \in Bridges /\ b.failed = TRUE /\ b.pending = FALSE /\ b.state = bridge[s].state
        /\ b.tunnelEnded = bridge[s].tunnelEnded
    BY <2>2 DEF Bridges
  <2>5. /\ k \in Sockets /\ k.state = "destroyed" /\ k.said = sock[s].said /\ k.fin = sock[s].fin
        /\ k.taken = sock[s].taken /\ k.ended = sock[s].ended /\ k.wrote = sock[s].wrote /\ k.heard = sock[s].heard
    BY <2>2 DEF Sockets
  <2>6. /\ t \in Tunnels /\ t.state = "over" /\ t.eof # "no" /\ (t.eof = "end" <=> tun[s].eof = "end")
        /\ t.arrived = tun[s].arrived /\ t.read = tun[s].read /\ t.sent = tun[s].sent
    BY <2>2, AbortedTunnel
  <2>7. /\ wire' = [wire EXCEPT ![s] = w] /\ w \in Seq(Stanzas) /\ Shaped(w, Flight(s))
        /\ LeadOf(w) = LeadOf(wire[s]) /\ (LeadOf(wire[s]) = 1 => Head(w) = Head(wire[s]))
        /\ tun[s].state = "over" /\ wire[s] = <<>> => w = <<>>
    BY <2>1, Aborting DEF Live
  <2> HIDE DEF w, t, k, b
  <2>8. /\ wire'[s] = w /\ tun'[s] = t /\ sock'[s] = k /\ bridge'[s] = b
        /\ wire'[o] = wire[o] /\ tun'[o] = tun[o] /\ sock'[o] = sock[o] /\ bridge'[o] = bridge[o]
    BY <1>1, <2>1, <2>2, <2>3, <2>7
  <2>9. WireOf(s) /\ EofOf(s) /\ BridgeOf(s) /\ FlowOf(s) /\ OrderOf(s) /\ OrderOf(o)
    BY <1>1
  <2>10. WireOf(s)'
    BY <1>1, <2>6, <2>7, <2>8 DEF WireOf, Flight
  <2>11. EofOf(s)'
    BY <1>1, <2>5, <2>6, <2>8, <2>9 DEF EofOf, Flight
  <2>12. BridgeOf(s)'
    BY <2>4, <2>5, <2>6, <2>8, <2>9 DEF BridgeOf, On
  <2>13. FlowOf(s)'
    BY <1>1, <2>4, <2>5, <2>6, <2>8, <2>9 DEF FlowOf
  <2>14. OrderOf(s)'
    BY <2>4, <2>8 DEF OrderOf, Faithful
  <2>15. OrderOf(o)'
    <3>1. Faithful(o)' => Faithful(o)
      BY <1>1, <2>8 DEF Faithful
    <3> QED BY <1>1, <2>4, <2>5, <2>6, <2>8, <2>9, <3>1 DEF OrderOf, Flight
  <2>16. bridge[s].state # "none" /\ t.read >= tun[s].read
    BY <2>2, <2>6, SidesTyped DEF On
  <2> QED BY <2>1, <2>3, <2>4, <2>5, <2>6, <2>7, <2>10, <2>11, <2>12, <2>13, <2>14, <2>15, <2>16, SideSteps
<1> QED BY <1>2, <1>3

LEMMA StartKeeps ==
  ASSUME TunnelInv, NEW s \in Sides, Start(s)
  PROVE  TunnelInv'
<1> USE DEF TunnelInv
<1> DEFINE o == Other(s)
           w == wire'[s]
           t == IF sock[s].state = "destroyed" THEN Aborted(tun[s]) ELSE tun[s]
           b == [bridge[s] EXCEPT !.state = IF sock[s].state = "destroyed" THEN "done" ELSE "on"]
<1>1. o \in Sides /\ Other(o) = s /\ o # s /\ Sides = {s, o}
  BY TwoSides
<1>2. /\ bridge[s].state = "due" /\ bridge' = [bridge EXCEPT ![s] = b]
      /\ UNCHANGED <<plan, callVars, up, sock>>
  BY DEF Start
<1>3. /\ bridge[s] \in Bridges /\ sock[s] \in Sockets /\ tun[s] \in Tunnels
      /\ bridge \in [Sides -> Bridges] /\ sock \in [Sides -> Sockets] /\ tun \in [Sides -> Tunnels]
      /\ wire \in [Sides -> Seq(Stanzas)] /\ tun[s].read \in Nat
  BY SidesTyped DEF Typed
<1>4. /\ b \in Bridges /\ b.failed = bridge[s].failed /\ b.pending = bridge[s].pending
      /\ b.tunnelEnded = bridge[s].tunnelEnded /\ b.state \in {"done", "on"}
      /\ b.state = "on" <=> sock[s].state # "destroyed"
  BY <1>3 DEF Bridges
<1>5. WireOf(s) /\ EofOf(s) /\ BridgeOf(s) /\ FlowOf(s) /\ OrderOf(s) /\ OrderOf(o)
  BY <1>1
<1>6. sock' = [sock EXCEPT ![s] = sock[s]]
  BY <1>2, <1>3
<1>7. tun[s].state \in {"open", "closing", "over"}
  <2>1. s = "exit" => hp = "called"
    BY <1>2 DEF Phase, ExitPhase, NoBridge
  <2> QED BY <1>2, <2>1 DEF Phase, ExitPhase, ClientPhase, Sides
<1>8. /\ t \in Tunnels /\ t.state \in {"open", "closing", "over"} /\ (t.eof = "end" <=> tun[s].eof = "end")
      /\ t.arrived = tun[s].arrived /\ t.read = tun[s].read /\ t.sent = tun[s].sent
      /\ t.state = "over" \/ t = tun[s]
      /\ tun[s].state = "over" => t.state = "over"
      /\ sock[s].state # "destroyed" => t = tun[s]
      /\ t = tun[s] \/ t.eof # "no"
  <2>1. CASE sock[s].state = "destroyed"
    BY <1>3, <2>1, AbortedTunnel
  <2>2. CASE sock[s].state # "destroyed"
    BY <1>3, <1>7, <2>2
  <2> QED BY <2>1, <2>2
<1>9. /\ tun' = [tun EXCEPT ![s] = t]
      /\ wire' = [wire EXCEPT ![s] = w] /\ w \in Seq(Stanzas) /\ Shaped(w, Flight(s))
      /\ LeadOf(w) = LeadOf(wire[s]) /\ (LeadOf(wire[s]) = 1 => Head(w) = Head(wire[s]))
      /\ w = wire[s] \/ t.state = "over"
      /\ sock[s].state # "destroyed" => w = wire[s]
      /\ tun[s].state = "over" /\ wire[s] = <<>> => w = <<>>
  <2>1. CASE sock[s].state = "destroyed"
    <3>1. tun' = [tun EXCEPT ![s] = t] /\ AbortTells(s)
      BY <2>1 DEF Start, AbortTunnel
    <3>2. t.state = "over"
      BY <1>3, <2>1, AbortedTunnel
    <3> QED BY <1>5, <2>1, <3>1, <3>2, Aborting DEF Live
  <2>2. CASE sock[s].state # "destroyed"
    <3>1. wire' = wire /\ tun' = tun
      BY <2>2 DEF Start
    <3> QED BY <1>3, <1>5, <2>2, <3>1 DEF WireOf
  <2> QED BY <2>1, <2>2
<1> HIDE DEF w, t, b
<1>10. /\ wire'[s] = w /\ tun'[s] = t /\ sock'[s] = sock[s] /\ bridge'[s] = b
       /\ wire'[o] = wire[o] /\ tun'[o] = tun[o] /\ sock'[o] = sock[o] /\ bridge'[o] = bridge[o]
  BY <1>1, <1>2, <1>3, <1>9
<1>11. WireOf(s)'
  BY <1>1, <1>5, <1>8, <1>9, <1>10 DEF WireOf, Flight
<1>12. EofOf(s)'
  BY <1>1, <1>5, <1>8, <1>10 DEF EofOf, Flight
<1>13. BridgeOf(s)'
  BY <1>2, <1>4, <1>5, <1>8, <1>10 DEF BridgeOf, On
<1>14. FlowOf(s)'
  BY <1>1, <1>2, <1>4, <1>5, <1>8, <1>10 DEF FlowOf
<1>15. OrderOf(s)'
  <2>1. SUFFICES ASSUME Faithful(s)' PROVE OrderOf(s)'
    BY DEF OrderOf
  <2>2. sock[s].state # "destroyed"
    BY <1>4, <1>10, <2>1 DEF Faithful
  <2>3. Faithful(s)
    BY <1>2, <1>4, <1>10, <2>1 DEF Faithful
  <2>4. t = tun[s] /\ w = wire[s]
    BY <1>8, <1>9, <2>2
  <2> QED BY <1>1, <1>4, <1>5, <1>10, <2>3, <2>4 DEF OrderOf, Flight
<1>16. OrderOf(o)'
  <2>1. Faithful(o)' => Faithful(o)
    BY <1>1, <1>2, <1>10 DEF Faithful
  <2> QED BY <1>1, <1>4, <1>5, <1>8, <1>10, <2>1 DEF OrderOf, Flight
<1>17. bridge[s].state # "none" /\ b.state # "none" /\ t.read >= tun[s].read /\ sock[s].state # "none"
  BY <1>2, <1>3, <1>4, <1>5, <1>8 DEF BridgeOf
<1> QED BY <1>2, <1>3, <1>4, <1>6, <1>8, <1>9, <1>11, <1>12, <1>13, <1>14, <1>15, <1>16, <1>17, SideSteps

LEMMA WriteChunkKeeps ==
  ASSUME TunnelInv, NEW s \in Sides, WriteChunk(s)
  PROVE  TunnelInv'
<1> USE DEF TunnelInv
<1> DEFINE o == Other(s)
           w == Append(wire[s], "data")
           n == tun[s].sent + 1
           t == [tun[s] EXCEPT !.sent = n]
           b == [bridge[s] EXCEPT !.pending = FALSE]
<1>1. o \in Sides /\ Other(o) = s /\ o # s /\ Sides = {s, o}
  BY TwoSides
<1>2. WireOf(s) /\ EofOf(s) /\ BridgeOf(s) /\ FlowOf(s) /\ OrderOf(s) /\ OrderOf(o)
  BY <1>1
<1>3. /\ bridge[s].pending /\ bridge[s].state = "on" /\ ~bridge[s].failed /\ ~sock[s].ended
      /\ sock[s].state # "none"
      /\ UNCHANGED <<plan, callVars, up>>
  BY <1>2 DEF WriteChunk, BridgeOf
<1>4. CASE tun[s].state # "open"
  <2>1. On(s) /\ Fail(s)
    BY <1>3, <1>4 DEF WriteChunk, On
  <2> QED BY <1>3, <2>1, FailKeeps
<1>5. CASE tun[s].state = "open"
  <2>1. /\ Unacked(s) < Window /\ wire' = [wire EXCEPT ![s] = w] /\ tun' = [tun EXCEPT ![s] = t]
        /\ bridge' = [bridge EXCEPT ![s] = b] /\ sock' = sock
    BY <1>5 DEF WriteChunk, Put
  <2>2. /\ bridge[s] \in Bridges /\ sock[s] \in Sockets /\ tun[s] \in Tunnels
        /\ bridge \in [Sides -> Bridges] /\ sock \in [Sides -> Sockets] /\ tun \in [Sides -> Tunnels]
        /\ wire \in [Sides -> Seq(Stanzas)] /\ tun[s].read \in Nat /\ tun[s].sent \in Nat
        /\ tun[o].arrived \in Nat /\ tun[o].read \in Nat /\ sock[s].taken \in Nat
        /\ Window \in Nat \ {0} /\ Buffer \in Nat \ {0}
    BY <1>1, SidesTyped DEF Typed
  <2>3. n \in Nat /\ n = tun[s].sent + 1 /\ n - tun[o].arrived = Flight(s) + 1
    BY <2>2 DEF Flight
  <2>4. n - tun[o].read <= Window + Buffer
    <3>1. \A a, r, c, B, W \in Nat : (a - c) + (IF c - r - B > 0 THEN c - r - B ELSE 0) < W => a + 1 - r <= W + B
      OBVIOUS
    <3>2. (tun[s].sent - tun[o].arrived)
            + (IF tun[o].arrived - tun[o].read - Buffer > 0 THEN tun[o].arrived - tun[o].read - Buffer ELSE 0)
            < Window
      BY <2>1 DEF Unacked
    <3>3. tun[s].sent + 1 - tun[o].read <= Window + Buffer
      BY <2>2, <3>1, <3>2
    <3> QED BY <2>2, <2>3, <3>3
  <2>5. /\ ~HasClose(wire[s], Flight(s)) /\ tun[s].eof = "no"
    BY <1>2, <1>5 DEF WireOf, EofOf
  <2>6. /\ Shaped(w, Flight(s) + 1) /\ ~HasClose(w, Flight(s) + 1) /\ LeadOf(w) = LeadOf(wire[s])
        /\ (LeadOf(wire[s]) = 1 => Head(w) = Head(wire[s]))
    BY <1>2, <2>5, PutData DEF WireOf
  <2>7. w \in Seq(Stanzas) /\ sock' = [sock EXCEPT ![s] = sock[s]]
    BY <2>1, <2>2 DEF Stanzas
  <2>8. sock[s].taken = tun[s].sent + 1 \/ bridge[s].tunnelEnded
    BY <1>2, <1>3 DEF FlowOf
  <2> HIDE DEF n, w
  <2>9. /\ t \in Tunnels /\ t.sent = n /\ t.state = "open" /\ t.eof = "no"
        /\ t.arrived = tun[s].arrived /\ t.read = tun[s].read
    BY <1>5, <2>2, <2>3, <2>5 DEF Tunnels
  <2>10. /\ b \in Bridges /\ b.pending = FALSE /\ b.state = bridge[s].state
         /\ b.failed = bridge[s].failed /\ b.tunnelEnded = bridge[s].tunnelEnded
    BY <2>2 DEF Bridges
  <2> HIDE DEF t, b
  <2>11. /\ wire'[s] = w /\ tun'[s] = t /\ sock'[s] = sock[s] /\ bridge'[s] = b
         /\ wire'[o] = wire[o] /\ tun'[o] = tun[o] /\ sock'[o] = sock[o] /\ bridge'[o] = bridge[o]
    BY <1>1, <2>1, <2>2
  <2>12. WireOf(s)' /\ Flight(s)' = Flight(s) + 1
    BY <1>1, <2>3, <2>6, <2>9, <2>11 DEF WireOf, Flight
  <2>13. EofOf(s)'
    BY <2>9, <2>11 DEF EofOf
  <2>14. BridgeOf(s)'
    BY <1>2, <1>3, <2>9, <2>10, <2>11 DEF BridgeOf, On
  <2>15. FlowOf(s)'
    BY <1>1, <1>2, <2>3, <2>4, <2>8, <2>9, <2>10, <2>11 DEF FlowOf
  <2>16. OrderOf(s)'
    <3>1. Faithful(s)' => Faithful(s)
      BY <1>3, <2>10, <2>11 DEF Faithful
    <3> QED BY <1>1, <1>2, <2>5, <2>6, <2>9, <2>10, <2>11, <2>12, <3>1 DEF OrderOf
  <2>17. OrderOf(o)'
    <3>1. Faithful(o)' => Faithful(o)
      BY <1>1, <1>3, <2>11 DEF Faithful
    <3>2. Faithful(o) => sock[s].taken = n
      BY <1>1, <1>2, <1>3, <2>3 DEF OrderOf
    <3> QED BY <1>1, <1>2, <1>3, <2>9, <2>10, <2>11, <3>1, <3>2 DEF OrderOf, Flight
  <2>18. t.read >= tun[s].read /\ b.state # "none" /\ bridge[s].state # "none"
    BY <1>3, <2>2, <2>9, <2>10
  <2> QED BY <1>3, <1>5, <2>1, <2>2, <2>6, <2>7, <2>9, <2>10, <2>12, <2>13, <2>14, <2>15, <2>16, <2>17,
             <2>18, SideSteps
<1> QED BY <1>4, <1>5

LEMMA SocketEndsKeeps ==
  ASSUME TunnelInv, NEW s \in Sides, SocketEnds(s)
  PROVE  TunnelInv'
<1> USE DEF TunnelInv
<1> DEFINE o == Other(s)
           k == [[sock[s] EXCEPT !.ended = TRUE] EXCEPT !.state = "ending"]
           t == [tun[s] EXCEPT !.state = IF tun[s].state = "open" THEN "closing" ELSE tun[s].state]
<1>1. o \in Sides /\ Other(o) = s /\ o # s /\ Sides = {s, o}
  BY TwoSides
<1>2. WireOf(s) /\ EofOf(s) /\ BridgeOf(s) /\ FlowOf(s) /\ OrderOf(s) /\ OrderOf(o)
  BY <1>1
<1>3. /\ bridge[s].state = "on" /\ sock[s].state # "destroyed"
      /\ sock[s].fin /\ ~sock[s].ended /\ sock[s].taken = sock[s].said /\ ~bridge[s].pending
      /\ sock' = [sock EXCEPT ![s].ended = TRUE, ![s].state = "ending"]
      /\ tun' = [tun EXCEPT ![s] = t]
      /\ UNCHANGED <<plan, callVars, up, wire, bridge>>
  BY DEF SocketEnds, On
<1>4. /\ bridge[s] \in Bridges /\ sock[s] \in Sockets /\ tun[s] \in Tunnels
      /\ bridge \in [Sides -> Bridges] /\ sock \in [Sides -> Sockets] /\ tun \in [Sides -> Tunnels]
      /\ wire \in [Sides -> Seq(Stanzas)] /\ tun[s].read \in Nat /\ wire[s] \in Seq(Stanzas)
  BY SidesTyped DEF Typed
<1>5. /\ sock' = [sock EXCEPT ![s] = k] /\ wire' = [wire EXCEPT ![s] = wire[s]]
      /\ bridge' = [bridge EXCEPT ![s] = bridge[s]]
  BY <1>3, <1>4
<1>6. tun[s].state \in {"open", "closing", "over"}
  <2>1. s = "exit" => hp = "called"
    BY <1>3 DEF Phase, ExitPhase, NoBridge
  <2> QED BY <1>3, <2>1 DEF Phase, ExitPhase, ClientPhase, Sides
<1>7. /\ k \in Sockets /\ k.state = "ending" /\ k.ended = TRUE /\ k.said = sock[s].said /\ k.fin = sock[s].fin
      /\ k.taken = sock[s].taken /\ k.wrote = sock[s].wrote /\ k.heard = sock[s].heard
  BY <1>4 DEF Sockets
<1>8. /\ t \in Tunnels /\ t.state \in {"closing", "over"} /\ (t.state = "over" <=> tun[s].state = "over")
      /\ t.eof = tun[s].eof /\ t.arrived = tun[s].arrived /\ t.read = tun[s].read /\ t.sent = tun[s].sent
  BY <1>4, <1>6 DEF Tunnels
<1> HIDE DEF k, t
<1>9. /\ wire'[s] = wire[s] /\ tun'[s] = t /\ sock'[s] = k /\ bridge'[s] = bridge[s]
      /\ wire'[o] = wire[o] /\ tun'[o] = tun[o] /\ sock'[o] = sock[o] /\ bridge'[o] = bridge[o]
  BY <1>1, <1>3, <1>4, <1>5
<1>10. WireOf(s)'
  BY <1>1, <1>2, <1>8, <1>9 DEF WireOf, Flight
<1>11. EofOf(s)'
  BY <1>2, <1>7, <1>8, <1>9 DEF EofOf, Flight
<1>12. BridgeOf(s)'
  BY <1>2, <1>3, <1>7, <1>8, <1>9 DEF BridgeOf, On
<1>13. FlowOf(s)'
  BY <1>1, <1>2, <1>7, <1>8, <1>9 DEF FlowOf
<1>14. OrderOf(s)'
  BY <1>3, <1>7, <1>9 DEF OrderOf, Faithful
<1>15. OrderOf(o)'
  <2>1. Faithful(o)' => Faithful(o)
    BY <1>1, <1>3, <1>9 DEF Faithful
  <2> QED BY <1>1, <1>2, <1>7, <1>8, <1>9, <2>1 DEF OrderOf, Flight
<1>16. bridge[s].state # "none" /\ k.state # "none" /\ t.read >= tun[s].read
       /\ t.state \in {"open", "closing", "over"}
  BY <1>3, <1>4, <1>7, <1>8
<1> QED BY <1>3, <1>4, <1>5, <1>7, <1>8, <1>10, <1>11, <1>12, <1>13, <1>14, <1>15, <1>16, SideSteps

LEMMA SendCloseKeeps ==
  ASSUME TunnelInv, NEW s \in Sides, SendClose(s)
  PROVE  TunnelInv'
<1> USE DEF TunnelInv
<1> DEFINE o == Other(s)
           w == Append(wire[s], "close")
           t == [[tun[s] EXCEPT !.state = "over"] EXCEPT !.eof = "end"]
<1>1. o \in Sides /\ Other(o) = s /\ o # s /\ Sides = {s, o}
  BY TwoSides
<1>2. WireOf(s) /\ EofOf(s) /\ BridgeOf(s) /\ FlowOf(s) /\ OrderOf(s) /\ OrderOf(o)
  BY <1>1
<1>3. /\ tun[s].state = "closing"
      /\ wire' = [wire EXCEPT ![s] = w]
      /\ tun' = [tun EXCEPT ![s].state = "over", ![s].eof = "end"]
      /\ UNCHANGED <<plan, callVars, up, sock, bridge>>
  BY DEF SendClose, Put
<1>4. /\ bridge[s] \in Bridges /\ sock[s] \in Sockets /\ tun[s] \in Tunnels
      /\ bridge \in [Sides -> Bridges] /\ sock \in [Sides -> Sockets] /\ tun \in [Sides -> Tunnels]
      /\ wire \in [Sides -> Seq(Stanzas)] /\ tun[s].read \in Nat
  BY SidesTyped DEF Typed
<1>5. /\ tun' = [tun EXCEPT ![s] = t] /\ sock' = [sock EXCEPT ![s] = sock[s]]
      /\ bridge' = [bridge EXCEPT ![s] = bridge[s]]
  BY <1>3, <1>4
<1>6. sock[s].ended /\ sock[s].fin /\ bridge[s].state = "on" /\ sock[s].state # "none"
  BY <1>2, <1>3 DEF BridgeOf
<1>7. /\ t \in Tunnels /\ t.state = "over" /\ t.eof = "end"
      /\ t.arrived = tun[s].arrived /\ t.read = tun[s].read /\ t.sent = tun[s].sent
  BY <1>4 DEF Tunnels
<1>8. w \in Seq(Stanzas) /\ Shaped(w, Flight(s)) /\ LeadOf(w) = LeadOf(wire[s])
      /\ (LeadOf(wire[s]) = 1 => Head(w) = Head(wire[s]))
  BY <1>2, <1>4, PutClose DEF WireOf, Shaped
<1> HIDE DEF w, t
<1>9. /\ wire'[s] = w /\ tun'[s] = t /\ sock'[s] = sock[s] /\ bridge'[s] = bridge[s]
      /\ wire'[o] = wire[o] /\ tun'[o] = tun[o] /\ sock'[o] = sock[o] /\ bridge'[o] = bridge[o]
  BY <1>1, <1>3, <1>4, <1>5
<1>10. WireOf(s)'
  BY <1>1, <1>7, <1>8, <1>9 DEF WireOf, Flight
<1>11. EofOf(s)'
  BY <1>6, <1>7, <1>9 DEF EofOf
<1>12. BridgeOf(s)'
  BY <1>2, <1>3, <1>6, <1>7, <1>9 DEF BridgeOf, On
<1>13. FlowOf(s)'
  BY <1>1, <1>2, <1>7, <1>9 DEF FlowOf
<1>14. OrderOf(s)'
  BY <1>6, <1>9 DEF OrderOf, Faithful
<1>15. OrderOf(o)'
  <2>1. Faithful(o)' => Faithful(o)
    BY <1>1, <1>3, <1>9 DEF Faithful
  <2> QED BY <1>1, <1>2, <1>6, <1>7, <1>9, <2>1 DEF OrderOf, Flight
<1>16. bridge[s].state # "none" /\ t.read >= tun[s].read
       /\ t.state \in {"open", "closing", "over"} /\ tun[s].state # "over"
  BY <1>3, <1>4, <1>6, <1>7
<1>17. wire' = [wire EXCEPT ![s] = w] /\ UNCHANGED <<plan, callVars, up>>
       /\ bridge[s] \in Bridges /\ sock[s] \in Sockets /\ bridge[s].state # "none" /\ sock[s].state # "none"
  BY <1>3, <1>4, <1>6
<1> QED BY <1>5, <1>7, <1>8, <1>10, <1>11, <1>12, <1>13, <1>14, <1>15, <1>16, <1>17, SideSteps

LEMMA ReadTunnelKeeps ==
  ASSUME TunnelInv, NEW s \in Sides, ReadTunnel(s)
  PROVE  TunnelInv'
<1> USE DEF TunnelInv
<1> DEFINE o == Other(s)
           n == tun[s].read + 1
           m == sock[s].wrote + 1
           t == [tun[s] EXCEPT !.read = n]
           k == [sock[s] EXCEPT !.wrote = m]
<1>1. o \in Sides /\ Other(o) = s /\ o # s /\ Sides = {s, o}
  BY TwoSides
<1>2. WireOf(s) /\ EofOf(s) /\ BridgeOf(s) /\ FlowOf(s) /\ OrderOf(s) /\ OrderOf(o)
  BY <1>1
<1>3. /\ Reading(s) /\ On(s) /\ bridge[s].state = "on" /\ ~bridge[s].failed /\ ~bridge[s].tunnelEnded
      /\ tun[s].eof # "error" /\ tun[s].read < tun[s].arrived
      /\ sock[s].state # "destroyed" => sock[s].wrote - sock[s].heard < HighWater
      /\ UNCHANGED <<plan, callVars, up>>
  BY DEF ReadTunnel, Reading, On
<1>4. /\ bridge[s] \in Bridges /\ sock[s] \in Sockets /\ tun[s] \in Tunnels
      /\ bridge \in [Sides -> Bridges] /\ sock \in [Sides -> Sockets] /\ tun \in [Sides -> Tunnels]
      /\ wire \in [Sides -> Seq(Stanzas)] /\ wire[s] \in Seq(Stanzas)
      /\ tun[s].read \in Nat /\ tun[s].arrived \in Nat /\ sock[s].wrote \in Nat /\ sock[s].heard \in Nat
      /\ tun[s].sent \in Nat /\ HighWater \in Nat
  BY SidesTyped DEF Typed
<1>5. sock[s].state \in {"open", "ending", "destroyed"}
  BY <1>2, <1>3, <1>4 DEF BridgeOf, Sockets
<1>6. CASE sock[s].state = "ending"
  <2>1. Fail(s)
    BY <1>6 DEF ReadTunnel
  <2> QED BY <1>3, <2>1, FailKeeps
<1>7. CASE sock[s].state = "destroyed"
  <2>1. bridge' = [bridge EXCEPT ![s].tunnelEnded = TRUE] /\ UNCHANGED <<wire, tun, sock>>
    BY <1>7 DEF ReadTunnel
  <2>2. sock' = [sock EXCEPT ![s] = sock[s]]
    BY <1>4, <2>1
  <2> QED BY <1>3, <1>4, <1>7, <2>1, <2>2, EndingKeeps
<1>8. CASE sock[s].state = "open"
  <2>1. /\ tun' = [tun EXCEPT ![s] = t] /\ sock' = [sock EXCEPT ![s] = k] /\ UNCHANGED <<wire, bridge>>
    BY <1>8 DEF ReadTunnel
  <2>2. /\ n \in Nat /\ n >= tun[s].read /\ n <= tun[s].arrived /\ m \in Nat
        /\ sock[s].heard <= m /\ m - sock[s].heard <= HighWater
        /\ (tun[s].read = sock[s].wrote => n = m)
    <3>1. sock[s].heard <= sock[s].wrote /\ sock[s].wrote - sock[s].heard < HighWater
      BY <1>2, <1>3, <1>8 DEF FlowOf
    <3> QED BY <1>3, <1>4, <3>1
  <2> HIDE DEF n, m
  <2>3. /\ t \in Tunnels /\ t.read = n /\ t.state = tun[s].state /\ t.eof = tun[s].eof
        /\ t.arrived = tun[s].arrived /\ t.sent = tun[s].sent
    BY <1>4, <2>2 DEF Tunnels
  <2>4. /\ k \in Sockets /\ k.wrote = m /\ k.state = sock[s].state /\ k.said = sock[s].said
        /\ k.fin = sock[s].fin /\ k.taken = sock[s].taken /\ k.ended = sock[s].ended /\ k.heard = sock[s].heard
    BY <1>4, <2>2 DEF Sockets
  <2> HIDE DEF t, k
  <2>5. wire' = [wire EXCEPT ![s] = wire[s]] /\ bridge' = [bridge EXCEPT ![s] = bridge[s]]
    BY <1>4, <2>1
  <2>6. /\ wire'[s] = wire[s] /\ tun'[s] = t /\ sock'[s] = k /\ bridge'[s] = bridge[s]
        /\ wire'[o] = wire[o] /\ tun'[o] = tun[o] /\ sock'[o] = sock[o] /\ bridge'[o] = bridge[o]
    BY <1>1, <1>4, <2>1
  <2>7. WireOf(s)'
    BY <1>1, <1>2, <2>3, <2>6 DEF WireOf, Flight
  <2>8. EofOf(s)'
    BY <1>1, <1>2, <2>3, <2>4, <2>6 DEF EofOf, Flight
  <2>9. BridgeOf(s)'
    BY <1>2, <1>3, <1>8, <2>3, <2>4, <2>6 DEF BridgeOf, On
  <2>10. FlowOf(s)'
    BY <1>1, <1>2, <2>2, <2>3, <2>4, <2>6 DEF FlowOf
  <2>11. OrderOf(s)'
    <3>1. Faithful(s)' => Faithful(s)
      BY <1>3, <2>4, <2>6 DEF Faithful
    <3> QED BY <1>1, <1>2, <1>3, <2>2, <2>3, <2>4, <2>6, <3>1 DEF OrderOf, Flight
  <2>12. OrderOf(o)'
    <3>1. Faithful(o)' => Faithful(o)
      BY <1>1, <1>3, <2>6 DEF Faithful
    <3> QED BY <1>1, <1>2, <2>3, <2>4, <2>6, <3>1 DEF OrderOf, Flight
  <2>13. tun[s].state \in {"open", "closing", "over"}
    <3>1. s = "exit" => hp = "called"
      BY <1>3 DEF Phase, ExitPhase, NoBridge
    <3> QED BY <1>3, <3>1 DEF Phase, ExitPhase, ClientPhase, Sides
  <2>14. bridge[s].state # "none" /\ t.read >= tun[s].read /\ k.state # "none"
    BY <1>3, <1>8, <2>2, <2>3, <2>4
  <2>15. /\ t.state \in {"open", "closing", "over"} /\ t.arrived = tun[s].arrived
         /\ tun[s].state = "over" => t.state = "over" /\ t.sent = tun[s].sent
    BY <2>3, <2>13
  <2>16. tun' = [tun EXCEPT ![s] = t] /\ sock' = [sock EXCEPT ![s] = k] /\ t \in Tunnels /\ k \in Sockets
    BY <2>1, <2>3, <2>4
  <2> QED BY <1>3, <1>4, <2>5, <2>7, <2>8, <2>9, <2>10, <2>11, <2>12, <2>14, <2>15, <2>16, SideSteps
<1> QED BY <1>5, <1>6, <1>7, <1>8

LEMMA ReadEndKeeps ==
  ASSUME TunnelInv, NEW s \in Sides, ReadEnd(s)
  PROVE  TunnelInv'
<1> DEFINE k == [sock[s] EXCEPT !.state = IF sock[s].state = "destroyed" THEN sock[s].state ELSE "ending"]
<1>1. Reading(s) /\ On(s) /\ UNCHANGED <<plan, callVars, up>>
  BY DEF ReadEnd, Reading
<1>2. CASE Fail(s)
  BY <1>1, <1>2, FailKeeps
<1>3. CASE ~Fail(s)
  <2>1. /\ tun[s].eof = "end" /\ tun[s].read = tun[s].arrived
        /\ bridge' = [bridge EXCEPT ![s].tunnelEnded = TRUE]
        /\ sock' = [sock EXCEPT ![s] = k] /\ UNCHANGED <<wire, tun>>
    BY <1>3 DEF ReadEnd
  <2>2. sock[s] \in Sockets
    BY SidesTyped DEF TunnelInv
  <2>3. /\ k \in Sockets /\ k.said = sock[s].said /\ k.fin = sock[s].fin /\ k.taken = sock[s].taken
        /\ k.ended = sock[s].ended /\ k.wrote = sock[s].wrote /\ k.heard = sock[s].heard
        /\ sock[s].state = "destroyed" => k.state = "destroyed"
        /\ sock[s].state # "destroyed" => k.state = "ending"
    BY <2>2 DEF Sockets
  <2> HIDE DEF k
  <2> QED BY <1>1, <2>1, <2>3, EndingKeeps
<1> QED BY <1>2, <1>3

LEMMA BridgingKeeps ==
  ASSUME TunnelInv, NEW s \in Sides, Bridging(s)
  PROVE  TunnelInv'
<1>1. ASSUME Flushed(s) PROVE TunnelInv'
  BY <1>1, DestroyedKeeps DEF Flushed
<1> QED BY <1>1, StartKeeps, TakeChunkKeeps, WriteChunkKeeps, SocketEndsKeeps, SendCloseKeeps,
           ReadTunnelKeeps, ReadEndKeeps DEF Bridging

(* A reset, and the caller that hangs up on its application. *)
LEMMA AppResetsKeeps ==
  ASSUME TunnelInv, NEW s \in Sides, AppResets(s)
  PROVE  TunnelInv'
<1>1. CASE On(s) /\ ~bridge[s].failed
  BY <1>1, FailKeeps DEF AppResets
<1>2. CASE ~(On(s) /\ ~bridge[s].failed)
  BY <1>2, DestroyedKeeps DEF AppResets
<1> QED BY <1>1, <1>2

LEMMA HangUpKeeps ==
  ASSUME TunnelInv, HangUp
  PROVE  TunnelInv'
<1>1. "client" \in Sides /\ ~On("client") /\ sock["client"].state # "none"
  BY DEF HangUp, TunnelInv, Phase, ClientPhase, On, Sides
<1> QED BY <1>1, DestroyedKeeps DEF HangUp

-----------------------------------------------------------------------------
(* The call. *)

(* What the bridges have to do with is left alone. *)
LEMMA CallSteps ==
  ASSUME TunnelInv, UNCHANGED <<plan, up, pipeVars>>, Typed', Phase'
  PROVE  TunnelInv'
BY DEF TunnelInv, pipeVars, WireOf, EofOf, BridgeOf, FlowOf, OrderOf, Faithful, Flight, On

(* What the caller expects changes, before there is a tunnel. *)
LEMMA ExpectSteps ==
  ASSUME TunnelInv, NEW x \in {"expected", "abandoned", "over"},
         bridge["client"].state = "none", tun["client"].state \in {"none", "expected", "abandoned"},
         tun' = [tun EXCEPT !["client"].state = x],
         UNCHANGED <<plan, iq, status, hp, up, wire, sock, bridge>>,
         pc \notin {"idle", "disco"},
         pc' \in {"expecting", "settled"}, outcome' \in {"none", "tunnel", "response", "failed"},
         pc' = "expecting" <=> x = "expected", pc = "settled" => pc' = "settled"
  PROVE  TunnelInv'
<1> USE DEF TunnelInv
<1> DEFINE t == [tun["client"] EXCEPT !.state = x]
<1>1. /\ "client" \in Sides /\ "exit" \in Sides /\ Other("client") = "exit" /\ Other("exit") = "client"
      /\ Sides = {"client", "exit"}
  BY DEF Sides, Other
<1>2. tun["client"] \in Tunnels /\ tun \in [Sides -> Tunnels]
  BY <1>1, SidesTyped DEF Typed
<1>3. /\ t \in Tunnels /\ t.state = x /\ t.eof = tun["client"].eof /\ t.arrived = tun["client"].arrived
      /\ t.read = tun["client"].read /\ t.sent = tun["client"].sent
  BY <1>2 DEF Tunnels
<1>4. tun' = [tun EXCEPT !["client"] = t]
  BY <1>2
<1> HIDE DEF t
<1>5. tun'["client"] = t /\ tun'["exit"] = tun["exit"]
  BY <1>1, <1>2, <1>4
<1>6. Typed'
  BY <1>1, <1>2, <1>3, <1>4 DEF Typed
<1>7. Phase'
  <2>1. ExitPhase'
    BY <1>5 DEF Phase, ExitPhase
  <2>2. ClientPhase'
    BY <1>3, <1>5 DEF Phase, ClientPhase
  <2>3. HandshakePhase'
    BY <1>3, <1>5 DEF Phase, HandshakePhase
  <2>4. EarlyPhase'
    BY <1>5 DEF Phase, EarlyPhase, Live
  <2> QED BY <2>1, <2>2, <2>3, <2>4 DEF Phase
<1>8. WireOf("client")' /\ EofOf("client")' /\ BridgeOf("client")' /\ FlowOf("client")' /\ OrderOf("client")'
  <2>1. WireOf("client") /\ EofOf("client") /\ BridgeOf("client") /\ FlowOf("client")
    BY <1>1
  <2>2. WireOf("client")'
    BY <1>1, <1>3, <1>5, <2>1 DEF WireOf, Flight
  <2>3. EofOf("client")'
    BY <1>1, <1>3, <1>5, <2>1 DEF EofOf, Flight
  <2>4. BridgeOf("client")'
    BY <1>3, <1>5, <2>1 DEF BridgeOf, On
  <2>5. FlowOf("client")'
    BY <1>1, <1>3, <1>5, <2>1 DEF FlowOf
  <2>6. OrderOf("client")'
    BY DEF OrderOf, Faithful
  <2> QED BY <2>2, <2>3, <2>4, <2>5, <2>6
<1>9. WireOf("exit")' /\ EofOf("exit")' /\ BridgeOf("exit")' /\ FlowOf("exit")' /\ OrderOf("exit")'
  <2>1. WireOf("exit") /\ EofOf("exit") /\ BridgeOf("exit") /\ FlowOf("exit") /\ OrderOf("exit")
    BY <1>1
  <2>2. WireOf("exit")'
    BY <1>1, <1>3, <1>5, <2>1 DEF WireOf, Flight
  <2>3. EofOf("exit")'
    BY <1>1, <1>3, <1>5, <2>1 DEF EofOf, Flight
  <2>4. BridgeOf("exit")'
    BY <1>5, <2>1 DEF BridgeOf, On
  <2>5. FlowOf("exit")'
    BY <1>1, <1>3, <1>5, <2>1 DEF FlowOf
  <2>6. OrderOf("exit")'
    BY <1>1, <1>3, <1>5, <2>1 DEF OrderOf, Faithful, Flight
  <2> QED BY <2>2, <2>3, <2>4, <2>5, <2>6
<1> QED BY <1>1, <1>6, <1>7, <1>8, <1>9

LEMMA ConnectKeeps ==
  ASSUME TunnelInv, Connect \/ DiscoRefuses \/ SendConnect \/ AnswerArrives \/ RequestExpires
  PROVE  TunnelInv'
<1> USE DEF TunnelInv
<1>1. UNCHANGED <<plan, status, hp, up, pipeVars>>
  BY DEF Connect, DiscoRefuses, SendConnect, AnswerArrives, RequestExpires
<1>2. /\ pc' \in {"idle", "disco", "asking", "expecting", "settled"}
      /\ outcome' \in {"none", "tunnel", "response", "failed"}
      /\ iq' \in {"unsent", "asked", "answered", "received", "expired"}
      /\ pc \notin {"idle", "disco"} => pc' = pc /\ outcome' = outcome
      /\ pc # pc' => pc' \in {"disco", "asking", "settled"}
      /\ pc' \in {"idle", "disco"} => pc \in {"idle", "disco"} /\ iq' = iq
  BY DEF Connect, DiscoRefuses, SendConnect, AnswerArrives, RequestExpires, Settle, Phase, EarlyPhase, Typed
<1>3. Typed'
  BY <1>1, <1>2 DEF Typed, pipeVars
<1>4. Phase'
  <2>1. ExitPhase'
    BY <1>1 DEF Phase, ExitPhase, pipeVars
  <2>2. ClientPhase'
    <3>1. pc \in {"idle", "disco"} => tun["client"] = NoTunnel /\ bridge["client"].state = "none"
      BY DEF Phase, ClientPhase
    <3> QED BY <1>1, <1>2, <3>1 DEF Phase, ClientPhase, pipeVars, NoTunnel
  <2>3. HandshakePhase'
    BY <1>1 DEF Phase, HandshakePhase, pipeVars
  <2>4. EarlyPhase'
    BY <1>1, <1>2 DEF Phase, EarlyPhase, pipeVars, Live
  <2> QED BY <2>1, <2>2, <2>3, <2>4 DEF Phase
<1> QED BY <1>1, <1>3, <1>4, CallSteps

LEMMA ResultIsHereKeeps ==
  ASSUME TunnelInv, ResultIsHere
  PROVE  TunnelInv'
<1> USE DEF TunnelInv
<1>1. pc = "asking" /\ UNCHANGED <<plan, iq, status, hp, up, wire, sock, bridge>>
  BY DEF ResultIsHere
<1>2. tun["client"].state = "none" /\ bridge["client"].state = "none"
  BY <1>1 DEF Phase, ClientPhase, NoTunnel
<1>3. \/ pc' = "settled" /\ outcome' \in {"failed", "response"} /\ tun' = tun
      \/ pc' = "expecting" /\ outcome' = outcome /\ tun' = [tun EXCEPT !["client"].state = "expected"]
  BY DEF ResultIsHere, Settle
<1>4. CASE pc' = "expecting" /\ outcome' = outcome /\ tun' = [tun EXCEPT !["client"].state = "expected"]
  <2>1. outcome' \in {"none", "tunnel", "response", "failed"}
    BY <1>4 DEF Typed
  <2> QED BY <1>1, <1>2, <1>4, <2>1, ExpectSteps
<1>5. CASE pc' = "settled" /\ outcome' \in {"failed", "response"} /\ tun' = tun
  <2>1. Typed'
    BY <1>1, <1>5 DEF Typed
  <2>2. Phase'
    BY <1>1, <1>2, <1>5 DEF Phase, ExitPhase, ClientPhase, HandshakePhase, EarlyPhase, Live
  <2> QED BY <1>1, <1>5, <2>1, <2>2, CallSteps DEF pipeVars
<1> QED BY <1>3, <1>4, <1>5

LEMMA GiveUpKeeps ==
  ASSUME TunnelInv, GiveUp
  PROVE  TunnelInv'
<1> USE DEF TunnelInv
<1>1. /\ pc \in {"disco", "asking", "expecting"} /\ pc' = "settled" /\ outcome' = "failed"
      /\ tun' = [tun EXCEPT !["client"].state = IF pc = "expecting" THEN "abandoned" ELSE @]
      /\ UNCHANGED <<plan, iq, status, hp, up, wire, sock, bridge>>
  BY DEF GiveUp, Settle
<1>2. bridge["client"].state = "none"
  BY <1>1 DEF Phase, ClientPhase
<1>3. CASE pc = "expecting"
  <2>1. tun["client"].state = "expected"
    BY <1>3 DEF Phase, ClientPhase
  <2>2. tun' = [tun EXCEPT !["client"].state = "abandoned"]
    BY <1>1, <1>3
  <2> QED BY <1>1, <1>2, <1>3, <2>1, <2>2, ExpectSteps
<1>4. CASE pc # "expecting"
  <2>1. tun' = tun
    BY <1>1, <1>4, SidesTyped DEF Typed, Sides, Tunnels
  <2>2. tun["client"].state # "expected"
    BY <1>4 DEF Phase, ClientPhase
  <2>3. Typed'
    BY <1>1, <2>1 DEF Typed
  <2>4. Phase'
    BY <1>1, <1>2, <1>4, <2>1, <2>2 DEF Phase, ExitPhase, ClientPhase, HandshakePhase, EarlyPhase, Live
  <2> QED BY <1>1, <2>1, <2>3, <2>4, CallSteps DEF pipeVars
<1> QED BY <1>3, <1>4

LEMMA ExpectationExpiresKeeps ==
  ASSUME TunnelInv, ExpectationExpires
  PROVE  TunnelInv'
<1> USE DEF TunnelInv
<1>1. /\ tun["client"].state \in {"expected", "abandoned"}
      /\ tun' = [tun EXCEPT !["client"].state = "over"]
      /\ \/ pc = "expecting" /\ pc' = "settled" /\ outcome' = "failed"
         \/ pc # "expecting" /\ pc' = pc /\ outcome' = outcome
      /\ UNCHANGED <<plan, iq, status, hp, up, wire, sock, bridge>>
  BY DEF ExpectationExpires, Settle
<1>2. bridge["client"].state = "none" /\ pc \in {"expecting", "settled"}
  BY <1>1 DEF Phase, ClientPhase, NoTunnel, Typed
<1>3. pc' = "settled" /\ outcome' \in {"none", "tunnel", "response", "failed"}
  BY <1>1, <1>2 DEF Typed
<1> QED BY <1>1, <1>2, <1>3, ExpectSteps

-----------------------------------------------------------------------------
(* The exit. *)

LEMMA OnConnectKeeps ==
  ASSUME TunnelInv, OnConnect \/ NoTunnelGiven
  PROVE  TunnelInv'
<1> USE DEF TunnelInv
<1>1. /\ UNCHANGED <<plan, pc, outcome, up, pipeVars>>
      /\ hp \in {"idle", "dialling"} /\ hp' \in {"dialling", "done"}
      /\ iq' = iq \/ iq' = "answered"
      /\ iq = "asked" \/ hp = "dialling"
  BY DEF OnConnect, NoTunnelGiven, Answer
<1>2. Typed'
  BY <1>1 DEF Typed, pipeVars
<1>3. pc \notin {"idle", "disco"}
  BY <1>1 DEF Phase, EarlyPhase
<1>4. Phase'
  <2>1. ExitPhase'
    BY <1>1 DEF Phase, ExitPhase, pipeVars
  <2>2. ClientPhase'
    BY <1>1 DEF Phase, ClientPhase, pipeVars
  <2>3. HandshakePhase'
    BY <1>1 DEF Phase, HandshakePhase, pipeVars
  <2>4. EarlyPhase'
    BY <1>1, <1>3 DEF Phase, EarlyPhase, pipeVars, Live
  <2> QED BY <2>1, <2>2, <2>3, <2>4 DEF Phase
<1> QED BY <1>1, <1>2, <1>4, CallSteps

LEMMA DialledKeeps ==
  ASSUME TunnelInv, Dialled
  PROVE  TunnelInv'
<1> USE DEF TunnelInv
<1> DEFINE k == [sock["exit"] EXCEPT !.state = "open"]
<1>0. /\ "client" \in Sides /\ "exit" \in Sides /\ Other("client") = "exit" /\ Other("exit") = "client"
      /\ Sides = {"client", "exit"}
  BY DEF Sides, Other
<1>1. /\ hp = "dialling" /\ hp' \in {"due", "dead", "left"} /\ sock' = [sock EXCEPT !["exit"] = k]
      /\ iq' = iq \/ iq' = "answered"
      /\ UNCHANGED <<plan, pc, outcome, up, wire, tun, bridge>>
  BY DEF Dialled, Answer
<1>2. sock["exit"] = NoSocket /\ bridge["exit"] = NoBridge /\ tun["exit"] = NoTunnel /\ wire["exit"] = <<>>
  BY <1>1 DEF Phase, ExitPhase
<1>3. sock \in [Sides -> Sockets] /\ sock["exit"] \in Sockets
  BY <1>0 DEF Typed
<1>4. /\ k \in Sockets /\ k.state = "open" /\ k.said = sock["exit"].said /\ k.fin = sock["exit"].fin
      /\ k.taken = sock["exit"].taken /\ k.ended = sock["exit"].ended
      /\ k.wrote = sock["exit"].wrote /\ k.heard = sock["exit"].heard
  BY <1>3 DEF Sockets
<1> HIDE DEF k
<1>5. sock'["exit"] = k /\ sock'["client"] = sock["client"]
  BY <1>0, <1>1, <1>3
<1>6. Typed'
  BY <1>0, <1>1, <1>3, <1>4 DEF Typed
<1>7. Phase'
  <2>1. ExitPhase'
    BY <1>1, <1>2, <1>4, <1>5 DEF Phase, ExitPhase, NoTunnel
  <2>2. ClientPhase'
    BY <1>1, <1>5 DEF Phase, ClientPhase
  <2>3. HandshakePhase'
    BY <1>1 DEF Phase, HandshakePhase
  <2>4. EarlyPhase'
    BY <1>1 DEF Phase, EarlyPhase, Live
  <2> QED BY <2>1, <2>2, <2>3, <2>4 DEF Phase
<1>8. ASSUME NEW s \in Sides PROVE WireOf(s)' /\ EofOf(s)' /\ BridgeOf(s)' /\ FlowOf(s)' /\ OrderOf(s)'
  <2>0. /\ sock'[s].ended = sock[s].ended /\ sock'[s].fin = sock[s].fin /\ sock'[s].taken = sock[s].taken
        /\ sock'[s].wrote = sock[s].wrote /\ sock'[s].heard = sock[s].heard /\ sock'[s].said = sock[s].said
        /\ sock'[Other(s)].ended = sock[Other(s)].ended /\ sock'[Other(s)].taken = sock[Other(s)].taken
        /\ sock'[s].state # sock[s].state => sock'[s].state = "open" /\ bridge[s].state # "on"
    <3>1. CASE s = "client"
      BY <1>0, <1>4, <1>5, <3>1
    <3>2. CASE s = "exit"
      BY <1>0, <1>2, <1>4, <1>5, <3>2 DEF NoBridge
    <3> QED BY <1>0, <3>1, <3>2
  <2>1. WireOf(s)' /\ EofOf(s)'
    BY <1>1, <2>0 DEF WireOf, EofOf, Flight
  <2>2. BridgeOf(s)'
    BY <1>1, <1>2, <2>0 DEF BridgeOf, On
  <2>3. FlowOf(s)'
    BY <1>1, <2>0 DEF FlowOf
  <2>4. OrderOf(s)'
    BY <1>1, <2>0 DEF OrderOf, Faithful, Flight
  <2> QED BY <2>1, <2>2, <2>3, <2>4
<1> QED BY <1>6, <1>7, <1>8

LEMMA BothSides ==
  /\ "client" \in Sides /\ "exit" \in Sides /\ Sides = {"client", "exit"}
  /\ Other("client") = "exit" /\ Other("exit") = "client"
BY DEF Sides, Other

LEMMA ScheduledTunnelKeeps ==
  ASSUME TunnelInv, ScheduledTunnel
  PROVE  TunnelInv'
<1> USE DEF TunnelInv
<1> DEFINE t == [tun["exit"] EXCEPT !.state = "opening"]
           w == Append(wire["exit"], "open")
<1>1. hp = "due" /\ UNCHANGED <<plan, pc, outcome, iq, status, up, sock, bridge>>
  BY DEF ScheduledTunnel
<1>2. /\ tun["exit"] = NoTunnel /\ wire["exit"] = <<>> /\ wire["client"] = <<>>
      /\ bridge["exit"] = NoBridge /\ bridge["client"].state = "none" /\ sock["exit"].state # "none"
  BY <1>1 DEF Phase, ExitPhase, ClientPhase
<1>3. CASE "exit" \notin up
  <2>1. hp' = "dead" /\ UNCHANGED <<wire, tun>>
    BY <1>3 DEF ScheduledTunnel
  <2>2. Typed'
    BY <1>1, <2>1 DEF Typed
  <2>3. Phase'
    <3>1. ExitPhase'
      BY <1>1, <1>2, <2>1 DEF Phase, ExitPhase, NoTunnel
    <3>2. ClientPhase' /\ EarlyPhase'
      BY <1>1, <2>1 DEF Phase, ClientPhase, EarlyPhase, Live
    <3>3. HandshakePhase'
      BY <1>1, <1>2, <2>1, EmptyWire DEF HandshakePhase
    <3> QED BY <3>1, <3>2, <3>3 DEF Phase
  <2> QED BY <1>1, <2>1, <2>2, <2>3, CallSteps DEF pipeVars
<1>4. CASE "exit" \in up
  <2>1. hp' = "opening" /\ wire' = [wire EXCEPT !["exit"] = w] /\ tun' = [tun EXCEPT !["exit"] = t]
    BY <1>4 DEF ScheduledTunnel, Put
  <2>2. /\ tun["exit"] \in Tunnels /\ tun \in [Sides -> Tunnels] /\ wire \in [Sides -> Seq(Stanzas)]
        /\ tun["client"].arrived \in Nat /\ tun["client"].read \in Nat
    BY BothSides, SidesTyped DEF Typed
  <2>3. w = <<"open">> /\ w \in Seq(Stanzas) /\ Head(w) = "open" /\ w # <<>>
    BY <1>2 DEF Stanzas
  <2>4. Shaped(w, 0) /\ LeadOf(w) = 1 /\ ~HasClose(w, 0)
    BY <2>3, EmptyWire DEF Greeting
  <2>5. /\ t \in Tunnels /\ t.state = "opening" /\ t.eof = "no" /\ t.arrived = 0 /\ t.read = 0 /\ t.sent = 0
    BY <1>2, <2>2 DEF Tunnels, NoTunnel
  <2> HIDE DEF t, w
  <2>6. /\ wire'["exit"] = w /\ wire'["client"] = wire["client"]
        /\ tun'["exit"] = t /\ tun'["client"] = tun["client"]
    BY <2>1, <2>2, BothSides
  <2>7. /\ WireOf("exit") /\ EofOf("exit") /\ BridgeOf("exit") /\ FlowOf("exit") /\ OrderOf("exit")
        /\ WireOf("client") /\ EofOf("client") /\ BridgeOf("client") /\ FlowOf("client") /\ OrderOf("client")
    BY BothSides
  <2>8. tun["client"].arrived = 0 /\ tun["client"].read = 0 /\ Flight("exit") = 0
    <3>1. tun["exit"].sent = 0 /\ Flight("exit") \in Nat
      BY <1>2, <2>7 DEF NoTunnel, WireOf, Shaped
    <3>2. tun["client"].arrived = 0 /\ Flight("exit") = 0
      BY <2>2, <3>1, BothSides DEF Flight
    <3> QED BY <2>2, <2>7, <3>2 DEF FlowOf
  <2>9. tun["client"].eof # "end"
    BY <1>2, <2>7, BothSides DEF EofOf, BridgeOf, NoTunnel
  <2>10. Typed'
    BY <1>1, <2>1, <2>2, <2>3, <2>5, BothSides DEF Typed
  <2>11. Phase'
    <3>1. ExitPhase'
      BY <1>1, <1>2, <2>1, <2>4, <2>5, <2>6 DEF ExitPhase
    <3>2. ClientPhase'
      BY <1>1, <2>1, <2>6 DEF Phase, ClientPhase
    <3>3. HandshakePhase'
      BY <1>1, <1>2, <2>1, <2>3, <2>4, <2>6, <2>8, <2>9, EmptyWire DEF HandshakePhase
    <3>4. EarlyPhase'
      BY <1>1, <2>4, <2>6 DEF Phase, EarlyPhase, Live
    <3> QED BY <3>1, <3>2, <3>3, <3>4 DEF Phase
  <2>12. WireOf("exit")' /\ WireOf("client")'
    <3>1. Flight("exit")' = 0
      BY <2>2, <2>5, <2>6, <2>8, BothSides DEF Flight
    <3>2. Flight("client")' = Flight("client")
      BY <1>2, <2>5, <2>6, BothSides DEF Flight, NoTunnel
    <3> QED BY <2>4, <2>6, <2>7, <3>1, <3>2 DEF WireOf
  <2>13. EofOf("exit")' /\ EofOf("client")'
    BY <2>5, <2>6, <2>7, <2>9, BothSides DEF EofOf
  <2>14. BridgeOf("exit")' /\ BridgeOf("client")'
    BY <1>1, <1>2, <2>5, <2>6, <2>7 DEF BridgeOf, On, NoBridge
  <2>15. FlowOf("exit")' /\ FlowOf("client")'
    BY <1>1, <1>2, <2>5, <2>6, <2>7, BothSides DEF FlowOf, NoTunnel
  <2>16. OrderOf("client")'
    BY <1>1, <1>2 DEF OrderOf, Faithful
  <2>17. OrderOf("exit")'
    <3>1. Flight("exit")' = 0
      BY <2>2, <2>5, <2>6, <2>8, BothSides DEF Flight
    <3>2. Faithful("exit")' => Faithful("exit")
      BY <1>1 DEF Faithful
    <3>3. tun["exit"].read = 0 /\ tun["exit"].eof = "no"
      BY <1>2 DEF NoTunnel
    <3> QED BY <1>1, <1>2, <2>4, <2>5, <2>6, <2>7, <3>1, <3>2, <3>3, BothSides DEF OrderOf, NoBridge
  <2> QED BY <2>10, <2>11, <2>12, <2>13, <2>14, <2>15, <2>16, <2>17, BothSides
<1> QED BY <1>3, <1>4

(* The exit's handler is called with a tunnel that never came to be, or    *)
(* the caller refused it: a dead end.                                      *)
LEMMA DeadKeeps ==
  ASSUME TunnelInv, hp \in {"opening", "dead"}, LeadOf(wire["exit"]) = 0,
         bridge["client"].state = "none",
         NEW w \in Seq(Stanzas), wire' = [wire EXCEPT !["client"] = w], w = <<>>,
         WireOf("client")',
         tun' = [tun EXCEPT !["exit"] = Aborted(tun["exit"])],
         UNCHANGED <<plan, pc, outcome, iq, status, up, sock>>,
         \/ hp' = "dead" /\ bridge' = bridge
         \/ hp' = "called" /\ bridge' = [bridge EXCEPT !["exit"].state = "due"]
  PROVE  TunnelInv'
<1> USE DEF TunnelInv
<1> DEFINE t == Aborted(tun["exit"])
<1>1. /\ tun["exit"] \in Tunnels /\ tun \in [Sides -> Tunnels] /\ wire \in [Sides -> Seq(Stanzas)]
      /\ bridge \in [Sides -> Bridges] /\ bridge["exit"] \in Bridges
  BY BothSides, SidesTyped DEF Typed
<1>2. bridge["exit"] = NoBridge /\ sock["exit"].state # "none"
      /\ tun["exit"].sent = 0 /\ tun["exit"].arrived = 0 /\ tun["exit"].read = 0
  BY DEF Phase, ExitPhase
<1>3. /\ t \in Tunnels /\ t.state = "over" /\ t.eof # "no" /\ (t.eof = "end" <=> tun["exit"].eof = "end")
      /\ t.arrived = tun["exit"].arrived /\ t.read = tun["exit"].read /\ t.sent = tun["exit"].sent
  BY <1>1, AbortedTunnel
<1> HIDE DEF t
<1>4. tun'["exit"] = t /\ tun'["client"] = tun["client"] /\ wire'["client"] = w /\ wire'["exit"] = wire["exit"]
  BY <1>1, BothSides DEF t
<1>5. /\ bridge' \in [Sides -> Bridges] /\ bridge'["client"] = bridge["client"]
      /\ bridge'["exit"].failed = bridge["exit"].failed /\ bridge'["exit"].pending = bridge["exit"].pending
      /\ bridge'["exit"].tunnelEnded = bridge["exit"].tunnelEnded
      /\ bridge'["exit"].state \in {"none", "due"}
      /\ hp' # "called" => bridge'["exit"] = NoBridge
  <2>1. CASE bridge' = bridge
    <3>1. bridge["exit"].state = "none"
      BY <1>2 DEF NoBridge
    <3> QED BY <1>1, <1>2, <2>1, <3>1
  <2>2. CASE hp' = "called" /\ bridge' = [bridge EXCEPT !["exit"].state = "due"]
    <3>1. [bridge["exit"] EXCEPT !.state = "due"] \in Bridges
      BY <1>1 DEF Bridges
    <3> QED BY <1>1, <2>2, <3>1, BothSides DEF Bridges
  <2> QED BY <2>1, <2>2
<1>6. /\ WireOf("exit") /\ EofOf("exit") /\ BridgeOf("exit") /\ FlowOf("exit") /\ OrderOf("exit")
      /\ EofOf("client") /\ BridgeOf("client") /\ FlowOf("client") /\ OrderOf("client")
  BY BothSides
<1>7. Typed'
  BY <1>1, <1>3, <1>5, BothSides DEF Typed, t
<1>8. Phase'
  <2>1. ExitPhase'
    BY <1>2, <1>3, <1>4, <1>5 DEF ExitPhase
  <2>2. ClientPhase'
    BY <1>4, <1>5 DEF Phase, ClientPhase
  <2>3. HandshakePhase'
    BY <1>4, EmptyWire DEF HandshakePhase
  <2>4. EarlyPhase'
    <3>1. pc \notin {"idle", "disco"}
      BY DEF Phase, EarlyPhase
    <3>2. pc # "settled" => wire["exit"] = <<>>
      BY DEF Phase, EarlyPhase
    <3> QED BY <1>3, <1>4, <3>1, <3>2 DEF EarlyPhase, Live
  <2> QED BY <2>1, <2>2, <2>3, <2>4 DEF Phase
<1>9. WireOf("exit")'
  BY <1>3, <1>4, <1>6, BothSides DEF WireOf, Flight
<1>10. EofOf("exit")' /\ EofOf("client")'
  BY <1>3, <1>4, <1>6, BothSides DEF EofOf, Flight
<1>11. BridgeOf("exit")' /\ BridgeOf("client")'
  BY <1>2, <1>3, <1>4, <1>5, <1>6 DEF BridgeOf, On, NoBridge
<1>12. FlowOf("exit")' /\ FlowOf("client")'
  BY <1>3, <1>4, <1>5, <1>6, BothSides DEF FlowOf
<1>13. OrderOf("client")'
  BY <1>5 DEF OrderOf, Faithful
<1>14. OrderOf("exit")'
  <2>1. Faithful("exit")' => Faithful("exit")
    BY <1>2, <1>5 DEF Faithful, NoBridge
  <2>2. (t.eof # "error" => tun["exit"].eof # "error") /\ ~bridge'["exit"].tunnelEnded
    BY <1>2, <1>3, <1>5 DEF Tunnels, NoBridge
  <2>3. SUFFICES ASSUME Faithful("exit") PROVE OrderOf("exit")'
    BY <2>1 DEF OrderOf
  <2>4. bridge'["client"] = bridge["client"] /\ sock' = sock /\ Flight("exit")' = Flight("exit")
    BY <1>3, <1>4, <1>5, BothSides DEF Flight
  <2> QED BY <1>3, <1>4, <1>6, <2>2, <2>3, <2>4, BothSides DEF OrderOf
<1> QED BY <1>7, <1>8, <1>9, <1>10, <1>11, <1>12, <1>13, <1>14, BothSides

LEMMA CallTunnelKeeps ==
  ASSUME TunnelInv, CallTunnel
  PROVE  TunnelInv'
<1> USE DEF TunnelInv
<1>1. /\ hp = "dead" /\ hp' = "called"
      /\ tun' = [tun EXCEPT !["exit"] = Aborted(tun["exit"])]
      /\ bridge' = [bridge EXCEPT !["exit"].state = "due"]
      /\ UNCHANGED <<plan, pc, outcome, iq, status, up, wire, sock>>
  BY DEF CallTunnel
<1>2. wire["client"] = <<>> /\ bridge["client"].state = "none"
  BY <1>1 DEF Phase, ClientPhase
<1>3. LeadOf(wire["exit"]) = 0
  BY <1>1 DEF Phase, HandshakePhase, LeadOf
<1>4. wire' = [wire EXCEPT !["client"] = wire["client"]] /\ wire["client"] \in Seq(Stanzas)
  BY <1>1, BothSides DEF Typed
<1>5. WireOf("client")'
  <2>1. tun'["client"] = tun["client"] /\ tun'["exit"].arrived = tun["exit"].arrived
    BY <1>1, AbortedTunnel, BothSides, SidesTyped DEF Typed
  <2>2. WireOf("client")
    BY BothSides
  <2> QED BY <1>1, <2>1, <2>2, BothSides DEF WireOf, Flight
<1> QED BY <1>1, <1>2, <1>3, <1>4, <1>5, DeadKeeps

LEMMA OpenAnsweredKeeps ==
  ASSUME TunnelInv, OpenAnswered
  PROVE  TunnelInv'
<1> USE DEF TunnelInv
<1> DEFINE w == Tail(wire["client"])
           t == [tun["exit"] EXCEPT !.state = IF tun["exit"].state = "opening" THEN "open" ELSE tun["exit"].state]
           b == [bridge["exit"] EXCEPT !.state = "due"]
<1>1. /\ wire["client"] # <<>> /\ Head(wire["client"]) \in {"yes", "no"}
      /\ wire' = [wire EXCEPT !["client"] = w]
      /\ UNCHANGED <<plan, pc, outcome, iq, status, up, sock>>
  BY DEF OpenAnswered
<1>2. /\ tun["exit"] \in Tunnels /\ tun \in [Sides -> Tunnels] /\ wire \in [Sides -> Seq(Stanzas)]
      /\ bridge \in [Sides -> Bridges] /\ bridge["exit"] \in Bridges
  BY BothSides, SidesTyped DEF Typed
<1>3. /\ WireOf("exit") /\ EofOf("exit") /\ BridgeOf("exit") /\ FlowOf("exit") /\ OrderOf("exit")
      /\ WireOf("client") /\ EofOf("client") /\ BridgeOf("client") /\ FlowOf("client") /\ OrderOf("client")
  BY BothSides
<1>4. /\ LeadOf(wire["client"]) = 1 /\ LeadOf(w) = 0 /\ Shaped(w, Flight("client"))
      /\ (HasClose(w, Flight("client")) <=> HasClose(wire["client"], Flight("client")))
  BY <1>1, <1>3, TakeHead DEF WireOf, Greeting
<1>5. w \in Seq(Stanzas)
  BY <1>4 DEF Shaped
<1>6. hp = "opening" /\ LeadOf(wire["exit"]) = 0
      /\ (Head(wire["client"]) = "no" => bridge["client"].state = "none" /\ wire["client"] = <<"no">>)
  BY <1>4 DEF Phase, HandshakePhase
<1>7. wire'["client"] = w /\ wire'["exit"] = wire["exit"]
  BY <1>1, <1>2, BothSides
<1>8. CASE Head(wire["client"]) = "no"
  <2>1. hp' = "dead" /\ tun' = [tun EXCEPT !["exit"] = Aborted(tun["exit"])] /\ bridge' = bridge
    BY <1>8 DEF OpenAnswered
  <2>2. w = <<>>
    <3>1. Tail(<<"no">>) = <<>>
      OBVIOUS
    <3> QED BY <1>6, <1>8, <3>1
  <2> HIDE DEF w
  <2>3. WireOf("client")'
    <3>1. tun'["client"] = tun["client"] /\ tun'["exit"].arrived = tun["exit"].arrived
      BY <1>2, <2>1, AbortedTunnel, BothSides
    <3> QED BY <1>3, <1>4, <1>7, <3>1, BothSides DEF WireOf, Flight
  <2> QED BY <1>1, <1>5, <1>6, <1>8, <2>1, <2>2, <2>3, DeadKeeps
<1>9. CASE Head(wire["client"]) # "no"
  <2>1. /\ hp' = "called" /\ bridge' = [bridge EXCEPT !["exit"] = b] /\ tun' = [tun EXCEPT !["exit"] = t]
    BY <1>1, <1>9 DEF OpenAnswered
  <2>2. /\ bridge["exit"] = NoBridge /\ sock["exit"].state # "none"
        /\ tun["exit"].sent = 0 /\ tun["exit"].arrived = 0 /\ tun["exit"].read = 0
        /\ tun["exit"].state \in {"opening", "over"}
    BY <1>6 DEF Phase, ExitPhase
  <2>3. /\ t \in Tunnels /\ t.state \in {"open", "over"} /\ (t.state = "over" <=> tun["exit"].state = "over")
        /\ t.eof = tun["exit"].eof /\ t.arrived = tun["exit"].arrived /\ t.read = tun["exit"].read
        /\ t.sent = tun["exit"].sent
    BY <1>2, <2>2 DEF Tunnels
  <2>4. b \in Bridges /\ b.state = "due" /\ ~b.failed /\ ~b.pending /\ ~b.tunnelEnded
    <3>1. /\ b \in Bridges /\ b.state = "due" /\ b.failed = bridge["exit"].failed
          /\ b.pending = bridge["exit"].pending /\ b.tunnelEnded = bridge["exit"].tunnelEnded
      BY <1>2 DEF Bridges
    <3> HIDE DEF b
    <3> QED BY <2>2, <3>1 DEF NoBridge
  <2> HIDE DEF w, t, b
  <2>5. /\ tun'["exit"] = t /\ tun'["client"] = tun["client"]
        /\ bridge'["exit"] = b /\ bridge'["client"] = bridge["client"]
    BY <1>2, <2>1, BothSides
  <2>6. Typed'
    BY <1>1, <1>2, <1>5, <2>1, <2>3, <2>4, BothSides DEF Typed
  <2>7. Phase'
    <3>1. ExitPhase'
      BY <1>1, <2>1, <2>2, <2>3, <2>5 DEF ExitPhase
    <3>2. ClientPhase'
      BY <1>1, <1>6, <2>1, <2>5 DEF Phase, ClientPhase
    <3>3. HandshakePhase'
      BY <1>4, <1>6, <1>7 DEF HandshakePhase
    <3>4. EarlyPhase'
      BY <1>1, <1>6 DEF Phase, EarlyPhase
    <3> QED BY <3>1, <3>2, <3>3, <3>4 DEF Phase
  <2>8. WireOf("exit")' /\ WireOf("client")'
    BY <1>3, <1>4, <1>7, <2>3, <2>5, BothSides DEF WireOf, Flight
  <2>9. EofOf("exit")' /\ EofOf("client")'
    BY <1>1, <1>3, <2>3, <2>5, BothSides DEF EofOf, Flight
  <2>10. BridgeOf("exit")' /\ BridgeOf("client")'
    BY <1>1, <1>3, <2>2, <2>3, <2>4, <2>5 DEF BridgeOf, On, NoBridge
  <2>11. FlowOf("exit")' /\ FlowOf("client")'
    BY <1>1, <1>3, <2>2, <2>3, <2>4, <2>5, BothSides DEF FlowOf, NoBridge
  <2>12. OrderOf("client")'
    <3>1. Faithful("client")' => Faithful("client")
      BY <1>1, <2>5 DEF Faithful
    <3> QED BY <1>1, <1>3, <1>4, <1>7, <2>2, <2>3, <2>4, <2>5, <3>1, BothSides DEF OrderOf, Flight, NoBridge
  <2>13. OrderOf("exit")'
    <3>1. Faithful("exit")' => Faithful("exit")
      BY <1>1, <2>2, <2>4, <2>5 DEF Faithful, NoBridge
    <3> QED BY <1>1, <1>3, <1>7, <2>2, <2>3, <2>4, <2>5, <3>1, BothSides DEF OrderOf, Flight, NoBridge
  <2> QED BY <2>6, <2>7, <2>8, <2>9, <2>10, <2>11, <2>12, <2>13, BothSides
<1> QED BY <1>8, <1>9

-----------------------------------------------------------------------------
(* What arrives. *)

(* The wire of a client that answers with a tunnel it no longer wants. *)
LEMMA TakenAndClosed ==
  Shaped(<<"yes", "close">>, 0) /\ LeadOf(<<"yes", "close">>) = 1 /\ Head(<<"yes", "close">>) = "yes"
<1> DEFINE w == <<"yes", "close">>
<1>1. w \in Seq(Stanzas) /\ Len(w) = 2 /\ w[1] = "yes" /\ w[2] = "close" /\ w # <<>> /\ Head(w) = "yes"
  BY DEF Stanzas
<1> HIDE DEF w
<1>2. LeadOf(w) = 1
  BY <1>1 DEF LeadOf, Greeting
<1>3. Shaped(w, 0)
  BY <1>1, <1>2 DEF Shaped
<1> QED BY <1>1, <1>2, <1>3 DEF w

LEMMA OpenArrivesKeeps ==
  ASSUME TunnelInv, OpenArrives
  PROVE  TunnelInv'
<1> USE DEF TunnelInv
<1> DEFINE e == tun["client"].state
           w == OpenReply(e)
           v == Tail(wire["exit"])
           x == IF e = "expected" THEN "open" ELSE IF e = "abandoned" THEN "over" ELSE e
           t == [tun["client"] EXCEPT !.state = x]
           b == IF e = "expected" THEN [bridge["client"] EXCEPT !.state = "due"] ELSE bridge["client"]
<1>1. /\ wire["exit"] # <<>> /\ Head(wire["exit"]) = "open" /\ pc # "asking"
      /\ UNCHANGED <<plan, iq, status, hp, up, sock>>
  BY DEF OpenArrives
<1>2. /\ tun["client"] \in Tunnels /\ tun \in [Sides -> Tunnels] /\ wire \in [Sides -> Seq(Stanzas)]
      /\ bridge \in [Sides -> Bridges] /\ bridge["client"] \in Bridges
      /\ tun["client"].sent \in Nat /\ tun["exit"].arrived \in Nat
  BY BothSides, SidesTyped DEF Typed
<1>3. /\ WireOf("exit") /\ EofOf("exit") /\ BridgeOf("exit") /\ FlowOf("exit") /\ OrderOf("exit")
      /\ WireOf("client") /\ EofOf("client") /\ BridgeOf("client") /\ FlowOf("client") /\ OrderOf("client")
  BY BothSides
<1>4. /\ LeadOf(wire["exit"]) = 1 /\ LeadOf(v) = 0 /\ Shaped(v, Flight("exit"))
      /\ (HasClose(v, Flight("exit")) <=> HasClose(wire["exit"], Flight("exit")))
  BY <1>1, <1>3, TakeHead DEF WireOf, Greeting
<1>5. /\ hp = "opening" /\ wire["client"] = <<>> /\ bridge["client"].state = "none"
      /\ tun["client"].arrived = 0 /\ tun["client"].read = 0 /\ tun["client"].eof # "end"
  BY <1>4 DEF Phase, HandshakePhase
<1>6. /\ tun["client"].sent = 0 /\ e \in {"none", "expected", "abandoned", "over"}
      /\ (e = "expected" <=> pc = "expecting")
      /\ sock["client"].wrote = 0 /\ sock["client"].state # "none"
  BY <1>3, <1>5 DEF Phase, ClientPhase, BridgeOf
<1>7. /\ bridge["exit"] = NoBridge /\ tun["exit"].arrived = 0 /\ tun["exit"].sent = 0
      /\ sock["exit"].taken = 0
  BY <1>3, <1>5 DEF Phase, ExitPhase, BridgeOf, NoBridge
<1>8. Flight("client") = 0
  BY <1>6, <1>7, BothSides DEF Flight
<1>9. /\ w = IF e = "expected" THEN <<"yes">> ELSE IF e = "abandoned" THEN <<"yes", "close">> ELSE <<"no">>
      /\ w \in Seq(Stanzas)
  <2>1. /\ <<"yes">> \in Seq(Stanzas) /\ <<"no">> \in Seq(Stanzas) /\ <<"yes", "close">> \in Seq(Stanzas)
    BY DEF Stanzas
  <2>2. w = IF e = "expected" THEN <<"yes">> ELSE IF e = "abandoned" THEN <<"yes", "close">> ELSE <<"no">>
    <3>1. e = "expected" => e # "abandoned"
      OBVIOUS
    <3>2. CASE e = "expected"
      BY <3>1, <3>2, Zenon DEF OpenReply
    <3>3. CASE e = "abandoned"
      BY <3>1, <3>3, Zenon DEF OpenReply
    <3>4. CASE e # "expected" /\ e # "abandoned"
      BY <3>4, Zenon DEF OpenReply
    <3> QED BY <3>2, <3>3, <3>4
  <2> QED BY <2>1, <2>2
<1>10. /\ Shaped(w, 0) /\ LeadOf(w) = 1 /\ w # <<>> /\ Head(w) \in {"yes", "no"}
       /\ (Head(w) = "no" => w = <<"no">> /\ e \notin {"expected", "abandoned"})
       /\ (e # "abandoned" => ~HasClose(w, 0))
  <2>1. CASE e = "abandoned"
    <3>1. <<"yes", "close">> # <<>>
      OBVIOUS
    <3> QED BY <1>9, <2>1, <3>1, TakenAndClosed
  <2>2. CASE e = "expected"
    <3>1. <<"yes">> # <<>> /\ Head(<<"yes">>) = "yes"
      OBVIOUS
    <3> QED BY <1>9, <2>2, <3>1, EmptyWire DEF Greeting
  <2>3. CASE e \notin {"expected", "abandoned"}
    <3>1. <<"no">> # <<>> /\ Head(<<"no">>) = "no"
      OBVIOUS
    <3> QED BY <1>9, <2>3, <3>1, EmptyWire DEF Greeting
  <2> QED BY <2>1, <2>2, <2>3
<1>11. wire' = [client |-> w, exit |-> v]
  <2>1. <<>> \o w = w
    BY <1>9
  <2> QED BY <1>5, <2>1 DEF OpenArrives
<1>12. tun' = [tun EXCEPT !["client"] = t]
  <2>1. <<"yes">> # <<"yes", "close">> /\ <<"no">> # <<"yes">> /\ <<"no">> # <<"yes", "close">>
    OBVIOUS
  <2>2. tun' = [tun EXCEPT !["client"].state = CASE w = <<"yes">> -> "open"
                                                 [] w = <<"yes", "close">> -> "over"
                                                 [] OTHER -> @]
    BY DEF OpenArrives
  <2>3. CASE e = "expected"
    BY <1>2, <1>9, <2>1, <2>2, <2>3
  <2>4. CASE e = "abandoned"
    BY <1>2, <1>9, <2>1, <2>2, <2>4
  <2>5. CASE e \notin {"expected", "abandoned"}
    BY <1>2, <1>9, <2>1, <2>2, <2>5
  <2> QED BY <2>3, <2>4, <2>5
<1>13. /\ bridge' = [bridge EXCEPT !["client"] = b]
       /\ e = "expected" => pc' = "settled" /\ outcome' = "tunnel"
       /\ e # "expected" => pc' = pc /\ outcome' = outcome
  BY <1>2, <1>6 DEF OpenArrives, Settle
<1>14. /\ t \in Tunnels /\ t.state = x /\ t.eof = tun["client"].eof /\ t.arrived = 0 /\ t.read = 0 /\ t.sent = 0
       /\ x \in {"none", "open", "over"} /\ (x = "open" <=> e = "expected")
       /\ (e = "over" => x = "over") /\ (e = "abandoned" => x = "over")
  BY <1>2, <1>5, <1>6 DEF Tunnels
<1>15. /\ b \in Bridges /\ b.failed = bridge["client"].failed /\ b.pending = bridge["client"].pending
       /\ b.tunnelEnded = bridge["client"].tunnelEnded
       /\ (e = "expected" => b.state = "due") /\ (e # "expected" => b.state = "none")
  BY <1>2, <1>5 DEF Bridges
<1> HIDE DEF w, v, t, b
<1>16. /\ wire'["client"] = w /\ wire'["exit"] = v /\ tun'["client"] = t /\ tun'["exit"] = tun["exit"]
       /\ bridge'["client"] = b /\ bridge'["exit"] = bridge["exit"]
  BY <1>2, <1>11, <1>12, <1>13, BothSides
<1>17. pc = "settled" \/ pc = "expecting"
  BY <1>1, <1>5 DEF Phase, EarlyPhase, Typed
<1>18. Typed'
  <2>1. wire' \in [Sides -> Seq(Stanzas)]
    <3>1. v \in Seq(Stanzas)
      BY <1>4 DEF Shaped
    <3>2. w \in Seq(Stanzas)
      BY <1>9
    <3>3. /\ wire'["client"] = w /\ wire'["exit"] = v /\ wire' = [s \in Sides |-> wire'[s]]
      BY <1>11, BothSides
    <3> QED BY <3>1, <3>2, <3>3, BothSides
  <2>2. pc' \in {"idle", "disco", "asking", "expecting", "settled"}
        /\ outcome' \in {"none", "tunnel", "response", "failed"}
    BY <1>13 DEF Typed
  <2> QED BY <1>1, <1>2, <1>12, <1>13, <1>14, <1>15, <2>1, <2>2, BothSides DEF Typed
<1>19. Phase'
  <2>1. ExitPhase'
    BY <1>1, <1>5, <1>10, <1>16 DEF Phase, ExitPhase
  <2>2. ClientPhase'
    BY <1>1, <1>5, <1>6, <1>13, <1>14, <1>15, <1>16, <1>17 DEF ClientPhase
  <2>3. HandshakePhase'
    BY <1>1, <1>4, <1>5, <1>10, <1>15, <1>16 DEF HandshakePhase
  <2>4. EarlyPhase'
    BY <1>6, <1>13, <1>17 DEF EarlyPhase
  <2> QED BY <2>1, <2>2, <2>3, <2>4 DEF Phase
<1>20. Flight("client")' = 0 /\ Flight("exit")' = Flight("exit")
  BY <1>5, <1>7, <1>14, <1>16, BothSides DEF Flight
<1>21. WireOf("client")' /\ WireOf("exit")'
  BY <1>3, <1>4, <1>10, <1>14, <1>16, <1>20 DEF WireOf
<1>22. EofOf("client")'
  <2>1. t.eof # "no" => t.state = "over"
    BY <1>3, <1>14 DEF EofOf
  <2> QED BY <1>5, <1>14, <1>16, <2>1 DEF EofOf
<1>23. EofOf("exit")'
  <2>1. tun["exit"].eof = "end" /\ ~sock["exit"].ended => Flight("client") = 0 /\ e = "over"
    BY <1>3, BothSides DEF EofOf
  <2> QED BY <1>1, <1>3, <1>14, <1>16, <1>20, <2>1, BothSides DEF EofOf
<1>24. BridgeOf("client")' /\ BridgeOf("exit")'
  BY <1>1, <1>3, <1>5, <1>6, <1>14, <1>15, <1>16 DEF BridgeOf, On
<1>25. FlowOf("client")' /\ FlowOf("exit")'
  BY <1>1, <1>3, <1>5, <1>6, <1>14, <1>15, <1>16, BothSides DEF FlowOf
<1>26. OrderOf("client")'
  <2>1. CASE e # "expected"
    BY <1>15, <1>16, <2>1 DEF OrderOf, Faithful
  <2>2. CASE e = "expected"
    <3>1. tun["exit"].eof = "end" => sock["exit"].ended
      BY <1>3, <2>2, BothSides DEF EofOf
    <3>2. t.eof = "no"
      BY <1>3, <1>14, <2>2 DEF EofOf
    <3>3. ~b.tunnelEnded
      BY <1>3, <1>5, <1>15 DEF BridgeOf
    <3> QED BY <1>1, <1>6, <1>7, <1>10, <1>14, <1>16, <1>20, <2>2, <3>1, <3>2, <3>3, BothSides
            DEF OrderOf, NoBridge
  <2> QED BY <2>1, <2>2
<1>27. OrderOf("exit")'
  <2>1. Faithful("exit")' => Faithful("exit")
    BY <1>1, <1>16 DEF Faithful
  <2>2. SUFFICES ASSUME Faithful("exit") PROVE OrderOf("exit")'
    BY <2>1 DEF OrderOf
  <2>3. sock' = sock /\ t.eof # "end"
    BY <1>1, <1>5, <1>14
  <2>4. ~HasClose(v, Flight("exit"))
    BY <1>3, <1>4, <2>2 DEF OrderOf
  <2> QED BY <1>3, <1>6, <1>14, <1>15, <1>16, <1>20, <2>2, <2>3, <2>4, BothSides DEF OrderOf
<1> QED BY <1>18, <1>19, <1>21, <1>22, <1>23, <1>24, <1>25, <1>26, <1>27, BothSides

LEMMA ArrivesKeeps ==
  ASSUME TunnelInv, NEW s \in Sides, Arrives(s)
  PROVE  TunnelInv'
<1> USE DEF TunnelInv
<1> DEFINE o == Other(s)
           w == Tail(wire[o])
<1>1. o \in Sides /\ Other(o) = s /\ o # s /\ Sides = {s, o}
  BY TwoSides
<1>2. /\ wire[o] # <<>> /\ Head(wire[o]) \in {"data", "close"} /\ wire' = [wire EXCEPT ![o] = w]
      /\ UNCHANGED <<plan, callVars, up, sock, bridge>>
  BY DEF Arrives
<1>3. /\ tun[s] \in Tunnels /\ tun \in [Sides -> Tunnels] /\ wire \in [Sides -> Seq(Stanzas)]
      /\ tun[s].arrived \in Nat /\ tun[s].read \in Nat /\ tun[s].sent \in Nat
      /\ tun[o].arrived \in Nat /\ tun[o].read \in Nat /\ tun[o].sent \in Nat
      /\ Window \in Nat /\ Buffer \in Nat
  BY <1>1, SidesTyped DEF Typed
<1>4. /\ WireOf(s) /\ EofOf(s) /\ BridgeOf(s) /\ FlowOf(s) /\ OrderOf(s)
      /\ WireOf(o) /\ EofOf(o) /\ BridgeOf(o) /\ FlowOf(o) /\ OrderOf(o)
  BY <1>1
<1>5. /\ LeadOf(wire[o]) = 0 /\ LeadOf(w) = 0
      /\ Head(wire[o]) = "data" =>
           /\ Flight(o) > 0 /\ Shaped(w, Flight(o) - 1)
           /\ (HasClose(w, Flight(o) - 1) <=> HasClose(wire[o], Flight(o)))
      /\ Head(wire[o]) = "close" => Flight(o) = 0 /\ HasClose(wire[o], Flight(o)) /\ Shaped(w, Flight(o))
  BY <1>2, <1>4, TakeHead DEF WireOf
<1>6. w \in Seq(Stanzas)
  BY <1>2, <1>5 DEF Shaped
<1> HIDE DEF w
<1>7. wire'[o] = w /\ wire'[s] = wire[s] /\ wire' \in [Sides -> Seq(Stanzas)]
  BY <1>1, <1>2, <1>3, <1>6
<1>8. s = "client" => /\ pc = "settled" /\ LeadOf(wire["exit"]) # 1
  BY <1>1, <1>2, <1>5 DEF Phase, EarlyPhase, Other
<1>9. s = "exit" => /\ hp \in {"opening", "called"} /\ LeadOf(wire["exit"]) # 1 /\ LeadOf(wire["client"]) # 1
                    /\ hp = "called"
  <2>1. SUFFICES ASSUME s = "exit" PROVE hp \in {"opening", "called"} /\ LeadOf(wire["exit"]) # 1
                                         /\ LeadOf(wire["client"]) # 1 /\ hp = "called"
    OBVIOUS
  <2>2. o = "client"
    BY <2>1 DEF Other
  <2>3. hp \in {"opening", "called"}
    BY <1>2, <2>2 DEF Phase, ClientPhase
  <2>4. LeadOf(wire["exit"]) # 1 /\ LeadOf(wire["client"]) # 1
    BY <1>2, <1>5, <2>2 DEF Phase, HandshakePhase
  <2> QED BY <2>3, <2>4 DEF Phase, ExitPhase
<1>10. s = "exit" => pc = "settled"
  BY <1>2, BothSides DEF Phase, EarlyPhase
(* A block. *)
<1>11. CASE Head(wire[o]) = "data"
  <2> DEFINE n == tun[s].arrived + 1
             m == IF Live(s) THEN tun[s].read ELSE tun[s].read + 1
             t == [[tun[s] EXCEPT !.arrived = n] EXCEPT !.read = m]
  <2>1. tun' = [tun EXCEPT ![s] = t]
    <3>1. tun' = [tun EXCEPT ![s] = Taken(tun[s], Live(s))]
      BY <1>11 DEF Arrives
    <3>2. Taken(tun[s], Live(s)) = t
      BY <1>3 DEF Taken, Tunnels
    <3> QED BY <3>1, <3>2
  <2>2. /\ n \in Nat /\ n = tun[s].arrived + 1 /\ m \in Nat /\ m >= tun[s].read /\ m <= n
        /\ Live(s) => m = tun[s].read
    BY <1>3, <1>4 DEF FlowOf
  <2> HIDE DEF n, m
  <2>3. /\ t \in Tunnels /\ t.arrived = n /\ t.read = m /\ t.sent = tun[s].sent /\ t.state = tun[s].state
        /\ t.eof = tun[s].eof
    BY <1>3, <2>2 DEF Tunnels
  <2> HIDE DEF t
  <2>4. tun'[s] = t /\ tun'[o] = tun[o] /\ tun' \in [Sides -> Tunnels]
    BY <1>1, <1>3, <2>1, <2>3
  <2>5. Flight(o)' = Flight(o) - 1 /\ Flight(s)' = Flight(s)
    <3>1. Flight(o) = tun[o].sent - tun[s].arrived /\ Flight(s) = tun[s].sent - tun[o].arrived
      BY <1>1 DEF Flight
    <3>2. Flight(o)' = tun[o].sent - n /\ Flight(s)' = tun[s].sent - tun[o].arrived
      BY <1>1, <2>3, <2>4 DEF Flight
    <3>3. tun[o].sent - n = (tun[o].sent - tun[s].arrived) - 1
      BY <1>3, <2>2
    <3> QED BY <3>1, <3>2, <3>3
  <2>6. tun[s].eof = "end" => sock[s].ended
    BY <1>1, <1>4, <1>5, <1>11 DEF EofOf
  <2>7. Typed'
    BY <1>2, <1>7, <2>4 DEF Typed, callVars
  <2>8. Phase'
    <3>1. CASE s = "exit"
      BY <1>2, <1>5, <1>7, <1>9, <1>10, <2>3, <2>4, <3>1, BothSides
         DEF Phase, ExitPhase, ClientPhase, HandshakePhase, EarlyPhase, callVars
    <3>2. CASE s = "client"
      <4>1. ExitPhase'
        <5>1. hp \notin {"idle", "dialling", "due", "done", "left"}
          BY <1>2, <3>2, BothSides DEF Phase, ExitPhase
        <5>2. hp = "opening" => LeadOf(wire["client"]) = 1
          BY <1>8, <3>2 DEF Phase, ExitPhase
        <5> QED BY <1>2, <1>7, <2>4, <3>2, <5>1, <5>2, BothSides DEF Phase, ExitPhase, callVars
      <4>2. ClientPhase'
        BY <1>2, <1>7, <1>8, <2>3, <2>4, <3>2, BothSides DEF Phase, ClientPhase, callVars
      <4>3. HandshakePhase'
        BY <1>2, <1>5, <1>7, <3>2, BothSides DEF Phase, HandshakePhase, callVars
      <4>4. EarlyPhase'
        BY <1>2, <1>8, <3>2 DEF Phase, EarlyPhase, callVars
      <4> QED BY <4>1, <4>2, <4>3, <4>4 DEF Phase
    <3> QED BY <3>1, <3>2 DEF Sides
  <2>9. WireOf(s)' /\ WireOf(o)'
    BY <1>1, <1>4, <1>5, <1>7, <1>11, <2>3, <2>4, <2>5 DEF WireOf
  <2>10. EofOf(s)'
    BY <1>2, <1>4, <2>3, <2>4, <2>6 DEF EofOf
  <2>11. EofOf(o)'
    BY <1>1, <1>2, <1>4, <2>3, <2>4, <2>5 DEF EofOf
  <2>12. BridgeOf(s)' /\ BridgeOf(o)'
    BY <1>2, <1>4, <2>3, <2>4 DEF BridgeOf, On
  <2>13. FlowOf(s)'
    BY <1>1, <1>2, <1>4, <2>2, <2>3, <2>4 DEF FlowOf
  <2>14. FlowOf(o)'
    <3>1. tun[o].sent - m <= Window + Buffer
      BY <1>1, <1>3, <1>4, <2>2 DEF FlowOf
    <3> QED BY <1>1, <1>2, <1>4, <2>3, <2>4, <3>1 DEF FlowOf
  <2>15. OrderOf(s)'
    <3>1. SUFFICES ASSUME Faithful(s) PROVE OrderOf(s)'
      BY <1>2 DEF OrderOf, Faithful
    <3>2. tun[s].eof # "end"
      BY <1>4, <2>6, <3>1 DEF BridgeOf, Faithful
    <3>3. tun[s].state \in {"open", "closing", "over"}
      BY <1>9, <3>1, BothSides DEF Phase, ExitPhase, ClientPhase, Faithful, Sides
    <3>4. tun[s].eof # "error" => m = tun[s].read
      BY <1>3, <1>4, <2>2, <3>1, <3>2, <3>3 DEF OrderOf, Tunnels, Live
    <3>5. ~bridge[s].tunnelEnded
      BY <1>4, <3>1, <3>2 DEF OrderOf
    <3> QED BY <1>1, <1>2, <1>4, <1>7, <2>3, <2>4, <2>5, <3>1, <3>4, <3>5 DEF OrderOf
  <2>16. OrderOf(o)'
    <3>1. Faithful(o)' => Faithful(o)
      BY <1>2 DEF Faithful
    <3> QED BY <1>1, <1>2, <1>4, <1>5, <1>7, <1>11, <2>3, <2>4, <2>5, <3>1 DEF OrderOf
  <2> QED BY <1>1, <2>7, <2>8, <2>9, <2>10, <2>11, <2>12, <2>13, <2>14, <2>15, <2>16
(* A <close/>. *)
<1>12. CASE Head(wire[o]) = "close"
  <2> DEFINE f == IF tun[s].eof = "no" THEN "end" ELSE tun[s].eof
             t == [[tun[s] EXCEPT !.state = "over"] EXCEPT !.eof = f]
  <2>1. tun' = [tun EXCEPT ![s] = t]
    <3>1. tun' = [tun EXCEPT ![s] = Closed(tun[s])]
      BY <1>12 DEF Arrives
    <3>2. Closed(tun[s]) = t
      BY <1>3 DEF Closed, Tunnels
    <3> QED BY <3>1, <3>2
  <2>2. /\ t \in Tunnels /\ t.arrived = tun[s].arrived /\ t.read = tun[s].read /\ t.sent = tun[s].sent
        /\ t.state = "over" /\ t.eof = f /\ f \in {"end", "error"} /\ (f = "error" <=> tun[s].eof = "error")
        /\ (tun[s].eof = "end" => f = "end")
    BY <1>3 DEF Tunnels
  <2> HIDE DEF t, f
  <2>3. tun'[s] = t /\ tun'[o] = tun[o] /\ tun' \in [Sides -> Tunnels]
    BY <1>1, <1>3, <2>1, <2>2
  <2>4. Flight(o)' = Flight(o) /\ Flight(s)' = Flight(s)
    BY <1>1, <2>2, <2>3 DEF Flight
  <2>5. Flight(o) = 0 /\ HasClose(wire[o], Flight(o)) /\ tun[o].state = "over"
    BY <1>4, <1>5, <1>12 DEF WireOf
  <2>6. Typed'
    BY <1>2, <1>7, <2>3 DEF Typed, callVars
  <2>7. Phase'
    <3>1. CASE s = "exit"
      BY <1>2, <1>5, <1>7, <1>9, <1>10, <2>2, <2>3, <3>1, BothSides
         DEF Phase, ExitPhase, ClientPhase, HandshakePhase, EarlyPhase, callVars
    <3>2. CASE s = "client"
      <4>1. ExitPhase'
        <5>1. hp \notin {"idle", "dialling", "due", "done", "left"}
          BY <1>2, <3>2, BothSides DEF Phase, ExitPhase
        <5>2. hp = "opening" => LeadOf(wire["client"]) = 1
          BY <1>8, <3>2 DEF Phase, ExitPhase
        <5> QED BY <1>2, <1>7, <2>3, <3>2, <5>1, <5>2, BothSides DEF Phase, ExitPhase, callVars
      <4>2. ClientPhase'
        BY <1>2, <1>7, <1>8, <2>2, <2>3, <3>2, BothSides DEF Phase, ClientPhase, callVars
      <4>3. HandshakePhase'
        BY <1>2, <1>5, <1>7, <3>2, BothSides DEF Phase, HandshakePhase, callVars
      <4>4. EarlyPhase'
        BY <1>2, <1>8, <3>2 DEF Phase, EarlyPhase, callVars
      <4> QED BY <4>1, <4>2, <4>3, <4>4 DEF Phase
    <3> QED BY <3>1, <3>2 DEF Sides
  <2>8. WireOf(s)' /\ WireOf(o)'
    BY <1>1, <1>4, <1>5, <1>7, <1>12, <2>2, <2>3, <2>4, <2>5 DEF WireOf
  <2>9. EofOf(s)' /\ EofOf(o)'
    BY <1>1, <1>2, <1>4, <2>2, <2>3, <2>4, <2>5 DEF EofOf
  <2>10. BridgeOf(s)' /\ BridgeOf(o)'
    BY <1>2, <1>4, <2>2, <2>3 DEF BridgeOf, On
  <2>11. FlowOf(s)' /\ FlowOf(o)'
    BY <1>1, <1>2, <1>4, <2>2, <2>3 DEF FlowOf
  <2>12. OrderOf(s)'
    <3>1. Faithful(s)' => Faithful(s)
      BY <1>2 DEF Faithful
    <3> QED BY <1>1, <1>2, <1>4, <1>7, <2>2, <2>3, <2>4, <3>1 DEF OrderOf
  <2>13. OrderOf(o)'
    <3>1. Faithful(o)' => Faithful(o)
      BY <1>2 DEF Faithful
    <3>2. ~Faithful(o)
      BY <1>4, <2>5 DEF OrderOf
    <3> QED BY <3>1, <3>2 DEF OrderOf
  <2> QED BY <1>1, <2>6, <2>7, <2>8, <2>9, <2>10, <2>11, <2>12, <2>13
<1> QED BY <1>2, <1>11, <1>12

-----------------------------------------------------------------------------
(* Released managers. *)

LEMMA ReleaseKeeps ==
  ASSUME TunnelInv, NEW s \in Sides, Release(s)
  PROVE  TunnelInv'
<1> USE DEF TunnelInv
<1> DEFINE o == Other(s)
           w == wire'[s]
           t == IF tun[s].state = "none" THEN tun[s] ELSE Aborted(tun[s])
<1>1. o \in Sides /\ Other(o) = s /\ o # s /\ Sides = {s, o}
  BY TwoSides
<1>2. /\ s \in up /\ up' = up \ {s} /\ AbortTells(s)
      /\ UNCHANGED <<plan, iq, status, hp, sock, bridge>>
      /\ s = "client" /\ pc = "expecting" => pc' = "settled" /\ outcome' = "failed"
      /\ ~(s = "client" /\ pc = "expecting") => pc' = pc /\ outcome' = outcome
  BY DEF Release, Settle
<1>3. /\ tun[s] \in Tunnels /\ tun \in [Sides -> Tunnels] /\ wire \in [Sides -> Seq(Stanzas)]
  BY SidesTyped DEF Typed
<1>4. /\ WireOf(s) /\ EofOf(s) /\ BridgeOf(s) /\ FlowOf(s)
      /\ WireOf(o) /\ EofOf(o) /\ BridgeOf(o) /\ FlowOf(o)
  BY <1>1
<1>5. tun' = [tun EXCEPT ![s] = t]
  BY <1>3 DEF Release
<1>6. /\ t \in Tunnels /\ (t.eof = "end" <=> tun[s].eof = "end")
      /\ t.arrived = tun[s].arrived /\ t.read = tun[s].read /\ t.sent = tun[s].sent
      /\ tun[s].state # "none" => t.state = "over"
      /\ tun[s].state = "none" => t = tun[s]
  <2>1. CASE tun[s].state = "none"
    BY <1>3, <2>1
  <2>2. CASE tun[s].state # "none"
    BY <1>3, <2>2, AbortedTunnel
  <2> QED BY <2>1, <2>2
<1>7. /\ wire' = [wire EXCEPT ![s] = w] /\ w \in Seq(Stanzas) /\ Shaped(w, Flight(s))
      /\ LeadOf(w) = LeadOf(wire[s])
      /\ LeadOf(wire[s]) = 1 => Head(w) = Head(wire[s])
      /\ wire[s] = <<>> /\ ~Live(s) => w = <<>>
  BY <1>2, <1>4, Aborting
<1>8. ~Live(s) => w = wire[s]
  BY <1>2 DEF AbortTells
<1> HIDE DEF w, t
<1>9. wire'[s] = w /\ wire'[o] = wire[o] /\ tun'[s] = t /\ tun'[o] = tun[o]
  BY <1>1, <1>3, <1>5, <1>7
<1>10. Typed'
  <2>1. /\ pc' \in {"idle", "disco", "asking", "expecting", "settled"}
        /\ outcome' \in {"none", "tunnel", "response", "failed"}
    BY <1>2 DEF Typed
  <2>2. tun' \in [Sides -> Tunnels] /\ wire' \in [Sides -> Seq(Stanzas)] /\ up' \subseteq Sides
    BY <1>2, <1>3, <1>5, <1>6, <1>7 DEF Typed
  <2> QED BY <1>2, <2>1, <2>2 DEF Typed
<1>11. Phase'
  <2>1. CASE s = "client"
    <3>0. o = "exit"
      BY <2>1, BothSides
    <3>1. Live("client") => bridge["client"].state # "none" /\ hp \in {"opening", "called"} /\ pc = "settled"
      BY DEF Live, Phase, ClientPhase
    <3>2. ExitPhase'
      BY <1>2, <1>7, <1>9, <2>1, <3>0 DEF Phase, ExitPhase
    <3>3. ClientPhase'
      <4>1. bridge["client"].state = "none" => tun["client"].state \in {"none", "expected", "abandoned", "over"}
        BY DEF Phase, ClientPhase
      <4>2. hp \notin {"opening", "called"} => w = <<>>
        BY <1>8, <2>1, <3>1 DEF Phase, ClientPhase
      <4>3. tun'["client"].state # "expected" /\ pc' # "expecting"
        <5>1. t.state # "expected"
          BY <1>6
        <5>2. pc' # "expecting"
          BY <1>2, <2>1
        <5> QED BY <1>9, <2>1, <5>1, <5>2
      <4>4. pc' \in {"idle", "disco", "asking"} => tun'["client"] = NoTunnel
        <5>1. pc' \in {"idle", "disco", "asking"} => tun["client"] = NoTunnel
          BY <1>2, <2>1 DEF Phase, ClientPhase
        <5> QED BY <1>6, <1>9, <2>1, <5>1 DEF NoTunnel
      <4>5. bridge["client"].state # "none" => t.state = "over"
        BY <1>6, <2>1 DEF Phase, ClientPhase
      <4>6. pc = "settled" => pc' = "settled" /\ outcome' = outcome
        BY <1>2
      <4> QED BY <1>2, <1>6, <1>9, <2>1, <4>1, <4>2, <4>3, <4>4, <4>5, <4>6 DEF Phase, ClientPhase
    <3>4. HandshakePhase'
      <4>1. bridge["client"].state = "none" => w = wire["client"]
        BY <1>8, <2>1, <3>1
      <4> QED BY <1>2, <1>6, <1>7, <1>9, <2>1, <3>0, <4>1 DEF Phase, HandshakePhase
    <3>5. EarlyPhase'
      <4>1. pc' # "settled" => pc # "settled" /\ pc' = pc
        BY <1>2
      <4>2. pc # "settled" => w = wire["client"]
        BY <1>8, <2>1, <3>1
      <4>3. pc' \in {"idle", "disco"} => pc' = pc
        BY <1>2
      <4> QED BY <1>2, <1>9, <2>1, <3>0, <4>1, <4>2, <4>3 DEF Phase, EarlyPhase, Live
    <3> QED BY <3>2, <3>3, <3>4, <3>5 DEF Phase
  <2>2. CASE s = "exit"
    <3>0. o = "client" /\ pc' = pc /\ outcome' = outcome
      BY <1>2, <2>2, BothSides
    <3>1. ExitPhase'
      <4>1. hp \in {"idle", "dialling", "due", "done", "left"} => t = NoTunnel /\ w = <<>>
        BY <1>6, <1>8, <2>2 DEF Phase, ExitPhase, NoTunnel, Live
      <4>2. hp \in {"opening", "called"} => t.state = "over"
        BY <1>6, <2>2 DEF Phase, ExitPhase
      <4>3. hp = "dead" => t.state \in {"none", "over"}
        BY <1>6, <2>2 DEF Phase, ExitPhase
      <4> QED BY <1>2, <1>6, <1>7, <1>9, <2>2, <3>0, <4>1, <4>2, <4>3 DEF Phase, ExitPhase
    <3>2. ClientPhase'
      BY <1>2, <1>9, <2>2, <3>0 DEF Phase, ClientPhase
    <3>3. HandshakePhase'
      BY <1>2, <1>7, <1>9, <2>2, <3>0 DEF Phase, HandshakePhase
    <3>4. EarlyPhase'
      <4>1. w # <<>> => wire["exit"] # <<>> \/ Live("exit")
        BY <1>7, <2>2
      <4>2. ~Live("exit")'
        <5>1. t.state \in {"none", "over"}
          BY <1>6
        <5> QED BY <1>9, <2>2, <5>1 DEF Live
      <4> QED BY <1>2, <1>7, <1>9, <2>2, <3>0, <4>1, <4>2 DEF Phase, EarlyPhase
    <3> QED BY <3>1, <3>2, <3>3, <3>4 DEF Phase
  <2> QED BY <2>1, <2>2 DEF Sides
<1>12. WireOf(s)' /\ WireOf(o)'
  <2>1. HasClose(w, Flight(s)) => t.state = "over"
    <3>1. CASE tun[s].state = "none"
      BY <1>4, <1>6, <1>8, <3>1 DEF WireOf, Live
    <3>2. CASE tun[s].state # "none"
      BY <1>6, <3>2
    <3> QED BY <3>1, <3>2
  <2> QED BY <1>1, <1>4, <1>6, <1>7, <1>9, <2>1 DEF WireOf, Flight
<1>13. EofOf(s)' /\ EofOf(o)'
  <2>1. t.eof # "no" => t.state = "over"
    BY <1>4, <1>6 DEF EofOf
  <2>2. tun[s].state = "over" => t.state = "over"
    BY <1>6
  <2> QED BY <1>1, <1>2, <1>4, <1>6, <1>9, <2>1, <2>2 DEF EofOf, Flight
<1>14. BridgeOf(s)' /\ BridgeOf(o)'
  <2>1. t.state # "closing"
    BY <1>6
  <2> QED BY <1>1, <1>2, <1>4, <1>6, <1>9, <2>1 DEF BridgeOf, On
<1>15. FlowOf(s)' /\ FlowOf(o)'
  BY <1>1, <1>2, <1>4, <1>6, <1>9 DEF FlowOf
<1>16. OrderOf(s)' /\ OrderOf(o)'
  BY <1>2 DEF OrderOf, Faithful
<1> QED BY <1>1, <1>10, <1>11, <1>12, <1>13, <1>14, <1>15, <1>16

-----------------------------------------------------------------------------
(* Every step. *)

LEMMA NextSound ==
  ASSUME TunnelInv, [Next]_vars
  PROVE  TunnelInv'
<1>1. CASE UNCHANGED vars
  BY <1>1, StutterKeeps
<1>2. CASE Calling
  BY <1>2, ConnectKeeps, ResultIsHereKeeps, HangUpKeeps DEF Calling
<1>3. CASE Serving
  BY <1>3, OnConnectKeeps, DialledKeeps, ScheduledTunnelKeeps, CallTunnelKeeps DEF Serving
<1>4. CASE Moving
  BY <1>4, ConnectKeeps, OpenArrivesKeeps, OpenAnsweredKeeps, ArrivesKeeps DEF Moving
<1>5. CASE Saying
  BY <1>5, AppSaysKeeps, AppEndsKeeps, AppResetsKeeps DEF Saying
<1>6. CASE DiscoRefuses \/ RequestExpires
  BY <1>6, ConnectKeeps
<1>7. CASE GiveUp \/ ExpectationExpires
  BY <1>7, GiveUpKeeps, ExpectationExpiresKeeps
<1>8. CASE \E s \in Sides : Bridging(s) \/ AppHears(s) \/ Release(s)
  BY <1>8, BridgingKeeps, AppHearsKeeps, ReleaseKeeps
<1> QED BY <1>1, <1>2, <1>3, <1>4, <1>5, <1>6, <1>7, <1>8 DEF Next

(* In every reachable state the blocks on a wire come behind the handshake *)
(* and before every <close/> (bridge.ts and ibb.ts put them there in that  *)
(* order), each end of the tunnel is where the call and the handler left   *)
(* it, and a side that ended nothing finds the other end's tunnel orderly. *)
THEOREM TunnelIsSound == Spec => []TunnelInv
<1>1. Init => TunnelInv
  BY InitSound
<1>2. TunnelInv /\ [Next]_vars => TunnelInv'
  BY NextSound
<1> QED BY <1>1, <1>2, PTL DEF Spec

(* Everybody is where TypeOK says, and no application has heard more than  *)
(* was written to it, nor a bridge taken more than was said.               *)
THEOREM TypeCorrect == Spec => []TypeOK
<1>1. TunnelInv => TypeOK
  <2> SUFFICES ASSUME TunnelInv PROVE TypeOK
    OBVIOUS
  <2>1. plan.faults \subseteq FaultKinds /\ plan.ends \subseteq Sides /\ plan.handler \in Handlers
    BY PlansAssumption DEF PlansAssumption, TunnelInv, Typed
  <2>2. ASSUME NEW s \in Sides
        PROVE  /\ tun[s].state \in {"none", "expected", "abandoned", "opening", "open", "closing", "over"}
               /\ tun[s].eof \in {"no", "end", "error"}
               /\ sock[s].state \in {"none", "open", "ending", "destroyed"}
               /\ sock[s].heard <= sock[s].wrote /\ sock[s].taken <= sock[s].said
    BY SidesTyped DEF TunnelInv, FlowOf, Tunnels, Sockets
  <2> QED BY <2>1, <2>2 DEF TunnelInv, Typed, TypeOK
<1> QED BY <1>1, TunnelIsSound, PTL

(* Whatever the window, the buffer and the socket's high-water mark: of    *)
(* what a bridge took from its application (bridge.ts:52-73) at most one   *)
(* chunk, a window, a reader's buffer and a socket's buffer are on their   *)
(* way to the other application, so one that reads slowly stops the other. *)
THEOREM SlowReadersAreFelt == Spec => []SlowReaderSlowsSender
<1>1. TunnelInv => SlowReaderSlowsSender
  <2> SUFFICES ASSUME TunnelInv, NEW s \in Sides, ~bridge[s].tunnelEnded
               PROVE  (sock[s].taken - tun[Other(s)].read) + (sock[Other(s)].wrote - sock[Other(s)].heard)
                        <= 1 + Window + Buffer + HighWater
    BY DEF SlowReaderSlowsSender
  <2> DEFINE o == Other(s)
  <2>1. o \in Sides /\ FlowOf(s) /\ FlowOf(o)
    BY TwoSides DEF TunnelInv
  <2>2. /\ sock[s].taken \in Nat /\ tun[s].sent \in Nat /\ tun[o].read \in Nat
        /\ sock[o].wrote \in Nat /\ sock[o].heard \in Nat
        /\ Window \in Nat /\ Buffer \in Nat /\ HighWater \in Nat
    BY <2>1, SidesTyped DEF TunnelInv
  <2>3. sock[s].taken <= tun[s].sent + 1
    BY <2>1, <2>2 DEF FlowOf
  <2>4. tun[s].sent - tun[o].read <= Window + Buffer /\ sock[o].wrote - sock[o].heard <= HighWater
    BY <2>1 DEF FlowOf
  <2> QED BY <2>2, <2>3, <2>4
<1> QED BY <1>1, TunnelIsSound, PTL

(* Whatever is said: when a socket goes whose side ended nothing, although *)
(* no bridge failed and nobody was released, its application has heard all *)
(* that the other said before it ended (bridge.ts:75-88 and 120-125).      *)
THEOREM OrderlyEndsAreWhole == Spec => []WholeUnlessFailed
<1>1. TunnelInv => WholeUnlessFailed
  <2> SUFFICES ASSUME TunnelInv, NEW s \in Sides, up = Sides, sock[s].state = "destroyed", On(s),
                      ~bridge[s].failed, ~sock[s].fin, sock[Other(s)].ended, ~bridge[Other(s)].failed
               PROVE  sock[s].heard = plan.says[Other(s)]
    BY DEF WholeUnlessFailed
  <2> DEFINE o == Other(s)
  <2>1. /\ o \in Sides /\ Other(o) = s
        /\ EofOf(s) /\ BridgeOf(s) /\ BridgeOf(o) /\ OrderOf(s)
    BY TwoSides DEF TunnelInv
  <2>2. Faithful(s)
    BY DEF Faithful, On
  <2>3. ~sock[s].ended
    BY <2>1 DEF BridgeOf
  <2>4. bridge[s].tunnelEnded /\ sock[s].heard = sock[s].wrote
    BY <2>1, <2>3 DEF BridgeOf
  <2>5. tun[s].eof = "end" /\ tun[s].read = tun[s].arrived /\ tun[s].read = sock[s].wrote
    BY <2>1, <2>2, <2>4 DEF OrderOf
  <2>6. tun[o].sent = tun[s].arrived
    <3>1. Flight(o) = 0
      BY <2>1, <2>3, <2>5 DEF EofOf
    <3>2. tun[o].sent \in Nat /\ tun[s].arrived \in Nat
      BY <2>1, SidesTyped DEF TunnelInv
    <3> QED BY <2>1, <3>1, <3>2 DEF Flight
  <2>7. sock[o].taken = sock[o].said /\ sock[o].said = plan.says[o] /\ ~bridge[o].pending
    BY <2>1 DEF BridgeOf
  <2>8. sock[o].taken = tun[o].sent
    BY <2>1, <2>2, <2>7 DEF OrderOf
  <2> QED BY <2>4, <2>5, <2>6, <2>7, <2>8
<1> QED BY <1>1, TunnelIsSound, PTL
=============================================================================
