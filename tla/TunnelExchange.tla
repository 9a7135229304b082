--------------------------- MODULE TunnelExchange ---------------------------
(***************************************************************************)
(* A CONNECT tunnel from end to end: HttpxClient.connect() (src/client/    *)
(* client.ts), HttpxServer.#onConnect() (src/server/server.ts), the        *)
(* handler that dials the destination (src/node/connect-proxy.ts), and     *)
(* bridgeTunnel() (src/node/bridge.ts), which joins the tunnel to a TCP    *)
(* socket at both ends: the client's to an application, the exit's to the  *)
(* destination.                                                            *)
(*                                                                         *)
(* The IBB session is reduced to what the bridges see of it (IbbDuplex has *)
(* the rest): blocks and the <close/> arrive in order, a block is          *)
(* acknowledged when the receiver has room for it, either <close/> ends    *)
(* both directions.  An <open/> is answered before what follows it is      *)
(* looked at.                                                              *)
(*                                                                         *)
(* A definition whose comment starts with "Mutant" is no part of the       *)
(* specification: it is the definition that follows it, with a bug the     *)
(* properties must catch.                                                  *)
(***************************************************************************)
EXTENDS Integers, Sequences

CONSTANTS
  Window,    \* blocks sent and not acknowledged
  Buffer,    \* blocks a reader holds before it withholds acknowledgements
  HighWater, \* parts a socket buffers before write() says so
  Plans      \* the exchanges examined, see TypeOK

ASSUME TunnelAssumption == {Window, Buffer, HighWater} \subseteq Nat \ {0}

Sides      == {"client", "exit"}
Other(s)   == IF s = "client" THEN "exit" ELSE "client"
FaultKinds == {"timeout", "abort", "close", "stop", "refuse", "reset"}

(* What the exit does with the request: dials; refuses it undialled; means *)
(* to tunnel without a callback; dials, and answers with headers nobody    *)
(* can send, or with a body beside the tunnel.                             *)
Handlers   == {"dials", "unfit", "bare", "headers", "body"}

ASSUME PlansAssumption ==
  \A p \in Plans : p.faults \subseteq FaultKinds /\ p.ends \subseteq Sides /\ p.handler \in Handlers

VARIABLES
  plan,      \* what the applications say, the handler, the faults
  pc,        \* where connect() is
  outcome,   \* how it settled
  iq,        \* the CONNECT and its answer, between the two
  status,    \* what was answered
  hp,        \* where the exit's handler is
  up,        \* the two managers that were not released
  wire,      \* per side: the stanzas on their way from it
  tun,       \* per side: its end of the tunnel
  sock,      \* per side: its TCP socket and the application behind it
  bridge     \* per side: bridgeTunnel()

callVars == <<pc, outcome, iq, status, hp>>
pipeVars == <<wire, tun, sock, bridge>>
vars     == <<plan, callVars, up, pipeVars>>

Faulty(kind) == kind \in plan.faults

NoTunnel == [state |-> "none", arrived |-> 0, read |-> 0, sent |-> 0, eof |-> "no"]
NoSocket == [state |-> "none", said |-> 0, fin |-> FALSE, taken |-> 0, ended |-> FALSE,
             wrote |-> 0, heard |-> 0]
NoBridge == [state |-> "none", failed |-> FALSE, tunnelEnded |-> FALSE, pending |-> FALSE]

(* The application that wants the tunnel is there from the start. *)
Init ==
  /\ plan \in Plans
  /\ pc = "idle" /\ outcome = "none" /\ iq = "unsent" /\ status = 0 /\ hp = "idle"
  /\ up = Sides
  /\ wire = [s \in Sides |-> <<>>]
  /\ tun = [s \in Sides |-> NoTunnel]
  /\ sock = [s \in Sides |-> IF s = "client" THEN [NoSocket EXCEPT !.state = "open"] ELSE NoSocket]
  /\ bridge = [s \in Sides |-> NoBridge]

Put(s, stanza) == wire' = [wire EXCEPT ![s] = Append(@, stanza)]

Live(s) == tun[s].state \in {"opening", "open", "closing"}

(* abort() on an end of a tunnel: <close/>, unless the peer knows.         *)
Aborted(t)   == [t EXCEPT !.state = "over", !.eof = IF @ = "no" THEN "error" ELSE @]
AbortTells(s) == IF Live(s) THEN Put(s, "close") ELSE UNCHANGED wire
AbortTunnel(s) == tun' = [tun EXCEPT ![s] = Aborted(@)] /\ AbortTells(s)

-----------------------------------------------------------------------------
(* bridgeTunnel().  "Started" on a socket that is gone, it winds the       *)
(* tunnel down.                                                            *)

Start(s) ==
  /\ bridge[s].state = "due"
  /\ bridge' = [bridge EXCEPT ![s].state = IF sock[s].state = "destroyed" THEN "done" ELSE "on"]
  /\ IF sock[s].state = "destroyed" THEN AbortTunnel(s) ELSE UNCHANGED <<wire, tun>>
  /\ UNCHANGED <<plan, callVars, up, sock>>

(* fail(): once, for both. *)
Fail(s) ==
  IF bridge[s].failed THEN UNCHANGED pipeVars
  ELSE /\ bridge' = [bridge EXCEPT ![s].failed = TRUE, ![s].pending = FALSE]
       /\ sock' = [sock EXCEPT ![s].state = "destroyed"]
       /\ AbortTunnel(s)

On(s) == bridge[s].state = "on"

(* Mutant: the socket is not paused while a write is pending.              *)
TakeChunkUnpaused(s) ==
  /\ On(s) /\ sock[s].state # "destroyed" /\ sock[s].taken < sock[s].said
  /\ sock' = [sock EXCEPT ![s].taken = @ + 1]
  /\ bridge' = [bridge EXCEPT ![s].pending = ~bridge[s].tunnelEnded]
  /\ UNCHANGED <<plan, callVars, up, wire, tun>>

(* "data": one write at a time, the socket paused meanwhile.               *)
TakeChunk(s) ==
  /\ On(s) /\ sock[s].state # "destroyed" /\ sock[s].taken < sock[s].said /\ ~bridge[s].pending
  /\ sock' = [sock EXCEPT ![s].taken = @ + 1]
  /\ bridge' = [bridge EXCEPT ![s].pending = ~bridge[s].tunnelEnded]
  /\ UNCHANGED <<plan, callVars, up, wire, tun>>

(* Blocks of s that its peer has not acknowledged. *)
Unacked(s) ==
  LET t == tun[Other(s)]
      held == t.arrived - t.read - Buffer IN
  (tun[s].sent - t.arrived) + (IF held > 0 THEN held ELSE 0)

(* The write of that chunk: it waits for room in the window, and rejects   *)
(* on a tunnel that is over.                                               *)
WriteChunk(s) ==
  /\ bridge[s].pending
  /\ IF tun[s].state = "open"
     THEN /\ Unacked(s) < Window
          /\ Put(s, "data") /\ tun' = [tun EXCEPT ![s].sent = @ + 1]
          /\ bridge' = [bridge EXCEPT ![s].pending = FALSE]
          /\ UNCHANGED sock
     ELSE Fail(s)
  /\ UNCHANGED <<plan, callVars, up>>

(* "end": the tunnel is closed behind what was written.  Nothing can be    *)
(* written to this socket any more: Node ends its other half.              *)
SocketEnds(s) ==
  /\ On(s) /\ sock[s].state # "destroyed"
  /\ sock[s].fin /\ ~sock[s].ended /\ sock[s].taken = sock[s].said /\ ~bridge[s].pending
  /\ sock' = [sock EXCEPT ![s].ended = TRUE, ![s].state = "ending"]
  /\ tun' = [tun EXCEPT ![s].state = IF @ = "open" THEN "closing" ELSE @]
  /\ UNCHANGED <<plan, callVars, up, wire, bridge>>

(* close() has every acknowledgement: its own reader ends too.             *)
SendClose(s) ==
  /\ tun[s].state = "closing" /\ Unacked(s) = 0
  /\ Put(s, "close")
  /\ tun' = [tun EXCEPT ![s].state = "over", ![s].eof = "end"]
  /\ UNCHANGED <<plan, callVars, up, sock, bridge>>

Reading(s) == On(s) /\ ~bridge[s].failed /\ ~bridge[s].tunnelEnded

(* Mutant: nobody waits for "drain". *)
ReadTunnelAhead(s) ==
  /\ Reading(s) /\ tun[s].eof # "error" /\ tun[s].read < tun[s].arrived
  /\ CASE sock[s].state = "open" ->
            /\ tun' = [tun EXCEPT ![s].read = @ + 1]
            /\ sock' = [sock EXCEPT ![s].wrote = @ + 1]
            /\ UNCHANGED <<wire, bridge>>
       [] sock[s].state = "ending" -> Fail(s)
       [] sock[s].state = "destroyed" ->
            bridge' = [bridge EXCEPT ![s].tunnelEnded = TRUE] /\ UNCHANGED <<wire, tun, sock>>
  /\ UNCHANGED <<plan, callVars, up>>

(* One part to the socket, and a wait for "drain" when it is full.  A      *)
(* socket whose application has ended refuses it.                          *)
ReadTunnel(s) ==
  /\ Reading(s) /\ tun[s].eof # "error" /\ tun[s].read < tun[s].arrived
  /\ sock[s].state # "destroyed" => sock[s].wrote - sock[s].heard < HighWater
  /\ CASE sock[s].state = "open" ->
            /\ tun' = [tun EXCEPT ![s].read = @ + 1]
            /\ sock' = [sock EXCEPT ![s].wrote = @ + 1]
            /\ UNCHANGED <<wire, bridge>>
       [] sock[s].state = "ending" -> Fail(s)
       [] sock[s].state = "destroyed" ->
            bridge' = [bridge EXCEPT ![s].tunnelEnded = TRUE] /\ UNCHANGED <<wire, tun, sock>>
  /\ UNCHANGED <<plan, callVars, up>>

(* Mutant: the socket is destroyed with what it still holds. *)
ReadEndAtOnce(s) ==
  /\ Reading(s)
  /\ \/ /\ tun[s].eof = "end" /\ tun[s].read = tun[s].arrived
        /\ bridge' = [bridge EXCEPT ![s].tunnelEnded = TRUE]
        /\ sock' = [sock EXCEPT ![s].state = "destroyed"]
        /\ UNCHANGED <<wire, tun>>
     \/ tun[s].eof = "error" /\ Fail(s)
  /\ UNCHANGED <<plan, callVars, up>>

(* The tunnel has ended: the socket goes when what it holds has left.      *)
ReadEnd(s) ==
  /\ Reading(s)
  /\ \/ /\ tun[s].eof = "end" /\ tun[s].read = tun[s].arrived
        /\ bridge' = [bridge EXCEPT ![s].tunnelEnded = TRUE]
        /\ sock' = [sock EXCEPT ![s].state = IF @ = "destroyed" THEN @ ELSE "ending"]
        /\ UNCHANGED <<wire, tun>>
     \/ tun[s].eof = "error" /\ Fail(s)
  /\ UNCHANGED <<plan, callVars, up>>

Flushed(s) ==
  /\ sock[s].state = "ending" /\ sock[s].heard = sock[s].wrote
  /\ sock' = [sock EXCEPT ![s].state = "destroyed"]
  /\ UNCHANGED <<plan, callVars, up, wire, tun, bridge>>

Bridging(s) ==
  Start(s) \/ TakeChunk(s) \/ WriteChunk(s) \/ SocketEnds(s) \/ SendClose(s) \/ ReadTunnel(s) \/ ReadEnd(s) \/ Flushed(s)

-----------------------------------------------------------------------------
(* The applications. *)

AppSays(s) ==
  /\ sock[s].state \in {"open", "ending"} /\ ~sock[s].fin /\ sock[s].said < plan.says[s]
  /\ sock' = [sock EXCEPT ![s].said = @ + 1]
  /\ UNCHANGED <<plan, callVars, up, wire, tun, bridge>>

AppHears(s) ==
  /\ sock[s].state \in {"open", "ending"} /\ sock[s].heard < sock[s].wrote
  /\ sock' = [sock EXCEPT ![s].heard = @ + 1]
  /\ UNCHANGED <<plan, callVars, up, wire, tun, bridge>>

AppEnds(s) ==
  /\ sock[s].state \in {"open", "ending"} /\ ~sock[s].fin /\ sock[s].said = plan.says[s] /\ s \in plan.ends
  /\ sock' = [sock EXCEPT ![s].fin = TRUE]
  /\ UNCHANGED <<plan, callVars, up, wire, tun, bridge>>

(* A reset is an "error" for whoever listens. *)
AppResets(s) ==
  /\ Faulty("reset") /\ sock[s].state \in {"open", "ending"}
  /\ IF On(s) /\ ~bridge[s].failed THEN Fail(s)
     ELSE sock' = [sock EXCEPT ![s].state = "destroyed"] /\ UNCHANGED <<wire, tun, bridge>>
  /\ UNCHANGED <<plan, callVars, up>>

-----------------------------------------------------------------------------
(* connect(). *)

Settle(how) == pc' = "settled" /\ outcome' = how

Connect ==
  /\ pc = "idle"
  /\ IF "client" \notin up THEN Settle("failed") ELSE pc' = "disco" /\ UNCHANGED outcome
  /\ UNCHANGED <<plan, iq, status, hp, up, pipeVars>>

DiscoRefuses ==
  /\ pc = "disco" /\ Faulty("refuse")
  /\ Settle("failed")
  /\ UNCHANGED <<plan, iq, status, hp, up, pipeVars>>

SendConnect ==
  /\ pc = "disco"
  /\ pc' = "asking" /\ iq' = "asked"
  /\ UNCHANGED <<plan, outcome, status, hp, up, pipeVars>>

(* A 2xx means that the <open/> is expected from now on. *)
ResultIsHere ==
  /\ pc = "asking" /\ iq \in {"received", "expired"}
  /\ CASE iq = "expired"             -> Settle("failed") /\ UNCHANGED tun
       [] iq # "expired" /\ status # 200 -> Settle("response") /\ UNCHANGED tun
       [] OTHER -> /\ pc' = "expecting" /\ UNCHANGED outcome
                   /\ tun' = [tun EXCEPT !["client"].state = "expected"]
  /\ UNCHANGED <<plan, iq, status, hp, up, wire, sock, bridge>>

(* The caller aborts. *)
GiveUp ==
  /\ Faulty("abort") /\ pc \in {"disco", "asking", "expecting"}
  /\ Settle("failed")
  /\ tun' = [tun EXCEPT !["client"].state = IF pc = "expecting" THEN "abandoned" ELSE @]
  /\ UNCHANGED <<plan, iq, status, hp, up, wire, sock, bridge>>

(* An expectation has a deadline, which is all that ends one whose server  *)
(* was stopped.                                                            *)
ExpectationExpires ==
  /\ Faulty("timeout") \/ "exit" \notin up
  /\ tun["client"].state \in {"expected", "abandoned"}
  /\ tun' = [tun EXCEPT !["client"].state = "over"]
  /\ IF pc = "expecting" THEN Settle("failed") ELSE UNCHANGED <<pc, outcome>>
  /\ UNCHANGED <<plan, iq, status, hp, up, wire, sock, bridge>>

(* The caller hangs up on its application when there is no tunnel.         *)
HangUp ==
  /\ pc = "settled" /\ outcome # "tunnel" /\ sock["client"].state # "destroyed"
  /\ sock' = [sock EXCEPT !["client"].state = "destroyed"]
  /\ UNCHANGED <<plan, callVars, up, wire, tun, bridge>>

-----------------------------------------------------------------------------
(* The exit. *)

Answer(code) == status' = code /\ iq' = IF iq = "asked" THEN "answered" ELSE iq

(* A stopped server, content, a requester that takes no IBB, and a server  *)
(* without a handler are answered before anything is dialled.              *)
OnConnect ==
  /\ iq = "asked" /\ hp = "idle"
  /\ IF "exit" \notin up \/ plan.handler = "unfit" THEN Answer(501) /\ hp' = "done"
     ELSE hp' = "dialling" /\ UNCHANGED <<iq, status>>
  /\ UNCHANGED <<plan, pc, outcome, up, pipeVars>>

(* Refused by the destination or the policy, in error, or a 2xx without a  *)
(* tunnel: an ordinary answer.                                             *)
NoTunnelGiven ==
  /\ hp = "dialling" /\ (Faulty("refuse") \/ plan.handler = "bare")
  /\ hp' = "done"
  /\ \E code \in IF plan.handler = "bare" THEN {500} ELSE {403, 502, 504} : Answer(code)
  /\ UNCHANGED <<plan, pc, outcome, up, pipeVars>>

(* The handler holds the destination's socket from here.  An answer whose  *)
(* headers cannot be sent leaves it a dead tunnel; one with a body is      *)
(* refused like an error, and nobody calls the handler back ("left").      *)
Dialled ==
  /\ hp = "dialling" /\ plan.handler # "bare"
  /\ sock' = [sock EXCEPT !["exit"].state = "open"]
  /\ hp' = CASE plan.handler = "headers" -> "dead"
             [] plan.handler = "body"    -> "left"
             [] OTHER                    -> "due"
  /\ Answer(IF plan.handler \in {"headers", "body"} THEN 500 ELSE 200)
  /\ UNCHANGED <<plan, pc, outcome, up, wire, tun, bridge>>

(* Mutant: the manager is read when the tunnel is scheduled.               *)
ScheduledTunnelAnyway ==
  /\ hp = "due"
  /\ IF "exit" \in up THEN hp' = "opening" /\ Put("exit", "open") /\ tun' = [tun EXCEPT !["exit"].state = "opening"]
     ELSE hp' = "called" /\ UNCHANGED <<wire, tun>>
  /\ UNCHANGED <<plan, pc, outcome, iq, status, up, sock, bridge>>

(* #scheduleTunnel(): the manager is read now, not when it was scheduled.  *)
ScheduledTunnel ==
  /\ hp = "due"
  /\ IF "exit" \in up THEN hp' = "opening" /\ Put("exit", "open") /\ tun' = [tun EXCEPT !["exit"].state = "opening"]
     ELSE hp' = "dead" /\ UNCHANGED <<wire, tun>>
  /\ UNCHANGED <<plan, pc, outcome, iq, status, up, sock, bridge>>

(* The handler is called once, with the tunnel or with a dead one.         *)
CallTunnel ==
  /\ hp = "dead" /\ hp' = "called"
  /\ tun' = [tun EXCEPT !["exit"] = Aborted(@)]
  /\ bridge' = [bridge EXCEPT !["exit"].state = "due"]
  /\ UNCHANGED <<plan, pc, outcome, iq, status, up, wire, sock>>

(* stop() and the client's close(): what the manager holds fails, and      *)
(* tells its peer.                                                         *)
Release(s) ==
  /\ Faulty(IF s = "client" THEN "close" ELSE "stop") /\ s \in up
  /\ up' = up \ {s}
  /\ AbortTells(s)
  /\ tun' = [tun EXCEPT ![s] = IF @.state = "none" THEN @ ELSE Aborted(@)]
  /\ IF s = "client" /\ pc = "expecting" THEN Settle("failed") ELSE UNCHANGED <<pc, outcome>>
  /\ UNCHANGED <<plan, iq, status, hp, sock, bridge>>

-----------------------------------------------------------------------------
(* The wire. *)

AnswerArrives ==
  /\ iq = "answered" /\ iq' = "received"
  /\ UNCHANGED <<plan, pc, outcome, status, hp, up, pipeVars>>

RequestExpires ==
  /\ Faulty("timeout") /\ iq \in {"asked", "answered"} /\ iq' = "expired"
  /\ UNCHANGED <<plan, pc, outcome, status, hp, up, pipeVars>>

(* Mutant: a tunnel that comes too late is nobody's. *)
OpenReplyUnowned(expectation) ==
  IF expectation \in {"expected", "abandoned"} THEN <<"yes">> ELSE <<"no">>

(* "Abandoned while the <open> was on its way": a late tunnel is aborted.  *)
OpenReply(expectation) ==
  CASE expectation = "expected"  -> <<"yes">>
    [] expectation = "abandoned" -> <<"yes", "close">>
    [] OTHER -> <<"no">>

(* A released manager is asked no less: its handlers stay registered.      *)
OpenArrives ==
  LET reply == OpenReply(tun["client"].state) IN
  /\ wire["exit"] # <<>> /\ Head(wire["exit"]) = "open"
  /\ iq \notin {"asked", "answered"} /\ pc # "asking"
  /\ wire' = [client |-> wire["client"] \o reply, exit |-> Tail(wire["exit"])]
  /\ tun' = [tun EXCEPT !["client"].state = CASE reply = <<"yes">> -> "open"
                                              [] reply = <<"yes", "close">> -> "over"
                                              [] OTHER -> @]
  /\ IF pc = "expecting" THEN Settle("tunnel") /\ bridge' = [bridge EXCEPT !["client"].state = "due"]
     ELSE UNCHANGED <<pc, outcome, bridge>>
  /\ UNCHANGED <<plan, iq, status, hp, up, sock>>

OpenAnswered ==
  /\ wire["client"] # <<>> /\ Head(wire["client"]) \in {"yes", "no"}
  /\ wire' = [wire EXCEPT !["client"] = Tail(@)]
  /\ IF Head(wire["client"]) = "yes"
     THEN /\ hp' = "called" /\ bridge' = [bridge EXCEPT !["exit"].state = "due"]
          /\ tun' = [tun EXCEPT !["exit"].state = IF @ = "opening" THEN "open" ELSE @]
     ELSE hp' = "dead" /\ tun' = [tun EXCEPT !["exit"] = Aborted(@)] /\ UNCHANGED bridge
  /\ UNCHANGED <<plan, pc, outcome, iq, status, up, sock>>

(* A block, for a reader that still takes it, or the peer's <close/>.      *)
Taken(t, live) == [t EXCEPT !.arrived = @ + 1, !.read = IF live THEN @ ELSE @ + 1]
Closed(t)      == [t EXCEPT !.state = "over", !.eof = IF @ = "no" THEN "end" ELSE @]

Arrives(s) ==
  LET from == Other(s) IN
  /\ wire[from] # <<>> /\ Head(wire[from]) \in {"data", "close"}
  /\ wire' = [wire EXCEPT ![from] = Tail(@)]
  /\ tun' = [tun EXCEPT ![s] = IF Head(wire[from]) = "data" THEN Taken(@, Live(s)) ELSE Closed(@)]
  /\ UNCHANGED <<plan, callVars, up, sock, bridge>>

-----------------------------------------------------------------------------
Calling == Connect \/ SendConnect \/ ResultIsHere \/ HangUp
Serving == OnConnect \/ NoTunnelGiven \/ Dialled \/ ScheduledTunnel \/ CallTunnel
Moving  == AnswerArrives \/ OpenArrives \/ OpenAnswered \/ \E s \in Sides : Arrives(s)
Saying  == \E s \in Sides : AppSays(s) \/ AppEnds(s) \/ AppResets(s)

Next ==
  \/ Calling \/ Serving \/ Moving \/ Saying
  \/ DiscoRefuses \/ GiveUp \/ RequestExpires \/ ExpectationExpires
  \/ \E s \in Sides : Bridging(s) \/ AppHears(s) \/ Release(s)

(* Code runs on, stanzas arrive, applications take what they are sent.     *)
Fairness ==
  /\ WF_vars(Calling) /\ WF_vars(Serving) /\ WF_vars(AnswerArrives \/ OpenArrives \/ OpenAnswered)
  /\ WF_vars(ExpectationExpires)
  /\ \A s \in Sides : WF_vars(Bridging(s)) /\ WF_vars(Arrives(s)) /\ WF_vars(AppHears(s))

Spec     == Init /\ [][Next]_vars
FairSpec == Spec /\ Fairness

-----------------------------------------------------------------------------
(* Where everybody can be. *)
TypeOK ==
  /\ plan.faults \subseteq FaultKinds /\ plan.ends \subseteq Sides
  /\ plan.handler \in Handlers
  /\ pc \in {"idle", "disco", "asking", "expecting", "settled"}
  /\ outcome \in {"none", "tunnel", "response", "failed"}
  /\ iq \in {"unsent", "asked", "answered", "received", "expired"}
  /\ hp \in {"idle", "dialling", "due", "opening", "dead", "called", "done", "left"}
  /\ \A s \in Sides :
       /\ tun[s].state \in {"none", "expected", "abandoned", "opening", "open", "closing", "over"}
       /\ tun[s].eof \in {"no", "end", "error"}
       /\ sock[s].state \in {"none", "open", "ending", "destroyed"}
       /\ sock[s].heard <= sock[s].wrote /\ sock[s].taken <= sock[s].said

(* An application whose peer ended in order has everything the peer said   *)
(* when its own socket goes, if neither bridge failed and nothing was      *)
(* released: close() comes behind the blocks, and the socket behind what   *)
(* it was given.                                                           *)
WholeUnlessFailed ==
  \A s \in Sides :
    /\ up = Sides /\ sock[s].state = "destroyed" /\ On(s) /\ ~bridge[s].failed /\ ~sock[s].fin
    /\ sock[Other(s)].ended /\ ~bridge[Other(s)].failed
    => sock[s].heard = plan.says[Other(s)]

(* "a slow reader on either side slows the sender on the other, end to     *)
(* end, instead of filling someone's memory": of what a bridge took from   *)
(* its application for a tunnel that had not ended, what is neither given  *)
(* to the other application nor thrown away with a tunnel that is over is  *)
(* bounded.                                                                *)
SlowReaderSlowsSender ==
  \A s \in Sides :
    LET unread  == sock[s].taken - tun[Other(s)].read
        unheard == sock[Other(s)].wrote - sock[Other(s)].heard
    IN  ~bridge[s].tunnelEnded => unread + unheard <= 1 + Window + Buffer + HighWater

Gone(s) == sock[s].state \in {"none", "destroyed"} /\ ~Live(s) /\ tun[s].state \notin {"expected", "abandoned"}

HungUp ==
  \/ pc = "settled" /\ outcome # "tunnel"
  \/ \E s \in Sides : sock[s].fin \/ sock[s].state = "destroyed" \/ tun[s].state = "over"
  \/ pc # "idle" /\ "exit" \notin up

(* Whoever hangs up, and whenever: both sockets are let go, also one that  *)
(* was dialled for a tunnel that never came to be, and neither end of the  *)
(* tunnel is left with nobody who owns it.  The exception is the socket of *)
(* a handler that answered with a tunnel and a body: it is never told.     *)
EveryoneHangsUp == HungUp ~> Gone("client") /\ (Gone("exit") \/ hp = "left")
=============================================================================
