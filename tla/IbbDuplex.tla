------------------------------ MODULE IbbDuplex ------------------------------
(***************************************************************************)
(* A duplex of src/ibb/ibb.ts, both ends of it: one sid, two directions,   *)
(* no half-close.  "a" opens it (openDuplex), "b" accepts it               *)
(* (expectDuplex); #createDuplex ties an inbound half to a sending half    *)
(* and has to end both, at both ends, on every path: close(), abort(), a   *)
(* cancelled reader, the peer's <close/>, a block refused or overdue, a    *)
(* watchdog, and any of them crossing on the wire.                         *)
(*                                                                         *)
(* One synchronous stretch of code at one end is one action: it leaves the *)
(* end in a new state and puts stanzas on the wire, in order (Stretch).    *)
(* Each direction of the XMPP stream is one FIFO queue of requests and     *)
(* answers.  Blocks are numbered from 1; whether a consumer lags, so that  *)
(* an ack is withheld, is a free choice here (IbbStream counts the buffer).*)
(*                                                                         *)
(* A definition whose comment starts with "Mutant" is no part of the       *)
(* specification: it is the definition that follows it, with a bug the     *)
(* properties must catch.                                                  *)
(***************************************************************************)
EXTENDS Naturals, Sequences, FiniteSets

CONSTANTS
  MaxBlocks,  \* bound: blocks each end writes
  Window,     \* the window of each sending half
  Scenarios   \* sets of FaultKinds: what may go wrong in one tunnel's life

FaultKinds == {"abort", "damage", "idle", "earlyIdle", "blockTimeout", "closeTimeout",
               "openTimeout", "acceptTimeout"}

ASSUME DuplexAssumption ==
  MaxBlocks \in Nat /\ Window \in Nat \ {0} /\ Scenarios \subseteq SUBSET FaultKinds

VARIABLES
  faults,   \* the scenario this tunnel meets
  end,      \* per end: the state of its duplex, see EndState
  channel,  \* per end: stanzas on their way to it
  opening,  \* a's openDuplex(): "no", "asked", "open" or "discarded"
  expects,  \* b's expectDuplex(): "no", "waiting" or "over"
  parked,   \* b holds the <open> in #parkedOpens
  accepting \* b claimed the <open> and has yet to answer it

vars == <<faults, end, channel, opening, expects, parked, accepting>>

Ends    == {"a", "b"}
Peer(e) == IF e = "a" THEN "b" ELSE "a"
Blocks  == 1..MaxBlocks

EndState ==
  [half         : {"none", "live", "tombstone", "gone"}, \* the entry in #inStreams; the last two are finished
   taken        : 0..MaxBlocks,   \* the peer's blocks given to the reader
   withheld     : Seq(Blocks),    \* those whose handlers await a pull, as they came
   refused      : {"no", "due", "told", "overtaken"}, \* the block after these was refused as
                                  \* damaged: the refusal has yet to leave, or left, see Overtaken
   onFailDue    : BOOLEAN,        \* the deferred onFail of #finishInStream
   sent         : 0..MaxBlocks,   \* our blocks dispatched
   inFlight     : SUBSET Blocks,  \* those unanswered
   failed       : {"no", "block", "abort"},
   closedByPeer : BOOLEAN,
   closeSent    : BOOLEAN,        \* sendClose() ran
   peerKnows    : BOOLEAN,
   closes       : 0..2,           \* <close/>s of ours put on the wire
   closing      : {"no", "draining", "sent", "telling", "resolved", "rejected"}, \* handle.close()
   aborting     : BOOLEAN]        \* an abort() awaits the answer to our <close/>

Untouched ==
  [half |-> "none", taken |-> 0, withheld |-> <<>>, refused |-> "no", onFailDue |-> FALSE,
   sent |-> 0, inFlight |-> {}, failed |-> "no", closedByPeer |-> FALSE, closeSent |-> FALSE,
   peerKnows |-> FALSE, closes |-> 0, closing |-> "no", aborting |-> FALSE]

Open            == [kind |-> "open"]
CloseIq         == [kind |-> "close"]
Data(n)         == [kind |-> "data", block |-> n]
Answer(iq, res) == [kind |-> "answer", to |-> iq, result |-> res]

Init ==
  /\ faults \in Scenarios
  /\ end = [e \in Ends |-> Untouched]
  /\ channel = [e \in Ends |-> <<>>]
  /\ opening = "no" /\ expects = "no" /\ parked = FALSE /\ accepting = FALSE

-----------------------------------------------------------------------------
(* What a stretch of code does to one end: `st` is the end's state, `out`  *)
(* the stanzas it sent so far.                                             *)

Start(e) == [st |-> end[e], out |-> <<>>]

Puts(x, stanzas) == [x EXCEPT !.out = @ \o stanzas]

Answers(blocks, res) == [i \in DOMAIN blocks |-> Answer(Data(blocks[i]), res)]

(* Mutant: nobody wakes them. *)
WakeNobody(x, res) == [x EXCEPT !.st.withheld = <<>>]

(* The parked #onData handlers wake to a finished stream. *)
WakeHandlers(x, res) == [Puts(x, Answers(x.st.withheld, res)) EXCEPT !.st.withheld = <<>>]

(* Mutant: no tombstone. *)
RetireForGood(x, keep) ==
  IF x.st.half # "live" THEN x ELSE [WakeHandlers(x, "ok") EXCEPT !.st.half = "gone"]

(* retireInbound(): a half still live is finished as cancelled, and stays  *)
(* as a tombstone if it is to be kept.                                     *)
RetireInbound(x, keep) ==
  IF x.st.half # "live" THEN x
  ELSE [WakeHandlers(x, "ok") EXCEPT !.st.half = IF keep THEN "tombstone" ELSE "gone"]

RemoveTombstone(x) == [x EXCEPT !.st.half = "gone"]

(* Mutant: an inbound failure is not the duplex's. *)
FinishAlone(x, error) ==
  IF x.st.half # "live" THEN x ELSE [WakeHandlers(x, "not-found") EXCEPT !.st.half = "gone"]

(* #finishInStream(): unregistered at once, onFail a macrotask later.      *)
FinishInStream(x, error) ==
  IF x.st.half # "live" THEN x
  ELSE [WakeHandlers(x, "not-found") EXCEPT !.st.half = "gone", !.st.onFailDue = error]

(* The <close/> leaves at once; the answers of handlers woken in the same   *)
(* stretch leave when these run on, in a microtask.                         *)
SendClose(x) ==
  [x EXCEPT !.out = <<CloseIq>> \o @, !.st.closes = @ + 1, !.st.peerKnows = TRUE]

(* sendClose() of the sending half, with the hook beforeSendClose. *)
CloseStream(x) == SendClose([RetireInbound(x, TRUE) EXCEPT !.st.closeSent = TRUE])

Buried(x) == RemoveTombstone(RetireInbound(x, FALSE))

(* abort(): the sending half's own abort sends the <close/> unless the     *)
(* stream is over already; then tellPeer() does, unless the peer knows.    *)
AbortDuplex(x) ==
  IF ~x.st.closeSent /\ x.st.failed = "no" /\ ~x.st.closedByPeer
  THEN CloseStream([x EXCEPT !.st.failed = "abort", !.st.aborting = TRUE])
  ELSE IF ~x.st.peerKnows
  THEN SendClose([RetireInbound(x, TRUE) EXCEPT !.st.aborting = TRUE])
  ELSE Buried(x)

(* close() whose sending half threw: retire, tell the peer, and reject.    *)
CloseFails(x) ==
  LET retired == RetireInbound(x, TRUE) IN
  IF retired.st.peerKnows
  THEN RemoveTombstone([retired EXCEPT !.st.closing = "rejected"])
  ELSE SendClose([retired EXCEPT !.st.closing = "telling"])

CloseResolves(x) == RemoveTombstone([x EXCEPT !.st.closing = "resolved"])

(* A block was refused or met its deadline: after the peer's <close/> a    *)
(* not-found is an ordinary discard; else the first failure ends it all.   *)
BlockFails(x, res) ==
  IF (x.st.closedByPeer /\ res = "not-found") \/ x.st.failed # "no" THEN x
  ELSE AbortDuplex([x EXCEPT !.st.failed = "block"])

(* The end e is left as x says, and its stanzas are on their way. *)
Stretch(e, x, consumed) ==
  /\ end' = [end EXCEPT ![e] = x.st]
  /\ channel' = [channel EXCEPT ![Peer(e)] = @ \o x.out,
                                ![e] = IF consumed THEN Tail(@) ELSE @]
  /\ UNCHANGED faults

Opens    == UNCHANGED <<opening, expects, parked, accepting>>
Does(e, x)     == Stretch(e, x, FALSE) /\ Opens
Receives(e, x) == Stretch(e, x, TRUE) /\ Opens

-----------------------------------------------------------------------------
(* Opening. *)

(* openDuplex(): the inbound half is registered before the <open> leaves. *)
OpenDuplex ==
  /\ opening = "no" /\ opening' = "asked"
  /\ Stretch("a", Puts([Start("a") EXCEPT !.st.half = "live"], <<Open>>), FALSE)
  /\ UNCHANGED <<expects, parked, accepting>>

Claim == [Start("b") EXCEPT !.st.half = "live"]

(* expectDuplex(): claims a parked <open>, or waits for one. *)
ExpectDuplex ==
  /\ expects = "no"
  /\ IF parked
     THEN expects' = "over" /\ accepting' = TRUE /\ Stretch("b", Claim, FALSE)
     ELSE expects' = "waiting" /\ UNCHANGED <<faults, accepting, end, channel>>
  /\ parked' = FALSE
  /\ UNCHANGED opening

ReceiveOpen ==
  /\ channel["b"] # <<>> /\ Head(channel["b"]) = Open
  /\ IF expects = "waiting"
     THEN expects' = "over" /\ accepting' = TRUE /\ Stretch("b", Claim, TRUE) /\ UNCHANGED parked
     ELSE parked' = TRUE /\ Stretch("b", Start("b"), TRUE) /\ UNCHANGED <<expects, accepting>>
  /\ UNCHANGED opening

(* The answer leaves a turn after the claim: b may have sent data by then. *)
AnswerOpen ==
  /\ accepting /\ accepting' = FALSE
  /\ Stretch("b", Puts(Start("b"), <<Answer(Open, "ok")>>), FALSE)
  /\ UNCHANGED <<opening, expects, parked>>

AcceptTimeout ==
  /\ "acceptTimeout" \in faults /\ parked
  /\ parked' = FALSE
  /\ Stretch("b", Puts(Start("b"), <<Answer(Open, "not-acceptable")>>), FALSE)
  /\ UNCHANGED <<opening, expects, accepting>>

ExpectTimeout ==
  /\ "acceptTimeout" \in faults /\ expects = "waiting"
  /\ expects' = "over"
  /\ UNCHANGED <<faults, end, channel, opening, parked, accepting>>

(* discard(): refused, or overdue and then the peer is told. *)
Discard(x) == Buried([x EXCEPT !.st.peerKnows = TRUE])

ReceiveOpenAnswer ==
  /\ channel["a"] # <<>>
  /\ \E res \in {"ok", "not-acceptable"} :
       /\ Head(channel["a"]) = Answer(Open, res)
       /\ IF opening # "asked" THEN Stretch("a", Start("a"), TRUE) /\ UNCHANGED opening
          ELSE IF res = "ok" THEN opening' = "open" /\ Stretch("a", Start("a"), TRUE)
          ELSE opening' = "discarded" /\ Stretch("a", Discard(Start("a")), TRUE)
  /\ UNCHANGED <<expects, parked, accepting>>

OpenTimeout ==
  /\ "openTimeout" \in faults /\ opening = "asked" /\ end["a"].refused # "due"
  /\ opening' = "discarded"
  /\ Stretch("a", SendClose(Discard(Start("a"))), FALSE)
  /\ UNCHANGED <<expects, parked, accepting>>

-----------------------------------------------------------------------------
(* The handle's operations. *)

HasHandle(e) == IF e = "a" THEN opening = "open" ELSE end["b"].half # "none"

(* write(): a pump dispatches the block while the window has room. *)
Write(e) ==
  LET x == Start(e)  n == end[e].sent + 1 IN
  /\ HasHandle(e) /\ n \in Blocks
  /\ end[e].failed = "no" /\ ~end[e].closedByPeer /\ end[e].closing = "no"
  /\ Cardinality(end[e].inFlight) < Window
  /\ Does(e, Puts([x EXCEPT !.st.sent = n, !.st.inFlight = @ \cup {n}], <<Data(n)>>))

(* Mutant: the inbound half is retired before the drain. *)
CloseRetiresEarly(e) ==
  LET x == Start(e) IN
  /\ HasHandle(e) /\ end[e].closing = "no"
  /\ Does(e, IF end[e].failed # "no" THEN CloseFails(x)
             ELSE IF end[e].closedByPeer THEN CloseResolves(x)
             ELSE [RetireInbound(x, TRUE) EXCEPT !.st.closing = "draining"])

(* close() on a stream that failed, that the peer closed, or that is live. *)
Close(e) ==
  LET x == Start(e) IN
  /\ HasHandle(e) /\ end[e].closing = "no"
  /\ Does(e, IF end[e].failed # "no" THEN CloseFails(x)
             ELSE IF end[e].closedByPeer THEN CloseResolves(x)
             ELSE [x EXCEPT !.st.closing = "draining"])

(* The drain is over: by the last answer, the peer, an abort or a failure. *)
CloseDrained(e) ==
  LET x == Start(e)  over == end[e].inFlight = {} \/ end[e].closedByPeer IN
  /\ end[e].closing = "draining"
  /\ over \/ end[e].failed = "abort"
  /\ Does(e, IF end[e].failed # "no" THEN CloseFails(x)
             ELSE IF end[e].closedByPeer THEN CloseResolves(x)
             ELSE CloseStream([x EXCEPT !.st.closing = "sent"]))

(* abort(), or a reader cancelled while its half is live. *)
Abort(e) ==
  /\ "abort" \in faults /\ HasHandle(e)
  /\ Does(e, AbortDuplex(Start(e)))

(* The consumer caught up: every withheld ack goes out. *)
Pull(e) ==
  /\ end[e].half = "live" /\ end[e].withheld # <<>>
  /\ Does(e, WakeHandlers(Start(e), "ok"))

(* The inbound watchdog, when a duplex asks for one, or release(): with the *)
(* tunnel open, or, "earlyIdle", with our <open> still unanswered.          *)
Idle(e) ==
  /\ (IF opening = "asked" THEN "earlyIdle" ELSE "idle") \in faults
  /\ end[e].half = "live"
  /\ Does(e, FinishInStream(Start(e), TRUE))

(* The teardown is a timer's: it runs when the refusal has left.           *)
OnFail(e) ==
  /\ end[e].onFailDue /\ end[e].refused # "due"
  /\ Does(e, AbortDuplex([Start(e) EXCEPT !.st.onFailDue = FALSE]))

-----------------------------------------------------------------------------
(* Stanzas that arrive. *)

(* Mutant: the teardown does not wait for the refusal to leave. *)
RefuseAfterTeardown(x, n) ==
  Puts([AbortDuplex(FinishInStream([x EXCEPT !.st.refused = "told"], TRUE)) EXCEPT !.st.onFailDue = FALSE],
       <<Answer(Data(n), "unexpected-request")>>)

(* A block out of sequence, or that does not decode, fails the stream: the  *)
(* reader sees the error at once, and the application behind it may act on  *)
(* it before the handler's answer, the refusal, has left.                   *)
RefuseBlock(x, n) == FinishInStream([x EXCEPT !.st.refused = "due"], TRUE)

(* The refusal leaves; and whether a <close/> of ours is ahead of it that   *)
(* is not the work of the refusal's own teardown, which is still due.       *)
SendRefusal(e) ==
  LET how == IF end[e].closes > 0 /\ end[e].onFailDue THEN "overtaken" ELSE "told" IN
  /\ end[e].refused = "due"
  /\ Does(e, Puts([Start(e) EXCEPT !.st.refused = how],
                  <<Answer(Data(end[e].taken + 1), "unexpected-request")>>))

(* #onData; while a refusal is due the half is gone, and an answer would   *)
(* only follow it.                                                          *)
ReceiveData(e) ==
  LET x == Start(e) IN
  /\ channel[e] # <<>> /\ end[e].refused # "due"
  /\ \E n \in Blocks :
       /\ Head(channel[e]) = Data(n)
       /\ \/ /\ end[e].half \in {"none", "gone"}
             /\ Receives(e, Puts(x, <<Answer(Data(n), "not-found")>>))
          \/ /\ end[e].half = "tombstone"
             /\ Receives(e, Puts(x, <<Answer(Data(n), "ok")>>))
          \/ /\ end[e].half = "live" /\ "damage" \in faults
             /\ Receives(e, RefuseBlock(x, n))
          \/ /\ end[e].half = "live"
             /\ Receives(e, Puts([x EXCEPT !.st.taken = @ + 1], <<Answer(Data(n), "ok")>>))
          \/ /\ end[e].half = "live"
             /\ Receives(e, [x EXCEPT !.st.taken = @ + 1, !.st.withheld = Append(@, n)])

(* #onClose and onPeerClose; a tombstone still answers it. *)
ReceiveClose(e) ==
  LET closed == [FinishInStream(Start(e), FALSE) EXCEPT
                   !.st.closedByPeer = TRUE, !.st.peerKnows = TRUE]
  IN
  /\ channel[e] # <<>> /\ Head(channel[e]) = CloseIq /\ end[e].refused # "due"
  /\ Receives(e, IF end[e].half \in {"live", "tombstone"}
                 THEN Puts(closed, <<Answer(CloseIq, "ok")>>)
                 ELSE Puts(Start(e), <<Answer(CloseIq, "not-found")>>))

SettleBlock(x, n, res) ==
  IF n \notin x.st.inFlight THEN x
  ELSE LET settled == IF res = "ok" THEN x ELSE BlockFails(x, res)
       IN  [settled EXCEPT !.st.inFlight = @ \ {n}]

(* Mutant: an abort that was answered leaves its tombstone. *)
SettleCloseKeeping(x, ok) ==
  IF x.st.aborting THEN [x EXCEPT !.st.aborting = FALSE]
  ELSE IF x.st.closing = "telling" THEN RemoveTombstone([x EXCEPT !.st.closing = "rejected"])
  ELSE IF x.st.closing # "sent" THEN x
  ELSE IF ok \/ x.st.closedByPeer THEN CloseResolves(x)
  ELSE CloseFails([x EXCEPT !.st.failed = "block"])

(* The answer to our <close/> reaches whoever awaits it. *)
SettleClose(x, ok) ==
  IF x.st.aborting THEN Buried([x EXCEPT !.st.aborting = FALSE])
  ELSE IF x.st.closing = "telling" THEN RemoveTombstone([x EXCEPT !.st.closing = "rejected"])
  ELSE IF x.st.closing # "sent" THEN x
  ELSE IF ok \/ x.st.closedByPeer THEN CloseResolves(x)
  ELSE CloseFails([x EXCEPT !.st.failed = "block"])

ReceiveAnswer(e) ==
  /\ channel[e] # <<>>
  /\ \/ \E n \in Blocks, res \in {"ok", "not-found", "unexpected-request"} :
          /\ Head(channel[e]) = Answer(Data(n), res)
          /\ Receives(e, SettleBlock(Start(e), n, res))
     \/ \E res \in {"ok", "not-found"} :
          /\ Head(channel[e]) = Answer(CloseIq, res)
          /\ Receives(e, SettleClose(Start(e), res = "ok"))

BlockTimeout(e) ==
  /\ "blockTimeout" \in faults /\ end[e].refused # "due"
  /\ \E n \in end[e].inFlight : Does(e, SettleBlock(Start(e), n, "timeout"))

CloseTimeout(e) ==
  /\ "closeTimeout" \in faults /\ end[e].refused # "due"
  /\ end[e].aborting \/ end[e].closing \in {"sent", "telling"}
  /\ Does(e, SettleClose(Start(e), FALSE))

-----------------------------------------------------------------------------
Receive(e) == ReceiveData(e) \/ ReceiveClose(e) \/ ReceiveAnswer(e)

Next ==
  \/ OpenDuplex \/ ExpectDuplex \/ ReceiveOpen \/ AnswerOpen \/ AcceptTimeout \/ ExpectTimeout
  \/ ReceiveOpenAnswer \/ OpenTimeout
  \/ \E e \in Ends :
       \/ Write(e) \/ Close(e) \/ CloseDrained(e) \/ Abort(e) \/ Pull(e) \/ Idle(e) \/ OnFail(e)
       \/ SendRefusal(e)
       \/ Receive(e) \/ BlockTimeout(e) \/ CloseTimeout(e)

(* Stanzas arrive, code runs on, and consumers read. *)
Fairness ==
  /\ WF_vars(ReceiveOpen) /\ WF_vars(AnswerOpen) /\ WF_vars(ReceiveOpenAnswer)
  /\ \A e \in Ends :
       WF_vars(Receive(e)) /\ WF_vars(CloseDrained(e)) /\ WF_vars(Pull(e)) /\ WF_vars(OnFail(e))
       /\ WF_vars(SendRefusal(e))

Spec     == Init /\ [][Next]_vars
FairSpec == Spec /\ Fairness

-----------------------------------------------------------------------------
Requests == {Open, CloseIq} \cup {Data(n) : n \in Blocks}

TypeOK ==
  /\ faults \in Scenarios
  /\ end \in [Ends -> EndState]
  /\ channel \in [Ends -> Seq(Requests \cup
       {Answer(iq, res) : iq \in Requests,
          res \in {"ok", "not-found", "unexpected-request", "not-acceptable"}})]
  /\ opening \in {"no", "asked", "open", "discarded"}
  /\ expects \in {"no", "waiting", "over"}
  /\ parked \in BOOLEAN /\ accepting \in BOOLEAN

(* Crossing closes: "both close() calls would fail on a tunnel that both   *)
(* sides closed cleanly".  With nothing but close()s, none rejects.        *)
CleanCloseResolves == faults = {} => \A e \in Ends : end[e].closing # "rejected"

(* A <close/> is ahead of the end's refusal, and not by the refusal's own  *)
(* teardown: its application closed or aborted the tunnel on the reader's  *)
(* error, or the other direction ended it.                                 *)
Overtaken(st) ==
  st.refused = "overtaken" \/ (st.refused = "due" /\ st.closes > 0 /\ st.onFailDue)

(* A close() that resolved before the peer closed has every block taken,   *)
(* and one whose block was refused as damaged never resolves, unless the   *)
(* refusal was overtaken: neither the ack of a crossing block that was     *)
(* discarded, nor a refusal taken for "an ordinary post-close discard",    *)
(* passes for a delivery.                                                  *)
ResolvedMeansDelivered ==
  \A e \in Ends : end[e].closing = "resolved" =>
    /\ end[Peer(e)].refused # "no" => Overtaken(end[Peer(e)])
    /\ end[e].closedByPeer \/ end[Peer(e)].taken = end[e].sent

(* As long as the two ends agree on when the session begins, which a timed  *)
(* out open request or an accepting side that idles out before the opener   *)
(* knows can prevent.                                                       *)
InStep == {"openTimeout", "earlyIdle"} \cap faults = {}

(* No tombstone outlives the close() or abort() that set it up, and once   *)
(* either end is over, both are.                                           *)
BothEnd ==
  \A e \in Ends :
    /\ end[e].half = "tombstone" ~> end[e].half = "gone"
    /\ InStep /\ end[e].half = "gone" ~> end[Peer(e)].half \in {"none", "gone"}

(* close() always returns, without a timeout having to fire. *)
CloseReturns == \A e \in Ends : end[e].closing = "draining" ~> end[e].closing \in {"resolved", "rejected"}
=============================================================================
