---------------------------- MODULE JingleSession ----------------------------
(***************************************************************************)
(* One Jingle session (src/jingle/jingle.ts), both parties: the initiator  *)
(* "i", who offered a body in an embedded session-initiate, and the        *)
(* responder "r", who reads it.  Over SOCKS5 both offer candidates, both   *)
(* dial, both report, and each works out the winner for itself             *)
(* (src/jingle/s5b-negotiation.ts, src/socks5/jingle-s5b.ts); when neither *)
(* could connect the initiator replaces the transport with IBB.            *)
(*                                                                         *)
(* A party is one coroutine, pc, that asks (an IQ whose answer it awaits)  *)
(* and waits; its peer's IQs are handled whenever they arrive.  Each       *)
(* direction of the XMPP stream is a FIFO queue of requests.  A request is *)
(* handled and answered in one step; the asker goes on in a later one.  An *)
(* asker has one request at a time: the last one it put on the wire.       *)
(* Sockets and the IBB stream are abstracted to who holds one and whether  *)
(* the responder is armed; IbbStream models what an IBB stream does.       *)
(*                                                                         *)
(* A definition whose comment starts with "Mutant" is no part of the       *)
(* specification: it is the definition that follows it, with a bug the     *)
(* properties must catch.                                                  *)
(***************************************************************************)
EXTENDS Naturals, Sequences, FiniteSets

CONSTANT
  Scenarios   \* sets of FaultKinds: what may go wrong in one session's life

FaultKinds == {"timeout", "lose", "broken", "release"}

ASSUME JingleAssumption == Scenarios \subseteq SUBSET FaultKinds

Ends    == {"i", "r"}
Peer(e) == IF e = "i" THEN "r" ELSE "i"

(* A candidate: whose streamhost it is, and whether the peer reaches it    *)
(* directly or through the owner's proxy.                                  *)
Cands   == {"i-direct", "i-proxy", "r-direct", "r-proxy"}
Proxies == {"i-proxy", "r-proxy"}
Of(e)   == IF e = "i" THEN {"i-direct", "i-proxy"} ELSE {"r-direct", "r-proxy"}

VARIABLES
  faults,   \* the scenario this session meets
  adapter,  \* the ends that have a Socks5Adapter
  hosts,    \* per end: the candidates its adapter can gather
  pc,       \* per end: where its coroutine is
  session,  \* per end: the entry of #sessions: "none", "live" or "gone"
  asked,    \* per end: its request: "no", "sent", "ok" or "refused"
  channel,  \* per end: requests on their way to it
  neg,      \* per end: its S5bNegotiation
  held,     \* per end: sockets it has opened or taken up and not let go
  armed     \* r's IBB expectation: "no", "armed", "met" or "over"

vars == <<faults, adapter, hosts, pc, session, asked, channel, neg, held, armed>>
setup == <<faults, adapter, hosts>>

Reports == Cands \cup {"none", "error"}

Negotiation ==
  [offered   : SUBSET Cands,  \* #localCandidates
   remote    : SUBSET Cands,  \* #remoteCandidates
   ready     : BOOLEAN,       \* #remoteCandidatesReady resolved
   local     : Reports,       \* #localReport
   heard     : Reports,       \* #remoteReport
   activated : BOOLEAN,
   switched  : BOOLEAN]       \* #replaced

Fresh == [offered |-> {}, remote |-> {}, ready |-> FALSE, local |-> "none", heard |-> "none",
          activated |-> FALSE, switched |-> FALSE]

OnS5b == "i" \in adapter

Init ==
  /\ faults \in Scenarios
  /\ adapter \in SUBSET Ends
  /\ hosts \in {h \in [Ends -> SUBSET Cands] :
                  \A e \in Ends : h[e] \subseteq IF e \in adapter THEN Of(e) ELSE {}}
  /\ pc = [e \in Ends |-> IF e = "i" THEN "offered" ELSE "embedded"]
  /\ session = [e \in Ends |-> IF e = "i" THEN "live" ELSE "none"]
  /\ asked = [e \in Ends |-> "no"]
  /\ channel = [e \in Ends |-> <<>>]
  /\ neg = [e \in Ends |-> Fresh]
  /\ held = [e \in Ends |-> {}]
  /\ armed = "no"

-----------------------------------------------------------------------------
(* Who wins. *)

(* candidatePriority(): the type's preference, then the adapter's order,   *)
(* its own streamhost before its proxy.                                    *)
Priority(c) ==
  IF c \in Proxies THEN 65536 * 10
  ELSE 65536 * 126 + Cardinality(hosts[IF c = "i-direct" THEN "i" ELSE "r"]) - 1

(* Mutant: each side breaks a tie for the candidate it connected to. *)
ResolveForMine(e, local, heard) ==
  IF {local, heard} \subseteq Cands
  THEN IF Priority(heard) > Priority(local) THEN heard ELSE local
  ELSE IF local \in Cands THEN local
  ELSE IF heard \in Cands THEN heard
  ELSE "fallback"

(* resolve(): the better of the two reports; a tie goes to the initiator's *)
(* candidate, which is the one the responder reported.                     *)
Resolve(e, local, heard) ==
  IF {local, heard} \subseteq Cands
  THEN IF Priority(local) > Priority(heard) THEN local
       ELSE IF Priority(heard) > Priority(local) THEN heard
       ELSE IF e = "i" THEN heard ELSE local
  ELSE IF local \in Cands THEN local
  ELSE IF heard \in Cands THEN heard
  ELSE "fallback"

Outcome(e) ==
  IF "none" \in {neg[e].local, neg[e].heard} THEN "none"
  ELSE Resolve(e, neg[e].local, neg[e].heard)

-----------------------------------------------------------------------------
(* What a negotiation n is told: the methods of S5bNegotiation.            *)

OfferLocal(n, cands) == [n EXCEPT !.offered = cands]

ReceiveRemoteCandidates(n, cands) == [n EXCEPT !.remote = @ \cup cands, !.ready = TRUE]
NoRemoteCandidates(n)             == [n EXCEPT !.ready = TRUE]

SetLocalReport(n, report) == [n EXCEPT !.local = IF @ = "none" THEN report ELSE @]

(* Mutant: a report does not end the wait for candidates. *)
MayOfferStill(n) == n

(* A peer that reported is done offering. *)
PeerFinishedOffering(n) == [n EXCEPT !.ready = TRUE]

SetRemoteUsed(n, cid) ==
  IF cid \in n.offered
  THEN PeerFinishedOffering([n EXCEPT !.heard = IF @ = "none" THEN cid ELSE @])
  ELSE n

SetRemoteError(n) == PeerFinishedOffering([n EXCEPT !.heard = IF @ = "none" THEN "error" ELSE @])

MarkActivated(n) == [n EXCEPT !.activated = TRUE]
MarkSwitch(n)    == [n EXCEPT !.switched = TRUE]

(* The awaits, each under a deadline of its own: who is in one, its event  *)
(* not having come.                                                        *)
WaitRemoteCandidates(e) == pc[e] = "dialling" /\ e \in adapter /\ ~neg[e].ready
WaitOutcome(e)          == pc[e] = "deciding" /\ Outcome(e) = "none"

(* Mutant: nothing bounds the wait for an activation. *)
WaitActivationUnbounded(e) == FALSE

WaitActivation(e) == pc[e] = "activation" /\ ~neg[e].activated
WaitSwitch(e)     == pc[e] = "switching" /\ ~neg[e].switched

-----------------------------------------------------------------------------
(* What a request carries, as its peer parses it (jingle-s5b.ts): the      *)
(* candidates of a <transport>, or the payload of a transport-info.        *)

BuildTransport(cands)  == [kind |-> "candidates", cands |-> cands]
BuildCandidateUsed(c)  == [kind |-> "candidate-used", cid |-> c]
BuildCandidateError    == [kind |-> "candidate-error"]
BuildActivated(c)      == [kind |-> "activated", cid |-> c]
Bare                   == [kind |-> "bare"]

Report(got) == IF got = "error" THEN BuildCandidateError ELSE BuildCandidateUsed(got)

-----------------------------------------------------------------------------
(* Steps of a coroutine. *)

Goes(e, to) == pc' = [pc EXCEPT ![e] = to]

(* A request leaves, and its answer is awaited. *)
Asks(e, action, payload) ==
  /\ channel' = [channel EXCEPT ![Peer(e)] = Append(@, [action |-> action, payload |-> payload])]
  /\ asked' = [asked EXCEPT ![e] = "sent"]

SendTransportInfo(payload) == Asks("i", "transport-info", payload)
SendResponderInfo(payload) == Asks("r", "transport-info", payload)
SendInfo(e, payload) == IF e = "i" THEN SendTransportInfo(payload) ELSE SendResponderInfo(payload)

(* #terminate(), for success or for failed-transport: nobody reads which. *)
Terminates == Asks("i", "terminate", Bare)

Answered(e, res) == asked[e] = res /\ asked' = [asked EXCEPT ![e] = "no"]

Holds(e, sockets) == held' = [held EXCEPT ![e] = sockets]
Forgets(e)        == session' = [session EXCEPT ![e] = "gone"]

(* The catch of #runInitiatorS5b and of #receiveS5b, the sockets opened    *)
(* being what is given: the one dialled is let go; the initiator tells its *)
(* peer, the responder only forgets the session.                           *)
FailsHolding(e, sockets) ==
  /\ Holds(e, sockets \ {"dialled"})
  /\ IF e = "i"
     THEN Terminates /\ Goes("i", "failing") /\ UNCHANGED session
     ELSE /\ Forgets("r") /\ Goes("r", "failed")
          /\ asked' = [asked EXCEPT !["r"] = "no"] /\ UNCHANGED channel
  /\ UNCHANGED <<setup, neg, armed>>

Fails(e) == FailsHolding(e, held[e])

(* The chosen connection is there: bytes may flow. *)
Flows(e) == Goes(e, IF e = "i" THEN "writing" ELSE "reading")

-----------------------------------------------------------------------------
(* Accepting. *)

(* receive(), at the first read of an IBB offer: the data plane is armed,  *)
(* then the session accepted.                                              *)
ReceiveIbb ==
  /\ pc["r"] = "embedded" /\ ~OnS5b /\ Goes("r", "accepting")
  /\ session' = [session EXCEPT !["r"] = "live"]
  /\ armed' = "armed" /\ Asks("r", "accept", Bare)
  /\ UNCHANGED <<setup, neg, held>>

(* #receiveS5b(): the accept carries whatever the responder can host. *)
ReceiveS5b ==
  /\ pc["r"] = "embedded" /\ OnS5b /\ Goes("r", "accepting")
  /\ session' = [session EXCEPT !["r"] = "live"]
  /\ neg' = [neg EXCEPT !["r"] = OfferLocal(@, hosts["r"])]
  /\ Asks("r", "accept", BuildTransport(hosts["r"]))
  /\ UNCHANGED <<setup, held, armed>>

Accepted ==
  /\ pc["r"] = "accepting" /\ Answered("r", "ok")
  /\ Goes("r", IF OnS5b THEN "dialling" ELSE "incoming")
  /\ UNCHANGED <<setup, session, channel, neg, held, armed>>

(* The offer's TTL, or cancel(), before anyone accepted it. *)
OfferEnds ==
  /\ pc["i"] = "offered" /\ Goes("i", "withdrawn") /\ Forgets("i")
  /\ UNCHANGED <<setup, asked, channel, neg, held, armed>>

(* A macrotask after the accept: #runInitiatorTransfer, or #runInitiatorS5b *)
(* up to the answer of its candidates, if it has any to offer.              *)
Run ==
  /\ pc["i"] = "accepted"
  /\ IF ~OnS5b THEN Goes("i", "ibbOpening") /\ UNCHANGED <<asked, channel, neg>>
     ELSE /\ neg' = [neg EXCEPT !["i"] = OfferLocal(@, hosts["i"])]
          /\ IF hosts["i"] = {} THEN Goes("i", "dialling") /\ UNCHANGED <<asked, channel>>
             ELSE Goes("i", "offering") /\ SendTransportInfo(BuildTransport(hosts["i"]))
  /\ UNCHANGED <<setup, session, held, armed>>

Offered ==
  /\ pc["i"] = "offering" /\ Answered("i", "ok") /\ Goes("i", "dialling")
  /\ UNCHANGED <<setup, session, channel, neg, held, armed>>

-----------------------------------------------------------------------------
(* Negotiating. *)

(* #dialPeerCandidates(): any of the candidates known, or none of them,    *)
(* could be connected to.                                                  *)
DialPeerCandidates(e) == {"error"} \cup IF e \in adapter THEN neg[e].remote ELSE {}

(* The peer's candidates are known, or known to be none, or of no use to a *)
(* side without an adapter: they are tried, and the result reported.       *)
Dial(e) ==
  /\ pc[e] = "dialling" /\ ~WaitRemoteCandidates(e)
  /\ \E got \in DialPeerCandidates(e) :
       /\ Holds(e, IF got = "error" THEN {} ELSE {"dialled"})
       /\ neg' = [neg EXCEPT ![e] = SetLocalReport(NoRemoteCandidates(@), got)]
       /\ SendInfo(e, Report(got))
  /\ Goes(e, "reporting")
  /\ UNCHANGED <<setup, session, armed>>

Reported(e) ==
  /\ pc[e] = "reporting" /\ Answered(e, "ok") /\ Goes(e, "deciding")
  /\ UNCHANGED <<setup, session, channel, neg, held, armed>>

(* Both reports are in, and neither side connected. *)
DecideFallback(e) ==
  /\ pc[e] = "deciding" /\ Outcome(e) = "fallback"
  /\ Holds(e, {})
  /\ IF e = "i" THEN Goes("i", "replacing") /\ Asks("i", "transport-replace", Bare)
     ELSE Goes("r", "switching") /\ UNCHANGED <<asked, channel>>
  /\ UNCHANGED <<setup, session, neg, armed>>

(* Mutant: it stays open. *)
DecideOursKeeping(e) ==
  /\ pc[e] = "deciding" /\ Outcome(e) \in Of(e)
  /\ Goes(e, "opening")
  /\ UNCHANGED <<setup, session, asked, channel, neg, held, armed>>

(* Our own streamhost won: the connection we dialled is let go. *)
DecideOurs(e) ==
  /\ pc[e] = "deciding" /\ Outcome(e) \in Of(e)
  /\ Holds(e, {}) /\ Goes(e, "opening")
  /\ UNCHANGED <<setup, session, asked, channel, neg, armed>>

(* Theirs did: from here on the transfer, not the catch, owns the socket   *)
(* we dialled; through their proxy nothing flows until they activate it.   *)
DecideTheirs(e) ==
  /\ pc[e] = "deciding" /\ Outcome(e) \in Of(Peer(e))
  /\ Holds(e, {"owned"})
  /\ IF Outcome(e) \in Proxies THEN Goes(e, "activation") ELSE Flows(e)
  /\ UNCHANGED <<setup, session, asked, channel, neg, armed>>

(* openChosen(): the accepted connection, or a new one to our proxy, which *)
(* is told to activate it, and then the peer is told.                      *)
OpenChosen(e) ==
  /\ pc[e] = "opening" /\ Holds(e, {"owned"})
  /\ IF Outcome(e) \in Proxies THEN Goes(e, "activating") /\ SendInfo(e, BuildActivated(Outcome(e)))
     ELSE Flows(e) /\ UNCHANGED <<asked, channel>>
  /\ UNCHANGED <<setup, session, neg, armed>>

(* It fails; if the proxy refused the activation, its socket stays open.   *)
OpenChosenFails(e) ==
  /\ "broken" \in faults /\ pc[e] = "opening"
  /\ \/ FailsHolding(e, {})
     \/ Outcome(e) \in Proxies /\ FailsHolding(e, {"owned"})

ToldActivated(e) ==
  /\ pc[e] = "activating" /\ Answered(e, "ok") /\ Flows(e)
  /\ UNCHANGED <<setup, session, channel, neg, held, armed>>

Activated(e) ==
  /\ pc[e] = "activation" /\ neg[e].activated /\ Flows(e)
  /\ UNCHANGED <<setup, session, asked, channel, neg, held, armed>>

-----------------------------------------------------------------------------
(* The transfer, and its end. *)

(* The whole body is written and the connection closed. *)
WriteAll ==
  /\ pc["i"] = "writing" /\ Goes("i", "terminating")
  /\ Holds("i", {}) /\ Terminates
  /\ UNCHANGED <<setup, session, neg, armed>>

(* The source or the connection fails, and it is aborted. *)
WriteFails == "broken" \in faults /\ pc["i"] = "writing" /\ FailsHolding("i", {})

Succeeds ==
  /\ pc["i"] \in {"terminating", "ibbTerminating"} /\ Answered("i", "ok")
  /\ Goes("i", "succeeded") /\ Forgets("i")
  /\ UNCHANGED <<setup, channel, neg, held, armed>>

(* Whatever became of the request that told the peer of the failure; a     *)
(* failed IBB transfer of an S5B session is caught, and told, once more.   *)
Failed ==
  /\ pc["i"] = "failing" /\ asked["i"] \in {"ok", "refused"}
  /\ Goes("i", "failed") /\ Forgets("i") /\ asked' = [asked EXCEPT !["i"] = "no"]
  /\ UNCHANGED <<setup, channel, neg, held, armed>>

IbbFailed ==
  /\ pc["i"] = "ibbFailing" /\ asked["i"] \in {"ok", "refused"}
  /\ Forgets("i")
  /\ IF OnS5b THEN Goes("i", "failing") /\ Terminates
     ELSE Goes("i", "failed") /\ asked' = [asked EXCEPT !["i"] = "no"] /\ UNCHANGED channel
  /\ UNCHANGED <<setup, neg, held, armed>>

-----------------------------------------------------------------------------
(* Over IBB, from the start or after the negotiation fell back. *)

Replaced ==
  /\ pc["i"] = "replacing" /\ Answered("i", "ok") /\ Goes("i", "switching")
  /\ UNCHANGED <<setup, session, channel, neg, held, armed>>

InitiatorSwitches ==
  /\ pc["i"] = "switching" /\ neg["i"].switched /\ Goes("i", "ibbOpening")
  /\ UNCHANGED <<setup, session, asked, channel, neg, held, armed>>

(* Mutant: the replacement is accepted, then the receiver armed. *)
ResponderAcceptsFirst ==
  /\ pc["r"] = "switching" /\ neg["r"].switched
  /\ Goes("r", "taccepting") /\ Asks("r", "transport-accept", Bare)
  /\ UNCHANGED <<setup, session, neg, held, armed>>

(* The data plane is armed before the replacement is accepted. *)
ResponderSwitches ==
  /\ pc["r"] = "switching" /\ neg["r"].switched
  /\ armed' = "armed"
  /\ Goes("r", "taccepting") /\ Asks("r", "transport-accept", Bare)
  /\ UNCHANGED <<setup, session, neg, held>>

ToldAccepted ==
  /\ pc["r"] = "taccepting" /\ Answered("r", "ok") /\ Goes("r", "incoming")
  /\ UNCHANGED <<setup, session, channel, neg, held, armed>>

IbbOpens ==
  /\ pc["i"] = "ibbOpening" /\ armed = "armed"
  /\ armed' = "met" /\ Goes("i", "ibbWriting")
  /\ UNCHANGED <<setup, session, asked, channel, neg, held>>

IbbArrives ==
  /\ pc["r"] = "incoming" /\ armed = "met" /\ Goes("r", "reading")
  /\ UNCHANGED <<setup, session, asked, channel, neg, held, armed>>

IbbWriteAll ==
  /\ pc["i"] = "ibbWriting" /\ Goes("i", "ibbTerminating") /\ Terminates
  /\ UNCHANGED <<setup, session, neg, held, armed>>

(* The catch of #runInitiatorTransfer. *)
IbbFails ==
  /\ Goes("i", "ibbFailing") /\ Terminates
  /\ UNCHANGED <<setup, session, neg, held, armed>>

IbbWriteFails == "broken" \in faults /\ pc["i"] = "ibbWriting" /\ IbbFails

(* Nobody ever claims the parked <open>, or the expectation is over: it    *)
(* rejects whoever awaits it, and for a session that was IBB from the      *)
(* start nothing else happens.                                             *)
IbbUnclaimed == "timeout" \in faults /\ pc["i"] = "ibbOpening" /\ IbbFails

IncomingFails ==
  /\ pc["r"] = "incoming" /\ armed = "over"
  /\ IF OnS5b THEN Fails("r")
     ELSE /\ Goes("r", "failed")
          /\ UNCHANGED <<setup, session, asked, channel, neg, held, armed>>

ExpectationEnds ==
  /\ {"timeout", "release"} \cap faults # {}
  /\ armed = "armed" /\ armed' = "over"
  /\ UNCHANGED <<setup, pc, session, asked, channel, neg, held>>

-----------------------------------------------------------------------------
(* The peer's requests, and what becomes of them (#dispatch). *)

(* #stateFor(): the entry of #sessions is still there. *)
StateFor(e) == session[e] = "live"

(* #acceptS5b(): an accept may carry no candidates. *)
AcceptS5b(n, cands) ==
  IF cands # {} THEN ReceiveRemoteCandidates(n, cands) ELSE NoRemoteCandidates(n)

OnSessionAccept(e, m) ==
  /\ pc' = [pc EXCEPT ![e] = "accepted"]
  /\ neg' = IF OnS5b THEN [neg EXCEPT ![e] = AcceptS5b(@, m.payload.cands)] ELSE neg
  /\ UNCHANGED session

(* Mutant: session-terminate stops the timer only. *)
OnSessionTerminateKeeps(e, m) == UNCHANGED <<session, pc, neg>>

OnSessionTerminate(e, m) == Forgets(e) /\ UNCHANGED <<pc, neg>>

TransportInfo(n, info) ==
  CASE info.kind = "candidates"      -> ReceiveRemoteCandidates(n, info.cands)
    [] info.kind = "candidate-used"  -> SetRemoteUsed(n, info.cid)
    [] info.kind = "candidate-error" -> SetRemoteError(n)
    [] info.kind = "activated"       -> MarkActivated(n)

OnTransportInfo(e, m) ==
  /\ neg' = [neg EXCEPT ![e] = TransportInfo(@, m.payload)] /\ UNCHANGED <<session, pc>>

OnTransportReplace(e, m) ==
  /\ neg' = [neg EXCEPT ![e] = MarkSwitch(@)] /\ UNCHANGED <<session, pc>>

OnTransportAccept(e, m) ==
  /\ neg' = [neg EXCEPT ![e] = MarkSwitch(@)] /\ UNCHANGED <<session, pc>>

Dispatch(e, m) ==
  CASE m.action = "accept"            -> OnSessionAccept(e, m)
    [] m.action = "terminate"         -> OnSessionTerminate(e, m)
    [] m.action = "transport-info"    -> OnTransportInfo(e, m)
    [] m.action = "transport-replace" -> OnTransportReplace(e, m)
    [] m.action = "transport-accept"  -> OnTransportAccept(e, m)

(* A session that is unknown, or accepted already, refuses.                *)
Deliver(e) ==
  LET m     == Head(channel[e])
      known == StateFor(e) /\ (m.action = "accept" => pc[e] = "offered")
      last  == Len(channel[e]) = 1 /\ asked[Peer(e)] = "sent"
  IN
  /\ channel[e] # <<>>
  /\ IF known THEN Dispatch(e, m) ELSE UNCHANGED <<session, pc, neg>>
  /\ channel' = [channel EXCEPT ![e] = Tail(@)]
  /\ asked' = IF last THEN [asked EXCEPT ![Peer(e)] = IF known THEN "ok" ELSE "refused"] ELSE asked
  /\ UNCHANGED <<setup, held, armed>>

Lose(e) ==
  /\ "lose" \in faults /\ channel[e] # <<>>
  /\ channel' = [channel EXCEPT ![e] = Tail(@)]
  /\ UNCHANGED <<setup, pc, session, asked, neg, held, armed>>

(* release() by the manager's last user forgets the session; the coroutine *)
(* and the dispatch go on.                                                 *)
Release(e) ==
  /\ "release" \in faults /\ session[e] = "live" /\ Forgets(e)
  /\ UNCHANGED <<setup, pc, asked, channel, neg, held, armed>>

(* What a refused request, or a wait past its deadline, throws.            *)
Throws(e) ==
  IF pc[e] \in {"failing", "ibbFailing"} THEN FALSE
  ELSE IF pc[e] = "ibbTerminating" THEN IbbFails
  ELSE Fails(e)

Refused(e) == asked[e] = "refused" /\ Throws(e)

(* Every await is under a deadline of its own: an answer's, or one of the  *)
(* negotiation's.                                                          *)
Waiting(e) ==
  \/ asked[e] = "sent"
  \/ WaitRemoteCandidates(e) \/ WaitOutcome(e) \/ WaitActivation(e) \/ WaitSwitch(e)

Timeout(e) ==
  /\ "timeout" \in faults /\ Waiting(e)
  /\ IF pc[e] \in {"failing", "ibbFailing"}
     THEN /\ asked' = [asked EXCEPT ![e] = "refused"]
          /\ UNCHANGED <<setup, pc, session, channel, neg, held, armed>>
     ELSE Throws(e)

-----------------------------------------------------------------------------
Runs(e) ==
  \/ Dial(e) \/ Reported(e) \/ DecideFallback(e) \/ DecideOurs(e) \/ DecideTheirs(e)
  \/ OpenChosen(e) \/ ToldActivated(e) \/ Activated(e) \/ Refused(e)

Initiator ==
  \/ OfferEnds \/ Run \/ Offered \/ WriteAll \/ Succeeds \/ Failed \/ IbbFailed
  \/ Replaced \/ InitiatorSwitches \/ IbbOpens \/ IbbWriteAll

Responder == Accepted \/ ResponderSwitches \/ ToldAccepted \/ IbbArrives \/ IncomingFails

Next ==
  \/ ReceiveIbb \/ ReceiveS5b \/ Initiator \/ Responder
  \/ WriteFails \/ IbbWriteFails \/ IbbUnclaimed \/ ExpectationEnds
  \/ \E e \in Ends :
       Runs(e) \/ Deliver(e) \/ OpenChosenFails(e) \/ Lose(e) \/ Release(e) \/ Timeout(e)

(* Requests arrive, code runs on, and every wait has a timer: the          *)
(* responder's first read is the only thing that may never come.           *)
Fairness ==
  /\ WF_vars(Initiator) /\ WF_vars(Responder)
  /\ WF_vars(IbbUnclaimed) /\ WF_vars(ExpectationEnds)
  /\ \A e \in Ends : WF_vars(Runs(e)) /\ WF_vars(Deliver(e)) /\ WF_vars(Timeout(e))

Spec     == Init /\ [][Next]_vars
FairSpec == Spec /\ Fairness

-----------------------------------------------------------------------------
Ended == {"reading", "succeeded", "failed", "withdrawn"}

TypeOK ==
  /\ faults \in Scenarios /\ adapter \subseteq Ends
  /\ hosts \in [Ends -> SUBSET Cands]
  /\ pc \in [Ends -> Ended \cup
       {"offered", "embedded", "accepting", "accepted", "offering", "dialling", "reporting",
        "deciding", "opening", "activating", "activation", "writing", "terminating", "failing",
        "replacing", "switching", "taccepting", "incoming", "ibbOpening", "ibbWriting",
        "ibbTerminating", "ibbFailing"}]
  /\ session \in [Ends -> {"none", "live", "gone"}]
  /\ asked \in [Ends -> {"no", "sent", "ok", "refused"}]
  /\ neg \in [Ends -> Negotiation]
  /\ held \in [Ends -> SUBSET {"dialled", "owned"}]
  /\ armed \in {"no", "armed", "met", "over"}

(* Both sides work out the winner alone, from reports that crossed: they   *)
(* name the same candidate, or both fall back.                             *)
Agreement ==
  "none" \in {Outcome(e) : e \in Ends} \/ Outcome("i") = Outcome("r")

(* "Do not write a byte until the peer has accepted and armed its          *)
(* receiver", from the start or after a replacement.                       *)
ArmedBeforeOpen == pc["i"] = "ibbOpening" => armed # "no"

(* A side that reads, or succeeded, or has yet to decide, holds no socket  *)
(* but the one of the candidate that won; a failed one holds none, unless  *)
(* a proxy had won: every other connection dialled was let go.             *)
LosersLetGo ==
  \A e \in Ends :
    /\ "owned" \in held[e] => Outcome(e) \in Cands /\ held[e] = {"owned"}
    /\ "dialled" \in held[e] => pc[e] \in {"reporting", "deciding"}
    /\ pc[e] = "failed" /\ held[e] # {} => Outcome(e) \in Proxies

(* With healthy peers no wait depends on its timeout: whatever could be    *)
(* gathered and reached on either side, the body arrives.                  *)
NoTimeoutNeeded ==
  (faults = {} /\ pc["i"] = "accepted") ~> (pc["i"] = "succeeded" /\ pc["r"] = "reading")

(* "A peer that goes quiet mid-negotiation must not park a body stream     *)
(* forever": every coroutine ends, and no session entry outlives its       *)
(* transfer, however it ended, unless the message that said so was lost.   *)
EveryoneFinishes ==
  \A e \in Ends :
    /\ pc[e] \notin Ended \cup {"embedded"} ~> pc[e] \in Ended
    /\ ("lose" \notin faults /\ session[e] = "live") ~> session[e] = "gone"
=============================================================================
