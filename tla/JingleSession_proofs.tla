------------------------ MODULE JingleSession_proofs ------------------------
(***************************************************************************)
(* Theorems about JingleSession: a session over SOCKS5 or IBB, for every   *)
(* scenario, every choice of adapters and of candidates.                   *)
(*                                                                         *)
(* The argument for Agreement is about requests that cross: whatever one   *)
(* side has heard, and whatever report is still on its way to it, is what  *)
(* the other side reported, and a side reports once.  Growing says what    *)
(* every step keeps of a negotiation, and from it each request that was    *)
(* true when it left is true when it arrives.                              *)
(***************************************************************************)
EXTENDS JingleSession, FiniteSetTheorems, TLAPS

(* The places where a coroutine awaits the answer of a request. *)
Asking == {"accepting", "offering", "reporting", "activating", "replacing", "taccepting",
           "terminating", "ibbTerminating", "failing", "ibbFailing"}

(* The places before a side has tried its peer's candidates. *)
Before == {"offered", "embedded", "accepted", "offering", "accepting", "dialling"}

Infos ==
  [kind : {"candidates"}, cands : SUBSET Cands]
  \cup [kind : {"candidate-used", "activated"}, cid : Cands]
  \cup [kind : {"candidate-error"}]

(* The requests that can be on their way to e. *)
Requests(e) ==
  [action : {"transport-info"}, payload : Infos]
  \cup IF e = "i"
       THEN [action : {"accept"},
             payload : IF OnS5b THEN [kind : {"candidates"}, cands : SUBSET Cands] ELSE {Bare}]
            \cup [action : {"transport-accept"}, payload : {Bare}]
       ELSE [action : {"terminate", "transport-replace"}, payload : {Bare}]

IsInfo(m, kind) == m.action = "transport-info" /\ m.payload.kind = kind

(* What a request to e says is so: a report is its sender's, and who       *)
(* accepts a transport over IBB is armed.                                  *)
IsTrue(e, m) ==
  /\ IsInfo(m, "candidate-used") => neg[Peer(e)].local = m.payload.cid
  /\ IsInfo(m, "candidate-error") => neg[Peer(e)].local = "error"
  /\ m.action = "transport-accept" => armed # "no"
  /\ m.action = "accept" /\ ~OnS5b => armed # "no"

TrueRequests(e) == {m \in Requests(e) : IsTrue(e, m)}

ChannelInv ==
  /\ channel = [e \in Ends |-> channel[e]]
  /\ \A e \in Ends : channel[e] \in Seq(TrueRequests(e))

ReportInv ==
  \A e \in Ends :
    /\ pc[e] \in Before => neg[e].local = "none"
    /\ neg[e].heard # "none" => neg[e].heard = neg[Peer(e)].local

ArmedInv ==
  /\ neg["i"].switched => armed # "no"
  /\ pc["i"] = "accepted" /\ ~OnS5b => armed # "no"
  /\ pc["i"] = "ibbOpening" => armed # "no"

PlaceInv ==
  /\ \A e \in Ends : asked[e] # "no" => pc[e] \in Asking
  /\ pc["r"] # "ibbTerminating"

HeldInv ==
  \A e \in Ends :
    /\ "dialled" \in held[e] => pc[e] \in {"reporting", "deciding"}
    /\ "owned" \in held[e] =>
         /\ pc[e] \in {"writing", "reading", "activation", "activating", "failing", "failed"}
         /\ Outcome(e) \in Cands
    /\ pc[e] = "opening" => Outcome(e) \in Cands
    /\ pc[e] \in {"activation", "activating"} => Outcome(e) \in Proxies
    /\ pc[e] \in {"failing", "failed"} /\ held[e] # {} => Outcome(e) \in Proxies

SessionInv == TypeOK /\ ChannelInv /\ ReportInv /\ ArmedInv /\ PlaceInv /\ HeldInv

(* What no step takes back. *)
Growing ==
  /\ UNCHANGED setup
  /\ armed # "no" => armed' # "no"
  /\ \A e \in Ends :
       /\ neg[e].local # "none" => neg'[e].local = neg[e].local
       /\ neg[e].heard # "none" => neg'[e].heard = neg[e].heard

-----------------------------------------------------------------------------
(* Who wins. *)

LEMMA PriorityIsNat ==
  ASSUME TypeOK, NEW c \in Cands
  PROVE  Priority(c) \in Nat
<1> DEFINE h == hosts[IF c = "i-direct" THEN "i" ELSE "r"]
<1>1. IsFiniteSet(Cands)
  <2> DEFINE one == {} \cup {"i-direct"}
             two == one \cup {"i-proxy"}
             three == two \cup {"r-direct"}
  <2>1. IsFiniteSet(one)  BY FS_EmptySet, FS_AddElement
  <2>2. IsFiniteSet(two)  BY <2>1, FS_AddElement
  <2>3. IsFiniteSet(three)  BY <2>2, FS_AddElement
  <2>4. IsFiniteSet(three \cup {"r-proxy"})  BY <2>3, FS_AddElement
  <2> QED BY <2>4 DEF Cands
<1>2. h \subseteq Cands
  BY DEF TypeOK, Ends
<1>3. Cardinality(h) \in Nat
  BY <1>1, <1>2, FS_Subset, FS_CardinalityType
<1> HIDE DEF h
<1>4. \A n \in Nat : 65536 * 126 + n - 1 \in Nat
  OBVIOUS
<1>5. Priority(c) = IF c \in Proxies THEN 65536 * 10 ELSE 65536 * 126 + Cardinality(h) - 1
  BY DEF Priority, h
<1> QED BY <1>3, <1>4, <1>5

(* Two sides that know each other's reports resolve them alike. *)
LEMMA ResolveAgrees ==
  ASSUME TypeOK, NEW a \in Reports \ {"none"}, NEW b \in Reports \ {"none"}
  PROVE  Resolve("i", a, b) = Resolve("r", b, a)
<1>1. CASE {a, b} \subseteq Cands
  <2> DEFINE p == Priority(a)
             q == Priority(b)
  <2>1. Resolve("i", a, b) = IF p > q THEN a ELSE IF q > p THEN b ELSE b
    BY <1>1, Zenon DEF Resolve
  <2>2. Resolve("r", b, a) = IF q > p THEN b ELSE IF p > q THEN a ELSE b
    <3>1. {b, a} \subseteq Cands  BY <1>1
    <3> QED BY <3>1, Zenon DEF Resolve
  <2>3. p \in Nat /\ q \in Nat  BY <1>1, PriorityIsNat
  <2> HIDE DEF p, q
  <2> QED BY <2>1, <2>2, <2>3
<1>2. CASE ~({a, b} \subseteq Cands)
  BY <1>2 DEF Resolve, Reports, Cands
<1> QED BY <1>1, <1>2

(* A winner, once it is known, stays the winner. *)
LEMMA OutcomeStays ==
  ASSUME Growing, NEW e \in Ends, Outcome(e) # "none"
  PROVE  Outcome(e)' = Outcome(e)
<1>1. neg[e].local # "none" /\ neg[e].heard # "none"
  BY DEF Outcome
<1>2. neg'[e].local = neg[e].local /\ neg'[e].heard = neg[e].heard
  BY <1>1 DEF Growing
<1>3. \A c \in Reports : Priority(c)' = Priority(c)
  BY DEF Growing, setup, Priority
<1> QED BY <1>2 DEF Outcome, Growing, setup, Resolve, Priority

-----------------------------------------------------------------------------
(* The channels. *)

LEMMA SeqGrows ==
  ASSUME NEW S, NEW T, S \subseteq T, NEW q \in Seq(S)
  PROVE  q \in Seq(T)
OBVIOUS

LEMMA RequestsStayTrue ==
  ASSUME Growing, NEW e \in Ends
  PROVE  TrueRequests(e) \subseteq TrueRequests(e)'
<1>1. SUFFICES ASSUME NEW m \in Requests(e), IsTrue(e, m)
               PROVE  m \in Requests(e)' /\ IsTrue(e, m)'
  BY DEF TrueRequests
<1>2. OnS5b' = OnS5b
  BY DEF Growing, setup, OnS5b
<1>3. m \in Requests(e)'
  BY <1>1, <1>2, Zenon DEF Requests, Bare
<1>4. Peer(e) \in Ends
  BY DEF Ends, Peer
<1>5. IsInfo(m, "candidate-used") => neg'[Peer(e)].local = m.payload.cid
  <2>1. IsInfo(m, "candidate-used") => m.payload.cid # "none"
    BY <1>1 DEF IsInfo, Requests, Infos, Cands, Bare
  <2> QED BY <1>1, <1>4, <2>1 DEF IsTrue, Growing
<1>6. IsInfo(m, "candidate-error") => neg'[Peer(e)].local = "error"
  BY <1>1, <1>4 DEF IsTrue, Growing
<1> QED BY <1>1, <1>2, <1>3, <1>5, <1>6 DEF IsTrue, Growing, IsInfo

LEMMA ChannelStays ==
  ASSUME ChannelInv, Growing, UNCHANGED channel
  PROVE  ChannelInv'
BY RequestsStayTrue, SeqGrows DEF ChannelInv

LEMMA ChannelGains ==
  ASSUME ChannelInv, Growing, NEW e \in Ends, NEW action, NEW payload, Asks(e, action, payload),
         [action |-> action, payload |-> payload] \in TrueRequests(Peer(e))'
  PROVE  ChannelInv'
<1> DEFINE m == [action |-> action, payload |-> payload]
           t == Peer(e)
<1>1. t \in Ends
  BY DEF Ends, Peer
<1>2. \A d \in Ends : channel[d] \in Seq(TrueRequests(d)')
  BY RequestsStayTrue, SeqGrows DEF ChannelInv
<1>3. channel' = [channel EXCEPT ![t] = Append(@, m)]
  BY DEF Asks
<1>4. Append(channel[t], m) \in Seq(TrueRequests(t)')
  <2>1. channel[t] \in Seq(TrueRequests(t)')  BY <1>1, <1>2
  <2> HIDE DEF m, t
  <2> QED BY <2>1 DEF m, t
<1> HIDE DEF m, t
<1> QED BY <1>1, <1>2, <1>3, <1>4 DEF ChannelInv

LEMMA ChannelLoses ==
  ASSUME ChannelInv, Growing, NEW e \in Ends, channel[e] # <<>>,
         channel' = [channel EXCEPT ![e] = Tail(@)]
  PROVE  ChannelInv'
<1>1. \A d \in Ends : channel[d] \in Seq(TrueRequests(d)')
  BY RequestsStayTrue, SeqGrows DEF ChannelInv
<1>2. Tail(channel[e]) \in Seq(TrueRequests(e)')
  BY <1>1
<1> QED BY <1>1, <1>2 DEF ChannelInv

-----------------------------------------------------------------------------
(* What the steps keep of a negotiation. *)

(* The steps that leave both negotiations alone. *)
Quiet ==
  \/ ReceiveIbb \/ OfferEnds \/ Offered \/ WriteAll \/ Succeeds \/ Failed \/ IbbFailed
  \/ Replaced \/ InitiatorSwitches \/ IbbOpens \/ IbbWriteAll \/ Responder
  \/ WriteFails \/ IbbWriteFails \/ IbbUnclaimed \/ ExpectationEnds
  \/ \E e \in Ends :
       \/ Reported(e) \/ DecideFallback(e) \/ DecideOurs(e) \/ DecideTheirs(e) \/ OpenChosen(e)
       \/ ToldActivated(e) \/ Activated(e) \/ Refused(e)
       \/ OpenChosenFails(e) \/ Lose(e) \/ Release(e) \/ Timeout(e)

LEMMA StepsAre ==
  Next <=> Quiet \/ ReceiveS5b \/ Run \/ \E e \in Ends : Dial(e) \/ Deliver(e)
BY DEF Next, Quiet, Initiator, Runs

LEMMA FailsIsQuiet ==
  ASSUME NEW e, NEW sockets, FailsHolding(e, sockets)
  PROVE  UNCHANGED <<setup, neg, armed>>
BY DEF FailsHolding

LEMMA ThrowsIsQuiet ==
  ASSUME NEW e, Throws(e)
  PROVE  UNCHANGED <<setup, neg, armed>>
BY FailsIsQuiet DEF Throws, Fails, IbbFails

LEMMA QuietIsQuiet ==
  ASSUME Quiet
  PROVE  UNCHANGED <<setup, neg>> /\ (armed # "no" => armed' # "no")
<1>1. CASE \/ ReceiveIbb \/ OfferEnds \/ Offered \/ WriteAll \/ Succeeds \/ Failed \/ IbbFailed
           \/ Replaced \/ InitiatorSwitches \/ IbbOpens \/ IbbWriteAll
  BY <1>1 DEF ReceiveIbb, OfferEnds, Offered, WriteAll, Succeeds, Failed, IbbFailed,
              Replaced, InitiatorSwitches, IbbOpens, IbbWriteAll
<1>2. CASE Responder
  BY <1>2, FailsIsQuiet DEF Responder, Accepted, ResponderSwitches, ToldAccepted, IbbArrives,
                            IncomingFails, Fails
<1>3. CASE WriteFails \/ IbbWriteFails \/ IbbUnclaimed \/ ExpectationEnds
  BY <1>3, FailsIsQuiet DEF WriteFails, IbbWriteFails, IbbUnclaimed, IbbFails, ExpectationEnds
<1>4. ASSUME NEW e \in Ends,
             \/ Reported(e) \/ DecideFallback(e) \/ DecideOurs(e) \/ DecideTheirs(e)
             \/ OpenChosen(e) \/ ToldActivated(e) \/ Activated(e) \/ Lose(e) \/ Release(e)
      PROVE  UNCHANGED <<setup, neg, armed>>
  BY <1>4 DEF Reported, DecideFallback, DecideOurs, DecideTheirs, OpenChosen, ToldActivated,
              Activated, Lose, Release
<1>5. ASSUME NEW e \in Ends, Refused(e) \/ OpenChosenFails(e) \/ Timeout(e)
      PROVE  UNCHANGED <<setup, neg, armed>>
  BY <1>5, FailsIsQuiet, ThrowsIsQuiet DEF Refused, OpenChosenFails, Timeout
<1> QED BY <1>1, <1>2, <1>3, <1>4, <1>5 DEF Quiet

LEMMA NegotiationFields ==
  ASSUME TypeOK, NEW e \in Ends
  PROVE  neg[e] = [offered |-> neg[e].offered, remote |-> neg[e].remote, ready |-> neg[e].ready,
                   local |-> neg[e].local, heard |-> neg[e].heard,
                   activated |-> neg[e].activated, switched |-> neg[e].switched]
BY DEF TypeOK, Negotiation

LEMMA HeadIsTrue ==
  ASSUME ChannelInv, NEW e \in Ends, channel[e] # <<>>
  PROVE  Head(channel[e]) \in Requests(e) /\ IsTrue(e, Head(channel[e]))
<1>1. channel[e] \in Seq(TrueRequests(e))
  BY DEF ChannelInv
<1>2. Head(channel[e]) \in TrueRequests(e)
  BY <1>1
<1> QED BY <1>2 DEF TrueRequests

(* A request changes its receiver's side of the negotiation, as its kind   *)
(* says, and nothing of what it had been told before.                      *)
Hears(e, m) ==
  /\ neg' \in [Ends -> Negotiation]
  /\ \A d \in Ends \ {e} : neg'[d] = neg[d]
  /\ neg'[e].local = neg[e].local
  /\ \/ neg'[e].heard = neg[e].heard
     \/ IsInfo(m, "candidate-used") /\ neg[e].heard = "none" /\ neg'[e].heard = m.payload.cid
     \/ IsInfo(m, "candidate-error") /\ neg[e].heard = "none" /\ neg'[e].heard = "error"
  /\ neg'[e].switched # neg[e].switched => m.action \in {"transport-replace", "transport-accept"}

LEMMA InfoIsHeard ==
  ASSUME NEW n \in Negotiation, NEW info \in Infos
  PROVE  LET new == TransportInfo(n, info) IN
         /\ new \in Negotiation
         /\ new.local = n.local /\ new.switched = n.switched
         /\ \/ new.heard = n.heard
            \/ info.kind = "candidate-used" /\ n.heard = "none" /\ new.heard = info.cid
            \/ info.kind = "candidate-error" /\ n.heard = "none" /\ new.heard = "error"
<1> DEFINE new == TransportInfo(n, info)
<1>1. CASE info.kind = "candidates"
  <2>1. new = [n EXCEPT !.remote = @ \cup info.cands, !.ready = TRUE]
    BY <1>1 DEF TransportInfo, ReceiveRemoteCandidates
  <2>2. info.cands \subseteq Cands
    BY <1>1 DEF Infos
  <2> QED BY <2>1, <2>2 DEF Negotiation
<1>2. CASE info.kind = "candidate-used"
  <2>1. info.cid \in Cands
    BY <1>2 DEF Infos
  <2>2. new = n \/ new = [[n EXCEPT !.heard = IF @ = "none" THEN info.cid ELSE @] EXCEPT !.ready = TRUE]
    BY <1>2 DEF TransportInfo, SetRemoteUsed, PeerFinishedOffering
  <2> QED BY <1>2, <2>1, <2>2 DEF Negotiation, Reports
<1>3. CASE info.kind = "candidate-error"
  <2>1. new = [[n EXCEPT !.heard = IF @ = "none" THEN "error" ELSE @] EXCEPT !.ready = TRUE]
    BY <1>3 DEF TransportInfo, SetRemoteError, PeerFinishedOffering
  <2> QED BY <1>3, <2>1 DEF Negotiation, Reports
<1>4. CASE info.kind = "activated"
  BY <1>4 DEF TransportInfo, MarkActivated, Negotiation
<1> QED BY <1>1, <1>2, <1>3, <1>4 DEF Infos

LEMMA DispatchHears ==
  ASSUME TypeOK, NEW e \in Ends, NEW m \in Requests(e), Dispatch(e, m)
  PROVE  /\ Hears(e, m)
         /\ session' \in [Ends -> {"none", "live", "gone"}]
         /\ IF m.action = "accept" THEN pc' = [pc EXCEPT ![e] = "accepted"] ELSE pc' = pc
<1> USE DEF TypeOK
<1>1. CASE m.action = "transport-info"
  <2>1. m.payload \in Infos
    BY <1>1 DEF Requests
  <2>2. neg' = [neg EXCEPT ![e] = TransportInfo(neg[e], m.payload)] /\ UNCHANGED <<session, pc>>
    BY <1>1, Zenon DEF Dispatch, OnTransportInfo
  <2> DEFINE new == TransportInfo(neg[e], m.payload)
  <2>3. new \in Negotiation /\ new.local = neg[e].local /\ new.switched = neg[e].switched
    BY <2>1, InfoIsHeard
  <2>4. \/ new.heard = neg[e].heard
        \/ IsInfo(m, "candidate-used") /\ neg[e].heard = "none" /\ new.heard = m.payload.cid
        \/ IsInfo(m, "candidate-error") /\ neg[e].heard = "none" /\ new.heard = "error"
    BY <1>1, <2>1, InfoIsHeard DEF IsInfo
  <2> HIDE DEF new
  <2> QED BY <1>1, <2>2, <2>3, <2>4 DEF Hears, new
<1>2. CASE m.action = "accept"
  <2>1. OnSessionAccept(e, m)
    BY <1>2, Zenon DEF Dispatch
  <2>2. OnS5b => m.payload.cands \subseteq Cands
    BY <1>2 DEF Requests, Bare
  <2>3. CASE OnS5b
    <3> DEFINE n   == neg[e]
               new == AcceptS5b(n, m.payload.cands)
    <3>1. neg' = [neg EXCEPT ![e] = new] /\ pc' = [pc EXCEPT ![e] = "accepted"] /\ UNCHANGED session
      BY <2>1, <2>3 DEF OnSessionAccept
    <3>2. n \in Negotiation
      OBVIOUS
    <3> HIDE DEF n
    <3>3. /\ new \in Negotiation
          /\ new.local = n.local /\ new.heard = n.heard /\ new.switched = n.switched
      BY <2>2, <2>3, <3>2 DEF AcceptS5b, ReceiveRemoteCandidates, NoRemoteCandidates, Negotiation
    <3> HIDE DEF new
    <3> QED BY <1>2, <3>1, <3>3 DEF Hears, n
  <2>4. CASE ~OnS5b
    BY <1>2, <2>1, <2>4 DEF OnSessionAccept, Hears
  <2> QED BY <2>3, <2>4
<1>3. CASE m.action = "terminate"
  <2>1. Forgets(e) /\ UNCHANGED <<pc, neg>>
    BY <1>3, Zenon DEF Dispatch, OnSessionTerminate
  <2> QED BY <1>3, <2>1 DEF Hears, Forgets
<1>4. CASE m.action \in {"transport-replace", "transport-accept"}
  <2> DEFINE n   == neg[e]
             new == MarkSwitch(n)
  <2>1. neg' = [neg EXCEPT ![e] = new] /\ UNCHANGED <<session, pc>>
    BY <1>4 DEF Dispatch, OnTransportReplace, OnTransportAccept
  <2>2. n \in Negotiation
    OBVIOUS
  <2> HIDE DEF n
  <2>3. new \in Negotiation /\ new.local = n.local /\ new.heard = n.heard
    BY <2>2 DEF MarkSwitch, Negotiation
  <2> HIDE DEF new
  <2> QED BY <1>4, <2>1, <2>3 DEF Hears, n
<1> QED BY <1>1, <1>2, <1>3, <1>4 DEF Requests

(* What the delivery of a request does. *)
LEMMA DeliverIs ==
  ASSUME TypeOK, ChannelInv, NEW e \in Ends, Deliver(e)
  PROVE  LET m == Head(channel[e]) IN
         /\ channel[e] # <<>> /\ channel' = [channel EXCEPT ![e] = Tail(@)]
         /\ m \in Requests(e) /\ IsTrue(e, m) /\ Hears(e, m)
         /\ \/ pc' = pc
            \/ /\ e = "i" /\ m.action = "accept" /\ pc["i"] = "offered"
               /\ pc' = [pc EXCEPT !["i"] = "accepted"]
         /\ \/ asked' = asked
            \/ asked[Peer(e)] = "sent" /\ \E res \in {"ok", "refused"} : asked' = [asked EXCEPT ![Peer(e)] = res]
         /\ session' \in [Ends -> {"none", "live", "gone"}]
         /\ UNCHANGED <<setup, held, armed>>
<1> DEFINE m == Head(channel[e])
           known == StateFor(e) /\ (m.action = "accept" => pc[e] = "offered")
           last  == Len(channel[e]) = 1 /\ asked[Peer(e)] = "sent"
<1>1. /\ channel[e] # <<>> /\ channel' = [channel EXCEPT ![e] = Tail(@)]
      /\ IF known THEN Dispatch(e, m) ELSE UNCHANGED <<session, pc, neg>>
      /\ asked' = IF last THEN [asked EXCEPT ![Peer(e)] = IF known THEN "ok" ELSE "refused"] ELSE asked
      /\ UNCHANGED <<setup, held, armed>>
  BY Zenon DEF Deliver
<1>2. m \in Requests(e) /\ IsTrue(e, m)
  BY <1>1, HeadIsTrue
<1>3. \/ asked' = asked
      \/ asked[Peer(e)] = "sent" /\ \E res \in {"ok", "refused"} : asked' = [asked EXCEPT ![Peer(e)] = res]
  BY <1>1
<1>4. m.action = "accept" => e = "i"
  BY <1>2 DEF Requests
<1> HIDE DEF m
<1>5. /\ Hears(e, m)
      /\ session' \in [Ends -> {"none", "live", "gone"}]
      /\ \/ pc' = pc
         \/ /\ e = "i" /\ m.action = "accept" /\ pc["i"] = "offered"
            /\ pc' = [pc EXCEPT !["i"] = "accepted"]
  <2>1. CASE known
    <3>1. /\ Hears(e, m)
          /\ session' \in [Ends -> {"none", "live", "gone"}]
          /\ IF m.action = "accept" THEN pc' = [pc EXCEPT ![e] = "accepted"] ELSE pc' = pc
      BY <1>1, <1>2, <2>1, DispatchHears
    <3> QED BY <1>4, <2>1, <3>1
  <2>2. CASE ~known
    BY <1>1, <2>2 DEF Hears, TypeOK
  <2> QED BY <2>1, <2>2
<1> QED BY <1>1, <1>2, <1>3, <1>5 DEF m

(* What a side reports, when it has tried its peer's candidates. *)
Tries(e, got) ==
  /\ neg' \in [Ends -> Negotiation]
  /\ \A d \in Ends \ {e} : neg'[d] = neg[d]
  /\ neg'[e].local = IF neg[e].local = "none" THEN got ELSE neg[e].local
  /\ neg'[e].heard = neg[e].heard
  /\ neg'[e].switched = neg[e].switched

LEMMA DialIs ==
  ASSUME TypeOK, NEW e \in Ends, Dial(e)
  PROVE  \E got \in Cands \cup {"error"} :
           /\ pc[e] = "dialling" /\ Goes(e, "reporting") /\ Tries(e, got)
           /\ Asks(e, "transport-info", Report(got))
           /\ Holds(e, IF got = "error" THEN {} ELSE {"dialled"})
           /\ UNCHANGED <<setup, session, armed>>
<1>1. PICK got \in DialPeerCandidates(e) :
        /\ Holds(e, IF got = "error" THEN {} ELSE {"dialled"})
        /\ neg' = [neg EXCEPT ![e] = SetLocalReport(NoRemoteCandidates(neg[e]), got)]
        /\ SendInfo(e, Report(got))
  BY Zenon DEF Dial
<1>2. got \in Cands \cup {"error"}
  BY DEF DialPeerCandidates, TypeOK, Negotiation
<1> DEFINE n   == neg[e]
           new == SetLocalReport(NoRemoteCandidates(n), got)
<1>3. n \in Negotiation
  BY DEF TypeOK
<1> HIDE DEF n
<1>4. /\ new \in Negotiation /\ new.local = IF n.local = "none" THEN got ELSE n.local
      /\ new.heard = n.heard /\ new.switched = n.switched
  <2> DEFINE ready == NoRemoteCandidates(n)
  <2>1. /\ ready \in Negotiation
        /\ ready.local = n.local /\ ready.heard = n.heard /\ ready.switched = n.switched
    BY <1>3 DEF NoRemoteCandidates, Negotiation
  <2> HIDE DEF ready
  <2>2. new = [ready EXCEPT !.local = IF @ = "none" THEN got ELSE @]
    BY DEF SetLocalReport, ready
  <2> QED BY <1>2, <2>1, <2>2 DEF Negotiation, Reports
<1>5. Tries(e, got)
  <2>1. neg' = [neg EXCEPT ![e] = new]
    BY <1>1 DEF n
  <2> HIDE DEF new
  <2> QED BY <1>4, <2>1 DEF Tries, TypeOK, n
<1>6. Asks(e, "transport-info", Report(got))
  BY <1>1 DEF SendInfo, SendTransportInfo, SendResponderInfo, Ends
<1> QED BY <1>1, <1>2, <1>5, <1>6 DEF Dial

(* What a side offers, when the session is accepted. *)
LEMMA OfferIs ==
  ASSUME TypeOK, NEW e \in Ends, neg' = [neg EXCEPT ![e] = OfferLocal(@, hosts[e])]
  PROVE  /\ neg' \in [Ends -> Negotiation]
         /\ \A d \in Ends : /\ neg'[d].local = neg[d].local /\ neg'[d].heard = neg[d].heard
                            /\ neg'[d].switched = neg[d].switched
<1> DEFINE n   == neg[e]
           new == OfferLocal(n, hosts[e])
<1>1. n \in Negotiation /\ hosts[e] \subseteq Cands
  BY DEF TypeOK
<1> HIDE DEF n
<1>2. new \in Negotiation /\ new.local = n.local /\ new.heard = n.heard /\ new.switched = n.switched
  BY <1>1 DEF OfferLocal, Negotiation
<1>3. neg' = [neg EXCEPT ![e] = new]
  BY DEF n
<1> HIDE DEF new
<1> QED BY <1>2, <1>3 DEF TypeOK, n

LEMMA RunIs ==
  ASSUME TypeOK, Run
  PROVE  /\ neg' \in [Ends -> Negotiation]
         /\ \A d \in Ends : /\ neg'[d].local = neg[d].local /\ neg'[d].heard = neg[d].heard
                            /\ neg'[d].switched = neg[d].switched
<1>1. CASE neg' = neg
  BY <1>1 DEF TypeOK
<1>2. CASE neg' = [neg EXCEPT !["i"] = OfferLocal(@, hosts["i"])]
  BY <1>2, OfferIs DEF Ends
<1> QED BY <1>1, <1>2 DEF Run

LEMMA StepsGrow ==
  ASSUME TypeOK, ChannelInv, [Next]_vars
  PROVE  Growing
<1>1. CASE UNCHANGED vars
  BY <1>1 DEF vars, Growing, setup
<1>2. CASE Quiet
  BY <1>2, QuietIsQuiet DEF Growing
<1>3. CASE ReceiveS5b
  <2>1. UNCHANGED <<setup, armed>> /\ neg' = [neg EXCEPT !["r"] = OfferLocal(@, hosts["r"])]
    BY <1>3 DEF ReceiveS5b
  <2> QED BY <2>1, OfferIs DEF Growing, Ends
<1>4. CASE Run
  BY <1>4, RunIs DEF Growing, Run
<1>5. ASSUME NEW e \in Ends, Dial(e)
      PROVE  Growing
  BY <1>5, DialIs DEF Growing, Tries
<1>6. ASSUME NEW e \in Ends, Deliver(e)
      PROVE  Growing
  BY <1>6, DeliverIs DEF Growing, Hears
<1> QED BY <1>1, <1>2, <1>3, <1>4, <1>5, <1>6, StepsAre DEF vars

-----------------------------------------------------------------------------
(* The steps that fail, and the others. *)

Failing(e, sockets) ==
  /\ FailsHolding(e, sockets)
  /\ sockets \subseteq {"dialled", "owned"}
  /\ "owned" \in sockets => Outcome(e) \in Proxies

IbbFailing == pc["i"] \in {"ibbTerminating", "ibbWriting", "ibbOpening"} /\ IbbFails

GivesUpTelling(e) ==
  /\ pc[e] \in {"failing", "ibbFailing"}
  /\ asked' = [asked EXCEPT ![e] = "refused"]
  /\ UNCHANGED <<setup, pc, session, channel, neg, held, armed>>

IncomingEnds ==
  /\ pc["r"] = "incoming" /\ Goes("r", "failed")
  /\ UNCHANGED <<setup, session, asked, channel, neg, held, armed>>

InitiatorRuns ==
  \/ OfferEnds \/ Offered \/ WriteAll \/ Succeeds \/ Failed \/ IbbFailed
  \/ Replaced \/ InitiatorSwitches \/ IbbOpens \/ IbbWriteAll

ResponderRuns ==
  ReceiveIbb \/ Accepted \/ ResponderSwitches \/ ToldAccepted \/ IbbArrives \/ IncomingEnds

Decides(e) ==
  \/ Reported(e) \/ DecideFallback(e) \/ DecideOurs(e) \/ DecideTheirs(e)
  \/ OpenChosen(e) \/ ToldActivated(e) \/ Activated(e)

LEMMA FailsOwning ==
  ASSUME TypeOK, PlaceInv, HeldInv, NEW e \in Ends, Fails(e),
         pc[e] \notin {"writing", "reading", "failing", "failed"}
  PROVE  Failing(e, held[e])
<1>1. held[e] \subseteq {"dialled", "owned"}
  BY DEF TypeOK
<1>2. "owned" \in held[e] => pc[e] \in {"activation", "activating"}
  BY DEF HeldInv
<1> QED BY <1>1, <1>2 DEF HeldInv, Failing, Fails

LEMMA ThrowsIs ==
  ASSUME TypeOK, PlaceInv, HeldInv, NEW e \in Ends, Throws(e), asked[e] # "no" \/ Waiting(e)
  PROVE  IbbFailing \/ Failing(e, held[e])
<1>1. CASE pc[e] = "ibbTerminating"
  BY <1>1 DEF Throws, IbbFailing, PlaceInv, Ends
<1>2. CASE pc[e] # "ibbTerminating"
  <2>1. Fails(e) /\ pc[e] \notin {"failing", "ibbFailing"}
    BY <1>2 DEF Throws
  <2>2. asked[e] # "no" => pc[e] \in Asking
    BY DEF PlaceInv
  <2>3. pc[e] \notin {"writing", "reading", "failed"}
    BY <2>2 DEF Waiting, WaitRemoteCandidates, WaitOutcome, WaitActivation, WaitSwitch, Asking
  <2> QED BY <2>1, <2>3, FailsOwning
<1> QED BY <1>1, <1>2

LEMMA QuietSteps ==
  ASSUME TypeOK, PlaceInv, HeldInv, Quiet
  PROVE  \/ InitiatorRuns \/ ResponderRuns \/ IbbFailing \/ ExpectationEnds
         \/ \E e \in Ends :
              \/ Decides(e) \/ Lose(e) \/ Release(e) \/ GivesUpTelling(e)
              \/ \E sockets \in SUBSET {"dialled", "owned"} : Failing(e, sockets)
<1> DEFINE Goal ==
      \/ InitiatorRuns \/ ResponderRuns \/ IbbFailing \/ ExpectationEnds
      \/ \E e \in Ends :
           \/ Decides(e) \/ Lose(e) \/ Release(e) \/ GivesUpTelling(e)
           \/ \E sockets \in SUBSET {"dialled", "owned"} : Failing(e, sockets)
<1>0. \A e \in Ends : held[e] \in SUBSET {"dialled", "owned"}
  BY DEF TypeOK
<1>1. IncomingFails => Goal
  <2>1. SUFFICES ASSUME IncomingFails PROVE Goal
    OBVIOUS
  <2>2. CASE OnS5b
    <3>1. Fails("r") /\ pc["r"] = "incoming" /\ "r" \in Ends
      BY <2>1, <2>2 DEF IncomingFails, Ends
    <3>2. Failing("r", held["r"])
      BY <3>1, FailsOwning
    <3> QED BY <1>0, <3>1, <3>2
  <2>3. CASE ~OnS5b
    BY <2>1, <2>3 DEF IncomingFails, IncomingEnds, ResponderRuns
  <2> QED BY <2>2, <2>3
<1>2. WriteFails => Goal
  <2>1. WriteFails => Failing("i", {})
    BY DEF WriteFails, Failing
  <2> QED BY <2>1 DEF Ends
<1>3. IbbWriteFails \/ IbbUnclaimed => Goal
  BY DEF IbbWriteFails, IbbUnclaimed, IbbFailing
<1>4. ASSUME NEW e \in Ends PROVE OpenChosenFails(e) => Goal
  <2>1. OpenChosenFails(e) => Failing(e, {}) \/ Failing(e, {"owned"})
    BY DEF OpenChosenFails, Failing
  <2> QED BY <2>1
<1>5. ASSUME NEW e \in Ends PROVE Refused(e) => Goal
  <2>1. Refused(e) => Throws(e) /\ asked[e] # "no"
    BY DEF Refused
  <2> QED BY <1>0, <2>1, ThrowsIs
<1>6. ASSUME NEW e \in Ends PROVE Timeout(e) => Goal
  <2>1. Timeout(e) => Waiting(e) /\ (GivesUpTelling(e) \/ Throws(e))
    BY DEF Timeout, GivesUpTelling
  <2> QED BY <1>0, <2>1, ThrowsIs
<1>7. Quiet => \/ InitiatorRuns \/ ResponderRuns \/ ExpectationEnds
               \/ IncomingFails \/ WriteFails \/ IbbWriteFails \/ IbbUnclaimed
               \/ \E e \in Ends : \/ Decides(e) \/ Lose(e) \/ Release(e)
                                  \/ OpenChosenFails(e) \/ Refused(e) \/ Timeout(e)
  BY DEF Quiet, InitiatorRuns, ResponderRuns, Responder, Decides
<1> QED BY <1>1, <1>2, <1>3, <1>4, <1>5, <1>6, <1>7

-----------------------------------------------------------------------------
(* The steps keep the invariant, one part of it at a time. *)

LEMMA InitSound ==
  Init => SessionInv
<1> SUFFICES ASSUME Init PROVE SessionInv
  OBVIOUS
<1> USE DEF Init
<1>1. Fresh \in Negotiation
  BY DEF Fresh, Negotiation, Reports
<1>2. TypeOK
  <2>1. hosts \in [Ends -> SUBSET Cands]
    OBVIOUS
  <2> QED BY <1>1, <2>1 DEF TypeOK, Ended, Ends
<1>3. ChannelInv
  BY DEF ChannelInv
<1>4. ReportInv
  BY DEF ReportInv, Fresh
<1>5. ArmedInv
  BY DEF ArmedInv, Fresh, Ends
<1>6. PlaceInv /\ HeldInv
  BY DEF PlaceInv, HeldInv, Ends
<1> QED BY <1>2, <1>3, <1>4, <1>5, <1>6 DEF SessionInv

LEMMA TypesKept ==
  ASSUME TypeOK, ChannelInv, PlaceInv, HeldInv, [Next]_vars
  PROVE  TypeOK'
<1> USE DEF TypeOK
<1>1. CASE UNCHANGED vars
  BY <1>1 DEF vars
<1>2. UNCHANGED setup
  BY StepsGrow DEF Growing
<1>3. CASE InitiatorRuns
  BY <1>2, <1>3 DEF InitiatorRuns, OfferEnds, Offered, WriteAll, Succeeds, Failed, IbbFailed,
    Replaced, InitiatorSwitches, IbbOpens, IbbWriteAll, Terminates,
    Ends, Ended, setup, Goes, Asks, Answered, Holds, Forgets
<1>4. CASE ResponderRuns
  BY <1>2, <1>4 DEF ResponderRuns, ReceiveIbb, Accepted, ResponderSwitches, ToldAccepted,
    IbbArrives, IncomingEnds,
    Ends, Ended, setup, Goes, Asks, Answered, Holds, Forgets
<1>5. CASE IbbFailing \/ ExpectationEnds
  BY <1>2, <1>5 DEF IbbFailing, IbbFails, ExpectationEnds, Terminates, Ends, setup, Goes, Asks
<1>6. ASSUME NEW e \in Ends, Decides(e)
      PROVE  TypeOK'
  BY <1>2, <1>6 DEF Decides, Reported, DecideFallback, DecideOurs, DecideTheirs, OpenChosen,
    ToldActivated, Activated, Flows, SendInfo, SendTransportInfo, SendResponderInfo,
    Ends, Ended, setup, Goes, Asks, Answered, Holds
<1>7. ASSUME NEW e \in Ends, Lose(e) \/ Release(e) \/ GivesUpTelling(e)
      PROVE  TypeOK'
  BY <1>2, <1>7 DEF Lose, Release, GivesUpTelling, Ends, setup, Forgets
<1>8. ASSUME NEW e \in Ends, NEW sockets \in SUBSET {"dialled", "owned"}, Failing(e, sockets)
      PROVE  TypeOK'
  BY <1>2, <1>8 DEF Failing, FailsHolding, Terminates, Ends, Ended, setup, Goes, Asks, Holds, Forgets
<1>9. CASE ReceiveS5b
  <2>1. neg' \in [Ends -> Negotiation]
    BY <1>9, OfferIs DEF ReceiveS5b, Ends
  <2> QED BY <1>2, <1>9, <2>1 DEF ReceiveS5b, Ends, setup, Goes, Asks
<1>10. CASE Run
  <2>1. neg' \in [Ends -> Negotiation]
    BY <1>10, RunIs
  <2> QED BY <1>2, <1>10, <2>1 DEF Run, SendTransportInfo, Ends, setup, Goes, Asks
<1>11. ASSUME NEW e \in Ends, Dial(e)
       PROVE  TypeOK'
  <2>1. PICK got \in Cands \cup {"error"} :
          /\ Goes(e, "reporting") /\ neg' \in [Ends -> Negotiation]
          /\ Asks(e, "transport-info", Report(got))
          /\ Holds(e, IF got = "error" THEN {} ELSE {"dialled"})
          /\ UNCHANGED <<setup, session, armed>>
    BY <1>11, DialIs DEF Tries
  <2> QED BY <2>1 DEF Ends, setup, Goes, Asks, Holds
<1>12. ASSUME NEW e \in Ends, Deliver(e)
       PROVE  TypeOK'
  BY <1>2, <1>12, DeliverIs DEF Hears, Ends, Peer, setup
<1> QED BY <1>1, <1>3, <1>4, <1>5, <1>6, <1>7, <1>8, <1>9, <1>10, <1>11, <1>12, StepsAre, QuietSteps

LEMMA PlacesKept ==
  ASSUME TypeOK, ChannelInv, PlaceInv, HeldInv, [Next]_vars
  PROVE  PlaceInv'
<1> USE DEF TypeOK, PlaceInv, Asking
<1>1. CASE UNCHANGED vars
  BY <1>1 DEF vars
<1>3. CASE InitiatorRuns
  BY <1>3 DEF InitiatorRuns, OfferEnds, Offered, WriteAll, Succeeds, Failed, IbbFailed,
    Replaced, InitiatorSwitches, IbbOpens, IbbWriteAll, Terminates,
    Ends, Goes, Asks, Answered
<1>4. CASE ResponderRuns
  BY <1>4 DEF ResponderRuns, ReceiveIbb, Accepted, ResponderSwitches, ToldAccepted,
    IbbArrives, IncomingEnds, Ends, Goes, Asks, Answered
<1>5. CASE IbbFailing \/ ExpectationEnds
  BY <1>5 DEF IbbFailing, IbbFails, ExpectationEnds, Terminates, Ends, Goes, Asks
<1>6. ASSUME NEW e \in Ends, Decides(e)
      PROVE  PlaceInv'
  BY <1>6 DEF Decides, Reported, DecideFallback, DecideOurs, DecideTheirs, OpenChosen,
    ToldActivated, Activated, Flows, SendInfo, SendTransportInfo, SendResponderInfo,
    Ends, Goes, Asks, Answered
<1>7. ASSUME NEW e \in Ends, Lose(e) \/ Release(e) \/ GivesUpTelling(e)
      PROVE  PlaceInv'
  BY <1>7 DEF Lose, Release, GivesUpTelling, Ends
<1>8. ASSUME NEW e \in Ends, NEW sockets \in SUBSET {"dialled", "owned"}, Failing(e, sockets)
      PROVE  PlaceInv'
  BY <1>8 DEF Failing, FailsHolding, Terminates, Ends, Goes, Asks
<1>9. CASE ReceiveS5b
  BY <1>9 DEF ReceiveS5b, Ends, Goes, Asks
<1>10. CASE Run
  BY <1>10 DEF Run, SendTransportInfo, Ends, Goes, Asks
<1>11. ASSUME NEW e \in Ends, Dial(e)
       PROVE  PlaceInv'
  <2>1. PICK got \in Cands \cup {"error"} :
          Goes(e, "reporting") /\ Asks(e, "transport-info", Report(got))
    BY <1>11, DialIs
  <2> QED BY <2>1 DEF Ends, Goes, Asks
<1>12. ASSUME NEW e \in Ends, Deliver(e)
       PROVE  PlaceInv'
  BY <1>12, DeliverIs DEF Ends, Peer
<1> QED BY <1>1, <1>3, <1>4, <1>5, <1>6, <1>7, <1>8, <1>9, <1>10, <1>11, <1>12, StepsAre, QuietSteps

(* A connection that lost is let go: what a side holds goes with where it  *)
(* is, and a winner it once knew stays the winner.                         *)
LEMMA HoldingsKept ==
  ASSUME TypeOK, ChannelInv, PlaceInv, HeldInv, [Next]_vars
  PROVE  HeldInv'
<1> USE DEF TypeOK, HeldInv
<1>0. Growing
  BY StepsGrow
<1>1. \A e \in Ends : /\ Outcome(e) \in Cands => Outcome(e)' \in Cands
                      /\ Outcome(e) \in Proxies => Outcome(e)' \in Proxies
  BY <1>0, OutcomeStays DEF Cands, Proxies
<1>2. CASE UNCHANGED vars
  BY <1>1, <1>2 DEF vars
<1>3. CASE InitiatorRuns
  BY <1>1, <1>3 DEF InitiatorRuns, OfferEnds, Offered, WriteAll, Succeeds, Failed, IbbFailed,
    Replaced, InitiatorSwitches, IbbOpens, IbbWriteAll, Ends, Goes, Holds
<1>4. CASE ResponderRuns
  BY <1>1, <1>4 DEF ResponderRuns, ReceiveIbb, Accepted, ResponderSwitches, ToldAccepted,
    IbbArrives, IncomingEnds, Ends, Goes
<1>5. CASE IbbFailing \/ ExpectationEnds
  BY <1>1, <1>5 DEF IbbFailing, IbbFails, ExpectationEnds, Ends, Goes
<1>6. ASSUME NEW e \in Ends, Decides(e)
      PROVE  HeldInv'
  <2>1. CASE Reported(e) \/ ToldActivated(e) \/ Activated(e)
    BY <1>1, <1>6, <2>1 DEF Reported, ToldActivated, Activated, Flows, Ends, Goes
  <2>2. CASE DecideFallback(e) \/ DecideOurs(e)
    BY <1>1, <1>6, <2>2 DEF DecideFallback, DecideOurs, Ends, Goes, Holds, Of, Cands
  <2>3. CASE DecideTheirs(e)
    <3>1. Outcome(e) \in Cands
      BY <2>3 DEF DecideTheirs, Of, Peer, Cands
    <3>2. /\ held' = [held EXCEPT ![e] = {"owned"}]
          /\ \/ Outcome(e) \in Proxies /\ pc' = [pc EXCEPT ![e] = "activation"]
             \/ pc' = [pc EXCEPT ![e] = "writing"]
             \/ pc' = [pc EXCEPT ![e] = "reading"]
      BY <2>3 DEF DecideTheirs, Flows, Goes, Holds
    <3> QED BY <1>1, <1>6, <3>1, <3>2
  <2>4. CASE OpenChosen(e)
    <3>1. Outcome(e) \in Cands
      BY <2>4 DEF OpenChosen
    <3>2. /\ held' = [held EXCEPT ![e] = {"owned"}]
          /\ \/ Outcome(e) \in Proxies /\ pc' = [pc EXCEPT ![e] = "activating"]
             \/ pc' = [pc EXCEPT ![e] = "writing"]
             \/ pc' = [pc EXCEPT ![e] = "reading"]
      BY <2>4 DEF OpenChosen, Flows, Goes, Holds
    <3> QED BY <1>1, <1>6, <3>1, <3>2
  <2> QED BY <1>6, <2>1, <2>2, <2>3, <2>4 DEF Decides
<1>7. ASSUME NEW e \in Ends, Lose(e) \/ Release(e) \/ GivesUpTelling(e)
      PROVE  HeldInv'
  BY <1>1, <1>7 DEF Lose, Release, GivesUpTelling
<1>8. ASSUME NEW e \in Ends, NEW sockets \in SUBSET {"dialled", "owned"}, Failing(e, sockets)
      PROVE  HeldInv'
  <2>1. /\ held' = [held EXCEPT ![e] = sockets \ {"dialled"}]
        /\ pc' = [pc EXCEPT ![e] = IF e = "i" THEN "failing" ELSE "failed"]
        /\ "owned" \in sockets => Outcome(e) \in Proxies
    BY <1>8 DEF Failing, FailsHolding, Goes, Holds, Ends
  <2>2. Proxies \subseteq Cands
    BY DEF Cands, Proxies
  <2> DEFINE kept == sockets \ {"dialled"}
  <2>3. "dialled" \notin kept /\ (kept # {} => Outcome(e) \in Proxies)
    BY <2>1
  <2>4. /\ held' = [held EXCEPT ![e] = kept]
        /\ pc'[e] \in {"failing", "failed"} /\ \A d \in Ends \ {e} : pc'[d] = pc[d]
    BY <2>1
  <2> HIDE DEF kept
  <2> QED BY <1>1, <2>2, <2>3, <2>4
<1>9. CASE ReceiveS5b
  BY <1>1, <1>9 DEF ReceiveS5b, Ends, Goes
<1>10. CASE Run
  BY <1>1, <1>10 DEF Run, Ends, Goes
<1>11. ASSUME NEW e \in Ends, Dial(e)
       PROVE  HeldInv'
  BY <1>1, <1>11, DialIs DEF Ends, Goes, Holds
<1>12. ASSUME NEW e \in Ends, Deliver(e)
       PROVE  HeldInv'
  BY <1>1, <1>12, DeliverIs DEF Ends
<1> QED BY <1>2, <1>3, <1>4, <1>5, <1>6, <1>7, <1>8, <1>9, <1>10, <1>11, <1>12, StepsAre, QuietSteps

(* A side that has no report yet has none that its peer heard, so that the *)
(* one report it makes is the one that is heard.                           *)
LEMMA ReportsKept ==
  ASSUME SessionInv, [Next]_vars
  PROVE  ReportInv'
<1> USE DEF SessionInv, ReportInv, Before
<1>1. CASE UNCHANGED vars
  BY <1>1 DEF vars
<1>2. CASE Quiet
  <2>1. neg' = neg
    BY <1>2, QuietIsQuiet
  <2>2. \A e \in Ends : pc'[e] \in Before => pc[e] \in Before
    <3>1. CASE InitiatorRuns
      BY <3>1 DEF InitiatorRuns, OfferEnds, Offered, WriteAll, Succeeds, Failed, IbbFailed,
        Replaced, InitiatorSwitches, IbbOpens, IbbWriteAll, Ends, Goes, TypeOK
    <3>2. CASE ResponderRuns
      BY <3>2 DEF ResponderRuns, ReceiveIbb, Accepted, ResponderSwitches, ToldAccepted,
        IbbArrives, IncomingEnds, Ends, Goes, TypeOK
    <3>3. CASE IbbFailing \/ ExpectationEnds
      BY <3>3 DEF IbbFailing, IbbFails, ExpectationEnds, Ends, Goes, TypeOK
    <3>4. ASSUME NEW e \in Ends, Decides(e)
          PROVE  \A d \in Ends : pc'[d] \in Before => pc[d] \in Before
      BY <3>4 DEF Decides, Reported, DecideFallback, DecideOurs, DecideTheirs, OpenChosen,
        ToldActivated, Activated, Flows, Ends, Goes, TypeOK
    <3>5. ASSUME NEW e \in Ends, Lose(e) \/ Release(e) \/ GivesUpTelling(e)
          PROVE  pc' = pc
      BY <3>5 DEF Lose, Release, GivesUpTelling
    <3>6. ASSUME NEW e \in Ends, NEW sockets \in SUBSET {"dialled", "owned"}, Failing(e, sockets)
          PROVE  \A d \in Ends : pc'[d] \in Before => pc[d] \in Before
      BY <3>6 DEF Failing, FailsHolding, Ends, Goes, TypeOK
    <3> QED BY <1>2, <3>1, <3>2, <3>3, <3>4, <3>5, <3>6, QuietSteps
  <2> QED BY <2>1, <2>2
<1>3. CASE ReceiveS5b
  <2>1. \A d \in Ends : neg'[d].local = neg[d].local /\ neg'[d].heard = neg[d].heard
    BY <1>3, OfferIs DEF ReceiveS5b, Ends
  <2>2. pc["r"] = "embedded" /\ pc' = [pc EXCEPT !["r"] = "accepting"]
    BY <1>3 DEF ReceiveS5b, Goes
  <2> QED BY <2>1, <2>2 DEF Ends, Peer, TypeOK
<1>4. CASE Run
  <2>1. \A d \in Ends : neg'[d].local = neg[d].local /\ neg'[d].heard = neg[d].heard
    BY <1>4, RunIs
  <2>2. pc["i"] = "accepted" /\ \A d \in Ends \ {"i"} : pc'[d] = pc[d]
    BY <1>4 DEF Run, Goes, TypeOK
  <2> QED BY <2>1, <2>2 DEF Ends, Peer
<1>5. ASSUME NEW e \in Ends, Dial(e)
      PROVE  ReportInv'
  <2>1. PICK got \in Cands \cup {"error"} :
          pc[e] = "dialling" /\ Goes(e, "reporting") /\ Tries(e, got)
    BY <1>5, DialIs
  <2>2. neg[e].local = "none" /\ neg[Peer(e)].heard = "none"
    BY <2>1 DEF Ends, Peer, TypeOK, Negotiation
  <2>3. \A d \in Ends : pc'[d] \in Before => d # e /\ pc[d] \in Before
    BY <2>1 DEF Goes, TypeOK
  <2> QED BY <2>1, <2>2, <2>3 DEF Tries, Ends, Peer
<1>6. ASSUME NEW e \in Ends, Deliver(e)
      PROVE  ReportInv'
  <2> DEFINE m == Head(channel[e])
  <2>1. IsTrue(e, m) /\ Hears(e, m)
        /\ (pc' = pc \/ (pc["i"] = "offered" /\ pc' = [pc EXCEPT !["i"] = "accepted"]))
    BY <1>6, DeliverIs
  <2> HIDE DEF m
  <2>2. \A d \in Ends : pc'[d] \in Before => pc[d] \in Before
    BY <2>1 DEF TypeOK, Ends
  <2>3. \A d \in Ends : neg'[d].local = neg[d].local
    BY <2>1 DEF Hears
  <2>4. neg'[e].heard # "none" => neg'[e].heard = neg[Peer(e)].local
    BY <2>1 DEF Hears, IsTrue
  <2>5. \A d \in Ends \ {e} : neg'[d].heard = neg[d].heard
    BY <2>1 DEF Hears
  <2>6. Peer(e) \in Ends /\ \A d \in Ends : Peer(d) \in Ends
    BY DEF Peer, Ends
  <2> QED BY <2>2, <2>3, <2>4, <2>5, <2>6
<1> QED BY <1>1, <1>2, <1>3, <1>4, <1>5, <1>6, StepsAre DEF vars

LEMMA ArmingsKept ==
  ASSUME SessionInv, [Next]_vars
  PROVE  ArmedInv'
<1> USE DEF SessionInv, ArmedInv
<1>0. UNCHANGED setup /\ (armed # "no" => armed' # "no")
  BY StepsGrow DEF Growing
<1>1. CASE UNCHANGED vars
  BY <1>1 DEF vars, OnS5b
<1>2. CASE Quiet
  <2>1. neg' = neg
    BY <1>2, QuietIsQuiet
  <2>2. /\ pc'["i"] = "accepted" => pc["i"] = "accepted"
        /\ pc'["i"] = "ibbOpening" => pc["i"] = "ibbOpening" \/ neg["i"].switched
    <3>1. CASE InitiatorRuns
      BY <3>1 DEF InitiatorRuns, OfferEnds, Offered, WriteAll, Succeeds, Failed, IbbFailed,
        Replaced, InitiatorSwitches, IbbOpens, IbbWriteAll, Ends, Goes, TypeOK
    <3>2. CASE ResponderRuns
      BY <3>2 DEF ResponderRuns, ReceiveIbb, Accepted, ResponderSwitches, ToldAccepted,
        IbbArrives, IncomingEnds, Ends, Goes, TypeOK
    <3>3. CASE IbbFailing \/ ExpectationEnds
      BY <3>3 DEF IbbFailing, IbbFails, ExpectationEnds, Ends, Goes, TypeOK
    <3>4. ASSUME NEW e \in Ends, Decides(e)
          PROVE  /\ pc'["i"] = "accepted" => pc["i"] = "accepted"
                 /\ pc'["i"] = "ibbOpening" => pc["i"] = "ibbOpening"
      BY <3>4 DEF Decides, Reported, DecideFallback, DecideOurs, DecideTheirs, OpenChosen,
        ToldActivated, Activated, Flows, Ends, Goes, TypeOK
    <3>5. ASSUME NEW e \in Ends, Lose(e) \/ Release(e) \/ GivesUpTelling(e)
          PROVE  pc' = pc
      BY <3>5 DEF Lose, Release, GivesUpTelling
    <3>6. ASSUME NEW e \in Ends, NEW sockets \in SUBSET {"dialled", "owned"}, Failing(e, sockets)
          PROVE  /\ pc'["i"] = "accepted" => pc["i"] = "accepted"
                 /\ pc'["i"] = "ibbOpening" => pc["i"] = "ibbOpening"
      BY <3>6 DEF Failing, FailsHolding, Ends, Goes, TypeOK
    <3> QED BY <1>2, <3>1, <3>2, <3>3, <3>4, <3>5, <3>6, QuietSteps
  <2> QED BY <1>0, <2>1, <2>2 DEF OnS5b, setup
<1>3. CASE ReceiveS5b
  <2>1. neg'["i"].switched = neg["i"].switched
    BY <1>3, OfferIs DEF ReceiveS5b, Ends
  <2>2. pc'["i"] = pc["i"]
    BY <1>3 DEF ReceiveS5b, Goes, TypeOK, Ends
  <2> QED BY <1>0, <2>1, <2>2 DEF OnS5b, setup
<1>4. CASE Run
  <2>1. neg'["i"].switched = neg["i"].switched
    BY <1>4, RunIs DEF Ends
  <2>2. pc["i"] = "accepted" /\ pc'["i"] # "accepted" /\ (pc'["i"] = "ibbOpening" => ~OnS5b)
    BY <1>4 DEF Run, Goes, TypeOK, Ends
  <2> QED BY <1>0, <2>1, <2>2
<1>5. ASSUME NEW e \in Ends, Dial(e)
      PROVE  ArmedInv'
  <2>1. PICK got \in Cands \cup {"error"} : Goes(e, "reporting") /\ Tries(e, got)
    BY <1>5, DialIs
  <2>2. neg'["i"].switched = neg["i"].switched
    BY <2>1 DEF Tries, Ends
  <2>3. pc'["i"] \in {pc["i"], "reporting"}
    BY <2>1 DEF Goes, TypeOK, Ends
  <2> QED BY <1>0, <2>2, <2>3 DEF OnS5b, setup
<1>6. ASSUME NEW e \in Ends, Deliver(e)
      PROVE  ArmedInv'
  <2> DEFINE m == Head(channel[e])
  <2>1. /\ m \in Requests(e) /\ IsTrue(e, m) /\ Hears(e, m)
        /\ \/ pc' = pc
           \/ e = "i" /\ m.action = "accept" /\ pc["i"] = "offered" /\ pc' = [pc EXCEPT !["i"] = "accepted"]
    BY <1>6, DeliverIs
  <2> HIDE DEF m
  <2>2. neg'["i"].switched => armed # "no"
    <3>1. CASE e = "i"
      <4>1. m.action # "transport-replace"
        BY <2>1, <3>1 DEF Requests
      <4> QED BY <2>1, <3>1, <4>1 DEF Hears, IsTrue
    <3>2. CASE e # "i"
      BY <2>1, <3>2 DEF Hears, Ends
    <3> QED BY <3>1, <3>2
  <2>3. pc'["i"] = "accepted" /\ ~OnS5b => armed # "no"
    BY <2>1 DEF IsTrue, TypeOK, Ends
  <2>4. pc'["i"] = "ibbOpening" => pc["i"] = "ibbOpening"
    BY <2>1 DEF TypeOK, Ends
  <2> QED BY <1>0, <2>2, <2>3, <2>4 DEF OnS5b, setup
<1> QED BY <1>1, <1>2, <1>3, <1>4, <1>5, <1>6, StepsAre DEF vars

(* What leaves is true. *)
LEMMA EndingIsTrue ==
  /\ [action |-> "terminate", payload |-> Bare] \in TrueRequests("r")'
  /\ [action |-> "transport-replace", payload |-> Bare] \in TrueRequests("r")'
<1>1. \A a \in {"terminate", "transport-replace"} :
        [action |-> a, payload |-> Bare] \in Requests("r")'
  BY DEF Requests
<1>2. \A a \in {"terminate", "transport-replace"} :
        IsTrue("r", [action |-> a, payload |-> Bare])'
  BY DEF IsTrue, IsInfo
<1> QED BY <1>1, <1>2 DEF TrueRequests

LEMMA InfoIsTrue ==
  ASSUME NEW e \in Ends, NEW info \in Infos, info.kind \notin {"candidate-used", "candidate-error"}
  PROVE  [action |-> "transport-info", payload |-> info] \in TrueRequests(e)'
<1> DEFINE m == [action |-> "transport-info", payload |-> info]
<1>1. m \in Requests(e)'
  BY DEF Requests
<1>2. IsTrue(e, m)'
  BY DEF IsTrue, IsInfo
<1> QED BY <1>1, <1>2 DEF TrueRequests

LEMMA TerminatesKeeps ==
  ASSUME ChannelInv, Growing, Terminates
  PROVE  ChannelInv'
BY ChannelGains, EndingIsTrue DEF Terminates, Ends, Peer

LEMMA ChannelsKept ==
  ASSUME SessionInv, [Next]_vars
  PROVE  ChannelInv'
<1> USE DEF SessionInv
<1>0. Growing
  BY StepsGrow
<1>1. CASE UNCHANGED vars
  BY <1>0, <1>1, ChannelStays DEF vars
<1>2. CASE InitiatorRuns
  <2>1. UNCHANGED channel \/ Terminates
    BY <1>2 DEF InitiatorRuns, OfferEnds, Offered, WriteAll, Succeeds, Failed, IbbFailed,
      Replaced, InitiatorSwitches, IbbOpens, IbbWriteAll
  <2> QED BY <1>0, <2>1, ChannelStays, TerminatesKeeps
<1>3. CASE ResponderRuns
  <2>1. CASE ReceiveIbb
    <3>1. Asks("r", "accept", Bare) /\ armed' = "armed" /\ ~OnS5b /\ OnS5b' = OnS5b
      BY <2>1 DEF ReceiveIbb, setup, OnS5b
    <3>2. [action |-> "accept", payload |-> Bare] \in TrueRequests(Peer("r"))'
      BY <3>1 DEF TrueRequests, Requests, IsTrue, IsInfo, Peer
    <3> QED BY <1>0, <3>1, <3>2, ChannelGains DEF Ends
  <2>2. CASE ResponderSwitches
    <3>1. Asks("r", "transport-accept", Bare) /\ armed' = "armed"
      BY <2>2 DEF ResponderSwitches
    <3>2. [action |-> "transport-accept", payload |-> Bare] \in TrueRequests(Peer("r"))'
      BY <3>1 DEF TrueRequests, Requests, IsTrue, IsInfo, Peer
    <3> QED BY <1>0, <3>1, <3>2, ChannelGains DEF Ends
  <2>3. CASE Accepted \/ ToldAccepted \/ IbbArrives \/ IncomingEnds
    BY <1>0, <2>3, ChannelStays DEF Accepted, ToldAccepted, IbbArrives, IncomingEnds
  <2> QED BY <1>3, <2>1, <2>2, <2>3 DEF ResponderRuns
<1>4. CASE IbbFailing \/ ExpectationEnds
  BY <1>0, <1>4, ChannelStays, TerminatesKeeps DEF IbbFailing, IbbFails, ExpectationEnds
<1>5. ASSUME NEW e \in Ends, Decides(e)
      PROVE  ChannelInv'
  <2>1. CASE DecideFallback(e)
    <3>1. UNCHANGED channel \/ Asks("i", "transport-replace", Bare)
      BY <2>1 DEF DecideFallback
    <3> QED BY <1>0, <3>1, ChannelStays, ChannelGains, EndingIsTrue DEF Ends, Peer
  <2>2. CASE OpenChosen(e)
    <3>1. \/ UNCHANGED channel
          \/ Outcome(e) \in Proxies /\ Asks(e, "transport-info", BuildActivated(Outcome(e)))
      BY <2>2 DEF OpenChosen, SendInfo, SendTransportInfo, SendResponderInfo, Ends
    <3>2. ASSUME Outcome(e) \in Proxies
          PROVE  [action |-> "transport-info", payload |-> BuildActivated(Outcome(e))]
                   \in TrueRequests(Peer(e))'
      <4>1. \A c \in Proxies : BuildActivated(c) \in Infos /\ BuildActivated(c).kind = "activated"
        BY DEF BuildActivated, Infos, Proxies, Cands
      <4> QED BY <3>2, <4>1, InfoIsTrue DEF Ends, Peer
    <3> QED BY <1>0, <3>1, <3>2, ChannelStays, ChannelGains
  <2>3. CASE \/ Reported(e) \/ DecideOurs(e) \/ DecideTheirs(e) \/ ToldActivated(e) \/ Activated(e)
    BY <1>0, <2>3, ChannelStays DEF Reported, DecideOurs, DecideTheirs, ToldActivated, Activated
  <2> QED BY <1>5, <2>1, <2>2, <2>3 DEF Decides
<1>6. ASSUME NEW e \in Ends, Lose(e)
      PROVE  ChannelInv'
  BY <1>0, <1>6, ChannelLoses DEF Lose
<1>7. ASSUME NEW e \in Ends, Release(e) \/ GivesUpTelling(e)
      PROVE  ChannelInv'
  BY <1>0, <1>7, ChannelStays DEF Release, GivesUpTelling
<1>8. ASSUME NEW e \in Ends, NEW sockets \in SUBSET {"dialled", "owned"}, Failing(e, sockets)
      PROVE  ChannelInv'
  <2>1. UNCHANGED channel \/ Terminates
    BY <1>8 DEF Failing, FailsHolding
  <2> QED BY <1>0, <2>1, ChannelStays, TerminatesKeeps
<1>9. CASE ReceiveS5b
  <2>1. Asks("r", "accept", BuildTransport(hosts["r"])) /\ OnS5b /\ OnS5b' = OnS5b
    BY <1>9 DEF ReceiveS5b, setup, OnS5b
  <2>2. BuildTransport(hosts["r"]) \in [kind : {"candidates"}, cands : SUBSET Cands]
    BY DEF BuildTransport, TypeOK, Ends
  <2>3. [action |-> "accept", payload |-> BuildTransport(hosts["r"])] \in TrueRequests(Peer("r"))'
    BY <2>1, <2>2 DEF TrueRequests, Requests, IsTrue, IsInfo, Peer
  <2> QED BY <1>0, <2>1, <2>3, ChannelGains DEF Ends
<1>10. CASE Run
  <2>1. UNCHANGED channel \/ Asks("i", "transport-info", BuildTransport(hosts["i"]))
    BY <1>10 DEF Run, SendTransportInfo
  <2>2. BuildTransport(hosts["i"]) \in Infos /\ BuildTransport(hosts["i"]).kind = "candidates"
    BY DEF BuildTransport, TypeOK, Ends, Infos
  <2>3. [action |-> "transport-info", payload |-> BuildTransport(hosts["i"])] \in TrueRequests("r")'
    BY <2>2, InfoIsTrue DEF Ends
  <2> QED BY <1>0, <2>1, <2>3, ChannelStays, ChannelGains DEF Ends, Peer
<1>11. ASSUME NEW e \in Ends, Dial(e)
       PROVE  ChannelInv'
  <2>1. PICK got \in Cands \cup {"error"} :
          pc[e] = "dialling" /\ Tries(e, got) /\ Asks(e, "transport-info", Report(got))
    BY <1>11, DialIs
  <2>2. neg'[e].local = got
    BY <2>1 DEF Tries, ReportInv, Before
  <2>3. Report(got) = IF got = "error" THEN [kind |-> "candidate-error"]
                      ELSE [kind |-> "candidate-used", cid |-> got]
    BY DEF Report, BuildCandidateError, BuildCandidateUsed
  <2> DEFINE m == [action |-> "transport-info", payload |-> Report(got)]
  <2>4. m \in Requests(Peer(e))'
    BY <2>3 DEF Requests, Infos
  <2>5. Peer(Peer(e)) = e
    BY DEF Peer, Ends
  <2>6. IsTrue(Peer(e), m)'
    BY <2>2, <2>3, <2>5 DEF IsTrue, IsInfo, Cands
  <2> QED BY <1>0, <2>1, <2>4, <2>6, ChannelGains DEF TrueRequests
<1>12. ASSUME NEW e \in Ends, Deliver(e)
       PROVE  ChannelInv'
  BY <1>0, <1>12, DeliverIs, ChannelLoses
<1> QED BY <1>1, <1>2, <1>3, <1>4, <1>5, <1>6, <1>7, <1>8, <1>9, <1>10, <1>11, <1>12, StepsAre, QuietSteps

-----------------------------------------------------------------------------
(* For every set of scenarios, every choice of adapters and candidates,    *)
(* and however requests are lost, refused, answered late or cross: the     *)
(* inductive invariant from which the properties follow.                   *)
THEOREM SessionIsSound == Spec => []SessionInv
<1>1. Init => SessionInv
  BY InitSound
<1>2. SessionInv /\ [Next]_vars => SessionInv'
  <2>1. SUFFICES ASSUME SessionInv, [Next]_vars PROVE SessionInv'
    OBVIOUS
  <2>2. TypeOK /\ ChannelInv /\ PlaceInv /\ HeldInv
    BY <2>1 DEF SessionInv
  <2> QED BY <2>1, <2>2, TypesKept, ChannelsKept, ReportsKept, ArmingsKept, PlacesKept, HoldingsKept
          DEF SessionInv
<1> QED BY <1>1, <1>2, PTL DEF Spec

(* Negotiations, requests' answers and sockets have the shapes the code    *)
(* gives them.                                                             *)
THEOREM TypeCorrect == Spec => []TypeOK
<1>1. SessionInv => TypeOK
  BY DEF SessionInv
<1> QED BY <1>1, SessionIsSound, PTL

(* S5bNegotiation.resolve() names the same winner on both sides, or        *)
(* neither connected: src/jingle/s5b-negotiation.ts.                       *)
THEOREM BothSidesAgree == Spec => []Agreement
<1>1. SessionInv => Agreement
  <2>1. SUFFICES ASSUME SessionInv, "none" \notin {Outcome(e) : e \in Ends}
                 PROVE  Outcome("i") = Outcome("r")
    BY DEF Agreement
  <2>2. Outcome("i") # "none" /\ Outcome("r") # "none"
    BY <2>1 DEF Ends
  <2> DEFINE a == neg["i"].local
             b == neg["r"].local
  <2>3. a # "none" /\ neg["i"].heard # "none" /\ b # "none" /\ neg["r"].heard # "none"
    BY <2>2 DEF Outcome
  <2>4. neg["i"].heard = b /\ neg["r"].heard = a
    BY <2>1, <2>3 DEF SessionInv, ReportInv, Ends, Peer
  <2>5. a \in Reports /\ b \in Reports
    BY <2>1 DEF SessionInv, TypeOK, Negotiation, Ends
  <2>6. Outcome("i") = Resolve("i", a, b) /\ Outcome("r") = Resolve("r", b, a)
    BY <2>3, <2>4 DEF Outcome
  <2> HIDE DEF a, b
  <2> QED BY <2>1, <2>3, <2>5, <2>6, ResolveAgrees DEF SessionInv, a, b
<1> QED BY <1>1, SessionIsSound, PTL

(* No <open> leaves before the responder expects it, at the session's      *)
(* start and after a transport-replace: src/jingle/jingle.ts.              *)
THEOREM ArmedFirst == Spec => []ArmedBeforeOpen
<1>1. SessionInv => ArmedBeforeOpen
  BY DEF SessionInv, ArmedInv, ArmedBeforeOpen
<1> QED BY <1>1, SessionIsSound, PTL

(* Of the connections a side dialled it keeps the winner's alone, and      *)
(* lets go of that too when it fails, but for a proxy that was activated   *)
(* in vain.                                                                *)
THEOREM OnlyTheWinnerIsHeld == Spec => []LosersLetGo
<1>1. SessionInv => LosersLetGo
  <2>1. SUFFICES ASSUME SessionInv, NEW e \in Ends
                 PROVE  /\ "owned" \in held[e] => Outcome(e) \in Cands /\ held[e] = {"owned"}
                        /\ "dialled" \in held[e] => pc[e] \in {"reporting", "deciding"}
                        /\ pc[e] = "failed" /\ held[e] # {} => Outcome(e) \in Proxies
    BY DEF LosersLetGo
  <2>2. held[e] \subseteq {"dialled", "owned"}
    BY <2>1 DEF SessionInv, TypeOK
  <2>3. "owned" \in held[e] => "dialled" \notin held[e]
    BY <2>1 DEF SessionInv, HeldInv
  <2> QED BY <2>1, <2>2, <2>3 DEF SessionInv, HeldInv
<1> QED BY <1>1, SessionIsSound, PTL
=============================================================================
