---------------------------- MODULE SipubTransfer ----------------------------
(***************************************************************************)
(* One published body and the retrieval of it (src/sipub/sipub.ts), with   *)
(* the SOCKS5 adapters of both sides (src/node/socks5.ts).  The retriever  *)
(* asks <start>, the publisher answers <starting> and offers a stream (SI) *)
(* a macrotask later; the retriever arms an in-band expectation and, if    *)
(* both have an adapter, a SOCKS5 one for the same sid.  The publisher     *)
(* tries SOCKS5 and falls through to IBB on any failure of it.             *)
(*                                                                         *)
(* Requests and answers travel in two FIFO queues, one per direction.  A   *)
(* carrier (a direct connection, one through the publisher's proxy, or the *)
(* IBB stream) is the sequence of units written to it and how it ended;    *)
(* IbbStream models what happens inside an IBB stream.  The names are its  *)
(* own, apart from those of Socks5Adapter, so that one module can extend   *)
(* both and prove about both.                                              *)
(*                                                                         *)
(* A definition whose comment starts with "Mutant" is no part of the       *)
(* specification: it is the definition that follows it, with a bug the     *)
(* properties must catch.                                                  *)
(***************************************************************************)
EXTENDS Naturals, Sequences, FiniteSets

CONSTANTS
  Units,         \* bound: units of the body
  SocketBuffer,  \* units a connection holds that nobody has read
  Troubles       \* sets of TransferFaults: what may go wrong in one retrieval

TransferFaults ==
  {"timeout", "lost", "replay", "withdrawn", "listen", "lookup", "unreachable", "activation",
   "hangup", "write", "body", "cancel", "release"}

ASSUME SipubAssumption ==
  Units \in Nat /\ SocketBuffer \in Nat \ {0} /\ Troubles \subseteq SUBSET TransferFaults

Paths    == {"direct", "proxy"}
Carriers == Paths \cup {"ibb"}

VARIABLES
  retrieval,  \* [faults, adapters, hosts, body], see Retrievals
  pub,        \* the publication: "live", "consumed" or "gone" from #publications
  transfers,  \* transfers started for it
  pp,         \* where #runPublisherTransfer is
  used,       \* the streamhost-used of the reply
  opened,     \* calls of body.open()
  unit,       \* the unit the body's stream yields next
  broken,     \* a write, the body or the proxy failed (no part of the code)
  direct,     \* the publisher's entry in pendingDirect
  carrier,    \* per carrier: the units written to it, and how it ended; "cut" by the proxy
  rp,         \* where the retriever's read is
  offer,      \* the SI offer at the retriever: "none", "expected", "parked" or "over"
  s5,         \* the entry of #s5Expectations
  dialling,   \* connect(): the candidates it has left, or NotDialling
  ibb,        \* the retriever's expectIncoming(): "none", "armed", "met" or "over"
  settled,    \* what its stream promise settled on: "no", a carrier or "failed"
  got,        \* the units it read
  toPub,      \* stanzas on their way to the publisher
  toRet       \* and to the retriever

pubVars  == <<pub, transfers, pp, used, opened, unit, broken>>
retVars  == <<rp, offer, s5, dialling, ibb, settled, got>>
links    == <<direct, carrier>>
sipubVars == <<retrieval, pubVars, links, retVars, toPub, toRet>>

Troubled(kind) == kind \in retrieval.faults

(* A body of bytes is streamed afresh by every open(); one that is a       *)
(* stream goes on where it was left.                                       *)
Retrievals ==
  [faults : Troubles, adapters : SUBSET {"pub", "ret"}, hosts : SUBSET Paths,
   body : {"bytes", "stream"}]

NotDialling == {"none"}

SipubInit ==
  /\ retrieval \in Retrievals
  /\ pub = "live" /\ transfers = 0 /\ pp = "none" /\ used = "none"
  /\ opened = 0 /\ unit = 1 /\ broken = FALSE
  /\ direct = "none" /\ carrier = [c \in Carriers |-> [units |-> <<>>, over |-> "no"]]
  /\ rp = "idle" /\ offer = "none" /\ s5 = FALSE /\ dialling = NotDialling
  /\ ibb = "none" /\ settled = "no" /\ got = <<>>
  /\ toPub = <<>> /\ toRet = <<>>

TellPub(m) == toPub' = Append(toPub, m)
TellRet(m) == toRet' = Append(toRet, m)
PubHears(kind) == toPub # <<>> /\ Head(toPub)[1] = kind
RetHears(kind) == toRet # <<>> /\ Head(toRet)[1] = kind

-----------------------------------------------------------------------------
(* The publisher. *)

OnStartIf(free) ==
  /\ PubHears("start") /\ toPub' = Tail(toPub)
  /\ IF free
     THEN /\ pub' = "consumed" /\ pp' = "scheduled" /\ transfers' = transfers + 1
          /\ TellRet(<<"starting">>)
     ELSE TellRet(<<"start refused">>) /\ UNCHANGED <<pub, pp, transfers>>
  /\ UNCHANGED <<retrieval, used, opened, unit, broken, links, retVars>>

(* Mutant: a publication can be started over. *)
OnStartAgain == OnStartIf(pub # "gone")

(* #onStart() *)
OnStart == OnStartIf(pub = "live")

(* The TTL, cancel(), or another retrieval of it, comes first. *)
Withdraw ==
  /\ Troubled("withdrawn") /\ pub # "gone"
  /\ pub' = "gone"
  /\ UNCHANGED <<retrieval, transfers, pp, used, opened, unit, broken, links, retVars, toPub, toRet>>

(* The step from `from` to `to`, which touches the coroutine alone. *)
PubStep(from, to) ==
  /\ pp = from /\ pp' = to
  /\ UNCHANGED <<retrieval, pub, transfers, used, opened, unit, broken, links, retVars, toPub>>

SendOffer == PubStep("scheduled", "offering") /\ TellRet(<<"offer">>)

(* Every failure of SOCKS5 ends in IBB; what else fails ends the transfer. *)
Thrown == IF pp \in {"gathering", "lookup", "querying", "opening", "activating", "writing"}
          THEN "ibbOpen" ELSE "failed"

(* The chosen method, or a refusal. *)
OfferAnswered ==
  /\ PubHears("offer answer") /\ toPub' = Tail(toPub)
  /\ pp' = IF pp # "offering" THEN pp
           ELSE CASE Head(toPub)[2] = "s5b" -> "gathering"
                  [] Head(toPub)[2] = "ibb" -> "ibbOpen"
                  [] OTHER                  -> "failed"
  /\ UNCHANGED <<retrieval, pub, transfers, used, opened, unit, broken, links, retVars, toRet>>

(* candidatesFor(): listen and register, then look the proxy up. *)
GatherDirect ==
  /\ pp = "gathering" /\ pp' = "lookup"
  /\ \/ "direct" \in retrieval.hosts /\ direct' = "waiting"
     \/ ("direct" \notin retrieval.hosts \/ Troubled("listen")) /\ UNCHANGED direct
  /\ UNCHANGED <<retrieval, pub, transfers, used, opened, unit, broken, carrier, retVars, toPub, toRet>>

(* Its own connection is offered although its timer may have run out. *)
Query(proxies) ==
  LET candidates == proxies \cup IF direct = "none" THEN {} ELSE {"direct"} IN
  /\ pp = "lookup"
  /\ IF candidates = {} THEN pp' = "ibbOpen" /\ UNCHANGED toRet
     ELSE pp' = "querying" /\ TellRet(<<"query", candidates>>)
  /\ UNCHANGED <<retrieval, pub, transfers, used, opened, unit, broken, links, retVars, toPub>>

GatherProxy ==
  \/ "proxy" \in retrieval.hosts /\ Query({"proxy"})
  \/ ("proxy" \notin retrieval.hosts \/ Troubled("lookup")) /\ Query({})

(* The registration's timer: connectTimeoutMs from before the lookup. *)
DirectTimer ==
  /\ Troubled("timeout") /\ direct = "waiting"
  /\ direct' = "expired"
  /\ UNCHANGED <<retrieval, pubVars, carrier, retVars, toPub, toRet>>

QueryAnswered ==
  /\ PubHears("query answer") /\ toPub' = Tail(toPub)
  /\ IF pp # "querying" THEN UNCHANGED <<pp, used>>
     ELSE IF Head(toPub)[2] = "refused" THEN pp' = Thrown /\ UNCHANGED used
     ELSE pp' = "opening" /\ used' = Head(toPub)[2]
  /\ UNCHANGED <<retrieval, pub, transfers, opened, unit, broken, links, retVars, toRet>>

(* openChosen(): our own connection is there once its promise is; the      *)
(* proxy we may not reach, or it may not activate.                         *)
OpenDirect ==
  /\ pp = "opening" /\ used = "direct"
  /\ pp' = IF direct = "claimed" THEN "writing" ELSE Thrown
  /\ direct' = "none"
  /\ UNCHANGED <<retrieval, pub, transfers, used, opened, unit, broken, carrier, retVars, toPub, toRet>>

OpenProxy ==
  /\ used = "proxy"
  /\ \/ PubStep("opening", "activating")
     \/ Troubled("activation") /\ PubStep("opening", Thrown)
  /\ UNCHANGED toRet

ActivateProxy ==
  /\ \/ PubStep("activating", "writing")
     \/ /\ Troubled("activation") \/ carrier["proxy"].over = "cut"
        /\ PubStep("activating", Thrown)
  /\ UNCHANGED toRet

OpenIbb == PubStep("ibbOpen", "ibbOpening") /\ TellRet(<<"open">>)

OpenAnswered ==
  /\ PubHears("open answer") /\ toPub' = Tail(toPub)
  /\ pp' = IF pp # "ibbOpening" THEN pp ELSE IF Head(toPub)[2] = "ok" THEN "ibbWriting" ELSE "failed"
  /\ UNCHANGED <<retrieval, pub, transfers, used, opened, unit, broken, links, retVars, toRet>>

Out     == IF pp \in {"writing", "streaming"} THEN used ELSE "ibb"
Unread  == Len(carrier[Out].units) - IF settled = Out THEN Len(got) ELSE 0
Streams == {"streaming", "ibbStreaming"}

(* #writeBody(): body.open(), *)
OpenBody ==
  /\ pp \in {"writing", "ibbWriting"}
  /\ pp' = IF pp = "writing" THEN "streaming" ELSE "ibbStreaming"
  /\ opened' = opened + 1
  /\ unit' = IF retrieval.body = "bytes" THEN 1 ELSE unit
  /\ UNCHANGED <<retrieval, pub, transfers, used, broken, links, retVars, toPub, toRet>>

(* each part written, as far as there is room; what a proxy that has hung  *)
(* up does not take is lost, and the socket tells the writer later,        *)
WriteUnit ==
  /\ pp \in Streams /\ unit <= Units
  /\ Unread < SocketBuffer
  /\ carrier' = IF carrier[Out].over = "no" THEN [carrier EXCEPT ![Out].units = Append(@, unit)]
                ELSE carrier
  /\ unit' = unit + 1
  /\ UNCHANGED <<retrieval, pub, transfers, pp, used, opened, broken, direct, retVars, toPub, toRet>>

CarrierEnds(c, how) == carrier' = [carrier EXCEPT ![c].over = IF @ = "no" THEN how ELSE @]

ClosesAfter(n) ==
  /\ pp \in Streams /\ unit > n
  /\ CarrierEnds(Out, "end")
  /\ pp' = "done" /\ pub' = "gone"
  /\ UNCHANGED <<retrieval, transfers, used, opened, unit, broken, direct, retVars, toPub, toRet>>

(* Mutant: the last part is not awaited. *)
CloseBodyEarly == ClosesAfter(Units - 1)

(* and close().                                                            *)
CloseBody == ClosesAfter(Units)

(* The reader left, the carrier broke (its part is lost), the body threw,  *)
(* or nobody reads the IBB stream until its deadlines: abort().  To the    *)
(* reader an abort can look like an end.                                   *)
WriteFails ==
  /\ pp \in Streams
  /\ \/ Troubled("body") /\ UNCHANGED unit
     \/ /\ \/ rp = "cancelled" \/ Troubled("write") \/ carrier[Out].over = "cut"
           \/ Out = "ibb" /\ settled # "ibb"
        /\ unit <= Units /\ unit' = unit + 1
  /\ pp' = IF pp = "streaming" THEN "ibbOpen" ELSE "failed"
  /\ broken' = TRUE
  /\ \E how \in {"end", "reset"} : CarrierEnds(Out, how)
  /\ UNCHANGED <<retrieval, pub, transfers, used, opened, direct, retVars, toPub, toRet>>

(* .catch(onError).finally(delete) *)
Finished ==
  /\ pp = "failed" /\ pub # "gone"
  /\ pub' = "gone"
  /\ UNCHANGED <<retrieval, transfers, pp, used, opened, unit, broken, links, retVars, toPub, toRet>>

(* A request of the publisher meets its deadline. *)
PubTimeout ==
  /\ Troubled("timeout")
  /\ \/ PubStep("offering", "failed") \/ PubStep("querying", Thrown)
     \/ PubStep("activating", Thrown) \/ PubStep("ibbOpening", "failed")
  /\ UNCHANGED toRet

-----------------------------------------------------------------------------
(* The retriever. *)

(* The stream promise of #acceptOffer settles once. *)
Settle(how) == settled' = IF settled = "no" THEN how ELSE settled

Retrieve ==
  /\ rp = "idle" /\ rp' = "asking"
  /\ toPub' = toPub \o IF Troubled("replay") THEN <<<<"start">>, <<"start">>>> ELSE <<<<"start">>>>
  /\ UNCHANGED <<retrieval, pubVars, links, offer, s5, dialling, ibb, settled, got, toRet>>

(* <starting>, or a refusal; the read goes on in a later turn.             *)
StartAnswered ==
  /\ RetHears("starting") \/ RetHears("start refused")
  /\ toRet' = Tail(toRet)
  /\ rp' = IF rp # "asking" THEN rp ELSE IF RetHears("starting") THEN "told" ELSE "errored"
  /\ UNCHANGED <<retrieval, pubVars, links, offer, s5, dialling, ibb, settled, got, toPub>>

UseBytestreams == retrieval.adapters = {"pub", "ret"}

AcceptArming(armed) ==
  /\ offer' = "over" /\ rp' = IF rp \in {"told", "awaiting"} THEN "reading" ELSE rp
  /\ s5' = UseBytestreams /\ ibb' = armed
  /\ TellPub(<<"offer answer", IF UseBytestreams THEN "s5b" ELSE "ibb">>)
  /\ UNCHANGED <<retrieval, pubVars, links, dialling, settled, got>>

(* Mutant: the in-band expectation is not armed next to the SOCKS5 one. *)
AcceptOneMethod == AcceptArming(IF UseBytestreams THEN ibb ELSE "armed")

(* #acceptOffer(): armed before the answer leaves. *)
AcceptOffer == AcceptArming("armed")

(* #awaitOffer() *)
AwaitOffer ==
  /\ rp = "told"
  /\ \/ offer = "parked" /\ AcceptOffer /\ UNCHANGED toRet
     \/ /\ offer = "none" /\ offer' = "expected" /\ rp' = "awaiting"
        /\ UNCHANGED <<retrieval, pubVars, links, s5, dialling, ibb, settled, got, toPub, toRet>>

(* Mutant: an offer that comes first is refused. *)
OnSiOfferNow ==
  /\ RetHears("offer") /\ toRet' = Tail(toRet)
  /\ \/ offer = "expected" /\ AcceptOffer
     \/ /\ offer # "expected" /\ TellPub(<<"offer answer", "refused">>)
        /\ UNCHANGED <<retrieval, pubVars, links, retVars>>

(* #onSiOffer() *)
OnSiOffer ==
  /\ RetHears("offer") /\ toRet' = Tail(toRet)
  /\ \/ offer = "expected" /\ AcceptOffer
     \/ /\ offer # "expected" /\ offer' = "parked"
        /\ UNCHANGED <<retrieval, pubVars, links, rp, s5, dialling, ibb, settled, got, toPub>>

(* #onBytestreamsQuery() *)
OnQuery ==
  /\ RetHears("query") /\ toRet' = Tail(toRet)
  /\ IF s5 THEN dialling' = Head(toRet)[2] /\ UNCHANGED toPub
     ELSE TellPub(<<"query answer", "refused">>) /\ UNCHANGED dialling
  /\ UNCHANGED <<retrieval, pubVars, links, rp, offer, s5, ibb, settled, got>>

Candidate == IF "direct" \in dialling THEN "direct" ELSE "proxy"
Dialling  == dialling \notin {NotDialling, {}}

(* connect() reached a streamhost; the publisher's own one claims its      *)
(* registration, if it is still there.                                     *)
Connected ==
  /\ Dialling
  /\ Candidate = "direct" => direct = "waiting"
  /\ direct' = IF Candidate = "direct" THEN "claimed" ELSE direct
  /\ dialling' = NotDialling /\ s5' = FALSE
  /\ Settle(Candidate)
  /\ TellPub(<<"query answer", Candidate>>)
  /\ UNCHANGED <<retrieval, pubVars, carrier, rp, offer, ibb, got, toRet>>

(* It did not, or was turned away there: the next one. *)
NextCandidate ==
  /\ Dialling
  /\ Troubled("unreachable") \/ (Candidate = "direct" /\ direct # "waiting")
  /\ dialling' = dialling \ {Candidate}
  /\ UNCHANGED <<retrieval, pubVars, links, rp, offer, s5, ibb, settled, got, toPub, toRet>>

NoCandidateLeft ==
  /\ dialling = {}
  /\ dialling' = NotDialling /\ s5' = FALSE
  /\ TellPub(<<"query answer", "refused">>)
  /\ UNCHANGED <<retrieval, pubVars, links, rp, offer, ibb, settled, got, toRet>>

(* The <open> meets the expectation. *)
OnIbbOpen ==
  /\ RetHears("open") /\ toRet' = Tail(toRet)
  /\ IF ibb = "armed"
     THEN ibb' = "met" /\ s5' = FALSE /\ Settle("ibb") /\ TellPub(<<"open answer", "ok">>)
     ELSE TellPub(<<"open answer", "refused">>) /\ UNCHANGED <<ibb, s5, settled>>
  /\ UNCHANGED <<retrieval, pubVars, links, rp, offer, dialling, got>>

ReadUnit ==
  /\ rp = "reading" /\ settled \in Carriers
  /\ Len(got) < Len(carrier[settled].units)
  /\ got' = Append(got, carrier[settled].units[Len(got) + 1])
  /\ UNCHANGED <<retrieval, pubVars, links, rp, offer, s5, dialling, ibb, settled, toPub, toRet>>

(* Any "end" of the socket ends the stream cleanly, whoever ended it: the  *)
(* writer behind its last unit, or the proxy before it.                    *)
ReadEnds ==
  /\ rp = "reading"
  /\ \/ settled = "failed" /\ rp' = "errored"
     \/ /\ settled \in Carriers
        /\ \/ carrier[settled].over = "end" /\ Len(got) = Len(carrier[settled].units) /\ rp' = "ended"
           \/ carrier[settled].over = "reset" /\ rp' = "errored"
           \/ carrier[settled].over = "cut" /\ rp' \in {"ended", "errored"}
  /\ UNCHANGED <<retrieval, pubVars, links, offer, s5, dialling, ibb, settled, got, toPub, toRet>>

(* The consumer cancels what it reads. *)
ReaderCancels ==
  /\ Troubled("cancel") /\ rp = "reading" /\ settled \in Carriers
  /\ rp' = "cancelled"
  /\ UNCHANGED <<retrieval, pubVars, links, offer, s5, dialling, ibb, settled, got, toPub, toRet>>

(* The deadlines of the retriever, and those it keeps for the publisher.   *)
ExpectationOver == ibb' = "over" /\ s5' = FALSE /\ Settle("failed")

RetTimeout ==
  /\ Troubled("timeout")
  /\ \/ /\ rp = "asking" /\ rp' = "errored"
        /\ UNCHANGED <<offer, s5, ibb, settled, toPub>>
     \/ /\ rp = "awaiting" /\ rp' = "errored" /\ offer' = "none"
        /\ UNCHANGED <<s5, ibb, settled, toPub>>
     \/ /\ offer = "parked" /\ offer' = "none"
        /\ TellPub(<<"offer answer", "refused">>)
        /\ UNCHANGED <<rp, s5, ibb, settled>>
     \/ /\ ibb = "armed" /\ ExpectationOver
        /\ UNCHANGED <<rp, offer, toPub>>
  /\ UNCHANGED <<retrieval, pubVars, links, dialling, got, toRet>>

-----------------------------------------------------------------------------
(* release() on either side: the running coroutines go on. *)
ReleasePub ==
  /\ Troubled("release") /\ pub # "gone"
  /\ pub' = "gone"
  /\ direct' = IF direct = "none" THEN "none" ELSE "expired"
  /\ UNCHANGED <<retrieval, transfers, pp, used, opened, unit, broken, carrier, retVars, toPub, toRet>>

ReleaseRet ==
  /\ Troubled("release") /\ (offer = "expected" \/ s5 \/ ibb = "armed")
  /\ rp' = IF offer = "expected" THEN "errored" ELSE rp
  /\ offer' = IF offer = "expected" THEN "none" ELSE offer
  /\ IF ibb = "armed" THEN ExpectationOver ELSE s5' = FALSE /\ UNCHANGED <<ibb, settled>>
  /\ UNCHANGED <<retrieval, pubVars, links, dialling, got, toPub, toRet>>

Lose ==
  /\ Troubled("lost")
  /\ \/ toPub # <<>> /\ toPub' = Tail(toPub) /\ UNCHANGED toRet
     \/ toRet # <<>> /\ toRet' = Tail(toRet) /\ UNCHANGED toPub
  /\ UNCHANGED <<retrieval, pubVars, links, retVars>>

(* The proxy (external) gives up a connection it was never asked to        *)
(* activate, or cuts one: both sides' sockets end or are reset, and the    *)
(* retriever need not get what it has not read.                            *)
ProxyHangsUp ==
  /\ Troubled("hangup") /\ "proxy" \in {used, settled}
  /\ carrier["proxy"].over = "no"
  /\ CarrierEnds("proxy", "cut") /\ broken' = TRUE
  /\ UNCHANGED <<retrieval, pub, transfers, pp, used, opened, unit, direct, retVars, toPub, toRet>>

-----------------------------------------------------------------------------
Publisher ==
  \/ OnStart \/ SendOffer \/ OfferAnswered \/ GatherDirect \/ GatherProxy \/ QueryAnswered
  \/ OpenDirect \/ OpenProxy \/ ActivateProxy \/ OpenIbb \/ OpenAnswered
  \/ OpenBody \/ WriteUnit \/ CloseBody \/ WriteFails \/ Finished

Retriever ==
  \/ StartAnswered \/ AwaitOffer \/ OnSiOffer \/ OnQuery \/ Connected \/ NextCandidate
  \/ NoCandidateLeft \/ OnIbbOpen \/ ReadUnit \/ ReadEnds

SipubNext ==
  \/ Retrieve \/ Publisher \/ Retriever
  \/ Withdraw \/ DirectTimer \/ PubTimeout \/ RetTimeout \/ ReaderCancels
  \/ ReleasePub \/ ReleaseRet \/ Lose \/ ProxyHangsUp

(* Code runs on, stanzas arrive, the consumer reads, timers fire. *)
SipubFairness ==
  /\ WF_sipubVars(Publisher) /\ WF_sipubVars(Retriever)
  /\ WF_sipubVars(PubTimeout) /\ WF_sipubVars(RetTimeout)

SipubSpec     == SipubInit /\ [][SipubNext]_sipubVars
SipubFairSpec == SipubSpec /\ SipubFairness

-----------------------------------------------------------------------------
RetDone == {"ended", "errored", "cancelled"}

(* A publication serves one transfer, whatever replays of its <start>, its *)
(* expiry and cancel() do.                                                 *)
SipubTypeOK ==
  /\ retrieval \in Retrievals
  /\ pub \in {"live", "consumed", "gone"} /\ transfers \in 0..1
  /\ pp \in {"none", "scheduled", "offering", "gathering", "lookup", "querying", "opening",
             "activating", "writing", "streaming", "ibbOpen", "ibbOpening", "ibbWriting",
             "ibbStreaming", "done", "failed"}
  /\ used \in Paths \cup {"none"} /\ opened \in 0..2 /\ unit \in 1..Units + 1 /\ broken \in BOOLEAN
  /\ direct \in {"none", "waiting", "claimed", "expired"}
  /\ \A c \in Carriers : carrier[c].units \in Seq(1..Units) /\ carrier[c].over \in {"no", "end", "reset", "cut"}
  /\ rp \in RetDone \cup {"idle", "asking", "told", "awaiting", "reading"}
  /\ offer \in {"none", "expected", "parked", "over"} /\ s5 \in BOOLEAN
  /\ dialling \subseteq Paths \/ dialling = NotDialling
  /\ ibb \in {"none", "armed", "met", "over"}
  /\ settled \in Carriers \cup {"no", "failed"} /\ got \in Seq(1..Units)

Body == [n \in 1..Units |-> n]

(* A read that ends cleanly has the whole body, in order, unless a write,  *)
(* the body itself or the proxy failed: no race of the two carriers, and   *)
(* no fallback between them, splices or cuts it.  After one of those three *)
(* failures a clean end says nothing: readableFromSocket() closes its      *)
(* stream at any "end" of the socket.                                      *)
EndedMeansWhole == rp = "ended" /\ ~broken => got = Body

(* SOCKS5 comes to nothing before anything was connected: no listener, no  *)
(* proxy, nobody reachable.                                                *)
NothingConnects == retrieval.faults \subseteq {"listen", "lookup", "unreachable", "replay"}

(* Then the body arrives whole, over the one carrier or the other, with no *)
(* timer's help.                                                           *)
FallbackDelivers ==
  NothingConnects /\ rp = "asking" ~> rp = "ended" /\ got = Body

(* A connection that the retriever made after it had given up: nobody      *)
(* reads it, and nobody closes it.                                         *)
Stranded == pp = "streaming" /\ settled # used

(* Whatever is withdrawn, refused, lost or late, the publisher's transfer  *)
(* ends and forgets the publication, unless it writes to such a            *)
(* connection.  The read ends too, while no answer comes too late and the  *)
(* proxy that was reached works: a connection has no watchdog.             *)
EveryoneFinishes ==
  /\ pp = "scheduled" ~> (pub = "gone" /\ pp \in {"done", "failed"}) \/ Stranded
  /\ (rp = "asking" /\ retrieval.faults \cap {"timeout", "activation", "lost"} = {}) ~> rp \in RetDone
=============================================================================
