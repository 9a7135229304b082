------------------------------ MODULE IbbStream ------------------------------
(***************************************************************************)
(* One plain in-band bytestream of src/ibb/ibb.ts, end to end: the sender  *)
(* (openOutgoing, #createOutStream), the XMPP stream between, and the      *)
(* receiver (expectIncoming, #onOpen, #onData, #onClose, #createInStream). *)
(*                                                                         *)
(* Blocks are numbered by their `dispatched` ordinal; every write() is a   *)
(* full block, and a block leaves when the stream's own window has room:   *)
(* the session's scheduler and sub-block remainders are in IbbScheduler.   *)
(* The network delivers stanzas in order; a resumed session (XEP-0198)     *)
(* replays the ones the server had not seen acknowledged, and a session    *)
(* that could not be resumed has lost some.  Timers may fire whenever they *)
(* are armed: IbbPatience says when they should.                           *)
(*                                                                         *)
(* A definition whose comment starts with "Mutant" is no part of the       *)
(* specification: it is the definition that follows it, with a bug the     *)
(* properties must catch.                                                  *)
(***************************************************************************)
EXTENDS Integers, Sequences, FiniteSets

CONSTANTS
  Plans,             \* what the application and the world do in one stream's life, see Plan
  MaxBlocks,         \* bound: blocks a plan may write
  Window,            \* the stream's window
  SeqMod,            \* seq is a counter modulo this (65536)
  RedeliveryWindow,  \* REDELIVERY_WINDOW (64)
  HighWater,         \* blocks buffered at which desiredSize reaches 0
  MaxResumes,        \* bound: resumptions of the session
  ReplayDepth        \* stanzas the server may replay at a resumption

FaultKinds == {"timeout", "abort", "cancel", "release", "loss"}

Plan == [blocks : 0..MaxBlocks, resumes : 0..MaxResumes, faults : SUBSET FaultKinds]

ASSUME StreamAssumption ==
  /\ MaxBlocks \in Nat /\ Window \in Nat \ {0} /\ HighWater \in Nat \ {0}
  /\ MaxResumes \in Nat /\ ReplayDepth \in Nat /\ RedeliveryWindow \in Nat
  /\ SeqMod \in Nat /\ SeqMod > Window + RedeliveryWindow
  /\ SeqMod > ReplayDepth
  /\ Plans \subseteq Plan

VARIABLES
  plan,        \* the plan of this stream
  open,        \* openOutgoing(): "no", "asked", "open" or "refused"
  written,     \* blocks handed to write()
  dispatched,  \* blocks sent
  answer,      \* per block: "none", "pending", "acked", "refused" or "timeout"
  failed,      \* the ordinal `failed` is latched to, or NotFailed
  closing,     \* close(): "no", "draining", "sent", "resolved" or "rejected"
  wire,        \* every stanza sent to the receiver
  next,        \* how many of them the network is past
  arrived,     \* and how many it was past at the furthest
  resumes,     \* resumptions so far
  replies,     \* IQ answers on their way back
  expectation, \* "none", "registered" or "over"
  parked,      \* the <open> is in #parkedOpens
  registered,  \* the stream is in #inStreams, and not finished
  expectedSeq,
  taken,       \* blocks given to the reader's queue, in order
  read,        \* how many of them the consumer has read
  withheld,    \* ordinals whose #onData handlers await a pull
  reader,      \* what the consumer sees: "none", "open", "ended" or "errored", or it "cancelled"
  mismatch     \* the stream was killed for its seq

senderVars   == <<open, written, dispatched, answer, failed, closing>>
netVars      == <<plan, wire, next, arrived, resumes>>
receiverVars == <<expectation, parked, registered, expectedSeq, taken, read, withheld,
                  reader, mismatch>>
vars         == <<senderVars, netVars, replies, receiverVars>>

Blocks    == 0..MaxBlocks - 1
NotFailed == MaxBlocks + 1
Aborted   == -1
OpenIq    == [kind |-> "open"]
CloseIq   == [kind |-> "close"]
DataIq(n) == [kind |-> "data", block |-> n, seq |-> n % SeqMod]

Reply(iq, result) == [iq |-> iq, result |-> result]
Ok      == "result"
Refused == "error"

InFlight  == Cardinality({n \in Blocks : answer[n] = "pending"})
Unread    == Len(taken) - read
Lagging   == Unread >= HighWater
CloseSent == \E i \in DOMAIN wire : wire[i] = CloseIq

Init ==
  /\ plan \in Plans
  /\ open = "no" /\ written = 0 /\ dispatched = 0
  /\ answer = [n \in Blocks |-> "none"]
  /\ failed = NotFailed /\ closing = "no"
  /\ wire = <<>> /\ next = 0 /\ arrived = 0 /\ resumes = 0 /\ replies = <<>>
  /\ expectation = "none" /\ parked = FALSE /\ registered = FALSE
  /\ expectedSeq = 0 /\ taken = <<>> /\ read = 0 /\ withheld = <<>>
  /\ reader = "none" /\ mismatch = FALSE

Send(stanza) == wire' = Append(wire, stanza) /\ UNCHANGED <<plan, next, arrived, resumes>>

-----------------------------------------------------------------------------
(* The sender. *)

OpenOutgoing ==
  /\ open = "no" /\ open' = "asked"
  /\ Send(OpenIq)
  /\ UNCHANGED <<written, dispatched, answer, failed, closing, replies, receiverVars>>

Usable == open = "open" /\ failed = NotFailed /\ closing = "no"

Write ==
  /\ Usable /\ written < plan.blocks
  /\ written' = written + 1
  /\ UNCHANGED <<open, dispatched, answer, failed, closing, netVars, replies, receiverVars>>

DispatchedBy(guard) ==
  /\ guard
  /\ dispatched' = dispatched + 1
  /\ answer' = [answer EXCEPT ![dispatched] = "pending"]
  /\ Send(DataIq(dispatched))
  /\ UNCHANGED <<open, written, failed, closing, replies, receiverVars>>

(* Mutant: the window is not looked at. *)
DispatchUnbounded == DispatchedBy(dispatched < written /\ failed = NotFailed)

(* A pump's dispatch(take()). *)
Dispatch == DispatchedBy(dispatched < written /\ failed = NotFailed /\ InFlight < Window)

(* close(): flush, then drain. *)
Close ==
  /\ Usable /\ closing' = "draining"
  /\ UNCHANGED <<open, written, dispatched, answer, failed, netVars, replies, receiverVars>>

CloseDrained ==
  /\ closing = "draining" /\ failed = NotFailed
  /\ dispatched = written /\ InFlight = 0
  /\ closing' = "sent"
  /\ Send(CloseIq)
  /\ UNCHANGED <<open, written, dispatched, answer, failed, replies, receiverVars>>

(* Mutant: a failure does not wake the pump that waits for the window. *)
CloseThrowsDrained ==
  /\ closing = "draining" /\ failed # NotFailed
  /\ dispatched = written /\ InFlight = 0
  /\ closing' = "rejected"
  /\ UNCHANGED <<open, written, dispatched, answer, failed, netVars, replies, receiverVars>>

(* The pump throws at the next block, the drain at its end or at an abort. *)
CloseThrows ==
  /\ closing = "draining" /\ failed # NotFailed
  /\ dispatched < written \/ InFlight = 0 \/ failed = Aborted
  /\ closing' = "rejected"
  /\ UNCHANGED <<open, written, dispatched, answer, failed, netVars, replies, receiverVars>>

Abort ==
  /\ "abort" \in plan.faults
  /\ open = "open" /\ ~CloseSent /\ failed = NotFailed
  /\ failed' = Aborted
  /\ Send(CloseIq)
  /\ UNCHANGED <<open, written, dispatched, answer, closing, replies, receiverVars>>

(* Mutant: the failure that is noticed first is the stream's. *)
LatchFirst(n) == failed' = IF failed = NotFailed THEN n ELSE failed

(* A block fails: the earliest such block is the stream's failure. *)
Latch(n) == failed' = IF n < failed THEN n ELSE failed

(* A request settles, if it is still pending; a late answer is ignored. *)
Settle(iq, result) ==
  CASE iq = OpenIq ->
         /\ open' = IF open # "asked" THEN open ELSE IF result = Ok THEN "open" ELSE "refused"
         /\ UNCHANGED <<answer, failed, closing>>
    [] iq = CloseIq ->
         /\ closing' = IF closing # "sent" THEN closing
                       ELSE IF result = Ok THEN "resolved" ELSE "rejected"
         /\ failed' = IF closing = "sent" /\ result # Ok /\ failed = NotFailed
                      THEN dispatched ELSE failed
         /\ UNCHANGED <<open, answer>>
    [] OTHER ->
         /\ UNCHANGED <<open, closing>>
         /\ IF answer[iq.block] # "pending" THEN UNCHANGED <<answer, failed>>
            ELSE IF result = Ok
            THEN answer' = [answer EXCEPT ![iq.block] = "acked"] /\ UNCHANGED failed
            ELSE answer' = [answer EXCEPT ![iq.block] = "refused"] /\ Latch(iq.block)

ReceiveReply ==
  /\ replies # <<>>
  /\ Settle(Head(replies).iq, Head(replies).result)
  /\ replies' = Tail(replies)
  /\ UNCHANGED <<written, dispatched, netVars, receiverVars>>

(* A request's own deadline. *)
RequestTimeout ==
  /\ "timeout" \in plan.faults
  /\ \/ open = "asked" /\ Settle(OpenIq, Refused)
     \/ closing = "sent" /\ Settle(CloseIq, Refused)
     \/ \E n \in Blocks :
          /\ answer[n] = "pending" /\ Latch(n)
          /\ answer' = [answer EXCEPT ![n] = "timeout"]
          /\ UNCHANGED <<open, closing>>
  /\ UNCHANGED <<written, dispatched, netVars, replies, receiverVars>>

-----------------------------------------------------------------------------
(* The network. *)

PastTo(k) == next' = k /\ arrived' = IF k > arrived THEN k ELSE arrived

(* The session drops and resumes: some of the last ReplayDepth stanzas     *)
(* that arrived were not acknowledged to the server, and arrive once more. *)
Resume ==
  /\ resumes < plan.resumes
  /\ \E k \in 0..next - 1 : k >= arrived - ReplayDepth /\ PastTo(k)
  /\ resumes' = resumes + 1
  /\ UNCHANGED <<senderVars, plan, wire, replies, receiverVars>>

(* It could not be resumed: stanzas on their way are gone. *)
Lose ==
  /\ "loss" \in plan.faults /\ next < Len(wire)
  /\ \E k \in next + 1..Len(wire) : PastTo(k)
  /\ UNCHANGED <<senderVars, plan, wire, resumes, replies, receiverVars>>

-----------------------------------------------------------------------------
(* The receiver. *)

Answer(answers) == replies' = replies \o answers
AnswerOnly(iq, result) == Answer(<<Reply(iq, result)>>) /\ UNCHANGED receiverVars
WithheldAs(result) == [i \in DOMAIN withheld |-> Reply(DataIq(withheld[i]), result)]

(* #createInStream *)
CreateInStream ==
  /\ registered' = TRUE /\ reader' = "open" /\ expectedSeq' = 0
  /\ UNCHANGED <<taken, read, withheld, mismatch>>

(* #finishInStream: unregistered, and the parked handlers wake to answer.  *)
Finish(end, first) ==
  /\ registered' = FALSE
  /\ reader' = end
  /\ withheld' = <<>>
  /\ Answer(first \o WithheldAs(IF end = "cancelled" THEN Ok ELSE Refused))

(* expectIncoming(): claims a parked <open>, or waits for one. *)
ExpectIncoming ==
  /\ expectation = "none"
  /\ IF parked
     THEN /\ parked' = FALSE /\ expectation' = "over"
          /\ CreateInStream
          /\ Answer(<<Reply(OpenIq, Ok)>>)
     ELSE /\ expectation' = "registered"
          /\ UNCHANGED <<parked, registered, expectedSeq, taken, read, withheld, reader,
                         mismatch, replies>>
  /\ UNCHANGED <<senderVars, netVars>>

OnOpen ==
  \/ (registered \/ parked) /\ AnswerOnly(OpenIq, Refused)
  \/ /\ ~registered /\ ~parked /\ expectation = "registered"
     /\ expectation' = "over"
     /\ CreateInStream
     /\ Answer(<<Reply(OpenIq, Ok)>>)
     /\ UNCHANGED parked
  \/ /\ ~registered /\ ~parked /\ expectation # "registered"
     /\ parked' = TRUE
     /\ UNCHANGED <<expectation, registered, expectedSeq, taken, read, withheld, reader,
                    mismatch, replies>>

(* Mutant: one block less is a redelivery. *)
IsRedeliveryOffByOne(seq) == (expectedSeq - seq + SeqMod) % SeqMod \in 1..RedeliveryWindow - 1

(* isRedelivery() *)
IsRedelivery(seq) == (expectedSeq - seq + SeqMod) % SeqMod \in 1..RedeliveryWindow

(* The next block: enqueued, and its ack withheld if the reader lags. *)
Take(iq) ==
  /\ expectedSeq' = (expectedSeq + 1) % SeqMod
  /\ taken' = Append(taken, iq.block)
  /\ IF Unread + 1 >= HighWater
     THEN withheld' = Append(withheld, iq.block) /\ UNCHANGED replies
     ELSE Answer(<<Reply(iq, Ok)>>) /\ UNCHANGED withheld
  /\ UNCHANGED <<expectation, parked, registered, read, reader, mismatch>>

(* A gap, or a jump far behind: the stream fails. *)
FailForSeq(iq) ==
  /\ mismatch' = TRUE
  /\ Finish("errored", <<Reply(iq, Refused)>>)
  /\ UNCHANGED <<expectation, parked, expectedSeq, taken, read>>

(* Mutants: a gap is skipped; data for a dead stream is acked as taken. *)
OnDataSkipsGap(iq) ==
  \/ ~registered /\ AnswerOnly(iq, Refused)
  \/ registered /\ IsRedelivery(iq.seq) /\ AnswerOnly(iq, Ok)
  \/ registered /\ ~IsRedelivery(iq.seq) /\ Take(iq)

OnDataAcksAll(iq) ==
  \/ (~registered \/ IsRedelivery(iq.seq)) /\ AnswerOnly(iq, Ok)
  \/ registered /\ ~IsRedelivery(iq.seq) /\ iq.seq # expectedSeq /\ FailForSeq(iq)
  \/ registered /\ iq.seq = expectedSeq /\ Take(iq)

OnData(iq) ==
  \/ ~registered /\ AnswerOnly(iq, Refused)
  \/ registered /\ IsRedelivery(iq.seq) /\ AnswerOnly(iq, Ok)
  \/ registered /\ ~IsRedelivery(iq.seq) /\ iq.seq # expectedSeq /\ FailForSeq(iq)
  \/ registered /\ iq.seq = expectedSeq /\ Take(iq)

OnClose ==
  \/ ~registered /\ AnswerOnly(CloseIq, Refused)
  \/ /\ registered
     /\ Finish("ended", <<Reply(CloseIq, Ok)>>)
     /\ UNCHANGED <<expectation, parked, expectedSeq, taken, read, mismatch>>

Deliver ==
  /\ next < Len(wire)
  /\ PastTo(next + 1)
  /\ LET iq == wire[next + 1] IN
       CASE iq.kind = "open"  -> OnOpen
         [] iq.kind = "data"  -> OnData(iq)
         [] iq.kind = "close" -> OnClose
  /\ UNCHANGED <<senderVars, plan, wire, resumes>>

(* The consumer reads a block; once the queue is short again the stream    *)
(* pulls, which lets every parked handler answer.                          *)
Read ==
  /\ reader \in {"open", "ended"} /\ read < Len(taken)
  /\ read' = read + 1
  /\ IF Unread - 1 < HighWater
     THEN withheld' = <<>> /\ Answer(WithheldAs(Ok))
     ELSE UNCHANGED <<withheld, replies>>
  /\ UNCHANGED <<senderVars, netVars, expectation, parked, registered, expectedSeq, taken,
                 reader, mismatch>>

(* reader.cancel(); its <close/> finds no stream at the sender. *)
Cancel ==
  /\ "cancel" \in plan.faults /\ reader = "open"
  /\ Finish("cancelled", <<>>)
  /\ UNCHANGED <<senderVars, netVars, expectation, parked, expectedSeq, taken, read, mismatch>>

(* The idle timer. *)
IdleTimeout ==
  /\ "timeout" \in plan.faults /\ registered
  /\ Finish("errored", <<>>)
  /\ UNCHANGED <<senderVars, netVars, expectation, parked, expectedSeq, taken, read, mismatch>>

(* An <open> nobody claimed, and an expectation no <open> met. *)
AcceptTimeout ==
  /\ "timeout" \in plan.faults /\ parked
  /\ parked' = FALSE
  /\ Answer(<<Reply(OpenIq, Refused)>>)
  /\ UNCHANGED <<senderVars, netVars, expectation, registered, expectedSeq, taken, read,
                 withheld, reader, mismatch>>

ExpectTimeout ==
  /\ "timeout" \in plan.faults /\ expectation = "registered"
  /\ expectation' = "over"
  /\ UNCHANGED <<senderVars, netVars, replies, parked, registered, expectedSeq, taken, read,
                 withheld, reader, mismatch>>

(* release() by the manager's last user. *)
Release ==
  /\ "release" \in plan.faults /\ (registered \/ expectation = "registered")
  /\ expectation' = "over"
  /\ IF registered THEN Finish("errored", <<>>)
     ELSE UNCHANGED <<registered, reader, withheld, replies>>
  /\ UNCHANGED <<senderVars, netVars, parked, expectedSeq, taken, read, mismatch>>

-----------------------------------------------------------------------------
Sender   == OpenOutgoing \/ Write \/ Dispatch \/ Close \/ CloseDrained \/ CloseThrows \/ Abort
Receiver == Read \/ Cancel \/ IdleTimeout \/ AcceptTimeout \/ ExpectTimeout \/ Release

Next ==
  \/ Sender \/ ReceiveReply \/ RequestTimeout
  \/ Resume \/ Lose \/ Deliver
  \/ ExpectIncoming \/ Receiver

(* The pump and close() run on, the network delivers, the consumer keeps   *)
(* reading, and every request meets its deadline where there is one.       *)
Fairness ==
  /\ WF_vars(Dispatch) /\ WF_vars(CloseDrained) /\ WF_vars(CloseThrows)
  /\ WF_vars(Deliver) /\ WF_vars(ReceiveReply)
  /\ WF_vars(Read) /\ WF_vars(RequestTimeout)

Spec     == Init /\ [][Next]_vars
FairSpec == Spec /\ Fairness

-----------------------------------------------------------------------------
Stanzas == {OpenIq, CloseIq} \cup {DataIq(n) : n \in Blocks}

TypeOK ==
  /\ plan \in Plans
  /\ open \in {"no", "asked", "open", "refused"}
  /\ written \in 0..MaxBlocks /\ dispatched \in 0..written
  /\ answer \in [Blocks -> {"none", "pending", "acked", "refused", "timeout"}]
  /\ failed \in -1..NotFailed
  /\ closing \in {"no", "draining", "sent", "resolved", "rejected"}
  /\ wire \in Seq(Stanzas) /\ next \in 0..arrived /\ arrived \in 0..Len(wire)
  /\ resumes \in 0..MaxResumes
  /\ replies \in Seq([iq : Stanzas, result : {Ok, Refused}])
  /\ expectation \in {"none", "registered", "over"}
  /\ parked \in BOOLEAN /\ registered \in BOOLEAN /\ mismatch \in BOOLEAN
  /\ expectedSeq \in 0..SeqMod - 1
  /\ taken \in Seq(Blocks) /\ read \in 0..Len(taken) /\ withheld \in Seq(Blocks)
  /\ reader \in {"none", "open", "ended", "errored", "cancelled"}

(* An ack names a block that was given to the reader's queue: no replay,   *)
(* gap or wrap of seq makes the receiver acknowledge one it never took.    *)
AckedMeansTaken ==
  \A n \in Blocks : answer[n] = "acked" => n < Len(taken)

(* The failure reported is the earliest block's, whatever order the        *)
(* refusals and deadlines of a dead receiver come in, and the abort's own  *)
(* reason is never overwritten.                                            *)
EarliestFailure ==
  [][/\ \A n \in Blocks : answer'[n] \in {"refused", "timeout"} => failed' <= n
     /\ failed = Aborted => failed' = Aborted]_vars

(* As long as no resumption has replayed a block, a consumer that does    *)
(* not read is never sent more than its buffer and one window.             *)
BoundedUntilReplay == resumes = 0 => Unread < HighWater + Window

Healthy == plan.faults = {}

(* With every fault there is, a close() that drains still returns: a       *)
(* refusal, a deadline or an abort wakes it.  And on a healthy session,    *)
(* however often it is resumed and its blocks replayed across the wrap of  *)
(* seq, withheld acks never leave it waiting and it resolves.              *)
CloseReturns ==
  /\ closing = "draining" ~> closing \in {"resolved", "rejected"}
  /\ Healthy /\ closing = "draining" ~> closing = "resolved"

(* On such a session every block written is read: a replay is told from a  *)
(* gap, and withheld acks never wedge the window.                          *)
EveryBlockRead == \A n \in 1..MaxBlocks : Healthy /\ written = n ~> read >= n

(* Whatever is lost, replayed or refused, the reader gets the first blocks *)
(* written, in their order, none twice and none skipped.                   *)
InOrder == \A i \in DOMAIN taken : taken[i] = i - 1

(* The promise to the two programs. *)
Promise == INSTANCE ByteStream WITH
  taken  <- IF InOrder THEN Len(taken) ELSE MaxBlocks + 1,
  writer <- IF open = "refused" \/ closing = "rejected" \/ failed # NotFailed THEN "failed"
            ELSE IF closing = "resolved" THEN "closed"
            ELSE IF closing = "no" THEN "open" ELSE "closing",
  reader <- IF reader = "ended" THEN "ended"
            ELSE IF reader \in {"errored", "cancelled"} THEN "broken" ELSE "open"

KeepsThePromise == Promise!Spec
=============================================================================
