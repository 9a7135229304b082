-------------------------- MODULE IbbStream_proofs --------------------------
(***************************************************************************)
(* Safety of one in-band bytestream, and that it keeps the promise of      *)
(* ByteStream, for every plan, window, buffer, modulus of seq and depth of *)
(* replay.                                                                 *)
(***************************************************************************)
EXTENDS IbbStream, FiniteSetTheorems, SequenceTheorems, TLAPS

-----------------------------------------------------------------------------
(* The stanzas, their answers, and sequences of them. *)

Replies == [iq : Stanzas, result : {Ok, Refused}]

LEMMA StanzaForms ==
  /\ OpenIq \in Stanzas /\ CloseIq \in Stanzas /\ OpenIq # CloseIq
  /\ \A n \in Blocks : DataIq(n) \in Stanzas /\ DataIq(n) # OpenIq /\ DataIq(n) # CloseIq
  /\ \A s \in Stanzas : \/ s = OpenIq /\ s.kind = "open"
                        \/ s = CloseIq /\ s.kind = "close"
                        \/ s.kind = "data" /\ s.block \in Blocks /\ s = DataIq(s.block)
                           /\ s # OpenIq /\ s # CloseIq
<1>1. OpenIq.kind = "open" /\ CloseIq.kind = "close"
  BY DEF OpenIq, CloseIq
<1>2. \A n \in Blocks : DataIq(n).kind = "data" /\ DataIq(n).block = n
  BY DEF DataIq
<1>3. OpenIq \in Stanzas /\ CloseIq \in Stanzas /\ \A n \in Blocks : DataIq(n) \in Stanzas
  BY DEF Stanzas
<1>4. \A s \in Stanzas : s = OpenIq \/ s = CloseIq \/ \E n \in Blocks : s = DataIq(n)
  BY DEF Stanzas
<1>. QED BY <1>1, <1>2, <1>3, <1>4

LEMMA ReplyForms ==
  ASSUME NEW iq \in Stanzas, NEW result \in {Ok, Refused}
  PROVE  /\ Reply(iq, result) \in Replies
         /\ Reply(iq, result).iq = iq /\ Reply(iq, result).result = result
  BY DEF Reply, Replies

(* What is in a concatenation was in one of its parts. *)
LEMMA Appended ==
  ASSUME NEW S, NEW s \in Seq(S), NEW t \in Seq(S)
  PROVE  /\ s \o t \in Seq(S)
         /\ \A i \in DOMAIN (s \o t) : \/ \E j \in DOMAIN s : (s \o t)[i] = s[j]
                                       \/ \E j \in DOMAIN t : (s \o t)[i] = t[j]
<1>1. s \o t \in Seq(S) /\ Len(s \o t) = Len(s) + Len(t)
  BY ConcatProperties
<1>2. \A i \in 1..Len(s) + Len(t) : (s \o t)[i] = IF i <= Len(s) THEN s[i] ELSE t[i - Len(s)]
  BY ConcatProperties
<1>3. DOMAIN (s \o t) = 1..Len(s) + Len(t) /\ DOMAIN s = 1..Len(s) /\ DOMAIN t = 1..Len(t)
      /\ Len(s) \in Nat /\ Len(t) \in Nat
  BY <1>1, LenProperties
<1>. QED BY <1>1, <1>2, <1>3

(* The answers of the handlers that a stream has parked. *)
LEMMA WithheldAnswers ==
  ASSUME TypeOK, NEW result \in {Ok, Refused}
  PROVE  /\ WithheldAs(result) \in Seq(Replies)
         /\ DOMAIN WithheldAs(result) = DOMAIN withheld
         /\ \A i \in DOMAIN withheld :
              withheld[i] \in Blocks /\ WithheldAs(result)[i] = Reply(DataIq(withheld[i]), result)
<1>1. withheld \in Seq(Blocks) /\ DOMAIN withheld = 1..Len(withheld) /\ Len(withheld) \in Nat
      /\ \A i \in DOMAIN withheld : withheld[i] \in Blocks
  BY LenProperties, ElementOfSeq DEF TypeOK
<1>2. \A i \in DOMAIN withheld : Reply(DataIq(withheld[i]), result) \in Replies
  BY <1>1, StanzaForms, ReplyForms
<1>3. WithheldAs(result) = [i \in 1..Len(withheld) |-> Reply(DataIq(withheld[i]), result)]
  BY <1>1 DEF WithheldAs
<1>4. WithheldAs(result) \in Seq(Replies)
  BY <1>1, <1>2, <1>3
<1>. QED BY <1>1, <1>3, <1>4

-----------------------------------------------------------------------------
(* Every operation keeps the state well typed. *)

LEMMA AnswersTyped ==
  ASSUME TypeOK, NEW answers \in Seq(Replies), Answer(answers)
  PROVE  replies' \in Seq(Replies)
<1>1. replies \in Seq(Replies)
  BY DEF TypeOK, Replies
<1>. QED BY <1>1, Appended DEF Answer

LEMMA FinishTyped ==
  ASSUME TypeOK, NEW end \in {"ended", "errored", "cancelled"},
         NEW first \in Seq(Replies), Finish(end, first)
  PROVE  /\ replies' \in Seq(Replies) /\ withheld' = <<>> /\ withheld' \in Seq(Blocks)
         /\ registered' = FALSE /\ reader' = end
<1>0. withheld' = <<>> /\ withheld' \in Seq(Blocks)
  BY DEF Finish
<1>1. WithheldAs(IF end = "cancelled" THEN Ok ELSE Refused) \in Seq(Replies)
  BY WithheldAnswers
<1>2. first \o WithheldAs(IF end = "cancelled" THEN Ok ELSE Refused) \in Seq(Replies)
  BY <1>1, Appended
<1>. QED BY <1>0, <1>2, AnswersTyped DEF Finish

(* What an answer does to the sender, by the stanza it answers. *)
LEMMA SettleForms ==
  ASSUME NEW iq \in Stanzas, NEW result \in {Ok, Refused}, Settle(iq, result)
  PROVE  /\ iq = OpenIq =>
              /\ open' = IF open # "asked" THEN open ELSE IF result = Ok THEN "open" ELSE "refused"
              /\ UNCHANGED <<answer, failed, closing>>
         /\ iq = CloseIq =>
              /\ closing' = IF closing # "sent" THEN closing
                            ELSE IF result = Ok THEN "resolved" ELSE "rejected"
              /\ failed' = IF closing = "sent" /\ result # Ok /\ failed = NotFailed
                           THEN dispatched ELSE failed
              /\ UNCHANGED <<open, answer>>
         /\ iq # OpenIq /\ iq # CloseIq =>
              /\ UNCHANGED <<open, closing>>
              /\ iq.block \in Blocks /\ iq = DataIq(iq.block)
              /\ \/ answer[iq.block] # "pending" /\ UNCHANGED <<answer, failed>>
                 \/ /\ answer[iq.block] = "pending" /\ result = Ok /\ UNCHANGED failed
                    /\ answer' = [answer EXCEPT ![iq.block] = "acked"]
                 \/ /\ answer[iq.block] = "pending" /\ result = Refused
                    /\ answer' = [answer EXCEPT ![iq.block] = "refused"]
                    /\ failed' = IF iq.block < failed THEN iq.block ELSE failed
<1>1. CASE iq = OpenIq
  BY <1>1, StanzaForms DEF Settle
<1>2. CASE iq = CloseIq
  BY <1>2, StanzaForms DEF Settle
<1>3. CASE iq # OpenIq /\ iq # CloseIq
  <2>1. iq.block \in Blocks /\ iq = DataIq(iq.block)
    BY <1>3, StanzaForms
  <2>2. /\ UNCHANGED <<open, closing>>
        /\ IF answer[iq.block] # "pending" THEN UNCHANGED <<answer, failed>>
           ELSE IF result = Ok
           THEN answer' = [answer EXCEPT ![iq.block] = "acked"] /\ UNCHANGED failed
           ELSE answer' = [answer EXCEPT ![iq.block] = "refused"] /\ Latch(iq.block)
    BY <1>3, Zenon DEF Settle
  <2>. QED BY <1>3, <2>1, <2>2 DEF Latch
<1>. QED BY <1>1, <1>2, <1>3

LEMMA SettleTyped ==
  ASSUME TypeOK, NEW iq \in Stanzas, NEW result \in {Ok, Refused}, Settle(iq, result)
  PROVE  /\ open' \in {"no", "asked", "open", "refused"}
         /\ answer' \in [Blocks -> {"none", "pending", "acked", "refused", "timeout"}]
         /\ failed' \in -1..NotFailed
         /\ closing' \in {"no", "draining", "sent", "resolved", "rejected"}
<1> USE StreamAssumption, SettleForms DEF StreamAssumption, TypeOK
<1>1. CASE iq = OpenIq
  BY <1>1, StanzaForms
<1>2. CASE iq = CloseIq
  <2>1. failed' \in -1..NotFailed
    BY <1>2, StanzaForms DEF NotFailed
  <2>. QED BY <1>2, <2>1, StanzaForms
<1>3. CASE iq # OpenIq /\ iq # CloseIq
  <2>1. PICK n \in Blocks : n = iq.block
    BY <1>3
  <2>4. failed' = failed \/ failed' = n
    BY <1>3, <2>1
  <2>3. failed' \in -1..NotFailed
    BY <2>4 DEF NotFailed, Blocks
  <2>2. answer' \in [Blocks -> {"none", "pending", "acked", "refused", "timeout"}]
    BY <1>3
  <2>. QED BY <1>3, <2>2, <2>3
<1>. QED BY <1>1, <1>2, <1>3

LEMMA SentTyped ==
  ASSUME TypeOK, NEW s \in Stanzas, Send(s)
  PROVE  /\ wire' \in Seq(Stanzas) /\ Len(wire') = Len(wire) + 1
         /\ \A i \in 1..Len(wire) : wire'[i] = wire[i]
         /\ wire'[Len(wire) + 1] = s
         /\ next' \in 0..arrived' /\ arrived' \in 0..Len(wire')
         /\ plan' = plan /\ resumes' = resumes
<1>1. wire \in Seq(Stanzas)
  BY DEF TypeOK
<1>2. /\ wire' \in Seq(Stanzas) /\ Len(wire') = Len(wire) + 1
      /\ \A i \in 1..Len(wire) : wire'[i] = wire[i]
      /\ wire'[Len(wire) + 1] = s
  BY <1>1, AppendProperties DEF Send
<1>. QED BY <1>1, <1>2, LenProperties DEF Send, TypeOK

LEMMA PastTyped ==
  ASSUME TypeOK, NEW k \in 0..Len(wire), PastTo(k)
  PROVE  next' \in 0..arrived' /\ arrived' \in 0..Len(wire)
BY LenProperties DEF PastTo, TypeOK

LEMMA DeliveredTyped ==
  ASSUME TypeOK, Deliver
  PROVE  /\ next + 1 \in 1..Len(wire) /\ wire[next + 1] \in Stanzas
         /\ next' \in 0..arrived' /\ arrived' \in 0..Len(wire)
         /\ UNCHANGED <<senderVars, plan, wire, resumes>>
<1>1. next + 1 \in 1..Len(wire) /\ next + 1 \in 0..Len(wire)
  BY LenProperties DEF Deliver, TypeOK
<1>2. wire[next + 1] \in Stanzas
  BY <1>1, ElementOfSeq DEF TypeOK
<1>3. PastTo(next + 1) /\ UNCHANGED <<senderVars, plan, wire, resumes>>
  BY DEF Deliver
<1>. QED BY <1>1, <1>2, <1>3, PastTyped

ReceiverTyped ==
  /\ replies \in Seq(Replies)
  /\ expectation \in {"none", "registered", "over"}
  /\ parked \in BOOLEAN /\ registered \in BOOLEAN /\ mismatch \in BOOLEAN
  /\ expectedSeq \in 0..SeqMod - 1
  /\ taken \in Seq(Blocks) /\ read \in 0..Len(taken) /\ withheld \in Seq(Blocks)
  /\ reader \in {"none", "open", "ended", "errored", "cancelled"}

LEMMA AnswerOnlyTyped ==
  ASSUME TypeOK, NEW iq \in Stanzas, NEW result \in {Ok, Refused}, AnswerOnly(iq, result)
  PROVE  ReceiverTyped'
<1>1. <<Reply(iq, result)>> \in Seq(Replies)
  BY ReplyForms
<1>2. replies' \in Seq(Replies) /\ UNCHANGED receiverVars
  BY <1>1, AnswersTyped DEF AnswerOnly
<1>. QED BY <1>2 DEF receiverVars, TypeOK, ReceiverTyped

LEMMA OnOpenTyped ==
  ASSUME TypeOK, OnOpen
  PROVE  ReceiverTyped'
<1> USE StreamAssumption DEF StreamAssumption
<1>1. CASE (registered \/ parked) /\ AnswerOnly(OpenIq, Refused)
  BY <1>1, StanzaForms, AnswerOnlyTyped
<1>2. CASE ~registered /\ ~parked /\ expectation = "registered"
  <2>1. <<Reply(OpenIq, Ok)>> \in Seq(Replies)
    BY ReplyForms, StanzaForms
  <2>2. replies' \in Seq(Replies)
    BY <1>2, <2>1, AnswersTyped DEF OnOpen, AnswerOnly
  <2>3. expectation' = "over" /\ CreateInStream /\ UNCHANGED parked
    BY <1>2 DEF OnOpen
  <2>4. expectedSeq' \in 0..SeqMod - 1
    BY <2>3 DEF CreateInStream
  <2>. QED BY <2>2, <2>3, <2>4 DEF CreateInStream, ReceiverTyped, TypeOK
<1>3. CASE ~registered /\ ~parked /\ expectation # "registered"
  BY <1>3, StanzaForms, AnswerOnlyTyped DEF OnOpen, ReceiverTyped, TypeOK, Replies
<1>. QED BY <1>1, <1>2, <1>3 DEF OnOpen

LEMMA OnDataTyped ==
  ASSUME TypeOK, NEW iq \in Stanzas, iq.kind = "data", OnData(iq)
  PROVE  ReceiverTyped'
<1> USE StreamAssumption DEF StreamAssumption
<1>1. CASE AnswerOnly(iq, Refused) \/ AnswerOnly(iq, Ok)
  BY <1>1, AnswerOnlyTyped
<1>2. CASE FailForSeq(iq)
  <2>1. <<Reply(iq, Refused)>> \in Seq(Replies)
    BY ReplyForms
  <2>2. Finish("errored", <<Reply(iq, Refused)>>)
    BY <1>2 DEF FailForSeq
  <2>3. replies' \in Seq(Replies) /\ withheld' \in Seq(Blocks) /\ registered' = FALSE /\ reader' = "errored"
    BY <2>1, <2>2, FinishTyped
  <2>. QED BY <1>2, <2>3 DEF FailForSeq, ReceiverTyped, TypeOK
<1>3. CASE Take(iq)
  <2>1. iq.block \in Blocks
    BY StanzaForms
  <2>2. expectedSeq' \in 0..SeqMod - 1
    BY <1>3 DEF Take, TypeOK
  <2>3. taken' \in Seq(Blocks) /\ Len(taken') = Len(taken) + 1 /\ read' \in 0..Len(taken')
    BY <1>3, <2>1, LenProperties DEF Take, TypeOK
  <2>4. replies' \in Seq(Replies) /\ withheld' \in Seq(Blocks)
    <3>1. <<Reply(iq, Ok)>> \in Seq(Replies)
      BY ReplyForms
    <3>2. CASE Unread + 1 >= HighWater
      <4>1. withheld' = Append(withheld, iq.block) /\ replies' = replies
        BY <1>3, <3>2 DEF Take
      <4>. QED BY <2>1, <4>1, AppendProperties DEF TypeOK, Replies
    <3>3. CASE ~(Unread + 1 >= HighWater)
      BY <1>3, <3>1, <3>3, AnswersTyped DEF Take, TypeOK
    <3>. QED BY <3>2, <3>3
  <2>. QED BY <1>3, <2>2, <2>3, <2>4 DEF Take, ReceiverTyped, TypeOK
<1>. QED BY <1>1, <1>2, <1>3 DEF OnData

LEMMA OnCloseTyped ==
  ASSUME TypeOK, OnClose
  PROVE  ReceiverTyped'
<1>1. CASE AnswerOnly(CloseIq, Refused)
  BY <1>1, StanzaForms, AnswerOnlyTyped
<1>2. CASE registered /\ ~AnswerOnly(CloseIq, Refused)
  <2>1. <<Reply(CloseIq, Ok)>> \in Seq(Replies)
    BY ReplyForms, StanzaForms
  <2>2. Finish("ended", <<Reply(CloseIq, Ok)>>)
    BY <1>2 DEF OnClose
  <2>3. replies' \in Seq(Replies) /\ withheld' \in Seq(Blocks) /\ registered' = FALSE /\ reader' = "ended"
    BY <2>1, <2>2, FinishTyped
  <2>. QED BY <1>2, <2>3 DEF OnClose, ReceiverTyped, TypeOK
<1>. QED BY <1>1, <1>2 DEF OnClose

(* Every operation keeps the state well typed. *)
THEOREM TypeCorrect == Spec => []TypeOK
<1> USE StreamAssumption DEF StreamAssumption
<1>1. Init => TypeOK
  <2> SUFFICES ASSUME Init PROVE TypeOK
    OBVIOUS
  <2>1. wire = <<>> /\ replies = <<>> /\ taken = <<>> /\ withheld = <<>>
    BY DEF Init
  <2>2. /\ wire \in Seq(Stanzas) /\ Len(wire) = 0 /\ taken \in Seq(Blocks) /\ Len(taken) = 0
        /\ replies \in Seq([iq : Stanzas, result : {Ok, Refused}]) /\ withheld \in Seq(Blocks)
    BY <2>1
  <2>3. answer \in [Blocks -> {"none", "pending", "acked", "refused", "timeout"}]
    BY DEF Init
  <2>4. /\ plan \in Plans /\ open = "no" /\ written = 0 /\ dispatched = 0
        /\ failed = NotFailed /\ closing = "no" /\ next = 0 /\ arrived = 0 /\ resumes = 0
        /\ expectation = "none" /\ parked = FALSE /\ registered = FALSE /\ mismatch = FALSE
        /\ expectedSeq = 0 /\ read = 0 /\ reader = "none"
    BY DEF Init
  <2>5. /\ written \in 0..MaxBlocks /\ dispatched \in 0..written /\ failed \in -1..NotFailed
        /\ next \in 0..arrived /\ arrived \in 0..Len(wire) /\ resumes \in 0..MaxResumes
        /\ expectedSeq \in 0..SeqMod - 1 /\ read \in 0..Len(taken)
    BY <2>2, <2>4 DEF NotFailed
  <2>6. parked \in BOOLEAN /\ registered \in BOOLEAN /\ mismatch \in BOOLEAN
    BY <2>4
  <2>. QED BY <2>2, <2>3, <2>4, <2>5, <2>6 DEF TypeOK
<1>2. TypeOK /\ [Next]_vars => TypeOK'
  <2> SUFFICES ASSUME TypeOK, [Next]_vars PROVE TypeOK'
    OBVIOUS
  <2> USE DEF senderVars, netVars
  <2>0. ReceiverTyped /\ (UNCHANGED <<replies, receiverVars>> => ReceiverTyped')
    BY DEF TypeOK, ReceiverTyped, receiverVars, Replies
  <2>1. CASE OpenOutgoing
    <3>1. Send(OpenIq) /\ open' = "asked"
          /\ UNCHANGED <<written, dispatched, answer, failed, closing, replies, receiverVars>>
      BY <2>1 DEF OpenOutgoing
    <3>2. /\ wire' \in Seq(Stanzas) /\ next' \in 0..arrived' /\ arrived' \in 0..Len(wire')
          /\ plan' = plan /\ resumes' = resumes
      BY <3>1, StanzaForms, SentTyped
    <3>. QED BY <3>1, <3>2 DEF TypeOK, receiverVars
  <2>2. CASE Write
    <3>1. plan.blocks \in 0..MaxBlocks
      BY DEF TypeOK, Plan
    <3>2. written' \in 0..MaxBlocks /\ dispatched' \in 0..written'
      BY <2>2, <3>1 DEF Write, TypeOK
    <3>. QED BY <2>2, <3>2 DEF Write, TypeOK, receiverVars
  <2>3. CASE Dispatch
    <3>1. dispatched \in Blocks /\ dispatched' = dispatched + 1 /\ dispatched' \in 0..written
      BY <2>3 DEF Dispatch, DispatchedBy, TypeOK, Blocks
    <3>2. answer' \in [Blocks -> {"none", "pending", "acked", "refused", "timeout"}]
      BY <2>3 DEF Dispatch, DispatchedBy, TypeOK
    <3>3. Send(DataIq(dispatched)) /\ UNCHANGED <<open, written, failed, closing, replies, receiverVars>>
      BY <2>3 DEF Dispatch, DispatchedBy
    <3>4. /\ wire' \in Seq(Stanzas) /\ next' \in 0..arrived' /\ arrived' \in 0..Len(wire')
          /\ plan' = plan /\ resumes' = resumes
      BY <3>1, <3>3, StanzaForms, SentTyped
    <3>. QED BY <3>1, <3>2, <3>3, <3>4 DEF TypeOK, receiverVars
  <2>4. CASE Close
    BY <2>4 DEF Close, TypeOK, receiverVars
  <2>5. CASE CloseDrained
    <3>1. Send(CloseIq) /\ closing' = "sent"
          /\ UNCHANGED <<open, written, dispatched, answer, failed, replies, receiverVars>>
      BY <2>5 DEF CloseDrained
    <3>2. /\ wire' \in Seq(Stanzas) /\ next' \in 0..arrived' /\ arrived' \in 0..Len(wire')
          /\ plan' = plan /\ resumes' = resumes
      BY <3>1, StanzaForms, SentTyped
    <3>. QED BY <3>1, <3>2 DEF TypeOK, receiverVars
  <2>6. CASE CloseThrows
    BY <2>6 DEF CloseThrows, TypeOK, receiverVars
  <2>7. CASE Abort
    <3>1. Send(CloseIq) /\ failed' = Aborted
          /\ UNCHANGED <<open, written, dispatched, answer, closing, replies, receiverVars>>
      BY <2>7 DEF Abort
    <3>2. failed' \in -1..NotFailed
      BY <3>1 DEF Aborted, NotFailed
    <3>3. /\ wire' \in Seq(Stanzas) /\ next' \in 0..arrived' /\ arrived' \in 0..Len(wire')
          /\ plan' = plan /\ resumes' = resumes
      BY <3>1, StanzaForms, SentTyped
    <3>. QED BY <3>1, <3>2, <3>3 DEF TypeOK, receiverVars
  <2>8. CASE ReceiveReply
    <3>0. replies \in Seq([iq : Stanzas, result : {Ok, Refused}]) /\ replies # <<>>
      BY <2>8 DEF ReceiveReply, TypeOK
    <3>4. Head(replies) \in [iq : Stanzas, result : {Ok, Refused}]
          /\ Tail(replies) \in Seq([iq : Stanzas, result : {Ok, Refused}])
      BY <3>0, HeadTailProperties
    <3>1. Head(replies).iq \in Stanzas /\ Head(replies).result \in {Ok, Refused}
          /\ Tail(replies) \in Seq([iq : Stanzas, result : {Ok, Refused}])
      BY <3>4
    <3>2. Settle(Head(replies).iq, Head(replies).result)
          /\ replies' = Tail(replies) /\ UNCHANGED <<written, dispatched, netVars, receiverVars>>
      BY <2>8 DEF ReceiveReply
    <3>3. /\ open' \in {"no", "asked", "open", "refused"}
          /\ answer' \in [Blocks -> {"none", "pending", "acked", "refused", "timeout"}]
          /\ failed' \in -1..NotFailed
          /\ closing' \in {"no", "draining", "sent", "resolved", "rejected"}
      BY <3>1, <3>2, SettleTyped
    <3>. QED BY <3>1, <3>2, <3>3 DEF TypeOK, receiverVars
  <2>9. CASE RequestTimeout
    <3>1. UNCHANGED <<written, dispatched, netVars, replies, receiverVars>>
      BY <2>9 DEF RequestTimeout
    <3>2. /\ open' \in {"no", "asked", "open", "refused"}
          /\ answer' \in [Blocks -> {"none", "pending", "acked", "refused", "timeout"}]
          /\ failed' \in -1..NotFailed
          /\ closing' \in {"no", "draining", "sent", "resolved", "rejected"}
      <4>1. CASE Settle(OpenIq, Refused) \/ Settle(CloseIq, Refused)
        BY <4>1, StanzaForms, SettleTyped
      <4>2. ASSUME NEW n \in Blocks, Latch(n), answer' = [answer EXCEPT ![n] = "timeout"],
                   UNCHANGED <<open, closing>>
            PROVE  <3>2!1 /\ <3>2!2 /\ <3>2!3 /\ <3>2!4
        BY <4>2 DEF Latch, TypeOK, NotFailed, Blocks
      <4>. QED BY <2>9, <4>1, <4>2 DEF RequestTimeout
    <3>. QED BY <3>1, <3>2 DEF TypeOK, receiverVars
  <2>10. CASE Resume
    <3>1. plan.resumes \in 0..MaxResumes
      BY DEF TypeOK, Plan
    <3>2. next' \in 0..arrived' /\ arrived' \in 0..Len(wire)
      BY <2>10, PastTyped, LenProperties DEF Resume, TypeOK
    <3>. QED BY <2>10, <3>1, <3>2 DEF Resume, TypeOK, receiverVars
  <2>11. CASE Lose
    <3>1. next' \in 0..arrived' /\ arrived' \in 0..Len(wire)
      BY <2>11, PastTyped, LenProperties DEF Lose, TypeOK
    <3>. QED BY <2>11, <3>1 DEF Lose, TypeOK, receiverVars
  <2>12. CASE Deliver
    <3> DEFINE iq == wire[next + 1]
    <3>1. iq \in Stanzas
      BY <2>12, DeliveredTyped
    <3>2. \/ iq.kind = "open" /\ OnOpen
          \/ iq.kind = "data" /\ OnData(iq)
          \/ iq.kind = "close" /\ OnClose
      BY <2>12, <3>1, StanzaForms DEF Deliver
    <3> HIDE DEF iq
    <3>3. ReceiverTyped'
      BY <3>1, <3>2, OnOpenTyped, OnDataTyped, OnCloseTyped
    <3>. QED BY <2>12, <3>3, DeliveredTyped DEF TypeOK, ReceiverTyped, Replies
  <2>13. CASE ExpectIncoming
    <3>1. CASE parked
      <4>1. Answer(<<Reply(OpenIq, Ok)>>) /\ CreateInStream /\ parked' = FALSE /\ expectation' = "over"
            /\ UNCHANGED <<senderVars, netVars>>
        BY <2>13, <3>1 DEF ExpectIncoming
      <4>2. <<Reply(OpenIq, Ok)>> \in Seq(Replies)
        BY ReplyForms, StanzaForms
      <4>3. replies' \in Seq(Replies)
        BY <4>1, <4>2, AnswersTyped
      <4>4. expectedSeq' \in 0..SeqMod - 1
        BY <4>1 DEF CreateInStream
      <4>. QED BY <4>1, <4>3, <4>4 DEF CreateInStream, TypeOK, Replies
    <3>2. CASE ~parked
      BY <2>13, <3>2 DEF ExpectIncoming, TypeOK
    <3>. QED BY <3>1, <3>2
  <2>14. CASE Read
    <3>1. CASE Unread - 1 < HighWater
      <4>1. withheld' = <<>> /\ Answer(WithheldAs(Ok)) /\ read' = read + 1
            /\ UNCHANGED <<senderVars, netVars, expectation, parked, registered, expectedSeq, taken,
                 reader, mismatch>>
        BY <2>14, <3>1 DEF Read
      <4>2. replies' \in Seq(Replies)
        BY <4>1, WithheldAnswers, AnswersTyped
      <4>3. withheld' \in Seq(Blocks) /\ read' \in 0..Len(taken)
        BY <2>14, <4>1, LenProperties DEF Read, TypeOK
      <4>. QED BY <4>1, <4>2, <4>3 DEF TypeOK, Replies
    <3>2. CASE ~(Unread - 1 < HighWater)
      <4>1. read' \in 0..Len(taken)
        BY <2>14, LenProperties DEF Read, TypeOK
      <4>. QED BY <2>14, <3>2, <4>1 DEF Read, TypeOK
    <3>. QED BY <3>1, <3>2
  <2>15. ASSUME NEW end \in {"ended", "errored", "cancelled"}, Finish(end, <<>>),
                expectation' \in {"none", "registered", "over"},
                UNCHANGED <<senderVars, netVars, parked, expectedSeq, taken, read, mismatch>>
         PROVE  TypeOK'
    <3>1. <<>> \in Seq(Replies)
      OBVIOUS
    <3>2. replies' \in Seq(Replies) /\ withheld' \in Seq(Blocks) /\ registered' = FALSE /\ reader' = end
      BY <2>15, <3>1, FinishTyped
    <3>. QED BY <2>15, <3>2 DEF TypeOK, Replies
  <2>16. CASE Cancel
    BY <2>15, <2>16 DEF Cancel, TypeOK
  <2>17. CASE IdleTimeout
    BY <2>15, <2>17 DEF IdleTimeout, TypeOK
  <2>18. CASE AcceptTimeout
    <3>1. <<Reply(OpenIq, Refused)>> \in Seq(Replies)
      BY ReplyForms, StanzaForms
    <3>2. replies' \in Seq(Replies)
      BY <2>18, <3>1, AnswersTyped DEF AcceptTimeout
    <3>. QED BY <2>18, <3>2 DEF AcceptTimeout, TypeOK, Replies
  <2>19. CASE ExpectTimeout
    BY <2>19 DEF ExpectTimeout, TypeOK
  <2>20. CASE Release
    <3>1. CASE registered
      BY <2>15, <2>20, <3>1 DEF Release
    <3>2. CASE ~registered
      BY <2>20, <3>2 DEF Release, TypeOK
    <3>. QED BY <3>1, <3>2
  <2>21. CASE UNCHANGED vars
    BY <2>21 DEF vars, receiverVars, TypeOK
  <2>. QED
    BY <2>1, <2>2, <2>3, <2>4, <2>5, <2>6, <2>7, <2>8, <2>9, <2>10, <2>11, <2>12, <2>13,
       <2>14, <2>16, <2>17, <2>18, <2>19, <2>20, <2>21 DEF Next, Sender, Receiver
<1>. QED BY <1>1, <1>2, PTL DEF Spec

-----------------------------------------------------------------------------
(* The inductive invariant, by part. *)

Gone     == Len(wire) = dispatched + 2          \* the <close/> is on the wire
AllAcked == dispatched = written /\ \A n \in 0..dispatched - 1 : answer[n] = "acked"
Unacked  == {n \in Blocks : n < dispatched /\ answer[n] # "acked"}

(* What was sent: the <open>, the blocks in their order, the <close/>. *)
WireInv ==
  /\ open = "no" => wire = <<>>
  /\ open # "no" => Len(wire) \in {dispatched + 1, dispatched + 2}
  /\ open # "open" => written = 0 /\ Len(wire) <= 1 /\ closing = "no" /\ failed = NotFailed
  /\ \A i \in DOMAIN wire : wire[i] = IF i = 1 THEN OpenIq
                                      ELSE IF i <= dispatched + 1 THEN DataIq(i - 2) ELSE CloseIq

(* What the sender knows of its blocks, and when a <close/> leaves. *)
SenderInv ==
  /\ \A n \in Blocks : answer[n] = "none" <=> n >= dispatched
  /\ \A n \in Blocks : answer[n] \in {"refused", "timeout"} => failed <= n
  /\ Gone => failed = Aborted \/ (AllAcked /\ closing \in {"sent", "resolved", "rejected"})
  /\ closing \in {"sent", "resolved"} => Gone /\ failed = NotFailed

(* The window holds every block without an ack, failed or not. *)
WindowInv == Cardinality(Unacked) <= Window

(* The receiver; how far behind the furthest stanza a replay may be. *)
ReceiverInv ==
  /\ registered <=> reader = "open"
  /\ reader # "none" => expectation = "over"
  /\ reader = "none" => taken = <<>> /\ expectedSeq = 0
  /\ registered => expectedSeq = Len(taken) % SeqMod
  /\ InOrder
  /\ taken # <<>> => Len(taken) < arrived
  /\ next >= arrived - ReplayDepth
  /\ withheld # <<>> => registered
  /\ \A i \in DOMAIN withheld : withheld[i] < Len(taken)

(* What an end has done before the other one knows. *)
OrderInv ==
  /\ Len(taken) <= dispatched
  /\ open = "open" => reader # "none"
  /\ closing = "resolved" => reader \notin {"none", "open"}

(* No answer under way says more than is true. *)
Honest(reply) ==
  reply.result = Ok =>
    /\ reply.iq = OpenIq  => reader # "none"
    /\ reply.iq = CloseIq => reader \notin {"none", "open"}
    /\ \A n \in Blocks : reply.iq = DataIq(n) => n < Len(taken)

RepliesInv == \A i \in DOMAIN replies : Honest(replies[i])

StreamInv ==
  WireInv /\ SenderInv /\ WindowInv /\ ReceiverInv /\ OrderInv /\ RepliesInv /\ AckedMeansTaken

-----------------------------------------------------------------------------
(* Counting modulo SeqMod. *)

LEMMA Remainder ==
  ASSUME NEW m \in Nat \ {0}, NEW a \in Int
  PROVE  a % m \in 0..m - 1 /\ a = m * (a \div m) + (a % m) /\ a \div m \in Int
OBVIOUS

LEMMA RemainderIsUnique ==
  ASSUME NEW m \in Nat \ {0}, NEW q \in Int, NEW r \in 0..m - 1, NEW a \in Int, a = m * q + r
  PROVE  a % m = r
OBVIOUS

LEMMA SuccessorModulo ==
  ASSUME NEW m \in Nat \ {0}, NEW a \in Int
  PROVE  ((a % m) + 1) % m = (a + 1) % m
<1> DEFINE q == (a + 1) \div m - a \div m
           r == (a + 1) % m
<1>1. a + 1 = m * ((a + 1) \div m) + r /\ a = m * (a \div m) + (a % m)
      /\ q \in Int /\ r \in 0..m - 1 /\ (a % m) + 1 \in Int
  BY Remainder
<1>2. m * ((a + 1) \div m) - m * (a \div m) = m * q
  BY Remainder
<1>4. m * ((a + 1) \div m) \in Int /\ m * (a \div m) \in Int /\ a % m \in Int
  BY Remainder
<1> HIDE DEF q, r
<1>3. (a % m) + 1 = m * q + r
  BY <1>1, <1>2, <1>4
<1>. QED BY <1>1, <1>3, RemainderIsUnique DEF r

(* How far b is behind a, told from their remainders. *)
LEMMA DistanceModulo ==
  ASSUME NEW m \in Nat \ {0}, NEW a \in Int, NEW b \in Int
  PROVE  /\ a - b \in 0..m - 1 => ((a % m) - (b % m) + m) % m = a - b
         /\ b - a \in 1..m - 1 => ((a % m) - (b % m) + m) % m = m - (b - a)
<1> DEFINE d == (a % m) - (b % m) + m
           q == b \div m - a \div m
<1>1. a = m * (a \div m) + (a % m) /\ b = m * (b \div m) + (b % m) /\ q \in Int /\ d \in Int
  BY Remainder
<1>2. m * (b \div m) - m * (a \div m) = m * q /\ m * (q + 1) = m * q + m
  BY Remainder
<1>3. d = m * (q + 1) + (a - b) /\ d = m * q + (m - (b - a))
  BY <1>1, <1>2, Remainder
<1>4. m * (q + 1) \in Int /\ q + 1 \in Int
  BY <1>1
<1> HIDE DEF d, q
<1>5. a - b \in 0..m - 1 => d % m = a - b
  BY <1>1, <1>3, <1>4, RemainderIsUnique
<1>6. b - a \in 1..m - 1 => d % m = m - (b - a)
  <2> SUFFICES ASSUME b - a \in 1..m - 1 PROVE d % m = m - (b - a)
    OBVIOUS
  <2>1. m - (b - a) \in 0..m - 1
    OBVIOUS
  <2>. QED BY <1>1, <1>3, <2>1, RemainderIsUnique
<1>. QED BY <1>5, <1>6 DEF d

-----------------------------------------------------------------------------
(* The window. *)

LEMMA UnackedIsFinite ==
  ASSUME TypeOK
  PROVE  IsFiniteSet(Blocks) /\ IsFiniteSet(Unacked) /\ Cardinality(Unacked) \in Nat
<1>1. IsFiniteSet(Blocks)
  BY FS_Interval, StreamAssumption DEF StreamAssumption, Blocks
<1>. QED BY <1>1, FS_Subset, FS_CardinalityType DEF Unacked

LEMMA IntervalSize ==
  ASSUME NEW a \in Int, NEW b \in Int, a <= b + 1
  PROVE  IsFiniteSet(a..b) /\ Cardinality(a..b) = b - a + 1
BY FS_Interval

(* The blocks the receiver has not taken fit in the window. *)
LEMMA NotTakenFits ==
  ASSUME TypeOK, WindowInv, AckedMeansTaken
  PROVE  dispatched - Len(taken) <= Window
<1>1. Len(taken) \in Nat /\ dispatched \in 0..MaxBlocks
  BY LenProperties, StreamAssumption DEF TypeOK, StreamAssumption
<1>2. Len(taken)..dispatched - 1 \subseteq Unacked
  BY <1>1, StreamAssumption DEF Unacked, Blocks, AckedMeansTaken, StreamAssumption
<1>3. Cardinality(Len(taken)..dispatched - 1) <= Cardinality(Unacked)
  BY <1>2, UnackedIsFinite, FS_Subset
<1>4. Len(taken) <= dispatched =>
        Cardinality(Len(taken)..dispatched - 1) = dispatched - Len(taken)
  <2>1. Len(taken) \in Int /\ dispatched - 1 \in Int
    BY <1>1, StreamAssumption DEF StreamAssumption
  <2>. QED BY <1>1, <2>1, IntervalSize
<1>. QED BY <1>1, <1>3, <1>4, UnackedIsFinite, StreamAssumption DEF WindowInv, StreamAssumption

(* A block that arrives at a live stream: seq tells the next one from a    *)
(* copy, wherever in the replay and the window it comes from.              *)
LEMMA SeqTellsBlocks ==
  ASSUME TypeOK, WireInv, WindowInv, ReceiverInv, OrderInv, AckedMeansTaken,
         registered, Deliver, wire[next + 1].kind = "data"
  PROVE  LET n == next - 1 IN
           /\ wire[next + 1] = DataIq(n) /\ n \in Blocks /\ n < dispatched
           /\ wire[next + 1].block = n
           /\ wire[next + 1].seq = expectedSeq => n = Len(taken)
           /\ IsRedelivery(wire[next + 1].seq) => n < Len(taken)
<1> USE StreamAssumption DEF StreamAssumption
<1> DEFINE n == next - 1
           t == Len(taken)
<1>0. SeqMod \in Nat \ {0}
  OBVIOUS
<1>1. next + 1 \in 1..Len(wire) /\ DOMAIN wire = 1..Len(wire) /\ next \in Nat
  BY DeliveredTyped, LenProperties DEF TypeOK
<1>2. wire[next + 1] = DataIq(n) /\ next + 1 # 1 /\ next + 1 <= dispatched + 1
  <2>1. OpenIq.kind # "data" /\ CloseIq.kind # "data"
    BY DEF OpenIq, CloseIq
  <2>. QED BY <1>1, <2>1 DEF WireInv
<1>3. n \in Blocks /\ n < dispatched /\ n \in Nat
  BY <1>1, <1>2 DEF TypeOK, Blocks
<1>4. wire[next + 1].block = n /\ wire[next + 1].seq = n % SeqMod
  BY <1>2 DEF DataIq
<1>5. expectedSeq = t % SeqMod /\ t \in Nat
  BY LenProperties DEF ReceiverInv, TypeOK
<1>6. n - t < Window /\ t - n <= ReplayDepth
  <2>1. dispatched - t <= Window
    BY NotTakenFits
  <2>2. t < arrived \/ t = 0
    BY LenProperties, EmptySeq DEF ReceiverInv, TypeOK
  <2>3. arrived \in Nat /\ next >= arrived - ReplayDepth
    BY LenProperties DEF ReceiverInv, TypeOK
  <2>. QED BY <1>1, <1>3, <1>5, <2>1, <2>2, <2>3 DEF TypeOK
<1> HIDE DEF t, n
<1>10. t \in Int /\ n \in Int
  BY <1>3, <1>5
<1>7. /\ t - n \in 0..SeqMod - 1 => ((t % SeqMod) - (n % SeqMod) + SeqMod) % SeqMod = t - n
      /\ n - t \in 1..SeqMod - 1 => ((t % SeqMod) - (n % SeqMod) + SeqMod) % SeqMod = SeqMod - (n - t)
  BY <1>0, <1>10, DistanceModulo
<1>8. n % SeqMod = expectedSeq => n = t
  <2> SUFFICES ASSUME n % SeqMod = t % SeqMod PROVE n = t
    BY <1>5
  <2>1. ((t % SeqMod) - (n % SeqMod) + SeqMod) % SeqMod = 0
    <3>1. t % SeqMod \in Int
      BY <1>0, <1>5, Remainder
    <3>2. (t % SeqMod) - (n % SeqMod) + SeqMod = SeqMod * 1 + 0
      BY <1>0, <3>1
    <3>. QED BY <1>0, <3>2, RemainderIsUnique
  <2>. QED BY <1>3, <1>5, <1>6, <1>7, <2>1
<1>9. IsRedelivery(n % SeqMod) => n < t
  BY <1>3, <1>5, <1>6, <1>7 DEF IsRedelivery
<1>. QED BY <1>2, <1>3, <1>4, <1>8, <1>9 DEF n, t

-----------------------------------------------------------------------------
(* Answers stay honest: an end only learns more. *)

HonestAfter(reply) ==
  reply.result = Ok =>
    /\ reply.iq = OpenIq  => reader' # "none"
    /\ reply.iq = CloseIq => reader' \notin {"none", "open"}
    /\ \A n \in Blocks : reply.iq = DataIq(n) => n < Len(taken')

OnlyLearns ==
  /\ reader # "none" => reader' # "none"
  /\ reader \notin {"none", "open"} => reader' \notin {"none", "open"}
  /\ Len(taken) <= Len(taken')

LEMMA HonestForms ==
  /\ \A iq \in Stanzas : HonestAfter(Reply(iq, Refused))
  /\ reader' # "none" => HonestAfter(Reply(OpenIq, Ok))
  /\ reader' \notin {"none", "open"} => HonestAfter(Reply(CloseIq, Ok))
  /\ \A n \in Blocks : n < Len(taken') => HonestAfter(Reply(DataIq(n), Ok))
<1>1. Ok # Refused
  BY DEF Ok, Refused
<1>2. \A m, n \in Blocks : DataIq(m) = DataIq(n) => m = n
  BY DEF DataIq
<1>. QED BY <1>1, <1>2, StanzaForms, ReplyForms DEF HonestAfter

LEMMA RepliesKept ==
  ASSUME TypeOK, TypeOK', RepliesInv, OnlyLearns,
         NEW answers \in Seq(Replies), Answer(answers),
         \A i \in DOMAIN answers : HonestAfter(answers[i])
  PROVE  RepliesInv'
<1>1. replies \in Seq(Replies) /\ replies' = replies \o answers
  BY DEF TypeOK, Replies, Answer
<1>2. \A i \in DOMAIN replies' : \/ \E j \in DOMAIN replies : replies'[i] = replies[j]
                                 \/ \E j \in DOMAIN answers : replies'[i] = answers[j]
  BY <1>1, Appended
<1>3. \A j \in DOMAIN replies : HonestAfter(replies[j])
  <2> SUFFICES ASSUME NEW j \in DOMAIN replies PROVE HonestAfter(replies[j])
    OBVIOUS
  <2>1. Honest(replies[j])
    BY DEF RepliesInv
  <2>2. Len(taken) \in Nat /\ Len(taken') \in Nat
    BY LenProperties DEF TypeOK
  <2>. QED BY <2>1, <2>2 DEF Honest, HonestAfter, OnlyLearns, Blocks
<1>4. \A i \in DOMAIN replies' : HonestAfter(replies'[i])
  BY <1>2, <1>3
<1>. QED BY <1>4 DEF HonestAfter, Honest, RepliesInv

LEMMA RepliesUntouched ==
  ASSUME TypeOK, TypeOK', RepliesInv, OnlyLearns, UNCHANGED replies
  PROVE  RepliesInv'
<1>1. <<>> \in Seq(Replies) /\ DOMAIN <<>> = {}
  OBVIOUS
<1>2. Answer(<<>>)
  BY ConcatEmptySeq DEF Answer, TypeOK
<1>. QED BY <1>1, <1>2, RepliesKept

LEMMA OneAnswer ==
  ASSUME TypeOK, TypeOK', RepliesInv, OnlyLearns,
         NEW reply \in Replies, HonestAfter(reply), Answer(<<reply>>)
  PROVE  RepliesInv'
<1>1. <<reply>> \in Seq(Replies) /\ DOMAIN <<reply>> = {1} /\ <<reply>>[1] = reply
  OBVIOUS
<1>. QED BY <1>1, RepliesKept

LEMMA WithheldHonest ==
  ASSUME TypeOK, TypeOK', ReceiverInv, OnlyLearns, NEW result \in {Ok, Refused}
  PROVE  /\ WithheldAs(result) \in Seq(Replies)
         /\ \A i \in DOMAIN WithheldAs(result) : HonestAfter(WithheldAs(result)[i])
<1>1. \A i \in DOMAIN withheld : withheld[i] < Len(taken')
  <2>1. Len(taken) \in Nat /\ Len(taken') \in Nat
    BY LenProperties DEF TypeOK
  <2>2. \A i \in DOMAIN withheld : withheld[i] \in Blocks /\ withheld[i] < Len(taken)
    BY WithheldAnswers DEF ReceiverInv
  <2>. QED BY <2>1, <2>2 DEF OnlyLearns, Blocks
<1>2. \A i \in DOMAIN withheld : HonestAfter(Reply(DataIq(withheld[i]), result))
  BY <1>1, WithheldAnswers, StanzaForms, HonestForms
<1>. QED BY <1>2, WithheldAnswers

(* The stream's end at the receiver. *)
LEMMA FinishKeeps ==
  ASSUME TypeOK, TypeOK', ReceiverInv, RepliesInv, registered,
         NEW end \in {"ended", "errored", "cancelled"}, NEW first \in Seq(Replies),
         Finish(end, first), UNCHANGED taken,
         \A i \in DOMAIN first : HonestAfter(first[i])
  PROVE  RepliesInv' /\ OnlyLearns
<1> DEFINE woken == WithheldAs(IF end = "cancelled" THEN Ok ELSE Refused)
<1>1. OnlyLearns
  BY LenProperties DEF Finish, OnlyLearns, ReceiverInv, TypeOK
<1>2. woken \in Seq(Replies) /\ \A i \in DOMAIN woken : HonestAfter(woken[i])
  BY <1>1, WithheldHonest
<1>3. Answer(first \o woken)
  BY DEF Finish
<1> HIDE DEF woken
<1>4. /\ first \o woken \in Seq(Replies)
      /\ \A i \in DOMAIN (first \o woken) : \/ \E j \in DOMAIN first : (first \o woken)[i] = first[j]
                                            \/ \E j \in DOMAIN woken : (first \o woken)[i] = woken[j]
  BY <1>2, Appended
<1>5. \A i \in DOMAIN (first \o woken) : HonestAfter((first \o woken)[i])
  BY <1>2, <1>4
<1>. QED BY <1>1, <1>3, <1>4, <1>5, RepliesKept

LEMMA FinishedReceiver ==
  ASSUME TypeOK, TypeOK', ReceiverInv, OrderInv, registered,
         NEW end \in {"ended", "errored", "cancelled"}, NEW first, Finish(end, first),
         UNCHANGED <<taken, expectedSeq, open, closing, dispatched>>,
         expectation' = expectation \/ expectation' = "over",
         arrived <= arrived', next' >= arrived' - ReplayDepth
  PROVE  ReceiverInv' /\ OrderInv'
<1>1. registered' = FALSE /\ reader' = end /\ withheld' = <<>>
  BY DEF Finish
<1>2. arrived \in Nat /\ arrived' \in Nat /\ Len(taken) \in Nat
  BY LenProperties DEF TypeOK
<1>3. InOrder'
  BY DEF ReceiverInv, InOrder
<1>. QED BY <1>1, <1>2, <1>3 DEF ReceiverInv, OrderInv

-----------------------------------------------------------------------------
(* The invariant through every step. *)

LEMMA SenderFrame ==
  ASSUME TypeOK, WireInv, SenderInv, WindowInv, UNCHANGED <<senderVars, wire>>
  PROVE  WireInv' /\ SenderInv' /\ WindowInv'
<1> USE DEF senderVars
<1>1. Unacked' = Unacked
  BY DEF Unacked
<1>2. WireInv'
  BY DEF WireInv
<1>3. SenderInv'
  BY DEF SenderInv, Gone, AllAcked
<1>. QED BY <1>1, <1>2, <1>3 DEF WindowInv

LEMMA ReceiverFrame ==
  ASSUME TypeOK, TypeOK', ReceiverInv, UNCHANGED <<receiverVars, next, arrived>>
  PROVE  ReceiverInv' /\ OnlyLearns
<1> USE DEF receiverVars
<1>1. InOrder'
  BY DEF ReceiverInv, InOrder
<1>2. ReceiverInv'
  BY <1>1 DEF ReceiverInv
<1>. QED BY <1>2, LenProperties DEF OnlyLearns, TypeOK

(* A step that shows the receiver nothing and answers nothing. *)
LEMMA SenderStep ==
  ASSUME TypeOK, TypeOK', StreamInv, UNCHANGED <<replies, receiverVars, next, arrived>>
  PROVE  ReceiverInv' /\ RepliesInv'
BY ReceiverFrame, RepliesUntouched DEF StreamInv

LEMMA OpenOutgoingKeeps ==
  ASSUME TypeOK, TypeOK', StreamInv, OpenOutgoing
  PROVE  StreamInv'
<1>1. Send(OpenIq) /\ open = "no" /\ open' = "asked"
      /\ UNCHANGED <<written, dispatched, answer, failed, closing, replies, receiverVars>>
  BY DEF OpenOutgoing
<1>2. wire = <<>> /\ Len(wire) = 0 /\ dispatched = 0 /\ written = 0 /\ closing = "no" /\ failed = NotFailed
  BY <1>1, EmptySeq DEF StreamInv, WireInv, TypeOK
<1>3. Len(wire') = 1 /\ wire'[1] = OpenIq /\ DOMAIN wire' = 1..1
  BY <1>1, <1>2, SentTyped, StanzaForms, LenProperties
<1>4. WireInv'
  BY <1>1, <1>2, <1>3 DEF WireInv
<1>5. SenderInv'
  BY <1>1, <1>2, <1>3 DEF StreamInv, SenderInv, Gone
<1>6. Unacked' = Unacked /\ AckedMeansTaken'
  BY <1>1 DEF Unacked, AckedMeansTaken, StreamInv, receiverVars
<1>7. OrderInv'
  BY <1>1, <1>2 DEF StreamInv, OrderInv, receiverVars
<1>. QED BY <1>1, <1>4, <1>5, <1>6, <1>7, SenderStep DEF StreamInv, WindowInv, Send

LEMMA WriteKeeps ==
  ASSUME TypeOK, TypeOK', StreamInv, Write
  PROVE  StreamInv'
<1>1. open = "open" /\ failed = NotFailed /\ closing = "no"
      /\ UNCHANGED <<open, dispatched, answer, failed, closing, netVars, replies, receiverVars>>
  BY DEF Write, Usable
<1>2. ~Gone
  BY <1>1, StreamAssumption DEF StreamInv, SenderInv, Aborted, NotFailed, StreamAssumption
<1>3. WireInv' /\ SenderInv'
  BY <1>1, <1>2 DEF StreamInv, WireInv, SenderInv, Gone, netVars
<1>4. Unacked' = Unacked /\ AckedMeansTaken' /\ OrderInv'
  BY <1>1 DEF Unacked, AckedMeansTaken, OrderInv, StreamInv, receiverVars
<1>. QED BY <1>1, <1>3, <1>4, SenderStep DEF StreamInv, WindowInv, netVars

LEMMA DispatchKeeps ==
  ASSUME TypeOK, TypeOK', StreamInv, Dispatch
  PROVE  StreamInv'
<1> USE StreamAssumption DEF StreamAssumption
<1>1. /\ dispatched < written /\ failed = NotFailed /\ InFlight < Window
      /\ dispatched' = dispatched + 1 /\ answer' = [answer EXCEPT ![dispatched] = "pending"]
      /\ Send(DataIq(dispatched))
      /\ UNCHANGED <<open, written, failed, closing, replies, receiverVars>>
  BY DEF Dispatch, DispatchedBy
<1>2. dispatched \in Blocks /\ dispatched \in Nat /\ open = "open"
  BY <1>1 DEF TypeOK, Blocks, StreamInv, WireInv
<1>3. ~Gone
  BY <1>1, <1>2 DEF StreamInv, SenderInv, AllAcked, Aborted, NotFailed, TypeOK
<1>4. Len(wire) = dispatched + 1 /\ DOMAIN wire = 1..Len(wire)
  BY <1>1, <1>2, <1>3, LenProperties DEF StreamInv, WireInv, Gone, TypeOK
<1>5. /\ Len(wire') = dispatched + 2 /\ DOMAIN wire' = 1..dispatched + 2
      /\ \A i \in 1..dispatched + 1 : wire'[i] = wire[i]
      /\ wire'[dispatched + 2] = DataIq(dispatched)
  <2>1. DataIq(dispatched) \in Stanzas
    BY <1>2, StanzaForms
  <2>. QED BY <1>1, <1>2, <1>4, <2>1, SentTyped, LenProperties
<1>6. WireInv'
  <2>1. \A i \in DOMAIN wire' : wire'[i] = IF i = 1 THEN OpenIq
                                          ELSE IF i <= dispatched' + 1 THEN DataIq(i - 2) ELSE CloseIq
    BY <1>1, <1>2, <1>4, <1>5 DEF StreamInv, WireInv
  <2>. QED BY <1>1, <1>2, <1>5, <2>1 DEF WireInv
<1>7. SenderInv'
  <2>1. ~Gone'
    BY <1>1, <1>2, <1>5 DEF Gone
  <2>2. \A n \in Blocks : answer'[n] = IF n = dispatched THEN "pending" ELSE answer[n]
    BY <1>1, <1>2 DEF TypeOK
  <2>3. closing' \notin {"sent", "resolved"}
    BY <1>1, <1>3 DEF StreamInv, SenderInv
  <2>. QED BY <1>1, <1>2, <2>1, <2>2, <2>3 DEF StreamInv, SenderInv, Blocks
<1>8. WindowInv'
  <2>1. Unacked = {n \in Blocks : answer[n] = "pending"}
    <3>1. \A n \in Blocks : answer[n] \notin {"refused", "timeout"}
      BY <1>1 DEF StreamInv, SenderInv, Blocks, NotFailed
    <3>2. \A n \in Blocks : answer[n] \in {"none", "pending", "acked", "refused", "timeout"}
      BY DEF TypeOK
    <3>. QED BY <1>2, <3>1, <3>2 DEF Unacked, StreamInv, SenderInv, Blocks
  <2>2. Unacked' = Unacked \cup {dispatched}
    <3>1. \A n \in Blocks : answer'[n] = IF n = dispatched THEN "pending" ELSE answer[n]
      BY <1>1, <1>2 DEF TypeOK
    <3>2. \A n \in Blocks : n < dispatched + 1 <=> n < dispatched \/ n = dispatched
      BY <1>2 DEF Blocks
    <3>3. \A n \in Blocks : n < dispatched' /\ answer'[n] # "acked" <=> n \in Unacked \/ n = dispatched
      BY <1>1, <1>2, <3>1, <3>2 DEF Unacked
    <3>4. Unacked' = {n \in Blocks : n < dispatched' /\ answer'[n] # "acked"}
      BY DEF Unacked
    <3>. QED BY <1>2, <3>3, <3>4 DEF Unacked
  <2>3. Cardinality(Unacked \cup {dispatched}) = Cardinality(Unacked) + 1
    <3>1. dispatched \notin Unacked
      BY <1>2 DEF Unacked
    <3>. QED BY <3>1, UnackedIsFinite, FS_AddElement
  <2>4. Cardinality(Unacked) < Window /\ Cardinality(Unacked) \in Nat
    BY <1>1, <2>1, UnackedIsFinite DEF InFlight
  <2>5. Cardinality(Unacked') <= Window
    BY <2>2, <2>3, <2>4
  <2>. QED BY <2>5 DEF WindowInv
<1>9. AckedMeansTaken' /\ OrderInv'
  <2>1. Len(taken) \in Nat
    BY LenProperties DEF TypeOK
  <2>. QED BY <1>1, <1>2, <2>1 DEF AckedMeansTaken, OrderInv, StreamInv, receiverVars, TypeOK
<1>. QED BY <1>1, <1>6, <1>7, <1>8, <1>9, SenderStep DEF StreamInv, Send

LEMMA CloseKeeps ==
  ASSUME TypeOK, TypeOK', StreamInv, Close \/ CloseThrows
  PROVE  StreamInv'
<1>1. /\ closing \in {"no", "draining"} /\ closing' \in {"draining", "rejected"} /\ open = "open"
      /\ UNCHANGED <<open, written, dispatched, answer, failed, netVars, replies, receiverVars>>
  BY DEF Close, CloseThrows, Usable, StreamInv, WireInv, TypeOK
<1>2. WireInv' /\ SenderInv'
  BY <1>1 DEF StreamInv, WireInv, SenderInv, Gone, netVars
<1>3. Unacked' = Unacked /\ AckedMeansTaken' /\ OrderInv'
  BY <1>1 DEF Unacked, AckedMeansTaken, OrderInv, StreamInv, receiverVars
<1>. QED BY <1>1, <1>2, <1>3, SenderStep DEF StreamInv, WindowInv, netVars

(* The <close/> goes out, from close() or from an abort. *)
LEMMA CloseSentKeeps ==
  ASSUME TypeOK, TypeOK', StreamInv, CloseDrained \/ Abort
  PROVE  StreamInv'
<1> USE StreamAssumption DEF StreamAssumption
<1>1. /\ Send(CloseIq) /\ failed = NotFailed
      /\ UNCHANGED <<open, written, dispatched, answer, replies, receiverVars>>
  BY DEF CloseDrained, Abort
<1>2. /\ open = "open" /\ dispatched \in Nat
  BY DEF CloseDrained, Abort, StreamInv, WireInv, TypeOK
<1>3. ~Gone
  <2>1. CASE CloseDrained
    BY <1>1, <2>1 DEF CloseDrained, StreamInv, SenderInv, Aborted, NotFailed
  <2>2. CASE Abort
    <3>1. Gone => wire[dispatched + 2] = CloseIq /\ dispatched + 2 \in DOMAIN wire
      <4> SUFFICES ASSUME Gone PROVE wire[dispatched + 2] = CloseIq /\ dispatched + 2 \in DOMAIN wire
        OBVIOUS
      <4>1. DOMAIN wire = 1..dispatched + 2
        BY LenProperties DEF Gone, TypeOK
      <4>. QED BY <1>2, <4>1 DEF StreamInv, WireInv
    <3>. QED BY <2>2, <3>1 DEF Abort, CloseSent
  <2>. QED BY <2>1, <2>2
<1>4. Len(wire) = dispatched + 1 /\ DOMAIN wire = 1..Len(wire)
  BY <1>2, <1>3, LenProperties DEF StreamInv, WireInv, Gone, TypeOK
<1>5. /\ Len(wire') = dispatched + 2 /\ DOMAIN wire' = 1..dispatched + 2
      /\ \A i \in 1..dispatched + 1 : wire'[i] = wire[i]
      /\ wire'[dispatched + 2] = CloseIq
  BY <1>1, <1>2, <1>4, StanzaForms, SentTyped, LenProperties
<1>6. WireInv'
  BY <1>1, <1>2, <1>4, <1>5 DEF StreamInv, WireInv
<1>7. SenderInv'
  <2>1. Gone'
    BY <1>1, <1>5 DEF Gone
  <2>2. CASE Abort
    <3>1. failed' = Aborted /\ closing' = closing /\ closing \notin {"sent", "resolved"}
      BY <1>3, <2>2 DEF Abort, StreamInv, SenderInv
    <3>. QED BY <1>1, <2>1, <3>1 DEF StreamInv, SenderInv, Aborted, NotFailed, Blocks
  <2>3. CASE CloseDrained
    <3>1. failed' = NotFailed /\ closing' = "sent" /\ dispatched = written /\ InFlight = 0
      BY <1>1, <2>3 DEF CloseDrained
    <3>2. {n \in Blocks : answer[n] = "pending"} = {}
      <4>1. IsFiniteSet({n \in Blocks : answer[n] = "pending"})
        BY UnackedIsFinite, FS_Subset
      <4>. QED BY <3>1, <4>1, FS_EmptySet DEF InFlight
    <3>3. \A n \in 0..dispatched - 1 : answer[n] = "acked"
      <4> SUFFICES ASSUME NEW n \in 0..dispatched - 1 PROVE answer[n] = "acked"
        OBVIOUS
      <4>1. n \in Blocks /\ n < dispatched /\ n < NotFailed /\ n \in Int /\ dispatched \in Int
        BY DEF TypeOK, Blocks, NotFailed
      <4>4. answer[n] # "none"
        BY <4>1 DEF StreamInv, SenderInv
      <4>2. answer[n] # "none" /\ answer[n] # "pending"
        BY <3>2, <4>1, <4>4
      <4>3. answer[n] \notin {"refused", "timeout"}
        BY <1>1, <4>1 DEF StreamInv, SenderInv, NotFailed, Blocks
      <4>. QED BY <4>1, <4>2, <4>3 DEF TypeOK
    <3>. QED BY <1>1, <2>1, <3>1, <3>3 DEF StreamInv, SenderInv, AllAcked
  <2>. QED BY <2>2, <2>3
<1>8. Unacked' = Unacked /\ AckedMeansTaken'
  BY <1>1 DEF Unacked, AckedMeansTaken, StreamInv, receiverVars
<1>9. OrderInv'
  BY <1>1 DEF CloseDrained, Abort, OrderInv, StreamInv, receiverVars
<1>. QED BY <1>1, <1>6, <1>7, <1>8, <1>9, SenderStep DEF StreamInv, WindowInv, Send

(* The window does not grow. *)
LEMMA WindowShrinks ==
  ASSUME TypeOK, WindowInv, Unacked' \subseteq Unacked
  PROVE  WindowInv'
<1>1. IsFiniteSet(Unacked') /\ Cardinality(Unacked') <= Cardinality(Unacked) /\ Cardinality(Unacked') \in Nat
  BY UnackedIsFinite, FS_Subset, FS_CardinalityType
<1>. QED BY <1>1, UnackedIsFinite, StreamAssumption DEF WindowInv, StreamAssumption

(* A block's request settles: acked, refused or out of time. *)
LEMMA BlockSettles ==
  ASSUME TypeOK, TypeOK', StreamInv, NEW n \in Blocks, answer[n] = "pending",
         NEW how \in {"acked", "refused", "timeout"}, how = "acked" => n < Len(taken),
         answer' = [answer EXCEPT ![n] = how],
         failed' = IF how # "acked" /\ n < failed THEN n ELSE failed,
         UNCHANGED <<open, closing, written, dispatched, wire, receiverVars>>
  PROVE  WireInv' /\ SenderInv' /\ WindowInv' /\ OrderInv' /\ AckedMeansTaken'
<1> USE StreamAssumption DEF StreamAssumption
<1>1. n \in 0..dispatched - 1 /\ n \in Nat /\ dispatched \in Nat
  BY DEF StreamInv, SenderInv, Blocks, TypeOK
<1>2. ~AllAcked
  BY <1>1 DEF AllAcked
<1>3. closing \notin {"sent", "resolved"} /\ (Gone => failed = Aborted) /\ open = "open"
  BY <1>1, <1>2 DEF StreamInv, SenderInv, WireInv, Aborted, NotFailed, TypeOK
<1>4. \A m \in Blocks : answer'[m] = IF m = n THEN how ELSE answer[m]
  BY DEF TypeOK
<1>5. WireInv'
  BY <1>3 DEF StreamInv, WireInv
<1>6. Gone' => failed' = Aborted
  BY <1>1, <1>3 DEF Gone, Aborted
<1>7. \A m \in Blocks : answer'[m] \in {"refused", "timeout"} => failed' <= m
  <2>1. failed \in Int /\ \A m \in Blocks : m \in Int
    BY DEF TypeOK, Blocks, NotFailed
  <2>. QED BY <1>1, <1>4, <2>1 DEF StreamInv, SenderInv
<1>8. \A m \in Blocks : answer'[m] = "none" <=> m >= dispatched'
  BY <1>1, <1>4 DEF StreamInv, SenderInv, Blocks
<1>9. SenderInv'
  BY <1>3, <1>6, <1>7, <1>8 DEF SenderInv
<1>10. Unacked' \subseteq Unacked
  BY <1>1, <1>4 DEF Unacked
<1>11. WindowInv'
  BY <1>10, WindowShrinks DEF StreamInv
<1>12. OrderInv' /\ AckedMeansTaken'
  BY <1>4 DEF StreamInv, OrderInv, AckedMeansTaken, receiverVars
<1>. QED BY <1>5, <1>9, <1>11, <1>12

LEMMA SettleKeeps ==
  ASSUME TypeOK, TypeOK', StreamInv, NEW iq \in Stanzas, NEW result \in {Ok, Refused},
         Honest(Reply(iq, result)), Settle(iq, result),
         UNCHANGED <<written, dispatched, wire, receiverVars>>
  PROVE  WireInv' /\ SenderInv' /\ WindowInv' /\ OrderInv' /\ AckedMeansTaken'
<1> USE StreamAssumption DEF StreamAssumption
<1>0. Ok # Refused /\ Reply(iq, result).iq = iq /\ Reply(iq, result).result = result
  BY ReplyForms DEF Ok, Refused
<1>1. CASE iq = OpenIq
  <2>1. /\ UNCHANGED <<answer, failed, closing>>
        /\ open' = IF open # "asked" THEN open ELSE IF result = Ok THEN "open" ELSE "refused"
        /\ result = Ok => reader # "none"
    BY <1>0, <1>1, SettleForms DEF Honest
  <2>2. Unacked' = Unacked /\ AckedMeansTaken'
    BY <2>1 DEF Unacked, AckedMeansTaken, StreamInv, receiverVars
  <2>3. WireInv'
    BY <2>1 DEF StreamInv, WireInv
  <2>4. SenderInv'
    BY <2>1 DEF StreamInv, SenderInv, Gone, AllAcked
  <2>5. OrderInv'
    BY <2>1 DEF StreamInv, OrderInv, receiverVars
  <2>. QED BY <2>2, <2>3, <2>4, <2>5 DEF StreamInv, WindowInv
<1>2. CASE iq = CloseIq
  <2>1. /\ UNCHANGED <<open, answer>>
        /\ closing' = IF closing # "sent" THEN closing
                      ELSE IF result = Ok THEN "resolved" ELSE "rejected"
        /\ failed' = IF closing = "sent" /\ result # Ok /\ failed = NotFailed
                     THEN dispatched ELSE failed
        /\ result = Ok => reader \notin {"none", "open"}
    BY <1>0, <1>2, StanzaForms, SettleForms DEF Honest
  <2>2. Unacked' = Unacked /\ AckedMeansTaken'
    BY <2>1 DEF Unacked, AckedMeansTaken, StreamInv, receiverVars
  <2>3. OrderInv'
    BY <2>1 DEF StreamInv, OrderInv, receiverVars
  <2>4. CASE closing # "sent"
    BY <2>1, <2>2, <2>3, <2>4 DEF StreamInv, WireInv, SenderInv, WindowInv, Gone, AllAcked
  <2>5. CASE closing = "sent"
    <3>1. Gone /\ failed = NotFailed /\ AllAcked /\ open = "open" /\ dispatched \in Nat
      BY <2>5 DEF StreamInv, SenderInv, WireInv, Aborted, NotFailed, TypeOK
    <3>2. closing' \in {"resolved", "rejected"} /\ (closing' = "resolved" => failed' = NotFailed)
      BY <2>1, <2>5, <3>1
    <3>3. \A n \in Blocks : answer[n] \notin {"refused", "timeout"}
      BY <3>1 DEF StreamInv, SenderInv, AllAcked, Blocks
    <3>4. Gone' /\ AllAcked'
      BY <2>1, <3>1 DEF Gone, AllAcked
    <3>5. WireInv'
      BY <2>1, <3>1 DEF StreamInv, WireInv
    <3>6. SenderInv'
      BY <2>1, <3>2, <3>3, <3>4 DEF StreamInv, SenderInv
    <3>. QED BY <2>2, <2>3, <3>5, <3>6 DEF StreamInv, WindowInv
  <2>. QED BY <2>4, <2>5
<1>3. CASE iq # OpenIq /\ iq # CloseIq
  <2>1. PICK n \in Blocks : n = iq.block /\ iq = DataIq(n)
    BY <1>3, SettleForms
  <2>2. UNCHANGED <<open, closing>>
    BY <1>3, SettleForms
  <2>3. CASE UNCHANGED <<answer, failed>>
    BY <2>2, <2>3, SenderFrame DEF StreamInv, senderVars, OrderInv, AckedMeansTaken, receiverVars
  <2>4. CASE ~UNCHANGED <<answer, failed>>
    <3>1. /\ answer[n] = "pending"
          /\ \/ result = Ok /\ answer' = [answer EXCEPT ![n] = "acked"] /\ UNCHANGED failed
             \/ /\ answer' = [answer EXCEPT ![n] = "refused"]
                /\ failed' = IF n < failed THEN n ELSE failed
      BY <1>3, <2>1, <2>4, SettleForms
    <3>2. result = Ok => n < Len(taken)
      BY <1>0, <2>1 DEF Honest
    <3>. QED BY <2>2, <3>1, <3>2, BlockSettles
  <2>. QED BY <2>3, <2>4
<1>. QED BY <1>1, <1>2, <1>3

LEMMA ReceiveReplyKeeps ==
  ASSUME TypeOK, TypeOK', StreamInv, ReceiveReply
  PROVE  StreamInv'
<1> DEFINE r == Head(replies)
<1>1. replies \in Seq(Replies) /\ replies # <<>>
  BY DEF ReceiveReply, TypeOK, Replies
<1>2. r \in Replies /\ replies' = Tail(replies) /\ DOMAIN replies = 1..Len(replies) /\ Len(replies) \in Nat
      /\ Len(replies') = Len(replies) - 1 /\ DOMAIN replies' = 1..Len(replies')
      /\ \A i \in 1..Len(replies') : replies'[i] = replies[i + 1]
  BY <1>1, HeadTailProperties, LenProperties DEF ReceiveReply
<1>3. r = replies[1] /\ 1 \in DOMAIN replies
  BY <1>1, <1>2, EmptySeq
<1>4. r.iq \in Stanzas /\ r.result \in {Ok, Refused} /\ r = Reply(r.iq, r.result)
  BY <1>2 DEF Replies, Reply
<1>5. Settle(r.iq, r.result) /\ UNCHANGED <<written, dispatched, netVars, receiverVars>>
  BY DEF ReceiveReply
<1>6. Honest(Reply(r.iq, r.result))
  BY <1>3, <1>4 DEF StreamInv, RepliesInv
<1> HIDE DEF r
<1>7. WireInv' /\ SenderInv' /\ WindowInv' /\ OrderInv' /\ AckedMeansTaken'
  BY <1>4, <1>5, <1>6, SettleKeeps DEF netVars
<1>8. ReceiverInv'
  BY <1>5, ReceiverFrame DEF StreamInv, netVars
<1>9. RepliesInv'
  <2>1. \A i \in DOMAIN replies' : Honest(replies'[i])
    BY <1>2 DEF StreamInv, RepliesInv
  <2>. QED BY <1>5, <2>1 DEF RepliesInv, Honest, receiverVars
<1>. QED BY <1>7, <1>8, <1>9 DEF StreamInv

LEMMA RequestTimeoutKeeps ==
  ASSUME TypeOK, TypeOK', StreamInv, RequestTimeout
  PROVE  StreamInv'
<1>1. UNCHANGED <<written, dispatched, netVars, replies, receiverVars>>
  BY DEF RequestTimeout
<1>2. \A iq \in Stanzas : Honest(Reply(iq, Refused))
  BY ReplyForms DEF Honest, Ok, Refused
<1>3. WireInv' /\ SenderInv' /\ WindowInv' /\ OrderInv' /\ AckedMeansTaken'
  <2>1. CASE Settle(OpenIq, Refused) \/ Settle(CloseIq, Refused)
    BY <1>1, <1>2, <2>1, StanzaForms, SettleKeeps DEF netVars
  <2>2. ASSUME NEW n \in Blocks, answer[n] = "pending", Latch(n),
               answer' = [answer EXCEPT ![n] = "timeout"], UNCHANGED <<open, closing>>
        PROVE  WireInv' /\ SenderInv' /\ WindowInv' /\ OrderInv' /\ AckedMeansTaken'
    BY <1>1, <2>2, BlockSettles DEF Latch, netVars
  <2>. QED BY <2>1, <2>2 DEF RequestTimeout
<1>. QED BY <1>1, <1>3, SenderStep DEF StreamInv, netVars

(* What the receiver and the network do leaves the sender's part alone. *)
LEMMA ReceiverStep ==
  ASSUME TypeOK, TypeOK', StreamInv, UNCHANGED <<senderVars, wire>>,
         Len(taken) <= Len(taken'), ReceiverInv', OrderInv', RepliesInv'
  PROVE  StreamInv'
<1>1. WireInv' /\ SenderInv' /\ WindowInv'
  BY SenderFrame DEF StreamInv
<1>2. AckedMeansTaken'
  <2>1. Len(taken) \in Nat /\ Len(taken') \in Nat
    BY LenProperties DEF TypeOK
  <2>3. \A n \in Blocks : n \in Int
    BY StreamAssumption DEF StreamAssumption, Blocks
  <2>2. answer' = answer
    BY DEF senderVars
  <2>. QED BY <2>1, <2>2, <2>3 DEF StreamInv, AckedMeansTaken
<1>. QED BY <1>1, <1>2 DEF StreamInv

LEMMA NetworkKeeps ==
  ASSUME TypeOK, TypeOK', StreamInv, Resume \/ Lose
  PROVE  StreamInv'
<1> USE StreamAssumption DEF StreamAssumption
<1>1. UNCHANGED <<senderVars, plan, wire, replies, receiverVars>>
  BY DEF Resume, Lose
<1>2. arrived' >= arrived /\ next' >= arrived' - ReplayDepth /\ arrived \in Nat /\ arrived' \in Nat
  <2>1. next \in 0..arrived /\ arrived \in 0..Len(wire) /\ Len(wire) \in Nat
    BY LenProperties DEF TypeOK
  <2>2. CASE Resume
    BY <2>1, <2>2 DEF Resume, PastTo
  <2>3. CASE Lose
    BY <2>1, <2>3 DEF Lose, PastTo, StreamInv, ReceiverInv
  <2>. QED BY <2>2, <2>3
<1>3. Len(taken) \in Nat /\ Len(taken') = Len(taken) /\ OnlyLearns
  BY <1>1, LenProperties DEF TypeOK, receiverVars, OnlyLearns
<1>4. ReceiverInv'
  <2>1. InOrder'
    BY <1>1 DEF StreamInv, ReceiverInv, InOrder, receiverVars
  <2>. QED BY <1>1, <1>2, <1>3, <2>1 DEF StreamInv, ReceiverInv, receiverVars
<1>5. OrderInv'
  BY <1>1 DEF StreamInv, OrderInv, senderVars, receiverVars
<1>6. RepliesInv'
  BY <1>1, <1>3, RepliesUntouched DEF StreamInv
<1>. QED BY <1>1, <1>3, <1>4, <1>5, <1>6, ReceiverStep

(* The stream begins, with the claim of a parked <open> or the <open>. *)
LEMMA CreateKeeps ==
  ASSUME TypeOK, TypeOK', StreamInv, CreateInStream, Answer(<<Reply(OpenIq, Ok)>>),
         expectation # "over", expectation' = "over", UNCHANGED <<senderVars, wire>>,
         arrived <= arrived', next' >= arrived' - ReplayDepth
  PROVE  StreamInv'
<1> USE StreamAssumption DEF StreamAssumption
<1>1. reader = "none" /\ taken = <<>> /\ Len(taken) = 0 /\ withheld = <<>>
  BY EmptySeq DEF StreamInv, ReceiverInv, TypeOK
<1>2. /\ registered' = TRUE /\ reader' = "open" /\ expectedSeq' = 0
      /\ UNCHANGED <<taken, withheld>>
  BY DEF CreateInStream
<1>3. 0 % SeqMod = 0
  <2>1. SeqMod \in Nat \ {0} /\ 0 \in 0..SeqMod - 1 /\ 0 = SeqMod * 0 + 0
    OBVIOUS
  <2>. QED BY <2>1, RemainderIsUnique
<1>4. ReceiverInv'
  <2>1. InOrder' /\ DOMAIN withheld' = {}
    BY <1>1, <1>2 DEF StreamInv, ReceiverInv, InOrder
  <2>. QED BY <1>1, <1>2, <1>3, <2>1 DEF ReceiverInv
<1>5. closing # "resolved"
  BY <1>1 DEF StreamInv, OrderInv
<1>6. OrderInv'
  BY <1>1, <1>2, <1>5 DEF StreamInv, OrderInv, senderVars
<1>7. OnlyLearns
  BY <1>1, <1>2 DEF OnlyLearns
<1>8. RepliesInv'
  <2>1. HonestAfter(Reply(OpenIq, Ok)) /\ Reply(OpenIq, Ok) \in Replies
    BY <1>2, HonestForms, ReplyForms, StanzaForms
  <2>. QED BY <1>7, <2>1, OneAnswer DEF StreamInv
<1>. QED BY <1>2, <1>4, <1>6, <1>7, <1>8, ReceiverStep DEF OnlyLearns

(* A stanza that is refused, or a copy that is acked, changes nothing.     *)
LEMMA AnswerOnlyKeeps ==
  ASSUME TypeOK, TypeOK', StreamInv, UNCHANGED <<senderVars, wire>>,
         arrived <= arrived', next' >= arrived' - ReplayDepth,
         NEW iq \in Stanzas, NEW result \in {Ok, Refused}, AnswerOnly(iq, result),
         result = Ok => \E n \in Blocks : iq = DataIq(n) /\ n < Len(taken)
  PROVE  StreamInv'
<1>1. UNCHANGED receiverVars /\ Answer(<<Reply(iq, result)>>)
  BY DEF AnswerOnly
<1>2. Len(taken) \in Nat /\ arrived \in Nat /\ arrived' \in Nat /\ OnlyLearns
  BY <1>1, LenProperties DEF TypeOK, receiverVars, OnlyLearns
<1>3. ReceiverInv'
  <2>1. InOrder'
    BY <1>1 DEF StreamInv, ReceiverInv, InOrder, receiverVars
  <2>. QED BY <1>1, <1>2, <2>1 DEF StreamInv, ReceiverInv, receiverVars
<1>4. OrderInv'
  BY <1>1 DEF StreamInv, OrderInv, senderVars, receiverVars
<1>5. HonestAfter(Reply(iq, result)) /\ Reply(iq, result) \in Replies
  BY <1>1, HonestForms, ReplyForms DEF receiverVars
<1>6. RepliesInv'
  BY <1>1, <1>2, <1>5, OneAnswer DEF StreamInv
<1>. QED BY <1>2, <1>3, <1>4, <1>6, ReceiverStep DEF OnlyLearns

(* The stream ends. *)
LEMMA EndKeeps ==
  ASSUME TypeOK, TypeOK', StreamInv, UNCHANGED <<senderVars, wire, taken, expectedSeq>>, registered,
         arrived <= arrived', next' >= arrived' - ReplayDepth,
         expectation' = expectation \/ expectation' = "over",
         NEW end \in {"ended", "errored", "cancelled"}, NEW first \in Seq(Replies), Finish(end, first),
         \A i \in DOMAIN first : HonestAfter(first[i])
  PROVE  StreamInv'
<1>1. RepliesInv' /\ OnlyLearns
  BY FinishKeeps DEF StreamInv
<1>2. ReceiverInv' /\ OrderInv'
  BY FinishedReceiver DEF StreamInv, senderVars
<1>. QED BY <1>1, <1>2, ReceiverStep DEF OnlyLearns

(* The next block is taken. *)
LEMMA TakeKeeps ==
  ASSUME TypeOK, TypeOK', StreamInv, UNCHANGED <<senderVars, wire>>, registered,
         next' = next + 1, arrived' >= next', next' >= arrived' - ReplayDepth,
         NEW iq \in Stanzas, iq = DataIq(Len(taken)), iq.block = Len(taken),
         Len(taken) = next - 1, Len(taken) \in Blocks, Len(taken) < dispatched,
         Take(iq)
  PROVE  StreamInv'
<1> USE StreamAssumption DEF StreamAssumption
<1> DEFINE t == Len(taken)
<1>1. /\ taken' = Append(taken, t) /\ expectedSeq' = (expectedSeq + 1) % SeqMod
      /\ UNCHANGED <<expectation, registered, reader>>
  BY DEF Take
<1>2. /\ t \in Nat /\ Len(taken') = t + 1 /\ DOMAIN taken' = 1..t + 1 /\ DOMAIN taken = 1..t
      /\ \A i \in 1..t : taken'[i] = taken[i]
      /\ taken'[t + 1] = t
  <2>1. taken \in Seq(Blocks) /\ t \in Blocks
    BY DEF TypeOK
  <2>2. /\ Append(taken, t) \in Seq(Blocks) /\ Len(Append(taken, t)) = Len(taken) + 1
        /\ \A i \in 1..Len(taken) : Append(taken, t)[i] = taken[i]
        /\ Append(taken, t)[Len(taken) + 1] = t
    BY <2>1, AppendProperties
  <2>3. Len(taken) \in Nat /\ DOMAIN taken = 1..Len(taken)
        /\ DOMAIN Append(taken, t) = 1..Len(Append(taken, t))
    BY <2>1, <2>2, LenProperties
  <2>. QED BY <1>1, <2>2, <2>3
<1>3. InOrder'
  BY <1>2 DEF StreamInv, ReceiverInv, InOrder
<1>4. expectedSeq' = Len(taken') % SeqMod
  <2>1. expectedSeq = t % SeqMod /\ SeqMod \in Nat \ {0} /\ t \in Int
    BY <1>2 DEF StreamInv, ReceiverInv
  <2>. QED BY <1>1, <1>2, <2>1, SuccessorModulo
<1>5. /\ \A i \in DOMAIN withheld' : withheld'[i] < Len(taken')
  <2>1. withheld \in Seq(Blocks) /\ DOMAIN withheld = 1..Len(withheld) /\ Len(withheld) \in Nat
        /\ \A i \in DOMAIN withheld : withheld[i] \in Blocks /\ withheld[i] < t
    BY WithheldAnswers, LenProperties DEF StreamInv, ReceiverInv, TypeOK
  <2>2. CASE withheld' = withheld
    BY <1>2, <2>1, <2>2 DEF Blocks
  <2>3. CASE withheld' = Append(withheld, t)
    <3>1. DOMAIN withheld' = 1..Len(withheld) + 1 /\ withheld'[Len(withheld) + 1] = t
          /\ \A i \in 1..Len(withheld) : withheld'[i] = withheld[i]
      BY <2>1, <2>3, AppendProperties, LenProperties
    <3>. QED BY <1>2, <2>1, <3>1 DEF Blocks
  <2>. QED BY <2>2, <2>3 DEF Take
<1>6. reader = "open" /\ expectation = "over"
  BY DEF StreamInv, ReceiverInv
<1>7. ReceiverInv'
  <2>1. Len(taken') = next /\ next \in Nat /\ arrived' \in Nat
    BY <1>2, LenProperties DEF TypeOK
  <2>2. Len(taken') < arrived'
    BY <2>1
  <2>3. registered' /\ reader' = "open" /\ expectation' = "over"
    BY <1>1, <1>6
  <2>. QED BY <1>3, <1>4, <1>5, <2>2, <2>3 DEF ReceiverInv
<1>8. OrderInv'
  BY <1>1, <1>2 DEF StreamInv, OrderInv, senderVars, TypeOK
<1>9. OnlyLearns
  BY <1>1, <1>2 DEF OnlyLearns
<1>10. RepliesInv'
  <2>1. HonestAfter(Reply(iq, Ok)) /\ Reply(iq, Ok) \in Replies
    BY <1>2, HonestForms, ReplyForms
  <2>2. CASE UNCHANGED replies
    BY <1>9, <2>2, RepliesUntouched DEF StreamInv
  <2>3. CASE Answer(<<Reply(iq, Ok)>>)
    BY <1>9, <2>1, <2>3, OneAnswer DEF StreamInv
  <2>. QED BY <2>2, <2>3 DEF Take
<1>. QED BY <1>7, <1>8, <1>9, <1>10, ReceiverStep DEF OnlyLearns

LEMMA DeliverKeeps ==
  ASSUME TypeOK, TypeOK', StreamInv, Deliver
  PROVE  StreamInv'
<1> USE StreamAssumption DEF StreamAssumption
<1> DEFINE iq == wire[next + 1]
<1>1. iq \in Stanzas /\ UNCHANGED <<senderVars, wire>> /\ next + 1 \in 1..Len(wire)
  BY DeliveredTyped
<1>2. next' = next + 1 /\ arrived <= arrived' /\ arrived' >= next' /\ next' >= arrived' - ReplayDepth
  <2>1. next \in Nat /\ arrived \in Nat /\ next >= arrived - ReplayDepth
    BY LenProperties DEF TypeOK, StreamInv, ReceiverInv
  <2>. QED BY <2>1 DEF Deliver, PastTo
<1>3. \/ iq.kind = "open" /\ iq = OpenIq /\ OnOpen
      \/ iq.kind = "data" /\ iq # OpenIq /\ iq # CloseIq /\ OnData(iq)
      \/ iq.kind = "close" /\ iq = CloseIq /\ OnClose
  BY <1>1, StanzaForms DEF Deliver
<1>4. CASE iq = OpenIq /\ OnOpen
  <2>1. CASE AnswerOnly(OpenIq, Refused)
    BY <1>1, <1>2, <2>1, StanzaForms, AnswerOnlyKeeps DEF Ok, Refused
  <2>2. CASE /\ expectation = "registered" /\ expectation' = "over" /\ CreateInStream
             /\ Answer(<<Reply(OpenIq, Ok)>>)
    BY <1>1, <1>2, <2>2, CreateKeeps
  <2>3. CASE UNCHANGED <<expectation, registered, expectedSeq, taken, read, withheld, reader,
                         mismatch, replies>>
    <3>1. Len(taken) \in Nat /\ arrived \in Nat /\ arrived' \in Nat /\ OnlyLearns
      BY <2>3, LenProperties DEF TypeOK, OnlyLearns
    <3>2. InOrder'
      BY <2>3 DEF StreamInv, ReceiverInv, InOrder
    <3>3. ReceiverInv'
      BY <1>2, <2>3, <3>1, <3>2 DEF StreamInv, ReceiverInv
    <3>4. OrderInv'
      BY <1>1, <2>3 DEF StreamInv, OrderInv, senderVars
    <3>. QED BY <1>1, <2>3, <3>1, <3>3, <3>4, RepliesUntouched, ReceiverStep DEF StreamInv, OnlyLearns
  <2>. QED BY <1>4, <2>1, <2>2, <2>3 DEF OnOpen
<1>5. CASE iq.kind = "data" /\ OnData(iq)
  <2>1. CASE AnswerOnly(iq, Refused)
    BY <1>1, <1>2, <2>1, AnswerOnlyKeeps DEF Ok, Refused
  <2>2. CASE registered
    <3> DEFINE n == next - 1
    <3>1. /\ iq = DataIq(n) /\ n \in Blocks /\ n < dispatched /\ iq.block = n
          /\ iq.seq = expectedSeq => n = Len(taken)
          /\ IsRedelivery(iq.seq) => n < Len(taken)
      BY <1>5, <2>2, SeqTellsBlocks DEF StreamInv
    <3> HIDE DEF n, iq
    <3>2. CASE IsRedelivery(iq.seq) /\ AnswerOnly(iq, Ok)
      BY <1>1, <1>2, <3>1, <3>2, AnswerOnlyKeeps
    <3>3. CASE FailForSeq(iq)
      <4>1. <<Reply(iq, Refused)>> \in Seq(Replies)
            /\ \A i \in DOMAIN <<Reply(iq, Refused)>> : HonestAfter(<<Reply(iq, Refused)>>[i])
        BY <1>1, ReplyForms, HonestForms
      <4>2. Finish("errored", <<Reply(iq, Refused)>>) /\ UNCHANGED <<expectation, expectedSeq, taken>>
        BY <3>3 DEF FailForSeq
      <4>. QED BY <1>1, <1>2, <2>2, <4>1, <4>2, EndKeeps
    <3>4. CASE iq.seq = expectedSeq /\ Take(iq)
      BY <1>1, <1>2, <2>2, <3>1, <3>4, TakeKeeps DEF n
    <3>. QED BY <1>5, <2>1, <2>2, <3>2, <3>3, <3>4 DEF OnData
  <2>. QED BY <1>5, <2>1, <2>2 DEF OnData
<1>6. CASE iq = CloseIq /\ OnClose
  <2>1. CASE AnswerOnly(CloseIq, Refused)
    BY <1>1, <1>2, <2>1, StanzaForms, AnswerOnlyKeeps DEF Ok, Refused
  <2>2. CASE registered /\ Finish("ended", <<Reply(CloseIq, Ok)>>)
             /\ UNCHANGED <<expectation, expectedSeq, taken>>
    <3>1. reader' = "ended"
      BY <2>2 DEF Finish
    <3>2. <<Reply(CloseIq, Ok)>> \in Seq(Replies)
          /\ \A i \in DOMAIN <<Reply(CloseIq, Ok)>> : HonestAfter(<<Reply(CloseIq, Ok)>>[i])
      BY <3>1, ReplyForms, HonestForms, StanzaForms
    <3>. QED BY <1>1, <1>2, <2>2, <3>2, EndKeeps
  <2>. QED BY <1>6, <2>1, <2>2 DEF OnClose
<1>. QED BY <1>3, <1>4, <1>5, <1>6

LEMMA ExpectIncomingKeeps ==
  ASSUME TypeOK, TypeOK', StreamInv, ExpectIncoming
  PROVE  StreamInv'
<1>1. UNCHANGED <<senderVars, netVars>> /\ expectation = "none"
  BY DEF ExpectIncoming
<1>2. arrived' = arrived /\ next' >= arrived' - ReplayDepth /\ arrived <= arrived'
  BY <1>1, LenProperties DEF netVars, StreamInv, ReceiverInv, TypeOK
<1>3. CASE parked
  BY <1>1, <1>2, <1>3, CreateKeeps DEF ExpectIncoming, netVars
<1>4. CASE ~parked
  <2>1. expectation' = "registered"
        /\ UNCHANGED <<registered, expectedSeq, taken, withheld, reader, replies>>
    BY <1>4 DEF ExpectIncoming
  <2>2. OnlyLearns
    BY <2>1, LenProperties DEF TypeOK, OnlyLearns
  <2>3. InOrder'
    BY <2>1 DEF StreamInv, ReceiverInv, InOrder
  <2>4. ReceiverInv'
    BY <1>1, <2>1, <2>3 DEF StreamInv, ReceiverInv, netVars
  <2>5. OrderInv'
    BY <1>1, <2>1 DEF StreamInv, OrderInv, senderVars
  <2>. QED BY <1>1, <2>1, <2>2, <2>4, <2>5, RepliesUntouched, ReceiverStep DEF StreamInv, netVars, OnlyLearns
<1>. QED BY <1>3, <1>4

LEMMA ReadKeeps ==
  ASSUME TypeOK, TypeOK', StreamInv, Read
  PROVE  StreamInv'
<1>1. UNCHANGED <<senderVars, netVars, expectation, registered, expectedSeq, taken, reader>>
  BY DEF Read
<1>2. OnlyLearns
  BY <1>1, LenProperties DEF TypeOK, OnlyLearns
<1>3. \/ withheld' = <<>> /\ Answer(WithheldAs(Ok))
      \/ UNCHANGED <<withheld, replies>>
  BY DEF Read
<1>4. ReceiverInv'
  <2>1. InOrder'
    BY <1>1 DEF StreamInv, ReceiverInv, InOrder
  <2>2. (withheld' # <<>> => registered') /\ \A i \in DOMAIN withheld' : withheld'[i] < Len(taken')
    BY <1>1, <1>3 DEF StreamInv, ReceiverInv
  <2>. QED BY <1>1, <2>1, <2>2 DEF StreamInv, ReceiverInv, netVars
<1>5. OrderInv'
  BY <1>1 DEF StreamInv, OrderInv, senderVars
<1>6. RepliesInv'
  <2>1. CASE Answer(WithheldAs(Ok))
    <3>1. WithheldAs(Ok) \in Seq(Replies)
          /\ \A i \in DOMAIN WithheldAs(Ok) : HonestAfter(WithheldAs(Ok)[i])
      BY <1>2, WithheldHonest DEF StreamInv
    <3>. QED BY <1>2, <2>1, <3>1, RepliesKept DEF StreamInv
  <2>2. CASE UNCHANGED replies
    BY <1>2, <2>2, RepliesUntouched DEF StreamInv
  <2>. QED BY <1>3, <2>1, <2>2
<1>. QED BY <1>1, <1>2, <1>4, <1>5, <1>6, ReceiverStep DEF netVars, OnlyLearns

(* Everything else that ends a stream, an <open> or an expectation. *)
LEMMA GiveUpKeeps ==
  ASSUME TypeOK, TypeOK', StreamInv,
         Cancel \/ IdleTimeout \/ AcceptTimeout \/ ExpectTimeout \/ Release
  PROVE  StreamInv'
<1>1. UNCHANGED <<senderVars, netVars, expectedSeq, taken>>
  BY DEF Cancel, IdleTimeout, AcceptTimeout, ExpectTimeout, Release
<1>2. arrived' = arrived /\ next' >= arrived' - ReplayDepth /\ arrived <= arrived'
  BY <1>1, LenProperties DEF netVars, StreamInv, ReceiverInv, TypeOK
<1>3. CASE registered /\ \E end \in {"ended", "errored", "cancelled"} : Finish(end, <<>>)
  <2>1. <<>> \in Seq(Replies) /\ DOMAIN <<>> = {}
    OBVIOUS
  <2>2. expectation' = expectation \/ expectation' = "over"
    BY <1>3 DEF Cancel, IdleTimeout, AcceptTimeout, ExpectTimeout, Release
  <2>. QED BY <1>1, <1>2, <1>3, <2>1, <2>2, EndKeeps DEF netVars
<1>4. CASE /\ UNCHANGED <<registered, withheld, reader>>
           /\ expectation' = expectation \/ expectation' = "over"
           /\ UNCHANGED replies \/ Answer(<<Reply(OpenIq, Refused)>>)
  <2>1. OnlyLearns
    BY <1>1, <1>4, LenProperties DEF TypeOK, OnlyLearns
  <2>2. InOrder'
    BY <1>1 DEF StreamInv, ReceiverInv, InOrder
  <2>3. ReceiverInv'
    BY <1>1, <1>4, <2>2 DEF StreamInv, ReceiverInv, netVars
  <2>4. OrderInv'
    BY <1>1, <1>4 DEF StreamInv, OrderInv, senderVars
  <2>5. HonestAfter(Reply(OpenIq, Refused)) /\ Reply(OpenIq, Refused) \in Replies
    BY HonestForms, StanzaForms, ReplyForms
  <2>6. RepliesInv'
    BY <1>4, <2>1, <2>5, OneAnswer, RepliesUntouched DEF StreamInv
  <2>. QED BY <1>1, <2>1, <2>3, <2>4, <2>6, ReceiverStep DEF netVars, OnlyLearns
<1>5. CASE Cancel \/ IdleTimeout
  BY <1>3, <1>5 DEF Cancel, IdleTimeout, StreamInv, ReceiverInv
<1>6. CASE AcceptTimeout \/ ExpectTimeout
  BY <1>4, <1>6 DEF AcceptTimeout, ExpectTimeout
<1>7. CASE Release
  <2>1. CASE registered
    BY <1>3, <1>7, <2>1 DEF Release
  <2>2. CASE ~registered
    BY <1>4, <1>7, <2>2 DEF Release
  <2>. QED BY <2>1, <2>2
<1>. QED BY <1>5, <1>6, <1>7

(* Every step keeps the invariant. *)
LEMMA StreamInvInit == Init => StreamInv
<1> USE StreamAssumption DEF StreamAssumption
<1> SUFFICES ASSUME Init PROVE StreamInv
  OBVIOUS
<1>1. /\ open = "no" /\ written = 0 /\ dispatched = 0 /\ answer = [n \in Blocks |-> "none"]
      /\ failed = NotFailed /\ closing = "no" /\ wire = <<>> /\ next = 0 /\ arrived = 0
      /\ replies = <<>> /\ expectation = "none" /\ registered = FALSE
      /\ expectedSeq = 0 /\ taken = <<>> /\ withheld = <<>> /\ reader = "none"
  BY DEF Init
<1>2. Len(wire) = 0 /\ DOMAIN wire = {} /\ DOMAIN replies = {} /\ Len(taken) = 0 /\ DOMAIN taken = {}
      /\ DOMAIN withheld = {}
  BY <1>1
<1>3. WireInv
  BY <1>1, <1>2 DEF WireInv
<1>4. SenderInv
  BY <1>1, <1>2 DEF SenderInv, Gone, Blocks
<1>5. WindowInv
  <2>1. Unacked = {}
    BY <1>1 DEF Unacked, Blocks
  <2>. QED BY <2>1, FS_EmptySet DEF WindowInv
<1>6. ReceiverInv
  BY <1>1, <1>2 DEF ReceiverInv, InOrder
<1>7. OrderInv /\ RepliesInv /\ AckedMeansTaken
  BY <1>1, <1>2 DEF OrderInv, RepliesInv, AckedMeansTaken
<1>. QED BY <1>3, <1>4, <1>5, <1>6, <1>7 DEF StreamInv

LEMMA StreamInvStep ==
  ASSUME TypeOK, TypeOK', StreamInv, [Next]_vars
  PROVE  StreamInv'
<1>1. CASE UNCHANGED vars
  <2>1. UNCHANGED <<senderVars, netVars, replies, receiverVars>>
    BY <1>1 DEF vars
  <2>2. UNCHANGED <<wire, next, arrived>> /\ UNCHANGED <<open, closing, dispatched, answer, taken, reader>>
    BY <2>1 DEF netVars, senderVars, receiverVars
  <2>3. OrderInv' /\ AckedMeansTaken'
    BY <2>2 DEF StreamInv, OrderInv, AckedMeansTaken
  <2>. QED BY <2>1, <2>2, <2>3, SenderFrame, SenderStep DEF StreamInv
<1>2. CASE Sender \/ ReceiveReply \/ RequestTimeout
  BY <1>2, OpenOutgoingKeeps, WriteKeeps, DispatchKeeps, CloseKeeps, CloseSentKeeps,
     ReceiveReplyKeeps, RequestTimeoutKeeps DEF Sender
<1>3. CASE Resume \/ Lose \/ Deliver \/ ExpectIncoming \/ Receiver
  BY <1>3, NetworkKeeps, DeliverKeeps, ExpectIncomingKeeps, ReadKeeps, GiveUpKeeps DEF Receiver
<1>. QED BY <1>1, <1>2, <1>3 DEF Next

(* The inductive invariant holds in every state. *)
THEOREM StreamIsSound == Spec => []StreamInv
<1>1. TypeOK /\ TypeOK' /\ StreamInv /\ [Next]_vars => StreamInv'
  BY StreamInvStep
<1>. QED BY <1>1, StreamInvInit, TypeCorrect, PTL DEF Spec

(* An ack the sender has received is true: #onData acked the block because *)
(* the reader's queue had it, whatever became of the stream since.         *)
THEOREM AcksAreTrue == Spec => []AckedMeansTaken
<1>1. StreamInv => AckedMeansTaken
  BY DEF StreamInv
<1>. QED BY <1>1, StreamIsSound, PTL

(* The reader gets the first blocks written, in order and each once.       *)
THEOREM ReaderIsInOrder == Spec => []InOrder
<1>1. StreamInv => InOrder
  BY DEF StreamInv, ReceiverInv
<1>. QED BY <1>1, StreamIsSound, PTL

LEMMA AbortStays ==
  ASSUME TypeOK, [Next]_vars, failed = Aborted
  PROVE  failed' = Aborted
<1> USE StreamAssumption DEF StreamAssumption
<1>1. Aborted # NotFailed /\ \A n \in Blocks : ~(n < Aborted)
  BY DEF Aborted, NotFailed, Blocks
<1>2. ASSUME NEW iq \in Stanzas, NEW result \in {Ok, Refused}, Settle(iq, result)
      PROVE  failed' = Aborted
  BY <1>1, <1>2, SettleForms, StanzaForms
<1>3. CASE ReceiveReply
  <2>1. replies \in Seq([iq : Stanzas, result : {Ok, Refused}]) /\ replies # <<>>
    BY <1>3 DEF ReceiveReply, TypeOK
  <2>2. Head(replies) \in [iq : Stanzas, result : {Ok, Refused}]
    BY <2>1, HeadTailProperties
  <2>3. Head(replies).iq \in Stanzas /\ Head(replies).result \in {Ok, Refused}
    BY <2>2
  <2>. QED BY <1>2, <1>3, <2>3 DEF ReceiveReply
<1>4. CASE RequestTimeout
  <2>1. ASSUME NEW n \in Blocks, Latch(n) PROVE failed' = Aborted
    BY <1>1, <2>1 DEF Latch
  <2>. QED BY <1>2, <1>4, <2>1, StanzaForms DEF RequestTimeout
<1>5. CASE Sender
  BY <1>1, <1>5 DEF Sender, OpenOutgoing, Write, Usable, Dispatch, DispatchedBy, Close, CloseDrained,
                    CloseThrows, Abort
<1>6. CASE Resume \/ Lose \/ Deliver \/ ExpectIncoming \/ Receiver \/ UNCHANGED vars
  <2>1. UNCHANGED senderVars
    BY <1>6 DEF Resume, Lose, Deliver, ExpectIncoming, Receiver, Read, Cancel, IdleTimeout,
                AcceptTimeout, ExpectTimeout, Release, vars
  <2>. QED BY <2>1 DEF senderVars
<1>. QED BY <1>3, <1>4, <1>5, <1>6 DEF Next

(* The failure reported is the earliest block's, and an abort's reason     *)
(* stays, in whatever order refusals and deadlines arrive.                 *)
THEOREM FailureIsTheEarliest == Spec => EarliestFailure
<1>1. TypeOK /\ StreamInv' /\ [Next]_vars =>
        [/\ \A n \in Blocks : answer'[n] \in {"refused", "timeout"} => failed' <= n
         /\ failed = Aborted => failed' = Aborted]_vars
  BY AbortStays DEF StreamInv, SenderInv
<1>. QED BY <1>1, TypeCorrect, StreamIsSound, PTL DEF Spec, EarliestFailure

-----------------------------------------------------------------------------
(* The stream keeps its promise: what the two programs see of a step.      *)

WriterSees ==
  IF open = "refused" \/ closing = "rejected" \/ failed # NotFailed THEN "failed"
  ELSE IF closing = "resolved" THEN "closed" ELSE IF closing = "no" THEN "open" ELSE "closing"

ReaderSees ==
  IF reader = "ended" THEN "ended"
  ELSE IF reader \in {"errored", "cancelled"} THEN "broken" ELSE "open"

PromiseKept ==
  \/ Promise!Write \/ Promise!Take \/ Promise!BeginClose \/ Promise!Closed \/ Promise!Fail
  \/ Promise!End \/ Promise!Break
  \/ UNCHANGED <<written, Len(taken), WriterSees, ReaderSees>>

(* The promise's steps, on what the two programs see. *)
LEMMA PromiseForms ==
  ASSUME InOrder, InOrder'
  PROVE  /\ UNCHANGED <<written, Len(taken), WriterSees, ReaderSees>> => UNCHANGED Promise!vars
         /\ /\ WriterSees = "open" /\ written < MaxBlocks /\ written' = written + 1
            /\ WriterSees' = "open" /\ UNCHANGED <<Len(taken), ReaderSees>>
            => Promise!Write
         /\ /\ ReaderSees = "open" /\ Len(taken') = Len(taken) + 1
            /\ Len(taken') \in Len(taken) + 1..written
            /\ ReaderSees' = "open" /\ UNCHANGED <<written, WriterSees>>
            => Promise!Take
         /\ /\ WriterSees = "open" /\ WriterSees' = "closing"
            /\ UNCHANGED <<written, Len(taken), ReaderSees>>
            => Promise!BeginClose
         /\ /\ WriterSees = "closing" /\ WriterSees' = "closed"
            /\ Len(taken) = written /\ ReaderSees # "open"
            /\ UNCHANGED <<written, Len(taken), ReaderSees>>
            => Promise!Closed
         /\ /\ WriterSees \in {"open", "closing"} /\ WriterSees' = "failed"
            /\ UNCHANGED <<written, Len(taken), ReaderSees>>
            => Promise!Fail
         /\ /\ ReaderSees = "open" /\ ReaderSees' = "ended"
            /\ (WriterSees = "closing" /\ Len(taken) = written) \/ WriterSees = "failed"
            /\ UNCHANGED <<written, Len(taken), WriterSees>>
            => Promise!End
         /\ /\ ReaderSees \in {"open", "ended"} /\ ReaderSees' = "broken"
            /\ UNCHANGED <<written, Len(taken), WriterSees>>
            => Promise!Break
<1> USE DEF WriterSees, ReaderSees
<1>1. UNCHANGED <<written, Len(taken), WriterSees, ReaderSees>> => UNCHANGED Promise!vars
  BY DEF Promise!vars
<1>2. /\ WriterSees = "open" /\ written < MaxBlocks /\ written' = written + 1
      /\ WriterSees' = "open" /\ UNCHANGED <<Len(taken), ReaderSees>>
      => Promise!Write
  BY DEF Promise!Write
<1>3. /\ ReaderSees = "open" /\ Len(taken') = Len(taken) + 1
      /\ Len(taken') \in Len(taken) + 1..written
      /\ ReaderSees' = "open" /\ UNCHANGED <<written, WriterSees>>
      => Promise!Take
  BY DEF Promise!Take
<1>4. /\ WriterSees = "open" /\ WriterSees' = "closing"
      /\ UNCHANGED <<written, Len(taken), ReaderSees>>
      => Promise!BeginClose
  BY DEF Promise!BeginClose
<1>5. /\ WriterSees = "closing" /\ WriterSees' = "closed"
      /\ Len(taken) = written /\ ReaderSees # "open"
      /\ UNCHANGED <<written, Len(taken), ReaderSees>>
      => Promise!Closed
  BY DEF Promise!Closed
<1>6. /\ WriterSees \in {"open", "closing"} /\ WriterSees' = "failed"
      /\ UNCHANGED <<written, Len(taken), ReaderSees>>
      => Promise!Fail
  BY DEF Promise!Fail
<1>7. /\ ReaderSees = "open" /\ ReaderSees' = "ended"
      /\ (WriterSees = "closing" /\ Len(taken) = written) \/ WriterSees = "failed"
      /\ UNCHANGED <<written, Len(taken), WriterSees>>
      => Promise!End
  BY DEF Promise!End, Promise!EndReached
<1>8. /\ ReaderSees \in {"open", "ended"} /\ ReaderSees' = "broken"
      /\ UNCHANGED <<written, Len(taken), WriterSees>>
      => Promise!Break
  BY DEF Promise!Break
<1> QED BY <1>1, <1>2, <1>3, <1>4, <1>5, <1>6, <1>7, <1>8

(* A failure that is latched, or was before. *)
LEMMA FailedSees ==
  ASSUME TypeOK, TypeOK', StreamInv, StreamInv', closing # "resolved", open = "open",
         failed' # NotFailed \/ closing' = "rejected", closing' # "resolved",
         UNCHANGED <<written, taken, reader, open>>
  PROVE  PromiseKept
<1>1. WriterSees \in {"open", "closing", "failed"} /\ WriterSees' = "failed"
  BY DEF WriterSees, TypeOK
<1>2. UNCHANGED <<written, Len(taken), ReaderSees>>
  BY DEF ReaderSees
<1>. QED BY <1>1, <1>2, PromiseForms DEF PromiseKept, StreamInv, ReceiverInv

(* close() has resolved: all is taken and the reader knows the end.        *)
LEMMA AllTaken ==
  ASSUME TypeOK, StreamInv, Gone, failed # Aborted
  PROVE  Len(taken) = written
<1>1. AllAcked /\ Len(taken) \in Nat /\ written \in Nat /\ dispatched = written
  BY LenProperties, StreamAssumption DEF StreamInv, SenderInv, AllAcked, TypeOK, StreamAssumption
<1>2. Len(taken) <= written
  BY <1>1 DEF StreamInv, OrderInv
<1>3. CASE written > 0
  <2>1. written - 1 \in 0..dispatched - 1 /\ written - 1 \in Blocks
    BY <1>1, <1>3, StreamAssumption DEF TypeOK, Blocks, StreamAssumption
  <2>2. answer[written - 1] = "acked"
    BY <1>1, <2>1 DEF AllAcked
  <2>3. written - 1 < Len(taken)
    BY <2>1, <2>2 DEF StreamInv, AckedMeansTaken
  <2>. QED BY <1>1, <1>2, <2>3
<1>. QED BY <1>1, <1>2, <1>3

(* Until a block is answered close() is not, and the stream is open. *)
LEMMA WhilePending ==
  ASSUME TypeOK, StreamInv, NEW n \in Blocks, answer[n] = "pending"
  PROVE  /\ n \in 0..dispatched - 1 /\ n # NotFailed /\ n < NotFailed
         /\ closing # "resolved" /\ open = "open"
<1> USE StreamAssumption DEF StreamAssumption
<1>1. n \in Nat /\ n < MaxBlocks /\ dispatched \in Nat /\ written \in Nat /\ dispatched <= written
  BY DEF Blocks, TypeOK
<1>2. n < dispatched
  BY <1>1 DEF StreamInv, SenderInv
<1>3. ~AllAcked
  BY <1>1, <1>2 DEF AllAcked
<1>4. Aborted # NotFailed
  BY DEF Aborted, NotFailed
<1>5. closing # "resolved"
  BY <1>3, <1>4 DEF StreamInv, SenderInv
<1>6. open = "open"
  BY <1>1, <1>2 DEF StreamInv, WireInv
<1>. QED BY <1>1, <1>2, <1>5, <1>6 DEF NotFailed

LEMMA SettlePromised ==
  ASSUME TypeOK, TypeOK', StreamInv, StreamInv',
         NEW iq \in Stanzas, NEW result \in {Ok, Refused},
         Honest(Reply(iq, result)), Settle(iq, result),
         UNCHANGED <<written, dispatched, netVars, receiverVars>>
  PROVE  PromiseKept
<1> USE StreamAssumption DEF StreamAssumption
<1>0. /\ Ok # Refused /\ Reply(iq, result).iq = iq /\ Reply(iq, result).result = result
      /\ UNCHANGED <<taken, reader>> /\ UNCHANGED <<Len(taken), ReaderSees>>
  BY ReplyForms DEF Ok, Refused, receiverVars, ReaderSees
<1>1. CASE iq = OpenIq
  <2>1. /\ UNCHANGED <<answer, failed, closing>>
        /\ open' = IF open # "asked" THEN open ELSE IF result = Ok THEN "open" ELSE "refused"
    BY <1>1, SettleForms
  <2>2. CASE open # "asked" \/ result = Ok
    BY <1>0, <2>1, <2>2 DEF PromiseKept, WriterSees
  <2>3. CASE open = "asked" /\ result # Ok
    <3>1. WriterSees = "open" /\ WriterSees' = "failed"
      BY <2>1, <2>3 DEF StreamInv, WireInv, WriterSees
    <3>. QED BY <1>0, <3>1, PromiseForms DEF PromiseKept, StreamInv, ReceiverInv
  <2>. QED BY <2>2, <2>3
<1>2. CASE iq = CloseIq
  <2>1. /\ UNCHANGED <<open, answer>>
        /\ closing' = IF closing # "sent" THEN closing
                      ELSE IF result = Ok THEN "resolved" ELSE "rejected"
        /\ failed' = IF closing = "sent" /\ result # Ok /\ failed = NotFailed
                     THEN dispatched ELSE failed
        /\ result = Ok => reader \notin {"none", "open"}
    BY <1>0, <1>2, StanzaForms, SettleForms DEF Honest
  <2>2. CASE closing # "sent"
    BY <1>0, <2>1, <2>2 DEF PromiseKept, WriterSees
  <2>3. CASE closing = "sent"
    <3>1. Gone /\ failed = NotFailed /\ open = "open" /\ NotFailed # Aborted
      BY <2>3 DEF StreamInv, SenderInv, WireInv, Aborted, NotFailed
    <3>2. CASE result # Ok
      BY <1>0, <2>1, <2>3, <3>1, <3>2, FailedSees
    <3>3. CASE result = Ok
      <4>1. WriterSees = "closing" /\ WriterSees' = "closed"
        BY <2>1, <2>3, <3>1, <3>3 DEF WriterSees
      <4>2. ReaderSees # "open"
        BY <2>1, <3>3 DEF ReaderSees, TypeOK
      <4>3. Len(taken) = written
        BY <3>1, AllTaken
      <4>. QED BY <1>0, <4>1, <4>2, <4>3, PromiseForms DEF PromiseKept, StreamInv, ReceiverInv
    <3>. QED BY <3>2, <3>3
  <2>. QED BY <2>2, <2>3
<1>3. CASE iq # OpenIq /\ iq # CloseIq
  <2>1. UNCHANGED <<open, closing>> /\ iq.block \in Blocks
    BY <1>3, SettleForms
  <2>2. CASE UNCHANGED failed
    BY <1>0, <2>1, <2>2 DEF PromiseKept, WriterSees
  <2>3. CASE ~UNCHANGED failed
    <3>1. answer[iq.block] = "pending" /\ failed' = iq.block
      BY <1>3, <2>1, <2>3, SettleForms
    <3>2. failed' # NotFailed /\ closing # "resolved" /\ open = "open"
      BY <2>1, <3>1, WhilePending
    <3>. QED BY <1>0, <2>1, <3>2, FailedSees
  <2>. QED BY <2>2, <2>3
<1>. QED BY <1>1, <1>2, <1>3

LEMMA SenderPromised ==
  ASSUME TypeOK, TypeOK', StreamInv, StreamInv', Sender
  PROVE  PromiseKept
<1> USE StreamAssumption DEF StreamAssumption
<1>1. UNCHANGED <<taken, reader>> /\ UNCHANGED <<Len(taken), ReaderSees>>
  BY DEF Sender, OpenOutgoing, Write, Dispatch, DispatchedBy, Close, CloseDrained, CloseThrows, Abort,
         receiverVars, ReaderSees
<1>2. CASE OpenOutgoing \/ Dispatch \/ CloseDrained \/ CloseThrows
  <2>1. UNCHANGED written /\ WriterSees' = WriterSees
    BY <1>2 DEF OpenOutgoing, Dispatch, DispatchedBy, CloseDrained, CloseThrows, WriterSees
  <2>. QED BY <1>1, <2>1 DEF PromiseKept
<1>3. CASE Write
  <2>1. written < MaxBlocks
    <3>1. plan.blocks \in 0..MaxBlocks
      BY DEF TypeOK, Plan
    <3>. QED BY <1>3, <3>1 DEF Write, TypeOK
  <2>2. WriterSees = "open" /\ WriterSees' = "open" /\ written' = written + 1
    BY <1>3 DEF Write, Usable, WriterSees
  <2>. QED BY <1>1, <2>1, <2>2, PromiseForms DEF PromiseKept, StreamInv, ReceiverInv
<1>4. CASE Close
  <2>1. WriterSees = "open" /\ WriterSees' = "closing" /\ UNCHANGED written
    BY <1>4 DEF Close, Usable, WriterSees
  <2>. QED BY <1>1, <2>1, PromiseForms DEF PromiseKept, StreamInv, ReceiverInv
<1>5. CASE Abort
  <2>1. failed' # NotFailed /\ open = "open" /\ failed = NotFailed
        /\ UNCHANGED <<written, open, closing>>
    BY <1>5 DEF Abort, Aborted, NotFailed
  <2>2. closing # "resolved"
    <3>1. Gone => CloseIq = wire[dispatched + 2] /\ dispatched + 2 \in DOMAIN wire
      <4> SUFFICES ASSUME Gone PROVE wire[dispatched + 2] = CloseIq /\ dispatched + 2 \in DOMAIN wire
        OBVIOUS
      <4>1. DOMAIN wire = 1..dispatched + 2 /\ dispatched \in Nat
        BY LenProperties DEF Gone, TypeOK
      <4>. QED BY <4>1 DEF StreamInv, WireInv
    <3>. QED BY <1>5, <3>1 DEF Abort, CloseSent, StreamInv, SenderInv
  <2>. QED BY <1>1, <2>1, <2>2, FailedSees
<1>. QED BY <1>2, <1>3, <1>4, <1>5 DEF Sender

LEMMA AnswersPromised ==
  ASSUME TypeOK, TypeOK', StreamInv, StreamInv', ReceiveReply \/ RequestTimeout
  PROVE  PromiseKept
<1>1. CASE ReceiveReply
  <2> DEFINE r == Head(replies)
  <2>1. replies \in Seq(Replies) /\ replies # <<>>
    BY <1>1 DEF ReceiveReply, TypeOK, Replies
  <2>2. r \in Replies /\ r = replies[1] /\ 1 \in DOMAIN replies
    BY <2>1, HeadTailProperties, LenProperties, EmptySeq
  <2>3. r.iq \in Stanzas /\ r.result \in {Ok, Refused} /\ r = Reply(r.iq, r.result)
    BY <2>2 DEF Replies, Reply
  <2>4. Honest(Reply(r.iq, r.result))
    BY <2>2, <2>3 DEF StreamInv, RepliesInv
  <2>5. Settle(r.iq, r.result) /\ UNCHANGED <<written, dispatched, netVars, receiverVars>>
    BY <1>1 DEF ReceiveReply
  <2> HIDE DEF r
  <2>. QED BY <2>3, <2>4, <2>5, SettlePromised
<1>2. CASE RequestTimeout
  <2>0. UNCHANGED <<written, dispatched, netVars, receiverVars>>
    BY <1>2 DEF RequestTimeout
  <2>1. \A iq \in Stanzas : Honest(Reply(iq, Refused))
    BY ReplyForms DEF Honest, Ok, Refused
  <2>2. CASE Settle(OpenIq, Refused) \/ Settle(CloseIq, Refused)
    BY <2>0, <2>1, <2>2, StanzaForms, SettlePromised
  <2>3. ASSUME NEW n \in Blocks, answer[n] = "pending", Latch(n), UNCHANGED <<open, closing>>
        PROVE  PromiseKept
    <3>1. UNCHANGED <<taken, reader>> /\ UNCHANGED <<Len(taken), ReaderSees>>
      BY <2>0 DEF receiverVars, ReaderSees
    <3>2. n < NotFailed /\ n # NotFailed /\ closing # "resolved" /\ open = "open"
      BY <2>3, WhilePending
    <3>3. failed' # NotFailed
      <4>1. failed' = n \/ (failed' = failed /\ ~(n < failed))
        BY <2>3 DEF Latch
      <4>. QED BY <3>2, <4>1
    <3>. QED BY <2>0, <2>3, <3>1, <3>2, <3>3, FailedSees
  <2>. QED BY <1>2, <2>2, <2>3 DEF RequestTimeout
<1>. QED BY <1>1, <1>2

(* An end other than a clean one. *)
LEMMA BreakPromised ==
  ASSUME TypeOK, TypeOK', StreamInv, StreamInv', registered, UNCHANGED <<senderVars, taken>>,
         reader' \in {"errored", "cancelled"}
  PROVE  PromiseKept
<1>1. UNCHANGED <<written, Len(taken), WriterSees>>
  BY DEF senderVars, WriterSees
<1>2. ReaderSees = "open" /\ ReaderSees' = "broken"
  BY DEF StreamInv, ReceiverInv, ReaderSees
<1>. QED BY <1>1, <1>2, PromiseForms DEF PromiseKept, StreamInv, ReceiverInv

LEMMA UnseenPromised ==
  ASSUME UNCHANGED <<senderVars, taken>>, ReaderSees' = ReaderSees
  PROVE  PromiseKept
BY DEF senderVars, WriterSees, PromiseKept

(* A <close/> on the wire is behind every block. *)
LEMMA CloseIsLast ==
  ASSUME TypeOK, StreamInv, NEW k \in 1..Len(wire), wire[k] = CloseIq
  PROVE  Gone
<1>1. Len(wire) \in Nat /\ DOMAIN wire = 1..Len(wire) /\ dispatched \in Nat
  BY LenProperties DEF TypeOK
<1>2. Len(wire) \in {dispatched + 1, dispatched + 2}
  <2>1. wire # <<>>
    BY <1>1, EmptySeq
  <2>. QED BY <2>1 DEF StreamInv, WireInv
<1>3. CloseIq # OpenIq /\ \A n : CloseIq # DataIq(n)
  <2>1. CloseIq.kind = "close" /\ OpenIq.kind = "open" /\ \A n : DataIq(n).kind = "data"
    BY DEF CloseIq, OpenIq, DataIq
  <2>. QED BY <2>1
<1>4. k # 1 /\ ~(k <= dispatched + 1)
  <2>1. k \in DOMAIN wire
    BY <1>1
  <2>2. wire[k] = IF k = 1 THEN OpenIq ELSE IF k <= dispatched + 1 THEN DataIq(k - 2) ELSE CloseIq
    BY <2>1 DEF StreamInv, WireInv
  <2>. QED BY <1>3, <2>2, Zenon
<1>5. Len(wire) = dispatched + 1 \/ Len(wire) = dispatched + 2
  BY <1>2
<1>6. k \in Int /\ k <= Len(wire)
  BY <1>1
<1>. QED BY <1>1, <1>4, <1>5, <1>6 DEF Gone

LEMMA DeliverPromised ==
  ASSUME TypeOK, TypeOK', StreamInv, StreamInv', Deliver
  PROVE  PromiseKept
<1> USE StreamAssumption DEF StreamAssumption
<1> DEFINE iq == wire[next + 1]
<1>1. iq \in Stanzas /\ UNCHANGED <<senderVars, wire>> /\ next + 1 \in 1..Len(wire)
  BY DeliveredTyped
<1>2. \/ iq.kind = "open" /\ OnOpen
      \/ iq.kind = "data" /\ OnData(iq)
      \/ iq = CloseIq /\ OnClose
  BY <1>1, StanzaForms DEF Deliver
<1>3. CASE OnOpen
  <2>1. UNCHANGED taken /\ ReaderSees' = ReaderSees
    BY <1>3 DEF OnOpen, AnswerOnly, receiverVars, CreateInStream, ReaderSees, StreamInv, ReceiverInv
  <2>. QED BY <1>1, <2>1, UnseenPromised
<1>4. CASE iq.kind = "data" /\ OnData(iq)
  <2>1. CASE AnswerOnly(iq, Refused) \/ AnswerOnly(iq, Ok)
    <3>1. UNCHANGED taken /\ ReaderSees' = ReaderSees
      BY <2>1 DEF AnswerOnly, receiverVars, ReaderSees
    <3>. QED BY <1>1, <3>1, UnseenPromised
  <2>2. CASE registered /\ FailForSeq(iq)
    BY <1>1, <2>2, BreakPromised DEF FailForSeq, Finish
  <2>3. CASE registered /\ iq.seq = expectedSeq /\ Take(iq)
    <3>1. next - 1 = Len(taken) /\ iq.block = Len(taken) /\ Len(taken) < dispatched
      BY <1>4, <2>3, SeqTellsBlocks DEF StreamInv
    <3>2. taken' = Append(taken, iq.block) /\ UNCHANGED reader
      BY <2>3 DEF Take
    <3>3. iq.block \in Blocks /\ taken \in Seq(Blocks)
      BY <1>1, <1>4, StanzaForms DEF TypeOK
    <3>4. Len(taken') = Len(taken) + 1 /\ Len(taken) \in Nat
      BY <3>2, <3>3, AppendProperties, LenProperties
    <3>5. dispatched <= written /\ written \in Nat /\ dispatched \in Nat
      BY DEF TypeOK
    <3>6. Len(taken') \in Len(taken) + 1..written
      BY <3>1, <3>4, <3>5
    <3>7. ReaderSees = "open" /\ ReaderSees' = "open"
      BY <2>3, <3>2 DEF StreamInv, ReceiverInv, ReaderSees
    <3>8. UNCHANGED <<written, WriterSees>>
      BY <1>1 DEF senderVars, WriterSees
    <3>. QED BY <3>4, <3>6, <3>7, <3>8, PromiseForms DEF PromiseKept, StreamInv, ReceiverInv
  <2>. QED BY <1>4, <2>1, <2>2, <2>3 DEF OnData
<1>5. CASE iq = CloseIq /\ OnClose
  <2>1. CASE AnswerOnly(CloseIq, Refused)
    <3>1. UNCHANGED taken /\ ReaderSees' = ReaderSees
      BY <2>1 DEF AnswerOnly, receiverVars, ReaderSees
    <3>. QED BY <1>1, <3>1, UnseenPromised
  <2>2. CASE registered /\ reader' = "ended" /\ UNCHANGED taken
    <3>1. Gone
      BY <1>1, <1>5, CloseIsLast
    <3>2. ReaderSees = "open" /\ ReaderSees' = "ended" /\ reader = "open"
      BY <2>2 DEF StreamInv, ReceiverInv, ReaderSees
    <3>3. UNCHANGED <<written, Len(taken), WriterSees>>
      BY <1>1, <2>2 DEF senderVars, WriterSees
    <3>4. (WriterSees = "closing" /\ Len(taken) = written) \/ WriterSees = "failed"
      <4>1. CASE failed = Aborted
        BY <4>1 DEF WriterSees, Aborted, NotFailed
      <4>2. CASE failed # Aborted
        <5>1. closing \in {"sent", "resolved", "rejected"} /\ closing # "resolved"
          BY <3>1, <3>2, <4>2 DEF StreamInv, SenderInv, OrderInv
        <5>2. WriterSees \in {"closing", "failed"}
          BY <5>1 DEF WriterSees
        <5>. QED BY <3>1, <4>2, <5>2, AllTaken
      <4>. QED BY <4>1, <4>2
    <3>. QED BY <3>2, <3>3, <3>4, PromiseForms DEF PromiseKept, StreamInv, ReceiverInv
  <2>. QED BY <1>5, <2>1, <2>2 DEF OnClose, Finish
<1>. QED BY <1>2, <1>3, <1>4, <1>5

LEMMA ReceiverPromised ==
  ASSUME TypeOK, TypeOK', StreamInv, StreamInv', Resume \/ Lose \/ ExpectIncoming \/ Receiver
  PROVE  PromiseKept
<1>1. UNCHANGED <<senderVars, taken>>
  BY DEF Resume, Lose, ExpectIncoming, CreateInStream, Receiver, Read, Cancel, IdleTimeout,
         AcceptTimeout, ExpectTimeout, Release, receiverVars
<1>2. CASE Resume \/ Lose \/ Read \/ AcceptTimeout \/ ExpectTimeout
  <2>1. ReaderSees' = ReaderSees
    BY <1>2 DEF Resume, Lose, Read, AcceptTimeout, ExpectTimeout, receiverVars, ReaderSees
  <2>. QED BY <1>1, <2>1, UnseenPromised
<1>3. CASE ExpectIncoming
  <2>1. ReaderSees' = ReaderSees
    BY <1>3 DEF ExpectIncoming, CreateInStream, ReaderSees, StreamInv, ReceiverInv
  <2>. QED BY <1>1, <2>1, UnseenPromised
<1>4. CASE Cancel \/ IdleTimeout
  <2>1. registered /\ reader' \in {"errored", "cancelled"}
    BY <1>4 DEF Cancel, IdleTimeout, Finish, StreamInv, ReceiverInv
  <2>. QED BY <1>1, <2>1, BreakPromised
<1>5. CASE Release
  <2>1. CASE registered
    BY <1>1, <1>5, <2>1, BreakPromised DEF Release, Finish
  <2>2. CASE ~registered
    <3>1. ReaderSees' = ReaderSees
      BY <1>5, <2>2 DEF Release, ReaderSees
    <3>. QED BY <1>1, <3>1, UnseenPromised
  <2>. QED BY <2>1, <2>2
<1>. QED BY <1>2, <1>3, <1>4, <1>5 DEF Receiver

(* The bytestream implements ByteStream: the reader takes the writer's     *)
(* blocks in order and each once, a close() that resolved had them all     *)
(* taken, and a clean end before the last block means the writer gave up.  *)
THEOREM StreamKeepsThePromise == Spec => KeepsThePromise
<1>1. Init => Promise!Init
  <2> SUFFICES ASSUME Init PROVE Promise!Init
    OBVIOUS
  <2>1. /\ open = "no" /\ closing = "no" /\ failed = NotFailed /\ written = 0
        /\ taken = <<>> /\ reader = "none" /\ DOMAIN taken = {} /\ Len(taken) = 0
    BY DEF Init
  <2>2. InOrder
    BY <2>1 DEF InOrder
  <2>. QED BY <2>1, <2>2 DEF Promise!Init
<1>2. TypeOK /\ TypeOK' /\ StreamInv /\ StreamInv' /\ [Next]_vars => [Promise!Next]_(Promise!vars)
  <2> SUFFICES ASSUME TypeOK, TypeOK', StreamInv, StreamInv', [Next]_vars
               PROVE  [Promise!Next]_(Promise!vars)
    OBVIOUS
  <2>1. InOrder /\ InOrder'
    BY DEF StreamInv, ReceiverInv
  <2>2. CASE UNCHANGED vars
    <3>1. UNCHANGED <<senderVars, taken>> /\ ReaderSees' = ReaderSees
      BY <2>2 DEF vars, receiverVars, ReaderSees
    <3>. QED BY <2>1, <3>1, UnseenPromised, PromiseForms DEF PromiseKept, Promise!Next
  <2>3. CASE Next
    <3>1. PromiseKept
      BY <2>3, SenderPromised, AnswersPromised, DeliverPromised, ReceiverPromised DEF Next
    <3>. QED BY <2>1, <3>1, PromiseForms DEF PromiseKept, Promise!Next
  <2>. QED BY <2>2, <2>3
<1>. QED BY <1>1, <1>2, TypeCorrect, StreamIsSound, PTL DEF Spec, KeepsThePromise, Promise!Spec

-----------------------------------------------------------------------------
(* What the consumer has not read is held back, at the sender's window. *)

OkFor(n) == Reply(DataIq(n), Ok)

(* Until a resumption a block's ack is sent once, and nothing is delivered twice. *)
OnceInv ==
  resumes = 0 => /\ next = arrived
                 /\ \A i \in DOMAIN withheld :
                      /\ answer[withheld[i]] # "acked"
                      /\ \A j \in DOMAIN replies : replies[j] # OkFor(withheld[i])

(* The acks of the blocks beyond the buffer are withheld. *)
HeldInv ==
  registered => \A n \in read + HighWater - 1..Len(taken) - 1 :
                  \E i \in DOMAIN withheld : withheld[i] = n

PressureInv == OnceInv /\ HeldInv /\ BoundedUntilReplay

(* An answer settles at most the block it is for, and acks it only if it says so. *)
LEMMA SettleAcks ==
  ASSUME TypeOK, NEW iq \in Stanzas, NEW result \in {Ok, Refused}, Settle(iq, result),
         NEW n \in Blocks, answer'[n] = "acked"
  PROVE  answer[n] = "acked" \/ (iq = DataIq(n) /\ result = Ok)
<1>1. CASE iq = OpenIq \/ iq = CloseIq
  <2>1. answer' = answer
    BY <1>1, SettleForms, StanzaForms
  <2>. QED BY <2>1
<1>2. CASE iq # OpenIq /\ iq # CloseIq
  <2>1. PICK m \in Blocks : m = iq.block /\ iq = DataIq(m)
    BY <1>2, SettleForms
  <2>2. \/ answer' = answer
        \/ answer' = [answer EXCEPT ![m] = "acked"] /\ result = Ok
        \/ answer' = [answer EXCEPT ![m] = "refused"]
    BY <1>2, <2>1, SettleForms
  <2>. QED BY <2>1, <2>2 DEF TypeOK
<1>. QED BY <1>1, <1>2

(* No request is acked by its deadline. *)
LEMMA TimeoutAcksNothing ==
  ASSUME TypeOK, RequestTimeout, NEW n \in Blocks, answer'[n] = "acked"
  PROVE  answer[n] = "acked"
<1>1. CASE Settle(OpenIq, Refused) \/ Settle(CloseIq, Refused)
  <2>1. answer' = answer
    BY <1>1, SettleForms, StanzaForms
  <2>. QED BY <2>1
<1>2. ASSUME NEW m \in Blocks, answer' = [answer EXCEPT ![m] = "timeout"]
      PROVE  answer[n] = "acked"
  BY <1>2 DEF TypeOK
<1>. QED BY <1>1, <1>2 DEF RequestTimeout

(* OnceInv through a step that withholds nothing more. *)
LEMMA OnceKept ==
  ASSUME TypeOK, TypeOK', OnceInv, resumes' = 0 => resumes = 0 /\ next' = arrived',
         withheld' = withheld \/ withheld' = <<>>,
         \A n \in Blocks : answer'[n] = "acked" /\ answer[n] # "acked" =>
                           \E j \in DOMAIN replies : replies[j] = OkFor(n),
         \A j \in DOMAIN replies' : \/ \E k \in DOMAIN replies : replies'[j] = replies[k]
                                    \/ resumes = 0 =>
                                         \A i \in DOMAIN withheld' : replies'[j] # OkFor(withheld'[i])
  PROVE  OnceInv'
<1>1. CASE withheld' = <<>>
  <2>1. DOMAIN withheld' = {}
    BY <1>1
  <2>. QED BY <2>1 DEF OnceInv
<1>2. CASE withheld' = withheld
  <2>1. \A i \in DOMAIN withheld : withheld[i] \in Blocks
    BY ElementOfSeq, LenProperties DEF TypeOK
  <2> SUFFICES ASSUME resumes = 0, resumes' = 0, next' = arrived', NEW i \in DOMAIN withheld
               PROVE  /\ answer'[withheld[i]] # "acked"
                      /\ \A j \in DOMAIN replies' : replies'[j] # OkFor(withheld[i])
    BY <1>2 DEF OnceInv, OkFor, Reply, DataIq
  <2>2. answer[withheld[i]] # "acked" /\ \A j \in DOMAIN replies : replies[j] # OkFor(withheld[i])
    BY DEF OnceInv
  <2>. QED BY <1>2, <2>1, <2>2
<1>. QED BY <1>1, <1>2

(* HeldInv, as long as nothing is taken and nothing released. *)
LEMMA HeldKept ==
  ASSUME TypeOK, TypeOK', StreamInv, HeldInv,
         \/ UNCHANGED <<registered, read, taken, withheld>>
         \/ registered' = FALSE
         \/ taken = <<>> /\ UNCHANGED <<read, taken>>
  PROVE  HeldInv'
<1> USE StreamAssumption DEF StreamAssumption
<1>1. CASE UNCHANGED <<registered, read, taken, withheld>>
  BY <1>1 DEF HeldInv
<1>2. CASE registered' = FALSE
  BY <1>2 DEF HeldInv
<1>3. CASE taken = <<>> /\ UNCHANGED <<read, taken>>
  <2>1. Len(taken') = 0 /\ read' \in Nat /\ HighWater \in Nat /\ HighWater >= 1
    BY <1>3, LenProperties DEF TypeOK
  <2>2. \A n \in read' + HighWater - 1..Len(taken') - 1 : FALSE
    <3>1. \A r, h \in Nat : h >= 1 => \A n \in r + h - 1..0 - 1 : FALSE
      OBVIOUS
    <3>. QED BY <2>1, <3>1
  <2>. QED BY <2>2 DEF HeldInv
<1>. QED BY <1>1, <1>2, <1>3

LEMMA PressureSender ==
  ASSUME TypeOK, TypeOK', StreamInv, OnceInv, HeldInv,
         Sender \/ ReceiveReply \/ RequestTimeout \/ Resume \/ Lose
  PROVE  OnceInv' /\ HeldInv'
<1> USE StreamAssumption DEF StreamAssumption
<1>1. UNCHANGED receiverVars
  BY DEF Sender, OpenOutgoing, Write, Dispatch, DispatchedBy, Close, CloseDrained, CloseThrows, Abort,
         ReceiveReply, RequestTimeout, Resume, Lose
<1>2. UNCHANGED <<registered, read, taken, withheld>>
  BY <1>1 DEF receiverVars
<1>3. HeldInv'
  BY <1>2, HeldKept
<1>4. resumes' = 0 => resumes = 0 /\ next' = arrived'
  <2>1. resumes \in Nat /\ next \in Nat /\ arrived \in Nat /\ (resumes = 0 => next = arrived)
    BY LenProperties DEF TypeOK, OnceInv
  <2>2. CASE Resume
    BY <2>1, <2>2 DEF Resume
  <2>3. CASE Lose
    <3>1. PICK k \in next + 1..Len(wire) : PastTo(k)
      BY <2>3 DEF Lose
    <3>. QED BY <2>1, <2>3, <3>1, LenProperties DEF Lose, PastTo, TypeOK
  <2>4. CASE Sender \/ ReceiveReply \/ RequestTimeout
    <3>1. UNCHANGED <<resumes, next, arrived>>
      BY <2>4 DEF Sender, OpenOutgoing, Write, Dispatch, DispatchedBy, Close, CloseDrained, CloseThrows,
                  Abort, ReceiveReply, RequestTimeout, Send, netVars
    <3>. QED BY <2>1, <3>1
  <2>. QED BY <2>2, <2>3, <2>4
<1>5. CASE ~ReceiveReply
  <2>1. UNCHANGED replies
    BY <1>5 DEF Sender, OpenOutgoing, Write, Dispatch, DispatchedBy, Close, CloseDrained, CloseThrows,
                Abort, RequestTimeout, Resume, Lose
  <2>2. \A n \in Blocks : answer'[n] = "acked" => answer[n] = "acked"
    <3>1. CASE Dispatch
      <4>1. answer' = [answer EXCEPT ![dispatched] = "pending"]
        BY <3>1 DEF Dispatch, DispatchedBy
      <4>. QED BY <4>1 DEF TypeOK
    <3>2. CASE RequestTimeout
      BY <3>2, TimeoutAcksNothing
    <3>3. CASE ~Dispatch /\ ~RequestTimeout
      <4>1. UNCHANGED answer
        BY <1>5, <3>3 DEF Sender, OpenOutgoing, Write, Close, CloseDrained, CloseThrows, Abort, Resume,
                          Lose, senderVars
      <4>. QED BY <4>1
    <3>. QED BY <3>1, <3>2, <3>3
  <2>. QED BY <1>2, <1>3, <1>4, <2>1, <2>2, OnceKept
<1>6. CASE ReceiveReply
  <2> DEFINE r == Head(replies)
  <2>1. replies \in Seq(Replies) /\ replies # <<>>
    BY <1>6 DEF ReceiveReply, TypeOK, Replies
  <2>2. r \in Replies /\ r = replies[1] /\ 1 \in DOMAIN replies
    BY <2>1, HeadTailProperties, LenProperties, EmptySeq
  <2>3. r.iq \in Stanzas /\ r.result \in {Ok, Refused} /\ r = Reply(r.iq, r.result)
    BY <2>2 DEF Replies, Reply
  <2>4. Settle(r.iq, r.result) /\ replies' = Tail(replies)
    BY <1>6 DEF ReceiveReply
  <2>5. \A j \in DOMAIN replies' : \E k \in DOMAIN replies : replies'[j] = replies[k]
    <3>1. DOMAIN replies = 1..Len(replies) /\ Len(replies) \in Nat /\ Len(replies') = Len(replies) - 1
          /\ DOMAIN replies' = 1..Len(replies') /\ \A i \in 1..Len(replies') : replies'[i] = replies[i + 1]
      BY <2>1, <2>4, HeadTailProperties, LenProperties
    <3>. QED BY <3>1
  <2> HIDE DEF r
  <2>6. \A n \in Blocks : answer'[n] = "acked" /\ answer[n] # "acked" => r = OkFor(n)
    BY <2>3, <2>4, SettleAcks DEF OkFor
  <2>7. \A n \in Blocks : answer'[n] = "acked" /\ answer[n] # "acked" =>
                          \E j \in DOMAIN replies : replies[j] = OkFor(n)
    BY <2>2, <2>6
  <2>. QED BY <1>2, <1>3, <1>4, <2>5, <2>7, OnceKept
<1>. QED BY <1>3, <1>5, <1>6

(* What is no ack of a block that is still withheld. *)
LEMMA NoAck ==
  ASSUME NEW iq \in Stanzas, NEW result \in {Ok, Refused}, NEW n \in Blocks,
         iq = OpenIq \/ iq = CloseIq \/ result = Refused
  PROVE  Reply(iq, result) # OkFor(n)
<1>1. Reply(iq, result).iq = iq /\ Reply(iq, result).result = result
      /\ OkFor(n).iq = DataIq(n) /\ OkFor(n).result = Ok
  BY ReplyForms, StanzaForms DEF OkFor
<1>. QED BY <1>1, StanzaForms DEF Ok, Refused

(* The receiver's answers, but not of a block taken now. *)
LEMMA PressureAnswers ==
  ASSUME TypeOK, TypeOK', StreamInv, OnceInv, UNCHANGED <<senderVars, resumes>>,
         resumes = 0 => next' = arrived', withheld' = withheld \/ withheld' = <<>>,
         NEW answers \in Seq(Replies), Answer(answers),
         \/ withheld' = <<>>
         \/ resumes = 0 => \A i \in DOMAIN answers, n \in Blocks :
                             (\E k \in DOMAIN withheld : withheld[k] = n) => answers[i] # OkFor(n)
  PROVE  OnceInv'
<1>1. UNCHANGED answer
  BY DEF senderVars
<1>2. \A i \in DOMAIN replies' : \/ \E j \in DOMAIN replies : replies'[i] = replies[j]
                                 \/ \E j \in DOMAIN answers : replies'[i] = answers[j]
  <2>1. replies \in Seq(Replies) /\ replies' = replies \o answers
    BY DEF TypeOK, Replies, Answer
  <2>. QED BY <2>1, Appended
<1>3. \A i \in DOMAIN withheld : withheld[i] \in Blocks
  BY ElementOfSeq, LenProperties DEF TypeOK
<1>4. CASE withheld' = <<>>
  <2>1. DOMAIN withheld' = {}
    BY <1>4
  <2>. QED BY <1>1, <1>2, <1>4, <2>1, OnceKept
<1>5. CASE withheld' # <<>>
  <2>1. withheld' = withheld
    BY <1>5
  <2>2. \A j \in DOMAIN answers : resumes = 0 => \A i \in DOMAIN withheld : answers[j] # OkFor(withheld[i])
    BY <1>3, <1>5
  <2>3. \A j \in DOMAIN replies' : \/ \E k \in DOMAIN replies : replies'[j] = replies[k]
                                   \/ resumes = 0 =>
                                        \A i \in DOMAIN withheld' : replies'[j] # OkFor(withheld'[i])
    BY <1>2, <2>1, <2>2
  <2>. QED BY <1>1, <2>1, <2>3, OnceKept
<1>. QED BY <1>4, <1>5

LEMMA PressureOne ==
  ASSUME TypeOK, TypeOK', StreamInv, OnceInv, UNCHANGED <<senderVars, resumes>>,
         resumes = 0 => next' = arrived', withheld' = withheld,
         NEW iq \in Stanzas, NEW result \in {Ok, Refused}, Answer(<<Reply(iq, result)>>),
         \/ iq = OpenIq \/ iq = CloseIq \/ result = Refused
         \/ resumes # 0
  PROVE  OnceInv'
<1>1. <<Reply(iq, result)>> \in Seq(Replies) /\ DOMAIN <<Reply(iq, result)>> = {1}
      /\ <<Reply(iq, result)>>[1] = Reply(iq, result)
  BY ReplyForms
<1>2. resumes # 0 \/ \A n \in Blocks : Reply(iq, result) # OkFor(n)
  BY NoAck
<1>. QED BY <1>1, <1>2, PressureAnswers

LEMMA PressureFinish ==
  ASSUME TypeOK, TypeOK', StreamInv, OnceInv, HeldInv, UNCHANGED <<senderVars, resumes>>,
         resumes = 0 => next' = arrived',
         NEW end \in {"ended", "errored", "cancelled"}, NEW first \in Seq(Replies), Finish(end, first)
  PROVE  OnceInv' /\ HeldInv'
<1>1. withheld' = <<>> /\ registered' = FALSE
      /\ Answer(first \o WithheldAs(IF end = "cancelled" THEN Ok ELSE Refused))
  BY DEF Finish
<1>2. first \o WithheldAs(IF end = "cancelled" THEN Ok ELSE Refused) \in Seq(Replies)
  BY WithheldAnswers, Appended
<1>. QED BY <1>1, <1>2, PressureAnswers, HeldKept

LEMMA PressureTake ==
  ASSUME TypeOK, TypeOK', StreamInv, OnceInv, HeldInv, UNCHANGED <<senderVars, resumes>>, registered,
         resumes = 0 => next' = arrived', NEW t \in Blocks, t = Len(taken),
         NEW iq \in Stanzas, iq = DataIq(t), iq.block = t, Take(iq)
  PROVE  OnceInv' /\ HeldInv'
<1> USE StreamAssumption DEF StreamAssumption
<1>1. withheld \in Seq(Blocks) /\ DOMAIN withheld = 1..Len(withheld) /\ Len(withheld) \in Nat
      /\ \A i \in DOMAIN withheld : withheld[i] \in Blocks /\ withheld[i] < t
  BY WithheldAnswers, LenProperties DEF StreamInv, ReceiverInv, TypeOK
<1>2. /\ t \in Nat /\ Len(taken') = t + 1 /\ read' = read /\ read \in Nat /\ UNCHANGED <<answer, registered>>
  <2>1. taken \in Seq(Blocks) /\ taken' = Append(taken, t) /\ UNCHANGED <<read, registered>>
    BY DEF TypeOK, Take
  <2>2. Len(taken') = Len(taken) + 1 /\ Len(taken) \in Nat
    BY <2>1, AppendProperties, LenProperties
  <2>. QED BY <2>1, <2>2 DEF TypeOK, senderVars
<1>3. CASE Unread + 1 >= HighWater
  <2>1. withheld' = Append(withheld, t) /\ UNCHANGED replies
    BY <1>3 DEF Take
  <2>2. /\ DOMAIN withheld' = 1..Len(withheld) + 1
        /\ withheld'[Len(withheld) + 1] = t
        /\ \A i \in 1..Len(withheld) : withheld'[i] = withheld[i]
    BY <1>1, <2>1, AppendProperties, LenProperties
  <2>3. answer[t] # "acked" /\ \A j \in DOMAIN replies : replies[j] # OkFor(t)
    <3>1. answer[t] # "acked"
      BY <1>2 DEF StreamInv, AckedMeansTaken
    <3>2. OkFor(t).iq = DataIq(t) /\ OkFor(t).result = Ok
      BY ReplyForms, StanzaForms DEF OkFor
    <3>3. ~Honest(OkFor(t))
      BY <1>2, <3>2 DEF Honest
    <3>. QED BY <3>1, <3>3 DEF StreamInv, RepliesInv
  <2>4. OnceInv'
    <3> SUFFICES ASSUME resumes = 0
                 PROVE  \A i \in DOMAIN withheld' :
                          /\ answer[withheld'[i]] # "acked"
                          /\ \A j \in DOMAIN replies : replies[j] # OkFor(withheld'[i])
      BY <1>2, <2>1 DEF OnceInv, OkFor, Reply, DataIq
    <3>1. \A i \in DOMAIN withheld :
            answer[withheld[i]] # "acked" /\ \A j \in DOMAIN replies : replies[j] # OkFor(withheld[i])
      BY DEF OnceInv
    <3>2. \A i \in DOMAIN withheld' :
            \/ i \in DOMAIN withheld /\ withheld'[i] = withheld[i]
            \/ withheld'[i] = t
      BY <1>1, <2>2
    <3>. QED BY <2>3, <3>1, <3>2
  <2>5. HeldInv'
    <3> SUFFICES ASSUME NEW n \in read + HighWater - 1..t
                 PROVE  \E i \in DOMAIN withheld' : withheld'[i] = n
      BY <1>2 DEF HeldInv
    <3>1. CASE n = t
      BY <1>1, <2>2, <3>1
    <3>2. CASE n # t
      <4>1. n \in read + HighWater - 1..Len(taken) - 1
        BY <1>2, <3>2
      <4>2. PICK i \in DOMAIN withheld : withheld[i] = n
        BY <4>1 DEF HeldInv
      <4>. QED BY <1>1, <2>2, <4>2
    <3>. QED BY <3>1, <3>2
  <2>. QED BY <2>4, <2>5
<1>4. CASE ~(Unread + 1 >= HighWater)
  <2>1. withheld' = withheld /\ Answer(<<Reply(iq, Ok)>>)
    BY <1>4 DEF Take
  <2>2. <<Reply(iq, Ok)>> \in Seq(Replies) /\ DOMAIN <<Reply(iq, Ok)>> = {1}
        /\ <<Reply(iq, Ok)>>[1] = Reply(iq, Ok)
    BY ReplyForms
  <2>3. \A n \in Blocks : n # t => Reply(iq, Ok) # OkFor(n)
    BY ReplyForms, StanzaForms DEF OkFor, DataIq
  <2>4. \A n \in Blocks : (\E k \in DOMAIN withheld : withheld[k] = n) => n # t
    BY <1>1, <1>2
  <2>5. OnceInv'
    BY <2>1, <2>2, <2>3, <2>4, PressureAnswers
  <2>6. HeldInv'
    <3>1. \A n \in read' + HighWater - 1..Len(taken') - 1 : FALSE
      BY <1>2, <1>4 DEF Unread
    <3>. QED BY <3>1 DEF HeldInv
  <2>. QED BY <2>5, <2>6
<1>. QED BY <1>3, <1>4

LEMMA PressureDeliver ==
  ASSUME TypeOK, TypeOK', StreamInv, OnceInv, HeldInv, Deliver
  PROVE  OnceInv' /\ HeldInv'
<1> USE StreamAssumption DEF StreamAssumption
<1> DEFINE iq == wire[next + 1]
<1>1. iq \in Stanzas /\ UNCHANGED <<senderVars, resumes>>
  BY DeliveredTyped
<1>2. resumes = 0 => next' = arrived'
  <2>1. next \in Int /\ arrived \in Int
    BY LenProperties DEF TypeOK
  <2>. QED BY <2>1 DEF Deliver, PastTo, OnceInv
<1>3. \/ iq = OpenIq /\ OnOpen
      \/ iq.kind = "data" /\ OnData(iq)
      \/ iq = CloseIq /\ OnClose
  BY <1>1, StanzaForms DEF Deliver
<1>4. CASE UNCHANGED <<registered, read, taken, withheld>> /\ \E result \in {Ok, Refused} :
             /\ Answer(<<Reply(iq, result)>>)
             /\ iq = OpenIq \/ iq = CloseIq \/ result = Refused \/ resumes # 0
  BY <1>1, <1>2, <1>4, PressureOne, HeldKept
<1>5. CASE iq = OpenIq /\ OnOpen
  <2>1. CASE AnswerOnly(OpenIq, Refused)
    BY <1>4, <1>5, <2>1 DEF AnswerOnly, receiverVars
  <2>2. CASE ~registered /\ CreateInStream /\ Answer(<<Reply(OpenIq, Ok)>>) /\ expectation = "registered"
    <3>1. taken = <<>> /\ UNCHANGED <<read, taken, withheld>>
      BY <2>2 DEF StreamInv, ReceiverInv, CreateInStream
    <3>. QED BY <1>1, <1>2, <2>2, <3>1, StanzaForms, PressureOne, HeldKept
  <2>3. CASE UNCHANGED <<registered, taken, read, withheld, replies>>
    BY <1>1, <1>2, <2>3, OnceKept, HeldKept DEF senderVars
  <2>. QED BY <1>5, <2>1, <2>2, <2>3 DEF OnOpen
<1>6. CASE iq.kind = "data" /\ OnData(iq)
  <2>1. CASE AnswerOnly(iq, Refused)
    BY <1>4, <2>1 DEF AnswerOnly, receiverVars
  <2>2. CASE registered
    <3> DEFINE n == next - 1
    <3>1. /\ iq = DataIq(n) /\ n \in Blocks /\ iq.block = n
          /\ iq.seq = expectedSeq => n = Len(taken)
          /\ IsRedelivery(iq.seq) => n < Len(taken)
      BY <1>6, <2>2, SeqTellsBlocks DEF StreamInv
    <3>2. CASE IsRedelivery(iq.seq) /\ AnswerOnly(iq, Ok)
      <4>1. resumes # 0
        <5>1. next - 1 < Len(taken) /\ next \in Nat /\ arrived \in Nat /\ Len(taken) \in Nat
          BY <3>1, <3>2, LenProperties DEF TypeOK
        <5>2. Len(taken) < arrived \/ Len(taken) = 0
          BY EmptySeq DEF StreamInv, ReceiverInv, TypeOK
        <5>3. n \in Nat
          BY <3>1 DEF Blocks
        <5>. QED BY <5>1, <5>2, <5>3 DEF OnceInv
      <4>. QED BY <1>4, <3>2, <4>1 DEF AnswerOnly, receiverVars
    <3>3. CASE FailForSeq(iq)
      <4>1. <<Reply(iq, Refused)>> \in Seq(Replies)
        BY <1>1, ReplyForms
      <4>. QED BY <1>1, <1>2, <3>3, <4>1, PressureFinish DEF FailForSeq
    <3>4. CASE iq.seq = expectedSeq /\ Take(iq)
      <4>1. n = Len(taken)
        BY <3>1, <3>4
      <4> HIDE DEF n, iq
      <4>. QED BY <1>1, <1>2, <2>2, <3>1, <3>4, <4>1, PressureTake
    <3>. QED BY <1>6, <2>1, <2>2, <3>2, <3>3, <3>4 DEF OnData
  <2>. QED BY <1>6, <2>1, <2>2 DEF OnData
<1>7. CASE iq = CloseIq /\ OnClose
  <2>1. CASE AnswerOnly(CloseIq, Refused)
    BY <1>4, <1>7, <2>1 DEF AnswerOnly, receiverVars
  <2>2. CASE Finish("ended", <<Reply(CloseIq, Ok)>>)
    <3>1. <<Reply(CloseIq, Ok)>> \in Seq(Replies)
      BY StanzaForms, ReplyForms
    <3>. QED BY <1>1, <1>2, <2>2, <3>1, PressureFinish
  <2>. QED BY <1>7, <2>1, <2>2 DEF OnClose
<1>. QED BY <1>3, <1>5, <1>6, <1>7

LEMMA PressureReceiver ==
  ASSUME TypeOK, TypeOK', StreamInv, OnceInv, HeldInv, ExpectIncoming \/ Receiver
  PROVE  OnceInv' /\ HeldInv'
<1> USE StreamAssumption DEF StreamAssumption
<1>1. UNCHANGED <<senderVars, netVars>>
  BY DEF ExpectIncoming, Receiver, Read, Cancel, IdleTimeout, AcceptTimeout, ExpectTimeout, Release
<1>2. UNCHANGED <<senderVars, resumes>> /\ (resumes = 0 => next' = arrived')
  BY <1>1 DEF netVars, OnceInv
<1>3. CASE UNCHANGED <<registered, read, taken, withheld>>
           /\ (UNCHANGED replies \/ Answer(<<Reply(OpenIq, Refused)>>))
  <2>1. CASE UNCHANGED replies
    BY <1>2, <1>3, <2>1, OnceKept, HeldKept DEF senderVars
  <2>2. CASE Answer(<<Reply(OpenIq, Refused)>>)
    BY <1>2, <1>3, <2>2, StanzaForms, PressureOne, HeldKept
  <2>. QED BY <1>3, <2>1, <2>2
<1>4. CASE \E end \in {"ended", "errored", "cancelled"} : Finish(end, <<>>)
  <2>1. <<>> \in Seq(Replies)
    OBVIOUS
  <2>. QED BY <1>2, <1>4, <2>1, PressureFinish
<1>5. CASE ExpectIncoming
  <2>1. CASE parked
    <3>1. CreateInStream /\ Answer(<<Reply(OpenIq, Ok)>>) /\ expectation = "none"
      BY <1>5, <2>1 DEF ExpectIncoming
    <3>2. taken = <<>> /\ UNCHANGED <<read, taken, withheld>>
      BY <3>1 DEF StreamInv, ReceiverInv, CreateInStream
    <3>. QED BY <1>2, <3>1, <3>2, StanzaForms, PressureOne, HeldKept
  <2>2. CASE ~parked
    BY <1>3, <1>5, <2>2 DEF ExpectIncoming
  <2>. QED BY <2>1, <2>2
<1>6. CASE Read
  <2>1. read' = read + 1 /\ UNCHANGED <<taken, registered>> /\ read \in Nat /\ Len(taken) \in Nat
    BY <1>6, LenProperties DEF Read, TypeOK
  <2>2. CASE Unread - 1 < HighWater
    <3>1. withheld' = <<>> /\ Answer(WithheldAs(Ok))
      BY <1>6, <2>2 DEF Read
    <3>2. WithheldAs(Ok) \in Seq(Replies)
      BY WithheldAnswers
    <3>3. OnceInv'
      BY <1>2, <3>1, <3>2, PressureAnswers
    <3>4. \A n \in read' + HighWater - 1..Len(taken') - 1 : FALSE
      BY <2>1, <2>2 DEF Unread
    <3>. QED BY <3>3, <3>4 DEF HeldInv
  <2>3. CASE ~(Unread - 1 < HighWater)
    <3>1. UNCHANGED <<withheld, replies>>
      BY <1>6, <2>3 DEF Read
    <3>2. OnceInv'
      BY <1>2, <3>1, OnceKept DEF senderVars
    <3>3. HeldInv'
      <4>1. \A n \in read' + HighWater - 1..Len(taken') - 1 : n \in read + HighWater - 1..Len(taken) - 1
        BY <2>1
      <4>. QED BY <2>1, <3>1, <4>1 DEF HeldInv
    <3>. QED BY <3>2, <3>3
  <2>. QED BY <2>2, <2>3
<1>7. CASE Cancel \/ IdleTimeout
  BY <1>4, <1>7 DEF Cancel, IdleTimeout
<1>8. CASE AcceptTimeout \/ ExpectTimeout
  BY <1>3, <1>8 DEF AcceptTimeout, ExpectTimeout
<1>9. CASE Release
  BY <1>3, <1>4, <1>9 DEF Release
<1>. QED BY <1>5, <1>6, <1>7, <1>8, <1>9 DEF Receiver

(* The blocks beyond the buffer are in the window. *)
LEMMA HeldFits ==
  TypeOK /\ StreamInv /\ OnceInv /\ HeldInv /\ registered /\ resumes = 0 => Unread < HighWater + Window
<1> USE StreamAssumption DEF StreamAssumption
<1> SUFFICES ASSUME TypeOK, StreamInv, OnceInv, HeldInv, registered, resumes = 0
             PROVE  Unread < HighWater + Window
  OBVIOUS
<1>1. read \in Nat /\ Len(taken) \in Nat /\ dispatched \in Nat /\ dispatched <= MaxBlocks
      /\ Len(taken) <= dispatched /\ HighWater \in Nat /\ HighWater >= 1
  BY LenProperties DEF TypeOK, StreamInv, OrderInv
<1> DEFINE a == read + HighWater - 1
           b == Len(taken) - 1
<1>2. a \in Nat /\ b \in Int /\ Unread = b - a + HighWater
  BY <1>1 DEF Unread
<1>3. a..b \subseteq Unacked
  <2> SUFFICES ASSUME NEW n \in a..b PROVE n \in Unacked
    OBVIOUS
  <2>1. PICK i \in DOMAIN withheld : withheld[i] = n
    BY DEF HeldInv
  <2>2. answer[n] # "acked"
    BY <2>1 DEF OnceInv
  <2>3. n \in Blocks /\ n < dispatched
    BY <1>1, <1>2 DEF Blocks
  <2>. QED BY <2>2, <2>3 DEF Unacked
<1> HIDE DEF a, b
<1>4. Cardinality(a..b) <= Cardinality(Unacked) /\ Cardinality(a..b) \in Nat
  BY <1>3, UnackedIsFinite, FS_Subset, FS_CardinalityType
<1>5. CASE a <= b + 1
  <2>1. Cardinality(a..b) = b - a + 1
    BY <1>2, <1>5, IntervalSize
  <2>. QED BY <1>2, <1>4, <2>1, UnackedIsFinite DEF StreamInv, WindowInv
<1>6. CASE ~(a <= b + 1)
  BY <1>1, <1>2, <1>6
<1>. QED BY <1>5, <1>6

(* Up to the first resumption every ack that has to be withheld is, and    *)
(* what is withheld takes up the sender's window.                          *)
LEMMA PressureHolds == Spec => [](OnceInv /\ HeldInv)
<1>1. Init => OnceInv /\ HeldInv
  <2> SUFFICES ASSUME Init PROVE OnceInv /\ HeldInv
    OBVIOUS
  <2>1. withheld = <<>> /\ DOMAIN withheld = {} /\ next = arrived /\ registered = FALSE
    BY DEF Init
  <2>. QED BY <2>1 DEF OnceInv, HeldInv
<1>2. TypeOK /\ TypeOK' /\ StreamInv /\ OnceInv /\ HeldInv /\ [Next]_vars => OnceInv' /\ HeldInv'
  <2> SUFFICES ASSUME TypeOK, TypeOK', StreamInv, OnceInv, HeldInv, [Next]_vars
               PROVE  OnceInv' /\ HeldInv'
    OBVIOUS
  <2>1. CASE UNCHANGED vars
    <3>1. UNCHANGED <<registered, read, taken, withheld, replies, answer, resumes, next, arrived>>
      BY <2>1 DEF vars, senderVars, netVars, receiverVars
    <3>. QED BY <3>1, OnceKept, HeldKept DEF OnceInv
  <2>2. CASE Next
    BY <2>2, PressureSender, PressureDeliver, PressureReceiver DEF Next
  <2>. QED BY <2>1, <2>2
<1>. QED BY <1>1, <1>2, TypeCorrect, StreamIsSound, PTL DEF Spec

(* Until the session is resumed, a consumer that does not read is never    *)
(* sent more than its buffer and one window: the acks withheld by #onData  *)
(* hold the sender's window.                                               *)
THEOREM UnreadIsBounded == Spec => []BoundedUntilReplay
<1>1. Init => BoundedUntilReplay
  <2> SUFFICES ASSUME Init PROVE BoundedUntilReplay
    OBVIOUS
  <2>1. Len(taken) = 0 /\ read = 0
    BY DEF Init
  <2>. QED BY <2>1, StreamAssumption DEF BoundedUntilReplay, Unread, StreamAssumption
<1>2. TypeOK /\ TypeOK' /\ StreamInv /\ [Next]_vars /\ BoundedUntilReplay /\ ~registered'
        => BoundedUntilReplay'
  <2> SUFFICES ASSUME TypeOK, TypeOK', StreamInv, [Next]_vars, BoundedUntilReplay, ~registered'
               PROVE  BoundedUntilReplay'
    OBVIOUS
  <2>1. resumes' = 0 => resumes = 0
    <3>1. CASE Resume
      BY <3>1 DEF Resume, TypeOK
    <3>2. CASE Deliver
      BY <3>2, DeliveredTyped
    <3>3. CASE ~Resume /\ ~Deliver
      <4>1. UNCHANGED resumes
        BY <3>3 DEF Next, Sender, OpenOutgoing, Write, Dispatch, DispatchedBy, Close, CloseDrained,
             CloseThrows, Abort, ReceiveReply, RequestTimeout, Lose, ExpectIncoming, Receiver, Read,
             Cancel, IdleTimeout, AcceptTimeout, ExpectTimeout, Release, Send, netVars, vars
      <4>. QED BY <4>1
    <3>. QED BY <3>1, <3>2, <3>3
  <2>2. taken' = taken /\ read' >= read
    <3>0. read \in Int
      BY LenProperties DEF TypeOK
    <3>1. CASE Sender \/ ReceiveReply \/ RequestTimeout \/ Resume \/ Lose \/ UNCHANGED vars
      <4>1. UNCHANGED receiverVars
        BY <3>1 DEF Sender, OpenOutgoing, Write, Dispatch, DispatchedBy, Close, CloseDrained, CloseThrows,
                    Abort, ReceiveReply, RequestTimeout, Resume, Lose, vars
      <4>. QED BY <3>0, <4>1 DEF receiverVars
    <3>2. CASE Deliver
      <4> DEFINE iq == wire[next + 1]
      <4>1. iq \in Stanzas
        BY <3>2, DeliveredTyped
      <4>2. OnOpen \/ OnData(iq) \/ OnClose
        BY <3>2, <4>1, StanzaForms DEF Deliver
      <4> HIDE DEF iq
      <4>3. UNCHANGED <<taken, read>>
        <5>1. CASE OnOpen \/ OnClose
          BY <5>1 DEF OnOpen, OnClose, AnswerOnly, receiverVars, CreateInStream
        <5>2. CASE OnData(iq)
          BY <5>2 DEF OnData, AnswerOnly, FailForSeq, Take, receiverVars
        <5>. QED BY <4>2, <5>1, <5>2
      <4>. QED BY <3>0, <4>3
    <3>3. CASE ExpectIncoming \/ Cancel \/ IdleTimeout \/ AcceptTimeout \/ ExpectTimeout \/ Release
      <4>1. UNCHANGED <<taken, read>>
        BY <3>3 DEF ExpectIncoming, CreateInStream, Cancel, IdleTimeout, AcceptTimeout, ExpectTimeout, Release
      <4>. QED BY <3>0, <4>1
    <3>4. CASE Read
      BY <3>0, <3>4 DEF Read
    <3>. QED BY <3>1, <3>2, <3>3, <3>4 DEF Next, Receiver
  <2>3. read \in Int /\ read' \in Int /\ Len(taken) \in Int /\ HighWater + Window \in Int
    BY LenProperties, StreamAssumption DEF TypeOK, StreamAssumption
  <2>. QED BY <2>1, <2>2, <2>3 DEF BoundedUntilReplay, Unread
<1>3. TypeOK /\ StreamInv /\ OnceInv /\ HeldInv /\ registered => BoundedUntilReplay
  BY HeldFits DEF BoundedUntilReplay
<1>. QED BY <1>1, <1>2, <1>3, TypeCorrect, StreamIsSound, PressureHolds, PTL DEF Spec
=============================================================================
