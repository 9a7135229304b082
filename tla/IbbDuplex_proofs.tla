-------------------------- MODULE IbbDuplex_proofs --------------------------
(***************************************************************************)
(* What a resolved close() of a duplex means, for every number of blocks,  *)
(* every window and every set of scenarios: proofs of the safety           *)
(* properties of IbbDuplex.                                                *)
(*                                                                         *)
(* The argument is about one direction at a time: S is the end that sends, *)
(* R its peer, q what is on its way to R and r what is on its way to S.    *)
(* Every block is in one place (Carried, Answered), an ack that reaches a  *)
(* sender ahead of the peer's <close/> is an ack of a block the reader got *)
(* (Honest), and only an application's own <close/> overtakes a refusal    *)
(* (Due, Heard).                                                           *)
(***************************************************************************)
EXTENDS IbbDuplex, SequenceTheorems, TLAPS

Results == {"ok", "not-found", "unexpected-request", "not-acceptable"}
Replies == {Answer(iq, res) : iq \in Requests, res \in Results}
Stanzas == Requests \cup Replies

OkClose == Answer(CloseIq, "ok")
NoClose == Answer(CloseIq, "not-found")
Refusal == "unexpected-request"

(* m is on its way in q. *)
OnWay(q, m) == \E i \in DOMAIN q : q[i] = m

(* It is, with no <close/> before it. *)
Leads(q, m) == \E i \in DOMAIN q : q[i] = m /\ \A j \in 1..i - 1 : q[j] # CloseIq

(* An answer to block n is on its way. *)
IsReply(m, n) == \E res \in Results : m = Answer(Data(n), res)
Replied(q, n) == \E i \in DOMAIN q : IsReply(q[i], n)

(* The blocks of q are in order, and no block is answered twice in it. *)
Ordered(q) ==
  \A i, j \in DOMAIN q : \A m, n \in Blocks : i < j /\ q[i] = Data(m) /\ q[j] = Data(n) => m < n
Single(q) ==
  \A i, j \in DOMAIN q : \A n \in Blocks : IsReply(q[i], n) /\ IsReply(q[j], n) => i = j

(* No more than one <close/>. *)
Lone(q) == \A i, j \in DOMAIN q : q[i] = CloseIq /\ q[j] = CloseIq => i = j

(* An end, without its bounds. *)
Duplexes ==
  [half : {"none", "live", "tombstone", "gone"}, taken : Nat, withheld : Seq(Blocks),
   refused : {"no", "due", "told", "overtaken"}, onFailDue : BOOLEAN, sent : 0..MaxBlocks, inFlight : SUBSET Blocks,
   failed : {"no", "block", "abort"}, closedByPeer : BOOLEAN, closeSent : BOOLEAN,
   peerKnows : BOOLEAN, closes : Nat,
   closing : {"no", "draining", "sent", "telling", "resolved", "rejected"}, aborting : BOOLEAN]

Typed ==
  /\ faults \in Scenarios
  /\ end \in [Ends -> Duplexes] /\ channel \in [Ends -> Seq(Stanzas)]
  /\ opening \in {"no", "asked", "open", "discarded"}
  /\ expects \in {"no", "waiting", "over"}
  /\ parked \in BOOLEAN /\ accepting \in BOOLEAN

(* An end by itself; h: whoever opened it has a handle. *)
Own(S, h) ==
  /\ S.half = "none" => S = Untouched
  /\ S.half # "live" => S.withheld = <<>>
  /\ S.half = "tombstone" => S.aborting \/ S.closing \in {"sent", "telling"}
  /\ S.refused # "no" => S.half = "gone"
  /\ S.refused = "due" => S.onFailDue
  /\ S.closes > 0 => S.peerKnows /\ S.half \in {"tombstone", "gone"}
  /\ S.closes > 0 /\ h /\ S.failed = "no" => S.closing \in {"sent", "resolved"}
  /\ S.closedByPeer => S.peerKnows /\ S.half \in {"tombstone", "gone"}
  /\ S.closeSent => S.closes > 0
  /\ S.closing # "no" => h
  /\ S.closing = "sent" => S.inFlight = {} /\ S.failed = "no" /\ S.closeSent
  /\ S.closing \in {"telling", "rejected"} => S.failed # "no"
  /\ S.closing = "telling" \/ S.aborting => S.closes > 0
  /\ S.sent > 0 => h

(* The beginning. *)
OpenOf ==
  /\ opening = "no" <=> end["a"].half = "none"
  /\ expects # "over" => end["b"].half = "none"
  /\ opening = "open" \/ accepting \/ OnWay(channel["a"], Answer(Open, "ok")) => end["b"].half # "none"
  /\ opening = "asked" /\ end["a"].closes > 0 => end["a"].failed # "no"
  /\ parked \/ end["b"].half # "none" \/ OnWay(channel["b"], Open) => opening # "no"

(* The blocks that have not arrived, and those that arrived and were       *)
(* neither answered nor dropped.                                           *)
Carried(S, R, q) ==
  /\ Ordered(q) /\ R.taken <= S.sent
  /\ \A n \in Blocks : OnWay(q, Data(n)) => R.taken < n /\ n <= S.sent
  /\ R.half = "live" => \A n \in Blocks : R.taken < n /\ n <= S.sent => OnWay(q, Data(n))
  /\ \A i, j \in DOMAIN R.withheld : R.withheld[i] = R.withheld[j] => i = j
  /\ \A n \in Blocks : OnWay(R.withheld, n) => n <= R.taken

(* A block that was answered is nowhere else, and one that is somewhere is *)
(* awaited by its sender.                                                  *)
Answered(S, R, q, r) ==
  /\ Single(r)
  /\ \A n \in Blocks : Replied(r, n) => n <= S.sent /\ ~OnWay(q, Data(n)) /\ ~OnWay(R.withheld, n)
  /\ \A n \in Blocks :
       S.failed = "no" /\ (OnWay(q, Data(n)) \/ OnWay(R.withheld, n) \/ Replied(r, n)) => n \in S.inFlight

(* Who sent no <close/> has none heard or answered. *)
Closed(S, R, q, r) ==
  /\ S.closes = 0 => ~OnWay(q, CloseIq) /\ ~OnWay(r, OkClose) /\ ~OnWay(r, NoClose) /\ ~R.closedByPeer
  /\ OnWay(r, OkClose) => R.half \in {"tombstone", "gone"}

(* S has done nothing yet that ends the tunnel, nor heard of its end; and  *)
(* it sent a <close/> that R will refuse, or met R's own half gone.        *)
Hopeful(S)   == S.failed = "no" /\ ~S.closedByPeer /\ S.closes = 0
Missed(R, q) == R.half = "gone" \/ Leads(q, NoClose)

Honest(S, R, q, r) ==
  /\ Hopeful(S) /\ ~Missed(R, q) =>
       /\ \A n \in Blocks : n <= S.sent => n \in S.inFlight \/ n <= R.taken
       /\ \A n \in Blocks : Leads(r, Answer(Data(n), "ok")) => n <= R.taken
       /\ R.half = "tombstone" => OnWay(r, CloseIq)
  /\ S.closing = "sent" /\ ~S.closedByPeer =>
       R.taken = S.sent \/ (Missed(R, q) /\ ~OnWay(r, OkClose))

(* The block whose refusal is due is nowhere else, and is awaited.         *)
Due(S, R, q, r) ==
  R.refused = "due" =>
    /\ R.taken + 1 <= S.sent /\ ~OnWay(q, Data(R.taken + 1)) /\ ~Replied(r, R.taken + 1)
    /\ S.failed = "no" => R.taken + 1 \in S.inFlight

(* A <close/> of R's is ahead of its refusal (see Own and Overtaken).      *)
Late(R) == R.refused = "overtaken" \/ (R.refused = "due" /\ R.closes > 0)

(* If none is, the refusal is on its way, ahead of any <close/>, or due    *)
(* with none before it, until it is noticed.                               *)
Heard(S, R, r) ==
  R.refused # "no" /\ S.failed = "no" /\ ~Late(R) =>
    /\ ~S.closedByPeer
    /\ \/ \E n \in S.inFlight : Leads(r, Answer(Data(n), Refusal))
       \/ R.refused = "due" /\ ~OnWay(r, CloseIq)

Resolved(S, R) ==
  S.closing = "resolved" =>
    /\ R.half \in {"tombstone", "gone"} /\ (R.refused # "no" => Late(R))
    /\ S.closedByPeer \/ R.taken = S.sent

Link(S, R, q, r) ==
  /\ Carried(S, R, q) /\ Answered(S, R, q, r) /\ Closed(S, R, q, r)
  /\ Honest(S, R, q, r) /\ Due(S, R, q, r) /\ Heard(S, R, r) /\ Resolved(S, R)

LinkOf(e) == Link(end[e], end[Peer(e)], channel[Peer(e)], channel[e])

DuplexInv == Typed /\ OpenOf /\ \A e \in Ends : Own(end[e], HasHandle(e)) /\ LinkOf(e)

-----------------------------------------------------------------------------
(* Stanzas and queues. *)

LEMMA Forms ==
  /\ \A m, n \in Blocks : Data(m) = Data(n) => m = n
  /\ \A n \in Blocks : Data(n) # CloseIq /\ Data(n) # Open
  /\ CloseIq # Open
  /\ \A iq \in Requests, res \in Results : \A x \in Requests : Answer(iq, res) # x
  /\ \A iq, jq, res, rez : Answer(iq, res) = Answer(jq, rez) => iq = jq /\ res = rez
  /\ Requests = {Open, CloseIq} \cup {Data(n) : n \in Blocks}
  BY DEF Data, CloseIq, Open, Answer, Requests

LEMMA Kinds ==
  /\ CloseIq \in Stanzas /\ Open \in Stanzas /\ CloseIq \in Requests /\ Open \in Requests
  /\ \A n \in Blocks : Data(n) \in Stanzas /\ Data(n) \in Requests
  /\ \A iq \in Requests, res \in Results : Answer(iq, res) \in Stanzas
  /\ OkClose \in Stanzas /\ NoClose \in Stanzas
  /\ \A n \in Blocks : \A x : IsReply(x, n) =>
       /\ x # OkClose /\ x # NoClose /\ x # CloseIq /\ x # Open
       /\ \A m \in Blocks : x # Data(m) /\ (IsReply(x, m) => m = n)
       /\ \A res \in Results : x # Answer(Open, res)
  /\ \A n \in Blocks, res \in Results : IsReply(Answer(Data(n), res), n)
<1> USE Forms DEF Results
<1>1. CloseIq \in Requests /\ Open \in Requests /\ \A n \in Blocks : Data(n) \in Requests
  OBVIOUS
<1>2. \A iq \in Requests, res \in Results : Answer(iq, res) \in Stanzas
  BY DEF Stanzas, Replies
<1>3. OkClose \in Stanzas /\ NoClose \in Stanzas
  BY <1>1, <1>2 DEF OkClose, NoClose
<1>4. ASSUME NEW n \in Blocks, NEW x, IsReply(x, n)
      PROVE  /\ x # OkClose /\ x # NoClose /\ x # CloseIq /\ x # Open
             /\ \A m \in Blocks : x # Data(m) /\ (IsReply(x, m) => m = n)
             /\ \A res \in Results : x # Answer(Open, res)
  <2>1. PICK res \in Results : x = Answer(Data(n), res)
    BY <1>4 DEF IsReply
  <2>2. \A y \in Requests : x # y
    BY <1>1, <2>1
  <2>3. x # OkClose /\ x # NoClose
    BY <1>1, <2>1 DEF OkClose, NoClose
  <2>4. \A m \in Blocks : IsReply(x, m) => m = n
    BY <2>1 DEF IsReply
  <2>5. \A rez \in Results : x # Answer(Open, rez)
    BY <2>1
  <2> QED BY <1>1, <2>2, <2>3, <2>4, <2>5
<1>5. \A n \in Blocks, res \in Results : IsReply(Answer(Data(n), res), n)
  BY DEF IsReply
<1> QED BY <1>1, <1>2, <1>3, <1>4, <1>5 DEF Stanzas

LEMMA Joined ==
  ASSUME NEW T, NEW q \in Seq(T), NEW o \in Seq(T)
  PROVE  /\ q \o o \in Seq(T)
         /\ \A i \in DOMAIN (q \o o) : \/ i \in DOMAIN q /\ (q \o o)[i] = q[i]
                                       \/ i > Len(q) /\ i - Len(q) \in DOMAIN o /\ (q \o o)[i] = o[i - Len(q)]
         /\ \A i \in DOMAIN q : i \in DOMAIN (q \o o) /\ (q \o o)[i] = q[i]
         /\ \A i \in DOMAIN o : i + Len(q) \in DOMAIN (q \o o) /\ (q \o o)[i + Len(q)] = o[i]
         /\ \A m : OnWay(q \o o, m) <=> OnWay(q, m) \/ OnWay(o, m)
         /\ Len(q) \in Nat /\ DOMAIN q = 1..Len(q) /\ DOMAIN o = 1..Len(o)
<1>1. q \o o \in Seq(T) /\ Len(q) \in Nat /\ Len(o) \in Nat /\ Len(q \o o) = Len(q) + Len(o)
  OBVIOUS
<1>2. DOMAIN q = 1..Len(q) /\ DOMAIN o = 1..Len(o) /\ DOMAIN (q \o o) = 1..Len(q) + Len(o)
  BY <1>1
<1>3. \A i \in 1..Len(q) + Len(o) : (q \o o)[i] = IF i <= Len(q) THEN q[i] ELSE o[i - Len(q)]
  OBVIOUS
<1>4. \A i \in DOMAIN (q \o o) : \/ i \in DOMAIN q /\ (q \o o)[i] = q[i]
                                 \/ i > Len(q) /\ i - Len(q) \in DOMAIN o /\ (q \o o)[i] = o[i - Len(q)]
  BY <1>1, <1>2, <1>3
<1>5. \A i \in DOMAIN q : i \in DOMAIN (q \o o) /\ (q \o o)[i] = q[i]
  BY <1>1, <1>2, <1>3
<1>6. \A i \in DOMAIN o : i + Len(q) \in DOMAIN (q \o o) /\ (q \o o)[i + Len(q)] = o[i]
  BY <1>1, <1>2, <1>3
<1>7. \A m : OnWay(q \o o, m) <=> OnWay(q, m) \/ OnWay(o, m)
  BY <1>4, <1>5, <1>6 DEF OnWay
<1> QED BY <1>1, <1>2, <1>4, <1>5, <1>6, <1>7

LEMMA Behind ==
  ASSUME NEW T, NEW q \in Seq(T), q # <<>>
  PROVE  /\ Tail(q) \in Seq(T) /\ Head(q) \in T /\ Head(q) = q[1] /\ 1 \in DOMAIN q
         /\ \A i \in DOMAIN Tail(q) : i + 1 \in DOMAIN q /\ Tail(q)[i] = q[i + 1]
         /\ \A i \in DOMAIN q : i # 1 => i - 1 \in DOMAIN Tail(q) /\ Tail(q)[i - 1] = q[i]
         /\ \A m : OnWay(q, m) <=> m = Head(q) \/ OnWay(Tail(q), m)
         /\ DOMAIN q \subseteq Nat /\ DOMAIN Tail(q) \subseteq Nat /\ 0 \notin DOMAIN q /\ 0 \notin DOMAIN Tail(q)
<1>1. /\ Tail(q) \in Seq(T) /\ Head(q) \in T /\ Head(q) = q[1] /\ Len(q) \in Nat /\ Len(q) > 0
      /\ Len(Tail(q)) = Len(q) - 1
  OBVIOUS
<1>2. DOMAIN q = 1..Len(q) /\ DOMAIN Tail(q) = 1..Len(q) - 1
  BY <1>1
<1>3. \A i \in 1..Len(q) - 1 : Tail(q)[i] = q[i + 1]
  OBVIOUS
<1>4. \A i \in DOMAIN Tail(q) : i + 1 \in DOMAIN q /\ Tail(q)[i] = q[i + 1]
  BY <1>1, <1>2, <1>3
<1>5. \A i \in DOMAIN q : i # 1 => i - 1 \in DOMAIN Tail(q) /\ Tail(q)[i - 1] = q[i]
  BY <1>1, <1>2, <1>3
<1>6. ASSUME NEW m PROVE OnWay(q, m) <=> m = Head(q) \/ OnWay(Tail(q), m)
  <2>1. 1 \in DOMAIN q
    BY <1>1, <1>2
  <2>2. ASSUME NEW i \in DOMAIN q, q[i] = m PROVE m = Head(q) \/ OnWay(Tail(q), m)
    BY <1>1, <1>5, <2>2 DEF OnWay
  <2>3. ASSUME NEW i \in DOMAIN Tail(q), Tail(q)[i] = m PROVE OnWay(q, m)
    BY <1>4, <2>3 DEF OnWay
  <2> QED BY <1>1, <2>1, <2>2, <2>3 DEF OnWay
<1> QED BY <1>1, <1>2, <1>4, <1>5, <1>6

LEMMA RepliedIs ==
  \A q, n : Replied(q, n) <=> \E res \in Results : OnWay(q, Answer(Data(n), res))
  BY DEF Replied, IsReply, OnWay

LEMMA LeadsJoined ==
  ASSUME NEW T, NEW q \in Seq(T), NEW o \in Seq(T), NEW m
  PROVE  /\ Leads(q, m) => Leads(q \o o, m) /\ OnWay(q, m)
         /\ Leads(q \o o, m) => Leads(q, m) \/ (OnWay(o, m) /\ ~OnWay(q, CloseIq))
         /\ OnWay(o, m) /\ ~OnWay(q, CloseIq) /\ ~OnWay(o, CloseIq) => Leads(q \o o, m)
<1> DEFINE p == q \o o
<1>1. /\ \A i \in DOMAIN p : \/ i \in DOMAIN q /\ p[i] = q[i]
                             \/ i > Len(q) /\ i - Len(q) \in DOMAIN o /\ p[i] = o[i - Len(q)]
      /\ \A i \in DOMAIN q : i \in DOMAIN p /\ p[i] = q[i]
      /\ \A i \in DOMAIN o : i + Len(q) \in DOMAIN p /\ p[i + Len(q)] = o[i]
      /\ Len(q) \in Nat /\ DOMAIN q = 1..Len(q) /\ DOMAIN o = 1..Len(o)
      /\ Len(o) \in Nat /\ Len(p) = Len(q) + Len(o) /\ DOMAIN p = 1..Len(p)
      /\ OnWay(p, CloseIq) <=> OnWay(q, CloseIq) \/ OnWay(o, CloseIq)
  <2>1. Len(o) \in Nat /\ Len(p) = Len(q) + Len(o) /\ DOMAIN p = 1..Len(p)
    OBVIOUS
  <2> QED BY <2>1, Joined
<1> HIDE DEF p
<1>2. Leads(q, m) => Leads(p, m) /\ OnWay(q, m)
  <2>1. SUFFICES ASSUME NEW i \in DOMAIN q, q[i] = m, \A j \in 1..i - 1 : q[j] # CloseIq
                 PROVE  Leads(p, m) /\ OnWay(q, m)
    BY DEF Leads
  <2>2. i \in Nat /\ \A j \in 1..i - 1 : j \in DOMAIN q
    BY <1>1
  <2>3. \A j \in 1..i - 1 : p[j] # CloseIq
    BY <1>1, <2>1, <2>2
  <2> QED BY <1>1, <2>1, <2>3 DEF Leads, OnWay
<1>3. Leads(p, m) => Leads(q, m) \/ (OnWay(o, m) /\ ~OnWay(q, CloseIq))
  <2>1. SUFFICES ASSUME NEW i \in DOMAIN p, p[i] = m, \A j \in 1..i - 1 : p[j] # CloseIq
                 PROVE  Leads(q, m) \/ (OnWay(o, m) /\ ~OnWay(q, CloseIq))
    BY DEF Leads
  <2>2. CASE i \in DOMAIN q /\ p[i] = q[i]
    <3>1. \A j \in 1..i - 1 : j \in DOMAIN q
      BY <1>1, <2>2
    <3>2. \A j \in 1..i - 1 : q[j] # CloseIq
      BY <1>1, <2>1, <3>1
    <3> QED BY <2>1, <2>2, <3>2 DEF Leads
  <2>3. CASE i > Len(q) /\ i - Len(q) \in DOMAIN o /\ p[i] = o[i - Len(q)]
    <3>1. OnWay(o, m)
      BY <2>1, <2>3 DEF OnWay
    <3>2. \A j \in DOMAIN q : j \in 1..i - 1
      BY <1>1, <2>3
    <3>3. \A j \in DOMAIN q : q[j] # CloseIq
      BY <1>1, <2>1, <3>2
    <3> QED BY <3>1, <3>3 DEF OnWay
  <2> QED BY <1>1, <2>2, <2>3
<1>4. OnWay(o, m) /\ ~OnWay(q, CloseIq) /\ ~OnWay(o, CloseIq) => Leads(p, m)
  <2>1. SUFFICES ASSUME OnWay(o, m), ~OnWay(q, CloseIq), ~OnWay(o, CloseIq) PROVE Leads(p, m)
    OBVIOUS
  <2>2. \A j \in DOMAIN p : p[j] # CloseIq
    BY <1>1, <2>1 DEF OnWay
  <2>3. PICK i \in DOMAIN o : o[i] = m
    BY <2>1 DEF OnWay
  <2>4. i + Len(q) \in DOMAIN p /\ p[i + Len(q)] = m /\ i + Len(q) \in Nat
    BY <1>1, <2>3
  <2>5. \A j \in 1..(i + Len(q)) - 1 : j \in DOMAIN p
    BY <1>1, <2>4
  <2> QED BY <2>2, <2>4, <2>5 DEF Leads
<1> QED BY <1>2, <1>3, <1>4 DEF p

LEMMA LeadsBehind ==
  ASSUME NEW T, NEW q \in Seq(T), q # <<>>, NEW m
  PROVE  /\ Leads(q, m) => m = Head(q) \/ (Head(q) # CloseIq /\ Leads(Tail(q), m))
         /\ Leads(Tail(q), m) /\ Head(q) # CloseIq => Leads(q, m)
         /\ m = Head(q) => Leads(q, m)
<1> DEFINE t == Tail(q)
<1>1. /\ Head(q) = q[1] /\ 1 \in DOMAIN q
      /\ \A i \in DOMAIN t : i + 1 \in DOMAIN q /\ t[i] = q[i + 1]
      /\ \A i \in DOMAIN q : i # 1 => i - 1 \in DOMAIN t /\ t[i - 1] = q[i]
      /\ DOMAIN q \subseteq Nat /\ DOMAIN t \subseteq Nat /\ 0 \notin DOMAIN q /\ 0 \notin DOMAIN t
      /\ DOMAIN q = 1..Len(q) /\ Len(q) \in Nat /\ DOMAIN t = 1..Len(q) - 1
  <2>1. DOMAIN q = 1..Len(q) /\ Len(q) \in Nat /\ DOMAIN t = 1..Len(q) - 1
    OBVIOUS
  <2> QED BY <2>1, Behind
<1> HIDE DEF t
<1>2. Leads(q, m) => m = Head(q) \/ (Head(q) # CloseIq /\ Leads(t, m))
  <2>1. SUFFICES ASSUME NEW i \in DOMAIN q, q[i] = m, \A j \in 1..i - 1 : q[j] # CloseIq, i # 1
                 PROVE  Head(q) # CloseIq /\ Leads(t, m)
    BY <1>1 DEF Leads
  <2>2. i \in Nat /\ i > 1 /\ 1 \in 1..i - 1
    BY <1>1, <2>1
  <2>3. i - 1 \in DOMAIN t /\ t[i - 1] = m
    BY <1>1, <2>1
  <2>4. \A j \in 1..(i - 1) - 1 : j \in DOMAIN t /\ j + 1 \in 1..i - 1
    BY <1>1, <2>2
  <2>5. \A j \in 1..(i - 1) - 1 : t[j] # CloseIq
    BY <1>1, <2>1, <2>4
  <2> QED BY <1>1, <2>1, <2>2, <2>3, <2>5 DEF Leads
<1>3. Leads(t, m) /\ Head(q) # CloseIq => Leads(q, m)
  <2>1. SUFFICES ASSUME NEW i \in DOMAIN t, t[i] = m, \A j \in 1..i - 1 : t[j] # CloseIq, Head(q) # CloseIq
                 PROVE  Leads(q, m)
    BY DEF Leads
  <2>2. i \in Nat /\ i + 1 \in DOMAIN q /\ q[i + 1] = m
    BY <1>1, <2>1
  <2>3. \A j \in 1..(i + 1) - 1 : j \in DOMAIN q /\ (j # 1 => j - 1 \in 1..i - 1)
    BY <1>1, <2>2
  <2>4. \A j \in 1..(i + 1) - 1 : q[j] # CloseIq
    BY <1>1, <2>1, <2>3
  <2> QED BY <2>2, <2>4 DEF Leads
<1>4. m = Head(q) => Leads(q, m)
  BY <1>1 DEF Leads
<1> QED BY <1>2, <1>3, <1>4 DEF t

LEMMA OrderedKeeps ==
  ASSUME NEW q \in Seq(Stanzas), Ordered(q)
  PROVE  /\ \A o \in Seq(Stanzas) : (\A n \in Blocks : ~OnWay(o, Data(n))) => Ordered(q \o o)
         /\ \A m \in Blocks : (\A n \in Blocks : OnWay(q, Data(n)) => n < m) => Ordered(q \o <<Data(m)>>)
         /\ q # <<>> => /\ Ordered(Tail(q))
                        /\ \A m, n \in Blocks : Head(q) = Data(m) /\ OnWay(Tail(q), Data(n)) => m < n
<1>1. ASSUME NEW o \in Seq(Stanzas), \A n \in Blocks : ~OnWay(o, Data(n))
      PROVE  Ordered(q \o o)
  BY <1>1, Joined DEF Ordered, OnWay
<1>2. ASSUME NEW m \in Blocks, \A n \in Blocks : OnWay(q, Data(n)) => n < m
      PROVE  Ordered(q \o <<Data(m)>>)
  <2>1. <<Data(m)>> \in Seq(Stanzas) /\ DOMAIN <<Data(m)>> = {1} /\ <<Data(m)>>[1] = Data(m)
    BY Kinds
  <2>2. DOMAIN q = 1..Len(q) /\ Len(q) \in Nat
    OBVIOUS
  <2>3. \A i \in DOMAIN (q \o <<Data(m)>>) :
          \/ i \in DOMAIN q /\ (q \o <<Data(m)>>)[i] = q[i]
          \/ i = Len(q) + 1 /\ (q \o <<Data(m)>>)[i] = Data(m)
    BY <2>1, <2>2
  <2>4. \A i \in DOMAIN q : \A n \in Blocks : q[i] = Data(n) => n < m
    BY <1>2 DEF OnWay
  <2> QED BY <2>2, <2>3, <2>4, Forms DEF Ordered
<1>3. ASSUME q # <<>>
      PROVE  /\ Ordered(Tail(q))
             /\ \A m, n \in Blocks : Head(q) = Data(m) /\ OnWay(Tail(q), Data(n)) => m < n
  <2>1. /\ \A i \in DOMAIN Tail(q) : i + 1 \in DOMAIN q /\ Tail(q)[i] = q[i + 1] /\ i \in Nat /\ i # 0
        /\ Head(q) = q[1] /\ 1 \in DOMAIN q
    BY <1>3, Behind
  <2>2. \A i, j \in DOMAIN Tail(q) : i < j => i + 1 < j + 1
    BY <2>1
  <2>3. Ordered(Tail(q))
    BY <2>1, <2>2 DEF Ordered
  <2>4. \A i \in DOMAIN Tail(q) : 1 < i + 1
    BY <2>1
  <2> QED BY <2>1, <2>3, <2>4 DEF Ordered, OnWay
<1> QED BY <1>1, <1>2, <1>3

LEMMA SingleKeeps ==
  ASSUME NEW q \in Seq(Stanzas), Single(q)
  PROVE  /\ \A o \in Seq(Stanzas) :
              Single(o) /\ (\A n \in Blocks : ~(Replied(q, n) /\ Replied(o, n))) => Single(q \o o)
         /\ q # <<>> => /\ Single(Tail(q))
                        /\ \A n \in Blocks : IsReply(Head(q), n) => ~Replied(Tail(q), n)
<1>1. ASSUME NEW o \in Seq(Stanzas), Single(o), \A n \in Blocks : ~(Replied(q, n) /\ Replied(o, n))
      PROVE  Single(q \o o)
  <2> DEFINE p == q \o o
  <2>1. \A i \in DOMAIN p : \/ i \in DOMAIN q /\ p[i] = q[i]
                            \/ i > Len(q) /\ i - Len(q) \in DOMAIN o /\ p[i] = o[i - Len(q)]
    BY Joined
  <2>2. DOMAIN p \subseteq Nat /\ Len(q) \in Nat
    OBVIOUS
  <2> HIDE DEF p
  <2>3. SUFFICES ASSUME NEW i \in DOMAIN p, NEW j \in DOMAIN p, NEW n \in Blocks,
                        IsReply(p[i], n), IsReply(p[j], n)
                 PROVE  i = j
    BY DEF Single, p
  <2>4. CASE i \in DOMAIN q /\ p[i] = q[i]
    <3>1. Replied(q, n)
      BY <2>3, <2>4 DEF Replied
    <3>2. j \in DOMAIN q /\ p[j] = q[j]
      BY <1>1, <2>1, <2>3, <3>1 DEF Replied
    <3> QED BY <2>3, <2>4, <3>2 DEF Single
  <2>5. CASE i > Len(q) /\ i - Len(q) \in DOMAIN o /\ p[i] = o[i - Len(q)]
    <3>1. Replied(o, n)
      BY <2>3, <2>5 DEF Replied
    <3>2. j > Len(q) /\ j - Len(q) \in DOMAIN o /\ p[j] = o[j - Len(q)]
      BY <1>1, <2>1, <2>3, <3>1 DEF Replied
    <3>3. i - Len(q) = j - Len(q)
      BY <1>1, <2>3, <2>5, <3>2 DEF Single
    <3> QED BY <2>2, <3>3
  <2> QED BY <2>1, <2>4, <2>5
<1>2. ASSUME q # <<>>
      PROVE  Single(Tail(q)) /\ \A n \in Blocks : IsReply(Head(q), n) => ~Replied(Tail(q), n)
  <2>1. /\ \A i \in DOMAIN Tail(q) : i + 1 \in DOMAIN q /\ Tail(q)[i] = q[i + 1] /\ i \in Nat /\ i # 0
        /\ Head(q) = q[1] /\ 1 \in DOMAIN q
    BY <1>2, Behind
  <2>2. \A i, j \in DOMAIN Tail(q) : i + 1 = j + 1 => i = j
    BY <2>1
  <2>3. \A i \in DOMAIN Tail(q) : i + 1 # 1
    BY <2>1
  <2>4. Single(Tail(q))
    BY <2>1, <2>2 DEF Single
  <2>5. \A n \in Blocks : IsReply(Head(q), n) => ~Replied(Tail(q), n)
    BY <2>1, <2>3 DEF Single, Replied
  <2> QED BY <2>4, <2>5
<1> QED BY <1>1, <1>2

(* One stanza. *)
LEMMA Remaining ==
  ASSUME NEW r \in Seq(Stanzas), NEW r2, r2 = r \/ (r # <<>> /\ r2 = Tail(r)), NEW m, OnWay(r2, m)
  PROVE  OnWay(r, m)
<1>1. CASE r2 = r
  BY <1>1
<1>2. CASE r # <<>> /\ r2 = Tail(r)
  BY <1>2, Behind
<1> QED BY <1>1, <1>2

LEMMA Alone ==
  ASSUME NEW m \in Stanzas
  PROVE  /\ <<m>> \in Seq(Stanzas) /\ <<m>> # <<>>
         /\ \A x : OnWay(<<m>>, x) <=> x = m
         /\ \A n : Replied(<<m>>, n) <=> IsReply(m, n)
         /\ Single(<<m>>)
<1>1. <<m>> \in Seq(Stanzas) /\ <<m>> # <<>> /\ DOMAIN <<m>> = {1} /\ <<m>>[1] = m
  OBVIOUS
<1> QED BY <1>1 DEF OnWay, Replied, Single

LEMMA Nothing ==
  /\ <<>> \in Seq(Stanzas) /\ \A x : ~OnWay(<<>>, x)
  /\ \A n : ~Replied(<<>>, n)
  /\ Single(<<>>) /\ Ordered(<<>>)
<1>1. <<>> \in Seq(Stanzas) /\ DOMAIN <<>> = {}
  OBVIOUS
<1> QED BY <1>1 DEF OnWay, Replied, Single, Ordered

(* The acks of what was withheld. *)
LEMMA Woken ==
  ASSUME NEW w \in Seq(Blocks), NEW res \in Results
  PROVE  /\ Answers(w, res) \in Seq(Stanzas)
         /\ \A n \in Blocks : Replied(Answers(w, res), n) <=> OnWay(w, n)
         /\ \A n \in Blocks : \A rez \in Results : OnWay(Answers(w, res), Answer(Data(n), rez)) => rez = res
         /\ \A m : (\A n \in Blocks : ~IsReply(m, n)) => ~OnWay(Answers(w, res), m)
         /\ (\A i, j \in DOMAIN w : w[i] = w[j] => i = j) => Single(Answers(w, res))
<1> DEFINE o == Answers(w, res)
<1>1. w \in [1..Len(w) -> Blocks] /\ Len(w) \in Nat /\ DOMAIN w = 1..Len(w)
  OBVIOUS
<1>2. DOMAIN o = DOMAIN w /\ \A i \in DOMAIN w : o[i] = Answer(Data(w[i]), res) /\ w[i] \in Blocks
  BY <1>1 DEF Answers
<1>3. o \in Seq(Stanzas)
  <2>1. \A i \in 1..Len(w) : Answer(Data(w[i]), res) \in Stanzas
    BY <1>1, Kinds
  <2>2. o \in [1..Len(w) -> Stanzas]
    BY <1>1, <2>1 DEF Answers
  <2> HIDE DEF o
  <2> QED BY <1>1, <2>2
<1> HIDE DEF o
<1>4. \A i \in DOMAIN o : \A n \in Blocks : IsReply(o[i], n) <=> w[i] = n
  BY <1>2, Kinds
<1>5. \A n \in Blocks : Replied(o, n) <=> OnWay(w, n)
  BY <1>2, <1>4 DEF Replied, OnWay
<1>6. \A n \in Blocks : \A rez \in Results : OnWay(o, Answer(Data(n), rez)) => rez = res
  BY <1>2, Forms DEF OnWay
<1>7. \A m : (\A n \in Blocks : ~IsReply(m, n)) => ~OnWay(o, m)
  BY <1>2, <1>4 DEF OnWay
<1>8. (\A i, j \in DOMAIN w : w[i] = w[j] => i = j) => Single(o)
  BY <1>2, <1>4 DEF Single
<1> QED BY <1>3, <1>5, <1>6, <1>7, <1>8 DEF o

-----------------------------------------------------------------------------
(* One direction, when its sender takes a step other than sending a block  *)
(* or hearing of one, and when its receiver takes one other than receiving *)
(* a block.                                                                *)

LEMMA SenderKeeps ==
  ASSUME NEW S \in Duplexes, NEW R \in Duplexes, NEW Z \in Duplexes,
         NEW q \in Seq(Stanzas), NEW r \in Seq(Stanzas), NEW o \in Seq(Stanzas), NEW r2,
         Link(S, R, q, r),
         Z.sent = S.sent, Z.inFlight = S.inFlight,
         S.failed # "no" => Z.failed # "no",
         S.closedByPeer => Z.closedByPeer,
         S.closes > 0 => Z.closes > 0,
         OnWay(o, CloseIq) => Z.closes > 0,
         \A n \in Blocks : ~OnWay(o, Data(n)),
         \/ r2 = r
         \/ /\ r # <<>> /\ r2 = Tail(r)
            /\ \A n \in Blocks : ~IsReply(Head(r), n)
            /\ Head(r) = CloseIq => Z.closedByPeer \/ (OnWay(o, NoClose) /\ ~OnWay(o, CloseIq)),
         Z.closedByPeer => S.closedByPeer \/ (r # <<>> /\ Head(r) = CloseIq),
         Z.closing = "sent" => S.closing = "sent" \/ (Hopeful(S) /\ S.inFlight = {} /\ r2 = r),
         Z.closing = "resolved" => \/ S.closing = "resolved"
                                   \/ S.failed = "no" /\ S.closedByPeer
                                   \/ S.closing = "sent" /\ r # <<>> /\ Head(r) = OkClose,
         S.closing = "sent" => S.failed = "no" /\ S.inFlight = {},
         S.closedByPeer => R.half \in {"tombstone", "gone"}
  PROVE  Link(Z, R, q \o o, r2)
<1>1. /\ S.sent \in 0..MaxBlocks /\ R.taken \in Nat /\ S.closes \in Nat /\ Z.closes \in Nat
      /\ S.inFlight \subseteq Blocks /\ R.withheld \in Seq(Blocks) /\ Blocks = 1..MaxBlocks /\ MaxBlocks \in Nat
  BY DuplexAssumption DEF Duplexes, Blocks
<1>2. q \o o \in Seq(Stanzas) /\ \A m : OnWay(q \o o, m) <=> OnWay(q, m) \/ OnWay(o, m)
  BY Joined
<1>3. /\ \A m : OnWay(r2, m) => OnWay(r, m)
      /\ \A n : Replied(r2, n) => Replied(r, n)
      /\ \A m : r2 # r => m = Head(r) \/ (OnWay(r, m) => OnWay(r2, m))
      /\ Single(r) => Single(r2)
  <2>1. \A m : OnWay(r2, m) => OnWay(r, m)
    BY Remaining
  <2>2. \A n : Replied(r2, n) => Replied(r, n)
    BY <2>1, RepliedIs
  <2>3. ASSUME NEW m, r2 # r PROVE m = Head(r) \/ (OnWay(r, m) => OnWay(r2, m))
    <3>1. r # <<>> /\ r2 = Tail(r)
      BY <2>3
    <3> QED BY <3>1, Behind
  <2>4. Single(r) => Single(r2)
    BY SingleKeeps
  <2> QED BY <2>1, <2>2, <2>3, <2>4
<1>4. Missed(R, q) => Missed(R, q \o o)
  BY LeadsJoined DEF Missed
<1>5. ASSUME NEW n \in Blocks, NEW res \in Results, Leads(r, Answer(Data(n), res)), r2 # r
      PROVE  Head(r) # CloseIq /\ Leads(r2, Answer(Data(n), res))
  <2>1. r # <<>> /\ r2 = Tail(r) /\ ~IsReply(Head(r), n)
    BY <1>5
  <2>2. Answer(Data(n), res) # Head(r)
    BY <2>1, Kinds
  <2> QED BY <1>5, <2>1, <2>2, LeadsBehind
<1>6. Carried(Z, R, q \o o)
  <2>1. Ordered(q \o o)
    BY OrderedKeeps DEF Link, Carried
  <2> QED BY <1>2, <2>1 DEF Link, Carried
<1>7. Answered(Z, R, q \o o, r2)
  BY <1>2, <1>3 DEF Link, Answered
<1>8. Closed(Z, R, q \o o, r2)
  BY <1>1, <1>2, <1>3 DEF Link, Closed
<1>9. Honest(Z, R, q \o o, r2)
  <2>1. ASSUME Hopeful(Z), ~Missed(R, q \o o)
        PROVE  /\ \A n \in Blocks : n <= Z.sent => n \in Z.inFlight \/ n <= R.taken
               /\ \A n \in Blocks : Leads(r2, Answer(Data(n), "ok")) => n <= R.taken
               /\ R.half = "tombstone" => OnWay(r2, CloseIq)
    <3>1. Hopeful(S) /\ ~Missed(R, q)
      BY <1>1, <1>4, <2>1 DEF Hopeful
    <3>2. /\ \A n \in Blocks : n <= S.sent => n \in S.inFlight \/ n <= R.taken
          /\ \A n \in Blocks : Leads(r, Answer(Data(n), "ok")) => n <= R.taken
          /\ R.half = "tombstone" => OnWay(r, CloseIq)
      BY <3>1 DEF Link, Honest
    <3>3. r2 = r \/ Head(r) # CloseIq
      <4>1. SUFFICES ASSUME Head(r) = CloseIq, r2 # r PROVE FALSE
        OBVIOUS
      <4>2. OnWay(o, NoClose) /\ ~OnWay(o, CloseIq) /\ ~OnWay(q, CloseIq)
        BY <2>1, <3>1, <4>1 DEF Hopeful, Link, Closed
      <4>3. Leads(q \o o, NoClose)
        BY <4>2, LeadsJoined
      <4> QED BY <2>1, <4>3 DEF Missed
    <3>4. \A n \in Blocks : Leads(r2, Answer(Data(n), "ok")) => Leads(r, Answer(Data(n), "ok"))
      BY <3>3, LeadsBehind
    <3>5. R.half = "tombstone" => OnWay(r2, CloseIq)
      BY <1>3, <3>2, <3>3
    <3> QED BY <3>2, <3>4, <3>5
  <2>2. ASSUME Z.closing = "sent", ~Z.closedByPeer
        PROVE  R.taken = Z.sent \/ (Missed(R, q \o o) /\ ~OnWay(r2, OkClose))
    <3>1. CASE S.closing = "sent"
      BY <1>3, <1>4, <2>2, <3>1 DEF Link, Honest
    <3>2. CASE Hopeful(S) /\ S.inFlight = {} /\ Missed(R, q)
      BY <1>3, <1>4, <3>2 DEF Link, Closed, Hopeful
    <3>3. CASE Hopeful(S) /\ S.inFlight = {} /\ ~Missed(R, q)
      <4>1. \A n \in Blocks : n <= S.sent => n <= R.taken
        BY <3>3 DEF Link, Honest
      <4>2. S.sent <= R.taken
        <5>1. CASE S.sent = 0
          BY <1>1, <5>1
        <5>2. CASE S.sent # 0
          <6>1. S.sent \in Blocks /\ S.sent <= S.sent
            BY <1>1, <5>2
          <6> QED BY <4>1, <6>1
        <5> QED BY <5>1, <5>2
      <4>3. R.taken <= S.sent
        BY DEF Link, Carried
      <4> QED BY <1>1, <4>2, <4>3
    <3> QED BY <2>2, <3>1, <3>2, <3>3
  <2> QED BY <2>1, <2>2 DEF Honest
<1>10. Heard(Z, R, r2)
  <2>1. SUFFICES ASSUME R.refused # "no", Z.failed = "no", ~Late(R)
                 PROVE  /\ ~Z.closedByPeer
                        /\ \/ \E n \in Z.inFlight : Leads(r2, Answer(Data(n), Refusal))
                           \/ R.refused = "due" /\ ~OnWay(r2, CloseIq)
    BY DEF Heard
  <2>2. /\ ~S.closedByPeer
        /\ \/ \E n \in S.inFlight : Leads(r, Answer(Data(n), Refusal))
           \/ R.refused = "due" /\ ~OnWay(r, CloseIq)
    BY <2>1 DEF Link, Heard
  <2>3. CASE \E n \in S.inFlight : Leads(r, Answer(Data(n), Refusal))
    <3>1. PICK n \in S.inFlight : Leads(r, Answer(Data(n), Refusal))
      BY <2>3
    <3>2. /\ Refusal \in Results /\ Answer(Data(n), Refusal) # CloseIq /\ IsReply(Answer(Data(n), Refusal), n)
          /\ n \in Blocks
      BY <1>1, <3>1, Kinds DEF Refusal, Results
    <3>3. r # <<>> => Head(r) # CloseIq
      BY <3>1, <3>2, LeadsBehind
    <3>4. Leads(r2, Answer(Data(n), Refusal))
      BY <3>1, <3>2, <1>5
    <3> QED BY <2>2, <3>1, <3>3, <3>4
  <2>4. CASE R.refused = "due" /\ ~OnWay(r, CloseIq)
    <3>1. r # <<>> => Head(r) # CloseIq
      BY <2>4, Behind
    <3> QED BY <1>3, <2>2, <2>4, <3>1
  <2> QED BY <2>2, <2>3, <2>4
<1>100. Due(Z, R, q \o o, r2)
  <2>1. SUFFICES ASSUME R.refused = "due" PROVE Due(Z, R, q \o o, r2)
    BY DEF Due
  <2>2. /\ R.taken + 1 <= S.sent /\ ~OnWay(q, Data(R.taken + 1)) /\ ~Replied(r, R.taken + 1)
        /\ S.failed = "no" => R.taken + 1 \in S.inFlight
    BY <2>1 DEF Link, Due
  <2>3. R.taken + 1 \in Blocks
    BY <1>1, <2>2
  <2> QED BY <1>2, <1>3, <2>2, <2>3 DEF Due
<1>11. Resolved(Z, R)
  <2>1. CASE S.closing = "resolved"
    BY <2>1 DEF Link, Resolved
  <2>2. CASE S.failed = "no" /\ S.closedByPeer
    BY <2>2 DEF Link, Resolved, Heard
  <2>3. CASE S.closing = "sent" /\ r # <<>> /\ Head(r) = OkClose
    <3>1. OnWay(r, OkClose)
      BY <2>3, Behind
    <3>2. R.half \in {"tombstone", "gone"}
      BY <3>1 DEF Link, Closed
    <3>3. R.refused # "no" => Late(R)
      <4>1. S.failed = "no" /\ \A n : n \notin S.inFlight
        BY <2>3
      <4>2. R.refused # "due"
        BY <4>1 DEF Link, Due
      <4> QED BY <4>1, <4>2 DEF Link, Heard
    <3>4. S.closedByPeer \/ R.taken = S.sent
      BY <2>3, <3>1 DEF Link, Honest
    <3> QED BY <3>2, <3>3, <3>4 DEF Resolved
  <2> QED BY <2>1, <2>2, <2>3 DEF Resolved
<1> QED BY <1>6, <1>7, <1>8, <1>9, <1>10, <1>100, <1>11 DEF Link

LEMMA ReceiverKeeps ==
  ASSUME NEW S \in Duplexes, NEW R \in Duplexes, NEW Z \in Duplexes,
         NEW q \in Seq(Stanzas), NEW r \in Seq(Stanzas), NEW o \in Seq(Stanzas), NEW q2,
         Link(S, R, q, r),
         Z.taken = R.taken, Z.refused = R.refused, R.closes > 0 => Z.closes > 0,
         OnWay(o, CloseIq) => Z.closes > 0,
         Z.half = "live" => R.half = "live",
         R.half = "gone" => Z.half = "gone",
         R.half = "tombstone" => Z.half \in {"tombstone", "gone"},
         Z.half = "tombstone" => R.half = "tombstone" \/ OnWay(o, CloseIq),
         Z.withheld \in {R.withheld, <<>>},
         \A n \in Blocks : Replied(o, n) => OnWay(R.withheld, n) /\ Z.withheld = <<>>,
         Single(o),
         OnWay(o, OkClose) \/ OnWay(o, NoClose) \/ (Z.closedByPeer /\ ~R.closedByPeer) =>
           q # <<>> /\ Head(q) = CloseIq,
         OnWay(o, OkClose) => R.half \in {"live", "tombstone"} /\ Z.half \in {"tombstone", "gone"},
         \/ q2 = q
         \/ /\ q # <<>> /\ q2 = Tail(q)
            /\ \A n \in Blocks : Head(q) # Data(n)
            /\ Head(q) = NoClose => Z.half = "gone"
  PROVE  Link(S, Z, q2, r \o o)
<1>1. /\ S.sent \in 0..MaxBlocks /\ R.taken \in Nat /\ S.closes \in Nat
      /\ S.inFlight \subseteq Blocks /\ R.withheld \in Seq(Blocks) /\ Blocks = 1..MaxBlocks /\ MaxBlocks \in Nat
  BY DuplexAssumption DEF Duplexes, Blocks
<1>2. r \o o \in Seq(Stanzas) /\ \A m : OnWay(r \o o, m) <=> OnWay(r, m) \/ OnWay(o, m)
  BY Joined
<1>3. \A n : Replied(r \o o, n) <=> Replied(r, n) \/ Replied(o, n)
  BY <1>2, RepliedIs
<1>4. /\ \A m : OnWay(q2, m) => OnWay(q, m)
      /\ \A m : q2 # q => m = Head(q) \/ (OnWay(q, m) => OnWay(q2, m))
      /\ Ordered(q) => Ordered(q2)
      /\ q # <<>> => OnWay(q, Head(q))
  <2>1. \A m : OnWay(q2, m) => OnWay(q, m)
    BY Behind
  <2>2. ASSUME NEW m, q2 # q PROVE m = Head(q) \/ (OnWay(q, m) => OnWay(q2, m))
    <3>1. q # <<>> /\ q2 = Tail(q)
      BY <2>2
    <3> QED BY <3>1, Behind
  <2>3. Ordered(q) => Ordered(q2)
    BY OrderedKeeps
  <2>4. q # <<>> => OnWay(q, Head(q))
    BY Behind
  <2> QED BY <2>1, <2>2, <2>3, <2>4
<1>5. Missed(R, q) => Missed(Z, q2)
  <2>1. SUFFICES ASSUME Leads(q, NoClose), q2 = Tail(q), q # <<>>, Z.half # "gone" PROVE Leads(q2, NoClose)
    BY DEF Missed
  <2> QED BY <2>1, LeadsBehind
<1>6. \A n \in Blocks : ~OnWay(<<>>, n)
  BY Nothing
<1>7. \A n \in Blocks : OnWay(R.withheld, n) => n <= R.taken /\ R.taken <= S.sent /\ n <= S.sent /\ ~OnWay(q, Data(n))
  BY <1>1 DEF Link, Carried
<1>8. Carried(S, Z, q2)
  <2>1. \A i, j \in DOMAIN Z.withheld : Z.withheld[i] = Z.withheld[j] => i = j
    <3>1. DOMAIN <<>> = {}
      OBVIOUS
    <3> QED BY <3>1 DEF Link, Carried
  <2>2. \A n \in Blocks : OnWay(Z.withheld, n) => n <= Z.taken
    BY <1>6 DEF Link, Carried
  <2>3. Z.half = "live" => \A n \in Blocks : Z.taken < n /\ n <= S.sent => OnWay(q2, Data(n))
    BY <1>4 DEF Link, Carried
  <2> QED BY <1>4, <2>1, <2>2, <2>3 DEF Link, Carried
<1>9. Answered(S, Z, q2, r \o o)
  <2>1. Single(r \o o)
    <3>1. \A n \in Blocks : ~(Replied(r, n) /\ Replied(o, n))
      BY DEF Link, Answered
    <3> QED BY <3>1, SingleKeeps DEF Link, Answered
  <2>2. ASSUME NEW n \in Blocks, Replied(r \o o, n)
        PROVE  n <= S.sent /\ ~OnWay(q2, Data(n)) /\ ~OnWay(Z.withheld, n)
    <3>1. CASE Replied(r, n)
      BY <1>4, <1>6, <3>1 DEF Link, Answered
    <3>2. CASE Replied(o, n)
      BY <1>4, <1>6, <1>7, <3>2
    <3> QED BY <1>3, <2>2, <3>1, <3>2
  <2>3. \A n \in Blocks :
          S.failed = "no" /\ (OnWay(q2, Data(n)) \/ OnWay(Z.withheld, n) \/ Replied(r \o o, n)) => n \in S.inFlight
    BY <1>3, <1>4, <1>6 DEF Link, Answered
  <2> QED BY <2>1, <2>2, <2>3 DEF Answered
<1>10. Closed(S, Z, q2, r \o o)
  BY <1>2, <1>4 DEF Link, Closed
<1>11. Honest(S, Z, q2, r \o o)
  <2>1. ASSUME Hopeful(S), ~Missed(Z, q2)
        PROVE  /\ \A n \in Blocks : n <= S.sent => n \in S.inFlight \/ n <= Z.taken
               /\ \A n \in Blocks : Leads(r \o o, Answer(Data(n), "ok")) => n <= Z.taken
               /\ Z.half = "tombstone" => OnWay(r \o o, CloseIq)
    <3>1. /\ \A n \in Blocks : n <= S.sent => n \in S.inFlight \/ n <= R.taken
          /\ \A n \in Blocks : Leads(r, Answer(Data(n), "ok")) => n <= R.taken
          /\ R.half = "tombstone" => OnWay(r, CloseIq)
      BY <1>5, <2>1 DEF Link, Honest
    <3>2. ASSUME NEW n \in Blocks, Leads(r \o o, Answer(Data(n), "ok")) PROVE n <= Z.taken
      <4>1. Leads(r, Answer(Data(n), "ok")) \/ OnWay(o, Answer(Data(n), "ok"))
        BY <3>2, LeadsJoined
      <4>2. OnWay(o, Answer(Data(n), "ok")) => Replied(o, n)
        BY RepliedIs DEF Results
      <4> QED BY <1>7, <3>1, <4>1, <4>2
    <3> QED BY <1>2, <3>1, <3>2
  <2>2. ASSUME S.closing = "sent", ~S.closedByPeer, Z.taken # S.sent
        PROVE  Missed(Z, q2) /\ ~OnWay(r \o o, OkClose)
    <3>1. Missed(R, q) /\ ~OnWay(r, OkClose)
      BY <2>2 DEF Link, Honest
    <3>2. ~OnWay(o, OkClose)
      <4>1. SUFFICES ASSUME OnWay(o, OkClose) PROVE FALSE
        OBVIOUS
      <4>2. Leads(q, NoClose) /\ q # <<>> /\ Head(q) = CloseIq
        BY <3>1, <4>1 DEF Missed
      <4>3. NoClose # CloseIq
        BY Forms DEF NoClose, Results
      <4> QED BY <4>2, <4>3, LeadsBehind
    <3> QED BY <1>2, <1>5, <3>1, <3>2
  <2> QED BY <2>1, <2>2 DEF Honest
<1>12. Heard(S, Z, r \o o)
  <2>1. \A n \in S.inFlight : Leads(r, Answer(Data(n), Refusal)) => Leads(r \o o, Answer(Data(n), Refusal))
    BY LeadsJoined
  <2>2. SUFFICES ASSUME R.refused # "no", S.failed = "no", ~Late(Z)
                 PROVE  /\ ~S.closedByPeer
                        /\ \/ \E n \in S.inFlight : Leads(r \o o, Answer(Data(n), Refusal))
                           \/ Z.refused = "due" /\ ~OnWay(r \o o, CloseIq)
    BY DEF Heard
  <2>3. ~Late(R) /\ (R.refused = "due" => ~OnWay(o, CloseIq))
    BY <2>2 DEF Late
  <2> QED BY <1>2, <2>1, <2>2, <2>3 DEF Link, Heard
<1>120. Due(S, Z, q2, r \o o)
  <2>1. SUFFICES ASSUME R.refused = "due" PROVE Due(S, Z, q2, r \o o)
    BY DEF Due
  <2>2. /\ R.taken + 1 <= S.sent /\ ~OnWay(q, Data(R.taken + 1)) /\ ~Replied(r, R.taken + 1)
        /\ S.failed = "no" => R.taken + 1 \in S.inFlight
    BY <2>1 DEF Link, Due
  <2>3. R.taken + 1 \in Blocks /\ ~(R.taken + 1 <= R.taken)
    BY <1>1, <2>2
  <2>4. ~Replied(o, R.taken + 1)
    BY <1>7, <2>3
  <2> QED BY <1>3, <1>4, <2>2, <2>4 DEF Due
<1>13. Resolved(S, Z)
  BY DEF Link, Resolved, Late
<1> QED BY <1>8, <1>9, <1>10, <1>11, <1>12, <1>120, <1>13 DEF Link

(* Its sender sends a block. *)
LEMMA SenderWrites ==
  ASSUME NEW S \in Duplexes, NEW R \in Duplexes, NEW Z \in Duplexes, NEW n \in Blocks,
         NEW q \in Seq(Stanzas), NEW r \in Seq(Stanzas),
         Link(S, R, q, r), n = S.sent + 1,
         Z = [S EXCEPT !.sent = n, !.inFlight = S.inFlight \cup {n}], S.closing = "no"
  PROVE  Link(Z, R, q \o <<Data(n)>>, r)
<1> DEFINE o == <<Data(n)>>
<1>1. /\ S.sent \in Nat /\ R.taken \in Nat /\ Blocks \subseteq Nat
      /\ Z.sent = n /\ Z.inFlight = S.inFlight \cup {n} /\ Z.failed = S.failed /\ Z.closing = "no"
      /\ Z.closedByPeer = S.closedByPeer /\ Z.closes = S.closes
  BY DEF Duplexes, Blocks
<1>2. /\ o \in Seq(Stanzas) /\ \A m : OnWay(o, m) <=> m = Data(n)
      /\ \A m : OnWay(q \o o, m) <=> OnWay(q, m) \/ OnWay(o, m)
  <2>1. o \in Seq(Stanzas) /\ \A m : OnWay(o, m) <=> m = Data(n)
    BY Alone, Kinds
  <2> HIDE DEF o
  <2> QED BY <2>1, Joined
<1>3. Missed(R, q) => Missed(R, q \o o)
  BY <1>2, LeadsJoined DEF Missed
<1>4. Carried(Z, R, q \o o)
  <2>1. Ordered(q \o o)
    BY <1>1, OrderedKeeps DEF Link, Carried
  <2>2. \A m \in Blocks : OnWay(q \o o, Data(m)) <=> OnWay(q, Data(m)) \/ m = n
    BY <1>2, Forms
  <2>3. \A m \in Blocks : m <= n => m = n \/ m <= S.sent
    BY <1>1
  <2> HIDE DEF o
  <2>4. R.half = "live" => \A m \in Blocks : R.taken < m /\ m <= n => OnWay(q \o o, Data(m))
    BY <2>2, <2>3 DEF Link, Carried
  <2>5. R.taken <= n /\ R.taken < n /\ \A m \in Blocks : m <= S.sent => m <= n
    BY <1>1 DEF Link, Carried
  <2> QED BY <1>1, <2>1, <2>2, <2>4, <2>5 DEF Link, Carried
<1>5. Answered(Z, R, q \o o, r)
  <2>1. \A m \in Blocks : Replied(r, m) => m <= n /\ m # n
    BY <1>1 DEF Link, Answered
  <2> HIDE DEF o
  <2> QED BY <1>1, <1>2, <2>1, Forms DEF Link, Answered
<1>6. Closed(Z, R, q \o o, r)
  BY <1>1, <1>2, Forms DEF Link, Closed
<1>7. Honest(Z, R, q \o o, r)
  <2>1. \A m \in Blocks : m <= n => m = n \/ m <= S.sent
    BY <1>1
  <2> QED BY <1>1, <1>3, <2>1 DEF Link, Honest, Hopeful
<1>8. Heard(Z, R, r) /\ Resolved(Z, R)
  BY <1>1 DEF Link, Heard, Resolved
<1>9. Due(Z, R, q \o o, r)
  <2>1. SUFFICES ASSUME R.refused = "due" PROVE Due(Z, R, q \o o, r)
    BY DEF Due
  <2>2. /\ R.taken + 1 <= S.sent /\ ~OnWay(q, Data(R.taken + 1)) /\ ~Replied(r, R.taken + 1)
        /\ S.failed = "no" => R.taken + 1 \in S.inFlight
    BY <2>1 DEF Link, Due
  <2>3. R.taken + 1 # n /\ R.taken + 1 <= n
    BY <1>1, <2>2
  <2>4. Data(R.taken + 1) # Data(n)
    BY <2>3 DEF Data
  <2> HIDE DEF o
  <2> QED BY <1>1, <1>2, <2>2, <2>3, <2>4 DEF Due
<1> QED BY <1>4, <1>5, <1>6, <1>7, <1>8, <1>9 DEF Link

(* It hears of block n, or gives it up. *)
LEMMA SenderHears ==
  ASSUME NEW S \in Duplexes, NEW R \in Duplexes, NEW Z \in Duplexes, NEW n \in Blocks, NEW res \in Results,
         NEW q \in Seq(Stanzas), NEW r \in Seq(Stanzas), NEW r2,
         Link(S, R, q, r),
         Z.sent = S.sent, Z.inFlight = S.inFlight \ {n}, Z.closedByPeer = S.closedByPeer,
         Z.closes = S.closes, Z.closing = S.closing,
         S.failed # "no" => Z.failed # "no",
         \/ /\ r # <<>> /\ r2 = Tail(r) /\ Head(r) = Answer(Data(n), res)
            /\ \/ res = "ok" \/ Z.failed # "no"
               \/ res = "not-found" /\ S.closedByPeer
         \/ r2 = r /\ Z.failed # "no"
  PROVE  Link(Z, R, q, r2)
<1>1. IsReply(Answer(Data(n), res), n) /\ Answer(Data(n), res) # CloseIq
  BY Kinds
<1>2. /\ \A m : OnWay(r2, m) => OnWay(r, m)
      /\ \A m : Replied(r2, m) => Replied(r, m)
      /\ \A m : r2 = r \/ m = Head(r) \/ (OnWay(r, m) => OnWay(r2, m))
      /\ Single(r) => Single(r2)
      /\ r2 # r => Replied(r, n)
  <2>1. \A m : OnWay(r2, m) => OnWay(r, m)
    BY Remaining
  <2>2. \A m : Replied(r2, m) => Replied(r, m)
    BY <2>1, RepliedIs
  <2>3. ASSUME NEW m, r2 # r PROVE m = Head(r) \/ (OnWay(r, m) => OnWay(r2, m))
    <3>1. r # <<>> /\ r2 = Tail(r)
      BY <2>3
    <3> QED BY <3>1, Behind
  <2>4. Single(r) => Single(r2)
    BY SingleKeeps
  <2>5. r2 # r => Replied(r, n)
    <3>1. SUFFICES ASSUME r2 # r PROVE OnWay(r, Answer(Data(n), res))
      BY RepliedIs
    <3> QED BY <3>1, Behind
  <2> QED BY <2>1, <2>2, <2>3, <2>4, <2>5
<1>3. Carried(Z, R, q)
  BY DEF Link, Carried
<1>4. Answered(Z, R, q, r2)
  <2>1. ASSUME NEW m \in Blocks, Z.failed = "no", OnWay(q, Data(m)) \/ OnWay(R.withheld, m) \/ Replied(r2, m)
        PROVE  m \in Z.inFlight
    <3>1. r # <<>> /\ r2 = Tail(r) /\ Head(r) = Answer(Data(n), res) /\ S.failed = "no"
      BY <2>1
    <3>2. m \in S.inFlight
      BY <1>2, <2>1, <3>1 DEF Link, Answered
    <3>3. ~Replied(Tail(r), n)
      BY <1>1, <3>1, SingleKeeps DEF Link, Answered
    <3>4. Replied(r, n)
      <4>1. OnWay(r, Answer(Data(n), res))
        BY <3>1, Behind
      <4> QED BY <4>1, RepliedIs
    <3>5. m # n
      BY <2>1, <3>1, <3>3, <3>4 DEF Link, Answered
    <3> QED BY <3>2, <3>5
  <2> QED BY <1>2, <2>1 DEF Link, Answered
<1>5. Closed(Z, R, q, r2)
  BY <1>2 DEF Link, Closed
<1>6. Honest(Z, R, q, r2)
  <2>1. ASSUME Hopeful(Z), ~Missed(R, q)
        PROVE  /\ \A m \in Blocks : m <= Z.sent => m \in Z.inFlight \/ m <= R.taken
               /\ \A m \in Blocks : Leads(r2, Answer(Data(m), "ok")) => m <= R.taken
               /\ R.half = "tombstone" => OnWay(r2, CloseIq)
    <3>1. r # <<>> /\ r2 = Tail(r) /\ Head(r) = Answer(Data(n), "ok") /\ Hopeful(S)
      BY <2>1 DEF Hopeful
    <3>2. n <= R.taken
      BY <2>1, <3>1, LeadsBehind DEF Link, Honest
    <3>3. \A m \in Blocks : m <= Z.sent => m \in Z.inFlight \/ m <= R.taken
      BY <2>1, <3>1, <3>2 DEF Link, Honest
    <3>4. \A m \in Blocks : Leads(r2, Answer(Data(m), "ok")) => Leads(r, Answer(Data(m), "ok"))
      BY <1>1, <3>1, LeadsBehind, Forms
    <3>5. Answer(Data(n), "ok") # CloseIq
      BY Forms DEF Results
    <3>6. R.half = "tombstone" => OnWay(r2, CloseIq)
      BY <1>2, <2>1, <3>1, <3>5 DEF Link, Honest
    <3> QED BY <2>1, <3>1, <3>3, <3>4, <3>6 DEF Link, Honest
  <2>2. Z.closing = "sent" /\ ~Z.closedByPeer =>
          R.taken = Z.sent \/ (Missed(R, q) /\ ~OnWay(r2, OkClose))
    BY <1>2 DEF Link, Honest
  <2> QED BY <2>1, <2>2 DEF Honest
<1>7. Heard(Z, R, r2)
  <2>1. SUFFICES ASSUME R.refused # "no", Z.failed = "no", ~Late(R)
                 PROVE  /\ ~Z.closedByPeer
                        /\ \/ \E m \in Z.inFlight : Leads(r2, Answer(Data(m), Refusal))
                           \/ R.refused = "due" /\ ~OnWay(r2, CloseIq)
    BY DEF Heard
  <2>2. S.failed = "no" /\ r # <<>> /\ r2 = Tail(r) /\ Head(r) = Answer(Data(n), res)
    BY <2>1
  <2>3. /\ ~S.closedByPeer
        /\ \/ \E m \in S.inFlight : Leads(r, Answer(Data(m), Refusal))
           \/ R.refused = "due" /\ ~OnWay(r, CloseIq)
    BY <2>1, <2>2 DEF Link, Heard
  <2>4. CASE \E m \in S.inFlight : Leads(r, Answer(Data(m), Refusal))
    <3>1. PICK m \in S.inFlight : Leads(r, Answer(Data(m), Refusal))
      BY <2>4
    <3>2. m \in Blocks /\ Refusal \in Results /\ res = "ok"
      BY <2>1, <2>2, <2>3, <3>1 DEF Duplexes, Refusal, Results
    <3>3. Answer(Data(m), Refusal) # Head(r)
      BY <2>2, <3>2, Forms DEF Refusal
    <3>4. Leads(r2, Answer(Data(m), Refusal))
      BY <2>2, <3>1, <3>3, LeadsBehind
    <3>5. m # n
      <4>1. SUFFICES ASSUME m = n PROVE FALSE
        OBVIOUS
      <4>2. OnWay(r2, Answer(Data(m), Refusal))
        BY <3>4 DEF Leads, OnWay
      <4>3. Replied(r2, n)
        BY <3>2, <4>1, <4>2, RepliedIs
      <4> QED BY <1>1, <2>2, <4>3, SingleKeeps DEF Link, Answered
    <3> QED BY <2>3, <3>1, <3>4, <3>5
  <2>5. CASE R.refused = "due" /\ ~OnWay(r, CloseIq)
    BY <1>2, <2>3, <2>5
  <2> QED BY <2>3, <2>4, <2>5
<1>70. Due(Z, R, q, r2)
  <2>1. SUFFICES ASSUME R.refused = "due" PROVE Due(Z, R, q, r2)
    BY DEF Due
  <2>2. /\ R.taken + 1 <= S.sent /\ ~OnWay(q, Data(R.taken + 1)) /\ ~Replied(r, R.taken + 1)
        /\ S.failed = "no" => R.taken + 1 \in S.inFlight
    BY <2>1 DEF Link, Due
  <2>3. ASSUME Z.failed = "no" PROVE R.taken + 1 \in Z.inFlight
    <3>2. S.failed = "no" /\ Replied(r, n)
      <4>1. S.failed = "no" /\ r # <<>> /\ Head(r) = Answer(Data(n), res)
        BY <2>3
      <4>2. OnWay(r, Answer(Data(n), res))
        BY <4>1, Behind
      <4> QED BY <4>1, <4>2, RepliedIs
    <3> QED BY <2>2, <3>2
  <2> QED BY <1>2, <2>2, <2>3 DEF Due
<1>8. Resolved(Z, R)
  BY DEF Link, Resolved
<1> QED BY <1>3, <1>4, <1>5, <1>6, <1>7, <1>70, <1>8 DEF Link

(* Its receiver receives block n. *)
LEMMA ReceiverTakes ==
  ASSUME NEW S \in Duplexes, NEW R \in Duplexes, NEW Z \in Duplexes, NEW n \in Blocks,
         NEW q \in Seq(Stanzas), NEW r \in Seq(Stanzas), NEW o \in Seq(Stanzas),
         Link(S, R, q, r), q # <<>>, Head(q) = Data(n),
         Z.closedByPeer = R.closedByPeer,
         Z.half = R.half \/ (R.half = "live" /\ Z.half = "gone"),
         \/ Z.taken = R.taken /\ Z.half # "live"
         \/ Z.taken = R.taken + 1 /\ R.half = "live",
         \/ Z.withheld \in {R.withheld, <<>>}
         \/ Z.withheld = Append(R.withheld, n) /\ ~Replied(o, n) /\ Z.taken = R.taken + 1,
         Single(o),
         \A m \in Blocks : Replied(o, m) => m = n \/ (OnWay(R.withheld, m) /\ Z.withheld = <<>>),
         OnWay(o, Answer(Data(n), "ok")) => Z.taken = R.taken + 1 \/ R.half = "tombstone",
         \/ Z.refused = R.refused /\ R.refused # "due"
         \/ Z.refused = "due" /\ R.half = "live" /\ Z.taken = R.taken /\ ~Replied(o, n),
         ~OnWay(o, CloseIq) /\ ~OnWay(o, OkClose) /\ ~OnWay(o, NoClose),
         R.half = "live" => ~S.closedByPeer /\ ~OnWay(r, CloseIq)
  PROVE  Link(S, Z, Tail(q), r \o o)
<1> DEFINE q2 == Tail(q)
<1>1. /\ S.sent \in Nat /\ R.taken \in Nat /\ Z.taken \in Nat /\ Blocks \subseteq Nat
      /\ R.withheld \in Seq(Blocks)
  BY DEF Duplexes, Blocks
<1>2. r \o o \in Seq(Stanzas) /\ \A m : OnWay(r \o o, m) <=> OnWay(r, m) \/ OnWay(o, m)
  BY Joined
<1>3. \A m : Replied(r \o o, m) <=> Replied(r, m) \/ Replied(o, m)
  BY <1>2, RepliedIs
<1>4. /\ \A m : OnWay(q, m) <=> m = Data(n) \/ OnWay(q2, m)
      /\ Ordered(q2) /\ \A m \in Blocks : OnWay(q2, Data(m)) => n < m
  BY Behind, OrderedKeeps DEF Link, Carried
<1>5. Missed(R, q) => Missed(Z, q2)
  <2>1. NoClose # Data(n)
    BY Forms DEF NoClose, Results
  <2> QED BY <2>1, LeadsBehind DEF Missed
<1>6. R.taken < n /\ n <= S.sent
  BY <1>4 DEF Link, Carried
<1>7. R.half = "live" => n = R.taken + 1
  <2>1. SUFFICES ASSUME R.half = "live", R.taken + 1 < n PROVE FALSE
    BY <1>1, <1>6
  <2>2. R.taken + 1 \in Blocks /\ R.taken < R.taken + 1 /\ R.taken + 1 <= S.sent /\ R.taken + 1 # n
    <3>1. n \in Nat /\ S.sent \in 0..MaxBlocks /\ MaxBlocks \in Nat
      BY <1>1, DuplexAssumption DEF Duplexes
    <3>2. \A t, s, b, k \in Nat : t + 1 < k /\ k <= s /\ s <= b =>
            t + 1 \in 1..b /\ t < t + 1 /\ t + 1 <= s /\ t + 1 # k
      OBVIOUS
    <3>3. S.sent \in Nat /\ S.sent <= MaxBlocks /\ R.taken \in Nat
      BY <1>1, <3>1
    <3> QED BY <1>6, <2>1, <3>1, <3>2, <3>3 DEF Blocks
  <2>3. OnWay(q, Data(R.taken + 1))
    BY <2>1, <2>2 DEF Link, Carried
  <2>4. OnWay(q2, Data(R.taken + 1))
    BY <1>4, <2>2, <2>3, Forms
  <2> QED BY <1>1, <1>4, <2>1, <2>2, <2>4
<1>8. ~Replied(r, n) /\ ~OnWay(R.withheld, n) /\ ~OnWay(q2, Data(n)) /\ (S.failed = "no" => n \in S.inFlight)
  <2>1. OnWay(q, Data(n))
    BY <1>4
  <2>2. ~OnWay(q2, Data(n))
    BY <1>1, <1>4
  <2>3. ~OnWay(R.withheld, n)
    BY <1>1, <1>6 DEF Link, Carried
  <2> QED BY <2>1, <2>2, <2>3 DEF Link, Answered
<1> HIDE DEF q2
<1>9. \A m : OnWay(Z.withheld, m) => OnWay(R.withheld, m) \/ (m = n /\ ~Replied(o, n) /\ Z.taken = R.taken + 1)
  <2>1. CASE Z.withheld \in {R.withheld, <<>>}
    BY <2>1, Nothing
  <2>2. CASE Z.withheld = Append(R.withheld, n) /\ ~Replied(o, n) /\ Z.taken = R.taken + 1
    <3>1. DOMAIN R.withheld = 1..Len(R.withheld) /\ Len(R.withheld) \in Nat
      BY <1>1
    <3>2. \A i \in DOMAIN Append(R.withheld, n) :
            (i \in DOMAIN R.withheld /\ Append(R.withheld, n)[i] = R.withheld[i]) \/ Append(R.withheld, n)[i] = n
      BY <1>1, <3>1
    <3> QED BY <2>2, <3>2 DEF OnWay
  <2> QED BY <2>1, <2>2
<1>10. \A m \in Blocks : OnWay(R.withheld, m) => m <= R.taken /\ m <= S.sent /\ ~OnWay(q2, Data(m))
  BY <1>1, <1>4, <1>6 DEF Link, Carried
<1>11. Carried(S, Z, q2)
  <2>1. Z.taken <= S.sent /\ (Z.taken = R.taken \/ Z.taken = n) /\ Z.taken <= n /\ R.taken <= Z.taken
    BY <1>1, <1>6, <1>7
  <2>2. \A m \in Blocks : OnWay(q2, Data(m)) => Z.taken < m /\ m <= S.sent
    BY <1>1, <1>4, <2>1 DEF Link, Carried
  <2>3. Z.half = "live" => \A m \in Blocks : Z.taken < m /\ m <= S.sent => OnWay(q2, Data(m))
    <3>1. SUFFICES ASSUME Z.half = "live", NEW m \in Blocks, Z.taken < m, m <= S.sent PROVE OnWay(q2, Data(m))
      OBVIOUS
    <3>2. R.half = "live" /\ Z.taken = n /\ R.taken < m /\ m # n
      BY <1>1, <1>7, <2>1, <3>1
    <3>3. OnWay(q, Data(m))
      BY <3>1, <3>2 DEF Link, Carried
    <3> QED BY <1>4, <3>2, <3>3, Forms
  <2>4. \A i, j \in DOMAIN Z.withheld : Z.withheld[i] = Z.withheld[j] => i = j
    <3>1. CASE Z.withheld = R.withheld
      BY <3>1 DEF Link, Carried
    <3>2. CASE Z.withheld = <<>>
      BY <3>2
    <3>3. CASE Z.withheld = Append(R.withheld, n)
      <4>1. DOMAIN R.withheld = 1..Len(R.withheld) /\ Len(R.withheld) \in Nat
        BY <1>1
      <4>2. \A i \in DOMAIN Append(R.withheld, n) :
              \/ i \in DOMAIN R.withheld /\ Append(R.withheld, n)[i] = R.withheld[i]
              \/ i = Len(R.withheld) + 1 /\ Append(R.withheld, n)[i] = n
        BY <1>1, <4>1
      <4>3. \A i \in DOMAIN R.withheld : R.withheld[i] # n
        BY <1>8 DEF OnWay
      <4>4. \A i, j \in DOMAIN R.withheld : R.withheld[i] = R.withheld[j] => i = j
        BY DEF Link, Carried
      <4> QED BY <3>3, <4>2, <4>3, <4>4
    <3> QED BY <3>1, <3>2, <3>3
  <2>5. ASSUME NEW m \in Blocks, OnWay(Z.withheld, m) PROVE m <= Z.taken
    <3>1. CASE OnWay(R.withheld, m)
      BY <1>1, <1>10, <2>1, <3>1
    <3>2. CASE m = n /\ Z.taken = R.taken + 1
      BY <1>1, <1>6, <2>1, <3>2
    <3> QED BY <1>9, <2>5, <3>1, <3>2
  <2> QED BY <1>4, <2>1, <2>2, <2>3, <2>4, <2>5 DEF Carried
<1>12. Answered(S, Z, q2, r \o o)
  <2>1. Single(r \o o)
    <3>1. \A m \in Blocks : ~(Replied(r, m) /\ Replied(o, m))
      BY <1>8 DEF Link, Answered
    <3> QED BY <3>1, SingleKeeps DEF Link, Answered
  <2>2. ASSUME NEW m \in Blocks, Replied(r \o o, m)
        PROVE  m <= S.sent /\ ~OnWay(q2, Data(m)) /\ ~OnWay(Z.withheld, m)
    <3>1. CASE Replied(r, m)
      BY <1>4, <1>8, <1>9, <3>1 DEF Link, Answered
    <3>2. CASE Replied(o, m) /\ m = n
      BY <1>6, <1>8, <1>9, <3>2
    <3>3. CASE OnWay(R.withheld, m) /\ Z.withheld = <<>>
      BY <1>10, <3>3, Nothing
    <3> QED BY <1>3, <2>2, <3>1, <3>2, <3>3
  <2>3. ASSUME NEW m \in Blocks, S.failed = "no", OnWay(q2, Data(m)) \/ OnWay(Z.withheld, m) \/ Replied(r \o o, m)
        PROVE  m \in S.inFlight
    BY <1>3, <1>4, <1>8, <1>9, <2>3 DEF Link, Answered
  <2> QED BY <2>1, <2>2, <2>3 DEF Answered
<1>13. Closed(S, Z, q2, r \o o)
  BY <1>2, <1>4 DEF Link, Closed
<1>14. Honest(S, Z, q2, r \o o)
  <2>1. ASSUME Hopeful(S), ~Missed(Z, q2)
        PROVE  /\ \A m \in Blocks : m <= S.sent => m \in S.inFlight \/ m <= Z.taken
               /\ \A m \in Blocks : Leads(r \o o, Answer(Data(m), "ok")) => m <= Z.taken
               /\ Z.half = "tombstone" => OnWay(r \o o, CloseIq)
    <3>1. /\ \A m \in Blocks : m <= S.sent => m \in S.inFlight \/ m <= R.taken
          /\ \A m \in Blocks : Leads(r, Answer(Data(m), "ok")) => m <= R.taken
          /\ R.half = "tombstone" => OnWay(r, CloseIq)
      BY <1>5, <2>1 DEF Link, Honest
    <3>2. \A m \in Blocks : m <= R.taken => m <= Z.taken
      BY <1>1
    <3>3. ASSUME NEW m \in Blocks, Leads(r \o o, Answer(Data(m), "ok")) PROVE m <= Z.taken
      <4>1. Leads(r, Answer(Data(m), "ok")) \/ (OnWay(o, Answer(Data(m), "ok")) /\ ~OnWay(r, CloseIq))
        BY <3>3, LeadsJoined
      <4>2. OnWay(o, Answer(Data(m), "ok")) => Replied(o, m)
        BY RepliedIs DEF Results
      <4>3. CASE m = n /\ OnWay(o, Answer(Data(n), "ok")) /\ ~OnWay(r, CloseIq)
        BY <1>1, <1>7, <3>1, <4>3
      <4>4. CASE OnWay(R.withheld, m)
        BY <1>10, <3>2, <4>4
      <4> QED BY <3>1, <3>2, <4>1, <4>2, <4>3, <4>4
    <3> QED BY <1>2, <3>1, <3>2, <3>3
  <2>2. ASSUME S.closing = "sent", ~S.closedByPeer, Z.taken # S.sent
        PROVE  Missed(Z, q2) /\ ~OnWay(r \o o, OkClose)
    <3>1. R.taken # S.sent
      BY <1>1, <1>6
    <3> QED BY <1>2, <1>5, <2>2, <3>1 DEF Link, Honest
  <2> QED BY <2>1, <2>2 DEF Honest
<1>15. Heard(S, Z, r \o o)
  <2>1. CASE Z.refused = R.refused /\ R.refused # "due"
    <3>1. \A m \in S.inFlight : Leads(r, Answer(Data(m), Refusal)) => Leads(r \o o, Answer(Data(m), Refusal))
      BY LeadsJoined
    <3> QED BY <2>1, <3>1 DEF Link, Heard, Late
  <2>2. CASE Z.refused = "due" /\ R.half = "live"
    <3>1. ~S.closedByPeer /\ ~OnWay(r \o o, CloseIq)
      BY <1>2, <2>2
    <3> QED BY <2>2, <3>1 DEF Heard
  <2> QED BY <2>1, <2>2
<1>150. Due(S, Z, q2, r \o o)
  <2>1. SUFFICES ASSUME Z.refused = "due" PROVE Due(S, Z, q2, r \o o)
    BY DEF Due
  <2>2. R.half = "live" /\ Z.taken = R.taken /\ ~Replied(o, n) /\ n = Z.taken + 1
    BY <1>7, <2>1
  <2> QED BY <1>3, <1>6, <1>8, <2>2 DEF Due
<1>16. Resolved(S, Z)
  BY DEF Link, Resolved, Late
<1> QED BY <1>11, <1>12, <1>13, <1>14, <1>15, <1>150, <1>16 DEF Link, q2

(* Its receiver begins to listen, before anything was sent. *)
LEMMA ReceiverBegins ==
  ASSUME NEW S \in Duplexes, NEW R \in Duplexes, NEW Z \in Duplexes,
         NEW q \in Seq(Stanzas), NEW r \in Seq(Stanzas), NEW o \in Seq(Stanzas), NEW q2,
         Link(S, R, q, r), R.half = "none", R.withheld = <<>>, S.sent = 0,
         Z = [R EXCEPT !.half = "live"],
         o \in {<<>>, <<Open>>},
         q2 = q \/ (q # <<>> /\ Head(q) = Open /\ q2 = Tail(q))
  PROVE  Link(S, Z, q2, r \o o)
<1>1. /\ S.sent \in Nat /\ R.taken \in Nat /\ Blocks \subseteq Nat \ {0}
      /\ Z.half = "live" /\ Z.withheld = <<>> /\ Z.taken = R.taken /\ Z.refused = R.refused
      /\ Z.closedByPeer = R.closedByPeer
  BY DEF Duplexes, Blocks
<1>2. r \o o \in Seq(Stanzas) /\ \A m : OnWay(r \o o, m) <=> OnWay(r, m) \/ OnWay(o, m)
  BY Joined
<1>3. /\ \A m \in Blocks : ~Replied(o, m)
      /\ ~OnWay(o, OkClose) /\ ~OnWay(o, NoClose) /\ Single(o)
      /\ \A m \in Blocks, res \in Results : ~OnWay(o, Answer(Data(m), res))
  <2>1. CASE o = <<>>
    BY <2>1, Nothing
  <2>2. CASE o = <<Open>>
    <3>1. \A iq \in Requests, res \in Results : Answer(iq, res) # Open
      BY Kinds, Forms
    <3>2. OkClose # Open /\ NoClose # Open
      BY <3>1, Kinds DEF OkClose, NoClose, Results
    <3> QED BY <2>2, <3>1, <3>2, Alone, Kinds
  <2> QED BY <2>1, <2>2
<1>4. \A m : Replied(r \o o, m) <=> Replied(r, m) \/ Replied(o, m)
  BY <1>2, RepliedIs
<1>5. (\A m : OnWay(q2, m) => OnWay(q, m)) /\ Ordered(q2)
  <2>1. Ordered(q)
    BY DEF Link, Carried
  <2>2. ASSUME NEW m, OnWay(q2, m) PROVE OnWay(q, m)
    <3>1. CASE q2 = q
      BY <2>2, <3>1
    <3>2. CASE q # <<>> /\ q2 = Tail(q)
      BY <2>2, <3>2, Behind
    <3> QED BY <3>1, <3>2
  <2> QED BY <2>1, <2>2, OrderedKeeps
<1>6. Missed(R, q) => Missed(Z, q2)
  <2>1. NoClose # Open
    BY Kinds, Forms DEF NoClose, Results
  <2> QED BY <2>1, LeadsBehind DEF Missed
<1>7. Carried(S, Z, q2)
  BY <1>1, <1>5 DEF Link, Carried
<1>8. Answered(S, Z, q2, r \o o)
  <2>1. Single(r \o o)
    BY <1>3, SingleKeeps DEF Link, Answered
  <2> QED BY <1>1, <1>3, <1>4, <1>5, <2>1 DEF Link, Answered
<1>9. Closed(S, Z, q2, r \o o)
  BY <1>1, <1>2, <1>3, <1>5 DEF Link, Closed
<1>10. Honest(S, Z, q2, r \o o)
  <2>1. \A m \in Blocks : Leads(r \o o, Answer(Data(m), "ok")) => Leads(r, Answer(Data(m), "ok"))
    BY <1>3, LeadsJoined DEF Results
  <2> QED BY <1>1, <1>2, <1>3, <1>6, <2>1 DEF Link, Honest
<1>11. Heard(S, Z, r \o o)
  <2>1. \A m \in S.inFlight : Leads(r, Answer(Data(m), Refusal)) => Leads(r \o o, Answer(Data(m), Refusal))
    BY LeadsJoined
  <2>2. Late(Z) <=> Late(R)
    BY DEF Late, Duplexes
  <2>3. R.refused # "due"
    BY <1>1 DEF Link, Due
  <2> QED BY <1>1, <2>1, <2>2, <2>3 DEF Link, Heard
<1>110. Due(S, Z, q2, r \o o)
  <2>1. SUFFICES ASSUME R.refused = "due" PROVE Due(S, Z, q2, r \o o)
    BY <1>1 DEF Due
  <2>2. R.taken + 1 <= S.sent /\ R.taken + 1 \in Nat /\ R.taken + 1 # 0 /\ S.sent = 0
    BY <1>1, <2>1 DEF Link, Due
  <2> QED BY <1>1, <2>2
<1>12. Resolved(S, Z)
  BY <1>1 DEF Link, Resolved, Late
<1> QED BY <1>7, <1>8, <1>9, <1>10, <1>11, <1>110, <1>12 DEF Link

(* Its receiver's refusal leaves. *)
LEMMA ReceiverRefuses ==
  ASSUME NEW S \in Duplexes, NEW R \in Duplexes, NEW Z \in Duplexes,
         NEW q \in Seq(Stanzas), NEW r \in Seq(Stanzas), NEW how,
         Link(S, R, q, r), R.refused = "due", Z = [R EXCEPT !.refused = how],
         how = IF R.closes > 0 THEN "overtaken" ELSE "told"
  PROVE  /\ R.taken + 1 \in Blocks
         /\ Link(S, Z, q, r \o <<Answer(Data(R.taken + 1), Refusal)>>)
<1> DEFINE n == R.taken + 1
           m0 == Answer(Data(n), Refusal)
           o == <<m0>>
<1>1. /\ S.sent \in 0..MaxBlocks /\ R.taken \in Nat /\ R.closes \in Nat /\ MaxBlocks \in Nat /\ Blocks = 1..MaxBlocks
      /\ R.withheld \in Seq(Blocks) /\ S.inFlight \subseteq Blocks
  BY DuplexAssumption DEF Duplexes, Blocks
<1>2. /\ n <= S.sent /\ ~OnWay(q, Data(n)) /\ ~Replied(r, n) /\ (S.failed = "no" => n \in S.inFlight)
  BY DEF Link, Due
<1>3. n \in Blocks /\ ~(n <= R.taken)
  BY <1>1, <1>2
<1>4. /\ Z.half = R.half /\ Z.taken = R.taken /\ Z.withheld = R.withheld /\ Z.closedByPeer = R.closedByPeer
      /\ Z.refused = how /\ Z.closes = R.closes
  BY DEF Duplexes
<1>5. /\ m0 \in Stanzas /\ m0 # CloseIq /\ m0 # OkClose /\ m0 # NoClose /\ IsReply(m0, n)
      /\ \A m \in Blocks : (IsReply(m0, m) => m = n) /\ m0 # Answer(Data(m), "ok")
  BY <1>3, Kinds, Forms DEF Refusal, Results
<1> HIDE DEF n, m0
<1>6. o \in Seq(Stanzas) /\ Single(o) /\ (\A m : OnWay(o, m) <=> m = m0)
  BY <1>5, Alone
<1>7. \A m \in Blocks : Replied(o, m) <=> m = n
  BY <1>5, <1>6, RepliedIs DEF IsReply
<1> HIDE DEF o
<1>8. r \o o \in Seq(Stanzas) /\ \A m : OnWay(r \o o, m) <=> OnWay(r, m) \/ m = m0
  BY <1>6, Joined
<1>9. \A m \in Blocks : Replied(r \o o, m) <=> Replied(r, m) \/ m = n
  <2>1. \A m : Replied(r \o o, m) <=> Replied(r, m) \/ Replied(o, m)
    BY <1>6, <1>8, RepliedIs
  <2> QED BY <1>7, <2>1
<1>10. Carried(S, Z, q)
  BY <1>4 DEF Link, Carried
<1>11. Answered(S, Z, q, r \o o)
  <2>1. Single(r \o o)
    <3>1. \A m \in Blocks : ~(Replied(r, m) /\ Replied(o, m))
      BY <1>2, <1>7
    <3> QED BY <1>6, <3>1, SingleKeeps DEF Link, Answered
  <2>2. ~OnWay(R.withheld, n)
    BY <1>3 DEF Link, Carried
  <2> QED BY <1>2, <1>4, <1>9, <2>1, <2>2 DEF Link, Answered
<1>12. Closed(S, Z, q, r \o o)
  BY <1>4, <1>5, <1>8 DEF Link, Closed
<1>13. Honest(S, Z, q, r \o o)
  <2>1. \A m \in Blocks : Leads(r \o o, Answer(Data(m), "ok")) => Leads(r, Answer(Data(m), "ok"))
    BY <1>5, <1>6, LeadsJoined
  <2>2. Missed(Z, q) <=> Missed(R, q)
    BY <1>4 DEF Missed
  <2> QED BY <1>4, <1>5, <1>8, <2>1, <2>2 DEF Link, Honest
<1>14. Due(S, Z, q, r \o o)
  BY <1>4 DEF Due
<1>15. Heard(S, Z, r \o o)
  <2>1. SUFFICES ASSUME S.failed = "no", ~Late(Z)
                 PROVE  ~S.closedByPeer /\ \E m \in S.inFlight : Leads(r \o o, Answer(Data(m), Refusal))
    BY DEF Heard
  <2>2. ~Late(R)
    BY <1>4, <2>1 DEF Late
  <2>3. \A m \in S.inFlight : Leads(r, Answer(Data(m), Refusal)) => Leads(r \o o, Answer(Data(m), Refusal))
    BY <1>6, LeadsJoined
  <2>4. ~OnWay(r, CloseIq) => Leads(r \o o, m0)
    BY <1>5, <1>6, LeadsJoined
  <2> QED BY <1>2, <2>1, <2>2, <2>3, <2>4 DEF Link, Heard, m0
<1>16. Resolved(S, Z)
  BY <1>4 DEF Link, Resolved, Late
<1> QED BY <1>3, <1>10, <1>11, <1>12, <1>13, <1>14, <1>15, <1>16 DEF Link, n, m0, o

-----------------------------------------------------------------------------
(* What the parts of a stretch leave behind. *)

X == [st : Duplexes, out : Seq(Stanzas)]

(* An end that goes answers the blocks it withheld, all alike, and tells   *)
(* its peer or does not.                                                   *)
Parting(w, o, res, tells) ==
  /\ o \in Seq(Stanzas) /\ Single(o) /\ Lone(o)
  /\ OnWay(o, CloseIq) <=> tells
  /\ \A n \in Blocks : Replied(o, n) => OnWay(w, n)
  /\ \A n \in Blocks : \A rez \in Results : OnWay(o, Answer(Data(n), rez)) => rez = res
  /\ \A n \in Blocks : ~OnWay(o, Data(n))
  /\ ~OnWay(o, OkClose) /\ ~OnWay(o, NoClose) /\ ~OnWay(o, Open)
  /\ \A rez \in Results : ~OnWay(o, Answer(Open, rez))

Distinct(w) == \A i, j \in DOMAIN w : w[i] = w[j] => i = j

LEMMA LoneKeeps ==
  ASSUME NEW q \in Seq(Stanzas), Lone(q)
  PROVE  /\ \A o \in Seq(Stanzas) : Lone(o) /\ ~(OnWay(q, CloseIq) /\ OnWay(o, CloseIq)) => Lone(q \o o)
         /\ q # <<>> => /\ Lone(Tail(q))
                        /\ Head(q) = CloseIq => ~OnWay(Tail(q), CloseIq)
<1>1. ASSUME NEW o \in Seq(Stanzas), Lone(o), ~(OnWay(q, CloseIq) /\ OnWay(o, CloseIq))
      PROVE  Lone(q \o o)
  <2> DEFINE p == q \o o
  <2>1. \A i \in DOMAIN p : \/ i \in DOMAIN q /\ p[i] = q[i]
                            \/ i > Len(q) /\ i - Len(q) \in DOMAIN o /\ p[i] = o[i - Len(q)]
    BY Joined
  <2>2. DOMAIN p \subseteq Nat /\ Len(q) \in Nat
    OBVIOUS
  <2> HIDE DEF p
  <2>3. SUFFICES ASSUME NEW i \in DOMAIN p, NEW j \in DOMAIN p, p[i] = CloseIq, p[j] = CloseIq
                 PROVE  i = j
    BY DEF Lone, p
  <2>4. CASE i \in DOMAIN q /\ p[i] = q[i]
    <3>1. OnWay(q, CloseIq)
      BY <2>3, <2>4 DEF OnWay
    <3>2. j \in DOMAIN q /\ p[j] = q[j]
      BY <1>1, <2>1, <2>3, <3>1 DEF OnWay
    <3> QED BY <2>3, <2>4, <3>2 DEF Lone
  <2>5. CASE i > Len(q) /\ i - Len(q) \in DOMAIN o /\ p[i] = o[i - Len(q)]
    <3>1. OnWay(o, CloseIq)
      BY <2>3, <2>5 DEF OnWay
    <3>2. j > Len(q) /\ j - Len(q) \in DOMAIN o /\ p[j] = o[j - Len(q)]
      BY <1>1, <2>1, <2>3, <3>1 DEF OnWay
    <3>3. i - Len(q) = j - Len(q)
      BY <1>1, <2>3, <2>5, <3>2 DEF Lone
    <3> QED BY <2>2, <3>3
  <2> QED BY <2>1, <2>4, <2>5
<1>2. ASSUME q # <<>>
      PROVE  Lone(Tail(q)) /\ (Head(q) = CloseIq => ~OnWay(Tail(q), CloseIq))
  <2>1. /\ \A i \in DOMAIN Tail(q) : i + 1 \in DOMAIN q /\ Tail(q)[i] = q[i + 1] /\ i \in Nat /\ i # 0
        /\ Head(q) = q[1] /\ 1 \in DOMAIN q
    BY <1>2, Behind
  <2>2. (\A i, j \in DOMAIN Tail(q) : i + 1 = j + 1 => i = j) /\ \A i \in DOMAIN Tail(q) : i + 1 # 1
    BY <2>1
  <2> QED BY <2>1, <2>2 DEF Lone, OnWay
<1> QED BY <1>1, <1>2

LEMMA PartingForms ==
  ASSUME NEW w \in Seq(Blocks), Distinct(w), NEW res \in Results, NEW o \in {<<>>, Answers(w, res)}
  PROVE  Parting(w, o, res, FALSE) /\ Parting(w, <<CloseIq>> \o o, res, TRUE)
<1>1. Parting(w, o, res, FALSE)
  <2>1. CASE o = <<>>
    BY <2>1, Nothing DEF Parting, Lone
  <2>2. CASE o = Answers(w, res)
    <3>1. \A m : (\A n \in Blocks : ~IsReply(m, n)) => ~OnWay(o, m)
      BY <2>2, Woken
    <3>2. /\ ~OnWay(o, CloseIq) /\ ~OnWay(o, OkClose) /\ ~OnWay(o, NoClose) /\ ~OnWay(o, Open)
          /\ \A n \in Blocks : ~OnWay(o, Data(n))
          /\ \A rez \in Results : ~OnWay(o, Answer(Open, rez))
      BY <3>1, Kinds
    <3>3. Lone(o)
      BY <3>2 DEF Lone, OnWay
    <3> QED BY <2>2, <3>2, <3>3, Woken DEF Parting, Distinct
  <2> QED BY <2>1, <2>2
<1>2. Parting(w, <<CloseIq>> \o o, res, TRUE)
  <2> DEFINE c == <<CloseIq>>
  <2>1. /\ c \in Seq(Stanzas) /\ Single(c) /\ \A x : OnWay(c, x) <=> x = CloseIq
        /\ \A n \in Blocks : ~Replied(c, n)
    BY Alone, Kinds
  <2>2. Lone(c)
    BY DEF Lone
  <2> HIDE DEF c
  <2>3. o \in Seq(Stanzas) /\ Single(o) /\ Lone(o) /\ ~OnWay(o, CloseIq)
    BY <1>1 DEF Parting
  <2>4. c \o o \in Seq(Stanzas) /\ \A m : OnWay(c \o o, m) <=> OnWay(o, m) \/ m = CloseIq
    BY <2>1, <2>3, Joined
  <2>5. Single(c \o o) /\ Lone(c \o o)
    BY <2>1, <2>2, <2>3, SingleKeeps, LoneKeeps
  <2>6. \A n : Replied(c \o o, n) <=> Replied(o, n) \/ \E rez \in Results : CloseIq = Answer(Data(n), rez)
    BY <2>4, RepliedIs
  <2>7. \A n \in Blocks, rez \in Results : CloseIq # Answer(Data(n), rez)
    BY Kinds
  <2>8. OkClose # CloseIq /\ NoClose # CloseIq /\ Open # CloseIq /\ \A n \in Blocks : Data(n) # CloseIq
    BY Kinds, Forms DEF OkClose, NoClose, Results
  <2>9. \A rez \in Results : Answer(Open, rez) # CloseIq
    BY Kinds, Forms
  <2> QED BY <1>1, <2>4, <2>5, <2>6, <2>7, <2>8, <2>9 DEF Parting, c
<1> QED BY <1>1, <1>2

(* What ending a tunnel leaves as it was. *)
Same(S, Z) ==
  /\ Z.taken = S.taken /\ Z.refused = S.refused /\ Z.sent = S.sent
  /\ Z.inFlight = S.inFlight /\ Z.closedByPeer = S.closedByPeer /\ Z.onFailDue = S.onFailDue

(* The peer is told; the half, if it was live, becomes a tombstone.        *)
Farewell(S, y) ==
  /\ y \in X /\ Same(S, y.st) /\ y.st.withheld = <<>>
  /\ y.st.half = IF S.half = "live" THEN "tombstone" ELSE S.half
  /\ y.st.closes = S.closes + 1 /\ y.st.peerKnows
  /\ Parting(S.withheld, y.out, "ok", TRUE)

(* Nothing is left of the half. *)
Burial(S, y) ==
  /\ y \in X /\ Same(S, y.st) /\ y.st.withheld = <<>>
  /\ y.st.half = "gone" /\ y.st.closes = S.closes /\ y.st.peerKnows = S.peerKnows
  /\ Parting(S.withheld, y.out, "ok", FALSE)

(* Nothing is left of the half, and the peer is told. *)
Departure(S, y) ==
  /\ y \in X /\ Same(S, y.st) /\ y.st.withheld = <<>>
  /\ y.st.half = "gone" /\ y.st.closes = S.closes + 1 /\ y.st.peerKnows
  /\ Parting(S.withheld, y.out, "ok", TRUE)

Begun(x) ==
  /\ x \in X /\ x.out = <<>> /\ Distinct(x.st.withheld)
  /\ x.st.half # "live" => x.st.withheld = <<>>

(* Noting something down in the end's state leaves what the stretch sent. *)
LEMMA NotedWithheld ==
  ASSUME NEW x \in X, NEW v \in Seq(Blocks), NEW y, y = [x EXCEPT !.st.withheld = v]
  PROVE  y \in X /\ y.st = [x.st EXCEPT !.withheld = v] /\ y.out = x.out
<1>1. y.st = [x.st EXCEPT !.withheld = v] /\ y.out = x.out
  BY DEF X, Duplexes
<1> QED BY <1>1 DEF X, Duplexes

LEMMA NotedPeerKnows ==
  ASSUME NEW x \in X, NEW v \in BOOLEAN, NEW y, y = [x EXCEPT !.st.peerKnows = v]
  PROVE  y \in X /\ y.st = [x.st EXCEPT !.peerKnows = v] /\ y.out = x.out
<1>1. y.st = [x.st EXCEPT !.peerKnows = v] /\ y.out = x.out
  BY DEF X, Duplexes
<1> QED BY <1>1 DEF X, Duplexes

LEMMA NotedCloseSent ==
  ASSUME NEW x \in X, NEW v \in BOOLEAN, NEW y, y = [x EXCEPT !.st.closeSent = v]
  PROVE  y \in X /\ y.st = [x.st EXCEPT !.closeSent = v] /\ y.out = x.out
<1>1. y.st = [x.st EXCEPT !.closeSent = v] /\ y.out = x.out
  BY DEF X, Duplexes
<1> QED BY <1>1 DEF X, Duplexes

LEMMA PutsIs ==
  ASSUME NEW x \in X, NEW a \in Seq(Stanzas)
  PROVE  Puts(x, a) \in X /\ Puts(x, a).st = x.st /\ Puts(x, a).out = x.out \o a
<1> DEFINE o == x.out \o a
<1>1. x.out \in Seq(Stanzas) /\ Puts(x, a) = [x EXCEPT !.out = o]
  BY DEF Puts, X
<1>2. o \in Seq(Stanzas)
  BY <1>1
<1> HIDE DEF o
<1>3. Puts(x, a) \in X /\ Puts(x, a).st = x.st /\ Puts(x, a).out = o
  BY <1>1, <1>2 DEF X
<1> QED BY <1>3 DEF o

LEMMA WakeIs ==
  ASSUME NEW x \in X, NEW res \in Results
  PROVE  /\ WakeHandlers(x, res) \in X
         /\ WakeHandlers(x, res).st = [x.st EXCEPT !.withheld = <<>>]
         /\ WakeHandlers(x, res).out = x.out \o Answers(x.st.withheld, res)
         /\ x.out = <<>> => WakeHandlers(x, res).out = Answers(x.st.withheld, res)
<1> DEFINE p == Puts(x, Answers(x.st.withheld, res))
           y == WakeHandlers(x, res)
<1>1. x.st.withheld \in Seq(Blocks) /\ x.out \in Seq(Stanzas) /\ <<>> \in Seq(Blocks)
  BY DEF X, Duplexes
<1>2. Answers(x.st.withheld, res) \in Seq(Stanzas)
  BY <1>1, Woken
<1>3. p \in X /\ p.st = x.st /\ p.out = x.out \o Answers(x.st.withheld, res)
  BY <1>2, PutsIs
<1>4. y = [p EXCEPT !.st.withheld = <<>>]
  BY DEF WakeHandlers
<1> HIDE DEF p, y
<1>5. y \in X /\ y.out = p.out /\ y.st = [p.st EXCEPT !.withheld = <<>>]
  BY <1>1, <1>3, <1>4, NotedWithheld
<1>6. \A a \in Seq(Stanzas) : <<>> \o a = a
  OBVIOUS
<1> QED BY <1>2, <1>3, <1>5, <1>6 DEF y

LEMMA RetiredIs ==
  ASSUME NEW x, Begun(x), NEW keep \in BOOLEAN
  PROVE  LET h == IF x.st.half = "live" THEN (IF keep THEN "tombstone" ELSE "gone") ELSE x.st.half IN
         /\ RetireInbound(x, keep) \in X
         /\ RetireInbound(x, keep).st = [x.st EXCEPT !.withheld = <<>>, !.half = h]
         /\ RetireInbound(x, keep).out \in {<<>>, Answers(x.st.withheld, "ok")}
<1> DEFINE y == RetireInbound(x, keep)
<1>1. /\ x \in X /\ x.out = <<>> /\ x.st \in Duplexes /\ x.st.withheld \in Seq(Blocks) /\ <<>> \in Seq(Blocks)
      /\ x.st.half # "live" => x.st.withheld = <<>>
  BY DEF Begun, X, Duplexes
<1>3. CASE x.st.half = "live"
  <2> DEFINE h == IF keep THEN "tombstone" ELSE "gone"
             k == WakeHandlers(x, "ok")
  <2>1. k \in X /\ k.st = [x.st EXCEPT !.withheld = <<>>] /\ k.out = Answers(x.st.withheld, "ok")
    BY <1>1, WakeIs DEF Results
  <2>2. y = [k EXCEPT !.st.half = h]
    BY <1>3 DEF RetireInbound
  <2>3. h \in {"none", "live", "tombstone", "gone"}
    OBVIOUS
  <2>30. k \in X
    BY <2>1
  <2> HIDE DEF h, k, y
  <2>4. y \in X /\ y.out = k.out /\ y.st = [k.st EXCEPT !.half = h]
    <3>1. y.st = [k.st EXCEPT !.half = h] /\ y.out = k.out
      BY <2>30, <2>2, <2>3 DEF X, Duplexes
    <3>2. y \in X
      BY <2>30, <2>2, <2>3, <3>1 DEF X, Duplexes
    <3> QED BY <3>1, <3>2
  <2>5. y.st = [x.st EXCEPT !.withheld = <<>>, !.half = h]
    BY <1>1, <2>1, <2>3, <2>4 DEF Duplexes
  <2> QED BY <1>3, <2>1, <2>4, <2>5 DEF h, y
<1>4. CASE x.st.half # "live"
  <2>1. y = x
    BY <1>4 DEF RetireInbound
  <2>2. x.st = [x.st EXCEPT !.withheld = <<>>, !.half = x.st.half]
    BY <1>1, <1>4 DEF Duplexes
  <2> QED BY <1>1, <1>4, <2>1, <2>2
<1> QED BY <1>3, <1>4

(* sendClose(), after the half was retired into x. *)
LEMMA SendCloseIs ==
  ASSUME NEW x \in X
  PROVE  /\ SendClose(x) \in X
         /\ SendClose(x).st = [x.st EXCEPT !.closes = x.st.closes + 1, !.peerKnows = TRUE]
         /\ SendClose(x).out = <<CloseIq>> \o x.out
<1> DEFINE c == x.st.closes + 1
           p == <<CloseIq>> \o x.out
           y == [x EXCEPT !.out = p, !.st.closes = c, !.st.peerKnows = TRUE]
<1>1. x.st \in Duplexes /\ x.st.closes \in Nat /\ x.out \in Seq(Stanzas)
  BY DEF X, Duplexes
<1>2. c \in Nat
  BY <1>1
<1>3. p \in Seq(Stanzas)
  <2>1. <<CloseIq>> \in Seq(Stanzas)
    BY Alone, Kinds
  <2> QED BY <1>1, <2>1
<1>4. SendClose(x) = y
  BY <1>1 DEF SendClose, X, Duplexes
<1> HIDE DEF c, p
<1>5. y.st = [x.st EXCEPT !.closes = c, !.peerKnows = TRUE] /\ y.out = p
  BY <1>1 DEF X, Duplexes
<1>6. y.st \in Duplexes
  <2> DEFINE t == [x.st EXCEPT !.closes = c]
  <2>1. t \in Duplexes
    BY <1>1, <1>2 DEF Duplexes
  <2>2. y.st = [t EXCEPT !.peerKnows = TRUE]
    BY <1>1, <1>5 DEF Duplexes
  <2> HIDE DEF t, y
  <2> QED BY <2>1, <2>2 DEF Duplexes
<1>7. y \in X
  BY <1>3, <1>5, <1>6 DEF X
<1> HIDE DEF y
<1> QED BY <1>4, <1>5, <1>7 DEF c, p

(* What either of these leaves, whatever else the stretch notes down in z. *)
LEMMA FarewellIs ==
  ASSUME NEW x, Begun(x), NEW z \in X, z.out = RetireInbound(x, TRUE).out,
         Same(x.st, z.st), z.st.withheld = <<>>, z.st.closes = x.st.closes,
         z.st.half = IF x.st.half = "live" THEN "tombstone" ELSE x.st.half
  PROVE  /\ Farewell(x.st, SendClose(z))
         /\ SendClose(z).st.failed = z.st.failed /\ SendClose(z).st.closeSent = z.st.closeSent
         /\ SendClose(z).st.closing = z.st.closing /\ SendClose(z).st.aborting = z.st.aborting
<1> DEFINE y == SendClose(z)
           t == y.st
           c == z.st.closes + 1
<1>1. x.st.withheld \in Seq(Blocks) /\ Distinct(x.st.withheld) /\ z.st \in Duplexes
  BY DEF Begun, X, Duplexes
<1>2. Parting(x.st.withheld, <<CloseIq>> \o z.out, "ok", TRUE)
  BY <1>1, RetiredIs, PartingForms DEF Results
<1>3. y \in X /\ y.out = <<CloseIq>> \o z.out /\ t = [z.st EXCEPT !.closes = c, !.peerKnows = TRUE]
  BY SendCloseIs
<1>4. c = x.st.closes + 1
  OBVIOUS
<1> HIDE DEF y, c
<1>5. /\ Same(z.st, t) /\ t.withheld = z.st.withheld /\ t.half = z.st.half /\ t.closes = c /\ t.peerKnows
      /\ t.failed = z.st.failed /\ t.closeSent = z.st.closeSent /\ t.closing = z.st.closing
      /\ t.aborting = z.st.aborting
  BY <1>1, <1>3 DEF Duplexes, Same
<1>6. Same(x.st, t)
  BY <1>5 DEF Same
<1> QED BY <1>2, <1>3, <1>4, <1>5, <1>6 DEF Farewell, y

LEMMA CloseStreamIs ==
  ASSUME NEW x, Begun(x)
  PROVE  /\ Farewell(x.st, CloseStream(x))
         /\ CloseStream(x).st.closeSent /\ CloseStream(x).st.failed = x.st.failed
         /\ CloseStream(x).st.closing = x.st.closing /\ CloseStream(x).st.aborting = x.st.aborting
<1> DEFINE k == RetireInbound(x, TRUE)
           z == [k EXCEPT !.st.closeSent = TRUE]
           h == IF x.st.half = "live" THEN "tombstone" ELSE x.st.half
<1>1. x.st \in Duplexes /\ <<>> \in Seq(Blocks)
  BY DEF Begun, X
<1>2. k \in X /\ k.st = [x.st EXCEPT !.withheld = <<>>, !.half = h]
  BY RetiredIs
<1>3. h \in {"none", "live", "tombstone", "gone"}
  BY <1>1 DEF Duplexes
<1>4. CloseStream(x) = SendClose(z)
  BY DEF CloseStream
<1> HIDE DEF k, h
<1>5. z \in X /\ z.out = k.out /\ z.st = [k.st EXCEPT !.closeSent = TRUE]
  BY <1>2, NotedCloseSent
<1> HIDE DEF z
<1>6. /\ k.st \in Duplexes /\ Same(x.st, k.st) /\ k.st.withheld = <<>> /\ k.st.closes = x.st.closes /\ k.st.half = h
      /\ k.st.failed = x.st.failed /\ k.st.closing = x.st.closing /\ k.st.aborting = x.st.aborting
  BY <1>1, <1>2, <1>3 DEF X, Duplexes, Same
<1>7. /\ Same(k.st, z.st) /\ z.st.withheld = k.st.withheld /\ z.st.closes = k.st.closes /\ z.st.half = k.st.half
      /\ z.st.closeSent /\ z.st.failed = k.st.failed /\ z.st.closing = k.st.closing
      /\ z.st.aborting = k.st.aborting
  BY <1>5, <1>6 DEF Duplexes, Same
<1>8. Same(x.st, z.st)
  BY <1>6, <1>7 DEF Same
<1>9. /\ z.out = RetireInbound(x, TRUE).out /\ z.st.withheld = <<>> /\ z.st.closes = x.st.closes
      /\ z.st.half = IF x.st.half = "live" THEN "tombstone" ELSE x.st.half
  BY <1>5, <1>6, <1>7 DEF h, k
<1>10. /\ Farewell(x.st, SendClose(z))
       /\ SendClose(z).st.failed = z.st.failed /\ SendClose(z).st.closeSent = z.st.closeSent
       /\ SendClose(z).st.closing = z.st.closing /\ SendClose(z).st.aborting = z.st.aborting
  BY <1>5, <1>8, <1>9, FarewellIs
<1> QED BY <1>4, <1>6, <1>7, <1>10

(* What else the end keeps. *)
Rest(S, Z) ==
  Z.failed = S.failed /\ Z.closeSent = S.closeSent /\ Z.closing = S.closing /\ Z.aborting = S.aborting

LEMMA BuriedIs ==
  ASSUME NEW x, Begun(x)
  PROVE  /\ Burial(x.st, Buried(x)) /\ Rest(x.st, Buried(x).st)
         /\ Parting(x.st.withheld, <<CloseIq>> \o Buried(x).out, "ok", TRUE)
<1> DEFINE k == RetireInbound(x, FALSE)
           h == IF x.st.half = "live" THEN "gone" ELSE x.st.half
           y == Buried(x)
<1>1. x.st \in Duplexes /\ <<>> \in Seq(Blocks) /\ x.st.withheld \in Seq(Blocks) /\ Distinct(x.st.withheld)
  BY DEF Begun, X, Duplexes
<1>2. k \in X /\ k.st = [x.st EXCEPT !.withheld = <<>>, !.half = h] /\ k.out \in {<<>>, Answers(x.st.withheld, "ok")}
  BY RetiredIs
<1>3. h \in {"none", "live", "tombstone", "gone"}
  BY <1>1 DEF Duplexes
<1>4. y = [k EXCEPT !.st.half = "gone"]
  BY DEF Buried, RemoveTombstone
<1>5. Parting(x.st.withheld, k.out, "ok", FALSE) /\ Parting(x.st.withheld, <<CloseIq>> \o k.out, "ok", TRUE)
  BY <1>1, <1>2, PartingForms DEF Results
<1>6. k \in X
  BY <1>2
<1> HIDE DEF k, h, y
<1>7. /\ k.st \in Duplexes /\ Same(x.st, k.st) /\ k.st.withheld = <<>> /\ k.st.closes = x.st.closes
      /\ k.st.peerKnows = x.st.peerKnows /\ Rest(x.st, k.st)
  BY <1>1, <1>2, <1>3 DEF X, Duplexes, Same, Rest
<1>8. y.st = [k.st EXCEPT !.half = "gone"] /\ y.out = k.out
  BY <1>4, <1>6 DEF X, Duplexes
<1>9. y \in X
  BY <1>4, <1>6, <1>8 DEF X, Duplexes
<1>10. /\ Same(k.st, y.st) /\ y.st.withheld = k.st.withheld /\ y.st.closes = k.st.closes
       /\ y.st.peerKnows = k.st.peerKnows /\ Rest(k.st, y.st) /\ y.st.half = "gone"
  BY <1>7, <1>8 DEF Duplexes, Same, Rest
<1>11. Same(x.st, y.st) /\ Rest(x.st, y.st)
  BY <1>7, <1>10 DEF Same, Rest
<1> QED BY <1>5, <1>7, <1>8, <1>9, <1>10, <1>11 DEF Burial, y

LEMMA DepartureIs ==
  ASSUME NEW x, Begun(x)
  PROVE  Departure(x.st, SendClose(Buried(x))) /\ Rest(x.st, SendClose(Buried(x)).st)
<1> DEFINE z == Buried(x)
           y == SendClose(z)
           c == z.st.closes + 1
<1>1. Burial(x.st, z) /\ Rest(x.st, z.st) /\ Parting(x.st.withheld, <<CloseIq>> \o z.out, "ok", TRUE)
  BY BuriedIs
<1> HIDE DEF z
<1>2. /\ z \in X /\ z.st \in Duplexes /\ z.st.withheld = <<>> /\ z.st.half = "gone" /\ z.st.closes = x.st.closes
      /\ Same(x.st, z.st)
  BY <1>1 DEF Burial, X
<1>3. y \in X /\ y.st = [z.st EXCEPT !.closes = c, !.peerKnows = TRUE] /\ y.out = <<CloseIq>> \o z.out
  BY <1>2, SendCloseIs
<1>4. c = x.st.closes + 1
  BY <1>2
<1> HIDE DEF y, c
<1>5. /\ Same(z.st, y.st) /\ Rest(z.st, y.st) /\ y.st.withheld = z.st.withheld /\ y.st.half = z.st.half
      /\ y.st.closes = c /\ y.st.peerKnows
  BY <1>2, <1>3 DEF Duplexes, Same, Rest
<1>6. Same(x.st, y.st) /\ Rest(x.st, y.st)
  BY <1>1, <1>2, <1>5 DEF Same, Rest
<1> QED BY <1>1, <1>2, <1>3, <1>4, <1>5, <1>6 DEF Departure, y, z

LEMMA AbortIs ==
  ASSUME NEW x, Begun(x)
  PROVE  LET S == x.st  y == AbortDuplex(x)  Z == y.st IN
         \/ /\ ~S.closeSent /\ S.failed = "no" /\ ~S.closedByPeer
            /\ Farewell(S, y) /\ Z.closeSent /\ Z.failed = "abort" /\ Z.closing = S.closing /\ Z.aborting
         \/ /\ S.closeSent \/ S.failed # "no" \/ S.closedByPeer
            /\ ~S.peerKnows
            /\ Farewell(S, y) /\ Z.closeSent = S.closeSent /\ Z.failed = S.failed /\ Z.closing = S.closing
            /\ Z.aborting
         \/ /\ S.closeSent \/ S.failed # "no" \/ S.closedByPeer
            /\ S.peerKnows /\ Burial(S, y) /\ Rest(S, Z)
<1> DEFINE S == x.st
           y == AbortDuplex(x)
<1>1. /\ x \in X /\ S \in Duplexes /\ <<>> \in Seq(Blocks) /\ x.out = <<>> /\ Distinct(S.withheld)
      /\ S.half # "live" => S.withheld = <<>>
  BY DEF Begun, X
<1>2. CASE ~S.closeSent /\ S.failed = "no" /\ ~S.closedByPeer
  <2> DEFINE w == [x EXCEPT !.st.failed = "abort", !.st.aborting = TRUE]
  <2>1. w.st = [x.st EXCEPT !.failed = "abort", !.aborting = TRUE] /\ w.out = x.out
    BY <1>1 DEF X, Duplexes
  <2>2. w \in X
    BY <1>1, <2>1 DEF X, Duplexes
  <2>3. y = CloseStream(w)
    BY <1>2 DEF AbortDuplex
  <2> HIDE DEF w, y
  <2>4. /\ Same(S, w.st) /\ w.st.withheld = S.withheld /\ w.st.half = S.half /\ w.st.closes = S.closes
        /\ w.st.failed = "abort" /\ w.st.aborting /\ w.st.closing = S.closing
    BY <1>1, <2>1 DEF Duplexes, Same
  <2>5. Begun(w)
    BY <1>1, <2>1, <2>2, <2>4 DEF Begun
  <2>6. /\ Farewell(w.st, y) /\ y.st.closeSent /\ y.st.failed = "abort" /\ y.st.closing = S.closing /\ y.st.aborting
    BY <2>3, <2>4, <2>5, CloseStreamIs
  <2>7. Farewell(S, y)
    BY <2>4, <2>6 DEF Farewell, Same
  <2> QED BY <1>2, <2>6, <2>7 DEF y
<1>3. CASE (S.closeSent \/ S.failed # "no" \/ S.closedByPeer) /\ ~S.peerKnows
  <2> DEFINE k == RetireInbound(x, TRUE)
             z == [k EXCEPT !.st.aborting = TRUE]
             h == IF x.st.half = "live" THEN "tombstone" ELSE x.st.half
  <2>1. k \in X /\ k.st = [x.st EXCEPT !.withheld = <<>>, !.half = h]
    BY RetiredIs
  <2>2. h \in {"none", "live", "tombstone", "gone"}
    BY <1>1 DEF Duplexes
  <2>3. y = SendClose(z)
    BY <1>3 DEF AbortDuplex
  <2> HIDE DEF k, h, y
  <2>4. z.st = [k.st EXCEPT !.aborting = TRUE] /\ z.out = k.out
    BY <2>1 DEF X, Duplexes
  <2>5. z \in X
    BY <2>1, <2>4 DEF X, Duplexes
  <2> HIDE DEF z
  <2>6. /\ k.st \in Duplexes /\ Same(x.st, k.st) /\ k.st.withheld = <<>> /\ k.st.closes = x.st.closes /\ k.st.half = h
        /\ Rest(x.st, k.st)
    BY <1>1, <2>1, <2>2 DEF X, Duplexes, Same, Rest
  <2>7. /\ Same(k.st, z.st) /\ z.st.withheld = k.st.withheld /\ z.st.closes = k.st.closes /\ z.st.half = k.st.half
        /\ z.st.closeSent = k.st.closeSent /\ z.st.failed = k.st.failed /\ z.st.closing = k.st.closing /\ z.st.aborting
    BY <2>4, <2>6 DEF Duplexes, Same
  <2>8. Same(x.st, z.st)
    BY <2>6, <2>7 DEF Same
  <2>9. /\ z.out = RetireInbound(x, TRUE).out /\ z.st.withheld = <<>> /\ z.st.closes = x.st.closes
        /\ z.st.half = IF x.st.half = "live" THEN "tombstone" ELSE x.st.half
    BY <2>4, <2>6, <2>7 DEF h, k
  <2>10. /\ Farewell(x.st, SendClose(z))
         /\ SendClose(z).st.failed = z.st.failed /\ SendClose(z).st.closeSent = z.st.closeSent
         /\ SendClose(z).st.closing = z.st.closing /\ SendClose(z).st.aborting = z.st.aborting
    BY <2>5, <2>8, <2>9, FarewellIs
  <2>11. /\ Farewell(S, y) /\ y.st.closeSent = S.closeSent /\ y.st.failed = S.failed /\ y.st.closing = S.closing
         /\ y.st.aborting
    BY <2>3, <2>6, <2>7, <2>10 DEF Rest
  <2> QED BY <1>3, <2>11 DEF y
<1>4. CASE (S.closeSent \/ S.failed # "no" \/ S.closedByPeer) /\ S.peerKnows
  <2>1. y = Buried(x)
    BY <1>4 DEF AbortDuplex
  <2> QED BY <1>4, <2>1, BuriedIs
<1> QED BY <1>2, <1>3, <1>4

LEMMA CloseFailsIs ==
  ASSUME NEW x, Begun(x)
  PROVE  LET S == x.st  y == CloseFails(x)  Z == y.st IN
         /\ Z.failed = S.failed /\ Z.closeSent = S.closeSent /\ Z.aborting = S.aborting
         /\ \/ S.peerKnows /\ Burial(S, y) /\ Z.closing = "rejected"
            \/ ~S.peerKnows /\ Farewell(S, y) /\ Z.closing = "telling"
<1> DEFINE y == CloseFails(x)
           k == RetireInbound(x, TRUE)
           h == IF x.st.half = "live" THEN "tombstone" ELSE x.st.half
<1>1. x.st \in Duplexes /\ <<>> \in Seq(Blocks) /\ x.st.withheld \in Seq(Blocks) /\ Distinct(x.st.withheld)
  BY DEF Begun, X, Duplexes
<1>2. k \in X /\ k.st = [x.st EXCEPT !.withheld = <<>>, !.half = h] /\ k.out \in {<<>>, Answers(x.st.withheld, "ok")}
  BY RetiredIs
<1>3. h \in {"none", "live", "tombstone", "gone"}
  BY <1>1 DEF Duplexes
<1>4. Parting(x.st.withheld, k.out, "ok", FALSE)
  BY <1>1, <1>2, PartingForms DEF Results
<1>5. k \in X
  BY <1>2
<1>6. y = IF k.st.peerKnows
          THEN [[k EXCEPT !.st.closing = "rejected"] EXCEPT !.st.half = "gone"]
          ELSE SendClose([k EXCEPT !.st.closing = "telling"])
  BY DEF CloseFails, RemoveTombstone
<1> HIDE DEF k, y
<1>7. /\ k.st \in Duplexes /\ Same(x.st, k.st) /\ k.st.withheld = <<>> /\ k.st.closes = x.st.closes
      /\ k.st.peerKnows = x.st.peerKnows /\ Rest(x.st, k.st) /\ k.st.half = h
  <2> HIDE DEF h
  <2> QED BY <1>1, <1>2, <1>3 DEF X, Duplexes, Same, Rest
<1>8. CASE x.st.peerKnows
  <2> DEFINE z == [k EXCEPT !.st.closing = "rejected"]
  <2>1. y = [z EXCEPT !.st.half = "gone"]
    BY <1>6, <1>7, <1>8
  <2>2. z.st = [k.st EXCEPT !.closing = "rejected"] /\ z.out = k.out
    BY <1>5 DEF X, Duplexes
  <2>3. z \in X
    BY <1>5, <2>2 DEF X, Duplexes
  <2> HIDE DEF z
  <2>4. y.st = [z.st EXCEPT !.half = "gone"] /\ y.out = z.out
    BY <2>1, <2>3 DEF X, Duplexes
  <2>5. y \in X
    BY <2>1, <2>3, <2>4 DEF X, Duplexes
  <2>6. /\ z.st \in Duplexes /\ Same(k.st, z.st) /\ z.st.withheld = k.st.withheld /\ z.st.closes = k.st.closes
        /\ z.st.peerKnows = k.st.peerKnows /\ z.st.failed = k.st.failed /\ z.st.closeSent = k.st.closeSent
        /\ z.st.aborting = k.st.aborting /\ z.st.closing = "rejected"
    BY <1>7, <2>2 DEF Duplexes, Same
  <2>7. /\ Same(z.st, y.st) /\ y.st.withheld = z.st.withheld /\ y.st.closes = z.st.closes
        /\ y.st.peerKnows = z.st.peerKnows /\ Rest(z.st, y.st) /\ y.st.half = "gone"
    BY <2>4, <2>6 DEF Duplexes, Same, Rest
  <2>8. Same(x.st, y.st)
    BY <1>7, <2>6, <2>7 DEF Same
  <2>9. Burial(x.st, y)
    BY <1>4, <1>7, <2>2, <2>4, <2>5, <2>6, <2>7, <2>8 DEF Burial
  <2>10. /\ y.st.failed = x.st.failed /\ y.st.closeSent = x.st.closeSent /\ y.st.aborting = x.st.aborting
         /\ y.st.closing = "rejected"
    BY <1>7, <2>6, <2>7 DEF Rest
  <2> QED BY <1>8, <2>9, <2>10 DEF y
<1>9. CASE ~x.st.peerKnows
  <2> DEFINE z == [k EXCEPT !.st.closing = "telling"]
  <2>1. y = SendClose(z)
    BY <1>6, <1>7, <1>9
  <2>2. z.st = [k.st EXCEPT !.closing = "telling"] /\ z.out = k.out
    BY <1>5 DEF X, Duplexes
  <2>3. z \in X
    BY <1>5, <2>2 DEF X, Duplexes
  <2> HIDE DEF z
  <2>4. /\ Same(k.st, z.st) /\ z.st.withheld = k.st.withheld /\ z.st.closes = k.st.closes
        /\ z.st.half = k.st.half /\ z.st.failed = k.st.failed /\ z.st.closeSent = k.st.closeSent
        /\ z.st.aborting = k.st.aborting /\ z.st.closing = "telling"
    BY <1>7, <2>2 DEF Duplexes, Same
  <2>5. Same(x.st, z.st)
    BY <1>7, <2>4 DEF Same
  <2>6. /\ z.out = RetireInbound(x, TRUE).out /\ z.st.withheld = <<>> /\ z.st.closes = x.st.closes
        /\ z.st.half = IF x.st.half = "live" THEN "tombstone" ELSE x.st.half
    BY <1>7, <2>2, <2>4 DEF k
  <2>7. /\ Farewell(x.st, SendClose(z))
        /\ SendClose(z).st.failed = z.st.failed /\ SendClose(z).st.closeSent = z.st.closeSent
        /\ SendClose(z).st.closing = z.st.closing /\ SendClose(z).st.aborting = z.st.aborting
    BY <2>3, <2>5, <2>6, FarewellIs
  <2>8. /\ Farewell(x.st, y) /\ y.st.closeSent = x.st.closeSent /\ y.st.failed = x.st.failed
        /\ y.st.aborting = x.st.aborting /\ y.st.closing = "telling"
    BY <1>7, <2>1, <2>4, <2>7 DEF Rest
  <2> QED BY <1>9, <2>8 DEF y
<1> QED BY <1>8, <1>9

(* The tombstone goes, when close() returns. *)
LEMMA ReturnedIs ==
  ASSUME NEW x, Begun(x), x.st.half # "live", NEW how \in {"resolved", "rejected"}
  PROVE  LET y == RemoveTombstone([x EXCEPT !.st.closing = how]) IN
         /\ Burial(x.st, y) /\ y.st.closing = how /\ y.st.failed = x.st.failed
         /\ y.st.closeSent = x.st.closeSent /\ y.st.aborting = x.st.aborting
<1> DEFINE z == [x EXCEPT !.st.closing = how]
           y == RemoveTombstone(z)
<1>1. x \in X /\ x.st \in Duplexes /\ x.out = <<>> /\ x.st.withheld = <<>> /\ <<>> \in Seq(Blocks)
  BY DEF Begun, X
<1>2. Parting(x.st.withheld, <<>>, "ok", FALSE)
  BY <1>1, PartingForms DEF Results, Begun
<1>3. y = [z EXCEPT !.st.half = "gone"]
  BY DEF RemoveTombstone
<1> HIDE DEF y
<1>4. z.st = [x.st EXCEPT !.closing = how] /\ z.out = x.out
  BY <1>1 DEF X, Duplexes
<1>5. z \in X
  BY <1>1, <1>4 DEF X, Duplexes
<1> HIDE DEF z
<1>6. y.st = [z.st EXCEPT !.half = "gone"] /\ y.out = z.out
  BY <1>3, <1>5 DEF X, Duplexes
<1>7. y \in X
  BY <1>3, <1>5, <1>6 DEF X, Duplexes
<1>8. /\ Same(x.st, z.st) /\ z.st.withheld = <<>> /\ z.st.closes = x.st.closes /\ z.st.peerKnows = x.st.peerKnows
      /\ z.st.failed = x.st.failed /\ z.st.closeSent = x.st.closeSent /\ z.st.aborting = x.st.aborting
      /\ z.st.closing = how /\ z.st \in Duplexes
  BY <1>1, <1>4 DEF Duplexes, Same
<1>9. /\ Same(z.st, y.st) /\ y.st.withheld = z.st.withheld /\ y.st.closes = z.st.closes
      /\ y.st.peerKnows = z.st.peerKnows /\ Rest(z.st, y.st) /\ y.st.half = "gone"
  BY <1>6, <1>8 DEF Duplexes, Same, Rest
<1>10. Same(x.st, y.st)
  BY <1>8, <1>9 DEF Same
<1>11. Burial(x.st, y)
  BY <1>1, <1>2, <1>4, <1>6, <1>7, <1>8, <1>9, <1>10 DEF Burial
<1> QED BY <1>8, <1>9, <1>11 DEF Rest, y, z

-----------------------------------------------------------------------------
(* An end S, with a handle or not, its peer R, and what is between them.   *)
Pair(S, h, R, k, q, r) ==
  /\ S \in Duplexes /\ R \in Duplexes /\ q \in Seq(Stanzas) /\ r \in Seq(Stanzas)
  /\ Own(S, h) /\ Own(R, k) /\ Link(S, R, q, r) /\ Link(R, S, r, q)

LEMMA PeerIsOver ==
  ASSUME NEW S, NEW R, NEW h, NEW k, NEW q, NEW r, Pair(S, h, R, k, q, r)
  PROVE  /\ S.closedByPeer => R.half \in {"tombstone", "gone"}
         /\ S.closing = "sent" => S.failed = "no" /\ S.inFlight = {}
<1>1. R.closes \in Nat
  BY DEF Pair, Duplexes
<1>2. S.closedByPeer => R.closes > 0
  BY <1>1 DEF Pair, Link, Closed
<1> QED BY <1>2 DEF Pair, Own

(* S ends the tunnel, perhaps as its <close/> is answered. *)
LEMMA EndingKeeps ==
  ASSUME NEW S, NEW R, NEW h, NEW k, NEW q, NEW r, Pair(S, h, R, k, q, r), NEW y, NEW r2,
         Farewell(S, y) \/ Burial(S, y) \/ Departure(S, y), Own(y.st, h),
         S.failed # "no" => y.st.failed # "no",
         y.st.closing = "sent" => S.closing = "sent" \/ (Hopeful(S) /\ S.inFlight = {} /\ r2 = r),
         y.st.closing = "resolved" => \/ S.closing = "resolved"
                                      \/ S.failed = "no" /\ S.closedByPeer
                                      \/ S.closing = "sent" /\ r # <<>> /\ Head(r) = OkClose,
         \/ r2 = r
         \/ /\ r # <<>> /\ r2 = Tail(r) /\ Head(r) \in {OkClose, NoClose}
            /\ Head(r) = NoClose => y.st.half = "gone"
  PROVE  Pair(y.st, h, R, k, q \o y.out, r2)
<1> DEFINE Z == y.st
           o == y.out
<1>1. /\ S \in Duplexes /\ R \in Duplexes /\ q \in Seq(Stanzas) /\ r \in Seq(Stanzas)
      /\ Own(S, h) /\ Own(R, k) /\ Link(S, R, q, r) /\ Link(R, S, r, q)
  BY DEF Pair
<1>2. /\ Z \in Duplexes /\ o \in Seq(Stanzas) /\ Z.taken = S.taken /\ Z.refused = S.refused
      /\ Z.sent = S.sent /\ Z.inFlight = S.inFlight /\ Z.closedByPeer = S.closedByPeer /\ Z.withheld = <<>>
  BY DEF Farewell, Burial, Departure, Same, X
<1>3. /\ Single(o)
      /\ \A n \in Blocks : Replied(o, n) => OnWay(S.withheld, n)
      /\ \A n \in Blocks : ~OnWay(o, Data(n))
      /\ ~OnWay(o, OkClose) /\ ~OnWay(o, NoClose)
  BY DEF Farewell, Burial, Departure, Parting
<1>4. S.closes > 0 => Z.closes > 0
  <2>1. S.closes \in Nat /\ Z.closes \in {S.closes, S.closes + 1}
    BY <1>1 DEF Farewell, Burial, Departure, Duplexes
  <2> QED BY <2>1
<1>5. OnWay(o, CloseIq) => Z.closes > 0
  <2>1. CASE Farewell(S, y)
    <3>1. S.closes \in Nat /\ Z.closes = S.closes + 1
      BY <1>1, <2>1 DEF Farewell, Duplexes
    <3> QED BY <3>1
  <2>2. CASE Burial(S, y)
    BY <2>2 DEF Burial, Parting
  <2>3. CASE Departure(S, y)
    <3>1. S.closes \in Nat /\ Z.closes = S.closes + 1
      BY <1>1, <2>3 DEF Departure, Duplexes
    <3> QED BY <3>1
  <2> QED BY <2>1, <2>2, <2>3
<1>6. /\ Z.half = "live" => S.half = "live"
      /\ S.half = "gone" => Z.half = "gone"
      /\ S.half = "tombstone" => Z.half \in {"tombstone", "gone"}
      /\ Z.half = "tombstone" => S.half = "tombstone" \/ OnWay(o, CloseIq)
  BY DEF Farewell, Burial, Departure, Parting
<1>7. r2 \in Seq(Stanzas)
  <2>1. r # <<>> => Tail(r) \in Seq(Stanzas)
    BY <1>1
  <2> QED BY <1>1, <2>1
<1>8. \A m \in {OkClose, NoClose} : m # CloseIq /\ \A n \in Blocks : m # Data(n) /\ ~IsReply(m, n)
  <2>1. OkClose # CloseIq /\ NoClose # CloseIq /\ \A n \in Blocks : OkClose # Data(n) /\ NoClose # Data(n)
    BY Kinds, Forms DEF OkClose, NoClose, Results
  <2> QED BY <2>1, Kinds
<1>9. /\ S.closedByPeer => R.half \in {"tombstone", "gone"}
      /\ S.closing = "sent" => S.failed = "no" /\ S.inFlight = {}
  BY PeerIsOver
<1> HIDE DEF Z, o
<1>10. Link(Z, R, q \o o, r2)
  <2>1. \/ r2 = r
        \/ /\ r # <<>> /\ r2 = Tail(r)
           /\ \A n \in Blocks : ~IsReply(Head(r), n)
           /\ Head(r) = CloseIq => Z.closedByPeer \/ (OnWay(o, NoClose) /\ ~OnWay(o, CloseIq))
    BY <1>8
  <2>2. /\ S.failed # "no" => Z.failed # "no"
        /\ Z.closing = "sent" => S.closing = "sent" \/ (Hopeful(S) /\ S.inFlight = {} /\ r2 = r)
        /\ Z.closing = "resolved" => \/ S.closing = "resolved"
                                     \/ S.failed = "no" /\ S.closedByPeer
                                     \/ S.closing = "sent" /\ r # <<>> /\ Head(r) = OkClose
    BY DEF Z
  <2> QED BY <1>1, <1>2, <1>3, <1>4, <1>5, <1>9, <2>1, <2>2, SenderKeeps
<1>11. Link(R, Z, r2, q \o o)
  <2>1. \/ r2 = r
        \/ /\ r # <<>> /\ r2 = Tail(r)
           /\ \A n \in Blocks : Head(r) # Data(n)
           /\ Head(r) = NoClose => Z.half = "gone"
    BY <1>8 DEF Z
  <2> QED BY <1>1, <1>2, <1>3, <1>4, <1>5, <1>6, <2>1, ReceiverKeeps
<1>12. q \o o \in Seq(Stanzas)
  BY <1>1, <1>2
<1>13. Own(Z, h)
  BY DEF Z
<1> QED BY <1>1, <1>2, <1>7, <1>10, <1>11, <1>12, <1>13 DEF Pair, Z, o

(* S notes something down, hears an answer of no account, sends nothing of *)
(* account.                                                                *)
LEMMA NotingKeeps ==
  ASSUME NEW S, NEW R, NEW h, NEW k, NEW q, NEW r, Pair(S, h, R, k, q, r), NEW Z \in Duplexes, NEW g, NEW r2,
         NEW o \in Seq(Stanzas), Own(Z, g),
         Z.half = S.half, Z.withheld = S.withheld, Z.closes = S.closes,
         Z.taken = S.taken, Z.refused = S.refused, Z.sent = S.sent, Z.inFlight = S.inFlight,
         Z.closedByPeer = S.closedByPeer,
         S.failed # "no" => Z.failed # "no",
         Z.closing \in {"sent", "resolved"} => Z.closing = S.closing,
         Single(o), \A n \in Blocks : ~OnWay(o, Data(n)) /\ ~Replied(o, n),
         ~OnWay(o, CloseIq), ~OnWay(o, OkClose), ~OnWay(o, NoClose),
         \/ r2 = r
         \/ /\ r # <<>> /\ r2 = Tail(r) /\ Head(r) # CloseIq
            /\ \A n \in Blocks : Head(r) # Data(n) /\ ~IsReply(Head(r), n)
            /\ Head(r) = NoClose => S.half = "gone"
  PROVE  Pair(Z, g, R, k, q \o o, r2)
<1>1. /\ S \in Duplexes /\ R \in Duplexes /\ q \in Seq(Stanzas) /\ r \in Seq(Stanzas)
      /\ Own(S, h) /\ Own(R, k) /\ Link(S, R, q, r) /\ Link(R, S, r, q)
  BY DEF Pair
<1>2. r2 \in Seq(Stanzas) /\ q \o o \in Seq(Stanzas)
  <2>1. r # <<>> => Tail(r) \in Seq(Stanzas)
    BY <1>1
  <2> QED BY <1>1, <2>1
<1>3. /\ S.closedByPeer => R.half \in {"tombstone", "gone"}
      /\ S.closing = "sent" => S.failed = "no" /\ S.inFlight = {}
  BY PeerIsOver
<1>4. Link(Z, R, q \o o, r2)
  <2>1. \/ r2 = r
        \/ /\ r # <<>> /\ r2 = Tail(r)
           /\ \A n \in Blocks : ~IsReply(Head(r), n)
           /\ Head(r) = CloseIq => Z.closedByPeer \/ (OnWay(o, NoClose) /\ ~OnWay(o, CloseIq))
    OBVIOUS
  <2> QED BY <1>1, <1>3, <2>1, SenderKeeps
<1>5. Link(R, Z, r2, q \o o)
  <2>1. \/ r2 = r
        \/ /\ r # <<>> /\ r2 = Tail(r)
           /\ \A n \in Blocks : Head(r) # Data(n)
           /\ Head(r) = NoClose => Z.half = "gone"
    OBVIOUS
  <2>2. Z.half = "live" => S.half = "live"
    OBVIOUS
  <2> QED BY <1>1, <2>1, <2>2, ReceiverKeeps
<1> QED BY <1>1, <1>2, <1>4, <1>5 DEF Pair

LEMMA AbortKeeps ==
  ASSUME NEW x, Begun(x), NEW R, NEW h, NEW k, NEW q, NEW r, Pair(x.st, h, R, k, q, r), x.st.half # "none"
  PROVE  LET S == x.st  y == AbortDuplex(x)  Z == y.st IN
         /\ Pair(Z, h, R, k, q \o y.out, r)
         /\ Farewell(S, y) \/ Burial(S, y)
         /\ S.failed # "no" => Z.failed # "no"
         /\ Z.closes > 0 /\ Z.failed = "no" => S.closes > 0 /\ S.failed = "no"
         /\ Z.closing = S.closing /\ Z.half \in {"tombstone", "gone"}
<1> DEFINE S == x.st
           y == AbortDuplex(x)
           Z == y.st
<1>1. S \in Duplexes /\ Own(S, h) /\ S.half \in {"live", "tombstone", "gone"} /\ S.closes \in Nat
  BY DEF Begun, Pair, Duplexes
<1>2. /\ Farewell(S, y) \/ Burial(S, y)
      /\ S.failed # "no" => Z.failed # "no"
      /\ Z.closes > 0 /\ Z.failed = "no" => S.closes > 0 /\ S.failed = "no"
      /\ Z.closing = S.closing /\ Z.half \in {"tombstone", "gone"} /\ Own(Z, h)
  <2>1. CASE /\ ~S.closeSent /\ S.failed = "no" /\ ~S.closedByPeer
             /\ Farewell(S, y) /\ Z.closeSent /\ Z.failed = "abort" /\ Z.closing = S.closing /\ Z.aborting
    <3>1. Z.closes > 0 /\ Z.half \in {"tombstone", "gone"} /\ Z.withheld = <<>> /\ Same(S, Z) /\ Z.peerKnows
      BY <1>1, <2>1 DEF Farewell
    <3>2. Z.refused # "no" => Z.half = "gone"
      BY <1>1, <2>1, <3>1 DEF Farewell, Own, Same
    <3>3. Own(Z, h)
      BY <1>1, <2>1, <3>1, <3>2 DEF Own, Same
    <3> QED BY <2>1, <3>1, <3>3
  <2>2. CASE /\ S.closeSent \/ S.failed # "no" \/ S.closedByPeer
             /\ ~S.peerKnows
             /\ Farewell(S, y) /\ Z.closeSent = S.closeSent /\ Z.failed = S.failed /\ Z.closing = S.closing
             /\ Z.aborting
    <3>1. Z.closes > 0 /\ Z.half \in {"tombstone", "gone"} /\ Z.withheld = <<>> /\ Same(S, Z) /\ Z.peerKnows
      BY <1>1, <2>2 DEF Farewell
    <3>2. Z.refused # "no" => Z.half = "gone"
      BY <1>1, <2>2, <3>1 DEF Farewell, Own, Same
    <3>3. S.failed # "no"
      BY <1>1, <2>2 DEF Own
    <3>4. Own(Z, h)
      BY <1>1, <2>2, <3>1, <3>2, <3>3 DEF Own, Same
    <3> QED BY <2>2, <3>1, <3>3, <3>4
  <2>3. CASE Burial(S, y) /\ Rest(S, Z)
    <3>1. Z.closes = S.closes /\ Z.half = "gone" /\ Z.withheld = <<>> /\ Same(S, Z) /\ Z.peerKnows = S.peerKnows
      BY <2>3 DEF Burial
    <3>2. Own(Z, h)
      BY <1>1, <2>3, <3>1 DEF Own, Same, Rest
    <3> QED BY <2>3, <3>1, <3>2 DEF Rest
  <2> QED BY <2>1, <2>2, <2>3, AbortIs
<1> HIDE DEF y
<1>3. Pair(Z, h, R, k, q \o y.out, r)
  BY <1>2, EndingKeeps
<1> QED BY <1>2, <1>3 DEF y

-----------------------------------------------------------------------------
(* From the two ends to the whole. *)

LEMMA TwoEnds ==
  ASSUME NEW e \in Ends
  PROVE  /\ Peer(e) \in Ends /\ Peer(Peer(e)) = e /\ Peer(e) # e
         /\ \A d \in Ends : d = e \/ d = Peer(e)
         /\ e = "a" \/ e = "b"
  BY DEF Ends, Peer

LEMMA PairOf ==
  ASSUME DuplexInv, NEW e \in Ends
  PROVE  /\ Pair(end[e], HasHandle(e), end[Peer(e)], HasHandle(Peer(e)), channel[Peer(e)], channel[e])
         /\ Begun(Start(e)) /\ Start(e).st = end[e] /\ Start(e) \in X
<1>1. /\ Peer(e) \in Ends /\ Peer(Peer(e)) = e /\ end \in [Ends -> Duplexes]
      /\ channel \in [Ends -> Seq(Stanzas)] /\ LinkOf(e) /\ LinkOf(Peer(e))
      /\ Own(end[e], HasHandle(e)) /\ Own(end[Peer(e)], HasHandle(Peer(e)))
  BY TwoEnds DEF DuplexInv, Typed
<1>2. Pair(end[e], HasHandle(e), end[Peer(e)], HasHandle(Peer(e)), channel[Peer(e)], channel[e])
  BY <1>1 DEF Pair, LinkOf
<1>3. Start(e).st = end[e] /\ Start(e).out = <<>> /\ Start(e) \in X
  <2>1. <<>> \in Seq(Stanzas)
    OBVIOUS
  <2> QED BY <1>1, <2>1 DEF Start, X
<1>4. Distinct(end[e].withheld) /\ (end[e].half # "live" => end[e].withheld = <<>>)
  BY <1>1 DEF LinkOf, Link, Carried, Own, Distinct
<1> QED BY <1>2, <1>3, <1>4 DEF Begun

Rear(e, consumed) == IF consumed THEN Tail(channel[e]) ELSE channel[e]

LEMMA Stretched ==
  ASSUME Typed, NEW e \in Ends, NEW x, NEW consumed \in BOOLEAN, Stretch(e, x, consumed)
  PROVE  /\ end'[e] = x.st /\ end'[Peer(e)] = end[Peer(e)] /\ end' = [end EXCEPT ![e] = x.st]
         /\ channel'[Peer(e)] = channel[Peer(e)] \o x.out /\ channel'[e] = Rear(e, consumed)
         /\ DOMAIN channel' = Ends /\ channel' = [d \in Ends |-> channel'[d]]
         /\ faults' = faults
<1>1. Peer(e) \in Ends /\ Peer(e) # e /\ DOMAIN end = Ends /\ DOMAIN channel = Ends
  BY TwoEnds DEF Typed
<1> QED BY <1>1 DEF Stretch, Rear

LEMMA StretchKeeps ==
  ASSUME DuplexInv, NEW e \in Ends, NEW x, NEW consumed \in BOOLEAN, Stretch(e, x, consumed),
         Pair(x.st, HasHandle(e)', end[Peer(e)], HasHandle(Peer(e)), channel[Peer(e)] \o x.out, Rear(e, consumed)),
         HasHandle(Peer(e))' = HasHandle(Peer(e)),
         opening' \in {"no", "asked", "open", "discarded"}, expects' \in {"no", "waiting", "over"},
         parked' \in BOOLEAN, accepting' \in BOOLEAN
  PROVE  Typed' /\ \A d \in Ends : Own(end[d], HasHandle(d))' /\ LinkOf(d)'
<1> DEFINE p == Peer(e)
<1>1. p \in Ends /\ Peer(p) = e /\ \A d \in Ends : d = e \/ d = p
  BY TwoEnds
<1>2. Typed
  BY DEF DuplexInv
<1>3. /\ end'[e] = x.st /\ end'[p] = end[p]
      /\ channel'[p] = channel[p] \o x.out /\ channel'[e] = Rear(e, consumed) /\ faults' = faults
  BY <1>2, Stretched
<1>31. end' = [end EXCEPT ![e] = x.st]
  BY DEF Stretch
<1>30. channel' = [d \in Ends |-> channel'[d]]
  BY <1>2, Stretched
<1>4. /\ x.st \in Duplexes /\ channel'[p] \in Seq(Stanzas) /\ channel'[e] \in Seq(Stanzas)
      /\ Own(end'[e], HasHandle(e)') /\ Own(end'[p], HasHandle(p)')
      /\ Link(end'[e], end'[p], channel'[p], channel'[e]) /\ Link(end'[p], end'[e], channel'[e], channel'[p])
  BY <1>3 DEF Pair
<1> HIDE DEF p
<1>5. end' \in [Ends -> Duplexes]
  BY <1>2, <1>31, <1>4 DEF Typed
<1>6. channel' \in [Ends -> Seq(Stanzas)]
  BY <1>1, <1>30, <1>4
<1>7. Typed'
  BY <1>2, <1>3, <1>5, <1>6 DEF Typed
<1>8. LinkOf(e)' /\ LinkOf(p)'
  BY <1>1, <1>4 DEF LinkOf, p
<1>9. Own(end[e], HasHandle(e))' /\ Own(end[p], HasHandle(p))'
  BY <1>4
<1> QED BY <1>1, <1>7, <1>8, <1>9

Quiet(o) == ~OnWay(o, Open) /\ \A res \in Results : ~OnWay(o, Answer(Open, res))

(* An action of one end, once the tunnel opens. *)
LEMMA ActionKeeps ==
  ASSUME DuplexInv, NEW e \in Ends, NEW x, NEW consumed \in BOOLEAN, Stretch(e, x, consumed), Opens,
         consumed => channel[e] # <<>>, x.out \in Seq(Stanzas), Quiet(x.out),
         Pair(x.st, HasHandle(e), end[Peer(e)], HasHandle(Peer(e)), channel[Peer(e)] \o x.out, Rear(e, consumed)),
         x.st.half = "none" <=> end[e].half = "none",
         x.st.closes > 0 /\ x.st.failed = "no" =>
           HasHandle(e) \/ (end[e].closes > 0 /\ end[e].failed = "no")
  PROVE  DuplexInv'
<1> DEFINE p == Peer(e)
<1>1. p \in Ends /\ Peer(p) = e /\ (\A d \in Ends : d = e \/ d = p) /\ p # e /\ (e = "a" \/ e = "b")
  BY TwoEnds
<1>2. Typed /\ OpenOf
  BY DEF DuplexInv
<1>3. /\ end'[e] = x.st /\ end'[p] = end[p]
      /\ channel'[p] = channel[p] \o x.out /\ channel'[e] = Rear(e, consumed)
  BY <1>2, Stretched
<1>4. /\ opening' = opening /\ expects' = expects /\ parked' = parked /\ accepting' = accepting
  BY DEF Opens
<1>5. HasHandle(e)' = HasHandle(e) /\ HasHandle(p)' = HasHandle(p)
  BY <1>1, <1>3, <1>4 DEF HasHandle, Ends
<1>6. Typed' /\ \A d \in Ends : Own(end[d], HasHandle(d))' /\ LinkOf(d)'
  <2>1. /\ opening' \in {"no", "asked", "open", "discarded"} /\ expects' \in {"no", "waiting", "over"}
        /\ parked' \in BOOLEAN /\ accepting' \in BOOLEAN
    BY <1>2, <1>4 DEF Typed
  <2> QED BY <1>5, <2>1, StretchKeeps
<1>7. \A m : OnWay(channel'[e], m) => OnWay(channel[e], m)
  <2>1. channel[e] \in Seq(Stanzas)
    BY <1>2 DEF Typed
  <2>2. CASE consumed
    BY <1>3, <2>1, <2>2, Behind DEF Rear
  <2>3. CASE ~consumed
    BY <1>3, <2>3 DEF Rear
  <2> QED BY <2>2, <2>3
<1>8. \A m : OnWay(channel'[p], m) => OnWay(channel[p], m) \/ OnWay(x.out, m)
  <2>1. channel[p] \in Seq(Stanzas)
    BY <1>1, <1>2 DEF Typed
  <2> QED BY <1>3, <2>1, Joined
<1>9. /\ \A d \in Ends : OnWay(channel'[d], Open) => OnWay(channel[d], Open)
      /\ \A d \in Ends : OnWay(channel'[d], Answer(Open, "ok")) => OnWay(channel[d], Answer(Open, "ok"))
  BY <1>1, <1>7, <1>8 DEF Quiet, Results
<1>10. \A d \in Ends : end'[d].half = "none" <=> end[d].half = "none"
  BY <1>1, <1>3
<1>11. opening = "asked" /\ end'["a"].closes > 0 => end'["a"].failed # "no"
  <2>1. CASE e = "a"
    <3>1. ~HasHandle(e) \/ opening # "asked"
      BY <2>1 DEF HasHandle
    <3>2. end'["a"] = x.st /\ end[e] = end["a"]
      BY <1>3, <2>1
    <3> QED BY <1>2, <3>1, <3>2 DEF OpenOf
  <2>2. CASE p = "a"
    <3>1. end'["a"] = end["a"]
      BY <1>3, <2>2
    <3> QED BY <1>2, <3>1 DEF OpenOf
  <2> QED BY <1>1, <2>1, <2>2 DEF Ends
<1>12. "a" \in Ends /\ "b" \in Ends
  BY DEF Ends
<1>13. OpenOf'
  BY <1>2, <1>4, <1>9, <1>10, <1>11, <1>12 DEF OpenOf
<1> QED BY <1>6, <1>13 DEF DuplexInv

LEMMA HandleHasHalf ==
  ASSUME DuplexInv, NEW e \in Ends, HasHandle(e)
  PROVE  end[e].half # "none"
  BY TwoEnds DEF DuplexInv, OpenOf, HasHandle

LEMMA EndingActs ==
  ASSUME DuplexInv, NEW e \in Ends, NEW x, NEW consumed \in BOOLEAN, Stretch(e, x, consumed), Opens,
         Farewell(end[e], x) \/ Burial(end[e], x), Own(x.st, HasHandle(e)), end[e].half # "none",
         end[e].failed # "no" => x.st.failed # "no",
         x.st.closing = "sent" => end[e].closing = "sent" \/ (Hopeful(end[e]) /\ end[e].inFlight = {} /\ ~consumed),
         x.st.closing = "resolved" => \/ end[e].closing = "resolved"
                                      \/ end[e].failed = "no" /\ end[e].closedByPeer
                                      \/ end[e].closing = "sent" /\ consumed /\ Head(channel[e]) = OkClose,
         consumed => /\ channel[e] # <<>> /\ Head(channel[e]) \in {OkClose, NoClose}
                     /\ Head(channel[e]) = NoClose => x.st.half = "gone",
         x.st.closes > 0 /\ x.st.failed = "no" => HasHandle(e) \/ (end[e].closes > 0 /\ end[e].failed = "no")
  PROVE  DuplexInv'
<1>1. Pair(end[e], HasHandle(e), end[Peer(e)], HasHandle(Peer(e)), channel[Peer(e)], channel[e])
  BY PairOf
<1>2. x.out \in Seq(Stanzas) /\ Quiet(x.out)
  BY DEF Farewell, Burial, Parting, Quiet
<1>3. x.st.half # "none"
  BY DEF Farewell, Burial
<1>4. Pair(x.st, HasHandle(e), end[Peer(e)], HasHandle(Peer(e)), channel[Peer(e)] \o x.out, Rear(e, consumed))
  <2>1. CASE consumed
    <3>1. Rear(e, consumed) = Tail(channel[e]) /\ channel[e] # <<>> /\ Head(channel[e]) \in {OkClose, NoClose}
          /\ (Head(channel[e]) = NoClose => x.st.half = "gone")
      BY <2>1 DEF Rear
    <3>2. x.st.closing = "sent" => end[e].closing = "sent"
      BY <2>1
    <3> QED BY <1>1, <3>1, <3>2, EndingKeeps
  <2>2. CASE ~consumed
    <3>1. Rear(e, consumed) = channel[e]
      BY <2>2 DEF Rear
    <3>2. x.st.closing = "resolved" => \/ end[e].closing = "resolved"
                                       \/ end[e].failed = "no" /\ end[e].closedByPeer
      BY <2>2
    <3> QED BY <1>1, <2>2, <3>1, <3>2, EndingKeeps
  <2> QED BY <2>1, <2>2
<1> QED BY <1>2, <1>3, <1>4, ActionKeeps

LEMMA WriteKeeps ==
  ASSUME DuplexInv, NEW e \in Ends, Write(e)
  PROVE  DuplexInv'
<1> DEFINE S == end[e]
           R == end[Peer(e)]
           q == channel[Peer(e)]
           r == channel[e]
           n == S.sent + 1
           Z == [S EXCEPT !.sent = n, !.inFlight = S.inFlight \cup {n}]
           o == <<Data(n)>>
           x == Puts([Start(e) EXCEPT !.st.sent = n, !.st.inFlight = @ \cup {n}], o)
<1>1. /\ HasHandle(e) /\ n \in Blocks /\ S.failed = "no" /\ ~S.closedByPeer /\ S.closing = "no"
      /\ Stretch(e, x, FALSE) /\ Opens
  BY DEF Write, Does
<1>2. Pair(S, HasHandle(e), R, HasHandle(Peer(e)), q, r) /\ Start(e).st = S /\ Start(e).out = <<>>
  BY PairOf DEF Start
<1>3. S.half # "none"
  BY <1>1, HandleHasHalf
<1>4. S \in Duplexes /\ R \in Duplexes /\ q \in Seq(Stanzas) /\ r \in Seq(Stanzas) /\ Own(S, HasHandle(e))
      /\ Own(R, HasHandle(Peer(e))) /\ Link(S, R, q, r) /\ Link(R, S, r, q)
  BY <1>2 DEF Pair
<1>5. x.st = Z /\ x.out = <<>> \o o
  BY <1>2 DEF Puts, Start
<1> HIDE DEF S, R, q, r
<1>6. /\ o \in Seq(Stanzas) /\ Single(o) /\ (\A m : OnWay(o, m) <=> m = Data(n))
      /\ \A m \in Blocks : ~Replied(o, m)
  BY <1>1, Alone, Kinds, Forms
<1>7. Z \in Duplexes
  <2>1. n \in 0..MaxBlocks /\ S.inFlight \cup {n} \subseteq Blocks
    BY <1>1, <1>4, DuplexAssumption DEF Duplexes, Blocks
  <2> QED BY <1>4, <2>1 DEF Duplexes
<1>8. /\ Z.half = S.half /\ Z.withheld = S.withheld /\ Z.taken = S.taken /\ Z.refused = S.refused
      /\ Z.closedByPeer = S.closedByPeer /\ Z.closes = S.closes /\ Z.closing = "no" /\ Z.failed = "no"
      /\ Z.aborting = S.aborting /\ Z.peerKnows = S.peerKnows /\ Z.closeSent = S.closeSent /\ Z.onFailDue = S.onFailDue
  BY <1>1, <1>4 DEF Duplexes
<1>9. Link(Z, R, q \o o, r)
  BY <1>1, <1>4, <1>7, SenderWrites
<1> HIDE DEF Z, o, x
<1>10. \A m \in {OkClose, NoClose, CloseIq, Open} \cup {Answer(Open, res) : res \in Results} : ~OnWay(o, m)
  BY <1>1, <1>6, Kinds, Forms DEF OkClose, NoClose, Results
<1>11. Link(R, Z, r, q \o o)
  BY <1>4, <1>6, <1>7, <1>8, <1>10, ReceiverKeeps
<1>12. Own(Z, HasHandle(e))
  BY <1>1, <1>3, <1>4, <1>8 DEF Own
<1>13. <<>> \o o = o /\ q \o o \in Seq(Stanzas)
  BY <1>4, <1>6
<1>14. Pair(x.st, HasHandle(e), R, HasHandle(Peer(e)), q \o x.out, Rear(e, FALSE))
  BY <1>4, <1>5, <1>7, <1>9, <1>11, <1>12, <1>13 DEF Pair, Rear, r
<1>15. x.out \in Seq(Stanzas) /\ Quiet(x.out)
  BY <1>5, <1>6, <1>10, <1>13 DEF Quiet
<1>16. x.st.half = "none" <=> S.half = "none"
  BY <1>5, <1>8
<1> QED BY <1>1, <1>14, <1>15, <1>16, ActionKeeps DEF S, R, q

LEMMA AbortActs ==
  ASSUME DuplexInv, NEW e \in Ends, Abort(e)
  PROVE  DuplexInv'
<1>1. HasHandle(e) /\ Stretch(e, AbortDuplex(Start(e)), FALSE) /\ Opens
  BY DEF Abort, Does
<1>2. /\ Pair(end[e], HasHandle(e), end[Peer(e)], HasHandle(Peer(e)), channel[Peer(e)], channel[e])
      /\ Begun(Start(e)) /\ Start(e).st = end[e]
  BY PairOf
<1>3. end[e].half # "none"
  BY <1>1, HandleHasHalf
<1> DEFINE y == AbortDuplex(Start(e))
<1>4. /\ Pair(y.st, HasHandle(e), end[Peer(e)], HasHandle(Peer(e)), channel[Peer(e)] \o y.out, channel[e])
      /\ Farewell(end[e], y) \/ Burial(end[e], y)
      /\ y.st.half \in {"tombstone", "gone"}
  BY <1>2, <1>3, AbortKeeps
<1> HIDE DEF y
<1>5. y.out \in Seq(Stanzas) /\ Quiet(y.out)
  BY <1>4 DEF Farewell, Burial, Parting, Quiet
<1>6. Stretch(e, y, FALSE) /\ Rear(e, FALSE) = channel[e]
  BY <1>1 DEF y, Rear
<1> QED BY <1>1, <1>3, <1>4, <1>5, <1>6, ActionKeeps

LEMMA OnFailActs ==
  ASSUME DuplexInv, NEW e \in Ends, OnFail(e)
  PROVE  DuplexInv'
<1> DEFINE x == [Start(e) EXCEPT !.st.onFailDue = FALSE]
           y == AbortDuplex(x)
           S == end[e]
<1>1. S.onFailDue /\ S.refused # "due" /\ Stretch(e, y, FALSE) /\ Opens
  BY DEF OnFail, Does
<1>2. /\ Pair(S, HasHandle(e), end[Peer(e)], HasHandle(Peer(e)), channel[Peer(e)], channel[e])
      /\ Begun(Start(e)) /\ Start(e).st = S /\ Start(e) \in X /\ Start(e).out = <<>>
  BY PairOf DEF Start
<1>3. S \in Duplexes /\ Own(S, HasHandle(e)) /\ channel[Peer(e)] \in Seq(Stanzas)
  BY <1>2 DEF Pair
<1>4. S.half # "none"
  BY <1>1, <1>3 DEF Own, Untouched
<1>5. x.st = [S EXCEPT !.onFailDue = FALSE] /\ x.out = <<>>
  BY <1>2 DEF X, Duplexes
<1>6. x \in X
  BY <1>2, <1>5 DEF X, Duplexes
<1> HIDE DEF x, S
<1>7. /\ x.st \in Duplexes
      /\ x.st.half = S.half /\ x.st.withheld = S.withheld /\ x.st.closes = S.closes
      /\ x.st.taken = S.taken /\ x.st.refused = S.refused /\ x.st.sent = S.sent /\ x.st.inFlight = S.inFlight
      /\ x.st.closedByPeer = S.closedByPeer /\ x.st.failed = S.failed /\ x.st.closing = S.closing
      /\ x.st.aborting = S.aborting /\ x.st.peerKnows = S.peerKnows /\ x.st.closeSent = S.closeSent
  BY <1>3, <1>5 DEF Duplexes
<1>8. Own(x.st, HasHandle(e))
  BY <1>1, <1>3, <1>4, <1>7 DEF Own
<1>9. Begun(x)
  BY <1>2, <1>5, <1>6, <1>7 DEF Begun
<1>10. Pair(x.st, HasHandle(e), end[Peer(e)], HasHandle(Peer(e)), channel[Peer(e)] \o <<>>, channel[e])
  BY <1>2, <1>7, <1>8, Nothing, NotingKeeps
<1>11. Pair(x.st, HasHandle(e), end[Peer(e)], HasHandle(Peer(e)), channel[Peer(e)], channel[e])
  <2>1. channel[Peer(e)] \o <<>> = channel[Peer(e)]
    BY <1>3
  <2> QED BY <1>10, <2>1
<1>12. x.st.half # "none"
  BY <1>4, <1>7
<1>13. /\ Pair(y.st, HasHandle(e), end[Peer(e)], HasHandle(Peer(e)), channel[Peer(e)] \o y.out, channel[e])
       /\ Farewell(x.st, y) \/ Burial(x.st, y)
       /\ y.st.closes > 0 /\ y.st.failed = "no" => S.closes > 0 /\ S.failed = "no"
       /\ y.st.half \in {"tombstone", "gone"}
  BY <1>7, <1>9, <1>11, <1>12, AbortKeeps
<1> HIDE DEF y
<1>14. y.out \in Seq(Stanzas) /\ Quiet(y.out)
  BY <1>13 DEF Farewell, Burial, Parting, Quiet
<1>15. Rear(e, FALSE) = channel[e]
  BY DEF Rear
<1> QED BY <1>1, <1>4, <1>13, <1>14, <1>15, ActionKeeps DEF S


(* A close() that fails, or that finds the tunnel closed. *)
LEMMA FailingActs ==
  ASSUME DuplexInv, NEW e \in Ends, Stretch(e, CloseFails(Start(e)), FALSE), Opens,
         HasHandle(e), end[e].failed # "no"
  PROVE  DuplexInv'
<1> DEFINE S == end[e]
           y == CloseFails(Start(e))
<1>1. Begun(Start(e)) /\ Start(e).st = S
  BY PairOf
<1>2. /\ y.st.failed = S.failed /\ y.st.closeSent = S.closeSent /\ y.st.aborting = S.aborting
      /\ \/ S.peerKnows /\ Burial(S, y) /\ y.st.closing = "rejected"
         \/ ~S.peerKnows /\ Farewell(S, y) /\ y.st.closing = "telling"
  BY <1>1, CloseFailsIs
<1>3. S.half # "none" /\ S \in Duplexes /\ Own(S, HasHandle(e)) /\ S.closes \in Nat
  BY HandleHasHalf DEF DuplexInv, Typed, Duplexes
<1>4. Stretch(e, y, FALSE)
  OBVIOUS
<1> HIDE DEF y
<1>5. Own(y.st, HasHandle(e))
  <2>1. CASE Burial(S, y) /\ y.st.closing = "rejected"
    <3>1. /\ y.st.closes = S.closes /\ y.st.half = "gone" /\ y.st.withheld = <<>> /\ Same(S, y.st)
          /\ y.st.peerKnows = S.peerKnows
      BY <2>1 DEF Burial
    <3> QED BY <1>2, <1>3, <2>1, <3>1 DEF Own, Same
  <2>2. CASE Farewell(S, y) /\ y.st.closing = "telling"
    <3>1. y.st.closes > 0 /\ y.st.half \in {"tombstone", "gone"} /\ y.st.withheld = <<>> /\ Same(S, y.st) /\ y.st.peerKnows
      BY <1>3, <2>2 DEF Farewell, Duplexes
    <3>2. y.st.refused # "no" => y.st.half = "gone"
      BY <1>3, <2>2 DEF Farewell, Own, Same
    <3> QED BY <1>2, <1>3, <2>2, <3>1, <3>2 DEF Own, Same
  <2> QED BY <1>2, <2>1, <2>2
<1>6. (Farewell(S, y) \/ Burial(S, y)) /\ y.st.closing \notin {"sent", "resolved"} /\ y.st.failed # "no"
  BY <1>2
<1> QED BY <1>3, <1>4, <1>5, <1>6, EndingActs DEF S

LEMMA ResolvingActs ==
  ASSUME DuplexInv, NEW e \in Ends, NEW consumed \in BOOLEAN, Stretch(e, CloseResolves(Start(e)), consumed), Opens,
         HasHandle(e), end[e].failed = "no",
         \/ end[e].closedByPeer
         \/ end[e].closing = "sent" /\ consumed /\ Head(channel[e]) = OkClose,
         consumed => channel[e] # <<>> /\ Head(channel[e]) \in {OkClose, NoClose}
  PROVE  DuplexInv'
<1> DEFINE S == end[e]
           y == CloseResolves(Start(e))
<1>1. Begun(Start(e)) /\ Start(e).st = S
  BY PairOf
<1>2. S.half # "none" /\ S \in Duplexes /\ Own(S, HasHandle(e)) /\ S.closes \in Nat
  BY HandleHasHalf DEF DuplexInv, Typed, Duplexes
<1>3. S.half # "live"
  BY <1>2 DEF Own
<1>4. /\ Burial(S, y) /\ y.st.closing = "resolved" /\ y.st.failed = S.failed
      /\ y.st.closeSent = S.closeSent /\ y.st.aborting = S.aborting
  <2> DEFINE z == RemoveTombstone([Start(e) EXCEPT !.st.closing = "resolved"])
  <2>1. /\ Burial(Start(e).st, z) /\ z.st.closing = "resolved" /\ z.st.failed = Start(e).st.failed
        /\ z.st.closeSent = Start(e).st.closeSent /\ z.st.aborting = Start(e).st.aborting
    BY <1>1, <1>3, ReturnedIs
  <2>2. y = z
    BY DEF CloseResolves
  <2> QED BY <1>1, <2>1, <2>2
<1>5. Stretch(e, y, consumed)
  OBVIOUS
<1> HIDE DEF y
<1>6. /\ y.st.closes = S.closes /\ y.st.half = "gone" /\ y.st.withheld = <<>> /\ Same(S, y.st)
      /\ y.st.peerKnows = S.peerKnows
  BY <1>4 DEF Burial
<1>7. Own(y.st, HasHandle(e))
  BY <1>2, <1>4, <1>6 DEF Own, Same
<1>8. y.st.closing = "resolved" => \/ S.closing = "resolved"
                                   \/ S.failed = "no" /\ S.closedByPeer
                                   \/ S.closing = "sent" /\ consumed /\ Head(channel[e]) = OkClose
  OBVIOUS
<1>9. consumed => /\ channel[e] # <<>> /\ Head(channel[e]) \in {OkClose, NoClose}
                  /\ Head(channel[e]) = NoClose => y.st.half = "gone"
  BY <1>6
<1> QED BY <1>2, <1>4, <1>5, <1>7, <1>8, <1>9, EndingActs DEF S

LEMMA CloseActs ==
  ASSUME DuplexInv, NEW e \in Ends, Close(e)
  PROVE  DuplexInv'
<1> DEFINE S == end[e]
           x == [Start(e) EXCEPT !.st.closing = "draining"]
<1>1. /\ HasHandle(e) /\ S.closing = "no" /\ Opens
      /\ Stretch(e, IF S.failed # "no" THEN CloseFails(Start(e))
                    ELSE IF S.closedByPeer THEN CloseResolves(Start(e)) ELSE x, FALSE)
  BY DEF Close, Does
<1>2. CASE S.failed # "no"
  BY <1>1, <1>2, FailingActs
<1>3. CASE S.failed = "no" /\ S.closedByPeer
  BY <1>1, <1>3, ResolvingActs
<1>4. CASE S.failed = "no" /\ ~S.closedByPeer
  <2>1. Stretch(e, x, FALSE)
    BY <1>1, <1>4
  <2>2. /\ Pair(S, HasHandle(e), end[Peer(e)], HasHandle(Peer(e)), channel[Peer(e)], channel[e])
        /\ Start(e).st = S /\ Start(e) \in X /\ Start(e).out = <<>>
    BY PairOf DEF Start
  <2>3. S \in Duplexes /\ Own(S, HasHandle(e)) /\ channel[Peer(e)] \in Seq(Stanzas)
    BY <2>2 DEF Pair
  <2>4. S.half # "none"
    BY <1>1, HandleHasHalf
  <2>5. x.st = [S EXCEPT !.closing = "draining"] /\ x.out = <<>>
    BY <2>2 DEF X, Duplexes
  <2> HIDE DEF x, S
  <2>6. /\ x.st \in Duplexes
        /\ x.st.half = S.half /\ x.st.withheld = S.withheld /\ x.st.closes = S.closes
        /\ x.st.taken = S.taken /\ x.st.refused = S.refused /\ x.st.sent = S.sent /\ x.st.inFlight = S.inFlight
        /\ x.st.closedByPeer = S.closedByPeer /\ x.st.failed = S.failed /\ x.st.closing = "draining"
        /\ x.st.aborting = S.aborting /\ x.st.peerKnows = S.peerKnows /\ x.st.closeSent = S.closeSent /\ x.st.onFailDue = S.onFailDue
    BY <2>3, <2>5 DEF Duplexes
  <2>7. S.closes = 0
    <3>1. S.closes \in Nat
      BY <2>3 DEF Duplexes
    <3>2. ~(S.closes > 0)
      BY <1>1, <1>4, <2>3 DEF Own, S
    <3> QED BY <3>1, <3>2
  <2>8. Own(x.st, HasHandle(e))
    BY <1>1, <2>3, <2>4, <2>6, <2>7 DEF Own
  <2>9. Pair(x.st, HasHandle(e), end[Peer(e)], HasHandle(Peer(e)), channel[Peer(e)] \o <<>>, channel[e])
    BY <2>2, <2>6, <2>8, Nothing, NotingKeeps
  <2>10. Rear(e, FALSE) = channel[e] /\ x.out \in Seq(Stanzas) /\ Quiet(x.out)
    BY <2>5, Nothing DEF Rear, Quiet
  <2> QED BY <1>1, <2>1, <2>5, <2>6, <2>9, <2>10, ActionKeeps DEF S
<1> QED BY <1>2, <1>3, <1>4, PairOf

LEMMA CloseDrainedActs ==
  ASSUME DuplexInv, NEW e \in Ends, CloseDrained(e)
  PROVE  DuplexInv'
<1> DEFINE S == end[e]
           x == [Start(e) EXCEPT !.st.closing = "sent"]
           y == CloseStream(x)
<1>1. /\ S.closing = "draining" /\ Opens
      /\ S.inFlight = {} \/ S.closedByPeer \/ S.failed = "abort"
      /\ Stretch(e, IF S.failed # "no" THEN CloseFails(Start(e))
                    ELSE IF S.closedByPeer THEN CloseResolves(Start(e)) ELSE y, FALSE)
  BY DEF CloseDrained, Does
<1>2. /\ Pair(S, HasHandle(e), end[Peer(e)], HasHandle(Peer(e)), channel[Peer(e)], channel[e])
      /\ Start(e).st = S /\ Start(e) \in X /\ Begun(Start(e)) /\ Start(e).out = <<>>
  BY PairOf DEF Start
<1>3. S \in Duplexes /\ Own(S, HasHandle(e)) /\ S.closes \in Nat
  BY <1>2 DEF Pair, Duplexes
<1>4. HasHandle(e)
  BY <1>1, <1>3 DEF Own
<1>5. S.half # "none"
  BY <1>4, HandleHasHalf
<1>6. CASE S.failed # "no"
  BY <1>1, <1>4, <1>6, FailingActs
<1>7. CASE S.failed = "no" /\ S.closedByPeer
  BY <1>1, <1>4, <1>7, ResolvingActs
<1>8. CASE S.failed = "no" /\ ~S.closedByPeer
  <2>1. Stretch(e, y, FALSE) /\ S.inFlight = {}
    BY <1>1, <1>8
  <2>2. Hopeful(S)
    <3>1. ~(S.closes > 0)
      BY <1>1, <1>3, <1>4, <1>8 DEF Own
    <3> QED BY <1>3, <1>8, <3>1 DEF Hopeful
  <2>3. x.st = [S EXCEPT !.closing = "sent"] /\ x.out = <<>>
    BY <1>2 DEF X, Duplexes
  <2>4. x \in X
    BY <1>2, <2>3 DEF X, Duplexes
  <2> HIDE DEF x, S
  <2>5. /\ Same(S, x.st) /\ x.st.half = S.half /\ x.st.withheld = S.withheld /\ x.st.closes = S.closes
        /\ x.st.failed = S.failed /\ x.st.closing = "sent"
    BY <1>3, <2>3 DEF Duplexes, Same
  <2>6. Begun(x)
    BY <1>2, <2>3, <2>4, <2>5 DEF Begun
  <2>7. /\ Farewell(x.st, y) /\ y.st.closeSent /\ y.st.failed = "no" /\ y.st.closing = "sent"
    BY <1>8, <2>5, <2>6, CloseStreamIs DEF S
  <2> HIDE DEF y
  <2>8. Farewell(S, y)
    BY <2>5, <2>7 DEF Farewell, Same
  <2>9. /\ y.st.closes > 0 /\ y.st.half \in {"tombstone", "gone"} /\ y.st.withheld = <<>> /\ Same(S, y.st)
        /\ y.st.peerKnows
    BY <1>3, <1>5, <2>8 DEF Farewell, Duplexes, S
  <2>10. y.st.refused # "no" => y.st.half = "gone"
    BY <1>3, <2>8, <2>9 DEF Farewell, Own, Same
  <2>11. Own(y.st, HasHandle(e))
    BY <1>3, <1>4, <2>1, <2>7, <2>9, <2>10 DEF Own, Same
  <2>12. Stretch(e, y, FALSE) /\ Hopeful(end[e]) /\ end[e].inFlight = {} /\ end[e].failed = "no"
    BY <1>8, <2>1, <2>2 DEF S, y
  <2>13. Farewell(end[e], y)
    BY <2>8 DEF S
  <2>14. end[e].half # "none"
    BY <1>5 DEF S
  <2> QED BY <1>1, <1>4, <2>7, <2>11, <2>12, <2>13, <2>14, EndingActs
<1> QED BY <1>6, <1>7, <1>8

(* The half is finished under a live reader: x.st.half = "live". *)
LEMMA FinishIs ==
  ASSUME NEW x \in X, x.out = <<>>, x.st.half = "live", NEW error \in BOOLEAN
  PROVE  LET y == FinishInStream(x, error) IN
         /\ y \in X /\ y.st = [x.st EXCEPT !.withheld = <<>>, !.half = "gone", !.onFailDue = error]
         /\ y.out = Answers(x.st.withheld, "not-found")
<1> DEFINE y == FinishInStream(x, error)
           k == WakeHandlers(x, "not-found")
<1>1. k \in X /\ k.st = [x.st EXCEPT !.withheld = <<>>] /\ k.out = Answers(x.st.withheld, "not-found")
  BY WakeIs DEF Results
<1>2. y = [k EXCEPT !.st.half = "gone", !.st.onFailDue = error]
  BY DEF FinishInStream
<1>3. k \in X
  BY <1>1
<1> HIDE DEF k, y
<1>4. y.st = [k.st EXCEPT !.half = "gone", !.onFailDue = error] /\ y.out = k.out
  BY <1>2, <1>3 DEF X, Duplexes
<1>5. y \in X
  BY <1>2, <1>3, <1>4 DEF X, Duplexes
<1>6. x.st \in Duplexes /\ <<>> \in Seq(Blocks)
  BY DEF X
<1>7. k.st = [x.st EXCEPT !.withheld = <<>>]
  BY <1>1
<1>8. y.st = [x.st EXCEPT !.withheld = <<>>, !.half = "gone", !.onFailDue = error]
  BY <1>4, <1>6, <1>7 DEF Duplexes
<1> QED BY <1>1, <1>4, <1>5, <1>8 DEF y

(* The blocks a live half withheld are answered, and it goes or stays. *)
LEMMA WakingKeeps ==
  ASSUME NEW S, NEW R, NEW h, NEW k, NEW q, NEW r, Pair(S, h, R, k, q, r), S.half = "live",
         NEW Z \in Duplexes, NEW res \in Results, Own(Z, h),
         Z.half \in {"live", "gone"}, Z.withheld = <<>>, Z.closes = S.closes,
         Z.taken = S.taken, Z.refused = S.refused, Z.sent = S.sent, Z.inFlight = S.inFlight,
         Z.closedByPeer = S.closedByPeer, Z.failed = S.failed, Z.closing = S.closing,
         NEW o, o = Answers(S.withheld, res)
  PROVE  o \in Seq(Stanzas) /\ Quiet(o) /\ Pair(Z, h, R, k, q \o o, r)
<1>1. /\ S \in Duplexes /\ R \in Duplexes /\ q \in Seq(Stanzas) /\ r \in Seq(Stanzas)
      /\ Own(S, h) /\ Own(R, k) /\ Link(S, R, q, r) /\ Link(R, S, r, q) /\ S.withheld \in Seq(Blocks)
  BY DEF Pair, Duplexes
<1>2. Distinct(S.withheld)
  BY <1>1 DEF Link, Carried, Distinct
<1>3. Parting(S.withheld, o, "ok", FALSE) \/ Parting(S.withheld, o, res, FALSE)
  BY <1>1, <1>2, PartingForms
<1>4. /\ o \in Seq(Stanzas) /\ Single(o) /\ ~OnWay(o, CloseIq) /\ ~OnWay(o, OkClose) /\ ~OnWay(o, NoClose)
      /\ Quiet(o)
      /\ \A n \in Blocks : ~OnWay(o, Data(n)) /\ (Replied(o, n) => OnWay(S.withheld, n))
  BY <1>3 DEF Parting, Quiet
<1>5. /\ S.closedByPeer => R.half \in {"tombstone", "gone"}
      /\ S.closing = "sent" => S.failed = "no" /\ S.inFlight = {}
  BY PeerIsOver
<1>6. Link(Z, R, q \o o, r)
  BY <1>1, <1>4, <1>5, SenderKeeps
<1>7. Link(R, Z, r, q \o o)
  BY <1>1, <1>4, ReceiverKeeps
<1>8. q \o o \in Seq(Stanzas)
  BY <1>1, <1>4
<1> QED BY <1>1, <1>4, <1>6, <1>7, <1>8 DEF Pair

LEMMA PullActs ==
  ASSUME DuplexInv, NEW e \in Ends, Pull(e)
  PROVE  DuplexInv'
<1> DEFINE S == end[e]
           y == WakeHandlers(Start(e), "ok")
<1>1. S.half = "live" /\ Stretch(e, y, FALSE) /\ Opens
  BY DEF Pull, Does
<1>2. /\ Pair(S, HasHandle(e), end[Peer(e)], HasHandle(Peer(e)), channel[Peer(e)], channel[e])
      /\ Start(e).st = S /\ Start(e) \in X /\ Start(e).out = <<>>
  BY PairOf DEF Start
<1>3. S \in Duplexes /\ Own(S, HasHandle(e))
  BY <1>2 DEF Pair
<1>4. y \in X /\ y.st = [S EXCEPT !.withheld = <<>>] /\ y.out = Answers(S.withheld, "ok")
  BY <1>2, WakeIs DEF Results
<1> HIDE DEF y, S
<1>5. y.st \in Duplexes
  BY <1>4 DEF X
<1>6. /\ y.st.half = S.half /\ y.st.withheld = <<>> /\ y.st.closes = S.closes
      /\ y.st.taken = S.taken /\ y.st.refused = S.refused /\ y.st.sent = S.sent /\ y.st.inFlight = S.inFlight
      /\ y.st.closedByPeer = S.closedByPeer /\ y.st.failed = S.failed /\ y.st.closing = S.closing
      /\ y.st.aborting = S.aborting /\ y.st.peerKnows = S.peerKnows /\ y.st.closeSent = S.closeSent /\ y.st.onFailDue = S.onFailDue
  BY <1>3, <1>4 DEF Duplexes
<1>7. Own(y.st, HasHandle(e))
  BY <1>1, <1>3, <1>6 DEF Own
<1>8. /\ Quiet(y.out) /\ y.out \in Seq(Stanzas)
      /\ Pair(y.st, HasHandle(e), end[Peer(e)], HasHandle(Peer(e)), channel[Peer(e)] \o y.out, channel[e])
  <2>1. "ok" \in Results /\ "not-found" \in Results
    BY DEF Results
  <2>2. y.st.half \in {"live", "gone"}
    BY <1>1, <1>6
  <2> DEFINE T == y.st
             o == y.out
             h == HasHandle(e)
             k == HasHandle(Peer(e))
             R == end[Peer(e)]
             q == channel[Peer(e)]
             r == channel[e]
  <2>3. Pair(S, h, R, k, q, r) /\ Own(T, h) /\ T \in Duplexes
    BY <1>2, <1>5, <1>7
  <2>4. o = Answers(S.withheld, "ok") \/ o = Answers(S.withheld, "not-found")
    BY <1>4
  <2>5. /\ T.half \in {"live", "gone"} /\ T.withheld = <<>> /\ T.closes = S.closes
        /\ T.taken = S.taken /\ T.refused = S.refused /\ T.sent = S.sent /\ T.inFlight = S.inFlight
        /\ T.closedByPeer = S.closedByPeer /\ T.failed = S.failed /\ T.closing = S.closing
    BY <1>6, <2>2
  <2> HIDE DEF T, o, h, k, R, q, r
  <2>6. o \in Seq(Stanzas) /\ Quiet(o) /\ Pair(T, h, R, k, q \o o, r)
    BY <1>1, <2>1, <2>3, <2>4, <2>5, WakingKeeps
  <2> QED BY <2>6 DEF T, o, h, k, R, q, r
<1>9. Rear(e, FALSE) = channel[e]
  BY DEF Rear
<1> QED BY <1>1, <1>6, <1>8, <1>9, ActionKeeps DEF S

LEMMA IdleActs ==
  ASSUME DuplexInv, NEW e \in Ends, Idle(e)
  PROVE  DuplexInv'
<1> DEFINE S == end[e]
           y == FinishInStream(Start(e), TRUE)
<1>1. S.half = "live" /\ Stretch(e, y, FALSE) /\ Opens
  BY DEF Idle, Does
<1>2. /\ Pair(S, HasHandle(e), end[Peer(e)], HasHandle(Peer(e)), channel[Peer(e)], channel[e])
      /\ Start(e).st = S /\ Start(e) \in X /\ Start(e).out = <<>>
  BY PairOf DEF Start
<1>3. S \in Duplexes /\ Own(S, HasHandle(e))
  BY <1>2 DEF Pair
<1>4. /\ y \in X /\ y.st = [S EXCEPT !.withheld = <<>>, !.half = "gone", !.onFailDue = TRUE]
      /\ y.out = Answers(S.withheld, "not-found")
  BY <1>1, <1>2, FinishIs
<1> HIDE DEF y, S
<1>5. y.st \in Duplexes
  BY <1>4 DEF X
<1>6. /\ y.st.half = "gone" /\ y.st.withheld = <<>> /\ y.st.closes = S.closes
      /\ y.st.taken = S.taken /\ y.st.refused = S.refused /\ y.st.sent = S.sent /\ y.st.inFlight = S.inFlight
      /\ y.st.closedByPeer = S.closedByPeer /\ y.st.failed = S.failed /\ y.st.closing = S.closing
      /\ y.st.aborting = S.aborting /\ y.st.peerKnows = S.peerKnows /\ y.st.closeSent = S.closeSent /\ y.st.onFailDue
  BY <1>3, <1>4 DEF Duplexes
<1>7. Own(y.st, HasHandle(e))
  BY <1>1, <1>3, <1>6 DEF Own
<1>8. /\ Quiet(y.out) /\ y.out \in Seq(Stanzas)
      /\ Pair(y.st, HasHandle(e), end[Peer(e)], HasHandle(Peer(e)), channel[Peer(e)] \o y.out, channel[e])
  <2>1. "ok" \in Results /\ "not-found" \in Results
    BY DEF Results
  <2>2. y.st.half \in {"live", "gone"}
    BY <1>1, <1>6
  <2> DEFINE T == y.st
             o == y.out
             h == HasHandle(e)
             k == HasHandle(Peer(e))
             R == end[Peer(e)]
             q == channel[Peer(e)]
             r == channel[e]
  <2>3. Pair(S, h, R, k, q, r) /\ Own(T, h) /\ T \in Duplexes
    BY <1>2, <1>5, <1>7
  <2>4. o = Answers(S.withheld, "ok") \/ o = Answers(S.withheld, "not-found")
    BY <1>4
  <2>5. /\ T.half \in {"live", "gone"} /\ T.withheld = <<>> /\ T.closes = S.closes
        /\ T.taken = S.taken /\ T.refused = S.refused /\ T.sent = S.sent /\ T.inFlight = S.inFlight
        /\ T.closedByPeer = S.closedByPeer /\ T.failed = S.failed /\ T.closing = S.closing
    BY <1>6, <2>2
  <2> HIDE DEF T, o, h, k, R, q, r
  <2>6. o \in Seq(Stanzas) /\ Quiet(o) /\ Pair(T, h, R, k, q \o o, r)
    BY <1>1, <2>1, <2>3, <2>4, <2>5, WakingKeeps
  <2> QED BY <2>6 DEF T, o, h, k, R, q, r
<1>9. Rear(e, FALSE) = channel[e] /\ end[e].half = "live"
  BY <1>1 DEF Rear, S
<1>10. y.st.closes > 0 /\ y.st.failed = "no" => end[e].closes > 0 /\ end[e].failed = "no"
  BY <1>6 DEF S
<1> QED BY <1>1, <1>6, <1>8, <1>9, <1>10, ActionKeeps

(* A block is received: given to the reader, or answered unread. *)
LEMMA DataKeeps ==
  ASSUME NEW S, NEW R, NEW h, NEW k, NEW q, NEW r, Pair(S, h, R, k, q, r), NEW n \in Blocks,
         r # <<>>, Head(r) = Data(n), NEW Z \in Duplexes, NEW o \in Seq(Stanzas), Own(Z, h),
         Z.closes = S.closes, Z.sent = S.sent, Z.inFlight = S.inFlight,
         Z.closedByPeer = S.closedByPeer, Z.failed = S.failed, Z.closing = S.closing,
         Z.half = S.half \/ (S.half = "live" /\ Z.half = "gone"),
         \/ Z.taken = S.taken /\ Z.half # "live"
         \/ Z.taken = S.taken + 1 /\ S.half = "live",
         \/ Z.withheld \in {S.withheld, <<>>}
         \/ Z.withheld = Append(S.withheld, n) /\ ~Replied(o, n) /\ Z.taken = S.taken + 1,
         Single(o), \A m \in Blocks : ~OnWay(o, Data(m)),
         \A m \in Blocks : Replied(o, m) => m = n \/ (OnWay(S.withheld, m) /\ Z.withheld = <<>>),
         OnWay(o, Answer(Data(n), "ok")) => Z.taken = S.taken + 1 \/ S.half = "tombstone",
         \/ Z.refused = S.refused /\ S.refused # "due"
         \/ Z.refused = "due" /\ S.half = "live" /\ Z.taken = S.taken /\ ~Replied(o, n),
         ~OnWay(o, CloseIq), ~OnWay(o, OkClose), ~OnWay(o, NoClose)
  PROVE  Pair(Z, h, R, k, q \o o, Tail(r))
<1>1. /\ S \in Duplexes /\ R \in Duplexes /\ q \in Seq(Stanzas) /\ r \in Seq(Stanzas)
      /\ Own(S, h) /\ Own(R, k) /\ Link(S, R, q, r) /\ Link(R, S, r, q) /\ S.closes \in Nat
  BY DEF Pair, Duplexes
<1>2. /\ S.closedByPeer => R.half \in {"tombstone", "gone"}
      /\ S.closing = "sent" => S.failed = "no" /\ S.inFlight = {}
  BY PeerIsOver
<1>3. S.half = "live" => ~R.closedByPeer /\ ~OnWay(q, CloseIq)
  <2>1. S.half = "live" => S.closes = 0
    BY <1>1 DEF Own
  <2> QED BY <1>1, <2>1 DEF Link, Closed
<1>4. Data(n) # CloseIq /\ \A m \in Blocks : ~IsReply(Data(n), m)
  BY Kinds, Forms
<1>5. Link(Z, R, q \o o, Tail(r))
  <2>1. /\ r # <<>> /\ (\A m \in Blocks : ~IsReply(Head(r), m)) /\ Head(r) # CloseIq
        /\ (S.failed # "no" => Z.failed # "no") /\ (S.closedByPeer => Z.closedByPeer)
        /\ (S.closes > 0 => Z.closes > 0) /\ (Z.closedByPeer => S.closedByPeer)
        /\ (Z.closing = "sent" => S.closing = "sent") /\ (Z.closing = "resolved" => S.closing = "resolved")
    BY <1>4
  <2>2. Z.sent = S.sent /\ Z.inFlight = S.inFlight /\ ~OnWay(o, CloseIq) /\ \A m \in Blocks : ~OnWay(o, Data(m))
    OBVIOUS
  <2> QED BY <1>1, <1>2, <2>1, <2>2, SenderKeeps
<1>6. Link(R, Z, Tail(r), q \o o)
  BY <1>1, <1>3, ReceiverTakes
<1>7. q \o o \in Seq(Stanzas) /\ Tail(r) \in Seq(Stanzas)
  BY <1>1
<1> QED BY <1>1, <1>5, <1>6, <1>7 DEF Pair

LEMMA ReceiveDataActs ==
  ASSUME DuplexInv, NEW e \in Ends, ReceiveData(e)
  PROVE  DuplexInv'
<1> DEFINE S == end[e]
           x == Start(e)
           r == channel[e]
<1>1. PICK n \in Blocks :
        /\ r # <<>> /\ Head(r) = Data(n) /\ Opens /\ S.refused # "due"
        /\ \/ /\ S.half \in {"none", "gone"}
              /\ Stretch(e, Puts(x, <<Answer(Data(n), "not-found")>>), TRUE)
           \/ /\ S.half = "tombstone"
              /\ Stretch(e, Puts(x, <<Answer(Data(n), "ok")>>), TRUE)
           \/ /\ S.half = "live"
              /\ Stretch(e, RefuseBlock(x, n), TRUE)
           \/ /\ S.half = "live"
              /\ Stretch(e, Puts([x EXCEPT !.st.taken = @ + 1], <<Answer(Data(n), "ok")>>), TRUE)
           \/ /\ S.half = "live"
              /\ Stretch(e, [x EXCEPT !.st.taken = @ + 1, !.st.withheld = Append(@, n)], TRUE)
  BY DEF ReceiveData, Receives
<1>2. /\ Pair(S, HasHandle(e), end[Peer(e)], HasHandle(Peer(e)), channel[Peer(e)], r)
      /\ x.st = S /\ x \in X /\ x.out = <<>> /\ Begun(x)
  BY PairOf DEF Start
<1>3. S \in Duplexes /\ Own(S, HasHandle(e)) /\ S.taken \in Nat /\ S.withheld \in Seq(Blocks)
  BY <1>2 DEF Pair, Duplexes
<1>4. \A res \in Results :
        LET o == <<Answer(Data(n), res)>> IN
        /\ o \in Seq(Stanzas) /\ Single(o) /\ Quiet(o) /\ \A m : OnWay(o, m) <=> m = Answer(Data(n), res)
        /\ ~OnWay(o, CloseIq) /\ ~OnWay(o, OkClose) /\ ~OnWay(o, NoClose)
        /\ \A m \in Blocks : ~OnWay(o, Data(m)) /\ (Replied(o, m) => m = n)
  <2> TAKE res \in Results
  <2> DEFINE m == Answer(Data(n), res)
  <2>1. m \in Stanzas /\ IsReply(m, n)
    BY Kinds
  <2>2. /\ m # OkClose /\ m # NoClose /\ m # CloseIq /\ m # Open
        /\ \A b \in Blocks : m # Data(b) /\ (IsReply(m, b) => b = n)
        /\ \A rez \in Results : m # Answer(Open, rez)
    BY <2>1, Kinds
  <2> HIDE DEF m
  <2>3. /\ <<m>> \in Seq(Stanzas) /\ Single(<<m>>) /\ (\A b : OnWay(<<m>>, b) <=> b = m)
        /\ \A b : Replied(<<m>>, b) <=> IsReply(m, b)
    BY <2>1, Alone
  <2> QED BY <2>2, <2>3 DEF Quiet, m
<1>5. Rear(e, TRUE) = Tail(r)
  BY DEF Rear
<1> HIDE DEF S, r
<1>6. ASSUME NEW y, Stretch(e, y, TRUE), y.st \in Duplexes, y.out \in Seq(Stanzas), Quiet(y.out),
             Pair(y.st, HasHandle(e), end[Peer(e)], HasHandle(Peer(e)), channel[Peer(e)] \o y.out, Tail(r)),
             y.st.half = S.half \/ (S.half = "live" /\ y.st.half = "gone"),
             y.st.closes = S.closes, y.st.failed = S.failed
      PROVE  DuplexInv'
  <2>1. y.st.half = "none" <=> S.half = "none"
    BY <1>6
  <2> QED BY <1>1, <1>5, <1>6, <2>1, ActionKeeps DEF S, r
<1>7. ASSUME NEW res \in Results, S.half \in {"none", "gone", "tombstone"},
             S.half # "tombstone" => res = "not-found",
             Stretch(e, Puts(x, <<Answer(Data(n), res)>>), TRUE), res # Refusal
      PROVE  DuplexInv'
  <2> DEFINE o == <<Answer(Data(n), res)>>
             y == Puts(x, o)
  <2>1. /\ o \in Seq(Stanzas) /\ Single(o) /\ Quiet(o) /\ (\A m : OnWay(o, m) <=> m = Answer(Data(n), res))
        /\ ~OnWay(o, CloseIq) /\ ~OnWay(o, OkClose) /\ ~OnWay(o, NoClose)
        /\ \A m \in Blocks : ~OnWay(o, Data(m)) /\ (Replied(o, m) => m = n)
    BY <1>4
  <2> HIDE DEF o
  <2>2. y \in X /\ y.st = S /\ y.out = <<>> \o o
    BY <1>2, <2>1, PutsIs
  <2>3. <<>> \o o = o
    BY <2>1
  <2>4. OnWay(o, Answer(Data(n), "ok")) => S.half = "tombstone"
    <3>1. OnWay(o, Answer(Data(n), "ok")) => res = "ok"
      BY <2>1, Forms
    <3> QED BY <1>7, <3>1
  <2>5. Pair(S, HasHandle(e), end[Peer(e)], HasHandle(Peer(e)), channel[Peer(e)] \o o, Tail(r))
    BY <1>1, <1>2, <1>3, <1>7, <2>1, <2>4, DataKeeps
  <2>6. Stretch(e, y, TRUE)
    BY <1>7 DEF o
  <2> HIDE DEF y
  <2> QED BY <1>3, <1>6, <2>1, <2>2, <2>3, <2>5, <2>6
<1>8. CASE S.half = "live" /\ Stretch(e, RefuseBlock(x, n), TRUE)
  <2> DEFINE w == [x EXCEPT !.st.refused = "due"]
             o == Answers(S.withheld, "not-found")
             y == RefuseBlock(x, n)
  <2>1. w.st = [S EXCEPT !.refused = "due"] /\ w.out = <<>>
    BY <1>2 DEF X, Duplexes
  <2>2. w \in X
    BY <1>2, <2>1 DEF X, Duplexes
  <2>3. w.st.half = "live" /\ w.st.withheld = S.withheld /\ w.st \in Duplexes
    <3>1. w.st \in Duplexes
      BY <2>2 DEF X
    <3> QED BY <1>3, <1>8, <2>1, <3>1 DEF Duplexes
  <2>4. y = FinishInStream(w, TRUE)
    BY DEF RefuseBlock
  <2> HIDE DEF w, y
  <2>5. y \in X /\ y.st = [w.st EXCEPT !.withheld = <<>>, !.half = "gone", !.onFailDue = TRUE] /\ y.out = o
    BY <2>1, <2>2, <2>3, <2>4, FinishIs
  <2>8. Parting(S.withheld, o, "not-found", FALSE)
    BY <1>2, <1>3, PartingForms DEF Begun, Results
  <2> HIDE DEF o
  <2>9. /\ o \in Seq(Stanzas) /\ Single(o) /\ Quiet(o) /\ ~OnWay(o, CloseIq) /\ ~OnWay(o, OkClose) /\ ~OnWay(o, NoClose)
        /\ \A m \in Blocks : ~OnWay(o, Data(m)) /\ (Replied(o, m) => OnWay(S.withheld, m))
        /\ ~OnWay(o, Answer(Data(n), "ok"))
    BY <2>8 DEF Parting, Quiet, Results
  <2>12. ~OnWay(S.withheld, n)
    <3>1. r \in Seq(Stanzas) /\ Link(end[Peer(e)], S, r, channel[Peer(e)])
      BY <1>2 DEF Pair
    <3>2. OnWay(r, Data(n))
      BY <1>1, <3>1, Behind
    <3>3. S.taken < n /\ (OnWay(S.withheld, n) => n <= S.taken)
      BY <3>1, <3>2 DEF Link, Carried
    <3>4. n \in Nat
      BY DEF Blocks
    <3> QED BY <1>3, <3>3, <3>4
  <2>14. /\ y.st \in Duplexes /\ y.st.half = "gone" /\ y.st.withheld = <<>> /\ y.st.closes = S.closes
         /\ y.st.taken = S.taken /\ y.st.refused = "due" /\ y.st.sent = S.sent /\ y.st.inFlight = S.inFlight
         /\ y.st.closedByPeer = S.closedByPeer /\ y.st.failed = S.failed /\ y.st.closing = S.closing
         /\ y.st.aborting = S.aborting /\ y.st.peerKnows = S.peerKnows /\ y.st.closeSent = S.closeSent
         /\ y.st.onFailDue
    <3>1. y.st \in Duplexes
      BY <2>5 DEF X
    <3> QED BY <1>3, <2>1, <2>3, <2>5, <3>1 DEF Duplexes
  <2>15. Own(y.st, HasHandle(e))
    BY <1>3, <1>8, <2>14 DEF Own
  <2>16. ~Replied(o, n) /\ y.st.taken = S.taken /\ y.st.half = "gone" /\ y.st.withheld = <<>>
    BY <2>9, <2>12, <2>14
  <2>17. Pair(y.st, HasHandle(e), end[Peer(e)], HasHandle(Peer(e)), channel[Peer(e)] \o o, Tail(r))
    BY <1>1, <1>2, <1>8, <2>9, <2>14, <2>15, <2>16, DataKeeps
  <2>18. Stretch(e, y, TRUE)
    BY <1>8 DEF y
  <2> QED BY <1>6, <1>8, <2>5, <2>9, <2>14, <2>17, <2>18
<1>9. CASE S.half = "live" /\ Stretch(e, Puts([x EXCEPT !.st.taken = @ + 1], <<Answer(Data(n), "ok")>>), TRUE)
  <2> DEFINE w == [x EXCEPT !.st.taken = @ + 1]
             o == <<Answer(Data(n), "ok")>>
             y == Puts(w, o)
  <2>1. w.st = [S EXCEPT !.taken = S.taken + 1] /\ w.out = <<>>
    BY <1>2 DEF X, Duplexes
  <2>2. w \in X
    <3>1. S.taken + 1 \in Nat
      BY <1>3
    <3> QED BY <1>2, <2>1, <3>1 DEF X, Duplexes
  <2> HIDE DEF w
  <2>3. /\ o \in Seq(Stanzas) /\ Single(o) /\ Quiet(o) /\ (\A m : OnWay(o, m) <=> m = Answer(Data(n), "ok"))
        /\ ~OnWay(o, CloseIq) /\ ~OnWay(o, OkClose) /\ ~OnWay(o, NoClose)
        /\ \A m \in Blocks : ~OnWay(o, Data(m)) /\ (Replied(o, m) => m = n)
    BY <1>4 DEF Results
  <2> HIDE DEF o
  <2>4. y \in X /\ y.st = w.st /\ y.out = <<>> \o o
    BY <2>1, <2>2, <2>3, PutsIs
  <2>5. <<>> \o o = o
    BY <2>3
  <2>6. Stretch(e, y, TRUE)
    BY <1>9 DEF w, o
  <2> HIDE DEF y
  <2>7. /\ y.st \in Duplexes /\ y.st.half = "live" /\ y.st.withheld = S.withheld /\ y.st.closes = S.closes
        /\ y.st.taken = S.taken + 1 /\ y.st.refused = S.refused /\ y.st.sent = S.sent /\ y.st.inFlight = S.inFlight
        /\ y.st.closedByPeer = S.closedByPeer /\ y.st.failed = S.failed /\ y.st.closing = S.closing
        /\ y.st.aborting = S.aborting /\ y.st.peerKnows = S.peerKnows /\ y.st.closeSent = S.closeSent /\ y.st.onFailDue = S.onFailDue
    <3>1. y.st \in Duplexes
      BY <2>4 DEF X
    <3>2. y.st = [S EXCEPT !.taken = S.taken + 1]
      BY <2>1, <2>4
    <3> QED BY <1>3, <1>9, <3>1, <3>2 DEF Duplexes
  <2>8. Own(y.st, HasHandle(e))
    BY <1>3, <1>9, <2>7 DEF Own
  <2>9. Pair(y.st, HasHandle(e), end[Peer(e)], HasHandle(Peer(e)), channel[Peer(e)] \o o, Tail(r))
    BY <1>1, <1>2, <1>9, <2>3, <2>7, <2>8, DataKeeps
  <2> QED BY <1>6, <1>9, <2>3, <2>4, <2>5, <2>6, <2>7, <2>9
<1>10. CASE S.half = "live" /\ Stretch(e, [x EXCEPT !.st.taken = @ + 1, !.st.withheld = Append(@, n)], TRUE)
  <2> DEFINE y == [x EXCEPT !.st.taken = @ + 1, !.st.withheld = Append(@, n)]
  <2>1. y.st = [S EXCEPT !.taken = S.taken + 1, !.withheld = Append(S.withheld, n)] /\ y.out = <<>>
    BY <1>2 DEF X, Duplexes
  <2>2. Stretch(e, y, TRUE)
    BY <1>10
  <2> HIDE DEF y
  <2>3. Append(S.withheld, n) \in Seq(Blocks) /\ S.taken + 1 \in Nat
    BY <1>3
  <2>4. /\ y.st \in Duplexes /\ y.st.half = "live" /\ y.st.withheld = Append(S.withheld, n) /\ y.st.closes = S.closes
        /\ y.st.taken = S.taken + 1 /\ y.st.refused = S.refused /\ y.st.sent = S.sent /\ y.st.inFlight = S.inFlight
        /\ y.st.closedByPeer = S.closedByPeer /\ y.st.failed = S.failed /\ y.st.closing = S.closing
        /\ y.st.aborting = S.aborting /\ y.st.peerKnows = S.peerKnows /\ y.st.closeSent = S.closeSent /\ y.st.onFailDue = S.onFailDue
    BY <1>3, <1>10, <2>1, <2>3 DEF Duplexes
  <2>5. Own(y.st, HasHandle(e))
    BY <1>3, <1>10, <2>4 DEF Own
  <2>6. Pair(y.st, HasHandle(e), end[Peer(e)], HasHandle(Peer(e)), channel[Peer(e)] \o <<>>, Tail(r))
    <3> DEFINE o == <<>>
    <3>1. /\ o \in Seq(Stanzas) /\ (\A m : ~OnWay(o, m)) /\ Single(o) /\ \A m : ~Replied(o, m)
      BY Nothing
    <3> HIDE DEF o
    <3> DEFINE Z == y.st
               h == HasHandle(e)
               k == HasHandle(Peer(e))
               R == end[Peer(e)]
               q == channel[Peer(e)]
    <3>2. /\ Z.closes = S.closes /\ Z.sent = S.sent /\ Z.inFlight = S.inFlight
          /\ Z.closedByPeer = S.closedByPeer /\ Z.failed = S.failed /\ Z.closing = S.closing
          /\ Z.half = S.half /\ Z.taken = S.taken + 1 /\ S.half = "live"
          /\ Z.withheld = Append(S.withheld, n) /\ Z.refused = S.refused /\ S.refused # "due"
      BY <1>1, <1>10, <2>4
    <3>3. r # <<>> /\ Head(r) = Data(n) /\ Pair(S, h, R, k, q, r) /\ Own(Z, h) /\ Z \in Duplexes
      BY <1>1, <1>2, <2>4, <2>5
    <3> HIDE DEF Z, h, k, R, q
    <3>4. Pair(Z, h, R, k, q \o o, Tail(r))
      BY <3>1, <3>2, <3>3, DataKeeps
    <3> QED BY <3>4 DEF o, Z, h, k, R, q
  <2>7. y.out \in Seq(Stanzas) /\ Quiet(y.out)
    BY <2>1, Nothing DEF Quiet
  <2> QED BY <1>6, <1>10, <2>1, <2>2, <2>4, <2>6, <2>7
<1>11. "ok" \in Results /\ "not-found" \in Results /\ "ok" # Refusal /\ "not-found" # Refusal
  BY DEF Results, Refusal
<1> QED BY <1>1, <1>7, <1>8, <1>9, <1>10, <1>11

(* The refusal leaves. *)
LEMMA SendRefusalActs ==
  ASSUME DuplexInv, NEW e \in Ends, SendRefusal(e)
  PROVE  DuplexInv'
<1> DEFINE S == end[e]
           R == end[Peer(e)]
           h == HasHandle(e)
           k == HasHandle(Peer(e))
           q == channel[Peer(e)]
           r == channel[e]
           x == Start(e)
           n == S.taken + 1
           o == <<Answer(Data(n), Refusal)>>
           how == IF S.closes > 0 THEN "overtaken" ELSE "told"
           w == [x EXCEPT !.st.refused = how]
           y == Puts(w, o)
           Z == [S EXCEPT !.refused = how]
<1>1. Pair(S, h, R, k, q, r) /\ x.st = S /\ x \in X /\ x.out = <<>>
  BY PairOf DEF Start
<1>2. /\ S \in Duplexes /\ R \in Duplexes /\ q \in Seq(Stanzas) /\ r \in Seq(Stanzas) /\ Own(S, h) /\ Own(R, k)
      /\ Link(S, R, q, r) /\ Link(R, S, r, q)
  BY <1>1 DEF Pair
<1>3. S.refused = "due" /\ S.onFailDue /\ S.half = "gone" /\ Opens
  BY <1>2 DEF SendRefusal, Does, Own
<1>4. Stretch(e, y, FALSE)
  BY <1>3 DEF SendRefusal, Does, Refusal
<1>5. w.st = Z /\ w.out = <<>> /\ how \in {"told", "overtaken"}
  BY <1>1 DEF X, Duplexes
<1> HIDE DEF how
<1>6. Z \in Duplexes
  BY <1>2, <1>5 DEF Duplexes
<1>7. /\ Z.half = S.half /\ Z.withheld = S.withheld /\ Z.taken = S.taken /\ Z.refused = how
      /\ Z.closedByPeer = S.closedByPeer /\ Z.closes = S.closes /\ Z.closing = S.closing /\ Z.failed = S.failed
      /\ Z.sent = S.sent /\ Z.inFlight = S.inFlight /\ Z.onFailDue = S.onFailDue
      /\ Z.aborting = S.aborting /\ Z.peerKnows = S.peerKnows /\ Z.closeSent = S.closeSent
  BY <1>2 DEF Duplexes
<1>8. w \in X
  BY <1>1, <1>5, <1>6 DEF X, Duplexes
<1> HIDE DEF Z, w, x, S, R, q, r, h, k
<1>9. n \in Blocks /\ Link(R, Z, r, q \o o)
  BY <1>2, <1>3, <1>6, ReceiverRefuses DEF how, Z
<1>10. /\ Answer(Data(n), Refusal) \in Stanzas
       /\ \A m \in Blocks : Answer(Data(n), Refusal) # Data(m)
       /\ \A m \in {OkClose, NoClose, CloseIq, Open} \cup {Answer(Open, res) : res \in Results} :
            Answer(Data(n), Refusal) # m
  BY <1>9, Kinds, Forms DEF Refusal, Results, OkClose, NoClose
<1> HIDE DEF n
<1>11. o \in Seq(Stanzas) /\ Single(o) /\ (\A m : OnWay(o, m) <=> m = Answer(Data(n), Refusal))
  BY <1>10, Alone
<1> HIDE DEF o
<1>12. /\ Quiet(o) /\ ~OnWay(o, CloseIq) /\ ~OnWay(o, NoClose) /\ ~OnWay(o, OkClose)
       /\ \A m \in Blocks : ~OnWay(o, Data(m))
  BY <1>10, <1>11 DEF Quiet
<1>13. y \in X /\ y.st = Z /\ y.out = <<>> \o o
  BY <1>5, <1>8, <1>11, PutsIs
<1>14. <<>> \o o = o /\ q \o o \in Seq(Stanzas)
  BY <1>2, <1>11
<1> HIDE DEF y
<1>15. Link(Z, R, q \o o, r)
  <2>1. /\ S.closedByPeer => R.half \in {"tombstone", "gone"}
        /\ S.closing = "sent" => S.failed = "no" /\ S.inFlight = {}
    BY <1>1, PeerIsOver
  <2> QED BY <1>2, <1>6, <1>7, <1>11, <1>12, <2>1, SenderKeeps
<1>16. Own(Z, h)
  BY <1>2, <1>3, <1>7 DEF Own
<1>17. Pair(y.st, h, R, k, q \o y.out, r)
  BY <1>2, <1>6, <1>9, <1>13, <1>14, <1>15, <1>16 DEF Pair
<1>18. Rear(e, FALSE) = channel[e]
  BY DEF Rear
<1> QED BY <1>3, <1>4, <1>7, <1>11, <1>12, <1>13, <1>14, <1>17, <1>18, ActionKeeps DEF S, R, h, k, q, r

LEMMA ReceiveCloseActs ==
  ASSUME DuplexInv, NEW e \in Ends, ReceiveClose(e)
  PROVE  DuplexInv'
<1> DEFINE S == end[e]
           x == Start(e)
           r == channel[e]
           q == channel[Peer(e)]
           R == end[Peer(e)]
           h == HasHandle(e)
           k == HasHandle(Peer(e))
           f == FinishInStream(x, FALSE)
           w == [f EXCEPT !.st.closedByPeer = TRUE, !.st.peerKnows = TRUE]
           y == IF S.half \in {"live", "tombstone"} THEN Puts(w, <<OkClose>>) ELSE Puts(x, <<NoClose>>)
<1>1. r # <<>> /\ Head(r) = CloseIq /\ Opens /\ Stretch(e, y, TRUE)
  BY DEF ReceiveClose, Receives, OkClose, NoClose
<1>2. Pair(S, h, R, k, q, r) /\ x.st = S /\ x \in X /\ x.out = <<>> /\ Begun(x)
  BY PairOf DEF Start
<1>3. /\ S \in Duplexes /\ R \in Duplexes /\ q \in Seq(Stanzas) /\ r \in Seq(Stanzas)
      /\ Own(S, h) /\ Own(R, k) /\ Link(S, R, q, r) /\ Link(R, S, r, q) /\ S.withheld \in Seq(Blocks)
  BY <1>2 DEF Pair, Duplexes
<1>4. /\ S.closedByPeer => R.half \in {"tombstone", "gone"}
      /\ S.closing = "sent" => S.failed = "no" /\ S.inFlight = {}
  BY <1>2, PeerIsOver
<1>5. /\ \A n \in Blocks : CloseIq # Data(n) /\ ~IsReply(CloseIq, n)
      /\ OkClose # CloseIq /\ NoClose # CloseIq /\ OkClose # NoClose /\ OkClose # Open /\ NoClose # Open
      /\ \A n \in Blocks : OkClose # Data(n) /\ NoClose # Data(n) /\ ~IsReply(OkClose, n) /\ ~IsReply(NoClose, n)
      /\ \A res \in Results : OkClose # Answer(Open, res) /\ NoClose # Answer(Open, res)
      /\ OkClose \in Stanzas /\ NoClose \in Stanzas
  <2>1. /\ OkClose # CloseIq /\ NoClose # CloseIq /\ OkClose # NoClose /\ OkClose # Open /\ NoClose # Open
        /\ \A n \in Blocks : CloseIq # Data(n) /\ OkClose # Data(n) /\ NoClose # Data(n)
        /\ \A res \in Results : OkClose # Answer(Open, res) /\ NoClose # Answer(Open, res)
    BY Kinds, Forms DEF OkClose, NoClose, Results
  <2> QED BY <2>1, Kinds
<1>6. Rear(e, TRUE) = Tail(r) /\ Tail(r) \in Seq(Stanzas)
  BY <1>1, <1>3 DEF Rear
<1>7. ASSUME NEW Z \in Duplexes, NEW o \in Seq(Stanzas), y.st = Z, y.out = o, Quiet(o),
             Link(Z, R, q \o o, Tail(r)), Link(R, Z, Tail(r), q \o o), Own(Z, h),
             Z.half = S.half \/ (S.half = "live" /\ Z.half = "gone"), Z.closes = S.closes, Z.failed = S.failed
      PROVE  DuplexInv'
  <2>1. Pair(Z, h, R, k, q \o o, Rear(e, TRUE))
    <3>1. q \o o \in Seq(Stanzas)
      BY <1>3, <1>7
    <3> HIDE DEF S, R, q, r, h, k, y
    <3> QED BY <1>3, <1>6, <1>7, <3>1 DEF Pair
  <2>2. Z.half = "none" <=> S.half = "none"
    BY <1>7
  <2> HIDE DEF y
  <2> QED BY <1>1, <1>7, <2>1, <2>2, ActionKeeps
<1>8. CASE S.half \notin {"live", "tombstone"}
  <2> DEFINE o == <<NoClose>>
  <2>1. o \in Seq(Stanzas) /\ (\A m : OnWay(o, m) <=> m = NoClose) /\ Single(o)
        /\ \A n : Replied(o, n) <=> IsReply(NoClose, n)
    BY <1>5, Alone
  <2> HIDE DEF o
  <2>2. y.st = S /\ y.out = <<>> \o o
    BY <1>2, <1>8, <2>1, PutsIs DEF o
  <2>3. <<>> \o o = o
    BY <2>1
  <2> HIDE DEF S, R, q, r, h, k, y
  <2>4. Link(S, R, q \o o, Tail(r))
    BY <1>1, <1>3, <1>4, <1>5, <2>1, SenderKeeps
  <2>5. Link(R, S, Tail(r), q \o o)
    <3>1. CloseIq # NoClose
      BY <1>5
    <3> QED BY <1>1, <1>3, <1>5, <2>1, <3>1, ReceiverKeeps
  <2>6. Quiet(o)
    BY <1>5, <2>1 DEF Quiet
  <2> QED BY <1>3, <1>7, <2>1, <2>2, <2>3, <2>4, <2>5, <2>6
<1>9. CASE S.half \in {"live", "tombstone"}
  <2> DEFINE c == <<OkClose>>
             a == f.out
             o == a \o c
             Z == w.st
  <2>1. c \in Seq(Stanzas) /\ (\A m : OnWay(c, m) <=> m = OkClose) /\ Single(c)
        /\ \A n : Replied(c, n) <=> IsReply(OkClose, n)
    BY <1>5, Alone
  <2>2. /\ f \in X /\ a \in Seq(Stanzas) /\ f.st \in Duplexes
        /\ Single(a) /\ ~OnWay(a, CloseIq) /\ ~OnWay(a, OkClose) /\ ~OnWay(a, NoClose) /\ Quiet(a)
        /\ \A n \in Blocks : ~OnWay(a, Data(n)) /\ (Replied(a, n) => OnWay(S.withheld, n))
        /\ f.st.withheld = <<>> /\ f.st.half = IF S.half = "live" THEN "gone" ELSE S.half
        /\ f.st.closes = S.closes /\ f.st.taken = S.taken /\ f.st.refused = S.refused /\ f.st.sent = S.sent
        /\ f.st.inFlight = S.inFlight /\ f.st.failed = S.failed /\ f.st.closing = S.closing
        /\ f.st.aborting = S.aborting /\ f.st.closeSent = S.closeSent
    <3>1. CASE S.half = "live"
      <4>1. /\ f \in X /\ f.st = [S EXCEPT !.withheld = <<>>, !.half = "gone", !.onFailDue = FALSE]
            /\ a = Answers(S.withheld, "not-found")
        BY <1>2, <3>1, FinishIs
      <4>2. Parting(S.withheld, a, "not-found", FALSE)
        BY <1>2, <1>3, <4>1, PartingForms DEF Begun, Results
      <4>3. f.st \in Duplexes
        BY <4>1 DEF X
      <4>4. f.st = [S EXCEPT !.withheld = <<>>, !.half = "gone", !.onFailDue = FALSE]
        BY <4>1
      <4> HIDE DEF f, S
      <4>5. /\ f.st.withheld = <<>> /\ f.st.half = "gone"
            /\ f.st.closes = S.closes /\ f.st.taken = S.taken /\ f.st.refused = S.refused /\ f.st.sent = S.sent
            /\ f.st.inFlight = S.inFlight /\ f.st.failed = S.failed /\ f.st.closing = S.closing
            /\ f.st.aborting = S.aborting /\ f.st.closeSent = S.closeSent
        BY <1>3, <4>3, <4>4 DEF Duplexes
      <4> QED BY <3>1, <4>1, <4>2, <4>3, <4>5 DEF Parting, Quiet
    <3>2. CASE S.half # "live"
      <4>1. f = x /\ f.st = S /\ a = <<>> /\ S.withheld = <<>>
        BY <1>2, <1>3, <3>2 DEF FinishInStream, Own
      <4>2. f \in X /\ f.st \in Duplexes
        BY <1>2, <1>3, <4>1
      <4> QED BY <3>2, <4>1, <4>2, Nothing DEF Quiet
    <3> QED BY <3>1, <3>2
  <2>3. f \in X /\ f.st \in Duplexes
    BY <2>2
  <2> HIDE DEF f, c
  <2>4. w.st = [f.st EXCEPT !.closedByPeer = TRUE, !.peerKnows = TRUE] /\ w.out = a
    BY <2>3 DEF X, Duplexes
  <2>5. w \in X
    BY <2>3, <2>4 DEF X, Duplexes
  <2>6. Z \in Duplexes
    BY <2>5 DEF X
  <2> HIDE DEF w
  <2>7. y.st = Z /\ y.out = a \o c
    BY <1>9, <2>1, <2>4, <2>5, PutsIs DEF c
  <2> HIDE DEF y, S, R, q, r, h, k, a
  <2>8. /\ Z.withheld = <<>> /\ Z.half = f.st.half
        /\ Z.closes = S.closes /\ Z.taken = S.taken /\ Z.refused = S.refused /\ Z.sent = S.sent
        /\ Z.inFlight = S.inFlight /\ Z.failed = S.failed /\ Z.closing = S.closing
        /\ Z.aborting = S.aborting /\ Z.closeSent = S.closeSent /\ Z.closedByPeer /\ Z.peerKnows
    <3>1. /\ Z.withheld = f.st.withheld /\ Z.half = f.st.half /\ Z.closes = f.st.closes /\ Z.taken = f.st.taken
          /\ Z.refused = f.st.refused /\ Z.sent = f.st.sent /\ Z.inFlight = f.st.inFlight /\ Z.failed = f.st.failed
          /\ Z.closing = f.st.closing /\ Z.aborting = f.st.aborting /\ Z.closeSent = f.st.closeSent
          /\ Z.closedByPeer /\ Z.peerKnows
      BY <2>3, <2>4 DEF Duplexes
    <3> QED BY <2>2, <3>1
  <2>9. Z.half \in {"tombstone", "gone"} /\ (Z.half = S.half \/ (S.half = "live" /\ Z.half = "gone"))
    BY <1>9, <2>2, <2>8
  <2>10. /\ o \in Seq(Stanzas) /\ (\A m : OnWay(o, m) <=> OnWay(a, m) \/ m = OkClose)
         /\ \A n \in Blocks : Replied(o, n) <=> Replied(a, n)
    <3>1. o \in Seq(Stanzas) /\ \A m : OnWay(o, m) <=> OnWay(a, m) \/ OnWay(c, m)
      BY <2>1, <2>2, Joined
    <3>2. \A n : Replied(o, n) <=> Replied(a, n) \/ Replied(c, n)
      BY <3>1, RepliedIs
    <3> QED BY <1>5, <2>1, <3>1, <3>2
  <2>11. Single(o)
    <3>1. \A n \in Blocks : ~Replied(c, n)
      BY <1>5, <2>1
    <3> QED BY <2>1, <2>2, <3>1, SingleKeeps
  <2> HIDE DEF Z, o
  <2>12. /\ ~OnWay(o, CloseIq) /\ ~OnWay(o, NoClose) /\ Quiet(o)
         /\ \A n \in Blocks : ~OnWay(o, Data(n)) /\ (Replied(o, n) => OnWay(S.withheld, n))
    BY <1>5, <2>2, <2>10 DEF Quiet
  <2>13. Own(Z, h)
    BY <1>3, <1>9, <2>8, <2>9 DEF Own
  <2>14. Link(Z, R, q \o o, Tail(r))
    BY <1>1, <1>3, <1>4, <1>5, <2>6, <2>8, <2>10, <2>12, SenderKeeps
  <2>15. Link(R, Z, Tail(r), q \o o)
    BY <1>1, <1>3, <1>5, <1>9, <2>6, <2>8, <2>9, <2>10, <2>11, <2>12, ReceiverKeeps
  <2>16. y.st = Z /\ y.out = o
    BY <2>7 DEF o
  <2> QED BY <1>7, <2>6, <2>8, <2>9, <2>10, <2>12, <2>13, <2>14, <2>15, <2>16
<1> QED BY <1>8, <1>9

(* A block is answered, or given up. *)
LEMMA HearingKeeps ==
  ASSUME NEW S, NEW R, NEW h, NEW k, NEW q, NEW r, Pair(S, h, R, k, q, r), NEW n \in Blocks, NEW res \in Results,
         NEW Z, Z = [S EXCEPT !.inFlight = S.inFlight \ {n}], NEW r2,
         \/ /\ r # <<>> /\ r2 = Tail(r) /\ Head(r) = Answer(Data(n), res)
            /\ res = "ok" \/ S.failed # "no" \/ (res = "not-found" /\ S.closedByPeer)
         \/ r2 = r /\ S.failed # "no"
  PROVE  Pair(Z, h, R, k, q, r2) /\ Z.half = S.half /\ Z.closes = S.closes /\ Z.failed = S.failed
<1>1. /\ S \in Duplexes /\ R \in Duplexes /\ q \in Seq(Stanzas) /\ r \in Seq(Stanzas)
      /\ Own(S, h) /\ Own(R, k) /\ Link(S, R, q, r) /\ Link(R, S, r, q)
  BY DEF Pair
<1>2. /\ Z \in Duplexes /\ Z.inFlight = S.inFlight \ {n}
      /\ Z.half = S.half /\ Z.withheld = S.withheld /\ Z.closes = S.closes
      /\ Z.taken = S.taken /\ Z.refused = S.refused /\ Z.sent = S.sent
      /\ Z.closedByPeer = S.closedByPeer /\ Z.failed = S.failed /\ Z.closing = S.closing
      /\ Z.aborting = S.aborting /\ Z.peerKnows = S.peerKnows /\ Z.closeSent = S.closeSent
      /\ Z.onFailDue = S.onFailDue
  BY <1>1 DEF Duplexes
<1>3. S.inFlight = {} => Z.inFlight = {} /\ Z = S
  BY <1>1, <1>2 DEF Duplexes
<1>4. Own(Z, h)
  <2>1. Untouched.inFlight = {}
    BY DEF Untouched
  <2>2. S.half = "none" => Z = Untouched
    BY <1>1, <1>3, <2>1 DEF Own
  <2> QED BY <1>1, <1>2, <1>3, <2>2 DEF Own
<1>50. ASSUME NEW T \in Duplexes, T.sent = S.sent, T.inFlight = S.inFlight \ {n},
              T.closedByPeer = S.closedByPeer, T.closes = S.closes, T.closing = S.closing, T.failed = S.failed
       PROVE  Link(T, R, q, r2)
  <2>1. CASE r # <<>> /\ r2 = Tail(r) /\ Head(r) = Answer(Data(n), res)
             /\ (res = "ok" \/ S.failed # "no" \/ (res = "not-found" /\ S.closedByPeer))
    <3>1. res = "ok" \/ T.failed # "no" \/ (res = "not-found" /\ S.closedByPeer)
      BY <1>50, <2>1
    <3>2. S.failed # "no" => T.failed # "no"
      BY <1>50
    <3> QED BY <1>1, <1>50, <2>1, <3>1, <3>2, SenderHears
  <2>2. CASE r2 = r /\ S.failed # "no"
    <3>1. T.failed # "no"
      BY <1>50, <2>2
    <3> QED BY <1>1, <1>50, <2>2, <3>1, SenderHears
  <2> QED BY <2>1, <2>2
<1>5. Link(Z, R, q, r2)
  BY <1>2, <1>50
<1>6. Answer(Data(n), res) # NoClose /\ \A m \in Blocks : Answer(Data(n), res) # Data(m)
  BY Kinds
<1>7. Link(R, Z, r2, q)
  <2> DEFINE o == <<>>
  <2>1. q \o o = q /\ o \in Seq(Stanzas) /\ Single(o) /\ (\A m : ~OnWay(o, m)) /\ \A m : ~Replied(o, m)
    BY <1>1, Nothing
  <2> HIDE DEF o
  <2>2. Link(R, Z, r2, q \o o)
    BY <1>1, <1>2, <1>6, <2>1, ReceiverKeeps
  <2> QED BY <2>1, <2>2
<1>8. r2 \in Seq(Stanzas)
  <2>1. r # <<>> => Tail(r) \in Seq(Stanzas)
    BY <1>1
  <2> QED BY <1>1, <2>1
<1> QED BY <1>1, <1>2, <1>4, <1>5, <1>7, <1>8 DEF Pair

LEMMA SettlingActs ==
  ASSUME DuplexInv, NEW e \in Ends, NEW n \in Blocks, NEW res, NEW consumed \in BOOLEAN,
         Stretch(e, SettleBlock(Start(e), n, res), consumed), Opens,
         consumed => channel[e] # <<>> /\ res \in Results /\ Head(channel[e]) = Answer(Data(n), res),
         ~consumed => n \in end[e].inFlight /\ res = "timeout"
  PROVE  DuplexInv'
<1> DEFINE S == end[e]
           x == Start(e)
           r == channel[e]
           q == channel[Peer(e)]
           R == end[Peer(e)]
           h == HasHandle(e)
           k == HasHandle(Peer(e))
           r2 == Rear(e, consumed)
           y == SettleBlock(x, n, res)
           Sets(T) == [T EXCEPT !.inFlight = T.inFlight \ {n}]
           Fits == res = "ok" \/ S.failed # "no" \/ (res = "not-found" /\ S.closedByPeer)
<1>1. Pair(S, h, R, k, q, r) /\ x.st = S /\ x \in X /\ x.out = <<>> /\ Begun(x)
  BY PairOf DEF Start
<1>2. /\ S \in Duplexes /\ R \in Duplexes /\ q \in Seq(Stanzas) /\ r \in Seq(Stanzas)
      /\ Own(S, h) /\ Own(R, k) /\ Link(S, R, q, r) /\ Link(R, S, r, q)
  BY <1>1 DEF Pair
<1>3. Stretch(e, y, consumed) /\ q \o <<>> = q
  BY <1>2
<1>4. \/ consumed /\ r # <<>> /\ r2 = Tail(r) /\ Head(r) = Answer(Data(n), res) /\ res \in Results
      \/ ~consumed /\ r2 = r /\ n \in S.inFlight /\ res = "timeout"
  BY DEF Rear
<1>5. ASSUME NEW T, T = Sets(S), y.st = T, y.out = <<>>, Fits
      PROVE  DuplexInv'
  <2>1. \/ /\ r # <<>> /\ r2 = Tail(r) /\ Head(r) = Answer(Data(n), res) /\ res \in Results
           /\ res = "ok" \/ S.failed # "no" \/ (res = "not-found" /\ S.closedByPeer)
        \/ r2 = r /\ S.failed # "no"
    BY <1>4, <1>5
  <2> HIDE DEF S, R, q, r, h, k, y, r2
  <2>2. "ok" \in Results
    BY DEF Results
  <2>3. Pair(T, h, R, k, q, r2) /\ T.half = S.half /\ T.closes = S.closes /\ T.failed = S.failed
    BY <1>1, <1>5, <2>1, <2>2, HearingKeeps
  <2>4. y.out \in Seq(Stanzas) /\ Quiet(y.out) /\ q \o y.out = q
    BY <1>3, <1>5, Nothing DEF Quiet
  <2> QED BY <1>3, <1>4, <1>5, <2>3, <2>4, ActionKeeps DEF S, R, q, r, h, k, r2
<1>6. CASE n \notin S.inFlight
  <2>1. y.st = S /\ y.out = <<>>
    BY <1>1, <1>6 DEF SettleBlock
  <2>2. S = Sets(S)
    <3>1. S.inFlight \ {n} = S.inFlight
      BY <1>6
    <3> QED BY <1>2, <3>1 DEF Duplexes
  <2>3. Replied(r, n)
    <3>1. OnWay(r, Answer(Data(n), res)) /\ res \in Results
      BY <1>2, <1>4, <1>6, Behind
    <3> QED BY <3>1, RepliedIs
  <2>4. S.failed # "no"
    BY <1>2, <1>6, <2>3 DEF Link, Answered
  <2> QED BY <1>5, <2>1, <2>2, <2>4
<1>7. CASE n \in S.inFlight /\ Fits
  <2> DEFINE w == [x EXCEPT !.st.inFlight = @ \ {n}]
  <2>1. y = w
    BY <1>1, <1>7 DEF SettleBlock, BlockFails
  <2>2. w.st = Sets(S) /\ w.out = <<>>
    BY <1>1 DEF X, Duplexes
  <2> QED BY <1>5, <1>7, <2>1, <2>2
<1>8. CASE n \in S.inFlight /\ ~Fits
  <2> DEFINE w == [x EXCEPT !.st.failed = "block"]
             v == AbortDuplex(w)
  <2>1. y = [v EXCEPT !.st.inFlight = @ \ {n}]
    BY <1>1, <1>8 DEF SettleBlock, BlockFails
  <2>2. w.st = [S EXCEPT !.failed = "block"] /\ w.out = <<>>
    BY <1>1 DEF X, Duplexes
  <2>3. w \in X
    BY <1>1, <2>2 DEF X, Duplexes
  <2>4. S.half # "none"
    BY <1>2, <1>8 DEF Own, Untouched
  <2>5. S.closing # "sent"
    BY <1>2, <1>8 DEF Own
  <2> HIDE DEF S, R, q, r, h, k, y, r2, w
  <2>6. /\ w.st \in Duplexes
        /\ w.st.half = S.half /\ w.st.withheld = S.withheld /\ w.st.closes = S.closes
        /\ w.st.taken = S.taken /\ w.st.refused = S.refused /\ w.st.sent = S.sent /\ w.st.inFlight = S.inFlight
        /\ w.st.closedByPeer = S.closedByPeer /\ w.st.failed = "block" /\ w.st.closing = S.closing
        /\ w.st.aborting = S.aborting /\ w.st.peerKnows = S.peerKnows /\ w.st.closeSent = S.closeSent /\ w.st.onFailDue = S.onFailDue
    BY <1>2, <2>2 DEF Duplexes
  <2>7. Own(w.st, h)
    BY <1>2, <2>4, <2>5, <2>6 DEF Own
  <2>8. Begun(w)
    BY <1>1, <2>2, <2>3, <2>6 DEF Begun
  <2>9. Pair(w.st, h, R, k, q \o <<>>, r)
    BY <1>1, <2>5, <2>6, <2>7, Nothing, NotingKeeps
  <2>10. /\ Pair(v.st, h, R, k, q \o v.out, r)
         /\ Farewell(w.st, v) \/ Burial(w.st, v)
         /\ v.st.failed # "no" /\ v.st.half \in {"tombstone", "gone"}
    BY <1>3, <2>4, <2>6, <2>8, <2>9, AbortKeeps
  <2> HIDE DEF v
  <2>11. v \in X /\ v.out \in Seq(Stanzas) /\ Quiet(v.out)
    BY <2>10 DEF Farewell, Burial, Parting, Quiet, X
  <2>12. y.st = Sets(v.st) /\ y.out = v.out
    BY <2>1, <2>11 DEF X, Duplexes
  <2>13. \/ /\ r # <<>> /\ r2 = Tail(r) /\ Head(r) = Answer(Data(n), res) /\ res \in Results
            /\ v.st.failed # "no"
         \/ r2 = r /\ v.st.failed # "no"
    BY <1>4, <2>10
  <2>14. "ok" \in Results
    BY DEF Results
  <2>15. /\ Pair(y.st, h, R, k, q \o v.out, r2)
         /\ y.st.half = v.st.half /\ y.st.closes = v.st.closes /\ y.st.failed = v.st.failed
    BY <2>10, <2>12, <2>13, <2>14, HearingKeeps
  <2>16. y.st.half # "none" /\ S.half # "none" /\ y.st.failed # "no"
    BY <2>4, <2>10, <2>15
  <2> QED BY <1>3, <1>4, <2>11, <2>12, <2>15, <2>16, ActionKeeps DEF S, R, q, r, h, k, r2
<1> QED BY <1>6, <1>7, <1>8

(* Our <close/> is answered, or its answer given up. *)
LEMMA ClosingActs ==
  ASSUME DuplexInv, NEW e \in Ends, NEW ok \in BOOLEAN, NEW consumed \in BOOLEAN,
         Stretch(e, SettleClose(Start(e), ok), consumed), Opens,
         consumed => channel[e] # <<>> /\ Head(channel[e]) = IF ok THEN OkClose ELSE NoClose,
         ~consumed => ~ok /\ (end[e].aborting \/ end[e].closing \in {"sent", "telling"})
  PROVE  DuplexInv'
<1> DEFINE S == end[e]
           x == Start(e)
           r == channel[e]
           q == channel[Peer(e)]
           R == end[Peer(e)]
           h == HasHandle(e)
           k == HasHandle(Peer(e))
           y == SettleClose(x, ok)
<1>1. Pair(S, h, R, k, q, r) /\ x.st = S /\ x \in X /\ x.out = <<>> /\ Begun(x)
  BY PairOf DEF Start
<1>2. /\ S \in Duplexes /\ R \in Duplexes /\ q \in Seq(Stanzas) /\ r \in Seq(Stanzas)
      /\ Own(S, h) /\ Own(R, k) /\ Link(S, R, q, r) /\ Link(R, S, r, q) /\ S.closes \in Nat
  BY <1>1 DEF Pair, Duplexes
<1>3. Stretch(e, y, consumed)
  OBVIOUS
<1>4. S.closes > 0 /\ S.half \in {"tombstone", "gone"} /\ S.peerKnows
  <2>1. CASE consumed
    <3>1. OnWay(r, OkClose) \/ OnWay(r, NoClose)
      BY <1>2, <2>1, Behind
    <3> QED BY <1>2, <3>1 DEF Link, Closed, Own
  <2>2. CASE ~consumed
    BY <1>2, <2>2 DEF Own
  <2> QED BY <2>1, <2>2
<1>5. ASSUME Burial(S, y), Own(y.st, h), y.st.failed = "no" => S.failed = "no",
             y.st.closing \in {"sent", "resolved"} => y.st.closing = S.closing
      PROVE  DuplexInv'
  <2>1. y.st.half = "gone" /\ y.st.closes = S.closes
    BY <1>5 DEF Burial
  <2>2. consumed => /\ r # <<>> /\ Head(r) \in {OkClose, NoClose}
                    /\ Head(r) = NoClose => y.st.half = "gone"
    BY <2>1
  <2> HIDE DEF y
  <2>3. S.half # "none" /\ (S.failed # "no" => y.st.failed # "no")
        /\ (y.st.closes > 0 /\ y.st.failed = "no" => S.closes > 0 /\ S.failed = "no")
    BY <1>4, <1>5
  <2> QED BY <1>3, <1>5, <2>2, <2>3, EndingActs
<1>6. CASE S.aborting
  <2> DEFINE w == [x EXCEPT !.st.aborting = FALSE]
  <2>1. w.st = [S EXCEPT !.aborting = FALSE] /\ w.out = <<>>
    BY <1>1 DEF X, Duplexes
  <2>2. w \in X
    BY <1>1, <2>1 DEF X, Duplexes
  <2>3. y = Buried(w)
    BY <1>1, <1>6 DEF SettleClose
  <2> HIDE DEF S, y, w
  <2>4. /\ Same(S, w.st) /\ w.st.half = S.half /\ w.st.withheld = S.withheld /\ w.st.closes = S.closes
        /\ w.st.peerKnows = S.peerKnows /\ w.st.failed = S.failed /\ w.st.closing = S.closing
        /\ w.st.closeSent = S.closeSent /\ ~w.st.aborting
    BY <1>2, <2>1 DEF Duplexes, Same
  <2>5. Begun(w)
    BY <1>1, <2>1, <2>2, <2>4 DEF Begun
  <2>6. Burial(w.st, y) /\ Rest(w.st, y.st)
    BY <2>3, <2>5, BuriedIs
  <2>7. Burial(S, y)
    BY <2>4, <2>6 DEF Burial, Same
  <2>8. /\ y.st.closes = S.closes /\ y.st.half = "gone" /\ y.st.withheld = <<>> /\ Same(S, y.st)
        /\ y.st.peerKnows = S.peerKnows /\ y.st.failed = S.failed /\ y.st.closing = S.closing
        /\ y.st.closeSent = S.closeSent /\ ~y.st.aborting
    BY <2>4, <2>6, <2>7 DEF Burial, Rest
  <2>9. Own(y.st, h)
    BY <1>2, <2>8 DEF Own, Same
  <2> QED BY <1>5, <2>7, <2>8, <2>9
<1>7. CASE ~S.aborting /\ S.closing = "telling"
  <2> DEFINE z == RemoveTombstone([x EXCEPT !.st.closing = "rejected"])
  <2>1. y = z
    BY <1>1, <1>7 DEF SettleClose
  <2>2. x.st.half # "live"
    BY <1>1, <1>4
  <2>3. /\ Burial(x.st, z) /\ z.st.closing = "rejected" /\ z.st.failed = x.st.failed
        /\ z.st.closeSent = x.st.closeSent /\ z.st.aborting = x.st.aborting
    BY <1>1, <2>2, ReturnedIs
  <2> HIDE DEF S, y, z
  <2>4. /\ y.st.closes = S.closes /\ y.st.half = "gone" /\ y.st.withheld = <<>> /\ Same(S, y.st)
        /\ y.st.peerKnows = S.peerKnows /\ y.st.failed = S.failed /\ y.st.closing = "rejected"
        /\ y.st.closeSent = S.closeSent /\ ~y.st.aborting /\ Burial(S, y)
    BY <1>1, <1>7, <2>1, <2>3 DEF Burial
  <2>5. Own(y.st, h)
    BY <1>2, <1>7, <2>4 DEF Own, Same
  <2> QED BY <1>5, <2>4, <2>5
<1>8. CASE ~S.aborting /\ S.closing \notin {"sent", "telling"}
  <2>1. y.st = S /\ y.out = <<>>
    BY <1>1, <1>8 DEF SettleClose
  <2>2. consumed /\ r # <<>> /\ Head(r) \in {OkClose, NoClose} /\ S.half = "gone"
    BY <1>2, <1>4, <1>8 DEF Own
  <2>3. /\ Head(r) # CloseIq
        /\ \A n \in Blocks : Head(r) # Data(n) /\ ~IsReply(Head(r), n)
    <3>1. OkClose # CloseIq /\ NoClose # CloseIq /\ \A n \in Blocks : OkClose # Data(n) /\ NoClose # Data(n)
      BY Kinds, Forms DEF OkClose, NoClose, Results
    <3> QED BY <2>2, <3>1, Kinds
  <2> HIDE DEF S, R, q, r, h, k, y
  <2>4. Pair(S, h, R, k, q \o <<>>, Tail(r))
    BY <1>1, <1>2, <2>2, <2>3, Nothing, NotingKeeps
  <2>5. Rear(e, consumed) = Tail(r) /\ channel[e] # <<>> /\ y.out \in Seq(Stanzas) /\ Quiet(y.out)
    BY <2>1, <2>2, Nothing DEF Rear, r, Quiet
  <2> QED BY <1>3, <2>1, <2>4, <2>5, ActionKeeps DEF S, R, q, h, k
<1>9. CASE ~S.aborting /\ S.closing = "sent" /\ (ok \/ S.closedByPeer)
  <2>1. y = CloseResolves(x)
    BY <1>1, <1>9 DEF SettleClose
  <2>2. h /\ S.failed = "no"
    BY <1>2, <1>9 DEF Own
  <2>3. S.closedByPeer \/ (S.closing = "sent" /\ consumed /\ Head(r) = OkClose)
    BY <1>9
  <2>4. consumed => r # <<>> /\ Head(r) \in {OkClose, NoClose}
    OBVIOUS
  <2>5. Stretch(e, CloseResolves(Start(e)), consumed)
    BY <1>3, <2>1
  <2> QED BY <2>2, <2>3, <2>4, <2>5, ResolvingActs
<1>10. CASE ~S.aborting /\ S.closing = "sent" /\ ~(ok \/ S.closedByPeer)
  <2> DEFINE w == [x EXCEPT !.st.failed = "block"]
  <2>1. w.st = [S EXCEPT !.failed = "block"] /\ w.out = <<>>
    BY <1>1 DEF X, Duplexes
  <2>2. w \in X
    BY <1>1, <2>1 DEF X, Duplexes
  <2>3. y = CloseFails(w)
    BY <1>1, <1>10 DEF SettleClose
  <2>4. h
    BY <1>2, <1>10 DEF Own
  <2> HIDE DEF S, y, w
  <2>5. /\ Same(S, w.st) /\ w.st.half = S.half /\ w.st.withheld = S.withheld /\ w.st.closes = S.closes
        /\ w.st.peerKnows = S.peerKnows /\ w.st.failed = "block"
        /\ w.st.closeSent = S.closeSent /\ w.st.aborting = S.aborting
    BY <1>2, <2>1 DEF Duplexes, Same
  <2>6. Begun(w)
    BY <1>1, <2>1, <2>2, <2>5 DEF Begun
  <2>7. /\ y.st.failed = "block" /\ y.st.closeSent = S.closeSent /\ y.st.aborting = S.aborting
        /\ Burial(w.st, y) /\ y.st.closing = "rejected"
    BY <1>4, <2>3, <2>5, <2>6, CloseFailsIs
  <2>8. Burial(S, y)
    BY <2>5, <2>7 DEF Burial, Same
  <2>9. /\ y.st.closes = S.closes /\ y.st.half = "gone" /\ y.st.withheld = <<>> /\ Same(S, y.st)
        /\ y.st.peerKnows = S.peerKnows
    BY <2>8 DEF Burial
  <2>10. Own(y.st, h)
    BY <1>2, <2>4, <2>7, <2>9 DEF Own, Same
  <2> QED BY <1>5, <2>7, <2>8, <2>10
<1> QED BY <1>6, <1>7, <1>8, <1>9, <1>10

LEMMA ReceiveAnswerActs ==
  ASSUME DuplexInv, NEW e \in Ends, ReceiveAnswer(e)
  PROVE  DuplexInv'
<1>1. CASE \E n \in Blocks, res \in {"ok", "not-found", "unexpected-request"} :
             /\ Head(channel[e]) = Answer(Data(n), res)
             /\ Receives(e, SettleBlock(Start(e), n, res))
  <2>1. PICK n \in Blocks, res \in {"ok", "not-found", "unexpected-request"} :
          /\ Head(channel[e]) = Answer(Data(n), res)
          /\ Receives(e, SettleBlock(Start(e), n, res))
    BY <1>1
  <2>2. /\ res \in Results /\ channel[e] # <<>>
        /\ Stretch(e, SettleBlock(Start(e), n, res), TRUE) /\ Opens
    BY <2>1 DEF ReceiveAnswer, Receives, Results
  <2> QED BY <2>1, <2>2, SettlingActs
<1>2. CASE \E res \in {"ok", "not-found"} :
             /\ Head(channel[e]) = Answer(CloseIq, res)
             /\ Receives(e, SettleClose(Start(e), res = "ok"))
  <2>1. PICK res \in {"ok", "not-found"} :
          /\ Head(channel[e]) = Answer(CloseIq, res)
          /\ Receives(e, SettleClose(Start(e), res = "ok"))
    BY <1>2
  <2> DEFINE ok == res = "ok"
  <2>2. /\ channel[e] # <<>> /\ Head(channel[e]) = IF ok THEN OkClose ELSE NoClose
        /\ Stretch(e, SettleClose(Start(e), ok), TRUE) /\ Opens /\ ok \in BOOLEAN
    BY <2>1 DEF ReceiveAnswer, Receives, OkClose, NoClose
  <2> HIDE DEF ok
  <2> QED BY <2>2, ClosingActs
<1> QED BY <1>1, <1>2 DEF ReceiveAnswer

LEMMA TimeoutActs ==
  ASSUME DuplexInv, NEW e \in Ends, BlockTimeout(e) \/ CloseTimeout(e)
  PROVE  DuplexInv'
<1>1. CASE BlockTimeout(e)
  <2>1. PICK n \in end[e].inFlight : Stretch(e, SettleBlock(Start(e), n, "timeout"), FALSE) /\ Opens
    BY <1>1 DEF BlockTimeout, Does
  <2>2. n \in Blocks
    BY <2>1 DEF DuplexInv, Typed, Duplexes
  <2> QED BY <2>1, <2>2, SettlingActs
<1>2. CASE CloseTimeout(e)
  <2>1. /\ end[e].aborting \/ end[e].closing \in {"sent", "telling"}
        /\ Stretch(e, SettleClose(Start(e), FALSE), FALSE) /\ Opens
    BY <1>2 DEF CloseTimeout, Does
  <2> QED BY <2>1, ClosingActs
<1> QED BY <1>1, <1>2

-----------------------------------------------------------------------------
(* The beginning. *)

Registered(S) == [S EXCEPT !.half = "live"]

LEMMA BeginKeeps ==
  ASSUME NEW S, NEW R, NEW h, NEW k, NEW q, NEW r, Pair(S, h, R, k, q, r), S.half = "none", R.sent = 0,
         NEW g, NEW o \in {<<>>, <<Open>>}, NEW r2,
         r2 = r \/ (r # <<>> /\ Head(r) = Open /\ r2 = Tail(r))
  PROVE  Pair(Registered(S), g, R, k, q \o o, r2) /\ Registered(S).half = "live" /\ Registered(S).closes = 0
<1> DEFINE Z == Registered(S)
<1>1. /\ S \in Duplexes /\ R \in Duplexes /\ q \in Seq(Stanzas) /\ r \in Seq(Stanzas)
      /\ Own(S, h) /\ Own(R, k) /\ Link(S, R, q, r) /\ Link(R, S, r, q) /\ S = Untouched
  BY DEF Pair, Own
<1>2. /\ Z \in Duplexes /\ Z.half = "live" /\ Z.withheld = S.withheld /\ Z.closes = S.closes
      /\ Z.sent = S.sent /\ Z.inFlight = S.inFlight
      /\ Z.closedByPeer = S.closedByPeer /\ Z.failed = S.failed /\ Z.closing = S.closing
      /\ Z.refused = S.refused /\ Z.aborting = S.aborting /\ Z.closeSent = S.closeSent
  BY <1>1 DEF Duplexes, Registered
<1>11. Z = [S EXCEPT !.half = "live"]
  BY DEF Registered
<1> HIDE DEF Z
<1>3. /\ S.withheld = <<>> /\ S.closes = 0 /\ S.sent = 0 /\ ~S.closedByPeer /\ S.closing = "no" /\ S.refused = "no"
      /\ ~S.aborting /\ ~S.closeSent
  BY <1>1 DEF Untouched
<1>4. Own(Z, g)
  BY <1>2, <1>3 DEF Own
<1>5. /\ o \in Seq(Stanzas) /\ ~OnWay(o, CloseIq) /\ ~OnWay(o, NoClose) /\ \A n \in Blocks : ~OnWay(o, Data(n))
  <2>1. CASE o = <<>>
    BY <2>1, Nothing
  <2>2. CASE o = <<Open>>
    <3>1. NoClose # Open
      BY Kinds, Forms DEF NoClose, Results
    <3> QED BY <2>2, <3>1, Alone, Kinds, Forms
  <2> QED BY <2>1, <2>2
<1>6. Open # CloseIq /\ \A n \in Blocks : ~IsReply(Open, n)
  BY Kinds, Forms
<1>7. Link(Z, R, q \o o, r2)
  <2> DEFINE c == 0
  <2>1. \/ r2 = r
        \/ /\ r # <<>> /\ r2 = Tail(r)
           /\ (\A n \in Blocks : ~IsReply(Head(r), n)) /\ Head(r) # CloseIq
    BY <1>6
  <2>2. ASSUME NEW T \in Duplexes, T.sent = S.sent, T.inFlight = S.inFlight,
               T.closedByPeer = S.closedByPeer, T.closes = S.closes, T.closing = S.closing, T.failed = S.failed
        PROVE  Link(T, R, q \o o, r2)
    <3>1. /\ S.failed # "no" => T.failed # "no"
          /\ S.closedByPeer => T.closedByPeer
          /\ S.closes > 0 => T.closes > 0
          /\ T.closing \notin {"sent", "resolved"} /\ ~T.closedByPeer
      BY <1>3, <2>2
    <3> QED BY <1>1, <1>3, <1>5, <2>1, <2>2, <3>1, SenderKeeps
  <2> QED BY <1>2, <2>2
<1>8. Link(R, Z, r2, q \o o)
  <2>1. Z \in Duplexes /\ S.withheld = <<>>
    BY <1>2, <1>3
  <2> QED BY <1>1, <1>5, <1>11, <2>1, ReceiverBegins
<1>9. q \o o \in Seq(Stanzas) /\ r2 \in Seq(Stanzas)
  <2>1. r # <<>> => Tail(r) \in Seq(Stanzas)
    BY <1>1
  <2>2. \A a \in Seq(Stanzas) : q \o a \in Seq(Stanzas)
    BY <1>1
  <2> QED BY <1>1, <1>5, <2>1, <2>2
<1>10. Pair(Z, g, R, k, q \o o, r2) /\ Z.half = "live" /\ Z.closes = 0
  BY <1>1, <1>2, <1>3, <1>4, <1>7, <1>8, <1>9 DEF Pair
<1> QED BY <1>10 DEF Z

(* Where a stretch leaves the stanzas. *)
LEMMA Delivered ==
  ASSUME DuplexInv, NEW e \in Ends, NEW x, NEW consumed \in BOOLEAN, Stretch(e, x, consumed),
         x.out \in Seq(Stanzas), consumed => channel[e] # <<>>
  PROVE  /\ \A m : OnWay(channel'[e], m) => OnWay(channel[e], m)
         /\ \A m : OnWay(channel'[Peer(e)], m) => OnWay(channel[Peer(e)], m) \/ OnWay(x.out, m)
         /\ consumed => OnWay(channel[e], Head(channel[e]))
<1>1. Typed
  BY DEF DuplexInv
<1>2. channel'[Peer(e)] = channel[Peer(e)] \o x.out /\ channel'[e] = Rear(e, consumed)
  <2>1. channel'[Peer(e)] = channel[Peer(e)] \o x.out
    <3>1. Peer(e) \in DOMAIN channel /\ Peer(e) # e
      BY <1>1, TwoEnds DEF Typed
    <3>2. channel' = [channel EXCEPT ![Peer(e)] = @ \o x.out, ![e] = IF consumed THEN Tail(@) ELSE @]
      BY DEF Stretch
    <3> QED BY <3>1, <3>2
  <2>2. channel'[e] = Rear(e, consumed)
    BY <1>1, Stretched
  <2> QED BY <2>1, <2>2
<1>3. channel[e] \in Seq(Stanzas) /\ channel[Peer(e)] \in Seq(Stanzas)
  BY <1>1, TwoEnds DEF Typed
<1>4. CASE consumed
  <2>1. /\ \A m : OnWay(Tail(channel[e]), m) => OnWay(channel[e], m)
        /\ OnWay(channel[e], Head(channel[e]))
    BY <1>3, <1>4, Behind
  <2>2. channel'[e] = Tail(channel[e])
    BY <1>2, <1>4 DEF Rear
  <2> QED BY <1>2, <1>3, <2>1, <2>2, Joined
<1>5. CASE ~consumed
  <2>1. channel'[e] = channel[e]
    BY <1>2, <1>5 DEF Rear
  <2> QED BY <1>2, <1>3, <1>5, <2>1, Joined
<1> QED BY <1>4, <1>5

(* An action of the opening: what remains to show of it. *)
LEMMA OpeningActs ==
  ASSUME DuplexInv, NEW e \in Ends, NEW x, NEW consumed \in BOOLEAN, Stretch(e, x, consumed),
         x.out \in Seq(Stanzas), consumed => channel[e] # <<>>,
         NEW g, HasHandle(e)' = g,
         Pair(x.st, g, end[Peer(e)], HasHandle(Peer(e)), channel[Peer(e)] \o x.out, Rear(e, consumed)),
         HasHandle(Peer(e))' = HasHandle(Peer(e)),
         opening' \in {"no", "asked", "open", "discarded"}, expects' \in {"no", "waiting", "over"},
         parked' \in BOOLEAN, accepting' \in BOOLEAN,
         OpenOf'
  PROVE  DuplexInv'
<1>1. Typed' /\ \A d \in Ends : Own(end[d], HasHandle(d))' /\ LinkOf(d)'
  BY StretchKeeps
<1> QED BY <1>1 DEF DuplexInv

LEMMA OpenDuplexIs ==
  ASSUME DuplexInv, "a" \in Ends
  PROVE  LET x == Puts([Start("a") EXCEPT !.st.half = "live"], <<Open>>) IN
         x.st = Registered(end["a"]) /\ x.out = <<Open>>
<1> DEFINE w == [Start("a") EXCEPT !.st.half = "live"]
           Z == Registered(end["a"])
<1>1. Start("a").st = end["a"] /\ Start("a") \in X /\ Start("a").out = <<>>
  BY PairOf DEF Start
<1>2. w.st = Z /\ w.out = <<>>
  BY <1>1 DEF X, Duplexes, Registered
<1>3. w \in X
  BY <1>1, <1>2 DEF X, Duplexes, Registered
<1> HIDE DEF w, Z
<1>4. <<Open>> \in Seq(Stanzas)
  BY Alone, Kinds
<1>5. Puts(w, <<Open>>).st = w.st /\ Puts(w, <<Open>>).out = w.out \o <<Open>>
  BY <1>3, <1>4, PutsIs
<1>6. <<>> \o <<Open>> = <<Open>>
  BY <1>4
<1> QED BY <1>2, <1>5, <1>6 DEF w, Z

LEMMA OpenDuplexActs ==
  ASSUME DuplexInv, OpenDuplex
  PROVE  DuplexInv'
<1> DEFINE S == end["a"]
           x == Puts([Start("a") EXCEPT !.st.half = "live"], <<Open>>)
           Z == Registered(S)
<1>1. /\ opening = "no" /\ opening' = "asked" /\ expects' = expects /\ parked' = parked /\ accepting' = accepting
      /\ Stretch("a", x, FALSE)
  BY DEF OpenDuplex
<1>2. "a" \in Ends /\ "b" \in Ends /\ Peer("a") = "b" /\ Peer("b") = "a"
  BY DEF Ends, Peer
<1>3. /\ Pair(S, HasHandle("a"), end["b"], HasHandle("b"), channel["b"], channel["a"])
      /\ Start("a").st = S /\ Start("a") \in X /\ Start("a").out = <<>>
  BY <1>2, PairOf DEF Start
<1>4. Typed /\ OpenOf
  BY DEF DuplexInv
<1>5. S.half = "none" /\ end["b"].half = "none"
  BY <1>1, <1>4 DEF OpenOf
<1>6. end["b"].sent = 0
  BY <1>3, <1>5 DEF Pair, Own, Untouched
<1>7. /\ Pair(Z, FALSE, end["b"], HasHandle("b"), channel["b"] \o <<Open>>, channel["a"])
      /\ Z.half = "live" /\ Z.closes = 0
  <2> DEFINE o == <<Open>>
  <2>1. o \in {<<>>, <<Open>>} /\ channel["a"] = channel["a"]
    OBVIOUS
  <2> HIDE DEF o, S
  <2>2. /\ Pair(Registered(S), FALSE, end["b"], HasHandle("b"), channel["b"] \o o, channel["a"])
        /\ Registered(S).half = "live" /\ Registered(S).closes = 0
    BY <1>3, <1>5, <1>6, <2>1, BeginKeeps
  <2> QED BY <2>2 DEF o, S
<1>8. x.st = Z /\ x.out = <<Open>>
  BY <1>2, OpenDuplexIs
<1> HIDE DEF x, Z
<1>9. x.out \in Seq(Stanzas) /\ \A m : OnWay(x.out, m) => m = Open
  BY <1>8, Alone, Kinds
<1>10. Answer(Open, "ok") # Open
  BY Kinds, Forms DEF Results
<1>11. /\ \A m : OnWay(channel'["a"], m) => OnWay(channel["a"], m)
  BY <1>1, <1>2, <1>9, Delivered
<1>12. end'["a"] = Z /\ end'["b"] = end["b"]
  BY <1>1, <1>2, <1>4, <1>8, Stretched
<1>13. OpenOf'
  BY <1>1, <1>4, <1>5, <1>7, <1>11, <1>12 DEF OpenOf
<1>14. HasHandle("a")' = FALSE /\ HasHandle("b")' = HasHandle("b")
  BY <1>1, <1>12 DEF HasHandle
<1>15. Rear("a", FALSE) = channel["a"]
  BY DEF Rear
<1>16. opening' \in {"no", "asked", "open", "discarded"} /\ expects' \in {"no", "waiting", "over"}
       /\ parked' \in BOOLEAN /\ accepting' \in BOOLEAN
  BY <1>1, <1>4 DEF Typed
<1>17. Pair(x.st, FALSE, end["b"], HasHandle("b"), channel["b"] \o x.out, Rear("a", FALSE))
  BY <1>7, <1>8, <1>15
<1> QED BY <1>1, <1>2, <1>9, <1>13, <1>14, <1>16, <1>17, OpeningActs

(* b claims the <open>, that was parked or arrives. *)
LEMMA ClaimingActs ==
  ASSUME DuplexInv, NEW consumed \in BOOLEAN, Stretch("b", Claim, consumed),
         expects # "over", expects' = "over", opening' = opening, accepting' = TRUE, parked' \in BOOLEAN,
         parked' => parked,
         parked \/ consumed, consumed => channel["b"] # <<>> /\ Head(channel["b"]) = Open
  PROVE  DuplexInv'
<1> DEFINE S == end["b"]
           Z == Registered(S)
           x == Claim
<1>1. "a" \in Ends /\ "b" \in Ends /\ Peer("a") = "b" /\ Peer("b") = "a"
  BY DEF Ends, Peer
<1>2. /\ Pair(S, HasHandle("b"), end["a"], HasHandle("a"), channel["a"], channel["b"])
      /\ Start("b").st = S /\ Start("b") \in X /\ Start("b").out = <<>>
  BY <1>1, PairOf DEF Start
<1>3. Typed /\ OpenOf
  BY DEF DuplexInv
<1>4. S.half = "none" /\ opening # "open"
  BY <1>3 DEF OpenOf
<1>5. end["a"].sent = 0
  <2>1. end["a"].sent \in Nat
    BY <1>2, DuplexAssumption DEF Pair, Duplexes
  <2> QED BY <1>2, <1>4, <2>1 DEF Pair, Own, HasHandle
<1>6. x.st = Z /\ x.out = <<>>
  BY <1>2 DEF Claim, X, Duplexes, Registered
<1>7. Rear("b", consumed) = channel["b"]
      \/ (channel["b"] # <<>> /\ Head(channel["b"]) = Open /\ Rear("b", consumed) = Tail(channel["b"]))
  BY DEF Rear
<1>8. /\ Pair(Z, TRUE, end["a"], HasHandle("a"), channel["a"] \o <<>>, Rear("b", consumed))
      /\ Z.half = "live" /\ Z.closes = 0
  <2> DEFINE o == <<>>
             r2 == Rear("b", consumed)
  <2>1. o \in {<<>>, <<Open>>}
    OBVIOUS
  <2> HIDE DEF o, r2, S
  <2>2. /\ Pair(Registered(S), TRUE, end["a"], HasHandle("a"), channel["a"] \o o, r2)
        /\ Registered(S).half = "live" /\ Registered(S).closes = 0
    BY <1>2, <1>4, <1>5, <1>7, <2>1, BeginKeeps DEF r2
  <2> QED BY <2>2 DEF o, r2, S
<1> HIDE DEF x, Z
<1>9. x.out \in Seq(Stanzas) /\ \A m : ~OnWay(x.out, m)
  BY <1>6, Nothing
<1>10. Stretch("b", x, consumed)
  BY DEF x
<1>11. /\ \A m : OnWay(channel'["b"], m) => OnWay(channel["b"], m)
       /\ \A m : OnWay(channel'["a"], m) => OnWay(channel["a"], m)
       /\ consumed => OnWay(channel["b"], Open)
  BY <1>1, <1>9, <1>10, Delivered
<1>12. end'["b"] = Z /\ end'["a"] = end["a"]
  <2>1. end'["b"] = x.st
    <3>1. end' = [end EXCEPT !["b"] = x.st] /\ DOMAIN end = Ends
      BY <1>3, <1>10 DEF Stretch, Typed
    <3> QED BY <1>1, <3>1
  <2>2. end'["a"] = end["a"]
    BY <1>1, <1>3, <1>10, Stretched
  <2> QED BY <1>6, <2>1, <2>2
<1>13. opening # "no"
  BY <1>3, <1>11 DEF OpenOf
<1>14. OpenOf'
  BY <1>3, <1>8, <1>11, <1>12, <1>13 DEF OpenOf
<1>15. HasHandle("b")' = TRUE /\ HasHandle("a")' = HasHandle("a")
  BY <1>8, <1>12 DEF HasHandle
<1>16. opening' \in {"no", "asked", "open", "discarded"} /\ expects' \in {"no", "waiting", "over"}
       /\ accepting' \in BOOLEAN
  BY <1>3 DEF Typed
<1>17. Pair(x.st, TRUE, end["a"], HasHandle("a"), channel["a"] \o x.out, Rear("b", consumed))
  BY <1>6, <1>8
<1> QED BY <1>1, <1>9, <1>10, <1>14, <1>15, <1>16, <1>17, OpeningActs

(* An end hears or says something of the opening, and is as it was. *)
LEMMA SayingActs ==
  ASSUME DuplexInv, NEW e \in Ends, NEW x, NEW consumed \in BOOLEAN, Stretch(e, x, consumed),
         x.st = end[e], x.out = <<>> \/ \E res \in Results : x.out = <<Answer(Open, res)>>,
         consumed => /\ channel[e] # <<>>
                     /\ Head(channel[e]) = Open \/ \E res \in Results : Head(channel[e]) = Answer(Open, res),
         HasHandle(Peer(e))' = HasHandle(Peer(e)), Own(end[e], HasHandle(e)'),
         opening' \in {"no", "asked", "open", "discarded"}, expects' \in {"no", "waiting", "over"},
         parked' \in BOOLEAN, accepting' \in BOOLEAN,
         OpenOf'
  PROVE  DuplexInv'
<1> DEFINE S == end[e]
           r == channel[e]
           q == channel[Peer(e)]
           R == end[Peer(e)]
           h == HasHandle(e)
           k == HasHandle(Peer(e))
           g == HasHandle(e)'
           r2 == Rear(e, consumed)
           o == x.out
<1>1. Pair(S, h, R, k, q, r)
  BY PairOf
<1>2. S \in Duplexes
  BY <1>1 DEF Pair
<1>3. \A m \in {Open} \cup {Answer(Open, res) : res \in Results} :
        /\ m # CloseIq /\ m # OkClose /\ m # NoClose /\ m \in Stanzas
        /\ \A n \in Blocks : m # Data(n) /\ ~IsReply(m, n)
  BY Kinds, Forms DEF OkClose, NoClose, Results
<1>4. o = <<>> \/ \E m \in {Answer(Open, res) : res \in Results} : o = <<m>>
  OBVIOUS
<1> HIDE DEF o
<1>5. /\ o \in Seq(Stanzas) /\ Single(o) /\ ~OnWay(o, CloseIq) /\ ~OnWay(o, OkClose) /\ ~OnWay(o, NoClose)
      /\ \A n \in Blocks : ~OnWay(o, Data(n)) /\ ~Replied(o, n)
  <2>1. CASE o = <<>>
    BY <2>1, Nothing
  <2>2. CASE o # <<>>
    <3>1. PICK m \in {Answer(Open, res) : res \in Results} : o = <<m>>
      BY <1>4, <2>2
    <3> QED BY <1>3, <3>1, Alone
  <2> QED BY <2>1, <2>2
<1>6. \/ r2 = r
      \/ /\ r # <<>> /\ r2 = Tail(r) /\ Head(r) # CloseIq
         /\ \A n \in Blocks : Head(r) # Data(n) /\ ~IsReply(Head(r), n)
         /\ Head(r) # NoClose
  <2>1. CASE consumed
    <3>1. Head(r) \in {Open} \cup {Answer(Open, res) : res \in Results}
      BY <2>1
    <3> QED BY <1>3, <2>1, <3>1 DEF Rear
  <2>2. CASE ~consumed
    BY <2>2 DEF Rear
  <2> QED BY <2>1, <2>2
<1>7. Own(S, g)
  OBVIOUS
<1> HIDE DEF S, R, q, r, h, k, g, r2
<1>8. Pair(S, g, R, k, q \o o, r2)
  BY <1>1, <1>2, <1>5, <1>6, <1>7, NotingKeeps
<1> QED BY <1>5, <1>8, OpeningActs DEF S, R, q, r, h, k, g, r2, o

LEMMA ExpectActs ==
  ASSUME DuplexInv, ExpectDuplex \/ ExpectTimeout
  PROVE  DuplexInv'
<1>1. CASE ExpectDuplex /\ parked
  <2>1. /\ expects = "no" /\ expects' = "over" /\ accepting' = TRUE /\ parked' = FALSE /\ opening' = opening
        /\ Stretch("b", Claim, FALSE)
    BY <1>1 DEF ExpectDuplex
  <2> QED BY <1>1, <2>1, ClaimingActs
<1>2. CASE (ExpectDuplex /\ ~parked) \/ ExpectTimeout
  <2>1. /\ end' = end /\ channel' = channel /\ faults' = faults /\ opening' = opening /\ accepting' = accepting
        /\ (parked' = FALSE \/ parked' = parked) /\ expects # "over" /\ expects' \in {"waiting", "over"}
    BY <1>2 DEF ExpectDuplex, ExpectTimeout
  <2>2. Typed /\ OpenOf
    BY DEF DuplexInv
  <2>3. Typed'
    BY <2>1, <2>2 DEF Typed
  <2>4. OpenOf'
    <3>1. (parked' => parked) /\ (accepting' => accepting)
      BY <2>1
    <3>2. /\ opening = "no" <=> end["a"].half = "none"
          /\ end["b"].half = "none"
          /\ opening = "open" \/ accepting \/ OnWay(channel["a"], Answer(Open, "ok")) => end["b"].half # "none"
          /\ opening = "asked" /\ end["a"].closes > 0 => end["a"].failed # "no"
          /\ parked \/ end["b"].half # "none" \/ OnWay(channel["b"], Open) => opening # "no"
      BY <2>1, <2>2 DEF OpenOf
    <3>3. end' = end /\ channel' = channel /\ opening' = opening
      BY <2>1
    <3> QED BY <3>1, <3>2, <3>3 DEF OpenOf
  <2>5. \A e \in Ends : HasHandle(e)' = HasHandle(e) /\ (LinkOf(e)' <=> LinkOf(e))
    BY <2>1 DEF HasHandle, LinkOf, Peer
  <2>6. \A e \in Ends : Own(end[e], HasHandle(e))' /\ LinkOf(e)'
    BY <2>1, <2>5 DEF DuplexInv
  <2> QED BY <2>3, <2>4, <2>6 DEF DuplexInv
<1> QED BY <1>1, <1>2

LEMMA ReceiveOpenActs ==
  ASSUME DuplexInv, ReceiveOpen
  PROVE  DuplexInv'
<1>1. /\ channel["b"] # <<>> /\ Head(channel["b"]) = Open /\ opening' = opening /\ Typed /\ OpenOf
      /\ "a" \in Ends /\ "b" \in Ends /\ Peer("b") = "a" /\ Peer("a") = "b"
  BY DEF ReceiveOpen, DuplexInv, Ends, Peer
<1>2. CASE expects = "waiting"
  <2>1. expects' = "over" /\ accepting' = TRUE /\ parked' = parked /\ Stretch("b", Claim, TRUE)
    BY <1>2 DEF ReceiveOpen
  <2>2. parked' \in BOOLEAN
    BY <1>1, <2>1 DEF Typed
  <2> QED BY <1>1, <1>2, <2>1, <2>2, ClaimingActs
<1>3. CASE expects # "waiting"
  <2> DEFINE x == Start("b")
  <2>1. parked' = TRUE /\ expects' = expects /\ accepting' = accepting /\ Stretch("b", x, TRUE)
    BY <1>3 DEF ReceiveOpen
  <2>2. x.st = end["b"] /\ x.out = <<>>
    BY DEF Start
  <2>3. /\ \A m : OnWay(channel'["b"], m) => OnWay(channel["b"], m)
        /\ \A m : OnWay(channel'["a"], m) => OnWay(channel["a"], m) \/ OnWay(x.out, m)
        /\ OnWay(channel["b"], Open)
    BY <1>1, <2>1, <2>2, Nothing, Delivered
  <2>4. \A m : ~OnWay(x.out, m)
    BY <2>2, Nothing
  <2>5. end'["b"] = end["b"]
    BY <1>1, <2>1, <2>2, Stretched
  <2>6. end'["a"] = end["a"]
    BY <1>1, <2>1, Stretched
  <2>7. opening # "no"
    BY <1>1, <2>3 DEF OpenOf
  <2>8. OpenOf'
    BY <1>1, <2>1, <2>3, <2>4, <2>5, <2>6, <2>7 DEF OpenOf
  <2>9. HasHandle("b")' = HasHandle("b") /\ HasHandle("a")' = HasHandle("a")
    BY <1>1, <2>5 DEF HasHandle
  <2>10. Own(end["b"], HasHandle("b")')
    BY <1>1, <2>9 DEF DuplexInv
  <2>11. /\ opening' \in {"no", "asked", "open", "discarded"} /\ expects' \in {"no", "waiting", "over"}
         /\ parked' \in BOOLEAN /\ accepting' \in BOOLEAN
    BY <1>1, <2>1 DEF Typed
  <2> HIDE DEF x
  <2> QED BY <1>1, <2>1, <2>2, <2>8, <2>9, <2>10, <2>11, SayingActs
<1> QED BY <1>2, <1>3

LEMMA AnsweringActs ==
  ASSUME DuplexInv, AnswerOpen \/ AcceptTimeout
  PROVE  DuplexInv'
<1>1. PICK res \in {"ok", "not-acceptable"} :
        /\ Stretch("b", Puts(Start("b"), <<Answer(Open, res)>>), FALSE)
        /\ opening' = opening /\ expects' = expects
        /\ (parked' = FALSE \/ parked' = parked) /\ (accepting' = FALSE \/ accepting' = accepting)
        /\ res = "ok" => accepting
  BY DEF AnswerOpen, AcceptTimeout
<1>2. /\ Typed /\ OpenOf /\ "a" \in Ends /\ "b" \in Ends /\ Peer("b") = "a" /\ Peer("a") = "b"
  BY DEF DuplexInv, Ends, Peer
<1> DEFINE a == Answer(Open, res)
           x == Puts(Start("b"), <<a>>)
<1>3. res \in Results /\ a \in Stanzas /\ a # Open /\ (a = Answer(Open, "ok") => res = "ok")
  BY Kinds, Forms DEF Results
<1>4. x.st = end["b"] /\ x.out = <<a>>
  <2> HIDE DEF a
  <2>1. Start("b") \in X /\ Start("b").st = end["b"] /\ Start("b").out = <<>>
    BY <1>2, PairOf DEF Start
  <2>2. <<a>> \in Seq(Stanzas) /\ <<>> \o <<a>> = <<a>>
    BY <1>3
  <2> QED BY <2>1, <2>2, PutsIs
<1> HIDE DEF x
<1>5. x.out \in Seq(Stanzas) /\ \A m : OnWay(x.out, m) => m = a
  BY <1>3, <1>4, Alone
<1>6. Stretch("b", x, FALSE)
  BY <1>1 DEF x
<1>7. /\ \A m : OnWay(channel'["b"], m) => OnWay(channel["b"], m)
      /\ \A m : OnWay(channel'["a"], m) => OnWay(channel["a"], m) \/ OnWay(x.out, m)
  BY <1>2, <1>5, <1>6, Delivered
<1>8. end'["b"] = end["b"]
  BY <1>2, <1>4, <1>6, Stretched
<1>9. end'["a"] = end["a"]
  BY <1>2, <1>6, Stretched
<1>10. OnWay(channel'["a"], Answer(Open, "ok")) => end["b"].half # "none"
  BY <1>1, <1>2, <1>3, <1>5, <1>7 DEF OpenOf
<1>11. OpenOf'
  <2>1. (parked' => parked) /\ (accepting' => accepting)
    BY <1>1
  <2>2. /\ opening = "no" <=> end["a"].half = "none"
        /\ expects # "over" => end["b"].half = "none"
        /\ opening = "open" \/ accepting => end["b"].half # "none"
        /\ opening = "asked" /\ end["a"].closes > 0 => end["a"].failed # "no"
        /\ parked \/ end["b"].half # "none" \/ OnWay(channel["b"], Open) => opening # "no"
    BY <1>2 DEF OpenOf
  <2>3. OnWay(channel'["b"], Open) => OnWay(channel["b"], Open)
    BY <1>7
  <2>4. opening' = opening /\ expects' = expects
    BY <1>1
  <2> QED BY <1>8, <1>9, <1>10, <2>1, <2>2, <2>3, <2>4 DEF OpenOf
<1>12. HasHandle("b")' = HasHandle("b") /\ HasHandle("a")' = HasHandle("a")
  BY <1>1, <1>8 DEF HasHandle
<1>13. Own(end["b"], HasHandle("b")')
  BY <1>2, <1>12 DEF DuplexInv
<1>14. /\ opening' \in {"no", "asked", "open", "discarded"} /\ expects' \in {"no", "waiting", "over"}
       /\ parked' \in BOOLEAN /\ accepting' \in BOOLEAN
  BY <1>1, <1>2 DEF Typed
<1> QED BY <1>2, <1>3, <1>4, <1>6, <1>11, <1>12, <1>13, <1>14, SayingActs

(* discard(): the opener buries a half nobody has a handle to. *)
(* What a's discard() leaves, told or not. *)
Leaves(y, R, k, q, r2) ==
  Pair(y.st, FALSE, R, k, q \o y.out, r2) /\ y.st.half = "gone" /\ y \in X /\ Quiet(y.out)

LEMMA DiscardKeeps ==
  ASSUME NEW S, NEW R, NEW k, NEW q, NEW r, Pair(S, FALSE, R, k, q, r), S.half # "none", NEW r2,
         r2 = r \/ (r # <<>> /\ r2 = Tail(r) /\ \E res \in Results : Head(r) = Answer(Open, res)),
         NEW x, x = [st |-> S, out |-> <<>>]
  PROVE  /\ Leaves(Discard(x), R, k, q, r2)
         /\ Discard(x).st.closes = S.closes /\ Discard(x).st.failed = S.failed
         /\ Leaves(SendClose(Discard(x)), R, k, q, r2)
<1>1. /\ S \in Duplexes /\ R \in Duplexes /\ q \in Seq(Stanzas) /\ r \in Seq(Stanzas)
      /\ Own(S, FALSE) /\ Link(R, S, r, q)
  BY DEF Pair
<1> DEFINE w == [x EXCEPT !.st.peerKnows = TRUE]
           d == Discard(x)
           y == SendClose(Discard(x))
<1>2. x \in X /\ x.st = S /\ x.out = <<>>
  <2>1. <<>> \in Seq(Stanzas)
    OBVIOUS
  <2> QED BY <1>1, <2>1 DEF X
<1>3. w.st = [S EXCEPT !.peerKnows = TRUE] /\ w.out = <<>>
  BY <1>2 DEF X, Duplexes
<1>4. w \in X
  BY <1>1, <1>2, <1>3 DEF X, Duplexes
<1>5. d = Buried(w)
  BY DEF Discard
<1> HIDE DEF w, d, y
<1>6. /\ w.st \in Duplexes
      /\ w.st.half = S.half /\ w.st.withheld = S.withheld /\ w.st.closes = S.closes
      /\ w.st.taken = S.taken /\ w.st.refused = S.refused /\ w.st.sent = S.sent /\ w.st.inFlight = S.inFlight
      /\ w.st.closedByPeer = S.closedByPeer /\ w.st.failed = S.failed /\ w.st.closing = S.closing
      /\ w.st.aborting = S.aborting /\ w.st.peerKnows /\ w.st.closeSent = S.closeSent
      /\ w.st.onFailDue = S.onFailDue
  BY <1>1, <1>3 DEF Duplexes
<1>7. Own(w.st, FALSE)
  BY <1>1, <1>6 DEF Own
<1>8. /\ \A res \in Results : LET m == Answer(Open, res) IN
             /\ m # CloseIq /\ m # NoClose /\ \A n \in Blocks : m # Data(n) /\ ~IsReply(m, n)
  BY Kinds, Forms DEF NoClose, Results
<1>9. \/ r2 = r
      \/ /\ r # <<>> /\ r2 = Tail(r) /\ Head(r) # CloseIq
         /\ \A n \in Blocks : Head(r) # Data(n) /\ ~IsReply(Head(r), n)
         /\ Head(r) = NoClose => S.half = "gone"
  BY <1>8
<1>10. Pair(w.st, FALSE, R, k, q \o <<>>, r2)
  BY <1>1, <1>6, <1>7, <1>9, Nothing, NotingKeeps
<1>11. q \o <<>> = q
  BY <1>1
<1>12. Begun(w)
  <2>1. Distinct(S.withheld) /\ (S.half # "live" => S.withheld = <<>>)
    BY <1>1 DEF Link, Carried, Own, Distinct
  <2> QED BY <1>3, <1>4, <1>6, <2>1 DEF Begun
<1>13. Burial(w.st, d) /\ Rest(w.st, d.st)
  BY <1>5, <1>12, BuriedIs
<1>14. /\ d.st.half = "gone" /\ d.st.closes = S.closes /\ d.st.failed = S.failed /\ d.st.withheld = <<>>
       /\ d.st.closing = S.closing /\ Same(w.st, d.st) /\ d \in X /\ Quiet(d.out)
       /\ d.st.peerKnows = w.st.peerKnows /\ d.st.aborting = S.aborting /\ d.st.closeSent = S.closeSent
  BY <1>6, <1>13 DEF Burial, Rest, Quiet, Parting
<1>15. Own(d.st, FALSE)
  BY <1>6, <1>7, <1>14 DEF Own, Same
<1>16. S.closing = "no"
  BY <1>1 DEF Own
<1>17. /\ w.st.failed # "no" => d.st.failed # "no"
       /\ d.st.closing \notin {"sent", "resolved"}
  BY <1>6, <1>14, <1>16
<1>18. Pair(d.st, FALSE, R, k, q \o d.out, r2)
  BY <1>10, <1>11, <1>13, <1>15, <1>17, EndingKeeps
<1>19. Departure(w.st, y) /\ Rest(w.st, y.st)
  BY <1>5, <1>12, DepartureIs DEF d, y
<1>20. /\ y.st.half = "gone" /\ y.st.failed = S.failed /\ y.st.withheld = <<>> /\ y.st.closes > 0
       /\ y.st.closing = S.closing /\ Same(w.st, y.st) /\ y \in X /\ Quiet(y.out)
       /\ y.st.peerKnows /\ y.st.aborting = S.aborting /\ y.st.closeSent = S.closeSent
  <2>1. w.st.closes \in Nat
    BY <1>6 DEF Duplexes
  <2> QED BY <1>6, <1>19, <2>1 DEF Departure, Rest, Quiet, Parting
<1>21. Own(y.st, FALSE)
  BY <1>6, <1>7, <1>20 DEF Own, Same
<1>22. /\ w.st.failed # "no" => y.st.failed # "no"
       /\ y.st.closing \notin {"sent", "resolved"}
  BY <1>6, <1>16, <1>20
<1>23. Pair(y.st, FALSE, R, k, q \o y.out, r2)
  BY <1>10, <1>11, <1>19, <1>21, <1>22, EndingKeeps
<1> QED BY <1>14, <1>18, <1>20, <1>23 DEF d, y, Leaves

LEMMA ReceiveOpenAnswerActs ==
  ASSUME DuplexInv, ReceiveOpenAnswer
  PROVE  DuplexInv'
<1> DEFINE S == end["a"]
           x == Start("a")
<1>1. /\ Typed /\ OpenOf /\ "a" \in Ends /\ "b" \in Ends /\ Peer("b") = "a" /\ Peer("a") = "b"
      /\ expects' = expects /\ parked' = parked /\ accepting' = accepting
  BY DEF ReceiveOpenAnswer, DuplexInv, Ends, Peer
<1>2. PICK res \in {"ok", "not-acceptable"} :
        /\ channel["a"] # <<>> /\ Head(channel["a"]) = Answer(Open, res)
        /\ IF opening # "asked" THEN Stretch("a", Start("a"), TRUE) /\ UNCHANGED opening
           ELSE IF res = "ok" THEN opening' = "open" /\ Stretch("a", Start("a"), TRUE)
           ELSE opening' = "discarded" /\ Stretch("a", Discard(Start("a")), TRUE)
  BY DEF ReceiveOpenAnswer
<1>3. res \in Results
  BY DEF Results
<1>4. /\ Pair(S, HasHandle("a"), end["b"], HasHandle("b"), channel["b"], channel["a"])
      /\ x.st = S /\ x.out = <<>> /\ x = [st |-> S, out |-> <<>>]
  BY <1>1, PairOf DEF Start
<1>5. /\ expects' \in {"no", "waiting", "over"} /\ parked' \in BOOLEAN /\ accepting' \in BOOLEAN
  BY <1>1 DEF Typed
<1>6. CASE opening # "asked" \/ res = "ok"
  <2>1. /\ Stretch("a", x, TRUE)
        /\ opening' = opening \/ (opening = "asked" /\ opening' = "open" /\ res = "ok")
    BY <1>2, <1>6
  <2>2. /\ \A m : OnWay(channel'["a"], m) => OnWay(channel["a"], m)
        /\ \A m : OnWay(channel'["b"], m) => OnWay(channel["b"], m)
        /\ OnWay(channel["a"], Answer(Open, res))
    BY <1>1, <1>2, <1>4, <2>1, Nothing, Delivered
  <2>3. end'["a"] = S
    BY <1>1, <1>4, <2>1, Stretched
  <2>4. end'["b"] = end["b"]
    BY <1>1, <2>1, Stretched
  <2>5. OpenOf'
    <3>1. /\ opening' = "no" <=> opening = "no"
          /\ opening' = "asked" => opening = "asked"
          /\ opening' = "open" => end["b"].half # "none"
      BY <1>1, <2>1, <2>2 DEF OpenOf
    <3>2. /\ opening = "no" <=> end["a"].half = "none"
          /\ expects # "over" => end["b"].half = "none"
          /\ accepting \/ OnWay(channel["a"], Answer(Open, "ok")) => end["b"].half # "none"
          /\ opening = "asked" /\ end["a"].closes > 0 => end["a"].failed # "no"
          /\ parked \/ end["b"].half # "none" \/ OnWay(channel["b"], Open) => opening # "no"
      BY <1>1 DEF OpenOf
    <3> QED BY <1>1, <2>2, <2>3, <2>4, <3>1, <3>2 DEF OpenOf
  <2>6. HasHandle("b")' = HasHandle("b")
    BY <2>4 DEF HasHandle
  <2>7. Own(S, HasHandle("a")')
    <3>1. CASE opening' = opening
      <4>1. HasHandle("a")' = HasHandle("a")
        BY <3>1 DEF HasHandle
      <4> QED BY <1>4, <4>1 DEF Pair
    <3>2. CASE opening = "asked" /\ opening' = "open"
      <4>1. HasHandle("a")' = TRUE
        BY <3>2 DEF HasHandle
      <4>2. S.closes > 0 => S.failed # "no"
        BY <1>1, <3>2 DEF OpenOf
      <4>3. Own(S, HasHandle("a"))
        BY <1>4 DEF Pair
      <4> HIDE DEF S
      <4>4. Own(S, TRUE)
        BY <4>2, <4>3 DEF Own
      <4> QED BY <4>1, <4>4
    <3> QED BY <2>1, <3>1, <3>2
  <2>8. opening' \in {"no", "asked", "open", "discarded"}
    BY <1>1, <2>1 DEF Typed
  <2> HIDE DEF x
  <2> QED BY <1>1, <1>2, <1>3, <1>4, <1>5, <2>1, <2>5, <2>6, <2>7, <2>8, SayingActs DEF S
<1>7. CASE opening = "asked" /\ res # "ok"
  <2> DEFINE d == Discard(x)
             r2 == Rear("a", TRUE)
  <2>1. opening' = "discarded" /\ Stretch("a", d, TRUE)
    BY <1>2, <1>7
  <2>2. HasHandle("a") = FALSE /\ HasHandle("a")' = FALSE
    BY <1>7, <2>1 DEF HasHandle
  <2>3. S.half # "none"
    BY <1>1, <1>7 DEF OpenOf
  <2>4. channel["a"] # <<>> /\ r2 = Tail(channel["a"]) /\ Head(channel["a"]) = Answer(Open, res)
    BY <1>2 DEF Rear
  <2>5. /\ Pair(d.st, FALSE, end["b"], HasHandle("b"), channel["b"] \o d.out, r2)
        /\ d.st.half = "gone" /\ d.st.closes = S.closes /\ d.st.failed = S.failed
        /\ d \in X /\ Quiet(d.out)
    <3> DEFINE R == end["b"]
               k == HasHandle("b")
               q == channel["b"]
               r == channel["a"]
    <3>1. Pair(S, FALSE, R, k, q, r) /\ x = [st |-> S, out |-> <<>>] /\ S.half # "none"
      BY <1>4, <2>2, <2>3
    <3>2. r # <<>> /\ r2 = Tail(r) /\ \E rez \in Results : Head(r) = Answer(Open, rez)
      BY <1>3, <2>4
    <3> HIDE DEF S, R, k, q, r, r2, x
    <3>3. Leaves(Discard(x), R, k, q, r2) /\ Discard(x).st.closes = S.closes /\ Discard(x).st.failed = S.failed
      BY <3>1, <3>2, DiscardKeeps
    <3> QED BY <3>3 DEF R, k, q, Leaves
  <2> HIDE DEF S, r2, x
  <2> HIDE DEF d
  <2>6. d.out \in Seq(Stanzas)
    BY <2>5 DEF X
  <2>7. /\ \A m : OnWay(channel'["a"], m) => OnWay(channel["a"], m)
        /\ \A m : OnWay(channel'["b"], m) => OnWay(channel["b"], m) \/ OnWay(d.out, m)
    BY <1>1, <1>2, <2>1, <2>6, Delivered
  <2>8. end'["a"] = d.st
    BY <1>1, <2>1, Stretched
  <2>9. end'["b"] = end["b"]
    BY <1>1, <2>1, Stretched
  <2>10. OpenOf'
    BY <1>1, <1>7, <2>1, <2>5, <2>7, <2>8, <2>9 DEF OpenOf, Quiet
  <2>11. HasHandle("b")' = HasHandle("b")
    BY <2>9 DEF HasHandle
  <2> QED BY <1>1, <1>2, <1>5, <2>1, <2>2, <2>5, <2>6, <2>10, <2>11, OpeningActs DEF r2
<1> QED BY <1>6, <1>7

LEMMA OpenTimeoutActs ==
  ASSUME DuplexInv, OpenTimeout
  PROVE  DuplexInv'
<1> DEFINE S == end["a"]
           R == end["b"]
           k == HasHandle("b")
           q == channel["b"]
           r == channel["a"]
           x == Start("a")
           d == Discard(x)
           y == SendClose(d)
<1>1. /\ Typed /\ OpenOf /\ "a" \in Ends /\ "b" \in Ends /\ Peer("b") = "a" /\ Peer("a") = "b"
      /\ opening = "asked" /\ opening' = "discarded" /\ Stretch("a", y, FALSE)
      /\ expects' = expects /\ parked' = parked /\ accepting' = accepting
  BY DEF OpenTimeout, DuplexInv, Ends, Peer
<1>2. HasHandle("a") = FALSE /\ HasHandle("a")' = FALSE /\ Rear("a", FALSE) = r
  BY <1>1 DEF HasHandle, Rear
<1>3. Pair(S, FALSE, R, k, q, r) /\ x = [st |-> S, out |-> <<>>]
  BY <1>1, <1>2, PairOf DEF Start
<1>4. S.half # "none"
  BY <1>1 DEF OpenOf
<1>5. /\ expects' \in {"no", "waiting", "over"} /\ parked' \in BOOLEAN /\ accepting' \in BOOLEAN
  BY <1>1 DEF Typed
<1>6. Stretch("a", y, FALSE)
  BY <1>1
<1> HIDE DEF x, y
<1>12. /\ Pair(y.st, FALSE, R, k, q \o y.out, r)
       /\ y.st.half = "gone" /\ y \in X /\ Quiet(y.out)
  <2> HIDE DEF S, R, k, q, r
  <2>1. Leaves(SendClose(d), R, k, q, r)
    BY <1>3, <1>4, DiscardKeeps
  <2> QED BY <2>1 DEF y, Leaves
<1>13. y.out \in Seq(Stanzas)
  BY <1>12 DEF X
<1>15. /\ \A m : OnWay(channel'["a"], m) => OnWay(channel["a"], m)
       /\ \A m : OnWay(channel'["b"], m) => OnWay(channel["b"], m) \/ OnWay(y.out, m)
  BY <1>1, <1>6, <1>13, Delivered
<1>16. end'["a"] = y.st
  BY <1>1, <1>6, Stretched
<1>17. end'["b"] = end["b"]
  BY <1>1, <1>6, Stretched
<1>18. OpenOf'
  BY <1>1, <1>12, <1>15, <1>16, <1>17 DEF OpenOf, Quiet
<1>19. HasHandle("b")' = HasHandle("b")
  BY <1>17 DEF HasHandle
<1> QED BY <1>1, <1>2, <1>5, <1>6, <1>12, <1>13, <1>18, <1>19, OpeningActs

-----------------------------------------------------------------------------
LEMMA DuplexStarts ==
  ASSUME Init
  PROVE  DuplexInv
<1>1. <<>> \in Seq(Stanzas) /\ <<>> \in Seq(Blocks) /\ 0 \in 0..MaxBlocks
  BY DuplexAssumption
<1>2. Untouched \in Duplexes
  BY <1>1 DEF Untouched, Duplexes
<1>3. Typed
  BY <1>1, <1>2 DEF Init, Typed
<1>4. \A m : ~OnWay(<<>>, m)
  BY Nothing
<1>5. \A e \in Ends : end[e] = Untouched /\ channel[e] = <<>> /\ end[Peer(e)] = Untouched /\ channel[Peer(e)] = <<>>
  BY TwoEnds DEF Init
<1>6. OpenOf
  BY <1>4, <1>5, TwoEnds DEF Init, OpenOf, Untouched, Ends
<1>7. \A h \in BOOLEAN : Own(Untouched, h)
  BY DEF Own, Untouched
<1>8. Link(Untouched, Untouched, <<>>, <<>>)
  <2>1. /\ Untouched.taken = 0 /\ Untouched.sent = 0 /\ Untouched.half = "none" /\ Untouched.withheld = <<>>
        /\ Untouched.closes = 0 /\ ~Untouched.closedByPeer /\ Untouched.closing = "no" /\ Untouched.refused = "no"
    BY DEF Untouched
  <2>2. \A n \in Blocks : n \in Nat /\ ~(n <= 0) /\ ~Replied(<<>>, n)
    BY Nothing, DuplexAssumption DEF Blocks
  <2>3. \A m : ~Leads(<<>>, m)
    BY <1>4 DEF Leads, OnWay
  <2>4. Ordered(<<>>) /\ Single(<<>>)
    BY DEF Ordered, Single
  <2>5. Carried(Untouched, Untouched, <<>>)
    BY <1>4, <2>1, <2>2, <2>4 DEF Carried
  <2>6. Answered(Untouched, Untouched, <<>>, <<>>)
    BY <1>4, <2>1, <2>2, <2>4 DEF Answered
  <2>7. Closed(Untouched, Untouched, <<>>, <<>>) /\ Heard(Untouched, Untouched, <<>>)
        /\ Due(Untouched, Untouched, <<>>, <<>>) /\ Resolved(Untouched, Untouched)
    BY <1>4, <2>1 DEF Closed, Heard, Due, Resolved
  <2>8. Honest(Untouched, Untouched, <<>>, <<>>)
    BY <2>1, <2>2, <2>3 DEF Honest
  <2> QED BY <2>5, <2>6, <2>7, <2>8 DEF Link
<1>9. \A e \in Ends : Own(end[e], HasHandle(e)) /\ LinkOf(e)
  BY <1>5, <1>7, <1>8 DEF LinkOf, HasHandle
<1> QED BY <1>3, <1>6, <1>9 DEF DuplexInv

LEMMA DuplexGoesOn ==
  ASSUME DuplexInv, [Next]_vars
  PROVE  DuplexInv'
<1>1. CASE OpenDuplex
  BY <1>1, OpenDuplexActs
<1>2. CASE ExpectDuplex \/ ExpectTimeout
  BY <1>2, ExpectActs
<1>3. CASE ReceiveOpen
  BY <1>3, ReceiveOpenActs
<1>4. CASE AnswerOpen \/ AcceptTimeout
  BY <1>4, AnsweringActs
<1>5. CASE ReceiveOpenAnswer
  BY <1>5, ReceiveOpenAnswerActs
<1>6. CASE OpenTimeout
  BY <1>6, OpenTimeoutActs
<1>7. ASSUME NEW e \in Ends, Write(e) \/ Close(e) \/ CloseDrained(e) \/ Abort(e)
      PROVE  DuplexInv'
  BY <1>7, WriteKeeps, CloseActs, CloseDrainedActs, AbortActs
<1>8. ASSUME NEW e \in Ends, Pull(e) \/ Idle(e) \/ OnFail(e) \/ SendRefusal(e)
      PROVE  DuplexInv'
  BY <1>8, PullActs, IdleActs, OnFailActs, SendRefusalActs
<1>9. ASSUME NEW e \in Ends, Receive(e) \/ BlockTimeout(e) \/ CloseTimeout(e)
      PROVE  DuplexInv'
  BY <1>9, ReceiveDataActs, ReceiveCloseActs, ReceiveAnswerActs, TimeoutActs DEF Receive
<1>10. CASE UNCHANGED vars
  <2>1. /\ end' = end /\ channel' = channel /\ faults' = faults /\ opening' = opening /\ expects' = expects
        /\ parked' = parked /\ accepting' = accepting
    BY <1>10 DEF vars
  <2> QED BY <2>1 DEF DuplexInv, Typed, OpenOf, LinkOf, HasHandle, Peer
<1> QED BY <1>1, <1>2, <1>3, <1>4, <1>5, <1>6, <1>7, <1>8, <1>9, <1>10 DEF Next

-----------------------------------------------------------------------------
(* A tunnel whose two ends only write and close. *)

Tidy(S) ==
  /\ S.failed = "no" /\ S.refused = "no" /\ ~S.onFailDue /\ ~S.aborting
  /\ S.closing \notin {"telling", "rejected"}
  /\ S.closes = IF S.closeSent THEN 1 ELSE 0
  /\ S.closeSent => S.inFlight = {} /\ S.closing \in {"sent", "resolved"}

(* A half goes when both ends closed or the peer did, and what comes back  *)
(* as not found was overtaken by the peer's <close/>.                      *)
Smooth(S, R, q, r) ==
  /\ S.half = "gone" => S.closedByPeer \/ (S.closeSent /\ R.closedByPeer)
  /\ \A n \in Blocks : /\ ~OnWay(r, Answer(Data(n), Refusal))
                       /\ OnWay(r, Answer(Data(n), "not-found")) => S.closedByPeer
  /\ OnWay(r, NoClose) => S.closedByPeer
  /\ OnWay(r, OkClose) => R.closedByPeer
  /\ Lone(q)
  /\ OnWay(q, CloseIq) => ~R.closedByPeer
  /\ R.half = "none" => ~OnWay(q, CloseIq) /\ \A n \in Blocks : ~OnWay(q, Data(n))

CleanOf(e) == Tidy(end[e]) /\ Smooth(end[e], end[Peer(e)], channel[Peer(e)], channel[e])

CleanInv ==
  faults = {} =>
    /\ \A e \in Ends : CleanOf(e)
    /\ opening # "discarded" /\ ~OnWay(channel["a"], Answer(Open, "not-acceptable"))

(* What such an end, left as Z, says to its peer R. *)
Civil(Z, R, o) ==
  /\ \A n \in Blocks : /\ ~OnWay(o, Answer(Data(n), Refusal))
                       /\ OnWay(o, Answer(Data(n), "not-found")) => R.closedByPeer
  /\ OnWay(o, NoClose) => R.closedByPeer
  /\ OnWay(o, OkClose) => Z.closedByPeer
  /\ ~OnWay(o, Answer(Open, "not-acceptable"))

LEMMA SmoothKeeps ==
  ASSUME NEW S, NEW R, NEW q \in Seq(Stanzas), NEW r \in Seq(Stanzas), Smooth(S, R, q, r), Smooth(R, S, r, q),
         NEW Z, NEW o \in Seq(Stanzas), NEW r2, r2 = r \/ (r # <<>> /\ r2 = Tail(r)),
         S.closedByPeer => Z.closedByPeer, Z.closedByPeer => S.closedByPeer \/ ~OnWay(r2, CloseIq),
         Z.half = "gone" => Z.closedByPeer \/ (Z.closeSent /\ R.closedByPeer),
         Z.half = "none" => S.half = "none",
         OnWay(o, CloseIq) => Lone(o) /\ ~OnWay(q, CloseIq) /\ ~R.closedByPeer,
         OnWay(o, CloseIq) \/ (\E n \in Blocks : OnWay(o, Data(n))) => R.half # "none",
         Civil(Z, R, o)
  PROVE  Smooth(Z, R, q \o o, r2) /\ Smooth(R, Z, r2, q \o o)
<1>1. \A m : OnWay(q \o o, m) <=> OnWay(q, m) \/ OnWay(o, m)
  BY Joined
<1>2. \A m : OnWay(r2, m) => OnWay(r, m)
  BY Remaining
<1>3. Lone(r2)
  BY LoneKeeps DEF Smooth
<1>4. Lone(q \o o)
  <2>1. Lone(o)
    <3>1. CASE OnWay(o, CloseIq)
      BY <3>1
    <3>2. CASE ~OnWay(o, CloseIq)
      BY <3>2 DEF Lone, OnWay
    <3> QED BY <3>1, <3>2
  <2> QED BY <2>1, LoneKeeps DEF Smooth
<1> DEFINE p == q \o o
<1> HIDE DEF p
<1>5. (\A m : OnWay(p, m) <=> OnWay(q, m) \/ OnWay(o, m)) /\ Lone(p)
  BY <1>1, <1>4 DEF p
<1>6. Smooth(Z, R, p, r2)
  BY <1>2, <1>5 DEF Smooth, Civil
<1>7. Smooth(R, Z, r2, p)
  BY <1>2, <1>3, <1>5 DEF Smooth, Civil
<1> QED BY <1>6, <1>7 DEF p

LEMMA HandleMeansBoth ==
  ASSUME DuplexInv, NEW e \in Ends, HasHandle(e)
  PROVE  end[e].half # "none" /\ end[Peer(e)].half # "none"
  BY DEF DuplexInv, OpenOf, HasHandle, Peer, Ends

(* Any action of such a tunnel. *)
LEMMA CleanActs ==
  ASSUME DuplexInv, CleanInv, faults = {}, NEW e \in Ends, NEW x, NEW consumed \in BOOLEAN, Stretch(e, x, consumed),
         x.out \in Seq(Stanzas), consumed => channel[e] # <<>>,
         Tidy(x.st), end[e].closedByPeer => x.st.closedByPeer,
         x.st.closedByPeer => end[e].closedByPeer \/ ~OnWay(Rear(e, consumed), CloseIq),
         x.st.half = "gone" => x.st.closedByPeer \/ (x.st.closeSent /\ end[Peer(e)].closedByPeer),
         x.st.half = "none" => end[e].half = "none",
         OnWay(x.out, CloseIq) => Lone(x.out) /\ end[e].closes = 0,
         OnWay(x.out, CloseIq) \/ (\E n \in Blocks : OnWay(x.out, Data(n))) => HasHandle(e),
         Civil(x.st, end[Peer(e)], x.out), opening' # "discarded"
  PROVE  CleanInv'
<1> DEFINE S == end[e]
           R == end[Peer(e)]
           q == channel[Peer(e)]
           r == channel[e]
           Z == x.st
           o == x.out
           r2 == Rear(e, consumed)
<1>1. q \in Seq(Stanzas) /\ r \in Seq(Stanzas) /\ Link(S, R, q, r) /\ Typed
  BY PairOf DEF Pair, DuplexInv
<1>2. /\ Smooth(S, R, q, r) /\ Smooth(R, S, r, q) /\ Tidy(S) /\ Tidy(R)
      /\ ~OnWay(channel["a"], Answer(Open, "not-acceptable"))
  BY TwoEnds DEF CleanInv, CleanOf
<1>3. OnWay(o, CloseIq) => Lone(o) /\ ~OnWay(q, CloseIq) /\ ~R.closedByPeer
  BY <1>1 DEF Link, Closed
<1>4. OnWay(o, CloseIq) \/ (\E n \in Blocks : OnWay(o, Data(n))) => R.half # "none"
  BY HandleMeansBoth
<1>5. r2 = r \/ (r # <<>> /\ r2 = Tail(r))
  BY DEF Rear
<1>6. Smooth(Z, R, q \o o, r2) /\ Smooth(R, Z, r2, q \o o)
  <2> HIDE DEF S, R, q, r, Z, o, r2
  <2>1. /\ S.closedByPeer => Z.closedByPeer
        /\ Z.closedByPeer => S.closedByPeer \/ ~OnWay(r2, CloseIq)
        /\ Z.half = "gone" => Z.closedByPeer \/ (Z.closeSent /\ R.closedByPeer)
        /\ Z.half = "none" => S.half = "none"
        /\ Civil(Z, R, o) /\ o \in Seq(Stanzas)
    BY DEF S, R, Z, o, r2
  <2> QED BY <1>1, <1>2, <1>3, <1>4, <1>5, <2>1, SmoothKeeps
<1>7. end'[e] = Z /\ end'[Peer(e)] = R /\ channel'[e] = r2
  BY <1>1, Stretched
<1>8. channel'[Peer(e)] = q \o o
  BY <1>1, Stretched
<1>9. CleanOf(e)' /\ CleanOf(Peer(e))'
  <2>1. Peer(Peer(e)) = e
    BY TwoEnds
  <2>2. Tidy(Z)
    OBVIOUS
  <2> HIDE DEF Z, R, q, o, r2
  <2> QED BY <1>2, <1>6, <1>7, <1>8, <2>1, <2>2 DEF CleanOf
<1>10. ~OnWay(channel'["a"], Answer(Open, "not-acceptable"))
  <2>1. /\ \A m : OnWay(channel'[e], m) => OnWay(channel[e], m)
        /\ \A m : OnWay(channel'[Peer(e)], m) => OnWay(channel[Peer(e)], m) \/ OnWay(x.out, m)
    BY Delivered
  <2>2. "a" = e \/ "a" = Peer(e)
    BY TwoEnds DEF Ends
  <2>3. ~OnWay(x.out, Answer(Open, "not-acceptable"))
    BY DEF Civil
  <2> QED BY <1>2, <2>1, <2>2, <2>3
<1>11. \A d \in Ends : CleanOf(d)'
  BY <1>9, TwoEnds
<1> QED BY <1>10, <1>11 DEF CleanInv

(* What an end that neither closes nor is closed upon leaves. *)
LEMMA ModestActs ==
  ASSUME DuplexInv, CleanInv, faults = {}, NEW e \in Ends, NEW x, NEW consumed \in BOOLEAN, Stretch(e, x, consumed),
         x.out \in Seq(Stanzas), consumed => channel[e] # <<>>, Tidy(x.st),
         x.st.closedByPeer = end[e].closedByPeer, x.st.closeSent = end[e].closeSent,
         x.st.half = "gone" => end[e].half = "gone", x.st.half = "none" => end[e].half = "none",
         ~OnWay(x.out, CloseIq), (\E n \in Blocks : OnWay(x.out, Data(n))) => HasHandle(e),
         Civil(x.st, end[Peer(e)], x.out), opening' # "discarded"
  PROVE  CleanInv'
<1>1. end[e].half = "gone" => end[e].closedByPeer \/ (end[e].closeSent /\ end[Peer(e)].closedByPeer)
  BY DEF CleanInv, CleanOf, Smooth
<1> QED BY <1>1, CleanActs

(* What may be said at any time. *)
LEMMA SaidOnce ==
  ASSUME NEW o, NEW Z, NEW R,
         \/ o = <<>>
         \/ \E m \in {Open, Answer(Open, "ok")} \cup {Data(n) : n \in Blocks} \cup {Answer(Data(n), "ok") : n \in Blocks} :
              o = <<m>>
  PROVE  /\ o \in Seq(Stanzas) /\ Civil(Z, R, o) /\ ~OnWay(o, CloseIq)
         /\ (\A m : o = <<m>> /\ (\A n \in Blocks : m # Data(n)) => \A n \in Blocks : ~OnWay(o, Data(n)))
<1>1. CASE o = <<>>
  BY <1>1, Nothing DEF Civil
<1>2. CASE o # <<>>
  <2>1. PICK m \in {Open, Answer(Open, "ok")} \cup {Data(n) : n \in Blocks} \cup {Answer(Data(n), "ok") : n \in Blocks} :
          o = <<m>>
    BY <1>2
  <2>2. m \in Stanzas
    BY Kinds DEF Results
  <2>3. /\ m # CloseIq /\ m # OkClose /\ m # NoClose /\ m # Answer(Open, "not-acceptable")
        /\ \A n \in Blocks : m # Answer(Data(n), Refusal) /\ m # Answer(Data(n), "not-found")
    <3>1. CASE m = Open
      BY <3>1, Kinds, Forms DEF Results, OkClose, NoClose, Refusal
    <3>2. CASE m = Answer(Open, "ok")
      BY <3>2, Kinds, Forms DEF Results, OkClose, NoClose, Refusal
    <3>3. CASE m \in {Data(n) : n \in Blocks}
      BY <3>3, Kinds, Forms DEF Results, OkClose, NoClose, Refusal
    <3>4. CASE m \in {Answer(Data(n), "ok") : n \in Blocks}
      BY <3>4, Kinds, Forms DEF Results, OkClose, NoClose, Refusal
    <3> QED BY <3>1, <3>2, <3>3, <3>4
  <2> QED BY <2>1, <2>2, <2>3, Alone DEF Civil
<1> QED BY <1>1, <1>2

LEMMA TidyOf ==
  ASSUME CleanInv, faults = {}, NEW e \in Ends
  PROVE  /\ Tidy(end[e]) /\ Smooth(end[e], end[Peer(e)], channel[Peer(e)], channel[e])
         /\ Tidy(end[Peer(e)]) /\ Smooth(end[Peer(e)], end[e], channel[e], channel[Peer(e)])
         /\ opening # "discarded" /\ ~OnWay(channel["a"], Answer(Open, "not-acceptable"))
  BY TwoEnds DEF CleanInv, CleanOf

LEMMA RegisteringIsTidy ==
  ASSUME NEW S \in Duplexes, Tidy(S)
  PROVE  /\ Tidy(Registered(S)) /\ Registered(S).half = "live"
         /\ Registered(S).closedByPeer = S.closedByPeer /\ Registered(S).closeSent = S.closeSent
<1> DEFINE Z == Registered(S)
<1>1. /\ Z.half = "live" /\ Z.failed = S.failed /\ Z.refused = S.refused /\ Z.onFailDue = S.onFailDue
      /\ Z.aborting = S.aborting /\ Z.closing = S.closing /\ Z.closes = S.closes /\ Z.closeSent = S.closeSent
      /\ Z.inFlight = S.inFlight /\ Z.closedByPeer = S.closedByPeer
  BY DEF Registered, Duplexes
<1> HIDE DEF Z
<1>2. Tidy(Z)
  BY <1>1 DEF Tidy
<1> QED BY <1>1, <1>2 DEF Z

LEMMA RegisteringActs ==
  ASSUME DuplexInv, CleanInv, faults = {}, NEW e \in Ends, NEW x, NEW consumed \in BOOLEAN, Stretch(e, x, consumed),
         x.st = Registered(end[e]), x.out \in {<<>>, <<Open>>}, consumed => channel[e] # <<>>,
         opening' # "discarded"
  PROVE  CleanInv'
<1>1. end[e] \in Duplexes /\ Tidy(end[e])
  BY PairOf, TidyOf DEF Pair
<1>2. /\ Tidy(x.st) /\ x.st.half = "live"
      /\ x.st.closedByPeer = end[e].closedByPeer /\ x.st.closeSent = end[e].closeSent
  BY <1>1, RegisteringIsTidy
<1>3. /\ x.out \in Seq(Stanzas) /\ ~OnWay(x.out, CloseIq) /\ Civil(x.st, end[Peer(e)], x.out)
      /\ \A n \in Blocks : ~OnWay(x.out, Data(n))
  BY SaidOnce, Nothing, Alone, Kinds, Forms
<1> QED BY <1>2, <1>3, ModestActs

LEMMA UnmovedActs ==
  ASSUME CleanInv, end' = end, channel' = channel, opening' = opening, faults' = faults
  PROVE  CleanInv'
  BY DEF CleanInv, CleanOf, Peer

LEMMA CleanOpens ==
  ASSUME DuplexInv, CleanInv, faults = {}, OpenDuplex \/ ExpectDuplex \/ ReceiveOpen
  PROVE  CleanInv'
<1>1. /\ "a" \in Ends /\ "b" \in Ends /\ opening # "discarded" /\ end["b"] \in Duplexes /\ end["a"] \in Duplexes
  BY TidyOf, PairOf DEF Ends, Pair
<1>2. Claim.st = Registered(end["b"]) /\ Claim.out = <<>>
  BY <1>1, PairOf DEF Claim, X, Duplexes, Registered, Start
<1>3. ASSUME NEW consumed \in BOOLEAN, Stretch("b", Claim, consumed), consumed => channel["b"] # <<>>, opening' = opening
      PROVE  CleanInv'
  <2> DEFINE x == Claim
  <2>1. x.st = Registered(end["b"]) /\ x.out \in {<<>>, <<Open>>} /\ Stretch("b", x, consumed)
    BY <1>2, <1>3
  <2> HIDE DEF x
  <2> QED BY <1>1, <1>3, <2>1, RegisteringActs
<1>4. CASE OpenDuplex
  <2> DEFINE x == Puts([Start("a") EXCEPT !.st.half = "live"], <<Open>>)
  <2>1. opening' = "asked" /\ Stretch("a", x, FALSE)
    BY <1>4 DEF OpenDuplex
  <2>2. x.st = Registered(end["a"]) /\ x.out = <<Open>>
    BY <1>1, OpenDuplexIs
  <2> HIDE DEF x
  <2> QED BY <1>1, <2>1, <2>2, RegisteringActs
<1>5. CASE ExpectDuplex /\ parked
  BY <1>3, <1>5 DEF ExpectDuplex
<1>6. CASE ExpectDuplex /\ ~parked
  BY <1>6, UnmovedActs DEF ExpectDuplex
<1>7. CASE ReceiveOpen /\ expects = "waiting"
  BY <1>3, <1>7 DEF ReceiveOpen
<1>8. CASE ReceiveOpen /\ expects # "waiting"
  <2> DEFINE x == Start("b")
  <2>1. Stretch("b", x, TRUE) /\ channel["b"] # <<>> /\ opening' = opening
    BY <1>8 DEF ReceiveOpen
  <2>2. x.st = end["b"] /\ x.out = <<>>
    BY DEF Start
  <2>3. Tidy(x.st) /\ Civil(x.st, end[Peer("b")], x.out) /\ x.out \in Seq(Stanzas) /\ \A m : ~OnWay(x.out, m)
    BY <1>1, <2>2, TidyOf, SaidOnce, Nothing
  <2> HIDE DEF x
  <2> QED BY <1>1, <2>1, <2>2, <2>3, ModestActs
<1> QED BY <1>4, <1>5, <1>6, <1>7, <1>8

LEMMA CleanAnswersOpen ==
  ASSUME DuplexInv, CleanInv, faults = {}, AnswerOpen \/ ReceiveOpenAnswer
  PROVE  CleanInv'
<1>1. /\ "a" \in Ends /\ "b" \in Ends /\ opening # "discarded"
      /\ Tidy(end["a"]) /\ Tidy(end["b"]) /\ ~OnWay(channel["a"], Answer(Open, "not-acceptable"))
      /\ channel["a"] \in Seq(Stanzas)
  BY TidyOf, PairOf DEF Ends, Pair
<1>2. CASE AnswerOpen
  <2> DEFINE m == Answer(Open, "ok")
             x == Puts(Start("b"), <<m>>)
  <2>1. Stretch("b", x, FALSE) /\ opening' = opening
    BY <1>2 DEF AnswerOpen
  <2>2. x.st = end["b"] /\ x.out = <<m>>
    <3> HIDE DEF m
    <3>1. Start("b") \in X /\ Start("b").st = end["b"] /\ Start("b").out = <<>>
      BY <1>1, PairOf DEF Start
    <3>2. <<m>> \in Seq(Stanzas)
      BY Kinds, Alone DEF m, Results
    <3>3. <<>> \o <<m>> = <<m>>
      BY <3>2
    <3> QED BY <3>1, <3>2, <3>3, PutsIs
  <2>3. /\ x.out \in Seq(Stanzas) /\ ~OnWay(x.out, CloseIq) /\ Civil(x.st, end[Peer("b")], x.out)
        /\ \A n \in Blocks : ~OnWay(x.out, Data(n))
    <3>1. m \in Stanzas /\ \A n \in Blocks : m # Data(n)
      BY Kinds, Forms DEF Results
    <3> HIDE DEF x
    <3> QED BY <2>2, <3>1, SaidOnce
  <2> HIDE DEF x
  <2> QED BY <1>1, <2>1, <2>2, <2>3, ModestActs
<1>3. CASE ReceiveOpenAnswer
  <2> DEFINE x == Start("a")
  <2>1. Head(channel["a"]) # Answer(Open, "not-acceptable") /\ channel["a"] # <<>>
    BY <1>1, <1>3, Behind DEF ReceiveOpenAnswer
  <2>2. Stretch("a", x, TRUE) /\ opening' \in {opening, "open"}
    BY <1>3, <2>1 DEF ReceiveOpenAnswer
  <2>3. x.st = end["a"] /\ x.out = <<>>
    BY DEF Start
  <2>4. Civil(x.st, end[Peer("a")], x.out) /\ x.out \in Seq(Stanzas) /\ \A m : ~OnWay(x.out, m)
    BY <2>3, SaidOnce, Nothing
  <2> HIDE DEF x
  <2> QED BY <1>1, <2>1, <2>2, <2>3, <2>4, ModestActs
<1> QED BY <1>2, <1>3

LEMMA CleanWrites ==
  ASSUME DuplexInv, CleanInv, faults = {}, NEW e \in Ends, Write(e)
  PROVE  CleanInv'
<1> DEFINE S == end[e]
           n == S.sent + 1
           Z == [S EXCEPT !.sent = n, !.inFlight = S.inFlight \cup {n}]
           o == <<Data(n)>>
           x == Puts([Start(e) EXCEPT !.st.sent = n, !.st.inFlight = @ \cup {n}], o)
<1>1. HasHandle(e) /\ n \in Blocks /\ S.closing = "no" /\ Stretch(e, x, FALSE) /\ opening' = opening
  BY DEF Write, Does, Opens
<1>2. Start(e).st = S /\ Start(e).out = <<>> /\ S \in Duplexes /\ Tidy(S) /\ opening # "discarded"
  BY PairOf, TidyOf DEF Start, Pair
<1>3. x.st = Z /\ x.out = <<>> \o o
  BY <1>2 DEF Puts, Start
<1> HIDE DEF S, x
<1>4. /\ Z.half = S.half /\ Z.closedByPeer = S.closedByPeer /\ Z.closeSent = S.closeSent
      /\ Z.closes = S.closes /\ Z.closing = "no" /\ Z.failed = S.failed /\ Z.refused = S.refused
      /\ Z.aborting = S.aborting /\ Z.onFailDue = S.onFailDue
  BY <1>1, <1>2 DEF Duplexes
<1> HIDE DEF Z
<1>5. Tidy(Z)
  BY <1>1, <1>2, <1>4 DEF Tidy
<1>6. x.out = o /\ o \in Seq(Stanzas)
  <2>1. o \in Seq(Stanzas)
    BY <1>1, Kinds, Alone
  <2> HIDE DEF o
  <2> QED BY <1>3, <2>1
<1>7. ~OnWay(o, CloseIq) /\ Civil(Z, end[Peer(e)], o)
  BY <1>1, SaidOnce
<1> HIDE DEF o
<1> QED BY <1>1, <1>2, <1>3, <1>4, <1>5, <1>6, <1>7, ModestActs DEF S

(* A close() that resolves. *)
LEMMA CleanResolves ==
  ASSUME DuplexInv, CleanInv, faults = {}, NEW e \in Ends, NEW consumed \in BOOLEAN,
         Stretch(e, CloseResolves(Start(e)), consumed), opening' = opening,
         consumed => channel[e] # <<>>,
         end[e].half # "live",
         end[e].closedByPeer \/ (end[e].closeSent /\ end[Peer(e)].closedByPeer)
  PROVE  CleanInv'
<1> DEFINE S == end[e]
           y == CloseResolves(Start(e))
<1>1. Begun(Start(e)) /\ Start(e).st = S /\ Tidy(S) /\ opening # "discarded" /\ S \in Duplexes
  BY PairOf, TidyOf DEF Pair
<1>2. /\ Burial(S, y) /\ y.st.closing = "resolved" /\ y.st.failed = S.failed
      /\ y.st.closeSent = S.closeSent /\ y.st.aborting = S.aborting
  <2> DEFINE z == RemoveTombstone([Start(e) EXCEPT !.st.closing = "resolved"])
  <2>1. /\ Burial(Start(e).st, z) /\ z.st.closing = "resolved" /\ z.st.failed = Start(e).st.failed
        /\ z.st.closeSent = Start(e).st.closeSent /\ z.st.aborting = Start(e).st.aborting
    BY <1>1, ReturnedIs
  <2>2. y = z
    BY DEF CloseResolves
  <2> QED BY <1>1, <2>1, <2>2
<1>3. Stretch(e, y, consumed)
  OBVIOUS
<1> HIDE DEF y
<1>4. /\ y.st.closes = S.closes /\ y.st.half = "gone" /\ Same(S, y.st) /\ y.out \in Seq(Stanzas)
      /\ Parting(S.withheld, y.out, "ok", FALSE)
  BY <1>2 DEF Burial, Parting
<1>5. Tidy(y.st)
  BY <1>1, <1>2, <1>4 DEF Tidy, Same
<1>6. Civil(y.st, end[Peer(e)], y.out) /\ ~OnWay(y.out, CloseIq) /\ \A n \in Blocks : ~OnWay(y.out, Data(n))
  BY <1>4 DEF Parting, Civil, Results, Refusal
<1>7. y.st.closedByPeer = S.closedByPeer
  BY <1>4 DEF Same
<1> QED BY <1>1, <1>2, <1>3, <1>4, <1>5, <1>6, <1>7, CleanActs

LEMMA CleanCloses ==
  ASSUME DuplexInv, CleanInv, faults = {}, NEW e \in Ends, Close(e)
  PROVE  CleanInv'
<1> DEFINE S == end[e]
           x == [Start(e) EXCEPT !.st.closing = "draining"]
<1>1. /\ S.closing = "no" /\ opening' = opening /\ S.failed = "no"
      /\ Stretch(e, IF S.closedByPeer THEN CloseResolves(Start(e)) ELSE x, FALSE)
  BY TidyOf DEF Close, Does, Opens, Tidy
<1>2. /\ Start(e).st = S /\ Start(e).out = <<>> /\ Start(e) \in X /\ S \in Duplexes /\ Tidy(S)
      /\ opening # "discarded" /\ Own(S, HasHandle(e))
  BY PairOf, TidyOf DEF Start, Pair
<1>3. CASE S.closedByPeer
  <2>1. S.half # "live"
    BY <1>2, <1>3 DEF Own
  <2> QED BY <1>1, <1>3, <2>1, CleanResolves
<1>4. CASE ~S.closedByPeer
  <2>1. Stretch(e, x, FALSE)
    BY <1>1, <1>4
  <2>2. x.st = [S EXCEPT !.closing = "draining"] /\ x.out = <<>>
    BY <1>2 DEF X, Duplexes
  <2> HIDE DEF x, S
  <2>3. /\ x.st.half = S.half /\ x.st.closedByPeer = S.closedByPeer /\ x.st.closeSent = S.closeSent
        /\ x.st.closes = S.closes /\ x.st.closing = "draining" /\ x.st.failed = S.failed /\ x.st.refused = S.refused
        /\ x.st.aborting = S.aborting /\ x.st.onFailDue = S.onFailDue /\ x.st.inFlight = S.inFlight
    BY <1>2, <2>2 DEF Duplexes
  <2>4. Tidy(x.st)
    BY <1>1, <1>2, <2>3 DEF Tidy
  <2>5. /\ x.out \in Seq(Stanzas) /\ ~OnWay(x.out, CloseIq) /\ Civil(x.st, end[Peer(e)], x.out)
        /\ \A n \in Blocks : ~OnWay(x.out, Data(n))
    BY <2>2, SaidOnce, Nothing
  <2> QED BY <1>1, <1>2, <2>1, <2>3, <2>4, <2>5, ModestActs DEF S
<1> QED BY <1>3, <1>4

LEMMA CleanDrains ==
  ASSUME DuplexInv, CleanInv, faults = {}, NEW e \in Ends, CloseDrained(e)
  PROVE  CleanInv'
<1> DEFINE S == end[e]
           x == [Start(e) EXCEPT !.st.closing = "sent"]
           y == CloseStream(x)
<1>1. /\ S.closing = "draining" /\ opening' = opening /\ S.failed = "no"
      /\ S.inFlight = {} \/ S.closedByPeer
      /\ Stretch(e, IF S.closedByPeer THEN CloseResolves(Start(e)) ELSE y, FALSE)
  BY TidyOf DEF CloseDrained, Does, Opens, Tidy
<1>2. /\ Start(e).st = S /\ Start(e).out = <<>> /\ Start(e) \in X /\ S \in Duplexes /\ Tidy(S) /\ Begun(Start(e))
      /\ opening # "discarded" /\ Own(S, HasHandle(e)) /\ Smooth(S, end[Peer(e)], channel[Peer(e)], channel[e])
  BY PairOf, TidyOf DEF Start, Pair
<1>3. CASE S.closedByPeer
  <2>1. S.half # "live"
    BY <1>2, <1>3 DEF Own
  <2> QED BY <1>1, <1>3, <2>1, CleanResolves
<1>4. CASE ~S.closedByPeer
  <2>1. Stretch(e, y, FALSE) /\ S.inFlight = {}
    BY <1>1, <1>4
  <2>2. ~S.closeSent /\ S.closes = 0 /\ HasHandle(e)
    BY <1>1, <1>2 DEF Tidy, Own
  <2>3. S.half # "gone"
    BY <1>2, <1>4, <2>2 DEF Smooth
  <2>4. x.st = [S EXCEPT !.closing = "sent"] /\ x.out = <<>>
    BY <1>2 DEF X, Duplexes
  <2>5. x \in X
    BY <1>2, <2>4 DEF X, Duplexes
  <2> HIDE DEF x, S
  <2>6. /\ Same(S, x.st) /\ x.st.half = S.half /\ x.st.withheld = S.withheld /\ x.st.closes = S.closes
        /\ x.st.failed = S.failed /\ x.st.closing = "sent" /\ x.st.aborting = S.aborting
    BY <1>2, <2>4 DEF Duplexes, Same
  <2>7. Begun(x)
    BY <1>2, <2>4, <2>5, <2>6 DEF Begun
  <2>8. /\ Farewell(x.st, y) /\ y.st.closeSent /\ y.st.failed = "no" /\ y.st.closing = "sent"
        /\ y.st.aborting = S.aborting
    BY <1>1, <2>6, <2>7, CloseStreamIs
  <2> HIDE DEF y
  <2>9. /\ y.st.closes = 1 /\ Same(S, y.st) /\ y.out \in Seq(Stanzas) /\ Parting(S.withheld, y.out, "ok", TRUE)
        /\ y.st.half # "gone" /\ (y.st.half = "none" => S.half = "none")
    BY <2>2, <2>3, <2>6, <2>8 DEF Farewell, Same, Parting
  <2>10. Tidy(y.st)
    BY <1>2, <2>1, <2>8, <2>9 DEF Tidy, Same
  <2>11. Civil(y.st, end[Peer(e)], y.out) /\ Lone(y.out) /\ \A n \in Blocks : ~OnWay(y.out, Data(n))
    BY <2>9 DEF Parting, Civil, Results, Refusal
  <2>12. y.st.closedByPeer = S.closedByPeer
    BY <2>9 DEF Same
  <2>13. Stretch(e, y, FALSE)
    BY <2>1
  <2> QED BY <1>1, <1>2, <2>2, <2>9, <2>10, <2>11, <2>12, <2>13, CleanActs DEF S
<1> QED BY <1>3, <1>4

LEMMA CleanPulls ==
  ASSUME DuplexInv, CleanInv, faults = {}, NEW e \in Ends, Pull(e)
  PROVE  CleanInv'
<1> DEFINE S == end[e]
           y == WakeHandlers(Start(e), "ok")
<1>1. S.half = "live" /\ Stretch(e, y, FALSE) /\ opening' = opening
  BY DEF Pull, Does, Opens
<1>2. /\ Start(e).st = S /\ Start(e).out = <<>> /\ Start(e) \in X /\ S \in Duplexes /\ Tidy(S) /\ Begun(Start(e))
      /\ opening # "discarded"
  BY PairOf, TidyOf DEF Start, Pair
<1>3. y.st = [S EXCEPT !.withheld = <<>>] /\ y.out = Answers(S.withheld, "ok")
  BY <1>2, WakeIs DEF Results
<1>4. Parting(S.withheld, y.out, "ok", FALSE)
  BY <1>2, <1>3, PartingForms DEF Begun, Results, Duplexes
<1> HIDE DEF y, S
<1>5. /\ y.st.half = S.half /\ y.st.closedByPeer = S.closedByPeer /\ y.st.closeSent = S.closeSent
      /\ y.st.closes = S.closes /\ y.st.closing = S.closing /\ y.st.failed = S.failed /\ y.st.refused = S.refused
      /\ y.st.aborting = S.aborting /\ y.st.onFailDue = S.onFailDue /\ y.st.inFlight = S.inFlight
  BY <1>2, <1>3 DEF Duplexes
<1>6. Tidy(y.st)
  BY <1>2, <1>5 DEF Tidy
<1>7. /\ Civil(y.st, end[Peer(e)], y.out) /\ ~OnWay(y.out, CloseIq) /\ y.out \in Seq(Stanzas)
      /\ \A n \in Blocks : ~OnWay(y.out, Data(n))
  BY <1>4 DEF Parting, Civil, Results, Refusal
<1> QED BY <1>1, <1>2, <1>5, <1>6, <1>7, ModestActs DEF S

(* A peer that closed had all its blocks answered. *)
LEMMA NothingLeft ==
  ASSUME DuplexInv, CleanInv, faults = {}, NEW e \in Ends
  PROVE  /\ end[Peer(e)].closeSent => \A n \in Blocks : ~OnWay(channel[e], Data(n)) /\ ~OnWay(end[e].withheld, n)
         /\ end[e].closedByPeer \/ OnWay(channel[e], CloseIq) => end[Peer(e)].closeSent
<1> DEFINE S == end[e]
           R == end[Peer(e)]
           q == channel[Peer(e)]
           r == channel[e]
<1>1. Link(R, S, r, q) /\ Tidy(R)
  BY PairOf, TidyOf DEF Pair
<1>2. R.closeSent => \A n \in Blocks : ~OnWay(r, Data(n)) /\ ~OnWay(S.withheld, n)
  BY <1>1 DEF Link, Answered, Tidy
<1>3. S.closedByPeer \/ OnWay(r, CloseIq) => R.closeSent
  BY <1>1 DEF Link, Closed, Tidy
<1> QED BY <1>2, <1>3

LEMMA CleanReceives ==
  ASSUME DuplexInv, CleanInv, faults = {}, NEW e \in Ends, ReceiveData(e)
  PROVE  CleanInv'
<1> DEFINE S == end[e]
           x == Start(e)
           r == channel[e]
<1>1. PICK n \in Blocks :
        /\ r # <<>> /\ Head(r) = Data(n) /\ opening' = opening
        /\ \/ /\ S.half \in {"none", "gone"}
              /\ Stretch(e, Puts(x, <<Answer(Data(n), "not-found")>>), TRUE)
           \/ /\ S.half = "tombstone"
              /\ Stretch(e, Puts(x, <<Answer(Data(n), "ok")>>), TRUE)
           \/ /\ S.half = "live"
              /\ Stretch(e, Puts([x EXCEPT !.st.taken = @ + 1], <<Answer(Data(n), "ok")>>), TRUE)
           \/ /\ S.half = "live"
              /\ Stretch(e, [x EXCEPT !.st.taken = @ + 1, !.st.withheld = Append(@, n)], TRUE)
  BY DEF ReceiveData, Receives, Opens
<1>2. /\ x.st = S /\ x \in X /\ x.out = <<>> /\ S \in Duplexes /\ r \in Seq(Stanzas) /\ Tidy(S)
      /\ Smooth(S, end[Peer(e)], channel[Peer(e)], r) /\ Smooth(end[Peer(e)], S, r, channel[Peer(e)])
      /\ opening # "discarded"
  BY PairOf, TidyOf DEF Start, Pair
<1>3. OnWay(r, Data(n)) /\ S.half # "none" /\ ~end[Peer(e)].closeSent
  <2>1. OnWay(r, Data(n))
    BY <1>1, <1>2, Behind
  <2> QED BY <1>2, <2>1, NothingLeft DEF Smooth
<1>4. S.half # "gone" \/ end[Peer(e)].closedByPeer
  BY <1>2, <1>3, NothingLeft DEF Smooth
<1>5. ASSUME NEW y, Stretch(e, y, TRUE), NEW o \in Seq(Stanzas), y.out = o,
             y.st.half = S.half, y.st.closedByPeer = S.closedByPeer, y.st.closeSent = S.closeSent,
             y.st.closes = S.closes, y.st.closing = S.closing, y.st.failed = S.failed, y.st.refused = S.refused,
             y.st.aborting = S.aborting, y.st.onFailDue = S.onFailDue, y.st.inFlight = S.inFlight,
             ~OnWay(o, CloseIq), \A m \in Blocks : ~OnWay(o, Data(m)), Civil(y.st, end[Peer(e)], o)
      PROVE  CleanInv'
  <2>1. Tidy(y.st)
    BY <1>2, <1>5 DEF Tidy
  <2> QED BY <1>1, <1>2, <1>5, <2>1, ModestActs
<1>6. /\ <<Answer(Data(n), "ok")>> \in Seq(Stanzas)
      /\ \A Z : Civil(Z, end[Peer(e)], <<Answer(Data(n), "ok")>>)
      /\ ~OnWay(<<Answer(Data(n), "ok")>>, CloseIq) /\ \A m \in Blocks : ~OnWay(<<Answer(Data(n), "ok")>>, Data(m))
  <2> DEFINE a == Answer(Data(n), "ok")
             o == <<a>>
  <2>1. a \in {Answer(Data(b), "ok") : b \in Blocks} /\ a \in Stanzas /\ a # CloseIq
    BY Kinds, Forms DEF Results
  <2>2. \A b \in Blocks : a # Data(b)
    BY Kinds, Forms DEF Results
  <2> HIDE DEF a
  <2>3. \E m \in {Open, Answer(Open, "ok")} \cup {Data(b) : b \in Blocks} \cup {Answer(Data(b), "ok") : b \in Blocks} : o = <<m>>
    BY <2>1
  <2>4. o \in Seq(Stanzas) /\ \A m : OnWay(o, m) <=> m = a
    BY <2>1, Alone
  <2> HIDE DEF o
  <2>5. ASSUME NEW Z
        PROVE  Civil(Z, end[Peer(e)], o)
    BY <2>3, SaidOnce
  <2>6. ~OnWay(o, CloseIq) /\ \A m \in Blocks : ~OnWay(o, Data(m))
    BY <2>1, <2>2, <2>4
  <2> QED BY <2>4, <2>5, <2>6 DEF o, a
<1>7. CASE S.half = "gone" /\ Stretch(e, Puts(x, <<Answer(Data(n), "not-found")>>), TRUE)
  <2> DEFINE m == Answer(Data(n), "not-found")
             o == <<m>>
             y == Puts(x, o)
  <2>1. m \in Stanzas /\ IsReply(m, n) /\ m # Answer(Open, "not-acceptable")
    BY Kinds, Forms DEF Results
  <2>2. \A b \in Blocks : m # Answer(Data(b), Refusal)
    BY Forms DEF Refusal
  <2>3. o \in Seq(Stanzas) /\ \A b : OnWay(o, b) <=> b = m
    BY <2>1, Alone
  <2>4. ~OnWay(o, CloseIq) /\ (\A b \in Blocks : ~OnWay(o, Data(b))) /\ Civil(S, end[Peer(e)], o)
    BY <1>4, <1>7, <2>1, <2>2, <2>3, Kinds DEF Civil
  <2> HIDE DEF o
  <2>5. y.st = S /\ y.out = o
    <3>1. y.st = S /\ y.out = <<>> \o o
      BY <1>2, <2>3, PutsIs
    <3>2. <<>> \o o = o
      BY <2>3
    <3> QED BY <3>1, <3>2
  <2>6. Stretch(e, y, TRUE)
    BY <1>7 DEF o
  <2> HIDE DEF y, S
  <2> QED BY <1>5, <2>3, <2>4, <2>5, <2>6
<1>8. CASE S.half = "tombstone" /\ Stretch(e, Puts(x, <<Answer(Data(n), "ok")>>), TRUE)
  <2> DEFINE o == <<Answer(Data(n), "ok")>>
             y == Puts(x, o)
  <2>1. /\ o \in Seq(Stanzas) /\ ~OnWay(o, CloseIq) /\ (\A b \in Blocks : ~OnWay(o, Data(b)))
        /\ Civil(S, end[Peer(e)], o)
    BY <1>6
  <2> HIDE DEF o
  <2>2. y.st = S /\ y.out = o
    <3>1. y.st = S /\ y.out = <<>> \o o
      BY <1>2, <2>1, PutsIs
    <3>2. <<>> \o o = o
      BY <2>1
    <3> QED BY <3>1, <3>2
  <2>3. Stretch(e, y, TRUE)
    BY <1>8 DEF o
  <2> HIDE DEF y, S
  <2> QED BY <1>5, <2>1, <2>2, <2>3
<1>9. CASE S.half = "live" /\ Stretch(e, Puts([x EXCEPT !.st.taken = @ + 1], <<Answer(Data(n), "ok")>>), TRUE)
  <2> DEFINE w == [x EXCEPT !.st.taken = @ + 1]
             o == <<Answer(Data(n), "ok")>>
             y == Puts(w, o)
  <2>1. w.st = [S EXCEPT !.taken = S.taken + 1] /\ w.out = <<>>
    BY <1>2 DEF X, Duplexes
  <2>2. w \in X
    <3>1. S.taken + 1 \in Nat
      BY <1>2 DEF Duplexes
    <3> QED BY <1>2, <2>1, <3>1 DEF X, Duplexes
  <2> HIDE DEF w
  <2>3. /\ o \in Seq(Stanzas) /\ ~OnWay(o, CloseIq) /\ (\A b \in Blocks : ~OnWay(o, Data(b)))
        /\ Civil(y.st, end[Peer(e)], o)
    BY <1>6
  <2> HIDE DEF o
  <2>4. y.st = w.st /\ y.out = o
    <3>1. y.st = w.st /\ y.out = <<>> \o o
      BY <2>1, <2>2, <2>3, PutsIs
    <3>2. <<>> \o o = o
      BY <2>3
    <3> QED BY <3>1, <3>2
  <2>5. Stretch(e, y, TRUE)
    BY <1>9 DEF w, o
  <2>6. y.st = [S EXCEPT !.taken = S.taken + 1]
    BY <2>1, <2>4
  <2> HIDE DEF y, S
  <2>7. /\ y.st.half = S.half /\ y.st.closedByPeer = S.closedByPeer /\ y.st.closeSent = S.closeSent
        /\ y.st.closes = S.closes /\ y.st.closing = S.closing /\ y.st.failed = S.failed /\ y.st.refused = S.refused
        /\ y.st.aborting = S.aborting /\ y.st.onFailDue = S.onFailDue /\ y.st.inFlight = S.inFlight
    BY <1>2, <2>6 DEF Duplexes
  <2> QED BY <1>5, <2>3, <2>4, <2>5, <2>7
<1>10. CASE S.half = "live" /\ Stretch(e, [x EXCEPT !.st.taken = @ + 1, !.st.withheld = Append(@, n)], TRUE)
  <2> DEFINE y == [x EXCEPT !.st.taken = @ + 1, !.st.withheld = Append(@, n)]
  <2>1. y.st = [S EXCEPT !.taken = S.taken + 1, !.withheld = Append(S.withheld, n)] /\ y.out = <<>>
    BY <1>2 DEF X, Duplexes
  <2>2. Stretch(e, y, TRUE)
    BY <1>10
  <2> HIDE DEF y, S
  <2>3. /\ y.st.half = S.half /\ y.st.closedByPeer = S.closedByPeer /\ y.st.closeSent = S.closeSent
        /\ y.st.closes = S.closes /\ y.st.closing = S.closing /\ y.st.failed = S.failed /\ y.st.refused = S.refused
        /\ y.st.aborting = S.aborting /\ y.st.onFailDue = S.onFailDue /\ y.st.inFlight = S.inFlight
    BY <1>2, <2>1 DEF Duplexes
  <2>4. y.out \in Seq(Stanzas) /\ (\A m : ~OnWay(y.out, m)) /\ Civil(y.st, end[Peer(e)], y.out)
    BY <2>1, SaidOnce, Nothing
  <2> QED BY <1>5, <2>2, <2>3, <2>4
<1> QED BY <1>1, <1>3, <1>7, <1>8, <1>9, <1>10

LEMMA CleanHearsClose ==
  ASSUME DuplexInv, CleanInv, faults = {}, NEW e \in Ends, ReceiveClose(e)
  PROVE  CleanInv'
<1> DEFINE S == end[e]
           x == Start(e)
           r == channel[e]
           f == FinishInStream(x, FALSE)
           w == [f EXCEPT !.st.closedByPeer = TRUE, !.st.peerKnows = TRUE]
           y == IF S.half \in {"live", "tombstone"} THEN Puts(w, <<OkClose>>) ELSE Puts(x, <<NoClose>>)
<1>1. r # <<>> /\ Head(r) = CloseIq /\ opening' = opening /\ Stretch(e, y, TRUE)
  BY DEF ReceiveClose, Receives, OkClose, NoClose, Opens
<1>2. /\ x.st = S /\ x \in X /\ x.out = <<>> /\ S \in Duplexes /\ r \in Seq(Stanzas) /\ Tidy(S) /\ Begun(x)
      /\ Smooth(S, end[Peer(e)], channel[Peer(e)], r) /\ Smooth(end[Peer(e)], S, r, channel[Peer(e)])
      /\ opening # "discarded"
  BY PairOf, TidyOf DEF Start, Pair
<1>3. OnWay(r, CloseIq) /\ S.half # "none" /\ ~S.closedByPeer /\ ~OnWay(Rear(e, TRUE), CloseIq)
      /\ \A n \in Blocks : ~OnWay(S.withheld, n)
  <2>1. OnWay(r, CloseIq) /\ Rear(e, TRUE) = Tail(r)
    BY <1>1, <1>2, Behind DEF Rear
  <2>2. ~OnWay(Tail(r), CloseIq)
    BY <1>1, <1>2, LoneKeeps DEF Smooth
  <2> QED BY <1>2, <2>1, <2>2, NothingLeft DEF Smooth
<1>4. /\ OkClose \in Stanzas /\ NoClose \in Stanzas
      /\ \A m \in {OkClose, NoClose} : /\ m # CloseIq /\ m # Answer(Open, "not-acceptable")
                                       /\ \A n \in Blocks : m # Data(n) /\ ~IsReply(m, n)
      /\ OkClose # NoClose
  <2>1. /\ OkClose # CloseIq /\ NoClose # CloseIq /\ OkClose # NoClose
        /\ OkClose # Answer(Open, "not-acceptable") /\ NoClose # Answer(Open, "not-acceptable")
        /\ \A n \in Blocks : OkClose # Data(n) /\ NoClose # Data(n)
    BY Kinds, Forms DEF OkClose, NoClose, Results
  <2> QED BY <2>1, Kinds
<1>5. \A n \in Blocks : IsReply(Answer(Data(n), Refusal), n) /\ IsReply(Answer(Data(n), "not-found"), n)
  BY Kinds DEF Results, Refusal
<1>6. CASE S.half \notin {"live", "tombstone"}
  <2> DEFINE o == <<NoClose>>
  <2>1. S.half = "gone"
    BY <1>2, <1>3, <1>6 DEF Duplexes
  <2>2. end[Peer(e)].closedByPeer
    BY <1>2, <1>3, <2>1 DEF Smooth
  <2>3. o \in Seq(Stanzas) /\ \A m : OnWay(o, m) <=> m = NoClose
    BY <1>4, Alone
  <2>4. Civil(S, end[Peer(e)], o) /\ ~OnWay(o, CloseIq) /\ \A n \in Blocks : ~OnWay(o, Data(n))
    BY <1>4, <1>5, <2>2, <2>3 DEF Civil
  <2> HIDE DEF o
  <2>5. y.st = S /\ y.out = o
    <3>1. y = Puts(x, o)
      BY <1>6 DEF o
    <3>2. <<>> \o o = o
      BY <2>3
    <3> HIDE DEF y
    <3>3. y.st = S /\ y.out = <<>> \o o
      BY <1>2, <2>3, <3>1, PutsIs
    <3> QED BY <3>2, <3>3
  <2> HIDE DEF y
  <2> QED BY <1>1, <1>2, <2>3, <2>4, <2>5, ModestActs
<1>7. CASE S.half \in {"live", "tombstone"}
  <2> DEFINE c == <<OkClose>>
             a == f.out
             o == a \o c
             Z == w.st
  <2>1. c \in Seq(Stanzas) /\ \A m : OnWay(c, m) <=> m = OkClose
    BY <1>4, Alone
  <2>2. /\ f \in X /\ a \in Seq(Stanzas) /\ f.st \in Duplexes
        /\ ~OnWay(a, CloseIq) /\ ~OnWay(a, OkClose) /\ ~OnWay(a, NoClose) /\ ~OnWay(a, Answer(Open, "not-acceptable"))
        /\ \A n \in Blocks : ~OnWay(a, Data(n)) /\ ~Replied(a, n)
        /\ f.st.half # "none"
        /\ f.st.closes = S.closes /\ f.st.refused = S.refused
        /\ f.st.inFlight = S.inFlight /\ f.st.failed = S.failed /\ f.st.closing = S.closing
        /\ f.st.aborting = S.aborting /\ f.st.closeSent = S.closeSent /\ ~f.st.onFailDue
    <3>1. CASE S.half = "live"
      <4>1. /\ f \in X /\ f.st = [S EXCEPT !.withheld = <<>>, !.half = "gone", !.onFailDue = FALSE]
            /\ a = Answers(S.withheld, "not-found")
        BY <1>2, <3>1, FinishIs
      <4>2. Parting(S.withheld, a, "not-found", FALSE)
        BY <1>2, <4>1, PartingForms DEF Begun, Results, Duplexes
      <4>3. f.st \in Duplexes
        BY <4>1 DEF X
      <4>4. f.st = [S EXCEPT !.withheld = <<>>, !.half = "gone", !.onFailDue = FALSE]
        BY <4>1
      <4>5. f \in X
        BY <4>1
      <4> HIDE DEF f, S
      <4>6. /\ f.st.half = "gone" /\ ~f.st.onFailDue
            /\ f.st.closes = S.closes /\ f.st.refused = S.refused
            /\ f.st.inFlight = S.inFlight /\ f.st.failed = S.failed /\ f.st.closing = S.closing
            /\ f.st.aborting = S.aborting /\ f.st.closeSent = S.closeSent
        BY <1>2, <4>3, <4>4 DEF Duplexes
      <4> QED BY <1>3, <4>2, <4>3, <4>5, <4>6 DEF Parting, Results
    <3>2. CASE S.half # "live"
      <4>1. f = x /\ f.st = S /\ a = <<>>
        BY <1>2, <3>2 DEF FinishInStream
      <4>2. f \in X /\ f.st \in Duplexes /\ ~S.onFailDue
        BY <1>2, <4>1 DEF Tidy
      <4> QED BY <1>3, <4>1, <4>2, Nothing
    <3> QED BY <3>1, <3>2
  <2>3. f \in X /\ f.st \in Duplexes
    BY <2>2
  <2> HIDE DEF f, c
  <2>4. w.st = [f.st EXCEPT !.closedByPeer = TRUE, !.peerKnows = TRUE] /\ w.out = a
    BY <2>3 DEF X, Duplexes
  <2>5. w \in X
    BY <2>3, <2>4 DEF X, Duplexes
  <2> HIDE DEF w
  <2>6. y.st = Z /\ y.out = a \o c
    BY <1>7, <2>1, <2>4, <2>5, PutsIs DEF c
  <2> HIDE DEF y, S, a
  <2>7. /\ Z.half = f.st.half /\ Z.closes = f.st.closes /\ Z.refused = f.st.refused
        /\ Z.inFlight = f.st.inFlight /\ Z.failed = f.st.failed /\ Z.onFailDue = f.st.onFailDue
        /\ Z.closing = f.st.closing /\ Z.aborting = f.st.aborting /\ Z.closeSent = f.st.closeSent
        /\ Z.closedByPeer
    BY <2>3, <2>4 DEF Duplexes
  <2>8. o \in Seq(Stanzas) /\ \A m : OnWay(o, m) <=> OnWay(a, m) \/ m = OkClose
    BY <2>1, <2>2, Joined
  <2> HIDE DEF Z, o
  <2>9. Tidy(Z)
    BY <1>2, <2>2, <2>7 DEF Tidy
  <2>10. \A n \in Blocks : ~OnWay(o, Answer(Data(n), Refusal)) /\ ~OnWay(o, Answer(Data(n), "not-found"))
    <3>1. \A n \in Blocks : ~OnWay(a, Answer(Data(n), Refusal)) /\ ~OnWay(a, Answer(Data(n), "not-found"))
      BY <2>2, RepliedIs DEF Results, Refusal
    <3> QED BY <1>4, <1>5, <2>8, <3>1
  <2>11. Civil(Z, end[Peer(e)], o) /\ ~OnWay(o, CloseIq) /\ \A n \in Blocks : ~OnWay(o, Data(n))
    BY <1>4, <2>2, <2>7, <2>8, <2>10 DEF Civil
  <2>12. y.st = Z /\ y.out = o
    BY <2>6 DEF o
  <2> QED BY <1>1, <1>2, <1>3, <2>2, <2>7, <2>8, <2>9, <2>11, <2>12, CleanActs
<1> QED BY <1>6, <1>7

LEMMA CleanSettles ==
  ASSUME DuplexInv, CleanInv, faults = {}, NEW e \in Ends, ReceiveAnswer(e)
  PROVE  CleanInv'
<1> DEFINE S == end[e]
           x == Start(e)
           r == channel[e]
<1>1. /\ x.st = S /\ x \in X /\ x.out = <<>> /\ S \in Duplexes /\ r \in Seq(Stanzas) /\ Tidy(S)
      /\ Smooth(S, end[Peer(e)], channel[Peer(e)], r)
      /\ opening # "discarded" /\ Own(S, HasHandle(e)) /\ Link(S, end[Peer(e)], channel[Peer(e)], r)
      /\ r # <<>> /\ opening' = opening
  BY PairOf, TidyOf DEF Start, Pair, ReceiveAnswer, Receives, Opens
<1>2. OnWay(r, Head(r))
  BY <1>1, Behind
<1>3. ASSUME NEW y, Stretch(e, y, TRUE), y.out = <<>>,
             y.st = S \/ \E v \in SUBSET S.inFlight : y.st = [S EXCEPT !.inFlight = v]
      PROVE  CleanInv'
  <2> HIDE DEF S
  <2>1. /\ y.st.half = S.half /\ y.st.closedByPeer = S.closedByPeer /\ y.st.closeSent = S.closeSent
        /\ y.st.closes = S.closes /\ y.st.closing = S.closing /\ y.st.failed = S.failed /\ y.st.refused = S.refused
        /\ y.st.aborting = S.aborting /\ y.st.onFailDue = S.onFailDue /\ y.st.inFlight \subseteq S.inFlight
    BY <1>1, <1>3 DEF Duplexes
  <2>2. Tidy(y.st)
    BY <1>1, <2>1 DEF Tidy
  <2>3. y.out \in Seq(Stanzas) /\ (\A m : ~OnWay(y.out, m)) /\ Civil(y.st, end[Peer(e)], y.out)
    BY <1>3, SaidOnce, Nothing
  <2> QED BY <1>1, <1>3, <2>1, <2>2, <2>3, ModestActs DEF S
<1>4. CASE \E n \in Blocks, res \in {"ok", "not-found", "unexpected-request"} :
             /\ Head(channel[e]) = Answer(Data(n), res)
             /\ Receives(e, SettleBlock(Start(e), n, res))
  <2>1. PICK n \in Blocks, res \in {"ok", "not-found", "unexpected-request"} :
          Head(r) = Answer(Data(n), res) /\ Stretch(e, SettleBlock(x, n, res), TRUE)
    BY <1>4 DEF Receives
  <2>2. res # "unexpected-request" /\ (res = "not-found" => S.closedByPeer)
    BY <1>1, <1>2, <2>1 DEF Smooth, Refusal
  <2> DEFINE y == SettleBlock(x, n, res)
             v == S.inFlight \ {n}
  <2>3. CASE n \notin S.inFlight
    <3>1. y.st = S /\ y.out = <<>>
      BY <1>1, <2>3 DEF SettleBlock
    <3> HIDE DEF S, x
    <3> QED BY <1>3, <2>1, <3>1
  <2>4. CASE n \in S.inFlight
    <3>1. y = [x EXCEPT !.st.inFlight = @ \ {n}]
      BY <1>1, <2>2, <2>4 DEF SettleBlock, BlockFails
    <3>2. y.st = [S EXCEPT !.inFlight = v] /\ y.out = <<>> /\ v \in SUBSET S.inFlight
      BY <1>1, <3>1 DEF X, Duplexes
    <3> HIDE DEF S, x, v
    <3> QED BY <1>3, <2>1, <3>2
  <2> QED BY <2>3, <2>4
<1>5. CASE \E res \in {"ok", "not-found"} :
             /\ Head(channel[e]) = Answer(CloseIq, res)
             /\ Receives(e, SettleClose(Start(e), res = "ok"))
  <2>1. PICK res \in {"ok", "not-found"} :
          Head(r) = Answer(CloseIq, res) /\ Stretch(e, SettleClose(x, res = "ok"), TRUE)
    BY <1>5 DEF Receives
  <2> DEFINE y == SettleClose(x, res = "ok")
  <2>2. ~S.aborting /\ S.closing # "telling"
    BY <1>1 DEF Tidy
  <2>3. CASE S.closing # "sent"
    <3>1. y.st = S /\ y.out = <<>>
      BY <1>1, <2>2, <2>3 DEF SettleClose
    <3> HIDE DEF S, x
    <3> QED BY <1>3, <2>1, <3>1
  <2>4. CASE S.closing = "sent"
    <3>1. res = "ok" => end[Peer(e)].closedByPeer
      BY <1>1, <1>2, <2>1 DEF Smooth, OkClose
    <3>2. res = "not-found" => S.closedByPeer
      BY <1>1, <1>2, <2>1 DEF Smooth, NoClose
    <3>3. y = CloseResolves(x)
      BY <1>1, <2>1, <2>2, <2>4, <3>2 DEF SettleClose
    <3>4. S.closeSent /\ S.closes > 0 /\ S.half # "live"
      BY <1>1, <2>4 DEF Own
    <3>5. Stretch(e, CloseResolves(Start(e)), TRUE)
      BY <2>1, <3>3
    <3> QED BY <1>1, <2>1, <3>1, <3>2, <3>4, <3>5, CleanResolves
  <2> QED BY <2>3, <2>4
<1> QED BY <1>4, <1>5 DEF ReceiveAnswer

LEMMA FaultsStay ==
  ASSUME Next
  PROVE  faults' = faults
<1>1. CASE OpenDuplex \/ ExpectDuplex \/ ReceiveOpen \/ AnswerOpen \/ AcceptTimeout \/ ExpectTimeout
  BY <1>1 DEF OpenDuplex, ExpectDuplex, ReceiveOpen, AnswerOpen, AcceptTimeout, ExpectTimeout, Stretch
<1>2. CASE ReceiveOpenAnswer \/ OpenTimeout
  BY <1>2 DEF ReceiveOpenAnswer, OpenTimeout, Stretch
<1>3. ASSUME NEW e \in Ends, Write(e) \/ Close(e) \/ CloseDrained(e) \/ Abort(e) \/ Pull(e) \/ Idle(e) \/ OnFail(e)
                             \/ SendRefusal(e)
      PROVE  faults' = faults
  BY <1>3 DEF Write, Close, CloseDrained, Abort, Pull, Idle, OnFail, SendRefusal, Does, Stretch
<1>4. ASSUME NEW e \in Ends, Receive(e) \/ BlockTimeout(e) \/ CloseTimeout(e)
      PROVE  faults' = faults
  BY <1>4 DEF Receive, ReceiveData, ReceiveClose, ReceiveAnswer, BlockTimeout, CloseTimeout, Does, Receives, Stretch
<1> QED BY <1>1, <1>2, <1>3, <1>4 DEF Next

LEMMA CleanStarts ==
  ASSUME Init
  PROVE  CleanInv
<1>1. \A e \in Ends : end[e] = Untouched /\ channel[e] = <<>> /\ end[Peer(e)] = Untouched /\ channel[Peer(e)] = <<>>
  BY TwoEnds DEF Init
<1>2. \A m : ~OnWay(<<>>, m)
  BY Nothing
<1>3. Tidy(Untouched)
  BY DEF Tidy, Untouched
<1>4. Smooth(Untouched, Untouched, <<>>, <<>>)
  <2>1. Untouched.half = "none"
    BY DEF Untouched
  <2>2. Lone(<<>>)
    BY DEF Lone
  <2> QED BY <1>2, <2>1, <2>2 DEF Smooth
<1>5. \A e \in Ends : CleanOf(e)
  BY <1>1, <1>3, <1>4 DEF CleanOf
<1>6. opening # "discarded" /\ channel["a"] = <<>>
  BY <1>1 DEF Init, Ends
<1> QED BY <1>2, <1>5, <1>6 DEF CleanInv

LEMMA CleanGoesOn ==
  ASSUME DuplexInv, CleanInv, [Next]_vars
  PROVE  CleanInv'
<1>1. CASE UNCHANGED vars
  <2>1. end' = end /\ channel' = channel /\ faults' = faults /\ opening' = opening
    BY <1>1 DEF vars
  <2> QED BY <2>1, UnmovedActs
<1>2. CASE faults # {} /\ Next
  <2>1. faults' = faults
    BY <1>2, FaultsStay
  <2> QED BY <1>2, <2>1 DEF CleanInv
<1>3. CASE faults = {} /\ Next
  <2>1. CASE OpenDuplex \/ ExpectDuplex \/ ReceiveOpen
    BY <1>3, <2>1, CleanOpens
  <2>2. CASE AnswerOpen \/ ReceiveOpenAnswer
    BY <1>3, <2>2, CleanAnswersOpen
  <2>3. ~AcceptTimeout /\ ~ExpectTimeout /\ ~OpenTimeout
    BY <1>3 DEF AcceptTimeout, ExpectTimeout, OpenTimeout
  <2>4. ASSUME NEW e \in Ends, Write(e) \/ Close(e) \/ CloseDrained(e) \/ Pull(e) \/ Receive(e)
        PROVE  CleanInv'
    BY <1>3, <2>4, CleanWrites, CleanCloses, CleanDrains, CleanPulls, CleanReceives, CleanHearsClose, CleanSettles
       DEF Receive
  <2>5. ASSUME NEW e \in Ends
        PROVE  ~Abort(e) /\ ~Idle(e) /\ ~OnFail(e) /\ ~SendRefusal(e) /\ ~BlockTimeout(e) /\ ~CloseTimeout(e)
    <3>1. ~end[e].onFailDue /\ end[e].refused = "no"
      BY <1>3, TidyOf DEF Tidy
    <3> QED BY <1>3, <3>1 DEF Abort, Idle, OnFail, SendRefusal, BlockTimeout, CloseTimeout
  <2> QED BY <1>3, <2>1, <2>2, <2>3, <2>4, <2>5 DEF Next
<1> QED BY <1>1, <1>2, <1>3

-----------------------------------------------------------------------------
(* How often an end tells its peer: sendClose() does once, tellPeer() only *)
(* if nobody has yet, discard() after an overdue <open> whoever has.       *)
Measured(S) == S.closes <= 2 /\ (~S.closeSent => S.closes <= 1)

(* Until its <open> is answered a's only <close/> is sendClose()'s. *)
Modest(S) ==
  /\ S.closes = IF S.closeSent THEN 1 ELSE 0
  /\ S.failed # "no" => S.closeSent
  /\ S.inFlight = {}

MeasureInv ==
  /\ \A e \in Ends : Measured(end[e])
  /\ opening \in {"no", "asked"} => Modest(end["a"])

(* An end with a handle, or with blocks to be answered. *)
Free(S, h) == h \/ S.inFlight # {}

(* One stretch, discard()'s apart, adds one <close/> at most, and only     *)
(* where sendClose() is due or nobody has told the peer.                   *)
Says(S, Z, h) ==
  /\ \/ Z.closes = S.closes /\ Z.closeSent = S.closeSent
     \/ Z.closes = S.closes + 1 /\ ~S.closeSent /\ Z.closeSent
     \/ /\ Z.closes = S.closes + 1 /\ ~S.peerKnows /\ Z.closeSent = S.closeSent
        /\ Free(S, h) \/ S.closeSent \/ S.failed # "no" \/ S.closedByPeer
  /\ Free(S, h) \/ (Z.inFlight = {} /\ (Z.failed = S.failed \/ Z.closeSent))

LEMMA Unsaid ==
  ASSUME NEW S, NEW Z, NEW h, Z.closes = S.closes, Z.closeSent = S.closeSent, Z.failed = S.failed,
         Z.inFlight \subseteq S.inFlight
  PROVE  Says(S, Z, h)
  BY DEF Says, Free

LEMMA AbortSays ==
  ASSUME NEW x, Begun(x), NEW h
  PROVE  Says(x.st, AbortDuplex(x).st, h)
<1> DEFINE S == x.st
           y == AbortDuplex(x)
           Z == y.st
<1>1. \/ /\ ~S.closeSent /\ S.failed = "no" /\ ~S.closedByPeer
         /\ Farewell(S, y) /\ Z.closeSent
      \/ /\ S.closeSent \/ S.failed # "no" \/ S.closedByPeer
         /\ ~S.peerKnows
         /\ Farewell(S, y) /\ Z.closeSent = S.closeSent /\ Z.failed = S.failed
      \/ Burial(S, y) /\ Rest(S, Z)
  BY AbortIs
<1>2. Farewell(S, y) => Z.closes = S.closes + 1 /\ Z.inFlight = S.inFlight
  BY DEF Farewell, Same
<1>3. Burial(S, y) /\ Rest(S, Z) => /\ Z.closes = S.closes /\ Z.inFlight = S.inFlight
                                    /\ Z.closeSent = S.closeSent /\ Z.failed = S.failed
  BY DEF Burial, Same, Rest
<1> HIDE DEF S, Z
<1>4. Says(S, Z, h)
  BY <1>1, <1>2, <1>3 DEF Says, Free
<1> QED BY <1>4 DEF S, Z

LEMMA FailureSays ==
  ASSUME NEW x, Begun(x)
  PROVE  Says(x.st, CloseFails(x).st, TRUE)
<1> DEFINE S == x.st
           y == CloseFails(x)
           Z == y.st
<1>1. /\ Z.closeSent = S.closeSent
      /\ Burial(S, y) \/ (~S.peerKnows /\ Farewell(S, y))
  BY CloseFailsIs
<1>2. (Farewell(S, y) => Z.closes = S.closes + 1) /\ (Burial(S, y) => Z.closes = S.closes)
  BY DEF Farewell, Burial
<1> HIDE DEF S, Z
<1>3. Says(S, Z, TRUE)
  BY <1>1, <1>2 DEF Says, Free
<1> QED BY <1>3 DEF S, Z

(* Whatever was noted first, if it is not about who was told. *)
LEMMA NotedSays ==
  ASSUME NEW S, NEW T, NEW Z, NEW h, Says(T, Z, h),
         T.closes = S.closes, T.closeSent = S.closeSent, T.peerKnows = S.peerKnows,
         \/ Free(S, h)
         \/ T.failed = S.failed /\ T.closedByPeer = S.closedByPeer /\ T.inFlight = S.inFlight
  PROVE  Says(S, Z, h)
  BY DEF Says, Free

LEMMA Restarted ==
  ASSUME NEW x \in X, Begun(x), NEW w \in X, w.out = x.out,
         w.st.half = x.st.half, w.st.withheld = x.st.withheld
  PROVE  Begun(w)
  BY DEF Begun

(* What the count is about stays as it was. *)
Spared(S, Z) ==
  Z.closes = S.closes /\ Z.closeSent = S.closeSent /\ Z.failed = S.failed /\ Z.inFlight = S.inFlight

LEMMA FinishSpares ==
  ASSUME NEW x \in X, x.out = <<>>, NEW error \in BOOLEAN
  PROVE  FinishInStream(x, error) \in X /\ Spared(x.st, FinishInStream(x, error).st)
<1> DEFINE y == FinishInStream(x, error)
<1>1. CASE x.st.half = "live"
  <2>1. y \in X /\ y.st = [x.st EXCEPT !.withheld = <<>>, !.half = "gone", !.onFailDue = error]
    <3>1. TRUE \in BOOLEAN /\ error \in BOOLEAN
      OBVIOUS
    <3> QED BY <1>1, <3>1, FinishIs, Zenon
  <2>2. x.st \in Duplexes
    BY DEF X
  <2> HIDE DEF y
  <2>3. Spared(x.st, y.st)
    BY <2>1, <2>2 DEF Spared, Duplexes
  <2> QED BY <2>1, <2>3 DEF y
<1>2. CASE x.st.half # "live"
  <2>1. y = x
    BY <1>2 DEF FinishInStream
  <2> QED BY <2>1 DEF Spared
<1> QED BY <1>1, <1>2

(* What such a stretch does to the count. *)
LEMMA SayingKeeps ==
  ASSUME DuplexInv, MeasureInv, NEW e \in Ends, NEW y, NEW consumed \in BOOLEAN, Stretch(e, y, consumed),
         Says(end[e], y.st, HasHandle(e)),
         opening' \in {"no", "asked"} => opening \in {"no", "asked"}
  PROVE  MeasureInv'
<1> DEFINE S == end[e]
           Z == y.st
<1>1. end'[e] = Z /\ end'[Peer(e)] = end[Peer(e)]
  <2>1. end \in [Ends -> Duplexes] /\ Peer(e) \in Ends /\ Peer(e) # e /\ end' = [end EXCEPT ![e] = Z]
    BY TwoEnds DEF DuplexInv, Typed, Stretch
  <2> HIDE DEF Z
  <2> QED BY <2>1
<1>2. S \in Duplexes /\ Own(S, HasHandle(e)) /\ Measured(S)
  BY PairOf DEF Pair, MeasureInv
<1>3. S.closes \in Nat /\ S.closeSent \in BOOLEAN /\ (S.closes > 0 \/ S.closedByPeer => S.peerKnows)
  BY <1>2 DEF Duplexes, Own
<1>4. Says(S, Z, HasHandle(e))
  OBVIOUS
<1> HIDE DEF S, Z
<1>5. Measured(Z)
  BY <1>2, <1>3, <1>4 DEF Says, Measured
<1>6. ASSUME e = "a", opening' \in {"no", "asked"} PROVE Modest(Z)
  <2>1. Modest(S)
    BY <1>6 DEF MeasureInv, S
  <2>2. ~Free(S, HasHandle(e))
    BY <1>6, <2>1 DEF Free, HasHandle, Modest
  <2>3. ~S.peerKnows => ~S.closeSent /\ S.failed = "no" /\ ~S.closedByPeer
    BY <1>3, <2>1 DEF Modest
  <2>4. \/ Z.closes = S.closes /\ Z.closeSent = S.closeSent
        \/ Z.closes = S.closes + 1 /\ ~S.closeSent /\ Z.closeSent
    BY <1>4, <2>2, <2>3 DEF Says
  <2>5. Z.inFlight = {} /\ (Z.failed = S.failed \/ Z.closeSent)
    BY <1>4, <2>2 DEF Says
  <2> QED BY <1>3, <2>1, <2>4, <2>5 DEF Modest
<1>7. \A d \in Ends : Measured(end'[d])
  BY <1>1, <1>5, TwoEnds DEF MeasureInv
<1>8. opening' \in {"no", "asked"} => Modest(end'["a"])
  <2>1. CASE e = "a"
    BY <1>1, <1>6, <2>1
  <2>2. CASE e # "a"
    <3>1. Peer(e) = "a"
      BY <2>2 DEF Peer
    <3> QED BY <1>1, <3>1 DEF MeasureInv
  <2> QED BY <2>1, <2>2
<1> QED BY <1>7, <1>8 DEF MeasureInv

LEMMA WrittenSays ==
  ASSUME DuplexInv, MeasureInv, NEW e \in Ends, Write(e)
  PROVE  MeasureInv'
<1> DEFINE S == end[e]
           x == Start(e)
           n == S.sent + 1
           w == [x EXCEPT !.st.sent = n, !.st.inFlight = @ \cup {n}]
           y == Puts(w, <<Data(n)>>)
<1>1. HasHandle(e) /\ Stretch(e, y, FALSE) /\ opening' = opening
  BY DEF Write, Does, Opens
<1>2. x \in X /\ x.st = S /\ S \in Duplexes
  BY PairOf DEF Pair
<1>3. y.st = w.st
  BY <1>2 DEF Puts, X
<1>4. w.st.closes = S.closes /\ w.st.closeSent = S.closeSent
  BY <1>2 DEF X, Duplexes
<1> HIDE DEF y, w, S
<1>5. Says(S, y.st, HasHandle(e))
  BY <1>1, <1>3, <1>4 DEF Says, Free
<1> QED BY <1>1, <1>5, SayingKeeps DEF S

(* A close() that resolves tells nobody. *)
LEMMA ResolvedSays ==
  ASSUME DuplexInv, NEW e \in Ends, end[e].closedByPeer \/ end[e].closing = "sent"
  PROVE  Says(end[e], CloseResolves(Start(e)).st, HasHandle(e))
<1> DEFINE S == end[e]
           x == Start(e)
           y == RemoveTombstone([x EXCEPT !.st.closing = "resolved"])
           Z == y.st
<1>1. Begun(x) /\ x.st = S /\ S \in Duplexes /\ Own(S, HasHandle(e))
  BY PairOf DEF Pair
<1>2. S.half # "live"
  BY <1>1 DEF Own, Duplexes
<1>3. Burial(S, y) /\ Z.failed = S.failed /\ Z.closeSent = S.closeSent
  <2>1. x.st.half # "live"
    BY <1>1, <1>2
  <2>2. Burial(x.st, y) /\ y.st.failed = x.st.failed /\ y.st.closeSent = x.st.closeSent
    BY <1>1, <2>1, ReturnedIs
  <2> QED BY <1>1, <2>2
<1>4. Z.closes = S.closes /\ Z.inFlight = S.inFlight
  BY <1>3 DEF Burial, Same
<1> HIDE DEF S, Z
<1>5. Says(S, Z, HasHandle(e))
  BY <1>3, <1>4, Unsaid
<1> QED BY <1>5 DEF S, Z, CloseResolves

LEMMA ClosedSays ==
  ASSUME DuplexInv, MeasureInv, NEW e \in Ends, Close(e) \/ CloseDrained(e)
  PROVE  MeasureInv'
<1> DEFINE S == end[e]
           x == Start(e)
           drain == [x EXCEPT !.st.closing = "draining"]
           w == [x EXCEPT !.st.closing = "sent"]
           done == IF Close(e) THEN drain ELSE CloseStream(w)
           y == IF S.failed # "no" THEN CloseFails(x)
                ELSE IF S.closedByPeer THEN CloseResolves(x) ELSE done
<1>1. x \in X /\ Begun(x) /\ x.st = S /\ x.out = <<>> /\ S \in Duplexes /\ Own(S, HasHandle(e))
  BY PairOf DEF Pair, Start
<1>2. HasHandle(e) /\ opening' = opening /\ (~Close(e) => S.closing = "draining")
  BY <1>1 DEF Close, CloseDrained, Does, Opens, Own
<1>3. Stretch(e, y, FALSE)
  BY DEF Close, CloseDrained, Does
<1>4. CASE S.failed # "no"
  <2>1. Says(S, CloseFails(x).st, HasHandle(e))
    BY <1>1, <1>2, FailureSays
  <2>2. y = CloseFails(x)
    BY <1>4
  <2> HIDE DEF y, S, x
  <2> QED BY <1>2, <1>3, <2>1, <2>2, SayingKeeps DEF S
<1>5. CASE S.failed = "no" /\ S.closedByPeer
  <2>1. Says(S, CloseResolves(x).st, HasHandle(e))
    BY <1>5, ResolvedSays
  <2>2. y = CloseResolves(x)
    BY <1>5
  <2> HIDE DEF y, S, x
  <2> QED BY <1>2, <1>3, <2>1, <2>2, SayingKeeps DEF S
<1>6. CASE S.failed = "no" /\ ~S.closedByPeer /\ Close(e)
  <2>1. y = drain /\ drain.st = [S EXCEPT !.closing = "draining"]
    BY <1>1, <1>6 DEF X
  <2> HIDE DEF y, S
  <2>2. y.st.closes = S.closes /\ y.st.closeSent = S.closeSent /\ y.st.failed = S.failed /\ y.st.inFlight = S.inFlight
    BY <1>1, <2>1 DEF Duplexes
  <2>3. Says(S, y.st, HasHandle(e))
    BY <2>2, Unsaid
  <2> QED BY <1>2, <1>3, <2>3, SayingKeeps DEF S
<1>7. CASE S.failed = "no" /\ ~S.closedByPeer /\ ~Close(e)
  <2>1. y = CloseStream(w)
    BY <1>7
  <2>2. w.st = [S EXCEPT !.closing = "sent"] /\ w.out = <<>>
    BY <1>1 DEF X, Duplexes
  <2>3. w \in X
    BY <1>1, <2>2 DEF X, Duplexes
  <2>4. ~S.closeSent /\ S.closes \in Nat
    BY <1>1, <1>2, <1>7 DEF Own, Duplexes
  <2> HIDE DEF y, S, w, x
  <2>5. w.st.half = S.half /\ w.st.withheld = S.withheld /\ w.st.closes = S.closes
    BY <1>1, <2>2 DEF Duplexes
  <2>6. Begun(w)
    BY <1>1, <2>2, <2>3, <2>5, Restarted
  <2>7. Farewell(w.st, y) /\ y.st.closeSent
    BY <2>1, <2>6, CloseStreamIs
  <2>8. y.st.closes = S.closes + 1
    BY <2>5, <2>7 DEF Farewell
  <2>9. Says(S, y.st, HasHandle(e))
    BY <1>2, <2>4, <2>7, <2>8 DEF Says, Free
  <2> QED BY <1>2, <1>3, <2>9, SayingKeeps DEF S
<1> QED BY <1>4, <1>5, <1>6, <1>7

LEMMA AbortedSays ==
  ASSUME DuplexInv, MeasureInv, NEW e \in Ends, Abort(e) \/ OnFail(e)
  PROVE  MeasureInv'
<1> DEFINE S == end[e]
           x == Start(e)
           w == [x EXCEPT !.st.onFailDue = FALSE]
<1>1. x \in X /\ Begun(x) /\ x.st = S /\ x.out = <<>> /\ S \in Duplexes /\ opening' = opening
  BY PairOf DEF Pair, Start, Abort, OnFail, Does, Opens
<1>2. CASE Abort(e)
  <2>1. Stretch(e, AbortDuplex(x), FALSE)
    BY <1>2 DEF Abort, Does
  <2>2. Says(S, AbortDuplex(x).st, HasHandle(e))
    BY <1>1, AbortSays
  <2> HIDE DEF x
  <2> QED BY <1>1, <2>1, <2>2, SayingKeeps
<1>3. CASE OnFail(e)
  <2>1. Stretch(e, AbortDuplex(w), FALSE)
    BY <1>3 DEF OnFail, Does
  <2>2. w.st = [S EXCEPT !.onFailDue = FALSE] /\ w.out = <<>>
    BY <1>1 DEF X, Duplexes
  <2>3. w \in X
    BY <1>1, <2>2 DEF X, Duplexes
  <2> HIDE DEF x, w, S
  <2>4. /\ w.st.half = S.half /\ w.st.withheld = S.withheld /\ w.st.closes = S.closes
        /\ w.st.closeSent = S.closeSent /\ w.st.peerKnows = S.peerKnows /\ w.st.failed = S.failed
        /\ w.st.closedByPeer = S.closedByPeer /\ w.st.inFlight = S.inFlight
    BY <1>1, <2>2 DEF Duplexes
  <2>5. Begun(w)
    BY <1>1, <2>2, <2>3, <2>4, Restarted
  <2>6. Says(w.st, AbortDuplex(w).st, HasHandle(e))
    BY <2>5, AbortSays
  <2>7. Says(S, AbortDuplex(w).st, HasHandle(e))
    BY <2>4, <2>6, NotedSays
  <2> QED BY <1>1, <2>1, <2>7, SayingKeeps DEF S
<1> QED BY <1>2, <1>3

LEMMA WokenSays ==
  ASSUME DuplexInv, MeasureInv, NEW e \in Ends, Pull(e) \/ Idle(e) \/ SendRefusal(e)
  PROVE  MeasureInv'
<1> DEFINE S == end[e]
           x == Start(e)
<1>1. x \in X /\ x.st = S /\ x.out = <<>> /\ S \in Duplexes /\ opening' = opening
  BY PairOf DEF Pair, Start, Pull, Idle, SendRefusal, Does, Opens
<1>2. ASSUME NEW y, Stretch(e, y, FALSE), Spared(S, y.st)
      PROVE  MeasureInv'
  <2> HIDE DEF S
  <2>1. Says(S, y.st, HasHandle(e))
    BY <1>2, Unsaid DEF Spared
  <2> QED BY <1>1, <1>2, <2>1, SayingKeeps DEF S
<1>3. CASE Pull(e)
  <2> DEFINE y == WakeHandlers(x, "ok")
  <2>1. Stretch(e, y, FALSE)
    BY <1>3 DEF Pull, Does
  <2>2. y.st = [S EXCEPT !.withheld = <<>>]
    BY <1>1, WakeIs DEF Results
  <2> HIDE DEF S, y
  <2>3. Spared(S, y.st)
    BY <1>1, <2>2 DEF Spared, Duplexes
  <2> QED BY <1>2, <2>1, <2>3
<1>4. CASE Idle(e)
  <2> DEFINE y == FinishInStream(x, TRUE)
  <2>1. Stretch(e, y, FALSE)
    BY <1>4 DEF Idle, Does
  <2>2. Spared(x.st, y.st)
    BY <1>1, FinishSpares
  <2> HIDE DEF S, y, x
  <2> QED BY <1>1, <1>2, <2>1, <2>2
<1>5. CASE SendRefusal(e)
  <2>0. \E how \in {"told", "overtaken"} :
          \E o : Stretch(e, Puts([x EXCEPT !.st.refused = how], o), FALSE)
    BY <1>5 DEF SendRefusal, Does
  <2>1. PICK how \in {"told", "overtaken"} :
          \E o : Stretch(e, Puts([x EXCEPT !.st.refused = how], o), FALSE)
    BY <2>0
  <2>2. PICK o : Stretch(e, Puts([x EXCEPT !.st.refused = how], o), FALSE)
    BY <2>1
  <2> DEFINE w == [x EXCEPT !.st.refused = how]
             y == Puts(w, o)
  <2>3. w.st = [S EXCEPT !.refused = how] /\ w = [st |-> w.st, out |-> x.out]
    BY <1>1 DEF X, Duplexes
  <2> HIDE DEF w, S
  <2>4. y.st = w.st
    BY <2>3 DEF Puts
  <2> HIDE DEF y
  <2>5. Spared(S, y.st)
    BY <1>1, <2>3, <2>4 DEF Spared, Duplexes
  <2> QED BY <1>2, <2>2, <2>5 DEF w, y
<1> QED BY <1>3, <1>4, <1>5

LEMMA TakenSays ==
  ASSUME DuplexInv, MeasureInv, NEW e \in Ends, ReceiveData(e)
  PROVE  MeasureInv'
<1> DEFINE S == end[e]
           x == Start(e)
           t == [x EXCEPT !.st.taken = @ + 1]
<1>1. x \in X /\ x.st = S /\ S \in Duplexes /\ x = [st |-> S, out |-> <<>>]
  BY PairOf DEF Pair, Start
<1>2. opening' = opening
  BY DEF ReceiveData, Receives, Opens
<1>3. ASSUME NEW y, Stretch(e, y, TRUE), Spared(S, y.st)
      PROVE  MeasureInv'
  <2> HIDE DEF S
  <2>1. Says(S, y.st, HasHandle(e))
    BY <1>3, Unsaid DEF Spared
  <2> QED BY <1>2, <1>3, <2>1, SayingKeeps DEF S
<1>4. PICK n \in Blocks :
        \/ \E res \in {"ok", "not-found"} : Stretch(e, Puts(x, <<Answer(Data(n), res)>>), TRUE)
        \/ Stretch(e, RefuseBlock(x, n), TRUE)
        \/ Stretch(e, Puts(t, <<Answer(Data(n), "ok")>>), TRUE)
        \/ Stretch(e, [x EXCEPT !.st.taken = @ + 1, !.st.withheld = Append(@, n)], TRUE)
  <2>1. PICK n \in Blocks :
          /\ Head(channel[e]) = Data(n)
          /\ \/ /\ end[e].half \in {"none", "gone"}
                /\ Receives(e, Puts(x, <<Answer(Data(n), "not-found")>>))
             \/ /\ end[e].half = "tombstone"
                /\ Receives(e, Puts(x, <<Answer(Data(n), "ok")>>))
             \/ /\ end[e].half = "live" /\ "damage" \in faults
                /\ Receives(e, RefuseBlock(x, n))
             \/ /\ end[e].half = "live"
                /\ Receives(e, Puts([x EXCEPT !.st.taken = @ + 1], <<Answer(Data(n), "ok")>>))
             \/ /\ end[e].half = "live"
                /\ Receives(e, [x EXCEPT !.st.taken = @ + 1, !.st.withheld = Append(@, n)])
    BY Zenon DEF ReceiveData
  <2>2. ASSUME NEW y, Receives(e, y) PROVE Stretch(e, y, TRUE)
    BY <2>2 DEF Receives
  <2> HIDE DEF x
  <2> QED BY <2>1, <2>2, Zenon
<1>5. ASSUME NEW o, Stretch(e, Puts(x, o), TRUE)
      PROVE  MeasureInv'
  <2>1. Puts(x, o).st = S
    BY <1>1 DEF Puts
  <2> HIDE DEF x, S
  <2>2. Spared(S, Puts(x, o).st)
    BY <2>1 DEF Spared
  <2> QED BY <1>3, <1>5, <2>2
<1>6. ASSUME Stretch(e, RefuseBlock(x, n), TRUE)
      PROVE  MeasureInv'
  <2> DEFINE w == [x EXCEPT !.st.refused = "due"]
             y == RefuseBlock(x, n)
  <2>1. w.st = [S EXCEPT !.refused = "due"] /\ w.out = <<>>
    BY <1>1 DEF X, Duplexes
  <2>2. w \in X
    BY <1>1, <2>1 DEF X, Duplexes
  <2>3. y = FinishInStream(w, TRUE)
    BY DEF RefuseBlock
  <2> HIDE DEF w, S
  <2>4. Spared(S, w.st)
    BY <1>1, <2>1 DEF Spared, Duplexes
  <2> HIDE DEF y
  <2>5. Spared(w.st, y.st)
    BY <2>1, <2>2, <2>3, FinishSpares
  <2>7. Spared(S, y.st)
    BY <2>4, <2>5 DEF Spared
  <2> QED BY <1>3, <1>6, <2>7 DEF y
<1>7. ASSUME NEW o, Stretch(e, Puts(t, o), TRUE)
      PROVE  MeasureInv'
  <2> DEFINE y == Puts(t, o)
  <2>1. t.st = [S EXCEPT !.taken = S.taken + 1]
    BY <1>1 DEF X, Duplexes
  <2>2. y.st = t.st
    <3>1. t = [st |-> t.st, out |-> t.out]
      BY <1>1
    <3> HIDE DEF t
    <3> QED BY <3>1 DEF Puts
  <2> HIDE DEF S, t, y
  <2>3. Spared(S, y.st)
    BY <1>1, <2>1, <2>2 DEF Spared, Duplexes
  <2> QED BY <1>3, <1>7, <2>3 DEF y
<1>8. ASSUME Stretch(e, [x EXCEPT !.st.taken = @ + 1, !.st.withheld = Append(@, n)], TRUE)
      PROVE  MeasureInv'
  <2> DEFINE y == [x EXCEPT !.st.taken = @ + 1, !.st.withheld = Append(@, n)]
  <2>1. y.st = [S EXCEPT !.taken = S.taken + 1, !.withheld = Append(S.withheld, n)]
    BY <1>1 DEF X, Duplexes
  <2>2. Stretch(e, y, TRUE)
    BY <1>8
  <2> HIDE DEF S, y
  <2>3. Spared(S, y.st)
    BY <1>1, <2>1 DEF Spared, Duplexes
  <2> QED BY <1>3, <2>2, <2>3
<1> QED BY <1>4, <1>5, <1>6, <1>7, <1>8

LEMMA HungUpSays ==
  ASSUME DuplexInv, MeasureInv, NEW e \in Ends, ReceiveClose(e)
  PROVE  MeasureInv'
<1> DEFINE S == end[e]
           x == Start(e)
           f == FinishInStream(x, FALSE)
           w == [f EXCEPT !.st.closedByPeer = TRUE, !.st.peerKnows = TRUE]
           y == IF S.half \in {"live", "tombstone"} THEN Puts(w, <<OkClose>>) ELSE Puts(x, <<NoClose>>)
<1>1. x \in X /\ x.st = S /\ x.out = <<>> /\ S \in Duplexes
  BY PairOf DEF Pair, Start
<1>2. Stretch(e, y, TRUE) /\ opening' = opening
  BY DEF ReceiveClose, Receives, OkClose, NoClose, Opens
<1>3. f \in X /\ Spared(S, f.st)
  <2>1. f \in X /\ Spared(x.st, f.st)
    BY <1>1, FinishSpares
  <2> QED BY <1>1, <2>1
<1> HIDE DEF f, S
<1>4. w.st = [f.st EXCEPT !.closedByPeer = TRUE, !.peerKnows = TRUE] /\ w.out = f.out
  BY <1>3 DEF X, Duplexes
<1>5. w \in X
  BY <1>3, <1>4 DEF X, Duplexes
<1> HIDE DEF w
<1>6. Spared(S, w.st)
  BY <1>3, <1>4 DEF Spared, X, Duplexes
<1>7. y.st = w.st \/ y.st = S
  BY <1>1, <1>5 DEF X, Puts
<1> HIDE DEF y
<1>8. Says(S, y.st, HasHandle(e))
  BY <1>6, <1>7, Unsaid DEF Spared
<1> QED BY <1>2, <1>8, SayingKeeps DEF S

LEMMA SettledSays ==
  ASSUME DuplexInv, NEW e \in Ends, NEW n \in Blocks, NEW res
  PROVE  Says(end[e], SettleBlock(Start(e), n, res).st, HasHandle(e))
<1> DEFINE S == end[e]
           x == Start(e)
           y == SettleBlock(x, n, res)
           w == [x EXCEPT !.st.failed = "block"]
           c == IF res = "ok" \/ (S.closedByPeer /\ res = "not-found") \/ S.failed # "no" THEN x ELSE AbortDuplex(w)
<1>1. x \in X /\ Begun(x) /\ x.st = S /\ x.out = <<>> /\ S \in Duplexes
  BY PairOf DEF Pair, Start
<1>2. CASE n \notin S.inFlight
  <2>1. y.st = S
    BY <1>1, <1>2 DEF SettleBlock
  <2> HIDE DEF y, S
  <2>2. Says(S, y.st, HasHandle(e))
    BY <2>1, Unsaid
  <2> QED BY <2>2 DEF S, y
<1>3. CASE n \in S.inFlight
  <2>1. y = [c EXCEPT !.st.inFlight = @ \ {n}]
    BY <1>1, <1>3 DEF SettleBlock, BlockFails
  <2>2. w.st = [S EXCEPT !.failed = "block"] /\ w.out = <<>>
    BY <1>1 DEF X, Duplexes
  <2>3. w \in X
    BY <1>1, <2>2 DEF X, Duplexes
  <2>4. c = x \/ c = AbortDuplex(w)
    OBVIOUS
  <2>5. Free(S, HasHandle(e))
    BY <1>3 DEF Free
  <2> HIDE DEF y, S, w, x, c
  <2>6. /\ w.st.half = S.half /\ w.st.withheld = S.withheld /\ w.st.closes = S.closes
        /\ w.st.closeSent = S.closeSent /\ w.st.peerKnows = S.peerKnows
    BY <1>1, <2>2 DEF Duplexes
  <2>7. Begun(w)
    BY <1>1, <2>2, <2>3, <2>6, Restarted
  <2>8. Says(w.st, AbortDuplex(w).st, HasHandle(e)) /\ AbortDuplex(w) \in X
    BY <2>7, AbortSays, AbortIs DEF Farewell, Burial
  <2>9. Says(S, AbortDuplex(w).st, HasHandle(e))
    BY <2>5, <2>6, <2>8, NotedSays
  <2>10. Says(S, c.st, HasHandle(e)) /\ c \in X
    BY <1>1, <2>4, <2>8, <2>9, Unsaid
  <2>11. y.st.closes = c.st.closes /\ y.st.closeSent = c.st.closeSent
    BY <2>1, <2>10 DEF X, Duplexes
  <2>12. Says(S, y.st, HasHandle(e))
    BY <2>5, <2>10, <2>11 DEF Says
  <2> QED BY <2>12 DEF S, y, x
<1> QED BY <1>2, <1>3

LEMMA ToldSays ==
  ASSUME DuplexInv, NEW e \in Ends, NEW ok \in BOOLEAN
  PROVE  Says(end[e], SettleClose(Start(e), ok).st, HasHandle(e))
<1> DEFINE S == end[e]
           x == Start(e)
           y == SettleClose(x, ok)
<1>1. x \in X /\ Begun(x) /\ x.st = S /\ x.out = <<>> /\ S \in Duplexes /\ Own(S, HasHandle(e))
  BY PairOf DEF Pair, Start
<1>2. CASE S.aborting
  <2> DEFINE w == [x EXCEPT !.st.aborting = FALSE]
  <2>1. w.st = [S EXCEPT !.aborting = FALSE] /\ w.out = <<>>
    BY <1>1 DEF X, Duplexes
  <2>2. w \in X /\ y = Buried(w)
    BY <1>1, <1>2, <2>1 DEF X, Duplexes, SettleClose
  <2> HIDE DEF S, y, w, x
  <2>3. /\ w.st.half = S.half /\ w.st.withheld = S.withheld /\ w.st.closes = S.closes
        /\ w.st.closeSent = S.closeSent /\ w.st.failed = S.failed /\ w.st.inFlight = S.inFlight
    BY <1>1, <2>1 DEF Duplexes
  <2>4. Begun(w)
    BY <1>1, <2>1, <2>2, <2>3, Restarted
  <2>5. Burial(w.st, y) /\ Rest(w.st, y.st)
    BY <2>2, <2>4, BuriedIs
  <2>6. Says(S, y.st, HasHandle(e))
    BY <2>3, <2>5, Unsaid DEF Burial, Same, Rest
  <2> QED BY <2>6 DEF S, y, x
<1>3. CASE ~S.aborting /\ S.closing = "telling"
  <2> DEFINE z == RemoveTombstone([x EXCEPT !.st.closing = "rejected"])
  <2>1. S.half # "live" /\ y = z
    BY <1>1, <1>3 DEF Own, SettleClose
  <2>2. Burial(x.st, z) /\ z.st.failed = x.st.failed /\ z.st.closeSent = x.st.closeSent
    BY <1>1, <2>1, ReturnedIs
  <2> HIDE DEF S, y, z, x
  <2>3. Says(S, y.st, HasHandle(e))
    BY <1>1, <2>1, <2>2, Unsaid DEF Burial, Same
  <2> QED BY <2>3 DEF S, y, x
<1>4. CASE ~S.aborting /\ S.closing \notin {"sent", "telling"}
  <2>1. y = x
    BY <1>1, <1>4 DEF SettleClose
  <2> HIDE DEF S, y, x
  <2>2. Says(S, y.st, HasHandle(e))
    BY <1>1, <2>1, Unsaid
  <2> QED BY <2>2 DEF S, y, x
<1>5. CASE ~S.aborting /\ S.closing = "sent" /\ (ok \/ S.closedByPeer)
  <2>1. y = CloseResolves(x)
    BY <1>1, <1>5 DEF SettleClose
  <2> QED BY <1>5, <2>1, ResolvedSays
<1>6. CASE ~S.aborting /\ S.closing = "sent" /\ ~(ok \/ S.closedByPeer)
  <2> DEFINE w == [x EXCEPT !.st.failed = "block"]
  <2>1. w.st = [S EXCEPT !.failed = "block"] /\ w.out = <<>>
    BY <1>1 DEF X, Duplexes
  <2>2. w \in X /\ y = CloseFails(w) /\ HasHandle(e)
    BY <1>1, <1>6, <2>1 DEF X, Duplexes, SettleClose, Own
  <2> HIDE DEF S, y, w, x
  <2>3. /\ w.st.half = S.half /\ w.st.withheld = S.withheld /\ w.st.closes = S.closes
        /\ w.st.closeSent = S.closeSent /\ w.st.peerKnows = S.peerKnows
    BY <1>1, <2>1 DEF Duplexes
  <2>4. Begun(w)
    BY <1>1, <2>1, <2>2, <2>3, Restarted
  <2>5. Says(w.st, y.st, HasHandle(e)) /\ Free(S, HasHandle(e))
    BY <2>2, <2>4, FailureSays DEF Free
  <2>6. Says(S, y.st, HasHandle(e))
    BY <2>3, <2>5, NotedSays
  <2> QED BY <2>6 DEF S, y, x
<1> QED BY <1>2, <1>3, <1>4, <1>5, <1>6

LEMMA AnsweredSays ==
  ASSUME DuplexInv, MeasureInv, NEW e \in Ends, ReceiveAnswer(e) \/ BlockTimeout(e) \/ CloseTimeout(e)
  PROVE  MeasureInv'
<1>1. opening' = opening
  BY DEF ReceiveAnswer, BlockTimeout, CloseTimeout, Receives, Does, Opens
<1>2. ASSUME NEW y, NEW consumed \in BOOLEAN, Stretch(e, y, consumed), Says(end[e], y.st, HasHandle(e))
      PROVE  MeasureInv'
  BY <1>1, <1>2, SayingKeeps
<1>3. ASSUME NEW n \in Blocks, NEW res, NEW consumed \in BOOLEAN, Stretch(e, SettleBlock(Start(e), n, res), consumed)
      PROVE  MeasureInv'
  BY <1>2, <1>3, SettledSays
<1>4. ASSUME NEW ok \in BOOLEAN, NEW consumed \in BOOLEAN, Stretch(e, SettleClose(Start(e), ok), consumed)
      PROVE  MeasureInv'
  BY <1>2, <1>4, ToldSays
<1>5. CASE ReceiveAnswer(e)
  BY <1>3, <1>4, <1>5 DEF ReceiveAnswer, Receives
<1>6. CASE BlockTimeout(e)
  <2>1. PICK n \in end[e].inFlight : Stretch(e, SettleBlock(Start(e), n, "timeout"), FALSE)
    BY <1>6 DEF BlockTimeout, Does
  <2>2. n \in Blocks
    BY <2>1 DEF DuplexInv, Typed, Duplexes
  <2> QED BY <1>3, <2>1, <2>2
<1>7. CASE CloseTimeout(e)
  BY <1>4, <1>7 DEF CloseTimeout, Does
<1> QED BY <1>5, <1>6, <1>7

LEMMA DiscardSpares ==
  ASSUME DuplexInv, NEW e \in Ends
  PROVE  Discard(Start(e)) \in X /\ Spared(end[e], Discard(Start(e)).st)
<1> DEFINE S == end[e]
           x == Start(e)
           w == [x EXCEPT !.st.peerKnows = TRUE]
           y == Buried(w)
<1>1. x \in X /\ Begun(x) /\ x.st = S /\ x.out = <<>> /\ S \in Duplexes
  BY PairOf DEF Pair, Start
<1>2. w.st = [S EXCEPT !.peerKnows = TRUE] /\ w.out = <<>>
  BY <1>1 DEF X, Duplexes
<1>3. w \in X
  BY <1>1, <1>2 DEF X, Duplexes
<1> HIDE DEF w, S, x
<1>4. Spared(S, w.st) /\ w.st.half = S.half /\ w.st.withheld = S.withheld
  BY <1>1, <1>2 DEF Spared, Duplexes
<1>5. Begun(w)
  BY <1>1, <1>2, <1>3, <1>4, Restarted
<1>6. Burial(w.st, y) /\ Rest(w.st, y.st)
  BY <1>5, BuriedIs
<1> HIDE DEF y
<1>7. y \in X /\ Spared(S, y.st)
  BY <1>4, <1>6 DEF Burial, Same, Rest, Spared
<1> QED BY <1>7 DEF y, w, S, x, Discard

LEMMA OpenedSays ==
  ASSUME DuplexInv, MeasureInv,
         OpenDuplex \/ ExpectDuplex \/ ReceiveOpen \/ AnswerOpen \/ AcceptTimeout \/ ExpectTimeout
           \/ ReceiveOpenAnswer
  PROVE  MeasureInv'
<1>1. "a" \in Ends /\ "b" \in Ends
  BY DEF Ends
<1>2. \A e \in Ends : Start(e) \in X /\ Start(e).st = end[e] /\ Begun(Start(e)) /\ end[e] \in Duplexes
  BY PairOf DEF Pair
<1>3. ASSUME NEW e \in Ends, NEW y, NEW consumed \in BOOLEAN, Stretch(e, y, consumed), Spared(end[e], y.st),
             opening' \in {"no", "asked"} => opening \in {"no", "asked"}
      PROVE  MeasureInv'
  <2>1. Says(end[e], y.st, HasHandle(e))
    BY <1>3, Unsaid DEF Spared
  <2> QED BY <1>3, <2>1, SayingKeeps
<1>4. ASSUME NEW e \in Ends, NEW o
      PROVE  /\ Spared(end[e], Start(e).st) /\ Spared(end[e], Puts(Start(e), o).st)
             /\ Spared(end[e], [Start(e) EXCEPT !.st.half = "live"].st)
             /\ Spared(end[e], Puts([Start(e) EXCEPT !.st.half = "live"], o).st)
  <2> DEFINE x == Start(e)
             w == [x EXCEPT !.st.half = "live"]
  <2>1. x = [st |-> x.st, out |-> x.out] /\ x.st = end[e]
    BY <1>2 DEF X
  <2>2. w.st = [end[e] EXCEPT !.half = "live"] /\ w = [st |-> w.st, out |-> x.out]
    <3> HIDE DEF x
    <3> QED BY <2>1
  <2>3. Spared(end[e], x.st)
    BY <1>2 DEF Spared
  <2>4. Spared(end[e], w.st)
    <3> HIDE DEF w, x
    <3> QED BY <1>2, <2>2 DEF Spared, Duplexes
  <2> HIDE DEF w, x
  <2>5. Puts(w, o).st = w.st /\ Puts(x, o).st = x.st
    BY <2>2, <2>1 DEF Puts
  <2> QED BY <2>3, <2>4, <2>5 DEF w, x
<1>5. CASE OpenDuplex
  BY <1>1, <1>3, <1>4, <1>5 DEF OpenDuplex
<1>6. CASE ExpectDuplex
  <2>1. CASE parked
    BY <1>1, <1>3, <1>4, <1>6, <2>1 DEF ExpectDuplex, Claim
  <2>2. CASE ~parked
    BY <1>6, <2>2 DEF ExpectDuplex, MeasureInv
  <2> QED BY <2>1, <2>2
<1>7. CASE ReceiveOpen
  BY <1>1, <1>3, <1>4, <1>7 DEF ReceiveOpen, Claim
<1>8. CASE AnswerOpen \/ AcceptTimeout
  BY <1>1, <1>3, <1>4, <1>8 DEF AnswerOpen, AcceptTimeout
<1>9. CASE ExpectTimeout
  BY <1>9 DEF ExpectTimeout, MeasureInv
<1>10. CASE ReceiveOpenAnswer
  <2>1. \/ Stretch("a", Start("a"), TRUE) /\ (opening' = opening \/ opening' = "open")
        \/ opening' = "discarded" /\ Stretch("a", Discard(Start("a")), TRUE)
    BY <1>10 DEF ReceiveOpenAnswer
  <2>2. Spared(end["a"], Discard(Start("a")).st)
    BY <1>1, DiscardSpares
  <2> QED BY <1>1, <1>3, <1>4, <2>1, <2>2
<1> QED BY <1>5, <1>6, <1>7, <1>8, <1>9, <1>10

LEMMA OnceMore ==
  ASSUME NEW x \in X
  PROVE  SendClose(x).st.closes = x.st.closes + 1 /\ SendClose(x).st.closeSent = x.st.closeSent
<1> DEFINE y == SendClose(x)
<1>1. y.st = [x.st EXCEPT !.closes = x.st.closes + 1, !.peerKnows = TRUE]
  BY SendCloseIs, Zenon
<1>2. x.st \in Duplexes
  BY DEF X
<1> HIDE DEF y
<1>3. y.st.closes = x.st.closes + 1 /\ y.st.closeSent = x.st.closeSent
  BY <1>1, <1>2 DEF Duplexes
<1> QED BY <1>3 DEF y

(* The one stretch that tells without asking. *)
LEMMA OverdueSays ==
  ASSUME DuplexInv, MeasureInv, OpenTimeout
  PROVE  MeasureInv'
<1> DEFINE S == end["a"]
           d == Discard(Start("a"))
           y == SendClose(d)
<1>1. "a" \in Ends /\ S \in Duplexes /\ Modest(S)
  BY DEF DuplexInv, Typed, Ends, MeasureInv, OpenTimeout
<1>2. opening' = "discarded" /\ Stretch("a", y, FALSE)
  BY DEF OpenTimeout
<1>3. d \in X /\ Spared(S, d.st)
  BY <1>1, DiscardSpares
<1> HIDE DEF d, S
<1>4. y.st.closes = d.st.closes + 1 /\ y.st.closeSent = d.st.closeSent
  BY <1>3, OnceMore
<1> HIDE DEF y
<1>5. y.st.closes = S.closes + 1 /\ y.st.closeSent = S.closeSent
  BY <1>3, <1>4 DEF Spared
<1>6. Measured(y.st)
  BY <1>1, <1>5 DEF Measured, Modest
<1>7. end'["a"] = y.st /\ end'["b"] = end["b"]
  <2>1. end \in [Ends -> Duplexes] /\ end' = [end EXCEPT !["a"] = y.st]
    BY <1>2 DEF DuplexInv, Typed, Stretch
  <2> QED BY <2>1 DEF Ends
<1> QED BY <1>2, <1>6, <1>7 DEF MeasureInv, Ends

LEMMA MeasureStarts ==
  ASSUME Init
  PROVE  MeasureInv
<1>1. \A e \in Ends : end[e] = Untouched
  BY DEF Init
<1>2. Measured(Untouched) /\ Modest(Untouched)
  BY DEF Measured, Modest, Untouched
<1> QED BY <1>1, <1>2 DEF MeasureInv, Ends

LEMMA MeasureGoesOn ==
  ASSUME DuplexInv, MeasureInv, [Next]_vars
  PROVE  MeasureInv'
<1>1. CASE UNCHANGED vars
  BY <1>1 DEF vars, MeasureInv
<1>2. CASE OpenDuplex \/ ExpectDuplex \/ ReceiveOpen \/ AnswerOpen \/ AcceptTimeout \/ ExpectTimeout
             \/ ReceiveOpenAnswer
  BY <1>2, OpenedSays
<1>3. CASE OpenTimeout
  BY <1>3, OverdueSays
<1>4. ASSUME NEW e \in Ends, Write(e) \/ Close(e) \/ CloseDrained(e) \/ Abort(e) \/ Pull(e) \/ Idle(e) \/ OnFail(e)
                             \/ SendRefusal(e)
      PROVE  MeasureInv'
  BY <1>4, WrittenSays, ClosedSays, AbortedSays, WokenSays
<1>5. ASSUME NEW e \in Ends, Receive(e) \/ BlockTimeout(e) \/ CloseTimeout(e)
      PROVE  MeasureInv'
  BY <1>5, TakenSays, HungUpSays, AnsweredSays DEF Receive
<1> QED BY <1>1, <1>2, <1>3, <1>4, <1>5 DEF Next

LEMMA MeasuredTypes ==
  ASSUME DuplexInv, MeasureInv
  PROVE  TypeOK
<1>1. ASSUME NEW e \in Ends PROVE end[e] \in EndState
  <2> DEFINE S == end[e]
             R == end[Peer(e)]
  <2>1. S \in Duplexes /\ R \in Duplexes /\ Measured(S)
    BY PairOf DEF Pair, MeasureInv
  <2>2. S.taken <= R.sent
    BY PairOf DEF Pair, Link, Carried
  <2> HIDE DEF S, R
  <2>3. S.taken \in 0..MaxBlocks
    BY <2>1, <2>2, DuplexAssumption DEF Duplexes
  <2>4. S.closes \in 0..2
    BY <2>1 DEF Duplexes, Measured
  <2>5. S \in EndState
    BY <2>1, <2>3, <2>4 DEF Duplexes, EndState
  <2> QED BY <2>5 DEF S
<1>2. Stanzas = Requests \cup {Answer(iq, res) : iq \in Requests,
                                 res \in {"ok", "not-found", "unexpected-request", "not-acceptable"}}
  BY DEF Stanzas, Replies, Results
<1>3. Typed
  BY DEF DuplexInv
<1>4. end \in [Ends -> EndState]
  BY <1>1, <1>3 DEF Typed
<1> QED BY <1>2, <1>3, <1>4 DEF Typed, TypeOK

(* Whatever the two ends do and whenever the stanzas arrive, each block is *)
(* in one place and is answered once, an ack that overtakes no <close/> is *)
(* the ack of a block the reader has, a refused block is told before the   *)
(* end it fails, and no end is left with a half of a duplex that is over:  *)
(* #createDuplex with #onData, #onClose and the two halves' own teardown.  *)
THEOREM DuplexIsSound == Spec => []DuplexInv
<1> QED BY DuplexStarts, DuplexGoesOn, PTL DEF Spec

(* A close() that resolved before the peer closed means every block was    *)
(* given to the peer's reader, and never that a damaged one was shrugged   *)
(* off: close() awaits the drain, then the answer to its <close/>, and     *)
(* takes a not-found as harmless only after the peer's own <close/>.       *)
THEOREM CloseMeansDelivered == Spec => []ResolvedMeansDelivered
<1>1. DuplexInv => ResolvedMeansDelivered
  <2>1. SUFFICES ASSUME DuplexInv, NEW e \in Ends, end[e].closing = "resolved"
                 PROVE  /\ end[Peer(e)].refused # "no" => Overtaken(end[Peer(e)])
                        /\ end[e].closedByPeer \/ end[Peer(e)].taken = end[e].sent
    BY DEF ResolvedMeansDelivered
  <2> DEFINE R == end[Peer(e)]
  <2>2. Resolved(end[e], R) /\ Own(R, HasHandle(Peer(e)))
    BY <2>1, TwoEnds DEF DuplexInv, LinkOf, Link
  <2>3. Late(R) => Overtaken(R)
    BY <2>2 DEF Own, Late, Overtaken
  <2> QED BY <2>1, <2>2, <2>3 DEF Resolved
<1> QED BY <1>1, DuplexIsSound, PTL

(* A tunnel that nothing disturbs closes in order at both ends, whichever  *)
(* end closes first or both at once: each close() waits for its blocks to  *)
(* be answered, the tombstone takes what still crosses it, and a close     *)
(* answered not-found was overtaken by the peer's own.                     *)
THEOREM CleanClosesResolve == Spec => []CleanCloseResolves
<1>1. CleanInv => CleanCloseResolves
  BY DEF CleanInv, CleanOf, Tidy, CleanCloseResolves
<1>2. Init => CleanInv
  BY CleanStarts
<1>3. DuplexInv /\ CleanInv /\ [Next]_vars => CleanInv'
  BY CleanGoesOn
<1> QED BY <1>1, <1>2, <1>3, DuplexIsSound, PTL DEF Spec

(* Every variable keeps its type: a reader is given no more blocks than    *)
(* were written, and an end puts two <close/>s on the wire at most, as     *)
(* tellPeer() asks whether its peer knows and only the discard() of an     *)
(* overdue <open> does not.                                                *)
THEOREM TypesHold == Spec => []TypeOK
<1>1. DuplexInv /\ MeasureInv => TypeOK
  BY MeasuredTypes
<1>2. Init => MeasureInv
  BY MeasureStarts
<1>3. DuplexInv /\ MeasureInv /\ [Next]_vars => MeasureInv'
  BY MeasureGoesOn
<1> QED BY <1>1, <1>2, <1>3, DuplexIsSound, PTL DEF Spec
=============================================================================
