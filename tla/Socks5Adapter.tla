--------------------------- MODULE Socks5Adapter ---------------------------
(***************************************************************************)
(* The SOCKS5 bytestreams of src/node/socks5.ts and the frames of          *)
(* src/socks5/protocol.ts, for one sid: a host that listens, and may have  *)
(* a proxy, and a dialler that tries what the host offers.  Frames are     *)
(* bytes, cut by TCP wherever it likes; the hashed domain is one byte.     *)
(*                                                                         *)
(*   "direct"  the dialler's connection to the host's listener             *)
(*   "stray"   another one to it, that names the same domain               *)
(*   "proxy"   the dialler's connection to the host's proxy (external)     *)
(*   "own"     the host's own connection to it, made by openChosen()       *)
(*                                                                         *)
(* Who negotiates which candidate is used is JingleSession's and           *)
(* SipubTransfer's.                                                        *)
(***************************************************************************)
EXTENDS Integers, Sequences

CONSTANTS
  Length,     \* bound: bytes of the body
  Scenarios   \* the setups examined, see Setups

FaultKinds == {"timeout", "unreachable", "listen", "lookup", "refuses", "auth", "garbled",
               "stray", "early", "reset", "release", "activation", "abort", "hangup"}

Setups == [faults : SUBSET FaultKinds, writer : {"host", "dialler"}]

ASSUME AdapterAssumption == Length \in Nat /\ Scenarios \subseteq Setups

Conns == {"direct", "stray", "proxy", "own"}
Ends  == {"near", "far"}          \* who dialled, and who accepted
Other(e) == IF e = "near" THEN "far" ELSE "near"

VARIABLES
  setup,      \* what may go wrong, and who writes the body
  offered,    \* what candidatesFor() returned, or Nothing
  pending,    \* the entry of pendingDirect: "absent", "waiting" or "claimed"
  promise,    \* what its promise settled on: "open", a connection, "timeout" or "aborted"
  released,   \* release() was called
  opener,     \* openChosen(): "idle", "awaiting", "dialling", "open" or "failed"
  activated,  \* the proxy relays
  end,        \* per connection and end: a socket and the coroutine that holds it
  sent,       \* bytes of the body written, last + 1 with the FIN
  last        \* bytes of it before the FIN: Length, unless it is cut short

registration == <<pending, promise>>
hostVars     == <<offered, registration, released, opener>>
vars         == <<setup, hostVars, activated, end, sent, last>>

Faulty(kind) == kind \in setup.faults
Nothing == {"nothing"}

(* net: what TCP holds for this end.  buf: what Node has read from it, the *)
(* handshake's buffer or the stream's queue.  seen: the frame being read.  *)
Closed == [at |-> "idle", mode |-> "off", net |-> <<>>, buf |-> <<>>, seen |-> <<>>, got |-> <<>>]

Init ==
  /\ setup \in Scenarios
  /\ offered = Nothing /\ pending = "absent" /\ promise = "open" /\ released = FALSE
  /\ opener = "idle" /\ activated = FALSE /\ sent = 0 /\ last = Length
  /\ end = [c \in Conns |-> [e \in Ends |-> Closed]]

-----------------------------------------------------------------------------
(* The frames. *)

Version == 5
NoAuth  == 0
Atyp    == 3                       \* a domain name
Success == 0
TheDomain == 7                     \* the hash of this sid and the two JIDs

buildGreeting            == <<Version, 1, NoAuth>>
buildMethodSelection     == <<Version, NoAuth>>
buildConnectRequest(d)   == <<Version, 1, 0, Atyp, 1, d, 0, 0>>
buildConnectReply(d, ok) == <<Version, IF ok THEN Success ELSE 1, 0, Atyp, 1, d, 0, 0>>

Garbled == 0

(* The domain asked for, or Garbled where the parser throws.               *)
parseConnectRequest(bytes) ==
  IF bytes[1] = Version /\ bytes[2] = 1 /\ bytes[4] = Atyp THEN bytes[6] ELSE Garbled

parseConnectReply(bytes) == bytes[1] = Version /\ bytes[2] = Success

Byte(n) == 100 + n
Fin     == 99                      \* above every word of a handshake, below every byte of the body

(* A stray connection may be no SOCKS5 at all.                             *)
Request(c) ==
  IF c = "stray" /\ Faulty("garbled") THEN <<4, 1, 0, Atyp, 1, TheDomain, 0, 0>>
  ELSE buildConnectRequest(TheDomain)

-----------------------------------------------------------------------------
(* Sockets.  Each action changes one end and gives TCP something for the   *)
(* other.                                                                  *)

PutAfter(c, e, s, words) ==
  end' = [end EXCEPT ![c][e] = s, ![c][Other(e)].net = @ \o words]

Put(c, e, s) == end' = [end EXCEPT ![c][e] = s]

(* Mutant: what was read past the handshake goes with the reader. *)
releaseDropping(s, left) == [s EXCEPT !.mode = "paused", !.buf = <<>>, !.seen = <<>>]

(* Mutant: the socket keeps flowing with nobody listening. *)
releaseFlowing(s, left) == [s EXCEPT !.mode = "lossy", !.buf = left, !.seen = <<>>]

(* createSocketReader().release(): the socket is paused, the rest of the   *)
(* buffer handed over.                                                     *)
release(s, left) == [s EXCEPT !.mode = "paused", !.buf = left, !.seen = <<>>]

(* readableFromSocket(): starts with what the handshake left, paused by it *)
(* if there is any.                                                        *)
Attached(s) == [s EXCEPT !.at = "open", !.mode = "stream"]

Failed(s)   == [s EXCEPT !.at = "failed", !.mode = "off"]

(* A socket that is reset while somebody listens for its errors.           *)
Broken(s) ==
  IF s.mode = "reader" THEN [Failed(s) EXCEPT !.net = <<>>]
  ELSE [s EXCEPT !.at = "errored", !.mode = "off", !.net = <<>>, !.buf = <<>>]

(* Mutant: an extra byte is waited for. *)
NeedsMore(s) ==
  CASE s.at \in {"hello", "method"} -> 2
    [] s.at = "methods" -> s.seen[2]
    [] s.at = "head" -> 5
    [] s.at = "rest" -> s.seen[5] + 3

(* What the coroutine's readExact() waits for.                             *)
Needs(s) ==
  CASE s.at \in {"hello", "method"} -> 2
    [] s.at = "methods" -> s.seen[2]
    [] s.at = "head" -> 5
    [] s.at = "rest" -> s.seen[5] + 2

Reading(s) == s.mode = "reader"
Ready(s)   == Reading(s) /\ Len(s.buf) >= Needs(s)
Taken(s)   == SubSeq(s.buf, 1, Needs(s))
Left(s)    == SubSeq(s.buf, Needs(s) + 1, Len(s.buf))

(* "data": a segment, of any size.  A stream takes one at a time: it       *)
(* pauses the socket until it is read.                                     *)
Deliver(c, e) ==
  LET s == end[c][e] IN
  /\ s.mode \in {"reader", "lossy"} \/ (s.mode = "stream" /\ s.buf = <<>>)
  /\ \E n \in 1..Len(s.net) :
       /\ \A i \in 1..n : s.net[i] # Fin
       /\ Put(c, e, [s EXCEPT !.net = SubSeq(s.net, n + 1, Len(s.net)),
                              !.buf = IF s.mode = "lossy" THEN s.buf ELSE s.buf \o SubSeq(s.net, 1, n)])
  /\ UNCHANGED <<setup, hostVars, activated, sent, last>>

(* The program reads. *)
Read(c, e) ==
  LET s == end[c][e] IN
  /\ s.mode = "stream" /\ s.buf # <<>>
  /\ Put(c, e, [s EXCEPT !.got = s.got \o s.buf, !.buf = <<>>])
  /\ UNCHANGED <<setup, hostVars, activated, sent, last>>

(* "end" *)
StreamEnds(c, e) ==
  /\ end[c][e].mode = "stream" /\ end[c][e].buf = <<>> /\ end[c][e].net = <<Fin>>
  /\ Put(c, e, [end[c][e] EXCEPT !.at = "ended", !.mode = "off", !.net = <<>>])
  /\ UNCHANGED <<setup, hostVars, activated, sent, last>>

-----------------------------------------------------------------------------
(* The dialling side: connectTcp() and socks5ClientHandshake().            *)

Tried(c) == end[c]["near"].at = "failed"

(* connect() tries the candidates in their order; openChosen() dials the   *)
(* proxy.                                                                  *)
MayDial(c) ==
  \/ c = "direct" /\ "direct" \in offered
  \/ c = "proxy" /\ "proxy" \in offered /\ ("direct" \in offered => Tried("direct"))
  \/ c = "own" /\ opener = "dialling"
  \/ c = "stray" /\ Faulty("stray") /\ offered # Nothing

(* openChosen() rejects. *)
OpenerOf(c, how) == opener' = IF c = "own" THEN how ELSE opener

(* openChosen() destroys the socket of a handshake that failed, connect()  *)
(* drops it.                                                               *)
DialFails(c) ==
  /\ PutAfter(c, "near", Failed(end[c]["near"]), IF c = "own" THEN <<Fin>> ELSE <<>>)
  /\ OpenerOf(c, "failed")

Listening(c) == c \in {"direct", "stray"} => "direct" \in offered /\ ~released

Dial(c) ==
  /\ end[c]["near"].at = "idle" /\ MayDial(c)
  /\ \/ /\ Listening(c)
        /\ end' = [end EXCEPT ![c] =
             [near |-> [Closed EXCEPT !.at = "method", !.mode = "reader"],
              far  |-> [Closed EXCEPT !.at = "hello", !.mode = "reader", !.net = buildGreeting]]]
        /\ UNCHANGED opener
     \/ ~Listening(c) /\ DialFails(c)
     \/ Faulty("unreachable") /\ DialFails(c)
  /\ UNCHANGED <<setup, offered, registration, released, activated, sent, last>>

(* Ready for use: connect() has its stream at once, openChosen() asks the  *)
(* proxy to activate first.                                                *)
Established(c) ==
  LET n == release(end[c]["near"], Left(end[c]["near"])) IN
  IF c = "own" THEN [n EXCEPT !.at = "activating"] ELSE Attached(n)

(* What the handshake throws at. *)
Acceptable(n, bytes) ==
  \/ n.at = "method" /\ bytes[2] = NoAuth
  \/ n.at = "head" /\ bytes[4] = Atyp
  \/ n.at = "rest" /\ parseConnectReply(n.seen \o bytes)

socks5ClientHandshake(c) ==
  LET n     == end[c]["near"]
      bytes == Taken(n)
      left  == Left(n) IN
  /\ Ready(n)
  /\ \/ ~Acceptable(n, bytes) /\ DialFails(c)
     \/ /\ Acceptable(n, bytes)
        /\ \/ /\ n.at = "method"
              /\ PutAfter(c, "near", [n EXCEPT !.at = "head", !.buf = left], Request(c))
           \/ n.at = "head" /\ Put(c, "near", [n EXCEPT !.at = "rest", !.buf = left, !.seen = bytes])
           \/ n.at = "rest" /\ Put(c, "near", Established(c))
        /\ UNCHANGED opener
  /\ UNCHANGED <<setup, offered, registration, released, activated, sent, last>>

(* The reader's "close". *)
Hangup(c) ==
  /\ Reading(end[c]["near"]) /\ end[c]["near"].net = <<Fin>> /\ ~Ready(end[c]["near"])
  /\ DialFails(c)
  /\ UNCHANGED <<setup, offered, registration, released, activated, sent, last>>

-----------------------------------------------------------------------------
(* The listener. *)

Destroy(c, words) == PutAfter(c, "far", Failed(end[c]["far"]), words \o <<Fin>>)

(* socks5ServerHandshake() resolves, and the caller says "success".        *)
Welcome(c, domain) ==
  PutAfter(c, "far", [release(end[c]["far"], Left(end[c]["far"])) EXCEPT !.at = "claimed"],
           buildConnectReply(domain, TRUE))

(* Mutant: whoever names the domain is let in. *)
ClaimableAgain(domain) == domain = TheDomain /\ pending # "absent"

(* The entry a request may claim. *)
Claimable(domain) == domain = TheDomain /\ pending = "waiting"

Claim(c, domain) ==
  IF Claimable(domain)
  THEN /\ pending' = "claimed" /\ promise' = IF promise = "open" THEN c ELSE promise
       /\ Welcome(c, domain)
  ELSE /\ Destroy(c, IF domain = Garbled THEN <<>> ELSE buildConnectReply(domain, FALSE))
       /\ UNCHANGED registration

(* The proxy: no code of this repository. *)
Proxied(c, domain) ==
  /\ IF Faulty("refuses") THEN Destroy(c, buildConnectReply(domain, FALSE)) ELSE Welcome(c, domain)
  /\ UNCHANGED registration

MethodOf(c) == IF c \in {"proxy", "own"} /\ Faulty("auth") THEN <<Version, 2>> ELSE buildMethodSelection

(* socks5ServerHandshake() and what the listener does with it. *)
socks5ServerHandshake(c) ==
  LET f     == end[c]["far"]
      bytes == Taken(f)
      left  == Left(f) IN
  /\ Ready(f)
  /\ \/ /\ f.at = "hello"
        /\ Put(c, "far", [f EXCEPT !.at = "methods", !.buf = left, !.seen = bytes])
        /\ UNCHANGED registration
     \/ /\ f.at = "methods"
        /\ PutAfter(c, "far", [f EXCEPT !.at = "head", !.buf = left, !.seen = <<>>], MethodOf(c))
        /\ UNCHANGED registration
     \/ /\ f.at = "head"
        /\ Put(c, "far", [f EXCEPT !.at = "rest", !.buf = left, !.seen = bytes])
        /\ UNCHANGED registration
     \/ /\ f.at = "rest"
        /\ LET domain == parseConnectRequest(f.seen \o bytes) IN
           IF c \in {"proxy", "own"} THEN Proxied(c, domain) ELSE Claim(c, domain)
  /\ UNCHANGED <<setup, offered, released, opener, activated, sent, last>>

-----------------------------------------------------------------------------
(* The host. *)

(* candidatesFor(): a listener that does not start, or a lookup of the     *)
(* proxy that fails, only shortens the list.                               *)
candidatesFor ==
  /\ offered = Nothing /\ ~released
  /\ offered' = (IF Faulty("listen") THEN {} ELSE {"direct"}) \cup (IF Faulty("lookup") THEN {} ELSE {"proxy"})
  /\ pending' = IF Faulty("listen") THEN "absent" ELSE "waiting"
  /\ UNCHANGED <<setup, promise, released, opener, activated, end, sent, last>>

(* Mutant: the registration is forgotten, its promise left alone. *)
RegistrationForgotten ==
  /\ Faulty("timeout") /\ pending = "waiting"
  /\ pending' = "absent"
  /\ UNCHANGED <<setup, offered, promise, released, opener, activated, end, sent, last>>

(* The timer of a registration nobody has claimed.                         *)
RegistrationExpires ==
  /\ Faulty("timeout") /\ pending = "waiting"
  /\ pending' = "absent" /\ promise' = "timeout"
  /\ UNCHANGED <<setup, offered, released, opener, activated, end, sent, last>>

Open(c) == end[c]["near"].at = "open"

(* openChosen(), once the dialler has told which candidate it uses; for    *)
(* the direct one it need not wait to be told.                             *)
openChosen(c) ==
  /\ opener = "idle" /\ c \in offered
  /\ Open(c) \/ (c = "direct" /\ Faulty("early"))
  /\ opener' = IF c = "proxy" THEN "dialling"
               ELSE IF pending = "absent" THEN "failed" ELSE "awaiting"
  /\ UNCHANGED <<setup, offered, registration, released, activated, end, sent, last>>

(* The promise has settled. *)
Accepted ==
  /\ opener = "awaiting" /\ promise # "open"
  /\ IF promise \in Conns THEN Put(promise, "far", Attached(end[promise]["far"])) /\ opener' = "open"
     ELSE opener' = "failed" /\ UNCHANGED end
  /\ pending' = "absent"
  /\ UNCHANGED <<setup, offered, promise, released, activated, sent, last>>

(* The proxy gets the <activate/>, and relays before its answer arrives;   *)
(* or the request fails.                                                   *)
Activate ==
  /\ end["own"]["near"].at = "activating" /\ ~activated
  /\ \/ activated' = TRUE /\ UNCHANGED opener
     \/ Faulty("activation") /\ opener = "dialling" /\ opener' = "failed" /\ UNCHANGED activated
  /\ opener # "failed"
  /\ UNCHANGED <<setup, offered, registration, released, end, sent, last>>

Activated ==
  /\ end["own"]["near"].at = "activating" /\ activated
  /\ Put("own", "near", Attached(end["own"]["near"])) /\ opener' = "open"
  /\ UNCHANGED <<setup, offered, registration, released, activated, sent, last>>

(* release(): what was claimed is not closed. *)
Release ==
  /\ Faulty("release") /\ ~released
  /\ released' = TRUE /\ pending' = "absent"
  /\ promise' = IF promise = "open" /\ pending # "absent" THEN "aborted" ELSE promise
  /\ UNCHANGED <<setup, offered, opener, activated, end, sent, last>>

-----------------------------------------------------------------------------
(* The body. *)

(* The connection the writer uses, as it sees it, and the ends at which    *)
(* the two sides hold that one: a proxy joins two.                         *)
Used ==
  IF \/ setup.writer = "host" /\ end["own"]["near"].at # "idle"
     \/ setup.writer = "dialler" /\ end["proxy"]["near"].at \in {"open", "ended", "errored"}
  THEN "proxy" ELSE "direct"

HostEnd    == IF Used = "proxy" THEN <<"own", "near">> ELSE <<"direct", "far">>
DiallerEnd == <<Used, "near">>
Source == IF setup.writer = "host" THEN HostEnd ELSE DiallerEnd
Target == IF setup.writer = "host" THEN DiallerEnd ELSE HostEnd
At(place) == end[place[1]][place[2]]

(* The next word of a body of n bytes, the FIN behind the last of them.    *)
Send(n) ==
  /\ At(Source).at = "open" /\ sent <= last
  /\ Used = "proxy" => activated
  /\ sent' = sent + 1 /\ last' = n
  /\ end' = [end EXCEPT ![Target[1]][Target[2]].net = Append(@, IF sent < n THEN Byte(sent + 1) ELSE Fin)]
  /\ UNCHANGED <<setup, hostVars, activated>>

(* The writer writes as soon as it can, and closes.                        *)
Write == Send(last)

(* Its abort() destroys the socket instead, or the proxy between the two   *)
(* hangs up: a FIN behind what got through, which the reader cannot tell   *)
(* from a close().  What is written after that goes nowhere; as after a    *)
(* close(), what becomes of the writer's own end is left out.              *)
CutShort ==
  /\ Faulty("abort") \/ (Faulty("hangup") /\ Used = "proxy")
  /\ Send(sent)

(* The connection breaks, or its reader cancels and destroys it, at a      *)
(* moment when both ends listen for errors.  For a proxied one that is     *)
(* while its handshake lasts: later ends of it are CutShort's.             *)
Reset(c) ==
  /\ Faulty("reset")
  /\ \A e \in Ends : end[c][e].mode \in {"reader", "stream"}
  /\ end' = [end EXCEPT ![c] = [e \in Ends |-> Broken(end[c][e])]]
  /\ OpenerOf(c, "failed")
  /\ UNCHANGED <<setup, offered, registration, released, activated, sent, last>>

-----------------------------------------------------------------------------
Next ==
  \/ candidatesFor \/ RegistrationExpires \/ Accepted \/ Activate \/ Activated \/ Release \/ Write \/ CutShort
  \/ \E c \in {"direct", "proxy"} : openChosen(c)
  \/ \E c \in Conns :
       \/ Dial(c) \/ socks5ClientHandshake(c) \/ Hangup(c) \/ socks5ServerHandshake(c) \/ Reset(c)
       \/ \E e \in Ends : Deliver(c, e) \/ Read(c, e) \/ StreamEnds(c, e)

(* Sockets deliver, code runs on, timers fire and programs read; nobody is *)
(* bound to dial twice, to break a connection or to release the adapter.   *)
Fairness ==
  /\ WF_vars(candidatesFor) /\ WF_vars(RegistrationExpires) /\ WF_vars(Accepted)
  /\ WF_vars(Activate) /\ WF_vars(Activated) /\ WF_vars(Write)
  /\ \A c \in {"direct", "proxy"} : WF_vars(openChosen(c))
  /\ \A c \in Conns :
       /\ c # "stray" => WF_vars(Dial(c))
       /\ WF_vars(socks5ClientHandshake(c) \/ Hangup(c)) /\ WF_vars(socks5ServerHandshake(c))
       /\ \A e \in Ends : WF_vars(Deliver(c, e)) /\ WF_vars(Read(c, e) \/ StreamEnds(c, e))

Spec     == Init /\ [][Next]_vars
FairSpec == Spec /\ Fairness

-----------------------------------------------------------------------------
(* The shapes of the state. *)
TypeOK ==
  /\ setup \in Scenarios /\ offered \in {Nothing} \cup SUBSET {"direct", "proxy"}
  /\ pending \in {"absent", "waiting", "claimed"}
  /\ promise \in {"open", "timeout", "aborted", "direct", "stray"}
  /\ opener \in {"idle", "awaiting", "dialling", "open", "failed"}
  /\ released \in BOOLEAN /\ activated \in BOOLEAN /\ last \in 0..Length /\ sent \in 0..last + 1
  /\ \A c \in Conns, e \in Ends :
       end[c][e].mode \in {"off", "reader", "paused", "stream"}

(* What was written: the body, as far as it went, and the FIN. *)
Written == [i \in 1..sent |-> IF i > last THEN Fin ELSE Byte(i)]

(* Every byte written, and the FIN, is at the reader's end, in order and   *)
(* once, behind what is left of the handshake: read, or in Node's hands,   *)
(* or in TCP's.  Wherever the segments are cut and however late the stream *)
(* is attached, the handshake keeps none and drops none; but for a reset   *)
(* nobody gives up a connection on which something was written.  A body    *)
(* that its writer aborted, or the proxy cut, keeps what got through.      *)
BytesKept ==
  LET t    == At(Target)
      flow == t.buf \o t.net IN
  sent > 0 =>
    \/ t.at \in {"failed", "errored"} /\ Faulty("reset")
    \/ \E k \in 0..Len(flow) :
         /\ \A i \in 1..k : flow[i] < Fin
         /\ t.got \o SubSeq(flow, k + 1, Len(flow)) \o (IF t.at = "ended" THEN <<Fin>> ELSE <<>>) = Written

(* Whoever dialled the listener and was told "success" holds the           *)
(* connection the registration was resolved with, and the registration's   *)
(* timer or release() does not take it back.                               *)
ToldMeansClaimed ==
  \A c \in {"direct", "stray"} : end[c]["near"].at \in {"open", "ended"} => promise = c

DialSettled ==
  /\ offered # Nothing
  /\ \/ \E c \in offered : end[c]["near"].at \in {"open", "ended", "errored"}
     \/ \A c \in offered : Tried(c)

(* connect() settles, openChosen() settles once something can time it out, *)
(* and a body whose two ends were opened is read to its end, whoever       *)
(* ended it.                                                               *)
EveryoneSettles ==
  /\ <>(released \/ DialSettled)
  /\ opener \in {"awaiting", "dialling"} /\ Faulty("timeout") ~> opener \in {"open", "failed"}
  /\ At(Source).at = "open" /\ At(Target).at = "open" /\ sent = 0 ~> At(Target).at \in {"ended", "errored"}
=============================================================================
