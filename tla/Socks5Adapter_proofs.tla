------------------------ MODULE Socks5Adapter_proofs ------------------------
(***************************************************************************)
(* What a SOCKS5 connection keeps and means, for every length of a body,   *)
(* every way TCP cuts it and every set of faults: proofs of the safety     *)
(* properties of Socks5Adapter, and of SipubTransfer, whose two sides use  *)
(* such an adapter.                                                        *)
(*                                                                         *)
(* The two ends of a connection go through the handshake in lock step:     *)
(* where each of them is decides what is on its way to it, to the byte     *)
(* (Greeted, Asked, Answered, Turned).  Once the far end has said          *)
(* "success", whatever else follows is the body (Holds), and nothing but a *)
(* reset makes the near end give up (Lost).  Which connection the writer   *)
(* uses only changes while nothing is written (SentBySource).              *)
(***************************************************************************)
EXTENDS Socks5Adapter, SipubTransfer, SequenceTheorems, TLAPS

Words == Seq(Nat)

Sockets ==
  [at : {"idle", "method", "hello", "methods", "head", "rest", "activating", "claimed",
         "open", "ended", "errored", "failed"},
   mode : {"off", "reader", "paused", "stream"},
   net : Words, buf : Words, seen : Words, got : Words]

Typed ==
  /\ setup \in Scenarios /\ offered \in {Nothing} \cup SUBSET {"direct", "proxy"}
  /\ pending \in {"absent", "waiting", "claimed"}
  /\ promise \in {"open", "timeout", "aborted", "direct", "stray"}
  /\ opener \in {"idle", "awaiting", "dialling", "open", "failed"}
  /\ released \in BOOLEAN /\ activated \in BOOLEAN
  /\ last \in 0..Length /\ sent \in 0..last + 1
  /\ last = Length \/ setup.faults \cap {"abort", "hangup"} # {}
  /\ end \in [Conns -> [Ends -> Sockets]]

(* Who holds a socket is a matter of how far the coroutine is. *)
ModeOf(at) ==
  IF at \in {"method", "hello", "methods", "head", "rest"} THEN "reader"
  ELSE IF at \in {"claimed", "activating"} THEN "paused"
  ELSE IF at = "open" THEN "stream" ELSE "off"

(* Words after words; the proofs reason with the laws below. *)
a ++ b == a \o b

(* What an end has not read yet. *)
In(s) == s.buf ++ s.net

(* A sequence cut after k words. *)
Before(a, k) == SubSeq(a, 1, k)
After(a, k)  == SubSeq(a, k + 1, Len(a))

(* The two parts in which a request or a reply is read. *)
First(frame) == SubSeq(frame, 1, 5)
Rest(frame)  == SubSeq(frame, 6, 8)

Granted == buildConnectReply(TheDomain, TRUE)
Refusal == buildConnectReply(TheDomain, FALSE)

(* What the other side may say in a handshake. *)
Methods  == {<<Version, NoAuth>>, <<Version, 2>>}
Requests == {buildConnectRequest(TheDomain), <<4, 1, 0, Atyp, 1, TheDomain, 0, 0>>}

(* An end past its handshake has, or still gets, exactly these words. *)
Holds(s, words) ==
  \/ s.at = "errored"
  \/ s.at = "ended" /\ s.buf = <<>> /\ s.net = <<>> /\ s.got ++ <<Fin>> = words
  \/ s.at \notin {"errored", "ended"} /\ s.got ++ In(s) = words

(***************************************************************************)
(* How far the two ends of a connection are: n dialled, f accepted, m and  *)
(* q are the method f grants and the request n makes, w and v the words    *)
(* written towards n and f.                                                *)
(***************************************************************************)
Unborn(n, f) == n = Closed /\ f = Closed

Greeted(n, f, m) ==
  /\ n.at = "method" /\ n.got = <<>> /\ f.got = <<>>
  /\ \/ f.at = "hello" /\ In(n) = <<>> /\ In(f) = buildGreeting
     \/ f.at = "methods" /\ In(n) = <<>> /\ In(f) = <<NoAuth>> /\ f.seen = <<Version, 1>>
     \/ f.at = "head" /\ In(n) = m /\ In(f) = <<>>

Asked(n, f, q) ==
  /\ n.at = "head" /\ n.got = <<>> /\ f.got = <<>> /\ In(n) = <<>>
  /\ \/ f.at = "head" /\ In(f) = q
     \/ f.at = "rest" /\ In(f) = Rest(q) /\ f.seen = First(q)

Answered(n, f, w, v) ==
  /\ n.got = <<>> /\ f.at \in {"claimed", "open", "ended"} /\ Holds(f, v)
  /\ \/ n.at = "head" /\ In(n) = Granted ++ w
     \/ n.at = "rest" /\ In(n) = Rest(Granted) ++ w /\ n.seen = First(Granted)

Joined(n, f, w, v) ==
  /\ n.at \in {"activating", "open", "ended", "errored"} /\ Holds(n, w)
  /\ f.at \in {"claimed", "open", "ended", "errored"} /\ Holds(f, v)

Turned(n, f) ==
  /\ f.at = "failed"
  /\ \/ n.at = "head" /\ (In(n) = <<Fin>> \/ In(n) = Refusal ++ <<Fin>>)
     \/ n.at = "rest" /\ In(n) = Rest(Refusal) ++ <<Fin>> /\ n.seen = First(Refusal)

(* A near end that gave up: before it was answered, or by a reset.  One    *)
(* that did not like the method leaves a proxy that waits for a request.   *)
Lost(n, f) ==
  /\ n.at = "failed" /\ f.at \in {"idle", "failed", "errored", "head"}
  /\ f.at = "head" => Len(In(f)) <= 1

InStep(n, f, m, q, w, v) ==
  /\ n.mode = ModeOf(n.at) /\ f.mode = ModeOf(f.at)
  /\ \/ Unborn(n, f) \/ Greeted(n, f, m) \/ Asked(n, f, q) \/ Answered(n, f, w, v)
     \/ Joined(n, f, w, v) \/ Turned(n, f) \/ Lost(n, f)

-----------------------------------------------------------------------------
Near(c) == end[c]["near"]
Far(c)  == end[c]["far"]

(* What was written towards an end. *)
Carried(c, e) == IF <<c, e>> = Target THEN Written ELSE <<>>

Attaching == {"open", "ended", "errored"}

ConnOK(c) ==
  /\ InStep(Near(c), Far(c), MethodOf(c), Request(c), Carried(c, "near"), Carried(c, "far"))
  /\ Near(c).at = "errored" \/ Far(c).at = "errored" => Faulty("reset")
  /\ c \in {"proxy", "own"} => Far(c).at \notin Attaching
  /\ c \in {"direct", "stray"} /\ Far(c).at \in {"claimed"} \cup Attaching => promise = c

(* The host: an entry that may be claimed has a promise that is open, and  *)
(* the connection it was resolved with waits for openChosen().             *)
HostOK ==
  /\ offered = Nothing =>
       /\ pending = "absent" /\ promise = "open" /\ opener = "idle"
       /\ \A c \in Conns, e \in Ends : end[c][e] = Closed
  /\ pending = "waiting" => promise = "open"
  /\ opener \in {"idle", "awaiting"} =>
       \A c \in {"direct", "stray"} : promise = c => Far(c).at = "claimed"

(* The order in which connections are used. *)
OrderOK ==
  /\ opener \in {"idle", "awaiting"} => Near("own").at = "idle"
  /\ opener = "dialling" \/ Near("own").at # "idle" => Near("proxy").at \in {"open", "ended"}
  /\ opener \in {"idle", "awaiting", "dialling"} \/ Near("own").at # "idle" =>
       Far("direct").at \notin Attaching
  /\ Near("direct").at # "idle" => "direct" \in offered
  /\ Near("proxy").at # "idle" =>
       Near("direct").at = "failed" \/ (Near("direct").at = "idle" /\ "direct" \notin offered)
  /\ activated => Near("own").at \in {"activating", "open", "ended"}

(* Whoever has written held its end. *)
SentBySource ==
  sent > 0 => At(Source).at \in Attaching /\ (Used = "proxy" => activated)

Inv == Typed /\ (\A c \in Conns : ConnOK(c)) /\ HostOK /\ OrderOK /\ SentBySource

-----------------------------------------------------------------------------
(* Words.                                                                  *)

LEMMA Joins ==
  ASSUME NEW a \in Words, NEW b \in Words
  PROVE  /\ a ++ b \in Words /\ Len(a ++ b) = Len(a) + Len(b)
         /\ \A i \in 1..Len(a) : (a ++ b)[i] = a[i]
         /\ \A i \in 1..Len(b) : (a ++ b)[Len(a) + i] = b[i]
BY ConcatProperties DEF Words, ++

LEMMA Pieces ==
  ASSUME NEW a \in Words, NEW i \in 1..Len(a) + 1, NEW j \in i - 1..Len(a)
  PROVE  /\ SubSeq(a, i, j) \in Words /\ Len(SubSeq(a, i, j)) = j - i + 1
         /\ \A k \in 1..j - i + 1 : SubSeq(a, i, j)[k] = a[i + k - 1]
BY SMT DEF Words

LEMMA SameWords ==
  ASSUME NEW a \in Words, NEW b \in Words, Len(a) = Len(b), \A i \in 1..Len(a) : a[i] = b[i]
  PROVE  a = b
BY SeqEqual DEF Words

LEMMA NoWords ==
  ASSUME NEW a \in Words
  PROVE  <<>> \in Words /\ a ++ <<>> = a /\ <<>> ++ a = a
BY ConcatEmptySeq DEF Words, ++

LEMMA Grouped ==
  ASSUME NEW a \in Words, NEW b \in Words, NEW d \in Words
  PROVE  (a ++ b) ++ d = a ++ (b ++ d)
<1>1. a \in Seq(Nat) /\ b \in Seq(Nat) /\ d \in Seq(Nat)
  BY DEF Words
<1>2. (a \o b) \o d = a \o (b \o d)
  BY <1>1, ConcatAssociative, SMTT(60)
<1>. QED BY <1>2 DEF ++

LEMMA Emptied ==
  ASSUME NEW a \in Words, NEW b \in Words
  PROVE  a ++ b = <<>> <=> a = <<>> /\ b = <<>>
<1>1. Len(a ++ b) = Len(a) + Len(b) /\ Len(a) \in Nat /\ Len(b) \in Nat /\ a ++ b \in Words
  BY Joins, LenProperties DEF Words
<1>2. \A x \in Words : x = <<>> <=> Len(x) = 0
  BY EmptySeq DEF Words
<1> QED
  BY <1>1, <1>2

(* Wherever TCP cuts what it holds, what is put together again is whole.   *)
LEMMA Segments ==
  ASSUME NEW a \in Words, NEW k \in 0..Len(a)
  PROVE  /\ Before(a, k) \in Words /\ After(a, k) \in Words
         /\ Len(Before(a, k)) = k /\ Len(After(a, k)) = Len(a) - k
         /\ Before(a, k) ++ After(a, k) = a
<1>n. Len(a) \in Nat /\ k \in Nat /\ k <= Len(a)
  BY LenProperties DEF Words
<1>1. /\ Before(a, k) \in Words /\ Len(Before(a, k)) = k
      /\ \A i \in 1..k : Before(a, k)[i] = a[i]
  <2>1. 1 \in 1..Len(a) + 1 /\ k \in 1 - 1..Len(a)
    BY <1>n
  <2>2. /\ Before(a, k) \in Words /\ Len(Before(a, k)) = k - 1 + 1
        /\ \A i \in 1..k - 1 + 1 : Before(a, k)[i] = a[1 + i - 1]
    BY <2>1, Pieces DEF Before
  <2> QED
    BY <2>2, <1>n
<1>2. /\ After(a, k) \in Words /\ Len(After(a, k)) = Len(a) - k
      /\ \A i \in 1..Len(a) - k : After(a, k)[i] = a[k + i]
  <2>1. k + 1 \in 1..Len(a) + 1 /\ Len(a) \in (k + 1) - 1..Len(a)
    BY <1>n
  <2>2. /\ After(a, k) \in Words /\ Len(After(a, k)) = Len(a) - (k + 1) + 1
        /\ \A i \in 1..Len(a) - (k + 1) + 1 : After(a, k)[i] = a[k + 1 + i - 1]
    BY <2>1, Pieces DEF After
  <2> QED
    BY <2>2, <1>n
<1> DEFINE x == Before(a, k)
           y == After(a, k)
<1>3. x \in Words /\ y \in Words /\ Len(x) = k /\ Len(y) = Len(a) - k
  BY <1>1, <1>2
<1>4. /\ \A i \in 1..k : x[i] = a[i]
      /\ \A i \in 1..Len(a) - k : y[i] = a[k + i]
  BY <1>1, <1>2
<1> HIDE DEF x, y
<1>5. /\ x ++ y \in Words /\ Len(x ++ y) = Len(a)
      /\ \A i \in 1..k : (x ++ y)[i] = x[i]
      /\ \A i \in 1..Len(a) - k : (x ++ y)[k + i] = y[i]
  <2>1. /\ x ++ y \in Words /\ Len(x ++ y) = Len(x) + Len(y)
        /\ \A i \in 1..Len(x) : (x ++ y)[i] = x[i]
        /\ \A i \in 1..Len(y) : (x ++ y)[Len(x) + i] = y[i]
    BY <1>3, Joins
  <2> QED
    BY <2>1, <1>3, <1>n
<1>6. ASSUME NEW i \in 1..Len(a) PROVE (x ++ y)[i] = a[i]
  <2>1. CASE i <= k
    BY <2>1, <1>4, <1>5, <1>n
  <2>2. CASE i > k
    <3> DEFINE j == i - k
    <3>1. j \in 1..Len(a) - k /\ k + j = i
      BY <2>2, <1>n
    <3> HIDE DEF j
    <3>2. (x ++ y)[k + j] = y[j] /\ y[j] = a[k + j]
      BY <3>1, <1>4, <1>5
    <3> QED
      BY <3>1, <3>2
  <2> QED
    BY <2>1, <2>2, <1>n
<1>7. x ++ y = a
  BY <1>5, <1>6, SameWords
<1> QED
  BY <1>1, <1>2, <1>7 DEF x, y

(* Two ways to put the same words together, of which one starts with h. *)
LEMMA Parted ==
  ASSUME NEW a \in Words, NEW b \in Words, NEW h \in Words, NEW t \in Words,
         a ++ b = h ++ t, Len(a) = Len(h)
  PROVE  a = h /\ b = t
<1>n. Len(a) \in Nat /\ Len(b) \in Nat /\ Len(t) \in Nat
  BY LenProperties DEF Words
<1>1. /\ Len(a ++ b) = Len(a) + Len(b)
      /\ \A i \in 1..Len(a) : (a ++ b)[i] = a[i]
      /\ \A i \in 1..Len(b) : (a ++ b)[Len(a) + i] = b[i]
  BY Joins
<1>2. /\ Len(h ++ t) = Len(h) + Len(t)
      /\ \A i \in 1..Len(h) : (h ++ t)[i] = h[i]
      /\ \A i \in 1..Len(t) : (h ++ t)[Len(h) + i] = t[i]
  BY Joins
<1>3. Len(b) = Len(t)
  BY <1>1, <1>2, <1>n
<1>4. \A i \in 1..Len(a) : a[i] = h[i]
  BY <1>1, <1>2
<1>5. \A i \in 1..Len(b) : b[i] = t[i]
  BY <1>1, <1>2, <1>3
<1>6. a = h
  BY <1>4, SameWords
<1> QED
  BY <1>3, <1>5, <1>6, SameWords

LEMMA Cut ==
  ASSUME NEW b \in Words, NEW o \in Words, NEW h \in Words, NEW t \in Words,
         b ++ o = h ++ t, Len(h) <= Len(b)
  PROVE  Before(b, Len(h)) = h /\ After(b, Len(h)) ++ o = t /\ After(b, Len(h)) \in Words
<1> DEFINE x == Before(b, Len(h))
           y == After(b, Len(h))
<1>1. x \in Words /\ y \in Words /\ Len(x) = Len(h) /\ x ++ y = b
  <2>1. Len(h) \in 0..Len(b)
    BY LenProperties DEF Words
  <2> QED
    BY <2>1, Segments
<1> HIDE DEF x, y
<1>2. x ++ (y ++ o) = h ++ t /\ y ++ o \in Words
  BY <1>1, Grouped, Joins
<1>3. x = h /\ y ++ o = t
  BY <1>1, <1>2, Parted
<1> QED
  BY <1>1, <1>3 DEF x, y

(* The frames.                                                             *)

LEMMA Halves ==
  ASSUME NEW a \in Words, Len(a) = 8
  PROVE  /\ First(a) \in Words /\ Len(First(a)) = 5 /\ \A i \in 1..5 : First(a)[i] = a[i]
         /\ Rest(a) \in Words /\ Len(Rest(a)) = 3 /\ \A i \in 1..3 : Rest(a)[i] = a[i + 5]
         /\ First(a) ++ Rest(a) = a
<1>1. First(a) \in Words /\ Len(First(a)) = 5 /\ \A i \in 1..5 : First(a)[i] = a[i]
  <2>1. 1 \in 1..Len(a) + 1 /\ 5 \in 1 - 1..Len(a)
    OBVIOUS
  <2>2. First(a) \in Words /\ Len(First(a)) = 5 - 1 + 1 /\ \A i \in 1..5 - 1 + 1 : First(a)[i] = a[1 + i - 1]
    BY <2>1, Pieces DEF First
  <2>3. \A i \in 1..5 : 1 + i - 1 = i
    OBVIOUS
  <2> QED
    BY <2>2, <2>3
<1>2. Rest(a) \in Words /\ Len(Rest(a)) = 3 /\ \A i \in 1..3 : Rest(a)[i] = a[i + 5]
  <2>1. 6 \in 1..Len(a) + 1 /\ 8 \in 6 - 1..Len(a)
    OBVIOUS
  <2>2. Rest(a) \in Words /\ Len(Rest(a)) = 8 - 6 + 1 /\ \A i \in 1..8 - 6 + 1 : Rest(a)[i] = a[6 + i - 1]
    BY <2>1, Pieces DEF Rest
  <2> QED
    BY <2>2
<1>3. First(a) ++ Rest(a) = a
  <2> HIDE DEF First, Rest
  <2>1. /\ First(a) ++ Rest(a) \in Words /\ Len(First(a) ++ Rest(a)) = 8
        /\ \A i \in 1..5 : (First(a) ++ Rest(a))[i] = a[i]
        /\ \A i \in 1..3 : (First(a) ++ Rest(a))[5 + i] = a[i + 5]
    <3>1. /\ First(a) ++ Rest(a) \in Words /\ Len(First(a) ++ Rest(a)) = Len(First(a)) + Len(Rest(a))
          /\ \A i \in 1..Len(First(a)) : (First(a) ++ Rest(a))[i] = First(a)[i]
          /\ \A i \in 1..Len(Rest(a)) : (First(a) ++ Rest(a))[Len(First(a)) + i] = Rest(a)[i]
      BY <1>1, <1>2, Joins
    <3> QED
      BY <3>1, <1>1, <1>2
  <2>2. ASSUME NEW i \in 1..8 PROVE (First(a) ++ Rest(a))[i] = a[i]
    <3>1. CASE i \in 1..5
      BY <3>1, <2>1
    <3>2. CASE i \in 6..8
      <4> DEFINE j == i - 5
      <4>1. j \in 1..3 /\ 5 + j = i /\ j + 5 = i
        BY <3>2
      <4> HIDE DEF j
      <4>2. (First(a) ++ Rest(a))[5 + j] = a[j + 5]
        BY <4>1, <2>1
      <4> QED
        BY <4>1, <4>2
    <3>3. i \in 1..5 \/ i \in 6..8
      OBVIOUS
    <3> QED
      BY <3>1, <3>2, <3>3
  <2> QED
    BY <2>1, <2>2, SameWords
<1> QED
  BY <1>1, <1>2, <1>3

LEMMA Replies ==
  /\ Granted \in Words /\ Len(Granted) = 8 /\ Refusal \in Words /\ Len(Refusal) = 8
  /\ Granted[1] = Version /\ Granted[2] = Success /\ Granted[4] = Atyp /\ Granted[5] = 1
  /\ Refusal[2] # Success /\ Refusal[4] = Atyp /\ Refusal[5] = 1
  /\ \A i \in 1..8 : Granted[i] < Fin /\ Refusal[i] < Fin
BY DEF Granted, Refusal, buildConnectReply, Version, Success, Atyp, TheDomain, Fin, Words

LEMMA Asks ==
  ASSUME NEW q \in Requests
  PROVE  /\ q \in Words /\ Len(q) = 8 /\ q[5] = 1
         /\ parseConnectRequest(q) \in {TheDomain, Garbled}
<1>1. CASE q = buildConnectRequest(TheDomain)
  BY <1>1 DEF buildConnectRequest, parseConnectRequest, Version, Atyp, TheDomain, Garbled, Words
<1>2. CASE q = <<4, 1, 0, Atyp, 1, TheDomain, 0, 0>>
  BY <1>2 DEF parseConnectRequest, Version, Atyp, TheDomain, Garbled, Words
<1> QED
  BY <1>1, <1>2 DEF Requests

LEMMA Grants ==
  /\ \A m \in Methods : m \in Words /\ Len(m) = 2 /\ m[1] < Fin /\ m[2] < Fin
  /\ buildGreeting \in Words /\ Len(buildGreeting) = 3
  /\ SubSeq(buildGreeting, 1, 2) = <<Version, 1>> /\ SubSeq(buildGreeting, 3, 3) = <<NoAuth>>
  /\ <<NoAuth>> \in Words /\ Len(<<NoAuth>>) = 1 /\ <<Fin>> \in Words /\ Len(<<Fin>>) = 1
  /\ <<Version, 1>> \in Words /\ <<Version, 1>>[2] = 1
<1>1. \A m \in Methods : m \in Words /\ Len(m) = 2 /\ m[1] < Fin /\ m[2] < Fin
  <2>1. ASSUME NEW m, m = <<5, 0>> PROVE m \in Words /\ Len(m) = 2 /\ m[1] < 99 /\ m[2] < 99
    BY <2>1 DEF Words
  <2>2. ASSUME NEW m, m = <<5, 2>> PROVE m \in Words /\ Len(m) = 2 /\ m[1] < 99 /\ m[2] < 99
    BY <2>2 DEF Words
  <2> QED
    BY <2>1, <2>2 DEF Methods, Version, NoAuth, Fin
<1>2. /\ buildGreeting \in Words /\ Len(buildGreeting) = 3
      /\ buildGreeting[1] = 5 /\ buildGreeting[2] = 1 /\ buildGreeting[3] = 0
  BY DEF buildGreeting, Version, NoAuth, Words
<1>3. /\ <<5, 1>> \in Words /\ Len(<<5, 1>>) = 2 /\ <<5, 1>>[1] = 5 /\ <<5, 1>>[2] = 1
      /\ <<0>> \in Words /\ Len(<<0>>) = 1 /\ <<0>>[1] = 0 /\ <<Fin>> \in Words /\ Len(<<Fin>>) = 1
  BY DEF Fin, Words
<1>4. SubSeq(buildGreeting, 1, 2) = <<5, 1>>
  <2>1. 1 \in 1..Len(buildGreeting) + 1 /\ 2 \in 1 - 1..Len(buildGreeting)
    BY <1>2
  <2>2. /\ SubSeq(buildGreeting, 1, 2) \in Words /\ Len(SubSeq(buildGreeting, 1, 2)) = 2 - 1 + 1
        /\ \A k \in 1..2 - 1 + 1 : SubSeq(buildGreeting, 1, 2)[k] = buildGreeting[1 + k - 1]
    BY <2>1, <1>2, Pieces DEF Words
  <2> DEFINE a == SubSeq(buildGreeting, 1, 2)
             b == <<5, 1>>
  <2>3. a \in Words /\ b \in Words /\ Len(a) = Len(b) /\ \A i \in 1..Len(a) : a[i] = b[i]
    BY <2>2, <1>2, <1>3
  <2> HIDE DEF a, b
  <2>4. a = b
    BY <2>3, SameWords
  <2> QED
    BY <2>4 DEF a, b
<1>5. SubSeq(buildGreeting, 3, 3) = <<0>>
  <2>1. 3 \in 1..Len(buildGreeting) + 1 /\ 3 \in 3 - 1..Len(buildGreeting)
    BY <1>2
  <2>2. /\ SubSeq(buildGreeting, 3, 3) \in Words /\ Len(SubSeq(buildGreeting, 3, 3)) = 3 - 3 + 1
        /\ \A k \in 1..3 - 3 + 1 : SubSeq(buildGreeting, 3, 3)[k] = buildGreeting[3 + k - 1]
    BY <2>1, <1>2, Pieces
  <2> DEFINE a == SubSeq(buildGreeting, 3, 3)
             b == <<0>>
  <2>3. a \in Words /\ b \in Words /\ Len(a) = Len(b) /\ \A i \in 1..Len(a) : a[i] = b[i]
    BY <2>2, <1>2, <1>3
  <2> HIDE DEF a, b
  <2>4. a = b
    BY <2>3, SameWords
  <2> QED
    BY <2>4 DEF a, b
<1> QED
  BY <1>1, <1>2, <1>3, <1>4, <1>5 DEF Version, NoAuth

LEMMA NeedsOf ==
  ASSUME NEW s
  PROVE  /\ s.at \in {"hello", "method"} => Needs(s) = 2
         /\ s.at = "methods" => Needs(s) = s.seen[2]
         /\ s.at = "head" => Needs(s) = 5
         /\ s.at = "rest" => Needs(s) = s.seen[5] + 2
<1>1. ASSUME s.at \in {"hello", "method"} PROVE Needs(s) = 2
  BY <1>1 DEF Needs
<1>2. ASSUME s.at = "methods" PROVE Needs(s) = s.seen[2]
  BY <1>2 DEF Needs
<1>3. ASSUME s.at = "head" PROVE Needs(s) = 5
  BY <1>3 DEF Needs
<1>4. ASSUME s.at = "rest" PROVE Needs(s) = s.seen[5] + 2
  BY <1>4 DEF Needs
<1> QED
  BY <1>1, <1>2, <1>3, <1>4

(* A frame is read as it was sent: what is taken, and what is left. *)
LEMMA ReadFrame ==
  ASSUME NEW s \in Sockets, NEW h \in Words, NEW t \in Words, In(s) = h ++ t,
         Ready(s), Needs(s) = Len(h)
  PROVE  /\ Taken(s) = h /\ Left(s) \in Words /\ Left(s) ++ s.net = t
<1>1. s.buf \in Words /\ s.net \in Words /\ s.buf ++ s.net = h ++ t
  BY DEF In, Sockets
<1>2. Len(h) <= Len(s.buf)
  BY DEF Ready
<1>3. Before(s.buf, Len(h)) = h /\ After(s.buf, Len(h)) ++ s.net = t /\ After(s.buf, Len(h)) \in Words
  BY <1>1, <1>2, Cut
<1>4. Taken(s) = Before(s.buf, Len(h)) /\ Left(s) = After(s.buf, Len(h))
  BY DEF Taken, Left, Before, After
<1> QED
  BY <1>3, <1>4

(* Nothing can be read that has not been said. *)
LEMMA ReadyMeans ==
  ASSUME NEW s \in Sockets, Ready(s), Needs(s) \in Nat
  PROVE  Len(In(s)) >= Needs(s) /\ Len(In(s)) \in Nat
<1>1. s.buf \in Words /\ s.net \in Words
  BY DEF Sockets
<1>2. Len(In(s)) = Len(s.buf) + Len(s.net)
  BY <1>1, Joins DEF In
<1>3. Len(s.buf) \in Nat /\ Len(s.net) \in Nat
  BY <1>1, LenProperties DEF Words
<1>4. Len(s.buf) >= Needs(s)
  BY DEF Ready
<1> DEFINE a == Len(In(s))
           b == Len(s.buf)
           o == Len(s.net)
           k == Needs(s)
<1>5. a = b + o /\ b \in Nat /\ o \in Nat /\ b >= k /\ k \in Nat
  BY <1>2, <1>3, <1>4
<1>6. a >= k /\ a \in Nat
  <2> HIDE DEF a, b, o, k
  <2> QED
    BY <1>5
<1> QED
  BY <1>6

-----------------------------------------------------------------------------
(* What an action on one connection leaves alone at its two ends.          *)

Onward(n, f, n2, f2) ==
  /\ n2.at = "idle" <=> n.at = "idle"
  /\ n.at = "failed" => n2.at = "failed"
  /\ n.at \in Attaching => n2.at \in Attaching
  /\ n.at \in {"open", "ended"} /\ f.at \notin Attaching => n2.at \in {"open", "ended"}
  /\ n.at = "activating" => n2.at \in {"activating", "open"}
  /\ f.at = "claimed" => f2.at = "claimed"
  /\ f2.at \in Attaching <=> f.at \in Attaching

Unbroken(n, f, n2, f2) ==
  /\ n2.at = "errored" => n.at = "errored"
  /\ f2.at = "errored" => f.at = "errored"

NotLetIn(f, f2) == f2.at \in {"claimed"} \cup Attaching => f.at \in {"claimed"} \cup Attaching

(* An end that TCP or Node does something for, of the same coroutine. *)
Alike(s, t) ==
  \/ t = s
  \/ /\ s.mode # "off" /\ t.mode = s.mode /\ t.at = s.at
     /\ t.seen = s.seen /\ t.got = s.got /\ In(t) = In(s)

LEMMA AlikeEnds ==
  ASSUME NEW s, NEW t, Alike(s, t)
  PROVE  /\ t.at = s.at /\ t.mode = s.mode /\ t.seen = s.seen /\ t.got = s.got /\ In(t) = In(s)
         /\ s.mode = "off" => t = s
BY DEF Alike

LEMMA AlikeHolds ==
  ASSUME NEW s, NEW t, Alike(s, t), s.mode = ModeOf(s.at), NEW x, Holds(s, x)
  PROVE  Holds(t, x)
<1>1. CASE s.at = "ended"
  <2>1. s.mode = "off"
    BY <1>1 DEF ModeOf
  <2> QED
    BY <2>1, AlikeEnds
<1>2. CASE s.at # "ended"
  BY <1>2, AlikeEnds DEF Holds
<1> QED
  BY <1>1, <1>2

LEMMA AlikeInStep ==
  ASSUME NEW n, NEW f, NEW n2, NEW f2, Alike(n, n2), Alike(f, f2),
         NEW m, NEW q, NEW w, NEW v, InStep(n, f, m, q, w, v)
  PROVE  /\ InStep(n2, f2, m, q, w, v)
         /\ Onward(n, f, n2, f2) /\ Unbroken(n, f, n2, f2) /\ NotLetIn(f, f2)
<1>1. /\ n2.at = n.at /\ n2.mode = n.mode /\ n2.seen = n.seen /\ n2.got = n.got /\ In(n2) = In(n)
      /\ n.mode = "off" => n2 = n
  BY AlikeEnds
<1>2. /\ f2.at = f.at /\ f2.mode = f.mode /\ f2.seen = f.seen /\ f2.got = f.got /\ In(f2) = In(f)
      /\ f.mode = "off" => f2 = f
  BY AlikeEnds
<1>3. n.mode = ModeOf(n.at) /\ f.mode = ModeOf(f.at) /\ n2.mode = ModeOf(n2.at) /\ f2.mode = ModeOf(f2.at)
  BY <1>1, <1>2 DEF InStep
<1>4. (Holds(n, w) => Holds(n2, w)) /\ (Holds(f, v) => Holds(f2, v))
  BY <1>3, AlikeHolds
<1>5. CASE Unborn(n, f)
  <2>1. n.mode = "off" /\ f.mode = "off"
    BY <1>5 DEF Unborn, Closed
  <2> QED
    BY <2>1, <1>1, <1>2, <1>3, <1>5 DEF InStep, Onward, Unbroken, NotLetIn
<1>6. CASE Greeted(n, f, m)
  BY <1>1, <1>2, <1>3, <1>6 DEF InStep, Greeted, Onward, Unbroken, NotLetIn
<1>7. CASE Asked(n, f, q)
  BY <1>1, <1>2, <1>3, <1>7 DEF InStep, Asked, Onward, Unbroken, NotLetIn
<1>8. CASE Answered(n, f, w, v)
  BY <1>1, <1>2, <1>3, <1>4, <1>8 DEF InStep, Answered, Onward, Unbroken, NotLetIn
<1>9. CASE Joined(n, f, w, v)
  BY <1>1, <1>2, <1>3, <1>4, <1>9 DEF InStep, Joined, Onward, Unbroken, NotLetIn
<1>10. CASE Turned(n, f)
  BY <1>1, <1>2, <1>3, <1>10 DEF InStep, Turned, Onward, Unbroken, NotLetIn
<1>11. CASE Lost(n, f)
  BY <1>1, <1>2, <1>3, <1>11 DEF InStep, Lost, Onward, Unbroken, NotLetIn
<1> QED
  BY <1>5, <1>6, <1>7, <1>8, <1>9, <1>10, <1>11 DEF InStep

(* An end with a stream goes on as one that holds the same words. *)
LEMMA PastInStep ==
  ASSUME NEW n, NEW f, NEW m, NEW q, NEW w, NEW v, InStep(n, f, m, q, w, v), NEW s
  PROVE  /\ /\ n.mode = "stream" /\ s.at \in {"open", "ended"} /\ s.mode = ModeOf(s.at)
            /\ Holds(n, w) => Holds(s, w)
            => /\ InStep(s, f, m, q, w, v)
               /\ Onward(n, f, s, f) /\ Unbroken(n, f, s, f) /\ NotLetIn(f, f)
         /\ /\ f.mode = "stream" /\ s.at \in {"open", "ended"} /\ s.mode = ModeOf(s.at)
            /\ Holds(f, v) => Holds(s, v)
            => /\ InStep(n, s, m, q, w, v)
               /\ Onward(n, f, n, s) /\ Unbroken(n, f, n, s) /\ NotLetIn(f, s)
<1>1. n.mode = ModeOf(n.at) /\ f.mode = ModeOf(f.at)
  BY DEF InStep
<1>2. (n.mode = "stream" => n.at = "open") /\ (f.mode = "stream" => f.at = "open")
  BY <1>1 DEF ModeOf
<1>3. ASSUME n.mode = "stream", s.at \in {"open", "ended"}, s.mode = ModeOf(s.at), Holds(n, w) => Holds(s, w)
      PROVE  /\ InStep(s, f, m, q, w, v)
             /\ Onward(n, f, s, f) /\ Unbroken(n, f, s, f) /\ NotLetIn(f, f)
  <2>1. n.at = "open"
    BY <1>2, <1>3
  <2>2. Joined(n, f, w, v)
    BY <2>1 DEF InStep, Unborn, Closed, Greeted, Asked, Answered, Turned, Lost
  <2>3. Joined(s, f, w, v)
    BY <2>2, <1>3 DEF Joined
  <2> QED
    BY <2>1, <2>3, <1>1, <1>3 DEF InStep, Onward, Unbroken, NotLetIn, Attaching
<1>4. ASSUME f.mode = "stream", s.at \in {"open", "ended"}, s.mode = ModeOf(s.at), Holds(f, v) => Holds(s, v)
      PROVE  /\ InStep(n, s, m, q, w, v)
             /\ Onward(n, f, n, s) /\ Unbroken(n, f, n, s) /\ NotLetIn(f, s)
  <2>1. f.at = "open"
    BY <1>2, <1>4
  <2>2. Joined(n, f, w, v) \/ Answered(n, f, w, v)
    BY <2>1 DEF InStep, Unborn, Closed, Greeted, Asked, Turned, Lost
  <2>3. Joined(n, s, w, v) \/ Answered(n, s, w, v)
    BY <2>2, <1>4 DEF Joined, Answered
  <2> QED
    BY <2>1, <2>3, <1>1, <1>4 DEF InStep, Onward, Unbroken, NotLetIn, Attaching
<1> QED
  BY <1>3, <1>4

(* What Deliver(), Read() and StreamEnds() make of an end.                 *)

Segment(s, k) == [s EXCEPT !.net = After(s.net, k), !.buf = s.buf ++ Before(s.net, k)]
HasRead(s)    == [s EXCEPT !.got = s.got ++ s.buf, !.buf = <<>>]
HasEnded(s)   == [s EXCEPT !.at = "ended", !.mode = "off", !.net = <<>>]

LEMMA Fields ==
  ASSUME NEW s \in Sockets
  PROVE  /\ s.net \in Words /\ s.buf \in Words /\ s.seen \in Words /\ s.got \in Words
         /\ In(s) \in Words
<1>1. s.net \in Words /\ s.buf \in Words /\ s.seen \in Words /\ s.got \in Words
  BY DEF Sockets
<1> QED
  BY <1>1, Joins DEF In

LEMMA SegmentAlike ==
  ASSUME NEW s \in Sockets, s.mode # "off", NEW k \in 1..Len(s.net)
  PROVE  Segment(s, k) \in Sockets /\ Alike(s, Segment(s, k))
<1> DEFINE t == Segment(s, k)
<1>1. s.net \in Words /\ s.buf \in Words
  BY Fields
<1>2. k \in 0..Len(s.net)
  OBVIOUS
<1>3. Before(s.net, k) \in Words /\ After(s.net, k) \in Words /\ Before(s.net, k) ++ After(s.net, k) = s.net
  BY <1>1, <1>2, Segments
<1>4. /\ t.net = After(s.net, k) /\ t.buf = s.buf ++ Before(s.net, k)
      /\ t.at = s.at /\ t.mode = s.mode /\ t.seen = s.seen /\ t.got = s.got
  BY DEF Segment, Sockets
<1>5. s.buf ++ Before(s.net, k) \in Words
  BY <1>1, <1>3, Joins
<1>6. t \in Sockets
  BY <1>3, <1>5 DEF Segment, Sockets
<1>7. (s.buf ++ Before(s.net, k)) ++ After(s.net, k) = s.buf ++ (Before(s.net, k) ++ After(s.net, k))
  BY <1>1, <1>3, Grouped
<1>8. In(t) = In(s)
  BY <1>3, <1>4, <1>7 DEF In
<1> QED
  BY <1>4, <1>6, <1>8 DEF Alike

LEMMA ReadHolds ==
  ASSUME NEW s \in Sockets, s.at = "open", s.mode = "stream", NEW x
  PROVE  /\ HasRead(s) \in Sockets /\ HasRead(s).at = "open" /\ HasRead(s).mode = "stream"
         /\ Holds(s, x) => Holds(HasRead(s), x)
<1> DEFINE t == HasRead(s)
<1>1. s.net \in Words /\ s.buf \in Words /\ s.got \in Words
  BY Fields
<1>2. t.net = s.net /\ t.buf = <<>> /\ t.at = s.at /\ t.mode = s.mode /\ t.got = s.got ++ s.buf
  BY DEF HasRead, Sockets
<1>3. s.got ++ s.buf \in Words /\ <<>> \in Words
  BY <1>1, Joins, NoWords
<1>4. t \in Sockets
  BY <1>3 DEF HasRead, Sockets
<1>5. (s.got ++ s.buf) ++ (<<>> ++ s.net) = s.got ++ (s.buf ++ s.net)
  BY <1>1, Grouped, NoWords
<1>6. t.got ++ In(t) = s.got ++ In(s)
  BY <1>2, <1>5 DEF In
<1>7. Holds(s, x) => Holds(t, x)
  BY <1>2, <1>6 DEF Holds
<1> QED
  BY <1>2, <1>4, <1>7

LEMMA EndHolds ==
  ASSUME NEW s \in Sockets, s.at = "open", s.buf = <<>>, s.net = <<Fin>>, NEW x
  PROVE  /\ HasEnded(s) \in Sockets /\ HasEnded(s).at = "ended" /\ HasEnded(s).mode = "off"
         /\ Holds(s, x) => Holds(HasEnded(s), x)
<1> DEFINE t == HasEnded(s)
<1>1. s.net \in Words /\ <<>> \in Words /\ s.got \in Words
  BY Fields, NoWords
<1>2. t.net = <<>> /\ t.buf = <<>> /\ t.at = "ended" /\ t.mode = "off" /\ t.got = s.got
  BY DEF HasEnded, Sockets
<1>3. t \in Sockets
  BY <1>1 DEF HasEnded, Sockets
<1>4. In(s) = <<Fin>>
  BY <1>1, NoWords DEF In
<1>5. Holds(s, x) => Holds(t, x)
  BY <1>2, <1>4 DEF Holds
<1> QED
  BY <1>2, <1>3, <1>5

-----------------------------------------------------------------------------
(* What is read in a handshake.                                            *)

LEMMA TwoReads ==
  ASSUME NEW s \in Sockets, NEW a \in Words, Len(a) = 8, a[5] = 1, NEW t \in Words
  PROVE  /\ s.at = "head" /\ Ready(s) /\ In(s) = a ++ t =>
              Taken(s) = First(a) /\ Left(s) \in Words /\ Left(s) ++ s.net = Rest(a) ++ t
         /\ s.at = "rest" /\ Ready(s) /\ s.seen = First(a) /\ In(s) = Rest(a) ++ t =>
              Taken(s) = Rest(a) /\ Left(s) \in Words /\ Left(s) ++ s.net = t
<1>1. /\ First(a) \in Words /\ Len(First(a)) = 5 /\ First(a)[5] = 1
      /\ Rest(a) \in Words /\ Len(Rest(a)) = 3 /\ First(a) ++ Rest(a) = a
  BY Halves
<1>2. ASSUME s.at = "head", Ready(s), In(s) = a ++ t
      PROVE  Taken(s) = First(a) /\ Left(s) \in Words /\ Left(s) ++ s.net = Rest(a) ++ t
  <2>1. Needs(s) = Len(First(a))
    BY <1>1, <1>2, NeedsOf
  <2>2. In(s) = First(a) ++ (Rest(a) ++ t) /\ Rest(a) ++ t \in Words
    BY <1>1, <1>2, Grouped, Joins
  <2> QED
    BY <1>1, <1>2, <2>1, <2>2, ReadFrame
<1>3. ASSUME s.at = "rest", Ready(s), s.seen = First(a), In(s) = Rest(a) ++ t
      PROVE  Taken(s) = Rest(a) /\ Left(s) \in Words /\ Left(s) ++ s.net = t
  <2>1. Needs(s) = Len(Rest(a))
    BY <1>1, <1>3, NeedsOf
  <2> QED
    BY <1>1, <1>3, <2>1, ReadFrame
<1> QED
  BY <1>2, <1>3

LEMMA ClientMethod ==
  ASSUME NEW n \in Sockets, NEW f \in Sockets, NEW m \in Methods, NEW q, NEW w, NEW v,
         InStep(n, f, m, q, w, v), n.at = "method", Ready(n)
  PROVE  /\ f.at = "head" /\ f.got = <<>> /\ In(f) = <<>> /\ n.got = <<>>
         /\ Taken(n) = m /\ Left(n) \in Words /\ Left(n) ++ n.net = <<>>
<1>1. Greeted(n, f, m)
  BY DEF InStep, Unborn, Closed, Asked, Answered, Joined, Turned, Lost
<1>2. m \in Words /\ Len(m) = 2
  BY Grants
<1>3. Needs(n) = 2
  BY NeedsOf
<1>4. Len(In(n)) >= 2
  BY <1>3, ReadyMeans
<1>5. In(n) # <<>>
  BY <1>4
<1>6. f.at = "head" /\ In(n) = m /\ In(f) = <<>> /\ f.got = <<>> /\ n.got = <<>>
  BY <1>1, <1>5 DEF Greeted
<1>7. In(n) = m ++ <<>> /\ <<>> \in Words
  BY <1>2, <1>6, NoWords
<1> QED
  BY <1>2, <1>3, <1>6, <1>7, ReadFrame

LEMMA ClientHead ==
  ASSUME NEW n \in Sockets, NEW f \in Sockets, NEW m \in Methods, NEW q, NEW w \in Words, NEW v,
         InStep(n, f, m, q, w, v), n.at = "head", Ready(n)
  PROVE  /\ Left(n) \in Words /\ Taken(n)[4] = Atyp
         /\ \/ /\ Answered(n, f, w, v) /\ Taken(n) = First(Granted)
               /\ Left(n) ++ n.net = Rest(Granted) ++ w
            \/ /\ Turned(n, f) /\ Taken(n) = First(Refusal)
               /\ Left(n) ++ n.net = Rest(Refusal) ++ <<Fin>>
<1>1. Needs(n) = 5
  BY NeedsOf
<1>2. Len(In(n)) >= 5 /\ Len(In(n)) \in Nat
  BY <1>1, ReadyMeans
<1>3. In(n) # <<>> /\ In(n) # <<Fin>>
  <2>1. Len(<<Fin>>) = 1 /\ Len(<<>>) = 0
    BY Grants
  <2>2. Len(In(n)) # 1 /\ Len(In(n)) # 0
    <3> DEFINE k == Len(In(n))
    <3>1. k \in Nat /\ k >= 5
      BY <1>2
    <3>2. k # 1 /\ k # 0
      <4> HIDE DEF k
      <4> QED
        BY <3>1
    <3> QED
      BY <3>2, Zenon
  <2>3. Len(In(n)) # Len(<<Fin>>) /\ Len(In(n)) # Len(<<>>)
    BY <2>1, <2>2
  <2> QED
    BY <2>3, Zenon
<1>4. \/ Answered(n, f, w, v) /\ In(n) = Granted ++ w
      \/ Turned(n, f) /\ In(n) = Refusal ++ <<Fin>>
  BY <1>3 DEF InStep, Unborn, Closed, Greeted, Asked, Answered, Joined, Turned, Lost
<1>5. /\ Granted \in Words /\ Len(Granted) = 8 /\ Granted[5] = 1 /\ Granted[4] = Atyp
      /\ Refusal \in Words /\ Len(Refusal) = 8 /\ Refusal[5] = 1 /\ Refusal[4] = Atyp /\ <<Fin>> \in Words
  BY Replies, Grants
<1>6. First(Granted)[4] = Atyp /\ First(Refusal)[4] = Atyp
  BY <1>5, Halves
<1>7. CASE Answered(n, f, w, v) /\ In(n) = Granted ++ w
  BY <1>5, <1>6, <1>7, TwoReads
<1>8. CASE Turned(n, f) /\ In(n) = Refusal ++ <<Fin>>
  BY <1>5, <1>6, <1>8, TwoReads
<1> QED
  BY <1>4, <1>7, <1>8

LEMMA ClientRest ==
  ASSUME NEW n \in Sockets, NEW f \in Sockets, NEW m \in Methods, NEW q, NEW w \in Words, NEW v,
         InStep(n, f, m, q, w, v), n.at = "rest", Ready(n)
  PROVE  /\ Left(n) \in Words
         /\ \/ Answered(n, f, w, v) /\ n.seen ++ Taken(n) = Granted /\ Left(n) ++ n.net = w
            \/ Turned(n, f) /\ n.seen ++ Taken(n) = Refusal
<1>1. \/ Answered(n, f, w, v) /\ In(n) = Rest(Granted) ++ w /\ n.seen = First(Granted)
      \/ Turned(n, f) /\ In(n) = Rest(Refusal) ++ <<Fin>> /\ n.seen = First(Refusal)
  BY DEF InStep, Unborn, Closed, Greeted, Asked, Answered, Joined, Turned, Lost
<1>2. /\ Granted \in Words /\ Len(Granted) = 8 /\ Granted[5] = 1
      /\ Refusal \in Words /\ Len(Refusal) = 8 /\ Refusal[5] = 1 /\ <<Fin>> \in Words
  BY Replies, Grants
<1>3. First(Granted) ++ Rest(Granted) = Granted /\ First(Refusal) ++ Rest(Refusal) = Refusal
  BY <1>2, Halves
<1>4. CASE Answered(n, f, w, v) /\ In(n) = Rest(Granted) ++ w /\ n.seen = First(Granted)
  BY <1>2, <1>3, <1>4, TwoReads
<1>5. CASE Turned(n, f) /\ In(n) = Rest(Refusal) ++ <<Fin>> /\ n.seen = First(Refusal)
  BY <1>2, <1>3, <1>5, TwoReads
<1> QED
  BY <1>1, <1>4, <1>5

LEMMA ServerHello ==
  ASSUME NEW n \in Sockets, NEW f \in Sockets, NEW m, NEW q, NEW w, NEW v,
         InStep(n, f, m, q, w, v), f.at = "hello", Ready(f)
  PROVE  /\ Greeted(n, f, m) /\ In(n) = <<>>
         /\ Taken(f) = <<Version, 1>> /\ Left(f) \in Words /\ Left(f) ++ f.net = <<NoAuth>>
<1>1. Greeted(n, f, m)
  BY DEF InStep, Unborn, Closed, Asked, Answered, Joined, Turned, Lost
<1>2. In(n) = <<>> /\ In(f) = buildGreeting
  BY <1>1 DEF Greeted
<1>3. /\ buildGreeting \in Words /\ 2 \in 0..Len(buildGreeting) /\ <<Version, 1>> \in Words /\ <<NoAuth>> \in Words
      /\ Before(buildGreeting, 2) = <<Version, 1>> /\ After(buildGreeting, 2) = <<NoAuth>>
  BY Grants DEF Before, After
<1>4. In(f) = <<Version, 1>> ++ <<NoAuth>>
  BY <1>2, <1>3, Segments
<1>5. Needs(f) = Len(<<Version, 1>>)
  BY NeedsOf
<1> QED
  BY <1>1, <1>2, <1>3, <1>4, <1>5, ReadFrame

LEMMA ServerMethods ==
  ASSUME NEW n \in Sockets, NEW f \in Sockets, NEW m, NEW q, NEW w, NEW v,
         InStep(n, f, m, q, w, v), f.at = "methods", Ready(f)
  PROVE  /\ Greeted(n, f, m) /\ In(n) = <<>>
         /\ Left(f) \in Words /\ Left(f) ++ f.net = <<>>
<1>1. Greeted(n, f, m)
  BY DEF InStep, Unborn, Closed, Asked, Answered, Joined, Turned, Lost
<1>2. In(n) = <<>> /\ In(f) = <<NoAuth>> /\ f.seen = <<Version, 1>>
  BY <1>1 DEF Greeted
<1>3. <<NoAuth>> \in Words /\ Len(<<NoAuth>>) = 1 /\ <<Version, 1>>[2] = 1 /\ <<>> \in Words
  BY Grants, NoWords
<1>4. In(f) = <<NoAuth>> ++ <<>>
  BY <1>2, <1>3, NoWords
<1>5. Needs(f) = Len(<<NoAuth>>)
  BY <1>2, <1>3, NeedsOf
<1> QED
  BY <1>1, <1>2, <1>3, <1>4, <1>5, ReadFrame

LEMMA ServerHead ==
  ASSUME NEW n \in Sockets, NEW f \in Sockets, NEW m, NEW q \in Requests, NEW w, NEW v,
         InStep(n, f, m, q, w, v), f.at = "head", Ready(f)
  PROVE  /\ Asked(n, f, q)
         /\ Taken(f) = First(q) /\ Left(f) \in Words /\ Left(f) ++ f.net = Rest(q)
<1>1. Needs(f) = 5
  BY NeedsOf
<1>2. Len(In(f)) >= 5
  BY <1>1, ReadyMeans
<1>3. In(f) # <<>> /\ ~(Len(In(f)) <= 1)
  <2>1. Len(<<>>) = 0
    OBVIOUS
  <2> QED
    BY <1>2, <2>1, Fields, LenProperties DEF Words
<1>4. Asked(n, f, q) /\ In(f) = q
  BY <1>3 DEF InStep, Unborn, Closed, Greeted, Asked, Answered, Joined, Turned, Lost
<1>5. q \in Words /\ Len(q) = 8 /\ q[5] = 1 /\ <<>> \in Words
  BY Asks, NoWords
<1>6. In(f) = q ++ <<>>
  BY <1>4, <1>5, NoWords
<1>7. Rest(q) ++ <<>> = Rest(q)
  BY <1>5, Halves, NoWords
<1> QED
  BY <1>4, <1>5, <1>6, <1>7, TwoReads

LEMMA ServerRest ==
  ASSUME NEW n \in Sockets, NEW f \in Sockets, NEW m, NEW q \in Requests, NEW w, NEW v,
         InStep(n, f, m, q, w, v), f.at = "rest", Ready(f)
  PROVE  /\ Asked(n, f, q)
         /\ f.seen ++ Taken(f) = q /\ Left(f) \in Words /\ Left(f) ++ f.net = <<>>
<1>1. Asked(n, f, q) /\ In(f) = Rest(q) /\ f.seen = First(q)
  BY DEF InStep, Unborn, Closed, Greeted, Asked, Answered, Joined, Turned, Lost
<1>2. q \in Words /\ Len(q) = 8 /\ q[5] = 1 /\ <<>> \in Words
  BY Asks, NoWords
<1>3. In(f) = Rest(q) ++ <<>> /\ First(q) ++ Rest(q) = q
  BY <1>1, <1>2, Halves, NoWords
<1> QED
  BY <1>1, <1>2, <1>3, TwoReads

-----------------------------------------------------------------------------
(* What the coroutines make of their sockets.                              *)

Gets(s, words) == [s EXCEPT !.net = s.net ++ words]

LEMMA GetsMeans ==
  ASSUME NEW s \in Sockets, NEW x \in Words
  PROVE  /\ Gets(s, x) \in Sockets /\ In(Gets(s, x)) = In(s) ++ x
         /\ Gets(s, x).at = s.at /\ Gets(s, x).mode = s.mode /\ Gets(s, x).seen = s.seen
         /\ Gets(s, x).got = s.got /\ Gets(s, x).buf = s.buf
<1> DEFINE t == Gets(s, x)
<1>1. s.net \in Words /\ s.buf \in Words
  BY Fields
<1>2. s.net ++ x \in Words /\ (s.buf ++ s.net) ++ x = s.buf ++ (s.net ++ x)
  BY <1>1, Joins, Grouped
<1>3. /\ t.net = s.net ++ x /\ t.buf = s.buf /\ t.at = s.at /\ t.mode = s.mode
      /\ t.seen = s.seen /\ t.got = s.got
  BY DEF Gets, Sockets
<1>4. t \in Sockets
  BY <1>2 DEF Gets, Sockets
<1> QED
  BY <1>2, <1>3, <1>4 DEF In

(* s goes on as t, in state a, with what it has taken read and d kept.     *)
Becomes(s, t, a, md, d) ==
  /\ t \in Sockets /\ t.at = a /\ t.mode = md /\ t.seen = d /\ t.got = s.got
  /\ In(t) = Left(s) ++ s.net

Asking(n)     == [n EXCEPT !.at = "head", !.buf = Left(n)]
HalfRead(s)   == [s EXCEPT !.at = "rest", !.buf = Left(s), !.seen = Taken(s)]
Choosing(f)   == [f EXCEPT !.at = "methods", !.buf = Left(f), !.seen = Taken(f)]
Granting(f)   == [f EXCEPT !.at = "head", !.buf = Left(f), !.seen = <<>>]
Claiming(f)   == [release(f, Left(f)) EXCEPT !.at = "claimed"]
Activating(n) == [release(n, Left(n)) EXCEPT !.at = "activating"]

LEMMA Goings ==
  ASSUME NEW s \in Sockets, Left(s) \in Words
  PROVE  /\ Becomes(s, Asking(s), "head", s.mode, s.seen)
         /\ Taken(s) \in Words => Becomes(s, HalfRead(s), "rest", s.mode, Taken(s))
         /\ Taken(s) \in Words => Becomes(s, Choosing(s), "methods", s.mode, Taken(s))
         /\ Becomes(s, Granting(s), "head", s.mode, <<>>)
         /\ Becomes(s, Claiming(s), "claimed", "paused", <<>>)
         /\ Becomes(s, Activating(s), "activating", "paused", <<>>)
         /\ Becomes(s, Attached(release(s, Left(s))), "open", "stream", <<>>)
<1>0. <<>> \in Words
  BY Fields, NoWords
<1>1. Becomes(s, Asking(s), "head", s.mode, s.seen)
  <2> DEFINE t == Asking(s)
  <2>1. t.at = "head" /\ t.mode = s.mode /\ t.seen = s.seen /\ t.got = s.got /\ t.buf = Left(s) /\ t.net = s.net
    BY DEF Asking, Sockets
  <2>2. t \in Sockets
    BY DEF Asking, Sockets
  <2> QED
    BY <2>1, <2>2 DEF Becomes, In
<1>2. ASSUME Taken(s) \in Words PROVE Becomes(s, HalfRead(s), "rest", s.mode, Taken(s))
  <2> DEFINE t == HalfRead(s)
  <2>1. t.at = "rest" /\ t.mode = s.mode /\ t.seen = Taken(s) /\ t.got = s.got /\ t.buf = Left(s) /\ t.net = s.net
    BY DEF HalfRead, Sockets
  <2>2. t \in Sockets
    BY <1>2 DEF HalfRead, Sockets
  <2> QED
    BY <2>1, <2>2 DEF Becomes, In
<1>3. ASSUME Taken(s) \in Words PROVE Becomes(s, Choosing(s), "methods", s.mode, Taken(s))
  <2> DEFINE t == Choosing(s)
  <2>1. t.at = "methods" /\ t.mode = s.mode /\ t.seen = Taken(s) /\ t.got = s.got /\ t.buf = Left(s) /\ t.net = s.net
    BY DEF Choosing, Sockets
  <2>2. t \in Sockets
    BY <1>3 DEF Choosing, Sockets
  <2> QED
    BY <2>1, <2>2 DEF Becomes, In
<1>4. Becomes(s, Granting(s), "head", s.mode, <<>>)
  <2> DEFINE t == Granting(s)
  <2>1. t.at = "head" /\ t.mode = s.mode /\ t.seen = <<>> /\ t.got = s.got /\ t.buf = Left(s) /\ t.net = s.net
    BY DEF Granting, Sockets
  <2>2. t \in Sockets
    BY <1>0 DEF Granting, Sockets
  <2> QED
    BY <2>1, <2>2 DEF Becomes, In
<1>5. Becomes(s, Claiming(s), "claimed", "paused", <<>>)
  <2> DEFINE t == Claiming(s)
  <2>1. t.at = "claimed" /\ t.mode = "paused" /\ t.seen = <<>> /\ t.got = s.got /\ t.buf = Left(s) /\ t.net = s.net
    BY DEF Claiming, release, Sockets
  <2>2. t \in Sockets
    BY <1>0 DEF Claiming, release, Sockets
  <2> QED
    BY <2>1, <2>2 DEF Becomes, In
<1>6. Becomes(s, Activating(s), "activating", "paused", <<>>)
  <2> DEFINE t == Activating(s)
  <2>1. t.at = "activating" /\ t.mode = "paused" /\ t.seen = <<>> /\ t.got = s.got /\ t.buf = Left(s) /\ t.net = s.net
    BY DEF Activating, release, Sockets
  <2>2. t \in Sockets
    BY <1>0 DEF Activating, release, Sockets
  <2> QED
    BY <2>1, <2>2 DEF Becomes, In
<1>7. Becomes(s, Attached(release(s, Left(s))), "open", "stream", <<>>)
  <2> DEFINE t == Attached(release(s, Left(s)))
  <2>1. t.at = "open" /\ t.mode = "stream" /\ t.seen = <<>> /\ t.got = s.got /\ t.buf = Left(s) /\ t.net = s.net
    BY DEF Attached, release, Sockets
  <2>2. t \in Sockets
    BY <1>0 DEF Attached, release, Sockets
  <2> QED
    BY <2>1, <2>2 DEF Becomes, In
<1> QED
  BY <1>1, <1>2, <1>3, <1>4, <1>5, <1>6, <1>7

(* The handshake goes on in step.                                          *)

LEMMA MethodStep ==
  ASSUME NEW n \in Sockets, NEW f \in Sockets, NEW m \in Methods, NEW q \in Requests, NEW w, NEW v,
         InStep(n, f, m, q, w, v), n.at = "method", Ready(n)
  PROVE  /\ Asking(n) \in Sockets /\ Gets(f, q) \in Sockets
         /\ InStep(Asking(n), Gets(f, q), m, q, w, v)
         /\ Onward(n, f, Asking(n), Gets(f, q)) /\ Unbroken(n, f, Asking(n), Gets(f, q))
         /\ NotLetIn(f, Gets(f, q))
<1> DEFINE n2 == Asking(n)
           f2 == Gets(f, q)
<1>1. /\ f.at = "head" /\ f.got = <<>> /\ In(f) = <<>> /\ n.got = <<>>
      /\ Left(n) \in Words /\ Left(n) ++ n.net = <<>>
  BY ClientMethod
<1>2. n.mode = ModeOf(n.at) /\ f.mode = ModeOf(f.at)
  BY DEF InStep
<1>3. Becomes(n, n2, "head", n.mode, n.seen)
  BY <1>1, Goings
<1>4. q \in Words /\ <<>> ++ q = q
  BY Asks, NoWords
<1>5. /\ f2 \in Sockets /\ In(f2) = q /\ f2.at = f.at /\ f2.mode = f.mode /\ f2.got = f.got
  BY <1>1, <1>4, GetsMeans
<1> HIDE DEF n2, f2
<1>6. n2 \in Sockets /\ n2.at = "head" /\ n2.mode = n.mode /\ n2.got = n.got /\ In(n2) = <<>>
  BY <1>1, <1>3 DEF Becomes
<1>7. n2.mode = ModeOf(n2.at) /\ f2.mode = ModeOf(f2.at)
  BY <1>2, <1>5, <1>6 DEF ModeOf
<1>8. Asked(n2, f2, q)
  BY <1>1, <1>5, <1>6 DEF Asked
<1>9. InStep(n2, f2, m, q, w, v)
  BY <1>7, <1>8 DEF InStep
<1>10. Onward(n, f, n2, f2) /\ Unbroken(n, f, n2, f2) /\ NotLetIn(f, f2)
  BY <1>1, <1>5, <1>6 DEF Onward, Unbroken, NotLetIn, Attaching
<1> QED
  BY <1>5, <1>6, <1>9, <1>10 DEF n2, f2

LEMMA HeadStep ==
  ASSUME NEW n \in Sockets, NEW f \in Sockets, NEW m \in Methods, NEW q, NEW w \in Words, NEW v,
         InStep(n, f, m, q, w, v), n.at = "head", Ready(n)
  PROVE  /\ HalfRead(n) \in Sockets
         /\ InStep(HalfRead(n), f, m, q, w, v)
         /\ Onward(n, f, HalfRead(n), f) /\ Unbroken(n, f, HalfRead(n), f) /\ NotLetIn(f, f)
<1> DEFINE n2 == HalfRead(n)
<1>1. /\ Left(n) \in Words
      /\ \/ /\ Answered(n, f, w, v) /\ Taken(n) = First(Granted)
            /\ Left(n) ++ n.net = Rest(Granted) ++ w
         \/ /\ Turned(n, f) /\ Taken(n) = First(Refusal)
            /\ Left(n) ++ n.net = Rest(Refusal) ++ <<Fin>>
  BY ClientHead
<1>2. n.mode = ModeOf(n.at) /\ f.mode = ModeOf(f.at)
  BY DEF InStep
<1>3. Taken(n) \in Words
  BY <1>1, Replies, Halves
<1>4. Becomes(n, n2, "rest", n.mode, Taken(n))
  BY <1>1, <1>3, Goings
<1> HIDE DEF n2
<1>5. /\ n2 \in Sockets /\ n2.at = "rest" /\ n2.mode = n.mode /\ n2.got = n.got
      /\ In(n2) = Left(n) ++ n.net /\ n2.seen = Taken(n)
  BY <1>4 DEF Becomes
<1>6. n2.mode = ModeOf(n2.at)
  BY <1>2, <1>5 DEF ModeOf
<1>7. Answered(n2, f, w, v) \/ Turned(n2, f)
  BY <1>1, <1>5 DEF Answered, Turned
<1>8. InStep(n2, f, m, q, w, v)
  BY <1>2, <1>6, <1>7 DEF InStep
<1>9. Onward(n, f, n2, f) /\ Unbroken(n, f, n2, f) /\ NotLetIn(f, f)
  BY <1>5 DEF Onward, Unbroken, NotLetIn, Attaching
<1> QED
  BY <1>5, <1>8, <1>9 DEF n2

LEMMA RestStep ==
  ASSUME NEW n \in Sockets, NEW f \in Sockets, NEW m \in Methods, NEW q, NEW w \in Words, NEW v,
         InStep(n, f, m, q, w, v), n.at = "rest", Ready(n), parseConnectReply(n.seen ++ Taken(n)),
         NEW n2 \in {Activating(n), Attached(release(n, Left(n)))}
  PROVE  /\ n2 \in Sockets
         /\ InStep(n2, f, m, q, w, v)
         /\ Onward(n, f, n2, f) /\ Unbroken(n, f, n2, f) /\ NotLetIn(f, f)
         /\ n2.at \in {"activating", "open"}
<1>1. Answered(n, f, w, v) /\ Left(n) ++ n.net = w /\ Left(n) \in Words
  <2>1. Refusal[2] # Success
    BY Replies
  <2>2. n.seen ++ Taken(n) # Refusal
    BY <2>1 DEF parseConnectReply
  <2> QED
    BY <2>2, ClientRest
<1>2. n.got = <<>> /\ f.at \in {"claimed", "open", "ended"} /\ Holds(f, v)
  BY <1>1 DEF Answered
<1>3. f.mode = ModeOf(f.at)
  BY DEF InStep
<1>4. Becomes(n, n2, "activating", "paused", <<>>) \/ Becomes(n, n2, "open", "stream", <<>>)
  BY <1>1, Goings
<1>5. /\ n2 \in Sockets /\ n2.at \in {"activating", "open"} /\ n2.mode = ModeOf(n2.at)
      /\ n2.got = <<>> /\ In(n2) = w
  BY <1>1, <1>2, <1>4 DEF Becomes, ModeOf
<1>6. Holds(n2, w)
  BY <1>5, NoWords DEF Holds
<1>7. InStep(n2, f, m, q, w, v)
  BY <1>2, <1>3, <1>5, <1>6 DEF InStep, Joined
<1>8. Onward(n, f, n2, f) /\ Unbroken(n, f, n2, f) /\ NotLetIn(f, f)
  BY <1>2, <1>5 DEF Onward, Unbroken, NotLetIn, Attaching
<1> QED
  BY <1>5, <1>7, <1>8

(* A handshake throws only at an end that is refused, or shown a method it *)
(* does not know: no near end gives up what the far end has granted.       *)
LEMMA ThrowStep ==
  ASSUME NEW n \in Sockets, NEW f \in Sockets, NEW m \in Methods, NEW q, NEW w \in Words, NEW v,
         InStep(n, f, m, q, w, v), n.mode = "reader", Ready(n), ~Acceptable(n, Taken(n)),
         NEW x \in {<<>>, <<Fin>>}
  PROVE  /\ Failed(n) \in Sockets /\ Gets(f, x) \in Sockets
         /\ InStep(Failed(n), Gets(f, x), m, q, w, v)
         /\ Onward(n, f, Failed(n), Gets(f, x)) /\ Unbroken(n, f, Failed(n), Gets(f, x))
         /\ NotLetIn(f, Gets(f, x))
<1> DEFINE n2 == Failed(n)
           f2 == Gets(f, x)
<1>1. n.mode = ModeOf(n.at) /\ f.mode = ModeOf(f.at)
  BY DEF InStep
<1>2. n.at \in {"method", "head", "rest"}
  BY <1>1 DEF InStep, ModeOf, Unborn, Closed, Greeted, Asked, Answered, Joined, Turned, Lost
<1>3. \/ f.at = "head" /\ In(f) = <<>>
      \/ f.at = "failed"
  <2>1. CASE n.at = "method"
    BY <2>1, ClientMethod
  <2>2. CASE n.at = "head"
    BY <2>2, ClientHead DEF Acceptable
  <2>3. CASE n.at = "rest"
    <3>1. ~parseConnectReply(n.seen ++ Taken(n))
      BY <2>3 DEF Acceptable, ++
    <3>2. parseConnectReply(Granted)
      BY Replies DEF parseConnectReply
    <3>3. Turned(n, f)
      BY <2>3, <3>1, <3>2, ClientRest
    <3> QED
      BY <3>3 DEF Turned
  <2> QED
    BY <1>2, <2>1, <2>2, <2>3
<1>4. x \in Words /\ Len(x) <= 1 /\ <<>> ++ x = x
  BY Grants, NoWords
<1>5. /\ f2 \in Sockets /\ In(f2) = In(f) ++ x /\ f2.at = f.at /\ f2.mode = f.mode
  BY <1>4, GetsMeans
<1>6. n2 \in Sockets /\ n2.at = "failed" /\ n2.mode = "off"
  BY DEF Failed, Sockets
<1> HIDE DEF n2, f2
<1>7. Lost(n2, f2)
  BY <1>3, <1>4, <1>5, <1>6 DEF Lost
<1>8. InStep(n2, f2, m, q, w, v)
  BY <1>1, <1>5, <1>6, <1>7 DEF InStep, ModeOf
<1>9. Onward(n, f, n2, f2) /\ Unbroken(n, f, n2, f2) /\ NotLetIn(f, f2)
  BY <1>2, <1>5, <1>6 DEF Onward, Unbroken, NotLetIn, Attaching
<1> QED
  BY <1>5, <1>6, <1>8, <1>9 DEF n2, f2

LEMMA HangupStep ==
  ASSUME NEW n \in Sockets, NEW f \in Sockets, NEW m \in Methods, NEW q, NEW w \in Words, NEW v,
         InStep(n, f, m, q, w, v), n.mode = "reader", ~Ready(n), n.net = <<Fin>>,
         NEW x \in {<<>>, <<Fin>>}
  PROVE  /\ Failed(n) \in Sockets /\ Gets(f, x) \in Sockets
         /\ InStep(Failed(n), Gets(f, x), m, q, w, v)
         /\ Onward(n, f, Failed(n), Gets(f, x)) /\ Unbroken(n, f, Failed(n), Gets(f, x))
         /\ NotLetIn(f, Gets(f, x))
<1> DEFINE n2 == Failed(n)
           f2 == Gets(f, x)
           b  == n.buf
<1>1. n.mode = ModeOf(n.at) /\ f.mode = ModeOf(f.at)
  BY DEF InStep
<1>2. n.at \in {"method", "head", "rest"}
  BY <1>1 DEF InStep, ModeOf, Unborn, Closed, Greeted, Asked, Answered, Joined, Turned, Lost
<1>3. /\ b \in Words /\ Len(b) \in Nat /\ <<Fin>> \in Words /\ Len(<<Fin>>) = 1 /\ <<Fin>>[1] = Fin
      /\ In(n) = b ++ <<Fin>>
  BY Fields, Grants, LenProperties DEF In, Words
<1>4. Len(In(n)) = Len(b) + 1 /\ In(n)[Len(b) + 1] = Fin
  <2>1. /\ Len(b ++ <<Fin>>) = Len(b) + Len(<<Fin>>)
        /\ \A i \in 1..Len(<<Fin>>) : (b ++ <<Fin>>)[Len(b) + i] = <<Fin>>[i]
    BY <1>3, Joins
  <2> QED
    BY <2>1, <1>3
<1>5. n.mode = "reader" => ~(Len(b) >= Needs(n))
  BY DEF Ready, Reading
<1> HIDE DEF b
<1>6. In(n) # <<>>
  <2>1. Len(In(n)) # Len(<<>>)
    BY <1>3, <1>4
  <2> QED
    BY <2>1, Zenon
<1>7. f.at = "failed"
  <2>1. n.at = "method" => ~Greeted(n, f, m)
    <3> SUFFICES ASSUME n.at = "method", Greeted(n, f, m) PROVE FALSE
      OBVIOUS
    <3>1. In(n) = m
      BY <1>6 DEF Greeted
    <3>2. m \in Words /\ Len(m) = 2 /\ m[2] < Fin
      BY Grants
    <3>3. Len(b) + 1 = 2 /\ m[2] = Fin
      BY <1>3, <1>4, <3>1, <3>2
    <3> QED
      BY <3>2, <3>3 DEF Fin
  <2>2. ~Answered(n, f, w, v)
    <3> SUFFICES ASSUME Answered(n, f, w, v) PROVE FALSE
      OBVIOUS
    <3>1. /\ Granted \in Words /\ Len(Granted) = 8 /\ \A i \in 1..8 : Granted[i] < Fin
          /\ Granted[5] = 1
      BY Replies
    <3>2. /\ Rest(Granted) \in Words /\ Len(Rest(Granted)) = 3
          /\ \A i \in 1..3 : Rest(Granted)[i] = Granted[i + 5]
          /\ First(Granted)[5] = 1
      BY <3>1, Halves
    <3> DEFINE h == IF n.at = "head" THEN Granted ELSE Rest(Granted)
               k == IF n.at = "head" THEN 8 ELSE 3
    <3>3. h \in Words /\ Len(h) = k /\ k \in {3, 8} /\ h[k] < Fin /\ In(n) = h ++ w
      <4>1. CASE n.at = "head"
        BY <4>1, <3>1 DEF Answered
      <4>2. CASE n.at = "rest"
        <5>1. h = Rest(Granted) /\ k = 3
          BY <4>2
        <5>2. In(n) = Rest(Granted) ++ w
          BY <4>2 DEF Answered
        <5>3. Rest(Granted)[3] = Granted[8] /\ Granted[8] < Fin
          <6>1. 3 \in 1..3 /\ 3 + 5 = 8 /\ 8 \in 1..8
            OBVIOUS
          <6> QED
            BY <6>1, <3>1, <3>2
        <5> QED
          BY <5>1, <5>2, <5>3, <3>1, <3>2
      <4> QED
        BY <4>1, <4>2 DEF Answered
    <3>4. Needs(n) <= k
      <4>1. n.at = "head" \/ (n.at = "rest" /\ n.seen[5] = 1)
        BY <3>2 DEF Answered
      <4> QED
        BY <4>1, NeedsOf
    <3> HIDE DEF h, k
    <3>5. /\ Len(h ++ w) = Len(h) + Len(w) /\ Len(w) \in Nat
          /\ \A i \in 1..Len(h) : (h ++ w)[i] = h[i]
      BY <3>3, Joins, LenProperties DEF Words
    <3>6. Len(b) + 1 = k + Len(w) /\ (h ++ w)[k] = h[k] /\ (h ++ w)[Len(b) + 1] = Fin
      BY <1>4, <3>3, <3>5
    <3>7. Needs(n) \in Nat
      BY NeedsOf, <3>2 DEF Answered
    <3>8. Len(w) = 0
      BY <1>3, <1>5, <3>3, <3>4, <3>5, <3>6, <3>7
    <3>9. h[k] = Fin
      BY <1>3, <3>3, <3>6, <3>8
    <3> QED
      BY <3>3, <3>9 DEF Fin
  <2>3. ~Asked(n, f, q)
    BY <1>6 DEF Asked
  <2>4. Turned(n, f)
    BY <1>2, <2>1, <2>2, <2>3 DEF InStep, Unborn, Closed, Greeted, Joined, Lost
  <2> QED
    BY <2>4 DEF Turned
<1>8. x \in Words
  BY Grants, NoWords
<1>9. f2 \in Sockets /\ f2.at = f.at /\ f2.mode = f.mode
  BY <1>8, GetsMeans
<1>10. n2 \in Sockets /\ n2.at = "failed" /\ n2.mode = "off"
  BY DEF Failed, Sockets
<1> HIDE DEF n2, f2
<1>11. Lost(n2, f2)
  BY <1>7, <1>9, <1>10 DEF Lost
<1>12. InStep(n2, f2, m, q, w, v)
  BY <1>1, <1>9, <1>10, <1>11 DEF InStep, ModeOf
<1>13. Onward(n, f, n2, f2) /\ Unbroken(n, f, n2, f2) /\ NotLetIn(f, f2)
  BY <1>2, <1>7, <1>9, <1>10 DEF Onward, Unbroken, NotLetIn, Attaching
<1> QED
  BY <1>9, <1>10, <1>12, <1>13 DEF n2, f2

LEMMA GreetingStep ==
  ASSUME NEW n \in Sockets, NEW f \in Sockets, NEW m, NEW q, NEW w, NEW v,
         InStep(n, f, m, q, w, v), f.at = "hello", Ready(f)
  PROVE  /\ Choosing(f) \in Sockets /\ InStep(n, Choosing(f), m, q, w, v)
         /\ Onward(n, f, n, Choosing(f)) /\ Unbroken(n, f, n, Choosing(f)) /\ NotLetIn(f, Choosing(f))
<1> DEFINE f2 == Choosing(f)
<1>1. /\ Greeted(n, f, m) /\ In(n) = <<>>
      /\ Taken(f) = <<Version, 1>> /\ Left(f) \in Words /\ Left(f) ++ f.net = <<NoAuth>>
  BY ServerHello
<1>2. n.mode = ModeOf(n.at) /\ f.mode = ModeOf(f.at)
  BY DEF InStep
<1>3. Becomes(f, f2, "methods", f.mode, Taken(f))
  BY <1>1, Goings, Grants
<1> HIDE DEF f2
<1>4. /\ f2 \in Sockets /\ f2.at = "methods" /\ f2.mode = f.mode /\ f2.got = f.got
      /\ f2.seen = <<Version, 1>> /\ In(f2) = <<NoAuth>>
  BY <1>1, <1>3 DEF Becomes
<1>5. f2.mode = ModeOf(f2.at)
  BY <1>2, <1>4 DEF ModeOf
<1>6. Greeted(n, f2, m)
  BY <1>1, <1>4 DEF Greeted
<1>7. InStep(n, f2, m, q, w, v)
  BY <1>2, <1>5, <1>6 DEF InStep
<1>8. Onward(n, f, n, f2) /\ Unbroken(n, f, n, f2) /\ NotLetIn(f, f2)
  BY <1>1, <1>4 DEF Greeted, Onward, Unbroken, NotLetIn, Attaching
<1> QED
  BY <1>4, <1>7, <1>8 DEF f2

LEMMA MethodsStep ==
  ASSUME NEW n \in Sockets, NEW f \in Sockets, NEW m \in Methods, NEW q, NEW w, NEW v,
         InStep(n, f, m, q, w, v), f.at = "methods", Ready(f)
  PROVE  /\ Granting(f) \in Sockets /\ Gets(n, m) \in Sockets
         /\ InStep(Gets(n, m), Granting(f), m, q, w, v)
         /\ Onward(n, f, Gets(n, m), Granting(f)) /\ Unbroken(n, f, Gets(n, m), Granting(f))
         /\ NotLetIn(f, Granting(f))
<1> DEFINE f2 == Granting(f)
           n2 == Gets(n, m)
<1>1. /\ Greeted(n, f, m) /\ In(n) = <<>> /\ Left(f) \in Words /\ Left(f) ++ f.net = <<>>
  BY ServerMethods
<1>2. n.mode = ModeOf(n.at) /\ f.mode = ModeOf(f.at)
  BY DEF InStep
<1>3. Becomes(f, f2, "head", f.mode, <<>>)
  BY <1>1, Goings
<1>4. m \in Words /\ <<>> ++ m = m
  BY Grants, NoWords
<1>5. n2 \in Sockets /\ In(n2) = m /\ n2.at = n.at /\ n2.mode = n.mode /\ n2.got = n.got
  BY <1>1, <1>4, GetsMeans
<1> HIDE DEF f2, n2
<1>6. /\ f2 \in Sockets /\ f2.at = "head" /\ f2.mode = f.mode /\ f2.got = f.got /\ In(f2) = <<>>
  BY <1>1, <1>3 DEF Becomes
<1>7. f2.mode = ModeOf(f2.at) /\ n2.mode = ModeOf(n2.at)
  <2>1. f.mode = "reader"
    BY DEF Ready, Reading
  <2> QED
    BY <2>1, <1>2, <1>5, <1>6 DEF ModeOf
<1>8. Greeted(n2, f2, m)
  BY <1>1, <1>5, <1>6 DEF Greeted
<1>9. InStep(n2, f2, m, q, w, v)
  BY <1>7, <1>8 DEF InStep
<1>10. Onward(n, f, n2, f2) /\ Unbroken(n, f, n2, f2) /\ NotLetIn(f, f2)
  BY <1>1, <1>5, <1>6 DEF Greeted, Onward, Unbroken, NotLetIn, Attaching
<1> QED
  BY <1>5, <1>6, <1>9, <1>10 DEF f2, n2

LEMMA RequestStep ==
  ASSUME NEW n \in Sockets, NEW f \in Sockets, NEW m, NEW q \in Requests, NEW w, NEW v,
         InStep(n, f, m, q, w, v), f.at = "head", Ready(f)
  PROVE  /\ HalfRead(f) \in Sockets /\ InStep(n, HalfRead(f), m, q, w, v)
         /\ Onward(n, f, n, HalfRead(f)) /\ Unbroken(n, f, n, HalfRead(f)) /\ NotLetIn(f, HalfRead(f))
<1> DEFINE f2 == HalfRead(f)
<1>1. /\ Asked(n, f, q) /\ Taken(f) = First(q) /\ Left(f) \in Words /\ Left(f) ++ f.net = Rest(q)
  BY ServerHead
<1>2. n.mode = ModeOf(n.at) /\ f.mode = ModeOf(f.at)
  BY DEF InStep
<1>3. Taken(f) \in Words
  BY <1>1, Asks, Halves
<1>4. Becomes(f, f2, "rest", f.mode, Taken(f))
  BY <1>1, <1>3, Goings
<1> HIDE DEF f2
<1>5. /\ f2 \in Sockets /\ f2.at = "rest" /\ f2.mode = f.mode /\ f2.got = f.got
      /\ f2.seen = First(q) /\ In(f2) = Rest(q)
  BY <1>1, <1>4 DEF Becomes
<1>6. f2.mode = ModeOf(f2.at)
  BY <1>2, <1>5 DEF ModeOf
<1>7. Asked(n, f2, q)
  BY <1>1, <1>5 DEF Asked
<1>8. InStep(n, f2, m, q, w, v)
  BY <1>2, <1>6, <1>7 DEF InStep
<1>9. Onward(n, f, n, f2) /\ Unbroken(n, f, n, f2) /\ NotLetIn(f, f2)
  BY <1>1, <1>5 DEF Asked, Onward, Unbroken, NotLetIn, Attaching
<1> QED
  BY <1>5, <1>8, <1>9 DEF f2

LEMMA WelcomeStep ==
  ASSUME NEW n \in Sockets, NEW f \in Sockets, NEW m, NEW q \in Requests,
         InStep(n, f, m, q, <<>>, <<>>), f.at = "rest", Ready(f)
  PROVE  /\ Claiming(f) \in Sockets /\ Gets(n, Granted) \in Sockets
         /\ InStep(Gets(n, Granted), Claiming(f), m, q, <<>>, <<>>)
         /\ Onward(n, f, Gets(n, Granted), Claiming(f)) /\ Unbroken(n, f, Gets(n, Granted), Claiming(f))
         /\ Claiming(f).at = "claimed"
<1> DEFINE f2 == Claiming(f)
           n2 == Gets(n, Granted)
<1>1. Asked(n, f, q) /\ Left(f) \in Words /\ Left(f) ++ f.net = <<>>
  BY ServerRest
<1>2. n.mode = ModeOf(n.at) /\ f.mode = ModeOf(f.at)
  BY DEF InStep
<1>3. n.at = "head" /\ n.got = <<>> /\ f.got = <<>> /\ In(n) = <<>>
  BY <1>1 DEF Asked
<1>4. Becomes(f, f2, "claimed", "paused", <<>>)
  BY <1>1, Goings
<1>5. Granted \in Words /\ <<>> ++ Granted = Granted /\ Granted ++ <<>> = Granted /\ <<>> \in Words
  BY Replies, NoWords
<1>6. n2 \in Sockets /\ In(n2) = Granted ++ <<>> /\ n2.at = n.at /\ n2.mode = n.mode /\ n2.got = n.got
  BY <1>3, <1>5, GetsMeans
<1> HIDE DEF f2, n2
<1>7. /\ f2 \in Sockets /\ f2.at = "claimed" /\ f2.mode = "paused" /\ f2.got = <<>> /\ In(f2) = <<>>
  BY <1>1, <1>3, <1>4 DEF Becomes
<1>8. f2.mode = ModeOf(f2.at) /\ n2.mode = ModeOf(n2.at)
  BY <1>2, <1>6, <1>7 DEF ModeOf
<1>9. Holds(f2, <<>>)
  BY <1>5, <1>7, NoWords DEF Holds
<1>10. Answered(n2, f2, <<>>, <<>>)
  BY <1>3, <1>6, <1>7, <1>9 DEF Answered
<1>11. InStep(n2, f2, m, q, <<>>, <<>>)
  BY <1>8, <1>10 DEF InStep
<1>12. Onward(n, f, n2, f2) /\ Unbroken(n, f, n2, f2)
  BY <1>3, <1>6, <1>7 DEF Onward, Unbroken, Attaching
<1> QED
  BY <1>6, <1>7, <1>11, <1>12 DEF f2, n2

LEMMA RefuseStep ==
  ASSUME NEW n \in Sockets, NEW f \in Sockets, NEW m, NEW q \in Requests, NEW w, NEW v,
         InStep(n, f, m, q, w, v), f.at = "rest", Ready(f),
         NEW r \in {<<>>, Refusal}
  PROVE  /\ Failed(f) \in Sockets /\ Gets(n, r ++ <<Fin>>) \in Sockets
         /\ InStep(Gets(n, r ++ <<Fin>>), Failed(f), m, q, w, v)
         /\ Onward(n, f, Gets(n, r ++ <<Fin>>), Failed(f)) /\ Unbroken(n, f, Gets(n, r ++ <<Fin>>), Failed(f))
         /\ NotLetIn(f, Failed(f))
<1> DEFINE f2 == Failed(f)
           x  == r ++ <<Fin>>
           n2 == Gets(n, x)
<1>1. Asked(n, f, q)
  BY ServerRest
<1>2. n.mode = ModeOf(n.at) /\ f.mode = ModeOf(f.at)
  BY DEF InStep
<1>3. n.at = "head" /\ In(n) = <<>>
  BY <1>1 DEF Asked
<1>4. /\ x \in Words /\ <<>> ++ x = x /\ (x = <<Fin>> \/ x = Refusal ++ <<Fin>>)
  <2>1. <<Fin>> \in Words /\ Refusal \in Words /\ <<>> \in Words /\ <<>> ++ <<Fin>> = <<Fin>>
    BY Grants, Replies, NoWords
  <2>2. r \in Words /\ x \in Words
    BY <2>1, Joins
  <2> QED
    BY <2>1, <2>2, NoWords
<1> HIDE DEF x
<1>5. n2 \in Sockets /\ In(n2) = x /\ n2.at = n.at /\ n2.mode = n.mode
  BY <1>3, <1>4, GetsMeans
<1>6. f2 \in Sockets /\ f2.at = "failed" /\ f2.mode = "off"
  BY DEF Failed, Sockets
<1> HIDE DEF f2, n2
<1>7. f2.mode = ModeOf(f2.at) /\ n2.mode = ModeOf(n2.at)
  BY <1>2, <1>5, <1>6 DEF ModeOf
<1>8. Turned(n2, f2)
  BY <1>3, <1>4, <1>5, <1>6 DEF Turned
<1>9. InStep(n2, f2, m, q, w, v)
  BY <1>7, <1>8 DEF InStep
<1>10. Onward(n, f, n2, f2) /\ Unbroken(n, f, n2, f2) /\ NotLetIn(f, f2)
  BY <1>3, <1>5, <1>6 DEF Onward, Unbroken, NotLetIn, Attaching
<1> QED
  BY <1>5, <1>6, <1>9, <1>10 DEF f2, n2, x

(* A connection begins, is given to the program, breaks.                   *)

Greeter  == [Closed EXCEPT !.at = "method", !.mode = "reader"]
Listener == [Closed EXCEPT !.at = "hello", !.mode = "reader", !.net = buildGreeting]

LEMMA DialStep ==
  ASSUME NEW n \in Sockets, NEW f \in Sockets, NEW m, NEW q, NEW w, NEW v,
         InStep(n, f, m, q, w, v), n.at = "idle"
  PROVE  /\ Unborn(n, f)
         /\ Greeter \in Sockets /\ Listener \in Sockets /\ InStep(Greeter, Listener, m, q, w, v)
         /\ Greeter.at = "method" /\ Listener.at = "hello"
         /\ \A x \in {<<>>, <<Fin>>} :
              /\ Failed(n) \in Sockets /\ Gets(f, x) \in Sockets
              /\ InStep(Failed(n), Gets(f, x), m, q, w, v)
              /\ Failed(n).at = "failed" /\ Gets(f, x).at = "idle"
<1>1. Unborn(n, f)
  BY DEF InStep, Greeted, Asked, Answered, Joined, Turned, Lost
<1>2. /\ Greeter.at = "method" /\ Greeter.mode = "reader" /\ Greeter.got = <<>>
      /\ Greeter.buf = <<>> /\ Greeter.net = <<>> /\ Greeter.seen = <<>>
  BY DEF Greeter, Closed
<1>3. /\ Listener.at = "hello" /\ Listener.mode = "reader" /\ Listener.got = <<>>
      /\ Listener.buf = <<>> /\ Listener.net = buildGreeting /\ Listener.seen = <<>>
  BY DEF Listener, Closed
<1>4. <<>> \in Words /\ buildGreeting \in Words /\ <<Fin>> \in Words
  BY Grants, NoWords
<1>5. Greeter \in Sockets /\ Listener \in Sockets
  BY <1>4 DEF Greeter, Listener, Closed, Sockets
<1>6. In(Greeter) = <<>> /\ In(Listener) = buildGreeting
  BY <1>2, <1>3, <1>4, NoWords DEF In
<1>7. Greeted(Greeter, Listener, m)
  BY <1>2, <1>3, <1>6 DEF Greeted
<1>8. InStep(Greeter, Listener, m, q, w, v)
  BY <1>2, <1>3, <1>7 DEF InStep, ModeOf
<1>9. ASSUME NEW x \in {<<>>, <<Fin>>}
      PROVE  /\ Failed(n) \in Sockets /\ Gets(f, x) \in Sockets
             /\ InStep(Failed(n), Gets(f, x), m, q, w, v)
             /\ Failed(n).at = "failed" /\ Gets(f, x).at = "idle"
  <2> DEFINE n2 == Failed(n)
             f2 == Gets(f, x)
  <2>1. n2 \in Sockets /\ n2.at = "failed" /\ n2.mode = "off"
    BY DEF Failed, Sockets
  <2>2. f.at = "idle" /\ f.mode = "off"
    BY <1>1 DEF Unborn, Closed
  <2>3. f2 \in Sockets /\ f2.at = "idle" /\ f2.mode = "off"
    BY <1>4, <2>2, GetsMeans
  <2> HIDE DEF n2, f2
  <2>4. Lost(n2, f2)
    BY <2>1, <2>3 DEF Lost
  <2>5. InStep(n2, f2, m, q, w, v)
    BY <2>1, <2>3, <2>4 DEF InStep, ModeOf
  <2> QED
    BY <2>1, <2>3, <2>5 DEF n2, f2
<1> QED
  BY <1>1, <1>2, <1>3, <1>5, <1>8, <1>9

LEMMA AttachedMeans ==
  ASSUME NEW s \in Sockets
  PROVE  /\ Attached(s) \in Sockets /\ Attached(s).at = "open" /\ Attached(s).mode = "stream"
         /\ Attached(s).got = s.got /\ In(Attached(s)) = In(s)
<1> DEFINE t == Attached(s)
<1>1. t.at = "open" /\ t.mode = "stream" /\ t.got = s.got /\ t.buf = s.buf /\ t.net = s.net
  BY DEF Attached, Sockets
<1>2. t \in Sockets
  BY DEF Attached, Sockets
<1> QED
  BY <1>1, <1>2 DEF In

(* openChosen() attaches a stream to the connection that was claimed. *)
LEMMA AcceptedStep ==
  ASSUME NEW n \in Sockets, NEW f \in Sockets, NEW m, NEW q, NEW w, NEW v,
         InStep(n, f, m, q, w, v), f.at = "claimed"
  PROVE  Attached(f) \in Sockets /\ InStep(n, Attached(f), m, q, w, v) /\ Attached(f).at = "open"
<1> DEFINE f2 == Attached(f)
<1>1. f2 \in Sockets /\ f2.at = "open" /\ f2.mode = "stream" /\ f2.got = f.got /\ In(f2) = In(f)
  BY AttachedMeans
<1> HIDE DEF f2
<1>2. n.mode = ModeOf(n.at) /\ f2.mode = ModeOf(f2.at)
  BY <1>1 DEF InStep, ModeOf
<1>3. Answered(n, f, w, v) \/ Joined(n, f, w, v)
  BY DEF InStep, Unborn, Closed, Greeted, Asked, Turned, Lost
<1>4. Holds(f, v) => Holds(f2, v)
  BY <1>1 DEF Holds
<1>5. Answered(n, f2, w, v) \/ Joined(n, f2, w, v)
  BY <1>1, <1>3, <1>4 DEF Answered, Joined
<1>6. InStep(n, f2, m, q, w, v)
  BY <1>2, <1>5 DEF InStep
<1> QED
  BY <1>1, <1>6 DEF f2

LEMMA ActivatedStep ==
  ASSUME NEW n \in Sockets, NEW f \in Sockets, NEW m, NEW q, NEW w, NEW v,
         InStep(n, f, m, q, w, v), n.at = "activating"
  PROVE  /\ Attached(n) \in Sockets /\ InStep(Attached(n), f, m, q, w, v)
         /\ Onward(n, f, Attached(n), f) /\ Unbroken(n, f, Attached(n), f) /\ NotLetIn(f, f)
<1> DEFINE n2 == Attached(n)
<1>1. n2 \in Sockets /\ n2.at = "open" /\ n2.mode = "stream" /\ n2.got = n.got /\ In(n2) = In(n)
  BY AttachedMeans
<1> HIDE DEF n2
<1>2. f.mode = ModeOf(f.at) /\ n2.mode = ModeOf(n2.at)
  BY <1>1 DEF InStep, ModeOf
<1>3. Joined(n, f, w, v)
  BY DEF InStep, Unborn, Closed, Greeted, Asked, Answered, Turned, Lost
<1>4. Holds(n, w) => Holds(n2, w)
  BY <1>1 DEF Holds
<1>5. Joined(n2, f, w, v)
  BY <1>1, <1>3, <1>4 DEF Joined
<1>6. InStep(n2, f, m, q, w, v)
  BY <1>2, <1>5 DEF InStep
<1>7. Onward(n, f, n2, f) /\ Unbroken(n, f, n2, f) /\ NotLetIn(f, f)
  BY <1>1 DEF Onward, Unbroken, NotLetIn, Attaching
<1> QED
  BY <1>1, <1>6, <1>7 DEF n2

LEMMA ResetStep ==
  ASSUME NEW n \in Sockets, NEW f \in Sockets, NEW m, NEW q, NEW w, NEW v,
         InStep(n, f, m, q, w, v), n.mode \in {"reader", "stream"}, f.mode \in {"reader", "stream"}
  PROVE  /\ Broken(n) \in Sockets /\ Broken(f) \in Sockets
         /\ InStep(Broken(n), Broken(f), m, q, w, v)
         /\ Onward(n, f, Broken(n), Broken(f)) /\ NotLetIn(f, Broken(f))
<1> DEFINE n2 == Broken(n)
           f2 == Broken(f)
<1>1. <<>> \in Words
  BY Fields, NoWords
<1>2. /\ n2 \in Sockets
      /\ n2.at = IF n.mode = "reader" THEN "failed" ELSE "errored"
      /\ n2.mode = "off"
  <2>1. CASE n.mode = "reader"
    BY <1>1, <2>1 DEF Broken, Failed, Sockets
  <2>2. CASE n.mode # "reader"
    BY <1>1, <2>2 DEF Broken, Sockets
  <2> QED
    BY <2>1, <2>2
<1>3. /\ f2 \in Sockets
      /\ f2.at = IF f.mode = "reader" THEN "failed" ELSE "errored"
      /\ f2.mode = "off"
  <2>1. CASE f.mode = "reader"
    BY <1>1, <2>1 DEF Broken, Failed, Sockets
  <2>2. CASE f.mode # "reader"
    BY <1>1, <2>2 DEF Broken, Sockets
  <2> QED
    BY <2>1, <2>2
<1> HIDE DEF n2, f2
<1>4. n.mode = ModeOf(n.at) /\ f.mode = ModeOf(f.at)
  BY DEF InStep
<1>5. \/ n.mode = "reader" /\ n.at \in {"method", "head", "rest"} /\ f.mode = "reader" /\ f.at \in {"hello", "methods", "head", "rest"}
      \/ n.mode = "reader" /\ n.at \in {"head", "rest"} /\ f.mode = "stream" /\ f.at = "open"
      \/ n.mode = "stream" /\ n.at = "open" /\ f.mode = "stream" /\ f.at = "open"
  BY <1>4 DEF InStep, ModeOf, Unborn, Closed, Greeted, Asked, Answered, Joined, Turned, Lost
<1>6. Lost(n2, f2) \/ Joined(n2, f2, w, v)
  BY <1>2, <1>3, <1>5 DEF Lost, Joined, Holds
<1>7. InStep(n2, f2, m, q, w, v)
  BY <1>2, <1>3, <1>6 DEF InStep, ModeOf
<1>8. Onward(n, f, n2, f2) /\ NotLetIn(f, f2)
  BY <1>2, <1>3, <1>5 DEF Onward, NotLetIn, Attaching
<1> QED
  BY <1>2, <1>3, <1>7, <1>8 DEF n2, f2

-----------------------------------------------------------------------------
(* One word more is written towards an end that may be used.               *)

LEMMA MoreHeld ==
  ASSUME NEW s \in Sockets, NEW w \in Words, NEW x \in Words, Holds(s, w), s.at # "ended"
  PROVE  Holds(Gets(s, x), w ++ x)
<1> DEFINE t == Gets(s, x)
<1>1. t.at = s.at /\ t.got = s.got /\ In(t) = In(s) ++ x
  BY GetsMeans
<1>2. s.got \in Words /\ In(s) \in Words
  BY Fields
<1>3. s.got ++ (In(s) ++ x) = (s.got ++ In(s)) ++ x
  BY <1>2, Grouped
<1> HIDE DEF t
<1>4. Holds(t, w ++ x)
  BY <1>1, <1>3 DEF Holds
<1> QED
  BY <1>4 DEF t

(* ... towards the near end: *)
LEMMA WriteNearStep ==
  ASSUME NEW n \in Sockets, NEW f \in Sockets, NEW m, NEW q, NEW w \in Words, NEW v,
         InStep(n, f, m, q, w, v), NEW x \in Words,
         f.at = "open" \/ n.at \in {"activating", "open", "ended"},
         n.at = "ended" => n.got ++ <<Fin>> # w
  PROVE  Gets(n, x) \in Sockets /\ InStep(Gets(n, x), f, m, q, w ++ x, v)
<1> DEFINE n2 == Gets(n, x)
<1>1. /\ n2 \in Sockets /\ In(n2) = In(n) ++ x /\ n2.at = n.at /\ n2.mode = n.mode
      /\ n2.seen = n.seen /\ n2.got = n.got
  BY GetsMeans
<1>2. Answered(n, f, w, v) \/ Joined(n, f, w, v)
  BY DEF InStep, Unborn, Closed, Greeted, Asked, Turned, Lost
<1>3. n2.mode = ModeOf(n2.at) /\ f.mode = ModeOf(f.at)
  BY <1>1 DEF InStep
<1>4. CASE Answered(n, f, w, v)
  <2>1. Granted \in Words /\ Rest(Granted) \in Words
    BY Replies, Halves
  <2>2. /\ (Granted ++ w) ++ x = Granted ++ (w ++ x)
        /\ (Rest(Granted) ++ w) ++ x = Rest(Granted) ++ (w ++ x)
    BY <2>1, Grouped
  <2>3. Answered(n2, f, w ++ x, v)
    <3> HIDE DEF n2
    <3> QED
      BY <1>1, <1>4, <2>2 DEF Answered
  <2> QED
    BY <1>1, <1>3, <2>3 DEF InStep
<1>5. CASE Joined(n, f, w, v)
  <2>1. n.at # "ended" /\ Holds(n, w)
    BY <1>5 DEF Joined, Holds
  <2>2. Holds(n2, w ++ x)
    BY <2>1, MoreHeld
  <2>3. Joined(n2, f, w ++ x, v)
    <3> HIDE DEF n2
    <3> QED
      BY <1>1, <1>5, <2>2 DEF Joined
  <2> QED
    BY <1>1, <1>3, <2>3 DEF InStep
<1> QED
  BY <1>1, <1>2, <1>4, <1>5

(* ... towards the far end: *)
LEMMA WriteFarStep ==
  ASSUME NEW n \in Sockets, NEW f \in Sockets, NEW m, NEW q, NEW w, NEW v \in Words,
         InStep(n, f, m, q, w, v), NEW x \in Words, n.at = "open",
         f.at = "ended" => f.got ++ <<Fin>> # v
  PROVE  Gets(f, x) \in Sockets /\ InStep(n, Gets(f, x), m, q, w, v ++ x)
<1> DEFINE f2 == Gets(f, x)
<1>1. f2 \in Sockets /\ f2.at = f.at /\ f2.mode = f.mode
  BY GetsMeans
<1>2. Joined(n, f, w, v)
  BY DEF InStep, Unborn, Closed, Greeted, Asked, Answered, Turned, Lost
<1>3. f2.mode = ModeOf(f2.at) /\ n.mode = ModeOf(n.at)
  BY <1>1 DEF InStep
<1>4. f.at # "ended" /\ Holds(f, v)
  BY <1>2 DEF Joined, Holds
<1>5. Holds(f2, v ++ x)
  BY <1>4, MoreHeld
<1>6. Joined(n, f2, w, v ++ x)
  <2> HIDE DEF f2
  <2> QED
    BY <1>1, <1>2, <1>5 DEF Joined
<1> QED
  BY <1>1, <1>3, <1>6 DEF InStep

-----------------------------------------------------------------------------
(* From the two ends of one connection to the whole state.                 *)

AllEnds == [Conns -> [Ends -> Sockets]]

(* Only connection c is touched. *)
Only(c) == end' \in AllEnds /\ \A d \in Conns : d # c => Near(d)' = Near(d) /\ Far(d)' = Far(d)

LEMMA Puts ==
  ASSUME end \in AllEnds, NEW c \in Conns, NEW s \in Sockets
  PROVE  /\ Put(c, "near", s) => Only(c) /\ Near(c)' = s /\ Far(c)' = Far(c)
         /\ Put(c, "far", s) => Only(c) /\ Far(c)' = s /\ Near(c)' = Near(c)
<1>1. "near" \in Ends /\ "far" \in Ends
  BY DEF Ends
<1>2. ASSUME Put(c, "near", s) PROVE Only(c) /\ Near(c)' = s /\ Far(c)' = Far(c)
  <2>1. end' = [end EXCEPT ![c]["near"] = s]
    BY <1>2 DEF Put
  <2>2. end' \in AllEnds
    BY <1>1, <2>1 DEF AllEnds
  <2>3. /\ end'[c]["near"] = s /\ end'[c]["far"] = end[c]["far"]
        /\ \A d \in Conns : d # c => end'[d] = end[d]
    BY <1>1, <2>1 DEF AllEnds
  <2> QED
    BY <2>2, <2>3 DEF Only, Near, Far
<1>3. ASSUME Put(c, "far", s) PROVE Only(c) /\ Far(c)' = s /\ Near(c)' = Near(c)
  <2>1. end' = [end EXCEPT ![c]["far"] = s]
    BY <1>3 DEF Put
  <2>2. end' \in AllEnds
    BY <1>1, <2>1 DEF AllEnds
  <2>3. /\ end'[c]["far"] = s /\ end'[c]["near"] = end[c]["near"]
        /\ \A d \in Conns : d # c => end'[d] = end[d]
    BY <1>1, <2>1 DEF AllEnds
  <2> QED
    BY <2>2, <2>3 DEF Only, Near, Far
<1> QED
  BY <1>2, <1>3

LEMMA PutsAfter ==
  ASSUME end \in AllEnds, NEW c \in Conns, NEW s \in Sockets, NEW x \in Words
  PROVE  /\ PutAfter(c, "near", s, x) => Only(c) /\ Near(c)' = s /\ Far(c)' = Gets(Far(c), x)
         /\ PutAfter(c, "far", s, x) => Only(c) /\ Far(c)' = s /\ Near(c)' = Gets(Near(c), x)
<1>1. "near" \in Ends /\ "far" \in Ends /\ Other("near") = "far" /\ Other("far") = "near"
  BY DEF Ends, Other
<1>2. ASSUME PutAfter(c, "near", s, x)
      PROVE  Only(c) /\ Near(c)' = s /\ Far(c)' = Gets(Far(c), x)
  <2>1. end' = [end EXCEPT ![c]["near"] = s, ![c]["far"].net = @ ++ x]
    BY <1>1, <1>2 DEF PutAfter, ++
  <2>2. Gets(end[c]["far"], x) \in Sockets
    BY <1>1, GetsMeans DEF AllEnds
  <2>3. /\ end'[c]["near"] = s /\ end'[c]["far"] = Gets(end[c]["far"], x)
        /\ \A d \in Conns : d # c => end'[d] = end[d]
    BY <1>1, <2>1 DEF AllEnds, Gets
  <2>4. end' \in AllEnds
    <3>1. DOMAIN end' = Conns /\ DOMAIN end'[c] = Ends /\ end'[c] = [e \in Ends |-> end'[c][e]]
      BY <1>1, <2>1 DEF AllEnds
    <3>2. end'[c] \in [Ends -> Sockets]
      BY <2>2, <2>3, <3>1 DEF Ends
    <3>3. \A d \in Conns : end'[d] \in [Ends -> Sockets]
      BY <2>3, <3>2 DEF AllEnds
    <3>4. end' = [d \in Conns |-> end'[d]]
      BY <2>1 DEF AllEnds
    <3> QED
      BY <3>3, <3>4 DEF AllEnds
  <2> QED
    BY <2>3, <2>4 DEF Only, Near, Far
<1>3. ASSUME PutAfter(c, "far", s, x)
      PROVE  Only(c) /\ Far(c)' = s /\ Near(c)' = Gets(Near(c), x)
  <2>1. end' = [end EXCEPT ![c]["far"] = s, ![c]["near"].net = @ ++ x]
    BY <1>1, <1>3 DEF PutAfter, ++
  <2>2. Gets(end[c]["near"], x) \in Sockets
    BY <1>1, GetsMeans DEF AllEnds
  <2>3. /\ end'[c]["far"] = s /\ end'[c]["near"] = Gets(end[c]["near"], x)
        /\ \A d \in Conns : d # c => end'[d] = end[d]
    BY <1>1, <2>1 DEF AllEnds, Gets
  <2>4. end' \in AllEnds
    <3>1. DOMAIN end' = Conns /\ DOMAIN end'[c] = Ends /\ end'[c] = [e \in Ends |-> end'[c][e]]
      BY <1>1, <2>1 DEF AllEnds
    <3>2. end'[c] \in [Ends -> Sockets]
      BY <2>2, <2>3, <3>1 DEF Ends
    <3>3. \A d \in Conns : end'[d] \in [Ends -> Sockets]
      BY <2>3, <3>2 DEF AllEnds
    <3>4. end' = [d \in Conns |-> end'[d]]
      BY <2>1 DEF AllEnds
    <3> QED
      BY <3>3, <3>4 DEF AllEnds
  <2> QED
    BY <2>3, <2>4 DEF Only, Near, Far
<1> QED
  BY <1>2, <1>3

LEMMA EndsTyped ==
  ASSUME end \in AllEnds, NEW c \in Conns
  PROVE  Near(c) \in Sockets /\ Far(c) \in Sockets /\ \A e \in Ends : end[c][e] \in Sockets
BY DEF AllEnds, Near, Far, Ends

LEMMA FramesTyped ==
  ASSUME NEW c \in Conns
  PROVE  /\ MethodOf(c) \in Methods /\ Request(c) \in Requests
         /\ c \in {"proxy", "own"} => Request(c) = buildConnectRequest(TheDomain)
BY DEF MethodOf, buildMethodSelection, Methods, Request, Requests, Conns

LEMMA WordsCarried ==
  ASSUME Typed
  PROVE  /\ Written \in Words /\ Len(Written) = sent
         /\ sent = 0 => Written = <<>>
         /\ \A c \in Conns, e \in Ends : Carried(c, e) \in Words
<1>1. sent \in Nat /\ last \in Nat
  BY AdapterAssumption DEF Typed
<1>2. Written \in Words /\ Len(Written) = sent
  BY <1>1 DEF Written, Byte, Fin, Words
<1>3. sent = 0 => Written = <<>>
  BY <1>2, EmptySeq DEF Words
<1>4. \A c \in Conns, e \in Ends : Carried(c, e) \in Words
  BY <1>2, NoWords DEF Carried
<1> QED
  BY <1>2, <1>3, <1>4

LEMMA NoStep ==
  ASSUME NEW n, NEW f
  PROVE  Onward(n, f, n, f) /\ Unbroken(n, f, n, f) /\ NotLetIn(f, f)
BY DEF Onward, Unbroken, NotLetIn

AllOnward == \A c \in Conns : Onward(Near(c), Far(c), Near(c)', Far(c)')

LEMMA OnlyOnward ==
  ASSUME NEW c \in Conns, Only(c), Onward(Near(c), Far(c), Near(c)', Far(c)')
  PROVE  AllOnward
<1> SUFFICES ASSUME NEW d \in Conns PROVE Onward(Near(d), Far(d), Near(d)', Far(d)')
  BY DEF AllOnward
<1>1. CASE d = c
  BY <1>1
<1>2. CASE d # c
  BY <1>2, NoStep DEF Only
<1> QED
  BY <1>1, <1>2

LEMMA CarriedStays ==
  ASSUME Typed, setup' = setup, sent' = sent, last' = last, Used' = Used \/ sent = 0
  PROVE  \A c \in Conns, e \in Ends : Carried(c, e)' = Carried(c, e)
<1>1. Written' = Written
  BY DEF Written
<1>2. CASE Used' = Used
  <2>1. Target' = Target
    BY <1>2 DEF Target, HostEnd, DiallerEnd
  <2> QED
    BY <1>1, <2>1 DEF Carried
<1>3. CASE sent = 0
  <2>1. Written = <<>>
    BY <1>3, WordsCarried
  <2> QED
    BY <1>1, <2>1 DEF Carried
<1> QED
  BY <1>2, <1>3

(* A connection that nothing happens to. *)
LEMMA ConnStays ==
  ASSUME NEW c \in Conns, ConnOK(c), setup' = setup, Near(c)' = Near(c), Far(c)' = Far(c),
         \A e \in Ends : Carried(c, e)' = Carried(c, e),
         promise' = promise \/ promise = "open"
  PROVE  ConnOK(c)'
<1>1. /\ MethodOf(c)' = MethodOf(c) /\ Request(c)' = Request(c) /\ Faulty("reset")' = Faulty("reset")
      /\ Carried(c, "near")' = Carried(c, "near") /\ Carried(c, "far")' = Carried(c, "far")
  BY DEF MethodOf, Request, Faulty, Ends
<1>2. InStep(Near(c), Far(c), MethodOf(c), Request(c), Carried(c, "near"), Carried(c, "far"))'
  BY <1>1 DEF ConnOK
<1>3. (Near(c).at = "errored" \/ Far(c).at = "errored" => Faulty("reset"))'
  BY <1>1 DEF ConnOK
<1>4. (c \in {"proxy", "own"} => Far(c).at \notin Attaching)'
  BY DEF ConnOK
<1>5. (c \in {"direct", "stray"} /\ Far(c).at \in {"claimed"} \cup Attaching => promise = c)'
  BY DEF ConnOK
<1> QED
  BY <1>2, <1>3, <1>4, <1>5 DEF ConnOK

(* A connection that goes on in step. *)
LEMMA ConnMoves ==
  ASSUME NEW c \in Conns, ConnOK(c), setup' = setup,
         \A e \in Ends : Carried(c, e)' = Carried(c, e),
         InStep(Near(c)', Far(c)', MethodOf(c), Request(c), Carried(c, "near"), Carried(c, "far")),
         Unbroken(Near(c), Far(c), Near(c)', Far(c)') \/ Faulty("reset"),
         c \in {"proxy", "own"} => Far(c)'.at \notin Attaching,
         c \in {"direct", "stray"} /\ Far(c)'.at \in {"claimed"} \cup Attaching => promise' = c
  PROVE  ConnOK(c)'
<1>1. /\ MethodOf(c)' = MethodOf(c) /\ Request(c)' = Request(c) /\ Faulty("reset")' = Faulty("reset")
      /\ Carried(c, "near")' = Carried(c, "near") /\ Carried(c, "far")' = Carried(c, "far")
  BY DEF MethodOf, Request, Faulty, Ends
<1>2. InStep(Near(c), Far(c), MethodOf(c), Request(c), Carried(c, "near"), Carried(c, "far"))'
  BY <1>1
<1>3. (Near(c).at = "errored" \/ Far(c).at = "errored" => Faulty("reset"))'
  BY <1>1 DEF ConnOK, Unbroken
<1> QED
  BY <1>2, <1>3 DEF ConnOK

LEMMA OrderStays ==
  ASSUME OrderOK, \A c \in Conns : ConnOK(c), AllOnward, offered' = offered,
         opener' \in {opener, "failed", "open"}, activated' => activated
  PROVE  OrderOK'
<1>1. /\ Onward(Near("own"), Far("own"), Near("own")', Far("own")')
      /\ Onward(Near("proxy"), Far("proxy"), Near("proxy")', Far("proxy")')
      /\ Onward(Near("direct"), Far("direct"), Near("direct")', Far("direct")')
  BY DEF AllOnward, Conns
<1>2. Far("proxy").at \notin Attaching /\ Far("own").at \notin Attaching
  BY DEF ConnOK, Conns
<1>3. (opener \in {"idle", "awaiting"} => Near("own").at = "idle")'
  BY <1>1 DEF OrderOK, Onward
<1>4. (opener = "dialling" \/ Near("own").at # "idle" => Near("proxy").at \in {"open", "ended"})'
  BY <1>1, <1>2 DEF OrderOK, Onward
<1>5. (opener \in {"idle", "awaiting", "dialling"} \/ Near("own").at # "idle" =>
         Far("direct").at \notin Attaching)'
  BY <1>1 DEF OrderOK, Onward, Attaching
<1>6. (Near("proxy").at # "idle" =>
         Near("direct").at = "failed" \/ (Near("direct").at = "idle" /\ "direct" \notin offered))'
  BY <1>1 DEF OrderOK, Onward
<1>8. (Near("direct").at # "idle" => "direct" \in offered)'
  BY <1>1 DEF OrderOK, Onward
<1>7. (activated => Near("own").at \in {"activating", "open", "ended"})'
  BY <1>1, <1>2 DEF OrderOK, Onward
<1> QED
  BY <1>3, <1>4, <1>5, <1>6, <1>7, <1>8 DEF OrderOK

LEMMA SourceStays ==
  ASSUME Typed, OrderOK, SentBySource, AllOnward, setup' = setup, sent' = sent, last' = last,
         activated => activated'
  PROVE  (Used' = Used \/ sent = 0) /\ SentBySource'
<1>0. setup.writer \in {"host", "dialler"}
  BY AdapterAssumption DEF Typed, Setups
<1>1. /\ Onward(Near("own"), Far("own"), Near("own")', Far("own")')
      /\ Onward(Near("proxy"), Far("proxy"), Near("proxy")', Far("proxy")')
      /\ Onward(Near("direct"), Far("direct"), Near("direct")', Far("direct")')
  BY DEF AllOnward, Conns
<1>2. Used' = Used \/ sent = 0
  <2>1. CASE setup.writer = "host"
    <3>1. (Near("own").at # "idle")' <=> Near("own").at # "idle"
      BY <1>1 DEF Onward
    <3> QED
      BY <2>1, <3>1 DEF Used, Near
  <2>2. CASE setup.writer = "dialler"
    <3>1. CASE Near("proxy").at = "idle" \/ Near("proxy").at \in Attaching
      <4>1. Near("proxy")'.at \in Attaching <=> Near("proxy").at \in Attaching
        BY <3>1, <1>1 DEF Onward, Attaching
      <4> QED
        BY <2>2, <4>1 DEF Used, Near, Attaching
    <3>2. CASE Near("proxy").at # "idle" /\ Near("proxy").at \notin Attaching
      <4>1. Used = "direct" /\ Source = <<"direct", "near">>
        BY <2>2, <3>2 DEF Used, Source, DiallerEnd, Near, Attaching
      <4>2. At(Source) = Near("direct")
        BY <4>1 DEF At, Near
      <4>3. Near("direct").at \notin Attaching
        BY <3>2 DEF OrderOK, Attaching
      <4>4. ~(sent > 0) /\ sent \in Nat
        BY <4>2, <4>3 DEF SentBySource, Typed
      <4> QED
        BY <4>4
    <3> QED
      BY <3>1, <3>2
  <2> QED
    BY <1>0, <2>1, <2>2
<1>3. SentBySource'
  <2>1. CASE sent = 0
    BY <2>1 DEF SentBySource
  <2>2. CASE Used' = Used
    <3>1. Source' = Source
      BY <2>2 DEF Source, HostEnd, DiallerEnd
    <3>2. Source \in {<<"own", "near">>, <<"direct", "far">>, <<"proxy", "near">>, <<"direct", "near">>}
      BY DEF Source, HostEnd, DiallerEnd, Used
    <3>3. At(Source).at \in Attaching => At(Source)'.at \in Attaching
      BY <1>1, <3>1, <3>2 DEF At, Near, Far, Onward
    <3> QED
      BY <2>2, <3>1, <3>3 DEF SentBySource
  <2> QED
    BY <1>2, <2>1, <2>2
<1> QED
  BY <1>2, <1>3

LEMMA HostStays ==
  ASSUME HostOK, offered' = offered, pending' = pending, promise' = promise,
         opener' \in {opener, "failed", "open"}, offered # Nothing, AllOnward
  PROVE  HostOK'
<1>1. \A c \in {"direct", "stray"} : Far(c).at = "claimed" => Far(c)'.at = "claimed"
  BY DEF AllOnward, Conns, Onward
<1> QED
  BY <1>1 DEF HostOK

-----------------------------------------------------------------------------
(* One step on one connection.                                             *)

LEMMA SomethingOffered ==
  ASSUME HostOK, NEW c \in Conns, Near(c).at # "idle" \/ Far(c).at # "idle"
  PROVE  offered # Nothing
BY DEF HostOK, Near, Far, Closed, Ends

(* ... that may also change the registration: *)
LEMMA ConnStep ==
  ASSUME Inv, NEW c \in Conns, Only(c),
         setup' = setup, offered' = offered, released' = released, activated' = activated,
         sent' = sent, last' = last,
         pending' \in {"absent", "waiting", "claimed"},
         promise' = promise \/ promise = "open",
         promise' \in {"open", "timeout", "aborted", "direct", "stray"},
         opener' \in {opener, "failed", "open"}, HostOK',
         InStep(Near(c)', Far(c)', MethodOf(c), Request(c), Carried(c, "near"), Carried(c, "far")),
         Onward(Near(c), Far(c), Near(c)', Far(c)'),
         c \in {"direct", "stray"} /\ Far(c)'.at \in {"claimed"} \cup Attaching => promise' = c,
         Unbroken(Near(c), Far(c), Near(c)', Far(c)') \/ Faulty("reset")
  PROVE  Inv'
<1>1. Typed /\ (\A d \in Conns : ConnOK(d)) /\ OrderOK /\ SentBySource
  BY DEF Inv
<1>2. AllOnward
  BY OnlyOnward
<1>3. (Used' = Used \/ sent = 0) /\ SentBySource'
  BY <1>1, <1>2, SourceStays
<1>4. \A d \in Conns, e \in Ends : Carried(d, e)' = Carried(d, e)
  BY <1>1, <1>3, CarriedStays
<1>5. Typed'
  BY <1>1 DEF Typed, Only, AllEnds
<1>6. ConnOK(c)'
  <2>1. ConnOK(c)
    BY <1>1
  <2>2. c \in {"proxy", "own"} => Far(c)'.at \notin Attaching
    BY <2>1 DEF ConnOK, Onward
  <2> QED
    BY <1>4, <2>1, <2>2, ConnMoves
<1>7. ASSUME NEW d \in Conns, d # c PROVE ConnOK(d)'
  <2>1. ConnOK(d) /\ Near(d)' = Near(d) /\ Far(d)' = Far(d)
    BY <1>1, <1>7 DEF Only
  <2> QED
    BY <1>4, <2>1, ConnStays
<1>8. OrderOK'
  BY <1>1, <1>2, OrderStays
<1> QED
  BY <1>3, <1>5, <1>6, <1>7, <1>8 DEF Inv

(* ... or leaves it alone: *)
LEMMA LocalStep ==
  ASSUME Inv, NEW c \in Conns, Only(c), offered # Nothing,
         setup' = setup, offered' = offered, pending' = pending, promise' = promise,
         released' = released, activated' = activated,
         sent' = sent, last' = last,
         opener' \in {opener, "failed", "open"},
         InStep(Near(c)', Far(c)', MethodOf(c), Request(c), Carried(c, "near"), Carried(c, "far")),
         Onward(Near(c), Far(c), Near(c)', Far(c)'),
         c \in {"direct", "stray"} => NotLetIn(Far(c), Far(c)'),
         Unbroken(Near(c), Far(c), Near(c)', Far(c)') \/ Faulty("reset")
  PROVE  Inv'
<1>1. Typed /\ ConnOK(c) /\ HostOK
  BY DEF Inv
<1>2. HostOK'
  BY <1>1, OnlyOnward, HostStays
<1>3. c \in {"direct", "stray"} /\ Far(c)'.at \in {"claimed"} \cup Attaching => promise' = c
  BY <1>1 DEF ConnOK, NotLetIn
<1>4. /\ pending' \in {"absent", "waiting", "claimed"}
      /\ promise' \in {"open", "timeout", "aborted", "direct", "stray"}
  BY <1>1 DEF Typed
<1> QED
  BY <1>2, <1>3, <1>4, ConnStep

(* What the steps on connection c start from. *)
LEMMA AtHand ==
  ASSUME Inv, NEW c \in Conns
  PROVE  /\ end \in AllEnds /\ Near(c) \in Sockets /\ Far(c) \in Sockets
         /\ MethodOf(c) \in Methods /\ Request(c) \in Requests
         /\ Carried(c, "near") \in Words /\ Carried(c, "far") \in Words
         /\ InStep(Near(c), Far(c), MethodOf(c), Request(c), Carried(c, "near"), Carried(c, "far"))
         /\ HostOK /\ OrderOK /\ SentBySource /\ Typed
<1>1. end \in AllEnds /\ Typed /\ ConnOK(c)
  BY DEF Inv, Typed, AllEnds
<1>2. Near(c) \in Sockets /\ Far(c) \in Sockets
  BY <1>1, EndsTyped
<1>3. MethodOf(c) \in Methods /\ Request(c) \in Requests
  BY FramesTyped
<1>4. Carried(c, "near") \in Words /\ Carried(c, "far") \in Words
  BY <1>1, WordsCarried DEF Ends
<1> QED
  BY <1>1, <1>2, <1>3, <1>4 DEF ConnOK, Inv

(* An end past idle. *)
LEMMA Busy ==
  ASSUME NEW s, s.mode = ModeOf(s.at), s.mode # "off"
  PROVE  s.at # "idle"
BY DEF ModeOf

LEMMA DeliverKeeps ==
  ASSUME Inv, NEW c \in Conns, NEW e \in Ends, Deliver(c, e)
  PROVE  Inv'
<1> DEFINE m == MethodOf(c)
           q == Request(c)
           w == Carried(c, "near")
           v == Carried(c, "far")
<1>1. /\ end \in AllEnds /\ Near(c) \in Sockets /\ Far(c) \in Sockets
      /\ InStep(Near(c), Far(c), m, q, w, v) /\ HostOK /\ Typed
  BY AtHand
<1> HIDE DEF m, q, w, v
<1>2. /\ setup' = setup /\ offered' = offered /\ pending' = pending /\ promise' = promise
      /\ released' = released /\ activated' = activated /\ sent' = sent /\ last' = last /\ opener' = opener
  BY DEF Deliver, hostVars, registration
<1>3. PICK k \in 1..Len(end[c][e].net) :
        Put(c, e, [end[c][e] EXCEPT !.net = SubSeq(end[c][e].net, k + 1, Len(end[c][e].net)),
                     !.buf = IF end[c][e].mode = "lossy" THEN end[c][e].buf
                             ELSE end[c][e].buf \o SubSeq(end[c][e].net, 1, k)])
  BY DEF Deliver
<1>4. end[c][e] \in Sockets /\ end[c][e].mode \in {"reader", "stream"}
  BY <1>1, EndsTyped DEF Deliver, Sockets
<1>5. Put(c, e, Segment(end[c][e], k))
  BY <1>3, <1>4 DEF Segment, After, Before, ++
<1>6. Segment(end[c][e], k) \in Sockets /\ Alike(end[c][e], Segment(end[c][e], k))
  BY <1>4, SegmentAlike
<1>7. Near(c).mode = ModeOf(Near(c).at) /\ Far(c).mode = ModeOf(Far(c).at)
  BY <1>1 DEF InStep
<1>8. Only(c) /\ Alike(Near(c), Near(c)') /\ Alike(Far(c), Far(c)')
  <2>1. CASE e = "near"
    <3>1. Put(c, "near", Segment(Near(c), k)) /\ Segment(Near(c), k) \in Sockets /\ Alike(Near(c), Segment(Near(c), k))
      BY <2>1, <1>5, <1>6 DEF Near
    <3> QED
      BY <1>1, <3>1, Puts DEF Alike
  <2>2. CASE e = "far"
    <3>1. Put(c, "far", Segment(Far(c), k)) /\ Segment(Far(c), k) \in Sockets /\ Alike(Far(c), Segment(Far(c), k))
      BY <2>2, <1>5, <1>6 DEF Far
    <3> QED
      BY <1>1, <3>1, Puts DEF Alike
  <2> QED
    BY <2>1, <2>2 DEF Ends
<1>9. offered # Nothing
  <2>1. Near(c).mode # "off" \/ Far(c).mode # "off"
    BY <1>4 DEF Near, Far, Ends
  <2> QED
    BY <1>1, <1>7, <2>1, Busy, SomethingOffered
<1>10. /\ InStep(Near(c)', Far(c)', m, q, w, v)
       /\ Onward(Near(c), Far(c), Near(c)', Far(c)') /\ NotLetIn(Far(c), Far(c)')
       /\ Unbroken(Near(c), Far(c), Near(c)', Far(c)')
  BY <1>1, <1>8, AlikeInStep
<1> QED
  BY <1>2, <1>8, <1>9, <1>10, LocalStep DEF m, q, w, v

LEMMA ReadKeeps ==
  ASSUME Inv, NEW c \in Conns, NEW e \in Ends, Read(c, e) \/ StreamEnds(c, e)
  PROVE  Inv'
<1> DEFINE m == MethodOf(c)
           q == Request(c)
           w == Carried(c, "near")
           v == Carried(c, "far")
           s == end[c][e]
           t == IF Read(c, e) THEN HasRead(s) ELSE HasEnded(s)
<1>1. /\ end \in AllEnds /\ Near(c) \in Sockets /\ Far(c) \in Sockets
      /\ InStep(Near(c), Far(c), m, q, w, v) /\ HostOK /\ Typed
  BY AtHand
<1> HIDE DEF m, q, w, v
<1>2. /\ setup' = setup /\ offered' = offered /\ pending' = pending /\ promise' = promise
      /\ released' = released /\ activated' = activated /\ sent' = sent /\ last' = last /\ opener' = opener
  BY DEF Read, StreamEnds, hostVars, registration
<1>3. Near(c).mode = ModeOf(Near(c).at) /\ Far(c).mode = ModeOf(Far(c).at)
  BY <1>1 DEF InStep
<1>4. s \in Sockets /\ s.mode = "stream"
  BY <1>1, EndsTyped DEF Read, StreamEnds
<1>5. s.at = "open"
  <2>1. s.mode = ModeOf(s.at)
    BY <1>3 DEF Near, Far, Ends
  <2> QED
    BY <1>4, <2>1 DEF ModeOf
<1>6. Put(c, e, t)
  BY DEF Read, StreamEnds, HasRead, HasEnded, ++
<1>7. /\ t \in Sockets /\ t.at \in {"open", "ended"} /\ t.mode = ModeOf(t.at)
      /\ Holds(s, w) => Holds(t, w)
      /\ Holds(s, v) => Holds(t, v)
  <2>1. CASE Read(c, e)
    BY <2>1, <1>4, <1>5, ReadHolds DEF ModeOf
  <2>2. CASE ~Read(c, e)
    <3>1. s.buf = <<>> /\ s.net = <<Fin>>
      BY <2>2 DEF StreamEnds
    <3> QED
      BY <2>2, <3>1, <1>4, <1>5, EndHolds DEF ModeOf
  <2> QED
    BY <2>1, <2>2
<1> HIDE DEF t
<1>8. offered # Nothing
  BY <1>1, <1>5, SomethingOffered DEF Near, Far, Ends
<1>9. /\ Only(c) /\ InStep(Near(c)', Far(c)', m, q, w, v)
      /\ Onward(Near(c), Far(c), Near(c)', Far(c)') /\ NotLetIn(Far(c), Far(c)')
      /\ Unbroken(Near(c), Far(c), Near(c)', Far(c)')
  <2>1. CASE e = "near"
    <3>1. s = Near(c) /\ Put(c, "near", t)
      BY <2>1, <1>6 DEF Near
    <3>2. Only(c) /\ Near(c)' = t /\ Far(c)' = Far(c)
      BY <1>1, <1>7, <3>1, Puts
    <3> QED
      BY <1>1, <1>4, <1>7, <3>1, <3>2, PastInStep
  <2>2. CASE e = "far"
    <3>1. s = Far(c) /\ Put(c, "far", t)
      BY <2>2, <1>6 DEF Far
    <3>2. Only(c) /\ Far(c)' = t /\ Near(c)' = Near(c)
      BY <1>1, <1>7, <3>1, Puts
    <3> QED
      BY <1>1, <1>4, <1>7, <3>1, <3>2, PastInStep
  <2> QED
    BY <2>1, <2>2 DEF Ends
<1> QED
  BY <1>2, <1>8, <1>9, LocalStep DEF m, q, w, v

-----------------------------------------------------------------------------
(* The dialling side.                                                      *)

LEMMA OpenerStays ==
  ASSUME NEW c, OpenerOf(c, "failed") \/ opener' = opener
  PROVE  opener' \in {opener, "failed", "open"}
BY DEF OpenerOf

LEMMA ClientKeeps ==
  ASSUME Inv, NEW c \in Conns, socks5ClientHandshake(c)
  PROVE  Inv'
<1> DEFINE m == MethodOf(c)
           q == Request(c)
           w == Carried(c, "near")
           v == Carried(c, "far")
           n == Near(c)
           f == Far(c)
<1>1. /\ end \in AllEnds /\ n \in Sockets /\ f \in Sockets /\ m \in Methods /\ q \in Requests
      /\ w \in Words /\ v \in Words
      /\ InStep(n, f, m, q, w, v) /\ HostOK
  BY AtHand
<1>2. /\ setup' = setup /\ offered' = offered /\ pending' = pending /\ promise' = promise
      /\ released' = released /\ activated' = activated /\ sent' = sent /\ last' = last
  BY DEF socks5ClientHandshake, registration
<1>3. Ready(n) /\ n.mode = "reader"
  BY DEF socks5ClientHandshake, Near, Ready, Reading
<1>4. n.mode = ModeOf(n.at)
  BY <1>1 DEF InStep
<1>5. offered # Nothing
  BY <1>1, <1>3, <1>4, Busy, SomethingOffered
<1>6. CASE ~Acceptable(n, Taken(n)) /\ DialFails(c)
  <2> DEFINE x == IF c = "own" THEN <<Fin>> ELSE <<>>
  <2>1. PutAfter(c, "near", Failed(n), x)
    BY <1>6 DEF DialFails, Near
  <2>2. x \in {<<>>, <<Fin>>} /\ x \in Words
    BY Grants, <1>1, NoWords
  <2> HIDE DEF x, m, q, w, v, n, f
  <2>3. /\ Failed(n) \in Sockets
        /\ InStep(Failed(n), Gets(f, x), m, q, w, v)
        /\ Onward(n, f, Failed(n), Gets(f, x)) /\ Unbroken(n, f, Failed(n), Gets(f, x))
        /\ NotLetIn(f, Gets(f, x))
    BY <1>1, <1>3, <1>6, <2>2, ThrowStep
  <2>4. Only(c) /\ Near(c)' = Failed(n) /\ Far(c)' = Gets(f, x)
    BY <1>1, <2>1, <2>2, <2>3, PutsAfter DEF n, f
  <2>5. opener' \in {opener, "failed", "open"}
    BY <1>6, OpenerStays DEF DialFails
  <2>6. /\ InStep(Near(c)', Far(c)', m, q, w, v)
        /\ Onward(Near(c), Far(c), Near(c)', Far(c)') /\ NotLetIn(Far(c), Far(c)')
        /\ Unbroken(Near(c), Far(c), Near(c)', Far(c)')
    BY <2>3, <2>4 DEF n, f
  <2> QED
    BY <1>2, <1>5, <2>4, <2>5, <2>6, LocalStep DEF m, q, w, v
<1>7. CASE n.at = "method" /\ PutAfter(c, "near", Asking(n), q) /\ opener' = opener
  <2> HIDE DEF m, q, w, v, n, f
  <2>1. /\ Asking(n) \in Sockets /\ InStep(Asking(n), Gets(f, q), m, q, w, v)
        /\ Onward(n, f, Asking(n), Gets(f, q)) /\ Unbroken(n, f, Asking(n), Gets(f, q))
        /\ NotLetIn(f, Gets(f, q))
    BY <1>1, <1>3, <1>7, MethodStep
  <2>2. Only(c) /\ Near(c)' = Asking(n) /\ Far(c)' = Gets(f, q)
    BY <1>1, <1>7, <2>1, Asks, PutsAfter DEF n, f
  <2>3. /\ InStep(Near(c)', Far(c)', m, q, w, v)
        /\ Onward(Near(c), Far(c), Near(c)', Far(c)') /\ NotLetIn(Far(c), Far(c)')
        /\ Unbroken(Near(c), Far(c), Near(c)', Far(c)')
    BY <2>1, <2>2 DEF n, f
  <2> QED
    BY <1>2, <1>5, <1>7, <2>2, <2>3, LocalStep DEF m, q, w, v
<1>8. CASE n.at = "head" /\ Put(c, "near", HalfRead(n)) /\ opener' = opener
  <2> HIDE DEF m, q, w, v, n, f
  <2>1. /\ HalfRead(n) \in Sockets /\ InStep(HalfRead(n), f, m, q, w, v)
        /\ Onward(n, f, HalfRead(n), f) /\ Unbroken(n, f, HalfRead(n), f)
        /\ NotLetIn(f, f)
    BY <1>1, <1>3, <1>8, HeadStep
  <2>2. Only(c) /\ Near(c)' = HalfRead(n) /\ Far(c)' = f
    BY <1>1, <1>8, <2>1, Puts DEF n, f
  <2>3. /\ InStep(Near(c)', Far(c)', m, q, w, v)
        /\ Onward(Near(c), Far(c), Near(c)', Far(c)') /\ NotLetIn(Far(c), Far(c)')
        /\ Unbroken(Near(c), Far(c), Near(c)', Far(c)')
    BY <2>1, <2>2 DEF n, f
  <2> QED
    BY <1>2, <1>5, <1>8, <2>2, <2>3, LocalStep DEF m, q, w, v
<1>9. CASE n.at = "rest" /\ Acceptable(n, Taken(n)) /\ Put(c, "near", Established(c)) /\ opener' = opener
  <2> DEFINE n2 == Established(c)
  <2>1. n2 \in {Activating(n), Attached(release(n, Left(n)))}
    BY DEF Established, Activating, Near
  <2>2. parseConnectReply(n.seen ++ Taken(n))
    BY <1>9 DEF Acceptable, ++
  <2> HIDE DEF m, q, w, v, n, f, n2
  <2>3. /\ n2 \in Sockets /\ InStep(n2, f, m, q, w, v)
        /\ Onward(n, f, n2, f) /\ Unbroken(n, f, n2, f) /\ NotLetIn(f, f)
    BY <1>1, <1>3, <1>9, <2>1, <2>2, RestStep
  <2>4. Only(c) /\ Near(c)' = n2 /\ Far(c)' = f
    BY <1>1, <1>9, <2>3, Puts DEF n, f, n2
  <2>5. /\ InStep(Near(c)', Far(c)', m, q, w, v)
        /\ Onward(Near(c), Far(c), Near(c)', Far(c)') /\ NotLetIn(Far(c), Far(c)')
        /\ Unbroken(Near(c), Far(c), Near(c)', Far(c)')
    BY <2>3, <2>4 DEF n, f
  <2> QED
    BY <1>2, <1>5, <1>9, <2>4, <2>5, LocalStep DEF m, q, w, v
<1> QED
  BY <1>6, <1>7, <1>8, <1>9 DEF socks5ClientHandshake, Asking, HalfRead, Near

LEMMA HangupKeeps ==
  ASSUME Inv, NEW c \in Conns, Hangup(c)
  PROVE  Inv'
<1> DEFINE m == MethodOf(c)
           q == Request(c)
           w == Carried(c, "near")
           v == Carried(c, "far")
           n == Near(c)
           f == Far(c)
           x == IF c = "own" THEN <<Fin>> ELSE <<>>
<1>1. /\ end \in AllEnds /\ n \in Sockets /\ f \in Sockets /\ m \in Methods /\ q \in Requests
      /\ w \in Words /\ v \in Words
      /\ InStep(n, f, m, q, w, v) /\ HostOK
  BY AtHand
<1>2. /\ setup' = setup /\ offered' = offered /\ pending' = pending /\ promise' = promise
      /\ released' = released /\ activated' = activated /\ sent' = sent /\ last' = last
  BY DEF Hangup, registration
<1>3. n.mode = "reader" /\ ~Ready(n) /\ n.net = <<Fin>> /\ PutAfter(c, "near", Failed(n), x)
  BY DEF Hangup, Near, Reading, DialFails
<1>4. n.mode = ModeOf(n.at)
  BY <1>1 DEF InStep
<1>5. offered # Nothing
  BY <1>1, <1>3, <1>4, Busy, SomethingOffered
<1>6. x \in {<<>>, <<Fin>>} /\ x \in Words
  BY Grants, <1>1, NoWords
<1> HIDE DEF x, m, q, w, v, n, f
<1>7. /\ Failed(n) \in Sockets
      /\ InStep(Failed(n), Gets(f, x), m, q, w, v)
      /\ Onward(n, f, Failed(n), Gets(f, x)) /\ Unbroken(n, f, Failed(n), Gets(f, x))
      /\ NotLetIn(f, Gets(f, x))
  BY <1>1, <1>3, <1>6, HangupStep
<1>8. Only(c) /\ Near(c)' = Failed(n) /\ Far(c)' = Gets(f, x)
  BY <1>1, <1>3, <1>6, <1>7, PutsAfter DEF n, f
<1>9. opener' \in {opener, "failed", "open"}
  BY OpenerStays DEF Hangup, DialFails
<1>10. /\ InStep(Near(c)', Far(c)', m, q, w, v)
       /\ Onward(Near(c), Far(c), Near(c)', Far(c)') /\ NotLetIn(Far(c), Far(c)')
       /\ Unbroken(Near(c), Far(c), Near(c)', Far(c)')
  BY <1>7, <1>8 DEF n, f
<1> QED
  BY <1>2, <1>5, <1>8, <1>9, <1>10, LocalStep DEF m, q, w, v

LEMMA ResetKeeps ==
  ASSUME Inv, NEW c \in Conns, Reset(c)
  PROVE  Inv'
<1> DEFINE m == MethodOf(c)
           q == Request(c)
           w == Carried(c, "near")
           v == Carried(c, "far")
           n == Near(c)
           f == Far(c)
<1>1. /\ end \in AllEnds /\ n \in Sockets /\ f \in Sockets
      /\ InStep(n, f, m, q, w, v) /\ HostOK
  BY AtHand
<1>2. /\ setup' = setup /\ offered' = offered /\ pending' = pending /\ promise' = promise
      /\ released' = released /\ activated' = activated /\ sent' = sent /\ last' = last
  BY DEF Reset, registration
<1>3. n.mode \in {"reader", "stream"} /\ f.mode \in {"reader", "stream"} /\ Faulty("reset")
  BY DEF Reset, Near, Far, Ends
<1>4. n.mode = ModeOf(n.at)
  BY <1>1 DEF InStep
<1>5. offered # Nothing
  BY <1>1, <1>3, <1>4, Busy, SomethingOffered
<1>6. end' = [end EXCEPT ![c] = [e \in Ends |-> Broken(end[c][e])]]
  BY DEF Reset
<1>7. /\ Near(c)' = Broken(n) /\ Far(c)' = Broken(f)
      /\ \A d \in Conns : d # c => Near(d)' = Near(d) /\ Far(d)' = Far(d)
  BY <1>1, <1>6 DEF AllEnds, Near, Far, Ends
<1> HIDE DEF m, q, w, v, n, f
<1>8. /\ Broken(n) \in Sockets /\ Broken(f) \in Sockets
      /\ InStep(Broken(n), Broken(f), m, q, w, v)
      /\ Onward(n, f, Broken(n), Broken(f)) /\ NotLetIn(f, Broken(f))
  BY <1>1, <1>3, ResetStep
<1>9. Only(c)
  <2>1. \A e \in Ends : Broken(end[c][e]) \in Sockets
    BY <1>8 DEF Ends, n, f, Near, Far
  <2>2. end' \in AllEnds
    BY <1>1, <1>6, <2>1 DEF AllEnds
  <2> QED
    BY <1>7, <2>2 DEF Only
<1>10. opener' \in {opener, "failed", "open"}
  BY OpenerStays DEF Reset
<1>11. /\ InStep(Near(c)', Far(c)', m, q, w, v)
       /\ Onward(Near(c), Far(c), Near(c)', Far(c)') /\ NotLetIn(Far(c), Far(c)')
  BY <1>7, <1>8 DEF n, f
<1> QED
  BY <1>2, <1>3, <1>5, <1>9, <1>10, <1>11, LocalStep DEF m, q, w, v

-----------------------------------------------------------------------------
(* The listener.                                                           *)

(* Nothing is written on a connection whose request is being read. *)
LEMMA NothingCarried ==
  ASSUME Inv, NEW c \in Conns, Near(c).at = "head", Far(c).at = "rest"
  PROVE  Carried(c, "near") = <<>> /\ Carried(c, "far") = <<>>
<1>1. Typed /\ OrderOK /\ SentBySource
  BY DEF Inv
<1>2. CASE sent = 0
  BY <1>1, <1>2, WordsCarried DEF Carried
<1>3. CASE sent > 0
  <2>0. setup.writer \in {"host", "dialler"}
    BY <1>1, AdapterAssumption DEF Typed, Setups
  <2>1. At(Source).at \in Attaching /\ (Used = "proxy" => activated)
    BY <1>1, <1>3 DEF SentBySource
  <2>2. CASE setup.writer = "host" /\ Used = "direct"
    <3>1. Source = <<"direct", "far">> /\ Target = <<"direct", "near">>
      BY <2>2 DEF Source, Target, HostEnd, DiallerEnd
    <3>2. Far("direct").at \in Attaching
      BY <2>1, <3>1 DEF At, Far
    <3>3. c # "direct"
      BY <3>2 DEF Attaching
    <3> QED
      BY <3>1, <3>3 DEF Carried
  <2>3. CASE setup.writer = "dialler" /\ Used = "direct"
    <3>1. Source = <<"direct", "near">> /\ Target = <<"direct", "far">>
      BY <2>3 DEF Source, Target, HostEnd, DiallerEnd
    <3>2. Near("direct").at \in Attaching
      BY <2>1, <3>1 DEF At, Near
    <3>3. c # "direct"
      BY <3>2 DEF Attaching
    <3> QED
      BY <3>1, <3>3 DEF Carried
  <2>4. CASE setup.writer = "host" /\ Used = "proxy"
    <3>1. Target = <<"proxy", "near">> /\ Near("own").at # "idle"
      BY <2>4 DEF Target, DiallerEnd, Used, Near
    <3>2. Near("proxy").at \in {"open", "ended"}
      BY <1>1, <3>1 DEF OrderOK
    <3>3. c # "proxy"
      BY <3>2
    <3> QED
      BY <3>1, <3>3 DEF Carried
  <2>5. CASE setup.writer = "dialler" /\ Used = "proxy"
    <3>1. Target = <<"own", "near">>
      BY <2>5 DEF Target, HostEnd
    <3>2. Near("own").at \in {"activating", "open", "ended"}
      BY <1>1, <2>1, <2>5 DEF OrderOK
    <3>3. c # "own"
      BY <3>2
    <3> QED
      BY <3>1, <3>3 DEF Carried
  <2> QED
    BY <2>0, <2>2, <2>3, <2>4, <2>5 DEF Used
<1> QED
  BY <1>1, <1>2, <1>3 DEF Typed

LEMMA ServerKeeps ==
  ASSUME Inv, NEW c \in Conns, socks5ServerHandshake(c)
  PROVE  Inv'
<1> DEFINE m == MethodOf(c)
           q == Request(c)
           w == Carried(c, "near")
           v == Carried(c, "far")
           n == Near(c)
           f == Far(c)
           domain == parseConnectRequest(f.seen \o Taken(f))
           refused(r) == Destroy(c, r) /\ r \in {<<>>, Refusal}
           aside == pending' = pending /\ promise' = promise
<1>1. /\ end \in AllEnds /\ n \in Sockets /\ f \in Sockets /\ m \in Methods /\ q \in Requests
      /\ w \in Words /\ v \in Words
      /\ InStep(n, f, m, q, w, v) /\ HostOK
  BY AtHand
<1>2. /\ setup' = setup /\ offered' = offered /\ opener' = opener
      /\ released' = released /\ activated' = activated /\ sent' = sent /\ last' = last
  BY DEF socks5ServerHandshake
<1>3. Ready(f) /\ f.mode = "reader"
  BY DEF socks5ServerHandshake, Far, Ready, Reading
<1>4. f.mode = ModeOf(f.at)
  BY <1>1 DEF InStep
<1>5. offered # Nothing
  BY <1>1, <1>3, <1>4, Busy, SomethingOffered
<1>6. opener' \in {opener, "failed", "open"}
  BY <1>2
<1>7. CASE f.at = "hello" /\ Put(c, "far", Choosing(f)) /\ aside
  <2> HIDE DEF m, q, w, v, n, f
  <2>1. /\ Choosing(f) \in Sockets /\ InStep(n, Choosing(f), m, q, w, v)
        /\ Onward(n, f, n, Choosing(f)) /\ Unbroken(n, f, n, Choosing(f)) /\ NotLetIn(f, Choosing(f))
    BY <1>1, <1>3, <1>7, GreetingStep
  <2>2. Only(c) /\ Far(c)' = Choosing(f) /\ Near(c)' = n
    BY <1>1, <1>7, <2>1, Puts DEF n, f
  <2>3. /\ InStep(Near(c)', Far(c)', m, q, w, v)
        /\ Onward(Near(c), Far(c), Near(c)', Far(c)') /\ NotLetIn(Far(c), Far(c)')
        /\ Unbroken(Near(c), Far(c), Near(c)', Far(c)')
    BY <2>1, <2>2 DEF n, f
  <2> QED
    BY <1>2, <1>5, <1>6, <1>7, <2>2, <2>3, LocalStep DEF m, q, w, v
<1>8. CASE f.at = "methods" /\ PutAfter(c, "far", Granting(f), m) /\ aside
  <2> HIDE DEF m, q, w, v, n, f
  <2>1. /\ Granting(f) \in Sockets /\ InStep(Gets(n, m), Granting(f), m, q, w, v)
        /\ Onward(n, f, Gets(n, m), Granting(f)) /\ Unbroken(n, f, Gets(n, m), Granting(f))
        /\ NotLetIn(f, Granting(f))
    BY <1>1, <1>3, <1>8, MethodsStep
  <2>2. Only(c) /\ Far(c)' = Granting(f) /\ Near(c)' = Gets(n, m)
    BY <1>1, <1>8, <2>1, Grants, PutsAfter DEF n, f
  <2>3. /\ InStep(Near(c)', Far(c)', m, q, w, v)
        /\ Onward(Near(c), Far(c), Near(c)', Far(c)') /\ NotLetIn(Far(c), Far(c)')
        /\ Unbroken(Near(c), Far(c), Near(c)', Far(c)')
    BY <2>1, <2>2 DEF n, f
  <2> QED
    BY <1>2, <1>5, <1>6, <1>8, <2>2, <2>3, LocalStep DEF m, q, w, v
<1>9. CASE f.at = "head" /\ Put(c, "far", HalfRead(f)) /\ aside
  <2> HIDE DEF m, q, w, v, n, f
  <2>1. /\ HalfRead(f) \in Sockets /\ InStep(n, HalfRead(f), m, q, w, v)
        /\ Onward(n, f, n, HalfRead(f)) /\ Unbroken(n, f, n, HalfRead(f)) /\ NotLetIn(f, HalfRead(f))
    BY <1>1, <1>3, <1>9, RequestStep
  <2>2. Only(c) /\ Far(c)' = HalfRead(f) /\ Near(c)' = n
    BY <1>1, <1>9, <2>1, Puts DEF n, f
  <2>3. /\ InStep(Near(c)', Far(c)', m, q, w, v)
        /\ Onward(Near(c), Far(c), Near(c)', Far(c)') /\ NotLetIn(Far(c), Far(c)')
        /\ Unbroken(Near(c), Far(c), Near(c)', Far(c)')
    BY <2>1, <2>2 DEF n, f
  <2> QED
    BY <1>2, <1>5, <1>6, <1>9, <2>2, <2>3, LocalStep DEF m, q, w, v
<1>10. ASSUME NEW r, f.at = "rest", refused(r), aside PROVE Inv'
  <2> DEFINE x == r ++ <<Fin>>
  <2>1. PutAfter(c, "far", Failed(f), x) /\ r \in {<<>>, Refusal}
    BY <1>10 DEF Destroy, Far, ++
  <2>2. x \in Words
    BY <2>1, Grants, Replies, Joins, <1>1, NoWords
  <2> HIDE DEF m, q, w, v, n, f
  <2>3. /\ Failed(f) \in Sockets
        /\ InStep(Gets(n, x), Failed(f), m, q, w, v)
        /\ Onward(n, f, Gets(n, x), Failed(f)) /\ Unbroken(n, f, Gets(n, x), Failed(f))
        /\ NotLetIn(f, Failed(f))
    BY <1>1, <1>3, <1>10, <2>1, RefuseStep
  <2> HIDE DEF x
  <2>4. Only(c) /\ Far(c)' = Failed(f) /\ Near(c)' = Gets(n, x)
    BY <1>1, <2>1, <2>2, <2>3, PutsAfter DEF n, f
  <2>5. /\ InStep(Near(c)', Far(c)', m, q, w, v)
        /\ Onward(Near(c), Far(c), Near(c)', Far(c)') /\ NotLetIn(Far(c), Far(c)')
        /\ Unbroken(Near(c), Far(c), Near(c)', Far(c)')
    BY <2>3, <2>4 DEF n, f
  <2> QED
    BY <1>2, <1>5, <1>6, <1>10, <2>4, <2>5, LocalStep DEF m, q, w, v
<1>11. ASSUME f.at = "rest"
       PROVE  f.seen \o Taken(f) = q /\ Near(c).at = "head" /\ w = <<>> /\ v = <<>>
  <2> HIDE DEF m, q, w, v, n, f
  <2>1. f.seen ++ Taken(f) = q /\ n.at = "head"
    BY <1>1, <1>3, <1>11, ServerRest DEF Asked
  <2> QED
    BY <1>11, <2>1, NothingCarried DEF n, f, w, v, ++
<1>12. ASSUME f.at = "rest", PutAfter(c, "far", Claiming(f), Granted)
       PROVE  /\ Only(c) /\ Far(c)' = Claiming(f) /\ Far(c)'.at = "claimed"
              /\ InStep(Near(c)', Far(c)', m, q, w, v)
              /\ Onward(Near(c), Far(c), Near(c)', Far(c)')
              /\ Unbroken(Near(c), Far(c), Near(c)', Far(c)')
  <2>0. w = <<>> /\ v = <<>>
    BY <1>11, <1>12
  <2> HIDE DEF m, q, w, v, n, f
  <2>1. /\ Claiming(f) \in Sockets /\ InStep(Gets(n, Granted), Claiming(f), m, q, w, v)
        /\ Onward(n, f, Gets(n, Granted), Claiming(f)) /\ Unbroken(n, f, Gets(n, Granted), Claiming(f))
        /\ Claiming(f).at = "claimed"
    BY <1>1, <1>3, <1>12, <2>0, WelcomeStep
  <2>2. Only(c) /\ Far(c)' = Claiming(f) /\ Near(c)' = Gets(n, Granted)
    BY <1>1, <1>12, <2>1, Replies, PutsAfter DEF n, f
  <2> QED
    BY <2>1, <2>2 DEF n, f
<1>13. CASE f.at = "rest" /\ c \in {"proxy", "own"} /\ Proxied(c, domain)
  <2>1. domain = TheDomain /\ aside
    <3>1. q = buildConnectRequest(TheDomain)
      BY <1>13, FramesTyped
    <3>2. parseConnectRequest(buildConnectRequest(TheDomain)) = TheDomain
      BY DEF parseConnectRequest, buildConnectRequest, Version, Atyp
    <3> QED
      BY <1>11, <1>13, <3>1, <3>2 DEF Proxied, registration
  <2>2. CASE Faulty("refuses")
    <3>1. refused(Refusal)
      BY <1>13, <2>1, <2>2 DEF Proxied, Refusal
    <3> QED
      BY <1>10, <1>13, <2>1, <3>1
  <2>3. CASE ~Faulty("refuses")
    <3>1. PutAfter(c, "far", Claiming(f), Granted)
      BY <1>13, <2>1, <2>3 DEF Proxied, Welcome, Claiming, Granted, Far
    <3>2. /\ Only(c) /\ InStep(Near(c)', Far(c)', m, q, w, v)
          /\ Onward(Near(c), Far(c), Near(c)', Far(c)')
          /\ Unbroken(Near(c), Far(c), Near(c)', Far(c)')
      BY <1>12, <1>13, <3>1
    <3> QED
      BY <1>2, <1>5, <1>6, <1>13, <2>1, <3>2, LocalStep
  <2> QED
    BY <2>2, <2>3
<1>14. CASE f.at = "rest" /\ c \notin {"proxy", "own"} /\ Claim(c, domain)
  <2>1. c \in {"direct", "stray"} /\ domain \in {TheDomain, Garbled}
    <3>1. domain = parseConnectRequest(q)
      BY <1>11, <1>14
    <3> QED
      BY <1>1, <1>14, <3>1, Asks DEF Conns
  <2>2. CASE Claimable(domain)
    <3>1. domain = TheDomain /\ pending = "waiting" /\ promise = "open"
      BY <1>1, <2>2 DEF Claimable, HostOK
    <3>2. /\ pending' = "claimed" /\ promise' = c
          /\ PutAfter(c, "far", Claiming(f), Granted)
      BY <1>14, <2>2, <3>1 DEF Claim, Welcome, Claiming, Granted, Far
    <3>3. /\ Only(c) /\ Far(c)'.at = "claimed" /\ InStep(Near(c)', Far(c)', m, q, w, v)
          /\ Onward(Near(c), Far(c), Near(c)', Far(c)')
          /\ Unbroken(Near(c), Far(c), Near(c)', Far(c)')
      BY <1>12, <1>14, <3>2
    <3>4. HostOK'
      BY <1>2, <1>5, <3>2, <3>3 DEF HostOK
    <3> HIDE DEF n, f
    <3> QED
      BY <1>2, <1>6, <2>1, <3>1, <3>2, <3>3, <3>4, ConnStep
  <2>3. CASE ~Claimable(domain)
    <3>1. aside /\ \E r : refused(r)
      BY <1>14, <2>1, <2>3 DEF Claim, registration, Refusal, TheDomain, Garbled
    <3> QED
      BY <1>10, <1>14, <3>1
  <2> QED
    BY <2>2, <2>3
<1>15. \/ f.at = "hello" /\ Put(c, "far", Choosing(f)) /\ aside
       \/ f.at = "methods" /\ PutAfter(c, "far", Granting(f), m) /\ aside
       \/ f.at = "head" /\ Put(c, "far", HalfRead(f)) /\ aside
       \/ f.at = "rest" /\ IF c \in {"proxy", "own"} THEN Proxied(c, domain) ELSE Claim(c, domain)
  BY DEF socks5ServerHandshake, Choosing, Granting, HalfRead, Far, registration
<1> QED
  BY <1>7, <1>8, <1>9, <1>13, <1>14, <1>15

-----------------------------------------------------------------------------
(* The host.                                                               *)

(* A step that touches no connection. *)
LEMMA EndsStay ==
  ASSUME Inv, end' = end, setup' = setup, sent' = sent, last' = last, activated => activated',
         offered' \in {Nothing} \cup SUBSET {"direct", "proxy"},
         pending' \in {"absent", "waiting", "claimed"},
         promise' \in {"open", "timeout", "aborted", "direct", "stray"},
         opener' \in {"idle", "awaiting", "dialling", "open", "failed"},
         released' \in BOOLEAN, activated' \in BOOLEAN,
         promise' = promise \/ promise = "open",
         HostOK', OrderOK'
  PROVE  Inv'
<1>1. Typed /\ (\A d \in Conns : ConnOK(d)) /\ OrderOK /\ SentBySource
  BY DEF Inv
<1>2. \A d \in Conns : Near(d)' = Near(d) /\ Far(d)' = Far(d)
  BY DEF Near, Far
<1>3. AllOnward
  BY <1>2, NoStep DEF AllOnward
<1>4. (Used' = Used \/ sent = 0) /\ SentBySource'
  BY <1>1, <1>3, SourceStays
<1>5. \A d \in Conns, e \in Ends : Carried(d, e)' = Carried(d, e)
  BY <1>1, <1>4, CarriedStays
<1>6. Typed'
  BY <1>1 DEF Typed
<1>7. ASSUME NEW d \in Conns PROVE ConnOK(d)'
  BY <1>1, <1>2, <1>5, ConnStays
<1> QED
  BY <1>4, <1>6, <1>7 DEF Inv

LEMMA OfferKeeps ==
  ASSUME Inv, candidatesFor
  PROVE  Inv'
<1>1. Typed /\ HostOK /\ OrderOK
  BY DEF Inv
<1>2. /\ end' = end /\ setup' = setup /\ sent' = sent /\ last' = last /\ activated' = activated /\ opener' = opener
      /\ promise' = promise /\ released' = released /\ offered = Nothing
      /\ offered' \in SUBSET {"direct", "proxy"} /\ pending' \in {"absent", "waiting"}
  BY DEF candidatesFor
<1>3. /\ promise = "open" /\ opener = "idle"
      /\ \A c \in Conns : Near(c) = Closed /\ Far(c) = Closed
  BY <1>1, <1>2 DEF HostOK, Ends, Near, Far
<1>4. offered' # Nothing
  BY <1>2 DEF Nothing
<1>5. HostOK'
  BY <1>2, <1>3, <1>4 DEF HostOK
<1>6. OrderOK'
  BY <1>1, <1>2, <1>3 DEF OrderOK, Near, Far, Closed, Conns
<1> QED
  BY <1>1, <1>2, <1>5, <1>6, EndsStay DEF Typed

LEMMA ExpiryKeeps ==
  ASSUME Inv, RegistrationExpires
  PROVE  Inv'
<1>1. Typed /\ HostOK /\ OrderOK
  BY DEF Inv
<1>2. /\ end' = end /\ setup' = setup /\ sent' = sent /\ last' = last /\ activated' = activated /\ opener' = opener
      /\ offered' = offered /\ released' = released
      /\ pending = "waiting" /\ pending' = "absent" /\ promise' = "timeout"
  BY DEF RegistrationExpires
<1>3. promise = "open" /\ offered # Nothing
  BY <1>1, <1>2 DEF HostOK
<1>4. HostOK'
  BY <1>1, <1>2, <1>3 DEF HostOK
<1>5. OrderOK'
  BY <1>1, <1>2 DEF OrderOK, Near, Far
<1> QED
  BY <1>1, <1>2, <1>3, <1>4, <1>5, EndsStay DEF Typed

LEMMA ReleaseKeeps ==
  ASSUME Inv, Release
  PROVE  Inv'
<1>1. Typed /\ HostOK /\ OrderOK
  BY DEF Inv
<1>2. /\ end' = end /\ setup' = setup /\ sent' = sent /\ last' = last /\ activated' = activated /\ opener' = opener
      /\ offered' = offered /\ released' = TRUE /\ pending' = "absent"
      /\ promise' = IF promise = "open" /\ pending # "absent" THEN "aborted" ELSE promise
  BY DEF Release
<1>3. HostOK'
  BY <1>1, <1>2 DEF HostOK, Near, Far
<1>4. OrderOK'
  BY <1>1, <1>2 DEF OrderOK, Near, Far
<1> QED
  BY <1>1, <1>2, <1>3, <1>4, EndsStay DEF Typed

LEMMA OpenKeeps ==
  ASSUME Inv, NEW c \in {"direct", "proxy"}, openChosen(c)
  PROVE  Inv'
<1>1. Typed /\ HostOK /\ OrderOK
  BY DEF Inv
<1>2. /\ end' = end /\ setup' = setup /\ sent' = sent /\ last' = last /\ activated' = activated
      /\ offered' = offered /\ released' = released /\ pending' = pending /\ promise' = promise
      /\ opener = "idle" /\ c \in offered
      /\ opener' \in {"dialling", "failed", "awaiting"} /\ (opener' = "dialling" => c = "proxy")
  BY DEF openChosen, registration
<1>3. offered # Nothing
  BY <1>2 DEF Nothing
<1>4. opener' = "dialling" => Near("proxy").at = "open"
  BY <1>2 DEF openChosen, Open, Near
<1>5. HostOK'
  BY <1>1, <1>2, <1>3 DEF HostOK, Near, Far
<1>6. OrderOK'
  BY <1>1, <1>2, <1>4 DEF OrderOK, Near, Far
<1> QED
  BY <1>1, <1>2, <1>5, <1>6, EndsStay DEF Typed

LEMMA ActivateKeeps ==
  ASSUME Inv, Activate
  PROVE  Inv'
<1>1. Typed /\ HostOK /\ OrderOK
  BY DEF Inv
<1>2. /\ end' = end /\ setup' = setup /\ sent' = sent /\ last' = last
      /\ offered' = offered /\ released' = released /\ pending' = pending /\ promise' = promise
      /\ Near("own").at = "activating" /\ ~activated
      /\ activated' \in {TRUE, activated} /\ opener' \in {opener, "failed"}
  BY DEF Activate, registration, Near
<1>3. offered # Nothing
  BY <1>1, <1>2, SomethingOffered DEF Conns
<1>4. HostOK'
  BY <1>1, <1>2, <1>3 DEF HostOK, Near, Far
<1>5. OrderOK'
  BY <1>1, <1>2 DEF OrderOK, Near, Far
<1> QED
  BY <1>1, <1>2, <1>4, <1>5, EndsStay DEF Typed

LEMMA ActivatedKeeps ==
  ASSUME Inv, Activated
  PROVE  Inv'
<1> DEFINE c == "own"
           m == MethodOf(c)
           q == Request(c)
           w == Carried(c, "near")
           v == Carried(c, "far")
           n == Near(c)
           f == Far(c)
<1>0. c \in Conns
  BY DEF Conns
<1>1. /\ end \in AllEnds /\ n \in Sockets /\ f \in Sockets
      /\ InStep(n, f, m, q, w, v) /\ HostOK
  BY <1>0, AtHand
<1>2. /\ setup' = setup /\ offered' = offered /\ pending' = pending /\ promise' = promise
      /\ released' = released /\ activated' = activated /\ sent' = sent /\ last' = last /\ opener' = "open"
      /\ n.at = "activating" /\ Put(c, "near", Attached(n))
  BY DEF Activated, registration, Near
<1>3. offered # Nothing
  BY <1>0, <1>1, <1>2, SomethingOffered
<1> HIDE DEF c, m, q, w, v, n, f
<1>4. /\ Attached(n) \in Sockets /\ InStep(Attached(n), f, m, q, w, v)
      /\ Onward(n, f, Attached(n), f) /\ Unbroken(n, f, Attached(n), f) /\ NotLetIn(f, f)
  BY <1>1, <1>2, ActivatedStep
<1>5. Only(c) /\ Near(c)' = Attached(n) /\ Far(c)' = f
  BY <1>0, <1>1, <1>2, <1>4, Puts DEF n, f
<1>6. /\ InStep(Near(c)', Far(c)', m, q, w, v)
      /\ Onward(Near(c), Far(c), Near(c)', Far(c)') /\ NotLetIn(Far(c), Far(c)')
      /\ Unbroken(Near(c), Far(c), Near(c)', Far(c)')
  BY <1>4, <1>5 DEF n, f
<1> QED
  BY <1>0, <1>2, <1>3, <1>5, <1>6, LocalStep DEF m, q, w, v

(* openChosen() has waited for the connection that was claimed: it has not *)
(* dialled the proxy, so which connection is used stays open.              *)
LEMMA AcceptedKeeps ==
  ASSUME Inv, Accepted
  PROVE  Inv'
<1>1. Typed /\ (\A c \in Conns : ConnOK(c)) /\ HostOK /\ OrderOK /\ SentBySource /\ end \in AllEnds
  BY DEF Inv, Typed, AllEnds
<1>2. /\ setup' = setup /\ offered' = offered /\ promise' = promise /\ pending' = "absent"
      /\ released' = released /\ activated' = activated /\ sent' = sent /\ last' = last /\ opener = "awaiting"
      /\ opener' \in {"open", "failed"}
  BY DEF Accepted
<1>3. offered # Nothing
  BY <1>1, <1>2 DEF HostOK
<1>4. HostOK'
  BY <1>2, <1>3 DEF HostOK
<1>5. Near("own").at = "idle" /\ ~activated
  BY <1>1, <1>2 DEF OrderOK
<1>6. CASE promise \notin Conns
  <2>1. end' = end
    BY <1>6 DEF Accepted
  <2>2. OrderOK'
    BY <1>1, <1>2, <1>5, <2>1 DEF OrderOK, Near, Far
  <2> QED
    BY <1>1, <1>2, <1>4, <2>1, <2>2, EndsStay DEF Typed
<1>7. CASE promise \in Conns
  <2>0. promise \in {"direct", "stray"}
    BY <1>1, <1>7 DEF Typed, Conns
  <2> SUFFICES ASSUME NEW c \in {"direct", "stray"}, promise = c PROVE Inv'
    BY <2>0
  <2> DEFINE m == MethodOf(c)
             q == Request(c)
             w == Carried(c, "near")
             v == Carried(c, "far")
             n == Near(c)
             f == Far(c)
             f2 == Attached(f)
  <2>1. c \in Conns
    BY DEF Conns
  <2>2. f.at = "claimed"
    BY <1>1, <1>2, <2>1 DEF HostOK
  <2>3. n \in Sockets /\ f \in Sockets /\ InStep(n, f, m, q, w, v)
    BY <2>1, AtHand
  <2>4. Put(c, "far", f2)
    BY <1>7 DEF Accepted, Far
  <2>5. f2 \in Sockets /\ InStep(n, f2, m, q, w, v) /\ f2.at = "open"
    <3> HIDE DEF n, f, m, q, w, v
    <3> QED
      BY <2>2, <2>3, AcceptedStep
  <2>6. Only(c) /\ Far(c)' = f2 /\ Near(c)' = n
    <3> HIDE DEF f2
    <3> QED
      BY <1>1, <2>1, <2>4, <2>5, Puts
  <2> HIDE DEF f2
  <2>7. /\ \A d \in Conns : Near(d)' = Near(d)
        /\ \A d \in Conns : d # c => Far(d)' = Far(d)
    BY <2>6 DEF Only
  <2>8. Used' = Used
    <3>1. Near("own")' = Near("own") /\ Near("proxy")' = Near("proxy")
      BY <2>7 DEF Conns
    <3> QED
      BY <1>2, <3>1 DEF Used, Near
  <2>9. SentBySource'
    <3>1. Source' = Source
      BY <1>2, <2>8 DEF Source, HostEnd, DiallerEnd
    <3>2. Source \in {<<"own", "near">>, <<"direct", "far">>, <<"proxy", "near">>, <<"direct", "near">>}
      BY DEF Source, HostEnd, DiallerEnd, Used
    <3>3. At(Source).at \in Attaching => At(Source)'.at \in Attaching
      <4>1. Source \in {<<"own", "near">>, <<"proxy", "near">>, <<"direct", "near">>} => At(Source)' = At(Source)
        BY <2>7, <3>1 DEF At, Near, Conns
      <4>2. Source = <<"direct", "far">> => At(Source)' = At(Source) \/ At(Source)'.at = "open"
        BY <2>5, <2>6, <2>7, <3>1 DEF At, Far, Conns
      <4> QED
        BY <3>2, <4>1, <4>2 DEF Attaching
    <3> QED
      BY <1>1, <1>2, <2>8, <3>1, <3>3 DEF SentBySource
  <2>10. \A d \in Conns, e \in Ends : Carried(d, e)' = Carried(d, e)
    BY <1>1, <1>2, <2>8, CarriedStays
  <2>11. ConnOK(c)'
    <3>1. Unbroken(Near(c), Far(c), Near(c)', Far(c)')
      BY <2>5, <2>6 DEF Unbroken
    <3>2. c \in {"direct", "stray"} => promise' = c
      BY <1>2
    <3>3. ConnOK(c) /\ InStep(Near(c)', Far(c)', m, q, w, v)
      BY <1>1, <2>1, <2>5, <2>6
    <3>4. c \notin {"proxy", "own"}
      BY <2>1
    <3> QED
      BY <1>2, <2>1, <2>10, <3>1, <3>2, <3>3, <3>4, ConnMoves
  <2>12. ASSUME NEW d \in Conns, d # c PROVE ConnOK(d)'
    BY <1>1, <1>2, <2>7, <2>10, <2>12, ConnStays
  <2>13. OrderOK'
    <3>1. Near("own")' = Near("own") /\ Near("proxy")' = Near("proxy") /\ Near("direct")' = Near("direct")
      BY <2>7 DEF Conns
    <3>2. opener' = "open"
      BY <1>7 DEF Accepted
    <3> QED
      BY <1>1, <1>2, <1>5, <3>1, <3>2 DEF OrderOK
  <2>14. Typed'
    BY <1>1, <1>2, <2>6 DEF Typed, Only, AllEnds
  <2> QED
    BY <1>4, <2>9, <2>11, <2>12, <2>13, <2>14 DEF Inv
<1> QED
  BY <1>6, <1>7

-----------------------------------------------------------------------------
(* A connection is dialled.                                                *)

Dialled(c) ==
  /\ \A d \in Conns : d # c => Near(d)' = Near(d) /\ Far(d)' = Far(d)
  /\ Near(c)'.at \in {"method", "failed"} /\ Far(c)'.at \in {"hello", "idle"}
  /\ opener' = opener \/ (c = "own" /\ opener' = "failed")

(* The writer's connection is settled before another one is dialled. *)
LEMMA DialSource ==
  ASSUME Typed, OrderOK, SentBySource, NEW c \in Conns, Near(c).at = "idle", Far(c).at = "idle",
         MayDial(c), Dialled(c), setup' = setup, sent' = sent, last' = last,
         activated' = activated
  PROVE  (Used' = Used \/ sent = 0) /\ SentBySource'
<1>0. setup.writer \in {"host", "dialler"} /\ sent \in Nat
  BY AdapterAssumption DEF Typed, Setups
<1>1. /\ "own" # c => Near("own")' = Near("own")
      /\ "proxy" # c => Near("proxy")' = Near("proxy")
      /\ "direct" # c => Near("direct")' = Near("direct") /\ Far("direct")' = Far("direct")
  BY DEF Dialled, Conns
<1>2. sent = 0 => SentBySource'
  BY DEF SentBySource
<1>3. CASE setup.writer = "host"
  <2>1. CASE c = "own" \/ (c = "direct" /\ Near("own").at = "idle")
    <3>1. Near("own").at = "idle" /\ Far("direct").at \notin Attaching
      BY <2>1 DEF MayDial, OrderOK, Attaching
    <3>2. Source = <<"direct", "far">>
      BY <1>3, <3>1 DEF Source, HostEnd, Used, Near
    <3>3. sent = 0
      BY <1>0, <3>1, <3>2 DEF SentBySource, At, Far
    <3> QED
      BY <1>2, <3>3
  <2>2. CASE ~(c = "own" \/ (c = "direct" /\ Near("own").at = "idle"))
    <3>1. Near("own")' = Near("own")
      BY <1>1, <2>2
    <3>2. Used' = Used
      BY <1>3, <3>1 DEF Used, Near
    <3>3. Source' = Source /\ (Source = <<"own", "near">> \/ (Source = <<"direct", "far">> /\ c # "direct"))
      BY <1>3, <2>2, <3>2 DEF Source, HostEnd, Used, Near
    <3>4. At(Source)' = At(Source)
      BY <1>1, <3>1, <3>3 DEF At, Near, Far
    <3> QED
      BY <3>2, <3>3, <3>4 DEF SentBySource
  <2> QED
    BY <2>1, <2>2
<1>4. CASE setup.writer = "dialler"
  <2>1. Near("proxy")'.at \in Attaching <=> Near("proxy").at \in Attaching
    BY <1>1 DEF Dialled, Attaching
  <2>2. Used' = Used
    BY <1>4, <2>1 DEF Used, Near, Attaching
  <2>3. Source' = Source /\ Source = <<Used, "near">> /\ Used \in {"proxy", "direct"}
    BY <1>4, <2>2 DEF Source, DiallerEnd, Used
  <2>4. CASE Used = c
    <3>1. At(Source) = Near(c)
      BY <2>3, <2>4 DEF At, Near
    <3>2. sent = 0
      BY <1>0, <3>1 DEF SentBySource, Attaching
    <3> QED
      BY <1>2, <3>2
  <2>5. CASE Used # c
    <3>1. At(Source)' = At(Source)
      BY <1>1, <2>3, <2>5 DEF At, Near
    <3> QED
      BY <2>2, <2>3, <3>1 DEF SentBySource
  <2> QED
    BY <2>4, <2>5
<1> QED
  BY <1>0, <1>3, <1>4

LEMMA DialOrder ==
  ASSUME OrderOK, NEW c \in Conns, Near(c).at = "idle", MayDial(c), Dialled(c),
         offered' = offered, activated' = activated, offered # Nothing
  PROVE  OrderOK'
<1>1. /\ "own" # c => Near("own")' = Near("own")
      /\ "proxy" # c => Near("proxy")' = Near("proxy")
      /\ "direct" # c => Near("direct")' = Near("direct") /\ Far("direct")' = Far("direct")
  BY DEF Dialled, Conns
<1>2. c = "own" => opener = "dialling" /\ opener' \in {"dialling", "failed"}
  BY DEF MayDial, Dialled
<1>3. c # "own" => opener' = opener
  BY DEF Dialled
<1>4. (opener \in {"idle", "awaiting"} => Near("own").at = "idle")'
  BY <1>1, <1>2, <1>3 DEF OrderOK
<1>5. (opener = "dialling" \/ Near("own").at # "idle" => Near("proxy").at \in {"open", "ended"})'
  <2>1. CASE c = "own"
    BY <1>1, <1>2, <2>1 DEF OrderOK
  <2>2. CASE c = "proxy"
    BY <1>1, <1>3, <2>2 DEF OrderOK
  <2>3. CASE c \notin {"own", "proxy"}
    BY <1>1, <1>3, <2>3 DEF OrderOK
  <2> QED
    BY <2>1, <2>2, <2>3
<1>6. (opener \in {"idle", "awaiting", "dialling"} \/ Near("own").at # "idle" =>
         Far("direct").at \notin Attaching)'
  <2>1. CASE c = "direct"
    BY <2>1 DEF Dialled, Attaching
  <2>2. CASE c # "direct"
    BY <1>1, <1>2, <1>3, <2>2 DEF OrderOK
  <2> QED
    BY <2>1, <2>2
<1>7. (Near("direct").at # "idle" => "direct" \in offered)'
  BY <1>1 DEF OrderOK, MayDial
<1>8. (Near("proxy").at # "idle" =>
         Near("direct").at = "failed" \/ (Near("direct").at = "idle" /\ "direct" \notin offered))'
  <2>1. CASE c = "direct"
    <3>1. Near("proxy").at = "idle"
      BY <2>1 DEF OrderOK, MayDial
    <3> QED
      BY <1>1, <2>1, <3>1
  <2>2. CASE c = "proxy"
    BY <1>1, <2>2 DEF OrderOK, MayDial, Tried, Near
  <2>3. CASE c \notin {"direct", "proxy"}
    BY <1>1, <2>3 DEF OrderOK
  <2> QED
    BY <2>1, <2>2, <2>3
<1>9. (activated => Near("own").at \in {"activating", "open", "ended"})'
  BY <1>1 DEF OrderOK
<1> QED
  BY <1>4, <1>5, <1>6, <1>7, <1>8, <1>9 DEF OrderOK

LEMMA DialKeeps ==
  ASSUME Inv, NEW c \in Conns, Dial(c)
  PROVE  Inv'
<1> DEFINE m == MethodOf(c)
           q == Request(c)
           w == Carried(c, "near")
           v == Carried(c, "far")
           n == Near(c)
           f == Far(c)
           x == IF c = "own" THEN <<Fin>> ELSE <<>>
<1>1. Typed /\ (\A d \in Conns : ConnOK(d)) /\ HostOK /\ OrderOK /\ SentBySource /\ end \in AllEnds
  BY DEF Inv, Typed, AllEnds
<1>2. /\ setup' = setup /\ offered' = offered /\ pending' = pending /\ promise' = promise
      /\ released' = released /\ activated' = activated /\ sent' = sent /\ last' = last
      /\ n.at = "idle" /\ MayDial(c)
  BY DEF Dial, registration, Near
<1>3. n \in Sockets /\ f \in Sockets /\ InStep(n, f, m, q, w, v)
  BY AtHand
<1>4. offered # Nothing
  BY <1>1, <1>2 DEF MayDial, HostOK, Nothing
<1>5. x \in {<<>>, <<Fin>>} /\ x \in Words
  BY Grants, <1>3, Fields, NoWords
<1>6. opener' \in {opener, "failed"} /\ (opener' # opener => c = "own")
  BY DEF Dial, DialFails, OpenerOf
<1>7. /\ Unborn(n, f) /\ Greeter \in Sockets /\ Listener \in Sockets /\ InStep(Greeter, Listener, m, q, w, v)
      /\ Greeter.at = "method" /\ Listener.at = "hello"
      /\ Failed(n) \in Sockets /\ Gets(f, x) \in Sockets /\ InStep(Failed(n), Gets(f, x), m, q, w, v)
      /\ Failed(n).at = "failed" /\ Gets(f, x).at = "idle"
  <2> HIDE DEF m, q, w, v, n, f, x
  <2> QED
    BY <1>2, <1>3, <1>5, DialStep
<1>8. f.at = "idle"
  BY <1>7 DEF Unborn, Closed
<1>9. /\ Only(c) /\ InStep(Near(c)', Far(c)', m, q, w, v)
      /\ Near(c)'.at \in {"method", "failed"} /\ Far(c)'.at \in {"hello", "idle"}
  <2>1. CASE PutAfter(c, "near", Failed(n), x)
    <3>1. Only(c) /\ Near(c)' = Failed(n) /\ Far(c)' = Gets(f, x)
      BY <1>1, <1>5, <1>7, <2>1, PutsAfter
    <3> QED
      BY <1>7, <3>1
  <2>2. CASE end' = [end EXCEPT ![c] = [near |-> Greeter, far |-> Listener]]
    <3> DEFINE both == [near |-> Greeter, far |-> Listener]
    <3>1. both["near"] = Greeter /\ both["far"] = Listener
      OBVIOUS
    <3>2. both \in [Ends -> Sockets]
      BY <1>7 DEF Ends
    <3> HIDE DEF both
    <3>3. end' \in AllEnds
      BY <1>1, <2>2, <3>2 DEF AllEnds, both
    <3>4. end'[c] = both /\ \A d \in Conns : d # c => end'[d] = end[d]
      BY <1>1, <2>2 DEF AllEnds, both
    <3>5. Only(c) /\ Near(c)' = Greeter /\ Far(c)' = Listener
      BY <3>1, <3>3, <3>4 DEF Only, Near, Far
    <3> QED
      BY <1>7, <3>5
  <2>3. PutAfter(c, "near", Failed(n), x) \/ end' = [end EXCEPT ![c] = [near |-> Greeter, far |-> Listener]]
    BY DEF Dial, DialFails, Greeter, Listener, Near
  <2> QED
    BY <2>1, <2>2, <2>3
<1>10. Dialled(c)
  BY <1>6, <1>9 DEF Dialled, Only
<1>11. (Used' = Used \/ sent = 0) /\ SentBySource'
  BY <1>1, <1>2, <1>8, <1>10, DialSource
<1>12. OrderOK'
  BY <1>1, <1>2, <1>4, <1>10, DialOrder
<1>13. \A d \in Conns, e \in Ends : Carried(d, e)' = Carried(d, e)
  BY <1>1, <1>2, <1>11, CarriedStays
<1>14. ConnOK(c)'
  <2>1. Unbroken(Near(c), Far(c), Near(c)', Far(c)')
    BY <1>9 DEF Unbroken
  <2>2. Far(c)'.at \notin {"claimed"} \cup Attaching
    BY <1>9 DEF Attaching
  <2>3. ConnOK(c)
    BY <1>1
  <2> QED
    BY <1>2, <1>9, <1>13, <2>1, <2>2, <2>3, ConnMoves
<1>15. ASSUME NEW d \in Conns, d # c PROVE ConnOK(d)'
  <2>1. Near(d)' = Near(d) /\ Far(d)' = Far(d) /\ ConnOK(d)
    BY <1>1, <1>9, <1>15 DEF Only
  <2> QED
    BY <1>2, <1>13, <2>1, ConnStays
<1>16. HostOK'
  <2>1. \A d \in {"direct", "stray"} : Far(d).at = "claimed" => Far(d)' = Far(d)
    BY <1>8, <1>9 DEF Only, Conns
  <2> QED
    BY <1>1, <1>2, <1>4, <1>6, <2>1 DEF HostOK
<1>17. Typed'
  BY <1>1, <1>2, <1>6, <1>9 DEF Typed, Only, AllEnds
<1> QED
  BY <1>11, <1>12, <1>14, <1>15, <1>16, <1>17 DEF Inv

-----------------------------------------------------------------------------
(* The body.                                                               *)

(* A body that is not closed has no FIN in it: an end that was closed has  *)
(* not been told all that was written.                                     *)
LEMMA NotEndedYet ==
  ASSUME Typed, sent <= last, NEW g \in Words
  PROVE  g ++ <<Fin>> # Written
<1> DEFINE W == Written
           G == g ++ <<Fin>>
<1>1. sent \in Nat /\ last \in Nat
  BY AdapterAssumption DEF Typed
<1>2. Len(W) = sent /\ \A i \in 1..sent : W[i] = 100 + i
  BY <1>1 DEF Written, Byte
<1>3. Len(g) \in Nat /\ Len(<<Fin>>) = 1 /\ <<Fin>> \in Words /\ <<Fin>>[1] = 99
  BY Grants, LenProperties DEF Words, Fin
<1>4. Len(G) = Len(g) + 1 /\ G[Len(g) + 1] = 99
  <2>1. /\ Len(G) = Len(g) + Len(<<Fin>>)
        /\ \A i \in 1..Len(<<Fin>>) : G[Len(g) + i] = <<Fin>>[i]
    BY <1>3, Joins
  <2> QED
    BY <2>1, <1>3
<1> HIDE DEF G, W
<1>5. G # W
  BY <1>1, <1>2, <1>3, <1>4
<1> QED
  BY <1>5 DEF G, W

(* The next word of a body of n bytes. *)
TheWord(n) == IF sent < n THEN Byte(sent + 1) ELSE Fin

LEMMA OneWordMore ==
  ASSUME Typed, sent <= last, sent' = sent + 1, NEW n \in {last, sent}, last' = n
  PROVE  TheWord(n) \in Nat /\ <<TheWord(n)>> \in Words /\ Written' = Written ++ <<TheWord(n)>>
<1> DEFINE W == Written
           V == Written'
           x == TheWord(n)
<1>1. sent \in Nat /\ last \in Nat
  BY AdapterAssumption DEF Typed
<1>2. x \in Nat
  BY <1>1 DEF TheWord, Byte, Fin
<1>3. <<x>> \in Words /\ Len(<<x>>) = 1 /\ <<x>>[1] = x
  <2> HIDE DEF x
  <2> QED
    BY <1>2 DEF Words
<1>4. W \in Words /\ Len(W) = sent /\ \A i \in 1..sent : W[i] = IF i > n THEN Fin ELSE Byte(i)
  BY <1>1, WordsCarried DEF Written
<1>5. V \in Words /\ Len(V) = sent + 1 /\ \A i \in 1..sent + 1 : V[i] = IF i > n THEN Fin ELSE Byte(i)
  BY <1>1 DEF Written, Byte, Fin, Words
<1>6. x = IF sent + 1 > n THEN Fin ELSE Byte(sent + 1)
  BY <1>1 DEF TheWord
<1>7. /\ W ++ <<x>> \in Words /\ Len(W ++ <<x>>) = Len(W) + Len(<<x>>)
      /\ \A i \in 1..Len(W) : (W ++ <<x>>)[i] = W[i]
      /\ \A i \in 1..Len(<<x>>) : (W ++ <<x>>)[Len(W) + i] = <<x>>[i]
  BY <1>3, <1>4, Joins
<1> HIDE DEF W, V, x
<1> DEFINE U == W ++ <<x>>
<1>8. /\ U \in Words /\ Len(U) = sent + 1
      /\ \A i \in 1..sent : U[i] = W[i]
      /\ U[sent + 1] = x
  <2>1. 1 \in 1..Len(<<x>>)
    BY <1>3
  <2> QED
    BY <1>3, <1>4, <1>7, <2>1
<1> HIDE DEF U
<1>9. \A i \in 1..sent + 1 : V[i] = U[i]
  BY <1>1, <1>4, <1>5, <1>6, <1>8
<1>10. V = U
  BY <1>5, <1>8, <1>9, SameWords
<1> QED
  BY <1>2, <1>3, <1>10 DEF U, V, W, x

(* What the writer is connected to. *)
LEMMA TargetReady ==
  ASSUME Inv, At(Source).at = "open", Used = "proxy" => activated
  PROVE  \/ /\ Target = <<"direct", "near">>
            /\ Far("direct").at = "open"
         \/ /\ Target = <<"direct", "far">>
            /\ Near("direct").at = "open"
         \/ /\ Target \in {<<"proxy", "near">>, <<"own", "near">>}
            /\ Near(Target[1]).at \in {"activating", "open", "ended"}
<1>1. Typed /\ OrderOK
  BY DEF Inv
<1>2. setup.writer \in {"host", "dialler"}
  BY <1>1, AdapterAssumption DEF Typed, Setups
<1>3. CASE setup.writer = "host" /\ Used = "direct"
  BY <1>3 DEF Source, Target, HostEnd, DiallerEnd, At, Far
<1>4. CASE setup.writer = "dialler" /\ Used = "direct"
  BY <1>4 DEF Source, Target, HostEnd, DiallerEnd, At, Near
<1>5. CASE setup.writer = "host" /\ Used = "proxy"
  <2>1. Target = <<"proxy", "near">> /\ Near("own").at # "idle"
    BY <1>5 DEF Target, DiallerEnd, Used, Near
  <2>2. Near("proxy").at \in {"open", "ended"}
    BY <1>1, <2>1 DEF OrderOK
  <2> QED
    BY <2>1, <2>2
<1>6. CASE setup.writer = "dialler" /\ Used = "proxy"
  <2>1. Target = <<"own", "near">>
    BY <1>6 DEF Target, HostEnd
  <2>2. Near("own").at \in {"activating", "open", "ended"}
    BY <1>1, <1>6 DEF OrderOK
  <2> QED
    BY <2>1, <2>2
<1> QED
  BY <1>2, <1>3, <1>4, <1>5, <1>6 DEF Used

LEMMA SendMeans ==
  ASSUME Inv, NEW m \in {last, sent}, Send(m)
  PROVE  /\ Target = <<"direct", "far">> => Put("direct", "far", Gets(Far("direct"), <<TheWord(m)>>))
         /\ \A c \in Conns : Target = <<c, "near">> => Put(c, "near", Gets(Near(c), <<TheWord(m)>>))
<1>1. end \in AllEnds /\ Typed /\ sent <= last /\ sent' = sent + 1 /\ last' = m
  BY DEF Inv, Typed, AllEnds, Send
<1>2. end' = [end EXCEPT ![Target[1]][Target[2]].net = Append(@, TheWord(m))]
  BY DEF Send, TheWord
<1>3. TheWord(m) \in Nat
  BY <1>1, OneWordMore
<1>4. ASSUME NEW c \in Conns, NEW e \in Ends, Target = <<c, e>>
      PROVE  Put(c, e, Gets(end[c][e], <<TheWord(m)>>))
  <2>1. end[c][e] \in Sockets
    BY <1>1, EndsTyped
  <2>2. end[c][e].net \in Words
    BY <2>1, Fields
  <2>3. Append(end[c][e].net, TheWord(m)) = end[c][e].net ++ <<TheWord(m)>>
    BY <1>3, <2>2, AppendIsConcat DEF Words, ++
  <2>4. end' = [end EXCEPT ![c][e].net = end[c][e].net ++ <<TheWord(m)>>]
    BY <1>2, <1>4, <2>3
  <2>5. end' = [end EXCEPT ![c][e] = [end[c][e] EXCEPT !.net = end[c][e].net ++ <<TheWord(m)>>]]
    BY <2>4
  <2> QED
    BY <2>5 DEF Put, Gets
<1> QED
  BY <1>4 DEF Conns, Ends, Near, Far

LEMMA SendKeeps ==
  ASSUME Inv, NEW z \in {last, sent}, Send(z),
         z = last \/ setup.faults \cap {"abort", "hangup"} # {}
  PROVE  Inv'
<1> DEFINE x == <<TheWord(z)>>
<1>1. Typed /\ (\A d \in Conns : ConnOK(d)) /\ HostOK /\ OrderOK /\ SentBySource /\ end \in AllEnds
  BY DEF Inv, Typed, AllEnds
<1>2. /\ setup' = setup /\ offered' = offered /\ pending' = pending /\ promise' = promise /\ opener' = opener
      /\ released' = released /\ activated' = activated /\ sent' = sent + 1 /\ sent <= last
      /\ last' = z
      /\ At(Source).at = "open" /\ (Used = "proxy" => activated)
  BY DEF Send, hostVars, registration
<1>3. x \in Words /\ Written' = Written ++ x /\ Written \in Words
  BY <1>1, <1>2, OneWordMore, WordsCarried
<1>4. PICK c \in Conns, e \in Ends :
        /\ Target = <<c, e>>
        /\ IF e = "near" THEN Far(c).at = "open" \/ Near(c).at \in {"activating", "open", "ended"}
           ELSE c = "direct" /\ Near(c).at = "open"
  BY <1>2, TargetReady DEF Conns, Ends
<1> DEFINE m == MethodOf(c)
           q == Request(c)
           w == Carried(c, "near")
           v == Carried(c, "far")
           n == Near(c)
           f == Far(c)
<1>5. /\ n \in Sockets /\ f \in Sockets /\ w \in Words /\ v \in Words /\ InStep(n, f, m, q, w, v)
  BY AtHand
<1>6. offered # Nothing
  BY <1>1, <1>4, SomethingOffered
<1> HIDE DEF x
<1>7. /\ Only(c)
      /\ e = "near" => Near(c)' = Gets(n, x) /\ Far(c)' = f
      /\ e = "far" => Near(c)' = n /\ Far(c)' = Gets(f, x)
  <2>1. Gets(n, x) \in Sockets /\ Gets(f, x) \in Sockets
    BY <1>3, <1>5, GetsMeans
  <2>2. CASE e = "near"
    <3>1. Put(c, "near", Gets(n, x))
      BY <1>4, <2>2, SendMeans DEF x
    <3> QED
      BY <1>1, <2>1, <2>2, <3>1, Puts
  <2>3. CASE e = "far"
    <3>1. Put(c, "far", Gets(f, x))
      BY <1>4, <2>3, SendMeans DEF x
    <3> QED
      BY <1>1, <2>1, <2>3, <3>1, Puts
  <2> QED
    BY <2>2, <2>3 DEF Ends
<1>8. \A d \in Conns : Near(d)'.at = Near(d).at /\ Far(d)'.at = Far(d).at
  <2>1. Gets(n, x).at = n.at /\ Gets(f, x).at = f.at
    BY <1>3, <1>5, GetsMeans
  <2> QED
    BY <1>7, <2>1 DEF Only, Ends
<1>9. AllOnward
  BY <1>8 DEF AllOnward, Onward
<1>10. Used' = Used /\ Source' = Source /\ Target' = Target
  <2>1. end["own"]["near"].at' = end["own"]["near"].at /\ end["proxy"]["near"].at' = end["proxy"]["near"].at
    BY <1>8 DEF Near, Conns
  <2>2. Used' = Used
    BY <1>2, <2>1 DEF Used
  <2> QED
    BY <1>2, <2>2 DEF Source, Target, HostEnd, DiallerEnd
<1>11. SentBySource'
  <2>1. Source \in {<<"own", "near">>, <<"direct", "far">>, <<"proxy", "near">>, <<"direct", "near">>}
    BY DEF Source, HostEnd, DiallerEnd, Used
  <2>2. At(Source)'.at = At(Source).at
    BY <1>8, <1>10, <2>1 DEF At, Near, Far, Conns
  <2> QED
    BY <1>2, <1>10, <2>2 DEF SentBySource, Attaching
<1>12. Typed'
  <2>1. sent' \in 0..last' + 1 /\ last' \in 0..Length
    BY <1>1, <1>2, AdapterAssumption DEF Typed
  <2> QED
    BY <1>1, <1>2, <1>7, <2>1 DEF Typed, Only, AllEnds
<1>13. ASSUME NEW d \in Conns, NEW e2 \in Ends
       PROVE  /\ <<d, e2>> = <<c, e>> => Carried(d, e2) = Written /\ Carried(d, e2)' = Written ++ x
              /\ <<d, e2>> # <<c, e>> => Carried(d, e2) = <<>> /\ Carried(d, e2)' = <<>>
  BY <1>3, <1>4, <1>10 DEF Carried
<1>14. ConnOK(c)'
  <2>1. ConnOK(c)
    BY <1>1
  <2>2. /\ MethodOf(c)' = m /\ Request(c)' = q /\ Faulty("reset")' = Faulty("reset")
    BY <1>2 DEF MethodOf, Request, Faulty
  <2>3. CASE e = "near"
    <3>1. w = Written /\ Carried(c, "near")' = Written ++ x /\ v = <<>> /\ Carried(c, "far")' = <<>>
      BY <1>13, <2>3 DEF Ends
    <3>2. n.got ++ <<Fin>> # Written
      BY <1>1, <1>2, <1>5, Fields, NotEndedYet
    <3> HIDE DEF m, q, w, v, n, f
    <3>3. InStep(Gets(n, x), f, m, q, w ++ x, v)
      BY <1>3, <1>4, <1>5, <2>3, <3>1, <3>2, WriteNearStep DEF n, f
    <3>4. InStep(Near(c), Far(c), MethodOf(c), Request(c), Carried(c, "near"), Carried(c, "far"))'
      BY <1>7, <2>2, <2>3, <3>1, <3>3
    <3> QED
      BY <1>2, <1>8, <2>1, <2>2, <3>4 DEF ConnOK
  <2>4. CASE e = "far"
    <3>1. v = Written /\ Carried(c, "far")' = Written ++ x /\ w = <<>> /\ Carried(c, "near")' = <<>>
      BY <1>13, <2>4 DEF Ends
    <3>2. f.got ++ <<Fin>> # Written
      BY <1>1, <1>2, <1>5, Fields, NotEndedYet
    <3> HIDE DEF m, q, w, v, n, f
    <3>3. InStep(n, Gets(f, x), m, q, w, v ++ x)
      BY <1>3, <1>4, <1>5, <2>4, <3>1, <3>2, WriteFarStep DEF n, f
    <3>4. InStep(Near(c), Far(c), MethodOf(c), Request(c), Carried(c, "near"), Carried(c, "far"))'
      BY <1>7, <2>2, <2>4, <3>1, <3>3
    <3> QED
      BY <1>2, <1>8, <2>1, <2>2, <3>4 DEF ConnOK
  <2> QED
    BY <2>3, <2>4 DEF Ends
<1>15. ASSUME NEW d \in Conns, d # c PROVE ConnOK(d)'
  <2>1. Near(d)' = Near(d) /\ Far(d)' = Far(d) /\ ConnOK(d)
    BY <1>1, <1>7, <1>15 DEF Only
  <2>2. \A e2 \in Ends : Carried(d, e2)' = Carried(d, e2)
    BY <1>13, <1>15
  <2> QED
    BY <1>2, <2>1, <2>2, ConnStays
<1>16. HostOK'
  BY <1>1, <1>2, <1>6, <1>8 DEF HostOK, Conns
<1>17. OrderOK'
  BY <1>1, <1>2, <1>9, OrderStays
<1> QED
  BY <1>11, <1>12, <1>14, <1>15, <1>16, <1>17 DEF Inv

-----------------------------------------------------------------------------
(* The invariant is inductive.                                             *)

LEMMA InitInv ==
  ASSUME Init
  PROVE  Inv
<1>1. /\ setup \in Scenarios /\ offered = Nothing /\ pending = "absent" /\ promise = "open"
      /\ released = FALSE /\ opener = "idle" /\ activated = FALSE /\ sent = 0
      /\ end = [c \in Conns |-> [e \in Ends |-> Closed]]
  BY DEF Init
<1>2. <<>> \in Words
  BY Grants, NoWords
<1>3. Closed \in Sockets
  BY <1>2 DEF Closed, Sockets
<1>4. Typed
  <2>1. last = Length /\ last \in 0..Length /\ 0 \in 0..last + 1
    BY AdapterAssumption DEF Init
  <2> QED
    BY <1>1, <1>3, <2>1 DEF Typed
<1>5. \A c \in Conns : Near(c) = Closed /\ Far(c) = Closed
  BY <1>1 DEF Near, Far, Ends
<1>6. Closed.at = "idle" /\ Closed.mode = "off"
  BY DEF Closed
<1>7. ASSUME NEW c \in Conns PROVE ConnOK(c)
  <2>1. InStep(Near(c), Far(c), MethodOf(c), Request(c), Carried(c, "near"), Carried(c, "far"))
    BY <1>5, <1>6 DEF InStep, Unborn, ModeOf
  <2> QED
    BY <1>5, <1>6, <2>1 DEF ConnOK, Attaching
<1>8. HostOK
  BY <1>1 DEF HostOK
<1>9. OrderOK
  <2>1. \A c \in Conns : Near(c).at = "idle" /\ Far(c).at = "idle"
    BY <1>5, <1>6
  <2> QED
    BY <1>1, <2>1 DEF OrderOK, Conns, Attaching
<1>10. SentBySource
  BY <1>1 DEF SentBySource
<1> QED
  BY <1>4, <1>7, <1>8, <1>9, <1>10 DEF Inv

LEMMA NextInv ==
  ASSUME Inv, Next
  PROVE  Inv'
<1>1. CASE candidatesFor
  BY <1>1, OfferKeeps
<1>2. CASE RegistrationExpires
  BY <1>2, ExpiryKeeps
<1>3. CASE Accepted
  BY <1>3, AcceptedKeeps
<1>4. CASE Activate
  BY <1>4, ActivateKeeps
<1>5. CASE Activated
  BY <1>5, ActivatedKeeps
<1>6. CASE Release
  BY <1>6, ReleaseKeeps
<1>7. CASE Write
  BY <1>7, SendKeeps DEF Write
<1>11. CASE CutShort
  BY <1>11, SendKeeps DEF CutShort, Faulty
<1>8. ASSUME NEW c \in {"direct", "proxy"}, openChosen(c) PROVE Inv'
  BY <1>8, OpenKeeps
<1>9. ASSUME NEW c \in Conns,
             Dial(c) \/ socks5ClientHandshake(c) \/ Hangup(c) \/ socks5ServerHandshake(c) \/ Reset(c)
      PROVE  Inv'
  BY <1>9, DialKeeps, ClientKeeps, HangupKeeps, ServerKeeps, ResetKeeps
<1>10. ASSUME NEW c \in Conns, NEW e \in Ends, Deliver(c, e) \/ Read(c, e) \/ StreamEnds(c, e)
       PROVE  Inv'
  BY <1>10, DeliverKeeps, ReadKeeps
<1> QED
  BY <1>1, <1>2, <1>3, <1>4, <1>5, <1>6, <1>7, <1>8, <1>9, <1>10, <1>11 DEF Next

LEMMA StutterInv ==
  ASSUME Inv, UNCHANGED vars
  PROVE  Inv'
<1>1. /\ setup' = setup /\ offered' = offered /\ pending' = pending /\ promise' = promise
      /\ released' = released /\ opener' = opener /\ activated' = activated /\ end' = end /\ sent' = sent /\ last' = last
  BY DEF vars, hostVars, registration
<1>2. Typed /\ HostOK /\ OrderOK
  BY DEF Inv
<1>3. HostOK' /\ OrderOK'
  BY <1>1, <1>2 DEF HostOK, OrderOK, Near, Far
<1> QED
  BY <1>1, <1>2, <1>3, EndsStay DEF Typed

(* Every state of a handshake, of the adapter and of the body is one the   *)
(* invariant describes.                                                    *)
THEOREM Invariance == Spec => []Inv
<1>1. Init => Inv
  BY InitInv
<1>2. Inv /\ [Next]_vars => Inv'
  BY NextInv, StutterInv
<1> QED
  BY <1>1, <1>2, PTL DEF Spec

(* Whatever goes wrong, the adapter's variables and the sockets keep their *)
(* shapes; no socket flows with nobody listening.                          *)
THEOREM TypeCorrect == Spec => []TypeOK
<1>1. ASSUME Inv PROVE TypeOK
  <2>1. Typed /\ \A c \in Conns, e \in Ends : end[c][e] \in Sockets
    BY <1>1, EndsTyped DEF Inv, Typed, AllEnds
  <2>2. \A c \in Conns, e \in Ends : end[c][e].mode \in {"off", "reader", "paused", "stream"}
    BY <2>1 DEF Sockets
  <2> QED
    BY <2>1, <2>2 DEF Typed, TypeOK
<1>2. Inv => TypeOK
  BY <1>1
<1> QED
  BY <1>2, Invariance, PTL

(* A dialler that was told "success" by the listener holds the connection  *)
(* the registration was resolved with, whatever its timer and release()    *)
(* do meanwhile, and however many dial.                                    *)
THEOREM ToldIsClaimed == Spec => []ToldMeansClaimed
<1>1. ASSUME Inv PROVE ToldMeansClaimed
  <2> SUFFICES ASSUME NEW c \in {"direct", "stray"}, end[c]["near"].at \in {"open", "ended"}
               PROVE  promise = c
    BY DEF ToldMeansClaimed
  <2>1. c \in Conns /\ Near(c).at \in {"open", "ended"}
    BY DEF Conns, Near
  <2>2. ConnOK(c)
    BY <1>1, <2>1 DEF Inv
  <2>3. InStep(Near(c), Far(c), MethodOf(c), Request(c), Carried(c, "near"), Carried(c, "far"))
    BY <2>2 DEF ConnOK
  <2> DEFINE n == Near(c)
             f == Far(c)
             m == MethodOf(c)
             q == Request(c)
             w == Carried(c, "near")
             v == Carried(c, "far")
  <2>4. n.at \in {"open", "ended"} /\ InStep(n, f, m, q, w, v)
    BY <2>1, <2>3
  <2>5. f.at \in {"claimed"} \cup Attaching
    <3> HIDE DEF n, f, m, q, w, v
    <3> QED
      BY <2>4 DEF InStep, Unborn, Closed, Greeted, Asked, Answered, Joined, Turned, Lost, Attaching
  <2> QED
    BY <2>2, <2>5 DEF ConnOK
<1>2. Inv => ToldMeansClaimed
  BY <1>1
<1> QED
  BY <1>2, Invariance, PTL

-----------------------------------------------------------------------------
(* What is written is kept.                                                *)

(* At end s, all of the words are found behind k words of a handshake. *)
KeptBehind(s, words, k) ==
  /\ k \in 0..Len(In(s))
  /\ \A i \in 1..k : In(s)[i] < Fin
  /\ (s.got ++ After(In(s), k)) ++ (IF s.at = "ended" THEN <<Fin>> ELSE <<>>) = words

LEMMA HeldIsKept ==
  ASSUME NEW s \in Sockets, NEW w \in Words, Holds(s, w), s.at # "errored"
  PROVE  KeptBehind(s, w, 0)
<1>1. s.got \in Words /\ s.buf \in Words /\ In(s) \in Words /\ <<>> \in Words /\ <<Fin>> \in Words
  BY Fields, NoWords, Grants
<1>2. 0 \in 0..Len(In(s)) /\ \A i \in 1..0 : In(s)[i] < Fin
  BY <1>1, LenProperties DEF Words
<1>3. After(In(s), 0) = In(s)
  <2>1. /\ Before(In(s), 0) \in Words /\ After(In(s), 0) \in Words /\ Len(Before(In(s), 0)) = 0
        /\ Before(In(s), 0) ++ After(In(s), 0) = In(s)
    BY <1>1, <1>2, Segments
  <2>2. Before(In(s), 0) = <<>>
    BY <2>1, EmptySeq DEF Words
  <2> QED
    BY <2>1, <2>2, NoWords
<1>4. CASE s.at = "ended"
  <2>1. s.buf = <<>> /\ s.net = <<>> /\ s.got ++ <<Fin>> = w
    BY <1>4 DEF Holds
  <2>2. In(s) = <<>>
    BY <1>1, <2>1, NoWords DEF In
  <2>3. s.got ++ In(s) = s.got
    BY <1>1, <2>2, NoWords
  <2> QED
    BY <1>2, <1>3, <1>4, <2>1, <2>3 DEF KeptBehind
<1>5. CASE s.at # "ended"
  <2>1. s.got ++ In(s) = w
    BY <1>5 DEF Holds
  <2>2. w ++ <<>> = w
    BY NoWords
  <2> QED
    BY <1>2, <1>3, <1>5, <2>1, <2>2 DEF KeptBehind
<1> QED
  BY <1>4, <1>5

LEMMA FramedIsKept ==
  ASSUME NEW s \in Sockets, NEW w \in Words, NEW h \in Words, In(s) = h ++ w, s.got = <<>>,
         s.at # "ended", \A i \in 1..Len(h) : h[i] < Fin
  PROVE  KeptBehind(s, w, Len(h))
<1> DEFINE k == Len(h)
           a == In(s)
<1>1. a \in Words /\ Len(a) = k + Len(w) /\ k \in Nat /\ Len(w) \in Nat /\ \A i \in 1..k : a[i] = h[i]
  <2>1. a \in Words
    BY Fields
  <2>2. Len(h ++ w) = Len(h) + Len(w) /\ \A i \in 1..Len(h) : (h ++ w)[i] = h[i]
    BY Joins
  <2>3. Len(h) \in Nat /\ Len(w) \in Nat
    BY LenProperties DEF Words
  <2> QED
    BY <2>1, <2>2, <2>3
<1>2. k \in 0..Len(a)
  BY <1>1
<1>3. Before(a, k) \in Words /\ After(a, k) \in Words /\ Len(Before(a, k)) = k /\ Before(a, k) ++ After(a, k) = a
  BY <1>1, <1>2, Segments
<1>4. After(a, k) = w
  BY <1>3, Parted
<1>5. (<<>> ++ w) ++ <<>> = w
  BY NoWords
<1>6. \A i \in 1..k : a[i] < Fin
  BY <1>1
<1> QED
  BY <1>2, <1>4, <1>5, <1>6 DEF KeptBehind

(* The end a body is written towards. *)
LEMMA TargetHolds ==
  ASSUME Inv, sent > 0
  PROVE  LET t == At(Target) IN
         /\ t \in Sockets
         /\ \/ t.at \in {"failed", "errored"} /\ Faulty("reset")
            \/ \E k \in 0..8 : KeptBehind(t, Written, k)
<1>1. Typed /\ (\A c \in Conns : ConnOK(c)) /\ OrderOK /\ SentBySource
  BY DEF Inv
<1>2. Written \in Words
  BY <1>1, WordsCarried
<1>3. At(Source).at \in Attaching /\ (Used = "proxy" => activated)
  BY <1>1 DEF SentBySource
<1>4. setup.writer \in {"host", "dialler"} /\ Used \in {"direct", "proxy"}
  BY <1>1, AdapterAssumption DEF Typed, Setups, Used
<1>5. PICK c \in Conns, e \in Ends :
        /\ Target = <<c, e>>
        /\ IF e = "near" THEN Far(c).at \in Attaching \/ Near(c).at \in {"activating", "open", "ended"}
           ELSE Near(c).at \in Attaching
  <2>1. CASE setup.writer = "host" /\ Used = "direct"
    BY <1>3, <2>1 DEF Source, Target, HostEnd, DiallerEnd, At, Far, Conns, Ends
  <2>2. CASE setup.writer = "dialler" /\ Used = "direct"
    BY <1>3, <2>2 DEF Source, Target, HostEnd, DiallerEnd, At, Near, Conns, Ends
  <2>3. CASE setup.writer = "host" /\ Used = "proxy"
    <3>1. Target = <<"proxy", "near">> /\ Near("own").at # "idle"
      BY <2>3 DEF Target, DiallerEnd, Used, Near
    <3> QED
      BY <1>1, <3>1 DEF OrderOK, Conns, Ends
  <2>4. CASE setup.writer = "dialler" /\ Used = "proxy"
    <3>1. Target = <<"own", "near">>
      BY <2>4 DEF Target, HostEnd
    <3> QED
      BY <1>1, <1>3, <2>4, <3>1 DEF OrderOK, Conns, Ends
  <2> QED
    BY <1>4, <2>1, <2>2, <2>3, <2>4
<1> DEFINE m == MethodOf(c)
           q == Request(c)
           w == Carried(c, "near")
           v == Carried(c, "far")
           n == Near(c)
           f == Far(c)
           t == IF e = "near" THEN n ELSE f
<1>6. /\ n \in Sockets /\ f \in Sockets /\ InStep(n, f, m, q, w, v)
      /\ n.at = "errored" \/ f.at = "errored" => Faulty("reset")
  BY <1>1, AtHand DEF ConnOK
<1>7. At(Target) = t
  BY <1>5 DEF At, Near, Far, Ends
<1>8. (e = "near" => w = Written) /\ (e = "far" => v = Written)
  BY <1>5 DEF Carried
<1>9. e = "near" => f.at \in Attaching \/ n.at \in {"activating", "open", "ended"}
  BY <1>5
<1>10. e = "far" => n.at \in Attaching
  BY <1>5
<1> HIDE DEF m, q, w, v, n, f
<1>11. \/ e = "near" /\ Answered(n, f, w, v)
       \/ Joined(n, f, w, v)
       \/ e = "near" /\ n.at = "failed" /\ f.at = "errored"
  BY <1>6, <1>9, <1>10
     DEF InStep, Unborn, Closed, Greeted, Asked, Answered, Joined, Turned, Lost, Attaching, Ends
<1>12. CASE e = "near" /\ Answered(n, f, w, v)
  <2>1. /\ Granted \in Words /\ Len(Granted) = 8 /\ \A i \in 1..8 : Granted[i] < Fin
    BY Replies
  <2>2. /\ Rest(Granted) \in Words /\ Len(Rest(Granted)) = 3
        /\ \A i \in 1..3 : Rest(Granted)[i] = Granted[i + 5]
    BY <2>1, Halves
  <2>3. CASE n.at = "head"
    <3>1. In(n) = Granted ++ Written /\ n.got = <<>>
      BY <1>8, <1>12, <2>3 DEF Answered
    <3>2. KeptBehind(n, Written, 8)
      BY <1>2, <1>6, <2>1, <2>3, <3>1, FramedIsKept
    <3> QED
      BY <1>6, <1>7, <1>12, <3>2
  <2>4. CASE n.at = "rest"
    <3>1. In(n) = Rest(Granted) ++ Written /\ n.got = <<>>
      BY <1>8, <1>12, <2>4 DEF Answered
    <3>2. \A i \in 1..3 : Rest(Granted)[i] < Fin
      <4> SUFFICES ASSUME NEW i \in 1..3 PROVE Rest(Granted)[i] < Fin
        OBVIOUS
      <4>1. i + 5 \in 1..8
        OBVIOUS
      <4> QED
        BY <2>1, <2>2, <4>1
    <3>3. KeptBehind(n, Written, 3)
      BY <1>2, <1>6, <2>2, <2>4, <3>1, <3>2, FramedIsKept
    <3> QED
      BY <1>6, <1>7, <1>12, <3>3
  <2> QED
    BY <1>12, <2>3, <2>4 DEF Answered
<1>13. CASE Joined(n, f, w, v)
  <2>1. t \in Sockets /\ Holds(t, Written)
    BY <1>6, <1>8, <1>13 DEF Joined, Ends
  <2>2. t.at = "errored" => Faulty("reset")
    BY <1>6
  <2> HIDE DEF t
  <2>3. t.at # "errored" => KeptBehind(t, Written, 0)
    BY <1>2, <2>1, HeldIsKept
  <2> QED
    BY <1>7, <2>1, <2>2, <2>3
<1>14. CASE e = "near" /\ n.at = "failed" /\ f.at = "errored"
  BY <1>6, <1>7, <1>14
<1> QED
  BY <1>11, <1>12, <1>13, <1>14

(* No byte of a body, and not its end, is lost or repeated where a         *)
(* handshake hands its socket over: for every length, every way the        *)
(* segments are cut, whenever the two sides attach their streams, and      *)
(* whichever candidate is used in the end.                                 *)
THEOREM AllBytesKept == Spec => []BytesKept
<1>1. ASSUME Inv PROVE BytesKept
  <2> SUFFICES ASSUME sent > 0,
                      ~(At(Target).at \in {"failed", "errored"} /\ Faulty("reset"))
               PROVE  LET t    == At(Target)
                          flow == t.buf \o t.net IN
                      \E k \in 0..Len(flow) :
                        /\ \A i \in 1..k : flow[i] < Fin
                        /\ t.got \o SubSeq(flow, k + 1, Len(flow))
                             \o (IF t.at = "ended" THEN <<Fin>> ELSE <<>>) = Written
    BY DEF BytesKept
  <2>1. PICK k \in 0..8 : KeptBehind(At(Target), Written, k)
    BY <1>1, TargetHolds
  <2> QED
    BY <2>1 DEF KeptBehind, In, After, ++
<1>2. Inv => BytesKept
  BY <1>1
<1> QED
  BY <1>2, Invariance, PTL

(* A stream that ends in order has handed its reader all that got through, *)
(* byte for byte: nothing a handshake left behind, a reset or a candidate  *)
(* that was given up looks like an end.  That is the whole body, unless    *)
(* its writer aborted it or the proxy hung up: a reader is not told        *)
(* whether the FIN it got is a close() or one of these.                    *)
WholeAtTheEnd ==
  At(Target).at = "ended" =>
    /\ sent = last + 1 /\ At(Target).got = [i \in 1..last |-> Byte(i)]
    /\ last = Length \/ Faulty("abort") \/ Faulty("hangup")

(* The end that a reader is told is the FIN, after all that was written.   *)
THEOREM EndsAreWhole == Spec => []WholeAtTheEnd
<1>1. ASSUME Inv PROVE WholeAtTheEnd
  <2> SUFFICES ASSUME At(Target).at = "ended"
               PROVE  sent = last + 1 /\ At(Target).got = [i \in 1..last |-> Byte(i)]
    <3>1. last = Length \/ Faulty("abort") \/ Faulty("hangup")
      BY <1>1 DEF Inv, Typed, Faulty
    <3>. QED BY <3>1 DEF WholeAtTheEnd
  <2>1. Typed /\ Written \in Words /\ Len(Written) = sent /\ sent \in 0..last + 1 /\ last \in Nat
    BY <1>1, WordsCarried, AdapterAssumption DEF Inv, Typed
  <2>2. PICK c \in Conns, e \in Ends : Target = <<c, e>>
    <3>1. Used \in Conns
      BY DEF Used, Conns
    <3> QED
      BY <3>1 DEF Target, HostEnd, DiallerEnd, Conns, Ends
  <2> DEFINE m == MethodOf(c)
             q == Request(c)
             w == Carried(c, "near")
             v == Carried(c, "far")
             n == Near(c)
             f == Far(c)
             t == At(Target)
             body == [i \in 1..last |-> Byte(i)]
  <2>3. n \in Sockets /\ f \in Sockets /\ InStep(n, f, m, q, w, v)
    BY <1>1, AtHand
  <2>4. (e = "near" => t = n /\ w = Written) /\ (e = "far" => t = f /\ v = Written) /\ t.at = "ended"
    BY <2>2 DEF At, Near, Far, Carried
  <2> HIDE DEF m, q, w, v, n, f, t
  <2>5. t \in Sockets /\ Holds(t, Written)
    BY <2>3, <2>4 DEF InStep, Unborn, Closed, Greeted, Asked, Answered, Joined, Turned, Lost, Ends
  <2>6. t.got \in Words /\ t.got ++ <<Fin>> = Written
    BY <2>4, <2>5, Fields DEF Holds
  <2>7. sent = last + 1
    BY <2>1, <2>6, NotEndedYet
  <2>8. body \in Words /\ Len(body) = last /\ body ++ <<Fin>> = Written
    <3>1. body \in Words /\ Len(body) = last /\ \A i \in 1..last : body[i] = Byte(i)
      BY <2>1 DEF Byte, Words
    <3>2. \A i \in 1..last + 1 : Written[i] = IF i > last THEN Fin ELSE Byte(i)
      BY <2>1, <2>7 DEF Written
    <3>3. <<Fin>> \in Words /\ Len(<<Fin>>) = 1 /\ <<Fin>>[1] = Fin
      BY Grants
    <3>4. /\ body ++ <<Fin>> \in Words /\ Len(body ++ <<Fin>>) = Len(body) + Len(<<Fin>>)
          /\ \A i \in 1..Len(body) : (body ++ <<Fin>>)[i] = body[i]
          /\ \A i \in 1..Len(<<Fin>>) : (body ++ <<Fin>>)[Len(body) + i] = <<Fin>>[i]
      BY <3>1, <3>3, Joins
    <3> DEFINE x == body ++ <<Fin>>
    <3> HIDE DEF body
    <3>5. x[last + 1] = Fin
      <4>1. 1 \in 1..Len(<<Fin>>)
        BY <3>3
      <4> QED
        BY <3>1, <3>3, <3>4, <4>1
    <3>6. x \in Words /\ Len(x) = last + 1 /\ \A i \in 1..last : x[i] = Byte(i)
      BY <2>1, <3>1, <3>3, <3>4
    <3> HIDE DEF x
    <3>7. x = Written
      <4>1. \A i \in 1..Len(x) : x[i] = Written[i]
        BY <2>1, <3>2, <3>5, <3>6
      <4> QED
        BY <2>1, <2>7, <3>6, <4>1, SameWords
    <3> QED
      BY <3>1, <3>7 DEF x
  <2>9. t.got = body
    <3>1. Len(t.got) = Len(body)
      <4>1. Len(t.got ++ <<Fin>>) = Len(t.got) + Len(<<Fin>>) /\ Len(<<Fin>>) = 1 /\ Len(t.got) \in Nat
        BY <2>6, Joins, Grants, LenProperties DEF Words
      <4> QED
        BY <2>1, <2>6, <2>7, <2>8, <4>1
    <3> HIDE DEF body
    <3> QED
      BY <2>6, <2>8, <3>1, Grants, Parted
  <2> QED
    BY <2>7, <2>9 DEF t
<1>2. Inv => WholeAtTheEnd
  BY <1>1
<1> QED
  BY <1>2, Invariance, PTL

-----------------------------------------------------------------------------
(***************************************************************************)
(* SipubTransfer: the two ways a published body can take.                  *)
(*                                                                         *)
(* As long as nothing broke, the publisher wrote to one carrier at most,   *)
(* from the first unit on, and one that ended holds the body (OneCarrier). *)
(* The retriever settles once, and what it read is how that carrier begins *)
(* (ReadIsWritten); a carrier nobody wrote to has not ended either.        *)
(***************************************************************************)
(* What can be under way to the publisher, and to the retriever. *)
PubMail ==
  {<<"start">>} \cup {<<"offer answer", x>> : x \in {"s5b", "ibb", "refused"}}
    \cup {<<"query answer", x>> : x \in Paths \cup {"refused"}}
    \cup {<<"open answer", x>> : x \in {"ok", "refused"}}
RetMail ==
  {<<"starting">>, <<"start refused">>, <<"offer">>, <<"open">>} \cup {<<"query", x>> : x \in SUBSET Paths}

Load == [units : Seq(1..Units), over : {"no", "end", "reset", "cut"}]
Bytestream == {"opening", "activating", "writing", "streaming"}

PublisherTyped ==
  /\ pub \in {"live", "consumed", "gone"} /\ transfers \in 0..1
  /\ pp \in {"none", "scheduled", "offering", "gathering", "lookup", "querying", "opening",
             "activating", "writing", "streaming", "ibbOpen", "ibbOpening", "ibbWriting",
             "ibbStreaming", "done", "failed"}
  /\ used \in Paths \cup {"none"} /\ opened \in 0..2 /\ unit \in 1..Units + 1 /\ broken \in BOOLEAN
  /\ pub = "live" => pp = "none" /\ transfers = 0
  /\ pp \in Bytestream => used \in Paths
  /\ pp \in {"ibbStreaming", "done", "failed"} \/ opened <= 1
  /\ pp \in {"ibbStreaming", "done", "failed", "streaming", "ibbOpen", "ibbOpening", "ibbWriting"} \/ opened = 0

RetrieverTyped ==
  /\ rp \in RetDone \cup {"idle", "asking", "told", "awaiting", "reading"}
  /\ offer \in {"none", "expected", "parked", "over"} /\ s5 \in BOOLEAN
  /\ dialling \in {NotDialling} \cup SUBSET Paths
  /\ ibb \in {"none", "armed", "met", "over"}
  /\ settled \in Carriers \cup {"no", "failed"} /\ got \in Seq(1..Units)

LinksTyped ==
  /\ direct \in {"none", "waiting", "claimed", "expired"} /\ carrier \in [Carriers -> Load]
  /\ toPub \in Seq(PubMail) /\ toRet \in Seq(RetMail)

TransferTyped == retrieval \in Retrievals /\ PublisherTyped /\ RetrieverTyped /\ LinksTyped

Ordinals(n) == [i \in 1..n |-> i]
Untouched(c) == carrier[c].units = <<>> /\ carrier[c].over = "no"

(* As long as nothing broke, one carrier at most was written to, from the  *)
(* first unit on, and one that ended holds the whole body.                 *)
OneCarrier ==
  ~broken =>
    /\ pp \notin Streams \cup {"done"} => unit = 1 /\ \A c \in Carriers : Untouched(c)
    /\ pp \in Streams =>
         /\ carrier[Out].over = "no" /\ carrier[Out].units = Ordinals(unit - 1)
         /\ \A c \in Carriers \ {Out} : Untouched(c)
    /\ pp = "done" => \A c \in Carriers :
                        carrier[c].over # "cut" /\ (carrier[c].over = "end" => carrier[c].units = Body)

(* What was read is how the carrier begins on which the race settled. *)
ReadIsWritten ==
  /\ settled \notin Carriers => got = <<>>
  /\ settled \in Carriers =>
       /\ Len(got) <= Len(carrier[settled].units)
       /\ \A i \in 1..Len(got) : got[i] = carrier[settled].units[i]

TransferInv == TransferTyped /\ OneCarrier /\ ReadIsWritten /\ EndedMeansWhole

-----------------------------------------------------------------------------
LEMMA MailForms ==
  /\ \A m \in PubMail : m[1] = "query answer" => m[2] \in Paths \cup {"refused"}
  /\ \A m \in RetMail : m[1] = "query" => m[2] \in SUBSET Paths
  /\ <<"start">> \in PubMail
  /\ \A x \in {"s5b", "ibb", "refused"} : <<"offer answer", x>> \in PubMail
  /\ \A x \in Paths \cup {"refused"} : <<"query answer", x>> \in PubMail
  /\ \A x \in {"ok", "refused"} : <<"open answer", x>> \in PubMail
  /\ <<"starting">> \in RetMail /\ <<"start refused">> \in RetMail
  /\ <<"offer">> \in RetMail /\ <<"open">> \in RetMail
  /\ \A x \in SUBSET Paths : <<"query", x>> \in RetMail
<1>1. \A m \in PubMail : m[1] = "query answer" => m[2] \in Paths \cup {"refused"}
  <2> SUFFICES ASSUME NEW m \in PubMail, m[1] = "query answer" PROVE m[2] \in Paths \cup {"refused"}
    OBVIOUS
  <2>1. m # <<"start">>
    <3>1. <<"start">>[1] = "start"
      OBVIOUS
    <3>. QED BY <3>1
  <2>2. ASSUME NEW x PROVE m # <<"offer answer", x>> /\ m # <<"open answer", x>>
    <3>1. <<"offer answer", x>>[1] = "offer answer" /\ <<"open answer", x>>[1] = "open answer"
      OBVIOUS
    <3>. QED BY <3>1
  <2>3. \E x \in Paths \cup {"refused"} : m = <<"query answer", x>>
    BY <2>1, <2>2 DEF PubMail
  <2>4. ASSUME NEW x PROVE <<"query answer", x>>[2] = x
    OBVIOUS
  <2>. QED BY <2>3, <2>4
<1>2. \A m \in RetMail : m[1] = "query" => m[2] \in SUBSET Paths
  <2> SUFFICES ASSUME NEW m \in RetMail, m[1] = "query" PROVE m[2] \in SUBSET Paths
    OBVIOUS
  <2>1. m # <<"starting">> /\ m # <<"start refused">> /\ m # <<"offer">> /\ m # <<"open">>
    <3>1. /\ <<"starting">>[1] = "starting" /\ <<"start refused">>[1] = "start refused"
          /\ <<"offer">>[1] = "offer" /\ <<"open">>[1] = "open"
      OBVIOUS
    <3>. QED BY <3>1
  <2>2. \E x \in SUBSET Paths : m = <<"query", x>>
    BY <2>1 DEF RetMail
  <2>. QED BY <2>2
<1>3. <<"start">> \in PubMail
  BY DEF PubMail
<1>4. \A x \in {"s5b", "ibb", "refused"} : <<"offer answer", x>> \in PubMail
  BY DEF PubMail
<1>5. \A x \in Paths \cup {"refused"} : <<"query answer", x>> \in PubMail
  BY DEF PubMail
<1>6. \A x \in {"ok", "refused"} : <<"open answer", x>> \in PubMail
  BY DEF PubMail
<1>7. <<"starting">> \in RetMail /\ <<"start refused">> \in RetMail
      /\ <<"offer">> \in RetMail /\ <<"open">> \in RetMail
  BY DEF RetMail
<1>8. \A x \in SUBSET Paths : <<"query", x>> \in RetMail
  BY DEF RetMail
<1>. QED BY <1>1, <1>2, <1>3, <1>4, <1>5, <1>6, <1>7, <1>8

(* A queue of known stanzas, one taken or one added. *)
LEMMA QueueForms ==
  ASSUME NEW S, NEW q \in Seq(S), NEW m \in S
  PROVE  /\ Append(q, m) \in Seq(S)
         /\ <<m>> \in Seq(S) /\ <<m, m>> \in Seq(S)
         /\ q # <<>> => Head(q) \in S /\ Tail(q) \in Seq(S)
<1>0. <<m>> \in Seq(S) /\ <<m, m>> \in Seq(S)
  OBVIOUS
<1>1. Append(q, m) \in Seq(S)
  OBVIOUS
<1>2. q # <<>> => Head(q) \in S /\ Tail(q) \in Seq(S)
  OBVIOUS
<1>. QED BY <1>0, <1>1, <1>2

LEMMA OneMore ==
  ASSUME NEW n \in Nat
  PROVE  Append(Ordinals(n), n + 1) = Ordinals(n + 1) /\ Len(Ordinals(n)) = n /\ Ordinals(0) = <<>>
<1>1. Ordinals(n) \in Seq(Nat) /\ Len(Ordinals(n)) = n
  BY DEF Ordinals
<1>2. Ordinals(0) = <<>>
  BY DEF Ordinals
<1>3. Append(Ordinals(n), n + 1) = Ordinals(n + 1)
  BY <1>1 DEF Ordinals
<1>. QED BY <1>1, <1>2, <1>3

-----------------------------------------------------------------------------
(* Who moves what: a step of the one side leaves the other's variables.    *)
PublisherMoves ==
  \/ OnStart \/ SendOffer \/ OfferAnswered \/ GatherDirect \/ GatherProxy \/ QueryAnswered
  \/ OpenDirect \/ OpenProxy \/ ActivateProxy \/ OpenIbb \/ OpenAnswered
  \/ OpenBody \/ WriteUnit \/ CloseBody \/ WriteFails \/ Finished
  \/ Withdraw \/ PubTimeout \/ ReleasePub

RetrieverMoves ==
  \/ Retrieve \/ StartAnswered \/ AwaitOffer \/ OnSiOffer \/ OnQuery \/ Connected \/ NextCandidate
  \/ NoCandidateLeft \/ OnIbbOpen \/ ReadUnit \/ ReadEnds \/ RetTimeout \/ ReaderCancels \/ ReleaseRet

LEMMA WhoMoves ==
  ASSUME [SipubNext]_sipubVars
  PROVE  /\ retrieval' = retrieval
         /\ \/ PublisherMoves /\ UNCHANGED retVars
            \/ RetrieverMoves /\ UNCHANGED <<pubVars, carrier>>
            \/ /\ ProxyHangsUp /\ broken' = TRUE
               /\ UNCHANGED <<pub, transfers, pp, used, opened, unit, direct, retVars, toPub, toRet>>
            \/ (DirectTimer \/ Lose \/ UNCHANGED sipubVars) /\ UNCHANGED <<pubVars, carrier, retVars>>
<1>1. CASE PublisherMoves
  <2>1. CASE OnStart
    BY <2>1 DEF OnStart, OnStartIf, TellRet, PubHears, PublisherMoves, pubVars, retVars, links
  <2>2. CASE SendOffer
    BY <2>2 DEF SendOffer, PubStep, TellRet, PublisherMoves, pubVars, retVars, links
  <2>3. CASE OfferAnswered
    BY <2>3 DEF OfferAnswered, PubHears, PublisherMoves, pubVars, retVars, links
  <2>4. CASE GatherDirect
    BY <2>4 DEF GatherDirect, PublisherMoves, pubVars, retVars, links
  <2>5. CASE GatherProxy
    BY <2>5 DEF GatherProxy, Query, TellRet, PublisherMoves, pubVars, retVars, links
  <2>6. CASE QueryAnswered
    BY <2>6 DEF QueryAnswered, PubHears, Thrown, PublisherMoves, pubVars, retVars, links
  <2>7. CASE OpenDirect
    BY <2>7 DEF OpenDirect, Thrown, PublisherMoves, pubVars, retVars, links
  <2>8. CASE OpenProxy
    BY <2>8 DEF OpenProxy, PubStep, Thrown, PublisherMoves, pubVars, retVars, links
  <2>9. CASE ActivateProxy
    BY <2>9 DEF ActivateProxy, PubStep, Thrown, PublisherMoves, pubVars, retVars, links
  <2>10. CASE OpenIbb
    BY <2>10 DEF OpenIbb, PubStep, TellRet, PublisherMoves, pubVars, retVars, links
  <2>11. CASE OpenAnswered
    BY <2>11 DEF OpenAnswered, PubHears, PublisherMoves, pubVars, retVars, links
  <2>12. CASE OpenBody
    BY <2>12 DEF OpenBody, PublisherMoves, pubVars, retVars, links
  <2>13. CASE WriteUnit
    BY <2>13 DEF WriteUnit, Streams, PublisherMoves, pubVars, retVars, links
  <2>14. CASE CloseBody
    BY <2>14 DEF CloseBody, ClosesAfter, Streams, PublisherMoves, pubVars, retVars, links
  <2>15. CASE WriteFails
    BY <2>15 DEF WriteFails, Streams, PublisherMoves, pubVars, retVars, links
  <2>16. CASE Finished
    BY <2>16 DEF Finished, PublisherMoves, pubVars, retVars, links
  <2>17. CASE Withdraw
    BY <2>17 DEF Withdraw, PublisherMoves, pubVars, retVars, links
  <2>18. CASE PubTimeout
    BY <2>18 DEF PubTimeout, PubStep, Thrown, PublisherMoves, pubVars, retVars, links
  <2>19. CASE ReleasePub
    BY <2>19 DEF ReleasePub, PublisherMoves, pubVars, retVars, links
  <2>. QED BY <1>1, <2>1, <2>2, <2>3, <2>4, <2>5, <2>6, <2>7, <2>8, <2>9, <2>10, <2>11, <2>12, <2>13, <2>14, <2>15, <2>16, <2>17, <2>18, <2>19 DEF PublisherMoves
<1>2. CASE RetrieverMoves
  <2>1. CASE Retrieve
    BY <2>1 DEF Retrieve, RetrieverMoves, pubVars, retVars, links
  <2>2. CASE StartAnswered
    BY <2>2 DEF StartAnswered, RetHears, RetrieverMoves, pubVars, retVars, links
  <2>3. CASE AwaitOffer
    BY <2>3 DEF AwaitOffer, AcceptOffer, AcceptArming, TellPub, RetrieverMoves, pubVars, retVars,
             links
  <2>4. CASE OnSiOffer
    BY <2>4 DEF OnSiOffer, RetHears, AcceptOffer, AcceptArming, TellPub, RetrieverMoves, pubVars,
             retVars, links
  <2>5. CASE OnQuery
    BY <2>5 DEF OnQuery, RetHears, TellPub, RetrieverMoves, pubVars, retVars, links
  <2>6. CASE Connected
    BY <2>6 DEF Connected, Dialling, TellPub, RetrieverMoves, pubVars, retVars, links
  <2>7. CASE NextCandidate
    BY <2>7 DEF NextCandidate, Dialling, RetrieverMoves, pubVars, retVars, links
  <2>8. CASE NoCandidateLeft
    BY <2>8 DEF NoCandidateLeft, TellPub, RetrieverMoves, pubVars, retVars, links
  <2>9. CASE OnIbbOpen
    BY <2>9 DEF OnIbbOpen, RetHears, TellPub, RetrieverMoves, pubVars, retVars, links
  <2>10. CASE ReadUnit
    BY <2>10 DEF ReadUnit, RetrieverMoves, pubVars, retVars, links
  <2>11. CASE ReadEnds
    BY <2>11 DEF ReadEnds, RetrieverMoves, pubVars, retVars, links
  <2>12. CASE RetTimeout
    BY <2>12 DEF RetTimeout, ExpectationOver, TellPub, RetrieverMoves, pubVars, retVars, links
  <2>13. CASE ReaderCancels
    BY <2>13 DEF ReaderCancels, RetrieverMoves, pubVars, retVars, links
  <2>14. CASE ReleaseRet
    BY <2>14 DEF ReleaseRet, ExpectationOver, RetrieverMoves, pubVars, retVars, links
  <2>. QED BY <1>2, <2>1, <2>2, <2>3, <2>4, <2>5, <2>6, <2>7, <2>8, <2>9, <2>10, <2>11, <2>12, <2>13, <2>14 DEF RetrieverMoves
<1>3. CASE DirectTimer
  BY <1>3 DEF DirectTimer, pubVars, retVars
<1>4. CASE Lose
  BY <1>4 DEF Lose, pubVars, retVars, links
<1>5. CASE UNCHANGED sipubVars
  BY <1>5 DEF sipubVars, pubVars, retVars, links
<1>6. CASE ProxyHangsUp
  BY <1>6 DEF ProxyHangsUp
<1>. QED BY <1>1, <1>2, <1>3, <1>4, <1>5, <1>6 DEF SipubNext, Publisher, Retriever, PublisherMoves, RetrieverMoves

(* A stanza at the head of a queue is one that can be under way. *)
LEMMA HeadsKnown ==
  ASSUME LinksTyped
  PROVE  /\ toPub # <<>> => Head(toPub) \in PubMail /\ Tail(toPub) \in Seq(PubMail)
         /\ toRet # <<>> => Head(toRet) \in RetMail /\ Tail(toRet) \in Seq(RetMail)
         /\ PubHears("query answer") => Head(toPub)[2] \in Paths \cup {"refused"}
         /\ RetHears("query") => Head(toRet)[2] \in SUBSET Paths
<1>1. toPub # <<>> => Head(toPub) \in PubMail /\ Tail(toPub) \in Seq(PubMail)
  BY DEF LinksTyped
<1>2. toRet # <<>> => Head(toRet) \in RetMail /\ Tail(toRet) \in Seq(RetMail)
  BY DEF LinksTyped
<1>. QED BY <1>1, <1>2, MailForms DEF PubHears, RetHears

LEMMA PublisherKept ==
  ASSUME TransferTyped, [SipubNext]_sipubVars
  PROVE  PublisherTyped'
<1> USE SipubAssumption DEF SipubAssumption
<1>1. CASE PublisherMoves
  <2>1. CASE OnStart
    <3>1. CASE pub = "live"
      <4>1. transfers = 0 /\ pp = "none" /\ opened = 0
        BY <3>1 DEF TransferTyped, PublisherTyped
      <4>2. /\ pub' = "consumed" /\ pp' = "scheduled" /\ transfers' = transfers + 1
            /\ UNCHANGED <<used, opened, unit, broken>>
        BY <2>1, <3>1 DEF OnStart, OnStartIf
      <4>. QED BY <4>1, <4>2 DEF TransferTyped, PublisherTyped, Bytestream
    <3>2. CASE pub # "live"
      <4>1. UNCHANGED pubVars
        BY <2>1, <3>2 DEF OnStart, OnStartIf, pubVars
      <4>. QED BY <4>1 DEF pubVars, TransferTyped, PublisherTyped
    <3>. QED BY <3>1, <3>2
  <2>2. CASE SendOffer
    BY <2>2 DEF SendOffer, PubStep, TellRet, PublisherTyped, TransferTyped, Bytestream, Paths
  <2>3. CASE OfferAnswered
    BY <2>3 DEF OfferAnswered, PubHears, PublisherTyped, TransferTyped, Bytestream, Paths
  <2>4. CASE GatherDirect
    BY <2>4 DEF GatherDirect, PublisherTyped, TransferTyped, Bytestream, Paths
  <2>5. CASE GatherProxy
    BY <2>5 DEF GatherProxy, Query, TellRet, PublisherTyped, TransferTyped, Bytestream, Paths
  <2>6. CASE QueryAnswered
    BY <2>6, HeadsKnown DEF QueryAnswered, PubHears, Thrown, PublisherTyped, TransferTyped, Bytestream,
             Paths
  <2>7. CASE OpenDirect
    BY <2>7 DEF OpenDirect, Thrown, PublisherTyped, TransferTyped, Bytestream, Paths
  <2>8. CASE OpenProxy
    BY <2>8 DEF OpenProxy, PubStep, Thrown, PublisherTyped, TransferTyped, Bytestream, Paths
  <2>9. CASE ActivateProxy
    BY <2>9 DEF ActivateProxy, PubStep, Thrown, PublisherTyped, TransferTyped, Bytestream, Paths
  <2>10. CASE OpenIbb
    BY <2>10 DEF OpenIbb, PubStep, TellRet, PublisherTyped, TransferTyped, Bytestream, Paths
  <2>11. CASE OpenAnswered
    BY <2>11 DEF OpenAnswered, PubHears, PublisherTyped, TransferTyped, Bytestream, Paths
  <2>12. CASE OpenBody
    BY <2>12 DEF OpenBody, PublisherTyped, TransferTyped, Bytestream, Paths
  <2>13. CASE WriteUnit
    BY <2>13 DEF WriteUnit, Streams, PublisherTyped, TransferTyped, Bytestream, Paths
  <2>14. CASE CloseBody
    BY <2>14 DEF CloseBody, ClosesAfter, Streams, PublisherTyped, TransferTyped, Bytestream, Paths
  <2>15. CASE WriteFails
    BY <2>15 DEF WriteFails, Streams, PublisherTyped, TransferTyped, Bytestream, Paths
  <2>16. CASE Finished
    BY <2>16 DEF Finished, PublisherTyped, TransferTyped, Bytestream, Paths
  <2>17. CASE Withdraw
    BY <2>17 DEF Withdraw, PublisherTyped, TransferTyped, Bytestream, Paths
  <2>18. CASE PubTimeout
    BY <2>18 DEF PubTimeout, PubStep, Thrown, PublisherTyped, TransferTyped, Bytestream, Paths
  <2>19. CASE ReleasePub
    BY <2>19 DEF ReleasePub, PublisherTyped, TransferTyped, Bytestream, Paths
  <2>. QED BY <1>1, <2>1, <2>2, <2>3, <2>4, <2>5, <2>6, <2>7, <2>8, <2>9, <2>10, <2>11, <2>12, <2>13, <2>14, <2>15, <2>16, <2>17, <2>18, <2>19 DEF PublisherMoves
<1>2. CASE UNCHANGED pubVars
  BY <1>2 DEF pubVars, TransferTyped, PublisherTyped
<1>3. CASE broken' = TRUE /\ UNCHANGED <<pub, transfers, pp, used, opened, unit>>
  BY <1>3 DEF TransferTyped, PublisherTyped
<1>. QED BY <1>1, <1>2, <1>3, WhoMoves

LEMMA RetrieverKept ==
  ASSUME TransferTyped, [SipubNext]_sipubVars
  PROVE  RetrieverTyped'
<1>1. CASE RetrieverMoves
  <2>1. CASE Retrieve
    BY <2>1 DEF Retrieve, RetrieverTyped, TransferTyped, RetDone, Settle, Candidate, UseBytestreams
  <2>2. CASE StartAnswered
    BY <2>2 DEF StartAnswered, RetHears, RetrieverTyped, TransferTyped, RetDone, Settle, Candidate,
             UseBytestreams
  <2>3. CASE AwaitOffer
    BY <2>3 DEF AwaitOffer, AcceptOffer, AcceptArming, TellPub, RetrieverTyped, TransferTyped, RetDone,
             Settle, Candidate, UseBytestreams
  <2>4. CASE OnSiOffer
    BY <2>4 DEF OnSiOffer, RetHears, AcceptOffer, AcceptArming, TellPub, RetrieverTyped, TransferTyped,
             RetDone, Settle, Candidate, UseBytestreams
  <2>5. CASE OnQuery
    BY <2>5, HeadsKnown DEF OnQuery, RetHears, TellPub, RetrieverTyped, TransferTyped, RetDone, Settle,
             Candidate, UseBytestreams
  <2>6. CASE Connected
    <3>1. Candidate \in Paths
      BY DEF Candidate, Paths
    <3>2. settled' \in Carriers \cup {"no", "failed"}
      BY <2>6, <3>1 DEF Connected, Settle, Carriers, TransferTyped, RetrieverTyped
    <3>. QED BY <2>6, <3>2 DEF Connected, TransferTyped, RetrieverTyped
  <2>7. CASE NextCandidate
    BY <2>7 DEF NextCandidate, Dialling, RetrieverTyped, TransferTyped, RetDone, Settle, Candidate,
             UseBytestreams
  <2>8. CASE NoCandidateLeft
    BY <2>8 DEF NoCandidateLeft, TellPub, RetrieverTyped, TransferTyped, RetDone, Settle, Candidate,
             UseBytestreams
  <2>9. CASE OnIbbOpen
    <3>1. settled' \in Carriers \cup {"no", "failed"}
      BY <2>9 DEF OnIbbOpen, Settle, Carriers, TransferTyped, RetrieverTyped
    <3>. QED BY <2>9, <3>1 DEF OnIbbOpen, TransferTyped, RetrieverTyped
  <2>10. CASE ReadUnit
    <3>1. settled \in Carriers /\ Len(got) + 1 \in 1..Len(carrier[settled].units) /\ got \in Seq(1..Units)
      BY <2>10 DEF ReadUnit, TransferTyped, RetrieverTyped, LinksTyped, Load
    <3>2. carrier[settled].units[Len(got) + 1] \in 1..Units
      <4>1. carrier[settled] \in Load
        BY <3>1 DEF TransferTyped, LinksTyped
      <4>2. carrier[settled].units \in Seq(1..Units)
        BY <4>1 DEF Load
      <4> DEFINE u == carrier[settled].units
             k == Len(got) + 1
      <4>3. u \in Seq(1..Units) /\ k \in 1..Len(u)
        BY <3>1, <4>2
      <4> HIDE DEF u, k
      <4>4. u[k] \in 1..Units
        BY <4>3, ElementOfSeq
      <4>. QED BY <4>4 DEF u, k
    <3>3. got' \in Seq(1..Units)
      BY <2>10, <3>1, <3>2 DEF ReadUnit
    <3>. QED BY <2>10, <3>3 DEF ReadUnit, TransferTyped, RetrieverTyped
  <2>11. CASE ReadEnds
    BY <2>11 DEF ReadEnds, RetrieverTyped, TransferTyped, RetDone, Settle, Candidate, UseBytestreams
  <2>12. CASE RetTimeout
    BY <2>12 DEF RetTimeout, ExpectationOver, TellPub, RetrieverTyped, TransferTyped, RetDone, Settle,
             Candidate, UseBytestreams
  <2>13. CASE ReaderCancels
    BY <2>13 DEF ReaderCancels, RetrieverTyped, TransferTyped, RetDone, Settle, Candidate, UseBytestreams
  <2>14. CASE ReleaseRet
    BY <2>14 DEF ReleaseRet, ExpectationOver, RetrieverTyped, TransferTyped, RetDone, Settle, Candidate,
             UseBytestreams
  <2>. QED BY <1>1, <2>1, <2>2, <2>3, <2>4, <2>5, <2>6, <2>7, <2>8, <2>9, <2>10, <2>11, <2>12, <2>13, <2>14 DEF RetrieverMoves
<1>2. CASE UNCHANGED retVars
  BY <1>2 DEF retVars, TransferTyped, RetrieverTyped
<1>. QED BY <1>1, <1>2, WhoMoves

LEMMA MailKept ==
  ASSUME TransferTyped, [SipubNext]_sipubVars
  PROVE  toPub' \in Seq(PubMail) /\ toRet' \in Seq(RetMail)
<1>0. toPub \in Seq(PubMail) /\ toRet \in Seq(RetMail)
  BY DEF TransferTyped, LinksTyped
<1>1. CASE OnStart
  BY <1>0, <1>1, HeadsKnown, MailForms, QueueForms DEF TransferTyped, OnStart, OnStartIf, TellRet,
           PubHears
<1>2. CASE SendOffer
  BY <1>0, <1>2, HeadsKnown, MailForms, QueueForms DEF TransferTyped, SendOffer, PubStep, TellRet
<1>3. CASE OfferAnswered
  BY <1>0, <1>3, HeadsKnown, MailForms, QueueForms DEF TransferTyped, OfferAnswered, PubHears
<1>4. CASE GatherDirect
  BY <1>0, <1>4, HeadsKnown, MailForms, QueueForms DEF TransferTyped, GatherDirect
<1>5. CASE GatherProxy
  <2>1. ASSUME NEW proxies \in {{}, {"proxy"}}, Query(proxies)
        PROVE  toPub' = toPub /\ toRet' \in Seq(RetMail)
    <3> DEFINE candidates == proxies \cup IF direct = "none" THEN {} ELSE {"direct"}
    <3>1. candidates \in SUBSET Paths
      BY DEF Paths
    <3>2. toPub' = toPub /\ (toRet' = toRet \/ toRet' = Append(toRet, <<"query", candidates>>))
      BY <2>1 DEF Query, TellRet
    <3> HIDE DEF candidates
    <3>3. <<"query", candidates>> \in RetMail
      BY <3>1, MailForms
    <3>4. Append(toRet, <<"query", candidates>>) \in Seq(RetMail)
      BY <1>0, <3>3, QueueForms
    <3>. QED BY <1>0, <3>2, <3>4
  <2>. QED BY <1>0, <1>5, <2>1 DEF GatherProxy
<1>6. CASE QueryAnswered
  BY <1>0, <1>6, HeadsKnown, MailForms, QueueForms DEF TransferTyped, QueryAnswered, PubHears, Thrown
<1>7. CASE OpenDirect
  BY <1>0, <1>7, HeadsKnown, MailForms, QueueForms DEF TransferTyped, OpenDirect, Thrown
<1>8. CASE OpenProxy
  BY <1>0, <1>8, HeadsKnown, MailForms, QueueForms DEF TransferTyped, OpenProxy, PubStep, Thrown
<1>9. CASE ActivateProxy
  BY <1>0, <1>9, HeadsKnown, MailForms, QueueForms DEF TransferTyped, ActivateProxy, PubStep, Thrown
<1>10. CASE OpenIbb
  BY <1>0, <1>10, HeadsKnown, MailForms, QueueForms DEF TransferTyped, OpenIbb, PubStep, TellRet
<1>11. CASE OpenAnswered
  BY <1>0, <1>11, HeadsKnown, MailForms, QueueForms DEF TransferTyped, OpenAnswered, PubHears
<1>12. CASE OpenBody
  BY <1>0, <1>12, HeadsKnown, MailForms, QueueForms DEF TransferTyped, OpenBody
<1>13. CASE WriteUnit
  BY <1>0, <1>13, HeadsKnown, MailForms, QueueForms DEF TransferTyped, WriteUnit, Streams
<1>14. CASE CloseBody
  BY <1>0, <1>14, HeadsKnown, MailForms, QueueForms DEF TransferTyped, CloseBody, ClosesAfter, Streams
<1>15. CASE WriteFails
  BY <1>0, <1>15, HeadsKnown, MailForms, QueueForms DEF TransferTyped, WriteFails, Streams
<1>16. CASE Finished
  BY <1>0, <1>16, HeadsKnown, MailForms, QueueForms DEF TransferTyped, Finished
<1>17. CASE Withdraw
  BY <1>0, <1>17, HeadsKnown, MailForms, QueueForms DEF TransferTyped, Withdraw
<1>18. CASE PubTimeout
  BY <1>0, <1>18, HeadsKnown, MailForms, QueueForms DEF TransferTyped, PubTimeout, PubStep, Thrown
<1>19. CASE ReleasePub
  BY <1>0, <1>19, HeadsKnown, MailForms, QueueForms DEF TransferTyped, ReleasePub
<1>20. CASE Retrieve
  <2>1. toRet' = toRet
    BY <1>20 DEF Retrieve
  <2> DEFINE start == <<"start">>
  <2>2. start \in PubMail
    BY MailForms
  <2>3. toPub' = toPub \o <<start, start>> \/ toPub' = toPub \o <<start>>
    BY <1>20 DEF Retrieve
  <2> HIDE DEF start
  <2>4. <<start>> \in Seq(PubMail) /\ <<start, start>> \in Seq(PubMail)
    BY <1>0, <2>2, QueueForms
  <2>5. \A tail \in Seq(PubMail) : toPub \o tail \in Seq(PubMail)
    BY <1>0, ConcatProperties
  <2>. QED BY <1>0, <2>1, <2>3, <2>4, <2>5
<1>21. CASE StartAnswered
  BY <1>0, <1>21, HeadsKnown, MailForms, QueueForms DEF TransferTyped, StartAnswered, RetHears
<1>22. CASE AwaitOffer
  BY <1>0, <1>22, HeadsKnown, MailForms, QueueForms DEF TransferTyped, AwaitOffer, AcceptOffer,
           AcceptArming, TellPub
<1>23. CASE OnSiOffer
  BY <1>0, <1>23, HeadsKnown, MailForms, QueueForms DEF TransferTyped, OnSiOffer, RetHears, AcceptOffer,
           AcceptArming, TellPub
<1>24. CASE OnQuery
  BY <1>0, <1>24, HeadsKnown, MailForms, QueueForms DEF TransferTyped, OnQuery, RetHears, TellPub
<1>25. CASE Connected
  <2>1. Candidate \in Paths /\ toRet' = toRet /\ toPub' = Append(toPub, <<"query answer", Candidate>>)
    BY <1>25 DEF Connected, TellPub, Candidate, Paths
  <2>. QED BY <1>0, <2>1, MailForms, QueueForms
<1>26. CASE NextCandidate
  BY <1>0, <1>26, HeadsKnown, MailForms, QueueForms DEF TransferTyped, NextCandidate, Dialling
<1>27. CASE NoCandidateLeft
  BY <1>0, <1>27, HeadsKnown, MailForms, QueueForms DEF TransferTyped, NoCandidateLeft, TellPub
<1>28. CASE OnIbbOpen
  BY <1>0, <1>28, HeadsKnown, MailForms, QueueForms DEF TransferTyped, OnIbbOpen, RetHears, TellPub
<1>29. CASE ReadUnit
  BY <1>0, <1>29, HeadsKnown, MailForms, QueueForms DEF TransferTyped, ReadUnit
<1>30. CASE ReadEnds
  BY <1>0, <1>30, HeadsKnown, MailForms, QueueForms DEF TransferTyped, ReadEnds
<1>31. CASE RetTimeout
  BY <1>0, <1>31, HeadsKnown, MailForms, QueueForms DEF TransferTyped, RetTimeout, ExpectationOver,
           TellPub
<1>32. CASE ReaderCancels
  BY <1>0, <1>32, HeadsKnown, MailForms, QueueForms DEF TransferTyped, ReaderCancels
<1>33. CASE ReleaseRet
  BY <1>0, <1>33, HeadsKnown, MailForms, QueueForms DEF TransferTyped, ReleaseRet, ExpectationOver
<1>34. CASE DirectTimer
  BY <1>0, <1>34, HeadsKnown, MailForms, QueueForms DEF TransferTyped, DirectTimer
<1>35. CASE Lose
  BY <1>0, <1>35, HeadsKnown, MailForms, QueueForms DEF TransferTyped, Lose, links
<1>36. CASE ProxyHangsUp
  BY <1>0, <1>36 DEF ProxyHangsUp
<1>90. CASE UNCHANGED sipubVars
  BY <1>0, <1>90 DEF sipubVars
<1>. QED BY <1>90, <1>1, <1>2, <1>3, <1>4, <1>5, <1>6, <1>7, <1>8, <1>9, <1>10, <1>11, <1>12, <1>13, <1>14, <1>15, <1>16, <1>17, <1>18, <1>19, <1>20, <1>21, <1>22, <1>23, <1>24, <1>25, <1>26, <1>27, <1>28, <1>29, <1>30, <1>31, <1>32, <1>33, <1>34, <1>35, <1>36 DEF SipubNext, Publisher, Retriever

(* Who writes to a carrier, and what that does to the others. *)
LEMMA WritersKnown ==
  ASSUME TransferTyped, [SipubNext]_sipubVars
  PROVE  \/ WriteUnit \/ CloseBody \/ WriteFails \/ ProxyHangsUp
         \/ OpenBody /\ carrier' = carrier /\ broken' = broken
         \/ /\ carrier' = carrier /\ broken' = broken /\ unit' = unit
            /\ \/ UNCHANGED <<pp, used>>
               \/ pp \notin Streams \cup {"done"} /\ pp' \notin Streams \cup {"done"}
<1> USE DEF Streams
<1>1. CASE PublisherMoves
  <2>1. CASE OnStart
    BY <2>1 DEF OnStart, OnStartIf, links, TransferTyped, PublisherTyped
  <2>2. CASE SendOffer \/ OfferAnswered \/ GatherDirect \/ GatherProxy
    BY <2>2 DEF SendOffer, OfferAnswered, GatherDirect, GatherProxy, Query, PubStep, links
  <2>3. CASE QueryAnswered \/ OpenDirect \/ OpenProxy \/ ActivateProxy
    BY <2>3 DEF QueryAnswered, OpenDirect, OpenProxy, ActivateProxy, Thrown, PubStep, links
  <2>4. CASE OpenIbb \/ OpenAnswered
    BY <2>4 DEF OpenIbb, OpenAnswered, PubStep, links
  <2>5. CASE OpenBody
    BY <2>5 DEF OpenBody, links
  <2>6. CASE Finished \/ Withdraw \/ ReleasePub
    BY <2>6 DEF Finished, Withdraw, ReleasePub, links
  <2>7. CASE PubTimeout
    BY <2>7 DEF PubTimeout, PubStep, Thrown, links
  <2>. QED BY <1>1, <2>1, <2>2, <2>3, <2>4, <2>5, <2>6, <2>7 DEF PublisherMoves
<1>2. CASE UNCHANGED <<pubVars, carrier>>
  BY <1>2 DEF pubVars
<1>. QED BY <1>1, <1>2, WhoMoves

LEMMA OutKnown ==
  ASSUME TransferTyped, pp \in Streams
  PROVE  Out \in Carriers
BY DEF TransferTyped, PublisherTyped, Streams, Bytestream, Out, Carriers, Paths

(* What a step leaves of a carrier: one unit more, or how it ended. *)
LEMMA CarriersKept ==
  ASSUME TransferTyped, [SipubNext]_sipubVars
  PROVE  /\ carrier' \in [Carriers -> Load]
         /\ \A c \in Carriers :
              /\ Len(carrier[c].units) <= Len(carrier'[c].units)
              /\ \A i \in 1..Len(carrier[c].units) : carrier'[c].units[i] = carrier[c].units[i]
<1>0. carrier \in [Carriers -> Load] /\ \A c \in Carriers : carrier[c] \in Load /\ Len(carrier[c].units) \in Nat
  <2>1. carrier \in [Carriers -> Load]
    BY DEF TransferTyped, LinksTyped
  <2>2. \A l \in Load : Len(l.units) \in Nat
    BY LenProperties DEF Load
  <2>. QED BY <2>1, <2>2
<1>1. CASE WriteUnit
  <2>1. pp \in Streams /\ unit \in 1..Units
    BY <1>1, SipubAssumption DEF WriteUnit, TransferTyped, PublisherTyped, SipubAssumption
  <2>2. Out \in Carriers
    BY <2>1, OutKnown
  <2> DEFINE u == carrier[Out].units
             more == Append(u, unit)
  <2>3. u \in Seq(1..Units)
    BY <1>0, <2>2 DEF Load
  <2> SUFFICES ASSUME carrier' # carrier
               PROVE  /\ carrier' \in [Carriers -> Load]
                      /\ \A c \in Carriers :
                           /\ Len(carrier[c].units) <= Len(carrier'[c].units)
                           /\ \A i \in 1..Len(carrier[c].units) : carrier'[c].units[i] = carrier[c].units[i]
    BY <1>0
  <2>4. carrier' = [carrier EXCEPT ![Out].units = more]
    BY <1>1 DEF WriteUnit
  <2>5. more \in Seq(1..Units) /\ Len(more) = Len(u) + 1 /\ \A i \in 1..Len(u) : more[i] = u[i]
    BY <2>1, <2>3
  <2> HIDE DEF more
  <2>6. [carrier[Out] EXCEPT !.units = more] \in Load
    BY <1>0, <2>2, <2>5 DEF Load
  <2>7. carrier' \in [Carriers -> Load]
    BY <1>0, <2>2, <2>4, <2>6
  <2>8. carrier'[Out].units = more /\ \A c \in Carriers \ {Out} : carrier'[c] = carrier[c]
    <3>1. carrier[Out] \in Load
      BY <1>0, <2>2
    <3>2. carrier'[Out] = [carrier[Out] EXCEPT !.units = more]
      BY <1>0, <2>2, <2>4
    <3>3. [carrier[Out] EXCEPT !.units = more].units = more
      BY <3>1 DEF Load
    <3>. QED BY <1>0, <2>2, <2>4, <3>2, <3>3
  <2>9. ASSUME NEW c \in Carriers
        PROVE  /\ Len(carrier[c].units) <= Len(carrier'[c].units)
               /\ \A i \in 1..Len(carrier[c].units) : carrier'[c].units[i] = carrier[c].units[i]
    <3>1. CASE c = Out
      BY <1>0, <2>2, <2>5, <2>8, <3>1
    <3>2. CASE c # Out
      BY <1>0, <2>8, <3>2
    <3>. QED BY <3>1, <3>2
  <2>. QED BY <2>7, <2>9
<1>2. CASE CloseBody \/ WriteFails \/ ProxyHangsUp
  <2>1. \E c \in Carriers, how \in {"end", "reset", "cut"} : CarrierEnds(c, how)
    <3>1. CASE CloseBody \/ WriteFails
      <4>1. pp \in Streams /\ \E how \in {"end", "reset"} : CarrierEnds(Out, how)
        BY <3>1 DEF CloseBody, ClosesAfter, WriteFails
      <4>. QED BY <4>1, OutKnown
    <3>2. CASE ProxyHangsUp
      BY <3>2 DEF ProxyHangsUp, Carriers, Paths
    <3>. QED BY <1>2, <3>1, <3>2
  <2>2. PICK c \in Carriers, how \in {"end", "reset", "cut"} : CarrierEnds(c, how)
    BY <2>1
  <2> DEFINE over == IF carrier[c].over = "no" THEN how ELSE carrier[c].over
  <2>3. carrier' = [carrier EXCEPT ![c].over = over]
    BY <2>2 DEF CarrierEnds
  <2>4. carrier[c] \in Load /\ over \in {"no", "end", "reset", "cut"}
    BY <1>0, <2>2 DEF Load
  <2> HIDE DEF over
  <2>5. [carrier[c] EXCEPT !.over = over] \in Load /\ [carrier[c] EXCEPT !.over = over].units = carrier[c].units
    BY <2>4 DEF Load
  <2>6. carrier' \in [Carriers -> Load] /\ \A d \in Carriers : carrier'[d].units = carrier[d].units
    BY <1>0, <2>2, <2>3, <2>5
  <2>. QED BY <1>0, <2>6
<1>3. CASE carrier' = carrier
  BY <1>0, <1>3
<1>. QED BY <1>1, <1>2, <1>3, WritersKnown

LEMMA LinksKept ==
  ASSUME TransferTyped, [SipubNext]_sipubVars
  PROVE  LinksTyped'
<1>1. direct' \in {"none", "waiting", "claimed", "expired"}
  <2>0. direct \in {"none", "waiting", "claimed", "expired"}
    BY DEF TransferTyped, LinksTyped
  <2>1. CASE PublisherMoves
    <3>1. CASE OnStart \/ SendOffer \/ OfferAnswered \/ GatherDirect \/ GatherProxy \/ QueryAnswered \/ OpenDirect
      BY <2>0, <3>1 DEF OnStart, OnStartIf, SendOffer, OfferAnswered, GatherDirect, GatherProxy, Query,
                        QueryAnswered, OpenDirect, PubStep, links
    <3>2. CASE OpenProxy \/ ActivateProxy \/ OpenIbb \/ OpenAnswered \/ OpenBody \/ WriteUnit \/ CloseBody \/ WriteFails
      BY <2>0, <3>2 DEF OpenProxy, ActivateProxy, OpenIbb, OpenAnswered, OpenBody, WriteUnit, CloseBody, ClosesAfter,
                        WriteFails, PubStep, links
    <3>3. CASE Finished \/ Withdraw \/ PubTimeout \/ ReleasePub
      BY <2>0, <3>3 DEF Finished, Withdraw, PubTimeout, ReleasePub, PubStep, links
    <3>. QED BY <2>1, <3>1, <3>2, <3>3 DEF PublisherMoves
  <2>2. CASE RetrieverMoves
    <3>1. CASE Retrieve \/ StartAnswered \/ AwaitOffer \/ OnSiOffer \/ OnQuery \/ Connected \/ NextCandidate
      BY <2>0, <3>1 DEF Retrieve, StartAnswered, AwaitOffer, OnSiOffer, AcceptOffer, AcceptArming, OnQuery,
                        Connected, NextCandidate, links
    <3>2. CASE NoCandidateLeft \/ OnIbbOpen \/ ReadUnit \/ ReadEnds \/ RetTimeout \/ ReaderCancels \/ ReleaseRet
      BY <2>0, <3>2 DEF NoCandidateLeft, OnIbbOpen, ReadUnit, ReadEnds, RetTimeout, ReaderCancels, ReleaseRet, links
    <3>. QED BY <2>2, <3>1, <3>2 DEF RetrieverMoves
  <2>3. CASE DirectTimer \/ Lose \/ UNCHANGED sipubVars
    BY <2>0, <2>3 DEF DirectTimer, Lose, sipubVars, links
  <2>4. CASE UNCHANGED direct
    BY <2>0, <2>4
  <2>. QED BY <2>1, <2>2, <2>3, <2>4, WhoMoves
<1>. QED BY <1>1, CarriersKept, MailKept DEF LinksTyped

-----------------------------------------------------------------------------
LEMMA OneCarrierKept ==
  ASSUME TransferTyped, OneCarrier, [SipubNext]_sipubVars
  PROVE  OneCarrier'
<1>0. carrier \in [Carriers -> Load] /\ unit \in 1..Units + 1 /\ Units \in Nat /\ broken \in BOOLEAN
      /\ \A c \in Carriers : carrier[c] \in Load
  BY SipubAssumption DEF TransferTyped, LinksTyped, PublisherTyped, SipubAssumption
<1>1. CASE WriteUnit
  <2>1. /\ pp \in Streams /\ unit <= Units /\ unit' = unit + 1 /\ UNCHANGED <<pp, used, broken>>
        /\ carrier[Out].over = "no" => carrier' = [carrier EXCEPT ![Out].units = Append(@, unit)]
    BY <1>1 DEF WriteUnit
  <2>2. Out \in Carriers /\ Out' = Out
    BY <2>1, OutKnown DEF Out
  <2> SUFFICES ASSUME ~broken PROVE OneCarrier'
    BY <2>1 DEF OneCarrier
  <2>3. /\ carrier[Out].over = "no" /\ carrier[Out].units = Ordinals(unit - 1)
        /\ \A c \in Carriers \ {Out} : Untouched(c)
    BY <2>1 DEF OneCarrier
  <2>4. /\ carrier'[Out].over = "no" /\ carrier'[Out].units = Append(Ordinals(unit - 1), unit)
        /\ \A c \in Carriers \ {Out} : carrier'[c] = carrier[c]
    <3>1. carrier[Out] \in Load /\ carrier'[Out] = [carrier[Out] EXCEPT !.units = Append(carrier[Out].units, unit)]
      BY <1>0, <2>1, <2>2, <2>3
    <3>2. carrier'[Out].over = carrier[Out].over /\ carrier'[Out].units = Append(carrier[Out].units, unit)
      BY <3>1 DEF Load
    <3>3. \A c \in Carriers \ {Out} : carrier'[c] = carrier[c]
      BY <1>0, <2>1, <2>2, <2>3
    <3>. QED BY <2>3, <3>2, <3>3
  <2>5. Append(Ordinals(unit - 1), unit) = Ordinals(unit' - 1)
    <3>1. unit - 1 \in Nat /\ unit = (unit - 1) + 1 /\ unit' - 1 = (unit - 1) + 1
      BY <1>0, <2>1
    <3> DEFINE n == unit - 1
    <3>2. n \in Nat /\ unit = n + 1 /\ unit' - 1 = n + 1
      BY <3>1
    <3> HIDE DEF n
    <3>3. Append(Ordinals(n), n + 1) = Ordinals(n + 1)
      BY <3>2, OneMore
    <3>4. Append(Ordinals(n), unit) = Ordinals(unit' - 1)
      BY <3>2, <3>3
    <3>. QED BY <3>4 DEF n
  <2>6. \A c \in Carriers \ {Out} : Untouched(c)'
    BY <2>3, <2>4 DEF Untouched
  <2>. QED BY <2>1, <2>2, <2>4, <2>5, <2>6 DEF OneCarrier, Streams
<1>2. CASE CloseBody
  <2>1. /\ pp \in Streams /\ unit > Units /\ pp' = "done" /\ UNCHANGED broken
        /\ carrier[Out].over = "no" => carrier' = [carrier EXCEPT ![Out].over = "end"]
    BY <1>2 DEF CloseBody, ClosesAfter, CarrierEnds
  <2>2. Out \in Carriers
    BY <2>1, OutKnown
  <2> SUFFICES ASSUME ~broken PROVE OneCarrier'
    BY <2>1 DEF OneCarrier
  <2>3. /\ carrier[Out].over = "no" /\ carrier[Out].units = Ordinals(unit - 1)
        /\ \A c \in Carriers \ {Out} : Untouched(c)
    BY <2>1 DEF OneCarrier
  <2>4. carrier'[Out].units = carrier[Out].units /\ \A c \in Carriers \ {Out} : carrier'[c] = carrier[c]
    <3>1. carrier[Out] \in Load /\ carrier'[Out] = [carrier[Out] EXCEPT !.over = "end"]
      BY <1>0, <2>1, <2>2, <2>3
    <3>2. carrier'[Out].units = carrier[Out].units
      BY <3>1 DEF Load
    <3>. QED BY <1>0, <2>1, <2>2, <2>3, <3>2
  <2>5. unit - 1 = Units
    BY <1>0, <2>1
  <2>6. Ordinals(Units) = Body
    BY DEF Ordinals, Body
  <2>7. \A c \in Carriers \ {Out} : carrier'[c].over = "no"
    BY <2>3, <2>4 DEF Untouched
  <2>8. \A c \in Carriers : carrier'[c].over = "end" => carrier'[c].units = Body
    BY <2>3, <2>4, <2>5, <2>6, <2>7
  <2>9. carrier[Out] \in Load /\ carrier'[Out] = [carrier[Out] EXCEPT !.over = "end"]
    BY <1>0, <2>1, <2>2, <2>3
  <2>10. carrier'[Out].over = "end"
    BY <2>9 DEF Load
  <2>11. \A c \in Carriers : carrier'[c].over # "cut"
    BY <2>7, <2>10
  <2>. QED BY <2>1, <2>8, <2>11 DEF OneCarrier, Streams
<1>3. CASE WriteFails \/ ProxyHangsUp
  BY <1>3 DEF WriteFails, ProxyHangsUp, OneCarrier
<1>4. CASE OpenBody /\ carrier' = carrier /\ broken' = broken
  <2>1. /\ pp \in {"writing", "ibbWriting"} /\ unit' = (IF retrieval.body = "bytes" THEN 1 ELSE unit)
        /\ pp' = (IF pp = "writing" THEN "streaming" ELSE "ibbStreaming") /\ used' = used
    BY <1>4 DEF OpenBody
  <2> SUFFICES ASSUME ~broken PROVE OneCarrier'
    BY <1>4 DEF OneCarrier
  <2>2. unit = 1 /\ \A c \in Carriers : Untouched(c)
    BY <2>1 DEF OneCarrier, Streams
  <2>3. unit' - 1 = 0 /\ \A c \in Carriers : Untouched(c)'
    BY <1>4, <2>1, <2>2 DEF Untouched
  <2>4. pp' \in Streams /\ Out' \in Carriers
    BY <2>1 DEF Streams, Out, Carriers, TransferTyped, PublisherTyped, Bytestream
  <2>5. Ordinals(0) = <<>>
    BY OneMore
  <2>. QED BY <2>3, <2>4, <2>5 DEF OneCarrier, Streams, Untouched
<1>5. CASE /\ carrier' = carrier /\ broken' = broken /\ unit' = unit
           /\ \/ UNCHANGED <<pp, used>>
              \/ pp \notin Streams \cup {"done"} /\ pp' \notin Streams \cup {"done"}
  <2>1. \A c \in Carriers : Untouched(c)' = Untouched(c)
    BY <1>5 DEF Untouched
  <2>2. CASE UNCHANGED <<pp, used>>
    <3>1. Out' = Out
      BY <2>2 DEF Out
    <3>. QED BY <1>5, <2>1, <2>2, <3>1 DEF OneCarrier, Streams
  <2>3. CASE pp \notin Streams \cup {"done"} /\ pp' \notin Streams \cup {"done"}
    BY <1>5, <2>1, <2>3 DEF OneCarrier, Streams
  <2>. QED BY <1>5, <2>2, <2>3
<1>. QED BY <1>1, <1>2, <1>3, <1>4, <1>5, WritersKnown

(* Who reads, and who settles the race. *)
LEMMA ReadersKnown ==
  ASSUME [SipubNext]_sipubVars
  PROVE  \/ ReadUnit
         \/ ReadEnds
         \/ /\ got' = got /\ (settled' = settled \/ settled = "no")
            /\ rp' = "ended" => rp = "ended"
<1>1. CASE RetrieverMoves
  <2>1. CASE Retrieve \/ StartAnswered \/ AwaitOffer \/ OnSiOffer \/ OnQuery
    BY <2>1 DEF Retrieve, StartAnswered, AwaitOffer, OnSiOffer, AcceptOffer, AcceptArming, OnQuery
  <2>2. CASE Connected \/ NextCandidate \/ NoCandidateLeft \/ OnIbbOpen
    BY <2>2 DEF Connected, NextCandidate, NoCandidateLeft, OnIbbOpen, Settle
  <2>3. CASE RetTimeout \/ ReaderCancels \/ ReleaseRet
    BY <2>3 DEF RetTimeout, ReaderCancels, ReleaseRet, ExpectationOver, Settle
  <2>. QED BY <1>1, <2>1, <2>2, <2>3 DEF RetrieverMoves
<1>2. CASE UNCHANGED retVars
  BY <1>2 DEF retVars
<1>. QED BY <1>1, <1>2, WhoMoves

LEMMA ReadIsKept ==
  ASSUME TransferTyped, ReadIsWritten, [SipubNext]_sipubVars
  PROVE  ReadIsWritten'
<1>0. got \in Seq(1..Units) /\ settled \in Carriers \cup {"no", "failed"}
  BY DEF TransferTyped, RetrieverTyped
<1>1. CASE ReadUnit
  <2>1. /\ settled \in Carriers /\ settled' = settled /\ carrier' = carrier
        /\ Len(got) < Len(carrier[settled].units)
        /\ got' = Append(got, carrier[settled].units[Len(got) + 1])
    BY <1>1 DEF ReadUnit, links
  <2> DEFINE u == carrier[settled].units
  <2>2. \A i \in 1..Len(got) : got[i] = u[i]
    BY <2>1 DEF ReadIsWritten
  <2>3. Len(u) \in Nat
    <3>1. \A l \in Load : Len(l.units) \in Nat
      BY LenProperties DEF Load
    <3>. QED BY <2>1, <3>1 DEF TransferTyped, LinksTyped
  <2>4. u' = u /\ Len(got) < Len(u) /\ got' = Append(got, u[Len(got) + 1])
    BY <2>1
  <2> HIDE DEF u
  <2>5. Len(got') <= Len(u) /\ \A i \in 1..Len(got') : got'[i] = u[i]
    BY <1>0, <2>2, <2>3, <2>4
  <2>. QED BY <2>1, <2>5 DEF ReadIsWritten, u
<1>2. CASE got' = got /\ settled' = settled
  <2>1. CASE settled \notin Carriers
    BY <1>2, <2>1 DEF ReadIsWritten
  <2>2. CASE settled \in Carriers
    <3> DEFINE u == carrier[settled].units
               v == carrier'[settled].units
    <3>1. Len(u) <= Len(v) /\ \A i \in 1..Len(u) : v[i] = u[i]
      BY <2>2, CarriersKept
    <3>2. Len(got) <= Len(u) /\ \A i \in 1..Len(got) : got[i] = u[i]
      BY <2>2 DEF ReadIsWritten
    <3>3. Len(u) \in Nat /\ Len(v) \in Nat /\ Len(got) \in Nat
      <4>1. \A l \in Load : Len(l.units) \in Nat
        BY LenProperties DEF Load
      <4>2. carrier \in [Carriers -> Load] /\ carrier' \in [Carriers -> Load]
        BY CarriersKept DEF TransferTyped, LinksTyped
      <4>. QED BY <1>0, <2>2, <4>1, <4>2, LenProperties
    <3> HIDE DEF u, v
    <3>4. Len(got) <= Len(v) /\ \A i \in 1..Len(got) : got[i] = v[i]
      BY <3>1, <3>2, <3>3
    <3>. QED BY <1>2, <2>2, <3>4 DEF ReadIsWritten, v
  <2>. QED BY <2>1, <2>2
<1>3. CASE got' = got /\ settled = "no"
  <2>1. got = <<>>
    BY <1>3 DEF ReadIsWritten, Carriers, Paths
  <2>2. \A c \in Carriers : Len(carrier'[c].units) \in Nat
    <3>1. \A l \in Load : Len(l.units) \in Nat
      BY LenProperties DEF Load
    <3>. QED BY <3>1, CarriersKept
  <2>. QED BY <1>3, <2>1, <2>2 DEF ReadIsWritten
<1>4. CASE ReadEnds
  <2>1. got' = got /\ settled' = settled
    BY <1>4 DEF ReadEnds
  <2>. QED BY <1>2, <2>1
<1>. QED BY <1>1, <1>2, <1>3, <1>4, ReadersKnown

(* What is read to a clean end is the body. *)
LEMMA EndIsKept ==
  ASSUME TransferInv, [SipubNext]_sipubVars
  PROVE  EndedMeansWhole'
<1>0. ~broken' => ~broken
  <2>1. CASE WriteFails \/ ProxyHangsUp
    BY <2>1 DEF WriteFails, ProxyHangsUp
  <2>2. CASE WriteUnit \/ CloseBody
    BY <2>2 DEF WriteUnit, CloseBody, ClosesAfter
  <2>. QED BY <2>1, <2>2, WritersKnown DEF TransferInv
<1>1. CASE ReadUnit
  <2>1. rp' = rp /\ rp = "reading"
    BY <1>1 DEF ReadUnit
  <2>. QED BY <2>1 DEF EndedMeansWhole
<1>2. CASE ReadEnds
  <2> SUFFICES ASSUME rp' = "ended", ~broken' PROVE got' = Body
    BY DEF EndedMeansWhole
  <2>0. settled \in Carriers /\ carrier[settled].over \in {"end", "cut"} /\ got' = got
    BY <1>2 DEF ReadEnds
  <2>1. /\ settled \in Carriers /\ carrier[settled].over = "end" /\ Len(got) = Len(carrier[settled].units)
        /\ got' = got
    <3>1. carrier[settled].over # "cut"
      BY <1>0, <2>0 DEF TransferInv, OneCarrier, Untouched, Streams
    <3>. QED BY <1>2, <2>0, <3>1 DEF ReadEnds
  <2>2. carrier[settled].units = Body
    <3>1. ~Untouched(settled)
      BY <2>1 DEF Untouched
    <3>2. pp \notin Streams
      BY <1>0, <2>1, <3>1 DEF TransferInv, OneCarrier
    <3>3. pp = "done"
      BY <1>0, <2>1, <3>1, <3>2 DEF TransferInv, OneCarrier
    <3>. QED BY <1>0, <2>1, <3>3 DEF TransferInv, OneCarrier
  <2>3. got \in Seq(1..Units) /\ Len(got) = Len(Body) /\ \A i \in 1..Len(got) : got[i] = Body[i]
    BY <2>1, <2>2 DEF TransferInv, TransferTyped, RetrieverTyped, ReadIsWritten
  <2>4. Body \in Seq(1..Units)
    BY SipubAssumption DEF Body, SipubAssumption
  <2>5. got = Body
    BY <2>3, <2>4, SeqEqual
  <2>. QED BY <2>1, <2>5
<1>3. CASE got' = got /\ (rp' = "ended" => rp = "ended")
  BY <1>0, <1>3 DEF TransferInv, EndedMeansWhole
<1>. QED BY <1>1, <1>2, <1>3, ReadersKnown

-----------------------------------------------------------------------------
LEMMA TransferBegins ==
  ASSUME SipubInit
  PROVE  TransferInv
<1>0. Units \in Nat
  BY SipubAssumption DEF SipubAssumption
<1>1. PublisherTyped
  <2>1. /\ pub = "live" /\ transfers = 0 /\ pp = "none" /\ used = "none"
        /\ opened = 0 /\ unit = 1 /\ broken = FALSE
    BY DEF SipubInit
  <2>2. unit \in 1..Units + 1
    BY <1>0, <2>1
  <2>3. transfers \in 0..1 /\ opened \in 0..2 /\ opened <= 1
    BY <2>1
  <2>5. broken \in BOOLEAN
    BY <2>1, Zenon
  <2>4. pp \notin Bytestream
    BY <2>1 DEF Bytestream
  <2>. QED BY <2>1, <2>2, <2>3, <2>4, <2>5 DEF PublisherTyped
<1>2. RetrieverTyped
  <2>1. /\ rp = "idle" /\ offer = "none" /\ s5 = FALSE /\ dialling = NotDialling
        /\ ibb = "none" /\ settled = "no" /\ got = <<>>
    BY DEF SipubInit
  <2>2. got \in Seq(1..Units)
    BY <2>1
  <2>. QED BY <2>1, <2>2 DEF RetrieverTyped, RetDone
<1>3. carrier = [c \in Carriers |-> [units |-> <<>>, over |-> "no"]] /\ toPub = <<>> /\ toRet = <<>> /\ direct = "none"
  BY DEF SipubInit
<1>4. LinksTyped
  BY <1>3 DEF LinksTyped, Load
<1>5. \A c \in Carriers : Untouched(c)
  BY <1>3 DEF Untouched
<1>6. pp = "none" /\ unit = 1 /\ rp = "idle" /\ got = <<>> /\ settled = "no" /\ retrieval \in Retrievals
  BY DEF SipubInit
<1>7. OneCarrier
  BY <1>5, <1>6 DEF OneCarrier, Streams
<1>8. ReadIsWritten /\ EndedMeansWhole
  BY <1>6 DEF ReadIsWritten, EndedMeansWhole, Carriers, Paths
<1>. QED BY <1>1, <1>2, <1>4, <1>6, <1>7, <1>8 DEF TransferInv, TransferTyped

(* Whatever the two sides do, and whatever is lost, late or withdrawn, one *)
(* carrier at most has a body that did not break, and what was read is how *)
(* it begins.                                                              *)
THEOREM TransferIsSound == SipubSpec => []TransferInv
<1>1. SipubInit => TransferInv
  BY TransferBegins
<1>2. TransferInv /\ [SipubNext]_sipubVars => TransferInv'
  <2> SUFFICES ASSUME TransferInv, [SipubNext]_sipubVars PROVE TransferInv'
    OBVIOUS
  <2>1. TransferTyped'
    BY PublisherKept, RetrieverKept, LinksKept, WhoMoves DEF TransferInv, TransferTyped
  <2>2. OneCarrier' /\ ReadIsWritten'
    BY OneCarrierKept, ReadIsKept DEF TransferInv
  <2>. QED BY <2>1, <2>2, EndIsKept DEF TransferInv
<1>. QED BY <1>1, <1>2, PTL DEF SipubSpec

(* Types, and that a publication serves one transfer. *)
THEOREM TransferTypes == SipubSpec => []SipubTypeOK
<1>1. TransferInv => SipubTypeOK
  <2> SUFFICES ASSUME TransferInv PROVE SipubTypeOK
    OBVIOUS
  <2>1. \A c \in Carriers : carrier[c].units \in Seq(1..Units) /\ carrier[c].over \in {"no", "end", "reset", "cut"}
    BY DEF TransferInv, TransferTyped, LinksTyped, Load
  <2>2. direct \in {"none", "waiting", "claimed", "expired"}
    BY DEF TransferInv, TransferTyped, LinksTyped
  <2>3. PublisherTyped /\ RetrieverTyped /\ retrieval \in Retrievals
    BY DEF TransferInv, TransferTyped
  <2>4. dialling \subseteq Paths \/ dialling = NotDialling
    BY <2>3 DEF RetrieverTyped
  <2>. QED BY <2>1, <2>2, <2>3, <2>4 DEF SipubTypeOK, PublisherTyped, RetrieverTyped
<1>. QED BY <1>1, TransferIsSound, PTL

(* A read that ends cleanly has the whole body, once and in order, for     *)
(* every length of it: no race of the carriers, no fallback between them   *)
(* and no replayed <start> splices or cuts it.  Once a write, the body or  *)
(* the proxy failed, a clean end promises nothing.                         *)
THEOREM CleanEndsAreWhole == SipubSpec => []EndedMeansWhole
<1>1. TransferInv => EndedMeansWhole
  BY DEF TransferInv
<1>. QED BY <1>1, TransferIsSound, PTL
=============================================================================
