------------------------------ MODULE BodySizes ------------------------------
(***************************************************************************)
(* How a body travels, and how large its stanzas are (src/transport/       *)
(* select.ts, the budgets of client and server, and what the server        *)
(* buffers, or compresses, so that it can be inlined).  Sizes are the      *)
(* code's own: text is measured in UTF-16 units, which is what a string's  *)
(* length counts, anything else in bytes.                                  *)
(***************************************************************************)
EXTENDS Integers, Sequences

MinChunk      == 256
MaxChunk      == 65536
DefaultChunk  == 4096
SafeCap       == 8192
DefaultInline == 4096
MinCompress   == 256
Floor         == 10000    \* what RFC 6120 makes every server accept

Unset == 0                \* an option or a limit that was not given

AtMost(most, n)   == IF n < most THEN n ELSE most
AtLeast(least, n) == IF n > least THEN n ELSE least
Or(option, default) == IF option = Unset THEN default ELSE option

Mechanisms == {"ibb", "chunked", "sipub", "jingle"}
Inline     == {"none", "xml", "text", "base64"}

(* A body: its kind ("empty", "bytes", "element" or "stream"), its size,   *)
(* its escaped text in UTF-16 units (Unset for bytes that are none) and in *)
(* the bytes it takes on the wire, and whether the length of a stream was  *)
(* declared.  A unit takes up to three bytes.                              *)
Wide(kind, size, escaped, wire, declared) ==
  [kind |-> kind, size |-> size, escaped |-> escaped, wire |-> wire, declared |-> declared]

Body(kind, size, escaped, declared) == Wide(kind, size, escaped, escaped, declared)

Bodies ==
  {b \in [kind : {"empty", "bytes", "element", "stream"}, size : Nat, escaped : Nat, wire : Nat,
          declared : BOOLEAN] : b.wire \in b.escaped..3 * b.escaped}

BytePerUnit(body) == body.wire = body.escaped

base64Length(n) == 4 * ((n + 2) \div 3)

resolveChunkSize(requesterMax) ==
  AtMost(MaxChunk, AtLeast(MinChunk, Or(requesterMax, AtMost(DefaultChunk, SafeCap))))

(* What an advertised limit allows; without one the options are not set.   *)
stanzaBudgets(maxBytes) ==
  IF maxBytes = Unset THEN [inline |-> DefaultInline, chunk |-> Unset]
  ELSE [inline |-> AtLeast(1024, maxBytes - 2048),
        chunk  |-> AtMost(MaxChunk, AtLeast(MinChunk, ((maxBytes - 512) * 3) \div 4))]

(* canStream() and selectStream(): the first mechanism preferred that the  *)
(* requester accepts.                                                      *)
Usable(preferred, accepted) == {i \in DOMAIN preferred : preferred[i] \in accepted}

First(preferred, accepted) ==
  preferred[CHOOSE i \in Usable(preferred, accepted) : \A j \in Usable(preferred, accepted) : i <= j]

Mode(m, size) == [mode |-> m, size |-> size]

selectStream(preferred, accepted, requesterMax) ==
  LET first == First(preferred, accepted) IN
  IF Usable(preferred, accepted) = {} THEN Mode("too-large", 0)
  ELSE Mode(first, IF first = "sipub" THEN 0 ELSE resolveChunkSize(requesterMax))

AsText(body, budget) == body.kind = "bytes" /\ body.escaped \in 1..budget

(* The first form that fits its budget, in the units it is measured in;    *)
(* for inline bodies with the bytes that go on the wire.                   *)
selectEncoding(body, budget, preferred, accepted, requesterMax) ==
  CASE body.kind = "empty" -> Mode("none", 0)
    [] body.kind = "element" /\ body.escaped <= budget -> Mode("xml", body.wire)
    [] AsText(body, budget) -> Mode("text", body.wire)
    [] body.kind = "bytes" /\ ~AsText(body, budget) /\ base64Length(body.size) <= budget ->
         Mode("base64", base64Length(body.size))
    [] OTHER -> selectStream(preferred, accepted, requesterMax)

(* streamSource(): a stream is read first if its declared length fits, and *)
(* if nothing could stream it, to see whether it fits.  What does not fit  *)
(* is cancelled, and stays a stream nobody can send.                       *)
Buffers(body, budget, preferred, accepted) ==
  /\ body.kind = "stream"
  /\ \/ body.declared /\ base64Length(body.size) <= budget
     \/ ~body.declared /\ Usable(preferred, accepted) = {}

Bytes(body) == IF body.size = 0 THEN Body("empty", 0, Unset, FALSE) ELSE Body("bytes", body.size, Unset, FALSE)

streamSource(body, budget, preferred, accepted) ==
  IF Buffers(body, budget, preferred, accepted) /\ base64Length(body.size) <= budget
  THEN Bytes(body) ELSE body

(* #maybeCompress(), when the requester takes a coding and the type is     *)
(* worth it; packed is what the coder makes of the body.  Bytes only if    *)
(* that is less, and no text then; a stream as it comes, its length no     *)
(* longer known.                                                           *)
maybeCompress(body, packed) ==
  CASE packed = Unset -> body
    [] packed # Unset /\ body.kind = "bytes" /\ body.size >= MinCompress /\ packed < body.size ->
         Body("bytes", packed, Unset, FALSE)
    [] packed # Unset /\ body.kind = "stream" -> [body EXCEPT !.declared = FALSE]
    [] OTHER -> body

(* Mutant: the server's own ceiling raises what the requester asked for.   *)
ibbBlockSizeRaised(wanted, ceiling) == AtLeast(MinChunk, AtLeast(wanted, Or(ceiling, wanted)))

(* The requester's size lowered by our own.                                *)
ibbBlockSize(wanted, ceiling) == AtLeast(MinChunk, AtMost(wanted, Or(ceiling, wanted)))
=============================================================================
