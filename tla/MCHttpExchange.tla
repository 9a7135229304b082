---------------------------- MODULE MCHttpExchange ----------------------------
(* Small instances of HttpExchange for TLC. *)
EXTENDS HttpExchange

Exchange(faults, upload, download, packed, handler, preferred, accept, client, server, fits) ==
  [faults |-> faults, upload |-> upload, download |-> download, packed |-> packed, handler |-> handler,
   preferred |-> preferred, accept |-> accept, limits |-> [client |-> client, server |-> server],
   fits |-> fits]

(* A text of as many units as may be inlined, of three bytes each. *)
Ideographs == Wide("bytes", 12288, 4096, 12288, FALSE)

Word   == Body("bytes", 10, 10, FALSE)
Flow   == Body("stream", 20000, Unset, FALSE)

(* How an exchange can go, with one mechanism at a time. *)
Troubles ==
  {{}, {"timeout", "loss"}, {"timeout", "abort"}, {"timeout", "close"}, {"timeout", "stop"},
   {"timeout", "cancel"}, {"timeout", "refuse"}, {"timeout", "source"}}

Mixes ==
  {Exchange(faults, up, down, Unset, handler, pref, {"ibb", "jingle"}, Unset, Unset, fits) :
     faults \in Troubles, up \in {Word, Flow}, down \in {Word, Flow},
     handler \in {"reads", "ignores", "pipes", "throws", "hangs"},
     pref \in {<<"ibb">>, <<"chunked">>, <<"jingle">>}, fits \in BOOLEAN}

(* What pipes a body through answers with a stream. *)
Sensible == {p \in Mixes : p.handler = "pipes" => p.upload = Flow /\ p.download = Flow}

(* How large it can be: at and around each boundary, for each limit.       *)
SomeLimits == {Unset, 3072, 3074, 10240, 262144}
SomeBodies ==
  {Body("empty", 0, Unset, FALSE), Body("bytes", 768, 1025, FALSE), Body("bytes", 769, Unset, FALSE),
   Body("bytes", 3072, 4097, FALSE), Body("bytes", 3073, 4096, FALSE), Body("element", 9000, 9000, FALSE),
   Body("stream", 3072, Unset, TRUE), Body("stream", 3073, Unset, TRUE), Body("stream", 6000, Unset, FALSE),
   Body("stream", 0, Unset, FALSE), Ideographs}

Requests == {b \in SomeBodies : ~b.declared}

Sizes ==
  {Exchange({}, up, Word, Unset, "reads", pref, accept, c, s, TRUE) :
     up \in Requests, accept \in {{"ibb"}, {}}, pref \in {<<"ibb", "chunked">>, <<"chunked">>, <<>>}, c \in SomeLimits, s \in SomeLimits}
  \cup
  {Exchange({}, Word, down, packed, "reads", pref, accept, c, s, TRUE) :
     down \in SomeBodies, packed \in {Unset, 2000}, pref \in {<<"ibb", "chunked">>, <<"sipub", "jingle">>}, accept \in {{"ibb", "jingle"}, {}},
     c \in SomeLimits, s \in SomeLimits}

All == Sensible \cup Sizes

=============================================================================
