--------------------------- MODULE MCIbbScheduler ---------------------------
(* Small instances of IbbScheduler for TLC. *)
EXTENDS IbbScheduler, TLC

CONSTANTS s1, s2, w1, w2

TwoStreams  == {s1, s2}
WindowTwo   == [s \in Streams |-> 2]
WindowMixed == (s1 :> 2) @@ (s2 :> 1)
NoStreams   == {}
JustS2      == {s2}
OneWriter   == {w1}
TwoWriters  == {w1, w2}
FiveSlots   == 1..5
=============================================================================
