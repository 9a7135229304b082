--------------------------- MODULE MCJingleSession ---------------------------
(* A small instance of JingleSession for TLC. *)
EXTENDS JingleSession

Healthy == {}
Late    == {"timeout", "broken"}

AnyTrouble == {Healthy, Late, FaultKinds}
=============================================================================
