--------------------------- MODULE MCSipubTransfer ---------------------------
(* Small instances of SipubTransfer for TLC. *)
EXTENDS SipubTransfer

SomeTroubles ==
  {{"replay"}, {"listen", "lookup", "unreachable"}, {"withdrawn", "write"}, {"body", "activation"},
   {"cancel", "activation"}, {"hangup", "activation"}, {"hangup", "cancel"},
   {"timeout", "lost"}, {"release", "timeout"}}
=============================================================================
