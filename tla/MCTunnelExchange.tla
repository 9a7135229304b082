-------------------------- MODULE MCTunnelExchange --------------------------
(* Small instances of TunnelExchange for TLC. *)
EXTENDS TunnelExchange

Talk(faults, handler, ends, c, e) ==
  [faults |-> faults, handler |-> handler, ends |-> ends, says |-> [client |-> c, exit |-> e]]

(* Short exchanges that end in every way, and one that runs into every     *)
(* bound on the way to a slow reader.                                      *)
Talks ==
  {Talk(f, "dials", ends, 1, 1) :
     f \in {{}, {"reset"}, {"timeout", "abort"}, {"close"}, {"stop", "refuse"}}, ends \in SUBSET Sides}
  \cup {Talk({"timeout", "stop"}, h, {"client"}, 1, 0) : h \in {"unfit", "bare", "headers", "body"}}
  \cup {Talk({}, "dials", {"client"}, 6, 0), Talk({}, "dials", {"exit"}, 0, 6), Talk({}, "dials", {"exit"}, 2, 2), Talk({"abort"}, "dials", {}, 0, 5)}
=============================================================================
