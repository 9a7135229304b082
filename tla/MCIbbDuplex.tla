----------------------------- MODULE MCIbbDuplex -----------------------------
(* Small instances of IbbDuplex for TLC. *)
EXTENDS IbbDuplex

Troubles == {{}, {"abort", "idle"}, {"damage", "acceptTimeout"}, {"openTimeout", "earlyIdle"},
             {"blockTimeout", "closeTimeout"}, {"abort", "damage"}}
=============================================================================
