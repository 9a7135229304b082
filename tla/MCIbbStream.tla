----------------------------- MODULE MCIbbStream -----------------------------
(* Small instances of IbbStream for TLC. *)
EXTENDS IbbStream

FaultyAndHealthy ==
  {[blocks |-> 3, resumes |-> 1, faults |-> FaultKinds],
   [blocks |-> 5, resumes |-> 2, faults |-> {}]}
=============================================================================
