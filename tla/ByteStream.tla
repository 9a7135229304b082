----------------------------- MODULE ByteStream -----------------------------
(***************************************************************************)
(* What an in-band bytestream promises the two programs that use it: the   *)
(* reader takes the writer's blocks in order, each once; a writer that was *)
(* told "closed" has had every block taken; and a reader that saw a clean  *)
(* end before taking them all has a writer that gave up.                   *)
(***************************************************************************)
EXTENDS Naturals

CONSTANT MaxBlocks    \* bound: blocks the writer writes

VARIABLES
  written,   \* blocks handed to write()
  taken,     \* blocks the reader's side has taken, the first `taken` of them
  writer,    \* "open", "closing", "closed" (close() resolved) or "failed"
  reader     \* "open", "ended" (a clean end) or "broken" (an error, or it left)

vars == <<written, taken, writer, reader>>

Init == written = 0 /\ taken = 0 /\ writer = "open" /\ reader = "open"

(* A block written; the last one may say that it is the last. *)
Write ==
  /\ writer = "open" /\ written < MaxBlocks
  /\ written' = written + 1
  /\ writer' \in {"open", "closing"}
  /\ UNCHANGED <<taken, reader>>

EndReached(n) == (writer = "closing" /\ n = written) \/ writer = "failed"

(* Blocks taken; with the last of them the end may be known, and an error *)
(* may come with any of them.                                              *)
Take ==
  /\ reader = "open"
  /\ \E n \in taken + 1..written :
       /\ taken' = n
       /\ reader' \in {"open", "broken"} \/ (EndReached(n) /\ reader' = "ended")
  /\ UNCHANGED <<written, writer>>

BeginClose ==
  /\ writer = "open" /\ writer' = "closing"
  /\ UNCHANGED <<written, taken, reader>>

(* close() resolves: every block was taken, and the reader knows the end.  *)
Closed ==
  /\ writer = "closing" /\ taken = written /\ reader # "open"
  /\ writer' = "closed"
  /\ UNCHANGED <<written, taken, reader>>

Fail ==
  /\ writer \in {"open", "closing"} /\ writer' = "failed"
  /\ UNCHANGED <<written, taken, reader>>

(* The reader's clean end: after the last block, or the writer gave up.    *)
End ==
  /\ reader = "open"
  /\ EndReached(taken)
  /\ reader' = "ended"
  /\ UNCHANGED <<written, taken, writer>>

Break ==
  /\ reader \in {"open", "ended"} /\ reader' = "broken"
  /\ UNCHANGED <<written, taken, writer>>

Next == Write \/ Take \/ BeginClose \/ Closed \/ Fail \/ End \/ Break

Spec == Init /\ [][Next]_vars
=============================================================================
