----------------------------- MODULE IbbPatience -----------------------------
(***************************************************************************)
(* The two deadlines of an in-band bytestream of src/ibb/ibb.ts, in time:  *)
(* the sender's per-block one (blockTimeoutMs) and the receiver's idle     *)
(* watchdog (#armIdleTimer), which is stretched while it withholds acks    *)
(* (#stalledTimeoutMs).  The consumer is slow but steady: while something  *)
(* is unread it reads a block within every MaxGap ticks.                   *)
(*                                                                         *)
(* A block arrives, and an ack returns, within a tick; so the blocks in    *)
(* flight are the ones whose acks are withheld.  The names are its own,    *)
(* apart from those of IbbScheduler, so that one module can extend both    *)
(* and prove about both.                                                   *)
(*                                                                         *)
(* A definition whose comment starts with "Mutant" is no part of the       *)
(* specification: it is the definition that follows it, with a bug the     *)
(* properties must catch.                                                  *)
(***************************************************************************)
EXTENDS Naturals, Sequences

CONSTANTS
  SenderWindow,   \* the sender's window
  ReceiveWindow,  \* receiveWindowBlocks, clamped
  HighWater,      \* #receiveBufferBytes, in blocks
  IdleTimeout,    \* idleTimeoutMs of both sides, in ticks
  MaxGap          \* the longest the consumer goes without reading

ASSUME PatienceAssumption ==
  /\ SenderWindow \in Nat \ {0} /\ ReceiveWindow \in Nat \ {0}
  /\ HighWater \in Nat \ {0}
  /\ IdleTimeout \in Nat \ {0} /\ MaxGap \in Nat \ {0}

VARIABLES
  unread,    \* blocks in the reader's queue
  withheld,  \* ticks since dispatch of each unacknowledged block, oldest first
  idle,      \* ticks since the idle timer was armed
  stalled,   \* it was armed with the stretched deadline
  gap        \* ticks since the consumer last read, or had nothing to read

clocks == <<unread, withheld, idle, stalled, gap>>

(* Mutant: a block's deadline is not scaled by the window. *)
blockTimeoutUnscaled == IdleTimeout

blockTimeout == IdleTimeout * SenderWindow

(* Mutant: the watchdog is not stretched. *)
stalledTimeoutPlain == IdleTimeout

stalledTimeout == IdleTimeout * (ReceiveWindow + 1)

PatienceInit == unread = 0 /\ withheld = <<>> /\ idle = 0 /\ stalled = FALSE /\ gap = 0

(* #armIdleTimer(key, state, stretched) *)
Arm(stretched) == idle' = 0 /\ stalled' = stretched

(* The sender dispatches a block; #onData enqueues it, and acks it unless  *)
(* the queue is full.                                                      *)
Block ==
  /\ Len(withheld) < SenderWindow
  /\ unread' = unread + 1
  /\ Arm(unread' >= HighWater)
  /\ withheld' = IF unread' >= HighWater THEN Append(withheld, 0) ELSE withheld
  /\ UNCHANGED gap

(* The consumer reads; pull() is called once the queue is short again, and *)
(* wakes every withheld ack.                                               *)
Read ==
  /\ unread > 0
  /\ unread' = unread - 1
  /\ gap' = 0
  /\ IF unread' < HighWater
     THEN Arm(FALSE) /\ withheld' = <<>>
     ELSE UNCHANGED <<withheld, idle, stalled>>

(* The sender that may send does so at once, and the consumer is steady.   *)
TimePasses ==
  /\ Len(withheld) = SenderWindow
  /\ gap < MaxGap
  /\ gap' = gap + 1
  /\ idle' = idle + 1
  /\ withheld' = [i \in DOMAIN withheld |-> withheld[i] + 1]
  /\ UNCHANGED <<unread, stalled>>

PatienceNext == Block \/ Read \/ TimePasses

PatienceSpec == PatienceInit /\ [][PatienceNext]_clocks

-----------------------------------------------------------------------------
(* "Without it, windowing would kill exactly the slow consumers that       *)
(* backpressure exists to serve" (blockTimeoutMs), and a stalled stream's  *)
(* deadline is "how long a consumer working steadily through a full window *)
(* is allowed to take" (#stalledTimeoutMs): no block of a steady           *)
(* consumer's stream reaches the sender's deadline, and the receiver's     *)
(* watchdog does not reap it.                                              *)
SlowConsumerIsKept ==
  /\ \A i \in DOMAIN withheld : withheld[i] < blockTimeout
  /\ idle < IF stalled THEN stalledTimeout ELSE IdleTimeout
=============================================================================
