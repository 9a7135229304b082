---------------------------- MODULE IbbScheduler ----------------------------
(***************************************************************************)
(* The sending half of src/ibb/ibb.ts: every outgoing stream of a session  *)
(* (#createOutStream) under the session's fair scheduler                   *)
(* (#acquireSendSlot ... #grantSendSlots).                                 *)
(*                                                                         *)
(* JavaScript runs one synchronous stretch of code at a time.  A stretch   *)
(* that loops is several steps, one per turn of its loop: a running pump   *)
(* is at "pump", "acquire" or "giveBack", `granting` says that the stretch *)
(* is in #grantSendSlots, and no other stretch starts until it ends        *)
(* (Idle).  A pump that awaits is "parked"; once its await is resolved it  *)
(* is "ready" and resumes in some later stretch.                           *)
(*                                                                         *)
(* Time is counted in ticks: ParkAge ticks make #parkThresholdMs().  The   *)
(* threshold's growth with the measured latency is left out.               *)
(*                                                                         *)
(* A definition whose comment starts with "Mutant" is no part of the       *)
(* specification: it is the definition that follows it, with a bug the     *)
(* properties must catch.                                                  *)
(***************************************************************************)
EXTENDS Integers, Sequences, FiniteSets

CONSTANTS
  Streams,         \* the session's outgoing streams
  NoStream,        \* whose slot a free slot is
  Writers,         \* concurrent write()/close() calls on one stream
  Slots,           \* identities for send slots; a bound on how many exist at once
  SendLimit,       \* #sendLimit(): the session's budget of blocks
  Window,          \* a stream's own window of blocks
  BlockSize,       \* bytes in a full block
  FlushEachWrite,  \* the streams of duplexes, which send every remainder
  MaxBytes,        \* bound: bytes the application writes to a stream
  ParkAge,         \* ticks after which an unanswered block counts as parked
  SlowAcks,        \* whether an answer may take as long as that
  CanAbandon       \* whether abort(), a peer's <close/> or a refusal happens

ASSUME SchedulerAssumption ==
  /\ NoStream \notin Streams
  /\ Slots \subseteq Nat /\ IsFiniteSet(Slots)
  /\ SendLimit \in Nat \ {0}
  /\ Window \in [Streams -> Nat \ {0}]
  /\ BlockSize \in Nat \ {0}
  /\ FlushEachWrite \subseteq Streams
  /\ MaxBytes \in Nat /\ ParkAge \in Nat
  /\ SlowAcks \in BOOLEAN /\ CanAbandon \in BOOLEAN

VARIABLES
  unwritten,     \* bytes the application has yet to write, per stream
  buffered,      \* bytes in a stream's BlockBuffer
  closed,        \* close() was called
  dead,          \* `failed` or `closedByPeer`: the pumps of the stream throw
  pump,          \* what each write()/close() call is doing
  slot,          \* every session slot and block in flight, see SlotState
  sendInFlight,  \* #sendInFlight
  sendQueue,     \* #sendQueue
  sampled,       \* #ackLatencyMs is defined
  timer,         \* ticks until #reclaimTimer fires, or NoTimer
  granting       \* the stretch under way is inside #grantSendSlots

streamVars    == <<unwritten, buffered, closed, dead>>
schedulerVars == <<slot, sendInFlight, sendQueue, sampled, timer>>
vars          == <<streamVars, pump, schedulerVars, granting>>

Pumps     == Streams \X Writers
NoTimer   == -1
StreamOf(p) == p[1]

(* A slot is free, reserved for a stream by a grant ("granted"), held by a *)
(* dispatched block ("counted"), or only the identity of a block that was  *)
(* declared parked and gave its place in the budget back ("parked").       *)
SlotState == [use : {"free", "granted", "counted", "parked"},
              stream : Streams \cup {NoStream}, age : 0..ParkAge]

Free == [use |-> "free", stream |-> NoStream, age |-> 0]

Used(use)       == {i \in Slots : slot[i].use = use}
Granted(s)      == {i \in Used("granted") : slot[i].stream = s}
Blocks          == Used("counted") \cup Used("parked")
InFlight(s)     == Cardinality({i \in Blocks : slot[i].stream = s})
Overdue         == {i \in Used("counted") : slot[i].age = ParkAge}

First(i, S) == \A j \in S : i <= j
InQueue(s)  == \E k \in DOMAIN sendQueue : sendQueue[k] = s

HasBlock(s) ==
  \/ buffered[s] >= BlockSize
  \/ (closed[s] \/ s \in FlushEachWrite) /\ buffered[s] > 0

Wants(s) ==
  /\ ~dead[s]
  /\ HasBlock(s)
  /\ InFlight(s) + Cardinality(Granted(s)) < Window[s]

(* The pumps after wake(slotWaiters) of stream s. *)
Woken(s) ==
  [q \in Pumps |-> IF StreamOf(q) = s /\ pump[q] = "parked" THEN "ready" ELSE pump[q]]

At(p, pc) == pump[p] = pc /\ ~granting
Idle      == ~granting /\ \A p \in Pumps : pump[p] \in {"idle", "parked", "ready"}
Waiting   == sendQueue # <<>>

Init ==
  /\ unwritten = [s \in Streams |-> MaxBytes]
  /\ buffered = [s \in Streams |-> 0]
  /\ closed = [s \in Streams |-> FALSE]
  /\ dead = [s \in Streams |-> FALSE]
  /\ pump = [p \in Pumps |-> "idle"]
  /\ slot = [i \in Slots |-> Free]
  /\ sendInFlight = 0
  /\ sendQueue = <<>>
  /\ sampled = FALSE
  /\ timer = NoTimer
  /\ granting = FALSE

-----------------------------------------------------------------------------
(* The scheduler's own operations, as effects the steps below combine. *)

(* #armReclaim(), with the queue and slots as the caller leaves them. *)
ArmReclaim(queue) ==
  IF timer = NoTimer /\ queue # <<>> /\ sampled /\ Used("counted") # {}
  THEN \E i \in Used("counted") :
         /\ \A j \in Used("counted") : slot[j].age <= slot[i].age
         /\ timer' = ParkAge - slot[i].age
  ELSE UNCHANGED timer

(* #reclaimParked(): overdue blocks stop counting, once any ack was timed. *)
ReclaimParked ==
  LET parked == IF sampled THEN Overdue ELSE {}
  IN  /\ slot' = [i \in Slots |-> IF i \in parked THEN [slot[i] EXCEPT !.use = "parked"]
                                                  ELSE slot[i]]
      /\ sendInFlight' = sendInFlight - Cardinality(parked)

(* Mutant: a stream that is granted a slot is not woken. *)
GrantSilently ==
  /\ granting /\ Waiting /\ sendInFlight < SendLimit
  /\ LET s == Head(sendQueue) IN
       IF Wants(s)
       THEN /\ sendInFlight' = sendInFlight + 1
            /\ \E i \in Used("free") : First(i, Used("free")) /\
                 slot' = [slot EXCEPT ![i] = [use |-> "granted", stream |-> s, age |-> 0]]
            /\ UNCHANGED pump
       ELSE pump' = Woken(s) /\ UNCHANGED <<sendInFlight, slot>>
  /\ sendQueue' = Tail(sendQueue)
  /\ UNCHANGED <<streamVars, sampled, timer, granting>>

(* One turn of the loop of #grantSendSlots: the head of the queue gets the *)
(* slot, or is dropped if it no longer wants one; it is woken either way.  *)
Grant ==
  /\ granting /\ Waiting /\ sendInFlight < SendLimit
  /\ LET s == Head(sendQueue) IN
       /\ IF Wants(s)
          THEN /\ sendInFlight' = sendInFlight + 1
               /\ \E i \in Used("free") : First(i, Used("free")) /\
                    slot' = [slot EXCEPT ![i] = [use |-> "granted", stream |-> s, age |-> 0]]
          ELSE UNCHANGED <<sendInFlight, slot>>
       /\ pump' = Woken(s)
  /\ sendQueue' = Tail(sendQueue)
  /\ UNCHANGED <<streamVars, sampled, timer, granting>>

(* The loop ends: the budget is full or nobody waits. *)
GrantsDone ==
  /\ granting /\ ~(Waiting /\ sendInFlight < SendLimit)
  /\ ArmReclaim(sendQueue)
  /\ granting' = FALSE
  /\ UNCHANGED <<streamVars, pump, slot, sendInFlight, sendQueue, sampled>>

(* A block of stream s leaves in slot i. *)
Dispatch(i, s) ==
  /\ slot' = [slot EXCEPT ![i] = [use |-> "counted", stream |-> s, age |-> 0]]
  /\ buffered' = [buffered EXCEPT ![s] = IF @ < BlockSize THEN 0 ELSE @ - BlockSize]

-----------------------------------------------------------------------------
(* The pump of a write() or close() call. *)

Becomes(p, pc) == pump' = [pump EXCEPT ![p] = pc]

(* write(n bytes): ensureUsable, push, and the pump's first turn at once. *)
Write(p, n) ==
  LET s == StreamOf(p) IN
  /\ Idle /\ pump[p] = "idle" /\ ~dead[s] /\ ~closed[s]
  /\ n <= unwritten[s]
  /\ unwritten' = [unwritten EXCEPT ![s] = @ - n]
  /\ buffered' = [buffered EXCEPT ![s] = @ + n]
  /\ Becomes(p, "pump")
  /\ UNCHANGED <<closed, dead, schedulerVars, granting>>

(* close(): from now on a remainder is a block.  Draining the window and   *)
(* the <close/> that follow the pump hold no slot.                         *)
Close(p) ==
  LET s == StreamOf(p) IN
  /\ Idle /\ pump[p] = "idle" /\ ~dead[s] /\ ~closed[s]
  /\ closed' = [closed EXCEPT ![s] = TRUE]
  /\ Becomes(p, "pump")
  /\ UNCHANGED <<unwritten, buffered, dead, schedulerVars, granting>>

Resume(p) ==
  /\ Idle /\ pump[p] = "ready"
  /\ Becomes(p, "pump")
  /\ UNCHANGED <<streamVars, schedulerVars, granting>>

(* while (hasBlock()) is over, or throwIfFailed/throwIfPeerClosed threw:   *)
(* on to the finally block.                                                *)
PumpEnds(p) ==
  /\ At(p, "pump")
  /\ dead[StreamOf(p)] \/ ~HasBlock(StreamOf(p))
  /\ Becomes(p, "giveBack")
  /\ UNCHANGED <<streamVars, schedulerVars, granting>>

PumpGoesOn(p) == At(p, "pump") /\ HasBlock(StreamOf(p)) /\ ~dead[StreamOf(p)]
WindowFull(s) == InFlight(s) >= Window[s]

(* The stream's own window is full. *)
PumpParks(p) ==
  /\ PumpGoesOn(p) /\ WindowFull(StreamOf(p))
  /\ Becomes(p, "parked")
  /\ UNCHANGED <<streamVars, schedulerVars, granting>>

(* A slot was granted earlier: consume it. *)
PumpUsesGrant(p) ==
  /\ PumpGoesOn(p) /\ ~WindowFull(StreamOf(p))
  /\ \E i \in Granted(StreamOf(p)) :
       First(i, Granted(StreamOf(p))) /\ Dispatch(i, StreamOf(p))
  /\ UNCHANGED <<unwritten, closed, dead, pump, sendInFlight, sendQueue, sampled, timer, granting>>

(* Mutant: the asking stream does not let those who wait go first. *)
PumpAsksFirst(p) ==
  /\ PumpGoesOn(p) /\ ~WindowFull(StreamOf(p)) /\ Granted(StreamOf(p)) = {}
  /\ ReclaimParked
  /\ Becomes(p, "acquire")
  /\ UNCHANGED <<streamVars, sendQueue, sampled, timer, granting>>

(* None was: #acquireSendSlot reclaims, grants to those who wait first ... *)
PumpAsks(p) ==
  /\ PumpGoesOn(p) /\ ~WindowFull(StreamOf(p)) /\ Granted(StreamOf(p)) = {}
  /\ ReclaimParked
  /\ Becomes(p, "acquire")
  /\ granting' = TRUE
  /\ UNCHANGED <<streamVars, sendQueue, sampled, timer>>

(* Mutant: the budget is not looked at. *)
AcquireAnyway(p) ==
  /\ At(p, "acquire")
  /\ sendInFlight' = sendInFlight + 1
  /\ \E i \in Used("free") : First(i, Used("free")) /\ Dispatch(i, StreamOf(p))
  /\ Becomes(p, "pump")
  /\ UNCHANGED <<unwritten, closed, dead, sendQueue, sampled, timer, granting>>

(* ... takes a slot if one is left ... *)
AcquireNow(p) ==
  /\ At(p, "acquire") /\ sendInFlight < SendLimit
  /\ sendInFlight' = sendInFlight + 1
  /\ \E i \in Used("free") : First(i, Used("free")) /\ Dispatch(i, StreamOf(p))
  /\ Becomes(p, "pump")
  /\ UNCHANGED <<unwritten, closed, dead, sendQueue, sampled, timer, granting>>

(* ... or queues the stream, once, and the pump parks. *)
AcquireLater(p) ==
  /\ At(p, "acquire") /\ sendInFlight >= SendLimit
  /\ sendQueue' = IF InQueue(StreamOf(p)) THEN sendQueue
                                          ELSE Append(sendQueue, StreamOf(p))
  /\ ArmReclaim(sendQueue')
  /\ Becomes(p, "parked")
  /\ UNCHANGED <<streamVars, slot, sendInFlight, sampled, granting>>

(* giveBack(): one unused grant returns to the session per turn. *)
GiveBack(p) ==
  /\ At(p, "giveBack")
  /\ \E i \in Granted(StreamOf(p)) :
       First(i, Granted(StreamOf(p))) /\ slot' = [slot EXCEPT ![i] = Free]
  /\ sendInFlight' = sendInFlight - 1
  /\ granting' = TRUE
  /\ UNCHANGED <<streamVars, pump, sendQueue, sampled, timer>>

PumpReturns(p) ==
  /\ At(p, "giveBack") /\ Granted(StreamOf(p)) = {}
  /\ Becomes(p, "idle")
  /\ UNCHANGED <<streamVars, schedulerVars, granting>>

-----------------------------------------------------------------------------
(* The answers to blocks, the end of a stream, and time. *)

(* Mutant: a parked block gives back a slot it no longer holds. *)
SettleTwice(i, acked) ==
  LET s == slot[i].stream IN
  /\ Idle /\ i \in Blocks
  /\ acked \/ CanAbandon
  /\ slot' = [slot EXCEPT ![i] = Free]
  /\ dead' = [dead EXCEPT ![s] = @ \/ ~acked]
  /\ pump' = Woken(s)
  /\ sendInFlight' = sendInFlight - 1
  /\ sampled' = (sampled \/ acked)
  /\ granting' = TRUE
  /\ UNCHANGED <<unwritten, buffered, closed, sendQueue, timer>>

(* Mutant: the slot a settled block frees is not granted to anyone. *)
SettleQuietly(i, acked) ==
  LET s == slot[i].stream IN
  /\ Idle /\ i \in Blocks
  /\ acked \/ CanAbandon
  /\ slot' = [slot EXCEPT ![i] = Free]
  /\ dead' = [dead EXCEPT ![s] = @ \/ ~acked]
  /\ pump' = Woken(s)
  /\ sendInFlight' = IF slot[i].use = "counted" THEN sendInFlight - 1 ELSE sendInFlight
  /\ sampled' = (sampled \/ (acked /\ slot[i].use = "counted"))
  /\ UNCHANGED <<unwritten, buffered, closed, sendQueue, timer, granting>>

(* settle(): only a block still counted gives a slot back, and only the    *)
(* ack of one is a latency sample.  A refused block fails its stream.      *)
Settle(i, acked) ==
  LET s == slot[i].stream IN
  /\ Idle /\ i \in Blocks
  /\ acked \/ CanAbandon
  /\ slot' = [slot EXCEPT ![i] = Free]
  /\ dead' = [dead EXCEPT ![s] = @ \/ ~acked]
  /\ pump' = Woken(s)
  /\ IF slot[i].use = "counted"
     THEN /\ sendInFlight' = sendInFlight - 1
          /\ sampled' = (sampled \/ acked)
          /\ granting' = TRUE
     ELSE UNCHANGED <<sendInFlight, sampled, granting>>
  /\ UNCHANGED <<unwritten, buffered, closed, sendQueue, timer>>

(* abort(), or peerClosed(). *)
Abandon(s) ==
  /\ Idle /\ CanAbandon /\ ~dead[s]
  /\ dead' = [dead EXCEPT ![s] = TRUE]
  /\ pump' = Woken(s)
  /\ UNCHANGED <<unwritten, buffered, closed, schedulerVars, granting>>

(* Resolved awaits run before the event loop turns to a timer, and take no *)
(* time to speak of.                                                       *)
Settled == Idle /\ \A p \in Pumps : pump[p] # "ready"

Tick ==
  /\ Settled /\ SlowAcks
  /\ slot' = [i \in Slots |-> IF slot[i].use = "counted" /\ slot[i].age < ParkAge
                              THEN [slot[i] EXCEPT !.age = @ + 1] ELSE slot[i]]
  /\ timer' = IF timer > 0 THEN timer - 1 ELSE timer
  /\ UNCHANGED <<streamVars, pump, sendInFlight, sendQueue, sampled, granting>>

(* The callback of #reclaimTimer. *)
ReclaimTimer ==
  /\ Settled /\ timer = 0
  /\ timer' = NoTimer
  /\ ReclaimParked
  /\ granting' = TRUE
  /\ UNCHANGED <<streamVars, pump, sendQueue, sampled>>

-----------------------------------------------------------------------------
RunOn ==
  \/ Grant \/ GrantsDone
  \/ \E p \in Pumps :
       \/ PumpEnds(p) \/ PumpParks(p) \/ PumpUsesGrant(p) \/ PumpAsks(p)
       \/ AcquireNow(p) \/ AcquireLater(p)
       \/ GiveBack(p) \/ PumpReturns(p)

Call ==
  \E p \in Pumps : Close(p) \/ \E n \in 1..MaxBytes : Write(p, n)

Answer == \E i \in Slots, acked \in BOOLEAN : Settle(i, acked)

Next ==
  \/ RunOn
  \/ Call
  \/ \E p \in Pumps : Resume(p)
  \/ Answer
  \/ \E s \in Streams : Abandon(s)
  \/ Tick
  \/ ReclaimTimer

(* A stretch runs on; a resolved await resumes; clocks and timers run; and *)
(* a block is answered or meets its IQ deadline.                           *)
Fairness ==
  /\ WF_vars(RunOn)
  /\ \A p \in Pumps : WF_vars(Resume(p))
  /\ \A i \in Slots : WF_vars(\E acked \in BOOLEAN : Settle(i, acked))
  /\ WF_vars(Tick)
  /\ WF_vars(ReclaimTimer)

Spec     == Init /\ [][Next]_vars
FairSpec == Spec /\ Fairness

-----------------------------------------------------------------------------
TypeOK ==
  /\ unwritten \in [Streams -> Nat] /\ buffered \in [Streams -> Nat]
  /\ closed \in [Streams -> BOOLEAN] /\ dead \in [Streams -> BOOLEAN]
  /\ pump \in [Pumps -> {"idle", "parked", "ready", "pump", "acquire", "giveBack"}]
  /\ slot \in [Slots -> SlotState]
  /\ sendInFlight \in Int
  /\ sendQueue \in Seq(Streams)
  /\ sampled \in BOOLEAN
  /\ timer \in Int
  /\ granting \in BOOLEAN

(* #sendInFlight is exactly "counted blocks in flight plus unconsumed      *)
(* grants": no reclaim, settle, give-back or grant counts one twice or     *)
(* forgets one, in whatever order they come.                               *)
SlotsConserved ==
  sendInFlight = Cardinality(Used("granted") \cup Used("counted"))

(* The blocks the session counts, and the slots it has promised, never     *)
(* exceed the budget it is configured with.                                *)
BudgetRespected ==
  Cardinality(Used("granted") \cup Used("counted")) <= SendLimit

(* No stream has more blocks unanswered than its window, however many      *)
(* writers pump it and whatever was reclaimed.                             *)
WindowRespected == \A s \in Streams : InFlight(s) <= Window[s]

(* When no code runs, a free slot is never one a waiting stream is owed    *)
(* (the comment in #acquireSendSlot).                                      *)
NoSlotIdleWhileWaiting == ~granting => (~Waiting \/ sendInFlight >= SendLimit)

(* Nobody jumps the queue: a pump takes a slot for itself only when no     *)
(* stream waits.                                                           *)
NobodyJumpsTheQueue ==
  [][\A p \in Pumps : AcquireNow(p) => ~Waiting]_vars

(* Something is still going to happen while a pump waits: a pump to resume *)
(* or a block to be answered or a timer to fire.                           *)
NeverWedged ==
  (\E p \in Pumps : pump[p] = "parked") =>
    \/ ~Idle \/ Blocks # {} \/ timer # NoTimer
    \/ \E p \in Pumps : pump[p] = "ready"

(* A pump that asked for a slot finds the budget full with a slot granted  *)
(* to its own stream among the taken ones.                                 *)
ParksOnOwnGrant ==
  \E p \in Pumps : At(p, "acquire") /\ sendInFlight >= SendLimit /\ Granted(StreamOf(p)) # {}

(* Every write() and the pump of every close() returns or throws, as long  *)
(* as no pump parks on a grant of its own stream: slow answers, reclaimed  *)
(* blocks, refusals and aborts alone never leave a writer waiting.         *)
WritersReturn ==
  []~ParksOnOwnGrant => \A p \in Pumps : pump[p] # "idle" ~> pump[p] = "idle"
=============================================================================
