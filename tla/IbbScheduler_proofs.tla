------------------------ MODULE IbbScheduler_proofs ------------------------
(***************************************************************************)
(* Safety of the session scheduler for every set of streams, window,       *)
(* budget and pool of slots; and of the two deadlines of one of its        *)
(* streams (IbbPatience) for every window, buffer and pace of a reader.    *)
(***************************************************************************)
EXTENDS IbbScheduler, IbbPatience, FiniteSetTheorems, SequenceTheorems, TLAPS

Held       == Used("granted") \cup Used("counted")
Running(p) == pump[p] \in {"pump", "acquire", "giveBack"}

(* What the scheduler writes to a slot is a slot state. *)
LEMMA SlotStates ==
  /\ Free \in SlotState
  /\ \A s \in Streams, use \in {"granted", "counted"} :
       [use |-> use, stream |-> s, age |-> 0] \in SlotState
  /\ \A st \in SlotState : [st EXCEPT !.use = "parked"] \in SlotState
  /\ \A st \in SlotState : st.age < ParkAge => [st EXCEPT !.age = @ + 1] \in SlotState
<1>1. Free \in SlotState
  BY SchedulerAssumption DEF Free, SlotState
<1>2. \A s \in Streams, use \in {"granted", "counted"} :
        [use |-> use, stream |-> s, age |-> 0] \in SlotState
  BY SchedulerAssumption DEF SlotState
<1>3. \A st \in SlotState : [st EXCEPT !.use = "parked"] \in SlotState
  BY DEF SlotState
<1>4. \A st \in SlotState : st.age < ParkAge => [st EXCEPT !.age = @ + 1] \in SlotState
  BY SchedulerAssumption DEF SlotState
<1>. QED BY <1>1, <1>2, <1>3, <1>4

(* Every operation keeps the state well typed. *)
THEOREM TypeCorrect == Spec => []TypeOK
<1> USE SchedulerAssumption DEF SchedulerAssumption
<1>1. Init => TypeOK
  <2>1. Init => unwritten \in [Streams -> Nat] /\ buffered \in [Streams -> Nat]
    BY DEF Init
  <2>4. Init => closed \in [Streams -> BOOLEAN] /\ dead \in [Streams -> BOOLEAN]
    BY DEF Init
  <2>5. Init => sampled \in BOOLEAN /\ granting \in BOOLEAN
    BY DEF Init
  <2>2. Init => /\ pump \in [Pumps -> {"idle", "parked", "ready", "pump", "acquire", "giveBack"}]
                /\ sendInFlight \in Int /\ sendQueue \in Seq(Streams) /\ timer \in Int
    BY DEF Init, NoTimer
  <2>3. Init => slot \in [Slots -> SlotState]
    BY SlotStates DEF Init
  <2>. QED BY <2>1, <2>2, <2>3, <2>4, <2>5 DEF TypeOK
<1>2. TypeOK /\ [Next]_vars => TypeOK'
  <2> SUFFICES ASSUME TypeOK, [Next]_vars PROVE TypeOK'
    OBVIOUS
  <2> USE DEF TypeOK, streamVars, schedulerVars, Becomes, Pumps, StreamOf
  <2>1. CASE Grant
    <3>1. sendInFlight' \in Int /\ sendQueue' \in Seq(Streams) /\ pump' \in [Pumps -> {"idle", "parked", "ready", "pump", "acquire", "giveBack"}]
      BY <2>1 DEF Grant, Woken, Waiting
    <3>2. slot' \in [Slots -> SlotState]
      <4>1. Head(sendQueue) \in Streams
        BY <2>1 DEF Grant, Waiting
      <4>2. CASE Wants(Head(sendQueue))
        <5>1. PICK i \in Used("free") :
                slot' = [slot EXCEPT ![i] = [use |-> "granted", stream |-> Head(sendQueue), age |-> 0]]
          BY <2>1, <4>2 DEF Grant
        <5>. QED BY <4>1, <5>1, SlotStates DEF Used
      <4>3. CASE ~Wants(Head(sendQueue))
        BY <2>1, <4>3 DEF Grant
      <4>. QED BY <4>2, <4>3
    <3>. QED BY <2>1, <3>1, <3>2 DEF Grant
  <2>2. CASE GrantsDone
    <3>1. timer' \in Int
      BY <2>2 DEF GrantsDone, ArmReclaim, Used, SlotState
    <3>. QED BY <2>2, <3>1 DEF GrantsDone
  <2>3. ASSUME NEW p \in Pumps,
               PumpEnds(p) \/ PumpParks(p) \/ PumpReturns(p) \/ Resume(p)
        PROVE  TypeOK'
    BY <2>3 DEF PumpEnds, PumpParks, PumpReturns, Resume
  <2>4. ASSUME NEW p \in Pumps, PumpUsesGrant(p) PROVE TypeOK'
    <3>1. slot' \in [Slots -> SlotState] /\ buffered' \in [Streams -> Nat]
      BY <2>4 DEF PumpUsesGrant, Dispatch, Granted, Used, SlotState
    <3>. QED BY <2>4, <3>1 DEF PumpUsesGrant
  <2>5. ASSUME NEW p \in Pumps, PumpAsks(p) PROVE TypeOK'
    <3>1. slot' \in [Slots -> SlotState]
      BY <2>5, SlotStates DEF PumpAsks, ReclaimParked
    <3>2. sendInFlight' \in Int
      <4>1. Overdue \subseteq Slots /\ IsFiniteSet(Overdue)
        BY FS_Subset DEF Overdue, Used
      <4>. QED BY <2>5, <4>1, FS_CardinalityType, FS_EmptySet DEF PumpAsks, ReclaimParked
    <3>. QED BY <2>5, <3>1, <3>2 DEF PumpAsks
  <2>6. ASSUME NEW p \in Pumps, AcquireNow(p) PROVE TypeOK'
    <3>1. slot' \in [Slots -> SlotState] /\ buffered' \in [Streams -> Nat]
      BY <2>6 DEF AcquireNow, Dispatch, Used, SlotState
    <3>. QED BY <2>6, <3>1 DEF AcquireNow
  <2>7. ASSUME NEW p \in Pumps, AcquireLater(p) PROVE TypeOK'
    <3>1. timer' \in Int
      BY <2>7 DEF AcquireLater, ArmReclaim, Used, SlotState
    <3>2. sendQueue' \in Seq(Streams)
      BY <2>7 DEF AcquireLater
    <3>. QED BY <2>7, <3>1, <3>2 DEF AcquireLater
  <2>8. ASSUME NEW p \in Pumps, GiveBack(p) PROVE TypeOK'
    <3>1. slot' \in [Slots -> SlotState]
      BY <2>8, SlotStates DEF GiveBack, Granted, Used
    <3>. QED BY <2>8, <3>1 DEF GiveBack
  <2>9. ASSUME NEW p \in Pumps, Close(p) PROVE TypeOK'
    BY <2>9 DEF Close
  <2>10. ASSUME NEW p \in Pumps, NEW n \in 1..MaxBytes, Write(p, n) PROVE TypeOK'
    <3>1. unwritten' \in [Streams -> Nat] /\ buffered' \in [Streams -> Nat]
      BY <2>10 DEF Write
    <3>. QED BY <2>10, <3>1 DEF Write
  <2>11. ASSUME NEW i \in Slots, NEW acked \in BOOLEAN, Settle(i, acked) PROVE TypeOK'
    <3>1. slot' \in [Slots -> SlotState]
      BY <2>11, SlotStates DEF Settle
    <3>2. /\ pump' \in [Pumps -> {"idle", "parked", "ready", "pump", "acquire", "giveBack"}]
          /\ dead' \in [Streams -> BOOLEAN]
      BY <2>11 DEF Settle, Woken
    <3>3. sendInFlight' \in Int /\ sampled' \in BOOLEAN /\ granting' \in BOOLEAN
      <4>1. CASE slot[i].use = "counted"
        <5>1. sampled' = (sampled \/ acked)
          BY <2>11, <4>1 DEF Settle
        <5>2. sampled' \in BOOLEAN
          BY <5>1, Zenon
        <5>. QED BY <2>11, <4>1, <5>2 DEF Settle
      <4>2. CASE slot[i].use # "counted"
        BY <2>11, <4>2 DEF Settle
      <4>. QED BY <4>1, <4>2
    <3>. QED BY <2>11, <3>1, <3>2, <3>3 DEF Settle
  <2>12. ASSUME NEW s \in Streams, Abandon(s) PROVE TypeOK'
    BY <2>12 DEF Abandon, Woken
  <2>13. CASE Tick
    <3>1. slot' \in [Slots -> SlotState]
      BY <2>13, SlotStates DEF Tick
    <3>. QED BY <2>13, <3>1 DEF Tick
  <2>14. CASE ReclaimTimer
    <3>1. slot' \in [Slots -> SlotState]
      BY <2>14, SlotStates DEF ReclaimTimer, ReclaimParked
    <3>2. sendInFlight' \in Int
      <4>1. Overdue \subseteq Slots /\ IsFiniteSet(Overdue)
        BY FS_Subset DEF Overdue, Used
      <4>. QED BY <2>14, <4>1, FS_CardinalityType, FS_EmptySet DEF ReclaimTimer, ReclaimParked
    <3>. QED BY <2>14, <3>1, <3>2 DEF ReclaimTimer, NoTimer
  <2>15. CASE UNCHANGED vars
    BY <2>15 DEF vars
  <2>. QED
    BY <2>1, <2>2, <2>3, <2>4, <2>5, <2>6, <2>7, <2>8, <2>9, <2>10, <2>11, <2>12,
       <2>13, <2>14, <2>15 DEF Next, RunOn, Call, Answer
<1>. QED BY <1>1, <1>2, PTL DEF Spec

-----------------------------------------------------------------------------
(* The budget's account: what #sendInFlight counts. *)

LEMMA HeldIsFinite ==
  /\ Held \subseteq Slots /\ IsFiniteSet(Held) /\ Cardinality(Held) \in Nat
  /\ Overdue \subseteq Held /\ IsFiniteSet(Overdue) /\ Cardinality(Overdue) \in Nat
<1>1. Held \subseteq Slots /\ Overdue \subseteq Held
  BY DEF Held, Overdue, Used
<1>. QED BY <1>1, FS_Subset, FS_CardinalityType, SchedulerAssumption DEF SchedulerAssumption

(* How each operation changes the slots that count: one more, one fewer,   *)
(* the overdue ones gone, or no change.                                    *)
LEMMA HeldGrows ==
  ASSUME TypeOK, NEW i \in Used("free"), NEW st \in SlotState,
         st.use \in {"granted", "counted"}, slot' = [slot EXCEPT ![i] = st]
  PROVE  Cardinality(Held') = Cardinality(Held) + 1
<1>1. Held' = Held \cup {i} /\ i \notin Held
  BY DEF Held, Used, TypeOK
<1>. QED BY <1>1, HeldIsFinite, FS_AddElement

LEMMA HeldShrinks ==
  ASSUME TypeOK, NEW i \in Held, slot' = [slot EXCEPT ![i] = Free]
  PROVE  Cardinality(Held') = Cardinality(Held) - 1
<1>1. Held' = Held \ {i}
  BY DEF Held, Used, TypeOK, Free
<1>. QED BY <1>1, HeldIsFinite, FS_RemoveElement

LEMMA HeldReclaimed ==
  ASSUME TypeOK, ReclaimParked
  PROVE  \E n \in Nat : /\ Cardinality(Held') = Cardinality(Held) - n
                        /\ sendInFlight' = sendInFlight - n
<1> DEFINE parked == IF sampled THEN Overdue ELSE {}
<1>1. parked \subseteq Held /\ IsFiniteSet(parked)
  BY HeldIsFinite, FS_EmptySet
<1>2. slot' = [i \in Slots |-> IF i \in parked THEN [slot[i] EXCEPT !.use = "parked"]
                                              ELSE slot[i]]
  BY DEF ReclaimParked
<1>3. Held' = Held \ parked
  BY <1>1, <1>2 DEF Held, Used, TypeOK, SlotState
<1>4. Cardinality(Held \ parked) = Cardinality(Held) - Cardinality(parked)
  BY <1>1, HeldIsFinite, FS_Difference, FS_Subset, Held \cap parked = parked
<1>5. Cardinality(parked) \in Nat
  BY <1>1, FS_CardinalityType
<1>6. sendInFlight' = sendInFlight - Cardinality(parked)
  BY DEF ReclaimParked
<1>7. Cardinality(Held') = Cardinality(Held) - Cardinality(parked)
  BY <1>3, <1>4
<1> HIDE DEF parked
<1>. QED BY <1>5, <1>6, <1>7

(* The inductive invariant.  The account is exact; the budget is kept; and *)
(* outside #grantSendSlots a waiting stream means a full budget.           *)
BudgetInv == SlotsConserved /\ sendInFlight <= SendLimit /\ NoSlotIdleWhileWaiting

LEMMA BudgetInvInit == Init => BudgetInv
<1> SUFFICES ASSUME Init PROVE BudgetInv
  OBVIOUS
<1>1. Used("granted") \cup Used("counted") = {}
  BY DEF Init, Used, Free
<1>2. SlotsConserved
  BY <1>1, FS_EmptySet DEF Init, SlotsConserved
<1>3. sendInFlight <= SendLimit
  BY SchedulerAssumption DEF Init, SchedulerAssumption
<1>4. NoSlotIdleWhileWaiting
  BY DEF Init, NoSlotIdleWhileWaiting, Waiting
<1>. QED BY <1>2, <1>3, <1>4 DEF BudgetInv

LEMMA BudgetInvStep == TypeOK /\ BudgetInv /\ [Next]_vars => BudgetInv'
<1> SUFFICES ASSUME TypeOK, BudgetInv, [Next]_vars PROVE BudgetInv'
  OBVIOUS
<1> USE HeldIsFinite DEF BudgetInv, NoSlotIdleWhileWaiting, Waiting, streamVars, schedulerVars
<1>a. sendInFlight = Cardinality(Held)
  BY DEF SlotsConserved, Held
<1>b. SendLimit \in Nat \ {0} /\ sendInFlight \in Int
  BY SchedulerAssumption DEF SchedulerAssumption, TypeOK
<1>c. sendInFlight' = Cardinality(Held') => SlotsConserved'
  BY DEF SlotsConserved, Held
<1>d. UNCHANGED slot => Cardinality(Held') = Cardinality(Held)
  BY DEF Held, Used
<1>1. CASE Grant
  <2>1. CASE Wants(Head(sendQueue))
    <3>1. PICK i \in Used("free") :
            slot' = [slot EXCEPT ![i] = [use |-> "granted", stream |-> Head(sendQueue), age |-> 0]]
      BY <1>1, <2>1 DEF Grant
    <3>2. Head(sendQueue) \in Streams
      BY <1>1 DEF Grant, TypeOK
    <3>3. Cardinality(Held') = Cardinality(Held) + 1
      <4> DEFINE st == [use |-> "granted", stream |-> Head(sendQueue), age |-> 0]
      <4>1. st \in SlotState /\ st.use \in {"granted", "counted"}
        BY <3>2, SlotStates
      <4>. QED BY <3>1, <4>1, HeldGrows
    <3>. QED BY <1>1, <2>1, <3>3, <1>a, <1>b, <1>c DEF Grant
  <2>2. CASE ~Wants(Head(sendQueue))
    BY <1>1, <2>2, <1>a, <1>b, <1>c, <1>d DEF Grant
  <2>. QED BY <2>1, <2>2
<1>2. CASE GrantsDone
  BY <1>2, <1>a, <1>b, <1>c, <1>d DEF GrantsDone
<1>3. ASSUME NEW p \in Pumps,
             PumpEnds(p) \/ PumpParks(p) \/ PumpReturns(p) \/ Resume(p) \/ Close(p)
               \/ \E n \in 1..MaxBytes : Write(p, n)
      PROVE  BudgetInv'
  <2>1. UNCHANGED <<slot, sendInFlight, sendQueue, granting>>
    BY <1>3 DEF PumpEnds, PumpParks, PumpReturns, Resume, Close, Write
  <2>. QED BY <2>1, <1>a, <1>b, <1>c, <1>d
<1>4. ASSUME NEW p \in Pumps, PumpUsesGrant(p) PROVE BudgetInv'
  <2>1. PICK i \in Granted(StreamOf(p)) : Dispatch(i, StreamOf(p))
    BY <1>4 DEF PumpUsesGrant
  <2>2. Held' = Held
    BY <2>1 DEF Dispatch, Held, Used, Granted, TypeOK
  <2>3. UNCHANGED <<sendInFlight, sendQueue, granting>>
    BY <1>4 DEF PumpUsesGrant
  <2>. QED BY <2>2, <2>3, <1>a, <1>b, <1>c
<1>5. ASSUME NEW p \in Pumps, PumpAsks(p) PROVE BudgetInv'
  <2>1. ReclaimParked /\ granting' = TRUE
    BY <1>5 DEF PumpAsks
  <2>2. PICK n \in Nat : /\ Cardinality(Held') = Cardinality(Held) - n
                         /\ sendInFlight' = sendInFlight - n
    BY <2>1, HeldReclaimed
  <2>. QED BY <2>1, <2>2, <1>a, <1>b, <1>c
<1>6. ASSUME NEW p \in Pumps, AcquireNow(p) PROVE BudgetInv'
  <2>1. PICK i \in Used("free") : Dispatch(i, StreamOf(p))
    BY <1>6 DEF AcquireNow
  <2>2. Cardinality(Held') = Cardinality(Held) + 1
    <3> DEFINE st == [use |-> "counted", stream |-> StreamOf(p), age |-> 0]
    <3>1. st \in SlotState /\ st.use \in {"granted", "counted"}
      BY SlotStates DEF Pumps, StreamOf
    <3>2. slot' = [slot EXCEPT ![i] = st]
      BY <2>1 DEF Dispatch
    <3>. QED BY <3>1, <3>2, HeldGrows
  <2>. QED BY <1>6, <2>2, <1>a, <1>b, <1>c DEF AcquireNow, At
<1>7. ASSUME NEW p \in Pumps, AcquireLater(p) PROVE BudgetInv'
  BY <1>7, <1>a, <1>b, <1>c, <1>d DEF AcquireLater
<1>8. ASSUME NEW p \in Pumps, GiveBack(p) PROVE BudgetInv'
  <2>1. PICK i \in Granted(StreamOf(p)) : slot' = [slot EXCEPT ![i] = Free]
    BY <1>8 DEF GiveBack
  <2>2. Cardinality(Held') = Cardinality(Held) - 1
    BY <2>1, HeldShrinks DEF Granted, Held
  <2>. QED BY <1>8, <2>2, <1>a, <1>b, <1>c DEF GiveBack
<1>9. ASSUME NEW i \in Slots, NEW acked \in BOOLEAN, Settle(i, acked) PROVE BudgetInv'
  <2>1. slot' = [slot EXCEPT ![i] = Free] /\ i \in Blocks
    BY <1>9 DEF Settle
  <2>2. CASE slot[i].use = "counted"
    <3>1. Cardinality(Held') = Cardinality(Held) - 1
      BY <2>1, <2>2, HeldShrinks DEF Held, Used
    <3>. QED BY <1>9, <2>2, <3>1, <1>a, <1>b, <1>c DEF Settle
  <2>3. CASE slot[i].use # "counted"
    <3>1. Held' = Held
      BY <2>1, <2>3 DEF Held, Used, Blocks, TypeOK, Free
    <3>. QED BY <1>9, <2>3, <3>1, <1>a, <1>b, <1>c DEF Settle
  <2>. QED BY <2>2, <2>3
<1>10. ASSUME NEW s \in Streams, Abandon(s) PROVE BudgetInv'
  BY <1>10, <1>a, <1>b, <1>c, <1>d DEF Abandon
<1>11. CASE Tick
  <2>1. Held' = Held
    BY <1>11 DEF Tick, Held, Used, TypeOK, SlotState
  <2>. QED BY <1>11, <2>1, <1>a, <1>b, <1>c DEF Tick
<1>12. CASE ReclaimTimer
  <2>1. PICK n \in Nat : /\ Cardinality(Held') = Cardinality(Held) - n
                         /\ sendInFlight' = sendInFlight - n
    BY <1>12, HeldReclaimed DEF ReclaimTimer
  <2>. QED BY <1>12, <2>1, <1>a, <1>b, <1>c DEF ReclaimTimer
<1>13. CASE UNCHANGED vars
  BY <1>13, <1>a, <1>b, <1>c, <1>d DEF vars
<1>. QED
  BY <1>1, <1>2, <1>3, <1>4, <1>5, <1>6, <1>7, <1>8, <1>9, <1>10, <1>11, <1>12, <1>13
  DEF Next, RunOn, Call, Answer

LEMMA BudgetInvariant == Spec => []BudgetInv
<1>. QED BY TypeCorrect, BudgetInvInit, BudgetInvStep, PTL DEF Spec

(* #sendInFlight counts each counted block and each unconsumed grant once, *)
(* and nothing else: settle, giveBack, #reclaimParked and #grantSendSlots  *)
(* never lose or double a slot.                                            *)
THEOREM SlotsAreConserved == Spec => []SlotsConserved
<1>1. BudgetInv => SlotsConserved
  BY DEF BudgetInv
<1>. QED BY <1>1, BudgetInvariant, PTL

(* The session never has more counted blocks and promises than its budget. *)
THEOREM BudgetIsRespected == Spec => []BudgetRespected
<1>1. BudgetInv => BudgetRespected
  BY DEF BudgetInv, BudgetRespected, SlotsConserved
<1>. QED BY <1>1, BudgetInvariant, PTL

(* After every grant loop the budget is full or nobody waits, so a slot    *)
(* #acquireSendSlot finds free is never one a waiting stream was owed.     *)
THEOREM NoSlotIdles == Spec => []NoSlotIdleWhileWaiting
<1>1. BudgetInv => NoSlotIdleWhileWaiting
  BY DEF BudgetInv
<1>. QED BY <1>1, BudgetInvariant, PTL

(* A stream that asks never takes a slot past one that waits. *)
THEOREM NobodyJumps == Spec => NobodyJumpsTheQueue
<1>1. TypeOK /\ BudgetInv /\ [Next]_vars => [\A p \in Pumps : AcquireNow(p) => ~Waiting]_vars
  <2> SUFFICES ASSUME TypeOK, BudgetInv, NEW p \in Pumps, AcquireNow(p) PROVE ~Waiting
    OBVIOUS
  <2>1. ~granting /\ sendInFlight < SendLimit
    BY DEF AcquireNow, At
  <2>2. ~(sendInFlight >= SendLimit)
    BY <2>1, SchedulerAssumption DEF TypeOK, SchedulerAssumption
  <2>. QED BY <2>1, <2>2 DEF BudgetInv, NoSlotIdleWhileWaiting
<1>. QED BY <1>1, TypeCorrect, BudgetInvariant, PTL DEF Spec, NobodyJumpsTheQueue

-----------------------------------------------------------------------------
(* A stream's own window.  Between the test of the window in the pump and  *)
(* the dispatch lies a whole #grantSendSlots; what makes the test still    *)
(* good is that only one stretch of code runs.                             *)

OneRunning    == \A p, q \in Pumps : Running(p) /\ Running(q) => p = q
AskedWithRoom == \A p \in Pumps :
                   pump[p] = "acquire" => InFlight(StreamOf(p)) < Window[StreamOf(p)]
WindowInv     == OneRunning /\ AskedWithRoom /\ WindowRespected

LEMMA InFlightIsNat ==
  ASSUME NEW s
  PROVE  IsFiniteSet({i \in Blocks : slot[i].stream = s}) /\ InFlight(s) \in Nat
<1>1. {i \in Blocks : slot[i].stream = s} \subseteq Slots
  BY DEF Blocks, Used
<1>. QED BY <1>1, FS_Subset, FS_CardinalityType, SchedulerAssumption DEF SchedulerAssumption, InFlight

(* A dispatch adds a block to its own stream alone. *)
LEMMA DispatchAdds ==
  ASSUME TypeOK, NEW i \in Slots \ Blocks, NEW s \in Streams, Dispatch(i, s)
  PROVE  \A r \in Streams : InFlight(r)' = IF r = s THEN InFlight(r) + 1 ELSE InFlight(r)
<1> SUFFICES ASSUME NEW r \in Streams
             PROVE  InFlight(r)' = IF r = s THEN InFlight(r) + 1 ELSE InFlight(r)
  OBVIOUS
<1> DEFINE B == {j \in Blocks : slot[j].stream = r}
<1>1. i \notin B
  OBVIOUS
<1>2. B' = IF r = s THEN B \cup {i} ELSE B
  BY DEF Dispatch, Blocks, Used, TypeOK
<1>3. IsFiniteSet(B)
  BY InFlightIsNat
<1>. QED BY <1>1, <1>2, <1>3, FS_AddElement DEF InFlight

(* A settled block leaves its stream. *)
LEMMA SettleRemoves ==
  ASSUME TypeOK, NEW i \in Slots, slot' = [slot EXCEPT ![i] = Free]
  PROVE  \A r \in Streams : InFlight(r)' <= InFlight(r) /\ InFlight(r)' \in Nat
<1> SUFFICES ASSUME NEW r \in Streams
             PROVE  InFlight(r)' <= InFlight(r) /\ InFlight(r)' \in Nat
  OBVIOUS
<1> DEFINE B == {j \in Blocks : slot[j].stream = r}
<1>1. B' \subseteq B
  BY DEF Blocks, Used, TypeOK, Free
<1>2. IsFiniteSet(B)
  BY InFlightIsNat
<1>. QED BY <1>1, <1>2, FS_Subset, FS_CardinalityType DEF InFlight

(* Nothing else moves a block in or out of flight. *)
LEMMA OthersKeep ==
  ASSUME TypeOK,
         \/ UNCHANGED slot
         \/ ReclaimParked
         \/ Tick
         \/ \E i \in Slots : \E st \in SlotState :
              /\ {slot[i].use, st.use} \subseteq {"free", "granted"}
              /\ slot' = [slot EXCEPT ![i] = st]
  PROVE  \A r \in Streams : InFlight(r)' = InFlight(r)
<1> SUFFICES ASSUME NEW r \in Streams PROVE InFlight(r)' = InFlight(r)
  OBVIOUS
<1>1. CASE UNCHANGED slot
  BY <1>1 DEF InFlight, Blocks, Used
<1>2. CASE ReclaimParked
  <2>1. \A j \in Slots : /\ slot'[j].stream = slot[j].stream
                         /\ j \in Blocks' <=> j \in Blocks
    BY <1>2 DEF ReclaimParked, Overdue, Blocks, Used, TypeOK, SlotState
  <2>2. {j \in Blocks : slot[j].stream = r}' = {j \in Blocks : slot[j].stream = r}
    BY <2>1 DEF Blocks, Used
  <2>. QED BY <2>2 DEF InFlight
<1>3. CASE Tick
  <2>1. \A j \in Slots : /\ slot'[j].stream = slot[j].stream
                         /\ slot'[j].use = slot[j].use
    BY <1>3 DEF Tick, TypeOK, SlotState
  <2>2. {j \in Blocks : slot[j].stream = r}' = {j \in Blocks : slot[j].stream = r}
    BY <2>1 DEF Blocks, Used
  <2>. QED BY <2>2 DEF InFlight
<1>4. ASSUME NEW i \in Slots, NEW st \in SlotState,
             {slot[i].use, st.use} \subseteq {"free", "granted"},
             slot' = [slot EXCEPT ![i] = st]
      PROVE  InFlight(r)' = InFlight(r)
  <2>1. {j \in Blocks : slot[j].stream = r}' = {j \in Blocks : slot[j].stream = r}
    BY <1>4 DEF Blocks, Used, TypeOK
  <2>. QED BY <2>1 DEF InFlight
<1>. QED BY <1>1, <1>2, <1>3, <1>4

LEMMA WindowInvStep == TypeOK /\ WindowInv /\ [Next]_vars => WindowInv'
<1> SUFFICES ASSUME TypeOK, WindowInv, [Next]_vars PROVE WindowInv'
  OBVIOUS
<1> USE DEF Becomes, streamVars, schedulerVars
<1>w. \A s \in Streams : Window[s] \in Nat /\ Window[s] > 0
  BY SchedulerAssumption DEF SchedulerAssumption
<1>p. \A p \in Pumps : StreamOf(p) \in Streams
  BY DEF Pumps, StreamOf
<1>n. \A s \in Streams : InFlight(s) \in Nat
  BY InFlightIsNat
(* A step that sends no block, and lets no pump into #acquireSendSlot. *)
<1>q. ASSUME \A s \in Streams : InFlight(s)' <= InFlight(s) /\ InFlight(s)' \in Nat,
             \A p \in Pumps : pump'[p] = "acquire" => pump[p] = "acquire",
             OneRunning'
      PROVE  WindowInv'
  <2>1. WindowRespected'
    BY <1>q, <1>w, <1>n DEF WindowInv, WindowRespected
  <2>2. AskedWithRoom'
    BY <1>q, <1>w, <1>n, <1>p DEF WindowInv, AskedWithRoom
  <2>. QED BY <1>q, <2>1, <2>2 DEF WindowInv
<1>k. ASSUME \A s \in Streams : InFlight(s)' = InFlight(s),
             \A p \in Pumps : pump'[p] = "acquire" => pump[p] = "acquire",
             \A p \in Pumps : Running(p)' => Running(p)
      PROVE  WindowInv'
  <2>1. \A s \in Streams : InFlight(s)' <= InFlight(s) /\ InFlight(s)' \in Nat
    BY <1>k, <1>n
  <2>2. OneRunning'
    BY <1>k DEF WindowInv, OneRunning
  <2>. QED BY <1>k, <1>q, <2>1, <2>2
<1>u. ASSUME \A s \in Streams : InFlight(s)' = InFlight(s), UNCHANGED pump PROVE WindowInv'
  <2>1. \A p \in Pumps : Running(p)' => Running(p)
    BY <1>u DEF Running
  <2>. QED BY <1>u, <1>k, <2>1
<1>1. CASE Grant
  <2>1. \A r \in Streams : InFlight(r)' = InFlight(r)
    <3>1. CASE Wants(Head(sendQueue))
      <4>1. PICK i \in Used("free") :
              slot' = [slot EXCEPT ![i] = [use |-> "granted", stream |-> Head(sendQueue), age |-> 0]]
        BY <1>1, <3>1 DEF Grant
      <4>2. Head(sendQueue) \in Streams
        BY <1>1 DEF Grant, TypeOK, Waiting
      <4> DEFINE st == [use |-> "granted", stream |-> Head(sendQueue), age |-> 0]
      <4>3. st \in SlotState /\ st.use = "granted" /\ i \in Slots /\ slot[i].use = "free"
        BY <4>2, SlotStates DEF Used
      <4>. QED BY <4>1, <4>3, OthersKeep
    <3>2. CASE ~Wants(Head(sendQueue))
      BY <1>1, <3>2, OthersKeep DEF Grant
    <3>. QED BY <3>1, <3>2
  <2>2. \A p \in Pumps : Running(p)' <=> Running(p)
    BY <1>1 DEF Grant, Woken, Running, TypeOK
  <2>3. \A p \in Pumps : pump'[p] = "acquire" => pump[p] = "acquire"
    BY <1>1 DEF Grant, Woken, TypeOK
  <2>. QED BY <2>1, <2>2, <2>3, <1>k
<1>2. CASE GrantsDone
  <2>1. UNCHANGED <<slot, pump>>
    BY <1>2 DEF GrantsDone
  <2>2. \A s \in Streams : InFlight(s)' = InFlight(s)
    BY <2>1, OthersKeep
  <2>. QED BY <2>1, <2>2, <1>u
<1>3. ASSUME NEW p \in Pumps,
             PumpEnds(p) \/ PumpParks(p) \/ PumpReturns(p) \/ AcquireLater(p)
      PROVE  WindowInv'
  <2>1. /\ UNCHANGED slot
        /\ \A q \in Pumps : Running(q)' => Running(q)
        /\ \A q \in Pumps : pump'[q] = "acquire" => pump[q] = "acquire"
    BY <1>3 DEF PumpEnds, PumpParks, PumpReturns, AcquireLater, Running, At, PumpGoesOn, TypeOK
  <2>2. \A s \in Streams : InFlight(s)' = InFlight(s)
    BY <2>1, OthersKeep
  <2>. QED BY <2>1, <2>2, <1>k
<1>4. ASSUME NEW p \in Pumps,
             Resume(p) \/ Close(p) \/ \E n \in 1..MaxBytes : Write(p, n)
      PROVE  WindowInv'
  <2>1. /\ UNCHANGED slot
        /\ pump' = [pump EXCEPT ![p] = "pump"]
        /\ Idle
    BY <1>4 DEF Resume, Close, Write
  <2>2. \A q \in Pumps : Running(q)' => q = p
    BY <2>1 DEF Running, Idle, TypeOK
  <2>3. \A q \in Pumps : pump'[q] = "acquire" => pump[q] = "acquire"
    BY <2>1 DEF TypeOK
  <2>4. \A s \in Streams : InFlight(s)' <= InFlight(s) /\ InFlight(s)' \in Nat
    BY <2>1, <1>n, OthersKeep
  <2>5. OneRunning'
    BY <2>2 DEF OneRunning
  <2>. QED BY <2>3, <2>4, <2>5, <1>q
<1>5. ASSUME NEW p \in Pumps, PumpUsesGrant(p) PROVE WindowInv'
  <2>1. PICK i \in Granted(StreamOf(p)) : Dispatch(i, StreamOf(p))
    BY <1>5 DEF PumpUsesGrant
  <2>2. i \in Slots \ Blocks
    BY DEF Granted, Blocks, Used
  <2>3. \A r \in Streams : InFlight(r)' = IF r = StreamOf(p) THEN InFlight(r) + 1 ELSE InFlight(r)
    BY <2>1, <2>2, <1>p, DispatchAdds
  <2>4. InFlight(StreamOf(p)) < Window[StreamOf(p)]
    BY <1>5, <1>p, <1>w, <1>n DEF PumpUsesGrant, WindowFull
  <2>5. UNCHANGED pump /\ Running(p)
    BY <1>5 DEF PumpUsesGrant, PumpGoesOn, At, Running
  <2>6. OneRunning'
    BY <2>5 DEF WindowInv, OneRunning, Running
  <2>7. AskedWithRoom'
    BY <2>5, <1>5 DEF WindowInv, OneRunning, Running, AskedWithRoom, PumpUsesGrant, PumpGoesOn, At
  <2>8. WindowRespected'
    BY <2>3, <2>4, <1>p, <1>w, <1>n DEF WindowInv, WindowRespected
  <2>. QED BY <2>6, <2>7, <2>8 DEF WindowInv
<1>6. ASSUME NEW p \in Pumps, PumpAsks(p) PROVE WindowInv'
  <2>1. ReclaimParked /\ pump' = [pump EXCEPT ![p] = "acquire"] /\ pump[p] = "pump"
    BY <1>6 DEF PumpAsks, PumpGoesOn, At
  <2>2. \A r \in Streams : InFlight(r)' = InFlight(r)
    BY <2>1, OthersKeep
  <2>3. InFlight(StreamOf(p)) < Window[StreamOf(p)]
    BY <1>6, <1>p, <1>w, <1>n DEF PumpAsks, WindowFull
  <2>4. \A q \in Pumps : Running(q)' <=> Running(q)
    BY <2>1 DEF Running, TypeOK
  <2>5. AskedWithRoom'
    BY <2>1, <2>2, <2>3, <1>p DEF WindowInv, AskedWithRoom, TypeOK
  <2>6. WindowRespected'
    BY <2>2 DEF WindowInv, WindowRespected
  <2>. QED BY <2>4, <2>5, <2>6 DEF WindowInv, OneRunning
<1>7. ASSUME NEW p \in Pumps, AcquireNow(p) PROVE WindowInv'
  <2>1. PICK i \in Used("free") : Dispatch(i, StreamOf(p))
    BY <1>7 DEF AcquireNow
  <2>2. i \in Slots \ Blocks
    BY DEF Blocks, Used
  <2>3. \A r \in Streams : InFlight(r)' = IF r = StreamOf(p) THEN InFlight(r) + 1 ELSE InFlight(r)
    BY <2>1, <2>2, <1>p, DispatchAdds
  <2>4. pump' = [pump EXCEPT ![p] = "pump"] /\ pump[p] = "acquire"
    BY <1>7 DEF AcquireNow, At
  <2>5. InFlight(StreamOf(p)) < Window[StreamOf(p)]
    BY <2>4 DEF WindowInv, AskedWithRoom
  <2>6. \A q \in Pumps : Running(q)' <=> Running(q)
    BY <2>4 DEF Running, TypeOK
  <2>7. \A q \in Pumps : pump'[q] # "acquire"
    BY <2>4 DEF WindowInv, OneRunning, Running, TypeOK
  <2>8. WindowRespected'
    BY <2>3, <2>5, <1>p, <1>w, <1>n DEF WindowInv, WindowRespected
  <2>. QED BY <2>6, <2>7, <2>8 DEF WindowInv, OneRunning, AskedWithRoom
<1>8. ASSUME NEW p \in Pumps, GiveBack(p) PROVE WindowInv'
  <2>1. PICK i \in Granted(StreamOf(p)) : slot' = [slot EXCEPT ![i] = Free]
    BY <1>8 DEF GiveBack
  <2>2. i \in Slots /\ slot[i].use = "granted" /\ Free \in SlotState /\ Free.use = "free"
    BY SlotStates DEF Granted, Used, Free
  <2>3. \A r \in Streams : InFlight(r)' = InFlight(r)
    BY <2>1, <2>2, OthersKeep
  <2>4. UNCHANGED pump
    BY <1>8 DEF GiveBack
  <2>. QED BY <2>3, <2>4, <1>u
<1>9. ASSUME NEW i \in Slots, NEW acked \in BOOLEAN, Settle(i, acked) PROVE WindowInv'
  <2>1. \A r \in Streams : InFlight(r)' <= InFlight(r) /\ InFlight(r)' \in Nat
    BY <1>9, SettleRemoves DEF Settle
  <2>2. \A q \in Pumps : ~Running(q)'
    BY <1>9 DEF Settle, Idle, Woken, Running, TypeOK
  <2>3. \A q \in Pumps : pump'[q] = "acquire" => pump[q] = "acquire"
    BY <2>2 DEF Running
  <2>4. OneRunning'
    BY <2>2 DEF OneRunning
  <2>. QED BY <2>1, <2>3, <2>4, <1>q
<1>10. ASSUME NEW s \in Streams, Abandon(s) PROVE WindowInv'
  <2>1. UNCHANGED slot
    BY <1>10 DEF Abandon
  <2>2. \A q \in Pumps : ~Running(q)'
    BY <1>10 DEF Abandon, Idle, Woken, Running, TypeOK
  <2>3. \A q \in Pumps : pump'[q] = "acquire" => pump[q] = "acquire"
    BY <2>2 DEF Running
  <2>4. \A r \in Streams : InFlight(r)' = InFlight(r)
    BY <2>1, OthersKeep
  <2>. QED BY <2>2, <2>3, <2>4, <1>k
<1>11. CASE Tick
  <2>1. UNCHANGED pump
    BY <1>11 DEF Tick
  <2>2. \A s \in Streams : InFlight(s)' = InFlight(s)
    BY <1>11, OthersKeep
  <2>. QED BY <2>1, <2>2, <1>u
<1>12. CASE ReclaimTimer
  <2>1. UNCHANGED pump /\ ReclaimParked
    BY <1>12 DEF ReclaimTimer
  <2>2. \A s \in Streams : InFlight(s)' = InFlight(s)
    BY <2>1, OthersKeep
  <2>. QED BY <2>1, <2>2, <1>u
<1>13. CASE UNCHANGED vars
  <2>1. UNCHANGED <<pump, slot>>
    BY <1>13 DEF vars
  <2>2. \A s \in Streams : InFlight(s)' = InFlight(s)
    BY <2>1, OthersKeep
  <2>. QED BY <2>1, <2>2, <1>u
<1>. QED
  BY <1>1, <1>2, <1>3, <1>4, <1>5, <1>6, <1>7, <1>8, <1>9, <1>10, <1>11, <1>12, <1>13
  DEF Next, RunOn, Call, Answer

(* No stream has more unanswered blocks than its window, with any number   *)
(* of concurrent write() calls pumping it.                                 *)
THEOREM WindowIsRespected == Spec => []WindowRespected
<1>1. Init => WindowInv
  <2> SUFFICES ASSUME Init PROVE WindowInv
    OBVIOUS
  <2>1. \A s \in Streams : InFlight(s) = 0
    <3>1. Blocks = {}
      BY DEF Init, Blocks, Used, Free
    <3>. QED BY <3>1, FS_EmptySet DEF InFlight
  <2>2. WindowRespected
    BY <2>1, SchedulerAssumption DEF WindowRespected, SchedulerAssumption
  <2>3. OneRunning /\ AskedWithRoom
    BY DEF Init, OneRunning, AskedWithRoom, Running
  <2>. QED BY <2>2, <2>3 DEF WindowInv
<1>2. WindowInv => WindowRespected
  BY DEF WindowInv
<1>. QED BY <1>1, <1>2, WindowInvStep, TypeCorrect, PTL DEF Spec

-----------------------------------------------------------------------------
(* The two deadlines of a stream with a slow but steady consumer. *)

(* The time the reads that the full window has waited for may have taken.  *)
Waited == MaxGap * (HighWater - 1 + SenderWindow - unread) + gap

(* What is unacknowledged is what does not fit the queue; time only passes *)
(* while the window is full, and not more of it than the reads since then  *)
(* may take.                                                               *)
PatienceTypes ==
  unread \in Nat /\ withheld \in Seq(Nat) /\ idle \in Nat /\ stalled \in BOOLEAN /\ gap \in 0..MaxGap

AsFarAsItFits ==
  /\ Len(withheld) <= SenderWindow /\ unread <= HighWater - 1 + Len(withheld)
  /\ Len(withheld) > 0 => unread >= HighWater /\ stalled = TRUE
  /\ Len(withheld) = 0 => unread < HighWater /\ stalled = FALSE

TimeIsReading ==
  /\ Len(withheld) < SenderWindow => gap = 0 /\ idle = 0 /\ \A i \in 1..Len(withheld) : withheld[i] = 0
  /\ Len(withheld) = SenderWindow => idle <= Waited /\ \A i \in 1..Len(withheld) : withheld[i] <= Waited

PatienceInv == PatienceTypes /\ AsFarAsItFits /\ TimeIsReading

LEMMA TimesGrows ==
  ASSUME NEW m \in Nat, NEW a \in Nat, NEW b \in Nat, a <= b
  PROVE  m * a \in Nat /\ m * b \in Nat /\ m * a <= m * b
<1>1. m * (b - a) \in Nat /\ m * a \in Nat /\ m * b \in Nat
  <2>1. b - a \in Nat
    OBVIOUS
  <2>2. \A x \in Nat : m * x \in Nat
    OBVIOUS
  <2>. QED BY <2>1, <2>2
<1>2. m * b = m * a + m * (b - a)
  OBVIOUS
<1>. QED BY <1>1, <1>2

LEMMA OneReadMore ==
  ASSUME NEW m \in Nat, NEW k \in Nat
  PROVE  m * (k + 1) = m * k + m
OBVIOUS

LEMMA PatienceKept ==
  ASSUME PatienceInv, [PatienceNext]_clocks
  PROVE  PatienceInv'
<1> USE PatienceAssumption DEF PatienceAssumption
<1>0. SenderWindow \in Nat \ {0} /\ HighWater \in Nat \ {0} /\ MaxGap \in Nat \ {0}
  OBVIOUS
<1>1. CASE Block
  <2> DEFINE full == unread + 1 >= HighWater
  <2>1. /\ Len(withheld) < SenderWindow /\ unread' = unread + 1 /\ gap' = gap /\ idle' = 0
        /\ stalled' = full /\ withheld' = IF full THEN Append(withheld, 0) ELSE withheld
    BY <1>1 DEF Block, Arm
  <2>2. /\ withheld \in Seq(Nat) /\ Len(withheld) \in Nat /\ unread \in Nat /\ gap = 0
        /\ \A i \in 1..Len(withheld) : withheld[i] = 0
        /\ unread <= HighWater - 1 + Len(withheld) /\ (unread >= HighWater <=> Len(withheld) > 0)
    BY <2>1, LenProperties DEF PatienceInv, PatienceTypes, AsFarAsItFits, TimeIsReading
  <2>3. CASE full
    <3>1. withheld' \in Seq(Nat) /\ Len(withheld') = Len(withheld) + 1 /\ \A i \in 1..Len(withheld') : withheld'[i] = 0
      BY <2>1, <2>2, <2>3
    <3>2. Len(withheld') = SenderWindow => HighWater - 1 + SenderWindow - unread' \in Nat
      BY <1>0, <2>1, <2>2, <3>1
    <3>3. Len(withheld') = SenderWindow => Waited' \in Nat
      BY <1>0, <2>1, <2>2, <3>2, TimesGrows DEF Waited
    <3>4. IF Len(withheld') < SenderWindow THEN gap' = 0 /\ idle' = 0 /\ \A i \in 1..Len(withheld') : withheld'[i] = 0
          ELSE idle' <= Waited' /\ \A i \in 1..Len(withheld') : withheld'[i] <= Waited'
      BY <1>0, <2>1, <2>2, <3>1, <3>3
    <3>5. PatienceTypes'
      BY <1>0, <2>1, <2>2, <2>3, <3>1, <3>3, <3>4 DEF PatienceTypes
    <3>6. AsFarAsItFits'
      <4>1. stalled' = TRUE
        BY <2>1, <2>3
      <4>2. /\ Len(withheld') \in Nat /\ Len(withheld') <= SenderWindow /\ Len(withheld') > 0
            /\ unread' <= HighWater - 1 + Len(withheld') /\ unread' >= HighWater
        BY <1>0, <2>1, <2>2, <2>3, <3>1
      <4>. QED BY <4>1, <4>2 DEF AsFarAsItFits
    <3>7. TimeIsReading'
      BY <1>0, <2>1, <2>2, <2>3, <3>1, <3>3, <3>4 DEF TimeIsReading
    <3>. QED BY <3>5, <3>6, <3>7 DEF PatienceInv
  <2>4. CASE ~full
    BY <1>0, <2>1, <2>2, <2>4 DEF PatienceInv, PatienceTypes, AsFarAsItFits, TimeIsReading
  <2>. QED BY <2>3, <2>4
<1>2. CASE Read
  <2>1. unread \in Nat \ {0} /\ unread' = unread - 1 /\ gap' = 0
    BY <1>2 DEF Read, PatienceInv, PatienceTypes, AsFarAsItFits, TimeIsReading
  <2>2. CASE unread - 1 < HighWater
    <3>1. withheld' = <<>> /\ idle' = 0 /\ stalled' = FALSE
      BY <1>2, <2>1, <2>2 DEF Read, Arm
    <3>2. withheld' \in Seq(Nat) /\ Len(withheld') = 0
      BY <3>1
    <3>3. \A i \in 1..Len(withheld') : withheld'[i] = 0
      BY <3>2
    <3>5. PatienceTypes'
      <4>1. stalled' \in BOOLEAN
        BY <3>1
      <4>2. unread' \in Nat /\ idle' \in Nat /\ gap' \in 0..MaxGap
        BY <1>0, <2>1, <3>1
      <4>. QED BY <3>2, <4>1, <4>2 DEF PatienceTypes
    <3>6. AsFarAsItFits'
      BY <1>0, <2>1, <2>2, <3>1, <3>2, <3>3, PatienceInv DEF AsFarAsItFits
    <3>7. TimeIsReading'
      BY <1>0, <2>1, <3>1, <3>2, <3>3 DEF TimeIsReading
    <3>. QED BY <3>5, <3>6, <3>7 DEF PatienceInv
  <2>3. CASE ~(unread - 1 < HighWater)
    <3>1. UNCHANGED <<withheld, idle, stalled>>
      BY <1>2, <2>1, <2>3 DEF Read
    <3>2. withheld \in Seq(Nat) /\ Len(withheld) \in Nat /\ idle \in Nat /\ gap \in 0..MaxGap
      BY LenProperties DEF PatienceInv, PatienceTypes, AsFarAsItFits, TimeIsReading
    <3>3. CASE Len(withheld) < SenderWindow
      BY <1>0, <2>1, <2>3, <3>1, <3>2, <3>3 DEF PatienceInv, PatienceTypes, AsFarAsItFits, TimeIsReading
    <3>4. CASE Len(withheld) = SenderWindow
      <4> DEFINE k == HighWater - 1 + SenderWindow - unread
      <4>1. k \in Nat /\ HighWater - 1 + SenderWindow - unread' = k + 1
        BY <1>0, <2>1, <3>2, <3>4 DEF PatienceInv, PatienceTypes, AsFarAsItFits, TimeIsReading
      <4>2. Waited = MaxGap * k + gap /\ Waited' = MaxGap * (k + 1) + 0
        BY <2>1, <4>1 DEF Waited
      <4>3. MaxGap * k \in Nat /\ MaxGap * (k + 1) = MaxGap * k + MaxGap
        BY <1>0, <4>1, TimesGrows, OneReadMore
      <4> HIDE DEF k
      <4>4. Waited \in Nat /\ Waited' \in Nat /\ Waited <= Waited'
        BY <1>0, <3>2, <4>2, <4>3
      <4>5. idle' <= Waited' /\ \A i \in 1..Len(withheld) : withheld[i] <= Waited'
        BY <1>0, <3>1, <3>2, <3>4, <4>4 DEF PatienceInv, PatienceTypes, AsFarAsItFits, TimeIsReading
      <4>6. PatienceTypes'
        BY <1>0, <2>1, <2>3, <3>1, <3>2, <3>4, <4>5 DEF PatienceInv, PatienceTypes
      <4>7. AsFarAsItFits'
        BY <1>0, <2>1, <2>3, <3>1, <3>2, <3>4, <4>5 DEF PatienceInv, AsFarAsItFits
      <4>8. TimeIsReading'
        BY <1>0, <2>1, <2>3, <3>1, <3>2, <3>4, <4>5 DEF TimeIsReading
      <4>. QED BY <4>6, <4>7, <4>8 DEF PatienceInv
    <3>5. Len(withheld) < SenderWindow \/ Len(withheld) = SenderWindow
      BY <1>0, <3>2 DEF PatienceInv, AsFarAsItFits
    <3>. QED BY <3>3, <3>4, <3>5
  <2>. QED BY <2>2, <2>3
<1>3. CASE TimePasses
  <2>1. /\ Len(withheld) = SenderWindow /\ gap < MaxGap /\ gap' = gap + 1 /\ idle' = idle + 1
        /\ withheld' = [i \in DOMAIN withheld |-> withheld[i] + 1] /\ unread' = unread /\ stalled' = stalled
    BY <1>3 DEF TimePasses
  <2>2. /\ withheld \in Seq(Nat) /\ idle \in Nat /\ gap \in Nat /\ unread \in Nat /\ DOMAIN withheld = 1..SenderWindow
        /\ \A i \in 1..SenderWindow : withheld[i] \in Nat
    BY <1>0, <2>1 DEF PatienceInv, PatienceTypes, AsFarAsItFits, TimeIsReading
  <2>3. withheld' \in Seq(Nat) /\ Len(withheld') = SenderWindow /\ \A i \in 1..SenderWindow : withheld'[i] = withheld[i] + 1
    BY <1>0, <2>1, <2>2
  <2>4. Waited \in Int /\ Waited' = Waited + 1
    <3> DEFINE p == MaxGap * (HighWater - 1 + SenderWindow - unread)
    <3>1. p \in Int
      BY <1>0, <2>2
    <3>2. Waited = p + gap /\ Waited' = p + (gap + 1)
      BY <2>1 DEF Waited
    <3> HIDE DEF p
    <3>. QED BY <2>2, <3>1, <3>2
  <2>5. idle' <= Waited' /\ \A i \in 1..Len(withheld') : withheld'[i] <= Waited'
    BY <1>0, <2>1, <2>2, <2>3, <2>4 DEF PatienceInv, PatienceTypes, AsFarAsItFits, TimeIsReading
  <2>. QED BY <1>0, <2>1, <2>2, <2>3, <2>5 DEF PatienceInv, PatienceTypes, AsFarAsItFits, TimeIsReading
<1>4. CASE UNCHANGED clocks
  <2>1. unread' = unread /\ withheld' = withheld /\ idle' = idle /\ stalled' = stalled /\ gap' = gap
    BY <1>4 DEF clocks
  <2>2. Waited' = Waited
    BY <2>1 DEF Waited
  <2>. QED BY <2>1, <2>2 DEF PatienceInv, PatienceTypes, AsFarAsItFits, TimeIsReading
<1>. QED BY <1>1, <1>2, <1>3, <1>4 DEF PatienceNext

(* A consumer that never goes a deadline without reading loses neither end *)
(* of its stream, for every window, buffer and deadline, as long as the    *)
(* sender's window is at most one block larger than the receiver thinks:   *)
(* the sender's deadline is scaled by the one, the receiver's watchdog by  *)
(* the other.                                                              *)
THEOREM SteadyConsumerIsKept ==
  ASSUME MaxGap < IdleTimeout, SenderWindow <= ReceiveWindow + 1
  PROVE  PatienceSpec => []SlowConsumerIsKept
<1> USE PatienceAssumption DEF PatienceAssumption
<1>1. PatienceInit => PatienceInv
  <2> SUFFICES ASSUME PatienceInit PROVE PatienceInv
    OBVIOUS
  <2>1. unread = 0 /\ withheld = <<>> /\ idle = 0 /\ stalled = FALSE /\ gap = 0
    BY DEF PatienceInit
  <2>2. withheld \in Seq(Nat) /\ Len(withheld) = 0
    BY <2>1
  <2>3. \A i \in 1..Len(withheld) : withheld[i] = 0
    BY <2>2
  <2>4. SenderWindow \in Nat \ {0} /\ HighWater \in Nat \ {0} /\ MaxGap \in Nat \ {0}
    OBVIOUS
  <2>5. PatienceTypes
    <3>1. stalled \in BOOLEAN
      BY <2>1
    <3>2. unread \in Nat /\ idle \in Nat /\ gap \in 0..MaxGap
      BY <2>1, <2>4
    <3>. QED BY <2>2, <3>1, <3>2 DEF PatienceTypes
  <2>6. AsFarAsItFits
    BY <2>1, <2>2, <2>4 DEF AsFarAsItFits
  <2>7. TimeIsReading
    BY <2>1, <2>2, <2>3, <2>4 DEF TimeIsReading
  <2>. QED BY <2>5, <2>6, <2>7 DEF PatienceInv
<1>2. PatienceInv /\ [PatienceNext]_clocks => PatienceInv'
  BY PatienceKept
<1>3. ASSUME PatienceInv PROVE SlowConsumerIsKept
  <2>1. withheld \in Seq(Nat) /\ DOMAIN withheld = 1..Len(withheld) /\ Len(withheld) \in Nat /\ Len(withheld) <= SenderWindow
    BY <1>3, LenProperties DEF PatienceInv, PatienceTypes, AsFarAsItFits, TimeIsReading
  <2>2. IdleTimeout * SenderWindow \in Nat \ {0} /\ IdleTimeout * (ReceiveWindow + 1) \in Nat \ {0}
        /\ IdleTimeout * SenderWindow <= IdleTimeout * (ReceiveWindow + 1)
    <3>1. IdleTimeout * 1 = IdleTimeout
      OBVIOUS
    <3>. QED BY <3>1, TimesGrows
  <2>3. CASE Len(withheld) < SenderWindow
    <3>1. idle = 0 /\ \A i \in DOMAIN withheld : withheld[i] = 0
      BY <1>3, <2>1, <2>3 DEF PatienceInv, TimeIsReading
    <3>. QED BY <2>2, <3>1 DEF SlowConsumerIsKept, blockTimeout, stalledTimeout
  <2>4. CASE Len(withheld) = SenderWindow
    <3>1. unread >= HighWater /\ stalled = TRUE /\ unread <= HighWater - 1 + SenderWindow /\ unread \in Nat
          /\ gap \in 0..MaxGap /\ idle \in Nat
      BY <1>3, <2>1, <2>4 DEF PatienceInv, PatienceTypes, AsFarAsItFits, TimeIsReading
    <3> DEFINE k == HighWater - 1 + SenderWindow - unread
    <3>2. k \in Nat /\ k + 1 <= SenderWindow
      BY <3>1
    <3>3. Waited = MaxGap * k + gap /\ MaxGap * k \in Nat /\ MaxGap * (k + 1) = MaxGap * k + MaxGap
      BY <3>2, TimesGrows, OneReadMore DEF Waited
    <3>4. MaxGap * (k + 1) <= MaxGap * SenderWindow /\ MaxGap * SenderWindow \in Nat
      BY <3>2, TimesGrows
    <3>5. MaxGap * SenderWindow < IdleTimeout * SenderWindow
      <4>1. IdleTimeout - MaxGap \in Nat \ {0} /\ IdleTimeout = MaxGap + (IdleTimeout - MaxGap)
        OBVIOUS
      <4>2. IdleTimeout * SenderWindow = MaxGap * SenderWindow + (IdleTimeout - MaxGap) * SenderWindow
        OBVIOUS
      <4>3. (IdleTimeout - MaxGap) * SenderWindow \in Nat \ {0}
        <5>1. \A x, y \in Nat \ {0} : x * y \in Nat \ {0}
          OBVIOUS
        <5>. QED BY <4>1, <5>1
      <4>. QED BY <3>4, <4>2, <4>3
    <3> HIDE DEF k
    <3>6. Waited \in Nat /\ Waited < IdleTimeout * SenderWindow
      BY <2>2, <3>1, <3>3, <3>4, <3>5
    <3>7. idle <= Waited /\ \A i \in 1..Len(withheld) : withheld[i] <= Waited /\ withheld[i] \in Nat
      BY <1>3, <2>1, <2>4 DEF PatienceInv, PatienceTypes, AsFarAsItFits, TimeIsReading
    <3>8. /\ \A i \in DOMAIN withheld : withheld[i] < IdleTimeout * SenderWindow
          /\ idle < IdleTimeout * (ReceiveWindow + 1)
      BY <2>1, <2>2, <3>1, <3>6, <3>7
    <3>. QED BY <3>1, <3>8 DEF SlowConsumerIsKept, blockTimeout, stalledTimeout
  <2>5. SenderWindow \in Nat
    OBVIOUS
  <2>6. Len(withheld) < SenderWindow \/ Len(withheld) = SenderWindow
    <3>1. Len(withheld) \in Nat /\ Len(withheld) <= SenderWindow
      BY <2>1
    <3>. QED BY <2>5, <3>1
  <2>. QED BY <2>3, <2>4, <2>6
<1>. QED BY <1>1, <1>2, <1>3, PTL DEF PatienceSpec
=============================================================================
