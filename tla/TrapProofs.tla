----------------------------- MODULE TrapProofs ------------------------------
(***************************************************************************)
(* The traps of the CPU, and the pause that ends and begins in one.        *)
(*                                                                         *)
(* The trap table is a queue as long as only the first trap of a batch     *)
(* triggers others, for any number of traps and slots.  The invariant says *)
(* which slots hold the traps that wait and that a batch is never larger   *)
(* than the count it is subtracted from: the batch ends by comparing the   *)
(* count with its size, so the slots cannot be shown alone.  That only a   *)
(* load hides a trap needs no more of the table than that its counters are *)
(* numbers, and holds whichever trap of a batch triggers others.           *)
(*                                                                         *)
(* A paused emulation stands still, for any number of callbacks and traps. *)
(* PauseHolds says nothing of the vice thread's way there: what holds the  *)
(* CPU wanders from the queue of callbacks to the queue that is executed,  *)
(* to a trap, and back to a queue when the monitor is left.  Held names    *)
(* what does at each place of that thread, and is inductive.               *)
(***************************************************************************)
EXTENDS TrapQueue, Pause, SequenceTheorems, TLAPS

(* The pause. *)

LEMMA AppendLoop ==
  ASSUME NEW q \in Seq(Callbacks), NEW c \in Callbacks
  PROVE  /\ Append(q, c) \in Seq(Callbacks)
         /\ Contains(q, "pause_loop") => Contains(Append(q, c), "pause_loop")
         /\ c = "pause_loop" => Contains(Append(q, c), "pause_loop")
  BY DEF Contains, Callbacks

LEMMA TailLoop ==
  ASSUME NEW q \in Seq(Callbacks), q # <<>>
  PROVE  /\ Tail(q) \in Seq(Callbacks)
         /\ Contains(q, "pause_loop") /\ Head(q) # "pause_loop" => Contains(Tail(q), "pause_loop")
  BY DEF Contains, Callbacks

(* What keeps a paused emulation from going on, wherever the vice thread is. *)
Held ==
  is_paused => \/ Contains(callback_queue, "pause_loop")
               \/ place \in {"cpu", "window", "callbacks"} /\ traps > 0
               \/ place = "callbacks" /\ Contains(executing_queue, "pause_loop")
               \/ place = "sleep"
               \/ place = "traps" /\ batch > 0

PauseInv == PauseTypeOK /\ Held

LEMMA InitPauseInv == PauseInit => PauseInv
  <1>1. PauseInit => PauseTypeOK
    <2> SUFFICES ASSUME PauseInit PROVE PauseTypeOK OBVIOUS
    <2>1. callback_queue \in Seq(Callbacks) /\ executing_queue \in Seq(Callbacks)
      BY DEF PauseInit
    <2> QED
      BY <2>1 DEF PauseInit, PauseTypeOK
  <1>2. PauseInit => Held
    BY DEF PauseInit, Held
  <1> QED
    BY <1>1, <1>2 DEF PauseInv

LEMMA TrapsCount ==
  ASSUME traps \in Nat, traps' = traps + 1 \/ traps' = traps
  PROVE  traps' \in Nat
  OBVIOUS

(* What the end of the monitor sets is of its type, whoever leaves it. *)
LEMMA LeaveType ==
  ASSUME batch \in Nat, LeaveMonitor
  PROVE  /\ place' \in {"traps", "cpu"} /\ batch' \in Nat
         /\ place' = "cpu" => batch' = 0
  BY DEF LeaveMonitor

LEMMA PauseRoundType ==
  ASSUME batch \in Nat, traps \in Nat, NEW paused \in BOOLEAN, PauseRound(paused)
  PROVE  /\ enter_monitor_while_paused' \in BOOLEAN
         /\ place' \in {"traps", "cpu", "monitor pause"} /\ batch' \in Nat /\ traps' \in Nat
         /\ place' = "cpu" => batch' = 0
  <1>1. enter_monitor_while_paused' \in BOOLEAN
    BY Zenon DEF PauseRound
  <1> QED
    <2>1. CASE place' = "monitor pause" /\ UNCHANGED <<traps, batch>>
      BY <1>1, <2>1
    <2>2. CASE LeaveMonitor /\ (traps' = traps + 1 \/ traps' = traps)
      <3>1. traps' \in Nat
        BY <2>2, TrapsCount
      <3>2. place' \in {"traps", "cpu"} /\ batch' \in Nat /\ (place' = "cpu" => batch' = 0)
        BY <2>2, LeaveType
      <3> QED
        BY <1>1, <3>1, <3>2
    <2> QED
      BY <2>1, <2>2, Zenon DEF PauseRound, monitor_startup_trap

LEMMA NextType == PauseTypeOK /\ [PauseNext]_pause_vars => PauseTypeOK'
  <1> SUFFICES ASSUME PauseTypeOK, [PauseNext]_pause_vars PROVE PauseTypeOK' OBVIOUS
  <1> USE DEF PauseTypeOK, Callbacks, switches, queues, requests
  <1>1. CASE PauseOn
    BY <1>1, AppendLoop DEF PauseOn, UiActs, ui_pause_enable, vsync_on_vsync_do
  <1>2. CASE PauseOff
    BY <1>2 DEF PauseOff, UiActs, ui_pause_disable
  <1>3. CASE vsyncarch_advance_frame
    BY <1>3 DEF vsyncarch_advance_frame, UiActs, ui_pause_disable
  <1>4. CASE monitor_open_action
    <2>1. enter_monitor_while_paused' \in BOOLEAN
      BY <1>4, Zenon DEF monitor_open_action
    <2>2. traps' = traps + 1 \/ traps' = traps
      BY <1>4, Zenon DEF monitor_open_action, monitor_startup_trap
    <2>3. UNCHANGED <<is_paused, pause_pending, should_pause_on_exit_mon, queues, place, batch, reset>>
      BY <1>4, Zenon DEF monitor_open_action
    <2>4. traps' \in Nat
      BY <2>2, TrapsCount, Zenon
    <2> QED
      BY <2>1, <2>3, <2>4
  <1>5. CASE reset_action
    BY <1>5 DEF reset_action, UiActs, ui_pause_disable
  <1>6. CASE QueueJob
    BY <1>6, AppendLoop DEF QueueJob, UiActs, vsync_on_vsync_do
  <1>7. CASE StartTraps
    BY <1>7 DEF StartTraps
  <1>8. CASE EndTraps
    BY <1>8 DEF EndTraps
  <1>9. CASE mainlock_yield
    BY <1>9 DEF mainlock_yield, Opcode
  <1>10. CASE EndOfWindow
    BY <1>10 DEF EndOfWindow
  <1>11. CASE vsyncarch_postsync
    BY <1>11, AppendLoop DEF vsyncarch_postsync, Opcode, ui_pause_enable, vsync_on_vsync_do
  <1>12. CASE vsync_reset_hook
    BY <1>12 DEF vsync_reset_hook
  <1>13. CASE FlipQueues
    BY <1>13 DEF FlipQueues
  <1>14. CASE NoMoreCallbacks
    BY <1>14 DEF NoMoreCallbacks
  <1>15. CASE RunJob
    BY <1>15, TailLoop DEF RunJob, Due
  <1>16. CASE pause_loop
    <2>1. enter_monitor_while_paused' \in BOOLEAN
      BY <1>16, Zenon DEF pause_loop
    <2>2. UNCHANGED <<is_paused, pause_pending, should_pause_on_exit_mon, callback_queue, batch, reset>>
      BY <1>16, Zenon DEF pause_loop
    <2>3. CASE place' = "sleep" /\ UNCHANGED <<executing_queue, traps>>
      BY <1>16, <2>1, <2>2, <2>3 DEF pause_loop, Due
    <2>4. CASE executing_queue' = Tail(executing_queue) /\ (traps' = traps + 1 \/ traps' = traps) /\ place' = place
      BY <1>16, <2>1, <2>2, <2>4, TailLoop DEF pause_loop, Due
    <2> QED
      BY <1>16, <2>3, <2>4, Zenon DEF pause_loop, monitor_startup_trap
  <1>17. CASE WakeUp
    BY <1>17, AppendLoop, TailLoop DEF WakeUp, vsync_on_vsync_do
  <1>18. CASE MonitorTrap
    BY <1>18 DEF MonitorTrap, monitor_startup
  <1>19. CASE Breakpoint
    BY <1>19 DEF Breakpoint, Opcode, monitor_startup
  <1>20. CASE mon_jump
    BY <1>20, LeaveType DEF mon_jump
  <1>21. CASE mon_exit
    <2>1. CASE should_pause_on_exit_mon \/ is_paused
      <3>1. ui_pause_enable /\ PauseRound(TRUE)
        BY <1>21, <2>1 DEF mon_exit
      <3>2. callback_queue' \in Seq(Callbacks) /\ is_paused' \in BOOLEAN
        BY <3>1, AppendLoop DEF ui_pause_enable, vsync_on_vsync_do
      <3> QED
        BY <1>21, <3>1, <3>2, PauseRoundType DEF mon_exit
    <2>2. CASE ~(should_pause_on_exit_mon \/ is_paused)
      BY <1>21, <2>2, LeaveType DEF mon_exit
    <2> QED
      BY <2>1, <2>2
  <1>22. CASE MonitorWakeUp
    BY <1>22, PauseRoundType DEF MonitorWakeUp
  <1>23. CASE UNCHANGED pause_vars
    BY <1>23 DEF pause_vars
  <1> QED
    BY <1>1, <1>2, <1>3, <1>4, <1>5, <1>6, <1>7, <1>8, <1>9, <1>10, <1>11, <1>12, <1>13, <1>14, <1>15, <1>16, <1>17, <1>18, <1>19, <1>20, <1>21, <1>22, <1>23 DEF PauseNext

LEMMA NextHeld == PauseInv /\ [PauseNext]_pause_vars => Held'
  <1> SUFFICES ASSUME PauseInv, [PauseNext]_pause_vars PROVE Held' OBVIOUS
  <1> USE DEF PauseInv, PauseTypeOK, Held, Callbacks, switches, queues, requests
  <1>1. CASE PauseOn
    BY <1>1, AppendLoop DEF PauseOn, UiActs, ui_pause_enable, vsync_on_vsync_do
  <1>2. CASE PauseOff
    BY <1>2 DEF PauseOff, UiActs, ui_pause_disable
  <1>3. CASE vsyncarch_advance_frame
    BY <1>3 DEF vsyncarch_advance_frame, UiActs, ui_pause_disable
  <1>4. CASE monitor_open_action
    BY <1>4 DEF monitor_open_action, UiActs, monitor_startup_trap
  <1>5. CASE reset_action
    BY <1>5 DEF reset_action, UiActs, ui_pause_disable
  <1>6. CASE QueueJob
    BY <1>6, AppendLoop DEF QueueJob, UiActs, vsync_on_vsync_do
  <1>7. CASE StartTraps
    BY <1>7 DEF StartTraps
  <1>8. CASE EndTraps
    BY <1>8 DEF EndTraps
  <1>9. CASE mainlock_yield
    BY <1>9 DEF mainlock_yield, Opcode
  <1>10. CASE EndOfWindow
    BY <1>10 DEF EndOfWindow
  <1>11. CASE vsyncarch_postsync
    BY <1>11, AppendLoop DEF vsyncarch_postsync, Opcode, ui_pause_enable, vsync_on_vsync_do
  <1>12. CASE vsync_reset_hook
    BY <1>12 DEF vsync_reset_hook
  <1>13. CASE FlipQueues
    BY <1>13 DEF FlipQueues
  <1>14. CASE NoMoreCallbacks
    BY <1>14 DEF NoMoreCallbacks
  <1>15. CASE RunJob
    BY <1>15, TailLoop DEF RunJob, Due
  <1>16. CASE pause_loop
    BY <1>16, TailLoop DEF pause_loop, Due, monitor_startup_trap
  <1>17. CASE WakeUp
    BY <1>17, AppendLoop, TailLoop DEF WakeUp, vsync_on_vsync_do
  <1>18. CASE MonitorTrap
    BY <1>18 DEF MonitorTrap, monitor_startup
  <1>19. CASE Breakpoint
    BY <1>19 DEF Breakpoint, Opcode, monitor_startup
  <1>20. CASE mon_jump
    BY <1>20 DEF mon_jump, LeaveMonitor
  <1>21. CASE mon_exit
    BY <1>21, AppendLoop DEF mon_exit, PauseRound, LeaveMonitor, ui_pause_enable, vsync_on_vsync_do, monitor_startup_trap
  <1>22. CASE MonitorWakeUp
    BY <1>22 DEF MonitorWakeUp, PauseRound, LeaveMonitor, monitor_startup_trap
  <1>23. CASE UNCHANGED pause_vars
    BY <1>23 DEF pause_vars
  <1> QED
    BY <1>1, <1>2, <1>3, <1>4, <1>5, <1>6, <1>7, <1>8, <1>9, <1>10, <1>11, <1>12, <1>13, <1>14, <1>15, <1>16, <1>17, <1>18, <1>19, <1>20, <1>21, <1>22, <1>23 DEF PauseNext

LEMMA HeldAlways == PauseSpec => []PauseInv
  <1>1. PauseInv /\ [PauseNext]_pause_vars => PauseInv'
    BY NextType, NextHeld DEF PauseInv
  <1> QED
    BY InitPauseInv, <1>1, PTL DEF PauseSpec

(* The variables of the pause stay in their ranges; no UI handler runs while *)
(* a callback other than pause_loop() is under way (vsync.c, ui.c).          *)
THEOREM PauseTypeCorrect == PauseSpec => []PauseTypeOK
  BY HeldAlways, PTL DEF PauseInv

(* While is_paused is set the CPU runs only to the end of its frame, where a *)
(* pause_loop() waits, or into the monitor.                                  *)
THEOREM PauseIsKept == PauseSpec => []PauseHolds
  <1>1. PauseInv => PauseHolds
    BY DEF PauseInv, Held, PauseHolds
  <1> QED
    BY HeldAlways, <1>1, PTL

(* execute_vsync_callbacks() returns to the CPU only when the emulation is   *)
(* not paused any more or is to enter the monitor.                           *)
THEOREM CallbacksEndInPause == PauseSpec => FrameEndsInPause
  <1>1. PauseInv /\ [PauseNext]_pause_vars => [place = "callbacks" /\ place' = "cpu" => ~is_paused \/ traps > 0]_pause_vars
    <2> SUFFICES ASSUME PauseInv, PauseNext, place = "callbacks", place' = "cpu" PROVE ~is_paused \/ traps > 0
      BY DEF pause_vars
    <2>1. NoMoreCallbacks
      BY DEF PauseNext, PauseOn, PauseOff, vsyncarch_advance_frame, monitor_open_action, reset_action, QueueJob,
             StartTraps, EndTraps, mainlock_yield, EndOfWindow, vsyncarch_postsync, vsync_reset_hook, FlipQueues,
             RunJob, pause_loop, Due, WakeUp, MonitorTrap, Breakpoint, mon_jump, mon_exit, MonitorWakeUp, UiActs, Opcode
    <2> QED
      BY <2>1 DEF PauseInv, PauseTypeOK, Held, NoMoreCallbacks, Contains
  <1> QED
    BY HeldAlways, <1>1, PTL DEF PauseSpec, FrameEndsInPause

-----------------------------------------------------------------------------
(* The trap table. *)

USE TrapAssumption, MaxSlotsAssumption, LateTriggersAssumption

(* Where the traps are that have not returned: the one that runs is still in *)
(* its slot.                                                                 *)
Live == {s \in Slots : traps_next <= s /\ s < traps_next + traps_count - i}

Batch ==
  /\ pc \in {"cpu", "sampled", "reset"} => i = 0
  /\ pc \in {"batch", "trap"} => traps_this_cycle <= traps_count
  /\ pc = "trap" => i < traps_this_cycle /\ running = trap_func[traps_next]
  /\ pc # "trap" => running = None

Stored ==
  /\ traps_next + traps_count - i <= MaxSlots
  /\ i <= traps_count
  /\ \A s \in Live : trap_func[s] \in Traps

TableInv == TypeOK /\ Batch /\ Stored

-----------------------------------------------------------------------------
(* Mentions no flag, so it holds of every snapshot. *)

LEMMA TableInvInit == Init => TableInv
  BY DEF Init, TableInv, TypeOK, Batch, Stored, Live, Empty, Slots

LEMMA TableInvStep ==
  ASSUME ~LateTriggers, TableInv, [Next]_vars
  PROVE  TableInv'
<1> USE DEF TableInv, TypeOK, Batch, Stored, Live, Slots
<1>1. ASSUME NEW t \in Traps, Trigger(t)
      PROVE  TableInv'
  <2>1. i = 0
    BY <1>1 DEF Trigger, CodeRuns
  <2>2. trap_func' \in [Slots -> Traps \cup {Garbage}]
    BY <1>1 DEF Trigger
  <2>3. /\ trap_func'[traps_next + traps_count] = t
        /\ \A s \in Slots : s # traps_next + traps_count => trap_func'[s] = trap_func[s]
    BY <1>1 DEF Trigger
  <2>4. TypeOK'
    BY <1>1, <2>1, <2>2 DEF Trigger, loop
  <2>5. Batch'
    BY <1>1, <2>1, <2>3 DEF Trigger, loop
  <2>6. Stored'
    BY <1>1, <2>1, <2>3 DEF Trigger, loop
  <2> QED
    BY <2>4, <2>5, <2>6
<1>2. CASE TriggerReset
  BY <1>2 DEF TriggerReset, table, loop
<1>3. CASE Load
  BY <1>3 DEF Load, table, loop
<1>4. CASE Sample
  BY <1>4 DEF Sample, table
<1>5. CASE StartBatch
  BY <1>5 DEF StartBatch, table
<1>6. CASE CallTrap
  BY <1>6 DEF CallTrap, table
<1>7. CASE TrapReturns
  BY <1>7 DEF TrapReturns
<1>8. CASE EndBatch
  <2>1. i = traps_this_cycle /\ i' = 0 /\ pc' = "reset"
    BY <1>8 DEF EndBatch
  <2>2. UNCHANGED <<trap_func, traps_this_cycle, running>>
    BY <1>8 DEF EndBatch
  <2>3. CASE traps_count > traps_this_cycle
    <3>1. traps_count' = traps_count - i /\ UNCHANGED <<traps_next, global_pending_int>>
      BY <1>8, <2>1, <2>3 DEF EndBatch
    <3>2. ik' \subseteq {"TRAP", "RESET"}
      BY <1>8 DEF EndBatch
    <3> QED
      BY <1>8, <2>1, <2>2, <3>1, <3>2 DEF EndBatch
  <2>4. CASE ~(traps_count > traps_this_cycle)
    <3>1. traps_count' = 0 /\ traps_next' = 0
      BY <1>8, <2>4 DEF EndBatch
    <3>2. ik' \subseteq {"TRAP", "RESET"} /\ global_pending_int' \subseteq {"TRAP", "RESET"}
      BY <1>8 DEF EndBatch
    <3> QED
      BY <1>8, <2>1, <2>2, <3>1, <3>2 DEF EndBatch
  <2> QED
    BY <2>3, <2>4
<1>9. CASE Reset
  BY <1>9 DEF Reset, Empty
<1>10. CASE Resume
  BY <1>10 DEF Resume, table
<1>11. CASE UNCHANGED vars
  BY <1>11 DEF vars, table, loop
<1> QED
  BY <1>1, <1>2, <1>3, <1>4, <1>5, <1>6, <1>7, <1>8, <1>9, <1>10, <1>11 DEF Next

LEMMA TableInvHolds ==
  ASSUME ~LateTriggers
  PROVE  Spec => []TableInv
<1>1. TableInv /\ [Next]_vars => TableInv'
  BY TableInvStep
<1> QED
  BY <1>1, TableInvInit, PTL DEF Spec

(* Every variable stays in its range. *)
THEOREM TypeCorrect ==
  ASSUME ~LateTriggers
  PROVE  Spec => []TypeOK
<1>1. TableInv => TypeOK
  BY DEF TableInv
<1> QED
  BY <1>1, TableInvHolds, PTL

(* interrupt_do_trap() calls only slots that a function was stored in.       *)
THEOREM CalledTrapsAreReal ==
  ASSUME ~LateTriggers
  PROVE  Spec => []CallsAreReal
<1>1. TableInv => CallsAreReal
  BY DEF TableInv, TypeOK, Batch, Stored, Live, Slots, CallsAreReal
<1> QED
  BY <1>1, TableInvHolds, PTL

-----------------------------------------------------------------------------
(* The flag does not depend on the order of the table: this holds whatever   *)
(* the traps of a batch trigger.                                             *)

Counters == traps_count \in Nat /\ traps_this_cycle \in Nat

LEMMA CountersStep ==
  ASSUME Counters, [Next]_vars
  PROVE  Counters'
<1> USE DEF Counters, table, loop
<1>1. CASE \E t \in Traps : Trigger(t)
  BY <1>1 DEF Trigger
<1>2. CASE TriggerReset \/ Load
  BY <1>2 DEF TriggerReset, Load
<1>3. CASE Sample \/ StartBatch \/ CallTrap \/ TrapReturns \/ Resume \/ UNCHANGED vars
  BY <1>3 DEF Sample, StartBatch, CallTrap, TrapReturns, Resume, vars
<1>4. CASE EndBatch
  BY <1>4 DEF EndBatch
<1>5. CASE Reset
  BY <1>5 DEF Reset
<1> QED
  BY <1>1, <1>2, <1>3, <1>4, <1>5 DEF Next

LEMMA AnnouncedStep ==
  ASSUME Counters, Announced, [Next]_vars, ~LoadOutside
  PROVE  Announced'
<1> USE DEF Announced, table, loop
<1>1. CASE \E t \in Traps : Trigger(t)
  BY <1>1 DEF Trigger
<1>2. CASE TriggerReset
  BY <1>2 DEF TriggerReset
<1>3. CASE Load
  BY <1>3 DEF LoadOutside
<1>4. CASE Sample \/ StartBatch \/ CallTrap \/ TrapReturns \/ Resume \/ UNCHANGED vars
  BY <1>4 DEF Sample, StartBatch, CallTrap, TrapReturns, Resume, vars
<1>5. CASE EndBatch
  <2>1. CASE traps_count > traps_this_cycle
    <3>1. traps_count > 0
      BY <2>1 DEF Counters
    <3> QED
      BY <1>5, <2>1, <3>1 DEF EndBatch
  <2>2. CASE ~(traps_count > traps_this_cycle)
    <3>1. traps_count' = 0
      BY <1>5, <2>2 DEF EndBatch
    <3> QED
      BY <3>1
  <2> QED
    BY <2>1, <2>2
<1>6. CASE Reset
  BY <1>6 DEF Reset
<1> QED
  BY <1>1, <1>2, <1>3, <1>4, <1>5, <1>6 DEF Next

(* interrupt_do_trap() leaves the flag of traps that its traps scheduled,    *)
(* and a load that fails leaves a reset, however far it got.                 *)
THEOREM NoTrapIsHidden == Spec => HiddenOnlyByLoads
<1>1. Init => Counters
  BY DEF Init, Counters
<1>2. Counters /\ [Next]_vars => Counters'
  BY CountersStep
<1>3. Counters /\ [Next]_vars => [Announced => Announced' \/ LoadOutside]_vars
  BY AnnouncedStep
<1> QED
  BY <1>1, <1>2, <1>3, PTL DEF Spec, HiddenOnlyByLoads
-----------------------------------------------------------------------------
(* The table as a queue. *)

First == IF pc = "trap" THEN traps_next + 1 ELSE traps_next
Count == IF pc = "trap" THEN traps_count - i - 1 ELSE traps_count - i

LEMMA WaitingIsASeq ==
  ASSUME TableInv
  PROVE  /\ Count \in Nat /\ First \in Nat
         /\ Waiting = [k \in 1 .. Count |-> trap_func[First + k - 1]]
         /\ Waiting \in Seq(Traps)
         /\ Len(Waiting) = Count
         /\ \A k \in 1 .. Count : First + k - 1 \in Live /\ Waiting[k] = trap_func[First + k - 1]
<1>1. Count \in Nat /\ First \in Nat
  BY DEF TableInv, TypeOK, Batch, Stored, Count, First
<1>2. Waiting = [k \in 1 .. Count |-> trap_func[First + k - 1]]
  BY DEF Waiting, First, Count
<1>3. \A k \in 1 .. Count : First + k - 1 \in Live /\ trap_func[First + k - 1] \in Traps
  BY <1>1 DEF First, Count, TableInv, TypeOK, Batch, Stored, Live, Slots
<1>4. Waiting \in [1 .. Count -> Traps]
  BY <1>2, <1>3
<1>5. Waiting \in Seq(Traps) /\ Len(Waiting) = Count
  BY <1>1, <1>4, SMT
<1> QED
  BY <1>1, <1>2, <1>3, <1>5

(* Two states with the same traps in the same places wait alike. *)
LEMMA SameWaiting ==
  ASSUME TableInv, TableInv', Count' = Count,
         \A k \in 1 .. Count : trap_func'[First' + k - 1] = trap_func[First + k - 1]
  PROVE  Waiting' = Waiting
<1>1. Waiting = [k \in 1 .. Count |-> trap_func[First + k - 1]]
  BY WaitingIsASeq
<1>2. Waiting' = [k \in 1 .. Count' |-> trap_func'[First' + k - 1]]
  BY DEF Waiting, First, Count
<1> QED
  BY <1>1, <1>2

LEMMA TriggerAppends ==
  ASSUME ~LateTriggers, TableInv, TableInv', NEW t \in Traps, Trigger(t)
  PROVE  Waiting' = Append(Waiting, t)
<1>1. /\ Count' = Count + 1 /\ First' = First
      /\ First + Count = traps_next + traps_count
  BY DEF Trigger, CodeRuns, loop, First, Count, TableInv, TypeOK, Batch
<1>2. /\ trap_func'[First + Count] = t
      /\ \A s \in Slots : s # First + Count => trap_func'[s] = trap_func[s]
  BY <1>1 DEF Trigger, TableInv, TypeOK
<1>3. Waiting \in Seq(Traps) /\ Len(Waiting) = Count /\ Count \in Nat /\ First \in Nat
  BY WaitingIsASeq
<1>4. Waiting' \in Seq(Traps) /\ Len(Waiting') = Count'
      /\ \A k \in 1 .. Count' : Waiting'[k] = trap_func'[First' + k - 1]
  <2>1. Waiting' = [k \in 1 .. Count' |-> trap_func'[First' + k - 1]]
    BY DEF Waiting, First, Count
  <2>2. \A k \in 1 .. Count' : trap_func'[First' + k - 1] \in Traps
    <3> SUFFICES ASSUME NEW k \in 1 .. Count'
                 PROVE  trap_func'[First' + k - 1] \in Traps
      OBVIOUS
    <3>1. CASE k = Count + 1
      BY <1>1, <1>2, <1>3, <3>1
    <3>2. CASE k # Count + 1
      <4>1. k \in 1 .. Count
        BY <1>1, <1>3, <3>2
      <4>2. First + k - 1 \in Live /\ First + k - 1 # First + Count
        BY <4>1, <1>3, WaitingIsASeq
      <4> QED
        BY <4>2, <1>1, <1>2 DEF Live, TableInv, Stored
    <3> QED
      BY <3>1, <3>2
  <2>3. Waiting' \in [1 .. Count' -> Traps] /\ Count' \in Nat
    <3>1. [k \in 1 .. Count' |-> trap_func'[First' + k - 1]] \in [1 .. Count' -> Traps]
      BY <2>2
    <3>2. Count' \in Nat
      BY <1>1, <1>3
    <3> QED
      BY <2>1, <3>1, <3>2
  <2> QED
    BY <2>1, <2>3, SMT
<1>5. \A k \in 1 .. Count : Waiting'[k] = Waiting[k]
  <2> SUFFICES ASSUME NEW k \in 1 .. Count
               PROVE  Waiting'[k] = Waiting[k]
    OBVIOUS
  <2>1. First + k - 1 \in Live /\ Waiting[k] = trap_func[First + k - 1]
    BY WaitingIsASeq
  <2>2. First + k - 1 \in Slots /\ First + k - 1 # First + Count /\ k \in 1 .. Count'
    BY <2>1, <1>1, <1>3 DEF Live
  <2> QED
    BY <2>1, <2>2, <1>1, <1>2, <1>4
<1>6. Waiting'[Count + 1] = t
  BY <1>1, <1>2, <1>3, <1>4
<1>7. /\ Append(Waiting, t) \in Seq(Traps) /\ Len(Append(Waiting, t)) = Count + 1
      /\ \A k \in 1 .. Count : Append(Waiting, t)[k] = Waiting[k]
      /\ Append(Waiting, t)[Count + 1] = t
  BY <1>3, AppendProperties
<1>8. \A k \in 1 .. Count + 1 : Waiting'[k] = Append(Waiting, t)[k]
  BY <1>3, <1>5, <1>6, <1>7
<1> QED
  BY <1>1, <1>4, <1>7, <1>8, SeqEqual

LEMMA CallTakesFirst ==
  ASSUME TableInv, TableInv', CallTrap
  PROVE  Fifo!Run
<1>1. /\ pc = "batch" /\ pc' = "trap" /\ UNCHANGED table /\ i' = i
      /\ running = None /\ running' = trap_func[traps_next]
  BY DEF CallTrap, TableInv, Batch
<1>2. Count' = Count - 1 /\ First = traps_next /\ First' = First + 1 /\ Count \in Nat \ {0}
  BY <1>1 DEF First, Count, table, CallTrap, TableInv, TypeOK, Batch
<1>3. Waiting \in Seq(Traps) /\ Len(Waiting) = Count /\ First \in Nat
      /\ \A k \in 1 .. Count : Waiting[k] = trap_func[First + k - 1]
  BY WaitingIsASeq
<1>4. Waiting # <<>> /\ Head(Waiting) = trap_func[traps_next]
  BY <1>2, <1>3
<1>5. Waiting' = [k \in 1 .. Count - 1 |-> Waiting[k + 1]]
  <2>1. Waiting' = [k \in 1 .. Count' |-> trap_func'[First' + k - 1]]
    BY DEF Waiting, First, Count
  <2>2. \A k \in 1 .. Count - 1 : trap_func'[First' + k - 1] = Waiting[k + 1]
    <3> SUFFICES ASSUME NEW k \in 1 .. Count - 1
                 PROVE  trap_func[First + 1 + k - 1] = Waiting[k + 1]
      BY <1>1, <1>2 DEF table
    <3>1. k + 1 \in 1 .. Count /\ First + 1 + k - 1 = First + (k + 1) - 1
      BY <1>2, <1>3
    <3> QED
      BY <3>1, <1>3
  <2> QED
    BY <1>2, <2>1, <2>2
<1>6. Waiting' = Tail(Waiting)
  <2>1. /\ Tail(Waiting) \in Seq(Traps) /\ Len(Tail(Waiting)) = Count - 1
        /\ \A k \in 1 .. Count - 1 : Tail(Waiting)[k] = Waiting[k + 1]
    BY <1>3, <1>4, HeadTailProperties
  <2>2. Tail(Waiting) \in [1 .. Count - 1 -> Traps]
    BY <2>1, LenProperties
  <2>3. Tail(Waiting) = [k \in 1 .. Count - 1 |-> Waiting[k + 1]]
    BY <2>1, <2>2
  <2> QED
    BY <1>5, <2>3
<1> QED
  BY <1>1, <1>4, <1>6 DEF Fifo!Run

LEMMA EmptyWaiting ==
  ASSUME traps_count = 0, i = 0, pc # "trap"
  PROVE  Waiting = <<>>
  BY DEF Waiting

(* "traps can trigger traps and more than one can be triggered per cycle":   *)
(* as long as it is the first of a batch that does, each is run once and in  *)
(* order.                                                                    *)
THEOREM TableImplementsTrapFifo ==
  ASSUME ~LateTriggers
  PROVE  Spec => ImplementsTrapFifo
<1>1. Init => Fifo!Init
  BY EmptyWaiting DEF Init, Fifo!Init
<1>2. TableInv /\ TableInv' /\ [Next]_vars => [Fifo!Next]_<<Waiting, running>>
  <2> SUFFICES ASSUME TableInv, TableInv', [Next]_vars
               PROVE  [Fifo!Next]_<<Waiting, running>>
    OBVIOUS
  <2> USE DEF Fifo!Next
  <2>1. ASSUME NEW t \in Traps, Trigger(t)
        PROVE  Fifo!Trigger(t)
    BY <2>1, TriggerAppends DEF Fifo!Trigger, Trigger, loop
  <2>2. CASE TriggerReset \/ Load \/ Sample \/ StartBatch \/ Resume \/ UNCHANGED vars
    <3>1. Count' = Count /\ First' = First /\ UNCHANGED <<trap_func, running>>
      BY <2>2 DEF TriggerReset, Load, Sample, StartBatch, Resume, vars, table, loop, Count, First,
                  TableInv, Batch
    <3> QED
      BY <3>1, SameWaiting
  <2>3. CASE CallTrap
    BY <2>3, CallTakesFirst
  <2>4. CASE TrapReturns
    <3>1. Count' = Count /\ First' = First /\ UNCHANGED trap_func
      BY <2>4 DEF TrapReturns, Count, First, TableInv, TypeOK
    <3>2. running # None /\ running' = None
      <4>1. i < traps_count /\ traps_next \in Live
        BY <2>4 DEF TrapReturns, TableInv, TypeOK, Batch, Stored, Live, Slots
      <4> QED
        BY <4>1, <2>4 DEF TrapReturns, TableInv, Batch, Stored
    <3> QED
      BY <3>1, <3>2, SameWaiting DEF Fifo!Return
  <2>5. CASE EndBatch
    <3>1. running' = running
      BY <2>5 DEF EndBatch
    <3>2. CASE traps_count > traps_this_cycle
      BY <2>5, <3>1, <3>2, SameWaiting
         DEF EndBatch, Count, First, TableInv, TypeOK, Batch
    <3>3. CASE ~(traps_count > traps_this_cycle)
      <4>1. Count = 0 /\ Count' = 0
        BY <2>5, <3>3 DEF EndBatch, Count, TableInv, TypeOK, Batch
      <4> QED
        BY <4>1, <3>1, SameWaiting
    <3> QED
      BY <3>2, <3>3
  <2>6. CASE Reset
    <3>1. Waiting' = <<>>
      BY <2>6 DEF Reset, Waiting, TableInv, Batch
    <3>2. running = None /\ UNCHANGED running
      BY <2>6 DEF Reset, TableInv, Batch
    <3> QED
      BY <3>1, <3>2 DEF Fifo!Forget
  <2> QED
    BY <2>1, <2>2, <2>3, <2>4, <2>5, <2>6 DEF Next
<1> QED
  BY <1>1, <1>2, TableInvHolds, PTL DEF Spec, Fifo!Spec, ImplementsTrapFifo

=============================================================================
