----------------------------- MODULE TrapQueue ------------------------------
(***************************************************************************)
(* The traps of the main CPU (interrupt.c) and the part of DO_INTERRUPT    *)
(* (6510core.c) that runs them and resets the machine.                     *)
(*                                                                         *)
(* A trap is a function that wants to run between two instructions: to     *)
(* load or save a snapshot, to start a recording, to connect two players.  *)
(* Any code of the vice thread triggers one, and so do UI handlers while   *)
(* the vice thread yields to them, be it from an alarm or from within a    *)
(* trap that waits for a dialog or for the monitor.                        *)
(*                                                                         *)
(* trap_func is an array that lib_realloc() lets grow; a slot nothing was  *)
(* written to holds Garbage, and one that was run keeps the old function.  *)
(***************************************************************************)
EXTENDS Naturals, Sequences

CONSTANTS
  Traps,         (* requests to run a trap function                              *)
  Garbage,
  None,
  MaxSlots,      (* bound: slots of trap_func in use at a time                   *)
  LateTriggers   (* whether traps other than the first of a batch trigger traps  *)

ASSUME TrapAssumption == Garbage \notin Traps /\ None \notin Traps /\ Garbage # None
ASSUME MaxSlotsAssumption == MaxSlots \in Nat \ {0}
ASSUME LateTriggersAssumption == LateTriggers \in BOOLEAN

VARIABLES
  trap_func,
  traps_next,
  traps_count,
  global_pending_int,  (* of its flags, IK_TRAP and IK_RESET                    *)
  pc,                  (* where the CPU loop is                                 *)
  ik,                  (* the flags DO_INTERRUPT works on                       *)
  i,                   (* traps of the batch that have returned                 *)
  traps_this_cycle,    (* traps in the batch                                    *)
  running              (* the trap function that runs                           *)

table == <<trap_func, traps_next, traps_count>>
loop  == <<pc, ik, i, traps_this_cycle, running>>
vars  == <<table, global_pending_int, loop>>

Slots == 0 .. MaxSlots - 1
Empty == [s \in Slots |-> Garbage]

Init ==
  /\ trap_func = Empty
  /\ traps_next = 0
  /\ traps_count = 0
  /\ global_pending_int = {}
  /\ pc = "cpu"
  /\ ik = {}
  /\ i = 0
  /\ traps_this_cycle = 0
  /\ running = None

(* The traps that have been triggered and not been started, oldest first, as *)
(* do_trap() will find them.                                                 *)
Waiting ==
  LET first == IF pc = "trap" THEN traps_next + 1 ELSE traps_next
      count == IF pc = "trap" THEN traps_count - i - 1 ELSE traps_count - i
  IN  [k \in 1 .. count |-> trap_func[first + k - 1]]

Waits(t) == \E k \in DOMAIN Waiting : Waiting[k] = t

-----------------------------------------------------------------------------
(* interrupt_maincpu_trigger_trap().  Code runs in the CPU and its alarms,   *)
(* also after DO_INTERRUPT has read the flags, and in a trap.                *)
CodeRuns == pc \in {"cpu", "sampled", "trap"}

(* Mutation: the new trap goes to the slot of the oldest one. *)
Trigger_AtNext(t) ==
  /\ CodeRuns /\ ~Waits(t) /\ running # t
  /\ pc = "trap" /\ i > 0 => LateTriggers
  /\ traps_next + traps_count \in Slots
  /\ trap_func' = [trap_func EXCEPT ![traps_next] = t]
  /\ traps_count' = traps_count + 1
  /\ global_pending_int' = global_pending_int \cup {"TRAP"}
  /\ UNCHANGED <<traps_next, loop>>

Trigger(t) ==
  /\ CodeRuns /\ ~Waits(t) /\ running # t
  /\ pc = "trap" /\ i > 0 => LateTriggers
  /\ traps_next + traps_count \in Slots
  /\ trap_func' = [trap_func EXCEPT ![traps_next + traps_count] = t]
  /\ traps_count' = traps_count + 1
  /\ global_pending_int' = global_pending_int \cup {"TRAP"}
  /\ UNCHANGED <<traps_next, loop>>

(* interrupt_trigger_reset() *)
TriggerReset ==
  /\ CodeRuns
  /\ global_pending_int' = global_pending_int \cup {"RESET"}
  /\ UNCHANGED <<table, loop>>

(* A snapshot is loaded by a trap or by the monitor: the flags are cleared   *)
(* and become those of the moment it was saved, the traps stay.  A load that *)
(* fails triggers a reset: before the module of the CPU, within it when the  *)
(* flags have been cleared but not read, or in a module that follows.        *)
Load ==
  /\ pc \in {"cpu", "trap"}
  /\ \E saved \in SUBSET {"TRAP", "RESET"} :
       global_pending_int' \in {saved, saved \cup {"RESET"}, {"RESET"}, global_pending_int \cup {"RESET"}}
  /\ UNCHANGED <<table, loop>>

(* The snapshot that was loaded was saved when neither a trap nor a reset    *)
(* was due: by the monitor, not by a trap.                                   *)
LoadOutside == Load /\ global_pending_int' = {}

-----------------------------------------------------------------------------
(* The CPU loop. *)

Sample ==
  /\ pc = "cpu" /\ global_pending_int # {}
  /\ pc' = "sampled"
  /\ ik' = global_pending_int
  /\ UNCHANGED <<table, global_pending_int, i, traps_this_cycle, running>>

(* Mutation: the youngest trap is left to the next batch. *)
StartBatch_LeavesOne ==
  /\ pc = "sampled" /\ "TRAP" \in ik
  /\ pc' = "batch"
  /\ i' = 0
  /\ traps_this_cycle' = IF traps_count > 0 THEN traps_count - 1 ELSE 0
  /\ UNCHANGED <<table, global_pending_int, ik, running>>

StartBatch ==
  /\ pc = "sampled" /\ "TRAP" \in ik
  /\ pc' = "batch"
  /\ i' = 0
  /\ traps_this_cycle' = traps_count
  /\ UNCHANGED <<table, global_pending_int, ik, running>>

CallTrap ==
  /\ pc = "batch" /\ i < traps_this_cycle
  /\ pc' = "trap"
  /\ running' = trap_func[traps_next]
  /\ UNCHANGED <<table, global_pending_int, ik, i, traps_this_cycle>>

TrapReturns ==
  /\ pc = "trap"
  /\ pc' = "batch"
  /\ running' = None
  /\ traps_next' = traps_next + 1
  /\ i' = i + 1
  /\ UNCHANGED <<trap_func, traps_count, global_pending_int, ik, traps_this_cycle>>

(* Mutation: the flag is cleared though traps were scheduled. *)
EndBatch_ClearsFlag ==
  /\ pc = "batch" /\ i = traps_this_cycle
  /\ i' = 0
  /\ pc' = "reset"
  /\ IF traps_count > traps_this_cycle
       THEN /\ traps_count' = traps_count - traps_this_cycle
            /\ UNCHANGED traps_next
       ELSE /\ traps_next' = 0
            /\ traps_count' = 0
  /\ global_pending_int' = global_pending_int \ {"TRAP"}
  /\ ik' = ik \cup (global_pending_int \cap {"RESET"})
  /\ UNCHANGED <<trap_func, traps_this_cycle, running>>

EndBatch ==
  /\ pc = "batch" /\ i = traps_this_cycle
  /\ i' = 0
  /\ pc' = "reset"
  /\ IF traps_count > traps_this_cycle
       THEN /\ traps_count' = traps_count - traps_this_cycle
            /\ UNCHANGED <<traps_next, global_pending_int>>
       ELSE /\ traps_next' = 0
            /\ traps_count' = 0
            /\ global_pending_int' = global_pending_int \ {"TRAP"}
  /\ ik' = ik \cup (global_pending_int \cap {"RESET"})
  /\ UNCHANGED <<trap_func, traps_this_cycle, running>>

(* interrupt_ack_reset(), then cpu_reset(), which zeroes the whole structure *)
(* and with it the pointer to the array.                                     *)
Reset ==
  /\ pc = "reset" \/ (pc = "sampled" /\ "TRAP" \notin ik)
  /\ "RESET" \in ik
  /\ pc' = "cpu"
  /\ ik' = {}
  /\ trap_func' = Empty
  /\ traps_next' = 0
  /\ traps_count' = 0
  /\ global_pending_int' = {}
  /\ UNCHANGED <<i, traps_this_cycle, running>>

Resume ==
  /\ pc = "reset" /\ "RESET" \notin ik
  /\ pc' = "cpu"
  /\ ik' = {}
  /\ UNCHANGED <<table, global_pending_int, i, traps_this_cycle, running>>

Next ==
  \/ \E t \in Traps : Trigger(t)
  \/ TriggerReset \/ Load
  \/ Sample \/ StartBatch \/ CallTrap \/ TrapReturns \/ EndBatch \/ Reset \/ Resume

Spec == Init /\ [][Next]_vars

(***************************************************************************)
(* The CPU loop goes on and trap functions return.  The UI thread does not *)
(* stop it from doing so: mainlock.c gives the vice thread its turn.       *)
(***************************************************************************)
FairSpec ==
  /\ Spec
  /\ WF_vars(Sample) /\ WF_vars(StartBatch) /\ WF_vars(CallTrap)
  /\ WF_vars(TrapReturns) /\ WF_vars(EndBatch) /\ WF_vars(Reset) /\ WF_vars(Resume)

-----------------------------------------------------------------------------
(* Every variable stays in its range. *)
TypeOK ==
  /\ trap_func \in [Slots -> Traps \cup {Garbage}]
  /\ traps_next \in 0 .. MaxSlots
  /\ traps_count \in 0 .. MaxSlots
  /\ global_pending_int \subseteq {"TRAP", "RESET"}
  /\ pc \in {"cpu", "sampled", "batch", "trap", "reset"}
  /\ ik \subseteq {"TRAP", "RESET"}
  /\ i \in 0 .. traps_this_cycle
  /\ traps_this_cycle \in 0 .. MaxSlots
  /\ running \in Traps \cup {Garbage, None}

(* No slot is called that nothing was written to, and none past the end.     *)
CallsAreReal == running # Garbage /\ (pc = "batch" /\ i < traps_this_cycle => traps_next \in Slots)

(* A trap that waits is announced to the CPU loop, or a reset is due that   *)
(* forgets it.                                                               *)
Announced == traps_count > 0 => global_pending_int # {}

(* "Executuing a trap scheduled another trap! Run them next cycle"           *)
(* (interrupt.c:360).  Neither a batch of traps that trigger others, nor a   *)
(* reset, nor a load that fails, whatever it has read, leaves a trap behind  *)
(* unannounced; only a snapshot that was saved outside of a trap does.       *)
HiddenOnlyByLoads == [][Announced => Announced' \/ LoadOutside]_vars

(* "traps can trigger traps and more than one can be triggered per cycle"    *)
(* (interrupt.c:329): each is run once and in order.                         *)
Fifo == INSTANCE TrapFifo WITH queue <- Waiting

ImplementsTrapFifo == Fifo!Spec

(* A trap that was triggered is run, unless a reset forgets it or a snapshot *)
(* that was saved outside of a trap takes its announcement away.             *)
TrapsAreServed == \A t \in Traps : Waits(t) ~> ~Waits(t) \/ ~Announced
=============================================================================
