------------------------------- MODULE Pause --------------------------------
(***************************************************************************)
(* How the emulation is paused (arch/gtk3/ui.c, vsync.c, monitor.c).       *)
(*                                                                         *)
(* The CPU does not look at is_paused.  What stops it is pause_loop(), a   *)
(* callback that runs at the end of a frame, sleeps, and queues itself     *)
(* again as long as the emulation is paused; so other callbacks get their  *)
(* turn too.  The monitor ends the pause when it starts and begins it      *)
(* anew, in a loop of its own, when it is left.                            *)
(*                                                                         *)
(* The UI runs its handlers where the vice thread yields: during a frame,  *)
(* in either loop, and at the prompt of the monitor.                       *)
(***************************************************************************)
EXTENDS Naturals, Sequences, SequencesExt

CONSTANTS
  MaxCallbacks,   (* bound: the user does nothing when so many callbacks wait   *)
  MaxTraps        (* bound: the user asks for no monitor when so many traps wait *)

ASSUME BoundsAssumption == MaxCallbacks \in Nat \ {0} /\ MaxTraps \in Nat \ {0}

VARIABLES
  is_paused,
  enter_monitor_while_paused,
  pause_pending,            (* one frame is to be emulated                      *)
  callback_queue,           (* the queue that collects callbacks                *)
  executing_queue,          (* what is left of the one that is executed         *)
  place,                    (* where the vice thread is                         *)
  traps,                    (* monitor traps that wait                          *)
  batch,                    (* traps of the running batch that have not returned *)
  reset,                    (* whether a machine reset waits                    *)
  should_pause_on_exit_mon

switches   == <<is_paused, enter_monitor_while_paused, pause_pending, should_pause_on_exit_mon>>
queues     == <<callback_queue, executing_queue>>
requests   == <<traps, batch, reset>>
pause_vars == <<switches, queues, place, requests>>

(* "job" is any other callback: a screenshot, a new border. *)
Callbacks == {"pause_loop", "job"}

PauseInit ==
  /\ is_paused = FALSE
  /\ enter_monitor_while_paused = FALSE
  /\ pause_pending = FALSE
  /\ callback_queue = <<>>
  /\ executing_queue = <<>>
  /\ place = "cpu"
  /\ traps = 0
  /\ batch = 0
  /\ reset = FALSE
  /\ should_pause_on_exit_mon = FALSE

vsync_on_vsync_do(callback) == callback_queue' = Append(callback_queue, callback)

ui_pause_enable ==
  /\ is_paused' = TRUE
  /\ IF is_paused THEN UNCHANGED callback_queue ELSE vsync_on_vsync_do("pause_loop")

ui_pause_disable == is_paused' = FALSE /\ UNCHANGED callback_queue

(* Not inside the monitor; a pause loop is not. *)
monitor_startup_trap == traps' = traps + 1

-----------------------------------------------------------------------------
(* The user, in a window that the vice thread gives. *)

UiActs ==
  /\ place \in {"window", "sleep", "monitor", "monitor pause"}
  /\ Len(callback_queue) + Len(executing_queue) < MaxCallbacks

PauseOn ==
  /\ UiActs /\ ui_pause_enable
  /\ UNCHANGED <<enter_monitor_while_paused, pause_pending, should_pause_on_exit_mon, executing_queue, place, requests>>

PauseOff ==
  /\ UiActs /\ ui_pause_disable
  /\ UNCHANGED <<enter_monitor_while_paused, pause_pending, should_pause_on_exit_mon, executing_queue, place, requests>>

(* advance_frame_action() of a paused emulation. *)
vsyncarch_advance_frame ==
  /\ UiActs /\ is_paused /\ ui_pause_disable
  /\ pause_pending' = TRUE
  /\ UNCHANGED <<enter_monitor_while_paused, should_pause_on_exit_mon, executing_queue, place, requests>>

monitor_open_action ==
  /\ UiActs /\ traps < MaxTraps
  /\ IF is_paused
       THEN enter_monitor_while_paused' = TRUE /\ UNCHANGED traps
       ELSE /\ IF place = "monitor" THEN UNCHANGED traps ELSE monitor_startup_trap
            /\ UNCHANGED enter_monitor_while_paused
  /\ UNCHANGED <<is_paused, pause_pending, should_pause_on_exit_mon, queues, place, reset, batch>>

reset_action ==
  /\ UiActs /\ ui_pause_disable
  /\ reset' = TRUE
  /\ UNCHANGED <<enter_monitor_while_paused, pause_pending, should_pause_on_exit_mon, executing_queue, place, traps, batch>>

QueueJob ==
  /\ UiActs /\ ~Contains(callback_queue, "job")
  /\ vsync_on_vsync_do("job")
  /\ UNCHANGED <<switches, executing_queue, place, requests>>

-----------------------------------------------------------------------------
(* The vice thread: frames and callbacks. *)

(* DO_INTERRUPT() runs traps and does resets before the next opcode. *)
Opcode == place = "cpu" /\ traps = 0 /\ ~reset

StartTraps ==
  /\ place = "cpu" /\ traps > 0
  /\ place' = "traps"
  /\ batch' = traps
  /\ traps' = 0
  /\ UNCHANGED <<switches, queues, reset>>

EndTraps ==
  /\ place = "traps" /\ batch = 0 /\ ~reset
  /\ place' = "cpu"
  /\ UNCHANGED <<switches, queues, requests>>

(* vsync_do_end_of_line() gives the UI a window during the frame. *)
mainlock_yield ==
  /\ Opcode
  /\ place' = "window"
  /\ UNCHANGED <<switches, queues, requests>>

EndOfWindow ==
  /\ place = "window"
  /\ place' = "cpu"
  /\ UNCHANGED <<switches, queues, requests>>

(* The last end of line and the end of the frame come without an opcode between them. *)
vsyncarch_postsync ==
  /\ Opcode \/ place = "window"
  /\ place' = "callbacks"
  /\ pause_pending' = FALSE
  /\ IF pause_pending THEN ui_pause_enable ELSE UNCHANGED <<is_paused, callback_queue>>
  /\ UNCHANGED <<enter_monitor_while_paused, should_pause_on_exit_mon, executing_queue, requests>>

(* The reset follows the traps that waited with it, and forgets what these triggered. *)
vsync_reset_hook ==
  /\ reset
  /\ (place = "cpu" /\ traps = 0) \/ (place = "traps" /\ batch = 0)
  /\ reset' = FALSE
  /\ traps' = 0
  /\ place' = "callbacks"
  /\ UNCHANGED <<switches, queues, batch>>

(* execute_vsync_callbacks() *)
FlipQueues ==
  /\ place = "callbacks" /\ executing_queue = <<>> /\ callback_queue # <<>>
  /\ executing_queue' = callback_queue
  /\ callback_queue' = <<>>
  /\ UNCHANGED <<switches, place, requests>>

(* Mutation: what the callbacks queued waits for the next frame. *)
NoMoreCallbacks_Once ==
  /\ place = "callbacks" /\ executing_queue = <<>>
  /\ place' = "cpu"
  /\ UNCHANGED <<switches, queues, requests>>

NoMoreCallbacks ==
  /\ place = "callbacks" /\ executing_queue = <<>> /\ callback_queue = <<>>
  /\ place' = "cpu"
  /\ UNCHANGED <<switches, queues, requests>>

Due(callback) == place = "callbacks" /\ executing_queue # <<>> /\ Head(executing_queue) = callback

RunJob ==
  /\ Due("job")
  /\ executing_queue' = Tail(executing_queue)
  /\ UNCHANGED <<switches, callback_queue, place, requests>>

(* pause_loop(), up to where it sleeps. *)
pause_loop ==
  /\ Due("pause_loop")
  /\ enter_monitor_while_paused' = (enter_monitor_while_paused /\ ~is_paused)
  /\ IF is_paused /\ ~enter_monitor_while_paused
       THEN /\ place' = "sleep"
            /\ UNCHANGED <<executing_queue, traps>>
       ELSE /\ executing_queue' = Tail(executing_queue)
            /\ IF is_paused THEN monitor_startup_trap ELSE UNCHANGED traps
            /\ UNCHANGED place
  /\ UNCHANGED <<is_paused, pause_pending, should_pause_on_exit_mon, callback_queue, batch, reset>>

(* Mutation: the loop is in the callback. *)
WakeUp_Loops ==
  /\ place = "sleep"
  /\ IF is_paused THEN UNCHANGED <<place, executing_queue>>
                  ELSE place' = "callbacks" /\ executing_queue' = Tail(executing_queue)
  /\ UNCHANGED <<switches, callback_queue, requests>>

WakeUp ==
  /\ place = "sleep"
  /\ place' = "callbacks"
  /\ executing_queue' = Tail(executing_queue)
  /\ IF is_paused THEN vsync_on_vsync_do("pause_loop") ELSE UNCHANGED callback_queue
  /\ UNCHANGED <<switches, requests>>

-----------------------------------------------------------------------------
(* The monitor. *)

(* Mutation: the emulation stays paused while the monitor is open. *)
monitor_startup_StaysPaused ==
  /\ should_pause_on_exit_mon' = (should_pause_on_exit_mon \/ is_paused)
  /\ UNCHANGED is_paused
  /\ place' = "monitor"

monitor_startup ==
  /\ should_pause_on_exit_mon' = (should_pause_on_exit_mon \/ is_paused)
  /\ is_paused' = FALSE
  /\ place' = "monitor"

MonitorTrap ==
  /\ place = "traps" /\ batch > 0
  /\ monitor_startup
  /\ UNCHANGED <<enter_monitor_while_paused, pause_pending, queues, requests>>

Breakpoint ==
  /\ Opcode /\ monitor_startup
  /\ UNCHANGED <<enter_monitor_while_paused, pause_pending, queues, requests>>

(* The monitor returns to the trap that started it, or to the opcode. *)
LeaveMonitor ==
  IF batch > 0 THEN place' = "traps" /\ batch' = batch - 1
               ELSE place' = "cpu" /\ UNCHANGED batch

(* The commands that step, or go to an address. *)
mon_jump ==
  /\ place = "monitor" /\ LeaveMonitor
  /\ UNCHANGED <<switches, queues, traps, reset>>

(* One round of the loop at the end of monitor_startup(). *)
PauseRound(paused) ==
  /\ enter_monitor_while_paused' = (enter_monitor_while_paused /\ ~paused)
  /\ IF paused /\ ~enter_monitor_while_paused
       THEN place' = "monitor pause" /\ UNCHANGED <<traps, batch>>
       ELSE /\ LeaveMonitor
            /\ IF paused THEN monitor_startup_trap ELSE UNCHANGED traps

(* mon_go() and mon_exit(): the pause begins anew. *)
mon_exit ==
  /\ place = "monitor"
  /\ should_pause_on_exit_mon' = FALSE
  /\ IF should_pause_on_exit_mon \/ is_paused
       THEN ui_pause_enable /\ PauseRound(TRUE)
       ELSE LeaveMonitor /\ UNCHANGED <<is_paused, enter_monitor_while_paused, callback_queue, traps>>
  /\ UNCHANGED <<pause_pending, executing_queue, reset>>

(* Mutation: the end of the pause is not looked for. *)
MonitorWakeUp_Deaf ==
  /\ place = "monitor pause" /\ PauseRound(TRUE)
  /\ UNCHANGED <<is_paused, pause_pending, should_pause_on_exit_mon, queues, reset>>

MonitorWakeUp ==
  /\ place = "monitor pause" /\ PauseRound(is_paused)
  /\ UNCHANGED <<is_paused, pause_pending, should_pause_on_exit_mon, queues, reset>>

PauseNext ==
  \/ PauseOn \/ PauseOff \/ vsyncarch_advance_frame \/ monitor_open_action \/ reset_action \/ QueueJob
  \/ StartTraps \/ EndTraps \/ mainlock_yield \/ EndOfWindow \/ vsyncarch_postsync \/ vsync_reset_hook
  \/ FlipQueues \/ NoMoreCallbacks \/ RunJob \/ pause_loop \/ WakeUp
  \/ MonitorTrap \/ Breakpoint \/ mon_jump \/ mon_exit \/ MonitorWakeUp

PauseSpec == PauseInit /\ [][PauseNext]_pause_vars

(***************************************************************************)
(* The vice thread is scheduled, sleeps and windows end, and the user      *)
(* leaves the monitor in the end.  Between two breakpoints or windows an   *)
(* opcode is executed, so frames end however often these come.             *)
(***************************************************************************)
PauseFairSpec ==
  /\ PauseSpec
  /\ SF_pause_vars(vsyncarch_postsync)
  /\ WF_pause_vars(StartTraps) /\ WF_pause_vars(EndTraps) /\ WF_pause_vars(EndOfWindow)
  /\ WF_pause_vars(vsync_reset_hook) /\ WF_pause_vars(FlipQueues) /\ WF_pause_vars(NoMoreCallbacks)
  /\ WF_pause_vars(RunJob) /\ WF_pause_vars(pause_loop) /\ WF_pause_vars(WakeUp)
  /\ WF_pause_vars(MonitorTrap) /\ WF_pause_vars(mon_jump \/ mon_exit) /\ WF_pause_vars(MonitorWakeUp)

-----------------------------------------------------------------------------
(* Every variable stays in its range; only the callback that sleeps is       *)
(* under way when UI handlers run.                                           *)
PauseTypeOK ==
  /\ is_paused \in BOOLEAN
  /\ enter_monitor_while_paused \in BOOLEAN
  /\ pause_pending \in BOOLEAN
  /\ should_pause_on_exit_mon \in BOOLEAN
  /\ reset \in BOOLEAN
  /\ callback_queue \in Seq(Callbacks)
  /\ executing_queue \in Seq(Callbacks)
  /\ place \in {"cpu", "window", "callbacks", "sleep", "traps", "monitor", "monitor pause"}
  /\ traps \in Nat
  /\ batch \in Nat
  /\ place = "sleep" => executing_queue # <<>> /\ Head(executing_queue) = "pause_loop"
  /\ place \notin {"callbacks", "sleep"} => executing_queue = <<>>
  /\ place \notin {"traps", "monitor", "monitor pause"} => batch = 0

(* A paused emulation stands still: while is_paused is set the CPU runs only *)
(* to the end of its frame, where a pause_loop() waits, or into the monitor, *)
(* however often the user has paused and resumed it, and wherever the vice   *)
(* thread slept when he did.                                                 *)
PauseHolds ==
  is_paused /\ place \in {"cpu", "window"} => Contains(callback_queue, "pause_loop") \/ traps > 0

(* Once the callbacks of a frame have run, the CPU goes on only when the     *)
(* emulation is not paused any more or is to enter the monitor, also when    *)
(* the pause began while one of the callbacks slept.                         *)
FrameEndsInPause == [][place = "callbacks" /\ place' = "cpu" => ~is_paused \/ traps > 0]_pause_vars

(* An emulation that is resumed for good emulates frames again, whichever    *)
(* of the two loops it was paused in.                                        *)
Resumes == <>[]~is_paused => []<><<vsyncarch_postsync>>_pause_vars

JobWaits == Contains(callback_queue \o executing_queue, "job")

(* "other, perhaps newly queued, vsync_on_vsync_do callbacks" are called     *)
(* (ui.c:2527) though the emulation stays paused.  The loop that the monitor *)
(* pauses in calls none, so the promise holds only outside of it.            *)
JobsServed == JobWaits ~> (~JobWaits \/ place = "monitor pause")
=============================================================================
