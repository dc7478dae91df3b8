------------------------------ MODULE Mainlock ------------------------------
(***************************************************************************)
(* The hand-over of VICE's core data between the vice thread, which runs   *)
(* the emulation, and the UI thread, whose event handlers call into it     *)
(* (mainlock.c, with the two callers that end it: archdep_exit.c and the   *)
(* thread start and stop of main.c).                                       *)
(*                                                                         *)
(* internal_lock is not a variable: it is only ever held over straight     *)
(* line code, and pthread_cond_wait gives it up in the same step that      *)
(* starts the wait, so each section under it is one action.  main_lock is  *)
(* held for long stretches by either thread and is the variable main_lock. *)
(* A condition variable keeps no signals: signalling one moves the thread  *)
(* that waits on it, if any, to the point after its wait.                  *)
(***************************************************************************)
EXTENDS Naturals

CONSTANT
  MaxDepth   (* how deep event handlers nest: 1 when no handler triggers another *)

ASSUME MaxDepthAssumption == MaxDepth \in Nat \ {0}

VARIABLES
  main_lock,               (* owner of main_lock                                   *)
  main_lock_obtain_depth,  (* unfinished mainlock_obtain() calls of the UI thread  *)
  ui_is_waiting,
  vice_thread_is_running,
  vice_thread_keepalive,
  vpc,                     (* where the vice thread is                             *)
  upc,                     (* where the UI thread is                               *)
  is_exiting,              (* actually_exit() has begun (archdep_exit.c)           *)
  exit_depth,              (* main_lock_obtain_depth when it began                 *)
  exit_posted,             (* exit_on_main_thread() is queued for the UI thread    *)
  spurious                 (* whether condition waits may return without a signal: *)
                           (* a choice of the host, made once                      *)

flags == <<ui_is_waiting, vice_thread_is_running, vice_thread_keepalive>>
exits == <<is_exiting, exit_depth, exit_posted>>
vars  == <<main_lock, main_lock_obtain_depth, flags, vpc, upc, exits, spurious>>

-----------------------------------------------------------------------------
(* Where each thread can be. *)

VicePlaces ==
  { "create",   \* started, mainlock_set_vice_thread() not yet run
    "start",    \* about to take main_lock for the first time
    "run",      \* emulating
    "yield",    \* mainlock_yield_begin(): main_lock given up, ui_is_waiting not yet read
    "handoff",  \* waits on ui_has_lock_cond
    "window",   \* between mainlock_yield_begin() and mainlock_yield_end()
    "check",    \* has main_lock again, about to run consider_exit()
    "leave",    \* told to die, main_lock not yet given up
    "gone",     \* pthread_exit()
    "abort" }   \* assert(false) in archdep_vice_exit()

UiPlaces ==
  { "idle",     \* in the event loop, outside any locked section
    "quit",     \* in main_exit(), before the mainlock_obtain() of ui_exit()
    "asleep",   \* waits on ui_waiting_cond
    "woken",    \* returned from that wait
    "lock",     \* about to take main_lock
    "signal",   \* has main_lock, about to signal ui_has_lock_cond
    "inside",   \* between a mainlock_obtain() and its mainlock_release()
    "initiate", \* ui_exit() is over, in vice_thread_shutdown()
    "join",     \* in pthread_join(vice_thread)
    "done" }    \* the vice thread is joined; machine_shutdown() and exit() follow

ViceOwns == vpc \in {"run", "check", "leave"}

Init ==
  /\ main_lock = "none"
  /\ main_lock_obtain_depth = 0
  /\ ui_is_waiting = FALSE
  /\ vice_thread_is_running = FALSE
  /\ vice_thread_keepalive = TRUE
  /\ vpc = "create"
  /\ upc = "idle"
  /\ is_exiting = FALSE
  /\ exit_depth = 0
  /\ exit_posted = FALSE
  /\ spurious \in BOOLEAN

ViceGoes(from, to) == vpc = from /\ vpc' = to
UiGoes(from, to)   == upc = from /\ upc' = to /\ vpc # "abort"

(* pthread_cond_signal(&ui_waiting_cond): reaches the UI thread only if it sleeps. *)
SignalUi == upc' = IF upc = "asleep" THEN "woken" ELSE upc

-----------------------------------------------------------------------------
(* The vice thread. *)

SetViceThread ==
  /\ ViceGoes("create", "start")
  /\ vice_thread_is_running' = TRUE
  /\ UNCHANGED <<main_lock, main_lock_obtain_depth, ui_is_waiting,
                 vice_thread_keepalive, upc, exits, spurious>>

StartLock ==
  /\ ViceGoes("start", "run")
  /\ main_lock = "none"
  /\ main_lock' = "vice"
  /\ UNCHANGED <<main_lock_obtain_depth, flags, upc, exits, spurious>>

YieldUnlock ==
  /\ ViceGoes("run", "yield")
  /\ main_lock' = "none"
  /\ UNCHANGED <<main_lock_obtain_depth, flags, upc, exits, spurious>>

(* The section of mainlock_yield_begin() under internal_lock. *)
YieldToUi ==
  /\ ui_is_waiting
  /\ ViceGoes("yield", "handoff")
  /\ SignalUi
  /\ UNCHANGED <<main_lock, main_lock_obtain_depth, flags, exits, spurious>>

YieldToNobody ==
  /\ ~ui_is_waiting
  /\ ViceGoes("yield", "window")
  /\ UNCHANGED <<main_lock, main_lock_obtain_depth, flags, upc, exits, spurious>>

HandoffSpurious ==
  /\ spurious
  /\ ViceGoes("handoff", "window")
  /\ UNCHANGED <<main_lock, main_lock_obtain_depth, flags, upc, exits, spurious>>

(* Mutation: a trylock whose result is ignored. *)
YieldEnd_Trylock ==
  /\ ViceGoes("window", "check")
  /\ main_lock' = IF main_lock = "none" THEN "vice" ELSE main_lock
  /\ UNCHANGED <<main_lock_obtain_depth, flags, upc, exits, spurious>>

YieldEnd ==
  /\ ViceGoes("window", "check")
  /\ main_lock = "none"
  /\ main_lock' = "vice"
  /\ UNCHANGED <<main_lock_obtain_depth, flags, upc, exits, spurious>>

(* Mutation: the dying thread does not wake the UI. *)
ConsiderExit_Silent ==
  /\ UNCHANGED <<main_lock, main_lock_obtain_depth, ui_is_waiting,
                 vice_thread_keepalive, upc, exits, spurious>>
  /\ \/ /\ vice_thread_keepalive
        /\ ViceGoes("check", "run")
        /\ UNCHANGED vice_thread_is_running
     \/ /\ ~vice_thread_keepalive
        /\ ViceGoes("check", "leave")
        /\ vice_thread_is_running' = FALSE

ConsiderExit ==
  /\ UNCHANGED <<main_lock, main_lock_obtain_depth, ui_is_waiting,
                 vice_thread_keepalive, exits, spurious>>
  /\ \/ /\ vice_thread_keepalive
        /\ ViceGoes("check", "run")
        /\ UNCHANGED <<vice_thread_is_running, upc>>
     \/ /\ ~vice_thread_keepalive
        /\ ViceGoes("check", "leave")
        /\ vice_thread_is_running' = FALSE
        /\ IF ui_is_waiting THEN SignalUi ELSE UNCHANGED upc

ViceLeave ==
  /\ ViceGoes("leave", "gone")
  /\ main_lock' = "none"
  /\ UNCHANGED <<main_lock_obtain_depth, flags, upc, exits, spurious>>

(* Mutation: the exit is not posted to the UI thread. *)
ViceExit_Unposted ==
  /\ vpc = "run"
  /\ vpc' = IF vice_thread_keepalive THEN "check" ELSE "abort"
  /\ vice_thread_keepalive' = FALSE
  /\ UNCHANGED <<main_lock, main_lock_obtain_depth, ui_is_waiting,
                 vice_thread_is_running, upc, exits, spurious>>

(* archdep_vice_exit() on the vice thread: the exit proper is posted to the UI *)
(* thread and mainlock_initiate_shutdown() is called.  It returns when someone *)
(* else has already initiated the shutdown, and assert(false) follows it.      *)
ViceExit ==
  /\ vpc = "run"
  /\ exit_posted' = TRUE
  /\ vpc' = IF vice_thread_keepalive THEN "check" ELSE "abort"
  /\ vice_thread_keepalive' = FALSE
  /\ UNCHANGED <<main_lock, main_lock_obtain_depth, ui_is_waiting,
                 vice_thread_is_running, upc, is_exiting, exit_depth, spurious>>

-----------------------------------------------------------------------------
(* The UI thread: mainlock_obtain(), step by step, and mainlock_release().   *)

(* Event handlers call it from the event loop or from within a handler; so   *)
(* does ui_exit().  A nested call only counts.                               *)
ObtainNested ==
  /\ main_lock_obtain_depth > 0 /\ vpc # "abort"
  /\ \/ upc = "inside" /\ main_lock_obtain_depth < MaxDepth
     \/ upc = "quit"
  /\ main_lock_obtain_depth' = main_lock_obtain_depth + 1
  /\ upc' = "inside"
  /\ UNCHANGED <<main_lock, flags, vpc, exits, spurious>>

Obtain ==
  /\ main_lock_obtain_depth = 0
  /\ upc \in {"idle", "quit"} /\ vpc # "abort"
  /\ main_lock_obtain_depth' = 1
  /\ ui_is_waiting' = vice_thread_is_running
  /\ upc' = IF vice_thread_is_running THEN "asleep" ELSE "lock"
  /\ UNCHANGED <<main_lock, vice_thread_is_running, vice_thread_keepalive, vpc, exits, spurious>>

ObtainSpurious ==
  /\ spurious
  /\ UiGoes("asleep", "woken")
  /\ UNCHANGED <<main_lock, main_lock_obtain_depth, flags, vpc, exits, spurious>>

(* Mutation: answers the vice thread before it has main_lock. *)
ObtainWoken_EarlySignal ==
  /\ UiGoes("woken", "lock")
  /\ ui_is_waiting' = FALSE
  /\ vpc' = IF vpc = "handoff" THEN "window" ELSE vpc
  /\ UNCHANGED <<main_lock, main_lock_obtain_depth, vice_thread_is_running,
                 vice_thread_keepalive, exits, spurious>>

ObtainWoken ==
  /\ UiGoes("woken", "lock")
  /\ ui_is_waiting' = FALSE
  /\ UNCHANGED <<main_lock, main_lock_obtain_depth, vice_thread_is_running,
                 vice_thread_keepalive, vpc, exits, spurious>>

ObtainLock ==
  /\ UiGoes("lock", "signal")
  /\ main_lock = "none"
  /\ main_lock' = "ui"
  /\ UNCHANGED <<main_lock_obtain_depth, flags, vpc, exits, spurious>>

(* Mutation: the vice thread is not told that the UI has the lock. *)
ObtainSignal_Forgotten ==
  /\ UiGoes("signal", "inside")
  /\ UNCHANGED <<main_lock, main_lock_obtain_depth, flags, vpc, exits, spurious>>

ObtainSignal ==
  /\ UiGoes("signal", "inside")
  /\ vpc' = IF vpc = "handoff" THEN "window" ELSE vpc
  /\ UNCHANGED <<main_lock, main_lock_obtain_depth, flags, exits, spurious>>

(* Unlocking a default mutex that the thread does not own is undefined: it   *)
(* opens the lock (what the usual futex implementation does) or is refused.  *)
UnlockMain ==
  main_lock' \in IF main_lock = "ui" THEN {"none"} ELSE {"none", main_lock}

(* mainlock_release(): the lock is given up first and the depth counted down *)
(* after, whatever the depth is.                                             *)
Release ==
  /\ upc = "inside" /\ vpc # "abort"
  /\ ~(is_exiting /\ main_lock_obtain_depth = exit_depth + 1)
  /\ UnlockMain
  /\ main_lock_obtain_depth' = main_lock_obtain_depth - 1
  /\ upc' = IF main_lock_obtain_depth = 1 THEN "idle" ELSE "inside"
  /\ UNCHANGED <<flags, vpc, exits, spurious>>

(* actually_exit() on the UI thread, from the event loop or from a handler;  *)
(* a second call is ignored.                                                 *)
Quit ==
  /\ ~is_exiting
  /\ upc \in {"idle", "inside"} /\ vpc # "abort"
  /\ is_exiting' = TRUE
  /\ exit_depth' = main_lock_obtain_depth
  /\ exit_posted' = FALSE
  /\ upc' = "quit"
  /\ UNCHANGED <<main_lock, main_lock_obtain_depth, flags, vpc, spurious>>

(* Mutation: only the outermost release unlocks. *)
ExitRelease_Outermost ==
  /\ is_exiting
  /\ main_lock_obtain_depth = exit_depth + 1
  /\ UiGoes("inside", "initiate")
  /\ IF exit_depth = 0 THEN UnlockMain ELSE UNCHANGED main_lock
  /\ main_lock_obtain_depth' = exit_depth
  /\ UNCHANGED <<flags, vpc, exits, spurious>>

(* The release at the end of ui_exit(). *)
ExitRelease ==
  /\ is_exiting
  /\ main_lock_obtain_depth = exit_depth + 1
  /\ UiGoes("inside", "initiate")
  /\ UnlockMain
  /\ main_lock_obtain_depth' = exit_depth
  /\ UNCHANGED <<flags, vpc, exits, spurious>>

(* mainlock_initiate_shutdown() on the UI thread, then pthread_join(). *)
InitiateShutdown ==
  /\ UiGoes("initiate", "join")
  /\ vice_thread_keepalive' = FALSE
  /\ UNCHANGED <<main_lock, main_lock_obtain_depth, ui_is_waiting,
                 vice_thread_is_running, vpc, exits, spurious>>

Join ==
  /\ UiGoes("join", "done")
  /\ vpc = "gone"
  /\ UNCHANGED <<main_lock, main_lock_obtain_depth, flags, vpc, exits, spurious>>

-----------------------------------------------------------------------------

Vice ==
  \/ SetViceThread \/ StartLock \/ YieldUnlock \/ YieldToUi \/ YieldToNobody
  \/ HandoffSpurious \/ YieldEnd \/ ConsiderExit \/ ViceLeave \/ ViceExit

Ui ==
  \/ ObtainNested \/ Obtain \/ ObtainSpurious \/ ObtainWoken \/ ObtainLock
  \/ ObtainSignal \/ Release \/ Quit \/ ExitRelease \/ InitiateShutdown \/ Join

(* The process is over: joined, or killed by the failed assertion. *)
Ended ==
  /\ upc = "done" \/ vpc = "abort"
  /\ UNCHANGED vars

Next == Vice \/ Ui \/ Ended

(***************************************************************************)
(* The vice thread keeps running and yields again and again:               *)
(* vsync_do_end_of_line() yields every 2 ms of host time, and so do the    *)
(* pause loop and the loops that wait for a dialog.  Handlers end, and a   *)
(* posted exit_on_main_thread() is run once the event loop is back.  No    *)
(* fairness is assumed of what the user does: opening a handler, quitting. *)
(* ObtainLock is strongly fair: a UI thread that asked before the vice     *)
(* thread was up is not handed the lock but competes for main_lock, which  *)
(* each mainlock_yield_and_sleep() leaves open for the length of a sleep.  *)
(***************************************************************************)
Fairness ==
  /\ WF_vars(SetViceThread) /\ WF_vars(StartLock) /\ WF_vars(YieldUnlock)
  /\ WF_vars(YieldToUi \/ YieldToNobody) /\ WF_vars(YieldEnd)
  /\ WF_vars(ConsiderExit) /\ WF_vars(ViceLeave)
  /\ WF_vars((upc = "quit") /\ (Obtain \/ ObtainNested))
  /\ WF_vars(ObtainWoken) /\ SF_vars(ObtainLock) /\ WF_vars(ObtainSignal)
  /\ WF_vars(Release) /\ WF_vars(ExitRelease)
  /\ WF_vars(InitiateShutdown) /\ WF_vars(Join)
  /\ SF_vars((upc = "idle") /\ exit_posted /\ Quit)

Spec     == Init /\ [][Next]_vars
FairSpec == Spec /\ Fairness

-----------------------------------------------------------------------------
(* Every variable stays in its range. *)
TypeOK ==
  /\ main_lock \in {"vice", "ui", "none"}
  /\ main_lock_obtain_depth \in 0 .. MaxDepth + 1
  /\ ui_is_waiting \in BOOLEAN
  /\ vice_thread_is_running \in BOOLEAN
  /\ vice_thread_keepalive \in BOOLEAN
  /\ vpc \in VicePlaces
  /\ upc \in UiPlaces
  /\ is_exiting \in BOOLEAN
  /\ exit_depth \in 0 .. MaxDepth
  /\ exit_posted \in BOOLEAN
  /\ spurious \in BOOLEAN

(* The vice thread emulates, and decides to die, only as owner of main_lock, *)
(* and everything between a mainlock_obtain() and its mainlock_release()     *)
(* runs with main_lock held by the UI thread: the reason the lock exists.    *)
SectionsLocked ==
  /\ ViceOwns => main_lock = "vice"
  /\ upc = "inside" => main_lock = "ui"

(* The UI never sleeps on ui_waiting_cond with nobody left to signal it: the *)
(* vice thread has not passed its last look at ui_is_waiting.                *)
NoLostWakeup ==
  upc = "asleep" => ui_is_waiting /\ vpc \notin {"create", "leave", "gone"}

(* The UI thread never joins the vice thread while it owns the lock the vice *)
(* thread needs to reach consider_exit(), also when the quit came from       *)
(* within a locked event handler.                                            *)
JoinFreesLock == upc = "join" => main_lock # "ui"

(* The lock implements the promise of CoreAccess, unless a wait ends without  *)
(* a signal.  The promise is made when the vice thread goes to wait and is   *)
(* kept when the UI takes main_lock.                                         *)
Core == INSTANCE CoreAccess WITH
          owner    <- main_lock,
          promised <- ~spurious /\ vpc = "handoff" /\ upc \in {"asleep", "woken", "lock"}

ImplementsCoreAccess == Core!Spec

(* A UI thread that asks for the core gets it: its event loop never freezes, *)
(* also when the vice thread dies while it waits.                            *)
UiServed == (upc = "asleep") ~> (upc = "inside" \/ vpc = "abort")

(* A vice thread that stepped aside for the UI emulates again, or ends.      *)
ViceResumes == (vpc = "handoff" /\ ~spurious) ~> (vpc \in {"run", "gone"})

(* Once one of the threads has begun the exit the vice thread is joined,     *)
(* wherever either of them was.                                              *)
ShutdownCompletes ==
  (is_exiting \/ ~vice_thread_keepalive) ~> (upc = "done" \/ vpc = "abort")
=============================================================================
