------------------------------ MODULE TrapFifo ------------------------------
(***************************************************************************)
(* What the trap mechanism promises its users: traps are run one at a      *)
(* time, each once, in the order they were triggered, unless a reset of    *)
(* the machine forgets those that wait.                                    *)
(***************************************************************************)
EXTENDS Sequences

CONSTANTS Traps, None

VARIABLES
  queue,   (* traps that wait        *)
  running  (* the trap that runs now *)

Init == queue = <<>> /\ running = None

Trigger(t) == queue' = Append(queue, t) /\ UNCHANGED running

Run ==
  /\ running = None /\ queue # <<>>
  /\ running' = Head(queue)
  /\ queue' = Tail(queue)

Return == running # None /\ running' = None /\ UNCHANGED queue

Forget == running = None /\ queue' = <<>> /\ UNCHANGED running

Next == (\E t \in Traps : Trigger(t)) \/ Run \/ Return \/ Forget

Spec == Init /\ [][Next]_<<queue, running>>
=============================================================================
