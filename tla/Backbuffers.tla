----------------------------- MODULE Backbuffers ------------------------------
(***************************************************************************)
(* What the renderer of the GTK3 port promises about its back buffers: each *)
(* has one owner at a time, and frames come on the screen in the order in   *)
(* which the emulation finished them.                                       *)
(***************************************************************************)
EXTENDS Sequences

CONSTANT Buffers

VARIABLES
  owner,   (* who may touch a buffer                              *)
  frames   (* the buffers that hold a finished frame, in order    *)

Owners == {"pool", "vice", "queue", "render", "freed"}

Init ==
  /\ owner = [b \in Buffers |-> "pool"]
  /\ frames = <<>>

Moves(b, from, to) ==
  /\ owner[b] = from
  /\ owner' = [owner EXCEPT ![b] = to]

Draw(b) ==
  /\ \A x \in Buffers : owner[x] # "vice"
  /\ Moves(b, "pool", "vice")
  /\ UNCHANGED frames

Finish(b) == Moves(b, "vice", "queue") /\ frames' = Append(frames, b)

GiveUp(b) == Moves(b, "vice", "pool") /\ UNCHANGED frames

Show(b) ==
  /\ frames # <<>> /\ b = Head(frames)
  /\ Moves(b, "queue", "render")
  /\ frames' = Tail(frames)

Skip(b) ==
  /\ frames # <<>> /\ b = Head(frames)
  /\ Moves(b, "queue", "pool")
  /\ frames' = Tail(frames)

Shown(b) == Moves(b, "render", "pool") /\ UNCHANGED frames

FreeAll ==
  /\ \A b \in Buffers : owner[b] \in {"pool", "queue"}
  /\ owner' = [b \in Buffers |-> "freed"]
  /\ frames' = <<>>

Next ==
  \/ \E b \in Buffers :
       Draw(b) \/ Finish(b) \/ GiveUp(b) \/ Show(b) \/ Skip(b) \/ Shown(b)
  \/ FreeAll

Spec == Init /\ [][Next]_<<owner, frames>>
=============================================================================
