------------------------------ MODULE Lockstep ------------------------------
(***************************************************************************)
(* What netplay promises: two peers play the same frames in the same       *)
(* order, and neither gets further ahead than the frames under way allow.  *)
(***************************************************************************)
EXTENDS Naturals, Sequences

CONSTANTS Peers, FrameDelta

VARIABLE lead   (* by peer, the frames it has played and the other one has not *)

Level == [p \in Peers |-> <<>>]

Init == lead = Level

(* The one that is ahead plays something new. *)
Ahead(p) ==
  /\ \A q \in Peers \ {p} : lead[q] = <<>>
  /\ Len(lead[p]) < FrameDelta
  /\ lead'[p] # <<>>
  /\ lead' = [lead EXCEPT ![p] = Append(@, lead'[p][Len(lead'[p])])]

(* The other one plays what the first has played. *)
Behind(p) == \E q \in Peers \ {p} : lead[q] # <<>> /\ lead' = [lead EXCEPT ![q] = Tail(@)]

(* A server and a client connect. *)
Connect == lead' = Level

Next == Connect \/ \E p \in Peers : Ahead(p) \/ Behind(p)

Spec == Init /\ [][Next]_lead
=============================================================================
