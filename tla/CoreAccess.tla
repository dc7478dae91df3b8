----------------------------- MODULE CoreAccess -----------------------------
(***************************************************************************)
(* What the main lock promises its two users, without saying how: at any   *)
(* time the core data belongs to the vice thread, to the UI thread or to   *)
(* nobody, and once the vice thread has seen that the UI waits, the UI is  *)
(* the next owner, whatever the priorities of the threads are.             *)
(***************************************************************************)

VARIABLES
  owner,    (* "vice", "ui" or "none"                 *)
  promised  (* the vice thread has let the UI go next *)

TypeOK == owner \in {"vice", "ui", "none"} /\ promised \in BOOLEAN

Init == owner = "none" /\ promised = FALSE

ViceTakes  == owner = "none" /\ ~promised /\ owner' = "vice" /\ UNCHANGED promised
ViceYields == owner = "vice" /\ owner' = "none" /\ UNCHANGED promised
Promise    == owner # "vice" /\ promised' = TRUE /\ UNCHANGED owner
UiTakes    == owner = "none" /\ owner' = "ui" /\ promised' = FALSE
UiReturns  == owner = "ui" /\ owner' = "none" /\ UNCHANGED promised

Next == ViceTakes \/ ViceYields \/ Promise \/ UiTakes \/ UiReturns

Spec == Init /\ [][Next]_<<owner, promised>>
=============================================================================
