----------------------------- MODULE AlarmQueue -----------------------------
(***************************************************************************)
(* What an alarm context promises the emulation: alarms have due times;    *)
(* between two instructions every alarm that is due is called, the         *)
(* earliest first, and the CPU goes on only when none is due.              *)
(***************************************************************************)
EXTENDS Naturals, FiniteSets

CONSTANTS
  Alarms,    (* the alarms of the context                    *)
  Capacity,  (* how many can be pending at once              *)
  Times,     (* the times an alarm can be set to             *)
  NotSet,    (* the due time of an alarm that is not pending *)
  Nobody     (* no alarm                                     *)

VARIABLES
  due,     (* due[a], when alarm a is to be called *)
  now,     (* the CPU clock                        *)
  calling, (* the alarm whose callback runs        *)
  serving  (* whether alarms are being polled      *)

vars == <<due, now, calling, serving>>

Pending == {a \in Alarms : due[a] # NotSet}

Init ==
  /\ due = [a \in Alarms |-> NotSet]
  /\ now = 0
  /\ calling = Nobody
  /\ serving = FALSE

(* An alarm that is not pending yet needs room in the table. *)
Set(a, t) ==
  /\ a \in Pending \/ Cardinality(Pending) < Capacity
  /\ due' = [due EXCEPT ![a] = t]
  /\ UNCHANGED <<now, calling, serving>>

Unset(a) ==
  /\ due' = [due EXCEPT ![a] = NotSet]
  /\ UNCHANGED <<now, calling, serving>>

Execute ==
  /\ ~serving
  /\ now' \in {n \in Times : n >= now}
  /\ serving' = TRUE
  /\ UNCHANGED <<due, calling>>

Call(a) ==
  /\ serving /\ calling = Nobody
  /\ a \in Pending /\ due[a] <= now
  /\ \A b \in Pending : due[a] <= due[b]
  /\ calling' = a
  /\ UNCHANGED <<due, now, serving>>

Return ==
  /\ calling' = Nobody
  /\ UNCHANGED <<due, now, serving>>

Resume ==
  /\ serving /\ calling = Nobody
  /\ \A a \in Pending : due[a] > now
  /\ serving' = FALSE
  /\ UNCHANGED <<due, now, calling>>

Next ==
  \/ \E a \in Alarms : Unset(a) \/ Call(a) \/ \E t \in Times : Set(a, t)
  \/ Execute \/ Return \/ Resume

Spec == Init /\ [][Next]_vars
=============================================================================
