------------------------------- MODULE Alarm --------------------------------
(***************************************************************************)
(* An alarm context (alarm.c, alarm.h) and the CPU that polls it.          *)
(*                                                                         *)
(* Pending alarms are kept in a dense, unordered table; each alarm knows   *)
(* its slot, and the context caches the earliest due time and its slot so  *)
(* that the CPU loop only compares two numbers.  Slots past the last used  *)
(* one keep what was last written to them.                                 *)
(*                                                                         *)
(* The context is a C object and any code of the vice thread may call it:  *)
(* the CPU through a store to an I/O register, or an alarm callback, from  *)
(* which the raster code also lets the UI thread in.  alarm_context_init() *)
(* leaves next_pending_alarm_idx unset, so it starts anywhere.             *)
(***************************************************************************)
EXTENDS Integers, FiniteSets

CONSTANTS
  Alarms,       (* the alarm objects code can create                          *)
  MaxPending,   (* ALARM_CONTEXT_MAX_PENDING_ALARMS                           *)
  CLOCK_MAX,    (* the largest CLOCK                                          *)
  NoAlarm

ASSUME MaxPendingAssumption == MaxPending \in Nat \ {0}
ASSUME ClockAssumption == CLOCK_MAX \in Nat \ {0}
ASSUME NoAlarmAssumption == NoAlarm \notin Alarms

Slots == 0 .. MaxPending - 1
Clock == 0 .. CLOCK_MAX

VARIABLES
  alarms,                  (* alarms that exist: alarm_new(), not yet destroyed *)
  pending_idx,             (* per alarm its slot, -1 when it is not pending     *)
  pending_alarms,          (* the table                                         *)
  num_pending_alarms,
  next_pending_alarm_clk,
  next_pending_alarm_idx,
  clk,                     (* the CPU clock                                     *)
  pc,                      (* "cpu", "poll" or "callback"                       *)
  running,                 (* the alarm whose callback runs                     *)
  due                      (* the time that alarm was due at                    *)

context == <<pending_idx, pending_alarms, num_pending_alarms,
             next_pending_alarm_clk, next_pending_alarm_idx>>
cpu     == <<clk, pc, running, due>>
vars    == <<alarms, context, cpu>>

Used      == 0 .. num_pending_alarms - 1
IsPending(a) == pending_idx[a] >= 0
DueOf(a)     == pending_alarms[pending_idx[a]].clk

Init ==
  /\ alarms = {}
  /\ pending_idx = [a \in Alarms |-> -1]
  /\ pending_alarms = [i \in Slots |-> [alarm |-> NoAlarm, clk |-> 0]]
  /\ num_pending_alarms = 0
  /\ next_pending_alarm_clk = CLOCK_MAX
  /\ next_pending_alarm_idx \in Slots \cup {-1}
  /\ clk = 0
  /\ pc = "cpu"
  /\ running = NoAlarm
  /\ due = 0

-----------------------------------------------------------------------------
(* alarm_context_update_next_pending(): of several earliest alarms the scan  *)
(* keeps the last slot.                                                      *)
UpdateNext(table, count) ==
  \E i \in 0 .. count - 1 :
    /\ \A j \in 0 .. count - 1 : table[i].clk <= table[j].clk
    /\ \A j \in i + 1 .. count - 1 : table[i].clk < table[j].clk
    /\ next_pending_alarm_clk' = table[i].clk
    /\ next_pending_alarm_idx' = i

(* Mutation: the cached earliest time is left alone. *)
Add_KeepsNext(a, t) ==
  /\ ~IsPending(a)
  /\ num_pending_alarms < MaxPending
  /\ pending_alarms' = [pending_alarms EXCEPT ![num_pending_alarms] = [alarm |-> a, clk |-> t]]
  /\ num_pending_alarms' = num_pending_alarms + 1
  /\ pending_idx' = [pending_idx EXCEPT ![a] = num_pending_alarms]
  /\ UNCHANGED <<next_pending_alarm_clk, next_pending_alarm_idx>>

(* alarm_set() of an alarm that is not pending. *)
Add(a, t) ==
  /\ ~IsPending(a)
  /\ num_pending_alarms < MaxPending
  /\ pending_alarms' = [pending_alarms EXCEPT ![num_pending_alarms] = [alarm |-> a, clk |-> t]]
  /\ num_pending_alarms' = num_pending_alarms + 1
  /\ pending_idx' = [pending_idx EXCEPT ![a] = num_pending_alarms]
  /\ IF t < next_pending_alarm_clk
       THEN /\ next_pending_alarm_clk' = t
            /\ next_pending_alarm_idx' = num_pending_alarms
       ELSE UNCHANGED <<next_pending_alarm_clk, next_pending_alarm_idx>>

(* A full table: the call is logged and dropped. *)
Refuse(a) ==
  /\ ~IsPending(a)
  /\ num_pending_alarms = MaxPending
  /\ UNCHANGED context

(* Mutation: only an earlier time moves the cached one. *)
Modify_OnlyEarlier(a, t) ==
  /\ IsPending(a)
  /\ pending_alarms' = [pending_alarms EXCEPT ![pending_idx[a]].clk = t]
  /\ UNCHANGED <<pending_idx, num_pending_alarms>>
  /\ IF t < next_pending_alarm_clk
       THEN UpdateNext(pending_alarms', num_pending_alarms)
       ELSE UNCHANGED <<next_pending_alarm_clk, next_pending_alarm_idx>>

(* alarm_set() of a pending alarm. *)
Modify(a, t) ==
  /\ IsPending(a)
  /\ pending_alarms' = [pending_alarms EXCEPT ![pending_idx[a]].clk = t]
  /\ UNCHANGED <<pending_idx, num_pending_alarms>>
  /\ IF t < next_pending_alarm_clk \/ pending_idx[a] = next_pending_alarm_idx
       THEN UpdateNext(pending_alarms', num_pending_alarms)
       ELSE UNCHANGED <<next_pending_alarm_clk, next_pending_alarm_idx>>

alarm_set(a, t) == Add(a, t) \/ Refuse(a) \/ Modify(a, t)

(* alarm_unset(): the last slot moves into the hole. *)
RemoveLast(a) ==
  /\ IsPending(a)
  /\ num_pending_alarms <= 1
  /\ num_pending_alarms' = 0
  /\ next_pending_alarm_clk' = CLOCK_MAX
  /\ next_pending_alarm_idx' = -1
  /\ pending_idx' = [pending_idx EXCEPT ![a] = -1]
  /\ UNCHANGED pending_alarms

(* Mutation: the cached slot does not follow the alarm that moved. *)
Remove_KeepsSlot(a) ==
  /\ IsPending(a)
  /\ num_pending_alarms > 1
  /\ LET idx   == pending_idx[a]
         last  == num_pending_alarms - 1
         moved == pending_alarms[last].alarm
     IN  /\ num_pending_alarms' = last
         /\ pending_alarms' = [pending_alarms EXCEPT ![idx] = pending_alarms[last]]
         /\ pending_idx' = [[pending_idx EXCEPT ![moved] = idx] EXCEPT ![a] = -1]
         /\ UNCHANGED <<next_pending_alarm_clk, next_pending_alarm_idx>>

Remove(a) ==
  /\ IsPending(a)
  /\ num_pending_alarms > 1
  /\ LET idx   == pending_idx[a]
         last  == num_pending_alarms - 1
         moved == pending_alarms[last].alarm
     IN  /\ num_pending_alarms' = last
         /\ pending_alarms' = [pending_alarms EXCEPT ![idx] = pending_alarms[last]]
         /\ pending_idx' = [[pending_idx EXCEPT ![moved] = idx] EXCEPT ![a] = -1]
         /\ \/ /\ next_pending_alarm_idx = idx
               /\ UpdateNext(pending_alarms', last)
            \/ /\ next_pending_alarm_idx = last /\ idx # last
               /\ next_pending_alarm_idx' = idx
               /\ UNCHANGED next_pending_alarm_clk
            \/ /\ next_pending_alarm_idx \notin {idx, last}
               /\ UNCHANGED <<next_pending_alarm_clk, next_pending_alarm_idx>>

alarm_unset(a) ==
  \/ ~IsPending(a) /\ UNCHANGED context
  \/ RemoveLast(a)
  \/ Remove(a)

-----------------------------------------------------------------------------
(* The callers.  Code runs in the CPU or in a callback, never while the poll *)
(* loop of the CPU is between two calls.                                     *)
CodeRuns == pc \in {"cpu", "callback"}

New(a) ==
  /\ CodeRuns /\ a \notin alarms
  /\ alarms' = alarms \cup {a}
  /\ pending_idx' = [pending_idx EXCEPT ![a] = -1]
  /\ UNCHANGED <<pending_alarms, num_pending_alarms,
                 next_pending_alarm_clk, next_pending_alarm_idx, cpu>>

(* A callback may set any alarm to any time: that of the event log sets its  *)
(* own one again to the same clock when the next event shares it.            *)
Set(a, t) ==
  /\ CodeRuns /\ a \in alarms
  /\ alarm_set(a, t)
  /\ UNCHANGED <<alarms, cpu>>

Unset(a) ==
  /\ CodeRuns /\ a \in alarms
  /\ alarm_unset(a)
  /\ UNCHANGED <<alarms, cpu>>

Destroy(a) ==
  /\ CodeRuns /\ a \in alarms
  /\ alarm_unset(a)
  /\ alarms' = alarms \ {a}
  /\ UNCHANGED cpu

(* The CPU executes up to its next look at the alarms. *)
Execute(t) ==
  /\ pc = "cpu" /\ t >= clk
  /\ clk' = t
  /\ pc' = "poll"
  /\ UNCHANGED <<alarms, context, running, due>>

(* PROCESS_ALARMS: while (CLK >= next_pending_clk) alarm_context_dispatch(). *)
Dispatch ==
  /\ pc = "poll" /\ clk >= next_pending_alarm_clk
  /\ running' = pending_alarms[next_pending_alarm_idx].alarm
  /\ due' = next_pending_alarm_clk
  /\ pc' = "callback"
  /\ UNCHANGED <<alarms, context, clk>>

(* The poll loop calls a callback again that leaves its alarm where it was.  *)
Return ==
  /\ pc = "callback"
  /\ pc' = "poll"
  /\ running' = NoAlarm
  /\ due' = 0
  /\ UNCHANGED <<alarms, context, clk>>

Resume ==
  /\ pc = "poll" /\ clk < next_pending_alarm_clk
  /\ pc' = "cpu"
  /\ UNCHANGED <<alarms, context, clk, running, due>>

Next ==
  \/ \E a \in Alarms : New(a) \/ Unset(a) \/ Destroy(a)
  \/ \E a \in Alarms, t \in Clock : Set(a, t)
  \/ \E t \in 0 .. CLOCK_MAX - 1 : Execute(t)
  \/ Dispatch \/ Return \/ Resume

Spec == Init /\ [][Next]_vars

(***************************************************************************)
(* The CPU keeps executing, its poll loop runs to its end, and callbacks   *)
(* return.  One that is called again and again sees to its own alarm each  *)
(* time: it takes it back or puts it off.  It may then set an alarm to the *)
(* time it was due at, or to an earlier one, but not for ever in one poll: *)
(* the events of one clock, which do so, come to an end.                   *)
(***************************************************************************)
SeesToOwnAlarm(a) ==
  /\ pc = "callback" /\ running = a
  /\ Unset(a) \/ \E t \in due + 1 .. CLOCK_MAX : Set(a, t)

Repeats == pc = "callback" /\ \E a \in Alarms, t \in 0 .. due : Set(a, t)

RepeatsEnd == []<>(pc = "cpu") \/ <>[][~Repeats]_vars

Fairness ==
  /\ WF_vars(\E t \in 0 .. CLOCK_MAX - 1 : Execute(t))
  /\ WF_vars(Dispatch) /\ WF_vars(Return) /\ WF_vars(Resume)
  /\ \A a \in Alarms : SF_vars(SeesToOwnAlarm(a))
  /\ RepeatsEnd

FairSpec == Spec /\ Fairness

-----------------------------------------------------------------------------
(* Every variable stays in its range; the CPU clock has not reached CLOCK_MAX. *)
TypeOK ==
  /\ alarms \subseteq Alarms
  /\ pending_idx \in [Alarms -> Slots \cup {-1}]
  /\ pending_alarms \in [Slots -> [alarm : Alarms \cup {NoAlarm}, clk : Clock]]
  /\ num_pending_alarms \in 0 .. MaxPending
  /\ next_pending_alarm_clk \in Clock
  /\ next_pending_alarm_idx \in Slots \cup {-1}
  /\ clk \in 0 .. CLOCK_MAX - 1
  /\ pc \in {"cpu", "poll", "callback"}
  /\ running \in Alarms \cup {NoAlarm}
  /\ due \in Clock

(* The used slots and the back indices of the alarms mirror each other, so   *)
(* that an alarm has at most one slot and no slot names a destroyed alarm.   *)
BackIndices ==
  /\ \A i \in Used : /\ pending_alarms[i].alarm \in alarms
                     /\ pending_idx[pending_alarms[i].alarm] = i
  /\ \A a \in Alarms : IsPending(a) => /\ pending_idx[a] \in Used
                                       /\ pending_alarms[pending_idx[a]].alarm = a

(* The cached time is that of an earliest pending alarm, and CLOCK_MAX when  *)
(* none is pending: the CPU, which looks at nothing else, misses none.       *)
NextIsEarliest ==
  /\ \A i \in Used : next_pending_alarm_clk <= pending_alarms[i].clk
  /\ next_pending_alarm_clk < CLOCK_MAX =>
       /\ next_pending_alarm_idx \in Used
       /\ pending_alarms[next_pending_alarm_idx].clk = next_pending_alarm_clk

(* The context implements the promise of AlarmQueue. *)
Queue == INSTANCE AlarmQueue WITH
           Capacity <- MaxPending,
           Times    <- Clock,
           NotSet   <- -1,
           Nobody   <- NoAlarm,
           due      <- [a \in Alarms |-> IF IsPending(a) THEN DueOf(a) ELSE -1],
           now      <- clk,
           calling  <- running,
           serving  <- pc # "cpu"

ImplementsAlarmQueue == Queue!Spec

(* An alarm that is due is called, unless somebody puts it off or takes it   *)
(* back first: the alarms that callbacks set during the poll, to the same    *)
(* time or to an earlier one, and those that the last slot is moved to, do   *)
(* not make it wait for ever.                                                *)
DueAlarmsServed ==
  \A a \in Alarms :
    (IsPending(a) /\ DueOf(a) <= clk) ~> (running = a \/ ~(IsPending(a) /\ DueOf(a) <= clk))
=============================================================================
