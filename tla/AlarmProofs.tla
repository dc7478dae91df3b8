---------------------------- MODULE AlarmProofs -----------------------------
(***************************************************************************)
(* An alarm context of any size implements AlarmQueue.                     *)
(*                                                                         *)
(* The invariant is TypeOK, BackIndices and NextIsEarliest together: none  *)
(* is inductive alone.  alarm_unset() finds its slot by the back index,    *)
(* fills the hole from the last slot, and keeps the cached earliest alarm  *)
(* right only if both the index and the cache were right before.           *)
(***************************************************************************)
EXTENDS Alarm, FiniteSetTheorems, TLAPS

Inv == TypeOK /\ BackIndices /\ NextIsEarliest

USE MaxPendingAssumption, ClockAssumption, NoAlarmAssumption

-----------------------------------------------------------------------------
(* One lemma per table operation: what it does to the invariant. *)

LEMMA AddKeepsInv ==
  ASSUME Inv, NEW a \in alarms, NEW t \in Clock, Add(a, t),
         UNCHANGED <<alarms, cpu>>
  PROVE  Inv'
<1> USE DEF Inv, Add, IsPending, Slots, Clock, cpu
<1>1. TypeOK'
  BY DEF TypeOK
<1>2. BackIndices'
  BY DEF TypeOK, BackIndices, Used
<1>3. NextIsEarliest'
  BY DEF TypeOK, NextIsEarliest, Used
<1> QED
  BY <1>1, <1>2, <1>3

LEMMA ModifyKeepsInv ==
  ASSUME Inv, NEW a \in alarms, NEW t \in Clock, Modify(a, t),
         UNCHANGED <<alarms, cpu>>
  PROVE  Inv'
<1> DEFINE idx == pending_idx[a]
           Entry == [alarm : Alarms \cup {NoAlarm}, clk : Clock]
<1>1. idx \in Used /\ idx \in Slots /\ Used \subseteq Slots
  BY DEF Inv, TypeOK, BackIndices, Modify, IsPending, Used, Slots
<1>2. UNCHANGED <<pending_idx, num_pending_alarms, alarms, cpu>>
  BY DEF Modify
<1>3. pending_alarms' \in [Slots -> Entry]
  BY <1>1 DEF Modify, Inv, TypeOK
<1>4. /\ pending_alarms'[idx].clk = t /\ pending_alarms'[idx].alarm = pending_alarms[idx].alarm
      /\ \A i \in Slots : i # idx => pending_alarms'[i] = pending_alarms[i]
  BY <1>1 DEF Modify, Inv, TypeOK
<1>5. CASE t < next_pending_alarm_clk \/ idx = next_pending_alarm_idx
  <2>1. PICK i \in Used :
          /\ \A j \in Used : pending_alarms'[i].clk <= pending_alarms'[j].clk
          /\ next_pending_alarm_clk' = pending_alarms'[i].clk
          /\ next_pending_alarm_idx' = i
    BY <1>5 DEF Modify, UpdateNext, Used
  <2>2. pending_alarms'[i].clk \in Clock
    BY <2>1, <1>1, <1>3
  <2> QED
    BY <1>1, <1>2, <1>3, <1>4, <2>1, <2>2
       DEF Inv, TypeOK, BackIndices, NextIsEarliest, Used, IsPending, cpu
<1>6. CASE ~(t < next_pending_alarm_clk \/ idx = next_pending_alarm_idx)
  <2>1. UNCHANGED <<next_pending_alarm_clk, next_pending_alarm_idx>>
    BY <1>6 DEF Modify
  <2>2. next_pending_alarm_clk <= t
    BY <1>6 DEF Inv, TypeOK, Clock
  <2> QED
    BY <1>1, <1>2, <1>3, <1>4, <1>6, <2>1, <2>2
       DEF Inv, TypeOK, BackIndices, NextIsEarliest, Used, IsPending, cpu
<1> QED
  BY <1>5, <1>6

LEMMA RemoveLastKeepsInv ==
  ASSUME Inv, NEW a \in alarms, RemoveLast(a), alarms' \in {alarms, alarms \ {a}}, UNCHANGED cpu
  PROVE  Inv'
<1> USE DEF Inv, RemoveLast, IsPending, Slots, Clock, cpu, TypeOK, BackIndices, NextIsEarliest, Used
<1> QED
  OBVIOUS

LEMMA RemoveKeepsInv ==
  ASSUME Inv, NEW a \in alarms, Remove(a), alarms' \in {alarms, alarms \ {a}}, UNCHANGED cpu
  PROVE  Inv'
<1> DEFINE idx   == pending_idx[a]
           last  == num_pending_alarms - 1
           moved == pending_alarms[last].alarm
           Entry == [alarm : Alarms \cup {NoAlarm}, clk : Clock]
<1>1. /\ idx \in Used /\ last \in Used /\ Used \subseteq Slots
      /\ num_pending_alarms \in Nat /\ num_pending_alarms > 1
      /\ pending_alarms[idx].alarm = a
      /\ moved \in alarms /\ pending_idx[moved] = last
  BY DEF Inv, TypeOK, BackIndices, Remove, IsPending, Used, Slots
<1>2. /\ num_pending_alarms' = last /\ Used' = 0 .. last - 1
      /\ pending_alarms' = [pending_alarms EXCEPT ![idx] = pending_alarms[last]]
      /\ pending_idx' = [[pending_idx EXCEPT ![moved] = idx] EXCEPT ![a] = -1]
      /\ UNCHANGED cpu /\ alarms' \in {alarms, alarms \ {a}}
  BY DEF Remove, Used
<1>3. /\ pending_alarms' \in [Slots -> Entry]
      /\ pending_alarms'[idx] = pending_alarms[last]
      /\ \A i \in Slots : i # idx => pending_alarms'[i] = pending_alarms[i]
  BY <1>1, <1>2 DEF Inv, TypeOK
<1>4. /\ pending_idx' \in [Alarms -> Slots \cup {-1}]
      /\ pending_idx'[a] = -1
      /\ \A b \in Alarms : b # a /\ b # moved => pending_idx'[b] = pending_idx[b]
      /\ moved # a => pending_idx'[moved] = idx
  BY <1>1, <1>2 DEF Inv, TypeOK
<1>5. BackIndices'
  <2>1. ASSUME NEW i \in Used'
        PROVE  /\ pending_alarms'[i].alarm \in alarms'
               /\ pending_idx'[pending_alarms'[i].alarm] = i
    <3>1. i \in Used /\ i # last /\ i \in Slots
      BY <1>1, <1>2 DEF Used
    <3>2. CASE i = idx
      BY <1>1, <1>3, <1>4, <3>1, <3>2 DEF Inv, BackIndices
    <3>3. CASE i # idx
      BY <1>1, <1>3, <1>4, <3>1, <3>3 DEF Inv, BackIndices, TypeOK
    <3> QED
      BY <3>2, <3>3
  <2>2. ASSUME NEW b \in Alarms, IsPending(b)'
        PROVE  pending_idx'[b] \in Used' /\ pending_alarms'[pending_idx'[b]].alarm = b
    <3>1. b # a
      BY <1>4, <2>2 DEF IsPending
    <3>2. CASE b = moved
      BY <1>1, <1>2, <1>3, <1>4, <3>1, <3>2 DEF Used
    <3>3. CASE b # moved
      BY <1>1, <1>2, <1>3, <1>4, <3>1, <3>3, <2>2 DEF Inv, BackIndices, Used, IsPending
    <3> QED
      BY <3>2, <3>3
  <2> QED
    BY <1>2, <2>1, <2>2 DEF BackIndices
<1>6. CASE next_pending_alarm_idx = idx
  <2>1. PICK i \in Used' :
          /\ \A j \in Used' : pending_alarms'[i].clk <= pending_alarms'[j].clk
          /\ next_pending_alarm_clk' = pending_alarms'[i].clk
          /\ next_pending_alarm_idx' = i
    BY <1>2, <1>6 DEF Remove, UpdateNext
  <2>2. i \in Slots /\ pending_alarms'[i].clk \in Clock
    BY <1>1, <1>2, <1>3, <2>1 DEF Used
  <2>3. TypeOK'
    BY <1>1, <1>2, <1>3, <1>4, <2>1, <2>2 DEF Inv, TypeOK, Used, cpu
  <2>4. NextIsEarliest'
    BY <2>1, <2>2 DEF NextIsEarliest
  <2> QED
    BY <1>5, <2>3, <2>4 DEF Inv
<1>7. CASE next_pending_alarm_idx # idx
  <2>1. /\ next_pending_alarm_clk' = next_pending_alarm_clk
        /\ next_pending_alarm_idx' = IF next_pending_alarm_idx = last THEN idx ELSE next_pending_alarm_idx
    BY <1>7 DEF Remove
  <2>2. TypeOK'
    BY <1>1, <1>2, <1>3, <1>4, <2>1 DEF Inv, TypeOK, Used, cpu
  <2>3. \A i \in Used' : next_pending_alarm_clk' <= pending_alarms'[i].clk
    BY <1>1, <1>2, <1>3, <2>1 DEF Inv, NextIsEarliest, Used
  <2>4. ASSUME next_pending_alarm_clk < CLOCK_MAX
        PROVE  /\ next_pending_alarm_idx' \in Used'
               /\ pending_alarms'[next_pending_alarm_idx'].clk = next_pending_alarm_clk
    <3>1. /\ next_pending_alarm_idx \in Used
          /\ pending_alarms[next_pending_alarm_idx].clk = next_pending_alarm_clk
      BY <2>4 DEF Inv, NextIsEarliest
    <3>2. CASE next_pending_alarm_idx = last
      BY <1>1, <1>2, <1>3, <1>7, <2>1, <3>1, <3>2 DEF Used
    <3>3. CASE next_pending_alarm_idx # last
      BY <1>1, <1>2, <1>3, <1>7, <2>1, <3>1, <3>3 DEF Used
    <3> QED
      BY <3>2, <3>3
  <2> QED
    BY <1>5, <2>1, <2>2, <2>3, <2>4 DEF Inv, NextIsEarliest
<1> QED
  BY <1>6, <1>7

-----------------------------------------------------------------------------
(* The operations keep the invariant, whoever calls them. *)
LEMMA SetKeepsInv ==
  ASSUME Inv, NEW a \in Alarms, NEW t \in Clock, Set(a, t)
  PROVE  Inv'
<1>1. a \in alarms /\ UNCHANGED <<alarms, cpu>> /\ alarm_set(a, t)
  BY DEF Set
<1>2. CASE Add(a, t)
  BY <1>1, <1>2, AddKeepsInv
<1>3. CASE Refuse(a)
  BY <1>1, <1>3 DEF Refuse, context, cpu, Inv, TypeOK, BackIndices, NextIsEarliest, Used, IsPending
<1>4. CASE Modify(a, t)
  BY <1>1, <1>4, ModifyKeepsInv
<1> QED
  BY <1>1, <1>2, <1>3, <1>4 DEF alarm_set

LEMMA UnsetKeepsInv ==
  ASSUME Inv, NEW a \in alarms, alarm_unset(a), alarms' \in {alarms, alarms \ {a}}, UNCHANGED cpu
  PROVE  Inv'
<1>1. CASE ~IsPending(a) /\ UNCHANGED context
  BY <1>1 DEF context, cpu, Inv, TypeOK, BackIndices, NextIsEarliest, Used, IsPending
<1>2. CASE RemoveLast(a)
  BY <1>2, RemoveLastKeepsInv
<1>3. CASE Remove(a)
  BY <1>3, RemoveKeepsInv
<1> QED
  BY <1>1, <1>2, <1>3 DEF alarm_unset

LEMMA InvInit == Init => Inv
<1> SUFFICES ASSUME Init PROVE Inv
  OBVIOUS
<1>1. TypeOK
  BY DEF Init, TypeOK, Slots, Clock
<1>2. BackIndices /\ NextIsEarliest
  BY DEF Init, BackIndices, NextIsEarliest, Used, IsPending
<1> QED
  BY <1>1, <1>2 DEF Inv

LEMMA InvStep == Inv /\ [Next]_vars => Inv'
<1> SUFFICES ASSUME Inv, [Next]_vars PROVE Inv'
  OBVIOUS
<1>1. ASSUME NEW a \in Alarms, New(a) PROVE Inv'
  <2>1. pending_idx' = [pending_idx EXCEPT ![a] = -1] /\ alarms' = alarms \cup {a} /\ a \notin alarms
        /\ UNCHANGED <<pending_alarms, num_pending_alarms, next_pending_alarm_clk, next_pending_alarm_idx, cpu>>
    BY <1>1 DEF New
  <2>2. TypeOK'
    BY <2>1 DEF Inv, TypeOK, cpu
  <2>3. BackIndices'
    BY <2>1 DEF Inv, TypeOK, BackIndices, Used, IsPending
  <2>4. NextIsEarliest'
    BY <2>1 DEF Inv, NextIsEarliest, Used
  <2> QED
    BY <2>2, <2>3, <2>4 DEF Inv
<1>2. ASSUME NEW a \in Alarms, NEW t \in Clock, Set(a, t) PROVE Inv'
  BY <1>2, SetKeepsInv
<1>3. ASSUME NEW a \in Alarms, Unset(a) PROVE Inv'
  BY <1>3, UnsetKeepsInv DEF Unset
<1>4. ASSUME NEW a \in Alarms, Destroy(a) PROVE Inv'
  BY <1>4, UnsetKeepsInv DEF Destroy
<1>5. ASSUME NEW t \in 0 .. CLOCK_MAX - 1, Execute(t) PROVE Inv'
  BY <1>5 DEF Execute, context, Inv, TypeOK, BackIndices, NextIsEarliest, Used, IsPending
<1>6. CASE Dispatch
  <2>1. next_pending_alarm_clk < CLOCK_MAX
    BY <1>6 DEF Dispatch, Inv, TypeOK, Clock
  <2>2. running' \in Alarms
    BY <1>6, <2>1 DEF Dispatch, Inv, TypeOK, BackIndices, NextIsEarliest
  <2> QED
    BY <1>6, <2>2 DEF Dispatch, context, Inv, TypeOK, BackIndices, NextIsEarliest, Used, IsPending
<1>7. CASE Return
  BY <1>7 DEF Return, context, Inv, TypeOK, BackIndices, NextIsEarliest, Used, IsPending, Clock
<1>8. CASE Resume
  BY <1>8 DEF Resume, context, Inv, TypeOK, BackIndices, NextIsEarliest, Used, IsPending
<1>9. CASE UNCHANGED vars
  BY <1>9 DEF vars, context, cpu, Inv, TypeOK, BackIndices, NextIsEarliest, Used, IsPending
<1> QED
  BY <1>1, <1>2, <1>3, <1>4, <1>5, <1>6, <1>7, <1>8, <1>9 DEF Next

LEMMA InvAlways == Spec => []Inv
BY InvInit, InvStep, PTL DEF Spec

(* Every variable stays in its range. *)
THEOREM TypeCorrect == Spec => []TypeOK
<1>1. Inv => TypeOK
  BY DEF Inv
<1> QED
  BY <1>1, InvAlways, PTL

(* An alarm has at most one slot, and no slot names a destroyed alarm. *)
THEOREM IndicesMirror == Spec => []BackIndices
<1>1. Inv => BackIndices
  BY DEF Inv
<1> QED
  BY <1>1, InvAlways, PTL

(* The time the CPU compares its clock with is that of an earliest alarm. *)
THEOREM CacheIsEarliest == Spec => []NextIsEarliest
<1>1. Inv => NextIsEarliest
  BY DEF Inv
<1> QED
  BY <1>1, InvAlways, PTL

-----------------------------------------------------------------------------
(* The refinement: a table of any size keeps the promise of AlarmQueue. *)

DueTimes == [a \in Alarms |-> IF IsPending(a) THEN DueOf(a) ELSE -1]

(* The used slots number the pending alarms, so the table is full exactly    *)
(* when as many alarms are pending as it has slots.                          *)
LEMMA PendingCount ==
  ASSUME Inv
  PROVE  /\ Queue!Pending = {a \in Alarms : IsPending(a)}
         /\ Cardinality(Queue!Pending) = num_pending_alarms
<1> DEFINE P == {a \in Alarms : IsPending(a)}
           f == [i \in Used |-> pending_alarms[i].alarm]
<1>1. Queue!Pending = P
  BY DEF Queue!Pending, Inv, TypeOK, BackIndices, IsPending, DueOf, Used, Slots, Clock
<1>2. f \in Bijection(Used, P)
  <2>1. f \in [Used -> P]
    BY DEF Inv, TypeOK, BackIndices, IsPending, Used
  <2>2. \A i, j \in Used : f[i] = f[j] => i = j
    BY DEF Inv, BackIndices
  <2>3. \A a \in P : \E i \in Used : f[i] = a
    BY DEF Inv, BackIndices
  <2> QED
    BY <2>1, <2>2, <2>3 DEF Bijection, Injection, Surjection, IsInjective
<1>3. IsFiniteSet(Used) /\ Cardinality(Used) = num_pending_alarms
  <2>1. num_pending_alarms \in Nat
    BY DEF Inv, TypeOK
  <2> QED
    BY <2>1, FS_Interval DEF Used
<1>4. Cardinality(P) = num_pending_alarms
  BY <1>2, <1>3, FS_Bijection DEF ExistsBijection
<1> QED
  BY <1>1, <1>4

LEMMA SetSimulates ==
  ASSUME Inv, NEW a \in Alarms, NEW t \in Clock, Set(a, t)
  PROVE  Queue!Set(a, t) \/ UNCHANGED Queue!vars
<1>1. a \in alarms /\ alarm_set(a, t) /\ UNCHANGED cpu
  BY DEF Set
<1>2. CASE Add(a, t)
  <2>1. Queue!Cardinality(Queue!Pending) < MaxPending
    BY <1>2, PendingCount DEF Add, Cardinality, Queue!Cardinality
  <2>2. ASSUME NEW b \in Alarms
        PROVE  DueTimes'[b] = [DueTimes EXCEPT ![a] = t][b]
    <3>1. CASE b = a
      BY <1>2, <3>1 DEF Add, DueTimes, Inv, TypeOK, IsPending, DueOf, Slots
    <3>2. CASE b # a
      <4>1. pending_idx'[b] = pending_idx[b]
        BY <1>2, <3>2 DEF Add, Inv, TypeOK
      <4>2. IsPending(b) => pending_alarms'[pending_idx[b]] = pending_alarms[pending_idx[b]]
        BY <1>2 DEF Add, Inv, TypeOK, BackIndices, IsPending, Used, Slots
      <4> QED
        BY <3>2, <4>1, <4>2 DEF DueTimes, IsPending, DueOf
    <3> QED
      BY <3>1, <3>2
  <2>3. DueTimes' = [DueTimes EXCEPT ![a] = t]
    BY <2>2 DEF DueTimes
  <2> QED
    BY <1>1, <2>1, <2>3, Zenon DEF Queue!Set, DueTimes, cpu
<1>3. CASE Refuse(a)
  BY <1>1, <1>3 DEF Refuse, context, cpu, Queue!vars, IsPending, DueOf
<1>4. CASE Modify(a, t)
  <2>1. a \in Queue!Pending
    BY <1>4, PendingCount DEF Modify
  <2>2. pending_idx' = pending_idx /\ pending_idx[a] \in Slots
        /\ pending_alarms' = [pending_alarms EXCEPT ![pending_idx[a]].clk = t]
    BY <1>4 DEF Modify, Inv, TypeOK, IsPending, Slots
  <2>3. ASSUME NEW b \in Alarms, b # a, IsPending(b)
        PROVE  pending_alarms'[pending_idx[b]] = pending_alarms[pending_idx[b]]
    <3>1. pending_idx[b] # pending_idx[a] /\ pending_idx[b] \in Slots
      BY <1>4, <2>3 DEF Modify, Inv, TypeOK, BackIndices, IsPending, Slots
    <3> QED
      BY <2>2, <3>1 DEF Inv, TypeOK
  <2>4. pending_alarms'[pending_idx[a]].clk = t
    BY <2>2 DEF Inv, TypeOK
  <2>5. DueTimes' = [DueTimes EXCEPT ![a] = t]
    BY <1>4, <2>2, <2>3, <2>4 DEF Modify, DueTimes, IsPending, DueOf
  <2> QED
    BY <1>1, <2>1, <2>5, Zenon DEF Queue!Set, DueTimes, cpu
<1> QED
  BY <1>1, <1>2, <1>3, <1>4 DEF alarm_set

LEMMA UnsetSimulates ==
  ASSUME Inv, NEW a \in alarms, alarm_unset(a), UNCHANGED cpu
  PROVE  Queue!Unset(a)
<1> SUFFICES DueTimes' = [DueTimes EXCEPT ![a] = -1]
  BY DEF Queue!Unset, DueTimes, cpu
<1>1. CASE ~IsPending(a) /\ UNCHANGED context
  BY <1>1 DEF context, DueTimes, IsPending, DueOf
<1>2. CASE RemoveLast(a)
  <2>1. ASSUME NEW b \in Alarms, b # a
        PROVE  ~IsPending(b)
    BY <1>2, <2>1 DEF RemoveLast, Inv, TypeOK, BackIndices, IsPending, Used
  <2>2. pending_idx' = [pending_idx EXCEPT ![a] = -1]
    BY <1>2 DEF RemoveLast
  <2>3. ASSUME NEW b \in Alarms
        PROVE  ~IsPending(b)'
    BY <2>1, <2>2 DEF IsPending, Inv, TypeOK
  <2> QED
    BY <2>1, <2>3 DEF DueTimes
<1>3. CASE Remove(a)
  <2> DEFINE idx   == pending_idx[a]
             last  == num_pending_alarms - 1
             moved == pending_alarms[last].alarm
  <2>1. /\ idx \in Slots /\ last \in Slots
        /\ moved \in alarms /\ pending_idx[moved] = last
    BY <1>3 DEF Remove, Inv, TypeOK, BackIndices, IsPending, Used, Slots
  <2>2. /\ pending_alarms' = [pending_alarms EXCEPT ![idx] = pending_alarms[last]]
        /\ pending_idx' = [[pending_idx EXCEPT ![moved] = idx] EXCEPT ![a] = -1]
    BY <1>3 DEF Remove
  <2>3. ASSUME NEW b \in Alarms, b # a
        PROVE  DueTimes'[b] = DueTimes[b]
    <3>1. CASE b = moved
      BY <2>1, <2>2, <2>3, <3>1 DEF DueTimes, Inv, TypeOK, IsPending, DueOf, Slots
    <3>2. CASE b # moved
      <4>1. pending_idx'[b] = pending_idx[b]
        BY <2>1, <2>2, <2>3, <3>2 DEF Inv, TypeOK
      <4>2. IsPending(b) => pending_idx[b] # idx
        BY <1>3, <2>3 DEF Inv, TypeOK, BackIndices, Remove, IsPending
      <4>3. IsPending(b) => pending_alarms'[pending_idx[b]] = pending_alarms[pending_idx[b]]
        BY <2>1, <2>2, <4>2 DEF Inv, TypeOK, BackIndices, IsPending, Slots
      <4> QED
        BY <4>1, <4>3 DEF DueTimes, IsPending, DueOf
    <3> QED
      BY <3>1, <3>2
  <2>4. DueTimes'[a] = -1
    BY <2>1, <2>2 DEF DueTimes, Inv, TypeOK, IsPending
  <2> QED
    BY <2>3, <2>4 DEF DueTimes
<1> QED
  BY <1>1, <1>2, <1>3 DEF alarm_unset

(* No callback runs while the CPU or its poll loop does. *)
CallbackPlace == pc # "callback" => running = NoAlarm

LEMMA CallbackPlaceAlways == Spec => []CallbackPlace
<1>1. Init => CallbackPlace
  BY DEF Init, CallbackPlace
<1>2. CallbackPlace /\ [Next]_vars => CallbackPlace'
  BY DEF CallbackPlace, Next, vars, cpu, New, Set, Unset, Destroy, Execute, Dispatch, Return, Resume
<1> QED
  BY <1>1, <1>2, PTL DEF Spec

LEMMA StepSimulation ==
  Inv /\ CallbackPlace /\ [Next]_vars => [Queue!Next]_(Queue!vars)
<1> SUFFICES ASSUME Inv, CallbackPlace, [Next]_vars PROVE Queue!Next \/ UNCHANGED Queue!vars
  OBVIOUS
<1>1. ASSUME NEW a \in Alarms, New(a) PROVE UNCHANGED Queue!vars
  <2>1. DueTimes' = DueTimes
    BY <1>1 DEF New, DueTimes, Inv, TypeOK, BackIndices, IsPending, DueOf
  <2> QED
    BY <1>1, <2>1 DEF New, DueTimes, Queue!vars, cpu
<1>2. ASSUME NEW a \in Alarms, NEW t \in Clock, Set(a, t)
      PROVE  Queue!Next \/ UNCHANGED Queue!vars
  BY <1>2, SetSimulates DEF Queue!Next
<1>3. ASSUME NEW a \in Alarms, Unset(a) PROVE Queue!Next
  BY <1>3, UnsetSimulates DEF Unset, Queue!Next
<1>4. ASSUME NEW a \in Alarms, Destroy(a) PROVE Queue!Next
  BY <1>4, UnsetSimulates DEF Destroy, Queue!Next
<1>5. ASSUME NEW t \in 0 .. CLOCK_MAX - 1, Execute(t) PROVE Queue!Next
  <2>1. DueTimes' = DueTimes
    BY <1>5 DEF Execute, context, DueTimes, IsPending, DueOf
  <2> QED
    BY <1>5, <2>1 DEF Execute, DueTimes, Queue!Next, Queue!Execute, Clock
<1>6. CASE Dispatch
  <2>1. DueTimes' = DueTimes
    BY <1>6 DEF Dispatch, context, DueTimes, IsPending, DueOf
  <2> DEFINE a == pending_alarms[next_pending_alarm_idx].alarm
  <2>2. next_pending_alarm_clk < CLOCK_MAX
    BY <1>6 DEF Dispatch, Inv, TypeOK, Clock
  <2>3. /\ a \in Alarms /\ IsPending(a)
        /\ DueOf(a) = next_pending_alarm_clk
    BY <2>2 DEF Inv, TypeOK, BackIndices, NextIsEarliest, IsPending, DueOf, Used, Slots
  <2>4. \A b \in Alarms : IsPending(b) => next_pending_alarm_clk <= DueOf(b)
    BY DEF Inv, BackIndices, NextIsEarliest, DueOf
  <2>5. running = NoAlarm
    BY <1>6 DEF Dispatch, CallbackPlace
  <2>6. Queue!Call(a)
    BY <1>6, <2>1, <2>3, <2>4, <2>5, PendingCount DEF Dispatch, DueTimes, Queue!Call
  <2> QED
    BY <2>3, <2>6 DEF Queue!Next
<1>7. CASE Return
  <2>1. DueTimes' = DueTimes
    BY <1>7 DEF Return, context, DueTimes, IsPending, DueOf
  <2> QED
    BY <1>7, <2>1 DEF Return, DueTimes, Queue!Next, Queue!Return
<1>8. CASE Resume
  <2>1. DueTimes' = DueTimes
    BY <1>8 DEF Resume, context, DueTimes, IsPending, DueOf
  <2>2. \A a \in Alarms : IsPending(a) => DueOf(a) > clk
    BY <1>8 DEF Resume, Inv, TypeOK, BackIndices, NextIsEarliest, DueOf, Used, Slots, Clock
  <2> QED
    BY <1>8, <2>1, <2>2, PendingCount
       DEF Resume, CallbackPlace, DueTimes, context, Queue!Next, Queue!Resume
<1>9. CASE UNCHANGED vars
  BY <1>9 DEF vars, context, cpu, Queue!vars, IsPending, DueOf
<1> QED
  BY <1>1, <1>2, <1>3, <1>4, <1>5, <1>6, <1>7, <1>8, <1>9 DEF Next

THEOREM ContextImplementsAlarmQueue == Spec => ImplementsAlarmQueue
<1>1. Init => Queue!Init
  BY DEF Init, Queue!Init, IsPending
<1> QED
  BY <1>1, InvAlways, CallbackPlaceAlways, StepSimulation, PTL DEF Spec, ImplementsAlarmQueue, Queue!Spec
=============================================================================
