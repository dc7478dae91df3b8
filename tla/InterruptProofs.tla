-------------------------- MODULE InterruptProofs ---------------------------
(***************************************************************************)
(* The counts, the flags and the vectors are right for any number of chips.*)
(*                                                                         *)
(* Each property needs where the loop is: the flags that were polled are   *)
(* still those of the line when the sequence is entered, a snapshot leaves *)
(* its module only with every line restored or a reset triggered, and that *)
(* reset is then among the flags the loop works on.                        *)
(***************************************************************************)
EXTENDS Interrupt, FiniteSetTheorems, TLAPS

USE SourcesAssumption, JamMovesAssumption
USE DEF INTERRUPT_DELAY, Old, Never, Flags, Kinds

Polled ==
  /\ pc \in {"exec", "alarms"} => ik = {}
  /\ pc = "polled" => ik \cap Flags = global_pending_int
  /\ pc \in {"loading", "loaded"} => "TRAP" \in ik
  /\ pc # "loading" => restored.irq = {} /\ restored.nmi = {}

Matched ==
  /\ nirq = Cardinality(irq \cup restored.irq)
  /\ nnmi = Cardinality(nmi \cup restored.nmi)

Counts ==
  \/ Matched
  \/ "RESET" \in global_pending_int /\ (pc = "loaded" \/ (pc = "reset" /\ "RESET" \in ik))

Inv == TypeOK /\ Polled /\ Counts /\ IrqFollowsLine /\ LateIrqExpires /\ IrqIsAllowed

-----------------------------------------------------------------------------
LEMMA SubsetSize ==
  ASSUME NEW A \in SUBSET Sources
  PROVE  /\ IsFiniteSet(A) /\ Cardinality(A) \in 0 .. Cardinality(Sources)
         /\ Cardinality(A) = 0 <=> A = {}
<1>1. IsFiniteSet(A)
  BY FS_Subset
<1>2. Cardinality(A) \in Nat /\ Cardinality(Sources) \in Nat /\ Cardinality(A) <= Cardinality(Sources)
  BY <1>1, FS_CardinalityType, FS_Subset
<1> QED
  BY <1>1, <1>2, FS_EmptySet

LEMMA OneMore ==
  ASSUME NEW A \in SUBSET Sources, NEW s \in Sources \ A
  PROVE  /\ Cardinality(A \cup {s}) = Cardinality(A) + 1
         /\ Cardinality(A \cup {s}) \in 0 .. Cardinality(Sources)
  BY SubsetSize, FS_AddElement

LEMMA OneLess ==
  ASSUME NEW A \in SUBSET Sources, NEW s \in A
  PROVE  /\ Cardinality(A \ {s}) = Cardinality(A) - 1
         /\ Cardinality(A \ {s}) \in 0 .. Cardinality(Sources)
  BY SubsetSize, FS_RemoveElement

LEMMA InvInit == Init => Inv
<1> SUFFICES ASSUME Init
             PROVE  Inv
  OBVIOUS
<1>1. Cardinality({}) = 0 /\ Cardinality(Sources) \in Nat
  BY FS_EmptySet, FS_CardinalityType
<1>2. TypeOK
  <2>1. restored \in [irq : SUBSET Sources, nmi : SUBSET Sources]
    BY DEF Init
  <2>2. nirq \in 0 .. Cardinality(Sources) /\ nnmi \in 0 .. Cardinality(Sources)
    BY <1>1 DEF Init
  <2>3. /\ irq \subseteq Sources /\ nmi \subseteq Sources
        /\ global_pending_int \subseteq Flags /\ ik \subseteq Flags \cup {"TRAP"}
        /\ irq_age \in 0 .. Old /\ nmi_age \in 0 .. Old /\ irq_pending \in 0 .. Never
        /\ pc = "alarms" /\ last_opcode \in Kinds
    BY DEF Init
  <2>4. /\ interrupt \in BOOLEAN /\ stacked \in BOOLEAN
        /\ cpu_is_jammed \in BOOLEAN /\ at_jam \in BOOLEAN
    BY DEF Init
  <2> QED
    BY <2>1, <2>2, <2>3, <2>4 DEF TypeOK
<1>3. Matched
  <2>1. irq \cup restored.irq = {} /\ nmi \cup restored.nmi = {}
    BY DEF Init
  <2> QED
    BY <1>1, <2>1 DEF Init, Matched
<1>4. Polled /\ IrqFollowsLine /\ LateIrqExpires /\ IrqIsAllowed
  BY DEF Init, Polled, IrqFollowsLine, LateIrqExpires, IrqIsAllowed
<1> QED
  BY <1>2, <1>3, <1>4 DEF Inv, Counts

-----------------------------------------------------------------------------
(* The chips. *)

LEMMA PullIrqKeepsInv ==
  ASSUME Inv, NEW s \in Sources, PullIrq(s)
  PROVE  Inv'
<1> USE DEF PullIrq, ChipsRun, cpu
<1>1. Matched /\ restored.irq = {} /\ restored.nmi = {} /\ restored' = restored
  BY DEF Inv, Polled, Counts
<1>2. irq \cup {s} \cup restored'.irq = irq \cup {s} /\ irq \cup restored.irq = irq
  BY <1>1
<1>3. irq' \cup restored'.irq = irq \cup {s} /\ nmi' \cup restored'.nmi = nmi \cup restored.nmi
  BY <1>1
<1>4. nirq' = Cardinality(irq \cup {s}) /\ nirq' \in 0 .. Cardinality(Sources)
  BY <1>1, <1>2, OneMore DEF Inv, TypeOK, Matched
<1>5. nirq' > 0
  BY <1>1, <1>2, SubsetSize DEF Inv, TypeOK, Matched
<1>6. TypeOK'
  BY <1>4 DEF Inv, TypeOK
<1>7. Matched'
  BY <1>1, <1>3, <1>4 DEF Matched
<1>8. Polled'
  BY DEF Inv, Polled
<1>9. IrqFollowsLine' /\ LateIrqExpires' /\ IrqIsAllowed'
  BY <1>5 DEF Inv, IrqFollowsLine, LateIrqExpires, IrqIsAllowed, NmiTakesOver
<1> QED
  BY <1>6, <1>7, <1>8, <1>9 DEF Inv, Counts

LEMMA ReleaseIrqKeepsInv ==
  ASSUME Inv, NEW s \in Sources, ReleaseIrq(s)
  PROVE  Inv'
<1> USE DEF ReleaseIrq, ChipsRun, cpu
<1>1. Matched /\ restored.irq = {} /\ restored.nmi = {} /\ restored' = restored
  BY DEF Inv, Polled, Counts
<1>2. irq \cup restored.irq = irq /\ irq \in SUBSET Sources /\ s \in irq
  BY <1>1 DEF Inv, TypeOK
<1>3. irq' \cup restored'.irq = irq \ {s} /\ nmi' \cup restored'.nmi = nmi \cup restored.nmi
  BY <1>1
<1>4. nirq' = Cardinality(irq \ {s}) /\ nirq' \in 0 .. Cardinality(Sources)
  BY <1>1, <1>2, OneLess DEF Matched
<1>5. TypeOK'
  <2>1. global_pending_int' \subseteq Flags /\ irq_pending' \in 0 .. Never
    <3>1. CASE nirq' = 0
      <4>1. global_pending_int' = global_pending_int \ {"IRQ"} /\ irq_pending' \in 0 .. 3
        BY <3>1
      <4> QED
        BY <4>1 DEF Inv, TypeOK
    <3>2. CASE nirq' # 0
      BY <3>2 DEF Inv, TypeOK
    <3> QED
      BY <3>1, <3>2
  <2> QED
    BY <1>4, <2>1 DEF Inv, TypeOK
<1>6. Matched'
  BY <1>1, <1>3, <1>4 DEF Matched
<1>7. Polled'
  BY DEF Inv, Polled
<1>8. IrqFollowsLine'
  BY <1>4 DEF Inv, TypeOK, IrqFollowsLine
<1>9. LateIrqExpires'
  BY DEF Inv, LateIrqExpires
<1>10. IrqIsAllowed'
  BY DEF Inv, IrqIsAllowed, NmiTakesOver
<1> QED
  BY <1>5, <1>6, <1>7, <1>8, <1>9, <1>10 DEF Inv, Counts

LEMMA PullNmiKeepsInv ==
  ASSUME Inv, NEW s \in Sources, PullNmi(s)
  PROVE  Inv'
<1> USE DEF PullNmi, ChipsRun, cpu
<1>1. Matched /\ restored.irq = {} /\ restored.nmi = {} /\ restored' = restored
  BY DEF Inv, Polled, Counts
<1>2. nmi \cup restored.nmi = nmi
  BY <1>1
<1>3. nmi' \cup restored'.nmi = nmi \cup {s} /\ irq' \cup restored'.irq = irq \cup restored.irq
  BY <1>1
<1>4. nnmi' = Cardinality(nmi \cup {s}) /\ nnmi' \in 0 .. Cardinality(Sources)
  BY <1>1, <1>2, OneMore DEF Inv, TypeOK, Matched
<1>5. /\ global_pending_int' \subseteq Flags /\ nmi_age' \in 0 .. Old
      /\ global_pending_int' \ {"NMI"} = global_pending_int \ {"NMI"}
      /\ NmiTakesOver => NmiTakesOver'
  BY DEF Inv, TypeOK, NmiTakesOver
<1>6. TypeOK'
  BY <1>4, <1>5 DEF Inv, TypeOK
<1>7. Matched'
  BY <1>1, <1>3, <1>4 DEF Matched
<1>8. Polled'
  BY DEF Inv, Polled
<1>9. IrqFollowsLine' /\ LateIrqExpires' /\ IrqIsAllowed'
  BY <1>5 DEF Inv, IrqFollowsLine, LateIrqExpires, IrqIsAllowed
<1> QED
  BY <1>6, <1>7, <1>8, <1>9 DEF Inv, Counts

LEMMA ReleaseNmiKeepsInv ==
  ASSUME Inv, NEW s \in Sources, ReleaseNmi(s)
  PROVE  Inv'
<1> USE DEF ReleaseNmi, ChipsRun, cpu, times
<1>1. Matched /\ restored.irq = {} /\ restored.nmi = {} /\ restored' = restored
  BY DEF Inv, Polled, Counts
<1>2. nmi \cup restored.nmi = nmi /\ nmi \in SUBSET Sources /\ s \in nmi
  BY <1>1 DEF Inv, TypeOK
<1>3. nmi' \cup restored'.nmi = nmi \ {s} /\ irq' \cup restored'.irq = irq \cup restored.irq
  BY <1>1
<1>4. nnmi' = Cardinality(nmi \ {s}) /\ nnmi' \in 0 .. Cardinality(Sources)
  BY <1>1, <1>2, OneLess DEF Matched
<1>5. TypeOK'
  BY <1>4 DEF Inv, TypeOK
<1>6. Matched'
  BY <1>1, <1>3, <1>4 DEF Matched
<1>7. Polled' /\ IrqFollowsLine' /\ LateIrqExpires' /\ IrqIsAllowed'
  BY DEF Inv, Polled, IrqFollowsLine, LateIrqExpires, IrqIsAllowed, NmiTakesOver
<1> QED
  BY <1>5, <1>6, <1>7 DEF Inv, Counts

-----------------------------------------------------------------------------
(* Steps that change no line. *)

LEMMA MatchedStays ==
  ASSUME Matched, UNCHANGED <<lines, restored>>
  PROVE  Matched'
  BY DEF Matched, lines

LEMMA CyclesType ==
  ASSUME TypeOK, NEW n \in Nat, Cycles(n)
  PROVE  /\ irq_age' \in 0 .. Old /\ nmi_age' \in 0 .. Old /\ irq_pending' \in 0 .. Never
         /\ irq_pending' = Never <=> irq_pending = Never
  BY DEF TypeOK, Cycles, Older, Nearer

LEMMA OpcodeKeepsInv ==
  ASSUME Inv, NEW kind \in Kinds, NEW i \in BOOLEAN, Opcode(kind, i)
  PROVE  Inv'
<1> USE DEF Opcode
<1>1. PICK n \in Nat : Cycles(n)
  OBVIOUS
<1>2. Matched'
  BY MatchedStays DEF Inv, Counts, lines
<1>3. TypeOK'
  BY <1>1, CyclesType DEF Inv, TypeOK, lines
<1>4. Polled' /\ IrqFollowsLine' /\ IrqIsAllowed'
  BY DEF Inv, Polled, IrqFollowsLine, IrqIsAllowed, lines
<1>5. LateIrqExpires'
  BY <1>1, CyclesType DEF Inv, LateIrqExpires
<1> QED
  BY <1>2, <1>3, <1>4, <1>5 DEF Inv, Counts

LEMMA BrkKeepsInv ==
  ASSUME Inv, Brk
  PROVE  Inv'
<1> USE DEF Brk, AckNmi, AckIrq
<1>1. Matched'
  BY MatchedStays DEF Inv, Counts, lines
<1>2. /\ global_pending_int' \subseteq Flags /\ irq_pending' \in 0 .. Never
      /\ "IRQ" \in global_pending_int' <=> "IRQ" \in global_pending_int
      /\ \/ "IRQPEND" \notin global_pending_int'
         \/ "IRQPEND" \in global_pending_int /\ irq_pending' = Nearer(Never)
  <2>1. CASE "NMI" \in global_pending_int
    BY <2>1 DEF Inv, TypeOK, Nearer
  <2>2. CASE "NMI" \notin global_pending_int /\ {"IRQ", "IRQPEND"} \cap global_pending_int # {} /\ ~interrupt
    BY <2>2 DEF Inv, TypeOK
  <2>3. CASE /\ ~("NMI" \in global_pending_int)
             /\ ~("NMI" \notin global_pending_int /\ {"IRQ", "IRQPEND"} \cap global_pending_int # {} /\ ~interrupt)
    BY <2>3 DEF Inv, TypeOK, Nearer
  <2> QED
    BY <2>1, <2>2, <2>3
<1>3. TypeOK'
  BY <1>2 DEF Inv, TypeOK, lines
<1>4. Polled' /\ IrqFollowsLine' /\ IrqIsAllowed'
  BY <1>2 DEF Inv, Polled, IrqFollowsLine, IrqIsAllowed, lines
<1>5. LateIrqExpires'
  BY <1>2 DEF Inv, TypeOK, LateIrqExpires, Nearer
<1> QED
  BY <1>1, <1>3, <1>4, <1>5 DEF Inv, Counts

LEMMA PollKeepsInv ==
  ASSUME Inv, Poll
  PROVE  Inv'
<1> DEFINE flags == IF cpu_is_jammed THEN global_pending_int \ {"IRQ", "IRQPEND", "NMI"} ELSE global_pending_int
           late == "IRQ" \notin flags /\ "IRQPEND" \in flags /\ irq_pending = 0
           polled == IF late THEN AckIrq(flags) ELSE flags
<1>1. /\ global_pending_int' = polled /\ ik' \in {polled, polled \cup {"TRAP"}}
      /\ irq_pending' = IF cpu_is_jammed \/ late THEN Never ELSE irq_pending
      /\ pc' = IF ik' = {} THEN "exec" ELSE "polled"
  BY DEF Poll
<1>2. /\ polled \subseteq Flags
      /\ ~cpu_is_jammed => ("IRQ" \in polled <=> "IRQ" \in global_pending_int)
      /\ "RESET" \in polled <=> "RESET" \in global_pending_int
      /\ "IRQPEND" \in polled => "IRQPEND" \in global_pending_int /\ ~late /\ ~cpu_is_jammed
  BY DEF AckIrq, Inv, TypeOK
<1>3. /\ ik' \cap Flags = polled /\ ik' \subseteq Flags \cup {"TRAP"} /\ pc' \in {"exec", "polled"}
      /\ pc' = "exec" => ik' = {}
  BY <1>1, <1>2
<1>4. irq_pending' \in 0 .. Never
  BY <1>1 DEF Inv, TypeOK
<1>5. Matched' /\ restored' = restored /\ nirq' = nirq
  BY MatchedStays DEF Poll, Inv, Counts, lines
<1>6. cpu_is_jammed' = (cpu_is_jammed /\ "RESET" \notin global_pending_int)
  BY DEF Poll
<1> HIDE DEF polled, late, flags
<1>7. TypeOK'
  BY <1>1, <1>2, <1>3, <1>4, <1>6 DEF Poll, Inv, TypeOK, lines
<1>8. Polled'
  BY <1>1, <1>3, <1>5 DEF Poll, Inv, Polled
<1>9. IrqFollowsLine'
  <2>1. CASE ~cpu_is_jammed
    BY <1>1, <1>2, <1>5, <2>1 DEF Poll, Inv, Polled, IrqFollowsLine
  <2>2. CASE cpu_is_jammed /\ "RESET" \notin global_pending_int
    BY <1>6, <2>2 DEF IrqFollowsLine
  <2>3. CASE "RESET" \in global_pending_int
    BY <1>1, <1>2, <2>3 DEF IrqFollowsLine
  <2> QED
    BY <2>1, <2>2, <2>3 DEF Inv, TypeOK
<1>10. LateIrqExpires'
  BY <1>1, <1>2 DEF Inv, LateIrqExpires
<1>11. IrqIsAllowed'
  BY <1>3 DEF IrqIsAllowed
<1> QED
  BY <1>5, <1>7, <1>8, <1>9, <1>10, <1>11 DEF Inv, Counts

LEMMA EnterKeepsInv ==
  ASSUME Inv, Enter
  PROVE  Inv'
<1> USE DEF Enter
<1>1. Matched'
  BY MatchedStays DEF Inv, Counts, lines
<1>2. Cycles(5) /\ 5 \in Nat
  OBVIOUS
<1>3. TypeOK'
  BY <1>2, CyclesType DEF Inv, TypeOK, lines
<1>4. Polled' /\ IrqFollowsLine'
  BY DEF Inv, Polled, IrqFollowsLine, lines
<1>5. LateIrqExpires'
  BY <1>2, CyclesType DEF Inv, LateIrqExpires
<1>6. IrqIsAllowed'
  <2>1. CASE NmiAccepted
    <3>1. "NMI" \in global_pending_int'
      BY <2>1 DEF Inv, Polled, NmiAccepted
    <3>2. nmi_age' = Old
      BY DEF Cycles, Older, Inv, TypeOK
    <3> QED
      BY <3>1, <3>2 DEF IrqIsAllowed, NmiTakesOver
  <2>2. CASE IrqWanted
    BY <2>2 DEF IrqWanted, IrqIsAllowed
  <2> QED
    BY <2>1, <2>2
<1> QED
  BY <1>1, <1>3, <1>4, <1>5, <1>6 DEF Inv, Counts

LEMMA PassKeepsInv ==
  ASSUME Inv, Pass
  PROVE  Inv'
<1> USE DEF Pass, KeepTraps, times, cpu
<1>1. Matched'
  BY MatchedStays DEF Inv, Counts, lines
<1>2. IrqWanted => "IRQ" \in global_pending_int \/ "IRQPEND" \in global_pending_int
  BY DEF IrqWanted, Inv, Polled
<1>3. TypeOK'
  BY DEF Inv, TypeOK, lines
<1>4. Polled' /\ IrqFollowsLine'
  BY DEF Inv, Polled, IrqFollowsLine, lines
<1>5. LateIrqExpires' /\ IrqIsAllowed'
  BY <1>2 DEF Inv, LateIrqExpires, IrqIsAllowed
<1> QED
  BY <1>1, <1>3, <1>4, <1>5 DEF Inv, Counts

LEMMA ServeKeepsInv ==
  ASSUME Inv, ServeNmi \/ ServeIrq
  PROVE  Inv'
<1> USE DEF ServeNmi, ServeIrq, Serve, KeepTraps, AckNmi, AckIrq
<1>1. Matched'
  BY MatchedStays DEF Inv, Counts, lines
<1>2. irq_pending' \in 0 .. Never /\ global_pending_int' \subseteq global_pending_int
  BY DEF Nearer, Inv, TypeOK
<1>3. TypeOK'
  <2>1. irq_age' \in 0 .. Old /\ nmi_age' \in 0 .. Old
    BY DEF Inv, TypeOK, Older
  <2>2. ik' \subseteq Flags \cup {"TRAP"} /\ last_opcode' \in Kinds \cup {"BRK"} /\ pc' = "traps"
    BY DEF Inv, TypeOK
  <2> QED
    BY <1>2, <2>1, <2>2 DEF Inv, TypeOK, lines
<1>4. Polled' /\ IrqFollowsLine' /\ IrqIsAllowed'
  BY DEF Inv, Polled, IrqFollowsLine, IrqIsAllowed, lines
<1>5. LateIrqExpires'
  BY DEF Inv, TypeOK, LateIrqExpires, Nearer
<1> QED
  BY <1>1, <1>3, <1>4, <1>5 DEF Inv, Counts

-----------------------------------------------------------------------------
(* Snapshots and resets. *)

LEMMA LoadCpuKeepsInv ==
  ASSUME Inv, LoadCpu
  PROVE  Inv'
<1>1. PICK i, n \in SUBSET Sources, flags \in SUBSET (Flags \ {"RESET"}), pending \in {0, Never} :
        /\ Consistent(i, flags, pending)
        /\ irq' = {} /\ nmi' = {}
        /\ restored' = [irq |-> i, nmi |-> n]
        /\ nirq' = Cardinality(i) /\ nnmi' = Cardinality(n)
        /\ global_pending_int' = flags
        /\ irq_pending' = pending
  BY DEF LoadCpu
<1>2. /\ pc' = "loading" /\ "TRAP" \in ik /\ ik' = ik /\ cpu_is_jammed' = cpu_is_jammed
      /\ irq_age' = 0 /\ nmi_age' = 0 /\ interrupt' \in BOOLEAN /\ last_opcode' = "plain"
      /\ at_jam' = FALSE /\ stacked' = stacked
  BY DEF LoadCpu
<1>3. /\ nirq' \in 0 .. Cardinality(Sources) /\ nnmi' \in 0 .. Cardinality(Sources)
      /\ nirq' > 0 <=> i # {}
  BY <1>1, SubsetSize
<1>4. TypeOK'
  <2>1. restored' \in [irq : SUBSET Sources, nmi : SUBSET Sources]
    BY <1>1
  <2>2. global_pending_int' \subseteq Flags /\ irq_pending' \in 0 .. Never
    BY <1>1
  <2>3. irq' \subseteq Sources /\ nmi' \subseteq Sources
    BY <1>1
  <2>4. irq_age' \in 0 .. Old /\ nmi_age' \in 0 .. Old
    BY <1>2 DEF Old, INTERRUPT_DELAY
  <2>5. /\ ik' \subseteq Flags \cup {"TRAP"}
        /\ interrupt' \in BOOLEAN /\ stacked' \in BOOLEAN
        /\ cpu_is_jammed' \in BOOLEAN /\ at_jam' \in BOOLEAN
    BY <1>2 DEF Inv, TypeOK
  <2>6. last_opcode' \in Kinds \cup {"BRK"}
    BY <1>2 DEF Kinds
  <2> QED
    BY <1>2, <1>3, <2>1, <2>2, <2>3, <2>4, <2>5, <2>6 DEF TypeOK
<1>5. Matched'
  <2>1. irq' \cup restored'.irq = i /\ nmi' \cup restored'.nmi = n
    BY <1>1
  <2> QED
    BY <1>1, <2>1 DEF Matched
<1>6. Polled' /\ IrqIsAllowed'
  BY <1>2 DEF Polled, IrqIsAllowed
<1>7. IrqFollowsLine' /\ LateIrqExpires'
  BY <1>1, <1>3 DEF IrqFollowsLine, LateIrqExpires, Consistent
<1> QED
  BY <1>4, <1>5, <1>6, <1>7 DEF Inv, Counts

LEMMA LoadChipKeepsInv ==
  ASSUME Inv, NEW s \in Sources, LoadChip(s)
  PROVE  Inv'
<1> USE DEF LoadChip, times, cpu
<1>1. restored' = [irq |-> restored.irq \ {s}, nmi |-> restored.nmi \ {s}]
  OBVIOUS
<1>2. /\ irq' \cup restored'.irq = irq \cup restored.irq
      /\ nmi' \cup restored'.nmi = nmi \cup restored.nmi
  BY <1>1
<1>3. Matched'
  BY <1>2 DEF Inv, Counts, Matched
<1>4. TypeOK'
  <2>1. restored' \in [irq : SUBSET Sources, nmi : SUBSET Sources]
    BY <1>1 DEF Inv, TypeOK
  <2> QED
    BY <2>1 DEF Inv, TypeOK
<1>5. Polled' /\ IrqFollowsLine' /\ LateIrqExpires' /\ IrqIsAllowed'
  BY DEF Inv, Polled, IrqFollowsLine, LateIrqExpires, IrqIsAllowed
<1> QED
  BY <1>3, <1>4, <1>5 DEF Inv, Counts

LEMMA LoadedKeepsInv ==
  ASSUME Inv, Loaded
  PROVE  Inv'
<1> USE DEF Loaded, times, cpu
<1>1. Matched'
  BY MatchedStays DEF Inv, Counts, lines
<1>2. restored.irq = {} /\ restored.nmi = {}
  OBVIOUS
<1>3. Polled' /\ IrqFollowsLine' /\ LateIrqExpires' /\ IrqIsAllowed'
  BY <1>2 DEF Inv, Polled, IrqFollowsLine, LateIrqExpires, IrqIsAllowed, lines
<1>4. TypeOK'
  BY DEF Inv, TypeOK, lines
<1> QED
  BY <1>1, <1>3, <1>4 DEF Inv, Counts

LEMMA LoadFailsKeepsInv ==
  ASSUME Inv, LoadFails
  PROVE  Inv'
<1> USE DEF LoadFails, times, cpu
<1>1. restored' = [irq |-> {}, nmi |-> {}] /\ restored' \in [irq : SUBSET Sources, nmi : SUBSET Sources]
  OBVIOUS
<1>2. Polled' /\ IrqFollowsLine' /\ LateIrqExpires' /\ IrqIsAllowed'
  BY <1>1 DEF Inv, Polled, IrqFollowsLine, LateIrqExpires, IrqIsAllowed, lines
<1>3. TypeOK'
  BY <1>1 DEF Inv, TypeOK, lines
<1>4. Counts'
  BY DEF Counts
<1> QED
  BY <1>2, <1>3, <1>4 DEF Inv

LEMMA LeaveTrapsKeepsInv ==
  ASSUME Inv, LeaveTraps
  PROVE  Inv'
<1> USE DEF LeaveTraps, times, cpu
<1>1. Counts'
  <2>1. CASE Matched
    BY <2>1, MatchedStays DEF Counts, lines
  <2>2. CASE ~Matched
    BY <2>2 DEF Inv, Counts, Polled
  <2> QED
    BY <2>1, <2>2
<1>2. Polled' /\ LateIrqExpires' /\ IrqIsAllowed'
  BY DEF Inv, Polled, LateIrqExpires, IrqIsAllowed, lines
<1>3. IrqFollowsLine'
  BY DEF Inv, IrqFollowsLine, lines
<1>4. TypeOK'
  BY DEF Inv, TypeOK, lines
<1> QED
  BY <1>1, <1>2, <1>3, <1>4 DEF Inv

LEMMA ResetKeepsInv ==
  ASSUME Inv, Reset
  PROVE  Inv'
<1> USE DEF Reset
<1>1. restored' = restored /\ restored.irq = {} /\ restored.nmi = {}
  BY DEF Inv, Polled
<1>2. Matched'
  <2>1. irq' \cup restored'.irq = {} /\ nmi' \cup restored'.nmi = {}
    BY <1>1
  <2> QED
    BY <2>1, FS_EmptySet DEF Matched
<1>3. 0 \in 0 .. Cardinality(Sources)
  BY FS_CardinalityType
<1>4. TypeOK'
  <2>1. /\ nirq' \in 0 .. Cardinality(Sources) /\ nnmi' \in 0 .. Cardinality(Sources)
        /\ irq' \subseteq Sources /\ nmi' \subseteq Sources
        /\ restored' \in [irq : SUBSET Sources, nmi : SUBSET Sources]
    BY <1>1, <1>3 DEF Inv, TypeOK
  <2>2. /\ irq_age' \in 0 .. Old /\ nmi_age' \in 0 .. Old /\ irq_pending' \in 0 .. Never
        /\ global_pending_int' = {} /\ ik' = {} /\ pc' = "exec"
    OBVIOUS
  <2>3. /\ interrupt' = TRUE /\ cpu_is_jammed' = FALSE /\ at_jam' = FALSE
        /\ stacked' \in BOOLEAN /\ last_opcode' \in Kinds \cup {"BRK"}
    BY DEF Inv, TypeOK
  <2> QED
    BY <2>1, <2>2, <2>3 DEF TypeOK
<1>5. Polled' /\ IrqFollowsLine' /\ LateIrqExpires' /\ IrqIsAllowed'
  BY <1>1 DEF Inv, Polled, IrqFollowsLine, LateIrqExpires, IrqIsAllowed
<1> QED
  BY <1>2, <1>4, <1>5 DEF Inv, Counts

LEMMA ResumeKeepsInv ==
  ASSUME Inv, Resume
  PROVE  Inv'
<1> USE DEF Resume, times, cpu
<1>1. Matched'
  BY MatchedStays DEF Inv, Counts, lines
<1>2. /\ global_pending_int' \subseteq Flags
      /\ "IRQ" \in global_pending_int' <=> "IRQ" \in global_pending_int
      /\ "IRQPEND" \in global_pending_int' => "IRQ" \in global_pending_int'
  BY DEF Inv, TypeOK
<1>3. Polled' /\ IrqFollowsLine' /\ LateIrqExpires' /\ IrqIsAllowed'
  BY <1>2 DEF Inv, Polled, IrqFollowsLine, LateIrqExpires, IrqIsAllowed, lines
<1>4. TypeOK'
  BY <1>2 DEF Inv, TypeOK, lines
<1> QED
  BY <1>1, <1>3, <1>4 DEF Inv, Counts

-----------------------------------------------------------------------------
LEMMA InvStep == Inv /\ [Next]_vars => Inv'
<1> SUFFICES ASSUME Inv, [Next]_vars
             PROVE  Inv'
  OBVIOUS
<1>1. ASSUME NEW s \in Sources,
             PullIrq(s) \/ ReleaseIrq(s) \/ PullNmi(s) \/ ReleaseNmi(s) \/ LoadChip(s)
      PROVE  Inv'
  BY <1>1, PullIrqKeepsInv, ReleaseIrqKeepsInv, PullNmiKeepsInv, ReleaseNmiKeepsInv, LoadChipKeepsInv
<1>2. ASSUME NEW kind \in Kinds, NEW i \in BOOLEAN, Opcode(kind, i)
      PROVE  Inv'
  BY <1>2, OpcodeKeepsInv
<1>3. CASE TriggerReset
  <2>1. Matched'
    BY <1>3, MatchedStays DEF TriggerReset, ChipsRun, Inv, Counts, lines
  <2>2. TypeOK' /\ Polled' /\ IrqFollowsLine' /\ LateIrqExpires' /\ IrqIsAllowed'
    BY <1>3 DEF TriggerReset, ChipsRun, Inv, TypeOK, Polled, IrqFollowsLine, LateIrqExpires,
                IrqIsAllowed, NmiTakesOver, lines, times, cpu
  <2> QED
    BY <2>1, <2>2 DEF Inv, Counts
<1>4. CASE Jam
  <2>1. Matched'
    BY <1>4, MatchedStays DEF Jam, Inv, Counts, lines
  <2>2. Cycles(1) /\ 1 \in Nat
    BY <1>4 DEF Jam
  <2>3. irq_age' \in 0 .. Old /\ nmi_age' \in 0 .. Old /\ irq_pending' \in 0 .. Never
        /\ (irq_pending' = Never <=> irq_pending = Never)
    BY <2>2, CyclesType DEF Inv
  <2>4. TypeOK'
    BY <1>4, <2>3 DEF Jam, Inv, TypeOK, Kinds, lines
  <2>5. Polled' /\ IrqFollowsLine' /\ LateIrqExpires' /\ IrqIsAllowed'
    BY <1>4, <2>3 DEF Jam, Inv, Polled, IrqFollowsLine, LateIrqExpires, IrqIsAllowed, lines
  <2> QED
    BY <2>1, <2>4, <2>5 DEF Inv, Counts
<1>5. CASE MonitorMoves
  <2>1. Matched'
    BY <1>5, MatchedStays DEF MonitorMoves, Inv, Counts, lines
  <2>2. TypeOK'
    BY <1>5 DEF MonitorMoves, Inv, TypeOK, lines, times
  <2>3. Polled' /\ IrqFollowsLine' /\ LateIrqExpires' /\ IrqIsAllowed'
    BY <1>5 DEF MonitorMoves, Inv, Polled, IrqFollowsLine, LateIrqExpires, IrqIsAllowed,
                NmiTakesOver, lines, times
  <2> QED
    BY <2>1, <2>2, <2>3 DEF Inv, Counts
<1>6. CASE UNCHANGED vars
  <2>1. Matched => Matched'
    BY <1>6, MatchedStays DEF vars
  <2> QED
    BY <1>6, <2>1 DEF vars, lines, times, cpu, Inv, TypeOK, Polled, Counts, IrqFollowsLine, LateIrqExpires,
                      IrqIsAllowed, NmiTakesOver
<1> QED
  BY <1>1, <1>2, <1>3, <1>4, <1>5, <1>6, BrkKeepsInv, PollKeepsInv, EnterKeepsInv, PassKeepsInv,
     ServeKeepsInv, LoadCpuKeepsInv, LoadedKeepsInv, LoadFailsKeepsInv, LeaveTrapsKeepsInv,
     ResetKeepsInv, ResumeKeepsInv
     DEF Next

LEMMA InvHolds == Spec => []Inv
  BY InvInit, InvStep, PTL DEF Spec

(* Every variable stays in its range. *)
THEOREM TypeCorrect == Spec => []TypeOK
<1>1. Inv => TypeOK
  BY DEF Inv
<1> QED
  BY <1>1, InvHolds, PTL

(* interrupt_set_irq() and interrupt_set_nmi() never find a wrong count.     *)
THEOREM CountsAreRight == Spec => []CountsMatch
<1>1. Inv => CountsMatch
  BY DEF Inv, Counts, Matched, CountsMatch, HalfLoaded
<1> QED
  BY <1>1, InvHolds, PTL

(* The CPU sees the line that the chips pull. *)
THEOREM FlagFollowsLine == Spec => []IrqFollowsLine
<1>1. Inv => IrqFollowsLine
  BY DEF Inv
<1> QED
  BY <1>1, InvHolds, PTL

(* An IRQ that was released is not served for ever. *)
THEOREM LateIrqsExpire == Spec => []LateIrqExpires
<1>1. Inv => LateIrqExpires
  BY DEF Inv
<1> QED
  BY <1>1, InvHolds, PTL

(* DO_INTERRUPT fetches the IRQ vector only with a reason. *)
THEOREM IrqsAreAllowed == Spec => []IrqIsAllowed
<1>1. Inv => IrqIsAllowed
  BY DEF Inv
<1> QED
  BY <1>1, InvHolds, PTL

(* Poll forgets an NMI only of a CPU that is jammed. *)
LEMMA PollKeepsNmi ==
  ASSUME "NMI" \in global_pending_int, ~cpu_is_jammed, Poll
  PROVE  "NMI" \in global_pending_int'
  BY DEF Poll, AckIrq

(* What interrupt_set_nmi() has latched is lost only when it is served, in   *)
(* a jam, and when a reset or a snapshot replaces all lines (interrupt.h).   *)
THEOREM NmisAreLatched == Spec => NmiIsLatched
<1>1. [Next]_vars => [ "NMI" \in global_pending_int /\ "NMI" \notin global_pending_int' =>
                         cpu_is_jammed \/ ServeNmi \/ Brk \/ Reset \/ LoadCpu ]_vars
  <2> SUFFICES ASSUME Next, "NMI" \in global_pending_int,
                      ~(cpu_is_jammed \/ ServeNmi \/ Brk \/ Reset \/ LoadCpu)
               PROVE  "NMI" \in global_pending_int'
    OBVIOUS
  <2>1. ASSUME NEW s \in Sources,
               PullIrq(s) \/ ReleaseIrq(s) \/ PullNmi(s) \/ ReleaseNmi(s) \/ LoadChip(s)
        PROVE  "NMI" \in global_pending_int'
    BY <2>1 DEF PullIrq, ReleaseIrq, PullNmi, ReleaseNmi, LoadChip
  <2>2. ASSUME NEW kind \in Kinds, NEW i \in BOOLEAN, Opcode(kind, i)
        PROVE  "NMI" \in global_pending_int'
    BY <2>2 DEF Opcode
  <2>3. CASE TriggerReset \/ Jam \/ MonitorMoves \/ Enter \/ Pass
    BY <2>3 DEF TriggerReset, Jam, MonitorMoves, Enter, Pass
  <2>4. CASE Poll
    BY <2>4, PollKeepsNmi
  <2>5. CASE ServeIrq
    BY <2>5 DEF ServeIrq, Serve, AckIrq
  <2>6. CASE Loaded \/ LoadFails \/ LeaveTraps \/ Resume
    BY <2>6 DEF Loaded, LoadFails, LeaveTraps, Resume
  <2> QED
    BY <2>1, <2>2, <2>3, <2>4, <2>5, <2>6 DEF Next
<1> QED
  BY <1>1, PTL DEF Spec, NmiIsLatched
=============================================================================
