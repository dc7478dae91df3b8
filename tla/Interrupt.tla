----------------------------- MODULE Interrupt ------------------------------
(***************************************************************************)
(* The interrupt lines of the main CPU (interrupt.h, interrupt.c), their   *)
(* polling between two opcodes and the sequence that serves them           *)
(* (maincpu.c, 6510core.c).                                                *)
(*                                                                         *)
(* The chips share one IRQ and one NMI line.  The IRQ line is a level: it  *)
(* asks as long as some chip pulls it and, IRQPEND, until the next poll or *)
(* for three cycles.  The NMI line is an edge: the first chip that pulls   *)
(* it sets a flag that only serving it clears.                             *)
(*                                                                         *)
(* Times are kept relative to the clock: an age says how long ago a line   *)
(* was pulled, irq_pending how many cycles are left of irq_pending_clk.    *)
(* Traps are modelled in TrapQueue; here one may be due at any poll, and   *)
(* may load a snapshot.                                                    *)
(***************************************************************************)
EXTENDS Integers, FiniteSets

CONSTANTS
  Sources,    (* the chips that pull the lines                                *)
  JamMoves    (* whether the monitor or a snapshot takes the CPU off a JAM    *)

ASSUME SourcesAssumption == IsFiniteSet(Sources)
ASSUME JamMovesAssumption == JamMoves \in BOOLEAN

VARIABLES
  irq, nmi,                 (* the sources whose pending_int has IK_IRQ, IK_NMI *)
  nirq, nnmi,
  global_pending_int,       (* IRQ, IRQPEND, NMI, RESET                         *)
  irq_age, nmi_age,         (* CLK - irq_clk and CLK - nmi_clk                  *)
  irq_pending,              (* irq_pending_clk - CLK                            *)
  pc, ik,                   (* where the loop is, and the flags it polled       *)
  interrupt,                (* the I flag                                       *)
  stacked,                  (* the I flag the sequence found                    *)
  last_opcode,              (* what LAST_OPCODE_INFO says                       *)
  cpu_is_jammed, at_jam,    (* at_jam: the next opcode is a JAM                 *)
  restored                  (* the lines that the chips' modules will restore   *)

lines == <<irq, nmi, nirq, nnmi>>
times == <<irq_age, nmi_age, irq_pending>>
cpu   == <<interrupt, last_opcode, cpu_is_jammed, at_jam>>
vars  == <<lines, times, cpu, global_pending_int, pc, ik, stacked, restored>>

INTERRUPT_DELAY == 2
Old   == INTERRUPT_DELAY + 1   (* bound: ages beyond this make no difference *)
Never == Old + 1               (* CLOCK_MAX                                  *)
Flags == {"IRQ", "IRQPEND", "NMI", "RESET"}

Older(age, n) == IF age + n > Old THEN Old ELSE age + n
Nearer(n) == IF irq_pending = Never THEN Never
             ELSE IF irq_pending > n THEN irq_pending - n ELSE 0

Cycles(n) ==
  /\ irq_age' = Older(irq_age, n)
  /\ nmi_age' = Older(nmi_age, n)
  /\ irq_pending' = Nearer(n)

(* maincpu_mainloop() triggers a reset before the first opcode. *)
Init ==
  /\ irq = {} /\ nmi = {} /\ nirq = 0 /\ nnmi = 0
  /\ global_pending_int = {"RESET"}
  /\ irq_age = 0 /\ nmi_age = 0 /\ irq_pending = 0
  /\ pc = "alarms" /\ ik = {}
  /\ interrupt = FALSE /\ stacked = FALSE
  /\ last_opcode = "plain"
  /\ cpu_is_jammed = FALSE /\ at_jam = FALSE
  /\ restored = [irq |-> {}, nmi |-> {}]

-----------------------------------------------------------------------------
(* The chips: register accesses of the opcode, and alarms, which are late    *)
(* by the rest of it.  Stolen cycles make a line look older or younger.      *)
ChipsRun == pc \in {"exec", "alarms", "serving", "traps"}

PullIrq(s) ==
  /\ ChipsRun /\ s \notin irq
  /\ nirq' = nirq + 1
  /\ irq' = irq \cup {s}
  /\ global_pending_int' = global_pending_int \cup {"IRQ", "IRQPEND"}
  /\ irq_pending' = Never
  /\ irq_age' \in 0 .. Old
  /\ UNCHANGED <<nmi, nnmi, nmi_age, cpu, pc, ik, stacked, restored>>

(* Mutation: the line falls with the first chip that lets go of it. *)
ReleaseIrq_First(s) ==
  /\ ChipsRun /\ s \in irq /\ nirq > 0
  /\ nirq' = nirq - 1
  /\ irq' = irq \ {s}
  /\ global_pending_int' = global_pending_int \ {"IRQ"}
  /\ irq_pending' \in 0 .. 3
  /\ UNCHANGED <<nmi, nnmi, irq_age, nmi_age, cpu, pc, ik, stacked, restored>>

(* Mutation: no time is set at which the line that fell is forgotten. *)
ReleaseIrq_Untimed(s) ==
  /\ ChipsRun /\ s \in irq /\ nirq > 0
  /\ nirq' = nirq - 1
  /\ irq' = irq \ {s}
  /\ global_pending_int' = IF nirq' = 0 THEN global_pending_int \ {"IRQ"} ELSE global_pending_int
  /\ UNCHANGED <<nmi, nnmi, times, cpu, pc, ik, stacked, restored>>

ReleaseIrq(s) ==
  /\ ChipsRun /\ s \in irq /\ nirq > 0
  /\ nirq' = nirq - 1
  /\ irq' = irq \ {s}
  /\ IF nirq' = 0
       THEN /\ global_pending_int' = global_pending_int \ {"IRQ"}
            /\ irq_pending' \in 0 .. 3
       ELSE UNCHANGED <<global_pending_int, irq_pending>>
  /\ UNCHANGED <<nmi, nnmi, irq_age, nmi_age, cpu, pc, ik, stacked, restored>>

PullNmi(s) ==
  /\ ChipsRun /\ s \notin nmi
  /\ IF nnmi = 0 /\ "NMI" \notin global_pending_int
       THEN /\ global_pending_int' = global_pending_int \cup {"NMI"}
            /\ nmi_age' \in 0 .. Old
       ELSE UNCHANGED <<global_pending_int, nmi_age>>
  /\ nnmi' = nnmi + 1
  /\ nmi' = nmi \cup {s}
  /\ UNCHANGED <<irq, nirq, irq_age, irq_pending, cpu, pc, ik, stacked, restored>>

(* Mutation: letting go of the line takes the edge back. *)
ReleaseNmi_TakesBack(s) ==
  /\ ChipsRun /\ s \in nmi /\ nnmi > 0
  /\ nnmi' = nnmi - 1
  /\ nmi' = nmi \ {s}
  /\ global_pending_int' = IF nnmi' = 0 THEN global_pending_int \ {"NMI"} ELSE global_pending_int
  /\ UNCHANGED <<irq, nirq, times, cpu, pc, ik, stacked, restored>>

ReleaseNmi(s) ==
  /\ ChipsRun /\ s \in nmi /\ nnmi > 0
  /\ nnmi' = nnmi - 1
  /\ nmi' = nmi \ {s}
  /\ UNCHANGED <<irq, nirq, global_pending_int, times, cpu, pc, ik, stacked, restored>>

TriggerReset ==
  /\ ChipsRun
  /\ global_pending_int' = global_pending_int \cup {"RESET"}
  /\ UNCHANGED <<lines, times, cpu, pc, ik, stacked, restored>>

-----------------------------------------------------------------------------
(* Opcodes, as far as they concern interrupts: "enables" and "disables" are  *)
(* CLI, SEI and PLP when they change the I flag; RTI is plain whatever it    *)
(* does to the flag; a "branch" that is taken delays interrupts by a cycle.  *)
Opcode(kind, i) ==
  /\ pc = "exec" /\ ~at_jam
  /\ kind = "enables" => interrupt /\ ~i
  /\ kind = "disables" => ~interrupt /\ i
  /\ kind = "branch" => i = interrupt
  /\ pc' = "alarms"
  /\ last_opcode' = kind
  /\ interrupt' = i
  /\ \E n \in (IF kind = "branch" THEN 3 ELSE 2) .. Old + 1 : Cycles(n)
  /\ UNCHANGED <<lines, global_pending_int, ik, stacked, cpu_is_jammed, at_jam, restored>>

AckNmi(flags) == flags \ {"NMI"}
AckIrq(flags) == flags \ {"IRQPEND"}

(* BRK polls the lines itself. *)
Brk ==
  /\ pc = "exec" /\ ~at_jam
  /\ pc' = "alarms"
  /\ last_opcode' = "BRK"
  /\ interrupt' = TRUE
  /\ irq_age' = Old /\ nmi_age' = Old
  /\ CASE "NMI" \in global_pending_int ->
            /\ global_pending_int' = AckNmi(global_pending_int)
            /\ irq_pending' = Nearer(Never)
       [] "NMI" \notin global_pending_int /\ {"IRQ", "IRQPEND"} \cap global_pending_int # {}
          /\ ~interrupt ->
            /\ global_pending_int' = AckIrq(global_pending_int)
            /\ irq_pending' = Never
       [] OTHER -> UNCHANGED global_pending_int /\ irq_pending' = Nearer(Never)
  /\ UNCHANGED <<lines, ik, stacked, cpu_is_jammed, at_jam, restored>>

Jam ==
  /\ pc = "exec"
  /\ pc' = "alarms"
  /\ last_opcode' = "plain"
  /\ cpu_is_jammed' = TRUE /\ at_jam' = TRUE
  /\ Cycles(1)
  /\ UNCHANGED <<lines, global_pending_int, ik, interrupt, stacked, restored>>

(* The jam dialog starts the monitor, which sets the program counter. *)
MonitorMoves ==
  /\ JamMoves /\ pc = "alarms" /\ at_jam
  /\ at_jam' = FALSE
  /\ UNCHANGED <<lines, times, global_pending_int, pc, ik, interrupt, last_opcode, stacked, cpu_is_jammed, restored>>

-----------------------------------------------------------------------------
(* The poll between two opcodes. *)

Poll ==
  /\ pc = "alarms"
  /\ LET flags   == IF cpu_is_jammed THEN global_pending_int \ {"IRQ", "IRQPEND", "NMI"} ELSE global_pending_int
         late    == "IRQ" \notin flags /\ "IRQPEND" \in flags /\ irq_pending = 0
         polled  == IF late THEN AckIrq(flags) ELSE flags
     IN  /\ global_pending_int' = polled
         /\ irq_pending' = IF cpu_is_jammed \/ late THEN Never ELSE irq_pending
         /\ ik' \in {polled, polled \cup {"TRAP"}}
         /\ pc' = IF ik' = {} THEN "exec" ELSE "polled"
  /\ cpu_is_jammed' = (cpu_is_jammed /\ "RESET" \notin global_pending_int)
  /\ UNCHANGED <<lines, irq_age, nmi_age, interrupt, last_opcode, at_jam, stacked, restored>>

DelayOver(age) == age >= IF last_opcode = "branch" THEN INTERRUPT_DELAY + 1 ELSE INTERRUPT_DELAY

(* Mutation: the I flag masks NMIs. *)
NmiAccepted_Masked == "NMI" \in ik /\ last_opcode # "BRK" /\ DelayOver(nmi_age) /\ ~interrupt

NmiAccepted == "NMI" \in ik /\ last_opcode # "BRK" /\ DelayOver(nmi_age)

(* Mutation: the I flag is not looked at. *)
IrqWanted_Unmasked == {"IRQ", "IRQPEND"} \cap ik # {} /\ DelayOver(irq_age)

(* Mutation: an IRQ is an edge. *)
IrqWanted_Edge == "IRQPEND" \in ik /\ (~interrupt \/ last_opcode = "disables") /\ DelayOver(irq_age)

IrqWanted == {"IRQ", "IRQPEND"} \cap ik # {} /\ (~interrupt \/ last_opcode = "disables") /\ DelayOver(irq_age)

Enter ==
  /\ pc = "polled"
  /\ NmiAccepted \/ (IrqWanted /\ last_opcode # "enables")
  /\ pc' = "serving"
  /\ stacked' = interrupt
  /\ interrupt' = TRUE
  /\ Cycles(5)
  /\ UNCHANGED <<lines, global_pending_int, ik, last_opcode, cpu_is_jammed, at_jam, restored>>

(* What follows reads no other flag of those polled. *)
KeepTraps == ik' = ik \cap {"TRAP", "RESET"}

Pass ==
  /\ pc = "polled"
  /\ ~NmiAccepted /\ ~(IrqWanted /\ last_opcode # "enables")
  /\ pc' = "traps" /\ KeepTraps
  /\ global_pending_int' = IF IrqWanted THEN global_pending_int \cup {"IRQPEND"} ELSE global_pending_int
  /\ UNCHANGED <<lines, times, cpu, stacked, restored>>

(* An NMI that arrives during the sequence takes it over. *)
NmiTakesOver == "NMI" \in global_pending_int /\ nmi_age >= INTERRUPT_DELAY

Serve(flags) ==
  /\ pc = "serving"
  /\ pc' = "traps" /\ KeepTraps
  /\ global_pending_int' = flags
  /\ stacked' = FALSE
  /\ last_opcode' = "BRK"
  /\ irq_age' = Older(irq_age, 2) /\ nmi_age' = Older(nmi_age, 2)
  /\ UNCHANGED <<lines, interrupt, cpu_is_jammed, at_jam, restored>>

ServeNmi == NmiTakesOver /\ Serve(AckNmi(global_pending_int)) /\ irq_pending' = Nearer(2)

ServeIrq == ~NmiTakesOver /\ Serve(AckIrq(global_pending_int)) /\ irq_pending' = Never

-----------------------------------------------------------------------------
(* A trap loads a snapshot: first the module of the CPU, then those of the   *)
(* chips, each of which restores its bits of pending_int and no count.       *)
(* Bounds: one snapshot in a batch of traps, saved with the ages 0 and an    *)
(* irq_pending_clk that is over or CLOCK_MAX.                                *)

Consistent(i, flags, pending) ==
  /\ "IRQ" \in flags <=> i # {}
  /\ "IRQPEND" \in flags /\ "IRQ" \notin flags => pending # Never

LoadCpu ==
  /\ pc = "traps" /\ "TRAP" \in ik
  /\ at_jam => JamMoves
  /\ \E i, n \in SUBSET Sources, flags \in SUBSET (Flags \ {"RESET"}), pending \in {0, Never} :
       /\ Consistent(i, flags, pending)
       /\ irq' = {} /\ nmi' = {}
       /\ restored' = [irq |-> i, nmi |-> n]
       /\ nirq' = Cardinality(i) /\ nnmi' = Cardinality(n)
       /\ global_pending_int' = flags
       /\ irq_pending' = pending
  /\ irq_age' = 0 /\ nmi_age' = 0
  /\ interrupt' \in BOOLEAN /\ last_opcode' = "plain" /\ at_jam' = FALSE
  /\ pc' = "loading"
  /\ UNCHANGED <<ik, stacked, cpu_is_jammed>>

LoadChip(s) ==
  /\ pc = "loading" /\ s \in restored.irq \cup restored.nmi
  /\ irq' = irq \cup ({s} \cap restored.irq)
  /\ nmi' = nmi \cup ({s} \cap restored.nmi)
  /\ restored' = [irq |-> restored.irq \ {s}, nmi |-> restored.nmi \ {s}]
  /\ UNCHANGED <<nirq, nnmi, times, cpu, global_pending_int, pc, ik, stacked>>

Loaded ==
  /\ pc = "loading" /\ restored.irq \cup restored.nmi = {}
  /\ pc' = "loaded"
  /\ UNCHANGED <<lines, times, cpu, global_pending_int, ik, stacked, restored>>

(* Mutation: a snapshot that cannot be loaded is given up where it failed. *)
LoadFails_Silently ==
  /\ pc = "loading"
  /\ pc' = "loaded"
  /\ restored' = [irq |-> {}, nmi |-> {}]
  /\ UNCHANGED <<lines, times, cpu, global_pending_int, ik, stacked>>

LoadFails ==
  /\ pc = "loading"
  /\ pc' = "loaded"
  /\ restored' = [irq |-> {}, nmi |-> {}]
  /\ global_pending_int' = global_pending_int \cup {"RESET"}
  /\ UNCHANGED <<lines, times, cpu, ik, stacked>>

LeaveTraps ==
  /\ pc \in {"traps", "loaded"}
  /\ pc' = "reset"
  /\ ik' = IF "TRAP" \in ik THEN ik \cup (global_pending_int \cap {"RESET"}) ELSE ik
  /\ UNCHANGED <<lines, times, cpu, global_pending_int, stacked, restored>>

Reset ==
  /\ pc = "reset" /\ "RESET" \in ik
  /\ pc' = "exec" /\ ik' = {}
  /\ irq' = {} /\ nmi' = {} /\ nirq' = 0 /\ nnmi' = 0
  /\ global_pending_int' = {}
  /\ irq_age' = Old /\ nmi_age' = Old /\ irq_pending' = Never
  /\ interrupt' = TRUE /\ cpu_is_jammed' = FALSE /\ at_jam' = FALSE
  /\ UNCHANGED <<last_opcode, stacked, restored>>

Resume ==
  /\ pc = "reset" /\ "RESET" \notin ik
  /\ pc' = "exec" /\ ik' = {}
  /\ global_pending_int' = IF "IRQ" \in global_pending_int THEN global_pending_int
                           ELSE global_pending_int \ {"IRQPEND"}
  /\ UNCHANGED <<lines, times, cpu, stacked, restored>>

Kinds == {"plain", "branch", "enables", "disables"}

Next ==
  \/ \E s \in Sources : PullIrq(s) \/ ReleaseIrq(s) \/ PullNmi(s) \/ ReleaseNmi(s) \/ LoadChip(s)
  \/ \E kind \in Kinds, i \in BOOLEAN : Opcode(kind, i)
  \/ TriggerReset \/ Brk \/ Jam \/ MonitorMoves
  \/ Poll \/ Enter \/ Pass \/ ServeNmi \/ ServeIrq
  \/ LoadCpu \/ Loaded \/ LoadFails \/ LeaveTraps \/ Reset \/ Resume

Spec == Init /\ [][Next]_vars

(***************************************************************************)
(* The CPU loop goes on, and traps return.                                 *)
(***************************************************************************)
Execute == Brk \/ Jam \/ (\E kind \in Kinds, i \in BOOLEAN : Opcode(kind, i))
Loading == Loaded \/ LoadFails \/ (\E s \in Sources : LoadChip(s))

FairSpec ==
  /\ Spec
  /\ WF_vars(Execute) /\ WF_vars(Poll) /\ WF_vars(Enter) /\ WF_vars(Pass)
  /\ WF_vars(ServeNmi) /\ WF_vars(ServeIrq) /\ WF_vars(Loading)
  /\ WF_vars(LeaveTraps) /\ WF_vars(Reset) /\ WF_vars(Resume)

-----------------------------------------------------------------------------
(* Every variable stays in its range. *)
TypeOK ==
  /\ irq \subseteq Sources /\ nmi \subseteq Sources
  /\ nirq \in 0 .. Cardinality(Sources) /\ nnmi \in 0 .. Cardinality(Sources)
  /\ global_pending_int \subseteq Flags
  /\ irq_age \in 0 .. Old /\ nmi_age \in 0 .. Old
  /\ irq_pending \in 0 .. Never
  /\ pc \in {"exec", "alarms", "polled", "serving", "traps", "loading", "loaded", "reset"}
  /\ ik \subseteq Flags \cup {"TRAP"}
  /\ interrupt \in BOOLEAN /\ stacked \in BOOLEAN
  /\ last_opcode \in Kinds \cup {"BRK"}
  /\ cpu_is_jammed \in BOOLEAN /\ at_jam \in BOOLEAN
  /\ restored \in [irq : SUBSET Sources, nmi : SUBSET Sources]

(* A snapshot that could not be loaded leaves the lines as they are, and the *)
(* reset it triggered comes before the next opcode.                          *)
HalfLoaded == pc \in {"loaded", "reset"} /\ "RESET" \in global_pending_int

(* interrupt_set_irq() reports a "wrong nirq!": the counts are the numbers   *)
(* of chips that pull, through resets and while a snapshot is loaded.        *)
CountsMatch ==
  \/ HalfLoaded
  \/ /\ nirq = Cardinality(irq \cup restored.irq)
     /\ nnmi = Cardinality(nmi \cup restored.nmi)

(* The CPU sees the IRQ line pulled exactly while a chip pulls it, except    *)
(* that a jammed CPU is made to see nothing until it is reset.               *)
IrqFollowsLine ==
  cpu_is_jammed \/ "RESET" \in ik \/ ("IRQ" \in global_pending_int <=> nirq > 0)

(* An IRQ that no chip asks for any more is forgotten in time. *)
LateIrqExpires ==
  "IRQPEND" \in global_pending_int /\ "IRQ" \notin global_pending_int => irq_pending # Never

(* The sequence fetches the IRQ vector only when an IRQ was polled and the   *)
(* I flag, or the opcode that has just set it, let it pass.                  *)
IrqIsAllowed ==
  pc = "serving" /\ ~NmiTakesOver =>
    {"IRQ", "IRQPEND"} \cap ik # {} /\ (~stacked \/ last_opcode = "disables")

(* "It should not be possible to remove the NMI condition, only              *)
(* interrupt_ack_nmi() should clear it" (interrupt.h): an edge that was      *)
(* latched is lost only to a jam, a reset or a snapshot.                     *)
NmiIsLatched ==
  [][ "NMI" \in global_pending_int /\ "NMI" \notin global_pending_int' =>
        cpu_is_jammed \/ ServeNmi \/ Brk \/ Reset \/ LoadCpu ]_vars

(* An NMI is served, whatever the program does. *)
NmiServed == "NMI" \in global_pending_int ~> "NMI" \notin global_pending_int

(* A program that leaves the I flag clear does not escape an IRQ. *)
IrqServed ==
  "IRQ" \in global_pending_int /\ ~interrupt /\ ~cpu_is_jammed
    ~> "IRQ" \notin global_pending_int \/ interrupt \/ cpu_is_jammed

=============================================================================
