-------------------------- MODULE InterruptSystem --------------------------
(***************************************************************************)
(* The interrupt path of the machine: device lines, the 8259 pair and the  *)
(* main loop of the CPU (cpu_exec, cpu.c), one action per iteration.       *)
(*                                                                         *)
(* An iteration latches the trap flag, consumes the interrupt shadow or    *)
(* acknowledges an interrupt, and then executes one instruction of a guest *)
(* that may run any program.  An exception, the single-step trap included, *)
(* restores the flags saved at the start of the iteration and enters its   *)
(* handler.  Devices raise and lower lines between iterations (timer       *)
(* callbacks) or through the ports an instruction accesses.                *)
(***************************************************************************)
EXTENDS I8259

CONSTANTS
  DeviceLines,  \* the <<chip, line>> pairs devices are wired to
  Program       \* the instructions the guest may execute, in any order

\* No device drives the cascade input.  (The guest can route a PCI pin to
\* it; PciInterrupts treats that case.)
ASSUME DeviceLinesAssumption ==
    DeviceLines \subseteq (Chip \X Line) \ {<<"master", Cascade>>}

VARIABLES
  pics,        \* the controllers
  cpu,         \* the part of CPU_t that decides about interrupts
  taken,       \* vector accepted by the last step, or NoVector
  rolledBack   \* did the last step end in the exception rollback?

vars == <<pics, cpu, taken, rolledBack>>

NoVector == 256

\* trap is trap_toggle, shadow is interrupt_inhibit, hlt is hltstate
Cpu == [ ifl : BOOLEAN, tf : BOOLEAN, trap : BOOLEAN, shadow : BOOLEAN,
         hlt : BOOLEAN ]

-----------------------------------------------------------------------------
(* Instructions, as far as this path can tell them apart                   *)

Simple == [ op : {"other", "cli", "sti", "movss", "hlt", "int", "fault",
                  "reset"} ]
Flags  == [ op : {"flags"}, ifl : BOOLEAN, tf : BOOLEAN ]   \* POPF, IRET

Instr == Simple \cup Flags \cup PicWrite

ASSUME ProgramAssumption == Program \subseteq Instr

CpuAfter(i, c) ==
    CASE i.op = "cli"   -> [ c EXCEPT !.ifl = FALSE ]
      [] i.op = "sti"   -> [ c EXCEPT !.ifl = TRUE, !.shadow = TRUE ]
      [] i.op = "movss" -> [ c EXCEPT !.shadow = TRUE ]
      [] i.op = "hlt"   -> [ c EXCEPT !.hlt = TRUE ]
      [] i.op = "int"   -> [ c EXCEPT !.ifl = FALSE, !.tf = FALSE ]
      [] i.op = "flags" -> [ c EXCEPT !.ifl = i.ifl, !.tf = i.tf ]
      [] i.op = "reset" -> [ c EXCEPT !.hlt = FALSE, !.trap = FALSE,
                                      !.shadow = FALSE ]
      [] OTHER          -> c

-----------------------------------------------------------------------------
(* One iteration of cpu_exec                                               *)

TrapDue == cpu.trap     \* exception(1) is raised before anything else

\* The shadow delays the check by one iteration, a due trap replaces it.
Checks      == ~cpu.shadow /\ ~TrapDue
Accepts     == Checks /\ ~cpu.tf /\ cpu.ifl /\ HasPending(pics, "master")
Interrupted == Accepts /\ ~Spurious(pics)

PicsStart == IF Accepts THEN AfterCheck(pics) ELSE pics

\* Entering a handler: a trap gate keeps the interrupt flag, an interrupt
\* gate and real mode clear it.
Enter(c, ifl, clears) ==
    [ c EXCEPT !.ifl = ifl /\ ~clears, !.tf = FALSE ]

CpuStart(clears) ==
    LET latched == [ cpu EXCEPT !.trap = cpu.tf, !.shadow = FALSE ]
    IN  IF Interrupted
        THEN [ Enter(latched, cpu.ifl, clears) EXCEPT !.hlt = FALSE ]
        ELSE latched

Accepted == taken' = IF Interrupted THEN CheckVector(pics) ELSE NoVector

\* hltstate skips the instruction and the exception handling behind it, a
\* due single-step trap included.
Halted ==
    /\ CpuStart(TRUE).hlt
    /\ pics' = PicsStart
    /\ cpu' = CpuStart(TRUE)
    /\ rolledBack' = FALSE
    /\ Accepted

Faults(i) == TrapDue \/ i.op = "fault"

\* The rollback restores registers and flags, but not the controllers,
\* hltstate, the shadow or trap_toggle.
Execute(i, clears) ==
    LET start == CpuStart(clears)
        after == CpuAfter(i, start)
    IN  /\ ~start.hlt
        /\ pics' = PicsAfter(i, PicsStart)
        /\ cpu' = IF Faults(i) THEN Enter(after, start.ifl, clears) ELSE after
        /\ rolledBack' = Faults(i)
        /\ Accepted

-----------------------------------------------------------------------------
(* Devices and the reset line                                              *)

Quiet == taken' = NoVector /\ rolledBack' = FALSE

Raise(c, n) == pics' = DoIrq(pics, c, n) /\ UNCHANGED cpu /\ Quiet

Lower(c, n) == pics' = ClearIrq(pics, c, n) /\ UNCHANGED cpu /\ Quiet

\* machine_platform_reset from a timer callback: cpu_reset leaves the flags,
\* and nothing resets the controllers.
PlatformReset ==
    /\ cpu' = CpuAfter([op |-> "reset"], cpu)
    /\ UNCHANGED pics
    /\ Quiet

Init ==
    /\ pics = PowerOn
    /\ cpu = [ ifl |-> FALSE, tf |-> FALSE, trap |-> FALSE, shadow |-> FALSE,
               hlt |-> FALSE ]
    /\ taken = NoVector
    /\ rolledBack = FALSE

Next ==
    \/ Halted
    \/ \E i \in Program, clears \in BOOLEAN : Execute(i, clears)
    \/ \E l \in DeviceLines : Raise(l[1], l[2]) \/ Lower(l[1], l[2])
    \/ PlatformReset

Spec == Init /\ [][Next]_vars

-----------------------------------------------------------------------------
(* Properties                                                              *)

\* Registers and flags stay in their ranges; in particular icwstep is never
\* a step that i8259_write does not handle.
TypeOK ==
    /\ pics \in PicState
    /\ cpu \in Cpu
    /\ taken \in 0 .. NoVector
    /\ rolledBack \in BOOLEAN

\* The master requests line 2 only while the slave really has an unmasked
\* request and no slave interrupt is in service: whatever order of masks,
\* EOIs, line changes and acknowledges led here, the CPU never starts an
\* acknowledge cycle that the slave cannot answer.  And no slave request is
\* stranded: once the guest has masked something on the slave, a pending
\* slave request shows on the master as soon as no slave interrupt is in
\* service.  (After ICW1 has cleared the mask the cascade is stale until the
\* next EOI, mask write or line change.)
CascadeExact == Backed(pics) /\ NotLost(pics)

\* Consequence: the branch of cpu_interruptCheck for an empty slave is dead.
NoSpurious == ~ (HasPending(pics, "master") /\ Spurious(pics))

\* A latched request disappears only when its line is lowered, when it is
\* accepted, or when an EOI reaches it: a specific one for its line, or a
\* non-specific one while an earlier request of the line is in service.
RequestKept ==
    [][ \A l \in DeviceLines :
          LET c == l[1]  n == l[2]
              acked == taken' = n + pics[c].intoffset
          IN  n \in pics[c].irr /\ n \notin pics'[c].irr
              => \/ acked \/ n \in pics[c].isr
                 \/ Lower(c, n)
                 \/ \E i \in Program :
                      /\ i \in [ op : {"eoiN"}, chip : {c}, line : {n} ]
                      /\ pics' = PicsAfter(i, PicsStart) ]_vars

\* Every vector the CPU takes is the one of a device line that was requesting
\* and unmasked in that very iteration, through an unmasked cascade when it
\* is on the slave, and with interrupts enabled.
TakenWasWanted ==
    [][ taken' # NoVector =>
          /\ cpu.ifl
          /\ \E l \in DeviceLines :
               /\ l[2] \in Pending(pics, l[1])
               /\ l[1] = "slave" => Cascade \in Pending(pics, "master")
               /\ taken' = l[2] + pics[l[1]].intoffset ]_vars

\* "the faulting instruction should not modify anything" (cpu.c, at the
\* rollback): an instruction that was rolled back has not halted the CPU.
FaultLeavesCpuRunning == rolledBack => ~cpu.hlt
=============================================================================
