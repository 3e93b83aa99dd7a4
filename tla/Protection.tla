----------------------------- MODULE Protection -----------------------------
(***************************************************************************)
(* Protected mode: how control passes between privilege levels (cpu.c,     *)
(* cpuhelper.h).  Interrupts and exceptions through the IDT, far calls,    *)
(* jumps and returns, IRET, hardware task switches, virtual-8086 mode and  *)
(* the loads of segment registers, each with the checks of the code in the *)
(* code's order, and the loop of cpu_exec that rolls a faulting            *)
(* instruction back.                                                       *)
(*                                                                         *)
(* Selectors are pairs of a table index and an RPL.  Memory is what these  *)
(* transfers write: the frames on the stacks, the TSS images and their     *)
(* busy bits.  One data segment register stands for DS, ES, FS and GS,     *)
(* which are treated alike.  The stack pointer counts frames.              *)
(***************************************************************************)
EXTENDS Integers, Sequences

CONSTANTS
  Gdt,      \* index -> descriptor [kind, dpl, present, ...]; 0 is no index
  Idt,      \* vector -> gate [type, dpl, present, sel]
  Guests,   \* [ops, depth]: the instructions a guest executes, and the
            \* frames its stack of level 0 may hold
  Irqs,     \* vectors of hardware interrupts
  FirstTask,         \* the TSS in TR at the start
  HandlerMayFault,   \* may the first instruction of an IRQ handler fault?
  MaxDepth  \* the largest of these depths; an outer stack holds one frame

Null == <<0, 0>>
Index(sel) == sel[1]
Rpl(sel) == sel[2]

\* Larger of two privilege numbers: the effective privilege of a selector.
Weaker(a, b) == IF a > b THEN a ELSE b

-----------------------------------------------------------------------------
(* Descriptors                                                             *)

Known(sel)      == Index(sel) \in DOMAIN Gdt
D(sel)          == Gdt[Index(sel)]
IsCode(sel)     == D(sel).kind \in {"code", "conforming"}
Conforming(sel) == D(sel).kind = "conforming"
IsTss(sel)      == D(sel).kind = "tss"

NoVector == 0

\* cpu_validate_stack_selector
StackFault(sel, cpl, invalid, absent) ==
    IF Index(sel) = 0 \/ ~Known(sel) \/ D(sel).kind # "data" THEN invalid
    ELSE IF ~D(sel).present THEN absent
    ELSE IF Rpl(sel) # cpl \/ D(sel).dpl # cpl THEN invalid
    ELSE NoVector

\* cpu_read_code_desc
CodeFault(sel) ==
    IF Index(sel) = 0 \/ ~Known(sel) \/ ~IsCode(sel) THEN 13
    ELSE IF ~D(sel).present THEN 11
    ELSE NoVector

\* cpu_validate_gate_target_code
GateTargetFault(sel, cpl) ==
    IF CodeFault(sel) # NoVector THEN CodeFault(sel)
    ELSE IF D(sel).dpl > cpl THEN 13 ELSE NoVector

GateTargetCpl(sel, cpl) == IF Conforming(sel) THEN cpl ELSE D(sel).dpl

\* cpu_validate_direct_call_target
DirectFault(sel, cpl) ==
    IF CodeFault(sel) # NoVector THEN CodeFault(sel)
    ELSE IF \/ Conforming(sel) /\ D(sel).dpl > Weaker(Rpl(sel), cpl)
            \/ ~Conforming(sel) /\ (D(sel).dpl # cpl \/ Rpl(sel) > cpl)
    THEN 13 ELSE NoVector

\* Mutant of ReturnFault: a return may go inwards.
ReturnFaultLoose(sel, cpl) ==
    IF CodeFault(sel) # NoVector THEN CodeFault(sel)
    ELSE IF ~Conforming(sel) /\ D(sel).dpl # Rpl(sel) THEN 13 ELSE NoVector

\* cpu_validate_return_cs
ReturnFault(sel, cpl) ==
    IF CodeFault(sel) # NoVector THEN CodeFault(sel)
    ELSE IF \/ Conforming(sel) /\ (Rpl(sel) # cpl \/ D(sel).dpl > cpl)
            \/ ~Conforming(sel) /\ (Rpl(sel) < cpl \/ D(sel).dpl # Rpl(sel))
    THEN 13 ELSE NoVector

ReturnCpl(sel, cpl) == IF Conforming(sel) THEN cpl ELSE Rpl(sel)

\* cpu_segment_usable_at_cpl
Usable(sel, cpl) ==
    \/ Index(sel) = 0
    \/ /\ Known(sel)
       /\ D(sel).present
       /\ \/ D(sel).kind \in {"data", "rodata", "code"}
             /\ D(sel).dpl >= Weaker(cpl, Rpl(sel))
          \/ D(sel).kind = "conforming"

-----------------------------------------------------------------------------
(* The state: registers, memory, and the exception an instruction raised   *)

Flags == [ ifl : BOOLEAN, nt : BOOLEAN, v86 : BOOLEAN, iopl : {0, 3} ]

\* The macro exception(): the first one stands.
Raise(s, vec) == IF s.fault = NoVector THEN [ s EXCEPT !.fault = vec ] ELSE s

\* A frame: what an interrupt or a far call pushes.  The fields a form does
\* not push read as nothing in particular: a null selector.
Frame(s, form, ip) ==
    [ form |-> form, cs |-> s.r.cs, ip |-> ip, ss |-> s.r.ss, sp |-> s.r.sp,
      ds |-> IF s.r.fl.v86 THEN s.r.ds ELSE Null, fl |-> s.r.fl ]

\* Without the inner stack's part
Short(f) == [ f EXCEPT !.ss = Null, !.sp = 0 ]

Push(s, f) ==
    LET at == <<Index(s.r.ss), s.r.sp + 1>>
    IN  [ s EXCEPT !.r.sp = @ + 1, !.m.ram[at] = f ]

NoFrame == [ form |-> "none" ]

Top(s) ==
    LET at == <<Index(s.r.ss), s.r.sp>>
    IN  IF at \in DOMAIN s.m.ram THEN s.m.ram[at] ELSE NoFrame

\* What lies beyond the stack pointer, and on a stack that was left for an
\* outer level, is the guest's to overwrite: it is forgotten, not kept.
Pop(s) == [ s EXCEPT !.m.ram[<<Index(s.r.ss), s.r.sp>>] = NoFrame,
                     !.r.sp = @ - 1 ]

Abandon(s) ==
    [ s EXCEPT !.m.ram = [ at \in DOMAIN @ |->
                             IF at[1] = Index(s.r.ss) THEN NoFrame ELSE @[at] ] ]

-----------------------------------------------------------------------------
(* Segment registers                                                       *)

\* putsegreg for CS, SS and the data segments
LoadCs(s, sel) ==
    IF s.r.fl.v86 THEN [ s EXCEPT !.r.cs = sel, !.r.cpl = 3 ]
    ELSE IF Index(sel) = 0 \/ ~Known(sel) THEN Raise(s, 13)
    ELSE IF ~D(sel).present THEN Raise(s, 11)
    ELSE IF ~IsCode(sel) THEN Raise(s, 13)
    ELSE [ s EXCEPT !.r.cs = sel, !.r.cpl = Rpl(sel) ]

LoadSs(s, sel) ==
    IF s.r.fl.v86 THEN [ s EXCEPT !.r.ss = sel ]
    ELSE IF Index(sel) = 0 \/ ~Known(sel) THEN Raise(s, 13)
    ELSE IF ~D(sel).present THEN Raise(s, 12)
    ELSE IF StackFault(sel, s.r.cpl, 13, 12) # NoVector THEN Raise(s, 13)
    ELSE [ s EXCEPT !.r.ss = sel ]

LoadDs(s, sel) ==
    IF s.r.fl.v86 THEN [ s EXCEPT !.r.ds = sel ]
    ELSE IF Index(sel) = 0 THEN [ s EXCEPT !.r.ds = Null ]
    ELSE IF ~Known(sel) THEN Raise(s, 13)
    ELSE IF ~D(sel).present THEN Raise(s, 11)
    ELSE IF ~Usable(sel, s.r.cpl) THEN Raise(s, 13)
    ELSE [ s EXCEPT !.r.ds = sel ]

\* Mutant of Cleanup: the data segments are kept.
CleanupKeeps(s, cpl) == s

\* cpu_cleanup_outer_return_segments
Cleanup(s, cpl) ==
    IF Usable(s.r.ds, cpl) THEN s ELSE [ s EXCEPT !.r.ds = Null ]

-----------------------------------------------------------------------------
(* Task switches                                                           *)

TssFault(s, i) ==
    IF i \in DOMAIN Gdt /\ Gdt[i].kind = "tss" /\ Gdt[i].present
    THEN NoVector ELSE 10

Image(s) == [ cs |-> s.r.cs, ss |-> s.r.ss, ds |-> s.r.ds, sp |-> s.r.sp,
              ip |-> s.r.ip, fl |-> s.r.fl ]

\* The half of task_switch that writes: the old task is saved unless it
\* returns, the busy bits follow the reason, a nested task is linked back.
LeaveTask(s, i, reason) ==
    LET old == s.r.tr
        left == IF reason \in {"jmp", "iret"} THEN s.m.busy \ {old}
                ELSE s.m.busy \cup {old}
    IN  [ s EXCEPT
            !.m.busy = IF reason = "iret" THEN left ELSE left \cup {i},
            !.m.tss = [ j \in DOMAIN @ |->
              [ image |-> IF j = old /\ reason # "iret" THEN Image(s)
                          ELSE @[j].image,
                link |-> IF j = i /\ reason \in {"call", "gate"} THEN old
                         ELSE @[j].link ] ] ]

\* The half that loads.  It stops at the first segment that faults, and, when
\* an exception is being delivered already, after CS.
EnterTask(s, i, reason) ==
    LET t  == s.m.tss[i].image
        s1 == LoadCs([ s EXCEPT !.r.ip = t.ip, !.r.sp = t.sp ], t.cs)
        s2 == LoadSs(s1, t.ss)
        s3 == LoadDs(s2, t.ds)
    IN  IF s1.fault # NoVector THEN s1
        ELSE IF s2.fault # NoVector THEN s2
        ELSE IF s3.fault # NoVector THEN s3
        ELSE [ s3 EXCEPT !.r.tr = i,
                 !.r.fl = [ t.fl EXCEPT !.nt = reason \in {"call", "gate"} ] ]

TaskSwitch(s, i, reason) ==
    IF TssFault(s, i) # NoVector THEN Raise(s, 10)
    ELSE EnterTask(LeaveTask(s, i, reason), i, reason)

\* cpu_resolve_task_switch_target, for a far call or jump
TaskTarget(sel) == IF D(sel).kind = "taskgate" THEN D(sel).sel ELSE sel

TaskTargetFault(s, sel) ==
    LET target == TaskTarget(sel)
        epl == Weaker(Rpl(sel), s.r.cpl)
    IN  IF epl > D(sel).dpl THEN 13
        ELSE IF D(sel).kind = "taskgate" /\ ~D(sel).present THEN 11
        ELSE IF Index(target) = 0 \/ ~Known(target) \/ ~IsTss(target) THEN 13
        ELSE IF ~D(target).present THEN 11
        ELSE IF Index(target) \in s.m.busy THEN 13
        ELSE NoVector

-----------------------------------------------------------------------------
(* Interrupts and exceptions: cpu_intcall in protected mode                *)

Is16(gate) == gate.type \in {"int16", "trap16"}

IntFault(s, vec, source) ==
    IF s.r.fl.v86 /\ source = "software" /\ s.r.fl.iopl < 3 THEN 13
    ELSE IF vec \notin DOMAIN Idt THEN 13
    ELSE LET gate == Idt[vec]
         IN  IF s.r.cpl > gate.dpl /\ source = "software" THEN 13
             ELSE IF gate.type = "other" THEN 13
             ELSE IF ~gate.present THEN 11
             ELSE NoVector

\* The flags a handler starts with
HandlerFlags(fl, gate, outer) ==
    [ fl EXCEPT !.nt = FALSE, !.v86 = @ /\ ~outer,
                !.ifl = @ /\ gate.type \in {"trap32", "trap16"},
                !.iopl = IF outer /\ Is16(gate) THEN 0 ELSE @ ]

Form(gate) == IF Is16(gate) THEN "int16" ELSE "int32"

\* Sixteen bits of the flags hold neither VM nor the upper word.
Kept(f) == IF f.form = "int16" THEN [ f EXCEPT !.fl.v86 = FALSE ] ELSE f

\* Mutant of EnterInner: the frame has the flags of the handler.
EnterInnerAsBefore(s, gate, ip) ==
    LET cpl == GateTargetCpl(gate.sel, s.r.cpl)
        s1  == Push([ s EXCEPT !.r.ss = Gdt[s.r.tr].ss0, !.r.sp = 0,
                        !.r.fl = HandlerFlags(@, gate, TRUE) ],
                    Frame([ s EXCEPT !.r.fl = HandlerFlags(@, gate, TRUE) ],
                          Form(gate), ip))
    IN  [ LoadCs(s1, <<Index(gate.sel), cpl>>) EXCEPT
            !.r.ip = 0, !.r.cpl = cpl ]

\* Through the gate to a more privileged level, or out of virtual-8086 mode:
\* the stack comes from the TSS and the old one is the frame's first part.
EnterInner(s, gate, ip) ==
    LET cpl  == GateTargetCpl(gate.sel, s.r.cpl)
        ss0  == Gdt[s.r.tr].ss0
        bad  == IF cpl > 2 THEN 10 ELSE StackFault(ss0, cpl, 10, 12)
        f    == Kept(Frame(s, Form(gate), ip))
        s1   == Push([ s EXCEPT !.r.ss = ss0, !.r.sp = 0,
                                !.r.fl = HandlerFlags(@, gate, TRUE) ], f)
    IN  IF bad # NoVector THEN Raise(s, bad)
        ELSE [ LoadCs(s1, <<Index(gate.sel), cpl>>) EXCEPT
                 !.r.ip = 0, !.r.cpl = cpl ]

EnterSame(s, gate, ip) ==
    LET s1 == Push(s, Kept(Short(Frame(s, Form(gate), ip))))
    IN  [ LoadCs(s1, <<Index(gate.sel), s.r.cpl>>) EXCEPT
            !.r.ip = 0, !.r.fl = HandlerFlags(@, gate, FALSE) ]

IntCall(s, vec, source, ip) ==
    IF IntFault(s, vec, source) # NoVector
    THEN Raise(s, IntFault(s, vec, source))
    ELSE LET gate == Idt[vec]
             bad  == GateTargetFault(gate.sel, s.r.cpl)
             inner == \/ s.r.fl.v86
                      \/ GateTargetCpl(gate.sel, s.r.cpl) < s.r.cpl
         IN  IF gate.type = "task"
             THEN TaskSwitch(s, Index(gate.sel), "gate")
             ELSE IF bad # NoVector THEN Raise(s, bad)
             ELSE IF inner THEN EnterInner(s, gate, ip)
             ELSE EnterSame(s, gate, ip)

-----------------------------------------------------------------------------
(* Far calls, jumps and returns                                            *)

GateFault(s, sel) ==
    IF Weaker(Rpl(sel), s.r.cpl) > D(sel).dpl THEN 13
    ELSE IF ~D(sel).present THEN 11
    ELSE GateTargetFault(D(sel).sel, s.r.cpl)

IsTask(sel) == D(sel).kind \in {"tss", "taskgate"}

FarFault(s, sel) ==
    IF Index(sel) = 0 \/ ~Known(sel) THEN 13
    ELSE IF IsCode(sel) THEN DirectFault(sel, s.r.cpl)
    ELSE IF IsTask(sel) THEN TaskTargetFault(s, sel)
    ELSE IF D(sel).kind = "callgate" THEN GateFault(s, sel)
    ELSE 13

\* To a code segment, at the level of the caller: cpu_callf, cpu_jmpf
Direct(s, i, ip) == [ LoadCs(s, <<i, s.r.cpl>>) EXCEPT !.r.ip = ip ]

\* Through a call gate to an inner level
CallInner(s, sel) ==
    LET target == D(sel).sel
        cpl == D(target).dpl
        ss0 == Gdt[s.r.tr].ss0
        bad == StackFault(ss0, cpl, 10, 12)
        s1  == Push([ s EXCEPT !.r.ss = ss0, !.r.sp = 0 ],
                    Frame(s, "far", s.r.ip))
    IN  IF bad # NoVector THEN Raise(s, bad)
        ELSE [ LoadCs(s1, <<Index(target), cpl>>) EXCEPT !.r.ip = 0,
                                                         !.r.cpl = cpl ]

CallF(s, sel) ==
    LET far == Short(Frame(s, "far", s.r.ip))
    IN  IF s.r.fl.v86 THEN LoadCs(Push(s, far), sel)
        ELSE IF FarFault(s, sel) # NoVector THEN Raise(s, FarFault(s, sel))
        ELSE IF IsCode(sel) THEN Direct(Push(s, far), Index(sel), 0)
        ELSE IF IsTask(sel) THEN TaskSwitch(s, Index(TaskTarget(sel)), "call")
        ELSE IF GateTargetCpl(D(sel).sel, s.r.cpl) < s.r.cpl
        THEN CallInner(s, sel)
        ELSE Direct(Push(s, far), Index(D(sel).sel), 0)

\* A jump may not change the level: an inner target of a gate is refused.
JmpF(s, sel) ==
    IF s.r.fl.v86 THEN LoadCs(s, sel)
    ELSE IF FarFault(s, sel) # NoVector THEN Raise(s, FarFault(s, sel))
    ELSE IF IsCode(sel) THEN Direct(s, Index(sel), 0)
    ELSE IF IsTask(sel) THEN TaskSwitch(s, Index(TaskTarget(sel)), "jmp")
    ELSE IF GateTargetCpl(D(sel).sel, s.r.cpl) < s.r.cpl THEN Raise(s, 13)
    ELSE Direct(s, Index(D(sel).sel), 0)

\* To the outer level: SS and the stack pointer from the frame, and the data
\* segments the new level may not use are nulled.
ToOuter(s, f) ==
    LET cpl == ReturnCpl(f.cs, s.r.cpl)
        s1 == [ Abandon(s) EXCEPT !.r.ss = f.ss, !.r.sp = f.sp, !.r.cs = f.cs,
                                 !.r.cpl = cpl, !.r.ip = f.ip ]
    IN  IF StackFault(f.ss, cpl, 13, 12) # NoVector
        THEN Raise(s, StackFault(f.ss, cpl, 13, 12))
        ELSE Cleanup(s1, cpl)

RetF(s, f) ==
    IF ~s.r.fl.v86 /\ ReturnFault(f.cs, s.r.cpl) # NoVector
    THEN Raise(s, ReturnFault(f.cs, s.r.cpl))
    ELSE IF ~s.r.fl.v86 /\ ReturnCpl(f.cs, s.r.cpl) > s.r.cpl
    THEN ToOuter(s, f)
    ELSE [ LoadCs(Pop(s), f.cs) EXCEPT !.r.ip = f.ip ]

\* cpu_restore_iret_flags: the level before the return decides what of the
\* flags is restored.
RestoreFlags(s, fl, cpl) ==
    LET old == s.r.fl
    IN  [ s EXCEPT !.r.fl =
            [ nt   |-> fl.nt,
              v86  |-> old.v86,
              ifl  |-> IF cpl <= old.iopl THEN fl.ifl ELSE old.ifl,
              iopl |-> IF cpl = 0 THEN fl.iopl ELSE old.iopl ] ]

\* cpu_iret.  The return to virtual-8086 mode is decided by the frame alone,
\* and only level 0 may make it.
ToV86(s, f) ==
    [ Abandon(s) EXCEPT !.r.fl = f.fl, !.r.cpl = 3, !.r.cs = f.cs,
                       !.r.ss = f.ss, !.r.ds = f.ds, !.r.sp = f.sp,
                       !.r.ip = f.ip ]

IretSame(s, f) ==
    RestoreFlags([ LoadCs(Pop(s), f.cs) EXCEPT !.r.ip = f.ip ], f.fl, s.r.cpl)

IretOuter(s, f) ==
    LET s1 == ToOuter(s, f)
    IN  IF s1.fault # s.fault THEN s1 ELSE RestoreFlags(s1, f.fl, s.r.cpl)

Iret(s, f) ==
    IF s.r.fl.v86
    THEN IF s.r.fl.iopl < 3 THEN Raise(s, 13) ELSE IretSame(s, f)
    ELSE IF s.r.fl.nt THEN TaskSwitch(s, s.m.tss[s.r.tr].link, "iret")
    ELSE IF f.form = "int32" /\ f.fl.v86
    THEN IF s.r.cpl # 0 THEN Raise(s, 13) ELSE ToV86(s, f)
    ELSE IF ReturnFault(f.cs, s.r.cpl) # NoVector
    THEN Raise(s, ReturnFault(f.cs, s.r.cpl))
    ELSE IF ReturnCpl(f.cs, s.r.cpl) > s.r.cpl THEN IretOuter(s, f)
    ELSE IretSame(s, f)

-----------------------------------------------------------------------------
(* Instructions                                                            *)

\* POPF: the flags that may change depend on the level.
PopF(s, fl) ==
    IF s.r.fl.v86 /\ s.r.fl.iopl < 3 THEN Raise(s, 13)
    ELSE RestoreFlags(s, fl, s.r.cpl)

\* LTR of a TSS descriptor
Ltr(s, i) ==
    IF ~Gdt[i].present THEN Raise(s, 11)
    ELSE IF s.r.cpl > Gdt[i].dpl THEN Raise(s, 13)
    ELSE [ s EXCEPT !.r.tr = i, !.m.busy = @ \cup {i} ]

\* A return needs a frame of its form on the stack, or one the guest has
\* written there itself (field f).
Runnable(s, i) ==
    CASE i.op = "retf" -> Top(s).form = "far"
      [] i.op = "iret" -> \/ Top(s).form \in {"int16", "int32"}
                          \/ s.r.fl.nt /\ ~s.r.fl.v86
      [] OTHER -> TRUE

Exec(s, i) ==
    LET n == [ s EXCEPT !.r.ip = 1 - @ ]
    IN  CASE i.op = "nop"     -> n
          [] i.op = "fault"   -> Raise(n, i.vec)
          [] i.op = "int"     -> IntCall(n, i.vec, "software", n.r.ip)
          [] i.op = "callf"   -> CallF(n, i.sel)
          [] i.op = "jmpf"    -> JmpF(n, i.sel)
          [] i.op = "retf"    -> RetF(n, Top(n))
          [] i.op = "iret"    -> Iret(n, Top(n))
          [] i.op = "ownretf" -> RetF(Push(n, i.f), i.f)
          [] i.op = "owniret" -> Iret(Push(n, i.f), i.f)
          [] i.op = "movss"   -> LoadSs(n, i.sel)
          [] i.op = "movds"   -> LoadDs(n, i.sel)
          [] i.op = "popf"    -> PopF(n, i.fl)
          [] i.op = "ltr"     -> Ltr(n, i.sel[1])

-----------------------------------------------------------------------------
(* What the tables and the guests are                                      *)

Operations == { "nop", "fault", "int", "callf", "jmpf", "retf", "iret",
                "ownretf", "owniret", "movss", "movds", "popf", "ltr" }

\* A code segment that code of level cpl may run in
CodeOfLevel(sel, cpl) ==
    /\ Rpl(sel) = cpl
    /\ CodeFault(sel) = NoVector
    /\ IF Conforming(sel) THEN D(sel).dpl <= cpl ELSE D(sel).dpl = cpl

\* Code and flags that a task may be started with: putsegreg loads any
\* code segment with any RPL (cpu.c), it is the system that keeps them equal.
Startable(t) ==
    /\ t.fl \in Flags /\ ~t.fl.v86 /\ t.sp \in Int
    /\ Rpl(t.cs) \in 0 .. 3 /\ CodeOfLevel(t.cs, Rpl(t.cs))

ASSUME TablesAssumption ==
  /\ MaxDepth \in Nat
  /\ 0 \notin DOMAIN Gdt /\ \A i \in DOMAIN Gdt : Gdt[i].dpl \in 0 .. 3
  /\ \A i \in DOMAIN Gdt : Gdt[i].kind = "tss" => Startable(Gdt[i].image)
  /\ FirstTask \in DOMAIN Gdt /\ StackFault(Gdt[FirstTask].ss0, 0, 13, 12) = NoVector
  /\ \A g \in Guests : \A o \in g.ops :
       /\ o.op \in Operations
       /\ o.op = "fault" => o.vec # NoVector
       /\ o.op = "popf" => o.fl \in Flags
       /\ o.op = "ownretf" => o.f.form = "far" /\ o.f.sp \in Int
       /\ o.op = "owniret" => /\ o.f.form \in {"int16", "int32"}
                              /\ o.f.fl \in Flags /\ o.f.sp \in Int

\* What the code does not do right for every system.  A task switch loads the
\* segments before the flags, so that one out of virtual-8086 mode loads them
\* without looking at descriptors, and one that an exception causes stops
\* after CS, because of the exception.  A direct transfer to a conforming
\* segment compares its DPL with the weaker of level and RPL.  These systems
\* never meet that: their interrupts and exceptions have no task gates, nor
\* do the INTs of virtual-8086 programs, and conforming code has DPL 0.
TaskGate(vec) == vec \in DOMAIN Idt /\ Idt[vec].type = "task"
Raised(g)     == {10, 11, 12, 13} \cup
                 { o.vec : o \in { x \in g.ops : x.op = "fault" } }
MakesV86(o)   == o.op = "owniret" /\ o.f.form = "int32" /\ o.f.fl.v86
RunsV86(g)    == \E o \in g.ops : MakesV86(o)

TasksApart ==
    /\ \A vec \in Irqs : ~TaskGate(vec)
    /\ \A g \in Guests :
         /\ \A vec \in Raised(g) : ~TaskGate(vec)
         /\ RunsV86(g) => \A o \in g.ops : o.op = "int" => ~TaskGate(o.vec)
    /\ \A i \in DOMAIN Gdt : Gdt[i].kind = "conforming" => Gdt[i].dpl = 0

-----------------------------------------------------------------------------
(* The loop: an interrupt and one instruction per iteration                *)

VARIABLES
  guest,     \* what this guest executes
  r,         \* the registers
  m,         \* memory: [ram, tss, busy]
  waiting,   \* the contexts that handlers entered have interrupted, with the
             \* frames pushed for them, the last one last
  returned   \* how the last step returned from a handler, if it did

protection == <<guest, r, m, waiting, returned>>

NoIrq == -1

Entered(before, after) == after.m.ram # before.m.ram

\* before.r with the instruction pointer a return shall find
Context(before, after, ip) ==
    [ form |-> Top(after).form,
      r |-> [ before.r EXCEPT !.ip = ip, !.ds = Top(after).ds ],
      ss |-> after.r.ss, sp |-> after.r.sp, frame |-> Top(after) ]

With(calls, before, after, ip) ==
    IF Entered(before, after) THEN Append(calls, Context(before, after, ip))
    ELSE IF after.r.tr # before.r.tr THEN <<>> ELSE calls

\* Does an IRET return from the handler entered last?
Matches(s, calls) ==
    /\ calls # <<>> /\ ~s.r.fl.nt /\ ~s.r.fl.v86
    /\ calls[Len(calls)].ss = s.r.ss
    /\ calls[Len(calls)].sp = s.r.sp

Calls(s, i, after, calls) ==
    CASE i.op = "int" -> With(calls, s, after, 1 - s.r.ip)
      [] i.op = "iret" -> IF Matches(s, calls)
                          THEN SubSeq(calls, 1, Len(calls) - 1) ELSE <<>>
      [] i.op \in {"nop", "movds", "popf", "fault"} -> calls
      [] OTHER -> <<>>

\* Has the return restored the context?  A 16-bit frame cannot hold the
\* virtual-8086 mode, and only level 0 may restore all the flags; the data
\* segments come back with the return to virtual-8086 mode.
Outcome(before, after, c) ==
    LET same == /\ [ after.r EXCEPT !.ds = Null ] = [ c.r EXCEPT !.ds = Null ]
                /\ c.r.fl.v86 => after.r.ds = c.r.ds
    IN  CASE before.r.cpl # 0 \/ (c.form = "int16" /\ c.r.fl.v86) -> "lossy"
          [] OTHER -> IF same THEN "exact" ELSE "wrong"

\* The exception is delivered from the registers saved when the instruction
\* began, after the interrupt was taken; the write cache that is dropped
\* holds everything the iteration has written.
Rollback(s0, s1, s2) ==
    [ r |-> [ s1.r EXCEPT !.ip = s2.r.ip ], m |-> s0.m, fault |-> s2.fault ]

\* The state after the delivery, where there is something to deliver
Delivered(s0, s1, s2) ==
    IF s2.fault = NoVector THEN s2
    ELSE IntCall(Rollback(s0, s1, s2), s2.fault, "exception", s1.r.ip)

\* From s0 the interrupt leads to s1, the instruction to s2, the delivery to s3.
Ends(irq, i, s0, s1, s2, s3) ==
    LET faulted == s2.fault # NoVector
        calls1 == IF irq = NoIrq THEN waiting ELSE With(waiting, s0, s1, s0.r.ip)
    IN  /\ irq # NoIrq => r.fl.ifl
        /\ Runnable(s1, i)
        /\ irq # NoIrq /\ ~HandlerMayFault => s2.fault = s1.fault
        /\ s3.r.sp <= IF s3.r.cpl = 0 THEN guest.depth ELSE 1
        /\ r' = s3.r
        /\ m' = s3.m
        /\ waiting' = IF faulted
                      THEN With(calls1, Rollback(s0, s1, s2), s3, s1.r.ip)
                      ELSE Calls(s1, i, s2, calls1)
        /\ returned' = IF i.op = "iret" /\ ~faulted /\ Matches(s1, calls1)
                       THEN Outcome(s1, s2, calls1[Len(calls1)]) ELSE "none"

Iteration(irq, i) ==
    LET s0 == [ r |-> r, m |-> m, fault |-> NoVector ]
        s1 == IF irq = NoIrq THEN s0
              ELSE IntCall(s0, irq, "hardware", r.ip)
        s2 == Exec(s1, i)
    IN  Ends(irq, i, s0, s1, s2, Delivered(s0, s1, s2))

ProtectionInit ==
    /\ r \in { [ cpl |-> 0, cs |-> c, ss |-> Gdt[FirstTask].ss0, ds |-> Null,
               sp |-> 0, ip |-> 0, tr |-> FirstTask,
               fl |-> [ ifl |-> TRUE, nt |-> FALSE, v86 |-> FALSE,
                        iopl |-> 0 ] ] :
               c \in { <<i, 0>> : i \in { j \in DOMAIN Gdt :
                 Gdt[j].kind = "code" /\ Gdt[j].dpl = 0 /\ Gdt[j].present } } }
    /\ m = [ ram |-> [ at \in { i \in DOMAIN Gdt : Gdt[i].kind = "data" }
                                 \X (1 .. MaxDepth + 3) |-> NoFrame ],
             tss |-> [ i \in { j \in DOMAIN Gdt : Gdt[j].kind = "tss" } |->
                         [ image |-> Gdt[i].image, link |-> 0 ] ],
             busy |-> {FirstTask} ]
    /\ waiting = <<>>
    /\ returned = "none"
    /\ guest \in Guests

ProtectionNext ==
    /\ \E irq \in Irqs \cup {NoIrq}, i \in guest.ops : Iteration(irq, i)
    /\ UNCHANGED guest

ProtectionSpec == ProtectionInit /\ [][ProtectionNext]_protection

-----------------------------------------------------------------------------
(* Properties                                                              *)

Consistent(x) ==
    IF x.fl.v86 THEN x.cpl = 3
    ELSE /\ CodeOfLevel(x.cs, x.cpl)
         /\ StackFault(x.ss, x.cpl, 13, 12) = NoVector
         /\ x.cpl = 3 => Usable(x.ds, 3)

\* Whatever gates, returns, task switches and faults led here, the level the
\* CPU runs at is the one of its code segment, its stack belongs to that
\* level, and code at the outer level holds no data segment of an inner one.
PrivilegeConsistent == Consistent(r)

\* The code segments that gates lead to
GateTargets ==
    { Index(Idt[v].sel) : v \in DOMAIN Idt } \cup
    { Index(Gdt[i].sel) : i \in { j \in DOMAIN Gdt : Gdt[j].kind = "callgate" } }

\* Another task runs, or one that is nested in itself has returned.
Switched(s, t) == t.r.tr # s.r.tr \/ (s.r.fl.nt /\ s.m.tss[s.r.tr].link = s.r.tr)

\* What an interrupt, an instruction or an exception does from s to t: code
\* gains privilege only by a task switch or through a gate, and then it is at
\* a gate's target, on the empty stack that the task keeps for the level, but
\* for a frame that leads back to the code it came from.
GainedByRight(s, t) ==
    t.r.cpl < s.r.cpl =>
        \/ Switched(s, t)
        \/ /\ Index(t.r.cs) \in GateTargets
           /\ t.r.ss = Gdt[s.r.tr].ss0 /\ t.r.sp = 1
           /\ Top(t).cs = s.r.cs

\* No frame that a guest writes itself, no far transfer and no fault on the
\* way makes a step gain privilege in another way: where it has gained some,
\* the interrupt, the instruction and the delivery of its exception each did
\* so by right.
PrivilegeGained ==
    [][ r'.cpl < r.cpl =>
        \A irq \in Irqs \cup {NoIrq}, k \in guest.ops :
          LET s0 == [ r |-> r, m |-> m, fault |-> NoVector ]
              s1 == IF irq = NoIrq THEN s0
                    ELSE IntCall(s0, irq, "hardware", r.ip)
              s2 == Exec(s1, k)
          IN  Iteration(irq, k) =>
                /\ GainedByRight(s0, s1)
                /\ IF s2.fault = NoVector THEN GainedByRight(s1, s2)
                   ELSE GainedByRight(Rollback(s0, s1, s2),
                                      Delivered(s0, s1, s2)) ]_protection

\* An IRET at level 0 with the frame the CPU pushed resumes the interrupted
\* program exactly: level, segments, stack, flags and the mode, also when
\* handlers have nested and whatever they did to flags in between.
HandlerReturns == returned # "wrong"

\* "the faulting instruction should not modify anything" (cpu.c, at the
\* rollback): the frame of an interrupt taken before it is not its doing, and
\* stays on the stack until the handler returns.
FramesKept ==
    \A n \in DOMAIN waiting :
       m.ram[<<Index(waiting[n].ss), waiting[n].sp>>] = waiting[n].frame
=============================================================================
