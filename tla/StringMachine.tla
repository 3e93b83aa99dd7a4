--------------------------- MODULE StringMachine ---------------------------
(***************************************************************************)
(* What a program may expect of a string instruction, as if its memory     *)
(* were all there and nobody interrupted it: each step is one element, and *)
(* it happens once, as a whole.                                            *)
(***************************************************************************)
EXTENDS Integers, Sequences

CONSTANTS
  Accumulator,       \* the two bytes of AX
  PortByte(_)        \* the n-th byte that the port gives

VARIABLES
  i,          \* the instruction: [op, rep, size, step]
  mem,        \* the program's memory
  regs,       \* [si, di, cx, zf, ax]
  out,        \* the bytes that the port was given
  taken,      \* the number of bytes that the port gave
  over        \* the instruction is complete

vars == <<i, mem, regs, out, taken, over>>

Bytes(a) == [ k \in 1 .. i.size |-> mem[a + k - 1] ]

Put(a, v) == [ b \in DOMAIN mem |-> IF b \in a .. a + i.size - 1
                                    THEN v[b - a + 1] ELSE mem[b] ]

Source == IF i.op = "scas" THEN SubSeq(Accumulator, 1, i.size) ELSE Bytes(regs.si)

\* An element of the operation.
Element ==
    /\ mem' = CASE i.op = "movs" -> Put(regs.di, Bytes(regs.si))
                [] i.op = "stos" -> Put(regs.di, Accumulator)
                [] i.op = "ins"  -> Put(regs.di, [ k \in 1 .. i.size |->
                                                     PortByte(taken + k) ])
                [] OTHER         -> mem
    /\ out' = IF i.op = "outs" THEN out \o Bytes(regs.si) ELSE out
    /\ taken' = IF i.op = "ins" THEN taken + i.size ELSE taken
    /\ regs' = [ regs EXCEPT
          !.si = IF i.op \in {"movs", "cmps", "lods", "outs"} THEN @ + i.step ELSE @,
          !.di = IF i.op \in {"movs", "cmps", "stos", "scas", "ins"} THEN @ + i.step
                 ELSE @,
          !.cx = IF i.rep = "none" THEN @ ELSE @ - 1,
          !.zf = IF i.op \in {"cmps", "scas"} THEN Source = Bytes(regs.di) ELSE @,
          !.ax = IF i.op = "lods" THEN Bytes(regs.si) ELSE @ ]

\* The comparison ends the repetition.
Decided == /\ i.op \in {"cmps", "scas"}
           /\ i.rep = (IF regs'.zf THEN "repne" ELSE "repe")

Step ==
    /\ ~over
    /\ IF i.rep # "none" /\ regs.cx = 0
       THEN over' = TRUE /\ UNCHANGED <<mem, regs, out, taken>>
       ELSE Element /\ over' = (i.rep = "none" \/ Decided)
    /\ UNCHANGED i

Init == /\ out = <<>> /\ taken = 0 /\ over = FALSE

Spec == Init /\ [][Step]_vars
=============================================================================
