------------------------------- MODULE I8259 -------------------------------
(***************************************************************************)
(* The cascaded pair of 8259 interrupt controllers (chipset/i8259.c) and   *)
(* the acknowledge cycle the CPU runs on it (cpu_interruptCheck, cpu.c).   *)
(* The functions of the code are operators on the state p of the pair, so  *)
(* that every module with an interrupt line can be composed with it:       *)
(* DoIrq(p, c, n) is the pair after i8259_doirq(c, n).                     *)
(*                                                                         *)
(* A register is the set of its one bits.  Of the initialisation words the *)
(* two ICW1 bits that choose the next step and the vector base are kept;   *)
(* words that are stored and never used again (ICW3, ICW4, ocw[]) and      *)
(* OCW3, which only selects what port 0 reads back, are not.               *)
(***************************************************************************)
EXTENDS Naturals

Chip    == {"master", "slave"}
Line    == 0 .. 7
Bit     == {0, 1}
Cascade == 2                         \* the master's input fed by the slave
Offset  == { 8 * k : k \in 0 .. 31 } \* value & 0xF8

\* icwstep: 0 after power-on, 2..4 while ICWs are expected, 5 when operating
Step == {0, 2, 3, 4, 5}

ChipState == [ irr : SUBSET Line, imr : SUBSET Line, isr : SUBSET Line,
               icwstep : Step, sngl : Bit, ic4 : Bit,
               intoffset : Offset ]

PicState == [ Chip -> ChipState ]

PowerOn == [ c \in Chip |->
             [ irr |-> {}, imr |-> Line, isr |-> {}, icwstep |-> 0,
               sngl |-> 0, ic4 |-> 0, intoffset |-> 0 ] ]

-----------------------------------------------------------------------------
(* Requests and the cascade                                                *)

Pending(p, c)    == p[c].irr \ p[c].imr
HasPending(p, c) == Pending(p, c) # {}

SyncCascade(p) ==
    [ p EXCEPT !["master"].irr =
        IF Cascade \notin p["master"].isr /\ HasPending(p, "slave")
        THEN @ \cup {Cascade}
        ELSE @ \ {Cascade} ]

SyncIfSlave(p, c) == IF c = "slave" THEN SyncCascade(p) ELSE p

DoIrq(p, c, n)    == SyncIfSlave([ p EXCEPT ![c].irr = @ \cup {n} ], c)
ClearIrq(p, c, n) == SyncIfSlave([ p EXCEPT ![c].irr = @ \ {n} ], c)

SetLevelIrq(p, c, n, active) ==
    IF active THEN DoIrq(p, c, n) ELSE ClearIrq(p, c, n)

-----------------------------------------------------------------------------
(* Guest writes: port 0 is ICW1 or an OCW, port 1 is read by icwstep       *)

\* ICW1 leaves irr and isr alone and, alone among the writes that change
\* what is pending, does not recompute the cascade.
WriteIcw1(p, c, sngl, ic4) ==
    [ p EXCEPT ![c].imr = {}, ![c].icwstep = 2,
               ![c].sngl = sngl, ![c].ic4 = ic4 ]

WriteIcw2(p, c, offset) ==
    [ p EXCEPT ![c].intoffset = offset,
               ![c].icwstep = IF p[c].sngl = 1 THEN 4 ELSE 3 ]

WriteIcw3(p, c) == [ p EXCEPT ![c].icwstep = IF p[c].ic4 = 1 THEN 4 ELSE 5 ]

\* Mutant of WriteIcw4: counts on instead of ending the sequence.
WriteIcw4Counts(p, c) == [ p EXCEPT ![c].icwstep = @ + 2 ]

WriteIcw4(p, c) == [ p EXCEPT ![c].icwstep = 5 ]

\* Mutant of WriteMask: the cascade is not recomputed.
WriteMaskNoSync(p, c, mask) == [ p EXCEPT ![c].imr = mask ]

WriteMask(p, c, mask) == SyncCascade([ p EXCEPT ![c].imr = mask ])

\* One byte on port 1: a vector base or a mask, depending on icwstep; before
\* the first ICW1 it is ignored.
WritePort1(p, c, offset, mask) ==
    CASE p[c].icwstep = 0 -> p
      [] p[c].icwstep = 2 -> WriteIcw2(p, c, offset)
      [] p[c].icwstep = 3 -> WriteIcw3(p, c)
      [] p[c].icwstep = 4 -> WriteIcw4(p, c)
      [] p[c].icwstep = 5 -> WriteMask(p, c, mask)

\* Mutant of NonSpecificEoi: discards every request of the chip.
NonSpecificEoiAll(p, c) ==
    SyncCascade([ p EXCEPT ![c].irr = {}, ![c].isr = {} ])

\* OCW2.  A non-specific EOI ends every level in service and also discards
\* the requests latched again for those levels since the acknowledge.
NonSpecificEoi(p, c) ==
    SyncCascade([ p EXCEPT ![c].irr = @ \ p[c].isr, ![c].isr = {} ])

SpecificEoi(p, c, n) ==
    SyncCascade([ p EXCEPT ![c].irr = @ \ {n}, ![c].isr = @ \ {n} ])

\* Every other OCW2 changes no request, but recomputes the cascade.
OtherOcw2(p) == SyncCascade(p)

-----------------------------------------------------------------------------
(* The same writes as data: what a guest program can do to the pair        *)

Icw1   == [ op : {"icw1"}, chip : Chip, sngl : Bit, ic4 : Bit ]
Port1  == [ op : {"port1"}, chip : Chip, offset : Offset, mask : SUBSET Line ]
Eoi    == [ op : {"eoi", "ocw2"}, chip : Chip ]
EoiN   == [ op : {"eoiN"}, chip : Chip, line : Line ]

PicWrite == Icw1 \cup Port1 \cup Eoi \cup EoiN

\* The pair after a guest instruction; those that are no write leave it.
PicsAfter(i, p) ==
    CASE i.op = "icw1"  -> WriteIcw1(p, i.chip, i.sngl, i.ic4)
      [] i.op = "port1" -> WritePort1(p, i.chip, i.offset, i.mask)
      [] i.op = "eoi"   -> NonSpecificEoi(p, i.chip)
      [] i.op = "eoiN"  -> SpecificEoi(p, i.chip, i.line)
      [] i.op = "ocw2"  -> OtherOcw2(p)
      [] OTHER          -> p

-----------------------------------------------------------------------------
(* The acknowledge cycle                                                   *)

\* Mutant of NextLine: forgets the mask.
NextLineUnmasked(p, c) == CHOOSE n \in p[c].irr : \A m \in p[c].irr : n <= m

\* i8259_nextintr: the lowest pending line wins, whatever is in service.
NextLine(p, c) == CHOOSE n \in Pending(p, c) : \A m \in Pending(p, c) : n <= m

Acknowledge(p, c) ==
    LET n == NextLine(p, c)
    IN  [ p EXCEPT ![c].irr = @ \ {n}, ![c].isr = @ \cup {n} ]

Vector(p, c) == NextLine(p, c) + p[c].intoffset

\* The master won a line.  Line 2 is resolved by the slave; when the slave
\* has nothing to offer the interrupt is dropped and line 2 leaves service.
FromSlave(p) == NextLine(p, "master") = Cascade

Spurious(p) == FromSlave(p) /\ ~HasPending(p, "slave")

AfterCheck(p) ==
    LET m == Acknowledge(p, "master")
    IN  IF ~FromSlave(p)    THEN m
        ELSE IF Spurious(p) THEN [ m EXCEPT !["master"].isr = @ \ {Cascade} ]
        ELSE Acknowledge(m, "slave")

CheckVector(p) == Vector(p, IF FromSlave(p) THEN "slave" ELSE "master")

-----------------------------------------------------------------------------
(* What the cascade promises, as predicates on the pair                    *)

\* Line 2 is requested only on behalf of a slave with something to deliver.
Backed(p) ==
    Cascade \in p["master"].irr =>
        HasPending(p, "slave") /\ Cascade \notin p["master"].isr

\* A slave with something to deliver, none of its interrupts in service and
\* a mask the guest has programmed, requests line 2.
NotLost(p) ==
    p["slave"].imr # {} /\ HasPending(p, "slave")
        /\ Cascade \notin p["master"].isr
    => Cascade \in p["master"].irr
=============================================================================
