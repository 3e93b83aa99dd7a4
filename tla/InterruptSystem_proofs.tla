----------------------- MODULE InterruptSystem_proofs -----------------------
(***************************************************************************)
(* Proofs about the interrupt path, for every wiring of the device lines   *)
(* and every guest program, from the lemmas on the pair.                   *)
(***************************************************************************)
EXTENDS InterruptSystem, I8259_proofs

\* Device lines other than the cascade input keep the promises.
LEMMA LineGood ==
    ASSUME NEW p, Good(p), NEW l \in DeviceLines
    PROVE  Good(DoIrq(p, l[1], l[2])) /\ Good(ClearIrq(p, l[1], l[2]))
<1> DEFINE up   == [ p EXCEPT ![l[1]].irr = @ \cup {l[2]} ]
           down == [ p EXCEPT ![l[1]].irr = @ \ {l[2]} ]
<1>1. /\ l[1] \in Chip /\ l[2] \in Line
      /\ l[1] = "master" => l[2] # Cascade
  BY DeviceLinesAssumption DEF Chip
<1>2. p \in PicState
  BY DEF Good
<1>3. up \in PicState /\ down \in PicState
  BY <1>1, <1>2 DEF PicState, ChipState
<1>4. CASE l[1] = "slave"
  BY <1>3, <1>4, SyncGood DEF DoIrq, ClearIrq, SyncIfSlave
<1>5. CASE l[1] = "master"
  <2>1. Good(up) /\ Good(down)
    BY <1>1, <1>2, <1>3, <1>5
    DEF Good, PicState, ChipState, Chip, Backed, NotLost, HasPending, Pending
  <2>2. QED
    BY <1>5, <2>1 DEF DoIrq, ClearIrq, SyncIfSlave
<1>6. QED
  BY <1>1, <1>4, <1>5 DEF Chip

\* Whatever happened in the check, the pair an instruction starts from is
\* good.
LEMMA StartGood ==
    ASSUME Good(pics)
    PROVE  Good(PicsStart)
  BY CheckGood DEF PicsStart, Accepts

\* An instruction is a write of the pair or leaves it alone.
LEMMA InstrCases ==
    ASSUME NEW i \in Instr, NEW p
    PROVE  i \in PicWrite \/ PicsAfter(i, p) = p
  BY DEF Instr, Simple, Flags, PicsAfter

\* Every step keeps the promises.
LEMMA StepGood ==
    ASSUME Good(pics), [Next]_vars
    PROVE  Good(pics')
<1>1. CASE Halted
  BY <1>1, StartGood DEF Halted
<1>2. ASSUME NEW i \in Program, NEW clears \in BOOLEAN, Execute(i, clears)
      PROVE  Good(pics')
  BY <1>2, StartGood, InstrCases, WriteGood, ProgramAssumption DEF Execute
<1>3. ASSUME NEW l \in DeviceLines,
             Raise(l[1], l[2]) \/ Lower(l[1], l[2])
      PROVE  Good(pics')
  BY <1>3, LineGood DEF Raise, Lower
<1>4. CASE PlatformReset
  BY <1>4 DEF PlatformReset
<1>5. CASE UNCHANGED vars
  BY <1>5 DEF vars
<1>6. QED
  BY <1>1, <1>2, <1>3, <1>4, <1>5 DEF Next

\* The controllers keep their promises in every reachable state: type
\* correctness of the pair, no request for an empty slave, no stranded one.
THEOREM PairGood == Spec => []Good(pics)
<1>1. Init => Good(pics)
  BY DEF Init, PowerOn, Good, PicState, ChipState, Chip, Line, Step, Bit,
         Offset, Backed, NotLost, HasPending, Pending
<1>2. Good(pics) /\ [Next]_vars => Good(pics)'
  <2>1. Good(pics) /\ [Next]_vars => Good(pics')
    BY StepGood
  <2>2. QED
    BY <2>1 DEF Good, Backed, NotLost, HasPending, Pending
<1>3. QED
  BY <1>1, <1>2, PTL DEF Spec

\* The master's line 2 always has an unmasked slave request behind it, and no
\* slave request is stranded there.
THEOREM CascadeAlwaysExact == Spec => []CascadeExact
<1>1. Good(pics) => CascadeExact
  BY DEF Good, CascadeExact
<1>2. QED
  BY <1>1, PairGood, PTL

\* The acknowledge cycle never meets a slave with nothing to deliver.
THEOREM NeverSpurious == Spec => []NoSpurious
<1>1. Good(pics) => NoSpurious
  BY CheckGood DEF NoSpurious
<1>2. QED
  BY <1>1, PairGood, PTL
-----------------------------------------------------------------------------
(* The CPU side and the vectors                                            *)

\* A vector is a line plus a base: at most 255, so the byte never wraps.
LEMMA VectorRange ==
    ASSUME NEW p \in PicState, NEW c \in Chip, HasPending(p, c)
    PROVE  Vector(p, c) \in 0 .. 255
<1>1. NextLine(p, c) \in 0 .. 7
  BY NextLinePending DEF Pending, PicState, ChipState, Line
<1>2. p[c].intoffset \in Offset
  BY DEF PicState, ChipState
<1>3. PICK k \in 0 .. 31 : p[c].intoffset = 8 * k
  BY <1>2 DEF Offset
<1>4. QED
  BY <1>1, <1>3 DEF Vector

\* An acknowledge yields a byte, and no acknowledge yields NoVector.
LEMMA CheckVectorRange ==
    ASSUME Good(pics)
    PROVE  (IF Interrupted THEN CheckVector(pics) ELSE NoVector) \in 0 .. NoVector
<1>1. CASE Interrupted
  <2>1. HasPending(pics, "master") /\ pics \in PicState
    BY <1>1 DEF Interrupted, Accepts, Good
  <2>2. FromSlave(pics) => HasPending(pics, "slave")
    BY <2>1, CheckGood DEF Spurious
  <2>3. CheckVector(pics) \in 0 .. 255
    BY <2>1, <2>2, VectorRange DEF CheckVector, Chip
  <2>4. QED
    BY <1>1, <2>3 DEF NoVector
<1>2. CASE ~Interrupted
  BY <1>2 DEF NoVector
<1>3. QED
  BY <1>1, <1>2

\* The start of an iteration keeps the CPU's fields in their ranges,
LEMMA CpuStartType ==
    ASSUME cpu \in Cpu, NEW clears \in BOOLEAN
    PROVE  CpuStart(clears) \in Cpu
<1>1. [ cpu EXCEPT !.trap = cpu.tf, !.shadow = FALSE ] \in Cpu
  BY Zenon DEF Cpu
<1>2. QED
  BY <1>1 DEF CpuStart, Enter, Cpu

\* and so does its end.
LEMMA CpuAfterType ==
    ASSUME NEW c \in Cpu, NEW i \in Instr
    PROVE  CpuAfter(i, c) \in Cpu
<1>1. i \in Flags => i.ifl \in BOOLEAN /\ i.tf \in BOOLEAN
  BY DEF Flags
<1>2. i \in Simple \cup Icw1 \cup Port1 \cup Eoi \cup EoiN => i.op # "flags"
  BY DEF Simple, Icw1, Port1, Eoi, EoiN
<1>3. ASSUME NEW a \in BOOLEAN, NEW b \in BOOLEAN
      PROVE  /\ [ c EXCEPT !.ifl = a ] \in Cpu
             /\ [ c EXCEPT !.ifl = a, !.tf = b ] \in Cpu
             /\ [ c EXCEPT !.ifl = a, !.shadow = b ] \in Cpu
  BY DEF Cpu
<1>4. /\ [ c EXCEPT !.shadow = TRUE ] \in Cpu
      /\ [ c EXCEPT !.hlt = TRUE ] \in Cpu
      /\ [ c EXCEPT !.hlt = FALSE, !.trap = FALSE, !.shadow = FALSE ] \in Cpu
  BY DEF Cpu
<1>5. CASE i.op = "flags"
  BY <1>1, <1>2, <1>3, <1>5 DEF CpuAfter, Instr, PicWrite
<1>6. CASE i.op # "flags"
  BY <1>3, <1>4, <1>6 DEF CpuAfter
<1>7. QED
  BY <1>5, <1>6

\* Entering a handler from the state after the instruction.
LEMMA EnterType ==
    ASSUME NEW c \in Cpu, NEW f \in BOOLEAN, NEW clears \in BOOLEAN
    PROVE  Enter(c, f, clears) \in Cpu
  BY DEF Enter, Cpu

\* Outside an iteration no vector is taken and nothing is rolled back.
LEMMA QuietType ==
    ASSUME Quiet
    PROVE  taken' \in 0 .. NoVector /\ rolledBack' \in BOOLEAN
<1>1. NoVector \in 0 .. NoVector
  BY DEF NoVector
<1>2. QED
  BY <1>1, Zenon DEF Quiet

\* Type correctness of the whole path.
THEOREM TypeCorrect == Spec => []TypeOK
<1>1. Init => TypeOK
  <2>1. NoVector \in 0 .. NoVector
    BY DEF NoVector
  <2>2. PowerOn \in PicState
    BY DEF PowerOn, PicState, ChipState, Chip, Line, Step, Bit, Offset
  <2>3. [ ifl |-> FALSE, tf |-> FALSE, trap |-> FALSE, shadow |-> FALSE,
          hlt |-> FALSE ] \in Cpu
    BY DEF Cpu
  <2>4. QED
    BY <2>1, <2>2, <2>3, Zenon DEF Init, TypeOK
<1>2. Good(pics) /\ TypeOK /\ [Next]_vars => TypeOK'
  <2> SUFFICES ASSUME Good(pics), TypeOK, [Next]_vars
               PROVE  TypeOK'
    OBVIOUS
  <2>0. pics' \in PicState /\ cpu \in Cpu
    BY StepGood DEF Good, TypeOK
  <2>1. CASE Halted
    BY <2>0, <2>1, CpuStartType, CheckVectorRange DEF Halted, Accepted, TypeOK
  <2>2. ASSUME NEW i \in Program, NEW clears \in BOOLEAN, Execute(i, clears)
        PROVE  TypeOK'
    <3> DEFINE start == CpuStart(clears)
               after == CpuAfter(i, start)
    <3>1. start \in Cpu /\ after \in Cpu
      BY <2>0, CpuStartType, CpuAfterType, ProgramAssumption
    <3>2. start.ifl \in BOOLEAN
      BY <3>1 DEF Cpu
    <3>3. Enter(after, start.ifl, clears) \in Cpu
      BY <3>1, <3>2, EnterType
    <3>4. cpu' \in Cpu
      BY <2>2, <3>1, <3>3 DEF Execute
    <3>5. taken' \in 0 .. NoVector
      BY <2>2, CheckVectorRange DEF Execute, Accepted
    <3>6. rolledBack' \in BOOLEAN
      BY <2>2, <2>0 DEF Execute, Faults, TrapDue, Cpu
    <3>7. QED
      BY <2>0, <3>4, <3>5, <3>6 DEF TypeOK
  <2>3. ASSUME NEW l \in DeviceLines,
               Raise(l[1], l[2]) \/ Lower(l[1], l[2])
        PROVE  TypeOK'
    BY <2>0, <2>3, QuietType DEF Raise, Lower, TypeOK
  <2>4. CASE PlatformReset
    <3>1. [ op |-> "reset" ] \in Instr
      BY DEF Instr, Simple
    <3>2. cpu' \in Cpu
      BY <2>0, <2>4, <3>1, CpuAfterType DEF PlatformReset
    <3>3. QED
      BY <2>0, <2>4, <3>2, QuietType DEF PlatformReset, TypeOK
  <2>5. CASE UNCHANGED vars
    BY <2>5 DEF vars, TypeOK
  <2>6. QED
    BY <2>1, <2>2, <2>3, <2>4, <2>5 DEF Next
<1>3. QED
  BY <1>1, <1>2, PairGood, PTL DEF Spec
-----------------------------------------------------------------------------
(* Where the vectors come from                                             *)

\* Every latched request is a device's, or the cascade's own.
FromDevices(p) ==
    /\ \A n \in p["slave"].irr : <<"slave", n>> \in DeviceLines
    /\ \A n \in p["master"].irr \ {Cascade} : <<"master", n>> \in DeviceLines

\* Requests always come from the wiring.
LEMMA StepFromDevices ==
    ASSUME Good(pics), FromDevices(pics), [Next]_vars
    PROVE  FromDevices(pics')
<1>0. pics \in PicState /\ Good(PicsStart) /\ PicsStart \in PicState
  BY StartGood DEF Good
<1>1. NoNewRequest(pics, PicsStart)
  BY <1>0, CheckNoNew DEF PicsStart, Accepts, NoNewRequest
<1>2. CASE Halted
  BY <1>1, <1>2 DEF Halted, NoNewRequest, FromDevices
<1>3. ASSUME NEW i \in Program, NEW clears \in BOOLEAN, Execute(i, clears)
      PROVE  FromDevices(pics')
  <2>1. NoNewRequest(PicsStart, pics')
    <3>1. NoNewRequest(PicsStart, PicsStart)
      BY DEF NoNewRequest
    <3>2. QED
      BY <1>0, <1>3, <3>1, InstrCases, WriteNoNew, ProgramAssumption
      DEF Execute
  <2>2. QED
    BY <1>1, <2>1 DEF NoNewRequest, FromDevices
<1>4. ASSUME NEW l \in DeviceLines,
             Raise(l[1], l[2]) \/ Lower(l[1], l[2])
      PROVE  FromDevices(pics')
  <2> DEFINE up   == [ pics EXCEPT ![l[1]].irr = @ \cup {l[2]} ]
             down == [ pics EXCEPT ![l[1]].irr = @ \ {l[2]} ]
  <2>1. /\ l[1] \in Chip /\ l[2] \in Line
        /\ l = <<l[1], l[2]>>
    BY DeviceLinesAssumption
  <2>2. up \in PicState /\ down \in PicState
    BY <1>0, <2>1 DEF PicState, ChipState
  <2>3. FromDevices(up) /\ FromDevices(down)
    BY <1>0, <2>1 DEF FromDevices, PicState, ChipState, Chip
  <2>4. ASSUME NEW q \in PicState, FromDevices(q)
        PROVE  FromDevices(SyncCascade(q))
    BY <2>4 DEF FromDevices, SyncCascade, PicState, ChipState, Chip
  <2>5. QED
    BY <1>4, <2>2, <2>3, <2>4 DEF Raise, Lower, DoIrq, ClearIrq, SyncIfSlave
<1>5. CASE PlatformReset \/ UNCHANGED vars
  BY <1>5 DEF PlatformReset, vars
<1>6. QED
  BY <1>2, <1>3, <1>4, <1>5 DEF Next

\* A step that takes a vector takes it from a device line that was pending,
\* through the unmasked cascade if the line is on the slave.
LEMMA StepTaken ==
    ASSUME Good(pics), FromDevices(pics), Next, taken' # NoVector
    PROVE  /\ cpu.ifl
           /\ \E l \in DeviceLines :
                /\ l[2] \in Pending(pics, l[1])
                /\ l[1] = "slave" => Cascade \in Pending(pics, "master")
                /\ taken' = l[2] + pics[l[1]].intoffset
<1>1. Interrupted /\ taken' = CheckVector(pics)
  BY DEF Next, Halted, Execute, Raise, Lower, PlatformReset, Quiet, Accepted
<1>2. pics \in PicState /\ HasPending(pics, "master") /\ cpu.ifl
      /\ ~Spurious(pics)
  BY <1>1 DEF Interrupted, Accepts, Good
<1>3. NextLine(pics, "master") \in Pending(pics, "master")
  BY <1>2, NextLinePending DEF Chip
<1>4. CASE ~FromSlave(pics)
  <2> DEFINE n == NextLine(pics, "master")
  <2>1. n # Cascade /\ n \in pics["master"].irr
    BY <1>3, <1>4 DEF FromSlave, Pending
  <2>2. <<"master", n>> \in DeviceLines
    BY <2>1 DEF FromDevices
  <2>3. taken' = n + pics["master"].intoffset
    BY <1>1, <1>4 DEF CheckVector, Vector
  <2> HIDE DEF n
  <2>4. n \in Pending(pics, "master")
    BY <1>3 DEF n
  <2>5. QED
    BY <1>2, <2>2, <2>3, <2>4
<1>5. CASE FromSlave(pics)
  <2> DEFINE n == NextLine(pics, "slave")
  <2>1. n \in Pending(pics, "slave")
    BY <1>2, <1>5, NextLinePending DEF Spurious, Chip
  <2>2. <<"slave", n>> \in DeviceLines
    BY <2>1 DEF FromDevices, Pending
  <2>3. taken' = n + pics["slave"].intoffset
    BY <1>1, <1>5 DEF CheckVector, Vector
  <2>4. Cascade \in Pending(pics, "master")
    BY <1>3, <1>5 DEF FromSlave
  <2> HIDE DEF n
  <2>5. QED
    BY <1>2, <2>1, <2>2, <2>3, <2>4
<1>6. QED
  BY <1>4, <1>5

\* Every vector the CPU takes was asked for by a device, in that iteration.
THEOREM TakenAlwaysWanted == Spec => TakenWasWanted
<1>1. Init => FromDevices(pics)
  BY DEF Init, PowerOn, FromDevices, Chip
<1>2. Good(pics) /\ FromDevices(pics) /\ [Next]_vars => FromDevices(pics)'
  <2>1. Good(pics) /\ FromDevices(pics) /\ [Next]_vars => FromDevices(pics')
    BY StepFromDevices
  <2>2. QED
    BY <2>1 DEF FromDevices
<1>3. Good(pics) /\ FromDevices(pics) /\ [Next]_vars
      => [ taken' # NoVector =>
             /\ cpu.ifl
             /\ \E l \in DeviceLines :
                  /\ l[2] \in Pending(pics, l[1])
                  /\ l[1] = "slave" => Cascade \in Pending(pics, "master")
                  /\ taken' = l[2] + pics[l[1]].intoffset ]_vars
  BY StepTaken
<1>4. QED
  BY <1>1, <1>2, <1>3, PairGood, PTL DEF Spec, TakenWasWanted
-----------------------------------------------------------------------------
(* Where the requests go                                                   *)

\* The check at the start of an iteration moves only the line whose vector
\* the CPU accepts.
LEMMA StartMoves ==
    ASSUME Good(pics), NEW c \in Chip, NEW n \in Line,
           ~ (c = "master" /\ n = Cascade)
    PROVE  \/ Interrupted /\ CheckVector(pics) = n + pics[c].intoffset
           \/ /\ n \in PicsStart[c].irr <=> n \in pics[c].irr
              /\ n \in PicsStart[c].isr <=> n \in pics[c].isr
<1>1. CASE Accepts
  <2>1. HasPending(pics, "master") /\ pics \in PicState /\ ~Spurious(pics)
    BY <1>1, CheckGood DEF Accepts, Good
  <2>2. \/ CheckVector(pics) = n + pics[c].intoffset
        \/ /\ n \in AfterCheck(pics)[c].irr <=> n \in pics[c].irr
           /\ n \in AfterCheck(pics)[c].isr <=> n \in pics[c].isr
    BY <2>1, CheckMoves
  <2>3. QED
    BY <1>1, <2>1, <2>2 DEF Interrupted, PicsStart
<1>2. CASE ~Accepts
  BY <1>2 DEF PicsStart
<1>3. QED
  BY <1>1, <1>2

\* A step that withdraws a request accepted it, saw it in service, lowered
\* its line, or wrote the EOI that names it.
LEMMA StepKeeps ==
    ASSUME Good(pics), Next, NEW l \in DeviceLines,
           l[2] \in pics[l[1]].irr, l[2] \notin pics'[l[1]].irr
    PROVE  \/ taken' = l[2] + pics[l[1]].intoffset
           \/ l[2] \in pics[l[1]].isr
           \/ Lower(l[1], l[2])
           \/ \E i \in Program :
                /\ i \in [ op : {"eoiN"}, chip : {l[1]}, line : {l[2]} ]
                /\ pics' = PicsAfter(i, PicsStart)
<1> DEFINE c == l[1]
           n == l[2]
<1>1. c \in Chip /\ n \in Line /\ ~ (c = "master" /\ n = Cascade)
  BY DeviceLinesAssumption
<1>2. pics \in PicState /\ PicsStart \in PicState
  BY StartGood DEF Good
<1> HIDE DEF c, n
<1>3. \/ Interrupted /\ CheckVector(pics) = n + pics[c].intoffset
      \/ /\ n \in PicsStart[c].irr <=> n \in pics[c].irr
         /\ n \in PicsStart[c].isr <=> n \in pics[c].isr
  BY <1>1, StartMoves
<1>4. n \in pics[c].irr /\ n \notin pics'[c].irr
  BY DEF c, n
<1>5. Accepted /\ Interrupted /\ CheckVector(pics) = n + pics[c].intoffset
      => taken' = l[2] + pics[l[1]].intoffset
  BY DEF Accepted, c, n
<1>6. CASE Halted
  BY <1>3, <1>4, <1>5, <1>6 DEF Halted
<1>7. ASSUME NEW i \in Program, NEW clears \in BOOLEAN, Execute(i, clears)
      PROVE  \/ taken' = l[2] + pics[l[1]].intoffset
             \/ l[2] \in pics[l[1]].isr
             \/ /\ i \in [ op : {"eoiN"}, chip : {l[1]}, line : {l[2]} ]
                /\ pics' = PicsAfter(i, PicsStart)
  <2>1. Accepted /\ pics' = PicsAfter(i, PicsStart)
    BY <1>7 DEF Execute
  <2>2. SUFFICES ASSUME n \in PicsStart[c].irr,
                        n \in PicsStart[c].isr => n \in pics[c].isr
                 PROVE  n \in pics[c].isr \/ (i \in EoiN /\ i.chip = c /\ i.line = n)
    <3>1. i \in EoiN /\ i.chip = c /\ i.line = n
          => i \in [ op : {"eoiN"}, chip : {c}, line : {n} ]
      BY DEF EoiN
    <3>2. QED
      BY <1>3, <1>4, <1>5, <2>1, <3>1 DEF c, n
  <2>3. PicsAfter(i, PicsStart) # PicsStart
    BY <1>4, <2>1, <2>2
  <2>4. i \in PicWrite
    BY <2>3, InstrCases, ProgramAssumption
  <2>5. QED
    BY <1>1, <1>2, <1>4, <2>1, <2>2, <2>4, WriteWithdraws
<1>8. ASSUME NEW k \in DeviceLines, Raise(k[1], k[2]) \/ Lower(k[1], k[2])
      PROVE  Lower(l[1], l[2])
  <2> DEFINE up   == [ pics EXCEPT ![k[1]].irr = @ \cup {k[2]} ]
             down == [ pics EXCEPT ![k[1]].irr = @ \ {k[2]} ]
  <2>1. k[1] \in Chip /\ k[2] \in Line
    BY DeviceLinesAssumption
  <2>2. up \in PicState /\ down \in PicState
    BY <1>2, <2>1 DEF PicState, ChipState
  <2>3. n \in up[c].irr /\ (n \in down[c].irr \/ (k[1] = c /\ k[2] = n))
    BY <1>1, <1>2, <1>4, <2>1 DEF PicState, ChipState
  <2> HIDE DEF up, down
  <2>4. ASSUME NEW q \in PicState, n \in q[c].irr
        PROVE  n \in SyncIfSlave(q, k[1])[c].irr
    BY <1>1, <2>4 DEF SyncIfSlave, SyncCascade, PicState, ChipState, Chip
  <2>5. ~Raise(k[1], k[2])
    BY <1>4, <2>2, <2>3, <2>4 DEF Raise, DoIrq, up
  <2>6. ~Lower(k[1], k[2]) \/ (k[1] = c /\ k[2] = n)
    BY <1>4, <2>2, <2>3, <2>4 DEF Lower, ClearIrq, down
  <2>7. QED
    BY <1>8, <2>5, <2>6 DEF c, n
<1>9. CASE PlatformReset
  BY <1>4, <1>9 DEF PlatformReset
<1>10. QED
  BY <1>6, <1>7, <1>8, <1>9 DEF Next

\* No request is lost: whatever the order of raises, masks, EOIs and
\* acknowledges, a latched request leaves only by one of the four ways.
THEOREM RequestAlwaysKept == Spec => RequestKept
<1>1. ASSUME Good(pics), Next, NEW l \in DeviceLines
      PROVE  LET c == l[1]  n == l[2]
                 acked == taken' = n + pics[c].intoffset
             IN  n \in pics[c].irr /\ n \notin pics'[c].irr
                 => \/ acked \/ n \in pics[c].isr
                    \/ Lower(c, n)
                    \/ \E i \in Program :
                         /\ i \in [ op : {"eoiN"}, chip : {c}, line : {n} ]
                         /\ pics' = PicsAfter(i, PicsStart)
  BY <1>1, StepKeeps, Zenon
<1>2. Good(pics) /\ [Next]_vars
      => [ \A l \in DeviceLines :
             LET c == l[1]  n == l[2]
                 acked == taken' = n + pics[c].intoffset
             IN  n \in pics[c].irr /\ n \notin pics'[c].irr
                 => \/ acked \/ n \in pics[c].isr
                    \/ Lower(c, n)
                    \/ \E i \in Program :
                         /\ i \in [ op : {"eoiN"}, chip : {c}, line : {n} ]
                         /\ pics' = PicsAfter(i, PicsStart) ]_vars
  BY <1>1, Zenon
<1>3. QED
  BY <1>2, PairGood, PTL DEF Spec, RequestKept
=============================================================================
