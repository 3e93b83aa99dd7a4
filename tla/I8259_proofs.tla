---------------------------- MODULE I8259_proofs ----------------------------
(***************************************************************************)
(* What each operation on the 8259 pair does to the cascade and to the     *)
(* latched requests.  Every module that composes the pair with devices     *)
(* rests its own proofs on these lemmas.                                   *)
(***************************************************************************)
EXTENDS I8259, TLAPS

\* The inductive invariant of the pair.
Good(p) == p \in PicState /\ Backed(p) /\ NotLost(p)

\* Recomputing the cascade establishes both promises, whatever came before:
\* i8259_sync_cascade is the repair step of every handler.
LEMMA SyncGood ==
    ASSUME NEW p \in PicState
    PROVE  Good(SyncCascade(p))
  BY DEF Good, SyncCascade, PicState, ChipState, Chip, Line, Cascade, Backed,
         NotLost, HasPending, Pending

\* A write that skips the recomputation keeps the promises if it touches no
\* request and no in-service bit and at most empties the slave's mask.
LEMMA QuietWriteGood ==
    ASSUME NEW p, Good(p), NEW q \in PicState,
           q["master"].irr = p["master"].irr, q["slave"].irr = p["slave"].irr,
           q["master"].isr = p["master"].isr,
           q["slave"].imr \in {{}, p["slave"].imr}
    PROVE  Good(q)
  BY DEF Good, PicState, ChipState, Chip, Backed, NotLost, HasPending, Pending

\* The initialisation words keep the ranges of the registers, ...
LEMMA IcwTyped ==
    ASSUME NEW p \in PicState, NEW c \in Chip
    PROVE  /\ \A s, f \in Bit : WriteIcw1(p, c, s, f) \in PicState
           /\ \A o \in Offset : WriteIcw2(p, c, o) \in PicState
           /\ WriteIcw3(p, c) \in PicState
           /\ WriteIcw4(p, c) \in PicState
<1> USE DEF PicState, ChipState, Chip
<1>1. ASSUME NEW s \in Bit, NEW f \in Bit
      PROVE  WriteIcw1(p, c, s, f) \in PicState
  <2> DEFINE q == WriteIcw1(p, c, s, f)
  <2>1. 2 \in Step
    BY DEF Step
  <2>2. ASSUME NEW r \in PicState
        PROVE  /\ [ r EXCEPT ![c].imr = {}, ![c].icwstep = 2 ] \in PicState
               /\ [ r EXCEPT ![c].sngl = s ] \in PicState
               /\ [ r EXCEPT ![c].ic4 = f ] \in PicState
    BY <2>1
  <2>3. q = [ [ [ p EXCEPT ![c].imr = {}, ![c].icwstep = 2 ]
                EXCEPT ![c].sngl = s ]
              EXCEPT ![c].ic4 = f ]
    BY DEF WriteIcw1
  <2> HIDE DEF PicState, q
  <2>4. q \in PicState
    BY <2>2, <2>3
  <2>5. QED
    BY <2>4 DEF q
<1>2. ASSUME NEW o \in Offset
      PROVE  WriteIcw2(p, c, o) \in PicState
  BY DEF WriteIcw2, Step
<1>3. \A n \in Step : [ p EXCEPT ![c].icwstep = n ] \in PicState
  OBVIOUS
<1>4. WriteIcw3(p, c) \in PicState /\ WriteIcw4(p, c) \in PicState
  BY <1>3 DEF WriteIcw3, WriteIcw4, Step
<1>5. QED
  BY <1>1, <1>2, <1>4

\* ... and the promises: ICW1 empties a mask, the others no register.
LEMMA IcwGood ==
    ASSUME NEW p, Good(p), NEW c \in Chip
    PROVE  /\ \A s, f \in Bit : Good(WriteIcw1(p, c, s, f))
           /\ \A o \in Offset : Good(WriteIcw2(p, c, o))
           /\ Good(WriteIcw3(p, c))
           /\ Good(WriteIcw4(p, c))
<1> DEFINE Quiet(q) ==
             /\ q["master"].irr = p["master"].irr
             /\ q["slave"].irr = p["slave"].irr
             /\ q["master"].isr = p["master"].isr
             /\ q["slave"].imr \in {{}, p["slave"].imr}
<1>0. p \in PicState
  BY DEF Good
<1>1. ASSUME NEW s \in Bit, NEW f \in Bit
      PROVE  Quiet(WriteIcw1(p, c, s, f))
  BY <1>0 DEF WriteIcw1, PicState, ChipState, Chip
<1>2. ASSUME NEW o \in Offset
      PROVE  Quiet(WriteIcw2(p, c, o))
  BY <1>0 DEF WriteIcw2, PicState, ChipState, Chip
<1>3. Quiet(WriteIcw3(p, c)) /\ Quiet(WriteIcw4(p, c))
  BY <1>0 DEF WriteIcw3, WriteIcw4, PicState, ChipState, Chip
<1>4. QED
  BY <1>0, <1>1, <1>2, <1>3, IcwTyped, QuietWriteGood

\* Mask writes and EOIs end in the recomputation.
LEMMA MaskAndEoiGood ==
    ASSUME NEW p \in PicState, NEW c \in Chip
    PROVE  /\ \A m \in SUBSET Line : Good(WriteMask(p, c, m))
           /\ Good(NonSpecificEoi(p, c))
           /\ \A n \in Line : Good(SpecificEoi(p, c, n))
           /\ Good(OtherOcw2(p))
<1> USE DEF PicState, ChipState
<1>1. ASSUME NEW m \in SUBSET Line
      PROVE  [ p EXCEPT ![c].imr = m ] \in PicState
  OBVIOUS
<1>2. [ p EXCEPT ![c].irr = @ \ p[c].isr, ![c].isr = {} ] \in PicState
  OBVIOUS
<1>3. ASSUME NEW n \in Line
      PROVE  [ p EXCEPT ![c].irr = @ \ {n}, ![c].isr = @ \ {n} ] \in PicState
  OBVIOUS
<1> HIDE DEF PicState
<1>4. QED
  BY <1>1, <1>2, <1>3, SyncGood
  DEF WriteMask, NonSpecificEoi, SpecificEoi, OtherOcw2

\* Whatever the guest writes keeps the promises.
LEMMA WriteGood ==
    ASSUME NEW p, Good(p), NEW i \in PicWrite
    PROVE  Good(PicsAfter(i, p))
<1>0. p \in PicState
  BY DEF Good
<1>1. CASE i \in Icw1
  BY <1>1, IcwGood DEF Icw1, PicsAfter
<1>2. CASE i \in Port1
  <2>1. /\ i.op = "port1" /\ i.chip \in Chip /\ i.offset \in Offset
        /\ i.mask \in SUBSET Line
    BY <1>2 DEF Port1
  <2>2. PicsAfter(i, p) = WritePort1(p, i.chip, i.offset, i.mask)
    BY <2>1 DEF PicsAfter
  <2>3. p[i.chip].icwstep \in Step
    BY <1>0, <2>1 DEF PicState, ChipState
  <2>4. QED
    BY <1>0, <2>1, <2>2, <2>3, IcwGood, MaskAndEoiGood DEF WritePort1, Step
<1>3. CASE i \in Eoi
  BY <1>0, <1>3, MaskAndEoiGood DEF Eoi, PicsAfter
<1>4. CASE i \in EoiN
  BY <1>0, <1>4, MaskAndEoiGood DEF EoiN, PicsAfter
<1>5. QED
  BY <1>1, <1>2, <1>3, <1>4 DEF PicWrite

\* A write keeps the ranges of the registers from any state, one in which
\* the cascade is driven from outside included.
LEMMA WriteTyped ==
    ASSUME NEW p \in PicState, NEW i \in PicWrite
    PROVE  PicsAfter(i, p) \in PicState
<1>1. CASE i \in Icw1
  BY <1>1, IcwTyped DEF Icw1, PicsAfter
<1>2. CASE i \in Port1
  <2>1. /\ i.op = "port1" /\ i.chip \in Chip /\ i.offset \in Offset
        /\ i.mask \in SUBSET Line
    BY <1>2 DEF Port1
  <2>2. PicsAfter(i, p) = WritePort1(p, i.chip, i.offset, i.mask)
    BY <2>1 DEF PicsAfter
  <2>3. p[i.chip].icwstep \in Step
    BY <2>1 DEF PicState, ChipState
  <2>4. QED
    BY <2>1, <2>2, <2>3, IcwTyped, MaskAndEoiGood DEF WritePort1, Step, Good
<1>3. CASE i \in Eoi
  BY <1>3, MaskAndEoiGood DEF Eoi, PicsAfter, Good
<1>4. CASE i \in EoiN
  BY <1>4, MaskAndEoiGood DEF EoiN, PicsAfter, Good
<1>5. QED
  BY <1>1, <1>2, <1>3, <1>4 DEF PicWrite

\* The search of i8259_nextintr succeeds when something is pending.
LEMMA NextLinePending ==
    ASSUME NEW p \in PicState, NEW c \in Chip, HasPending(p, c)
    PROVE  NextLine(p, c) \in Pending(p, c)
<1>1. Pending(p, c) \subseteq 0 .. 7 /\ Pending(p, c) # {}
  BY DEF PicState, ChipState, HasPending, Pending, Line
<1>2. \E n \in Pending(p, c) : \A m \in Pending(p, c) : n <= m
  BY <1>1
<1>3. QED
  BY <1>2 DEF NextLine

\* An acknowledge moves one pending line of a chip into service.
LEMMA AcknowledgeLine ==
    ASSUME NEW p \in PicState, NEW c \in Chip, HasPending(p, c)
    PROVE  \E n \in Pending(p, c) :
             /\ n = NextLine(p, c)
             /\ n \in Line
             /\ Acknowledge(p, c) \in PicState
             /\ Acknowledge(p, c)
                  = [ p EXCEPT ![c].irr = @ \ {n}, ![c].isr = @ \cup {n} ]
<1> DEFINE n == NextLine(p, c)
<1>1. n \in Pending(p, c)
  BY NextLinePending
<1>2. n \in Line
  BY <1>1 DEF Pending, PicState, ChipState
<1> HIDE DEF n
<1>3. [ p EXCEPT ![c].irr = @ \ {n}, ![c].isr = @ \cup {n} ] \in PicState
  BY <1>2 DEF PicState, ChipState
<1>4. QED
  BY <1>1, <1>2, <1>3 DEF Acknowledge, n

\* The acknowledge cycle keeps the promises, and the branch for a slave
\* without a request is never taken.
LEMMA CheckGood ==
    ASSUME NEW p, Good(p), HasPending(p, "master")
    PROVE  Good(AfterCheck(p)) /\ ~Spurious(p)
<1> DEFINE m == Acknowledge(p, "master")
<1>0. p \in PicState /\ Backed(p) /\ NotLost(p)
  BY DEF Good
<1>1. PICK n \in Pending(p, "master") :
        /\ n = NextLine(p, "master") /\ n \in Line
        /\ m \in PicState
        /\ m = [ p EXCEPT !["master"].irr = @ \ {n},
                          !["master"].isr = @ \cup {n} ]
  BY <1>0, AcknowledgeLine DEF Chip
<1> HIDE DEF m
<1>2. /\ m["master"].irr = p["master"].irr \ {n}
      /\ m["master"].isr = p["master"].isr \cup {n}
      /\ m["slave"] = p["slave"]
  BY <1>0, <1>1 DEF PicState, ChipState, Chip
<1>3. CASE n # Cascade
  <2>1. AfterCheck(p) = m /\ ~Spurious(p)
    BY <1>1, <1>3 DEF AfterCheck, FromSlave, Spurious, m
  <2>2. Good(m)
    BY <1>0, <1>1, <1>2, <1>3 DEF Good, Backed, NotLost, HasPending, Pending
  <2>3. QED
    BY <2>1, <2>2
<1>4. CASE n = Cascade
  <2>1. HasPending(p, "slave")
    BY <1>0, <1>1, <1>4 DEF Pending, Backed
  <2>2. ~Spurious(p) /\ AfterCheck(p) = Acknowledge(m, "slave")
    BY <1>1, <1>4, <2>1 DEF Spurious, FromSlave, AfterCheck, m
  <2>3. HasPending(m, "slave")
    BY <1>2, <2>1 DEF HasPending, Pending
  <2>4. PICK k \in Line :
          /\ Acknowledge(m, "slave") \in PicState
          /\ Acknowledge(m, "slave")
               = [ m EXCEPT !["slave"].irr = @ \ {k},
                            !["slave"].isr = @ \cup {k} ]
    BY <1>1, <2>3, AcknowledgeLine, ZenonT(60) DEF Chip
  <2>5. /\ Acknowledge(m, "slave")["master"] = m["master"]
        /\ Cascade \in m["master"].isr /\ Cascade \notin m["master"].irr
    BY <1>1, <1>2, <1>4, <2>4 DEF PicState, Chip
  <2>6. QED
    BY <2>2, <2>4, <2>5 DEF Good, Backed, NotLost
<1>5. QED
  BY <1>3, <1>4

-----------------------------------------------------------------------------
(* Requests                                                                *)

\* q has no request that p has not, the cascade's excepted.
NoNewRequest(p, q) ==
    /\ q["slave"].irr \subseteq p["slave"].irr
    /\ q["master"].irr \subseteq p["master"].irr \cup {Cascade}

\* Recomputing the cascade latches nothing else.
LEMMA SyncNoNew ==
    ASSUME NEW p \in PicState, NEW q \in PicState, NoNewRequest(p, q)
    PROVE  NoNewRequest(p, SyncCascade(q))
  BY DEF NoNewRequest, SyncCascade, PicState, ChipState, Chip

\* No write latches a device request.
LEMMA WriteNoNew ==
    ASSUME NEW p \in PicState, NEW i \in PicWrite
    PROVE  NoNewRequest(p, PicsAfter(i, p))
<1>1. NoNewRequest(p, p)
  BY DEF NoNewRequest
<1>3. CASE i \in Icw1
  BY <1>3 DEF Icw1, PicsAfter, WriteIcw1, NoNewRequest, PicState, ChipState,
              Chip
<1>4. CASE i \in Port1
  <2>1. /\ i.op = "port1" /\ i.chip \in Chip /\ i.offset \in Offset
        /\ i.mask \in SUBSET Line
    BY <1>4 DEF Port1
  <2>2. PicsAfter(i, p) = WritePort1(p, i.chip, i.offset, i.mask)
    BY <2>1 DEF PicsAfter
  <2>3. p[i.chip].icwstep \in Step
    BY <2>1 DEF PicState, ChipState
  <2>4. /\ NoNewRequest(p, WriteIcw2(p, i.chip, i.offset))
        /\ NoNewRequest(p, WriteIcw3(p, i.chip))
        /\ NoNewRequest(p, WriteIcw4(p, i.chip))
    BY <2>1 DEF NoNewRequest, WriteIcw2, WriteIcw3, WriteIcw4, PicState,
                ChipState, Chip
  <2>5. /\ [ p EXCEPT ![i.chip].imr = i.mask ] \in PicState
        /\ NoNewRequest(p, [ p EXCEPT ![i.chip].imr = i.mask ])
    BY <2>1 DEF NoNewRequest, PicState, ChipState, Chip
  <2>6. NoNewRequest(p, WriteMask(p, i.chip, i.mask))
    BY <2>5, SyncNoNew DEF WriteMask
  <2>7. QED
    BY <1>1, <2>2, <2>3, <2>4, <2>6 DEF WritePort1, Step
<1>5. CASE i \in Eoi
  <2> DEFINE q == [ p EXCEPT ![i.chip].irr = @ \ p[i.chip].isr,
                             ![i.chip].isr = {} ]
  <2>1. q \in PicState /\ NoNewRequest(p, q)
    BY <1>5 DEF Eoi, NoNewRequest, PicState, ChipState, Chip
  <2>2. NoNewRequest(p, SyncCascade(q)) /\ NoNewRequest(p, SyncCascade(p))
    BY <1>1, <2>1, SyncNoNew
  <2>3. QED
    BY <1>5, <2>2 DEF Eoi, PicsAfter, NonSpecificEoi, OtherOcw2
<1>6. CASE i \in EoiN
  <2> DEFINE q == [ p EXCEPT ![i.chip].irr = @ \ {i.line},
                             ![i.chip].isr = @ \ {i.line} ]
  <2>1. q \in PicState /\ NoNewRequest(p, q)
    BY <1>6 DEF EoiN, NoNewRequest, PicState, ChipState, Chip
  <2>2. NoNewRequest(p, SyncCascade(q))
    BY <2>1, SyncNoNew
  <2>3. QED
    BY <1>6, <2>2 DEF EoiN, PicsAfter, SpecificEoi
<1>7. QED
  BY <1>3, <1>4, <1>5, <1>6 DEF PicWrite

\* Neither does an acknowledge cycle, an unanswered one included; and it
\* keeps the ranges of the registers.
LEMMA CheckNoNew ==
    ASSUME NEW p \in PicState, HasPending(p, "master")
    PROVE  AfterCheck(p) \in PicState /\ NoNewRequest(p, AfterCheck(p))
<1> DEFINE m == Acknowledge(p, "master")
           w == Acknowledge(m, "slave")
<1>1. PICK n \in Line :
        /\ m \in PicState
        /\ m = [ p EXCEPT !["master"].irr = @ \ {n},
                          !["master"].isr = @ \cup {n} ]
  BY AcknowledgeLine DEF Chip
<1> HIDE DEF m
<1>2. NoNewRequest(p, m) /\ m["slave"] = p["slave"]
  BY <1>1 DEF NoNewRequest, PicState, ChipState, Chip
<1>3. CASE ~FromSlave(p)
  BY <1>1, <1>2, <1>3 DEF AfterCheck, m
<1>4. CASE FromSlave(p) /\ Spurious(p)
  <2> DEFINE d == [ m EXCEPT !["master"].isr = @ \ {Cascade} ]
  <2>1. AfterCheck(p) = d
    BY <1>4 DEF AfterCheck, m
  <2>2. d \in PicState
    BY <1>1, ZenonT(60) DEF PicState, ChipState, Chip
  <2>3. d["master"].irr = m["master"].irr /\ d["slave"] = m["slave"]
    BY <1>1 DEF PicState, ChipState, Chip
  <2> HIDE DEF d
  <2>4. QED
    BY <1>2, <2>1, <2>2, <2>3 DEF NoNewRequest
<1>5. CASE FromSlave(p) /\ ~Spurious(p)
  <2>1. HasPending(m, "slave")
    BY <1>2, <1>5 DEF Spurious, HasPending, Pending
  <2>2. w \in PicState /\ \E k \in Line :
          w = [ m EXCEPT !["slave"].irr = @ \ {k},
                         !["slave"].isr = @ \cup {k} ]
    BY <1>1, <2>1, AcknowledgeLine DEF Chip
  <2>3. AfterCheck(p) = w
    BY <1>5 DEF AfterCheck, m
  <2> HIDE DEF w
  <2>4. w["master"] = m["master"] /\ w["slave"].irr \subseteq m["slave"].irr
    <3>1. PICK k \in Line : w = [ m EXCEPT !["slave"].irr = @ \ {k},
                                         !["slave"].isr = @ \cup {k} ]
      BY <2>2
    <3>2. w["master"] = m["master"] /\ w["slave"].irr = m["slave"].irr \ {k}
      BY <1>1, <3>1 DEF PicState, ChipState, Chip
    <3>3. QED
      BY <3>2
  <2>5. QED
    BY <1>2, <2>2, <2>3, <2>4 DEF NoNewRequest
<1>6. QED
  BY <1>3, <1>4, <1>5

\* A device line adds at most its own request and withdraws at most its own.
LEMMA LineNoNew ==
    ASSUME NEW p \in PicState, NEW c \in Chip, NEW n \in Line
    PROVE  LET up   == [ p EXCEPT ![c].irr = @ \cup {n} ]
               down == [ p EXCEPT ![c].irr = @ \ {n} ]
           IN  /\ up \in PicState /\ down \in PicState
               /\ DoIrq(p, c, n) \in PicState /\ ClearIrq(p, c, n) \in PicState
               /\ NoNewRequest(up, DoIrq(p, c, n))
               /\ NoNewRequest(down, ClearIrq(p, c, n))
<1> DEFINE up   == [ p EXCEPT ![c].irr = @ \cup {n} ]
           down == [ p EXCEPT ![c].irr = @ \ {n} ]
<1>1. up \in PicState /\ down \in PicState
  BY DEF PicState, ChipState
<1> HIDE DEF up, down
<1>2. NoNewRequest(up, up) /\ NoNewRequest(down, down)
  BY DEF NoNewRequest
<1>3. /\ SyncIfSlave(up, c) \in PicState /\ SyncIfSlave(down, c) \in PicState
      /\ NoNewRequest(up, SyncIfSlave(up, c))
      /\ NoNewRequest(down, SyncIfSlave(down, c))
  BY <1>1, <1>2, SyncGood, SyncNoNew DEF SyncIfSlave, Good
<1>4. QED
  BY <1>1, <1>3 DEF up, down, DoIrq, ClearIrq

\* Recomputing the cascade withdraws nothing else.
LEMMA SyncKeeps ==
    ASSUME NEW p \in PicState, NEW q \in PicState, NoNewRequest(q, p)
    PROVE  NoNewRequest(SyncCascade(q), p)
  BY DEF NoNewRequest, SyncCascade, PicState, ChipState, Chip

\* ... and adds nothing else.
LEMMA SyncOthers ==
    ASSUME NEW q \in PicState, NEW c \in Chip, NEW n \in Line,
           ~ (c = "master" /\ n = Cascade)
    PROVE  n \in SyncCascade(q)[c].irr <=> n \in q[c].irr
<1>1. CASE c = "master"
  BY <1>1 DEF SyncCascade, PicState, ChipState, Chip
<1>2. CASE c = "slave"
  BY <1>2 DEF SyncCascade, PicState, ChipState, Chip
<1>3. QED
  BY <1>1, <1>2 DEF Chip

\* A write withdraws a request of line n of chip c only as an EOI: of that
\* line, or of all those in service.
LEMMA WriteWithdraws ==
    ASSUME NEW p \in PicState, NEW i \in PicWrite, NEW c \in Chip, NEW n \in Line,
           ~ (c = "master" /\ n = Cascade),
           n \in p[c].irr, n \notin PicsAfter(i, p)[c].irr
    PROVE  \/ n \in p[c].isr
           \/ i \in EoiN /\ i.chip = c /\ i.line = n
<1>1. \A q : NoNewRequest(q, p) => n \in q[c].irr
  BY DEF NoNewRequest, Chip
<1>2. NoNewRequest(p, p)
  BY DEF NoNewRequest
<1>3. CASE i \in Icw1
  <2>1. NoNewRequest(WriteIcw1(p, i.chip, i.sngl, i.ic4), p)
    BY <1>3 DEF Icw1, WriteIcw1, NoNewRequest, PicState, ChipState, Chip
  <2>2. QED
    BY <1>1, <1>3, <2>1 DEF Icw1, PicsAfter
<1>4. CASE i \in Port1
  <2>1. /\ i.op = "port1" /\ i.chip \in Chip /\ i.offset \in Offset
        /\ i.mask \in SUBSET Line
    BY <1>4 DEF Port1
  <2>2. PicsAfter(i, p) = WritePort1(p, i.chip, i.offset, i.mask)
    BY <2>1 DEF PicsAfter
  <2>3. p[i.chip].icwstep \in Step
    BY <2>1 DEF PicState, ChipState
  <2>4. /\ NoNewRequest(WriteIcw2(p, i.chip, i.offset), p)
        /\ NoNewRequest(WriteIcw3(p, i.chip), p)
        /\ NoNewRequest(WriteIcw4(p, i.chip), p)
    BY <2>1 DEF NoNewRequest, WriteIcw2, WriteIcw3, WriteIcw4, PicState,
                ChipState, Chip
  <2>5. /\ [ p EXCEPT ![i.chip].imr = i.mask ] \in PicState
        /\ NoNewRequest([ p EXCEPT ![i.chip].imr = i.mask ], p)
    BY <2>1 DEF NoNewRequest, PicState, ChipState, Chip
  <2>6. NoNewRequest(WriteMask(p, i.chip, i.mask), p)
    BY <2>5, SyncKeeps DEF WriteMask
  <2>7. QED
    BY <1>1, <1>2, <2>2, <2>3, <2>4, <2>6 DEF WritePort1, Step
<1>5. CASE i \in Eoi
  <2> DEFINE q == [ p EXCEPT ![i.chip].irr = @ \ p[i.chip].isr,
                             ![i.chip].isr = {} ]
  <2>1. q \in PicState /\ (n \in p[c].isr \/ n \in q[c].irr)
    BY <1>5 DEF Eoi, PicState, ChipState, Chip
  <2>2. n \in q[c].irr => n \in SyncCascade(q)[c].irr
    BY <2>1, SyncOthers
  <2>3. n \in SyncCascade(p)[c].irr
    BY <1>1, <1>2, SyncKeeps
  <2>4. QED
    BY <1>5, <2>1, <2>2, <2>3 DEF Eoi, PicsAfter, NonSpecificEoi, OtherOcw2
<1>6. CASE i \in EoiN
  <2> DEFINE q == [ p EXCEPT ![i.chip].irr = @ \ {i.line},
                             ![i.chip].isr = @ \ {i.line} ]
  <2>1. q \in PicState /\ (n \in q[c].irr \/ (i.chip = c /\ i.line = n))
    BY <1>6 DEF EoiN, PicState, ChipState, Chip
  <2>2. n \in q[c].irr => n \in SyncCascade(q)[c].irr
    BY <2>1, SyncOthers
  <2>3. QED
    BY <1>6, <2>1, <2>2 DEF EoiN, PicsAfter, SpecificEoi
<1>7. QED
  BY <1>3, <1>4, <1>5, <1>6 DEF PicWrite

\* An acknowledge cycle that the slave can answer moves one device line into
\* service, the one whose vector it delivers, and leaves all others alone.
LEMMA CheckMoves ==
    ASSUME NEW p \in PicState, HasPending(p, "master"), ~Spurious(p),
           NEW c \in Chip, NEW n \in Line, ~ (c = "master" /\ n = Cascade)
    PROVE  \/ CheckVector(p) = n + p[c].intoffset
           \/ /\ n \in AfterCheck(p)[c].irr <=> n \in p[c].irr
              /\ n \in AfterCheck(p)[c].isr <=> n \in p[c].isr
<1> DEFINE m == Acknowledge(p, "master")
           k == NextLine(p, "master")
<1>1. /\ k \in Line /\ m \in PicState
      /\ m = [ p EXCEPT !["master"].irr = @ \ {k}, !["master"].isr = @ \cup {k} ]
  BY AcknowledgeLine DEF Chip
<1>2. /\ m["slave"] = p["slave"]
      /\ m["master"].irr = p["master"].irr \ {k}
      /\ m["master"].isr = p["master"].isr \cup {k}
  <2> HIDE DEF m, k
  <2>1. QED
    BY <1>1 DEF PicState, ChipState, Chip
<1>3. CASE ~FromSlave(p)
  <2>1. AfterCheck(p) = m /\ CheckVector(p) = k + p["master"].intoffset
    BY <1>3 DEF AfterCheck, CheckVector, Vector
  <2> HIDE DEF m, k
  <2>2. QED
    BY <1>2, <2>1 DEF Chip
<1>4. CASE FromSlave(p)
  <2> DEFINE j == NextLine(p, "slave")
             w == Acknowledge(m, "slave")
  <2>1. k = Cascade /\ AfterCheck(p) = w /\ CheckVector(p) = j + p["slave"].intoffset
    BY <1>4 DEF AfterCheck, CheckVector, Vector, FromSlave
  <2>2. NextLine(m, "slave") = j /\ HasPending(m, "slave")
    <3>1. Pending(m, "slave") = Pending(p, "slave")
      BY <1>2 DEF Pending
    <3>2. QED
      BY <1>4, <3>1 DEF NextLine, HasPending, Spurious
  <2>3. w = [ m EXCEPT !["slave"].irr = @ \ {j}, !["slave"].isr = @ \cup {j} ]
    BY <2>2 DEF Acknowledge
  <2> HIDE DEF m, k, j, w
  <2>4. /\ w["master"] = m["master"]
        /\ w["slave"].irr = p["slave"].irr \ {j}
        /\ w["slave"].isr = p["slave"].isr \cup {j}
    BY <1>1, <1>2, <2>3 DEF PicState, ChipState, Chip
  <2>5. QED
    BY <1>2, <2>1, <2>4 DEF Chip
<1>5. QED
  BY <1>3, <1>4
=============================================================================
