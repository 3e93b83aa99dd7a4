-------------------------- MODULE AtaPorts_proofs --------------------------
(***************************************************************************)
(* Proofs about an ATA channel under any guest: no access, timer, change   *)
(* of disc or reset leaves it stuck, asking when it must not, or silent    *)
(* about a change of disc.                                                 *)
(***************************************************************************)
EXTENDS AtaPorts, SequenceTheorems, TLAPS

Octet  == 0 .. 255
Low    == { n \in Nat : n < 16777216 }
Sector == [1 .. SectorBytes -> Octet]
Packet == [1 .. CdbBytes -> Octet]

\* The sectors of a disk that were written
Written == UNION { [D -> Sector] : D \in SUBSET Nat }

Number   == Nat
Kind     == {"none", "hdd", "cdrom"}
Transfer == {"none", "read", "write", "packet", "dataIn"}
Override == {"none", "zero", "busy"}
Key      == {NoSense, NotReady, IllegalRequest, UnitAttention}

DriveState ==
    [ type : Kind, xfer : Transfer, buf : Seq(Octet), pos : Number,
      chunk : Number, chunkPos : Number, limit : Number,
      override : Override, abortDue : Flag, error : Octet,
      command : Octet, lbamode : Flag, cur : Number, target : Number,
      sect : Number, head : Number, cyl : Number, dma : Flag, lba : Lba,
      sectors : Octet, cdb : Packet, spt : Number, heads : Number,
      size : Number, disk : Written, cdrom : CdromState ]

ChannelState ==
    [ select : Flag, inreset : Flag, srst : Flag, intOn : Flag,
      pending : Flag, irr : Flag, resetTimer : Flag, cmdTimer : Flag,
      slot : [Slots -> DriveState] ]

-----------------------------------------------------------------------------
(* Values, bytes and positions                                             *)

\* Small values belong to the sets of the fields.
LEMMA Values ==
    /\ 0 \in Number /\ 1 \in Number
    /\ 0 \in Flag /\ 1 \in Flag
    /\ 0 \in Octet /\ 1 \in Octet /\ 2 \in Octet /\ 3 \in Octet
    /\ 4 \in Octet /\ <<>> \in Seq(Octet)
    /\ "none" \in Transfer /\ "read" \in Transfer /\ "write" \in Transfer
    /\ "packet" \in Transfer /\ "dataIn" \in Transfer
    /\ "none" \in Override /\ "zero" \in Override /\ "busy" \in Override
<1>1. 0 \in Number /\ 1 \in Number
  BY SMT DEF Number
<1>2. /\ 0 \in Octet /\ 1 \in Octet /\ 2 \in Octet /\ 3 \in Octet /\ 4 \in Octet
  BY SMT DEF Octet
<1>3. <<>> \in Seq(Octet) /\ 0 \in Flag /\ 1 \in Flag
  BY SMT DEF Flag
<1>4. /\ "none" \in Transfer /\ "read" \in Transfer /\ "write" \in Transfer
      /\ "packet" \in Transfer /\ "dataIn" \in Transfer
      /\ "none" \in Override /\ "zero" \in Override /\ "busy" \in Override
  BY SMT DEF Transfer, Override
<1>5. QED
  BY <1>1, <1>2, <1>3, <1>4

\* Repeat makes a sequence of as many bytes as it is asked for.
LEMMA RepeatBytes ==
    ASSUME NEW n \in Nat, NEW b \in Octet
    PROVE  /\ Repeat(b, n) \in [1 .. n -> Octet]
           /\ Repeat(b, n) \in Seq(Octet) /\ Len(Repeat(b, n)) = n
  BY SMT DEF Repeat

\* A sector is a sequence of SectorBytes bytes.
LEMMA SectorSeq ==
    ASSUME NEW b \in Sector
    PROVE  b \in Seq(Octet) /\ Len(b) = SectorBytes
  BY AtaAssumption DEF Sector

\* An empty packet buffer
LEMMA NoPacket == Repeat(0, CdbBytes) \in Packet
<1>1. 0 \in Octet /\ CdbBytes \in Nat
  BY Values, AtaAssumption
<1>2. QED
  BY <1>1, RepeatBytes DEF Packet

\* The parts of the address in a task file, and how it is put together.
LEMMA LbaParts ==
    ASSUME NEW lba \in Lba
    PROVE  /\ High(lba) \in 0 .. 15
           /\ High(lba) \in Number /\ Mid(lba) \in Number /\ lba % 64 \in Number
  BY SMT DEF High, Mid, Lba, Number

\* The head that the address shows has four bits.
LEMMA HeadOf ==
    ASSUME NEW m \in Nat
    PROVE  m % 16 \in 0 .. 15
  BY SMT

\* Four bits of head above 24 bits make an address.
LEMMA LbaOf ==
    ASSUME NEW h \in 0 .. 15, NEW low \in Low
    PROVE  h * 16777216 + low \in Lba
  BY SMT DEF Low, Lba

\* The other ways in which the registers put an address together.
LEMMA LbaFits ==
    /\ 0 \in Lba /\ 1 \in Low /\ 1 + 15405056 \in Low
    /\ \A n \in Nat : n % 16777216 \in Low
    /\ \A n \in Lba : n % 16777216 \in Low /\ (n + 1) % 268435456 \in Lba
    /\ \A n \in Lba, k \in Nat : n - Mid(n) * 256 + (k % 65536) * 256 \in Lba
<1>1. 0 \in Lba /\ 1 \in Low /\ 1 + 15405056 \in Low
  BY SMT DEF Low, Lba
<1>2. \A n \in Nat : n % 16777216 \in Low
  BY SMT DEF Low
<1>3. \A n \in Lba : n % 16777216 \in Low
  BY SMT DEF Low, Lba
<1>4. \A n \in Lba : (n + 1) % 268435456 \in Lba
  BY SMT DEF Lba
<1>5. \A n \in Lba, k \in Nat : n - Mid(n) * 256 + (k % 65536) * 256 \in Lba
  BY SMT DEF Lba, Mid
<1>6. QED
  BY <1>1, <1>2, <1>3, <1>4, <1>5

-----------------------------------------------------------------------------
(* What the operations on a drive keep                                     *)

\* What no operation of the data path touches
SameDrive(s, t) ==
    t.type = s.type /\ t.override = s.override /\ t.abortDue = s.abortDue

\* No operation that moves the registers or the positions in CHS mode
\* touches the transfer.
SameTransfer(s, t) ==
    /\ SameDrive(s, t)
    /\ t.xfer = s.xfer /\ t.buf = s.buf /\ t.pos = s.pos
    /\ t.chunk = s.chunk /\ t.chunkPos = s.chunkPos
    /\ t.cur = s.cur /\ t.target = s.target /\ t.error = s.error
    /\ t.cdrom = s.cdrom /\ t.cdb = s.cdb

\* ClearTransfer empties the buffer and keeps everything else.
LEMMA ClearType ==
    ASSUME NEW s \in DriveState
    PROVE  LET t == ClearTransfer(s)
           IN  /\ t \in DriveState /\ SameDrive(s, t)
               /\ t.xfer = "none" /\ t.buf = <<>> /\ t.pos = 0
               /\ t.cur = s.cur /\ t.target = s.target /\ t.error = s.error
               /\ t.cdrom = s.cdrom /\ t.cdb = s.cdb
<1>1. ClearTransfer(s) \in DriveState
  BY Values, ZenonT(60) DEF ClearTransfer, DriveState
<1>2. QED
  BY <1>1 DEF ClearTransfer, DriveState, SameDrive

\* The signature changes the task file alone.
LEMMA SignatureType ==
    ASSUME NEW s \in DriveState
    PROVE  Signature(s) \in DriveState /\ SameTransfer(s, Signature(s))
<1> DEFINE l == High(s.lba) * 16777216 + 1
                  + IF s.type = "cdrom" THEN 15405056 ELSE 0
<1>1. s.lba \in Lba
  BY DEF DriveState
<1>2. l \in Lba
  <2>1. High(s.lba) \in 0 .. 15
    BY <1>1, LbaParts
  <2>2. High(s.lba) * 16777216 + 1 \in Lba
    BY <2>1, LbaFits, LbaOf
  <2>3. High(s.lba) * 16777216 + (1 + 15405056) \in Lba
    BY <2>1, LbaFits, LbaOf
  <2>4. QED
    BY <2>1, <2>2, <2>3, SMT
<1>3. Signature(s) = [ s EXCEPT !.sectors = 1, !.lba = l ]
  BY SMT DEF Signature
<1> HIDE DEF l
<1>4. Signature(s) \in DriveState
  <2>1. 1 \in Octet /\ l \in Lba
    BY Values, <1>2
  <2>2. QED
    BY <1>3, <2>1, ZenonT(60) DEF DriveState
<1>5. QED
  BY <1>3, <1>4 DEF DriveState, SameTransfer, SameDrive

\* A reset leaves a drive idle, with an error code that is no sense key.
LEMMA ResetType ==
    ASSUME NEW s \in DriveState
    PROVE  LET t == ResetDrive(s)
           IN  /\ t \in DriveState /\ t.type = s.type
               /\ t.xfer = "none" /\ t.buf = <<>> /\ t.pos = 0
               /\ t.cur = 0 /\ t.target = 0 /\ t.error \in {0, 1}
               /\ t.override = "none" /\ t.abortDue = 0
               /\ t.cdrom \in {s.cdrom, CdReset(s.cdrom)}
<1> DEFINE u == ClearTransfer(s)
           r == [ u EXCEPT
                 !.override = "none", !.abortDue = 0, !.command = 0,
                 !.lbamode = 0, !.cur = 0, !.target = 0, !.sect = 1, !.head = 0,
                 !.cyl = 0, !.dma = 0, !.lba = 0, !.sectors = 1,
                 !.cdb = Repeat(0, CdbBytes) ]
           g == Signature(r)
<1>1. Repeat(0, CdbBytes) \in Packet /\ 0 \in Lba
  BY NoPacket, LbaFits
<1>2. /\ u \in DriveState /\ SameDrive(s, u) /\ u.xfer = "none" /\ u.buf = <<>>
      /\ u.pos = 0 /\ u.cdrom = s.cdrom
  BY ClearType
<1> HIDE DEF u
<1>3. r \in DriveState
  <2>1. /\ u \in DriveState /\ 0 \in Number /\ 0 \in Octet /\ 0 \in Flag
        /\ 1 \in Number /\ 1 \in Octet /\ 0 \in Lba /\ "none" \in Override
        /\ Repeat(0, CdbBytes) \in Packet
    BY <1>1, <1>2, Values
  <2>2. QED
    BY <2>1, ZenonT(60) DEF DriveState
<1>4. /\ r.type = s.type /\ r.xfer = "none" /\ r.buf = <<>> /\ r.pos = 0
      /\ r.cur = 0 /\ r.target = 0 /\ r.override = "none" /\ r.abortDue = 0
      /\ r.cdrom = s.cdrom
  BY <1>2 DEF DriveState, SameDrive
<1>5. ResetDrive(s) =
        CASE s.type = "none"  -> [ r EXCEPT !.error = 0 ]
          [] s.type = "hdd"   -> [ g EXCEPT !.error = 1 ]
          [] s.type = "cdrom" -> [ g EXCEPT !.error = 1,
                                            !.cdrom = CdReset(g.cdrom) ]
  BY DEF ResetDrive, u
<1> HIDE DEF r
<1>6. /\ g \in DriveState /\ g.type = s.type /\ g.xfer = "none" /\ g.buf = <<>>
      /\ g.pos = 0 /\ g.cur = 0 /\ g.target = 0 /\ g.override = "none"
      /\ g.abortDue = 0 /\ g.cdrom = s.cdrom
  BY <1>3, <1>4, SignatureType DEF SameTransfer, SameDrive
<1> HIDE DEF g
<1>7. CdReset(s.cdrom) \in CdromState
  BY Values, ZenonT(60) DEF CdReset, DriveState, CdromState
<1>8. CASE s.type = "none"
  <2> DEFINE t == [ r EXCEPT !.error = 0 ]
  <2>1. ResetDrive(s) = t /\ 0 \in Octet
    BY <1>5, <1>8, Values
  <2>2. t \in DriveState
    BY <1>3, <2>1, ZenonT(60) DEF DriveState
  <2>3. /\ t.type = r.type /\ t.xfer = r.xfer /\ t.buf = r.buf /\ t.pos = r.pos
        /\ t.cur = r.cur /\ t.target = r.target /\ t.error = 0
        /\ t.override = r.override /\ t.abortDue = r.abortDue
        /\ t.cdrom = r.cdrom
    BY <1>3, ZenonT(60) DEF DriveState
  <2> HIDE DEF t
  <2>4. QED
    BY <1>4, <2>1, <2>2, <2>3
<1>9. CASE s.type = "hdd"
  <2> DEFINE t == [ g EXCEPT !.error = 1 ]
  <2>1. ResetDrive(s) = t /\ 1 \in Octet
    BY <1>5, <1>9, Values
  <2>2. t \in DriveState
    BY <1>6, <2>1, ZenonT(60) DEF DriveState
  <2>3. /\ t.type = g.type /\ t.xfer = g.xfer /\ t.buf = g.buf /\ t.pos = g.pos
        /\ t.cur = g.cur /\ t.target = g.target /\ t.error = 1
        /\ t.override = g.override /\ t.abortDue = g.abortDue
        /\ t.cdrom = g.cdrom
    BY <1>6, ZenonT(60) DEF DriveState
  <2> HIDE DEF t
  <2>4. QED
    BY <1>6, <2>1, <2>2, <2>3
<1>10. CASE s.type = "cdrom"
  <2> DEFINE k == CdReset(g.cdrom)
             t == [ g EXCEPT !.error = 1, !.cdrom = k ]
  <2>1. k = CdReset(s.cdrom) /\ ResetDrive(s) = t
    BY <1>5, <1>6, <1>10
  <2>2. k \in CdromState
    BY <1>7, <2>1
  <2> HIDE DEF k
  <2>3. t \in DriveState
    BY <1>6, <2>2, Values, ZenonT(60) DEF DriveState
  <2>4. /\ t.type = g.type /\ t.xfer = g.xfer /\ t.buf = g.buf /\ t.pos = g.pos
        /\ t.cur = g.cur /\ t.target = g.target /\ t.error = 1
        /\ t.override = g.override /\ t.abortDue = g.abortDue /\ t.cdrom = k
    BY <1>6, ZenonT(60) DEF DriveState
  <2>5. QED
    BY <1>6, <2>1, <2>3, <2>4
<1>11. s.type \in {"none", "hdd", "cdrom"}
  BY DEF DriveState, Kind
<1>12. QED
  BY <1>8, <1>9, <1>10, <1>11

\* PioIn puts the bytes at the start of a read.
LEMMA PioInType ==
    ASSUME NEW s \in DriveState, NEW b \in Seq(Octet)
    PROVE  LET t == PioIn(s, b)
           IN  /\ t \in DriveState /\ SameDrive(s, t)
               /\ t.xfer = "read" /\ t.buf = b /\ t.pos = 0
               /\ t.cur = s.cur /\ t.target = s.target /\ t.error = s.error
               /\ t.cdrom = s.cdrom /\ t.cdb = s.cdb
<1> DEFINE n == Len(b)
<1>1. n \in Number /\ 0 \in Number /\ "read" \in Transfer
  BY Values DEF Number
<1> DEFINE t == [ s EXCEPT !.xfer = "read", !.buf = b, !.pos = 0,
                           !.chunk = n, !.chunkPos = 0 ]
<1>2. PioIn(s, b) = t
  BY DEF PioIn
<1> HIDE DEF n
<1>3. t \in DriveState
  BY <1>1, ZenonT(60) DEF DriveState
<1>4. QED
  BY <1>2, <1>3 DEF DriveState, SameDrive

\* Going on to the next sector moves registers, not the transfer.
LEMMA AdvanceType ==
    ASSUME NEW s \in DriveState
    PROVE  Advance(s) \in DriveState /\ SameTransfer(s, Advance(s))
<1> DEFINE t == Advance(s)
<1>1. /\ s.lba \in Lba /\ s.head \in Nat /\ s.cyl \in Nat /\ s.sect \in Nat
      /\ s.spt \in Nat /\ s.heads \in Nat
  BY DEF DriveState, Number
<1>2. CASE s.lbamode = 1
  <2> DEFINE l == (s.lba + 1) % 268435456
             u == [ s EXCEPT !.lba = l ]
  <2>1. l \in Lba /\ t = u
    BY <1>1, <1>2, LbaFits, SMT DEF Advance
  <2> HIDE DEF l, t
  <2>2. u \in DriveState
    BY <2>1, ZenonT(60) DEF DriveState
  <2>3. SameTransfer(s, u)
    BY Zenon DEF DriveState, SameTransfer, SameDrive
  <2>4. QED
    BY <2>1, <2>2, <2>3 DEF t
<1>3. CASE s.lbamode # 1
  <2> DEFINE last == s.sect + 1 > s.spt
             turn == last /\ s.head + 1 = s.heads
             low  == ((s.lba % 256) \div 64) * 64 + s.sect
             l == (s.head % 16) * 16777216 + (s.cyl % 65536) * 256 + (low % 256)
             e == IF last THEN 1 ELSE s.sect + 1
             h == IF turn THEN 0 ELSE IF last THEN s.head + 1 ELSE s.head
             y == IF turn THEN s.cyl + 1 ELSE s.cyl
             u == [ s EXCEPT !.lba = l, !.sect = e, !.head = h, !.cyl = y ]
  <2>1. t = u
    BY <1>3 DEF Advance
  <2>2. l \in Lba
    <3> DEFINE m == (s.cyl % 65536) * 256 + (low % 256)
               q == s.head % 16
    <3>1. low \in Nat
      BY <1>1, SMT DEF Lba
    <3>2. m \in Low /\ q \in 0 .. 15
      <4> DEFINE a == s.cyl
      <4>1. a \in Nat
        BY <1>1
      <4> HIDE DEF low, a
      <4>2. (a % 65536) * 256 + (low % 256) \in Low
        BY <3>1, <4>1, SMT DEF Low
      <4>3. q \in 0 .. 15
        BY <1>1, HeadOf
      <4>4. QED
        BY <4>2, <4>3, SMT DEF a
    <3>3. l = q * 16777216 + m
      <4>1. (s.cyl % 65536) * 256 \in Int /\ low % 256 \in Int
            /\ q * 16777216 \in Int
        <5> HIDE DEF low
        <5>1. QED
          BY <1>1, <3>1, SMT
      <4>2. QED
        BY <4>1, SMT
    <3> HIDE DEF m, q, l
    <3>4. QED
      BY <3>2, <3>3, LbaOf
  <2>3. e \in Number /\ h \in Number /\ y \in Number
    BY <1>1, SMT DEF Number
  <2> HIDE DEF l, e, h, y, t
  <2>4. u \in DriveState
    BY <2>2, <2>3, ZenonT(60) DEF DriveState
  <2>5. SameTransfer(s, u)
    BY Zenon DEF DriveState, SameTransfer, SameDrive
  <2>6. QED
    BY <2>1, <2>4, <2>5 DEF t
<1>4. QED
  BY <1>2, <1>3

\* What a disk holds, of the sectors that were written and of the others
LEMMA SectorAtType ==
    ASSUME NEW s \in DriveState, NEW at
    PROVE  SectorAt(s, at) \in Seq(Octet) /\ Len(SectorAt(s, at)) = SectorBytes
<1>1. PICK D \in SUBSET Nat : s.disk \in [D -> Sector]
  BY DEF DriveState, Written
<1>2. CASE at \in DOMAIN s.disk
  BY <1>1, <1>2, SectorSeq DEF SectorAt
<1>3. CASE at \notin DOMAIN s.disk
  <2>1. SectorBytes \in Nat
    BY AtaAssumption
  <2>2. QED
    BY <1>3, <2>1, Values, RepeatBytes DEF SectorAt
<1>4. QED
  BY <1>2, <1>3

\* An address is a number, whichever mode it comes from.
LEMMA AddressType ==
    ASSUME NEW s \in DriveState
    PROVE  Address(s) \in Nat
<1>1. /\ s.lba \in Nat /\ s.head \in Nat /\ s.cyl \in Nat /\ s.sect \in Nat
      /\ s.spt \in Nat /\ s.heads \in Nat /\ LastLba \in Nat
  BY AtaAssumption DEF DriveState, Number, Lba
<1>2. s.cyl * s.heads \in Nat
  BY <1>1, SMT
<1>3. (s.cyl * s.heads + s.head) * s.spt \in Nat
  BY <1>1, <1>2, SMT
<1>4. QED
  BY <1>1, <1>3, SMT DEF Address

\* A sector that is stored keeps the disk a map of sectors.
LEMMA StoredType ==
    ASSUME NEW s \in DriveState, NEW at \in Nat, Len(s.buf) = SectorBytes
    PROVE  Stored(s, at) \in DriveState /\ SameTransfer(s, Stored(s, at))
<1> DEFINE z == IF at >= s.size THEN at + 1 ELSE s.size
           d == [ n \in DOMAIN s.disk \cup {at} |->
                    IF n = at THEN s.buf ELSE s.disk[n] ]
<1>1. PICK D \in SUBSET Nat : s.disk \in [D -> Sector]
  BY DEF DriveState, Written
<1>2. s.buf \in Sector
  <2>1. s.buf \in Seq(Octet)
    BY DEF DriveState
  <2>2. QED
    BY <2>1 DEF Sector
<1>3. d \in [D \cup {at} -> Sector]
  BY <1>1, <1>2
<1>4. d \in Written
  <2> HIDE DEF d
  <2>1. D \cup {at} \in SUBSET Nat
    BY <1>1
  <2>2. QED
    BY <1>3, <2>1 DEF Written
<1>5. z \in Number
  BY SMT DEF DriveState, Number
<1>6. Stored(s, at) = [ s EXCEPT !.size = z, !.disk = d ]
  BY DEF Stored
<1> HIDE DEF z, d
<1>7. Stored(s, at) \in DriveState
  BY <1>4, <1>5, <1>6, ZenonT(60) DEF DriveState
<1>8. QED
  BY <1>6, <1>7, SMT DEF DriveState, SameTransfer, SameDrive

\* A transfer starts with at least one sector to go.
LEMMA PositionedType ==
    ASSUME NEW s \in DriveState
    PROVE  LET t == Positioned(s)
           IN  /\ t \in DriveState /\ SameDrive(s, t)
               /\ t.xfer = s.xfer /\ t.buf = s.buf /\ t.pos = s.pos
               /\ t.cur = 0 /\ t.target > 0 /\ t.error = 0
               /\ t.cdrom = s.cdrom /\ t.cdb = s.cdb
<1> DEFINE n == IF s.sectors = 0 THEN 256 ELSE s.sectors
           t == [ s EXCEPT !.error = 0, !.cur = 0, !.target = n ]
           y == Mid(s.lba)
           h == High(s.lba)
           e == s.lba % 64
           u == [ t EXCEPT !.cyl = y, !.head = h, !.sect = e ]
<1>1. s.lba \in Lba /\ s.sectors \in Octet
  BY DEF DriveState
<1>2. n \in Number /\ n > 0
  BY <1>1, SMT DEF Number, Octet
<1>3. y \in Number /\ h \in Number /\ e \in Number
  BY <1>1, LbaParts
<1>4. Positioned(s) = IF s.lbamode = 1 THEN t ELSE u
  BY DEF Positioned
<1> HIDE DEF n, y, h, e
<1>5. t \in DriveState
  BY <1>2, Values, ZenonT(60) DEF DriveState
<1>6. /\ SameDrive(s, t) /\ t.xfer = s.xfer /\ t.buf = s.buf /\ t.pos = s.pos
      /\ t.cur = 0 /\ t.target = n /\ t.error = 0
      /\ t.cdrom = s.cdrom /\ t.cdb = s.cdb
  BY Zenon DEF DriveState, SameDrive
<1> HIDE DEF t
<1>7. u \in DriveState
  BY <1>3, <1>5, ZenonT(60) DEF DriveState
<1>8. /\ SameDrive(t, u) /\ u.xfer = t.xfer /\ u.buf = t.buf /\ u.pos = t.pos
      /\ u.cur = t.cur /\ u.target = t.target /\ u.error = t.error
      /\ u.cdrom = t.cdrom /\ u.cdb = t.cdb
  BY <1>5, ZenonT(60) DEF DriveState, SameDrive
<1> HIDE DEF u
<1>9. CASE s.lbamode = 1
  BY <1>2, <1>4, <1>5, <1>6, <1>9
<1>10. CASE s.lbamode # 1
  BY <1>2, <1>4, <1>6, <1>7, <1>8, <1>10 DEF SameDrive
<1>11. QED
  BY <1>9, <1>10

\* A write begins with an empty sector and at least one to do.
LEMMA BeginWriteType ==
    ASSUME NEW s \in DriveState
    PROVE  LET t == BeginWrite(s)
           IN  /\ t \in DriveState /\ SameDrive(s, t)
               /\ t.xfer = "write" /\ Len(t.buf) = SectorBytes /\ t.pos = 0
               /\ t.cur = 0 /\ t.target > 0 /\ t.error = 0
               /\ t.cdrom = s.cdrom /\ t.cdb = s.cdb
<1> DEFINE p == Positioned(s)
           b == Repeat(0, SectorBytes)
<1>1. b \in Seq(Octet) /\ Len(b) = SectorBytes /\ SectorBytes \in Number
  BY AtaAssumption, Values, RepeatBytes DEF Number
<1>2. /\ p \in DriveState /\ SameDrive(s, p)
      /\ p.cur = 0 /\ p.target > 0 /\ p.error = 0
      /\ p.cdrom = s.cdrom /\ p.cdb = s.cdb
  BY PositionedType
<1> DEFINE t == [ p EXCEPT !.xfer = "write", !.buf = b, !.pos = 0,
                           !.chunk = SectorBytes, !.chunkPos = 0 ]
<1>3. BeginWrite(s) = t
  BY DEF BeginWrite
<1> HIDE DEF p, b
<1>4. 0 \in Number /\ "write" \in Transfer
  BY Values
<1>5. p \in DriveState
  BY <1>2
<1>6. t \in DriveState
  BY <1>1, <1>4, <1>5, ZenonT(60) DEF DriveState
<1>7. /\ SameDrive(p, t) /\ t.xfer = "write" /\ t.buf = b /\ t.pos = 0
      /\ t.cur = p.cur /\ t.target = p.target /\ t.error = p.error
      /\ t.cdrom = p.cdrom /\ t.cdb = p.cdb
  BY <1>5, ZenonT(60) DEF DriveState, SameDrive
<1>8. QED
  BY <1>1, <1>2, <1>3, <1>6, <1>7 DEF SameDrive

-----------------------------------------------------------------------------
(* The drive of a disc                                                     *)

\* Has the guest, told or not, still to be told of the disc in the drive?
Owed(cd, k) == cd.media # NoDisc /\ ~k => cd.ua = 1

\* An attached, ejected or reset drive, and its attention.
LEMMA DiscTypes ==
    ASSUME NEW cd \in CdromState, NEW disc \in Discs \cup {NoDisc}
    PROVE  /\ CdAttach(cd, disc) \in CdromState /\ CdAttach(cd, disc).ua = 1
           /\ CdAttach(cd, disc).media = disc
           /\ CdEject(cd) \in CdromState /\ CdEject(cd).ua = 1
           /\ CdEject(cd).media = NoDisc
           /\ CdReset(cd) \in CdromState /\ CdReset(cd).ua = cd.ua
           /\ CdReset(cd).media = cd.media
           /\ CdReset(cd).sense = NoSense
<1>1. 0 \in {0, 1} /\ 1 \in {0, 1} /\ 1 \in 0 .. 2 /\ NoDisc \in Discs \cup {NoDisc}
  BY SMT
<1>2. CdAttach(cd, disc) \in CdromState /\ CdEject(cd) \in CdromState
      /\ CdReset(cd) \in CdromState
  BY <1>1, ZenonT(60) DEF CdAttach, CdEject, CdReset, CdromState
<1>3. QED
  BY <1>2, ZenonT(60) DEF CdAttach, CdEject, CdReset, CdromState

\* An error changes the sense key alone.
LEMMA ErrorType ==
    ASSUME NEW cd \in CdromState, NEW key \in Key
    PROVE  LET r == Error(cd, key)
           IN  /\ r.cd \in CdromState /\ r.cd.sense = key
               /\ r.cd.media = cd.media /\ r.cd.ua = cd.ua
               /\ r.result = "error" /\ r.data = <<>>
<1>1. [ cd EXCEPT !.sense = key ] \in CdromState
  BY DEF CdromState, Key
<1>2. QED
  BY <1>1 DEF Error, CdromState

\* A disc is loaded with an attention, or there is none to load.
LEMMA LoadType ==
    ASSUME NEW cd \in CdromState
    PROVE  LET r == Load(cd)
           IN  /\ r.cd \in CdromState /\ r.result \in {"ok", "error"}
               /\ r.data = <<>>
               /\ \/ r.cd.media = cd.media /\ r.cd.ua = cd.ua
                  \/ r.cd.ua = 1
<1>1. CASE cd.path = NoDisc
  <2>1. NotReady \in Key
    BY DEF Key
  <2>2. QED
    BY <1>1, <2>1, ErrorType DEF Load
<1>2. CASE cd.path # NoDisc
  <2>1. cd.path \in Discs \cup {NoDisc}
    BY DEF CdromState
  <2>2. Load(cd) = Ok(CdAttach(cd, cd.path))
    BY <1>2 DEF Load
  <2>3. QED
    BY <2>1, <2>2, DiscTypes DEF Ok
<1>3. QED
  BY <1>1, <1>2

\* Each command either keeps the disc and the attention, or puts another
\* disc or none into the drive and raises the attention; a request for the
\* sense reports the attention when it takes it back.
PerformOK(cd, op, r) ==
    /\ r.cd \in CdromState /\ r.result \in {"ok", "error", "data"}
    /\ r.data \in Seq(Octet)
    /\ op = Sense => r.result = "data" /\ Len(r.data) = 2
    /\ op = Read /\ r.result = "data" => r.cd.media = cd.media
    /\ \/ r.cd.media = cd.media /\ r.cd.ua = cd.ua
       \/ r.cd.ua = 1
       \/ /\ op = Sense /\ r.cd.media = cd.media
          /\ r.data[1] = UnitAttention

\* PerformOK for an error,
LEMMA ErrorOK ==
    ASSUME NEW cd \in CdromState, NEW op, op # Sense, NEW key \in Key
    PROVE  PerformOK(cd, op, Error(cd, key))
<1> DEFINE r == Error(cd, key)
<1>1. /\ r.cd \in CdromState /\ r.cd.media = cd.media /\ r.cd.ua = cd.ua
      /\ r.result = "error" /\ r.data = <<>>
  BY ErrorType
<1> HIDE DEF r
<1>2. PerformOK(cd, op, r)
  BY <1>1 DEF PerformOK
<1>3. QED
  BY <1>2 DEF r

\* for a command without data,
LEMMA OkOK ==
    ASSUME NEW cd, NEW k \in CdromState, NEW op, op # Sense,
           (k.media = cd.media /\ k.ua = cd.ua) \/ k.ua = 1
    PROVE  PerformOK(cd, op, Ok(k))
  BY DEF PerformOK, Ok

\* for one with data,
LEMMA DataInOK ==
    ASSUME NEW cd \in CdromState, NEW d \in Seq(Octet), NEW op, op # Sense
    PROVE  PerformOK(cd, op, DataIn(cd, d))
  BY DEF PerformOK, DataIn

\* for the request for the sense,
LEMMA SenseOK ==
    ASSUME NEW cd \in CdromState
    PROVE  PerformOK(cd, Sense, ReportSense(cd))
<1> DEFINE key == IF cd.sense = NoSense /\ cd.ua # 0 THEN UnitAttention ELSE cd.sense
           k == [ cd EXCEPT !.sense = NoSense,
                            !.ua = IF key = UnitAttention THEN 0 ELSE @ ]
           r == ReportSense(cd)
<1>1. r = DataIn(k, Repeat(key, 2))
  BY DEF ReportSense
<1>2. key \in Octet
  BY SMT DEF CdromState, Octet, NoSense, NotReady, IllegalRequest, UnitAttention
<1>3. /\ Repeat(key, 2) \in Seq(Octet) /\ Len(Repeat(key, 2)) = 2
  <2>1. 2 \in Nat
    BY SMT
  <2>2. QED
    BY <1>2, <2>1, RepeatBytes
<1>4. Repeat(key, 2)[1] = key
  <2> HIDE DEF key
  <2>1. QED
    BY SMT DEF Repeat
<1>5. /\ k \in CdromState /\ k.media = cd.media
      /\ k.ua = IF key = UnitAttention THEN 0 ELSE cd.ua
  <2> DEFINE u == IF key = UnitAttention THEN 0 ELSE cd.ua
             j == [ cd EXCEPT !.sense = NoSense, !.ua = u ]
  <2>1. u \in 0 .. 2 /\ k = j
    BY SMT DEF CdromState
  <2> HIDE DEF u
  <2>2. j \in CdromState /\ j.media = cd.media /\ j.ua = u
    BY <2>1, ZenonT(60) DEF CdromState
  <2>3. QED
    BY <2>1, <2>2 DEF u
<1>6. r.cd = k /\ r.result = "data" /\ r.data = Repeat(key, 2)
  BY <1>1 DEF DataIn
<1> HIDE DEF key, k, r
<1>7. PerformOK(cd, Sense, r)
  BY <1>3, <1>4, <1>5, <1>6 DEF PerformOK
<1>8. QED
  BY <1>7 DEF r

\* for a read,
LEMMA ReadBlocksOK ==
    ASSUME NEW cd \in CdromState, NEW n \in Octet
    PROVE  PerformOK(cd, Read, ReadBlocks(cd, n))
<1>1. Read # Sense
  BY DEF Read, Sense
<1>2. CASE n > Blocks
  <2>1. IllegalRequest \in Key /\ ReadBlocks(cd, n) = Error(cd, IllegalRequest)
    BY <1>2 DEF Key, ReadBlocks
  <2>2. QED
    BY <1>1, <2>1, ErrorOK
<1>3. CASE ~(n > Blocks) /\ n = 0
  <2>1. ReadBlocks(cd, n) = Ok(cd)
    BY <1>3 DEF ReadBlocks
  <2>2. QED
    BY <1>1, <2>1, OkOK
<1>4. CASE ~(n > Blocks) /\ n # 0
  <2>1. ReadBlocks(cd, n) = DataIn(cd, Repeat(cd.media, n * BlockBytes))
    BY <1>4 DEF ReadBlocks
  <2>2. cd.media \in Octet
    <3>1. cd.media \in Discs \cup {0}
      BY DEF CdromState, NoDisc
    <3>2. Discs \cup {0} \subseteq Octet
      BY CdromAssumption, SMT DEF Octet
    <3>3. QED
      BY <3>1, <3>2
  <2>3. n * BlockBytes \in Nat
    BY CdromAssumption, SMT DEF Octet
  <2>4. Repeat(cd.media, n * BlockBytes) \in Seq(Octet)
    BY <2>2, <2>3, RepeatBytes
  <2>5. QED
    BY <1>1, <2>1, <2>4, DataInOK
<1>5. QED
  BY <1>2, <1>3, <1>4

\* for the tray,
LEMMA StartStopOK ==
    ASSUME NEW cd \in CdromState, NEW arg
    PROVE  PerformOK(cd, StartStop, StartStopUnit(cd, arg))
<1> DEFINE r == StartStopUnit(cd, arg)
<1>1. StartStop # Sense /\ StartStop # Read
  BY DEF StartStop, Sense, Read
<1>2. IllegalRequest \in Key /\ 0 \in Discs \cup {NoDisc}
  BY DEF Key, NoDisc
<1>3. r \in { Load(cd), Ok(cd), Error(cd, IllegalRequest), Ok(CdEject(cd)) }
  BY DEF StartStopUnit
<1>4. CASE r = Load(cd)
  BY <1>1, <1>4, LoadType, Values DEF PerformOK
<1>5. CASE r = Ok(cd)
  BY <1>1, <1>5, OkOK
<1>6. CASE r = Error(cd, IllegalRequest)
  BY <1>1, <1>2, <1>6, ErrorOK
<1>7. CASE r = Ok(CdEject(cd))
  BY <1>1, <1>2, <1>7, DiscTypes, OkOK
<1>8. QED
  BY <1>3, <1>4, <1>5, <1>6, <1>7

\* and so for the whole switch of atapi_cdrom_command.
LEMMA PerformType ==
    ASSUME NEW cd \in CdromState, NEW op \in Octet, NEW arg \in Octet
    PROVE  PerformOK(cd, op, Perform(cd, op, arg))
<1> DEFINE r == Perform(cd, op, arg)
<1>1. /\ Tur # Sense /\ Tur # Read /\ Removal # Sense /\ Removal # Read
      /\ Tur # StartStop /\ Sense # StartStop /\ Read # StartStop
      /\ Removal # StartStop /\ Read # Sense /\ Tur # Removal
  BY DEF Tur, Sense, Read, StartStop, Removal
<1>2. {Inquiry, Config, EventStat, ModeSense} \cap {Tur, Sense, Read, StartStop, Removal} = {}
  BY DEF Tur, Sense, Read, StartStop, Removal, Inquiry, Config, EventStat, ModeSense
<1>3. CASE op = Tur
  <2>1. r = Ok(cd)
    BY <1>3 DEF Perform, Tur, Sense, Read, StartStop, Removal,
           Inquiry, Config, EventStat, ModeSense
  <2>2. QED
    BY <1>1, <1>3, <2>1, OkOK
<1>4. CASE op = Sense
  <2>1. r = ReportSense(cd)
    BY <1>4 DEF Perform, Tur, Sense, Read, StartStop, Removal,
           Inquiry, Config, EventStat, ModeSense
  <2>2. QED
    BY <1>4, <2>1, SenseOK
<1>5. CASE op = Read
  <2>1. r = ReadBlocks(cd, arg)
    BY <1>5 DEF Perform, Tur, Sense, Read, StartStop, Removal,
           Inquiry, Config, EventStat, ModeSense
  <2>2. QED
    BY <1>5, <2>1, ReadBlocksOK
<1>6. CASE op = StartStop
  <2>1. r = StartStopUnit(cd, arg % 4)
    BY <1>6 DEF Perform, Tur, Sense, Read, StartStop, Removal,
           Inquiry, Config, EventStat, ModeSense
  <2>2. QED
    BY <1>6, <2>1, StartStopOK
<1>7. CASE op = Removal
  <2> DEFINE p == arg % 2
             k == [ cd EXCEPT !.prevent = p ]
  <2>1. r = Ok(k)
    BY <1>7 DEF Perform, Tur, Sense, Read, StartStop, Removal,
           Inquiry, Config, EventStat, ModeSense
  <2>2. p \in {0, 1}
    BY SMT DEF Octet
  <2> HIDE DEF p
  <2>3. k \in CdromState /\ k.media = cd.media /\ k.ua = cd.ua
    BY <2>2, ZenonT(60) DEF CdromState
  <2>4. QED
    BY <1>1, <1>7, <2>1, <2>3, OkOK
<1>8. CASE op \in {Inquiry, Config, EventStat, ModeSense}
  <2>1. r = DataIn(cd, Repeat(0, 2))
    BY <1>8 DEF Perform, Tur, Sense, Read, StartStop, Removal,
           Inquiry, Config, EventStat, ModeSense
  <2>2. op # Sense /\ op # Read
    BY <1>2, <1>8
  <2>3. Repeat(0, 2) \in Seq(Octet)
    BY Values, RepeatBytes, 2 \in Nat
  <2>4. QED
    BY <2>1, <2>2, <2>3, DataInOK
<1>9. CASE op \notin {Tur, Sense, Read, StartStop, Removal, Inquiry, Config,
                      EventStat, ModeSense}
  <2>1. r = Error(cd, IllegalRequest) /\ IllegalRequest \in Key
    BY <1>9 DEF Perform, Key
  <2>2. QED
    BY <1>9, <2>1, ErrorOK
<1>10. QED
  BY <1>3, <1>4, <1>5, <1>6, <1>7, <1>8, <1>9

\* What a command answers tells of the disc
Heard(op, r) ==
    \/ r.result = "error" /\ r.cd.sense \in {NotReady, UnitAttention}
    \/ /\ r.result = "data" /\ op = Sense /\ Len(r.data) = 2
       /\ r.data[1] \in {NotReady, UnitAttention}

\* What is owed to the guest stays owed until a command tells it, and no
\* block is read before.
LEMMA CommandType ==
    ASSUME NEW cd \in CdromState, NEW op \in Octet, NEW arg \in Octet
    PROVE  LET r == CdCommand(cd, op, arg)
           IN  /\ r.cd \in CdromState /\ r.result \in {"ok", "error", "data"}
               /\ r.data \in Seq(Octet)
               /\ \A k \in BOOLEAN :
                    LET n == r.cd.media = cd.media /\ (k \/ Heard(op, r))
                    IN  Owed(cd, k) => /\ Owed(r.cd, n)
                                       /\ op = Read /\ r.result = "data" => n
<1> DEFINE p == Present(cd)
           a == Attended(p, op)
           r == CdCommand(cd, op, arg)
<1>1. /\ p \in CdromState /\ p.media = cd.media
      /\ cd.media # NoDisc => p = cd
  BY DEF Present, CdromState
<1>2. /\ a \in CdromState /\ a.media = p.media
      /\ p.ua = 1 => a.ua = 1
  <2> DEFINE u == IF p.ua = 2 THEN 0 ELSE p.ua
             j == [ p EXCEPT !.sense = NoSense, !.ua = u ]
  <2> HIDE DEF p
  <2>1. u \in 0 .. 2 /\ (p.ua = 1 => u = 1)
    BY <1>1, SMT DEF CdromState
  <2>2. a = IF op = Sense THEN p ELSE j
    BY DEF Attended
  <2> HIDE DEF u, a
  <2>3. j \in CdromState /\ j.media = p.media /\ j.ua = u
    BY <1>1, <2>1, ZenonT(60) DEF CdromState
  <2>4. QED
    BY <1>1, <2>1, <2>2, <2>3
<1>3. CASE p.ua = 1 /\ op \notin AllowsAttention
  <2> DEFINE q == [ p EXCEPT !.ua = 2 ]
  <2>1. q \in CdromState /\ q.media = p.media
    BY <1>1 DEF CdromState
  <2>2. r = Error(q, UnitAttention) /\ UnitAttention \in Key
    BY <1>3 DEF CdCommand, Key
  <2> HIDE DEF q, p, a, r
  <2>3. /\ r.cd \in CdromState /\ r.cd.sense = UnitAttention
        /\ r.cd.media = cd.media /\ r.result = "error" /\ r.data = <<>>
    BY <1>1, <2>1, <2>2, ErrorType
  <2>4. Heard(op, r)
    BY <2>3 DEF Heard
  <2>5. QED
    BY <2>3, <2>4, Values DEF Owed, r
<1>4. CASE ~(p.ua = 1 /\ op \notin AllowsAttention) /\ a.media = NoDisc
           /\ op \in NeedsMedia
  <2>1. r = Error(a, NotReady) /\ NotReady \in Key
    BY <1>4 DEF CdCommand, Key
  <2> HIDE DEF p, a, r
  <2>2. /\ r.cd \in CdromState /\ r.cd.media = cd.media /\ r.result = "error"
        /\ r.data = <<>> /\ r.cd.media = NoDisc
    BY <1>1, <1>2, <1>4, <2>1, ErrorType
  <2>3. QED
    BY <2>2, Values DEF Owed, r
<1>5. CASE ~(p.ua = 1 /\ op \notin AllowsAttention)
           /\ ~(a.media = NoDisc /\ op \in NeedsMedia)
  <2>1. r = Perform(a, op, arg)
    BY <1>5 DEF CdCommand
  <2> HIDE DEF p, a, r
  <2>2. PerformOK(a, op, r)
    BY <1>2, <2>1, PerformType
  <2>3. Read \in NeedsMedia /\ Read \notin AllowsAttention
    BY DEF NeedsMedia, AllowsAttention, Read, Tur, Sense, Inquiry, Config, EventStat
  <2>4. SUFFICES ASSUME NEW k \in BOOLEAN, Owed(cd, k)
                 PROVE  LET n == r.cd.media = cd.media /\ (k \/ Heard(op, r))
                        IN  /\ Owed(r.cd, n)
                            /\ op = Read /\ r.result = "data" => n
    BY <2>2 DEF PerformOK, r
  <2>5. ASSUME op = Read, r.result = "data"
        PROVE  r.cd.media = cd.media /\ k
    <3>1. cd.media # NoDisc /\ r.cd.media = cd.media
      BY <1>1, <1>2, <1>5, <2>2, <2>3, <2>5 DEF PerformOK
    <3>2. cd.ua # 1
      BY <1>1, <1>5, <2>3, <2>5, <3>1
    <3>3. QED
      BY <2>4, <3>1, <3>2 DEF Owed
  <2>6. ASSUME r.cd.media # NoDisc,
               ~(r.cd.media = cd.media /\ (k \/ Heard(op, r)))
        PROVE  r.cd.ua = 1
    <3>1. CASE r.cd.media = a.media /\ r.cd.ua = a.ua
      <4>1. cd.ua = 1 /\ p = cd
        BY <1>1, <1>2, <2>4, <2>6, <3>1 DEF Owed
      <4>2. QED
        BY <1>2, <3>1, <4>1
    <3>2. CASE op = Sense /\ r.cd.media = a.media /\ r.data[1] = UnitAttention
      <4>1. Heard(op, r)
        BY <2>2, <3>2 DEF Heard, PerformOK
      <4>2. QED
        BY <1>1, <1>2, <2>6, <3>2, <4>1
    <3>3. QED
      BY <2>2, <3>1, <3>2 DEF PerformOK
  <2>7. QED
    BY <2>5, <2>6 DEF Owed
<1>6. QED
  BY <1>3, <1>4, <1>5

-----------------------------------------------------------------------------
(* A channel that serves one drive                                         *)

\* The fields of a drive
LEMMA DriveTypes ==
    ASSUME NEW s \in DriveState
    PROVE  /\ s.pos \in Nat /\ s.chunk \in Nat /\ s.chunkPos \in Nat
           /\ s.limit \in Nat /\ s.cur \in Nat /\ s.target \in Nat
           /\ s.size \in Nat /\ s.buf \in Seq(Octet) /\ Len(s.buf) \in Nat
           /\ s.error \in Octet /\ s.sectors \in Octet /\ s.lba \in Lba
           /\ s.cdrom \in CdromState /\ s.cdb \in Packet
           /\ s.type \in Kind /\ s.xfer \in Transfer /\ s.override \in Override
           /\ s.abortDue \in Flag
<1>1. s.buf \in Seq(Octet)
  BY DEF DriveState
<1>2. Len(s.buf) \in Nat
  BY <1>1
<1>3. QED
  BY <1>1, <1>2 DEF DriveState, Number

\* The selected drive is one of the slots.
LEMMA SelectedSlot ==
    ASSUME NEW b \in ChannelState
    PROVE  /\ b.select \in Flag /\ b.select + 1 \in Slots
           /\ b.slot \in [Slots -> DriveState] /\ Cur(b) \in DriveState
           /\ Cur(b) = b.slot[b.select + 1]
<1>1. b.select \in Flag /\ b.slot \in [Slots -> DriveState]
  BY DEF ChannelState
<1>2. b.select + 1 \in Slots
  BY <1>1, SMT DEF Flag, Slots
<1>3. QED
  BY <1>1, <1>2 DEF Cur

\* What the drive's answer leaves of the channel
Scalars(b, d) ==
    /\ d.select = b.select /\ d.inreset = b.inreset /\ d.srst = b.srst
    /\ d.intOn = b.intOn /\ d.resetTimer = b.resetTimer
    /\ d.cmdTimer = b.cmdTimer

\* A request is left as it was, or made when the channel may make one.
Asked(b, d) ==
    \/ d.pending = b.pending /\ d.irr = b.irr
    \/ d.pending = 1 /\ d.irr = 1 /\ b.intOn = 1 /\ b.inreset = 0

Served(b, d) ==
    /\ d \in ChannelState /\ Scalars(b, d) /\ Asked(b, d)
    /\ \A i \in Slots : i # b.select + 1 => d.slot[i] = b.slot[i]

\* A drive that is replaced leaves the rest of the channel alone.
LEMMA SlotPut ==
    ASSUME NEW b \in ChannelState, NEW k \in Slots, NEW s \in DriveState
    PROVE  LET d == [ b EXCEPT !.slot[k] = s ]
           IN  /\ d \in ChannelState /\ d.slot[k] = s /\ Scalars(b, d)
               /\ d.pending = b.pending /\ d.irr = b.irr
               /\ \A i \in Slots : i # k => d.slot[i] = b.slot[i]
<1> DEFINE f == [ b.slot EXCEPT ![k] = s ]
           d == [ b EXCEPT !.slot = f ]
<1>1. b.slot \in [Slots -> DriveState]
  BY DEF ChannelState
<1>2. /\ f \in [Slots -> DriveState] /\ f[k] = s
      /\ \A i \in Slots : i # k => f[i] = b.slot[i]
  BY <1>1
<1>3. [ b EXCEPT !.slot[k] = s ] = d
  BY DEF ChannelState
<1> HIDE DEF f
<1>4. d \in ChannelState /\ d.slot = f /\ Scalars(b, d)
      /\ d.pending = b.pending /\ d.irr = b.irr
  BY <1>2, ZenonT(60) DEF ChannelState, Scalars
<1>5. QED
  BY <1>2, <1>3, <1>4

\* Put serves the selected drive.
LEMMA PutType ==
    ASSUME NEW b \in ChannelState, NEW s \in DriveState
    PROVE  Served(b, Put(b, s)) /\ Cur(Put(b, s)) = s
<1> DEFINE k == b.select + 1
           d == [ b EXCEPT !.slot[k] = s ]
<1>1. k \in Slots
  BY SelectedSlot
<1> HIDE DEF k
<1>2. /\ d \in ChannelState /\ d.slot[k] = s /\ Scalars(b, d)
      /\ d.pending = b.pending /\ d.irr = b.irr
      /\ \A i \in Slots : i # k => d.slot[i] = b.slot[i]
  BY <1>1, SlotPut
<1>3. Put(b, s) = d
  BY DEF Put, k
<1> HIDE DEF d
<1>4. Served(b, d)
  BY <1>2 DEF Served, Asked, k
<1>5. Cur(d) = s
  BY <1>2 DEF Cur, Scalars, k
<1>6. QED
  BY <1>3, <1>4, <1>5

\* A request serves it too, and is made only when it may be.
LEMMA IrqType ==
    ASSUME NEW b \in ChannelState
    PROVE  Served(b, Irq(b)) /\ Cur(Irq(b)) = Cur(b)
<1> DEFINE d == [ b EXCEPT !.irr = 1, !.pending = 1 ]
<1>1. CASE b.inreset = 1 \/ b.intOn = 0
  BY <1>1 DEF Irq, Served, Scalars, Asked
<1>2. CASE ~(b.inreset = 1 \/ b.intOn = 0)
  <2>1. Irq(b) = d
    BY <1>2 DEF Irq
  <2>2. 1 \in Flag
    BY Values
  <2>3. /\ d \in ChannelState /\ Scalars(b, d) /\ d.slot = b.slot
        /\ d.pending = 1 /\ d.irr = 1
    BY <2>2, ZenonT(60) DEF ChannelState, Scalars
  <2>4. b.inreset = 0 /\ b.intOn = 1
    BY <1>2 DEF ChannelState, Flag
  <2> HIDE DEF d
  <2>5. Served(b, d) /\ Cur(d) = Cur(b)
    BY <2>3, <2>4 DEF Served, Asked, Scalars, Cur
  <2>6. QED
    BY <2>1, <2>5
<1>3. QED
  BY <1>1, <1>2

\* Two such steps are one,
LEMMA ServedAgain ==
    ASSUME NEW a, NEW b, NEW d, Served(a, b), Served(b, d)
    PROVE  Served(a, d)
<1>1. Scalars(a, d)
  BY DEF Served, Scalars
<1>2. Asked(a, d)
  BY DEF Served, Scalars, Asked
<1>3. QED
  BY <1>1, <1>2 DEF Served, Scalars

\* and so are the two together.
LEMMA PutIrqType ==
    ASSUME NEW b \in ChannelState, NEW s \in DriveState
    PROVE  Served(b, Irq(Put(b, s))) /\ Cur(Irq(Put(b, s))) = s
<1>1. Served(b, Put(b, s)) /\ Cur(Put(b, s)) = s
  BY PutType
<1>2. Put(b, s) \in ChannelState
  BY <1>1 DEF Served
<1>3. Served(Put(b, s), Irq(Put(b, s))) /\ Cur(Irq(Put(b, s))) = Cur(Put(b, s))
  BY <1>2, IrqType
<1>4. QED
  BY <1>1, <1>3, ServedAgain

-----------------------------------------------------------------------------
(* A drive in good order                                                   *)

\* Where a transfer may stand; y says whether the guest may have read while
\* it was to write.
Positions(s, y) ==
    /\ s.cur <= s.target
    /\ s.xfer = "none" => s.buf = <<>> /\ s.pos = 0
    /\ s.xfer = "read" => s.pos < Len(s.buf)
    /\ s.xfer = "write" =>
         /\ s.type = "hdd" /\ Len(s.buf) = SectorBytes /\ s.pos <= SectorBytes
         /\ y \/ s.pos < SectorBytes
         /\ s.cur < s.target
    /\ s.xfer = "packet" => s.pos < CdbBytes /\ s.buf = <<>>
    /\ s.xfer = "dataIn" =>
         s.chunkPos < s.chunk /\ s.pos + s.chunk - s.chunkPos <= Len(s.buf)

\* The sense key in the error register is the one that the drive holds.
Sensed(s) == s.error \div 16 # 0 => s.cdrom.sense = s.error \div 16

DriveOK(s, y) == s \in DriveState /\ Positions(s, y) /\ Sensed(s)

\* A step that tells nothing of the disc and starts no answer of a packet
Unheard(s, t) ==
    /\ t.cdrom.media = s.cdrom.media /\ t.cdrom.ua = s.cdrom.ua
    /\ t.xfer = "dataIn" => s.xfer = "dataIn" /\ t.cdb = s.cdb

\* Such a step of the data path: it starts no write either.
Quiet(s, t) == Unheard(s, t) /\ (t.xfer = "write" => s.xfer = "write")

\* What every step of the data path keeps
Goes(b, d, y) ==
    /\ Served(b, d) /\ SameDrive(Cur(b), Cur(d)) /\ DriveOK(Cur(d), y)

\* A step of the data path may follow one that keeps the drive's kind.
LEMMA GoesAgain ==
    ASSUME NEW a, NEW b, NEW d, NEW y,
           Served(a, b), SameDrive(Cur(a), Cur(b)), Goes(b, d, y)
    PROVE  Goes(a, d, y)
  BY ServedAgain DEF Goes, SameDrive

\* Two quiet steps are a quiet one.
LEMMA QuietAgain ==
    ASSUME NEW s, NEW t, NEW u, Quiet(s, t), Quiet(t, u)
    PROVE  Quiet(s, u)
  BY DEF Quiet, Unheard

\* The sense key is the upper half of the error register.
LEMMA NoError ==
    /\ 0 \div 16 = 0 /\ 1 \div 16 = 0
    /\ \A key \in Key : /\ AbortBit + 16 * key \in Octet
                        /\ (AbortBit + 16 * key) \div 16 = key
                        /\ key \in Octet
    /\ 0 \in Key
  BY SMT DEF Key, AbortBit, Octet, NoSense, NotReady, IllegalRequest, UnitAttention

\* A drive whose transfer ends is in good order.
LEMMA ClearOK ==
    ASSUME NEW s \in DriveState, Sensed(s), s.cur <= s.target, NEW y
    PROVE  DriveOK(ClearTransfer(s), y) /\ Quiet(s, ClearTransfer(s))
<1> DEFINE t == ClearTransfer(s)
<1>1. /\ t \in DriveState /\ SameDrive(s, t)
      /\ t.xfer = "none" /\ t.buf = <<>> /\ t.pos = 0
      /\ t.cur = s.cur /\ t.target = s.target /\ t.error = s.error
      /\ t.cdrom = s.cdrom /\ t.cdb = s.cdb
  BY ClearType
<1> HIDE DEF t
<1>2. DriveOK(t, y) /\ Quiet(s, t)
  BY <1>1 DEF DriveOK, Positions, Sensed, Quiet, Unheard
<1>3. QED
  BY <1>2 DEF t

\* So is one whose command is aborted, with the key that it holds or none.
LEMMA AbortType ==
    ASSUME NEW b \in ChannelState, NEW i, i = b.select + 1, NEW key \in Key,
           Cur(b).cur <= Cur(b).target,
           key # 0 => Cur(b).cdrom.sense = key, NEW y
    PROVE  LET d == Abort(b, i, key)
           IN  /\ Goes(b, d, y) /\ Quiet(Cur(b), Cur(d))
               /\ Cur(d).xfer = "none" /\ Cur(d).error = AbortBit + 16 * key
               /\ Cur(d).cdrom = Cur(b).cdrom
<1> DEFINE s == Cur(b)
           t == ClearTransfer(s)
           e == AbortBit + 16 * key
           packet == s.type = "cdrom"
                       /\ (s.command = CmdPacket \/ s.xfer \in {"packet", "dataIn"})
           n == IF packet THEN 3 ELSE t.sectors
           u == [ t EXCEPT !.error = e, !.sectors = n ]
<1>1. s \in DriveState /\ b.slot[i] = s
  BY SelectedSlot
<1>2. /\ t \in DriveState /\ SameDrive(s, t)
      /\ t.xfer = "none" /\ t.buf = <<>> /\ t.pos = 0
      /\ t.cur = s.cur /\ t.target = s.target
      /\ t.cdrom = s.cdrom /\ t.cdb = s.cdb
  BY <1>1, ClearType
<1>3. e \in Octet /\ e \div 16 = key
  BY NoError
<1>4. Abort(b, i, key) = Irq(Put(b, u))
  BY <1>1 DEF Abort, Put
<1> HIDE DEF t, e, packet
<1>5. n \in Octet
  BY <1>2, Values, DriveTypes
<1> HIDE DEF n, s
<1>6. /\ u \in DriveState /\ SameDrive(t, u)
      /\ u.xfer = t.xfer /\ u.buf = t.buf /\ u.pos = t.pos
      /\ u.cur = t.cur /\ u.target = t.target /\ u.error = e
      /\ u.cdrom = t.cdrom /\ u.cdb = t.cdb
  BY <1>2, <1>3, <1>5, ZenonT(60) DEF DriveState, SameDrive
<1> HIDE DEF u
<1>7. DriveOK(u, y) /\ Quiet(s, u) /\ SameDrive(s, u)
  <2>1. s.cur <= s.target /\ (key # 0 => s.cdrom.sense = key)
    BY DEF s
  <2>2. Positions(u, y)
    BY <1>2, <1>6, <2>1 DEF Positions
  <2>3. Sensed(u)
    BY <1>2, <1>3, <1>6, <2>1 DEF Sensed
  <2>4. QED
    BY <1>2, <1>6, <2>2, <2>3 DEF DriveOK, Quiet, Unheard, SameDrive
<1>8. Served(b, Irq(Put(b, u))) /\ Cur(Irq(Put(b, u))) = u
  BY <1>6, PutIrqType
<1>9. QED
  BY <1>2, <1>4, <1>6, <1>7, <1>8 DEF Goes, s, e

-----------------------------------------------------------------------------
(* The disk's sectors                                                      *)

\* ata_hdd_read_sector: a full sector to read, or an abort
LEMMA ReadSectorType ==
    ASSUME NEW b \in ChannelState, Cur(b).cur < Cur(b).target, NEW y
    PROVE  LET d == ReadSector(b)
           IN  Goes(b, d, y) /\ Quiet(Cur(b), Cur(d))
<1> DEFINE s == Cur(b)
           bytes == SectorAt(s, Address(s))
           p == PioIn(s, bytes)
           a == Advance(p)
           n == a.cur + 1
           u == [ a EXCEPT !.cur = n, !.error = 0 ]
<1>1. s \in DriveState
  BY SelectedSlot
<1>2. /\ s.cur \in Nat /\ s.target \in Nat
  BY <1>1, DriveTypes
<1>3. CASE Address(s) >= s.size
  <2>1. ReadSector(b) = Abort(b, b.select + 1, 0)
    BY <1>3 DEF ReadSector
  <2>2. 0 \in Key /\ s.cur <= s.target
    BY <1>2, NoError
  <2>3. QED
    BY <2>1, <2>2, AbortType
<1>4. CASE ~(Address(s) >= s.size)
  <2>1. ReadSector(b) = Irq(Put(b, u))
    BY <1>4 DEF ReadSector
  <2>2. bytes \in Seq(Octet) /\ Len(bytes) = SectorBytes
    BY <1>1, SectorAtType
  <2> HIDE DEF bytes
  <2>3. /\ p \in DriveState /\ SameDrive(s, p)
        /\ p.xfer = "read" /\ p.buf = bytes /\ p.pos = 0
        /\ p.cur = s.cur /\ p.target = s.target
        /\ p.cdrom = s.cdrom /\ p.cdb = s.cdb
    BY <1>1, <2>2, PioInType
  <2> HIDE DEF p
  <2>4. a \in DriveState /\ SameTransfer(p, a)
    BY <2>3, AdvanceType
  <2> HIDE DEF a
  <2>5. n \in Number /\ n <= s.target
    BY <1>2, <2>3, <2>4 DEF SameTransfer, Number
  <2>6. 0 \in Octet
    BY Values
  <2> HIDE DEF n
  <2>7. /\ u \in DriveState /\ SameDrive(a, u)
        /\ u.xfer = a.xfer /\ u.buf = a.buf /\ u.pos = a.pos
        /\ u.cur = n /\ u.target = a.target /\ u.error = 0
        /\ u.cdrom = a.cdrom /\ u.cdb = a.cdb
    BY <2>4, <2>5, <2>6, ZenonT(60) DEF DriveState, SameDrive
  <2> HIDE DEF u, s
  <2>8. Positions(u, y)
    <3>1. 0 < SectorBytes
      BY AtaAssumption
    <3>2. QED
      BY <2>2, <2>3, <2>4, <2>5, <2>7, <3>1 DEF Positions, SameTransfer
  <2>9. DriveOK(u, y) /\ Quiet(s, u) /\ SameDrive(s, u)
    BY <2>3, <2>4, <2>7, <2>8, NoError
       DEF DriveOK, Sensed, Quiet, Unheard, SameDrive, SameTransfer
  <2>10. Served(b, Irq(Put(b, u))) /\ Cur(Irq(Put(b, u))) = u
    BY <2>7, PutIrqType
  <2>11. QED
    BY <2>1, <2>9, <2>10 DEF Goes, s
<1>5. QED
  BY <1>3, <1>4

\* A sector that was filled is stored, and the transfer goes on or ends; so
\* it does, without a trace in the registers, when the host failed.
LEMMA SectorWritten ==
    ASSUME NEW b \in ChannelState, NEW hostOk \in BOOLEAN, NEW y,
           Cur(b).xfer = "write", Cur(b).type = "hdd",
           Len(Cur(b).buf) = SectorBytes, Cur(b).cur < Cur(b).target
    PROVE  LET d == AfterWrite(WriteSector(b, hostOk))
           IN  /\ Goes(b, d, y) /\ Quiet(Cur(b), Cur(d))
               /\ Cur(d).xfer \in {"none", "write"}
<1> DEFINE s == Cur(b)
           e == WriteSector(b, hostOk)
           d == AfterWrite(e)
<1>1. s \in DriveState
  BY SelectedSlot
<1>2. /\ s.cur \in Nat /\ s.target \in Nat
  BY <1>1, DriveTypes
<1>3. ASSUME NEW r \in ChannelState, Served(b, r), SameDrive(s, Cur(r)),
             Quiet(s, Cur(r)), Sensed(Cur(r)), Cur(r).cur <= Cur(r).target,
             Cur(r).cur < Cur(r).target => DriveOK(Cur(r), y),
             Cur(r).xfer \in {"none", "write"}
      PROVE  /\ Goes(b, AfterWrite(r), y) /\ Quiet(s, Cur(AfterWrite(r)))
             /\ Cur(AfterWrite(r)).xfer \in {"none", "write"}
  <2> DEFINE q == Cur(r)
             t == ClearTransfer(q)
  <2>1. q \in DriveState
    BY <1>3, SelectedSlot
  <2>2. q.cur \in Nat /\ q.target \in Nat
    BY <2>1, DriveTypes
  <2>3. CASE q.cur >= q.target
    <3>1. AfterWrite(r) = Put(r, t)
      BY <2>3 DEF AfterWrite
    <3>2. DriveOK(t, y) /\ Quiet(q, t) /\ SameDrive(q, t) /\ t.xfer = "none"
          /\ t \in DriveState
      BY <1>3, <2>1, ClearOK, ClearType
    <3>3. Served(r, Put(r, t)) /\ Cur(Put(r, t)) = t
      BY <1>3, <3>2, PutType
    <3> HIDE DEF q, t
    <3>4. SameDrive(s, q) /\ Quiet(s, q)
      BY <1>3 DEF q
    <3>5. Served(b, Put(r, t)) /\ SameDrive(s, t) /\ Quiet(s, t)
      BY <1>3, <3>2, <3>3, <3>4, ServedAgain, QuietAgain DEF SameDrive
    <3>6. QED
      BY <3>1, <3>2, <3>3, <3>5 DEF Goes
  <2>4. CASE ~(q.cur >= q.target)
    <3>1. AfterWrite(r) = r
      BY <2>4 DEF AfterWrite
    <3>2. DriveOK(q, y)
      BY <1>3, <2>2, <2>4
    <3>3. QED
      BY <1>3, <3>1, <3>2 DEF Goes
  <2>5. QED
    BY <2>3, <2>4
<1>4. CASE ~hostOk
  <2>1. e = Abort(b, b.select + 1, 0)
    BY <1>4 DEF WriteSector
  <2>2. 0 \in Key /\ s.cur <= s.target
    BY <1>2, NoError
  <2>3. Goes(b, e, y) /\ Quiet(s, Cur(e)) /\ Cur(e).xfer = "none"
    BY <2>1, <2>2, AbortType
  <2> HIDE DEF e, s
  <2>4. e \in ChannelState
    BY <2>3 DEF Goes, Served
  <2>5. Cur(e).cur <= Cur(e).target /\ Sensed(Cur(e))
    BY <2>3 DEF Goes, DriveOK, Positions
  <2>6. QED
    BY <1>3, <2>3, <2>4, <2>5 DEF Goes, e, s
<1>5. CASE hostOk
  <2> DEFINE p == Stored(s, Address(s))
             a == Advance(p)
             n == a.cur + 1
             u == [ a EXCEPT !.pos = 0, !.chunk = SectorBytes, !.chunkPos = 0,
                             !.cur = n, !.error = 0 ]
  <2>1. e = Irq(Put(b, u))
    BY <1>5 DEF WriteSector
  <2>2. Address(s) \in Nat
    BY <1>1, AddressType
  <2>3. p \in DriveState /\ SameTransfer(s, p)
    BY <1>1, <2>2, StoredType
  <2> HIDE DEF p
  <2>4. a \in DriveState /\ SameTransfer(p, a)
    BY <2>3, AdvanceType
  <2> HIDE DEF a
  <2>5. n \in Number /\ n <= s.target
    BY <1>2, <2>3, <2>4 DEF SameTransfer, Number
  <2>6. 0 \in Octet /\ 0 \in Number /\ SectorBytes \in Number
    BY Values, AtaAssumption DEF Number
  <2> HIDE DEF n
  <2>7. /\ u \in DriveState /\ SameDrive(a, u)
        /\ u.xfer = a.xfer /\ u.buf = a.buf /\ u.pos = 0
        /\ u.cur = n /\ u.target = a.target /\ u.error = 0
        /\ u.cdrom = a.cdrom /\ u.cdb = a.cdb
    BY <2>4, <2>5, <2>6, ZenonT(60) DEF DriveState, SameDrive
  <2>8. Served(b, e) /\ Cur(e) = u
    BY <2>1, <2>7, PutIrqType
  <2> HIDE DEF u, s, e
  <2>9. u.cur < u.target => Positions(u, y)
    <3>1. 0 < SectorBytes /\ SectorBytes \in Nat
      BY AtaAssumption
    <3>2. s.xfer = "write" /\ s.type = "hdd" /\ Len(s.buf) = SectorBytes
      BY DEF s
    <3>3. u.xfer = "write" /\ u.type = "hdd" /\ Len(u.buf) = SectorBytes
      BY <2>3, <2>4, <2>7, <3>2 DEF SameTransfer, SameDrive
    <3>4. u.cur <= u.target
      BY <2>3, <2>4, <2>5, <2>7 DEF SameTransfer
    <3>5. QED
      BY <2>7, <3>1, <3>3, <3>4 DEF Positions
  <2>10. Sensed(u) /\ Quiet(s, u) /\ SameDrive(s, u)
         /\ u.xfer \in {"none", "write"} /\ u.cur <= u.target
    <3>1. s.xfer = "write"
      BY DEF s
    <3>2. QED
      BY <2>3, <2>4, <2>5, <2>7, <3>1, NoError
         DEF Sensed, Quiet, Unheard, SameDrive, SameTransfer
  <2>11. e \in ChannelState
    BY <2>8 DEF Served
  <2>12. QED
    BY <1>3, <2>7, <2>8, <2>9, <2>10, <2>11 DEF DriveOK, s, e
<1>6. QED
  BY <1>4, <1>5

-----------------------------------------------------------------------------
(* The disc's packets                                                      *)

\* ata_atapi_complete ends the transfer without an error.
LEMMA CompleteType ==
    ASSUME NEW b \in ChannelState, Cur(b).cur <= Cur(b).target, NEW y
    PROVE  LET d == Complete(b)
           IN  /\ Goes(b, d, y) /\ Quiet(Cur(b), Cur(d)) /\ Cur(d).xfer = "none"
               /\ Cur(d).cdrom = Cur(b).cdrom /\ Cur(d).error = 0
<1> DEFINE s == Cur(b)
           t == ClearTransfer(s)
           u == [ t EXCEPT !.sectors = 3, !.error = 0 ]
<1>1. s \in DriveState
  BY SelectedSlot
<1>2. /\ t \in DriveState /\ SameDrive(s, t)
      /\ t.xfer = "none" /\ t.buf = <<>> /\ t.pos = 0
      /\ t.cur = s.cur /\ t.target = s.target
      /\ t.cdrom = s.cdrom /\ t.cdb = s.cdb
  BY <1>1, ClearType
<1>3. Complete(b) = Irq(Put(b, u))
  BY DEF Complete
<1>4. 3 \in Octet /\ 0 \in Octet
  BY Values
<1> HIDE DEF t
<1>5. /\ u \in DriveState /\ SameDrive(t, u)
      /\ u.xfer = t.xfer /\ u.buf = t.buf /\ u.pos = t.pos
      /\ u.cur = t.cur /\ u.target = t.target /\ u.error = 0
      /\ u.cdrom = t.cdrom /\ u.cdb = t.cdb
  BY <1>2, <1>4, ZenonT(60) DEF DriveState, SameDrive
<1>6. s.cur <= s.target
  OBVIOUS
<1> HIDE DEF u, s
<1>7. Positions(u, y)
  BY <1>2, <1>5, <1>6 DEF Positions
<1>8. DriveOK(u, y) /\ Quiet(s, u) /\ SameDrive(s, u)
  BY <1>2, <1>5, <1>7, NoError DEF DriveOK, Quiet, Unheard, SameDrive, Sensed
<1>9. Served(b, Irq(Put(b, u))) /\ Cur(Irq(Put(b, u))) = u
  BY <1>5, PutIrqType
<1>10. QED
  BY <1>2, <1>3, <1>5, <1>8, <1>9 DEF Goes, s

\* A chunk that is handed out lies in the buffer and is not empty; when
\* nothing is left, the packet is complete.
LEMMA BeginDataInType ==
    ASSUME NEW b \in ChannelState, Cur(b).cur <= Cur(b).target,
           Cur(b).pos <= Len(Cur(b).buf), NEW y
    PROVE  LET s == Cur(b)
               d == BeginDataIn(b)
           IN  /\ Goes(b, d, y)
               /\ Cur(d).cdrom = s.cdrom /\ Cur(d).error = 0
               /\ Cur(d).xfer \in {"none", "dataIn"}
               /\ Len(s.buf) # s.pos => Cur(d).xfer = "dataIn"
               /\ Cur(d).xfer = "dataIn" => Cur(d).cdb = s.cdb /\ Cur(d).buf = s.buf
<1> DEFINE s == Cur(b)
           left  == Len(s.buf) - s.pos
           chunk == IF s.limit = 0 \/ s.limit > left THEN left ELSE s.limit
           lba   == s.lba - Mid(s.lba) * 256 + (chunk % 65536) * 256
           u == [ s EXCEPT !.xfer = "dataIn", !.chunk = chunk,
                           !.chunkPos = 0, !.sectors = 2, !.lba = lba,
                           !.error = 0 ]
<1>1. s \in DriveState
  BY SelectedSlot
<1>2. /\ s.pos \in Nat /\ Len(s.buf) \in Nat /\ s.limit \in Nat /\ s.lba \in Lba
      /\ s.cur \in Nat /\ s.target \in Nat
  BY <1>1, DriveTypes
<1>3. left \in Nat
  BY <1>2
<1>4. CASE left = 0
  <2>1. BeginDataIn(b) = Complete(b) /\ Len(s.buf) = s.pos
    BY <1>2, <1>4 DEF BeginDataIn
  <2>2. QED
    BY <2>1, CompleteType
<1>5. CASE left # 0
  <2>1. BeginDataIn(b) = Irq(Put(b, u))
    BY <1>5 DEF BeginDataIn
  <2>2. chunk \in Nat /\ 0 < chunk /\ chunk <= left
    <3> HIDE DEF left
    <3>1. QED
      BY <1>2, <1>3, <1>5
  <2>3. lba \in Lba
    <3> HIDE DEF chunk
    <3>1. QED
      BY <1>2, <2>2, LbaFits, SMT
  <2>4. s.pos + chunk - 0 <= Len(s.buf)
    <3>1. chunk <= Len(s.buf) - s.pos
      BY <2>2
    <3> HIDE DEF chunk
    <3>2. QED
      BY <1>2, <2>2, <3>1
  <2>5. chunk \in Number /\ 0 \in Number /\ 0 \in Octet /\ 2 \in Octet
        /\ "dataIn" \in Transfer
    BY <2>2, Values DEF Number
  <2> HIDE DEF chunk, lba, left
  <2>6. /\ u \in DriveState /\ SameDrive(s, u)
        /\ u.xfer = "dataIn" /\ u.buf = s.buf /\ u.pos = s.pos
        /\ u.cur = s.cur /\ u.target = s.target /\ u.error = 0
        /\ u.chunk = chunk /\ u.chunkPos = 0
        /\ u.cdrom = s.cdrom /\ u.cdb = s.cdb
    BY <1>1, <2>3, <2>5, ZenonT(60) DEF DriveState, SameDrive
  <2>7. s.cur <= s.target
    OBVIOUS
  <2>8. Served(b, Irq(Put(b, u))) /\ Cur(Irq(Put(b, u))) = u
    BY <2>6, PutIrqType
  <2> HIDE DEF u, s
  <2>9. Positions(u, y)
    BY <2>2, <2>4, <2>6, <2>7 DEF Positions
  <2>10. DriveOK(u, y)
    BY <2>6, <2>9, NoError DEF DriveOK, Sensed
  <2>11. QED
    BY <2>1, <2>6, <2>8, <2>10 DEF Goes, s
<1>6. QED
  BY <1>4, <1>5

\* Has the guest, told of the disc or not, been told by the time it reads?
Told(s, k) == Owed(s.cdrom, k) /\ (s.xfer = "dataIn" /\ s.cdb[1] = Read => k)

\* A packet that is executed tells what it owes.
Executed(s, t) ==
    \A k \in BOOLEAN :
       Owed(s.cdrom, k) =>
          Told(t, t.cdrom.media = s.cdrom.media /\ (k \/ Announces(t)))

\* ata_atapi_execute_packet, with all that its command may answer
LEMMA ExecutePacketType ==
    ASSUME NEW b \in ChannelState, Cur(b).cur <= Cur(b).target, NEW y
    PROVE  LET d == ExecutePacket(b)
           IN  /\ Goes(b, d, y) /\ Executed(Cur(b), Cur(d))
               /\ Cur(d).xfer \in {"none", "dataIn"}
<1> DEFINE s == Cur(b)
           op == s.cdb[1]
           arg == s.cdb[2]
           r == CdCommand(s.cdrom, op, arg)
           cd == r.cd
           bytes == r.data
           t == [ s EXCEPT !.cdrom = cd, !.buf = bytes, !.pos = 0,
                           !.chunk = 0, !.chunkPos = 0 ]
           e == Put(b, t)
           d == ExecutePacket(b)
<1>1. s \in DriveState
  BY SelectedSlot
<1>2. op \in Octet /\ arg \in Octet /\ s.cdrom \in CdromState
  <2>1. s.cdb \in [1 .. CdbBytes -> Octet]
    BY <1>1, DriveTypes DEF Packet
  <2>2. 1 \in 1 .. CdbBytes /\ 2 \in 1 .. CdbBytes
    BY AtaAssumption
  <2>3. QED
    BY <1>1, <2>1, <2>2, DriveTypes
<1> HIDE DEF op, arg
<1>3. /\ cd \in CdromState /\ r.result \in {"ok", "error", "data"}
      /\ bytes \in Seq(Octet)
      /\ \A k \in BOOLEAN :
           LET n == cd.media = s.cdrom.media /\ (k \/ Heard(op, r))
           IN  Owed(s.cdrom, k) => /\ Owed(cd, n)
                                   /\ op = Read /\ r.result = "data" => n
  BY <1>2, CommandType
<1>4. d = CASE r.result = "error" -> Abort(e, b.select + 1, cd.sense)
            [] r.result = "data"  -> BeginDataIn(e)
            [] r.result = "ok"    -> Complete(e)
  BY DEF ExecutePacket, op, arg
<1> HIDE DEF r, cd, bytes, d
<1>5. 0 \in Number
  BY Values
<1>6. /\ t \in DriveState /\ SameDrive(s, t)
      /\ t.xfer = s.xfer /\ t.buf = bytes /\ t.pos = 0
      /\ t.cur = s.cur /\ t.target = s.target
      /\ t.cdrom = cd /\ t.cdb = s.cdb
  BY <1>1, <1>3, <1>5, ZenonT(60) DEF DriveState, SameDrive
<1>7. s.cur <= s.target
  OBVIOUS
<1> HIDE DEF t, s
<1>8. Served(b, e) /\ Cur(e) = t
  BY <1>6, PutType
<1> HIDE DEF e
<1>9. e \in ChannelState /\ e.select = b.select
  BY <1>8 DEF Served, Scalars
<1>10. Cur(e).cur <= Cur(e).target
  BY <1>6, <1>7, <1>8
<1>11. SameDrive(Cur(b), Cur(e))
  BY <1>6, <1>8 DEF s
<1>12. CASE r.result = "error"
  <2>1. d = Abort(e, e.select + 1, cd.sense)
    BY <1>4, <1>9, <1>12
  <2>2. cd.sense \in Key
    BY <1>3 DEF CdromState, Key
  <2>3. /\ Goes(e, d, y) /\ Cur(d).xfer = "none"
        /\ Cur(d).error = AbortBit + 16 * cd.sense /\ Cur(d).cdrom = cd
    <3>1. Cur(e).cdrom.sense = cd.sense
      BY <1>6, <1>8
    <3>2. QED
      BY <1>6, <1>8, <1>9, <1>10, <2>1, <2>2, <3>1, AbortType
  <2>4. Heard(op, r) => Announces(Cur(d))
    <3>1. Cur(d).error \div 16 = cd.sense
      BY <2>2, <2>3, NoError
    <3>2. Heard(op, r) => cd.sense \in {NotReady, UnitAttention}
      BY <1>12 DEF Heard, cd
    <3>3. QED
      BY <3>1, <3>2 DEF Announces
  <2>5. Executed(s, Cur(d))
    BY <1>3, <2>3, <2>4 DEF Executed, Told, Owed
  <2>6. Goes(b, d, y)
    BY <1>8, <1>11, <2>3, GoesAgain
  <2>7. QED
    BY <2>3, <2>5, <2>6 DEF s, d
<1>13. CASE r.result = "data"
  <2>1. d = BeginDataIn(e)
    BY <1>4, <1>13
  <2>2. Cur(e).pos <= Len(Cur(e).buf)
    <3>1. Len(bytes) \in Nat
      BY <1>3
    <3>2. QED
      BY <1>6, <1>8, <3>1
  <2>3. /\ Goes(e, d, y) /\ Cur(d).cdrom = cd /\ Cur(d).xfer \in {"none", "dataIn"}
        /\ Len(bytes) # 0 => Cur(d).xfer = "dataIn"
        /\ Cur(d).xfer = "dataIn" => Cur(d).cdb = s.cdb /\ Cur(d).buf = bytes
    BY <1>6, <1>8, <1>9, <1>10, <2>1, <2>2, BeginDataInType
  <2>4. Heard(op, r) => Announces(Cur(d))
    <3>1. SUFFICES ASSUME Heard(op, r)
                   PROVE  Announces(Cur(d))
      OBVIOUS
    <3>2. /\ op = Sense /\ Len(bytes) = 2
          /\ bytes[1] \in {NotReady, UnitAttention}
      BY <1>13, <3>1 DEF Heard, bytes
    <3>3. /\ Cur(d).xfer = "dataIn" /\ Cur(d).cdb[1] = Sense
          /\ Cur(d).buf[1] \in {NotReady, UnitAttention}
      BY <2>3, <3>2 DEF op
    <3>4. QED
      BY <3>3 DEF Announces
  <2>5. Executed(s, Cur(d))
    <3>1. SUFFICES ASSUME NEW k \in BOOLEAN, Owed(s.cdrom, k)
                   PROVE  Told(Cur(d), Cur(d).cdrom.media = s.cdrom.media
                                         /\ (k \/ Announces(Cur(d))))
      BY DEF Executed
    <3>2. LET n == cd.media = s.cdrom.media /\ (k \/ Heard(op, r))
          IN  Owed(cd, n) /\ (op = Read => n)
      BY <1>3, <1>13, <3>1
    <3>3. Cur(d).xfer = "dataIn" /\ Cur(d).cdb[1] = Read => op = Read
      BY <2>3 DEF op
    <3>4. QED
      BY <2>3, <2>4, <3>2, <3>3 DEF Told, Owed
  <2>6. Goes(b, d, y)
    BY <1>8, <1>11, <2>3, GoesAgain
  <2>7. QED
    BY <2>3, <2>5, <2>6 DEF s, d
<1>14. CASE r.result = "ok"
  <2>1. d = Complete(e)
    BY <1>4, <1>14
  <2>2. Goes(e, d, y) /\ Cur(d).cdrom = cd /\ Cur(d).xfer = "none"
    BY <1>6, <1>8, <1>9, <1>10, <2>1, CompleteType
  <2>3. ~Heard(op, r)
    BY <1>14 DEF Heard
  <2>4. Executed(s, Cur(d))
    BY <1>3, <2>2, <2>3 DEF Executed, Told, Owed
  <2>5. Goes(b, d, y)
    BY <1>8, <1>11, <2>2, GoesAgain
  <2>6. QED
    BY <2>2, <2>4, <2>5 DEF s, d
<1>15. QED
  BY <1>3, <1>12, <1>13, <1>14

-----------------------------------------------------------------------------
(* The data port                                                           *)

\* ata_data_read_byte: within the sector, at its end, within a chunk or at its end
LEMMA ReadByteType ==
    ASSUME NEW b \in ChannelState, NEW y, DriveOK(Cur(b), y)
    PROVE  LET d == ReadByte(b)
               z == y \/ Cur(b).xfer = "write"
           IN  Goes(b, d, z) /\ Quiet(Cur(b), Cur(d))
<1> DEFINE s == Cur(b)
           n == s.pos + 1
           t == [ s EXCEPT !.pos = n ]
           e == Put(b, t)
           d == ReadByte(b)
           z == y \/ s.xfer = "write"
<1>1. s \in DriveState /\ Positions(s, y) /\ Sensed(s)
  BY DEF DriveOK
<1>2. /\ s.pos \in Nat /\ Len(s.buf) \in Nat /\ s.cur \in Nat /\ s.target \in Nat
      /\ s.chunk \in Nat /\ s.chunkPos \in Nat /\ s.xfer \in Transfer
  BY <1>1, DriveTypes
<1>3. CASE ~Readable(s)
  <2>1. d = b
    BY <1>3 DEF ReadByte
  <2>2. Positions(s, z)
    BY <1>1 DEF Positions
  <2>3. Served(b, b)
    BY DEF Served, Scalars, Asked
  <2>4. QED
    BY <1>1, <2>1, <2>2, <2>3 DEF Goes, DriveOK, Quiet, Unheard, SameDrive
<1>4. CASE Readable(s)
  <2>1. d = AfterByte(e)
    BY <1>4 DEF ReadByte
  <2>2. s.xfer # "none" /\ s.pos < Len(s.buf)
    BY <1>4 DEF Readable
  <2>3. n \in Number
    BY <1>2 DEF Number
  <2>4. n = s.pos + 1
    OBVIOUS
  <2> HIDE DEF n
  <2>5. /\ t \in DriveState /\ SameDrive(s, t) /\ Quiet(s, t)
        /\ t.xfer = s.xfer /\ t.buf = s.buf /\ t.pos = n
        /\ t.cur = s.cur /\ t.target = s.target /\ t.error = s.error
        /\ t.chunk = s.chunk /\ t.chunkPos = s.chunkPos
        /\ t.cdrom = s.cdrom /\ t.cdb = s.cdb
    BY <1>1, <2>3, ZenonT(60) DEF DriveState, SameDrive, Quiet, Unheard
  <2> HIDE DEF t, s
  <2>6. Served(b, e) /\ Cur(e) = t
    BY <2>5, PutType
  <2> HIDE DEF e, d
  <2>7. e \in ChannelState
    BY <2>6 DEF Served
  <2>8. t.cur <= t.target /\ Sensed(t)
    BY <1>1, <2>5 DEF Positions, Sensed
  <2>9. ASSUME Goes(e, d, z), Quiet(t, Cur(d))
        PROVE  Goes(b, d, z) /\ Quiet(s, Cur(d))
    <3>1. SameDrive(Cur(b), Cur(e))
      BY <2>5, <2>6 DEF s
    <3>2. QED
      BY <2>5, <2>6, <2>9, <3>1, GoesAgain, QuietAgain
  <2>10. CASE t.xfer = "read" /\ t.pos >= Len(t.buf)
    <3>1. CASE t.cur >= t.target
      <4>1. d = Put(e, ClearTransfer(t))
        BY <2>1, <2>6, <2>10, <3>1 DEF AfterByte
      <4>2. /\ DriveOK(ClearTransfer(t), z) /\ Quiet(t, ClearTransfer(t))
            /\ SameDrive(t, ClearTransfer(t)) /\ ClearTransfer(t) \in DriveState
        BY <2>5, <2>8, ClearOK, ClearType
      <4>3. Served(e, d) /\ Cur(d) = ClearTransfer(t)
        BY <2>7, <4>1, <4>2, PutType
      <4>4. Goes(e, d, z) /\ Quiet(t, Cur(d))
        BY <2>6, <4>2, <4>3 DEF Goes
      <4>5. QED
        BY <2>9, <4>4 DEF s, d
    <3>2. CASE ~(t.cur >= t.target)
      <4>1. d = ReadSector(e)
        BY <2>1, <2>6, <2>10, <3>2 DEF AfterByte
      <4>2. Cur(e).cur < Cur(e).target
        BY <1>2, <2>5, <2>6, <3>2
      <4>3. Goes(e, d, z) /\ Quiet(t, Cur(d))
        BY <2>6, <2>7, <4>1, <4>2, ReadSectorType
      <4>4. QED
        BY <2>9, <4>3 DEF s, d
    <3>3. QED
      BY <3>1, <3>2
  <2>11. CASE t.xfer = "dataIn" /\ t.chunkPos + 1 >= t.chunk
    <3>1. t.pos <= Len(t.buf)
      BY <1>2, <2>2, <2>4, <2>5
    <3>2. CASE t.pos >= Len(t.buf)
      <4>1. d = Complete(e)
        BY <1>2, <2>1, <2>5, <2>6, <2>11, <3>2 DEF AfterByte
      <4>2. Goes(e, d, z) /\ Quiet(t, Cur(d))
        BY <2>6, <2>7, <2>8, <4>1, CompleteType
      <4>3. QED
        BY <2>9, <4>2 DEF s, d
    <3>3. CASE ~(t.pos >= Len(t.buf))
      <4>1. d = BeginDataIn(e)
        BY <1>2, <2>1, <2>5, <2>6, <2>11, <3>3 DEF AfterByte
      <4>2. /\ Goes(e, d, z) /\ Cur(d).cdrom = t.cdrom
            /\ Cur(d).xfer \in {"none", "dataIn"}
            /\ Cur(d).xfer = "dataIn" => Cur(d).cdb = t.cdb
        BY <2>6, <2>7, <2>8, <3>1, <4>1, BeginDataInType
      <4>3. Quiet(t, Cur(d))
        BY <2>11, <4>2 DEF Quiet, Unheard
      <4>4. QED
        BY <2>9, <4>2, <4>3 DEF s, d
    <3>4. QED
      BY <3>2, <3>3
  <2>12. CASE t.xfer = "dataIn" /\ t.chunkPos + 1 < t.chunk
    <3> DEFINE m == t.chunkPos + 1
               u == [ t EXCEPT !.chunkPos = m ]
    <3>1. d = Put(e, u)
      BY <1>2, <2>1, <2>5, <2>6, <2>12 DEF AfterByte
    <3>2. m \in Number /\ m < t.chunk /\ t.pos + t.chunk - m <= Len(t.buf)
      BY <1>1, <1>2, <2>4, <2>5, <2>12, SMTT(120) DEF Number, Positions
    <3> HIDE DEF m
    <3>3. /\ u \in DriveState /\ SameDrive(t, u) /\ Quiet(t, u)
          /\ u.xfer = t.xfer /\ u.buf = t.buf /\ u.pos = t.pos
          /\ u.cur = t.cur /\ u.target = t.target /\ u.error = t.error
          /\ u.chunk = t.chunk /\ u.chunkPos = m
          /\ u.cdrom = t.cdrom
      BY <2>5, <3>2, ZenonT(60) DEF DriveState, SameDrive, Quiet, Unheard
    <3> HIDE DEF u
    <3>4. DriveOK(u, z)
      BY <2>8, <2>12, <3>2, <3>3 DEF DriveOK, Positions, Sensed
    <3>5. Served(e, d) /\ Cur(d) = u
      BY <2>7, <3>1, <3>3, PutType
    <3>6. QED
      BY <2>6, <2>9, <3>3, <3>4, <3>5 DEF Goes, s, d
  <2>13. CASE /\ ~(t.xfer = "read" /\ t.pos >= Len(t.buf))
              /\ t.xfer # "dataIn"
    <3>1. d = e
      BY <2>1, <2>6, <2>13 DEF AfterByte
    <3>2. Positions(t, z)
      <4>1. CASE t.xfer = "read"
        BY <1>1, <1>2, <2>4, <2>5, <2>13, <4>1 DEF Positions
      <4>2. CASE t.xfer = "write"
        <5>1. z /\ t.type = "hdd" /\ Len(t.buf) = SectorBytes
              /\ t.pos <= SectorBytes /\ t.cur < t.target
          BY <1>1, <1>2, <2>2, <2>4, <2>5, <4>2 DEF Positions, SameDrive
        <5>2. QED
          BY <2>8, <4>2, <5>1 DEF Positions
      <4>3. CASE t.xfer = "packet"
        BY <1>1, <1>2, <2>2, <2>5, <4>3 DEF Positions
      <4>4. QED
        BY <1>2, <2>2, <2>5, <2>13, <4>1, <4>2, <4>3 DEF Transfer
    <3>3. QED
      BY <2>5, <2>6, <2>8, <3>1, <3>2 DEF Goes, DriveOK, s, d
  <2>14. QED
    <3>1. t.chunkPos + 1 >= t.chunk \/ t.chunkPos + 1 < t.chunk
      BY <1>2, <2>5
    <3>2. QED
      BY <2>10, <2>11, <2>12, <2>13, <3>1
<1>5. QED
  BY <1>3, <1>4

\* A byte that is written goes into the buffer or the packet; the packet
\* that it completes is executed.
LEMMA WriteByteType ==
    ASSUME NEW b \in ChannelState, NEW y, DriveOK(Cur(b), y),
           NEW v \in Octet, NEW hostOk \in BOOLEAN
    PROVE  LET s == Cur(b)
               d == WriteByte(b, v, hostOk)
           IN  /\ Goes(b, d, y)
               /\ \/ Quiet(s, Cur(d)) /\ (Cur(d).xfer = "packet" => s.xfer = "packet")
                  \/ /\ s.xfer = "packet" /\ Executed(s, Cur(d))
                     /\ Cur(d).xfer \in {"none", "dataIn"}
<1> DEFINE s == Cur(b)
           n == s.pos + 1
           d == WriteByte(b, v, hostOk)
<1>1. s \in DriveState /\ Positions(s, y) /\ Sensed(s)
  BY DEF DriveOK
<1>2. /\ s.pos \in Nat /\ s.buf \in Seq(Octet) /\ Len(s.buf) \in Nat
      /\ s.cdb \in Packet /\ s.cur \in Nat /\ s.target \in Nat
  BY <1>1, DriveTypes
<1>3. SectorBytes \in Nat /\ CdbBytes \in Nat
  BY AtaAssumption
<1>4. n \in Number /\ n \in Nat
  BY <1>2 DEF Number
<1>5. CASE s.xfer = "write" /\ s.pos < Len(s.buf)
  <2> DEFINE q == [ s.buf EXCEPT ![n] = v ]
             t == [ s EXCEPT !.buf = q, !.pos = n ]
             e == Put(b, t)
  <2>1. d = IF t.pos = Len(s.buf) THEN AfterWrite(WriteSector(e, hostOk)) ELSE e
    <3>1. [ s EXCEPT !.buf[s.pos + 1] = v, !.pos = @ + 1 ] = t
      BY <1>1 DEF DriveState
    <3>2. QED
      BY <1>5, <3>1 DEF WriteByte
  <2>2. q \in Seq(Octet) /\ Len(q) = Len(s.buf)
    BY <1>2, <1>5
  <2>3. n = s.pos + 1
    OBVIOUS
  <2> HIDE DEF q, n
  <2>4. /\ t \in DriveState /\ SameDrive(s, t) /\ Quiet(s, t)
        /\ t.xfer = s.xfer /\ t.buf = q /\ t.pos = n
        /\ t.cur = s.cur /\ t.target = s.target /\ t.error = s.error
        /\ t.cdrom = s.cdrom
    BY <1>1, <1>4, <2>2, ZenonT(60) DEF DriveState, SameDrive, Quiet, Unheard
  <2>5. /\ t.xfer = "write" /\ t.type = "hdd" /\ Len(t.buf) = SectorBytes
        /\ t.cur < t.target /\ t.cur <= t.target /\ t.pos <= SectorBytes
    BY <1>1, <1>2, <1>3, <1>5, <2>2, <2>3, <2>4 DEF Positions, SameDrive
  <2> HIDE DEF t, s, d
  <2>6. Served(b, e) /\ Cur(e) = t
    BY <2>4, PutType
  <2>7. e \in ChannelState /\ SameDrive(Cur(b), Cur(e))
    BY <2>4, <2>6 DEF Served, s
  <2> HIDE DEF e
  <2>8. CASE t.pos = Len(s.buf)
    <3>1. d = AfterWrite(WriteSector(e, hostOk))
      BY <2>1, <2>8
    <3>2. Goes(e, d, y) /\ Quiet(t, Cur(d)) /\ Cur(d).xfer \in {"none", "write"}
      BY <2>5, <2>6, <2>7, <3>1, SectorWritten
    <3>3. QED
      BY <2>4, <2>6, <2>7, <3>2, GoesAgain, QuietAgain DEF s, d
  <2>9. CASE t.pos # Len(s.buf)
    <3>1. d = e
      BY <2>1, <2>9
    <3>2. t.pos < SectorBytes
      BY <1>2, <1>3, <1>4, <2>2, <2>4, <2>5, <2>9
    <3>3. DriveOK(t, y)
      BY <1>1, <2>4, <2>5, <3>2 DEF DriveOK, Positions, Sensed
    <3>4. QED
      BY <2>4, <2>5, <2>6, <2>7, <3>1, <3>3 DEF Goes, s, d
  <2>10. QED
    BY <2>8, <2>9
<1>6. CASE s.xfer = "packet" /\ s.pos < CdbBytes
  <2> DEFINE q == [ s.cdb EXCEPT ![n] = v ]
             t == [ s EXCEPT !.cdb = q, !.pos = n ]
             e == Put(b, t)
  <2>1. d = IF t.pos = CdbBytes THEN ExecutePacket(e) ELSE e
    <3>1. [ s EXCEPT !.cdb[s.pos + 1] = v, !.pos = @ + 1 ] = t
      BY <1>1 DEF DriveState
    <3>2. QED
      BY <1>6, <3>1 DEF WriteByte
  <2>2. q \in Packet
    BY <1>2 DEF Packet
  <2>3. n = s.pos + 1
    OBVIOUS
  <2> HIDE DEF q, n
  <2>4. /\ t \in DriveState /\ SameDrive(s, t)
        /\ t.xfer = s.xfer /\ t.buf = s.buf /\ t.pos = n
        /\ t.cur = s.cur /\ t.target = s.target /\ t.error = s.error
        /\ t.cdrom = s.cdrom
    BY <1>1, <1>4, <2>2, ZenonT(60) DEF DriveState, SameDrive
  <2>5. t.xfer = "packet" /\ t.cur <= t.target /\ s.buf = <<>>
    BY <1>1, <1>6, <2>4 DEF Positions
  <2>6. Quiet(s, t)
    BY <2>4, <2>5 DEF Quiet, Unheard
  <2> HIDE DEF t, s, d
  <2>7. Served(b, e) /\ Cur(e) = t
    BY <2>4, PutType
  <2>8. e \in ChannelState /\ SameDrive(Cur(b), Cur(e))
    BY <2>4, <2>7 DEF Served, s
  <2> HIDE DEF e
  <2>9. CASE t.pos = CdbBytes
    <3>1. d = ExecutePacket(e)
      BY <2>1, <2>9
    <3>2. Goes(e, d, y) /\ Executed(t, Cur(d)) /\ Cur(d).xfer \in {"none", "dataIn"}
      BY <2>5, <2>7, <2>8, <3>1, ExecutePacketType
    <3>3. Executed(s, Cur(d))
      BY <2>4, <3>2 DEF Executed
    <3>4. QED
      BY <1>6, <2>7, <2>8, <3>2, <3>3, GoesAgain DEF s, d
  <2>10. CASE t.pos # CdbBytes
    <3>1. d = e
      BY <2>1, <2>10
    <3>2. t.pos < CdbBytes
      BY <1>2, <1>3, <1>4, <1>6, <2>3, <2>4, <2>10
    <3>3. DriveOK(t, y)
      BY <1>1, <2>4, <2>5, <3>2 DEF DriveOK, Positions, Sensed
    <3>4. QED
      BY <1>6, <2>6, <2>7, <2>8, <3>1, <3>3 DEF Goes, s, d
  <2>11. QED
    BY <2>9, <2>10
<1>7. CASE /\ ~(s.xfer = "write" /\ s.pos < Len(s.buf))
           /\ ~(s.xfer = "packet" /\ s.pos < CdbBytes)
  <2>1. d = b
    BY <1>7 DEF WriteByte
  <2>2. Served(b, b)
    BY DEF Served, Scalars, Asked
  <2>3. QED
    BY <1>1, <2>1, <2>2 DEF Goes, DriveOK, Quiet, Unheard, SameDrive
<1>8. QED
  BY <1>5, <1>6, <1>7

\* ata_read_data reads two bytes.
LEMMA ReadWordType ==
    ASSUME NEW b \in ChannelState, NEW y, DriveOK(Cur(b), y)
    PROVE  LET d == ReadWord(b)
               z == y \/ Cur(b).xfer = "write"
           IN  Goes(b, d, z) /\ Quiet(Cur(b), Cur(d))
<1> DEFINE a == ReadByte(b)
           d == ReadByte(a)
           z == y \/ Cur(b).xfer = "write"
<1>1. ReadWord(b) = d
  BY DEF ReadWord
<1>2. Goes(b, a, z) /\ Quiet(Cur(b), Cur(a))
  BY ReadByteType
<1> HIDE DEF a, d
<1>3. a \in ChannelState /\ DriveOK(Cur(a), z)
  BY <1>2 DEF Goes, Served
<1>4. LET w == z \/ Cur(a).xfer = "write"
      IN  Goes(a, d, w) /\ Quiet(Cur(a), Cur(d))
  BY <1>3, ReadByteType DEF d
<1>5. (z \/ Cur(a).xfer = "write") = z
  BY <1>2 DEF Quiet
<1>6. Goes(a, d, z) /\ Quiet(Cur(a), Cur(d))
  BY <1>4, <1>5
<1>7. Goes(b, d, z) /\ Quiet(Cur(b), Cur(d))
  <2>1. Served(b, a) /\ SameDrive(Cur(b), Cur(a))
    BY <1>2 DEF Goes
  <2> HIDE DEF z
  <2>2. QED
    BY <1>2, <1>6, <2>1, GoesAgain, QuietAgain
<1>8. QED
  BY <1>1, <1>7

\* Of the two bytes of a word at most one completes the packet.
LEMMA WriteWordType ==
    ASSUME NEW b \in ChannelState, NEW y, DriveOK(Cur(b), y),
           NEW w \in (0 .. 255) \X (0 .. 255), NEW hostOk \in BOOLEAN
    PROVE  LET s == Cur(b)
               d == WriteWord(b, w, hostOk)
           IN  /\ Goes(b, d, y)
               /\ Quiet(s, Cur(d)) \/ (s.xfer = "packet" /\ Executed(s, Cur(d)))
<1> DEFINE s == Cur(b)
           v1 == w[1]
           v2 == w[2]
           a == WriteByte(b, v1, hostOk)
           d == WriteByte(a, v2, hostOk)
<1>1. WriteWord(b, w, hostOk) = d
  BY DEF WriteWord
<1>2. v1 \in Octet /\ v2 \in Octet
  BY DEF Octet
<1> HIDE DEF v1, v2
<1>3. /\ Goes(b, a, y)
      /\ \/ Quiet(s, Cur(a)) /\ (Cur(a).xfer = "packet" => s.xfer = "packet")
         \/ /\ s.xfer = "packet" /\ Executed(s, Cur(a))
            /\ Cur(a).xfer \in {"none", "dataIn"}
  BY <1>2, WriteByteType
<1>4. d = a \/ Cur(a).xfer \notin {"none", "dataIn"}
  BY DEF WriteByte
<1> HIDE DEF a, d, s
<1>5. /\ a \in ChannelState /\ DriveOK(Cur(a), y)
      /\ Served(b, a) /\ SameDrive(Cur(b), Cur(a))
  BY <1>3 DEF Goes, Served
<1>6. /\ Goes(a, d, y)
      /\ \/ Quiet(Cur(a), Cur(d)) /\ (Cur(d).xfer = "packet" => Cur(a).xfer = "packet")
         \/ /\ Cur(a).xfer = "packet" /\ Executed(Cur(a), Cur(d))
            /\ Cur(d).xfer \in {"none", "dataIn"}
  BY <1>2, <1>5, WriteByteType DEF d
<1>7. Goes(b, d, y)
  BY <1>5, <1>6, GoesAgain
<1>8. CASE Quiet(s, Cur(a)) /\ (Cur(a).xfer = "packet" => s.xfer = "packet")
  <2>1. CASE Quiet(Cur(a), Cur(d))
    BY <1>1, <1>7, <1>8, <2>1, QuietAgain DEF s
  <2>2. CASE Cur(a).xfer = "packet" /\ Executed(Cur(a), Cur(d))
    <3>1. \A k \in BOOLEAN : Owed(s.cdrom, k) => Owed(Cur(a).cdrom, k)
      BY <1>8 DEF Quiet, Unheard, Owed
    <3>2. Cur(a).cdrom.media = s.cdrom.media
      BY <1>8 DEF Quiet, Unheard
    <3>3. Executed(s, Cur(d))
      BY <2>2, <3>1, <3>2 DEF Executed
    <3>4. QED
      BY <1>1, <1>7, <1>8, <2>2, <3>3 DEF s
  <2>3. QED
    BY <1>6, <2>1, <2>2
<1>9. CASE /\ s.xfer = "packet" /\ Executed(s, Cur(a))
           /\ Cur(a).xfer \in {"none", "dataIn"}
  BY <1>1, <1>4, <1>7, <1>9 DEF s
<1>10. QED
  BY <1>3, <1>8, <1>9

-----------------------------------------------------------------------------
(* A channel in good order                                                 *)

Kinds(b) == b.slot[Hdd].type = "hdd" /\ b.slot[Cd].type = "cdrom"

\* BusyEnds, of any channel
Busy(b) ==
    /\ b.inreset = 1 => b.srst = 1 \/ b.resetTimer = 1
    /\ \A i \in Slots : b.slot[i].override = "busy" =>
          b.inreset = 1 \/ (b.cmdTimer = 1 /\ b.slot[i].abortDue = 1)

Calm(b) == b.pending = 1 => b.intOn = 1 /\ b.inreset = 0

ChannelOK(b, y) ==
    /\ b \in ChannelState /\ Kinds(b) /\ Busy(b) /\ Calm(b)
    /\ \A i \in Slots : DriveOK(b.slot[i], y)

\* No request is left in the 8259 without the channel's knowing of it.
Known(b, d) == d.irr = 1 /\ d.pending = 0 => b.irr = 1 /\ b.pending = 0

Still(b, d) == \A i \in Slots : Unheard(b.slot[i], d.slot[i])

Kept(b, d, y) == ChannelOK(d, y) /\ Known(b, d) /\ Still(b, d)

\* Two steps that keep the channel in order are one.
LEMMA KeptAgain ==
    ASSUME NEW a, NEW b, NEW d, NEW y, NEW z, Kept(a, b, y), Kept(b, d, z)
    PROVE  Kept(a, d, z)
  BY DEF Kept, Known, Still, Unheard

\* A drive that does not change says nothing.
LEMMA UnheardSelf == \A s : Unheard(s, s)
  BY DEF Unheard

\* A stray read only allows more.
LEMMA WiderOK ==
    ASSUME NEW s, NEW y, NEW z, DriveOK(s, y), y => z
    PROVE  DriveOK(s, z)
  BY DEF DriveOK, Positions

\* A step that serves the selected drive and leaves it in good order
LEMMA ServedOK ==
    ASSUME NEW b, NEW d, NEW y, NEW z, ChannelOK(b, y), Served(b, d),
           DriveOK(Cur(d), z), y => z,
           Cur(d).type = Cur(b).type,
           Cur(d).override # "busy" \/ SameDrive(Cur(b), Cur(d))
    PROVE  ChannelOK(d, z) /\ Known(b, d)
<1> DEFINE k == b.select + 1
<1>1. /\ b \in ChannelState /\ d \in ChannelState /\ d.select = b.select
  BY DEF ChannelOK, Served, Scalars
<1>2. /\ k \in Slots /\ Cur(b) = b.slot[k] /\ Cur(d) = d.slot[k]
  BY <1>1, SelectedSlot DEF Cur
<1>3. \A i \in Slots : i # k => d.slot[i] = b.slot[i]
  BY DEF Served
<1> HIDE DEF k
<1>4. \A i \in Slots : DriveOK(d.slot[i], z)
  BY <1>2, <1>3, WiderOK DEF ChannelOK
<1>5. \A i \in Slots : d.slot[i].type = b.slot[i].type
  BY <1>2, <1>3
<1>6. Hdd \in Slots /\ Cd \in Slots
  BY DEF Hdd, Cd, Slots
<1>7. Kinds(d)
  BY <1>5, <1>6 DEF Kinds, ChannelOK
<1>8. Busy(d)
  <2>1. d.inreset = 1 => d.srst = 1 \/ d.resetTimer = 1
    BY DEF ChannelOK, Busy, Served, Scalars
  <2>2. ASSUME NEW i \in Slots, d.slot[i].override = "busy"
        PROVE  d.inreset = 1 \/ (d.cmdTimer = 1 /\ d.slot[i].abortDue = 1)
    <3>1. b.slot[i].override = "busy" /\ d.slot[i].abortDue = b.slot[i].abortDue
      BY <1>2, <1>3, <2>2 DEF SameDrive
    <3>2. QED
      BY <3>1 DEF ChannelOK, Busy, Served, Scalars
  <2>3. QED
    BY <2>1, <2>2 DEF Busy
<1>9. Calm(d)
  BY DEF ChannelOK, Calm, Served, Scalars, Asked
<1>10. Known(b, d)
  BY DEF Known, Served, Asked
<1>11. QED
  BY <1>1, <1>4, <1>7, <1>8, <1>9, <1>10 DEF ChannelOK

\* If it says nothing of the disc, the other drive says nothing of it either.
LEMMA ServedKept ==
    ASSUME NEW b, NEW d, NEW y, NEW z, ChannelOK(b, y), Served(b, d),
           DriveOK(Cur(d), z), y => z, Unheard(Cur(b), Cur(d)),
           Cur(d).type = Cur(b).type,
           Cur(d).override # "busy" \/ SameDrive(Cur(b), Cur(d))
    PROVE  Kept(b, d, z)
<1> DEFINE k == b.select + 1
<1>1. ChannelOK(d, z) /\ Known(b, d)
  BY ServedOK
<1>2. /\ k \in Slots /\ Cur(b) = b.slot[k] /\ Cur(d) = d.slot[k]
  BY SelectedSlot DEF Cur, ChannelOK, Served, Scalars
<1>3. \A i \in Slots : i # k => d.slot[i] = b.slot[i]
  BY DEF Served
<1> HIDE DEF k
<1>4. Still(b, d)
  BY <1>2, <1>3, UnheardSelf DEF Still
<1>5. QED
  BY <1>1, <1>4 DEF Kept

\* As a step of the data path does
LEMMA GoesKept ==
    ASSUME NEW b, NEW d, NEW y, NEW z, ChannelOK(b, y), Goes(b, d, z), y => z,
           Unheard(Cur(b), Cur(d))
    PROVE  Kept(b, d, z)
  BY ServedKept DEF Goes, SameDrive

\* ata_lower_irq forgets the request with the line,
LEMMA LowerType ==
    ASSUME NEW b \in ChannelState
    PROVE  LET d == LowerIrq(b)
           IN  /\ d \in ChannelState /\ Scalars(b, d) /\ d.slot = b.slot
               /\ d.pending = 0 /\ Known(b, d) /\ (d.irr = 1 => b.irr = 1)
<1> DEFINE x == IF b.pending = 1 THEN 0 ELSE b.irr
           d == [ b EXCEPT !.irr = x, !.pending = 0 ]
<1>1. x \in Flag /\ (x = 1 => b.irr = 1 /\ b.pending = 0)
  BY DEF ChannelState, Flag
<1>2. LowerIrq(b) = d
  BY DEF LowerIrq
<1>3. 0 \in Flag
  BY Values
<1> HIDE DEF x
<1>4. /\ d \in ChannelState /\ Scalars(b, d) /\ d.slot = b.slot
      /\ d.pending = 0 /\ d.irr = x
  BY <1>1, <1>3, ZenonT(60) DEF ChannelState, Scalars
<1>5. QED
  BY <1>1, <1>2, <1>4 DEF Known

\* and keeps the channel in order.
LEMMA LowerKept ==
    ASSUME NEW b, NEW y, ChannelOK(b, y)
    PROVE  Kept(b, LowerIrq(b), y)
<1> DEFINE d == LowerIrq(b)
<1>1. /\ d \in ChannelState /\ Scalars(b, d) /\ d.slot = b.slot
      /\ d.pending = 0 /\ Known(b, d)
  BY LowerType DEF ChannelOK
<1> HIDE DEF d
<1>2. Kept(b, d, y)
  BY <1>1, UnheardSelf
     DEF Kept, ChannelOK, Kinds, Busy, Calm, Scalars, Still
<1>3. QED
  BY <1>2 DEF d

\* All the slots at once
LEMMA SlotsType ==
    ASSUME NEW b \in ChannelState, NEW f \in [Slots -> DriveState]
    PROVE  LET d == [ b EXCEPT !.slot = f ]
           IN  /\ d \in ChannelState /\ Scalars(b, d) /\ d.slot = f
               /\ d.pending = b.pending /\ d.irr = b.irr
  BY Zenon DEF ChannelState, Scalars

-----------------------------------------------------------------------------
(* Resets                                                                  *)

\* A drive that was reset is in good order, whatever it did before.
LEMMA ResetOK ==
    ASSUME NEW s \in DriveState, NEW y
    PROVE  LET t == ResetDrive(s)
           IN  /\ DriveOK(t, y) /\ t.type = s.type /\ t.override = "none"
               /\ t.xfer = "none" /\ Unheard(s, t)
<1> DEFINE t == ResetDrive(s)
<1>1. /\ t \in DriveState /\ t.type = s.type
      /\ t.xfer = "none" /\ t.buf = <<>> /\ t.pos = 0
      /\ t.cur = 0 /\ t.target = 0 /\ t.error \in {0, 1}
      /\ t.override = "none"
      /\ t.cdrom \in {s.cdrom, CdReset(s.cdrom)}
  BY ResetType
<1> HIDE DEF t
<1>2. t.cdrom.media = s.cdrom.media /\ t.cdrom.ua = s.cdrom.ua
  <2>1. s.cdrom \in CdromState /\ NoDisc \in Discs \cup {NoDisc}
    BY DriveTypes
  <2>2. QED
    BY <1>1, <2>1, DiscTypes
<1>3. DriveOK(t, y)
  BY <1>1, NoError DEF DriveOK, Positions, Sensed
<1>4. QED
  BY <1>1, <1>2, <1>3 DEF Unheard, t

\* The same with the status that a reset of the device leaves
LEMMA ZeroOK ==
    ASSUME NEW s, NEW y, DriveOK(s, y), NEW o \in Override
    PROVE  LET t == [ s EXCEPT !.override = o ]
           IN  /\ DriveOK(t, y) /\ t.type = s.type /\ t.override = o
               /\ t.xfer = s.xfer /\ Unheard(s, t)
<1> DEFINE t == [ s EXCEPT !.override = o ]
<1>1. /\ t \in DriveState /\ t.type = s.type /\ t.override = o
      /\ t.xfer = s.xfer /\ t.buf = s.buf /\ t.pos = s.pos
      /\ t.cur = s.cur /\ t.target = s.target /\ t.error = s.error
      /\ t.chunk = s.chunk /\ t.chunkPos = s.chunkPos
      /\ t.cdrom = s.cdrom /\ t.cdb = s.cdb
  BY Zenon DEF DriveOK, DriveState
<1> HIDE DEF t
<1>2. DriveOK(t, y) /\ Unheard(s, t)
  BY <1>1 DEF DriveOK, Positions, Sensed, Unheard
<1>3. QED
  BY <1>1, <1>2 DEF t

\* ata_complete_reset, whatever the channel did
LEMMA CompleteResetType ==
    ASSUME NEW b \in ChannelState, Kinds(b), NEW y
    PROVE  LET d == CompleteReset(b)
           IN  Kept(b, d, y) /\ (d.irr = 1 => b.irr = 1)
<1> DEFINE Fresh(s) == IF s.type = "cdrom"
                       THEN [ ResetDrive(s) EXCEPT !.override = "zero" ]
                       ELSE ResetDrive(s)
           f == [ i \in Slots |-> Fresh(b.slot[i]) ]
           a == [ b EXCEPT !.inreset = 0, !.select = 0, !.slot = f ]
           d == LowerIrq(a)
<1>1. CompleteReset(b) = d
  BY DEF CompleteReset
<1>2. \A i \in Slots : b.slot[i] \in DriveState
  BY DEF ChannelState
<1>3. ASSUME NEW i \in Slots
      PROVE  /\ DriveOK(f[i], y) /\ f[i].type = b.slot[i].type
             /\ f[i].override # "busy" /\ Unheard(b.slot[i], f[i])
  <2> DEFINE s == b.slot[i]
             t == ResetDrive(s)
             u == [ t EXCEPT !.override = "zero" ]
  <2>1. s \in DriveState
    BY <1>2
  <2>2. f[i] = IF s.type = "cdrom" THEN u ELSE t
    OBVIOUS
  <2> HIDE DEF f, s
  <2>3. /\ DriveOK(t, y) /\ t.type = s.type /\ t.override = "none"
        /\ Unheard(s, t)
    BY <2>1, ResetOK
  <2> HIDE DEF t
  <2>4. /\ DriveOK(u, y) /\ u.type = t.type /\ u.override = "zero"
        /\ Unheard(t, u)
    BY <2>3, Values, ZeroOK
  <2> HIDE DEF u
  <2>5. QED
    BY <2>2, <2>3, <2>4 DEF Unheard, s
<1>4. f \in [Slots -> DriveState]
  <2>1. \A i \in Slots : f[i] \in DriveState
    BY <1>3 DEF DriveOK
  <2>2. QED
    BY <2>1
<1> HIDE DEF f
<1>5. /\ a \in ChannelState /\ a.slot = f /\ a.inreset = 0 /\ a.irr = b.irr
      /\ a.pending = b.pending
  <2>1. 0 \in Flag
    BY Values
  <2>2. QED
    BY <1>4, <2>1, ZenonT(60) DEF ChannelState
<1> HIDE DEF a
<1>6. /\ d \in ChannelState /\ Scalars(a, d) /\ d.slot = a.slot
      /\ d.pending = 0 /\ Known(a, d) /\ (d.irr = 1 => a.irr = 1)
  BY <1>5, LowerType
<1> HIDE DEF d
<1>7. Kinds(d)
  <2>1. Hdd \in Slots /\ Cd \in Slots
    BY DEF Hdd, Cd, Slots
  <2>2. QED
    BY <1>3, <1>5, <1>6, <2>1 DEF Kinds
<1>8. Busy(d) /\ Calm(d)
  BY <1>3, <1>5, <1>6 DEF Busy, Calm, Scalars
<1>9. Known(b, d) /\ (d.irr = 1 => b.irr = 1)
  BY <1>5, <1>6 DEF Known
<1>10. Still(b, d)
  BY <1>3, <1>5, <1>6 DEF Still
<1>11. Kept(b, d, y)
  BY <1>3, <1>5, <1>6, <1>7, <1>8, <1>9, <1>10 DEF Kept, ChannelOK
<1>12. QED
  BY <1>1, <1>9, <1>11

\* ata_begin_controller_reset: BSY until the timer that it starts
LEMMA BeginResetType ==
    ASSUME NEW b, NEW y, ChannelOK(b, y)
    PROVE  Kept(b, BeginReset(b), y)
<1> DEFINE f == [ i \in Slots |-> [ ClearTransfer(b.slot[i]) EXCEPT
                                      !.override = "none", !.abortDue = 0 ] ]
           a == [ b EXCEPT !.inreset = 1, !.cmdTimer = 0, !.resetTimer = 1,
                           !.slot = f ]
           d == LowerIrq(a)
<1>1. BeginReset(b) = d
  BY DEF BeginReset
<1>2. b \in ChannelState /\ \A i \in Slots : DriveOK(b.slot[i], y)
  BY DEF ChannelOK
<1>3. ASSUME NEW i \in Slots
      PROVE  /\ DriveOK(f[i], y) /\ f[i].type = b.slot[i].type
             /\ f[i].override = "none" /\ Unheard(b.slot[i], f[i])
  <2> DEFINE s == b.slot[i]
             t == ClearTransfer(s)
             u == [ t EXCEPT !.override = "none", !.abortDue = 0 ]
  <2>1. s \in DriveState /\ Sensed(s) /\ s.cur <= s.target
    BY <1>2 DEF DriveOK, Positions
  <2>2. f[i] = u
    OBVIOUS
  <2> HIDE DEF f, s
  <2>3. DriveOK(t, y) /\ Unheard(s, t) /\ t \in DriveState /\ t.type = s.type
    BY <2>1, ClearOK, ClearType DEF Quiet, SameDrive
  <2> HIDE DEF t
  <2>4. "none" \in Override /\ 0 \in Flag
    BY Values
  <2>5. /\ u \in DriveState /\ u.type = t.type /\ u.override = "none"
        /\ u.xfer = t.xfer /\ u.buf = t.buf /\ u.pos = t.pos
        /\ u.cur = t.cur /\ u.target = t.target /\ u.error = t.error
        /\ u.chunk = t.chunk /\ u.chunkPos = t.chunkPos
        /\ u.cdrom = t.cdrom /\ u.cdb = t.cdb
    BY <2>3, <2>4, ZenonT(60) DEF DriveState
  <2> HIDE DEF u
  <2>6. DriveOK(u, y) /\ Unheard(t, u)
    BY <2>3, <2>5 DEF DriveOK, Positions, Sensed, Unheard
  <2>7. QED
    BY <2>2, <2>3, <2>5, <2>6 DEF Unheard, s
<1>4. f \in [Slots -> DriveState]
  <2>1. \A i \in Slots : f[i] \in DriveState
    BY <1>3 DEF DriveOK
  <2>2. QED
    BY <2>1
<1> HIDE DEF f
<1>5. /\ a \in ChannelState /\ a.slot = f /\ a.inreset = 1 /\ a.resetTimer = 1
      /\ a.irr = b.irr /\ a.pending = b.pending
  <2>1. 0 \in Flag /\ 1 \in Flag
    BY Values
  <2>2. QED
    BY <1>2, <1>4, <2>1, ZenonT(60) DEF ChannelState
<1> HIDE DEF a
<1>6. /\ d \in ChannelState /\ Scalars(a, d) /\ d.slot = a.slot
      /\ d.pending = 0 /\ Known(a, d)
  BY <1>5, LowerType
<1> HIDE DEF d
<1>7. Kinds(d)
  <2>1. Hdd \in Slots /\ Cd \in Slots /\ Kinds(b)
    BY DEF Hdd, Cd, Slots, ChannelOK
  <2>2. QED
    BY <1>3, <1>5, <1>6, <2>1 DEF Kinds
<1>8. Busy(d) /\ Calm(d)
  BY <1>3, <1>5, <1>6 DEF Busy, Calm, Scalars
<1>9. Known(b, d) /\ Still(b, d)
  BY <1>3, <1>5, <1>6 DEF Known, Still
<1>10. QED
  BY <1>1, <1>3, <1>5, <1>6, <1>7, <1>8, <1>9 DEF Kept, ChannelOK

\* ata_reset_cb
LEMMA ResetDoneType ==
    ASSUME NEW b, NEW y, ChannelOK(b, y)
    PROVE  Kept(b, ResetDone(b), y)
<1> DEFINE a == [ b EXCEPT !.resetTimer = 0 ]
<1>1. b \in ChannelState /\ Kinds(b) /\ 0 \in Flag
  BY Values DEF ChannelOK
<1>2. /\ a \in ChannelState /\ a.slot = b.slot /\ a.irr = b.irr
      /\ a.pending = b.pending
  BY <1>1, ZenonT(60) DEF ChannelState
<1> HIDE DEF a
<1>3. Kept(a, CompleteReset(a), y)
  BY <1>1, <1>2, CompleteResetType DEF Kinds
<1>4. ResetDone(b) = CompleteReset(a)
  BY DEF ResetDone, a
<1>5. QED
  BY <1>2, <1>3, <1>4 DEF Kept, Known, Still

\* The one step that may leave a request behind of which the channel does
\* not know: pending is forgotten first.
LEMMA WarmResetType ==
    ASSUME NEW b, NEW y, ChannelOK(b, y)
    PROVE  LET d == WarmReset(b)
           IN  ChannelOK(d, y) /\ Still(b, d) /\ (d.irr = 1 => b.irr = 1)
<1> DEFINE a == [ b EXCEPT !.resetTimer = 0, !.cmdTimer = 0, !.srst = 0,
                           !.inreset = 0, !.pending = 0, !.intOn = 1 ]
<1>1. b \in ChannelState /\ Kinds(b) /\ 0 \in Flag /\ 1 \in Flag
  BY Values DEF ChannelOK
<1>2. a \in ChannelState /\ a.slot = b.slot /\ a.irr = b.irr
  BY <1>1, ZenonT(60) DEF ChannelState
<1> HIDE DEF a
<1>3. LET d == CompleteReset(a)
      IN  Kept(a, d, y) /\ (d.irr = 1 => a.irr = 1)
  BY <1>1, <1>2, CompleteResetType DEF Kinds
<1>4. WarmReset(b) = CompleteReset(a)
  BY DEF WarmReset, a
<1>5. QED
  BY <1>2, <1>3, <1>4 DEF Kept, Still

\* ata_set_interrupt_enable
LEMMA SetInterruptsType ==
    ASSUME NEW b, NEW y, ChannelOK(b, y), NEW on \in Flag
    PROVE  LET d == SetInterrupts(b, on)
           IN  /\ Kept(b, d, y) /\ d.slot = b.slot /\ d.inreset = b.inreset
               /\ d.srst = b.srst /\ d.resetTimer = b.resetTimer
               /\ d.cmdTimer = b.cmdTimer
<1> DEFINE a == [ b EXCEPT !.intOn = on ]
<1>1. b \in ChannelState
  BY DEF ChannelOK
<1>2. /\ a \in ChannelState /\ a.slot = b.slot /\ a.inreset = b.inreset
      /\ a.srst = b.srst /\ a.resetTimer = b.resetTimer
      /\ a.cmdTimer = b.cmdTimer /\ a.irr = b.irr /\ a.pending = b.pending
      /\ a.intOn = on
  BY <1>1, ZenonT(60) DEF ChannelState
<1>3. on = 1 \/ on = 0
  BY DEF Flag
<1>4. SetInterrupts(b, on) = IF on = 1 THEN a ELSE LowerIrq(a)
  BY <1>3 DEF SetInterrupts
<1> HIDE DEF a
<1>5. Kinds(a) /\ Busy(a) /\ \A i \in Slots : DriveOK(a.slot[i], y)
  BY <1>2 DEF ChannelOK, Kinds, Busy
<1>6. Known(b, a) /\ Still(b, a)
  BY <1>2, UnheardSelf DEF Known, Still
<1>7. CASE on = 1
  <2>1. Calm(a)
    BY <1>2, <1>7 DEF Calm, ChannelOK
  <2>2. QED
    BY <1>2, <1>4, <1>5, <1>6, <1>7, <2>1 DEF Kept, ChannelOK
<1>8. CASE on = 0
  <2> DEFINE d == LowerIrq(a)
  <2>1. /\ d \in ChannelState /\ Scalars(a, d) /\ d.slot = a.slot
        /\ d.pending = 0 /\ Known(a, d)
    BY <1>2, LowerType
  <2>2. SetInterrupts(b, on) = d
    BY <1>4, <1>8
  <2> HIDE DEF d
  <2>3. Kinds(d) /\ Busy(d) /\ Calm(d) /\ \A i \in Slots : DriveOK(d.slot[i], y)
    BY <1>5, <2>1 DEF Kinds, Busy, Calm, Scalars
  <2>4. Known(b, d) /\ Still(b, d)
    BY <1>6, <2>1 DEF Known, Still
  <2>5. QED
    BY <1>2, <2>1, <2>2, <2>3, <2>4 DEF Kept, ChannelOK, Scalars
<1>9. QED
  BY <1>3, <1>7, <1>8

\* The device control register: BSY as long as SRST or its timer
LEMMA WriteControlType ==
    ASSUME NEW b, NEW y, ChannelOK(b, y), NEW srst \in Flag, NEW nien \in Flag
    PROVE  Kept(b, WriteControl(b, srst, nien), y)
<1> DEFINE on == 1 - nien
           j == SetInterrupts(b, on)
           e == [ j EXCEPT !.srst = srst ]
           f == [ n \in Slots |-> ClearTransfer(e.slot[n]) ]
           a == [ e EXCEPT !.inreset = 1, !.slot = f ]
           r == [ e EXCEPT !.resetTimer = 1 ]
           d == WriteControl(b, srst, nien)
<1>1. d = IF b.srst = 0 /\ srst = 1 THEN LowerIrq(a)
          ELSE IF b.srst = 1 /\ srst = 0 THEN r ELSE e
  BY DEF WriteControl
<1>2. on \in Flag
  BY SMT DEF Flag
<1>3. /\ Kept(b, j, y) /\ j.slot = b.slot /\ j.inreset = b.inreset
      /\ j.srst = b.srst /\ j.resetTimer = b.resetTimer
      /\ j.cmdTimer = b.cmdTimer
  BY <1>2, SetInterruptsType
<1> HIDE DEF j, d
<1>4. j \in ChannelState
  BY <1>3 DEF Kept, ChannelOK
<1>5. /\ e \in ChannelState /\ e.slot = j.slot /\ e.inreset = j.inreset
      /\ e.srst = srst /\ e.resetTimer = j.resetTimer
      /\ e.cmdTimer = j.cmdTimer /\ e.irr = j.irr /\ e.pending = j.pending
      /\ e.intOn = j.intOn
  BY <1>4, ZenonT(60) DEF ChannelState
<1> HIDE DEF e
<1>6. Kinds(e) /\ Calm(e) /\ \A i \in Slots : DriveOK(e.slot[i], y)
  BY <1>3, <1>5 DEF Kept, ChannelOK, Kinds, Calm
<1>7. Known(b, e) /\ Still(b, e)
  BY <1>3, <1>5 DEF Kept, Known, Still
<1>8. CASE b.srst = 0 /\ srst = 1
  <2>1. ASSUME NEW n \in Slots
        PROVE  /\ DriveOK(f[n], y) /\ f[n].type = e.slot[n].type
               /\ Unheard(e.slot[n], f[n])
    <3> DEFINE s == e.slot[n]
    <3>1. s \in DriveState /\ Sensed(s) /\ s.cur <= s.target
      BY <1>6 DEF DriveOK, Positions
    <3>2. f[n] = ClearTransfer(s)
      OBVIOUS
    <3> HIDE DEF f, s
    <3>3. QED
      BY <3>1, <3>2, ClearOK, ClearType DEF Quiet, SameDrive, s
  <2>2. f \in [Slots -> DriveState]
    <3>1. \A n \in Slots : f[n] \in DriveState
      BY <2>1 DEF DriveOK
    <3>2. QED
      BY <3>1
  <2> HIDE DEF f
  <2>3. 1 \in Flag
    BY Values
  <2>4. /\ a \in ChannelState /\ a.slot = f /\ a.inreset = 1 /\ a.srst = e.srst
        /\ a.irr = e.irr /\ a.pending = e.pending
    BY <1>5, <2>2, <2>3, ZenonT(60) DEF ChannelState
  <2> DEFINE g == LowerIrq(a)
  <2> HIDE DEF a
  <2>5. /\ g \in ChannelState /\ Scalars(a, g) /\ g.slot = a.slot
        /\ g.pending = 0 /\ Known(a, g)
    BY <2>4, LowerType
  <2>6. d = g
    BY <1>1, <1>8
  <2> HIDE DEF g
  <2>7. Kinds(g)
    <3>1. Hdd \in Slots /\ Cd \in Slots
      BY DEF Hdd, Cd, Slots
    <3>2. QED
      BY <1>6, <2>1, <2>4, <2>5, <3>1 DEF Kinds
  <2>8. Busy(g) /\ Calm(g)
    BY <1>5, <1>8, <2>4, <2>5 DEF Busy, Calm, Scalars
  <2>9. Known(b, g) /\ Still(b, g)
    BY <1>7, <2>1, <2>4, <2>5 DEF Known, Still, Unheard
  <2>10. QED
    BY <2>1, <2>4, <2>5, <2>6, <2>7, <2>8, <2>9 DEF Kept, ChannelOK, d
<1>9. CASE b.srst = 1 /\ srst = 0
  <2>1. 1 \in Flag
    BY Values
  <2>2. /\ r \in ChannelState /\ r.slot = e.slot /\ r.inreset = e.inreset
        /\ r.resetTimer = 1 /\ r.cmdTimer = e.cmdTimer
        /\ r.irr = e.irr /\ r.pending = e.pending /\ r.intOn = e.intOn
    BY <1>5, <2>1, ZenonT(60) DEF ChannelState
  <2>3. d = r
    BY <1>1, <1>9
  <2> HIDE DEF r
  <2>4. Kinds(r) /\ Calm(r) /\ \A i \in Slots : DriveOK(r.slot[i], y)
    BY <1>6, <2>2 DEF Kinds, Calm
  <2>5. Busy(r)
    BY <1>3, <1>5, <2>2 DEF Kept, ChannelOK, Busy
  <2>6. Known(b, r) /\ Still(b, r)
    BY <1>7, <2>2 DEF Known, Still
  <2>7. QED
    BY <2>2, <2>3, <2>4, <2>5, <2>6 DEF Kept, ChannelOK, d
<1>10. CASE ~(b.srst = 0 /\ srst = 1) /\ ~(b.srst = 1 /\ srst = 0)
  <2>1. d = e
    BY <1>1, <1>10
  <2>2. e.srst = j.srst
    <3>1. b.srst \in Flag
      BY DEF ChannelOK, ChannelState
    <3>2. QED
      BY <1>3, <1>5, <1>10, <3>1 DEF Flag
  <2>3. Busy(e)
    BY <1>3, <1>5, <2>2 DEF Kept, ChannelOK, Busy
  <2>4. QED
    BY <1>5, <1>6, <1>7, <2>1, <2>3 DEF Kept, ChannelOK, d
<1>11. QED
  BY <1>8, <1>9, <1>10

-----------------------------------------------------------------------------
(* The delayed aborts                                                      *)

\* What holds of a channel between the two of them
Halfway(b, y) ==
    /\ b \in ChannelState /\ Kinds(b) /\ Calm(b)
    /\ b.inreset = 1 => b.srst = 1 \/ b.resetTimer = 1
    /\ \A i \in Slots : DriveOK(b.slot[i], y)

\* The delayed abort of one drive
LEMMA AbortDelayedType ==
    ASSUME NEW b, NEW y, Halfway(b, y), NEW i \in Slots
    PROVE  LET d == AbortDelayed(b, i)
           IN  /\ Halfway(d, y) /\ Known(b, d) /\ Still(b, d)
               /\ d.inreset = b.inreset
               /\ \A k \in Slots : k # i => d.slot[k] = b.slot[k]
               /\ \/ b.slot[i].abortDue = 0 /\ d.slot[i] = b.slot[i]
                  \/ d.slot[i].override = "none"
<1> DEFINE s == b.slot[i]
           r == [ s EXCEPT !.abortDue = 0, !.override = "none" ]
           t == Signature(r)
           q == i - 1
           f == [ b.slot EXCEPT ![i] = t ]
           a == [ b EXCEPT !.select = q, !.slot = f ]
           d == AbortDelayed(b, i)
<1>1. b \in ChannelState /\ b.slot \in [Slots -> DriveState]
      /\ DriveOK(s, y) /\ s \in DriveState
  BY DEF Halfway, DriveOK, ChannelState
<1>2. CASE s.abortDue = 0
  <2>1. d = b
    BY <1>2 DEF AbortDelayed
  <2>2. QED
    BY <1>2, <2>1, UnheardSelf DEF Known, Still
<1>3. CASE s.abortDue # 0
  <2>1. d = Abort(a, i, 0)
    <3>1. [ b EXCEPT !.select = i - 1, !.slot[i] = t ] = a
      BY <1>1 DEF ChannelState
    <3>2. QED
      BY <1>3, <3>1 DEF AbortDelayed
  <2>2. 0 \in Flag /\ "none" \in Override
    BY Values
  <2> HIDE DEF s
  <2>3. /\ r \in DriveState /\ r.type = s.type /\ r.override = "none"
        /\ r.xfer = s.xfer /\ r.buf = s.buf /\ r.pos = s.pos
        /\ r.cur = s.cur /\ r.target = s.target
        /\ r.cdrom = s.cdrom /\ r.cdb = s.cdb
    BY <1>1, <2>2, ZenonT(60) DEF DriveState
  <2> HIDE DEF r
  <2>4. t \in DriveState /\ SameTransfer(r, t)
    BY <2>3, SignatureType
  <2>5. s.cur <= s.target
    BY <1>1 DEF DriveOK, Positions
  <2> HIDE DEF t
  <2>6. /\ t.type = s.type /\ t.override = "none" /\ t.cur <= t.target
        /\ Unheard(s, t)
    BY <2>3, <2>4, <2>5 DEF SameTransfer, SameDrive, Unheard
  <2>7. /\ f \in [Slots -> DriveState] /\ f[i] = t
        /\ \A k \in Slots : k # i => f[k] = b.slot[k]
    BY <1>1, <2>4
  <2>8. q \in Flag /\ q + 1 = i
    BY SMT DEF Slots, Flag
  <2> HIDE DEF f, q
  <2>9. /\ a \in ChannelState /\ a.slot = f /\ a.select = q
        /\ a.inreset = b.inreset /\ a.srst = b.srst /\ a.intOn = b.intOn
        /\ a.resetTimer = b.resetTimer /\ a.irr = b.irr
        /\ a.pending = b.pending
    BY <1>1, <2>7, <2>8, ZenonT(60) DEF ChannelState
  <2> HIDE DEF a, d
  <2>10. Cur(a) = t
    BY <2>7, <2>8, <2>9 DEF Cur
  <2>11. Goes(a, d, y) /\ Quiet(t, Cur(d))
    <3>1. 0 \in Key /\ (0 # 0 => Cur(a).cdrom.sense = 0) /\ i = a.select + 1
      BY <2>8, <2>9, NoError
    <3>2. QED
      BY <2>1, <2>6, <2>9, <2>10, <3>1, AbortType
  <2>12. /\ d \in ChannelState /\ Scalars(a, d) /\ Asked(a, d)
         /\ \A k \in Slots : k # i => d.slot[k] = b.slot[k]
    BY <2>7, <2>8, <2>9, <2>11 DEF Goes, Served
  <2>13. Cur(d) = d.slot[i]
    BY <2>8, <2>9, <2>12 DEF Cur, Scalars
  <2>14. /\ DriveOK(d.slot[i], y) /\ d.slot[i].type = s.type
         /\ d.slot[i].override = "none" /\ Unheard(s, d.slot[i])
    BY <2>6, <2>10, <2>11, <2>13 DEF Goes, SameDrive, Quiet, Unheard
  <2>15. \A k \in Slots : DriveOK(d.slot[k], y) /\ d.slot[k].type = b.slot[k].type
                          /\ Unheard(b.slot[k], d.slot[k])
    BY <2>12, <2>14, UnheardSelf DEF Halfway, s
  <2>16. Kinds(d)
    <3>1. Hdd \in Slots /\ Cd \in Slots
      BY DEF Hdd, Cd, Slots
    <3>2. QED
      BY <2>15, <3>1 DEF Kinds, Halfway
  <2>17. Calm(d) /\ Known(b, d)
    BY <2>9, <2>12 DEF Calm, Known, Halfway, Scalars, Asked
  <2>18. d.inreset = b.inreset /\ d.srst = b.srst /\ d.resetTimer = b.resetTimer
    BY <2>9, <2>12 DEF Scalars
  <2>19. QED
    BY <2>12, <2>14, <2>15, <2>16, <2>17, <2>18 DEF Halfway, Still, d
<1>4. QED
  BY <1>2, <1>3

\* ata_command_cb: no drive is left busy without a reset.
LEMMA CommandDoneType ==
    ASSUME NEW b, NEW y, ChannelOK(b, y)
    PROVE  Kept(b, CommandDone(b), y)
<1> DEFINE a == [ b EXCEPT !.cmdTimer = 0 ]
           e == AbortDelayed(a, 1)
           d == AbortDelayed(e, 2)
<1>1. CommandDone(b) = d
  BY DEF CommandDone
<1>2. b \in ChannelState /\ 0 \in Flag
  BY Values DEF ChannelOK
<1>3. /\ a \in ChannelState /\ a.slot = b.slot /\ a.inreset = b.inreset
      /\ a.srst = b.srst /\ a.resetTimer = b.resetTimer
      /\ a.irr = b.irr /\ a.pending = b.pending /\ a.intOn = b.intOn
  BY <1>2, ZenonT(60) DEF ChannelState
<1> HIDE DEF a
<1>4. Halfway(a, y) /\ Known(b, a) /\ Still(b, a)
  BY <1>3, UnheardSelf
     DEF Halfway, ChannelOK, Kinds, Calm, Busy, Known, Still
<1>5. 1 \in Slots /\ 2 \in Slots /\ \A i \in Slots : i = 1 \/ i = 2
  BY DEF Slots
<1>6. /\ Halfway(e, y) /\ Known(a, e) /\ Still(a, e) /\ e.inreset = a.inreset
      /\ e.slot[2] = a.slot[2]
      /\ \/ a.slot[1].abortDue = 0 /\ e.slot[1] = a.slot[1]
         \/ e.slot[1].override = "none"
  BY <1>4, <1>5, AbortDelayedType
<1> HIDE DEF e
<1>7. /\ Halfway(d, y) /\ Known(e, d) /\ Still(e, d) /\ d.inreset = e.inreset
      /\ d.slot[1] = e.slot[1]
      /\ \/ e.slot[2].abortDue = 0 /\ d.slot[2] = e.slot[2]
         \/ d.slot[2].override = "none"
  BY <1>5, <1>6, AbortDelayedType
<1> HIDE DEF d
<1>8. \A i \in Slots : d.slot[i].override = "busy" => d.inreset = 1
  <2>1. \A i \in Slots : b.slot[i].override = "busy" /\ b.slot[i].abortDue = 0
                           => b.inreset = 1
    BY DEF ChannelOK, Busy
  <2>2. d.slot[1].override = "busy" => d.inreset = 1
    BY <1>3, <1>5, <1>6, <1>7, <2>1
  <2>3. d.slot[2].override = "busy" => d.inreset = 1
    BY <1>3, <1>5, <1>6, <1>7, <2>1
  <2>4. QED
    BY <1>5, <2>2, <2>3
<1>9. ChannelOK(d, y)
  BY <1>7, <1>8 DEF ChannelOK, Halfway, Busy
<1>10. Known(b, d) /\ Still(b, d)
  BY <1>4, <1>6, <1>7 DEF Known, Still, Unheard
<1>11. QED
  BY <1>1, <1>9, <1>10 DEF Kept

-----------------------------------------------------------------------------
(* The registers                                                           *)

\* A write of the registers keeps the channel in order.
LEMMA RegistersKept ==
    ASSUME NEW b, NEW y, ChannelOK(b, y), NEW t \in DriveState,
           SameTransfer(Cur(b), t)
    PROVE  Kept(b, Put(b, t), y) /\ Kept(b, Irq(Put(b, t)), y)
<1> DEFINE s == Cur(b)
<1>1. b \in ChannelState /\ DriveOK(s, y)
  <2>1. b \in ChannelState
    BY DEF ChannelOK
  <2>2. QED
    BY <2>1, SelectedSlot DEF ChannelOK
<1>2. DriveOK(t, y) /\ Unheard(s, t) /\ SameDrive(s, t)
  BY <1>1 DEF SameTransfer, SameDrive, DriveOK, Positions, Sensed, Unheard
<1>3. ASSUME NEW d, Served(b, d), Cur(d) = t
      PROVE  Kept(b, d, y)
  BY <1>2, <1>3, GoesKept DEF Goes
<1>4. QED
  BY <1>1, <1>3, PutType, PutIrqType

\* So does the choice of a drive,
LEMMA SelectKept ==
    ASSUME NEW b, NEW y, ChannelOK(b, y), NEW drive \in Flag
    PROVE  Kept(b, [ b EXCEPT !.select = drive ], y)
<1> DEFINE a == [ b EXCEPT !.select = drive ]
<1>1. b \in ChannelState
  BY DEF ChannelOK
<1>2. /\ a \in ChannelState /\ a.slot = b.slot /\ a.inreset = b.inreset
      /\ a.srst = b.srst /\ a.resetTimer = b.resetTimer /\ a.intOn = b.intOn
      /\ a.cmdTimer = b.cmdTimer /\ a.irr = b.irr /\ a.pending = b.pending
  BY <1>1, ZenonT(60) DEF ChannelState
<1> HIDE DEF a
<1>3. Kept(b, a, y)
  BY <1>2, UnheardSelf
     DEF Kept, ChannelOK, Kinds, Busy, Calm, Known, Still
<1>4. QED
  BY <1>3 DEF a

\* the register of drive and head,
LEMMA WriteDriveType ==
    ASSUME NEW b, NEW y, ChannelOK(b, y), NEW drive \in Flag, NEW m \in Flag
    PROVE  Kept(b, WriteDrive(b, drive, m, 0), y)
<1> DEFINE a == [ b EXCEPT !.select = drive ]
           s == Cur(a)
           l == 0 * 16777216 + (s.lba % 16777216)
           t == [ s EXCEPT !.lbamode = m, !.lba = l ]
<1>1. Kept(b, a, y)
  BY SelectKept
<1>2. WriteDrive(b, drive, m, 0) = IF ~Accepts(a, s) THEN a ELSE Put(a, t)
  BY DEF WriteDrive
<1> HIDE DEF a
<1>3. s \in DriveState
  BY <1>1, SelectedSlot DEF Kept, ChannelOK
<1>4. l \in Lba
  <2>1. s.lba % 16777216 \in Low /\ 0 \in 0 .. 15
    BY <1>3, DriveTypes, LbaFits
  <2> HIDE DEF s
  <2>2. QED
    BY <2>1, LbaOf
<1> HIDE DEF l
<1>5. t \in DriveState /\ SameTransfer(s, t)
  BY <1>3, <1>4, ZenonT(60) DEF DriveState, SameTransfer, SameDrive
<1> HIDE DEF t
<1>6. Kept(a, Put(a, t), y)
  BY <1>1, <1>5, RegistersKept DEF Kept
<1>7. QED
  BY <1>1, <1>2, <1>6, KeptAgain

\* those of count and address,
LEMMA WriteTaskFileType ==
    ASSUME NEW b, NEW y, ChannelOK(b, y), NEW n \in Octet, NEW lba \in Nat
    PROVE  Kept(b, WriteTaskFile(b, n, lba), y)
<1> DEFINE s == Cur(b)
           l == High(s.lba) * 16777216 + (lba % 16777216)
           t == [ s EXCEPT !.sectors = n, !.lba = l ]
<1>1. WriteTaskFile(b, n, lba) = IF ~Accepts(b, s) THEN b ELSE Put(b, t)
  BY DEF WriteTaskFile
<1>2. s \in DriveState
  BY SelectedSlot DEF ChannelOK
<1>3. l \in Lba
  <2>1. High(s.lba) \in 0 .. 15 /\ lba % 16777216 \in Low
    BY <1>2, DriveTypes, LbaParts, LbaFits
  <2> HIDE DEF s
  <2>2. QED
    BY <2>1, LbaOf
<1> HIDE DEF l
<1>4. t \in DriveState /\ SameTransfer(s, t)
  BY <1>2, <1>3, ZenonT(60) DEF DriveState, SameTransfer, SameDrive
<1> HIDE DEF t
<1>5. Kept(b, Put(b, t), y)
  BY <1>4, RegistersKept
<1>6. Kept(b, b, y)
  BY UnheardSelf DEF Kept, Known, Still
<1>7. QED
  BY <1>1, <1>5, <1>6

\* and that of the features.
LEMMA WriteFeaturesType ==
    ASSUME NEW b, NEW y, ChannelOK(b, y), NEW dma \in Flag
    PROVE  Kept(b, WriteFeatures(b, dma), y)
<1> DEFINE s == Cur(b)
           t == [ s EXCEPT !.dma = dma ]
<1>1. WriteFeatures(b, dma) = IF ~Accepts(b, s) THEN b ELSE Put(b, t)
  BY DEF WriteFeatures
<1>2. s \in DriveState
  BY SelectedSlot DEF ChannelOK
<1>3. t \in DriveState /\ SameTransfer(s, t)
  BY <1>2, ZenonT(60) DEF DriveState, SameTransfer, SameDrive
<1> HIDE DEF t
<1>4. Kept(b, Put(b, t), y)
  BY <1>3, RegistersKept
<1>5. Kept(b, b, y)
  BY UnheardSelf DEF Kept, Known, Still
<1>6. QED
  BY <1>1, <1>4, <1>5

-----------------------------------------------------------------------------
(* The command register                                                    *)

\* A command leaves its drive t, with or without a request.
LEMMA PutKept ==
    ASSUME NEW b, NEW y, ChannelOK(b, y), NEW t, DriveOK(t, y),
           Unheard(Cur(b), t), t.type = Cur(b).type, t.override # "busy"
    PROVE  Kept(b, Put(b, t), y) /\ Kept(b, Irq(Put(b, t)), y)
<1>1. b \in ChannelState /\ t \in DriveState
  BY DEF ChannelOK, DriveOK
<1>2. ASSUME NEW d, Served(b, d), Cur(d) = t
      PROVE  Kept(b, d, y)
  BY <1>2, ServedKept
<1>3. QED
  BY <1>1, <1>2, PutType, PutIrqType

\* What IDENTIFY and a packet need
LEMMA CommandBytes ==
    /\ IdentifyBytes \in Seq(Octet) /\ Len(IdentifyBytes) = SectorBytes
    /\ 0 < SectorBytes /\ 0 < CdbBytes
<1>1. SectorBytes \in Nat /\ 0 < SectorBytes /\ 0 < CdbBytes
  BY AtaAssumption
<1>2. QED
  BY <1>1, Values, RepeatBytes DEF IdentifyBytes

\* An answer of one sector, as to IDENTIFY
LEMMA IdentifyOK ==
    ASSUME NEW s, NEW y, DriveOK(s, y), NEW cur \in Number, NEW target \in Number,
           cur <= target
    PROVE  LET p == PioIn(s, IdentifyBytes)
               u == [ p EXCEPT !.cur = cur, !.target = target ]
           IN  /\ DriveOK(u, y) /\ Unheard(s, u) /\ SameDrive(s, u)
               /\ DriveOK(p, y) /\ Unheard(s, p) /\ SameDrive(s, p)
<1> DEFINE p == PioIn(s, IdentifyBytes)
           u == [ p EXCEPT !.cur = cur, !.target = target ]
<1>1. s \in DriveState /\ Sensed(s) /\ s.cur <= s.target
  BY DEF DriveOK, Positions
<1>2. /\ p \in DriveState /\ SameDrive(s, p)
      /\ p.xfer = "read" /\ p.buf = IdentifyBytes /\ p.pos = 0
      /\ p.cur = s.cur /\ p.target = s.target /\ p.error = s.error
      /\ p.cdrom = s.cdrom /\ p.cdb = s.cdb
  BY <1>1, CommandBytes, PioInType
<1> HIDE DEF p
<1>3. /\ u \in DriveState /\ SameDrive(p, u)
      /\ u.xfer = p.xfer /\ u.buf = p.buf /\ u.pos = p.pos
      /\ u.cur = cur /\ u.target = target /\ u.error = p.error
      /\ u.cdrom = p.cdrom /\ u.cdb = p.cdb
  BY <1>2, ZenonT(60) DEF DriveState, SameDrive
<1> HIDE DEF u
<1>4. DriveOK(p, y) /\ Unheard(s, p)
  BY <1>1, <1>2, CommandBytes DEF DriveOK, Positions, Sensed, Unheard
<1>5. DriveOK(u, y) /\ Unheard(s, u) /\ SameDrive(s, u)
  BY <1>1, <1>2, <1>3, CommandBytes
     DEF DriveOK, Positions, Sensed, Unheard, SameDrive
<1>6. QED
  BY <1>2, <1>4, <1>5 DEF p, u

\* A command finds its drive idle, as Command leaves it.
Idle(b) == Cur(b).xfer = "none" /\ Cur(b).override = "none"

\* The delayed abort of a CD-ROM drive
LEMMA BusyKept ==
    ASSUME NEW b, NEW y, ChannelOK(b, y), Idle(b)
    PROVE  LET t == [ Cur(b) EXCEPT !.abortDue = 1, !.override = "busy" ]
           IN  Kept(b, [ Put(b, t) EXCEPT !.cmdTimer = 1 ], y)
<1> DEFINE s == Cur(b)
           t == [ s EXCEPT !.abortDue = 1, !.override = "busy" ]
           e == Put(b, t)
           d == [ e EXCEPT !.cmdTimer = 1 ]
           k == b.select + 1
<1>1. b \in ChannelState
  BY DEF ChannelOK
<1>2. /\ k \in Slots /\ s = b.slot[k] /\ s \in DriveState
  BY <1>1, SelectedSlot
<1>3. DriveOK(s, y)
  BY <1>2 DEF ChannelOK
<1>4. 1 \in Flag /\ "busy" \in Override
  BY Values
<1>5. s.xfer = "none"
  BY DEF Idle
<1> HIDE DEF s
<1>6. /\ t \in DriveState /\ t.type = s.type /\ t.override = "busy"
      /\ t.abortDue = 1
      /\ t.xfer = s.xfer /\ t.buf = s.buf /\ t.pos = s.pos
      /\ t.cur = s.cur /\ t.target = s.target /\ t.error = s.error
      /\ t.cdrom = s.cdrom /\ t.cdb = s.cdb
  BY <1>2, <1>4, ZenonT(60) DEF DriveState
<1> HIDE DEF t
<1>7. DriveOK(t, y) /\ Unheard(s, t)
  BY <1>3, <1>5, <1>6 DEF DriveOK, Positions, Sensed, Unheard
<1>8. Served(b, e) /\ Cur(e) = t
  BY <1>1, <1>6, PutType
<1> HIDE DEF e
<1>9. e \in ChannelState /\ e.slot[k] = t
      /\ \A i \in Slots : i # k => e.slot[i] = b.slot[i]
  BY <1>8 DEF Served, Scalars, Cur
<1>10. /\ d \in ChannelState /\ d.slot = e.slot /\ d.inreset = e.inreset
       /\ d.srst = e.srst /\ d.intOn = e.intOn
       /\ d.resetTimer = e.resetTimer /\ d.cmdTimer = 1
       /\ d.pending = e.pending /\ d.irr = e.irr
  BY <1>4, <1>9, ZenonT(60) DEF ChannelState
<1> HIDE DEF d, k
<1>11. \A i \in Slots : DriveOK(d.slot[i], y) /\ d.slot[i].type = b.slot[i].type
                        /\ Unheard(b.slot[i], d.slot[i])
  BY <1>2, <1>6, <1>7, <1>9, <1>10, UnheardSelf DEF ChannelOK
<1>12. Kinds(d)
  <2>1. Hdd \in Slots /\ Cd \in Slots
    BY DEF Hdd, Cd, Slots
  <2>2. QED
    BY <1>11, <2>1 DEF Kinds, ChannelOK
<1>13. Busy(d)
  BY <1>6, <1>8, <1>9, <1>10 DEF ChannelOK, Busy, Served, Scalars
<1>14. Calm(d) /\ Known(b, d)
  BY <1>8, <1>10 DEF ChannelOK, Calm, Known, Served, Scalars, Asked
<1>15. Kept(b, d, y)
  BY <1>10, <1>11, <1>12, <1>13, <1>14 DEF Kept, ChannelOK, Still
<1>16. QED
  BY <1>15 DEF d, e, t, s

\* The commands' work, by name
Identified(s) == [ PioIn(s, IdentifyBytes) EXCEPT !.cur = 1, !.target = 1 ]
Delayed(b) == [ Put(b, [ Cur(b) EXCEPT !.abortDue = 1, !.override = "busy" ])
                 EXCEPT !.cmdTimer = 1 ]
BeginPacket(s) == [ s EXCEPT !.xfer = "packet", !.sectors = 1,
                                 !.cdb = Repeat(0, CdbBytes),
                                 !.limit = IF Mid(s.lba) = 0 THEN 65536
                                           ELSE Mid(s.lba) ]
DeviceReset(s) == [ ResetDrive(s) EXCEPT !.override = "zero" ]
InitParams(s) == [ s EXCEPT !.spt = s.sectors % 64, !.heads = High(s.lba) + 1 ]
\* The switch of ata_command_process, by its named effects
LEMMA DispatchIs ==
    ASSUME NEW b, NEW v
    PROVE  Dispatch(b, v) =
    LET s == Cur(b)
        n == b.select + 1
        hdd == s.type = "hdd"
        cd  == s.type = "cdrom"
    IN  CASE v = CmdIdentify /\ hdd -> Irq(Put(b, Identified(s)))
          [] v = CmdIdentify /\ cd -> Delayed(b)
          [] v = CmdIdentifyPkt /\ cd -> Irq(Put(b, PioIn(s, IdentifyBytes)))
          [] v = CmdPacket /\ cd /\ s.dma = 0 -> Put(b, BeginPacket(s))
          [] v = CmdDiagnostic -> BeginReset(b)
          [] v = CmdDeviceReset /\ cd -> Irq(Put(b, DeviceReset(s)))
          [] v = CmdInitParams /\ hdd -> Irq(Put(b, InitParams(s)))
          [] v = CmdIdle /\ s.type # "none" -> Irq(b)
          [] v = CmdRecalibrate /\ hdd -> Irq(b)
          [] v = CmdRead /\ hdd -> ReadSector(Put(b, Positioned(s)))
          [] v = CmdWrite /\ hdd -> Put(b, BeginWrite(s))
          [] OTHER -> Abort(b, n, 0)
  BY SMT DEF Dispatch, Identified, Delayed, BeginPacket, DeviceReset, InitParams

\* PACKET
LEMMA PacketKept ==
    ASSUME NEW b, NEW y, ChannelOK(b, y), Idle(b)
    PROVE  Kept(b, Put(b, BeginPacket(Cur(b))), y)
<1> DEFINE s == Cur(b)
           l == IF Mid(s.lba) = 0 THEN 65536 ELSE Mid(s.lba)
           q == Repeat(0, CdbBytes)
           t == [ s EXCEPT !.xfer = "packet", !.sectors = 1, !.cdb = q,
                           !.limit = l ]
<1>1. s \in DriveState /\ DriveOK(s, y) /\ s.xfer = "none" /\ s.override = "none"
  <2>1. b \in ChannelState
    BY DEF ChannelOK
  <2>2. QED
    BY <2>1, SelectedSlot DEF ChannelOK, Idle
<1>2. l \in Number
  <2>1. s.lba \in Lba
    BY <1>1, DriveTypes
  <2>2. Mid(s.lba) \in Number
    BY <2>1, LbaParts
  <2>3. 65536 \in Number
    BY SMT DEF Number
  <2>4. QED
    BY <2>2, <2>3, SMT
<1>3. q \in Packet
  BY NoPacket
<1>4. "packet" \in Transfer /\ 1 \in Octet
  BY Values
<1> HIDE DEF l, q, s
<1>5. /\ t \in DriveState /\ t.type = s.type /\ t.override = s.override
      /\ t.xfer = "packet" /\ t.buf = s.buf /\ t.pos = s.pos
      /\ t.cur = s.cur /\ t.target = s.target /\ t.error = s.error
      /\ t.cdrom = s.cdrom
  BY <1>1, <1>2, <1>3, <1>4, ZenonT(60) DEF DriveState
<1> HIDE DEF t
<1>6. DriveOK(t, y) /\ Unheard(s, t)
  BY <1>1, <1>5, CommandBytes DEF DriveOK, Positions, Sensed, Unheard
<1>7. Kept(b, Put(b, t), y)
  BY <1>1, <1>5, <1>6, PutKept DEF s
<1>8. QED
  <2>1. t = BeginPacket(s)
    BY DEF t, l, q, BeginPacket
  <2>2. QED
    BY <1>7, <2>1 DEF s

\* DEVICE RESET
LEMMA DeviceResetKept ==
    ASSUME NEW b, NEW y, ChannelOK(b, y)
    PROVE  LET t == [ ResetDrive(Cur(b)) EXCEPT !.override = "zero" ]
           IN  Kept(b, Irq(Put(b, t)), y)
<1> DEFINE s == Cur(b)
           r == ResetDrive(s)
           t == [ r EXCEPT !.override = "zero" ]
<1>1. s \in DriveState
  BY SelectedSlot DEF ChannelOK
<1>2. DriveOK(r, y) /\ r.type = s.type /\ Unheard(s, r)
  BY <1>1, ResetOK
<1> HIDE DEF r
<1>3. DriveOK(t, y) /\ t.type = r.type /\ t.override = "zero" /\ Unheard(r, t)
  BY <1>2, Values, ZeroOK
<1> HIDE DEF t
<1>4. Unheard(s, t)
  BY <1>2, <1>3 DEF Unheard
<1>5. Kept(b, Irq(Put(b, t)), y)
  BY <1>2, <1>3, <1>4, PutKept
<1>6. QED
  BY <1>5 DEF t, r

\* INITIALIZE DEVICE PARAMETERS
LEMMA InitParamsKept ==
    ASSUME NEW b, NEW y, ChannelOK(b, y)
    PROVE  LET s == Cur(b)
               t == [ s EXCEPT !.spt = s.sectors % 64, !.heads = High(s.lba) + 1 ]
           IN  Kept(b, Irq(Put(b, t)), y)
<1> DEFINE s == Cur(b)
           m == s.sectors % 64
           h == High(s.lba) + 1
           t == [ s EXCEPT !.spt = m, !.heads = h ]
<1>1. s \in DriveState
  BY SelectedSlot DEF ChannelOK
<1>2. m \in Number /\ h \in Number
  <2>1. s.sectors \in Octet /\ High(s.lba) \in 0 .. 15
    BY <1>1, DriveTypes, LbaParts
  <2> HIDE DEF s
  <2>2. QED
    BY <2>1, SMT DEF Octet, Number
<1> HIDE DEF m, h
<1>3. t \in DriveState /\ SameTransfer(s, t)
  BY <1>1, <1>2, ZenonT(60) DEF DriveState, SameTransfer, SameDrive
<1> HIDE DEF t
<1>4. Kept(b, Irq(Put(b, t)), y)
  BY <1>3, RegistersKept
<1>5. QED
  BY <1>4 DEF t, m, h

\* READ SECTORS
LEMMA ReadKept ==
    ASSUME NEW b, NEW y, ChannelOK(b, y), Idle(b)
    PROVE  Kept(b, ReadSector(Put(b, Positioned(Cur(b)))), y)
<1> DEFINE s == Cur(b)
           t == Positioned(s)
           e == Put(b, t)
           d == ReadSector(e)
<1>1. b \in ChannelState /\ s \in DriveState
  BY SelectedSlot DEF ChannelOK
<1>2. /\ t \in DriveState /\ SameDrive(s, t) /\ t.xfer = s.xfer
      /\ t.cur = 0 /\ t.target > 0 /\ t.cdrom = s.cdrom /\ t.cdb = s.cdb
  BY <1>1, PositionedType
<1>3. s.xfer = "none"
  BY DEF Idle
<1>4. t.target \in Nat
  BY <1>2, DriveTypes
<1> HIDE DEF t
<1>5. Served(b, e) /\ Cur(e) = t
  BY <1>1, <1>2, PutType
<1> HIDE DEF e
<1>6. e \in ChannelState /\ Cur(e).cur < Cur(e).target
  BY <1>2, <1>4, <1>5 DEF Served
<1>7. Goes(e, d, y) /\ Quiet(t, Cur(d))
  BY <1>5, <1>6, ReadSectorType
<1> HIDE DEF d
<1>8. Goes(b, d, y)
  BY <1>2, <1>5, <1>7, GoesAgain
<1>9. Unheard(s, Cur(d))
  BY <1>2, <1>7 DEF Quiet, Unheard
<1>10. Kept(b, d, y)
  BY <1>8, <1>9, GoesKept
<1>11. QED
  BY <1>10 DEF d, e, t

\* WRITE SECTORS
LEMMA WriteKept ==
    ASSUME NEW b, NEW y, ChannelOK(b, y), Idle(b), Cur(b).type = "hdd"
    PROVE  Kept(b, Put(b, BeginWrite(Cur(b))), y)
<1> DEFINE s == Cur(b)
           t == BeginWrite(s)
<1>1. s \in DriveState
  BY SelectedSlot DEF ChannelOK
<1>2. /\ t \in DriveState /\ SameDrive(s, t)
      /\ t.xfer = "write" /\ Len(t.buf) = SectorBytes /\ t.pos = 0
      /\ t.cur = 0 /\ t.target > 0 /\ t.error = 0
      /\ t.cdrom = s.cdrom /\ t.cdb = s.cdb
  BY <1>1, BeginWriteType
<1>3. t.target \in Nat /\ SectorBytes \in Nat
  BY <1>2, AtaAssumption, DriveTypes
<1>4. s.type = "hdd" /\ s.override = "none"
  BY DEF Idle
<1> HIDE DEF t, s
<1>5. DriveOK(t, y) /\ Unheard(s, t)
  BY <1>2, <1>3, <1>4, CommandBytes, NoError
     DEF DriveOK, Positions, Sensed, Unheard, SameDrive
<1>6. t.type = s.type /\ t.override # "busy"
  BY <1>2, <1>4 DEF SameDrive
<1>7. Kept(b, Put(b, t), y)
  BY <1>5, <1>6, PutKept DEF s
<1>8. QED
  BY <1>7 DEF t, s

\* The codes of the commands differ.
LEMMA CodesDiffer ==
    /\ CmdIdentify # CmdIdentifyPkt /\ CmdIdentify # CmdPacket
    /\ CmdIdentify # CmdDiagnostic /\ CmdIdentify # CmdDeviceReset
    /\ CmdIdentify # CmdInitParams /\ CmdIdentify # CmdIdle
    /\ CmdIdentify # CmdRecalibrate /\ CmdIdentify # CmdRead
    /\ CmdIdentify # CmdWrite /\ CmdIdentifyPkt # CmdPacket
    /\ CmdIdentifyPkt # CmdDiagnostic /\ CmdIdentifyPkt # CmdDeviceReset
    /\ CmdIdentifyPkt # CmdInitParams /\ CmdIdentifyPkt # CmdIdle
    /\ CmdIdentifyPkt # CmdRecalibrate /\ CmdIdentifyPkt # CmdRead
    /\ CmdIdentifyPkt # CmdWrite /\ CmdPacket # CmdDiagnostic
    /\ CmdPacket # CmdDeviceReset /\ CmdPacket # CmdInitParams
    /\ CmdPacket # CmdIdle /\ CmdPacket # CmdRecalibrate /\ CmdPacket # CmdRead
    /\ CmdPacket # CmdWrite /\ CmdDiagnostic # CmdDeviceReset
    /\ CmdDiagnostic # CmdInitParams /\ CmdDiagnostic # CmdIdle
    /\ CmdDiagnostic # CmdRecalibrate /\ CmdDiagnostic # CmdRead
    /\ CmdDiagnostic # CmdWrite /\ CmdDeviceReset # CmdInitParams
    /\ CmdDeviceReset # CmdIdle /\ CmdDeviceReset # CmdRecalibrate
    /\ CmdDeviceReset # CmdRead /\ CmdDeviceReset # CmdWrite
    /\ CmdInitParams # CmdIdle /\ CmdInitParams # CmdRecalibrate
    /\ CmdInitParams # CmdRead /\ CmdInitParams # CmdWrite
    /\ CmdIdle # CmdRecalibrate /\ CmdIdle # CmdRead /\ CmdIdle # CmdWrite
    /\ CmdRecalibrate # CmdRead /\ CmdRecalibrate # CmdWrite
    /\ CmdRead # CmdWrite
  BY DEF CmdIdentify, CmdIdentifyPkt, CmdPacket, CmdDiagnostic, CmdDeviceReset,
     CmdInitParams, CmdIdle, CmdRecalibrate, CmdRead, CmdWrite

\* The whole switch: each of its branches keeps the channel in order.
LEMMA DispatchType ==
    ASSUME NEW b, NEW y, ChannelOK(b, y), Idle(b), NEW v
    PROVE  Kept(b, Dispatch(b, v), y)
<1> DEFINE s == Cur(b)
           d == Dispatch(b, v)
           p == PioIn(s, IdentifyBytes)
           hdd == s.type = "hdd"
           cd == s.type = "cdrom"
<1>1. b \in ChannelState /\ s \in DriveState /\ DriveOK(s, y)
  <2>1. b \in ChannelState
    BY DEF ChannelOK
  <2>2. QED
    BY <2>1, SelectedSlot DEF ChannelOK
<1>2. s.override = "none"
  BY DEF Idle
<1>3. 0 \in Number /\ 1 \in Number /\ 1 <= 1
  BY Values
<1>4. s.cur \in Number /\ s.target \in Number
  BY <1>1 DEF DriveState
<1>5. CASE v = CmdIdentify /\ hdd
  <2> DEFINE u == Identified(s)
  <2>1. d = Irq(Put(b, u))
    BY <1>5, CodesDiffer, DispatchIs
  <2>2. DriveOK(u, y) /\ Unheard(s, u) /\ SameDrive(s, u)
    BY <1>1, <1>3, IdentifyOK DEF Identified
  <2> HIDE DEF u
  <2>3. QED
    BY <1>2, <2>1, <2>2, PutKept DEF SameDrive
<1>6. CASE v = CmdIdentify /\ cd
  <2>1. d = Delayed(b)
    BY <1>6, CodesDiffer, DispatchIs
  <2>2. QED
    BY <2>1, BusyKept, ZenonT(60) DEF Delayed
<1>7. CASE v = CmdIdentifyPkt /\ cd
  <2>1. d = Irq(Put(b, p))
    BY <1>7, CodesDiffer, DispatchIs
  <2>2. DriveOK(p, y) /\ Unheard(s, p) /\ SameDrive(s, p)
    BY <1>1, <1>3, IdentifyOK
  <2> HIDE DEF p
  <2>3. QED
    BY <1>2, <2>1, <2>2, PutKept DEF SameDrive
<1>8. CASE v = CmdPacket /\ cd /\ s.dma = 0
  <2>1. d = Put(b, BeginPacket(s))
    BY <1>8, CodesDiffer, DispatchIs
  <2>2. QED
    BY <2>1, PacketKept
<1>9. CASE v = CmdDiagnostic
  <2>1. d = BeginReset(b)
    BY <1>9, CodesDiffer, DispatchIs
  <2>2. QED
    BY <2>1, BeginResetType
<1>10. CASE v = CmdDeviceReset /\ cd
  <2>1. d = Irq(Put(b, DeviceReset(s)))
    BY <1>10, CodesDiffer, DispatchIs
  <2>2. QED
    BY <2>1, DeviceResetKept DEF DeviceReset
<1>11. CASE v = CmdInitParams /\ hdd
  <2>1. d = Irq(Put(b, InitParams(s)))
    BY <1>11, CodesDiffer, DispatchIs
  <2>2. QED
    BY <2>1, InitParamsKept DEF InitParams
<1>12. CASE (v = CmdIdle /\ s.type # "none") \/ (v = CmdRecalibrate /\ hdd)
  <2>1. d = Irq(b)
    BY <1>12, CodesDiffer, DispatchIs
  <2>2. Served(b, Irq(b)) /\ Cur(Irq(b)) = s
    BY <1>1, IrqType
  <2>3. QED
    BY <1>1, <2>1, <2>2, UnheardSelf, ServedKept DEF SameDrive
<1>13. CASE v = CmdRead /\ hdd
  <2>1. d = ReadSector(Put(b, Positioned(s)))
    BY <1>13, CodesDiffer, DispatchIs
  <2>2. QED
    BY <2>1, ReadKept
<1>14. CASE v = CmdWrite /\ hdd
  <2>1. d = Put(b, BeginWrite(s))
    BY <1>14, CodesDiffer, DispatchIs
  <2>2. QED
    BY <1>14, <2>1, WriteKept
<1>15. CASE /\ ~(v = CmdIdentify /\ hdd) /\ ~(v = CmdIdentify /\ cd)
            /\ ~(v = CmdIdentifyPkt /\ cd) /\ ~(v = CmdPacket /\ cd /\ s.dma = 0)
            /\ ~(v = CmdDiagnostic) /\ ~(v = CmdDeviceReset /\ cd)
            /\ ~(v = CmdInitParams /\ hdd) /\ ~(v = CmdIdle /\ s.type # "none")
            /\ ~(v = CmdRecalibrate /\ hdd) /\ ~(v = CmdRead /\ hdd)
            /\ ~(v = CmdWrite /\ hdd)
  <2>1. d = Abort(b, b.select + 1, 0)
    BY <1>15, CodesDiffer, DispatchIs
  <2>2. 0 \in Key /\ (0 # 0 => s.cdrom.sense = 0) /\ s.cur <= s.target
    BY <1>1, NoError DEF DriveOK, Positions
  <2>3. Goes(b, d, y) /\ Quiet(s, Cur(d))
    BY <1>1, <2>1, <2>2, AbortType
  <2>4. QED
    BY <2>3, GoesKept DEF Quiet
<1>16. QED
  BY <1>5, <1>6, <1>7, <1>8, <1>9, <1>10, <1>11, <1>12, <1>13, <1>14, <1>15

\* A command ends what its drive did, and a stray read with it: z says
\* whether the other drive may still have to do with one.
LEMMA CommandGiven ==
    ASSUME NEW b, NEW y \in BOOLEAN, ChannelOK(b, y), NEW v \in Octet
    PROVE  Kept(b, Command(b, v), y /\ b.select + 1 # Hdd)
<1> DEFINE s == Cur(b)
           r == ClearTransfer(s)
           t == [ r EXCEPT !.error = 0, !.override = "none", !.command = v ]
           e == Put(b, t)
           k == b.select + 1
           z == y /\ k # Hdd
           d == Command(b, v)
<1>1. d = Dispatch(e, v)
  BY DEF Command
<1>2. b \in ChannelState
  BY DEF ChannelOK
<1>3. /\ k \in Slots /\ s = b.slot[k] /\ s \in DriveState
  BY <1>2, SelectedSlot
<1>4. DriveOK(s, y)
  BY <1>3 DEF ChannelOK
<1>5. /\ r \in DriveState /\ SameDrive(s, r) /\ DriveOK(r, z) /\ Unheard(s, r)
      /\ r.xfer = "none"
  BY <1>3, <1>4, ClearType, ClearOK DEF DriveOK, Positions, Quiet
<1> HIDE DEF r, s
<1>6. 0 \in Octet /\ "none" \in Override
  BY Values
<1>7. /\ t \in DriveState /\ t.type = r.type /\ t.override = "none"
      /\ t.xfer = r.xfer /\ t.buf = r.buf /\ t.pos = r.pos
      /\ t.cur = r.cur /\ t.target = r.target /\ t.error = 0
      /\ t.cdrom = r.cdrom /\ t.cdb = r.cdb
  BY <1>5, <1>6, ZenonT(60) DEF DriveState
<1> HIDE DEF t
<1>8. DriveOK(t, z) /\ Unheard(s, t) /\ t.type = s.type
  BY <1>5, <1>7, NoError
     DEF DriveOK, Positions, Sensed, Unheard, SameDrive
<1>9. Served(b, e) /\ Cur(e) = t
  BY <1>2, <1>7, PutType
<1> HIDE DEF e
<1>10. /\ e \in ChannelState /\ e.slot[k] = t /\ Scalars(b, e) /\ Asked(b, e)
       /\ \A i \in Slots : i # k => e.slot[i] = b.slot[i]
  BY <1>9 DEF Served, Scalars, Cur
<1> HIDE DEF k
<1>11. ASSUME NEW i \in Slots
       PROVE  DriveOK(e.slot[i], z) /\ e.slot[i].type = b.slot[i].type
  <2>1. CASE i = k
    BY <1>3, <1>8, <1>10, <2>1
  <2>2. CASE i # k
    <3>1. e.slot[i] = b.slot[i] /\ DriveOK(b.slot[i], y)
      BY <1>10, <2>2 DEF ChannelOK
    <3>2. CASE k # Hdd
      BY <3>1, <3>2 DEF z
    <3>3. CASE k = Hdd
      <4>1. b.slot[i].type = "cdrom"
        BY <1>3, <2>2, <3>3 DEF ChannelOK, Kinds, Slots, Hdd, Cd
      <4>2. DriveOK(b.slot[i], z)
        BY <3>1, <4>1 DEF DriveOK, Positions
      <4>3. QED
        BY <3>1, <4>2
    <3>4. QED
      BY <3>2, <3>3
  <2>3. QED
    BY <2>1, <2>2
<1> HIDE DEF z
<1>12. Kinds(e)
  <2>1. Hdd \in Slots /\ Cd \in Slots
    BY DEF Hdd, Cd, Slots
  <2>2. QED
    BY <1>11, <2>1 DEF Kinds, ChannelOK
<1>13. Busy(e)
  BY <1>7, <1>10 DEF ChannelOK, Busy, Scalars
<1>14. Calm(e) /\ Known(b, e)
  BY <1>10 DEF ChannelOK, Calm, Known, Scalars, Asked
<1>15. Still(b, e)
  BY <1>3, <1>8, <1>10, UnheardSelf DEF Still
<1>16. Kept(b, e, z)
  BY <1>10, <1>11, <1>12, <1>13, <1>14, <1>15 DEF Kept, ChannelOK
<1>17. Idle(e)
  BY <1>5, <1>7, <1>9 DEF Idle
<1>18. Kept(e, d, z)
  BY <1>1, <1>16, <1>17, DispatchType DEF Kept
<1>19. QED
  BY <1>16, <1>18, KeptAgain DEF z, d, k

-----------------------------------------------------------------------------
(* The host                                                                *)

\* ata_prepare_cdrom_media_change
LEMMA PreparedKept ==
    ASSUME NEW b, NEW y, ChannelOK(b, y), NEW i \in Slots
    PROVE  LET d == Prepared(b, i)
           IN  Kept(b, d, y) /\ d.slot[i].xfer = "none" /\ d.slot[i].error = 0
<1> DEFINE s == b.slot[i]
           r == ClearTransfer(s)
           p == Repeat(0, CdbBytes)
           t == [ r EXCEPT !.error = 0, !.override = "none", !.abortDue = 0,
                           !.command = 0, !.cdb = p ]
           e == [ b EXCEPT !.slot[i] = t ]
           d == LowerIrq(e)
<1>1. b \in ChannelState /\ DriveOK(s, y)
  BY DEF ChannelOK
<1>2. /\ r \in DriveState /\ SameDrive(s, r) /\ DriveOK(r, y) /\ Unheard(s, r)
      /\ r.xfer = "none"
  BY <1>1, ClearType, ClearOK DEF DriveOK, Positions, Quiet
<1>3. Prepared(b, i) = d
  BY DEF Prepared
<1> HIDE DEF r, s
<1>4. 0 \in Octet /\ 0 \in Flag /\ "none" \in Override /\ p \in Packet
  BY Values, NoPacket
<1> HIDE DEF p
<1>5. /\ t \in DriveState /\ t.type = r.type /\ t.override = "none"
      /\ t.xfer = r.xfer /\ t.buf = r.buf /\ t.pos = r.pos
      /\ t.cur = r.cur /\ t.target = r.target /\ t.error = 0
      /\ t.cdrom = r.cdrom
  BY <1>2, <1>4, ZenonT(60) DEF DriveState
<1> HIDE DEF t
<1>6. DriveOK(t, y) /\ Unheard(s, t) /\ t.type = s.type
  BY <1>2, <1>5, NoError
     DEF DriveOK, Positions, Sensed, Unheard, SameDrive
<1>7. /\ e \in ChannelState /\ e.slot[i] = t /\ Scalars(b, e)
      /\ e.pending = b.pending /\ e.irr = b.irr
      /\ \A j \in Slots : j # i => e.slot[j] = b.slot[j]
  BY <1>1, <1>5, SlotPut
<1> HIDE DEF e
<1>8. \A j \in Slots : /\ DriveOK(e.slot[j], y)
                       /\ e.slot[j].type = b.slot[j].type
                       /\ Unheard(b.slot[j], e.slot[j])
  BY <1>6, <1>7, UnheardSelf DEF ChannelOK, s
<1>9. Kinds(e)
  BY <1>8 DEF Kinds, ChannelOK, Slots, Hdd, Cd
<1>10. Busy(e) /\ Calm(e)
  BY <1>5, <1>7 DEF ChannelOK, Busy, Calm, Scalars
<1>11. Kept(b, e, y)
  BY <1>7, <1>8, <1>9, <1>10 DEF Kept, ChannelOK, Known, Still
<1>12. Kept(e, d, y) /\ d.slot = e.slot
  BY <1>11, LowerKept, LowerType DEF Kept, ChannelOK
<1>13. QED
  BY <1>2, <1>3, <1>5, <1>7, <1>11, <1>12, KeptAgain

\* A drive whose transfer has ended and whose error is gone may get a disc.
LEMMA DiscKept ==
    ASSUME NEW b, NEW y, ChannelOK(b, y), NEW i \in Slots,
           b.slot[i].xfer = "none", b.slot[i].error = 0, NEW cd \in CdromState
    PROVE  LET d == [ b EXCEPT !.slot[i].cdrom = cd ]
           IN  /\ ChannelOK(d, y) /\ Known(b, d)
               /\ d.slot[i].cdrom = cd /\ d.slot[i].xfer = "none"
<1> DEFINE s == b.slot[i]
           t == [ s EXCEPT !.cdrom = cd ]
           d == [ b EXCEPT !.slot[i] = t ]
<1>1. b \in ChannelState /\ DriveOK(s, y) /\ s \in DriveState
  BY DEF ChannelOK, DriveOK
<1>2. [ b EXCEPT !.slot[i].cdrom = cd ] = d
  BY <1>1 DEF ChannelState
<1> HIDE DEF s
<1>3. /\ t \in DriveState /\ t.type = s.type /\ t.override = s.override
      /\ t.abortDue = s.abortDue
      /\ t.xfer = s.xfer /\ t.buf = s.buf /\ t.pos = s.pos
      /\ t.chunk = s.chunk /\ t.chunkPos = s.chunkPos
      /\ t.cur = s.cur /\ t.target = s.target /\ t.error = s.error
      /\ t.cdrom = cd
  BY <1>1, ZenonT(60) DEF DriveState
<1> HIDE DEF t
<1>4. DriveOK(t, y)
  BY <1>1, <1>3, NoError DEF DriveOK, Positions, Sensed, s
<1>5. /\ d \in ChannelState /\ d.slot[i] = t /\ Scalars(b, d)
      /\ d.pending = b.pending /\ d.irr = b.irr
      /\ \A j \in Slots : j # i => d.slot[j] = b.slot[j]
  BY <1>1, <1>3, SlotPut
<1> HIDE DEF d
<1>6. \A j \in Slots : /\ DriveOK(d.slot[j], y)
                       /\ d.slot[j].type = b.slot[j].type
                       /\ d.slot[j].override = b.slot[j].override
                       /\ d.slot[j].abortDue = b.slot[j].abortDue
  BY <1>3, <1>4, <1>5 DEF ChannelOK, s
<1>7. Kinds(d)
  BY <1>6 DEF Kinds, ChannelOK, Slots, Hdd, Cd
<1>8. Busy(d) /\ Calm(d) /\ Known(b, d)
  BY <1>5, <1>6 DEF ChannelOK, Busy, Calm, Scalars, Known
<1>9. QED
  BY <1>2, <1>3, <1>5, <1>6, <1>7, <1>8 DEF ChannelOK, s

\* ata_change_cdrom: the disc stays, or the drive owes the new one.
LEMMA ChangeDiscType ==
    ASSUME NEW b, NEW y, ChannelOK(b, y), NEW i \in Slots,
           NEW disc \in Discs \cup {NoDisc}, NEW opened \in BOOLEAN
    PROVE  LET d == ChangeDisc(b, i, disc, opened)
           IN  /\ ChannelOK(d, y) /\ Known(b, d)
               /\ \/ ~opened /\ Still(b, d)
                  \/ opened /\ Told(d.slot[i], FALSE)
<1> DEFINE p == Prepared(b, i)
           cd == CdAttach(p.slot[i].cdrom, disc)
           a == [ p EXCEPT !.slot[i].cdrom = cd ]
<1>1. Kept(b, p, y) /\ p.slot[i].xfer = "none" /\ p.slot[i].error = 0
  BY PreparedKept
<1>2. ChangeDisc(b, i, disc, opened) = IF opened THEN a ELSE p
  BY DEF ChangeDisc
<1> HIDE DEF p
<1>3. CASE ~opened
  BY <1>1, <1>2, <1>3 DEF Kept
<1>4. CASE opened
  <2>1. p.slot[i].cdrom \in CdromState
    BY <1>1, DriveTypes DEF Kept, ChannelOK, DriveOK
  <2>2. cd \in CdromState /\ cd.ua = 1
    BY <2>1, DiscTypes
  <2> HIDE DEF cd
  <2>3. ChannelOK(p, y)
    BY <1>1 DEF Kept
  <2>4. /\ ChannelOK(a, y) /\ Known(p, a)
        /\ a.slot[i].cdrom = cd /\ a.slot[i].xfer = "none"
    <3>1. \A x \in CdromState :
             LET e == [ p EXCEPT !.slot[i].cdrom = x ]
             IN  /\ ChannelOK(e, y) /\ Known(p, e)
                 /\ e.slot[i].cdrom = x /\ e.slot[i].xfer = "none"
      BY <1>1, <2>3, DiscKept
    <3>2. QED
      BY <2>2, <3>1
  <2>5. Known(b, a)
    BY <1>1, <2>4 DEF Kept, Known
  <2>6. Told(a.slot[i], FALSE)
    BY <2>2, <2>4 DEF Told, Owed
  <2>7. QED
    BY <1>2, <1>4, <2>4, <2>5, <2>6
<1>5. QED
  BY <1>3, <1>4

\* ata_eject_cdrom
LEMMA EjectDiscType ==
    ASSUME NEW b, NEW y, ChannelOK(b, y), NEW i \in Slots
    PROVE  LET d == EjectDisc(b, i)
           IN  ChannelOK(d, y) /\ Known(b, d) /\ Told(d.slot[i], FALSE)
<1> DEFINE p == Prepared(b, i)
           cd == CdEject(p.slot[i].cdrom)
           a == [ p EXCEPT !.slot[i].cdrom = cd ]
<1>1. Kept(b, p, y) /\ p.slot[i].xfer = "none" /\ p.slot[i].error = 0
  BY PreparedKept
<1>2. EjectDisc(b, i) = a
  BY DEF EjectDisc
<1> HIDE DEF p
<1>3. p.slot[i].cdrom \in CdromState /\ NoDisc \in Discs \cup {NoDisc}
  BY <1>1, DriveTypes DEF Kept, ChannelOK, DriveOK
<1>4. cd \in CdromState /\ cd.ua = 1
  BY <1>3, DiscTypes
<1> HIDE DEF cd
<1>5. /\ ChannelOK(a, y) /\ Known(p, a)
      /\ a.slot[i].cdrom = cd /\ a.slot[i].xfer = "none"
  <2>1. ChannelOK(p, y)
    BY <1>1 DEF Kept
  <2>2. \A x \in CdromState :
           LET e == [ p EXCEPT !.slot[i].cdrom = x ]
           IN  /\ ChannelOK(e, y) /\ Known(p, e)
               /\ e.slot[i].cdrom = x /\ e.slot[i].xfer = "none"
    BY <1>1, <2>1, DiscKept, ZenonT(60)
  <2>3. QED
    BY <1>4, <2>2
<1>6. Known(b, a)
  BY <1>1, <1>5 DEF Kept, Known
<1>7. Told(a.slot[i], FALSE)
  BY <1>4, <1>5 DEF Told, Owed
<1>8. QED
  BY <1>2, <1>5, <1>6, <1>7

-----------------------------------------------------------------------------
(* The invariant                                                           *)

\* The channel is in good order, what it asked and forgot is from before a
\* warm reset, and the drive still owes the guest the disc that it has not
\* been told of.
IInv ==
    /\ guest \in Guests
    /\ told \in BOOLEAN /\ stray \in BOOLEAN /\ orphan \in BOOLEAN
    /\ ChannelOK(c, stray)
    /\ c.irr = 1 => c.pending = 1 \/ orphan
    /\ Told(c.slot[Cd], told)

\* A drive before its first reset
LEMMA AttachedOK ==
    ASSUME NEW type \in Kind, NEW n \in Nat, NEW disc \in Discs \cup {NoDisc},
           NEW y
    PROVE  LET t == AttachedDrive(type, n, disc)
           IN  /\ DriveOK(t, y) /\ t.type = type /\ t.override = "none"
               /\ t.xfer = "none" /\ Owed(t.cdrom, FALSE)
<1> DEFINE p == Repeat(0, CdbBytes)
           cd == CdAtStart(disc)
           s == [ type |-> type, xfer |-> "none", buf |-> <<>>, pos |-> 0,
                  chunk |-> 0, chunkPos |-> 0, limit |-> 0,
                  override |-> "none", abortDue |-> 0, error |-> 0,
                  command |-> 0, lbamode |-> 0, cur |-> 0, target |-> 0,
                  sect |-> 1, head |-> 0, cyl |-> 0, dma |-> 0, lba |-> 0,
                  sectors |-> 1, cdb |-> p, spt |-> 63, heads |-> 16,
                  size |-> n, disk |-> <<>>, cdrom |-> cd ]
<1>1. AttachedDrive(type, n, disc) = ResetDrive(s)
  BY DEF AttachedDrive
<1>2. cd \in CdromState /\ cd.ua = 1
  BY DEF CdAtStart, CdromState
<1>3. <<>> \in Written
  <2>1. <<>> \in [{} -> Sector]
    OBVIOUS
  <2>2. {} \in SUBSET Nat
    OBVIOUS
  <2>3. QED
    BY <2>1, <2>2 DEF Written
<1>4. 63 \in Number /\ 16 \in Number /\ n \in Number
  BY SMT DEF Number
<1>5. p \in Packet /\ 0 \in Lba
  BY NoPacket, LbaFits
<1> HIDE DEF p, cd
<1>6. s \in DriveState
  BY <1>2, <1>3, <1>4, <1>5, Values, ZenonT(60) DEF DriveState
<1>7. s.type = type /\ s.cdrom = cd
  OBVIOUS
<1> HIDE DEF s
<1>8. LET t == ResetDrive(s)
      IN  /\ DriveOK(t, y) /\ t.type = s.type /\ t.override = "none"
          /\ t.xfer = "none" /\ Unheard(s, t)
  BY <1>6, ResetOK
<1>9. QED
  BY <1>1, <1>2, <1>7, <1>8 DEF Unheard, Owed

\* Two drives in good order make a channel in good order.
LEMMA StartOK ==
    ASSUME NEW m, NEW s, NEW y, DriveOK(m, y), DriveOK(s, y),
           m.type = "hdd", s.type = "cdrom",
           m.override = "none", s.override = "none"
    PROVE  LET b == ChannelAtStart(m, s)
           IN  ChannelOK(b, y) /\ b.irr = 0 /\ b.slot[Cd] = s
<1> DEFINE f == << m, s >>
           b == [ select |-> 0, inreset |-> 0, srst |-> 0, intOn |-> 1,
                  pending |-> 0, irr |-> 0, resetTimer |-> 0,
                  cmdTimer |-> 0, slot |-> f ]
<1>1. ChannelAtStart(m, s) = b
  BY DEF ChannelAtStart
<1>2. m \in DriveState /\ s \in DriveState
  BY DEF DriveOK
<1>3. f \in [Slots -> DriveState] /\ f[1] = m /\ f[2] = s
  BY <1>2 DEF Slots
<1> HIDE DEF f
<1>4. b \in ChannelState
  BY <1>3, Values, ZenonT(60) DEF ChannelState
<1>5. /\ b.slot = f /\ b.inreset = 0 /\ b.pending = 0 /\ b.irr = 0
  OBVIOUS
<1> HIDE DEF b
<1>6. \A i \in Slots : i = 1 \/ i = 2
  BY DEF Slots
<1>7. Kinds(b) /\ Busy(b) /\ Calm(b) /\ \A i \in Slots : DriveOK(b.slot[i], y)
  BY <1>3, <1>5, <1>6 DEF Kinds, Busy, Calm, Hdd, Cd
<1>8. QED
  BY <1>1, <1>3, <1>4, <1>5, <1>7 DEF ChannelOK, Cd

\* The channel starts in the invariant.
LEMMA InitInv ==
    ASSUME Init
    PROVE  IInv
<1> DEFINE m == AttachedDrive("hdd", DiskSectors, NoDisc)
           s == AttachedDrive("cdrom", 0, FirstDisc)
           b == ChannelAtStart(m, s)
<1>1. guest \in Guests /\ c = b /\ told = FALSE /\ stray = FALSE /\ orphan = FALSE
  BY DEF Init
<1>2. /\ DiskSectors \in Nat /\ 0 \in Nat /\ "hdd" \in Kind /\ "cdrom" \in Kind
      /\ FirstDisc \in Discs \cup {NoDisc} /\ NoDisc \in Discs \cup {NoDisc}
  BY PortsAssumption DEF Kind
<1>3. /\ DriveOK(m, FALSE) /\ m.type = "hdd" /\ m.override = "none"
      /\ m.xfer = "none" /\ Owed(m.cdrom, FALSE)
  BY <1>2, AttachedOK
<1>4. /\ DriveOK(s, FALSE) /\ s.type = "cdrom" /\ s.override = "none"
      /\ s.xfer = "none" /\ Owed(s.cdrom, FALSE)
  BY <1>2, AttachedOK
<1> HIDE DEF m, s
<1>5. ChannelOK(b, FALSE) /\ b.irr = 0 /\ b.slot[Cd] = s
  BY <1>3, <1>4, StartOK
<1> HIDE DEF b
<1>6. ChannelOK(c, stray)
  BY <1>1, <1>5, Zenon
<1>7. Told(c.slot[Cd], told)
  BY <1>1, <1>4, <1>5, ZenonT(60) DEF Told
<1>8. told \in BOOLEAN /\ stray \in BOOLEAN /\ orphan \in BOOLEAN
  BY <1>1
<1>9. c.irr = 1 => c.pending = 1 \/ orphan
  BY <1>1, <1>5
<1>10. QED
  BY <1>1, <1>6, <1>7, <1>8, <1>9, ZenonT(60) DEF IInv

\* A step that says nothing of the disc leaves the guest as informed as it was.
LEMMA StillTold ==
    ASSUME NEW b, NEW d, NEW k, Still(b, d), Told(b.slot[Cd], k)
    PROVE  Told(d.slot[Cd], k)
<1>1. Unheard(b.slot[Cd], d.slot[Cd])
  BY DEF Still, Slots, Cd
<1>2. QED
  BY <1>1 DEF Told, Owed, Unheard

\* Once it is told, the guest need not be told again.
LEMMA ToldStays ==
    ASSUME NEW s, NEW j \in BOOLEAN, NEW k \in BOOLEAN, Told(s, j), j => k
    PROVE  Told(s, k)
  BY DEF Told, Owed

\* What a step of the channel has to show
LEMMA StepInv ==
    ASSUME IInv, NEW d, Become(d), guest' = guest, told' \in BOOLEAN,
           stray' \in BOOLEAN, ChannelOK(d, stray'), Known(c, d),
           Told(d.slot[Cd], told')
    PROVE  IInv'
<1>1. c' = d /\ orphan' = (orphan /\ d.irr = 1 /\ d.pending = 0)
  BY DEF Become
<1>2. guest' \in Guests /\ orphan' \in BOOLEAN
  BY <1>1 DEF IInv
<1>3. d.irr = 1 => d.pending = 1 \/ orphan'
  <2>1. d.pending \in Flag
    BY DEF ChannelOK, ChannelState
  <2>2. d.irr = 1 /\ d.pending = 0 => orphan
    BY DEF Known, IInv
  <2>3. QED
    BY <1>1, <2>1, <2>2 DEF Flag
<1>4. QED
  BY <1>1, <1>2, <1>3 DEF IInv

\* A step that says nothing of the disc
LEMMA KeptInv ==
    ASSUME IInv, NEW d, Become(d), guest' = guest, told' = told,
           stray' \in BOOLEAN, Kept(c, d, stray')
    PROVE  IInv'
<1>1. told' \in BOOLEAN
  BY DEF IInv
<1>2. Told(d.slot[Cd], told)
  BY StillTold DEF IInv, Kept
<1>3. Told(d.slot[Cd], told')
  BY <1>2
<1>4. QED
  BY <1>1, <1>3, StepInv DEF Kept

\* Each step of the guest, the timers and the host keeps the invariant.
LEMMA ReadDataInv ==
    ASSUME IInv, ReadData
    PROVE  IInv'
<1>1. PICK d \in {ReadByte(c), ReadWord(c)} : Become(d)
  BY DEF ReadData
<1>2. /\ stray' = (stray \/ Cur(c).xfer = "write")
      /\ guest' = guest /\ told' = told
  BY DEF ReadData
<1>3. ChannelOK(c, stray) /\ stray \in BOOLEAN
  BY DEF IInv
<1>4. c \in ChannelState /\ DriveOK(Cur(c), stray)
  BY <1>3, SelectedSlot DEF ChannelOK
<1> DEFINE z == stray \/ Cur(c).xfer = "write"
<1>5. Goes(c, d, z) /\ Quiet(Cur(c), Cur(d))
  BY <1>4, ReadByteType, ReadWordType
<1>6. Kept(c, d, z)
  BY <1>3, <1>5, GoesKept DEF Quiet
<1>7. stray' = z /\ z \in BOOLEAN
  BY <1>2, <1>3
<1> HIDE DEF z
<1>8. Kept(c, d, stray')
  BY <1>6, <1>7
<1>9. QED
  BY <1>1, <1>2, <1>7, <1>8, KeptInv

LEMMA WriteDataInv ==
    ASSUME IInv, WriteData
    PROVE  IInv'
<1>1. PICK w \in guest.words, hostOk \in BOOLEAN :
         Become(WriteWord(c, w, hostOk))
  BY DEF WriteData
<1> DEFINE s == Cur(c)
           d == WriteWord(c, w, hostOk)
<1>2. c' = d /\ guest' = guest /\ stray' = stray
  BY <1>1 DEF WriteData, Become
<1>3. told' = /\ d.slot[Cd].cdrom.media = c.slot[Cd].cdrom.media
              /\ told \/ (s.xfer = "packet" /\ Announces(d.slot[Cd]))
  BY <1>2 DEF WriteData
<1>4. /\ ChannelOK(c, stray) /\ stray \in BOOLEAN /\ told \in BOOLEAN
      /\ Told(c.slot[Cd], told)
  BY DEF IInv
<1>5. c \in ChannelState /\ DriveOK(s, stray)
  BY <1>4, SelectedSlot DEF ChannelOK
<1>6. w \in (0 .. 255) \X (0 .. 255)
  BY PortsAssumption DEF IInv
<1>7. /\ Goes(c, d, stray)
      /\ Quiet(s, Cur(d)) \/ (s.xfer = "packet" /\ Executed(s, Cur(d)))
  BY <1>5, <1>6, WriteWordType
<1>8. Become(d)
  BY <1>1
<1> HIDE DEF d, s
<1>9. ChannelOK(d, stray) /\ Known(c, d)
  BY <1>4, <1>7, ServedOK DEF Goes, SameDrive, s
<1>10. told' \in BOOLEAN
  <2>1. Announces(d.slot[Cd]) \in BOOLEAN
    BY DEF Announces
  <2>2. QED
    BY <1>3, <1>4, <2>1
<1>11. Told(d.slot[Cd], told')
  <2> DEFINE k == c.select + 1
  <2>1. /\ k \in Slots /\ s = c.slot[k] /\ Cur(d) = d.slot[k]
    BY <1>5, <1>7, SelectedSlot DEF s, Cur, Goes, Served, Scalars
  <2>2. \A i \in Slots : i # k => d.slot[i] = c.slot[i]
    BY <1>7 DEF Goes, Served
  <2> HIDE DEF k
  <2>3. CASE k # Cd
    <3>1. d.slot[Cd] = c.slot[Cd]
      BY <2>2, <2>3 DEF Cd, Slots
    <3>2. told => told'
      BY <1>3, <3>1
    <3>3. QED
      BY <1>4, <1>10, <3>1, <3>2, ToldStays
  <2>4. CASE k = Cd /\ Quiet(s, Cur(d))
    <3>1. Unheard(c.slot[Cd], d.slot[Cd])
      BY <2>1, <2>4 DEF Quiet
    <3>2. Told(d.slot[Cd], told)
      BY <1>4, <3>1 DEF Told, Owed, Unheard
    <3>3. told => told'
      BY <1>3, <3>1 DEF Unheard
    <3>4. QED
      BY <1>4, <1>10, <3>2, <3>3, ToldStays
  <2>5. CASE k = Cd /\ s.xfer = "packet" /\ Executed(s, Cur(d))
    <3> DEFINE t == d.slot[Cd]
               m == t.cdrom.media = c.slot[Cd].cdrom.media
               j == m /\ (told \/ Announces(t))
    <3>1. Owed(c.slot[Cd].cdrom, told)
      BY <1>4 DEF Told
    <3>2. Told(t, j)
      BY <1>4, <2>1, <2>5, <3>1 DEF Executed
    <3>3. told' = j
      BY <1>3, <2>5
    <3>4. QED
      BY <3>2, <3>3
  <2>6. QED
    BY <1>7, <2>3, <2>4, <2>5
<1>12. QED
  BY <1>2, <1>4, <1>8, <1>9, <1>10, <1>11, StepInv

LEMMA SetUpInv ==
    ASSUME IInv, SetUp
    PROVE  IInv'
<1>1. PICK drive \in {0, 1}, t \in guest.files :
         LET d == WriteDrive(c, drive, t.lbamode, 0)
         IN  Become(WriteFeatures(WriteTaskFile(d, t.sectors, t.lba), t.dma))
  BY DEF SetUp
<1> DEFINE a == WriteDrive(c, drive, t.lbamode, 0)
           b == WriteTaskFile(a, t.sectors, t.lba)
           d == WriteFeatures(b, t.dma)
<1>2. guest' = guest /\ told' = told /\ stray' = stray
  BY DEF SetUp
<1>3. ChannelOK(c, stray) /\ stray \in BOOLEAN
  BY DEF IInv
<1>4. /\ t.sectors \in Octet /\ t.lba \in Nat /\ t.lbamode \in Flag
      /\ t.dma \in Flag /\ drive \in Flag
  <2>1. t \in [ sectors : 0 .. 255, lba : Nat, lbamode : Flag, dma : Flag ]
    BY PortsAssumption DEF IInv
  <2>2. QED
    BY <2>1 DEF Octet, Flag
<1>5. Kept(c, a, stray)
  BY <1>3, <1>4, WriteDriveType
<1>6. Become(d)
  BY <1>1
<1> HIDE DEF a
<1>7. Kept(a, b, stray)
  BY <1>4, <1>5, WriteTaskFileType DEF Kept
<1> HIDE DEF b
<1>8. Kept(b, d, stray)
  BY <1>4, <1>7, WriteFeaturesType DEF Kept
<1> HIDE DEF d
<1>9. Kept(c, d, stray)
  BY <1>5, <1>7, <1>8, KeptAgain
<1>10. Kept(c, d, stray')
  BY <1>2, <1>9
<1>11. QED
  BY <1>2, <1>3, <1>6, <1>10, KeptInv

LEMMA GiveCommandInv ==
    ASSUME IInv, GiveCommand
    PROVE  IInv'
<1>1. PICK v \in guest.commands : Become(Command(c, v))
  BY DEF GiveCommand
<1> DEFINE d == Command(c, v)
           z == stray /\ c.select + 1 # Hdd
<1>2. guest' = guest /\ told' = told /\ stray' = z
  BY DEF GiveCommand
<1>3. ChannelOK(c, stray) /\ stray \in BOOLEAN
  BY DEF IInv
<1>4. v \in Octet
  BY PortsAssumption DEF IInv, Octet
<1>5. Kept(c, d, z)
  BY <1>3, <1>4, CommandGiven
<1>6. z \in BOOLEAN
  BY <1>3
<1> HIDE DEF z
<1>7. Kept(c, d, stray')
  BY <1>2, <1>5
<1>8. QED
  BY <1>1, <1>2, <1>6, <1>7, KeptInv

LEMMA ControlInv ==
    ASSUME IInv, Control
    PROVE  IInv'
<1>1. PICK srst \in {0, 1}, nien \in {0, 1} : Become(WriteControl(c, srst, nien))
  BY DEF Control
<1>2. guest' = guest /\ told' = told /\ stray' = stray
  BY DEF Control
<1>3. ChannelOK(c, stray) /\ stray \in BOOLEAN
  BY DEF IInv
<1>4. Kept(c, WriteControl(c, srst, nien), stray)
  BY <1>3, WriteControlType DEF Flag
<1>5. Kept(c, WriteControl(c, srst, nien), stray')
  BY <1>2, <1>4
<1>6. QED
  BY <1>1, <1>2, <1>3, <1>5, KeptInv

LEMMA StatusReadInv ==
    ASSUME IInv, StatusRead
    PROVE  IInv'
<1>1. /\ Become(LowerIrq(c)) /\ guest' = guest /\ told' = told /\ stray' = stray
  BY DEF StatusRead, ReadStatus
<1>2. ChannelOK(c, stray) /\ stray \in BOOLEAN
  BY DEF IInv
<1>3. Kept(c, LowerIrq(c), stray)
  BY <1>2, LowerKept
<1>4. Kept(c, LowerIrq(c), stray')
  BY <1>1, <1>3
<1>5. QED
  BY <1>1, <1>2, <1>4, KeptInv

LEMMA AcknowledgeInv ==
    ASSUME IInv, Acknowledge
    PROVE  IInv'
<1> DEFINE d == [ c EXCEPT !.irr = 0 ]
<1>1. Become(d) /\ guest' = guest /\ told' = told /\ stray' = stray
  BY DEF Acknowledge
<1>2. ChannelOK(c, stray) /\ stray \in BOOLEAN /\ c \in ChannelState
  BY DEF IInv, ChannelOK
<1>3. 0 \in Flag
  BY Values
<1>4. /\ d \in ChannelState /\ Scalars(c, d) /\ d.slot = c.slot
      /\ d.pending = c.pending /\ d.irr = 0
  BY <1>2, <1>3, ZenonT(60) DEF ChannelState, Scalars
<1> HIDE DEF d
<1>5. Kept(c, d, stray)
  BY <1>2, <1>4, UnheardSelf
     DEF Kept, ChannelOK, Kinds, Busy, Calm, Scalars, Known, Still
<1>6. Kept(c, d, stray')
  BY <1>1, <1>5
<1>7. QED
  BY <1>1, <1>2, <1>6, KeptInv

LEMMA TimerFiresInv ==
    ASSUME IInv, TimerFires
    PROVE  IInv'
<1>1. PICK d \in {ResetDone(c), CommandDone(c)} : Become(d)
  BY DEF TimerFires
<1>2. guest' = guest /\ told' = told /\ stray' = stray
  BY DEF TimerFires
<1>3. ChannelOK(c, stray) /\ stray \in BOOLEAN
  BY DEF IInv
<1>4. Kept(c, d, stray)
  BY <1>3, ResetDoneType, CommandDoneType
<1>5. Kept(c, d, stray')
  BY <1>2, <1>4
<1>6. QED
  BY <1>1, <1>2, <1>3, <1>5, KeptInv

LEMMA HostDiscInv ==
    ASSUME IInv, HostDisc
    PROVE  IInv'
<1>1. guest' = guest /\ stray' = stray
  BY DEF HostDisc
<1>2. /\ ChannelOK(c, stray) /\ stray \in BOOLEAN /\ told \in BOOLEAN
      /\ Told(c.slot[Cd], told)
  BY DEF IInv
<1>3. Cd \in Slots
  BY DEF Cd, Slots
<1>4. ASSUME NEW disc \in Discs \cup {NoDisc}, NEW opened \in BOOLEAN,
             Become(ChangeDisc(c, Cd, disc, opened)), told' = (told /\ ~opened)
      PROVE  IInv'
  <2> DEFINE d == ChangeDisc(c, Cd, disc, opened)
  <2>1. /\ ChannelOK(d, stray) /\ Known(c, d)
        /\ \/ ~opened /\ Still(c, d)
           \/ opened /\ Told(d.slot[Cd], FALSE)
    BY <1>2, <1>3, ChangeDiscType
  <2>2. Become(d)
    BY <1>4
  <2> HIDE DEF d
  <2>3. CASE ~opened /\ Still(c, d)
    <3>1. told' = told
      BY <1>2, <1>4, <2>3
    <3>2. Told(d.slot[Cd], told)
      BY <1>2, <2>3, StillTold
    <3>3. QED
      BY <1>1, <1>2, <2>1, <2>2, <3>1, <3>2, StepInv
  <2>4. CASE opened /\ Told(d.slot[Cd], FALSE)
    <3>1. told' = FALSE
      BY <1>4, <2>4
    <3>2. QED
      BY <1>1, <1>2, <2>1, <2>2, <2>4, <3>1, StepInv
  <2>5. QED
    BY <2>1, <2>3, <2>4
<1>5. ASSUME Become(EjectDisc(c, Cd)), told' = FALSE
      PROVE  IInv'
  <2> DEFINE d == EjectDisc(c, Cd)
  <2>1. ChannelOK(d, stray) /\ Known(c, d) /\ Told(d.slot[Cd], FALSE)
    BY <1>2, <1>3, EjectDiscType
  <2>2. Become(d)
    BY <1>5
  <2> HIDE DEF d
  <2>3. QED
    BY <1>1, <1>2, <1>5, <2>1, <2>2, StepInv
<1>6. QED
  BY <1>4, <1>5 DEF HostDisc

LEMMA WarmInv ==
    ASSUME IInv, Warm
    PROVE  IInv'
<1> DEFINE d == WarmReset(c)
<1>1. /\ c' = d /\ orphan' = (c.irr = 1)
      /\ guest' = guest /\ told' = told /\ stray' = stray
  BY DEF Warm
<1>2. /\ ChannelOK(c, stray) /\ stray \in BOOLEAN /\ told \in BOOLEAN
      /\ Told(c.slot[Cd], told) /\ guest \in Guests
  BY DEF IInv
<1>3. ChannelOK(d, stray) /\ Still(c, d) /\ (d.irr = 1 => c.irr = 1)
  BY <1>2, WarmResetType
<1> HIDE DEF d
<1>4. Told(d.slot[Cd], told)
  BY <1>2, <1>3, StillTold
<1>5. ChannelOK(c', stray') /\ Told(c'.slot[Cd], told')
  BY <1>1, <1>3, <1>4
<1>6. QED
  BY <1>1, <1>2, <1>3, <1>5 DEF IInv

\* All steps together
LEMMA NextInv ==
    ASSUME IInv, [Next]_vars
    PROVE  IInv'
<1>1. CASE UNCHANGED vars
  BY <1>1 DEF vars, IInv
<1>2. CASE Next
  BY <1>2, ReadDataInv, WriteDataInv, SetUpInv, GiveCommandInv, ControlInv,
     StatusReadInv, AcknowledgeInv, TimerFiresInv, HostDiscInv, WarmInv DEF Next
<1>3. QED
  BY <1>1, <1>2

\* The invariant holds under any guest, and so does what follows from it.
THEOREM AtaInvariant == Spec => []IInv
  BY InitInv, NextInv, PTL DEF Spec

-----------------------------------------------------------------------------
(* What the invariant says                                                 *)

\* Positions and fields are in their ranges.
LEMMA TypeOfInv ==
    ASSUME IInv
    PROVE  TypeOK
<1>1. ChannelOK(c, stray)
  BY DEF IInv
<1>2. { c.select, c.inreset, c.srst, c.intOn, c.pending, c.irr, c.resetTimer,
        c.cmdTimer } \subseteq Flag
  BY <1>1 DEF ChannelOK, ChannelState
<1>3. ASSUME NEW i \in Slots
      PROVE  /\ c.slot[i].cdrom \in CdromState
             /\ c.slot[i].override \in {"none", "zero", "busy"}
             /\ c.slot[i].pos <= Len(c.slot[i].buf) \/ c.slot[i].xfer = "packet"
             /\ c.slot[i].error \in 0 .. 255 /\ c.slot[i].sectors \in 0 .. 255
             /\ c.slot[i].lba \in Lba
             /\ Len(c.slot[i].cdb) = CdbBytes
  <2> DEFINE s == c.slot[i]
  <2>1. s \in DriveState /\ Positions(s, stray)
    BY <1>1 DEF ChannelOK, DriveOK
  <2> HIDE DEF s
  <2>2. /\ s.pos \in Nat /\ s.chunk \in Nat /\ s.chunkPos \in Nat
        /\ Len(s.buf) \in Nat /\ s.error \in Octet /\ s.sectors \in Octet
        /\ s.lba \in Lba /\ s.cdrom \in CdromState /\ s.cdb \in Packet
        /\ s.xfer \in Transfer /\ s.override \in Override
    BY <2>1, DriveTypes
  <2>3. s.pos <= Len(s.buf) \/ s.xfer = "packet"
    <3>1. CASE s.xfer = "none"
      BY <2>1, <3>1 DEF Positions
    <3>2. CASE s.xfer = "read"
      BY <2>1, <2>2, <3>2 DEF Positions
    <3>3. CASE s.xfer = "write"
      BY <2>1, <3>3 DEF Positions
    <3>4. CASE s.xfer = "dataIn"
      BY <2>1, <2>2, <3>4 DEF Positions
    <3>5. QED
      BY <2>2, <3>1, <3>2, <3>3, <3>4 DEF Transfer
  <2>4. Len(s.cdb) = CdbBytes
    BY <2>2, AtaAssumption DEF Packet
  <2>5. QED
    BY <2>2, <2>3, <2>4 DEF Octet, Override, s
<1>4. QED
  BY <1>2, <1>3, ZenonT(60) DEF TypeOK

\* BSY ends and DRQ moves on.
LEMMA MovesOfInv ==
    ASSUME IInv
    PROVE  NeverStuck
<1>1. ChannelOK(c, stray)
  BY DEF IInv
<1>2. BusyEnds
  BY <1>1 DEF ChannelOK, Busy, BusyEnds
<1>3. DrqMovesOn
  <2>1. SUFFICES ASSUME NEW i \in Slots
                 PROVE  LET s == c.slot[i]
                        IN  CASE s.xfer = "none"   -> TRUE
                              [] s.xfer = "read"   -> s.pos < Len(s.buf) /\ s.cur <= s.target
                              [] s.xfer = "write"  -> (stray \/ s.pos < Len(s.buf)) /\ s.cur < s.target
                              [] s.xfer = "packet" -> s.pos < CdbBytes
                              [] s.xfer = "dataIn" ->
                                   s.chunkPos < s.chunk /\ s.pos + s.chunk - s.chunkPos <= Len(s.buf)
    BY DEF DrqMovesOn
  <2> DEFINE s == c.slot[i]
  <2>2. s \in DriveState /\ Positions(s, stray)
    BY <1>1 DEF ChannelOK, DriveOK
  <2>3. s.xfer \in Transfer
    BY <2>2, DriveTypes
  <2>4. QED
    BY <2>2, <2>3 DEF Positions, Transfer
<1>4. QED
  BY <1>2, <1>3 DEF NeverStuck

\* PortsSound: whatever a guest does with the ports, whenever the host
\* changes the disc or the machine is reset, the channel's fields stay in
\* their ranges, BSY and DRQ can always end, and a request is only made
\* while the guest allows it (disk/ata.c).
THEOREM NeverStuckAtAll == Spec => []PortsSound
<1>1. IInv => PortsSound
  <2>1. IInv => QuietWhenOff
    BY DEF IInv, ChannelOK, Calm, QuietWhenOff
  <2>2. QED
    BY <2>1, TypeOfInv, MovesOfInv DEF PortsSound
<1>2. QED
  BY <1>1, AtaInvariant, PTL

\* SenseAgrees: the sense key in the error register of the CD-ROM drive is
\* the one that a request for the sense reports (ata_atapi_execute_packet).
THEOREM SenseHeld == Spec => []SenseAgrees
<1>1. IInv => SenseAgrees
  BY DEF IInv, ChannelOK, DriveOK, Sensed, SenseAgrees, Cd, Slots
<1>2. QED
  BY <1>1, AtaInvariant, PTL

\* NoSilentSwap: no block of a new disc is read before the guest has been
\* told of the change (atapi_cdrom_command, ata_prepare_cdrom_media_change).
THEOREM SwapAnnounced == Spec => []NoSilentSwap
<1>1. IInv => NoSilentSwap
  BY DEF IInv, Told, NoSilentSwap
<1>2. QED
  BY <1>1, AtaInvariant, PTL
=============================================================================
