----------------------------- MODULE Cpu_proofs ------------------------------
(***************************************************************************)
(* Proofs about the CPU.                                                   *)
(*                                                                         *)
(* First the string instructions over paged memory, for any size of        *)
(* pages, any number of pages, frames and sets of the buffer, and every    *)
(* program: the buffer agrees with the page tables, no write is lost, and  *)
(* the instructions implement those of StringMachine.                      *)
(*                                                                         *)
(* Then protected mode, for any tables, tasks and guests: level, code,     *)
(* stack and data segments always belong together; handlers return to what *)
(* they have interrupted, and the frames they return with stay in place;   *)
(* privilege is gained by task switches and through gates, and not else.   *)
(***************************************************************************)
EXTENDS StringOps, Protection, WellFoundedInduction, TLAPS

\* The bytes there are
Values == { Contents[a] : a \in DOMAIN Contents } \cup { PortByte(n) : n \in Nat }
             \cup { Accumulator[1], Accumulator[2], Junk, 0 }

FrameNo == 0 .. Frames - 1
Offset  == 0 .. PageSize - 1
Ram     == 0 .. Frames * PageSize - 1
Address == 0 .. Pages * PageSize - 1
Sets    == 0 .. TlbSets - 1

Entry    == [ present : BOOLEAN, user : BOOLEAN, write : BOOLEAN,
              dirty : BOOLEAN, frame : FrameNo ]
Tables   == [ ProgramPages -> Entry ]
WayState == [ valid : BOOLEAN, tag : Nat, frame : Nat, user : BOOLEAN,
              write : BOOLEAN, dirty : BOOLEAN ]
Buffers  == [ Sets -> [ mru : 0 .. 1, way : [ 0 .. 1 -> WayState ] ] ]
Modes    == [ user : BOOLEAN, protect : BOOLEAN, write : BOOLEAN ]
AnAccess == [ op : {"read", "write", "in", "out"}, at : Int, size : 1 .. 2 ]

TypeOK ==
    /\ program \in Programs
    /\ pte \in Tables /\ tlb \in Buffers
    /\ ram \in [ Ram -> Values ]
    /\ disk \in [ ProgramPages -> [ Offset -> Values ] ]
    /\ wrcache \in Seq(Nat \X Seq(Values))
    /\ regs \in [ si : Int, di : Int, cx : Nat, zf : BOOLEAN, ax : Seq(Values) ]
    /\ phase \in {"next", "run", "fault", "over"}
    /\ acc \in Seq(AnAccess) /\ loaded \in Seq(Values) /\ sent \in Seq(Values)
    /\ fault \in [ page : Nat, kind : {"none", "absent", "denied"} ]
    /\ taken \in Nat

-----------------------------------------------------------------------------
(* Pages, frames and addresses                                             *)

\* An address is its page and what lies before it on the page.
LEMMA Parts ==
    ASSUME NEW a \in Nat
    PROVE  /\ PageOf(a) \in Nat /\ (a % PageSize) \in Offset
           /\ a = PageOf(a) * PageSize + (a % PageSize)
<1>1. a % PageSize \in Offset
  BY PagingAssumption, SMT DEF Offset
<1>2. PageOf(a) \in Nat
  BY PagingAssumption, SMT DEF PageOf
<1>3. a = PageOf(a) * PageSize + (a % PageSize)
  BY PagingAssumption, SMT DEF PageOf
<1>4. QED
  BY <1>1, <1>2, <1>3

\* A frame and an offset make an address of memory ...
LEMMA FrameParts ==
    ASSUME NEW f \in Nat, NEW o \in Offset
    PROVE  /\ f * PageSize + o \in Nat
           /\ PageOf(f * PageSize + o) = f
           /\ (f * PageSize + o) % PageSize = o
  BY PagingAssumption, SMT DEF PageOf, Offset

\* ... that exists if the frame does, and determines both.
LEMMA InRam ==
    ASSUME NEW f \in FrameNo, NEW o \in Offset
    PROVE  f * PageSize + o \in Ram
<1>1. f * PageSize + PageSize <= Frames * PageSize
  BY PagingAssumption, SMT DEF FrameNo
<1>2. f * PageSize + o \in Nat
  BY FrameParts DEF FrameNo
<1>3. f * PageSize \in Nat /\ Frames * PageSize \in Nat
  BY PagingAssumption, SMT DEF FrameNo
<1>4. QED
  BY <1>1, <1>2, <1>3, PagingAssumption DEF Ram, Offset

\* An address of memory lies in a frame.
LEMMA RamParts ==
    ASSUME NEW a \in Ram
    PROVE  a \in Nat /\ PageOf(a) \in FrameNo
<1>1. a \in Nat /\ a < Frames * PageSize
  BY PagingAssumption, SMT DEF Ram
<1>2. PageOf(a) < Frames
  BY <1>1, PagingAssumption, SMT DEF PageOf
<1>3. PageOf(a) \in Nat
  BY <1>1, Parts
<1>4. QED
  BY <1>1, <1>2, <1>3, PagingAssumption DEF FrameNo

\* An address of the program lies in a page, and one of a page is its own.
LEMMA AddressParts ==
    ASSUME NEW a \in Nat
    PROVE  PageOf(a) \in ProgramPages <=> a \in Address
<1>1. PageOf(a) < Pages <=> a < Pages * PageSize
  BY PagingAssumption, SMT DEF PageOf
<1>2. PageOf(a) \in Nat /\ Pages * PageSize \in Nat
  BY Parts, PagingAssumption, SMT
<1>3. QED
  BY <1>1, <1>2, PagingAssumption DEF ProgramPages, Address

\* A byte further on the same page.
LEMMA Along ==
    ASSUME NEW a \in Nat, NEW k \in Nat, (a % PageSize) + k < PageSize
    PROVE  /\ PageOf(a + k) = PageOf(a)
           /\ (a + k) % PageSize = (a % PageSize) + k
  BY PagingAssumption, SMT DEF PageOf

\* A page has a set of the buffer.
LEMMA SetOf ==
    ASSUME NEW p \in Nat
    PROVE  p % TlbSets \in Sets
  BY PagingAssumption, SMT DEF Sets

-----------------------------------------------------------------------------
(* The translation buffer                                                  *)

\* What way w of set s says is what the tables t say.
Agrees(w, s, t) ==
    w.valid =>
      /\ w.tag \in ProgramPages /\ w.tag % TlbSets = s
      /\ t[w.tag].present /\ t[w.tag].frame = w.frame
      /\ t[w.tag].user = w.user /\ t[w.tag].write = w.write
      /\ w.dirty => t[w.tag].dirty

BufferOK(b, t) ==
    b \in Buffers /\ \A s \in Sets : \A k \in 0 .. 1 : Agrees(b[s].way[k], s, t)

\* An empty buffer agrees with any tables.
LEMMA FlushedOK ==
    ASSUME NEW t
    PROVE  BufferOK(Flushed, t)
<1>1. Empty \in WayState /\ ~Empty.valid
  BY DEF Empty, WayState
<1>2. Flushed \in Buffers
  BY <1>1 DEF Flushed, EmptySet, Buffers, Sets
<1>3. \A s \in Sets : \A k \in 0 .. 1 : Flushed[s].way[k] = Empty
  BY DEF Flushed, EmptySet, Sets
<1>4. QED
  BY <1>1, <1>2, <1>3, Zenon DEF BufferOK, Agrees

\* After its page is invalidated, an entry of the tables may change.
LEMMA InvalidatedOK ==
    ASSUME BufferOK(tlb, pte), NEW p \in ProgramPages, NEW t,
           \A q \in ProgramPages \ {p} : t[q] = pte[q]
    PROVE  BufferOK(Invalidated(p), t)
<1> DEFINE s == p % TlbSets
           gone(w) == [w EXCEPT !.valid = FALSE]
           b == Invalidated(p)
<1>1. s \in Sets /\ p \in Nat
  BY SetOf DEF ProgramPages
<1>2. /\ b \in [Sets -> [ mru : 0 .. 1, way : [ 0 .. 1 -> WayState ] ]]
      /\ \A z \in Sets, k \in 0 .. 1 :
           b[z].way[k] = IF z = s /\ tlb[z].way[k].valid /\ tlb[z].way[k].tag = p
                         THEN gone(tlb[z].way[k]) ELSE tlb[z].way[k]
  <2>1. tlb \in [Sets -> [ mru : 0 .. 1, way : [ 0 .. 1 -> WayState ] ]]
    BY DEF BufferOK, Buffers
  <2>2. \A w \in WayState : gone(w) \in WayState
    BY DEF WayState
  <2> HIDE DEF gone
  <2> DEFINE ways == [ k \in 0 .. 1 |->
                 IF tlb[s].way[k].valid /\ tlb[s].way[k].tag = p
                 THEN gone(tlb[s].way[k]) ELSE tlb[s].way[k] ]
  <2>3. b = [tlb EXCEPT ![s].way = ways]
    BY DEF Invalidated, gone
  <2>4. ways \in [ 0 .. 1 -> WayState ]
    BY <1>1, <2>1, <2>2
  <2> HIDE DEF b
  <2>5. b \in Buffers /\ \A z \in Sets : b[z] = IF z = s THEN [ tlb[s] EXCEPT !.way = ways ]
                                              ELSE tlb[z]
    BY <1>1, <2>1, <2>3, <2>4 DEF Buffers
  <2>6. \A k \in 0 .. 1 : [ tlb[s] EXCEPT !.way = ways ].way[k] = ways[k]
    BY <1>1, <2>1
  <2>7. ASSUME NEW z \in Sets, NEW k \in 0 .. 1
        PROVE  b[z].way[k] = IF z = s /\ tlb[z].way[k].valid /\ tlb[z].way[k].tag = p
                             THEN gone(tlb[z].way[k]) ELSE tlb[z].way[k]
    <3>1. CASE z = s
      <4>1. b[z].way[k] = ways[k]
        BY <2>5, <2>6, <3>1
      <4>2. QED
        BY <3>1, <4>1
    <3>2. CASE z # s
      BY <2>5, <3>2
    <3>3. QED
      BY <3>1, <3>2
  <2>8. QED
    BY <2>5, <2>7 DEF Buffers
<1>3. \A w \in WayState : ~gone(w).valid
  BY DEF WayState
<1> HIDE DEF gone, b, s
<1>4. ASSUME NEW z \in Sets, NEW k \in 0 .. 1
      PROVE  Agrees(b[z].way[k], z, t)
  <2>1. tlb[z].way[k] \in WayState /\ Agrees(tlb[z].way[k], z, pte)
    BY DEF BufferOK, Buffers
  <2>2. CASE z = s /\ tlb[z].way[k].valid /\ tlb[z].way[k].tag = p
    BY <1>2, <1>3, <2>1, <2>2 DEF Agrees
  <2>3. CASE ~(z = s /\ tlb[z].way[k].valid /\ tlb[z].way[k].tag = p)
    <3>1. b[z].way[k] = tlb[z].way[k]
      BY <1>2, <2>3
    <3>2. tlb[z].way[k].valid => tlb[z].way[k].tag # p
      BY <2>1, <2>3 DEF Agrees, s
    <3>3. QED
      BY <2>1, <3>1, <3>2 DEF Agrees
  <2>4. QED
    BY <2>2, <2>3
<1>5. QED
  BY <1>2, <1>4 DEF BufferOK, Buffers, b

\* A way takes what the tables say of a page that is present; and a first
\* write is noted in both.
LEMMA TranslatedOK ==
    ASSUME pte \in Tables, BufferOK(tlb, pte), NEW p \in ProgramPages,
           NEW access \in Modes
    PROVE  LET t == Translated(p, access)
           IN  /\ t.fault \in {"none", "absent", "denied"}
               /\ BufferOK(t.tlb, t.pte)
               /\ t.pte \in {pte, [pte EXCEPT ![p].dirty = TRUE]}
               /\ t.fault # "none" => t.pte = pte
               /\ t.fault = "absent" => ~pte[p].present
               /\ t.fault = "none" =>
                    /\ pte[p].present /\ t.frame = pte[p].frame
                    /\ access.write => t.pte[p].dirty
               /\ pte[p].present /\ Allowed(access, pte[p]) => t.fault = "none"
<1> DEFINE s == p % TlbSets
           missed == Hits(p) = {}
           j == IF missed THEN Victim(s) ELSE Hit(p)
           known == IF missed THEN [ valid |-> TRUE, tag |-> p,
                        frame |-> pte[p].frame, user |-> pte[p].user,
                        write |-> pte[p].write, dirty |-> pte[p].dirty ]
                    ELSE tlb[s].way[j]
           noted == [known EXCEPT !.dirty = @ \/ access.write]
           buf == [tlb EXCEPT ![s].mru = j, ![s].way[j] = noted]
           t == Translated(p, access)
<1>1. s \in Sets /\ p \in Nat
  BY SetOf DEF ProgramPages
<1>2. tlb \in Buffers /\ pte[p] \in Entry
  BY DEF BufferOK, Tables
<1>3. j \in 0 .. 1 /\ (~missed => j \in Hits(p))
  <2>1. tlb[s].mru \in 0 .. 1
    BY <1>1, <1>2 DEF Buffers
  <2>2. Victim(s) \in 0 .. 1
    BY <2>1 DEF Victim
  <2>3. Hits(p) \subseteq 0 .. 1
    BY DEF Hits
  <2>4. ~missed => Hit(p) \in Hits(p)
    BY DEF Hit
  <2>5. QED
    BY <2>2, <2>3, <2>4
<1>4. /\ known \in WayState /\ known.valid /\ known.tag = p
      /\ ~missed => pte[p].present
      /\ known.frame = pte[p].frame /\ known.user = pte[p].user
      /\ known.write = pte[p].write /\ (known.dirty => pte[p].dirty)
  <2>1. CASE missed
    <3>1. FrameNo \subseteq Nat
      BY DEF FrameNo
    <3>2. QED
      BY <1>1, <1>2, <2>1, <3>1 DEF Entry, WayState
  <2>2. CASE ~missed
    <3>1. tlb[s].way[j].valid /\ tlb[s].way[j].tag = p
      BY <1>3, <2>2 DEF Hits
    <3>2. tlb[s].way[j] \in WayState /\ Agrees(tlb[s].way[j], s, pte)
      BY <1>1, <1>3 DEF BufferOK, Buffers
    <3>3. known = tlb[s].way[j]
      BY <2>2
    <3> HIDE DEF known, j
    <3>4. QED
      BY <2>2, <3>1, <3>2, <3>3 DEF Agrees
  <2>3. QED
    BY <2>1, <2>2
<1>5. t = IF missed /\ ~pte[p].present
          THEN [fault |-> "absent", tlb |-> tlb, pte |-> pte]
          ELSE IF ~Allowed(access, known)
          THEN [ fault |-> "denied", pte |-> pte,
                 tlb |-> IF missed THEN tlb ELSE [tlb EXCEPT ![s].mru = j] ]
          ELSE [ fault |-> "none", frame |-> known.frame,
                 tlb |-> buf, pte |-> Noted(p, access, known) ]
  BY DEF Translated
<1>6. Allowed(access, known) <=> Allowed(access, pte[p])
  BY <1>4 DEF Allowed
<1> SUFFICES
      /\ t.fault \in {"none", "absent", "denied"}
      /\ BufferOK(t.tlb, t.pte)
      /\ t.pte \in {pte, [pte EXCEPT ![p].dirty = TRUE]}
      /\ t.fault # "none" => t.pte = pte
      /\ t.fault = "absent" => ~pte[p].present
      /\ t.fault = "none" =>
           /\ pte[p].present /\ t.frame = pte[p].frame
           /\ access.write => t.pte[p].dirty
      /\ pte[p].present /\ Allowed(access, pte[p]) => t.fault = "none"
  OBVIOUS
<1> HIDE DEF known, missed, j, t
<1>7. CASE missed /\ ~pte[p].present
  BY <1>5, <1>7
<1>8. CASE ~(missed /\ ~pte[p].present) /\ ~Allowed(access, known)
  <2>1. BufferOK([tlb EXCEPT ![s].mru = j], pte)
    <3> DEFINE c == [tlb EXCEPT ![s].mru = j]
    <3>1. /\ c \in Buffers
          /\ \A z \in Sets : c[z].way = tlb[z].way
      BY <1>1, <1>2, <1>3 DEF Buffers
    <3> HIDE DEF c
    <3>2. QED
      BY <3>1 DEF BufferOK, c
  <2>2. t = [ fault |-> "denied", pte |-> pte,
              tlb |-> IF missed THEN tlb ELSE [tlb EXCEPT ![s].mru = j] ]
    BY <1>5, <1>8
  <2>3. QED
    BY <1>6, <1>8, <2>1, <2>2
<1>9. CASE ~(missed /\ ~pte[p].present) /\ Allowed(access, known)
  <2> DEFINE q == Noted(p, access, known)
  <2>1. t = [ fault |-> "none", frame |-> known.frame, tlb |-> buf, pte |-> q ]
    BY <1>5, <1>9
  <2>2. q \in {pte, [pte EXCEPT ![p].dirty = TRUE]}
    BY DEF Noted
  <2>3. /\ \A n \in ProgramPages :
             /\ q[n].present = pte[n].present /\ q[n].frame = pte[n].frame
             /\ q[n].user = pte[n].user /\ q[n].write = pte[n].write
             /\ pte[n].dirty => q[n].dirty
        /\ access.write => q[p].dirty
    BY <1>4, <2>2 DEF Noted, Tables, Entry
  <2>4. /\ noted \in WayState /\ noted.valid /\ noted.tag = p
        /\ noted.frame = known.frame /\ noted.user = known.user
        /\ noted.write = known.write
        /\ noted.dirty = (known.dirty \/ access.write)
    BY <1>4 DEF WayState, Modes
  <2>5. pte[p].present
    BY <1>4, <1>9
  <2> HIDE DEF q, noted
  <2>6. BufferOK(buf, q)
    <3>1. /\ buf \in Buffers
          /\ \A z \in Sets, k \in 0 .. 1 :
               buf[z].way[k] = IF z = s /\ k = j THEN noted ELSE tlb[z].way[k]
      BY <1>1, <1>2, <1>3, <2>4 DEF Buffers
    <3>2. Agrees(noted, s, q)
      BY <1>4, <2>3, <2>4, <2>5 DEF Agrees
    <3> HIDE DEF buf
    <3>3. ASSUME NEW z \in Sets, NEW k \in 0 .. 1
          PROVE  Agrees(buf[z].way[k], z, q)
      <4>1. Agrees(tlb[z].way[k], z, q)
        <5>1. Agrees(tlb[z].way[k], z, pte)
          BY DEF BufferOK
        <5>2. QED
          BY <2>3, <5>1 DEF Agrees
      <4>2. QED
        BY <3>1, <3>2, <4>1
    <3>4. QED
      BY <3>1, <3>3 DEF BufferOK
  <2>7. QED
    <3> HIDE DEF buf
    <3>1. t.fault = "none" /\ t.frame = known.frame /\ t.tlb = buf /\ t.pte = q
      BY <2>1
    <3>2. q \in {pte, [pte EXCEPT ![p].dirty = TRUE]}
      BY <2>2
    <3>3. QED
      BY <1>4, <2>3, <2>5, <2>6, <3>1, <3>2
<1>10. QED
  BY <1>7, <1>8, <1>9

-----------------------------------------------------------------------------
(* The cache of writes                                                     *)

Writes == Seq(Nat \X Seq(Values))

\* Memory z once the writes w are committed
CommittedOf(z, w) ==
    [ a \in DOMAIN z |->
        LET own == { n \in DOMAIN w : Within(w[n], a) }
            n   == CHOOSE k \in own : \A l \in own : k >= l
        IN  IF own = {} THEN z[a] ELSE w[n][2][a - w[n][1] + 1] ]

\* A set of numbers has a least one, and one with a bound a greatest.
LEMMA Least ==
    ASSUME NEW T \in SUBSET Nat, T # {}
    PROVE  \E x \in T : \A y \in T : x <= y
<1>1. PICK x \in T : \A y \in T : ~ (<<y, x>> \in OpToRel(<, Nat))
  BY NatLessThanWellFounded, WFMin, Zenon
<1>2. \A y \in T : ~(y < x)
  BY <1>1 DEF OpToRel
<1>3. QED
  BY <1>2

\* A nonempty set of numbers up to n has a greatest element.
LEMMA Greatest ==
    ASSUME NEW n \in Nat, NEW T \in SUBSET (1 .. n), T # {}
    PROVE  \E x \in T : \A y \in T : x >= y
<1> DEFINE U == { n - k : k \in T }
<1>1. U \in SUBSET Nat
  <2>1. \A k \in T : k \in 1 .. n
    OBVIOUS
  <2>2. QED
    BY <2>1
<1>2. U # {}
  OBVIOUS
<1> HIDE DEF U
<1>3. PICK d \in U : \A y \in U : d <= y
  BY <1>1, <1>2, Least
<1>4. PICK x \in T : d = n - x
  BY <1>3 DEF U
<1>5. ASSUME NEW y \in T
      PROVE  x >= y
  <2>1. n - y \in U
    BY DEF U
  <2>2. d <= n - y
    BY <1>3, <2>1
  <2>3. QED
    BY <1>4, <2>2
<1>6. QED
  BY <1>5

\* Committed is the memory of the state with the writes of the state.
LEMMA CommittedIs == Committed = CommittedOf(ram, wrcache)
  BY DEF Committed, CommittedOf

\* Without writes memory stays, and is what is read.
LEMMA NoWrites ==
    ASSUME ram \in [ Ram -> Values ]
    PROVE  /\ CommittedOf(ram, <<>>) = ram
           /\ wrcache = <<>> => \A a : PhysByte(a) = ram[a]
<1>1. \A a : { n \in DOMAIN <<>> : Within(<<>>[n], a) } = {}
  OBVIOUS
<1>2. CommittedOf(ram, <<>>) = [ a \in Ram |-> ram[a] ]
  BY <1>1, Zenon DEF CommittedOf
<1>3. QED
  BY <1>1, <1>2 DEF PhysByte

\* One more write goes over those before it.
LEMMA CommittedAppend ==
    ASSUME NEW z \in [ Ram -> Values ], NEW w \in Writes,
           NEW e \in Nat \X Seq(Values), NEW a \in Ram
    PROVE  CommittedOf(z, Append(w, e))[a] =
             IF Within(e, a) THEN e[2][a - e[1] + 1] ELSE CommittedOf(z, w)[a]
<1> DEFINE v == Append(w, e)
           n == Len(w) + 1
           old == { k \in DOMAIN w : Within(w[k], a) }
           own == { k \in DOMAIN v : Within(v[k], a) }
           last(s) == CHOOSE k \in s : \A l \in s : k >= l
<1>1. /\ DOMAIN v = 1 .. n /\ v[n] = e /\ DOMAIN w = 1 .. n - 1 /\ n \in Nat \ {0}
      /\ \A k \in DOMAIN w : v[k] = w[k]
  BY DEF Writes
<1>2. CommittedOf(z, v)[a] =
        IF own = {} THEN z[a] ELSE v[last(own)][2][a - v[last(own)][1] + 1]
  BY DEF CommittedOf
<1>3. CommittedOf(z, w)[a] =
        IF old = {} THEN z[a] ELSE w[last(old)][2][a - w[last(old)][1] + 1]
  BY DEF CommittedOf
<1> HIDE DEF v, n
<1>4. CASE Within(e, a)
  <2>1. n \in own /\ own \subseteq 1 .. n
    BY <1>1, <1>4
  <2>2. last(own) = n
    <3> DEFINE g == last(own)
    <3>1. \A l \in own : n >= l
      BY <1>1, <2>1
    <3>2. g \in own /\ \A l \in own : g >= l
      BY <2>1, <3>1
    <3> HIDE DEF g, own
    <3>3. g \in 1 .. n /\ g >= n
      BY <2>1, <3>2
    <3>4. g = n
      BY <1>1, <3>3
    <3>5. QED
      BY <3>4 DEF g
  <2> HIDE DEF last, own
  <2>3. QED
    BY <1>1, <1>2, <1>4, <2>1, <2>2 DEF v
<1>5. CASE ~Within(e, a)
  <2>1. own = old
    BY <1>1, <1>5
  <2>2. old # {} => last(old) \in old
    <3>1. n - 1 \in Nat /\ old \in SUBSET (1 .. n - 1)
      BY <1>1
    <3> HIDE DEF old
    <3>2. QED
      BY <3>1, Greatest
  <2>3. QED
    BY <1>1, <1>2, <1>3, <1>5, <2>1, <2>2, Zenon DEF v
<1>6. QED
  BY <1>4, <1>5

-----------------------------------------------------------------------------
(* The accesses of an element: how far it is                               *)

\* What Accesses may be: the operands are the program's, a write comes last.
Listed(L) ==
    /\ L \in Seq(AnAccess) /\ Len(L) \in 1 .. 2
    /\ \A n \in 1 .. Len(L) :
         /\ L[n].size = i.size
         /\ L[n].op \in {"read", "write"} =>
              \A k \in 0 .. i.size - 1 : L[n].at + k \in Address
    /\ Len(L) = 2 => L[1].op \in {"read", "in"}

Stage == {"whole", "halves", "half"}

RestOf(L, n) ==
    IF n > Len(L) THEN <<>>
    ELSE IF n = Len(L) THEN <<L[n]>> ELSE <<L[n], L[n + 1]>>

\* What is left when access n is next, as a whole, split, or half done
Left(L, n, h) ==
    IF h = "whole" THEN RestOf(L, n)
    ELSE IF h = "halves" THEN Split(L[n]) \o RestOf(L, n + 1)
    ELSE <<Split(L[n])[2]>> \o RestOf(L, n + 1)

At(L, n, h) ==
    /\ n \in 1 .. Len(L) + 1 /\ h \in Stage
    /\ n = Len(L) + 1 => h = "whole"
    /\ h # "whole" => L[n].op \in {"read", "write"} /\ i.size = 2

\* The access at hand
Next1(L, n, h) ==
    IF h = "whole" THEN L[n]
    ELSE IF h = "halves" THEN Split(L[n])[1] ELSE Split(L[n])[2]

\* Splitting an access gives two of a byte.
LEMMA SplitIs ==
    ASSUME NEW a \in AnAccess
    PROVE  /\ Split(a)[1] \in AnAccess /\ Split(a)[1].op = a.op
           /\ Split(a)[1].at = a.at /\ Split(a)[1].size = 1
           /\ Split(a)[2] \in AnAccess /\ Split(a)[2].op = a.op
           /\ Split(a)[2].at = a.at + 1 /\ Split(a)[2].size = 1
           /\ Split(a) = << Split(a)[1], Split(a)[2] >>
<1> DEFINE x == [a EXCEPT !.size = 1]
           y == [a EXCEPT !.size = 1, !.at = @ + 1]
<1>1. x \in AnAccess /\ x.op = a.op /\ x.at = a.at /\ x.size = 1
  BY DEF AnAccess
<1>2. y \in AnAccess /\ y.op = a.op /\ y.at = a.at + 1 /\ y.size = 1
  <2> DEFINE n == a.at + 1
  <2>1. n \in Int /\ 1 \in 1 .. 2
    BY DEF AnAccess
  <2>2. y = [a EXCEPT !.size = 1, !.at = n]
    OBVIOUS
  <2> HIDE DEF n, y
  <2>3. y \in AnAccess /\ y.op = a.op /\ y.at = n /\ y.size = 1
    BY <2>1, <2>2 DEF AnAccess
  <2>4. QED
    BY <2>3 DEF n
<1>3. Split(a) = <<x, y>>
  BY DEF Split
<1> HIDE DEF x, y
<1>4. Split(a)[1] = x /\ Split(a)[2] = y
  BY <1>3
<1>5. QED
  BY <1>1, <1>2, <1>3, <1>4

\* A sequence that begins with one element ...
LEMMA OneAhead ==
    ASSUME NEW S, NEW s \in Seq(S), NEW x \in S
    PROVE  /\ Head(<<x>> \o s) = x /\ Tail(<<x>> \o s) = s /\ <<x>> \o s # <<>>
           /\ <<x>> \o s \in Seq(S) /\ Len(<<x>> \o s) = 1 + Len(s)
  OBVIOUS

\* ... or with two.
LEMMA TwoAhead ==
    ASSUME NEW S, NEW s \in Seq(S), NEW x \in S, NEW y \in S
    PROVE  /\ Head(<<x, y>> \o s) = x /\ Tail(<<x, y>> \o s) = <<y>> \o s
           /\ <<x, y>> \o s # <<>>
           /\ <<x, y>> \o s \in Seq(S) /\ Len(<<x, y>> \o s) = 2 + Len(s)
  OBVIOUS

\* Sequences of the same elements are the same.
LEMMA SameElements ==
    ASSUME NEW S, NEW s \in Seq(S), NEW t \in Seq(S), Len(s) = Len(t),
           \A k \in 1 .. Len(s) : s[k] = t[k]
    PROVE  s = t
  OBVIOUS

\* Joining nothing, or one to one
LEMMA JoinOne ==
    ASSUME NEW S, NEW x \in S, NEW y \in S
    PROVE  <<x>> \o <<>> = <<x>> /\ <<x>> \o <<y>> = <<x, y>>
<1> DEFINE s == <<x>> \o <<y>>
           t == <<x, y>>
<1>1. s \in Seq(S) /\ t \in Seq(S) /\ Len(s) = 2 /\ Len(t) = 2
  OBVIOUS
<1>2. s[1] = x /\ s[2] = y /\ t[1] = x /\ t[2] = y
  OBVIOUS
<1> HIDE DEF s, t
<1>3. \A k \in 1 .. Len(s) : s[k] = t[k]
  BY <1>1, <1>2
<1>4. s = t
  BY <1>1, <1>3, SameElements
<1>5. <<x>> \o <<>> = <<x>>
  OBVIOUS
<1>6. QED
  BY <1>4, <1>5 DEF s, t

\* The rest begins with access n.
LEMMA RestBegins ==
    ASSUME NEW L, Listed(L), NEW n \in 1 .. Len(L)
    PROVE  /\ RestOf(L, n) = <<L[n]>> \o RestOf(L, n + 1)
           /\ RestOf(L, n + 1) \in Seq(AnAccess) /\ L[n] \in AnAccess
           /\ Len(RestOf(L, n + 1)) = Len(L) - n
<1> DEFINE k == Len(L)
           x == L[n]
           y == L[n + 1]
<1>1. k \in 1 .. 2 /\ n \in 1 .. k /\ x \in AnAccess
  BY DEF Listed
<1>2. RestOf(L, n) = IF n = k THEN <<x>> ELSE <<x, y>>
  BY <1>1 DEF RestOf
<1>3. n = k => RestOf(L, n + 1) = <<>>
  BY <1>1 DEF RestOf
<1>4. n # k => n = 1 /\ k = 2
  <2> HIDE DEF k
  <2>1. QED
    BY <1>1
<1>5. n # k => y \in AnAccess /\ RestOf(L, n + 1) = <<y>>
  BY <1>4 DEF Listed, RestOf
<1> HIDE DEF k, x, y
<1>6. CASE n = k
  <2>1. <<>> \in Seq(AnAccess) /\ Len(<<>>) = 0
    OBVIOUS
  <2>2. <<x>> \o <<>> = <<x>>
    BY <1>1, JoinOne
  <2>3. RestOf(L, n) = <<x>> \o RestOf(L, n + 1)
    BY <1>2, <1>3, <1>6, <2>2, Zenon
  <2>4. Len(RestOf(L, n + 1)) = k - n
    BY <1>1, <1>3, <1>6, <2>1
  <2>5. QED
    BY <1>1, <1>3, <1>6, <2>1, <2>3, <2>4, Zenon DEF k, x
<1>7. CASE n # k
  <2>1. <<x>> \o <<y>> = <<x, y>> /\ <<y>> \in Seq(AnAccess) /\ Len(<<y>>) = 1
    BY <1>1, <1>5, <1>7, JoinOne
  <2>2. RestOf(L, n) = <<x>> \o RestOf(L, n + 1)
    BY <1>2, <1>5, <1>7, <2>1, Zenon
  <2>3. Len(RestOf(L, n + 1)) = k - n
    BY <1>4, <1>5, <1>7, <2>1
  <2>4. QED
    BY <1>1, <1>5, <1>7, <2>1, <2>2, <2>3, Zenon DEF k, x
<1>8. QED
  BY <1>6, <1>7

\* Where an element goes from stage h of access n.
LEMMA LeftGoes ==
    ASSUME NEW L, Listed(L), NEW n, NEW h, At(L, n, h)
    PROVE  /\ Left(L, n, h) \in Seq(AnAccess)
           /\ Left(L, n, h) = <<>> <=> n = Len(L) + 1
           /\ n # Len(L) + 1 =>
                /\ n \in 1 .. Len(L)
                /\ Head(Left(L, n, h)) = Next1(L, n, h)
                /\ Tail(Left(L, n, h)) =
                     IF h = "halves" THEN Left(L, n, "half")
                     ELSE Left(L, n + 1, "whole")
                /\ h = "whole" =>
                     Split(L[n]) \o Tail(Left(L, n, h)) = Left(L, n, "halves")
                /\ Len(Left(L, n, h)) =
                     IF h = "halves" THEN Len(L) - n + 2 ELSE Len(L) - n + 1
<1>1. Len(L) \in Nat /\ n \in Nat
  BY DEF Listed, At
<1>2. CASE n = Len(L) + 1
  BY <1>1, <1>2 DEF At, Left, RestOf
<1>3. CASE n # Len(L) + 1
  <2>1. n \in 1 .. Len(L)
    BY <1>1, <1>3 DEF At
  <2> DEFINE s == RestOf(L, n + 1)
  <2>2. /\ RestOf(L, n) = <<L[n]>> \o s /\ s \in Seq(AnAccess)
        /\ L[n] \in AnAccess /\ Len(s) = Len(L) - n
    BY <2>1, RestBegins
  <2> DEFINE x == Split(L[n])[1]
             y == Split(L[n])[2]
  <2>3. x \in AnAccess /\ y \in AnAccess /\ Split(L[n]) = <<x, y>>
    BY <2>2, SplitIs
  <2>4. s = Left(L, n + 1, "whole")
    BY DEF Left
  <2> HIDE DEF s, x, y
  <2>5. CASE h = "whole"
    <3>1. Left(L, n, h) = <<L[n]>> \o s /\ Next1(L, n, h) = L[n]
      BY <2>2, <2>5 DEF Left, Next1
    <3>2. Left(L, n, "halves") = Split(L[n]) \o s
      BY DEF Left, s
    <3>3. /\ Head(Left(L, n, h)) = L[n] /\ Tail(Left(L, n, h)) = s
          /\ Left(L, n, h) # <<>> /\ Left(L, n, h) \in Seq(AnAccess)
          /\ Len(Left(L, n, h)) = 1 + Len(s)
      BY <2>2, <3>1, OneAhead
    <3>4. Len(Left(L, n, h)) = Len(L) - n + 1
      BY <1>1, <2>2, <3>3
    <3>5. QED
      BY <1>3, <2>1, <2>4, <2>5, <3>1, <3>2, <3>3, <3>4, Zenon
  <2>6. CASE h = "halves"
    <3>1. /\ Left(L, n, h) = <<x, y>> \o s /\ Next1(L, n, h) = x
          /\ Left(L, n, "half") = <<y>> \o s
      BY <2>3, <2>6 DEF Left, Next1, s, x, y
    <3>2. /\ Head(Left(L, n, h)) = x /\ Tail(Left(L, n, h)) = <<y>> \o s
          /\ Left(L, n, h) # <<>> /\ Left(L, n, h) \in Seq(AnAccess)
          /\ Len(Left(L, n, h)) = 2 + Len(s)
      <4>1. /\ Head(<<x, y>> \o s) = x /\ Tail(<<x, y>> \o s) = <<y>> \o s
            /\ <<x, y>> \o s # <<>>
            /\ <<x, y>> \o s \in Seq(AnAccess) /\ Len(<<x, y>> \o s) = 2 + Len(s)
        BY <2>2, <2>3, TwoAhead
      <4>2. QED
        BY <3>1, <4>1, Zenon
    <3>3. Len(Left(L, n, h)) = Len(L) - n + 2
      BY <1>1, <2>2, <3>2
    <3>4. QED
      BY <1>3, <2>1, <2>6, <3>1, <3>2, <3>3, Zenon
  <2>7. CASE h = "half"
    <3>1. Left(L, n, h) = <<y>> \o s /\ Next1(L, n, h) = y
      BY <2>7 DEF Left, Next1, s, y
    <3>2. /\ Head(Left(L, n, h)) = y /\ Tail(Left(L, n, h)) = s
          /\ Left(L, n, h) # <<>> /\ Left(L, n, h) \in Seq(AnAccess)
          /\ Len(Left(L, n, h)) = 1 + Len(s)
      BY <2>2, <2>3, <3>1, OneAhead
    <3>3. Len(Left(L, n, h)) = Len(L) - n + 1
      BY <1>1, <2>2, <3>2
    <3>4. QED
      BY <1>3, <2>1, <2>4, <2>7, <3>1, <3>2, <3>3, Zenon
  <2>8. QED
    BY <2>5, <2>6, <2>7 DEF At, Stage
<1>4. QED
  BY <1>2, <1>3

\* Each access of the list is one.
LEMMA ListedAccess ==
    ASSUME NEW L, Listed(L), NEW n \in 1 .. Len(L)
    PROVE  /\ L[n] \in AnAccess /\ L[n].size = i.size
           /\ i.size \in 1 .. 2 /\ L[n].at \in Int
<1>1. L[n] \in AnAccess /\ L[n].size = i.size
  BY DEF Listed
<1>2. QED
  BY <1>1 DEF AnAccess

\* The access at hand lies in the program's memory, a half of its own on one
\* page; only two bytes need two.
LEMMA NextIs ==
    ASSUME NEW L, Listed(L), NEW n, NEW h, At(L, n, h), n # Len(L) + 1
    PROVE  LET a == Next1(L, n, h)
           IN  /\ a \in AnAccess /\ a.op = L[n].op
               /\ a.at = L[n].at + (IF h = "half" THEN 1 ELSE 0)
               /\ a.size = IF h = "whole" THEN i.size ELSE 1
               /\ a.op \in {"read", "write"} =>
                    /\ a.at \in Address
                    /\ \A k \in 0 .. a.size - 1 : a.at + k \in Address
                    /\ h # "whole" => OnOnePage(a.at, a.size)
                    /\ ~OnOnePage(a.at, a.size) => i.size = 2
<1> DEFINE a == Next1(L, n, h)
<1>1. n \in 1 .. Len(L) /\ L[n] \in AnAccess /\ L[n].size = i.size
  BY DEF Listed, At
<1>2. L[n].size \in 1 .. 2 /\ L[n].at \in Int
  BY <1>1 DEF AnAccess
<1>3. /\ a \in AnAccess /\ a.op = L[n].op
      /\ a.at = L[n].at + (IF h = "half" THEN 1 ELSE 0)
      /\ a.size = IF h = "whole" THEN i.size ELSE 1
  BY <1>1, <1>2, SplitIs DEF Next1, At, Stage
<1>4. h # "whole" => i.size = 2
  BY DEF At
<1>5. ASSUME a.op \in {"read", "write"}
      PROVE  /\ a.at \in Address
             /\ \A k \in 0 .. a.size - 1 : a.at + k \in Address
             /\ h # "whole" => OnOnePage(a.at, a.size)
             /\ ~OnOnePage(a.at, a.size) => i.size = 2
  <2>1. \A k \in 0 .. i.size - 1 : L[n].at + k \in Address
    BY <1>1, <1>3, <1>5 DEF Listed
  <2>2. \A k \in 0 .. a.size - 1 : a.at + k \in Address
    BY <1>1, <1>2, <1>3, <1>4, <2>1
  <2>3. a.at \in Address /\ a.at \in Nat
    BY <1>1, <1>2, <1>3, <2>2 DEF Address
  <2>4. a.size = 1 => OnOnePage(a.at, a.size)
    <3>1. a.at % PageSize \in Offset
      BY <2>3, Parts
    <3>2. QED
      BY <3>1, PagingAssumption DEF OnOnePage, Offset
  <2>5. QED
    BY <1>1, <1>2, <1>3, <2>2, <2>3, <2>4
<1>6. QED
  BY <1>3, <1>5

-----------------------------------------------------------------------------
(* What an element has read                                                *)

\* The bytes from a on, of memory v
BytesOf(v, a, size) == [ k \in 1 .. size |-> v[a + k - 1] ]

\* What access a adds: bytes of memory, or of the port after the first b
Gives(a, v, b) ==
    IF a.op = "read" THEN BytesOf(v, a.at, a.size)
    ELSE IF a.op = "in" THEN [ k \in 1 .. a.size |-> PortByte(b + k) ] ELSE <<>>

GotBefore(L, v, b, n) ==
    IF n = 1 THEN <<>>
    ELSE IF n = 2 THEN Gives(L[1], v, b) ELSE Gives(L[1], v, b) \o Gives(L[2], v, b)

Got(L, v, b, n, h) ==
    GotBefore(L, v, b, n) \o
      (IF h = "half" /\ L[n].op = "read" THEN BytesOf(v, L[n].at, 1) ELSE <<>>)

\* Bytes of memory are a sequence.
LEMMA BytesType ==
    ASSUME NEW v \in [ Address -> Values ], NEW a, NEW size \in Nat,
           \A k \in 0 .. size - 1 : a + k \in Address, a \in Int
    PROVE  /\ BytesOf(v, a, size) \in Seq(Values) /\ Len(BytesOf(v, a, size)) = size
           /\ \A k \in 1 .. size : BytesOf(v, a, size)[k] = v[a + k - 1]
<1>1. \A k \in 1 .. size : v[a + k - 1] \in Values
  <2>1. \A k \in 1 .. size : k - 1 \in 0 .. size - 1 /\ a + (k - 1) = a + k - 1
    OBVIOUS
  <2>2. QED
    BY <2>1
<1>2. QED
  BY <1>1 DEF BytesOf

\* Two bytes are one and the next.
LEMMA BytesOfTwo ==
    ASSUME NEW v, NEW a \in Int
    PROVE  /\ BytesOf(v, a, 1) = << v[a] >>
           /\ BytesOf(v, a, 2) = << v[a], v[a + 1] >>
<1>1. a + 1 - 1 = a /\ a + 2 - 1 = a + 1
  OBVIOUS
<1>2. BytesOf(v, a, 1) = << v[a] >>
  BY <1>1 DEF BytesOf
<1>3. BytesOf(v, a, 2) = << v[a], v[a + 1] >>
  BY <1>1 DEF BytesOf
<1>4. QED
  BY <1>2, <1>3

\* What an access adds is a sequence of bytes.
LEMMA GivesType ==
    ASSUME NEW L, Listed(L), NEW n \in 1 .. Len(L),
           NEW v \in [ Address -> Values ], NEW b \in Nat
    PROVE  /\ Gives(L[n], v, b) \in Seq(Values)
           /\ L[n].op \in {"read", "in"} => Len(Gives(L[n], v, b)) = i.size
<1>1. /\ L[n] \in AnAccess /\ L[n].size = i.size /\ i.size \in Nat
      /\ L[n].at \in Int
  BY ListedAccess
<1>2. CASE L[n].op = "read"
  <2>1. \A k \in 0 .. i.size - 1 : L[n].at + k \in Address
    BY <1>2 DEF Listed
  <2>2. Gives(L[n], v, b) = BytesOf(v, L[n].at, i.size)
    BY <1>1, <1>2 DEF Gives
  <2>3. QED
    BY <1>1, <2>1, <2>2, BytesType
<1>3. CASE L[n].op = "in"
  <2>1. \A k \in 1 .. i.size : PortByte(b + k) \in Values
    BY <1>1 DEF Values
  <2>2. Gives(L[n], v, b) = [ k \in 1 .. i.size |-> PortByte(b + k) ]
    BY <1>1, <1>3 DEF Gives
  <2>3. QED
    BY <1>1, <2>1, <2>2
<1>4. CASE L[n].op \notin {"read", "in"}
  <2>1. Gives(L[n], v, b) = <<>>
    BY <1>4 DEF Gives
  <2>2. QED
    BY <1>4, <2>1
<1>5. QED
  BY <1>2, <1>3, <1>4

\* Each access adds what it gives.
LEMMA GotBeforeGrows ==
    ASSUME NEW L, Listed(L), NEW v \in [ Address -> Values ], NEW b \in Nat,
           NEW n \in 1 .. Len(L) + 1
    PROVE  /\ GotBefore(L, v, b, n) \in Seq(Values)
           /\ n # Len(L) + 1 =>
                GotBefore(L, v, b, n + 1) = GotBefore(L, v, b, n) \o Gives(L[n], v, b)
<1> DEFINE z == Len(L)
           x == Gives(L[1], v, b)
           y == Gives(L[2], v, b)
           got(k) == GotBefore(L, v, b, k)
<1>1. z \in 1 .. 2 /\ n \in 1 .. z + 1
  BY DEF Listed
<1>2. x \in Seq(Values) /\ (z = 2 => y \in Seq(Values))
  <2> HIDE DEF z
  <2>1. 1 \in 1 .. z /\ (z = 2 => 2 \in 1 .. z)
    BY <1>1
  <2>2. QED
    BY <2>1, GivesType DEF z
<1>3. got(1) = <<>> /\ got(2) = x /\ got(3) = x \o y
  BY DEF GotBefore
<1>4. n = 1 => Gives(L[n], v, b) = x
  OBVIOUS
<1>5. n = 2 => Gives(L[n], v, b) = y
  OBVIOUS
<1> SUFFICES
      /\ got(n) \in Seq(Values)
      /\ n # z + 1 => got(n + 1) = got(n) \o Gives(L[n], v, b)
  OBVIOUS
<1> HIDE DEF z, x, y, got
<1>6. <<>> \in Seq(Values) /\ <<>> \o x = x /\ (z = 2 => x \o y \in Seq(Values))
  BY <1>2
<1>7. CASE n = 1
  <2>1. n + 1 = 2
    BY <1>7
  <2>2. QED
    BY <1>3, <1>4, <1>6, <1>7, <2>1
<1>8. CASE n = 2
  <2>1. n + 1 = 3 /\ (n # z + 1 => z = 2)
    BY <1>1, <1>8
  <2>2. QED
    BY <1>2, <1>3, <1>5, <1>8, <2>1
<1>9. CASE n = 3
  <2>1. z = 2 /\ n = z + 1
    BY <1>1, <1>9
  <2>2. QED
    BY <1>3, <1>6, <1>9, <2>1
<1>10. QED
  <2>1. n \in 1 .. 3
    BY <1>1
  <2>2. QED
    BY <1>7, <1>8, <1>9, <2>1

\* Joining is associative.
LEMMA JoinJoin ==
    \A z, s, t \in Seq(Values) : (z \o s) \o t = z \o (s \o t)
  OBVIOUS

\* The stage after h of access n, when it is not split
After(n, h) == IF h = "halves" THEN <<n, "half">> ELSE <<n + 1, "whole">>

\* What the element has read is a sequence of values at every stage, grows
\* by the bytes of memory with a read, and not with a split or a write.
LEMMA GotGoes ==
    ASSUME NEW L, Listed(L), NEW v \in [ Address -> Values ], NEW b \in Nat,
           NEW n, NEW h, At(L, n, h), n # Len(L) + 1
    PROVE  LET a == Next1(L, n, h)
               s == After(n, h)
           IN  /\ Got(L, v, b, n, h) \in Seq(Values)
               /\ Got(L, v, b, n, "halves") = Got(L, v, b, n, "whole")
               /\ a.op = "read" =>
                    Got(L, v, b, s[1], s[2]) = Got(L, v, b, n, h) \o BytesOf(v, a.at, a.size)
               /\ a.op = "in" =>
                    Got(L, v, b, s[1], s[2]) =
                      Got(L, v, b, n, h) \o [ k \in 1 .. a.size |-> PortByte(b + k) ]
               /\ a.op \in {"write", "out"} =>
                    Got(L, v, b, s[1], s[2]) = Got(L, v, b, n, h)
<1> DEFINE a == Next1(L, n, h)
           s == After(n, h)
           before == GotBefore(L, v, b, n)
           x == BytesOf(v, L[n].at, 1)
           y == BytesOf(v, L[n].at + 1, 1)
           g == Gives(L[n], v, b)
<1>1. n \in 1 .. Len(L) /\ n \in 1 .. Len(L) + 1 /\ h \in Stage
  BY DEF At, Listed
<1>2. before \in Seq(Values) /\ GotBefore(L, v, b, n + 1) = before \o g
  BY <1>1, GotBeforeGrows
<1>3. g \in Seq(Values)
  BY <1>1, GivesType
<1>4. /\ a \in AnAccess /\ a.op = L[n].op
      /\ a.at = L[n].at + (IF h = "half" THEN 1 ELSE 0)
      /\ a.size = IF h = "whole" THEN i.size ELSE 1
  BY NextIs
<1>5. L[n] \in AnAccess /\ L[n].size = i.size /\ L[n].at \in Int
  BY <1>1, ListedAccess
<1>6. \A w \in Seq(Values) : w \o <<>> = w
  OBVIOUS
<1>7. before \o <<>> = before /\ (before \o g) \o <<>> = before \o g
  <2>1. before \o g \in Seq(Values)
    BY <1>2, <1>3
  <2>2. QED
    BY <1>2, <2>1, <1>6
<1>8. /\ Got(L, v, b, n, "whole") = before /\ Got(L, v, b, n, "halves") = before
      /\ Got(L, v, b, n + 1, "whole") = before \o g
      /\ Got(L, v, b, n, "half") =
           IF L[n].op = "read" THEN before \o x ELSE before
  BY <1>2, <1>7 DEF Got
<1>9. L[n].op = "read" => x \in Seq(Values)
  <2>1. ASSUME L[n].op = "read"
        PROVE  L[n].at + 0 \in Address
    <3>1. \A k \in 0 .. i.size - 1 : L[n].at + k \in Address
      BY <1>1, <2>1 DEF Listed
    <3>2. i.size \in 1 .. 2
      BY <1>5 DEF AnAccess
    <3>3. QED
      BY <3>1, <3>2
  <2>2. L[n].op = "read" => L[n].at \in Address
    BY <1>5, <2>1
  <2>3. x = << v[L[n].at] >>
    BY <1>5, BytesOfTwo
  <2>4. QED
    BY <2>2, <2>3
<1>10. L[n].op = "read" => g = BytesOf(v, L[n].at, i.size)
  BY <1>5 DEF Gives
<1>11. L[n].op = "in" => g = [ k \in 1 .. i.size |-> PortByte(b + k) ]
  BY <1>5 DEF Gives
<1>12. L[n].op \in {"write", "out"} => g = <<>>
  BY DEF Gives
<1>13. ASSUME L[n].op = "read", i.size = 2
       PROVE  (before \o x) \o y = before \o g
  <2>1. x = << v[L[n].at] >> /\ g = << v[L[n].at], v[L[n].at + 1] >>
    BY <1>5, <1>10, <1>13, BytesOfTwo
  <2>2. y = << v[L[n].at + 1] >>
    <3>1. L[n].at + 1 \in Int
      BY <1>5
    <3>2. QED
      BY <3>1, BytesOfTwo
  <2>3. v[L[n].at] \in Values /\ v[L[n].at + 1] \in Values
    <3>1. L[n].at + 0 \in Address /\ L[n].at + 1 \in Address
      BY <1>1, <1>13 DEF Listed
    <3>2. QED
      BY <1>5, <3>1
  <2> DEFINE c == v[L[n].at]
             d == v[L[n].at + 1]
  <2>4. c \in Values /\ d \in Values /\ x = <<c>> /\ y = <<d>> /\ g = <<c, d>>
    BY <2>1, <2>2, <2>3
  <2> HIDE DEF c, d, before, x, y, g
  <2>5. x \o y = g /\ x \in Seq(Values) /\ y \in Seq(Values)
    BY <2>4, JoinOne
  <2>6. before \in Seq(Values)
    BY <1>2
  <2>7. (before \o x) \o y = before \o (x \o y)
    BY <2>5, <2>6, JoinJoin, Zenon
  <2>8. QED
    BY <2>5, <2>7
<1>14. h # "whole" => i.size = 2 /\ L[n].op \in {"read", "write"}
  BY DEF At
<1> SUFFICES
      /\ Got(L, v, b, n, h) \in Seq(Values)
      /\ Got(L, v, b, n, "halves") = Got(L, v, b, n, "whole")
      /\ a.op = "read" =>
           Got(L, v, b, s[1], s[2]) = Got(L, v, b, n, h) \o BytesOf(v, a.at, a.size)
      /\ a.op = "in" =>
           Got(L, v, b, s[1], s[2]) =
             Got(L, v, b, n, h) \o [ k \in 1 .. a.size |-> PortByte(b + k) ]
      /\ a.op \in {"write", "out"} =>
           Got(L, v, b, s[1], s[2]) = Got(L, v, b, n, h)
  OBVIOUS
<1>15. /\ h = "halves" => s[1] = n /\ s[2] = "half"
       /\ h # "halves" => s[1] = n + 1 /\ s[2] = "whole"
  BY DEF After
<1>16. before \o x \in Seq(Values) \/ L[n].op # "read"
  BY <1>2, <1>9
<1> HIDE DEF a, s, before, x, y, g
<1>17. CASE h = "whole"
  <2>1. a.at = L[n].at /\ a.size = i.size
    BY <1>4, <1>5, <1>17
  <2>2. QED
    BY <1>2, <1>4, <1>7, <1>8, <1>10, <1>11, <1>12, <1>15, <1>17, <2>1
<1>18. CASE h = "halves"
  <2>1. a.at = L[n].at /\ a.size = 1
    BY <1>4, <1>5, <1>18
  <2>2. L[n].op = "read" => BytesOf(v, a.at, a.size) = x
    BY <2>1 DEF x
  <2>3. QED
    BY <1>2, <1>4, <1>8, <1>14, <1>15, <1>18, <2>2
<1>19. CASE h = "half"
  <2>1. a.at = L[n].at + 1 /\ a.size = 1
    BY <1>4, <1>5, <1>19
  <2>2. BytesOf(v, a.at, a.size) = y
    BY <2>1 DEF y
  <2>3. QED
    BY <1>2, <1>4, <1>7, <1>8, <1>12, <1>13, <1>14, <1>15, <1>16, <1>19, <2>2
<1>20. QED
  BY <1>1, <1>17, <1>18, <1>19 DEF Stage

\* A read adds the bytes of memory ...
ReadAdds(L, v, b, n, h) ==
    Got(L, v, b, After(n, h)[1], After(n, h)[2])
      = Got(L, v, b, n, h) \o BytesOf(v, Next1(L, n, h).at, Next1(L, n, h).size)

\* The read of access n moves what the element has read to ReadAdds.
LEMMA GotRead ==
    ASSUME NEW L, Listed(L), NEW v \in [ Address -> Values ], NEW b \in Nat,
           NEW n, NEW h, At(L, n, h), n # Len(L) + 1, Next1(L, n, h).op = "read"
    PROVE  ReadAdds(L, v, b, n, h)
<1> DEFINE a == Next1(L, n, h)
           s == After(n, h)
<1>1. /\ Got(L, v, b, n, h) \in Seq(Values)
      /\ Got(L, v, b, n, "halves") = Got(L, v, b, n, "whole")
      /\ a.op = "read" =>
           Got(L, v, b, s[1], s[2]) = Got(L, v, b, n, h) \o BytesOf(v, a.at, a.size)
      /\ a.op = "in" =>
           Got(L, v, b, s[1], s[2]) =
             Got(L, v, b, n, h) \o [ k \in 1 .. a.size |-> PortByte(b + k) ]
      /\ a.op \in {"write", "out"} =>
           Got(L, v, b, s[1], s[2]) = Got(L, v, b, n, h)
  BY GotGoes
<1> HIDE DEF a, s
<1>2. QED
  BY <1>1 DEF a, s, ReadAdds

\* ... and a write nothing.
AddsNothing(L, v, b, n, h) ==
    Got(L, v, b, After(n, h)[1], After(n, h)[2]) = Got(L, v, b, n, h)

\* Nor does a write or an output change what the element has read.
LEMMA GotWrite ==
    ASSUME NEW L, Listed(L), NEW v \in [ Address -> Values ], NEW b \in Nat,
           NEW n, NEW h, At(L, n, h), n # Len(L) + 1, Next1(L, n, h).op \in {"write", "out"}
    PROVE  AddsNothing(L, v, b, n, h)
<1>1. Got(L, v, b, After(n, h)[1], After(n, h)[2]) = Got(L, v, b, n, h)
  BY GotGoes
<1>2. QED
  BY <1>1 DEF AddsNothing

-----------------------------------------------------------------------------
(* Memory as the program sees it                                           *)

\* Where the tables t have a byte of the program
Spot(t, a) == t[PageOf(a)].frame * PageSize + (a % PageSize)

\* No two pages share a frame.
Exclusive(t) ==
    \A p, q \in ProgramPages :
      t[p].present /\ t[q].present /\ t[p].frame = t[q].frame => p = q

\* What a page that is not known to be written holds is on the disk.
Saved(t, z, d) ==
    \A p \in ProgramPages : t[p].present /\ ~t[p].dirty =>
      \A o \in Offset : d[p][o] = z[t[p].frame * PageSize + o]

\* An address has a page and a place on it.
LEMMA AddressIs ==
    ASSUME NEW a \in Address
    PROVE  /\ a \in Nat /\ PageOf(a) \in ProgramPages /\ (a % PageSize) \in Offset
           /\ a = PageOf(a) * PageSize + (a % PageSize)
<1>1. a \in Nat
  BY DEF Address
<1>2. QED
  BY <1>1, Parts, AddressParts

\* A byte of the program lies in the frame of its page ...
LEMMA SpotIs ==
    ASSUME NEW t \in Tables, NEW a \in Address
    PROVE  /\ Spot(t, a) \in Ram /\ PageOf(Spot(t, a)) = t[PageOf(a)].frame
           /\ Spot(t, a) % PageSize = a % PageSize
<1>1. PageOf(a) \in ProgramPages /\ (a % PageSize) \in Offset
  BY AddressIs
<1>2. t[PageOf(a)].frame \in FrameNo
  BY <1>1 DEF Tables, Entry
<1>3. t[PageOf(a)].frame \in Nat
  BY <1>2 DEF FrameNo
<1>4. QED
  BY <1>1, <1>2, <1>3, InRam, FrameParts DEF Spot

\* ... and no two of them lie in one place.
LEMMA SpotOne ==
    ASSUME NEW t \in Tables, Exclusive(t), NEW a \in Address, NEW b \in Address,
           t[PageOf(a)].present, t[PageOf(b)].present, Spot(t, a) = Spot(t, b)
    PROVE  a = b
<1>1. PageOf(a) \in ProgramPages /\ PageOf(b) \in ProgramPages
  BY AddressIs
<1>2. t[PageOf(a)].frame = t[PageOf(b)].frame /\ a % PageSize = b % PageSize
  BY SpotIs
<1>3. PageOf(a) = PageOf(b)
  BY <1>1, <1>2 DEF Exclusive
<1>4. /\ a = PageOf(a) * PageSize + (a % PageSize)
      /\ b = PageOf(b) * PageSize + (b % PageSize)
  BY AddressIs
<1>5. QED
  BY <1>2, <1>3, <1>4

\* The bytes of an access on one page lie one after the other.
LEMMA SpotAlong ==
    ASSUME NEW t \in Tables, NEW a \in Address, NEW n \in Nat, OnOnePage(a, n),
           NEW k \in 0 .. n - 1
    PROVE  /\ PageOf(a + k) = PageOf(a)
           /\ Spot(t, a + k) = Spot(t, a) + k
           /\ Spot(t, a) \in Nat
<1>1. a \in Nat /\ (a % PageSize) \in Offset /\ PageOf(a) \in ProgramPages
  BY AddressIs
<1>2. (a % PageSize) + k < PageSize /\ k \in Nat
  BY <1>1, PagingAssumption DEF OnOnePage, Offset
<1>3. PageOf(a + k) = PageOf(a) /\ (a + k) % PageSize = (a % PageSize) + k
  BY <1>1, <1>2, Along
<1>4. t[PageOf(a)].frame \in FrameNo
  BY <1>1 DEF Tables, Entry
<1>5. t[PageOf(a)].frame * PageSize \in Nat
  BY <1>4, PagingAssumption, SMT DEF FrameNo
<1> DEFINE f == t[PageOf(a)].frame * PageSize
           o == a % PageSize
<1>6. Spot(t, a) = f + o /\ Spot(t, a + k) = f + (o + k)
  BY <1>3 DEF Spot
<1>7. f \in Nat /\ o \in Nat
  BY <1>1, <1>5 DEF Offset
<1> HIDE DEF f, o
<1>8. QED
  BY <1>2, <1>3, <1>6, <1>7

\* What the program sees
LEMMA ViewIs ==
    ASSUME TypeOK
    PROVE  /\ View \in [ Address -> Values ]
           /\ \A a \in Address :
                View[a] = IF pte[PageOf(a)].present THEN ram[Spot(pte, a)]
                          ELSE disk[PageOf(a)][a % PageSize]
<1>1. View = [ a \in Address |->
                 IF pte[PageOf(a)].present THEN ram[Spot(pte, a)]
                 ELSE disk[PageOf(a)][a % PageSize] ]
  BY ProgramsAssumption DEF View, Spot, Address
<1>2. ASSUME NEW a \in Address
      PROVE  /\ ram[Spot(pte, a)] \in Values
             /\ disk[PageOf(a)][a % PageSize] \in Values
  <2>1. Spot(pte, a) \in Ram
    BY SpotIs DEF TypeOK
  <2>2. PageOf(a) \in ProgramPages /\ (a % PageSize) \in Offset
    BY AddressIs
  <2>3. QED
    BY <2>1, <2>2 DEF TypeOK
<1>3. QED
  BY <1>1, <1>2

\* What an access on one page reads before anything is written
LEMMA ReadIs ==
    ASSUME TypeOK, wrcache = <<>>, NEW a \in Address, NEW n \in Nat \ {0},
           OnOnePage(a, n), \A k \in 0 .. n - 1 : a + k \in Address,
           pte[PageOf(a)].present
    PROVE  PhysBytes(pte[PageOf(a)].frame * PageSize + (a % PageSize), n)
             = BytesOf(View, a, n)
<1> DEFINE x == Spot(pte, a)
<1>1. pte \in Tables
  BY DEF TypeOK
<1>2. ASSUME NEW k \in 1 .. n
      PROVE  PhysByte(x + k - 1) = View[a + k - 1]
  <2> DEFINE j == k - 1
  <2>1. j \in 0 .. n - 1 /\ x + k - 1 = x + j /\ a + k - 1 = a + j
    <3>1. x \in Nat /\ a \in Nat
      <4>1. 0 \in 0 .. n - 1
        OBVIOUS
      <4>2. QED
        BY <1>1, <4>1, SpotAlong, AddressIs
    <3> HIDE DEF x
    <3>2. QED
      BY <3>1
  <2> HIDE DEF j
  <2>2. Spot(pte, a + j) = x + j /\ PageOf(a + j) = PageOf(a)
    BY <1>1, <2>1, SpotAlong
  <2>3. a + j \in Address
    BY <2>1
  <2>4. View[a + j] = ram[Spot(pte, a + j)]
    BY <2>2, <2>3, ViewIs
  <2>5. PhysByte(x + j) = ram[x + j]
    BY NoWrites DEF TypeOK
  <2>6. QED
    BY <2>1, <2>2, <2>4, <2>5
<1>3. PhysBytes(x, n) = [ k \in 1 .. n |-> PhysByte(x + k - 1) ]
  BY DEF PhysBytes
<1>4. QED
  BY <1>2, <1>3 DEF BytesOf, Spot

-----------------------------------------------------------------------------
(* What an element has written                                             *)

\* The first d bytes of x are written from address at on, nothing else is,
\* and the pages they go to are noted.
Wrote(t, z, w, at, d, x) ==
    /\ \A k \in 0 .. d - 1 :
         /\ t[PageOf(at + k)].present /\ t[PageOf(at + k)].dirty
         /\ CommittedOf(z, w)[Spot(t, at + k)] = x[k + 1]
    /\ \A a \in Ram : (\A k \in 0 .. d - 1 : a # Spot(t, at + k)) =>
                        CommittedOf(z, w)[a] = z[a]
    /\ d = 0 => w = <<>>

\* Before anything is written
LEMMA NothingWrote ==
    ASSUME NEW t, NEW z \in [ Ram -> Values ], NEW at, NEW x
    PROVE  Wrote(t, z, <<>>, at, 0, x)
<1>1. CommittedOf(z, <<>>) = [ a \in Ram |-> z[a] ]
  <2>1. \A a : { n \in DOMAIN <<>> : Within(<<>>[n], a) } = {}
    OBVIOUS
  <2>2. QED
    BY <2>1, Zenon DEF CommittedOf
<1>2. \A a \in Ram : CommittedOf(z, <<>>)[a] = z[a]
  BY <1>1
<1>3. 0 .. 0 - 1 = {}
  OBVIOUS
<1>4. QED
  BY <1>2, <1>3, Zenon DEF Wrote

\* Tables that differ only in what they note
Noting(t, u) ==
    /\ t \in Tables /\ u \in Tables
    /\ \A p \in ProgramPages :
         /\ u[p].present = t[p].present /\ u[p].frame = t[p].frame
         /\ u[p].user = t[p].user /\ u[p].write = t[p].write
         /\ t[p].dirty => u[p].dirty

\* They have everything in the same place.
LEMMA NotingSpot ==
    ASSUME NEW t, NEW u, Noting(t, u), NEW a \in Address
    PROVE  /\ Spot(u, a) = Spot(t, a)
           /\ u[PageOf(a)].present = t[PageOf(a)].present
           /\ t[PageOf(a)].dirty => u[PageOf(a)].dirty
  BY AddressIs DEF Noting, Spot

\* Within one write
LEMMA WithinIs ==
    ASSUME NEW e, e[1] \in Nat, Len(e[2]) \in Nat, NEW a \in Int
    PROVE  Within(e, a) <=> \E k \in 0 .. Len(e[2]) - 1 : a = e[1] + k
<1> DEFINE z == e[1]
           c == Len(e[2])
<1>1. Within(e, a) <=> a \in z .. z + c - 1
  BY DEF Within
<1>2. z \in Nat /\ c \in Nat
  OBVIOUS
<1> SUFFICES Within(e, a) <=> \E k \in 0 .. c - 1 : a = z + k
  OBVIOUS
<1> HIDE DEF z, c
<1>3. ASSUME a \in z .. z + c - 1
      PROVE  \E k \in 0 .. c - 1 : a = z + k
  <2>1. a - z \in 0 .. c - 1 /\ a = z + (a - z)
    BY <1>2, <1>3
  <2>2. QED
    BY <2>1
<1>4. ASSUME NEW k \in 0 .. c - 1, a = z + k
      PROVE  a \in z .. z + c - 1
  BY <1>2, <1>4
<1>5. QED
  BY <1>1, <1>3, <1>4

\* The next c bytes, on one page that is noted, are written too.
LEMMA WroteMore ==
    ASSUME NEW t, NEW u, Noting(t, u), Exclusive(t),
           NEW z \in [ Ram -> Values ], NEW w \in Writes,
           NEW at \in Int, NEW d \in Nat, NEW c \in Nat \ {0}, NEW x, NEW y \in Seq(Values),
           \A k \in 0 .. d + c - 1 : at + k \in Address,
           Wrote(t, z, w, at, d, x),
           OnOnePage(at + d, c), t[PageOf(at + d)].present, u[PageOf(at + d)].dirty,
           Len(y) = c, \A k \in 1 .. c : y[k] = x[d + k]
    PROVE  Wrote(u, z, Append(w, <<Spot(t, at + d), y>>), at, d + c, x)
<1> DEFINE g == Spot(t, at + d)
           e == <<g, y>>
           v == Append(w, e)
<1>1. t \in Tables /\ u \in Tables
  BY DEF Noting
<1>2. at + d \in Address
  <2>1. d \in 0 .. d + c - 1
    OBVIOUS
  <2>2. QED
    BY <2>1
<1>3. ASSUME NEW k \in 0 .. c - 1
      PROVE  /\ Spot(t, at + (d + k)) = g + k
             /\ PageOf(at + (d + k)) = PageOf(at + d)
  <2> DEFINE a == at + d
  <2>1. a + k = at + (d + k) /\ c \in Nat
    OBVIOUS
  <2>2. a \in Address /\ OnOnePage(a, c)
    BY <1>2
  <2>3. g = Spot(t, a)
    OBVIOUS
  <2> HIDE DEF a, g
  <2>4. /\ PageOf(a + k) = PageOf(a)
        /\ Spot(t, a + k) = Spot(t, a) + k
    BY <1>1, <2>1, <2>2, SpotAlong
  <2>5. QED
    BY <2>1, <2>3, <2>4 DEF a
<1>4. g \in Nat /\ e \in Nat \X Seq(Values)
  <2>1. g \in Ram
    BY <1>1, <1>2, SpotIs
  <2> HIDE DEF g
  <2>2. g \in Nat
    BY <2>1, RamParts
  <2>3. QED
    BY <2>2
<1>5. \A a \in Ram : a \in Int
  BY DEF Ram
<1>6. ASSUME NEW a \in Ram
      PROVE  CommittedOf(z, v)[a] =
               IF \E k \in 0 .. c - 1 : a = g + k THEN y[a - g + 1]
               ELSE CommittedOf(z, w)[a]
  <2>1. Within(e, a) <=> \E k \in 0 .. c - 1 : a = g + k
    <3> HIDE DEF g
    <3>1. c \in Nat /\ a \in Int /\ g \in Nat /\ Len(y) = c
      BY <1>4, <1>5
    <3>2. e[1] = g /\ e[2] = y
      OBVIOUS
    <3> HIDE DEF e
    <3>3. Len(e[2]) = c
      BY <3>1, <3>2
    <3>4. Within(e, a) <=> \E k \in 0 .. Len(e[2]) - 1 : a = e[1] + k
      BY <3>1, <3>2, <3>3, WithinIs
    <3>5. QED
      BY <3>2, <3>3, <3>4
  <2>2. e[1] = g /\ e[2] = y
    OBVIOUS
  <2>3. CommittedOf(z, Append(w, e))[a] =
          IF Within(e, a) THEN e[2][a - e[1] + 1] ELSE CommittedOf(z, w)[a]
    BY <1>4, CommittedAppend
  <2> HIDE DEF g, e
  <2>4. QED
    BY <2>1, <2>2, <2>3
<1> HIDE DEF g, v
<1>7. ASSUME NEW k \in 0 .. d - 1
      PROVE  /\ u[PageOf(at + k)].present /\ u[PageOf(at + k)].dirty
             /\ CommittedOf(z, v)[Spot(u, at + k)] = x[k + 1]
  <2>1. k \in 0 .. d + c - 1
    OBVIOUS
  <2>2. at + k \in Address
    BY <2>1
  <2>3. /\ t[PageOf(at + k)].present /\ t[PageOf(at + k)].dirty
        /\ CommittedOf(z, w)[Spot(t, at + k)] = x[k + 1]
    BY DEF Wrote
  <2>4. /\ Spot(u, at + k) = Spot(t, at + k)
        /\ u[PageOf(at + k)].present /\ u[PageOf(at + k)].dirty
    BY <2>2, <2>3, NotingSpot
  <2>5. ASSUME NEW j \in 0 .. c - 1, Spot(t, at + k) = g + j
        PROVE  FALSE
    <3>1. d + j \in 0 .. d + c - 1
      OBVIOUS
    <3>2. at + (d + j) \in Address /\ Spot(t, at + (d + j)) = Spot(t, at + k)
      BY <1>3, <2>5, <3>1
    <3>3. t[PageOf(at + (d + j))].present
      BY <1>3
    <3>4. at + (d + j) = at + k
      BY <1>1, <2>2, <2>3, <3>2, <3>3, SpotOne
    <3>5. QED
      BY <3>4
  <2>6. Spot(t, at + k) \in Ram
    BY <1>1, <2>2, SpotIs
  <2>7. CommittedOf(z, v)[Spot(t, at + k)] = CommittedOf(z, w)[Spot(t, at + k)]
    BY <1>6, <2>5, <2>6
  <2>8. QED
    BY <2>3, <2>4, <2>7
<1>8. ASSUME NEW j \in 0 .. c - 1
      PROVE  /\ u[PageOf(at + (d + j))].present /\ u[PageOf(at + (d + j))].dirty
             /\ CommittedOf(z, v)[Spot(u, at + (d + j))] = x[d + j + 1]
  <2>1. d + j \in 0 .. d + c - 1
    OBVIOUS
  <2>2. at + (d + j) \in Address
    BY <2>1
  <2>3. PageOf(at + (d + j)) = PageOf(at + d) /\ Spot(t, at + (d + j)) = g + j
    BY <1>3
  <2>4. /\ Spot(u, at + (d + j)) = g + j
        /\ u[PageOf(at + (d + j))].present /\ u[PageOf(at + (d + j))].dirty
    BY <1>2, <2>2, <2>3, NotingSpot
  <2>5. g + j \in Ram
    BY <1>1, <2>2, <2>3, SpotIs
  <2>6. CommittedOf(z, v)[g + j] = y[(g + j) - g + 1]
    <3> DEFINE a == g + j
    <3>1. a \in Ram /\ \E k \in 0 .. c - 1 : a = g + k
      BY <2>5
    <3> HIDE DEF a
    <3>2. CommittedOf(z, v)[a] = y[a - g + 1]
      BY <1>6, <3>1
    <3>3. QED
      BY <3>2, Zenon DEF a
  <2>7. (g + j) - g + 1 = j + 1 /\ j + 1 \in 1 .. c /\ d + (j + 1) = d + j + 1
    BY <1>4
  <2>8. y[j + 1] = x[d + (j + 1)]
    BY <2>7
  <2>9. QED
    BY <2>4, <2>6, <2>7, <2>8
<1>9. ASSUME NEW k \in 0 .. d + c - 1
      PROVE  /\ u[PageOf(at + k)].present /\ u[PageOf(at + k)].dirty
             /\ CommittedOf(z, v)[Spot(u, at + k)] = x[k + 1]
  <2>1. CASE k < d
    <3>1. k \in 0 .. d - 1
      BY <2>1
    <3>2. QED
      BY <1>7, <3>1
  <2>2. CASE k >= d
    <3>1. k - d \in 0 .. c - 1 /\ d + (k - d) = k
      BY <2>2
    <3>2. QED
      BY <1>8, <3>1
  <2>3. QED
    BY <2>1, <2>2
<1>10. ASSUME NEW a \in Ram, \A k \in 0 .. d + c - 1 : a # Spot(u, at + k)
       PROVE  CommittedOf(z, v)[a] = z[a]
  <2>1. ASSUME NEW k \in 0 .. d - 1
        PROVE  a # Spot(t, at + k)
    <3>1. k \in 0 .. d + c - 1
      OBVIOUS
    <3>2. at + k \in Address /\ a # Spot(u, at + k)
      BY <1>10, <3>1
    <3>3. QED
      BY <3>2, NotingSpot
  <2>2. ASSUME NEW j \in 0 .. c - 1, a = g + j
        PROVE  FALSE
    <3>1. d + j \in 0 .. d + c - 1
      OBVIOUS
    <3>2. at + (d + j) \in Address /\ a # Spot(u, at + (d + j))
      BY <1>10, <3>1
    <3>3. a # Spot(t, at + (d + j))
      BY <3>2, NotingSpot
    <3>4. QED
      BY <1>3, <2>2, <3>3
  <2>3. CommittedOf(z, v)[a] = CommittedOf(z, w)[a]
    BY <1>6, <2>2
  <2>4. QED
    BY <2>1, <2>3 DEF Wrote
<1>11. d + c # 0
  OBVIOUS
<1>12. Wrote(u, z, v, at, d + c, x)
  BY <1>9, <1>10, <1>11 DEF Wrote
<1>13. QED
  BY <1>12 DEF v, g

-----------------------------------------------------------------------------
(* The invariant                                                           *)

\* How many bytes of the write are in the cache
Done(L, n, h) ==
    IF L[Len(L)].op # "write" \/ n < Len(L) THEN 0
    ELSE IF n > Len(L) THEN L[Len(L)].size ELSE IF h = "half" THEN 1 ELSE 0

\* What the element writes, once it has read
Value == IF i.op = "stos" THEN Accumulator ELSE loaded

\* The bytes that the port gave before this element
Before == IF i.op = "ins" /\ loaded # <<>> THEN taken - i.size ELSE taken

\* The element stands at stage h of access n; without a fault it has read and
\* written what it should.
Running(n, h) ==
    /\ At(Accesses, n, h) /\ acc = Left(Accesses, n, h)
    /\ fault.kind = "none" =>
         /\ Before \in Nat /\ loaded = Got(Accesses, View, Before, n, h)
         /\ Wrote(pte, ram, wrcache, regs.di, Done(Accesses, n, h), Value)

\* The elements that are over
Elapsed == IF i.rep = "none" THEN 0 ELSE program.cx - regs.cx

Placed ==
    /\ Elapsed \in Nat
    /\ phase = "run" /\ i.rep # "none" => regs.cx > 0
    /\ regs.si = IF i.op \in Sources THEN program.si + Elapsed * i.step ELSE program.si
    /\ regs.di = IF i.op \in Destinations THEN program.di + Elapsed * i.step
                 ELSE program.di

FaultOK ==
    /\ fault.kind # "none" => fault.page \in ProgramPages /\ phase \in {"run", "fault"}
    /\ phase = "fault" => fault.kind # "none"
    /\ fault.kind = "absent" => ~pte[fault.page].present

MemoryOK == BufferOK(tlb, pte) /\ Exclusive(pte) /\ Saved(pte, ram, disk)

\* Memory that does not change stays in order.
LEMMA MemoryKept ==
    ASSUME MemoryOK, UNCHANGED <<pte, tlb, ram, disk>>
    PROVE  MemoryOK'
<1>1. BufferOK(tlb', pte')
  BY DEF MemoryOK
<1>2. Exclusive(pte') /\ Saved(pte', ram', disk')
  BY DEF MemoryOK
<1>3. QED
  BY <1>1, <1>2 DEF MemoryOK

IInv ==
    /\ TypeOK /\ MemoryOK /\ FaultOK
    /\ phase # "run" => wrcache = <<>> /\ acc = <<>> /\ loaded = <<>>
    /\ phase # "over" => Placed
    /\ phase = "run" => \E n \in 1 .. 3, h \in Stage : Running(n, h)

-----------------------------------------------------------------------------
(* The accesses of an element                                              *)

\* What the instructions do with memory and port
Shaped(L) ==
    /\ i.op = "ins" => Len(L) = 2 /\ L[1].op = "in" /\ L[2].op = "write"
    /\ i.op = "outs" => Len(L) = 2 /\ L[1].op = "read" /\ L[2].op = "out"
    /\ \A n \in 1 .. Len(L) : L[n].op = "in" => i.op = "ins"
    /\ \A n \in 1 .. Len(L) : L[n].op = "out" => i.op = "outs"
    /\ \A n \in 1 .. Len(L) : L[n].op = "write" =>
         n = Len(L) /\ L[n].at = regs.di /\ (i.op = "stos" \/ n = 2)

\* The program of a state is one of those assumed.
LEMMA TheProgram ==
    ASSUME TypeOK
    PROVE  /\ i.op \in Sources \cup Destinations
           /\ i.rep \in {"none", "rep", "repe", "repne"}
           /\ i.size \in 1 .. 2 /\ i.step \in Int
           /\ program.si \in Int /\ program.di \in Int /\ program.cx \in Nat
           /\ program.access.user \in BOOLEAN /\ program.access.protect \in BOOLEAN
           /\ program.resident \in BOOLEAN
           /\ OperandsOf(program)
  BY ProgramsAssumption DEF TypeOK, i

\* The operands of an element are the program's.
LEMMA OperandsHere ==
    ASSUME TypeOK, Placed, i.rep # "none" => regs.cx > 0, NEW k \in 0 .. i.size - 1
    PROVE  /\ regs.si \in Int /\ regs.di \in Int
           /\ i.op \in Sources => regs.si + k \in Address
           /\ i.op \in Destinations => regs.di + k \in Address
<1> DEFINE n == Elapsed
           z == ElementsOf(program)
<1>1. regs.si \in Int /\ regs.di \in Int /\ regs.cx \in Nat
  BY DEF TypeOK
<1>2. n \in 0 .. z - 1
  <2>1. n \in Nat
    BY DEF Placed
  <2>2. CASE i.rep = "none"
    BY <2>2 DEF Elapsed, ElementsOf, i
  <2>3. CASE i.rep # "none"
    <3>1. n = program.cx - regs.cx /\ regs.cx > 0 /\ z = program.cx
      BY <2>3 DEF Elapsed, ElementsOf, i
    <3>2. program.cx \in Nat
      BY TheProgram
    <3> HIDE DEF n, z
    <3>3. QED
      BY <1>1, <2>1, <3>1, <3>2
  <2>4. QED
    BY <2>2, <2>3
<1>3. /\ i.op \in Sources => InPages(program.si + n * i.step + k)
      /\ i.op \in Destinations => InPages(program.di + n * i.step + k)
  <2>1. OperandsOf(program)
    BY TheProgram
  <2> HIDE DEF n, z
  <2>2. QED
    BY <1>2, <2>1 DEF OperandsOf, i, z
<1>4. \A a : InPages(a) => a \in Address
  BY AddressParts DEF InPages, ProgramPages
<1>5. /\ i.op \in Sources => InPages(regs.si + k)
      /\ i.op \in Destinations => InPages(regs.di + k)
  BY <1>3 DEF Placed
<1>6. QED
  BY <1>1, <1>4, <1>5

\* The accesses are as the lemmas above assume.
LEMMA AccessesAre ==
    ASSUME TypeOK, Placed, i.rep # "none" => regs.cx > 0
    PROVE  Listed(Accesses) /\ Shaped(Accesses)
<1>1. /\ i.op \in Sources \cup Destinations /\ i.size \in 1 .. 2
      /\ regs.si \in Int /\ regs.di \in Int
  BY TheProgram DEF TypeOK
<1>2. /\ i.op \in Sources => \A k \in 0 .. i.size - 1 : regs.si + k \in Address
      /\ i.op \in Destinations => \A k \in 0 .. i.size - 1 : regs.di + k \in Address
  BY OperandsHere
<1> DEFINE z == i.size
           s == regs.si
           d == regs.di
           R(a) == [op |-> "read", at |-> a, size |-> z]
           W(a) == [op |-> "write", at |-> a, size |-> z]
           P(o) == [op |-> o, at |-> 0, size |-> z]
<1>3. /\ R(s) \in AnAccess /\ R(d) \in AnAccess /\ W(d) \in AnAccess
      /\ P("in") \in AnAccess /\ P("out") \in AnAccess
  BY <1>1 DEF AnAccess
<1>4. /\ i.op = "movs" => Accesses = << R(s), W(d) >>
      /\ i.op = "cmps" => Accesses = << R(s), R(d) >>
      /\ i.op = "stos" => Accesses = << W(d) >>
      /\ i.op = "lods" => Accesses = << R(s) >>
      /\ i.op = "scas" => Accesses = << R(d) >>
      /\ i.op = "ins"  => Accesses = << P("in"), W(d) >>
      /\ i.op = "outs" => Accesses = << R(s), P("out") >>
  BY DEF Accesses, Read, Write, Port
<1>5. i.op \in {"movs", "cmps", "stos", "lods", "scas", "ins", "outs"}
  BY <1>1 DEF Sources, Destinations
<1>6. /\ R(s).op = "read" /\ R(d).op = "read" /\ W(d).op = "write"
      /\ P("in").op = "in" /\ P("out").op = "out"
      /\ R(s).at = s /\ R(d).at = d /\ W(d).at = d
      /\ R(s).size = z /\ R(d).size = z /\ W(d).size = z
      /\ P("in").size = z /\ P("out").size = z
  OBVIOUS
<1>7. /\ i.op \in {"movs", "cmps", "lods", "outs"} =>
           \A k \in 0 .. z - 1 : s + k \in Address
      /\ i.op \in {"movs", "cmps", "stos", "scas", "ins"} =>
           \A k \in 0 .. z - 1 : d + k \in Address
  BY <1>2 DEF Sources, Destinations
<1>8. ASSUME NEW x \in AnAccess, x.size = z, Accesses = <<x>>,
             x.op \in {"read", "write"} => \A k \in 0 .. z - 1 : x.at + k \in Address,
             x.op = "write" => x.at = d /\ i.op = "stos",
             x.op \notin {"in", "out"}, i.op \notin {"ins", "outs"}
      PROVE  Listed(Accesses) /\ Shaped(Accesses)
  <2> DEFINE L == Accesses
  <2>1. Len(L) = 1 /\ L[1] = x /\ L \in Seq(AnAccess)
    BY <1>8
  <2>2. \A n \in 1 .. Len(L) : n = 1 /\ L[n] = x
    BY <2>1
  <2> HIDE DEF L
  <2>3. Listed(L)
    BY <1>8, <2>1, <2>2 DEF Listed
  <2>4. Shaped(L)
    BY <1>8, <2>1, <2>2 DEF Shaped
  <2>5. QED
    BY <2>3, <2>4 DEF L
<1>9. ASSUME NEW x \in AnAccess, NEW y \in AnAccess, x.size = z, y.size = z,
              Accesses = <<x, y>>,
              x.op = "read" => \A k \in 0 .. z - 1 : x.at + k \in Address,
              y.op \in {"read", "write"} => \A k \in 0 .. z - 1 : y.at + k \in Address,
              x.op \in {"read", "in"}, y.op # "in",
              x.op = "in" <=> i.op = "ins", y.op = "out" <=> i.op = "outs",
              i.op = "ins" => y.op = "write",
              y.op = "write" => y.at = d
       PROVE  Listed(Accesses) /\ Shaped(Accesses)
  <2> DEFINE L == Accesses
  <2>1. Len(L) = 2 /\ L[1] = x /\ L[2] = y /\ L \in Seq(AnAccess)
    BY <1>9
  <2>2. \A n \in 1 .. Len(L) : (n = 1 /\ L[n] = x) \/ (n = 2 /\ L[n] = y)
    BY <2>1
  <2> HIDE DEF L
  <2>3. Listed(L)
    BY <1>9, <2>1, <2>2 DEF Listed
  <2>4. Shaped(L)
    BY <1>9, <2>1, <2>2 DEF Shaped
  <2>5. QED
    BY <2>3, <2>4 DEF L
<1> HIDE DEF R, W, P, z, s, d
<1>10. CASE i.op = "movs"
  BY <1>3, <1>4, <1>6, <1>7, <1>9, <1>10
<1>11. CASE i.op = "cmps"
  BY <1>3, <1>4, <1>6, <1>7, <1>9, <1>11
<1>12. CASE i.op = "stos"
  BY <1>3, <1>4, <1>6, <1>7, <1>8, <1>12
<1>13. CASE i.op = "lods"
  BY <1>3, <1>4, <1>6, <1>7, <1>8, <1>13
<1>14. CASE i.op = "scas"
  BY <1>3, <1>4, <1>6, <1>7, <1>8, <1>14
<1>15. CASE i.op = "ins"
  BY <1>3, <1>4, <1>6, <1>7, <1>9, <1>15
<1>16. CASE i.op = "outs"
  BY <1>3, <1>4, <1>6, <1>7, <1>9, <1>16
<1>17. QED
  BY <1>5, <1>10, <1>11, <1>12, <1>13, <1>14, <1>15, <1>16

-----------------------------------------------------------------------------
(* The steps of an element                                                 *)

\* To note a page is all that an access may do to the tables.
LEMMA NotingOne ==
    ASSUME NEW t \in Tables, NEW p \in ProgramPages, NEW u,
           u \in {t, [t EXCEPT ![p].dirty = TRUE]}
    PROVE  Noting(t, u)
<1>1. CASE u = t
  BY <1>1 DEF Noting
<1>2. CASE u = [t EXCEPT ![p].dirty = TRUE]
  <2>1. /\ u \in Tables
        /\ \A q \in ProgramPages :
             /\ u[q].present = t[q].present /\ u[q].frame = t[q].frame
             /\ u[q].user = t[q].user /\ u[q].write = t[q].write
             /\ t[q].dirty => u[q].dirty
    BY <1>2 DEF Tables, Entry
  <2>2. QED
    BY <2>1 DEF Noting
<1>3. QED
  BY <1>1, <1>2

\* It moves nothing.
LEMMA NotingKeeps ==
    ASSUME TypeOK, Noting(pte, pte'), Exclusive(pte), Saved(pte, ram, disk),
           UNCHANGED <<ram, disk>>
    PROVE  View' = View /\ Exclusive(pte') /\ Saved(pte', ram', disk')
<1>1. ASSUME NEW a \in Address
      PROVE  /\ pte'[PageOf(a)].present = pte[PageOf(a)].present
             /\ pte'[PageOf(a)].frame = pte[PageOf(a)].frame
  BY AddressIs DEF Noting
<1>2. View' = View
  <2>1. DOMAIN Contents = Address
    BY ProgramsAssumption DEF Address
  <2>2. QED
    BY <1>1, <2>1 DEF View
<1>3. Exclusive(pte')
  BY DEF Exclusive, Noting
<1>4. Saved(pte', ram', disk')
  BY DEF Saved, Noting
<1>5. QED
  BY <1>2, <1>3, <1>4

\* As long as program and registers stay, so do the accesses.
LEMMA SameElement ==
    ASSUME UNCHANGED <<program, regs>>
    PROVE  /\ i' = i /\ Accesses' = Accesses /\ Elapsed' = Elapsed
           /\ \A L : (Listed(L)' <=> Listed(L)) /\ (Shaped(L)' <=> Shaped(L))
           /\ \A L, n, h : At(L, n, h)' <=> At(L, n, h)
<1>1. i' = i
  BY DEF i
<1>2. Accesses' = Accesses
  BY <1>1 DEF Accesses, Read, Write, Port
<1>3. Elapsed' = Elapsed
  BY <1>1 DEF Elapsed
<1>4. \A L : (Listed(L)' <=> Listed(L)) /\ (Shaped(L)' <=> Shaped(L))
  BY <1>1 DEF Listed, Shaped
<1>5. \A L, n, h : At(L, n, h)' <=> At(L, n, h)
  BY <1>1 DEF At
<1>6. QED
  BY <1>1, <1>2, <1>3, <1>4, <1>5

\* The facts about an element that runs
LEMMA RunFacts ==
    ASSUME IInv, phase = "run"
    PROVE  /\ Listed(Accesses) /\ Shaped(Accesses) /\ Placed
           /\ View \in [ Address -> Values ]
           /\ \E n, h : Running(n, h)
           /\ \A n, h : Running(n, h) =>
                /\ At(Accesses, n, h) /\ n \in 1 .. 3
                /\ acc = <<>> <=> n = Len(Accesses) + 1
<1>1. Placed /\ TypeOK
  BY DEF IInv
<1>2. Listed(Accesses) /\ Shaped(Accesses)
  BY <1>1, AccessesAre DEF Placed
<1>3. View \in [ Address -> Values ]
  BY <1>1, ViewIs
<1>4. \E n, h : Running(n, h)
  BY DEF IInv
<1>5. ASSUME NEW n, NEW h, Running(n, h)
      PROVE  /\ At(Accesses, n, h) /\ n \in 1 .. 3
             /\ acc = <<>> <=> n = Len(Accesses) + 1
  <2>1. At(Accesses, n, h) /\ acc = Left(Accesses, n, h)
    BY <1>5 DEF Running
  <2>2. acc = <<>> <=> n = Len(Accesses) + 1
    <3> DEFINE L == Accesses
    <3>1. Listed(L) /\ At(L, n, h) /\ acc = Left(L, n, h)
      BY <1>2, <2>1
    <3> HIDE DEF L
    <3>2. Left(L, n, h) = <<>> <=> n = Len(L) + 1
      BY <3>1, LeftGoes, Zenon
    <3>3. QED
      BY <3>1, <3>2 DEF L
  <2>3. n \in 1 .. 3
    <3> DEFINE k == Len(Accesses)
    <3>1. k \in 1 .. 2 /\ n \in 1 .. k + 1
      BY <1>2, <2>1 DEF Listed, At
    <3> HIDE DEF k
    <3>2. QED
      BY <3>1
  <2>4. QED
    BY <2>1, <2>2, <2>3
<1>6. QED
  BY <1>1, <1>2, <1>3, <1>4, <1>5

\* Where the element goes after the access at hand
LEMMA AfterAt ==
    ASSUME NEW L, Listed(L), NEW n, NEW h, At(L, n, h), n # Len(L) + 1
    PROVE  LET s == After(n, h)
           IN  /\ At(L, s[1], s[2]) /\ s[2] \in Stage
               /\ Tail(Left(L, n, h)) = Left(L, s[1], s[2])
<1>1. n \in 1 .. Len(L) /\ Len(L) \in Nat
  BY DEF At, Listed
<1>2. Tail(Left(L, n, h)) = IF h = "halves" THEN Left(L, n, "half")
                            ELSE Left(L, n + 1, "whole")
  BY LeftGoes
<1>3. CASE h = "halves"
  BY <1>1, <1>2, <1>3 DEF At, After, Stage
<1>4. CASE h # "halves"
  BY <1>1, <1>2, <1>4 DEF At, After, Stage
<1>5. QED
  BY <1>3, <1>4

\* cpu_read_access_split and cpu_write_access_split
LEMMA SplitInv ==
    ASSUME IInv, SplitAccess
    PROVE  IInv' /\ View' = View
<1>1. /\ TypeOK /\ MemoryOK /\ FaultOK /\ phase = "run" /\ acc # <<>>
      /\ acc' = Split(Head(acc)) \o Tail(acc)
      /\ Head(acc).op \in {"read", "write"}
      /\ ~OnOnePage(Head(acc).at, Head(acc).size)
      /\ UNCHANGED <<memvars, system, regs, phase, loaded, fault, sent, taken>>
  BY DEF SplitAccess, Spans, IInv
<1> DEFINE L == Accesses
<1>2. Listed(L) /\ Shaped(L) /\ Placed /\ View \in [ Address -> Values ]
  BY <1>1, RunFacts
<1>3. PICK n, h : Running(n, h)
  BY <1>1, RunFacts
<1>4. At(L, n, h) /\ n # Len(L) + 1 /\ acc = Left(L, n, h) /\ n \in 1 .. 3
  BY <1>1, <1>3, RunFacts DEF Running
<1>5. Head(acc) = Next1(L, n, h)
  BY <1>2, <1>4, LeftGoes
<1>6. h = "whole" /\ i.size = 2 /\ L[n].op \in {"read", "write"}
  <2> DEFINE a == Next1(L, n, h)
  <2>1. /\ a.op = L[n].op
        /\ a.op \in {"read", "write"} =>
             /\ h # "whole" => OnOnePage(a.at, a.size)
             /\ ~OnOnePage(a.at, a.size) => i.size = 2
    BY <1>2, <1>4, NextIs
  <2>2. QED
    BY <1>1, <1>5, <2>1
<1>7. acc' = Left(L, n, "halves") /\ acc' \in Seq(AnAccess)
  <2>1. Split(L[n]) \o Tail(Left(L, n, h)) = Left(L, n, "halves")
    BY <1>2, <1>4, <1>6, LeftGoes
  <2>2. Head(acc) = L[n]
    BY <1>5, <1>6 DEF Next1
  <2>3. At(L, n, "halves")
    BY <1>4, <1>6 DEF At, Stage
  <2>4. Left(L, n, "halves") \in Seq(AnAccess)
    BY <1>2, <2>3, LeftGoes
  <2>5. QED
    BY <1>1, <1>4, <2>1, <2>2, <2>4
<1>8. View' = View /\ i' = i /\ Accesses' = L /\ Elapsed' = Elapsed
  <2>1. View' = View
    BY <1>1 DEF View, memvars, system
  <2>2. QED
    BY <1>1, <2>1, SameElement DEF system
<1>9. TypeOK'
  BY <1>1, <1>7 DEF TypeOK, memvars, system
<1>10. MemoryOK' /\ FaultOK' /\ Placed'
  <2>1. MemoryOK'
    BY <1>1 DEF MemoryOK, memvars, system
  <2>2. FaultOK'
    BY <1>1 DEF FaultOK, memvars
  <2>3. Placed'
    BY <1>1, <1>2, <1>8 DEF Placed, system
  <2>4. QED
    BY <2>1, <2>2, <2>3
<1>11. Running(n, "halves")'
  <2>1. At(L, n, "halves")
    BY <1>4, <1>6 DEF At, Stage
  <2>2. At(Accesses, n, "halves")'
    BY <1>8, <2>1 DEF At
  <2>3. Before' = Before /\ Value' = Value
    BY <1>1, <1>8 DEF Before, Value
  <2>4. ASSUME fault.kind = "none"
        PROVE  /\ Before \in Nat
               /\ loaded = Got(L, View, Before, n, "halves")
               /\ Wrote(pte, ram, wrcache, regs.di, Done(L, n, "halves"), Value)
    <3>1. /\ Before \in Nat
          /\ loaded = Got(L, View, Before, n, "whole")
          /\ Wrote(pte, ram, wrcache, regs.di, Done(L, n, "whole"), Value)
      BY <1>3, <1>6, <2>4 DEF Running
    <3>2. Got(L, View, Before, n, "halves") = Got(L, View, Before, n, "whole")
      BY DEF Got
    <3>3. Done(L, n, "halves") = Done(L, n, "whole")
      BY DEF Done
    <3>4. QED
      BY <3>1, <3>2, <3>3
  <2>5. UNCHANGED <<fault, loaded, pte, ram, wrcache, regs>>
    BY <1>1 DEF memvars
  <2>6. fault'.kind = "none" =>
          /\ Before' \in Nat
          /\ loaded' = Got(Accesses', View', Before', n, "halves")
          /\ Wrote(pte', ram', wrcache', regs'.di, Done(Accesses', n, "halves"), Value')
    BY <1>8, <2>3, <2>4, <2>5
  <2>7. QED
    BY <1>7, <1>8, <2>2, <2>6 DEF Running
<1>12. QED
  <2>1. phase' = "run"
    BY <1>1
  <2>2. "halves" \in Stage
    BY DEF Stage
  <2>3. IInv'
    BY <1>4, <1>9, <1>10, <1>11, <2>1, <2>2 DEF IInv
  <2>4. QED
    BY <1>8, <2>3

\* An access that is no write leaves nothing in the cache.
LEMMA NoneDone ==
    ASSUME NEW L, Listed(L), NEW n, NEW h, At(L, n, h), n # Len(L) + 1,
           L[n].op # "write"
    PROVE  LET s == After(n, h)
           IN  Done(L, n, h) = 0 /\ Done(L, s[1], s[2]) = 0
<1> DEFINE k == Len(L)
           s == After(n, h)
<1>1. k \in Nat /\ n \in 1 .. k
  BY DEF Listed, At
<1>2. L[k].op = "write" => n < k
  BY <1>1
<1>3. /\ h = "halves" => s[1] = n /\ s[2] = "half"
      /\ h # "halves" => s[1] = n + 1 /\ s[2] = "whole"
  BY DEF After
<1>4. Done(L, n, h) = 0
  BY <1>2 DEF Done
<1>5. Done(L, s[1], s[2]) = 0
  <2>1. CASE L[k].op # "write"
    BY <2>1 DEF Done
  <2>2. CASE L[k].op = "write"
    <3>1. s[1] < k \/ (s[1] = k /\ s[2] = "whole")
      BY <1>1, <1>2, <1>3, <2>2
    <3>2. s[1] <= k
      BY <1>1, <3>1, <1>2, <2>2, <1>3
    <3>3. QED
      BY <1>1, <1>3, <3>1, <3>2 DEF Done
  <2>3. QED
    BY <2>1, <2>2
<1>6. QED
  BY <1>4, <1>5

\* What a translation does to the state's memory, whatever it finds
LEMMA WayOK ==
    ASSUME TypeOK, MemoryOK, acc # <<>>, NEW write \in BOOLEAN,
           PageOf(Head(acc).at) \in ProgramPages
    PROVE  LET t == Way(write)
               p == PageOf(Head(acc).at)
           IN  /\ t.fault \in {"none", "absent", "denied"}
               /\ BufferOK(t.tlb, t.pte) /\ Noting(pte, t.pte)
               /\ t.fault = "absent" => ~t.pte[p].present
               /\ t.fault = "none" =>
                    /\ pte[p].present /\ t.frame = pte[p].frame
                    /\ write => t.pte[p].dirty
               /\ pte[p].present /\ pte[p].write /\ pte[p].user => t.fault = "none"
<1> DEFINE access == [ user |-> program.access.user,
                       protect |-> program.access.protect, write |-> write ]
           p == PageOf(Head(acc).at)
           t == Translated(p, access)
<1>1. access \in Modes /\ access.write = write
  BY TheProgram DEF Modes
<1>2. pte \in Tables /\ BufferOK(tlb, pte)
  BY DEF TypeOK, MemoryOK
<1>3. Way(write) = t
  BY DEF Way
<1>4. pte[p].write /\ pte[p].user => Allowed(access, pte[p])
  BY DEF Allowed
<1>5. t.pte \in {pte, [pte EXCEPT ![p].dirty = TRUE]}
  <2> HIDE DEF access, p
  <2>1. QED
    BY <1>1, <1>2, TranslatedOK DEF p
<1>6. Noting(pte, t.pte)
  <2> HIDE DEF t, p
  <2>1. QED
    BY <1>2, <1>5, NotingOne DEF p
<1> HIDE DEF access
<1>7. /\ t.fault \in {"none", "absent", "denied"}
      /\ BufferOK(t.tlb, t.pte)
      /\ t.fault # "none" => t.pte = pte
      /\ t.fault = "absent" => ~pte[p].present
      /\ t.fault = "none" =>
           /\ pte[p].present /\ t.frame = pte[p].frame
           /\ access.write => t.pte[p].dirty
      /\ pte[p].present /\ Allowed(access, pte[p]) => t.fault = "none"
  BY <1>1, <1>2, TranslatedOK
<1> HIDE DEF t, p
<1>8. t.fault = "absent" => ~t.pte[p].present
  BY <1>7
<1>9. QED
  BY <1>1, <1>3, <1>4, <1>6, <1>7, <1>8 DEF p

\* cpu_read_u8, cpu_read_u16 on one page
LEMMA ReadInv ==
    ASSUME IInv, ReadAccess
    PROVE  IInv' /\ View' = View
<1> DEFINE a == Head(acc)
           p == PageOf(a.at)
           t == Way(FALSE)
           junk == [ k \in 1 .. a.size |-> Junk ]
           L == Accesses
<1>1. /\ TypeOK /\ MemoryOK /\ FaultOK /\ phase = "run" /\ acc # <<>>
      /\ a.op = "read" /\ OnOnePage(a.at, a.size) /\ acc' = Tail(acc)
      /\ UNCHANGED <<ram, wrcache, system, regs, phase, sent, taken>>
  BY DEF ReadAccess, Spans, IInv
<1>2. Listed(L) /\ Shaped(L) /\ Placed /\ View \in [ Address -> Values ]
  BY <1>1, RunFacts
<1>3. PICK n, h : Running(n, h)
  BY <1>1, RunFacts
<1>4. At(L, n, h) /\ n # Len(L) + 1 /\ acc = Left(L, n, h) /\ n \in 1 .. 3
  BY <1>1, <1>3, RunFacts DEF Running
<1> DEFINE s == After(n, h)
<1>5. /\ At(L, s[1], s[2]) /\ s[2] \in Stage /\ acc' = Left(L, s[1], s[2])
      /\ s[1] \in 1 .. 3 /\ acc' \in Seq(AnAccess)
  <2>1. At(L, s[1], s[2]) /\ s[2] \in Stage /\ acc' = Left(L, s[1], s[2])
    BY <1>1, <1>2, <1>4, AfterAt
  <2>2. s[1] \in 1 .. 3
    <3> DEFINE z == Len(L)
    <3>1. z \in 1 .. 2 /\ s[1] \in 1 .. z + 1
      BY <1>2, <2>1 DEF Listed, At
    <3> HIDE DEF z, s
    <3>2. QED
      BY <3>1
  <2>3. Left(L, s[1], s[2]) \in Seq(AnAccess)
    BY <1>2, <2>1, LeftGoes
  <2>4. QED
    BY <2>1, <2>2, <2>3
<1>6. a = Next1(L, n, h)
  BY <1>2, <1>4, LeftGoes
<1>7. /\ a.op = L[n].op /\ a \in AnAccess /\ a.at \in Address
      /\ \A k \in 0 .. a.size - 1 : a.at + k \in Address
  <2> DEFINE b == Next1(L, n, h)
  <2>1. /\ b \in AnAccess /\ b.op = L[n].op
        /\ b.op \in {"read", "write"} =>
             /\ b.at \in Address
             /\ \A k \in 0 .. b.size - 1 : b.at + k \in Address
    BY <1>2, <1>4, NextIs
  <2> HIDE DEF b, a
  <2>2. a = b
    BY <1>6 DEF b
  <2>3. QED
    BY <1>1, <2>1, <2>2
<1>8. a.size \in Nat \ {0} /\ p \in ProgramPages
  <2>1. a.size \in 1 .. 2
    BY <1>7 DEF AnAccess
  <2>2. QED
    BY <1>7, <2>1, AddressIs
<1>9. i.op # "ins"
  <2>1. n \in 1 .. Len(L)
    BY <1>4 DEF At
  <2>2. QED
    BY <1>1, <1>2, <1>7, <2>1 DEF Shaped
<1>10. Done(L, n, h) = 0 /\ Done(L, s[1], s[2]) = 0
  BY <1>1, <1>2, <1>4, <1>7, NoneDone
<1>11. junk \in Seq(Values)
  <2>1. Junk \in Values
    BY DEF Values
  <2>2. QED
    BY <1>8, <2>1
<1>12. /\ t.fault \in {"none", "absent", "denied"}
       /\ BufferOK(t.tlb, t.pte) /\ Noting(pte, t.pte)
       /\ t.fault = "absent" => ~t.pte[p].present
       /\ t.fault = "none" => pte[p].present /\ t.frame = pte[p].frame
  BY <1>1, <1>8, WayOK
<1>13. /\ fault.kind # "none" => loaded' = loaded \o junk /\ UNCHANGED <<tlb, pte, fault>>
       /\ fault.kind = "none" =>
            /\ tlb' = t.tlb /\ pte' = t.pte
            /\ t.fault # "none" =>
                 fault' = [page |-> p, kind |-> t.fault] /\ loaded' = loaded \o junk
            /\ t.fault = "none" =>
                 /\ loaded' = loaded \o PhysBytes(Physical(t, a), a.size)
                 /\ UNCHANGED fault
  BY DEF ReadAccess
<1> HIDE DEF junk
<1>14. BufferOK(tlb', pte') /\ Noting(pte, pte')
  <2>1. Noting(pte, pte) /\ BufferOK(tlb, pte)
    BY <1>1 DEF TypeOK, MemoryOK, Noting
  <2> HIDE DEF t
  <2>2. QED
    BY <1>12, <1>13, <2>1
<1>15. loaded \in Seq(Values) /\ loaded \o junk \in Seq(Values)
  BY <1>1, <1>11 DEF TypeOK
<1>16. fault' \in [ page : Nat, kind : {"none", "absent", "denied"} ] /\ FaultOK'
  <2>1. fault \in [ page : Nat, kind : {"none", "absent", "denied"} ]
    BY <1>1 DEF TypeOK
  <2>2. phase' = "run"
    BY <1>1
  <2>3. p \in Nat
    BY <1>8 DEF ProgramPages
  <2> HIDE DEF t, p
  <2>4. CASE fault.kind # "none"
    <3>1. fault' = fault /\ pte' = pte
      BY <1>13, <2>4
    <3>2. QED
      BY <1>1, <2>1, <2>2, <3>1 DEF FaultOK
  <2>5. CASE fault.kind = "none" /\ t.fault # "none"
    <3>1. fault' = [page |-> p, kind |-> t.fault] /\ pte' = t.pte
      BY <1>13, <2>5
    <3>2. fault'.page = p /\ fault'.kind = t.fault
      BY <3>1
    <3>3. fault' \in [ page : Nat, kind : {"none", "absent", "denied"} ]
      BY <1>12, <2>3, <3>1
    <3>4. QED
      BY <1>8, <1>12, <2>2, <3>1, <3>2, <3>3 DEF FaultOK
  <2>6. CASE fault.kind = "none" /\ t.fault = "none"
    <3>1. fault' = fault
      BY <1>13, <2>6
    <3>2. QED
      BY <2>1, <2>2, <2>6, <3>1 DEF FaultOK
  <2>7. QED
    BY <2>4, <2>5, <2>6
<1>17. Before = taken
  BY <1>9 DEF Before
<1>18. ASSUME fault'.kind = "none"
       PROVE  /\ fault.kind = "none" /\ wrcache = <<>>
              /\ loaded' = Got(L, View, taken, s[1], s[2]) /\ loaded' \in Seq(Values)
  <2>1. fault.kind = "none" /\ t.fault = "none"
    <3> HIDE DEF t
    <3>1. fault.kind = "none"
      BY <1>13, <1>18
    <3>2. t.fault = "none"
      <4>1. SUFFICES ASSUME t.fault # "none"
                     PROVE  FALSE
        OBVIOUS
      <4>2. fault' = [page |-> p, kind |-> t.fault]
        BY <1>13, <3>1, <4>1
      <4>3. QED
        BY <1>18, <4>1, <4>2
    <3>3. QED
      BY <3>1, <3>2
  <2>2. loaded = Got(L, View, taken, n, h) /\ wrcache = <<>>
    BY <1>3, <1>10, <1>17, <2>1 DEF Running, Wrote
  <2>3. PhysBytes(Physical(t, a), a.size) = BytesOf(View, a.at, a.size)
    <3>1. t.frame = pte[p].frame /\ pte[p].present
      BY <1>12, <2>1
    <3>2. Physical(t, a) = pte[p].frame * PageSize + (a.at % PageSize)
      BY <3>1 DEF Physical
    <3>3. PhysBytes(pte[p].frame * PageSize + (a.at % PageSize), a.size)
            = BytesOf(View, a.at, a.size)
      BY <1>1, <1>7, <1>8, <2>2, <3>1, ReadIs
    <3>4. QED
      BY <3>2, <3>3
  <2>4. taken \in Nat
    BY <1>1 DEF TypeOK
  <2>5. Got(L, View, taken, s[1], s[2])
          = Got(L, View, taken, n, h) \o BytesOf(View, a.at, a.size)
    <3> DEFINE b == Next1(L, n, h)
    <3>1. a = b /\ b.op = "read" /\ Listed(L) /\ View \in [ Address -> Values ]
          /\ At(L, n, h) /\ n # Len(L) + 1
      BY <1>1, <1>2, <1>4, <1>6
    <3> HIDE DEF L, a
    <3>2. ReadAdds(L, View, taken, n, h)
      BY <2>4, <3>1, GotRead
    <3>3. QED
      BY <3>1, <3>2 DEF ReadAdds
  <2>6. loaded' = loaded \o BytesOf(View, a.at, a.size)
    BY <1>13, <2>1, <2>3
  <2>7. BytesOf(View, a.at, a.size) \in Seq(Values)
    <3>1. a.at \in Int /\ a.size \in Nat
      BY <1>7, <1>8 DEF AnAccess
    <3>2. QED
      BY <1>2, <1>7, <3>1, BytesType
  <2>8. QED
    BY <1>15, <2>1, <2>2, <2>5, <2>6, <2>7
<1>19. loaded' \in Seq(Values)
  <2>1. CASE fault'.kind = "none"
    BY <1>18, <2>1
  <2>2. CASE fault'.kind # "none"
    <3> HIDE DEF t
    <3>1. loaded' = loaded \o junk
      BY <1>13, <2>2
    <3>2. QED
      BY <1>15, <3>1
  <2>3. QED
    BY <2>1, <2>2
<1>20. View' = View /\ Exclusive(pte') /\ Saved(pte', ram', disk')
  BY <1>1, <1>14, NotingKeeps DEF MemoryOK, system
<1>21. i' = i /\ Accesses' = L /\ Elapsed' = Elapsed
  BY <1>1, SameElement DEF system
<1>22. TypeOK'
  BY <1>1, <1>5, <1>14, <1>16, <1>19 DEF TypeOK, system, Noting, BufferOK
<1>23. Running(s[1], s[2])'
  <2>1. At(Accesses, s[1], s[2])'
    BY <1>5, <1>21 DEF At
  <2>2. Before' = taken
    BY <1>1, <1>9, <1>21 DEF Before
  <2>3. ASSUME fault'.kind = "none"
        PROVE  /\ Before' \in Nat
               /\ loaded' = Got(Accesses', View', Before', s[1], s[2])
               /\ Wrote(pte', ram', wrcache', regs'.di, Done(Accesses', s[1], s[2]), Value')
    <3>1. taken \in Nat /\ ram' \in [ Ram -> Values ]
      BY <1>1 DEF TypeOK
    <3>2. wrcache' = <<>>
      BY <1>1, <1>18, <2>3
    <3>3. Wrote(pte', ram', <<>>, regs'.di, 0, Value')
      BY <3>1, NothingWrote
    <3>4. QED
      BY <1>10, <1>18, <1>20, <1>21, <2>2, <2>3, <3>1, <3>2, <3>3
  <2> HIDE DEF s
  <2>4. QED
    BY <1>5, <1>21, <2>1, <2>3 DEF Running
<1>24. QED
  <2>1. Placed'
    BY <1>1, <1>2, <1>21 DEF Placed, system
  <2>2. MemoryOK'
    BY <1>14, <1>20 DEF MemoryOK
  <2>3. phase' = "run"
    BY <1>1
  <2> HIDE DEF s
  <2>4. IInv'
    BY <1>5, <1>16, <1>22, <1>23, <2>1, <2>2, <2>3 DEF IInv
  <2>5. QED
    BY <1>20, <2>4

\* How much of a write is done after the access at hand
LEMMA DoneGoes ==
    ASSUME NEW L, Listed(L), NEW n, NEW h, At(L, n, h), n = Len(L), L[n].op = "write"
    PROVE  LET a == Next1(L, n, h)
               s == After(n, h)
           IN  /\ Done(L, n, h) = IF h = "half" THEN 1 ELSE 0
               /\ Done(L, s[1], s[2]) = Done(L, n, h) + a.size
               /\ Done(L, s[1], s[2]) <= i.size
               /\ a.at = L[n].at + Done(L, n, h)
<1> DEFINE z == Len(L)
           a == Next1(L, n, h)
           s == After(n, h)
<1>1. n \in 1 .. Len(L) /\ z \in 1 .. 2
  BY DEF Listed
<1>2. /\ a.at = L[n].at + (IF h = "half" THEN 1 ELSE 0)
      /\ a.size = IF h = "whole" THEN i.size ELSE 1
  <2>1. n # Len(L) + 1
    BY <1>1
  <2>2. QED
    BY <2>1, NextIs
<1>3. L[n].size = i.size /\ i.size \in 1 .. 2 /\ L[n].at \in Int
  BY <1>1, ListedAccess
<1>4. h \in Stage /\ (h # "whole" => i.size = 2)
  BY DEF At
<1>5. /\ h = "halves" => s[1] = n /\ s[2] = "half"
      /\ h # "halves" => s[1] = n + 1 /\ s[2] = "whole"
  BY DEF After
<1>6. \A k, g : /\ k = n => Done(L, k, g) = IF g = "half" THEN 1 ELSE 0
                /\ k = n + 1 => Done(L, k, g) = i.size
  BY <1>1, <1>3 DEF Done
<1> SUFFICES
      /\ Done(L, n, h) = IF h = "half" THEN 1 ELSE 0
      /\ Done(L, s[1], s[2]) = Done(L, n, h) + a.size
      /\ Done(L, s[1], s[2]) <= i.size
      /\ a.at = L[n].at + Done(L, n, h)
  OBVIOUS
<1> HIDE DEF a, s, z
<1>7. QED
  BY <1>2, <1>3, <1>4, <1>5, <1>6 DEF Stage

\* What is to be written has been read.
LEMMA ValueIs ==
    ASSUME TypeOK, NEW L, L = Accesses, Listed(L), Shaped(L), NEW n, NEW h, At(L, n, h),
           View \in [ Address -> Values ], Before \in Nat,
           loaded = Got(L, View, Before, n, h), n >= Len(L), L[Len(L)].op = "write"
    PROVE  Value \in Seq(Values) /\ Len(Value) >= i.size
<1>1. i.size \in 1 .. 2
  BY TheProgram
<1>2. CASE i.op = "stos"
  <2>1. \E c, d \in Values : Accumulator = <<c, d>>
    <3>1. Accumulator[1] \in Values /\ Accumulator[2] \in Values
      BY DEF Values
    <3>2. Accumulator = <<Accumulator[1], Accumulator[2]>>
      BY ProgramsAssumption
    <3>3. QED
      BY <3>1, <3>2, Zenon
  <2>2. Accumulator \in Seq(Values) /\ Len(Accumulator) = 2
    BY <2>1
  <2>3. Value = Accumulator
    BY <1>2 DEF Value
  <2>4. Value \in Seq(Values) /\ Len(Value) = 2
    BY <2>2, <2>3
  <2>5. QED
    BY <1>1, <2>4
<1>3. CASE i.op # "stos"
  <2> DEFINE k == Len(L)
             g == Gives(L[1], View, Before)
  <2>1. k \in 1 .. 2 /\ k \in 1 .. Len(L) /\ n \in 1 .. k + 1
    BY DEF Listed, At
  <2>2. k = 2
    BY <1>3, <2>1 DEF Shaped
  <2>3. L[1].op \in {"read", "in"} /\ L[2].op = "write" /\ 1 \in 1 .. Len(L) /\ 2 \in 1 .. Len(L)
    BY <2>2 DEF Listed
  <2>4. g \in Seq(Values) /\ Len(g) = i.size
    BY <2>3, GivesType
  <2>5. /\ GotBefore(L, View, Before, 2) = g
        /\ GotBefore(L, View, Before, 3) = g \o <<>>
    BY <2>3 DEF GotBefore, Gives
  <2>6. n = 2 \/ n = 3
    <3> HIDE DEF k
    <3>1. n >= k
      BY DEF k
    <3>2. QED
      BY <2>1, <2>2, <3>1
  <2>7. h = "half" => L[n].op # "read"
    <3>1. h = "half" => n = 2
      BY <2>2, <2>6 DEF At
    <3>2. QED
      BY <2>3, <3>1
  <2>8. loaded = GotBefore(L, View, Before, n) \o <<>>
    BY <2>7 DEF Got
  <2> HIDE DEF g
  <2>9. g \o <<>> = g
    BY <2>4
  <2>10. loaded = g
    BY <2>5, <2>6, <2>8, <2>9
  <2>11. Value = loaded
    BY <1>3 DEF Value
  <2>12. QED
    BY <1>1, <2>4, <2>10, <2>11
<1>4. QED
  BY <1>2, <1>3

\* The bytes that an access stores are the next ones of the value.
LEMMA StoredIs ==
    ASSUME NEW c \in Nat \ {0}, NEW d \in Nat, Value \in Seq(Values),
           Len(Value) >= i.size, i.size \in 1 .. 2, d + c <= i.size,
           NEW a, a.size = c,
           (IF c < i.size /\ Len(acc) = 1 THEN 2 ELSE 1) = d + 1
    PROVE  /\ Stored(a) \in Seq(Values) /\ Len(Stored(a)) = c
           /\ \A k \in 1 .. c : Stored(a)[k] = Value[d + k]
<1> DEFINE z == Len(Value)
           from == d + 1
           to == d + c
<1>1. Stored(a) = SubSeq(Value, from, from + c - 1)
  BY DEF Stored, Value
<1>2. from + c - 1 = to
  OBVIOUS
<1>3. z \in Nat /\ to <= z /\ from \in Nat \ {0} /\ to \in Nat /\ from <= to
  <2>1. z \in Nat /\ z >= i.size
    OBVIOUS
  <2> HIDE DEF z
  <2>2. QED
    BY <2>1
<1>4. Stored(a) = SubSeq(Value, from, to)
  BY <1>1, <1>2
<1>5. \A s \in Seq(Values), x, y \in Nat \ {0} : x <= y /\ y <= Len(s) =>
        /\ SubSeq(s, x, y) \in Seq(Values) /\ Len(SubSeq(s, x, y)) = y - x + 1
        /\ \A k \in 1 .. y - x + 1 : SubSeq(s, x, y)[k] = s[x + k - 1]
  OBVIOUS
<1> HIDE DEF from, to
<1>6. /\ Stored(a) \in Seq(Values) /\ Len(Stored(a)) = to - from + 1
      /\ \A k \in 1 .. to - from + 1 : Stored(a)[k] = Value[from + k - 1]
  <2>1. from \in Nat \ {0} /\ to \in Nat \ {0} /\ to <= Len(Value)
    BY <1>3 DEF z
  <2>2. QED
    BY <1>3, <1>4, <1>5, <2>1
<1>7. to - from + 1 = c /\ \A k \in 1 .. c : from + k - 1 = d + k
  BY DEF from, to
<1>8. QED
  BY <1>6, <1>7

\* cpu_write_u8, cpu_write_u16 on one page
LEMMA WriteInv ==
    ASSUME IInv, WriteAccess
    PROVE  IInv' /\ View' = View
<1> DEFINE a == Head(acc)
           p == PageOf(a.at)
           t == Way(TRUE)
           L == Accesses
<1>1. /\ TypeOK /\ MemoryOK /\ FaultOK /\ phase = "run" /\ acc # <<>>
      /\ a.op = "write" /\ OnOnePage(a.at, a.size) /\ acc' = Tail(acc)
      /\ UNCHANGED <<ram, system, regs, phase, loaded, sent, taken>>
  BY DEF WriteAccess, Spans, IInv
<1>2. Listed(L) /\ Shaped(L) /\ Placed /\ View \in [ Address -> Values ]
  BY <1>1, RunFacts
<1>3. PICK n, h : Running(n, h)
  BY <1>1, RunFacts
<1>4. At(L, n, h) /\ n # Len(L) + 1 /\ acc = Left(L, n, h) /\ n \in 1 .. 3
  BY <1>1, <1>3, RunFacts DEF Running
<1> DEFINE s == After(n, h)
           d == Done(L, n, h)
           c == a.size
           y == Stored(a)
<1>5. /\ At(L, s[1], s[2]) /\ s[2] \in Stage /\ acc' = Left(L, s[1], s[2])
      /\ s[1] \in 1 .. 3 /\ acc' \in Seq(AnAccess)
  <2>1. At(L, s[1], s[2]) /\ s[2] \in Stage /\ acc' = Left(L, s[1], s[2])
    BY <1>1, <1>2, <1>4, AfterAt
  <2>2. s[1] \in 1 .. 3
    <3> DEFINE z == Len(L)
    <3>1. z \in 1 .. 2 /\ s[1] \in 1 .. z + 1
      BY <1>2, <2>1 DEF Listed, At
    <3> HIDE DEF z, s
    <3>2. QED
      BY <3>1
  <2>3. Left(L, s[1], s[2]) \in Seq(AnAccess)
    BY <1>2, <2>1, LeftGoes
  <2>4. QED
    BY <2>1, <2>2, <2>3
<1>6. a = Next1(L, n, h)
  BY <1>2, <1>4, LeftGoes
<1>7. /\ a.op = L[n].op /\ a \in AnAccess /\ a.at \in Address
      /\ \A k \in 0 .. a.size - 1 : a.at + k \in Address
      /\ a.size = IF h = "whole" THEN i.size ELSE 1
  <2> DEFINE b == Next1(L, n, h)
  <2>1. /\ b \in AnAccess /\ b.op = L[n].op
        /\ b.size = IF h = "whole" THEN i.size ELSE 1
        /\ b.op \in {"read", "write"} =>
             /\ b.at \in Address
             /\ \A k \in 0 .. b.size - 1 : b.at + k \in Address
    BY <1>2, <1>4, NextIs
  <2> HIDE DEF b, a
  <2>2. a = b
    BY <1>6 DEF b
  <2>3. QED
    BY <1>1, <2>1, <2>2
<1>8. a.size \in Nat \ {0} /\ p \in ProgramPages
  <2>1. a.size \in 1 .. 2
    BY <1>7 DEF AnAccess
  <2>2. QED
    BY <1>7, <2>1, AddressIs
<1>9. /\ n = Len(L) /\ L[n].op = "write" /\ L[n].at = regs.di
      /\ n \in 1 .. Len(L)
  <2>1. n \in 1 .. Len(L)
    BY <1>4 DEF At
  <2>2. QED
    BY <1>1, <1>2, <1>7, <2>1 DEF Shaped
<1>10. /\ t.fault \in {"none", "absent", "denied"}
       /\ BufferOK(t.tlb, t.pte) /\ Noting(pte, t.pte)
       /\ t.fault = "absent" => ~t.pte[p].present
       /\ t.fault = "none" => pte[p].present /\ t.frame = pte[p].frame /\ t.pte[p].dirty
  BY <1>1, <1>8, WayOK
<1>11. /\ fault.kind # "none" => UNCHANGED <<tlb, pte, fault, wrcache>>
       /\ fault.kind = "none" =>
            /\ tlb' = t.tlb /\ pte' = t.pte
            /\ t.fault # "none" =>
                 fault' = [page |-> p, kind |-> t.fault] /\ UNCHANGED wrcache
            /\ t.fault = "none" =>
                 wrcache' = Append(wrcache, <<Physical(t, a), y>>) /\ UNCHANGED fault
  BY DEF WriteAccess
<1>12. BufferOK(tlb', pte') /\ Noting(pte, pte')
  <2>1. Noting(pte, pte) /\ BufferOK(tlb, pte)
    BY <1>1 DEF TypeOK, MemoryOK, Noting
  <2> HIDE DEF t
  <2>2. QED
    BY <1>10, <1>11, <2>1
<1>13. fault' \in [ page : Nat, kind : {"none", "absent", "denied"} ] /\ FaultOK'
  <2>1. fault \in [ page : Nat, kind : {"none", "absent", "denied"} ]
    BY <1>1 DEF TypeOK
  <2>2. phase' = "run"
    BY <1>1
  <2>3. p \in Nat
    BY <1>8 DEF ProgramPages
  <2> HIDE DEF t, p
  <2>4. CASE fault.kind # "none"
    <3>1. fault' = fault /\ pte' = pte
      BY <1>11, <2>4
    <3>2. QED
      BY <1>1, <2>1, <2>2, <3>1 DEF FaultOK
  <2>5. CASE fault.kind = "none" /\ t.fault # "none"
    <3>1. fault' = [page |-> p, kind |-> t.fault] /\ pte' = t.pte
      BY <1>11, <2>5
    <3>2. fault'.page = p /\ fault'.kind = t.fault
      BY <3>1
    <3>3. fault' \in [ page : Nat, kind : {"none", "absent", "denied"} ]
      BY <1>10, <2>3, <3>1
    <3>4. QED
      BY <1>8, <1>10, <2>2, <3>1, <3>2, <3>3 DEF FaultOK
  <2>6. CASE fault.kind = "none" /\ t.fault = "none"
    <3>1. fault' = fault
      BY <1>11, <2>6
    <3>2. QED
      BY <2>1, <2>2, <2>6, <3>1 DEF FaultOK
  <2>7. QED
    BY <2>4, <2>5, <2>6
<1>14. View' = View /\ Exclusive(pte') /\ Saved(pte', ram', disk')
  BY <1>1, <1>12, NotingKeeps DEF MemoryOK, system
<1>15. i' = i /\ Accesses' = L /\ Elapsed' = Elapsed
  BY <1>1, SameElement DEF system
<1>16. /\ d \in Nat /\ d + c <= i.size /\ a.at = regs.di + d
       /\ Done(L, s[1], s[2]) = d + c /\ d = (IF h = "half" THEN 1 ELSE 0)
  <2> DEFINE b == Next1(L, n, h)
  <2>1. /\ Done(L, n, h) = IF h = "half" THEN 1 ELSE 0
        /\ Done(L, s[1], s[2]) = Done(L, n, h) + b.size
        /\ Done(L, s[1], s[2]) <= i.size
        /\ b.at = L[n].at + Done(L, n, h)
    BY <1>2, <1>4, <1>9, DoneGoes
  <2> HIDE DEF s, a, b, L
  <2>2. a = b
    BY <1>6 DEF b
  <2>3. QED
    BY <1>9, <2>1, <2>2
<1>17. i.size \in 1 .. 2 /\ (h # "whole" => i.size = 2)
  BY <1>1, <1>4, TheProgram DEF At
<1>18. (IF c < i.size /\ Len(acc) = 1 THEN 2 ELSE 1) = d + 1
  <2> DEFINE z == Len(acc)
  <2>1. z = IF h = "halves" THEN Len(L) - n + 2 ELSE Len(L) - n + 1
    BY <1>2, <1>4, LeftGoes
  <2>2. n \in Int /\ Len(L) - n = 0
    BY <1>4, <1>9
  <2>3. z = IF h = "halves" THEN 2 ELSE 1
    BY <2>1, <2>2
  <2>4. h \in Stage
    BY <1>4 DEF At
  <2>5. c = IF h = "whole" THEN i.size ELSE 1
    BY <1>7
  <2>6. d = (IF h = "half" THEN 1 ELSE 0)
    BY <1>16
  <2> HIDE DEF c, d
  <2>7. (IF c < i.size /\ z = 1 THEN 2 ELSE 1) = d + 1
    <3> HIDE DEF z
    <3>1. CASE h = "whole"
      BY <1>17, <2>3, <2>5, <2>6, <3>1
    <3>2. CASE h = "halves"
      BY <1>17, <2>3, <2>5, <2>6, <3>2
    <3>3. CASE h = "half"
      BY <1>17, <2>3, <2>5, <2>6, <3>3
    <3>4. QED
      BY <2>4, <3>1, <3>2, <3>3 DEF Stage
  <2>8. QED
    BY <2>7 DEF z
<1>19. ASSUME fault'.kind = "none"
       PROVE  /\ Before \in Nat /\ loaded = Got(L, View, Before, s[1], s[2])
              /\ Wrote(pte', ram, wrcache', regs.di, d + c, Value)
              /\ wrcache' \in Seq(Nat \X Seq(Values))
  <2>1. fault.kind = "none" /\ t.fault = "none"
    <3> HIDE DEF t
    <3>1. fault.kind = "none"
      BY <1>11, <1>19
    <3>2. t.fault = "none"
      <4>1. SUFFICES ASSUME t.fault # "none"
                     PROVE  FALSE
        OBVIOUS
      <4>2. fault' = [page |-> p, kind |-> t.fault]
        BY <1>11, <3>1, <4>1
      <4>3. QED
        BY <1>19, <4>1, <4>2
    <3>3. QED
      BY <3>1, <3>2
  <2>2. /\ Before \in Nat /\ loaded = Got(L, View, Before, n, h)
        /\ Wrote(pte, ram, wrcache, regs.di, d, Value)
    BY <1>3, <2>1 DEF Running
  <2>3. Got(L, View, Before, s[1], s[2]) = Got(L, View, Before, n, h)
    <3> DEFINE b == Next1(L, n, h)
    <3>1. a = b /\ b.op \in {"write", "out"} /\ Listed(L) /\ View \in [ Address -> Values ]
          /\ At(L, n, h) /\ n # Len(L) + 1
      BY <1>1, <1>2, <1>4, <1>6
    <3> HIDE DEF L, a
    <3>2. AddsNothing(L, View, Before, n, h)
      BY <2>2, <3>1, GotWrite
    <3>3. QED
      BY <3>2 DEF AddsNothing
  <2>4. Value \in Seq(Values) /\ Len(Value) >= i.size
    <3>1. n >= Len(L) /\ L[Len(L)].op = "write"
      <4> DEFINE z == Len(L)
      <4>1. n = z /\ L[z].op = "write"
        BY <1>9
      <4>2. n \in Int
        BY <1>4
      <4> HIDE DEF z
      <4>3. n >= z
        BY <4>1, <4>2
      <4>4. QED
        BY <4>1, <4>3 DEF z
    <3>2. QED
      BY <1>1, <1>2, <1>4, <2>2, <3>1, ValueIs
  <2>5. y \in Seq(Values) /\ Len(y) = c /\ \A k \in 1 .. c : y[k] = Value[d + k]
    BY <1>8, <1>16, <1>17, <1>18, <2>4, StoredIs, ZenonT(60)
  <2>6. Physical(t, a) = Spot(pte, regs.di + d)
    <3>1. t.frame = pte[p].frame
      BY <1>10, <2>1
    <3>2. QED
      BY <1>16, <3>1 DEF Physical, Spot
  <2>7. wrcache' = Append(wrcache, <<Spot(pte, regs.di + d), y>>)
    BY <1>11, <2>1, <2>6
  <2>8. regs.di \in Int /\ wrcache \in Writes /\ ram \in [ Ram -> Values ]
    BY <1>1 DEF TypeOK, Writes
  <2>9. \A k \in 0 .. d + c - 1 : regs.di + k \in Address
    <3>1. \A k \in 0 .. i.size - 1 : L[n].at + k \in Address
      BY <1>2, <1>9 DEF Listed
    <3>2. c \in Nat \ {0} /\ L[n].at = regs.di
      BY <1>8, <1>9
    <3> HIDE DEF L, c, d
    <3>3. QED
      BY <1>16, <1>17, <3>1, <3>2
  <2>10. /\ OnOnePage(regs.di + d, c) /\ pte[PageOf(regs.di + d)].present
         /\ pte'[PageOf(regs.di + d)].dirty
    <3>1. OnOnePage(a.at, c) /\ pte[PageOf(a.at)].present
      BY <1>1, <1>10, <2>1
    <3>2. pte'[p].dirty
      BY <1>10, <1>11, <2>1
    <3>3. QED
      BY <1>16, <3>1, <3>2
  <2>11. Wrote(pte', ram, wrcache', regs.di, d + c, Value)
    <3>1. d \in Nat /\ c \in Nat \ {0} /\ Exclusive(pte) /\ Noting(pte, pte')
      BY <1>1, <1>8, <1>12, <1>16 DEF MemoryOK
    <3> HIDE DEF d, c, y
    <3>2. Wrote(pte', ram, Append(wrcache, <<Spot(pte, regs.di + d), y>>),
                regs.di, d + c, Value)
      BY <2>2, <2>5, <2>8, <2>9, <2>10, <3>1, WroteMore
    <3>3. QED
      BY <2>7, <3>2
  <2>12. wrcache' \in Seq(Nat \X Seq(Values))
    <3>1. Spot(pte, regs.di + d) \in Nat
      <4>1. pte \in Tables /\ regs.di + d \in Address
        BY <1>1, <1>7, <1>16 DEF TypeOK
      <4>2. Spot(pte, regs.di + d) \in Ram
        BY <4>1, SpotIs
      <4>3. QED
        BY <4>2, RamParts
    <3> HIDE DEF d, y
    <3>2. QED
      BY <2>5, <2>7, <2>8, <3>1 DEF Writes
  <2>13. QED
    BY <2>2, <2>3, <2>11, <2>12
<1>20. wrcache' \in Seq(Nat \X Seq(Values))
  <2>1. CASE fault'.kind = "none"
    BY <1>19, <2>1
  <2>2. CASE fault'.kind # "none"
    <3>1. wrcache' = wrcache
      <4> HIDE DEF t
      <4>1. QED
        BY <1>11, <2>2
    <3>2. QED
      BY <1>1, <3>1 DEF TypeOK
  <2>3. QED
    BY <2>1, <2>2
<1>21. TypeOK'
  BY <1>1, <1>5, <1>12, <1>13, <1>20 DEF TypeOK, system, Noting, BufferOK
<1>22. Running(s[1], s[2])'
  <2>1. At(Accesses, s[1], s[2])'
    BY <1>5, <1>15 DEF At
  <2>2. Before' = Before /\ Value' = Value
    BY <1>1, <1>15 DEF Before, Value
  <2>3. ASSUME fault'.kind = "none"
        PROVE  /\ Before' \in Nat
               /\ loaded' = Got(Accesses', View', Before', s[1], s[2])
               /\ Wrote(pte', ram', wrcache', regs'.di, Done(Accesses', s[1], s[2]), Value')
    BY <1>1, <1>14, <1>15, <1>16, <1>19, <2>2, <2>3
  <2> HIDE DEF s
  <2>4. QED
    BY <1>5, <1>15, <2>1, <2>3 DEF Running
<1>23. QED
  <2>1. Placed'
    BY <1>1, <1>2, <1>15 DEF Placed, system
  <2>2. MemoryOK'
    BY <1>12, <1>14 DEF MemoryOK
  <2>3. phase' = "run"
    BY <1>1
  <2> HIDE DEF s
  <2>4. IInv'
    BY <1>5, <1>13, <1>21, <1>22, <2>1, <2>2, <2>3 DEF IInv
  <2>5. QED
    BY <1>14, <2>4

\* The port's bytes are all that an element begins with.
LEMMA GotPort ==
    ASSUME NEW L, Listed(L), NEW v, NEW b \in Nat, L[1].op = "in"
    PROVE  /\ Got(L, v, b, 1, "whole") = <<>>
           /\ Got(L, v, b, 2, "whole") = [ k \in 1 .. i.size |-> PortByte(b + k) ]
           /\ [ k \in 1 .. i.size |-> PortByte(b + k) ] \in Seq(Values)
           /\ [ k \in 1 .. i.size |-> PortByte(b + k) ] # <<>>
           /\ Len([ k \in 1 .. i.size |-> PortByte(b + k) ]) = i.size
<1> DEFINE g == [ k \in 1 .. i.size |-> PortByte(b + k) ]
<1>1. 1 \in 1 .. Len(L)
  BY DEF Listed
<1>2. L[1].size = i.size /\ i.size \in 1 .. 2
  BY <1>1, ListedAccess
<1>3. g \in Seq(Values) /\ Len(g) = i.size
  <2>1. \A k \in 1 .. i.size : PortByte(b + k) \in Values
    BY <1>2 DEF Values
  <2>2. QED
    BY <1>2, <2>1
<1>4. GotBefore(L, v, b, 1) = <<>> /\ GotBefore(L, v, b, 2) = g
  BY <1>2 DEF GotBefore, Gives
<1> HIDE DEF g
<1>5. g \o <<>> = g /\ g # <<>>
  BY <1>2, <1>3
<1>6. <<>> \o <<>> = <<>>
  <2>1. \A w \in Seq(Values) : w \o <<>> = w
    OBVIOUS
  <2>2. QED
    BY <2>1
<1>7. QED
  BY <1>3, <1>4, <1>5, <1>6 DEF Got, g

\* cpu_in and cpu_out
LEMMA PortInv ==
    ASSUME IInv, PortAccess
    PROVE  IInv' /\ View' = View
<1> DEFINE a == Head(acc)
           L == Accesses
<1>1. /\ TypeOK /\ MemoryOK /\ FaultOK /\ phase = "run" /\ acc # <<>>
      /\ a.op \in {"in", "out"} /\ acc' = Tail(acc)
      /\ UNCHANGED <<memvars, system, regs, phase, fault>>
      /\ a.op = "in" => /\ loaded' = [ k \in 1 .. a.size |-> PortByte(taken + k) ]
                        /\ taken' = taken + a.size /\ UNCHANGED sent
      /\ a.op = "out" => sent' = sent \o loaded /\ UNCHANGED <<loaded, taken>>
  BY DEF PortAccess, Spans, IInv
<1>2. Listed(L) /\ Shaped(L) /\ Placed /\ View \in [ Address -> Values ]
  BY <1>1, RunFacts
<1>3. PICK n, h : Running(n, h)
  BY <1>1, RunFacts
<1>4. At(L, n, h) /\ n # Len(L) + 1 /\ acc = Left(L, n, h) /\ n \in 1 .. 3
  BY <1>1, <1>3, RunFacts DEF Running
<1> DEFINE s == After(n, h)
<1>5. /\ At(L, s[1], s[2]) /\ s[2] \in Stage /\ acc' = Left(L, s[1], s[2])
      /\ s[1] \in 1 .. 3 /\ acc' \in Seq(AnAccess)
  <2>1. At(L, s[1], s[2]) /\ s[2] \in Stage /\ acc' = Left(L, s[1], s[2])
    BY <1>1, <1>2, <1>4, AfterAt
  <2>2. s[1] \in 1 .. 3
    <3> DEFINE z == Len(L)
    <3>1. z \in 1 .. 2 /\ s[1] \in 1 .. z + 1
      BY <1>2, <2>1 DEF Listed, At
    <3> HIDE DEF z, s
    <3>2. QED
      BY <3>1
  <2>3. Left(L, s[1], s[2]) \in Seq(AnAccess)
    BY <1>2, <2>1, LeftGoes
  <2>4. QED
    BY <2>1, <2>2, <2>3
<1>6. a = Next1(L, n, h)
  BY <1>2, <1>4, LeftGoes
<1>7. a.op = L[n].op /\ n \in 1 .. Len(L)
  <2> DEFINE b == Next1(L, n, h)
  <2>1. b.op = L[n].op
    BY <1>2, <1>4, NextIs
  <2>2. n \in 1 .. Len(L)
    BY <1>4 DEF At
  <2> HIDE DEF b, a
  <2>3. a = b
    BY <1>6 DEF b
  <2>4. QED
    BY <2>1, <2>2, <2>3
<1>8. /\ h = "whole" /\ s[1] = n + 1 /\ s[2] = "whole"
      /\ a.size = i.size /\ i.size \in 1 .. 2 /\ a = L[n]
  <2>1. h = "whole"
    BY <1>1, <1>4, <1>7 DEF At
  <2>2. a = L[n] /\ L[n].size = i.size /\ i.size \in 1 .. 2
    BY <1>2, <1>6, <1>7, <2>1, ListedAccess DEF Next1
  <2>3. QED
    BY <2>1, <2>2 DEF After
<1>9. Done(L, n, h) = 0 /\ Done(L, s[1], s[2]) = 0
  BY <1>1, <1>2, <1>4, <1>7, NoneDone
<1>10. i' = i /\ Accesses' = L /\ Elapsed' = Elapsed
  BY <1>1, SameElement DEF system
<1>11. View' = View /\ MemoryOK' /\ FaultOK' /\ Placed'
  <2>1. View' = View /\ FaultOK' /\ Placed'
    BY <1>1, <1>2, <1>10 DEF View, FaultOK, Placed, memvars, system
  <2>2. MemoryOK'
    BY <1>1, <1>2, MemoryKept DEF memvars, system
  <2>3. QED
    BY <2>1, <2>2
<1>12. /\ a.op = "in" => /\ i.op = "ins" /\ n = 1
                         /\ L[1].op = "in"
       /\ a.op = "out" => i.op = "outs"
  <2>1. a.op = "in" => i.op = "ins"
    BY <1>2, <1>7 DEF Shaped
  <2>2. i.op = "ins" => L[1].op = "in" /\ L[2].op = "write" /\ Len(L) = 2
    BY <1>2 DEF Shaped
  <2>3. a.op = "out" => i.op = "outs"
    BY <1>2, <1>7 DEF Shaped
  <2>4. a.op = "in" => n # 2
    BY <1>7, <2>1, <2>2
  <2>5. a.op = "in" => n \in 1 .. 2
    <3> DEFINE z == Len(L)
    <3>1. a.op = "in" => z = 2
      BY <2>1, <2>2
    <3>2. n \in 1 .. z
      BY <1>7
    <3> HIDE DEF z
    <3>3. QED
      BY <3>1, <3>2
  <2> HIDE DEF L, a
  <2>6. QED
    BY <2>1, <2>2, <2>3, <2>4, <2>5
<1>13. taken \in Nat /\ loaded \in Seq(Values) /\ sent \in Seq(Values) /\ ram \in [ Ram -> Values ]
  BY <1>1 DEF TypeOK
<1>14. taken' \in Nat /\ loaded' \in Seq(Values) /\ sent' \in Seq(Values)
  <2>1. CASE a.op = "in"
    <3>1. [ k \in 1 .. i.size |-> PortByte(taken + k) ] \in Seq(Values)
      BY <1>2, <1>12, <1>13, <2>1, GotPort
    <3>2. /\ loaded' = [ k \in 1 .. i.size |-> PortByte(taken + k) ]
          /\ taken' = taken + i.size /\ sent' = sent
      BY <1>1, <1>8, <2>1
    <3>3. QED
      BY <1>8, <1>13, <3>1, <3>2
  <2>2. CASE a.op = "out"
    <3>1. sent' = sent \o loaded /\ loaded' = loaded /\ taken' = taken
      BY <1>1, <2>2
    <3>2. QED
      BY <1>13, <3>1
  <2>3. QED
    BY <1>1, <2>1, <2>2
<1>15. TypeOK'
  BY <1>1, <1>5, <1>14 DEF TypeOK, system, memvars
<1>16. ASSUME fault'.kind = "none"
       PROVE  /\ Before' \in Nat /\ loaded' = Got(L, View, Before', s[1], s[2])
              /\ wrcache' = <<>>
  <2>1. /\ Before \in Nat /\ loaded = Got(L, View, Before, n, h)
        /\ Wrote(pte, ram, wrcache, regs.di, 0, Value)
    BY <1>1, <1>3, <1>9, <1>16 DEF Running
  <2>2. wrcache' = <<>>
    BY <1>1, <2>1 DEF Wrote, memvars
  <2>3. CASE a.op = "in"
    <3>1. loaded = <<>>
      <4>1. Listed(L) /\ L[1].op = "in" /\ n = 1 /\ h = "whole"
        BY <1>2, <1>8, <1>12, <2>3
      <4> HIDE DEF L
      <4>2. Got(L, View, Before, 1, "whole") = <<>>
        BY <2>1, <4>1, GotPort
      <4>3. QED
        BY <2>1, <4>1, <4>2
    <3>2. /\ Got(L, View, taken, 2, "whole") = [ k \in 1 .. i.size |-> PortByte(taken + k) ]
          /\ [ k \in 1 .. i.size |-> PortByte(taken + k) ] # <<>>
      BY <1>2, <1>12, <1>13, <2>3, GotPort
    <3>3. loaded' = Got(L, View, taken, 2, "whole") /\ loaded' # <<>>
      BY <1>1, <1>8, <2>3, <3>2
    <3>4. Before' = taken
      <4>1. Before' = taken' - i.size /\ taken' = taken + i.size
        BY <1>1, <1>8, <1>10, <1>12, <2>3, <3>3 DEF Before
      <4>2. QED
        BY <1>8, <1>13, <4>1
    <3>5. s[1] = 2 /\ s[2] = "whole"
      BY <1>8, <1>12, <2>3
    <3> HIDE DEF s, L
    <3>6. QED
      BY <1>13, <2>2, <3>3, <3>4, <3>5
  <2>4. CASE a.op = "out"
    <3> DEFINE b == Next1(L, n, h)
    <3>1. a = b /\ b.op \in {"write", "out"} /\ Listed(L) /\ View \in [ Address -> Values ]
          /\ At(L, n, h) /\ n # Len(L) + 1
      BY <1>2, <1>4, <1>6, <2>4
    <3>2. Before' = Before /\ loaded' = loaded
      BY <1>1, <1>10, <2>4 DEF Before
    <3> HIDE DEF L, a
    <3>3. AddsNothing(L, View, Before, n, h)
      BY <2>1, <3>1, GotWrite
    <3>4. QED
      BY <2>1, <2>2, <3>2, <3>3 DEF AddsNothing
  <2>5. QED
    BY <1>1, <2>3, <2>4
<1>17. Running(s[1], s[2])'
  <2>1. At(Accesses, s[1], s[2])'
    BY <1>5, <1>10 DEF At
  <2>2. ASSUME fault'.kind = "none"
        PROVE  /\ Before' \in Nat
               /\ loaded' = Got(Accesses', View', Before', s[1], s[2])
               /\ Wrote(pte', ram', wrcache', regs'.di, Done(Accesses', s[1], s[2]), Value')
    <3>1. ram' \in [ Ram -> Values ] /\ wrcache' = <<>>
      BY <1>15, <1>16, <2>2 DEF TypeOK
    <3>2. Wrote(pte', ram', <<>>, regs'.di, 0, Value')
      BY <3>1, NothingWrote
    <3>3. QED
      BY <1>9, <1>10, <1>11, <1>16, <2>2, <3>1, <3>2
  <2> HIDE DEF s
  <2>3. QED
    BY <1>5, <1>10, <2>1, <2>2 DEF Running
<1>18. QED
  <2>1. phase' = "run"
    BY <1>1
  <2> HIDE DEF s
  <2>2. IInv'
    BY <1>5, <1>11, <1>15, <1>17, <2>1 DEF IInv
  <2>3. QED
    BY <1>11, <2>2

\* An element begins with all its accesses before it.
LEMMA AtFirst ==
    ASSUME NEW L, Listed(L)
    PROVE  /\ At(L, 1, "whole") /\ Left(L, 1, "whole") = L /\ Done(L, 1, "whole") = 0
           /\ \A v, b : Got(L, v, b, 1, "whole") = <<>>
<1>1. 1 \in 1 .. Len(L) /\ L \in Seq(AnAccess) /\ Len(L) \in 1 .. 2
  BY DEF Listed
<1>2. At(L, 1, "whole")
  BY <1>1 DEF At, Stage
<1>3. Left(L, 1, "whole") = L
  <2>1. CASE Len(L) = 1
    <3>1. Left(L, 1, "whole") = <<L[1]>>
      BY <2>1 DEF Left, RestOf
    <3>2. L = <<L[1]>>
      BY <1>1, <2>1, SameElements
    <3>3. QED
      BY <3>1, <3>2
  <2>2. CASE Len(L) = 2
    <3>1. Left(L, 1, "whole") = <<L[1], L[2]>>
      BY <2>2 DEF Left, RestOf
    <3>2. L = <<L[1], L[2]>>
      BY <1>1, <2>2, SameElements
    <3>3. QED
      BY <3>1, <3>2
  <2>3. QED
    BY <1>1, <2>1, <2>2
<1>4. Done(L, 1, "whole") = 0
  <2> DEFINE k == Len(L)
  <2>1. k \in 1 .. 2
    BY <1>1
  <2>2. Done(L, 1, "whole") = IF L[k].op # "write" \/ 1 < k THEN 0
                              ELSE IF 1 > k THEN L[k].size ELSE 0
    BY DEF Done
  <2> HIDE DEF k
  <2>3. QED
    BY <2>1, <2>2
<1>5. \A v, b : Got(L, v, b, 1, "whole") = <<>>
  <2>1. \A w \in Seq(Values) : w \o <<>> = w
    OBVIOUS
  <2>2. <<>> \o <<>> = <<>>
    BY <2>1
  <2>3. QED
    BY <2>2 DEF Got, GotBefore
<1>6. QED
  BY <1>2, <1>3, <1>4, <1>5

\* cpu_exec and the head of an instruction
LEMMA FetchInv ==
    ASSUME IInv, Fetch
    PROVE  IInv' /\ View' = View
<1>1. /\ TypeOK /\ MemoryOK /\ FaultOK /\ Placed /\ phase = "next"
      /\ wrcache = <<>> /\ acc = <<>> /\ fault.kind = "none"
      /\ loaded' = <<>>
      /\ UNCHANGED <<memvars, system, regs, fault, sent, taken>>
      /\ IF i.rep # "none" /\ regs.cx = 0 THEN phase' = "over" /\ UNCHANGED acc
         ELSE phase' = "run" /\ acc' = Accesses
  BY DEF Fetch, IInv, FaultOK
<1>2. i' = i /\ Accesses' = Accesses /\ Elapsed' = Elapsed
  BY <1>1, SameElement DEF system
<1>3. View' = View /\ MemoryOK' /\ FaultOK'
  <2>1. View' = View /\ FaultOK'
    BY <1>1 DEF View, FaultOK, memvars, system
  <2>2. MemoryOK'
    BY <1>1, MemoryKept DEF memvars, system
  <2>3. QED
    BY <2>1, <2>2
<1>4. <<>> \in Seq(Values) /\ <<>> \in Seq(AnAccess)
  OBVIOUS
<1>5. CASE i.rep # "none" /\ regs.cx = 0
  <2>1. TypeOK'
    BY <1>1, <1>4, <1>5 DEF TypeOK, system, memvars
  <2>2. phase' = "over" /\ wrcache' = <<>> /\ acc' = <<>> /\ loaded' = <<>>
    BY <1>1, <1>5 DEF memvars
  <2>3. QED
    BY <1>3, <2>1, <2>2 DEF IInv
<1>6. CASE ~(i.rep # "none" /\ regs.cx = 0)
  <2> DEFINE L == Accesses
  <2>1. regs.cx \in Nat
    BY <1>1 DEF TypeOK
  <2>2. i.rep # "none" => regs.cx > 0
    BY <1>6, <2>1
  <2>3. Listed(L)
    BY <1>1, <2>2, AccessesAre
  <2>4. L \in Seq(AnAccess)
    BY <2>3 DEF Listed
  <2>5. phase' = "run" /\ acc' = L
    BY <1>1, <1>6
  <2>6. TypeOK'
    BY <1>1, <1>4, <2>4, <2>5 DEF TypeOK, system, memvars
  <2>7. Placed'
    BY <1>1, <1>2, <2>2 DEF Placed, system
  <2>8. /\ At(L, 1, "whole") /\ Left(L, 1, "whole") = L /\ Done(L, 1, "whole") = 0
        /\ \A v, b : Got(L, v, b, 1, "whole") = <<>>
    BY <2>3, AtFirst
  <2>9. Running(1, "whole")'
    <3>1. At(Accesses, 1, "whole")'
      BY <1>2, <2>8 DEF At
    <3>2. Before' = taken' /\ taken' \in Nat
      BY <1>1, <2>6 DEF Before, TypeOK
    <3>3. Wrote(pte', ram', wrcache', regs'.di, 0, Value')
      <4>1. ram' \in [ Ram -> Values ] /\ wrcache' = <<>>
        BY <1>1, <2>6 DEF TypeOK, memvars
      <4>2. QED
        BY <4>1, NothingWrote
    <3>4. QED
      BY <1>1, <1>2, <2>5, <2>8, <3>1, <3>2, <3>3 DEF Running
  <2>10. 1 \in 1 .. 3 /\ "whole" \in Stage
    BY DEF Stage
  <2> HIDE DEF L
  <2>11. IInv'
    BY <1>3, <2>5, <2>6, <2>7, <2>9, <2>10 DEF IInv
  <2>12. QED
    BY <1>3, <2>11
<1>7. QED
  BY <1>5, <1>6

\* A byte of the program, with tables t, memory r and disk d
Seen(t, z, d, b) ==
    IF t[PageOf(b)].present THEN z[Spot(t, b)] ELSE d[PageOf(b)][b % PageSize]

\* The view of the program, which the refinement uses, is made of these.
LEMMA ViewSeen ==
    View = [ b \in Address |-> Seen(pte, ram, disk, b) ]
<1>1. DOMAIN Contents = Address
  BY ProgramsAssumption DEF Address
<1>2. QED
  BY <1>1 DEF View, Seen, Spot

\* The commit of an element's writes changes its destination and nothing else
\* of what the program sees, and nothing that the disk has.
Commits(t, z, w, d, at, k, x) ==
    LET q == CommittedOf(z, w)
    IN  /\ q \in [ Ram -> Values ]
        /\ Saved(t, q, d)
        /\ \A b \in Address : Seen(t, q, d, b) =
             IF b \in at .. at + k - 1 THEN x[b - at + 1] ELSE Seen(t, z, d, b)

\* That is what wrcache_flush does with the writes that Wrote describes.
LEMMA CommitMemory ==
    ASSUME NEW t \in Tables, Exclusive(t), NEW z \in [ Ram -> Values ], NEW w \in Writes,
           NEW d, Saved(t, z, d), NEW at \in Int, NEW g \in Nat, NEW x,
           Wrote(t, z, w, at, g, x),
           \A k \in 0 .. g - 1 : at + k \in Address /\ x[k + 1] \in Values
    PROVE  Commits(t, z, w, d, at, g, x)
<1> DEFINE q == CommittedOf(z, w)
<1>1. \A k \in 0 .. g - 1 :
        /\ t[PageOf(at + k)].present /\ t[PageOf(at + k)].dirty
        /\ q[Spot(t, at + k)] = x[k + 1]
  BY DEF Wrote
<1>2. \A a \in Ram : (\A k \in 0 .. g - 1 : a # Spot(t, at + k)) => q[a] = z[a]
  BY DEF Wrote
<1>3. q = [ a \in Ram |-> q[a] ]
  <2>1. DOMAIN z = Ram
    OBVIOUS
  <2>2. QED
    BY <2>1 DEF CommittedOf
<1> HIDE DEF q
<1>4. q \in [ Ram -> Values ]
  <2>1. SUFFICES ASSUME NEW a \in Ram
                 PROVE  q[a] \in Values
    BY <1>3
  <2>2. CASE \A k \in 0 .. g - 1 : a # Spot(t, at + k)
    BY <1>2, <2>2
  <2>3. CASE \E k \in 0 .. g - 1 : a = Spot(t, at + k)
    BY <1>1, <2>3
  <2>4. QED
    BY <2>2, <2>3
<1>5. Saved(t, q, d)
  <2>1. SUFFICES ASSUME NEW p \in ProgramPages, t[p].present, ~t[p].dirty, NEW o \in Offset
                 PROVE  d[p][o] = q[t[p].frame * PageSize + o]
    BY DEF Saved
  <2> DEFINE a == t[p].frame * PageSize + o
  <2>2. t[p].frame \in FrameNo
    BY DEF Tables, Entry
  <2>3. a \in Ram /\ PageOf(a) = t[p].frame
    <3>1. t[p].frame \in Nat
      BY <2>2 DEF FrameNo
    <3>2. QED
      BY <2>2, <3>1, InRam, FrameParts
  <2>4. d[p][o] = z[a]
    BY <2>1 DEF Saved
  <2> HIDE DEF a
  <2>5. ASSUME NEW k \in 0 .. g - 1, a = Spot(t, at + k)
        PROVE  FALSE
    <3>1. at + k \in Address
      OBVIOUS
    <3>2. PageOf(at + k) \in ProgramPages /\ PageOf(a) = t[PageOf(at + k)].frame
      BY <2>5, <3>1, AddressIs, SpotIs
    <3>3. t[PageOf(at + k)].present /\ t[PageOf(at + k)].dirty
      BY <1>1
    <3>4. PageOf(at + k) = p
      BY <2>1, <2>3, <3>2, <3>3 DEF Exclusive
    <3>5. QED
      BY <2>1, <3>3, <3>4
  <2>6. q[a] = z[a]
    BY <1>2, <2>3, <2>5
  <2>7. QED
    BY <2>4, <2>6 DEF a
<1>6. ASSUME NEW b \in Address
      PROVE  Seen(t, q, d, b) =
               IF b \in at .. at + g - 1 THEN x[b - at + 1] ELSE Seen(t, z, d, b)
  <2>1. b \in Int
    BY AddressIs
  <2>2. CASE b \in at .. at + g - 1
    <3> DEFINE k == b - at
    <3>1. k \in 0 .. g - 1 /\ at + k = b
      BY <2>1, <2>2
    <3> HIDE DEF k
    <3>2. t[PageOf(b)].present /\ q[Spot(t, b)] = x[k + 1]
      BY <1>1, <3>1
    <3>3. Seen(t, q, d, b) = x[k + 1]
      BY <3>2 DEF Seen
    <3>4. QED
      BY <2>2, <3>3 DEF k
  <2>3. CASE b \notin at .. at + g - 1
    <3>1. ASSUME t[PageOf(b)].present
          PROVE  q[Spot(t, b)] = z[Spot(t, b)]
      <4>1. Spot(t, b) \in Ram
        BY SpotIs
      <4>2. ASSUME NEW k \in 0 .. g - 1, Spot(t, b) = Spot(t, at + k)
            PROVE  FALSE
        <5>1. at + k \in Address /\ t[PageOf(at + k)].present
          BY <1>1
        <5>2. b = at + k
          BY <3>1, <4>2, <5>1, SpotOne
        <5>3. QED
          BY <2>3, <5>2
      <4>3. QED
        BY <1>2, <4>1, <4>2
    <3>2. QED
      BY <2>3, <3>1 DEF Seen
  <2>4. QED
    BY <2>2, <2>3
<1>7. QED
  BY <1>4, <1>5, <1>6 DEF q, Commits

\* Whether the element writes, and how much
Written(L) == IF L[Len(L)].op = "write" THEN i.size ELSE 0

\* An element at its end, that did not fault
LEMMA AtEnd ==
    ASSUME IInv, phase = "run", acc = <<>>, fault.kind = "none", NEW L, L = Accesses
    PROVE  /\ Listed(L) /\ Shaped(L) /\ Before \in Nat
           /\ loaded = Got(L, View, Before, Len(L) + 1, "whole")
           /\ Written(L) \in Nat
           /\ Wrote(pte, ram, wrcache, regs.di, Written(L), Value)
           /\ \A k \in 0 .. Written(L) - 1 :
                regs.di + k \in Address /\ Value[k + 1] \in Values
<1>1. Listed(L) /\ Shaped(L) /\ View \in [ Address -> Values ] /\ TypeOK
  BY RunFacts DEF IInv
<1>2. PICK n, h : Running(n, h)
  BY RunFacts
<1>3. At(L, n, h) /\ n = Len(L) + 1 /\ h = "whole"
  BY <1>2, RunFacts DEF At
<1>4. /\ Before \in Nat /\ loaded = Got(L, View, Before, n, h)
      /\ Wrote(pte, ram, wrcache, regs.di, Done(L, n, h), Value)
  BY <1>2 DEF Running
<1>5. i.size \in 1 .. 2 /\ Len(L) \in 1 .. 2
  BY <1>1, TheProgram DEF Listed
<1>6. Done(L, n, h) = Written(L)
  <2> DEFINE z == Len(L)
  <2>1. z \in 1 .. 2 /\ n = z + 1 /\ L[z].size = i.size
    BY <1>1, <1>3, <1>5 DEF Listed
  <2>2. Done(L, n, h) = IF L[z].op # "write" \/ n < z THEN 0
                        ELSE IF n > z THEN L[z].size ELSE IF h = "half" THEN 1 ELSE 0
    BY DEF Done
  <2>3. Written(L) = IF L[z].op = "write" THEN i.size ELSE 0
    BY DEF Written
  <2> HIDE DEF z
  <2>4. QED
    BY <2>1, <2>2, <2>3
<1>7. Written(L) \in Nat
  BY <1>5 DEF Written
<1>8. ASSUME NEW k \in 0 .. Written(L) - 1
      PROVE  regs.di + k \in Address /\ Value[k + 1] \in Values
  <2>1. L[Len(L)].op = "write" /\ k \in 0 .. i.size - 1
    BY <1>5, <1>8 DEF Written
  <2>2. Value \in Seq(Values) /\ Len(Value) >= i.size
    <3>1. n >= Len(L)
      <4> DEFINE z == Len(L)
      <4>1. z \in 1 .. 2 /\ n = z + 1
        BY <1>3, <1>5
      <4> HIDE DEF z
      <4>2. n >= z
        BY <4>1
      <4>3. QED
        BY <4>2 DEF z
    <3>2. QED
      BY <1>1, <1>3, <1>4, <2>1, <3>1, ValueIs
  <2>3. Value[k + 1] \in Values
    <3> DEFINE z == Len(Value)
    <3>1. z \in Nat /\ z >= i.size
      BY <2>2
    <3> HIDE DEF z
    <3>2. k + 1 \in 1 .. z
      BY <1>5, <2>1, <3>1
    <3>3. QED
      BY <2>2, <3>2 DEF z
  <2>4. regs.di + k \in Address
    <3>1. Len(L) \in 1 .. Len(L) /\ L[Len(L)].at = regs.di
      BY <1>1, <1>5, <2>1 DEF Shaped
    <3>2. QED
      BY <1>1, <2>1, <3>1 DEF Listed
  <2>5. QED
    BY <2>3, <2>4
<1>9. QED
  BY <1>1, <1>3, <1>4, <1>6, <1>7, <1>8

\* The end of an element that faulted: it is taken back.
LEMMA TakenBackInv ==
    ASSUME IInv, Retire, fault.kind # "none"
    PROVE  IInv' /\ View' = View
<1>1. /\ TypeOK /\ MemoryOK /\ FaultOK /\ Placed /\ phase = "run" /\ acc = <<>>
      /\ phase' = "fault" /\ wrcache' = <<>> /\ loaded' = <<>>
      /\ UNCHANGED <<regs, ram, pte, tlb, system, acc, fault, sent, taken>>
  BY RunFacts DEF Retire, IInv
<1>2. i' = i /\ Elapsed' = Elapsed
  BY <1>1, SameElement DEF system
<1>3. View' = View /\ MemoryOK' /\ FaultOK' /\ Placed'
  <2>1. View' = View /\ FaultOK' /\ Placed'
    BY <1>1, <1>2 DEF View, FaultOK, Placed, system
  <2>2. MemoryOK'
    BY <1>1, MemoryKept DEF system
  <2>3. QED
    BY <2>1, <2>2
<1>4. TypeOK'
  <2>1. <<>> \in Seq(Values) /\ <<>> \in Seq(Nat \X Seq(Values))
    OBVIOUS
  <2>2. QED
    BY <1>1, <2>1 DEF TypeOK, system
<1>5. QED
  BY <1>1, <1>3, <1>4 DEF IInv

\* The end of an element that did not fault: its writes are committed.
LEMMA CommitInv ==
    ASSUME IInv, Retire, fault.kind = "none", NEW L, L = Accesses
    PROVE  /\ IInv'
           /\ View' = [ b \in Address |->
                IF b \in regs.di .. regs.di + Written(L) - 1 THEN Value[b - regs.di + 1]
                ELSE View[b] ]
<1>1. /\ TypeOK /\ MemoryOK /\ FaultOK /\ Placed /\ phase = "run" /\ acc = <<>>
      /\ phase' = IF Last THEN "over" ELSE "next"
      /\ regs' = Advanced /\ ram' = Committed
      /\ wrcache' = <<>> /\ loaded' = <<>>
      /\ UNCHANGED <<pte, tlb, system, acc, fault, sent, taken>>
  BY RunFacts DEF Retire, IInv
<1>2. /\ Written(L) \in Nat
      /\ Wrote(pte, ram, wrcache, regs.di, Written(L), Value)
      /\ \A k \in 0 .. Written(L) - 1 : regs.di + k \in Address /\ Value[k + 1] \in Values
  BY <1>1, AtEnd
<1>3. ram' = CommittedOf(ram, wrcache)
  BY <1>1, CommittedIs
<1>4. /\ pte \in Tables /\ Exclusive(pte) /\ ram \in [ Ram -> Values ]
      /\ wrcache \in Writes /\ Saved(pte, ram, disk) /\ regs.di \in Int
  BY <1>1 DEF TypeOK, MemoryOK, Writes
<1>5. /\ ram' \in [ Ram -> Values ] /\ Saved(pte, ram', disk)
      /\ \A b \in Address : Seen(pte, ram', disk, b) =
           IF b \in regs.di .. regs.di + Written(L) - 1 THEN Value[b - regs.di + 1]
           ELSE Seen(pte, ram, disk, b)
  <2> DEFINE z == Written(L)
             x == Value
  <2>1. z \in Nat /\ Wrote(pte, ram, wrcache, regs.di, z, x)
        /\ \A k \in 0 .. z - 1 : regs.di + k \in Address /\ x[k + 1] \in Values
    BY <1>2
  <2> HIDE DEF z, x
  <2>2. Commits(pte, ram, wrcache, disk, regs.di, z, x)
    BY <1>4, <2>1, CommitMemory
  <2>3. QED
    BY <1>3, <2>2 DEF z, x, Commits
<1>6. View' = [ b \in Address |->
                IF b \in regs.di .. regs.di + Written(L) - 1 THEN Value[b - regs.di + 1]
                ELSE View[b] ]
  <2>1. View = [ b \in Address |-> Seen(pte, ram, disk, b) ]
    BY ViewSeen
  <2>2. View' = [ b \in Address |-> Seen(pte', ram', disk', b) ]
    <3>1. DOMAIN Contents = Address
      BY ProgramsAssumption DEF Address
    <3>2. QED
      BY <3>1 DEF View, Seen, Spot
  <2>3. pte' = pte /\ disk' = disk
    BY <1>1 DEF system
  <2>4. QED
    BY <1>5, <2>1, <2>2, <2>3
<1>7. i' = i /\ program' = program
  BY <1>1 DEF i, system
<1>8. /\ i.step \in Int /\ i.op \in Sources \cup Destinations
      /\ i.rep # "none" => regs.cx > 0
  BY <1>1, TheProgram DEF Placed
<1>9. regs \in [ si : Int, di : Int, cx : Nat, zf : BOOLEAN, ax : Seq(Values) ]
  BY <1>1 DEF TypeOK
<1>10. regs' \in [ si : Int, di : Int, cx : Nat, zf : BOOLEAN, ax : Seq(Values) ]
  <2>1. Equal \in BOOLEAN
    BY DEF Equal
  <2>2. loaded \in Seq(Values)
    BY <1>1 DEF TypeOK
  <2> DEFINE si == IF i.op \in Sources THEN regs.si + i.step ELSE regs.si
             di == IF i.op \in Destinations THEN regs.di + i.step ELSE regs.di
             cx == IF i.rep = "none" THEN regs.cx ELSE regs.cx - 1
             zf == IF i.op \in Comparisons THEN Equal ELSE regs.zf
             ax == IF i.op = "lods" THEN loaded ELSE regs.ax
  <2>3. si \in Int /\ di \in Int /\ cx \in Nat
    BY <1>8, <1>9
  <2>4. zf \in BOOLEAN
    BY <1>9, <2>1
  <2>5. ax \in Seq(Values)
    BY <1>9, <2>2
  <2>6. regs' = [regs EXCEPT !.si = si, !.di = di, !.cx = cx, !.zf = zf, !.ax = ax]
    BY <1>1, Zenon DEF Advanced
  <2> HIDE DEF si, di, cx, zf, ax
  <2>7. QED
    BY <1>9, <2>3, <2>4, <2>5, <2>6
<1>11. /\ regs'.si = (IF i.op \in Sources THEN regs.si + i.step ELSE regs.si)
       /\ regs'.di = (IF i.op \in Destinations THEN regs.di + i.step ELSE regs.di)
       /\ regs'.cx = (IF i.rep = "none" THEN regs.cx ELSE regs.cx - 1)
  BY <1>1, <1>9 DEF Advanced
<1>12. TypeOK'
  <2>1. <<>> \in Seq(Values) /\ <<>> \in Seq(Nat \X Seq(Values))
    OBVIOUS
  <2>2. QED
    BY <1>1, <1>5, <1>10, <2>1 DEF TypeOK, system
<1>13. phase' # "over" => Placed'
  <2>1. SUFFICES ASSUME phase' # "over"
                 PROVE  Placed'
    OBVIOUS
  <2>2. i.rep # "none" /\ phase' = "next"
    BY <1>1, <2>1 DEF Last
  <2>3. Elapsed = program.cx - regs.cx /\ Elapsed' = program.cx - (regs.cx - 1)
    BY <1>7, <1>11, <2>2 DEF Elapsed
  <2>4. program.cx \in Nat /\ regs.cx \in Nat /\ Elapsed \in Nat
    BY <1>1, <1>9, TheProgram DEF Placed
  <2>5. Elapsed' = Elapsed + 1 /\ Elapsed' \in Nat
    BY <2>3, <2>4
  <2>6. \A x, e, s \in Int : x + (e + 1) * s = (x + e * s) + s
    OBVIOUS
  <2>7. program.si \in Int /\ program.di \in Int
    BY <1>1, TheProgram
  <2>8. /\ i.op \in Sources => regs'.si = program.si + Elapsed' * i.step
        /\ i.op \notin Sources => regs'.si = program.si
    <3>1. regs.si = IF i.op \in Sources THEN program.si + Elapsed * i.step ELSE program.si
      BY <1>1 DEF Placed
    <3>2. program.si + (Elapsed + 1) * i.step = (program.si + Elapsed * i.step) + i.step
      <4>1. program.si \in Int /\ Elapsed \in Int /\ i.step \in Int
        BY <1>8, <2>4, <2>7
      <4>2. QED
        BY <2>6, <4>1, Zenon
    <3>3. QED
      BY <1>11, <2>5, <3>1, <3>2, Zenon
  <2>9. /\ i.op \in Destinations => regs'.di = program.di + Elapsed' * i.step
        /\ i.op \notin Destinations => regs'.di = program.di
    <3>1. regs.di = IF i.op \in Destinations THEN program.di + Elapsed * i.step
                    ELSE program.di
      BY <1>1 DEF Placed
    <3>2. program.di + (Elapsed + 1) * i.step = (program.di + Elapsed * i.step) + i.step
      <4>1. program.di \in Int /\ Elapsed \in Int /\ i.step \in Int
        BY <1>8, <2>4, <2>7
      <4>2. QED
        BY <2>6, <4>1, Zenon
    <3>3. QED
      BY <1>11, <2>5, <3>1, <3>2, Zenon
  <2>10. phase' # "run"
    BY <2>2
  <2>11. QED
    BY <1>7, <2>5, <2>8, <2>9, <2>10 DEF Placed
<1>14. MemoryOK' /\ FaultOK'
  <2>1. FaultOK'
    BY <1>1, <1>5 DEF FaultOK, system
  <2>2. MemoryOK'
    <3>1. BufferOK(tlb', pte') /\ Exclusive(pte')
      BY <1>1 DEF MemoryOK
    <3>2. Saved(pte', ram', disk')
      BY <1>1, <1>5 DEF system
    <3>3. QED
      BY <3>1, <3>2 DEF MemoryOK
  <2>3. QED
    BY <2>1, <2>2
<1>15. phase' # "run" /\ wrcache' = <<>> /\ acc' = <<>> /\ loaded' = <<>>
  BY <1>1
<1>16. IInv'
  BY <1>12, <1>13, <1>14, <1>15 DEF IInv
<1>17. QED
  BY <1>6, <1>16

-----------------------------------------------------------------------------
(* The steps of the system                                                 *)

\* What the program sees is the same if each byte is.
LEMMA SeenSame ==
    ASSUME \A b \in Address : Seen(pte', ram', disk', b) = Seen(pte, ram, disk, b)
    PROVE  View' = View
<1>1. DOMAIN Contents = Address
  BY ProgramsAssumption DEF Address
<1>2. View' = [ b \in Address |-> Seen(pte', ram', disk', b) ]
  BY <1>1 DEF View, Seen, Spot
<1>3. QED
  BY <1>2, ViewSeen

\* Between the elements the system may do anything that keeps memory sound.
LEMMA SystemStep ==
    ASSUME IInv, phase # "run", phase # "over", phase' \in {"next", "fault"},
           UNCHANGED <<wrcache, program, regs, acc, loaded, sent, taken>>,
           pte' \in Tables, ram' \in [ Ram -> Values ],
           disk' \in [ ProgramPages -> [ Offset -> Values ] ],
           fault' \in [ page : Nat, kind : {"none", "absent", "denied"} ],
           FaultOK', BufferOK(tlb', pte'), Exclusive(pte'), Saved(pte', ram', disk')
    PROVE  IInv'
<1>1. i' = i /\ Elapsed' = Elapsed
  BY SameElement
<1>2. Placed'
  BY <1>1 DEF IInv, Placed
<1>3. TypeOK'
  BY DEF IInv, TypeOK, BufferOK
<1>4. MemoryOK'
  BY DEF MemoryOK
<1>5. phase' # "run" /\ wrcache' = <<>> /\ acc' = <<>> /\ loaded' = <<>>
  BY DEF IInv
<1>6. QED
  BY <1>2, <1>3, <1>4, <1>5 DEF IInv

\* The page fault's handler brings a page in.
LEMMA PageInInv ==
    ASSUME IInv, PageIn
    PROVE  IInv' /\ View' = View
<1> DEFINE f == CHOOSE g \in Free : TRUE
           p == fault.page
           e == [ Absent EXCEPT !.present = TRUE, !.frame = f,
                                !.write = p \notin program.shared ]
<1>1. /\ TypeOK /\ MemoryOK /\ FaultOK /\ phase = "fault" /\ fault.kind = "absent"
      /\ Free # {} /\ pte' = [pte EXCEPT ![p] = e]
      /\ ram' = [ a \in DOMAIN ram |-> IF PageOf(a) = f
                    THEN disk[p][a % PageSize] ELSE ram[a] ]
      /\ phase' = "next" /\ fault' = NoFault
      /\ UNCHANGED <<tlb, wrcache, system, regs, acc, loaded, sent, taken>>
  BY DEF PageIn, IInv
<1>2. f \in Free
  BY <1>1
<1>3. p \in ProgramPages /\ ~pte[p].present
  BY <1>1 DEF FaultOK
<1>4. f \in FrameNo /\ \A q \in ProgramPages : pte[q].present => pte[q].frame # f
  BY <1>2 DEF Free, FrameNo, Present
<1> HIDE DEF f
<1>5. /\ e \in Entry /\ e.present /\ ~e.dirty /\ e.frame = f
  <2>1. (p \notin program.shared) \in BOOLEAN
    OBVIOUS
  <2> DEFINE w == (p \notin program.shared)
  <2> HIDE DEF w
  <2>2. QED
    BY <1>4, <2>1 DEF Absent, Entry, w
<1> HIDE DEF e, p
<1>6. /\ pte \in Tables /\ ram \in [ Ram -> Values ]
      /\ disk \in [ ProgramPages -> [ Offset -> Values ] ]
      /\ Exclusive(pte) /\ Saved(pte, ram, disk) /\ BufferOK(tlb, pte)
      /\ disk' = disk /\ tlb' = tlb
  BY <1>1 DEF TypeOK, MemoryOK, system
<1>7. /\ pte' \in Tables /\ pte'[p] = e
      /\ \A q \in ProgramPages \ {p} : pte'[q] = pte[q]
  BY <1>1, <1>3, <1>5, <1>6 DEF Tables
<1>8. /\ ram' = [ a \in Ram |-> IF PageOf(a) = f THEN disk[p][a % PageSize] ELSE ram[a] ]
      /\ ram' \in [ Ram -> Values ]
  <2>1. DOMAIN ram = Ram
    BY <1>6
  <2>2. ram' = [ a \in Ram |-> IF PageOf(a) = f THEN disk[p][a % PageSize] ELSE ram[a] ]
    BY <1>1, <2>1
  <2>3. ASSUME NEW a \in Ram
        PROVE  (IF PageOf(a) = f THEN disk[p][a % PageSize] ELSE ram[a]) \in Values
    <3>1. a % PageSize \in Offset
      BY RamParts, Parts
    <3>2. QED
      BY <1>3, <1>6, <3>1
  <2>4. QED
    BY <2>2, <2>3
<1>9. Exclusive(pte')
  <2>1. SUFFICES ASSUME NEW q \in ProgramPages, NEW z \in ProgramPages,
                        pte'[q].present, pte'[z].present, pte'[q].frame = pte'[z].frame
                 PROVE  q = z
    BY DEF Exclusive
  <2>2. CASE q # p /\ z # p
    BY <1>6, <1>7, <2>1, <2>2 DEF Exclusive
  <2>3. CASE q = p /\ z # p
    BY <1>4, <1>5, <1>7, <2>1, <2>3
  <2>4. CASE q # p /\ z = p
    BY <1>4, <1>5, <1>7, <2>1, <2>4
  <2>5. QED
    BY <2>2, <2>3, <2>4
<1>10. ASSUME NEW q \in ProgramPages, NEW o \in Offset, pte'[q].present
       PROVE  ram'[pte'[q].frame * PageSize + o] =
                IF q = p THEN disk[p][o] ELSE ram[pte[q].frame * PageSize + o]
  <2> DEFINE a == pte'[q].frame * PageSize + o
  <2>1. pte'[q].frame \in FrameNo
    BY <1>7 DEF Tables, Entry
  <2>2. a \in Ram /\ PageOf(a) = pte'[q].frame /\ a % PageSize = o
    <3>1. pte'[q].frame \in Nat
      BY <2>1 DEF FrameNo
    <3>2. QED
      BY <2>1, <3>1, InRam, FrameParts
  <2>3. CASE q = p
    <3>1. PageOf(a) = f
      BY <1>5, <1>7, <2>2, <2>3
    <3>2. ram'[a] = disk[p][a % PageSize]
      BY <1>8, <2>2, <3>1
    <3> HIDE DEF a
    <3>3. QED
      BY <2>2, <2>3, <3>2 DEF a
  <2>4. CASE q # p
    <3>1. pte'[q] = pte[q]
      BY <1>7, <2>4
    <3>2. PageOf(a) # f
      BY <1>4, <1>10, <2>2, <3>1
    <3>3. ram'[a] = ram[a]
      BY <1>8, <2>2, <3>2
    <3>4. QED
      BY <2>4, <3>1, <3>3
  <2>5. QED
    BY <2>3, <2>4
<1>11. Saved(pte', ram', disk')
  <2>1. SUFFICES ASSUME NEW q \in ProgramPages, pte'[q].present, ~pte'[q].dirty,
                        NEW o \in Offset
                 PROVE  disk[q][o] = ram'[pte'[q].frame * PageSize + o]
    BY <1>6 DEF Saved
  <2>2. CASE q = p
    BY <1>10, <2>1, <2>2
  <2>3. CASE q # p
    <3>1. pte[q].present /\ ~pte[q].dirty
      BY <1>7, <2>1, <2>3
    <3>2. disk[q][o] = ram[pte[q].frame * PageSize + o]
      BY <1>6, <3>1 DEF Saved
    <3>3. QED
      BY <1>10, <2>1, <2>3, <3>2
  <2>4. QED
    BY <2>2, <2>3
<1>12. BufferOK(tlb', pte')
  <2>1. SUFFICES ASSUME NEW s \in Sets, NEW k \in 0 .. 1, tlb[s].way[k].valid
                 PROVE  pte'[tlb[s].way[k].tag] = pte[tlb[s].way[k].tag]
    <3>1. tlb' = tlb /\ tlb \in Buffers
          /\ \A s \in Sets : \A k \in 0 .. 1 : Agrees(tlb[s].way[k], s, pte)
      BY <1>6 DEF BufferOK
    <3>2. SUFFICES ASSUME \A s \in Sets : \A k \in 0 .. 1 : tlb[s].way[k].valid =>
                            pte'[tlb[s].way[k].tag] = pte[tlb[s].way[k].tag]
                   PROVE  BufferOK(tlb, pte')
      BY <3>1
    <3>3. \A s \in Sets : \A k \in 0 .. 1 : Agrees(tlb[s].way[k], s, pte')
      <4>1. SUFFICES ASSUME NEW s \in Sets, NEW k \in 0 .. 1
                     PROVE  Agrees(tlb[s].way[k], s, pte')
        OBVIOUS
      <4>2. Agrees(tlb[s].way[k], s, pte)
        BY <3>1
      <4>3. QED
        BY <3>2, <4>2 DEF Agrees
    <3>4. QED
      BY <3>1, <3>3 DEF BufferOK
  <2>2. tlb[s].way[k].tag \in ProgramPages /\ pte[tlb[s].way[k].tag].present
    BY <1>6, <2>1 DEF BufferOK, Agrees
  <2>3. QED
    BY <1>3, <1>7, <2>2
<1>13. View' = View
  <2>1. SUFFICES ASSUME NEW b \in Address
                 PROVE  Seen(pte', ram', disk', b) = Seen(pte, ram, disk, b)
    BY SeenSame
  <2>2. PageOf(b) \in ProgramPages /\ b % PageSize \in Offset
    BY AddressIs
  <2>3. CASE PageOf(b) = p
    <3>1. pte'[PageOf(b)].present
      BY <1>5, <1>7, <2>3
    <3>2. ram'[Spot(pte', b)] = disk[p][b % PageSize]
      BY <1>10, <2>2, <2>3, <3>1 DEF Spot
    <3>3. QED
      BY <1>3, <1>6, <2>3, <3>1, <3>2 DEF Seen
  <2>4. CASE PageOf(b) # p
    <3>1. pte'[PageOf(b)] = pte[PageOf(b)]
      BY <1>7, <2>2, <2>4
    <3>2. CASE pte[PageOf(b)].present
      <4>1. ram'[Spot(pte', b)] = ram[Spot(pte, b)]
        BY <1>10, <2>2, <2>4, <3>1, <3>2 DEF Spot
      <4>2. QED
        BY <3>1, <3>2, <4>1 DEF Seen
    <3>3. CASE ~pte[PageOf(b)].present
      BY <1>6, <3>1, <3>3 DEF Seen
    <3>4. QED
      BY <3>2, <3>3
  <2>5. QED
    BY <2>3, <2>4
<1>14. IInv'
  <2>1. fault' \in [ page : Nat, kind : {"none", "absent", "denied"} ] /\ FaultOK'
    BY <1>1 DEF NoFault, FaultOK
  <2>2. UNCHANGED <<wrcache, program, regs, acc, loaded, sent, taken>>
    BY <1>1 DEF system
  <2>3. phase # "run" /\ phase # "over" /\ phase' \in {"next", "fault"}
    BY <1>1
  <2>4. disk' \in [ ProgramPages -> [ Offset -> Values ] ]
    BY <1>6
  <2>5. QED
    BY <1>7, <1>8, <1>9, <1>11, <1>12, <2>1, <2>2, <2>3, <2>4, SystemStep
<1>15. QED
  BY <1>13, <1>14

\* What is forgotten after an entry changed
LEMMA ForgetOK ==
    ASSUME BufferOK(tlb, pte), NEW p \in ProgramPages, NEW how, Forget(p, how),
           \A q \in ProgramPages \ {p} : pte'[q] = pte[q]
    PROVE  BufferOK(tlb', pte')
<1>1. BufferOK(Invalidated(p), pte')
  BY InvalidatedOK
<1>2. BufferOK(Flushed, pte')
  BY FlushedOK
<1>3. QED
  BY <1>1, <1>2 DEF Forget

\* The page fault's handler lets a page be written.
LEMMA UnshareInv ==
    ASSUME IInv, Unshare
    PROVE  IInv' /\ View' = View
<1> DEFINE p == fault.page
<1>1. /\ TypeOK /\ MemoryOK /\ FaultOK /\ phase = "fault" /\ fault.kind = "denied"
      /\ pte' = [pte EXCEPT ![p].write = TRUE] /\ Forget(p, "page")
      /\ phase' = "next" /\ fault' = NoFault
      /\ UNCHANGED <<ram, wrcache, system, regs, acc, loaded, sent, taken>>
  BY DEF Unshare, IInv
<1>2. p \in ProgramPages
  BY <1>1 DEF FaultOK
<1> HIDE DEF p
<1>3. /\ pte \in Tables /\ ram \in [ Ram -> Values ]
      /\ disk \in [ ProgramPages -> [ Offset -> Values ] ]
      /\ Exclusive(pte) /\ Saved(pte, ram, disk) /\ BufferOK(tlb, pte)
      /\ disk' = disk /\ ram' = ram
  BY <1>1 DEF TypeOK, MemoryOK, system
<1>4. /\ pte' \in Tables
      /\ \A q \in ProgramPages : /\ pte'[q].present = pte[q].present
                                 /\ pte'[q].frame = pte[q].frame
                                 /\ pte'[q].dirty = pte[q].dirty
      /\ \A q \in ProgramPages \ {p} : pte'[q] = pte[q]
  BY <1>1, <1>2, <1>3 DEF Tables, Entry
<1>5. BufferOK(tlb', pte')
  BY <1>1, <1>2, <1>3, <1>4, ForgetOK
<1>6. Exclusive(pte') /\ Saved(pte', ram', disk')
  BY <1>3, <1>4 DEF Exclusive, Saved
<1>7. View' = View
  <2>1. SUFFICES ASSUME NEW b \in Address
                 PROVE  Seen(pte', ram', disk', b) = Seen(pte, ram, disk, b)
    BY SeenSame
  <2>2. PageOf(b) \in ProgramPages
    BY AddressIs
  <2>3. QED
    BY <1>3, <1>4, <2>2 DEF Seen, Spot
<1>8. IInv'
  <2>1. fault' \in [ page : Nat, kind : {"none", "absent", "denied"} ] /\ FaultOK'
    BY <1>1 DEF NoFault, FaultOK
  <2>2. UNCHANGED <<wrcache, program, regs, acc, loaded, sent, taken>>
    BY <1>1 DEF system
  <2>3. phase # "run" /\ phase # "over" /\ phase' \in {"next", "fault"}
    BY <1>1
  <2>4. QED
    BY <1>3, <1>4, <1>5, <1>6, <2>1, <2>2, <2>3, SystemStep
<1>9. QED
  BY <1>7, <1>8

\* The frame of a page is kept on the disk.
LEMMA InFrameIs ==
    ASSUME ram \in [ Ram -> Values ], NEW g \in FrameNo
    PROVE  /\ InFrame(g) \in [ Offset -> Values ]
           /\ \A o \in Offset : InFrame(g)[o] = ram[g * PageSize + o]
<1>1. \A o \in Offset : g * PageSize + o \in Ram
  BY InRam
<1>2. InFrame(g) = [ o \in Offset |-> ram[g * PageSize + o] ]
  BY DEF InFrame, Offset
<1>3. QED
  BY <1>1, <1>2

\* A page is taken away.
LEMMA PageOutInv ==
    ASSUME IInv, NEW p \in ProgramPages, NEW how, PageOut(p, how)
    PROVE  IInv' /\ View' = View
<1> DEFINE g == pte[p].frame
<1>1. /\ TypeOK /\ MemoryOK /\ FaultOK /\ phase \in {"next", "fault"} /\ p \in Present
      /\ disk' = IF pte[p].dirty THEN [disk EXCEPT ![p] = InFrame(g)] ELSE disk
      /\ pte' = [pte EXCEPT ![p] = Absent] /\ Forget(p, how)
      /\ UNCHANGED <<ram, wrcache, program, regs, phase, acc, loaded, fault, sent, taken>>
  BY DEF PageOut, Moving, IInv
<1>2. /\ pte \in Tables /\ ram \in [ Ram -> Values ]
      /\ disk \in [ ProgramPages -> [ Offset -> Values ] ]
      /\ Exclusive(pte) /\ Saved(pte, ram, disk) /\ BufferOK(tlb, pte)
      /\ ram' = ram /\ pte[p].present
      /\ fault \in [ page : Nat, kind : {"none", "absent", "denied"} ]
  BY <1>1 DEF TypeOK, MemoryOK, Present
<1>3. g \in FrameNo
  BY <1>2 DEF Tables, Entry
<1>4. Absent \in Entry /\ ~Absent.present
  BY <1>3, PagingAssumption DEF Absent, Entry, FrameNo
<1>5. /\ pte' \in Tables /\ ~pte'[p].present
      /\ \A q \in ProgramPages \ {p} : pte'[q] = pte[q]
  BY <1>1, <1>2, <1>4 DEF Tables
<1>6. /\ InFrame(g) \in [ Offset -> Values ]
      /\ \A o \in Offset : InFrame(g)[o] = ram[g * PageSize + o]
  BY <1>2, <1>3, InFrameIs
<1>7. /\ disk' \in [ ProgramPages -> [ Offset -> Values ] ]
      /\ \A q \in ProgramPages \ {p} : disk'[q] = disk[q]
      /\ \A o \in Offset : disk'[p][o] = ram[g * PageSize + o]
  <2>1. CASE pte[p].dirty
    BY <1>1, <1>2, <1>6, <2>1
  <2>2. CASE ~pte[p].dirty
    BY <1>1, <1>2, <2>2 DEF Saved
  <2>3. QED
    BY <2>1, <2>2
<1>8. BufferOK(tlb', pte')
  BY <1>1, <1>2, <1>5, ForgetOK
<1>9. Exclusive(pte')
  BY <1>2, <1>5 DEF Exclusive
<1>10. Saved(pte', ram', disk')
  BY <1>2, <1>5, <1>7 DEF Saved
<1>11. View' = View
  <2>1. SUFFICES ASSUME NEW b \in Address
                 PROVE  Seen(pte', ram', disk', b) = Seen(pte, ram, disk, b)
    BY SeenSame
  <2>2. PageOf(b) \in ProgramPages /\ b % PageSize \in Offset
    BY AddressIs
  <2>3. CASE PageOf(b) = p
    BY <1>2, <1>5, <1>7, <2>2, <2>3 DEF Seen, Spot
  <2>4. CASE PageOf(b) # p
    BY <1>2, <1>5, <1>7, <2>2, <2>4 DEF Seen, Spot
  <2>5. QED
    BY <2>3, <2>4
<1>12. FaultOK'
  <2>1. fault' = fault /\ phase' = phase
    BY <1>1
  <2>2. fault.kind = "absent" => ~pte'[fault.page].present
    BY <1>1, <1>5 DEF FaultOK
  <2>3. QED
    BY <1>1, <2>1, <2>2 DEF FaultOK
<1>13. IInv'
  <2>1. phase # "run" /\ phase # "over" /\ phase' \in {"next", "fault"}
        /\ fault' \in [ page : Nat, kind : {"none", "absent", "denied"} ]
        /\ UNCHANGED <<wrcache, program, regs, acc, loaded, sent, taken>>
    BY <1>1, <1>2
  <2>2. QED
    BY <1>2, <1>5, <1>7, <1>8, <1>9, <1>10, <1>12, <2>1, SystemStep
<1>14. QED
  BY <1>11, <1>13

\* A page is written to the disk, and stays.
LEMMA CleanInv ==
    ASSUME IInv, NEW p \in ProgramPages, NEW how, Clean(p, how)
    PROVE  IInv' /\ View' = View
<1> DEFINE g == pte[p].frame
<1>1. /\ TypeOK /\ MemoryOK /\ FaultOK /\ phase \in {"next", "fault"}
      /\ disk' = [disk EXCEPT ![p] = InFrame(g)]
      /\ pte' = [pte EXCEPT ![p].dirty = FALSE] /\ Forget(p, how)
      /\ UNCHANGED <<ram, wrcache, program, regs, phase, acc, loaded, fault, sent, taken>>
  BY DEF Clean, Moving, IInv
<1>2. /\ pte \in Tables /\ ram \in [ Ram -> Values ]
      /\ disk \in [ ProgramPages -> [ Offset -> Values ] ]
      /\ Exclusive(pte) /\ Saved(pte, ram, disk) /\ BufferOK(tlb, pte)
      /\ ram' = ram /\ pte[p].present
      /\ fault \in [ page : Nat, kind : {"none", "absent", "denied"} ]
  BY <1>1 DEF TypeOK, MemoryOK, Present, Clean
<1>3. g \in FrameNo
  BY <1>2 DEF Tables, Entry
<1>4. /\ pte' \in Tables
      /\ \A q \in ProgramPages : /\ pte'[q].present = pte[q].present
                                 /\ pte'[q].frame = pte[q].frame
      /\ \A q \in ProgramPages \ {p} : pte'[q] = pte[q]
  BY <1>1, <1>2 DEF Tables, Entry
<1>5. /\ InFrame(g) \in [ Offset -> Values ]
      /\ \A o \in Offset : InFrame(g)[o] = ram[g * PageSize + o]
  BY <1>2, <1>3, InFrameIs
<1>6. /\ disk' \in [ ProgramPages -> [ Offset -> Values ] ]
      /\ \A q \in ProgramPages \ {p} : disk'[q] = disk[q]
      /\ \A o \in Offset : disk'[p][o] = ram[g * PageSize + o]
  BY <1>1, <1>2, <1>5
<1>7. BufferOK(tlb', pte')
  BY <1>1, <1>2, <1>4, ForgetOK
<1>8. Exclusive(pte')
  BY <1>2, <1>4 DEF Exclusive
<1>9. Saved(pte', ram', disk')
  BY <1>2, <1>4, <1>6 DEF Saved
<1>10. View' = View
  <2>1. SUFFICES ASSUME NEW b \in Address
                 PROVE  Seen(pte', ram', disk', b) = Seen(pte, ram, disk, b)
    BY SeenSame
  <2>2. PageOf(b) \in ProgramPages
    BY AddressIs
  <2>3. Spot(pte', b) = Spot(pte, b) /\ pte'[PageOf(b)].present = pte[PageOf(b)].present
    BY <1>4, <2>2 DEF Spot
  <2>4. ~pte[PageOf(b)].present => disk'[PageOf(b)] = disk[PageOf(b)]
    BY <1>2, <1>6, <2>2
  <2>5. QED
    BY <1>2, <2>3, <2>4 DEF Seen
<1>11. FaultOK'
  <2>1. fault' = fault /\ phase' = phase
    BY <1>1
  <2>2. QED
    BY <1>1, <1>4, <2>1 DEF FaultOK
<1>12. IInv'
  <2>1. phase # "run" /\ phase # "over" /\ phase' \in {"next", "fault"}
        /\ fault' \in [ page : Nat, kind : {"none", "absent", "denied"} ]
        /\ UNCHANGED <<wrcache, program, regs, acc, loaded, sent, taken>>
    BY <1>1, <1>2
  <2>2. QED
    BY <1>2, <1>4, <1>6, <1>7, <1>8, <1>9, <1>11, <2>1, SystemStep
<1>13. QED
  BY <1>10, <1>12

-----------------------------------------------------------------------------
(* The initial states                                                      *)

\* The accumulator holds bytes.
LEMMA AccumulatorType == Accumulator \in Seq(Values) /\ Len(Accumulator) = 2
<1>1. \E c, d \in Values : Accumulator = <<c, d>>
  <2>1. Accumulator[1] \in Values /\ Accumulator[2] \in Values
    BY DEF Values
  <2>2. Accumulator = <<Accumulator[1], Accumulator[2]>>
    BY ProgramsAssumption
  <2>3. QED
    BY <2>1, <2>2, Zenon
<1>2. QED
  BY <1>1

\* A page's number, reduced to a frame
LEMMA FrameOf ==
    ASSUME NEW p \in Nat
    PROVE  (p % Frames) \in FrameNo /\ (p < Frames => p % Frames = p)
  BY PagingAssumption, SMT DEF FrameNo

\* The invariant holds when the program is started.
LEMMA InitInv ==
    ASSUME Init
    PROVE  IInv
<1>1. /\ program \in Programs
      /\ regs = [ si |-> program.si, di |-> program.di, cx |-> program.cx,
                  zf |-> FALSE, ax |-> Accumulator ]
      /\ tlb = Flushed /\ wrcache = <<>>
      /\ ram = [ a \in Ram |-> IF program.resident /\ a \in DOMAIN Contents
                               THEN Contents[a] ELSE 0 ]
      /\ disk = [ p \in ProgramPages |-> PageBytes(p) ]
      /\ phase = "next" /\ acc = <<>> /\ loaded = <<>> /\ fault = NoFault
      /\ sent = <<>> /\ taken = 0
  BY DEF Init, Ram
<1> DEFINE e(p) == [ Absent EXCEPT !.present = program.resident /\ p < Frames,
                       !.frame = p % Frames, !.write = program.resident ]
<1>2. pte = [ p \in ProgramPages |-> e(p) ]
  BY DEF Init
<1>3. /\ i.op \in Sources \cup Destinations /\ i.step \in Int
      /\ program.si \in Int /\ program.di \in Int /\ program.cx \in Nat
      /\ program.resident \in BOOLEAN
  BY <1>1, ProgramsAssumption DEF i
<1>4. ASSUME NEW p \in ProgramPages
      PROVE  /\ e(p) \in Entry /\ ~e(p).dirty
             /\ e(p).present => program.resident /\ p < Frames /\ e(p).frame = p
  <2>1. p \in Nat /\ (p < Frames) \in BOOLEAN
    BY PagingAssumption DEF ProgramPages
  <2>2. (p % Frames) \in FrameNo /\ (p < Frames => p % Frames = p)
    BY <2>1, FrameOf
  <2> DEFINE c == program.resident /\ p < Frames
             f == p % Frames
             w == program.resident
  <2>3. c \in BOOLEAN /\ w \in BOOLEAN /\ f \in FrameNo /\ (c => w /\ p < Frames /\ f = p)
    BY <1>3, <2>1, <2>2
  <2>4. e(p) = [Absent EXCEPT !.present = c, !.frame = f, !.write = w]
    OBVIOUS
  <2> HIDE DEF c, f, w, e
  <2>5. e(p) \in Entry /\ ~e(p).dirty /\ e(p).present = c /\ e(p).frame = f
    BY <2>3, <2>4 DEF Absent, Entry
  <2>6. c => program.resident
    BY <2>3 DEF w
  <2>7. QED
    BY <2>3, <2>5, <2>6
<1> HIDE DEF e
<1>5. /\ pte \in Tables
      /\ \A p \in ProgramPages :
           /\ ~pte[p].dirty
           /\ pte[p].present => program.resident /\ p < Frames /\ pte[p].frame = p
  BY <1>2, <1>4 DEF Tables
<1>6. DOMAIN Contents = Address /\ \A a \in Address : Contents[a] \in Values
  BY ProgramsAssumption DEF Address, Values
<1>7. ram \in [ Ram -> Values ]
  <2>1. 0 \in Values
    BY DEF Values
  <2>2. QED
    BY <1>1, <1>6, <2>1
<1>8. ASSUME NEW p \in ProgramPages, NEW o \in Offset
      PROVE  /\ p * PageSize + o \in Address
             /\ PageBytes(p)[o] = Contents[p * PageSize + o]
  <2>1. p \in Nat
    BY DEF ProgramPages
  <2>2. p * PageSize + o \in Nat /\ PageOf(p * PageSize + o) = p
    BY <2>1, FrameParts
  <2>3. QED
    BY <2>2, AddressParts DEF PageBytes, Offset
<1>9. disk \in [ ProgramPages -> [ Offset -> Values ] ]
  <2>1. ASSUME NEW p \in ProgramPages
        PROVE  PageBytes(p) \in [ Offset -> Values ]
    <3>1. PageBytes(p) = [ o \in Offset |-> Contents[p * PageSize + o] ]
      BY DEF PageBytes, Offset
    <3>2. QED
      BY <1>6, <1>8, <3>1
  <2>2. QED
    BY <1>1, <2>1
<1>10. BufferOK(tlb, pte)
  BY <1>1, FlushedOK
<1>11. Exclusive(pte)
  BY <1>5 DEF Exclusive
<1>12. Saved(pte, ram, disk)
  <2>1. SUFFICES ASSUME NEW p \in ProgramPages, pte[p].present, NEW o \in Offset
                 PROVE  disk[p][o] = ram[pte[p].frame * PageSize + o]
    BY DEF Saved
  <2>2. disk[p][o] = Contents[p * PageSize + o] /\ p * PageSize + o \in Address
    BY <1>1, <1>8
  <2>3. pte[p].frame = p /\ pte[p].frame \in FrameNo /\ program.resident
    BY <1>5, <2>1 DEF Tables, Entry
  <2>4. p * PageSize + o \in Ram
    BY <2>3, InRam
  <2>5. QED
    BY <1>1, <1>6, <2>2, <2>3, <2>4
<1>13. TypeOK
  <2>1. Accumulator \in Seq(Values)
    BY AccumulatorType
  <2>2. regs \in [ si : Int, di : Int, cx : Nat, zf : BOOLEAN, ax : Seq(Values) ]
    BY <1>1, <1>3, <2>1
  <2>3. /\ <<>> \in Seq(Values) /\ <<>> \in Seq(Nat \X Seq(Values))
        /\ <<>> \in Seq(AnAccess)
    OBVIOUS
  <2>4. fault \in [ page : Nat, kind : {"none", "absent", "denied"} ]
    BY <1>1 DEF NoFault
  <2>5. QED
    BY <1>1, <1>5, <1>7, <1>9, <1>10, <2>2, <2>3, <2>4 DEF TypeOK, BufferOK
<1>14. Placed
  <2>1. regs.si = program.si /\ regs.di = program.di /\ regs.cx = program.cx
    BY <1>1
  <2>2. Elapsed = 0
    BY <1>3, <2>1 DEF Elapsed
  <2>3. 0 * i.step = 0 /\ program.si + 0 = program.si /\ program.di + 0 = program.di
    BY <1>3
  <2>4. QED
    BY <1>1, <2>1, <2>2, <2>3 DEF Placed
<1>15. FaultOK
  BY <1>1 DEF FaultOK, NoFault
<1>16. QED
  BY <1>1, <1>10, <1>11, <1>12, <1>13, <1>14, <1>15 DEF IInv, MemoryOK

-----------------------------------------------------------------------------
(* The invariant holds                                                     *)

\* Every step keeps the invariant; all but the end of an element keep what the
\* program sees.
LEMMA NextInv ==
    ASSUME IInv, [Next]_vars
    PROVE  IInv'
<1>1. CASE UNCHANGED vars
  <2>1. UNCHANGED <<pte, tlb, ram, wrcache, program, regs, phase, acc, loaded, fault,
                    sent, taken, disk, moves>>
    BY <1>1 DEF vars, memvars
  <2>2. i' = i /\ Accesses' = Accesses /\ Elapsed' = Elapsed
        /\ \A L, n, h : At(L, n, h)' <=> At(L, n, h)
    BY <2>1, SameElement
  <2>3. View' = View /\ Before' = Before /\ Value' = Value
    BY <2>1, <2>2 DEF View, Before, Value
  <2>4. \A n, h : Running(n, h) => Running(n, h)'
    BY <2>1, <2>2, <2>3 DEF Running
  <2>5. TypeOK' /\ FaultOK' /\ (Placed => Placed')
    BY <2>1, <2>2 DEF IInv, TypeOK, FaultOK, Placed
  <2>6. MemoryOK'
    BY <2>1, MemoryKept DEF IInv
  <2>7. QED
    BY <2>1, <2>4, <2>5, <2>6 DEF IInv
<1>2. CASE Fetch
  BY <1>2, FetchInv
<1>3. CASE SplitAccess
  BY <1>3, SplitInv
<1>4. CASE ReadAccess
  BY <1>4, ReadInv
<1>5. CASE WriteAccess
  BY <1>5, WriteInv
<1>6. CASE PortAccess
  BY <1>6, PortInv
<1>7. CASE Retire
  <2>1. fault.kind # "none" => IInv'
    BY <1>7, TakenBackInv
  <2>2. fault.kind = "none" => IInv'
    BY <1>7, CommitInv
  <2>3. QED
    BY <2>1, <2>2
<1>8. CASE PageIn
  BY <1>8, PageInInv
<1>9. CASE Unshare
  BY <1>9, UnshareInv
<1>10. CASE \E p \in ProgramPages, how \in {"page", "all"} : PageOut(p, how) \/ Clean(p, how)
  BY <1>10, PageOutInv, CleanInv
<1>11. QED
  BY <1>1, <1>2, <1>3, <1>4, <1>5, <1>6, <1>7, <1>8, <1>9, <1>10 DEF Next

\* The inductive invariant of the string instructions and their memory.
THEOREM StringsInvariant == Spec => []IInv
<1>1. Init => IInv
  BY InitInv
<1>2. IInv /\ [Next]_vars => IInv'
  BY NextInv
<1>3. QED
  BY <1>1, <1>2, PTL DEF Spec

\* What the translation buffer says of a page is what the page tables say,
\* whatever was walked, noted, invalidated and flushed (memory.c).
THEOREM BufferAgreesHolds == Spec => []BufferAgrees
<1>1. IInv => BufferAgrees
  <2>1. SUFFICES ASSUME IInv
                 PROVE  BufferAgrees
    OBVIOUS
  <2>2. /\ tlb \in Buffers
        /\ \A s \in Sets : \A k \in 0 .. 1 : Agrees(tlb[s].way[k], s, pte)
    BY <2>1 DEF IInv, MemoryOK, BufferOK
  <2>3. DOMAIN tlb = Sets
    BY <2>2 DEF Buffers
  <2>4. QED
    BY <2>2, <2>3 DEF BufferAgrees, Agrees
<1>2. QED
  BY <1>1, StringsInvariant, PTL

\* No write is lost: a page that the tables do not have as written holds what
\* is on the disk, and no two pages are in one frame.
NothingLost == Saved(pte, ram, disk) /\ Exclusive(pte)

\* That holds for every program, however the system takes its pages away.
THEOREM NothingLostHolds == Spec => []NothingLost
<1>1. IInv => NothingLost
  BY DEF IInv, MemoryOK, NothingLost
<1>2. QED
  BY <1>1, StringsInvariant, PTL

-----------------------------------------------------------------------------
(* The port's instructions over pages that are in memory                   *)

\* What "ins" and "outs" need to be exact: an element that faults is begun
\* again, and the port is used again (PortsExact does not hold without it).
PortsInMemory ==
    \A g \in Programs : g.i.op \in {"ins", "outs"} =>
      /\ g.resident
      /\ \A n \in 0 .. ElementsOf(g) - 1, k \in 0 .. g.i.size - 1 :
           PageOf((IF g.i.op = "outs" THEN g.si ELSE g.di) + n * g.i.step + k) < Frames

Ported == i.op \in {"ins", "outs"}

\* Their pages stay, and they do not fault.
Resident ==
    Ported =>
      /\ fault.kind = "none"
      /\ \A p \in ProgramPages : p < Frames =>
           pte[p].present /\ pte[p].write /\ pte[p].user

\* What went to the port last is what the element read.
JustSent ==
    phase = "run" /\ i.op = "outs" /\ acc = <<>> =>
      /\ Len(loaded) = i.size
      /\ \E t \in Seq(Values) : sent = t \o loaded

PInv == IInv /\ Resident /\ JustSent

\* Their accesses
LEMMA PortAccesses ==
    /\ i.op = "ins" => Accesses = <<Port("in"), Write(regs.di)>>
    /\ i.op = "outs" => Accesses = <<Read(regs.si), Port("out")>>
  BY DEF Accesses

\* Where the operand of such an element begins
Operand == IF i.op = "outs" THEN regs.si ELSE regs.di

\* Its bytes are in the program's pages, and those in memory.
LEMMA OperandResident ==
    ASSUME PortsInMemory, TypeOK, Placed, Ported, i.rep # "none" => regs.cx > 0,
           NEW k \in 0 .. i.size - 1
    PROVE  Operand + k \in Address /\ PageOf(Operand + k) < Frames
<1> DEFINE n == Elapsed
           z == ElementsOf(program)
<1>1. regs.cx \in Nat
  BY DEF TypeOK
<1>2. n \in 0 .. z - 1
  <2>1. n \in Nat
    BY DEF Placed
  <2>2. CASE i.rep = "none"
    BY <2>2 DEF Elapsed, ElementsOf, i
  <2>3. CASE i.rep # "none"
    <3>1. n = program.cx - regs.cx /\ regs.cx > 0 /\ z = program.cx
      BY <2>3 DEF Elapsed, ElementsOf, i
    <3>2. program.cx \in Nat
      BY TheProgram
    <3> HIDE DEF n, z
    <3>3. QED
      BY <1>1, <2>1, <3>1, <3>2
  <2>4. QED
    BY <2>2, <2>3
<1>3. PageOf((IF i.op = "outs" THEN program.si ELSE program.di) + n * i.step + k) < Frames
  <2>1. program \in Programs
    BY DEF TypeOK
  <2> HIDE DEF n, z
  <2>2. QED
    BY <1>2, <2>1 DEF PortsInMemory, Ported, i, z
<1>4. /\ i.op = "outs" => regs.si = program.si + n * i.step
      /\ i.op = "ins" => regs.di = program.di + n * i.step
  BY DEF Placed, Sources, Destinations
<1>5. /\ i.op = "outs" => regs.si + k \in Address
      /\ i.op = "ins" => regs.di + k \in Address
  BY OperandsHere DEF Sources, Destinations
<1> HIDE DEF n
<1>6. QED
  BY <1>3, <1>4, <1>5 DEF Operand, Ported

\* The access at hand of such an element, and what comes with it
LEMMA PortHead ==
    ASSUME IInv, phase = "run", acc # <<>>, NEW a, a = Head(acc)
    PROVE  /\ a.op = "read" => i.op # "ins" /\ (i.op = "outs" => Tail(acc) # <<>>)
           /\ a.op = "write" => i.op # "outs"
           /\ a.op = "in" => /\ i.op = "ins" /\ a.size = i.size
                             /\ fault.kind = "none" => loaded = <<>>
           /\ a.op = "out" => /\ i.op = "outs"
                              /\ fault.kind = "none" => Len(loaded) = i.size
           /\ a.op \in {"read", "write"} /\ Ported =>
                \E k \in 0 .. i.size - 1 : a.at = Operand + k
<1> DEFINE L == Accesses
<1>1. Listed(L) /\ Shaped(L) /\ Placed /\ View \in [ Address -> Values ] /\ TypeOK
  BY RunFacts DEF IInv
<1>2. PICK n, h : Running(n, h)
  BY RunFacts
<1>3. At(L, n, h) /\ n # Len(L) + 1 /\ acc = Left(L, n, h) /\ n \in 1 .. 3
  BY <1>2, RunFacts DEF Running
<1>4. n \in 1 .. Len(L) /\ h \in Stage /\ (h # "whole" => L[n].op \in {"read", "write"})
      /\ (h # "whole" => i.size = 2)
  BY <1>3 DEF At
<1>5. a = Next1(L, n, h)
  BY <1>1, <1>3, LeftGoes
<1>6. /\ a.op = L[n].op /\ a \in AnAccess
      /\ a.at = L[n].at + (IF h = "half" THEN 1 ELSE 0)
      /\ a.size = IF h = "whole" THEN i.size ELSE 1
  <2> DEFINE b == Next1(L, n, h)
  <2>1. /\ b \in AnAccess /\ b.op = L[n].op
        /\ b.at = L[n].at + (IF h = "half" THEN 1 ELSE 0)
        /\ b.size = IF h = "whole" THEN i.size ELSE 1
    BY <1>1, <1>3, NextIs
  <2> HIDE DEF b
  <2>2. a = b
    BY <1>5 DEF b
  <2>3. QED
    BY <2>1, <2>2
<1>7. fault.kind = "none" => Before \in Nat /\ loaded = Got(L, View, Before, n, h)
  BY <1>2 DEF Running
<1>8. /\ Ported => n \in 1 .. 2
      /\ i.op = "ins" => Len(L) = 2 /\ L[1].op = "in" /\ L[2].op = "write"
      /\ i.op = "outs" => Len(L) = 2 /\ L[1].op = "read" /\ L[2].op = "out"
      /\ L[n].op = "in" => i.op = "ins"
      /\ L[n].op = "out" => i.op = "outs"
  <2>1. /\ i.op = "ins" => Len(L) = 2 /\ L[1].op = "in" /\ L[2].op = "write"
        /\ i.op = "outs" => Len(L) = 2 /\ L[1].op = "read" /\ L[2].op = "out"
    BY <1>1 DEF Shaped
  <2>2. (L[n].op = "in" => i.op = "ins") /\ (L[n].op = "out" => i.op = "outs")
    BY <1>1, <1>4 DEF Shaped
  <2> DEFINE z == Len(L)
  <2>3. (Ported => z = 2) /\ n \in 1 .. z
    BY <1>4, <2>1 DEF Ported
  <2> HIDE DEF z
  <2>4. Ported => n \in 1 .. 2
    BY <2>3
  <2>5. QED
    BY <2>1, <2>2, <2>4
<1>9. i.op = "outs" => /\ n = 1 <=> L[n].op = "read"
                       /\ n = 2 <=> L[n].op = "out"
                       /\ L[n].op \in {"read", "out"}
  BY <1>8 DEF Ported
<1>10. i.op = "ins" => /\ n = 1 <=> L[n].op = "in"
                       /\ n = 2 <=> L[n].op = "write"
                       /\ L[n].op \in {"in", "write"}
  BY <1>8 DEF Ported
<1>11. ASSUME a.op = "read", i.op = "outs"
       PROVE  Tail(acc) # <<>>
  <2> DEFINE s == After(n, h)
  <2>1. n = 1 /\ Len(L) = 2
    BY <1>6, <1>8, <1>9, <1>11
  <2>2. At(L, s[1], s[2]) /\ Tail(acc) = Left(L, s[1], s[2])
    BY <1>1, <1>3, AfterAt
  <2>3. s[1] \in 1 .. 2
    BY <2>1 DEF After
  <2>4. s[1] # Len(L) + 1
    BY <2>1, <2>3
  <2>5. Listed(L)
    BY <1>1
  <2> HIDE DEF s, L
  <2>6. Left(L, s[1], s[2]) # <<>>
    BY <2>2, <2>4, <2>5, LeftGoes
  <2>7. QED
    BY <2>2, <2>6
<1>12. ASSUME a.op = "in", fault.kind = "none"
       PROVE  loaded = <<>>
  <2>1. n = 1 /\ h = "whole" /\ L[1].op = "in"
    BY <1>4, <1>6, <1>8, <1>10, <1>12
  <2> HIDE DEF L
  <2>2. Got(L, View, Before, 1, "whole") = <<>>
    BY <1>1, <1>7, <1>12, <2>1, GotPort
  <2>3. QED
    BY <1>7, <1>12, <2>1, <2>2
<1>13. ASSUME a.op = "out", fault.kind = "none"
       PROVE  Len(loaded) = i.size
  <2> DEFINE g == Gives(L[1], View, Before)
  <2>1. n = 2 /\ h = "whole" /\ L[1].op = "read" /\ 1 \in 1 .. Len(L)
    BY <1>4, <1>6, <1>8, <1>9, <1>13
  <2>2. g \in Seq(Values) /\ Len(g) = i.size
    BY <1>1, <1>7, <1>13, <2>1, GivesType
  <2>3. loaded = g \o <<>>
    BY <1>7, <1>13, <2>1 DEF Got, GotBefore
  <2> HIDE DEF g
  <2>4. QED
    BY <2>2, <2>3
<1>14. ASSUME a.op \in {"read", "write"}, Ported
       PROVE  \E k \in 0 .. i.size - 1 : a.at = Operand + k
  <2>1. i.op = "outs" => L[1].at = regs.si
    BY PortAccesses DEF Read
  <2>2. i.op = "ins" => L[2].at = regs.di
    BY PortAccesses DEF Write
  <2>3. L[n].at = Operand
    BY <1>6, <1>9, <1>10, <1>14, <2>1, <2>2 DEF Operand, Ported
  <2>4. i.size \in 1 .. 2
    BY <1>1, TheProgram
  <2>5. regs.si \in Int /\ regs.di \in Int
    BY <1>1 DEF TypeOK
  <2>6. Operand \in Int
    BY <2>5 DEF Operand
  <2> DEFINE k == IF h = "half" THEN 1 ELSE 0
  <2>7. k \in 0 .. i.size - 1
    BY <1>4, <2>4
  <2>8. a.at = Operand + k
    BY <1>6, <2>3
  <2> HIDE DEF k
  <2>9. QED
    BY <2>7, <2>8
<1>15. a.op = "in" => a.size = i.size
  BY <1>4, <1>6
<1> HIDE DEF L
<1>16. QED
  BY <1>6, <1>8, <1>9, <1>10, <1>11, <1>12, <1>13, <1>14, <1>15

\* What the machine without paging sees of the port, and whether it is done
Out   == IF InElement /\ i.op = "outs" /\ acc = <<>>
         THEN SubSeq(sent, 1, Len(sent) - i.size) ELSE sent
Given == IF InElement /\ i.op = "ins" /\ loaded # <<>>
         THEN taken - i.size ELSE taken
Over  == phase = "over"

\* It does not see the step.
Unseen == i' = i /\ View' = View /\ regs' = regs /\ Out' = Out /\ Given' = Given
          /\ Over' = Over

\* Neither a read nor a write of these elements faults, and their pages stay.
LEMMA ResidentAccess ==
    ASSUME PortsInMemory, PInv, ReadAccess \/ WriteAccess
    PROVE  Resident'
<1> DEFINE a == Head(acc)
           p == PageOf(a.at)
<1>1. /\ IInv /\ Resident /\ TypeOK /\ MemoryOK /\ phase = "run" /\ acc # <<>>
      /\ a.op \in {"read", "write"} /\ UNCHANGED <<program>>
  BY DEF PInv, IInv, ReadAccess, WriteAccess, Spans, system
<1>2. i' = i
  BY <1>1 DEF i
<1>3. SUFFICES ASSUME Ported
               PROVE  /\ fault'.kind = "none"
                      /\ \A q \in ProgramPages : q < Frames =>
                           pte'[q].present /\ pte'[q].write /\ pte'[q].user
  BY <1>2 DEF Resident, Ported
<1>4. Placed /\ (i.rep # "none" => regs.cx > 0)
  BY <1>1, RunFacts DEF Placed
<1>5. PICK k \in 0 .. i.size - 1 : a.at = Operand + k
  BY <1>1, <1>3, PortHead
<1>6. a.at \in Address /\ p < Frames
  BY <1>1, <1>3, <1>4, <1>5, OperandResident
<1>7. p \in ProgramPages
  BY <1>6, AddressIs
<1>8. /\ fault.kind = "none"
      /\ \A q \in ProgramPages : q < Frames =>
           pte[q].present /\ pte[q].write /\ pte[q].user
  BY <1>1, <1>3 DEF Resident
<1>9. ASSUME NEW write \in BOOLEAN
      PROVE  Way(write).fault = "none" /\ Noting(pte, Way(write).pte)
  BY <1>1, <1>6, <1>7, <1>8, WayOK
<1>10. fault' = fault /\ Noting(pte, pte')
  <2>1. CASE ReadAccess
    <3> DEFINE t == Way(FALSE)
    <3>1. t.fault = "none" /\ Noting(pte, t.pte)
      BY <1>9
    <3>2. t.fault = "none" => pte' = t.pte /\ fault' = fault
      BY <1>8, <2>1 DEF ReadAccess
    <3> HIDE DEF t
    <3>3. QED
      BY <3>1, <3>2
  <2>2. CASE WriteAccess
    <3> DEFINE t == Way(TRUE)
    <3>1. t.fault = "none" /\ Noting(pte, t.pte)
      BY <1>9
    <3>2. t.fault = "none" => pte' = t.pte /\ fault' = fault
      BY <1>8, <2>2 DEF WriteAccess
    <3> HIDE DEF t
    <3>3. QED
      BY <3>1, <3>2
  <2>3. QED
    BY <2>1, <2>2
<1>11. QED
  BY <1>8, <1>10 DEF Noting

\* cpu_exec: the machine sees that nothing is left to repeat, or nothing.
LEMMA FetchSeen ==
    ASSUME PInv, Fetch
    PROVE  /\ PInv'
           /\ phase' = "run" => Unseen
<1>1. IInv' /\ View' = View /\ IInv
  BY FetchInv DEF PInv
<1>2. /\ phase = "next" /\ loaded' = <<>> /\ phase' \in {"run", "over"}
      /\ UNCHANGED <<memvars, system, regs, fault, sent, taken>>
      /\ phase' = "run" => acc' = Accesses
  BY DEF Fetch
<1>3. i' = i /\ Ported' = Ported
  BY <1>2 DEF i, system, Ported
<1>4. phase' = "run" /\ i.op = "outs" => acc' # <<>>
  BY <1>2, PortAccesses
<1>5. Resident'
  BY <1>2, <1>3 DEF PInv, Resident, memvars
<1>6. JustSent'
  BY <1>3, <1>4 DEF JustSent
<1>7. ASSUME phase' = "run"
      PROVE  Unseen
  <2>1. Out' = Out /\ Given' = Given
    BY <1>2, <1>3, <1>4, <1>7 DEF Out, Given, InElement
  <2>2. Over' = Over
    BY <1>2, <1>7 DEF Over
  <2>3. QED
    BY <1>1, <1>2, <1>3, <2>1, <2>2 DEF Unseen
<1>8. QED
  BY <1>1, <1>5, <1>6, <1>7 DEF PInv

\* A split is not seen.
LEMMA SplitSeen ==
    ASSUME PInv, SplitAccess
    PROVE  PInv' /\ Unseen
<1> DEFINE a == Head(acc)
<1>1. IInv' /\ View' = View /\ IInv /\ TypeOK
  BY SplitInv DEF PInv, IInv
<1>2. /\ phase = "run" /\ acc # <<>> /\ acc' = Split(a) \o Tail(acc)
      /\ UNCHANGED <<memvars, system, regs, phase, loaded, fault, sent, taken>>
  BY DEF SplitAccess, Spans
<1>3. i' = i /\ Ported' = Ported
  BY <1>2 DEF i, system, Ported
<1>4. acc' # <<>>
  <2>1. a \in AnAccess /\ Tail(acc) \in Seq(AnAccess)
    BY <1>1, <1>2 DEF TypeOK
  <2>2. Split(a)[1] \in AnAccess /\ Split(a)[2] \in AnAccess
        /\ Split(a) = << Split(a)[1], Split(a)[2] >>
    BY <2>1, SplitIs
  <2> HIDE DEF a
  <2>3. << Split(a)[1], Split(a)[2] >> \o Tail(acc) # <<>>
    BY <2>1, <2>2, TwoAhead
  <2>4. QED
    BY <1>2, <2>2, <2>3
<1>5. Resident' /\ JustSent'
  BY <1>2, <1>3, <1>4 DEF PInv, Resident, JustSent, memvars
<1>6. Out' = Out /\ Given' = Given /\ Over' = Over
  BY <1>2, <1>3, <1>4 DEF Out, Given, InElement, Over
<1>7. QED
  BY <1>1, <1>2, <1>3, <1>5, <1>6 DEF PInv, Unseen

\* Nor is a read ...
LEMMA ReadSeen ==
    ASSUME PortsInMemory, PInv, ReadAccess
    PROVE  PInv' /\ Unseen
<1> DEFINE a == Head(acc)
<1>1. IInv' /\ View' = View /\ IInv /\ Resident'
  BY ReadInv, ResidentAccess DEF PInv
<1>2. /\ phase = "run" /\ acc # <<>> /\ acc' = Tail(acc) /\ a.op = "read"
      /\ UNCHANGED <<ram, wrcache, system, regs, phase, sent, taken>>
  BY DEF ReadAccess, Spans
<1>3. i' = i
  BY <1>2 DEF i, system
<1>4. i.op # "ins" /\ (i.op = "outs" => acc' # <<>>)
  BY <1>1, <1>2, PortHead
<1>5. JustSent'
  BY <1>3, <1>4 DEF JustSent
<1>6. Out' = Out /\ Given' = Given /\ Over' = Over
  BY <1>2, <1>3, <1>4 DEF Out, Given, InElement, Over
<1>7. QED
  BY <1>1, <1>2, <1>3, <1>5, <1>6 DEF PInv, Unseen

\* ... or a write, before the element ends ...
LEMMA WriteSeen ==
    ASSUME PortsInMemory, PInv, WriteAccess
    PROVE  PInv' /\ Unseen
<1> DEFINE a == Head(acc)
<1>1. IInv' /\ View' = View /\ IInv /\ Resident'
  BY WriteInv, ResidentAccess DEF PInv
<1>2. /\ phase = "run" /\ acc # <<>> /\ acc' = Tail(acc) /\ a.op = "write"
      /\ UNCHANGED <<ram, system, regs, phase, loaded, sent, taken>>
  BY DEF WriteAccess, Spans
<1>3. i' = i
  BY <1>2 DEF i, system
<1>4. i.op # "outs"
  BY <1>1, <1>2, PortHead
<1>5. JustSent'
  BY <1>3, <1>4 DEF JustSent
<1>6. Out' = Out /\ Given' = Given /\ Over' = Over
  BY <1>2, <1>3, <1>4 DEF Out, Given, InElement, Over
<1>7. QED
  BY <1>1, <1>2, <1>3, <1>5, <1>6 DEF PInv, Unseen

\* What is joined to a sequence can be taken off again.
LEMMA TakenOff ==
    ASSUME NEW S, NEW s \in Seq(S), NEW t \in Seq(S)
    PROVE  SubSeq(s \o t, 1, Len(s \o t) - Len(t)) = s
<1> DEFINE g == Len(s)
           n == Len(t)
           j == s \o t
<1>1. j \in Seq(S) /\ Len(j) = g + n /\ g \in Nat /\ n \in Nat
      /\ \A k \in 1 .. g : j[k] = s[k]
  OBVIOUS
<1>2. Len(j) - n = g
  BY <1>1
<1>3. /\ SubSeq(j, 1, g) \in Seq(S) /\ Len(SubSeq(j, 1, g)) = g
      /\ \A k \in 1 .. g : SubSeq(j, 1, g)[k] = j[k]
  <2>1. g <= Len(j)
    BY <1>1
  <2> HIDE DEF g, j
  <2>2. QED
    BY <1>1, <2>1
<1>4. SubSeq(j, 1, g) = s
  <2> DEFINE z == SubSeq(j, 1, g)
  <2>1. z \in Seq(S) /\ Len(z) = Len(s) /\ \A k \in 1 .. Len(z) : z[k] = s[k]
    BY <1>1, <1>3
  <2> HIDE DEF z
  <2>2. z = s
    BY <2>1, SameElements
  <2>3. QED
    BY <2>2 DEF z
<1>5. QED
  BY <1>2, <1>4

\* ... or what the port gets and gives.
LEMMA PortSeen ==
    ASSUME PInv, PortAccess
    PROVE  PInv' /\ Unseen
<1> DEFINE a == Head(acc)
<1>1. IInv' /\ View' = View /\ IInv /\ TypeOK
  BY PortInv DEF PInv, IInv
<1>2. /\ phase = "run" /\ acc # <<>> /\ acc' = Tail(acc) /\ a.op \in {"in", "out"}
      /\ UNCHANGED <<memvars, system, regs, phase, fault>>
      /\ a.op = "in" => /\ loaded' = [ k \in 1 .. a.size |-> PortByte(taken + k) ]
                        /\ taken' = taken + a.size /\ UNCHANGED sent
      /\ a.op = "out" => sent' = sent \o loaded /\ UNCHANGED <<loaded, taken>>
  BY DEF PortAccess, Spans
<1>3. i' = i /\ Ported' = Ported
  BY <1>2 DEF i, system, Ported
<1>4. /\ a.op = "in" => /\ i.op = "ins" /\ a.size = i.size
                        /\ fault.kind = "none" => loaded = <<>>
      /\ a.op = "out" => /\ i.op = "outs"
                         /\ fault.kind = "none" => Len(loaded) = i.size
  BY <1>1, <1>2, PortHead
<1>5. fault.kind = "none"
  BY <1>2, <1>4 DEF PInv, Resident, Ported
<1>6. i.size \in 1 .. 2 /\ taken \in Nat /\ sent \in Seq(Values) /\ loaded \in Seq(Values)
  BY <1>1, TheProgram DEF TypeOK
<1>7. Resident'
  BY <1>2, <1>3 DEF PInv, Resident, memvars
<1>8. Over' = Over
  BY <1>2 DEF Over
<1>9. CASE a.op = "in"
  <2> DEFINE g == [ k \in 1 .. i.size |-> PortByte(taken + k) ]
  <2>1. loaded' = g /\ taken' = taken + i.size /\ sent' = sent /\ loaded = <<>>
        /\ i.op = "ins"
    BY <1>2, <1>4, <1>5, <1>9
  <2>2. Len(g) = i.size /\ g \in Seq(Values)
    <3>1. \A k \in 1 .. i.size : PortByte(taken + k) \in Values
      BY <1>6 DEF Values
    <3>2. QED
      BY <1>6, <3>1
  <2> HIDE DEF g
  <2>3. g # <<>>
    BY <1>6, <2>2
  <2>4. JustSent' /\ Out' = Out
    BY <1>3, <2>1 DEF JustSent, Out
  <2>5. Given = taken
    BY <2>1 DEF Given
  <2>6. Given' = (taken + i.size) - i.size
    BY <1>2, <1>3, <2>1, <2>3 DEF Given, InElement
  <2>7. Given' = Given
    BY <1>6, <2>5, <2>6
  <2>8. QED
    BY <1>1, <1>2, <1>3, <1>7, <1>8, <2>4, <2>7 DEF PInv, Unseen
<1>10. CASE a.op = "out"
  <2>1. sent' = sent \o loaded /\ loaded' = loaded /\ taken' = taken /\ i.op = "outs"
        /\ Len(loaded) = i.size
    BY <1>2, <1>4, <1>5, <1>10
  <2>2. JustSent'
    <3>1. Len(loaded') = i'.size
      BY <1>3, <2>1
    <3>2. sent' = sent \o loaded'
      BY <2>1
    <3>3. QED
      BY <1>6, <3>1, <3>2 DEF JustSent
  <2>3. Given' = Given
    BY <1>2, <1>3, <2>1 DEF Given
  <2>4. Out = sent
    BY <1>2 DEF Out
  <2>5. acc' # <<>> => Out' = sent'
    BY DEF Out
  <2>6. acc' = <<>>
    <3> DEFINE L == Accesses
    <3>1. Listed(L) /\ Shaped(L)
      BY <1>1, <1>2, RunFacts
    <3>2. PICK n, h : Running(n, h)
      BY <1>1, <1>2, RunFacts
    <3>3. At(L, n, h) /\ acc = Left(L, n, h) /\ n # Len(L) + 1
      BY <1>1, <1>2, <3>2, RunFacts DEF Running
    <3> HIDE DEF L
    <3>4. n \in 1 .. Len(L) /\ a = Next1(L, n, h)
      BY <3>1, <3>3, LeftGoes
    <3>5. a.op = L[n].op
      <4> DEFINE b == Next1(L, n, h)
      <4>1. b.op = L[n].op
        BY <3>1, <3>3, NextIs
      <4> HIDE DEF b, a
      <4>2. a = b
        BY <3>4 DEF b
      <4>3. QED
        BY <4>1, <4>2
    <3>6. h = "whole" /\ n = 2 /\ Len(L) = 2
      <4>1. h = "whole"
        BY <1>10, <3>3, <3>5 DEF At
      <4>2. Len(L) = 2 /\ L[1].op = "read"
        BY <2>1, <3>1 DEF Shaped
      <4>3. n # 1
        BY <1>10, <3>5, <4>2
      <4>4. n \in 1 .. 2
        BY <3>4, <4>2
      <4>5. QED
        BY <4>1, <4>2, <4>3, <4>4
    <3>7. Tail(acc) = Left(L, n + 1, "whole")
      <4> DEFINE s == After(n, h)
      <4>1. Tail(acc) = Left(L, s[1], s[2])
        BY <3>1, <3>3, AfterAt
      <4>2. s[1] = n + 1 /\ s[2] = "whole"
        BY <3>6 DEF After
      <4> HIDE DEF s
      <4>3. QED
        BY <4>1, <4>2
    <3>8. QED
      BY <1>2, <3>6, <3>7 DEF Left, RestOf
  <2>7. Out' = SubSeq(sent \o loaded, 1, Len(sent \o loaded) - Len(loaded))
    BY <1>2, <1>3, <2>1, <2>6 DEF Out, InElement
  <2>8. Out' = sent
    BY <1>6, <2>7, TakenOff
  <2>9. QED
    BY <1>1, <1>2, <1>3, <1>7, <1>8, <2>2, <2>3, <2>4, <2>8 DEF PInv, Unseen
<1>11. QED
  BY <1>2, <1>9, <1>10

\* Nor what is taken back
LEMMA TakenBackSeen ==
    ASSUME PInv, Retire, fault.kind # "none"
    PROVE  PInv' /\ Unseen
<1>1. IInv' /\ View' = View
  BY TakenBackInv DEF PInv
<1>2. /\ phase = "run" /\ phase' = "fault"
      /\ UNCHANGED <<regs, ram, pte, tlb, system, acc, fault, sent, taken>>
  BY DEF Retire
<1>3. i' = i /\ Ported' = Ported
  BY <1>2 DEF i, system, Ported
<1>4. i.op # "ins" /\ i.op # "outs"
  BY DEF PInv, Resident, Ported
<1>5. Resident' /\ JustSent'
  BY <1>2, <1>3, <1>4 DEF Resident, JustSent, Ported
<1>6. Out' = Out /\ Given' = Given /\ Over' = Over
  BY <1>2, <1>3, <1>4 DEF Out, Given, Over
<1>7. QED
  BY <1>1, <1>2, <1>3, <1>5, <1>6 DEF PInv, Unseen

\* Nor what the system does
LEMMA SystemSeen ==
    ASSUME PortsInMemory, PInv,
           \/ PageIn \/ Unshare
           \/ \E p \in ProgramPages, how \in {"page", "all"} :
                PageOut(p, how) \/ Clean(p, how)
    PROVE  PInv' /\ Unseen
<1>1. IInv' /\ View' = View /\ IInv
  BY PageInInv, UnshareInv, PageOutInv, CleanInv DEF PInv
<1>2. /\ phase \in {"next", "fault"} /\ phase' \in {"next", "fault"}
      /\ UNCHANGED <<program, regs, sent, taken, acc, loaded>>
      /\ (phase = "fault" /\ fault.kind # "none") \/ ~program.resident
  BY DEF PageIn, Unshare, PageOut, Clean, Moving, system
<1>3. i' = i /\ Ported' = Ported
  BY <1>2 DEF i, Ported
<1>4. ~Ported
  <2>1. Ported => fault.kind = "none"
    BY DEF PInv, Resident
  <2>2. Ported => program.resident
    BY <1>1 DEF IInv, TypeOK, PortsInMemory, Ported, i
  <2>3. QED
    BY <1>2, <2>1, <2>2
<1>5. Resident' /\ JustSent'
  BY <1>2, <1>3, <1>4 DEF Resident, JustSent
<1>6. Out' = Out /\ Given' = Given /\ Over' = Over
  BY <1>2, <1>3 DEF Out, Given, Over, InElement
<1>7. QED
  BY <1>1, <1>2, <1>3, <1>5, <1>6 DEF PInv, Unseen

-----------------------------------------------------------------------------
(* The end of an element is an element of the machine                      *)

\* The access lists of the instructions
LEMMA AccessLists ==
    /\ i.op = "movs" => Accesses = <<Read(regs.si), Write(regs.di)>>
    /\ i.op = "cmps" => Accesses = <<Read(regs.si), Read(regs.di)>>
    /\ i.op = "stos" => Accesses = <<Write(regs.di)>>
    /\ i.op = "lods" => Accesses = <<Read(regs.si)>>
    /\ i.op = "scas" => Accesses = <<Read(regs.di)>>
    /\ i.op = "ins"  => Accesses = <<Port("in"), Write(regs.di)>>
    /\ i.op = "outs" => Accesses = <<Read(regs.si), Port("out")>>
  BY DEF Accesses

\* What an element of two accesses, and one of one, has read
Joined(l, g, h) == l = g \o h

\* The bytes of the accesses, in their order.
LEMMA LoadedOfTwo ==
    ASSUME NEW x, NEW y, NEW v, NEW b, NEW g \in Seq(Values), NEW h \in Seq(Values),
           g = Gives(x, v, b), h = Gives(y, v, b)
    PROVE  /\ Joined(Got(<<x, y>>, v, b, 3, "whole"), g, h)
           /\ Got(<<x>>, v, b, 2, "whole") = g
<1>1. /\ GotBefore(<<x, y>>, v, b, 3) = g \o h
      /\ GotBefore(<<x>>, v, b, 2) = g
  BY DEF GotBefore
<1>2. g \o h \in Seq(Values)
  OBVIOUS
<1>3. \A w \in Seq(Values) : w \o <<>> = w
  OBVIOUS
<1>4. (g \o h) \o <<>> = g \o h /\ g \o <<>> = g
  BY <1>2, <1>3
<1>5. /\ Got(<<x, y>>, v, b, 3, "whole") = GotBefore(<<x, y>>, v, b, 3) \o <<>>
      /\ Got(<<x>>, v, b, 2, "whole") = GotBefore(<<x>>, v, b, 2) \o <<>>
  BY DEF Got
<1>6. QED
  BY <1>1, <1>4, <1>5 DEF Joined

\* What an element has read when it ends
LEMMA LoadedIs ==
    ASSUME IInv, phase = "run", acc = <<>>, fault.kind = "none"
    PROVE  /\ i.op \in {"movs", "lods", "outs"} => loaded = BytesOf(View, regs.si, i.size)
           /\ i.op = "scas" => loaded = BytesOf(View, regs.di, i.size)
           /\ i.op = "cmps" =>
                loaded = BytesOf(View, regs.si, i.size) \o BytesOf(View, regs.di, i.size)
           /\ i.op = "ins" => loaded = [ k \in 1 .. i.size |-> PortByte(Before + k) ]
           /\ i.op \in Sources => /\ BytesOf(View, regs.si, i.size) \in Seq(Values)
                                  /\ Len(BytesOf(View, regs.si, i.size)) = i.size
           /\ i.op \in Destinations => /\ BytesOf(View, regs.di, i.size) \in Seq(Values)
                                       /\ Len(BytesOf(View, regs.di, i.size)) = i.size
<1> DEFINE L == Accesses
           z == i.size
           s == BytesOf(View, regs.si, z)
           d == BytesOf(View, regs.di, z)
           p == [ k \in 1 .. z |-> PortByte(Before + k) ]
<1>1. /\ Listed(L) /\ Shaped(L) /\ Before \in Nat
      /\ loaded = Got(L, View, Before, Len(L) + 1, "whole")
  BY AtEnd
<1>2. /\ TypeOK /\ Placed /\ (i.rep # "none" => regs.cx > 0)
      /\ View \in [ Address -> Values ]
  BY RunFacts DEF IInv, Placed
<1>3. /\ z \in 1 .. 2 /\ regs.si \in Int /\ regs.di \in Int
      /\ i.op \in Sources \cup Destinations
  BY <1>2, TheProgram DEF TypeOK
<1>4. i.op \in Sources => s \in Seq(Values) /\ Len(s) = z
  <2>1. ASSUME i.op \in Sources
        PROVE  \A k \in 0 .. z - 1 : regs.si + k \in Address
    BY <1>2, <2>1, OperandsHere
  <2>2. z \in Nat
    BY <1>3
  <2> HIDE DEF z
  <2>3. QED
    BY <1>2, <1>3, <2>1, <2>2, BytesType
<1>5. i.op \in Destinations => d \in Seq(Values) /\ Len(d) = z
  <2>1. ASSUME i.op \in Destinations
        PROVE  \A k \in 0 .. z - 1 : regs.di + k \in Address
    BY <1>2, <2>1, OperandsHere
  <2>2. z \in Nat
    BY <1>3
  <2> HIDE DEF z
  <2>3. QED
    BY <1>2, <1>3, <2>1, <2>2, BytesType
<1>6. p \in Seq(Values)
  <2>1. \A k \in 1 .. z : PortByte(Before + k) \in Values
    BY <1>1, <1>3 DEF Values
  <2>2. QED
    BY <1>3, <2>1
<1> DEFINE R(a) == Read(a)
           W == Write(regs.di)
           N == Port("in")
           T == Port("out")
<1>7. /\ Gives(R(regs.si), View, Before) = s
      /\ Gives(R(regs.di), View, Before) = d
      /\ Gives(W, View, Before) = <<>> /\ Gives(T, View, Before) = <<>>
      /\ Gives(N, View, Before) = p
  BY DEF Gives, Read, Write, Port
<1>8. /\ R(regs.si) \in AnAccess /\ R(regs.di) \in AnAccess /\ W \in AnAccess
      /\ N \in AnAccess /\ T \in AnAccess
  BY <1>3 DEF Read, Write, Port, AnAccess
<1>9. \A w \in Seq(Values) : w \o <<>> = w
  OBVIOUS
<1>10. <<>> \in Seq(Values)
  OBVIOUS
<1>11. \A x, y : Len(<<x, y>>) + 1 = 3 /\ Len(<<x>>) + 1 = 2
  OBVIOUS
<1> HIDE DEF s, d, p, R, W, N, T, z
<1>12. i.op = "movs" => loaded = s
  <2>1. SUFFICES ASSUME i.op = "movs"
                 PROVE  loaded = s
    OBVIOUS
  <2> DEFINE x == R(regs.si)
             y == W
  <2>2. loaded = Got(<<x, y>>, View, Before, 3, "whole")
    BY <1>1, <1>11, <2>1, AccessLists DEF R, W
  <2>3. /\ s \in Seq(Values) /\ <<>> \in Seq(Values)
        /\ s = Gives(x, View, Before) /\ <<>> = Gives(y, View, Before)
    BY <1>4, <1>5, <1>6, <1>7, <1>10, <2>1 DEF Sources
  <2> HIDE DEF x, y
  <2>4. loaded = s \o <<>>
    <3>1. Joined(Got(<<x, y>>, View, Before, 3, "whole"), s, <<>>)
      BY <2>3, LoadedOfTwo
    <3>2. QED
      BY <2>2, <3>1 DEF Joined
  <2>5. QED
    BY <1>9, <2>3, <2>4
<1>13. i.op = "outs" => loaded = s
  <2>1. SUFFICES ASSUME i.op = "outs"
                 PROVE  loaded = s
    OBVIOUS
  <2> DEFINE x == R(regs.si)
             y == T
  <2>2. loaded = Got(<<x, y>>, View, Before, 3, "whole")
    BY <1>1, <1>11, <2>1, AccessLists DEF R, T
  <2>3. /\ s \in Seq(Values) /\ <<>> \in Seq(Values)
        /\ s = Gives(x, View, Before) /\ <<>> = Gives(y, View, Before)
    BY <1>4, <1>5, <1>6, <1>7, <1>10, <2>1 DEF Sources
  <2> HIDE DEF x, y
  <2>4. loaded = s \o <<>>
    <3>1. Joined(Got(<<x, y>>, View, Before, 3, "whole"), s, <<>>)
      BY <2>3, LoadedOfTwo
    <3>2. QED
      BY <2>2, <3>1 DEF Joined
  <2>5. QED
    BY <1>9, <2>3, <2>4
<1>14. i.op = "ins" => loaded = p
  <2>1. SUFFICES ASSUME i.op = "ins"
                 PROVE  loaded = p
    OBVIOUS
  <2> DEFINE x == N
             y == W
  <2>2. loaded = Got(<<x, y>>, View, Before, 3, "whole")
    BY <1>1, <1>11, <2>1, AccessLists DEF N, W
  <2>3. /\ p \in Seq(Values) /\ <<>> \in Seq(Values)
        /\ p = Gives(x, View, Before) /\ <<>> = Gives(y, View, Before)
    BY <1>4, <1>5, <1>6, <1>7, <1>10, <2>1
  <2> HIDE DEF x, y
  <2>4. loaded = p \o <<>>
    <3>1. Joined(Got(<<x, y>>, View, Before, 3, "whole"), p, <<>>)
      BY <2>3, LoadedOfTwo
    <3>2. QED
      BY <2>2, <3>1 DEF Joined
  <2>5. QED
    BY <1>9, <2>3, <2>4
<1>15. i.op = "cmps" => loaded = s \o d
  <2>1. SUFFICES ASSUME i.op = "cmps"
                 PROVE  loaded = s \o d
    OBVIOUS
  <2> DEFINE x == R(regs.si)
             y == R(regs.di)
  <2>2. loaded = Got(<<x, y>>, View, Before, 3, "whole")
    BY <1>1, <1>11, <2>1, AccessLists DEF R
  <2>3. /\ s \in Seq(Values) /\ d \in Seq(Values)
        /\ s = Gives(x, View, Before) /\ d = Gives(y, View, Before)
    BY <1>4, <1>5, <1>6, <1>7, <1>10, <2>1 DEF Sources, Destinations
  <2> HIDE DEF x, y
  <2>4. loaded = s \o d
    <3>1. Joined(Got(<<x, y>>, View, Before, 3, "whole"), s, d)
      BY <2>3, LoadedOfTwo
    <3>2. QED
      BY <2>2, <3>1 DEF Joined
  <2>5. QED
    BY <1>9, <2>3, <2>4
<1>16. i.op = "lods" => loaded = s
  <2>1. SUFFICES ASSUME i.op = "lods"
                 PROVE  loaded = s
    OBVIOUS
  <2> DEFINE x == R(regs.si)
  <2>2. loaded = Got(<<x>>, View, Before, 2, "whole")
    BY <1>1, <1>11, <2>1, AccessLists DEF R
  <2>3. s \in Seq(Values) /\ s = Gives(x, View, Before)
    BY <1>4, <1>5, <1>7, <2>1 DEF Sources
  <2> HIDE DEF x
  <2>4. QED
    BY <2>2, <2>3, LoadedOfTwo
<1>17. i.op = "scas" => loaded = d
  <2>1. SUFFICES ASSUME i.op = "scas"
                 PROVE  loaded = d
    OBVIOUS
  <2> DEFINE x == R(regs.di)
  <2>2. loaded = Got(<<x>>, View, Before, 2, "whole")
    BY <1>1, <1>11, <2>1, AccessLists DEF R
  <2>3. d \in Seq(Values) /\ d = Gives(x, View, Before)
    BY <1>4, <1>5, <1>7, <2>1 DEF Destinations
  <2> HIDE DEF x
  <2>4. QED
    BY <2>2, <2>3, LoadedOfTwo
<1>18. QED
  BY <1>4, <1>5, <1>12, <1>13, <1>14, <1>15, <1>16, <1>17 DEF s, d, p, z

\* The elements of two sequences that are joined
LEMMA JoinParts ==
    \A s, t \in Seq(Values) : \A z \in Nat : Len(s) = z /\ Len(t) = z =>
      /\ s \o t \in Seq(Values) /\ Len(s \o t) = z + z
      /\ \A k \in 1 .. z : (s \o t)[k] = s[k]
      /\ \A k \in 1 .. z : (s \o t)[z + k] = t[k]
  OBVIOUS

\* The two halves of what a comparison of memory reads
LEMMA Halves ==
    ASSUME NEW s \in Seq(Values), NEW t \in Seq(Values), NEW g \in Nat,
           Len(s) = g, Len(t) = g, NEW j, j = s \o t
    PROVE  SubSeq(j, 1, g) = s /\ SubSeq(j, g + 1, 2 * g) = t
<1>1. /\ j \in Seq(Values) /\ Len(j) = g + g
      /\ \A k \in 1 .. g : j[k] = s[k]
      /\ \A k \in 1 .. g : j[g + k] = t[k]
  BY JoinParts
<1>2. SubSeq(j, 1, g) = s
  <2> DEFINE z == SubSeq(j, 1, g)
  <2>1. g <= Len(j)
    BY <1>1
  <2>2. z \in Seq(Values) /\ Len(z) = g /\ \A k \in 1 .. g : z[k] = j[k]
    BY <1>1, <2>1
  <2>3. \A k \in 1 .. Len(z) : z[k] = s[k]
    BY <1>1, <2>2
  <2> HIDE DEF z
  <2>4. z = s
    BY <2>2, <2>3, SameElements
  <2>5. QED
    BY <2>4 DEF z
<1>3. SubSeq(j, g + 1, 2 * g) = t
  <2> DEFINE z == SubSeq(j, g + 1, 2 * g)
  <2>1. 2 * g = Len(j) /\ 2 * g - (g + 1) + 1 = g /\ 2 * g = g + g
    BY <1>1
  <2>2. z \in Seq(Values) /\ Len(z) = g /\ \A k \in 1 .. g : z[k] = j[g + k]
    BY <1>1, <2>1
  <2>3. \A k \in 1 .. Len(z) : z[k] = t[k]
    BY <1>1, <2>2
  <2> HIDE DEF z
  <2>4. z = t
    BY <2>2, <2>3, SameElements
  <2>5. QED
    BY <2>4 DEF z
<1>4. QED
  BY <1>2, <1>3

\* The element's comparison is that of the machine.
LEMMA EqualIs ==
    ASSUME IInv, phase = "run", acc = <<>>, fault.kind = "none", i.op \in Comparisons
    PROVE  Equal = (Machine!Source = Machine!Bytes(regs.di))
<1> DEFINE s == BytesOf(View, regs.si, i.size)
           d == BytesOf(View, regs.di, i.size)
<1>1. Machine!Bytes(regs.si) = s /\ Machine!Bytes(regs.di) = d
  BY DEF Machine!Bytes, BytesOf
<1>2. i.size \in 1 .. 2
  BY TheProgram DEF IInv
<1>3. CASE i.op = "scas"
  <2>1. loaded = d
    BY <1>3, LoadedIs
  <2>2. Machine!Source = SubSeq(Accumulator, 1, i.size)
    BY <1>3 DEF Machine!Source
  <2>3. Equal = (SubSeq(Accumulator, 1, i.size) = loaded)
    BY <1>3 DEF Equal
  <2> HIDE DEF d
  <2>4. QED
    BY <1>1, <2>1, <2>2, <2>3
<1>4. CASE i.op = "cmps"
  <2>1. loaded = s \o d /\ s \in Seq(Values) /\ d \in Seq(Values)
        /\ Len(s) = i.size /\ Len(d) = i.size
    BY <1>4, LoadedIs DEF Sources, Destinations
  <2>2. Machine!Source = Machine!Bytes(regs.si)
    BY <1>4 DEF Machine!Source
  <2>3. Equal = (SubSeq(loaded, 1, i.size) = SubSeq(loaded, i.size + 1, 2 * i.size))
    BY <1>4 DEF Equal
  <2> DEFINE k == i.size
  <2> HIDE DEF s, d
  <2>4. SubSeq(loaded, 1, k) = s /\ SubSeq(loaded, k + 1, 2 * k) = d
    <3>1. k \in Nat /\ Len(s) = k /\ Len(d) = k
      BY <1>2, <2>1
    <3> HIDE DEF k
    <3>2. QED
      BY <2>1, <3>1, Halves
  <2>5. QED
    BY <1>1, <2>1, <2>2, <2>3, <2>4
<1>5. QED
  BY <1>3, <1>4 DEF Comparisons

\* The element's writes are those of the machine.
LEMMA PutIs ==
    ASSUME IInv, Retire, fault.kind = "none",
           i.op = "ins" => Given = Before
    PROVE  View' = CASE i.op = "movs" -> Machine!Put(regs.di, Machine!Bytes(regs.si))
                     [] i.op = "stos" -> Machine!Put(regs.di, Accumulator)
                     [] i.op = "ins"  -> Machine!Put(regs.di,
                                           [ k \in 1 .. i.size |-> PortByte(Given + k) ])
                     [] OTHER         -> View
<1> DEFINE L == Accesses
           z == i.size
           w == Written(L)
<1>1. phase = "run" /\ acc = <<>> /\ TypeOK
  BY DEF Retire, IInv
<1>2. View' = [ b \in Address |-> IF b \in regs.di .. regs.di + w - 1
                                  THEN Value[b - regs.di + 1] ELSE View[b] ]
  BY CommitInv
<1>3. View \in [ Address -> Values ] /\ DOMAIN View = Address
  <2>1. View \in [ Address -> Values ]
    BY <1>1, ViewIs
  <2>2. QED
    BY <2>1
<1>4. /\ i.op \in {"movs", "stos", "ins"} => w = z
      /\ i.op \in {"cmps", "lods", "scas", "outs"} => w = 0
  <2>1. /\ i.op = "movs" => Len(L) = 2 /\ L[2].op = "write"
        /\ i.op = "cmps" => Len(L) = 2 /\ L[2].op = "read"
        /\ i.op = "stos" => Len(L) = 1 /\ L[1].op = "write"
        /\ i.op = "lods" => Len(L) = 1 /\ L[1].op = "read"
        /\ i.op = "scas" => Len(L) = 1 /\ L[1].op = "read"
        /\ i.op = "ins"  => Len(L) = 2 /\ L[2].op = "write"
        /\ i.op = "outs" => Len(L) = 2 /\ L[2].op = "out"
    BY AccessLists DEF Read, Write, Port
  <2> HIDE DEF L
  <2>2. QED
    BY <2>1 DEF Written
<1>5. i.op \in {"movs", "cmps", "stos", "lods", "scas", "ins", "outs"} /\ regs.di \in Int
      /\ z \in 1 .. 2
  BY <1>1, TheProgram DEF TypeOK, Sources, Destinations
<1>6. \A v : Machine!Put(regs.di, v) =
               [ b \in Address |-> IF b \in regs.di .. regs.di + z - 1
                                   THEN v[b - regs.di + 1] ELSE View[b] ]
  BY <1>3 DEF Machine!Put
<1>7. Machine!Bytes(regs.si) = BytesOf(View, regs.si, z)
  BY DEF Machine!Bytes, BytesOf
<1> HIDE DEF w, z, L
<1>8. i.op \in {"movs", "stos", "ins"} => View' = Machine!Put(regs.di, Value)
  BY <1>2, <1>4, <1>6
<1>9. i.op \in {"cmps", "lods", "scas", "outs"} => View' = View
  <2>1. SUFFICES ASSUME i.op \in {"cmps", "lods", "scas", "outs"}
                 PROVE  View' = View
    OBVIOUS
  <2>2. \A b : b \notin regs.di .. regs.di + w - 1
    BY <1>4, <1>5, <2>1
  <2>3. View' = [ b \in Address |-> View[b] ]
    BY <1>2, <2>2
  <2>4. QED
    BY <1>3, <2>3
<1>10. /\ i.op = "movs" => Value = Machine!Bytes(regs.si)
       /\ i.op = "stos" => Value = Accumulator
       /\ i.op = "ins" => Value = [ k \in 1 .. i.size |-> PortByte(Given + k) ]
  <2>1. i.op = "movs" => loaded = BytesOf(View, regs.si, z)
    BY <1>1, LoadedIs DEF z
  <2>2. i.op = "ins" => loaded = [ k \in 1 .. i.size |-> PortByte(Given + k) ]
    BY <1>1, LoadedIs
  <2>3. QED
    BY <1>7, <2>1, <2>2 DEF Value
<1>11. CASE i.op = "movs"
  BY <1>8, <1>10, <1>11
<1>12. CASE i.op = "stos"
  BY <1>8, <1>10, <1>12
<1>13. CASE i.op = "ins"
  BY <1>8, <1>10, <1>13
<1>14. CASE i.op \in {"cmps", "lods", "scas", "outs"}
  BY <1>9, <1>14
<1>15. QED
  BY <1>5, <1>11, <1>12, <1>13, <1>14

\* The end of an element that did not fault is a step of the machine.
LEMMA RetireSeen ==
    ASSUME PInv, Retire, fault.kind = "none"
    PROVE  PInv' /\ Machine!Step
<1>1. /\ IInv /\ TypeOK /\ Placed /\ phase = "run" /\ acc = <<>> /\ IInv'
      /\ phase' = IF Last THEN "over" ELSE "next"
      /\ regs' = Advanced /\ wrcache' = <<>> /\ loaded' = <<>>
      /\ UNCHANGED <<pte, tlb, system, acc, fault, sent, taken>>
  BY CommitInv, RunFacts DEF Retire, PInv, IInv
<1>2. i' = i /\ Ported' = Ported
  BY <1>1 DEF i, system, Ported
<1>3. phase' # "run" /\ phase' \in {"over", "next"} /\ (phase' = "over" <=> Last)
  BY <1>1 DEF Last
<1>4. PInv'
  <2>1. Resident'
    BY <1>1, <1>2 DEF PInv, Resident
  <2>2. JustSent'
    BY <1>3 DEF JustSent
  <2>3. QED
    BY <1>1, <2>1, <2>2 DEF PInv
<1>5. /\ i.op \in {"movs", "cmps", "stos", "lods", "scas", "ins", "outs"}
      /\ i.size \in 1 .. 2 /\ (i.rep # "none" => regs.cx > 0)
      /\ regs.cx \in Nat /\ taken \in Nat /\ sent \in Seq(Values) /\ loaded \in Seq(Values)
  BY <1>1, TheProgram DEF TypeOK, Sources, Destinations, Placed
<1>6. Machine!Bytes(regs.si) = BytesOf(View, regs.si, i.size)
      /\ Machine!Bytes(regs.di) = BytesOf(View, regs.di, i.size)
  BY DEF Machine!Bytes, BytesOf
<1>7. i.op = "ins" => /\ loaded # <<>> /\ Given = taken - i.size /\ Before = taken - i.size
  <2>1. SUFFICES ASSUME i.op = "ins"
                 PROVE  loaded # <<>>
    BY <1>1 DEF Given, Before, InElement
  <2> DEFINE p == [ k \in 1 .. i.size |-> PortByte(Before + k) ]
  <2>2. loaded = p
    BY <1>1, <2>1, LoadedIs
  <2>3. 1 \in DOMAIN p
    BY <1>5
  <2> HIDE DEF p
  <2>4. DOMAIN <<>> = {}
    OBVIOUS
  <2>5. QED
    BY <2>2, <2>3, <2>4
<1>8. i.op # "ins" => Given = taken
  BY DEF Given
<1>9. Given' = IF i.op = "ins" THEN Given + i.size ELSE Given
  <2>1. Given' = taken
    BY <1>1, <1>3 DEF Given, InElement
  <2>2. (taken - i.size) + i.size = taken
    BY <1>5
  <2>3. QED
    BY <1>7, <1>8, <2>1, <2>2
<1>10. Out' = IF i.op = "outs" THEN Out \o Machine!Bytes(regs.si) ELSE Out
  <2>1. Out' = sent
    BY <1>1, <1>3 DEF Out, InElement
  <2>2. i.op # "outs" => Out = sent
    BY DEF Out
  <2>3. ASSUME i.op = "outs"
        PROVE  Out \o Machine!Bytes(regs.si) = sent
    <3>1. Len(loaded) = i.size
      BY <1>1, <2>3 DEF PInv, JustSent
    <3>2. PICK t \in Seq(Values) : sent = t \o loaded
      BY <1>1, <2>3 DEF PInv, JustSent
    <3>3. SubSeq(t \o loaded, 1, Len(t \o loaded) - Len(loaded)) = t
      BY <1>5, TakenOff
    <3>4. Out = SubSeq(sent, 1, Len(sent) - i.size)
      BY <1>1, <2>3 DEF Out, InElement
    <3>5. Out = t
      BY <3>1, <3>2, <3>3, <3>4
    <3>6. Machine!Bytes(regs.si) = loaded
      BY <1>1, <1>6, <2>3, LoadedIs
    <3>7. QED
      BY <3>2, <3>5, <3>6
  <2>4. QED
    BY <2>1, <2>2, <2>3
<1>11. i.op \in Comparisons => Equal = (Machine!Source = Machine!Bytes(regs.di))
  BY <1>1, EqualIs
<1>12. i.op = "lods" => loaded = Machine!Bytes(regs.si)
  BY <1>1, <1>6, LoadedIs
<1>13. regs' = [ regs EXCEPT
         !.si = IF i.op \in {"movs", "cmps", "lods", "outs"} THEN @ + i.step ELSE @,
         !.di = IF i.op \in {"movs", "cmps", "stos", "scas", "ins"} THEN @ + i.step
                ELSE @,
         !.cx = IF i.rep = "none" THEN @ ELSE @ - 1,
         !.zf = IF i.op \in {"cmps", "scas"}
                THEN Machine!Source = Machine!Bytes(regs.di) ELSE @,
         !.ax = IF i.op = "lods" THEN Machine!Bytes(regs.si) ELSE @ ]
  <2> DEFINE si == IF i.op \in {"movs", "cmps", "lods", "outs"} THEN regs.si + i.step
                   ELSE regs.si
             di == IF i.op \in {"movs", "cmps", "stos", "scas", "ins"}
                   THEN regs.di + i.step ELSE regs.di
             cx == IF i.rep = "none" THEN regs.cx ELSE regs.cx - 1
             zf == IF i.op \in {"cmps", "scas"}
                   THEN Machine!Source = Machine!Bytes(regs.di) ELSE regs.zf
             ze == IF i.op \in {"cmps", "scas"} THEN Equal ELSE regs.zf
             ax == IF i.op = "lods" THEN Machine!Bytes(regs.si) ELSE regs.ax
             al == IF i.op = "lods" THEN loaded ELSE regs.ax
  <2>1. zf = ze
    BY <1>11 DEF Comparisons
  <2>2. ax = al
    BY <1>12
  <2>3. regs' = [regs EXCEPT !.si = si, !.di = di, !.cx = cx, !.zf = ze, !.ax = al]
    BY <1>1, Zenon DEF Advanced, Sources, Destinations, Comparisons
  <2> HIDE DEF ze, al, zf, ax
  <2>4. regs' = [regs EXCEPT !.si = si, !.di = di, !.cx = cx, !.zf = zf, !.ax = ax]
    BY <2>1, <2>2, <2>3
  <2>5. QED
    BY <2>4, Zenon DEF zf, ax
<1>14. View' = CASE i.op = "movs" -> Machine!Put(regs.di, Machine!Bytes(regs.si))
                 [] i.op = "stos" -> Machine!Put(regs.di, Accumulator)
                 [] i.op = "ins"  -> Machine!Put(regs.di,
                                       [ k \in 1 .. i.size |-> PortByte(Given + k) ])
                 [] OTHER         -> View
  BY <1>1, <1>7, PutIs
<1>15. Machine!Element
  BY <1>9, <1>10, <1>13, <1>14, Zenon DEF Machine!Element, Out, Given
<1>16. Last <=> i.rep = "none" \/ Machine!Decided
  <2>1. i.op \in Comparisons => regs'.zf = Equal
    <3>1. regs \in [ si : Int, di : Int, cx : Nat, zf : BOOLEAN, ax : Seq(Values) ]
      BY <1>1 DEF TypeOK
    <3>2. QED
      BY <1>1, <3>1 DEF Advanced
  <2>2. CASE i.op \in Comparisons
    <3>1. Machine!Decided <=> i.rep = (IF Equal THEN "repne" ELSE "repe")
      BY <2>1, <2>2 DEF Machine!Decided, Comparisons
    <3>2. QED
      BY <2>2, <3>1 DEF Last
  <2>3. CASE i.op \notin Comparisons
    BY <2>3 DEF Last, Machine!Decided, Comparisons
  <2>4. QED
    BY <2>2, <2>3
<1>17. (phase' = "over") = (i.rep = "none" \/ Machine!Decided)
  BY <1>3, <1>16
<1>18. Machine!Step
  <2>1. ~(i.rep # "none" /\ regs.cx = 0)
    BY <1>5
  <2>2. ~(phase = "over")
    BY <1>1
  <2>3. QED
    BY <1>2, <1>15, <1>17, <2>1, <2>2, Zenon DEF Machine!Step
<1>19. QED
  BY <1>4, <1>18

-----------------------------------------------------------------------------
(* The instructions implement the machine                                  *)

\* The port's instructions begin with their pages in memory.
LEMMA InitSeen ==
    ASSUME PortsInMemory, Init
    PROVE  PInv /\ Machine!Init
<1>1. IInv /\ TypeOK
  BY InitInv DEF IInv
<1>2. phase = "next" /\ fault = NoFault /\ sent = <<>> /\ taken = 0
  BY DEF Init
<1>3. JustSent
  BY <1>2 DEF JustSent
<1>4. Resident
  <2>1. SUFFICES ASSUME Ported
                 PROVE  \A p \in ProgramPages : p < Frames =>
                          pte[p].present /\ pte[p].write /\ pte[p].user
    BY <1>2 DEF Resident, NoFault
  <2>2. program.resident
    BY <1>1, <2>1 DEF TypeOK, PortsInMemory, Ported, i
  <2>3. SUFFICES ASSUME NEW p \in ProgramPages, p < Frames
                 PROVE  pte[p].present /\ pte[p].write /\ pte[p].user
    OBVIOUS
  <2>4. pte[p] = [ Absent EXCEPT !.present = program.resident /\ p < Frames,
                     !.frame = p % Frames, !.write = program.resident ]
    BY DEF Init
  <2>5. QED
    BY <2>2, <2>3, <2>4 DEF Absent
<1>5. Machine!Init
  <2>1. phase # "over" /\ phase # "run"
    BY <1>2
  <2>2. QED
    BY <1>2, <2>1 DEF Machine!Init, InElement
<1>6. QED
  BY <1>1, <1>3, <1>4, <1>5 DEF PInv

\* What is not seen changes nothing of the machine.
LEMMA UnseenStutters ==
    ASSUME Unseen
    PROVE  UNCHANGED Machine!vars
  BY Zenon DEF Unseen, Machine!vars, Out, Given, Over

\* Every step is a step of the machine, or is not seen.
LEMMA NextSeen ==
    ASSUME PortsInMemory, PInv, [Next]_vars
    PROVE  PInv' /\ [Machine!Step]_Machine!vars
<1>1. CASE UNCHANGED vars
  <2>1. UNCHANGED <<pte, tlb, ram, wrcache, program, regs, phase, acc, loaded, fault,
                    sent, taken, disk, moves>>
    BY <1>1 DEF vars, memvars
  <2>2. i' = i /\ View' = View
    BY <2>1 DEF i, View
  <2>3. IInv'
    BY <1>1, NextInv DEF PInv
  <2>4. Resident' /\ JustSent'
    BY <2>1, <2>2 DEF PInv, Resident, JustSent, Ported
  <2>5. Unseen
    BY <2>1, <2>2 DEF Unseen, Out, Given, Over, InElement
  <2>6. QED
    BY <2>3, <2>4, <2>5, UnseenStutters DEF PInv
<1>2. CASE Fetch
  <2>1. PInv' /\ (phase' = "run" => Unseen)
    BY <1>2, FetchSeen
  <2>2. CASE phase' = "run"
    BY <2>1, <2>2, UnseenStutters
  <2>3. CASE phase' # "run"
    <3>1. /\ phase = "next" /\ phase' = "over" /\ i.rep # "none" /\ regs.cx = 0
          /\ UNCHANGED <<memvars, system, regs, fault, sent, taken>>
      BY <1>2, <2>3 DEF Fetch
    <3>2. i' = i /\ View' = View
      BY <1>2, <3>1, FetchInv DEF PInv, i, system
    <3>3. Out' = Out /\ Given' = Given
      BY <3>1 DEF Out, Given, InElement
    <3>4. ~(phase = "over") /\ (phase' = "over") = TRUE
      BY <3>1
    <3>5. Machine!Step
      BY <3>1, <3>2, <3>3, <3>4, Zenon DEF Machine!Step, Out, Given
    <3>6. QED
      BY <2>1, <3>5
  <2>4. QED
    BY <2>2, <2>3
<1>3. CASE SplitAccess
  BY <1>3, SplitSeen, UnseenStutters
<1>4. CASE ReadAccess
  BY <1>4, ReadSeen, UnseenStutters
<1>5. CASE WriteAccess
  BY <1>5, WriteSeen, UnseenStutters
<1>6. CASE PortAccess
  BY <1>6, PortSeen, UnseenStutters
<1>7. CASE Retire
  <2>1. fault.kind # "none" => PInv' /\ UNCHANGED Machine!vars
    BY <1>7, TakenBackSeen, UnseenStutters
  <2>2. fault.kind = "none" => PInv' /\ Machine!Step
    BY <1>7, RetireSeen
  <2>3. QED
    BY <2>1, <2>2
<1>8. CASE \/ PageIn \/ Unshare
           \/ \E p \in ProgramPages, how \in {"page", "all"} :
                PageOut(p, how) \/ Clean(p, how)
  BY <1>8, SystemSeen, UnseenStutters
<1>9. QED
  BY <1>1, <1>2, <1>3, <1>4, <1>5, <1>6, <1>7, <1>8 DEF Next

\* A string instruction over paged memory implements that of a machine without
\* paging: every element happens once and as a whole, whatever its accesses
\* fault on, wherever its operands lie, and however the system moves the
\* program's pages between the elements.  The port's instructions need their
\* operands in memory, as PortsExact shows.
THEOREM ImplementsStringsHolds == PortsInMemory => (Spec => ImplementsStrings)
<1> SUFFICES ASSUME PortsInMemory
             PROVE  Spec => ImplementsStrings
  OBVIOUS
<1>1. Init => PInv /\ Machine!Init
  BY InitSeen
<1>2. PInv /\ [Next]_vars => PInv' /\ [Machine!Step]_Machine!vars
  BY NextSeen
<1>3. QED
  BY <1>1, <1>2, PTL DEF Spec, ImplementsStrings, Machine!Spec

-----------------------------------------------------------------------------
(***************************************************************************)
(* Protected mode.  The invariant adds to the property that every frame an *)
(* IRET may find holds flags, that virtual-8086 mode is on only for guests *)
(* that can start it, and that every TSS holds code and flags to start a   *)
(* task with.  One lemma per operator of the model says that it leads from *)
(* a sound state to a sound one, or to an exception, which is rolled back. *)
(***************************************************************************)
Levels == 0 .. 3

\* What an IRET may find in a frame
Framed(f) ==
    /\ f.form \in {"int16", "int32"} =>
         f.fl \in Flags /\ (f.form = "int32" /\ f.fl.v86 => RunsV86(guest))
    /\ f.form # "none" => f.sp \in Int

Fields == {"cpl", "cs", "ss", "ds", "sp", "ip", "tr", "fl"}

RegistersOK(x) ==
    /\ DOMAIN x = Fields
    /\ x.fl \in Flags /\ x.cpl \in Levels /\ x.sp \in Int
    /\ x.fl.v86 => RunsV86(guest)
    /\ Consistent(x)

Tasks == { j \in DOMAIN Gdt : Gdt[j].kind = "tss" }

GuestOK(x) ==
    /\ DOMAIN x = {"ram", "tss", "busy"}
    /\ x.ram = [ at \in DOMAIN x.ram |-> x.ram[at] ]
    /\ \A j \in DOMAIN Gdt : Gdt[j].kind = "data" => <<j, 1>> \in DOMAIN x.ram
    /\ DOMAIN x.tss = Tasks
    /\ \A j \in Tasks : Startable(x.tss[j].image)
    /\ \A at \in DOMAIN x.ram : Framed(x.ram[at])

Faults == {NoVector} \cup Raised(guest)

Formed(s) ==
    /\ DOMAIN s = {"r", "m", "fault"}
    /\ GuestOK(s.m) /\ s.fault \in Faults

\* A state of the CPU between two of its steps, and one within a step that
\* may have failed.
Sound(s)   == Formed(s) /\ RegistersOK(s.r)
OrFails(s) == Formed(s) /\ (s.fault = NoVector => RegistersOK(s.r))

-----------------------------------------------------------------------------
(* Selectors and descriptors                                               *)

\* What is known of a selector is known of its index.
LEMMA SameIndex ==
    ASSUME NEW sel, NEW c
    PROVE  /\ Rpl(<<Index(sel), c>>) = c
           /\ CodeFault(<<Index(sel), c>>) = CodeFault(sel)
           /\ Conforming(<<Index(sel), c>>) = Conforming(sel)
           /\ D(<<Index(sel), c>>) = D(sel)
  BY DEF Rpl, Index, CodeFault, Conforming, D, Known, IsCode

\* A selector without a fault is of a code segment that is there.
LEMMA CodeIsThere ==
    ASSUME NEW sel, CodeFault(sel) = NoVector
    PROVE  /\ Index(sel) # 0 /\ Known(sel) /\ D(sel).present /\ IsCode(sel)
           /\ D(sel).dpl \in Levels
           /\ ~Conforming(sel) => D(sel).kind = "code"
  BY TablesAssumption DEF CodeFault, NoVector, Known, D, Levels, IsCode, Conforming

\* The target of a gate is code of the level that the gate leads to.
LEMMA GateLevel ==
    ASSUME NEW sel, NEW c \in Levels, GateTargetFault(sel, c) = NoVector
    PROVE  LET p == GateTargetCpl(sel, c)
           IN  /\ p \in Levels /\ p <= c
               /\ CodeOfLevel(<<Index(sel), p>>, p)
<1>1. CodeFault(sel) = NoVector /\ ~(D(sel).dpl > c)
  BY DEF GateTargetFault, NoVector
<1>2. D(sel).dpl \in Levels
  BY <1>1, CodeIsThere
<1>3. D(sel).dpl <= c
  BY <1>1, <1>2 DEF Levels
<1>4. CASE Conforming(sel)
  <2>1. GateTargetCpl(sel, c) = c
    BY <1>4 DEF GateTargetCpl
  <2>2. CodeOfLevel(<<Index(sel), c>>, c)
    BY <1>1, <1>3, <1>4, SameIndex DEF CodeOfLevel
  <2>3. QED
    BY <2>1, <2>2 DEF Levels
<1>5. CASE ~Conforming(sel)
  <2>1. GateTargetCpl(sel, c) = D(sel).dpl
    BY <1>5 DEF GateTargetCpl
  <2>2. CodeOfLevel(<<Index(sel), D(sel).dpl>>, D(sel).dpl)
    BY <1>1, <1>5, SameIndex DEF CodeOfLevel
  <2>3. QED
    BY <1>2, <1>3, <2>1, <2>2
<1>6. QED
  BY <1>4, <1>5

\* The kind of a stack's fault makes no difference to whether there is one.
LEMMA StackFaults ==
    ASSUME NEW sel, NEW c
    PROVE  /\ StackFault(sel, c, 10, 12) = NoVector <=> StackFault(sel, c, 13, 12) = NoVector
           /\ StackFault(sel, c, 10, 12) \in {NoVector, 10, 12}
           /\ StackFault(sel, c, 13, 12) \in {NoVector, 12, 13}
  BY DEF StackFault, NoVector

-----------------------------------------------------------------------------
(* Faults                                                                  *)

\* An exception that is raised ends in a fault, and touches nothing else.
LEMMA RaiseIs ==
    ASSUME NEW s, Formed(s), NEW v \in Raised(guest)
    PROVE  /\ Formed(Raise(s, v)) /\ Raise(s, v).r = s.r
           /\ s.fault # NoVector => Raise(s, v) = s
           /\ v # NoVector => Raise(s, v).fault # NoVector
  BY DEF Raise, Formed, Faults

\* The vectors that the CPU raises by itself
LEMMA OwnVectors ==
    \A v \in {10, 11, 12, 13} : v \in Raised(guest) /\ v # NoVector
  BY DEF Raised, NoVector

\* So a failing step may raise them from a sound state.
LEMMA RaiseFails ==
    ASSUME NEW s, Sound(s), NEW v \in Raised(guest)
    PROVE  /\ Sound(Raise(s, v)) /\ OrFails(Raise(s, v))
           /\ v # NoVector => Raise(s, v).fault # NoVector
  BY RaiseIs DEF Sound, OrFails

-----------------------------------------------------------------------------
(* Registers and memory that change without a change of level              *)

\* Soundness is a matter of level, segments and flags.
LEMMA SameSegments ==
    ASSUME NEW x, RegistersOK(x), NEW y, DOMAIN y = Fields,
           y.cpl = x.cpl, y.cs = x.cs, y.ss = x.ss, y.ds = x.ds, y.fl = x.fl,
           x.sp \in Int => y.sp \in Int
    PROVE  RegistersOK(y)
  BY DEF RegistersOK, Consistent, Fields

\* The instruction pointer alone
LEMMA SetIp ==
    ASSUME NEW s, Formed(s), DOMAIN s.r = Fields, NEW v
    PROVE  LET t == [ s EXCEPT !.r.ip = v ]
           IN  /\ Formed(t) /\ t.m = s.m /\ t.fault = s.fault
               /\ DOMAIN t.r = Fields
               /\ t.r.cpl = s.r.cpl /\ t.r.cs = s.r.cs /\ t.r.ss = s.r.ss
               /\ t.r.ds = s.r.ds /\ t.r.fl = s.r.fl /\ t.r.sp = s.r.sp
               /\ t.r.tr = s.r.tr
               /\ RegistersOK(s.r) => RegistersOK(t.r)
<1> DEFINE t == [ s EXCEPT !.r.ip = v ]
<1>1. DOMAIN s = {"r", "m", "fault"}
  BY DEF Formed
<1>2. /\ t.m = s.m /\ t.fault = s.fault /\ DOMAIN t = DOMAIN s
      /\ t.r = [ s.r EXCEPT !.ip = v ]
  BY <1>1
<1>3. /\ DOMAIN t.r = Fields
      /\ t.r.cpl = s.r.cpl /\ t.r.cs = s.r.cs /\ t.r.ss = s.r.ss
      /\ t.r.ds = s.r.ds /\ t.r.fl = s.r.fl /\ t.r.sp = s.r.sp
      /\ t.r.tr = s.r.tr
  BY <1>2 DEF Fields
<1>4. Formed(t)
  BY <1>1, <1>2 DEF Formed
<1>5. RegistersOK(s.r) => RegistersOK(t.r)
  BY <1>3, SameSegments
<1> HIDE DEF t
<1>6. QED
  BY <1>2, <1>3, <1>4, <1>5 DEF t

\* A frame pushed on the stack
LEMMA PushKeeps ==
    ASSUME NEW s, Formed(s), DOMAIN s.r = Fields, NEW f, Framed(f)
    PROVE  LET t == Push(s, f)
           IN  /\ Formed(t) /\ t.fault = s.fault /\ DOMAIN t.r = Fields
               /\ t.r.cpl = s.r.cpl /\ t.r.cs = s.r.cs /\ t.r.ss = s.r.ss
               /\ t.r.ds = s.r.ds /\ t.r.fl = s.r.fl /\ t.r.tr = s.r.tr
               /\ t.r.sp = s.r.sp + 1
               /\ t.m.ram = [ s.m.ram EXCEPT ![<<Index(s.r.ss), s.r.sp + 1>>] = f ]
               /\ RegistersOK(s.r) => RegistersOK(t.r)
<1> DEFINE at == <<Index(s.r.ss), s.r.sp + 1>>
           t == Push(s, f)
<1>1. DOMAIN s = {"r", "m", "fault"} /\ DOMAIN s.m = {"ram", "tss", "busy"}
  BY DEF Formed, GuestOK
<1>2. /\ DOMAIN t = DOMAIN s /\ t.fault = s.fault
      /\ t.r = [ s.r EXCEPT !.sp = @ + 1 ]
      /\ t.m = [ s.m EXCEPT !.ram[at] = f ]
  BY <1>1 DEF Push
<1>3. /\ DOMAIN t.r = Fields
      /\ t.r.cpl = s.r.cpl /\ t.r.cs = s.r.cs /\ t.r.ss = s.r.ss
      /\ t.r.ds = s.r.ds /\ t.r.fl = s.r.fl /\ t.r.tr = s.r.tr
      /\ t.r.sp = s.r.sp + 1
  BY <1>2 DEF Fields
<1>4. GuestOK(t.m)
  <2>1. /\ DOMAIN t.m = DOMAIN s.m /\ t.m.tss = s.m.tss
        /\ t.m.ram = [ s.m.ram EXCEPT ![at] = f ]
    BY <1>1, <1>2
  <2> HIDE DEF t
  <2>0. t.m.ram = [ a \in DOMAIN t.m.ram |-> t.m.ram[a] ]
    BY <2>1
  <2>2. \A a \in DOMAIN t.m.ram : a \in DOMAIN s.m.ram
                                  /\ (t.m.ram[a] = f \/ t.m.ram[a] = s.m.ram[a])
    BY <2>1
  <2>3. \A a \in DOMAIN t.m.ram : Framed(t.m.ram[a])
    BY <2>2 DEF Formed, GuestOK
  <2>4. QED
    BY <2>0, <2>1, <2>3 DEF Formed, GuestOK
<1>5. Formed(t)
  BY <1>1, <1>2, <1>4 DEF Formed
<1>6. RegistersOK(s.r) => RegistersOK(t.r)
  BY <1>3, SameSegments
<1> HIDE DEF t
<1>7. QED
  BY <1>1, <1>2, <1>3, <1>5, <1>6 DEF t

\* NoFrame is not to return through.
LEMMA NoFrameFramed == Framed(NoFrame)
  BY DEF Framed, NoFrame

\* A frame taken from the stack
LEMMA PopKeeps ==
    ASSUME NEW s, Formed(s), DOMAIN s.r = Fields
    PROVE  LET t == Pop(s)
           IN  /\ Formed(t) /\ t.fault = s.fault /\ DOMAIN t.r = Fields
               /\ t.r.cpl = s.r.cpl /\ t.r.cs = s.r.cs /\ t.r.ss = s.r.ss
               /\ t.r.ds = s.r.ds /\ t.r.fl = s.r.fl /\ t.r.tr = s.r.tr
               /\ t.r.sp = s.r.sp - 1
               /\ t.m.ram = [ s.m.ram EXCEPT ![<<Index(s.r.ss), s.r.sp>>] = NoFrame ]
               /\ RegistersOK(s.r) => RegistersOK(t.r)
<1> DEFINE at == <<Index(s.r.ss), s.r.sp>>
           t == Pop(s)
<1>1. DOMAIN s = {"r", "m", "fault"} /\ DOMAIN s.m = {"ram", "tss", "busy"}
  BY DEF Formed, GuestOK
<1>2. /\ DOMAIN t = DOMAIN s /\ t.fault = s.fault
      /\ t.r = [ s.r EXCEPT !.sp = @ - 1 ]
      /\ t.m = [ s.m EXCEPT !.ram[at] = NoFrame ]
  BY <1>1 DEF Pop
<1>3. /\ DOMAIN t.r = Fields
      /\ t.r.cpl = s.r.cpl /\ t.r.cs = s.r.cs /\ t.r.ss = s.r.ss
      /\ t.r.ds = s.r.ds /\ t.r.fl = s.r.fl /\ t.r.tr = s.r.tr
      /\ t.r.sp = s.r.sp - 1
  BY <1>2 DEF Fields
<1>4. GuestOK(t.m)
  <2>1. /\ DOMAIN t.m = DOMAIN s.m /\ t.m.tss = s.m.tss
        /\ t.m.ram = [ s.m.ram EXCEPT ![at] = NoFrame ]
    BY <1>1, <1>2
  <2> HIDE DEF t
  <2>0. t.m.ram = [ a \in DOMAIN t.m.ram |-> t.m.ram[a] ]
    BY <2>1
  <2>2. \A a \in DOMAIN t.m.ram : a \in DOMAIN s.m.ram
                                  /\ (t.m.ram[a] = NoFrame \/ t.m.ram[a] = s.m.ram[a])
    BY <2>1
  <2>3. \A a \in DOMAIN t.m.ram : Framed(t.m.ram[a])
    BY <2>2, NoFrameFramed DEF Formed, GuestOK
  <2>4. QED
    BY <2>0, <2>1, <2>3 DEF Formed, GuestOK
<1>5. Formed(t)
  BY <1>1, <1>2, <1>4 DEF Formed
<1>6. RegistersOK(s.r) => RegistersOK(t.r)
  BY <1>3, SameSegments
<1> HIDE DEF t
<1>7. QED
  BY <1>1, <1>2, <1>3, <1>5, <1>6 DEF t

\* A stack that is left
LEMMA AbandonKeeps ==
    ASSUME NEW s, Formed(s)
    PROVE  /\ Formed(Abandon(s)) /\ Abandon(s).r = s.r /\ Abandon(s).fault = s.fault
           /\ Abandon(s).m.ram = [ at \in DOMAIN s.m.ram |->
                 IF at[1] = Index(s.r.ss) THEN NoFrame ELSE s.m.ram[at] ]
<1> DEFINE t == Abandon(s)
<1>1. DOMAIN s = {"r", "m", "fault"} /\ DOMAIN s.m = {"ram", "tss", "busy"}
  BY DEF Formed, GuestOK
<1>2. /\ DOMAIN t = DOMAIN s /\ t.fault = s.fault /\ t.r = s.r
      /\ DOMAIN t.m = DOMAIN s.m /\ t.m.tss = s.m.tss
      /\ t.m.ram = [ at \in DOMAIN s.m.ram |->
                       IF at[1] = Index(s.r.ss) THEN NoFrame ELSE s.m.ram[at] ]
  BY <1>1 DEF Abandon
<1> HIDE DEF t
<1>3. \A a \in DOMAIN t.m.ram : Framed(t.m.ram[a])
  BY <1>2, NoFrameFramed DEF Formed, GuestOK
<1>4. Formed(t)
  <2>1. t.m.ram = [ a \in DOMAIN t.m.ram |-> t.m.ram[a] ]
    BY <1>2
  <2>2. QED
    BY <1>1, <1>2, <1>3, <2>1 DEF Formed, GuestOK
<1>5. QED
  BY <1>2, <1>4 DEF t

-----------------------------------------------------------------------------
(* Segment registers                                                       *)

\* What a load of CS leaves alone
LEMMA LoadCsKeeps ==
    ASSUME NEW s, Formed(s), DOMAIN s.r = Fields, NEW sel
    PROVE  LET t == LoadCs(s, sel)
           IN  /\ Formed(t) /\ DOMAIN t.r = Fields /\ t.m = s.m
               /\ t.r.ss = s.r.ss /\ t.r.ds = s.r.ds /\ t.r.fl = s.r.fl
               /\ t.r.tr = s.r.tr /\ t.r.sp = s.r.sp
<1> DEFINE t == LoadCs(s, sel)
           u(c) == [ s EXCEPT !.r.cs = sel, !.r.cpl = c ]
<1>1. DOMAIN s = {"r", "m", "fault"}
  BY DEF Formed
<1>2. \A v \in {11, 13} : Formed(Raise(s, v)) /\ Raise(s, v).r = s.r /\ Raise(s, v).m = s.m
  BY <1>1, RaiseIs, OwnVectors DEF Raise
<1>3. \A c : /\ Formed(u(c)) /\ DOMAIN u(c).r = Fields /\ u(c).m = s.m
             /\ u(c).r.ss = s.r.ss /\ u(c).r.ds = s.r.ds
             /\ u(c).r.fl = s.r.fl /\ u(c).r.tr = s.r.tr
             /\ u(c).r.sp = s.r.sp
  BY <1>1 DEF Formed, Fields
<1>4. \/ \E v \in {11, 13} : t = Raise(s, v)
      \/ \E c \in {3, Rpl(sel)} : t = u(c)
  BY DEF LoadCs
<1> HIDE DEF t, u
<1>5. CASE \E v \in {11, 13} : t = Raise(s, v)
  BY <1>2, <1>5 DEF t
<1>6. CASE \E c \in {3, Rpl(sel)} : t = u(c)
  BY <1>3, <1>6 DEF t
<1>7. QED
  BY <1>4, <1>5, <1>6

\* A code segment without a fault is loaded, with the level of its RPL.
LEMMA LoadCsLoads ==
    ASSUME NEW s, Formed(s), DOMAIN s.r = Fields, NEW sel,
           CodeFault(sel) = NoVector, ~s.r.fl.v86
    PROVE  LET t == LoadCs(s, sel)
           IN  t.fault = s.fault /\ t.r.cs = sel /\ t.r.cpl = Rpl(sel)
<1>1. DOMAIN s = {"r", "m", "fault"}
  BY DEF Formed
<1>2. LoadCs(s, sel) = [ s EXCEPT !.r.cs = sel, !.r.cpl = Rpl(sel) ]
  BY CodeIsThere DEF LoadCs
<1>3. QED
  BY <1>1, <1>2 DEF Fields

\* In virtual-8086 mode anything is loaded, and the level is 3.
LEMMA LoadCsVirtual ==
    ASSUME NEW s, Sound(s), s.r.fl.v86, NEW sel
    PROVE  Sound(LoadCs(s, sel))
<1>1. DOMAIN s = {"r", "m", "fault"} /\ DOMAIN s.r = Fields
  BY DEF Sound, Formed, RegistersOK, Fields
<1>2. LoadCs(s, sel) = [ s EXCEPT !.r.cs = sel, !.r.cpl = 3 ]
  BY DEF LoadCs
<1>3. LoadCs(s, sel).r.cpl = 3
  <2>1. LoadCs(s, sel).r = [ s.r EXCEPT !.cs = sel, !.cpl = 3 ]
    BY <1>1, <1>2
  <2>2. QED
    BY <1>1, <2>1 DEF Fields
<1>4. /\ Formed(LoadCs(s, sel)) /\ DOMAIN LoadCs(s, sel).r = Fields
      /\ LoadCs(s, sel).r.fl = s.r.fl /\ LoadCs(s, sel).r.sp = s.r.sp
  BY <1>1, LoadCsKeeps DEF Sound
<1>5. QED
  BY <1>3, <1>4 DEF Sound, RegistersOK, Fields, Consistent, Levels

\* SS: the stack of the level, or a fault.
LEMMA LoadSsSound ==
    ASSUME NEW s, Formed(s), DOMAIN s.r = Fields, NEW sel
    PROVE  LET t == LoadSs(s, sel)
           IN  /\ Formed(t) /\ DOMAIN t.r = Fields /\ t.m = s.m
               /\ t.r.cpl = s.r.cpl /\ t.r.cs = s.r.cs /\ t.r.ds = s.r.ds
               /\ t.r.fl = s.r.fl /\ t.r.tr = s.r.tr /\ t.r.sp = s.r.sp
               /\ \/ t.fault # NoVector /\ t.r = s.r
                  \/ /\ t.fault = s.fault /\ t.r.ss = sel
                     /\ \/ s.r.fl.v86
                        \/ StackFault(sel, s.r.cpl, 13, 12) = NoVector
<1> DEFINE t == LoadSs(s, sel)
           u == [ s EXCEPT !.r.ss = sel ]
<1>1. DOMAIN s = {"r", "m", "fault"}
  BY DEF Formed
<1>2. \A v \in {12, 13} : /\ Formed(Raise(s, v)) /\ Raise(s, v).r = s.r
                          /\ Raise(s, v).m = s.m /\ Raise(s, v).fault # NoVector
  BY <1>1, RaiseIs, OwnVectors DEF Raise
<1>3. /\ Formed(u) /\ DOMAIN u.r = Fields /\ u.m = s.m
      /\ u.r.cpl = s.r.cpl /\ u.r.cs = s.r.cs /\ u.r.ds = s.r.ds
      /\ u.r.fl = s.r.fl /\ u.r.tr = s.r.tr /\ u.r.sp = s.r.sp
      /\ u.fault = s.fault /\ u.r.ss = sel
  BY <1>1 DEF Formed, Fields
<1>4. \/ t = u /\ (s.r.fl.v86 \/ StackFault(sel, s.r.cpl, 13, 12) = NoVector)
      \/ \E v \in {12, 13} : t = Raise(s, v)
  BY DEF LoadSs
<1> HIDE DEF t, u
<1>5. CASE \E v \in {12, 13} : t = Raise(s, v)
  BY <1>2, <1>5 DEF t
<1>6. CASE t = u /\ (s.r.fl.v86 \/ StackFault(sel, s.r.cpl, 13, 12) = NoVector)
  BY <1>3, <1>6 DEF t
<1>7. QED
  BY <1>4, <1>5, <1>6

\* A null data segment may be used at any level.
LEMMA NullUsable == \A c : Usable(Null, c)
  BY DEF Usable, Null, Index

\* DS: a segment that the level may use, or a fault.
LEMMA LoadDsSound ==
    ASSUME NEW s, Formed(s), DOMAIN s.r = Fields, NEW sel
    PROVE  LET t == LoadDs(s, sel)
           IN  /\ Formed(t) /\ DOMAIN t.r = Fields /\ t.m = s.m
               /\ t.r.cpl = s.r.cpl /\ t.r.cs = s.r.cs /\ t.r.ss = s.r.ss
               /\ t.r.fl = s.r.fl /\ t.r.tr = s.r.tr /\ t.r.sp = s.r.sp
               /\ \/ t.fault # NoVector /\ t.r = s.r
                  \/ t.fault = s.fault /\ (s.r.fl.v86 \/ Usable(t.r.ds, s.r.cpl))
<1> DEFINE t == LoadDs(s, sel)
           u(d) == [ s EXCEPT !.r.ds = d ]
<1>1. DOMAIN s = {"r", "m", "fault"}
  BY DEF Formed
<1>2. \A v \in {11, 13} : /\ Formed(Raise(s, v)) /\ Raise(s, v).r = s.r
                          /\ Raise(s, v).m = s.m /\ Raise(s, v).fault # NoVector
  BY <1>1, RaiseIs, OwnVectors DEF Raise
<1>3. \A d : /\ Formed(u(d)) /\ DOMAIN u(d).r = Fields /\ u(d).m = s.m
             /\ u(d).r.cpl = s.r.cpl /\ u(d).r.cs = s.r.cs /\ u(d).r.ss = s.r.ss
             /\ u(d).r.fl = s.r.fl /\ u(d).r.tr = s.r.tr /\ u(d).fault = s.fault
             /\ u(d).r.ds = d /\ u(d).r.sp = s.r.sp
  BY <1>1 DEF Formed, Fields
<1>4. \/ \E d \in {sel, Null} : t = u(d) /\ (s.r.fl.v86 \/ Usable(d, s.r.cpl))
      \/ \E v \in {11, 13} : t = Raise(s, v)
  BY NullUsable DEF LoadDs
<1> HIDE DEF t, u
<1>5. CASE \E v \in {11, 13} : t = Raise(s, v)
  BY <1>2, <1>5 DEF t
<1>6. CASE \E d \in {sel, Null} : t = u(d) /\ (s.r.fl.v86 \/ Usable(d, s.r.cpl))
  BY <1>3, <1>6 DEF t
<1>7. QED
  BY <1>4, <1>5, <1>6

\* The instructions that load them from a sound state
LEMMA MovSs ==
    ASSUME NEW s, Sound(s), NEW sel
    PROVE  OrFails(LoadSs(s, sel))
<1> DEFINE t == LoadSs(s, sel)
<1>1. DOMAIN s.r = Fields /\ Formed(s)
  BY DEF Sound, RegistersOK, Fields
<1>2. /\ Formed(t) /\ DOMAIN t.r = Fields
      /\ t.r.cpl = s.r.cpl /\ t.r.cs = s.r.cs /\ t.r.ds = s.r.ds
      /\ t.r.fl = s.r.fl /\ t.r.sp = s.r.sp
      /\ \/ t.fault # NoVector /\ t.r = s.r
         \/ s.r.fl.v86 \/ StackFault(t.r.ss, s.r.cpl, 13, 12) = NoVector
  BY <1>1, LoadSsSound
<1> HIDE DEF t
<1>3. t.fault = NoVector => RegistersOK(t.r)
  BY <1>2 DEF Sound, RegistersOK, Consistent, Fields
<1>4. QED
  BY <1>2, <1>3 DEF OrFails, t

\* Likewise DS, ES, FS and GS.
LEMMA MovDs ==
    ASSUME NEW s, Sound(s), NEW sel
    PROVE  OrFails(LoadDs(s, sel))
<1> DEFINE t == LoadDs(s, sel)
<1>1. DOMAIN s.r = Fields /\ Formed(s)
  BY DEF Sound, RegistersOK, Fields
<1>2. /\ Formed(t) /\ DOMAIN t.r = Fields
      /\ t.r.cpl = s.r.cpl /\ t.r.cs = s.r.cs /\ t.r.ss = s.r.ss
      /\ t.r.fl = s.r.fl /\ t.r.sp = s.r.sp
      /\ \/ t.fault # NoVector /\ t.r = s.r
         \/ s.r.fl.v86 \/ Usable(t.r.ds, s.r.cpl)
  BY <1>1, LoadDsSound
<1> HIDE DEF t
<1>3. t.fault = NoVector => RegistersOK(t.r)
  BY <1>2 DEF Sound, RegistersOK, Consistent, Fields
<1>4. QED
  BY <1>2, <1>3 DEF OrFails, t

-----------------------------------------------------------------------------
(* Interrupts and exceptions                                               *)

\* The flags that a handler starts with
LEMMA HandlerFlagsAre ==
    ASSUME NEW fl \in Flags, NEW gate, NEW outer \in BOOLEAN
    PROVE  /\ HandlerFlags(fl, gate, outer) \in Flags
           /\ HandlerFlags(fl, gate, outer).v86 = (fl.v86 /\ ~outer)
<1> DEFINE h == HandlerFlags(fl, gate, outer)
<1>1. /\ DOMAIN fl = {"ifl", "nt", "v86", "iopl"}
      /\ fl.ifl \in BOOLEAN /\ fl.v86 \in BOOLEAN /\ fl.iopl \in {0, 3}
  BY DEF Flags
<1>2. /\ h.v86 = (fl.v86 /\ ~outer) /\ h.nt = FALSE
      /\ h.ifl = (fl.ifl /\ gate.type \in {"trap32", "trap16"})
      /\ h.iopl = IF outer /\ Is16(gate) THEN 0 ELSE fl.iopl
  BY <1>1 DEF HandlerFlags
<1>3. h = [ x \in {"ifl", "nt", "v86", "iopl"} |-> h[x] ]
  BY <1>1 DEF HandlerFlags
<1> HIDE DEF h
<1>4. h.v86 \in BOOLEAN /\ h.nt \in BOOLEAN /\ h.ifl \in BOOLEAN /\ h.iopl \in {0, 3}
  BY <1>1, <1>2
<1>5. h \in Flags
  BY <1>3, <1>4 DEF Flags
<1>6. QED
  BY <1>2, <1>5 DEF h

\* The frames that the CPU pushes can be returned through.
LEMMA FramesFramed ==
    ASSUME NEW s, s.r.fl \in Flags, s.r.fl.v86 => RunsV86(guest), s.r.sp \in Int,
           NEW gate, NEW ip
    PROVE  /\ Framed(Kept(Frame(s, Form(gate), ip)))
           /\ Framed(Kept(Short(Frame(s, Form(gate), ip))))
           /\ Framed(Frame(s, "far", ip)) /\ Framed(Short(Frame(s, "far", ip)))
<1>1. ASSUME NEW f, f \in {Frame(s, Form(gate), ip), Short(Frame(s, Form(gate), ip))}
      PROVE  Framed(Kept(f))
  <2>1. /\ DOMAIN f = {"form", "cs", "ip", "ss", "sp", "ds", "fl"}
        /\ f.form = Form(gate) /\ f.fl = s.r.fl /\ f.sp \in Int
    <3>1. CASE f = Frame(s, Form(gate), ip)
      BY <3>1 DEF Frame
    <3>2. CASE f = Short(Frame(s, Form(gate), ip))
      BY <3>2 DEF Frame, Short
    <3>3. QED
      BY <1>1, <3>1, <3>2
  <2>2. CASE f.form = "int16"
    <3>1. DOMAIN f.fl = {"ifl", "nt", "v86", "iopl"}
      BY <2>1 DEF Flags
    <3>2. /\ Kept(f).fl = [ f.fl EXCEPT !.v86 = FALSE ]
          /\ Kept(f).form = f.form /\ Kept(f).sp = f.sp
      BY <2>1, <2>2 DEF Kept
    <3>3. Kept(f).fl \in Flags
      BY <2>1, <3>1, <3>2 DEF Flags
    <3>4. QED
      BY <2>1, <2>2, <3>2, <3>3 DEF Framed
  <2>3. CASE f.form # "int16"
    BY <2>1, <2>3 DEF Kept, Framed
  <2>4. QED
    BY <2>2, <2>3
<1>2. /\ Frame(s, "far", ip).form = "far" /\ Short(Frame(s, "far", ip)).form = "far"
      /\ Frame(s, "far", ip).sp \in Int /\ Short(Frame(s, "far", ip)).sp \in Int
  BY DEF Frame, Short
<1>3. QED
  BY <1>1, <1>2 DEF Framed

\* To code of the same level
LEMMA DirectSound ==
    ASSUME NEW s, Sound(s), ~s.r.fl.v86, NEW sel,
           CodeOfLevel(<<Index(sel), s.r.cpl>>, s.r.cpl), NEW ip
    PROVE  Sound([ LoadCs(s, <<Index(sel), s.r.cpl>>) EXCEPT !.r.ip = ip ])
<1> DEFINE to == <<Index(sel), s.r.cpl>>
           t == LoadCs(s, to)
<1>1. Formed(s) /\ DOMAIN s.r = Fields
  BY DEF Sound, RegistersOK, Fields
<1>2. CodeFault(to) = NoVector /\ Rpl(to) = s.r.cpl
  BY DEF CodeOfLevel
<1>3. t.fault = s.fault /\ t.r.cs = to /\ t.r.cpl = s.r.cpl
  BY <1>1, <1>2, LoadCsLoads
<1>4. /\ Formed(t) /\ DOMAIN t.r = Fields /\ t.m = s.m
      /\ t.r.ss = s.r.ss /\ t.r.ds = s.r.ds /\ t.r.fl = s.r.fl
      /\ t.r.sp = s.r.sp
  BY <1>1, LoadCsKeeps
<1> HIDE DEF t
<1>5. RegistersOK(t.r)
  BY <1>3, <1>4 DEF Sound, RegistersOK, Consistent, Fields
<1> HIDE DEF to
<1>6. /\ Formed([ t EXCEPT !.r.ip = ip ])
      /\ RegistersOK([ t EXCEPT !.r.ip = ip ].r)
  BY <1>4, <1>5, SetIp
<1>7. QED
  BY <1>6 DEF Sound, t, to

\* To a handler of the same level: a frame on the stack, and its code
LEMMA EnterSameSound ==
    ASSUME NEW s, Sound(s), ~s.r.fl.v86, NEW gate, NEW ip,
           CodeOfLevel(<<Index(gate.sel), s.r.cpl>>, s.r.cpl)
    PROVE  Sound(EnterSame(s, gate, ip))
<1> DEFINE f == Kept(Short(Frame(s, Form(gate), ip)))
           s1 == Push(s, f)
           to == <<Index(gate.sel), s.r.cpl>>
           t == LoadCs(s1, to)
           u == [ t EXCEPT !.r.ip = 0, !.r.fl = HandlerFlags(@, gate, FALSE) ]
<1>1. /\ Formed(s) /\ DOMAIN s.r = Fields /\ s.r.fl \in Flags
      /\ s.r.fl.v86 => RunsV86(guest)
      /\ s.r.sp \in Int
  BY DEF Sound, RegistersOK, Fields
<1>2. Framed(f)
  BY <1>1, FramesFramed
<1> HIDE DEF f
<1>3. /\ Formed(s1) /\ s1.fault = s.fault /\ DOMAIN s1.r = Fields
      /\ s1.r.cpl = s.r.cpl /\ s1.r.cs = s.r.cs /\ s1.r.ss = s.r.ss
      /\ s1.r.ds = s.r.ds /\ s1.r.fl = s.r.fl /\ s1.r.sp = s.r.sp + 1
  BY <1>1, <1>2, PushKeeps, ZenonT(60)
<1> HIDE DEF s1
<1>4. CodeFault(to) = NoVector /\ Rpl(to) = s.r.cpl /\ CodeOfLevel(to, s.r.cpl)
  BY DEF CodeOfLevel
<1> HIDE DEF to
<1>5. t.r.cs = to /\ t.r.cpl = s.r.cpl
  BY <1>3, <1>4, LoadCsLoads
<1>6. /\ Formed(t) /\ DOMAIN t.r = Fields
      /\ t.r.ss = s.r.ss /\ t.r.ds = s.r.ds /\ t.r.fl = s.r.fl
      /\ t.r.sp = s1.r.sp
  BY <1>3, LoadCsKeeps
<1> HIDE DEF t
<1>7. DOMAIN t = {"r", "m", "fault"}
  BY <1>6 DEF Formed
<1>8. /\ DOMAIN u = DOMAIN t /\ u.m = t.m /\ u.fault = t.fault
      /\ u.r = [ t.r EXCEPT !.ip = 0, !.fl = HandlerFlags(@, gate, FALSE) ]
  BY <1>7
<1> HIDE DEF u
<1>9. /\ DOMAIN u.r = Fields /\ u.r.cpl = t.r.cpl /\ u.r.cs = t.r.cs
      /\ u.r.ss = t.r.ss /\ u.r.ds = t.r.ds /\ u.r.sp = t.r.sp
      /\ u.r.fl = HandlerFlags(s.r.fl, gate, FALSE)
  BY <1>6, <1>8 DEF Fields
<1>10. u.r.fl \in Flags /\ ~u.r.fl.v86
  BY <1>1, <1>9, HandlerFlagsAre
<1>11. RegistersOK(u.r)
  <2>1. u.r.sp \in Int
    BY <1>1, <1>3, <1>6, <1>9
  <2>2. u.r.cs = to /\ u.r.ss = s.r.ss /\ u.r.ds = s.r.ds /\ u.r.cpl = s.r.cpl
    BY <1>5, <1>6, <1>9
  <2>3. QED
    BY <1>4, <1>9, <1>10, <2>1, <2>2 DEF Sound, RegistersOK, Consistent, Fields
<1>12. Formed(u)
  BY <1>6, <1>8 DEF Formed
<1>13. QED
  BY <1>11, <1>12 DEF Sound, EnterSame, u, t, s1, f, to

\* To an inner level: its stack, a frame on it, and its code
LEMMA InnerSound ==
    ASSUME NEW s, Formed(s), DOMAIN s.r = Fields, s.r.fl \in Flags, ~s.r.fl.v86,
           s.r.sp \in Int,
           NEW cpl \in 0 .. 2, StackFault(s.r.ss, cpl, 13, 12) = NoVector,
           NEW to, CodeOfLevel(to, cpl), NEW f, Framed(f)
    PROVE  Sound([ LoadCs(Push(s, f), to) EXCEPT !.r.ip = 0, !.r.cpl = cpl ])
<1> DEFINE s1 == Push(s, f)
           t == LoadCs(s1, to)
           u == [ t EXCEPT !.r.ip = 0, !.r.cpl = cpl ]
<1>1. /\ Formed(s1) /\ DOMAIN s1.r = Fields /\ s1.r.ss = s.r.ss
      /\ s1.r.fl = s.r.fl /\ s1.r.sp = s.r.sp + 1
  BY PushKeeps
<1> HIDE DEF s1
<1>2. CodeFault(to) = NoVector /\ Rpl(to) = cpl
  BY DEF CodeOfLevel
<1>3. t.r.cs = to
  BY <1>1, <1>2, LoadCsLoads
<1>4. /\ Formed(t) /\ DOMAIN t.r = Fields /\ t.r.ss = s.r.ss /\ t.r.fl = s.r.fl
      /\ t.r.sp = s.r.sp + 1
  BY <1>1, LoadCsKeeps
<1> HIDE DEF t
<1>5. /\ DOMAIN u = {"r", "m", "fault"} /\ u.m = t.m /\ u.fault = t.fault
      /\ u.r = [ t.r EXCEPT !.ip = 0, !.cpl = cpl ]
  BY <1>4 DEF Formed
<1> HIDE DEF u
<1>6. /\ DOMAIN u.r = Fields /\ u.r.cpl = cpl /\ u.r.cs = to
      /\ u.r.ss = s.r.ss /\ u.r.fl = s.r.fl /\ u.r.sp = s.r.sp + 1
  BY <1>3, <1>4, <1>5 DEF Fields
<1>7. cpl \in Levels /\ cpl # 3
  BY DEF Levels
<1>8. Consistent(u.r)
  BY <1>6, <1>7 DEF Consistent
<1>9. RegistersOK(u.r)
  BY <1>6, <1>7, <1>8 DEF RegistersOK, Fields
<1>10. Formed(u)
  BY <1>4, <1>5 DEF Formed
<1>11. QED
  BY <1>9, <1>10 DEF Sound, u, t, s1

\* Through a gate to an inner level, or out of virtual-8086 mode
LEMMA EnterInnerSound ==
    ASSUME NEW s, Sound(s), NEW gate, NEW ip,
           GateTargetFault(gate.sel, s.r.cpl) = NoVector,
           s.r.fl.v86 \/ GateTargetCpl(gate.sel, s.r.cpl) < s.r.cpl
    PROVE  Sound(EnterInner(s, gate, ip))
<1> DEFINE cpl == GateTargetCpl(gate.sel, s.r.cpl)
           ss0 == Gdt[s.r.tr].ss0
           bad == IF cpl > 2 THEN 10 ELSE StackFault(ss0, cpl, 10, 12)
           f == Kept(Frame(s, Form(gate), ip))
           s0 == [ s EXCEPT !.r.ss = ss0, !.r.sp = 0,
                            !.r.fl = HandlerFlags(@, gate, TRUE) ]
           to == <<Index(gate.sel), cpl>>
           u == [ LoadCs(Push(s0, f), to) EXCEPT !.r.ip = 0, !.r.cpl = cpl ]
<1>1. /\ Formed(s) /\ DOMAIN s.r = Fields /\ s.r.fl \in Flags /\ s.r.cpl \in Levels
      /\ s.r.fl.v86 => RunsV86(guest)
      /\ s.r.sp \in Int
  BY DEF Sound, RegistersOK, Fields
<1>2. cpl \in Levels /\ cpl <= s.r.cpl /\ CodeOfLevel(to, cpl)
  BY <1>1, GateLevel
<1>3. EnterInner(s, gate, ip) = IF bad # NoVector THEN Raise(s, bad) ELSE u
  BY DEF EnterInner
<1>4. Framed(f)
  BY <1>1, FramesFramed
<1> HIDE DEF to, f, cpl
<1>5. CASE bad # NoVector
  <2>1. bad \in {10, 11, 12, 13}
    BY <1>5, StackFaults
  <2> HIDE DEF bad
  <2>2. Sound(Raise(s, bad))
    BY <2>1, RaiseFails, OwnVectors
  <2>3. QED
    BY <1>3, <1>5, <2>2
<1>6. CASE bad = NoVector
  <2>1. cpl \in 0 .. 2 /\ StackFault(ss0, cpl, 13, 12) = NoVector
    BY <1>2, <1>6, StackFaults DEF Levels, NoVector
  <2>2. /\ DOMAIN s0 = {"r", "m", "fault"} /\ s0.m = s.m /\ s0.fault = s.fault
        /\ s0.r = [ s.r EXCEPT !.ss = ss0, !.sp = 0,
                               !.fl = HandlerFlags(@, gate, TRUE) ]
    BY <1>1 DEF Formed
  <2> HIDE DEF s0
  <2>3. /\ DOMAIN s0.r = Fields /\ s0.r.ss = ss0 /\ s0.r.sp \in Int
        /\ s0.r.fl = HandlerFlags(s.r.fl, gate, TRUE)
    BY <1>1, <2>2 DEF Fields
  <2>4. s0.r.fl \in Flags /\ ~s0.r.fl.v86
    BY <1>1, <2>3, HandlerFlagsAre
  <2>5. Formed(s0)
    BY <1>1, <2>2 DEF Formed
  <2>6. Sound(u)
    BY <1>2, <1>4, <2>1, <2>3, <2>4, <2>5, InnerSound
  <2>7. QED
    BY <1>3, <1>6, <2>6
<1>7. QED
  BY <1>5, <1>6

\* What an interrupt or an exception does, unless its gate is of a task
LEMMA IntCallSound ==
    ASSUME NEW s, Sound(s), NEW vec, ~TaskGate(vec), NEW source, NEW ip
    PROVE  Sound(IntCall(s, vec, source, ip))
<1> DEFINE gate == Idt[vec]
           bad == GateTargetFault(gate.sel, s.r.cpl)
           inner == s.r.fl.v86 \/ GateTargetCpl(gate.sel, s.r.cpl) < s.r.cpl
<1>1. /\ Formed(s) /\ s.r.fl \in Flags /\ s.r.cpl \in Levels
  BY DEF Sound, RegistersOK
<1>2. ASSUME IntFault(s, vec, source) # NoVector
      PROVE  Sound(IntCall(s, vec, source, ip))
  <2>1. IntFault(s, vec, source) \in {11, 13}
    BY <1>2 DEF IntFault
  <2>2. QED
    BY <1>2, <2>1, RaiseFails, OwnVectors DEF IntCall
<1>3. ASSUME IntFault(s, vec, source) = NoVector
      PROVE  Sound(IntCall(s, vec, source, ip))
  <2>1. vec \in DOMAIN Idt /\ gate.type # "task"
    BY <1>3 DEF IntFault, NoVector, TaskGate
  <2>2. IntCall(s, vec, source, ip) =
          IF bad # NoVector THEN Raise(s, bad)
          ELSE IF inner THEN EnterInner(s, gate, ip) ELSE EnterSame(s, gate, ip)
    BY <1>3, <2>1 DEF IntCall
  <2>3. CASE bad # NoVector
    <3>1. bad \in {11, 13}
      BY <2>3 DEF GateTargetFault, CodeFault, NoVector
    <3> HIDE DEF bad
    <3>2. QED
      BY <2>2, <2>3, <3>1, RaiseFails, OwnVectors
  <2>4. CASE bad = NoVector /\ inner
    BY <2>2, <2>4, EnterInnerSound
  <2>5. CASE bad = NoVector /\ ~inner
    <3>1. /\ GateTargetCpl(gate.sel, s.r.cpl) = s.r.cpl
          /\ CodeOfLevel(<<Index(gate.sel), s.r.cpl>>, s.r.cpl)
      <4>1. /\ GateTargetCpl(gate.sel, s.r.cpl) \in Levels
            /\ GateTargetCpl(gate.sel, s.r.cpl) <= s.r.cpl
            /\ CodeOfLevel(<<Index(gate.sel), GateTargetCpl(gate.sel, s.r.cpl)>>,
                           GateTargetCpl(gate.sel, s.r.cpl))
        BY <1>1, <2>5, GateLevel
      <4>2. GateTargetCpl(gate.sel, s.r.cpl) = s.r.cpl
        BY <1>1, <2>5, <4>1 DEF Levels
      <4>3. QED
        BY <4>1, <4>2
    <3>2. QED
      BY <2>2, <2>5, <3>1, EnterSameSound
  <2>6. QED
    BY <2>3, <2>4, <2>5
<1>4. QED
  BY <1>2, <1>3

-----------------------------------------------------------------------------
(* Far calls and jumps                                                     *)

\* What is out of order with their target is one of two exceptions.
LEMMA FarFaults ==
    ASSUME NEW s, NEW sel
    PROVE  FarFault(s, sel) \in {NoVector, 11, 13}
<1>1. \A x, c : /\ DirectFault(x, c) \in {NoVector, 11, 13}
                /\ GateTargetFault(x, c) \in {NoVector, 11, 13}
  BY DEF DirectFault, GateTargetFault, CodeFault
<1>2. GateFault(s, sel) \in {NoVector, 11, 13}
  BY <1>1 DEF GateFault
<1>3. TaskTargetFault(s, sel) \in {NoVector, 11, 13}
  BY DEF TaskTargetFault
<1>4. QED
  BY <1>1, <1>2, <1>3 DEF FarFault

\* Code that may be reached directly is code of the caller's level.
LEMMA DirectLevel ==
    ASSUME TasksApart, NEW sel, NEW c \in Levels, DirectFault(sel, c) = NoVector
    PROVE  CodeOfLevel(<<Index(sel), c>>, c)
<1>1. CodeFault(sel) = NoVector /\ (~Conforming(sel) => D(sel).dpl = c)
  BY DEF DirectFault, NoVector
<1>2. Conforming(sel) => D(sel).dpl <= c
  BY <1>1, CodeIsThere DEF TasksApart, Conforming, D, Known, Levels
<1>3. QED
  BY <1>1, <1>2, SameIndex DEF CodeOfLevel

\* A frame pushed, and the call goes on at the same level.
LEMMA CallDirectSound ==
    ASSUME NEW s, Sound(s), ~s.r.fl.v86, NEW sel,
           CodeOfLevel(<<Index(sel), s.r.cpl>>, s.r.cpl), NEW f, Framed(f)
    PROVE  Sound(Direct(Push(s, f), Index(sel), 0))
<1> DEFINE t == Push(s, f)
<1>1. Formed(s) /\ DOMAIN s.r = Fields /\ RegistersOK(s.r)
  BY DEF Sound, RegistersOK, Fields
<1>2. Sound(t) /\ t.r.cpl = s.r.cpl /\ t.r.fl = s.r.fl
  BY <1>1, PushKeeps, ZenonT(60) DEF Sound
<1> HIDE DEF t
<1>3. Sound([ LoadCs(t, <<Index(sel), t.r.cpl>>) EXCEPT !.r.ip = 0 ])
  BY <1>2, DirectSound
<1>4. QED
  BY <1>3 DEF Direct, t

\* Through a call gate to an inner level
LEMMA CallInnerSound ==
    ASSUME NEW s, Sound(s), ~s.r.fl.v86, NEW sel,
           GateTargetFault(D(sel).sel, s.r.cpl) = NoVector,
           GateTargetCpl(D(sel).sel, s.r.cpl) < s.r.cpl
    PROVE  Sound(CallInner(s, sel))
<1> DEFINE target == D(sel).sel
           cpl == D(target).dpl
           ss0 == Gdt[s.r.tr].ss0
           bad == StackFault(ss0, cpl, 10, 12)
           s0 == [ s EXCEPT !.r.ss = ss0, !.r.sp = 0 ]
           f == Frame(s, "far", s.r.ip)
           to == <<Index(target), cpl>>
           u == [ LoadCs(Push(s0, f), to) EXCEPT !.r.ip = 0, !.r.cpl = cpl ]
<1>1. /\ Formed(s) /\ DOMAIN s.r = Fields /\ s.r.fl \in Flags /\ s.r.cpl \in Levels
      /\ s.r.fl.v86 => RunsV86(guest)
      /\ s.r.sp \in Int
  BY DEF Sound, RegistersOK, Fields
<1>2. cpl \in 0 .. 2 /\ CodeOfLevel(to, cpl)
  <2>1. GateTargetCpl(target, s.r.cpl) = cpl
    BY <1>1 DEF GateTargetCpl, Levels
  <2>2. cpl \in Levels /\ CodeOfLevel(to, cpl)
    BY <1>1, <2>1, GateLevel
  <2>3. QED
    BY <1>1, <2>1, <2>2 DEF Levels
<1>3. CallInner(s, sel) = IF bad # NoVector THEN Raise(s, bad) ELSE u
  BY DEF CallInner
<1>4. Framed(f)
  BY <1>1, FramesFramed
<1> HIDE DEF to, f, cpl
<1>5. CASE bad # NoVector
  <2>1. bad \in {10, 11, 12, 13}
    BY <1>5, StackFaults
  <2> HIDE DEF bad
  <2>2. Sound(Raise(s, bad))
    BY <2>1, RaiseFails, OwnVectors
  <2>3. QED
    BY <1>3, <1>5, <2>2
<1>6. CASE bad = NoVector
  <2>1. StackFault(ss0, cpl, 13, 12) = NoVector
    BY <1>6, StackFaults
  <2>2. /\ DOMAIN s0 = {"r", "m", "fault"} /\ s0.m = s.m /\ s0.fault = s.fault
        /\ s0.r = [ s.r EXCEPT !.ss = ss0, !.sp = 0 ]
    BY <1>1 DEF Formed
  <2> HIDE DEF s0
  <2>3. /\ DOMAIN s0.r = Fields /\ s0.r.ss = ss0 /\ s0.r.fl = s.r.fl
        /\ s0.r.sp \in Int
    BY <1>1, <2>2 DEF Fields
  <2>4. Formed(s0)
    BY <1>1, <2>2 DEF Formed
  <2>5. Sound(u)
    BY <1>1, <1>2, <1>4, <2>1, <2>3, <2>4, InnerSound
  <2>6. QED
    BY <1>3, <1>6, <2>5
<1>7. QED
  BY <1>5, <1>6

-----------------------------------------------------------------------------
(* Task switches                                                           *)

\* The old task is left in a way that it can be started again.
LEMMA LeaveTaskSound ==
    ASSUME NEW s, Sound(s), ~s.r.fl.v86, NEW k, NEW reason
    PROVE  LET t == LeaveTask(s, k, reason)
           IN  Formed(t) /\ t.r = s.r /\ t.fault = s.fault
<1> DEFINE t == LeaveTask(s, k, reason)
<1>1. /\ DOMAIN s = {"r", "m", "fault"} /\ DOMAIN s.m = {"ram", "tss", "busy"}
      /\ GuestOK(s.m) /\ s.fault \in Faults
  BY DEF Sound, Formed, GuestOK
<1>2. Startable(Image(s))
  BY DEF Sound, RegistersOK, Consistent, Startable, Image, CodeOfLevel, Levels
<1>3. /\ DOMAIN t = DOMAIN s /\ t.r = s.r /\ t.fault = s.fault
      /\ DOMAIN t.m = DOMAIN s.m /\ t.m.ram = s.m.ram
      /\ DOMAIN t.m.tss = DOMAIN s.m.tss
      /\ \A j \in DOMAIN s.m.tss : t.m.tss[j].image \in {Image(s), s.m.tss[j].image}
  BY <1>1 DEF LeaveTask
<1> HIDE DEF t
<1>4. GuestOK(t.m)
  BY <1>1, <1>2, <1>3 DEF GuestOK
<1>5. QED
  BY <1>1, <1>3, <1>4 DEF Formed, t

\* The new task runs its code at the level of that code, or the switch fails.
LEMMA EnterTaskSound ==
    ASSUME NEW s, Formed(s), DOMAIN s.r = Fields, ~s.r.fl.v86, NEW k \in Tasks,
           NEW reason
    PROVE  OrFails(EnterTask(s, k, reason))
<1> DEFINE t == s.m.tss[k].image
           s0 == [ s EXCEPT !.r.ip = t.ip, !.r.sp = t.sp ]
           s1 == LoadCs(s0, t.cs)
           s2 == LoadSs(s1, t.ss)
           s3 == LoadDs(s2, t.ds)
           fl == [ t.fl EXCEPT !.nt = reason \in {"call", "gate"} ]
           u == [ s3 EXCEPT !.r.tr = k, !.r.fl = fl ]
<1>1. Startable(t)
  BY DEF Formed, GuestOK
<1> HIDE DEF t
<1>2. /\ DOMAIN s0 = {"r", "m", "fault"} /\ s0.m = s.m /\ s0.fault = s.fault
      /\ s0.r = [ s.r EXCEPT !.ip = t.ip, !.sp = t.sp ]
  BY DEF Formed
<1> HIDE DEF s0
<1>3. Formed(s0) /\ DOMAIN s0.r = Fields /\ s0.r.fl = s.r.fl /\ s0.r.sp = t.sp
  BY <1>2 DEF Formed, Fields
<1>4. /\ CodeFault(t.cs) = NoVector /\ CodeOfLevel(t.cs, Rpl(t.cs))
      /\ Rpl(t.cs) \in Levels /\ t.fl \in Flags /\ ~t.fl.v86
      /\ t.sp \in Int
  BY <1>1 DEF Startable, CodeOfLevel, Levels
<1>5. s1.r.cs = t.cs /\ s1.r.cpl = Rpl(t.cs)
  BY <1>3, <1>4, LoadCsLoads
<1>6. Formed(s1) /\ DOMAIN s1.r = Fields /\ ~s1.r.fl.v86 /\ s1.r.sp = t.sp
  BY <1>3, LoadCsKeeps
<1> HIDE DEF s1
<1>7. /\ Formed(s2) /\ DOMAIN s2.r = Fields
      /\ s2.r.sp = t.sp
      /\ s2.r.cpl = s1.r.cpl /\ s2.r.cs = s1.r.cs /\ s2.r.fl = s1.r.fl
      /\ s2.fault = NoVector => StackFault(s2.r.ss, s1.r.cpl, 13, 12) = NoVector
  BY <1>6, LoadSsSound
<1> HIDE DEF s2
<1>8. /\ Formed(s3) /\ DOMAIN s3.r = Fields
      /\ s3.r.sp = t.sp
      /\ s3.r.cpl = s2.r.cpl /\ s3.r.cs = s2.r.cs /\ s3.r.ss = s2.r.ss
      /\ s3.fault = NoVector => Usable(s3.r.ds, s2.r.cpl)
  BY <1>6, <1>7, LoadDsSound
<1> HIDE DEF s3
<1>9. fl \in Flags /\ ~fl.v86
  <2>1. DOMAIN t.fl = {"ifl", "nt", "v86", "iopl"}
    BY <1>4 DEF Flags
  <2>2. /\ fl.v86 = t.fl.v86 /\ fl.ifl = t.fl.ifl /\ fl.iopl = t.fl.iopl
        /\ fl.nt = (reason \in {"call", "gate"})
        /\ fl = [ x \in {"ifl", "nt", "v86", "iopl"} |-> fl[x] ]
    BY <2>1
  <2> HIDE DEF fl
  <2>3. fl \in Flags
    <3>1. fl.nt \in BOOLEAN
      BY <2>2
    <3>2. fl.v86 \in BOOLEAN /\ fl.ifl \in BOOLEAN /\ fl.iopl \in {0, 3}
      BY <1>4, <2>2 DEF Flags
    <3>3. QED
      BY <2>2, <3>1, <3>2 DEF Flags
  <2>4. QED
    BY <1>4, <2>2, <2>3
<1> HIDE DEF fl
<1>10. /\ DOMAIN u = {"r", "m", "fault"} /\ u.m = s3.m /\ u.fault = s3.fault
       /\ u.r = [ s3.r EXCEPT !.tr = k, !.fl = fl ]
  BY <1>8 DEF Formed
<1> HIDE DEF u
<1>11. /\ DOMAIN u.r = Fields /\ u.r.sp = t.sp /\ u.r.cpl = s3.r.cpl /\ u.r.cs = s3.r.cs
       /\ u.r.ss = s3.r.ss /\ u.r.ds = s3.r.ds /\ u.r.fl = fl
  BY <1>8, <1>10 DEF Fields
<1>12. ASSUME s2.fault = NoVector, s3.fault = NoVector
       PROVE  RegistersOK(u.r)
  BY <1>4, <1>5, <1>7, <1>8, <1>9, <1>11, <1>12 DEF RegistersOK, Consistent, Fields
<1>13. Formed(u)
  BY <1>8, <1>10 DEF Formed
<1>14. EnterTask(s, k, reason) =
         IF s1.fault # NoVector THEN s1 ELSE IF s2.fault # NoVector THEN s2
         ELSE IF s3.fault # NoVector THEN s3 ELSE u
  BY DEF EnterTask, u, fl, s3, s2, s1, s0, t
<1>15. QED
  BY <1>6, <1>7, <1>8, <1>12, <1>13, <1>14 DEF OrFails

\* A switch out of protected mode, whatever the selector: the target may be no
\* TSS, its segments may fault.
LEMMA TaskSwitchSound ==
    ASSUME NEW s, Sound(s), ~s.r.fl.v86, NEW k, NEW reason
    PROVE  OrFails(TaskSwitch(s, k, reason))
<1>1. CASE TssFault(s, k) # NoVector
  BY <1>1, RaiseFails, OwnVectors DEF TaskSwitch
<1>2. CASE TssFault(s, k) = NoVector
  <2>1. k \in Tasks
    BY <1>2 DEF TssFault, Tasks, NoVector
  <2>2. DOMAIN s.r = Fields
    BY DEF Sound, RegistersOK, Fields
  <2> DEFINE t == LeaveTask(s, k, reason)
  <2>3. Formed(t) /\ t.r = s.r
    BY LeaveTaskSound
  <2> HIDE DEF t
  <2>4. OrFails(EnterTask(t, k, reason))
    BY <2>1, <2>2, <2>3, EnterTaskSound
  <2>5. QED
    BY <1>2, <2>4 DEF TaskSwitch, t
<1>3. QED
  BY <1>1, <1>2

\* A sound state has not failed.
LEMMA SoundIsEnough == \A s : Sound(s) => OrFails(s)
  BY DEF Sound, OrFails

-----------------------------------------------------------------------------
(* CALLF and JMPF                                                          *)

\* CALLF: direct, through a call gate at the same or an inner level, to a task,
\* and in virtual-8086 mode.
LEMMA CallFSound ==
    ASSUME TasksApart, NEW s, Sound(s), NEW sel
    PROVE  OrFails(CallF(s, sel))
<1> DEFINE far == Short(Frame(s, "far", s.r.ip))
<1>1. /\ Formed(s) /\ DOMAIN s.r = Fields /\ s.r.fl \in Flags /\ s.r.cpl \in Levels
      /\ s.r.fl.v86 => RunsV86(guest)
      /\ s.r.sp \in Int
      /\ RegistersOK(s.r)
  BY DEF Sound, RegistersOK, Fields
<1>2. Framed(far)
  BY <1>1, FramesFramed
<1>3. CallF(s, sel) =
        IF s.r.fl.v86 THEN LoadCs(Push(s, far), sel)
        ELSE IF FarFault(s, sel) # NoVector THEN Raise(s, FarFault(s, sel))
        ELSE IF IsCode(sel) THEN Direct(Push(s, far), Index(sel), 0)
        ELSE IF IsTask(sel) THEN TaskSwitch(s, Index(TaskTarget(sel)), "call")
        ELSE IF GateTargetCpl(D(sel).sel, s.r.cpl) < s.r.cpl
        THEN CallInner(s, sel)
        ELSE Direct(Push(s, far), Index(D(sel).sel), 0)
  BY DEF CallF
<1> HIDE DEF far
<1>4. CASE s.r.fl.v86
  <2> DEFINE t == Push(s, far)
  <2>1. Sound(t) /\ t.r.fl = s.r.fl
    BY <1>1, <1>2, PushKeeps DEF Sound
  <2> HIDE DEF t
  <2>2. Sound(LoadCs(t, sel))
    BY <1>4, <2>1, LoadCsVirtual
  <2>3. QED
    BY <1>3, <1>4, <2>2, SoundIsEnough DEF t
<1>5. CASE ~s.r.fl.v86 /\ FarFault(s, sel) # NoVector
  BY <1>3, <1>5, FarFaults, RaiseFails, OwnVectors
<1>6. CASE ~s.r.fl.v86 /\ FarFault(s, sel) = NoVector
  <2>1. CASE IsCode(sel)
    <3>1. DirectFault(sel, s.r.cpl) = NoVector
      BY <1>6, <2>1 DEF FarFault, NoVector
    <3>2. CodeOfLevel(<<Index(sel), s.r.cpl>>, s.r.cpl)
      BY <1>1, <3>1, DirectLevel
    <3>3. Sound(Direct(Push(s, far), Index(sel), 0))
      BY <1>2, <1>6, <3>2, CallDirectSound
    <3>4. QED
      BY <1>3, <1>6, <2>1, <3>3, SoundIsEnough
  <2>2. CASE ~IsCode(sel) /\ IsTask(sel)
    BY <1>3, <1>6, <2>2, TaskSwitchSound
  <2>3. CASE ~IsCode(sel) /\ ~IsTask(sel)
    <3> DEFINE to == D(sel).sel
               p == GateTargetCpl(to, s.r.cpl)
    <3>1. GateTargetFault(to, s.r.cpl) = NoVector
      BY <1>6, <2>3 DEF FarFault, GateFault, NoVector
    <3>2. p \in Levels /\ p <= s.r.cpl /\ CodeOfLevel(<<Index(to), p>>, p)
      BY <1>1, <3>1, GateLevel
    <3>3. CASE p < s.r.cpl
      BY <1>3, <1>6, <2>3, <3>1, <3>3, CallInnerSound, SoundIsEnough
    <3>4. CASE ~(p < s.r.cpl)
      <4>1. p = s.r.cpl
        BY <1>1, <3>2, <3>4 DEF Levels
      <4>2. CodeOfLevel(<<Index(to), s.r.cpl>>, s.r.cpl)
        BY <3>2, <4>1
      <4>3. Sound(Direct(Push(s, far), Index(to), 0))
        BY <1>2, <1>6, <4>2, CallDirectSound
      <4>4. QED
        BY <1>3, <1>6, <2>3, <3>4, <4>3, SoundIsEnough
    <3>5. QED
      BY <3>3, <3>4
  <2>4. QED
    BY <2>1, <2>2, <2>3
<1>7. QED
  BY <1>4, <1>5, <1>6

\* JMPF: the same, but never to an inner level.
LEMMA JmpFSound ==
    ASSUME TasksApart, NEW s, Sound(s), NEW sel
    PROVE  OrFails(JmpF(s, sel))
<1>1. Formed(s) /\ s.r.cpl \in Levels
  BY DEF Sound, RegistersOK
<1>2. CASE s.r.fl.v86
  BY <1>2, LoadCsVirtual, SoundIsEnough DEF JmpF
<1>3. CASE ~s.r.fl.v86 /\ FarFault(s, sel) # NoVector
  BY <1>3, FarFaults, RaiseFails, OwnVectors DEF JmpF
<1>4. CASE ~s.r.fl.v86 /\ FarFault(s, sel) = NoVector
  <2>1. CASE IsCode(sel)
    <3>1. DirectFault(sel, s.r.cpl) = NoVector
      BY <1>4, <2>1 DEF FarFault, NoVector
    <3>2. CodeOfLevel(<<Index(sel), s.r.cpl>>, s.r.cpl)
      BY <1>1, <3>1, DirectLevel
    <3>3. Sound(Direct(s, Index(sel), 0))
      BY <1>4, <3>2, DirectSound DEF Direct
    <3>4. QED
      BY <1>4, <2>1, <3>3, SoundIsEnough DEF JmpF
  <2>2. CASE ~IsCode(sel) /\ IsTask(sel)
    BY <1>4, <2>2, TaskSwitchSound DEF JmpF
  <2>3. CASE ~IsCode(sel) /\ ~IsTask(sel)
    <3> DEFINE to == D(sel).sel
               p == GateTargetCpl(to, s.r.cpl)
    <3>1. GateTargetFault(to, s.r.cpl) = NoVector
      BY <1>4, <2>3 DEF FarFault, GateFault, NoVector
    <3>2. p \in Levels /\ p <= s.r.cpl /\ CodeOfLevel(<<Index(to), p>>, p)
      BY <1>1, <3>1, GateLevel
    <3>3. CASE p < s.r.cpl
      BY <1>4, <2>3, <3>3, RaiseFails, OwnVectors DEF JmpF
    <3>4. CASE ~(p < s.r.cpl)
      <4>1. p = s.r.cpl
        BY <1>1, <3>2, <3>4 DEF Levels
      <4>2. CodeOfLevel(<<Index(to), s.r.cpl>>, s.r.cpl)
        BY <3>2, <4>1
      <4>3. Sound(Direct(s, Index(to), 0))
        BY <1>4, <4>2, DirectSound DEF Direct
      <4>4. QED
        BY <1>4, <2>3, <3>4, <4>3, SoundIsEnough DEF JmpF
    <3>5. QED
      BY <3>3, <3>4
  <2>4. QED
    BY <2>1, <2>2, <2>3
<1>5. QED
  BY <1>2, <1>3, <1>4

-----------------------------------------------------------------------------
(* Returns                                                                 *)

\* A return leads to code of its selector's RPL, never inwards.
LEMMA ReturnLevel ==
    ASSUME NEW sel, NEW c \in Levels, ReturnFault(sel, c) = NoVector
    PROVE  LET p == ReturnCpl(sel, c)
           IN  /\ p \in Levels /\ p >= c /\ Rpl(sel) = p
               /\ CodeFault(sel) = NoVector /\ CodeOfLevel(sel, p)
<1>1. CodeFault(sel) = NoVector
  BY DEF ReturnFault, NoVector
<1>2. D(sel).dpl \in Levels
  BY <1>1, CodeIsThere
<1>3. CASE Conforming(sel)
  <2>1. Rpl(sel) = c /\ ~(D(sel).dpl > c)
    BY <1>1, <1>3 DEF ReturnFault, NoVector
  <2>2. D(sel).dpl <= c
    BY <1>2, <2>1 DEF Levels
  <2>3. QED
    BY <1>1, <1>3, <2>1, <2>2 DEF ReturnCpl, CodeOfLevel, Levels
<1>4. CASE ~Conforming(sel)
  <2>1. ~(Rpl(sel) < c) /\ D(sel).dpl = Rpl(sel)
    BY <1>1, <1>4 DEF ReturnFault, NoVector
  <2>2. QED
    BY <1>1, <1>2, <1>4, <2>1 DEF ReturnCpl, CodeOfLevel, Levels
<1>5. QED
  BY <1>3, <1>4

\* What is out of order with its code segment is one of two exceptions.
LEMMA ReturnFaults ==
    ASSUME NEW sel, NEW c
    PROVE  ReturnFault(sel, c) \in {NoVector, 11, 13}
  BY DEF ReturnFault, CodeFault

\* The data segments that an outer level may not use are nulled.
LEMMA CleanupIs ==
    ASSUME NEW s, Formed(s), DOMAIN s.r = Fields, NEW c
    PROVE  LET t == Cleanup(s, c)
           IN  /\ Formed(t) /\ DOMAIN t.r = Fields /\ t.fault = s.fault
               /\ t.r.cpl = s.r.cpl /\ t.r.cs = s.r.cs /\ t.r.ss = s.r.ss
               /\ t.r.fl = s.r.fl /\ Usable(t.r.ds, c)
               /\ t.r.sp = s.r.sp /\ t.r.ip = s.r.ip /\ t.r.tr = s.r.tr
               /\ t.m = s.m
<1> DEFINE t == Cleanup(s, c)
           u == [ s EXCEPT !.r.ds = Null ]
<1>1. /\ DOMAIN u = {"r", "m", "fault"} /\ u.m = s.m /\ u.fault = s.fault
      /\ u.r = [ s.r EXCEPT !.ds = Null ]
  BY DEF Formed
<1> HIDE DEF u
<1>2. /\ DOMAIN u.r = Fields
      /\ u.r.cpl = s.r.cpl /\ u.r.cs = s.r.cs /\ u.r.ss = s.r.ss
      /\ u.r.fl = s.r.fl /\ Usable(u.r.ds, c)
      /\ u.r.sp = s.r.sp /\ u.r.ip = s.r.ip /\ u.r.tr = s.r.tr
  BY <1>1, NullUsable DEF Fields
<1>3. Formed(u)
  BY <1>1 DEF Formed
<1>4. t = IF Usable(s.r.ds, c) THEN s ELSE u
  BY DEF Cleanup, u
<1> HIDE DEF t
<1>5. QED
  BY <1>1, <1>2, <1>3, <1>4 DEF t

\* To an outer level
LEMMA ToOuterSound ==
    ASSUME NEW s, Sound(s), ~s.r.fl.v86, NEW f, f.sp \in Int,
           ReturnFault(f.cs, s.r.cpl) = NoVector
    PROVE  Sound(ToOuter(s, f))
<1> DEFINE cpl == ReturnCpl(f.cs, s.r.cpl)
           bad == StackFault(f.ss, cpl, 13, 12)
           s0 == Abandon(s)
           s1 == [ s0 EXCEPT !.r.ss = f.ss, !.r.sp = f.sp, !.r.cs = f.cs,
                             !.r.cpl = cpl, !.r.ip = f.ip ]
           t == Cleanup(s1, cpl)
<1>1. /\ Formed(s) /\ DOMAIN s.r = Fields /\ s.r.fl \in Flags /\ s.r.cpl \in Levels
  BY DEF Sound, RegistersOK, Fields
<1>2. cpl \in Levels /\ CodeOfLevel(f.cs, cpl)
  BY <1>1, ReturnLevel
<1>3. ToOuter(s, f) = IF bad # NoVector THEN Raise(s, bad) ELSE t
  BY DEF ToOuter
<1> HIDE DEF cpl
<1>4. CASE bad # NoVector
  <2>1. bad \in {10, 11, 12, 13}
    BY <1>4, StackFaults
  <2> HIDE DEF bad
  <2>2. QED
    BY <1>3, <1>4, <2>1, RaiseFails, OwnVectors
<1>5. CASE bad = NoVector
  <2>1. Formed(s0) /\ s0.r = s.r
    BY <1>1, AbandonKeeps
  <2> HIDE DEF s0
  <2>2. /\ DOMAIN s1 = {"r", "m", "fault"} /\ s1.m = s0.m /\ s1.fault = s0.fault
        /\ s1.r = [ s0.r EXCEPT !.ss = f.ss, !.sp = f.sp, !.cs = f.cs,
                                !.cpl = cpl, !.ip = f.ip ]
    BY <2>1 DEF Formed
  <2> HIDE DEF s1
  <2>3. /\ DOMAIN s1.r = Fields /\ s1.r.cpl = cpl /\ s1.r.cs = f.cs
        /\ s1.r.ss = f.ss /\ s1.r.fl = s.r.fl /\ s1.r.sp = f.sp
    BY <1>1, <2>1, <2>2 DEF Fields
  <2>4. Formed(s1)
    BY <2>1, <2>2 DEF Formed
  <2>5. /\ Formed(t) /\ DOMAIN t.r = Fields /\ t.r.cpl = cpl /\ t.r.cs = f.cs
        /\ t.r.ss = f.ss /\ t.r.fl = s.r.fl /\ t.r.sp = f.sp /\ Usable(t.r.ds, cpl)
    BY <2>3, <2>4, CleanupIs
  <2> HIDE DEF t
  <2>6. RegistersOK(t.r)
    BY <1>1, <1>2, <1>5, <2>5 DEF RegistersOK, Consistent, Fields
  <2>7. QED
    BY <1>3, <1>5, <2>5, <2>6 DEF Sound
<1>6. QED
  BY <1>4, <1>5

\* To code of the same level, and anywhere in virtual-8086 mode
LEMMA ReturnSameSound ==
    ASSUME NEW s, Sound(s), NEW f,
           ~s.r.fl.v86 => /\ ReturnFault(f.cs, s.r.cpl) = NoVector
                          /\ ~(ReturnCpl(f.cs, s.r.cpl) > s.r.cpl)
    PROVE  Sound([ LoadCs(Pop(s), f.cs) EXCEPT !.r.ip = f.ip ])
<1> DEFINE t == Pop(s)
           u == LoadCs(t, f.cs)
<1>1. Formed(s) /\ DOMAIN s.r = Fields /\ s.r.cpl \in Levels /\ RegistersOK(s.r)
  BY DEF Sound, RegistersOK, Fields
<1>2. /\ Formed(t) /\ DOMAIN t.r = Fields /\ t.r.cpl = s.r.cpl /\ t.r.cs = s.r.cs
      /\ t.r.ss = s.r.ss /\ t.r.ds = s.r.ds /\ t.r.fl = s.r.fl /\ Sound(t)
      /\ t.r.sp \in Int
  BY <1>1, PopKeeps DEF Sound, RegistersOK
<1> HIDE DEF t
<1>3. Sound(u)
  <2>1. CASE s.r.fl.v86
    BY <1>2, <2>1, LoadCsVirtual
  <2>2. CASE ~s.r.fl.v86
    <3>1. /\ CodeFault(f.cs) = NoVector /\ Rpl(f.cs) = s.r.cpl
          /\ CodeOfLevel(f.cs, s.r.cpl)
      <4>1. /\ ReturnCpl(f.cs, s.r.cpl) \in Levels
            /\ ReturnCpl(f.cs, s.r.cpl) >= s.r.cpl
            /\ Rpl(f.cs) = ReturnCpl(f.cs, s.r.cpl)
            /\ CodeFault(f.cs) = NoVector
            /\ CodeOfLevel(f.cs, ReturnCpl(f.cs, s.r.cpl))
        BY <1>1, <2>2, ReturnLevel
      <4>2. ReturnCpl(f.cs, s.r.cpl) = s.r.cpl
        BY <1>1, <2>2, <4>1 DEF Levels
      <4>3. QED
        BY <4>1, <4>2
    <3>2. u.r.cs = f.cs /\ u.r.cpl = s.r.cpl
      BY <1>2, <2>2, <3>1, LoadCsLoads
    <3>3. /\ Formed(u) /\ DOMAIN u.r = Fields /\ u.r.ss = s.r.ss
          /\ u.r.ds = s.r.ds /\ u.r.fl = s.r.fl /\ u.r.sp \in Int
      BY <1>2, LoadCsKeeps
    <3> HIDE DEF u
    <3>4. RegistersOK(u.r)
      BY <1>1, <2>2, <3>1, <3>2, <3>3 DEF RegistersOK, Consistent, Fields
    <3>5. QED
      BY <3>3, <3>4 DEF Sound
  <2>3. QED
    BY <2>1, <2>2
<1> HIDE DEF u
<1>4. Formed(u) /\ DOMAIN u.r = Fields /\ RegistersOK(u.r)
  BY <1>3 DEF Sound, RegistersOK, Fields
<1>5. Sound([ u EXCEPT !.r.ip = f.ip ])
  BY <1>4, SetIp DEF Sound
<1>6. QED
  BY <1>5 DEF u, t

\* RETF, with whatever frame is on the stack
LEMMA RetFSound ==
    ASSUME NEW s, Sound(s), NEW f, f.sp \in Int
    PROVE  Sound(RetF(s, f))
<1>1. CASE ~s.r.fl.v86 /\ ReturnFault(f.cs, s.r.cpl) # NoVector
  BY <1>1, ReturnFaults, RaiseFails, OwnVectors DEF RetF
<1>2. CASE /\ ~s.r.fl.v86 /\ ReturnFault(f.cs, s.r.cpl) = NoVector
           /\ ReturnCpl(f.cs, s.r.cpl) > s.r.cpl
  BY <1>2, ToOuterSound DEF RetF
<1>3. CASE ~s.r.fl.v86 => /\ ReturnFault(f.cs, s.r.cpl) = NoVector
                          /\ ~(ReturnCpl(f.cs, s.r.cpl) > s.r.cpl)
  BY <1>3, ReturnSameSound DEF RetF
<1>4. QED
  BY <1>1, <1>2, <1>3

\* The flags that a return or POPF brings back
LEMMA RestoreSound ==
    ASSUME NEW s, Sound(s), NEW fl \in Flags, NEW cpl
    PROVE  Sound(RestoreFlags(s, fl, cpl))
<1> DEFINE new == [ nt   |-> fl.nt, v86 |-> s.r.fl.v86,
                    ifl  |-> IF cpl <= s.r.fl.iopl THEN fl.ifl ELSE s.r.fl.ifl,
                    iopl |-> IF cpl = 0 THEN fl.iopl ELSE s.r.fl.iopl ]
           t == [ s EXCEPT !.r.fl = new ]
<1>1. /\ Formed(s) /\ DOMAIN s.r = Fields /\ s.r.fl \in Flags /\ s.r.cpl \in Levels
      /\ (s.r.fl.v86 => RunsV86(guest)) /\ Consistent(s.r)
  BY DEF Sound, RegistersOK, Fields
<1>2. new \in Flags /\ new.v86 = s.r.fl.v86
  BY <1>1 DEF Flags
<1> HIDE DEF new
<1>3. /\ DOMAIN t = {"r", "m", "fault"} /\ t.m = s.m /\ t.fault = s.fault
      /\ t.r = [ s.r EXCEPT !.fl = new ]
  BY <1>1 DEF Formed
<1> HIDE DEF t
<1>4. /\ DOMAIN t.r = Fields /\ t.r.cpl = s.r.cpl /\ t.r.cs = s.r.cs
      /\ t.r.ss = s.r.ss /\ t.r.ds = s.r.ds /\ t.r.fl = new
      /\ t.r.sp = s.r.sp /\ s.r.sp \in Int
  BY <1>1, <1>3 DEF Fields, Sound, RegistersOK
<1>5. RegistersOK(t.r)
  BY <1>1, <1>2, <1>4 DEF RegistersOK, Consistent, Fields
<1>6. Formed(t)
  BY <1>1, <1>3 DEF Formed
<1>7. QED
  BY <1>5, <1>6 DEF Sound, RestoreFlags, t, new

\* To virtual-8086 mode, with all that the frame says
LEMMA ToV86Sound ==
    ASSUME NEW s, Sound(s), NEW f, f.fl \in Flags, f.fl.v86, RunsV86(guest),
           f.sp \in Int
    PROVE  Sound(ToV86(s, f))
<1> DEFINE s0 == Abandon(s)
           t == ToV86(s, f)
<1>1. Formed(s0) /\ s0.r = s.r /\ DOMAIN s.r = Fields
  BY AbandonKeeps DEF Sound, RegistersOK, Fields
<1>2. t = [ s0 EXCEPT !.r.fl = f.fl, !.r.cpl = 3, !.r.cs = f.cs,
                      !.r.ss = f.ss, !.r.ds = f.ds, !.r.sp = f.sp,
                      !.r.ip = f.ip ]
  BY DEF ToV86
<1> HIDE DEF s0, t
<1>3. /\ DOMAIN t = {"r", "m", "fault"} /\ t.m = s0.m /\ t.fault = s0.fault
      /\ DOMAIN t.r = Fields /\ t.r.fl = f.fl /\ t.r.cpl = 3 /\ t.r.sp = f.sp
  <2>1. /\ DOMAIN t = {"r", "m", "fault"} /\ t.m = s0.m /\ t.fault = s0.fault
        /\ t.r = [ s0.r EXCEPT !.fl = f.fl, !.cpl = 3, !.cs = f.cs,
                               !.ss = f.ss, !.ds = f.ds, !.sp = f.sp, !.ip = f.ip ]
    BY <1>1, <1>2 DEF Formed
  <2>2. QED
    BY <1>1, <2>1 DEF Fields
<1>4. RegistersOK(t.r)
  BY <1>3 DEF RegistersOK, Consistent, Fields, Levels
<1>5. Formed(t)
  BY <1>1, <1>3 DEF Formed
<1>6. QED
  BY <1>4, <1>5 DEF Sound, t

\* IRET: to the same or an outer level, to virtual-8086 mode, or to the task that
\* this one is nested in
LEMMA IretSound ==
    ASSUME NEW s, Sound(s), NEW f, Framed(f),
           f.form \in {"int16", "int32"} \/ (s.r.fl.nt /\ ~s.r.fl.v86)
    PROVE  OrFails(Iret(s, f))
<1>1. ASSUME f.form \in {"int16", "int32"},
             ~s.r.fl.v86 => /\ ReturnFault(f.cs, s.r.cpl) = NoVector
                            /\ ~(ReturnCpl(f.cs, s.r.cpl) > s.r.cpl)
      PROVE  Sound(IretSame(s, f))
  BY <1>1, ReturnSameSound, RestoreSound DEF IretSame, Framed
<1>2. ASSUME f.form \in {"int16", "int32"}, ~s.r.fl.v86,
             ReturnFault(f.cs, s.r.cpl) = NoVector
      PROVE  Sound(IretOuter(s, f))
  BY <1>2, ToOuterSound, RestoreSound DEF IretOuter, Framed
<1>3. CASE s.r.fl.v86
  BY <1>1, <1>3, RaiseFails, OwnVectors, SoundIsEnough DEF Iret
<1>4. CASE ~s.r.fl.v86 /\ s.r.fl.nt
  BY <1>4, TaskSwitchSound DEF Iret
<1>5. CASE ~s.r.fl.v86 /\ ~s.r.fl.nt
  <2>1. f.form \in {"int16", "int32"} /\ f.fl \in Flags /\ f.sp \in Int
    BY <1>5 DEF Framed
  <2>2. CASE f.form = "int32" /\ f.fl.v86
    <3>1. Sound(ToV86(s, f))
      BY <2>1, <2>2, ToV86Sound DEF Framed
    <3>2. QED
      BY <1>5, <2>2, <3>1, RaiseFails, OwnVectors, SoundIsEnough DEF Iret
  <2>3. CASE /\ ~(f.form = "int32" /\ f.fl.v86)
             /\ ReturnFault(f.cs, s.r.cpl) # NoVector
    BY <1>5, <2>3, ReturnFaults, RaiseFails, OwnVectors DEF Iret
  <2>4. CASE /\ ~(f.form = "int32" /\ f.fl.v86)
             /\ ReturnFault(f.cs, s.r.cpl) = NoVector
    BY <1>1, <1>2, <1>5, <2>1, <2>4, SoundIsEnough DEF Iret
  <2>5. QED
    BY <2>2, <2>3, <2>4
<1>6. QED
  BY <1>3, <1>4, <1>5

-----------------------------------------------------------------------------
(* Instructions                                                            *)

\* What lies on the stack may be returned through.
LEMMA TopFramed ==
    ASSUME NEW s, Formed(s)
    PROVE  Framed(Top(s))
  BY NoFrameFramed DEF Top, Formed, GuestOK

\* So may the frames that the guests write themselves.
LEMMA OwnFramed ==
    ASSUME guest \in Guests, NEW k \in guest.ops, k.op \in {"ownretf", "owniret"}
    PROVE  Framed(k.f)
<1>1. CASE k.op = "ownretf"
  BY <1>1, TablesAssumption DEF Framed
<1>2. CASE k.op = "owniret"
  <2>1. k.f.form \in {"int16", "int32"} /\ k.f.fl \in Flags /\ k.f.sp \in Int
    BY <1>2, TablesAssumption
  <2>2. k.f.form = "int32" /\ k.f.fl.v86 => RunsV86(guest)
    BY <1>2 DEF RunsV86, MakesV86
  <2>3. QED
    BY <2>1, <2>2 DEF Framed
<1>3. QED
  BY <1>1, <1>2

\* A push leaves a sound state sound.
LEMMA PushSound ==
    ASSUME NEW s, Sound(s), NEW f, Framed(f)
    PROVE  Sound(Push(s, f)) /\ Push(s, f).r.fl = s.r.fl
<1>1. Formed(s) /\ DOMAIN s.r = Fields /\ RegistersOK(s.r)
  BY DEF Sound, RegistersOK, Fields
<1>2. QED
  BY <1>1, PushKeeps DEF Sound

\* POPF never changes the mode.
LEMMA PopFSound ==
    ASSUME NEW s, Sound(s), NEW fl \in Flags
    PROVE  OrFails(PopF(s, fl))
  BY RestoreSound, RaiseFails, OwnVectors, SoundIsEnough DEF PopF

\* LTR changes no segment but the task's.
LEMMA LtrSound ==
    ASSUME NEW s, Sound(s), NEW k
    PROVE  OrFails(Ltr(s, k))
<1> DEFINE t == [ s EXCEPT !.r.tr = k, !.m.busy = @ \cup {k} ]
<1>1. /\ DOMAIN s = {"r", "m", "fault"} /\ DOMAIN s.m = {"ram", "tss", "busy"}
      /\ GuestOK(s.m) /\ s.fault \in Faults /\ RegistersOK(s.r)
      /\ DOMAIN s.r = Fields
  BY DEF Sound, Formed, GuestOK, RegistersOK, Fields
<1>2. /\ DOMAIN t = DOMAIN s /\ t.fault = s.fault
      /\ DOMAIN t.m = DOMAIN s.m /\ t.m.ram = s.m.ram /\ t.m.tss = s.m.tss
      /\ t.r = [ s.r EXCEPT !.tr = k ]
  BY <1>1
<1> HIDE DEF t
<1>3. RegistersOK(t.r)
  <2>1. /\ DOMAIN t.r = Fields /\ t.r.cpl = s.r.cpl /\ t.r.cs = s.r.cs
        /\ t.r.ss = s.r.ss /\ t.r.ds = s.r.ds /\ t.r.fl = s.r.fl
        /\ t.r.sp = s.r.sp
    BY <1>1, <1>2 DEF Fields
  <2>2. QED
    BY <1>1, <2>1, SameSegments
<1>4. Sound(t)
  BY <1>1, <1>2, <1>3 DEF Sound, Formed, GuestOK
<1>5. QED
  BY <1>4, RaiseFails, OwnVectors, SoundIsEnough DEF Ltr, t

\* INT, through a gate of any kind: to another task only out of a task that
\* is not in virtual-8086 mode.
LEMMA IntSound ==
    ASSUME NEW s, Sound(s), NEW vec, TaskGate(vec) => ~s.r.fl.v86, NEW ip
    PROVE  OrFails(IntCall(s, vec, "software", ip))
<1>1. CASE ~TaskGate(vec)
  BY <1>1, IntCallSound, SoundIsEnough
<1>2. CASE TaskGate(vec)
  <2>1. IntFault(s, vec, "software") \in {NoVector, 11, 13}
    BY DEF IntFault
  <2>2. CASE IntFault(s, vec, "software") # NoVector
    BY <2>1, <2>2, RaiseFails, OwnVectors DEF IntCall
  <2>3. CASE IntFault(s, vec, "software") = NoVector
    <3>1. IntCall(s, vec, "software", ip) = TaskSwitch(s, Index(Idt[vec].sel), "gate")
      BY <1>2, <2>3 DEF IntCall, TaskGate
    <3>2. QED
      BY <1>2, <3>1, TaskSwitchSound
  <2>4. QED
    BY <2>2, <2>3
<1>3. QED
  BY <1>1, <1>2

\* Whatever instruction is executed leads to a sound state or fails.
LEMMA ExecSound ==
    ASSUME TasksApart, guest \in Guests, NEW s, Sound(s), NEW k \in guest.ops,
           Runnable(s, k)
    PROVE  OrFails(Exec(s, k))
<1> DEFINE n == [ s EXCEPT !.r.ip = 1 - @ ]
<1>1. Sound(n) /\ Formed(n) /\ n.r.fl = s.r.fl /\ Top(n) = Top(s)
  <2> DEFINE u == [ s EXCEPT !.r.ip = 1 - s.r.ip ]
  <2>1. Formed(s) /\ DOMAIN s.r = Fields /\ RegistersOK(s.r)
    BY DEF Sound, RegistersOK, Fields
  <2>2. /\ Formed(u) /\ u.m = s.m /\ u.r.ss = s.r.ss /\ u.r.fl = s.r.fl
        /\ u.r.sp = s.r.sp /\ RegistersOK(u.r)
    BY <2>1, SetIp
  <2>3. n = u
    OBVIOUS
  <2> HIDE DEF n, u
  <2>4. QED
    BY <2>2, <2>3 DEF Sound, Top
<1>2. k.op \in Operations
  BY TablesAssumption
<1>3. CASE k.op = "nop"
  <2>1. Exec(s, k) = n
    BY <1>3 DEF Exec
  <2>2. QED
    BY <1>1, <2>1, SoundIsEnough
<1>4. CASE k.op = "fault"
  <2>1. Exec(s, k) = Raise(n, k.vec)
    BY <1>4 DEF Exec
  <2> HIDE DEF n
  <2>2. k.vec \in Raised(guest)
    BY <1>4 DEF Raised
  <2>3. QED
    BY <1>1, <2>1, <2>2, RaiseFails
<1>5. CASE k.op = "int"
  <2>1. Exec(s, k) = IntCall(n, k.vec, "software", n.r.ip)
    BY <1>5 DEF Exec
  <2> HIDE DEF n
  <2>2. TaskGate(k.vec) => ~n.r.fl.v86
    BY <1>1, <1>5 DEF TasksApart, Sound, RegistersOK
  <2>3. QED
    BY <1>1, <2>1, <2>2, IntSound
<1>6. CASE k.op = "callf"
  <2>1. Exec(s, k) = CallF(n, k.sel)
    BY <1>6 DEF Exec
  <2>2. QED
    BY <1>1, <2>1, CallFSound
<1>7. CASE k.op = "jmpf"
  <2>1. Exec(s, k) = JmpF(n, k.sel)
    BY <1>7 DEF Exec
  <2>2. QED
    BY <1>1, <2>1, JmpFSound
<1>8. CASE k.op = "retf"
  <2>1. Exec(s, k) = RetF(n, Top(n))
    BY <1>8 DEF Exec
  <2> HIDE DEF n
  <2>2. Top(n).form = "far" /\ Framed(Top(n))
    BY <1>1, <1>8, TopFramed DEF Runnable
  <2>3. Top(n).sp \in Int
    BY <2>2 DEF Framed
  <2>4. QED
    BY <1>1, <2>1, <2>3, RetFSound, SoundIsEnough
<1>9. CASE k.op = "iret"
  <2>1. Exec(s, k) = Iret(n, Top(n))
    BY <1>9 DEF Exec
  <2> HIDE DEF n
  <2>2. Top(n).form \in {"int16", "int32"} \/ (n.r.fl.nt /\ ~n.r.fl.v86)
    BY <1>1, <1>9 DEF Runnable
  <2>3. QED
    BY <1>1, <2>1, <2>2, TopFramed, IretSound
<1>10. CASE k.op = "ownretf"
  <2>1. Exec(s, k) = RetF(Push(n, k.f), k.f)
    BY <1>10 DEF Exec
  <2> HIDE DEF n
  <2>2. Sound(Push(n, k.f))
    BY <1>1, <1>10, OwnFramed, PushSound
  <2>3. k.f.sp \in Int
    BY <1>10, TablesAssumption
  <2>4. QED
    BY <2>1, <2>2, <2>3, RetFSound, SoundIsEnough
<1>11. CASE k.op = "owniret"
  <2>1. Exec(s, k) = Iret(Push(n, k.f), k.f)
    BY <1>11 DEF Exec
  <2> HIDE DEF n
  <2>2. Framed(k.f) /\ Sound(Push(n, k.f))
    BY <1>1, <1>11, OwnFramed, PushSound
  <2>3. k.f.form \in {"int16", "int32"}
    BY <1>11, TablesAssumption
  <2>4. QED
    BY <2>1, <2>2, <2>3, IretSound
<1>12. CASE k.op = "movss"
  <2>1. Exec(s, k) = LoadSs(n, k.sel)
    BY <1>12 DEF Exec
  <2>2. QED
    BY <1>1, <2>1, MovSs
<1>13. CASE k.op = "movds"
  <2>1. Exec(s, k) = LoadDs(n, k.sel)
    BY <1>13 DEF Exec
  <2>2. QED
    BY <1>1, <2>1, MovDs
<1>14. CASE k.op = "popf"
  <2>1. Exec(s, k) = PopF(n, k.fl) /\ k.fl \in Flags
    BY <1>14, TablesAssumption DEF Exec
  <2>2. QED
    BY <1>1, <2>1, PopFSound
<1>15. CASE k.op = "ltr"
  <2>1. Exec(s, k) = Ltr(n, k.sel[1])
    BY <1>15 DEF Exec
  <2>2. QED
    BY <1>1, <2>1, LtrSound
<1>16. QED
  BY <1>2, <1>3, <1>4, <1>5, <1>6, <1>7, <1>8, <1>9, <1>10, <1>11, <1>12, <1>13,
     <1>14, <1>15 DEF Operations

-----------------------------------------------------------------------------
(* The loop                                                                *)

\* The inductive invariant
ProtectionInv == guest \in Guests /\ RegistersOK(r) /\ GuestOK(m)

\* The system starts at level 0 in one of its code segments.
LEMMA ProtectionInitial == ProtectionInit => ProtectionInv
<1> SUFFICES ASSUME ProtectionInit PROVE ProtectionInv
  OBVIOUS
<1> DEFINE fl == [ ifl |-> TRUE, nt |-> FALSE, v86 |-> FALSE, iopl |-> 0 ]
<1>1. PICK j \in DOMAIN Gdt :
        /\ Gdt[j].kind = "code" /\ Gdt[j].dpl = 0 /\ Gdt[j].present
        /\ r = [ cpl |-> 0, cs |-> <<j, 0>>, ss |-> Gdt[FirstTask].ss0,
                 ds |-> Null, sp |-> 0, ip |-> 0, tr |-> FirstTask, fl |-> fl ]
  BY DEF ProtectionInit
<1>2. fl \in Flags /\ ~fl.v86
  BY DEF Flags
<1> HIDE DEF fl
<1>3. CodeOfLevel(<<j, 0>>, 0)
  BY <1>1, TablesAssumption
     DEF CodeOfLevel, Rpl, Index, CodeFault, Conforming, D, Known, IsCode, NoVector
<1>4. RegistersOK(r)
  BY <1>1, <1>2, <1>3, TablesAssumption
     DEF RegistersOK, Consistent, Levels, Fields
<1>5. GuestOK(m)
  <2>1. /\ DOMAIN m = {"ram", "tss", "busy"} /\ DOMAIN m.tss = Tasks
        /\ \A k \in Tasks : m.tss[k].image = Gdt[k].image
        /\ \A at \in DOMAIN m.ram : m.ram[at] = NoFrame
        /\ m.ram = [ at \in DOMAIN m.ram |-> m.ram[at] ]
    BY DEF ProtectionInit, Tasks
  <2>2. \A k \in Tasks : Startable(Gdt[k].image)
    BY TablesAssumption DEF Tasks
  <2>3. \A k \in DOMAIN Gdt : Gdt[k].kind = "data" => <<k, 1>> \in DOMAIN m.ram
    BY TablesAssumption DEF ProtectionInit
  <2>4. QED
    BY <2>1, <2>2, <2>3, NoFrameFramed DEF GuestOK
<1>6. QED
  BY <1>4, <1>5 DEF ProtectionInv, ProtectionInit

\* An interrupt, an instruction, and the exception that it may have raised
LEMMA IterationSound ==
    ASSUME TasksApart, ProtectionInv, NEW irq \in Irqs \cup {NoIrq},
           NEW k \in guest.ops, Iteration(irq, k)
    PROVE  RegistersOK(r') /\ GuestOK(m')
<1> DEFINE s0 == [ r |-> r, m |-> m, fault |-> NoVector ]
           s1 == IF irq = NoIrq THEN s0
                 ELSE IntCall(s0, irq, "hardware", r.ip)
           s2 == Exec(s1, k)
           faulted == s2.fault # NoVector
           back == Rollback(s0, s1, s2)
           s3 == Delivered(s0, s1, s2)
<1>1. guest \in Guests /\ s0.m = m /\ GuestOK(m) /\ Sound(s0)
  BY DEF ProtectionInv, Sound, Formed, Faults
<1>2. r' = s3.r /\ m' = s3.m /\ Runnable(s1, k)
  BY DEF Iteration, Ends
<1> HIDE DEF s3
<1> HIDE DEF s0
<1>3. Sound(s1)
  BY <1>1, IntCallSound DEF TasksApart
<1> HIDE DEF s1
<1>4. OrFails(s2)
  BY <1>1, <1>2, <1>3, ExecSound
<1> HIDE DEF s2
<1>5. CASE ~faulted
  <2>1. s3 = s2
    BY <1>5 DEF s3, Delivered
  <2>2. QED
    BY <1>2, <1>4, <1>5, <2>1 DEF OrFails, Formed
<1>6. CASE faulted
  <2>1. s2.fault \in Raised(guest)
    BY <1>4, <1>6 DEF OrFails, Formed, Faults
  <2>2. ~TaskGate(s2.fault)
    BY <1>1, <2>1 DEF TasksApart
  <2>3. Sound(back)
    <3> DEFINE u == [ s1 EXCEPT !.r.ip = s2.r.ip ]
    <3>1. Formed(s1) /\ DOMAIN s1.r = Fields /\ RegistersOK(s1.r)
      BY <1>3 DEF Sound, RegistersOK, Fields
    <3>2. RegistersOK(u.r)
      BY <3>1, SetIp
    <3>3. u.r = [ s1.r EXCEPT !.ip = s2.r.ip ]
      BY <3>1 DEF Formed
    <3>4. back = [ r |-> u.r, m |-> m, fault |-> s2.fault ]
      BY <1>1, <3>3 DEF Rollback
    <3> HIDE DEF u, back
    <3>5. QED
      BY <1>1, <2>1, <3>2, <3>4 DEF Sound, Formed, Faults
  <2> HIDE DEF back
  <2>4. Sound(IntCall(back, s2.fault, "exception", s1.r.ip))
    BY <2>2, <2>3, IntCallSound
  <2>5. Sound(s3)
    BY <1>6, <2>4 DEF s3, Delivered, back
  <2>6. QED
    BY <1>2, <2>5 DEF Sound, Formed
<1>7. QED
  BY <1>5, <1>6

\* Every iteration of cpu_exec keeps the invariant.
LEMMA ProtectionInductive ==
    TasksApart /\ ProtectionInv /\ [ProtectionNext]_protection => ProtectionInv'
<1> SUFFICES ASSUME TasksApart, ProtectionInv, [ProtectionNext]_protection
             PROVE  ProtectionInv'
  OBVIOUS
<1>1. CASE ProtectionNext
  <2>1. PICK irq \in Irqs \cup {NoIrq}, k \in guest.ops : Iteration(irq, k)
    BY <1>1 DEF ProtectionNext
  <2>2. RegistersOK(r') /\ GuestOK(m')
    BY <2>1, IterationSound
  <2>3. guest' = guest
    BY <1>1 DEF ProtectionNext
  <2>4. QED
    BY <2>2, <2>3 DEF ProtectionInv, RegistersOK, GuestOK, Framed
<1>2. CASE UNCHANGED protection
  BY <1>2 DEF protection, ProtectionInv, RegistersOK, GuestOK, Framed
<1>3. QED
  BY <1>1, <1>2

\* Whatever gates, returns, task switches, faults and interrupts led here, in
\* any system whose task gates and conforming segments are as TasksApart says:
\* the level is the one of the code, the stack belongs to the level, and code
\* of the outer level holds no data segment of an inner one.
THEOREM PrivilegeConsistentHolds ==
    TasksApart => (ProtectionSpec => []PrivilegeConsistent)
<1>1. ProtectionInv => PrivilegeConsistent
  BY DEF ProtectionInv, RegistersOK, PrivilegeConsistent
<1>2. SUFFICES ASSUME TasksApart PROVE ProtectionSpec => []PrivilegeConsistent
  OBVIOUS
<1>3. ProtectionInv /\ [ProtectionNext]_protection => ProtectionInv'
  BY <1>2, ProtectionInductive
<1>4. QED
  BY <1>1, <1>3, ProtectionInitial, PTL DEF ProtectionSpec

-----------------------------------------------------------------------------
(***************************************************************************)
(* Returns from handlers.  The contexts that wait are linked to each other *)
(* and to the registers: each has its frame on its stack, which belongs to *)
(* a level not inside the one that runs, below everything that has been    *)
(* pushed since, and the frame holds what the context needs to go on.      *)
(***************************************************************************)
IsSequence(q) == \E S : q \in Seq(S)

Place(w) == <<Index(w.ss), w.sp>>

\* The frame holds the context, as far as its form can.
Resumable(w) ==
    /\ RegistersOK(w.r) /\ w.sp \in Int
    /\ w.form = w.frame.form /\ w.form \in {"int16", "int32"}
    /\ w.frame.cs = w.r.cs /\ w.frame.ip = w.r.ip /\ w.frame.ds = w.r.ds
    /\ w.frame.fl = IF w.form = "int16" THEN [ w.r.fl EXCEPT !.v86 = FALSE ]
                    ELSE w.r.fl
    /\ StackFault(w.ss, Rpl(w.ss), 13, 12) = NoVector
    /\ \/ /\ w.r.fl.v86 \/ Rpl(w.ss) < w.r.cpl
          /\ w.frame.ss = w.r.ss /\ w.frame.sp = w.r.sp
       \/ ~w.r.fl.v86 /\ w.ss = w.r.ss /\ w.sp = w.r.sp + 1

\* The frame lies below all that the registers x may push.
Under(w, x) ==
    /\ Rpl(w.ss) >= x.cpl /\ w.r.tr = x.tr
    /\ Index(w.ss) = Index(x.ss) => w.sp <= x.sp

OnStack(w, mem) == Place(w) \in DOMAIN mem /\ mem[Place(w)] = w.frame

Chain(calls, x, mem) ==
    /\ IsSequence(calls)
    /\ \A n \in 1 .. Len(calls) :
         /\ Resumable(calls[n]) /\ Under(calls[n], x) /\ OnStack(calls[n], mem)
         /\ calls[n].r.fl.v86 => n = 1
         /\ \A k \in 1 .. (n - 1) : Under(calls[k], calls[n].r)
    /\ x.fl.v86 => calls = <<>>

\* What an interrupt through a gate of this task does: from s to t, with the
\* frame f.
Enters(s, t, f, ip) ==
    /\ t.fault = s.fault /\ t.r.tr = s.r.tr /\ ~t.r.fl.v86
    /\ t.m.ram = [ s.m.ram EXCEPT ![<<Index(t.r.ss), t.r.sp>>] = f ]
    /\ f.form \in {"int16", "int32"} /\ f.cs = s.r.cs /\ f.ip = ip
    /\ f.ds = IF s.r.fl.v86 THEN s.r.ds ELSE Null
    /\ f.fl = IF f.form = "int16" THEN [ s.r.fl EXCEPT !.v86 = FALSE ] ELSE s.r.fl
    /\ \/ /\ s.r.fl.v86 \/ t.r.cpl < s.r.cpl
          /\ t.r.sp = 1 /\ f.ss = s.r.ss /\ f.sp = s.r.sp
       \/ /\ ~s.r.fl.v86 /\ t.r.cpl = s.r.cpl
          /\ t.r.ss = s.r.ss /\ t.r.sp = s.r.sp + 1

-----------------------------------------------------------------------------
\* A sequence that grows
LEMMA AppendIs ==
    ASSUME NEW q, IsSequence(q), NEW e
    PROVE  /\ IsSequence(Append(q, e)) /\ Len(q) \in Nat
           /\ Len(Append(q, e)) = Len(q) + 1
           /\ \A n \in 1 .. Len(q) : Append(q, e)[n] = q[n]
           /\ Append(q, e)[Len(q) + 1] = e
<1>1. PICK S : q \in Seq(S)
  BY DEF IsSequence
<1> DEFINE T == S \cup {e}
<1>2. q \in Seq(T) /\ e \in T
  BY <1>1
<1> HIDE DEF T
<1>3. Append(q, e) \in Seq(T)
  BY <1>2
<1>4. QED
  BY <1>2, <1>3 DEF IsSequence

\* A sequence without its last element
LEMMA FrontIs ==
    ASSUME NEW q, IsSequence(q), q # <<>>
    PROVE  LET f == SubSeq(q, 1, Len(q) - 1)
           IN  /\ Len(q) \in Nat /\ Len(q) >= 1
               /\ IsSequence(f) /\ Len(f) = Len(q) - 1
               /\ \A n \in 1 .. Len(q) - 1 : f[n] = q[n]
<1>1. PICK S : q \in Seq(S)
  BY DEF IsSequence
<1>2. Len(q) \in Nat /\ Len(q) >= 1
  BY <1>1
<1> DEFINE k == Len(q) - 1
           f == SubSeq(q, 1, k)
<1>3. k \in Nat /\ k <= Len(q)
  BY <1>2
<1> HIDE DEF k
<1>4. f \in Seq(S) /\ Len(f) = k
  BY <1>1, <1>2, <1>3
<1>5. \A n \in 1 .. k : f[n] = q[n]
  BY <1>1, <1>2, <1>3
<1> HIDE DEF f
<1>6. IsSequence(f)
  BY <1>4 DEF IsSequence
<1>7. QED
  BY <1>2, <1>4, <1>5, <1>6 DEF f, k

\* No context waits.
LEMMA NoChain ==
    ASSUME NEW x, NEW mem
    PROVE  Chain(<<>>, x, mem)
<1>1. <<>> \in Seq({}) /\ Len(<<>>) = 0
  OBVIOUS
<1>2. QED
  BY <1>1 DEF Chain, IsSequence

\* Level, stack, task and mode of the registers are all that matters.
LEMMA ChainOf ==
    ASSUME NEW calls, NEW x, NEW y, NEW mem, Chain(calls, x, mem),
           y.cpl = x.cpl, y.ss = x.ss, y.sp = x.sp, y.tr = x.tr,
           y.fl.v86 = x.fl.v86
    PROVE  Chain(calls, y, mem)
  BY DEF Chain, Under

\* A stack without a fault belongs to the level of its RPL.
LEMMA StackOf ==
    ASSUME NEW sel, NEW p, StackFault(sel, p, 13, 12) = NoVector
    PROVE  /\ Rpl(sel) = p /\ D(sel).dpl = p /\ p \in Levels
           /\ \A other : Index(other) = Index(sel) => D(other) = D(sel)
<1>1. Rpl(sel) = p /\ D(sel).dpl = p /\ Known(sel)
  BY DEF StackFault, NoVector
<1>2. D(sel).dpl \in Levels
  BY <1>1, TablesAssumption DEF Known, D, Levels
<1>3. QED
  BY <1>1, <1>2 DEF D

-----------------------------------------------------------------------------
\* The contexts that wait keep waiting while a handler is entered.
LEMMA ChainUnder ==
    ASSUME NEW s, NEW t, Sound(s), Sound(t), NEW f, NEW ip, Enters(s, t, f, ip),
           NEW calls, Chain(calls, s.r, s.m.ram), NEW n \in 1 .. Len(calls)
    PROVE  /\ Under(calls[n], t.r)
           /\ Place(calls[n]) # <<Index(t.r.ss), t.r.sp>>
<1> DEFINE w == calls[n]
<1>0. Len(calls) \in Nat /\ calls # <<>>
  BY DEF Chain, IsSequence
<1>1. /\ Resumable(w) /\ Under(w, s.r) /\ ~s.r.fl.v86
  BY <1>0 DEF Chain
<1> HIDE DEF w
<1>2. /\ StackFault(w.ss, Rpl(w.ss), 13, 12) = NoVector /\ w.sp \in Int
  BY <1>1 DEF Resumable
<1>3. /\ Rpl(w.ss) \in Levels /\ D(w.ss).dpl = Rpl(w.ss)
  BY <1>2, StackOf
<1>4. /\ s.r.cpl \in Levels /\ s.r.sp \in Int /\ t.r.cpl \in Levels
  BY DEF Sound, RegistersOK
<1>5. CASE t.r.cpl = s.r.cpl /\ t.r.ss = s.r.ss /\ t.r.sp = s.r.sp + 1
  <2>1. /\ Rpl(w.ss) >= s.r.cpl /\ w.r.tr = s.r.tr
        /\ Index(w.ss) = Index(s.r.ss) => w.sp <= s.r.sp
    BY <1>1 DEF Under
  <2>2. t.r.tr = s.r.tr
    BY DEF Enters
  <2>3. Index(w.ss) = Index(t.r.ss) => w.sp < t.r.sp
    BY <1>2, <1>4, <1>5, <2>1
  <2>4. Under(w, t.r)
    BY <1>2, <1>4, <1>5, <2>1, <2>2, <2>3 DEF Under
  <2>5. Place(w) # <<Index(t.r.ss), t.r.sp>>
    BY <1>2, <1>4, <1>5, <2>3 DEF Place
  <2>6. QED
    BY <2>4, <2>5 DEF w
<1>6. CASE t.r.cpl < s.r.cpl
  <2>1. StackFault(t.r.ss, t.r.cpl, 13, 12) = NoVector
    BY DEF Sound, RegistersOK, Consistent, Enters
  <2>2. D(t.r.ss).dpl = t.r.cpl
    BY <2>1, StackOf
  <2>3. Rpl(w.ss) > t.r.cpl
    BY <1>1, <1>3, <1>4, <1>6 DEF Under, Levels
  <2>4. Index(w.ss) # Index(t.r.ss)
    BY <1>3, <1>4, <2>2, <2>3 DEF D, Levels
  <2>5. w.r.tr = t.r.tr
    BY <1>1 DEF Under, Enters
  <2>6. Under(w, t.r)
    BY <1>3, <1>4, <2>3, <2>4, <2>5 DEF Under, Levels
  <2>7. Place(w) # <<Index(t.r.ss), t.r.sp>>
    BY <2>4 DEF Place
  <2>8. QED
    BY <2>6, <2>7 DEF w
<1>7. QED
  BY <1>1, <1>5, <1>6 DEF Enters, w

\* So they do in memory.
LEMMA ChainStays ==
    ASSUME NEW s, NEW t, Sound(s), Sound(t), NEW f, NEW ip, Enters(s, t, f, ip),
           NEW calls, Chain(calls, s.r, s.m.ram)
    PROVE  Chain(calls, t.r, t.m.ram)
<1> DEFINE at == <<Index(t.r.ss), t.r.sp>>
<1>1. t.m.ram = [ s.m.ram EXCEPT ![at] = f ] /\ ~t.r.fl.v86
  BY DEF Enters
<1>2. \A n \in 1 .. Len(calls) : Under(calls[n], t.r) /\ Place(calls[n]) # at
  BY ChainUnder
<1> HIDE DEF at
<1>3. \A n \in 1 .. Len(calls) : OnStack(calls[n], t.m.ram)
  <2> SUFFICES ASSUME NEW n \in 1 .. Len(calls) PROVE OnStack(calls[n], t.m.ram)
    OBVIOUS
  <2>1. OnStack(calls[n], s.m.ram) /\ Place(calls[n]) # at
    BY <1>2 DEF Chain
  <2>2. QED
    BY <1>1, <2>1 DEF OnStack
<1>4. QED
  BY <1>1, <1>2, <1>3 DEF Chain

\* The context of the interrupted code is one that its frame resumes.
LEMMA NewContext ==
    ASSUME NEW s, NEW t, Sound(s), Sound(t), NEW f, NEW ip, Enters(s, t, f, ip),
           t.m.ram # s.m.ram
    PROVE  LET w == Context(s, t, ip)
           IN  /\ Resumable(w) /\ Under(w, t.r) /\ OnStack(w, t.m.ram)
               /\ w.r.cpl = s.r.cpl /\ w.r.ss = s.r.ss /\ w.r.sp = s.r.sp
               /\ w.r.tr = s.r.tr /\ w.r.fl = s.r.fl
<1> DEFINE at == <<Index(t.r.ss), t.r.sp>>
           w == Context(s, t, ip)
<1>1. t.m.ram = [ s.m.ram EXCEPT ![at] = f ] /\ ~t.r.fl.v86 /\ t.r.tr = s.r.tr
  BY DEF Enters
<1>2. s.m.ram = [ a \in DOMAIN s.m.ram |-> s.m.ram[a] ]
  BY DEF Sound, Formed, GuestOK
<1>3. at \in DOMAIN t.m.ram /\ t.m.ram[at] = f
  <2> HIDE DEF at
  <2>1. ASSUME at \notin DOMAIN s.m.ram PROVE t.m.ram = s.m.ram
    BY <1>1, <1>2, <2>1
  <2>2. QED
    BY <1>1, <2>1
<1>4. Top(t) = f
  BY <1>3 DEF Top
<1>5. w = [ form |-> f.form, r |-> [ s.r EXCEPT !.ip = ip, !.ds = f.ds ],
            ss |-> t.r.ss, sp |-> t.r.sp, frame |-> f ]
  BY <1>4 DEF Context
<1> HIDE DEF w
<1>6. /\ DOMAIN s.r = Fields /\ RegistersOK(s.r) /\ s.r.sp \in Int
      /\ t.r.cpl \in Levels /\ t.r.sp \in Int
  BY DEF Sound, RegistersOK, Fields
<1>7. /\ w.form = f.form /\ w.ss = t.r.ss /\ w.sp = t.r.sp /\ w.frame = f
      /\ w.r = [ s.r EXCEPT !.ip = ip, !.ds = f.ds ]
  BY <1>5
<1>8. /\ DOMAIN w.r = Fields /\ w.r.cpl = s.r.cpl /\ w.r.ss = s.r.ss
      /\ w.r.sp = s.r.sp /\ w.r.tr = s.r.tr /\ w.r.fl = s.r.fl
      /\ w.r.cs = s.r.cs /\ w.r.ip = ip /\ w.r.ds = f.ds
  BY <1>6, <1>7 DEF Fields
<1>9. StackFault(t.r.ss, t.r.cpl, 13, 12) = NoVector
  BY <1>1 DEF Sound, RegistersOK, Consistent
<1>10. Rpl(t.r.ss) = t.r.cpl
  BY <1>9, StackOf
<1>11. RegistersOK(w.r)
  <2>1. ~s.r.fl.v86 => Usable(w.r.ds, 3)
    BY <1>8, NullUsable DEF Enters
  <2>2. QED
    BY <1>6, <1>8, <2>1 DEF RegistersOK, Consistent
<1>12. Resumable(w)
  BY <1>6, <1>7, <1>8, <1>9, <1>10, <1>11 DEF Resumable, Enters
<1>13. Under(w, t.r)
  BY <1>1, <1>6, <1>7, <1>8, <1>10 DEF Under, Levels
<1>14. OnStack(w, t.m.ram)
  BY <1>3, <1>7 DEF OnStack, Place
<1>15. QED
  BY <1>8, <1>12, <1>13, <1>14 DEF w

\* Another context waits, or, where nothing was written, none.
LEMMA ChainGrows ==
    ASSUME NEW s, NEW t, Sound(s), Sound(t), NEW f, NEW ip, Enters(s, t, f, ip),
           NEW calls, Chain(calls, s.r, s.m.ram)
    PROVE  Chain(With(calls, s, t, ip), t.r, t.m.ram)
<1>1. Chain(calls, t.r, t.m.ram)
  BY ChainStays
<1>2. CASE t.m.ram = s.m.ram
  BY <1>1, <1>2 DEF With, Entered, Enters
<1>3. CASE t.m.ram # s.m.ram
  <2> DEFINE w == Context(s, t, ip)
             q == Append(calls, w)
  <2>1. /\ Resumable(w) /\ Under(w, t.r) /\ OnStack(w, t.m.ram)
        /\ w.r.cpl = s.r.cpl /\ w.r.ss = s.r.ss /\ w.r.sp = s.r.sp
        /\ w.r.tr = s.r.tr /\ w.r.fl = s.r.fl
    BY <1>3, NewContext
  <2>2. With(calls, s, t, ip) = q
    BY <1>3 DEF With, Entered
  <2> HIDE DEF w
  <2>3. /\ IsSequence(q) /\ Len(calls) \in Nat /\ Len(q) = Len(calls) + 1
        /\ \A n \in 1 .. Len(calls) : q[n] = calls[n]
        /\ q[Len(calls) + 1] = w
    BY AppendIs DEF Chain
  <2> HIDE DEF q
  <2>4. s.r.fl.v86 => Len(calls) = 0
    BY DEF Chain
  <2>5. \A n \in 1 .. Len(calls) : Under(calls[n], w.r)
    BY <2>1 DEF Chain, Under
  <2>6. ASSUME NEW n \in 1 .. Len(q)
        PROVE  /\ Resumable(q[n]) /\ Under(q[n], t.r) /\ OnStack(q[n], t.m.ram)
               /\ q[n].r.fl.v86 => n = 1
               /\ \A k \in 1 .. (n - 1) : Under(q[k], q[n].r)
    <3>1. CASE n = Len(calls) + 1
      <4>1. q[n] = w /\ (w.r.fl.v86 => n = 1)
        BY <2>1, <2>3, <2>4, <3>1
      <4>2. \A k \in 1 .. (n - 1) : Under(q[k], w.r)
        BY <2>3, <2>5, <3>1
      <4>3. QED
        BY <2>1, <4>1, <4>2
    <3>2. CASE n \in 1 .. Len(calls)
      <4>1. q[n] = calls[n] /\ \A k \in 1 .. (n - 1) : q[k] = calls[k]
        BY <2>3, <3>2
      <4>2. QED
        BY <1>1, <3>2, <4>1 DEF Chain
    <3>3. QED
      BY <2>3, <3>1, <3>2
  <2>7. ~t.r.fl.v86
    BY DEF Enters
  <2>8. QED
    BY <2>2, <2>3, <2>6, <2>7 DEF Chain
<1>4. QED
  BY <1>2, <1>3

-----------------------------------------------------------------------------
\* What the frames of interrupts hold
LEMMA FrameIs ==
    ASSUME NEW s, s.r.fl \in Flags, NEW gate, NEW ip, NEW f,
           f \in {Frame(s, Form(gate), ip), Short(Frame(s, Form(gate), ip))}
    PROVE  /\ Kept(f).form \in {"int16", "int32"}
           /\ Kept(f).cs = s.r.cs /\ Kept(f).ip = ip
           /\ Kept(f).ds = IF s.r.fl.v86 THEN s.r.ds ELSE Null
           /\ Kept(f).fl = IF Kept(f).form = "int16"
                           THEN [ s.r.fl EXCEPT !.v86 = FALSE ] ELSE s.r.fl
           /\ Kept(f).ss = f.ss /\ Kept(f).sp = f.sp
<1>1. /\ DOMAIN f = {"form", "cs", "ip", "ss", "sp", "ds", "fl"}
      /\ f.form = Form(gate) /\ f.fl = s.r.fl /\ f.cs = s.r.cs /\ f.ip = ip
      /\ f.ds = IF s.r.fl.v86 THEN s.r.ds ELSE Null
  <2>1. CASE f = Frame(s, Form(gate), ip)
    BY <2>1 DEF Frame
  <2>2. CASE f = Short(Frame(s, Form(gate), ip))
    BY <2>2 DEF Frame, Short
  <2>3. QED
    BY <2>1, <2>2
<1>2. f.form \in {"int16", "int32"}
  BY <1>1 DEF Form
<1>3. CASE f.form = "int16"
  <2>1. Kept(f) = [ f EXCEPT !.fl = [ f.fl EXCEPT !.v86 = FALSE ] ]
    BY <1>3 DEF Kept
  <2>2. QED
    BY <1>1, <1>3, <2>1
<1>4. CASE f.form # "int16"
  BY <1>1, <1>2, <1>4 DEF Kept
<1>5. QED
  BY <1>3, <1>4

\* To a handler of the same level
LEMMA EnterSameEnters ==
    ASSUME NEW s, Sound(s), ~s.r.fl.v86, NEW gate, NEW ip,
           CodeOfLevel(<<Index(gate.sel), s.r.cpl>>, s.r.cpl)
    PROVE  Enters(s, EnterSame(s, gate, ip),
                  Kept(Short(Frame(s, Form(gate), ip))), ip)
<1> DEFINE f == Kept(Short(Frame(s, Form(gate), ip)))
           s1 == Push(s, f)
           to == <<Index(gate.sel), s.r.cpl>>
           t == LoadCs(s1, to)
           u == [ t EXCEPT !.r.ip = 0, !.r.fl = HandlerFlags(@, gate, FALSE) ]
<1>1. /\ Formed(s) /\ DOMAIN s.r = Fields /\ s.r.fl \in Flags
      /\ s.r.sp \in Int
      /\ s.r.fl.v86 => RunsV86(guest)
  BY DEF Sound, RegistersOK, Fields
<1>2. Framed(f)
  BY <1>1, FramesFramed
<1>3. /\ f.form \in {"int16", "int32"} /\ f.cs = s.r.cs /\ f.ip = ip
      /\ f.ds = IF s.r.fl.v86 THEN s.r.ds ELSE Null
      /\ f.fl = IF f.form = "int16" THEN [ s.r.fl EXCEPT !.v86 = FALSE ] ELSE s.r.fl
  <2> DEFINE f0 == Short(Frame(s, Form(gate), ip))
  <2>1. f0 \in {Frame(s, Form(gate), ip), Short(Frame(s, Form(gate), ip))}
    OBVIOUS
  <2>2. f = Kept(f0)
    OBVIOUS
  <2> HIDE DEF f, f0
  <2>3. /\ Kept(f0).form \in {"int16", "int32"}
        /\ Kept(f0).cs = s.r.cs /\ Kept(f0).ip = ip
        /\ Kept(f0).ds = IF s.r.fl.v86 THEN s.r.ds ELSE Null
        /\ Kept(f0).fl = IF Kept(f0).form = "int16"
                         THEN [ s.r.fl EXCEPT !.v86 = FALSE ] ELSE s.r.fl
    BY <1>1, <2>1, FrameIs
  <2>4. QED
    BY <2>2, <2>3
<1> HIDE DEF f
<1>4. /\ Formed(s1) /\ s1.fault = s.fault /\ DOMAIN s1.r = Fields
      /\ s1.r.cpl = s.r.cpl /\ s1.r.ss = s.r.ss /\ s1.r.sp = s.r.sp + 1
      /\ s1.r.fl = s.r.fl /\ s1.r.tr = s.r.tr
      /\ s1.m.ram = [ s.m.ram EXCEPT ![<<Index(s.r.ss), s.r.sp + 1>>] = f ]
  BY <1>1, <1>2, PushKeeps
<1> HIDE DEF s1
<1>5. CodeFault(to) = NoVector /\ Rpl(to) = s.r.cpl
  BY DEF CodeOfLevel
<1> HIDE DEF to
<1>6. t.r.cs = to /\ t.r.cpl = s.r.cpl /\ t.fault = s.fault
  BY <1>4, <1>5, LoadCsLoads
<1>7. /\ Formed(t) /\ DOMAIN t.r = Fields /\ t.m = s1.m
      /\ t.r.ss = s.r.ss /\ t.r.fl = s.r.fl /\ t.r.sp = s1.r.sp
      /\ t.r.tr = s.r.tr
  BY <1>4, LoadCsKeeps
<1> HIDE DEF t
<1>8. /\ u.m = t.m /\ u.fault = t.fault
      /\ u.r = [ t.r EXCEPT !.ip = 0, !.fl = HandlerFlags(@, gate, FALSE) ]
  BY <1>7 DEF Formed
<1> HIDE DEF u
<1>9. /\ u.r.cpl = t.r.cpl /\ u.r.ss = t.r.ss /\ u.r.sp = t.r.sp
      /\ u.r.tr = t.r.tr /\ u.r.fl = HandlerFlags(s.r.fl, gate, FALSE)
  BY <1>7, <1>8 DEF Fields
<1>10. ~u.r.fl.v86
  BY <1>1, <1>9, HandlerFlagsAre
<1>11. Enters(s, u, f, ip)
  <2>1. /\ u.fault = s.fault /\ u.r.tr = s.r.tr /\ u.r.cpl = s.r.cpl
        /\ u.r.ss = s.r.ss /\ u.r.sp = s.r.sp + 1
    BY <1>4, <1>6, <1>7, <1>8, <1>9
  <2>2. u.m.ram = [ s.m.ram EXCEPT ![<<Index(s.r.ss), s.r.sp + 1>>] = f ]
    BY <1>4, <1>7, <1>8
  <2>3. u.m.ram = [ s.m.ram EXCEPT ![<<Index(u.r.ss), u.r.sp>>] = f ]
    BY <2>1, <2>2
  <2>4. QED
    BY <1>3, <1>10, <2>1, <2>3 DEF Enters
<1>12. QED
  BY <1>11 DEF EnterSame, u, t, s1, f, to

\* Through a gate to an inner level, or out of virtual-8086 mode, or not at all
LEMMA EnterInnerEnters ==
    ASSUME NEW s, Sound(s), NEW gate, NEW ip,
           GateTargetFault(gate.sel, s.r.cpl) = NoVector,
           s.r.fl.v86 \/ GateTargetCpl(gate.sel, s.r.cpl) < s.r.cpl
    PROVE  LET t == EnterInner(s, gate, ip)
           IN  \/ t.r = s.r /\ t.m = s.m /\ t.fault # NoVector
               \/ Enters(s, t, Kept(Frame(s, Form(gate), ip)), ip)
<1> DEFINE cpl == GateTargetCpl(gate.sel, s.r.cpl)
           ss0 == Gdt[s.r.tr].ss0
           bad == IF cpl > 2 THEN 10 ELSE StackFault(ss0, cpl, 10, 12)
           f == Kept(Frame(s, Form(gate), ip))
           s0 == [ s EXCEPT !.r.ss = ss0, !.r.sp = 0,
                            !.r.fl = HandlerFlags(@, gate, TRUE) ]
           to == <<Index(gate.sel), cpl>>
           s1 == Push(s0, f)
           t == LoadCs(s1, to)
           u == [ t EXCEPT !.r.ip = 0, !.r.cpl = cpl ]
<1>1. /\ Formed(s) /\ DOMAIN s.r = Fields /\ s.r.fl \in Flags /\ s.r.cpl \in Levels
      /\ s.r.fl.v86 => RunsV86(guest)
      /\ s.r.sp \in Int
  BY DEF Sound, RegistersOK, Fields
<1>2. CodeOfLevel(to, cpl)
  BY <1>1, GateLevel
<1>3. EnterInner(s, gate, ip) = IF bad # NoVector THEN Raise(s, bad) ELSE u
  BY DEF EnterInner
<1>4. Framed(f)
  BY <1>1, FramesFramed
<1>5. /\ f.form \in {"int16", "int32"} /\ f.cs = s.r.cs /\ f.ip = ip
      /\ f.ds = IF s.r.fl.v86 THEN s.r.ds ELSE Null
      /\ f.fl = IF f.form = "int16" THEN [ s.r.fl EXCEPT !.v86 = FALSE ] ELSE s.r.fl
      /\ f.ss = s.r.ss /\ f.sp = s.r.sp
  <2> DEFINE f0 == Frame(s, Form(gate), ip)
  <2>1. f0.ss = s.r.ss /\ f0.sp = s.r.sp
    BY DEF Frame
  <2>2. f0 \in {Frame(s, Form(gate), ip), Short(Frame(s, Form(gate), ip))}
    OBVIOUS
  <2>3. f = Kept(f0)
    OBVIOUS
  <2> HIDE DEF f, f0
  <2>4. /\ Kept(f0).form \in {"int16", "int32"}
        /\ Kept(f0).cs = s.r.cs /\ Kept(f0).ip = ip
        /\ Kept(f0).ds = IF s.r.fl.v86 THEN s.r.ds ELSE Null
        /\ Kept(f0).fl = IF Kept(f0).form = "int16"
                         THEN [ s.r.fl EXCEPT !.v86 = FALSE ] ELSE s.r.fl
        /\ Kept(f0).ss = f0.ss /\ Kept(f0).sp = f0.sp
    BY <1>1, <2>2, FrameIs
  <2>5. QED
    BY <2>1, <2>3, <2>4
<1>6. s.r.fl.v86 \/ cpl < s.r.cpl
  OBVIOUS
<1> HIDE DEF f, cpl
<1>7. CASE bad # NoVector
  <2>1. bad \in {10, 11, 12, 13}
    BY <1>7, StackFaults
  <2> HIDE DEF bad
  <2>2. /\ Raise(s, bad).r = s.r /\ Raise(s, bad).m = s.m
        /\ Raise(s, bad).fault # NoVector
    BY <1>1, <1>7, <2>1, RaiseIs, OwnVectors DEF Raise, Formed
  <2>3. QED
    BY <1>3, <1>7, <2>2
<1>8. CASE bad = NoVector
  <2>1. /\ DOMAIN s0 = {"r", "m", "fault"} /\ s0.m = s.m /\ s0.fault = s.fault
        /\ s0.r = [ s.r EXCEPT !.ss = ss0, !.sp = 0,
                               !.fl = HandlerFlags(@, gate, TRUE) ]
    BY <1>1 DEF Formed
  <2> HIDE DEF s0
  <2>2. /\ DOMAIN s0.r = Fields /\ s0.r.ss = ss0 /\ s0.r.sp = 0
        /\ s0.r.tr = s.r.tr /\ s0.r.fl = HandlerFlags(s.r.fl, gate, TRUE)
    BY <1>1, <2>1 DEF Fields
  <2>3. ~s0.r.fl.v86
    BY <1>1, <2>2, HandlerFlagsAre
  <2>4. Formed(s0)
    BY <1>1, <2>1 DEF Formed
  <2>5. /\ Formed(s1) /\ s1.fault = s.fault /\ DOMAIN s1.r = Fields
        /\ s1.r.ss = ss0 /\ s1.r.sp = 0 + 1 /\ s1.r.fl = s0.r.fl
        /\ s1.r.tr = s.r.tr
        /\ s1.m.ram = [ s.m.ram EXCEPT ![<<Index(ss0), 0 + 1>>] = f ]
    <3>1. /\ Formed(s1) /\ s1.fault = s0.fault /\ DOMAIN s1.r = Fields
          /\ s1.r.ss = s0.r.ss /\ s1.r.sp = s0.r.sp + 1 /\ s1.r.fl = s0.r.fl
          /\ s1.r.tr = s0.r.tr
          /\ s1.m.ram = [ s0.m.ram EXCEPT ![<<Index(s0.r.ss), s0.r.sp + 1>>] = f ]
      BY <1>4, <2>2, <2>4, PushKeeps, ZenonT(60)
    <3> HIDE DEF s1
    <3>2. QED
      BY <2>1, <2>2, <3>1
  <2> HIDE DEF s1
  <2>6. CodeFault(to) = NoVector /\ Rpl(to) = cpl
    BY <1>2 DEF CodeOfLevel
  <2> HIDE DEF to
  <2>7. t.fault = s.fault
    BY <2>3, <2>5, <2>6, LoadCsLoads
  <2>8. /\ Formed(t) /\ DOMAIN t.r = Fields /\ t.m = s1.m
        /\ t.r.ss = ss0 /\ t.r.fl = s0.r.fl /\ t.r.sp = 0 + 1 /\ t.r.tr = s.r.tr
    BY <2>5, LoadCsKeeps
  <2> HIDE DEF t
  <2>9. /\ u.m = t.m /\ u.fault = t.fault
        /\ u.r = [ t.r EXCEPT !.ip = 0, !.cpl = cpl ]
    BY <2>8 DEF Formed
  <2> HIDE DEF u
  <2>10. /\ u.r.cpl = cpl /\ u.r.ss = ss0 /\ u.r.sp = 1 /\ u.r.tr = s.r.tr
         /\ u.r.fl = s0.r.fl
    BY <2>8, <2>9 DEF Fields
  <2>11. u.m.ram = [ s.m.ram EXCEPT ![<<Index(u.r.ss), u.r.sp>>] = f ]
    BY <2>5, <2>8, <2>9, <2>10
  <2>12. Enters(s, u, f, ip)
    BY <1>5, <1>6, <2>3, <2>7, <2>9, <2>10, <2>11 DEF Enters
  <2>13. EnterInner(s, gate, ip) = u
    BY <1>3, <1>8
  <2>14. QED
    BY <2>12, <2>13 DEF f
<1>9. QED
  BY <1>7, <1>8

\* An interrupt through a gate that is not of a task either enters a handler or
\* ends in an exception, with nothing changed.
LEMMA IntCallEnters ==
    ASSUME NEW s, Sound(s), NEW vec, ~TaskGate(vec), NEW source, NEW ip
    PROVE  LET t == IntCall(s, vec, source, ip)
           IN  \/ t.r = s.r /\ t.m = s.m /\ t.fault # NoVector
               \/ \E f : Enters(s, t, f, ip)
<1> DEFINE gate == Idt[vec]
           bad == GateTargetFault(gate.sel, s.r.cpl)
           inner == s.r.fl.v86 \/ GateTargetCpl(gate.sel, s.r.cpl) < s.r.cpl
           t == IntCall(s, vec, source, ip)
           Refused == t.r = s.r /\ t.m = s.m /\ t.fault # NoVector
<1>1. /\ Formed(s) /\ s.r.fl \in Flags /\ s.r.cpl \in Levels
  BY DEF Sound, RegistersOK
<1>2. ASSUME NEW v \in {11, 13}, t = Raise(s, v)
      PROVE  Refused
  <2>1. Raise(s, v).r = s.r /\ Raise(s, v).m = s.m /\ Raise(s, v).fault # NoVector
    BY <1>1, RaiseIs, OwnVectors DEF Raise, Formed
  <2>2. QED
    BY <1>2, <2>1
<1>3. CASE IntFault(s, vec, source) # NoVector
  <2>1. IntFault(s, vec, source) \in {11, 13}
    BY <1>3 DEF IntFault
  <2>2. t = Raise(s, IntFault(s, vec, source))
    BY <1>3 DEF IntCall
  <2> HIDE DEF t
  <2>3. QED
    BY <1>2, <2>1, <2>2 DEF t
<1>4. CASE IntFault(s, vec, source) = NoVector
  <2>1. vec \in DOMAIN Idt /\ gate.type # "task"
    BY <1>4 DEF IntFault, NoVector, TaskGate
  <2>2. t = IF bad # NoVector THEN Raise(s, bad)
            ELSE IF inner THEN EnterInner(s, gate, ip) ELSE EnterSame(s, gate, ip)
    BY <1>4, <2>1 DEF IntCall
  <2> HIDE DEF t
  <2>3. CASE bad # NoVector
    <3>1. bad \in {11, 13}
      BY <2>3 DEF GateTargetFault, CodeFault, NoVector
    <3> HIDE DEF bad
    <3>2. QED
      BY <1>2, <2>2, <2>3, <3>1 DEF t
  <2>4. CASE bad = NoVector /\ inner
    <3>1. t = EnterInner(s, gate, ip)
      BY <2>2, <2>4
    <3>2. QED
      BY <2>4, <3>1, EnterInnerEnters DEF t
  <2>5. CASE bad = NoVector /\ ~inner
    <3> DEFINE p == GateTargetCpl(gate.sel, s.r.cpl)
    <3>1. p \in Levels /\ p <= s.r.cpl /\ CodeOfLevel(<<Index(gate.sel), p>>, p)
      BY <1>1, <2>5, GateLevel
    <3>2. p = s.r.cpl
      BY <1>1, <2>5, <3>1 DEF Levels
    <3>3. Enters(s, EnterSame(s, gate, ip), Kept(Short(Frame(s, Form(gate), ip))), ip)
      BY <2>5, <3>1, <3>2, EnterSameEnters
    <3>4. t = EnterSame(s, gate, ip)
      BY <2>2, <2>5
    <3>5. QED
      BY <3>3, <3>4 DEF t
  <2>6. QED
    BY <2>3, <2>4, <2>5
<1>5. QED
  BY <1>3, <1>4

\* So the contexts that wait stay on the stacks, with the new one above them.
LEMMA IntCallChain ==
    ASSUME NEW s, Sound(s), NEW vec, ~TaskGate(vec), NEW source, NEW ip,
           NEW calls, Chain(calls, s.r, s.m.ram)
    PROVE  LET t == IntCall(s, vec, source, ip)
           IN  Chain(With(calls, s, t, ip), t.r, t.m.ram)
<1> DEFINE t == IntCall(s, vec, source, ip)
<1>1. Sound(t)
  BY IntCallSound
<1>2. \/ t.r = s.r /\ t.m = s.m /\ t.fault # NoVector
      \/ \E f : Enters(s, t, f, ip)
  BY IntCallEnters
<1> HIDE DEF t
<1>3. CASE t.r = s.r /\ t.m = s.m
  BY <1>3 DEF With, Entered, t
<1>4. CASE \E f : Enters(s, t, f, ip)
  BY <1>1, <1>4, ChainGrows DEF t
<1>5. QED
  BY <1>2, <1>3, <1>4

-----------------------------------------------------------------------------
\* A task that is left and entered at once goes on as it was, unless it returned.
LEMMA TaskIs ==
    ASSUME NEW s, Sound(s), ~s.r.fl.v86, NEW k, NEW reason,
           TaskSwitch(s, k, reason).fault = NoVector
    PROVE  LET t == TaskSwitch(s, k, reason)
           IN  /\ t.m.ram = s.m.ram /\ t.r.tr = k /\ ~t.r.fl.v86
               /\ k = s.r.tr /\ reason # "iret" =>
                    t.r.cpl = s.r.cpl /\ t.r.ss = s.r.ss /\ t.r.sp = s.r.sp
<1> DEFINE z == TaskSwitch(s, k, reason)
           l == LeaveTask(s, k, reason)
<1>0. Formed(s) /\ DOMAIN s.r = Fields
  BY DEF Sound, RegistersOK, Fields
<1>1. TssFault(s, k) = NoVector
  BY <1>0, RaiseIs, OwnVectors DEF TaskSwitch
<1>2. k \in Tasks
  BY <1>1 DEF TssFault, Tasks, NoVector
<1>3. z = EnterTask(l, k, reason)
  BY <1>1 DEF TaskSwitch
<1>4. Formed(l) /\ l.r = s.r
  BY LeaveTaskSound
<1>5. l.m.ram = s.m.ram /\ (k = s.r.tr /\ reason # "iret" => l.m.tss[k].image = Image(s))
  <2>1. DOMAIN s = {"r", "m", "fault"} /\ DOMAIN s.m = {"ram", "tss", "busy"}
        /\ k \in DOMAIN s.m.tss
    BY <1>0, <1>2 DEF Formed, GuestOK
  <2>2. /\ l.m.ram = s.m.ram
        /\ l.m.tss[k].image = IF k = s.r.tr /\ reason # "iret" THEN Image(s) ELSE s.m.tss[k].image
    BY <2>1 DEF LeaveTask
  <2> HIDE DEF l
  <2>3. QED
    BY <2>2
<1> HIDE DEF l
<1> DEFINE t == l.m.tss[k].image
           s0 == [ l EXCEPT !.r.ip = t.ip, !.r.sp = t.sp ]
           s1 == LoadCs(s0, t.cs)
           s2 == LoadSs(s1, t.ss)
           s3 == LoadDs(s2, t.ds)
           fl == [ t.fl EXCEPT !.nt = reason \in {"call", "gate"} ]
           u == [ s3 EXCEPT !.r.tr = k, !.r.fl = fl ]
<1>6. Startable(t)
  BY <1>2, <1>4 DEF Formed, GuestOK
<1>7. k = s.r.tr /\ reason # "iret" =>
         t.cs = s.r.cs /\ t.ss = s.r.ss /\ t.sp = s.r.sp /\ t.fl = s.r.fl
  BY <1>5 DEF Image
<1>8. EnterTask(l, k, reason) =
         IF s1.fault # NoVector THEN s1 ELSE IF s2.fault # NoVector THEN s2
         ELSE IF s3.fault # NoVector THEN s3 ELSE u
  BY DEF EnterTask
<1> HIDE DEF t, z
<1>9. /\ s1.fault = NoVector /\ s2.fault = NoVector /\ s3.fault = NoVector /\ z = u
  BY <1>3, <1>8 DEF z
<1>10. /\ DOMAIN s0 = {"r", "m", "fault"} /\ s0.m = l.m /\ s0.fault = l.fault
       /\ s0.r = [ s.r EXCEPT !.ip = t.ip, !.sp = t.sp ]
  BY <1>4 DEF Formed
<1> HIDE DEF s0
<1>11. Formed(s0) /\ DOMAIN s0.r = Fields /\ s0.r.fl = s.r.fl /\ s0.r.sp = t.sp
  BY <1>0, <1>4, <1>10 DEF Formed, Fields
<1>12. CodeFault(t.cs) = NoVector /\ t.fl \in Flags /\ ~t.fl.v86
  BY <1>6 DEF Startable, CodeOfLevel
<1>13. s1.r.cs = t.cs /\ s1.r.cpl = Rpl(t.cs)
  BY <1>11, <1>12, LoadCsLoads
<1>14. /\ Formed(s1) /\ DOMAIN s1.r = Fields /\ ~s1.r.fl.v86 /\ s1.r.sp = t.sp
       /\ s1.m = s0.m
  BY <1>11, LoadCsKeeps
<1> HIDE DEF s1
<1>15. /\ Formed(s2) /\ DOMAIN s2.r = Fields /\ s2.m = s1.m
       /\ s2.r.cpl = s1.r.cpl /\ s2.r.sp = s1.r.sp /\ s2.r.ss = t.ss
  BY <1>9, <1>14, LoadSsSound
<1> HIDE DEF s2
<1>16. /\ Formed(s3) /\ DOMAIN s3.r = Fields /\ s3.m = s2.m
       /\ s3.r.cpl = s2.r.cpl /\ s3.r.sp = s2.r.sp /\ s3.r.ss = s2.r.ss
  BY <1>15, LoadDsSound
<1> HIDE DEF s3
<1>17. ~fl.v86
  BY <1>12 DEF Flags
<1> HIDE DEF fl
<1>18. u.m = s3.m /\ u.r = [ s3.r EXCEPT !.tr = k, !.fl = fl ]
  BY <1>16 DEF Formed
<1> HIDE DEF u
<1>19. /\ u.r.tr = k /\ u.r.fl = fl /\ u.r.cpl = s3.r.cpl /\ u.r.sp = s3.r.sp
       /\ u.r.ss = s3.r.ss
  BY <1>16, <1>18 DEF Fields
<1>20. z.m.ram = s.m.ram
  BY <1>5, <1>9, <1>10, <1>14, <1>15, <1>16, <1>18
<1>21. z.r.tr = k /\ ~z.r.fl.v86
  BY <1>9, <1>17, <1>19
<1>22. k = s.r.tr /\ reason # "iret" =>
          z.r.cpl = s.r.cpl /\ z.r.ss = s.r.ss /\ z.r.sp = s.r.sp
  <2>1. Rpl(s.r.cs) = s.r.cpl
    BY DEF Sound, RegistersOK, Consistent, CodeOfLevel
  <2>2. QED
    BY <1>7, <1>9, <1>13, <1>14, <1>15, <1>16, <1>19, <2>1
<1>23. QED
  BY <1>20, <1>21, <1>22 DEF z

\* A task gate leads to other registers, or to the task that it left.
LEMMA TaskChain ==
    ASSUME NEW s, Sound(s), ~s.r.fl.v86, NEW k, NEW calls,
           Chain(calls, s.r, s.m.ram),
           TaskSwitch(s, k, "gate").fault = NoVector
    PROVE  LET t == TaskSwitch(s, k, "gate")
           IN  /\ t.m.ram = s.m.ram
               /\ t.r.tr = s.r.tr => Chain(calls, t.r, t.m.ram)
<1> DEFINE t == TaskSwitch(s, k, "gate")
<1>1. /\ t.m.ram = s.m.ram /\ t.r.tr = k /\ ~t.r.fl.v86
      /\ k = s.r.tr => t.r.cpl = s.r.cpl /\ t.r.ss = s.r.ss /\ t.r.sp = s.r.sp
  BY TaskIs
<1> HIDE DEF t
<1>2. t.r.tr = s.r.tr => Chain(calls, t.r, s.m.ram)
  BY <1>1 DEF Chain, Under
<1>3. QED
  BY <1>1, <1>2 DEF t

-----------------------------------------------------------------------------
\* What a return to an outer level restores
LEMMA OuterIs ==
    ASSUME NEW s, Sound(s), NEW f,
           StackFault(f.ss, ReturnCpl(f.cs, s.r.cpl), 13, 12) = NoVector
    PROVE  LET t == ToOuter(s, f)
           IN  /\ DOMAIN t.r = Fields /\ t.fault = s.fault
               /\ t.r.cpl = ReturnCpl(f.cs, s.r.cpl) /\ t.r.cs = f.cs
               /\ t.r.ss = f.ss /\ t.r.sp = f.sp /\ t.r.ip = f.ip
               /\ t.r.tr = s.r.tr /\ t.r.fl = s.r.fl
               /\ t.m.ram = [ at \in DOMAIN s.m.ram |->
                     IF at[1] = Index(s.r.ss) THEN NoFrame ELSE s.m.ram[at] ]
<1> DEFINE cpl == ReturnCpl(f.cs, s.r.cpl)
           s0 == Abandon(s)
           s1 == [ s0 EXCEPT !.r.ss = f.ss, !.r.sp = f.sp, !.r.cs = f.cs,
                             !.r.cpl = cpl, !.r.ip = f.ip ]
           t == Cleanup(s1, cpl)
<1>1. Formed(s) /\ DOMAIN s.r = Fields
  BY DEF Sound, RegistersOK, Fields
<1>2. ToOuter(s, f) = t
  BY DEF ToOuter
<1>3. /\ Formed(s0) /\ s0.r = s.r /\ s0.fault = s.fault
      /\ s0.m.ram = [ at \in DOMAIN s.m.ram |->
            IF at[1] = Index(s.r.ss) THEN NoFrame ELSE s.m.ram[at] ]
  BY <1>1, AbandonKeeps
<1> HIDE DEF s0, cpl
<1>4. /\ DOMAIN s1 = {"r", "m", "fault"} /\ s1.m = s0.m /\ s1.fault = s0.fault
      /\ s1.r = [ s0.r EXCEPT !.ss = f.ss, !.sp = f.sp, !.cs = f.cs,
                              !.cpl = cpl, !.ip = f.ip ]
  BY <1>3 DEF Formed
<1> HIDE DEF s1
<1>5. /\ DOMAIN s1.r = Fields /\ s1.r.cpl = cpl /\ s1.r.cs = f.cs
      /\ s1.r.ss = f.ss /\ s1.r.fl = s.r.fl /\ s1.r.sp = f.sp
      /\ s1.r.ip = f.ip /\ s1.r.tr = s.r.tr
  BY <1>1, <1>3, <1>4 DEF Fields
<1>6. Formed(s1)
  BY <1>3, <1>4 DEF Formed
<1>7. /\ DOMAIN t.r = Fields /\ t.fault = s1.fault /\ t.r.cpl = cpl
      /\ t.r.cs = f.cs /\ t.r.ss = f.ss /\ t.r.fl = s.r.fl /\ t.r.sp = f.sp
      /\ t.r.ip = f.ip /\ t.r.tr = s.r.tr /\ t.m = s1.m
  BY <1>5, <1>6, CleanupIs
<1> HIDE DEF t
<1>8. QED
  BY <1>2, <1>3, <1>4, <1>7 DEF cpl

\* What a return to the same level restores
LEMMA SameIs ==
    ASSUME NEW s, Sound(s), ~s.r.fl.v86, NEW f, CodeFault(f.cs) = NoVector
    PROVE  LET t == [ LoadCs(Pop(s), f.cs) EXCEPT !.r.ip = f.ip ]
           IN  /\ DOMAIN t.r = Fields /\ t.fault = s.fault
               /\ t.r.cpl = Rpl(f.cs) /\ t.r.cs = f.cs
               /\ t.r.ss = s.r.ss /\ t.r.sp = s.r.sp - 1 /\ t.r.ip = f.ip
               /\ t.r.tr = s.r.tr /\ t.r.fl = s.r.fl
               /\ t.m.ram = [ s.m.ram EXCEPT ![<<Index(s.r.ss), s.r.sp>>] = NoFrame ]
<1> DEFINE t == Pop(s)
           u == LoadCs(t, f.cs)
           z == [ u EXCEPT !.r.ip = f.ip ]
<1>1. Formed(s) /\ DOMAIN s.r = Fields
  BY DEF Sound, RegistersOK, Fields
<1>2. /\ Formed(t) /\ t.fault = s.fault /\ DOMAIN t.r = Fields
      /\ t.r.ss = s.r.ss /\ t.r.fl = s.r.fl /\ t.r.tr = s.r.tr
      /\ t.r.sp = s.r.sp - 1
      /\ t.m.ram = [ s.m.ram EXCEPT ![<<Index(s.r.ss), s.r.sp>>] = NoFrame ]
  BY <1>1, PopKeeps
<1> HIDE DEF t
<1>3. u.fault = s.fault /\ u.r.cs = f.cs /\ u.r.cpl = Rpl(f.cs)
  BY <1>2, LoadCsLoads
<1>4. /\ Formed(u) /\ DOMAIN u.r = Fields /\ u.m = t.m
      /\ u.r.ss = s.r.ss /\ u.r.fl = s.r.fl /\ u.r.tr = s.r.tr
      /\ u.r.sp = s.r.sp - 1
  BY <1>2, LoadCsKeeps
<1> HIDE DEF u
<1>5. z.m = u.m /\ z.fault = u.fault /\ z.r = [ u.r EXCEPT !.ip = f.ip ]
  BY <1>4 DEF Formed
<1> HIDE DEF z
<1>6. /\ DOMAIN z.r = Fields /\ z.r.ip = f.ip /\ z.r.cs = u.r.cs
      /\ z.r.cpl = u.r.cpl /\ z.r.ss = u.r.ss /\ z.r.sp = u.r.sp
      /\ z.r.tr = u.r.tr /\ z.r.fl = u.r.fl
  BY <1>4, <1>5 DEF Fields
<1>7. QED
  BY <1>2, <1>3, <1>4, <1>5, <1>6 DEF z, u, t

\* What the return to virtual-8086 mode restores
LEMMA ToV86Is ==
    ASSUME NEW s, Sound(s), NEW f
    PROVE  LET t == ToV86(s, f)
           IN  /\ DOMAIN t.r = Fields
               /\ t.r.cpl = 3 /\ t.r.cs = f.cs /\ t.r.ss = f.ss /\ t.r.ds = f.ds
               /\ t.r.sp = f.sp /\ t.r.ip = f.ip
               /\ t.r.tr = s.r.tr /\ t.r.fl = f.fl
<1> DEFINE s0 == Abandon(s)
           t == ToV86(s, f)
<1>1. Formed(s0) /\ s0.r = s.r /\ DOMAIN s.r = Fields
  BY AbandonKeeps DEF Sound, RegistersOK, Fields
<1>2. t = [ s0 EXCEPT !.r.fl = f.fl, !.r.cpl = 3, !.r.cs = f.cs,
                      !.r.ss = f.ss, !.r.ds = f.ds, !.r.sp = f.sp,
                      !.r.ip = f.ip ]
  BY DEF ToV86
<1> HIDE DEF s0, t
<1>3. t.r = [ s0.r EXCEPT !.fl = f.fl, !.cpl = 3, !.cs = f.cs,
                          !.ss = f.ss, !.ds = f.ds, !.sp = f.sp, !.ip = f.ip ]
  BY <1>1, <1>2 DEF Formed
<1>4. QED
  BY <1>1, <1>3 DEF Fields, t

\* What is restored of the flags
LEMMA RestoreIs ==
    ASSUME NEW s, Formed(s), DOMAIN s.r = Fields, NEW fl, NEW cpl
    PROVE  LET t == RestoreFlags(s, fl, cpl)
           IN  /\ DOMAIN t.r = Fields /\ t.m = s.m /\ t.fault = s.fault
               /\ t.r.cpl = s.r.cpl /\ t.r.cs = s.r.cs /\ t.r.ss = s.r.ss
               /\ t.r.sp = s.r.sp /\ t.r.ip = s.r.ip /\ t.r.tr = s.r.tr
               /\ t.r.fl = [ nt   |-> fl.nt, v86 |-> s.r.fl.v86,
                    ifl  |-> IF cpl <= s.r.fl.iopl THEN fl.ifl ELSE s.r.fl.ifl,
                    iopl |-> IF cpl = 0 THEN fl.iopl ELSE s.r.fl.iopl ]
<1> DEFINE new == [ nt   |-> fl.nt, v86 |-> s.r.fl.v86,
                    ifl  |-> IF cpl <= s.r.fl.iopl THEN fl.ifl ELSE s.r.fl.ifl,
                    iopl |-> IF cpl = 0 THEN fl.iopl ELSE s.r.fl.iopl ]
           t == [ s EXCEPT !.r.fl = new ]
<1>1. RestoreFlags(s, fl, cpl) = t
  BY DEF RestoreFlags
<1> HIDE DEF new
<1>2. t.m = s.m /\ t.fault = s.fault /\ t.r = [ s.r EXCEPT !.fl = new ]
  BY DEF Formed
<1> HIDE DEF t
<1>3. /\ DOMAIN t.r = Fields /\ t.r.cpl = s.r.cpl /\ t.r.cs = s.r.cs
      /\ t.r.ss = s.r.ss /\ t.r.sp = s.r.sp /\ t.r.ip = s.r.ip
      /\ t.r.tr = s.r.tr /\ t.r.fl = new
  BY <1>2 DEF Fields
<1>4. QED
  BY <1>1, <1>2, <1>3 DEF new

\* At level 0 that is all of them.
LEMMA AllFlags ==
    ASSUME NEW old \in Flags, ~old.v86, NEW want \in Flags, ~want.v86, NEW fl,
           fl = want \/ fl = [ want EXCEPT !.v86 = FALSE ]
    PROVE  [ nt   |-> fl.nt, v86 |-> old.v86,
             ifl  |-> IF 0 <= old.iopl THEN fl.ifl ELSE old.ifl,
             iopl |-> IF 0 = 0 THEN fl.iopl ELSE old.iopl ] = want
<1>1. /\ DOMAIN want = {"ifl", "nt", "v86", "iopl"}
      /\ want = [ n \in {"ifl", "nt", "v86", "iopl"} |-> want[n] ]
      /\ want.v86 = FALSE /\ old.v86 = FALSE
  BY DEF Flags
<1>2. fl.nt = want.nt /\ fl.ifl = want.ifl /\ fl.iopl = want.iopl
  BY <1>1
<1>3. 0 <= old.iopl
  BY DEF Flags
<1> DEFINE new == [ nt   |-> fl.nt, v86 |-> old.v86, ifl |-> fl.ifl, iopl |-> fl.iopl ]
<1>4. /\ new.nt = want.nt /\ new.v86 = want.v86 /\ new.ifl = want.ifl
      /\ new.iopl = want.iopl
      /\ new = [ n \in {"ifl", "nt", "v86", "iopl"} |-> new[n] ]
  BY <1>1, <1>2
<1> HIDE DEF new
<1>5. new = want
  BY <1>1, <1>4
<1>6. QED
  BY <1>3, <1>5 DEF new

\* Registers that agree in all fields but the data segments
Agree(x, y) ==
    /\ DOMAIN x = Fields /\ DOMAIN y = Fields
    /\ x.cpl = y.cpl /\ x.cs = y.cs /\ x.ss = y.ss /\ x.sp = y.sp /\ x.ip = y.ip
    /\ x.tr = y.tr /\ x.fl = y.fl

\* When a return is not wrong
LEMMA NotWrong ==
    ASSUME NEW s, NEW t, NEW w,
           \/ s.r.cpl # 0
           \/ w.form = "int16" /\ w.r.fl.v86
           \/ Agree(t.r, w.r) /\ (w.r.fl.v86 => t.r.ds = w.r.ds)
    PROVE  Outcome(s, t, w) # "wrong"
<1>1. Agree(t.r, w.r) => [ t.r EXCEPT !.ds = Null ] = [ w.r EXCEPT !.ds = Null ]
  BY DEF Agree, Fields
<1>2. QED
  BY <1>1 DEF Outcome

-----------------------------------------------------------------------------
\* The contexts below the one that is resumed wait on.
LEMMA ChainFront ==
    ASSUME NEW calls, NEW x, NEW mem, Chain(calls, x, mem), calls # <<>>,
           NEW y, NEW mem2,
           LET w == calls[Len(calls)]
           IN  /\ y.cpl = w.r.cpl /\ y.ss = w.r.ss /\ y.sp = w.r.sp
               /\ y.tr = w.r.tr /\ ~y.fl.v86,
           \A k \in 1 .. Len(calls) - 1 : OnStack(calls[k], mem2)
    PROVE  Chain(SubSeq(calls, 1, Len(calls) - 1), y, mem2)
<1> DEFINE w == calls[Len(calls)]
           front == SubSeq(calls, 1, Len(calls) - 1)
<1>1. /\ Len(calls) \in Nat /\ Len(calls) >= 1
      /\ IsSequence(front) /\ Len(front) = Len(calls) - 1
      /\ \A n \in 1 .. Len(calls) - 1 : front[n] = calls[n]
  BY FrontIs DEF Chain
<1> HIDE DEF front
<1>2. ASSUME NEW n \in 1 .. Len(front)
      PROVE  /\ Resumable(front[n]) /\ Under(front[n], y) /\ OnStack(front[n], mem2)
             /\ front[n].r.fl.v86 => n = 1
             /\ \A k \in 1 .. (n - 1) : Under(front[k], front[n].r)
  <2>1. /\ front[n] = calls[n] /\ n \in 1 .. Len(calls)
        /\ n \in 1 .. Len(calls) - 1 /\ Len(calls) \in 1 .. Len(calls)
        /\ \A k \in 1 .. (n - 1) : front[k] = calls[k]
    BY <1>1
  <2>2. /\ Resumable(calls[n]) /\ calls[n].r.fl.v86 => n = 1
        /\ \A k \in 1 .. (n - 1) : Under(calls[k], calls[n].r)
    BY <2>1 DEF Chain
  <2>3. Under(calls[n], w.r)
    BY <2>1 DEF Chain
  <2>4. Under(calls[n], y)
    BY <2>3 DEF Under
  <2>5. Resumable(calls[n])
    BY <2>1 DEF Chain
  <2>6. QED
    BY <2>1, <2>2, <2>4, <2>5
<1>3. QED
  BY <1>1, <1>2 DEF Chain, front

\* A context of virtual-8086 mode is the only one that waits.
LEMMA GuestAlone ==
    ASSUME NEW calls, NEW x, NEW mem, Chain(calls, x, mem), calls # <<>>,
           calls[Len(calls)].r.fl.v86, NEW y, NEW mem2
    PROVE  Chain(SubSeq(calls, 1, Len(calls) - 1), y, mem2)
<1> DEFINE front == SubSeq(calls, 1, Len(calls) - 1)
<1>1. /\ Len(calls) \in Nat /\ Len(calls) >= 1
      /\ IsSequence(front) /\ Len(front) = Len(calls) - 1
  BY FrontIs DEF Chain
<1>2. Len(calls) = 1
  BY <1>1 DEF Chain
<1>3. Len(front) = 0
  BY <1>1, <1>2
<1> HIDE DEF front
<1>4. front = <<>>
  BY <1>1, <1>3 DEF IsSequence
<1>5. QED
  BY <1>4, NoChain DEF front

\* The registers that a matched IRET finds are those of the handler's stack.
LEMMA MatchIs ==
    ASSUME NEW s, Sound(s), NEW calls, Chain(calls, s.r, s.m.ram), Matches(s, calls)
    PROVE  LET w == calls[Len(calls)]
           IN  /\ calls # <<>> /\ ~s.r.fl.nt /\ ~s.r.fl.v86
               /\ Resumable(w) /\ w.ss = s.r.ss /\ w.sp = s.r.sp
               /\ Top(s) = w.frame /\ w.r.tr = s.r.tr
               /\ Rpl(w.ss) = s.r.cpl /\ s.r.cpl \in Levels /\ w.r.cpl \in Levels
               /\ \A k \in 1 .. Len(calls) - 1 :
                    /\ OnStack(calls[k], s.m.ram) /\ Under(calls[k], w.r)
                    /\ Resumable(calls[k])
<1> DEFINE w == calls[Len(calls)]
<1>1. /\ calls # <<>> /\ ~s.r.fl.nt /\ ~s.r.fl.v86
      /\ w.ss = s.r.ss /\ w.sp = s.r.sp
  BY DEF Matches
<1>2. Len(calls) \in Nat /\ Len(calls) >= 1
  BY <1>1, FrontIs DEF Chain
<1>3. Len(calls) \in 1 .. Len(calls)
  BY <1>2
<1>4. /\ Resumable(w) /\ Under(w, s.r) /\ OnStack(w, s.m.ram)
      /\ \A k \in 1 .. Len(calls) - 1 : Under(calls[k], w.r)
  BY <1>3 DEF Chain
<1>5. \A k \in 1 .. Len(calls) - 1 :
        OnStack(calls[k], s.m.ram) /\ Resumable(calls[k])
  <2>1. \A k \in 1 .. Len(calls) - 1 : k \in 1 .. Len(calls)
    BY <1>2
  <2>2. QED
    BY <2>1 DEF Chain
<1> HIDE DEF w
<1>6. Top(s) = w.frame
  BY <1>1, <1>4 DEF Top, OnStack, Place
<1>7. StackFault(s.r.ss, s.r.cpl, 13, 12) = NoVector
  BY <1>1 DEF Sound, RegistersOK, Consistent
<1>8. Rpl(w.ss) = s.r.cpl /\ s.r.cpl \in Levels
  BY <1>1, <1>7, StackOf
<1>9. w.r.tr = s.r.tr /\ w.r.cpl \in Levels
  BY <1>4 DEF Under, Resumable, RegistersOK
<1>10. QED
  BY <1>1, <1>4, <1>5, <1>6, <1>8, <1>9 DEF w

\* To virtual-8086 mode: everything is restored.
LEMMA ResumesV86 ==
    ASSUME NEW s, Sound(s), NEW w, Resumable(w), w.r.tr = s.r.tr,
           w.form = "int32", w.frame.fl.v86
    PROVE  LET t == ToV86(s, w.frame)
           IN  /\ Agree(t.r, w.r)
               /\ t.r.ds = w.r.ds
<1> DEFINE f == w.frame
           t == ToV86(s, f)
<1>1. /\ w.r.fl = f.fl /\ w.r.fl.v86 /\ f.ss = w.r.ss /\ f.sp = w.r.sp
      /\ f.cs = w.r.cs /\ f.ip = w.r.ip /\ f.ds = w.r.ds /\ DOMAIN w.r = Fields
  BY DEF Resumable, RegistersOK, Fields
<1>2. w.r.cpl = 3
  BY <1>1 DEF Resumable, RegistersOK, Consistent
<1>3. /\ DOMAIN t.r = Fields
      /\ t.r.cpl = 3 /\ t.r.cs = f.cs /\ t.r.ss = f.ss /\ t.r.ds = f.ds
      /\ t.r.sp = f.sp /\ t.r.ip = f.ip
      /\ t.r.tr = s.r.tr /\ t.r.fl = f.fl
  BY ToV86Is
<1> HIDE DEF t
<1>4. QED
  BY <1>1, <1>2, <1>3 DEF t, Agree

\* To a protected-mode context of an outer level, or of the handler's: all but
\* the flags, which only level 0 restores.
LEMMA ResumesOuter ==
    ASSUME NEW s, Sound(s), NEW w, Resumable(w), ~w.r.fl.v86, w.r.tr = s.r.tr,
           Rpl(w.ss) = s.r.cpl, s.r.cpl \in Levels,
           ReturnFault(w.frame.cs, s.r.cpl) = NoVector,
           ReturnCpl(w.frame.cs, s.r.cpl) > s.r.cpl
    PROVE  LET t == ToOuter(s, w.frame)
           IN  /\ DOMAIN t.r = Fields /\ t.fault = s.fault
               /\ t.r.cpl = w.r.cpl /\ t.r.cs = w.r.cs /\ t.r.ss = w.r.ss
               /\ t.r.sp = w.r.sp /\ t.r.ip = w.r.ip /\ t.r.tr = w.r.tr
               /\ t.r.fl = s.r.fl /\ w.r.cpl > s.r.cpl
               /\ t.m.ram = [ at \in DOMAIN s.m.ram |->
                     IF at[1] = Index(s.r.ss) THEN NoFrame ELSE s.m.ram[at] ]
<1> DEFINE f == w.frame
           p == ReturnCpl(f.cs, s.r.cpl)
<1>1. f.cs = w.r.cs /\ f.ip = w.r.ip /\ Consistent(w.r) /\ w.r.cpl \in Levels
  BY DEF Resumable, RegistersOK
<1>2. /\ CodeOfLevel(w.r.cs, w.r.cpl)
      /\ StackFault(w.r.ss, w.r.cpl, 13, 12) = NoVector
  BY <1>1 DEF Consistent
<1>3. Rpl(f.cs) = p
  BY ReturnLevel
<1>4. p = w.r.cpl
  BY <1>1, <1>2, <1>3 DEF CodeOfLevel
<1>5. f.ss = w.r.ss /\ f.sp = w.r.sp
  <2>1. ASSUME w.ss = w.r.ss PROVE FALSE
    <3>1. Rpl(w.r.ss) = w.r.cpl
      BY <1>2, StackOf
    <3>2. QED
      BY <1>1, <1>4, <2>1, <3>1 DEF Levels
  <2>2. QED
    BY <2>1 DEF Resumable
<1>6. StackFault(f.ss, p, 13, 12) = NoVector
  BY <1>2, <1>4, <1>5
<1>7. LET t == ToOuter(s, f)
      IN  /\ DOMAIN t.r = Fields /\ t.fault = s.fault
          /\ t.r.cpl = p /\ t.r.cs = f.cs
          /\ t.r.ss = f.ss /\ t.r.sp = f.sp /\ t.r.ip = f.ip
          /\ t.r.tr = s.r.tr /\ t.r.fl = s.r.fl
          /\ t.m.ram = [ at \in DOMAIN s.m.ram |->
                IF at[1] = Index(s.r.ss) THEN NoFrame ELSE s.m.ram[at] ]
  BY <1>6, OuterIs
<1>8. p > s.r.cpl
  OBVIOUS
<1> HIDE DEF p
<1>9. QED
  BY <1>1, <1>4, <1>5, <1>7, <1>8

\* Likewise at the handler's own level
LEMMA ResumesSame ==
    ASSUME NEW s, Sound(s), ~s.r.fl.v86, NEW w, Resumable(w), ~w.r.fl.v86,
           w.r.tr = s.r.tr, w.ss = s.r.ss, w.sp = s.r.sp,
           Rpl(w.ss) = s.r.cpl, s.r.cpl \in Levels,
           ReturnFault(w.frame.cs, s.r.cpl) = NoVector,
           ~(ReturnCpl(w.frame.cs, s.r.cpl) > s.r.cpl)
    PROVE  LET t == [ LoadCs(Pop(s), w.frame.cs) EXCEPT !.r.ip = w.frame.ip ]
           IN  /\ DOMAIN t.r = Fields /\ t.fault = s.fault
               /\ t.r.cpl = w.r.cpl /\ t.r.cs = w.r.cs /\ t.r.ss = w.r.ss
               /\ t.r.sp = w.r.sp /\ t.r.ip = w.r.ip /\ t.r.tr = w.r.tr
               /\ t.r.fl = s.r.fl /\ w.r.ss = w.ss /\ w.r.sp + 1 = w.sp
               /\ t.m.ram = [ s.m.ram EXCEPT ![Place(w)] = NoFrame ]
<1> DEFINE f == w.frame
           p == ReturnCpl(f.cs, s.r.cpl)
           t == [ LoadCs(Pop(s), f.cs) EXCEPT !.r.ip = f.ip ]
<1>1. /\ f.cs = w.r.cs /\ f.ip = w.r.ip /\ Consistent(w.r) /\ w.r.cpl \in Levels
      /\ w.r.sp \in Int
  BY DEF Resumable, RegistersOK
<1>2. CodeOfLevel(w.r.cs, w.r.cpl)
  BY <1>1 DEF Consistent
<1>3. p \in Levels /\ p >= s.r.cpl /\ Rpl(f.cs) = p /\ CodeFault(f.cs) = NoVector
  BY ReturnLevel
<1>4. p = w.r.cpl
  BY <1>1, <1>2, <1>3 DEF CodeOfLevel
<1>5. p = s.r.cpl
  BY <1>3 DEF Levels
<1>6. w.ss = w.r.ss /\ w.sp = w.r.sp + 1
  <2>1. ~(Rpl(w.ss) < w.r.cpl)
    BY <1>4, <1>5 DEF Levels
  <2>2. QED
    BY <2>1 DEF Resumable
<1>7. /\ DOMAIN t.r = Fields /\ t.fault = s.fault
      /\ t.r.cpl = Rpl(f.cs) /\ t.r.cs = f.cs
      /\ t.r.ss = s.r.ss /\ t.r.sp = s.r.sp - 1 /\ t.r.ip = f.ip
      /\ t.r.tr = s.r.tr /\ t.r.fl = s.r.fl
      /\ t.m.ram = [ s.m.ram EXCEPT ![<<Index(s.r.ss), s.r.sp>>] = NoFrame ]
  BY <1>3, SameIs
<1> HIDE DEF t
<1>8. t.r.sp = w.r.sp
  <2>1. t.r.sp = s.r.sp - 1
    BY <1>7
  <2>2. s.r.sp = w.r.sp + 1
    BY <1>6
  <2>3. w.r.sp \in Int
    BY <1>1
  <2> HIDE DEF f, p
  <2>4. QED
    BY <2>1, <2>2, <2>3
<1>9. Place(w) = <<Index(s.r.ss), s.r.sp>>
  BY DEF Place
<1> HIDE DEF p
<1>10. /\ t.r.cpl = w.r.cpl /\ t.r.cs = w.r.cs /\ t.r.ss = w.r.ss
       /\ t.r.ip = w.r.ip /\ t.r.tr = w.r.tr /\ w.r.ss = w.ss
  BY <1>1, <1>3, <1>4, <1>6, <1>7
<1>11. w.r.sp + 1 = w.sp /\ t.m.ram = [ s.m.ram EXCEPT ![Place(w)] = NoFrame ]
  BY <1>6, <1>7, <1>9
<1>12. QED
  BY <1>7, <1>8, <1>10, <1>11 DEF t

\* With the flags, if level 0 returns, the context is there again.
LEMMA FlagsToo ==
    ASSUME NEW u, Formed(u), u.r.fl \in Flags, ~u.r.fl.v86,
           DOMAIN u.r = Fields, NEW w, Resumable(w), ~w.r.fl.v86,
           u.r.cpl = w.r.cpl, u.r.cs = w.r.cs, u.r.ss = w.r.ss,
           u.r.sp = w.r.sp, u.r.ip = w.r.ip, u.r.tr = w.r.tr, NEW cpl
    PROVE  LET t == RestoreFlags(u, w.frame.fl, cpl)
           IN  /\ t.m = u.m
               /\ t.r.cpl = w.r.cpl /\ t.r.ss = w.r.ss /\ t.r.sp = w.r.sp
               /\ t.r.tr = w.r.tr /\ ~t.r.fl.v86
               /\ cpl = 0 => Agree(t.r, w.r)
<1> DEFINE fl == w.frame.fl
           t == RestoreFlags(u, fl, cpl)
<1>1. /\ w.r.fl \in Flags /\ DOMAIN w.r = Fields
      /\ fl = w.r.fl \/ fl = [ w.r.fl EXCEPT !.v86 = FALSE ]
  BY DEF Resumable, RegistersOK, Fields
<1> HIDE DEF fl
<1>2. /\ DOMAIN t.r = Fields /\ t.m = u.m
      /\ t.r.cpl = u.r.cpl /\ t.r.cs = u.r.cs /\ t.r.ss = u.r.ss
      /\ t.r.sp = u.r.sp /\ t.r.ip = u.r.ip /\ t.r.tr = u.r.tr
      /\ t.r.fl = [ nt   |-> fl.nt, v86 |-> u.r.fl.v86,
           ifl  |-> IF cpl <= u.r.fl.iopl THEN fl.ifl ELSE u.r.fl.ifl,
           iopl |-> IF cpl = 0 THEN fl.iopl ELSE u.r.fl.iopl ]
  BY RestoreIs
<1> HIDE DEF t
<1>3. ~t.r.fl.v86
  BY <1>2
<1>4. ASSUME cpl = 0 PROVE Agree(t.r, w.r)
  <2>1. t.r.fl = w.r.fl
    BY <1>1, <1>2, <1>4, AllFlags
  <2>2. QED
    BY <1>1, <1>2, <2>1 DEF Agree
<1>5. QED
  BY <1>2, <1>3, <1>4 DEF t, fl

-----------------------------------------------------------------------------
\* Frames of other stacks and below are still there.
LEMMA OthersOnStack ==
    ASSUME NEW w, NEW v, Resumable(w), Resumable(v), Under(v, w.r), NEW mem,
           OnStack(v, mem), NEW mem2,
           \/ /\ Rpl(w.ss) \in Levels /\ w.r.cpl > Rpl(w.ss) /\ w.r.cpl \in Levels
              /\ mem2 = [ at \in DOMAIN mem |->
                            IF at[1] = Index(w.ss) THEN NoFrame ELSE mem[at] ]
           \/ /\ w.r.ss = w.ss /\ w.r.sp + 1 = w.sp
              /\ mem2 = [ mem EXCEPT ![Place(w)] = NoFrame ]
    PROVE  OnStack(v, mem2)
<1>1. CASE /\ Rpl(w.ss) \in Levels /\ w.r.cpl > Rpl(w.ss) /\ w.r.cpl \in Levels
           /\ mem2 = [ at \in DOMAIN mem |->
                         IF at[1] = Index(w.ss) THEN NoFrame ELSE mem[at] ]
  <2>1. /\ D(w.ss).dpl = Rpl(w.ss) /\ D(v.ss).dpl = Rpl(v.ss) /\ Rpl(v.ss) \in Levels
    BY StackOf DEF Resumable
  <2>2. Rpl(v.ss) >= w.r.cpl
    BY DEF Under
  <2>3. D(v.ss).dpl # D(w.ss).dpl
    BY <1>1, <2>1, <2>2 DEF Levels
  <2>4. Index(v.ss) # Index(w.ss)
    BY <2>3 DEF D
  <2>5. Place(v)[1] = Index(v.ss)
    BY DEF Place
  <2>6. QED
    BY <1>1, <2>4, <2>5 DEF OnStack
<1>2. CASE /\ w.r.ss = w.ss /\ w.r.sp + 1 = w.sp
           /\ mem2 = [ mem EXCEPT ![Place(w)] = NoFrame ]
  <2>1. v.sp \in Int /\ w.r.sp \in Int
    BY DEF Resumable, RegistersOK
  <2>2. Index(v.ss) = Index(w.ss) => v.sp <= w.r.sp
    BY <1>2 DEF Under
  <2>3. Place(v) # Place(w)
    BY <1>2, <2>1, <2>2 DEF Place
  <2>4. QED
    BY <1>2, <2>3 DEF OnStack
<1>3. QED
  BY <1>1, <1>2

\* An IRET from a handler resumes the context that waits for it.
LEMMA IretReturns ==
    ASSUME NEW s, Sound(s), NEW calls, Chain(calls, s.r, s.m.ram), Matches(s, calls),
           Iret(s, Top(s)).fault = NoVector
    PROVE  LET t == Iret(s, Top(s))
           IN  /\ Chain(SubSeq(calls, 1, Len(calls) - 1), t.r, t.m.ram)
               /\ Outcome(s, t, calls[Len(calls)]) # "wrong"
<1> DEFINE w == calls[Len(calls)]
           f == w.frame
           t == Iret(s, f)
           front == SubSeq(calls, 1, Len(calls) - 1)
<1>1. /\ calls # <<>> /\ ~s.r.fl.nt /\ ~s.r.fl.v86
      /\ Resumable(w) /\ w.ss = s.r.ss /\ w.sp = s.r.sp
      /\ Top(s) = f /\ w.r.tr = s.r.tr
      /\ Rpl(w.ss) = s.r.cpl /\ s.r.cpl \in Levels /\ w.r.cpl \in Levels
      /\ \A k \in 1 .. Len(calls) - 1 :
           OnStack(calls[k], s.m.ram) /\ Under(calls[k], w.r) /\ Resumable(calls[k])
  BY MatchIs
<1>2. Formed(s) /\ t.fault = NoVector
  BY <1>1 DEF Sound
<1>3. /\ f.form \in {"int16", "int32"} /\ f.form = w.form
      /\ f.fl = IF w.form = "int16" THEN [ w.r.fl EXCEPT !.v86 = FALSE ] ELSE w.r.fl
  BY <1>1 DEF Resumable
<1>4. f.fl \in Flags /\ f.sp \in Int
  <2>1. Framed(f)
    BY <1>1, <1>2, TopFramed
  <2>2. QED
    BY <1>3, <2>1 DEF Framed
<1>5. ASSUME w.r.fl.v86
      PROVE  Chain(front, t.r, t.m.ram)
  BY <1>1, <1>5, GuestAlone
<1>6. \A v \in {11, 13} : t # Raise(s, v)
  BY <1>2, RaiseIs, OwnVectors
<1> HIDE DEF f
<1>7. t = IF f.form = "int32" /\ f.fl.v86
          THEN IF s.r.cpl # 0 THEN Raise(s, 13) ELSE ToV86(s, f)
          ELSE IF ReturnFault(f.cs, s.r.cpl) # NoVector
          THEN Raise(s, ReturnFault(f.cs, s.r.cpl))
          ELSE IF ReturnCpl(f.cs, s.r.cpl) > s.r.cpl THEN IretOuter(s, f)
          ELSE IretSame(s, f)
  BY <1>1 DEF Iret
<1> HIDE DEF t, w, front
<1>8. Chain(front, t.r, t.m.ram) /\ Outcome(s, t, w) # "wrong"
  <2>1. CASE f.form = "int32" /\ f.fl.v86
    <3>1. t = ToV86(s, f)
      BY <1>6, <1>7, <2>1
    <3>2. w.r.fl.v86
      BY <1>3, <2>1
    <3>3. /\ Agree(t.r, w.r)
          /\ t.r.ds = w.r.ds
      <4>1. Resumable(w) /\ w.r.tr = s.r.tr
        BY <1>1
      <4>2. w.form = "int32" /\ w.frame.fl.v86
        BY <1>3, <2>1 DEF f
      <4>3. /\ Agree(ToV86(s, w.frame).r, w.r)
            /\ ToV86(s, w.frame).r.ds = w.r.ds
        BY <4>1, <4>2, ResumesV86
      <4>4. QED
        BY <3>1, <4>3 DEF f
    <3>4. QED
      BY <1>5, <3>2, <3>3, NotWrong
  <2>2. CASE ~(f.form = "int32" /\ f.fl.v86)
    <3>1. ReturnFault(f.cs, s.r.cpl) = NoVector
      BY <1>6, <1>7, <2>2, ReturnFaults
    <3>2. CASE w.r.fl.v86
      <4>1. w.form = "int16"
        BY <1>3, <2>2, <3>2
      <4>2. QED
        BY <1>5, <3>2, <4>1, NotWrong
    <3>3. CASE ~w.r.fl.v86 /\ ReturnCpl(f.cs, s.r.cpl) > s.r.cpl
      <4> DEFINE u == ToOuter(s, f)
      <4>1. Sound(u)
        BY <1>1, <1>4, <3>1, ToOuterSound
      <4>2. /\ DOMAIN u.r = Fields /\ u.fault = s.fault
            /\ u.r.cpl = w.r.cpl /\ u.r.cs = w.r.cs /\ u.r.ss = w.r.ss
            /\ u.r.sp = w.r.sp /\ u.r.ip = w.r.ip /\ u.r.tr = w.r.tr
            /\ u.r.fl = s.r.fl /\ w.r.cpl > s.r.cpl
            /\ u.m.ram = [ at \in DOMAIN s.m.ram |->
                  IF at[1] = Index(s.r.ss) THEN NoFrame ELSE s.m.ram[at] ]
        BY <1>1, <3>1, <3>3, ResumesOuter DEF f
      <4> HIDE DEF u
      <4>3. t = RestoreFlags(u, f.fl, s.r.cpl)
        BY <1>7, <2>2, <3>1, <3>3, <4>2 DEF IretOuter, u
      <4>4. /\ Formed(u) /\ u.r.fl \in Flags /\ ~u.r.fl.v86
        BY <1>1, <4>1, <4>2 DEF Sound, RegistersOK
      <4>5. /\ t.m = u.m
            /\ t.r.cpl = w.r.cpl /\ t.r.ss = w.r.ss /\ t.r.sp = w.r.sp
            /\ t.r.tr = w.r.tr /\ ~t.r.fl.v86
            /\ s.r.cpl = 0 => Agree(t.r, w.r)
        <5> DEFINE v == RestoreFlags(u, w.frame.fl, s.r.cpl)
        <5>1. /\ Resumable(w) /\ ~w.r.fl.v86 /\ DOMAIN u.r = Fields
              /\ u.r.cpl = w.r.cpl /\ u.r.cs = w.r.cs /\ u.r.ss = w.r.ss
              /\ u.r.sp = w.r.sp /\ u.r.ip = w.r.ip /\ u.r.tr = w.r.tr
          BY <1>1, <3>3, <4>2
        <5>2. /\ v.m = u.m
              /\ v.r.cpl = w.r.cpl /\ v.r.ss = w.r.ss /\ v.r.sp = w.r.sp
              /\ v.r.tr = w.r.tr /\ ~v.r.fl.v86
              /\ s.r.cpl = 0 => Agree(v.r, w.r)
          BY <4>4, <5>1, FlagsToo
        <5>3. t = v
          BY <4>3 DEF f
        <5> HIDE DEF v
        <5>4. QED
          BY <5>2, <5>3
      <4>6. \A k \in 1 .. Len(calls) - 1 : OnStack(calls[k], t.m.ram)
        BY <1>1, <4>2, <4>5, OthersOnStack
      <4>7. Chain(front, t.r, t.m.ram)
        BY <1>1, <4>5, <4>6, ChainFront DEF w, front
      <4>8. QED
        BY <3>3, <4>5, <4>7, NotWrong
    <3>4. CASE ~w.r.fl.v86 /\ ~(ReturnCpl(f.cs, s.r.cpl) > s.r.cpl)
      <4> DEFINE u == [ LoadCs(Pop(s), f.cs) EXCEPT !.r.ip = f.ip ]
      <4>1. Sound(u)
        BY <1>1, <3>1, <3>4, ReturnSameSound
      <4>2. /\ DOMAIN u.r = Fields /\ u.fault = s.fault
            /\ u.r.cpl = w.r.cpl /\ u.r.cs = w.r.cs /\ u.r.ss = w.r.ss
            /\ u.r.sp = w.r.sp /\ u.r.ip = w.r.ip /\ u.r.tr = w.r.tr
            /\ u.r.fl = s.r.fl /\ w.r.ss = w.ss /\ w.r.sp + 1 = w.sp
            /\ u.m.ram = [ s.m.ram EXCEPT ![Place(w)] = NoFrame ]
        BY <1>1, <3>1, <3>4, ResumesSame DEF f
      <4>3. t = RestoreFlags(u, f.fl, s.r.cpl)
        BY <1>7, <2>2, <3>1, <3>4 DEF IretSame
      <4> HIDE DEF u
      <4>4. /\ Formed(u) /\ u.r.fl \in Flags /\ ~u.r.fl.v86
        BY <1>1, <4>1, <4>2 DEF Sound, RegistersOK
      <4>5. /\ t.m = u.m
            /\ t.r.cpl = w.r.cpl /\ t.r.ss = w.r.ss /\ t.r.sp = w.r.sp
            /\ t.r.tr = w.r.tr /\ ~t.r.fl.v86
            /\ s.r.cpl = 0 => Agree(t.r, w.r)
        <5> DEFINE v == RestoreFlags(u, w.frame.fl, s.r.cpl)
        <5>1. /\ Resumable(w) /\ ~w.r.fl.v86 /\ DOMAIN u.r = Fields
              /\ u.r.cpl = w.r.cpl /\ u.r.cs = w.r.cs /\ u.r.ss = w.r.ss
              /\ u.r.sp = w.r.sp /\ u.r.ip = w.r.ip /\ u.r.tr = w.r.tr
          BY <1>1, <3>4, <4>2
        <5>2. /\ v.m = u.m
              /\ v.r.cpl = w.r.cpl /\ v.r.ss = w.r.ss /\ v.r.sp = w.r.sp
              /\ v.r.tr = w.r.tr /\ ~v.r.fl.v86
              /\ s.r.cpl = 0 => Agree(v.r, w.r)
          BY <4>4, <5>1, FlagsToo
        <5>3. t = v
          BY <4>3 DEF f
        <5> HIDE DEF v
        <5>4. QED
          BY <5>2, <5>3
      <4>6. \A k \in 1 .. Len(calls) - 1 : OnStack(calls[k], t.m.ram)
        BY <1>1, <4>2, <4>5, OthersOnStack
      <4>7. Chain(front, t.r, t.m.ram)
        BY <1>1, <4>5, <4>6, ChainFront DEF w, front
      <4>8. QED
        BY <3>4, <4>5, <4>7, NotWrong
    <3>5. QED
      BY <3>2, <3>3, <3>4
  <2>3. QED
    BY <2>1, <2>2
<1>9. t = Iret(s, Top(s))
  BY <1>1 DEF t
<1>10. QED
  BY <1>8, <1>9 DEF front, w

-----------------------------------------------------------------------------
\* INT, through a gate of any kind
LEMMA IntChain ==
    ASSUME NEW s, Sound(s), NEW vec, TaskGate(vec) => ~s.r.fl.v86, NEW ip,
           NEW calls, Chain(calls, s.r, s.m.ram),
           IntCall(s, vec, "software", ip).fault = NoVector
    PROVE  LET t == IntCall(s, vec, "software", ip)
           IN  Chain(With(calls, s, t, ip), t.r, t.m.ram)
<1>1. CASE ~TaskGate(vec)
  BY <1>1, IntCallChain
<1>2. CASE TaskGate(vec)
  <2> DEFINE t == IntCall(s, vec, "software", ip)
             k == Index(Idt[vec].sel)
  <2>1. Formed(s) /\ t.fault = NoVector
    BY DEF Sound
  <2>2. IntFault(s, vec, "software") \in {NoVector, 11, 13}
    BY DEF IntFault
  <2>3. IntFault(s, vec, "software") = NoVector
    BY <2>1, <2>2, RaiseIs, OwnVectors DEF IntCall
  <2>4. t = TaskSwitch(s, k, "gate")
    BY <1>2, <2>3 DEF IntCall, TaskGate
  <2> HIDE DEF t
  <2>5. t.m.ram = s.m.ram /\ (t.r.tr = s.r.tr => Chain(calls, t.r, t.m.ram))
    BY <1>2, <2>1, <2>4, TaskChain
  <2>6. CASE t.r.tr = s.r.tr
    BY <2>5, <2>6 DEF With, Entered, t
  <2>7. CASE t.r.tr # s.r.tr
    BY <2>5, <2>7, NoChain DEF With, Entered, t
  <2>8. QED
    BY <2>6, <2>7
<1>3. QED
  BY <1>1, <1>2

\* An instruction that does not fault leaves a chain, and an IRET from a handler
\* the context that it interrupted.
LEMMA ExecChain ==
    ASSUME TasksApart, guest \in Guests, NEW s, Sound(s), NEW k \in guest.ops,
           NEW calls, Chain(calls, s.r, s.m.ram), Exec(s, k).fault = NoVector
    PROVE  LET t == Exec(s, k)
           IN  /\ Chain(Calls(s, k, t, calls), t.r, t.m.ram)
               /\ k.op = "iret" /\ Matches(s, calls) =>
                    Outcome(s, t, calls[Len(calls)]) # "wrong"
<1> DEFINE n == [ s EXCEPT !.r.ip = 1 - @ ]
           t == Exec(s, k)
           q == Calls(s, k, t, calls)
<1>0. Formed(s) /\ DOMAIN s.r = Fields /\ RegistersOK(s.r)
  BY DEF Sound, RegistersOK, Fields
<1>1. /\ Sound(n) /\ Formed(n) /\ n.m = s.m /\ n.r = [ s.r EXCEPT !.ip = 1 - s.r.ip ]
      /\ DOMAIN n.r = Fields /\ n.r.ip = 1 - s.r.ip
      /\ n.r.cpl = s.r.cpl /\ n.r.ss = s.r.ss /\ n.r.sp = s.r.sp
      /\ n.r.tr = s.r.tr /\ n.r.fl = s.r.fl
  <2> DEFINE u == [ s EXCEPT !.r.ip = 1 - s.r.ip ]
  <2>1. /\ Formed(u) /\ u.m = s.m /\ u.r.ss = s.r.ss /\ u.r.fl = s.r.fl
        /\ DOMAIN u.r = Fields /\ u.r.cpl = s.r.cpl
        /\ u.r.sp = s.r.sp /\ u.r.tr = s.r.tr /\ RegistersOK(u.r)
    BY <1>0, SetIp
  <2>2. u.r = [ s.r EXCEPT !.ip = 1 - s.r.ip ]
    BY <1>0 DEF Formed
  <2>3. u.r.ip = 1 - s.r.ip
    BY <1>0, <2>2 DEF Fields
  <2>4. n = u
    OBVIOUS
  <2> HIDE DEF n, u
  <2>5. QED
    BY <2>1, <2>2, <2>3, <2>4 DEF Sound
<1>2. Chain(calls, n.r, n.m.ram)
  BY <1>1, ChainOf
<1>3. t.fault = NoVector
  OBVIOUS
<1>4. k.op \in Operations
  BY TablesAssumption
<1>5. CASE k.op = "int"
  <2>1. t = IntCall(n, k.vec, "software", n.r.ip)
    BY <1>5 DEF Exec
  <2> HIDE DEF n, t
  <2>2. TaskGate(k.vec) => ~n.r.fl.v86
    BY <1>1, <1>5 DEF TasksApart, Sound, RegistersOK
  <2>3. Chain(With(calls, n, t, n.r.ip), t.r, t.m.ram)
    BY <1>1, <1>2, <1>3, <2>1, <2>2, IntChain
  <2>4. Context(n, t, n.r.ip) = Context(s, t, 1 - s.r.ip)
    <3> DEFINE d == Top(t).ds
               j == 1 - s.r.ip
    <3>1. [ n.r EXCEPT !.ip = n.r.ip, !.ds = d ] = [ s.r EXCEPT !.ip = j, !.ds = d ]
      <4> HIDE DEF d, j
      <4>1. n.r = [ s.r EXCEPT !.ip = j ] /\ n.r.ip = j
        BY <1>1 DEF j
      <4>2. QED
        BY <1>0, <4>1 DEF Fields
    <3>2. QED
      BY <3>1 DEF Context
  <2>5. With(calls, n, t, n.r.ip) = With(calls, s, t, 1 - s.r.ip)
    BY <1>1, <2>4 DEF With, Entered
  <2>6. q = With(calls, s, t, 1 - s.r.ip)
    BY <1>5 DEF Calls
  <2>7. QED
    BY <1>5, <2>3, <2>5, <2>6 DEF t
<1>6. CASE k.op = "iret"
  <2>1. t = Iret(n, Top(n))
    BY <1>6 DEF Exec
  <2> HIDE DEF n, t
  <2>2. q = IF Matches(s, calls) THEN SubSeq(calls, 1, Len(calls) - 1) ELSE <<>>
    BY <1>6 DEF Calls
  <2>3. CASE ~Matches(s, calls)
    BY <2>2, <2>3, NoChain DEF t
  <2>4. CASE Matches(s, calls)
    <3>1. Matches(n, calls)
      BY <1>1, <2>4 DEF Matches
    <3>2. /\ Chain(SubSeq(calls, 1, Len(calls) - 1), t.r, t.m.ram)
          /\ Outcome(n, t, calls[Len(calls)]) # "wrong"
      BY <1>1, <1>2, <1>3, <2>1, <3>1, IretReturns
    <3>3. Outcome(n, t, calls[Len(calls)]) = Outcome(s, t, calls[Len(calls)])
      BY <1>1 DEF Outcome
    <3>4. QED
      BY <2>2, <2>4, <3>2, <3>3 DEF t
  <2>5. QED
    BY <2>3, <2>4
<1>7. CASE k.op = "nop"
  <2>1. t = n
    BY <1>7 DEF Exec
  <2> HIDE DEF n, t
  <2>2. q = calls
    BY <1>7 DEF Calls
  <2>3. QED
    BY <1>2, <1>7, <2>1, <2>2 DEF t
<1>8. CASE k.op = "fault"
  <2>1. t = Raise(n, k.vec)
    BY <1>8 DEF Exec
  <2> HIDE DEF n, t
  <2>2. k.vec \in Raised(guest) /\ k.vec # NoVector
    BY <1>8, TablesAssumption DEF Raised
  <2>3. QED
    BY <1>1, <1>3, <2>1, <2>2, RaiseIs
<1>9. CASE k.op = "movds"
  <2>1. t = LoadDs(n, k.sel)
    BY <1>9 DEF Exec
  <2> HIDE DEF n, t
  <2>2. /\ t.m = n.m /\ t.r.cpl = n.r.cpl /\ t.r.ss = n.r.ss
        /\ t.r.fl = n.r.fl /\ t.r.tr = n.r.tr /\ t.r.sp = n.r.sp
    BY <1>1, <2>1, LoadDsSound, ZenonT(60)
  <2>3. Chain(calls, t.r, t.m.ram)
    BY <1>2, <2>2, ChainOf
  <2>4. q = calls
    BY <1>9 DEF Calls
  <2>5. QED
    BY <1>9, <2>3, <2>4 DEF t
<1>10. CASE k.op = "popf"
  <2>1. t = PopF(n, k.fl)
    BY <1>10 DEF Exec
  <2> HIDE DEF n, t
  <2>2. t = RestoreFlags(n, k.fl, n.r.cpl)
    BY <1>1, <1>3, <2>1, RaiseIs, OwnVectors DEF PopF
  <2>3. /\ t.m = n.m /\ t.r.cpl = n.r.cpl /\ t.r.ss = n.r.ss
        /\ t.r.tr = n.r.tr /\ t.r.sp = n.r.sp /\ t.r.fl.v86 = n.r.fl.v86
    <3> DEFINE fl == k.fl
               u == RestoreFlags(n, fl, n.r.cpl)
    <3> HIDE DEF fl
    <3>1. /\ u.m = n.m /\ u.r.cpl = n.r.cpl /\ u.r.ss = n.r.ss
          /\ u.r.tr = n.r.tr /\ u.r.sp = n.r.sp
          /\ u.r.fl = [ nt   |-> fl.nt, v86 |-> n.r.fl.v86,
               ifl  |-> IF n.r.cpl <= n.r.fl.iopl THEN fl.ifl ELSE n.r.fl.ifl,
               iopl |-> IF n.r.cpl = 0 THEN fl.iopl ELSE n.r.fl.iopl ]
      <4> DEFINE cpl == n.r.cpl
      <4>1. Formed(n) /\ DOMAIN n.r = Fields
        BY <1>1
      <4> HIDE DEF cpl
      <4>2. LET t1 == RestoreFlags(n, fl, cpl)
            IN  /\ DOMAIN t1.r = Fields /\ t1.m = n.m /\ t1.fault = n.fault
                /\ t1.r.cpl = n.r.cpl /\ t1.r.cs = n.r.cs /\ t1.r.ss = n.r.ss
                /\ t1.r.sp = n.r.sp /\ t1.r.ip = n.r.ip /\ t1.r.tr = n.r.tr
                /\ t1.r.fl = [ nt   |-> fl.nt, v86 |-> n.r.fl.v86,
                     ifl  |-> IF cpl <= n.r.fl.iopl THEN fl.ifl ELSE n.r.fl.ifl,
                     iopl |-> IF cpl = 0 THEN fl.iopl ELSE n.r.fl.iopl ]
        BY <4>1, RestoreIs
      <4>3. QED
        BY <4>2 DEF cpl
    <3>2. t = u
      BY <2>2 DEF fl
    <3> HIDE DEF u
    <3>3. t.r.fl.v86 = n.r.fl.v86
      BY <3>1, <3>2
    <3>4. QED
      BY <3>1, <3>2, <3>3
  <2>4. Chain(calls, t.r, t.m.ram)
    BY <1>2, <2>3, ChainOf
  <2>5. q = calls
    BY <1>10 DEF Calls
  <2>6. QED
    BY <1>10, <2>4, <2>5 DEF t
<1>11. CASE k.op \notin {"int", "iret", "nop", "fault", "movds", "popf"}
  <2> HIDE DEF n, t
  <2>1. q = <<>>
    BY <1>11 DEF Calls
  <2>2. QED
    BY <1>11, <2>1, NoChain DEF t
<1>12. QED
  BY <1>5, <1>6, <1>7, <1>8, <1>9, <1>10, <1>11

-----------------------------------------------------------------------------
(* The loop                                                                *)

\* What the theorems about handlers need beside ProtectionInv
CallsInv == Chain(waiting, r, m.ram) /\ returned # "wrong"

\* An interrupt, an instruction, and the exception that it may have raised; the
\* first instruction after an interrupt raises none.
LEMMA IterationChain ==
    ASSUME TasksApart, ~HandlerMayFault, ProtectionInv, CallsInv,
           NEW irq \in Irqs \cup {NoIrq}, NEW k \in guest.ops, Iteration(irq, k),
           UNCHANGED guest
    PROVE  CallsInv'
<1> DEFINE s0 == [ r |-> r, m |-> m, fault |-> NoVector ]
           s1 == IF irq = NoIrq THEN s0
                 ELSE IntCall(s0, irq, "hardware", r.ip)
           s2 == Exec(s1, k)
           faulted == s2.fault # NoVector
           back == Rollback(s0, s1, s2)
           s3 == Delivered(s0, s1, s2)
           calls1 == IF irq = NoIrq THEN waiting ELSE With(waiting, s0, s1, s0.r.ip)
<1>1. /\ guest \in Guests /\ s0.m = m /\ s0.r = r /\ s0.fault = NoVector
      /\ GuestOK(m) /\ Sound(s0)
  BY DEF ProtectionInv, Sound, Formed, Faults
<1>2. /\ r' = s3.r /\ m' = s3.m /\ Runnable(s1, k)
      /\ irq # NoIrq => s2.fault = s1.fault
      /\ waiting' = IF faulted THEN With(calls1, back, s3, s1.r.ip)
                    ELSE Calls(s1, k, s2, calls1)
      /\ returned' = IF k.op = "iret" /\ ~faulted /\ Matches(s1, calls1)
                     THEN Outcome(s1, s2, calls1[Len(calls1)]) ELSE "none"
  BY DEF Iteration, Ends
<1>3. irq # NoIrq => ~TaskGate(irq)
  BY DEF TasksApart
<1>4. Chain(waiting, s0.r, s0.m.ram)
  BY <1>1 DEF CallsInv
<1> HIDE DEF s0, s3
<1>5. Sound(s1)
  BY <1>1, <1>3, IntCallSound
<1>6. Chain(calls1, s1.r, s1.m.ram)
  <2>1. CASE irq = NoIrq
    BY <1>4, <2>1
  <2>2. CASE irq # NoIrq
    BY <1>1, <1>3, <1>4, <2>2, IntCallChain
  <2>3. QED
    BY <2>1, <2>2
<1>7. s1.fault # NoVector => s1.r = s0.r /\ s1.m = s0.m
  <2>1. CASE irq = NoIrq
    BY <2>1
  <2>2. CASE irq # NoIrq
    <3> DEFINE t == IntCall(s0, irq, "hardware", r.ip)
    <3>1. \/ t.r = s0.r /\ t.m = s0.m /\ t.fault # NoVector
          \/ \E f : Enters(s0, t, f, r.ip)
      BY <1>1, <1>3, <2>2, IntCallEnters
    <3>2. s1 = t
      BY <2>2
    <3> HIDE DEF t, s1
    <3>3. QED
      BY <1>1, <3>1, <3>2 DEF Enters
  <2>3. QED
    BY <2>1, <2>2
<1>8. faulted => s1.r = s0.r /\ s1.m = s0.m
  <2>1. irq = NoIrq => s1 = s0
    OBVIOUS
  <2> HIDE DEF s1, s2
  <2>2. QED
    BY <1>2, <1>7, <2>1
<1> HIDE DEF calls1
<1> HIDE DEF s1
<1>9. OrFails(s2)
  BY <1>1, <1>2, <1>5, ExecSound
<1>10. CASE ~faulted
  <2>1. s3 = s2
    BY <1>10 DEF s3, Delivered
  <2>2. /\ Chain(Calls(s1, k, s2, calls1), s2.r, s2.m.ram)
        /\ k.op = "iret" /\ Matches(s1, calls1) =>
             Outcome(s1, s2, calls1[Len(calls1)]) # "wrong"
    BY <1>1, <1>5, <1>6, <1>10, ExecChain
  <2> HIDE DEF s2
  <2>3. Chain(waiting', r', m'.ram)
    BY <1>2, <1>10, <2>1, <2>2
  <2>4. returned' # "wrong"
    BY <1>2, <1>10, <2>2
  <2>5. QED
    BY <2>3, <2>4 DEF CallsInv, Chain, Resumable, RegistersOK
<1>11. CASE faulted
  <2> HIDE DEF s2
  <2>1. s2.fault \in Raised(guest)
    BY <1>9, <1>11 DEF OrFails, Formed, Faults
  <2>2. ~TaskGate(s2.fault)
    BY <1>1, <2>1 DEF TasksApart
  <2>3. /\ Sound(back) /\ back.m = s0.m /\ back.r.cpl = s1.r.cpl
        /\ back.r.ss = s1.r.ss /\ back.r.sp = s1.r.sp
        /\ back.r.tr = s1.r.tr /\ back.r.fl = s1.r.fl
    <3> DEFINE u == [ s1 EXCEPT !.r.ip = s2.r.ip ]
    <3>1. Formed(s1) /\ DOMAIN s1.r = Fields /\ RegistersOK(s1.r)
      BY <1>5 DEF Sound, RegistersOK, Fields
    <3>2. /\ RegistersOK(u.r) /\ u.r.cpl = s1.r.cpl /\ u.r.ss = s1.r.ss
          /\ u.r.sp = s1.r.sp /\ u.r.tr = s1.r.tr /\ u.r.fl = s1.r.fl
      BY <3>1, SetIp, ZenonT(60)
    <3>3. u.r = [ s1.r EXCEPT !.ip = s2.r.ip ]
      BY <3>1 DEF Formed
    <3>4. back = [ r |-> u.r, m |-> m, fault |-> s2.fault ]
      BY <1>1, <3>3 DEF Rollback
    <3> HIDE DEF u, back
    <3>5. back.r = u.r /\ back.m = m
      BY <3>4
    <3>6. Sound(back)
      BY <1>1, <2>1, <3>2, <3>4 DEF Sound, Formed, Faults
    <3>7. QED
      BY <1>1, <3>2, <3>5, <3>6
  <2> HIDE DEF back
  <2>4. Chain(calls1, back.r, back.m.ram)
    BY <1>6, <1>8, <1>11, <2>3, ChainOf
  <2> DEFINE t == IntCall(back, s2.fault, "exception", s1.r.ip)
  <2>5. Chain(With(calls1, back, t, s1.r.ip), t.r, t.m.ram)
    BY <2>2, <2>3, <2>4, IntCallChain
  <2>6. s3 = t
    BY <1>11 DEF s3, Delivered, back
  <2> HIDE DEF t
  <2>7. Chain(waiting', r', m'.ram)
    BY <1>2, <1>11, <2>5, <2>6
  <2>8. returned' # "wrong"
    BY <1>2, <1>11
  <2>9. QED
    BY <2>7, <2>8 DEF CallsInv, Chain, Resumable, RegistersOK
<1>12. QED
  BY <1>10, <1>11

\* At the start no handler runs.
LEMMA CallsInitial == ProtectionInit => CallsInv
  BY NoChain DEF ProtectionInit, CallsInv

\* Every iteration of cpu_exec keeps the chain.
LEMMA CallsInductive ==
    ASSUME TasksApart, ~HandlerMayFault
    PROVE  ProtectionInv /\ CallsInv /\ [ProtectionNext]_protection => CallsInv'
<1> SUFFICES ASSUME ProtectionInv, CallsInv, [ProtectionNext]_protection
             PROVE  CallsInv'
  OBVIOUS
<1>1. CASE ProtectionNext
  <2>1. PICK irq \in Irqs \cup {NoIrq}, k \in guest.ops : Iteration(irq, k)
    BY <1>1 DEF ProtectionNext
  <2>2. UNCHANGED guest
    BY <1>1 DEF ProtectionNext
  <2>3. QED
    BY <2>1, <2>2, IterationChain
<1>2. CASE UNCHANGED protection
  BY <1>2 DEF protection, CallsInv, Chain, Resumable, RegistersOK
<1>3. QED
  BY <1>1, <1>2

\* The chain holds for as long as the system runs.
LEMMA CallsAlwaysChained ==
    ASSUME TasksApart, ~HandlerMayFault
    PROVE  ProtectionSpec => []CallsInv
<1>1. ProtectionInv /\ [ProtectionNext]_protection => ProtectionInv'
  BY ProtectionInductive
<1>2. ProtectionInv /\ CallsInv /\ [ProtectionNext]_protection => CallsInv'
  BY CallsInductive
<1>3. QED
  BY <1>1, <1>2, ProtectionInitial, CallsInitial, PTL DEF ProtectionSpec

\* An IRET at level 0 through the frame that an interrupt, an exception or an INT
\* has pushed resumes the interrupted program exactly, however many handlers
\* have nested and whatever they did in between, in any system as TasksApart
\* says in which no handler faults at its first instruction.
THEOREM HandlerAlwaysReturns ==
    TasksApart /\ ~HandlerMayFault => (ProtectionSpec => []HandlerReturns)
<1>1. CallsInv => HandlerReturns
  BY DEF CallsInv, HandlerReturns
<1>2. SUFFICES ASSUME TasksApart, ~HandlerMayFault
               PROVE  ProtectionSpec => []HandlerReturns
  OBVIOUS
<1>3. ProtectionSpec => []CallsInv
  BY <1>2, CallsAlwaysChained
<1>4. QED
  BY <1>1, <1>3, PTL

\* The frames of all contexts that wait are where they were pushed.  Where the
\* first instruction of a handler faults they are not (run irq_frame_kept): that
\* is the only way for the code to lose one.
THEOREM FramesAlwaysKept ==
    TasksApart /\ ~HandlerMayFault => (ProtectionSpec => []FramesKept)
<1>1. CallsInv => FramesKept
  <2> SUFFICES ASSUME CallsInv PROVE FramesKept
    OBVIOUS
  <2>1. DOMAIN waiting = 1 .. Len(waiting)
    BY DEF CallsInv, Chain, IsSequence
  <2>2. QED
    BY <2>1 DEF CallsInv, Chain, OnStack, Place, FramesKept
<1>2. SUFFICES ASSUME TasksApart, ~HandlerMayFault
               PROVE  ProtectionSpec => []FramesKept
  OBVIOUS
<1>3. ProtectionSpec => []CallsInv
  BY <1>2, CallsAlwaysChained
<1>4. QED
  BY <1>1, <1>3, PTL

-----------------------------------------------------------------------------
(***************************************************************************)
(* Gains of privilege.  An interrupt, an instruction or the delivery of an *)
(* exception that does not itself fail leaves the level, or goes outwards, *)
(* or gains by right: one lemma per operator.                              *)
(***************************************************************************)

\* The frame f has been pushed, and the rest of memory is as it was.
Pushed(t, mem, f) == t.m.ram = [ mem EXCEPT ![<<Index(t.r.ss), t.r.sp>>] = f ]

\* What is done once the stack of the level cpl is there
Inward(s, f, to, cpl) ==
    [ LoadCs(Push(s, f), to) EXCEPT !.r.ip = 0, !.r.cpl = cpl ]

\* Where a gate to an inner level has led
LEMMA InnerIs ==
    ASSUME NEW s, Formed(s), DOMAIN s.r = Fields, ~s.r.fl.v86, s.r.sp = 0,
           NEW to, CodeFault(to) = NoVector, NEW f, Framed(f), NEW cpl
    PROVE  LET u == Inward(s, f, to, cpl)
           IN  /\ u.r.cs = to /\ u.r.ss = s.r.ss /\ u.r.sp = 1
               /\ u.r.fl = s.r.fl
               /\ Pushed(u, s.m.ram, f)
<1> DEFINE s1 == Push(s, f)
           t == LoadCs(s1, to)
           u == [ t EXCEPT !.r.ip = 0, !.r.cpl = cpl ]
<1>1. /\ Formed(s1) /\ DOMAIN s1.r = Fields
      /\ s1.r.ss = s.r.ss /\ s1.r.sp = s.r.sp + 1 /\ s1.r.fl = s.r.fl
      /\ s1.m.ram = [ s.m.ram EXCEPT ![<<Index(s.r.ss), s.r.sp + 1>>] = f ]
  BY PushKeeps, ZenonT(60)
<1> HIDE DEF s1
<1>2. t.r.cs = to
  BY <1>1, LoadCsLoads
<1>3. /\ Formed(t) /\ DOMAIN t.r = Fields /\ t.m = s1.m
      /\ t.r.ss = s1.r.ss /\ t.r.fl = s1.r.fl /\ t.r.sp = s1.r.sp
  BY <1>1, LoadCsKeeps
<1> HIDE DEF t
<1>4. u.m = t.m /\ u.r = [ t.r EXCEPT !.ip = 0, !.cpl = cpl ]
  BY <1>3 DEF Formed
<1> HIDE DEF u
<1>5. u.r.cs = t.r.cs /\ u.r.ss = t.r.ss /\ u.r.sp = t.r.sp /\ u.r.fl = t.r.fl
  BY <1>3, <1>4 DEF Fields
<1>6. s.r.sp + 1 = 1
  OBVIOUS
<1>7. QED
  BY <1>1, <1>2, <1>3, <1>4, <1>5, <1>6 DEF Inward, Pushed, u, t, s1

\* The frame is on top of the stack it has entered.
LEMMA TopOfInner ==
    ASSUME NEW u, Sound(u), ~u.r.fl.v86, u.r.sp = 1, NEW mem, NEW f,
           Pushed(u, mem, f)
    PROVE  Top(u) = f
<1> DEFINE at == <<Index(u.r.ss), 1>>
<1>1. StackFault(u.r.ss, u.r.cpl, 13, 12) = NoVector
  BY DEF Sound, RegistersOK, Consistent
<1>2. Known(u.r.ss) /\ D(u.r.ss).kind = "data"
  BY <1>1 DEF StackFault, NoVector
<1>3. at \in DOMAIN u.m.ram
  BY <1>2 DEF Known, D, Sound, Formed, GuestOK
<1>4. u.m.ram = [ mem EXCEPT ![at] = f ]
  BY DEF Pushed
<1>5. u.m.ram[at] = f
  BY <1>3, <1>4
<1>6. QED
  BY <1>3, <1>5 DEF Top

\* An interrupt or an exception through the gate to an inner level
LEMMA EnterInnerGains ==
    ASSUME NEW s, Sound(s), NEW gate, NEW ip, Index(gate.sel) \in GateTargets,
           GateTargetFault(gate.sel, s.r.cpl) = NoVector,
           s.r.fl.v86 \/ GateTargetCpl(gate.sel, s.r.cpl) < s.r.cpl
    PROVE  GainedByRight(s, EnterInner(s, gate, ip))
<1> DEFINE cpl == GateTargetCpl(gate.sel, s.r.cpl)
           ss0 == Gdt[s.r.tr].ss0
           bad == IF cpl > 2 THEN 10 ELSE StackFault(ss0, cpl, 10, 12)
           f == Kept(Frame(s, Form(gate), ip))
           s0 == [ s EXCEPT !.r.ss = ss0, !.r.sp = 0,
                            !.r.fl = HandlerFlags(@, gate, TRUE) ]
           to == <<Index(gate.sel), cpl>>
           u == Inward(s0, f, to, cpl)
           t == EnterInner(s, gate, ip)
<1>1. /\ Formed(s) /\ DOMAIN s.r = Fields /\ s.r.fl \in Flags /\ s.r.cpl \in Levels
      /\ s.r.fl.v86 => RunsV86(guest)
      /\ s.r.sp \in Int
  BY DEF Sound, RegistersOK, Fields
<1>2. CodeFault(to) = NoVector /\ Index(to) = Index(gate.sel)
  BY <1>1, GateLevel DEF CodeOfLevel, Index
<1>3. t = IF bad # NoVector THEN Raise(s, bad) ELSE u
  BY DEF EnterInner, Inward
<1>4. Framed(f)
  BY <1>1, FramesFramed
<1>5. f.cs = s.r.cs
  BY DEF Kept, Frame
<1>6. Sound(t)
  BY EnterInnerSound
<1> HIDE DEF to, f, cpl, t
<1>7. CASE bad # NoVector
  <2>1. bad \in {10, 11, 12, 13}
    BY <1>7, StackFaults
  <2> HIDE DEF bad
  <2>2. t.r = s.r
    BY <1>1, <1>3, <1>7, <2>1, RaiseIs, OwnVectors
  <2>3. QED
    BY <1>1, <2>2 DEF GainedByRight, Levels, t
<1>8. CASE bad = NoVector
  <2>1. /\ DOMAIN s0 = {"r", "m", "fault"} /\ s0.m = s.m /\ s0.fault = s.fault
        /\ s0.r = [ s.r EXCEPT !.ss = ss0, !.sp = 0,
                               !.fl = HandlerFlags(@, gate, TRUE) ]
    BY <1>1 DEF Formed
  <2> HIDE DEF s0
  <2>2. /\ DOMAIN s0.r = Fields /\ s0.r.ss = ss0 /\ s0.r.sp = 0
        /\ s0.r.fl = HandlerFlags(s.r.fl, gate, TRUE)
    BY <1>1, <2>1 DEF Fields
  <2>3. ~s0.r.fl.v86
    BY <1>1, <2>2, HandlerFlagsAre
  <2>4. Formed(s0)
    BY <1>1, <2>1 DEF Formed
  <2>5. /\ u.r.cs = to /\ u.r.ss = s0.r.ss /\ u.r.sp = 1 /\ u.r.fl = s0.r.fl
        /\ Pushed(u, s0.m.ram, f)
    <3>1. CodeFault(to) = NoVector /\ Framed(f) /\ DOMAIN s0.r = Fields /\ s0.r.sp = 0
      BY <1>2, <1>4, <2>2
    <3> HIDE DEF u
    <3>2. LET v == Inward(s0, f, to, cpl)
          IN  /\ v.r.cs = to /\ v.r.ss = s0.r.ss /\ v.r.sp = 1
              /\ v.r.fl = s0.r.fl
              /\ Pushed(v, s0.m.ram, f)
      BY <2>3, <2>4, <3>1, InnerIs
    <3>3. QED
      BY <3>2 DEF u
  <2> HIDE DEF u
  <2>6. Sound(u) /\ t = u
    BY <1>3, <1>6, <1>8
  <2>7. Top(u) = f
    BY <2>3, <2>5, <2>6, TopOfInner
  <2>8. Index(t.r.cs) \in GateTargets /\ t.r.ss = ss0 /\ t.r.sp = 1 /\ Top(t).cs = s.r.cs
    BY <1>2, <1>5, <2>2, <2>5, <2>6, <2>7
  <2>9. QED
    BY <2>8 DEF GainedByRight, t
<1>9. QED
  BY <1>7, <1>8

\* A call through a gate to an inner level
LEMMA CallInnerGains ==
    ASSUME NEW s, Sound(s), ~s.r.fl.v86, NEW sel, Known(sel),
           D(sel).kind = "callgate",
           GateTargetFault(D(sel).sel, s.r.cpl) = NoVector,
           GateTargetCpl(D(sel).sel, s.r.cpl) < s.r.cpl
    PROVE  GainedByRight(s, CallInner(s, sel))
<1> DEFINE target == D(sel).sel
           cpl == D(target).dpl
           ss0 == Gdt[s.r.tr].ss0
           bad == StackFault(ss0, cpl, 10, 12)
           s0 == [ s EXCEPT !.r.ss = ss0, !.r.sp = 0 ]
           f == Frame(s, "far", s.r.ip)
           to == <<Index(target), cpl>>
           u == Inward(s0, f, to, cpl)
           t == CallInner(s, sel)
<1>1. /\ Formed(s) /\ DOMAIN s.r = Fields /\ s.r.fl \in Flags /\ s.r.cpl \in Levels
      /\ s.r.fl.v86 => RunsV86(guest)
      /\ s.r.sp \in Int
  BY DEF Sound, RegistersOK, Fields
<1>2. CodeFault(to) = NoVector /\ Index(to) \in GateTargets
  <2>1. CodeFault(target) = NoVector
    BY DEF GateTargetFault, NoVector
  <2>2. CodeFault(to) = NoVector
    BY <2>1, SameIndex
  <2>3. Index(target) \in GateTargets
    BY DEF GateTargets, Known, D
  <2>4. Index(to) = Index(target)
    BY DEF Index
  <2>5. QED
    BY <2>2, <2>3, <2>4
<1>3. t = IF bad # NoVector THEN Raise(s, bad) ELSE u
  BY DEF CallInner, Inward
<1>4. Framed(f)
  BY <1>1, FramesFramed
<1>5. f.cs = s.r.cs
  BY DEF Frame
<1>6. Sound(t)
  BY CallInnerSound
<1> HIDE DEF to, f, cpl, t
<1>7. CASE bad # NoVector
  <2>1. bad \in {10, 11, 12, 13}
    BY <1>7, StackFaults
  <2> HIDE DEF bad
  <2>2. t.r = s.r
    BY <1>1, <1>3, <1>7, <2>1, RaiseIs, OwnVectors
  <2>3. QED
    BY <1>1, <2>2 DEF GainedByRight, Levels, t
<1>8. CASE bad = NoVector
  <2>1. /\ DOMAIN s0 = {"r", "m", "fault"} /\ s0.m = s.m /\ s0.fault = s.fault
        /\ s0.r = [ s.r EXCEPT !.ss = ss0, !.sp = 0 ]
    BY <1>1 DEF Formed
  <2> HIDE DEF s0
  <2>2. /\ DOMAIN s0.r = Fields /\ s0.r.ss = ss0 /\ s0.r.sp = 0
        /\ s0.r.fl = s.r.fl
    BY <1>1, <2>1 DEF Fields
  <2>3. ~s0.r.fl.v86
    BY <2>2
  <2>4. Formed(s0)
    BY <1>1, <2>1 DEF Formed
  <2>5. /\ u.r.cs = to /\ u.r.ss = s0.r.ss /\ u.r.sp = 1 /\ u.r.fl = s0.r.fl
        /\ Pushed(u, s0.m.ram, f)
    BY <1>2, <1>4, <2>2, <2>3, <2>4, InnerIs
  <2> HIDE DEF u
  <2>6. Sound(u) /\ t = u
    BY <1>3, <1>6, <1>8
  <2>7. Top(u) = f
    BY <2>3, <2>5, <2>6, TopOfInner
  <2>8. Index(t.r.cs) \in GateTargets /\ t.r.ss = ss0 /\ t.r.sp = 1 /\ Top(t).cs = s.r.cs
    BY <1>2, <1>5, <2>2, <2>5, <2>6, <2>7
  <2>9. QED
    BY <2>8 DEF GainedByRight, t
<1>9. QED
  BY <1>7, <1>8

-----------------------------------------------------------------------------
\* A step that stays at its level or goes outwards
Outward(s, t) == t.r.cpl \in Levels /\ t.r.cpl >= s.r.cpl

LEMMA OutwardGains ==
    ASSUME NEW s, s.r.cpl \in Levels, NEW t, Outward(s, t)
    PROVE  GainedByRight(s, t)
  BY DEF Outward, GainedByRight, Levels

\* An exception that is raised leaves the level.
LEMMA RaiseOutward ==
    ASSUME NEW s, Sound(s), NEW v \in Raised(guest)
    PROVE  Outward(s, Raise(s, v))
<1>1. Raise(s, v).r = s.r /\ s.r.cpl \in Levels
  BY RaiseIs DEF Sound, RegistersOK
<1>2. QED
  BY <1>1 DEF Outward, Levels

\* To a handler of the same level
LEMMA EnterSameOutward ==
    ASSUME NEW s, Sound(s), ~s.r.fl.v86, NEW gate, NEW ip,
           CodeOfLevel(<<Index(gate.sel), s.r.cpl>>, s.r.cpl)
    PROVE  Outward(s, EnterSame(s, gate, ip))
<1> DEFINE f == Kept(Short(Frame(s, Form(gate), ip)))
           s1 == Push(s, f)
           to == <<Index(gate.sel), s.r.cpl>>
           t == LoadCs(s1, to)
           u == [ t EXCEPT !.r.ip = 0, !.r.fl = HandlerFlags(@, gate, FALSE) ]
<1>1. /\ Formed(s) /\ DOMAIN s.r = Fields /\ s.r.fl \in Flags /\ s.r.cpl \in Levels
      /\ s.r.fl.v86 => RunsV86(guest)
      /\ s.r.sp \in Int
  BY DEF Sound, RegistersOK, Fields
<1>2. Framed(f)
  BY <1>1, FramesFramed
<1>3. CodeFault(to) = NoVector /\ Rpl(to) = s.r.cpl
  BY DEF CodeOfLevel
<1>4. EnterSame(s, gate, ip) = u
  BY DEF EnterSame
<1> HIDE DEF f, to
<1>5. Formed(s1) /\ DOMAIN s1.r = Fields /\ s1.r.fl = s.r.fl
  BY <1>1, <1>2, PushKeeps, ZenonT(60)
<1> HIDE DEF s1
<1>6. t.r.cpl = s.r.cpl
  BY <1>3, <1>5, LoadCsLoads
<1>7. Formed(t) /\ DOMAIN t.r = Fields
  BY <1>5, LoadCsKeeps
<1> HIDE DEF t
<1>8. u.r = [ t.r EXCEPT !.ip = 0, !.fl = HandlerFlags(@, gate, FALSE) ]
  BY <1>7 DEF Formed
<1> HIDE DEF u
<1>9. u.r.cpl = s.r.cpl
  BY <1>6, <1>7, <1>8 DEF Fields
<1>10. QED
  BY <1>1, <1>4, <1>9 DEF Outward, Levels

\* An interrupt or an exception, unless its gate is of a task
LEMMA IntCallGains ==
    ASSUME NEW s, Sound(s), NEW vec, ~TaskGate(vec), NEW source, NEW ip
    PROVE  GainedByRight(s, IntCall(s, vec, source, ip))
<1> DEFINE gate == Idt[vec]
           bad == GateTargetFault(gate.sel, s.r.cpl)
           inner == s.r.fl.v86 \/ GateTargetCpl(gate.sel, s.r.cpl) < s.r.cpl
           t == IntCall(s, vec, source, ip)
<1>1. s.r.cpl \in Levels
  BY DEF Sound, RegistersOK
<1>2. CASE IntFault(s, vec, source) # NoVector
  <2>1. IntFault(s, vec, source) \in {11, 13}
    BY <1>2 DEF IntFault
  <2>2. t = Raise(s, IntFault(s, vec, source))
    BY <1>2 DEF IntCall
  <2>3. Outward(s, Raise(s, IntFault(s, vec, source)))
    BY <2>1, RaiseOutward, OwnVectors
  <2> HIDE DEF t
  <2>4. QED
    BY <1>1, <2>2, <2>3, OutwardGains DEF t
<1>3. CASE IntFault(s, vec, source) = NoVector
  <2>1. vec \in DOMAIN Idt /\ gate.type # "task"
    BY <1>3 DEF IntFault, NoVector, TaskGate
  <2>2. t = IF bad # NoVector THEN Raise(s, bad)
            ELSE IF inner THEN EnterInner(s, gate, ip) ELSE EnterSame(s, gate, ip)
    BY <1>3, <2>1 DEF IntCall
  <2>3. Index(gate.sel) \in GateTargets
    BY <2>1 DEF GateTargets
  <2> HIDE DEF t
  <2>4. CASE bad # NoVector
    <3>1. bad \in {11, 13}
      BY <2>4 DEF GateTargetFault, CodeFault, NoVector
    <3> HIDE DEF bad
    <3>2. Outward(s, Raise(s, bad))
      BY <3>1, RaiseOutward, OwnVectors
    <3>3. QED
      BY <1>1, <2>2, <2>4, <3>2, OutwardGains DEF t
  <2>5. CASE bad = NoVector /\ inner
    <3>1. t = EnterInner(s, gate, ip)
      BY <2>2, <2>5
    <3>2. GainedByRight(s, EnterInner(s, gate, ip))
      BY <2>3, <2>5, EnterInnerGains
    <3>3. QED
      BY <3>1, <3>2 DEF t
  <2>6. CASE bad = NoVector /\ ~inner
    <3> DEFINE p == GateTargetCpl(gate.sel, s.r.cpl)
    <3>1. p \in Levels /\ p <= s.r.cpl /\ CodeOfLevel(<<Index(gate.sel), p>>, p)
      BY <1>1, <2>6, GateLevel
    <3>2. p = s.r.cpl
      BY <1>1, <2>6, <3>1 DEF Levels
    <3>3. Outward(s, EnterSame(s, gate, ip))
      BY <2>6, <3>1, <3>2, EnterSameOutward
    <3>4. t = EnterSame(s, gate, ip)
      BY <2>2, <2>6
    <3>5. QED
      BY <1>1, <3>3, <3>4, OutwardGains DEF t
  <2>7. QED
    BY <2>4, <2>5, <2>6
<1>4. QED
  BY <1>2, <1>3

\* A task switch that succeeds
LEMMA TaskGains ==
    ASSUME NEW s, Sound(s), ~s.r.fl.v86, NEW k, NEW reason,
           reason = "iret" => s.r.fl.nt /\ s.m.tss[s.r.tr].link = k,
           TaskSwitch(s, k, reason).fault = NoVector
    PROVE  GainedByRight(s, TaskSwitch(s, k, reason))
<1> DEFINE t == TaskSwitch(s, k, reason)
<1>1. s.r.cpl \in Levels
  BY DEF Sound, RegistersOK
<1>2. t.r.tr = k /\ (k = s.r.tr /\ reason # "iret" => t.r.cpl = s.r.cpl)
  BY TaskIs
<1> HIDE DEF t
<1>3. CASE k = s.r.tr /\ reason # "iret"
  BY <1>1, <1>2, <1>3 DEF GainedByRight, Levels, t
<1>4. CASE k # s.r.tr \/ reason = "iret"
  BY <1>2, <1>4 DEF GainedByRight, Switched, t
<1>5. QED
  BY <1>3, <1>4

\* INT, through a gate of any kind
LEMMA IntGains ==
    ASSUME NEW s, Sound(s), NEW vec, TaskGate(vec) => ~s.r.fl.v86, NEW ip,
           IntCall(s, vec, "software", ip).fault = NoVector
    PROVE  GainedByRight(s, IntCall(s, vec, "software", ip))
<1>1. CASE ~TaskGate(vec)
  BY <1>1, IntCallGains
<1>2. CASE TaskGate(vec)
  <2> DEFINE t == IntCall(s, vec, "software", ip)
             k == Index(Idt[vec].sel)
  <2>1. Formed(s) /\ t.fault = NoVector
    BY DEF Sound
  <2>2. IntFault(s, vec, "software") \in {NoVector, 11, 13}
    BY DEF IntFault
  <2>3. IntFault(s, vec, "software") = NoVector
    BY <2>1, <2>2, RaiseIs, OwnVectors DEF IntCall
  <2>4. t = TaskSwitch(s, k, "gate")
    BY <1>2, <2>3 DEF IntCall, TaskGate
  <2> HIDE DEF t
  <2>5. GainedByRight(s, TaskSwitch(s, k, "gate"))
    BY <1>2, <2>1, <2>4, TaskGains
  <2>6. QED
    BY <2>4, <2>5 DEF t
<1>3. QED
  BY <1>1, <1>2

-----------------------------------------------------------------------------
\* In virtual-8086 mode every load of CS leaves the level at 3.
LEMMA VirtualOutward ==
    ASSUME NEW s, Sound(s), s.r.fl.v86, NEW sel
    PROVE  Outward(s, LoadCs(s, sel))
<1>1. Formed(s) /\ DOMAIN s.r = Fields /\ s.r.cpl = 3
  BY DEF Sound, RegistersOK, Fields, Consistent
<1>2. Sound(LoadCs(s, sel)) /\ LoadCs(s, sel).r.fl = s.r.fl
  BY <1>1, LoadCsVirtual, LoadCsKeeps
<1>3. LoadCs(s, sel).r.cpl = 3
  BY <1>2 DEF Sound, RegistersOK, Consistent
<1>4. QED
  BY <1>1, <1>3 DEF Outward, Levels

\* Code of the same level
LEMMA DirectOutward ==
    ASSUME NEW s, Sound(s), ~s.r.fl.v86, NEW sel,
           CodeOfLevel(<<Index(sel), s.r.cpl>>, s.r.cpl)
    PROVE  Outward(s, Direct(s, Index(sel), 0))
<1> DEFINE to == <<Index(sel), s.r.cpl>>
           t == LoadCs(s, to)
           u == [ t EXCEPT !.r.ip = 0 ]
<1>1. Formed(s) /\ DOMAIN s.r = Fields /\ s.r.cpl \in Levels
  BY DEF Sound, RegistersOK, Fields
<1>2. CodeFault(to) = NoVector /\ Rpl(to) = s.r.cpl
  BY DEF CodeOfLevel
<1>3. Direct(s, Index(sel), 0) = u
  BY DEF Direct
<1> HIDE DEF to
<1>4. t.r.cpl = s.r.cpl
  BY <1>1, <1>2, LoadCsLoads
<1>5. Formed(t) /\ DOMAIN t.r = Fields
  BY <1>1, LoadCsKeeps
<1> HIDE DEF t
<1>6. u.r = [ t.r EXCEPT !.ip = 0 ]
  BY <1>5 DEF Formed
<1> HIDE DEF u
<1>7. u.r.cpl = s.r.cpl
  BY <1>4, <1>5, <1>6 DEF Fields
<1>8. QED
  BY <1>1, <1>3, <1>7 DEF Outward, Levels

\* What a frame that is pushed leaves as it is
LEMMA PushedSame ==
    ASSUME NEW s, Sound(s), NEW f, Framed(f)
    PROVE  LET t == Push(s, f)
           IN  /\ Sound(t) /\ t.r.cpl = s.r.cpl /\ t.r.cs = s.r.cs
               /\ t.r.fl = s.r.fl /\ t.r.tr = s.r.tr /\ t.m.tss = s.m.tss
<1> DEFINE t == Push(s, f)
<1>1. Formed(s) /\ DOMAIN s.r = Fields /\ Sound(t)
  BY PushSound DEF Sound, RegistersOK, Fields
<1>2. t.r.cpl = s.r.cpl /\ t.r.cs = s.r.cs /\ t.r.fl = s.r.fl /\ t.r.tr = s.r.tr
  BY <1>1, PushKeeps, ZenonT(60)
<1>3. t.m.tss = s.m.tss
  BY <1>1 DEF Push, Formed, GuestOK
<1> HIDE DEF t
<1>4. QED
  BY <1>1, <1>2, <1>3 DEF t

\* So a step from there gains what it gains from where the frame was pushed.
LEMMA GainsAlike ==
    ASSUME NEW s, NEW n, n.r.cpl = s.r.cpl, n.r.cs = s.r.cs, n.r.tr = s.r.tr,
           n.r.fl = s.r.fl, n.m.tss = s.m.tss, NEW t, GainedByRight(n, t)
    PROVE  GainedByRight(s, t)
  BY DEF GainedByRight, Switched

\* CALLF, when it succeeds
LEMMA CallFGains ==
    ASSUME TasksApart, NEW s, Sound(s), NEW sel, CallF(s, sel).fault = NoVector
    PROVE  GainedByRight(s, CallF(s, sel))
<1> DEFINE far == Short(Frame(s, "far", s.r.ip))
           n == Push(s, far)
           t == CallF(s, sel)
<1>1. /\ Formed(s) /\ s.r.fl \in Flags /\ s.r.cpl \in Levels
      /\ s.r.fl.v86 => RunsV86(guest)
      /\ s.r.sp \in Int
  BY DEF Sound, RegistersOK
<1>2. Framed(far)
  BY <1>1, FramesFramed
<1>3. t = IF s.r.fl.v86 THEN LoadCs(n, sel)
        ELSE IF FarFault(s, sel) # NoVector THEN Raise(s, FarFault(s, sel))
        ELSE IF IsCode(sel) THEN Direct(n, Index(sel), 0)
        ELSE IF IsTask(sel) THEN TaskSwitch(s, Index(TaskTarget(sel)), "call")
        ELSE IF GateTargetCpl(D(sel).sel, s.r.cpl) < s.r.cpl
        THEN CallInner(s, sel)
        ELSE Direct(n, Index(D(sel).sel), 0)
  BY DEF CallF
<1>4. t.fault = NoVector
  OBVIOUS
<1> HIDE DEF far, t
<1>5. Sound(n) /\ n.r.cpl = s.r.cpl /\ n.r.fl = s.r.fl
  BY <1>2, PushedSame
<1> HIDE DEF n
<1>6. ASSUME Outward(n, t) PROVE GainedByRight(s, t)
  BY <1>1, <1>5, <1>6, OutwardGains DEF Outward
<1>7. CASE s.r.fl.v86
  BY <1>3, <1>5, <1>6, <1>7, VirtualOutward DEF t
<1>8. CASE ~s.r.fl.v86 /\ FarFault(s, sel) # NoVector
  <2>1. FarFault(s, sel) \in {11, 13}
    BY <1>8, FarFaults
  <2>2. Outward(s, Raise(s, FarFault(s, sel)))
    BY <2>1, RaiseOutward, OwnVectors
  <2>3. QED
    BY <1>1, <1>3, <1>8, <2>2, OutwardGains DEF t
<1>9. CASE ~s.r.fl.v86 /\ FarFault(s, sel) = NoVector
  <2>1. ASSUME NEW to, CodeOfLevel(<<Index(to), s.r.cpl>>, s.r.cpl),
               t = Direct(n, Index(to), 0)
        PROVE  GainedByRight(s, t)
    <3>1. Outward(n, Direct(n, Index(to), 0))
      BY <1>5, <1>9, <2>1, DirectOutward
    <3>2. QED
      BY <1>6, <2>1, <3>1
  <2>2. CASE IsCode(sel)
    <3>1. DirectFault(sel, s.r.cpl) = NoVector
      BY <1>9, <2>2 DEF FarFault, NoVector
    <3>2. CodeOfLevel(<<Index(sel), s.r.cpl>>, s.r.cpl)
      BY <1>1, <3>1, DirectLevel
    <3>3. t = Direct(n, Index(sel), 0)
      BY <1>3, <1>9, <2>2
    <3>4. QED
      BY <2>1, <3>2, <3>3 DEF t
  <2>3. CASE ~IsCode(sel) /\ IsTask(sel)
    <3>1. t = TaskSwitch(s, Index(TaskTarget(sel)), "call")
      BY <1>3, <1>9, <2>3
    <3>2. GainedByRight(s, TaskSwitch(s, Index(TaskTarget(sel)), "call"))
      BY <1>4, <1>9, <3>1, TaskGains
    <3>3. QED
      BY <3>1, <3>2 DEF t
  <2>4. CASE ~IsCode(sel) /\ ~IsTask(sel)
    <3> DEFINE to == D(sel).sel
               p == GateTargetCpl(to, s.r.cpl)
    <3>1. /\ GateTargetFault(to, s.r.cpl) = NoVector
          /\ Known(sel) /\ D(sel).kind = "callgate"
      BY <1>9, <2>4 DEF FarFault, GateFault, NoVector
    <3>2. p \in Levels /\ p <= s.r.cpl /\ CodeOfLevel(<<Index(to), p>>, p)
      BY <1>1, <3>1, GateLevel
    <3>3. CASE p < s.r.cpl
      BY <1>3, <1>9, <2>4, <3>1, <3>3, CallInnerGains DEF t
    <3>4. CASE ~(p < s.r.cpl)
      <4>1. p = s.r.cpl
        BY <1>1, <3>2, <3>4 DEF Levels
      <4>2. t = Direct(n, Index(to), 0)
        BY <1>3, <1>9, <2>4, <3>4
      <4>3. QED
        BY <2>1, <3>2, <4>1, <4>2 DEF t
    <3>5. QED
      BY <3>3, <3>4
  <2>5. QED
    BY <2>2, <2>3, <2>4
<1>10. QED
  BY <1>7, <1>8, <1>9

\* JMPF, when it succeeds
LEMMA JmpFGains ==
    ASSUME TasksApart, NEW s, Sound(s), NEW sel, JmpF(s, sel).fault = NoVector
    PROVE  GainedByRight(s, JmpF(s, sel))
<1> DEFINE t == JmpF(s, sel)
<1>1. s.r.cpl \in Levels
  BY DEF Sound, RegistersOK
<1>2. t = IF s.r.fl.v86 THEN LoadCs(s, sel)
        ELSE IF FarFault(s, sel) # NoVector THEN Raise(s, FarFault(s, sel))
        ELSE IF IsCode(sel) THEN Direct(s, Index(sel), 0)
        ELSE IF IsTask(sel) THEN TaskSwitch(s, Index(TaskTarget(sel)), "jmp")
        ELSE IF GateTargetCpl(D(sel).sel, s.r.cpl) < s.r.cpl THEN Raise(s, 13)
        ELSE Direct(s, Index(D(sel).sel), 0)
  BY DEF JmpF
<1>3. t.fault = NoVector
  OBVIOUS
<1> HIDE DEF t
<1>4. CASE s.r.fl.v86
  BY <1>1, <1>2, <1>4, VirtualOutward, OutwardGains DEF t
<1>5. CASE ~s.r.fl.v86 /\ FarFault(s, sel) # NoVector
  <2>1. FarFault(s, sel) \in {11, 13}
    BY <1>5, FarFaults
  <2>2. Outward(s, Raise(s, FarFault(s, sel)))
    BY <2>1, RaiseOutward, OwnVectors
  <2>3. QED
    BY <1>1, <1>2, <1>5, <2>2, OutwardGains DEF t
<1>6. CASE ~s.r.fl.v86 /\ FarFault(s, sel) = NoVector
  <2>1. ASSUME NEW to, CodeOfLevel(<<Index(to), s.r.cpl>>, s.r.cpl),
               t = Direct(s, Index(to), 0)
        PROVE  GainedByRight(s, t)
    <3>1. Outward(s, Direct(s, Index(to), 0))
      BY <1>6, <2>1, DirectOutward
    <3>2. QED
      BY <1>1, <2>1, <3>1, OutwardGains
  <2>2. CASE IsCode(sel)
    <3>1. DirectFault(sel, s.r.cpl) = NoVector
      BY <1>6, <2>2 DEF FarFault, NoVector
    <3>2. CodeOfLevel(<<Index(sel), s.r.cpl>>, s.r.cpl)
      BY <1>1, <3>1, DirectLevel
    <3>3. t = Direct(s, Index(sel), 0)
      BY <1>2, <1>6, <2>2
    <3>4. QED
      BY <2>1, <3>2, <3>3 DEF t
  <2>3. CASE ~IsCode(sel) /\ IsTask(sel)
    <3>1. t = TaskSwitch(s, Index(TaskTarget(sel)), "jmp")
      BY <1>2, <1>6, <2>3
    <3>2. GainedByRight(s, TaskSwitch(s, Index(TaskTarget(sel)), "jmp"))
      BY <1>3, <1>6, <3>1, TaskGains
    <3>3. QED
      BY <3>1, <3>2 DEF t
  <2>4. CASE ~IsCode(sel) /\ ~IsTask(sel)
    <3> DEFINE to == D(sel).sel
               p == GateTargetCpl(to, s.r.cpl)
    <3>1. GateTargetFault(to, s.r.cpl) = NoVector
      BY <1>6, <2>4 DEF FarFault, GateFault, NoVector
    <3>2. p \in Levels /\ p <= s.r.cpl /\ CodeOfLevel(<<Index(to), p>>, p)
      BY <1>1, <3>1, GateLevel
    <3>3. CASE p < s.r.cpl
      <4>1. Outward(s, Raise(s, 13))
        BY RaiseOutward, OwnVectors
      <4>2. QED
        BY <1>1, <1>2, <1>6, <2>4, <3>3, <4>1, OutwardGains DEF t
    <3>4. CASE ~(p < s.r.cpl)
      <4>1. p = s.r.cpl
        BY <1>1, <3>2, <3>4 DEF Levels
      <4>2. t = Direct(s, Index(to), 0)
        BY <1>2, <1>6, <2>4, <3>4
      <4>3. QED
        BY <2>1, <3>2, <4>1, <4>2 DEF t
    <3>5. QED
      BY <3>3, <3>4
  <2>5. QED
    BY <2>2, <2>3, <2>4
<1>7. QED
  BY <1>4, <1>5, <1>6

-----------------------------------------------------------------------------
\* A return to the level of the frame's code segment, which is not inside
LEMMA ReturnSameOutward ==
    ASSUME NEW s, Sound(s), NEW f,
           ~s.r.fl.v86 => ReturnFault(f.cs, s.r.cpl) = NoVector
    PROVE  Outward(s, [ LoadCs(Pop(s), f.cs) EXCEPT !.r.ip = f.ip ])
<1> DEFINE n == Pop(s)
           u == LoadCs(n, f.cs)
           t == [ u EXCEPT !.r.ip = f.ip ]
<1>1. Formed(s) /\ DOMAIN s.r = Fields /\ s.r.cpl \in Levels /\ RegistersOK(s.r)
  BY DEF Sound, RegistersOK, Fields
<1>2. CASE s.r.fl.v86
  <2>1. Sound(n) /\ n.r.cpl = s.r.cpl /\ n.r.fl = s.r.fl
    BY <1>1, PopKeeps DEF Sound
  <2> HIDE DEF n
  <2>2. Outward(n, u)
    BY <1>2, <2>1, VirtualOutward
  <2>3. Formed(u) /\ DOMAIN u.r = Fields
    BY <1>2, <2>1, LoadCsVirtual DEF Sound, RegistersOK, Fields
  <2> HIDE DEF u
  <2>4. t.r.cpl = u.r.cpl
    BY <2>3, SetIp, ZenonT(60)
  <2> HIDE DEF t
  <2>5. Outward(s, t)
    BY <2>1, <2>2, <2>4 DEF Outward
  <2>6. QED
    BY <2>5 DEF t, u, n
<1>3. CASE ~s.r.fl.v86
  <2>1. /\ ReturnCpl(f.cs, s.r.cpl) \in Levels
        /\ ReturnCpl(f.cs, s.r.cpl) >= s.r.cpl
        /\ Rpl(f.cs) = ReturnCpl(f.cs, s.r.cpl)
        /\ CodeFault(f.cs) = NoVector
    BY <1>1, <1>3, ReturnLevel
  <2>2. t.r.cpl = Rpl(f.cs)
    <3>1. LET v == [ LoadCs(Pop(s), f.cs) EXCEPT !.r.ip = f.ip ]
          IN  /\ DOMAIN v.r = Fields /\ v.fault = s.fault
              /\ v.r.cpl = Rpl(f.cs) /\ v.r.cs = f.cs
              /\ v.r.ss = s.r.ss /\ v.r.sp = s.r.sp - 1 /\ v.r.ip = f.ip
              /\ v.r.tr = s.r.tr /\ v.r.fl = s.r.fl
              /\ v.m.ram = [ s.m.ram EXCEPT ![<<Index(s.r.ss), s.r.sp>>] = NoFrame ]
      BY <1>3, <2>1, SameIs
    <3>2. QED
      BY <3>1
  <2> HIDE DEF t
  <2>3. Outward(s, t)
    BY <2>1, <2>2 DEF Outward
  <2>4. QED
    BY <2>3 DEF t
<1>4. QED
  BY <1>2, <1>3

\* A return to an outer level, or a fault of its stack
LEMMA ToOuterOutward ==
    ASSUME NEW s, Sound(s), ~s.r.fl.v86, NEW f,
           ReturnFault(f.cs, s.r.cpl) = NoVector
    PROVE  Outward(s, ToOuter(s, f))
<1> DEFINE cpl == ReturnCpl(f.cs, s.r.cpl)
           bad == StackFault(f.ss, cpl, 13, 12)
           t == ToOuter(s, f)
<1>1. s.r.cpl \in Levels
  BY DEF Sound, RegistersOK
<1>2. cpl \in Levels /\ cpl >= s.r.cpl
  BY <1>1, ReturnLevel
<1>3. CASE bad # NoVector
  <2>1. bad \in {12, 13}
    BY <1>3, StackFaults
  <2>2. t = Raise(s, bad)
    BY <1>3 DEF ToOuter
  <2> HIDE DEF bad, t
  <2>3. Outward(s, Raise(s, bad))
    BY <2>1, RaiseOutward, OwnVectors
  <2>4. QED
    BY <2>2, <2>3 DEF t
<1>4. CASE bad = NoVector
  <2>1. t.r.cpl = cpl
    BY <1>4, OuterIs
  <2> HIDE DEF t, cpl
  <2>2. QED
    BY <1>2, <2>1 DEF Outward, t
<1>5. QED
  BY <1>3, <1>4

\* RETF
LEMMA RetFOutward ==
    ASSUME NEW s, Sound(s), NEW f
    PROVE  Outward(s, RetF(s, f))
<1>1. CASE ~s.r.fl.v86 /\ ReturnFault(f.cs, s.r.cpl) # NoVector
  <2>1. ReturnFault(f.cs, s.r.cpl) \in {11, 13}
    BY <1>1, ReturnFaults
  <2>2. Outward(s, Raise(s, ReturnFault(f.cs, s.r.cpl)))
    BY <2>1, RaiseOutward, OwnVectors
  <2>3. QED
    BY <1>1, <2>2 DEF RetF
<1>2. CASE /\ ~s.r.fl.v86 /\ ReturnFault(f.cs, s.r.cpl) = NoVector
           /\ ReturnCpl(f.cs, s.r.cpl) > s.r.cpl
  BY <1>2, ToOuterOutward DEF RetF
<1>3. CASE ~s.r.fl.v86 => /\ ReturnFault(f.cs, s.r.cpl) = NoVector
                          /\ ~(ReturnCpl(f.cs, s.r.cpl) > s.r.cpl)
  BY <1>3, ReturnSameOutward DEF RetF
<1>4. QED
  BY <1>1, <1>2, <1>3

\* The flags that are restored change no level.
LEMMA RestoreOutward ==
    ASSUME NEW s, NEW n, Sound(n), Outward(s, n), NEW fl, NEW c
    PROVE  Outward(s, RestoreFlags(n, fl, c))
<1>1. Formed(n) /\ DOMAIN n.r = Fields
  BY DEF Sound, RegistersOK, Fields
<1>2. RestoreFlags(n, fl, c).r.cpl = n.r.cpl
  <2>1. LET t == RestoreFlags(n, fl, c)
        IN  /\ DOMAIN t.r = Fields /\ t.m = n.m /\ t.fault = n.fault
            /\ t.r.cpl = n.r.cpl /\ t.r.cs = n.r.cs /\ t.r.ss = n.r.ss
            /\ t.r.sp = n.r.sp /\ t.r.ip = n.r.ip /\ t.r.tr = n.r.tr
            /\ t.r.fl = [ nt   |-> fl.nt, v86 |-> n.r.fl.v86,
                 ifl  |-> IF c <= n.r.fl.iopl THEN fl.ifl ELSE n.r.fl.ifl,
                 iopl |-> IF c = 0 THEN fl.iopl ELSE n.r.fl.iopl ]
    BY <1>1, RestoreIs
  <2>2. QED
    BY <2>1
<1>3. QED
  BY <1>2 DEF Outward

\* IRET, unless it is from a task that is nested in another
LEMMA IretOutward ==
    ASSUME NEW s, Sound(s), NEW f, Framed(f), f.form \in {"int16", "int32"},
           s.r.fl.v86 \/ ~s.r.fl.nt
    PROVE  Outward(s, Iret(s, f))
<1>1. f.fl \in Flags /\ f.sp \in Int /\ s.r.cpl \in Levels
  BY DEF Framed, Sound, RegistersOK
<1>2. ASSUME ~s.r.fl.v86 => /\ ReturnFault(f.cs, s.r.cpl) = NoVector
                            /\ ~(ReturnCpl(f.cs, s.r.cpl) > s.r.cpl)
      PROVE  Outward(s, IretSame(s, f))
  BY <1>2, ReturnSameOutward, ReturnSameSound, RestoreOutward DEF IretSame
<1>3. ASSUME ~s.r.fl.v86, ReturnFault(f.cs, s.r.cpl) = NoVector
      PROVE  Outward(s, IretOuter(s, f))
  BY <1>1, <1>3, ToOuterOutward, ToOuterSound, RestoreOutward DEF IretOuter
<1>4. \A v \in {11, 13} : Outward(s, Raise(s, v))
  BY RaiseOutward, OwnVectors
<1>5. CASE s.r.fl.v86
  BY <1>2, <1>4, <1>5 DEF Iret
<1>6. CASE ~s.r.fl.v86
  <2>1. CASE f.form = "int32" /\ f.fl.v86
    <3>1. ToV86(s, f).r.cpl = 3
      BY ToV86Is
    <3>2. Outward(s, ToV86(s, f))
      BY <1>1, <3>1 DEF Outward, Levels
    <3>3. QED
      BY <1>4, <1>6, <2>1, <3>2 DEF Iret
  <2>2. CASE ~(f.form = "int32" /\ f.fl.v86)
    <3>1. ReturnFault(f.cs, s.r.cpl) \in {NoVector, 11, 13}
      BY ReturnFaults
    <3>2. QED
      BY <1>2, <1>3, <1>4, <1>6, <2>2, <3>1 DEF Iret
  <2>3. QED
    BY <2>1, <2>2
<1>7. QED
  BY <1>5, <1>6

\* IRET, when it succeeds
LEMMA IretGains ==
    ASSUME NEW s, Sound(s), NEW f, Framed(f),
           f.form \in {"int16", "int32"} \/ (s.r.fl.nt /\ ~s.r.fl.v86),
           Iret(s, f).fault = NoVector
    PROVE  GainedByRight(s, Iret(s, f))
<1>1. s.r.cpl \in Levels
  BY DEF Sound, RegistersOK
<1>2. CASE s.r.fl.nt /\ ~s.r.fl.v86
  <2> DEFINE k == s.m.tss[s.r.tr].link
  <2>1. Iret(s, f) = TaskSwitch(s, k, "iret")
    BY <1>2 DEF Iret
  <2>2. GainedByRight(s, TaskSwitch(s, k, "iret"))
    BY <1>2, <2>1, TaskGains
  <2>3. QED
    BY <2>1, <2>2
<1>3. CASE s.r.fl.v86 \/ ~s.r.fl.nt
  BY <1>1, <1>3, IretOutward, OutwardGains
<1>4. QED
  BY <1>2, <1>3

-----------------------------------------------------------------------------
\* An instruction that does not fault
LEMMA ExecGains ==
    ASSUME TasksApart, guest \in Guests, NEW s, Sound(s), NEW k \in guest.ops,
           Runnable(s, k), Exec(s, k).fault = NoVector
    PROVE  GainedByRight(s, Exec(s, k))
<1> DEFINE n == [ s EXCEPT !.r.ip = 1 - @ ]
           t == Exec(s, k)
<1>0. s.r.cpl \in Levels
  BY DEF Sound, RegistersOK
<1>1. /\ Sound(n) /\ Formed(n) /\ DOMAIN n.r = Fields /\ n.m = s.m
      /\ n.r.cpl = s.r.cpl /\ n.r.cs = s.r.cs /\ n.r.ss = s.r.ss
      /\ n.r.sp = s.r.sp /\ n.r.tr = s.r.tr /\ n.r.fl = s.r.fl
  <2> DEFINE u == [ s EXCEPT !.r.ip = 1 - s.r.ip ]
  <2>1. Formed(s) /\ DOMAIN s.r = Fields /\ RegistersOK(s.r)
    BY DEF Sound, RegistersOK, Fields
  <2>2. /\ Formed(u) /\ u.m = s.m /\ DOMAIN u.r = Fields
        /\ u.r.cpl = s.r.cpl /\ u.r.cs = s.r.cs /\ u.r.ss = s.r.ss
        /\ u.r.sp = s.r.sp /\ u.r.tr = s.r.tr /\ u.r.fl = s.r.fl
        /\ RegistersOK(u.r)
    BY <2>1, SetIp
  <2>3. n = u
    OBVIOUS
  <2> HIDE DEF n, u
  <2>4. QED
    BY <2>2, <2>3 DEF Sound
<1>2. t.fault = NoVector
  OBVIOUS
<1>3. k.op \in Operations
  BY TablesAssumption
<1>4. t = CASE k.op = "nop"     -> n
            [] k.op = "fault"   -> Raise(n, k.vec)
            [] k.op = "int"     -> IntCall(n, k.vec, "software", n.r.ip)
            [] k.op = "callf"   -> CallF(n, k.sel)
            [] k.op = "jmpf"    -> JmpF(n, k.sel)
            [] k.op = "retf"    -> RetF(n, Top(n))
            [] k.op = "iret"    -> Iret(n, Top(n))
            [] k.op = "ownretf" -> RetF(Push(n, k.f), k.f)
            [] k.op = "owniret" -> Iret(Push(n, k.f), k.f)
            [] k.op = "movss"   -> LoadSs(n, k.sel)
            [] k.op = "movds"   -> LoadDs(n, k.sel)
            [] k.op = "popf"    -> PopF(n, k.fl)
            [] k.op = "ltr"     -> Ltr(n, k.sel[1])
  BY DEF Exec
<1> HIDE DEF n, t
<1>5. ASSUME GainedByRight(n, t) PROVE GainedByRight(s, t)
  BY <1>1, <1>5, GainsAlike
<1>6. ASSUME Outward(n, t) PROVE GainedByRight(s, t)
  BY <1>0, <1>1, <1>5, <1>6, OutwardGains
<1>7. CASE k.op \in {"nop", "fault", "movss", "movds", "popf", "ltr"}
  <2>1. ASSUME t.r.cpl = n.r.cpl PROVE GainedByRight(s, t)
    BY <1>0, <1>1, <1>6, <2>1 DEF Outward, Levels
  <2>2. CASE k.op = "nop"
    BY <1>4, <2>1, <2>2 DEF t
  <2>3. CASE k.op = "fault"
    <3>1. k.vec \in Raised(guest) /\ t = Raise(n, k.vec)
      BY <1>4, <2>3 DEF Raised
    <3>2. t.r = n.r
      BY <1>1, <3>1, RaiseIs
    <3>3. QED
      BY <2>1, <3>2 DEF t
  <2>4. CASE k.op = "movss"
    <3>1. t = LoadSs(n, k.sel)
      BY <1>4, <2>4
    <3>2. LoadSs(n, k.sel).r.cpl = n.r.cpl
      BY <1>1, LoadSsSound
    <3>3. QED
      BY <2>1, <3>1, <3>2 DEF t
  <2>5. CASE k.op = "movds"
    <3>1. t = LoadDs(n, k.sel)
      BY <1>4, <2>5
    <3>2. LoadDs(n, k.sel).r.cpl = n.r.cpl
      BY <1>1, LoadDsSound
    <3>3. QED
      BY <2>1, <3>1, <3>2 DEF t
  <2>6. CASE k.op = "popf"
    <3>1. t = PopF(n, k.fl)
      BY <1>4, <2>6
    <3>2. Outward(n, n)
      BY <1>0, <1>1 DEF Outward, Levels
    <3>3. Outward(n, PopF(n, k.fl))
      BY <1>1, <3>2, RestoreOutward, RaiseOutward, OwnVectors DEF PopF
    <3>4. QED
      BY <1>6, <3>1, <3>3 DEF t
  <2>7. CASE k.op = "ltr"
    <3> DEFINE j == k.sel[1]
               u == [ n EXCEPT !.r.tr = j, !.m.busy = @ \cup {j} ]
    <3>1. t = Ltr(n, j)
      BY <1>4, <2>7
    <3> HIDE DEF j
    <3>2. t \in {Raise(n, 11), Raise(n, 13), u}
      BY <3>1 DEF Ltr
    <3>3. u.r = [ n.r EXCEPT !.tr = j ]
      BY <1>1 DEF Formed
    <3> HIDE DEF u
    <3>4. u.r.cpl = n.r.cpl
      BY <1>1, <3>3 DEF Fields
    <3>5. Raise(n, 11).r = n.r /\ Raise(n, 13).r = n.r
      BY <1>1, RaiseIs, OwnVectors
    <3>6. QED
      BY <2>1, <3>2, <3>4, <3>5 DEF t
  <2>8. QED
    BY <1>7, <2>2, <2>3, <2>4, <2>5, <2>6, <2>7
<1>8. CASE k.op = "int"
  <2>1. TaskGate(k.vec) => ~n.r.fl.v86
    BY <1>1, <1>8 DEF TasksApart, Sound, RegistersOK
  <2>2. t = IntCall(n, k.vec, "software", n.r.ip)
    BY <1>4, <1>8
  <2>3. GainedByRight(n, IntCall(n, k.vec, "software", n.r.ip))
    BY <1>1, <1>2, <2>1, <2>2, IntGains
  <2>4. QED
    BY <1>5, <2>2, <2>3 DEF t
<1>9. CASE k.op = "callf"
  <2>1. t = CallF(n, k.sel)
    BY <1>4, <1>9
  <2>2. QED
    BY <1>1, <1>2, <1>5, <2>1, CallFGains DEF t
<1>10. CASE k.op = "jmpf"
  <2>1. t = JmpF(n, k.sel)
    BY <1>4, <1>10
  <2>2. QED
    BY <1>1, <1>2, <1>5, <2>1, JmpFGains DEF t
<1>11. CASE k.op = "retf"
  <2>1. t = RetF(n, Top(n))
    BY <1>4, <1>11
  <2>2. QED
    BY <1>1, <1>6, <2>1, RetFOutward DEF t
<1>12. CASE k.op = "iret"
  <2>1. t = Iret(n, Top(n))
    BY <1>4, <1>12
  <2>2. Top(n) = Top(s)
    BY <1>1 DEF Top
  <2>3. Top(n).form \in {"int16", "int32"} \/ (n.r.fl.nt /\ ~n.r.fl.v86)
    BY <1>1, <1>12, <2>2 DEF Runnable
  <2>4. QED
    BY <1>1, <1>2, <1>5, <2>1, <2>3, TopFramed, IretGains DEF t
<1>13. CASE k.op \in {"ownretf", "owniret"}
  <2> DEFINE p == Push(n, k.f)
  <2>1. Framed(k.f)
    BY <1>13, OwnFramed
  <2>2. /\ Sound(p) /\ p.r.cpl = n.r.cpl /\ p.r.cs = n.r.cs
        /\ p.r.fl = n.r.fl /\ p.r.tr = n.r.tr /\ p.m.tss = n.m.tss
    BY <1>1, <2>1, PushedSame
  <2>3. t = IF k.op = "ownretf" THEN RetF(p, k.f) ELSE Iret(p, k.f)
    BY <1>4, <1>13
  <2> HIDE DEF p
  <2>4. ASSUME GainedByRight(p, t) PROVE GainedByRight(s, t)
    BY <1>5, <2>2, <2>4, GainsAlike
  <2>5. CASE k.op = "ownretf"
    <3>1. Outward(p, RetF(p, k.f)) /\ p.r.cpl \in Levels
      BY <1>0, <1>1, <2>2, RetFOutward
    <3>2. QED
      BY <2>3, <2>4, <2>5, <3>1, OutwardGains DEF t
  <2>6. CASE k.op = "owniret"
    <3>1. k.f.form \in {"int16", "int32"}
      BY <2>6, TablesAssumption
    <3>2. t = Iret(p, k.f)
      BY <2>3, <2>6
    <3>3. GainedByRight(p, Iret(p, k.f))
      BY <1>2, <2>1, <2>2, <3>1, <3>2, IretGains
    <3>4. QED
      BY <2>4, <3>2, <3>3 DEF t
  <2>7. QED
    BY <1>13, <2>5, <2>6
<1>14. QED
  BY <1>3, <1>7, <1>8, <1>9, <1>10, <1>11, <1>12, <1>13 DEF Operations

-----------------------------------------------------------------------------
\* An interrupt, an instruction, and the exception that it may have raised
LEMMA IterationGains ==
    ASSUME TasksApart, ProtectionInv,
           NEW irq \in Irqs \cup {NoIrq}, NEW k \in guest.ops, Iteration(irq, k)
    PROVE  LET s0 == [ r |-> r, m |-> m, fault |-> NoVector ]
               s1 == IF irq = NoIrq THEN s0
                     ELSE IntCall(s0, irq, "hardware", r.ip)
               s2 == Exec(s1, k)
           IN  /\ GainedByRight(s0, s1)
               /\ IF s2.fault = NoVector THEN GainedByRight(s1, s2)
                  ELSE GainedByRight(Rollback(s0, s1, s2),
                                     Delivered(s0, s1, s2))
<1> DEFINE s0 == [ r |-> r, m |-> m, fault |-> NoVector ]
           s1 == IF irq = NoIrq THEN s0
                 ELSE IntCall(s0, irq, "hardware", r.ip)
           s2 == Exec(s1, k)
           back == Rollback(s0, s1, s2)
           s3 == Delivered(s0, s1, s2)
<1>1. guest \in Guests /\ GuestOK(m) /\ s0.m = m /\ Sound(s0) /\ s0.r.cpl \in Levels
  BY DEF ProtectionInv, Sound, Formed, Faults, RegistersOK
<1>2. Runnable(s1, k)
  BY DEF Iteration, Ends
<1>3. irq # NoIrq => ~TaskGate(irq)
  BY DEF TasksApart
<1> HIDE DEF s0
<1>4. Sound(s1) /\ GainedByRight(s0, s1)
  <2>1. CASE irq = NoIrq
    BY <1>1, <2>1, OutwardGains DEF Outward, Levels
  <2>2. CASE irq # NoIrq
    BY <1>1, <1>3, <2>2, IntCallSound, IntCallGains
  <2>3. QED
    BY <2>1, <2>2
<1> HIDE DEF s1, s3
<1>5. s2.fault = NoVector => GainedByRight(s1, s2)
  BY <1>1, <1>2, <1>4, ExecGains
<1>6. ASSUME s2.fault # NoVector PROVE GainedByRight(back, s3)
  <2>1. OrFails(s2)
    BY <1>1, <1>2, <1>4, ExecSound
  <2> HIDE DEF s2
  <2>2. s2.fault \in Raised(guest)
    BY <1>6, <2>1 DEF OrFails, Formed, Faults
  <2>3. ~TaskGate(s2.fault)
    BY <1>1, <2>2 DEF TasksApart
  <2>4. Sound(back)
    <3> DEFINE u == [ s1 EXCEPT !.r.ip = s2.r.ip ]
    <3>1. Formed(s1) /\ DOMAIN s1.r = Fields /\ RegistersOK(s1.r)
      BY <1>4 DEF Sound, RegistersOK, Fields
    <3>2. RegistersOK(u.r)
      BY <3>1, SetIp
    <3>3. u.r = [ s1.r EXCEPT !.ip = s2.r.ip ]
      BY <3>1 DEF Formed
    <3>4. back = [ r |-> u.r, m |-> m, fault |-> s2.fault ]
      BY <1>1, <3>3 DEF Rollback
    <3> HIDE DEF u, back
    <3>5. QED
      BY <1>1, <2>2, <3>2, <3>4 DEF Sound, Formed, Faults
  <2>5. s3 = IntCall(back, s2.fault, "exception", s1.r.ip)
    BY <1>6 DEF s3, Delivered
  <2> HIDE DEF back
  <2>6. QED
    BY <2>3, <2>4, <2>5, IntCallGains
<1>7. QED
  BY <1>4, <1>5, <1>6 DEF s0, s1, s3

\* Code gains privilege only by a task switch or through a gate, at the gate's
\* target and on the empty stack of its task for that level, whatever frames,
\* gates, interrupts and faults it makes of that, in any system as TasksApart
\* says.
THEOREM PrivilegeGainedByRight ==
    TasksApart => (ProtectionSpec => PrivilegeGained)
<1> SUFFICES ASSUME TasksApart PROVE ProtectionSpec => PrivilegeGained
  OBVIOUS
<1>1. ProtectionInv /\ [ProtectionNext]_protection => ProtectionInv'
  BY ProtectionInductive
<1>2. ProtectionInv /\ [ProtectionNext]_protection =>
        [ r'.cpl < r.cpl =>
          \A irq \in Irqs \cup {NoIrq}, k \in guest.ops :
            LET s0 == [ r |-> r, m |-> m, fault |-> NoVector ]
                s1 == IF irq = NoIrq THEN s0
                      ELSE IntCall(s0, irq, "hardware", r.ip)
                s2 == Exec(s1, k)
            IN  Iteration(irq, k) =>
                  /\ GainedByRight(s0, s1)
                  /\ IF s2.fault = NoVector THEN GainedByRight(s1, s2)
                     ELSE GainedByRight(Rollback(s0, s1, s2),
                                        Delivered(s0, s1, s2)) ]_protection
  BY IterationGains
<1>3. QED
  BY <1>1, <1>2, ProtectionInitial, PTL DEF ProtectionSpec, PrivilegeGained
=============================================================================
