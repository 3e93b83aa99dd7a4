------------------------------ MODULE StringOps -------------------------------
(***************************************************************************)
(* The string instructions, and the memory below them. First the memory,   *)
(* then the instructions and the operating system that pages the program.  *)
(*                                                                         *)
(* The CPU's way to memory (memory.c): pages are translated by a buffer of *)
(* two ways a set, filled by walks through the page tables, and the writes *)
(* of an instruction wait in a cache until it is over.                     *)
(*                                                                         *)
(* An entry of the page tables has present, user and write (those of the   *)
(* directory and the table together), dirty and frame; accessed bits are   *)
(* left out, nothing here reads them.  Addresses are linear or physical    *)
(* numbers of bytes.  The A20 gate is open.                                *)
(***************************************************************************)
EXTENDS Integers, Sequences, FiniteSets

CONSTANTS
  PageSize,   \* bytes (4K)
  Pages,      \* linear pages
  Frames,     \* physical frames, numbered from 0
  TlbSets     \* sets of the buffer (256)

ASSUME PagingAssumption ==
  /\ PageSize \in Nat \ {0} /\ TlbSets \in Nat \ {0}
  /\ Pages \in Nat /\ Frames \in Nat \ {0}

VARIABLES
  pte,        \* the page tables
  tlb,        \* the buffer: [mru, way]
  ram,        \* physical memory
  wrcache     \* the writes of the instruction: <<address, bytes>>

memvars == <<pte, tlb, ram, wrcache>>

PageOf(a)   == a \div PageSize
OnOnePage(a, size) == (a % PageSize) + size <= PageSize

Empty == [ valid |-> FALSE, tag |-> 0, frame |-> 0, user |-> FALSE,
           write |-> FALSE, dirty |-> FALSE ]

EmptySet == [ mru |-> 0, way |-> [ i \in 0 .. 1 |-> Empty ] ]

\* memory_tlb_flush
Flushed == [ s \in 0 .. TlbSets - 1 |-> EmptySet ]

\* Mutant of Invalidated: only the way used last is looked at.
InvalidatedMru(p) ==
    [ tlb EXCEPT ![p % TlbSets].way[tlb[p % TlbSets].mru] =
        IF @.tag = p THEN [@ EXCEPT !.valid = FALSE] ELSE @ ]

\* memory_tlb_invalidate_page
Invalidated(p) ==
    [ tlb EXCEPT ![p % TlbSets].way =
        [ i \in 0 .. 1 |-> IF @[i].valid /\ @[i].tag = p
                           THEN [@[i] EXCEPT !.valid = FALSE] ELSE @[i] ] ]

\* page_access_is_allowed: only programs, and systems that ask for it, mind
\* that a page is not to be written.
Allowed(access, entry) ==
    /\ access.user => entry.user
    /\ access.write /\ ~entry.write => ~access.user /\ ~access.protect

\* The way that holds page p, the one used last first.
Hits(p) == { i \in 0 .. 1 : LET w == tlb[p % TlbSets].way[i]
                            IN  w.valid /\ w.tag = p }
Hit(p) == IF tlb[p % TlbSets].mru \in Hits(p) THEN tlb[p % TlbSets].mru
          ELSE CHOOSE i \in Hits(p) : TRUE

\* The way that a walk fills.
Victim(s) ==
    IF ~tlb[s].way[0].valid THEN 0
    ELSE IF ~tlb[s].way[1].valid THEN 1 ELSE 1 - tlb[s].mru

\* Mutant of Noted: a hit does not carry a first write to the tables.
NotedOnWalk(p, access, known) ==
    IF access.write /\ Hits(p) = {} THEN [pte EXCEPT ![p].dirty = TRUE] ELSE pte

\* The first write to a page is noted in the tables, and in the buffer.
Noted(p, access, known) ==
    IF access.write /\ ~known.dirty THEN [pte EXCEPT ![p].dirty = TRUE] ELSE pte

\* translate_page and page_walk_translate
Translated(p, access) ==
    LET s == p % TlbSets
        missed == Hits(p) = {}
        i == IF missed THEN Victim(s) ELSE Hit(p)
        known == IF missed THEN [ valid |-> TRUE, tag |-> p,
                     frame |-> pte[p].frame, user |-> pte[p].user,
                     write |-> pte[p].write, dirty |-> pte[p].dirty ]
                 ELSE tlb[s].way[i]
    IN  IF missed /\ ~pte[p].present
        THEN [fault |-> "absent", tlb |-> tlb, pte |-> pte]
        ELSE IF ~Allowed(access, known)
        THEN [ fault |-> "denied", pte |-> pte,
               tlb |-> IF missed THEN tlb ELSE [tlb EXCEPT ![s].mru = i] ]
        ELSE [ fault |-> "none", frame |-> known.frame,
               tlb |-> [ tlb EXCEPT ![s].mru = i, ![s].way[i] =
                           [known EXCEPT !.dirty = @ \/ access.write] ],
               pte |-> Noted(p, access, known) ]

-----------------------------------------------------------------------------
(* Physical memory                                                         *)

Within(entry, a) == a \in entry[1] .. entry[1] + Len(entry[2]) - 1

\* cpu_read_phys_u8: what the instruction wrote first, or memory.
PhysByte(a) ==
    LET own == { n \in DOMAIN wrcache : Within(wrcache[n], a) }
        n   == CHOOSE k \in own : \A l \in own : k <= l
    IN  IF own = {} THEN ram[a] ELSE wrcache[n][2][a - wrcache[n][1] + 1]

PhysBytes(a, size) == [ i \in 1 .. size |-> PhysByte(a + i - 1) ]

\* wrcache_flush: in the order of the writes.
Committed ==
    [ a \in DOMAIN ram |->
        LET own == { n \in DOMAIN wrcache : Within(wrcache[n], a) }
            n   == CHOOSE k \in own : \A l \in own : k >= l
        IN  IF own = {} THEN ram[a] ELSE wrcache[n][2][a - wrcache[n][1] + 1] ]

-----------------------------------------------------------------------------
(***************************************************************************)
(* The string instructions (cpu.c) over this memory, one                   *)
(* element at a time, and a system that pages the program's memory in and  *)
(* out between the elements.  An instruction that faults is taken back and *)
(* begins again.                                                           *)
(***************************************************************************)

CONSTANTS
  Accumulator,       \* the two bytes of AX
  PortByte(_),       \* the n-th byte that the port gives
  Contents,          \* what the program's memory holds: bytes by address
  Programs,          \* [i: the instruction, si, di, cx, access, shared,
                     \*  resident]: pages shared until they are written, or
                     \*  all there, writable and left alone
  MaxMoves           \* bound: pages taken away or cleaned

Sources      == {"movs", "cmps", "lods", "outs"}          \* read at SI
Destinations == {"movs", "cmps", "stos", "scas", "ins"}   \* use DI
Comparisons  == {"cmps", "scas"}

\* The operands of a program lie in its pages.
InPages(a)    == a \in Nat /\ PageOf(a) \in 0 .. Pages - 1
ElementsOf(g) == IF g.i.rep = "none" THEN 1 ELSE g.cx
OperandsOf(g) ==
    \A n \in 0 .. ElementsOf(g) - 1, k \in 0 .. g.i.size - 1 :
      /\ g.i.op \in Sources      => InPages(g.si + n * g.i.step + k)
      /\ g.i.op \in Destinations => InPages(g.di + n * g.i.step + k)

\* Instructions on bytes and on words; those on double words are left out.
ASSUME ProgramsAssumption ==
  /\ DOMAIN Contents = 0 .. Pages * PageSize - 1
  /\ Accumulator = <<Accumulator[1], Accumulator[2]>>
  /\ \A g \in Programs :
       /\ g.i.op \in Sources \cup Destinations
       /\ g.i.rep \in {"none", "rep", "repe", "repne"}
       /\ g.i.size \in 1 .. 2 /\ g.i.step \in Int
       /\ g.si \in Int /\ g.di \in Int /\ g.cx \in Nat
       /\ g.access.user \in BOOLEAN /\ g.access.protect \in BOOLEAN
       /\ g.resident \in BOOLEAN
       /\ OperandsOf(g)

VARIABLES
  program, regs,
  phase,      \* "next", "run", "fault", "over"
  acc,        \* the accesses of the element that are left
  loaded,     \* the bytes that it read
  fault,      \* [page, kind] of the exception, kind "none" without one
  sent,       \* the bytes written to the port
  taken,      \* the number of bytes read from it
  disk,       \* the pages that are not in memory
  moves

vars == <<memvars, program, regs, phase, acc, loaded, fault, sent, taken,
          disk, moves>>
system == <<program, disk, moves>>

i == program.i
NoFault == [page |-> 0, kind |-> "none"]
Junk == 255                   \* what a read gives after a fault

Read(a)  == [op |-> "read", at |-> a, size |-> i.size]
Write(a) == [op |-> "write", at |-> a, size |-> i.size]
Port(op) == [op |-> op, at |-> 0, size |-> i.size]

\* The accesses of an element, in the order in which the code makes them.
Accesses ==
    CASE i.op = "movs" -> <<Read(regs.si), Write(regs.di)>>
      [] i.op = "cmps" -> <<Read(regs.si), Read(regs.di)>>
      [] i.op = "stos" -> <<Write(regs.di)>>
      [] i.op = "lods" -> <<Read(regs.si)>>
      [] i.op = "scas" -> <<Read(regs.di)>>
      [] i.op = "ins"  -> <<Port("in"), Write(regs.di)>>
      [] i.op = "outs" -> <<Read(regs.si), Port("out")>>

-----------------------------------------------------------------------------
ProgramPages == 0 .. Pages - 1
PageBytes(p) == [ k \in 0 .. PageSize - 1 |-> Contents[p * PageSize + k] ]

Absent == [ present |-> FALSE, user |-> TRUE, write |-> FALSE,
            dirty |-> FALSE, frame |-> 0 ]

\* Nothing is there, or as much as there are frames for.
Init ==
    /\ program \in Programs
    /\ regs = [ si |-> program.si, di |-> program.di, cx |-> program.cx,
                zf |-> FALSE, ax |-> Accumulator ]
    /\ pte = [ p \in ProgramPages |-> [ Absent EXCEPT
                 !.present = program.resident /\ p < Frames,
                 !.frame = p % Frames, !.write = program.resident ] ]
    /\ tlb = Flushed /\ wrcache = <<>>
    /\ ram = [ a \in 0 .. Frames * PageSize - 1 |->
                 IF program.resident /\ a \in DOMAIN Contents THEN Contents[a]
                 ELSE 0 ]
    /\ disk = [ p \in ProgramPages |-> PageBytes(p) ]
    /\ phase = "next" /\ acc = <<>> /\ loaded = <<>> /\ fault = NoFault
    /\ sent = <<>> /\ taken = 0 /\ moves = 0

\* cpu_exec and the head of every string instruction.
Fetch ==
    /\ phase = "next"
    /\ IF i.rep # "none" /\ regs.cx = 0 THEN phase' = "over" /\ UNCHANGED acc
       ELSE phase' = "run" /\ acc' = Accesses
    /\ loaded' = <<>>
    /\ UNCHANGED <<memvars, system, regs, fault, sent, taken>>

Split(a) == <<[a EXCEPT !.size = 1], [a EXCEPT !.size = 1, !.at = @ + 1]>>
Spans(op) == /\ phase = "run" /\ acc # <<>> /\ Head(acc).op = op

\* cpu_read_access_split and cpu_write_access_split: byte by byte.
SplitAccess ==
    /\ Spans("read") \/ Spans("write")
    /\ ~OnOnePage(Head(acc).at, Head(acc).size)
    /\ acc' = Split(Head(acc)) \o Tail(acc)
    /\ UNCHANGED <<memvars, system, regs, phase, loaded, fault, sent, taken>>

\* translate_page's outcome for the access at hand.
Way(write) ==
    Translated(PageOf(Head(acc).at),
        [ user |-> program.access.user, protect |-> program.access.protect,
          write |-> write ])
Physical(t, a) == t.frame * PageSize + (a.at % PageSize)

ReadAccess ==
    /\ Spans("read") /\ OnOnePage(Head(acc).at, Head(acc).size)
    /\ LET a == Head(acc)
           junk == [ k \in 1 .. a.size |-> Junk ]
           t == Way(FALSE)
       IN  IF fault.kind # "none"
           THEN loaded' = loaded \o junk /\ UNCHANGED <<tlb, pte, fault>>
           ELSE /\ tlb' = t.tlb /\ pte' = t.pte
                /\ IF t.fault # "none"
                   THEN /\ fault' = [page |-> PageOf(a.at), kind |-> t.fault]
                        /\ loaded' = loaded \o junk
                   ELSE /\ loaded' = loaded \o PhysBytes(Physical(t, a), a.size)
                        /\ UNCHANGED fault
    /\ acc' = Tail(acc)
    /\ UNCHANGED <<ram, wrcache, system, regs, phase, sent, taken>>

\* What is stored: what was read, or the accumulator; byte k of a split one.
Stored(a) ==
    LET v == IF i.op = "stos" THEN Accumulator ELSE loaded
        from == IF a.size < i.size /\ Len(acc) = 1 THEN 2 ELSE 1
    IN  SubSeq(v, from, from + a.size - 1)

WriteAccess ==
    /\ Spans("write") /\ OnOnePage(Head(acc).at, Head(acc).size)
    /\ LET a == Head(acc)
           t == Way(TRUE)
       IN  IF fault.kind # "none" THEN UNCHANGED <<tlb, pte, fault, wrcache>>
           ELSE /\ tlb' = t.tlb /\ pte' = t.pte
                /\ IF t.fault # "none"
                   THEN /\ fault' = [page |-> PageOf(a.at), kind |-> t.fault]
                        /\ UNCHANGED wrcache
                   ELSE /\ wrcache' = Append(wrcache, <<Physical(t, a), Stored(a)>>)
                        /\ UNCHANGED fault
    /\ acc' = Tail(acc)
    /\ UNCHANGED <<ram, system, regs, phase, loaded, sent, taken>>

\* The port is read or written whether or not the element faulted.
PortAccess ==
    /\ Spans("in") \/ Spans("out")
    /\ LET n == Head(acc).size
       IN  IF Head(acc).op = "in"
           THEN /\ loaded' = [ k \in 1 .. n |-> PortByte(taken + k) ]
                /\ taken' = taken + n /\ UNCHANGED sent
           ELSE sent' = sent \o loaded /\ UNCHANGED <<loaded, taken>>
    /\ acc' = Tail(acc)
    /\ UNCHANGED <<memvars, system, regs, phase, fault>>

Equal == IF i.op = "scas" THEN SubSeq(Accumulator, 1, i.size) = loaded
         ELSE SubSeq(loaded, 1, i.size) = SubSeq(loaded, i.size + 1, 2 * i.size)

Advanced ==
    [ regs EXCEPT
        !.si = IF i.op \in Sources THEN @ + i.step ELSE @,
        !.di = IF i.op \in Destinations THEN @ + i.step ELSE @,
        !.cx = IF i.rep = "none" THEN @ ELSE @ - 1,
        !.zf = IF i.op \in Comparisons THEN Equal ELSE @,
        !.ax = IF i.op = "lods" THEN loaded ELSE @ ]

\* The flag ends a comparison; else the instruction goes back to itself.
Last == \/ i.rep = "none"
        \/ /\ i.op \in Comparisons
           /\ i.rep = (IF Equal THEN "repne" ELSE "repe")

\* The end of the element: it is taken back, or its writes are committed.
Retire ==
    /\ phase = "run" /\ acc = <<>>
    /\ IF fault.kind # "none"
       THEN phase' = "fault" /\ UNCHANGED <<regs, ram>>
       ELSE /\ phase' = IF Last THEN "over" ELSE "next"
            /\ regs' = Advanced /\ ram' = Committed
    /\ wrcache' = <<>> /\ loaded' = <<>>
    /\ UNCHANGED <<pte, tlb, system, acc, fault, sent, taken>>

-----------------------------------------------------------------------------
(* The system                                                              *)

Present == { p \in ProgramPages : pte[p].present }
Free    == (0 .. Frames - 1) \ { pte[p].frame : p \in Present }
InFrame(f) == [ k \in 0 .. PageSize - 1 |-> ram[f * PageSize + k] ]

Forget(p, how) == tlb' = IF how = "page" THEN Invalidated(p) ELSE Flushed

\* The page fault's handler: it brings the page in ...
PageIn ==
    /\ phase = "fault" /\ fault.kind = "absent" /\ Free # {}
    /\ LET f == CHOOSE g \in Free : TRUE
           p == fault.page
       IN  /\ pte' = [pte EXCEPT ![p] = [ Absent EXCEPT !.present = TRUE,
                        !.frame = f, !.write = p \notin program.shared ]]
           /\ ram' = [ a \in DOMAIN ram |-> IF PageOf(a) = f
                         THEN disk[p][a % PageSize] ELSE ram[a] ]
    /\ phase' = "next" /\ fault' = NoFault
    /\ UNCHANGED <<tlb, wrcache, system, regs, acc, loaded, sent, taken>>

\* ... or lets it be written.
Unshare ==
    /\ phase = "fault" /\ fault.kind = "denied"
    /\ pte' = [pte EXCEPT ![fault.page].write = TRUE]
    /\ Forget(fault.page, "page")
    /\ phase' = "next" /\ fault' = NoFault
    /\ UNCHANGED <<ram, wrcache, system, regs, acc, loaded, sent, taken>>

Moving == /\ phase \in {"next", "fault"} /\ ~program.resident
          /\ moves < MaxMoves /\ moves' = moves + 1

\* A page is taken away; what was written to it goes to the disk first.
PageOut(p, how) ==
    /\ Moving /\ p \in Present
    /\ disk' = IF pte[p].dirty THEN [disk EXCEPT ![p] = InFrame(pte[p].frame)]
               ELSE disk
    /\ pte' = [pte EXCEPT ![p] = Absent]
    /\ Forget(p, how)
    /\ UNCHANGED <<ram, wrcache, program, regs, phase, acc, loaded, fault, sent, taken>>

\* Or it stays, and is clean from now on.
Clean(p, how) ==
    /\ Moving /\ p \in Present /\ pte[p].dirty
    /\ disk' = [disk EXCEPT ![p] = InFrame(pte[p].frame)]
    /\ pte' = [pte EXCEPT ![p].dirty = FALSE]
    /\ Forget(p, how)
    /\ UNCHANGED <<ram, wrcache, program, regs, phase, acc, loaded, fault, sent, taken>>

Next == \/ Fetch \/ SplitAccess \/ ReadAccess \/ WriteAccess \/ PortAccess
        \/ Retire \/ PageIn \/ Unshare
        \/ \E p \in ProgramPages, how \in {"page", "all"} :
             PageOut(p, how) \/ Clean(p, how)

Spec == Init /\ [][Next]_vars

-----------------------------------------------------------------------------
\* The program's memory, wherever it is.
View == [ a \in DOMAIN Contents |->
            IF pte[PageOf(a)].present
            THEN ram[pte[PageOf(a)].frame * PageSize + (a % PageSize)]
            ELSE disk[PageOf(a)][a % PageSize] ]

InElement == phase = "run"

\* A string instruction does what it does on a machine without paging: every
\* element once and as a whole, whatever faults, comes and goes between its
\* accesses, however its operands lie across pages and overlap, and no write
\* is lost on a page that the buffer knew to be written.
Machine == INSTANCE StringMachine WITH
    mem <- View, over <- phase = "over",
    out <- IF InElement /\ i.op = "outs" /\ acc = <<>>
           THEN SubSeq(sent, 1, Len(sent) - i.size) ELSE sent,
    taken <- IF InElement /\ i.op = "ins" /\ loaded # <<>>
             THEN taken - i.size ELSE taken
ImplementsStrings == Machine!Spec

\* What the buffer says of a page is what the tables say.
BufferAgrees ==
    \A s \in DOMAIN tlb : \A k \in 0 .. 1 :
      LET w == tlb[s].way[k]
      IN  w.valid =>
            /\ pte[w.tag].present /\ pte[w.tag].frame = w.frame
            /\ pte[w.tag].write = w.write /\ (w.dirty => pte[w.tag].dirty)

\* A faulting instruction "should not modify anything" (cpu.c:7067): the port
\* sees every element of the instruction once.
PortsExact == phase = "next" =>
    Len(sent) + taken = (program.cx - regs.cx) * i.size
=============================================================================
