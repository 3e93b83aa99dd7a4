------------------------------ MODULE VgaDrawing ------------------------------
(***************************************************************************)
(* How the CPU writes and reads display memory (gd5440.c): the memory map, *)
(* the banks, the addressing modes, the write and read modes with their    *)
(* latches, and the fast path for words.  A byte is the set of its bits    *)
(* that are one.                                                           *)
(*                                                                         *)
(* The registers g: map (0 .. 3), svga and chain4, odd (chain-2 writes),   *)
(* oddread, mask, mode, find (read mode 1), setr, enable, compare, care,   *)
(* plane, func, rot, bits (the bit mask), by8, by16, ext, latch8, low and  *)
(* low2 (registers 10 and 11, the second bytes of the colours), bank0,     *)
(* bank1, fast.  The picture is shown through g's addressing, see          *)
(* Renderers.                                                              *)
(***************************************************************************)
EXTENDS Renderers, TLC, FiniteSets

VARIABLES
  g,        \* the registers
  memory,   \* vram
  latch     \* latch.b, eight bytes

memvars == <<g, memory, latch>>

Bits   == 0 .. 7
Byte   == SUBSET Bits
Nobody == -1                  \* an address outside the window

Window == 2^WindowTop         \* 64K
Invert(v) == Bits \ v
Either(v, w) == (v \ w) \cup (w \ v)

-----------------------------------------------------------------------------
(* Addresses                                                               *)

\* svga_decode_addr: offset a of the 128K window.
Decode(a) ==
    CASE g.map = 0 -> a
      [] g.map = 1 -> IF a >= Window THEN Nobody ELSE a
      [] g.map = 2 -> IF a - Window \in 0 .. Window \div 2 - 1
                      THEN a - Window ELSE Nobody
      [] g.map = 3 -> IF a - 3 * (Window \div 2) \in 0 .. Window \div 2 - 1
                      THEN a - 3 * (Window \div 2) ELSE Nobody

\* gd5440_core_write: the banked window, or the standard adapter's.
Target(a) ==
    IF ~g.svga /\ g.map # 1 THEN Decode(a)
    ELSE LET w == a % (IF g.map >= 2 THEN Window \div 2 ELSE Window)
         IN  (w % (Window \div 2))
             + (IF w >= Window \div 2 THEN g.bank1 ELSE g.bank0)

\* Chain-4 without packing: every fourth byte of a plane is used.
Chained(x) == 4 * ((x % Window) - (x % 4)) + 4 * Bit(x, WindowTop)
              + 8 * Bit(x, WindowTop + 1)
              + (x \div (4 * Window)) * (4 * Window)

\* How a write's address is taken.
Writing ==
    IF g.mode \in {4, 5} THEN IF g.by16 THEN "by16"
                              ELSE IF g.odd THEN "odd" ELSE "plain"
    ELSE IF g.by8 THEN "by8"
    ELSE IF g.chain4 THEN IF g.svga THEN "packed" ELSE "chained"
    ELSE IF g.odd THEN "odd" ELSE "plain"

\* The group of bytes that a write to address x reaches ...
WriteGroup(x) ==
    (CASE Writing = "by16"    -> 16 * x
       [] Writing = "by8"     -> 8 * x
       [] Writing = "packed"  -> x - (x % 4)
       [] Writing = "chained" -> Chained(x)
       [] Writing = "odd"     -> 4 * (x - (x % 2))
       [] Writing = "plain"   -> 4 * x) % VramSize

\* ... and which of them the map mask lets through.
WriteMask(x) ==
    LET mask == IF g.by8 THEN g.mask ELSE g.mask \cap 0 .. 3
    IN  CASE Writing \in {"packed", "chained"} -> {x % 4}
          [] Writing = "odd" -> mask \cap {x % 2, (x % 2) + 2}
          [] OTHER           -> mask

Count == IF g.latch8 THEN 8 ELSE 4

\* Byte i of the group is written: with both extensions, bit 7 is the first.
Passes(x, i) == IF g.ext /\ g.by8 THEN 7 - i \in WriteMask(x)
                ELSE i \in WriteMask(x)

-----------------------------------------------------------------------------
(* Writing                                                                 *)

Rotated8(v) == { (b + 8 - g.rot) % 8 : b \in v }

\* Mutant of Selected: write mode 3 does not rotate.
SelectedStraight(v) == IF g.mode = 3 THEN g.bits \cap v ELSE g.bits

\* The bits of every byte that a write may change.
Selected(v) == IF g.mode = 3 THEN g.bits \cap Rotated8(v) ELSE g.bits

Whole(b) == IF b THEN Bits ELSE {}

\* The source is the value as it is, past set/reset.
Direct == /\ g.mode = 0 /\ g.bits = Bits /\ g.func = "set"
          /\ g.enable = {} \/ g.svga

Source(v, i) ==
    CASE g.mode = 0 -> IF ~Direct /\ i \in g.enable THEN Whole(i \in g.setr)
                       ELSE Rotated8(v)
      [] g.mode = 2 -> Whole(i \in v)
      [] g.mode = 3 -> Whole(i \in g.setr)

Combine(s, l, m) ==
    CASE g.func = "set" -> (s \cap m) \cup (l \cap Invert(m))
      [] g.func = "and" -> (s \cup Invert(m)) \cap l
      [] g.func = "or"  -> (s \cap m) \cup l
      [] g.func = "xor" -> Either(s \cap m, l)

Stored(v, x, i) ==
    IF g.mode = 1 THEN latch[i]
    ELSE Combine(Source(v, i), latch[i], Selected(v))

\* write_modes45: eight pixels of one or two bytes, from the bits of v.  Mode
\* 4 draws those that are one; the others are left, or in mode 5 cleared.
Expanded(v, x) ==
    LET base == (IF g.by16 THEN WriteGroup(x) ELSE 2 * WriteGroup(x)) % VramSize
        wide == IF g.by16 THEN 2 ELSE 1
        at(n) == (n - base) \div wide
        on(n) == 7 - at(n) \in v
        sent == IF g.mode = 4 THEN g.mask \cap v ELSE g.mask
    IN  [ n \in DOMAIN memory |->
            IF n < base \/ n >= base + 8 * wide \/ 7 - at(n) \notin sent
            THEN memory[n]
            ELSE IF (n - base) % wide = 0
                 THEN IF on(n) THEN g.enable ELSE g.setr
                 ELSE IF on(n) THEN g.low2 ELSE g.low ]

\* svga_write_common
WriteByte(x, v) ==
    IF g.mode \in {4, 5} THEN Expanded(v, x)
    ELSE [ n \in DOMAIN memory |->
             LET i == n - WriteGroup(x)
             IN  IF i \in 0 .. Count - 1 /\ Passes(x, i)
                 THEN Stored(v, x, i) ELSE memory[n] ]

\* A word: straight to memory while the fast flag is set.
WriteWord(x, v, w) == [ memory EXCEPT ![x % VramSize] = v,
                                      ![(x + 1) % VramSize] = w ]

-----------------------------------------------------------------------------
(* Reading                                                                 *)

Reading ==
    IF g.by16 THEN "by16" ELSE IF g.by8 THEN "by8"
    ELSE IF g.chain4 THEN IF g.svga THEN "packed" ELSE "chained"
    ELSE IF g.oddread THEN "odd" ELSE "plain"

\* The latches are those of the address as it is, except in packed modes.
LatchGroup(x) == IF Reading = "packed" THEN (x - (x % 4)) % VramSize
                 ELSE (Count * x) % VramSize

Latched(x) ==
    LET base == LatchGroup(x)
    IN  [ i \in 0 .. 7 |-> IF i >= Count THEN latch[i]
                            ELSE memory[base + (i % (8 - (base % 8)))] ]

\* The dots whose colour agrees with the one looked for, where it matters.
Found(l) == { b \in Bits : \A p \in g.care \cap 0 .. Count - 1 :
                             (b \in l[p]) = (p \in g.compare) }

ReadByte(x) ==
    memory[(CASE Reading = "by16"    -> 16 * x + g.plane
              [] Reading = "by8"     -> 8 * x + g.plane
              [] Reading = "packed"  -> x
              [] Reading = "chained" -> Chained(x) + (x % 4)
              [] Reading = "odd" -> 4 * (x - (x % 2)) + 2 * (g.plane \div 2)
                                    + (x % 2)
              [] Reading = "plain"   -> 4 * x + g.plane) % VramSize]

\* A packed mode reads memory, whatever the read mode.
ReadValue(x) == IF g.find /\ Reading # "packed" THEN Found(Latched(x))
                ELSE ReadByte(x)

-----------------------------------------------------------------------------
(***************************************************************************)
(* Guests draw on the display adapter the way programs do: they set the    *)
(* registers of a write mode and access display memory, step by step, and  *)
(* the picture that the renderers would show is compared with what was     *)
(* meant.  A mode is planar (a key of its picture is a dot, its value the  *)
(* set of planes), or else every byte that the CPU can name is a key.      *)
(***************************************************************************)

CONSTANTS
  Screens,    \* the modes: a sequence of [planar, g: registers, keys, idioms]
  MaxDraws    \* bound: drawings by the guest

VARIABLES
  screen,     \* the number of the mode
  todo,       \* the steps of the drawing that are left
  got,        \* the last byte read
  want,       \* ghost: the bytes it may be
  picture,    \* ghost: what the guest means to be shown
  draws

vars == <<g, memory, latch, screen, todo, got, want, picture, draws>>

Planes == 0 .. 3
Mode   == Screens[screen]

\* The byte of address x of a mode that is not planar, where it is shown.
Lit(x) ==
    IF g.address = "word15" THEN memory[Remap(g, 2 * (x - (x % 2)), 0) + (x % 2)]
    ELSE memory[Remap(g, x - (x % 4), 0) + (x % 4)]

\* The planes of dot b of the group of eight dots at address x.
Colour(x, b) == { p \in Planes : b \in memory[Remap(g, 4 * x, 0) + p] }

View(k) == IF Mode.planar THEN Colour(k[1], k[2]) ELSE Lit(k)

Shown == [ k \in DOMAIN picture |-> View(k) ]

-----------------------------------------------------------------------------
(* The drawings                                                            *)

Graphics(f) == <<"gdc", f>>
Sequencer(f) == <<"seq", f>>
Extension(f) == <<"adv", f>>
ByteRead(a) == <<"read", a>>
ByteWrite(a, v) == <<"write", a, v>>
WordWrite(a, v, w) == <<"word", a, v, w>>

Plain == [ mode |-> 0, func |-> "set", rot |-> 0, bits |-> Bits,
           enable |-> {}, setr |-> {}, find |-> FALSE ]

Off(v, n) == { (b + 8 - n) % 8 : b \in v }

\* What a drawing does.
Steps(d) ==
    CASE d.op = "pixel" -> <<
           Graphics([Plain EXCEPT !.bits = {d.b}, !.enable = Planes, !.setr = d.c]),
           ByteRead(d.a), ByteWrite(d.a, {}) >>
      [] d.op = "logic" -> <<
           Graphics([Plain EXCEPT !.mode = 2, !.bits = {d.b}, !.func = d.func]),
           ByteRead(d.a), ByteWrite(d.a, d.c) >>
      [] d.op = "glyph" -> <<
           Graphics([Plain EXCEPT !.mode = 3, !.rot = d.n, !.setr = d.c]),
           ByteRead(d.a), ByteWrite(d.a, d.v), ByteRead(d.to), ByteWrite(d.to, d.v) >>
      [] d.op = "copy" -> <<
           Graphics([Plain EXCEPT !.mode = 1]), ByteRead(d.a), ByteWrite(d.to, {}) >>
      [] d.op = "fill" -> <<
           Graphics([Plain EXCEPT !.rot = 1]), Sequencer([mask |-> d.c]), ByteWrite(d.a, Bits),
           Sequencer([mask |-> Planes \ d.c]), ByteWrite(d.a, {}),
           Sequencer([mask |-> Planes]) >>
      [] d.op = "find" -> <<
           Graphics([find |-> TRUE, compare |-> d.c, care |-> d.care]), ByteRead(d.a) >>
      [] d.op = "byte" -> <<
           Graphics(Plain), Extension([bank0 |-> d.bank, bank1 |-> d.bank2]),
           ByteWrite(d.a, d.v), ByteRead(d.a) >>
      [] d.op = "word" -> <<
           Graphics(Plain), Extension([bank0 |-> d.bank, bank1 |-> d.bank2]),
           WordWrite(d.a, d.v, Invert(d.v)), ByteRead(d.a) >>
      [] d.op = "expand" -> <<
           Extension([ext |-> TRUE, by8 |-> TRUE, latch8 |-> TRUE, by16 |-> FALSE,
                bank0 |-> 0, bank1 |-> 8]),
           Graphics([Plain EXCEPT !.mode = d.mode, !.enable = d.c, !.setr = d.c2]),
           Sequencer([mask |-> d.mask]), ByteWrite(d.a, d.v), Sequencer([mask |-> Planes]),
           Extension([ext |-> FALSE, by8 |-> FALSE, latch8 |-> FALSE,
                by16 |-> FALSE]) >>
      [] d.op = "move8" -> <<
           Extension([ext |-> TRUE, by8 |-> TRUE, latch8 |-> TRUE, by16 |-> FALSE,
                bank0 |-> 0, bank1 |-> 8]),
           Graphics([Plain EXCEPT !.mode = 1]), Sequencer([mask |-> d.mask]),
           ByteRead(d.a), ByteWrite(d.to, {}), Sequencer([mask |-> Planes]),
           Extension([ext |-> FALSE, by8 |-> FALSE, latch8 |-> FALSE,
                by16 |-> FALSE]) >>

Dots(a, v) == { <<a, b>> : b \in v }
Logic(func, c, old) == CASE func = "set" -> c       [] func = "and" -> c \cap old
                         [] func = "or" -> c \cup old [] func = "xor" -> Either(c, old)

\* What it means.
Meant(d) ==
    CASE d.op = "pixel" -> <<d.a, d.b>> :> d.c
      [] d.op = "logic" ->
           <<d.a, d.b>> :> Logic(d.func, d.c, picture[d.a, d.b])
      [] d.op = "glyph" -> [ k \in Dots(d.a, Off(d.v, d.n))
                                   \cup Dots(d.to, Off(d.v, d.n)) |-> d.c ]
      [] d.op = "copy" -> [ k \in Dots(d.to, Bits) |-> picture[d.a, k[2]] ]
      [] d.op = "fill" -> [ k \in Dots(d.a, Bits) |-> d.c ]
      [] d.op = "find" -> <<>>
      [] d.op = "byte" -> d.at :> d.v
      [] d.op = "word" -> d.at :> d.v @@ d.at + 1 :> Invert(d.v)
      [] d.op = "expand" ->
           [ x \in { y \in 8 * d.a .. 8 * d.a + 7 :
                       /\ 7 - (y - 8 * d.a) \in d.mask
                       /\ d.mode = 5 \/ 7 - (y - 8 * d.a) \in d.v } |->
               IF 7 - (x - 8 * d.a) \in d.v THEN d.c ELSE d.c2 ]
      [] d.op = "move8" ->
           [ x \in { y \in 8 * d.to .. 8 * d.to + 7 : 7 - (y % 8) \in d.mask } |->
               picture[x - 8 * d.to + 8 * d.a] ]

Wanted(d) ==
    CASE d.op = "find" -> {{ b \in Bits : picture[d.a, b] \cap d.care
                                          = d.c \cap d.care }}
      [] d.op \in {"byte", "word"} -> {d.v}
      [] OTHER -> Byte

-----------------------------------------------------------------------------
Init ==
    /\ screen \in DOMAIN Screens
    /\ g = Mode.g
    /\ memory = [ a \in 0 .. VramSize - 1 |-> { b \in Bits : (a + b) % 3 = 0 } ]
    /\ latch = [ i \in 0 .. 7 |-> {} ]
    /\ todo = <<>> /\ got = {} /\ want = Byte /\ draws = 0
    /\ picture = [ k \in Mode.keys |-> View(k) ]

Draw(d) ==
    /\ todo = <<>> /\ draws < MaxDraws
    /\ todo' = Steps(d)
    /\ want' = Wanted(d)
    /\ picture' = Meant(d) @@ picture
    /\ draws' = draws + 1
    /\ UNCHANGED <<memvars, screen, got>>

Step(op) == todo # <<>> /\ Head(todo)[1] = op /\ todo' = Tail(todo)

FastWith(r) == r.bits = Bits /\ r.func = "set" /\ r.enable = {}
               /\ r.chain4 /\ r.svga

\* gd5440_core_out, indices 0 to 8 of the graphics controller.
GdcWrite ==
    /\ Step("gdc")
    /\ LET r == Head(todo)[2] @@ g
       IN  g' = [ r EXCEPT !.mode = IF g.ext THEN @ ELSE @ % 4,
                           !.fast = FastWith(r) ]
    /\ UNCHANGED <<memory, latch, screen, got, want, picture, draws>>

SeqWrite ==
    /\ Step("seq")
    /\ g' = Head(todo)[2] @@ g
    /\ UNCHANGED <<memory, latch, screen, got, want, picture, draws>>

\* Indices 9 to B.  Without the extensions, what needs them goes; the fast
\* flag stays as it is.
AdvWrite ==
    /\ Step("adv")
    /\ LET r == Head(todo)[2] @@ g
       IN  g' = IF g.ext /\ ~r.ext
                THEN [ r EXCEPT !.mode = @ % 4, !.by16 = FALSE,
                                !.setr = @ \cap Planes,
                                !.enable = @ \cap Planes,
                                !.mask = @ \cap Planes ]
                ELSE r
    /\ UNCHANGED <<memory, latch, screen, got, want, picture, draws>>

ReadMem ==
    /\ Step("read")
    /\ LET x == Target(Head(todo)[2])
       IN  /\ got' = IF x = Nobody THEN Bits ELSE ReadValue(x)
           /\ latch' = IF x = Nobody THEN latch ELSE Latched(x)
    /\ UNCHANGED <<g, memory, screen, want, picture, draws>>

WriteMem ==
    /\ Step("write")
    /\ LET x == Target(Head(todo)[2])
       IN  memory' = IF x = Nobody THEN memory
                     ELSE WriteByte(x, Head(todo)[3])
    /\ UNCHANGED <<g, latch, screen, got, want, picture, draws>>

\* gd5440_core_writew: without the fast flag, and in write modes 4 and 5, the
\* word's bytes follow each other.
WriteMemWord ==
    /\ todo # <<>> /\ Head(todo)[1] = "word"
    /\ LET x == Target(Head(todo)[2])
           v == Head(todo)[3]
           w == Head(todo)[4]
       IN  IF x = Nobody THEN UNCHANGED memory /\ todo' = Tail(todo)
           ELSE IF g.fast /\ g.mode < 4
           THEN memory' = WriteWord(x, v, w) /\ todo' = Tail(todo)
           ELSE /\ memory' = WriteByte(x, v)
                /\ todo' = <<ByteWrite(Head(todo)[2] + 1, w)>> \o Tail(todo)
    /\ UNCHANGED <<g, latch, screen, got, want, picture, draws>>

Next == \/ \E d \in Mode.idioms : Draw(d)
        \/ GdcWrite \/ SeqWrite \/ AdvWrite
        \/ ReadMem \/ WriteMem \/ WriteMemWord

Spec == Init /\ [][Next]_vars

-----------------------------------------------------------------------------
\* Whenever a drawing is done, the picture that the mode's renderer shows is
\* the one that the guest meant, and what it read back or looked for is what
\* it should have found: the addresses of every mode agree with those that
\* the scan-out uses, the write modes combine latches, masks and functions
\* as they should, and no register of one drawing spoils the next.
DrawsExact == todo = <<>> => Shown = picture /\ got \in want
=============================================================================
