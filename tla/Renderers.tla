----------------------------- MODULE Renderers -----------------------------
(***************************************************************************)
(* How the display adapter draws a line of each mode (gd5440.c).  A dot is *)
(* the tuple of what its colour is computed from: bytes of the display     *)
(* memory, the position of the bits within them, and the palette where one *)
(* is looked up.  A line is drawn in groups of four bytes from address a   *)
(* on; row is the scan line within the character row.  Of a mode r, the    *)
(* fields used here are                                                    *)
(*   r.render    the renderer                                              *)
(*   r.dots      dots of a cell of text, 8 or 9 (GlyphDots or one more)    *)
(*   r.address   "byte", "word13", "word15" or "dword" addressing          *)
(*   r.row0, r.row1  does a bit of the row replace an address bit?         *)
(*   r.load, r.every how many character clocks a load of four bytes lasts, *)
(*                   and how many one address lasts                        *)
(***************************************************************************)
EXTENDS Integers, Sequences

CONSTANTS
  VramSize,     \* vram_display_mask + 1
  WindowTop,    \* address bit 16, the highest of the 128K window
  GlyphDots,    \* 8
  LineGraphics  \* the characters C0 to DF, whose ninth dot repeats the eighth

Bit(a, n) == (a \div 2^n) % 2

SetBit(a, n, b) == a + (b - Bit(a, n)) * 2^n

\* ADDRESS_REMAP_FUNC: the addressing modes of the CRT controller.
Rotated(r, a) ==
    CASE r.address = "byte"   -> a
      [] r.address = "word13" ->
           (a \div 2^(WindowTop + 1)) * 2^(WindowTop + 1)
           + (((a \div 4) * 8) % 2^(WindowTop + 1)) + 4 * Bit(a, WindowTop - 1)
      [] r.address = "word15" ->
           (a \div 2^(WindowTop + 1)) * 2^(WindowTop + 1)
           + (((a \div 4) * 8) % 2^(WindowTop + 1)) + 4 * Bit(a, WindowTop + 1)
      [] r.address = "dword"  ->
           (a \div 2^(WindowTop + 2)) * 2^(WindowTop + 2)
           + (((a \div 4) * 16) % 2^(WindowTop + 2))
           + 4 * Bit(a, WindowTop) + 8 * Bit(a, WindowTop + 1)

Remap(r, a, row) ==
    LET a0 == IF r.row0 THEN SetBit(Rotated(r, a), WindowTop - 1, Bit(row, 0))
              ELSE Rotated(r, a)
    IN  IF r.row1 THEN SetBit(a0, WindowTop, Bit(row, 1)) ELSE a0

Remapped(r) == r.address # "byte" \/ r.row0 \/ r.row1

\* Byte k of the group of four bytes at address a.
At(r, mem, a, row, k) == mem[(Remap(r, a, row) + k) % VramSize]

\* Byte n of a line whose bytes follow each other.
Along(r, mem, a, row, n) == At(r, mem, a + (n - (n % 4)), row, n % 4)

-----------------------------------------------------------------------------
(* Text: four bytes a cell, the first the character, the second the        *)
(* attribute.  Blinking, and the cursor, which always blinks, are left out. *)

Cell(r, mem, a, row, pal, n, x) ==
    LET chr  == At(r, mem, a + 4 * n, row, 0)
        attr == At(r, mem, a + 4 * n, row, 1)
    IN  IF x < GlyphDots THEN <<"glyph", chr, row, x, attr, pal>>
        ELSE IF chr \in LineGraphics
        THEN <<"glyph", chr, row, GlyphDots - 1, attr, pal>>
        ELSE <<"ground", attr, pal>>

Text80(r, mem, a, row, pal, d) ==
    Cell(r, mem, a, row, pal, d \div r.dots, d % r.dots)

\* Every dot twice.
Text40(r, mem, a, row, pal, d) == Text80(r, mem, a, row, pal, d \div 2)

-----------------------------------------------------------------------------
(* Palette modes, through the shift register                               *)

\* The address of the load that character clock s of a line shows, and by
\* how many planes the register has turned since.
Load(r, a, s) == a + 4 * ((s - (s % r.load)) \div r.every)
Turn(r, s)    == s % r.load

\* Bit 7 - i of each of the four planes.
Planar(r, mem, a, row, pal, p) ==
    LET s == p \div 8
        b(k) == At(r, mem, Load(r, a, s), row, (k + Turn(r, s)) % 4)
    IN  <<"planar", 7 - (p % 8), b(0), b(1), b(2), b(3), pal>>

\* Two bits of a plane and two of the plane above it: four dots from planes
\* 0 and 2, then four from 1 and 3.
Two(r, mem, a, row, pal, p) ==
    LET i == p % 8
        b(k) == At(r, mem, Load(r, a, p \div 8), row, k)
    IN  <<"two", 3 - (i % 4), b(i \div 4), b(2 + i \div 4), pal>>

\* A byte a dot.  With packed_chain4, every clock loads the next four bytes.
Eight(r, mem, a, row, pal, p) ==
    <<"byte", At(r, mem, Load(r, a, p \div 4), row, p % 4), pal>>

Indexed(r, mem, a, row, pal, p) ==
    CASE r.shift = "planar" -> Planar(r, mem, a, row, pal, p)
      [] r.shift = "two"    -> Two(r, mem, a, row, pal, p)
      [] r.shift = "byte"   -> Eight(r, mem, a, row, pal, p)

IndexedHigh(r, mem, a, row, pal, d) == Indexed(r, mem, a, row, pal, d)
IndexedLow(r, mem, a, row, pal, d)  == Indexed(r, mem, a, row, pal, d \div 2)

-----------------------------------------------------------------------------
(* Direct colour                                                           *)

Word(r, mem, a, row, p) ==
    <<Along(r, mem, a, row, 2 * p), Along(r, mem, a, row, 2 * p + 1)>>

\* The low resolution of 15 and 16 bits draws each pixel once.
Fifteen(r, mem, a, row, d) == <<"15">> \o Word(r, mem, a, row, d)
FifteenLow(r, mem, a, row, d) == <<"15">> \o Word(r, mem, a, row, d)
Sixteen(r, mem, a, row, d) == <<"16">> \o Word(r, mem, a, row, d)

\* With remapped addresses every pair of dots is that of the line's start.
SixteenLow(r, mem, a, row, d) ==
    IF Remapped(r) THEN <<"16">> \o Word(r, mem, a, row, d % 2)
    ELSE Sixteen(r, mem, a, row, d)

\* Bit 15 of the pixel chooses the palette; addresses are never remapped.
Mixed(mem, a, pal, d) ==
    <<"mix", mem[(a + 2 * d) % VramSize], mem[(a + 2 * d + 1) % VramSize], pal>>
MixedLow(mem, a, pal, d) == Mixed(mem, a, pal, d \div 2)

\* Four pixels from three groups of four bytes.
TwentyFour(r, mem, a, row, d) ==
    LET b(k) == Along(r, mem, a + 12 * (d \div 4), row, k)
    IN  CASE d % 4 = 0 -> <<"24", b(0), b(1), b(2)>>
          [] d % 4 = 1 -> <<"24", b(3), b(4), b(5)>>
          [] d % 4 = 2 -> <<"24", b(6), b(7), b(8)>>
          [] d % 4 = 3 -> <<"24", b(9), b(10), b(11)>>

ThirtyTwo(r, mem, a, row, d) ==
    LET b(k) == At(r, mem, a + 4 * d, row, k) IN <<"24", b(0), b(1), b(2)>>
ThirtyTwoLow(r, mem, a, row, d) == ThirtyTwo(r, mem, a, row, d \div 2)

-----------------------------------------------------------------------------
\* svga->render: dot d of the line.
Dot(r, mem, a, row, pal, d) ==
    CASE r.render = "blank"   -> <<"black">>
      [] r.render = "text80"  -> Text80(r, mem, a, row, pal, d)
      [] r.render = "text40"  -> Text40(r, mem, a, row, pal, d)
      [] r.render = "highres" -> IndexedHigh(r, mem, a, row, pal, d)
      [] r.render = "lowres"  -> IndexedLow(r, mem, a, row, pal, d)
      [] r.render = "15"      -> Fifteen(r, mem, a, row, d)
      [] r.render = "15low"   -> FifteenLow(r, mem, a, row, d)
      [] r.render = "16"      -> Sixteen(r, mem, a, row, d)
      [] r.render = "16low"   -> SixteenLow(r, mem, a, row, d)
      [] r.render = "mix"     -> Mixed(mem, a, pal, d)
      [] r.render = "mixlow"  -> MixedLow(mem, a, pal, d)
      [] r.render = "24"      -> TwentyFour(r, mem, a, row, d)
      [] r.render = "32"      -> ThirtyTwo(r, mem, a, row, d)
      [] r.render = "32low"   -> ThirtyTwoLow(r, mem, a, row, d)
=============================================================================
