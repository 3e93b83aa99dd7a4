------------------------------ MODULE MC_Video ------------------------------
(***************************************************************************)
(* The display adapter on three benches: the picture of its modes          *)
(* ("scanout"), what the guest draws through the windows ("drawing"), and  *)
(* the bit block transfers ("blitter").                                    *)
(*                                                                         *)
(* The modes have a display of a few lines and dots.                       *)
(***************************************************************************)
EXTENDS Scanout, TLC

Basic ==
  [ render |-> "highres", lit |-> "highres", shift |-> "byte", dots |-> 2,
    address |-> "byte", row0 |-> FALSE, row1 |-> FALSE, load |-> 1,
    every |-> 1, hdisp |-> 5, dispend |-> 3, vsync |-> 4, vtotal |-> 5,
    rowcount |-> 0, preset |-> 0, linedbl |-> FALSE, interlace |-> FALSE,
    split |-> 9, offset |-> 1, start |-> 3, text |-> FALSE, cursor |-> 1,
    double |-> 1, format |-> "byte", writes |-> {} ]

W(a)  == [op |-> "write", a |-> a]
Op(x) == [op |-> x]
To(x, n) == [op |-> x, to |-> n]
Cursor(y) == [op |-> "cursor", y |-> y]

\* Eight bits a dot, on pages that lines straddle; the picture is moved.
Bytes == [ Basic EXCEPT !.writes = {W(16), To("start", 4), Op("mask")} ]

\* Each line of mode 13h twice, dots doubled; the screen is turned off.
Mode13 == [ Basic EXCEPT !.render = "lowres", !.lit = "lowres", !.double = 2,
              !.rowcount = 1, !.preset = 1, !.hdisp = 8,
              !.writes = {W(13), Op("dark"), Op("light")} ]

Planes == [ Basic EXCEPT !.shift = "planar", !.format = "planar",
              !.hdisp = 9, !.linedbl = TRUE, !.dispend = 4, !.vsync = 5,
              !.vtotal = 6, !.split = 2, !.writes = {W(2)} ]

\* The banks of a colour graphics adapter.
Banks == [ Basic EXCEPT !.shift = "two", !.format = "two",
              !.address = "word15", !.row0 = TRUE, !.start = 0,
              !.rowcount = 1, !.writes = {W(33), W(1)} ]

Text == [ Basic EXCEPT !.render = "text80", !.lit = "text80", !.text = TRUE,
              !.format = "text", !.dots = 3, !.hdisp = 6, !.rowcount = 1,
              !.writes = {W(12), To("pitch", 2)} ]

Fields == [ Basic EXCEPT !.render = "16", !.lit = "16", !.format = "16",
              !.interlace = TRUE, !.dispend = 2, !.vsync = 3, !.vtotal = 4,
              !.hdisp = 3,
              !.writes = {W(15), To("start", 4)} ]

Pointer == [ Basic EXCEPT !.render = "32", !.lit = "32", !.format = "32",
              !.hdisp = 2, !.cursor = 2, !.writes = {Cursor(0), Cursor(1), W(29)} ]

Triple == [ Basic EXCEPT !.render = "24", !.lit = "24", !.format = "24",
              !.hdisp = 5, !.offset = 2, !.writes = {W(26)} ]

Mix == [ Basic EXCEPT !.render = "mix", !.lit = "mix", !.format = "mix",
              !.hdisp = 2, !.writes = {W(15), Op("palette")} ]

\* The other renderers and addressing modes, on a picture that stands still.
Text40Mode == [ Text EXCEPT !.render = "text40", !.dots = 2, !.hdisp = 8,
                  !.double = 2, !.writes = {} ]
Low32   == [ Pointer EXCEPT !.render = "32low", !.double = 2, !.hdisp = 4,
               !.writes = {Cursor(1)} ]
LowMix  == [ Mix EXCEPT !.render = "mixlow", !.double = 2, !.hdisp = 4,
               !.writes = {} ]
Fifteens == [ Mix EXCEPT !.render = "15", !.format = "15", !.writes = {} ]

AllModes == <<Bytes, Mode13, Planes, Banks, Text, Fields, Pointer, Triple, Mix,
              Text40Mode, Low32, LowMix, Fifteens>>
MCLineGraphics == {20}
-----------------------------------------------------------------------------
(* Drawings in the adapter's modes; the window of 64K is 16 bytes.         *)

EightBits == 0 .. 7

AtReset ==
  [ map |-> 1, svga |-> FALSE, chain4 |-> FALSE, odd |-> FALSE,
    oddread |-> FALSE, mask |-> 0 .. 3, mode |-> 0, find |-> FALSE,
    setr |-> {}, enable |-> {}, compare |-> {}, care |-> {}, plane |-> 0,
    func |-> "set", rot |-> 0, bits |-> EightBits, by8 |-> FALSE, by16 |-> FALSE,
    ext |-> FALSE, latch8 |-> FALSE, low |-> {}, low2 |-> {}, bank0 |-> 0,
    bank1 |-> 8, fast |-> FALSE, address |-> "byte", row0 |-> FALSE,
    row1 |-> FALSE ]

SomeBits == {0, 1, 6}
PlanarScreen == [ planar |-> TRUE, g |-> AtReset, keys |-> {1, 2, 9} \X EightBits, idioms |->
  { [op |-> "pixel", a |-> 1, b |-> b, c |-> {0, 3}] : b \in {0, 5} }
  \cup { [op |-> "logic", a |-> 1, b |-> 5, c |-> {0, 1}, func |-> f] :
           f \in {"set", "and", "or", "xor"} }
  \cup { [op |-> "glyph", a |-> 1, to |-> 2, v |-> SomeBits, n |-> n, c |-> {1}] :
           n \in {0, 3} }
  \cup { [op |-> "copy", a |-> 1, to |-> 9], [op |-> "copy", a |-> 9, to |-> 2],
         [op |-> "fill", a |-> 2, c |-> {1, 2}],
         [op |-> "find", a |-> 1, c |-> {0, 3}, care |-> {0, 1, 3}] } ]

PutByte(op, a, at, v, bank) == [op |-> op, a |-> a, at |-> at, v |-> v,
                            bank |-> bank, bank2 |-> bank + 8]
TextScreen == [ planar |-> FALSE, keys |-> 0 .. 7, g |->
            [ AtReset EXCEPT !.map = 3, !.odd = TRUE, !.oddread = TRUE,
                           !.mask = {0, 1}, !.address = "word15" ],
          idioms |-> { PutByte(op, 24 + at, at, SomeBits, 0) :
                         op \in {"byte", "word"}, at \in {2, 4} }
                     \cup { PutByte("byte", 29, 5, SomeBits, 0) } ]

Chain4Screen == [ planar |-> FALSE, keys |-> 0 .. 15, g |->
              [ AtReset EXCEPT !.chain4 = TRUE, !.address = "dword" ],
            idioms |-> { PutByte(op, at, at, SomeBits, 0) :
                           op \in {"byte", "word"}, at \in {3, 6, 9} } ]

\* A window of two banks, anywhere in memory.
PackedScreen == [ planar |-> FALSE, keys |-> 0 .. 63, g |->
              [ AtReset EXCEPT !.chain4 = TRUE, !.svga = TRUE ],
            idioms |->
              { PutByte(op, p[1], p[2], SomeBits, p[2] - p[1]) :
                  op \in {"byte", "word"}, p \in {<<3, 35>>, <<10, 22>>, <<6, 6>>} }
              \cup { [op |-> "expand", mode |-> m, a |-> 2, v |-> SomeBits,
                      c |-> {0, 7}, c2 |-> {4}, mask |-> mask] :
                       m \in {4, 5}, mask \in {EightBits, {7, 6, 1}} }
              \cup { [op |-> "move8", a |-> 2, to |-> 4, mask |-> {7, 2, 0}] } ]

AllScreens == <<PlanarScreen, TextScreen, Chain4Screen, PackedScreen>>
-----------------------------------------------------------------------------
(* Blits of a few bytes in 128 bytes of memory; the CPU's buffer has 8.    *)

Plain == [ cpuSrc |-> FALSE, cpuDest |-> FALSE, pattern |-> FALSE,
           expand |-> FALSE, transp |-> FALSE, back |-> FALSE, wide |-> 1,
           width |-> 3, height |-> 1, dpitch |-> 8, spitch |-> 8, dst |-> 9,
           src |-> 0, skip |-> 0, lead |-> 0, rop |-> "copy",
           fg |-> (0 :> {0, 7} @@ 1 :> {1, 2}), bg |-> (0 :> {} @@ 1 :> {4}),
           key |-> {0, 1, 2}, manner |-> "bytes", sent |-> 0, own |-> 60 ]

\* Copies: apart, overlapping forwards and backwards, round the end.
Copies ==
  { [Plain EXCEPT !.src = 32, !.rop = op, !.spitch = 5] : op \in {"copy", "xor", "notAnd"} }
  \cup { [Plain EXCEPT !.src = 10], [Plain EXCEPT !.dst = 126, !.src = 40],
         [Plain EXCEPT !.back = TRUE, !.src = 20, !.dst = 21, !.height = 2],
         [Plain EXCEPT !.transp = TRUE, !.src = 33, !.width = 7] }

Expanded == [Plain EXCEPT !.expand = TRUE, !.src = 2, !.dst = 30, !.width = 9, !.dpitch = 12]
Expansions ==
  { [Expanded EXCEPT !.wide = w, !.transp = t, !.skip = k] :
      w \in {1, 2}, t \in BOOLEAN, k \in {0, 2} }

Patterned == [Plain EXCEPT !.pattern = TRUE, !.src = 0, !.dst = 40, !.width = 9, !.dpitch = 11]
Patterns ==
  { [Patterned EXCEPT !.src = 5, !.expand = TRUE, !.wide = w, !.transp = t,
       !.skip = 1, !.height = h] : w \in {1, 2}, t \in BOOLEAN, h \in {0, 1} }
  \cup { [Patterned EXCEPT !.src = 71, !.rop = "or", !.skip = 3, !.dst = 1,
            !.dpitch = 20] }

Fed == [Plain EXCEPT !.cpuSrc = TRUE, !.width = 4, !.dst = 17]
Feeds ==
  { [Fed EXCEPT !.lead = l, !.manner = m] :
      l \in {0, 3}, m \in {"bytes", "words", "paused"} }
  \cup { [Fed EXCEPT !.expand = TRUE, !.wide = w, !.width = 9, !.dpitch = 13,
                 !.transp = t, !.skip = 1, !.manner = "words"] :
           w \in {1, 2}, t \in BOOLEAN }
  \cup { [Fed EXCEPT !.manner = "given up", !.width = 7, !.sent = n] : n \in {0, 6} }

Collected == [Plain EXCEPT !.cpuDest = TRUE, !.src = 3]
Collections ==
  { [Collected EXCEPT !.width = w, !.height = h, !.spitch = 21] :
      w \in {3, 8, 9}, h \in {0, 1} }

MCBlits == Copies \cup Expansions \cup Patterns \cup Feeds \cup Collections
-----------------------------------------------------------------------------
VARIABLES
  bench,                                      \* which of the three is in use
  vga, planes, latch, screen, steps, read, allowed, meant, draws,
  memory, blit, engine, path, todo, got, want, picture, blits

drawing == <<vga, planes, latch, screen, steps, read, allowed, meant, draws>>
blitter == <<memory, blit, engine, path, todo, got, want, picture, blits>>
all     == <<bench, vars, drawing, blitter>>

D == INSTANCE VgaDrawing WITH
       VramSize <- 64, WindowTop <- 4, GlyphDots <- 8, LineGraphics <- {},
       Screens <- AllScreens, MaxDraws <- 3,
       g <- vga, memory <- planes, todo <- steps, got <- read, want <- allowed,
       picture <- meant

B == INSTANCE Blitter WITH
       BufSize <- 8, Bank <- 64, Paths <- {"window", "linear", "overlap"},
       Blits <- MCBlits, MaxBlits <- 2, r <- blit, e <- engine

\* What an idle bench starts with makes no difference.
MCInit ==
    /\ bench \in {"scanout", "drawing", "blitter"}
    /\ Init /\ D!Init /\ B!Init
    /\ bench # "scanout" => r = Bytes
    /\ bench # "drawing" => screen = 1
    /\ bench # "blitter" => path = "linear"

InScanout == bench = "scanout" /\ UNCHANGED <<bench, drawing, blitter>>
InDrawing == bench = "drawing" /\ UNCHANGED <<bench, vars, blitter>>
InBlitter == bench = "blitter" /\ UNCHANGED <<bench, vars, drawing>>

MCNext == (InScanout /\ Next) \/ (InDrawing /\ D!Next) \/ (InBlitter /\ B!Next)

\* The render thread polls for ever and the CPU thread ends what it began:
\* WF(Poll) and WF(GuestStores), written out because TLC evaluates these
\* forms in far less time.  A poll is always enabled, and it alone changes the
\* phase or the count-down; the guest's write is none once it has stored.
Polled == phase' # phase \/ sweep' # sweep

MCSpec == /\ MCInit /\ [][MCNext]_all
          /\ []<>(bench # "scanout") \/ []<><<Polled>>_all
          /\ []<>(guest = None)

-----------------------------------------------------------------------------

\* When the guest stops writing, its picture is shown in the end and stays.
PictureComes == <>[](bench # "scanout" \/ UpToDate)

\* What the guest draws through gd5440.c's write modes and windows is what the
\* mode's renderer shows.
DrawsExact == D!DrawsExact

\* A blit of gd5440.c that the driver finds ended has done what it means.
BlitsExact == B!BlitsExact
=============================================================================
