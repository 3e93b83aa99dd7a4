------------------------------ MODULE Scanout ------------------------------
(***************************************************************************)
(* The display adapter's scan-out (gd5440.c): a thread of its own runs the *)
(* CRT controller, line after line, and redraws only the lines whose pages *)
(* of display memory are marked as changed, or all of them while           *)
(* fullchange is above zero; at the end of the display it counts the marks *)
(* down.  Meanwhile the CPU thread writes display memory and registers.    *)
(* There is no lock: a write is a mark and then a store, and a mark is     *)
(* counted down by a load and a store.                                     *)
(*                                                                         *)
(* The fields of a mode r that this module uses, besides those of          *)
(* Renderers: hdisp (dots), dispend, vsync, vtotal, rowcount, preset,      *)
(* linedbl, interlace, split, offset (dwords from row to row, halved),     *)
(* start (dwords), text, blank, cursor (its height), format, writes.       *)
(***************************************************************************)
EXTENDS Renderers, FiniteSets

CONSTANTS
  Modes,           \* a sequence of modes
  PageSize,        \* 4096 bytes
  RefreshPeriod,   \* 16 frames, an even number
  NoLine,          \* 2000
  MaxWrites        \* bound: what the guest does

VARIABLES
  r,        \* the mode, with what the guest changes of it
  vram,     \* the display memory
  look,     \* [pal, mask]: what palette lookups depend on
  curs,     \* hwcursor: [on, y]
  changed,  \* changedvram: per page
  full,     \* fullchange
  crt,      \* the CRT controller
  phase,    \* "start", "end", "sweep", "sync": what the next poll does
  sweep,    \* the count-down at the end of the display: [at, loaded]
  buffer,   \* target_buffer: its lines
  shown,    \* what the frontend was given
  guest,    \* the CPU thread's write between mark and store, or "none"
  budget,   \* writes that it has left
  late,     \* ghost: only the periodic refresh will show some write
  quiet     \* ghost: frames begun since the last write, up to 3

hard  == <<vram, look, curs, budget, guest>>
draw  == <<changed, full, buffer>>
ghost == <<late, quiet>>
vars  == <<r, vram, look, curs, changed, full, crt, phase, sweep, buffer,
           shown, guest, budget, late, quiet>>

Pages   == 0 .. VramSize \div PageSize
FullAt  == VramSize \div PageSize + 1   \* the count-down's last counter
Page(a) == a \div PageSize
None    == [op |-> "none"]

\* mon_changeframecount
Frames == IF r.interlace THEN 3 ELSE 2

Latch(m) == 4 * m.start
Pitch(m) == 8 * m.offset

\* The first line of a field, and the address it begins at.
FieldLine(odd) == IF r.interlace /\ odd = 1 THEN 1 ELSE 0
FieldAddr(odd) == Latch(r) + FieldLine(odd) * Pitch(r)

Init ==
    /\ \E n \in DOMAIN Modes : r = Modes[n]
    /\ vram = [ a \in 0 .. VramSize - 1 |-> a ]
    /\ look = [ pal |-> 0, mask |-> 0 ]
    /\ curs = [ on |-> FALSE, y |-> 0 ]
    /\ changed = [ p \in Pages |-> 0 ]
    /\ full = Frames      \* the mode has just been set, after a refresh
    /\ crt = [ vc |-> 0, displine |-> 0, scanline |-> r.preset, ff |-> 0,
               memaddr |-> Latch(r), backup |-> Latch(r), dispon |-> TRUE,
               first |-> NoLine, last |-> 0, oddeven |-> 0, blink |-> 1,
               hwon |-> 0, hwy |-> NoLine ]
    /\ phase = "start"
    /\ sweep = [ at |-> 0, loaded |-> 0 ]
    /\ buffer = <<>>
    /\ shown = <<>>
    /\ guest = None
    /\ budget = MaxWrites
    /\ late = FALSE
    /\ quiet = 0

-----------------------------------------------------------------------------
(* The first half of a line's poll: it is drawn                            *)

\* hwcursor_on when the line begins: the cursor has so many lines left.
CursorLeft ==
    CASE crt.displine = crt.hwy                     -> r.cursor
      [] r.interlace /\ crt.displine = crt.hwy + 1  -> r.cursor - 1
      [] OTHER                                      -> crt.hwon

\* ... and after it: an interlaced field passes two of them.
CursorNext == IF CursorLeft = 0 THEN 0
              ELSE IF CursorLeft > 1 /\ r.interlace THEN CursorLeft - 2
              ELSE CursorLeft - 1

\* The marks after a line with the cursor on it has claimed its pages.
Marks(a) ==
    IF CursorLeft = 0 THEN changed
    ELSE [ changed EXCEPT ![Page(a)] = Frames, ![Page(a) + 1] = Frames ]

\* Mutant of Redrawn: the page the line begins in is the only one looked at.
RedrawnOne(a) ==
    \/ r.render = "blank" \/ full > 0
    \/ ~r.text /\ Marks(a)[Page(Remap(r, a, crt.scanline))] > 0

\* Does the renderer draw the line at address a?  Text is drawn in full.
Redrawn(a) ==
    LET p == Page(Remap(r, a, crt.scanline))
    IN  \/ r.render = "blank" \/ full > 0
        \/ ~r.text /\ (Marks(a)[p] > 0 \/ Marks(a)[p + 1] > 0)

\* The cursor covers the first dot; the picture is inverted below it.
Covered(line) == [ line EXCEPT ![0] = <<"inverse", @>> ]

LineOf(m, mem, lk, a, row) ==
    [ d \in 0 .. m.hdisp - 1 |-> Dot(m, mem, a, row, lk, d) ]

PutLine(b, n, line) ==
    [ k \in DOMAIN b \cup {n} |-> IF k = n THEN line ELSE b[k] ]

OldLine(n) == IF n \in DOMAIN buffer THEN buffer[n]
              ELSE [ d \in 0 .. r.hdisp - 1 |-> <<"black">> ]

\* gd5440_svga_do_render
Rendered(a) ==
    LET line == IF Redrawn(a)
                THEN LineOf(r, vram, look, a, crt.scanline)
                ELSE OldLine(crt.displine)
    IN  PutLine(buffer, crt.displine,
                IF CursorLeft > 0 THEN Covered(line) ELSE line)

NextLine(n) == LET k == n + (IF r.interlace THEN 2 ELSE 1)
               IN  IF k > NoLine THEN 0 ELSE k

StartOfLine ==
    /\ phase = "start"
    /\ phase' = "end"
    /\ LET a == crt.memaddr % VramSize
       IN  IF crt.dispon
           THEN /\ buffer' = Rendered(a)
                /\ changed' = Marks(a)
                /\ crt' = [ crt EXCEPT
                     !.memaddr = a, !.hwon = CursorNext,
                     !.first = IF @ = NoLine THEN crt.displine ELSE @,
                     !.last = IF @ < crt.displine THEN crt.displine ELSE @,
                     !.displine = NextLine(@) ]
           ELSE /\ crt' = [ crt EXCEPT !.hwon = CursorLeft,
                                       !.displine = NextLine(@) ]
                /\ UNCHANGED <<buffer, changed>>
    /\ UNCHANGED <<r, hard, full, sweep, shown, ghost>>

-----------------------------------------------------------------------------
(* The second half: addresses and scan lines advance                       *)

NextRow(c) ==
    (c.backup + (IF r.interlace THEN 2 ELSE 1) * Pitch(r)) % VramSize

Advanced(c) ==
    CASE ~c.dispon -> c
      [] c.dispon /\ r.linedbl /\ c.ff = 0 ->
           [ c EXCEPT !.ff = 1, !.memaddr = c.backup ]
      [] c.dispon /\ ~(r.linedbl /\ c.ff = 0) /\ c.scanline = r.rowcount ->
           [ c EXCEPT !.ff = 0, !.scanline = 0, !.backup = NextRow(c),
                      !.memaddr = NextRow(c) ]
      [] OTHER -> [ c EXCEPT !.ff = 0, !.scanline = (@ + 1) % 32,
                             !.memaddr = c.backup ]

\* The second window of a split screen begins at address 0.
Split(c) ==
    IF c.vc # r.split THEN c
    ELSE LET a == FieldLine(c.oddeven) * Pitch(r)
         IN  [ c EXCEPT !.memaddr = a, !.backup = a, !.scanline = 0 ]

\* vc is a counter of 11 bits.
Counted(c) == [ c EXCEPT !.vc = (@ + 1) % 2048 ]

AfterLine(c) ==
    IF c.vc = r.dispend THEN "sweep"
    ELSE IF c.vc \in {r.vsync, r.vtotal} THEN "sync" ELSE "start"

EndOfLine ==
    /\ phase = "end"
    /\ LET c == Split(Counted(Advanced(crt)))
       IN  /\ phase' = AfterLine(c)
           /\ IF c.vc = r.dispend
              THEN /\ crt' = [ c EXCEPT !.dispon = FALSE,
                                        !.blink = (@ + 1) % RefreshPeriod ]
                   /\ full' = IF c.blink = 0 THEN 2 ELSE full
                   /\ sweep' = [ at |-> 0, loaded |-> 0 ]
              ELSE crt' = c /\ UNCHANGED <<full, sweep>>
           \* The periodic refresh redraws everything, but of an interlaced
           \* picture always the same field, and it cuts short a longer one.
           /\ late' = IF c.vc = r.dispend /\ c.blink = 0
                      THEN r.interlace /\ (late \/ full > 2) ELSE late
           /\ quiet' = IF late # late' THEN 0 ELSE quiet
    /\ UNCHANGED <<r, hard, changed, buffer, shown>>

-----------------------------------------------------------------------------
(* The count-down                                                          *)

Counter(n) == IF n = FullAt THEN full ELSE changed[n]

\* The counters not yet passed that are above zero.
ToCount == { n \in Pages \cup {FullAt} : n >= sweep.at /\ Counter(n) > 0 }

First(S) == CHOOSE n \in S : \A k \in S : n <= k

\* A counter is loaded ...
CountLoad ==
    /\ phase = "sweep" /\ sweep.loaded = 0 /\ ToCount # {}
    /\ sweep' = [ at |-> First(ToCount), loaded |-> Counter(First(ToCount)) ]
    /\ UNCHANGED <<r, hard, draw, crt, phase, shown, ghost>>

\* ... and stored, one less.  A mark made meanwhile is lost; so is, perhaps,
\* one whose data is not there yet.
CountStore ==
    /\ phase = "sweep" /\ sweep.loaded > 0
    /\ IF sweep.at = FullAt
       THEN full' = sweep.loaded - 1 /\ UNCHANGED changed
       ELSE changed' = [ changed EXCEPT ![sweep.at] = sweep.loaded - 1 ]
            /\ UNCHANGED full
    /\ late' = (late \/ Counter(sweep.at) # sweep.loaded \/ guest # None)
    /\ sweep' = [ at |-> sweep.at + 1, loaded |-> 0 ]
    /\ UNCHANGED <<r, hard, crt, phase, buffer, shown, quiet>>

CountDone ==
    /\ phase = "sweep" /\ sweep.loaded = 0 /\ ToCount = {}
    /\ phase' = IF crt.vc \in {r.vsync, r.vtotal} THEN "sync" ELSE "start"
    /\ UNCHANGED <<r, hard, draw, crt, sweep, shown, ghost>>

-----------------------------------------------------------------------------
(* Vertical retrace and the start of a frame                               *)

\* gd5440_svga_doblit has more than one line to show.
Presents == /\ phase = "sync" /\ crt.vc = r.vsync
            /\ (IF r.interlace THEN 1 ELSE 0) + crt.last > crt.first

Retraced(c) ==
    IF c.vc # r.vsync THEN c
    ELSE LET odd == 1 - c.oddeven
         IN  [ c EXCEPT !.dispon = FALSE, !.oddeven = odd, !.first = NoLine,
                        !.last = 0, !.memaddr = FieldAddr(odd),
                        !.backup = FieldAddr(odd) ]

Begun(c) ==
    IF c.vc # r.vtotal THEN c
    ELSE [ c EXCEPT !.vc = 0, !.scanline = r.preset, !.dispon = TRUE, !.ff = 0,
                    !.displine = FieldLine(c.oddeven), !.hwon = 0,
                    !.hwy = IF curs.on THEN curs.y ELSE NoLine ]

Sync ==
    /\ phase = "sync"
    /\ phase' = "start"
    /\ crt' = Begun(Retraced(crt))
    /\ shown' = IF Presents THEN buffer ELSE shown
    /\ quiet' = IF crt.vc = r.vtotal /\ quiet < 3 THEN quiet + 1 ELSE quiet
    /\ UNCHANGED <<r, hard, draw, sweep, late>>

Poll == StartOfLine \/ EndOfLine \/ CountLoad \/ CountStore \/ CountDone
        \/ Sync

-----------------------------------------------------------------------------
(* The CPU thread                                                          *)

Refresh(n) == full' = n /\ UNCHANGED changed
Touch(a)   == changed' = [ changed EXCEPT ![Page(a)] = Frames ]

\* Mutant of Mark: a write is marked for one frame.
MarkOnce(w) ==
    CASE w.op = "write" /\ ~r.text ->
           changed' = [ changed EXCEPT ![Page(w.a)] = 1 ] /\ UNCHANGED full
      [] w.op = "write" /\ r.text  -> Touch(w.a) /\ full' = 1
      [] w.op \in {"palette", "pitch"} -> Refresh(1)
      [] w.op \in {"start", "light"}   -> Refresh(1)
      [] OTHER -> UNCHANGED <<changed, full>>

\* What a write marks, before it stores anything: gd5440_svga_write_common,
\* gd5440_svga_out, gd5440_core_out.  The DAC mask and the cursor do not.
Mark(w) ==
    CASE w.op = "write" /\ ~r.text -> Touch(w.a) /\ UNCHANGED full
      [] w.op = "write" /\ r.text  -> Touch(w.a) /\ full' = 2
      [] w.op \in {"palette", "pitch"} -> Refresh(Frames)
      [] w.op \in {"start", "light"}   -> Refresh(3)
      [] OTHER -> UNCHANGED <<changed, full>>

GuestBegins(w) ==
    /\ guest = None /\ budget > 0
    /\ guest' = w
    /\ budget' = budget - 1
    /\ Mark(w)
    /\ late' = (late \/ w.op = "mask")
    /\ quiet' = 0
    /\ UNCHANGED <<r, vram, look, curs, crt, phase, sweep, buffer, shown>>

GuestStores ==
    /\ guest # None
    /\ guest' = None
    /\ quiet' = 0
    /\ vram' = IF guest.op = "write"
               THEN [ vram EXCEPT ![guest.a] = VramSize + guest.a ] ELSE vram
    /\ look' = CASE guest.op = "palette" -> [ look EXCEPT !.pal = 1 - @ ]
                 [] guest.op = "mask"    -> [ look EXCEPT !.mask = 1 - @ ]
                 [] OTHER -> look
    /\ curs' = IF guest.op = "cursor" THEN [ on |-> TRUE, y |-> guest.y ]
               ELSE curs
    /\ r' = CASE guest.op = "pitch" -> [ r EXCEPT !.offset = guest.to ]
              [] guest.op = "start" -> [ r EXCEPT !.start = guest.to ]
              [] guest.op = "dark"  -> [ r EXCEPT !.render = "blank" ]
              [] guest.op = "light" -> [ r EXCEPT !.render = r.lit ]
              [] OTHER -> r
    /\ UNCHANGED <<draw, crt, phase, sweep, shown, budget, late>>

Guest == GuestStores \/ \E w \in r.writes : GuestBegins(w)

Next == Poll \/ Guest

\* The render thread polls for ever, and the CPU thread ends what it began.
Spec == Init /\ [][Next]_vars /\ WF_vars(Poll) /\ WF_vars(GuestStores)

-----------------------------------------------------------------------------
(* The picture of the mode that the guest has set up                       *)

Lines == IF r.interlace THEN 2 * r.dispend ELSE r.dispend

Second(n) == ~r.interlace /\ n >= r.split

\* Line n is scan line RowOf(n) of the character row at AddrOf(n).
Sub(n) == IF Second(n) THEN (n - r.split) \div (IF r.linedbl THEN 2 ELSE 1)
          ELSE r.preset + n \div (IF r.linedbl THEN 2 ELSE 1)
RowOf(n)  == Sub(n) % (r.rowcount + 1)
AddrOf(n) == (IF Second(n) THEN 0 ELSE Latch(r))
             + (Sub(n) \div (r.rowcount + 1)) * Pitch(r)

\* The bytes of a pixel that is b bytes wide.
Pixel(a, b, p) == [ k \in 1 .. b |-> vram[a + b * p + k - 1] ]

\* A line of the colour graphics adapter: even lines, then odd ones, in two
\* banks, two planes of every second group of four bytes.
Banked(a, row) == 2 * a + row * 2^(WindowTop - 1)

Wanted(n, d) ==
    LET a == AddrOf(n)
        p == d \div r.double
        q == p \div 8
    IN  CASE r.render = "blank"  -> <<"black">>
          [] r.render # "blank" /\ r.format = "planar" ->
               <<"planar", 7 - (p % 8)>> \o Pixel(a, 4, q) \o <<look>>
          [] r.render # "blank" /\ r.format = "two" ->
               <<"two", 3 - (p % 4),
                 vram[Banked(a + 4 * q, RowOf(n)) + (p % 8) \div 4],
                 vram[Banked(a + 4 * q, RowOf(n)) + 2 + (p % 8) \div 4], look>>
          [] r.render # "blank" /\ r.format = "byte" ->
               <<"byte", vram[a + p], look>>
          [] r.format \in {"15", "16"} -> <<r.format>> \o Pixel(a, 2, p)
          [] r.format = "mix" -> <<"mix">> \o Pixel(a, 2, p) \o <<look>>
          [] r.format = "24" -> <<"24">> \o Pixel(a, 3, p)
          [] r.format = "32" -> <<"24">> \o SubSeq(Pixel(a, 4, p), 1, 3)
          [] r.format = "text" ->
               LET x == p % r.dots
                   c == Pixel(a, 4, p \div r.dots)
               IN  IF x = GlyphDots /\ c[1] \notin LineGraphics
                   THEN <<"ground", c[2], look>>
                   ELSE <<"glyph", c[1], RowOf(n),
                          IF x = GlyphDots THEN x - 1 ELSE x, c[2], look>>

UnderCursor(n) == curs.on /\ n >= curs.y /\ n < curs.y + r.cursor

Picture ==
    [ n \in 0 .. Lines - 1 |->
        IF UnderCursor(n)
        THEN Covered([ d \in 0 .. r.hdisp - 1 |-> Wanted(n, d) ])
        ELSE [ d \in 0 .. r.hdisp - 1 |-> Wanted(n, d) ] ]

\* Writes reach the display within two frames, an interlaced one's within
\* three fields.
Settled == quiet >= Frames /\ ~late /\ guest = None

\* The frontend is given the picture that the guest has set up, once what
\* the guest wrote last is two frames old: no line is missed because its
\* page is not marked, not for long enough, or begins in another page, and
\* every mode's rows, banks, windows and fields are where they should be.
PictureExact ==
    [][ (Presents /\ phase' # phase /\ Settled) => shown' = Picture ]_vars

\* The picture is shown.  A mark that is lost between the two threads is made
\* good by the full redraw of the cursor's blinking counter; in an interlaced
\* mode that redraws the same field every time, so that the loss may show for
\* ever.
UpToDate == shown = Picture \/ (r.interlace /\ late)
=============================================================================
