------------------------------- MODULE Blitter --------------------------------
(***************************************************************************)
(* The display adapter's bit-block-transfer engine (gd5440.c): copies      *)
(* within display memory, patterns, the expansion of bits into colours,    *)
(* and transfers that the CPU feeds or collects through the display        *)
(* window.  A byte is the set of its bits that are one.  The loops of the  *)
(* code advance a byte at a time here; the CPU waits until they end.       *)
(*                                                                         *)
(* The registers r: cpuSrc, cpuDest, pattern, expand, transp, back (the    *)
(* mode), wide (bytes of a pixel), width and height (less one), dpitch,    *)
(* spitch, dst, src, skip and lead (the mask register), rop, fg and bg     *)
(* (functions from a pixel's bytes), key (the transparency mask).          *)
(* The engine e: status, a set of flags; waiting (countminusone, 2 at the  *)
(* end of a transfer to the CPU), isDest, doing (which loop runs), dir, x, *)
(* xx, y, left, rows (the loops' counters), sa, da, sbase, dbase (the      *)
(* addresses), word (sys_src32), feed (what is left of it), buf, pos, cnt. *)
(***************************************************************************)
EXTENDS Integers, Sequences, TLC, SequencesExt

CONSTANTS
  VramSize,   \* bytes of display memory: a power of two
  BufSize     \* bytes of the buffer for the CPU (32)

VARIABLES memory, r, e

blitvars == <<memory, r, e>>

Bits == 0 .. 7
Byte == SUBSET Bits

Vram(a) == memory[a % VramSize]

\* gd5440_core_rop: the raster operations.
Rop(op, d, s) ==
    CASE op = "black"   -> {}
      [] op = "and"     -> d \cap s
      [] op = "keep"    -> d
      [] op = "andNot"  -> s \ d
      [] op = "invert"  -> Bits \ d
      [] op = "copy"    -> s
      [] op = "white"   -> Bits
      [] op = "notAnd"  -> d \ s
      [] op = "xor"     -> (d \ s) \cup (s \ d)
      [] op = "or"      -> d \cup s
      [] op = "nor"     -> Bits \ (d \cup s)
      [] op = "same"    -> Bits \ ((d \ s) \cup (s \ d))
      [] op = "orNot"   -> s \cup (Bits \ d)
      [] op = "notCopy" -> Bits \ s
      [] op = "notOr"   -> d \cup (Bits \ s)
      [] op = "nand"    -> Bits \ (d \cap s)

\* gd5440_core_color_expand: byte xx of the colour of a pixel.
Ink(on, xx) == IF on \/ r.transp THEN r.fg[xx] ELSE r.bg[xx]

\* pattern_x: the bytes at the left of every line that are not drawn.
Skipped == IF r.pattern \/ r.expand THEN r.skip * r.wide ELSE 0

\* gd5440_core_blit: address a, unless the dot is skipped or shows through.
Blitted(a, s, on, skip) ==
    IF skip \/ (r.transp /\ ~on) THEN memory
    ELSE [memory EXCEPT ![a % VramSize] = Rop(r.rop, @, s)]

\* gd5440_core_reset_blit
Ended(f) == [ f EXCEPT !.waiting = 0, !.doing = "nothing",
                       !.status = @ \ {"start", "busy"}, !.feed = <<>> ]

-----------------------------------------------------------------------------
(* gd5440_core_normal_blit                                                 *)

\* Mutant of NextLine: the bits of the next line go on where this one's end.
NextLineJoined(f) ==
    LET g == [ f EXCEPT !.left = r.width, !.dbase = @ + r.dpitch * e.dir,
                        !.sbase = @ + r.spitch * e.dir, !.rows = @ - 1 ]
    IN  [ g EXCEPT !.da = g.dbase, !.sa = IF r.expand THEN f.sa ELSE g.sbase ]

\* The end of a line: the next one's bits begin with a byte.
NextLine(f) ==
    LET g == [ f EXCEPT !.left = r.width, !.dbase = @ + r.dpitch * e.dir,
                        !.sbase = @ + r.spitch * e.dir, !.x = 0,
                        !.rows = @ - 1 ]
    IN  [ g EXCEPT !.da = g.dbase,
                   !.sa = IF ~r.expand THEN g.sbase
                          ELSE f.sa + (IF f.x # 0 THEN 1 ELSE 0) ]

\* A byte of the loop.
NormalByte ==
    /\ e.doing = "normal"
    /\ LET on == 7 - (e.x \div r.wide) \in Vram(e.sa)
           s  == IF r.expand THEN Ink(on, e.x % r.wide) ELSE Vram(e.sa)
           x  == (e.x + 1) % (8 * r.wide)
           f  == [ e EXCEPT !.x = x, !.da = @ + e.dir, !.left = @ - 1,
                            !.sa = @ + (IF ~r.expand THEN e.dir
                                        ELSE IF x = 0 THEN 1 ELSE 0) ]
       IN  /\ memory' = Blitted(e.da, s, IF r.expand THEN on ELSE s = r.key,
                                r.width - e.left < Skipped)
           /\ e' = IF e.left > 0 THEN f
                   ELSE IF e.rows > 0 THEN NextLine(f) ELSE Ended(f)
    /\ UNCHANGED r

-----------------------------------------------------------------------------
(* gd5440_core_pattern_copy                                                *)

PatternPitch == IF r.expand THEN 1 ELSE 8 * r.wide

\* The pattern's line for line y, which begins at the low bits of src.
PatternLine(y) == r.src - (r.src % 8) + ((r.src + y) % 8) * PatternPitch

PatternByte ==
    /\ e.doing = "pattern"
    /\ LET line == PatternLine(e.y)
           on == r.expand => 7 - ((e.x \div r.wide) % 8) \in Vram(line)
           s  == IF r.expand THEN Ink(on, e.xx)
                 ELSE Vram(line + (e.x % (8 * r.wide)) + e.xx)
       IN  memory' = Blitted(e.da + e.x + e.xx, s, on, e.x < Skipped)
    /\ e' = IF e.xx < r.wide - 1 THEN [e EXCEPT !.xx = @ + 1]
            ELSE IF e.x + r.wide <= r.width
            THEN [e EXCEPT !.xx = 0, !.x = @ + r.wide]
            ELSE IF e.y < r.height
            THEN [e EXCEPT !.xx = 0, !.x = 0, !.y = @ + 1, !.da = @ + r.dpitch]
            ELSE Ended(e)
    /\ UNCHANGED r

-----------------------------------------------------------------------------
(* gd5440_core_mem_sys_src: the CPU feeds the engine four bytes at a time. *)

FromLeft(v) == [ i \in 1 .. 8 |-> 8 - i \in v ]

\* What a complete word holds: groups of bits, or bytes.  A line's first word
\* is short of its front bytes.
Feed(word) ==
    IF r.expand THEN [ i \in 1 .. 4 |-> FromLeft(word[i]) ]
    ELSE <<SubSeq(word, IF e.x = 0 /\ e.xx = 0 THEN 1 + r.lead ELSE 1, 4)>>

\* A group ends with its line, whatever is left in it.
LineDone(f) ==
    LET y == (f.y + 1) % (r.height + 1)
    IN  IF y = 0 THEN Ended(f)
        ELSE [ f EXCEPT !.y = y, !.feed = Tail(@),
                        !.da = r.dst + r.dpitch * y * e.dir ]

GroupUsed(feed) == IF Len(feed[1]) = 1 THEN Tail(feed)
                   ELSE <<Tail(feed[1])>> \o Tail(feed)

SourceByte ==
    /\ e.doing = "source" /\ e.feed # <<>>
    /\ LET item == e.feed[1][1]
           on == r.expand => item
           xx == IF r.expand THEN (e.xx + 1) % r.wide ELSE 0
           x  == (e.x + (IF r.expand THEN r.wide ELSE 1)) % (r.width + 1)
           f  == [ e EXCEPT !.da = @ + e.dir, !.xx = xx ]
       IN  /\ memory' = Blitted(e.da, IF r.expand THEN Ink(on, e.xx) ELSE item,
                                on, e.x < Skipped)
           /\ e' = IF xx # 0 THEN f
                   ELSE IF x = 0 THEN LineDone([ f EXCEPT !.x = 0 ])
                   ELSE [ f EXCEPT !.x = x, !.feed = GroupUsed(@) ]
    /\ UNCHANGED r

\* gd5440_core_mem_sys_src_write
Sent(v) ==
    LET word == Append(e.word, v)
    IN  e' = IF Len(word) < 4 THEN [e EXCEPT !.word = word]
             ELSE [e EXCEPT !.word = <<>>, !.feed = Feed(word)]

-----------------------------------------------------------------------------
(* gd5440_core_mem_sys_dest: the engine fills a buffer for the CPU.        *)

Filled(f) ==
    LET n == IF r.width + 1 - f.x < BufSize THEN r.width + 1 - f.x ELSE BufSize
        x == (f.x + n) % (r.width + 1)
        y == (f.y + (IF x = 0 THEN 1 ELSE 0)) % (r.height + 1)
    IN  [ f EXCEPT
            !.buf = [ i \in DOMAIN @ |-> IF i < n THEN Vram(f.sa + f.dir * i)
                                         ELSE @[i] ],
            !.pos = 0, !.cnt = 4 * ((n + 3) \div 4), !.x = x, !.y = y,
            !.sa  = IF x = 0 /\ y # 0 THEN r.src + r.spitch * y * f.dir
                    ELSE @ + f.dir * n,
            !.waiting = IF x = 0 /\ y = 0 THEN 2 ELSE @ ]

\* gd5440_core_mem_sys_dest_read; the value read is e.buf[e.pos].
Taken ==
    LET f == [e EXCEPT !.pos = @ + 1, !.cnt = @ - 1]
    IN  e' = IF f.cnt > 0 THEN f
             ELSE IF f.waiting = 1 THEN Filled(f) ELSE Ended(f)

-----------------------------------------------------------------------------
(* gd5440_core_start_blit                                                  *)

Begun(f) ==
    LET dir == IF r.back /\ ~r.pattern /\ ~r.expand /\ ~r.transp THEN -1 ELSE 1
        g == [ f EXCEPT !.dir = dir, !.x = 0, !.xx = 0, !.y = 0,
                        !.da = r.dst, !.sa = r.src, !.dbase = r.dst,
                        !.sbase = r.src, !.left = r.width, !.rows = r.height ]
    IN  CASE r.cpuSrc /\ (r.cpuDest \/ r.pattern) ->
               Ended([f EXCEPT !.isDest = FALSE])
          [] r.cpuSrc /\ ~r.cpuDest /\ ~r.pattern ->
               [g EXCEPT !.isDest = FALSE, !.waiting = 1, !.word = <<>>,
                         !.doing = "source"]
          [] ~r.cpuSrc /\ r.cpuDest ->
               Filled([g EXCEPT !.isDest = TRUE, !.waiting = 1, !.doing = "nothing"])
          [] ~r.cpuSrc /\ ~r.cpuDest -> [g EXCEPT !.doing = IF r.pattern
                                           THEN "pattern" ELSE "normal"]

\* A write to the status register: reset and start act when they are set.
Status(flags) ==
    LET f == [e EXCEPT !.status = flags]
    IN  e' = IF "reset" \in flags \ e.status THEN Ended(f)
             ELSE IF "start" \in flags \ e.status
             THEN Begun([f EXCEPT !.status = @ \cup {"busy"}])
             ELSE f

\* The loops that hold the CPU up.
Running == e.doing \in {"normal", "pattern"} \/ e.feed # <<>>

\* The CPU's accesses to display memory are the engine's, unless it pauses.
Takes == e.waiting # 0 /\ ~e.isDest /\ "paused" \notin e.status
Gives == e.waiting # 0 /\ e.isDest /\ "paused" \notin e.status

-----------------------------------------------------------------------------
(***************************************************************************)
(* A guest's driver has the engine of Blitter draw: it sets the registers, *)
(* starts the engine, feeds or collects what the transfer needs, in        *)
(* accesses of several widths, waits until the engine is free, and at      *)
(* times pauses it to draw by itself, or gives a transfer up.  The picture *)
(* is compared with what every blit means as a whole.                      *)
(***************************************************************************)

CONSTANTS
  Blits,      \* what the driver asks for: registers and manner
  Paths,      \* how it reaches the adapter: "window", "linear", "overlap"
  Bank,       \* the bank that the window shows
  MaxBlits    \* bound: blits

VARIABLES
  path,       \* how the driver reaches the adapter
  todo,       \* the steps that are left
  got,        \* the bytes collected
  want,       \* ghost: those that should be, as <<place, byte>>
  picture,    \* ghost: what memory should hold
  blits

vars == <<blitvars, path, todo, got, want, picture, blits>>
ghosts == <<want, picture, blits>>

-----------------------------------------------------------------------------
(* The driver                                                              *)

RoundUp(n, k) == k * ((n + k - 1) \div k)

\* The k-th byte that the driver sends.
Data(k) == { b \in Bits : (k * k + 3 * b) % 5 < 2 }

Lines(d)  == 0 .. d.height
LineOf(d) == 0 .. d.width

\* The bytes of a line in the data: whole words, or whole bytes of bits.
Stride(d) == IF d.expand THEN RoundUp((d.width + 1) \div d.wide, 8) \div 8
             ELSE RoundUp(d.lead + d.width + 1, 4)
Length(d) == RoundUp((d.height + 1) * Stride(d), 4)

\* How much of it the driver sends.
Given(d)  == IF d.manner = "given up" THEN d.sent ELSE Length(d)

\* The data in accesses of one byte, or of one, four and three in turn.
Pieces(d) ==
    LET bytes == [ k \in 1 .. Given(d) |-> Data(k - 1) ]
        cut(i) == IF d.manner = "bytes" THEN i
                  ELSE 8 * (i \div 3) + <<0, 1, 5>>[1 + (i % 3)]
        last  == IF d.manner = "bytes" THEN Given(d) ELSE 3 * ((Given(d) + 7) \div 8)
    IN  [ i \in 1 .. last |->
            <<"write", 0, SubSeq(bytes, cut(i - 1) + 1,
                                 IF cut(i) < Given(d) THEN cut(i) ELSE Given(d))>> ]

Go == <<"status", {"start"}>>

Transfer(d) ==
    CASE d.cpuSrc /\ d.manner = "paused" ->
           SubSeq(Pieces(d), 1, 2)
           \o <<<<"status", {"start", "busy", "paused"}>>,
                <<"write", d.own, <<{1}, {2}>>>>,
                <<"status", {"start", "busy"}>>>>
           \o SubSeq(Pieces(d), 3, Len(Pieces(d)))
      [] d.cpuSrc /\ d.manner # "paused" -> Pieces(d)
      [] d.cpuDest -> [ i \in 1 .. (Stride(d) * (d.height + 1)) \div 2 |->
                          <<"read", 0, 2>> ]
      [] OTHER -> <<>>

Steps(d) ==
    <<<<"reg", d>>, Go>> \o Transfer(d)
    \o (IF d.manner = "given up" THEN <<<<"status", {"reset"}>>, <<"status", {}>>>>
        ELSE <<<<"wait", 0>>, <<"status", {}>>>>)

\* The address that an access reaches.
Reached(a) == (IF path = "linear" THEN a ELSE Bank + (a % (VramSize \div 2)))
              % VramSize

-----------------------------------------------------------------------------
(* What a blit means                                                       *)

Dir(d) == IF d.back THEN -1 ELSE 1
Old(a) == picture[a % VramSize]

Spot(d, y, x) == (d.dst + Dir(d) * (y * d.dpitch + x)) % VramSize

\* The byte of the source for dot x of line y.
SourceOf(d, y, x) ==
    CASE d.pattern -> Old(d.src - (d.src % 8)
                          + 8 * d.wide * ((d.src + y) % 8) + (x % (8 * d.wide)))
      [] d.cpuSrc  -> Data(y * Stride(d) + d.lead + x)
      [] OTHER     -> Old(d.src + Dir(d) * (y * d.spitch + x))

\* The bit of the source for dot x of line y.
BitOf(d, y, x) ==
    LET n == x \div d.wide
    IN  7 - (n % 8) \in
          CASE d.pattern -> Old(d.src - (d.src % 8) + ((d.src + y) % 8))
            [] d.cpuSrc  -> Data(y * Stride(d) + n \div 8)
            [] OTHER     -> Old(d.src + y * Stride(d) + n \div 8)

\* Only whole words of data are drawn.
Came(d, y, x) ==
    ~d.cpuSrc \/ y * Stride(d) + (IF d.expand THEN x \div (8 * d.wide)
                                  ELSE d.lead + x) < 4 * (Given(d) \div 4)

Drawn(d, y, x) ==
    /\ Came(d, y, x)
    /\ d.pattern \/ d.expand => x >= d.skip * d.wide
    /\ d.transp => IF d.expand THEN BitOf(d, y, x)
                   ELSE d.pattern \/ d.cpuSrc \/ SourceOf(d, y, x) = d.key

Meant(d) ==
    LET spots == { p \in Lines(d) \X LineOf(d) : Drawn(d, p[1], p[2]) }
        colour(p) == IF d.expand
                     THEN (IF BitOf(d, p[1], p[2]) THEN d.fg ELSE d.bg)[p[2] % d.wide]
                     ELSE SourceOf(d, p[1], p[2])
        new == [ p \in spots |-> Rop(d.rop, Old(Spot(d, p[1], p[2])), colour(p)) ]
        at  == [ p \in spots |-> Spot(d, p[1], p[2]) ]
        own == IF d.manner = "paused"
               THEN Reached(d.own) :> {1} @@ Reached(d.own + 1) :> {2} ELSE <<>>
    IN  IF d.cpuDest THEN <<>>
        ELSE own @@ [ a \in { at[p] : p \in spots } |->
                        new[CHOOSE p \in spots : at[p] = a] ]

Wanted(d) ==
    IF ~d.cpuDest THEN {}
    ELSE { <<p[1] * Stride(d) + p[2] + 1, SourceOf(d, p[1], p[2])>> :
             p \in Lines(d) \X LineOf(d) }

-----------------------------------------------------------------------------
Nothing == [ status |-> {}, waiting |-> 0, isDest |-> FALSE, doing |-> "nothing",
             dir |-> 1, x |-> 0, xx |-> 0, y |-> 0, left |-> 0, rows |-> 0,
             sa |-> 0, da |-> 0, sbase |-> 0, dbase |-> 0, word |-> <<>>,
             feed |-> <<>>, buf |-> [ i \in 0 .. BufSize - 1 |-> {} ],
             pos |-> 0, cnt |-> 0 ]

Cleared == [ cpuSrc |-> FALSE, cpuDest |-> FALSE, pattern |-> FALSE,
             expand |-> FALSE, transp |-> FALSE, back |-> FALSE, wide |-> 1,
             width |-> 0, height |-> 0, dpitch |-> 0, spitch |-> 0, dst |-> 0,
             src |-> 0, skip |-> 0, lead |-> 0, rop |-> "black",
             fg |-> [ i \in 0 .. 1 |-> {} ], bg |-> [ i \in 0 .. 1 |-> {} ],
             key |-> {} ]

Init ==
    /\ memory = [ a \in 0 .. VramSize - 1 |->
                    { b \in Bits : (a * a + 5 * a + b) % 7 < 3 } ]
    /\ r = Cleared /\ e = Nothing /\ path \in Paths
    /\ todo = <<>> /\ got = <<>> /\ want = {} /\ picture = memory /\ blits = 0

Blit(d) ==
    /\ todo = <<>> /\ blits < MaxBlits
    /\ todo' = Steps(d)
    /\ got' = <<>> /\ want' = Wanted(d)
    /\ picture' = Meant(d) @@ picture
    /\ blits' = blits + 1
    /\ UNCHANGED <<blitvars, path>>

Step(op) == ~Running /\ todo # <<>> /\ Head(todo)[1] = op

\* gd5440_core_out, indices 10 to 39 of the graphics controller.
PortWrite ==
    /\ Step("reg") /\ path = "window"
    /\ r' = [ f \in DOMAIN r |-> Head(todo)[2][f] ] /\ todo' = Tail(todo)
    /\ UNCHANGED <<memory, e, path, got, ghosts>>

\* The registers in memory, beside the text screen or at the end of the
\* linear frame buffer.
MmioWrite ==
    /\ Step("reg") /\ path # "window"
    /\ r' = [ f \in DOMAIN r |-> Head(todo)[2][f] ] /\ todo' = Tail(todo)
    /\ UNCHANGED <<memory, e, path, got, ghosts>>

StatusWrite ==
    /\ Step("status")
    /\ Status(Head(todo)[2]) /\ todo' = Tail(todo)
    /\ UNCHANGED <<memory, r, path, got, ghosts>>

StatusRead ==
    /\ Step("wait")
    /\ todo' = IF "busy" \in e.status THEN todo ELSE Tail(todo)
    /\ UNCHANGED <<blitvars, path, got, ghosts>>

\* The bytes of an access go to the engine one by one while it takes them;
\* else the whole access goes to memory.
CpuWrite ==
    /\ Step("write")
    /\ LET a == Head(todo)[2]
           v == Head(todo)[3]
       IN  IF v = <<>> THEN UNCHANGED <<memory, e>> /\ todo' = Tail(todo)
           ELSE IF Takes
           THEN /\ Sent(v[1])
                /\ todo' = <<<<"write", a + 1, Tail(v)>>>> \o Tail(todo)
                /\ UNCHANGED memory
           ELSE /\ memory' = [ i \in { Reached(a + k - 1) : k \in DOMAIN v } |->
                                 v[CHOOSE k \in DOMAIN v : Reached(a + k - 1) = i] ]
                             @@ memory
                /\ todo' = Tail(todo)
                /\ UNCHANGED e
    /\ UNCHANGED <<r, path, got, ghosts>>

CpuRead ==
    /\ Step("read")
    /\ LET a == Head(todo)[2]
           n == Head(todo)[3]
       IN  /\ IF Gives THEN Taken /\ got' = Append(got, e.buf[e.pos])
              ELSE UNCHANGED e /\ got' = Append(got, Vram(Reached(a)))
           /\ todo' = IF n = 1 THEN Tail(todo)
                      ELSE <<<<"read", a + 1, n - 1>>>> \o Tail(todo)
    /\ UNCHANGED <<memory, r, path, ghosts>>

Engine == /\ NormalByte \/ PatternByte \/ SourceByte
          /\ UNCHANGED <<path, todo, got, ghosts>>

Next == \/ \E d \in Blits : Blit(d)
        \/ PortWrite \/ MmioWrite \/ StatusWrite \/ StatusRead
        \/ CpuWrite \/ CpuRead \/ Engine

Spec == Init /\ [][Next]_vars

-----------------------------------------------------------------------------
\* When the driver finds the engine free, the blit has done what it means as a
\* whole, and no more: every line of it with its own pitch and alignment,
\* copies that overlap in the direction that was chosen, bits that do not fill
\* their bytes, what the CPU drew meanwhile and what it collected.  And the
\* engine is free as soon as the last byte was fed or collected: the driver
\* never waits in vain, and no later access to memory is taken for data.
BlitsExact ==
    ~Running /\ (todo = <<>> \/ Head(todo)[1] = "wait") =>
        /\ memory = picture
        /\ \A p \in want : got[p[1]] = p[2]
        /\ e.waiting = 0 /\ "busy" \notin e.status
=============================================================================
