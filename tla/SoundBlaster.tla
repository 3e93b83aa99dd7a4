---------------------------- MODULE SoundBlaster ----------------------------
(***************************************************************************)
(* The DSP of the Sound Blaster 16 (audio/blaster.c): commands come byte   *)
(* by byte, samples go through a channel of one of the DMA controllers at  *)
(* the ticks of a timer, and every block ends with an interrupt.  With it  *)
(* a driver that plays a song through two halves of a buffer, or records,  *)
(* while its user pauses, goes on and resets the card.                     *)
(*                                                                         *)
(* Sample values, volumes, and rates are left out: a frame is the bytes    *)
(* that it is made of, and the timer ticks while it is enabled.            *)
(***************************************************************************)
EXTENDS Integers, Sequences

CONSTANTS
  Programs,    \* [how, auto, gap, wide, stereo, record, block, blocks]: units of a
               \*  block, and how many blocks
  MaxPauses, MaxResets      \* bounds

MemoryBytes == 64

\* The controller of the 8-bit channels is 0, that of the 16-bit ones 1.
Controller(w) == INSTANCE Dma WITH Shift <- w, MemSize <- MemoryBytes
Channel == 1                    \* 1 and 5

VARIABLES
  dsp,        \* the card
  dma,        \* the controllers
  mem,
  request,    \* the card's request in the interrupt controller
  program,
  todo,       \* what the driver is about to write to the DSP
  serving,    \* the driver is in its interrupt handler
  armed,      \* the channel is set up
  gap,        \* the silence before the song: "none", "wait", "over"
  done,       \* the blocks whose end it was told
  heard,      \* the frames that were played
  moved,      \* the units that went through the channel
  pauses, resets

card == <<dsp, dma, mem, request, heard, moved>>
driver == <<program, todo, serving, armed, gap, done, pauses, resets>>
vars == <<card, driver>>

\* A command, with the flags that it may have.
Command(name) == [name |-> name, wide |-> FALSE, record |-> FALSE, auto |-> FALSE]

AtReset ==
    [ cmd |-> Command("none"), needed |-> 0, params |-> <<>>,
      size |-> 1, left |-> 0, active |-> FALSE, auto |-> FALSE, stop |-> FALSE,
      record |-> FALSE, wide |-> FALSE, stereo |-> FALSE, paused |-> FALSE,
      silence |-> 0, auto8 |-> 1, auto16 |-> 1, pend8 |-> FALSE, pend16 |-> FALSE,
      speaker |-> FALSE, answers |-> 1, timer |-> FALSE ]

-----------------------------------------------------------------------------
(* Commands                                                                *)

Needed(name) ==
    CASE name = "begin" -> 3
      [] name \in {"single", "size", "silence", "rate"} -> 2
      [] name \in {"direct", "invert"} -> 1
      [] OTHER -> 0

Size(low, high) == low + 256 * high + 1

\* A transfer of size units begins.
Begun(d, size, c, stereo) ==
    [ d EXCEPT !.size = size, !.left = size, !.active = TRUE, !.auto = c.auto,
               !.stop = FALSE, !.record = c.record, !.wide = c.wide,
               !.stereo = stereo, !.paused = FALSE, !.timer = TRUE ]

\* The last parameter is there: mode, low and high byte, or low and high byte.
Complete(d, c, p) ==
    LET e == [d EXCEPT !.cmd = Command("none"), !.needed = 0, !.params = <<>>]
        n == IF c.name = "begin" THEN Size(p[2], p[3])
             ELSE IF Len(p) = 2 THEN Size(p[1], p[2]) ELSE 0
    IN  CASE c.name = "begin" ->
               [ Begun(e, n, c, p[1] = 1) EXCEPT
                   !.auto8 = IF c.wide THEN @ ELSE n, !.auto16 = IF c.wide THEN n ELSE @ ]
          [] c.name = "single"  -> Begun(e, n, c, FALSE)
          [] c.name = "size"    -> [e EXCEPT !.auto8 = n, !.size = n]
          [] c.name = "silence" -> [e EXCEPT !.silence = n, !.timer = TRUE]
          [] c.name = "invert"  -> [e EXCEPT !.answers = @ + 1]
          [] OTHER              -> e

\* 0x45 and 0x47: from now on blocks repeat.
Continued(d, wide) ==
    LET e == [d EXCEPT !.auto = TRUE, !.stop = FALSE, !.paused = FALSE, !.timer = TRUE]
        n == IF wide THEN d.auto16 ELSE d.auto8
    IN  IF d.wide # wide THEN d
        ELSE IF d.active THEN e
        ELSE [e EXCEPT !.active = TRUE, !.left = n, !.size = n]

\* Mutant of Resumed: the timer stays as it is.
ResumedStill(d, wide) == IF d.wide # wide THEN d ELSE [d EXCEPT !.paused = FALSE]

Paused(d, wide)  == IF d.wide # wide THEN d
                    ELSE [d EXCEPT !.paused = TRUE, !.timer = FALSE]
Resumed(d, wide) == IF d.wide # wide THEN d
                    ELSE [d EXCEPT !.paused = FALSE,
                                   !.timer = @ \/ d.active \/ d.silence # 0]

\* A command without parameters, but for those that ask for an interrupt.
Simple(d, c) ==
    CASE c.name = "autoblock" -> Begun(d, d.auto8, c, FALSE)
      [] c.name = "continue"  -> Continued(d, c.wide)
      [] c.name = "pause"     -> Paused(d, c.wide)
      [] c.name = "resume"    -> Resumed(d, c.wide)
      [] c.name = "exit"      -> IF d.active /\ d.wide = c.wide /\ d.auto
                                 THEN [d EXCEPT !.stop = TRUE] ELSE d
      [] c.name = "speaker"   -> [d EXCEPT !.speaker = ~@]
      [] c.name = "version"   -> [d EXCEPT !.answers = @ + 2]
      [] OTHER                -> d

\* blaster_writecmd of one byte: a parameter, or a command.
Written(d, x) ==
    IF d.needed # 0
    THEN LET p == Append(d.params, x)
         IN  IF Len(p) < d.needed THEN [d EXCEPT !.params = p]
             ELSE Complete(d, d.cmd, p)
    ELSE IF Needed(x.name) # 0
    THEN [d EXCEPT !.cmd = x, !.needed = Needed(x.name), !.params = <<>>]
    ELSE Simple(d, x)

\* blaster_raiseIrq
Raised(d, wide) == IF wide THEN [d EXCEPT !.pend16 = TRUE] ELSE [d EXCEPT !.pend8 = TRUE]

-----------------------------------------------------------------------------
(* Samples                                                                 *)

Wide       == IF dsp.wide THEN 1 ELSE 0
Units      == IF dsp.stereo THEN 2 ELSE 1
FrameBytes == Units * (Wide + 1)
Left       == Controller(Wide)!Remaining(dma[Wide], Channel)

Reading == Controller(Wide)!ReadMemory(dma[Wide], mem, Channel, FrameBytes)
Writing == Controller(Wide)!WriteMemory(dma[Wide], mem, Channel,
                                        [ k \in 1 .. FrameBytes |-> 0 ])

\* Mutant of BlockOver: a block that is over begins again one unit short.
BlockOverShort(d) ==
    IF d.left # 0 THEN d
    ELSE IF d.auto /\ ~d.stop THEN [d EXCEPT !.left = d.size - 1]
    ELSE [d EXCEPT !.active = FALSE, !.auto = FALSE, !.stop = FALSE, !.timer = FALSE]

BlockOver(d) ==
    IF d.left # 0 THEN d
    ELSE IF d.auto /\ ~d.stop THEN [d EXCEPT !.left = d.size]
    ELSE [d EXCEPT !.active = FALSE, !.auto = FALSE, !.stop = FALSE, !.timer = FALSE]

\* A pause of its own (0x80) ends with an interrupt.
Silence ==
    /\ dsp.timer /\ dsp.silence # 0
    /\ LET d == [dsp EXCEPT !.silence = @ - 1]
       IN  IF d.silence # 0 THEN dsp' = d /\ UNCHANGED request
           ELSE /\ dsp' = [ Raised(d, FALSE) EXCEPT
                              !.timer = d.active \/ d.paused ]
                /\ request' = TRUE
    /\ UNCHANGED <<dma, mem, heard, moved, driver>>

\* Nothing to do, or nothing that can be done.
Idle ==
    /\ dsp.timer /\ dsp.silence = 0
    /\ ~dsp.active \/ dsp.paused \/ dsp.left < Units \/ Left < FrameBytes
    /\ dsp' = IF dsp.active THEN dsp ELSE [dsp EXCEPT !.timer = FALSE]
    /\ UNCHANGED <<dma, mem, request, heard, moved, driver>>

\* One frame; the driver answers an interrupt before the next.
Sample ==
    /\ dsp.timer /\ dsp.silence = 0 /\ dsp.active /\ ~dsp.paused
    /\ dsp.left >= Units /\ Left >= FrameBytes
    /\ dsp.left = Units => ~request /\ ~serving /\ todo = <<>>
    /\ LET d == [dsp EXCEPT !.left = @ - Units]
           ended == d.left = 0
           x == IF dsp.record THEN Writing ELSE Reading
       IN  /\ dma' = [dma EXCEPT ![Wide] = x.dma]
           /\ mem' = IF dsp.record THEN x.mem ELSE mem
           /\ heard' = IF dsp.record THEN heard ELSE heard \o x.taken
           /\ dsp' = IF ended THEN Raised(BlockOver(d), dsp.wide) ELSE d
           /\ request' = (request \/ ended)
    /\ moved' = moved + Units
    /\ UNCHANGED driver

-----------------------------------------------------------------------------
(* The driver                                                              *)

UnitBytes == IF program.wide THEN 2 ELSE 1
BlockBytes == program.block * UnitBytes
Halves == IF program.auto THEN 2 ELSE 1

\* The song is the numbers from 1; the recorder's buffer is full of ones.
Half(b, m) ==
    [ a \in DOMAIN m |->
        LET from == ((b - 1) % Halves) * BlockBytes
        IN  IF a \in from .. from + BlockBytes - 1
            THEN IF program.record THEN 1 ELSE (b - 1) * BlockBytes + (a - from) + 1
            ELSE m[a] ]

\* The channel is set up for the whole buffer; again and again with two halves.
Armed ==
    LET w == IF program.wide THEN 1 ELSE 0
        low(d, reg, n) == Controller(w)!WriteChannel(d, Channel, reg, n)
        d0 == Controller(w)!SetMode(Controller(w)!ClearFlipFlop(dma[w]), Channel,
                                    IF Halves = 2 THEN 16 ELSE 0)
        d1 == low(low(d0, "addr", 0), "addr", 0)
    IN  [ dma EXCEPT ![w] =
            low(low(d1, "count", Halves * program.block - 1), "count", 0) ]

Of(name) == [ Command(name) EXCEPT !.wide = program.wide, !.record = program.record,
                                   !.auto = Halves = 2 ]

\* What the driver writes to begin, and to play its last block.
Opening ==
    CASE program.how = "begin" ->
           <<Of("begin"), IF program.stereo THEN 1 ELSE 0, program.block - 1, 0>>
      [] program.how = "single" -> <<Of("single"), program.block - 1, 0>>
      [] program.how = "autoblock" ->
           <<Command("size"), program.block - 1, 0, Of("autoblock")>>
Closing == IF program.auto THEN <<Of("exit")>> ELSE <<>>

Init ==
    /\ program \in Programs
    /\ dsp = AtReset
    /\ dma = [ w \in 0 .. 1 |-> Controller(w)!DmaAtStart ]
    /\ mem = [ a \in 0 .. 15 |-> 0 ]
    /\ request = FALSE /\ todo = <<>> /\ serving = FALSE /\ armed = FALSE
    /\ gap = IF program.gap THEN "none" ELSE "over"
    /\ done = 0 /\ heard = <<>> /\ moved = 0 /\ pauses = 0 /\ resets = 0

Ready == todo = <<>> /\ ~serving /\ ~dsp.active /\ moved = 0

Hush ==
    /\ Ready /\ gap = "none" /\ gap' = "wait"
    /\ todo' = <<Command("silence"), 1, 0>>
    /\ UNCHANGED <<card, program, serving, armed, done, pauses, resets>>

\* The driver begins when nothing was played, or everything was undone.
Start ==
    /\ Ready /\ gap = "over" /\ done = 0
    /\ dma' = Armed /\ armed' = TRUE
    /\ mem' = IF program.auto THEN Half(2, Half(1, mem)) ELSE Half(1, mem)
    /\ todo' = <<Command("speaker")>> \o Opening \o
               IF program.blocks = 1 THEN Closing ELSE <<>>
    /\ UNCHANGED <<dsp, request, heard, moved, program, serving, gap, done, pauses, resets>>

\* A byte goes to the DSP.
Send ==
    /\ todo # <<>>
    /\ dsp' = Written(dsp, Head(todo)) /\ todo' = Tail(todo)
    /\ UNCHANGED <<dma, mem, request, heard, moved, program, serving, armed, gap,
                   done, pauses, resets>>

Enter == /\ request /\ ~serving /\ todo = <<>> /\ (armed \/ gap = "wait")
         /\ request' = FALSE /\ serving' = TRUE
         /\ UNCHANGED <<dsp, dma, mem, heard, moved, program, todo, armed, gap,
                        done, pauses, resets>>

\* blaster_clearIrq: the request goes when nothing is pending.
Acknowledged(wide) ==
    /\ dsp' = IF wide THEN [dsp EXCEPT !.pend16 = FALSE] ELSE [dsp EXCEPT !.pend8 = FALSE]
    /\ request' = (request /\ (dsp'.pend8 \/ dsp'.pend16))

Pending == IF program.wide THEN dsp.pend16 ELSE dsp.pend8

\* The handler acknowledges what the mixer's status says, and fills the half
\* that is over, or begins another block: the channel first, or the DSP.
Serve ==
    /\ serving /\ serving' = FALSE
    /\ IF gap = "wait" /\ dsp.pend8
       THEN /\ Acknowledged(FALSE) /\ gap' = "over"
            /\ UNCHANGED <<dma, mem, todo, armed, done>>
       ELSE IF ~Pending THEN UNCHANGED <<dsp, request, dma, mem, todo, armed, gap, done>>
       ELSE /\ Acknowledged(program.wide)
            /\ done' = done + 1
            /\ mem' = IF done' + Halves <= program.blocks THEN Half(done' + Halves, mem)
                      ELSE mem
            /\ IF ~program.auto /\ done' < program.blocks
               THEN /\ armed' \in BOOLEAN
                    /\ dma' = IF armed' THEN Armed ELSE dma
                    /\ todo' = Opening
               ELSE /\ todo' = IF done' + 1 = program.blocks THEN Closing ELSE <<>>
                    /\ UNCHANGED <<dma, armed>>
            /\ UNCHANGED gap
    /\ UNCHANGED <<heard, moved, program, pauses, resets>>

Arm == /\ ~armed /\ todo = <<>> /\ gap = "over" /\ done # 0
       /\ dma' = Armed /\ armed' = TRUE
       /\ UNCHANGED <<dsp, mem, request, heard, moved, program, todo, serving, gap,
                      done, pauses, resets>>

\* The user stops the sound for a while; a stop that was asked for is asked
\* for again when blocks are to repeat from now on.
Pause ==
    /\ todo = <<>> /\ pauses < MaxPauses /\ dsp.active /\ ~serving /\ armed
    /\ \E back \in {"resume"} \cup IF program.auto THEN {"continue"} ELSE {} :
         todo' = <<Of("pause"), Command("rate"), 1, 2, Of(back)>> \o
                 IF back = "continue" /\ dsp.stop THEN Closing ELSE <<>>
    /\ pauses' = pauses + 1
    /\ UNCHANGED <<card, program, serving, armed, gap, done, resets>>

\* blaster_write of 0 to the reset port: the driver begins anew.
Reset ==
    /\ resets < MaxResets /\ (moved # 0 \/ gap = "wait")
    /\ dsp' = AtReset /\ request' = FALSE
    /\ todo' = <<>> /\ done' = 0 /\ heard' = <<>> /\ moved' = 0
    /\ gap' = IF gap = "over" THEN "over" ELSE "none"
    /\ resets' = resets + 1
    /\ UNCHANGED <<dma, mem, program, serving, armed, pauses>>

Drives == Hush \/ Start \/ Send \/ Enter \/ Serve \/ Arm

Next == Silence \/ Idle \/ Sample \/ Drives \/ Pause \/ Reset

Spec == /\ Init /\ [][Next]_vars
        /\ WF_vars(Silence) /\ WF_vars(Sample)
        /\ WF_vars(Drives)

-----------------------------------------------------------------------------
Announced == done + IF Pending /\ gap = "over" THEN 1 ELSE 0

\* The song is heard in order, every byte once, and as many blocks are
\* announced as went through the channel, however the handler's work, pauses
\* and resets fall between the samples.
PlaysExactly ==
    /\ \A k \in DOMAIN heard : heard[k] = k
    /\ Announced = moved \div program.block
    /\ moved <= program.block * program.blocks

\* The driver was told of the end of every block.
Over == done = program.blocks
=============================================================================
