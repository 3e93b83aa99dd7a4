----------------------------- MODULE HostAudio -----------------------------
(***************************************************************************)
(* The sound's way to the host (audio/frontendaudio.c): the main thread    *)
(* appends a sample to a buffer at the ticks of a timer (timing.c), and    *)
(* SDL's thread takes samples from its front, without a lock.  Both change *)
(* the position, both change the timer, and the thread that finds too      *)
(* little pauses SDL until the main thread has filled the buffer.          *)
(*                                                                         *)
(* A step is one access to shared memory.  Samples are left out.  Time is  *)
(* what has passed since the timer's previous tick, and it stands still    *)
(* while the main thread goes over the timers.                             *)
(***************************************************************************)
EXTENDS Integers, TLAPS

CONSTANTS
  Samples,       \* SAMPLE_BUFFER
  Pull,          \* samples of a callback
  Fast, Normal,  \* intervals of the timer
  Late           \* intervals after which ticks are given up (100)

ASSUME HostAudioAssumption ==
  /\ Samples \in Nat /\ Pull \in Nat \ {0} /\ Samples >= 4 * Pull /\ Pull >= 2
  /\ Fast \in Nat \ {0} /\ Normal \in Nat /\ Fast <= Normal /\ Late \in Nat \ {0}

Half == Samples \div 2
Most == (3 * Samples) \div 4

VARIABLES
  pos,      \* frontendaudio_bufferpos
  flag,     \* frontendaudio_updateTiming: "none", "fast", "normal"
  paused,   \* SDL calls nobody
  timer,    \* [on, age, interval]: age is now - previous
  main,     \* the main thread: [pc, p, age], p and age what it has loaded
  audio     \* SDL's thread: [pc, p]

vars == <<pos, flag, paused, timer, main, audio>>

Init == /\ pos = 0 /\ flag = "none" /\ paused = TRUE
        /\ timer = [on |-> TRUE, age |-> 0, interval |-> Normal]
        /\ main = [pc |-> "loop", p |-> 0, age |-> 0]
        /\ audio = [pc |-> "wait", p |-> 0]

\* Time passes while the guest runs; older than this makes no difference.
Oldest == (Late + 1) * Normal
Pass == /\ main.pc = "loop" /\ timer.age < Oldest
        /\ timer' = [timer EXCEPT !.age = @ + 1]
        /\ UNCHANGED <<pos, flag, paused, main, audio>>

At(pc) == main.pc = pc
Go(pc) == main' = [main EXCEPT !.pc = pc]

\* timing_loop: the timer is due, or not.
Loop ==
    /\ At("loop")
    /\ Go(IF timer.on /\ timer.age >= timer.interval THEN "check" ELSE "update")
    /\ UNCHANGED <<pos, flag, paused, timer, audio>>

\* Mutant of Check: the buffer is filled to its end.
CheckFull ==
    /\ At("check")
    /\ Go(IF pos >= Samples THEN "tick" ELSE "load1")
    /\ UNCHANGED <<pos, flag, paused, timer, audio>>

\* frontendaudio_bufferSample: is there room?
Check ==
    /\ At("check")
    /\ Go(IF pos >= Samples - 2 THEN "tick" ELSE "load1")
    /\ UNCHANGED <<pos, flag, paused, timer, audio>>

\* buffer[pos++] = left, and right
Load(pc, next) ==
    /\ At(pc) /\ main' = [main EXCEPT !.pc = next, !.p = pos]
    /\ UNCHANGED <<pos, flag, paused, timer, audio>>
Store(pc, next) ==
    /\ At(pc) /\ main' = [main EXCEPT !.pc = next, !.p = 0]
    /\ pos' = main.p + 1
    /\ UNCHANGED <<flag, paused, timer, audio>>

Mark ==
    /\ At("mark") /\ Go("full")
    /\ flag' = IF pos < Half THEN "fast" ELSE IF pos >= Most THEN "normal" ELSE flag
    /\ UNCHANGED <<pos, paused, timer, audio>>

Full ==
    /\ At("full") /\ Go("tick")
    /\ timer' = [timer EXCEPT !.on = @ /\ pos # Samples]
    /\ UNCHANGED <<pos, flag, paused, audio>>

\* timers[i].previous += interval
Tick ==
    /\ At("tick") /\ main' = [main EXCEPT !.pc = "advance", !.age = timer.age]
    /\ UNCHANGED <<pos, flag, paused, timer, audio>>
Advance ==
    /\ At("advance") /\ main' = [main EXCEPT !.pc = "late", !.age = 0]
    /\ timer' = [timer EXCEPT !.age = main.age - timer.interval]
    /\ UNCHANGED <<pos, flag, paused, audio>>

\* Mutant of CatchUp: a difference that can be negative.
CatchUpSigned ==
    /\ At("late") /\ Go("update")
    /\ timer' = [ timer EXCEPT !.age =
                    IF @ >= timer.interval * Late THEN 0 ELSE @ ]
    /\ UNCHANGED <<pos, flag, paused, audio>>

\* The difference of two unsigned numbers: an age below zero is a great one.
CatchUp ==
    /\ At("late") /\ Go("update")
    /\ timer' = [ timer EXCEPT !.age =
                    IF @ < 0 \/ @ >= timer.interval * Late THEN 0 ELSE @ ]
    /\ UNCHANGED <<pos, flag, paused, audio>>

\* frontendaudio_updateSampleTiming; SDL's lock is held during a callback.
Update ==
    /\ At("update") /\ Go("loop")
    /\ flag = "normal" => audio.pc = "wait"
    /\ timer' = [ timer EXCEPT !.interval = IF flag = "fast" THEN Fast
                                            ELSE IF flag = "normal" THEN Normal ELSE @ ]
    /\ paused' = (paused /\ flag # "normal")
    /\ flag' = "none"
    /\ UNCHANGED <<pos, audio>>

Main == \/ Loop \/ Check \/ Load("load1", "store1") \/ Store("store1", "load2")
        \/ Load("load2", "store2") \/ Store("store2", "mark")
        \/ Mark \/ Full \/ Tick \/ Advance \/ CatchUp \/ Update

-----------------------------------------------------------------------------
(* frontendaudio_pull                                                      *)

Callback == /\ audio.pc = "wait" /\ ~paused
            /\ audio' = [audio EXCEPT !.pc = "enable"]
            /\ UNCHANGED <<pos, flag, paused, timer, main>>

\* timing_timerEnable: the timer begins now.
Enable ==
    /\ audio.pc = "enable" /\ audio' = [audio EXCEPT !.pc = "enough"]
    /\ timer' = IF pos < Most THEN [timer EXCEPT !.on = TRUE, !.age = 0] ELSE timer
    /\ UNCHANGED <<pos, flag, paused, main>>

Enough ==
    /\ audio.pc = "enough"
    /\ audio' = [audio EXCEPT !.pc = IF pos < Pull THEN "wait" ELSE "load"]
    /\ paused' = (pos < Pull)
    /\ UNCHANGED <<pos, flag, timer, main>>

\* The samples are taken, and the others moved to the front ...
Take ==
    /\ audio.pc = "load" /\ audio' = [pc |-> "store", p |-> pos]
    /\ UNCHANGED <<pos, flag, paused, timer, main>>
Taken ==
    /\ audio.pc = "store" /\ audio' = [pc |-> "wait", p |-> 0]
    /\ pos' = audio.p - Pull
    /\ UNCHANGED <<flag, paused, timer, main>>

Audio == Callback \/ Enable \/ Enough \/ Take \/ Taken

Next == Pass \/ Main \/ Audio
Spec == Init /\ [][Next]_vars /\ SF_vars(Pass) /\ WF_vars(Main) /\ WF_vars(Audio)

-----------------------------------------------------------------------------
\* Whatever the two threads overwrite of each other's position, no sample is
\* stored or taken outside the buffer.
InBuffer ==
    /\ pos \in 0 .. Samples
    /\ main.pc \in {"store1", "store2"} => main.p \in 0 .. Samples - 1
    /\ audio.pc = "load" => pos >= Pull
    /\ audio.pc = "store" => audio.p >= Pull

\* The timer's previous tick is never in the future, after the thread enabled
\* it while the main thread served it either.
NeverAhead == main.pc \in {"loop", "check", "update"} => timer.age >= 0


-----------------------------------------------------------------------------
(* Proofs, for every size of the buffer, length of a callback and interval *)
(* of the timer                                                            *)

Pcs == { "loop", "check", "load1", "store1", "load2", "store2", "mark", "full",
         "tick", "advance", "late", "update" }

Types ==
    /\ pos \in Int
    /\ timer \in [ on : BOOLEAN, age : Int, interval : Nat ]
    /\ main \in [ pc : Pcs, p : Int, age : Int ]
    /\ audio \in [ pc : {"wait", "enable", "enough", "load", "store"}, p : Int ]

\* Only SDL's thread makes the position smaller, and by Pull at least two: what
\* either thread has loaded bounds what it finds when it stores.
Positions ==
    /\ pos \in 0 .. Samples - 1
    /\ main.pc = "load1" => pos <= Samples - 3
    /\ main.pc = "load2" => pos <= Samples - 2
    /\ main.pc \in {"store1", "store2"} => pos <= main.p
    /\ main.pc = "store1" => main.p <= Samples - 3
    /\ main.pc = "store2" => main.p <= Samples - 2
    /\ audio.pc = "load" => pos >= Pull
    /\ audio.pc = "store" => audio.p >= Pull /\ audio.p <= pos

\* The difference is below zero only between two statements of timing_loop.
Ages == main.pc # "late" => timer.age >= 0

IInv == Types /\ Positions /\ Ages

\* frontendaudio_init leaves the position at zero and SDL paused.
LEMMA InitIInv == Init => IInv
  BY HostAudioAssumption DEF Init, IInv, Types, Positions, Ages, Pcs

-----------------------------------------------------------------------------

\* Every step of either thread keeps the fields in their ranges.
LEMMA TypesStep == Types /\ [Next]_vars => Types'
<1> SUFFICES ASSUME Types, [Next]_vars PROVE Types'
  OBVIOUS
<1>0. 0 \in Int
  OBVIOUS
<1> USE <1>0, HostAudioAssumption DEF Types
<1>1. CASE Pass
  BY <1>1 DEF Pass
<1>2. CASE Loop
  BY <1>2 DEF Loop, Go, At, Pcs
<1>3. CASE Check
  BY <1>3 DEF Check, Go, At, Pcs
<1>4. CASE Load("load1", "store1")
  BY <1>4 DEF Load, At, Pcs
<1>5. CASE Store("store1", "load2")
  <2>1. pos' \in Int
    BY <1>5 DEF Store
  <2>2. main' \in [ pc : Pcs, p : Int, age : Int ]
    BY <1>5 DEF Store, Pcs
  <2> QED
    BY <1>5, <2>1, <2>2 DEF Store
<1>6. CASE Load("load2", "store2")
  BY <1>6 DEF Load, At, Pcs
<1>7. CASE Store("store2", "mark")
  <2>1. pos' \in Int
    BY <1>7 DEF Store
  <2>2. main' \in [ pc : Pcs, p : Int, age : Int ]
    BY <1>7 DEF Store, Pcs
  <2> QED
    BY <1>7, <2>1, <2>2 DEF Store
<1>8. CASE Mark
  BY <1>8 DEF Mark, Go, At, Pcs
<1>9. CASE Full
  BY <1>9 DEF Full, Go, At, Pcs
<1>10. CASE Tick
  BY <1>10 DEF Tick, At, Pcs
<1>11. CASE Advance
  <2>1. timer' \in [ on : BOOLEAN, age : Int, interval : Nat ]
    BY <1>11 DEF Advance
  <2>2. main' \in [ pc : Pcs, p : Int, age : Int ]
    BY <1>11 DEF Advance, Pcs
  <2> QED
    BY <1>11, <2>1, <2>2 DEF Advance
<1>12. CASE CatchUp
  BY <1>12 DEF CatchUp, Go, At, Pcs
<1>13. CASE Update
  BY <1>13 DEF Update, Go, At, Pcs
<1>14. CASE Callback
  BY <1>14 DEF Callback
<1>15. CASE Enable
  BY <1>15 DEF Enable
<1>16. CASE Enough
  BY <1>16 DEF Enough
<1>17. CASE Take
  BY <1>17 DEF Take
<1>18. CASE Taken
  BY <1>18 DEF Taken
<1>19. CASE UNCHANGED vars
  BY <1>19 DEF vars
<1> QED
  BY <1>1, <1>2, <1>3, <1>4, <1>5, <1>6, <1>7, <1>8, <1>9, <1>10, <1>11, <1>12,
     <1>13, <1>14, <1>15, <1>16, <1>17, <1>18, <1>19 DEF Next, Main, Audio

\* Every step of either thread keeps the bounds on the position and on what has
\* been loaded of it, in frontendaudio_bufferSample and in frontendaudio_pull.
LEMMA PositionsStep == Types /\ Positions /\ [Next]_vars => Positions'
<1> SUFFICES ASSUME Types, Positions, [Next]_vars PROVE Positions'
  OBVIOUS
<1> USE HostAudioAssumption DEF Types, Positions
<1>1. CASE Load("load1", "store1")
  BY <1>1 DEF Load, At
<1>2. CASE Store("store1", "load2")
  BY <1>2 DEF Store, At
<1>3. CASE Load("load2", "store2")
  BY <1>3 DEF Load, At
<1>4. CASE Store("store2", "mark")
  BY <1>4 DEF Store, At
<1>5. CASE Check
  BY <1>5 DEF Check, Go, At
<1>6. CASE Pass \/ Loop \/ Mark \/ Full \/ Tick \/ Advance \/ CatchUp \/ Update
  BY <1>6, ZenonT(60) DEF Pass, Loop, Mark, Full, Tick, Advance, CatchUp, Update, Go, At
<1>7. CASE Callback \/ Enable
  BY <1>7 DEF Callback, Enable
<1>8. CASE Enough
  BY <1>8 DEF Enough
<1>9. CASE Take
  BY <1>9 DEF Take
<1>10. CASE Taken
  BY <1>10 DEF Taken
<1>11. CASE UNCHANGED vars
  BY <1>11 DEF vars
<1> QED
  BY <1>1, <1>2, <1>3, <1>4, <1>5, <1>6, <1>7, <1>8, <1>9, <1>10, <1>11
     DEF Next, Main, Audio

\* timing_loop makes good a difference below zero before it goes on, and enabling
\* the timer in between sets it to zero.
LEMMA AgesStep == Types /\ Ages /\ [Next]_vars => Ages'
<1> SUFFICES ASSUME Types, Ages, [Next]_vars PROVE Ages'
  OBVIOUS
<1>0. 0 \in Int
  OBVIOUS
<1> USE <1>0, HostAudioAssumption DEF Types, Pcs, Ages
<1>1. CASE Pass
  BY <1>1 DEF Pass
<1>2. CASE Main
  <2>1. CASE Loop \/ Check \/ Mark
    BY <2>1 DEF Loop, Check, Mark, Go, At
  <2>2. CASE Load("load1", "store1") \/ Load("load2", "store2")
    BY <2>2 DEF Load, At
  <2>3. CASE Store("store1", "load2") \/ Store("store2", "mark")
    BY <2>3 DEF Store, At
  <2>4. CASE Full \/ Tick \/ Advance
    BY <2>4 DEF Full, Tick, Advance, Go, At
  <2>5. CASE CatchUp \/ Update
    BY <2>5 DEF CatchUp, Update, Go, At
  <2> QED
    BY <1>2, <2>1, <2>2, <2>3, <2>4, <2>5 DEF Main
<1>3. CASE Audio
  <2>1. CASE Enable
    BY <2>1 DEF Enable
  <2>2. CASE Callback \/ Enough \/ Take \/ Taken
    BY <2>2 DEF Callback, Enough, Take, Taken
  <2> QED
    BY <1>3, <2>1, <2>2 DEF Audio
<1>4. CASE UNCHANGED vars
  BY <1>4 DEF vars
<1> QED
  BY <1>1, <1>2, <1>3, <1>4 DEF Next

-----------------------------------------------------------------------------

\* The invariant holds in every behaviour.
LEMMA Invariance == Spec => []IInv
<1>1. IInv /\ [Next]_vars => IInv'
  BY TypesStep, PositionsStep, AgesStep DEF IInv
<1> QED
  BY InitIInv, <1>1, PTL DEF Spec

\* Whatever frontendaudio_bufferSample and frontendaudio_pull overwrite of each
\* other's position, samples are stored and taken inside the buffer only.
THEOREM AlwaysInBuffer == Spec => []InBuffer
<1>1. IInv => InBuffer
  BY HostAudioAssumption DEF IInv, Types, Positions, InBuffer
<1> QED
  BY Invariance, <1>1, PTL

\* The timer of the samples never waits for a tick in the future, whenever SDL's
\* thread enables it while timing_loop serves it.
THEOREM TimerNeverAhead == Spec => []NeverAhead
<1>1. IInv => NeverAhead
  BY DEF IInv, Ages, NeverAhead
<1> QED
  BY Invariance, <1>1, PTL
=============================================================================
