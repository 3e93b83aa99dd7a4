------------------------------ MODULE MC_Cards ------------------------------
(***************************************************************************)
(* Two network cards and the sound on four benches: the NE2000 and the     *)
(* RTL8139 with their drivers, the Sound Blaster with a player, and the    *)
(* two threads that carry the sound to the host.                           *)
(*                                                                         *)
(* NE2000: a ring of four pages that frames of one and two pages fill, two *)
(* slots at the host's side, one transmission and two resets.  RTL8139: a  *)
(* ring of eight units that frames of three and four fill, two C+          *)
(* descriptors of each kind, loopback, one reset.                          *)
(***************************************************************************)
EXTENDS HostAudio, Sequences

NeKind(p, r, d)  == [pages |-> p, runt |-> r, dest |-> d]
RtlMode(c, l, w) == [cplus |-> c, loop |-> l, wrap |-> w]
RtlKind(l, d)    == [len |-> l, dest |-> d]

Song(how, auto, wide, stereo, record, hush, block, blocks) ==
    [ how |-> how, auto |-> auto, wide |-> wide, stereo |-> stereo, record |-> record,
      gap |-> hush, block |-> block, blocks |-> blocks ]

Songs == { Song("begin", TRUE, FALSE, FALSE, FALSE, FALSE, 2, 3),
           Song("begin", TRUE, TRUE, TRUE, FALSE, TRUE, 2, 3),
           Song("begin", FALSE, TRUE, FALSE, FALSE, FALSE, 2, 2),
           Song("begin", TRUE, FALSE, FALSE, TRUE, FALSE, 2, 2),
           Song("single", FALSE, FALSE, FALSE, FALSE, TRUE, 2, 2),
           Song("autoblock", TRUE, FALSE, FALSE, FALSE, FALSE, 2, 3) }

VARIABLES
  bench,                            \* which of the four is in use
  ne, neBuffer, neMade, neDriver,
  rtl, rtlMade, rtlDriver,
  dsp, dma, mem, request, program, todo, serving, armed, gap, done, heard,
  moved, pauses, resets

N == INSTANCE Ne2000 WITH
       MemPages <- 5, Slots <- 2, Start <- 2, Stop <- 6, TxPage <- 1,
       MaxFrames <- 3, Burst <- 3, MaxSends <- 1, MaxResets <- 2,
       Kinds <- { NeKind(1, FALSE, "us"), NeKind(2, FALSE, "hashed"),
                  NeKind(1, TRUE, "us") },
       nic <- ne, buffer <- neBuffer, made <- neMade, drv <- neDriver

R == INSTANCE Rtl8139 WITH
       RingUnits <- 8, LargestFrame <- 2, RxDescs <- 2, TxDescs <- 2,
       Accepted <- {"us"}, MaxFrames <- 3, MaxSends <- 1, MaxResets <- 1,
       Kinds <- { RtlKind(1, "us"), RtlKind(2, "us"), RtlKind(1, "other") },
       Modes <- { RtlMode(FALSE, FALSE, FALSE), RtlMode(FALSE, TRUE, TRUE),
                  RtlMode(TRUE, FALSE, FALSE), RtlMode(TRUE, TRUE, FALSE) },
       nic <- rtl, made <- rtlMade, drv <- rtlDriver

B == INSTANCE SoundBlaster WITH Programs <- Songs, MaxPauses <- 2, MaxResets <- 1

ASSUME /\ N!SlotsAssumption /\ N!MemoryAssumption /\ N!SystemAssumption
       /\ R!RtlAssumption
       /\ N!Frames!FramesAssumption /\ R!Frames!FramesAssumption

neCard  == <<ne, neBuffer, neMade, neDriver>>
rtlCard == <<rtl, rtlMade, rtlDriver>>
blaster == <<dsp, dma, mem, request, program, todo, serving, armed, gap, done,
             heard, moved, pauses, resets>>
all     == <<bench, vars, neCard, rtlCard, blaster>>

MCInit ==
    /\ bench \in {"host", "ne2000", "rtl8139", "blaster"}
    /\ Init /\ N!Init /\ R!Init /\ B!Init
    /\ bench # "blaster" => program = CHOOSE p \in Songs : ~p.gap

InHost    == bench = "host"    /\ UNCHANGED <<bench, neCard, rtlCard, blaster>>
InNe2000  == bench = "ne2000"  /\ UNCHANGED <<bench, vars, rtlCard, blaster>>
InRtl8139 == bench = "rtl8139" /\ UNCHANGED <<bench, vars, neCard, blaster>>
InBlaster == bench = "blaster" /\ UNCHANGED <<bench, vars, neCard, rtlCard>>

MCNext == \/ InHost /\ Next
          \/ InNe2000 /\ N!Next
          \/ InRtl8139 /\ R!Next
          \/ InBlaster /\ B!Next

\* Time passes and the threads run; the timers tick, the processor takes
\* interrupts, and the drivers go on with what they have begun.  Only one
\* bench is in use, so that what is fair on each may be stated together.
Devices == \/ InHost /\ Main
           \/ InNe2000 /\ N!TxEnds
           \/ InBlaster /\ B!Sample
Timers  == \/ InHost /\ Audio
           \/ InBlaster /\ B!Silence
Irqs    == \/ InNe2000 /\ N!Interrupt
           \/ InRtl8139 /\ R!Interrupt
Drivers == \/ InNe2000 /\ N!Drives
           \/ InRtl8139 /\ R!Drives
           \/ InBlaster /\ B!Drives

MCSpec == /\ MCInit /\ [][MCNext]_all
          /\ WF_all(Devices) /\ WF_all(Timers) /\ WF_all(Irqs) /\ WF_all(Drivers)
          /\ SF_all(InHost /\ Pass)

-----------------------------------------------------------------------------

\* Every position stays inside its buffer: of the sound, of the receive rings
\* and of the frames that wait at the host.
InsideBuffers == InBuffer /\ N!TypeOK /\ R!TypeOK

\* Accepted frames are handed over whole, once each and in order, whatever
\* ne2000.c, rtl8139.c and their drivers do in between.
ImplementsFrameQueue == N!ImplementsFrameQueue /\ R!ImplementsFrameQueue

\* Once the wire is quiet, every frame that a card took has been handed over
\* and every transmission has ended for its driver: no interrupt is lost
\* between events, acknowledgements, masks and resets.
FramesArrive == <>[](CASE bench = "ne2000"  -> N!Quiet
                       [] bench = "rtl8139" -> R!Quiet
                       [] OTHER             -> TRUE)

\* blaster.c plays or records every unit of every block once, in order, and
\* announces each block once.
PlaysExactly == B!PlaysExactly

\* A song comes to its end, and sound that frontendaudio.c paused for want of
\* samples goes on.
SoundGoesOn == /\ <>[](bench = "blaster" => B!Over)
               /\ []<>(bench = "host" => ~paused)
=============================================================================
