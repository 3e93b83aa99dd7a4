----------------------------- MODULE FrameQueue -----------------------------
(***************************************************************************)
(* What a network card promises the driver about received frames: those    *)
(* it accepts are handed over whole, once each, in the order they came.    *)
(* It may refuse any frame.  Frames are numbered in the order they are     *)
(* made; a frame that arrives damaged would be number 0.                   *)
(***************************************************************************)
EXTENDS Naturals, Sequences

CONSTANT Frames    \* the numbers frames can have

FramesAssumption == Frames \subseteq Nat \ {0}

VARIABLES
  queue,   \* numbers of the frames the card holds for the driver
  taken,   \* number of the last frame handed over
  resets   \* how often the driver has reset the card

vars == <<queue, taken, resets>>

Last == IF queue = <<>> THEN taken ELSE queue[Len(queue)]

Init == queue = <<>> /\ taken = 0 /\ resets = 0

Accept(f) ==
    /\ f > Last
    /\ queue' = Append(queue, f)
    /\ UNCHANGED <<taken, resets>>

Take ==
    /\ queue # <<>>
    /\ taken' = Head(queue)
    /\ queue' = Tail(queue)
    /\ UNCHANGED resets

\* Only by resetting the card does the driver give up what it held.
Reset == queue' = <<>> /\ resets' = resets + 1 /\ UNCHANGED taken

Next == (\E f \in Frames : Accept(f)) \/ Take \/ Reset

Spec == Init /\ [][Next]_vars
=============================================================================
