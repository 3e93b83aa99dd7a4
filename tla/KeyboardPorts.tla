--------------------------- MODULE KeyboardPorts ---------------------------
(***************************************************************************)
(* The keyboard controller and its devices under any guest: port accesses  *)
(* in any order, whatever the status says, and resets at any time.         *)
(***************************************************************************)
EXTENDS KeyboardController

CONSTANTS
  Commands,   \* the bytes the guest may write to port 64
  Data,       \* the bytes the guest may write to port 60
  MaxWrites   \* bound on the guest's writes

ASSUME PortsAssumption ==
    Commands \subseteq Byte /\ Data \subseteq Byte /\ MaxWrites \in Nat

VARIABLES
  writes,   \* the guest's writes so far
  source,   \* history: the channel the byte in ob came from
  partial,  \* history: bytes of an unfinished packet the mouse has offered
  owed      \* history: motion reported and not yet offered in a packet

vars == <<devices, writes, source, partial, owed>>

\* The channel that a poll from k sends from.
SourceOf(k) ==
    CASE k.state = "delayOut" -> k.chan
      [] k.state \in {"mainKbd", "mainBoth", "scanKbd"} -> 1
      [] k.state \in {"mainAux", "scanAux"} -> 2
      [] OTHER -> 0

ControllerPolls ==
    /\ CtlPoll
    /\ source' = IF kbc'.obf = 1 /\ (kbc.obf = 0 \/ kbc.state = "delayOut")
                 THEN SourceOf(kbc) ELSE source
    /\ UNCHANGED <<writes, partial, owed>>

\* What the mouse takes from its queue continues the packet; a reset or the
\* defaults drop the pending motion, a reset the queue as well.
DevicesPoll ==
    LET fetched == /\ mouse.state = "main2"
                   /\ kbc.port[2].out = NoByte /\ kbc'.port[2].out # NoByte
        obeyed  == kbc.port[2].want = 1 /\ kbc'.port[2].want = 0
        packet  == Append(partial, kbc'.port[2].out)
        byte    == kbc.port[2].dat
    IN  /\ DevPoll
        /\ UNCHANGED <<writes, source>>
        /\ CASE fetched /\ Len(packet) = 3 ->
                  partial' = <<>> /\ owed' = owed - Decode(packet)
             [] fetched /\ Len(packet) < 3 -> partial' = packet /\ owed' = owed
             [] ~fetched /\ obeyed /\ mouse.param = 0 /\ byte = 255 ->
                  partial' = <<>> /\ owed' = 0
             [] ~fetched /\ obeyed /\ mouse.param = 0 /\ byte = 246 ->
                  partial' = partial /\ owed' = Motion(partial \o mouse'.queue)
             [] ~fetched /\ obeyed /\ mouse.param = 0 /\ byte = 235 ->
                  partial' = partial /\ owed' = owed - Clamp(StreamPackets(mouse).px)
             [] OTHER -> UNCHANGED <<partial, owed>>

Reset ==
    /\ PlatformReset
    /\ UNCHANGED <<writes, source, partial, owed>>

Read ==
    /\ kbc' = ReadData(kbc)
    /\ UNCHANGED <<keyboard, mouse, events, writes, source, partial, owed>>

Write(k) ==
    /\ writes < MaxWrites
    /\ kbc' = k
    /\ writes' = writes + 1
    /\ UNCHANGED <<keyboard, mouse, events, source, partial, owed>>

Host ==
    /\ UNCHANGED <<writes, source, partial>>
    /\ \/ \E key \in Keys, down \in BOOLEAN : HostKey(key, down) /\ UNCHANGED owed
       \/ \E v \in Moves : HostMove(v) /\ owed' = owed + v
       \/ \E left \in Bit : HostClick(left) /\ UNCHANGED owed

Init ==
    /\ DevicesInit
    /\ writes = 0 /\ source = 0 /\ partial = <<>> /\ owed = 0

Next ==
    \/ ControllerPolls \/ DevicesPoll \/ Reset \/ Read \/ Host
    \/ \E v \in Commands : Write(WriteCommand(kbc, v))
    \/ \E v \in Data : Write(WriteData(kbc, v))

Spec == Init /\ [][Next]_vars

-----------------------------------------------------------------------------
(* Properties                                                              *)

TypeOK == DevicesOK /\ writes \in Nat /\ owed \in Int

\* No packet of the mouse is torn and no motion is lost or repeated, whatever
\* commands arrive between two bytes of a packet and however full the queue
\* is: what the host reported is pending, queued, or part of the packet the
\* mouse is handing over.
MotionConserved ==
    /\ Len(partial \o mouse.queue) % 3 = 0
    /\ owed = mouse.px + Motion(partial \o mouse.queue)

\* A device goes back to its stream only after the whole reply to the last
\* command was handed over, so that a reply is never split by the stream.
RepliesFirst ==
    /\ keyboard.state = "main2" => keyboard.cmdq = <<>>
    /\ mouse.state = "main2" => mouse.cmdq = <<>>

\* The guest never takes a byte of the mouse for one of the keyboard.
MouseByteMarked == kbc.obf = 1 /\ source = 2 => kbc.mfull = 1
=============================================================================
