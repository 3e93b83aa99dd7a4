------------------------------ MODULE MC_Input ------------------------------
(***************************************************************************)
(* The input devices on three benches: the keyboard controller with its    *)
(* two devices under a guest that writes whatever it likes ("ports") and   *)
(* under a careful one ("driver"), and the serial mouse ("serial").        *)
(*                                                                         *)
(* Under any guest the queues are so short that they fill; there is one    *)
(* key, a motion of two packets, and the writes that reach every way in    *)
(* which a command meets a packet.  The careful guest runs one job after   *)
(* booting, with the queues and the events of a busy host.  The serial     *)
(* mouse reports motions of one packet and of two, in both directions.     *)
(***************************************************************************)
EXTENDS KeyboardPorts

MCMoves    == {300}
MCCommands == {CmdKbdOn, CmdToAux, CmdEchoAux, CmdPulse}
MCData     == {235, 244, 246, 255}

MCDrivers == { [ xlat |-> 0, jobs |-> {"leds", "rate", "ccb"} ],
               [ xlat |-> 1, jobs |-> {"ccb"} ] }

VARIABLES
  bench,                            \* which of the three is in use
  mode, driver, jobs, moved, full,  \* the careful guest
  pics, uart, serialMouse, serialDriver, serialEvents, opens, toRead

D == INSTANCE KeyboardDriver WITH
       BatDelay <- 1, Moves <- {-300}, MaxEvents <- 3, MaxJobs <- 1,
       Drivers <- MCDrivers

S == INSTANCE SerialMouse WITH
       Moves <- {-200, 60}, MaxEvents <- 4, MaxOpens <- 2, EoiFirst <- TRUE,
       mouse <- serialMouse, driver <- serialDriver, events <- serialEvents,
       owed <- toRead

ASSUME D!DriverAssumption /\ S!BoundsAssumption

ports  == <<writes, source, partial, owed>>
guest  == <<mode, driver, jobs, moved, full>>
serial == <<pics, uart, serialMouse, serialDriver, serialEvents, opens, toRead>>
all    == <<bench, devices, ports, guest, serial>>

MCInit ==
    /\ bench \in {"ports", "driver", "serial"}
    /\ Init /\ D!Init /\ S!Init
    /\ bench # "driver" => mode.xlat = 0

InPorts  == bench = "ports"  /\ UNCHANGED <<bench, guest, serial>>
InDriver == bench = "driver" /\ UNCHANGED <<bench, ports, serial>>
InSerial == bench = "serial" /\ UNCHANGED <<bench, devices, ports, guest>>

MCNext == \/ InPorts /\ Next
          \/ InDriver /\ D!Next
          \/ InSerial /\ S!Next

\* The two timers, and the guest's program with its interrupts.
Timer1  == (InDriver /\ D!ControllerPolls) \/ (InSerial /\ S!Poll)
Timer2  == InDriver /\ D!DevicesPoll
Guest   == (InDriver /\ D!Drive) \/ (InSerial /\ S!Serve)
Opening == InSerial /\ S!Open

MCSpec ==
    /\ MCInit /\ [][MCNext]_all
    /\ WF_all(Timer1) /\ WF_all(Timer2) /\ WF_all(Guest) /\ WF_all(Opening)

-----------------------------------------------------------------------------

\* The registers and queues of the devices stay within their types.
InputTypeOK ==
    CASE bench = "ports"  -> TypeOK
      [] bench = "serial" -> S!TypeOK
      [] OTHER            -> TRUE

\* Neither mouse tears a packet, and neither loses or repeats motion (see
\* MotionConserved in KeyboardPorts and in SerialMouse).
NoMotionLost ==
    CASE bench = "ports"  -> MotionConserved
      [] bench = "serial" -> S!MotionConserved
      [] OTHER            -> TRUE

\* Under any guest a reply is never split by the stream and no byte of the
\* mouse is taken for a key; under a careful one no byte is overwritten, and
\* after its reset the serial mouse identifies itself first.
BytesInOrder ==
    /\ [](bench = "ports" => RepliesFirst /\ MouseByteMarked)
    /\ [][ bench = "driver" /\ kbc.obf = 1 /\ D!ControllerPolls =>
             kbc'.obf = 1 /\ kbc'.ob = kbc.ob /\ kbc'.mfull = kbc.mfull ]_all
    /\ [][ bench = "serial" /\ S!ReadByte /\ serialDriver.id = 1
             => uart.rx = S!Id ]_all

\* Every job of the careful guest comes to its end (JobsEnd of KeyboardDriver).
JobsEnd == [](bench = "driver" /\ D!Working => <>~D!Working)

\* Once the host rests, the guest knows the keys that are down and all the
\* motion, from the PS/2 mouse and from the serial one (InputSettles of
\* KeyboardDriver, Delivered of SerialMouse).
InputArrives ==
    <>[](CASE bench = "driver" -> D!Known
           [] bench = "serial" -> S!Arrived
           [] OTHER            -> TRUE)
=============================================================================
