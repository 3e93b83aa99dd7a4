--------------------------- MODULE KeyboardDriver ---------------------------
(***************************************************************************)
(* The keyboard controller under a careful guest driver: it writes only    *)
(* when the input buffer is empty, waits for the reply to each command,    *)
(* silences both devices before it asks the controller something, and      *)
(* otherwise reads a byte per interrupt.  Whatever it reads outside a      *)
(* reply it decodes into keys and motion.                                  *)
(***************************************************************************)
EXTENDS KeyboardController

CONSTANTS
  Drivers,      \* the drivers: does it let the controller translate (xlat),
                \* and the jobs it may do after booting
  MaxJobs       \* bound on how many of them it does

DriverAssumption ==
    /\ Drivers \subseteq [ xlat : Bit, jobs : SUBSET {"leds", "rate", "ccb"} ]
    /\ MaxJobs \in Nat

VARIABLES
  mode,    \* the driver of this behaviour
  driver,  \* job and step, and what has been decoded so far
  jobs,    \* jobs begun
  moved,   \* history: the motion the host has reported
  full     \* history: has the queue of the keyboard wrapped?

vars == <<devices, mode, driver, jobs, moved, full>>

-----------------------------------------------------------------------------
(* Jobs: sequences of steps                                                *)

Cmd(v)   == [ op |-> "cmd", v |-> v ]     \* write port 64
Dat(v)   == [ op |-> "dat", v |-> v ]     \* write port 60
Await(n) == [ op |-> "ack", v |-> n ]     \* read until device n acknowledges
Resp(n)  == [ op |-> "resp", v |-> n ]    \* read a byte of port n
Drain    == [ op |-> "drain", v |-> 0 ]   \* read until nothing waits
Sync     == [ op |-> "sync", v |-> 0 ]    \* a packet starts here

\* A command byte with interrupts on and both ports enabled.
DriverCcb == 3 + 64 * mode.xlat

Job(name) ==
    CASE name = "boot" ->
           << Cmd(CmdSelfTest), Resp(1), Cmd(CmdWriteCcb), Dat(DriverCcb),
              Cmd(CmdToAux), Dat(255), Await(2), Resp(2), Resp(2),
              Cmd(CmdToAux), Dat(244), Await(2), Sync,
              Dat(255), Await(1), Resp(1) >>
      [] name = "leds" -> << Dat(237), Await(1), Dat(2), Await(1) >>
      [] name = "rate" -> << Cmd(CmdToAux), Dat(243), Await(2),
                             Cmd(CmdToAux), Dat(100), Await(2) >>
      [] name = "ccb"  -> << Cmd(CmdKbdOff), Cmd(CmdAuxOff), Drain,
                             Cmd(CmdReadCcb), Resp(1),
                             Cmd(CmdWriteCcb), Dat(DriverCcb) >>
      [] name = "none" -> <<>>

Working == driver.pc <= Len(Job(driver.job))
Now     == Job(driver.job)[driver.pc]
Port    == IF kbc.mfull = 1 THEN 2 ELSE 1

-----------------------------------------------------------------------------
(* Decoding                                                                *)

Codes == { IF mode.xlat = 1 THEN Translated(key) ELSE key : key \in Keys }
KeyOf(code) ==
    CHOOSE key \in Keys : code = IF mode.xlat = 1 THEN Translated(key) ELSE key

\* A break prefix, or with translation bit 7, releases the key.
KeyByte(d, b) ==
    CASE mode.xlat = 0 /\ b = Break -> [ d EXCEPT !.release = 1 ]
      [] b \in Codes /\ d.release = 0 -> [ d EXCEPT !.view = @ \cup {KeyOf(b)} ]
      [] b \in Codes /\ d.release = 1 ->
           [ d EXCEPT !.view = @ \ {KeyOf(b)}, !.release = 0 ]
      [] mode.xlat = 1 /\ b - 128 \in Codes ->
           [ d EXCEPT !.view = @ \ {KeyOf(b - 128)} ]
      [] OTHER -> d

MouseByte(d, b) ==
    LET packet == Append(d.packet, b)
    IN  IF Len(packet) < 3 THEN [ d EXCEPT !.packet = packet ]
        ELSE [ d EXCEPT !.packet = <<>>, !.x = @ + Decode(packet) ]

Digest(d) == IF Port = 2 THEN MouseByte(d, kbc.ob) ELSE KeyByte(d, kbc.ob)

-----------------------------------------------------------------------------
(* Steps of the driver                                                     *)

Take == kbc' = ReadData(kbc)
Advance(d) == [ d EXCEPT !.pc = @ + 1 ]

WriteStep ==
    /\ Working /\ kbc.ibf = 0
    /\ \/ Now.op = "cmd" /\ kbc' = WriteCommand(kbc, Now.v)
       \/ Now.op = "dat" /\ kbc' = WriteData(kbc, Now.v)
    /\ driver' = Advance(driver)
    /\ UNCHANGED <<keyboard, mouse, events, mode, jobs, moved, full>>

ReadStep ==
    /\ Working /\ kbc.obf = 1
    /\ Take
    /\ LET mine == Port = Now.v /\ (Now.op = "ack" => kbc.ob = Ack)
       IN  \/ /\ Now.op \in {"ack", "resp"}
              /\ driver' = IF mine THEN Advance(driver) ELSE Digest(driver)
           \/ /\ Now.op = "drain"
              /\ driver' = Digest(driver)
    /\ UNCHANGED <<keyboard, mouse, events, mode, jobs, moved, full>>

PassStep ==
    /\ Working
    /\ \/ /\ Now.op = "drain" /\ kbc.ibf = 0 /\ kbc.obf = 0
          /\ driver' = Advance(driver)
       \/ /\ Now.op = "sync"
          /\ driver' = [ Advance(driver) EXCEPT !.packet = <<>> ]
    /\ UNCHANGED <<devices, mode, jobs, moved, full>>

\* One interrupt, one byte.  Interrupts are off during a job.
Interrupt ==
    /\ ~Working
    /\ \E n \in kbc.irq :
         kbc' = [ ReadData(kbc) EXCEPT !.irq = @ \ {n} ]
    /\ driver' = IF kbc.obf = 1 THEN Digest(driver) ELSE driver
    /\ UNCHANGED <<keyboard, mouse, events, mode, jobs, moved, full>>

Begin(name) ==
    /\ ~Working /\ jobs < MaxJobs
    /\ driver' = [ driver EXCEPT !.job = name, !.pc = 1 ]
    /\ jobs' = jobs + 1
    /\ UNCHANGED <<devices, mode, moved, full>>

-----------------------------------------------------------------------------

Polls == UNCHANGED <<mode, driver, jobs, moved, full>>

\* Did the keystroke that takes keyboard to keyboard' wrap its queue?
Wrapped == Len(keyboard'.queue) < Len(keyboard.queue)

Host ==
    /\ UNCHANGED <<mode, driver, jobs>>
    /\ driver.job # "boot" \/ ~Working
    /\ \/ \E key \in Keys, down \in BOOLEAN :
            /\ HostKey(key, down)
            /\ full' = (full \/ Wrapped)
            /\ UNCHANGED moved
       \/ \E v \in Moves :
            HostMove(v) /\ moved' = moved + v /\ UNCHANGED full

Init ==
    /\ DevicesInit
    /\ mode \in Drivers
    /\ driver = [ job |-> "boot", pc |-> 1, release |-> 0, view |-> {},
                  packet |-> <<>>, x |-> 0 ]
    /\ jobs = 0 /\ moved = 0 /\ full = FALSE

ControllerPolls == CtlPoll /\ Polls
DevicesPoll     == DevPoll /\ Polls
Drive           == WriteStep \/ ReadStep \/ PassStep \/ Interrupt

Next ==
    \/ ControllerPolls \/ DevicesPoll \/ Drive \/ Host
    \/ \E name \in mode.jobs : Begin(name)

\* timing_loop keeps calling both polls; the CPU keeps executing the driver.
Fairness == WF_vars(ControllerPolls) /\ WF_vars(DevicesPoll) /\ WF_vars(Drive)

Spec == Init /\ [][Next]_vars /\ Fairness

-----------------------------------------------------------------------------
(* Properties                                                              *)

\* Every job comes to its end: controller and device never wait for each
\* other, and no acknowledgement is lost.
JobsEnd == [](Working => <>~Working)

\* Once the host rests, the driver knows the keys that are down, unless the
\* queue has wrapped, and all the motion, for all the commands between the
\* bytes that told it.
Known == (full \/ driver.view = keyboard.pressed) /\ driver.x = moved
=============================================================================
