-------------------------- MODULE KeyboardController --------------------------
(***************************************************************************)
(* The keyboard controller with its devices. First the devices, then the   *)
(* controller, then the state that both form.                              *)
(*                                                                         *)
(* The devices behind the keyboard controller: the state machine they      *)
(* share (input/kbc_at_device.c), the AT keyboard (input/keyboard_at.c)    *)
(* and the PS/2 mouse (input/mouse.c), as operators on a device together   *)
(* with its port of the controller.                                        *)
(*                                                                         *)
(* A port is what kbc_at_port_t holds: the command byte dat, want while it *)
(* waits, and the byte out that the device offers.  The keyboard speaks    *)
(* scan code set 2; motion has one axis and one button.                    *)
(***************************************************************************)
EXTENDS Integers, SequencesExt

CONSTANTS
  KeyFifo,     \* entries of the keyboard's queue (16): fifo_mask + 1
  MouseLimit,  \* entries the mouse uses of its queue (63)
  BatDelay     \* polls until the self-test of the keyboard ends (1000)

ASSUME FifoAssumption ==
    /\ KeyFifo \in Nat /\ KeyFifo >= 2
    /\ MouseLimit \in 3 .. 63 /\ BatDelay \in Nat

Byte    == 0 .. 255
NoByte  == 256          \* out_new = -1
Bit     == {0, 1}

Ack     == 250          \* FA
Resend  == 254          \* FE
BatOk   == 170          \* AA
Break   == 240          \* F0, before the code of a released key

CmdFifo == 16           \* entries of cmd_queue

IdlePort == [ want |-> 0, dat |-> 0, out |-> NoByte ]

\* kbc_at_dev_queue_add does not look whether the ring is full: the entry
\* that fills it makes it look empty.
Add(q, v, size) == IF Len(q) = size - 1 THEN <<>> ELSE Append(q, v)

Reply(x, bytes) ==
    [ x EXCEPT !.d.cmdq = FoldLeft(LAMBDA q, v : Add(q, v, CmdFifo), @, bytes) ]

-----------------------------------------------------------------------------
(* kbc_at_device.c: x.d is the device, x.p its port                        *)

Handed(x, v) ==
    [ x EXCEPT !.p.out = v, !.d.last = IF v = Resend THEN @ ELSE v ]

\* The oldest byte of the reply goes to an empty port.
HandReply(x) ==
    IF x.p.out # NoByte \/ x.d.cmdq = <<>> THEN x
    ELSE [ Handed(x, Head(x.d.cmdq)) EXCEPT !.d.cmdq = Tail(@) ]

HandScan(x) ==
    IF x.d.scan = 0 \/ x.p.out # NoByte \/ x.d.queue = <<>> THEN x
    ELSE [ Handed(x, Head(x.d.queue)) EXCEPT !.d.queue = Tail(@) ]

\* kbc_at_dev_reset
ResetDevice(x, fa) ==
    [ x EXCEPT !.p.out = NoByte, !.p.want = 0, !.d.queue = <<>>,
               !.d.cmdq = IF fa THEN <<Ack>> ELSE <<>>,
               !.d.command = 0, !.d.param = 0, !.d.last = 0, !.d.scan = 1,
               !.d.state = IF fa THEN "wantBat" ELSE "bat" ]

\* The command takes a parameter, in the next byte.
WantParam(x, command) ==
    [ Reply(x, <<Ack>>) EXCEPT !.d.command = command, !.d.param = 1,
                               !.d.state = "wantIn" ]

-----------------------------------------------------------------------------
(* keyboard_at.c                                                           *)

KeyboardReset(x, fa) ==
    [ ResetDevice(x, fa) EXCEPT !.d.pressed = {}, !.d.inReset = 1,
                                !.d.bat = BatDelay ]

\* keyboard_at_bat
KeyboardBat(x) ==
    IF x.d.bat # 0 THEN [ x EXCEPT !.d.bat = @ - 1, !.d.state = "bat" ]
    ELSE Reply([ x EXCEPT !.d.scan = 1, !.d.inReset = 0, !.d.pressed = {} ],
               <<BatOk>>)

\* The parameter of ED, F0 (read the set, or select one) or F3.
KeyboardParam(x, v) ==
    LET y == [ x EXCEPT !.d.param = 0 ]
        refused == [ Reply(y, <<Resend>>) EXCEPT !.d.param = 1,
                                                 !.d.state = "wantIn" ]
    IN  CASE x.d.command = 240 /\ v = 0 -> Reply(y, <<Ack, 2>>)
          [] x.d.command = 240 /\ v > 3 -> refused
          [] x.d.command = 243 /\ v >= 128 -> refused
          [] OTHER -> Reply(y, <<Ack>>)

KeyboardCommand(x, v) ==
    CASE v \in {237, 240, 243} -> WantParam(x, v)            \* ED, F0, F3
      [] v = 238 -> Reply(x, <<238>>)                        \* EE echo
      [] v = 242 -> Reply(x, <<Ack, 171, 131>>)              \* F2 identify
      [] v = 244 -> Reply([ x EXCEPT !.d.scan = 1 ], <<Ack>>)
      [] v \in {245, 246} ->                                 \* F5, F6
           Reply([ x EXCEPT !.p.out = NoByte, !.d.queue = <<>>,
                            !.d.cmdq = <<>>, !.d.last = 0,
                            !.d.scan = IF v = 246 THEN 1 ELSE 0 ], <<Ack>>)
      [] v \in 247 .. 250 -> Reply(x, <<Ack>>)
      [] v = 254 -> Reply(x, <<x.d.last>>)
      [] v = 255 -> KeyboardReset(x, TRUE)
      [] OTHER -> Reply(x, <<Resend>>)

\* keyboard_at_write: a command in place of a parameter is obeyed, but only
\* some of them cancel the parameter.
KeyboardWrite(x) ==
    LET v == x.p.dat
        y == [ x EXCEPT !.d.state = "out" ]
        z == IF y.d.param = 0 THEN y
             ELSE IF v \in {237, 238, 244, 245, 246}
                  THEN [ y EXCEPT !.d.param = 0 ]
                  ELSE [ y EXCEPT !.d.state = "wantIn" ]
    IN  IF v < 237 /\ y.d.param = 1 THEN KeyboardParam(y, v)
        ELSE KeyboardCommand(z, v)

\* keyboard_at_input, at any time outside the reset, enabled or not.
Keystroke(d, key, down) ==
    LET bytes == IF down THEN <<key>> ELSE <<Break, key>>
    IN  IF d.inReset = 1 \/ (key \in d.pressed) = down THEN d
        ELSE [ d EXCEPT
                 !.pressed = IF down THEN @ \cup {key} ELSE @ \ {key},
                 !.queue = FoldLeft(LAMBDA q, v : Add(q, v, KeyFifo), @, bytes) ]

\* after keyboard_at_init and the reset that follows it in i8042_init
KeyboardAtStart ==
    [ kind |-> "keyboard", state |-> "bat", command |-> 0, param |-> 0, last |-> 0, cmdq |-> <<>>,
      queue |-> <<>>, scan |-> 1, pressed |-> {}, inReset |-> 1,
      bat |-> BatDelay ]

-----------------------------------------------------------------------------
(* mouse.c in PS/2 mode                                                    *)

Clamp(v) == IF v < -255 THEN -255 ELSE IF v > 255 THEN 255 ELSE v

\* Mutant of Packet: the motion is not clamped.
PacketWhole(left, raw) == << 8 + left + (IF raw < 0 THEN 16 ELSE 0), raw, 0 >>

Packet(left, raw) ==
    << 8 + left + (IF raw < 0 THEN 16 ELSE 0)
         + (IF Clamp(raw) # raw THEN 64 ELSE 0), Clamp(raw) % 256, 0 >>

\* mouse_ps2_can_queue
CanQueue(q, limit, n) == Len(q) + n <= limit

\* mouse_ps2_queue_byte
MouseReply(x, bytes) ==
    [ x EXCEPT !.d.cmdq = FoldLeft(LAMBDA q, v : IF CanQueue(q, CmdFifo - 1, 1)
                                                 THEN Append(q, v) ELSE q,
                                   @, bytes) ]

HasPacket(d) == d.px # 0 \/ d.dirty = 1

Sent(d) == [ d EXCEPT !.px = @ - Clamp(@), !.dirty = 0 ]

\* Mutant of Streamed: makes room for a byte instead of a packet.
StreamedTorn(d) ==
    IF HasPacket(d) /\ CanQueue(d.queue, MouseLimit, 1)
    THEN [ Sent(d) EXCEPT
             !.queue = FoldLeft(LAMBDA q, v : IF CanQueue(q, MouseLimit, 1)
                                              THEN Append(q, v) ELSE q,
                                @, Packet(d.left, d.px)) ]
    ELSE d

Streamed(d) ==
    IF HasPacket(d) /\ CanQueue(d.queue, MouseLimit, 3)
    THEN [ Sent(d) EXCEPT !.queue = @ \o Packet(d.left, d.px) ] ELSE d

\* mouse_ps2_queue_stream_packets: as many packets as fit
StreamPackets(d) ==
    IF d.reporting = 0 \/ d.remote = 1 THEN d
    ELSE FoldLeft(LAMBDA e, i : Streamed(e), d,
                  [ i \in 1 .. MouseLimit \div 3 |-> i ])

\* mouse_clear_pending_state
Forgotten(d) == [ d EXCEPT !.px = 0, !.dirty = 0 ]

Defaults(d) ==
    [ d EXCEPT !.reporting = 0, !.remote = 0, !.scaling = 0, !.param = 0,
               !.res = 2, !.rate = 100 ]

MouseReset(x, fa) ==
    LET y == ResetDevice(x, fa)
    IN  [ y EXCEPT !.d = Defaults(Forgotten(@)) ]

\* mouse_ps2_bat
MouseBat(x) == MouseReply(x, <<BatOk, 0>>)

MouseStatus(d) == 64 * d.remote + 32 * d.reporting + 16 * d.scaling + d.left

MouseParam(x, v) ==
    LET y == [ x EXCEPT !.d.param = 0 ]
    IN  CASE x.d.command = 232 -> MouseReply([ y EXCEPT !.d.res = v % 4 ], <<Ack>>)
          [] x.d.command = 243 -> MouseReply([ y EXCEPT !.d.rate = v ], <<Ack>>)
          [] OTHER -> MouseReply(y, <<Resend>>)

MouseCommand(x, v) ==
    CASE v \in {230, 231} ->
           MouseReply([ x EXCEPT !.d.scaling = v - 230 ], <<Ack>>)
      [] v \in {232, 243} -> WantParam(x, v)
      [] v = 233 -> MouseReply(x, <<Ack, MouseStatus(x.d), x.d.res, x.d.rate>>)
      [] v = 234 -> LET y == MouseReply([ x EXCEPT !.d.remote = 0 ], <<Ack>>)
                    IN  [ y EXCEPT !.d = StreamPackets(@) ]
      [] v = 235 -> LET y == MouseReply(x, <<Ack>> \o Packet(x.d.left, x.d.px))
                    IN  [ y EXCEPT !.d = Sent(@) ]
      [] v = 240 -> MouseReply([ x EXCEPT !.d.remote = 1 ], <<Ack>>)
      [] v = 242 -> MouseReply(x, <<Ack, 0>>)
      [] v = 244 -> LET y == MouseReply([ x EXCEPT !.d.reporting = 1 ], <<Ack>>)
                    IN  [ y EXCEPT !.d = StreamPackets(@) ]
      [] v = 245 -> MouseReply([ x EXCEPT !.d.reporting = 0 ], <<Ack>>)
      [] v = 246 -> LET y == MouseReply(x, <<Ack>>)
                    IN  [ y EXCEPT !.d = Defaults(Forgotten(@)) ]
      [] v = 254 -> MouseReply(x, <<x.d.last>>)
      [] v = 255 -> MouseReset(x, TRUE)
      [] OTHER -> MouseReply(x, <<Resend>>)

\* mouse_ps2_write
MouseWrite(x) ==
    LET y == [ x EXCEPT !.d.state = "out" ]
    IN  IF x.d.param = 1 THEN MouseParam(y, x.p.dat)
        ELSE MouseCommand(y, x.p.dat)

\* mouse_action
Moved(d, v)      == StreamPackets([ d EXCEPT !.px = @ + v ])
Clicked(d, left) == StreamPackets([ d EXCEPT !.left = left, !.dirty = 1 ])

\* mouse_init_ps2
MouseAtStart ==
    [ kind |-> "mouse", state |-> "bat", command |-> 0, param |-> 0, last |-> 0, cmdq |-> <<>>,
      queue |-> <<>>, scan |-> 1, reporting |-> 0, remote |-> 0,
      scaling |-> 0, res |-> 2, rate |-> 100, px |-> 0, dirty |-> 0, left |-> 0 ]

-----------------------------------------------------------------------------
(* kbc_at_dev_poll, for both devices                                       *)

\* process_cmd and execute_bat of the device
Perform(x) == IF x.d.kind = "keyboard" THEN KeyboardWrite(x) ELSE MouseWrite(x)
Bat(x)     == IF x.d.kind = "keyboard" THEN KeyboardBat(x) ELSE MouseBat(x)

\* A command drops what is left of the previous reply.
Obey(x) ==
    [ Perform([ x EXCEPT !.d.cmdq = <<>> ]) EXCEPT !.p.want = 0 ]

\* Mutant of AfterReply: goes on while a reply is under way.
AfterReplyEarly(y, state) == [ y EXCEPT !.d.state = state ]

\* Stays until the reply is handed over.
AfterReply(y, state) ==
    IF y.d.cmdq = <<>> THEN [ y EXCEPT !.d.state = state ] ELSE y

\* kbc_at_dev_poll
PollDevice(x) ==
    CASE x.p.want = 1 /\ x.d.state \in {"main1", "out", "in"} ->
           Obey(x)
      [] x.p.want = 0 /\ x.d.state = "main1" -> [ x EXCEPT !.d.state = "main2" ]
      [] x.p.want = 0 /\ x.d.state = "in" -> x
      [] x.p.want = 0 /\ x.d.state = "out" -> AfterReply(HandReply(x), "main2")
      [] x.d.state = "main2" ->
           [ HandScan(x) EXCEPT
               !.d.state = IF x.d.scan = 0 \/ x.p.want = 1 THEN "main1" ELSE @ ]
      [] x.d.state = "wantIn"  -> AfterReply(HandReply(x), "in")
      [] x.d.state = "wantBat" -> AfterReply(HandReply(x), "bat")
      [] x.d.state = "bat" -> Bat([ x EXCEPT !.d.state = "out" ])

\* mouse_ps2_poll
Streaming(x) == [ x EXCEPT !.d = StreamPackets(@) ]

-----------------------------------------------------------------------------
(***************************************************************************)
(* The keyboard controller (chipset/i8042.c) in PS/2 mode, as operators on *)
(* its state k, its two ports included (k.port[1] is the keyboard's).      *)
(*                                                                         *)
(* status is kept as ibf, obf, cd (a command is in ib) and mfull (the      *)
(* output byte is the mouse's); the command byte as the record ccb.  irq   *)
(* collects the edges sent to the interrupt controllers, IRQ 1 and 12.     *)
(* Output port bits other than the reset line, the lock switch and the     *)
(* rest of the controller's memory drive nothing here and are left out.    *)
(***************************************************************************)

KbcState == {"reset", "delayOut", "mainIbf", "mainKbd", "mainAux", "mainBoth",
             "ctrlOut", "param", "sendKbd", "scanKbd", "sendAux", "scanAux"}

\* kbdOff is ENABLEKBD, auxOff is PCMODE: set, they disable.
Ccb == [ kint : Bit, mint : Bit, kbdOff : Bit, auxOff : Bit, xlat : Bit ]

CcbByte(c) ==
    c.kint + 2 * c.mint + 16 * c.kbdOff + 32 * c.auxOff + 64 * c.xlat

CcbOf(v) ==
    [ kint |-> v % 2, mint |-> (v \div 2) % 2, kbdOff |-> (v \div 16) % 2,
      auxOff |-> (v \div 32) % 2, xlat |-> (v \div 64) % 2 ]

CmdReadCcb  == 32    \* 20
CmdWriteCcb == 96    \* 60
CmdAuxOff   == 167   \* A7
CmdAuxOn    == 168   \* A8
CmdSelfTest == 170   \* AA
CmdKbdTest  == 171   \* AB
CmdKbdOff   == 173   \* AD
CmdKbdOn    == 174   \* AE
CmdWriteP2  == 209   \* D1
CmdEchoKbd  == 210   \* D2
CmdEchoAux  == 211   \* D3
CmdToAux    == 212   \* D4
CmdPulse    == 254   \* FE: pulse the reset line

-----------------------------------------------------------------------------
(* Output                                                                  *)

\* i8042_nont_to_t on the bytes that travel here: codes of the keys of the
\* runs, and the replies.  Above 127 only 131 and 132 change.
Translated(v) ==
    CASE v = 28 -> 30 [] v = 50 -> 48 [] v = 131 -> 65
      [] v = 0 -> 255 [] v = 2 -> 65 [] OTHER -> v

\* The output buffer takes v and the interrupt is requested.
Place(k, v, chan) ==
    [ k EXCEPT !.ob = v, !.obf = 1, !.mfull = IF chan = 2 THEN 1 ELSE 0,
               !.irq = @ \cup (IF chan < 2 /\ k.ccb.kint = 1 THEN {1}
                               ELSE IF chan = 2 /\ k.ccb.mint = 1 THEN {12}
                               ELSE {}) ]

\* i8042_send_to_ob.  Translation swallows F0 and any byte above 127 that
\* follows it, a reply of the keyboard included.
SendToOb(k, v, chan) ==
    IF chan # 1 \/ k.ccb.xlat = 0 THEN Place(k, v, chan)
    ELSE IF v = Break THEN [ k EXCEPT !.break = 1 ]
    ELSE IF k.break = 1 /\ Translated(v) >= 128 THEN [ k EXCEPT !.break = 0 ]
    ELSE Place([ k EXCEPT !.break = 0 ], Translated(v) + 128 * k.break, 1)

Delay(k, v, chan) ==
    [ k EXCEPT !.val = v, !.chan = chan, !.state = "delayOut" ]

-----------------------------------------------------------------------------
(* Commands                                                                *)

PS2Reset == [ kint |-> 0, mint |-> 0, kbdOff |-> 1, auxOff |-> 1, xlat |-> 0 ]

\* AA: a queue of one byte, sent when the output buffer is empty.
SelfTest(k) ==
    [ k EXCEPT !.mfull = 1, !.ccb = PS2Reset, !.irq = {},
               !.port[1].out = NoByte, !.port[2].out = NoByte,
               !.ctrlq = <<85>>, !.state = "ctrlOut" ]

\* i8042_reset, from the pulse or another reset of the platform: the
\* keyboard is reset with it (see ResetByController), the mouse is not.
KbcReset(k) ==
    [ k EXCEPT !.state = "reset", !.command = 0, !.ibf = 0, !.obf = 0,
               !.cd = 0, !.mfull = 1, !.want = 0, !.ib = 0, !.ob = 0,
               !.break = 0, !.val = 0, !.chan = 1, !.ctrlq = <<>>,
               !.ccb = [ PS2Reset EXCEPT !.kint = 1, !.xlat = 1 ],
               !.port = << IdlePort, IdlePort >>, !.irq = {} ]

Param(k) ==
    [ k EXCEPT !.want = 1, !.command = k.ib, !.state = "param" ]

\* i8042_process_cmd with a command in ib
Command(k) ==
    LET n == [ k EXCEPT !.want = 0, !.state = "mainIbf", !.ctrlq = <<>> ]
    IN  CASE k.ib = CmdReadCcb  -> Delay(n, CcbByte(n.ccb), 0)
          [] k.ib \in {CmdWriteCcb, CmdEchoKbd, CmdEchoAux, CmdToAux} -> Param(n)
          [] k.ib = CmdAuxOff   -> [ n EXCEPT !.ccb.auxOff = 1 ]
          [] k.ib = CmdAuxOn    -> [ n EXCEPT !.ccb.auxOff = 0 ]
          [] k.ib = CmdSelfTest -> SelfTest(n)
          [] k.ib = CmdKbdTest  -> Delay(n, 0, 0)
          [] k.ib = CmdPulse    -> KbcReset(n)
          [] OTHER -> n

\* i8042_handle_data_to_kbd
DataToKbd(k) ==
    [ k EXCEPT !.ccb.kbdOff = 0, !.port[1].want = 1, !.port[1].dat = k.ib,
               !.state = "sendKbd" ]

\* i8042_process_cmd with the parameter of a command in ib
Parameter(k) ==
    LET n == [ k EXCEPT !.want = 0, !.state = "mainIbf" ]
    IN  CASE k.want = 0 -> DataToKbd(k)
          [] k.want = 1 /\ k.command = CmdWriteCcb ->
               [ n EXCEPT !.ccb = CcbOf(k.ib) ]
          [] k.want = 1 /\ k.command = CmdEchoKbd -> Delay(n, k.ib, 0)
          [] k.want = 1 /\ k.command = CmdEchoAux -> Delay(n, k.ib, 2)
          [] k.want = 1 /\ k.command = CmdToAux ->
               [ n EXCEPT !.ccb.auxOff = 0, !.port[2].want = 1,
                          !.port[2].dat = k.ib, !.state = "sendAux" ]
          [] OTHER -> n

Process(k) == IF k.cd = 1 THEN Command(k) ELSE Parameter(k)

\* i8042_ibf_process
TakeInput(k) ==
    LET n == [ k EXCEPT !.ibf = 0, !.state = "mainIbf" ]
    IN  IF k.cd = 1 THEN Command(n) ELSE DataToKbd(n)

-----------------------------------------------------------------------------
(* i8042_poll_ps2                                                          *)

CanScan(k, n) == k.port[n].out # NoByte /\ k.obf = 0

\* i8042_scan_keyboard_ps2 and i8042_scan_aux_ps2
Scan(k, n) ==
    IF ~CanScan(k, n) THEN k
    ELSE LET sent == SendToOb(k, k.port[n].out, n)
         IN  [ sent EXCEPT !.port[n].out = NoByte, !.state = "mainIbf" ]

To(k, state) == [ k EXCEPT !.state = state ]

\* Which port to scan next.
Choose(k) ==
    CASE k.ccb.auxOff = 1 /\ k.ccb.kbdOff = 1 -> To(k, "mainIbf")
      [] k.ccb.auxOff = 1 /\ k.ccb.kbdOff = 0 -> To(k, "mainKbd")
      [] k.ccb.auxOff = 0 /\ k.ccb.kbdOff = 1 -> To(k, "mainAux")
      [] OTHER -> To(k, "mainBoth")

\* The queue of the self-test.  After a command it is empty, and a zero is
\* sent instead.
SendQueued(k) ==
    IF k.obf = 1 THEN k
    ELSE IF k.ctrlq = <<>> THEN SendToOb(k, 0, 0)
    ELSE To([ SendToOb(k, Head(k.ctrlq), 0) EXCEPT !.ctrlq = <<>> ], "mainIbf")

Poll(k) ==
    CASE k.state = "reset" ->
           LET n == [ k EXCEPT !.ibf = 0, !.mfull = 0 ]
           IN  IF k.ibf = 0 THEN k
               ELSE IF k.cd = 1 /\ k.ib = CmdSelfTest THEN Command(n) ELSE n
      [] k.state \in {"mainIbf", "mainKbd", "mainAux", "mainBoth"} /\ k.ibf = 1 ->
           TakeInput(k)
      [] k.state = "mainIbf" /\ k.ibf = 0 -> IF k.obf = 1 THEN k ELSE Choose(k)
      [] k.state = "mainKbd" /\ k.ibf = 0 -> To(Scan(k, 1), "mainIbf")
      [] k.state = "mainAux" /\ k.ibf = 0 -> To(Scan(k, 2), "mainIbf")
      [] k.state = "mainBoth" /\ k.ibf = 0 ->
           IF CanScan(k, 1) THEN Scan(k, 1) ELSE To(k, "mainAux")
      [] k.state = "delayOut" -> To(SendToOb(k, k.val, k.chan), "mainIbf")
      [] k.state = "ctrlOut" -> SendQueued(IF k.ibf = 1 THEN TakeInput(k) ELSE k)
      [] k.state = "param" ->
           IF k.ibf = 0 THEN k
           ELSE Process([ k EXCEPT !.ibf = 0,
                            !.state = IF k.cd = 1 THEN "mainIbf" ELSE @ ])
      [] k.state = "sendKbd" -> IF k.port[1].want = 1 THEN k ELSE To(k, "scanKbd")
      [] k.state = "sendAux" -> IF k.port[2].want = 1 THEN k ELSE To(k, "scanAux")
      [] k.state = "scanKbd" -> Scan(k, 1)
      [] k.state = "scanAux" -> Scan(k, 2)

-----------------------------------------------------------------------------
(* Ports 60 and 64                                                         *)

\* The interrupt request is not withdrawn, and ob can be read again.
ReadData(k) == [ k EXCEPT !.obf = 0 ]

\* D1, AD and AE are carried out at once and abandon what was under way.
WriteCommand(k, v) ==
    CASE v = CmdWriteP2 ->
           [ k EXCEPT !.cd = 1, !.want = 1, !.command = v, !.state = "param",
                      !.ibf = 0 ]
      [] v \in {CmdKbdOff, CmdKbdOn} ->
           [ k EXCEPT !.cd = 1, !.state = "mainIbf", !.ibf = 0,
                      !.ccb.kbdOff = IF v = CmdKbdOff THEN 1 ELSE 0 ]
      [] OTHER -> [ k EXCEPT !.cd = 1, !.ib = v, !.ibf = 1 ]

\* The parameter of D1 drives A20 only.
WriteData(k, v) ==
    IF k.want = 1 /\ k.command = CmdWriteP2
    THEN [ k EXCEPT !.cd = 0, !.want = 0, !.state = "mainIbf", !.ibf = 0 ]
    ELSE [ k EXCEPT !.cd = 0, !.ib = v, !.ibf = 1 ]

KbcAtStart ==
    KbcReset([ state |-> "reset", command |-> 0, ibf |-> 0, obf |-> 0, cd |-> 0,
               mfull |-> 0, want |-> 0, ib |-> 0, ob |-> 0, break |-> 0,
               val |-> 0, chan |-> 1, ctrlq |-> <<>>, ccb |-> PS2Reset,
               port |-> << IdlePort, IdlePort >>, irq |-> {} ])

-----------------------------------------------------------------------------
(***************************************************************************)
(* The keyboard controller, the keyboard and the PS/2 mouse together: the  *)
(* two timers that poll them, the platform reset, and the host's events.   *)
(* The guest is added by KeyboardPorts and KeyboardDriver.                 *)
(***************************************************************************)

CONSTANTS
  Keys,      \* the codes of the keys the host presses
  Moves,     \* the motions the host may report at once
  MaxEvents  \* bound on host events

ASSUME HostAssumption ==
    Keys \subseteq {28, 50} /\ Moves \subseteq Int /\ MaxEvents \in Nat

VARIABLES
  kbc,       \* i8042_t: the controller with its ports
  keyboard,  \* the keyboard
  mouse,     \* the PS/2 mouse
  events     \* host events so far

devices == <<kbc, keyboard, mouse, events>>

AttachedKeyboard == [ d |-> keyboard, p |-> kbc.port[1] ]
AttachedMouse    == [ d |-> mouse, p |-> kbc.port[2] ]

\* keyboard_at_reset when the controller is reset
ResetByController == KeyboardReset(AttachedKeyboard, FALSE).d

\* i8042_poll; the pulse of the reset line resets the platform from here.
CtlPoll ==
    /\ kbc' = Poll(kbc)
    /\ keyboard' = IF kbc'.state = "reset" /\ kbc.state # "reset"
                   THEN ResetByController ELSE keyboard
    /\ UNCHANGED <<mouse, events>>

\* i8042_dev_poll: the keyboard, then the mouse
DevPoll ==
    \E x \in {PollDevice(AttachedKeyboard)}, s \in {Streaming(AttachedMouse)} :
    \E y \in {PollDevice(s)} :
        /\ kbc' = [ kbc EXCEPT !.port = << x.p, y.p >> ]
        /\ keyboard' = x.d
        /\ mouse' = y.d
        /\ UNCHANGED events

\* machine_platform_reset
PlatformReset ==
    /\ kbc' = KbcReset(kbc)
    /\ keyboard' = ResetByController
    /\ UNCHANGED <<mouse, events>>

HostKey(key, down) ==
    /\ events < MaxEvents
    /\ keyboard' = Keystroke(keyboard, key, down)
    /\ events' = events + 1
    /\ UNCHANGED <<kbc, mouse>>

HostMove(v) ==
    /\ events < MaxEvents
    /\ mouse' = Moved(mouse, v)
    /\ events' = events + 1
    /\ UNCHANGED <<kbc, keyboard>>

HostClick(left) ==
    /\ events < MaxEvents
    /\ mouse' = Clicked(mouse, left)
    /\ events' = events + 1
    /\ UNCHANGED <<kbc, keyboard>>

DevicesInit ==
    /\ kbc = KbcAtStart
    /\ keyboard = KeyboardAtStart
    /\ mouse = MouseAtStart
    /\ events = 0

-----------------------------------------------------------------------------
(* What both guests' modules state about the devices                       *)

DevState == {"main1", "main2", "out", "in", "wantIn", "wantBat", "bat"}

PortOK(p) == p.want \in Bit /\ p.dat \in Byte /\ p.out \in Byte \cup {NoByte}

DeviceOK(d) ==
    /\ d.state \in DevState /\ d.param \in Bit /\ d.scan \in Bit
    /\ Range(d.queue) \cup Range(d.cmdq) \cup {d.last, d.command} \subseteq Byte

DevicesOK ==
    /\ kbc.state \in KbcState /\ kbc.ccb \in Ccb
    /\ {kbc.ibf, kbc.obf, kbc.cd, kbc.mfull, kbc.want, kbc.break} \subseteq Bit
    /\ {kbc.ib, kbc.ob, kbc.val, kbc.command} \subseteq Byte
    /\ kbc.chan \in 0 .. 2 /\ kbc.irq \subseteq {1, 12}
    /\ kbc.ctrlq \in {<<>>, <<85>>}
    /\ PortOK(kbc.port[1]) /\ PortOK(kbc.port[2])
    /\ DeviceOK(keyboard) /\ DeviceOK(mouse)
    /\ Len(keyboard.queue) < KeyFifo /\ Len(mouse.queue) <= MouseLimit
    /\ keyboard.pressed \subseteq Keys /\ mouse.px \in Int

-----------------------------------------------------------------------------
(* Decoding of mouse packets                                               *)

Decode(b) == IF (b[1] \div 16) % 2 = 1 THEN b[2] - 256 ELSE b[2]

\* The motion of a stream of whole packets.
Motion(s) ==
    FoldLeft(LAMBDA sum, b : sum + Decode(b), 0,
             [ i \in 1 .. Len(s) \div 3 |-> SubSeq(s, 3 * i - 2, 3 * i) ])
=============================================================================
