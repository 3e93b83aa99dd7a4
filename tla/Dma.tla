--------------------------------- MODULE Dma ---------------------------------
(***************************************************************************)
(* The 8257 DMA controllers (chipset/i8257.c) and the calls with which a   *)
(* device moves bytes through a channel (chipset/dma.c), as operators on   *)
(* the state d of one controller and on memory.                            *)
(*                                                                         *)
(* No device of the machine registers a transfer handler, so that requests *)
(* by software, the command register and i8257_dma_run move nothing; they  *)
(* are left out, and so are master reset and the high page registers.      *)
(***************************************************************************)
EXTENDS Integers, Sequences, FiniteSetsExt

CONSTANTS
  Shift,     \* dshift: 0, or 1 for the controller of the 16-bit channels
  MemSize    \* bytes of memory

Channels == 0 .. 3

ModeAuto == 16   \* start again at the end
ModeDown == 32   \* addresses decrease

HasBit(v, bit) == (v \div bit) % 2 = 1

AutoInit(r) == HasBit(r.mode, ModeAuto)

ChannelAtStart ==
    [ addr |-> 0, count |-> 0, nowAddr |-> 0, nowCount |-> 0, mode |-> 0, page |-> 0 ]

DmaAtStart ==
    [ flip |-> 0, mask |-> Channels, ended |-> {},
      ch |-> [ i \in Channels |-> ChannelAtStart ] ]

Scaled(n) == n * 2 ^ Shift

\* i8257_init_chan
InitChannel(r) == [ r EXCEPT !.nowAddr = Scaled(r.addr), !.nowCount = 0 ]

Total(r) == Scaled(r.count + 1)

-----------------------------------------------------------------------------
(* Ports                                                                   *)

WithLow(old, byte)  == (old \div 256) * 256 + byte
WithHigh(old, byte) == (old % 256) + 256 * byte

\* Mutant of WriteChannel: the flip-flop is not turned over.
WriteChannelLow(d, i, reg, byte) ==
    [ d EXCEPT !.ch[i] = IF reg = "addr" THEN [ @ EXCEPT !.addr = WithLow(@, byte) ]
                         ELSE [ @ EXCEPT !.count = WithLow(@, byte) ] ]

\* The second byte of either register starts the channel afresh.
WriteChannel(d, i, reg, byte) ==
    LET r  == d.ch[i]
        v  == IF reg = "addr" THEN r.addr ELSE r.count
        v2 == IF d.flip = 1 THEN WithHigh(v, byte) ELSE WithLow(v, byte)
        r2 == IF reg = "addr" THEN [ r EXCEPT !.addr = v2 ] ELSE [ r EXCEPT !.count = v2 ]
    IN  [ d EXCEPT !.flip = 1 - @, !.ch[i] = IF d.flip = 1 THEN InitChannel(r2) ELSE r2 ]

ClearFlipFlop(d) == [ d EXCEPT !.flip = 0 ]

SetMask(d, i, on) == [ d EXCEPT !.mask = IF on THEN @ \cup {i} ELSE @ \ {i} ]
SetMode(d, i, mode) == [ d EXCEPT !.ch[i].mode = mode ]
SetPage(d, i, page) == [ d EXCEPT !.ch[i].page = page ]

-----------------------------------------------------------------------------
(* Devices.  Neither the mask nor the direction of the mode is looked at.  *)
(* A device moves its bytes one by one; here n of them at once.            *)

Remaining(d, i) ==
    IF d.ch[i].nowCount >= Total(d.ch[i]) THEN 0 ELSE Total(d.ch[i]) - d.ch[i].nowCount

\* Is the k-th byte moved, and where?
Moved(d, i, k) == Remaining(d, i) # 0 /\ (AutoInit(d.ch[i]) \/ k <= Remaining(d, i))

Address(r, k) ==
    LET n == (r.nowCount + k - 1) % Total(r)
    IN  r.page * 65536 + r.nowAddr + IF HasBit(r.mode, ModeDown) THEN -n ELSE n

\* dma_advance_channel, n times by one byte
Advance(d, i, n) ==
    LET ends == n >= Remaining(d, i)
        next == IF AutoInit(d.ch[i]) THEN (d.ch[i].nowCount + n) % Total(d.ch[i])
                ELSE IF ends THEN Total(d.ch[i]) ELSE d.ch[i].nowCount + n
    IN  IF Remaining(d, i) = 0 THEN d
        ELSE [ d EXCEPT !.ended = IF ends THEN @ \cup {i} ELSE @, !.ch[i].nowCount = next ]

\* dma_channel_write of the bytes of data; the last byte for an address stays.
WriteMemory(d, mem, i, data) ==
    LET hits(a) == { k \in DOMAIN data : Moved(d, i, k) /\ Address(d.ch[i], k) = a }
    IN  [ dma |-> Advance(d, i, Len(data)),
          mem |-> [ a \in DOMAIN mem |-> IF hits(a) = {} THEN mem[a] ELSE data[Max(hits(a))] ] ]

\* dma_channel_read of n bytes: zeros beyond the end
ReadMemory(d, mem, i, n) ==
    LET byte(a) == IF a \in DOMAIN mem THEN mem[a] ELSE 255
    IN  [ dma |-> Advance(d, i, n),
          taken |-> [ k \in 1 .. n |-> IF Moved(d, i, k) THEN byte(Address(d.ch[i], k)) ELSE 0 ] ]
=============================================================================
