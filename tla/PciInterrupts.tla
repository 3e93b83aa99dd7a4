--------------------------- MODULE PciInterrupts ---------------------------
(***************************************************************************)
(* PCI interrupt routing (pci.c, the PIRQ registers of piix.c) in front of *)
(* the 8259 pair, with the one device that keeps a copy of its own line,   *)
(* the GD5440 (update_irqs, gd5440.c).                                     *)
(*                                                                         *)
(* A source is a <<slot, intpin>>.  Every source drives one of four route  *)
(* pins; a pin counts its asserted sources and drives the IRQ the guest    *)
(* routed it to.  Two pins may be routed to the same IRQ, and the guest    *)
(* may route a pin to any IRQ, the cascade included.                       *)
(***************************************************************************)
EXTENDS I8259, FiniteSets

CONSTANTS
  Sources,  \* the <<slot, intpin>> pairs that devices use
  Swizzle,  \* the pin number the board gives to each source; 0 for none
  Gd,       \* the source of the GD5440
  Pirqs,    \* the bytes the guest may write to a PIRQ register
  Program   \* the writes to the controllers the guest may execute

ASSUME SourcesAssumption ==
    /\ IsFiniteSet(Sources)
    /\ Sources \subseteq (0 .. 31) \X (1 .. 4)
    /\ Gd \in Sources
    /\ Swizzle \in [Sources -> 0 .. 4]

ASSUME GuestAssumption == Pirqs \subseteq 0 .. 255 /\ Program \subseteq PicWrite

VARIABLES
  pics,  \* the 8259 pair
  pci,   \* the routing state of PCI_t: see PciState
  gd     \* the GD5440: see GdState

vars == <<pics, pci, gd>>

Pin      == 1 .. 4
Irq      == 0 .. 15
Disabled == 255     \* PCI_IRQ_DISABLED

\* route is route_irq, count is route_refcount (at most 128 sources share a
\* pin, so that its eight bits never wrap) and line is irq_state.
PciState == [ route : [Pin -> Irq \cup {Disabled}],
              count : [Pin -> Nat],
              line  : [Sources -> Bit] ]

\* vblank is vblank_irq (2 stands for -1, acknowledged and not re-armed),
\* vsync is CRTC 11h bit 4 set and bit 5 clear, ie is GDC 17h bit 2, shadow
\* is irq_state, the device's copy of the line.
GdState == [ vblank : 0 .. 2, vsync : Bit, ie : Bit, shadow : Bit ]

-----------------------------------------------------------------------------
(* pci.c                                                                   *)

RoutePin(s) == IF Swizzle[s] \in Pin THEN Swizzle[s] ELSE s[2]

SetIrq(p, irq, active) ==
    IF irq = Disabled THEN p
    ELSE IF irq >= 8  THEN SetLevelIrq(p, "slave", irq - 8, active)
    ELSE SetLevelIrq(p, "master", irq, active)

\* Mutant of Update: only the first source raises the line.
UpdateFirst(p, q, pin) == SetIrq(p, q.route[pin], q.count[pin] = 1)

\* pci_update_irq_line: a pin drives its IRQ high while anything asserts it.
Update(p, q, pin) == SetIrq(p, q.route[pin], q.count[pin] # 0)

\* pci_raise_irq and pci_lower_irq on the routing state; Follow is their
\* last call.  Repeating a level is ignored.
Asserted(q, s) ==
    [ q EXCEPT !.line[s] = 1, !.count[RoutePin(s)] = @ + 1 ]

Deasserted(q, s) ==
    [ q EXCEPT !.line[s] = 0,
               !.count[RoutePin(s)] = IF @ # 0 THEN @ - 1 ELSE 0 ]

SetLine(s, level) ==
    IF pci.line[s] = level THEN UNCHANGED <<pics, pci>>
    ELSE /\ pci' = IF level = 1 THEN Asserted(pci, s) ELSE Deasserted(pci, s)
         /\ pics' = Update(pics, pci', RoutePin(s))

\* What a pin drives is withdrawn.
Release(p, pin) ==
    IF pci.count[pin] # 0 THEN SetIrq(p, pci.route[pin], FALSE) ELSE p

\* Mutant of Rerouted: leaves the request on the old IRQ.
ReroutedKeep(pin) == pics

\* pci_set_irq_routing withdraws the old request before it moves the pin.
Rerouted(pin) == Release(pics, pin)

SetRouting(pin, irq) ==
    /\ pci' = [ pci EXCEPT !.route[pin] = irq ]
    /\ pics' = Update(Rerouted(pin), pci', pin)

\* pci_reset: the requests of all pins, in this order, and every line.
ReleaseAll(p) == Release(Release(Release(Release(p, 1), 2), 3), 4)

-----------------------------------------------------------------------------
(* gd5440.c: the vertical blank interrupt                                  *)

\* update_irqs of the new device state d; set and clear trust the shadow.
GdUpdate(d) ==
    LET level == IF d.vblank = 1 /\ d.vsync = 1 /\ d.ie = 1 THEN 1 ELSE 0
    IN  /\ gd' = [ d EXCEPT !.shadow = level ]
        /\ IF d.shadow = level THEN UNCHANGED <<pics, pci>>
           ELSE SetLine(Gd, level)

GdVblankStart == gd.vblank # 2 /\ GdUpdate([ gd EXCEPT !.vblank = 1 ])

\* A write of CRTC 11h with bit 4 clear acknowledges, with bit 4 set re-arms.
GdWriteCrtc11(bit4, bit5) ==
    LET vblank == IF bit4 = 0 THEN IF gd.vblank = 1 THEN 2 ELSE gd.vblank
                  ELSE IF gd.vblank = 2 THEN 0 ELSE gd.vblank
    IN  GdUpdate([ gd EXCEPT !.vblank = vblank,
                             !.vsync = IF bit5 = 0 THEN bit4 ELSE 0 ])

\* GDC 17h is stored; the line follows at the next update.
GdWriteGdc17(bit2) ==
    /\ gd' = [ gd EXCEPT !.ie = bit2 ]
    /\ UNCHANGED <<pics, pci>>

-----------------------------------------------------------------------------
(* The other sources, the guest and the reset line                         *)

\* rtl8139_update_irq and any other device: a level computed from registers.
Drive(s, level) == s # Gd /\ SetLine(s, level) /\ UNCHANGED gd

\* piix_update_irq_route: bit 7 disables the pin, the low nibble routes it.
PirqRoute(value) == IF value >= 128 THEN Disabled ELSE value % 16

WritePirq(pin, value) == SetRouting(pin, PirqRoute(value)) /\ UNCHANGED gd

\* The CPU runs an acknowledge cycle.
Check ==
    /\ HasPending(pics, "master")
    /\ pics' = AfterCheck(pics)
    /\ UNCHANGED <<pci, gd>>

\* The guest initialises, masks or ends.
Guest(i) == pics' = PicsAfter(i, pics) /\ UNCHANGED <<pci, gd>>

\* Mutant of PlatformReset: resets the device's copy instead of the bus.
PlatformResetDevice ==
    /\ UNCHANGED <<pics, pci>>
    /\ gd' = [ gd EXCEPT !.vsync = 0, !.ie = 0, !.shadow = 0 ]

\* machine_platform_reset: pci_reset, gd5440_reset (which clears the
\* registers, but neither vblank_irq nor its copy of the line),
\* rtl8139_reset_device (its line is low already) and piix_reset (which
\* disables the routes; their counts are zero by then).
PlatformReset ==
    /\ pics' = ReleaseAll(pics)
    /\ pci' = [ route |-> [ pin \in Pin |-> Disabled ],
                count |-> [ pin \in Pin |-> 0 ],
                line  |-> [ s \in Sources |-> 0 ] ]
    /\ gd' = [ gd EXCEPT !.vsync = 0, !.ie = 0 ]

Init ==
    /\ pics = PowerOn
    /\ pci = [ route |-> [ pin \in Pin |-> Disabled ],
               count |-> [ pin \in Pin |-> 0 ],
               line  |-> [ s \in Sources |-> 0 ] ]
    /\ gd = [ vblank |-> 0, vsync |-> 0, ie |-> 0, shadow |-> 0 ]

Next ==
    \/ GdVblankStart
    \/ \E bit4, bit5 \in Bit : GdWriteCrtc11(bit4, bit5)
    \/ \E bit2 \in Bit : GdWriteGdc17(bit2)
    \/ \E s \in Sources, level \in Bit : Drive(s, level)
    \/ \E pin \in Pin, value \in Pirqs : WritePirq(pin, value)
    \/ Check
    \/ \E i \in Program : Guest(i)
    \/ PlatformReset

Spec == Init /\ [][Next]_vars

-----------------------------------------------------------------------------
(* Properties                                                              *)

TypeOK == pics \in PicState /\ pci \in PciState /\ gd \in GdState

\* Each pin counts exactly its asserted sources, through raises, lowers,
\* repeated levels, resets and reroutings in any order.
RefcountExact ==
    \A pin \in Pin :
      pci.count[pin] =
        Cardinality({ s \in Sources : RoutePin(s) = pin /\ pci.line[s] = 1 })

Requested(p, irq) ==
    IF irq >= 8 THEN irq - 8 \in p["slave"].irr ELSE irq \in p["master"].irr

\* No interrupt without a device: an IRQ other than the cascade is requested
\* only while some source asserts a pin that is routed to it.  Rerouting a
\* pin, lowering a line or resetting the platform leaves no request behind.
NoGhost ==
    \A irq \in Irq :
      irq # Cascade /\ Requested(pics, irq)
      => \E s \in Sources :
           pci.line[s] = 1 /\ pci.route[RoutePin(s)] = irq

\* The device never forgets a line it has asserted on the bus, so that it
\* can always lower it again (the converse fails after a platform reset).
LineKnownToDevice == pci.line[Gd] = 1 => gd.shadow = 1

\* A source that withdraws its request does not withdraw that of another on
\* the same pin: outside rerouting and reset, the request of an IRQ that one
\* pin alone is routed to is only ever dropped with the last asserted source
\* of that pin, or by an acknowledge or an EOI.
SharedPinKept ==
    [][ \A pin \in Pin :
          LET irq == pci.route[pin]
          IN  /\ irq \notin {Cascade, Disabled}
              /\ \A other \in Pin \ {pin} : pci.route[other] # irq
              /\ Requested(pics, irq) /\ ~Requested(pics', irq)
              /\ pci'.route = pci.route /\ pci' # pci
              => \A s \in Sources :
                   RoutePin(s) = pin => pci'.line[s] = 0 ]_vars
=============================================================================
