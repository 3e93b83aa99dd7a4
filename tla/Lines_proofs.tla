---------------------------- MODULE Lines_proofs ----------------------------
(***************************************************************************)
(* Proofs about the devices that share interrupt lines.  First PCI, for    *)
(* every board wiring, every set of sources and every guest: the counts of *)
(* the route pins are exact, and no request outlives the device that made  *)
(* it.                                                                     *)
(*                                                                         *)
(* Then the UARTs on the interrupt controllers, for any number of UARTs,   *)
(* any bytes and every guest: the line follows its causes through every    *)
(* handler, and no request outlives its cause.                             *)
(***************************************************************************)
EXTENDS PciInterrupts, UartInterrupts, I8259_proofs, FiniteSetTheorems

\* The sources that q counts on a pin.
On(q, pin) == { s \in Sources : RoutePin(s) = pin /\ q.line[s] = 1 }

Exact(q) == \A pin \in Pin : q.count[pin] = Cardinality(On(q, pin))

\* Whatever q and the pair p say, a request has a pin that drives it.
Driven(p, q) ==
    \A irq \in Irq \ {Cascade} :
      Requested(p, irq) =>
        \E pin \in Pin : q.route[pin] = irq /\ q.count[pin] # 0

Inv == TypeOK /\ Exact(pci) /\ Driven(pics, pci)

-----------------------------------------------------------------------------
(* The routing state                                                       *)

\* A source drives one of the four pins.
LEMMA RoutePinType == \A s \in Sources : RoutePin(s) \in Pin
  BY SourcesAssumption DEF RoutePin, Pin

\* Finitely many sources hold a pin.
LEMMA OnFinite ==
    ASSUME NEW q, NEW pin
    PROVE  IsFiniteSet(On(q, pin)) /\ Cardinality(On(q, pin)) \in Nat
<1>1. On(q, pin) \subseteq Sources
  BY DEF On
<1>2. QED
  BY <1>1, SourcesAssumption, FS_Subset, FS_CardinalityType

\* Asserting a quiet source counts it on its pin and nowhere else.
LEMMA AssertedExact ==
    ASSUME NEW q \in PciState, Exact(q), NEW s \in Sources, q.line[s] = 0
    PROVE  Asserted(q, s) \in PciState /\ Exact(Asserted(q, s))
<1> DEFINE r == Asserted(q, s)
<1>1. RoutePin(s) \in Pin
  BY RoutePinType
<1>2. r \in PciState
  <2>1. /\ q.line \in [Sources -> Bit] /\ q.count \in [Pin -> Nat]
        /\ q.count[RoutePin(s)] + 1 \in Nat
    BY <1>1 DEF PciState
  <2>2. /\ [ q.line EXCEPT ![s] = 1 ] \in [Sources -> Bit]
        /\ [ q.count EXCEPT ![RoutePin(s)] = @ + 1 ] \in [Pin -> Nat]
    BY <1>1, <2>1 DEF Bit
  <2>3. r = [ q EXCEPT !.line = [ q.line EXCEPT ![s] = 1 ],
                       !.count = [ q.count EXCEPT ![RoutePin(s)] = @ + 1 ] ]
    BY DEF Asserted, PciState
  <2>4. QED
    BY <2>2, <2>3 DEF PciState
<1>3. /\ r.line = [ q.line EXCEPT ![s] = 1 ]
      /\ r.count = [ q.count EXCEPT ![RoutePin(s)] = @ + 1 ]
  BY DEF Asserted, PciState
<1> HIDE DEF r
<1>4. ASSUME NEW pin \in Pin
      PROVE  r.count[pin] = Cardinality(On(r, pin))
  <2>1. q.line \in [Sources -> Bit] /\ q.count \in [Pin -> Nat]
    BY DEF PciState
  <2>2. q.count[pin] = Cardinality(On(q, pin))
    BY DEF Exact
  <2>3. CASE pin = RoutePin(s)
    <3>1. s \notin On(q, pin)
      BY DEF On
    <3>2. On(r, pin) = On(q, pin) \cup {s}
      BY <1>3, <2>1, <2>3 DEF On
    <3>3. Cardinality(On(r, pin)) = Cardinality(On(q, pin)) + 1
      BY <3>1, <3>2, OnFinite, FS_AddElement
    <3>4. QED
      BY <1>1, <1>3, <2>1, <2>2, <2>3, <3>3
  <2>4. CASE pin # RoutePin(s)
    <3>1. On(r, pin) = On(q, pin)
      BY <1>3, <2>1, <2>4 DEF On
    <3>2. QED
      BY <1>3, <2>1, <2>2, <2>4, <3>1
  <2>5. QED
    BY <2>3, <2>4
<1>5. QED
  BY <1>2, <1>4 DEF r, Exact

\* Withdrawing an asserted source uncounts it on its pin and nowhere else;
\* in particular the count was not zero.
LEMMA DeassertedExact ==
    ASSUME NEW q \in PciState, Exact(q), NEW s \in Sources, q.line[s] = 1
    PROVE  /\ Deasserted(q, s) \in PciState
           /\ Exact(Deasserted(q, s))
<1> DEFINE r == Deasserted(q, s)
<1>1. RoutePin(s) \in Pin
  BY RoutePinType
<1>2. r \in PciState
  <2> DEFINE n == IF q.count[RoutePin(s)] # 0
                  THEN q.count[RoutePin(s)] - 1 ELSE 0
  <2>1. /\ q.line \in [Sources -> Bit] /\ q.count \in [Pin -> Nat]
        /\ n \in Nat
    BY <1>1 DEF PciState
  <2>2. /\ [ q.line EXCEPT ![s] = 0 ] \in [Sources -> Bit]
        /\ [ q.count EXCEPT ![RoutePin(s)] = n ] \in [Pin -> Nat]
    BY <1>1, <2>1 DEF Bit
  <2>3. r = [ q EXCEPT !.line = [ q.line EXCEPT ![s] = 0 ],
                       !.count = [ q.count EXCEPT ![RoutePin(s)] = n ] ]
    BY DEF Deasserted, PciState
  <2>4. QED
    BY <2>2, <2>3 DEF PciState
<1>3. /\ r.line = [ q.line EXCEPT ![s] = 0 ]
      /\ r.count = [ q.count EXCEPT ![RoutePin(s)] =
                       IF @ # 0 THEN @ - 1 ELSE 0 ]
  BY DEF Deasserted, PciState
<1> HIDE DEF r
<1>4. ASSUME NEW pin \in Pin
      PROVE  r.count[pin] = Cardinality(On(r, pin))
  <2>1. q.line \in [Sources -> Bit] /\ q.count \in [Pin -> Nat]
    BY DEF PciState
  <2>2. q.count[pin] = Cardinality(On(q, pin))
    BY DEF Exact
  <2>3. CASE pin = RoutePin(s)
    <3>1. s \in On(q, pin)
      BY <2>3 DEF On
    <3>2. On(r, pin) = On(q, pin) \ {s}
      BY <1>3, <2>1, <2>3 DEF On
    <3>3. Cardinality(On(r, pin)) = Cardinality(On(q, pin)) - 1
      BY <3>1, <3>2, OnFinite, FS_RemoveElement, ZenonT(60)
    <3>4. Cardinality(On(q, pin)) # 0
      BY <3>1, OnFinite, FS_EmptySet
    <3>5. r.count[pin] = q.count[pin] - 1
      BY <1>1, <1>3, <2>1, <2>2, <2>3, <3>4
    <3>6. QED
      BY <2>2, <3>3, <3>5
  <2>4. CASE pin # RoutePin(s)
    <3>1. On(r, pin) = On(q, pin)
      BY <1>3, <2>1, <2>4 DEF On
    <3>2. QED
      BY <1>3, <2>1, <2>2, <2>4, <3>1
  <2>5. QED
    BY <2>3, <2>4
<1>5. QED
  BY <1>2, <1>4 DEF r, Exact

-----------------------------------------------------------------------------
(* Requests                                                                *)

\* What no step requested was requested before.
LEMMA NoNewRequested ==
    ASSUME NEW p, NEW q, NoNewRequest(p, q), NEW k \in Irq \ {Cascade},
           Requested(q, k)
    PROVE  Requested(p, k)
  BY DEF NoNewRequest, Requested, Irq, Cascade

\* Driving an IRQ requests at most that IRQ, and releasing it withdraws it.
LEMMA SetIrqRequests ==
    ASSUME NEW p \in PicState, NEW irq \in Irq \cup {Disabled},
           NEW active \in BOOLEAN
    PROVE  /\ SetIrq(p, irq, active) \in PicState
           /\ \A k \in Irq \ {Cascade} :
                Requested(SetIrq(p, irq, active), k) =>
                  IF k = irq THEN active ELSE Requested(p, k)
<1>1. CASE irq = Disabled
  BY <1>1 DEF SetIrq, Irq, Disabled
<1>2. CASE irq \in Irq
  <2> DEFINE c == IF irq >= 8 THEN "slave" ELSE "master"
             n == IF irq >= 8 THEN irq - 8 ELSE irq
             up   == [ p EXCEPT ![c].irr = @ \cup {n} ]
             down == [ p EXCEPT ![c].irr = @ \ {n} ]
  <2>1. c \in Chip /\ n \in Line
    BY <1>2 DEF Chip, Line, Irq
  <2>2. SetIrq(p, irq, active) =
          IF active THEN DoIrq(p, c, n) ELSE ClearIrq(p, c, n)
    BY <1>2 DEF SetIrq, SetLevelIrq, Irq, Disabled
  <2>3. ASSUME NEW k \in Irq \ {Cascade}
        PROVE  /\ Requested(up, k) => k = irq \/ Requested(p, k)
               /\ Requested(down, k) => k # irq /\ Requested(p, k)
    <3>1. /\ up["master"].irr = IF c = "master" THEN p["master"].irr \cup {n}
                                ELSE p["master"].irr
          /\ up["slave"].irr = IF c = "slave" THEN p["slave"].irr \cup {n}
                               ELSE p["slave"].irr
      BY <2>1 DEF PicState, ChipState, Chip
    <3>2. /\ down["master"].irr = IF c = "master" THEN p["master"].irr \ {n}
                                  ELSE p["master"].irr
          /\ down["slave"].irr = IF c = "slave" THEN p["slave"].irr \ {n}
                                 ELSE p["slave"].irr
      BY <2>1 DEF PicState, ChipState, Chip
    <3> HIDE DEF up, down
    <3>3. QED
      BY <1>2, <3>1, <3>2 DEF Requested, Irq
  <2>4. /\ DoIrq(p, c, n) \in PicState /\ ClearIrq(p, c, n) \in PicState
        /\ NoNewRequest(up, DoIrq(p, c, n))
        /\ NoNewRequest(down, ClearIrq(p, c, n))
    BY <2>1, LineNoNew
  <2> HIDE DEF up, down, c, n
  <2>5. QED
    BY <2>2, <2>3, <2>4, NoNewRequested
<1>3. QED
  BY <1>1, <1>2

\* Recomputing the cascade touches line 2 of the master alone.
LEMMA SyncRequests ==
    ASSUME NEW q \in PicState, NEW c \in Chip, NEW k \in Irq \ {Cascade}
    PROVE  Requested(SyncIfSlave(q, c), k) <=> Requested(q, k)
<1>1. /\ SyncCascade(q)["slave"].irr = q["slave"].irr
      /\ SyncCascade(q)["master"].irr \ {Cascade} = q["master"].irr \ {Cascade}
  BY DEF SyncCascade, PicState, ChipState, Chip
<1>2. Requested(SyncCascade(q), k) <=> Requested(q, k)
  BY <1>1 DEF Requested, Irq
<1>3. QED
  BY <1>2 DEF SyncIfSlave

\* Driving an IRQ withdraws at most that IRQ, and only to release it.
LEMMA SetIrqKeeps ==
    ASSUME NEW p \in PicState, NEW irq \in Irq \cup {Disabled},
           NEW active \in BOOLEAN, NEW k \in Irq \ {Cascade},
           Requested(p, k), ~Requested(SetIrq(p, irq, active), k)
    PROVE  k = irq /\ ~active
<1>1. irq # Disabled
  BY DEF SetIrq
<1> DEFINE c == IF irq >= 8 THEN "slave" ELSE "master"
           n == IF irq >= 8 THEN irq - 8 ELSE irq
           up   == [ p EXCEPT ![c].irr = @ \cup {n} ]
           down == [ p EXCEPT ![c].irr = @ \ {n} ]
<1>2. irq \in Irq /\ c \in Chip /\ n \in Line
  BY <1>1 DEF Chip, Line, Irq
<1>3. SetIrq(p, irq, active) =
        IF active THEN SyncIfSlave(up, c) ELSE SyncIfSlave(down, c)
  BY <1>1 DEF SetIrq, SetLevelIrq, DoIrq, ClearIrq
<1>4. up \in PicState /\ down \in PicState
  BY <1>2 DEF PicState, ChipState
<1>5. Requested(up, k) /\ (k # irq => Requested(down, k))
  <2>1. /\ up["master"].irr = IF c = "master" THEN p["master"].irr \cup {n}
                              ELSE p["master"].irr
        /\ up["slave"].irr = IF c = "slave" THEN p["slave"].irr \cup {n}
                             ELSE p["slave"].irr
        /\ down["master"].irr = IF c = "master" THEN p["master"].irr \ {n}
                                ELSE p["master"].irr
        /\ down["slave"].irr = IF c = "slave" THEN p["slave"].irr \ {n}
                               ELSE p["slave"].irr
    BY <1>2 DEF PicState, ChipState, Chip
  <2> HIDE DEF up, down
  <2>2. QED
    BY <1>2, <2>1 DEF Requested, Irq
<1> HIDE DEF up, down, c
<1>6. QED
  BY <1>2, <1>3, <1>4, <1>5, SyncRequests

\* A pin whose count alone changed follows it.
LEMMA UpdateDriven ==
    ASSUME NEW p \in PicState, NEW q \in PciState, NEW r \in PciState,
           Driven(p, q), NEW pin \in Pin, r.route = q.route,
           \A o \in Pin \ {pin} : r.count[o] = q.count[o]
    PROVE  Update(p, r, pin) \in PicState /\ Driven(Update(p, r, pin), r)
<1> DEFINE u == Update(p, r, pin)
<1>1. r.route[pin] \in Irq \cup {Disabled} /\ (r.count[pin] # 0) \in BOOLEAN
  BY DEF PciState
<1>2. /\ u \in PicState
      /\ \A k \in Irq \ {Cascade} :
           Requested(u, k) =>
             IF k = r.route[pin] THEN r.count[pin] # 0 ELSE Requested(p, k)
  BY <1>1, SetIrqRequests DEF Update
<1> HIDE DEF u
<1>3. ASSUME NEW k \in Irq \ {Cascade}, Requested(u, k)
      PROVE  \E o \in Pin : r.route[o] = k /\ r.count[o] # 0
  <2>1. CASE k = r.route[pin]
    BY <1>2, <1>3, <2>1
  <2>2. CASE k # r.route[pin]
    <3>1. PICK o \in Pin : q.route[o] = k /\ q.count[o] # 0
      BY <1>2, <1>3, <2>2 DEF Driven
    <3>2. o # pin
      BY <2>2, <3>1
    <3>3. QED
      BY <3>1, <3>2
  <2>3. QED
    BY <2>1, <2>2
<1>4. QED
  BY <1>2, <1>3 DEF u, Driven

\* Releasing a pin withdraws what it alone drives and requests nothing.
LEMMA ReleaseRequests ==
    ASSUME TypeOK, NEW p \in PicState, NEW pin \in Pin
    PROVE  /\ Release(p, pin) \in PicState
           /\ \A k \in Irq \ {Cascade} :
                Requested(Release(p, pin), k) =>
                  /\ Requested(p, k)
                  /\ ~ (pci.count[pin] # 0 /\ pci.route[pin] = k)
<1>1. pci.route[pin] \in Irq \cup {Disabled}
  BY DEF TypeOK, PciState
<1>2. QED
  BY <1>1, SetIrqRequests DEF Release

-----------------------------------------------------------------------------
(* Steps                                                                   *)

\* A change of a device's line keeps the counts and the requests.
LEMMA SetLineInv ==
    ASSUME Inv, NEW s \in Sources, NEW level \in Bit, SetLine(s, level)
    PROVE  /\ pics' \in PicState /\ pci' \in PciState
           /\ Exact(pci') /\ Driven(pics', pci')
           /\ pci'.line = [ pci.line EXCEPT ![s] = level ]
<1>0. /\ pics \in PicState /\ pci \in PciState
      /\ pci.line \in [Sources -> Bit]
  BY DEF Inv, TypeOK, PciState
<1>1. CASE pci.line[s] = level
  BY <1>0, <1>1 DEF SetLine, Inv
<1>2. CASE pci.line[s] # level
  <2>1. \/ level = 1 /\ pci.line[s] = 0 /\ pci' = Asserted(pci, s)
        \/ level = 0 /\ pci.line[s] = 1 /\ pci' = Deasserted(pci, s)
    BY <1>0, <1>2 DEF SetLine, Bit
  <2>2. pci' \in PciState /\ Exact(pci')
    BY <1>0, <2>1, AssertedExact, DeassertedExact DEF Inv
  <2>3. /\ RoutePin(s) \in Pin /\ pci'.route = pci.route
        /\ \A o \in Pin \ {RoutePin(s)} : pci'.count[o] = pci.count[o]
        /\ pci'.line = [ pci.line EXCEPT ![s] = level ]
    BY <1>0, <2>1, RoutePinType DEF Asserted, Deasserted, PciState
  <2>4. pics' = Update(pics, pci', RoutePin(s))
    BY <1>2 DEF SetLine
  <2>5. QED
    BY <1>0, <2>2, <2>3, <2>4, UpdateDriven DEF Inv
<1>3. QED
  BY <1>1, <1>2

\* So does a change of the routing of a pin,
LEMMA SetRoutingInv ==
    ASSUME Inv, NEW pin \in Pin, NEW irq \in Irq \cup {Disabled},
           SetRouting(pin, irq)
    PROVE  /\ pics' \in PicState /\ pci' \in PciState
           /\ Exact(pci') /\ Driven(pics', pci')
           /\ pci'.line = pci.line
<1> DEFINE rel == Rerouted(pin)
<1>0. TypeOK /\ pics \in PicState /\ pci \in PciState
  BY DEF Inv, TypeOK
<1>1. /\ rel \in PicState
      /\ \A k \in Irq \ {Cascade} :
           Requested(rel, k) =>
             /\ Requested(pics, k)
             /\ ~ (pci.count[pin] # 0 /\ pci.route[pin] = k)
  BY <1>0, ReleaseRequests DEF Rerouted
<1> HIDE DEF rel
<1>2. /\ pci' \in PciState /\ pci'.line = pci.line
      /\ pci'.count = pci.count
      /\ pci'.route = [ pci.route EXCEPT ![pin] = irq ]
  <2>1. [ pci.route EXCEPT ![pin] = irq ] \in [Pin -> Irq \cup {Disabled}]
    BY <1>0 DEF PciState
  <2>2. pci' = [ pci EXCEPT !.route = [ pci.route EXCEPT ![pin] = irq ] ]
    BY <1>0 DEF SetRouting, PciState
  <2>3. QED
    BY <1>0, <2>1, <2>2 DEF PciState
<1>3. Exact(pci')
  BY <1>2 DEF Inv, Exact, On
<1>4. pci'.route[pin] = irq /\ (pci'.count[pin] # 0) \in BOOLEAN
  BY <1>0, <1>2 DEF PciState
<1>5. /\ pics' \in PicState
      /\ \A k \in Irq \ {Cascade} :
           Requested(pics', k) =>
             IF k = irq THEN pci'.count[pin] # 0 ELSE Requested(rel, k)
  BY <1>1, <1>4, SetIrqRequests DEF SetRouting, Update, rel
<1>6. ASSUME NEW k \in Irq \ {Cascade}, Requested(pics', k)
      PROVE  \E o \in Pin : pci'.route[o] = k /\ pci'.count[o] # 0
  <2>1. CASE k = irq
    BY <1>4, <1>5, <1>6, <2>1
  <2>2. CASE k # irq
    <3>1. Requested(rel, k)
      BY <1>5, <1>6, <2>2
    <3>2. PICK o \in Pin : pci.route[o] = k /\ pci.count[o] # 0
      BY <1>1, <3>1 DEF Inv, Driven
    <3>3. o # pin
      BY <1>1, <3>1, <3>2
    <3>4. QED
      BY <1>0, <1>2, <3>2, <3>3 DEF PciState
  <2>3. QED
    BY <2>1, <2>2
<1>7. QED
  BY <1>2, <1>3, <1>5, <1>6 DEF Driven

\* The reset releases the four pins one after the other; between them they
\* drive every request there is.
LEMMA ResetInv ==
    ASSUME Inv, PlatformReset
    PROVE  /\ pics' \in PicState /\ pci' \in PciState
           /\ Exact(pci') /\ Driven(pics', pci')
<1> DEFINE r1 == Release(pics, 1)
           r2 == Release(r1, 2)
           r3 == Release(r2, 3)
           r4 == Release(r3, 4)
           Undriven(r, pin) ==
             \A k \in Irq \ {Cascade} :
               Requested(r, k) => ~ (pci.count[pin] # 0 /\ pci.route[pin] = k)
           Less(p, r) == \A k \in Irq \ {Cascade} :
                           Requested(r, k) => Requested(p, k)
<1>0. TypeOK /\ pics \in PicState
  BY DEF Inv, TypeOK
<1>1. r1 \in PicState /\ Less(pics, r1) /\ Undriven(r1, 1)
  BY <1>0, ReleaseRequests DEF Pin
<1>2. r2 \in PicState /\ Less(r1, r2) /\ Undriven(r2, 2)
  <2> HIDE DEF r1
  <2>1. QED
    BY <1>0, <1>1, ReleaseRequests DEF Pin
<1>3. r3 \in PicState /\ Less(r2, r3) /\ Undriven(r3, 3)
  <2> HIDE DEF r2
  <2>1. QED
    BY <1>0, <1>2, ReleaseRequests DEF Pin
<1>4. r4 \in PicState /\ Less(r3, r4) /\ Undriven(r4, 4)
  <2> HIDE DEF r3
  <2>1. QED
    BY <1>0, <1>3, ReleaseRequests DEF Pin
<1>5. pics' = r4
  BY DEF PlatformReset, ReleaseAll
<1> HIDE DEF r1, r2, r3, r4
<1>6. ASSUME NEW k \in Irq \ {Cascade}, Requested(pics', k)
      PROVE  FALSE
  <2>1. /\ Requested(r3, k) /\ Requested(r2, k) /\ Requested(r1, k)
        /\ Requested(pics, k)
    BY <1>1, <1>2, <1>3, <1>4, <1>5, <1>6
  <2>2. PICK o \in Pin : pci.route[o] = k /\ pci.count[o] # 0
    BY <2>1 DEF Inv, Driven
  <2>3. \A other \in Pin : Undriven(r4, other)
    BY <1>1, <1>2, <1>3, <1>4 DEF Pin
  <2>4. QED
    BY <1>5, <1>6, <2>2, <2>3
<1>7. pci' = [ route |-> [ pin \in Pin |-> Disabled ],
               count |-> [ pin \in Pin |-> 0 ],
               line  |-> [ s \in Sources |-> 0 ] ]
  BY DEF PlatformReset
<1>8. pci' \in PciState
  BY <1>7 DEF PciState, Bit
<1>9. Exact(pci')
  <2>1. ASSUME NEW pin \in Pin
        PROVE  pci'.count[pin] = 0 /\ On(pci', pin) = {}
    BY <1>7 DEF On
  <2>2. QED
    BY <2>1, FS_EmptySet DEF Exact
<1>10. QED
  BY <1>4, <1>5, <1>6, <1>8, <1>9 DEF Driven

\* Whatever changes the pair alone requests nothing new.
LEMMA PairStepInv ==
    ASSUME Inv, pics' \in PicState, NoNewRequest(pics, pics'),
           UNCHANGED <<pci, gd>>
    PROVE  Inv'
<1>1. Driven(pics', pci)
  BY NoNewRequested DEF Inv, Driven
<1>2. QED
  BY <1>1 DEF Inv, TypeOK, Exact, On, Driven

\* an update of the line by the display adapter,
LEMMA GdUpdateInv ==
    ASSUME Inv, LineKnownToDevice, NEW d \in GdState, d.shadow = gd.shadow,
           GdUpdate(d)
    PROVE  Inv' /\ LineKnownToDevice'
<1> DEFINE level == IF d.vblank = 1 /\ d.vsync = 1 /\ d.ie = 1 THEN 1 ELSE 0
<1>1. level \in Bit
  BY DEF Bit
<1>2. gd' = [ d EXCEPT !.shadow = level ]
  BY DEF GdUpdate
<1>3. gd' \in GdState /\ gd'.shadow = level
  BY <1>1, <1>2 DEF GdState
<1>4. /\ d.shadow = level => UNCHANGED <<pics, pci>>
      /\ d.shadow # level => SetLine(Gd, level)
  BY DEF GdUpdate
<1> HIDE DEF level
<1>5. CASE d.shadow = level
  BY <1>3, <1>4, <1>5
  DEF Inv, TypeOK, Exact, On, Driven, LineKnownToDevice
<1>6. CASE d.shadow # level
  <2>1. Gd \in Sources
    BY SourcesAssumption
  <2>2. /\ pics' \in PicState /\ pci' \in PciState
        /\ Exact(pci') /\ Driven(pics', pci')
        /\ pci'.line = [ pci.line EXCEPT ![Gd] = level ]
    BY <1>1, <1>4, <1>6, <2>1, SetLineInv
  <2>3. Inv'
    BY <1>3, <2>2 DEF Inv, TypeOK, Exact, On, Driven
  <2>4. pci'.line[Gd] = level
    BY <2>1, <2>2 DEF Inv, TypeOK, PciState
  <2>5. QED
    BY <1>3, <2>3, <2>4 DEF LineKnownToDevice
<1>7. QED
  BY <1>5, <1>6

\* and so every step.
LEMMA StepInv ==
    ASSUME Inv, LineKnownToDevice, [Next]_vars
    PROVE  Inv' /\ LineKnownToDevice'
<1>0. gd \in GdState /\ pics \in PicState /\ pci.line \in [Sources -> Bit]
  BY DEF Inv, TypeOK, PciState
<1>1. CASE GdVblankStart
  <2>1. [ gd EXCEPT !.vblank = 1 ] \in GdState
    BY <1>0 DEF GdState
  <2>2. [ gd EXCEPT !.vblank = 1 ].shadow = gd.shadow
    BY <1>0 DEF GdState
  <2>3. QED
    BY <1>1, <2>1, <2>2, GdUpdateInv DEF GdVblankStart
<1>2. ASSUME NEW bit4 \in Bit, NEW bit5 \in Bit, GdWriteCrtc11(bit4, bit5)
      PROVE  Inv' /\ LineKnownToDevice'
  <2> DEFINE v == IF bit4 = 0 THEN IF gd.vblank = 1 THEN 2 ELSE gd.vblank
                  ELSE IF gd.vblank = 2 THEN 0 ELSE gd.vblank
             e == IF bit5 = 0 THEN bit4 ELSE 0
             d == [ gd EXCEPT !.vblank = v, !.vsync = e ]
  <2>1. d \in GdState /\ d.shadow = gd.shadow
    <3>1. v \in 0 .. 2 /\ e \in Bit
      BY <1>0 DEF GdState, Bit
    <3> HIDE DEF v, e
    <3>2. QED
      BY <1>0, <3>1 DEF GdState
  <2>2. GdUpdate(d)
    BY <1>2 DEF GdWriteCrtc11
  <2>3. QED
    BY <2>1, <2>2, GdUpdateInv
<1>3. ASSUME NEW bit2 \in Bit, GdWriteGdc17(bit2)
      PROVE  Inv' /\ LineKnownToDevice'
  <2>1. gd' \in GdState /\ gd'.shadow = gd.shadow
    BY <1>0, <1>3 DEF GdWriteGdc17, GdState
  <2>2. QED
    BY <1>3, <2>1
    DEF GdWriteGdc17, Inv, TypeOK, Exact, On, Driven, LineKnownToDevice
<1>4. ASSUME NEW s \in Sources, NEW level \in Bit, Drive(s, level)
      PROVE  Inv' /\ LineKnownToDevice'
  <2>1. /\ pics' \in PicState /\ pci' \in PciState
        /\ Exact(pci') /\ Driven(pics', pci')
        /\ pci'.line = [ pci.line EXCEPT ![s] = level ]
    BY <1>4, SetLineInv DEF Drive
  <2>2. pci'.line[Gd] = pci.line[Gd]
    BY <1>0, <1>4, <2>1, SourcesAssumption DEF Drive
  <2>3. QED
    BY <1>4, <2>1, <2>2
    DEF Drive, Inv, TypeOK, Exact, On, Driven, LineKnownToDevice
<1>5. ASSUME NEW pin \in Pin, NEW value \in Pirqs, WritePirq(pin, value)
      PROVE  Inv' /\ LineKnownToDevice'
  <2>1. PirqRoute(value) \in Irq \cup {Disabled}
    BY GuestAssumption DEF PirqRoute, Irq
  <2>2. /\ pics' \in PicState /\ pci' \in PciState
        /\ Exact(pci') /\ Driven(pics', pci')
        /\ pci'.line = pci.line
    BY <1>5, <2>1, SetRoutingInv DEF WritePirq
  <2>3. QED
    BY <1>5, <2>2
    DEF WritePirq, Inv, TypeOK, Exact, On, Driven, LineKnownToDevice
<1>6. CASE Check
  <2>1. pics' \in PicState /\ NoNewRequest(pics, pics')
    BY <1>0, <1>6, CheckNoNew DEF Check
  <2>2. QED
    BY <1>6, <2>1, PairStepInv DEF Check, LineKnownToDevice
<1>7. ASSUME NEW i \in Program, Guest(i)
      PROVE  Inv' /\ LineKnownToDevice'
  <2>1. pics' \in PicState /\ NoNewRequest(pics, pics')
    BY <1>0, <1>7, WriteTyped, WriteNoNew, GuestAssumption DEF Guest
  <2>2. QED
    BY <1>7, <2>1, PairStepInv DEF Guest, LineKnownToDevice
<1>8. CASE PlatformReset
  <2>1. /\ pics' \in PicState /\ pci' \in PciState
        /\ Exact(pci') /\ Driven(pics', pci')
    BY <1>8, ResetInv
  <2>2. gd' \in GdState
    BY <1>0, <1>8 DEF PlatformReset, GdState, Bit
  <2>3. pci'.line[Gd] = 0
    BY <1>8, SourcesAssumption DEF PlatformReset
  <2>4. QED
    BY <2>1, <2>2, <2>3 DEF Inv, TypeOK, Exact, On, Driven, LineKnownToDevice
<1>9. CASE UNCHANGED vars
  BY <1>9 DEF vars, Inv, TypeOK, Exact, On, Driven, LineKnownToDevice
<1>10. QED
  BY <1>1, <1>2, <1>3, <1>4, <1>5, <1>6, <1>7, <1>8, <1>9 DEF Next

-----------------------------------------------------------------------------
(* Theorems                                                                *)

\* The routing starts in the invariant.
LEMMA InitInv == Init => Inv /\ LineKnownToDevice
<1> SUFFICES ASSUME Init PROVE Inv /\ LineKnownToDevice
  OBVIOUS
<1>1. pics \in PicState
  BY DEF Init, PowerOn, PicState, ChipState, Chip, Line, Step, Bit, Offset
<1>2. pci \in PciState /\ gd \in GdState
  BY DEF Init, PciState, GdState, Bit
<1>3. Exact(pci)
  <2>1. ASSUME NEW pin \in Pin
        PROVE  pci.count[pin] = 0 /\ On(pci, pin) = {}
    BY DEF Init, On
  <2>2. QED
    BY <2>1, FS_EmptySet DEF Exact
<1>4. Driven(pics, pci)
  BY DEF Init, PowerOn, Chip, Driven, Requested
<1>5. LineKnownToDevice
  BY SourcesAssumption DEF Init, LineKnownToDevice
<1>6. QED
  BY <1>1, <1>2, <1>3, <1>4, <1>5 DEF Inv, TypeOK

\* The inductive invariant of pci.c: the registers are typed, the counts are
\* exact and every request is driven by a pin that counts something.
THEOREM RoutingInvariant == Spec => [](Inv /\ LineKnownToDevice)
<1>1. Inv /\ LineKnownToDevice /\ [Next]_vars => Inv' /\ LineKnownToDevice'
  BY StepInv
<1>2. QED
  BY <1>1, InitInv, PTL DEF Spec

\* pci_set_irq_routing, pci_raise_irq, pci_lower_irq and pci_reset keep every
\* register in range, for any byte the guest writes to a PIRQ register.
THEOREM TypeCorrect == Spec => []TypeOK
<1>1. Inv => TypeOK
  BY DEF Inv
<1>2. QED
  BY <1>1, RoutingInvariant, PTL

\* route_refcount is the number of asserted sources of its pin, whatever the
\* order of raises, lowers, reroutings and resets.
THEOREM CountsExact == Spec => []RefcountExact
<1>1. Inv => RefcountExact
  BY DEF Inv, Exact, On, RefcountExact
<1>2. QED
  BY <1>1, RoutingInvariant, PTL

\* No request on an IRQ without an asserted source that is routed to it.
THEOREM NeverGhost == Spec => []NoGhost
<1>1. Inv => NoGhost
  <2> SUFFICES ASSUME Inv, NEW irq \in Irq, irq # Cascade,
                      Requested(pics, irq)
               PROVE  \E s \in Sources :
                        pci.line[s] = 1 /\ pci.route[RoutePin(s)] = irq
    BY DEF NoGhost
  <2>1. PICK pin \in Pin : pci.route[pin] = irq /\ pci.count[pin] # 0
    BY DEF Inv, Driven
  <2>2. Cardinality(On(pci, pin)) # 0
    BY <2>1 DEF Inv, Exact
  <2>3. On(pci, pin) # {}
    BY <2>2, FS_EmptySet
  <2>4. QED
    BY <2>1, <2>3 DEF On
<1>2. QED
  BY <1>1, RoutingInvariant, PTL

\* The GD5440 can always withdraw the line it has asserted.
THEOREM LineAlwaysKnown == Spec => []LineKnownToDevice
  BY RoutingInvariant, PTL

\* When a step withdraws a request that one pin alone can drive, and no pin
\* was rerouted, nothing asserts that pin any more.
LEMMA LineWithdraws ==
    ASSUME Inv, NEW s \in Sources, NEW level \in Bit, SetLine(s, level),
           NEW pin \in Pin, pci.route[pin] \notin {Cascade, Disabled},
           \A other \in Pin \ {pin} : pci.route[other] # pci.route[pin],
           Requested(pics, pci.route[pin]), ~Requested(pics', pci.route[pin])
    PROVE  \A o \in Sources : RoutePin(o) = pin => pci'.line[o] = 0
<1> DEFINE irq == pci.route[pin]
           own == RoutePin(s)
<1>0. /\ pics \in PicState /\ pci \in PciState /\ own \in Pin
      /\ irq \in Irq \ {Cascade}
  BY RoutePinType DEF Inv, TypeOK, PciState, Irq
<1>1. pci.line[s] # level
  BY DEF SetLine
<1>2. /\ pci' \in PciState /\ Exact(pci')
  BY SetLineInv
<1>3. pics' = Update(pics, pci', own) /\ pci'.route = pci.route
  BY <1>0, <1>1 DEF SetLine, Asserted, Deasserted, PciState
<1>4. pci.route[own] = irq /\ pci'.count[own] = 0
  <2>1. pci.route[own] \in Irq \cup {Disabled} /\ (pci'.count[own] # 0) \in BOOLEAN
    BY <1>0 DEF PciState
  <2>2. ~Requested(SetIrq(pics, pci.route[own], pci'.count[own] # 0), irq)
    BY <1>3 DEF Update
  <2>3. \A i \in Irq \cup {Disabled}, up \in BOOLEAN :
          ~Requested(SetIrq(pics, i, up), irq) => irq = i /\ ~up
    BY <1>0, SetIrqKeeps
  <2>4. irq = pci.route[own] /\ ~ (pci'.count[own] # 0)
    BY <2>1, <2>2, <2>3, Zenon
  <2>5. QED
    BY <2>4
<1>5. own = pin
  BY <1>0, <1>4
<1>6. On(pci', pin) = {}
  BY <1>0, <1>2, <1>4, <1>5, OnFinite, FS_EmptySet DEF Exact
<1>7. pci'.line \in [Sources -> Bit]
  BY <1>2 DEF PciState
<1>8. QED
  BY <1>6, <1>7 DEF On, Bit

\* A source that withdraws its request never withdraws that of another on
\* its pin, for any wiring and any number of sources.
THEOREM SharedPinAlwaysKept == Spec => SharedPinKept
<1> DEFINE Kept == \A pin \in Pin :
             LET irq == pci.route[pin]
             IN  /\ irq \notin {Cascade, Disabled}
                 /\ \A other \in Pin \ {pin} : pci.route[other] # irq
                 /\ Requested(pics, irq) /\ ~Requested(pics', irq)
                 /\ pci'.route = pci.route /\ pci' # pci
                 => \A s \in Sources : RoutePin(s) = pin => pci'.line[s] = 0
<1>1. Inv /\ [Next]_vars => [Kept]_vars
  <2> SUFFICES ASSUME Inv, Next, NEW pin \in Pin,
                      pci.route[pin] \notin {Cascade, Disabled},
                      \A other \in Pin \ {pin} : pci.route[other] # pci.route[pin],
                      Requested(pics, pci.route[pin]),
                      ~Requested(pics', pci.route[pin]),
                      pci'.route = pci.route, pci' # pci
               PROVE  \A s \in Sources : RoutePin(s) = pin => pci'.line[s] = 0
    OBVIOUS
  <2>1. ASSUME NEW s \in Sources, NEW level \in Bit, SetLine(s, level)
        PROVE  \A o \in Sources : RoutePin(o) = pin => pci'.line[o] = 0
    BY <2>1, LineWithdraws
  <2>2. ASSUME NEW d, GdUpdate(d)
        PROVE  \E level \in Bit : SetLine(Gd, level)
    BY <2>2 DEF GdUpdate, Bit
  <2>3. Gd \in Sources
    BY SourcesAssumption
  <2>4. CASE GdVblankStart
    BY <2>1, <2>2, <2>3, <2>4 DEF GdVblankStart
  <2>5. CASE \E bit4, bit5 \in Bit : GdWriteCrtc11(bit4, bit5)
    BY <2>1, <2>2, <2>3, <2>5 DEF GdWriteCrtc11
  <2>6. CASE \E s \in Sources, level \in Bit : Drive(s, level)
    BY <2>1, <2>6 DEF Drive
  <2>7. CASE \E p \in Pin, value \in Pirqs : WritePirq(p, value)
    <3>0. PICK p \in Pin, value \in Pirqs : WritePirq(p, value)
      BY <2>7
    <3> DEFINE irq == PirqRoute(value)
    <3>1. pci' = [ pci EXCEPT !.route[p] = irq ]
      BY <3>0 DEF WritePirq, SetRouting
    <3> HIDE DEF irq
    <3>2. pci \in PciState
      BY DEF Inv, TypeOK
    <3>3. pci'.route[p] = irq
      BY <3>1, <3>2 DEF PciState
    <3>4. pci' = pci
      BY <3>1, <3>2, <3>3 DEF PciState
    <3>5. QED
      BY <3>4
  <2>8. CASE PlatformReset
    BY <2>8 DEF PlatformReset
  <2>9. CASE UNCHANGED pci
    BY <2>9
  <2>10. QED
    BY <2>4, <2>5, <2>6, <2>7, <2>8, <2>9 DEF Next, GdWriteGdc17, Check, Guest
<1>2. QED
  BY <1>1, RoutingInvariant, PTL DEF SharedPinKept, Spec

-----------------------------------------------------------------------------
(* The UARTs                                                               *)

\* What every handler of uart.c leaves behind: the line is active exactly
\* while a cause is pending and OUT2 lets it through, and a byte that waits
\* in a configured UART is announced if the receiver interrupt is enabled.
Settled(u) == u.line = IF WantsIrq(u) THEN 1 ELSE 0

Announced(u) ==
    u.base = 1 /\ u.rxnew = 1 /\ "rx" \in u.ien => "rx" \in u.pend

Sound(u) == u \in UartState(Byte) /\ Settled(u) /\ Announced(u)

\* A request of the IRQs the UARTs use has a UART whose line is active.
UartDriven(p, us, lost) ==
    \A n \in {3, 4} \ lost :
      n \in p["master"].irr => \E x \in Uarts : us[x].irq = n /\ us[x].line = 1

UartInv ==
    /\ UartTypeOK
    /\ \A x \in Uarts : Sound(uart[x])
    /\ UartDriven(pair, uart, orphans)

-----------------------------------------------------------------------------
(* The handlers of uart.c                                                  *)

\* uart_update_interrupt_line changes the line alone, to what it must be.
LEMMA SettleSound ==
    ASSUME NEW u \in UartState(Byte), Announced(u)
    PROVE  Sound(Settle(u)) /\ Settle(u).irq = u.irq
<1>1. 0 \in Bit /\ 1 \in Bit
  BY DEF Bit
<1>2. (IF WantsIrq(u) THEN 1 ELSE 0) \in Bit
  BY <1>1
<1>3. Settle(u) \in UartState(Byte)
  BY <1>2 DEF Settle, UartState
<1>4. /\ Settle(u).line = IF WantsIrq(u) THEN 1 ELSE 0
      /\ Settle(u).pend = u.pend /\ Settle(u).out2 = u.out2
      /\ Settle(u).ien = u.ien /\ Settle(u).rxnew = u.rxnew
      /\ Settle(u).base = u.base /\ Settle(u).irq = u.irq
  BY DEF Settle, UartState
<1> HIDE DEF Announced
<1>5. QED
  BY <1>3, <1>4 DEF Sound, Settled, WantsIrq, Announced

\* A byte that arrives is stored and announced.
LEMMA RxDataSound ==
    ASSUME NEW u, Sound(u), NEW b \in Byte
    PROVE  Sound(RxData(u, b)) /\ RxData(u, b).irq = u.irq
<1> DEFINE w == [ u EXCEPT !.rx = b, !.rxnew = 1,
                           !.pend = @ \cup (u.ien \cap {"rx"}) ]
<1>0. u \in UartState(Byte) /\ 1 \in Bit
  BY DEF Sound, Bit
<1>1. w \in UartState(Byte) /\ w.irq = u.irq
  BY <1>0 DEF UartState
<1>2. Announced(w)
  BY <1>0 DEF Announced, UartState
<1>3. QED
  BY <1>1, <1>2, SettleSound DEF RxData

\* So is a byte that the guest writes in loopback mode.
LEMMA WriteDataSound ==
    ASSUME NEW u, Sound(u), NEW b \in Byte
    PROVE  Sound(WriteData(u, b)) /\ WriteData(u, b).irq = u.irq
<1> DEFINE w == [ u EXCEPT !.pend = @ \cup (u.ien \cap {"tx"}) ]
<1>0. u \in UartState(Byte) /\ Announced(u)
  BY DEF Sound
<1>1. w \in UartState(Byte) /\ w.irq = u.irq
  BY <1>0 DEF UartState
<1>2. Announced(w)
  BY <1>0 DEF Announced, UartState
<1>3. Sound(Settle(w)) /\ Settle(w).irq = u.irq
  BY <1>1, <1>2, SettleSound
<1> HIDE DEF w
<1>4. QED
  BY <1>3, RxDataSound DEF WriteData, w

\* Enabling the receiver interrupt announces a byte that waits.
LEMMA WriteIenSound ==
    ASSUME NEW u, Sound(u), NEW ien \in SUBSET Cause
    PROVE  Sound(WriteIen(u, ien)) /\ WriteIen(u, ien).irq = u.irq
<1> DEFINE ann == IF "rx" \in ien \ u.ien /\ u.rxnew = 1 THEN {"rx"} ELSE {}
           w   == [ u EXCEPT !.ien = ien, !.pend = @ \cup ann ]
<1>0. u \in UartState(Byte) /\ Announced(u)
  BY DEF Sound
<1>1. w \in UartState(Byte) /\ w.irq = u.irq
  BY <1>0 DEF UartState, Cause
<1>2. Announced(w)
  BY <1>0 DEF Announced, UartState
<1>3. Sound(Settle(w)) /\ Settle(w).irq = u.irq
  BY <1>1, <1>2, SettleSound
<1> HIDE DEF w
<1>4. QED
  BY <1>3 DEF WriteIen, w

\* DLAB keeps the line, its causes and the request together,
LEMMA WriteLcrSound ==
    ASSUME NEW u, Sound(u), NEW dlab \in Bit
    PROVE  Sound(WriteLcr(u, dlab)) /\ WriteLcr(u, dlab).irq = u.irq
<1> DEFINE w == WriteLcr(u, dlab)
<1>1. w \in UartState(Byte)
  BY DEF WriteLcr, Sound, UartState
<1>2. /\ w.irq = u.irq /\ w.line = u.line /\ w.pend = u.pend
      /\ w.out2 = u.out2 /\ w.base = u.base /\ w.rxnew = u.rxnew
      /\ w.ien = u.ien
  BY DEF WriteLcr, Sound, UartState
<1> HIDE DEF w
<1>3. QED
  <2>1. Settled(w)
    BY <1>2 DEF Sound, Settled, WantsIrq
  <2>2. Announced(w)
    BY <1>2 DEF Sound, Announced
  <2>3. QED
    BY <1>1, <1>2, <2>1, <2>2 DEF Sound, w

\* Discarding the byte that waits withdraws its announcement.
LEMMA DiscardedSound ==
    ASSUME NEW u, Sound(u)
    PROVE  /\ Discarded(u) \in UartState(Byte) /\ Announced(Discarded(u))
           /\ Discarded(u).irq = u.irq
<1>1. 0 \in Bit
  BY DEF Bit
<1>2. Discarded(u) \in UartState(Byte) /\ Discarded(u).irq = u.irq
  BY <1>1 DEF Discarded, Sound, UartState
<1>3. Discarded(u).rxnew = 0
  BY DEF Discarded, Sound, UartState
<1>4. QED
  BY <1>2, <1>3 DEF Announced

\* and so does the modem control register, a reset of the mouse with it,
LEMMA WriteMcrSound ==
    ASSUME NEW u, Sound(u), NEW out2 \in Bit, NEW loop \in Bit,
           NEW discard \in BOOLEAN
    PROVE  /\ Sound(WriteMcr(u, out2, loop, discard))
           /\ WriteMcr(u, out2, loop, discard).irq = u.irq
<1> DEFINE v == IF discard THEN Discarded(u) ELSE u
           w == [ v EXCEPT !.out2 = out2, !.loop = loop ]
<1>1. v \in UartState(Byte) /\ Announced(v) /\ v.irq = u.irq
  BY DiscardedSound DEF Sound
<1> HIDE DEF v
<1>2. w \in UartState(Byte) /\ w.irq = u.irq
  BY <1>1 DEF UartState
<1>3. Announced(w)
  BY <1>1 DEF Announced, UartState
<1>4. QED
  BY <1>2, <1>3, SettleSound DEF WriteMcr, v

\* and a read of the data.
LEMMA ReadDataSound ==
    ASSUME NEW u, Sound(u)
    PROVE  Sound(ReadData(u)) /\ ReadData(u).irq = u.irq
  BY DiscardedSound, SettleSound DEF ReadData

\* Acknowledging the transmitter leaves the announcement of a byte alone.
LEMMA ReadIirSound ==
    ASSUME NEW u, Sound(u)
    PROVE  Sound(ReadIir(u)) /\ ReadIir(u).irq = u.irq
<1> DEFINE w == [ u EXCEPT !.pend = IF "rx" \in u.pend THEN @ ELSE @ \ {"tx"} ]
<1>0. u \in UartState(Byte) /\ Announced(u)
  BY DEF Sound
<1>1. w \in UartState(Byte) /\ w.irq = u.irq
  BY <1>0 DEF UartState
<1>2. Announced(w)
  BY <1>0 DEF Announced, UartState
<1>3. QED
  BY <1>1, <1>2, SettleSound DEF ReadIir

\* A UART that is removed, and one that is configured, are quiet.
LEMMA RemovedSound ==
    ASSUME NEW u, Sound(u)
    PROVE  /\ Sound(Removed(u)) /\ Removed(u).irq = u.irq
           /\ u.base = 0 => Removed(u) = u
           /\ u.base = 1 => Removed(u).line = 0
<1>1. 0 \in Bit
  BY DEF Bit
<1>2. QED
  BY <1>1 DEF Removed, Sound, Settled, Announced, WantsIrq, UartState, Bit

\* A UART that is configured is quiet.
LEMMA UartAtSound ==
    ASSUME UartAssumption, NEW irq \in {3, 4}, NEW wired \in Bit
    PROVE  /\ Sound(UartAt(irq, wired, NoByte))
           /\ UartAt(irq, wired, NoByte).irq = irq
           /\ UartAt(irq, wired, NoByte).line = 0
<1>1. NoByte \in Byte
  BY DEF NoByte, UartAssumption
<1>2. QED
  BY <1>1 DEF UartAt, Sound, Settled, Announced, WantsIrq, UartState, Bit

-----------------------------------------------------------------------------
(* The line and the controllers                                            *)

\* A change of the line requests or withdraws the UART's own IRQ, and no
\* change touches no other request.
LEMMA LineAfterRequests ==
    ASSUME NEW p \in PicState, NEW u \in UartState(Byte),
           NEW v \in UartState(Byte)
    PROVE  /\ LineAfter(p, u, v) \in PicState
           /\ \A n \in {3, 4} :
                n \in LineAfter(p, u, v)["master"].irr =>
                  IF u.line # v.line /\ n = v.irq THEN v.line = 1
                  ELSE n \in p["master"].irr
<1>1. v.irq \in Line /\ v.irq \in {3, 4} /\ "master" \in Chip
  BY DEF UartState, Line, Chip
<1>2. /\ [ p EXCEPT !["master"].irr = @ \cup {v.irq} ] \in PicState
      /\ [ p EXCEPT !["master"].irr = @ \ {v.irq} ] \in PicState
  BY <1>1 DEF PicState, ChipState
<1>3. CASE u.line = v.line
  BY <1>3 DEF LineAfter
<1>4. CASE u.line # v.line
  BY <1>1, <1>2, <1>4
  DEF LineAfter, SetLevelIrq, DoIrq, ClearIrq, SyncIfSlave, PicState, ChipState
<1>5. QED
  BY <1>3, <1>4

\* A handler that takes one UART from u to v keeps every request driven.
LEMMA LineDriven ==
    ASSUME UartInv, NEW x \in Uarts, NEW v, Sound(v), v.irq = uart[x].irq
    PROVE  /\ LineAfter(pair, uart[x], v) \in PicState
           /\ UartDriven(LineAfter(pair, uart[x], v),
                     [ uart EXCEPT ![x] = v ], orphans)
<1> DEFINE p  == LineAfter(pair, uart[x], v)
           us == [ uart EXCEPT ![x] = v ]
<1>0. /\ pair \in PicState /\ uart \in [Uarts -> UartState(Byte)]
      /\ v \in UartState(Byte) /\ uart[x] \in UartState(Byte)
  BY DEF UartInv, UartTypeOK, Sound
<1>1. /\ p \in PicState
      /\ \A n \in {3, 4} :
           n \in p["master"].irr =>
             IF uart[x].line # v.line /\ n = v.irq THEN v.line = 1
             ELSE n \in pair["master"].irr
  BY <1>0, LineAfterRequests
<1> HIDE DEF p
<1>2. ASSUME NEW n \in {3, 4} \ orphans, n \in p["master"].irr
      PROVE  \E y \in Uarts : us[y].irq = n /\ us[y].line = 1
  <2>1. CASE uart[x].line # v.line /\ n = v.irq
    <3>1. us[x].irq = n /\ us[x].line = 1
      BY <1>0, <1>1, <1>2, <2>1
    <3>2. QED
      BY <3>1
  <2>2. CASE ~ (uart[x].line # v.line /\ n = v.irq)
    <3>1. PICK y \in Uarts : uart[y].irq = n /\ uart[y].line = 1
      BY <1>1, <1>2, <2>2 DEF UartInv, UartDriven
    <3>2. CASE y = x
      BY <1>0, <2>2, <3>1, <3>2
    <3>3. CASE y # x
      BY <1>0, <3>1, <3>3
    <3>4. QED
      BY <3>2, <3>3
  <2>3. QED
    BY <2>1, <2>2
<1>3. QED
  BY <1>1, <1>2 DEF p, UartDriven

-----------------------------------------------------------------------------
(* Steps                                                                   *)

\* A step that hands one UART to a handler.
LEMMA BecomesInv ==
    ASSUME UartInv, NEW x \in Uarts, NEW v, Sound(v), v.irq = uart[x].irq,
           Becomes(x, v)
    PROVE  UartInv'
<1>1. /\ pair' = LineAfter(pair, uart[x], v)
      /\ uart' = [ uart EXCEPT ![x] = v ] /\ orphans' = orphans
  BY DEF Becomes
<1>2. pair' \in PicState /\ UartDriven(pair', uart', orphans')
  BY <1>1, LineDriven
<1>3. /\ uart' \in [Uarts -> UartState(Byte)]
      /\ \A y \in Uarts : Sound(uart'[y])
  BY <1>1 DEF UartInv, UartTypeOK, Sound
<1>4. QED
  BY <1>1, <1>2, <1>3 DEF UartInv, UartTypeOK

\* Every access to a register keeps the invariant,
LEMMA AccessInv ==
    ASSUME UartAssumption, UartInv, NEW x \in Uarts, Access(x)
    PROVE  UartInv'
<1>0. Sound(uart[x])
  BY DEF UartInv
<1>1. ASSUME NEW b \in Byte, Becomes(x, WriteData(uart[x], b))
      PROVE  UartInv'
  BY <1>0, <1>1, WriteDataSound, BecomesInv
<1>2. ASSUME NEW ien \in Enables, Becomes(x, WriteIen(uart[x], ien))
      PROVE  UartInv'
  <2>1. ien \in SUBSET Cause
    BY DEF UartAssumption
  <2>2. QED
    BY <1>0, <1>2, <2>1, WriteIenSound, BecomesInv
<1>3. ASSUME NEW dlab \in Latches, Becomes(x, WriteLcr(uart[x], dlab))
      PROVE  UartInv'
  <2>1. dlab \in Bit
    BY DEF UartAssumption
  <2>2. QED
    BY <1>0, <1>3, <2>1, WriteLcrSound, BecomesInv
<1>4. ASSUME NEW out2 \in Bit, NEW loop \in Bit, NEW discard \in BOOLEAN,
             Becomes(x, WriteMcr(uart[x], out2, loop, discard))
      PROVE  UartInv'
  BY <1>0, <1>4, WriteMcrSound, BecomesInv
<1>5. CASE Becomes(x, ReadData(uart[x]))
  BY <1>0, <1>5, ReadDataSound, BecomesInv
<1>6. CASE Becomes(x, ReadIir(uart[x]))
  BY <1>0, <1>6, ReadIirSound, BecomesInv
<1>7. QED
  BY <1>1, <1>2, <1>3, <1>4, <1>5, <1>6 DEF Access

\* Removing a UART withdraws its request first.
LEMMA RemovedDriven ==
    ASSUME UartInv, NEW x \in Uarts
    PROVE  /\ RemovedPics(x) \in PicState
           /\ UartDriven(RemovedPics(x), [ uart EXCEPT ![x] = Removed(@) ], orphans)
<1>0. Sound(uart[x]) /\ uart[x].base \in Bit /\ pair \in PicState
  BY DEF UartInv, UartTypeOK, Sound, UartState
<1>1. CASE uart[x].base = 1
  BY <1>0, <1>1, RemovedSound, LineDriven DEF RemovedPics
<1>2. CASE uart[x].base = 0
  <2>1. [ uart EXCEPT ![x] = Removed(@) ] = uart
    BY <1>0, <1>2, RemovedSound DEF UartInv, UartTypeOK
  <2>2. QED
    BY <1>0, <1>2, <2>1 DEF RemovedPics, UartInv
<1>3. QED
  BY <1>0, <1>1, <1>2 DEF Bit

\* so does the removal of a UART,
LEMMA DisableInv ==
    ASSUME UartInv, NEW x \in Uarts, Disable(x)
    PROVE  UartInv'
<1>1. pair' \in PicState /\ UartDriven(pair', uart', orphans')
  BY RemovedDriven DEF Disable
<1>2. /\ uart' = [ uart EXCEPT ![x] = Removed(uart[x]) ]
      /\ orphans' = orphans /\ Sound(Removed(uart[x]))
  BY RemovedSound DEF Disable, UartInv
<1>3. /\ uart' \in [Uarts -> UartState(Byte)]
      /\ \A y \in Uarts : Sound(uart'[y])
  BY <1>2 DEF UartInv, UartTypeOK, Sound
<1>4. QED
  BY <1>1, <1>2, <1>3 DEF UartInv, UartTypeOK

\* A UART that is configured anew has no line; a request that only its old
\* self drove is withdrawn, or its IRQ is an orphan from now on.
LEMMA ConfigureInv ==
    ASSUME UartAssumption, UartInv, NEW x \in Uarts, NEW irq \in {3, 4},
           Configure(x, irq)
    PROVE  UartInv'
<1> DEFINE v == UartAt(irq, uart[x].wired, NoByte)
           r == Removed(uart[x])
           us == [ uart EXCEPT ![x] = r ]
<1>0. /\ uart \in [Uarts -> UartState(Byte)] /\ Sound(uart[x])
      /\ uart[x].wired \in Bit /\ uart[x].base \in Bit
      /\ uart[x].line \in Bit /\ uart[x].irq \in {3, 4}
  BY DEF UartInv, UartTypeOK, Sound, UartState
<1>1. Sound(v) /\ v.irq = irq /\ v.line = 0
  BY <1>0, UartAtSound
<1>2. /\ Sound(r) /\ r.irq = uart[x].irq
      /\ uart[x].base = 0 => r = uart[x]
      /\ uart[x].base = 1 => r.line = 0
  BY <1>0, RemovedSound
<1>3. pair' \in PicState /\ UartDriven(pair', us, orphans)
  BY RemovedDriven DEF Configure
<1>4. /\ uart' = [ uart EXCEPT ![x] = v ]
      /\ orphans' = IF uart[x].base = 0 /\ uart[x].line = 1
                    THEN orphans \cup {uart[x].irq} ELSE orphans
  BY DEF Configure
<1> HIDE DEF v, r
<1>5. /\ uart' \in [Uarts -> UartState(Byte)]
      /\ \A y \in Uarts : Sound(uart'[y])
  BY <1>0, <1>1, <1>4 DEF UartInv, Sound
<1>6. orphans' \subseteq {3, 4}
  BY <1>0, <1>4 DEF UartInv, UartTypeOK
<1>7. ASSUME NEW n \in {3, 4} \ orphans', n \in pair'["master"].irr
      PROVE  \E y \in Uarts : uart'[y].irq = n /\ uart'[y].line = 1
  <2>1. n \notin orphans
    BY <1>4, <1>7
  <2>2. PICK y \in Uarts : us[y].irq = n /\ us[y].line = 1
    BY <1>3, <1>7, <2>1 DEF UartDriven
  <2>3. y # x
    <3>1. SUFFICES ASSUME y = x PROVE FALSE
      OBVIOUS
    <3>2. r.irq = n /\ r.line = 1
      BY <1>0, <2>2, <3>1
    <3>3. uart[x].base = 0 /\ uart[x].irq = n /\ uart[x].line = 1
      BY <1>0, <1>2, <3>2 DEF Bit
    <3>4. QED
      BY <1>4, <1>7, <3>3
  <2>4. uart'[y] = us[y]
    BY <1>0, <1>4, <2>3
  <2>5. QED
    BY <2>2, <2>4
<1>8. QED
  BY <1>3, <1>5, <1>6, <1>7 DEF UartInv, UartTypeOK, UartDriven

\* Whatever changes the pair alone requests nothing new.
LEMMA UartPairInv ==
    ASSUME UartInv, pair' \in PicState, NoNewRequest(pair, pair'),
           UNCHANGED <<uart, orphans>>
    PROVE  UartInv'
<1>1. \A n \in {3, 4} : n \in pair'["master"].irr => n \in pair["master"].irr
  BY DEF NoNewRequest, Cascade
<1>2. UartDriven(pair', uart', orphans')
  BY <1>1 DEF UartInv, UartDriven
<1>3. QED
  BY <1>2 DEF UartInv, UartTypeOK

\* and so does every step.
LEMMA UartStepInv ==
    ASSUME UartAssumption, UartInv, [UartNext]_serial
    PROVE  UartInv'
<1>0. pair \in PicState
  BY DEF UartInv, UartTypeOK
<1>1. ASSUME NEW x \in Uarts, Access(x) \/ Disable(x)
      PROVE  UartInv'
  BY <1>1, AccessInv, DisableInv
<1>2. ASSUME NEW x \in Uarts, NEW b \in Byte, Receive(x, b)
      PROVE  UartInv'
  <2>1. Sound(uart[x])
    BY DEF UartInv
  <2>2. QED
    BY <1>2, <2>1, RxDataSound, BecomesInv DEF Receive
<1>3. ASSUME NEW x \in Uarts, NEW irq \in {3, 4}, Configure(x, irq)
      PROVE  UartInv'
  BY <1>3, ConfigureInv
<1>4. CASE UartCheck
  BY <1>0, <1>4, CheckNoNew, UartPairInv DEF UartCheck
<1>5. ASSUME NEW i \in UartWrites, UartGuest(i)
      PROVE  UartInv'
  <2>1. i \in PicWrite
    BY DEF UartAssumption
  <2>2. QED
    BY <1>0, <1>5, <2>1, WriteTyped, WriteNoNew, UartPairInv DEF UartGuest
<1>6. CASE UNCHANGED serial
  BY <1>6 DEF serial, UartInv, UartTypeOK, UartDriven
<1>7. QED
  BY <1>1, <1>2, <1>3, <1>4, <1>5, <1>6 DEF UartNext

\* The UARTs start in the invariant.
LEMMA UartInitInv ==
    ASSUME UartAssumption, UartInit
    PROVE  UartInv
<1>1. pair \in PicState /\ pair["master"].irr = {}
  BY DEF UartInit, PowerOn, PicState, ChipState, Chip, Line, Step, Bit, Offset
<1>2. PICK irq \in [Uarts -> {3, 4}] :
        uart = [ x \in Uarts |->
                   UartAt(irq[x], IF x = Mouse THEN 1 ELSE 0, NoByte) ]
  BY DEF UartInit
<1>3. ASSUME NEW x \in Uarts
      PROVE  Sound(uart[x])
  <2>1. irq[x] \in {3, 4} /\ (IF x = Mouse THEN 1 ELSE 0) \in Bit
    BY <1>2 DEF Bit
  <2>2. QED
    BY <1>2, <2>1, UartAtSound
<1>4. uart \in [Uarts -> UartState(Byte)]
  BY <1>2, <1>3 DEF Sound
<1>5. QED
  BY <1>1, <1>3, <1>4 DEF UartInv, UartTypeOK, UartDriven, UartInit

-----------------------------------------------------------------------------
(* Theorems                                                                *)

\* uart_update_interrupt_line, called by every handler of uart.c, keeps the
\* line, its causes and the request in the controller together.
THEOREM UartInvariant == UartAssumption /\ UartSpec => []UartInv
<1> SUFFICES ASSUME UartAssumption
             PROVE  UartSpec => []UartInv
  OBVIOUS
<1>1. UartInit => UartInv
  BY UartInitInv
<1>2. UartInv /\ [UartNext]_serial => UartInv'
  BY UartStepInv
<1>3. QED
  BY <1>1, <1>2, PTL DEF UartSpec

\* No handler of uart.c takes a register out of its range.
THEOREM UartTypeCorrect == UartAssumption /\ UartSpec => []UartTypeOK
<1>1. UartInv => UartTypeOK
  BY DEF UartInv
<1>2. QED
  BY <1>1, UartInvariant, PTL

\* A byte that waits in a configured UART is announced to a guest that has
\* enabled the receiver interrupt, until it is read.
THEOREM AlwaysAnnounced == UartAssumption /\ UartSpec => []WaitingByteAnnounced
<1>1. UartInv => WaitingByteAnnounced
  <2> SUFFICES ASSUME UartInv, NEW x \in Uarts, uart[x].base = 1,
                        uart[x].rxnew = 1, "rx" \in uart[x].ien
                 PROVE  "rx" \in uart[x].pend /\ uart[x].line = uart[x].out2
    BY DEF WaitingByteAnnounced
  <2>2. Sound(uart[x]) /\ uart[x].out2 \in Bit
    BY DEF UartInv, Sound, UartState
  <2>3. QED
    BY <2>2 DEF Sound, Settled, Announced, WantsIrq, Bit
<1>2. QED
  BY <1>1, UartInvariant, PTL

\* IRQ 3 and 4 are requested only on behalf of a UART that wants service, but
\* for the requests that wiping an active UART leaves behind.
THEOREM NeverUartGhost == UartAssumption /\ UartSpec => []NoUartGhost
<1>1. UartInv => NoUartGhost
  <2> SUFFICES ASSUME UartInv, NEW n \in {3, 4} \ orphans,
                        n \in pair["master"].irr
                 PROVE  \E x \in Uarts : uart[x].irq = n /\ WantsIrq(uart[x])
    BY DEF NoUartGhost
  <2>2. PICK x \in Uarts : uart[x].irq = n /\ uart[x].line = 1
    BY DEF UartInv, UartDriven
  <2>3. Settled(uart[x])
    BY DEF UartInv, Sound
  <2>4. QED
    BY <2>2, <2>3 DEF Settled
<1>2. QED
  BY <1>1, UartInvariant, PTL

\* What the run checks of two UARTs holds of any number of them.
THEOREM UartsAlwaysAnnounce == UartAssumption /\ UartSpec => []UartsAnnounce
  BY UartTypeCorrect, AlwaysAnnounced, NeverUartGhost, PTL DEF UartsAnnounce
=============================================================================
