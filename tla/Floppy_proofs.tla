---------------------------- MODULE Floppy_proofs ----------------------------
(***************************************************************************)
(* The floppy controller always comes back, knows where its heads are, and *)
(* its interrupts have a cause (PositionKnown).                            *)
(*                                                                         *)
(* Between two steps the controller is Sound.  Within a command it is idle *)
(* on the way to its next state (Going): no timer runs, and the command    *)
(* must end in a phase that asks for a byte or start one timer.  There is  *)
(* one lemma for each operator of Fdc; those that only move data keep      *)
(* everything the invariant speaks of but the heads (Alike).               *)
(***************************************************************************)
EXTENDS FloppySystem, TLAPS

Ops     == {"none", "read", "write", "readId", "format"}
Phases  == {"command", "params", "result", "pioRead", "pioWrite", "busy"}
Reasons == {"none", "rw", "recalibrate", "command"}

Fields == { "enabled", "phase", "command", "op", "seekTimer", "rwTimer", "seekPending",
            "seekReason", "fintr", "resetSense", "irr", "pcn", "drive" }

\* HeadKnown, of any state of the controller
Standing(x) ==
    /\ DOMAIN x.pcn = Drives /\ DOMAIN x.drive = Drives
    /\ \A d \in Drives :
         /\ "track" \in DOMAIN x.drive[d]
         /\ \/ x.pcn[d] = x.drive[d].track
            \/ x.pcn[d] >= MaxTrack /\ x.drive[d].track = MaxTrack - 1

Solid(x) ==
    /\ Fields \subseteq DOMAIN x
    /\ x.enabled \in BOOLEAN
    /\ x.phase \in Phases /\ x.op \in Ops /\ x.seekReason \in Reasons
    /\ x.fintr \in {0, 1} /\ x.resetSense \in 0 .. 4
    /\ x.rwTimer \in {0, 1} /\ x.seekTimer \in {0, 1}
    /\ Standing(x)

\* BusyEnds, of any state
Ends(x) ==
    IF x.phase = "busy" /\ x.enabled
    THEN /\ x.rwTimer + x.seekTimer = 1 /\ (x.rwTimer = 1 => x.op # "none")
         /\ (x.seekTimer = 1 => x.seekPending = 1)
    ELSE x.rwTimer + x.seekTimer = 0

\* A read that the guest fetches byte by byte goes on as a read, a seek on
\* behalf of a transfer starts one, and nothing happens in reset.
Sound(x) ==
    /\ Solid(x) /\ Ends(x)
    /\ ~x.enabled => x.phase = "busy"
    /\ x.phase = "params" => Code(x) \in DOMAIN Params
    /\ x.phase = "pioRead" => x.op = "read"
    /\ x.seekTimer = 1 /\ x.seekReason = "rw" => x.op # "none"

Going(x) == Solid(x) /\ x.enabled /\ x.rwTimer = 0 /\ x.seekTimer = 0

\* IrqExplained, of any state; and what is left of it while a result or a
\* byte of a sector is not counted
Explained(x) ==
    x.irr = 1 /\ x.enabled =>
        x.phase \in {"result", "pioRead"} \/ x.fintr = 1 \/ x.resetSense > 0

Told(x) == x.irr = 1 => x.fintr = 1 \/ x.resetSense > 0

\* The command that has reached x ends well in e.
Leads(e, x) == Sound(e) /\ (Told(x) => Explained(e))

Alike(e, x) ==
    /\ DOMAIN e = DOMAIN x
    /\ e.enabled = x.enabled /\ e.phase = x.phase /\ e.command = x.command
    /\ e.op = x.op /\ e.seekTimer = x.seekTimer /\ e.rwTimer = x.rwTimer
    /\ e.seekPending = x.seekPending /\ e.seekReason = x.seekReason
    /\ e.fintr = x.fintr /\ e.resetSense = x.resetSense /\ e.irr = x.irr
    /\ Standing(e)

Inv == Sound(c) /\ (~orphan => Explained(c))

-----------------------------------------------------------------------------
(* What keeps the controller as it is                                      *)

LEMMA AlikeSolid ==
  ASSUME NEW e, NEW x, Solid(x), Alike(e, x)
  PROVE  Solid(e)
  BY DEF Solid, Alike

LEMMA AlikeGoing ==
  ASSUME NEW e, NEW x, Going(x), Alike(e, x)
  PROVE  Going(e)
  BY AlikeSolid DEF Going, Alike

LEMMA AlikeLeads ==
  ASSUME NEW e, NEW f, NEW x, Alike(f, x), Leads(e, f)
  PROVE  Leads(e, x)
  BY DEF Leads, Alike, Told

LEMMA AlikeTwice ==
  ASSUME NEW e, NEW f, NEW x, Alike(e, f), Alike(f, x)
  PROVE  Alike(e, x)
  BY DEF Alike

LEMMA SameAlike ==
  ASSUME NEW x, Solid(x)
  PROVE  Alike(x, x)
  BY DEF Alike, Solid

\* A drive may change all but its cylinder.
LEMMA DriveAlike ==
  ASSUME NEW x, Solid(x), NEW d, NEW y,
         d \in Drives => "track" \in DOMAIN y /\ y.track = x.drive[d].track
  PROVE  Alike([ x EXCEPT !.drive = [ x.drive EXCEPT ![d] = y ] ], x)
  <1> DEFINE f == [ x.drive EXCEPT ![d] = y ]
             e == [ x EXCEPT !.drive = f ]
  <1> SUFFICES Alike(e, x)
    OBVIOUS
  <1>1. /\ DOMAIN e = DOMAIN x
        /\ e.enabled = x.enabled /\ e.phase = x.phase /\ e.command = x.command
        /\ e.op = x.op /\ e.seekTimer = x.seekTimer /\ e.rwTimer = x.rwTimer
        /\ e.seekPending = x.seekPending /\ e.seekReason = x.seekReason
        /\ e.fintr = x.fintr /\ e.resetSense = x.resetSense /\ e.irr = x.irr
        /\ e.pcn = x.pcn /\ e.drive = f
    <2> HIDE DEF f
    <2> QED BY DEF Solid, Fields
  <1>2. DOMAIN x.drive = Drives
    BY DEF Solid, Standing
  <1>3. DOMAIN f = Drives /\ \A z \in Drives : f[z] = IF z = d THEN y ELSE x.drive[z]
    BY <1>2
  <1>4. Standing(e)
    <2> HIDE DEF e, f
    <2>1. \A z \in Drives : "track" \in DOMAIN f[z] /\ f[z].track = x.drive[z].track
      BY <1>3 DEF Solid, Standing
    <2> QED BY <1>1, <1>3, <2>1 DEF Solid, Standing
  <1> HIDE DEF e, f
  <1> QED BY <1>1, <1>4 DEF Alike

LEMMA UsedAlike ==
  ASSUME NEW x, Solid(x), NEW d
  PROVE  Alike([ x EXCEPT !.drive[d] = Used(@) ], x)
  <1>1. d \in Drives => /\ "track" \in DOMAIN Used(x.drive[d])
                        /\ Used(x.drive[d]).track = x.drive[d].track
    BY DEF Used, Solid, Standing
  <1> QED BY <1>1, DriveAlike

LEMMA HeadAlike ==
  ASSUME NEW x, Solid(x), NEW d, NEW h
  PROVE  Alike([ x EXCEPT !.drive[d].head = h ], x)
  <1>1. d \in Drives => /\ "track" \in DOMAIN [ x.drive[d] EXCEPT !.head = h ]
                        /\ [ x.drive[d] EXCEPT !.head = h ].track = x.drive[d].track
    BY DEF Solid, Standing
  <1> QED BY <1>1, DriveAlike

\* A drive is sent to a cylinder, and the controller takes it to be there.
LEMMA SeekAlike ==
  ASSUME NEW x, Solid(x), NEW d, NEW t, NEW y,
         d \in Drives => "track" \in DOMAIN y
  PROVE  Alike([ x EXCEPT !.drive = [ x.drive EXCEPT ![d] = Seek(y, DrivePresent(d), t) ],
                          !.pcn = [ x.pcn EXCEPT ![d] = t ] ], x)
  <1> DEFINE z == Seek(y, DrivePresent(d), t)
             f == [ x.drive EXCEPT ![d] = z ]
             g == [ x.pcn EXCEPT ![d] = t ]
             e == [ x EXCEPT !.drive = f, !.pcn = g ]
  <1> SUFFICES Alike(e, x)
    OBVIOUS
  <1>1. /\ DOMAIN e = DOMAIN x
        /\ e.enabled = x.enabled /\ e.phase = x.phase /\ e.command = x.command
        /\ e.op = x.op /\ e.seekTimer = x.seekTimer /\ e.rwTimer = x.rwTimer
        /\ e.seekPending = x.seekPending /\ e.seekReason = x.seekReason
        /\ e.fintr = x.fintr /\ e.resetSense = x.resetSense /\ e.irr = x.irr
        /\ e.pcn = g /\ e.drive = f
    <2> HIDE DEF f, g
    <2> QED BY DEF Solid, Fields
  <1>2. DOMAIN x.drive = Drives /\ DOMAIN x.pcn = Drives
    BY DEF Solid, Standing
  <1>3. DOMAIN f = Drives /\ \A w \in Drives : f[w] = IF w = d THEN z ELSE x.drive[w]
    <2> HIDE DEF z
    <2> QED BY <1>2
  <1>4. DOMAIN g = Drives /\ \A w \in Drives : g[w] = IF w = d THEN t ELSE x.pcn[w]
    BY <1>2
  <1>5. d \in Drives => /\ "track" \in DOMAIN z
                        /\ z.track = t \/ (t >= MaxTrack /\ z.track = MaxTrack - 1)
    BY DEF Seek
  <1>6. Standing(e)
    <2> HIDE DEF e, f, g, z
    <2> QED BY <1>1, <1>3, <1>4, <1>5 DEF Solid, Standing
  <1> HIDE DEF e, f, g, z
  <1> QED BY <1>1, <1>6 DEF Alike

\* What a transfer changes besides leaves the heads alone.
Plain(e, x) ==
    /\ DOMAIN e = DOMAIN x
    /\ e.enabled = x.enabled /\ e.phase = x.phase /\ e.command = x.command
    /\ e.op = x.op /\ e.seekTimer = x.seekTimer /\ e.rwTimer = x.rwTimer
    /\ e.seekPending = x.seekPending /\ e.seekReason = x.seekReason
    /\ e.fintr = x.fintr /\ e.resetSense = x.resetSense /\ e.irr = x.irr
    /\ e.pcn = x.pcn /\ e.drive = x.drive

LEMMA PlainAlike ==
  ASSUME NEW e, NEW x, Solid(x), Plain(e, x)
  PROVE  Alike(e, x)
  BY DEF Plain, Alike, Solid, Standing

LEMMA NextAlike ==
  ASSUME NEW x, Solid(x)
  PROVE  Alike(NextSector(x), x)
  <1> DEFINE d == x.rwDrive
             track == (x.cur.c + 1) % 256
             e1 == [ x EXCEPT !.cur.r = (@ + 1) % 256 ]
             e2 == [ x EXCEPT !.cur.h = 1, !.cur.r = 1 ]
             e3 == [ x EXCEPT !.cur.h = 0, !.cur.r = 1, !.cur.c = track ]
             s2 == [ e2 EXCEPT !.drive[d].head = 1 ]
             s3 == [ e3 EXCEPT !.pcn[d] = track,
                               !.drive[d] = Seek([ @ EXCEPT !.head = 0 ],
                                                 DrivePresent(d), track) ]
  <1>1. Plain(e1, x) /\ Plain(e2, x) /\ Plain(e3, x)
    BY DEF Plain, Solid, Fields
  <1>2. NextSector(x) \in {e1, s2, s3}
    <2> DEFINE q2 == [ x EXCEPT !.cur.h = 1, !.cur.r = 1, !.drive[d].head = 1 ]
               q3 == [ x EXCEPT !.cur.h = 0, !.cur.r = 1, !.cur.c = track,
                                !.pcn[d] = track,
                                !.drive[d] = Seek([ @ EXCEPT !.head = 0 ],
                                                  DrivePresent(d), track) ]
    <2>1. NextSector(x) \in {e1, q2, q3}
      BY Zenon DEF NextSector
    <2>2. q2 = s2
      OBVIOUS
    <2>3. q3 = s3
      OBVIOUS
    <2> HIDE DEF e1, q2, q3, s2, s3
    <2> QED BY <2>1, <2>2, <2>3
  <1>3. Alike(s2, x)
    <2>1. Alike(s2, e2)
      <3> HIDE DEF e2
      <3> QED BY <1>1, PlainAlike, AlikeSolid, HeadAlike
    <2> HIDE DEF e2, s2
    <2> QED BY <1>1, <2>1, PlainAlike, AlikeTwice
  <1>4. Alike(s3, x)
    <2> DEFINE y == [ e3.drive[d] EXCEPT !.head = 0 ]
    <2>1. Solid(e3)
      <3> HIDE DEF e3
      <3> QED BY <1>1, PlainAlike, AlikeSolid
    <2>2. d \in Drives => "track" \in DOMAIN y
      <3> HIDE DEF e3, d
      <3> QED BY <2>1 DEF Solid, Standing
    <2>3. Alike(s3, e3)
      <3> DEFINE q == [ e3 EXCEPT !.drive = [ e3.drive EXCEPT ![d] =
                                                Seek(y, DrivePresent(d), track) ],
                                  !.pcn = [ e3.pcn EXCEPT ![d] = track ] ]
      <3>1. Alike(q, e3)
        <4> HIDE DEF e3, d, track, y
        <4> QED BY <2>1, <2>2, SeekAlike
      <3>2. q = s3
        <4> HIDE DEF e3, d, track
        <4> QED OBVIOUS
      <3> QED BY <3>1, <3>2, Zenon
    <2> HIDE DEF e3, s3
    <2> QED BY <1>1, <2>3, PlainAlike, AlikeTwice
  <1> HIDE DEF e1, e2, e3, s2, s3
  <1> QED BY <1>1, <1>2, <1>3, <1>4, PlainAlike

-----------------------------------------------------------------------------
(* The ends of a command                                                   *)

\* The controller asks for a byte, and nothing else is under way.
Rests(e, x) ==
    /\ DOMAIN e = DOMAIN x
    /\ e.enabled = x.enabled /\ e.command = x.command
    /\ e.rwTimer = 0 /\ e.seekTimer = 0
    /\ e.pcn = x.pcn /\ e.drive = x.drive
    /\ e.seekReason = x.seekReason /\ e.fintr = x.fintr /\ e.resetSense = x.resetSense

LEMMA ResultLeads ==
  ASSUME NEW x, Going(x), NEW bytes
  PROVE  Leads(Result(x, bytes), x)
  <1> DEFINE e == Result(x, bytes)
  <1>1. /\ Rests(e, x) /\ e.phase = "result" /\ e.op = x.op /\ e.irr = x.irr
    BY DEF Result, Rests, Going, Solid, Fields
  <1> HIDE DEF e
  <1>2. Solid(e)
    BY <1>1 DEF Rests, Going, Solid, Standing, Phases
  <1>3. Sound(e) /\ Explained(e)
    BY <1>1, <1>2 DEF Rests, Going, Sound, Ends, Explained
  <1> QED BY <1>3 DEF Leads, e

LEMMA Result7Leads ==
  ASSUME NEW x, Going(x), NEW st0, NEW st1
  PROVE  Sound(Result7(x, st0, st1)) /\ Explained(Result7(x, st0, st1))
  <1> DEFINE e == Result7(x, st0, st1)
  <1>1. /\ Rests(e, x) /\ e.phase = "result" /\ e.op = x.op
    BY DEF Result7, Raise, Result, Rests, Going, Solid, Fields
  <1> HIDE DEF e
  <1>2. Solid(e)
    BY <1>1 DEF Rests, Going, Solid, Standing, Phases
  <1>3. Sound(e) /\ Explained(e)
    BY <1>1, <1>2 DEF Rests, Going, Sound, Ends, Explained
  <1> QED BY <1>3 DEF e

LEMMA ErrorLeads ==
  ASSUME NEW x, Going(x), NEW fault
  PROVE  Leads(ErrorRw(x, fault), x)
  <1> DEFINE f == [ x EXCEPT !.rwTimer = 0, !.op = "none",
                       !.lastId = [ c |-> x.cur.c, h |-> x.cur.h, r |-> x.cur.r,
                                    n |-> x.cur.n ] ]
  <1>1. Going(f)
    BY DEF Going, Solid, Fields, Standing, Ops
  <1>2. \E st0, st1 : ErrorRw(x, fault) = Result7(f, st0, st1)
    BY Zenon DEF ErrorRw
  <1> HIDE DEF f
  <1> QED BY <1>1, <1>2, Result7Leads DEF Leads

LEMMA SuccessLeads ==
  ASSUME NEW x, Going(x)
  PROVE  Leads(SuccessRw(x), x)
  <1> DEFINE f == [ x EXCEPT !.rwTimer = 0, !.op = "none" ]
  <1>1. Going(f)
    BY DEF Going, Solid, Fields, Standing, Ops
  <1>2. \E st0, st1 : SuccessRw(x) = Result7(f, st0, st1)
    BY Zenon DEF SuccessRw
  <1> HIDE DEF f
  <1> QED BY <1>1, <1>2, Result7Leads DEF Leads

LEMMA AfterLeads ==
  ASSUME NEW x, Going(x), x.op # "none"
  PROVE  Leads(AfterSector(x), x)
  <1> DEFINE f == NextSector(x)
             e == [ f EXCEPT !.phase = "busy", !.rwTimer = 1 ]
  <1>1. Alike(f, x)
    BY NextAlike DEF Going
  <1>2. Leads(e, x)
    <2> HIDE DEF f
    <2>1. Solid(f)
      BY <1>1, AlikeSolid DEF Going
    <2>2. /\ DOMAIN e = DOMAIN f /\ e.enabled = f.enabled /\ e.phase = "busy"
          /\ e.command = f.command /\ e.op = f.op /\ e.seekTimer = f.seekTimer
          /\ e.rwTimer = 1 /\ e.pcn = f.pcn /\ e.drive = f.drive
          /\ e.seekReason = f.seekReason /\ e.fintr = f.fintr /\ e.irr = f.irr
          /\ e.resetSense = f.resetSense
      BY <2>1 DEF Solid, Fields
    <2> HIDE DEF e
    <2>3. Solid(e)
      BY <2>1, <2>2 DEF Solid, Standing, Phases
    <2>4. Sound(e)
      BY <1>1, <2>2, <2>3 DEF Sound, Ends, Going, Alike
    <2>5. Told(x) => Explained(e)
      BY <1>1, <2>2 DEF Told, Explained, Alike
    <2> QED BY <2>4, <2>5 DEF Leads
  <1>3. AfterSector(x) \in {SuccessRw(x), e}
    BY Zenon DEF AfterSector
  <1> HIDE DEF e
  <1> QED BY <1>2, <1>3, SuccessLeads

-----------------------------------------------------------------------------
(* Transfers                                                               *)

\* Going on from a state that is alike is as good.
LEMMA AfterAlike ==
  ASSUME NEW x, Going(x), NEW f, Alike(f, x), x.op # "none"
  PROVE  Leads(AfterSector(f), x)
  <1>1. Going(f) /\ f.op # "none"
    BY AlikeGoing DEF Alike
  <1> QED BY <1>1, AfterLeads, AlikeLeads

LEMMA ReadAlike ==
  ASSUME NEW x, Solid(x)
  PROVE  Alike(ReadSector(x), x)
  <1> DEFINE f == [ x EXCEPT !.buf = Sector(x, Rw(x).image, Here(x)), !.lastId = Here(x) ]
             e == [ f EXCEPT !.drive[x.rwDrive] = Used(@) ]
  <1>1. Plain(f, x)
    BY DEF Plain, Solid, Fields
  <1>2. ReadSector(x) = e
    BY DEF ReadSector
  <1>3. Alike(e, f)
    <2> HIDE DEF f
    <2> QED BY <1>1, PlainAlike, AlikeSolid, UsedAlike
  <1> HIDE DEF f, e
  <1> QED BY <1>1, <1>2, <1>3, PlainAlike, AlikeTwice

LEMMA PutPlain ==
  ASSUME NEW x, Solid(x), NEW chs, NEW bytes
  PROVE  Plain(Put(x, chs, bytes), x)
  <1> DEFINE f == [ x.file EXCEPT ![Rw(x).image.id] =
                      [ i \in DOMAIN @ \cup {Index(Rw(x).image, chs)} |->
                          IF i = Index(Rw(x).image, chs) THEN bytes ELSE @[i] ] ]
  <1>1. Put(x, chs, bytes) = [ x EXCEPT !.file = f, !.lastId = chs ]
    BY DEF Put
  <1> HIDE DEF f
  <1> QED BY <1>1 DEF Plain, Solid, Fields

LEMMA FormattedPlain ==
  ASSUME NEW x, Solid(x), NEW ids
  PROVE  Plain(Formatted(x, ids), x)
  <1> DEFINE at == { Index(Rw(x).image, id) : id \in ids }
             f == [ x.file EXCEPT ![Rw(x).image.id] = [ i \in DOMAIN @ \cup at |->
                      IF i \in at THEN [ k \in 1 .. Bytes(x.cur.n) |-> x.fmt.fill ]
                      ELSE @[i] ] ]
  <1>1. Formatted(x, ids) = [ x EXCEPT !.file = f ]
    BY DEF Formatted
  <1> HIDE DEF f
  <1> QED BY <1>1 DEF Plain, Solid, Fields

LEMMA WriteLeads ==
  ASSUME NEW x, Going(x), x.op # "none"
  PROVE  Leads(WriteSector(x), x)
  <1> DEFINE p == Put(x, Here(x), x.buf)
             e == [ p EXCEPT !.drive[x.rwDrive] = Used(@) ]
  <1>1. Alike(p, x)
    <2> Solid(x)
      BY DEF Going
    <2> HIDE DEF p
    <2> QED BY PutPlain, PlainAlike DEF p
  <1>2. Alike(e, x)
    <2> HIDE DEF p
    <2>1. Alike(e, p)
      BY <1>1, AlikeSolid, UsedAlike DEF Going
    <2> HIDE DEF e
    <2> QED BY <1>1, <2>1, AlikeTwice
  <1>3. \/ \E fault : WriteSector(x) = ErrorRw(x, fault)
        \/ WriteSector(x) = AfterSector(e)
    BY Zenon DEF WriteSector
  <1> HIDE DEF e
  <1> QED BY <1>2, <1>3, ErrorLeads, AfterAlike

LEMMA FormatLeads ==
  ASSUME NEW x, Going(x)
  PROVE  Leads(FormatTrack(x), x)
  <1> DEFINE n   == x.fmt.count
             bad == { i \in 1 .. n : ~Fits(x, IdAt(x.buf, i)) }
             ids == { IdAt(x.buf, i) : i \in { k \in 1 .. n : \A b \in bad : k < b } }
             f   == Formatted(x, ids)
             g   == [ f EXCEPT !.lastId = IdAt(x.buf, n) ]
             e   == [ g EXCEPT !.drive[x.rwDrive] = Used(@) ]
  <1>1. Solid(x)
    BY DEF Going
  <1>2. Alike(f, x)
    <2> HIDE DEF ids
    <2> QED BY <1>1, FormattedPlain, PlainAlike
  <1>3. Alike(g, x)
    <2> HIDE DEF f
    <2>1. Solid(f)
      BY <1>1, <1>2, AlikeSolid
    <2>2. Plain(g, f)
      BY <2>1 DEF Plain, Solid, Fields
    <2> HIDE DEF g
    <2> QED BY <1>2, <2>1, <2>2, PlainAlike, AlikeTwice
  <1>4. Alike(e, x)
    <2> HIDE DEF g
    <2>1. Alike(e, g)
      BY <1>1, <1>3, AlikeSolid, UsedAlike
    <2> HIDE DEF e
    <2> QED BY <1>3, <2>1, AlikeTwice
  <1>5. \/ \E fault : FormatTrack(x) = ErrorRw(x, fault)
        \/ FormatTrack(x) = ErrorRw(f, "no sector")
        \/ FormatTrack(x) = SuccessRw(e)
    <2> DEFINE q == [ f EXCEPT !.lastId = IdAt(x.buf, n), !.drive[x.rwDrive] = Used(@) ]
    <2>1. q = e
      <3> HIDE DEF f
      <3> QED OBVIOUS
    <2>2. \/ \E fault : FormatTrack(x) = ErrorRw(x, fault)
          \/ FormatTrack(x) = ErrorRw(f, "no sector")
          \/ FormatTrack(x) = SuccessRw(q)
      BY Zenon DEF FormatTrack
    <2> HIDE DEF e, q, f
    <2> QED BY <2>1, <2>2
  <1> HIDE DEF e, f
  <1>6. Leads(ErrorRw(f, "no sector"), x)
    BY <1>2, AlikeGoing, ErrorLeads, AlikeLeads
  <1>7. Leads(SuccessRw(e), x)
    BY <1>4, AlikeGoing, SuccessLeads, AlikeLeads
  <1> QED BY <1>5, <1>6, <1>7, ErrorLeads

LEMMA FromDmaAlike ==
  ASSUME NEW x, Going(x), NEW n
  PROVE  Alike(FromDma(x, n), x)
  <1>1. Solid(x)
    BY DEF Going
  <1>2. Plain(FromDma(x, n), x)
    BY <1>1 DEF FromDma, Plain, Solid, Fields
  <1> QED BY <1>1, <1>2, PlainAlike

LEMMA FromPortLeads ==
  ASSUME NEW x, Going(x), NEW n
  PROVE  Leads(FromPort(x, n), x)
  <1> DEFINE e == FromPort(x, n)
  <1>1. Rests(e, x) /\ e.phase = "pioWrite" /\ e.op = x.op /\ e.irr = x.irr
    BY DEF FromPort, Rests, Going, Solid, Fields
  <1> HIDE DEF e
  <1>2. Solid(e)
    BY <1>1 DEF Rests, Going, Solid, Standing, Phases
  <1>3. Sound(e)
    BY <1>1, <1>2 DEF Rests, Going, Sound, Ends
  <1>4. Told(x) => Explained(e)
    BY <1>1 DEF Rests, Told, Explained
  <1> QED BY <1>3, <1>4 DEF Leads, e

LEMMA RwReadLeads ==
  ASSUME NEW x, Going(x), x.op = "read"
  PROVE  Leads(RwRead(x), x)
  <1> DEFINE r == ReadSector(x)
             m == WriteMemory(x.dma, x.mem, DmaChannel, r.buf)
             f == [ r EXCEPT !.dma = m.dma, !.mem = m.mem ]
             e == Raise([ r EXCEPT !.len = Len(r.buf), !.pos = 0, !.phase = "pioRead" ])
  <1>1. Alike(r, x) /\ Solid(x)
    BY ReadAlike DEF Going
  <1>2. Solid(r)
    <2> HIDE DEF r
    <2> QED BY <1>1, AlikeSolid
  <1>3. Alike(f, x)
    <2> HIDE DEF r, m
    <2>1. Plain(f, r)
      BY <1>2 DEF Plain, Solid, Fields
    <2> HIDE DEF f
    <2> QED BY <1>1, <1>2, <2>1, PlainAlike, AlikeTwice
  <1>4. Leads(e, x)
    <2> HIDE DEF r
    <2>1. Rests(e, r) /\ e.phase = "pioRead" /\ e.op = r.op
      BY <1>1, <1>2 DEF Raise, Rests, Going, Alike, Solid, Fields
    <2> HIDE DEF e
    <2>2. Solid(e)
      BY <1>2, <2>1 DEF Rests, Solid, Standing, Phases
    <2> QED BY <1>1, <2>1, <2>2 DEF Rests, Going, Alike, Sound, Ends, Leads, Explained
  <1>5. \/ \E fault : RwRead(x) = ErrorRw(x, fault)
        \/ RwRead(x) = AfterSector(f)
        \/ RwRead(x) = e
    BY Zenon DEF RwRead
  <1> HIDE DEF e, f
  <1> QED BY <1>3, <1>4, <1>5, ErrorLeads, AfterAlike

LEMMA RwWriteLeads ==
  ASSUME NEW x, Going(x), x.op = "write"
  PROVE  Leads(RwWrite(x), x)
  <1> DEFINE n == SectorBytes(x.cur.n)
             f == FromDma(x, n)
  <1>1. Alike(f, x)
    BY FromDmaAlike
  <1>2. Leads(WriteSector(f), x)
    <2> HIDE DEF f
    <2>1. Going(f) /\ f.op # "none"
      BY <1>1, AlikeGoing DEF Alike
    <2> QED BY <1>1, <2>1, WriteLeads, AlikeLeads
  <1>3. Leads(FromPort(x, n), x)
    BY FromPortLeads
  <1> QED BY <1>2, <1>3 DEF RwWrite

LEMMA RwFormatLeads ==
  ASSUME NEW x, Going(x)
  PROVE  Leads(RwFormat(x), x)
  <1> DEFINE n == 4 * x.fmt.count
             f == FromDma(x, n)
  <1>1. Alike(f, x)
    BY FromDmaAlike
  <1>2. Leads(FormatTrack(f), x)
    <2> HIDE DEF f
    <2> QED BY <1>1, AlikeGoing, FormatLeads, AlikeLeads
  <1>3. RwFormat(x) \in {ErrorRw(x, "no sector"), FormatTrack(f), FromPort(x, n)}
    BY Zenon DEF RwFormat
  <1>4. Leads(FromPort(x, n), x) /\ Leads(ErrorRw(x, "no sector"), x)
    BY FromPortLeads, ErrorLeads
  <1> QED BY <1>2, <1>3, <1>4

LEMMA ReadIdLeads ==
  ASSUME NEW x, Going(x)
  PROVE  Leads(RwReadId(x), x)
  <1> DEFINE d == x.rwDrive
             f == [ x EXCEPT !.lastId = AddressAt(Rw(x), x.pcn[d], x.cur.h, x.readId[d]),
                             !.readId[d] = (@ + 1) % 256 ]
             e == [ f EXCEPT !.drive[d] = Used(@) ]
  <1>1. Solid(x)
    BY DEF Going
  <1>2. Plain(f, x)
    BY <1>1 DEF Plain, Solid, Fields
  <1>3. Alike(e, x)
    <2> HIDE DEF f
    <2>1. Alike(f, x) /\ Solid(f)
      BY <1>1, <1>2, PlainAlike, AlikeSolid
    <2>2. Alike(e, f)
      BY <2>1, UsedAlike
    <2> HIDE DEF e
    <2> QED BY <2>1, <2>2, AlikeTwice
  <1>4. \/ \E fault : RwReadId(x) = ErrorRw(x, fault)
        \/ RwReadId(x) = SuccessRw(e)
    BY DEF RwReadId
  <1> HIDE DEF e
  <1>5. Leads(SuccessRw(e), x)
    BY <1>3, AlikeGoing, SuccessLeads, AlikeLeads
  <1> QED BY <1>4, <1>5, ErrorLeads

-----------------------------------------------------------------------------
(* Timers                                                                  *)

\* The end of a step between two bytes or timers.
Steps(e, x) == Sound(e) /\ (Explained(x) => Explained(e))

\* A controller that works has nothing else to tell.
LEMMA LeadsSteps ==
  ASSUME NEW e, NEW x, x.enabled, x.phase \notin {"result", "pioRead"}, Leads(e, x)
  PROVE  Steps(e, x)
  BY DEF Leads, Steps, Told, Explained

LEMMA RwTimerSteps ==
  ASSUME NEW x, Sound(x), x.rwTimer = 1
  PROVE  Steps(RwTimer(x), x)
  <1> DEFINE t == [ x EXCEPT !.rwTimer = 0 ]
  <1>1. x.phase = "busy" /\ x.enabled /\ x.op # "none" /\ x.seekTimer = 0
    BY DEF Sound, Ends, Solid
  <1>2. Going(t) /\ t.op = x.op /\ (Told(t) <=> Told(x))
    BY <1>1 DEF Going, Sound, Solid, Fields, Standing, Told
  <1>3. x.op \in {"read", "write", "readId", "format"}
    BY <1>1 DEF Sound, Solid, Ops
  <1>4. RwTimer(x) = CASE x.op = "read"   -> RwRead(t)
                       [] x.op = "write"  -> RwWrite(t)
                       [] x.op = "readId" -> RwReadId(t)
                       [] x.op = "format" -> RwFormat(t)
                       [] x.op = "none"   -> t
    BY DEF RwTimer
  <1> HIDE DEF t
  <1>5. Leads(RwTimer(x), t)
    <2>1. CASE x.op = "read"
      BY <1>2, <1>4, <2>1, RwReadLeads
    <2>2. CASE x.op = "write"
      BY <1>2, <1>4, <2>2, RwWriteLeads
    <2>3. CASE x.op = "readId"
      BY <1>2, <1>4, <2>3, ReadIdLeads
    <2>4. CASE x.op = "format"
      BY <1>2, <1>4, <2>4, RwFormatLeads
    <2> QED BY <1>3, <2>1, <2>2, <2>3, <2>4
  <1>6. Leads(RwTimer(x), x)
    BY <1>2, <1>5 DEF Leads
  <1> QED BY <1>1, <1>6, LeadsSteps

LEMMA EnterLeads ==
  ASSUME NEW x, Solid(x), x.rwTimer = 0, x.seekTimer = 0
  PROVE  Leads(EnterCommand(x), x)
  <1> DEFINE e == EnterCommand(x)
  <1>1. /\ DOMAIN e = DOMAIN x /\ e.enabled = x.enabled /\ e.op = x.op
        /\ e.phase = IF x.enabled THEN "command" ELSE "busy"
        /\ e.rwTimer = 0 /\ e.seekTimer = 0 /\ e.pcn = x.pcn /\ e.drive = x.drive
        /\ e.seekReason = x.seekReason /\ e.fintr = x.fintr /\ e.irr = x.irr
        /\ e.resetSense = x.resetSense
    BY DEF EnterCommand, Solid, Fields
  <1> HIDE DEF e
  <1>2. Solid(e)
    BY <1>1 DEF Solid, Standing, Phases
  <1>3. Sound(e)
    BY <1>1, <1>2 DEF Sound, Ends, Solid
  <1>4. Told(x) => Explained(e)
    BY <1>1 DEF Told, Explained
  <1> QED BY <1>3, <1>4 DEF Leads, e

LEMMA InterruptLeads ==
  ASSUME NEW x, Going(x), NEW d, NEW st0
  PROVE  Leads(SeekInterrupt(x, d, st0), x)
  <1> DEFINE f == Raise([ x EXCEPT !.selected = d, !.st0 = st0, !.fintr = 1 ])
  <1>1. Solid(f) /\ f.rwTimer = 0 /\ f.seekTimer = 0 /\ Told(f)
    BY DEF Raise, Going, Solid, Fields, Standing, Told
  <1>2. SeekInterrupt(x, d, st0) = EnterCommand(f)
    BY DEF SeekInterrupt
  <1> HIDE DEF f
  <1> QED BY <1>1, <1>2, EnterLeads DEF Leads

\* A timer is started.
LEMMA RwStarts ==
  ASSUME NEW x, Going(x), x.op # "none"
  PROVE  Leads([ x EXCEPT !.phase = "busy", !.rwTimer = 1 ], x)
  <1> DEFINE e == [ x EXCEPT !.phase = "busy", !.rwTimer = 1 ]
  <1>1. /\ DOMAIN e = DOMAIN x /\ e.enabled = x.enabled /\ e.phase = "busy"
        /\ e.op = x.op /\ e.seekTimer = 0 /\ e.rwTimer = 1
        /\ e.pcn = x.pcn /\ e.drive = x.drive /\ e.seekReason = x.seekReason
        /\ e.fintr = x.fintr /\ e.irr = x.irr /\ e.resetSense = x.resetSense
    BY DEF Going, Solid, Fields
  <1> HIDE DEF e
  <1>2. Solid(e)
    BY <1>1 DEF Going, Solid, Standing, Phases
  <1>3. Sound(e)
    BY <1>1, <1>2 DEF Going, Sound, Ends
  <1>4. Told(x) => Explained(e)
    BY <1>1 DEF Told, Explained
  <1> QED BY <1>3, <1>4 DEF Leads, e

LEMMA SeekTimerSteps ==
  ASSUME NEW x, Sound(x), x.seekTimer = 1
  PROVE  Steps(SeekTimer(x), x)
  <1> DEFINE d  == x.seekDrive
             at == x.drive[d].track
             t  == CASE at < x.seekTarget -> at + 1
                     [] at > x.seekTarget -> at - 1
                     [] at = x.seekTarget -> at
             s  == [ x EXCEPT !.drive[d] = Seek(@, DrivePresent(d), t), !.pcn[d] = t ]
             e  == [ s EXCEPT !.seekPending = 0, !.seekTimer = 0, !.seekReason = "none" ]
  <1>1. /\ x.phase = "busy" /\ x.enabled /\ x.rwTimer = 0 /\ x.seekPending = 1
        /\ x.seekReason = "rw" => x.op # "none"
        /\ Solid(x)
    BY DEF Sound, Ends, Solid
  <1>2. Alike(s, x)
    <2>1. d \in Drives => "track" \in DOMAIN x.drive[d]
      BY <1>1 DEF Solid, Standing
    <2> DEFINE q == [ x EXCEPT !.drive = [ x.drive EXCEPT ![d] =
                                             Seek(x.drive[d], DrivePresent(d), t) ],
                               !.pcn = [ x.pcn EXCEPT ![d] = t ] ]
    <2>2. Alike(q, x)
      <3> HIDE DEF t, d
      <3> QED BY <1>1, <2>1, SeekAlike
    <2>3. s = q
      <3> HIDE DEF t, d
      <3> QED OBVIOUS
    <2> HIDE DEF q, s
    <2> QED BY <2>2, <2>3
  <1> HIDE DEF t
  <1>3. Solid(s) /\ s.seekPending = 1 /\ s.phase = "busy" /\ s.enabled
    <2> HIDE DEF s
    <2> QED BY <1>1, <1>2, AlikeSolid DEF Alike
  <1>4. Sound(s) /\ (Told(x) => Told(s))
    <2> HIDE DEF s
    <2> QED BY <1>1, <1>2, <1>3 DEF Alike, Sound, Ends, Told
  <1>5. Leads(s, x)
    <2> HIDE DEF s
    <2> QED BY <1>4 DEF Leads, Told, Explained
  <1>6. Going(e) /\ e.op = x.op /\ (Told(x) => Told(e))
    <2> HIDE DEF s
    <2>1. /\ DOMAIN e = DOMAIN s /\ e.enabled = s.enabled /\ e.phase = s.phase
          /\ e.op = s.op /\ e.seekTimer = 0 /\ e.rwTimer = s.rwTimer
          /\ e.pcn = s.pcn /\ e.drive = s.drive /\ e.seekReason = "none"
          /\ e.fintr = s.fintr /\ e.irr = s.irr /\ e.resetSense = s.resetSense
      BY <1>3 DEF Solid, Fields
    <2> HIDE DEF e
    <2>2. Solid(e)
      BY <1>3, <2>1 DEF Solid, Standing, Reasons
    <2> QED BY <1>1, <1>2, <1>4, <2>1, <2>2 DEF Alike, Going, Told
  <1>7. \/ SeekTimer(x) = s
        \/ x.seekReason = "rw" /\ SeekTimer(x) = [ e EXCEPT !.phase = "busy", !.rwTimer = 1 ]
        \/ \E st0 : SeekTimer(x) = SeekInterrupt(e, d, st0)
    <2> DEFINE moved == CASE x.seekReason = "rw" -> [ e EXCEPT !.phase = "busy",
                                                               !.rwTimer = 1 ]
                          [] x.seekReason = "recalibrate" -> SeekInterrupt(e, d, 32 + d)
                          [] OTHER -> SeekInterrupt(e, d, 32 + d + 4 * e.drive[d].head)
    <2>1. SeekTimer(x) = CASE x.seekPending = 0 -> x
                           [] x.seekPending = 1 /\ t # x.seekTarget -> s
                           [] x.seekPending = 1 /\ t = x.seekTarget -> moved
      BY Zenon DEF SeekTimer, t
    <2>2. \/ x.seekReason = "rw" /\ moved = [ e EXCEPT !.phase = "busy", !.rwTimer = 1 ]
          \/ \E st0 : moved = SeekInterrupt(e, d, st0)
      <3> HIDE DEF e
      <3> QED BY Zenon
    <2> HIDE DEF moved, e, s, d
    <2>3. SeekTimer(x) \in {s, moved}
      BY <1>1, <2>1
    <2> QED BY <2>2, <2>3
  <1> HIDE DEF e, s, d
  <1>8. Leads(SeekTimer(x), x)
    <2>1. CASE SeekTimer(x) = s
      BY <1>5, <2>1
    <2>2. CASE x.seekReason = "rw"
               /\ SeekTimer(x) = [ e EXCEPT !.phase = "busy", !.rwTimer = 1 ]
      <3>1. Leads([ e EXCEPT !.phase = "busy", !.rwTimer = 1 ], e)
        BY <1>1, <1>6, <2>2, RwStarts
      <3> QED BY <1>6, <2>2, <3>1 DEF Leads
    <2>3. CASE \E st0 : SeekTimer(x) = SeekInterrupt(e, d, st0)
      BY <1>6, <2>3, InterruptLeads DEF Leads
    <2> QED BY <1>7, <2>1, <2>2, <2>3
  <1> QED BY <1>1, <1>8, LeadsSteps

-----------------------------------------------------------------------------
(* Commands                                                                *)

\* A command that takes note of something goes on from there.
LEMMA GoesOn ==
  ASSUME NEW e, NEW f, NEW x, Told(x) => Told(f), Leads(e, f)
  PROVE  Leads(e, x)
  BY DEF Leads

LEMMA SeekBegins ==
  ASSUME NEW x, Going(x), NEW d, NEW target, NEW reason \in Reasons,
         reason = "rw" => x.op # "none"
  PROVE  Leads(BeginSeek(x, d, target, reason), x)
  <1> DEFINE e == BeginSeek(x, d, target, reason)
  <1>1. /\ DOMAIN e = DOMAIN x /\ e.enabled = x.enabled /\ e.phase = "busy"
        /\ e.op = x.op /\ e.seekTimer = 1 /\ e.rwTimer = 0 /\ e.seekPending = 1
        /\ e.pcn = x.pcn /\ e.drive = x.drive /\ e.seekReason = reason
        /\ e.fintr = x.fintr /\ e.irr = x.irr /\ e.resetSense = x.resetSense
    BY DEF BeginSeek, Going, Solid, Fields
  <1> HIDE DEF e
  <1>2. Solid(e)
    BY <1>1 DEF Going, Solid, Standing, Phases
  <1>3. Sound(e)
    BY <1>1, <1>2 DEF Going, Sound, Ends
  <1>4. Told(x) => Explained(e)
    BY <1>1 DEF Told, Explained
  <1> QED BY <1>3, <1>4 DEF Leads, e

LEMMA OpBegins ==
  ASSUME NEW x, Going(x), NEW op \in Ops \ {"none"}
  PROVE  Leads(BeginOp(x, op), x)
  <1> DEFINE f == [ x EXCEPT !.op = op ]
             e == [ f EXCEPT !.phase = "busy", !.rwTimer = 1 ]
  <1>1. Going(f) /\ f.op = op /\ (Told(x) => Told(f))
    BY DEF Going, Solid, Fields, Standing, Told
  <1>2. BeginOp(x, op) = e
    BY DEF BeginOp
  <1> HIDE DEF f
  <1> QED BY <1>1, <1>2, RwStarts, GoesOn

LEMMA StartLeads ==
  ASSUME NEW x, Going(x), NEW op \in {"read", "write"}
  PROVE  Leads(StartRw(x, op), x)
  <1> DEFINE p == x.params
             d == p[1] % 4
             s == [ x EXCEPT !.rwDrive = d, !.op = op,
                        !.cur = [ c |-> p[2], h |-> p[3] % 2, r |-> p[4], n |-> p[5],
                                  eot |-> p[6], mt |-> x.command \div MultiTrack ],
                        !.lastId = [ c |-> p[2], h |-> p[3] % 2, r |-> p[4], n |-> p[5] ] ]
             h == [ s EXCEPT !.drive[d].head = s.cur.h ]
  <1>1. Going(s) /\ s.op = op /\ (Told(x) => Told(s))
    <2> DEFINE cur == [ c |-> p[2], h |-> p[3] % 2, r |-> p[4], n |-> p[5],
                        eot |-> p[6], mt |-> x.command \div MultiTrack ]
               id  == [ c |-> p[2], h |-> p[3] % 2, r |-> p[4], n |-> p[5] ]
    <2> HIDE DEF cur, id, d
    <2>1. Going([ x EXCEPT !.rwDrive = d, !.op = op, !.cur = cur, !.lastId = id ])
      BY DEF Going, Solid, Fields, Standing, Ops
    <2>2. /\ [ x EXCEPT !.rwDrive = d, !.op = op, !.cur = cur, !.lastId = id ].op = op
          /\ Told(x) => Told([ x EXCEPT !.rwDrive = d, !.op = op, !.cur = cur,
                                        !.lastId = id ])
      BY DEF Going, Solid, Fields, Told
    <2> QED BY <2>1, <2>2 DEF cur, id
  <1>2. Alike(h, s)
    <2> HIDE DEF s, d
    <2> QED BY <1>1, HeadAlike DEF Going
  <1>3. \/ \E fault : StartRw(x, op) = ErrorRw(s, fault)
        \/ StartRw(x, op) = BeginSeek(h, d, s.cur.c, "rw")
        \/ StartRw(x, op) = BeginOp(h, op)
    BY Zenon DEF StartRw
  <1> HIDE DEF s, d, h
  <1>4. Going(h) /\ h.op = op /\ (Told(x) => Told(h))
    BY <1>1, <1>2, AlikeGoing DEF Alike, Told
  <1>5. "rw" \in Reasons /\ op \in Ops \ {"none"}
    BY DEF Reasons, Ops
  <1>6. CASE \E fault : StartRw(x, op) = ErrorRw(s, fault)
    BY <1>1, <1>6, ErrorLeads, GoesOn
  <1>7. CASE StartRw(x, op) = BeginSeek(h, d, s.cur.c, "rw")
    <2>1. Leads(BeginSeek(h, d, s.cur.c, "rw"), h)
      BY <1>4, <1>5, SeekBegins
    <2> QED BY <1>4, <1>7, <2>1, GoesOn
  <1>8. CASE StartRw(x, op) = BeginOp(h, op)
    <2>1. Leads(BeginOp(h, op), h)
      BY <1>4, <1>5, OpBegins
    <2> QED BY <1>4, <1>8, <2>1, GoesOn
  <1> QED BY <1>3, <1>6, <1>7, <1>8

LEMMA SenseLeads ==
  ASSUME NEW x, Going(x)
  PROVE  Leads(Sense(x), x)
  <1> DEFINE f == [ x EXCEPT !.resetSense = @ - 1 ]
             g == [ x EXCEPT !.fintr = 0 ]
  <1>1. x.resetSense # 0 => Going(f)
    <2> SUFFICES ASSUME x.resetSense # 0 PROVE Going(f)
      OBVIOUS
    <2>1. /\ DOMAIN f = DOMAIN x /\ f.resetSense = x.resetSense - 1
          /\ f.enabled = x.enabled /\ f.phase = x.phase /\ f.op = x.op
          /\ f.seekTimer = x.seekTimer /\ f.rwTimer = x.rwTimer
          /\ f.seekReason = x.seekReason /\ f.fintr = x.fintr
          /\ f.pcn = x.pcn /\ f.drive = x.drive
      BY DEF Going, Solid, Fields
    <2>2. x.resetSense - 1 \in 0 .. 4
      BY DEF Going, Solid
    <2> HIDE DEF f
    <2> QED BY <2>1, <2>2 DEF Going, Solid, Standing
  <1>2. Going(g)
    BY DEF Going, Solid, Fields, Standing
  <1>3. \/ x.resetSense # 0 /\ \E b : Sense(x) = Result(f, b)
        \/ \E b : Sense(x) = Result(g, b)
        \/ \E b : Sense(x) = Result(x, b)
    <2>1. x.fintr = 0 \/ x.fintr = 1
      BY DEF Going, Solid
    <2> DEFINE b1 == << 196 - x.resetSense, x.pcn[4 - x.resetSense] >>
               b2 == << x.st0, x.pcn[x.selected] >>
    <2>2. Sense(x) = CASE x.resetSense # 0 -> Result(f, b1)
                       [] x.resetSense = 0 /\ x.fintr = 1 -> Result(g, b2)
                       [] x.resetSense = 0 /\ x.fintr = 0 -> Result(x, << 128 >>)
      BY DEF Sense
    <2> HIDE DEF f, g, b1, b2
    <2>3. CASE x.resetSense # 0
      <3>1. Sense(x) = Result(f, b1)
        BY <2>2, <2>3
      <3> QED BY <2>3, <3>1
    <2>4. CASE x.resetSense = 0
      BY <2>1, <2>2, <2>4
    <2> QED BY <2>3, <2>4
  <1> HIDE DEF f, g
  <1>4. ASSUME NEW y, Going(y), NEW b
        PROVE  Leads(Result(y, b), x)
    <2> DEFINE e == Result(y, b)
    <2>1. Sound(e)
      BY <1>4, ResultLeads DEF Leads
    <2>2. e.phase = "result"
      BY <1>4 DEF Result, Going, Solid, Fields
    <2> HIDE DEF e
    <2>3. Explained(e)
      BY <2>2 DEF Explained
    <2> QED BY <2>1, <2>3 DEF Leads, e
  <1> QED BY <1>1, <1>2, <1>3, <1>4

LEMMA WithHeadGoes ==
  ASSUME NEW x, Going(x), NEW p
  PROVE  Going(WithHead(x, p)) /\ (Told(x) => Told(WithHead(x, p)))
  <1> DEFINE f == [ x EXCEPT !.rwDrive = p % 4 ]
             e == [ f EXCEPT !.drive[p % 4].head = (p \div 4) % 2 ]
  <1>1. Plain(f, x)
    BY DEF Plain, Going, Solid, Fields
  <1>2. Alike(e, f)
    <2>1. Solid(f)
      <3> HIDE DEF f
      <3> QED BY <1>1, PlainAlike, AlikeSolid DEF Going
    <2> HIDE DEF f
    <2> QED BY <2>1, HeadAlike
  <1>3. WithHead(x, p) = e
    BY DEF WithHead
  <1> HIDE DEF f, e
  <1>4. Alike(e, x)
    BY <1>1, <1>2, PlainAlike, AlikeTwice DEF Going
  <1> QED BY <1>3, <1>4, AlikeGoing DEF Alike, Told

LEMMA OnTrackLeads ==
  ASSUME NEW x, Going(x), NEW p, NEW op \in Ops \ {"none"}
  PROVE  Leads(OnTrack(x, op, p), x)
  <1> DEFINE w == WithHead(x, p)
             s == [ w EXCEPT !.cur.h = (p \div 4) % 2 ]
  <1>1. Going(w) /\ (Told(x) => Told(w))
    BY WithHeadGoes
  <1>2. Going(s) /\ (Told(x) => Told(s))
    <2> HIDE DEF w
    <2>1. Plain(s, w)
      BY <1>1 DEF Plain, Going, Solid, Fields
    <2> HIDE DEF s
    <2> QED BY <1>1, <2>1, PlainAlike, AlikeGoing DEF Going, Plain, Told
  <1>3. OnTrack(x, op, p) \in {BeginOp(s, op), ErrorRw(s, "no media")}
    BY DEF OnTrack
  <1> HIDE DEF s
  <1> QED BY <1>2, <1>3, OpBegins, ErrorLeads, GoesOn

LEMMA CommandsAre == DOMAIN Params = Commands
  BY DEF Params

LEMMA HandleLeads ==
  ASSUME NEW x, Going(x), Code(x) \in DOMAIN Params
  PROVE  Leads(Handle(x), x)
  <1> DEFINE p == x.params
             d == p[1] % 4
             f1 == [ x EXCEPT !.useDma = 1 - (p[2] % 2) ]
             f2 == [ x EXCEPT !.drive[d].head = (p[1] \div 4) % 2 ]
             f3 == [ x EXCEPT !.rwDrive = d ]
             f4 == WithHead(x, p[1])
             f5 == [ x EXCEPT !.cur.c = x.pcn[d], !.cur.n = p[2],
                              !.fmt = [ count |-> p[3], fill |-> p[5] ] ]
             a1 == EnterCommand(f1)
             a2 == Result(f2, << Status3(f2, d) >>)
             a3 == IF Ready(x, d) THEN BeginSeek(f3, d, 0, "recalibrate")
                   ELSE SeekInterrupt(f3, d, 112 + d)
             a4 == Sense(x)
             a5 == IF Ready(x, d) THEN BeginSeek(f4, d, p[2], "command")
                   ELSE SeekInterrupt(f4, d, 32 + d)
             a6 == StartRw(x, "read")
             a7 == StartRw(x, "write")
             a8 == OnTrack(x, "readId", p[1])
             a9 == OnTrack(f5, "format", p[1])
  <1>1. Handle(x) = CASE Code(x) = CmdSpecify -> a1
                      [] Code(x) = CmdSenseDrive -> a2
                      [] Code(x) = CmdRecalibrate -> a3
                      [] Code(x) = CmdSense -> a4
                      [] Code(x) = CmdSeek -> a5
                      [] Code(x) \in {CmdReadData, CmdReadDeleted} -> a6
                      [] Code(x) \in {CmdWriteData, CmdWriteDeleted} -> a7
                      [] Code(x) = CmdReadId -> a8
                      [] Code(x) = CmdFormat -> a9
    BY Zenon DEF Handle
  <1>2. Code(x) \in Commands
    BY CommandsAre
  <1> HIDE DEF d, f1, f2, f3, f4, f5
  <1>3. Handle(x) \in {a1, a2, a3, a4, a5, a6, a7, a8, a9}
    <2> HIDE DEF a1, a2, a3, a4, a5, a6, a7, a8, a9
    <2> QED BY <1>1, <1>2, ZenonT(60) DEF Commands
  <1>4. Solid(x) /\ x.rwTimer = 0 /\ x.seekTimer = 0
    BY DEF Going
  <1>5. Plain(f1, x) /\ Plain(f3, x) /\ Plain(f5, x)
    BY <1>4 DEF Plain, Solid, Fields, f1, f3, f5
  <1>6. Alike(f2, x)
    BY <1>4, HeadAlike DEF f2
  <1>7. /\ Going(f1) /\ Going(f2) /\ Going(f3) /\ Going(f4) /\ Going(f5)
        /\ Told(x) => Told(f1) /\ Told(f2) /\ Told(f3) /\ Told(f4) /\ Told(f5)
    <2>1. Alike(f1, x) /\ Alike(f3, x) /\ Alike(f5, x)
      BY <1>4, <1>5, PlainAlike
    <2>2. Going(f4) /\ (Told(x) => Told(f4))
      BY WithHeadGoes DEF f4
    <2> QED BY <1>6, <2>1, <2>2, AlikeGoing DEF Alike, Told
  <1>8. /\ {"recalibrate", "command"} \subseteq Reasons
        /\ {"readId", "format"} \subseteq Ops \ {"none"}
    BY DEF Reasons, Ops
  <1>9. Leads(a1, x)
    BY <1>7, EnterLeads, GoesOn DEF Going
  <1>10. Leads(a2, x)
    BY <1>7, ResultLeads, GoesOn
  <1>11. Leads(a3, x)
    <2>1. Leads(BeginSeek(f3, d, 0, "recalibrate"), f3)
      BY <1>7, <1>8, SeekBegins
    <2>2. Leads(SeekInterrupt(f3, d, 112 + d), f3)
      BY <1>7, InterruptLeads
    <2> QED BY <1>7, <2>1, <2>2, GoesOn
  <1>12. Leads(a4, x)
    BY SenseLeads
  <1>13. Leads(a5, x)
    <2>1. Leads(BeginSeek(f4, d, p[2], "command"), f4)
      BY <1>7, <1>8, SeekBegins
    <2>2. Leads(SeekInterrupt(f4, d, 32 + d), f4)
      BY <1>7, InterruptLeads
    <2> QED BY <1>7, <2>1, <2>2, GoesOn
  <1>14. Leads(a6, x) /\ Leads(a7, x)
    BY StartLeads
  <1>15. Leads(a8, x)
    BY <1>8, OnTrackLeads
  <1>16. Leads(a9, x)
    <2>1. Leads(a9, f5)
      BY <1>7, <1>8, OnTrackLeads
    <2> QED BY <1>7, <2>1, GoesOn
  <1> HIDE DEF a1, a2, a3, a4, a5, a6, a7, a8, a9
  <1> QED BY <1>3, <1>9, <1>10, <1>11, <1>12, <1>13, <1>14, <1>15, <1>16

-----------------------------------------------------------------------------
(* Resets                                                                  *)

LEMMA SoftResetLeads ==
  ASSUME NEW x, Solid(x)
  PROVE  /\ Sound(SoftReset(x)) /\ Explained(SoftReset(x))
         /\ SoftReset(x).resetSense = 4
  <1> DEFINE drives == [ y \in Drives |-> [ DriveReset(x.drive[y]) EXCEPT !.motor = Motor(x, y) ] ]
             zeros  == [ y \in Drives |-> 0 ]
             f == [ x EXCEPT !.seekTimer = 0, !.rwTimer = 0, !.op = "none", !.seekPending = 0,
                   !.seekReason = "none", !.fintr = 0, !.st0 = 0, !.resetSense = 4,
                   !.selected = x.dorDrive, !.rwDrive = x.dorDrive, !.useDma = 1,
                   !.drive = drives, !.readId = zeros, !.pcn = zeros ]
             e == EnterCommand(f)
  <1>1. SoftReset(x) = Raise(e)
    BY DEF SoftReset
  <1>2. \A y \in Drives : "track" \in DOMAIN drives[y] /\ drives[y].track = 0
    <2>1. \A y \in Drives : "track" \in DOMAIN x.drive[y]
      BY DEF Solid, Standing
    <2> QED BY <2>1 DEF DriveReset
  <1>3. DOMAIN drives = Drives /\ DOMAIN zeros = Drives /\ \A y \in Drives : zeros[y] = 0
    OBVIOUS
  <1>4. /\ Fields \subseteq DOMAIN f /\ f.enabled = x.enabled /\ f.phase = x.phase
        /\ f.seekTimer = 0 /\ f.rwTimer = 0 /\ f.op = "none" /\ f.seekReason = "none"
        /\ f.fintr = 0 /\ f.resetSense = 4 /\ f.drive = drives /\ f.pcn = zeros
    <2> HIDE DEF drives, zeros
    <2> QED BY DEF Solid, Fields
  <1>5. Solid(f)
    <2> HIDE DEF f, drives, zeros
    <2> QED BY <1>2, <1>3, <1>4 DEF Solid, Standing, Ops, Reasons
  <1>6. Sound(e) /\ e.resetSense = 4
    <2> HIDE DEF f
    <2>1. Sound(e)
      BY <1>4, <1>5, EnterLeads DEF Leads
    <2>2. e.resetSense = 4
      BY <1>4, <1>5 DEF EnterCommand, Solid, Fields
    <2> QED BY <2>1, <2>2
  <1> HIDE DEF e
  <1>7. Sound(Raise(e)) /\ Raise(e).resetSense = 4
    <2> DEFINE r == Raise(e)
    <2>1. /\ DOMAIN r = DOMAIN e /\ r.enabled = e.enabled /\ r.phase = e.phase
          /\ r.command = e.command /\ r.op = e.op /\ r.seekTimer = e.seekTimer
          /\ r.rwTimer = e.rwTimer /\ r.seekPending = e.seekPending
          /\ r.seekReason = e.seekReason /\ r.fintr = e.fintr
          /\ r.resetSense = e.resetSense /\ r.pcn = e.pcn /\ r.drive = e.drive
      BY <1>6 DEF Raise, Sound, Solid, Fields
    <2> HIDE DEF r
    <2>2. Solid(r)
      BY <1>6, <2>1 DEF Sound, Solid, Standing
    <2>3. Sound(r) /\ r.resetSense = 4
      BY <1>6, <2>1, <2>2 DEF Sound, Ends, Code
    <2> QED BY <2>3 DEF r
  <1> QED BY <1>1, <1>7 DEF Explained

LEMMA AbortSound ==
  ASSUME NEW x, Solid(x)
  PROVE  Sound(Abort(x)) /\ Abort(x).resetSense = x.resetSense
  <1> DEFINE f == [ x EXCEPT !.seekTimer = 0, !.rwTimer = 0, !.op = "none",
                             !.seekPending = 0 ]
  <1>1. Solid(f) /\ f.rwTimer = 0 /\ f.seekTimer = 0 /\ f.resetSense = x.resetSense
    BY DEF Solid, Fields, Standing, Ops
  <1>2. Abort(x) = EnterCommand(f)
    BY DEF Abort
  <1> HIDE DEF f
  <1>3. EnterCommand(f).resetSense = f.resetSense
    BY <1>1 DEF EnterCommand, Solid, Fields
  <1> QED BY <1>1, <1>2, <1>3, EnterLeads DEF Leads

\* What is alike and asks for the same transfer is as sound.
LEMMA AlikeSound ==
  ASSUME NEW e, NEW x, Sound(x), Alike(e, x)
  PROVE  Sound(e) /\ (Explained(x) <=> Explained(e))
  BY AlikeSolid DEF Sound, Ends, Alike, Explained, Code

-----------------------------------------------------------------------------
(* Ports                                                                   *)

\* A controller that asks for a byte, or sends one, is idle.
LEMMA IdleGoes ==
  ASSUME NEW x, Sound(x), x.phase # "busy"
  PROVE  Going(x)
  BY DEF Sound, Ends, Solid, Going

LEMMA PlainSteps ==
  ASSUME NEW e, NEW x, Sound(x), Plain(e, x)
  PROVE  Steps(e, x)
  BY PlainAlike, AlikeSound DEF Steps, Sound

\* The request in the 8259 is taken, or withdrawn.
LEMMA TakenSteps ==
  ASSUME NEW x, Sound(x)
  PROVE  /\ Sound([ x EXCEPT !.irr = 0 ]) /\ Told([ x EXCEPT !.irr = 0 ])
         /\ Steps([ x EXCEPT !.irr = 0 ], x)
         /\ [ x EXCEPT !.irr = 0 ].irr = 0
         /\ [ x EXCEPT !.irr = 0 ].phase = x.phase
         /\ [ x EXCEPT !.irr = 0 ].op = x.op
  <1> DEFINE e == [ x EXCEPT !.irr = 0 ]
  <1>1. /\ DOMAIN e = DOMAIN x
        /\ e.enabled = x.enabled /\ e.phase = x.phase /\ e.command = x.command
        /\ e.op = x.op /\ e.seekTimer = x.seekTimer /\ e.rwTimer = x.rwTimer
        /\ e.seekPending = x.seekPending /\ e.seekReason = x.seekReason
        /\ e.fintr = x.fintr /\ e.resetSense = x.resetSense /\ e.irr = 0
        /\ e.pcn = x.pcn /\ e.drive = x.drive
    BY DEF Sound, Solid, Fields
  <1> SUFFICES Sound(e) /\ Told(e) /\ Steps(e, x) /\ e.irr = 0 /\ e.phase = x.phase
               /\ e.op = x.op
    OBVIOUS
  <1> HIDE DEF e
  <1>2. Solid(e)
    BY <1>1 DEF Sound, Solid, Standing
  <1>3. Sound(e)
    BY <1>1, <1>2 DEF Sound, Ends, Code
  <1> QED BY <1>1, <1>3 DEF Told, Steps, Explained

LEMMA DorSteps ==
  ASSUME NEW x, Sound(x), NEW enabled \in BOOLEAN, NEW motors, NEW d
  PROVE  Steps(WriteDor(x, enabled, motors, d), x)
  <1> DEFINE drives == [ y \in Drives |->
                           [ x.drive[y] EXCEPT !.motor = IF y \in motors THEN 1 ELSE 0 ] ]
             s == [ x EXCEPT !.enabled = enabled, !.motors = motors, !.dorDrive = d,
                             !.selected = d, !.drive = drives ]
             e == [ s EXCEPT !.seekTimer = 0, !.rwTimer = 0, !.phase = "busy" ]
  <1>1. WriteDor(x, enabled, motors, d) = CASE ~enabled -> e
                                            [] enabled /\ ~x.enabled -> SoftReset(s)
                                            [] enabled /\ x.enabled  -> s
    BY DEF WriteDor
  <1>2. Solid(x) /\ x.enabled \in BOOLEAN
    BY DEF Sound, Solid
  <1>3. /\ DOMAIN drives = Drives
        /\ \A y \in Drives : "track" \in DOMAIN drives[y]
                             /\ drives[y].track = x.drive[y].track
    <2>1. \A y \in Drives : "track" \in DOMAIN x.drive[y]
      BY <1>2 DEF Solid, Standing
    <2> QED BY <2>1
  <1>4. /\ DOMAIN s = DOMAIN x
        /\ s.enabled = enabled /\ s.phase = x.phase /\ s.command = x.command
        /\ s.op = x.op /\ s.seekTimer = x.seekTimer /\ s.rwTimer = x.rwTimer
        /\ s.seekPending = x.seekPending /\ s.seekReason = x.seekReason
        /\ s.fintr = x.fintr /\ s.resetSense = x.resetSense /\ s.irr = x.irr
        /\ s.pcn = x.pcn /\ s.drive = drives
    <2> HIDE DEF drives
    <2> QED BY <1>2 DEF Solid, Fields
  <1>5. Standing(s)
    <2> HIDE DEF s, drives
    <2> QED BY <1>2, <1>3, <1>4 DEF Solid, Standing
  <1>6. Solid(s)
    <2> HIDE DEF s, drives
    <2> QED BY <1>2, <1>4, <1>5 DEF Solid
  <1>7. CASE ~enabled
    <2> HIDE DEF s
    <2>1. /\ DOMAIN e = DOMAIN s /\ e.enabled = s.enabled /\ e.phase = "busy"
          /\ e.op = s.op /\ e.seekTimer = 0 /\ e.rwTimer = 0
          /\ e.seekReason = s.seekReason /\ e.fintr = s.fintr
          /\ e.resetSense = s.resetSense /\ e.pcn = s.pcn /\ e.drive = s.drive
      BY <1>6 DEF Solid, Fields
    <2>2. WriteDor(x, enabled, motors, d) = e
      BY <1>1, <1>7
    <2> HIDE DEF e, drives
    <2>3. Solid(e)
      BY <1>6, <2>1 DEF Solid, Standing, Phases
    <2> QED BY <1>4, <1>7, <2>1, <2>2, <2>3 DEF Sound, Ends, Steps, Explained
  <1>8. CASE enabled /\ ~x.enabled
    <2>1. WriteDor(x, enabled, motors, d) = SoftReset(s)
      BY <1>1, <1>8
    <2> HIDE DEF s
    <2> QED BY <1>6, <2>1, SoftResetLeads DEF Steps
  <1>9. CASE enabled /\ x.enabled
    <2>1. WriteDor(x, enabled, motors, d) = s
      BY <1>1, <1>9
    <2> HIDE DEF s, drives
    <2>2. Alike(s, x)
      BY <1>2, <1>4, <1>5, <1>9 DEF Alike
    <2> QED BY <2>1, <2>2, AlikeSound DEF Steps
  <1> QED BY <1>2, <1>7, <1>8, <1>9

LEMMA DsrSteps ==
  ASSUME NEW x, Sound(x), NEW bit7
  PROVE  Steps(WriteDsr(x, bit7), x)
  BY SoftResetLeads DEF WriteDsr, Steps, Sound

LEMMA PioSteps ==
  ASSUME NEW x, Sound(x), x.phase = "pioWrite", x.enabled, NEW byte
  PROVE  Steps(PioByte(x, byte), x)
  <1> DEFINE s == [ x EXCEPT !.buf = Append(@, byte), !.pos = @ + 1 ]
  <1>1. Plain(s, x)
    BY DEF Plain, Sound, Solid, Fields
  <1>2. PioByte(x, byte) \in {FinishPioWrite(s), s}
    BY DEF PioByte
  <1> HIDE DEF s
  <1>3. Going(s) /\ (Told(x) => Told(s)) /\ Steps(s, x)
    BY <1>1, IdleGoes, PlainAlike, AlikeGoing, PlainSteps DEF Going, Plain, Told
  <1>4. FinishPioWrite(s) = s \/ Leads(FinishPioWrite(s), x)
    <2>1. CASE s.op = "write"
      <3>1. Leads(WriteSector(s), s)
        BY <1>3, <2>1, WriteLeads
      <3> QED BY <1>3, <2>1, <3>1, GoesOn DEF FinishPioWrite
    <2>2. CASE s.op = "format"
      <3>1. Leads(FormatTrack(s), s)
        BY <1>3, FormatLeads
      <3> QED BY <1>3, <2>2, <3>1, GoesOn DEF FinishPioWrite
    <2>3. CASE s.op \notin {"write", "format"}
      BY <2>3 DEF FinishPioWrite
    <2> QED BY <2>1, <2>2, <2>3
  <1> QED BY <1>2, <1>3, <1>4, LeadsSteps

LEMMA CommandByteSteps ==
  ASSUME NEW x, Sound(x), x.phase = "command", x.enabled, NEW byte
  PROVE  Steps(CommandByte(x, byte), x)
  <1> DEFINE s == [ x EXCEPT !.command = byte, !.params = <<>> ]
             e == [ s EXCEPT !.phase = "params" ]
  <1>1. /\ DOMAIN s = DOMAIN x /\ s.enabled = x.enabled /\ s.phase = x.phase
        /\ s.op = x.op /\ s.seekTimer = x.seekTimer /\ s.rwTimer = x.rwTimer
        /\ s.seekReason = x.seekReason /\ s.fintr = x.fintr
        /\ s.resetSense = x.resetSense /\ s.irr = x.irr
        /\ s.pcn = x.pcn /\ s.drive = x.drive
    BY DEF Sound, Solid, Fields
  <1>2. \/ CommandByte(x, byte) = Result(s, << 128 >>)
        \/ Code(s) \in DOMAIN Params /\ CommandByte(x, byte) \in {Handle(s), e}
    BY Zenon DEF CommandByte
  <1> HIDE DEF s
  <1>3. Going(s) /\ (Told(x) => Told(s))
    <2>1. Going(x)
      BY IdleGoes
    <2> QED BY <1>1, <2>1 DEF Going, Solid, Standing, Told
  <1>4. Code(s) \in DOMAIN Params => Leads(e, s)
    <2>1. /\ DOMAIN e = DOMAIN s /\ e.enabled = s.enabled /\ e.phase = "params"
          /\ e.command = s.command /\ e.op = s.op /\ e.seekTimer = s.seekTimer
          /\ e.rwTimer = s.rwTimer /\ e.seekReason = s.seekReason /\ e.fintr = s.fintr
          /\ e.resetSense = s.resetSense /\ e.irr = s.irr
          /\ e.pcn = s.pcn /\ e.drive = s.drive
      BY <1>3 DEF Going, Solid, Fields
    <2> HIDE DEF e
    <2>2. Solid(e)
      BY <1>3, <2>1 DEF Going, Solid, Standing, Phases
    <2>3. Code(e) = Code(s)
      BY <2>1 DEF Code
    <2>4. Told(s) => Explained(e)
      BY <2>1 DEF Told, Explained
    <2> QED BY <1>3, <2>1, <2>2, <2>3, <2>4 DEF Going, Sound, Ends, Leads
  <1> HIDE DEF e
  <1>5. Leads(CommandByte(x, byte), x)
    BY <1>2, <1>3, <1>4, ResultLeads, HandleLeads, GoesOn
  <1> QED BY <1>5, LeadsSteps

LEMMA ParamSteps ==
  ASSUME NEW x, Sound(x), x.phase = "params", x.enabled, NEW byte
  PROVE  Steps(ParamByte(x, byte), x)
  <1> DEFINE s == [ x EXCEPT !.params = Append(@, byte) ]
  <1>1. Plain(s, x)
    BY DEF Plain, Sound, Solid, Fields
  <1>2. ParamByte(x, byte) \in {Handle(s), s}
    BY DEF ParamByte
  <1> HIDE DEF s
  <1>3. Going(s) /\ (Told(x) => Told(s)) /\ Steps(s, x)
    BY <1>1, IdleGoes, PlainAlike, AlikeGoing, PlainSteps DEF Going, Plain, Told
  <1>4. Code(s) \in DOMAIN Params
    BY <1>1 DEF Plain, Code, Sound
  <1>5. Leads(Handle(s), x)
    BY <1>3, <1>4, HandleLeads, GoesOn
  <1> QED BY <1>2, <1>3, <1>5, LeadsSteps

LEMMA WriteSteps ==
  ASSUME NEW x, Sound(x), NEW byte
  PROVE  Steps(WriteData(x, byte), x)
  <1>1. Steps(x, x)
    BY DEF Steps
  <1>2. x.phase \in Phases /\ x.enabled \in BOOLEAN
    BY DEF Sound, Solid
  <1>3. CASE ~x.enabled \/ x.phase \in {"result", "pioRead", "busy"}
    <2>1. WriteData(x, byte) = x
      BY <1>3 DEF WriteData
    <2> QED BY <1>1, <2>1
  <1>4. CASE x.enabled /\ x.phase = "pioWrite"
    BY <1>4, PioSteps DEF WriteData
  <1>5. CASE x.enabled /\ x.phase = "command"
    BY <1>5, CommandByteSteps DEF WriteData
  <1>6. CASE x.enabled /\ x.phase = "params"
    BY <1>6, ParamSteps DEF WriteData
  <1> QED BY <1>2, <1>3, <1>4, <1>5, <1>6 DEF Phases

LEMMA ReadSteps ==
  ASSUME NEW x, Sound(x)
  PROVE  Steps(ReadData(x), x)
  <1> DEFINE s == [ x EXCEPT !.irr = 0 ]
             f == [ s EXCEPT !.pos = @ + 1 ]
             g == [ s EXCEPT !.result = Tail(@) ]
  <1>1. /\ Sound(s) /\ Told(s) /\ Steps(s, x)
        /\ s.irr = 0 /\ s.phase = x.phase /\ s.op = x.op
    BY TakenSteps
  <1> HIDE DEF s
  <1>2. Plain(f, s) /\ Plain(g, s)
    BY <1>1 DEF Plain, Sound, Solid, Fields
  <1>3. ReadData(x) = CASE x.phase = "result" ->
                             IF Len(x.result) = 1 THEN EnterCommand(s) ELSE g
                        [] x.phase = "pioRead" ->
                             IF x.pos + 1 >= x.len THEN AfterSector(f) ELSE f
                        [] OTHER -> s
    BY DEF ReadData, s
  <1> HIDE DEF f, g
  <1>4. Steps(f, x) /\ Steps(g, x)
    BY <1>1, <1>2, PlainSteps DEF Steps
  <1>5. CASE x.phase = "result"
    <2>1. Going(s)
      BY <1>1, <1>5, IdleGoes
    <2>2. Sound(EnterCommand(s)) /\ Explained(EnterCommand(s))
      BY <1>1, <2>1, EnterLeads DEF Going, Leads
    <2> QED BY <1>3, <1>4, <1>5, <2>2 DEF Steps
  <1>6. CASE x.phase = "pioRead"
    <2>1. Going(s) /\ s.op = "read"
      BY <1>1, <1>6, IdleGoes DEF Sound
    <2>2. Alike(f, s)
      BY <1>2, <2>1, PlainAlike DEF Going
    <2>3. Leads(AfterSector(f), s)
      BY <2>1, <2>2, AfterAlike
    <2>4. ReadData(x) \in {AfterSector(f), f}
      BY <1>3, <1>6
    <2> QED BY <1>1, <1>4, <2>3, <2>4 DEF Leads, Steps
  <1>7. CASE x.phase \notin {"result", "pioRead"}
    BY <1>1, <1>3, <1>7
  <1> QED BY <1>5, <1>6, <1>7

-----------------------------------------------------------------------------
(* The host, and the system                                                *)

LEMMA InsertSound ==
  ASSUME NEW x, Solid(x), NEW d, NEW m
  PROVE  /\ Sound(InsertImage(x, d, m)) /\ Sound(EjectImage(x, d))
         /\ InsertImage(x, d, m).resetSense = x.resetSense
  <1> DEFINE a == Abort(x)
             y == Load(a.drive[d], m)
             z == Close(a.drive[d])
             e == [ a EXCEPT !.drive = [ a.drive EXCEPT ![d] = y ] ]
             f == [ a EXCEPT !.drive = [ a.drive EXCEPT ![d] = z ] ]
  <1>1. Sound(a) /\ a.resetSense = x.resetSense
    BY AbortSound
  <1>2. InsertImage(x, d, m) = e /\ EjectImage(x, d) = f
    BY DEF InsertImage, EjectImage
  <1> HIDE DEF a
  <1>3. d \in Drives => "track" \in DOMAIN a.drive[d]
    BY <1>1 DEF Sound, Solid, Standing
  <1>4. d \in Drives => /\ "track" \in DOMAIN y /\ y.track = a.drive[d].track
                        /\ "track" \in DOMAIN z /\ z.track = a.drive[d].track
    BY <1>3 DEF Load, Close
  <1>5. Alike(e, a) /\ Alike(f, a)
    <2> HIDE DEF y, z
    <2> QED BY <1>1, <1>4, DriveAlike DEF Sound
  <1> HIDE DEF e, f
  <1> QED BY <1>1, <1>2, <1>5, AlikeSound DEF Alike

LEMMA StartSound ==
  ASSUME NEW files, NEW memory
  PROVE  Sound(FdcAtStart(files, memory)) /\ FdcAtStart(files, memory).resetSense = 4
  <1> DEFINE x == [ enabled |-> TRUE, motors |-> {}, dorDrive |-> 0, selected |-> 0,
                phase |-> "command", command |-> 0, params |-> <<>>, op |-> "none",
                rwDrive |-> 0,
                cur |-> [ c |-> 0, h |-> 0, r |-> 0, n |-> 0, eot |-> 0, mt |-> 0 ],
                useDma |-> 1, fintr |-> 0, st0 |-> 0, resetSense |-> 0, seekPending |-> 0,
                seekDrive |-> 0, seekTarget |-> 0, seekReason |-> "none",
                readId |-> [ d \in Drives |-> 0 ], fmt |-> [ count |-> 0, fill |-> 0 ],
                pcn |-> [ d \in Drives |-> 0 ], seekTimer |-> 0, rwTimer |-> 0,
                buf |-> <<>>, len |-> 0, pos |-> 0,
                lastId |-> [ c |-> 0, h |-> 0, r |-> 0, n |-> 0 ], result |-> <<>>,
                drive |-> [ d \in Drives |-> DriveAtStart ], irr |-> 0,
                dma |-> DmaAtStart, mem |-> memory, file |-> files ]
  <1>1. Standing(x)
    <2>1. "track" \in DOMAIN DriveAtStart /\ DriveAtStart.track = 0
      BY DEF DriveAtStart
    <2> QED BY <2>1 DEF Standing
  <1>2. Solid(x)
    <2>1. Fields \subseteq DOMAIN x
      BY DEF Fields
    <2> QED BY <1>1, <2>1 DEF Solid, Phases, Ops, Reasons
  <1>3. FdcAtStart(files, memory) = SoftReset(x)
    BY DEF FdcAtStart
  <1> HIDE DEF x
  <1> QED BY <1>2, <1>3, SoftResetLeads

LEMMA InitInv == FloppyInit => Inv
  <1> SUFFICES ASSUME FloppyInit PROVE Inv
    OBVIOUS
  <1> DEFINE files  == [ x \in { i.id : i \in Images } |-> << >> ]
             memory == [ a \in 0 .. MemSize - 1 |-> 0 ]
             x      == FdcAtStart(files, memory)
  <1>1. PICK m \in floppyGuest.images : c = InsertImage(x, 0, m)
    BY DEF FloppyInit
  <1> HIDE DEF files, memory
  <1>2. Sound(x) /\ x.resetSense = 4
    BY StartSound
  <1> HIDE DEF x
  <1>3. Sound(c) /\ c.resetSense = 4
    BY <1>1, <1>2, InsertSound DEF Sound
  <1> QED BY <1>3 DEF Inv, Explained

LEMMA BecomesInv ==
  ASSUME NEW e, Inv, Steps(e, c), Becomes(e)
  PROVE  Inv'
  <1>1. ~orphan' => ~orphan \/ e.irr # 1
    BY DEF Becomes
  <1>2. Sound(c') /\ (Explained(c) => Explained(c'))
    BY DEF Becomes, Steps
  <1>3. c'.irr # 1 => Explained(c')
    BY DEF Explained
  <1> QED BY <1>1, <1>2, <1>3 DEF Inv, Becomes, Explained

LEMMA StillInv ==
  ASSUME Inv, UNCHANGED << c, orphan >>
  PROVE  Inv'
  BY DEF Inv, Sound, Solid, Ends, Standing, Explained, Code

\* The DMA channel and the memory that a driver prepares are not the
\* controller's.
LEMMA DmaSteps ==
  ASSUME NEW x, Sound(x), NEW dma, NEW mem
  PROVE  /\ Steps([ x EXCEPT !.dma = dma ], x)
         /\ Steps([ x EXCEPT !.dma = dma, !.mem = mem ], x)
  <1>1. Plain([ x EXCEPT !.dma = dma ], x)
    BY DEF Plain, Sound, Solid, Fields
  <1>2. Plain([ x EXCEPT !.dma = dma, !.mem = mem ], x)
    BY DEF Plain, Sound, Solid, Fields
  <1> QED BY <1>1, <1>2, PlainSteps

LEMMA FreeInv ==
  ASSUME Inv, FreeStep
  PROVE  Inv'
  <1> USE DEF Inv
  <1>1. CASE BeginFloppyScript
    BY <1>1, StillInv DEF BeginFloppyScript
  <1>2. CASE WriteFloppyByte
    BY <1>2, WriteSteps, BecomesInv DEF WriteFloppyByte
  <1>3. CASE ReadFloppyByte
    BY <1>3, ReadSteps, BecomesInv DEF ReadFloppyByte
  <1>4. CASE SetDor
    <2>1. PICK enabled \in BOOLEAN : Becomes(WriteDor(c, enabled, {0, 1}, 0))
      BY <1>4 DEF SetDor
    <2> QED BY <2>1, DorSteps, BecomesInv
  <1>5. CASE SetDsr
    BY <1>5, DsrSteps, BecomesInv DEF SetDsr
  <1>6. CASE SetDma
    <2>1. PICK mode : Becomes([ c EXCEPT !.dma = Programmed(c.dma, 0, 3, mode) ])
      BY <1>6 DEF SetDma
    <2> QED BY <2>1, DmaSteps, BecomesInv
  <1> QED BY <1>1, <1>2, <1>3, <1>4, <1>5, <1>6 DEF FreeStep

LEMMA RestartInv ==
  ASSUME Inv, Restart
  PROVE  Inv'
  BY StillInv DEF Restart

LEMMA DriverInv ==
  ASSUME Inv, DriverStep
  PROVE  Inv'
  <1>1. Sound(c)
    BY DEF Inv
  <1>2. CASE DoDor
    <2>1. (floppyTodo[1].n = 1) \in BOOLEAN
      OBVIOUS
    <2>2. Steps(WriteDor(c, floppyTodo[1].n = 1, {0}, 0), c)
      BY <1>1, <2>1, DorSteps
    <2> QED BY <1>2, <2>2, BecomesInv DEF DoDor
  <1>3. CASE DoDma
    <2>1. \E dma, mem : Prepared = [ c EXCEPT !.dma = dma, !.mem = mem ]
      <3> DEFINE dma == Programmed(c.dma, 0, Length(job), IF job.op = "read" THEN 68 ELSE 72)
                 old == [ c EXCEPT !.dma = dma ].mem
                 mem == IF job.op = "read" THEN old
                        ELSE [ a \in DOMAIN old |-> IF a < Length(job) THEN Pattern(job)[a + 1]
                                                   ELSE old[a] ]
      <3>1. Prepared = [ c EXCEPT !.dma = dma, !.mem = mem ]
        BY DEF Prepared
      <3> HIDE DEF dma, mem
      <3> QED BY <3>1
    <2>2. Steps(Prepared, c)
      <3>1. PICK dma, mem : Prepared = [ c EXCEPT !.dma = dma, !.mem = mem ]
        BY <2>1
      <3> QED BY <1>1, <3>1, DmaSteps
    <2> QED BY <1>3, <2>2, BecomesInv DEF DoDma
  <1>4. CASE DoOut
    BY <1>1, <1>4, WriteSteps, BecomesInv DEF DoOut
  <1>5. CASE DoIrq
    BY <1>1, <1>5, TakenSteps, BecomesInv DEF DoIrq
  <1>6. CASE DoIn
    BY <1>1, <1>6, ReadSteps, BecomesInv DEF DoIn
  <1>7. CASE DoMove
    BY <1>1, <1>7, ReadSteps, WriteSteps, BecomesInv DEF DoMove
  <1>8. CASE OutOfStep
    BY <1>8, StillInv, RestartInv DEF OutOfStep
  <1>9. CASE GiveUp
    BY <1>9, RestartInv DEF GiveUp
  <1> QED BY <1>2, <1>3, <1>4, <1>5, <1>6, <1>7, <1>8, <1>9 DEF DriverStep

LEMMA HostInv ==
  ASSUME Inv, HostDisk
  PROVE  Inv'
  <1>1. Sound(c')
    BY InsertSound DEF HostDisk, Inv, Sound
  <1>2. ~orphan' => c'.irr # 1
    BY DEF HostDisk
  <1> QED BY <1>1, <1>2 DEF Inv, Explained

LEMMA StepInv ==
  ASSUME Inv, [FloppyNext]_floppyVars
  PROVE  Inv'
  <1>1. CASE StartJob
    BY <1>1, StillInv DEF StartJob
  <1>2. CASE TimeOut
    BY <1>2, RestartInv DEF TimeOut
  <1>3. CASE TimerFires
    <2>1. Sound(c)
      BY DEF Inv
    <2>2. CASE c.rwTimer = 1 /\ Becomes(RwTimer(c))
      BY <2>1, <2>2, RwTimerSteps, BecomesInv
    <2>3. CASE c.seekTimer = 1 /\ Becomes(SeekTimer(c))
      BY <2>1, <2>3, SeekTimerSteps, BecomesInv
    <2> QED BY <1>3, <2>2, <2>3 DEF TimerFires
  <1>4. CASE UNCHANGED floppyVars
    BY <1>4, StillInv DEF floppyVars
  <1> QED BY <1>1, <1>2, <1>3, <1>4, FreeInv, DriverInv, HostInv DEF FloppyNext

\* Whatever a guest writes and reads, whatever driver gives up and starts
\* again, and whenever the host changes a disk: fdc.c ends what it has begun,
\* knows where its heads are, and interrupts for a reason the guest can find.
THEOREM PositionAlwaysKnown == FloppySpec => []PositionKnown
  <1>1. Inv => PositionKnown
    BY DEF Inv, Sound, Solid, Standing, Ends, Explained, PositionKnown, HeadKnown,
           BusyEnds, IrqExplained
  <1> QED BY <1>1, InitInv, StepInv, PTL DEF FloppySpec
=============================================================================
