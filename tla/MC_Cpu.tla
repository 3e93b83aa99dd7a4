------------------------------- MODULE MC_Cpu -------------------------------
(***************************************************************************)
(* The CPU on three benches: string instructions over paged memory         *)
(* ("strings"), sequences of integer instructions ("idioms"), and the      *)
(* changes of privilege, stack and task ("protection").                    *)
(*                                                                         *)
(* The string instructions work on four pages of two bytes, three frames   *)
(* and a buffer of one set: overlapping moves in both directions, words    *)
(* that lie across pages, and comparisons that end early.                  *)
(***************************************************************************)
EXTENDS StringOps, Protection, TLC

MCBytes == [ a \in 0 .. 7 |-> <<1, 2, 3, 1, 1, 2, 1, 2>>[a + 1] ]
AX == <<1, 2>>
FromPort(n) == n + 10

\* A program, or a system that minds pages not to be written; and who does not.
Guest     == [user |-> TRUE, protect |-> FALSE]
Mindful   == [user |-> FALSE, protect |-> TRUE]
Mindless  == [user |-> FALSE, protect |-> FALSE]

Run(op, rep, size, step, si, di, cx, access, shared) ==
    [ i |-> [op |-> op, rep |-> rep, size |-> size, step |-> step],
      si |-> si, di |-> di, cx |-> cx, access |-> access, shared |-> shared,
      resident |-> FALSE ]

Still(op, size, step, si, di, cx) ==
    [Run(op, "rep", size, step, si, di, cx, Guest, {}) EXCEPT !.resident = TRUE]

Paged ==
    { Run("movs", "rep", 2, 2, 0, 3, 2, Guest, {1, 2}),
      Run("movs", "rep", 2, -2, 3, 4, 2, Mindful, {2}),
      Run("movs", "rep", 1, 1, 1, 2, 3, Mindless, {1, 2}),
      Run("stos", "rep", 2, 2, 0, 1, 2, Guest, {0}),
      Run("lods", "rep", 2, -2, 5, 0, 2, Guest, {}),
      Run("cmps", "repe", 1, 1, 0, 4, 4, Guest, {}),
      Run("cmps", "repne", 2, 2, 1, 3, 2, Mindful, {}),
      Run("cmps", "none", 2, 2, 3, 5, 2, Guest, {}),
      Run("scas", "repne", 2, 2, 0, 2, 3, Guest, {}),
      Run("scas", "repe", 1, -1, 0, 4, 3, Guest, {}) }

WithPort == { Still("outs", 2, 2, 1, 0, 2), Still("ins", 2, -2, 0, 3, 2) }

InMemory == Paged \cup WithPort

\* The port's instructions over pages that are not there yet.
PagedPort == { [p EXCEPT !.resident = FALSE] : p \in WithPort }
-----------------------------------------------------------------------------
(* The idioms: two-word numbers of three bits a word, decimal bytes, and   *)
(* single words of three and four bits.                                    *)

\* Instructions of two operands, and those of one.
I(op, d, o) == [op |-> op, d |-> d, o |-> o]
U(op, d)    == [op |-> op, d |-> d]
J(op, to)   == [op |-> op, to |-> to]
C(op, c, to) == [op |-> op, cc |-> c, to |-> to]

W3 == 0 .. 7
W4 == 0 .. 15
Z  == {0}

In(a, b, c, d, x, y) ==
    [a : a, b : b, c : c, d : d, x : x, y : y]

Idiom(name, w, in, code) ==
    [name |-> name, w |-> w, cc |-> 0, code |-> code, inputs |-> in]

\* Packed decimal bytes: those around a carry, for the low byte every pair.
Decimal == { 16 * h + l : h \in {0, 5, 9}, l \in {0, 4, 5, 9} }
High    == {0, 153}
Tens    == 0 .. 9

TwoWord == In({0, 1, 4, 7}, W3, Z, Z, {0, 1, 4, 7}, W3)

Words ==
  << Idiom("add", 3, TwoWord, <<I("add", "a", "x"), I("adc", "b", "y")>>),
    Idiom("sub", 3, TwoWord, <<I("sub", "a", "x"), I("sbb", "b", "y")>>),
    Idiom("order", 3, TwoWord, <<I("cmp", "a", "x"), I("mov", "c", "zero"),
        I("sbb", "b", "y"), [op |-> "setcc", cc |-> 12, d |-> "c"]>>),
    Idiom("shift left", 3, In(W3, W3, 0 .. 2, Z, Z, Z),
        << [op |-> "shld", d |-> "b", o |-> "a", n |-> "c"],
           I("shl", "a", "c")>>),
    Idiom("shift right", 3, In(W3, W3, 0 .. 2, Z, Z, Z),
        << [op |-> "shrd", d |-> "a", o |-> "b", n |-> "c"],
           I("shr", "b", "c")>>),
    Idiom("shift signed", 3, In(W3, W3, Z, Z, Z, Z),
        <<I("sar", "b", "one"), I("rcr", "a", "one")>>),
    Idiom("turn", 4, In(W4, {0, 1, 8, 13}, W4, Z, Z, Z),
        <<I("rcl", "b", "c"), I("rcr", "b", "c"), I("rol", "a", "c"),
          I("ror", "a", "c")>>),
    Idiom("negate", 4, In(W4, W4, Z, Z, Z, Z),
        <<U("neg", "b"), U("neg", "a"), I("sbb", "b", "zero")>>),
    Idiom("absolute", 4, In(W4, Z, Z, Z, Z, Z),
        <<[op |-> "cwd"], I("xor", "a", "d"), I("sub", "a", "d")>>),
    Idiom("multiply", 3, In(W3, W3, W3, Z, Z, Z),
        <<I("mul", "a", "c"), I("mov", "x", "a"), I("mov", "y", "d"),
          I("mov", "a", "b"), I("mul", "a", "c"), I("add", "y", "a"),
          I("adc", "d", "zero")>>),
    Idiom("divide", 3, In(W3, W3, W3, Z, Z, Z),
        <<I("mov", "x", "a"), I("mov", "a", "b"), I("mov", "d", "zero"),
          I("div", "a", "c"), I("xchg", "a", "x"), I("div", "a", "c")>>),
    Idiom("divide back", 3, In(W3, Z, W3, W3, Z, Z),
        <<I("idiv", "a", "c"), I("mov", "x", "d"), I("imul", "a", "c"),
          I("mov", "b", "a"), I("mov", "y", "d"), I("mov", "a", "x"),
          [op |-> "cwd"], I("add", "a", "b"), I("adc", "d", "y")>>),
    Idiom("scale", 4, In(W4, W4, Z, Z, Z, Z),
        <<I("mov", "c", "a"), I("imul2", "c", "b"),
          [op |-> "imul3", d |-> "b", o |-> "a", n |-> 3]>>) >>

Digits ==
  << Idiom("decimal add", 8, In(Decimal, High, Z, Z, Decimal, High),
        <<I("add", "a", "x"), [op |-> "daa"], I("mov", "c", "a"),
          I("mov", "a", "b"), I("adc", "a", "y"), [op |-> "daa"]>>),
    Idiom("decimal sub", 8, In(Decimal, High, Z, Z, Decimal, High),
        <<I("sub", "a", "x"), [op |-> "das"], I("mov", "c", "a"),
          I("mov", "a", "b"), I("sbb", "a", "y"), [op |-> "das"]>>),
    Idiom("digits add", 8, In(Tens, Z, Z, Z, Tens, Z),
        <<I("add", "a", "x"), [op |-> "aaa"]>>),
    Idiom("digits sub", 8, In(Tens, Z, Z, Z, Tens, Z),
        <<I("sub", "a", "x"), [op |-> "aas"]>>),
    Idiom("digits product", 8, In(Tens, Z, Z, Z, Tens, Z),
        <<I("mul", "a", "x"), [op |-> "aam"]>>),
    Idiom("digits divide", 8, In(Tens, Z, Z, Tens, 1 .. 9, Z),
        <<[op |-> "aad"], I("div", "a", "x")>>) >>

OneWord ==
  << Idiom("count ones", 4, In(W4, Z, W4, Z, Z, Z),
        <<I("mov", "c", "zero"), I("bsf", "b", "a"), C("jcc", 4, 7),
          I("btr", "a", "b"), U("inc", "c"), C("jnear", 2, 2)>>),
    Idiom("highest", 4, In(W4, W4, Z, Z, Z, Z), <<I("bsr", "b", "a")>>),
    Idiom("flip string", 4, In(W4, Z, Z, Z, W4, Z),
        <<[op |-> "string", bop |-> "btc", o |-> "a"]>>),
    Idiom("exchange", 4, In(Z, W4, Z, Z, W4, Z), <<I("xadd", "x", "b")>>),
    Idiom("swap", 4, In(W4, {3, 12}, Z, Z, W4, Z), <<I("cmpxchg", "x", "b")>>),
    Idiom("widen", 4, In(W4, Z, Z, Z, Z, Z),
        <<[op |-> "movsx", d |-> "x", o |-> "a", n |-> 2]>>),
    Idiom("halves", 4, In(W4, Z, Z, Z, Z, Z),
        <<[op |-> "movzx", d |-> "x", o |-> "a", n |-> 2],
          I("mov", "y", "a"), I("shr", "y", "two")>>),
    Idiom("mask", 4, In(W4, W4, Z, Z, Z, Z),
        <<I("mov", "x", "a"), I("and", "x", "b"), U("not", "b"),
          I("and", "a", "b"), I("or", "a", "x")>>),
    Idiom("carry kept", 4, In({0, 15}, W4, {0, 1}, Z, W4, {0, 7, 15}),
        <<I("add", "b", "x"), U("dec", "c"), U("inc", "a"),
          I("adc", "y", "zero")>>),
    Idiom("bits", 4, In(W4, Z, W4, Z, Z, Z),
        <<I("bts", "a", "c"), I("btc", "a", "c"), I("bt", "a", "c")>>),
    Idiom("equal", 4, In(Z, Z, W4, Z, W4, Z),
        <<I("cmp", "x", "x"), J("loope", 1), I("test", "x", "x"),
          I("mov", "a", "one")>>),
    Idiom("sum", 4, In({0, 5}, Z, W4, Z, {1, 7, 15}, Z),
        <<J("jcxz", 4), I("add", "a", "x"), J("loop", 2)>>),
    Idiom("search", 4, In(Z, Z, 1 .. 15, Z, {0, 1, 4, 15}, Z),
        <<U("inc", "b"), I("cmp", "b", "x"), J("loopne", 1)>>) >>

\* The sixteen conditions after a comparison, by SETcc, by a jump and by a
\* conditional move.
Compare(c) ==
  [ Idiom("compare", 3, In(W3, W3, Z, Z, Z, Z),
      <<I("cmp", "a", "b"), [op |-> "setcc", cc |-> c, d |-> "x"]>>)
    EXCEPT !.cc = c ]

Branch(c) ==
  [ Idiom("branch", 3, In(W3, W3, Z, Z, Z, Z),
      <<I("cmp", "a", "b"), I("mov", "x", "one"), C("jcc", c, 5),
        I("mov", "x", "zero")>>)
    EXCEPT !.cc = c ]

NotLess(c) ==
  [ Idiom("not less", 3, In(W3, W3, Z, Z, Z, {1}),
      <<I("cmp", "a", "b"), I("mov", "x", "zero"),
        [op |-> "cmov", cc |-> c, d |-> "x", o |-> "y"]>>)
    EXCEPT !.cc = c ]

Conditions == [ k \in 1 .. 8 |-> Compare(2 * k - 2) ]
              \o <<Branch(2), Branch(12)>>
              \o <<NotLess(3), NotLess(7), NotLess(13), NotLess(15)>>

AllIdioms == Words \o Digits \o OneWord \o Conditions
-----------------------------------------------------------------------------
(* Rings 0 and 3, a conforming segment, gates and two tasks                *)

Code(k, dpl, here) == [ kind |-> k, dpl |-> dpl, present |-> here ]
Off == [ ifl |-> FALSE, nt |-> FALSE, v86 |-> FALSE, iopl |-> 0 ]
On  == [ Off EXCEPT !.ifl = TRUE ]

KCode == <<1, 0>>   KData == <<2, 0>>
UCode == <<3, 3>>   UData == <<4, 3>>
Conf  == <<5, 3>>   Missing == <<6, 3>>
Gate  == <<7, 3>>   Other == <<9, 0>>

MCGdt == <<
  Code("code", 0, TRUE), Code("data", 0, TRUE),
  Code("code", 3, TRUE), Code("data", 3, TRUE),
  Code("conforming", 0, TRUE), Code("data", 3, FALSE),
  [ kind |-> "callgate", dpl |-> 3, present |-> TRUE, sel |-> KCode ],
  [ kind |-> "tss", dpl |-> 0, present |-> TRUE, ss0 |-> KData,
    image |-> [ cs |-> KCode, ss |-> KData, ds |-> <<0, 0>>, sp |-> 0,
                ip |-> 0, fl |-> Off ] ],
  [ kind |-> "tss", dpl |-> 3, present |-> TRUE, ss0 |-> <<10, 0>>,
    image |-> [ cs |-> UCode, ss |-> UData, ds |-> UData, sp |-> 0,
                ip |-> 0, fl |-> On ] ],
  Code("data", 0, TRUE) >>

IntGate(t, dpl, sel) == [ type |-> t, dpl |-> dpl, present |-> TRUE, sel |-> sel ]
Interrupts == (10 :> IntGate("int32", 0, KCode)) @@ (12 :> IntGate("int32", 0, KCode))
    @@ (11 :> IntGate("trap32", 0, KCode)) @@ (13 :> IntGate("int32", 0, KCode))
    @@ (14 :> IntGate("int32", 0, KCode)) @@ (32 :> IntGate("int32", 0, KCode))
    @@ (33 :> IntGate("int16", 3, KCode)) @@ (34 :> IntGate("trap32", 3, Conf))

MCIdt == Interrupts @@ (35 :> [ type |-> "task", dpl |-> 3, present |-> TRUE,
                           sel |-> Other ])

Stacked(cs, ss, ds, fl, form) ==
  [ form |-> form, cs |-> cs, ip |-> 0, ss |-> ss, sp |-> 0, ds |-> ds, fl |-> fl ]

User == Stacked(UCode, UData, <<0, 0>>, On, "int32")
Up   == Stacked(KCode, KData, <<0, 0>>, On, "int32")
V86  == Stacked(<<1, 0>>, <<2, 3>>, <<4, 0>>, [ On EXCEPT !.v86 = TRUE ], "int32")

Returning == [ op |-> "iret" ]
Fault == [ op |-> "fault", vec |-> 14 ]
Own(f) == [ op |-> "owniret", f |-> f ]

Gates ==
  { Returning, Fault, Own(User), Own(Up), [ op |-> "retf" ],
    [ op |-> "int", vec |-> 33 ], [ op |-> "callf", sel |-> Gate ],
    [ op |-> "popf", fl |-> [ On EXCEPT !.iopl = 3 ] ] }

Segments ==
  { Returning, Fault, Own(User), [ op |-> "int", vec |-> 34 ],
    [ op |-> "ownretf", f |-> [ User EXCEPT !.form = "far", !.ss = Missing ] ],
    [ op |-> "jmpf", sel |-> Conf ], [ op |-> "jmpf", sel |-> Gate ],
    [ op |-> "jmpf", sel |-> KCode ],
    [ op |-> "movds", sel |-> KData ], [ op |-> "movds", sel |-> UData ],
    [ op |-> "movss", sel |-> KData ], [ op |-> "movss", sel |-> UData ] }

Virtual ==
  { Returning, Fault, Own(V86), [ op |-> "int", vec |-> 33 ],
    [ op |-> "popf", fl |-> [ On EXCEPT !.iopl = 3 ] ],
    [ op |-> "movds", sel |-> KData ] }

Switch == { Returning, [ op |-> "int", vec |-> 35 ], [ op |-> "jmpf", sel |-> <<8, 0>> ] }

Tasks == Switch \cup { Fault, Own(User), [ op |-> "callf", sel |-> Other ] }

\* LTR, which makes a task of what another task has left
NewTask == Switch \cup { Fault, [ op |-> "ltr", sel |-> <<8, 0>> ] }

AllGuests ==
  { [ ops |-> Gates, depth |-> 2 ], [ ops |-> Segments, depth |-> 2 ],
    [ ops |-> Virtual, depth |-> 2 ], [ ops |-> Tasks, depth |-> 1 ],
    [ ops |-> NewTask, depth |-> 1 ] }

-----------------------------------------------------------------------------
VARIABLES
  bench,                                    \* which of the three is in use
  number, start, s                          \* the idioms

idiom == <<number, start, s>>

\* These tables are such that the level is always right.
ASSUME TasksApart

N == INSTANCE Idioms WITH Programs <- AllIdioms

\* What an idle bench starts with makes no difference.
MCInit ==
    /\ bench \in {"strings", "idioms", "protection"}
    /\ \/ bench = "strings"
       \/ program = CHOOSE p \in Programs : TRUE
    /\ Init
    /\ \/ bench = "idioms"
       \/ number = 1 /\ start = CHOOSE x \in AllIdioms[1].inputs : TRUE
    /\ N!Init
    /\ bench = "idioms" \/ s.f["cf"] = 0
    /\ \/ bench = "protection"
       \/ guest = CHOOSE g \in AllGuests : TRUE
    /\ ProtectionInit
    /\ bench = "protection" \/ r.cs = KCode

InStrings    == bench = "strings" /\ UNCHANGED <<bench, idiom, protection>>
InIdioms     == bench = "idioms" /\ UNCHANGED <<bench, vars, protection>>
InProtection == bench = "protection" /\ UNCHANGED <<bench, vars, idiom>>

MCNext ==
    (InStrings /\ Next) \/ (InIdioms /\ N!Next) \/ (InProtection /\ ProtectionNext)

MCSpec == MCInit /\ [][MCNext]_<<bench, vars, idiom, protection>>

-----------------------------------------------------------------------------

\* The results that sequences of integer instructions in cpu.c are written
\* for come out, whatever flags, carries and borrows they pass on.
IdiomsExact == N!IdiomsExact
=============================================================================
