-------------------------------- MODULE Idioms --------------------------------
(***************************************************************************)
(* The integer instructions of the CPU (cpu.c, cpuhelper.h).  The code has *)
(* each of them for operands of 8, 16 and 32 bits, alike but for the       *)
(* width, so that here the width is a field of the state s:                *)
(*   s.w    bits of an operand      s.r    registers and memory operands   *)
(*   s.f    the flags, 0 or 1       s.bits memory that bit strings address *)
(*   s.de   was the divide error raised?                                   *)
(* Register "a" is AL, AX or EAX; "d" is AH for bytes and DX or EDX else.  *)
(* An operand is a register's name or, for a source, an immediate's.       *)
(***************************************************************************)
EXTENDS Integers, Bitwise, Sequences

Flag == {"cf", "pf", "af", "zf", "sf", "of"}

Bool(b) == IF b THEN 1 ELSE 0

Low(w, v)    == v % 2^w
Top(w, v)    == v \div 2^(w - 1) % 2
Second(w, v) == v \div 2^(w - 2) % 2
Bit(v, n)    == v \div 2^n % 2
Signed(w, v) == IF Top(w, v) = 1 THEN v - 2^w ELSE v

\* A source operand: a register's name or an immediate's.
Immediate == [ zero |-> 0, one |-> 1, two |-> 2 ]

Value(s, o) == IF o \in DOMAIN Immediate THEN Immediate[o] ELSE s.r[o]

Put(s, o, v, f) == [ s EXCEPT !.r[o] = v, !.f = f ]

-----------------------------------------------------------------------------
(* Flags                                                                   *)

\* The table parity[] holds 1 for an even number of ones in the low byte.
Parity(v) == LET ones[n \in 0 .. 8] == IF n = 0 THEN 0
                                       ELSE ones[n - 1] + Bit(v, n - 1)
             IN  Bool(ones[8] % 2 = 0)

FlagSzp(f, w, v) ==
    [ f EXCEPT !.zf = Bool(v = 0), !.sf = Top(w, v), !.pf = Parity(v) ]

FlagLog(f, w, v) == [ FlagSzp(f, w, v) EXCEPT !.cf = 0, !.of = 0 ]

\* Bit 4 of v1 ^ v2 ^ dst: a carry out of the low digit.
Half(v1, v2, dst) == (Bit(v1, 4) + Bit(v2, 4) + Bit(dst, 4)) % 2

\* dst is computed in twice the width.
FlagAdc(f, w, v1, v2, v3) ==
    LET dst == v1 + v2 + v3
    IN  [ FlagSzp(f, w, Low(w, dst)) EXCEPT
            !.of = Bool(Top(w, dst) # Top(w, v1) /\ Top(w, dst) # Top(w, v2)),
            !.cf = Bool(dst >= 2^w),
            !.af = Half(v1, v2, dst) ]

FlagAdd(f, w, v1, v2) == FlagAdc(f, w, v1, v2, 0)

\* Mutant of FlagSbb: source and borrow are added in the operand's width.
FlagSbbNarrow(f, w, v1, v2, v3) ==
    LET src == Low(w, v2 + v3)
        dst == Low(2 * w, v1 - src)
    IN  [ FlagSzp(f, w, Low(w, dst)) EXCEPT
            !.of = Bool(Top(w, dst) # Top(w, v1) /\ Top(w, v1) # Top(w, v2)),
            !.cf = Bool(dst >= 2^w),
            !.af = Half(v1, v2, dst) ]

FlagSbb(f, w, v1, v2, v3) ==
    LET dst == Low(2 * w, v1 - (v2 + v3))
    IN  [ FlagSzp(f, w, Low(w, dst)) EXCEPT
            !.of = Bool(Top(w, dst) # Top(w, v1) /\ Top(w, v1) # Top(w, v2)),
            !.cf = Bool(dst >= 2^w),
            !.af = Half(v1, v2, dst) ]

FlagSub(f, w, v1, v2) == FlagSbb(f, w, v1, v2, 0)

-----------------------------------------------------------------------------
(* The eight operations that share their encodings                         *)

Add(s, d, o) == LET v == Value(s, o) IN
    Put(s, d, Low(s.w, s.r[d] + v), FlagAdd(s.f, s.w, s.r[d], v))

LogOr(s, d, o) == LET v == s.r[d] | Value(s, o) IN
    Put(s, d, v, FlagLog(s.f, s.w, v))

Adc(s, d, o) == LET v == Value(s, o) IN
    Put(s, d, Low(s.w, s.r[d] + v + s.f.cf),
        FlagAdc(s.f, s.w, s.r[d], v, s.f.cf))

Sbb(s, d, o) == LET v == Value(s, o) IN
    Put(s, d, Low(s.w, s.r[d] - (v + s.f.cf)),
        FlagSbb(s.f, s.w, s.r[d], v, s.f.cf))

LogAnd(s, d, o) == LET v == s.r[d] & Value(s, o) IN
    Put(s, d, v, FlagLog(s.f, s.w, v))

Sub(s, d, o) == LET v == Value(s, o) IN
    Put(s, d, Low(s.w, s.r[d] - v), FlagSub(s.f, s.w, s.r[d], v))

LogXor(s, d, o) == LET v == s.r[d] ^^ Value(s, o) IN
    Put(s, d, v, FlagLog(s.f, s.w, v))

Cmp(s, d, o) == [ s EXCEPT !.f = FlagSub(@, s.w, s.r[d], Value(s, o)) ]

Test(s, d, o) == [ s EXCEPT !.f = FlagLog(@, s.w, s.r[d] & Value(s, o)) ]

\* INC and DEC leave the carry.
Inc(s, d) == [ Add(s, d, "one") EXCEPT !.f.cf = s.f.cf ]
Dec(s, d) == [ Sub(s, d, "one") EXCEPT !.f.cf = s.f.cf ]

-----------------------------------------------------------------------------
(* Shifts and rotates: one bit at a time on p = [v, cf]                    *)

Rol1(w, p) == [ v |-> Low(w, 2 * p.v) + Top(w, p.v), cf |-> Top(w, p.v) ]
Ror1(w, p) == [ v |-> p.v \div 2 + Bit(p.v, 0) * 2^(w - 1),
                cf |-> Bit(p.v, 0) ]
Rcl1(w, p) == [ v |-> Low(w, 2 * p.v) + p.cf, cf |-> Top(w, p.v) ]
Rcr1(w, p) == [ v |-> p.v \div 2 + p.cf * 2^(w - 1), cf |-> Bit(p.v, 0) ]
Shl1(w, p) == [ v |-> Low(w, 2 * p.v), cf |-> Top(w, p.v) ]
Shr1(w, p) == [ v |-> p.v \div 2, cf |-> Bit(p.v, 0) ]
Sar1(w, p) == [ v |-> p.v \div 2 + Top(w, p.v) * 2^(w - 1),
                cf |-> Bit(p.v, 0) ]

Step(op, w, p) == CASE op = "rol" -> Rol1(w, p) [] op = "ror" -> Ror1(w, p)
                    [] op = "rcl" -> Rcl1(w, p) [] op = "rcr" -> Rcr1(w, p)
                    [] op = "shl" -> Shl1(w, p) [] op = "shr" -> Shr1(w, p)
                    [] op = "sar" -> Sar1(w, p)

\* The count is reduced to 5 bits, then rotates drop whole turns (a turn
\* through the carry is one bit longer).  With 32 bits there are none.
Turns(op, w, n) == CASE op \in {"rol", "ror"} /\ w < 32 -> (n % 32) % w
                     [] op \in {"rcl", "rcr"} /\ w < 32 -> (n % 32) % (w + 1)
                     [] OTHER                           -> n % 32

\* OF after a shift of v to p by n; only a shift by one defines it, SHR and
\* SAR set it always.
OverflowOf(op, w, n, v, p, old) ==
    CASE op = "sar" -> 0
      [] op = "shr" -> Bool(n = 1 /\ Top(w, v) = 1)
      [] op \in {"rol", "rcl", "shl"} /\ n = 1 -> (Top(w, p.v) + p.cf) % 2
      [] op \in {"ror", "rcr"} /\ n = 1 -> (Top(w, p.v) + Second(w, p.v)) % 2
      [] OTHER -> old

\* op_grp2.  A count of zero changes nothing.
Grp2(s, op, d, count) ==
    LET n == Turns(op, s.w, count)
        run[k \in 0 .. n] == IF k = 0 THEN [ v |-> s.r[d], cf |-> s.f.cf ]
                             ELSE Step(op, s.w, run[k - 1])
        p == run[n]
        f == [ s.f EXCEPT !.cf = p.cf,
                          !.of = OverflowOf(op, s.w, n, s.r[d], p, @) ]
    IN  IF n = 0 THEN s
        ELSE Put(s, d, p.v, IF op \in {"shl", "shr", "sar"}
                            THEN FlagSzp(f, s.w, p.v) ELSE f)

\* SHLD and SHRD: the bits come from the register o.
Shld(s, d, o, count) ==
    LET n    == count % 32
        both == s.r[d] * 2^s.w + s.r[o]
        v    == ((both * 2^n) \div 2^s.w) % 2^s.w
        cf   == both \div 2^(2 * s.w - n) % 2
    IN  IF n = 0 THEN s
        ELSE Put(s, d, v, [ FlagSzp(s.f, s.w, v) EXCEPT !.cf = cf,
                 !.of = IF n = 1 THEN (Top(s.w, v) + cf) % 2 ELSE 0 ])

Shrd(s, d, o, count) ==
    LET n    == count % 32
        both == s.r[o] * 2^s.w + s.r[d]
        v    == both \div 2^n % 2^s.w
    IN  IF n = 0 THEN s
        ELSE Put(s, d, v, [ FlagSzp(s.f, s.w, v) EXCEPT
                 !.cf = Bit(both, n - 1),
                 !.of = IF n = 1 THEN Bool(Top(s.w, v) # Top(s.w, s.r[d]))
                        ELSE @ ])

-----------------------------------------------------------------------------
(* Multiplication and division (op_grp3, IMUL)                             *)

Complement(s, d) == [ s EXCEPT !.r[d] = 2^s.w - 1 - @ ]

Neg(s, d) ==
    LET v == Low(s.w, - s.r[d])
    IN  Put(s, d, v, [ FlagSub(s.f, s.w, 0, s.r[d]) EXCEPT !.cf = Bool(v # 0) ])

\* The double-width value in d:a.
Double(s) == s.r["d"] * 2^s.w + s.r["a"]

PutDouble(s, v) == [ s EXCEPT !.r["a"] = Low(s.w, v),
                              !.r["d"] = Low(s.w, v \div 2^s.w) ]

Wide(s, b) == [ s EXCEPT !.f.cf = Bool(b), !.f.of = Bool(b) ]

Fits(w, v) == v \in -(2^(w - 1)) .. 2^(w - 1) - 1

Mul(s, o) ==
    LET n == PutDouble(s, s.r["a"] * s.r[o]) IN Wide(n, n.r["d"] # 0)

IMul(s, o) ==
    LET v == Signed(s.w, s.r["a"]) * Signed(s.w, s.r[o])
    IN  Wide(PutDouble(s, Low(2 * s.w, v)), ~Fits(s.w, v))

\* The forms with one or two more operands keep the low half.
IMul2(s, d, o) ==
    LET v == Signed(s.w, s.r[d]) * Signed(s.w, Value(s, o))
    IN  Wide([ s EXCEPT !.r[d] = Low(s.w, v) ], ~Fits(s.w, v))

IMul3(s, d, o, imm) ==
    LET v == Signed(s.w, s.r[o]) * Signed(s.w, imm)
    IN  Wide([ s EXCEPT !.r[d] = Low(s.w, v) ], ~Fits(s.w, v))

Div(s, o) ==
    IF s.r[o] = 0 \/ Double(s) \div s.r[o] >= 2^s.w THEN [ s EXCEPT !.de = TRUE ]
    ELSE [ s EXCEPT !.r["a"] = Double(s) \div s.r[o],
                    !.r["d"] = Double(s) % s.r[o] ]

\* C divides towards zero; the remainder has the dividend's sign.
Quotient(n, d) == LET q == (IF n < 0 THEN -n ELSE n) \div
                           (IF d < 0 THEN -d ELSE d)
                  IN  IF (n < 0) = (d < 0) THEN q ELSE -q

IDiv(s, o) ==
    LET n == Signed(2 * s.w, Double(s))
        d == Signed(s.w, s.r[o])
        q == Quotient(n, d)
    IN  IF d = 0 THEN [ s EXCEPT !.de = TRUE ]
        ELSE IF ~Fits(s.w, q) THEN [ s EXCEPT !.de = TRUE ]
        ELSE [ s EXCEPT !.r["a"] = Low(s.w, q),
                        !.r["d"] = Low(s.w, n - q * d) ]

\* CWD and CDQ.
Cwd(s) == [ s EXCEPT !.r["d"] = IF Top(s.w, s.r["a"]) = 1 THEN 2^s.w - 1
                                ELSE 0 ]
-----------------------------------------------------------------------------
(* Bits                                                                    *)

\* A bit string in memory: element n of s.bits is the operand n * s.w bits
\* from the address.  The offset is signed, and division rounds down.
Element(s, off) == Signed(s.w, off) \div s.w

BitAfter(op, old) == CASE op = "bt" -> old [] op = "bts" -> 1
                       [] op = "btr" -> 0 [] op = "btc" -> 1 - old

WithBit(v, n, b) == v + (b - Bit(v, n)) * 2^n

\* BT, BTS, BTR and BTC on a register or with an immediate: the operand
\* itself, whatever the offset.
BitOp(s, op, d, o) ==
    LET n == Value(s, o) % s.w
        b == Bit(s.r[d], n)
    IN  [ s EXCEPT !.r[d] = WithBit(@, n, BitAfter(op, b)), !.f.cf = b ]

\* ... and on memory with the offset in a register.
BitString(s, op, o) ==
    LET n == s.r[o] % s.w
        e == Element(s, s.r[o])
        b == Bit(s.bits[e], n)
    IN  [ s EXCEPT !.bits[e] = WithBit(@, n, BitAfter(op, b)), !.f.cf = b ]

\* BSF and BSR: nothing but ZF when the source is zero.
Scan(s, d, o, ones, first) ==
    IF s.r[o] = 0 THEN [ s EXCEPT !.f.zf = 1 ]
    ELSE [ s EXCEPT !.f.zf = 0, !.r[d] = first ]

Ones(s, o) == { n \in 0 .. s.w - 1 : Bit(s.r[o], n) = 1 }

Bsf(s, d, o) == Scan(s, d, o, Ones(s, o),
                     CHOOSE n \in Ones(s, o) : \A k \in Ones(s, o) : n <= k)
Bsr(s, d, o) == Scan(s, d, o, Ones(s, o),
                     CHOOSE n \in Ones(s, o) : \A k \in Ones(s, o) : n >= k)

-----------------------------------------------------------------------------
(* Exchanges and moves                                                     *)

Mov(s, d, o)  == [ s EXCEPT !.r[d] = Value(s, o) ]

Xchg(s, d, o) == [ s EXCEPT !.r[d] = s.r[o], !.r[o] = s.r[d] ]

\* XADD: the sum goes to d and then the old value to o.
XAdd(s, d, o) == [ Add(s, d, o) EXCEPT !.r[o] = s.r[d] ]

\* CMPXCHG
CmpXchg(s, d, o) ==
    LET n == [ s EXCEPT !.f = FlagSub(@, s.w, s.r["a"], s.r[d]) ]
    IN  IF n.f.zf = 1 THEN [ n EXCEPT !.r[d] = s.r[o] ]
        ELSE [ n EXCEPT !.r["a"] = s.r[d] ]

\* MOVZX and MOVSX from n bits.
MovZx(s, d, o, n) == [ s EXCEPT !.r[d] = Low(n, s.r[o]) ]
MovSx(s, d, o, n) == [ s EXCEPT !.r[d] = Low(s.w, Signed(n, Low(n, s.r[o]))) ]

-----------------------------------------------------------------------------
(* Conditions                                                              *)

\* The sixteen conditions, by their number in the opcode.
Holds(f, cc) ==
    LET even == CASE cc \div 2 = 0 -> f.of = 1
                  [] cc \div 2 = 1 -> f.cf = 1
                  [] cc \div 2 = 2 -> f.zf = 1
                  [] cc \div 2 = 3 -> f.cf = 1 \/ f.zf = 1
                  [] cc \div 2 = 4 -> f.sf = 1
                  [] cc \div 2 = 5 -> f.pf = 1
                  [] cc \div 2 = 6 -> f.sf # f.of
                  [] cc \div 2 = 7 -> f.zf = 1 \/ f.sf # f.of
    IN  even = (cc % 2 = 0)

JumpIf(s, cc, to)  == IF Holds(s.f, cc) THEN [ s EXCEPT !.pc = to ] ELSE s
JumpNear(s, cc, to) == JumpIf(s, cc, to)
SetIf(s, cc, d)    == [ s EXCEPT !.r[d] = Bool(Holds(s.f, cc)) ]
MoveIf(s, cc, d, o) == IF Holds(s.f, cc) THEN Mov(s, d, o) ELSE s

\* LOOP, LOOPE, LOOPNE and JCXZ, with the count in register "c".
Loop(s, more, to) ==
    LET n == [ s EXCEPT !.r["c"] = Low(s.w, @ - 1) ]
    IN  IF n.r["c"] # 0 /\ more THEN [ n EXCEPT !.pc = to ] ELSE n

JumpCxz(s, to) == IF s.r["c"] = 0 THEN [ s EXCEPT !.pc = to ] ELSE s

-----------------------------------------------------------------------------
(* Decimal adjustment, of bytes; "d" is AH                                 *)

Digit(v) == v % 16

Daa(s) ==
    LET low  == Digit(s.r["a"]) > 9 \/ s.f.af = 1
        high == s.r["a"] > 153 \/ s.f.cf = 1
        v    == Low(8, s.r["a"] + (IF low THEN 6 ELSE 0)
                                + (IF high THEN 96 ELSE 0))
    IN  Put(s, "a", v, [ FlagSzp(s.f, 8, v) EXCEPT !.af = Bool(low),
                                                   !.cf = Bool(high) ])

\* DAS: the borrow of the low digit's adjustment is a borrow.
Das(s) ==
    LET low  == Digit(s.r["a"]) > 9 \/ s.f.af = 1
        high == s.r["a"] > 153 \/ s.f.cf = 1
        v    == Low(8, s.r["a"] - (IF low THEN 6 ELSE 0)
                                - (IF high THEN 96 ELSE 0))
    IN  Put(s, "a", v, [ FlagSzp(s.f, 8, v) EXCEPT
             !.af = Bool(low),
             !.cf = Bool(high \/ (low /\ s.r["a"] < 6)) ])

\* AAA (up = 1) and AAS (up = -1).
Aaa(s, up) ==
    LET low == Digit(s.r["a"]) > 9 \/ s.f.af = 1
    IN  [ s EXCEPT !.r["a"] = Digit(IF low THEN @ + up * 6 ELSE @),
                   !.r["d"] = IF low THEN Low(8, @ + up) ELSE @,
                   !.f.af = Bool(low), !.f.cf = Bool(low) ]

Aam(s, base) ==
    IF base = 0 THEN [ s EXCEPT !.de = TRUE ]
    ELSE [ s EXCEPT !.r["a"] = s.r["a"] % base,
                    !.r["d"] = s.r["a"] \div base,
                    !.f = FlagSzp(@, 8, s.r["a"] % base) ]

Aad(s, base) ==
    LET v == Low(8, s.r["d"] * base + s.r["a"])
    IN  [ s EXCEPT !.r["a"] = v, !.r["d"] = 0, !.f = FlagSzp(@, 8, v) ]

-----------------------------------------------------------------------------
(***************************************************************************)
(* Sequences of instructions that programs rely on: arithmetic on numbers  *)
(* of several words, through flags that pass from one instruction to the   *)
(* next, comparisons and branches, decimal arithmetic, loops and bit       *)
(* strings.  A guest executes one of them on operands of its choice, one   *)
(* instruction at a time as cpu_exec does, to its end.                     *)
(***************************************************************************)

CONSTANT Programs    \* a sequence of [name, w, cc, code, inputs]

VARIABLES
  number,    \* of the program that is executed
  start,     \* its registers at the start
  s          \* the state, with s.pc the number of the next instruction

vars == <<number, start, s>>

program == Programs[number]

Exec(n, i) ==
    CASE i.op = "add"  -> Add(n, i.d, i.o)  [] i.op = "or"   -> LogOr(n, i.d, i.o)
      [] i.op = "adc"  -> Adc(n, i.d, i.o)  [] i.op = "sbb"  -> Sbb(n, i.d, i.o)
      [] i.op = "and"  -> LogAnd(n, i.d, i.o)  [] i.op = "sub"  -> Sub(n, i.d, i.o)
      [] i.op = "xor"  -> LogXor(n, i.d, i.o)  [] i.op = "cmp"  -> Cmp(n, i.d, i.o)
      [] i.op = "test" -> Test(n, i.d, i.o) [] i.op = "mov"  -> Mov(n, i.d, i.o)
      [] i.op = "inc"  -> Inc(n, i.d)       [] i.op = "dec"  -> Dec(n, i.d)
      [] i.op = "neg"  -> Neg(n, i.d)       [] i.op = "not"  -> Complement(n, i.d)
      [] i.op = "mul"  -> Mul(n, i.o)       [] i.op = "imul" -> IMul(n, i.o)
      [] i.op = "div"  -> Div(n, i.o)       [] i.op = "idiv" -> IDiv(n, i.o)
      [] i.op = "cwd"  -> Cwd(n)            [] i.op = "xchg" -> Xchg(n, i.d, i.o)
      [] i.op = "xadd" -> XAdd(n, i.d, i.o)
      [] i.op = "cmpxchg" -> CmpXchg(n, i.d, i.o)
      [] i.op \in {"rol", "ror", "rcl", "rcr", "shl", "shr", "sar"} ->
             Grp2(n, i.op, i.d, Value(n, i.o))
      [] i.op = "shld" -> Shld(n, i.d, i.o, Value(n, i.n))
      [] i.op = "shrd" -> Shrd(n, i.d, i.o, Value(n, i.n))
      [] i.op = "imul2" -> IMul2(n, i.d, i.o)
      [] i.op = "imul3" -> IMul3(n, i.d, i.o, i.n)
      [] i.op = "bsf"  -> Bsf(n, i.d, i.o)  [] i.op = "bsr"  -> Bsr(n, i.d, i.o)
      [] i.op \in {"bt", "bts", "btr", "btc"} -> BitOp(n, i.op, i.d, i.o)
      [] i.op = "string" -> BitString(n, i.bop, i.o)
      [] i.op = "movzx" -> MovZx(n, i.d, i.o, i.n)
      [] i.op = "movsx" -> MovSx(n, i.d, i.o, i.n)
      [] i.op = "jcc"   -> JumpIf(n, i.cc, i.to)
      [] i.op = "jnear" -> JumpNear(n, i.cc, i.to)
      [] i.op = "setcc" -> SetIf(n, i.cc, i.d)
      [] i.op = "cmov"  -> MoveIf(n, i.cc, i.d, i.o)
      [] i.op = "loop"  -> Loop(n, TRUE, i.to)
      [] i.op = "loope" -> Loop(n, n.f.zf = 1, i.to)
      [] i.op = "loopne" -> Loop(n, n.f.zf = 0, i.to)
      [] i.op = "jcxz"  -> JumpCxz(n, i.to)
      [] i.op = "daa"   -> Daa(n)      [] i.op = "das"   -> Das(n)
      [] i.op = "aaa"   -> Aaa(n, 1)   [] i.op = "aas"   -> Aaa(n, -1)
      [] i.op = "aam"   -> Aam(n, 10)  [] i.op = "aad"   -> Aad(n, 10)

Ended == s.pc > Len(program.code) \/ s.de

Begin(p, r, f, bits) ==
    [ w |-> p.w, r |-> r, f |-> f, bits |-> bits, de |-> FALSE, pc |-> 1 ]

\* The flags may hold anything when a program begins.
Init ==
    /\ number \in DOMAIN Programs
    /\ start \in program.inputs
    /\ \E b \in {0, 1} :
         s = Begin(program, start, [ x \in Flag |-> b ],
                   [ e \in -2 .. 1 |-> start["x"] ])

\* The divide error ends the program: its handler does.
Instruction ==
    /\ ~Ended
    /\ s' = Exec([ s EXCEPT !.pc = @ + 1 ], program.code[s.pc])
    /\ UNCHANGED <<number, start>>

Next == Instruction

Spec == Init /\ [][Next]_vars

-----------------------------------------------------------------------------
(* What the programs are for                                               *)

\* Two words, high and low, as one number, before and after.
Was(h, l) == start[h] * 2^s.w + start[l]
Is(h, l)  == s.r[h] * 2^s.w + s.r[l]
Whole     == 2^(2 * s.w)
SignedWas(h, l) == Signed(2 * s.w, Was(h, l))

\* The decimal number that two digits of a byte stand for.
Bcd(v) == 10 * (v \div 16) + Digit(v)

\* The position of bit n of string element e, from the address.
BitsBefore == [ k \in -2 * s.w .. 2 * s.w - 1 |-> Bit(start["x"], k % s.w) ]
BitsAfter  == [ k \in -2 * s.w .. 2 * s.w - 1 |->
                  Bit(s.bits[k \div s.w], k % s.w) ]

Less(cc) == CASE cc = 0 -> ~Fits(s.w, Signed(s.w, start["a"])
                                      - Signed(s.w, start["b"]))
              [] cc = 8 -> Top(s.w, Low(s.w, start["a"] - start["b"])) = 1
              [] cc = 10 -> Parity(Low(s.w, start["a"] - start["b"])) = 1
              [] cc = 2 -> start["a"] < start["b"]
              [] cc = 4 -> start["a"] = start["b"]
              [] cc = 6 -> start["a"] <= start["b"]
              [] cc = 12 -> Signed(s.w, start["a"]) < Signed(s.w, start["b"])
              [] cc = 14 -> Signed(s.w, start["a"]) <= Signed(s.w, start["b"])

Result ==
    CASE program.name = "add" ->
           /\ Is("b", "a") + s.f.cf * Whole = Was("b", "a") + Was("y", "x")
           /\ s.f.of = Bool(~Fits(2 * s.w, SignedWas("b", "a")
                                           + SignedWas("y", "x")))
      [] program.name = "sub" ->
           /\ Is("b", "a") - s.f.cf * Whole = Was("b", "a") - Was("y", "x")
           /\ s.f.of = Bool(~Fits(2 * s.w, SignedWas("b", "a")
                                           - SignedWas("y", "x")))
      [] program.name \in {"compare", "branch"} ->
           s.r["x"] = Bool(Less(program.cc))
      [] program.name = "not less" -> s.r["x"] = Bool(~Less(program.cc - 1))
      [] program.name = "order" ->
           s.r["c"] = Bool(SignedWas("b", "a") < SignedWas("y", "x"))
      [] program.name = "shift left" ->
           Is("b", "a") = (Was("b", "a") * 2^start["c"]) % Whole
      [] program.name = "shift right" ->
           Is("b", "a") = Was("b", "a") \div 2^start["c"]
      [] program.name = "shift signed" ->
           Is("b", "a") = Low(2 * s.w, SignedWas("b", "a") \div 2)
      [] program.name = "turn" ->
           s.r["a"] = start["a"] /\ s.r["b"] = start["b"]
      [] program.name = "negate" -> Is("b", "a") = (-Was("b", "a")) % Whole
      [] program.name = "absolute" ->
           s.r["a"] = IF Top(s.w, start["a"]) = 1 THEN 2^s.w - start["a"]
                      ELSE start["a"]
      [] program.name = "multiply" ->
           s.r["x"] + s.r["y"] * 2^s.w + s.r["d"] * Whole
               = Was("b", "a") * start["c"]
      [] program.name = "divide" ->
           IF start["c"] = 0 THEN s.de
           ELSE /\ ~s.de
                /\ Is("x", "a") * start["c"] + s.r["d"] = Was("b", "a")
                /\ s.r["d"] < start["c"]
      [] program.name = "divide back" ->
           LET n == SignedWas("d", "a")
               c == Signed(s.w, start["c"])
           IN  IF c = 0 THEN s.de
               ELSE s.de = ~Fits(s.w, Quotient(n, c))
                    /\ (~s.de => Is("d", "a") = Was("d", "a"))
      [] program.name = "scale" ->
           /\ s.r["b"] = Low(s.w, 3 * start["a"])
           /\ s.r["c"] = Low(s.w, start["a"] * start["b"])
      [] program.name = "decimal add" ->
           LET sum == Bcd(start["a"]) + Bcd(start["x"])
                      + 100 * (Bcd(start["b"]) + Bcd(start["y"]))
           IN  Bcd(s.r["c"]) + 100 * Bcd(s.r["a"]) + 10000 * s.f.cf = sum
      [] program.name = "decimal sub" ->
           LET dif == Bcd(start["a"]) - Bcd(start["x"])
                      + 100 * (Bcd(start["b"]) - Bcd(start["y"]))
           IN  Bcd(s.r["c"]) + 100 * Bcd(s.r["a"]) - 10000 * s.f.cf = dif
      [] program.name = "digits add" ->
           s.r["a"] + 10 * s.r["d"] = start["a"] + start["x"]
      [] program.name = "digits sub" ->
           s.r["a"] - 10 * s.f.cf = start["a"] - start["x"]
      [] program.name = "digits product" ->
           /\ s.r["d"] * 10 + s.r["a"] = start["a"] * start["x"]
           /\ s.r["a"] < 10
      [] program.name = "digits divide" ->
           s.r["a"] * start["x"] + s.r["d"] = 10 * start["d"] + start["a"]
      [] program.name = "count ones" ->
           s.r["c"] = Low(s.w, LET n[k \in 0 .. s.w] ==
                                 IF k = 0 THEN 0
                                 ELSE n[k - 1] + Bit(start["a"], k - 1)
                               IN n[s.w])
      [] program.name = "highest" ->
           /\ start["a"] = 0 <=> s.f.zf = 1
           /\ start["a"] # 0 => start["a"] \div 2^s.r["b"] = 1
      [] program.name = "flip string" ->
           BitsAfter = [ BitsBefore EXCEPT
                           ![Signed(s.w, start["a"])] = 1 - @ ]
      [] program.name = "exchange" ->
           s.r["x"] = Low(s.w, start["x"] + start["b"])
           /\ s.r["b"] = start["x"]
      [] program.name = "swap" ->
           /\ s.r["x"] = IF start["a"] = start["x"] THEN start["b"]
                         ELSE start["x"]
           /\ s.r["a"] = start["x"]
      [] program.name = "widen" ->
           s.r["x"] = Low(s.w, Signed(s.w \div 2, Low(s.w \div 2, start["a"])))
      [] program.name = "mask" -> s.r["a"] = start["a"]
      [] program.name = "carry kept" ->
           Is("y", "b") = (Was("y", "b") + start["x"]) % Whole
      [] program.name = "halves" ->
           s.r["x"] + 2^(s.w \div 2) * s.r["y"] = start["a"]
      [] program.name = "bits" ->
           /\ Bit(s.r["a"], start["c"] % s.w) = 0 /\ s.f.cf = 0
           /\ s.r["a"] | 2^(start["c"] % s.w) = start["a"] | 2^(start["c"] % s.w)
      [] program.name = "equal" -> s.r["c"] = 0 /\ s.r["a"] = 1
      [] program.name = "sum" ->
           s.r["a"] = Low(s.w, start["a"] + start["c"] * start["x"])
      [] program.name = "search" ->
           s.f.zf = Bool(start["x"] \in 1 .. start["c"])

\* A program that has ended has computed what it is for, whatever flags it
\* began with: carries, borrows, overflows and digits passed from one
\* instruction to the next as the following ones need them.
IdiomsExact == Ended => Result
=============================================================================
