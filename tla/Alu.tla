--------------------------------- MODULE Alu ---------------------------------
(***************************************************************************)
(* The arithmetic and logic instructions of the processor (src/cpu.c), on  *)
(* registers of W bits where the code has 32 and with short operands of H  *)
(* bits where it has 16.  An instruction takes the value a of its first    *)
(* register, its second operand b and the flags, and gives what it leaves  *)
(* in the register and in the flags, or the divide error it raises.        *)
(***************************************************************************)
EXTENDS Integers, Sequences, Bitwise

CONSTANTS W, H

VARIABLES r, fl, prog, at, err, start

vars == <<r, fl, prog, at, err, start>>

Full  == 2 ^ W
Half  == 2 ^ H
Word  == 0 .. Full - 1
Flags == [z : BOOLEAN, c : BOOLEAN, s : BOOLEAN, v : BOOLEAN]

Bit(x, i)   == (x \div 2 ^ i) % 2
Neg(x)      == Bit(x, W - 1) = 1
Signed(x)   == IF Neg(x) THEN x - Full ELSE x
Abs(x)      == IF x < 0 THEN -x ELSE x
Quot(x, y)  == IF (x < 0) = (y < 0) THEN Abs(x) \div Abs(y) ELSE -(Abs(x) \div Abs(y))

Gives(x, f)   == [r |-> x, f |-> f, err |-> "none"]
Fails(a, f, e) == [r |-> a, f |-> f, err |-> e]

(***************************************************************************)
(* Flags                                                                   *)
(***************************************************************************)
setzscv(x, c, v) == [z |-> x = 0, c |-> c, s |-> Neg(x), v |-> v]
setzs(x, f)      == [f EXCEPT !.z = x = 0, !.s = Neg(x)]

(* The flags of the 16 bit forms.  Operands are whole registers.           *)
set_flags(a, b, x, sub) ==
    LET sa == Bit(a, H - 1)
        sb == Bit(b, H - 1)
        sr == Bit(x, H - 1)
    IN  [z |-> x % Half = 0,
         c |-> IF sub THEN b > a ELSE x >= Half,
         s |-> sr = 1,
         v |-> sr # sa /\ (IF sub THEN sa # sb ELSE sa = sb)]

(* The 32 bit forms with an immediate set their flags one by one           *)
ZCS(x, c)     == [z |-> x = 0, c |-> c, s |-> Neg(x), v |-> FALSE]
ZCSHalf(x, c) == [z |-> x = 0, c |-> c, s |-> Bit(x, H - 1) = 1, v |-> FALSE]

(***************************************************************************)
(* The helpers of the extended instructions                                *)
(***************************************************************************)
alu_add(a, b, c) ==
    LET x == (a + b + c) % Full
    IN  Gives(x, setzscv(x, a + b + c >= Full, Neg(a) = Neg(b) /\ Neg(a) # Neg(x)))

alu_sub(a, b, c) ==
    LET x == (a - b - c) % Full
    IN  Gives(x, setzscv(x, a < b + c, Neg(a) # Neg(b) /\ Neg(a) # Neg(x)))

alu_shift(kind, a, count, f) ==
    LET n == count % W IN
    IF n = 0 THEN Gives(a, setzs(a, f))
    ELSE LET x == CASE kind = "shl" -> (a * 2 ^ n) % Full
                    [] kind = "shr" -> a \div 2 ^ n
                    [] kind = "sar" -> (Signed(a) \div 2 ^ n) % Full
                    [] kind = "rol" -> ((a * 2 ^ n) % Full) + (a \div 2 ^ (W - n))
                    [] kind = "ror" -> (a \div 2 ^ n) + ((a * 2 ^ (W - n)) % Full)
             c == CASE kind = "shl" -> Bit(a, W - n)
                    [] kind \in {"shr", "sar"} -> Bit(a, n - 1)
                    [] kind = "rol" -> Bit(x, 0)
                    [] kind = "ror" -> Bit(x, W - 1)
         IN  Gives(x, setzscv(x, c = 1, FALSE))

alu_imul(a, b) ==
    LET p == Signed(a) * Signed(b)
        x == p % Full
    IN  Gives(x, setzscv(x, p # Signed(x), p # Signed(x)))

alu_mulh(a, b, sgn) ==
    LET x == IF sgn THEN ((Signed(a) * Signed(b)) \div Full) % Full ELSE (a * b) \div Full
    IN  Gives(x, setzscv(x, FALSE, FALSE))

alu_div(kind, a, b, f) ==
    IF b = 0 \/ (kind \in {"idiv", "imod"} /\ a = Full \div 2 /\ b = Full - 1) THEN Fails(a, f, "fault")
    ELSE LET q == Quot(Signed(a), Signed(b))
             x == CASE kind = "idiv" -> q % Full
                    [] kind = "umod" -> a % b
                    [] kind = "imod" -> (Signed(a) - q * Signed(b)) % Full
                    [] kind = "div" -> a \div b
         IN  Gives(x, setzscv(x, FALSE, FALSE))

(* Slip: signed less than is told from the sign alone                      *)
signOnly(op, f) ==
    CASE op = "BEQ" -> f.z          [] op = "BNE" -> ~f.z
      [] op = "BLT" -> f.s          [] op = "BGE" -> ~f.s
      [] op = "BLE" -> f.z \/ f.s   [] op = "BGT" -> ~f.z /\ ~f.s
      [] op = "BLO" -> f.c          [] op = "BHS" -> ~f.c
      [] op = "BLS" -> f.c \/ f.z   [] op = "BHI" -> ~f.c /\ ~f.z

cond(op, f) ==
    CASE op = "BEQ" -> f.z              [] op = "BNE" -> ~f.z
      [] op = "BLT" -> f.s # f.v        [] op = "BGE" -> f.s = f.v
      [] op = "BLE" -> f.z \/ f.s # f.v [] op = "BGT" -> ~f.z /\ f.s = f.v
      [] op = "BLO" -> f.c              [] op = "BHS" -> ~f.c
      [] op = "BLS" -> f.c \/ f.z       [] op = "BHI" -> ~f.c /\ ~f.z
      [] op = "BMI" -> f.s              [] op = "BPL" -> ~f.s
      [] op = "BVS" -> f.v              [] op = "BVC" -> ~f.v

(***************************************************************************)
(* The instructions of 16 bit results                                      *)
(***************************************************************************)
legacyShift(left, a, n, f) ==
    LET x == (IF left THEN (a * 2 ^ (n % W)) % Full ELSE a \div 2 ^ (n % W)) % Half
        c == IF left THEN Bit(a * 2 ^ (n - 1), H - 1) ELSE Bit(a, n - 1)
    IN  Gives(x, ZCSHalf(x, n > 0 /\ n <= H /\ c = 1))

legacyMul(a, b) ==
    LET p == (a * b) % Full
        x == p % Half
    IN  Gives(x, [ZCSHalf(x, p >= Half) EXCEPT !.v = p >= Half])

legacyDiv(a, b, f) ==
    IF b = 0 THEN Fails(a, f, "legacy")
    ELSE LET x == (a \div b) % Half IN Gives(x, ZCSHalf(x, FALSE))

legacy(op, a, b, f) ==
    CASE op = "LOAD" -> Gives(b, f)
      [] op = "MOV"  -> Gives(b, f)
      [] op \in {"ADD", "ADDR"} -> Gives((a + b) % Half, set_flags(a, b, (a + b) % Full, FALSE))
      [] op \in {"SUB", "SUBR"} -> Gives((a - b) % Half, set_flags(a, b, (a - b) % Half, TRUE))
      [] op \in {"CMP", "CMPR"} -> Gives(a, set_flags(a, b, (a - b) % Half, TRUE))
      [] op \in {"AND", "ANDR"} -> Gives(a & b, f)
      [] op \in {"OR", "ORR"}   -> Gives(a | b, f)
      [] op \in {"XOR", "XORR"} -> Gives(a ^^ b, f)
      [] op = "NOT" -> Gives((-1 - a) % Half, f)
      [] op = "SHL" -> legacyShift(TRUE, a, b, f)
      [] op = "SHR" -> legacyShift(FALSE, a, b, f)
      [] op \in {"MUL", "MULR"} -> legacyMul(a, b)
      [] op \in {"DIV", "DIVR"} -> legacyDiv(a, b, f)

(***************************************************************************)
(* The instructions of 32 bit results with an immediate                    *)
(***************************************************************************)
shift32(left, a, n) ==
    LET x == IF left THEN (a * 2 ^ (n % W)) % Full ELSE a \div 2 ^ (n % W)
        c == IF left THEN Bit(a * 2 ^ (n - 1), W - 1) ELSE Bit(a, n - 1)
    IN  Gives(x, ZCS(x, n > 0 /\ n <= W /\ c = 1))

mul32(a, b) ==
    LET x == (a * b) % Full IN Gives(x, [ZCS(x, a * b >= Full) EXCEPT !.v = a * b >= Full])

immediate(op, a, b, f) ==
    CASE op = "LOAD32" -> Gives(b, f)
      [] op = "ADD32" -> Gives((a + b) % Full, ZCS((a + b) % Full, a + b >= Full))
      [] op = "SUB32" -> Gives((a - b) % Full, ZCS((a - b) % Full, b > a))
      [] op = "CMP32" -> Gives(a, ZCS((a - b) % Full, b > a))
      [] op = "MUL32" -> mul32(a, b)
      [] op = "DIV32" -> IF b = 0 THEN Fails(a, f, "legacy") ELSE Gives(a \div b, ZCS(a \div b, FALSE))
      [] op = "SHL32" -> shift32(TRUE, a, b)
      [] op = "SHR32" -> shift32(FALSE, a, b)
      [] op = "AND32" -> Gives(a & b, f)
      [] op = "OR32"  -> Gives(a | b, f)
      [] op = "XOR32" -> Gives(a ^^ b, f)

(***************************************************************************)
(* The extended instructions                                               *)
(***************************************************************************)
extended(op, a, b, f) ==
    LET carry == IF f.c THEN 1 ELSE 0 IN
    CASE op \in {"ADC", "ADCI"} -> alu_add(a, b, carry)
      [] op \in {"SBB", "SBBI"} -> alu_sub(a, b, carry)
      [] op = "SHLV" -> alu_shift("shl", a, b, f)
      [] op = "SHRV" -> alu_shift("shr", a, b, f)
      [] op \in {"SARV", "SAR"} -> alu_shift("sar", a, b, f)
      [] op \in {"ROLV", "ROL"} -> alu_shift("rol", a, b, f)
      [] op \in {"RORV", "ROR"} -> alu_shift("ror", a, b, f)
      [] op \in {"IMUL", "IMULI"} -> alu_imul(a, b)
      [] op \in {"IDIV", "IDIVI"} -> alu_div("idiv", a, b, f)
      [] op \in {"UMOD", "UMODI"} -> alu_div("umod", a, b, f)
      [] op \in {"IMOD", "IMODI"} -> alu_div("imod", a, b, f)
      [] op = "DIV32R" -> alu_div("div", a, b, f)
      [] op \in {"TEST", "TESTI"} -> Gives(a, setzscv(a & b, FALSE, FALSE))
      [] op = "MULHU" -> alu_mulh(a, b, FALSE)
      [] op = "MULHS" -> alu_mulh(a, b, TRUE)
      [] op = "ADD32R" -> alu_add(a, b, 0)
      [] op = "SUB32R" -> alu_sub(a, b, 0)
      [] op = "CMP32R" -> [alu_sub(a, b, 0) EXCEPT !.r = a]
      [] op = "MUL32R" -> LET x == (a * b) % Full IN Gives(x, setzscv(x, a * b >= Full, a * b >= Full))
      [] op = "NEG" -> alu_sub(0, a, 0)

Legacy16 == {"LOAD", "ADD", "SUB", "CMP", "AND", "OR", "XOR", "NOT", "SHL", "SHR", "MUL", "DIV"}
LegacyR  == {"MOV", "ADDR", "SUBR", "CMPR", "ANDR", "ORR", "XORR", "MULR", "DIVR"}
Imm32    == {"LOAD32", "ADD32", "SUB32", "CMP32", "MUL32", "DIV32", "SHL32", "SHR32", "AND32", "OR32", "XOR32"}
Extended == {"ADC", "ADCI", "SBB", "SBBI", "SHLV", "SHRV", "SARV", "SAR", "ROLV", "ROL", "RORV", "ROR", "IMUL", "IMULI",
             "IDIV", "IDIVI", "UMOD", "UMODI", "IMOD", "IMODI", "DIV32R", "TEST", "TESTI", "MULHU", "MULHS",
             "ADD32R", "SUB32R", "CMP32R", "MUL32R", "NEG"}
Ops == Legacy16 \cup LegacyR \cup Imm32 \cup Extended

(* An immediate of 16 bits has only those                                  *)
Operand(op, b) == IF op \in Legacy16 THEN b % Half ELSE b

Does(op, a, b, f) ==
    LET v == Operand(op, b)
    IN  CASE op \in Legacy16 \cup LegacyR -> legacy(op, a, v, f)
          [] op \in Imm32    -> immediate(op, a, v, f)
          [] op \in Extended -> extended(op, a, v, f)

(***************************************************************************)
(* A short program: each instruction is <<op, d, s>>; an error ends it     *)
(***************************************************************************)
execute_instruction ==
    /\ at <= Len(prog) /\ err = "none"
    /\ LET i == prog[at]
           x == Does(i[1], r[i[2]], r[i[3]], fl)
       IN  r' = [r EXCEPT ![i[2]] = x.r] /\ fl' = x.f /\ err' = x.err
    /\ at' = at + 1
    /\ UNCHANGED <<prog, start>>

Done == at > Len(prog) \/ err # "none"

------------------------------------------------------------------------------
(***************************************************************************)
(* Every instruction on every pair of operands, and the pairs of           *)
(* instructions programs use together on the two halves of a long number,  *)
(* a product or a division.                                                *)
(***************************************************************************)

F0(c, v) == [z |-> FALSE, c |-> c, s |-> FALSE, v |-> v]

(* Instructions whose result depends on the flags they find                *)
Single == {<<<<op, 0, 2>>>> : op \in Ops}
Wide   == {<<<<"ADD32R", 0, 2>>, <<"ADC", 1, 3>>>>, <<<<"SUB32R", 0, 2>>, <<"SBB", 1, 3>>>>,
           <<<<"ADD32", 0, 2>>, <<"ADCI", 1, 3>>>>, <<<<"SUB32", 0, 2>>, <<"SBBI", 1, 3>>>>,
           <<<<"CMP32R", 0, 2>>, <<"SBB", 1, 3>>>>}
Twin   == {<<<<"MUL32R", 0, 2>>, <<"MULHU", 1, 3>>>>, <<<<"IMUL", 0, 2>>, <<"MULHS", 1, 3>>>>,
           <<<<"IDIV", 0, 2>>, <<"IMOD", 1, 3>>>>, <<<<"DIV32R", 0, 2>>, <<"UMOD", 1, 3>>>>,
           <<<<"ROLV", 0, 2>>, <<"RORV", 0, 2>>>>}

Registers(p) == {x \in [0 .. 3 -> Word] : /\ (p \in Twin => x[1] = x[0] /\ x[3] = x[2])
                                          /\ (p \in Single => x[1] = 0 /\ x[3] = 0)}

MCInit == /\ prog \in Single \cup Wide \cup Twin
          /\ r \in Registers(prog)
          /\ fl \in {F0(c, v) : c, v \in BOOLEAN}
          /\ (prog \notin Single => ~fl.c /\ ~fl.v)
          /\ at = 1 /\ err = "none" /\ start = [r |-> r, fl |-> fl]
MCNext == execute_instruction
MCSpec == MCInit /\ [][MCNext]_vars

Ran(op)      == Done /\ prog = <<<<op, 0, 2>>>>
Both(o1, o2) == Done /\ err = "none" /\ Len(prog) = 2 /\ prog[1][1] \in o1 /\ prog[2][1] \in o2
A == start.r[0]
B == Operand(prog[1][1], start.r[2])

(* Two words as one number                                                 *)
Long(hi, lo)  == Full * hi + lo
SLong(hi, lo) == Full * Signed(hi) + lo
Fits(x)       == x >= -(2 ^ (2 * W - 1)) /\ x < 2 ^ (2 * W - 1)

(***************************************************************************)
(* Properties                                                              *)
(***************************************************************************)
(* Registers hold words and the flags are flags.                           *)
AluTypeOK == r \in [0 .. 3 -> Word] /\ fl \in Flags /\ err \in {"none", "fault", "legacy"}

Unsigned(a, b) == /\ cond("BEQ", fl) = (a = b) /\ cond("BNE", fl) = (a # b)
                  /\ cond("BLO", fl) = (a < b) /\ cond("BHS", fl) = (a >= b)
                  /\ cond("BLS", fl) = (a <= b) /\ cond("BHI", fl) = (a > b)
SignedOrder(a, b) == /\ cond("BLT", fl) = (a < b) /\ cond("BGE", fl) = (a >= b)
                     /\ cond("BLE", fl) = (a <= b) /\ cond("BGT", fl) = (a > b)
Short(x) == IF Bit(x, H - 1) = 1 THEN x - Half ELSE x

(* A branch after a compare or a subtraction is taken exactly when the     *)
(* operands compare that way, unsigned and signed, whatever overflows      *)
(* (alu_sub and cond; CMP32 with an immediate has no V and promises only   *)
(* the unsigned branches; the 16 bit forms compare 16 bit values).         *)
BranchesCompare ==
    /\ \A op \in {"CMP32R", "SUB32R"} : Ran(op) => Unsigned(A, B) /\ SignedOrder(Signed(A), Signed(B))
    /\ \A op \in {"CMP32", "SUB32"} : Ran(op) => Unsigned(A, B)
    /\ \A op \in {"CMP", "CMPR", "SUB", "SUBR"} :
          Ran(op) /\ A < Half /\ B < Half => Unsigned(A, B) /\ SignedOrder(Short(A), Short(B))
    /\ Ran("NEG") => cond("BEQ", fl) = (A = 0) /\ SignedOrder(0, Signed(A))

(* An addition or subtraction of the low words followed by one with carry  *)
(* of the high words is that of the double words, its carry and overflow   *)
(* included (ADD32R, ADC, SUB32R, SBB and their immediate forms).          *)
WideSumsCarry ==
    LET s  == start.r
        up == Long(s[1], s[0]) + Long(s[3], s[2])
        dn == Long(s[1], s[0]) - Long(s[3], s[2])
    IN  /\ Both({"ADD32R", "ADD32"}, {"ADC", "ADCI"}) =>
              /\ Long(r[1], r[0]) = up % (Full * Full) /\ fl.c = (up >= Full * Full)
              /\ fl.v = ~Fits(SLong(s[1], s[0]) + SLong(s[3], s[2]))
        /\ Both({"SUB32R", "SUB32"}, {"SBB", "SBBI"}) =>
              /\ Long(r[1], r[0]) = dn % (Full * Full) /\ fl.c = (dn < 0)
              /\ fl.v = ~Fits(SLong(s[1], s[0]) - SLong(s[3], s[2]))
        /\ Both({"CMP32R"}, {"SBB"}) =>
              /\ cond("BLO", fl) = (dn < 0)
              /\ cond("BLT", fl) = (SLong(s[1], s[0]) < SLong(s[3], s[2]))

(* The two multiplications of a pair give the two halves of the product,   *)
(* signed and unsigned, and the low one tells whether it fits (alu_imul,   *)
(* alu_mulh, MUL32R).                                                      *)
ProductWhole ==
    LET a == start.r[0]
        b == start.r[2]
        p == Signed(a) * Signed(b)
    IN  /\ Both({"MUL32R"}, {"MULHU"}) => Long(r[1], r[0]) = a * b
        /\ Both({"IMUL"}, {"MULHS"}) => SLong(r[1], r[0]) = p
        /\ Ran("IMUL") => fl.v = (p >= Full \div 2 \/ p < -(Full \div 2))
        /\ Ran("MUL32R") => fl.c = (a * b >= Full)

(* Quotient and remainder belong together, the remainder is smaller than   *)
(* the divisor and has the dividend's sign, and what no quotient of a word *)
(* can say is an error and changes nothing (alu_div).                      *)
DivisionExact ==
    LET a == start.r[0]
        b == start.r[2]
        q == Signed(r[0])
        m == Signed(r[1])
    IN  /\ Both({"IDIV"}, {"IMOD"}) =>
              /\ Signed(a) = q * Signed(b) + m /\ Abs(m) < Abs(Signed(b))
              /\ (m # 0 => (m < 0) = (Signed(a) < 0))
        /\ Both({"DIV32R"}, {"UMOD"}) => a = r[0] * b + r[1] /\ r[1] < b
        /\ err = "fault" => /\ (b = 0 \/ (Signed(a) = -(Full \div 2) /\ Signed(b) = -1))
                            /\ r = start.r /\ fl = start.fl

(* Shifts move bits and lose only what leaves the word: the last bit that  *)
(* left is in C, a count of zero leaves C and V alone, an arithmetic shift *)
(* divides rounding down, and rotating there and back changes nothing      *)
(* (alu_shift).                                                            *)
ShiftsMoveBits ==
    LET a == start.r[0]
        n == start.r[2] % W
    IN  /\ Ran("SHLV") => (IF fl.c /\ n > 0 THEN Full ELSE 0) + r[0] = (a * 2 ^ n) % (2 * Full)
                          \/ (n = 0 /\ r[0] = a)
        /\ \A op \in {"SHRV", "SARV", "SAR"} : Ran(op) =>
              /\ r[0] = (IF op = "SHRV" THEN a \div 2 ^ n ELSE (Signed(a) \div 2 ^ n) % Full)
              /\ n > 0 => fl.c = (Bit(a, n - 1) = 1) /\ ~fl.v
        /\ \A op \in {"SHLV", "SHRV", "SARV", "ROLV", "RORV", "SAR", "ROL", "ROR"} :
              Ran(op) /\ n = 0 => r[0] = a /\ fl.c = start.fl.c /\ fl.v = start.fl.v
        /\ Both({"ROLV"}, {"RORV"}) => r = start.r

Last(ops)   == Done /\ Len(prog) = 1 /\ prog[1][1] \in ops
Bits(f(_))  == \A i \in 0 .. W - 1 : Bit(r[0], i) = f(i)
Flagged(x, bits, c, v) == fl = [z |-> x = 0, c |-> c, s |-> Bit(x, bits - 1) = 1, v |-> v]

(* The logical instructions work bit by bit, and they and the moves leave  *)
(* the flags; TEST leaves the register and tells of the common bits.       *)
LogicBitwise ==
    LET and(i) == Bit(A, i) * Bit(B, i)
        or(i)  == IF Bit(A, i) + Bit(B, i) > 0 THEN 1 ELSE 0
        xor(i) == (Bit(A, i) + Bit(B, i)) % 2
        not(i) == IF i < H THEN 1 - Bit(A, i) ELSE 0
    IN  /\ Last({"AND", "ANDR", "AND32"}) => Bits(and)
        /\ Last({"OR", "ORR", "OR32"}) => Bits(or)
        /\ Last({"XOR", "XORR", "XOR32"}) => Bits(xor)
        /\ Last({"NOT"}) => Bits(not)
        /\ Last({"LOAD", "MOV", "LOAD32"}) => r[0] = B
        /\ Last({"AND", "ANDR", "AND32", "OR", "ORR", "OR32", "XOR", "XORR", "XOR32", "NOT", "LOAD", "MOV", "LOAD32"}) =>
              fl = start.fl
        /\ Last({"TEST", "TESTI"}) =>
              /\ r[0] = A /\ ~fl.c /\ ~fl.v
              /\ fl.z = (\A i \in 0 .. W - 1 : and(i) = 0) /\ fl.s = (and(W - 1) = 1)

(* The 16 bit instructions give the low 16 bits of what the registers      *)
(* give; on 16 bit operands C and V tell of the unsigned and of the signed *)
(* result.  A shift is by the count modulo 32, and C is the last bit that  *)
(* left when the count is at most 16.                                      *)
ShortRight ==
    LET small == A < Half /\ B < Half
        sum   == Short(A) + Short(B)
        diff  == Short(A) - Short(B)
        over(x) == x >= Half \div 2 \/ x < -(Half \div 2)
        n == B % W
        shl(i) == IF i < H /\ i >= n THEN Bit(A, i - n) ELSE 0
        shr(i) == IF i < H /\ i + n < W THEN Bit(A, i + n) ELSE 0
    IN  /\ Last({"ADD", "ADDR"}) => /\ r[0] < Half /\ (r[0] - A - B) % Half = 0
                                    /\ small => Flagged(r[0], H, r[0] < A, over(sum))
        /\ Last({"SUB", "SUBR"}) => /\ r[0] < Half /\ (r[0] + B - A) % Half = 0
                                    /\ small => Flagged(r[0], H, r[0] > A, over(diff))
        /\ Last({"CMP", "CMPR"}) => r[0] = A /\ (small => fl.v = over(diff))
        /\ Last({"MUL", "MULR"}) => /\ r[0] < Half /\ (r[0] - A * B) % Half = 0
                                    /\ A * B < Full => Flagged(r[0], H, A * B >= Half, A * B >= Half)
        /\ Last({"DIV", "DIVR"}) /\ B > 0 =>
              \E q \in Word : q % Half = r[0] /\ r[0] < Half /\ q * B <= A /\ A < (q + 1) * B /\ Flagged(r[0], H, FALSE, FALSE)
        /\ Last({"SHL"}) => Bits(shl) /\ Flagged(r[0], H, B > 0 /\ B <= H /\ Bit(A, H - B) = 1, FALSE)
        /\ Last({"SHR"}) => Bits(shr) /\ Flagged(r[0], H, B > 0 /\ B <= H /\ Bit(A, B - 1) = 1, FALSE)
        /\ err = "legacy" => B = 0 /\ r = start.r /\ fl = start.fl

(* The 32 bit instructions with an immediate give the word, C tells what   *)
(* left it, and V only that a product did; a shift is by the count modulo  *)
(* 32, and 32 itself still sets C.                                         *)
ImmediateRight ==
    LET n == B % W
        shl(i) == IF i >= n THEN Bit(A, i - n) ELSE 0
        shr(i) == IF i + n < W THEN Bit(A, i + n) ELSE 0
    IN  /\ Last({"ADD32"}) => (r[0] - A - B) % Full = 0 /\ Flagged(r[0], W, r[0] < A, FALSE)
        /\ Last({"SUB32"}) => (r[0] + B - A) % Full = 0 /\ Flagged(r[0], W, r[0] > A, FALSE)
        /\ Last({"CMP32"}) => r[0] = A /\ Flagged((A - B) % Full, W, A < B, FALSE)
        /\ Last({"MUL32"}) => (r[0] - A * B) % Full = 0 /\ Flagged(r[0], W, r[0] # A * B, r[0] # A * B)
        /\ Last({"DIV32"}) /\ B > 0 => r[0] * B <= A /\ A < (r[0] + 1) * B /\ Flagged(r[0], W, FALSE, FALSE)
        /\ Last({"SHL32"}) => Bits(shl) /\ Flagged(r[0], W, B > 0 /\ B <= W /\ Bit(A, W - B) = 1, FALSE)
        /\ Last({"SHR32"}) => Bits(shr) /\ Flagged(r[0], W, B > 0 /\ B <= W /\ Bit(A, B - 1) = 1, FALSE)

(* The forms of the extended instructions with an immediate, rotations,    *)
(* and the flags all of them leave.                                        *)
ExtendedRight ==
    LET n == B % W
        c == IF start.fl.c THEN 1 ELSE 0
        rol(i) == Bit(A, (i - n) % W)
        ror(i) == Bit(A, (i + n) % W)
        rest(q) == Signed(A) - q * Signed(B)
        exact(q) == Abs(rest(q)) < Abs(Signed(B)) /\ (rest(q) # 0 => (rest(q) < 0) = (Signed(A) < 0))
    IN  /\ Last({"ROLV", "ROL"}) => Bits(rol) /\ (n > 0 => fl.c = (Bit(A, W - n) = 1) /\ ~fl.v)
        /\ Last({"RORV", "ROR"}) => Bits(ror) /\ (n > 0 => fl.c = (Bit(A, n - 1) = 1) /\ ~fl.v)
        /\ Last({"ADD32R"}) => (r[0] - A - B) % Full = 0 /\ fl.c = (r[0] < A)
        /\ Last({"ADC", "ADCI"}) => (r[0] - A - B - c) % Full = 0 /\ fl.c = (A + B + c # r[0])
        /\ Last({"SBB", "SBBI"}) => (r[0] + B + c - A) % Full = 0 /\ fl.c = (A - B - c # r[0])
        /\ Last({"NEG"}) => (r[0] + A) % Full = 0
        /\ Last({"IMUL", "IMULI"}) =>
              (r[0] - A * B) % Full = 0 /\ fl.v = (Signed(r[0]) # Signed(A) * Signed(B)) /\ fl.c = fl.v
        /\ Last({"IDIV", "IDIVI"}) /\ err = "none" => exact(Signed(r[0]))
        /\ Last({"IMOD", "IMODI"}) /\ err = "none" => \E q \in -Full .. Full : exact(q) /\ rest(q) = Signed(r[0])
        /\ Last({"UMOD", "UMODI"}) /\ err = "none" => r[0] < B /\ \E q \in Word : A = q * B + r[0]
        /\ Last({"IDIV", "IDIVI", "IMOD", "IMODI", "UMOD", "UMODI", "DIV32R"}) =>
              (err = "fault") = (B = 0 \/ (prog[1][1] \notin {"UMOD", "UMODI", "DIV32R"} /\ Signed(A) = -(Full \div 2) /\ Signed(B) = -1))
        /\ Last(Extended \ {"TEST", "TESTI", "CMP32R"}) /\ err = "none" => fl.z = (r[0] = 0) /\ fl.s = Neg(r[0])

(* What an instruction computes, and the flags it leaves, are the          *)
(* arithmetic of words at every operand width (execute_instruction).  No   *)
(* promise is made of C and V of 16 bit sums of registers that hold more   *)
(* than 16 bits, and of C of their products that leave 32.                 *)
ArithmeticRight ==
    /\ AluTypeOK /\ BranchesCompare /\ WideSumsCarry /\ ProductWhole /\ DivisionExact /\ ShiftsMoveBits
    /\ LogicBitwise /\ ShortRight /\ ImmediateRight /\ ExtendedRight
==============================================================================
