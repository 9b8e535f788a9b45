--------------------------------- MODULE Isa ---------------------------------
(***************************************************************************)
(* The encoding of the instructions, which three programs know by heart:   *)
(* the assembler (instab and instr in assembler/assembler.c) writes it,    *)
(* the disassembler (src/dis.c) reads it back as text the assembler takes, *)
(* and the processor (src/cpu.c) reads it to run.  The length the          *)
(* processor steps by is the disassembler's.                               *)
(*                                                                         *)
(* A text is <<name, operands>>.  The bytes of an instruction are its      *)
(* opcode, the byte b of its registers (-1: it has none) and an immediate  *)
(* of w bytes.  Immediates of 16 and 32 bits have M16 and M32 values.      *)
(***************************************************************************)
EXTENDS Integers, Sequences, FiniteSets

CONSTANTS M16, M32

VARIABLES itext, ipc, ibytes, iback, iagain

Reg(n)    == <<"R", n>>
Cr(n)     == <<"CR", n>>
Mem(n, d) == <<"M", n, d>>
Exp(v)    == <<"E", v>>

NoBytes == [op |-> -1, b |-> -1, w |-> 0, imm |-> 0]
NoText  == <<"", <<>>>>
Bytes(op, b, w, v) == [op |-> op, b |-> b, w |-> w, imm |-> CASE w = 0 -> 0 [] w = 2 -> v % M16 [] w = 4 -> v % M32]
Size(x) == 1 + (IF x.b >= 0 THEN 1 ELSE 0) + x.w
Signed16(v) == IF v >= M16 \div 2 THEN v - M16 ELSE v
Signed32(v) == IF v >= M32 \div 2 THEN v - M32 ELSE v

(***************************************************************************)
(* The opcodes, by runs of consecutive numbers                             *)
(***************************************************************************)
Opcode ==
    {<<\h00, <<"NOP", "LOAD", "ADD", "STORE", "JMP", "JZ", "AND", "OR", "XOR", "NOT", "CALL", "RET", "IN", "OUT", "SUB",
              "CMP", "JC", "JN", "JO", "JNZ", "SHL", "SHR", "MUL", "DIV", "INT", "IRET", "CLI", "STI">>>>,
     <<\h20, <<"LOAD32", "STORE32", "ADD32", "SUB32", "MUL32", "DIV32", "SHL32", "SHR32", "AND32", "OR32", "XOR32",
              "CMP32">>>>,
     <<\h30, <<"MOV", "ADD_REG", "SUB_REG", "CMP_REG", "AND_REG", "OR_REG", "XOR_REG", "MUL_REG", "DIV_REG", "PUSH",
              "POP", "LOAD_INDIR", "STORE_INDIR", "LOAD32_INDIR", "STORE32_INDIR", "SYSCALL", "SYSRET", "JMPR",
              "CALLR", "JMPREL", "CALLREL", "BEQ", "BNE", "BLT", "BGE", "BLE", "BGT", "BLO", "BHS", "BLS", "BHI",
              "BMI", "BPL", "BVS", "BVC", "JMP32", "CALL32", "ADC", "SBB", "SARV", "SHLV", "SHRV", "ROLV", "RORV",
              "IMUL", "IDIV", "UMOD", "IMOD", "NEG", "TEST", "MULHU", "MULHS", "SAR", "ROL", "ROR", "ADCI", "SBBI",
              "IMULI", "IDIVI", "UMODI", "IMODI", "TESTI", "LDB", "LDBS", "LDH", "LDHS", "LDW", "STB", "STH", "STW",
              "LEA", "LEAPC", "MOVSP", "SETSP", "ADDSP">>>>,
     <<\h7C, <<"BRK", "MFCR", "MTCR", "TLBFLUSH", "INVLPG", "WFI", "CPUID", "PUSHF", "POPF", "RDCYC", "RET32", "PUSH32",
              "POP32", "ADD32R", "SUB32R", "CMP32R", "MUL32R", "DIV32R">>>>,
     <<\hFF, <<"HALT">>>>}

OpName(op) == UNION {{o[2][i] : i \in {j \in DOMAIN o[2] : o[1] + j - 1 = op}} : o \in Opcode}

(***************************************************************************)
(* The assembler: by kind, the names with the opcode and, for a register   *)
(* or memory operand, a second one                                         *)
(***************************************************************************)
instab ==
    {<<"N", {<<"NOP", \h00, 0>>, <<"HALT", \hFF, 0>>, <<"RET", \h0B, 0>>, <<"CLI", \h1A, 0>>, <<"STI", \h1B, 0>>,
             <<"IRET", \h19, 0>>, <<"SYSCALL", \h3F, 0>>, <<"SYSRET", \h40, 0>>, <<"BRK", \h7C, 0>>, <<"TLBFLUSH", \h7F, 0>>,
             <<"WFI", \h81, 0>>, <<"PUSHF", \h83, 0>>, <<"POPF", \h84, 0>>, <<"RET32", \h86, 0>>}>>,
     <<"LR", {<<"NOT", \h09, 0>>, <<"PUSH", \h39, 0>>, <<"POP", \h3A, 0>>}>>,
     <<"INT", {<<"INT", \h18, 0>>}>>,
     <<"MOV", {<<"MOV", \h30, 0>>}>>,
     <<"ALU16", {<<"ADD", \h02, \h31>>, <<"SUB", \h0E, \h32>>, <<"CMP", \h0F, \h33>>, <<"AND", \h06, \h34>>,
                 <<"OR", \h07, \h35>>, <<"XOR", \h08, \h36>>, <<"MUL", \h16, \h37>>, <<"DIV", \h17, \h38>>}>>,
     <<"A16", {<<"JMP", \h04, 0>>, <<"CALL", \h0A, 0>>, <<"JC", \h10, 0>>, <<"JN", \h11, 0>>, <<"JO", \h12, 0>>,
               <<"JNZ", \h13, 0>>}>>,
     <<"RI16", {<<"JZ", \h05, 0>>, <<"IN", \h0C, 0>>, <<"OUT", \h0D, 0>>, <<"SHL", \h14, 0>>, <<"SHR", \h15, 0>>}>>,
     <<"LOAD", {<<"LOAD", \h01, \h3B>>}>>,
     <<"STORE", {<<"STORE", \h03, \h3C>>}>>,
     <<"LOAD32", {<<"LOAD32", \h20, \h3D>>}>>,
     <<"STORE32", {<<"STORE32", \h21, \h3E>>}>>,
     <<"ALU32", {<<"ADD32", \h22, \h89>>, <<"SUB32", \h23, \h8A>>, <<"MUL32", \h24, \h8C>>, <<"DIV32", \h25, \h8D>>,
                 <<"SHL32", \h26, 0>>, <<"SHR32", \h27, 0>>, <<"AND32", \h28, \h34>>, <<"OR32", \h29, \h35>>,
                 <<"XOR32", \h2A, \h36>>, <<"CMP32", \h2B, \h8B>>}>>,
     <<"RB", {<<"JMPR", \h41, 0>>, <<"CALLR", \h42, 0>>, <<"SETSP", \h79, 0>>, <<"INVLPG", \h80, 0>>, <<"PUSH32", \h87, 0>>}>>,
     <<"REL", {<<"JMPREL", \h43, 0>>, <<"CALLREL", \h44, 0>>, <<"BEQ", \h45, 0>>, <<"BNE", \h46, 0>>, <<"BLT", \h47, 0>>,
               <<"BGE", \h48, 0>>, <<"BLE", \h49, 0>>, <<"BGT", \h4A, 0>>, <<"BLO", \h4B, 0>>, <<"BHS", \h4C, 0>>,
               <<"BLS", \h4D, 0>>, <<"BHI", \h4E, 0>>, <<"BMI", \h4F, 0>>, <<"BPL", \h50, 0>>, <<"BVS", \h51, 0>>,
               <<"BVC", \h52, 0>>}>>,
     <<"ABS", {<<"JMP32", \h53, 0>>, <<"CALL32", \h54, 0>>, <<"ADDSP", \h7A, 0>>}>>,
     <<"R2", {<<"ADC", \h55, 0>>, <<"SBB", \h56, 0>>, <<"SARV", \h57, 0>>, <<"SHLV", \h58, 0>>, <<"SHRV", \h59, 0>>,
              <<"ROLV", \h5A, 0>>, <<"RORV", \h5B, 0>>, <<"IMUL", \h5C, 0>>, <<"IDIV", \h5D, 0>>, <<"UMOD", \h5E, 0>>,
              <<"IMOD", \h5F, 0>>, <<"TEST", \h61, 0>>, <<"MULHU", \h62, 0>>, <<"MULHS", \h63, 0>>}>>,
     <<"RA", {<<"NEG", \h60, 0>>, <<"MOVSP", \h78, 0>>, <<"CPUID", \h82, 0>>, <<"RDCYC", \h85, 0>>, <<"POP32", \h88, 0>>}>>,
     <<"RI", {<<"SAR", \h64, 0>>, <<"ROL", \h65, 0>>, <<"ROR", \h66, 0>>, <<"ADCI", \h67, 0>>, <<"SBBI", \h68, 0>>,
              <<"IMULI", \h69, 0>>, <<"IDIVI", \h6A, 0>>, <<"UMODI", \h6B, 0>>, <<"IMODI", \h6C, 0>>, <<"TESTI", \h6D, 0>>}>>,
     <<"LD", {<<"LDB", \h6E, 0>>, <<"LDBS", \h6F, 0>>, <<"LDH", \h70, 0>>, <<"LDHS", \h71, 0>>, <<"LDW", \h72, 0>>,
              <<"LEA", \h76, 0>>}>>,
     <<"ST", {<<"STB", \h73, 0>>, <<"STH", \h74, 0>>, <<"STW", \h75, 0>>}>>,
     <<"LEAPC", {<<"LEAPC", \h77, 0>>}>>,
     <<"MFCR", {<<"MFCR", \h7D, 0>>}>>,
     <<"MTCR", {<<"MTCR", \h7E, 0>>}>>}

Kind(n) == CHOOSE k \in instab : \E i \in k[2] : i[1] = n
Ins(n)  == CHOOSE i \in Kind(n)[2] : i[1] = n

val8(v) == v % 256

store(k, i, o) ==
    CASE o[1][1] = "M" -> Bytes(i[3], 16 * o[1][2] + o[2][2], 2, o[1][3])
      [] OTHER -> Bytes(i[2], o[1][2], IF k = "STORE" THEN 2 ELSE 4, o[2][2])

load(k, i, o) ==
    CASE o[2][1] = "M" -> Bytes(i[3], 16 * o[1][2] + o[2][2], 2, o[2][3])
      [] OTHER -> Bytes(i[2], o[1][2], IF k = "LOAD" THEN 2 ELSE 4, o[2][2])

legacy_instr(k, i, o) ==
    CASE k = "N"   -> Bytes(i[2], -1, 0, 0)
      [] k = "LR"  -> Bytes(i[2], o[1][2], 0, 0)
      [] k = "INT" -> Bytes(i[2], val8(o[1][2]), 0, 0)
      [] k = "MOV" -> Bytes(i[2], 16 * o[1][2] + o[2][2], 0, 0)
      [] k \in {"ALU16", "ALU32"} -> IF o[2][1] = "R" THEN Bytes(i[3], 16 * o[1][2] + o[2][2], 0, 0)
                                     ELSE Bytes(i[2], o[1][2], IF k = "ALU16" THEN 2 ELSE 4, o[2][2])
      [] k = "A16"  -> Bytes(i[2], -1, 2, o[1][2])
      [] k = "RI16" -> Bytes(i[2], o[1][2], 2, o[2][2])
      [] k \in {"LOAD", "LOAD32"}   -> load(k, i, o)
      [] k \in {"STORE", "STORE32"} -> store(k, i, o)

extended_instr(k, i, o, pc) ==
    CASE k = "R2" -> Bytes(i[2], 16 * o[1][2] + o[2][2], 0, 0)
      [] k = "RA" -> Bytes(i[2], 16 * o[1][2], 0, 0)
      [] k = "RB" -> Bytes(i[2], o[1][2], 0, 0)
      [] k = "RI" -> Bytes(i[2], 16 * o[1][2], 4, o[2][2])
      [] k = "REL"   -> Bytes(i[2], 0, 4, o[1][2] - (pc + 6))
      [] k = "ABS"   -> Bytes(i[2], 0, 4, o[1][2])
      [] k = "LEAPC" -> Bytes(i[2], 16 * o[1][2], 4, o[2][2] - (pc + 6))
      [] k = "LD"    -> Bytes(i[2], 16 * o[1][2] + o[2][2], 4, o[2][3])
      [] k = "ST"    -> Bytes(i[2], 16 * o[2][2] + o[1][2], 4, o[1][3])
      [] k \in {"MFCR", "MTCR"} -> Bytes(i[2], 16 * o[1][2] + o[2][2], 0, 0)

Extended32 == {"R2", "RA", "RB", "RI", "REL", "ABS", "LEAPC", "LD", "ST", "MFCR", "MTCR"}

assemble(t, pc) ==
    LET k == Kind(t[1])[1]
        i == Ins(t[1])
    IN  IF k \in Extended32 THEN extended_instr(k, i, t[2], pc) ELSE legacy_instr(k, i, t[2])

(* The operands a kind takes                                               *)
Takes(k, n, regs, vals) ==
    LET R == {Reg(x) : x \in regs}
        E == {Exp(v) : v \in vals}
        M(bases) == {Mem(b, d) : b \in bases, d \in vals}
    IN  CASE k = "N" -> {<<>>}
          [] k \in {"LR", "RA", "RB"} -> {<<a>> : a \in R}
          [] k \in {"INT", "A16", "REL", "ABS"} -> {<<a>> : a \in E}
          [] k \in {"MOV", "R2"} -> R \X R
          [] k \in {"ALU16"} -> (R \X E) \cup (R \X R)
          [] k = "ALU32" -> (R \X E) \cup (IF Ins(n)[3] = 0 THEN {} ELSE R \X R)
          [] k \in {"RI16", "RI", "LEAPC"} -> R \X E
          [] k \in {"LOAD", "LOAD32"} -> (R \X E) \cup (R \X M(regs))
          [] k \in {"STORE", "STORE32"} -> (R \X E) \cup (M(regs) \X R)
          [] k = "LD" -> R \X M(regs \cup {8})
          [] k = "ST" -> M(regs \cup {8}) \X R
          [] k = "MFCR" -> {<<a, Cr(c)>> : a \in R, c \in regs}
          [] k = "MTCR" -> {<<Cr(c), a>> : a \in R, c \in regs}

(***************************************************************************)
(* The disassembler                                                        *)
(***************************************************************************)
dis_ops ==
    {<<"N", {"NOP", "RET", "IRET", "CLI", "STI", "SYSCALL", "SYSRET", "BRK", "TLBFLUSH", "WFI", "PUSHF", "POPF",
             "RET32", "HALT"}>>,
     <<"RI16", {"LOAD", "ADD", "STORE", "JZ", "AND", "OR", "XOR", "IN", "OUT", "SUB", "CMP"}>>,
     <<"A16", {"JMP", "CALL", "JC", "JN", "JO", "JNZ"}>>,
     <<"R8", {"NOT", "PUSH", "POP"}>>,
     <<"RD16", {"SHL", "SHR", "MUL", "DIV"}>>,
     <<"I8", {"INT"}>>,
     <<"RI32", {"LOAD32", "STORE32", "ADD32", "SUB32", "MUL32", "DIV32", "SHL32", "SHR32", "AND32", "OR32", "XOR32",
                "CMP32"}>>,
     <<"RR", {"MOV", "ADD_REG", "SUB_REG", "CMP_REG", "AND_REG", "OR_REG", "XOR_REG", "MUL_REG", "DIV_REG", "ADC",
              "SBB", "SARV", "SHLV", "SHRV", "ROLV", "RORV", "IMUL", "IDIV", "UMOD", "IMOD", "TEST", "MULHU", "MULHS",
              "ADD32R", "SUB32R", "CMP32R", "MUL32R", "DIV32R"}>>,
     <<"IND", {"LOAD_INDIR", "LOAD32_INDIR"}>>,
     <<"INDS", {"STORE_INDIR", "STORE32_INDIR"}>>,
     <<"RB", {"JMPR", "CALLR", "SETSP", "INVLPG", "PUSH32"}>>,
     <<"REL", {"JMPREL", "CALLREL", "BEQ", "BNE", "BLT", "BGE", "BLE", "BGT", "BLO", "BHS", "BLS", "BHI", "BMI", "BPL",
               "BVS", "BVC"}>>,
     <<"ABS", {"JMP32", "CALL32"}>>,
     <<"RA", {"NEG", "MOVSP", "CPUID", "RDCYC", "POP32"}>>,
     <<"RI", {"SAR", "ROL", "ROR", "ADCI", "SBBI", "IMULI", "IDIVI", "UMODI", "IMODI", "TESTI"}>>,
     <<"M", {"LDB", "LDBS", "LDH", "LDHS", "LDW", "LEA"}>>,
     <<"MS", {"STB", "STH", "STW"}>>,
     <<"LEAPC", {"LEAPC"}>>,
     <<"ADDSP", {"ADDSP"}>>,
     <<"MFCR", {"MFCR"}>>,
     <<"MTCR", {"MTCR"}>>}

(* The names as text: a register form has the name of the other            *)
RegisterForm == [ADD_REG |-> "ADD", SUB_REG |-> "SUB", CMP_REG |-> "CMP", AND_REG |-> "AND", OR_REG |-> "OR", XOR_REG |-> "XOR",
                 MUL_REG |-> "MUL", DIV_REG |-> "DIV", LOAD_INDIR |-> "LOAD", STORE_INDIR |-> "STORE",
                 LOAD32_INDIR |-> "LOAD32", STORE32_INDIR |-> "STORE32", ADD32R |-> "ADD32", SUB32R |-> "SUB32",
                 CMP32R |-> "CMP32", MUL32R |-> "MUL32", DIV32R |-> "DIV32"]
Mnemonic(n) == IF n \in DOMAIN RegisterForm THEN RegisterForm[n] ELSE n

Fmt(op) == LET s == {f \in dis_ops : OpName(op) \cap f[2] # {}} IN IF s = {} THEN "X" ELSE (CHOOSE f \in s : TRUE)[1]

dis_len == [N |-> 1, X |-> 1, R8 |-> 2, I8 |-> 2, RR |-> 2, A16 |-> 3, RI16 |-> 4, RD16 |-> 4, IND |-> 4, INDS |-> 4,
            RI32 |-> 6, RA |-> 2, RB |-> 2, RI |-> 6, REL |-> 6, ABS |-> 6, M |-> 6, MS |-> 6, LEAPC |-> 6,
            MFCR |-> 2, MTCR |-> 2, ADDSP |-> 6]

target(x, pc) == (pc + 6 + x.imm) % M32

dis_format(x, pc) ==
    LET f == Fmt(x.op)
        a == x.b \div 16
        b == x.b % 16
        o == CASE f = "N" -> <<>>
               [] f = "R8" -> <<Reg(x.b)>>
               [] f = "I8" -> <<Exp(x.b)>>
               [] f = "RR" -> <<Reg(a), Reg(b)>>
               [] f = "A16" -> <<Exp(x.imm)>>
               [] f \in {"RI16", "RD16", "RI32"} -> <<Reg(x.b), Exp(x.imm)>>
               [] f = "IND"  -> <<Reg(a), Mem(b, Signed16(x.imm))>>
               [] f = "INDS" -> <<Mem(a, Signed16(x.imm)), Reg(b)>>
               [] f = "RA" -> <<Reg(a)>>
               [] f = "RB" -> <<Reg(b)>>
               [] f = "RI" -> <<Reg(a), Exp(Signed32(x.imm))>>
               [] f = "REL" -> <<Exp(target(x, pc))>>
               [] f = "ABS" -> <<Exp(x.imm)>>
               [] f = "ADDSP" -> <<Exp(Signed32(x.imm))>>
               [] f = "LEAPC" -> <<Reg(a), Exp(target(x, pc))>>
               [] f = "MFCR" -> <<Reg(a), Cr(b)>>
               [] f = "MTCR" -> <<Cr(a), Reg(b)>>
               [] f = "M"  -> <<Reg(a), Mem(b, Signed32(x.imm))>>
               [] f = "MS" -> <<Mem(b, Signed32(x.imm)), Reg(a)>>
    IN  <<Mnemonic(CHOOSE n \in OpName(x.op) : TRUE), o>>

(***************************************************************************)
(* The processor: what execute_instruction fetches, and what it takes the  *)
(* registers and the immediate for.  The first set holds the bytes fetched *)
(* after the opcode.                                                       *)
(***************************************************************************)
RegWord == {"LOAD", "ADD", "STORE", "JZ", "AND", "OR", "XOR", "IN", "OUT", "SUB", "CMP", "SHL", "SHR", "MUL", "DIV"}
RegLong == {"LOAD32", "STORE32", "ADD32", "SUB32", "MUL32", "DIV32", "SHL32", "SHR32", "AND32", "OR32", "XOR32", "CMP32"}
Pairs   == {"MOV", "ADD_REG", "SUB_REG", "CMP_REG", "AND_REG", "OR_REG", "XOR_REG", "MUL_REG", "DIV_REG", "ADC", "SBB", "SARV",
            "SHLV", "SHRV", "ROLV", "RORV", "IMUL", "IDIV", "UMOD", "IMOD", "TEST", "MULHU", "MULHS", "ADD32R", "SUB32R",
            "CMP32R", "MUL32R", "DIV32R"}
Lows    == {"JMPR", "CALLR", "SETSP", "INVLPG", "PUSH32"}
Highs   == {"NEG", "MOVSP", "CPUID", "RDCYC", "POP32"}
Branches == {"JMPREL", "CALLREL", "BEQ", "BNE", "BLT", "BGE", "BLE", "BGT", "BLO", "BHS", "BLS", "BHI", "BMI", "BPL", "BVS", "BVC"}
HighLong == {"SAR", "ROL", "ROR", "ADCI", "SBBI", "IMULI", "IDIVI", "UMODI", "IMODI", "TESTI"}
Loads32 == {"LDB", "LDBS", "LDH", "LDHS", "LDW", "LEA"}
Stores32 == {"STB", "STH", "STW"}
Alone   == {"NOP", "RET", "IRET", "CLI", "STI", "SYSCALL", "SYSRET", "BRK", "TLBFLUSH", "WFI", "PUSHF", "POPF", "RET32", "HALT"}

fetches(n) ==
    CASE n \in Alone -> 0
      [] n \in {"NOT", "PUSH", "POP", "INT", "MFCR", "MTCR"} \cup Pairs \cup Lows \cup Highs -> 1
      [] n \in {"JMP", "CALL", "JC", "JN", "JO", "JNZ"} -> 2
      [] n \in {"LOAD_INDIR", "STORE_INDIR", "LOAD32_INDIR", "STORE32_INDIR"} \cup RegWord -> 3
      [] n \in {"JMP32", "CALL32", "ADDSP", "LEAPC"} \cup RegLong \cup Branches \cup HighLong \cup Loads32 \cup Stores32 -> 5

executes(x, pc) ==
    LET n == CHOOSE y \in OpName(x.op) : TRUE
        a == x.b \div 16
        b == x.b % 16
        o == CASE n \in Alone -> <<>>
               [] n \in {"NOT", "PUSH", "POP"} -> <<Reg(x.b)>>
               [] n = "INT" -> <<Exp(x.b)>>
               [] n \in {"JMP", "CALL", "JC", "JN", "JO", "JNZ", "JMP32", "CALL32", "ADDSP"} -> <<Exp(x.imm)>>
               [] n \in RegWord \cup RegLong -> <<Reg(x.b), Exp(x.imm)>>
               [] n \in Pairs -> <<Reg(a), Reg(b)>>
               [] n \in {"LOAD_INDIR", "LOAD32_INDIR"}   -> <<Reg(a), Mem(b, Signed16(x.imm))>>
               [] n \in {"STORE_INDIR", "STORE32_INDIR"} -> <<Mem(a, Signed16(x.imm)), Reg(b)>>
               [] n \in Lows  -> <<Reg(b)>>
               [] n \in Highs -> <<Reg(a)>>
               [] n \in Branches -> <<Exp((pc + dis_len[Fmt(x.op)] + x.imm) % M32)>>
               [] n = "LEAPC"    -> <<Reg(a), Exp((pc + dis_len[Fmt(x.op)] + x.imm) % M32)>>
               [] n \in HighLong -> <<Reg(a), Exp(x.imm)>>
               [] n \in Loads32  -> <<Reg(a), Mem(b, x.imm)>>
               [] n \in Stores32 -> <<Mem(b, x.imm), Reg(a)>>
               [] n = "MFCR" -> <<Reg(a), Cr(b)>>
               [] n = "MTCR" -> <<Cr(a), Reg(b)>>
    IN  <<n, o>>

(***************************************************************************)
(* A text is assembled, disassembled and assembled again                   *)
(***************************************************************************)
Assemble    == ibytes = NoBytes /\ ibytes' = assemble(itext, ipc) /\ UNCHANGED <<itext, ipc, iback, iagain>>
Disassemble == ibytes # NoBytes /\ iback = NoText /\ iback' = dis_format(ibytes, ipc) /\ UNCHANGED <<itext, ipc, ibytes, iagain>>
Reassemble  == iback # NoText /\ iagain = NoBytes /\ iagain' = assemble(iback, ipc) /\ UNCHANGED <<itext, ipc, ibytes, iback>>
IsaNext == Assemble \/ Disassemble \/ Reassemble

------------------------------------------------------------------------------
(***************************************************************************)
(* Every instruction of the assembler with every form of operand           *)
(***************************************************************************)

CONSTANTS IRegs, IVals, IPcs

Values == {-2, 0, 3, 7}

IsaInit ==
    /\ \E k \in instab : \E i \in k[2] : \E o \in Takes(k[1], i[1], IRegs, IVals) : itext = <<i[1], o>>
    /\ ipc \in IPcs
    /\ ibytes = NoBytes /\ iback = NoText /\ iagain = NoBytes

(* Equal as values of the field that holds them                            *)
Same(a, b, m) == \/ a[1] = "E" /\ b[1] = "E" /\ a[2] % m = b[2] % m
                 \/ a[1] = "M" /\ b[1] = "M" /\ a[2] = b[2] /\ a[3] % m = b[3] % m
                 \/ a[1] \in {"R", "CR"} /\ a = b

(***************************************************************************)
(* Properties                                                              *)
(***************************************************************************)
(* Bytes are bytes and an instruction is one to six of them.               *)
IsaTypeOK == ibytes # NoBytes => ibytes.op \in 0..255 /\ ibytes.b \in -1..255 /\ Size(ibytes) \in 1..6

(* The processor runs what the program says: for every instruction and     *)
(* every form of its operands, what execute_instruction makes of the bytes *)
(* of the assembler's instr is the instruction written, with its registers *)
(* in their places and a branch's target where it is.  AND32, OR32 and     *)
(* XOR32 of two registers are the legacy instructions, which are the same. *)
RunsAsWritten ==
    ibytes # NoBytes =>
        LET x == executes(ibytes, ipc)
            m == IF ibytes.w = 4 THEN M32 ELSE IF ibytes.w = 2 THEN M16 ELSE 256
        IN  /\ \/ Mnemonic(x[1]) = itext[1]
               \/ itext[1] \in {"AND32", "OR32", "XOR32"} /\ x[1] \in {"AND_REG", "OR_REG", "XOR_REG"}
            /\ Len(x[2]) = Len(itext[2]) /\ \A j \in DOMAIN x[2] : Same(x[2][j], itext[2][j], m)

(* The processor steps over the bytes it fetches and no others: the length *)
(* it takes from the disassembler's table, what execute_instruction        *)
(* fetches and what the assembler wrote are one number.                    *)
StepsOver ==
    ibytes # NoBytes =>
        /\ dis_len[Fmt(ibytes.op)] = Size(ibytes)
        /\ 1 + fetches(CHOOSE n \in OpName(ibytes.op) : TRUE) = Size(ibytes)

(* What the disassembler prints assembles to the bytes it was read from.   *)
ReadsBack == iagain # NoBytes => iagain = ibytes

(* Assembler, processor and disassembler agree on every instruction.       *)
EncodingAgrees == IsaTypeOK /\ RunsAsWritten /\ StepsOver /\ ReadsBack
==============================================================================
