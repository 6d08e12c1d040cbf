------------------------------- MODULE Decode -------------------------------
(***************************************************************************)
(* The two decoders of Opgave5: the one simulate() executes by and the one *)
(* disassemble() prints by.  An instruction is the record of its slices,   *)
(* from bit 31 down: f7, rs2, rs1, f3, rd, op.  Immediates are signed      *)
(* numbers, and those of LUI and AUIPC the upper 20 bits.  A decoded       *)
(* instruction is a name and its operands in the order they are printed.   *)
(***************************************************************************)
EXTENDS Integers, Sequences

zero == 0
ra == 1

In(name, args) == [name |-> name, args |-> args]

-----------------------------------------------------------------------------
\* simulate.c
sign_extend(value, bits) == IF value < 2^(bits - 1) THEN value ELSE value - 2^bits

imm_I(i) == sign_extend(i.f7 * 32 + i.rs2, 12)
imm_S(i) == sign_extend(i.f7 * 32 + i.rd, 12)
imm_BOdd(i) ==      \* mutant: bit 7 is taken for bit 0 of the offset
    sign_extend((i.f7 \div 64) * 2^12 + (i.f7 % 64) * 2^5 + i.rd, 13)
imm_B(i) ==
    sign_extend((i.f7 \div 64) * 2^12 + (i.rd % 2) * 2^11 + (i.f7 % 64) * 2^5 + (i.rd \div 2) * 2, 13)
imm_U(i) == ((i.f7 * 32 + i.rs2) * 32 + i.rs1) * 8 + i.f3
imm_J(i) ==
    sign_extend((i.f7 \div 64) * 2^20 + ((i.f7 % 64) * 16 + (i.rs2 \div 2)) * 2
                + (i.rs2 % 2) * 2^11 + (i.rs1 * 8 + i.f3) * 2^12, 21)

BranchOf == <<"beq", "bne", "", "", "blt", "bge", "bltu", "bgeu">>
LoadOf == <<"lb", "lh", "lw", "", "lbu", "lhu", "", "">>
StoreOf == <<"sb", "sh", "sw", "", "", "", "", "">>
ImmOf == <<"addi", "slli", "slti", "sltiu", "xori", "srli", "ori", "andi">>
RegOf == <<"add", "sll", "slt", "sltu", "xor", "srl", "or", "and">>
MulOf == <<"mul", "mulh", "mulhsu", "mulhu", "div", "divu", "rem", "remu">>

\* The chain of tests in simulate(); add, and, ... are its last cases.
Executed(addr, i) ==
    LET f3 == i.f3 + 1 IN
    CASE i.op = "LUI" -> In("lui", <<i.rd, imm_U(i)>>)
      [] i.op = "AUIPC" -> In("auipc", <<i.rd, imm_U(i)>>)
      [] i.op = "JAL" -> In("jal", <<i.rd, addr + imm_J(i)>>)
      [] i.op = "JALR" -> In("jalr", <<i.rd, i.rs1, imm_I(i)>>)
      [] i.op = "BRANCH" -> In(BranchOf[f3], <<i.rs1, i.rs2, addr + imm_B(i)>>)
      [] i.op = "LOAD" -> In(LoadOf[f3], <<i.rd, imm_I(i), i.rs1>>)
      [] i.op = "STORE" -> In(StoreOf[f3], <<i.rs2, imm_S(i), i.rs1>>)
      [] i.op = "OP-IMM" ->
           IF i.f3 \in {1, 5}
           THEN In(IF i.f3 = 5 /\ (i.f7 \div 32) % 2 = 1 THEN "srai" ELSE ImmOf[f3],
                   <<i.rd, i.rs1, i.rs2>>)
           ELSE In(ImmOf[f3], <<i.rd, i.rs1, imm_I(i)>>)
      [] i.op = "OP" ->
           In(CASE i.f7 = 32 /\ i.f3 = 0 -> "sub"
                [] i.f7 = 32 /\ i.f3 = 5 -> "sra"
                [] i.f7 = 1 -> MulOf[f3]
                [] OTHER -> RegOf[f3], <<i.rd, i.rs1, i.rs2>>)
      [] i.op = "SYSTEM" -> In("ecall", <<>>)
      [] OTHER -> In("", <<>>)

-----------------------------------------------------------------------------
\* disassemble.c
i_type_immediat_decode(i) ==
    LET imm == i.f7 * 32 + i.rs2 IN
    IF (imm \div 2^11) % 2 = 1 THEN (imm % 2^11) - 2^11 ELSE imm

handle_s_type(name, i) ==
    LET imm == i.f7 * 32 + i.rd IN
    In(name, <<i.rs2, IF (imm \div 2^11) % 2 = 1 THEN (imm % 2^11) - 2^11 ELSE imm, i.rs1>>)

\* The pseudo-instructions: the register zero and some immediates are not printed.
handle_i_type(name, i) ==
    LET imm == i_type_immediat_decode(i) IN
    CASE i.rs1 = zero -> In("li", <<i.rd, imm>>)
      [] i.rs1 # zero /\ imm = 0 /\ i.rd = zero /\ i.rs1 = ra -> In("ret", <<>>)
      [] i.rs1 # zero /\ imm = 0 /\ ~(i.rd = zero /\ i.rs1 = ra) /\ name = "addi" -> In("mv", <<i.rd, i.rs1>>)
      [] i.rs1 # zero /\ imm = 255 -> In("zext.b", <<i.rd, i.rs1>>)
      [] i.rs1 # zero /\ imm = -1 /\ name = "xori" -> In("not", <<i.rd, i.rs1>>)
      [] OTHER -> In(name, <<i.rd, i.rs1, imm>>)

handle_i_type_shift(name, i) == In(name, <<i.rd, i.rs1, i.rs2>>)
handle_i_type_imm(name, i) ==
    IF i.rs1 = zero THEN In("neg", <<i.rd, i.rs2>>) ELSE In(name, <<i.rd, i.rs1, i.rs2>>)
handle_i_type_load(name, i) == In(name, <<i.rd, i_type_immediat_decode(i), i.rs1>>)

\* The target is printed over the `zero,` that was taken back; the characters
\* it leaves of it stay behind its digits, and no assembler reads that.
\* `room` characters are taken by fewer hexadecimal digits.
Hex(digits) == 0..16^digits - 1
Smudges(target, room) == (room = 5 /\ target \in Hex(4)) \/ (room = 2 /\ target \in Hex(1))
Printed(name, args, target, room) ==
    In(IF Smudges(target, room) THEN "smudged" ELSE name, Append(args, target))

\* The names are tested by their first three letters; the second test sees
\* what the first one wrote.  Behind a `zero,` of rs1 comes the name of rs2,
\* two characters or three (s10, s11), and a comma.
handle_b_type(addr, name, i) ==
    LET bits == (i.rd \div 2) * 2 + (i.f7 % 64) * 2^5 + (i.rd % 2) * 2^11
        target == addr + (IF i.f7 >= 64 THEN bits - 2^12 ELSE bits)
        first == CASE i.rs1 = zero /\ name \in {"bge", "bgeu"} -> "blez"
                   [] i.rs1 = zero /\ name \in {"blt", "bltu"} -> "bgtz"
                   [] OTHER -> name
        second == CASE i.rs2 = zero /\ first = "beq" -> "beqz"
                    [] i.rs2 = zero /\ first = "bne" -> "bnez"
                    [] i.rs2 = zero /\ first \in {"bge", "bgeu"} -> "bgez"
                    [] i.rs2 = zero /\ first \in {"blt", "bltu"} -> "bltz"
                    [] OTHER -> first
        Shown(r) == IF r = zero THEN <<>> ELSE <<r>>
        room == CASE i.rs2 = zero -> 5
                  [] i.rs1 = zero /\ i.rs2 \notin {zero, 26, 27} -> 2
                  [] OTHER -> 0
    IN Printed(second, Shown(i.rs1) \o Shown(i.rs2), target, room)

handle_u_type(name, i) == In(name, <<i.rd, imm_U(i)>>)

\* The sign fills bits 12 to 31, bits 12 to 19 of the offset included.
handle_j_type(addr, i) ==
    LET bits == (i.rs2 \div 2) * 2 + (i.f7 % 64) * 2^5 + (i.rs2 % 2) * 2^11
        imm == IF i.f7 >= 64 THEN bits - 2^12 ELSE bits + (i.rs1 * 8 + i.f3) * 2^12
    IN IF i.rd = zero THEN Printed("j", <<>>, addr + imm, 5) ELSE In("jal", <<i.rd, addr + imm>>)

Unknown_instruction == In("", <<>>)

\* The names of OPCODE_NUMERIC are chosen by bits 30 and 25 alone.
bit30(i) == (i.f7 \div 32) % 2 = 1
numeric_name(i) ==
    CASE i.f3 = 0 /\ bit30(i) -> "sub"
      [] i.f3 = 5 /\ bit30(i) -> "sra"
      [] ~(i.f3 \in {0, 5} /\ bit30(i)) /\ i.f7 % 2 = 1 -> MulOf[i.f3 + 1]
      [] OTHER -> RegOf[i.f3 + 1]

disassemble(addr, i) ==
    LET f3 == i.f3 + 1 IN
    CASE i.op = "LUI" -> handle_u_type("lui", i)
      [] i.op = "AUIPC" -> handle_u_type("auipc", i)
      [] i.op = "JAL" -> handle_j_type(addr, i)
      [] i.op = "JALR" /\ i.f3 = 0 -> handle_i_type("jalr", i)
      [] i.op = "BRANCH" /\ BranchOf[f3] # "" -> handle_b_type(addr, BranchOf[f3], i)
      [] i.op = "LOAD" /\ LoadOf[f3] # "" -> handle_i_type_load(LoadOf[f3], i)
      [] i.op = "STORE" /\ StoreOf[f3] # "" -> handle_s_type(StoreOf[f3], i)
      [] i.op = "OP-IMM" /\ i.f3 \notin {1, 5} -> handle_i_type(ImmOf[f3], i)
      [] i.op = "OP-IMM" /\ i.f3 \in {1, 5} ->
           handle_i_type_shift(IF i.f3 = 5 /\ bit30(i) THEN "srai" ELSE ImmOf[f3], i)
      [] i.op = "OP" -> handle_i_type_imm(numeric_name(i), i)
      [] i.op = "SYSTEM" -> In("ecall", <<>>)
      [] OTHER -> Unknown_instruction

-----------------------------------------------------------------------------
\* The instruction that an assembler takes a printed line for
Assembled(t) ==
    LET a == t.args IN
    CASE t.name = "li" -> In("addi", <<a[1], zero, a[2]>>)
      [] t.name = "mv" -> In("addi", <<a[1], a[2], 0>>)
      [] t.name = "not" -> In("xori", <<a[1], a[2], -1>>)
      [] t.name = "zext.b" -> In("andi", <<a[1], a[2], 255>>)
      [] t.name = "neg" -> In("sub", <<a[1], zero, a[2]>>)
      [] t.name = "ret" -> In("jalr", <<zero, ra, 0>>)
      [] t.name = "j" -> In("jal", <<zero, a[1]>>)
      [] t.name \in {"beqz", "bnez", "bltz", "bgez"} /\ Len(a) = 2 ->
           In(CASE t.name = "beqz" -> "beq" [] t.name = "bnez" -> "bne"
                  [] t.name = "bltz" -> "blt" [] t.name = "bgez" -> "bge", <<a[1], zero, a[2]>>)
      [] t.name \in {"blez", "bgtz"} /\ Len(a) = 2 ->
           In(IF t.name = "blez" THEN "bge" ELSE "blt", <<zero, a[1], a[2]>>)
      [] OTHER -> t

\* Encodings of RV32I and RV32M that compilers emit
Legal(i) ==
    /\ i.op = "OP" => i.f7 \in {0, 1} \/ (i.f7 = 32 /\ i.f3 \in {0, 5})
    /\ i.op = "OP-IMM" /\ i.f3 \in {1, 5} => i.f7 = 0 \/ (i.f7 = 32 /\ i.f3 = 5)
    /\ i.op = "JALR" => i.f3 = 0
    /\ Executed(0, i).name # ""

\* Where the printed line names another instruction or none: an operand zero
\* that has no abbreviation, the value 255, backward jumps over more than 4 KiB,
\* and a target with too few digits for the `zero,` it is printed over.
IType(i) == i.op = "JALR" \/ (i.op = "OP-IMM" /\ i.f3 \notin {1, 5})
Misprinted(addr, i) ==
    \/ i.op = "OP" /\ i.rs1 = zero /\ ~(i.f3 = 0 /\ i.f7 = 32)
    \/ IType(i) /\ i.rs1 = zero /\ ~(i.op = "OP-IMM" /\ i.f3 = 0)
    \/ IType(i) /\ i.rs1 # zero /\ imm_I(i) = 255 /\ ~(i.op = "OP-IMM" /\ i.f3 = 7)
    \/ IType(i) /\ i.op # "JALR" /\ i.rd = zero /\ i.rs1 = ra /\ imm_I(i) = 0
    \/ i.op = "BRANCH" /\ i.rs1 = zero /\ ~(i.f3 \in {4, 5} /\ i.rs2 # zero)
    \/ i.op = "BRANCH" /\ i.rs1 # zero /\ i.rs2 = zero /\ i.f3 \in {6, 7}
    \/ i.op = "BRANCH" /\ i.rs2 = zero /\ addr + imm_B(i) \in Hex(4)
    \/ i.op = "BRANCH" /\ i.rs1 = zero /\ i.rs2 \notin {zero, 26, 27} /\ addr + imm_B(i) \in Hex(1)
    \/ i.op = "JAL" /\ i.f7 >= 64 /\ i.rs1 * 8 + i.f3 # 255
    \/ i.op = "JAL" /\ i.rd = zero /\ addr + imm_J(i) \in Hex(4)

\* The listing of `sim -d` names the instruction, the registers, the immediate
\* and the target that simulate() executes by, except in exactly these cases:
\* two decoders, written apart, that take an instruction's bits to pieces in
\* different ways.
SameInstruction(addr, i) ==
    Legal(i) => (Assembled(disassemble(addr, i)) = Executed(addr, i) <=> ~Misprinted(addr, i))

\* Without the exceptions it does not hold.
ListingFaithful(addr, i) == Legal(i) => Assembled(disassemble(addr, i)) = Executed(addr, i)
=============================================================================
