-------------------------------- MODULE Isa ---------------------------------
(***************************************************************************)
(* What the simulator of Opgave5 promises its programs: the part of RV32I  *)
(* and RV32M that opgave.md asks for, on registers and an array of bytes,  *)
(* with the three system calls.  An instruction is a record of its fields, *)
(* imm being the immediate of its format, extended to a word.  It is named *)
(* by a table of encodings, and the name gives its effect; nothing here    *)
(* follows the simulator's tests of f3 and f7.                             *)
(***************************************************************************)
EXTENDS Integers, Sequences

CONSTANTS
    BYTE,       \* 256
    REGS,       \* 0..31
    A0, A7,     \* the registers of system calls
    EXITS,      \* {3, 93}: the calls that end the program
    XLEN,       \* 32: bits in a word
    ARG_BASE,   \* 0x1000000: where argc is
    ArgLists,   \* the argument lists a program may be started with
    Images      \* the programs: sequences of segments [vaddr, data]

VARIABLES pc, x, bytes, out, stopped, ir
vars == <<pc, x, bytes, out, stopped, ir>>

Pow2[n \in 0..XLEN] == IF n = 0 THEN 1 ELSE 2 * Pow2[n - 1]
WORD == Pow2[XLEN]
HALF == BYTE * BYTE
Words == 0..WORD - 1
Signed(v) == IF v < WORD \div 2 THEN v ELSE v - WORD
\* The places at which a word has a one, and the word that has them there
Ones(v) == {i \in 0..XLEN - 1 : (v \div Pow2[i]) % 2 = 1}
WordWith(ones) == CHOOSE v \in Words : Ones(v) = ones

\* Truncating division: the quotient, and the remainder with the dividend's
\* sign.  Division by zero gives -1 and the dividend.
DivRem(a, b) ==
    IF b = 0 THEN <<-1, a>>
    ELSE CHOOSE qr \in (-WORD..WORD) \X (-WORD..WORD) :
        /\ a = qr[1] * b + qr[2]
        /\ a >= 0 => qr[2] >= 0
        /\ a <= 0 => qr[2] <= 0
        /\ -(IF b < 0 THEN -b ELSE b) < qr[2] /\ qr[2] < (IF b < 0 THEN -b ELSE b)

\* name, f3, f7 (f7 counts for opcode OP, and for the shifts of OP-IMM)
Encodings == {
    <<"add", 0, 0>>, <<"sub", 0, 32>>, <<"sll", 1, 0>>, <<"slt", 2, 0>>, <<"sltu", 3, 0>>,
    <<"xor", 4, 0>>, <<"srl", 5, 0>>, <<"sra", 5, 32>>, <<"or", 6, 0>>, <<"and", 7, 0>>,
    <<"mul", 0, 1>>, <<"mulh", 1, 1>>, <<"mulhsu", 2, 1>>, <<"mulhu", 3, 1>>,
    <<"div", 4, 1>>, <<"divu", 5, 1>>, <<"rem", 6, 1>>, <<"remu", 7, 1>> }
BranchNames == <<"beq", "bne", "none", "none", "blt", "bge", "bltu", "bgeu">>

NameOf(i) ==
    IF i.op = "OP" \/ (i.op = "OP-IMM" /\ i.f3 \in {1, 5})
    THEN (CHOOSE e \in Encodings : e[2] = i.f3 /\ e[3] = i.f7)[1]
    ELSE (CHOOSE e \in Encodings : e[2] = i.f3 /\ e[3] = 0)[1]

Truth(p) == IF p THEN 1 ELSE 0
Result(name, a, b) ==
    CASE name = "add" -> (a + b) % WORD
      [] name = "sub" -> (a - b) % WORD
      [] name = "slt" -> Truth(Signed(a) < Signed(b))
      [] name = "sltu" -> Truth(a < b)
      [] name = "and" -> WordWith(Ones(a) \cap Ones(b))
      [] name = "or" -> WordWith(Ones(a) \cup Ones(b))
      [] name = "xor" -> WordWith((Ones(a) \ Ones(b)) \cup (Ones(b) \ Ones(a)))
      [] name = "sll" -> WordWith({i \in 0..XLEN - 1 : i - (b % XLEN) \in Ones(a)})
      [] name = "srl" -> WordWith({i \in 0..XLEN - 1 : i + (b % XLEN) \in Ones(a)})
      [] name = "sra" -> WordWith({i \in 0..XLEN - 1 :
                           (IF i + (b % XLEN) < XLEN THEN i + (b % XLEN) ELSE XLEN - 1) \in Ones(a)})
      [] name = "mul" -> (a * b) % WORD
      [] name = "mulh" -> ((Signed(a) * Signed(b)) \div WORD) % WORD
      [] name = "mulhsu" -> ((Signed(a) * b) \div WORD) % WORD
      [] name = "mulhu" -> ((a * b) \div WORD) % WORD
      [] name = "div" -> DivRem(Signed(a), Signed(b))[1] % WORD
      [] name = "divu" -> DivRem(a, b)[1] % WORD
      [] name = "rem" -> DivRem(Signed(a), Signed(b))[2] % WORD
      [] name = "remu" -> DivRem(a, b)[2]

Holds(name, a, b) ==
    CASE name = "beq" -> a = b
      [] name = "bne" -> a # b
      [] name = "blt" -> Signed(a) < Signed(b)
      [] name = "bge" -> Signed(a) >= Signed(b)
      [] name = "bltu" -> a < b
      [] name = "bgeu" -> a >= b

\* The value of the n bytes at a, least significant first
At(b, a, n) ==
    LET d(k) == b[(a + k) % WORD] IN
    CASE n = 1 -> d(0)
      [] n = 2 -> BYTE * d(1) + d(0)
      [] n = 4 -> BYTE * (BYTE * (BYTE * d(3) + d(2)) + d(1)) + d(0)
Weights == <<1, BYTE, HALF, HALF * BYTE>>
Digit(v, k) == (v \div Weights[k + 1]) % BYTE
\* A value of n bytes, with its sign
Extended(v, n) ==
    LET limit == IF n = 4 THEN WORD ELSE Weights[n + 1] IN
    IF v < limit \div 2 THEN v ELSE (v - limit) % WORD
Width(f3) == <<1, 2, 4, 8>>[(f3 % 4) + 1]   \* lb lh lw, lbu lhu

Addr(i) == (x[i.rs1] + i.imm) % WORD
\* A load or store of n bytes is at a multiple of n, a jump goes to one of 4.
MisalignedAccess(i) == i.op \in {"LOAD", "STORE"} /\ Addr(i) % Width(i.f3) # 0

SetReg(r, v) == x' = [x EXCEPT ![r] = IF r = 0 THEN 0 ELSE v]
Next4 == (pc + 4) % WORD

Computes(i) ==
    /\ i.op \in {"OP", "OP-IMM"}
    /\ SetReg(i.rd, Result(NameOf(i), x[i.rs1], IF i.op = "OP" THEN x[i.rs2] ELSE i.imm))
    /\ pc' = Next4 /\ UNCHANGED <<bytes, out>>
Builds(i) ==
    /\ i.op \in {"LUI", "AUIPC"}
    /\ SetReg(i.rd, IF i.op = "LUI" THEN i.imm ELSE (pc + i.imm) % WORD)
    /\ pc' = Next4 /\ UNCHANGED <<bytes, out>>
Jumps(i) ==
    /\ i.op \in {"JAL", "JALR"}
    /\ SetReg(i.rd, Next4)
    /\ pc' = IF i.op = "JAL" THEN (pc + i.imm) % WORD ELSE 2 * (Addr(i) \div 2)
    /\ UNCHANGED <<bytes, out>>
Branches(i) ==
    /\ i.op = "BRANCH"
    /\ pc' = IF Holds(BranchNames[i.f3 + 1], x[i.rs1], x[i.rs2]) THEN (pc + i.imm) % WORD ELSE Next4
    /\ UNCHANGED <<x, bytes, out>>
Loads(i) ==
    /\ i.op = "LOAD" /\ ~MisalignedAccess(i)
    /\ LET v == At(bytes, Addr(i), Width(i.f3)) IN
       SetReg(i.rd, IF i.f3 < 4 THEN Extended(v, Width(i.f3)) ELSE v)
    /\ pc' = Next4 /\ UNCHANGED <<bytes, out>>
Stores(i) ==
    /\ i.op = "STORE" /\ ~MisalignedAccess(i)
    /\ bytes' = [a \in Words |->
         IF (a - Addr(i)) % WORD < Width(i.f3)
         THEN Digit(x[i.rs2], (a - Addr(i)) % WORD) ELSE bytes[a]]
    /\ pc' = Next4 /\ UNCHANGED <<x, out>>
Calls(i) ==
    /\ i.op = "SYSTEM" /\ x[A7] \notin EXITS
    /\ IF x[A7] = 1 THEN \E c \in 0..BYTE - 1 \cup {WORD - 1} : SetReg(A0, c) ELSE UNCHANGED x
    /\ out' = IF x[A7] = 2 THEN Append(out, x[A0] % BYTE) ELSE out
    /\ pc' = Next4 /\ UNCHANGED bytes

\* The program ends where it asks to, or at an access that is not aligned.
Stop(i) ==
    /\ \/ i.op = "SYSTEM" /\ x[A7] \in EXITS
       \/ MisalignedAccess(i) \/ pc % 4 # 0
    /\ stopped' = TRUE /\ UNCHANGED <<pc, x, bytes, out>>

Known == {"OP", "OP-IMM", "LUI", "AUIPC", "JAL", "JALR", "BRANCH", "LOAD", "STORE", "SYSTEM"}

\* A program finds its arguments: argc, argv and strings ended by 0.
ArgsAt(b, args) ==
    args # <<>> =>
      /\ At(b, ARG_BASE, 4) = Len(args)
      /\ \A k \in 1..Len(args) :
           LET s == At(b, ARG_BASE + 4 * k, 4) IN
           /\ \A j \in 1..Len(args[k]) : b[(s + j - 1) % WORD] = args[k][j]
           /\ b[(s + Len(args[k])) % WORD] = 0

\* A program finds its segments.
ImageAt(b, segments) ==
    \A s \in 1..Len(segments) : \A j \in 1..Len(segments[s].data) :
      b[(segments[s].vaddr + j - 1) % WORD] = segments[s].data[j]

Init ==
    /\ pc \in Words /\ x = [r \in REGS |-> 0]
    /\ \E args \in ArgLists, segments \in Images : ArgsAt(bytes, args) /\ ImageAt(bytes, segments)
    /\ out = <<>> /\ ~stopped

\* ir' is the instruction that the step executed.
Next ==
    /\ ~stopped
    /\ \/ /\ pc % 4 = 0
          /\ \/ Computes(ir') \/ Builds(ir') \/ Jumps(ir') \/ Branches(ir')
             \/ Loads(ir') \/ Stores(ir') \/ Calls(ir')
             \/ ir'.op \notin Known /\ pc' = Next4 /\ UNCHANGED <<x, bytes, out>>
          /\ UNCHANGED stopped
       \/ Stop(ir')

Spec == Init /\ [][Next]_vars
=============================================================================
