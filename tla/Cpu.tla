-------------------------------- MODULE Cpu ---------------------------------
(***************************************************************************)
(* simulate() of Opgave5: fetch, decode and execute, over the pages of     *)
(* Memory, with the Predictors watching.  One action is one turn of the    *)
(* loop for one class of opcodes.  The text of the program is not fixed: a *)
(* fetch from an aligned address finds any instruction, as a record of its *)
(* fields (imm is the immediate of the instruction's format, extended to a *)
(* word; the module Decode is about the fields).  Registers hold words;    *)
(* I32 is their int32_t value.                                             *)
(***************************************************************************)
EXTENDS Memory, Predictors, Sequences

CONSTANTS
    REGS,       \* 0..31
    A0, A7,     \* x10 and x17
    EXITS,      \* {3, 93}
    XLEN,       \* 32
    ARG_BASE,   \* 0x1000000
    ArgLists,   \* argument lists, each a sequence of sequences of bytes # 0
    Images,     \* ELF files: sequences of loadable segments [vaddr, data]
    Starts,     \* start addresses
    Instrs,     \* the instructions a fetch may find
    MaxInsns    \* bound: instructions executed

Pow2[n \in 0..XLEN] == IF n = 0 THEN 1 ELSE 2 * Pow2[n - 1]

Instructions ==
    [op : STRING, f3 : 0..7, f7 : 0..127, rd : REGS, rs1 : REGS, rs2 : REGS, imm : Words]
Segments == [vaddr : Words, data : Seq(0..BYTE - 1)]

ASSUME CpuAssumption ==
    /\ XLEN \in Nat \ {0} /\ ADDRESSES = WORD /\ WORD = Pow2[XLEN]
    /\ {0, A0, A7} \subseteq REGS /\ 0 \notin {A0, A7}
    /\ ARG_BASE \in Words /\ Starts \subseteq Words /\ MaxInsns \in Nat
    /\ ArgLists \subseteq Seq(Seq(1..BYTE - 1)) /\ Images \subseteq Seq(Segments)
    /\ \A args \in ArgLists : Len(args) \in Words
    /\ Instrs \subseteq Instructions

VARIABLES
    pc, regs, mem,
    insns,      \* st.insns
    status,     \* "running", "exited" (ecall), "unaligned" (exit(-1)), "trapped" (SIGFPE)
    out,        \* bytes given to putchar
    ir          \* the latest instruction fetched

cpuVars == <<pc, regs, mem, insns, status, out, ir>>
vars == <<cpuVars, predictorVars>>

NoInst == [op |-> "none"]

W(v) == v % WORD                            \* the bits kept by uint32_t and int32_t

\* Strings and pointers are written in turn: argc, then per argument its
\* pointer and its bytes up to and with the 0.
PutArg(state, k, arg) ==
    LET bytes == Append(arg, 0)
        put[j \in 0..Len(bytes)] ==
          IF j = 0 THEN [m |-> memory_wr_w(state.m, W(ARG_BASE + 4 * k), state.str), str |-> state.str]
          ELSE [m |-> memory_wr_b(put[j - 1].m, put[j - 1].str, bytes[j]), str |-> W(put[j - 1].str + 1)]
    IN put[Len(bytes)]

pass_args_to_program(m, args) ==
    LET counted == memory_wr_w(m, ARG_BASE, Len(args))
        passed[k \in 0..Len(args)] ==
          IF k = 0 THEN [m |-> counted, str |-> W(ARG_BASE + 4 + 4 * Len(args))]
          ELSE PutArg(passed[k - 1], k, args[k])
    IN IF args = <<>> THEN m ELSE passed[Len(args)].m

\* The loadable segments, byte by byte (the ways in which a file can fail to be
\* read end the program before simulate() is called).
PutSegment(m, seg) ==
    LET put[j \in 0..Len(seg.data)] ==
          IF j = 0 THEN m ELSE memory_wr_b(put[j - 1], W(seg.vaddr + j - 1), seg.data[j])
    IN put[Len(seg.data)]

read_elf(m, segments) ==
    LET loaded[s \in 0..Len(segments)] ==
          IF s = 0 THEN m ELSE PutSegment(loaded[s - 1], segments[s])
    IN loaded[Len(segments)]

Init ==
    /\ \E args \in ArgLists, segments \in Images :
         mem = read_elf(pass_args_to_program(memory_create, args), segments)
    /\ pc \in Starts /\ regs = [r \in REGS |-> 0]
    /\ insns = 0 /\ status = "running" /\ out = <<>> /\ ir = NoInst
    /\ PredictorInit

-----------------------------------------------------------------------------
I32(v) == IF v >= WORD \div 2 THEN v - WORD ELSE v
Abs(n) == IF n < 0 THEN -n ELSE n

\* v1 / v2 and v1 % v2 in C, which truncate towards 0
Quotient(a, b) == IF (a < 0) = (b < 0) THEN Abs(a) \div Abs(b) ELSE -(Abs(a) \div Abs(b))
Remainder(a, b) == a - Quotient(a, b) * b

Flag(p) == IF p THEN 1 ELSE 0
\* The 64-bit product of sign-extended operands, shifted: (uint64_t) of a
\* negative int32_t extends the sign too, so the three high products agree.
High(v1, v2) == W((I32(v1) * I32(v2)) \div WORD)
Shl(v, n) == W(v * Pow2[n % XLEN])
Shr(v, n) == v \div Pow2[n % XLEN]
Sar(v, n) == W(I32(v) \div Pow2[n % XLEN])

BitOf(v, i) == (v \div Pow2[i]) % 2
\* &, | and ^: the bits that are set where the pair of bits is in ones
ByBits(ones, v1, v2) ==
    LET low[n \in 0..XLEN] ==
          IF n = 0 THEN 0
          ELSE low[n - 1] + (IF <<BitOf(v1, n - 1), BitOf(v2, n - 1)>> \in ones THEN Pow2[n - 1] ELSE 0)
    IN low[XLEN]
And(v1, v2) == ByBits({<<1, 1>>}, v1, v2)
Or(v1, v2) == ByBits({<<0, 1>>, <<1, 0>>, <<1, 1>>}, v1, v2)
Xor(v1, v2) == ByBits({<<0, 1>>, <<1, 0>>}, v1, v2)

r_type(f3, f7, v1, v2) ==
    CASE f3 = 0 -> IF f7 = 32 THEN W(v1 - v2) ELSE IF f7 = 1 THEN W(v1 * v2) ELSE W(v1 + v2)
      [] f3 = 1 -> IF f7 = 1 THEN High(v1, v2) ELSE Shl(v1, v2)
      [] f3 = 2 -> IF f7 = 1 THEN High(v1, v2) ELSE Flag(I32(v1) < I32(v2))
      [] f3 = 3 -> IF f7 = 1 THEN High(v1, v2) ELSE Flag(v1 < v2)
      [] f3 = 4 -> IF f7 = 1 THEN W(Quotient(I32(v1), I32(v2))) ELSE Xor(v1, v2)
      [] f3 = 5 -> IF f7 = 32 THEN Sar(v1, v2) ELSE IF f7 = 1 THEN v1 \div v2 ELSE Shr(v1, v2)
      [] f3 = 6 -> IF f7 = 1 THEN W(Remainder(I32(v1), I32(v2))) ELSE Or(v1, v2)
      [] f3 = 7 -> IF f7 = 1 THEN v1 % v2 ELSE And(v1, v2)

\* The division instruction of x86 raises SIGFPE.
Traps(i) ==
    LET v1 == regs[i.rs1]  v2 == regs[i.rs2] IN
    /\ i.f7 = 1
    /\ \/ i.f3 >= 4 /\ v2 = 0
       \/ i.f3 \in {4, 6} /\ I32(v1) = -(WORD \div 2) /\ I32(v2) = -1

i_type(f3, f7, v1, imm) ==
    CASE f3 = 0 -> W(v1 + imm)
      [] f3 = 2 -> Flag(I32(v1) < I32(imm))
      [] f3 = 3 -> Flag(v1 < imm)
      [] f3 = 4 -> Xor(v1, imm)
      [] f3 = 6 -> Or(v1, imm)
      [] f3 = 7 -> And(v1, imm)
      [] f3 = 1 -> Shl(v1, imm)
      [] f3 = 5 -> IF (f7 \div 32) % 2 = 1 THEN Sar(v1, imm) ELSE Shr(v1, imm)

branch_taken(f3, v1, v2) ==
    \/ f3 = 0 /\ v1 = v2
    \/ f3 = 1 /\ v1 # v2
    \/ f3 = 4 /\ I32(v1) < I32(v2)
    \/ f3 = 5 /\ I32(v1) >= I32(v2)
    \/ f3 = 6 /\ v1 < v2
    \/ f3 = 7 /\ v1 >= v2

-----------------------------------------------------------------------------
\* The head of the loop: memory_rd_w allocates the page, then tests the address.
Fetch(i) ==
    /\ status = "running" /\ insns < MaxInsns /\ pc % 4 = 0
    /\ ir' = i /\ insns' = insns + 1

\* Touching the page of the text is part of every turn.
Text == Touched(mem, pc)

\* The tail of the loop
WriteRegAny(rd, v) == regs' = [regs EXCEPT ![rd] = v]    \* mutant: x0 is written
WriteReg(rd, v) == regs' = [regs EXCEPT ![rd] = v, ![0] = 0]
Advance == pc' = W(pc + 4)
Quietly == UNCHANGED <<status, out>>

Lui(i) ==
    /\ Fetch(i) /\ i.op = "LUI"
    /\ WriteReg(i.rd, i.imm)
    /\ Advance /\ mem' = Text /\ Quietly /\ UNCHANGED predictorVars

Auipc(i) ==
    /\ Fetch(i) /\ i.op = "AUIPC"
    /\ WriteReg(i.rd, W(pc + i.imm))
    /\ Advance /\ mem' = Text /\ Quietly /\ UNCHANGED predictorVars

Jal(i) ==
    /\ Fetch(i) /\ i.op = "JAL"
    /\ WriteReg(i.rd, W(pc + 4))
    /\ pc' = W(pc + i.imm)
    /\ Predict(pc, W(pc + i.imm), TRUE)
    /\ mem' = Text /\ Quietly

Jalr(i) ==
    /\ Fetch(i) /\ i.op = "JALR"
    /\ LET next_pc == (W(regs[i.rs1] + i.imm) \div 2) * 2 IN
       pc' = next_pc /\ Predict(pc, next_pc, TRUE)
    /\ WriteReg(i.rd, W(pc + 4))
    /\ mem' = Text /\ Quietly

Branch(i) ==
    /\ Fetch(i) /\ i.op = "BRANCH"
    /\ LET taken == branch_taken(i.f3, regs[i.rs1], regs[i.rs2])
           branch_target == W(pc + i.imm)
       IN /\ pc' = IF taken THEN branch_target ELSE W(pc + 4)
          /\ Predict(pc, branch_target, taken)
    /\ WriteReg(0, 0) /\ mem' = Text /\ Quietly

\* memory_rd_* and memory_wr_* exit on an unaligned halfword or word; the
\* reads allocate the page first, the writes do not.
Unaligned(f3, addr) == \/ f3 \in {1, 5} /\ addr % 2 # 0
                       \/ f3 = 2 /\ addr % 4 # 0

Load(i) ==
    LET addr == W(regs[i.rs1] + i.imm)
        b == memory_rd_b(mem, addr)
        h == memory_rd_h(mem, addr)
        SignedByte == IF b >= BYTE \div 2 THEN W(b - BYTE) ELSE b
        SignedHalf == IF h >= HALF \div 2 THEN W(h - HALF) ELSE h
    IN
    /\ Fetch(i) /\ i.op = "LOAD" /\ ~Unaligned(i.f3, addr)
    /\ WriteReg(i.rd, CASE i.f3 = 0 -> SignedByte [] i.f3 = 4 -> b
                        [] i.f3 = 1 -> SignedHalf [] i.f3 = 5 -> h
                        [] i.f3 = 2 -> memory_rd_w(mem, addr)
                        [] OTHER -> regs[i.rd])
    /\ mem' = IF i.f3 \in {0, 1, 2, 4, 5} THEN Touched(Text, addr) ELSE Text
    /\ Advance /\ Quietly /\ UNCHANGED predictorVars

Store(i) ==
    LET addr == W(regs[i.rs1] + i.imm)
        v2 == regs[i.rs2]
    IN
    /\ Fetch(i) /\ i.op = "STORE" /\ ~Unaligned(i.f3, addr)
    /\ mem' = CASE i.f3 = 0 -> memory_wr_b(Text, addr, v2)
                [] i.f3 = 1 -> memory_wr_h(Text, addr, v2)
                [] i.f3 = 2 -> memory_wr_w(Text, addr, v2)
                [] OTHER -> Text
    /\ WriteReg(0, 0) /\ Advance /\ Quietly /\ UNCHANGED predictorVars

UnalignedAccess(i) ==
    LET addr == W(regs[i.rs1] + i.imm) IN
    /\ Fetch(i) /\ i.op \in {"LOAD", "STORE"} /\ Unaligned(i.f3, addr)
    /\ mem' = IF i.op = "LOAD" THEN Touched(Text, addr) ELSE Text
    /\ status' = "unaligned"
    /\ UNCHANGED <<pc, regs, out, predictorVars>>

AluImm(i) ==
    /\ Fetch(i) /\ i.op = "OP-IMM"
    /\ WriteReg(i.rd, i_type(i.f3, i.f7, regs[i.rs1], i.imm))
    /\ Advance /\ mem' = Text /\ Quietly /\ UNCHANGED predictorVars

Alu(i) ==
    /\ Fetch(i) /\ i.op = "OP" /\ ~Traps(i)
    /\ WriteReg(i.rd, r_type(i.f3, i.f7, regs[i.rs1], regs[i.rs2]))
    /\ Advance /\ mem' = Text /\ Quietly /\ UNCHANGED predictorVars

Trap(i) ==
    /\ Fetch(i) /\ i.op = "OP" /\ Traps(i)
    /\ status' = "trapped" /\ mem' = Text
    /\ UNCHANGED <<pc, regs, out, predictorVars>>

\* handle_ecall: getchar gives a byte or EOF, -1.
Ecall(i) ==
    /\ Fetch(i) /\ i.op = "SYSTEM" /\ regs[A7] \notin EXITS
    /\ IF regs[A7] = 1 THEN \E c \in 0..BYTE - 1 \cup {WORD - 1} : WriteReg(A0, c)
       ELSE WriteReg(0, 0)
    /\ out' = IF regs[A7] = 2 THEN Append(out, regs[A0] % BYTE) ELSE out
    /\ Advance /\ mem' = Text /\ UNCHANGED <<status, predictorVars>>

EcallExit(i) ==
    /\ Fetch(i) /\ i.op = "SYSTEM" /\ regs[A7] \in EXITS
    /\ status' = "exited" /\ mem' = Text
    /\ UNCHANGED <<pc, regs, out, predictorVars>>

\* An opcode that the chain of tests does not name does nothing.
Unknown(i) ==
    /\ Fetch(i)
    /\ i.op \notin {"LUI", "AUIPC", "JAL", "JALR", "BRANCH", "LOAD", "STORE", "OP-IMM", "OP", "SYSTEM"}
    /\ WriteReg(0, 0) /\ Advance /\ mem' = Text /\ Quietly /\ UNCHANGED predictorVars

FetchUnaligned ==
    /\ status = "running" /\ insns < MaxInsns /\ pc % 4 # 0
    /\ status' = "unaligned" /\ mem' = Text
    /\ UNCHANGED <<pc, regs, insns, out, ir, predictorVars>>

Next ==
    \/ \E i \in Instrs :
         \/ Lui(i) \/ Auipc(i) \/ Jal(i) \/ Jalr(i) \/ Branch(i)
         \/ Load(i) \/ Store(i) \/ UnalignedAccess(i)
         \/ AluImm(i) \/ Alu(i) \/ Trap(i)
         \/ Ecall(i) \/ EcallExit(i) \/ Unknown(i)
    \/ FetchUnaligned

Spec == Init /\ [][Next]_vars

-----------------------------------------------------------------------------
\* Every register and every word of an allocated page holds a word, x0 is 0
\* between instructions, and the predictors' state fits their widths.
CpuTypeOK ==
    /\ pc \in Words /\ regs \in [REGS -> Words] /\ regs[0] = 0
    /\ mem \in Memories
    /\ insns \in 0..MaxInsns
    /\ status \in {"running", "exited", "unaligned", "trapped"}
    /\ PredictorTypeOK

\* The machine that a program sees: the bytes behind the pages.
Machine == INSTANCE Isa WITH
    x <- regs,
    bytes <- [a \in Words |-> memory_rd_b(mem, a)],
    stopped <- status # "running"

\* The instructions of RV32I and RV32M that opgave.md asks for
Conforms(i) ==
    /\ i.op = "OP" => \E e \in Machine!Encodings : e[2] = i.f3 /\ e[3] = i.f7
    /\ i.op = "OP-IMM" => (i.f3 = 1 => i.f7 = 0) /\ (i.f3 = 5 => i.f7 \in {0, 32})
    /\ i.op = "BRANCH" => i.f3 \notin {2, 3}
    /\ i.op = "LOAD" => i.f3 \in {0, 1, 2, 4, 5}
    /\ i.op = "STORE" => i.f3 \in {0, 1, 2}

\* The bytes that the arguments and a segment take.  at[k - 1] is where the
\* string of the argument k starts, and where the string before it ends.
StringsAt(args) ==
    LET at[k \in 0..Len(args)] ==
          IF k = 0 THEN ARG_BASE + 4 + 4 * Len(args) ELSE at[k - 1] + Len(args[k]) + 1
    IN at
ArgArea(args) == IF args = <<>> THEN {} ELSE ARG_BASE..StringsAt(args)[Len(args)] - 1
Area(seg) == seg.vaddr..seg.vaddr + Len(seg.data) - 1

\* A program whose segments do not overlap, with arguments that fit in memory
\* and are not overwritten by its segments
Fits(args, segments) ==
    /\ ARG_BASE % 4 = 0 /\ ArgArea(args) \subseteq Words
    /\ \A s \in 1..Len(segments) :
         /\ Area(segments[s]) \subseteq Words /\ Area(segments[s]) \cap ArgArea(args) = {}
         /\ \A t \in 1..s - 1 : Area(segments[s]) \cap Area(segments[t]) = {}

\* What the high product of the signed operands lacks, when one of them or
\* both should have been taken as unsigned (mulhsu, mulhu)
Lacks(f3, v1, v2) ==
    W((IF f3 = 3 /\ I32(v1) < 0 THEN v2 ELSE 0) + (IF I32(v2) < 0 THEN v1 ELSE 0))

\* Where simulate() leaves the instruction set: a division by zero, and one of
\* the least number by -1, end the simulator, and a high product of an unsigned
\* operand is that of the signed ones (see High).
Departs(i) ==
    /\ pc % 4 = 0 /\ i.op = "OP" /\ i.f7 = 1
    /\ \/ Traps(i)
       \/ i.f3 \in {2, 3} /\ i.rd # 0 /\ Lacks(i.f3, regs[i.rs1], regs[i.rs2]) # 0

\* A turn of simulate()'s loop is a step of the instruction set of opgave.md:
\* the tests of f3 and f7, the sign of comparisons and shifts, the truncation
\* of division, the bytes merged into words of pages that are allocated on
\* demand, and the system calls.  It is none in just the cases of Departs.
ImplementsIsa == Machine!Init /\ [][Machine!Next <=> ~Departs(ir')]_vars

\* Without these cases it does not hold.
AlwaysIsa == Machine!Spec
=============================================================================
