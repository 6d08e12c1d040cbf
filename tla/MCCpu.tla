------------------------------- MODULE MCCpu --------------------------------
(* A machine of 4-bit words: bytes of one bit, pages of two words. *)
EXTENDS Cpu

I(op, f3, f7, rd, rs1, rs2, imm) ==
    [op |-> op, f3 |-> f3, f7 |-> f7, rd |-> rd, rs1 |-> rs1, rs2 |-> rs2, imm |-> imm]

\* Values: small, and at the sign bit
MCValues == {1, 2, 3, 6, 8, 13, 15}

\* Instructions that give x1 and x2 their values
Setters == {I("OP-IMM", 0, 0, rd, 0, 0, v) : rd \in {1, 2}, v \in MCValues}

\* Every instruction, on x1 and x2
RNames == ((0..7) \X {0, 1}) \cup {<<0, 32>>, <<5, 32>>}
MCInstrs ==
    Setters
    \cup {I("OP", n[1], n[2], 3, 1, 2, 0) : n \in RNames}
    \cup {I("OP-IMM", f3, 0, 3, 1, 0, 13) : f3 \in 1..7} \cup {I("OP-IMM", 5, 32, 3, 1, 0, 1)}
    \cup {I("OP", 0, 0, 0, 1, 2, 0)}
    \cup {I("LUI", 0, 0, 3, 0, 0, 8), I("AUIPC", 0, 0, 3, 0, 0, 8)}
    \cup {I("JAL", 0, 0, 3, 0, 0, imm) : imm \in {2, 12}} \cup {I("JALR", 0, 0, 1, 1, 0, 3)}
    \cup {I("BRANCH", f3, 0, 0, 1, 2, 12) : f3 \in {0, 1, 4, 5, 6, 7}}
    \cup {I("LOAD", f3, 0, 3, 1, 0, 1) : f3 \in {0, 1, 2, 4, 5}}
    \cup {I("STORE", f3, 0, 0, 1, 2, 1) : f3 \in {0, 1, 2}}
    \cup {I("SYSTEM", 0, 0, 0, 0, 0, 0), I("FENCE", 0, 0, 0, 0, 0, 0)}

MCArgLists == {<<>>, <<<<1, 1>>>>}
MCImages == {<<[vaddr |-> 0, data |-> <<1, 0, 1>>]>>}
MCSizes == {1, 2}

\* What the theorem on the instruction set asks of a program
ASSUME MCConforms == \A i \in MCInstrs : Conforms(i)
ASSUME MCFits == \A args \in MCArgLists, segments \in MCImages : Fits(args, segments)
=============================================================================
