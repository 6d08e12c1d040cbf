---------------------------- MODULE MCAlgorithms ----------------------------
(* Small instances of the programs without concurrency *)
EXTENDS Algorithms

MCIds == 1..4
MCLine == [id : {1, 3}, complete : BOOLEAN] \cup {[id |-> 2, complete |-> TRUE]}
MCFiles == UNION {{[n |-> size, line |-> l] : l \in [0..size - 1 -> MCLine]} : size \in 0..3}
           \cup {[n |-> 7, line |-> [p \in 0..6 |-> [id |-> ((3 * p) % 7) \div 2 + 1, complete |-> TRUE]]]}

\* Points on a grid, up to four records and a query
MCPoints == [lon : {0, 2}, lat : {0, 1, 4}]
MCRecords == UNION {[1..size -> MCPoints] : size \in 0..3}
             \cup {<<a, b, c, d>> : a, b \in {[lon |-> 0, lat |-> 4], [lon |-> 2, lat |-> 0]},
                                    c, d \in MCPoints}
MCQueries == {[lon |-> 1, lat |-> 1], [lon |-> 2, lat |-> 3], [lon |-> 5, lat |-> 0]}

\* A byte of every class that a test of file.c or the definition of UTF-8 tells
\* apart, every place where the buffer can cut a character of up to four bytes,
\* and the limits of the second byte
MCBytes == {0, 65, 127, 128, 160, 192, 195, 224, 240, 245}
MCTexts ==
    UNION {[1..size -> MCBytes] : size \in 0..4}
    \cup UNION {[1..size -> {65, 128, 160, 195, 240}] : size \in 5..6}
    \cup {<<27, 65, 65>> \o t : t \in [1..4 -> {128, 160, 240}]}
    \cup {<<a, b, 128>> : a \in {224, 237}, b \in {128, 159, 160, 191}}
    \cup {<<a, b, 128, 128>> : a \in {240, 244}, b \in {128, 143, 144, 191}}

MCOps == {"LUI", "AUIPC", "JAL", "JALR", "BRANCH", "LOAD", "STORE", "OP-IMM", "OP", "SYSTEM", "FENCE"}
MCInstructions ==
    [op : MCOps, rd : {0, 1, 9}, f3 : 0..7, rs1 : {0, 1, 31}, rs2 : {0, 9, 26, 31}, f7 : {0, 1, 7, 32, 64, 127}]
=============================================================================
