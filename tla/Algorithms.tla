----------------------------- MODULE Algorithms -----------------------------
(***************************************************************************)
(* The programs without concurrency: the lookups by osm_id as a state      *)
(* machine, and the pure functions, each on an input that is chosen at the *)
(* start and stays.                                                        *)
(***************************************************************************)
EXTENDS IdQuery, KdTree, FileType, Decode

CONSTANTS
    Records,        \* sequences of points: the records of the lookups by position
    Queries,        \* points
    Texts,          \* contents of files
    Instructions,   \* instructions in their slices
    Addresses       \* where they are

Point == [lon : Int, lat : Int]
Slices == [op : STRING, f7 : 0..127, rs2 : 0..31, rs1 : 0..31, f3 : 0..7, rd : 0..31]

ASSUME AlgorithmsAssumption ==
    /\ Records \subseteq Seq(Point) /\ Queries \subseteq Point
    /\ Texts \subseteq Seq(0..255)
    /\ Instructions \subseteq Slices
    /\ Addresses \subseteq 0..(2^30 + (2^30 - 2^20) - 1)    \* so far a target is not wrapped

VARIABLE input      \* NoInput, or an input of a pure function

Inputs ==
    [kind : {"points"}, rs : Records, query : Queries]
    \cup [kind : {"text"}, bytes : Texts]
    \cup [kind : {"instruction"}, inst : Instructions, addr : Addresses]

NoInput == [kind |-> "none"]
Idle ==
    /\ program = "none" /\ file = NULL /\ n = 0 /\ rs = <<>> /\ order = <<>> /\ ey = <<>>
    /\ phase = "idle" /\ needle = NULL /\ answer = NULL
    /\ i = 0 /\ low = 0 /\ high = 0 /\ k = 0 /\ last = 0

Init == \/ IdInit /\ input = NoInput
        \/ Idle /\ input \in Inputs
Next == IdNext /\ UNCHANGED input
Spec == Init /\ [][Next]_<<idVars, input>>

\* The lookups in records by position: see TreeSound and AnswersRight.
CoordLookups ==
    input.kind = "points" => TreeSound(input.rs) /\ AnswersRight(input.rs, input.query)
\* The classes of files: see RightType.
ClassifierRight == input.kind = "text" => RightType(input.bytes)
\* The listing and the simulator: see SameInstruction.
DecodersAgree == input.kind = "instruction" => SameInstruction(input.addr, input.inst)
=============================================================================
