----------------------------- MODULE Predictors -----------------------------
(***************************************************************************)
(* The branch predictors that simulate() in Opgave5 keeps beside the       *)
(* machine: not taken (NT), backward taken / forward not taken (BTFNT),    *)
(* and two-bit counters indexed by the address (bimodal) or by the address *)
(* and the history of outcomes (gShare), in tables of several sizes.  They *)
(* see every jump and branch, conditional or not.                          *)
(***************************************************************************)
EXTENDS Integers

CONSTANTS
    ADDRESSES, \* 2^32: addresses are below it
    Sizes,     \* the sizes of the tables, powers of two
    HISTORY    \* 2^16: the history register holds values below it

ASSUME PredictorAssumption ==
    /\ ADDRESSES \in Nat \ {0} /\ HISTORY \in Nat \ {0} /\ Sizes \subseteq Nat \ {0}

VARIABLES
    nt_errors, btfnt_errors, branch_count,
    bimodal, gshare,                \* size -> index -> counter
    bimodal_errors, gshare_errors,  \* size -> mispredictions
    ghr,                            \* outcomes of the latest branches, as bits
    last, turns, missed             \* history, per table and index: the latest
                                    \* outcome, changes of it, mispredictions

counters == <<nt_errors, btfnt_errors, branch_count, bimodal_errors, gshare_errors>>
predictorVars == <<counters, bimodal, gshare, ghr, last, turns, missed>>

Tables == {"bimodal", "gshare"}
PerEntry(v) == [t \in Tables |-> [s \in Sizes |-> [i \in 0..s - 1 |-> v]]]

PredictorInit ==
    /\ nt_errors = 0 /\ btfnt_errors = 0 /\ branch_count = 0
    /\ bimodal = [s \in Sizes |-> [i \in 0..s - 1 |-> 2]]
    /\ gshare = [s \in Sizes |-> [i \in 0..s - 1 |-> 2]]
    /\ bimodal_errors = [s \in Sizes |-> 0] /\ gshare_errors = [s \in Sizes |-> 0]
    /\ ghr = 0
    /\ last = PerEntry("none") /\ turns = PerEntry(0) /\ missed = PerEntry(0)

Bit(a, i) == (a \div 2^i) % 2

\* a ^ b for values below n, a power of two
XorBelow(a, b, n) ==
    CHOOSE x \in 0..n - 1 : \A i \in 0..n - 1 : 2^i < n => Bit(x, i) = (Bit(a, i) + Bit(b, i)) % 2

\* int32_t of a difference that is negative
IsNegative(v) == v % ADDRESSES >= ADDRESSES \div 2

BimodalIndex(pc, size) == (pc \div 4) % size
GshareIndex(pc, size) == XorBelow((pc \div 4) % size, ghr % size, size)

predicts(counter) == counter >= 2

TrainUp(counter, taken) ==              \* mutant: no step down when not taken
    IF taken /\ counter < 3 THEN counter + 1 ELSE counter

Train(counter, taken) ==
    IF taken THEN (IF counter < 3 THEN counter + 1 ELSE counter)
             ELSE (IF counter > 0 THEN counter - 1 ELSE counter)

Trained(table, Index(_, _), pc, taken) ==
    [s \in Sizes |-> [i \in 0..s - 1 |->
        IF i = Index(pc, s) THEN Train(table[s][i], taken) ELSE table[s][i]]]

Wrong(table, Index(_, _), pc, s, taken) == predicts(table[s][Index(pc, s)]) # taken

Outcome(taken) == IF taken THEN "taken" ELSE "not"

\* The history variables after a branch that used entry Index(pc, s) of a table
Latest(t, Index(_, _), pc, taken) ==
    [s \in Sizes |-> [i \in 0..s - 1 |->
        IF i = Index(pc, s) THEN Outcome(taken) ELSE last[t][s][i]]]
Turned(t, Index(_, _), pc, taken) ==
    [s \in Sizes |-> [i \in 0..s - 1 |->
        IF i = Index(pc, s) /\ last[t][s][i] # Outcome(taken) THEN turns[t][s][i] + 1
        ELSE turns[t][s][i]]]
Missed(t, table, Index(_, _), pc, taken) ==
    [s \in Sizes |-> [i \in 0..s - 1 |->
        IF i = Index(pc, s) /\ predicts(table[s][i]) # taken THEN missed[t][s][i] + 1
        ELSE missed[t][s][i]]]

\* The block under "if(is_branch)" in simulate(), with the count of branches
Predict(pc, target, taken) ==
    LET backward == IsNegative(target - pc) IN
    /\ branch_count' = branch_count + 1
    /\ nt_errors' = nt_errors + (IF taken THEN 1 ELSE 0)
    /\ btfnt_errors' = btfnt_errors + (IF taken # backward THEN 1 ELSE 0)
    /\ bimodal_errors' = [s \in Sizes |->
         bimodal_errors[s] + (IF Wrong(bimodal, BimodalIndex, pc, s, taken) THEN 1 ELSE 0)]
    /\ gshare_errors' = [s \in Sizes |->
         gshare_errors[s] + (IF Wrong(gshare, GshareIndex, pc, s, taken) THEN 1 ELSE 0)]
    /\ bimodal' = Trained(bimodal, BimodalIndex, pc, taken)
    /\ gshare' = Trained(gshare, GshareIndex, pc, taken)
    /\ ghr' = (2 * ghr + (IF taken THEN 1 ELSE 0)) % HISTORY
    /\ last' = [t \in Tables |-> IF t = "bimodal" THEN Latest(t, BimodalIndex, pc, taken)
                                                  ELSE Latest(t, GshareIndex, pc, taken)]
    /\ turns' = [t \in Tables |-> IF t = "bimodal" THEN Turned(t, BimodalIndex, pc, taken)
                                                   ELSE Turned(t, GshareIndex, pc, taken)]
    /\ missed' = [t \in Tables |->
         IF t = "bimodal" THEN Missed(t, bimodal, BimodalIndex, pc, taken)
                          ELSE Missed(t, gshare, GshareIndex, pc, taken)]

\* Any branch of any program
PredictorNext == \E pc, target \in 0..ADDRESSES - 1, taken \in BOOLEAN : Predict(pc, target, taken)

PredictorSpec == PredictorInit /\ [][PredictorNext]_predictorVars

-----------------------------------------------------------------------------
\* What a two-bit counter is for: however often branches share an entry of a
\* table, in a stretch in which its outcome does not change the entry is wrong
\* at most twice.
MispredictsBounded ==
    \A t \in Tables : \A s \in Sizes : \A i \in 0..s - 1 :
      missed[t][s][i] <= 2 * turns[t][s][i]

\* The counters stay two bits wide, and the history register 16.
PredictorTypeOK ==
    /\ DOMAIN bimodal = Sizes /\ DOMAIN gshare = Sizes
    /\ \A s \in Sizes : bimodal[s] \in [0..s - 1 -> 0..3] /\ gshare[s] \in [0..s - 1 -> 0..3]
    /\ ghr \in 0..HISTORY - 1
    /\ {nt_errors, btfnt_errors} \subseteq 0..branch_count
=============================================================================
