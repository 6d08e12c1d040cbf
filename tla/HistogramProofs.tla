--------------------------- MODULE HistogramProofs --------------------------
(***************************************************************************)
(* Proofs about fhistogram-mt.c's counting, for any number of workers and  *)
(* files, any contents and any chunk length: no bit is lost or counted     *)
(* twice, the last histogram printed is that of all the readable files,    *)
(* and the number of bits printed never goes back.                         *)
(*                                                                         *)
(* The first part is about Total, a fold over a function's domain.  The    *)
(* fold takes the elements in the order CHOOSE happens to give; the lemmas *)
(* show, by induction on finite sets, that the order does not matter and   *)
(* what changing one entry does to the sum.                                *)
(***************************************************************************)
EXTENDS Histogram, Integers, FiniteSetTheorems, NaturalsInduction,
        WellFoundedInduction, TLAPS

-----------------------------------------------------------------------------
(* Induction, on the natural numbers and on finite sets: the property is a *)
(* set, P, of the values that have it.                                     *)

LEMMA LeastNat ==
  ASSUME NEW T, T \subseteq Nat, T # {}
  PROVE  \E x \in T : \A y \in T : x <= y
<1>. DEFINE R == OpToRel(<, Nat)
<1>1. \E x \in T : \A y \in T : ~(<<y, x>> \in R)
  <2>. HIDE DEF R
  <2>1. IsWellFoundedOn(R, Nat)
    BY NatLessThanWellFounded, Zenon DEF R
  <2>. QED BY <2>1, WFMin, Zenon
<1>2. \A x, y \in Nat : <<y, x>> \in R <=> y < x
  BY DEF OpToRel
<1>. HIDE DEF R
<1>3. PICK x \in T : \A y \in T : ~(<<y, x>> \in R)
  BY <1>1
<1>4. \A y \in T : ~(y < x) /\ y \in Nat /\ x \in Nat
  BY <1>2, <1>3
<1>. QED BY <1>3, <1>4

LEMMA Induct ==
  ASSUME NEW P, 0 \in P, \A n \in Nat : n \in P => n + 1 \in P
  PROVE  Nat \subseteq P
<1>. SUFFICES ASSUME NEW m \in Nat, m \notin P PROVE FALSE
  OBVIOUS
<1>. DEFINE T == {n \in Nat : n \notin P}
<1>1. PICK x \in T : \A y \in T : x <= y
  <2>. T \subseteq Nat /\ T # {}
    OBVIOUS
  <2>. HIDE DEF T
  <2>. QED BY LeastNat
<1>2. x # 0 /\ x - 1 \in Nat /\ x - 1 \in P
  BY <1>1
<1>. QED BY <1>1, <1>2

LEMMA SubsetFinite ==
  ASSUME NEW D, IsFiniteSet(D), NEW s \in SUBSET D
  PROVE  /\ IsFiniteSet(s) /\ Cardinality(s) \in Nat
         /\ s # {} => Cardinality(s) # 0
         /\ \A x \in s : Cardinality(s \ {x}) = Cardinality(s) - 1
<1>1. IsFiniteSet(s)
  BY FS_Subset
<1>. QED BY <1>1, FS_CardinalityType, FS_EmptySet, FS_RemoveElement

LEMMA FiniteInduct ==
  ASSUME NEW D, IsFiniteSet(D), NEW P, {} \in P,
         \A s \in SUBSET D : \A x \in s : s \ {x} \in P => s \in P
  PROVE  SUBSET D \subseteq P
<1>. DEFINE Q == {n \in Nat : \A s \in SUBSET D : Cardinality(s) = n => s \in P}
<1>1. 0 \in Q
  BY SubsetFinite
<1>2. ASSUME NEW n \in Nat, n \in Q
      PROVE  n + 1 \in Q
  <2>. SUFFICES ASSUME NEW s \in SUBSET D, Cardinality(s) = n + 1
                PROVE  s \in P
    OBVIOUS
  <2>1. PICK x \in s : TRUE
    BY FS_EmptySet
  <2>2. Cardinality(s \ {x}) = Cardinality(s) - 1
    BY SubsetFinite
  <2>3. s \ {x} \in SUBSET D /\ Cardinality(s \ {x}) = n
    BY <2>2
  <2>. QED BY <1>2, <2>3
<1>3. Nat \subseteq Q
  <2>. HIDE DEF Q
  <2>. QED BY <1>1, <1>2, Induct
<1>. QED BY <1>3, SubsetFinite

-----------------------------------------------------------------------------
(* Total: Iter(h, D)[s] is the sum of h over the subset s of D, its        *)
(* elements taken in the order of the fold's CHOOSE.                       *)

Pick(s) == CHOOSE x \in s : TRUE
IterEq(g, h, D) ==
    g = [s \in SUBSET D |-> IF s = {} THEN 0 ELSE h[Pick(s)] + g[s \ {Pick(s)}]]
Iter(h, D) == CHOOSE g : IterEq(g, h, D)

LEMMA TotalIter ==
  ASSUME NEW h
  PROVE  Total(h) = Iter(h, DOMAIN h)[DOMAIN h]
BY DEF Total, FoldFunction, FoldFunctionOnSet, MapThenFoldSet, Iter, IterEq, Pick

LEMMA PickIn ==
  ASSUME NEW s, s # {}
  PROVE  Pick(s) \in s
BY DEF Pick

\* h can be summed over D.
Summable(h, D) == IsFiniteSet(D) /\ \A x \in D : h[x] \in Nat

\* The recursive definition of the fold has a solution.
LEMMA IterExists ==
  ASSUME NEW D, IsFiniteSet(D), NEW h
  PROVE  \E g : IterEq(g, h, D)
<1>. DEFINE Sub(n) == {s \in SUBSET D : Cardinality(s) <= n}
            Eq(g, n) == g = [s \in Sub(n) |->
                               IF s = {} THEN 0 ELSE h[Pick(s)] + g[s \ {Pick(s)}]]
            P == {n \in Nat : \E g : Eq(g, n)}
<1>1. 0 \in P
  <2>. DEFINE g == [s \in Sub(0) |-> 0]
  <2>1. \A s \in Sub(0) : s = {}
    BY SubsetFinite
  <2>2. g = [s \in Sub(0) |-> IF s = {} THEN 0 ELSE h[Pick(s)] + g[s \ {Pick(s)}]]
    BY <2>1
  <2>. QED BY <2>2
<1>2. ASSUME NEW n \in Nat, n \in P
      PROVE  n + 1 \in P
  <2>1. PICK g : Eq(g, n)
    BY <1>2
  <2>. DEFINE k == [s \in Sub(n + 1) |->
                      IF s = {} THEN 0 ELSE h[Pick(s)] + g[s \ {Pick(s)}]]
  <2>2. ASSUME NEW s \in Sub(n)
        PROVE  s \in Sub(n + 1) /\ k[s] = g[s]
    <3>1. s \in Sub(n + 1)
      BY SubsetFinite
    <3>2. g[s] = IF s = {} THEN 0 ELSE h[Pick(s)] + g[s \ {Pick(s)}]
      BY <2>1
    <3>. QED BY <3>1, <3>2
  <2>3. ASSUME NEW s \in Sub(n + 1), s # {}
        PROVE  s \ {Pick(s)} \in Sub(n)
    BY <2>3, PickIn, SubsetFinite
  <2>4. k = [s \in Sub(n + 1) |-> IF s = {} THEN 0 ELSE h[Pick(s)] + k[s \ {Pick(s)}]]
    <3>1. \A s \in Sub(n + 1) : s # {} => k[s \ {Pick(s)}] = g[s \ {Pick(s)}]
      BY <2>2, <2>3
    <3>. HIDE DEF Sub
    <3>. QED BY <3>1
  <2>5. Eq(k, n + 1)
    BY <2>4
  <2>. HIDE DEF Eq
  <2>. QED BY <2>5
<1>3. Nat \subseteq P
  <2>. HIDE DEF P
  <2>. QED BY <1>1, <1>2, Induct
<1>4. Cardinality(D) \in Nat /\ Sub(Cardinality(D)) = SUBSET D
  <2>1. Cardinality(D) \in Nat
    BY FS_CardinalityType
  <2>2. \A s \in SUBSET D : Cardinality(s) <= Cardinality(D)
    BY FS_Subset
  <2>. QED BY <2>1, <2>2
<1>5. PICK g : Eq(g, Cardinality(D))
  BY <1>3, <1>4
<1>. QED BY <1>4, <1>5 DEF IterEq

LEMMA IterRec ==
  ASSUME NEW D, IsFiniteSet(D), NEW h, NEW s \in SUBSET D
  PROVE  Iter(h, D)[s] =
           IF s = {} THEN 0 ELSE h[Pick(s)] + Iter(h, D)[s \ {Pick(s)}]
<1>1. IterEq(Iter(h, D), h, D)
  BY IterExists DEF Iter
<1>. QED BY <1>1 DEF IterEq

LEMMA IterNat ==
  ASSUME NEW D, NEW h, Summable(h, D)
  PROVE  \A s \in SUBSET D : Iter(h, D)[s] \in Nat
<1>. IsFiniteSet(D) /\ \A x \in D : h[x] \in Nat
  BY DEF Summable
<1>. DEFINE P == {n \in Nat : \A s \in SUBSET D :
                                 Cardinality(s) = n => Iter(h, D)[s] \in Nat}
<1>1. 0 \in P
  BY SubsetFinite, IterRec
<1>2. ASSUME NEW n \in Nat, n \in P
      PROVE  n + 1 \in P
  <2>. SUFFICES ASSUME NEW s \in SUBSET D, Cardinality(s) = n + 1
                PROVE  Iter(h, D)[s] \in Nat
    OBVIOUS
  <2>1. s # {}
    BY FS_EmptySet
  <2>2. Pick(s) \in s
    BY <2>1, PickIn
  <2>3. s \ {Pick(s)} \in SUBSET D /\ Cardinality(s \ {Pick(s)}) = n
    BY <2>2, SubsetFinite
  <2>4. Iter(h, D)[s] = h[Pick(s)] + Iter(h, D)[s \ {Pick(s)}]
    BY <2>1, IterRec
  <2>. QED BY <1>2, <2>2, <2>3, <2>4
<1>3. Nat \subseteq P
  <2>. HIDE DEF P
  <2>. QED BY <1>1, <1>2, Induct
<1>. QED BY <1>3, SubsetFinite

\* Any element may be taken first.
LEMMA IterAny ==
  ASSUME NEW D, NEW h, Summable(h, D)
  PROVE  \A s \in SUBSET D : \A x \in s :
            Iter(h, D)[s] = h[x] + Iter(h, D)[s \ {x}]
<1>. IsFiniteSet(D) /\ \A x \in D : h[x] \in Nat
  BY DEF Summable
<1>. DEFINE Any(s) == \A x \in s : Iter(h, D)[s] = h[x] + Iter(h, D)[s \ {x}]
            P == {n \in Nat : \A s \in SUBSET D : Cardinality(s) = n => Any(s)}
<1>1. 0 \in P
  BY SubsetFinite
<1>2. ASSUME NEW n \in Nat, n \in P
      PROVE  n + 1 \in P
  <2>. SUFFICES ASSUME NEW s \in SUBSET D, Cardinality(s) = n + 1, NEW x \in s
                PROVE  Iter(h, D)[s] = h[x] + Iter(h, D)[s \ {x}]
    OBVIOUS
  <2>. DEFINE y == Pick(s)
              t == s \ {x, y}
  <2>1. y \in s /\ Iter(h, D)[s] = h[y] + Iter(h, D)[s \ {y}]
    BY PickIn, IterRec
  <2>. HIDE DEF y
  <2>2. CASE x = y
    BY <2>1, <2>2
  <2>3. CASE x # y
    <3>1. Any(s \ {x}) /\ Any(s \ {y})
      <4>1. Cardinality(s \ {x}) = n /\ Cardinality(s \ {y}) = n
        BY <2>1, SubsetFinite
      <4>. HIDE DEF Any
      <4>. QED BY <4>1, <1>2
    <3>2. (s \ {x}) \ {y} = t /\ (s \ {y}) \ {x} = t /\ t \in SUBSET D
      OBVIOUS
    <3>3. Iter(h, D)[s \ {x}] = h[y] + Iter(h, D)[t]
      BY <2>1, <2>3, <3>1, <3>2
    <3>4. Iter(h, D)[s \ {y}] = h[x] + Iter(h, D)[t]
      BY <2>1, <2>3, <3>1, <3>2
    <3>5. h[x] \in Nat /\ h[y] \in Nat /\ Iter(h, D)[t] \in Nat
      BY <2>1, <3>2, IterNat
    <3>. QED BY <2>1, <3>3, <3>4, <3>5
  <2>. QED BY <2>2, <2>3
<1>3. Nat \subseteq P
  <2>. HIDE DEF P
  <2>. QED BY <1>1, <1>2, Induct
<1>. QED BY <1>3, SubsetFinite

\* The sum over s depends on the values on s only.
LEMMA IterAgree ==
  ASSUME NEW D, NEW h, Summable(h, D), NEW E, NEW k, Summable(k, E), NEW s, s \subseteq D, s \subseteq E, \A x \in s : h[x] = k[x]
  PROVE  Iter(h, D)[s] = Iter(k, E)[s]
<1>. IsFiniteSet(D) /\ IsFiniteSet(E)
  BY DEF Summable
<1>. DEFINE P == {t \in SUBSET s : Iter(h, D)[t] = Iter(k, E)[t]}
<1>1. {} \in P
  BY IterRec
<1>2. ASSUME NEW t \in SUBSET s, NEW x \in t, t \ {x} \in P
      PROVE  t \in P
  <2>. t \in SUBSET D /\ t \in SUBSET E
    OBVIOUS
  <2>1. Iter(h, D)[t] = h[x] + Iter(h, D)[t \ {x}]
    BY IterAny
  <2>2. Iter(k, E)[t] = k[x] + Iter(k, E)[t \ {x}]
    BY IterAny
  <2>. QED BY <1>2, <2>1, <2>2
<1>3. IsFiniteSet(s)
  BY FS_Subset
<1>4. SUBSET s \subseteq P
  <2>. HIDE DEF P
  <2>. QED BY <1>1, <1>2, <1>3, FiniteInduct
<1>. QED BY <1>4

LEMMA TotalNat ==
  ASSUME NEW D, IsFiniteSet(D), NEW h \in [D -> Nat]
  PROVE  Total(h) \in Nat
<1>1. DOMAIN h = D /\ Summable(h, D)
  BY DEF Summable
<1>2. Iter(h, D)[D] \in Nat
  BY <1>1, IterNat
<1>. QED BY <1>1, <1>2, TotalIter

LEMMA TotalZero ==
  ASSUME NEW D, IsFiniteSet(D), NEW h \in [D -> Nat], \A x \in D : h[x] = 0
  PROVE  Total(h) = 0
<1>. Summable(h, D)
  BY DEF Summable
<1>. DEFINE P == {t \in SUBSET D : Iter(h, D)[t] = 0}
<1>1. {} \in P
  BY IterRec
<1>2. ASSUME NEW t \in SUBSET D, NEW x \in t, t \ {x} \in P
      PROVE  t \in P
  <2>1. Iter(h, D)[t] = h[x] + Iter(h, D)[t \ {x}]
    BY IterAny
  <2>. QED BY <1>2, <2>1
<1>3. SUBSET D \subseteq P
  <2>. HIDE DEF P
  <2>. QED BY <1>1, <1>2, FiniteInduct
<1>4. DOMAIN h = D
  OBVIOUS
<1>. QED BY <1>3, <1>4, TotalIter

\* Changing one entry changes the sum by as much.
LEMMA TotalChange ==
  ASSUME NEW D, IsFiniteSet(D), NEW h \in [D -> Nat], NEW k \in [D -> Nat],
         NEW x \in D, \A y \in D \ {x} : h[y] = k[y]
  PROVE  Total(h) + k[x] = Total(k) + h[x]
<1>1. DOMAIN h = D /\ DOMAIN k = D /\ Summable(h, D) /\ Summable(k, D)
  BY DEF Summable
<1>. D \in SUBSET D
  OBVIOUS
<1>2. Iter(h, D)[D] = h[x] + Iter(h, D)[D \ {x}]
  BY <1>1, IterAny
<1>3. Iter(k, D)[D] = k[x] + Iter(k, D)[D \ {x}]
  BY <1>1, IterAny
<1>4. Iter(h, D)[D \ {x}] = Iter(k, D)[D \ {x}]
  <2>1. D \ {x} \subseteq D
    OBVIOUS
  <2>. QED BY <1>1, <2>1, IterAgree
<1>5. Iter(h, D)[D \ {x}] \in Nat
  BY <1>1, IterNat
<1>6. Total(h) = Iter(h, D)[D] /\ Total(k) = Iter(k, D)[D]
  BY <1>1, TotalIter
<1>. QED BY <1>2, <1>3, <1>4, <1>5, <1>6

\* Entries that are 0 may be left out.
LEMMA TotalRestrict ==
  ASSUME NEW D, IsFiniteSet(D), NEW h \in [D -> Nat],
         NEW E \in SUBSET D, NEW k \in [E -> Nat],
         \A x \in E : h[x] = k[x], \A x \in D \ E : h[x] = 0
  PROVE  Total(h) = Total(k)
<1>1. DOMAIN h = D /\ DOMAIN k = E /\ Summable(h, D) /\ Summable(k, E)
  <2>. IsFiniteSet(E)
    BY FS_Subset
  <2>. QED BY DEF Summable
<1>. DEFINE F == D \ E
            P == {t \in SUBSET F : Iter(h, D)[E \cup t] = Iter(h, D)[E]}
<1>2. {} \in P
  OBVIOUS
<1>3. ASSUME NEW t \in SUBSET F, NEW x \in t, t \ {x} \in P
      PROVE  t \in P
  <2>1. E \cup t \in SUBSET D /\ x \in E \cup t /\ h[x] = 0
        /\ (E \cup t) \ {x} = E \cup (t \ {x})
    OBVIOUS
  <2>2. Iter(h, D)[E \cup t] = h[x] + Iter(h, D)[(E \cup t) \ {x}]
    BY <1>1, <2>1, IterAny
  <2>3. Iter(h, D)[E] \in Nat
    BY <1>1, IterNat
  <2>4. Iter(h, D)[E \cup (t \ {x})] = Iter(h, D)[E]
    BY <1>3
  <2>5. Iter(h, D)[E \cup t] = Iter(h, D)[E]
    BY <2>1, <2>2, <2>3, <2>4
  <2>. QED BY <2>5
<1>4. SUBSET F \subseteq P
  <2>1. IsFiniteSet(F)
    BY FS_Subset
  <2>. HIDE DEF P, F
  <2>. QED BY <1>2, <1>3, <2>1, FiniteInduct
<1>5. Iter(h, D)[D] = Iter(h, D)[E]
  <2>1. E \cup (D \ E) = D
    OBVIOUS
  <2>2. D \ E \in P
    BY <1>4
  <2>. QED BY <2>1, <2>2
<1>6. Iter(h, D)[E] = Iter(k, E)[E]
  <2>1. E \subseteq D /\ E \subseteq E
    OBVIOUS
  <2>. QED BY <1>1, <2>1, IterAgree
<1>. QED BY <1>1, <1>5, <1>6, TotalIter

-----------------------------------------------------------------------------
(* The inductive invariant                                                 *)

Active(w) == pc[w] \notin {"pop", "exited"}
Merging == {"load", "store", "print"}

\* A file is with the queue, or was unreadable, or went to one worker.
PathsApart ==
    /\ queue \cap unreadable = {}
    /\ \A w \in Workers : Active(w) =>
          /\ path[w] \in Files \ (queue \cup unreadable)
          /\ count[w] <= Len(Content[path[w]])
    /\ \A v, w \in Workers : Active(v) /\ Active(w) /\ path[v] = path[w] => v = w

\* global_lock is held by the worker that merges and prints, and by no other.
LockHeld == \A w \in Workers : global_lock = w <=> pc[w] \in Merging

\* The value merge_histogram loaded is still the bin's value when it stores.
LoadedFresh ==
    \A w \in Workers : pc[w] = "store" => sum[w] = global_histogram[bin[w]]

\* A merge has emptied the bins it has passed, and leaves none behind.
Emptied ==
    \A w \in Workers, b \in Bins :
        /\ pc[w] \in {"load", "store"} /\ b < bin[w] => local_hist[w][b] = 0
        /\ pc[w] \in {"print", "pop", "exited"} => local_hist[w][b] = 0

\* The merge after the end of a file comes after all of its bytes.
FinalAtEnd ==
    \A w \in Workers : final[w] /\ pc[w] \in {"lock"} \cup Merging
                          => count[w] = Len(Content[path[w]])

ExitedDrained == \A w \in Workers : pc[w] = "exited" => queue = {}

\* The number printed is behind the histogram only while a merge is under way.
ShownInv ==
    /\ shown <= Total(global_histogram)
    /\ global_lock = NoWorker => shown = Total(global_histogram)

ControlInv ==
    /\ TypeOK /\ PathsApart /\ LockHeld /\ LoadedFresh /\ Emptied
    /\ FinalAtEnd /\ ExitedDrained

HistogramInv == ControlInv /\ BitsConserved /\ ShownInv

-----------------------------------------------------------------------------
(* Control: types, the lock, and which worker has which file               *)

\* A step of some worker, or nothing changes.
LEMMA StepCases ==
  ASSUME [Next]_vars
  PROVE  \/ \E w \in Workers : WorkerStep(w)
         \/ UNCHANGED vars
BY DEF Next

LEMMA HistogramNat ==
  ASSUME NEW h \in [Bins -> Nat]
  PROVE  Total(h) \in Nat
<1>1. IsFiniteSet(Bins)
  BY HistogramAssumption, FS_Interval DEF Bins
<1>. QED BY <1>1, TotalNat

LEMMA TypeInit == Init => TypeOK
BY HistogramAssumption DEF Init, TypeOK, Zero, Bins

LEMMA TypeStep ==
  ASSUME TypeOK, [Next]_vars
  PROVE  TypeOK'
<1>1. CASE UNCHANGED vars
  BY <1>1 DEF TypeOK, vars, locals
<1>2. ASSUME NEW w \in Workers, WorkerStep(w)
      PROVE  TypeOK'
  <2>1. ASSUME NEW f \in Files, Open(w, f)
        PROVE  TypeOK'
    <3>. Zero \in [Bins -> Nat]
      BY DEF Zero
    <3>. QED BY <2>1 DEF Open, TypeOK, Goto
  <2>2. ASSUME NEW f \in Files, OpenFails(w, f)
        PROVE  TypeOK'
    <3>. Zero \in [Bins -> Nat]
      BY DEF Zero
    <3>. QED BY <2>2 DEF OpenFails, TypeOK, Goto
  <2>3. CASE ReadByte(w)
    <3>. DEFINE byte == Content[path[w]][count[w] + 1]
    <3>1. update_histogram(local_hist[w], byte) \in [Bins -> Nat]
      BY DEF update_histogram, TypeOK
    <3>. HIDE DEF byte
    <3>2. local_hist' = [local_hist EXCEPT ![w] = update_histogram(local_hist[w], byte)]
      BY <2>3 DEF ReadByte, byte, TypeOK
    <3>. QED BY <2>3, <3>1, <3>2 DEF ReadByte, TypeOK, Goto
  <2>4. CASE EndOfFile(w)
    BY <2>4 DEF EndOfFile, TypeOK, Goto
  <2>5. CASE LockGlobal(w)
    <3>. 0 \in Bins /\ 0 \in 0..NBits
      BY HistogramAssumption DEF Bins
    <3>. QED BY <2>5 DEF LockGlobal, TypeOK, Goto
  <2>6. CASE MergeLoad(w)
    <3>1. bin[w] \in Bins /\ global_histogram[bin[w]] \in Nat
      BY <2>6 DEF MergeLoad, TypeOK
    <3>. QED BY <2>6, <3>1 DEF MergeLoad, TypeOK, Goto
  <2>7. CASE MergeStore(w)
    <3>1. bin[w] \in Bins
      BY <2>7 DEF MergeStore, TypeOK
    <3>2. /\ bin[w] + 1 \in 0..NBits
          /\ bin[w] # NBits - 1 => bin[w] + 1 \in Bins
      BY <3>1, HistogramAssumption DEF Bins
    <3>3. local_hist' \in [Workers -> [Bins -> Nat]]
      BY <2>7 DEF MergeStore, TypeOK
    <3>4. global_histogram' \in [Bins -> Nat]
      BY <2>7, <3>1 DEF MergeStore, TypeOK
    <3>. QED BY <2>7, <3>1, <3>2, <3>3, <3>4 DEF MergeStore, TypeOK, Goto
  <2>8. CASE PrintAndUnlock(w)
    <3>1. shown' \in Nat
      BY <2>8, HistogramNat DEF PrintAndUnlock, TypeOK
    <3>. QED BY <2>8, <3>1 DEF PrintAndUnlock, TypeOK, Goto, locals
  <2>9. CASE WorkerExit(w)
    BY <2>9 DEF WorkerExit, TypeOK, Goto, locals
  <2>. QED BY <1>2, <2>1, <2>2, <2>3, <2>4, <2>5, <2>6, <2>7, <2>8, <2>9 DEF WorkerStep
<1>. QED BY <1>1, <1>2, StepCases

\* global_lock is passed on by its holder only.
LEMMA LockStep ==
  ASSUME TypeOK, LockHeld, [Next]_vars
  PROVE  LockHeld'
<1>. NoWorker \notin Workers
  BY HistogramAssumption
<1>1. CASE UNCHANGED vars
  BY <1>1 DEF LockHeld, Merging, vars, locals
<1>2. ASSUME NEW w \in Workers, WorkerStep(w)
      PROVE  LockHeld'
  <2>1. ASSUME NEW f \in Files, Open(w, f)
        PROVE  LockHeld'
    BY <2>1 DEF Open, LockHeld, Merging, TypeOK, Goto
  <2>2. ASSUME NEW f \in Files, OpenFails(w, f)
        PROVE  LockHeld'
    BY <2>2 DEF OpenFails, LockHeld, Merging, TypeOK, Goto
  <2>3. CASE ReadByte(w)
    BY <2>3 DEF ReadByte, LockHeld, Merging, TypeOK, Goto
  <2>4. CASE EndOfFile(w)
    BY <2>4 DEF EndOfFile, LockHeld, Merging, TypeOK, Goto
  <2>5. CASE LockGlobal(w)
    BY <2>5 DEF LockGlobal, LockHeld, Merging, TypeOK, Goto
  <2>6. CASE MergeLoad(w)
    BY <2>6 DEF MergeLoad, LockHeld, Merging, TypeOK, Goto
  <2>7. CASE MergeStore(w)
    BY <2>7 DEF MergeStore, LockHeld, Merging, TypeOK, Goto
  <2>8. CASE PrintAndUnlock(w)
    BY <2>8 DEF PrintAndUnlock, LockHeld, Merging, TypeOK, Goto, locals
  <2>9. CASE WorkerExit(w)
    BY <2>9 DEF WorkerExit, LockHeld, Merging, TypeOK, Goto, locals
  <2>. QED BY <1>2, <2>1, <2>2, <2>3, <2>4, <2>5, <2>6, <2>7, <2>8, <2>9 DEF WorkerStep
<1>. QED BY <1>1, <1>2, StepCases

LEMMA ExitStep ==
  ASSUME TypeOK, ExitedDrained, [Next]_vars
  PROVE  ExitedDrained'
<1>1. CASE UNCHANGED vars
  BY <1>1 DEF ExitedDrained, vars, locals
<1>2. ASSUME NEW w \in Workers, WorkerStep(w)
      PROVE  ExitedDrained'
  <2>1. ASSUME NEW f \in Files, Open(w, f)
        PROVE  ExitedDrained'
    BY <2>1 DEF Open, ExitedDrained, TypeOK, Goto
  <2>2. ASSUME NEW f \in Files, OpenFails(w, f)
        PROVE  ExitedDrained'
    BY <2>2 DEF OpenFails, ExitedDrained, TypeOK, Goto
  <2>3. CASE ReadByte(w)
    BY <2>3 DEF ReadByte, ExitedDrained, TypeOK, Goto
  <2>4. CASE EndOfFile(w)
    BY <2>4 DEF EndOfFile, ExitedDrained, TypeOK, Goto
  <2>5. CASE LockGlobal(w)
    BY <2>5 DEF LockGlobal, ExitedDrained, TypeOK, Goto
  <2>6. CASE MergeLoad(w)
    BY <2>6 DEF MergeLoad, ExitedDrained, TypeOK, Goto
  <2>7. CASE MergeStore(w)
    BY <2>7 DEF MergeStore, ExitedDrained, TypeOK, Goto
  <2>8. CASE PrintAndUnlock(w)
    BY <2>8 DEF PrintAndUnlock, ExitedDrained, TypeOK, Goto, locals
  <2>9. CASE WorkerExit(w)
    BY <2>9 DEF WorkerExit, ExitedDrained, TypeOK, Goto, locals
  <2>. QED BY <1>2, <2>1, <2>2, <2>3, <2>4, <2>5, <2>6, <2>7, <2>8, <2>9 DEF WorkerStep
<1>. QED BY <1>1, <1>2, StepCases

\* A file leaves the queue to one worker, and stays with it until it is read.
LEMMA PathsStep ==
  ASSUME TypeOK, PathsApart, [Next]_vars
  PROVE  PathsApart'
<1>1. CASE UNCHANGED vars
  BY <1>1 DEF PathsApart, Active, vars, locals
<1>2. ASSUME NEW w \in Workers, WorkerStep(w)
      PROVE  PathsApart'
  <2>1. ASSUME NEW f \in Files, Open(w, f)
        PROVE  PathsApart'
    BY <2>1 DEF Open, PathsApart, Active, TypeOK, Goto
  <2>2. ASSUME NEW f \in Files, OpenFails(w, f)
        PROVE  PathsApart'
    BY <2>2 DEF OpenFails, PathsApart, Active, TypeOK, Goto
  <2>3. CASE ReadByte(w)
    BY <2>3 DEF ReadByte, PathsApart, Active, TypeOK, Goto
  <2>4. CASE EndOfFile(w)
    BY <2>4 DEF EndOfFile, PathsApart, Active, TypeOK, Goto
  <2>5. CASE LockGlobal(w)
    BY <2>5 DEF LockGlobal, PathsApart, Active, TypeOK, Goto
  <2>6. CASE MergeLoad(w)
    BY <2>6 DEF MergeLoad, PathsApart, Active, TypeOK, Goto
  <2>7. CASE MergeStore(w)
    BY <2>7 DEF MergeStore, PathsApart, Active, TypeOK, Goto
  <2>8. CASE PrintAndUnlock(w)
    BY <2>8 DEF PrintAndUnlock, PathsApart, Active, TypeOK, Goto, locals
  <2>9. CASE WorkerExit(w)
    BY <2>9 DEF WorkerExit, PathsApart, Active, TypeOK, Goto, locals
  <2>. QED BY <1>2, <2>1, <2>2, <2>3, <2>4, <2>5, <2>6, <2>7, <2>8, <2>9 DEF WorkerStep
<1>. QED BY <1>1, <1>2, StepCases

LEMMA FinalStep ==
  ASSUME TypeOK, PathsApart, FinalAtEnd, [Next]_vars
  PROVE  FinalAtEnd'
<1>1. CASE UNCHANGED vars
  BY <1>1 DEF FinalAtEnd, Merging, vars, locals
<1>2. ASSUME NEW w \in Workers, WorkerStep(w)
      PROVE  FinalAtEnd'
  <2>1. ASSUME NEW f \in Files, Open(w, f)
        PROVE  FinalAtEnd'
    BY <2>1 DEF Open, FinalAtEnd, Merging, TypeOK, Goto
  <2>2. ASSUME NEW f \in Files, OpenFails(w, f)
        PROVE  FinalAtEnd'
    BY <2>2 DEF OpenFails, FinalAtEnd, Merging, TypeOK, Goto
  <2>3. CASE ReadByte(w)
    BY <2>3 DEF ReadByte, FinalAtEnd, Merging, TypeOK, Goto
  <2>4. CASE EndOfFile(w)
    BY <2>4 DEF EndOfFile, FinalAtEnd, Merging, TypeOK, Goto
  <2>5. CASE LockGlobal(w)
    BY <2>5 DEF LockGlobal, FinalAtEnd, Merging, TypeOK, Goto
  <2>6. CASE MergeLoad(w)
    BY <2>6 DEF MergeLoad, FinalAtEnd, Merging, TypeOK, Goto
  <2>7. CASE MergeStore(w)
    BY <2>7 DEF MergeStore, FinalAtEnd, Merging, TypeOK, Goto
  <2>8. CASE PrintAndUnlock(w)
    BY <2>8 DEF PrintAndUnlock, FinalAtEnd, Merging, TypeOK, Goto, locals
  <2>9. CASE WorkerExit(w)
    BY <2>9 DEF WorkerExit, FinalAtEnd, Merging, TypeOK, Goto, locals
  <2>. QED BY <1>2, <2>1, <2>2, <2>3, <2>4, <2>5, <2>6, <2>7, <2>8, <2>9 DEF WorkerStep
<1>. QED BY <1>1, <1>2, StepCases

\* Between the load and the store nobody else stores: the lock is held.
LEMMA FreshStep ==
  ASSUME TypeOK, LockHeld, LoadedFresh, [Next]_vars
  PROVE  LoadedFresh'
<1>1. CASE UNCHANGED vars
  BY <1>1 DEF LoadedFresh, LockHeld, Merging, vars, locals
<1>2. ASSUME NEW w \in Workers, WorkerStep(w)
      PROVE  LoadedFresh'
  <2>1. ASSUME NEW f \in Files, Open(w, f)
        PROVE  LoadedFresh'
    BY <2>1 DEF Open, LoadedFresh, LockHeld, Merging, TypeOK, Goto
  <2>2. ASSUME NEW f \in Files, OpenFails(w, f)
        PROVE  LoadedFresh'
    BY <2>2 DEF OpenFails, LoadedFresh, LockHeld, Merging, TypeOK, Goto
  <2>3. CASE ReadByte(w)
    BY <2>3 DEF ReadByte, LoadedFresh, LockHeld, Merging, TypeOK, Goto
  <2>4. CASE EndOfFile(w)
    BY <2>4 DEF EndOfFile, LoadedFresh, LockHeld, Merging, TypeOK, Goto
  <2>5. CASE LockGlobal(w)
    BY <2>5 DEF LockGlobal, LoadedFresh, LockHeld, Merging, TypeOK, Goto
  <2>6. CASE MergeLoad(w)
    BY <2>6 DEF MergeLoad, LoadedFresh, LockHeld, Merging, TypeOK, Goto
  <2>7. CASE MergeStore(w)
    BY <2>7 DEF MergeStore, LoadedFresh, LockHeld, Merging, TypeOK, Goto
  <2>8. CASE PrintAndUnlock(w)
    BY <2>8 DEF PrintAndUnlock, LoadedFresh, LockHeld, Merging, TypeOK, Goto, locals
  <2>9. CASE WorkerExit(w)
    BY <2>9 DEF WorkerExit, LoadedFresh, LockHeld, Merging, TypeOK, Goto, locals
  <2>. QED BY <1>2, <2>1, <2>2, <2>3, <2>4, <2>5, <2>6, <2>7, <2>8, <2>9 DEF WorkerStep
<1>. QED BY <1>1, <1>2, StepCases

\* Each round of merge_histogram empties one bin of from.
LEMMA EmptiedStep ==
  ASSUME TypeOK, Emptied, [Next]_vars
  PROVE  Emptied'
<1>1. CASE UNCHANGED vars
  BY <1>1 DEF Emptied, Bins, vars, locals
<1>2. ASSUME NEW w \in Workers, WorkerStep(w)
      PROVE  Emptied'
  <2>1. ASSUME NEW f \in Files, Open(w, f)
        PROVE  Emptied'
    BY <2>1 DEF Open, Emptied, Bins, TypeOK, Goto
  <2>2. ASSUME NEW f \in Files, OpenFails(w, f)
        PROVE  Emptied'
    <3>. \A b \in Bins : Zero[b] = 0
      BY DEF Zero
    <3>. QED BY <2>2 DEF OpenFails, Emptied, TypeOK, Goto
  <2>3. CASE ReadByte(w)
    BY <2>3 DEF ReadByte, Emptied, Bins, TypeOK, Goto
  <2>4. CASE EndOfFile(w)
    BY <2>4 DEF EndOfFile, Emptied, Bins, TypeOK, Goto
  <2>5. CASE LockGlobal(w)
    BY <2>5 DEF LockGlobal, Emptied, Bins, TypeOK, Goto
  <2>6. CASE MergeLoad(w)
    BY <2>6 DEF MergeLoad, Emptied, Bins, TypeOK, Goto
  <2>7. CASE MergeStore(w)
    <3>1. bin[w] \in Bins /\ bin'[w] = bin[w] + 1
      BY <2>7 DEF MergeStore, TypeOK
    <3>2. \A v \in Workers \ {w} :
             local_hist'[v] = local_hist[v] /\ pc'[v] = pc[v] /\ bin'[v] = bin[v]
      BY <2>7 DEF MergeStore, TypeOK, Goto
    <3>3. \A b \in Bins :
             local_hist'[w][b] = IF b = bin[w] THEN 0 ELSE local_hist[w][b]
      BY <2>7 DEF MergeStore, TypeOK
    <3>4. pc'[w] = IF bin[w] = NBits - 1 THEN "print" ELSE "load"
      BY <2>7 DEF MergeStore, TypeOK, Goto
    <3>5. \A b \in Bins : b < bin[w] => local_hist[w][b] = 0
      BY <2>7 DEF MergeStore, Emptied
    <3>6. \A b \in Bins : b < bin[w] + 1 => local_hist'[w][b] = 0
      BY <3>1, <3>3, <3>5, HistogramAssumption DEF Bins
    <3>7. \A b \in Bins : bin[w] = NBits - 1 => b < bin[w] + 1
      BY <3>1, HistogramAssumption DEF Bins
    <3>8. ASSUME NEW v \in Workers, NEW b \in Bins
          PROVE  /\ pc'[v] \in {"load", "store"} /\ b < bin'[v] => local_hist'[v][b] = 0
                 /\ pc'[v] \in {"print", "pop", "exited"} => local_hist'[v][b] = 0
      <4>1. CASE v = w
        BY <4>1, <3>1, <3>4, <3>6, <3>7
      <4>2. CASE v # w
        BY <4>2, <3>2 DEF Emptied
      <4>. QED BY <4>1, <4>2
    <3>. QED BY <3>8 DEF Emptied
  <2>8. CASE PrintAndUnlock(w)
    BY <2>8 DEF PrintAndUnlock, Emptied, Bins, TypeOK, Goto, locals
  <2>9. CASE WorkerExit(w)
    BY <2>9 DEF WorkerExit, Emptied, Bins, TypeOK, Goto, locals
  <2>. QED BY <1>2, <2>1, <2>2, <2>3, <2>4, <2>5, <2>6, <2>7, <2>8, <2>9 DEF WorkerStep
<1>. QED BY <1>1, <1>2, StepCases

LEMMA ControlInit == Init => ControlInv
<1>. SUFFICES ASSUME Init PROVE ControlInv
  OBVIOUS
<1>1. TypeOK
  BY TypeInit
<1>2. PathsApart
  BY DEF Init, PathsApart, Active
<1>3. LockHeld
  BY HistogramAssumption DEF Init, LockHeld, Merging
<1>4. Emptied
  BY DEF Init, Emptied, Zero
<1>5. LoadedFresh /\ FinalAtEnd /\ ExitedDrained
  BY DEF Init, LoadedFresh, FinalAtEnd, ExitedDrained, Merging
<1>. QED BY <1>1, <1>2, <1>3, <1>4, <1>5 DEF ControlInv

LEMMA ControlStep ==
  ASSUME ControlInv, [Next]_vars
  PROVE  ControlInv'
BY TypeStep, LockStep, ExitStep, PathsStep, FinalStep, FreshStep, EmptiedStep
   DEF ControlInv

-----------------------------------------------------------------------------
(* Bytes read of each file, and the bits in them                           *)

LEMMA OnesNat ==
  ASSUME NEW f, NEW n \in Nat, NEW b
  PROVE  Ones(f, n, b) \in Nat
<1>. DEFINE S == {i \in 1..n : b \in Content[f][i]}
<1>1. IsFiniteSet(S)
  <2>1. IsFiniteSet(1..n) /\ S \in SUBSET (1..n)
    BY FS_Interval
  <2>. QED BY <2>1, FS_Subset
<1>. QED BY <1>1, FS_CardinalityType DEF Ones

LEMMA OnesZero ==
  ASSUME NEW f, NEW b
  PROVE  Ones(f, 0, b) = 0
<1>1. {i \in 1..0 : b \in Content[f][i]} = {}
  OBVIOUS
<1>. QED BY <1>1, FS_EmptySet DEF Ones

\* One more byte adds one to the count of each bit set in it.
LEMMA OnesStep ==
  ASSUME NEW f, NEW n \in Nat, NEW b
  PROVE  Ones(f, n + 1, b) =
           Ones(f, n, b) + (IF b \in Content[f][n + 1] THEN 1 ELSE 0)
<1>. DEFINE S == {i \in 1..n : b \in Content[f][i]}
            T == {i \in 1..(n + 1) : b \in Content[f][i]}
<1>0. Ones(f, n + 1, b) = Cardinality(T) /\ Ones(f, n, b) = Cardinality(S)
  BY DEF Ones
<1>1. IsFiniteSet(S)
  <2>1. IsFiniteSet(1..n) /\ S \in SUBSET (1..n)
    BY FS_Interval
  <2>. QED BY <2>1, FS_Subset
<1>2. Cardinality(S) \in Nat
  BY <1>1, FS_CardinalityType
<1>3. CASE b \in Content[f][n + 1]
  <2>1. T = S \cup {n + 1} /\ n + 1 \notin S
    BY <1>3
  <2>2. Cardinality(S \cup {n + 1}) = Cardinality(S) + 1
    <3>. HIDE DEF S
    <3>. QED BY <1>1, <2>1, FS_AddElement
  <2>. HIDE DEF S, T
  <2>. QED BY <1>0, <1>3, <2>1, <2>2
<1>4. CASE b \notin Content[f][n + 1]
  <2>1. T = S
    BY <1>4
  <2>. HIDE DEF S, T
  <2>. QED BY <1>0, <1>2, <1>4, <2>1
<1>. QED BY <1>3, <1>4

\* What BytesRead gives in each of its cases, in a state of the program.
ReadFacts ==
    /\ \A f \in queue \cup unreadable : BytesRead(f) = 0
    /\ \A w \in Workers : Active(w) => BytesRead(path[w]) = count[w]
    /\ \A f \in Files \ (queue \cup unreadable) :
          (\A w \in Workers : Active(w) => path[w] # f) => BytesRead(f) = Len(Content[f])
    /\ \A f \in Files : BytesRead(f) \in Nat

LEMMA ReadCases == ControlInv => ReadFacts
<1>. SUFFICES ASSUME ControlInv PROVE ReadFacts
  OBVIOUS
<1>1. TypeOK /\ PathsApart
  BY DEF ControlInv
<1>2. \A f \in queue \cup unreadable : BytesRead(f) = 0
  BY DEF BytesRead
<1>3. ASSUME NEW w \in Workers, Active(w)
      PROVE  BytesRead(path[w]) = count[w]
  <2>. DEFINE Mine(v) == path[v] = path[w] /\ pc[v] \notin {"pop", "exited"}
              c == CHOOSE v \in Workers : Mine(v)
  <2>1. path[w] \notin queue \cup unreadable
    BY <1>1, <1>3 DEF PathsApart
  <2>2. c \in Workers /\ Mine(c)
    <3>1. \E v \in Workers : Mine(v)
      BY <1>3 DEF Active
    <3>. QED BY <3>1
  <2>3. c = w
    <3>. HIDE DEF c
    <3>. QED BY <1>1, <1>3, <2>2 DEF PathsApart, Active
  <2>4. BytesRead(path[w]) = count[c]
    BY <2>1, <2>2 DEF BytesRead
  <2>. QED BY <2>3, <2>4
<1>4. ASSUME NEW f \in Files \ (queue \cup unreadable),
             \A w \in Workers : Active(w) => path[w] # f
      PROVE  BytesRead(f) = Len(Content[f])
  BY <1>4 DEF BytesRead, Active
<1>5. ASSUME NEW f \in Files
      PROVE  BytesRead(f) \in Nat
  <2>1. CASE f \in queue \cup unreadable
    BY <1>2, <2>1
  <2>2. ASSUME NEW w \in Workers, Active(w), path[w] = f
        PROVE  BytesRead(f) \in Nat
    BY <1>1, <1>3, <2>2 DEF TypeOK
  <2>3. CASE f \notin queue \cup unreadable /\ \A w \in Workers : Active(w) => path[w] # f
    <3>1. Len(Content[f]) \in Nat
      BY HistogramAssumption
    <3>. QED BY <1>4, <2>3, <3>1
  <2>. QED BY <2>1, <2>2, <2>3
<1>. QED BY <1>2, <1>3, <1>4, <1>5 DEF ReadFacts

\* Only reading a byte changes how much of a file has been read.
LEMMA ReadsKept ==
  ASSUME ControlInv, ControlInv', NEW w \in Workers,
         \/ \E f \in Files : Open(w, f) \/ OpenFails(w, f)
         \/ EndOfFile(w) \/ LockGlobal(w) \/ MergeLoad(w) \/ MergeStore(w)
         \/ PrintAndUnlock(w) \/ WorkerExit(w)
  PROVE  \A g \in Files : BytesRead(g)' = BytesRead(g)
<1>1. ReadFacts /\ ReadFacts'
  BY ReadCases, PTL
<1>2. TypeOK /\ PathsApart /\ FinalAtEnd /\ PathsApart'
  BY DEF ControlInv
<1>. SUFFICES ASSUME NEW g \in Files
              PROVE  BytesRead(g)' = BytesRead(g)
  OBVIOUS
<1>3. \A v \in Workers \ {w} : path'[v] = path[v] /\ pc'[v] = pc[v] /\ count'[v] = count[v]
  BY <1>2 DEF Open, OpenFails, EndOfFile, LockGlobal, MergeLoad, MergeStore,
        PrintAndUnlock, WorkerExit, TypeOK, Goto, locals
<1>4. ASSUME NEW v \in Workers, Active(v), Active(v)', path[v] = g, path'[v] = g,
             count'[v] = count[v]
      PROVE  BytesRead(g)' = BytesRead(g)
  <2>1. BytesRead(path[v]) = count[v] /\ (BytesRead(path[v]) = count[v])'
    BY <1>1, <1>4 DEF ReadFacts
  <2>. QED BY <1>4, <2>1 DEF BytesRead
<1>5. ASSUME g \notin queue \cup unreadable, g \notin queue' \cup unreadable',
             \A v \in Workers : Active(v) => path[v] # g,
             \A v \in Workers : Active(v)' => path'[v] # g
      PROVE  BytesRead(g)' = BytesRead(g)
  BY <1>1, <1>5 DEF ReadFacts
<1>6. ASSUME g \in queue \cup unreadable, g \in queue' \cup unreadable'
      PROVE  BytesRead(g)' = BytesRead(g)
  BY <1>6 DEF BytesRead
<1>7. ASSUME NEW f \in Files, Open(w, f)
      PROVE  BytesRead(g)' = BytesRead(g)
  <2>1. /\ f \in queue /\ queue' = queue \ {f} /\ unreadable' = unreadable
        /\ path'[w] = f /\ count'[w] = 0 /\ Active(w)' /\ ~Active(w)
    BY <1>2, <1>7 DEF Open, TypeOK, Goto, Active
  <2>2. CASE g = f
    <3>1. BytesRead(g) = 0
      BY <1>1, <2>1, <2>2 DEF ReadFacts
    <3>2. (BytesRead(path[w]) = count[w])'
      BY <1>1, <2>1 DEF ReadFacts
    <3>. QED BY <2>1, <2>2, <3>1, <3>2 DEF BytesRead
  <2>3. CASE g # f
    BY <1>3, <1>4, <1>5, <1>6, <2>1, <2>3 DEF Active
  <2>. QED BY <2>2, <2>3
<1>8. ASSUME NEW f \in Files, OpenFails(w, f)
      PROVE  BytesRead(g)' = BytesRead(g)
  <2>1. /\ f \in queue /\ queue' = queue \ {f} /\ unreadable' = unreadable \cup {f}
        /\ ~Active(w)' /\ ~Active(w)
    BY <1>2, <1>8 DEF OpenFails, TypeOK, Active
  <2>. QED BY <1>3, <1>4, <1>5, <1>6, <2>1 DEF Active
<1>9. ASSUME EndOfFile(w) \/ LockGlobal(w) \/ MergeLoad(w) \/ MergeStore(w)
      PROVE  BytesRead(g)' = BytesRead(g)
  <2>1. /\ queue' = queue /\ unreadable' = unreadable
        /\ path' = path /\ count' = count /\ Active(w)' /\ Active(w)
    BY <1>2, <1>9 DEF EndOfFile, LockGlobal, MergeLoad, MergeStore, TypeOK, Goto, Active
  <2>. QED BY <1>3, <1>4, <1>5, <1>6, <2>1 DEF Active
<1>10. ASSUME PrintAndUnlock(w)
       PROVE  BytesRead(g)' = BytesRead(g)
  <2>1. /\ queue' = queue /\ unreadable' = unreadable /\ path' = path /\ count' = count
        /\ pc[w] = "print" /\ Active(w)
        /\ pc'[w] = IF final[w] THEN "pop" ELSE "read"
    BY <1>2, <1>10 DEF PrintAndUnlock, TypeOK, Goto, Active, locals
  <2>2. CASE path[w] = g /\ final[w]
    <3>1. BytesRead(path[w]) = count[w] /\ count[w] = Len(Content[path[w]])
      BY <1>1, <1>2, <2>1, <2>2 DEF ReadFacts, FinalAtEnd, Merging
    <3>2. g \in Files \ (queue \cup unreadable)
      BY <1>2, <2>1, <2>2 DEF PathsApart
    <3>3. \A v \in Workers : Active(v)' => path'[v] # g
      <4>1. ~Active(w)'
        BY <2>1, <2>2 DEF Active
      <4>2. \A v \in Workers \ {w} : Active(v) => path[v] # g
        BY <1>2, <2>1, <2>2 DEF PathsApart
      <4>. QED BY <1>3, <4>1, <4>2 DEF Active
    <3>4. BytesRead(g)' = Len(Content[g])
      BY <1>1, <2>1, <3>2, <3>3 DEF ReadFacts
    <3>. QED BY <2>2, <3>1, <3>4
  <2>3. CASE path[w] = g /\ ~final[w]
    <3>1. Active(w)'
      BY <2>1, <2>3 DEF Active
    <3>. QED BY <1>4, <2>1, <2>3, <3>1
  <2>4. CASE path[w] # g
    BY <1>3, <1>4, <1>5, <1>6, <2>1, <2>4 DEF Active
  <2>. QED BY <2>2, <2>3, <2>4
<1>11. ASSUME WorkerExit(w)
       PROVE  BytesRead(g)' = BytesRead(g)
  <2>1. /\ queue' = queue /\ unreadable' = unreadable
        /\ path' = path /\ count' = count /\ ~Active(w)' /\ ~Active(w)
    BY <1>2, <1>11 DEF WorkerExit, TypeOK, Goto, Active, locals
  <2>. QED BY <1>3, <1>4, <1>5, <1>6, <2>1 DEF Active
<1>. QED BY <1>7, <1>8, <1>9, <1>10, <1>11

-----------------------------------------------------------------------------
(* No bit is lost or counted twice                                         *)

LocalBits(b) == [w \in Workers |-> local_hist[w][b]]
ReadBits(b) == [f \in Files |-> Ones(f, BytesRead(f), b)]

LEMMA BitsAre ==
  BitsConserved <=> \A b \in Bins : global_histogram[b] + Total(LocalBits(b)) = Total(ReadBits(b))
BY DEF BitsConserved, LocalBits, ReadBits

BitsTyped ==
    \A b \in Bins : LocalBits(b) \in [Workers -> Nat] /\ ReadBits(b) \in [Files -> Nat]

LEMMA BitsTypes == ControlInv => BitsTyped
<1>. SUFFICES ASSUME ControlInv, NEW b \in Bins
              PROVE  LocalBits(b) \in [Workers -> Nat] /\ ReadBits(b) \in [Files -> Nat]
  BY DEF BitsTyped
<1>1. LocalBits(b) \in [Workers -> Nat]
  BY DEF ControlInv, TypeOK, LocalBits
<1>2. \A f \in Files : BytesRead(f) \in Nat
  BY ReadCases DEF ReadFacts
<1>3. ReadBits(b) \in [Files -> Nat]
  BY <1>2, OnesNat DEF ReadBits
<1>. QED BY <1>1, <1>3

LEMMA BitsInit == Init => BitsConserved
<1>. SUFFICES ASSUME Init, NEW b \in Bins
              PROVE  global_histogram[b] + Total(LocalBits(b)) = Total(ReadBits(b))
  BY BitsAre
<1>1. IsFiniteSet(Workers) /\ IsFiniteSet(Files)
  BY HistogramAssumption
<1>2. LocalBits(b) \in [Workers -> Nat] /\ ReadBits(b) \in [Files -> Nat]
  BY ControlInit, BitsTypes DEF BitsTyped
<1>3. \A w \in Workers : LocalBits(b)[w] = 0
  BY DEF Init, LocalBits, Zero
<1>4. \A f \in Files : ReadBits(b)[f] = 0
  BY OnesZero DEF Init, ReadBits, BytesRead
<1>5. Total(LocalBits(b)) = 0
  BY <1>1, <1>2, <1>3, TotalZero
<1>6. Total(ReadBits(b)) = 0
  BY <1>1, <1>2, <1>4, TotalZero
<1>7. global_histogram[b] = 0
  BY DEF Init, Zero
<1>. QED BY <1>5, <1>6, <1>7

\* Steps that neither read a byte nor store a bin leave every number alone.
LEMMA BitsKept ==
  ASSUME ControlInv, ControlInv', BitsConserved, NEW w \in Workers,
         \/ \E f \in Files : Open(w, f) \/ OpenFails(w, f)
         \/ EndOfFile(w) \/ LockGlobal(w) \/ MergeLoad(w)
         \/ PrintAndUnlock(w) \/ WorkerExit(w)
  PROVE  BitsConserved'
<1>1. TypeOK /\ Emptied
  BY DEF ControlInv
<1>2. \A v \in Workers, b \in Bins : local_hist'[v][b] = local_hist[v][b]
  <2>. \A b \in Bins : Zero[b] = 0
    BY DEF Zero
  <2>1. ASSUME NEW f \in Files, Open(w, f) \/ OpenFails(w, f)
        PROVE  \A v \in Workers, b \in Bins : local_hist'[v][b] = local_hist[v][b]
    <3>1. local_hist' = [local_hist EXCEPT ![w] = Zero] /\ pc[w] = "pop"
      BY <2>1 DEF Open, OpenFails
    <3>2. \A b \in Bins : local_hist[w][b] = 0
      BY <1>1, <3>1 DEF Emptied
    <3>. QED BY <1>1, <3>1, <3>2 DEF TypeOK
  <2>2. CASE EndOfFile(w) \/ LockGlobal(w) \/ MergeLoad(w) \/ PrintAndUnlock(w) \/ WorkerExit(w)
    BY <2>2 DEF EndOfFile, LockGlobal, MergeLoad, PrintAndUnlock, WorkerExit, locals
  <2>. QED BY <2>1, <2>2
<1>3. global_histogram' = global_histogram
  BY DEF Open, OpenFails, EndOfFile, LockGlobal, MergeLoad, PrintAndUnlock, WorkerExit
<1>4. \A g \in Files : BytesRead(g)' = BytesRead(g)
  BY ReadsKept
<1>5. ASSUME NEW b \in Bins
      PROVE  (global_histogram[b] + Total(LocalBits(b)) = Total(ReadBits(b)))'
  <2>1. LocalBits(b)' = LocalBits(b)
    BY <1>2 DEF LocalBits
  <2>2. ReadBits(b)' = ReadBits(b)
    BY <1>4 DEF ReadBits
  <2>3. global_histogram[b] + Total(LocalBits(b)) = Total(ReadBits(b))
    BY BitsAre
  <2>4. Total(LocalBits(b))' = Total(LocalBits(b)) /\ Total(ReadBits(b))' = Total(ReadBits(b))
    BY <2>1, <2>2, Zenon
  <2>. QED BY <1>3, <2>3, <2>4
<1>6. (\A b \in Bins : global_histogram[b] + Total(LocalBits(b)) = Total(ReadBits(b)))'
  BY <1>5
<1>. QED BY <1>6, BitsAre, PTL

\* A byte read adds its bits to the worker's histogram and to the bits read.
LEMMA BitsOfByte ==
  ASSUME ControlInv, ControlInv', BitsConserved, NEW w \in Workers, ReadByte(w)
  PROVE  BitsConserved'
<1>1. TypeOK /\ PathsApart /\ ReadFacts
  BY ReadCases DEF ControlInv
<1>2. Active(w) /\ path[w] \in Files /\ count[w] \in Nat
  BY <1>1 DEF ReadByte, Active, PathsApart, TypeOK
<1>. PICK f \in Files, n \in Nat : f = path[w] /\ n = count[w]
  BY <1>2
<1>3. /\ queue' = queue /\ unreadable' = unreadable /\ path' = path
      /\ global_histogram' = global_histogram /\ Active(w)' /\ count'[w] = n + 1
      /\ \A v \in Workers \ {w} :
            count'[v] = count[v] /\ pc'[v] = pc[v] /\ local_hist'[v] = local_hist[v]
  BY <1>1 DEF ReadByte, TypeOK, Goto, Active
<1>4. \A b \in Bins : local_hist'[w][b] =
         local_hist[w][b] + (IF b \in Content[f][n + 1] THEN 1 ELSE 0)
  BY <1>1 DEF ReadByte, TypeOK, update_histogram
<1>5. ReadFacts'
  BY ReadCases, PTL
<1>6. BytesRead(f) = n /\ BytesRead(f)' = n + 1
  <2>1. BytesRead(path[w]) = count[w] /\ (BytesRead(path[w]) = count[w])'
    BY <1>1, <1>2, <1>3, <1>5 DEF ReadFacts
  <2>. QED BY <1>3, <2>1 DEF BytesRead
<1>7. ASSUME NEW g \in Files \ {f}
      PROVE  BytesRead(g)' = BytesRead(g)
  <2>1. CASE g \in queue \cup unreadable
    BY <1>3, <2>1 DEF BytesRead
  <2>2. ASSUME NEW v \in Workers, Active(v), path[v] = g
        PROVE  BytesRead(g)' = BytesRead(g)
    <3>1. v # w /\ Active(v)'
      BY <1>3, <2>2 DEF Active
    <3>2. BytesRead(path[v]) = count[v] /\ (BytesRead(path[v]) = count[v])'
      BY <1>1, <1>5, <2>2, <3>1 DEF ReadFacts
    <3>. QED BY <1>3, <2>2, <3>1, <3>2 DEF BytesRead
  <2>3. CASE /\ g \notin queue \cup unreadable
             /\ \A v \in Workers : Active(v) => path[v] # g
    <3>1. \A v \in Workers : Active(v)' => path'[v] # g
      BY <1>3, <2>3 DEF Active
    <3>. QED BY <1>1, <1>3, <1>5, <2>3, <3>1 DEF ReadFacts
  <2>. QED BY <2>1, <2>2, <2>3
<1>8. ASSUME NEW b \in Bins
      PROVE  (global_histogram[b] + Total(LocalBits(b)) = Total(ReadBits(b)))'
  <2>. DEFINE d == IF b \in Content[f][n + 1] THEN 1 ELSE 0
  <2>1. /\ LocalBits(b) \in [Workers -> Nat] /\ LocalBits(b)' \in [Workers -> Nat]
        /\ ReadBits(b) \in [Files -> Nat] /\ ReadBits(b)' \in [Files -> Nat]
    <3>1. BitsTyped /\ BitsTyped'
      BY BitsTypes, PTL
    <3>. QED BY <3>1 DEF BitsTyped
  <2>2. Total(LocalBits(b)) + LocalBits(b)'[w] = Total(LocalBits(b)') + LocalBits(b)[w]
    <3>1. \A v \in Workers \ {w} : LocalBits(b)[v] = LocalBits(b)'[v]
      BY <1>3 DEF LocalBits
    <3>2. IsFiniteSet(Workers)
      BY HistogramAssumption
    <3>. QED BY <2>1, <3>1, <3>2, TotalChange
  <2>3. Total(ReadBits(b)) + ReadBits(b)'[f] = Total(ReadBits(b)') + ReadBits(b)[f]
    <3>1. \A g \in Files \ {f} : ReadBits(b)[g] = ReadBits(b)'[g]
      BY <1>7 DEF ReadBits
    <3>2. IsFiniteSet(Files)
      BY HistogramAssumption
    <3>. QED BY <1>2, <2>1, <3>1, <3>2, TotalChange
  <2>4. LocalBits(b)'[w] = LocalBits(b)[w] + d
    BY <1>4 DEF LocalBits
  <2>5. ReadBits(b)'[f] = ReadBits(b)[f] + d
    <3>1. ReadBits(b)'[f] = Ones(f, n + 1, b) /\ ReadBits(b)[f] = Ones(f, n, b)
      BY <1>2, <1>6 DEF ReadBits
    <3>2. Ones(f, n + 1, b) = Ones(f, n, b) + d
      BY OnesStep
    <3>. QED BY <3>1, <3>2
  <2>6. d \in Nat /\ LocalBits(b)[w] \in Nat /\ ReadBits(b)[f] \in Nat /\ global_histogram[b] \in Nat
    BY <1>1, <1>2, <2>1 DEF TypeOK
  <2>7. /\ Total(LocalBits(b)) \in Nat /\ Total(LocalBits(b)') \in Nat
        /\ Total(ReadBits(b)) \in Nat /\ Total(ReadBits(b)') \in Nat
    BY <2>1, TotalNat, HistogramAssumption
  <2>8. global_histogram[b] + Total(LocalBits(b)) = Total(ReadBits(b))
    BY BitsAre
  <2>. HIDE DEF d
  <2>9. global_histogram[b] + Total(LocalBits(b)') = Total(ReadBits(b)')
    BY <2>2, <2>3, <2>4, <2>5, <2>6, <2>7, <2>8
  <2>. QED BY <1>3, <2>9
<1>9. (\A b \in Bins : global_histogram[b] + Total(LocalBits(b)) = Total(ReadBits(b)))'
  BY <1>8
<1>. QED BY <1>9, BitsAre, PTL

\* A store moves a bin's count from the worker's histogram to the global one.
LEMMA BitsOfStore ==
  ASSUME ControlInv, ControlInv', BitsConserved, NEW w \in Workers, MergeStore(w)
  PROVE  BitsConserved'
<1>1. TypeOK /\ LoadedFresh
  BY DEF ControlInv
<1>. DEFINE c == bin[w]
<1>2. c \in Bins /\ sum[w] = global_histogram[c] /\ global_histogram[c] \in Nat
  BY <1>1 DEF MergeStore, LoadedFresh, TypeOK
<1>3. \A g \in Files : BytesRead(g)' = BytesRead(g)
  BY ReadsKept
<1>4. /\ global_histogram' = [global_histogram EXCEPT ![c] = global_histogram[c] + local_hist[w][c]]
      /\ local_hist' = [local_hist EXCEPT ![w] = [local_hist[w] EXCEPT ![c] = 0]]
  BY <1>1, <1>2 DEF MergeStore, TypeOK
<1>. HIDE DEF c
<1>5. ASSUME NEW b \in Bins
      PROVE  (global_histogram[b] + Total(LocalBits(b)) = Total(ReadBits(b)))'
  <2>1. /\ LocalBits(b) \in [Workers -> Nat] /\ LocalBits(b)' \in [Workers -> Nat]
    <3>1. BitsTyped /\ BitsTyped'
      BY BitsTypes, PTL
    <3>. QED BY <3>1 DEF BitsTyped
  <2>2. ReadBits(b)' = ReadBits(b)
    BY <1>3 DEF ReadBits
  <2>3. global_histogram[b] + Total(LocalBits(b)) = Total(ReadBits(b))
    BY BitsAre
  <2>4. CASE b = c
    <3>1. Total(LocalBits(b)) + LocalBits(b)'[w] = Total(LocalBits(b)') + LocalBits(b)[w]
      <4>1. \A v \in Workers \ {w} : LocalBits(b)[v] = LocalBits(b)'[v]
        BY <1>1, <1>4 DEF LocalBits, TypeOK
      <4>2. IsFiniteSet(Workers)
        BY HistogramAssumption
      <4>. QED BY <2>1, <4>1, <4>2, TotalChange
    <3>2. LocalBits(b)'[w] = 0 /\ LocalBits(b)[w] = local_hist[w][b] /\ local_hist[w][b] \in Nat
      BY <1>1, <1>4, <2>4 DEF LocalBits, TypeOK
    <3>3. global_histogram'[b] = global_histogram[b] + local_hist[w][b]
      BY <1>1, <1>4, <2>4 DEF TypeOK
    <3>4. Total(LocalBits(b)) \in Nat /\ Total(LocalBits(b)') \in Nat /\ global_histogram[b] \in Nat
      BY <1>1, <2>1, TotalNat, HistogramAssumption DEF TypeOK
    <3>5. global_histogram'[b] + Total(LocalBits(b)') = Total(ReadBits(b))
      BY <2>3, <3>1, <3>2, <3>3, <3>4
    <3>. QED BY <2>2, <3>5
  <2>5. CASE b # c
    <3>1. LocalBits(b)' = LocalBits(b)
      BY <1>1, <1>4, <2>5 DEF LocalBits, TypeOK
    <3>2. global_histogram'[b] = global_histogram[b]
      BY <1>1, <1>4, <2>5 DEF TypeOK
    <3>3. global_histogram'[b] + Total(LocalBits(b)') = Total(ReadBits(b)')
      BY <2>2, <2>3, <3>1, <3>2
    <3>. QED BY <3>3
  <2>. QED BY <2>4, <2>5
<1>6. (\A b \in Bins : global_histogram[b] + Total(LocalBits(b)) = Total(ReadBits(b)))'
  BY <1>5
<1>. QED BY <1>6, BitsAre, PTL

LEMMA BitsStep ==
  ASSUME ControlInv, BitsConserved, [Next]_vars
  PROVE  BitsConserved'
<1>0. ControlInv'
  BY ControlStep
<1>1. CASE UNCHANGED vars
  BY <1>1 DEF BitsConserved, BytesRead, vars, locals
<1>2. ASSUME NEW w \in Workers, WorkerStep(w)
      PROVE  BitsConserved'
  BY <1>0, <1>2, BitsKept, BitsOfByte, BitsOfStore DEF WorkerStep
<1>. QED BY <1>1, <1>2, StepCases

-----------------------------------------------------------------------------
(* What is printed                                                         *)

\* The stores of a merge only add to the global histogram.
LEMMA StoreAdds ==
  ASSUME ControlInv, NEW w \in Workers, MergeStore(w)
  PROVE  Total(global_histogram') >= Total(global_histogram)
<1>1. TypeOK /\ LoadedFresh /\ TypeOK'
  <2>1. [Next]_vars
    BY DEF Next, WorkerStep
  <2>. QED BY <2>1, TypeStep DEF ControlInv
<1>. PICK c \in Bins : c = bin[w]
  BY <1>1 DEF MergeStore, TypeOK
<1>2. sum[w] = global_histogram[c] /\ global_histogram[c] \in Nat /\ local_hist[w][c] \in Nat
  BY <1>1 DEF MergeStore, LoadedFresh, TypeOK
<1>3. global_histogram' = [global_histogram EXCEPT ![c] = global_histogram[c] + local_hist[w][c]]
  BY <1>1, <1>2 DEF MergeStore
<1>4. global_histogram \in [Bins -> Nat] /\ global_histogram' \in [Bins -> Nat]
  BY <1>1 DEF TypeOK
<1>5. Total(global_histogram) + global_histogram'[c] = Total(global_histogram') + global_histogram[c]
  <2>1. IsFiniteSet(Bins)
    BY HistogramAssumption, FS_Interval DEF Bins
  <2>2. \A b \in Bins \ {c} : global_histogram[b] = global_histogram'[b]
    BY <1>3, <1>4
  <2>. QED BY <1>4, <2>1, <2>2, TotalChange
<1>6. global_histogram'[c] = global_histogram[c] + local_hist[w][c]
  BY <1>3, <1>4
<1>7. Total(global_histogram) \in Nat /\ Total(global_histogram') \in Nat
  BY <1>4, HistogramNat
<1>. QED BY <1>2, <1>5, <1>6, <1>7

\* The number printed follows the histogram, and never goes back.
LEMMA ShownStep ==
  ASSUME ControlInv, ShownInv, [Next]_vars
  PROVE  ShownInv' /\ shown' >= shown
<1>1. TypeOK /\ LockHeld /\ TypeOK'
  BY TypeStep DEF ControlInv
<1>2. /\ Total(global_histogram) \in Nat /\ Total(global_histogram') \in Nat
      /\ shown \in Nat /\ shown' \in Nat
  BY <1>1, HistogramNat DEF TypeOK
<1>3. ASSUME global_histogram' = global_histogram, shown' = shown,
             global_lock' = NoWorker => global_lock = NoWorker
      PROVE  ShownInv' /\ shown' >= shown
  BY <1>2, <1>3 DEF ShownInv
<1>4. CASE UNCHANGED vars
  BY <1>3, <1>4 DEF vars
<1>5. ASSUME NEW w \in Workers, WorkerStep(w)
      PROVE  ShownInv' /\ shown' >= shown
  <2>1. CASE MergeStore(w)
    <3>1. shown' = shown /\ global_lock' = global_lock
      BY <2>1 DEF MergeStore
    <3>2. global_lock # NoWorker
      BY <1>1, <2>1, HistogramAssumption DEF MergeStore, LockHeld, Merging
    <3>3. Total(global_histogram') >= Total(global_histogram)
      BY <2>1, StoreAdds
    <3>. QED BY <1>2, <3>1, <3>2, <3>3 DEF ShownInv
  <2>2. CASE PrintAndUnlock(w)
    <3>1. shown' = Total(global_histogram) /\ global_histogram' = global_histogram
      BY <2>2 DEF PrintAndUnlock
    <3>. QED BY <1>2, <3>1 DEF ShownInv
  <2>3. CASE LockGlobal(w)
    <3>1. /\ global_histogram' = global_histogram /\ shown' = shown /\ global_lock' # NoWorker
      BY <2>3, HistogramAssumption DEF LockGlobal
    <3>. QED BY <1>3, <3>1
  <2>4. CASE \/ \E f \in Files : Open(w, f) \/ OpenFails(w, f)
             \/ ReadByte(w) \/ EndOfFile(w) \/ MergeLoad(w) \/ WorkerExit(w)
    BY <1>3, <2>4 DEF Open, OpenFails, ReadByte, EndOfFile, MergeLoad, WorkerExit
  <2>. QED BY <1>5, <2>1, <2>2, <2>3, <2>4 DEF WorkerStep
<1>. QED BY <1>4, <1>5, StepCases

-----------------------------------------------------------------------------
(* Theorems                                                                *)

LEMMA InvInit == Init => HistogramInv
<1>. SUFFICES ASSUME Init PROVE HistogramInv
  OBVIOUS
<1>1. ShownInv
  <2>1. IsFiniteSet(Bins)
    BY HistogramAssumption, FS_Interval DEF Bins
  <2>2. global_histogram \in [Bins -> Nat] /\ \A b \in Bins : global_histogram[b] = 0
    BY DEF Init, Zero
  <2>3. Total(global_histogram) = 0
    BY <2>1, <2>2, TotalZero
  <2>. QED BY <2>3 DEF Init, ShownInv
<1>. QED BY <1>1, ControlInit, BitsInit DEF HistogramInv

LEMMA InvStep == HistogramInv /\ [Next]_vars => HistogramInv'
BY ControlStep, BitsStep, ShownStep DEF HistogramInv

LEMMA InvAlways == Spec => []HistogramInv
BY InvInit, InvStep, PTL DEF Spec

\* Type correctness: merge_histogram's index stays within the bins of both
\* histograms for any byte width, and every bin stays a natural number.
THEOREM HistogramTypeCorrect == Spec => []TypeOK
<1>1. HistogramInv => TypeOK
  BY DEF HistogramInv, ControlInv
<1>. QED BY <1>1, InvAlways, PTL

\* Every bit of every byte that fhistogram-mt's workers have read is, at every
\* moment, in exactly one histogram, a worker's own or the global one, however
\* the reads and the merges of the workers interleave.
THEOREM NoBitLost == Spec => []BitsConserved
<1>1. HistogramInv => BitsConserved
  BY DEF HistogramInv
<1>. QED BY <1>1, InvAlways, PTL

\* At the end everything read has been merged: nothing is left with a worker.
LEMMA InvFinal == HistogramInv => FinalHistogram
<1>. SUFFICES ASSUME HistogramInv, AllExited
              PROVE  /\ \A b \in Bins : global_histogram[b] =
                           Total([f \in Files \ unreadable |-> Ones(f, Len(Content[f]), b)])
                     /\ shown = Total(global_histogram)
  BY DEF FinalHistogram
<1>1. /\ TypeOK /\ LockHeld /\ Emptied /\ ExitedDrained /\ ReadFacts /\ BitsTyped
      /\ BitsConserved /\ ShownInv
  BY ReadCases, BitsTypes DEF HistogramInv, ControlInv
<1>2. queue = {}
  <2>1. PICK w \in Workers : TRUE
    BY HistogramAssumption
  <2>. QED BY <1>1, <2>1 DEF AllExited, ExitedDrained
<1>3. global_lock = NoWorker
  BY <1>1 DEF AllExited, LockHeld, Merging, TypeOK
<1>4. \A f \in Files \ unreadable : BytesRead(f) = Len(Content[f])
  BY <1>1, <1>2 DEF ReadFacts, AllExited, Active
<1>5. ASSUME NEW b \in Bins
      PROVE  global_histogram[b] =
                Total([f \in Files \ unreadable |-> Ones(f, Len(Content[f]), b)])
  <2>. DEFINE k == [f \in Files \ unreadable |-> Ones(f, Len(Content[f]), b)]
  <2>1. LocalBits(b) \in [Workers -> Nat] /\ ReadBits(b) \in [Files -> Nat]
    BY <1>1 DEF BitsTyped
  <2>2. Total(LocalBits(b)) = 0
    <3>1. \A w \in Workers : LocalBits(b)[w] = 0
      BY <1>1 DEF LocalBits, Emptied, AllExited
    <3>. QED BY <2>1, <3>1, TotalZero, HistogramAssumption
  <2>3. \A f \in Files \ unreadable : ReadBits(b)[f] = k[f]
    BY <1>4 DEF ReadBits
  <2>4. \A f \in Files \cap unreadable : ReadBits(b)[f] = 0
    BY <1>1, OnesZero DEF ReadBits, ReadFacts
  <2>5. k \in [Files \ unreadable -> Nat]
    BY <2>1, <2>3
  <2>6. Total(ReadBits(b)) = Total(k)
    <3>. DEFINE E == Files \ unreadable
    <3>1. E \in SUBSET Files /\ k \in [E -> Nat] /\ IsFiniteSet(Files)
      BY <2>5, HistogramAssumption
    <3>2. (\A f \in E : ReadBits(b)[f] = k[f]) /\ \A f \in Files \ E : ReadBits(b)[f] = 0
      BY <2>3, <2>4
    <3>. HIDE DEF E, k
    <3>. QED BY <2>1, <3>1, <3>2, TotalRestrict
  <2>7. global_histogram[b] + Total(LocalBits(b)) = Total(ReadBits(b)) /\ global_histogram[b] \in Nat
    BY <1>1, BitsAre DEF TypeOK
  <2>. QED BY <2>2, <2>6, <2>7
<1>. QED BY <1>1, <1>3, <1>5 DEF ShownInv

\* When all the workers are done the global histogram is the one the sequential
\* fhistogram.c computes from the readable files, and it is the one on screen.
THEOREM ParallelEqualsSequential == Spec => []FinalHistogram
BY InvFinal, InvAlways, PTL

\* The number of bits that print_histogram shows never decreases, whichever
\* worker prints: the merges are applied one after the other.
THEOREM ShownMonotone == Spec => ShownGrows
<1>1. HistogramInv /\ [Next]_vars => [shown' >= shown]_vars
  BY ShownStep DEF HistogramInv
<1>. QED BY <1>1, InvAlways, PTL DEF Spec, ShownGrows
=============================================================================
