-------------------------- MODULE AlgorithmsProofs --------------------------
(***************************************************************************)
(* The four lookups answer right, for every file and every sequence of     *)
(* queries; every tree of records by position is in order, the scan finds  *)
(* a nearest record and the walk of the tree none worse than its root; the *)
(* classifier gives every file its class; and the listing of an            *)
(* instruction names what the simulator executes, for every word and every *)
(* address, but for the misprints.                                         *)
(*                                                                         *)
(* The walk of eytzinger rests on the order in which build_eytzinger       *)
(* visits the tree laid out in the array: every node once, the nodes below *)
(* the left child before a node, those below the right child after it.     *)
(* The classifier rests on the bytes of a text being cut into characters   *)
(* in one way, the decoders on the immediates they put together from       *)
(* different slices of the word, the lookups by position on induction over *)
(* the size of a slice and the height of a tree.                           *)
(***************************************************************************)
EXTENDS Algorithms, NaturalsInduction, WellFoundedInduction, FiniteSetTheorems, SequenceTheorems,
        TLAPS

\* A file has n lines, each with an id.
LEMMA FileShape ==
    ASSUME NEW f \in Files
    PROVE /\ f.n \in Nat
          /\ f.line \in [0..f.n - 1 -> [id : Ids, complete : BOOLEAN]]
          /\ \A p \in 0..f.n - 1 : f.line[p].id \in Ids /\ f.line[p].complete \in BOOLEAN
  <1>1. f.n \in Nat /\ f.line \in [0..f.n - 1 -> [id : Ids, complete : BOOLEAN]]
    BY IdQueryAssumption
  <1>2. ASSUME NEW p \in 0..f.n - 1 PROVE f.line[p] \in [id : Ids, complete : BOOLEAN]
    BY <1>1
  <1>3. ASSUME NEW p \in 0..f.n - 1 PROVE f.line[p].id \in Ids /\ f.line[p].complete \in BOOLEAN
    BY <1>2
  <1> QED BY <1>1, <1>3

\* What a sort of the records gives: every record at some place, in order.
LEMMA SortShape ==
    ASSUME NEW a, NEW o \in qsort(a)
    PROVE /\ o \in [DOMAIN a -> DOMAIN a]
          /\ \A x \in DOMAIN a : \E y \in DOMAIN a : o[y] = x
          /\ \A x, y \in DOMAIN a : x < y => a[o[x]] <= a[o[y]]
  BY DEF qsort, Bijections

\* Induction on the natural numbers; the property is the set P.
LEMMA LeastId ==
    ASSUME NEW T, T \subseteq Nat, T # {}
    PROVE \E x \in T : \A y \in T : x <= y
  <1> DEFINE R == OpToRel(<, Nat)
  <1>1. \E x \in T : \A y \in T : ~(<<y, x>> \in R)
    <2> HIDE DEF R
    <2>1. IsWellFoundedOn(R, Nat)
      BY NatLessThanWellFounded, Zenon DEF R
    <2> QED BY <2>1, WFMin, Zenon
  <1>2. \A x, y \in Nat : <<y, x>> \in R <=> y < x
    BY DEF OpToRel
  <1> HIDE DEF R
  <1>3. PICK x \in T : \A y \in T : ~(<<y, x>> \in R)
    BY <1>1
  <1>4. \A y \in T : ~(y < x) /\ y \in Nat /\ x \in Nat
    BY <1>2, <1>3
  <1> QED BY <1>3, <1>4

\* What holds of a number when it holds of the smaller ones
LEMMA StrongInduct ==
    ASSUME NEW P, \A m \in Nat : (\A l \in Nat : l < m => l \in P) => m \in P
    PROVE Nat \subseteq P
  <1> SUFFICES ASSUME NEW m \in Nat, m \notin P PROVE FALSE
    OBVIOUS
  <1> DEFINE T == {l \in Nat : l \notin P}
  <1>1. PICK x \in T : \A y \in T : x <= y
    <2> T \subseteq Nat /\ T # {}
      OBVIOUS
    <2> HIDE DEF T
    <2> QED BY LeastId
  <1>2. \A l \in Nat : l < x => l \in P
    BY <1>1
  <1> QED BY <1>1, <1>2

-----------------------------------------------------------------------------
(* The tree of build_eytzinger: the children of a node are 2 * node and    *)
(* 2 * node + 1, and From(size)[node] lists the nodes of its subtree in    *)
(* the order of the visits.                                                *)

Nodes == Nat \ {0}
FromEq(g, size) ==
    g = [node \in Nat \ {0} |->
           IF node <= size THEN g[2 * node] \o <<node>> \o g[2 * node + 1] ELSE <<>>]
From(size) == CHOOSE g : FromEq(g, size)

LEMMA VisitsFrom ==
    ASSUME NEW size
    PROVE visits(size) = From(size)[1]
  BY DEF visits, From, FromEq

\* From the leaves to the root
LEMMA TreeInduct ==
    ASSUME NEW size \in Nat, NEW P,
           \A x \in Nodes : x > size => x \in P,
           \A x \in Nodes : x <= size /\ 2 * x \in P /\ 2 * x + 1 \in P => x \in P
    PROVE Nodes \subseteq P
  <1> DEFINE Q == {j \in Nat : \A x \in Nodes : x + j > size => x \in P}
  <1>1. ASSUME NEW m \in Nat, \A l \in Nat : l < m => l \in Q PROVE m \in Q
    <2> SUFFICES ASSUME NEW x \in Nodes, x + m > size PROVE x \in P
      OBVIOUS
    <2>1. CASE x > size
      BY <2>1
    <2>2. CASE x <= size
      <3>1. m # 0 /\ m - 1 \in Q
        BY <2>2, <1>1 DEF Nodes
      <3>2. /\ 2 * x \in Nodes /\ 2 * x + (m - 1) > size
            /\ 2 * x + 1 \in Nodes /\ (2 * x + 1) + (m - 1) > size
        BY DEF Nodes
      <3>3. 2 * x \in P /\ 2 * x + 1 \in P
        BY <3>1, <3>2
      <3> QED BY <3>3, <2>2
    <2> QED BY <2>1, <2>2 DEF Nodes
  <1>2. Nat \subseteq Q
    <2> HIDE DEF Q
    <2> QED BY <1>1, StrongInduct
  <1>3. \A x \in Nodes : x + size > size
    BY DEF Nodes
  <1> QED BY <1>2, <1>3

\* The recursion has a solution: one for the nodes above size - j, for every j.
LEMMA FromExists ==
    ASSUME NEW size \in Nat
    PROVE \E g : FromEq(g, size)
  <1> DEFINE D(j) == {x \in Nodes : x + j > size}
             Body(g, x) == IF x <= size THEN g[2 * x] \o <<x>> \o g[2 * x + 1] ELSE <<>>
             Eq(g, j) == g = [x \in D(j) |-> Body(g, x)]
             Q == {j \in Nat : \E g : Eq(g, j)}
  <1>1. ASSUME NEW m \in Nat, \A l \in Nat : l < m => l \in Q PROVE m \in Q
    <2>1. CASE m = 0
      <3> DEFINE g == [x \in D(0) |-> <<>>]
      <3>1. \A x \in D(0) : ~(x <= size)
        BY DEF Nodes
      <3>2. Eq(g, 0)
        BY <3>1
      <3> HIDE DEF Eq
      <3> QED BY <3>2, <2>1
    <2>2. CASE m # 0
      <3> DEFINE j == m - 1
      <3>1. j \in Nat /\ j < m /\ m = j + 1
        BY <2>2
      <3> HIDE DEF j
      <3>2. PICK g : Eq(g, j)
        BY <3>1, <1>1
      <3> DEFINE h == [x \in D(m) |-> Body(g, x)]
      <3>3. ASSUME NEW x \in D(j) PROVE x \in D(m) /\ h[x] = g[x]
        <4>1. x \in D(m)
          BY <3>1 DEF Nodes
        <4>2. g[x] = Body(g, x)
          BY <3>2
        <4> QED BY <4>1, <4>2
      <3>4. ASSUME NEW x \in D(m), x <= size PROVE 2 * x \in D(j) /\ 2 * x + 1 \in D(j)
        BY <3>1 DEF Nodes
      <3>5. ASSUME NEW x \in D(m) PROVE Body(g, x) = Body(h, x)
        <4> HIDE DEF D, h
        <4> QED BY <3>3, <3>4
      <3>6. h = [x \in D(m) |-> Body(h, x)]
        <4> HIDE DEF D, Body
        <4> QED BY <3>5
      <3>7. Eq(h, m)
        BY <3>6
      <3> HIDE DEF Eq, h
      <3> QED BY <3>7
    <2> QED BY <2>1, <2>2
  <1>2. Nat \subseteq Q
    <2> HIDE DEF Q
    <2> QED BY <1>1, StrongInduct
  <1>3. PICK g : Eq(g, size)
    BY <1>2
  <1>4. D(size) = Nat \ {0}
    BY DEF Nodes
  <1>5. g = [x \in Nat \ {0} |-> Body(g, x)]
    <2> HIDE DEF D
    <2> QED BY <1>3, <1>4
  <1> QED BY <1>5 DEF FromEq

\* One level of the tree
LEMMA FromStep ==
    ASSUME NEW size \in Nat, NEW x \in Nodes
    PROVE /\ x > size => From(size)[x] = <<>>
          /\ x <= size => From(size)[x] = From(size)[2 * x] \o <<x>> \o From(size)[2 * x + 1]
  <1>1. FromEq(From(size), size)
    BY FromExists DEF From
  <1> DEFINE g == From(size)
  <1>2. g = [y \in Nat \ {0} |-> IF y <= size THEN g[2 * y] \o <<y>> \o g[2 * y + 1] ELSE <<>>]
    BY <1>1 DEF FromEq
  <1> HIDE DEF g
  <1>3. g[x] = IF x <= size THEN g[2 * x] \o <<x>> \o g[2 * x + 1] ELSE <<>>
    BY <1>2 DEF Nodes
  <1>4. x > size => ~(x <= size)
    BY DEF Nodes
  <1> QED BY <1>3, <1>4 DEF g

\* The left subtree, the node itself, the right subtree
LEMMA Concat ==
    ASSUME NEW s \in Seq(Nat), NEW x \in Nat, NEW t \in Seq(Nat), NEW u, u = s \o <<x>> \o t
    PROVE /\ u \in Seq(Nat) /\ Len(u) = Len(s) + 1 + Len(t)
          /\ \A q \in 1..Len(s) : u[q] = s[q]
          /\ u[Len(s) + 1] = x
          /\ \A q \in 1..Len(t) : u[Len(s) + 1 + q] = t[q]
          /\ Len(s) \in Nat /\ Len(t) \in Nat
  <1>1. Len(s) \in Nat /\ Len(t) \in Nat
    OBVIOUS
  <1> DEFINE w == s \o <<x>>
  <1>2. w \in Seq(Nat) /\ Len(w) = Len(s) + 1 /\ w[Len(s) + 1] = x /\ \A q \in 1..Len(s) : w[q] = s[q]
    OBVIOUS
  <1>3. u = w \o t
    OBVIOUS
  <1> HIDE DEF w
  <1>4. u \in Seq(Nat) /\ Len(u) = Len(w) + Len(t)
    BY <1>2, <1>3
  <1>5. ASSUME NEW q \in 1..Len(w) PROVE u[q] = w[q]
    BY <1>5, <1>2, <1>3
  <1>6. ASSUME NEW q \in 1..Len(t) PROVE u[Len(w) + q] = t[q]
    BY <1>6, <1>2, <1>3
  <1>7. ASSUME NEW q \in 1..Len(t) PROVE u[Len(s) + 1 + q] = t[q]
    BY <1>6, <1>2
  <1>8. ASSUME NEW q \in 1..Len(s) PROVE u[q] = s[q]
    BY <1>5, <1>2, <1>1
  <1>9. u[Len(s) + 1] = x
    BY <1>5, <1>2, <1>1
  <1> QED BY <1>1, <1>2, <1>4, <1>7, <1>8, <1>9

LEMMA FromType ==
    ASSUME NEW size \in Nat
    PROVE \A x \in Nodes : From(size)[x] \in Seq(Nat)
  <1> DEFINE P == {x \in Nodes : From(size)[x] \in Seq(Nat)}
  <1>1. ASSUME NEW x \in Nodes, x > size PROVE x \in P
    <2>1. From(size)[x] = <<>>
      BY <1>1, FromStep
    <2>2. <<>> \in Seq(Nat)
      OBVIOUS
    <2>3. From(size)[x] \in Seq(Nat)
      BY <2>1, <2>2
    <2> QED BY <2>3
  <1>2. ASSUME NEW x \in Nodes, x <= size, 2 * x \in P, 2 * x + 1 \in P PROVE x \in P
    <2>1. From(size)[2 * x] \in Seq(Nat) /\ From(size)[2 * x + 1] \in Seq(Nat) /\ <<x>> \in Seq(Nat)
      BY <1>2 DEF Nodes
    <2>2. From(size)[x] = From(size)[2 * x] \o <<x>> \o From(size)[2 * x + 1]
      BY <1>2, FromStep
    <2>3. From(size)[x] \in Seq(Nat)
      BY <2>1, <2>2, Concat DEF Nodes
    <2> QED BY <2>3
  <1>3. Nodes \subseteq P
    <2> HIDE DEF P
    <2> QED BY <1>1, <1>2, TreeInduct
  <1> QED BY <1>3

Size(size, x) == Len(From(size)[x])

LEMMA Level ==
    ASSUME NEW size \in Nat, NEW x \in Nodes, x <= size
    PROVE /\ Size(size, x) = Size(size, 2 * x) + 1 + Size(size, 2 * x + 1)
          /\ \A q \in 1..Size(size, 2 * x) : From(size)[x][q] = From(size)[2 * x][q]
          /\ From(size)[x][Size(size, 2 * x) + 1] = x
          /\ \A q \in 1..Size(size, 2 * x + 1) :
               From(size)[x][Size(size, 2 * x) + 1 + q] = From(size)[2 * x + 1][q]
          /\ 2 * x \in Nodes /\ 2 * x + 1 \in Nodes
          /\ Size(size, x) \in Nat /\ Size(size, 2 * x) \in Nat /\ Size(size, 2 * x + 1) \in Nat
  <1>1. x \in Nat /\ 2 * x \in Nodes /\ 2 * x + 1 \in Nodes
    BY DEF Nodes
  <1>2. From(size)[2 * x] \in Seq(Nat) /\ From(size)[2 * x + 1] \in Seq(Nat)
    BY <1>1, FromType
  <1>3. From(size)[x] = From(size)[2 * x] \o <<x>> \o From(size)[2 * x + 1]
    BY FromStep
  <1> DEFINE s == From(size)[2 * x]
             t == From(size)[2 * x + 1]
             u == From(size)[x]
  <1>4. s \in Seq(Nat) /\ t \in Seq(Nat) /\ u = s \o <<x>> \o t
    BY <1>2, <1>3
  <1> HIDE DEF s, t, u
  <1>5. /\ u \in Seq(Nat) /\ Len(u) = Len(s) + 1 + Len(t)
        /\ \A q \in 1..Len(s) : u[q] = s[q]
        /\ u[Len(s) + 1] = x
        /\ \A q \in 1..Len(t) : u[Len(s) + 1 + q] = t[q]
        /\ Len(s) \in Nat /\ Len(t) \in Nat
    BY <1>1, <1>4, Concat
  <1>6. Len(u) \in Nat
    BY <1>5
  <1> QED BY <1>1, <1>5, <1>6 DEF s, t, u, Size

-----------------------------------------------------------------------------
(* The nodes below a node, itself included                                 *)

Sub(size, x) == {From(size)[x][q] : q \in 1..Size(size, x)}

LEMMA SubStep ==
    ASSUME NEW size \in Nat, NEW x \in Nodes
    PROVE /\ x > size => Sub(size, x) = {} /\ Size(size, x) = 0
          /\ x <= size => Sub(size, x) = Sub(size, 2 * x) \cup {x} \cup Sub(size, 2 * x + 1)
  <1>1. ASSUME x > size PROVE Sub(size, x) = {} /\ Size(size, x) = 0
    <2>1. From(size)[x] = <<>>
      BY <1>1, FromStep
    <2>2. Size(size, x) = 0
      BY <2>1 DEF Size
    <2> QED BY <2>2 DEF Sub
  <1>2. ASSUME x <= size PROVE Sub(size, x) = Sub(size, 2 * x) \cup {x} \cup Sub(size, 2 * x + 1)
    <2> DEFINE l == Size(size, 2 * x)
               r == Size(size, 2 * x + 1)
               u == From(size)[x]
               s == From(size)[2 * x]
               t == From(size)[2 * x + 1]
    <2>1. /\ Size(size, x) = l + 1 + r /\ l \in Nat /\ r \in Nat
          /\ \A q \in 1..l : u[q] = s[q]
          /\ u[l + 1] = x
          /\ \A q \in 1..r : u[l + 1 + q] = t[q]
      BY <1>2, Level
    <2>2. /\ Sub(size, x) = {u[q] : q \in 1..l + 1 + r}
          /\ Sub(size, 2 * x) = {s[q] : q \in 1..l}
          /\ Sub(size, 2 * x + 1) = {t[q] : q \in 1..r}
      BY <2>1 DEF Sub
    <2> HIDE DEF l, r, u, s, t
    <2>3. ASSUME NEW q \in 1..l + 1 + r PROVE u[q] \in {s[p] : p \in 1..l} \cup {x} \cup {t[p] : p \in 1..r}
      <3>1. CASE q <= l
        BY <3>1, <2>1
      <3>2. CASE q = l + 1
        BY <3>2, <2>1
      <3>3. CASE q > l + 1
        <4>1. q - l - 1 \in 1..r /\ l + 1 + (q - l - 1) = q
          BY <3>3, <2>1
        <4> QED BY <4>1, <2>1
      <3> QED BY <3>1, <3>2, <3>3, <2>1
    <2>4. ASSUME NEW p \in 1..l PROVE s[p] \in {u[q] : q \in 1..l + 1 + r}
      BY <2>1
    <2>5. x \in {u[q] : q \in 1..l + 1 + r}
      BY <2>1
    <2>6. ASSUME NEW p \in 1..r PROVE t[p] \in {u[q] : q \in 1..l + 1 + r}
      <3>1. l + 1 + p \in 1..l + 1 + r /\ u[l + 1 + p] = t[p]
        BY <2>1
      <3> QED BY <3>1
    <2> QED BY <2>2, <2>3, <2>4, <2>5, <2>6
  <1> QED BY <1>1, <1>2

LEMMA SubBounds ==
    ASSUME NEW size \in Nat
    PROVE \A x \in Nodes : \A y \in Sub(size, x) : y \in Nodes /\ x <= y /\ y <= size
  <1> DEFINE P == {x \in Nodes : \A y \in Sub(size, x) : y \in Nodes /\ x <= y /\ y <= size}
  <1>1. ASSUME NEW x \in Nodes, x > size PROVE x \in P
    BY <1>1, SubStep
  <1>2. ASSUME NEW x \in Nodes, x <= size, 2 * x \in P, 2 * x + 1 \in P PROVE x \in P
    <2> SUFFICES ASSUME NEW y \in Sub(size, x) PROVE y \in Nodes /\ x <= y /\ y <= size
      OBVIOUS
    <2>1. y \in Sub(size, 2 * x) \/ y = x \/ y \in Sub(size, 2 * x + 1)
      BY <1>2, SubStep
    <2>2. CASE y = x
      BY <2>2, <1>2 DEF Nodes
    <2>3. CASE y \in Sub(size, 2 * x)
      <3>1. y \in Nodes /\ 2 * x <= y /\ y <= size
        BY <2>3, <1>2
      <3> QED BY <3>1 DEF Nodes
    <2>4. CASE y \in Sub(size, 2 * x + 1)
      <3>1. y \in Nodes /\ 2 * x + 1 <= y /\ y <= size
        BY <2>4, <1>2
      <3> QED BY <3>1 DEF Nodes
    <2> QED BY <2>1, <2>2, <2>3, <2>4
  <1>3. Nodes \subseteq P
    <2> HIDE DEF P
    <2> QED BY <1>1, <1>2, TreeInduct
  <1> QED BY <1>3

\* A subtree holds the parents of its nodes, up to its root ...
LEMMA SubUp ==
    ASSUME NEW size \in Nat
    PROVE \A x \in Nodes : \A y \in Sub(size, x) : y # x => y \div 2 \in Sub(size, x)
  <1> DEFINE P == {x \in Nodes : \A y \in Sub(size, x) : y # x => y \div 2 \in Sub(size, x)}
  <1>1. ASSUME NEW x \in Nodes, x > size PROVE x \in P
    BY <1>1, SubStep
  <1>2. ASSUME NEW x \in Nodes, x <= size, 2 * x \in P, 2 * x + 1 \in P PROVE x \in P
    <2> SUFFICES ASSUME NEW y \in Sub(size, x), y # x PROVE y \div 2 \in Sub(size, x)
      OBVIOUS
    <2>1. Sub(size, x) = Sub(size, 2 * x) \cup {x} \cup Sub(size, 2 * x + 1)
      BY <1>2, SubStep
    <2>2. CASE y = 2 * x \/ y = 2 * x + 1
      <3>1. y \div 2 = x
        BY <2>2 DEF Nodes
      <3> QED BY <3>1, <2>1
    <2>3. CASE y # 2 * x /\ y # 2 * x + 1
      BY <2>1, <2>3, <1>2
    <2> QED BY <2>2, <2>3
  <1>3. Nodes \subseteq P
    <2> HIDE DEF P
    <2> QED BY <1>1, <1>2, TreeInduct
  <1> QED BY <1>3

\* ... and their children.
LEMMA SubDown ==
    ASSUME NEW size \in Nat
    PROVE \A x \in Nodes : \A y \in Sub(size, x) :
            \A c \in {2 * y, 2 * y + 1} : c <= size => c \in Sub(size, x)
  <1> DEFINE P == {x \in Nodes : \A y \in Sub(size, x) :
                     \A c \in {2 * y, 2 * y + 1} : c <= size => c \in Sub(size, x)}
  <1>1. ASSUME NEW x \in Nodes, x > size PROVE x \in P
    BY <1>1, SubStep
  <1>2. ASSUME NEW x \in Nodes, x <= size, 2 * x \in P, 2 * x + 1 \in P PROVE x \in P
    <2> SUFFICES ASSUME NEW y \in Sub(size, x), NEW c \in {2 * y, 2 * y + 1}, c <= size
                 PROVE c \in Sub(size, x)
      OBVIOUS
    <2>1. Sub(size, x) = Sub(size, 2 * x) \cup {x} \cup Sub(size, 2 * x + 1)
      BY <1>2, SubStep
    <2>2. CASE y = x
      <3>1. c \in Nodes
        BY <2>2 DEF Nodes
      <3>2. c \in Sub(size, c)
        BY <3>1, SubStep
      <3> QED BY <3>2, <2>1, <2>2
    <2>3. CASE y # x
      BY <2>1, <2>3, <1>2
    <2> QED BY <2>2, <2>3
  <1>3. Nodes \subseteq P
    <2> HIDE DEF P
    <2> QED BY <1>1, <1>2, TreeInduct
  <1> QED BY <1>3

LEMMA SubDisjoint ==
    ASSUME NEW size \in Nat, NEW x \in Nodes
    PROVE Sub(size, 2 * x) \cap Sub(size, 2 * x + 1) = {}
  <1> DEFINE T == Sub(size, 2 * x) \cap Sub(size, 2 * x + 1)
  <1> SUFFICES ASSUME T # {} PROVE FALSE
    OBVIOUS
  <1>1. 2 * x \in Nodes /\ 2 * x + 1 \in Nodes /\ x \in Nat
    BY DEF Nodes
  <1>2. \A y \in T : y \in Nat /\ y >= 2 * x + 1
    BY <1>1, SubBounds DEF Nodes
  <1>3. PICK y \in T : \A z \in T : y <= z
    <2>1. T \subseteq Nat
      BY <1>2
    <2> HIDE DEF T
    <2> QED BY <2>1, LeastId
  <1>4. y # 2 * x
    BY <1>1, <1>2
  <1>5. y \div 2 \in Sub(size, 2 * x)
    BY <1>1, <1>4, SubUp
  <1>6. CASE y = 2 * x + 1
    <2>1. y \div 2 = x
      BY <1>6, <1>1
    <2>2. 2 * x <= x
      BY <2>1, <1>5, <1>1, SubBounds
    <2> QED BY <2>2 DEF Nodes
  <1>7. CASE y # 2 * x + 1
    <2>1. y \div 2 \in T
      BY <1>1, <1>5, <1>7, SubUp
    <2>2. y \div 2 < y
      BY <1>2, <1>1
    <2> QED BY <2>1, <2>2, <1>2, <1>3
  <1> QED BY <1>6, <1>7

\* No node is visited twice.
LEMMA FromInjective ==
    ASSUME NEW size \in Nat
    PROVE \A x \in Nodes : \A p, q \in 1..Size(size, x) :
            From(size)[x][p] = From(size)[x][q] => p = q
  <1> DEFINE P == {x \in Nodes : \A p, q \in 1..Size(size, x) :
                     From(size)[x][p] = From(size)[x][q] => p = q}
  <1>1. ASSUME NEW x \in Nodes, x > size PROVE x \in P
    <2>1. Size(size, x) = 0
      BY <1>1, SubStep
    <2> QED BY <2>1
  <1>2. ASSUME NEW x \in Nodes, x <= size, 2 * x \in P, 2 * x + 1 \in P PROVE x \in P
    <2> DEFINE l == Size(size, 2 * x)
               r == Size(size, 2 * x + 1)
               u == From(size)[x]
               s == From(size)[2 * x]
               t == From(size)[2 * x + 1]
               S == Sub(size, 2 * x)
               T == Sub(size, 2 * x + 1)
    <2>1. /\ Size(size, x) = l + 1 + r /\ l \in Nat /\ r \in Nat
          /\ \A q \in 1..l : u[q] = s[q]
          /\ u[l + 1] = x
          /\ \A q \in 1..r : u[l + 1 + q] = t[q]
      BY <1>2, Level
    <2>2. /\ \A q \in 1..l : s[q] \in S
          /\ \A q \in 1..r : t[q] \in T
      BY DEF Sub
    <2>3. x \notin S /\ x \notin T /\ S \cap T = {}
      <3>1. 2 * x \in Nodes /\ 2 * x + 1 \in Nodes /\ ~(2 * x <= x) /\ ~(2 * x + 1 <= x)
        BY DEF Nodes
      <3> QED BY <3>1, SubBounds, SubDisjoint
    <2>4. /\ \A p, q \in 1..l : s[p] = s[q] => p = q
          /\ \A p, q \in 1..r : t[p] = t[q] => p = q
      BY <1>2
    <2> HIDE DEF l, r, u, s, t, S, T
    <2>5. ASSUME NEW q \in 1..l + 1 + r
          PROVE /\ q <= l => q \in 1..l /\ u[q] = s[q] /\ u[q] \in S
                /\ q = l + 1 => u[q] = x
                /\ q > l + 1 => q - l - 1 \in 1..r /\ u[q] = t[q - l - 1] /\ u[q] \in T
                /\ q <= l \/ q = l + 1 \/ q > l + 1
      <3>1. CASE q > l + 1
        <4>1. q - l - 1 \in 1..r /\ l + 1 + (q - l - 1) = q
          BY <3>1, <2>1
        <4>2. u[q] = t[q - l - 1]
          BY <4>1, <2>1
        <4> QED BY <4>1, <4>2, <3>1, <2>1, <2>2
      <3>2. CASE q <= l
        BY <3>2, <2>1, <2>2
      <3>3. CASE q = l + 1
        BY <3>3, <2>1
      <3> QED BY <3>1, <3>2, <3>3, <2>1
    <2>6. ASSUME NEW p \in 1..l + 1 + r, NEW q \in 1..l + 1 + r, u[p] = u[q] PROVE p = q
      <3>1. CASE p <= l /\ q <= l
        BY <3>1, <2>4, <2>5, <2>6
      <3>2. CASE p > l + 1 /\ q > l + 1
        <4>1. p - l - 1 = q - l - 1
          BY <3>2, <2>4, <2>5, <2>6
        <4> QED BY <4>1, <2>1
      <3>3. CASE p = l + 1 /\ q = l + 1
        BY <3>3
      <3> QED BY <3>1, <3>2, <3>3, <2>3, <2>5, <2>6
    <2>7. \A p, q \in 1..Size(size, x) : u[p] = u[q] => p = q
      BY <2>1, <2>6
    <2> QED BY <2>7 DEF u
  <1>3. Nodes \subseteq P
    <2> HIDE DEF P
    <2> QED BY <1>1, <1>2, TreeInduct
  <1> QED BY <1>3

\* Every node is visited.
LEMMA AllVisited ==
    ASSUME NEW size \in Nat
    PROVE Sub(size, 1) = 1..size
  <1>o. 1 \in Nodes
    BY DEF Nodes
  <1>1. Sub(size, 1) \subseteq 1..size
    BY <1>o, SubBounds DEF Nodes
  <1> DEFINE P == {y \in Nat : y \in 1..size => y \in Sub(size, 1)}
  <1>2. ASSUME NEW m \in Nat, \A y \in Nat : y < m => y \in P PROVE m \in P
    <2> SUFFICES ASSUME m \in 1..size PROVE m \in Sub(size, 1)
      OBVIOUS
    <2>1. CASE m = 1
      BY <2>1, <1>o, SubStep
    <2>2. CASE m > 1
      <3>1. m \div 2 \in Nat /\ m \div 2 < m /\ m \div 2 \in 1..size
        BY <2>2
      <3>2. m \div 2 \in Sub(size, 1)
        BY <3>1, <1>2
      <3>3. m \in {2 * (m \div 2), 2 * (m \div 2) + 1} /\ m <= size
        OBVIOUS
      <3>4. \A y \in Sub(size, 1) : \A c \in {2 * y, 2 * y + 1} : c <= size => c \in Sub(size, 1)
        BY <1>o, SubDown
      <3> QED BY <3>2, <3>3, <3>4
    <2> QED BY <2>1, <2>2
  <1>3. Nat \subseteq P
    <2> HIDE DEF P
    <2> QED BY <1>2, StrongInduct
  <1>4. 1..size \subseteq Sub(size, 1)
    BY <1>3
  <1> QED BY <1>1, <1>4

\* The visits are a permutation of the nodes.
LEMMA VisitsShape ==
    ASSUME NEW size \in Nat
    PROVE /\ Size(size, 1) = size
          /\ \A p \in 1..size : visits(size)[p] \in 1..size
          /\ \A p, q \in 1..size : visits(size)[p] = visits(size)[q] => p = q
          /\ \A x \in 1..size : \E p \in 1..size : visits(size)[p] = x
  <1> DEFINE v == From(size)[1]
             l == Size(size, 1)
  <1>1. 1 \in Nodes
    BY DEF Nodes
  <1>2. l \in Nat
    BY <1>1, FromType DEF Size
  <1>3. {v[p] : p \in 1..l} = 1..size
    BY AllVisited DEF Sub
  <1>4. \A p, q \in 1..l : v[p] = v[q] => p = q
    BY <1>1, FromInjective
  <1>5. l = size
    <2> DEFINE f == [p \in 1..l |-> v[p]]
    <2> HIDE DEF v, l
    <2>1. f \in [1..l -> 1..size] /\ \A p \in 1..l : f[p] = v[p]
      BY <1>3
    <2>2. \A x \in 1..size : \E p \in 1..l : f[p] = x
      BY <1>3, <2>1
    <2>3. \A p, q \in 1..l : f[p] = f[q] => p = q
      BY <1>4, <2>1
    <2> HIDE DEF f
    <2>4. f \in Bijection(1..l, 1..size)
      BY <2>1, <2>2, <2>3 DEF Bijection, Injection, Surjection, IsInjective
    <2>5. ExistsBijection(1..l, 1..size)
      BY <2>4 DEF ExistsBijection
    <2>6. IsFiniteSet(1..l) /\ Cardinality(1..l) = l /\ Cardinality(1..size) = size
      BY <1>2, FS_Interval
    <2> QED BY <2>5, <2>6, FS_Bijection
  <1>6. visits(size) = v
    BY VisitsFrom
  <1> HIDE DEF v, l
  <1>7. /\ \A p \in 1..size : v[p] \in 1..size
        /\ \A x \in 1..size : \E p \in 1..size : v[p] = x
    BY <1>3, <1>5
  <1> QED BY <1>4, <1>5, <1>6, <1>7 DEF l

-----------------------------------------------------------------------------
(* The walk.  keys[x] is the id at node x; Narrowed says what the loop of  *)
(* eytzinger_lookup knows at node x when l is the last node it turned left *)
(* at: the visits below x come after the a first ones, whose ids are too   *)
(* small, and right before l, whose id is not.                             *)

SortedKeys(size, keys) ==
    /\ keys \in [1..size -> Int]
    /\ \A p, q \in 1..size : p < q => keys[visits(size)[p]] <= keys[visits(size)[q]]

Narrowed(size, keys, nd, x, l, a) ==
    /\ x \in Nodes /\ l \in Nat /\ a \in Nat
    /\ a + Size(size, x) <= size
    /\ \A q \in 1..Size(size, x) : visits(size)[a + q] = From(size)[x][q]
    /\ \A p \in 1..a : keys[visits(size)[p]] < nd
    /\ IF l = 0 THEN a + Size(size, x) = size
       ELSE /\ a + Size(size, x) < size
            /\ visits(size)[a + Size(size, x) + 1] = l /\ keys[l] >= nd

LEMMA NarrowStart ==
    ASSUME NEW size \in Nat, NEW keys, NEW nd
    PROVE Narrowed(size, keys, nd, 1, 0, 0)
  <1>1. Size(size, 1) = size /\ visits(size) = From(size)[1] /\ 1 \in Nodes
    BY VisitsShape, VisitsFrom DEF Nodes
  <1>2. ASSUME NEW q \in 1..Size(size, 1) PROVE visits(size)[0 + q] = From(size)[1][q]
    <2>1. 0 + q = q
      BY <1>1
    <2> QED BY <1>1, <2>1
  <1> QED BY <1>1, <1>2 DEF Narrowed

\* Where the node the loop looks at stands among the visits
LEMMA NodePlace ==
    ASSUME NEW size \in Nat, NEW keys, NEW nd, NEW x, NEW l, NEW a,
           Narrowed(size, keys, nd, x, l, a), x <= size
    PROVE /\ a + Size(size, 2 * x) + 1 \in 1..size
          /\ visits(size)[a + Size(size, 2 * x) + 1] = x
  <1> DEFINE s == Size(size, 2 * x)
             r == Size(size, 2 * x + 1)
  <1>1. /\ Size(size, x) = s + 1 + r /\ s \in Nat /\ r \in Nat
        /\ From(size)[x][s + 1] = x
    BY Level DEF Narrowed
  <1>2. a \in Nat /\ a + Size(size, x) <= size
        /\ \A q \in 1..Size(size, x) : visits(size)[a + q] = From(size)[x][q]
    BY DEF Narrowed
  <1> HIDE DEF s, r
  <1>3. s + 1 \in 1..Size(size, x) /\ a + (s + 1) = a + s + 1 /\ a + s + 1 \in 1..size
    BY <1>1, <1>2
  <1>4. visits(size)[a + (s + 1)] = x
    BY <1>1, <1>2, <1>3
  <1>5. visits(size)[a + s + 1] = x
    BY <1>3, <1>4
  <1> QED BY <1>3, <1>5 DEF s

LEMMA NarrowLeft ==
    ASSUME NEW size \in Nat, NEW keys, NEW nd, NEW x, NEW l, NEW a,
           Narrowed(size, keys, nd, x, l, a), x <= size, keys[x] >= nd
    PROVE Narrowed(size, keys, nd, 2 * x, x, a)
  <1> DEFINE s == Size(size, 2 * x)
             r == Size(size, 2 * x + 1)
  <1>1. /\ Size(size, x) = s + 1 + r /\ s \in Nat /\ r \in Nat
        /\ \A q \in 1..s : From(size)[x][q] = From(size)[2 * x][q]
        /\ 2 * x \in Nodes
    BY Level DEF Narrowed
  <1>2. x \in Nat /\ x # 0 /\ a \in Nat /\ a + Size(size, x) <= size
        /\ \A q \in 1..Size(size, x) : visits(size)[a + q] = From(size)[x][q]
        /\ \A p \in 1..a : keys[visits(size)[p]] < nd
    BY DEF Narrowed, Nodes
  <1>3. visits(size)[a + s + 1] = x
    BY NodePlace
  <1> HIDE DEF s, r
  <1>4. a + s < size /\ a + s <= size
    BY <1>1, <1>2
  <1>5. ASSUME NEW q \in 1..s PROVE visits(size)[a + q] = From(size)[2 * x][q]
    <2>1. q \in 1..Size(size, x)
      BY <1>1
    <2> QED BY <2>1, <1>1, <1>2
  <1> QED BY <1>1, <1>2, <1>3, <1>4, <1>5 DEF Narrowed, s

LEMMA NarrowRight ==
    ASSUME NEW size \in Nat, NEW keys, NEW nd \in Int, NEW x, NEW l, NEW a,
           Narrowed(size, keys, nd, x, l, a), x <= size, keys[x] < nd, SortedKeys(size, keys)
    PROVE Narrowed(size, keys, nd, 2 * x + 1, l, a + Size(size, 2 * x) + 1)
  <1> DEFINE s == Size(size, 2 * x)
             r == Size(size, 2 * x + 1)
             m == a + s + 1
             v == visits(size)
  <1>1. /\ Size(size, x) = s + 1 + r /\ s \in Nat /\ r \in Nat
        /\ \A q \in 1..r : From(size)[x][s + 1 + q] = From(size)[2 * x + 1][q]
        /\ 2 * x + 1 \in Nodes
    BY Level DEF Narrowed
  <1>2. l \in Nat /\ a \in Nat /\ a + Size(size, x) <= size
        /\ \A q \in 1..Size(size, x) : v[a + q] = From(size)[x][q]
    BY DEF Narrowed
  <1>3. m \in 1..size /\ v[m] = x
    BY NodePlace
  <1>v. \A p \in 1..size : keys[v[p]] \in Int
    BY VisitsShape DEF SortedKeys
  <1>o. \A p, q \in 1..size : p < q => keys[v[p]] <= keys[v[q]]
    BY DEF SortedKeys
  <1> HIDE DEF s, r, v
  <1>4. m \in Nat /\ m + r = a + Size(size, x)
    BY <1>1, <1>2
  <1>5. ASSUME NEW q \in 1..r PROVE v[m + q] = From(size)[2 * x + 1][q]
    <2>1. s + 1 + q \in 1..Size(size, x) /\ a + (s + 1 + q) = m + q
      BY <1>1, <1>2
    <2>2. v[a + (s + 1 + q)] = From(size)[x][s + 1 + q]
      BY <2>1, <1>2
    <2>3. From(size)[x][s + 1 + q] = From(size)[2 * x + 1][q]
      BY <1>1
    <2> QED BY <2>1, <2>2, <2>3
  <1> HIDE DEF m
  <1>6. ASSUME NEW p \in 1..m PROVE keys[v[p]] < nd
    <2>1. p \in 1..size /\ (p = m \/ p < m)
      BY <1>3
    <2>2. CASE p = m
      BY <2>2, <1>3
    <2>3. CASE p < m
      <3>1. keys[v[p]] <= keys[v[m]]
        BY <2>1, <2>3, <1>3, <1>o
      <3> QED BY <3>1, <2>1, <1>3, <1>v
    <2> QED BY <2>1, <2>2, <2>3
  <1>7. IF l = 0 THEN m + r = size
        ELSE m + r < size /\ v[m + r + 1] = l /\ keys[l] >= nd
    BY <1>4 DEF Narrowed, v
  <1>8. m + r <= size
    BY <1>2, <1>4
  <1>9. Narrowed(size, keys, nd, 2 * x + 1, l, m)
    BY <1>1, <1>2, <1>4, <1>5, <1>6, <1>7, <1>8 DEF Narrowed, r, v
  <1> QED BY <1>9 DEF m, s

\* At the end of the walk the last node it turned left at has the id asked
\* for, or no node has.
LEMMA NarrowEnd ==
    ASSUME NEW size \in Nat, NEW keys, NEW nd \in Int, NEW x, NEW l, NEW a,
           Narrowed(size, keys, nd, x, l, a), x > size, SortedKeys(size, keys)
    PROVE /\ l # 0 => l \in 1..size
          /\ l = 0 \/ keys[l] # nd => \A y \in 1..size : keys[y] # nd
  <1> DEFINE v == visits(size)
  <1>1. Size(size, x) = 0
    BY SubStep DEF Narrowed
  <1>2. a \in Nat /\ a <= size /\ \A p \in 1..a : keys[v[p]] < nd
    BY <1>1 DEF Narrowed
  <1>3. l = 0 => a = size
    BY <1>1, <1>2 DEF Narrowed
  <1>4. l # 0 => a + 1 \in 1..size /\ v[a + 1] = l /\ keys[l] >= nd
    <2>1. a + 0 = a
      BY <1>2
    <2> QED BY <1>1, <1>2, <2>1 DEF Narrowed
  <1>5. /\ \A p \in 1..size : v[p] \in 1..size
        /\ \A y \in 1..size : \E p \in 1..size : v[p] = y
    BY VisitsShape
  <1>6. \A p \in 1..size : keys[v[p]] \in Int
    BY <1>5 DEF SortedKeys
  <1>7. \A p, q \in 1..size : p < q => keys[v[p]] <= keys[v[q]]
    BY DEF SortedKeys
  <1> HIDE DEF v
  <1>8. ASSUME l = 0 \/ keys[l] # nd, NEW y \in 1..size PROVE keys[y] # nd
    <2>1. PICK p \in 1..size : v[p] = y
      BY <1>5
    <2>2. CASE p <= a
      <3>1. keys[v[p]] < nd
        BY <2>2, <1>2
      <3> QED BY <3>1, <2>1, <1>6
    <2>3. CASE p > a
      <3>1. l # 0
        BY <2>3, <1>3
      <3>2. a + 1 \in 1..size /\ keys[v[a + 1]] >= nd /\ keys[v[a + 1]] # nd
        BY <3>1, <1>4, <1>8
      <3>3. p = a + 1 \/ a + 1 < p
        BY <2>3, <1>2
      <3>4. keys[v[a + 1]] <= keys[v[p]]
        BY <3>2, <3>3, <1>6, <1>7
      <3> QED BY <3>2, <3>4, <2>1, <1>6
    <2> QED BY <2>2, <2>3, <1>2
  <1> QED BY <1>4, <1>5, <1>8

-----------------------------------------------------------------------------
(* The tree of the program                                                 *)

Keys == [x \in 1..n |-> rs[ey[x]]]

TreeBuilt ==
    phase # "read" /\ program = "eytzinger" => \E o \in qsort(rs) : ey = build_eytzinger(o, n)
WalkNarrows ==
    phase = "search" /\ program = "eytzinger" => \E a \in Nat : Narrowed(n, Keys, needle, k, last, a)

\* build_eytzinger puts the p-th record of the order at the p-th node visited.
LEMMA TreeOrder ==
    ASSUME NEW size \in Nat, NEW o, NEW p \in 1..size
    PROVE build_eytzinger(o, size)[visits(size)[p]] = o[p - 1]
  <1> DEFINE v == visits(size)
             c == CHOOSE q \in 1..size : v[q] = v[p]
  <1>1. v[p] \in 1..size /\ \A q \in 1..size : v[q] = v[p] => q = p
    BY VisitsShape
  <1> HIDE DEF v
  <1>2. c \in 1..size /\ v[c] = v[p]
    OBVIOUS
  <1>3. c = p
    BY <1>1, <1>2
  <1>4. build_eytzinger(o, size) = [x \in 1..size |-> o[(CHOOSE q \in 1..size : v[q] = x) - 1]]
    BY DEF build_eytzinger, v
  <1>5. build_eytzinger(o, size)[v[p]] = o[c - 1]
    BY <1>1, <1>4
  <1> QED BY <1>3, <1>5 DEF v

LEMMA TreeKeys ==
    ASSUME IdTypeOK, TreeBuilt, phase # "read", program = "eytzinger"
    PROVE /\ n \in Nat /\ SortedKeys(n, Keys)
          /\ \A y \in 1..n : ey[y] \in Positions /\ Keys[y] = rs[ey[y]]
          /\ \A r \in Positions : \E y \in 1..n : ey[y] = r
  <1>1. n \in Nat /\ rs \in [Positions -> Ids] /\ Ids \subseteq Int
    BY FileShape, IdQueryAssumption DEF IdTypeOK
  <1>2. PICK o \in qsort(rs) : ey = build_eytzinger(o, n)
    BY DEF TreeBuilt
  <1>3. /\ o \in [Positions -> Positions]
        /\ \A x \in Positions : \E y \in Positions : o[y] = x
        /\ \A x, y \in Positions : x < y => rs[o[x]] <= rs[o[y]]
    <2>1. DOMAIN rs = Positions
      BY <1>1
    <2> QED BY <2>1, SortShape
  <1> DEFINE v == visits(n)
  <1>4. \A p \in 1..n : ey[v[p]] = o[p - 1]
    BY <1>1, <1>2, TreeOrder
  <1>5. /\ \A p \in 1..n : v[p] \in 1..n
        /\ \A x \in 1..n : \E p \in 1..n : v[p] = x
    BY <1>1, VisitsShape
  <1>6. \A p \in 1..n : p - 1 \in Positions
    BY <1>1 DEF Positions
  <1> HIDE DEF v
  <1>7. \A y \in 1..n : ey[y] \in Positions
    BY <1>3, <1>4, <1>5, <1>6
  <1>8. \A y \in 1..n : Keys[y] = rs[ey[y]]
    BY DEF Keys
  <1>9. Keys \in [1..n -> Int]
    BY <1>1, <1>7 DEF Keys
  <1>10. ASSUME NEW p \in 1..n, NEW q \in 1..n, p < q PROVE Keys[v[p]] <= Keys[v[q]]
    <2>1. p - 1 \in Positions /\ q - 1 \in Positions /\ p - 1 < q - 1
      BY <1>6, <1>10
    <2>2. rs[o[p - 1]] <= rs[o[q - 1]]
      BY <2>1, <1>3
    <2> QED BY <2>2, <1>4, <1>5, <1>8
  <1>11. ASSUME NEW r \in Positions PROVE \E y \in 1..n : ey[y] = r
    <2>1. PICK x \in Positions : o[x] = r
      BY <1>3
    <2>2. x + 1 \in 1..n /\ (x + 1) - 1 = x
      BY <1>1 DEF Positions
    <2>3. ey[v[x + 1]] = o[(x + 1) - 1]
      BY <2>2, <1>4
    <2>4. ey[v[x + 1]] = r /\ v[x + 1] \in 1..n
      BY <2>1, <2>2, <2>3, <1>5
    <2> QED BY <2>4
  <1> QED BY <1>1, <1>7, <1>8, <1>9, <1>10, <1>11 DEF SortedKeys, v

-----------------------------------------------------------------------------
(* The inductive invariant and the steps that keep it                      *)

IdInv == IdTypeOK /\ IndexBuilt /\ SearchNarrows /\ AnswerRight /\ TreeBuilt /\ WalkNarrows

\* The tree stays as it was built, and a step of another program is none of a walk.
LEMMA TreeKept ==
    ASSUME TreeBuilt, phase # "read", UNCHANGED indexVars PROVE TreeBuilt'
  BY DEF TreeBuilt, indexVars, qsort, Bijections

LEMMA IdInitInv == IdInit => IdInv
  BY DEF IdInit, IdInv, IdTypeOK, IndexBuilt, SearchNarrows, AnswerRight,
         TreeBuilt, WalkNarrows

LEMMA BuildInv ==
    ASSUME IdInv, Build PROVE IdInv'
  <1> USE DEF IdInv
  <1>f. /\ file.n \in Nat
        /\ \A p \in 0..file.n - 1 : file.line[p].id \in Ids /\ file.line[p].complete \in BOOLEAN
    BY FileShape DEF IdTypeOK
  <1>r. /\ n' = file.n /\ file' = file /\ program' = program /\ phase' = "ready"
        /\ rs' \in [0..n' - 1 -> Ids] /\ \A p \in 0..n' - 1 : rs'[p] \in read_record(file.line[p])
    BY DEF Build
  <1>1. IdTypeOK'
    BY <1>r DEF Build, IdTypeOK, Positions, loopVars
  <1>2. IndexBuilt'
    <2>1. ASSUME NEW p \in Positions', file'.line[p].complete PROVE rs'[p] = file'.line[p].id
      BY <2>1, <1>r DEF Positions, read_record
    <2>2. program' = "indexed" => order' = [p \in Positions' |-> p]
      BY <1>r DEF Build, Positions
    <2>3. program' = "binsort" => order' \in qsort(rs')
      BY <1>r DEF Build
    <2> QED BY <2>1, <2>2, <2>3 DEF IndexBuilt, qsort, Bijections
  <1>3. SearchNarrows' /\ AnswerRight'
    BY <1>r DEF SearchNarrows, AnswerRight
  <1>4. TreeBuilt'
    <2>1. program' = "eytzinger" => \E o \in qsort(rs') : ey' = build_eytzinger(o, n')
      BY <1>r DEF Build
    <2>2. qsort(rs)' = qsort(rs')
      BY DEF qsort, Bijections
    <2> QED BY <2>1, <2>2 DEF TreeBuilt, build_eytzinger, visits
  <1>5. WalkNarrows'
    BY <1>r DEF WalkNarrows
  <1> QED BY <1>1, <1>2, <1>3, <1>4, <1>5

LEMMA QueryInv == ASSUME IdInv, Query PROVE IdInv'
  <1> USE DEF IdInv
  <1>1. IdTypeOK'
    BY FileShape DEF Query, IdTypeOK, Positions, indexVars
  <1>2. IndexBuilt'
    BY DEF Query, IndexBuilt, indexVars, Positions, IdTypeOK, qsort, Bijections
  <1>3. SearchNarrows'
    BY FileShape DEF Query, SearchNarrows, indexVars, Positions, IdTypeOK
  <1>4. AnswerRight'
    BY DEF Query, AnswerRight
  <1>5. TreeBuilt'
    BY TreeKept DEF Query
  <1>6. WalkNarrows'
    <2>1. n' \in Nat /\ k' = 1 /\ last' = 0
      BY <1>1, FileShape DEF Query, IdTypeOK
    <2>2. Narrowed(n', Keys', needle', k', last', 0)
      BY <2>1, NarrowStart
    <2> QED BY <2>2 DEF WalkNarrows
  <1> QED BY <1>1, <1>2, <1>3, <1>4, <1>5, <1>6

\* A search that ends with a record of the right id, or after looking at all
\* of them, is right about the file too.
LEMMA FoundRight ==
    ASSUME IdTypeOK, IndexBuilt, phase # "read", NEW r \in Positions, rs[r] = needle
    PROVE r \in 0..file.n - 1 /\ (file.line[r].complete => file.line[r].id = needle)
  BY DEF IdTypeOK, IndexBuilt, Positions

LEMMA AbsentRight ==
    ASSUME IdTypeOK, IndexBuilt, phase # "read", \A r \in Positions : rs[r] # needle
    PROVE \A p \in 0..file.n - 1 : file.line[p].complete => file.line[p].id # needle
  BY DEF IdTypeOK, IndexBuilt, Positions

LEMMA NaiveInv == ASSUME IdInv, lookup_naive PROVE IdInv'
  <1> USE DEF IdInv
  <1>f. n \in Nat /\ n = file.n
    BY FileShape DEF IdTypeOK, lookup_naive
  <1>u. /\ phase = "search" /\ program = "naive" /\ needle' = needle /\ UNCHANGED indexVars
        /\ low' = low /\ high' = high
    BY DEF lookup_naive
  <1>1. IdTypeOK'
    BY <1>u DEF lookup_naive, IdTypeOK, Positions, indexVars, Return
  <1>2. IndexBuilt'
    BY <1>u DEF IndexBuilt, indexVars, Positions, qsort, Bijections
  <1>3. SearchNarrows'
    BY <1>u, <1>f DEF lookup_naive, SearchNarrows, indexVars, Positions, IdTypeOK, Return
  <1>4. AnswerRight'
    <2>1. CASE i >= n /\ Return(NULL)
      <3>1. \A r \in Positions : rs[r] # needle
        BY <2>1, <1>u, <1>f DEF SearchNarrows, Positions, IdTypeOK
      <3> QED BY <3>1, <2>1, <1>u, AbsentRight DEF AnswerRight, Return, indexVars
    <2>2. CASE i < n /\ rs[i] = needle /\ Return(i)
      <3>1. i \in Positions
        BY <2>2, <1>f DEF Positions, IdTypeOK
      <3>2. i # NULL
        BY IdQueryAssumption DEF IdTypeOK
      <3> QED BY <3>1, <3>2, <2>2, <1>u, FoundRight DEF AnswerRight, Return, indexVars
    <2>3. CASE phase' = phase
      BY <2>3, <1>u DEF AnswerRight
    <2> QED BY <2>1, <2>2, <2>3 DEF lookup_naive
  <1>5. TreeBuilt' /\ WalkNarrows'
    BY <1>u, TreeKept DEF WalkNarrows, indexVars
  <1> QED BY <1>1, <1>2, <1>3, <1>4, <1>5

LEMMA IndexedInv == ASSUME IdInv, lookup_indexed PROVE IdInv'
  <1> USE DEF IdInv
  <1>f. n \in Nat /\ n = file.n
    BY FileShape DEF IdTypeOK, lookup_indexed
  <1>u. /\ phase = "search" /\ program = "indexed" /\ needle' = needle /\ UNCHANGED indexVars
        /\ low' = low /\ high' = high
    BY DEF lookup_indexed
  <1>o. \A p \in Positions : order[p] = p
    BY <1>u DEF IndexBuilt
  <1>i. i \in Nat /\ (i < n => i \in Positions /\ order[i] = i)
    BY <1>o, <1>f DEF IdTypeOK, Positions
  <1>1. IdTypeOK'
    BY <1>u DEF lookup_indexed, IdTypeOK, Positions, indexVars, Return
  <1>2. IndexBuilt'
    BY <1>u DEF IndexBuilt, indexVars, Positions, qsort, Bijections
  <1>3. SearchNarrows'
    BY <1>u, <1>f, <1>i DEF lookup_indexed, SearchNarrows, indexVars, Positions, IdTypeOK, Return
  <1>4. AnswerRight'
    <2>1. CASE i >= n /\ Return(NULL)
      <3>1. \A r \in Positions : rs[r] # needle
        BY <2>1, <1>u, <1>f DEF SearchNarrows, Positions, IdTypeOK
      <3> QED BY <3>1, <2>1, <1>u, AbsentRight DEF AnswerRight, Return, indexVars
    <2>2. CASE i < n /\ rs[order[i]] = needle /\ Return(order[i])
      <3>2. i # NULL
        BY IdQueryAssumption DEF IdTypeOK
      <3> QED BY <1>i, <3>2, <2>2, <1>u, FoundRight DEF AnswerRight, Return, indexVars
    <2>3. CASE phase' = phase
      BY <2>3, <1>u DEF AnswerRight
    <2> QED BY <2>1, <2>2, <2>3 DEF lookup_indexed
  <1>5. TreeBuilt' /\ WalkNarrows'
    BY <1>u, TreeKept DEF WalkNarrows, indexVars
  <1> QED BY <1>1, <1>2, <1>3, <1>4, <1>5

LEMMA BinaryInv == ASSUME IdInv, binary_lookup PROVE IdInv'
  <1> USE DEF IdInv
  <1>f. n \in Nat /\ n = file.n
    BY FileShape DEF IdTypeOK, binary_lookup
  <1>u. /\ phase = "search" /\ program = "binsort" /\ needle' = needle /\ UNCHANGED indexVars
        /\ i' = i
    BY DEF binary_lookup
  <1>t. low \in Nat /\ high \in Int /\ high < n /\ rs \in [Positions -> Ids] /\ needle \in Ids /\ Ids \subseteq Int
    BY <1>u, IdQueryAssumption DEF IdTypeOK, SearchNarrows
  <1>m. ASSUME low <= high PROVE midOf \in Positions /\ low <= midOf /\ midOf <= high
    BY <1>m, <1>f, <1>t DEF midOf, Positions
  <1>s. /\ order \in [Positions -> Positions]
        /\ \A x \in Positions : \E y \in Positions : order[y] = x
        /\ \A x, y \in Positions : x < y => rs[order[x]] <= rs[order[y]]
    <2>1. order \in qsort(rs) /\ DOMAIN rs = Positions
      BY <1>u, <1>t DEF IndexBuilt
    <2> QED BY <2>1, SortShape
  <1>v. \A x \in Positions : rs[order[x]] \in Int
    BY <1>s, <1>t
  <1>n. /\ \A p \in Positions : p < low => rs[order[p]] < needle
        /\ \A p \in Positions : p > high => rs[order[p]] > needle
    BY <1>u DEF SearchNarrows
  <1>1. IdTypeOK'
    <2>1. CASE UNCHANGED <<low, high>>
      BY <2>1, <1>u DEF binary_lookup, IdTypeOK, Positions, indexVars, Return
    <2>2. CASE low <= high /\ low' = midOf + 1 /\ UNCHANGED <<high, answer, phase>>
      BY <2>2, <1>m, <1>u DEF IdTypeOK, Positions, indexVars
    <2>3. CASE low <= high /\ high' = below(midOf) /\ UNCHANGED <<low, answer, phase>>
      BY <2>3, <1>m, <1>u DEF IdTypeOK, Positions, indexVars, below
    <2> QED BY <2>1, <2>2, <2>3 DEF binary_lookup
  <1>2. IndexBuilt'
    BY <1>u DEF IndexBuilt, indexVars, Positions, qsort, Bijections
  <1>3. SearchNarrows'
    <2>1. CASE phase' = "done"
      BY <2>1 DEF SearchNarrows
    <2>2. CASE low <= high /\ rs[order[midOf]] < needle /\ low' = midOf + 1 /\ UNCHANGED <<high, answer, phase>>
      <3>1. ASSUME NEW p \in Positions, p < midOf + 1 PROVE rs[order[p]] < needle
        <4>1. p <= midOf
          BY <3>1, <2>2, <1>m DEF Positions
        <4>m. midOf \in Positions
          BY <2>2, <1>m
        <4>2. rs[order[p]] <= rs[order[midOf]]
          <5>1. CASE p = midOf
            BY <5>1, <4>m, <1>v
          <5>2. CASE p < midOf
            BY <5>2, <4>m, <1>s, <1>v
          <5> QED BY <5>1, <5>2, <4>1, <4>m DEF Positions
        <4> QED BY <4>2, <2>2, <1>m, <1>v, <1>t
      <3>2. Positions' = Positions /\ rs' = rs /\ order' = order /\ n' = n /\ program' = program
        BY <1>u DEF indexVars, Positions
      <3>3. \A p \in Positions : p < low' => rs[order[p]] < needle
        BY <3>1, <2>2
      <3> QED BY <3>2, <3>3, <2>2, <1>u, <1>n, <1>t DEF SearchNarrows
    <2>3. CASE low <= high /\ rs[order[midOf]] > needle /\ high' = below(midOf) /\ UNCHANGED <<low, answer, phase>>
      <3>1. ASSUME NEW p \in Positions, p > midOf - 1 PROVE rs[order[p]] > needle
        <4>1. p >= midOf
          BY <3>1, <2>3, <1>m DEF Positions
        <4>m. midOf \in Positions
          BY <2>3, <1>m
        <4>2. rs[order[p]] >= rs[order[midOf]]
          <5>1. CASE p = midOf
            BY <5>1, <4>m, <1>v
          <5>2. CASE midOf < p
            BY <5>2, <4>m, <1>s, <1>v
          <5> QED BY <5>1, <5>2, <4>1, <4>m DEF Positions
        <4> QED BY <4>2, <2>3, <1>m, <1>v, <1>t
      <3>2. high' < n
        BY <2>3, <1>m, <1>t, <1>f DEF below, Positions
      <3>3. Positions' = Positions /\ rs' = rs /\ order' = order /\ n' = n /\ program' = program
        BY <1>u DEF indexVars, Positions
      <3>4. \A p \in Positions : p > high' => rs[order[p]] > needle
        BY <3>1, <2>3 DEF below
      <3> QED BY <3>2, <3>3, <3>4, <2>3, <1>u, <1>n, <1>t DEF SearchNarrows
    <2> QED BY <2>1, <2>2, <2>3 DEF binary_lookup, Return
  <1>4. AnswerRight'
    <2>1. CASE low > high /\ Return(NULL)
      <3>1. ASSUME NEW r \in Positions PROVE rs[r] # needle
        <4>1. PICK y \in Positions : order[y] = r
          BY <1>s
        <4>2. y < low \/ y > high
          BY <2>1, <1>t DEF Positions
        <4> QED BY <4>1, <4>2, <1>n, <1>v, <1>t
      <3> QED BY <3>1, <2>1, <1>u, AbsentRight DEF AnswerRight, Return, indexVars
    <2>2. CASE low <= high /\ rs[order[midOf]] = needle /\ Return(order[midOf])
      <3>1. order[midOf] \in Positions
        BY <2>2, <1>m, <1>s
      <3>2. order[midOf] # NULL
        BY <3>1, <1>f, IdQueryAssumption DEF Positions
      <3> QED BY <3>1, <3>2, <2>2, <1>u, FoundRight DEF AnswerRight, Return, indexVars
    <2>3. CASE phase' = phase
      BY <2>3, <1>u DEF AnswerRight
    <2> QED BY <2>1, <2>2, <2>3 DEF binary_lookup
  <1>5. TreeBuilt' /\ WalkNarrows'
    BY <1>u, TreeKept DEF WalkNarrows, indexVars
  <1> QED BY <1>1, <1>2, <1>3, <1>4, <1>5

LEMMA EytzingerInv == ASSUME IdInv, eytzinger_lookup PROVE IdInv'
  <1> USE DEF IdInv
  <1>u. /\ phase = "search" /\ program = "eytzinger" /\ needle' = needle /\ UNCHANGED indexVars
        /\ i' = i /\ low' = low /\ high' = high
    BY DEF eytzinger_lookup
  <1>t. /\ n \in Nat /\ SortedKeys(n, Keys)
        /\ \A y \in 1..n : ey[y] \in Positions /\ Keys[y] = rs[ey[y]]
        /\ \A r \in Positions : \E y \in 1..n : ey[y] = r
    BY <1>u, TreeKeys
  <1>n. needle \in Int
    BY <1>u, IdQueryAssumption DEF IdTypeOK
  <1>a. PICK a \in Nat : Narrowed(n, Keys, needle, k, last, a)
    BY <1>u DEF WalkNarrows
  <1>k. k \in Nodes /\ last \in Nat
    BY <1>a DEF Narrowed
  <1>p. Keys' = Keys /\ n' = n
    BY <1>u DEF Keys, indexVars
  <1>1. IdTypeOK'
    BY <1>u DEF eytzinger_lookup, IdTypeOK, Positions, indexVars, Return
  <1>2. IndexBuilt' /\ SearchNarrows'
    BY <1>u DEF IndexBuilt, SearchNarrows, indexVars, Positions, qsort, Bijections
  <1>3. TreeBuilt'
    BY <1>u, TreeKept
  <1>4. CASE k <= n /\ rs[ey[k]] >= needle /\ last' = k /\ k' = 2 * k /\ UNCHANGED <<answer, phase>>
    <2>1. k \in 1..n
      BY <1>4, <1>k, <1>t DEF Nodes
    <2>2. Keys[k] >= needle
      BY <2>1, <1>t, <1>4
    <2>3. Narrowed(n, Keys, needle, 2 * k, k, a)
      BY <2>2, <1>4, <1>a, <1>t, NarrowLeft
    <2>4. WalkNarrows'
      BY <2>3, <1>p, <1>u, <1>4 DEF WalkNarrows
    <2> QED BY <2>4, <1>1, <1>2, <1>3, <1>4, <1>u DEF AnswerRight
  <1>5. CASE k <= n /\ rs[ey[k]] < needle /\ k' = 2 * k + 1 /\ UNCHANGED <<last, answer, phase>>
    <2>1. k \in 1..n
      BY <1>5, <1>k, <1>t DEF Nodes
    <2>2. Keys[k] < needle
      BY <2>1, <1>t, <1>5
    <2>3. Narrowed(n, Keys, needle, 2 * k + 1, last, a + Size(n, 2 * k) + 1)
      BY <2>2, <1>5, <1>a, <1>t, <1>n, NarrowRight
    <2>4. a + Size(n, 2 * k) + 1 \in Nat
      BY <2>3 DEF Narrowed
    <2>5. WalkNarrows'
      BY <2>3, <2>4, <1>p, <1>u, <1>5 DEF WalkNarrows
    <2> QED BY <2>5, <1>1, <1>2, <1>3, <1>5, <1>u DEF AnswerRight
  <1>6. CASE /\ k > n
             /\ Return(IF last = 0 THEN NULL ELSE IF rs[ey[last]] # needle THEN NULL ELSE ey[last])
    <2>1. /\ last # 0 => last \in 1..n
          /\ last = 0 \/ Keys[last] # needle => \A y \in 1..n : Keys[y] # needle
      BY <1>6, <1>a, <1>t, <1>n, NarrowEnd
    <2>2. phase' = "done" /\ answer' = IF last = 0 THEN NULL ELSE IF rs[ey[last]] # needle THEN NULL ELSE ey[last]
      BY <1>6 DEF Return
    <2>3. WalkNarrows'
      BY <2>2 DEF WalkNarrows
    <2>4. CASE last # 0 /\ rs[ey[last]] = needle
      <3>1. ey[last] \in Positions /\ answer' = ey[last]
        BY <2>1, <2>2, <2>4, <1>t
      <3>2. ey[last] # NULL
        BY <3>1, <1>t, IdQueryAssumption DEF Positions
      <3>3. AnswerRight'
        BY <3>1, <3>2, <2>2, <2>4, <1>u, FoundRight DEF AnswerRight, indexVars
      <3> QED BY <3>3, <2>3, <1>1, <1>2, <1>3
    <2>5. CASE ~(last # 0 /\ rs[ey[last]] = needle)
      <3>1. answer' = NULL
        BY <2>2, <2>5
      <3>2. \A y \in 1..n : Keys[y] # needle
        BY <2>1, <2>5, <1>t
      <3>3. \A r \in Positions : rs[r] # needle
        BY <3>2, <1>t
      <3>4. AnswerRight'
        BY <3>1, <3>3, <2>2, <1>u, AbsentRight DEF AnswerRight, indexVars
      <3> QED BY <3>4, <2>3, <1>1, <1>2, <1>3
    <2> QED BY <2>4, <2>5
  <1> QED BY <1>4, <1>5, <1>6 DEF eytzinger_lookup

\* AnswerRight for every file, every one of the four programs and every
\* sequence of queries: the binary search keeps the needle between low and
\* high, with its midpoint inside the array, and the walk through the
\* eytzinger layout keeps the first id that is not below the needle either
\* under its node or at the last node where it turned left.
THEOREM LookupsRight == IdSpec => []AnswerRight
  <1>1. IdInv /\ [IdNext]_idVars => IdInv'
    <2> SUFFICES ASSUME IdInv, [IdNext]_idVars PROVE IdInv'
      OBVIOUS
    <2>1. CASE UNCHANGED idVars
      <3>1. IdTypeOK' /\ IndexBuilt' /\ SearchNarrows' /\ AnswerRight'
        BY <2>1 DEF idVars, indexVars, loopVars, IdInv, IdTypeOK, IndexBuilt, SearchNarrows,
                    AnswerRight, Positions, qsort, Bijections
      <3>2. TreeBuilt'
        BY <2>1, TreeKept DEF idVars, indexVars, IdInv, TreeBuilt
      <3>3. WalkNarrows'
        <4>1. Keys' = Keys
          BY <2>1 DEF idVars, indexVars, Keys
        <4> QED BY <2>1, <4>1 DEF idVars, indexVars, loopVars, IdInv, WalkNarrows
      <3> QED BY <3>1, <3>2, <3>3 DEF IdInv
    <2> QED BY <2>1, BuildInv, QueryInv, NaiveInv, IndexedInv, BinaryInv, EytzingerInv DEF IdNext
  <1>2. IdInv => AnswerRight
    BY DEF IdInv
  <1> QED BY <1>1, <1>2, IdInitInv, PTL DEF IdSpec

-----------------------------------------------------------------------------
LEMMA MinIs ==
    ASSUME NEW S, S \subseteq Nat, NEW x \in S, \A y \in S : x <= y
    PROVE Min(S) = x
  <1>1. ASSUME NEW y \in S, \A z \in S : y <= z PROVE y = x
    <2>1. y <= x /\ x <= y /\ x \in Nat /\ y \in Nat
      BY <1>1
    <2> QED BY <2>1
  <1> QED BY <1>1 DEF Min

LEMMA MinOf ==
    ASSUME NEW S, S \subseteq Nat, S # {}
    PROVE Min(S) \in S /\ \A y \in S : Min(S) <= y
  <1>1. PICK x \in S : \A y \in S : x <= y
    BY LeastId
  <1>2. Min(S) = x
    BY <1>1, MinIs
  <1> QED BY <1>1, <1>2

Byte == 0..255

LEMMA ByteRange ==
    ASSUME NEW x \in Byte
    PROVE x \in Nat /\ x <= 255
  BY DEF Byte

LEMMA Masks ==
    ASSUME NEW b \in Nat, b <= 255
    PROVE /\ b \div 128 = 0 <=> b <= 127
          /\ b \div 32 = 6 <=> 192 <= b /\ b <= 223
          /\ b \div 16 = 14 <=> 224 <= b /\ b <= 239
          /\ b \div 8 = 30 <=> 240 <= b /\ b <= 247
          /\ b \div 64 = 2 <=> 128 <= b /\ b <= 191
  OBVIOUS

\* The lead bytes of the reference, by the length of the character
LeadOf(b, len) ==
    \/ len = 1 /\ 1 <= b /\ b <= 126
    \/ len = 2 /\ 192 <= b /\ b <= 223
    \/ len = 3 /\ 224 <= b /\ b <= 239
    \/ len = 4 /\ 240 <= b /\ b <= 244

LEMMA AnnouncesIs ==
    ASSUME NEW b \in Nat, NEW len \in Nat \ {0}
    PROVE Announces(b, len - 1) <=> LeadOf(b, len)
  <1> DEFINE tail == len - 1
  <1>1. tail \in Nat /\ len = tail + 1
    OBVIOUS
  <1> HIDE DEF tail
  <1>2. Announces(b, tail) <=> \/ tail = 0 /\ 1 <= b /\ b <= 126
                               \/ tail = 1 /\ 192 <= b /\ b <= 223
                               \/ tail = 2 /\ 224 <= b /\ b <= 239
                               \/ tail = 3 /\ 240 <= b /\ b <= 244
    <2>1. CASE tail = 0
      BY <2>1 DEF Announces
    <2>2. CASE tail = 1
      BY <2>2 DEF Announces
    <2>3. CASE tail = 2
      BY <2>3 DEF Announces
    <2>4. CASE tail = 3
      BY <2>4 DEF Announces
    <2>5. CASE tail \notin {0, 1, 2, 3}
      BY <2>5 DEF Announces
    <2> QED BY <2>1, <2>2, <2>3, <2>4, <2>5
  <1>3. /\ tail = 0 <=> len = 1
        /\ tail = 1 <=> len = 2
        /\ tail = 2 <=> len = 3
        /\ tail = 3 <=> len = 4
    BY <1>1
  <1>4. Announces(b, tail) <=> LeadOf(b, len)
    BY <1>2, <1>3 DEF LeadOf
  <1> QED BY <1>4 DEF tail

\* A byte as a leading byte and as a continuation
LEMMA LeadingByte ==
    ASSUME NEW b \in Nat, b <= 255
    PROVE /\ utf8_seq_len(b) \in {-1, 1, 2, 3, 4}
          /\ utf8_seq_len(b) = 1 <=> b <= 127
          /\ utf8_seq_len(b) = 2 <=> 192 <= b /\ b <= 223
          /\ utf8_seq_len(b) = 3 <=> 224 <= b /\ b <= 239
          /\ utf8_seq_len(b) = 4 <=> 240 <= b /\ b <= 247
          /\ is_continuation(b) <=> 128 <= b /\ b <= 191
  <1> QED BY Masks DEF utf8_seq_len, is_continuation

\* What the loop tests at p, for a sequence of len bytes
Valid(t, p, len) ==
    /\ len = utf8_seq_len(t[p]) /\ len >= 1 /\ p + len - 1 <= Len(t)
    /\ is_valid_UTF8(SubSeq(t, p, p + len - 1), len)

\* A character of the reference from s to e - 1
Character(t, s, e) ==
    /\ Announces(t[s], e - s - 1)
    /\ \A q \in s + 1..e - 1 : t[q] \in 128..191

LEMMA ValidCharacter ==
    ASSUME NEW t \in Seq(Byte), NEW p \in 1..Len(t), NEW len \in Nat \ {0}, p + len <= Len(t) + 1
    PROVE Valid(t, p, len) <=> Character(t, p, p + len)
  <1> DEFINE u == SubSeq(t, p, p + len - 1)
  <1>1. PICK b \in Nat : b = t[p] /\ b <= 255
    <2>1. t[p] \in Byte
      OBVIOUS
    <2> QED BY <2>1, ByteRange
  <1>2. /\ u[1] = b
        /\ \A j \in 1..len : u[j] = t[p + j - 1]
    BY <1>1
  <1>3. \A j \in 1..len : p + j - 1 \in 1..Len(t) /\ t[p + j - 1] \in Byte
    OBVIOUS
  <1>4. (\A j \in 2..len : is_continuation(u[j])) <=> \A q \in p + 1..p + len - 1 : t[q] \in 128..191
    <2>1. ASSUME NEW j \in 2..len PROVE is_continuation(u[j]) <=> t[p + j - 1] \in 128..191
      <3>1. PICK c \in Nat : c = t[p + j - 1] /\ c <= 255
        <4>1. t[p + j - 1] \in Byte
          BY <1>3
        <4> QED BY <4>1, ByteRange
      <3>2. is_continuation(c) <=> 128 <= c /\ c <= 191
        BY <3>1, LeadingByte
      <3> HIDE DEF u
      <3>3. u[j] = t[p + j - 1]
        <4>1. j \in 1..len
          OBVIOUS
        <4> QED BY <4>1, <1>2
      <3>4. c \in 128..191 <=> 128 <= c /\ c <= 191
        OBVIOUS
      <3> QED BY <3>1, <3>2, <3>3, <3>4
    <2>2. ASSUME NEW q \in p + 1..p + len - 1 PROVE \E j \in 2..len : q = p + j - 1
      <3>1. q - p + 1 \in 2..len /\ q = p + (q - p + 1) - 1
        OBVIOUS
      <3> QED BY <3>1
    <2>3. \A j \in 2..len : p + j - 1 \in p + 1..p + len - 1
      OBVIOUS
    <2> HIDE DEF u
    <2> QED BY <2>1, <2>2, <2>3
  <1> DEFINE rest == \A q \in p + 1..p + len - 1 : t[q] \in 128..191
             leads == /\ b \notin {0, 127}
                      /\ \/ b \div 128 = 0 /\ len = 1
                         \/ b \div 32 = 6 /\ len = 2
                         \/ b \div 16 = 14 /\ len = 3
                         \/ b \div 8 = 30 /\ b <= 244 /\ len = 4
  <1>5. is_valid_UTF8(u, len) <=> leads /\ rest
    <2>1. len >= 1
      OBVIOUS
    <2> HIDE DEF u, rest
    <2> QED BY <1>2, <1>4, <2>1 DEF is_valid_UTF8, rest
  <1>6. len = utf8_seq_len(b) /\ leads <=> Announces(b, len - 1)
    <2> HIDE DEF u
    <2>1. /\ utf8_seq_len(b) = 1 <=> b <= 127
          /\ utf8_seq_len(b) = 2 <=> 192 <= b /\ b <= 223
          /\ utf8_seq_len(b) = 3 <=> 224 <= b /\ b <= 239
          /\ utf8_seq_len(b) = 4 <=> 240 <= b /\ b <= 247
      BY <1>1, LeadingByte, SMTT(30)
    <2>2. leads <=> /\ b # 0 /\ b # 127
                    /\ \/ b <= 127 /\ len = 1
                       \/ 192 <= b /\ b <= 223 /\ len = 2
                       \/ 224 <= b /\ b <= 239 /\ len = 3
                       \/ 240 <= b /\ b <= 247 /\ b <= 244 /\ len = 4
      <3>1. /\ b \div 128 = 0 <=> b <= 127
            /\ b \div 32 = 6 <=> 192 <= b /\ b <= 223
            /\ b \div 16 = 14 <=> 224 <= b /\ b <= 239
            /\ b \div 8 = 30 <=> 240 <= b /\ b <= 247
        BY <1>1, Masks, SMTT(40)
      <3> QED BY <3>1
    <2>3. Announces(b, len - 1) <=> LeadOf(b, len)
      BY AnnouncesIs
    <2> HIDE DEF leads
    <2> DEFINE sl == utf8_seq_len(b)
    <2>4. len = sl /\ leads <=> LeadOf(b, len)
      <3> HIDE DEF sl
      <3>1. /\ sl = 1 <=> b <= 127
            /\ sl = 2 <=> 192 <= b /\ b <= 223
            /\ sl = 3 <=> 224 <= b /\ b <= 239
            /\ sl = 4 <=> 240 <= b /\ b <= 247
        BY <2>1 DEF sl
      <3> QED BY <3>1, <2>2 DEF LeadOf
    <2> QED BY <2>3, <2>4
  <1>7. Character(t, p, p + len) <=> Announces(b, len - 1) /\ rest
    <2>1. (p + len) - p - 1 = len - 1
      OBVIOUS
    <2> HIDE DEF rest
    <2> QED BY <2>1, <1>1 DEF Character, rest
  <1>8. Valid(t, p, len) <=> len = utf8_seq_len(b) /\ is_valid_UTF8(u, len)
    <2>1. len >= 1 /\ p + len - 1 <= Len(t)
      OBVIOUS
    <2> QED BY <2>1, <1>1 DEF Valid
  <1> HIDE DEF u, rest, leads
  <1> QED BY <1>5, <1>6, <1>7, <1>8

-----------------------------------------------------------------------------
\* The characters that start at the places in starts reach from p to the end.
NextStart(t, starts, s) == Min({q \in starts : q > s} \cup {Len(t) + 1})
CutFrom(t, p, starts) ==
    /\ starts \subseteq p..Len(t) /\ p \in starts
    /\ \A s \in starts : Character(t, s, NextStart(t, starts, s))
Cuttable(t, p) == p > Len(t) \/ \E starts : CutFrom(t, p, starts)

LEMMA NextIs ==
    ASSUME NEW t \in Seq(Byte), NEW starts \in SUBSET (1..Len(t)), NEW s \in 1..Len(t)
    PROVE /\ NextStart(t, starts, s) \in {q \in starts : q > s} \cup {Len(t) + 1}
          /\ NextStart(t, starts, s) \in s + 1..Len(t) + 1
          /\ \A q \in starts : q > s => NextStart(t, starts, s) <= q
  <1> DEFINE S == {q \in starts : q > s} \cup {Len(t) + 1}
  <1>0. Len(t) \in Nat /\ s \in Nat /\ s <= Len(t) /\ \A q \in starts : q \in Nat /\ q <= Len(t)
    OBVIOUS
  <1>1. S # {} /\ \A q \in S : q \in Nat /\ q >= s + 1 /\ q <= Len(t) + 1
    <2> SUFFICES ASSUME NEW q \in S PROVE q \in Nat /\ q >= s + 1 /\ q <= Len(t) + 1
      OBVIOUS
    <2>1. CASE q = Len(t) + 1
      BY <2>1, <1>0
    <2>2. CASE q \in starts /\ q > s
      BY <2>2, <1>0
    <2> QED BY <2>1, <2>2
  <1>2. \A q \in starts : q > s => q \in S
    OBVIOUS
  <1> HIDE DEF S
  <1>3. Min(S) \in S /\ \A y \in S : Min(S) <= y
    <2>1. S \subseteq Nat
      BY <1>1
    <2> QED BY <2>1, <1>1, MinOf
  <1>4. Min(S) \in s + 1..Len(t) + 1
    <2>1. Min(S) \in Nat /\ Min(S) >= s + 1 /\ Min(S) <= Len(t) + 1
      BY <1>1, <1>3
    <2> QED BY <2>1, <1>0
  <1> QED BY <1>2, <1>3, <1>4 DEF S, NextStart

\* The first character of a cut is the one that the loop takes, and a cut of
\* the rest is left.
LEMMA CutHead ==
    ASSUME NEW t \in Seq(Byte), NEW p \in 1..Len(t), Cuttable(t, p)
    PROVE \E len \in Nat \ {0} : p + len <= Len(t) + 1 /\ Valid(t, p, len) /\ Cuttable(t, p + len)
  <1>1. PICK starts : CutFrom(t, p, starts)
    BY DEF Cuttable
  <1>2. starts \in SUBSET (1..Len(t)) /\ p \in starts /\ \A s \in starts : s >= p /\ s <= Len(t) /\ s \in Nat
    BY <1>1 DEF CutFrom
  <1> DEFINE e == NextStart(t, starts, p)
             rest == starts \ {p}
  <1>3. /\ e \in {q \in starts : q > p} \cup {Len(t) + 1}
        /\ e \in p + 1..Len(t) + 1
        /\ \A q \in starts : q > p => e <= q
    BY <1>2, NextIs
  <1>4. Character(t, p, e)
    BY <1>1, <1>2 DEF CutFrom
  <1> HIDE DEF e
  <1>5. PICK len \in Nat \ {0} : e = p + len /\ p + len <= Len(t) + 1
    <2>1. e - p \in Nat \ {0} /\ e = p + (e - p) /\ p + (e - p) <= Len(t) + 1
      BY <1>3
    <2> QED BY <2>1
  <1>6. Valid(t, p, len)
    BY <1>4, <1>5, ValidCharacter
  <1>7. Cuttable(t, e)
    <2>1. CASE e = Len(t) + 1
      BY <2>1 DEF Cuttable
    <2>2. CASE e # Len(t) + 1
      <3>1. e \in starts /\ e > p
        BY <2>2, <1>3
      <3>2. rest \subseteq e..Len(t) /\ e \in rest
        BY <3>1, <1>2, <1>3
      <3>3. ASSUME NEW s \in rest PROVE Character(t, s, NextStart(t, rest, s))
        <4>1. s > p /\ s \in starts
          BY <3>2, <1>2, <1>3
        <4>2. {q \in rest : q > s} = {q \in starts : q > s}
          BY <4>1, <1>2
        <4>3. NextStart(t, rest, s) = NextStart(t, starts, s)
          BY <4>2 DEF NextStart
        <4> QED BY <4>1, <4>3, <1>1 DEF CutFrom
      <3>4. CutFrom(t, e, rest)
        <4> HIDE DEF rest
        <4> QED BY <3>2, <3>3 DEF CutFrom
      <3> QED BY <3>4 DEF Cuttable
    <2> QED BY <2>1, <2>2
  <1> QED BY <1>5, <1>6, <1>7

LEMMA CutTail ==
    ASSUME NEW t \in Seq(Byte), NEW p \in 1..Len(t), NEW len \in Nat \ {0}, p + len <= Len(t) + 1,
           Valid(t, p, len), Cuttable(t, p + len)
    PROVE Cuttable(t, p)
  <1> DEFINE e == p + len
  <1>1. e \in Nat /\ e > p /\ e <= Len(t) + 1
    OBVIOUS
  <1>2. Character(t, p, e)
    BY ValidCharacter
  <1>3. Cuttable(t, e)
    OBVIOUS
  <1> HIDE DEF e
  <1>4. PICK after : /\ after \subseteq e..Len(t)
                     /\ \A s \in after : Character(t, s, NextStart(t, after, s))
                     /\ e \in after \/ (after = {} /\ e = Len(t) + 1)
    <2>1. CASE e > Len(t)
      <3>1. e = Len(t) + 1
        BY <2>1, <1>1
      <3> WITNESS {}
      <3> QED BY <3>1
    <2>2. CASE ~(e > Len(t))
      <3>1. PICK after : CutFrom(t, e, after)
        BY <2>2, <1>3 DEF Cuttable
      <3> WITNESS after
      <3> QED BY <3>1 DEF CutFrom
    <2> QED BY <2>1, <2>2
  <1> DEFINE starts == after \cup {p}
  <1>5. \A q \in after : q \in Nat /\ q >= e /\ q > p /\ q <= Len(t)
    BY <1>1, <1>4
  <1>6. starts \subseteq p..Len(t) /\ p \in starts
    BY <1>5
  <1>7. ASSUME NEW s \in starts PROVE Character(t, s, NextStart(t, starts, s))
    <2>1. CASE s = p
      <3> DEFINE S == {q \in starts : q > s} \cup {Len(t) + 1}
      <3>0. p \in Nat /\ Len(t) \in Nat
        OBVIOUS
      <3>1. S = after \cup {Len(t) + 1}
        <4>1. {q \in starts : q > s} = after
          <5>1. ASSUME NEW q \in after PROVE q \in starts /\ q > s
            BY <2>1, <1>5
          <5>2. ASSUME NEW q \in starts, q > s PROVE q \in after
            <6>1. q # p
              BY <5>2, <2>1, <3>0
            <6> QED BY <6>1
          <5> HIDE DEF starts
          <5> QED BY <5>1, <5>2
        <4> QED BY <4>1
      <3>2. e \in S /\ S \subseteq Nat /\ \A y \in S : e <= y
        <4> HIDE DEF S
        <4>1. e \in S
          BY <3>1, <1>4
        <4>2. ASSUME NEW y \in S PROVE y \in Nat /\ e <= y
          <5>1. CASE y \in after
            BY <5>1, <1>5, <1>1
          <5>2. CASE y = Len(t) + 1
            BY <5>2, <1>1, <3>0
          <5> QED BY <5>1, <5>2, <3>1
        <4> QED BY <4>1, <4>2
      <3> HIDE DEF S
      <3>3. Min(S) = e
        BY <3>2, MinIs
      <3> QED BY <3>3, <2>1, <1>2 DEF NextStart, S
    <2>2. CASE s # p
      <3>1. s \in after
        BY <2>2
      <3>2. {q \in starts : q > s} = {q \in after : q > s}
        BY <3>1, <1>5
      <3>3. NextStart(t, starts, s) = NextStart(t, after, s)
        BY <3>2 DEF NextStart
      <3> QED BY <3>1, <3>3, <1>4
    <2> QED BY <2>1, <2>2
  <1>8. CutFrom(t, p, starts)
    <2> HIDE DEF starts
    <2> QED BY <1>6, <1>7 DEF CutFrom
  <1> QED BY <1>8 DEF Cuttable

\* A text of characters, well-formed or not
Patterned(t) == \E starts \in SUBSET (1..Len(t)) : CutAt(t, starts)

LEMMA CutWhole ==
    ASSUME NEW t \in Seq(Byte), Len(t) >= 1
    PROVE Patterned(t) <=> Cuttable(t, 1)
  <1>1. Cuttable(t, 1) <=> \E starts : CutFrom(t, 1, starts)
    BY DEF Cuttable
  <1>2. ASSUME NEW starts \in SUBSET (1..Len(t)) PROVE CutAt(t, starts) <=> CutFrom(t, 1, starts)
    BY DEF CutAt, CutFrom, Character, NextStart
  <1>3. \A starts : CutFrom(t, 1, starts) => starts \in SUBSET (1..Len(t))
    BY DEF CutFrom
  <1> QED BY <1>1, <1>2, <1>3 DEF Patterned

\* The recursion of the loop, and its solution
LoopBody(g, t, p) ==
    IF p > Len(t) THEN TRUE
    ELSE LET len == utf8_seq_len(t[p]) IN
         /\ len >= 1 /\ p + len - 1 <= Len(t)
         /\ is_valid_UTF8(SubSeq(t, p, p + len - 1), len)
         /\ g[p + len]
LoopEq(g, t) == g = [p \in 1..Len(t) + 1 |-> LoopBody(g, t, p)]
Loop(t) == CHOOSE g : LoopEq(g, t)

LEMMA LoopIs ==
    ASSUME NEW t
    PROVE utf8_from(t) = Loop(t)
  BY DEF utf8_from, Loop, LoopEq, LoopBody

LEMMA BodyIs ==
    ASSUME NEW t \in Seq(Byte), NEW p \in 1..Len(t), NEW g
    PROVE LoopBody(g, t, p) <=>
            \E len \in Nat \ {0} : p + len <= Len(t) + 1 /\ Valid(t, p, len) /\ g[p + len]
  <1> DEFINE sl == utf8_seq_len(t[p])
  <1>1. sl \in Int
    <2>1. t[p] \in Byte
      OBVIOUS
    <2>2. t[p] \in Nat /\ t[p] <= 255
      BY <2>1, ByteRange
    <2>3. sl \in {-1, 1, 2, 3, 4}
      BY <2>2, LeadingByte
    <2> QED BY <2>3
  <1>2. LoopBody(g, t, p) <=> /\ sl >= 1 /\ p + sl - 1 <= Len(t)
                              /\ is_valid_UTF8(SubSeq(t, p, p + sl - 1), sl)
                              /\ g[p + sl]
    <2>1. ~(p > Len(t))
      OBVIOUS
    <2> QED BY <2>1 DEF LoopBody
  <1> HIDE DEF sl
  <1>3. ASSUME LoopBody(g, t, p)
        PROVE \E len \in Nat \ {0} : p + len <= Len(t) + 1 /\ Valid(t, p, len) /\ g[p + len]
    <2>1. sl \in Nat \ {0} /\ p + sl <= Len(t) + 1
      BY <1>1, <1>2, <1>3
    <2>2. Valid(t, p, sl)
      BY <1>2, <1>3 DEF Valid, sl
    <2> QED BY <2>1, <2>2, <1>2, <1>3
  <1>4. ASSUME NEW len \in Nat \ {0}, Valid(t, p, len), g[p + len] PROVE LoopBody(g, t, p)
    <2>1. len = sl
      BY <1>4 DEF Valid, sl
    <2> QED BY <2>1, <1>2, <1>4 DEF Valid
  <1> QED BY <1>3, <1>4

LEMMA LoopExists ==
    ASSUME NEW t \in Seq(Byte)
    PROVE \E g : LoopEq(g, t)
  <1> DEFINE g == [p \in 1..Len(t) + 1 |-> Cuttable(t, p)]
  <1>1. ASSUME NEW p \in 1..Len(t) + 1 PROVE LoopBody(g, t, p) <=> Cuttable(t, p)
    <2>1. CASE p > Len(t)
      BY <2>1 DEF LoopBody, Cuttable
    <2>2. CASE ~(p > Len(t))
      <3>1. p \in 1..Len(t)
        BY <2>2
      <3>2. \A len \in Nat \ {0} : p + len <= Len(t) + 1 => (g[p + len] <=> Cuttable(t, p + len))
        OBVIOUS
      <3> HIDE DEF g
      <3>3. LoopBody(g, t, p) <=>
              \E len \in Nat \ {0} : p + len <= Len(t) + 1 /\ Valid(t, p, len) /\ g[p + len]
        BY <3>1, BodyIs
      <3> QED BY <3>1, <3>2, <3>3, CutHead, CutTail
    <2> QED BY <2>1, <2>2
  <1>2. \A p \in 1..Len(t) + 1 : LoopBody(g, t, p) \in BOOLEAN /\ Cuttable(t, p) \in BOOLEAN
    BY DEF LoopBody, Cuttable
  <1>3. LoopEq(g, t)
    BY <1>1, <1>2 DEF LoopEq
  <1> QED BY <1>3

\* The loop recognises the texts that can be cut.
LEMMA LoopRight ==
    ASSUME NEW t \in Seq(Byte), NEW g, LoopEq(g, t)
    PROVE \A p \in 1..Len(t) + 1 : g[p] <=> Cuttable(t, p)
  <1> DEFINE Q == {m \in Nat : \A p \in 1..Len(t) + 1 : p + m = Len(t) + 1 => (g[p] <=> Cuttable(t, p))}
  <1>1. ASSUME NEW m \in Nat, \A l \in Nat : l < m => l \in Q PROVE m \in Q
    <2> SUFFICES ASSUME NEW p \in 1..Len(t) + 1, p + m = Len(t) + 1 PROVE g[p] <=> Cuttable(t, p)
      OBVIOUS
    <2>1. g[p] <=> LoopBody(g, t, p)
      BY DEF LoopEq
    <2>2. CASE p > Len(t)
      BY <2>1, <2>2 DEF LoopBody, Cuttable
    <2>3. CASE ~(p > Len(t))
      <3>1. p \in 1..Len(t)
        BY <2>3
      <3>2. ASSUME NEW len \in Nat \ {0}, p + len <= Len(t) + 1 PROVE g[p + len] <=> Cuttable(t, p + len)
        <4>1. m - len \in Nat /\ m - len < m /\ p + len \in 1..Len(t) + 1 /\ (p + len) + (m - len) = Len(t) + 1
          BY <3>2
        <4>2. m - len \in Q
          BY <4>1, <1>1
        <4> QED BY <4>1, <4>2
      <3> HIDE DEF Q
      <3>3. LoopBody(g, t, p) <=>
              \E len \in Nat \ {0} : p + len <= Len(t) + 1 /\ Valid(t, p, len) /\ g[p + len]
        BY <3>1, BodyIs
      <3> QED BY <2>1, <3>1, <3>2, <3>3, CutHead, CutTail
    <2> QED BY <2>2, <2>3
  <1>2. Nat \subseteq Q
    <2> HIDE DEF Q
    <2> QED BY <1>1, StrongInduct
  <1> SUFFICES ASSUME NEW p \in 1..Len(t) + 1 PROVE g[p] <=> Cuttable(t, p)
    OBVIOUS
  <1>3. Len(t) + 1 - p \in Nat /\ p + (Len(t) + 1 - p) = Len(t) + 1
    OBVIOUS
  <1> QED BY <1>2, <1>3

LEMMA Utf8Right ==
    ASSUME NEW t \in Seq(Byte), Len(t) >= 1
    PROVE utf8_from(t)[1] <=> Patterned(t)
  <1>1. LoopEq(Loop(t), t)
    BY LoopExists DEF Loop
  <1>2. 1 \in 1..Len(t) + 1
    OBVIOUS
  <1>3. Loop(t)[1] <=> Cuttable(t, 1)
    BY <1>1, <1>2, LoopRight
  <1> QED BY <1>3, LoopIs, CutWhole

\* Leading bytes whose second byte has limits of its own
Limited == {224, 237, 240, 244}

\* A cut text has a start at every byte that is no continuation, and nowhere
\* else; so it is cut in one way.
LEMMA StartsAre ==
    ASSUME NEW t \in Seq(Byte), NEW starts \in SUBSET (1..Len(t)), CutAt(t, starts)
    PROVE /\ \A p \in 1..Len(t) : p \in starts <=> t[p] \notin 128..191
          /\ \A s \in starts : t[s] \in Limited => s + 1 \in 1..Len(t)
  <1>1. ASSUME NEW s \in starts
        PROVE /\ NextStart(t, starts, s) \in {q \in starts : q > s} \cup {Len(t) + 1}
              /\ NextStart(t, starts, s) \in s + 1..Len(t) + 1
              /\ Announces(t[s], NextStart(t, starts, s) - s - 1)
              /\ \A q \in s + 1..NextStart(t, starts, s) - 1 : t[q] \in 128..191
    <2>1. s \in 1..Len(t)
      OBVIOUS
    <2>2. /\ NextStart(t, starts, s) \in {q \in starts : q > s} \cup {Len(t) + 1}
          /\ NextStart(t, starts, s) \in s + 1..Len(t) + 1
      BY <2>1, NextIs
    <2>3. /\ Announces(t[s], NextStart(t, starts, s) - s - 1)
          /\ \A q \in s + 1..NextStart(t, starts, s) - 1 : t[q] \in 128..191
      BY Zenon DEF CutAt, NextStart
    <2> QED BY <2>2, <2>3
  <1>2. ASSUME NEW s \in starts
        PROVE t[s] \notin 128..191 /\ (t[s] \in Limited => s + 1 \in 1..Len(t))
    <2>1. PICK b \in Nat : b = t[s]
      <3>1. t[s] \in Byte
        OBVIOUS
      <3> QED BY <3>1, ByteRange
    <2>2. PICK len \in Nat \ {0} : NextStart(t, starts, s) = s + len /\ s + len <= Len(t) + 1
      <3> DEFINE e == NextStart(t, starts, s)
      <3>1. e \in s + 1..Len(t) + 1
        BY <1>1
      <3> HIDE DEF e
      <3>2. e - s \in Nat \ {0} /\ e = s + (e - s) /\ s + (e - s) <= Len(t) + 1
        BY <3>1
      <3> QED BY <3>2 DEF e
    <2>3. Announces(b, len - 1)
      <3>1. (s + len) - s - 1 = len - 1
        OBVIOUS
      <3> QED BY <1>1, <2>1, <2>2, <3>1
    <2>4. LeadOf(b, len)
      BY <2>3, AnnouncesIs
    <2>5. b \notin 128..191 /\ (b \in Limited => len >= 2)
      BY <2>4 DEF LeadOf, Limited
    <2> QED BY <2>1, <2>2, <2>5
  <1>3. ASSUME NEW p \in 1..Len(t), p \notin starts PROVE t[p] \in 128..191
    <2> DEFINE B == {p - s : s \in {q \in starts : q < p}}
    <2>1. B \subseteq Nat /\ p - 1 \in B
      <3>1. 1 \in starts /\ 1 < p
        BY <1>3 DEF CutAt
      <3> QED BY <3>1
    <2> HIDE DEF B
    <2>2. PICK d \in B : \A c \in B : d <= c
      BY <2>1, LeastId
    <2>3. PICK s \in starts : s < p /\ d = p - s
      BY DEF B
    <2> DEFINE e == NextStart(t, starts, s)
    <2>4. /\ e \in {q \in starts : q > s} \cup {Len(t) + 1} /\ e \in s + 1..Len(t) + 1
          /\ \A q \in s + 1..e - 1 : t[q] \in 128..191
      BY <1>1
    <2> HIDE DEF e
    <2>5. e > p
      <3> SUFFICES ASSUME e <= p PROVE FALSE
        BY <2>4
      <3>1. e \in starts /\ e > s /\ e < p
        BY <2>4, <1>3
      <3>2. p - e \in B
        BY <3>1 DEF B
      <3>3. p - e < p - s
        <4>1. e \in Nat /\ s \in Nat /\ p \in Nat
          BY <3>1
        <4> QED BY <4>1, <3>1
      <3>4. p - s <= p - e
        BY <3>2, <2>2, <2>3
      <3>5. p - e \in Int /\ p - s \in Int
        BY <3>1
      <3> QED BY <3>3, <3>4, <3>5
    <2>6. p \in s + 1..e - 1
      <3>1. s \in Nat /\ p \in Nat
        OBVIOUS
      <3>2. e \in Nat
        BY <2>4
      <3>3. s < p /\ p < e
        BY <2>3, <2>5
      <3> QED BY <3>1, <3>2, <3>3
    <2> QED BY <2>4, <2>6
  <1>4. \A p \in 1..Len(t) : p \in starts => t[p] \notin 128..191
    BY <1>2, Zenon
  <1>5. \A s \in starts : t[s] \in Limited => s + 1 \in 1..Len(t)
    <2> TAKE s \in starts
    <2> QED BY <1>2
  <1>6. \A p \in 1..Len(t) : p \notin starts => t[p] \in 128..191
    BY <1>3, Zenon
  <1> QED BY <1>4, <1>5, <1>6, Zenon

LEMMA SecondByte ==
    ASSUME NEW t \in Seq(Byte), NEW starts \in SUBSET (1..Len(t)), CutAt(t, starts),
           NEW s \in starts, t[s] \in Limited
    PROVE s + 1 \in 1..Len(t)
  <1>1. \A r \in starts : t[r] \in Limited => r + 1 \in 1..Len(t)
    BY StartsAre
  <1> QED BY <1>1

\* What is well-formed in a longer text is so in the part of it that is cut.
LEMMA PrefixWellFormed ==
    ASSUME NEW f \in Seq(Byte), NEW m \in Nat, NEW stop \in Nat, m <= stop, stop <= Len(f),
           NEW S \in SUBSET (1..Len(SubSeq(f, 1, m))), CutAt(SubSeq(f, 1, m), S),
           Utf8Text(SubSeq(f, 1, stop))
    PROVE \A s \in S : WellFormed(SubSeq(f, 1, m), s)
  <1> DEFINE t == SubSeq(f, 1, m)
             u == SubSeq(f, 1, stop)
  <1>1. /\ t \in Seq(Byte) /\ Len(t) = m /\ \A p \in 1..m : t[p] = f[p]
        /\ u \in Seq(Byte) /\ Len(u) = stop /\ \A p \in 1..stop : u[p] = f[p]
    OBVIOUS
  <1>2. PICK R \in SUBSET (1..Len(u)) : CutAt(u, R) /\ \A s \in R : WellFormed(u, s)
    BY DEF Utf8Text
  <1>3. S \in SUBSET (1..Len(t)) /\ CutAt(t, S)
    OBVIOUS
  <1> HIDE DEF t, u
  <1> SUFFICES ASSUME NEW s \in S PROVE WellFormed(t, s)
    BY DEF t
  <1>4. s \in 1..m /\ s \in 1..stop /\ t[s] = u[s] /\ t[s] \notin 128..191
    <2>1. s \in 1..m /\ s \in 1..stop
      BY <1>1, <1>3
    <2>2. t[s] \notin 128..191
      BY <1>1, <1>3, StartsAre
    <2> QED BY <2>1, <2>2, <1>1
  <1>5. s \in R
    BY <1>1, <1>2, <1>4, StartsAre
  <1>6. t[s] \in Limited => t[s + 1] = u[s + 1]
    <2>1. t[s] \in Limited => s + 1 \in 1..m
      <3>1. t \in Seq(Byte) /\ Len(t) = m
        BY <1>1
      <3>2. ASSUME t[s] \in Limited PROVE s + 1 \in 1..Len(t)
        BY <3>1, <3>2, <1>3, SecondByte
      <3> QED BY <3>1, <3>2
    <2>2. s + 1 \in 1..m => t[s + 1] = f[s + 1] /\ u[s + 1] = f[s + 1]
      <3>1. \A x \in 1..m : x \in 1..stop
        OBVIOUS
      <3>2. \A x \in 1..m : t[x] = f[x]
        BY <1>1
      <3>3. \A x \in 1..stop : u[x] = f[x]
        BY <1>1
      <3> QED BY <3>1, <3>2, <3>3
    <2> QED BY <2>1, <2>2
  <1>7. WellFormed(u, s)
    BY <1>2, <1>5
  <1>8. CASE t[s] \in Limited
    <2> DEFINE Fine(x, y) ==
          /\ x \notin {192, 193} /\ (x = 224 => y >= 160) /\ (x = 237 => y <= 159)
          /\ (x = 240 => y >= 144) /\ (x = 244 => y <= 143)
    <2>1. t[s] = u[s] /\ t[s + 1] = u[s + 1]
      BY <1>4, <1>6, <1>8
    <2>2. Fine(u[s], u[s + 1])
      BY <1>7 DEF WellFormed
    <2>3. Fine(t[s], t[s + 1]) => WellFormed(t, s)
      BY DEF WellFormed
    <2> HIDE DEF Fine
    <2> QED BY <2>1, <2>2, <2>3
  <1>9. CASE t[s] \notin Limited
    <2>1. t[s] \notin {192, 193}
      BY <1>4, <1>7, Zenon DEF WellFormed
    <2>2. t[s] # 224 /\ t[s] # 237 /\ t[s] # 240 /\ t[s] # 244
      BY <1>9 DEF Limited
    <2> QED BY <2>1, <2>2, Zenon DEF WellFormed
  <1> QED BY <1>8, <1>9

LEMMA AsciiRight ==
    ASSUME NEW b \in Nat, b <= 255
    PROVE is_ascii_allowed(b) <=> AsciiByte(b)
  BY DEF is_ascii_allowed, AsciiByte

\* The classes of every file of bytes
LEMMA TypeRight ==
    ASSUME NEW f \in Seq(Byte)
    PROVE RightType(f)
  <1> DEFINE t == Read(f)
             m == Min({BUF, Len(f)})
  <1>1. m \in Nat /\ m <= Len(f)
    <2>1. {BUF, Len(f)} \subseteq Nat /\ {BUF, Len(f)} # {} /\ Len(f) \in {BUF, Len(f)}
      BY BufAssumption
    <2> QED BY <2>1, MinOf
  <1>2. t \in Seq(Byte)
    <2> HIDE DEF m
    <2>1. t = SubSeq(f, 1, m)
      BY DEF m, Read
    <2>2. 1 \in 1..Len(f) + 1 /\ m \in 1 - 1..Len(f)
      BY <1>1
    <2>3. SubSeq(f, 1, m) \in Seq(Byte)
      BY <2>2, SubSeqProperties
    <2> QED BY <2>1, <2>3
  <1>3. fread(f) = t
    BY DEF fread, Read
  <1> HIDE DEF t
  <1>4. Len(t) \in Nat /\ (Len(t) < 1 <=> t = <<>>)
    BY <1>2
  <1>5. \A p \in 1..Len(t) : t[p] \in Nat /\ t[p] <= 255 /\ (is_ascii_allowed(t[p]) <=> AsciiByte(t[p]))
    <2> SUFFICES ASSUME NEW p \in 1..Len(t)
                 PROVE t[p] \in Nat /\ t[p] <= 255 /\ (is_ascii_allowed(t[p]) <=> AsciiByte(t[p]))
      OBVIOUS
    <2>1. t[p] \in Byte
      BY <1>2
    <2>2. t[p] \in Nat /\ t[p] <= 255
      BY <2>1, ByteRange
    <2> QED BY <2>2, AsciiRight
  <1>6. is_ascii(t) <=> \A p \in 1..Len(t) : AsciiByte(t[p])
    BY <1>5 DEF is_ascii
  <1>7. \A p \in 1..Len(t) : t[p] >= 160 <=> t[p] \in 160..255
    <2> SUFFICES ASSUME NEW p \in 1..Len(t) PROVE t[p] >= 160 <=> t[p] \in 160..255
      OBVIOUS
    <2>1. PICK b \in Nat : b = t[p] /\ b <= 255
      <3>1. t[p] \in Byte
        BY <1>2
      <3> QED BY <3>1, ByteRange
    <2>2. b <= 255
      BY <2>1
    <2>3. b >= 160 <=> b \in 160..255
      BY <2>2
    <2> QED BY <2>1, <2>3
  <1>8. is_iso8859(t) <=> \A p \in 1..Len(t) : AsciiByte(t[p]) \/ t[p] \in 160..255
    BY <1>5, <1>7, ZenonT(30) DEF is_iso8859
  <1>9. Len(t) >= 1 => (utf8_from(t)[1] <=> Patterned(t))
    BY <1>2, Utf8Right
  <1>10. classify(f) = IF t = <<>> THEN "empty"
                       ELSE IF \A p \in 1..Len(t) : AsciiByte(t[p]) THEN "ASCII"
                       ELSE IF \A p \in 1..Len(t) : AsciiByte(t[p]) \/ t[p] \in 160..255 THEN "ISO-8859"
                       ELSE IF Patterned(t) THEN "UTF-8"
                       ELSE "data"
    <2>1. classify(f) = IF Len(t) < 1 THEN "empty" ELSE IF is_ascii(t) THEN "ASCII"
                        ELSE IF is_iso8859(t) THEN "ISO-8859" ELSE IF utf8_from(t)[1] THEN "UTF-8" ELSE "data"
      BY <1>3 DEF classify
    <2>2. CASE t = <<>>
      BY <2>1, <2>2, <1>4
    <2>3. CASE t # <<>>
      <3>1. ~(Len(t) < 1) /\ (utf8_from(t)[1] <=> Patterned(t))
        BY <2>3, <1>4, <1>9
      <3> QED BY <2>1, <2>3, <3>1, <1>6, <1>8
    <2> QED BY <2>2, <2>3
  <1> DEFINE A == \A p \in 1..Len(t) : AsciiByte(t[p])
             O == \A p \in 1..Len(t) : AsciiByte(t[p]) \/ t[p] \in 160..255
  <1>11. /\ A <=> ~ \E p \in 1..Len(t) : ~AsciiByte(t[p])
         /\ O <=> ~ \E p \in 1..Len(t) : ~AsciiByte(t[p]) /\ t[p] \notin 160..255
         /\ A => O
         /\ t = <<>> => A
    <2>1. t = <<>> => 1..Len(t) = {}
      BY <1>4
    <2> QED BY <2>1
  <1>12. /\ classify(f) = "UTF-8" <=> t # <<>> /\ ~O /\ Patterned(t)
         /\ classify(f) = "data" <=> t # <<>> /\ ~O /\ ~Patterned(t)
         /\ ~(t # <<>> /\ ~O) => classify(f) = IF t = <<>> THEN "empty" ELSE IF A THEN "ASCII" ELSE "ISO-8859"
    <2>1. classify(f) = IF t = <<>> THEN "empty" ELSE IF A THEN "ASCII" ELSE IF O THEN "ISO-8859"
                        ELSE IF Patterned(t) THEN "UTF-8" ELSE "data"
      BY <1>10
    <2>2. (A => O) /\ (t = <<>> => A)
      BY <1>11
    <2> HIDE DEF A, O
    <2> QED BY <2>1, <2>2
  <1>13. /\ t # <<>> /\ ~O => Class(f) = IF IsUtf8(f) THEN "UTF-8" ELSE "data"
         /\ ~(t # <<>> /\ ~O) => Class(f) = IF t = <<>> THEN "empty" ELSE IF A THEN "ASCII" ELSE "ISO-8859"
    <2>1. (IsAscii(Read(f)) <=> A) /\ (IsIso(Read(f)) <=> O) /\ (Read(f) = <<>> <=> t = <<>>)
      BY DEF IsAscii, IsIso, t
    <2>2. (A => O) /\ (t = <<>> => A)
      BY <1>11
    <2> HIDE DEF A, O
    <2> QED BY <2>1, <2>2 DEF Class
  <1>14. /\ Misjudged(f) <=> t # <<>> /\ ~O /\ (IllFormed(t) \/ CutByBuffer(f))
         /\ CutByBuffer(f) <=> ~Utf8Text(t) /\ \E stop \in Beyond(f) : Utf8Text(SubSeq(f, 1, stop))
         /\ IsUtf8(f) <=> Utf8Text(t) \/ \E stop \in Beyond(f) : Utf8Text(SubSeq(f, 1, stop))
    BY DEF Misjudged, CutByBuffer, IsUtf8, IsIso, Continued, t
  <1>15. Utf8Text(t) => Patterned(t)
    BY DEF Utf8Text, Patterned
  <1>16. ASSUME NEW stop \in Nat, m <= stop, stop <= Len(f), Utf8Text(SubSeq(f, 1, stop)), Patterned(t)
         PROVE Utf8Text(t) /\ ~IllFormed(t)
    <2>1. t = SubSeq(f, 1, m)
      BY DEF m, Read, t
    <2> HIDE DEF m
    <2>2. ASSUME NEW S \in SUBSET (1..Len(t)), CutAt(t, S) PROVE \A s \in S : WellFormed(t, s)
      BY <1>1, <1>16, <2>1, <2>2, PrefixWellFormed
    <2> QED BY <1>16, <2>2 DEF Utf8Text, IllFormed, Patterned
  <1>17. Utf8Text(t) => ~IllFormed(t)
    <2>1. t = SubSeq(f, 1, m) /\ m <= m
      BY <1>1 DEF Read, t
    <2> HIDE DEF m
    <2> QED BY <1>1, <1>15, <1>16, <2>1
  <1>18. \A stop \in Beyond(f) : stop \in Nat /\ m <= stop /\ stop <= Len(f)
    <2>1. Len(t) = m
      <3>1. t = SubSeq(f, 1, m)
        BY DEF m, Read, t
      <3> HIDE DEF m
      <3> QED BY <3>1, <1>1
    <2>2. Beyond(f) = (m + 1..m + 3) \cap 1..Len(f)
      BY <2>1 DEF Beyond, t
    <2> HIDE DEF m
    <2> QED BY <2>2, <1>1
  <1>19. Patterned(t) /\ ~IllFormed(t) => Utf8Text(t)
    BY DEF Patterned, IllFormed, Utf8Text
  <1>20. CASE ~(t # <<>> /\ ~O)
    <2>1. classify(f) = Class(f) /\ ~Misjudged(f)
      <3> HIDE DEF A, O
      <3> QED BY <1>12, <1>13, <1>14, <1>20
    <2> QED BY <2>1 DEF RightType
  <1>21. CASE t # <<>> /\ ~O
    <2>1. /\ classify(f) = IF Patterned(t) THEN "UTF-8" ELSE "data"
          /\ Class(f) = IF IsUtf8(f) THEN "UTF-8" ELSE "data"
          /\ Misjudged(f) <=> IllFormed(t) \/ CutByBuffer(f)
      <3> HIDE DEF A, O
      <3> QED BY <1>12, <1>13, <1>14, <1>21
    <2>2. CASE Patterned(t)
      <3>1. IsUtf8(f) <=> Utf8Text(t)
        BY <1>14, <1>16, <1>18, <2>2
      <3>2. IllFormed(t) <=> ~Utf8Text(t)
        BY <1>17, <1>19, <2>2
      <3>3. ~CutByBuffer(f)
        BY <1>14, <1>16, <1>18, <2>2
      <3> QED BY <2>1, <2>2, <3>1, <3>2, <3>3 DEF RightType
    <2>3. CASE ~Patterned(t)
      <3>1. ~IllFormed(t) /\ ~Utf8Text(t)
        BY <2>3, <1>15 DEF IllFormed, Patterned
      <3>2. IsUtf8(f) <=> CutByBuffer(f)
        BY <1>14, <3>1
      <3> QED BY <2>1, <2>3, <3>1, <3>2 DEF RightType
    <2> QED BY <2>2, <2>3
  <1> QED BY <1>20, <1>21

-----------------------------------------------------------------------------
LEMMA FieldTypes ==
    ASSUME NEW w \in Slices
    PROVE /\ w.f7 \in 0..127 /\ w.rs2 \in 0..31 /\ w.rs1 \in 0..31 /\ w.f3 \in 0..7 /\ w.rd \in 0..31
          /\ w.f3 \in {0, 1, 2, 3, 4, 5, 6, 7}
  <1>1. /\ w.f7 \in 0..127 /\ w.rs2 \in 0..31 /\ w.rs1 \in 0..31 /\ w.f3 \in 0..7 /\ w.rd \in 0..31
    BY DEF Slices
  <1> QED BY <1>1

LEMMA InEqual ==
    ASSUME NEW a, NEW b, NEW c, NEW d
    PROVE /\ In(a, b) = In(c, d) <=> a = c /\ b = d
          /\ In(a, b).name = a /\ In(a, b).args = b
  BY DEF In

\* The names that an assembler rewrites
Pseudo == {"li", "mv", "not", "zext.b", "neg", "ret", "j", "beqz", "bnez", "bltz", "bgez", "blez", "bgtz"}

LEMMA AssembledPlain ==
    ASSUME NEW name, NEW args, name \notin Pseudo
    PROVE Assembled(In(name, args)) = In(name, args)
  BY InEqual DEF Assembled, Pseudo

\* The tables of names
LEMMA Tables ==
    /\ BranchOf[1] = "beq" /\ BranchOf[2] = "bne" /\ BranchOf[3] = "" /\ BranchOf[4] = ""
    /\ BranchOf[5] = "blt" /\ BranchOf[6] = "bge" /\ BranchOf[7] = "bltu" /\ BranchOf[8] = "bgeu"
    /\ LoadOf[1] = "lb" /\ LoadOf[2] = "lh" /\ LoadOf[3] = "lw" /\ LoadOf[4] = ""
    /\ LoadOf[5] = "lbu" /\ LoadOf[6] = "lhu" /\ LoadOf[7] = "" /\ LoadOf[8] = ""
    /\ StoreOf[1] = "sb" /\ StoreOf[2] = "sh" /\ StoreOf[3] = "sw" /\ StoreOf[4] = ""
    /\ StoreOf[5] = "" /\ StoreOf[6] = "" /\ StoreOf[7] = "" /\ StoreOf[8] = ""
    /\ ImmOf[1] = "addi" /\ ImmOf[2] = "slli" /\ ImmOf[3] = "slti" /\ ImmOf[4] = "sltiu"
    /\ ImmOf[5] = "xori" /\ ImmOf[6] = "srli" /\ ImmOf[7] = "ori" /\ ImmOf[8] = "andi"
    /\ RegOf[1] = "add" /\ RegOf[2] = "sll" /\ RegOf[3] = "slt" /\ RegOf[4] = "sltu"
    /\ RegOf[5] = "xor" /\ RegOf[6] = "srl" /\ RegOf[7] = "or" /\ RegOf[8] = "and"
    /\ MulOf[1] = "mul" /\ MulOf[2] = "mulh" /\ MulOf[3] = "mulhsu" /\ MulOf[4] = "mulhu"
    /\ MulOf[5] = "div" /\ MulOf[6] = "divu" /\ MulOf[7] = "rem" /\ MulOf[8] = "remu"
  BY DEF BranchOf, LoadOf, StoreOf, ImmOf, RegOf, MulOf

\* Two ways to extend the sign of twelve bits
Sign11(v) == IF (v \div 2^11) % 2 = 1 THEN (v % 2^11) - 2^11 ELSE v

LEMMA TwelveBits ==
    ASSUME NEW v \in Nat, v <= 4095
    PROVE Sign11(v) = sign_extend(v, 12)
  <1>1. 2^11 = 2048 /\ 2^12 = 4096 /\ 12 - 1 = 11
    OBVIOUS
  <1>2. sign_extend(v, 12) = IF v < 2048 THEN v ELSE v - 4096
    BY <1>1 DEF sign_extend
  <1>3. (IF (v \div 2048) % 2 = 1 THEN (v % 2048) - 2048 ELSE v) = IF v < 2048 THEN v ELSE v - 4096
    OBVIOUS
  <1> QED BY <1>1, <1>2, <1>3 DEF Sign11

LEMMA ImmI ==
    ASSUME NEW w \in Slices
    PROVE i_type_immediat_decode(w) = imm_I(w) /\ imm_I(w) \in Int
  <1>1. PICK a \in 0..127, b \in 0..31 : a = w.f7 /\ b = w.rs2
    <2>1. w.f7 \in 0..127 /\ w.rs2 \in 0..31
      BY FieldTypes
    <2> QED BY <2>1, ZenonT(30)
  <1>2. PICK v \in Nat : v = a * 32 + b /\ v <= 4095
    OBVIOUS
  <1>3. /\ i_type_immediat_decode(w) = Sign11(v)
        /\ imm_I(w) = sign_extend(v, 12)
    BY <1>1, <1>2 DEF i_type_immediat_decode, imm_I, Sign11
  <1>4. Sign11(v) = sign_extend(v, 12)
    BY <1>2, TwelveBits
  <1>5. sign_extend(v, 12) \in Int
    <2>1. 2^11 = 2048 /\ 2^12 = 4096 /\ 12 - 1 = 11
      OBVIOUS
    <2>2. sign_extend(v, 12) = IF v < 2048 THEN v ELSE v - 4096
      BY <2>1 DEF sign_extend
    <2> QED BY <2>2
  <1> QED BY <1>3, <1>4, <1>5

LEMMA ImmS ==
    ASSUME NEW w \in Slices, NEW name
    PROVE handle_s_type(name, w) = In(name, <<w.rs2, imm_S(w), w.rs1>>)
  <1>1. PICK a \in 0..127, b \in 0..31 : a = w.f7 /\ b = w.rd
    <2>1. w.f7 \in 0..127 /\ w.rd \in 0..31
      BY FieldTypes
    <2> QED BY <2>1, ZenonT(30)
  <1>2. PICK v \in Nat : v = a * 32 + b /\ v <= 4095
    OBVIOUS
  <1>3. /\ handle_s_type(name, w) =
             In(name, <<w.rs2, Sign11(v), w.rs1>>)
        /\ imm_S(w) = sign_extend(v, 12)
    BY <1>1, <1>2 DEF handle_s_type, imm_S, Sign11
  <1>4. Sign11(v) = sign_extend(v, 12)
    BY <1>2, TwelveBits
  <1> QED BY <1>3, <1>4

\* The real names are not names of pseudo-instructions.
LEMMA RealNames ==
    ASSUME NEW f \in 0..7
    PROVE /\ StoreOf[f + 1] \notin Pseudo /\ LoadOf[f + 1] \notin Pseudo /\ BranchOf[f + 1] \notin Pseudo
          /\ ImmOf[f + 1] \notin Pseudo /\ RegOf[f + 1] \notin Pseudo /\ MulOf[f + 1] \notin Pseudo
  <1>1. f + 1 \in {1, 2, 3, 4, 5, 6, 7, 8}
    OBVIOUS
  <1>2. ASSUME NEW g \in {1, 2, 3, 4, 5, 6, 7, 8}
        PROVE /\ StoreOf[g] \notin Pseudo /\ LoadOf[g] \notin Pseudo /\ BranchOf[g] \notin Pseudo
              /\ ImmOf[g] \notin Pseudo /\ RegOf[g] \notin Pseudo /\ MulOf[g] \notin Pseudo
    <2>1. StoreOf[g] \notin Pseudo
      BY Tables DEF Pseudo
    <2>2. LoadOf[g] \notin Pseudo
      BY Tables DEF Pseudo
    <2>3. BranchOf[g] \notin Pseudo
      BY Tables DEF Pseudo
    <2>4. ImmOf[g] \notin Pseudo
      BY Tables DEF Pseudo
    <2>5. RegOf[g] \notin Pseudo
      BY Tables DEF Pseudo
    <2>6. MulOf[g] \notin Pseudo
      BY Tables DEF Pseudo
    <2> QED BY <2>1, <2>2, <2>3, <2>4, <2>5, <2>6
  <1> QED BY <1>1, <1>2

LEMMA Stores ==
    ASSUME NEW w \in Slices, NEW addr \in Int, Legal(w), w.op = "STORE"
    PROVE SameInstruction(addr, w)
  <1>2. Executed(addr, w) = In(StoreOf[w.f3 + 1], <<w.rs2, imm_S(w), w.rs1>>)
    BY DEF Executed
  <1>3. StoreOf[w.f3 + 1] # ""
    <2>1. Executed(0, w).name = StoreOf[w.f3 + 1]
      BY InEqual DEF Executed
    <2> QED BY <2>1 DEF Legal
  <1>4. disassemble(addr, w) = handle_s_type(StoreOf[w.f3 + 1], w)
    BY <1>3 DEF disassemble
  <1>5. disassemble(addr, w) = In(StoreOf[w.f3 + 1], <<w.rs2, imm_S(w), w.rs1>>)
    BY <1>4, ImmS
  <1>6. StoreOf[w.f3 + 1] \notin Pseudo
    BY RealNames, FieldTypes
  <1>7. ~Misprinted(addr, w)
    BY DEF Misprinted, IType
  <1> QED BY <1>2, <1>5, <1>6, <1>7, AssembledPlain DEF SameInstruction

LEMMA Loads ==
    ASSUME NEW w \in Slices, NEW addr \in Int, Legal(w), w.op = "LOAD"
    PROVE SameInstruction(addr, w)
  <1>2. Executed(addr, w) = In(LoadOf[w.f3 + 1], <<w.rd, imm_I(w), w.rs1>>)
    BY DEF Executed
  <1>3. LoadOf[w.f3 + 1] # ""
    <2>1. Executed(0, w).name = LoadOf[w.f3 + 1]
      BY InEqual DEF Executed
    <2> QED BY <2>1 DEF Legal
  <1>4. disassemble(addr, w) = handle_i_type_load(LoadOf[w.f3 + 1], w)
    BY <1>3 DEF disassemble
  <1>5. disassemble(addr, w) = In(LoadOf[w.f3 + 1], <<w.rd, imm_I(w), w.rs1>>)
    BY <1>4, ImmI DEF handle_i_type_load
  <1>6. LoadOf[w.f3 + 1] \notin Pseudo
    BY RealNames, FieldTypes
  <1>7. ~Misprinted(addr, w)
    BY DEF Misprinted, IType
  <1> QED BY <1>2, <1>5, <1>6, <1>7, AssembledPlain DEF SameInstruction

LEMMA Uppers ==
    ASSUME NEW w \in Slices, NEW addr \in Int, Legal(w), w.op \in {"LUI", "AUIPC", "SYSTEM"}
    PROVE SameInstruction(addr, w)
  <1>1. ~Misprinted(addr, w)
    BY DEF Misprinted, IType
  <1>2. "lui" \notin Pseudo /\ "auipc" \notin Pseudo /\ "ecall" \notin Pseudo
    BY DEF Pseudo
  <1>3. CASE w.op = "LUI"
    BY <1>1, <1>2, <1>3, AssembledPlain DEF SameInstruction, Executed, disassemble, handle_u_type
  <1>4. CASE w.op = "AUIPC"
    BY <1>1, <1>2, <1>4, AssembledPlain DEF SameInstruction, Executed, disassemble, handle_u_type
  <1>5. CASE w.op = "SYSTEM"
    BY <1>1, <1>2, <1>5, AssembledPlain DEF SameInstruction, Executed, disassemble
  <1> QED BY <1>3, <1>4, <1>5

\* What an assembler makes of the pseudo-instructions
LEMMA Neg == ASSUME NEW a, NEW b PROVE Assembled(In("neg", <<a, b>>)) = In("sub", <<a, zero, b>>)
  BY InEqual DEF Assembled
LEMMA Li == ASSUME NEW a, NEW b PROVE Assembled(In("li", <<a, b>>)) = In("addi", <<a, zero, b>>)
  BY InEqual DEF Assembled
LEMMA Mv == ASSUME NEW a, NEW b PROVE Assembled(In("mv", <<a, b>>)) = In("addi", <<a, b, 0>>)
  BY InEqual DEF Assembled
LEMMA ZextB == ASSUME NEW a, NEW b PROVE Assembled(In("zext.b", <<a, b>>)) = In("andi", <<a, b, 255>>)
  BY InEqual DEF Assembled
LEMMA Not == ASSUME NEW a, NEW b PROVE Assembled(In("not", <<a, b>>)) = In("xori", <<a, b, -1>>)
  BY InEqual DEF Assembled
LEMMA Ret == Assembled(In("ret", <<>>)) = In("jalr", <<zero, ra, 0>>)
  BY InEqual DEF Assembled
LEMMA J == ASSUME NEW a PROVE Assembled(In("j", <<a>>)) = In("jal", <<zero, a>>)
  BY InEqual DEF Assembled

\* sub is no entry of a table, and the names of a table are different.
LEMMA NamesApart ==
    ASSUME NEW f \in 0..7
    PROVE /\ RegOf[f + 1] # "sub" /\ MulOf[f + 1] # "sub"
          /\ ImmOf[f + 1] = "addi" <=> f = 0
          /\ ImmOf[f + 1] = "andi" <=> f = 7
          /\ ImmOf[f + 1] # "jalr"
  <1>1. ASSUME NEW g \in {1, 2, 3, 4, 5, 6, 7, 8}
        PROVE /\ RegOf[g] # "sub" /\ MulOf[g] # "sub" /\ ImmOf[g] # "jalr"
              /\ ImmOf[g] = "addi" <=> g = 1
              /\ ImmOf[g] = "andi" <=> g = 8
    BY Tables, ZenonT(30)
  <1>2. f + 1 \in {1, 2, 3, 4, 5, 6, 7, 8}
    OBVIOUS
  <1> QED BY <1>1, <1>2

LEMMA Registers ==
    ASSUME NEW w \in Slices, NEW addr \in Int, Legal(w), w.op = "OP"
    PROVE SameInstruction(addr, w)
  <1> DEFINE name == CASE w.f7 = 32 /\ w.f3 = 0 -> "sub"
                       [] w.f7 = 32 /\ w.f3 = 5 -> "sra"
                       [] w.f7 = 1 -> MulOf[w.f3 + 1]
                       [] OTHER -> RegOf[w.f3 + 1]
  <1>1. w.f7 \in {0, 1} \/ (w.f7 = 32 /\ w.f3 \in {0, 5})
    BY DEF Legal
  <1>2. Executed(addr, w) = In(name, <<w.rd, w.rs1, w.rs2>>)
    BY DEF Executed
  <1>3. /\ bit30(w) <=> w.f7 = 32
        /\ w.f7 % 2 = 1 <=> w.f7 = 1
    <2>1. (0 \div 32) % 2 = 0 /\ (1 \div 32) % 2 = 0 /\ (32 \div 32) % 2 = 1
          /\ 0 % 2 = 0 /\ 1 % 2 = 1 /\ 32 % 2 = 0
      OBVIOUS
    <2> QED BY <1>1, <2>1 DEF bit30
  <1>4. numeric_name(w) = name
    BY <1>1, <1>3 DEF numeric_name
  <1>5. disassemble(addr, w) = handle_i_type_imm(numeric_name(w), w)
    BY DEF disassemble
  <1>6. name \notin Pseudo /\ (name = "sub" <=> w.f3 = 0 /\ w.f7 = 32)
    <2>1. /\ RegOf[w.f3 + 1] # "sub" /\ MulOf[w.f3 + 1] # "sub"
          /\ RegOf[w.f3 + 1] \notin Pseudo /\ MulOf[w.f3 + 1] \notin Pseudo
      BY FieldTypes, NamesApart, RealNames
    <2>2. "sub" \notin Pseudo /\ "sra" \notin Pseudo
      BY DEF Pseudo
    <2> QED BY <2>1, <2>2
  <1>7. Misprinted(addr, w) <=> w.rs1 = zero /\ ~(w.f3 = 0 /\ w.f7 = 32)
    BY DEF Misprinted, IType
  <1> HIDE DEF name
  <1>8. CASE w.rs1 = zero
    <2>0. disassemble(addr, w) = In("neg", <<w.rd, w.rs2>>)
      BY <1>5, <1>8 DEF handle_i_type_imm
    <2>1. Assembled(disassemble(addr, w)) = In("sub", <<w.rd, zero, w.rs2>>)
      BY <2>0, Neg
    <2> QED BY <2>1, <1>2, <1>6, <1>7, <1>8, InEqual DEF SameInstruction
  <1>9. CASE w.rs1 # zero
    <2>1. Assembled(disassemble(addr, w)) = In(name, <<w.rd, w.rs1, w.rs2>>)
      BY <1>4, <1>5, <1>6, <1>9, AssembledPlain DEF handle_i_type_imm
    <2> QED BY <2>1, <1>2, <1>7, <1>9 DEF SameInstruction
  <1> QED BY <1>8, <1>9

LEMMA Shifts ==
    ASSUME NEW w \in Slices, NEW addr \in Int, Legal(w), w.op = "OP-IMM", w.f3 \in {1, 5}
    PROVE SameInstruction(addr, w)
  <1> DEFINE name == IF w.f3 = 5 /\ (w.f7 \div 32) % 2 = 1 THEN "srai" ELSE ImmOf[w.f3 + 1]
  <1>1. Executed(addr, w) = In(name, <<w.rd, w.rs1, w.rs2>>)
    BY DEF Executed
  <1>2. disassemble(addr, w) = In(name, <<w.rd, w.rs1, w.rs2>>)
    BY DEF disassemble, handle_i_type_shift, bit30
  <1>3. name \notin Pseudo
    <2>1. ImmOf[w.f3 + 1] \notin Pseudo
      BY FieldTypes, RealNames
    <2>2. "srai" \notin Pseudo
      BY DEF Pseudo
    <2> QED BY <2>1, <2>2
  <1>4. ~Misprinted(addr, w)
    BY DEF Misprinted, IType
  <1> HIDE DEF name
  <1> QED BY <1>1, <1>2, <1>3, <1>4, AssembledPlain DEF SameInstruction

LEMMA Immediates ==
    ASSUME NEW w \in Slices, NEW addr \in Int, Legal(w), IType(w)
    PROVE SameInstruction(addr, w)
  <1> DEFINE name == IF w.op = "JALR" THEN "jalr" ELSE ImmOf[w.f3 + 1]
             imm == imm_I(w)
  <1>1. Executed(addr, w) = In(name, <<w.rd, w.rs1, imm>>)
    BY DEF Executed, IType
  <1>2. disassemble(addr, w) = handle_i_type(name, w)
    BY DEF disassemble, IType, Legal
  <1>3. /\ name \notin Pseudo
        /\ name = "addi" <=> w.op = "OP-IMM" /\ w.f3 = 0
        /\ name = "andi" <=> w.op = "OP-IMM" /\ w.f3 = 7
        /\ name = "jalr" <=> w.op = "JALR"
    <2>1. /\ ImmOf[w.f3 + 1] = "addi" <=> w.f3 = 0
          /\ ImmOf[w.f3 + 1] = "andi" <=> w.f3 = 7
          /\ ImmOf[w.f3 + 1] # "jalr" /\ ImmOf[w.f3 + 1] \notin Pseudo
      BY FieldTypes, NamesApart, RealNames
    <2>2. "jalr" \notin Pseudo
      BY DEF Pseudo
    <2> QED BY <2>1, <2>2 DEF IType
  <1>4. Misprinted(addr, w) <=>
          \/ w.rs1 = zero /\ name # "addi"
          \/ w.rs1 # zero /\ imm = 255 /\ name # "andi"
          \/ name # "jalr" /\ w.rd = zero /\ w.rs1 = ra /\ imm = 0
    BY <1>3 DEF Misprinted, IType
  <1>5. handle_i_type(name, w) =
          CASE w.rs1 = zero -> In("li", <<w.rd, imm>>)
            [] w.rs1 # zero /\ imm = 0 /\ w.rd = zero /\ w.rs1 = ra -> In("ret", <<>>)
            [] w.rs1 # zero /\ imm = 0 /\ ~(w.rd = zero /\ w.rs1 = ra) /\ name = "addi" -> In("mv", <<w.rd, w.rs1>>)
            [] w.rs1 # zero /\ imm = 255 -> In("zext.b", <<w.rd, w.rs1>>)
            [] w.rs1 # zero /\ imm = -1 /\ name = "xori" -> In("not", <<w.rd, w.rs1>>)
            [] OTHER -> In(name, <<w.rd, w.rs1, imm>>)
    BY ImmI DEF handle_i_type
  <1>6. imm \in Int /\ ra # zero
    BY ImmI DEF ra, zero
  <1> HIDE DEF name, imm
  <1> DEFINE t == Assembled(disassemble(addr, w))
  <1>7. CASE w.rs1 = zero
    <2>0. disassemble(addr, w) = In("li", <<w.rd, imm>>)
      BY <1>2, <1>5, <1>6, <1>7
    <2>1. t = In("addi", <<w.rd, zero, imm>>)
      BY <2>0, Li
    <2> HIDE DEF t
    <2>2. t = Executed(addr, w) <=> name = "addi"
      BY <2>1, <1>1, <1>7, InEqual
    <2>3. Misprinted(addr, w) <=> name # "addi"
      BY <1>4, <1>6, <1>7
    <2> QED BY <2>2, <2>3 DEF SameInstruction, t
  <1>8. CASE w.rs1 # zero /\ imm = 0 /\ w.rd = zero /\ w.rs1 = ra
    <2>0. disassemble(addr, w) = In("ret", <<>>)
      BY <1>2, <1>5, <1>6, <1>8
    <2>1. t = In("jalr", <<zero, ra, 0>>)
      BY <2>0, Ret
    <2> HIDE DEF t
    <2>2. t = Executed(addr, w) <=> name = "jalr"
      BY <2>1, <1>1, <1>8, InEqual
    <2>3. Misprinted(addr, w) <=> name # "jalr"
      BY <1>4, <1>6, <1>8
    <2> QED BY <2>2, <2>3 DEF SameInstruction, t
  <1>9. CASE w.rs1 # zero /\ imm = 0 /\ ~(w.rd = zero /\ w.rs1 = ra) /\ name = "addi"
    <2>0. disassemble(addr, w) = In("mv", <<w.rd, w.rs1>>)
      BY <1>2, <1>5, <1>6, <1>9
    <2>1. t = In("addi", <<w.rd, w.rs1, 0>>)
      BY <2>0, Mv
    <2> HIDE DEF t
    <2>2. t = Executed(addr, w)
      BY <2>1, <1>1, <1>9
    <2>3. ~Misprinted(addr, w)
      BY <1>4, <1>6, <1>9
    <2> QED BY <2>2, <2>3 DEF SameInstruction, t
  <1>10. CASE w.rs1 # zero /\ imm = 255
    <2>0. disassemble(addr, w) = In("zext.b", <<w.rd, w.rs1>>)
      BY <1>2, <1>5, <1>6, <1>10
    <2>1. t = In("andi", <<w.rd, w.rs1, 255>>)
      BY <2>0, ZextB
    <2> HIDE DEF t
    <2>2. t = Executed(addr, w) <=> name = "andi"
      BY <2>1, <1>1, <1>10, InEqual
    <2>3. Misprinted(addr, w) <=> name # "andi"
      BY <1>4, <1>6, <1>10
    <2> QED BY <2>2, <2>3 DEF SameInstruction, t
  <1>11. CASE w.rs1 # zero /\ imm = -1 /\ name = "xori"
    <2>0. disassemble(addr, w) = In("not", <<w.rd, w.rs1>>)
      BY <1>2, <1>5, <1>6, <1>11
    <2>1. t = In("xori", <<w.rd, w.rs1, -1>>)
      BY <2>0, Not
    <2> HIDE DEF t
    <2>2. t = Executed(addr, w)
      BY <2>1, <1>1, <1>11
    <2>3. ~Misprinted(addr, w)
      BY <1>4, <1>6, <1>11
    <2> QED BY <2>2, <2>3 DEF SameInstruction, t
  <1>12. CASE /\ w.rs1 # zero /\ imm # 255
              /\ ~(imm = 0 /\ w.rd = zero /\ w.rs1 = ra)
              /\ ~(imm = 0 /\ ~(w.rd = zero /\ w.rs1 = ra) /\ name = "addi")
              /\ ~(imm = -1 /\ name = "xori")
    <2>1. disassemble(addr, w) = In(name, <<w.rd, w.rs1, imm>>)
      BY <1>2, <1>5, <1>12
    <2>2. t = Executed(addr, w)
      BY <2>1, <1>1, <1>3, AssembledPlain
    <2>3. ~Misprinted(addr, w)
      BY <1>4, <1>6, <1>12
    <2> QED BY <2>2, <2>3 DEF SameInstruction
  <1> QED BY <1>7, <1>8, <1>9, <1>10, <1>11, <1>12

\* The offset of JAL: the two differ when the sign fills bits 12 to 19 and
\* these are not all ones.
PrintedJ(a, b, c) ==
    LET bits == (b \div 2) * 2 + (a % 64) * 2^5 + (b % 2) * 2^11
    IN IF a >= 64 THEN bits - 2^12 ELSE bits + c * 2^12
ExecutedJ(a, b, c) ==
    sign_extend((a \div 64) * 2^20 + ((a % 64) * 16 + (b \div 2)) * 2 + (b % 2) * 2^11 + c * 2^12, 21)

SlicesJ(a, b, c) == a <= 127 /\ b <= 31 /\ c <= 255
SameJ(a, b, c) ==
    /\ PrintedJ(a, b, c) \in Int /\ ExecutedJ(a, b, c) \in Int
    /\ PrintedJ(a, b, c) = ExecutedJ(a, b, c) <=> ~(a >= 64 /\ c # 255)

LEMMA JumpOffset ==
    ASSUME NEW a \in Nat, NEW b \in Nat, NEW c \in Nat, SlicesJ(a, b, c)
    PROVE SameJ(a, b, c)
  <1>0. a <= 127 /\ b <= 31 /\ c <= 255
    BY DEF SlicesJ
  <1> DEFINE bits == (b \div 2) * 2 + (a % 64) * 2^5 + (b % 2) * 2^11
             imm == PrintedJ(a, b, c)
             j == ExecutedJ(a, b, c)
  <1>1. 2^5 = 32 /\ 2^11 = 2048 /\ 2^12 = 4096 /\ 2^20 = 1048576 /\ 2^21 = 2097152 /\ 21 - 1 = 20
    OBVIOUS
  <1>2. PICK h \in Nat, r \in Nat : h = a \div 64 /\ r = a % 64 /\ h <= 1 /\ r <= 63 /\ a = 64 * h + r
    BY <1>0
  <1>3. PICK p \in Nat, q \in Nat : p = b \div 2 /\ q = b % 2 /\ q <= 1 /\ p <= 15
    BY <1>0
  <1>4. bits = p * 2 + r * 32 + q * 2048
    BY <1>1, <1>2, <1>3
  <1>5. PICK v \in Nat : v = h * 1048576 + (r * 16 + p) * 2 + q * 2048 + c * 4096
    OBVIOUS
  <1>6. j = IF v < 1048576 THEN v ELSE v - 2097152
    BY <1>1, <1>2, <1>3, <1>5 DEF sign_extend, ExecutedJ
  <1>7. imm = IF a >= 64 THEN bits - 4096 ELSE bits + c * 4096
    BY <1>1 DEF PrintedJ
  <1> HIDE DEF imm, j, bits
  <1>8. (a >= 64 <=> h = 1) /\ (h = 0 \/ h = 1)
    BY <1>2
  <1>9. h = 1 => imm \in Int /\ j \in Int /\ (imm = j <=> ~(a >= 64 /\ c # 255))
    BY <1>0, <1>3, <1>2, <1>4, <1>5, <1>6, <1>7, <1>8
  <1>10. h = 0 => imm \in Int /\ j \in Int /\ (imm = j <=> ~(a >= 64 /\ c # 255))
    BY <1>0, <1>3, <1>2, <1>4, <1>5, <1>6, <1>7, <1>8
  <1>11. imm \in Int /\ j \in Int /\ (imm = j <=> ~(a >= 64 /\ c # 255))
    BY <1>8, <1>9, <1>10
  <1> QED BY <1>11 DEF imm, j, SameJ

LEMMA Behind ==
    ASSUME NEW a, NEW b
    PROVE Append(<<>>, a) = <<a>> /\ Append(<<a>>, b) = <<a, b>>
  <1> DEFINE S == {a, b}
             s == Append(<<a>>, b)
             u == <<a, b>>
             v == Append(<<>>, a)
             x == <<a>>
  <1>1. x \in Seq(S) /\ u \in Seq(S) /\ v \in Seq(S) /\ s \in Seq(S)
    OBVIOUS
  <1>2. Len(s) = 2 /\ Len(u) = 2 /\ Len(v) = 1 /\ Len(x) = 1
    BY <1>1
  <1>3. s[1] = a /\ s[2] = b /\ u[1] = a /\ u[2] = b
    BY <1>1
  <1>4. v[1] = a /\ x[1] = a
    BY <1>1
  <1> HIDE DEF s, u, S, v, x
  <1>5. \A j \in 1..Len(s) : s[j] = u[j]
    BY <1>2, <1>3
  <1>6. \A j \in 1..Len(v) : v[j] = x[j]
    BY <1>2, <1>4
  <1>7. s = u /\ v = x
    BY <1>1, <1>2, <1>5, <1>6, SeqEqual
  <1> QED BY <1>7 DEF s, u, v, x

LEMMA JumpsAgree ==
    ASSUME NEW w \in Slices, NEW addr \in Int, Legal(w), w.op = "JAL"
    PROVE SameInstruction(addr, w)
  <1> DEFINE bits == (w.rs2 \div 2) * 2 + (w.f7 % 64) * 2^5 + (w.rs2 % 2) * 2^11
             imm == IF w.f7 >= 64 THEN bits - 2^12 ELSE bits + (w.rs1 * 8 + w.f3) * 2^12
             t == Assembled(disassemble(addr, w))
  <1>1. PICK a \in Nat, b \in Nat, d \in Nat, f \in Nat :
          a <= 127 /\ b <= 31 /\ d <= 31 /\ f <= 7 /\ a = w.f7 /\ b = w.rs2 /\ d = w.rs1 /\ f = w.f3
    <2>1. w.f7 \in Nat /\ w.f7 <= 127
      BY FieldTypes
    <2>2. w.rs2 \in Nat /\ w.rs2 <= 31
      BY FieldTypes
    <2>3. w.rs1 \in Nat /\ w.rs1 <= 31
      BY FieldTypes
    <2>4. w.f3 \in Nat /\ w.f3 <= 7
      BY FieldTypes
    <2> QED BY <2>1, <2>2, <2>3, <2>4, ZenonT(30)
  <1>2. PICK c \in Nat : c <= 255 /\ c = d * 8 + f
    BY <1>1
  <1>3. imm \in Int /\ imm_J(w) \in Int /\ (imm = imm_J(w) <=> ~(w.f7 >= 64 /\ w.rs1 * 8 + w.f3 # 255))
    <2>1. imm = PrintedJ(a, b, c) /\ imm_J(w) = ExecutedJ(a, b, c)
      BY <1>1, <1>2 DEF PrintedJ, ExecutedJ, imm_J
    <2> HIDE DEF imm, bits
    <2>2. SlicesJ(a, b, c)
      BY <1>1, <1>2 DEF SlicesJ
    <2>3. SameJ(a, b, c)
      BY <2>2, JumpOffset
    <2> QED BY <1>1, <1>2, <2>1, <2>3 DEF SameJ
  <1>4. disassemble(addr, w) = IF w.rd = zero
                               THEN In(IF addr + imm \in Hex(4) THEN "smudged" ELSE "j", <<addr + imm>>)
                               ELSE In("jal", <<w.rd, addr + imm>>)
    <2>1. disassemble(addr, w) = IF w.rd = zero THEN Printed("j", <<>>, addr + imm, 5)
                                 ELSE In("jal", <<w.rd, addr + imm>>)
      BY DEF disassemble, handle_j_type
    <2> DEFINE x == addr + imm
    <2> HIDE DEF x
    <2>2. Append(<<>>, x) = <<x>>
      BY Behind
    <2>3. Printed("j", <<>>, x, 5) = In(IF x \in Hex(4) THEN "smudged" ELSE "j", <<x>>)
      BY <2>2 DEF Printed, Smudges
    <2> QED BY <2>1, <2>3 DEF x
  <1>5. Executed(addr, w) = In("jal", <<w.rd, addr + imm_J(w)>>)
    BY DEF Executed
  <1>6. Misprinted(addr, w) <=> \/ w.f7 >= 64 /\ w.rs1 * 8 + w.f3 # 255
                                \/ w.rd = zero /\ addr + imm_J(w) \in Hex(4)
    BY DEF Misprinted, IType
  <1> HIDE DEF imm, bits
  <1>7. CASE w.rd = zero /\ addr + imm \in Hex(4)
    <2>1. "smudged" \notin Pseudo
      BY DEF Pseudo
    <2>2. disassemble(addr, w) = In("smudged", <<addr + imm>>)
      BY <1>4, <1>7
    <2>3. t = In("smudged", <<addr + imm>>)
      BY <2>1, <2>2, AssembledPlain
    <2> HIDE DEF t
    <2>4. t # Executed(addr, w)
      BY <2>3, <1>5, InEqual
    <2>5. Misprinted(addr, w)
      <3>1. CASE imm = imm_J(w)
        BY <3>1, <1>6, <1>7
      <3>2. CASE imm # imm_J(w)
        BY <3>2, <1>3, <1>6
      <3> QED BY <3>1, <3>2
    <2> QED BY <2>4, <2>5 DEF SameInstruction, t
  <1>8. CASE ~(w.rd = zero /\ addr + imm \in Hex(4))
    <2>1. t = In("jal", <<w.rd, addr + imm>>)
      <3>1. CASE w.rd = zero
        <4>1. disassemble(addr, w) = In("j", <<addr + imm>>)
          BY <3>1, <1>4, <1>8
        <4> QED BY <4>1, <3>1, J
      <3>2. CASE w.rd # zero
        <4>1. "jal" \notin Pseudo
          BY DEF Pseudo
        <4> QED BY <4>1, <3>2, <1>4, AssembledPlain
      <3> QED BY <3>1, <3>2
    <2>2. addr + imm = addr + imm_J(w) <=> imm = imm_J(w)
      BY <1>3
    <2> HIDE DEF t
    <2>3. t = Executed(addr, w) <=> imm = imm_J(w)
      BY <1>5, <2>1, <2>2, InEqual
    <2>4. Misprinted(addr, w) <=> imm # imm_J(w)
      <3>1. CASE imm = imm_J(w)
        BY <3>1, <1>3, <1>6, <1>8
      <3>2. CASE imm # imm_J(w)
        BY <3>2, <1>3, <1>6
      <3> QED BY <3>1, <3>2
    <2> QED BY <2>3, <2>4 DEF SameInstruction, t
  <1> QED BY <1>7, <1>8

\* Both put the offset of a branch together alike.
PrintedB(a, b) ==
    LET bits == (b \div 2) * 2 + (a % 64) * 2^5 + (b % 2) * 2^11
    IN IF a >= 64 THEN bits - 2^12 ELSE bits
ExecutedB(a, b) ==
    sign_extend((a \div 64) * 2^12 + (b % 2) * 2^11 + (a % 64) * 2^5 + (b \div 2) * 2, 13)

LEMMA BranchOffset ==
    ASSUME NEW a \in Nat, NEW b \in Nat, a <= 127, b <= 31
    PROVE PrintedB(a, b) = ExecutedB(a, b)
  <1>1. 2^5 = 32 /\ 2^11 = 2048 /\ 2^12 = 4096 /\ 2^13 = 8192 /\ 13 - 1 = 12
    OBVIOUS
  <1>2. PICK h \in Nat, r \in Nat : h = a \div 64 /\ r = a % 64 /\ h <= 1 /\ r <= 63 /\ a = 64 * h + r
    OBVIOUS
  <1>3. PICK p \in Nat, q \in Nat : p = b \div 2 /\ q = b % 2 /\ q <= 1 /\ p <= 15
    OBVIOUS
  <1>4. PICK v \in Nat : v = h * 4096 + q * 2048 + r * 32 + p * 2
    OBVIOUS
  <1>5. ExecutedB(a, b) = IF v < 4096 THEN v ELSE v - 8192
    BY <1>1, <1>2, <1>3, <1>4 DEF sign_extend, ExecutedB
  <1>6. PrintedB(a, b) = IF a >= 64 THEN p * 2 + r * 32 + q * 2048 - 4096 ELSE p * 2 + r * 32 + q * 2048
    BY <1>1, <1>2, <1>3 DEF PrintedB
  <1>7. (a >= 64 <=> h = 1) /\ (h = 0 \/ h = 1)
    BY <1>2
  <1> QED BY <1>2, <1>3, <1>4, <1>5, <1>6, <1>7

LEMMA Pair ==
    ASSUME NEW a, NEW b
    PROVE <<a>> \o <<b>> = <<a, b>>
  <1> DEFINE S == {a, b}
             s == <<a>> \o <<b>>
             u == <<a, b>>
  <1>1. <<a>> \in Seq(S) /\ <<b>> \in Seq(S) /\ u \in Seq(S)
    OBVIOUS
  <1>2. s \in Seq(S) /\ Len(s) = 2 /\ Len(u) = 2
    BY <1>1
  <1>3. s[1] = a /\ s[2] = b
    BY <1>1
  <1>4. u[1] = a /\ u[2] = b
    OBVIOUS
  <1> HIDE DEF s, u, S
  <1>5. \A j \in 1..Len(s) : s[j] = u[j]
    BY <1>2, <1>3, <1>4
  <1>6. s = u
    BY <1>1, <1>2, <1>5, SeqEqual
  <1> QED BY <1>6 DEF s, u

LEMMA Triple ==
    ASSUME NEW a, NEW b, NEW c
    PROVE Append(<<a, b>>, c) = <<a, b, c>>
  <1> DEFINE S == {a, b, c}
             s == Append(<<a, b>>, c)
             u == <<a, b, c>>
  <1>1. <<a, b>> \in Seq(S) /\ c \in S /\ u \in Seq(S)
    OBVIOUS
  <1>2. s \in Seq(S) /\ Len(s) = 3 /\ Len(u) = 3
    BY <1>1
  <1>3. s[1] = a /\ s[2] = b /\ s[3] = c
    BY <1>1
  <1>4. u[1] = a /\ u[2] = b /\ u[3] = c
    OBVIOUS
  <1> HIDE DEF s, u, S
  <1>5. \A j \in 1..Len(s) : s[j] = u[j]
    BY <1>2, <1>3, <1>4
  <1>6. s = u
    BY <1>1, <1>2, <1>5, SeqEqual
  <1> QED BY <1>6 DEF s, u

LEMMA Single ==
    ASSUME NEW a
    PROVE <<a>> \o <<>> = <<a>> /\ <<>> \o <<a>> = <<a>> /\ <<>> \o <<>> = <<>>
  <1> DEFINE S == {a}
  <1>1. <<a>> \in Seq(S) /\ <<>> \in Seq(S)
    OBVIOUS
  <1> HIDE DEF S
  <1> QED BY <1>1, ConcatEmptySeq

\* The operands of a branch, and how an assembler reads its abbreviations
LEMMA Operands ==
    ASSUME NEW a, NEW b, NEW c
    PROVE /\ Append(<<a>> \o <<b>>, c) = <<a, b, c>>
          /\ Append(<<a>> \o <<>>, c) = <<a, c>>
          /\ Append(<<>> \o <<b>>, c) = <<b, c>>
          /\ Append(<<>> \o <<>>, c) = <<c>>
  <1>1. Append(<<a>> \o <<b>>, c) = <<a, b, c>>
    <2>1. <<a>> \o <<b>> = <<a, b>>
      BY Pair
    <2>2. Append(<<a, b>>, c) = <<a, b, c>>
      BY Triple
    <2> QED BY <2>1, <2>2
  <1>2. Append(<<a>> \o <<>>, c) = <<a, c>>
    BY Single, Behind
  <1>3. Append(<<>> \o <<b>>, c) = <<b, c>>
    BY Single, Behind
  <1>4. Append(<<>> \o <<>>, c) = <<c>>
    BY Single, Behind
  <1> QED BY <1>1, <1>2, <1>3, <1>4

LEMMA ZeroOnTheRight ==
    ASSUME NEW a, NEW b
    PROVE /\ Assembled(In("beqz", <<a, b>>)) = In("beq", <<a, zero, b>>)
          /\ Assembled(In("bnez", <<a, b>>)) = In("bne", <<a, zero, b>>)
          /\ Assembled(In("bltz", <<a, b>>)) = In("blt", <<a, zero, b>>)
          /\ Assembled(In("bgez", <<a, b>>)) = In("bge", <<a, zero, b>>)
  <1>1. Len(<<a, b>>) = 2 /\ <<a, b>>[1] = a /\ <<a, b>>[2] = b
    OBVIOUS
  <1>2. Assembled(In("beqz", <<a, b>>)) = In("beq", <<a, zero, b>>)
    BY <1>1, InEqual DEF Assembled
  <1>3. Assembled(In("bnez", <<a, b>>)) = In("bne", <<a, zero, b>>)
    BY <1>1, InEqual DEF Assembled
  <1>4. Assembled(In("bltz", <<a, b>>)) = In("blt", <<a, zero, b>>)
    BY <1>1, InEqual DEF Assembled
  <1>5. Assembled(In("bgez", <<a, b>>)) = In("bge", <<a, zero, b>>)
    BY <1>1, InEqual DEF Assembled
  <1> QED BY <1>2, <1>3, <1>4, <1>5

LEMMA ZeroOnTheLeft ==
    ASSUME NEW a, NEW b
    PROVE /\ Assembled(In("blez", <<a, b>>)) = In("bge", <<zero, a, b>>)
          /\ Assembled(In("bgtz", <<a, b>>)) = In("blt", <<zero, a, b>>)
  <1>1. Len(<<a, b>>) = 2 /\ <<a, b>>[1] = a /\ <<a, b>>[2] = b
    OBVIOUS
  <1>2. Assembled(In("blez", <<a, b>>)) = In("bge", <<zero, a, b>>)
    BY <1>1, InEqual DEF Assembled
  <1>3. Assembled(In("bgtz", <<a, b>>)) = In("blt", <<zero, a, b>>)
    BY <1>1, InEqual DEF Assembled
  <1> QED BY <1>2, <1>3

LEMMA TargetAlone ==
    ASSUME NEW a, NEW name \in {"beqz", "bnez", "blez", "bgtz"}
    PROVE Assembled(In(name, <<a>>)) = In(name, <<a>>)
  <1>1. Len(<<a>>) # 2
    OBVIOUS
  <1> QED BY <1>1, InEqual DEF Assembled

LEMMA Lengths ==
    ASSUME NEW a, NEW b, NEW c, NEW d, NEW e
    PROVE <<a, b>> # <<c, d, e>> /\ <<a>> # <<c, d, e>>
  OBVIOUS

LEMMA BranchNames ==
    ASSUME NEW g \in {1, 2, 3, 4, 5, 6, 7, 8}, BranchOf[g] # ""
    PROVE /\ BranchOf[g] \in {"beq", "bne", "blt", "bge", "bltu", "bgeu"}
          /\ g \in {5, 6} <=> BranchOf[g] \in {"blt", "bge"}
          /\ g \in {7, 8} <=> BranchOf[g] \in {"bltu", "bgeu"}
  <1>1. /\ BranchOf[1] = "beq" /\ BranchOf[2] = "bne" /\ BranchOf[3] = "" /\ BranchOf[4] = ""
        /\ BranchOf[5] = "blt" /\ BranchOf[6] = "bge" /\ BranchOf[7] = "bltu" /\ BranchOf[8] = "bgeu"
    BY Tables
  <1>2. CASE g \in {1, 2, 3, 4}
    BY <1>1, <1>2
  <1>3. CASE g \in {5, 6}
    BY <1>1, <1>3
  <1>4. CASE g \in {7, 8}
    BY <1>1, <1>4
  <1> QED BY <1>2, <1>3, <1>4

LEMMA Branches ==
    ASSUME NEW w \in Slices, NEW addr \in Int, Legal(w), w.op = "BRANCH"
    PROVE SameInstruction(addr, w)
  <1> DEFINE name == BranchOf[w.f3 + 1]
             T == addr + imm_B(w)
             first == CASE w.rs1 = zero /\ name \in {"bge", "bgeu"} -> "blez"
                        [] w.rs1 = zero /\ name \in {"blt", "bltu"} -> "bgtz"
                        [] OTHER -> name
             second == CASE w.rs2 = zero /\ first = "beq" -> "beqz"
                         [] w.rs2 = zero /\ first = "bne" -> "bnez"
                         [] w.rs2 = zero /\ first \in {"bge", "bgeu"} -> "bgez"
                         [] w.rs2 = zero /\ first \in {"blt", "bltu"} -> "bltz"
                         [] OTHER -> first
             Shown(r) == IF r = zero THEN <<>> ELSE <<r>>
             smudged == \/ w.rs2 = zero /\ T \in Hex(4)
                        \/ w.rs1 = zero /\ w.rs2 \notin {zero, 26, 27} /\ T \in Hex(1)
             shown == IF smudged THEN "smudged" ELSE second
             t == Assembled(disassemble(addr, w))
  <1>1. Executed(addr, w) = In(name, <<w.rs1, w.rs2, T>>)
    BY DEF Executed
  <1>2. /\ name \in {"beq", "bne", "blt", "bge", "bltu", "bgeu"}
        /\ w.f3 \in {4, 5} <=> name \in {"blt", "bge"}
        /\ w.f3 \in {6, 7} <=> name \in {"bltu", "bgeu"}
    <2>1. Executed(0, w).name = name
      BY InEqual DEF Executed
    <2>2. name # ""
      BY <2>1 DEF Legal
    <2>3. w.f3 \in {0, 1, 2, 3, 4, 5, 6, 7}
      BY FieldTypes
    <2>4. ASSUME NEW f \in {0, 1, 2, 3, 4, 5, 6, 7}, BranchOf[f + 1] # ""
          PROVE /\ BranchOf[f + 1] \in {"beq", "bne", "blt", "bge", "bltu", "bgeu"}
                /\ f \in {4, 5} <=> BranchOf[f + 1] \in {"blt", "bge"}
                /\ f \in {6, 7} <=> BranchOf[f + 1] \in {"bltu", "bgeu"}
      <3>1. /\ f + 1 \in {1, 2, 3, 4, 5, 6, 7, 8}
            /\ f \in {4, 5} <=> f + 1 \in {5, 6}
            /\ f \in {6, 7} <=> f + 1 \in {7, 8}
        OBVIOUS
      <3> QED BY <2>4, <3>1, BranchNames
    <2> QED BY <2>2, <2>3, <2>4
  <1>3. disassemble(addr, w) = In(shown, Append(Shown(w.rs1) \o Shown(w.rs2), T))
    <2>1. PICK a \in Nat, b \in Nat : a <= 127 /\ b <= 31 /\ a = w.f7 /\ b = w.rd
      <3>1. w.f7 \in Nat /\ w.f7 <= 127
        BY FieldTypes
      <3>2. w.rd \in Nat /\ w.rd <= 31
        BY FieldTypes
      <3> QED BY <3>1, <3>2, Zenon
    <2>2. PrintedB(a, b) = ExecutedB(a, b)
      BY <2>1, BranchOffset
    <2>3. ExecutedB(a, b) = imm_B(w)
      BY <2>1 DEF ExecutedB, imm_B
    <2> DEFINE bits == (w.rd \div 2) * 2 + (w.f7 % 64) * 2^5 + (w.rd % 2) * 2^11
    <2>4. PrintedB(a, b) = IF w.f7 >= 64 THEN bits - 2^12 ELSE bits
      BY <2>1 DEF PrintedB
    <2>5. disassemble(addr, w) = handle_b_type(addr, name, w)
      BY <1>2 DEF disassemble
    <2>6. T = addr + (IF w.f7 >= 64 THEN bits - 2^12 ELSE bits)
      BY <2>2, <2>3, <2>4
    <2> DEFINE room == CASE w.rs2 = zero -> 5
                         [] w.rs1 = zero /\ w.rs2 \notin {zero, 26, 27} -> 2
                         [] OTHER -> 0
    <2>7. disassemble(addr, w) = Printed(second, Shown(w.rs1) \o Shown(w.rs2), T, room)
      BY <2>5, <2>6 DEF handle_b_type
    <2> HIDE DEF bits, second
    <2>8. Smudges(T, room) <=> smudged
      <3> HIDE DEF T
      <3>1. CASE w.rs2 = zero
        BY <3>1 DEF Smudges
      <3>2. CASE w.rs2 # zero /\ w.rs1 = zero /\ w.rs2 \notin {zero, 26, 27}
        BY <3>2 DEF Smudges
      <3>3. CASE w.rs2 # zero /\ ~(w.rs1 = zero /\ w.rs2 \notin {zero, 26, 27})
        BY <3>3 DEF Smudges
      <3> QED BY <3>1, <3>2, <3>3
    <2> HIDE DEF room, smudged, T, Shown
    <2> QED BY <2>7, <2>8 DEF Printed, shown
  <1>4. /\ w.rs1 # zero /\ w.rs2 # zero => disassemble(addr, w) = In(shown, <<w.rs1, w.rs2, T>>)
        /\ w.rs1 # zero /\ w.rs2 = zero => disassemble(addr, w) = In(shown, <<w.rs1, T>>)
        /\ w.rs1 = zero /\ w.rs2 # zero => disassemble(addr, w) = In(shown, <<w.rs2, T>>)
        /\ w.rs1 = zero /\ w.rs2 = zero => disassemble(addr, w) = In(shown, <<T>>)
    <2> HIDE DEF shown, T
    <2>1. CASE w.rs1 # zero /\ w.rs2 # zero
      <3>1. Shown(w.rs1) = <<w.rs1>> /\ Shown(w.rs2) = <<w.rs2>>
        BY <2>1
      <3> HIDE DEF Shown
      <3>2. Append(<<w.rs1>> \o <<w.rs2>>, T) = <<w.rs1, w.rs2, T>>
        BY Operands
      <3> QED BY <1>3, <2>1, <3>1, <3>2
    <2>2. CASE w.rs1 # zero /\ w.rs2 = zero
      <3>1. Shown(w.rs1) = <<w.rs1>> /\ Shown(w.rs2) = <<>>
        BY <2>2
      <3> HIDE DEF Shown
      <3> QED BY <1>3, <2>2, <3>1, Operands, ZenonT(30)
    <2>3. CASE w.rs1 = zero /\ w.rs2 # zero
      <3>1. Shown(w.rs1) = <<>> /\ Shown(w.rs2) = <<w.rs2>>
        BY <2>3
      <3> HIDE DEF Shown
      <3> QED BY <1>3, <2>3, <3>1, Operands
    <2>4. CASE w.rs1 = zero /\ w.rs2 = zero
      <3>1. Shown(w.rs1) = <<>> /\ Shown(w.rs2) = <<>>
        BY <2>4
      <3> HIDE DEF Shown
      <3> QED BY <1>3, <2>4, <3>1, Operands
    <2> QED BY <2>1, <2>2, <2>3, <2>4
  <1>5. Misprinted(addr, w) <=>
          \/ w.rs1 = zero /\ ~(name \in {"blt", "bge"} /\ w.rs2 # zero)
          \/ w.rs1 # zero /\ w.rs2 = zero /\ name \in {"bltu", "bgeu"}
          \/ smudged
    BY <1>2 DEF Misprinted, IType
  <1>0. "smudged" \notin Pseudo /\ name # "smudged"
    BY <1>2 DEF Pseudo
  <1> HIDE DEF name, T
  <1>10. CASE smudged
    <2>1. shown = "smudged"
      BY <1>10
    <2> HIDE DEF shown, smudged, second
    <2>2. PICK args : disassemble(addr, w) = In("smudged", args)
      BY <1>3, <2>1
    <2>3. t = In("smudged", args)
      BY <2>2, <1>0, AssembledPlain
    <2> HIDE DEF t
    <2>4. t # Executed(addr, w)
      BY <2>3, <1>0, <1>1, InEqual
    <2> QED BY <2>4, <1>5, <1>10 DEF SameInstruction, t
  <1> SUFFICES ASSUME ~smudged PROVE SameInstruction(addr, w)
    BY <1>10
  <1>11. shown = second
    OBVIOUS
  <1> HIDE DEF smudged, shown
  <1>6. CASE w.rs1 # zero /\ w.rs2 # zero
    <2>1. second = name
      BY <1>6
    <2>2. name \notin Pseudo
      BY <1>2 DEF Pseudo
    <2>3. t = Executed(addr, w)
      BY <1>1, <1>4, <1>11, <1>6, <2>1, <2>2, AssembledPlain
    <2> QED BY <2>3, <1>5, <1>6 DEF SameInstruction
  <1>7. CASE w.rs1 # zero /\ w.rs2 = zero
    <2> DEFINE same == CASE name \in {"bge", "bgeu"} -> "bge"
                         [] name \in {"blt", "bltu"} -> "blt"
                         [] OTHER -> name
    <2>1. t = In(same, <<w.rs1, zero, T>>)
      <3>1. CASE name = "beq"
        BY <1>4, <1>11, <1>7, <3>1, ZeroOnTheRight
      <3>2. CASE name = "bne"
        BY <1>4, <1>11, <1>7, <3>2, ZeroOnTheRight
      <3>3. CASE name \in {"bge", "bgeu"}
        BY <1>4, <1>11, <1>7, <3>3, ZeroOnTheRight
      <3>4. CASE name \in {"blt", "bltu"}
        BY <1>4, <1>11, <1>7, <3>4, ZeroOnTheRight
      <3> QED BY <3>1, <3>2, <3>3, <3>4, <1>2
    <2>2. same = name <=> name \notin {"bltu", "bgeu"}
      BY <1>2
    <2> HIDE DEF t, same
    <2>3. t = Executed(addr, w) <=> same = name
      BY <2>1, <1>1, <1>7, InEqual
    <2> QED BY <2>2, <2>3, <1>5, <1>7 DEF SameInstruction, t
  <1>8. CASE w.rs1 = zero /\ w.rs2 # zero
    <2>1. CASE name \in {"bge", "bgeu"}
      <3>1. second = "blez"
        BY <2>1, <1>8
      <3>2. t = In("bge", <<zero, w.rs2, T>>)
        BY <1>4, <1>11, <1>8, <3>1, ZeroOnTheLeft
      <3> HIDE DEF t
      <3>3. t = Executed(addr, w) <=> name = "bge"
        BY <3>2, <1>1, <1>8, InEqual
      <3> QED BY <3>3, <2>1, <1>5, <1>8 DEF SameInstruction, t
    <2>2. CASE name \in {"blt", "bltu"}
      <3>1. second = "bgtz"
        BY <2>2, <1>8
      <3>2. t = In("blt", <<zero, w.rs2, T>>)
        BY <1>4, <1>11, <1>8, <3>1, ZeroOnTheLeft
      <3> HIDE DEF t
      <3>3. t = Executed(addr, w) <=> name = "blt"
        BY <3>2, <1>1, <1>8, InEqual
      <3> QED BY <3>3, <2>2, <1>5, <1>8 DEF SameInstruction, t
    <2>3. CASE name \in {"beq", "bne"}
      <3>1. second = name /\ name \notin Pseudo
        BY <2>3, <1>8 DEF Pseudo
      <3>2. t = In(name, <<w.rs2, T>>)
        BY <1>4, <1>11, <1>8, <3>1, AssembledPlain
      <3> HIDE DEF t
      <3>3. t # Executed(addr, w)
        BY <3>2, <1>1, InEqual, Lengths
      <3> QED BY <3>3, <2>3, <1>5, <1>8 DEF SameInstruction, t
    <2> QED BY <2>1, <2>2, <2>3, <1>2
  <1>9. CASE w.rs1 = zero /\ w.rs2 = zero
    <2>1. second \in {"beqz", "bnez", "blez", "bgtz"}
      BY <1>2, <1>9
    <2> HIDE DEF second
    <2>2. t = In(second, <<T>>)
      BY <2>1, <1>4, <1>11, <1>9, TargetAlone
    <2> HIDE DEF t
    <2>3. t # Executed(addr, w)
      BY <2>2, <1>1, InEqual, Lengths
    <2> QED BY <2>3, <1>5, <1>9 DEF SameInstruction, t
  <1> QED BY <1>6, <1>7, <1>8, <1>9

\* The two decoders on every instruction word, at every address
LEMMA DecodersSame ==
    ASSUME NEW addr \in Int, NEW w \in Slices
    PROVE SameInstruction(addr, w)
  <1> SUFFICES ASSUME Legal(w)
               PROVE SameInstruction(addr, w)
    BY DEF SameInstruction
  <1>1. w.op \in {"LUI", "AUIPC", "JAL", "JALR", "BRANCH", "LOAD", "STORE", "OP-IMM", "OP", "SYSTEM"}
    <2> SUFFICES ASSUME w.op \notin {"LUI", "AUIPC", "JAL", "JALR", "BRANCH", "LOAD", "STORE", "OP-IMM", "OP", "SYSTEM"}
                 PROVE FALSE
      OBVIOUS
    <2>1. Executed(0, w) = In("", <<>>)
      BY DEF Executed
    <2>2. In("", <<>>).name = ""
      BY DEF In
    <2>3. Executed(0, w).name = ""
      BY <2>1, <2>2, Zenon
    <2> QED BY <2>3 DEF Legal
  <1>2. CASE w.op \in {"LUI", "AUIPC", "SYSTEM"}
    BY <1>2, Uppers
  <1>3. CASE w.op = "JAL"
    BY <1>3, JumpsAgree
  <1>4. CASE w.op = "JALR"
    BY <1>4, Immediates DEF IType
  <1>5. CASE w.op = "BRANCH"
    BY <1>5, Branches
  <1>6. CASE w.op = "LOAD"
    BY <1>6, Loads
  <1>7. CASE w.op = "STORE"
    BY <1>7, Stores
  <1>8. CASE w.op = "OP-IMM" /\ w.f3 \in {1, 5}
    BY <1>8, Shifts
  <1>9. CASE w.op = "OP-IMM" /\ w.f3 \notin {1, 5}
    BY <1>9, Immediates DEF IType
  <1>10. CASE w.op = "OP"
    BY <1>10, Registers
  <1> QED BY <1>1, <1>2, <1>3, <1>4, <1>5, <1>6, <1>7, <1>8, <1>9, <1>10

-----------------------------------------------------------------------------
\* Induction in steps of one; the property is the set P.
LEMMA StepInduct ==
    ASSUME NEW P, 0 \in P, \A m \in Nat : m \in P => m + 1 \in P
    PROVE Nat \subseteq P
  <1>1. ASSUME NEW m \in Nat, \A l \in Nat : l < m => l \in P PROVE m \in P
    <2>1. CASE m = 0
      BY <2>1
    <2>2. CASE m # 0
      <3>1. m - 1 \in Nat /\ m - 1 < m /\ (m - 1) + 1 = m
        BY <2>2
      <3>2. m - 1 \in P
        BY <3>1, <1>1
      <3> QED BY <3>1, <3>2
    <2> QED BY <2>1, <2>2
  <1> QED BY <1>1, StrongInduct

-----------------------------------------------------------------------------
\* Trees(ps): the trees by their height
Grown(D, T) == {NoNode} \cup [rec : D, left : T, right : T]
HeightBody(g, ps, h) == IF h = 0 THEN {NoNode} ELSE Grown(DOMAIN ps, g[h - 1])
HeightEq(g, ps) == g = [h \in 0..Len(ps) |-> HeightBody(g, ps, h)]
Height(ps) == CHOOSE g : HeightEq(g, ps)

LEMMA TreesIs ==
    ASSUME NEW ps
    PROVE Trees(ps) = Height(ps)[Len(ps)]
  BY DEF Trees, Height, HeightEq, HeightBody, Grown

LEMMA HeightExists ==
    ASSUME NEW ps, Len(ps) \in Nat
    PROVE HeightEq(Height(ps), ps)
  <1> DEFINE N == Len(ps)
             Upto(g, m) == /\ g = [h \in 0..N |-> g[h]]
                           /\ \A h \in 0..N : h <= m => g[h] = HeightBody(g, ps, h)
             P == {m \in Nat : \E g : Upto(g, m)}
  <1>1. 0 \in P
    <2> DEFINE g == [h \in 0..N |-> {NoNode}]
    <2>1. Upto(g, 0)
      BY DEF HeightBody
    <2> QED BY <2>1, Zenon
  <1>2. ASSUME NEW m \in Nat, m \in P PROVE m + 1 \in P
    <2>1. PICK g : Upto(g, m)
      BY <1>2
    <2> DEFINE f == [h \in 0..N |-> HeightBody(g, ps, h)]
    <2>2. ASSUME NEW h \in 0..N, h <= m + 1 PROVE f[h] = HeightBody(f, ps, h)
      <3>1. CASE h = 0
        BY <3>1 DEF HeightBody
      <3>2. CASE h # 0
        <4>1. h - 1 \in 0..N /\ h - 1 <= m
          BY <3>2, <2>2
        <4>2. f[h - 1] = g[h - 1]
          BY <4>1, <2>1
        <4>3. f[h] = HeightBody(g, ps, h)
          OBVIOUS
        <4> HIDE DEF f
        <4> QED BY <4>2, <4>3, <3>2 DEF HeightBody
      <3> QED BY <3>1, <3>2
    <2>3. f = [h \in 0..N |-> f[h]]
      OBVIOUS
    <2> HIDE DEF f
    <2>4. Upto(f, m + 1)
      BY <2>2, <2>3
    <2>5. m + 1 \in Nat
      OBVIOUS
    <2> HIDE DEF Upto
    <2> QED BY <2>4, <2>5
  <1>3. N \in P
    <2> HIDE DEF P
    <2> QED BY <1>1, <1>2, StepInduct
  <1>4. PICK g : Upto(g, N)
    BY <1>3
  <1>5. \A h \in 0..N : g[h] = HeightBody(g, ps, h)
    BY <1>4
  <1>6. [h \in 0..N |-> g[h]] = [h \in 0..N |-> HeightBody(g, ps, h)]
    BY <1>5
  <1>7. HeightEq(g, ps)
    BY <1>4, <1>6, Zenon DEF HeightEq
  <1> QED BY <1>7 DEF Height

LEMMA HeightStep ==
    ASSUME NEW ps, Len(ps) \in Nat
    PROVE /\ Height(ps)[0] = {NoNode}
          /\ \A h \in 0..Len(ps) : h # 0 => Height(ps)[h] = Grown(DOMAIN ps, Height(ps)[h - 1])
  <1> DEFINE g == Height(ps)
  <1>1. g = [h \in 0..Len(ps) |-> HeightBody(g, ps, h)]
    BY HeightExists DEF HeightEq
  <1> HIDE DEF g
  <1>2. \A h \in 0..Len(ps) : g[h] = HeightBody(g, ps, h)
    BY <1>1
  <1> QED BY <1>2 DEF HeightBody, g

\* A higher bound admits more trees.
LEMMA HeightMonotone ==
    ASSUME NEW ps, Len(ps) \in Nat, NEW a \in Nat, NEW b \in Nat, a <= b, b <= Len(ps)
    PROVE Height(ps)[a] \subseteq Height(ps)[b]
  <1> DEFINE P == {m \in Nat : m + 1 <= Len(ps) => Height(ps)[m] \subseteq Height(ps)[m + 1]}
             Q == {m \in Nat : a + m <= Len(ps) => Height(ps)[a] \subseteq Height(ps)[a + m]}
  <1>1. 0 \in P
    BY HeightStep DEF Grown
  <1>2. ASSUME NEW m \in Nat, m \in P PROVE m + 1 \in P
    <2> SUFFICES ASSUME m + 2 <= Len(ps) PROVE Height(ps)[m + 1] \subseteq Height(ps)[m + 2]
      OBVIOUS
    <2>1. Height(ps)[m] \subseteq Height(ps)[m + 1]
      BY <1>2
    <2>2. /\ m + 1 \in 0..Len(ps) /\ m + 2 \in 0..Len(ps) /\ m + 1 # 0 /\ m + 2 # 0
          /\ (m + 1) - 1 = m /\ (m + 2) - 1 = m + 1
      OBVIOUS
    <2>3. /\ Height(ps)[m + 1] = Grown(DOMAIN ps, Height(ps)[m])
          /\ Height(ps)[m + 2] = Grown(DOMAIN ps, Height(ps)[m + 1])
      BY <2>2, HeightStep
    <2>4. Grown(DOMAIN ps, Height(ps)[m]) \subseteq Grown(DOMAIN ps, Height(ps)[m + 1])
      BY <2>1 DEF Grown
    <2> QED BY <2>3, <2>4
  <1>3. Nat \subseteq P
    <2> HIDE DEF P
    <2> QED BY <1>1, <1>2, StepInduct
  <1>4. 0 \in Q
    OBVIOUS
  <1>5. ASSUME NEW m \in Nat, m \in Q PROVE m + 1 \in Q
    <2> SUFFICES ASSUME a + (m + 1) <= Len(ps) PROVE Height(ps)[a] \subseteq Height(ps)[a + (m + 1)]
      OBVIOUS
    <2>1. a + m \in P /\ (a + m) + 1 = a + (m + 1) /\ a + m <= Len(ps)
      BY <1>3
    <2>2. Height(ps)[a + m] \subseteq Height(ps)[a + (m + 1)]
      BY <2>1
    <2>3. Height(ps)[a] \subseteq Height(ps)[a + m]
      BY <2>1, <1>5
    <2> QED BY <2>2, <2>3
  <1>6. Nat \subseteq Q
    <2> HIDE DEF Q
    <2> QED BY <1>4, <1>5, StepInduct
  <1>7. b - a \in Q /\ a + (b - a) = b
    BY <1>6, SMTT(30)
  <1> QED BY <1>7

\* The empty tree is of every height.
LEMMA HeightBottom ==
    ASSUME NEW ps, Len(ps) \in Nat
    PROVE NoNode \in Trees(ps)
  <1>1. NoNode \in Height(ps)[0]
    BY HeightStep
  <1>2. Height(ps)[0] \subseteq Height(ps)[Len(ps)]
    <2>1. 0 \in Nat /\ 0 <= Len(ps) /\ Len(ps) <= Len(ps)
      OBVIOUS
    <2> QED BY <2>1, HeightMonotone
  <1> QED BY <1>1, <1>2, TreesIs

LEMMA TreeParts ==
    ASSUME NEW ps, Len(ps) \in Nat, NEW h \in Nat, h + 1 <= Len(ps), NEW t \in Height(ps)[h + 1], t # NoNode
    PROVE t.rec \in DOMAIN ps /\ t.left \in Height(ps)[h] /\ t.right \in Height(ps)[h]
  <1>1. h + 1 \in 0..Len(ps) /\ h + 1 # 0 /\ (h + 1) - 1 = h
    OBVIOUS
  <1>2. t \in Grown(DOMAIN ps, Height(ps)[h])
    BY <1>1, HeightStep
  <1>3. t \in [rec : DOMAIN ps, left : Height(ps)[h], right : Height(ps)[h]]
    BY <1>2 DEF Grown
  <1> QED BY <1>3

\* What a sort of the records in S gives: each of them at one place, in order
LEMMA SortedShape ==
    ASSUME NEW ps \in Seq(Point), NEW S \in SUBSET DOMAIN ps, NEW d \in Nat, NEW o \in Sorted(ps, S, d)
    PROVE /\ IsFiniteSet(S) /\ Cardinality(S) \in Nat
          /\ o \in [1..Cardinality(S) -> S]
          /\ \A x, y \in 1..Cardinality(S) : x # y => o[x] # o[y]
          /\ \A r \in S : \E x \in 1..Cardinality(S) : o[x] = r
          /\ \A x, y \in 1..Cardinality(S) : x < y => Axis(ps[o[x]], d) <= Axis(ps[o[y]], d)
  <1>1. IsFiniteSet(S) /\ Cardinality(S) \in Nat
    <2>1. DOMAIN ps = 1..Len(ps) /\ Len(ps) \in Nat
      OBVIOUS
    <2>2. IsFiniteSet(DOMAIN ps)
      BY <2>1, FS_Interval
    <2>3. IsFiniteSet(S)
      BY <2>2, FS_Subset
    <2> QED BY <2>3, FS_CardinalityType
  <1> DEFINE c == Cardinality(S)
  <1>2. o \in [1..c -> S] /\ \A x, y \in 1..c : x # y => o[x] # o[y]
    BY DEF Sorted, SetToSeqs
  <1>3. Len(o) = c
    <2>1. o \in Seq(S)
      BY <1>1, <1>2
    <2>2. DOMAIN o = 1..c
      BY <1>2
    <2> QED BY <2>1, <2>2, <1>1
  <1>4. \A x, y \in 1..c : x < y => Axis(ps[o[x]], d) <= Axis(ps[o[y]], d)
    BY <1>3 DEF Sorted
  <1>5. o \in Surjection(1..c, S)
    <2>1. IsFiniteSet(1..c) /\ Cardinality(1..c) = c
      BY <1>1, FS_Interval
    <2>2. o \in Injection(1..c, S)
      BY <1>2 DEF Injection, IsInjective
    <2> HIDE DEF c
    <2>3. Cardinality(1..c) = Cardinality(S)
      BY <2>1 DEF c
    <2> QED BY <1>1, <2>1, <2>2, <2>3, FS_Injection
  <1> QED BY <1>1, <1>2, <1>4, <1>5 DEF Surjection

Median(S) == (Cardinality(S) \div 2) + 1
LeftOf(o, S) == {o[p] : p \in 1..Cardinality(S) \div 2}
RightOf(o, S) == {o[p] : p \in (Cardinality(S) \div 2) + 2..Cardinality(S)}

\* The record in the middle, those before it and those after it
LEMMA Parts ==
    ASSUME NEW ps \in Seq(Point), NEW S \in SUBSET DOMAIN ps, S # {}, NEW d \in Nat, NEW o \in Sorted(ps, S, d)
    PROVE /\ o[Median(S)] \in S
          /\ LeftOf(o, S) \in SUBSET (S \ {o[Median(S)]})
          /\ RightOf(o, S) = (S \ {o[Median(S)]}) \ LeftOf(o, S)
          /\ \A r \in LeftOf(o, S) : Axis(ps[r], d) <= Axis(ps[o[Median(S)]], d)
          /\ \A r \in RightOf(o, S) : Axis(ps[r], d) >= Axis(ps[o[Median(S)]], d)
          /\ Cardinality(S) \in Nat \ {0}
          /\ Cardinality(LeftOf(o, S)) \in Nat /\ Cardinality(LeftOf(o, S)) <= Cardinality(S) - 1
          /\ Cardinality(RightOf(o, S)) \in Nat /\ Cardinality(RightOf(o, S)) <= Cardinality(S) - 1
  <1> DEFINE c == Cardinality(S)
             m == Median(S)
  <1>1. /\ IsFiniteSet(S) /\ c \in Nat
        /\ o \in [1..c -> S]
        /\ \A x, y \in 1..c : x # y => o[x] # o[y]
        /\ \A r \in S : \E x \in 1..c : o[x] = r
        /\ \A x, y \in 1..c : x < y => Axis(ps[o[x]], d) <= Axis(ps[o[y]], d)
    BY SortedShape
  <1>2. c # 0
    BY <1>1, FS_EmptySet
  <1>3. m \in 1..c /\ m = (c \div 2) + 1
    <2>1. m = (c \div 2) + 1
      BY DEF Median
    <2>2. c \div 2 \in Nat /\ (c \div 2) + 1 <= c
      BY <1>1, <1>2
    <2> QED BY <2>1, <2>2, <1>1
  <1>4. LeftOf(o, S) = {o[p] : p \in 1..m - 1}
    BY <1>1, <1>3 DEF LeftOf
  <1>5. RightOf(o, S) = {o[p] : p \in m + 1..c}
    <2>1. (c \div 2) + 2 = m + 1
      BY <1>1, <1>3
    <2> QED BY <2>1, Zenon DEF RightOf
  <1> HIDE DEF c, m
  <1>6. o[m] \in S
    BY <1>1, <1>3
  <1>7. ASSUME NEW r \in LeftOf(o, S) PROVE r \in S \ {o[m]} /\ Axis(ps[r], d) <= Axis(ps[o[m]], d)
    <2>1. PICK p \in 1..m - 1 : r = o[p]
      BY <1>4
    <2>2. p \in 1..c /\ p # m /\ p < m
      BY <1>1, <1>3
    <2> QED BY <1>1, <1>3, <2>1, <2>2
  <1>8. ASSUME NEW r \in RightOf(o, S) PROVE r \in (S \ {o[m]}) \ LeftOf(o, S) /\ Axis(ps[r], d) >= Axis(ps[o[m]], d)
    <2>1. PICK p \in m + 1..c : r = o[p]
      BY <1>5
    <2>2. p \in 1..c /\ p # m /\ m < p
      BY <1>1, <1>3
    <2>3. ASSUME NEW q \in 1..m - 1 PROVE r # o[q]
      <3>1. q \in 1..c /\ q # p
        BY <1>1, <1>3, <2>2
      <3> QED BY <1>1, <2>1, <2>2, <3>1
    <2>4. r \in S \ {o[m]}
      BY <1>1, <1>3, <2>1, <2>2
    <2>5. Axis(ps[o[m]], d) <= Axis(ps[r], d)
      BY <1>1, <1>3, <2>1, <2>2
    <2>6. \A x \in S : Axis(ps[x], d) \in Int
      <3>1. \A x \in S : ps[x] \in Point
        OBVIOUS
      <3> QED BY <3>1 DEF Axis, Point
    <2>7. Axis(ps[r], d) >= Axis(ps[o[m]], d)
      <3> DEFINE x == Axis(ps[o[m]], d)
                 y == Axis(ps[r], d)
      <3>1. x \in Int /\ y \in Int
        BY <2>6, <2>4, <1>6
      <3>2. x <= y
        BY <2>5
      <3> HIDE DEF x, y
      <3>3. y >= x
        BY <3>1, <3>2
      <3> QED BY <3>3 DEF x, y
    <2> QED BY <2>3, <2>4, <2>7, <1>4
  <1>9. ASSUME NEW r \in (S \ {o[m]}) \ LeftOf(o, S) PROVE r \in RightOf(o, S)
    <2>1. PICK p \in 1..c : o[p] = r
      BY <1>1
    <2>2. p # m
      BY <2>1, <1>9
    <2>3. p \notin 1..m - 1
      BY <2>1, <1>4, <1>9
    <2>4. p \in m + 1..c
      BY <1>1, <1>3, <2>2, <2>3
    <2> QED BY <2>1, <2>4, <1>5
  <1>10. /\ LeftOf(o, S) \subseteq S \ {o[m]} /\ RightOf(o, S) \subseteq S \ {o[m]}
         /\ RightOf(o, S) = (S \ {o[m]}) \ LeftOf(o, S)
    BY <1>7, <1>8, <1>9
  <1>11. IsFiniteSet(S \ {o[m]}) /\ Cardinality(S \ {o[m]}) = c - 1
    BY <1>1, <1>6, FS_RemoveElement DEF c
  <1>12. \A A \in SUBSET (S \ {o[m]}) : Cardinality(A) \in Nat /\ Cardinality(A) <= c - 1
    <2> TAKE A \in SUBSET (S \ {o[m]})
    <2>1. IsFiniteSet(A) /\ Cardinality(A) <= Cardinality(S \ {o[m]})
      BY <1>11, FS_Subset
    <2> QED BY <2>1, <1>11, FS_CardinalityType
  <1>13. /\ Cardinality(LeftOf(o, S)) \in Nat /\ Cardinality(LeftOf(o, S)) <= c - 1
         /\ Cardinality(RightOf(o, S)) \in Nat /\ Cardinality(RightOf(o, S)) <= c - 1
    BY <1>10, <1>12
  <1> QED BY <1>1, <1>2, <1>6, <1>7, <1>8, <1>10, <1>13 DEF c, m

-----------------------------------------------------------------------------
\* buildKDTree, level by level
Joined(x, A, B) == {[rec |-> x, left |-> l, right |-> r] : l \in A, r \in B}
BuildAt(g, ps, S, d) ==
    IF S = {} THEN {NoNode}
    ELSE UNION {Joined(o[Median(S)], g[LeftOf(o, S)][d + 1], g[RightOf(o, S)][d + 1]) : o \in Sorted(ps, S, d)}
BuildEq(g, ps) == g = [S \in SUBSET DOMAIN ps |-> [d \in Nat |-> BuildAt(g, ps, S, d)]]
Built(ps) == CHOOSE g : BuildEq(g, ps)

LEMMA BuildIs ==
    ASSUME NEW ps
    PROVE buildKDTree(ps) = Built(ps)
  BY DEF buildKDTree, Built, BuildEq, BuildAt, Joined, Median, LeftOf, RightOf

\* One level uses what is below it on smaller sets only.
LEMMA BuildLocal ==
    ASSUME NEW ps \in Seq(Point), NEW S \in SUBSET DOMAIN ps, NEW d \in Nat, NEW f, NEW g,
           \A A \in SUBSET DOMAIN ps : Cardinality(A) <= Cardinality(S) - 1 => f[A] = g[A]
    PROVE BuildAt(f, ps, S, d) = BuildAt(g, ps, S, d)
  <1>1. CASE S = {}
    BY <1>1 DEF BuildAt
  <1>2. CASE S # {}
    <2>1. ASSUME NEW o \in Sorted(ps, S, d)
          PROVE f[LeftOf(o, S)] = g[LeftOf(o, S)] /\ f[RightOf(o, S)] = g[RightOf(o, S)]
      BY <1>2, Parts
    <2> DEFINE Join(h, o) == Joined(o[Median(S)], h[LeftOf(o, S)][d + 1], h[RightOf(o, S)][d + 1])
    <2>2. ASSUME NEW o \in Sorted(ps, S, d) PROVE Join(f, o) = Join(g, o)
      BY <2>1
    <2> HIDE DEF Join
    <2>3. {Join(f, o) : o \in Sorted(ps, S, d)} = {Join(g, o) : o \in Sorted(ps, S, d)}
      BY <2>2
    <2>4. UNION {Join(f, o) : o \in Sorted(ps, S, d)} = UNION {Join(g, o) : o \in Sorted(ps, S, d)}
      BY <2>3
    <2> QED BY <1>2, <2>4, Zenon DEF BuildAt, Join
  <1> QED BY <1>1, <1>2

LEMMA Subsets ==
    ASSUME NEW ps \in Seq(Point)
    PROVE /\ DOMAIN ps = 1..Len(ps) /\ Len(ps) \in Nat
          /\ IsFiniteSet(DOMAIN ps) /\ Cardinality(DOMAIN ps) = Len(ps)
          /\ \A S \in SUBSET DOMAIN ps : Cardinality(S) \in Nat /\ Cardinality(S) <= Len(ps)
  <1>1. DOMAIN ps = 1..Len(ps) /\ Len(ps) \in Nat
    OBVIOUS
  <1>2. IsFiniteSet(DOMAIN ps) /\ Cardinality(DOMAIN ps) = Len(ps)
    BY <1>1, FS_Interval, SMTT(30)
  <1>3. \A S \in SUBSET DOMAIN ps : IsFiniteSet(S) /\ Cardinality(S) <= Len(ps)
    BY <1>2, FS_Subset
  <1> QED BY <1>1, <1>2, <1>3, FS_CardinalityType

LEMMA BuildExists ==
    ASSUME NEW ps \in Seq(Point)
    PROVE BuildEq(Built(ps), ps)
  <1> DEFINE D == SUBSET DOMAIN ps
             Layer(g, S) == [d \in Nat |-> BuildAt(g, ps, S, d)]
             Upto(g, m) == /\ g = [S \in D |-> g[S]]
                           /\ \A S \in D : Cardinality(S) <= m => g[S] = Layer(g, S)
             P == {m \in Nat : \E g : Upto(g, m)}
  <1>1. 0 \in P
    <2> DEFINE g == [S \in D |-> [d \in Nat |-> {NoNode}]]
    <2>1. ASSUME NEW S \in D, Cardinality(S) <= 0 PROVE g[S] = Layer(g, S)
      <3>1. S = {}
        <4>1. IsFiniteSet(S) /\ Cardinality(S) = 0
          <5>1. IsFiniteSet(S)
            BY Subsets, FS_Subset
          <5> QED BY <2>1, Subsets, <5>1
        <4> QED BY <4>1, FS_EmptySet
      <3>2. \A d \in Nat : BuildAt(g, ps, S, d) = {NoNode}
        BY <3>1 DEF BuildAt
      <3>3. Layer(g, S) = [d \in Nat |-> {NoNode}]
        BY <3>2
      <3> QED BY <3>3
    <2>2. g = [S \in D |-> g[S]]
      OBVIOUS
    <2> HIDE DEF g, Layer
    <2>3. Upto(g, 0)
      BY <2>1, <2>2
    <2> HIDE DEF Upto
    <2> QED BY <2>3
  <1>2. ASSUME NEW m \in Nat, m \in P PROVE m + 1 \in P
    <2>1. PICK g : Upto(g, m)
      BY <1>2
    <2> DEFINE f == [S \in D |-> Layer(g, S)]
    <2>2. \A S \in D : Cardinality(S) <= m => f[S] = g[S]
      BY <2>1
    <2>3. ASSUME NEW S \in D, Cardinality(S) <= m + 1 PROVE f[S] = Layer(f, S)
      <3>1. \A A \in SUBSET DOMAIN ps : Cardinality(A) <= Cardinality(S) - 1 => f[A] = g[A]
        <4> SUFFICES ASSUME NEW A \in D, Cardinality(A) <= Cardinality(S) - 1 PROVE f[A] = g[A]
          OBVIOUS
        <4>1. Cardinality(A) <= m
          <5>1. Cardinality(A) \in Nat /\ Cardinality(S) \in Nat
            BY Subsets
          <5> QED BY <5>1, <2>3
        <4> HIDE DEF f
        <4> QED BY <4>1, <2>2
      <3>2. f[S] = Layer(g, S)
        OBVIOUS
      <3> HIDE DEF f
      <3>3. \A d \in Nat : BuildAt(f, ps, S, d) = BuildAt(g, ps, S, d)
        BY <3>1, BuildLocal
      <3>4. Layer(f, S) = Layer(g, S)
        BY <3>3
      <3> QED BY <3>2, <3>4
    <2>4. f = [S \in D |-> f[S]]
      OBVIOUS
    <2> HIDE DEF f, Layer
    <2>5. Upto(f, m + 1)
      BY <2>3, <2>4, Zenon
    <2>6. m + 1 \in Nat
      OBVIOUS
    <2> HIDE DEF Upto
    <2> QED BY <2>5, <2>6
  <1>3. Len(ps) \in P
    <2> HIDE DEF P
    <2> QED BY <1>1, <1>2, StepInduct, Subsets
  <1>4. PICK g : Upto(g, Len(ps))
    BY <1>3
  <1> HIDE DEF Layer
  <1>5. \A S \in D : g[S] = Layer(g, S)
    BY <1>4, Subsets
  <1>6. [S \in D |-> g[S]] = [S \in D |-> Layer(g, S)]
    BY <1>5
  <1>7. BuildEq(g, ps)
    BY <1>4, <1>6, Zenon DEF BuildEq, Layer
  <1> QED BY <1>7 DEF Built

LEMMA BuildStep ==
    ASSUME NEW ps \in Seq(Point), NEW S \in SUBSET DOMAIN ps, NEW d \in Nat
    PROVE Built(ps)[S][d] = BuildAt(Built(ps), ps, S, d)
  <1> DEFINE g == Built(ps)
             Layer(A) == [e \in Nat |-> BuildAt(g, ps, A, e)]
  <1>1. g = [A \in SUBSET DOMAIN ps |-> Layer(A)]
    BY BuildExists DEF BuildEq
  <1>2. Layer(S)[d] = BuildAt(g, ps, S, d)
    OBVIOUS
  <1> HIDE DEF g, Layer
  <1>3. g[S] = Layer(S)
    BY <1>1
  <1> QED BY <1>2, <1>3 DEF g

-----------------------------------------------------------------------------
\* Splits, by the height of the tree
SplitAt(g, ps, t, S, d) ==
    IF t = NoNode THEN S = {}
    ELSE /\ t.rec \in S
         /\ \E L \in SUBSET (S \ {t.rec}) :
              /\ \A r \in L : Axis(ps[r], d) <= Axis(ps[t.rec], d)
              /\ \A r \in (S \ {t.rec}) \ L : Axis(ps[r], d) >= Axis(ps[t.rec], d)
              /\ g[t.left][L][d + 1] /\ g[t.right][(S \ {t.rec}) \ L][d + 1]
SplitEq(g, ps) == g = [t \in Trees(ps) |-> [S \in SUBSET DOMAIN ps |-> [d \in Nat |-> SplitAt(g, ps, t, S, d)]]]
Split(ps) == CHOOSE g : SplitEq(g, ps)

LEMMA SplitIs ==
    ASSUME NEW ps
    PROVE Splits(ps) = Split(ps)
  BY DEF Splits, Split, SplitEq, SplitAt

LEMMA TreesDown ==
    ASSUME NEW ps, Len(ps) \in Nat, NEW m \in Nat, m + 1 <= Len(ps), NEW t \in Height(ps)[m + 1]
    PROVE /\ t \in Trees(ps)
          /\ t = NoNode => t \in Height(ps)[m]
          /\ t # NoNode => /\ t.rec \in DOMAIN ps
                           /\ t.left \in Height(ps)[m] /\ t.right \in Height(ps)[m]
                           /\ t.left \in Trees(ps) /\ t.right \in Trees(ps)
  <1>1. Height(ps)[m] \subseteq Trees(ps) /\ Height(ps)[m + 1] \subseteq Trees(ps)
    BY HeightMonotone, TreesIs
  <1>2. NoNode \in Height(ps)[m]
    <2>1. Height(ps)[0] \subseteq Height(ps)[m]
      BY HeightMonotone
    <2> QED BY <2>1, HeightStep
  <1> QED BY <1>1, <1>2, TreeParts

\* What is so of a tree of height 0, and of a tree one higher, is so of every tree.
LEMMA TreesInduct ==
    ASSUME NEW ps, Len(ps) \in Nat, NEW P, NoNode \in P,
           \A m \in Nat : m + 1 <= Len(ps) /\ Height(ps)[m] \subseteq P => Height(ps)[m + 1] \subseteq P
    PROVE Trees(ps) \subseteq P
  <1> DEFINE Q == {m \in Nat : m <= Len(ps) => Height(ps)[m] \subseteq P}
  <1>1. 0 \in Q
    BY HeightStep
  <1>2. ASSUME NEW m \in Nat, m \in Q PROVE m + 1 \in Q
    BY <1>2
  <1>3. Nat \subseteq Q
    <2> HIDE DEF Q
    <2> QED BY <1>1, <1>2, StepInduct
  <1> QED BY <1>3, TreesIs

LEMMA SplitLocal ==
    ASSUME NEW ps, NEW t, NEW S, NEW d, NEW f, NEW g,
           t # NoNode => f[t.left] = g[t.left] /\ f[t.right] = g[t.right]
    PROVE SplitAt(f, ps, t, S, d) = SplitAt(g, ps, t, S, d)
  <1>1. CASE t = NoNode
    BY <1>1 DEF SplitAt
  <1>2. CASE t # NoNode
    BY <1>2, Zenon DEF SplitAt
  <1> QED BY <1>1, <1>2

LEMMA SplitExists ==
    ASSUME NEW ps \in Seq(Point)
    PROVE SplitEq(Split(ps), ps)
  <1> DEFINE T == Trees(ps)
             D == SUBSET DOMAIN ps
             Layer(g, t) == [S \in D |-> [d \in Nat |-> SplitAt(g, ps, t, S, d)]]
             Upto(g, m) == /\ g = [t \in T |-> g[t]]
                           /\ \A t \in Height(ps)[m] : g[t] = Layer(g, t)
             P == {m \in Nat : m <= Len(ps) => \E g : Upto(g, m)}
  <1>0. Len(ps) \in Nat
    OBVIOUS
  <1>1. 0 \in P
    <2> DEFINE g == [t \in T |-> [S \in D |-> [d \in Nat |-> S = {}]]]
    <2>1. NoNode \in T /\ Height(ps)[0] = {NoNode}
      BY <1>0, HeightMonotone, HeightStep, TreesIs
    <2>2. \A S, d : SplitAt(g, ps, NoNode, S, d) = (S = {})
      BY DEF SplitAt
    <2>3. g[NoNode] = [S \in D |-> [d \in Nat |-> S = {}]]
      BY <2>1
    <2>4. g = [t \in T |-> g[t]]
      OBVIOUS
    <2> HIDE DEF g
    <2>5. g[NoNode] = Layer(g, NoNode)
      BY <2>2, <2>3
    <2> HIDE DEF Layer
    <2>6. Upto(g, 0)
      BY <2>1, <2>4, <2>5
    <2> HIDE DEF Upto
    <2> QED BY <2>6
  <1>2. ASSUME NEW m \in Nat, m \in P PROVE m + 1 \in P
    <2> SUFFICES ASSUME m + 1 <= Len(ps) PROVE \E g : Upto(g, m + 1)
      <3>1. m + 1 \in Nat
        OBVIOUS
      <3> HIDE DEF Upto
      <3> QED BY <3>1
    <2>1. PICK g : Upto(g, m)
      <3>1. m <= Len(ps)
        BY <1>0
      <3> HIDE DEF Upto
      <3> QED BY <1>2, <3>1
    <2> DEFINE f == [t \in T |-> Layer(g, t)]
    <2>2. Height(ps)[m] \subseteq T /\ Height(ps)[m + 1] \subseteq T
      BY <1>0, HeightMonotone, TreesIs
    <2>3. \A t \in Height(ps)[m] : f[t] = g[t]
      BY <2>1, <2>2
    <2>4. ASSUME NEW t \in Height(ps)[m + 1] PROVE f[t] = Layer(f, t)
      <3>1. t # NoNode => f[t.left] = g[t.left] /\ f[t.right] = g[t.right]
        <4> HIDE DEF f
        <4> QED BY <1>0, <2>3, <2>4, TreesDown
      <3>2. f[t] = Layer(g, t)
        BY <2>2
      <3> HIDE DEF f
      <3>3. \A S, d : SplitAt(f, ps, t, S, d) = SplitAt(g, ps, t, S, d)
        BY <3>1, SplitLocal
      <3>4. Layer(f, t) = Layer(g, t)
        BY <3>3
      <3> QED BY <3>2, <3>4
    <2>5. f = [t \in T |-> f[t]]
      OBVIOUS
    <2> HIDE DEF f, Layer
    <2>6. Upto(f, m + 1)
      BY <2>4, <2>5, Zenon
    <2> HIDE DEF Upto
    <2> QED BY <2>6
  <1>3. Len(ps) \in P
    <2> HIDE DEF P
    <2> QED BY <1>0, <1>1, <1>2, StepInduct
  <1>4. PICK g : Upto(g, Len(ps))
    <2>1. Len(ps) <= Len(ps)
      BY <1>0
    <2> HIDE DEF Upto
    <2> QED BY <1>3, <2>1
  <1> HIDE DEF Layer
  <1>5. \A t \in T : g[t] = Layer(g, t)
    BY <1>4, TreesIs
  <1>6. [t \in T |-> g[t]] = [t \in T |-> Layer(g, t)]
    BY <1>5
  <1>7. SplitEq(g, ps)
    BY <1>4, <1>6, Zenon DEF SplitEq, Layer
  <1> QED BY <1>7 DEF Split

LEMMA SplitStep ==
    ASSUME NEW ps \in Seq(Point), NEW t \in Trees(ps), NEW S \in SUBSET DOMAIN ps, NEW d \in Nat
    PROVE Split(ps)[t][S][d] = SplitAt(Split(ps), ps, t, S, d)
  <1> DEFINE g == Split(ps)
             Row(u, A) == [e \in Nat |-> SplitAt(g, ps, u, A, e)]
             Layer(u) == [A \in SUBSET DOMAIN ps |-> Row(u, A)]
  <1>1. g = [u \in Trees(ps) |-> Layer(u)]
    BY SplitExists DEF SplitEq
  <1>2. Row(t, S)[d] = SplitAt(g, ps, t, S, d)
    OBVIOUS
  <1> HIDE DEF g, Row
  <1>3. Layer(t)[S] = Row(t, S)
    OBVIOUS
  <1> HIDE DEF Layer
  <1>4. g[t] = Layer(t)
    BY <1>1
  <1> QED BY <1>2, <1>3, <1>4 DEF g

-----------------------------------------------------------------------------
Sound(ps, S, d) ==
    \A t \in Built(ps)[S][d] : t \in Height(ps)[Cardinality(S)] /\ Split(ps)[t][S][d]

LEMMA SoundStep ==
    ASSUME NEW ps \in Seq(Point), NEW S \in SUBSET DOMAIN ps, NEW d \in Nat,
           \A A \in SUBSET DOMAIN ps : Cardinality(A) <= Cardinality(S) - 1 => Sound(ps, A, d + 1)
    PROVE Sound(ps, S, d)
  <1>0. Len(ps) \in Nat /\ Cardinality(S) \in Nat /\ Cardinality(S) <= Len(ps)
    BY Subsets
  <1> SUFFICES ASSUME NEW t \in Built(ps)[S][d]
               PROVE t \in Height(ps)[Cardinality(S)] /\ Split(ps)[t][S][d]
    BY DEF Sound
  <1>1. t \in BuildAt(Built(ps), ps, S, d)
    BY BuildStep
  <1>2. CASE S = {}
    <2>1. t = NoNode /\ Cardinality(S) = 0
      BY <1>1, <1>2, FS_EmptySet DEF BuildAt
    <2>2. t \in Height(ps)[Cardinality(S)]
      BY <1>0, <2>1, HeightStep
    <2>3. t \in Trees(ps)
      BY <1>0, <2>1, HeightBottom
    <2>4. SplitAt(Split(ps), ps, t, S, d)
      BY <2>1, <1>2 DEF SplitAt
    <2> QED BY <2>2, <2>3, <2>4, SplitStep
  <1>3. CASE S # {}
    <2> DEFINE Join(o) == Joined(o[Median(S)], Built(ps)[LeftOf(o, S)][d + 1], Built(ps)[RightOf(o, S)][d + 1])
    <2>1. t \in UNION {Join(o) : o \in Sorted(ps, S, d)}
      BY <1>1, <1>3 DEF BuildAt
    <2> HIDE DEF Join
    <2>2. PICK o \in Sorted(ps, S, d) : t \in Join(o)
      BY <2>1
    <2> DEFINE x == o[Median(S)]
               L == LeftOf(o, S)
               R == RightOf(o, S)
    <2>3. /\ x \in S /\ L \in SUBSET (S \ {x}) /\ R = (S \ {x}) \ L
          /\ \A r \in L : Axis(ps[r], d) <= Axis(ps[x], d)
          /\ \A r \in R : Axis(ps[r], d) >= Axis(ps[x], d)
          /\ Cardinality(S) \in Nat \ {0}
          /\ Cardinality(L) \in Nat /\ Cardinality(L) <= Cardinality(S) - 1
          /\ Cardinality(R) \in Nat /\ Cardinality(R) <= Cardinality(S) - 1
      BY <1>3, Parts
    <2>4. t \in Joined(x, Built(ps)[L][d + 1], Built(ps)[R][d + 1])
      BY <2>2 DEF Join
    <2> HIDE DEF x, L, R
    <2>5. PICK l \in Built(ps)[L][d + 1], r \in Built(ps)[R][d + 1] : t = [rec |-> x, left |-> l, right |-> r]
      BY <2>4 DEF Joined
    <2>6. L \in SUBSET DOMAIN ps /\ R \in SUBSET DOMAIN ps
      BY <2>3
    <2>7. Sound(ps, L, d + 1) /\ Sound(ps, R, d + 1)
      BY <2>3, <2>6
    <2>8. /\ l \in Height(ps)[Cardinality(L)] /\ Split(ps)[l][L][d + 1]
          /\ r \in Height(ps)[Cardinality(R)] /\ Split(ps)[r][R][d + 1]
      BY <2>5, <2>7 DEF Sound
    <2> DEFINE c == Cardinality(S)
    <2>9. c \in 0..Len(ps) /\ c # 0 /\ c - 1 \in Nat /\ c - 1 <= Len(ps)
      BY <2>3, <1>0
    <2>10. l \in Height(ps)[c - 1] /\ r \in Height(ps)[c - 1]
      <3>1. Height(ps)[Cardinality(L)] \subseteq Height(ps)[c - 1]
        BY <1>0, <2>3, <2>9, HeightMonotone
      <3>2. Height(ps)[Cardinality(R)] \subseteq Height(ps)[c - 1]
        BY <1>0, <2>3, <2>9, HeightMonotone
      <3> QED BY <3>1, <3>2, <2>8
    <2>11. Height(ps)[c] = Grown(DOMAIN ps, Height(ps)[c - 1])
      BY <1>0, <2>9, HeightStep
    <2>12. t \in Height(ps)[c]
      <3>1. x \in DOMAIN ps
        BY <2>3
      <3>2. t \in [rec : DOMAIN ps, left : Height(ps)[c - 1], right : Height(ps)[c - 1]]
        BY <3>1, <2>5, <2>10
      <3> QED BY <3>2, <2>11 DEF Grown
    <2>13. t \in Trees(ps)
      <3>1. Height(ps)[c] \subseteq Height(ps)[Len(ps)]
        BY <1>0, HeightMonotone
      <3> QED BY <3>1, <2>12, TreesIs
    <2>14. t # NoNode /\ t.rec = x /\ t.left = l /\ t.right = r
      <3>1. t.left = l /\ t.right = r /\ t.rec = x
        BY <2>5
      <3>2. t # NoNode
        <4>1. x # 0
          BY <2>3
        <4>2. NoNode.rec = 0
          BY DEF NoNode
        <4> QED BY <3>1, <4>1, <4>2
      <3> QED BY <3>1, <3>2
    <2>15. SplitAt(Split(ps), ps, t, S, d)
      <3>1. t.rec \in S
        BY <2>3, <2>14
      <3>2. /\ L \in SUBSET (S \ {t.rec})
            /\ \A q \in L : Axis(ps[q], d) <= Axis(ps[t.rec], d)
            /\ \A q \in (S \ {t.rec}) \ L : Axis(ps[q], d) >= Axis(ps[t.rec], d)
            /\ Split(ps)[t.left][L][d + 1] /\ Split(ps)[t.right][(S \ {t.rec}) \ L][d + 1]
        BY <2>3, <2>8, <2>14, Zenon
      <3> QED BY <2>14, <3>1, <3>2, Zenon DEF SplitAt
    <2> QED BY <2>12, <2>13, <2>15, SplitStep
  <1> QED BY <1>2, <1>3

LEMMA TreeRight ==
    ASSUME NEW ps \in Seq(Point)
    PROVE /\ TreeSound(ps)
          /\ \A t \in mk(ps) : t \in Trees(ps) /\ (DOMAIN ps # {} => t # NoNode /\ t.rec \in DOMAIN ps)
  <1> DEFINE P == {m \in Nat : \A S \in SUBSET DOMAIN ps : Cardinality(S) = m => \A d \in Nat : Sound(ps, S, d)}
  <1>1. ASSUME NEW m \in Nat, \A l \in Nat : l < m => l \in P PROVE m \in P
    <2> SUFFICES ASSUME NEW S \in SUBSET DOMAIN ps, Cardinality(S) = m, NEW d \in Nat PROVE Sound(ps, S, d)
      OBVIOUS
    <2>1. ASSUME NEW A \in SUBSET DOMAIN ps, Cardinality(A) <= Cardinality(S) - 1 PROVE Sound(ps, A, d + 1)
      <3>1. Cardinality(A) \in Nat /\ Cardinality(A) < m /\ d + 1 \in Nat
        BY <2>1, Subsets
      <3>2. Cardinality(A) \in P
        BY <3>1, <1>1
      <3> QED BY <3>1, <3>2
    <2> QED BY <2>1, SoundStep
  <1>2. Nat \subseteq P
    <2> HIDE DEF P
    <2> QED BY <1>1, StrongInduct
  <1>3. Sound(ps, DOMAIN ps, 0)
    <2>1. Cardinality(DOMAIN ps) \in P
      BY <1>2, Subsets
    <2> QED BY <2>1
  <1>4. Cardinality(DOMAIN ps) = Len(ps)
    BY Subsets
  <1>5. mk(ps) = Built(ps)[DOMAIN ps][0]
    BY BuildIs DEF mk
  <1>6. \A t \in mk(ps) : t \in Trees(ps) /\ Split(ps)[t][DOMAIN ps][0]
    BY <1>3, <1>4, <1>5, TreesIs DEF Sound
  <1>7. ASSUME NEW t \in mk(ps), DOMAIN ps # {} PROVE t # NoNode /\ t.rec \in DOMAIN ps
    <2>1. SplitAt(Split(ps), ps, t, DOMAIN ps, 0)
      BY <1>6, SplitStep
    <2> QED BY <2>1, <1>7 DEF SplitAt
  <1> QED BY <1>6, <1>7, SplitIs DEF TreeSound

\* The distances of the records are numbers.
LEMMA Distances ==
    ASSUME NEW ps \in Seq(Point), NEW q \in Point
    PROVE \A r \in DOMAIN ps : distanceSquared(ps[r], q) \in Int
  <1> SUFFICES ASSUME NEW p \in Point PROVE distanceSquared(p, q) \in Int
    OBVIOUS
  <1>1. p.lon \in Int /\ p.lat \in Int /\ q.lon \in Int /\ q.lat \in Int
    BY DEF Point
  <1> QED BY <1>1 DEF distanceSquared

-----------------------------------------------------------------------------
\* The scan
ScanBody(g, ps, q, m) ==
    IF m = 0 THEN 1
    ELSE IF distanceSquared(ps[m], q) < distanceSquared(ps[g[m - 1]], q) THEN m ELSE g[m - 1]
ScanEq(g, ps, q) == g = [m \in 0..Len(ps) |-> ScanBody(g, ps, q, m)]
Scan(ps, q) == CHOOSE g : ScanEq(g, ps, q)

LEMMA ScanIs ==
    ASSUME NEW ps, NEW q
    PROVE coord_lookup_naive(ps, q) = IF DOMAIN ps = {} THEN NoNode ELSE Scan(ps, q)[Len(ps)]
  BY DEF coord_lookup_naive, Scan, ScanEq, ScanBody

LEMMA ScanExists ==
    ASSUME NEW ps, NEW q, Len(ps) \in Nat
    PROVE ScanEq(Scan(ps, q), ps, q)
  <1> DEFINE N == Len(ps)
             Upto(g, m) == /\ g = [h \in 0..N |-> g[h]]
                           /\ \A h \in 0..N : h <= m => g[h] = ScanBody(g, ps, q, h)
             P == {m \in Nat : \E g : Upto(g, m)}
  <1>1. 0 \in P
    <2> DEFINE g == [h \in 0..N |-> 1]
    <2>1. Upto(g, 0)
      BY DEF ScanBody
    <2> QED BY <2>1, Zenon
  <1>2. ASSUME NEW m \in Nat, m \in P PROVE m + 1 \in P
    <2>1. PICK g : Upto(g, m)
      BY <1>2
    <2> DEFINE f == [h \in 0..N |-> ScanBody(g, ps, q, h)]
    <2>2. ASSUME NEW h \in 0..N, h <= m + 1 PROVE f[h] = ScanBody(f, ps, q, h)
      <3>1. CASE h = 0
        BY <3>1 DEF ScanBody
      <3>2. CASE h # 0
        <4>1. h - 1 \in 0..N /\ h - 1 <= m
          BY <3>2, <2>2
        <4>2. f[h - 1] = g[h - 1]
          BY <4>1, <2>1
        <4>3. f[h] = ScanBody(g, ps, q, h)
          OBVIOUS
        <4> HIDE DEF f
        <4> QED BY <4>2, <4>3, <3>2 DEF ScanBody
      <3> QED BY <3>1, <3>2
    <2>3. f = [h \in 0..N |-> f[h]]
      OBVIOUS
    <2> HIDE DEF f
    <2>4. Upto(f, m + 1)
      BY <2>2, <2>3
    <2>5. m + 1 \in Nat
      OBVIOUS
    <2> HIDE DEF Upto
    <2> QED BY <2>4, <2>5
  <1>3. N \in P
    <2> HIDE DEF P
    <2> QED BY <1>1, <1>2, StepInduct
  <1>4. PICK g : Upto(g, N)
    BY <1>3
  <1>5. \A h \in 0..N : g[h] = ScanBody(g, ps, q, h)
    BY <1>4
  <1>6. [h \in 0..N |-> g[h]] = [h \in 0..N |-> ScanBody(g, ps, q, h)]
    BY <1>5
  <1>7. ScanEq(g, ps, q)
    BY <1>4, <1>6, Zenon DEF ScanEq
  <1> QED BY <1>7 DEF Scan

\* After m records the scan holds the nearest of them.
LEMMA ScanRight ==
    ASSUME NEW ps \in Seq(Point), NEW q \in Point, DOMAIN ps # {}
    PROVE Nearest(ps, q, coord_lookup_naive(ps, q))
  <1> DEFINE N == Len(ps)
             g == Scan(ps, q)
             dist(r) == distanceSquared(ps[r], q)
             P == {m \in Nat : m <= N => /\ g[m] \in DOMAIN ps
                                         /\ \A s \in 1..m : dist(g[m]) <= dist(s)}
  <1>1. N \in Nat /\ DOMAIN ps = 1..N /\ 1 \in DOMAIN ps
    OBVIOUS
  <1>2. g = [m \in 0..N |-> ScanBody(g, ps, q, m)]
    BY <1>1, ScanExists DEF ScanEq
  <1> HIDE DEF g
  <1>3. /\ g[0] = 1
        /\ \A m \in 1..N : g[m] = IF dist(m) < dist(g[m - 1]) THEN m ELSE g[m - 1]
    BY <1>1, <1>2 DEF ScanBody
  <1>4. \A r \in DOMAIN ps : dist(r) \in Int
    BY Distances
  <1> HIDE DEF dist
  <1>5. 0 \in P
    BY <1>1, <1>3
  <1>6. ASSUME NEW m \in Nat, m \in P PROVE m + 1 \in P
    <2> SUFFICES ASSUME m + 1 <= N
                 PROVE /\ g[m + 1] \in DOMAIN ps
                       /\ \A s \in 1..m + 1 : dist(g[m + 1]) <= dist(s)
      OBVIOUS
    <2>1. m + 1 \in 1..N /\ (m + 1) - 1 = m /\ m <= N
      BY <1>1
    <2>2. g[m] \in DOMAIN ps /\ \A s \in 1..m : dist(g[m]) <= dist(s)
      BY <1>6, <2>1
    <2>3. g[m + 1] = IF dist(m + 1) < dist(g[m]) THEN m + 1 ELSE g[m]
      BY <1>3, <2>1
    <2>4. g[m + 1] \in DOMAIN ps
      BY <1>1, <2>1, <2>2, <2>3
    <2>5. dist(g[m + 1]) <= dist(g[m]) /\ dist(g[m + 1]) <= dist(m + 1)
      BY <1>1, <1>4, <2>1, <2>2, <2>3
    <2>6. ASSUME NEW s \in 1..m + 1 PROVE dist(g[m + 1]) <= dist(s)
      <3>1. CASE s = m + 1
        BY <3>1, <2>5
      <3>2. CASE s # m + 1
        <4>1. s \in 1..m /\ s \in DOMAIN ps
          BY <3>2, <1>1
        <4>2. dist(g[m]) <= dist(s)
          BY <4>1, <2>2
        <4>3. dist(s) \in Int /\ dist(g[m]) \in Int /\ dist(g[m + 1]) \in Int
          BY <1>4, <4>1, <2>2, <2>4
        <4> QED BY <4>2, <4>3, <2>5
      <3> QED BY <3>1, <3>2
    <2> QED BY <2>4, <2>6
  <1>7. N \in P
    <2> HIDE DEF P
    <2> QED BY <1>1, <1>5, <1>6, StepInduct
  <1>8. coord_lookup_naive(ps, q) = g[N]
    BY ScanIs DEF g
  <1>9. \A s \in DOMAIN ps : dist(g[N]) <= dist(s)
    BY <1>1, <1>7
  <1> QED BY <1>8, <1>9 DEF Nearest, dist

-----------------------------------------------------------------------------
\* The descent into the tree, by its height
LookAt(g, ps, q, node, d, c) ==
    IF node = NoNode THEN c
    ELSE
    LET closest_dist == distanceSquared(ps[c], q)
        nearer == IF distanceSquared(ps[node.rec], q) < closest_dist THEN node.rec ELSE c
        di == Axis(ps[node.rec], d) - Axis(q, d)
        first == IF di < 0 THEN node.left ELSE node.right
        other == IF di < 0 THEN node.right ELSE node.left
        found == g[first][d + 1][nearer]
    IN IF di * di < closest_dist THEN g[other][d + 1][found] ELSE found
LookEq(g, ps, q) ==
    g = [node \in Trees(ps) |-> [d \in Nat |-> [c \in DOMAIN ps |-> LookAt(g, ps, q, node, d, c)]]]
Look(ps, q) == CHOOSE g : LookEq(g, ps, q)

LEMMA LookIs ==
    ASSUME NEW ps, NEW q
    PROVE lookup_tree(ps, q) = Look(ps, q)
  BY DEF lookup_tree, Look, LookEq, LookAt

LEMMA LookLocal ==
    ASSUME NEW ps, NEW q, NEW node, NEW d, NEW c, NEW f, NEW g,
           node # NoNode => f[node.left] = g[node.left] /\ f[node.right] = g[node.right]
    PROVE LookAt(f, ps, q, node, d, c) = LookAt(g, ps, q, node, d, c)
  <1>1. CASE node = NoNode
    BY <1>1 DEF LookAt
  <1>2. CASE node # NoNode
    <2> DEFINE nearer == IF distanceSquared(ps[node.rec], q) < distanceSquared(ps[c], q) THEN node.rec ELSE c
               di == Axis(ps[node.rec], d) - Axis(q, d)
               first == IF di < 0 THEN node.left ELSE node.right
               other == IF di < 0 THEN node.right ELSE node.left
    <2>1. f[first] = g[first] /\ f[other] = g[other]
      <3> HIDE DEF di
      <3> QED BY <1>2
    <2>2. \A h : LookAt(h, ps, q, node, d, c) =
                   IF di * di < distanceSquared(ps[c], q)
                   THEN h[other][d + 1][h[first][d + 1][nearer]] ELSE h[first][d + 1][nearer]
      BY <1>2 DEF LookAt
    <2> HIDE DEF di, first, other, nearer
    <2> QED BY <2>1, <2>2
  <1> QED BY <1>1, <1>2

LEMMA LookExists ==
    ASSUME NEW ps \in Seq(Point), NEW q
    PROVE LookEq(Look(ps, q), ps, q)
  <1> DEFINE T == Trees(ps)
             Layer(g, t) == [d \in Nat |-> [c \in DOMAIN ps |-> LookAt(g, ps, q, t, d, c)]]
             Upto(g, m) == /\ g = [t \in T |-> g[t]]
                           /\ \A t \in Height(ps)[m] : g[t] = Layer(g, t)
             P == {m \in Nat : m <= Len(ps) => \E g : Upto(g, m)}
  <1>0. Len(ps) \in Nat
    OBVIOUS
  <1>1. 0 \in P
    <2> DEFINE g == [t \in T |-> [d \in Nat |-> [c \in DOMAIN ps |-> c]]]
    <2>1. NoNode \in T /\ Height(ps)[0] = {NoNode}
      BY <1>0, HeightMonotone, HeightStep, TreesIs
    <2>2. \A d, c : LookAt(g, ps, q, NoNode, d, c) = c
      BY DEF LookAt
    <2>3. g[NoNode] = [d \in Nat |-> [c \in DOMAIN ps |-> c]]
      BY <2>1
    <2>4. g = [t \in T |-> g[t]]
      OBVIOUS
    <2> HIDE DEF g
    <2>5. g[NoNode] = Layer(g, NoNode)
      BY <2>2, <2>3
    <2> HIDE DEF Layer
    <2>6. Upto(g, 0)
      BY <2>1, <2>4, <2>5
    <2> HIDE DEF Upto
    <2> QED BY <2>6
  <1>2. ASSUME NEW m \in Nat, m \in P PROVE m + 1 \in P
    <2> SUFFICES ASSUME m + 1 <= Len(ps) PROVE \E g : Upto(g, m + 1)
      <3>1. m + 1 \in Nat
        OBVIOUS
      <3> HIDE DEF Upto
      <3> QED BY <3>1
    <2>1. PICK g : Upto(g, m)
      <3>1. m <= Len(ps)
        BY <1>0
      <3> HIDE DEF Upto
      <3> QED BY <1>2, <3>1
    <2> DEFINE f == [t \in T |-> Layer(g, t)]
    <2>2. Height(ps)[m] \subseteq T /\ Height(ps)[m + 1] \subseteq T
      BY <1>0, HeightMonotone, TreesIs
    <2>3. \A t \in Height(ps)[m] : f[t] = g[t]
      BY <2>1, <2>2
    <2>4. ASSUME NEW t \in Height(ps)[m + 1] PROVE f[t] = Layer(f, t)
      <3>1. t # NoNode => f[t.left] = g[t.left] /\ f[t.right] = g[t.right]
        <4> HIDE DEF f
        <4> QED BY <1>0, <2>3, <2>4, TreesDown
      <3>2. f[t] = Layer(g, t)
        BY <2>2
      <3> HIDE DEF f
      <3>3. \A d, c : LookAt(f, ps, q, t, d, c) = LookAt(g, ps, q, t, d, c)
        BY <3>1, LookLocal
      <3>4. Layer(f, t) = Layer(g, t)
        BY <3>3
      <3> QED BY <3>2, <3>4
    <2>5. f = [t \in T |-> f[t]]
      OBVIOUS
    <2> HIDE DEF f, Layer
    <2>6. Upto(f, m + 1)
      BY <2>4, <2>5, Zenon
    <2> HIDE DEF Upto
    <2> QED BY <2>6
  <1>3. Len(ps) \in P
    <2> HIDE DEF P
    <2> QED BY <1>0, <1>1, <1>2, StepInduct
  <1>4. PICK g : Upto(g, Len(ps))
    <2>1. Len(ps) <= Len(ps)
      BY <1>0
    <2> HIDE DEF Upto
    <2> QED BY <1>3, <2>1
  <1> HIDE DEF Layer
  <1>5. \A t \in T : g[t] = Layer(g, t)
    BY <1>4, TreesIs
  <1>6. [t \in T |-> g[t]] = [t \in T |-> Layer(g, t)]
    BY <1>5
  <1>7. LookEq(g, ps, q)
    BY <1>4, <1>6, Zenon DEF LookEq, Layer
  <1> QED BY <1>7 DEF Look

LEMMA LookStep ==
    ASSUME NEW ps \in Seq(Point), NEW q, NEW t \in Trees(ps), NEW d \in Nat, NEW c \in DOMAIN ps
    PROVE Look(ps, q)[t][d][c] = LookAt(Look(ps, q), ps, q, t, d, c)
  <1> DEFINE g == Look(ps, q)
             Row(u, e) == [b \in DOMAIN ps |-> LookAt(g, ps, q, u, e, b)]
             Layer(u) == [e \in Nat |-> Row(u, e)]
  <1>1. g = [u \in Trees(ps) |-> Layer(u)]
    BY LookExists DEF LookEq
  <1>2. Row(t, d)[c] = LookAt(g, ps, q, t, d, c)
    OBVIOUS
  <1> HIDE DEF g, Row
  <1>3. Layer(t)[d] = Row(t, d)
    OBVIOUS
  <1> HIDE DEF Layer
  <1>4. g[t] = Layer(t)
    BY <1>1
  <1> QED BY <1>2, <1>3, <1>4 DEF g

\* The descent ends at a record no farther than the one it started with.
LEMMA LookNearer ==
    ASSUME NEW ps \in Seq(Point), NEW q \in Point
    PROVE \A t \in Trees(ps), d \in Nat, c \in DOMAIN ps :
            /\ Look(ps, q)[t][d][c] \in DOMAIN ps
            /\ distanceSquared(ps[Look(ps, q)[t][d][c]], q) <= distanceSquared(ps[c], q)
  <1> DEFINE g == Look(ps, q)
             dist(r) == distanceSquared(ps[r], q)
             Nearer(t, d, c) == g[t][d][c] \in DOMAIN ps /\ dist(g[t][d][c]) <= dist(c)
             P == {t \in Trees(ps) : \A d \in Nat : \A c \in DOMAIN ps : Nearer(t, d, c)}
  <1>0. Len(ps) \in Nat
    OBVIOUS
  <1>1. \A r \in DOMAIN ps : dist(r) \in Int
    BY Distances
  <1>2. \A t \in Trees(ps), d \in Nat, c \in DOMAIN ps : g[t][d][c] = LookAt(g, ps, q, t, d, c)
    BY LookStep
  <1> HIDE DEF g
  <1>3. NoNode \in P
    <2>1. NoNode \in Trees(ps)
      BY <1>0, HeightBottom
    <2>2. ASSUME NEW d \in Nat, NEW c \in DOMAIN ps PROVE Nearer(NoNode, d, c)
      <3>1. g[NoNode][d][c] = c
        BY <1>2, <2>1 DEF LookAt
      <3>2. dist(c) <= dist(c)
        <4> HIDE DEF dist
        <4> QED BY <1>1
      <3> HIDE DEF dist
      <3> QED BY <3>1, <3>2
    <2> HIDE DEF Nearer
    <2> QED BY <2>1, <2>2
  <1>4. ASSUME NEW m \in Nat, m + 1 <= Len(ps), Height(ps)[m] \subseteq P
        PROVE Height(ps)[m + 1] \subseteq P
    <2> SUFFICES ASSUME NEW t \in Height(ps)[m + 1] PROVE t \in P
      OBVIOUS
    <2>1. CASE t = NoNode
      BY <2>1, <1>3
    <2>2. CASE t # NoNode
      <3>1. /\ t \in Trees(ps) /\ t.rec \in DOMAIN ps
            /\ t.left \in P /\ t.right \in P
        BY <1>0, <1>4, <2>2, TreesDown
      <3>2. ASSUME NEW d \in Nat, NEW c \in DOMAIN ps PROVE Nearer(t, d, c)
        <4> DEFINE nearer == IF dist(t.rec) < dist(c) THEN t.rec ELSE c
                   di == Axis(ps[t.rec], d) - Axis(q, d)
                   first == IF di < 0 THEN t.left ELSE t.right
                   other == IF di < 0 THEN t.right ELSE t.left
                   found == g[first][d + 1][nearer]
        <4>1. g[t][d][c] = IF di * di < dist(c) THEN g[other][d + 1][found] ELSE found
          BY <1>2, <3>1, <2>2 DEF LookAt
        <4> HIDE DEF dist
        <4>2. nearer \in DOMAIN ps /\ dist(nearer) <= dist(c)
          <5>1. t.rec \in DOMAIN ps /\ dist(t.rec) \in Int /\ dist(c) \in Int
            BY <1>1, <3>1
          <5>2. CASE dist(t.rec) < dist(c)
            BY <5>1, <5>2
          <5>3. CASE ~(dist(t.rec) < dist(c))
            BY <5>1, <5>3
          <5> QED BY <5>2, <5>3
        <4>3. first \in P /\ other \in P
          <5> HIDE DEF di, P
          <5> QED BY <3>1
        <4> HIDE DEF di, first, other, nearer
        <4>4. d + 1 \in Nat
          OBVIOUS
        <4>5. Nearer(first, d + 1, nearer)
          BY <4>2, <4>3, <4>4
        <4>6. found \in DOMAIN ps /\ dist(found) <= dist(c)
          BY <4>5, <4>2, <1>1
        <4> HIDE DEF found
        <4>7. Nearer(other, d + 1, found)
          BY <4>3, <4>4, <4>6
        <4>8. g[other][d + 1][found] \in DOMAIN ps /\ dist(g[other][d + 1][found]) <= dist(c)
          BY <4>7, <4>6, <1>1
        <4>9. g[t][d][c] = g[other][d + 1][found] \/ g[t][d][c] = found
          BY <4>1
        <4> QED BY <4>6, <4>8, <4>9
      <3> HIDE DEF Nearer
      <3> QED BY <3>1, <3>2
    <2> QED BY <2>1, <2>2
  <1>5. Trees(ps) \subseteq P
    <2> HIDE DEF P
    <2> QED BY <1>0, <1>3, <1>4, TreesInduct
  <1> QED BY <1>5 DEF g

-----------------------------------------------------------------------------
\* What is so of the empty tree, and of a tree if it is so of its subtrees, is
\* so of every tree.
LEMMA SubtreesInduct ==
    ASSUME NEW ps, Len(ps) \in Nat, NEW P, NoNode \in P,
           \A t \in Trees(ps) :
             /\ t # NoNode /\ t.rec \in DOMAIN ps
             /\ t.left \in Trees(ps) \cap P /\ t.right \in Trees(ps) \cap P
             => t \in P
    PROVE Trees(ps) \subseteq P
  <1>1. ASSUME NEW m \in Nat, m + 1 <= Len(ps), Height(ps)[m] \subseteq P
        PROVE Height(ps)[m + 1] \subseteq P
    <2> SUFFICES ASSUME NEW t \in Height(ps)[m + 1], t # NoNode PROVE t \in P
      OBVIOUS
    <2>1. /\ t \in Trees(ps) /\ t.rec \in DOMAIN ps
          /\ t.left \in Height(ps)[m] /\ t.right \in Height(ps)[m]
          /\ t.left \in Trees(ps) /\ t.right \in Trees(ps)
      BY <1>1, TreesDown
    <2> QED BY <1>1, <2>1
  <1> QED BY <1>1, TreesInduct

\* TreeNodes(ps), by the height of the tree
NodesAt(g, t, d) ==
    IF t = NoNode THEN {} ELSE {<<t, d>>} \cup g[t.left][d + 1] \cup g[t.right][d + 1]
NodesEq(g, ps) == g = [t \in Trees(ps) |-> [d \in Nat |-> NodesAt(g, t, d)]]
NodesOf(ps) == CHOOSE g : NodesEq(g, ps)

LEMMA NodesIs ==
    ASSUME NEW ps
    PROVE TreeNodes(ps) = NodesOf(ps)
  BY DEF TreeNodes, NodesOf, NodesEq, NodesAt

LEMMA NodesLocal ==
    ASSUME NEW t, NEW d, NEW f, NEW g,
           t # NoNode => f[t.left] = g[t.left] /\ f[t.right] = g[t.right]
    PROVE NodesAt(f, t, d) = NodesAt(g, t, d)
  BY DEF NodesAt

LEMMA NodesExists ==
    ASSUME NEW ps \in Seq(Point)
    PROVE NodesEq(NodesOf(ps), ps)
  <1> DEFINE T == Trees(ps)
             Layer(g, t) == [d \in Nat |-> NodesAt(g, t, d)]
             Upto(g, m) == /\ g = [t \in T |-> g[t]]
                           /\ \A t \in Height(ps)[m] : g[t] = Layer(g, t)
             P == {m \in Nat : m <= Len(ps) => \E g : Upto(g, m)}
  <1>0. Len(ps) \in Nat
    OBVIOUS
  <1>1. 0 \in P
    <2> DEFINE g == [t \in T |-> [d \in Nat |-> {}]]
    <2>1. NoNode \in T /\ Height(ps)[0] = {NoNode}
      BY <1>0, HeightMonotone, HeightStep, TreesIs
    <2>2. \A d : NodesAt(g, NoNode, d) = {}
      BY DEF NodesAt
    <2>3. g[NoNode] = [d \in Nat |-> {}]
      BY <2>1
    <2>4. g = [t \in T |-> g[t]]
      OBVIOUS
    <2> HIDE DEF g
    <2>5. g[NoNode] = Layer(g, NoNode)
      BY <2>2, <2>3
    <2> HIDE DEF Layer
    <2>6. Upto(g, 0)
      BY <2>1, <2>4, <2>5
    <2> HIDE DEF Upto
    <2> QED BY <2>6
  <1>2. ASSUME NEW m \in Nat, m \in P PROVE m + 1 \in P
    <2> SUFFICES ASSUME m + 1 <= Len(ps) PROVE \E g : Upto(g, m + 1)
      <3>1. m + 1 \in Nat
        OBVIOUS
      <3> HIDE DEF Upto
      <3> QED BY <3>1
    <2>1. PICK g : Upto(g, m)
      <3>1. m <= Len(ps)
        BY <1>0
      <3> HIDE DEF Upto
      <3> QED BY <1>2, <3>1
    <2> DEFINE f == [t \in T |-> Layer(g, t)]
    <2>2. Height(ps)[m] \subseteq T /\ Height(ps)[m + 1] \subseteq T
      BY <1>0, HeightMonotone, TreesIs
    <2>3. \A t \in Height(ps)[m] : f[t] = g[t]
      BY <2>1, <2>2
    <2>4. ASSUME NEW t \in Height(ps)[m + 1] PROVE f[t] = Layer(f, t)
      <3>1. t # NoNode => f[t.left] = g[t.left] /\ f[t.right] = g[t.right]
        <4> HIDE DEF f
        <4> QED BY <1>0, <2>3, <2>4, TreesDown
      <3>2. f[t] = Layer(g, t)
        BY <2>2
      <3> HIDE DEF f
      <3>3. \A d : NodesAt(f, t, d) = NodesAt(g, t, d)
        BY <3>1, NodesLocal
      <3>4. Layer(f, t) = Layer(g, t)
        BY <3>3
      <3> QED BY <3>2, <3>4
    <2>5. f = [t \in T |-> f[t]]
      OBVIOUS
    <2> HIDE DEF f, Layer
    <2>6. Upto(f, m + 1)
      BY <2>4, <2>5, Zenon
    <2> HIDE DEF Upto
    <2> QED BY <2>6
  <1>3. Len(ps) \in P
    <2> HIDE DEF P
    <2> QED BY <1>0, <1>1, <1>2, StepInduct
  <1>4. PICK g : Upto(g, Len(ps))
    <2>1. Len(ps) <= Len(ps)
      BY <1>0
    <2> HIDE DEF Upto
    <2> QED BY <1>3, <2>1
  <1> HIDE DEF Layer
  <1>5. \A t \in T : g[t] = Layer(g, t)
    BY <1>4, TreesIs
  <1>6. [t \in T |-> g[t]] = [t \in T |-> Layer(g, t)]
    BY <1>5
  <1>7. NodesEq(g, ps)
    BY <1>4, <1>6, Zenon DEF NodesEq, Layer
  <1> QED BY <1>7 DEF NodesOf

LEMMA NodesStep ==
    ASSUME NEW ps \in Seq(Point), NEW t \in Trees(ps), NEW d \in Nat
    PROVE NodesOf(ps)[t][d] = NodesAt(NodesOf(ps), t, d)
  <1> DEFINE g == NodesOf(ps)
             Layer(u) == [e \in Nat |-> NodesAt(g, u, e)]
  <1>1. g = [u \in Trees(ps) |-> Layer(u)]
    BY NodesExists DEF NodesEq
  <1>2. Layer(t)[d] = NodesAt(g, t, d)
    OBVIOUS
  <1> HIDE DEF g, Layer
  <1>3. g[t] = Layer(t)
    BY <1>1
  <1> QED BY <1>2, <1>3 DEF g

\* Every node holds a record and is at some depth.
LEMMA NodesTyped ==
    ASSUME NEW ps \in Seq(Point)
    PROVE \A t \in Trees(ps), d \in Nat : \A v \in NodesOf(ps)[t][d] :
            v[1].rec \in DOMAIN ps /\ v[2] \in Nat
  <1> DEFINE N == NodesOf(ps)
             Typed(v) == v[1].rec \in DOMAIN ps /\ v[2] \in Nat
             P == {t \in Trees(ps) : \A d \in Nat : \A v \in N[t][d] : Typed(v)}
  <1>0. Len(ps) \in Nat
    OBVIOUS
  <1>1. \A t \in Trees(ps), d \in Nat : N[t][d] = NodesAt(N, t, d)
    BY NodesStep
  <1> HIDE DEF N
  <1>2. NoNode \in P
    BY <1>0, <1>1, HeightBottom DEF NodesAt
  <1>3. ASSUME NEW t \in Trees(ps), t # NoNode, t.rec \in DOMAIN ps, t.left \in P, t.right \in P
        PROVE t \in P
    <2> SUFFICES ASSUME NEW d \in Nat, NEW v \in N[t][d] PROVE Typed(v)
      <3> HIDE DEF Typed
      <3> QED OBVIOUS
    <2>1. v = <<t, d>> \/ v \in N[t.left][d + 1] \/ v \in N[t.right][d + 1]
      BY <1>1, <1>3 DEF NodesAt
    <2>2. d + 1 \in Nat
      OBVIOUS
    <2>3. CASE v = <<t, d>>
      BY <1>3, <2>3
    <2>4. CASE v # <<t, d>>
      <3> HIDE DEF Typed
      <3> QED BY <1>3, <2>1, <2>2, <2>4
    <2> QED BY <2>3, <2>4
  <1>4. Trees(ps) \subseteq P
    <2> HIDE DEF P
    <2> QED BY <1>0, <1>2, <1>3, SubtreesInduct
  <1> QED BY <1>4 DEF N

\* A tree that splits S has every record of S in a node.
LEMMA NodesHold ==
    ASSUME NEW ps \in Seq(Point)
    PROVE \A t \in Trees(ps), S \in SUBSET DOMAIN ps, d \in Nat :
            Split(ps)[t][S][d] => \A s \in S : \E w \in NodesOf(ps)[t][d] : w[1].rec = s
  <1> DEFINE N == NodesOf(ps)
             Has(t, d, s) == \E w \in N[t][d] : w[1].rec = s
             Holds(t) == \A S \in SUBSET DOMAIN ps : \A d \in Nat :
                           Split(ps)[t][S][d] => \A s \in S : Has(t, d, s)
             P == {t \in Trees(ps) : Holds(t)}
  <1>0. Len(ps) \in Nat
    OBVIOUS
  <1>1. \A t \in Trees(ps), d \in Nat : N[t][d] = NodesAt(N, t, d)
    BY NodesStep
  <1>2. \A t \in Trees(ps), S \in SUBSET DOMAIN ps, d \in Nat :
          Split(ps)[t][S][d] = SplitAt(Split(ps), ps, t, S, d)
    BY SplitStep
  <1> HIDE DEF N
  <1>3. NoNode \in P
    <2>1. NoNode \in Trees(ps)
      BY <1>0, HeightBottom
    <2> QED BY <1>2, <2>1 DEF SplitAt
  <1>4. ASSUME NEW t \in Trees(ps), t # NoNode, t.rec \in DOMAIN ps, t.left \in P, t.right \in P
        PROVE t \in P
    <2> SUFFICES ASSUME NEW S \in SUBSET DOMAIN ps, NEW d \in Nat, Split(ps)[t][S][d], NEW s \in S
                 PROVE Has(t, d, s)
      <3> HIDE DEF Has
      <3> QED OBVIOUS
    <2>1. N[t][d] = {<<t, d>>} \cup N[t.left][d + 1] \cup N[t.right][d + 1]
      BY <1>1, <1>4 DEF NodesAt
    <2>2. d + 1 \in Nat
      OBVIOUS
    <2>3. PICK L \in SUBSET (S \ {t.rec}) :
            Split(ps)[t.left][L][d + 1] /\ Split(ps)[t.right][(S \ {t.rec}) \ L][d + 1]
      BY <1>2, <1>4 DEF SplitAt
    <2>4. CASE s = t.rec
      <3>1. <<t, d>> \in N[t][d] /\ <<t, d>>[1].rec = s
        BY <2>1, <2>4
      <3> QED BY <3>1
    <2>5. CASE s \in L
      <3>1. Holds(t.left) /\ L \in SUBSET DOMAIN ps
        BY <1>4, <2>3
      <3>2. Has(t.left, d + 1, s)
        <4> HIDE DEF Has
        <4> QED BY <3>1, <2>2, <2>3, <2>5
      <3> QED BY <3>2, <2>1
    <2>6. CASE s \in (S \ {t.rec}) \ L
      <3>1. Holds(t.right) /\ (S \ {t.rec}) \ L \in SUBSET DOMAIN ps
        BY <1>4, <2>3
      <3>2. Has(t.right, d + 1, s)
        <4> HIDE DEF Has
        <4> QED BY <3>1, <2>2, <2>3, <2>6
      <3> QED BY <3>2, <2>1
    <2> QED BY <2>4, <2>5, <2>6
  <1>5. Trees(ps) \subseteq P
    <2> HIDE DEF P
    <2> QED BY <1>0, <1>3, <1>4, SubtreesInduct
  <1> QED BY <1>5 DEF N

-----------------------------------------------------------------------------
\* PassedOver in the terms of NodesOf
Gap(ps, q, v) == Axis(ps[v[1].rec], v[2]) - Axis(q, v[2])
Own(ps, q, v) == IF Gap(ps, q, v) < 0 THEN v[1].right ELSE v[1].left
Over(ps, q, t, d, s, D) ==
    \E v \in NodesOf(ps)[t][d] :
      /\ Gap(ps, q, v) * Gap(ps, q, v) >= D
      /\ \E w \in NodesOf(ps)[Own(ps, q, v)][v[2] + 1] : w[1].rec = s

LEMMA OverIs ==
    ASSUME NEW ps, NEW q, NEW t, NEW d, NEW s, NEW D
    PROVE PassedOver(ps, q, t, d, s, D) = Over(ps, q, t, d, s, D)
  BY NodesIs DEF PassedOver, Over, Own, Gap

LEMMA GapTyped ==
    ASSUME NEW ps \in Seq(Point), NEW q \in Point, NEW v, v[1].rec \in DOMAIN ps
    PROVE Gap(ps, q, v) \in Int /\ Gap(ps, q, v) * Gap(ps, q, v) \in Int
  <1>1. ASSUME NEW p \in Point PROVE Axis(p, v[2]) \in Int
    <2>1. p.lon \in Int /\ p.lat \in Int
      BY DEF Point
    <2> QED BY <2>1 DEF Axis
  <1>2. ps[v[1].rec] \in Point
    OBVIOUS
  <1>3. Axis(ps[v[1].rec], v[2]) \in Int /\ Axis(q, v[2]) \in Int
    BY <1>1, <1>2
  <1>4. Gap(ps, q, v) \in Int
    BY <1>3 DEF Gap
  <1> HIDE DEF Gap
  <1> QED BY <1>4

\* What is passed over in a part of the tree is so in the tree, and for an
\* answer that is nearer.
LEMMA OverMore ==
    ASSUME NEW ps \in Seq(Point), NEW q \in Point, NEW t \in Trees(ps), NEW d \in Nat,
           NEW u \in Trees(ps), NEW e \in Nat, NodesOf(ps)[u][e] \subseteq NodesOf(ps)[t][d],
           NEW s, NEW D \in Int, NEW C \in Int, C <= D, Over(ps, q, u, e, s, D)
    PROVE Over(ps, q, t, d, s, C)
  <1>1. PICK v \in NodesOf(ps)[u][e] :
          /\ Gap(ps, q, v) * Gap(ps, q, v) >= D
          /\ \E w \in NodesOf(ps)[Own(ps, q, v)][v[2] + 1] : w[1].rec = s
    BY DEF Over
  <1> DEFINE x == Gap(ps, q, v) * Gap(ps, q, v)
  <1>2. x \in Int
    BY NodesTyped, GapTyped
  <1>3. x >= D
    BY <1>1
  <1> HIDE DEF x
  <1>4. x >= C
    BY <1>2, <1>3
  <1> QED BY <1>1, <1>4 DEF Over, x

\* The descent comes by every record of the tree, or passes it over.
LEMMA LookMisses ==
    ASSUME NEW ps \in Seq(Point), NEW q \in Point
    PROVE \A t \in Trees(ps), d \in Nat, c \in DOMAIN ps : \A w \in NodesOf(ps)[t][d] :
            LET D == distanceSquared(ps[Look(ps, q)[t][d][c]], q) IN
            D <= distanceSquared(ps[w[1].rec], q) \/ Over(ps, q, t, d, w[1].rec, D)
  <1> DEFINE g == Look(ps, q)
             N == NodesOf(ps)
             dist(r) == distanceSquared(ps[r], q)
             Met(t, d, s, r) == dist(r) <= dist(s) \/ Over(ps, q, t, d, s, dist(r))
             P == {t \in Trees(ps) : \A d \in Nat : \A c \in DOMAIN ps :
                     \A w \in N[t][d] : Met(t, d, w[1].rec, g[t][d][c])}
  <1>0. Len(ps) \in Nat
    OBVIOUS
  <1>1. \A r \in DOMAIN ps : dist(r) \in Int
    BY Distances
  <1>2. \A t \in Trees(ps), d \in Nat, c \in DOMAIN ps : g[t][d][c] = LookAt(g, ps, q, t, d, c)
    BY LookStep
  <1>3. \A t \in Trees(ps), d \in Nat, c \in DOMAIN ps :
          g[t][d][c] \in DOMAIN ps /\ dist(g[t][d][c]) <= dist(c)
    BY LookNearer
  <1>4. \A t \in Trees(ps), d \in Nat : N[t][d] = NodesAt(N, t, d)
    BY NodesStep
  <1>5. \A t \in Trees(ps), d \in Nat : \A w \in N[t][d] : w[1].rec \in DOMAIN ps
    BY NodesTyped
  <1>6. \A t, u \in Trees(ps), d, e \in Nat, s \in DOMAIN ps, D, C \in Int :
          N[u][e] \subseteq N[t][d] /\ C <= D /\ Over(ps, q, u, e, s, D) => Over(ps, q, t, d, s, C)
    BY OverMore
  <1>7. \A t, d, s, D : Over(ps, q, t, d, s, D) <=>
          \E v \in N[t][d] : /\ Gap(ps, q, v) * Gap(ps, q, v) >= D
                             /\ \E w \in N[Own(ps, q, v)][v[2] + 1] : w[1].rec = s
    BY DEF Over
  <1> HIDE DEF g, N, dist
  <1>8. NoNode \in P
    <2>1. NoNode \in Trees(ps)
      BY <1>0, HeightBottom
    <2>2. \A d \in Nat : N[NoNode][d] = {}
      BY <1>4, <2>1 DEF NodesAt
    <2> HIDE DEF Met
    <2> QED BY <2>1, <2>2
  <1>9. ASSUME NEW t \in Trees(ps), t # NoNode, t.rec \in DOMAIN ps,
               t.left \in Trees(ps) \cap P, t.right \in Trees(ps) \cap P
        PROVE t \in P
    <2> SUFFICES ASSUME NEW d \in Nat, NEW c \in DOMAIN ps, NEW w \in N[t][d]
                 PROVE Met(t, d, w[1].rec, g[t][d][c])
      <3> HIDE DEF Met
      <3> QED OBVIOUS
    <2> DEFINE nearer == IF dist(t.rec) < dist(c) THEN t.rec ELSE c
               di == Axis(ps[t.rec], d) - Axis(q, d)
               first == IF di < 0 THEN t.left ELSE t.right
               other == IF di < 0 THEN t.right ELSE t.left
               found == g[first][d + 1][nearer]
               r == g[t][d][c]
               s == w[1].rec
    <2>1. r = IF di * di < dist(c) THEN g[other][d + 1][found] ELSE found
      BY <1>2, <1>9 DEF LookAt, dist
    <2>2. nearer \in DOMAIN ps /\ dist(nearer) <= dist(c) /\ dist(nearer) <= dist(t.rec)
      <3>1. dist(t.rec) \in Int /\ dist(c) \in Int
        BY <1>1, <1>9
      <3>2. CASE dist(t.rec) < dist(c)
        BY <3>1, <3>2, <1>9
      <3>3. CASE ~(dist(t.rec) < dist(c))
        BY <3>1, <3>3
      <3> QED BY <3>2, <3>3
    <2>3. first \in P /\ other \in P /\ first \in Trees(ps) /\ other \in Trees(ps)
      <3> HIDE DEF di, P
      <3> QED BY <1>9
    <2>4. N[t][d] = {<<t, d>>} \cup N[first][d + 1] \cup N[other][d + 1]
      <3>1. N[t][d] = {<<t, d>>} \cup N[t.left][d + 1] \cup N[t.right][d + 1]
        BY <1>4, <1>9 DEF NodesAt
      <3> HIDE DEF di
      <3> QED BY <3>1
    <2>5. Gap(ps, q, <<t, d>>) = di /\ Own(ps, q, <<t, d>>) = other
      BY DEF Gap, Own
    <2>6. di * di \in Int
      <3>1. <<t, d>>[1].rec \in DOMAIN ps
        BY <1>9
      <3> HIDE DEF di
      <3> QED BY <3>1, <2>5, GapTyped
    <2>7. d + 1 \in Nat
      OBVIOUS
    <2> DEFINE dd == di * di
    <2>8. dd \in Int /\ r = IF dd < dist(c) THEN g[other][d + 1][found] ELSE found
      BY <2>1, <2>6
    <2>9. Gap(ps, q, <<t, d>>) * Gap(ps, q, <<t, d>>) = dd
      BY <2>5
    <2>10. /\ found \in DOMAIN ps /\ dist(found) <= dist(nearer)
           /\ g[other][d + 1][found] \in DOMAIN ps /\ dist(g[other][d + 1][found]) <= dist(found)
      <3>1. found \in DOMAIN ps /\ dist(found) <= dist(nearer)
        <4> HIDE DEF first, nearer
        <4> QED BY <1>3, <2>2, <2>3, <2>7
      <3> HIDE DEF found, other
      <3> QED BY <3>1, <1>3, <2>3, <2>7
    <2> HIDE DEF dd, di, first, other, nearer
    <2>11. /\ r \in DOMAIN ps /\ s \in DOMAIN ps /\ dist(r) <= dist(found)
           /\ dist(r) \in Int /\ dist(s) \in Int /\ dist(found) \in Int
           /\ dist(nearer) \in Int /\ dist(c) \in Int /\ dist(t.rec) \in Int
      <3>1. r \in DOMAIN ps /\ s \in DOMAIN ps
        <4>1. s \in DOMAIN ps
          BY <1>5
        <4>2. r \in DOMAIN ps
          BY <1>3
        <4> QED BY <4>1, <4>2
      <3>2. /\ dist(r) \in Int /\ dist(s) \in Int /\ dist(found) \in Int
            /\ dist(nearer) \in Int /\ dist(c) \in Int /\ dist(t.rec) \in Int
        BY <3>1, <1>1, <1>9, <2>2, <2>10
      <3>3. dist(r) <= dist(found)
        BY <3>2, <2>8, <2>10
      <3> QED BY <3>1, <3>2, <3>3
    <2>12. CASE w = <<t, d>>
      <3>1. s = t.rec
        BY <2>12
      <3> HIDE DEF r, s, found
      <3>2. dist(r) <= dist(s)
        BY <3>1, <2>2, <2>10, <2>11
      <3> QED BY <3>2 DEF r, s
    <2>13. CASE w \in N[first][d + 1]
      <3>1. Met(first, d + 1, s, found)
        <4> HIDE DEF Met
        <4> QED BY <2>2, <2>3, <2>7, <2>13
      <3> HIDE DEF r, s, found
      <3>2. CASE dist(found) <= dist(s)
        <4>1. dist(r) <= dist(s)
          BY <3>2, <2>11
        <4> QED BY <4>1 DEF r, s
      <3>3. CASE Over(ps, q, first, d + 1, s, dist(found))
        <4>1. Over(ps, q, t, d, s, dist(r))
          BY <3>3, <1>6, <2>3, <2>4, <2>7, <2>11
        <4> QED BY <4>1 DEF r, s
      <3> QED BY <3>1, <3>2, <3>3
    <2>14. CASE w \in N[other][d + 1]
      <3>1. CASE dd < dist(c)
        <4>1. r = g[other][d + 1][found]
          BY <2>8, <3>1
        <4>2. Met(other, d + 1, s, r)
          <5> HIDE DEF Met, found, r
          <5> QED BY <4>1, <2>3, <2>7, <2>10, <2>14
        <4> HIDE DEF r, s, found
        <4>3. CASE dist(r) <= dist(s)
          BY <4>3 DEF r, s
        <4>4. CASE Over(ps, q, other, d + 1, s, dist(r))
          <5>1. dist(r) <= dist(r)
            BY <2>11
          <5>2. Over(ps, q, t, d, s, dist(r))
            BY <5>1, <4>4, <1>6, <2>3, <2>4, <2>7, <2>11
          <5> QED BY <5>2 DEF r, s
        <4> QED BY <4>2, <4>3, <4>4
      <3>2. CASE ~(dd < dist(c))
        <4>1. dd >= dist(r)
          <5> HIDE DEF r, s, found
          <5> QED BY <3>2, <2>2, <2>8, <2>10, <2>11
        <4>2. <<t, d>> \in N[t][d] /\ <<t, d>>[2] = d
          BY <2>4
        <4> DEFINE v == <<t, d>>
        <4>3. /\ Gap(ps, q, v) * Gap(ps, q, v) >= dist(r)
              /\ w \in N[Own(ps, q, v)][v[2] + 1]
          BY <4>1, <4>2, <2>5, <2>9, <2>14
        <4>4. v \in N[t][d]
          BY <4>2
        <4> HIDE DEF v, r
        <4>5. Over(ps, q, t, d, s, dist(r))
          BY <4>3, <4>4, <1>7
        <4> QED BY <4>5 DEF r
      <3> QED BY <3>1, <3>2
    <2> QED BY <2>4, <2>12, <2>13, <2>14
  <1>10. Trees(ps) \subseteq P
    <2> HIDE DEF P
    <2> QED BY <1>0, <1>8, <1>9, SubtreesInduct
  <1> QED BY <1>10 DEF g, N, dist

\* The records by position: every tree that mk may build, and both answers
LEMMA CoordRight ==
    ASSUME NEW ps \in Seq(Point), NEW q \in Point
    PROVE TreeSound(ps) /\ AnswersRight(ps, q)
  <1>1. TreeSound(ps)
    BY TreeRight
  <1>2. ASSUME DOMAIN ps # {}, NEW t \in mk(ps)
        PROVE LET D == distanceSquared(ps[lookup(ps, t, q)], q) IN
              /\ D <= distanceSquared(ps[t.rec], q)
              /\ \A s \in DOMAIN ps : distanceSquared(ps[s], q) < D => PassedOver(ps, q, t, 0, s, D)
    <2>1. t \in Trees(ps) /\ t # NoNode /\ t.rec \in DOMAIN ps
      BY <1>2, TreeRight
    <2>2. lookup(ps, t, q) = Look(ps, q)[t][0][t.rec]
      BY <2>1, LookIs DEF lookup
    <2> DEFINE r == lookup(ps, t, q)
               D == distanceSquared(ps[r], q)
    <2>3. r \in DOMAIN ps /\ D <= distanceSquared(ps[t.rec], q)
      BY <2>1, <2>2, LookNearer
    <2>4. ASSUME NEW s \in DOMAIN ps, distanceSquared(ps[s], q) < D PROVE Over(ps, q, t, 0, s, D)
      <3>1. Split(ps)[t][DOMAIN ps][0]
        BY <1>1, SplitIs DEF TreeSound
      <3>2. PICK w \in NodesOf(ps)[t][0] : w[1].rec = s
        BY <2>1, <3>1, NodesHold
      <3>3. D <= distanceSquared(ps[s], q) \/ Over(ps, q, t, 0, s, D)
        BY <2>1, <2>2, <3>2, LookMisses
      <3>4. D \in Int /\ distanceSquared(ps[s], q) \in Int
        BY <2>3, Distances
      <3> HIDE DEF D
      <3> QED BY <2>4, <3>3, <3>4
    <2> QED BY <2>3, <2>4, OverIs
  <1> QED BY <1>1, <1>2, ScanRight DEF AnswersRight

-----------------------------------------------------------------------------
\* The input is chosen at the start and stays.
InputInv == input \in Inputs \cup {NoInput}

LEMMA InputKept == Spec => []InputInv
  <1>1. Init => InputInv
    BY DEF Init, InputInv
  <1>2. InputInv /\ [Next]_<<idVars, input>> => InputInv'
    BY DEF InputInv, Next
  <1> QED BY <1>1, <1>2, PTL DEF Spec

LEMMA InputText ==
    ASSUME InputInv, input.kind = "text"
    PROVE input.bytes \in Seq(Byte)
  <1>1. input \in [kind : {"text"}, bytes : Texts]
    BY DEF InputInv, Inputs, NoInput
  <1> QED BY <1>1, AlgorithmsAssumption DEF Byte

LEMMA InputInstruction ==
    ASSUME InputInv, input.kind = "instruction"
    PROVE input.inst \in Slices /\ input.addr \in Int
  <1>1. input \in [kind : {"instruction"}, inst : Instructions, addr : Addresses]
    BY DEF InputInv, Inputs, NoInput
  <1>2. input.inst \in Instructions /\ input.addr \in Addresses
    BY <1>1
  <1> DEFINE top == 2^30 + (2^30 - 2^20) - 1
  <1>3. Instructions \subseteq Slices /\ Addresses \subseteq 0..top
    BY AlgorithmsAssumption
  <1> HIDE DEF top
  <1>4. 0..top \subseteq Int
    OBVIOUS
  <1> QED BY <1>2, <1>3, <1>4

LEMMA InputPoints ==
    ASSUME InputInv, input.kind = "points"
    PROVE input.rs \in Seq(Point) /\ input.query \in Point
  <1>1. input \in [kind : {"points"}, rs : Records, query : Queries]
    BY DEF InputInv, Inputs, NoInput
  <1> QED BY <1>1, AlgorithmsAssumption

\* CoordLookups for every sequence of records and every query: whatever order
\* qsort leaves equal records in, buildKDTree puts each record into the tree
\* once, on its side of every node above it; the scan of coord_query_naive
\* answers with a nearest record, and the descent of coord_query_kdtree with
\* one that is no farther than the root and nearer than every record that is
\* not below a node on whose own side it was allowed to pass over.
THEOREM PositionsRight == Spec => []CoordLookups
  <1>1. InputInv => CoordLookups
    BY InputPoints, CoordRight DEF CoordLookups
  <1> QED BY <1>1, InputKept, PTL

\* ClassifierRight for every set of files and every size of the buffer: the
\* class that file.c's main prints, by is_ascii, is_iso8859 and is_valid_UTF8,
\* is that of the sets of bytes of the assignment and of UTF-8 as RFC 3629
\* defines it, if and only if no character that main takes for one is
\* ill-formed and none that is well-formed is cut by the buffer.
THEOREM ClassesRight == Spec => []ClassifierRight
  <1>1. InputInv => ClassifierRight
    BY InputText, TypeRight DEF ClassifierRight
  <1> QED BY <1>1, InputKept, PTL

\* DecodersAgree for every set of instruction words and every address: what
\* disassemble prints is, assembled again, what simulate executes, in all but
\* the cases of Misprinted, and in each of those it is not.  Among them are
\* the targets that leave characters of `zero,` behind them.
THEOREM ListingsRight == Spec => []DecodersAgree
  <1>1. InputInv => DecodersAgree
    BY InputInstruction, DecodersSame DEF DecodersAgree
  <1> QED BY <1>1, InputKept, PTL
=============================================================================
