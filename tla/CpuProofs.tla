----------------------------- MODULE CpuProofs ------------------------------
(***************************************************************************)
(* The simulator for words of any width, any register set, any arguments,  *)
(* segments and instructions, and predictor tables of any sizes.           *)
(* In this order: bytes, half words and words as digits of one another;    *)
(* the pages of memory; loops, powers of two, division and bitwise         *)
(* operators; the loading of arguments and segments; the predictors; the   *)
(* type invariant and the predictors' bound; memory as an array of bytes;  *)
(* bitwise operators, shifts and divisions against their meaning in the    *)
(* instruction set; each turn of simulate() as a step of the instruction   *)
(* set; the bytes that loading leaves where the program expects them.      *)
(***************************************************************************)
EXTENDS Cpu, NaturalsInduction, WellFoundedInduction, SequenceTheorems, TLAPS

\* Division with remainder
LEMMA DivRest ==
    ASSUME NEW a \in Int, NEW p \in Nat \ {0}
    PROVE /\ a \div p \in Int /\ a % p \in Int
          /\ a = p * (a \div p) + (a % p) /\ 0 <= a % p /\ a % p < p
  OBVIOUS

LEMMA Monotone ==
    ASSUME NEW p \in Nat, NEW a \in Int, NEW b \in Int, a <= b
    PROVE p * a <= p * b
  OBVIOUS

\* The quotient is the one number with such a rest.
LEMMA DivUnique ==
    ASSUME NEW p \in Nat \ {0}, NEW u \in Int, NEW r \in Int, 0 <= r, r < p
    PROVE (p * u + r) \div p = u /\ (p * u + r) % p = r
  <1> DEFINE a == p * u + r
             d == a \div p
             s == a % p
  <1>1. a \in Int
    OBVIOUS
  <1>2. d \in Int /\ s \in Int /\ a = p * d + s /\ 0 <= s /\ s < p
    <2> HIDE DEF a
    <2> QED BY <1>1, DivRest
  <1>3. p * u + r = p * d + s
    BY <1>2
  <1> HIDE DEF d, s
  <1>4. d = u
    <2>1. CASE d < u
      <3>1. p * (d + 1) <= p * u
        BY <2>1, <1>2, Monotone
      <3>2. p * (d + 1) = p * d + p
        BY <1>2
      <3> QED BY <3>1, <3>2, <1>2, <1>3
    <2>2. CASE u < d
      <3>1. p * (u + 1) <= p * d
        BY <2>2, <1>2, Monotone
      <3>2. p * (u + 1) = p * u + p
        OBVIOUS
      <3> QED BY <3>1, <3>2, <1>2, <1>3
    <2> QED BY <2>1, <2>2, <1>2
  <1>5. s = r
    BY <1>2, <1>3, <1>4
  <1> QED BY <1>4, <1>5 DEF d, s, a

LEMMA DivBelow ==
    ASSUME NEW a \in Nat, NEW p \in Nat \ {0}, NEW q \in Nat, a < p * q
    PROVE a \div p \in Nat /\ a \div p <= q - 1
  <1> DEFINE d == a \div p
             s == a % p
  <1>1. d \in Int /\ s \in Int /\ a = p * d + s /\ 0 <= s /\ s < p
    BY DivRest
  <1> HIDE DEF d, s
  <1>2. d >= 0
    <2> SUFFICES ASSUME d <= -1 PROVE FALSE
      BY <1>1
    <2>1. p * d <= p * (-1)
      BY <1>1, Monotone
    <2> QED BY <2>1, <1>1
  <1>3. d < q
    <2> SUFFICES ASSUME q <= d PROVE FALSE
      BY <1>1
    <2>1. p * q <= p * d
      BY <1>1, Monotone
    <2> QED BY <2>1, <1>1
  <1> QED BY <1>1, <1>2, <1>3 DEF d

\* A number of three digits: r counts ones, x counts e, h counts e * b.
Compose(e, b, h, x, r) == e * (b * h + x) + r

HasDigits(e, b, f, h, x, r, v) ==
    /\ v \in Nat /\ v <= ((e * b) * f) - 1
    /\ v % e = r /\ (v \div e) % b = x /\ (v \div e) \div b = h

\* The digits of a number below e * b * f
LEMMA Digits ==
    ASSUME NEW e \in Nat \ {0}, NEW b \in Nat \ {0}, NEW f \in Nat \ {0}, NEW w \in Nat, w < (e * b) * f
    PROVE /\ w % e \in 0..e - 1 /\ (w \div e) % b \in 0..b - 1 /\ (w \div e) \div b \in 0..f - 1
          /\ w = Compose(e, b, (w \div e) \div b, (w \div e) % b, w % e)
  <1> DEFINE u == w \div e
             r == w % e
             x == u % b
             h == u \div b
  <1>1. u \in Int /\ r \in Int /\ w = e * u + r /\ 0 <= r /\ r < e
    BY DivRest
  <1>2. u \in Nat /\ u <= b * f - 1
    <2>1. b * f \in Nat /\ (e * b) * f = e * (b * f)
      OBVIOUS
    <2> QED BY <2>1, DivBelow
  <1> HIDE DEF u, r
  <1>3. x \in Int /\ h \in Int /\ u = b * h + x /\ 0 <= x /\ x < b
    BY <1>2, DivRest
  <1>4. h \in Nat /\ h <= f - 1
    <2>1. u < b * f
      BY <1>2
    <2> QED BY <2>1, <1>2, DivBelow
  <1> HIDE DEF x, h
  <1>5. r \in 0..e - 1 /\ x \in 0..b - 1 /\ h \in 0..f - 1
    BY <1>1, <1>3, <1>4
  <1>6. w = Compose(e, b, h, x, r)
    BY <1>1, <1>3 DEF Compose
  <1> QED BY <1>5, <1>6, Zenon DEF u, r, x, h

\* A number put together from such digits is below e * b * f.
LEMMA FromDigits ==
    ASSUME NEW e \in Nat \ {0}, NEW b \in Nat \ {0}, NEW f \in Nat \ {0},
           NEW r \in 0..e - 1, NEW x \in 0..b - 1, NEW h \in 0..f - 1
    PROVE HasDigits(e, b, f, h, x, r, Compose(e, b, h, x, r))
  <1> DEFINE u == b * h + x
  <1>1. u \in Nat /\ u <= b * f - 1
    <2>1. b * h <= b * (f - 1)
      BY Monotone
    <2>2. b * (f - 1) = b * f - b
      OBVIOUS
    <2>3. b * h \in Nat /\ b * f \in Nat
      OBVIOUS
    <2> QED BY <2>1, <2>2, <2>3
  <1>2. u \div b = h /\ u % b = x
    BY DivUnique
  <1>5. Compose(e, b, h, x, r) = e * u + r
    BY DEF Compose
  <1> HIDE DEF u
  <1>3. (e * u + r) \div e = u /\ (e * u + r) % e = r
    BY <1>1, DivUnique
  <1>4. e * u + r \in Nat /\ e * u + r <= ((e * b) * f) - 1
    <2>1. e * u <= e * (b * f - 1)
      BY <1>1, Monotone
    <2>2. e * (b * f - 1) = e * (b * f) - e
      OBVIOUS
    <2>3. e * (b * f) = (e * b) * f
      OBVIOUS
    <2>4. e * u \in Nat
      BY <1>1
    <2> QED BY <2>1, <2>2, <2>3, <2>4
  <1> QED BY <1>2, <1>3, <1>4, <1>5, Zenon DEF HasDigits

-----------------------------------------------------------------------------
\* The widths
LEMMA Widths ==
    /\ BYTE \in Nat \ {0, 1} /\ HALF \in Nat \ {0} /\ WORD \in Nat \ {0}
    /\ HALF = BYTE * BYTE /\ WORD = HALF * HALF
    /\ BYTE <= HALF /\ HALF <= WORD
    /\ HALF * BYTE \in Nat \ {0}
  <1>1. BYTE \in Nat \ {0, 1}
    BY MemoryAssumption
  <1>2. HALF \in Nat \ {0} /\ BYTE <= HALF /\ HALF = BYTE * BYTE
    BY <1>1 DEF HALF
  <1>3. WORD = HALF * HALF
    BY <1>1 DEF HALF, WORD
  <1> HIDE DEF HALF
  <1>4. WORD \in Nat \ {0} /\ HALF <= WORD
    BY <1>2, <1>3
  <1>5. HALF * BYTE \in Nat \ {0}
    BY <1>1, <1>2
  <1> QED BY <1>1, <1>2, <1>3, <1>4, <1>5

LEMMA WordType ==
    ASSUME NEW v \in Int
    PROVE W(v) \in Words
  <1> DEFINE m == WORD
  <1>1. m \in Nat \ {0}
    BY Widths
  <1> HIDE DEF m
  <1>2. v % m \in 0..m - 1
    BY <1>1
  <1> QED BY <1>2 DEF W, Words, m

LEMMA InWords ==
    ASSUME NEW v
    PROVE v \in Words <=> v \in Nat /\ v < WORD
  <1> DEFINE m == WORD
  <1>1. m \in Nat
    BY Widths
  <1> HIDE DEF m
  <1>2. v \in 0..m - 1 <=> v \in Nat /\ v < m
    BY <1>1
  <1> QED BY <1>2 DEF Words, m

\* A page has words, and the pages make up the addresses.
LEMMA PageShape ==
    /\ PAGE \in Nat \ {0} /\ PAGE \div 4 \in Nat \ {0} /\ PAGE = 4 * (PAGE \div 4)
    /\ WORD \div PAGE \in Nat /\ WORD = PAGE * (WORD \div PAGE)
  <1>1. PAGE \in Nat \ {0} /\ PAGE % 4 = 0
    BY MemoryAssumption
  <1>2. PAGE \div 4 \in Nat \ {0} /\ PAGE = 4 * (PAGE \div 4)
    BY <1>1
  <1> DEFINE m == WORD
  <1>3. m \in Nat /\ m % PAGE = 0
    BY Widths, MemoryAssumption
  <1> HIDE DEF m
  <1>4. m \div PAGE \in Int /\ m = PAGE * (m \div PAGE)
    BY <1>1, <1>3, DivRest
  <1>5. m \div PAGE \in Nat
    <2>1. m < PAGE * (m + 1)
      BY <1>1, <1>3
    <2> QED BY <2>1, <1>1, <1>3, DivBelow
  <1> QED BY <1>1, <1>2, <1>4, <1>5 DEF m

PageNumbers == 0..(WORD \div PAGE) - 1
Indices == 0..(PAGE \div 4) - 1

LEMMA Place ==
    ASSUME NEW addr \in Words
    PROVE page_number(addr) \in PageNumbers /\ index(addr) \in Indices
  <1> DEFINE q == WORD \div PAGE
  <1>1. q \in Nat /\ WORD = PAGE * q
    BY PageShape
  <1>2. addr \in Nat /\ addr < PAGE * q
    BY <1>1, InWords
  <1> HIDE DEF q
  <1>3. addr \div PAGE \in 0..q - 1
    <2>1. PAGE \in Nat \ {0}
      BY PageShape
    <2>2. addr \div PAGE \in Nat /\ addr \div PAGE <= q - 1
      BY <1>1, <1>2, <2>1, DivBelow
    <2> QED BY <1>1, <2>2
  <1>4. (addr \div 4) % (PAGE \div 4) \in Indices
    <2> DEFINE z == PAGE \div 4
    <2>1. z \in Nat \ {0}
      BY PageShape
    <2> HIDE DEF z
    <2>2. addr \div 4 \in Int
      BY <1>2
    <2>3. (addr \div 4) % z \in 0..z - 1
      BY <2>1, <2>2
    <2> QED BY <2>3 DEF z, Indices
  <1> QED BY <1>3, <1>4 DEF page_number, index, PageNumbers, q

\* Memory stays a function from page numbers to pages.
LEMMA MemoryShape == Pages = [Indices -> Words] /\ Memories = [PageNumbers -> {NoPage} \cup Pages]
  BY DEF Pages, Memories, Indices, PageNumbers

LEMMA PageType ==
    ASSUME NEW m \in Memories, NEW addr \in Words
    PROVE get_page(m, addr) \in Pages /\ Slot(m, addr) \in Words
  <1>1. 0 \in Words
    BY Widths, InWords
  <1>2. m[page_number(addr)] \in {NoPage} \cup Pages
    BY Place, MemoryShape
  <1>3. [i \in Indices |-> 0] \in [Indices -> Words]
    BY <1>1
  <1>4. get_page(m, addr) \in Pages
    BY <1>2, <1>3, MemoryShape DEF get_page, Indices
  <1> QED BY <1>4, Place, MemoryShape DEF Slot

LEMMA PutType ==
    ASSUME NEW m \in Memories, NEW addr \in Words, NEW word \in Words
    PROVE Put(m, addr, word) \in Memories
  <1>1. get_page(m, addr) \in [Indices -> Words]
    BY PageType, MemoryShape
  <1>2. [get_page(m, addr) EXCEPT ![index(addr)] = word] \in [Indices -> Words]
    BY <1>1, Place
  <1> QED BY <1>2, Place, MemoryShape DEF Put

LEMMA TouchedType ==
    ASSUME NEW m \in Memories, NEW addr \in Words
    PROVE Touched(m, addr) \in Memories
  BY PageType, Place, MemoryShape DEF Touched

\* The weight of a byte, and what is above it in the word
Above(addr) == CASE addr % 4 = 0 -> HALF * BYTE [] addr % 4 = 1 -> HALF
                 [] addr % 4 = 2 -> BYTE [] addr % 4 = 3 -> 1

LEMMA Weights ==
    ASSUME NEW addr \in Words
    PROVE /\ Weight(addr) \in Nat \ {0} /\ Above(addr) \in Nat \ {0}
          /\ WORD = (Weight(addr) * BYTE) * Above(addr)
  <1>0. addr % 4 = 0 \/ addr % 4 = 1 \/ addr % 4 = 2 \/ addr % 4 = 3
    BY InWords
  <1>w. /\ WORD = (1 * BYTE) * (HALF * BYTE) /\ WORD = (BYTE * BYTE) * HALF
        /\ WORD = (HALF * BYTE) * BYTE /\ WORD = ((HALF * BYTE) * BYTE) * 1
    <2> BYTE \in Nat
      BY Widths
    <2> QED BY DEF WORD, HALF
  <1>1. CASE addr % 4 = 0
    <2>1. Weight(addr) = 1 /\ Above(addr) = HALF * BYTE
      BY <1>1 DEF Weight, Above
    <2> QED BY <2>1, <1>w, Widths
  <1>2. CASE addr % 4 = 1
    <2>1. Weight(addr) = BYTE /\ Above(addr) = HALF
      BY <1>2 DEF Weight, Above
    <2> QED BY <2>1, <1>w, Widths
  <1>3. CASE addr % 4 = 2
    <2>1. Weight(addr) = HALF /\ Above(addr) = BYTE
      BY <1>3 DEF Weight, Above
    <2> QED BY <2>1, <1>w, Widths
  <1>4. CASE addr % 4 = 3
    <2>1. Weight(addr) = HALF * BYTE /\ Above(addr) = 1
      BY <1>4 DEF Weight, Above
    <2> QED BY <2>1, <1>w, Widths
  <1> QED BY <1>0, <1>1, <1>2, <1>3, <1>4

\* A byte replaced in a word: the other digits stay.
LEMMA ByteReplaced ==
    ASSUME NEW e \in Nat \ {0}, NEW b \in Nat \ {0}, NEW f \in Nat \ {0},
           NEW w \in Nat, w < (e * b) * f, NEW y \in 0..b - 1
    PROVE HasDigits(e, b, f, (w \div e) \div b, y, w % e, (w - (((w \div e) % b) * e)) + (y * e))
  <1> DEFINE r == w % e
             x == (w \div e) % b
             h == (w \div e) \div b
  <1>1. r \in 0..e - 1 /\ x \in 0..b - 1 /\ h \in 0..f - 1
    BY Digits
  <1>w. w = Compose(e, b, h, x, r)
    BY Digits
  <1> HIDE DEF r, x, h
  <1> DEFINE v == Compose(e, b, h, y, r)
  <1>2. (w - (x * e)) + (y * e) = v
    <2>1. r \in Int /\ x \in Int /\ h \in Int /\ y \in Int /\ w = e * (b * h + x) + r
      BY <1>1, <1>w DEF Compose
    <2> QED BY <2>1 DEF Compose
  <1>3. HasDigits(e, b, f, h, y, r, v)
    BY <1>1, FromDigits
  <1> HIDE DEF v
  <1>4. (w - (((w \div e) % b) * e)) + (y * e) = v
    BY <1>2 DEF x
  <1> QED BY <1>3, <1>4, Zenon DEF r, h

LEMMA ReadTypes ==
    ASSUME NEW m \in Memories, NEW addr \in Words
    PROVE /\ memory_rd_w(m, addr) \in Words
          /\ memory_rd_h(m, addr) \in 0..HALF - 1
          /\ memory_rd_b(m, addr) \in 0..BYTE - 1
  <1> DEFINE s == Slot(m, addr)
             e == Weight(addr)
  <1>1. s \in Nat /\ e \in Nat \ {0} /\ BYTE \in Nat \ {0} /\ HALF \in Nat \ {0}
    BY PageType, InWords, Weights, Widths
  <1>2. memory_rd_h(m, addr) = IF addr % 4 < 2 THEN s % HALF ELSE (s \div HALF) % HALF
    BY DEF memory_rd_h
  <1>3. memory_rd_b(m, addr) = (s \div e) % BYTE
    BY DEF memory_rd_b
  <1> HIDE DEF s, e
  <1>4. s \div HALF \in Int /\ s \div e \in Int
    BY <1>1, DivRest
  <1>5. \A v \in Int : v % HALF \in 0..HALF - 1 /\ v % BYTE \in 0..BYTE - 1
    BY <1>1
  <1>6. memory_rd_h(m, addr) \in 0..HALF - 1
    <2>1. s % HALF \in 0..HALF - 1 /\ (s \div HALF) % HALF \in 0..HALF - 1
      BY <1>1, <1>4, <1>5
    <2> QED BY <2>1, <1>2, Zenon
  <1>7. memory_rd_b(m, addr) \in 0..BYTE - 1
    BY <1>3, <1>4, <1>5
  <1> QED BY <1>6, <1>7, PageType DEF memory_rd_w

LEMMA WriteByteType ==
    ASSUME NEW m \in Memories, NEW addr \in Words, NEW data \in Int
    PROVE memory_wr_b(m, addr, data) \in Memories
  <1> DEFINE w == Slot(m, addr)
             e == Weight(addr)
             f == Above(addr)
             y == data % BYTE
             v == (w - (((w \div e) % BYTE) * e)) + (y * e)
  <1>1. w \in Nat /\ w < WORD /\ e \in Nat \ {0} /\ f \in Nat \ {0} /\ BYTE \in Nat \ {0} /\ WORD = (e * BYTE) * f
    BY PageType, InWords, Weights, Widths
  <1>2. y \in 0..BYTE - 1
    BY <1>1
  <1>3. memory_wr_b(m, addr, data) = Put(m, addr, v)
    BY DEF memory_wr_b, memory_rd_b
  <1> HIDE DEF w, e, f, y
  <1>4. v \in Nat /\ v <= ((e * BYTE) * f) - 1
    BY <1>1, <1>2, ByteReplaced DEF HasDigits
  <1> HIDE DEF v
  <1>5. v \in Words
    BY <1>1, <1>4, InWords
  <1> QED BY <1>3, <1>5, PutType

LEMMA WriteHalfType ==
    ASSUME NEW m \in Memories, NEW addr \in Words, NEW data \in Int
    PROVE memory_wr_h(m, addr, data) \in Memories
  <1> DEFINE w == Slot(m, addr)
             y == data % HALF
             v == IF addr % 4 < 2 THEN (w - (w % HALF)) + y ELSE (w % HALF) + (y * HALF)
  <1>1. w \in Nat /\ w < WORD /\ HALF \in Nat \ {0} /\ WORD = HALF * HALF
    BY PageType, InWords, Widths
  <1>2. y \in 0..HALF - 1
    BY <1>1
  <1>3. memory_wr_h(m, addr, data) = Put(m, addr, v)
    BY DEF memory_wr_h
  <1> HIDE DEF w, y
  <1>4. PICK r \in 0..HALF - 1, h \in 0..HALF - 1 : w = HALF * h + r /\ w % HALF = r
    <2>1. w \div HALF \in 0..HALF - 1
      BY <1>1, DivBelow
    <2>2. w = HALF * (w \div HALF) + (w % HALF) /\ w % HALF \in 0..HALF - 1
      BY <1>1, DivRest
    <2> QED BY <2>1, <2>2
  <1>5. \A g, z \in 0..HALF - 1 : HALF * g + z \in Nat /\ HALF * g + z < HALF * HALF
    <2> TAKE g, z \in 0..HALF - 1
    <2>1. HALF * g <= HALF * (HALF - 1)
      BY <1>1, Monotone
    <2> QED BY <1>1, <2>1
  <1>6. (w - (w % HALF)) + y = HALF * h + y /\ (w % HALF) + (y * HALF) = HALF * y + r
    <2>1. r \in Int /\ h \in Int /\ y \in Int /\ w \in Int /\ HALF * h \in Int /\ y * HALF = HALF * y
          /\ HALF * y \in Int
      BY <1>1, <1>2
    <2>2. w = HALF * h + r /\ w % HALF = r
      BY <1>4
    <2>3. (w - r) + y = HALF * h + y /\ r + (y * HALF) = HALF * y + r
      BY <2>1, <2>2
    <2> QED BY <2>2, <2>3, Zenon
  <1>7. v \in Nat /\ v < HALF * HALF
    BY <1>2, <1>4, <1>5, <1>6
  <1> HIDE DEF v
  <1>8. v \in Words
    BY <1>1, <1>7, InWords
  <1> QED BY <1>3, <1>8, PutType

-----------------------------------------------------------------------------
\* Induction on the natural numbers; the property is the set P.
LEMMA LeastId ==
    ASSUME NEW T, T \subseteq Nat, T # {}
    PROVE \E x \in T : \A y \in T : x <= y
  <1> DEFINE R == OpToRel(<, Nat)
  <1>1. \E x \in T : \A y \in T : ~(<<y, x>> \in R)
    <2> HIDE DEF R
    <2>1. IsWellFoundedOn(R, Nat)
      BY NatLessThanWellFounded, Zenon DEF R
    <2> QED BY <2>1, WFMin, Zenon
  <1>2. \A x, y \in Nat : <<y, x>> \in R <=> y < x
    BY DEF OpToRel
  <1> HIDE DEF R
  <1>3. PICK x \in T : \A y \in T : ~(<<y, x>> \in R)
    BY <1>1
  <1>4. \A y \in T : ~(y < x) /\ y \in Nat /\ x \in Nat
    BY <1>2, <1>3
  <1> QED BY <1>3, <1>4

\* What holds of a number when it holds of the smaller ones
LEMMA StrongInduct ==
    ASSUME NEW P, \A m \in Nat : (\A l \in Nat : l < m => l \in P) => m \in P
    PROVE Nat \subseteq P
  <1> SUFFICES ASSUME NEW m \in Nat, m \notin P PROVE FALSE
    OBVIOUS
  <1> DEFINE T == {l \in Nat : l \notin P}
  <1>1. PICK x \in T : \A y \in T : x <= y
    <2> T \subseteq Nat /\ T # {}
      OBVIOUS
    <2> HIDE DEF T
    <2> QED BY LeastId
  <1>2. \A l \in Nat : l < x => l \in P
    BY <1>1
  <1> QED BY <1>1, <1>2

\* Induction in steps of one
LEMMA StepInduct ==
    ASSUME NEW P, 0 \in P, \A m \in Nat : m \in P => m + 1 \in P
    PROVE Nat \subseteq P
  <1>1. ASSUME NEW m \in Nat, \A l \in Nat : l < m => l \in P PROVE m \in P
    <2>1. CASE m = 0
      BY <2>1
    <2>2. CASE m # 0
      <3>1. m - 1 \in Nat /\ m - 1 < m /\ (m - 1) + 1 = m
        BY <2>2
      <3>2. m - 1 \in P
        BY <3>1, <1>1
      <3> QED BY <3>1, <3>2
    <2> QED BY <2>1, <2>2
  <1> QED BY <1>1, StrongInduct

-----------------------------------------------------------------------------
\* A loop of N turns: turn j takes the state s to turn[j][s].
LoopEq(g, N, base, turn) == g = [j \in 0..N |-> IF j = 0 THEN base ELSE turn[j][g[j - 1]]]

LEMMA LoopExists ==
    ASSUME NEW N \in Nat, NEW S, NEW base \in S, NEW turn \in [1..N -> [S -> S]]
    PROVE \E g \in [0..N -> S] : LoopEq(g, N, base, turn)
  <1> DEFINE Step(g, j) == IF j = 0 THEN base ELSE turn[j][g[j - 1]]
             Upto(g, m) == \A j \in 0..N : j <= m => g[j] = Step(g, j)
             P == {m \in Nat : \E g \in [0..N -> S] : Upto(g, m)}
  <1>1. 0 \in P
    <2> DEFINE g == [j \in 0..N |-> base]
    <2>1. Upto(g, 0) /\ g \in [0..N -> S]
      OBVIOUS
    <2> QED BY <2>1, Zenon
  <1>2. ASSUME NEW m \in Nat, m \in P PROVE m + 1 \in P
    <2>1. PICK g \in [0..N -> S] : Upto(g, m)
      BY <1>2
    <2> DEFINE f == [j \in 0..N |-> Step(g, j)]
    <2>2. f \in [0..N -> S]
      <3>1. ASSUME NEW j \in 0..N PROVE Step(g, j) \in S
        <4>1. CASE j = 0
          BY <4>1
        <4>2. CASE j # 0
          <5>1. j \in 1..N /\ j - 1 \in 0..N
            BY <4>2
          <5>2. turn[j] \in [S -> S] /\ g[j - 1] \in S
            BY <5>1
          <5>3. turn[j][g[j - 1]] \in S
            BY <5>2
          <5> QED BY <4>2, <5>3
        <4> QED BY <4>1, <4>2
      <3> HIDE DEF Step
      <3> QED BY <3>1
    <2>3. ASSUME NEW j \in 0..N, j <= m + 1 PROVE f[j] = Step(f, j)
      <3>1. CASE j = 0
        BY <3>1
      <3>2. CASE j # 0
        <4>1. j - 1 \in 0..N /\ j - 1 <= m
          BY <3>2, <2>3
        <4>2. f[j - 1] = g[j - 1]
          BY <4>1, <2>1
        <4>3. f[j] = Step(g, j)
          OBVIOUS
        <4> HIDE DEF f
        <4> QED BY <4>2, <4>3, <3>2
      <3> QED BY <3>1, <3>2
    <2> HIDE DEF f, Step
    <2>4. Upto(f, m + 1)
      BY <2>3
    <2>5. m + 1 \in Nat
      OBVIOUS
    <2> HIDE DEF Upto
    <2> QED BY <2>2, <2>4, <2>5
  <1>3. N \in P
    <2> HIDE DEF P
    <2> QED BY <1>1, <1>2, StepInduct
  <1>4. PICK g \in [0..N -> S] : Upto(g, N)
    BY <1>3
  <1> HIDE DEF Step
  <1>5. \A j \in 0..N : g[j] = Step(g, j)
    BY <1>4
  <1>6. g = [j \in 0..N |-> Step(g, j)]
    BY <1>5
  <1> QED BY <1>6 DEF Step, LoopEq

\* What a loop keeps
LEMMA LoopKeeps ==
    ASSUME NEW N \in Nat, NEW S, NEW g, g[0] \in S,
           \A j \in 1..N : g[j - 1] \in S => g[j] \in S
    PROVE \A j \in 0..N : g[j] \in S
  <1> DEFINE P == {m \in Nat : m <= N => g[m] \in S}
  <1>1. 0 \in P
    OBVIOUS
  <1>2. ASSUME NEW m \in Nat, m \in P PROVE m + 1 \in P
    <2> SUFFICES ASSUME m + 1 <= N PROVE g[m + 1] \in S
      OBVIOUS
    <2>1. m + 1 \in 1..N /\ (m + 1) - 1 = m /\ m <= N
      OBVIOUS
    <2>2. g[m] \in S
      BY <1>2, <2>1
    <2> QED BY <2>1, <2>2
  <1>3. Nat \subseteq P
    <2> HIDE DEF P
    <2> QED BY <1>1, <1>2, StepInduct
  <1> QED BY <1>3

-----------------------------------------------------------------------------
\* Powers of two
PowEq(g) == g = [j \in 0..XLEN |-> IF j = 0 THEN 1 ELSE 2 * g[j - 1]]

LEMMA Powers ==
    /\ Pow2 \in [0..XLEN -> Nat \ {0}]
    /\ Pow2[0] = 1 /\ \A j \in 1..XLEN : Pow2[j] = 2 * Pow2[j - 1]
  <1>0. XLEN \in Nat
    BY CpuAssumption
  <1>1. \E g : PowEq(g)
    <2> DEFINE S == Nat \ {0}
               turn == [j \in 1..XLEN |-> [s \in S |-> 2 * s]]
    <2>1. turn \in [1..XLEN -> [S -> S]] /\ 1 \in S
      OBVIOUS
    <2>2. \A j \in 1..XLEN : \A s \in S : turn[j][s] = 2 * s
      OBVIOUS
    <2> HIDE DEF turn, S
    <2>3. PICK g \in [0..XLEN -> S] : LoopEq(g, XLEN, 1, turn)
      BY <1>0, <2>1, LoopExists
    <2>4. ASSUME NEW j \in 0..XLEN, j # 0 PROVE turn[j][g[j - 1]] = 2 * g[j - 1]
      <3>1. j \in 1..XLEN /\ j - 1 \in 0..XLEN
        BY <1>0, <2>4
      <3> QED BY <3>1, <2>2
    <2>5. [j \in 0..XLEN |-> IF j = 0 THEN 1 ELSE turn[j][g[j - 1]]] = [j \in 0..XLEN |-> IF j = 0 THEN 1 ELSE 2 * g[j - 1]]
      BY <2>4
    <2>6. PowEq(g)
      BY <2>3, <2>5, Zenon DEF PowEq, LoopEq
    <2> QED BY <2>6
  <1>2. PowEq(Pow2)
    <2>1. Pow2 = CHOOSE g : PowEq(g)
      BY DEF Pow2, PowEq
    <2> QED BY <1>1, <2>1
  <1>3. Pow2[0] = 1 /\ \A j \in 1..XLEN : Pow2[j] = 2 * Pow2[j - 1]
    BY <1>0, <1>2 DEF PowEq
  <1>4. \A j \in 0..XLEN : Pow2[j] \in Nat \ {0}
    <2> DEFINE S == Nat \ {0}
    <2>1. \A j \in 1..XLEN : Pow2[j - 1] \in S => Pow2[j] \in S
      <3> TAKE j \in 1..XLEN
      <3> HAVE Pow2[j - 1] \in S
      <3> QED BY <1>3
    <2>2. Pow2[0] \in S
      BY <1>3
    <2> HIDE DEF S
    <2>3. \A j \in 0..XLEN : Pow2[j] \in S
      BY <1>0, <2>1, <2>2, LoopKeeps
    <2> QED BY <2>3 DEF S
  <1>5. Pow2 = [j \in 0..XLEN |-> Pow2[j]]
    BY <1>2 DEF PowEq
  <1> QED BY <1>3, <1>4, <1>5

\* The distance of a shift
LEMMA Shift ==
    ASSUME NEW v \in Int
    PROVE Pow2[v % XLEN] \in Nat \ {0}
  <1>1. XLEN \in Nat \ {0}
    BY CpuAssumption
  <1>2. v % XLEN \in 0..XLEN
    BY <1>1
  <1> QED BY <1>2, Powers

LEMMA I32Type ==
    ASSUME NEW v \in Words
    PROVE I32(v) \in Int /\ (I32(v) = 0 <=> v = 0)
  <1> DEFINE m == WORD
             half == WORD \div 2
  <1>1. m \in Nat \ {0} /\ half \in Int /\ half > 0 /\ v \in Nat /\ v < m
    <2>1. v \in Nat /\ v < m /\ m \in Nat \ {0}
      BY Widths, InWords
    <2>2. m \geq 2
      <3>1. BYTE \in Nat /\ BYTE >= 2 /\ HALF \in Nat /\ BYTE <= HALF /\ HALF <= WORD
        BY Widths
      <3> QED BY <3>1, <2>1
    <2>3. half = m \div 2
      OBVIOUS
    <2> HIDE DEF m, half
    <2> QED BY <2>1, <2>2, <2>3
  <1>2. I32(v) = IF v >= half THEN v - m ELSE v
    BY DEF I32
  <1> HIDE DEF m, half
  <1> QED BY <1>1, <1>2

LEMMA DivisionType ==
    ASSUME NEW a \in Int, NEW b \in Int, b # 0
    PROVE Quotient(a, b) \in Int /\ Remainder(a, b) \in Int
  <1>1. Abs(a) \in Int /\ Abs(b) \in Nat \ {0}
    BY DEF Abs
  <1> DEFINE d == Abs(a) \div Abs(b)
  <1>2. d \in Int
    BY <1>1, DivRest
  <1>3. Quotient(a, b) = d \/ Quotient(a, b) = -d
    BY DEF Quotient
  <1> HIDE DEF d
  <1>4. Quotient(a, b) \in Int
    BY <1>2, <1>3
  <1> HIDE DEF Quotient
  <1> QED BY <1>4 DEF Remainder

LEMMA FlagWords == 0 \in Words /\ 1 \in Words
  <1>1. WORD >= 2 /\ WORD \in Nat
    <2>1. BYTE \in Nat /\ BYTE >= 2 /\ HALF \in Nat /\ BYTE <= HALF /\ HALF <= WORD /\ WORD \in Nat
      BY Widths
    <2> QED BY <2>1
  <1> QED BY <1>1, InWords

\* Below a word, divided
LEMMA DividedType ==
    ASSUME NEW v \in Words, NEW p \in Nat \ {0}
    PROVE v \div p \in Words /\ v % p \in Words
  <1>1. v \in Nat /\ v < WORD /\ WORD \in Nat
    BY InWords, Widths
  <1> DEFINE d == v \div p
             s == v % p
  <1>2. v < p * (v + 1)
    <2>1. p >= 1 /\ v + 1 \in Nat
      BY <1>1
    <2>2. (v + 1) * 1 <= (v + 1) * p
      BY <2>1, Monotone
    <2>3. (v + 1) * p = p * (v + 1)
      BY <1>1
    <2> QED BY <1>1, <2>2, <2>3
  <1>3. d \in Nat /\ d <= (v + 1) - 1
    BY <1>1, <1>2, DivBelow
  <1>4. s \in Int /\ 0 <= s /\ d \in Int /\ v = p * d + s
    BY <1>1, DivRest
  <1> HIDE DEF d, s
  <1>5. p * d >= 0
    BY <1>3
  <1>6. s <= v
    BY <1>1, <1>4, <1>5
  <1>7. d \in Nat /\ d < WORD /\ s \in Nat /\ s < WORD
    BY <1>1, <1>3, <1>4, <1>6
  <1> QED BY <1>7, InWords DEF d, s

-----------------------------------------------------------------------------
\* The bits of &, | and ^, from the lowest on
BitAt(ones, v1, v2, j) == IF <<BitOf(v1, j - 1), BitOf(v2, j - 1)>> \in ones THEN Pow2[j - 1] ELSE 0
BitsEq(g, ones, v1, v2) ==
    g = [j \in 0..XLEN |-> IF j = 0 THEN 0 ELSE g[j - 1] + BitAt(ones, v1, v2, j)]

LEMMA BitsLoop ==
    ASSUME NEW ones, NEW v1, NEW v2
    PROVE \E low : /\ ByBits(ones, v1, v2) = low[XLEN] /\ low[0] = 0
                  /\ \A j \in 1..XLEN : low[j] = low[j - 1] + BitAt(ones, v1, v2, j)
  <1> DEFINE B(j) == BitAt(ones, v1, v2, j)
  <1>0. XLEN \in Nat /\ WORD = Pow2[XLEN]
    BY CpuAssumption
  <1>b. ASSUME NEW j \in 1..XLEN PROVE B(j) \in Nat /\ B(j) <= Pow2[j - 1] /\ Pow2[j - 1] \in Nat
    <2>1. j - 1 \in 0..XLEN
      BY <1>0
    <2>2. Pow2[j - 1] \in Nat
      BY <2>1, Powers
    <2> QED BY <2>2 DEF BitAt
  <1> DEFINE low == CHOOSE g : BitsEq(g, ones, v1, v2)
  <1>1. ByBits(ones, v1, v2) = low[XLEN]
    BY DEF ByBits, BitsEq, BitAt
  <1>2. \E g : BitsEq(g, ones, v1, v2)
    <2> DEFINE turn == [j \in 1..XLEN |-> [s \in Nat |-> s + B(j)]]
    <2> HIDE DEF B
    <2>1. turn \in [1..XLEN -> [Nat -> Nat]]
      BY <1>b
    <2>2. \A j \in 1..XLEN : \A s \in Nat : turn[j][s] = s + B(j)
      OBVIOUS
    <2> HIDE DEF turn
    <2>3. PICK g \in [0..XLEN -> Nat] : LoopEq(g, XLEN, 0, turn)
      BY <1>0, <2>1, LoopExists
    <2>4. ASSUME NEW j \in 0..XLEN, j # 0 PROVE turn[j][g[j - 1]] = g[j - 1] + B(j)
      <3>1. j \in 1..XLEN /\ j - 1 \in 0..XLEN
        BY <1>0, <2>4
      <3> QED BY <3>1, <2>2
    <2>5. [j \in 0..XLEN |-> IF j = 0 THEN 0 ELSE turn[j][g[j - 1]]]
            = [j \in 0..XLEN |-> IF j = 0 THEN 0 ELSE g[j - 1] + B(j)]
      BY <2>4
    <2>6. BitsEq(g, ones, v1, v2)
      BY <2>3, <2>5, Zenon DEF BitsEq, LoopEq, B
    <2> QED BY <2>6
  <1>3. BitsEq(low, ones, v1, v2)
    BY <1>2
  <1> HIDE DEF low
  <1>4. low[0] = 0 /\ \A j \in 1..XLEN : low[j] = low[j - 1] + B(j)
    <2> HIDE DEF B
    <2>1. low = [j \in 0..XLEN |-> IF j = 0 THEN 0 ELSE low[j - 1] + B(j)]
      BY <1>3, Zenon DEF BitsEq, B
    <2> QED BY <1>0, <2>1
  <1> QED BY <1>1, <1>4

LEMMA BitsType ==
    ASSUME NEW ones, NEW v1, NEW v2
    PROVE ByBits(ones, v1, v2) \in Words
  <1> DEFINE B(j) == BitAt(ones, v1, v2, j)
  <1>0. XLEN \in Nat /\ WORD = Pow2[XLEN]
    BY CpuAssumption
  <1>b. ASSUME NEW j \in 1..XLEN PROVE B(j) \in Nat /\ B(j) <= Pow2[j - 1] /\ Pow2[j - 1] \in Nat
    <2>1. j - 1 \in 0..XLEN
      BY <1>0
    <2>2. Pow2[j - 1] \in Nat
      BY <2>1, Powers
    <2> QED BY <2>2 DEF BitAt
  <1>1. PICK low : /\ ByBits(ones, v1, v2) = low[XLEN] /\ low[0] = 0
                   /\ \A j \in 1..XLEN : low[j] = low[j - 1] + B(j)
    BY BitsLoop
  <1> HIDE DEF B
  <1> DEFINE P == {m \in Nat : m <= XLEN => low[m] \in Nat /\ low[m] < Pow2[m]}
  <1>5. 0 \in P
    BY <1>1, Powers
  <1>6. ASSUME NEW m \in Nat, m \in P PROVE m + 1 \in P
    <2> SUFFICES ASSUME m + 1 <= XLEN PROVE low[m + 1] \in Nat /\ low[m + 1] < Pow2[m + 1]
      OBVIOUS
    <2>1. m + 1 \in 1..XLEN /\ (m + 1) - 1 = m /\ m <= XLEN
      BY <1>0
    <2>2. low[m] \in Nat /\ low[m] < Pow2[m]
      BY <1>6, <2>1
    <2>3. low[m + 1] = low[m] + B(m + 1) /\ Pow2[m + 1] = 2 * Pow2[m]
      BY <1>1, <2>1, Powers
    <2>4. B(m + 1) \in Nat /\ B(m + 1) <= Pow2[m] /\ Pow2[m] \in Nat
      BY <1>b, <2>1
    <2> QED BY <2>2, <2>3, <2>4
  <1>7. XLEN \in P
    <2> HIDE DEF P
    <2> QED BY <1>0, <1>5, <1>6, StepInduct
  <1>8. low[XLEN] \in Nat /\ low[XLEN] < WORD
    BY <1>0, <1>7
  <1> QED BY <1>1, <1>8, InWords

LEMMA IntWords ==
    ASSUME NEW v \in Words
    PROVE v \in Int
  BY InWords

LEMMA ShiftTypes ==
    ASSUME NEW v \in Words, NEW s \in Words
    PROVE Shl(v, s) \in Words /\ Shr(v, s) \in Words /\ Sar(v, s) \in Words
  <1> DEFINE p == Pow2[s % XLEN]
  <1>1. v \in Int /\ s \in Int
    BY IntWords
  <1>2. p \in Nat \ {0}
    BY <1>1, Shift
  <1>3. Shl(v, s) = W(v * p) /\ Shr(v, s) = v \div p /\ Sar(v, s) = W(I32(v) \div p)
    BY DEF Shl, Shr, Sar
  <1> HIDE DEF p
  <1>4. v * p \in Int /\ I32(v) \div p \in Int
    <2>1. I32(v) \in Int
      BY I32Type
    <2> QED BY <1>1, <1>2, <2>1, DivRest
  <1> QED BY <1>2, <1>3, <1>4, WordType, DividedType

LEMMA HighType ==
    ASSUME NEW v1 \in Words, NEW v2 \in Words
    PROVE High(v1, v2) \in Words
  <1> DEFINE a == I32(v1) * I32(v2)
             m == WORD
  <1>1. I32(v1) \in Int /\ I32(v2) \in Int
    BY I32Type
  <1>2. a \in Int /\ m \in Nat \ {0}
    BY <1>1, Widths
  <1> HIDE DEF a, m
  <1>3. a \div m \in Int
    BY <1>2, DivRest
  <1> QED BY <1>3, WordType DEF High, a, m

LEMMA BitwiseTypes ==
    ASSUME NEW v1, NEW v2
    PROVE And(v1, v2) \in Words /\ Or(v1, v2) \in Words /\ Xor(v1, v2) \in Words
  BY BitsType DEF And, Or, Xor

\* What the ALU gives is a word, where it does not trap.
LEMMA RType ==
    ASSUME NEW f3 \in 0..7, NEW f7, NEW v1 \in Words, NEW v2 \in Words, f7 = 1 /\ f3 >= 4 => v2 # 0
    PROVE r_type(f3, f7, v1, v2) \in Words
  <1>0. v1 \in Int /\ v2 \in Int /\ I32(v1) \in Int /\ I32(v2) \in Int /\ (I32(v2) = 0 <=> v2 = 0)
    BY IntWords, I32Type
  <1>s. Shl(v1, v2) \in Words /\ Shr(v1, v2) \in Words /\ Sar(v1, v2) \in Words /\ High(v1, v2) \in Words
    BY ShiftTypes, HighType
  <1>b. And(v1, v2) \in Words /\ Or(v1, v2) \in Words /\ Xor(v1, v2) \in Words
    BY BitwiseTypes
  <1>f. Flag(I32(v1) < I32(v2)) \in Words /\ Flag(v1 < v2) \in Words
    BY FlagWords DEF Flag
  <1>a. W(v1 - v2) \in Words /\ W(v1 * v2) \in Words /\ W(v1 + v2) \in Words
    BY <1>0, WordType
  <1>d. ASSUME v2 # 0
        PROVE /\ W(Quotient(I32(v1), I32(v2))) \in Words /\ W(Remainder(I32(v1), I32(v2))) \in Words
              /\ v1 \div v2 \in Words /\ v1 % v2 \in Words
    <2>1. Quotient(I32(v1), I32(v2)) \in Int /\ Remainder(I32(v1), I32(v2)) \in Int
      BY <1>0, <1>d, DivisionType
    <2>2. v2 \in Nat \ {0}
      BY <1>d, InWords
    <2> QED BY <2>1, <2>2, WordType, DividedType
  <1>0a. CASE f3 = 0
    BY <1>0a, <1>a DEF r_type
  <1>1. CASE f3 = 1
    BY <1>1, <1>s DEF r_type
  <1>2. CASE f3 = 2
    BY <1>2, <1>s, <1>f DEF r_type
  <1>3. CASE f3 = 3
    BY <1>3, <1>s, <1>f DEF r_type
  <1>4. CASE f3 = 4
    BY <1>4, <1>b, <1>d DEF r_type
  <1>5. CASE f3 = 5
    BY <1>5, <1>s, <1>d DEF r_type
  <1>6. CASE f3 = 6
    BY <1>6, <1>b, <1>d DEF r_type
  <1>7. CASE f3 = 7
    BY <1>7, <1>b, <1>d DEF r_type
  <1> QED BY <1>0a, <1>1, <1>2, <1>3, <1>4, <1>5, <1>6, <1>7

LEMMA ITypes ==
    ASSUME NEW f3 \in 0..7, NEW f7, NEW v1 \in Words, NEW imm \in Words
    PROVE i_type(f3, f7, v1, imm) \in Words
  <1>0. v1 \in Int /\ imm \in Int /\ I32(v1) \in Int /\ I32(imm) \in Int
    BY IntWords, I32Type
  <1>s. Shl(v1, imm) \in Words /\ Shr(v1, imm) \in Words /\ Sar(v1, imm) \in Words
    BY ShiftTypes
  <1>b. And(v1, imm) \in Words /\ Or(v1, imm) \in Words /\ Xor(v1, imm) \in Words
    BY BitwiseTypes
  <1>f. Flag(I32(v1) < I32(imm)) \in Words /\ Flag(v1 < imm) \in Words /\ W(v1 + imm) \in Words
    <2>1. Flag(I32(v1) < I32(imm)) \in Words /\ Flag(v1 < imm) \in Words
      BY FlagWords DEF Flag
    <2> QED BY <1>0, <2>1, WordType
  <1>1. CASE f3 \in {0, 2, 3}
    BY <1>1, <1>f DEF i_type
  <1>2. CASE f3 \in {4, 6, 7}
    BY <1>2, <1>b DEF i_type
  <1>3. CASE f3 = 1
    BY <1>3, <1>s DEF i_type
  <1>4. CASE f3 = 5
    BY <1>4, <1>s DEF i_type
  <1> QED BY <1>1, <1>2, <1>3, <1>4

-----------------------------------------------------------------------------
\* One argument: its pointer, then its bytes
PutArgBase(state, k) ==
    [m |-> memory_wr_w(state.m, W(ARG_BASE + 4 * k), state.str), str |-> state.str]
PutByte(s, b) == [m |-> memory_wr_b(s.m, s.str, b), str |-> W(s.str + 1)]
PutArgEq(g, state, k, bytes) ==
    g = [j \in 0..Len(bytes) |-> IF j = 0 THEN PutArgBase(state, k) ELSE PutByte(g[j - 1], bytes[j])]

Loading == [m : Memories, str : Words]

LEMMA PutArgLoop ==
    ASSUME NEW state \in Loading, NEW k \in Nat, NEW arg \in Seq(1..BYTE - 1)
    PROVE \E put : /\ PutArg(state, k, arg) = put[Len(Append(arg, 0))] /\ put[0] = PutArgBase(state, k)
                   /\ \A j \in 1..Len(Append(arg, 0)) : put[j] = PutByte(put[j - 1], Append(arg, 0)[j])
                   /\ \A j \in 0..Len(Append(arg, 0)) : put[j] \in Loading
  <1> DEFINE bytes == Append(arg, 0)
             N == Len(bytes)
             put == CHOOSE g : PutArgEq(g, state, k, bytes)
             base == PutArgBase(state, k)
  <1>1. PutArg(state, k, arg) = put[N]
    BY DEF PutArg, PutArgEq, PutArgBase, PutByte
  <1>2. bytes \in Seq(Int) /\ N \in Nat /\ \A j \in 1..N : bytes[j] \in Int
    <2>1. BYTE \in Nat
      BY Widths
    <2>2. arg \in Seq(Int)
      BY <2>1
    <2>3. bytes \in Seq(Int)
      BY <2>2
    <2> HIDE DEF bytes
    <2> QED BY <2>3
  <1>3. base \in Loading
    <2>1. state.m \in Memories /\ state.str \in Words
      BY DEF Loading
    <2>2. ARG_BASE + 4 * k \in Int
      <3>1. ARG_BASE \in Int
        BY CpuAssumption, IntWords
      <3> QED BY <3>1
    <2>3. memory_wr_w(state.m, W(ARG_BASE + 4 * k), state.str) \in Memories
      BY <2>1, <2>2, WordType, PutType DEF memory_wr_w
    <2> QED BY <2>1, <2>3 DEF PutArgBase, Loading
  <1>4. ASSUME NEW s \in Loading, NEW b \in Int PROVE PutByte(s, b) \in Loading
    <2>1. s.m \in Memories /\ s.str \in Words
      BY DEF Loading
    <2>2. memory_wr_b(s.m, s.str, b) \in Memories
      BY <2>1, WriteByteType
    <2>3. W(s.str + 1) \in Words
      <3>1. s.str + 1 \in Int
        BY <2>1, IntWords
      <3> QED BY <3>1, WordType
    <2> QED BY <2>2, <2>3 DEF PutByte, Loading
  <1> HIDE DEF bytes, N, base
  <1>5. \E g : PutArgEq(g, state, k, bytes)
    <2> DEFINE turn == [j \in 1..N |-> [s \in Loading |-> PutByte(s, bytes[j])]]
    <2>1. turn \in [1..N -> [Loading -> Loading]]
      BY <1>2, <1>4
    <2>2. \A j \in 1..N : \A s \in Loading : turn[j][s] = PutByte(s, bytes[j])
      OBVIOUS
    <2> HIDE DEF turn
    <2>3. PICK g \in [0..N -> Loading] : LoopEq(g, N, base, turn)
      BY <1>2, <1>3, <2>1, LoopExists
    <2>4. ASSUME NEW j \in 0..N, j # 0 PROVE turn[j][g[j - 1]] = PutByte(g[j - 1], bytes[j])
      <3>1. j \in 1..N /\ j - 1 \in 0..N
        BY <1>2, <2>4
      <3> QED BY <3>1, <2>2
    <2>5. [j \in 0..N |-> IF j = 0 THEN base ELSE turn[j][g[j - 1]]]
            = [j \in 0..N |-> IF j = 0 THEN base ELSE PutByte(g[j - 1], bytes[j])]
      BY <2>4
    <2>6. PutArgEq(g, state, k, bytes)
      BY <2>3, <2>5, Zenon DEF PutArgEq, LoopEq, N, base
    <2> QED BY <2>6
  <1>6. PutArgEq(put, state, k, bytes)
    BY <1>5
  <1> HIDE DEF put
  <1>7. put = [j \in 0..N |-> IF j = 0 THEN base ELSE PutByte(put[j - 1], bytes[j])]
    BY <1>6, Zenon DEF PutArgEq, N, base
  <1>8. put[0] = base /\ \A j \in 1..N : put[j] = PutByte(put[j - 1], bytes[j])
    <2>1. 0 \in 0..N /\ \A j \in 1..N : j \in 0..N /\ j # 0
      BY <1>2
    <2> QED BY <1>7, <2>1
  <1>9. \A j \in 1..N : put[j - 1] \in Loading => put[j] \in Loading
    BY <1>2, <1>4, <1>8
  <1>10. put[0] \in Loading
    BY <1>3, <1>8
  <1>11. \A j \in 0..N : put[j] \in Loading
    BY <1>2, <1>9, <1>10, LoopKeeps
  <1> QED BY <1>1, <1>8, <1>11 DEF base, N, bytes

LEMMA PutArgType ==
    ASSUME NEW state \in Loading, NEW k \in Nat, NEW arg \in Seq(1..BYTE - 1)
    PROVE PutArg(state, k, arg) \in Loading
  <1>1. Len(Append(arg, 0)) \in 0..Len(Append(arg, 0))
    OBVIOUS
  <1> QED BY <1>1, PutArgLoop

\* All arguments
PassEq(g, base, args) == g = [k \in 0..Len(args) |-> IF k = 0 THEN base ELSE PutArg(g[k - 1], k, args[k])]

PassBase(m, args) == [m |-> memory_wr_w(m, ARG_BASE, Len(args)), str |-> W(ARG_BASE + 4 + 4 * Len(args))]

LEMMA PassLoop ==
    ASSUME NEW m \in Memories, NEW args \in ArgLists
    PROVE \E passed : /\ pass_args_to_program(m, args) = IF args = <<>> THEN m ELSE passed[Len(args)].m
                      /\ passed[0] = PassBase(m, args)
                      /\ \A j \in 1..Len(args) : passed[j] = PutArg(passed[j - 1], j, args[j])
                      /\ \A j \in 0..Len(args) : passed[j] \in Loading
  <1> DEFINE N == Len(args)
             base == PassBase(m, args)
             passed == CHOOSE g : PassEq(g, base, args)
  <1>1. pass_args_to_program(m, args) = IF args = <<>> THEN m ELSE passed[N].m
    BY DEF pass_args_to_program, PassEq, PassBase
  <1>2. N \in Nat /\ N \in Words /\ \A k \in 1..N : args[k] \in Seq(1..BYTE - 1)
    <2>1. args \in Seq(Seq(1..BYTE - 1)) /\ N \in Words
      BY CpuAssumption
    <2> QED BY <2>1
  <1>3. base \in Loading
    <2>1. ARG_BASE \in Words /\ ARG_BASE \in Int
      BY CpuAssumption, IntWords
    <2>2. memory_wr_w(m, ARG_BASE, Len(args)) \in Memories
      BY <1>2, <2>1, PutType DEF memory_wr_w
    <2>3. W(ARG_BASE + 4 + 4 * Len(args)) \in Words
      BY <1>2, <2>1, WordType
    <2> QED BY <2>2, <2>3 DEF Loading, PassBase
  <1> HIDE DEF N, base
  <1>4. ASSUME NEW s \in Loading, NEW k \in 1..N PROVE PutArg(s, k, args[k]) \in Loading
    BY <1>2, PutArgType
  <1>5. \E g : PassEq(g, base, args)
    <2> DEFINE turn == [j \in 1..N |-> [s \in Loading |-> PutArg(s, j, args[j])]]
    <2>1. turn \in [1..N -> [Loading -> Loading]]
      BY <1>4
    <2>2. \A j \in 1..N : \A s \in Loading : turn[j][s] = PutArg(s, j, args[j])
      OBVIOUS
    <2> HIDE DEF turn
    <2>3. PICK g \in [0..N -> Loading] : LoopEq(g, N, base, turn)
      BY <1>2, <1>3, <2>1, LoopExists
    <2>4. ASSUME NEW j \in 0..N, j # 0 PROVE turn[j][g[j - 1]] = PutArg(g[j - 1], j, args[j])
      <3>1. j \in 1..N /\ j - 1 \in 0..N
        BY <1>2, <2>4
      <3> QED BY <3>1, <2>2
    <2>5. [j \in 0..N |-> IF j = 0 THEN base ELSE turn[j][g[j - 1]]]
            = [j \in 0..N |-> IF j = 0 THEN base ELSE PutArg(g[j - 1], j, args[j])]
      BY <2>4
    <2>6. PassEq(g, base, args)
      BY <2>3, <2>5, Zenon DEF PassEq, LoopEq, N
    <2> QED BY <2>6
  <1>6. PassEq(passed, base, args)
    BY <1>5
  <1> HIDE DEF passed
  <1>7. passed = [j \in 0..N |-> IF j = 0 THEN base ELSE PutArg(passed[j - 1], j, args[j])]
    BY <1>6, Zenon DEF PassEq, N
  <1>8. passed[0] = base /\ \A j \in 1..N : passed[j] = PutArg(passed[j - 1], j, args[j])
    <2>1. 0 \in 0..N /\ \A j \in 1..N : j \in 0..N /\ j # 0
      BY <1>2
    <2> QED BY <1>7, <2>1
  <1>9. \A j \in 1..N : passed[j - 1] \in Loading => passed[j] \in Loading
    BY <1>2, <1>4, <1>8
  <1>10. passed[0] \in Loading
    BY <1>3, <1>8
  <1>11. \A j \in 0..N : passed[j] \in Loading
    BY <1>2, <1>9, <1>10, LoopKeeps
  <1> QED BY <1>1, <1>8, <1>11 DEF base, N

LEMMA PassType ==
    ASSUME NEW m \in Memories, NEW args \in ArgLists
    PROVE pass_args_to_program(m, args) \in Memories
  <1>1. Len(args) \in 0..Len(args)
    BY CpuAssumption
  <1>2. PICK passed : /\ pass_args_to_program(m, args) = IF args = <<>> THEN m ELSE passed[Len(args)].m
                      /\ \A j \in 0..Len(args) : passed[j] \in Loading
    BY PassLoop
  <1>3. passed[Len(args)].m \in Memories
    BY <1>1, <1>2 DEF Loading
  <1> QED BY <1>2, <1>3

\* One segment, and the segments of a file
SegmentEq(g, m, seg) ==
    g = [j \in 0..Len(seg.data) |-> IF j = 0 THEN m ELSE memory_wr_b(g[j - 1], W(seg.vaddr + j - 1), seg.data[j])]

LEMMA SegmentLoop ==
    ASSUME NEW m \in Memories, NEW seg \in Segments
    PROVE \E put : /\ PutSegment(m, seg) = put[Len(seg.data)] /\ put[0] = m
                   /\ \A j \in 1..Len(seg.data) :
                        put[j] = memory_wr_b(put[j - 1], W(seg.vaddr + j - 1), seg.data[j])
                   /\ \A j \in 0..Len(seg.data) : put[j] \in Memories
  <1> DEFINE N == Len(seg.data)
             put == CHOOSE g : SegmentEq(g, m, seg)
             B(s, j) == memory_wr_b(s, W(seg.vaddr + j - 1), seg.data[j])
  <1>1. PutSegment(m, seg) = put[N]
    BY DEF PutSegment, SegmentEq
  <1>2. N \in Nat /\ seg.vaddr \in Int /\ \A j \in 1..N : seg.data[j] \in Int
    <2>1. seg.vaddr \in Words /\ seg.data \in Seq(0..BYTE - 1) /\ BYTE \in Nat
      BY Widths DEF Segments
    <2>2. seg.data \in Seq(Int)
      BY <2>1
    <2> QED BY <2>1, <2>2, IntWords
  <1>4. ASSUME NEW s \in Memories, NEW j \in 1..N PROVE B(s, j) \in Memories
    <2>1. seg.vaddr + j - 1 \in Int /\ seg.data[j] \in Int
      BY <1>2
    <2> QED BY <2>1, WordType, WriteByteType
  <1> HIDE DEF N, B
  <1>5. \E g : SegmentEq(g, m, seg)
    <2> DEFINE turn == [j \in 1..N |-> [s \in Memories |-> B(s, j)]]
    <2>1. turn \in [1..N -> [Memories -> Memories]]
      BY <1>4
    <2>2. \A j \in 1..N : \A s \in Memories : turn[j][s] = B(s, j)
      OBVIOUS
    <2> HIDE DEF turn
    <2>3. PICK g \in [0..N -> Memories] : LoopEq(g, N, m, turn)
      BY <1>2, <2>1, LoopExists
    <2>4. ASSUME NEW j \in 0..N, j # 0 PROVE turn[j][g[j - 1]] = B(g[j - 1], j)
      <3>1. j \in 1..N /\ j - 1 \in 0..N
        BY <1>2, <2>4
      <3> QED BY <3>1, <2>2
    <2>5. [j \in 0..N |-> IF j = 0 THEN m ELSE turn[j][g[j - 1]]]
            = [j \in 0..N |-> IF j = 0 THEN m ELSE B(g[j - 1], j)]
      BY <2>4
    <2>6. SegmentEq(g, m, seg)
      BY <2>3, <2>5, Zenon DEF SegmentEq, LoopEq, N, B
    <2> QED BY <2>6
  <1>6. SegmentEq(put, m, seg)
    BY <1>5
  <1> HIDE DEF put
  <1>7. put = [j \in 0..N |-> IF j = 0 THEN m ELSE B(put[j - 1], j)]
    BY <1>6, Zenon DEF SegmentEq, N, B
  <1>8. put[0] = m /\ \A j \in 1..N : put[j] = B(put[j - 1], j)
    <2>1. 0 \in 0..N /\ \A j \in 1..N : j \in 0..N /\ j # 0
      BY <1>2
    <2> QED BY <1>7, <2>1
  <1>9. \A j \in 1..N : put[j - 1] \in Memories => put[j] \in Memories
    BY <1>4, <1>8
  <1>11. \A j \in 0..N : put[j] \in Memories
    BY <1>2, <1>8, <1>9, LoopKeeps
  <1> QED BY <1>1, <1>8, <1>11 DEF N, B

LEMMA SegmentType ==
    ASSUME NEW m \in Memories, NEW seg \in Segments
    PROVE PutSegment(m, seg) \in Memories
  <1>1. Len(seg.data) \in 0..Len(seg.data)
    BY DEF Segments
  <1> QED BY <1>1, SegmentLoop

ElfEq(g, m, segments) == g = [s \in 0..Len(segments) |-> IF s = 0 THEN m ELSE PutSegment(g[s - 1], segments[s])]

LEMMA ElfLoop ==
    ASSUME NEW m \in Memories, NEW segments \in Images
    PROVE \E loaded : /\ read_elf(m, segments) = loaded[Len(segments)] /\ loaded[0] = m
                      /\ \A j \in 1..Len(segments) : loaded[j] = PutSegment(loaded[j - 1], segments[j])
                      /\ \A j \in 0..Len(segments) : loaded[j] \in Memories
  <1> DEFINE N == Len(segments)
             loaded == CHOOSE g : ElfEq(g, m, segments)
  <1>1. read_elf(m, segments) = loaded[N]
    BY DEF read_elf, ElfEq
  <1>2. N \in Nat /\ \A j \in 1..N : segments[j] \in Segments
    <2>1. segments \in Seq(Segments)
      BY CpuAssumption
    <2> QED BY <2>1
  <1>4. ASSUME NEW s \in Memories, NEW j \in 1..N PROVE PutSegment(s, segments[j]) \in Memories
    BY <1>2, SegmentType
  <1> HIDE DEF N
  <1>5. \E g : ElfEq(g, m, segments)
    <2> DEFINE turn == [j \in 1..N |-> [s \in Memories |-> PutSegment(s, segments[j])]]
    <2>1. turn \in [1..N -> [Memories -> Memories]]
      BY <1>4
    <2>2. \A j \in 1..N : \A s \in Memories : turn[j][s] = PutSegment(s, segments[j])
      OBVIOUS
    <2> HIDE DEF turn
    <2>3. PICK g \in [0..N -> Memories] : LoopEq(g, N, m, turn)
      BY <1>2, <2>1, LoopExists
    <2>4. ASSUME NEW j \in 0..N, j # 0 PROVE turn[j][g[j - 1]] = PutSegment(g[j - 1], segments[j])
      <3>1. j \in 1..N /\ j - 1 \in 0..N
        BY <1>2, <2>4
      <3> QED BY <3>1, <2>2
    <2>5. [j \in 0..N |-> IF j = 0 THEN m ELSE turn[j][g[j - 1]]]
            = [j \in 0..N |-> IF j = 0 THEN m ELSE PutSegment(g[j - 1], segments[j])]
      BY <2>4
    <2>6. ElfEq(g, m, segments)
      BY <2>3, <2>5, Zenon DEF ElfEq, LoopEq, N
    <2> QED BY <2>6
  <1>6. ElfEq(loaded, m, segments)
    BY <1>5
  <1> HIDE DEF loaded
  <1>7. loaded = [j \in 0..N |-> IF j = 0 THEN m ELSE PutSegment(loaded[j - 1], segments[j])]
    BY <1>6, Zenon DEF ElfEq, N
  <1>8. loaded[0] = m /\ \A j \in 1..N : loaded[j] = PutSegment(loaded[j - 1], segments[j])
    <2>1. 0 \in 0..N /\ \A j \in 1..N : j \in 0..N /\ j # 0
      BY <1>2
    <2> QED BY <1>7, <2>1
  <1>9. \A j \in 1..N : loaded[j - 1] \in Memories => loaded[j] \in Memories
    BY <1>4, <1>8
  <1>11. \A j \in 0..N : loaded[j] \in Memories
    BY <1>2, <1>8, <1>9, LoopKeeps
  <1> QED BY <1>1, <1>8, <1>11 DEF N

LEMMA ElfType ==
    ASSUME NEW m \in Memories, NEW segments \in Images
    PROVE read_elf(m, segments) \in Memories
  <1>1. Len(segments) \in 0..Len(segments)
    BY CpuAssumption
  <1> QED BY <1>1, ElfLoop

LEMMA CreateType == memory_create \in Memories
  BY DEF memory_create, Memories

-----------------------------------------------------------------------------
Counter(t, s, i) == IF t = "bimodal" THEN bimodal[s][i] ELSE gshare[s][i]

\* An entry owes the mispredictions it will still make if the outcome stays as
\* it is: 2 - c after a taken branch, c - 1 after one not taken.  What it has
\* missed and what it owes together are paid for by the turns so far.
Entry(c, l, u, m) ==
    /\ c \in 0..3 /\ l \in {"none", "taken", "not"} /\ u \in Nat /\ m \in Nat
    /\ l = "none" => c = 2 /\ u = 0 /\ m = 0
    /\ l = "taken" => m <= 2 * u /\ m + (2 - c) <= 2 * u
    /\ l = "not" => m <= 2 * u /\ m + (c - 1) <= 2 * u

\* One branch through one entry, predicted and trained
LEMMA EntryStep ==
    ASSUME NEW c, NEW l, NEW u, NEW m, NEW taken \in BOOLEAN, Entry(c, l, u, m)
    PROVE Entry(Train(c, taken), Outcome(taken),
                IF l # Outcome(taken) THEN u + 1 ELSE u,
                IF predicts(c) # taken THEN m + 1 ELSE m)
  <1>c. c \in Int /\ (c = 0 \/ c = 1 \/ c = 2 \/ c = 3)
    BY DEF Entry
  <1>1. CASE taken
    <2>1. (predicts(c) # taken) <=> c < 2
      <3>1. predicts(c) = (c >= 2) /\ ((c >= 2) = ~(c < 2))
        BY <1>c DEF predicts
      <3>2. taken = TRUE /\ (c < 2) \in BOOLEAN
        BY <1>1
      <3> QED BY <3>1, <3>2, Zenon
    <2>2. Outcome(taken) = "taken" /\ Train(c, taken) = IF c < 3 THEN c + 1 ELSE c
      BY <1>1 DEF Outcome, Train
    <2>3. CASE c < 2
      BY <2>1, <2>2, <2>3, <1>c DEF Entry
    <2>4. CASE c >= 2
      BY <2>1, <2>2, <2>4, <1>c DEF Entry
    <2> QED BY <2>3, <2>4, <1>c
  <1>2. CASE ~taken
    <2>1. (predicts(c) # taken) <=> c >= 2
      BY <1>2, <1>c DEF predicts
    <2>2. Outcome(taken) = "not" /\ Train(c, taken) = IF c > 0 THEN c - 1 ELSE c
      BY <1>2 DEF Outcome, Train
    <2>3. CASE c < 2
      BY <2>1, <2>2, <2>3, <1>c DEF Entry
    <2>4. CASE c >= 2
      BY <2>1, <2>2, <2>4, <1>c DEF Entry
    <2> QED BY <2>3, <2>4, <1>c
  <1> QED BY <1>1, <1>2

EntriesOK ==
    \A t \in Tables : \A s \in Sizes : \A i \in 0..s - 1 :
      Entry(Counter(t, s, i), last[t][s][i], turns[t][s][i], missed[t][s][i])

ErrorsOK ==
    /\ branch_count \in Nat
    /\ nt_errors \in 0..branch_count /\ btfnt_errors \in 0..branch_count

PInv == PredictorTypeOK /\ EntriesOK /\ ErrorsOK

LEMMA PInit == PredictorInit => PInv
  <1> SUFFICES ASSUME PredictorInit PROVE PInv
    OBVIOUS
  <1>1. PredictorTypeOK
    BY PredictorAssumption DEF PredictorInit, PredictorTypeOK
  <1>2. EntriesOK
    <2> SUFFICES ASSUME NEW t \in Tables, NEW s \in Sizes, NEW i \in 0..s - 1
                 PROVE Entry(Counter(t, s, i), last[t][s][i], turns[t][s][i], missed[t][s][i])
      BY DEF EntriesOK
    <2>1. Counter(t, s, i) = 2
      BY DEF PredictorInit, Counter
    <2>2. last[t][s][i] = "none" /\ turns[t][s][i] = 0 /\ missed[t][s][i] = 0
      BY DEF PredictorInit, PerEntry
    <2> QED BY <2>1, <2>2 DEF Entry
  <1>3. ErrorsOK
    BY DEF PredictorInit, ErrorsOK
  <1> QED BY <1>1, <1>2, <1>3 DEF PInv

\* The entries of one table, at any index that the branch may use
LEMMA BimodalEntries ==
    ASSUME NEW a, NEW target, NEW taken \in BOOLEAN, Predict(a, target, taken),
           PInv, NEW s \in Sizes, NEW i \in 0..s - 1
    PROVE Entry(bimodal'[s][i], last'["bimodal"][s][i], turns'["bimodal"][s][i], missed'["bimodal"][s][i])
  <1>0. "bimodal" \in Tables
    BY DEF Tables
  <1>1. Entry(bimodal[s][i], last["bimodal"][s][i], turns["bimodal"][s][i], missed["bimodal"][s][i])
    BY <1>0 DEF PInv, EntriesOK, Counter
  <1>b. bimodal'[s][i] = IF i = BimodalIndex(a, s) THEN Train(bimodal[s][i], taken) ELSE bimodal[s][i]
    BY DEF Predict, Trained
  <1>l. last'["bimodal"] = Latest("bimodal", BimodalIndex, a, taken)
    BY <1>0 DEF Predict
  <1>u. turns'["bimodal"] = Turned("bimodal", BimodalIndex, a, taken)
    BY <1>0 DEF Predict
  <1>m. missed'["bimodal"] = Missed("bimodal", bimodal, BimodalIndex, a, taken)
    BY <1>0 DEF Predict
  <1>2. CASE i = BimodalIndex(a, s)
    <2>1. last'["bimodal"][s][i] = Outcome(taken)
      BY <1>l, <1>2 DEF Latest
    <2>2. turns'["bimodal"][s][i] = IF last["bimodal"][s][i] # Outcome(taken) THEN turns["bimodal"][s][i] + 1
                                    ELSE turns["bimodal"][s][i]
      BY <1>u, <1>2 DEF Turned
    <2>3. missed'["bimodal"][s][i] = IF predicts(bimodal[s][i]) # taken THEN missed["bimodal"][s][i] + 1
                                     ELSE missed["bimodal"][s][i]
      BY <1>m, <1>2 DEF Missed
    <2> QED BY <2>1, <2>2, <2>3, <1>1, <1>2, <1>b, EntryStep
  <1>3. CASE i # BimodalIndex(a, s)
    <2>1. /\ last'["bimodal"][s][i] = last["bimodal"][s][i]
          /\ turns'["bimodal"][s][i] = turns["bimodal"][s][i]
          /\ missed'["bimodal"][s][i] = missed["bimodal"][s][i]
      BY <1>l, <1>u, <1>m, <1>3 DEF Latest, Turned, Missed
    <2> QED BY <2>1, <1>1, <1>3, <1>b
  <1> QED BY <1>2, <1>3

LEMMA GshareEntries ==
    ASSUME NEW a, NEW target, NEW taken \in BOOLEAN, Predict(a, target, taken),
           PInv, NEW s \in Sizes, NEW i \in 0..s - 1
    PROVE Entry(gshare'[s][i], last'["gshare"][s][i], turns'["gshare"][s][i], missed'["gshare"][s][i])
  <1>0. "gshare" \in Tables /\ "gshare" # "bimodal"
    BY DEF Tables
  <1>1. Entry(gshare[s][i], last["gshare"][s][i], turns["gshare"][s][i], missed["gshare"][s][i])
    BY <1>0 DEF PInv, EntriesOK, Counter
  <1>b. gshare'[s][i] = IF i = GshareIndex(a, s) THEN Train(gshare[s][i], taken) ELSE gshare[s][i]
    BY DEF Predict, Trained
  <1>l. last'["gshare"] = Latest("gshare", GshareIndex, a, taken)
    BY <1>0 DEF Predict
  <1>u. turns'["gshare"] = Turned("gshare", GshareIndex, a, taken)
    BY <1>0 DEF Predict
  <1>m. missed'["gshare"] = Missed("gshare", gshare, GshareIndex, a, taken)
    BY <1>0 DEF Predict
  <1>2. CASE i = GshareIndex(a, s)
    <2>1. last'["gshare"][s][i] = Outcome(taken)
      BY <1>l, <1>2 DEF Latest
    <2>2. turns'["gshare"][s][i] = IF last["gshare"][s][i] # Outcome(taken) THEN turns["gshare"][s][i] + 1
                                   ELSE turns["gshare"][s][i]
      BY <1>u, <1>2 DEF Turned
    <2>3. missed'["gshare"][s][i] = IF predicts(gshare[s][i]) # taken THEN missed["gshare"][s][i] + 1
                                    ELSE missed["gshare"][s][i]
      BY <1>m, <1>2 DEF Missed
    <2> QED BY <2>1, <2>2, <2>3, <1>1, <1>2, <1>b, EntryStep
  <1>3. CASE i # GshareIndex(a, s)
    <2>1. /\ last'["gshare"][s][i] = last["gshare"][s][i]
          /\ turns'["gshare"][s][i] = turns["gshare"][s][i]
          /\ missed'["gshare"][s][i] = missed["gshare"][s][i]
      BY <1>l, <1>u, <1>m, <1>3 DEF Latest, Turned, Missed
    <2> QED BY <2>1, <1>1, <1>3, <1>b
  <1> QED BY <1>2, <1>3

LEMMA PredictInv ==
    ASSUME PInv, NEW a, NEW target, NEW taken \in BOOLEAN, Predict(a, target, taken)
    PROVE PInv'
  <1>1. EntriesOK'
    <2> SUFFICES ASSUME NEW t \in Tables, NEW s \in Sizes, NEW i \in 0..s - 1
                 PROVE Entry(Counter(t, s, i), last[t][s][i], turns[t][s][i], missed[t][s][i])'
      BY DEF EntriesOK
    <2>1. CASE t = "bimodal"
      BY <2>1, BimodalEntries DEF Counter, Entry
    <2>2. CASE t = "gshare"
      BY <2>2, GshareEntries DEF Counter, Entry
    <2> QED BY <2>1, <2>2 DEF Tables
  <1>2. ErrorsOK'
    BY DEF Predict, PInv, ErrorsOK
  <1>3. PredictorTypeOK'
    <2>1. DOMAIN bimodal' = Sizes /\ DOMAIN gshare' = Sizes
      BY DEF Predict, Trained
    <2>2. ASSUME NEW s \in Sizes
          PROVE bimodal'[s] \in [0..s - 1 -> 0..3] /\ gshare'[s] \in [0..s - 1 -> 0..3]
      <3>1. bimodal'[s] = [i \in 0..s - 1 |-> bimodal'[s][i]] /\ gshare'[s] = [i \in 0..s - 1 |-> gshare'[s][i]]
        BY DEF Predict, Trained
      <3>2. ASSUME NEW i \in 0..s - 1 PROVE bimodal'[s][i] \in 0..3 /\ gshare'[s][i] \in 0..3
        BY BimodalEntries, GshareEntries DEF Entry
      <3> QED BY <3>1, <3>2
    <2>3. ghr' \in 0..HISTORY - 1
      <3>1. ghr' = (2 * ghr + (IF taken THEN 1 ELSE 0)) % HISTORY /\ ghr \in Int
        BY DEF Predict, PInv, PredictorTypeOK
      <3> QED BY <3>1, PredictorAssumption
    <2>4. {nt_errors', btfnt_errors'} \subseteq 0..branch_count'
      BY <1>2 DEF ErrorsOK
    <2> QED BY <2>1, <2>2, <2>3, <2>4 DEF PredictorTypeOK
  <1> QED BY <1>1, <1>2, <1>3 DEF PInv

LEMMA PNext == PInv /\ [PredictorNext]_predictorVars => PInv'
  <1> SUFFICES ASSUME PInv, [PredictorNext]_predictorVars PROVE PInv'
    OBVIOUS
  <1>1. CASE PredictorNext
    BY <1>1, PredictInv DEF PredictorNext
  <1>2. CASE UNCHANGED predictorVars
    BY <1>2 DEF predictorVars, counters, PInv, PredictorTypeOK, EntriesOK, ErrorsOK, Counter, Entry
  <1> QED BY <1>1, <1>2

\* PredictorTypeOK: the two-bit counters never leave 0..3 and the history
\* register its width.
THEOREM PredictorTypes == PredictorSpec => []PredictorTypeOK
  <1>1. PInv => PredictorTypeOK
    BY DEF PInv
  <1> QED BY <1>1, PInit, PNext, PTL DEF PredictorSpec

\* MispredictsBounded: an entry is wrong at most twice per change of outcome.
THEOREM MispredictionBound == PredictorSpec => []MispredictsBounded
  <1>1. PInv => MispredictsBounded
    BY DEF PInv, EntriesOK, Entry, MispredictsBounded
  <1> QED BY <1>1, PInit, PNext, PTL DEF PredictorSpec

-----------------------------------------------------------------------------
CpuInv == CpuTypeOK /\ PInv

LEMMA InstrType ==
    ASSUME NEW i \in Instrs
    PROVE i.f3 \in 0..7 /\ i.rd \in REGS /\ i.rs1 \in REGS /\ i.rs2 \in REGS /\ i.imm \in Words /\ 0 \in REGS
  BY CpuAssumption DEF Instructions

LEMMA CpuInitInv == Init => CpuInv
  <1> SUFFICES ASSUME Init PROVE CpuInv
    OBVIOUS
  <1>1. PInv
    BY PInit DEF Init
  <1>2. mem \in Memories
    <2>1. PICK args \in ArgLists, segments \in Images :
            mem = read_elf(pass_args_to_program(memory_create, args), segments)
      BY DEF Init
    <2> QED BY <2>1, CreateType, PassType, ElfType
  <1>3. pc \in Words /\ insns \in 0..MaxInsns /\ status = "running"
    BY CpuAssumption DEF Init
  <1>4. regs \in [REGS -> Words] /\ regs[0] = 0
    BY FlagWords, CpuAssumption DEF Init
  <1> QED BY <1>1, <1>2, <1>3, <1>4 DEF CpuInv, CpuTypeOK, PInv

\* What the head and the tail of the loop do
LEMMA RegWritten ==
    ASSUME CpuTypeOK, NEW rd \in REGS, NEW v \in Words, WriteReg(rd, v)
    PROVE regs' \in [REGS -> Words] /\ regs'[0] = 0
  BY FlagWords, CpuAssumption DEF CpuTypeOK, WriteReg

LEMMA Wrapped ==
    ASSUME NEW v \in Words, NEW d \in Words
    PROVE W(v + d) \in Words /\ W(v + 4) \in Words
  <1>1. v + d \in Int /\ v + 4 \in Int
    BY IntWords
  <1> QED BY <1>1, WordType

LEMMA Advanced ==
    ASSUME CpuTypeOK, Advance
    PROVE pc' \in Words
  BY Wrapped DEF CpuTypeOK, Advance

LEMMA TextType ==
    ASSUME CpuTypeOK
    PROVE Text \in Memories
  BY TouchedType DEF CpuTypeOK, Text

LEMMA Fetched ==
    ASSUME CpuTypeOK, NEW i, Fetch(i)
    PROVE insns' \in 0..MaxInsns
  <1>1. MaxInsns \in Nat /\ insns \in 0..MaxInsns /\ insns < MaxInsns /\ insns' = insns + 1
    BY CpuAssumption DEF CpuTypeOK, Fetch
  <1> QED BY <1>1

LEMMA PredictorsKept ==
    ASSUME PInv, UNCHANGED predictorVars
    PROVE PInv'
  BY DEF predictorVars, counters, PInv, PredictorTypeOK, EntriesOK, ErrorsOK, Counter, Entry

\* The parts of the invariant after a step
LEMMA CpuAfter ==
    ASSUME pc' \in Words, regs' \in [REGS -> Words], regs'[0] = 0, mem' \in Memories, insns' \in 0..MaxInsns,
           status' \in {"running", "exited", "unaligned", "trapped"}, PInv'
    PROVE CpuInv'
  BY DEF CpuInv, CpuTypeOK, PInv

LEMMA BuildsInv ==
    ASSUME CpuInv, NEW i \in Instrs, Lui(i) \/ Auipc(i)
    PROVE CpuInv'
  <1>0. CpuTypeOK /\ PInv
    BY DEF CpuInv
  <1>1. Fetch(i) /\ Advance /\ mem' = Text /\ Quietly /\ UNCHANGED predictorVars
    BY DEF Lui, Auipc
  <1>2. regs' \in [REGS -> Words] /\ regs'[0] = 0
    <2>1. i.imm \in Words /\ i.rd \in REGS /\ W(pc + i.imm) \in Words
      BY <1>0, InstrType, Wrapped DEF CpuTypeOK
    <2> QED BY <1>0, <2>1, RegWritten DEF Lui, Auipc
  <1>3. pc' \in Words /\ mem' \in Memories /\ insns' \in 0..MaxInsns /\ PInv'
    BY <1>0, <1>1, Advanced, TextType, Fetched, PredictorsKept
  <1>4. status' \in {"running", "exited", "unaligned", "trapped"}
    BY <1>0, <1>1 DEF CpuTypeOK, Quietly
  <1> QED BY <1>2, <1>3, <1>4, CpuAfter

LEMMA JumpsInv ==
    ASSUME CpuInv, NEW i \in Instrs, Jal(i) \/ Jalr(i)
    PROVE CpuInv'
  <1>0. CpuTypeOK /\ PInv
    BY DEF CpuInv
  <1>1. Fetch(i) /\ mem' = Text /\ Quietly
    BY DEF Jal, Jalr
  <1>2. regs' \in [REGS -> Words] /\ regs'[0] = 0
    <2>1. i.rd \in REGS /\ W(pc + 4) \in Words
      BY <1>0, InstrType, Wrapped DEF CpuTypeOK
    <2> QED BY <1>0, <2>1, RegWritten DEF Jal, Jalr
  <1>3. mem' \in Memories /\ insns' \in 0..MaxInsns
    BY <1>0, <1>1, TextType, Fetched
  <1>4. status' \in {"running", "exited", "unaligned", "trapped"}
    BY <1>0, <1>1 DEF CpuTypeOK, Quietly
  <1>5. pc' \in Words
    <2>1. CASE Jal(i)
      BY <1>0, <2>1, InstrType, Wrapped DEF Jal, CpuTypeOK
    <2>2. CASE Jalr(i)
      <3> DEFINE a == W(regs[i.rs1] + i.imm)
      <3>1. a \in Words
        BY <1>0, InstrType, Wrapped DEF CpuTypeOK
      <3>2. pc' = (a \div 2) * 2
        BY <2>2 DEF Jalr
      <3> HIDE DEF a
      <3>3. a \in Nat /\ a < WORD /\ WORD \in Nat
        BY <3>1, InWords, Widths
      <3>4. pc' \in Nat /\ pc' <= a
        BY <3>2, <3>3
      <3> QED BY <3>3, <3>4, InWords
    <2> QED BY <2>1, <2>2
  <1>6. PInv'
    <2>1. TRUE \in BOOLEAN
      OBVIOUS
    <2>2. CASE Jal(i)
      BY <1>0, <2>1, <2>2, PredictInv DEF Jal
    <2>3. CASE Jalr(i)
      BY <1>0, <2>1, <2>3, PredictInv DEF Jalr
    <2> QED BY <2>2, <2>3
  <1> QED BY <1>2, <1>3, <1>4, <1>5, <1>6, CpuAfter

LEMMA BranchInv ==
    ASSUME CpuInv, NEW i \in Instrs, Branch(i)
    PROVE CpuInv'
  <1>0. CpuTypeOK /\ PInv
    BY DEF CpuInv
  <1>1. Fetch(i) /\ mem' = Text /\ Quietly /\ WriteReg(0, 0)
    BY DEF Branch
  <1> DEFINE taken == branch_taken(i.f3, regs[i.rs1], regs[i.rs2])
             target == W(pc + i.imm)
  <1>2. pc' = (IF taken THEN target ELSE W(pc + 4)) /\ Predict(pc, target, taken)
    BY DEF Branch
  <1>3. taken \in BOOLEAN
    BY DEF branch_taken
  <1>4. target \in Words /\ W(pc + 4) \in Words
    BY <1>0, InstrType, Wrapped DEF CpuTypeOK
  <1> HIDE DEF taken, target
  <1>5. pc' \in Words
    BY <1>2, <1>4
  <1>6. PInv'
    BY <1>0, <1>2, <1>3, PredictInv
  <1>7. regs' \in [REGS -> Words] /\ regs'[0] = 0
    BY <1>0, <1>1, InstrType, FlagWords, RegWritten
  <1>8. mem' \in Memories /\ insns' \in 0..MaxInsns
    BY <1>0, <1>1, TextType, Fetched
  <1>9. status' \in {"running", "exited", "unaligned", "trapped"}
    BY <1>0, <1>1 DEF CpuTypeOK, Quietly
  <1> QED BY <1>5, <1>6, <1>7, <1>8, <1>9, CpuAfter

\* Bytes and halfwords with their sign
LEMMA SignedTypes ==
    ASSUME NEW b \in 0..BYTE - 1, NEW h \in 0..HALF - 1
    PROVE b \in Words /\ h \in Words /\ W(b - BYTE) \in Words /\ W(h - HALF) \in Words
  <1> DEFINE m == WORD
             z == HALF
  <1>1. BYTE \in Nat /\ z \in Nat /\ m \in Nat /\ BYTE <= z /\ z <= m
    BY Widths
  <1>2. h \in 0..z - 1
    OBVIOUS
  <1> HIDE DEF m, z
  <1>3. b \in Nat /\ b < m /\ h \in Nat /\ h < m /\ b - BYTE \in Int /\ h - z \in Int
    BY <1>1, <1>2
  <1> QED BY <1>3, InWords, WordType DEF m, z

LEMMA LoadInv ==
    ASSUME CpuInv, NEW i \in Instrs, Load(i)
    PROVE CpuInv'
  <1>0. CpuTypeOK /\ PInv
    BY DEF CpuInv
  <1> DEFINE addr == W(regs[i.rs1] + i.imm)
             b == memory_rd_b(mem, addr)
             h == memory_rd_h(mem, addr)
             sb == IF b >= BYTE \div 2 THEN W(b - BYTE) ELSE b
             sh == IF h >= HALF \div 2 THEN W(h - HALF) ELSE h
             v == CASE i.f3 = 0 -> sb [] i.f3 = 4 -> b [] i.f3 = 1 -> sh [] i.f3 = 5 -> h
                    [] i.f3 = 2 -> memory_rd_w(mem, addr) [] OTHER -> regs[i.rd]
  <1>1. Fetch(i) /\ Advance /\ Quietly /\ UNCHANGED predictorVars
    BY DEF Load
  <1>2. WriteReg(i.rd, v) /\ mem' = IF i.f3 \in {0, 1, 2, 4, 5} THEN Touched(Text, addr) ELSE Text
    BY DEF Load
  <1>3. addr \in Words /\ mem \in Memories /\ i.rd \in REGS /\ regs[i.rd] \in Words
    BY <1>0, InstrType, Wrapped DEF CpuTypeOK
  <1> HIDE DEF addr
  <1>4. b \in 0..BYTE - 1 /\ h \in 0..HALF - 1 /\ memory_rd_w(mem, addr) \in Words
    BY <1>3, ReadTypes
  <1> HIDE DEF b, h
  <1>5. b \in Words /\ h \in Words /\ W(b - BYTE) \in Words /\ W(h - HALF) \in Words
    BY <1>4, SignedTypes
  <1>6. sb \in Words /\ sh \in Words
    BY <1>5
  <1> HIDE DEF sb, sh
  <1>7. v \in Words
    BY <1>3, <1>4, <1>5, <1>6
  <1> HIDE DEF v
  <1>8. regs' \in [REGS -> Words] /\ regs'[0] = 0
    BY <1>0, <1>2, <1>3, <1>7, RegWritten
  <1>9. mem' \in Memories
    <2>1. Text \in Memories
      BY <1>0, TextType
    <2>2. Touched(Text, addr) \in Memories
      BY <1>3, <2>1, TouchedType
    <2> QED BY <1>2, <2>1, <2>2
  <1>10. pc' \in Words /\ insns' \in 0..MaxInsns /\ PInv'
    BY <1>0, <1>1, Advanced, Fetched, PredictorsKept
  <1>11. status' \in {"running", "exited", "unaligned", "trapped"}
    BY <1>0, <1>1 DEF CpuTypeOK, Quietly
  <1> QED BY <1>8, <1>9, <1>10, <1>11, CpuAfter

LEMMA StoreInv ==
    ASSUME CpuInv, NEW i \in Instrs, Store(i)
    PROVE CpuInv'
  <1>0. CpuTypeOK /\ PInv
    BY DEF CpuInv
  <1> DEFINE addr == W(regs[i.rs1] + i.imm)
             v2 == regs[i.rs2]
  <1>1. Fetch(i) /\ Advance /\ Quietly /\ UNCHANGED predictorVars /\ WriteReg(0, 0)
    BY DEF Store
  <1>2. mem' = CASE i.f3 = 0 -> memory_wr_b(Text, addr, v2)
                 [] i.f3 = 1 -> memory_wr_h(Text, addr, v2)
                 [] i.f3 = 2 -> memory_wr_w(Text, addr, v2)
                 [] OTHER -> Text
    BY DEF Store
  <1>3. addr \in Words /\ v2 \in Words /\ v2 \in Int
    BY <1>0, InstrType, Wrapped, IntWords DEF CpuTypeOK
  <1> HIDE DEF addr, v2
  <1>4. mem' \in Memories
    <2>1. Text \in Memories
      BY <1>0, TextType
    <2>2. /\ memory_wr_b(Text, addr, v2) \in Memories /\ memory_wr_h(Text, addr, v2) \in Memories
          /\ memory_wr_w(Text, addr, v2) \in Memories
      BY <1>3, <2>1, WriteByteType, WriteHalfType, PutType DEF memory_wr_w
    <2> QED BY <1>2, <2>1, <2>2
  <1>5. regs' \in [REGS -> Words] /\ regs'[0] = 0
    BY <1>0, <1>1, InstrType, FlagWords, RegWritten
  <1>6. pc' \in Words /\ insns' \in 0..MaxInsns /\ PInv'
    BY <1>0, <1>1, Advanced, Fetched, PredictorsKept
  <1>7. status' \in {"running", "exited", "unaligned", "trapped"}
    BY <1>0, <1>1 DEF CpuTypeOK, Quietly
  <1> QED BY <1>4, <1>5, <1>6, <1>7, CpuAfter

LEMMA AluInv ==
    ASSUME CpuInv, NEW i \in Instrs, AluImm(i) \/ Alu(i)
    PROVE CpuInv'
  <1>0. CpuTypeOK /\ PInv
    BY DEF CpuInv
  <1>1. Fetch(i) /\ Advance /\ mem' = Text /\ Quietly /\ UNCHANGED predictorVars
    BY DEF AluImm, Alu
  <1>2. i.f3 \in 0..7 /\ i.rd \in REGS /\ i.imm \in Words /\ regs[i.rs1] \in Words /\ regs[i.rs2] \in Words
    BY <1>0, InstrType DEF CpuTypeOK
  <1>3. regs' \in [REGS -> Words] /\ regs'[0] = 0
    <2>1. CASE AluImm(i)
      <3>1. i_type(i.f3, i.f7, regs[i.rs1], i.imm) \in Words
        BY <1>2, ITypes
      <3> QED BY <1>0, <1>2, <2>1, <3>1, RegWritten DEF AluImm
    <2>2. CASE Alu(i)
      <3>1. i.f7 = 1 /\ i.f3 >= 4 => regs[i.rs2] # 0
        BY <2>2 DEF Alu, Traps
      <3>2. r_type(i.f3, i.f7, regs[i.rs1], regs[i.rs2]) \in Words
        BY <1>2, <3>1, RType
      <3> QED BY <1>0, <1>2, <2>2, <3>2, RegWritten DEF Alu
    <2> QED BY <2>1, <2>2
  <1>4. pc' \in Words /\ mem' \in Memories /\ insns' \in 0..MaxInsns /\ PInv'
    BY <1>0, <1>1, Advanced, TextType, Fetched, PredictorsKept
  <1>5. status' \in {"running", "exited", "unaligned", "trapped"}
    BY <1>0, <1>1 DEF CpuTypeOK, Quietly
  <1> QED BY <1>3, <1>4, <1>5, CpuAfter

\* The ways to stop
LEMMA StopsInv ==
    ASSUME CpuInv, NEW i \in Instrs, UnalignedAccess(i) \/ Trap(i) \/ EcallExit(i)
    PROVE CpuInv'
  <1>0. CpuTypeOK /\ PInv
    BY DEF CpuInv
  <1>1. Fetch(i) /\ UNCHANGED <<pc, regs, predictorVars>>
    BY DEF UnalignedAccess, Trap, EcallExit
  <1>2. status' \in {"running", "exited", "unaligned", "trapped"}
    BY DEF UnalignedAccess, Trap, EcallExit
  <1>3. mem' \in Memories
    <2>1. Text \in Memories
      BY <1>0, TextType
    <2>2. W(regs[i.rs1] + i.imm) \in Words
      BY <1>0, InstrType, Wrapped DEF CpuTypeOK
    <2>3. Touched(Text, W(regs[i.rs1] + i.imm)) \in Memories
      BY <2>1, <2>2, TouchedType
    <2>4. mem' = Text \/ mem' = Touched(Text, W(regs[i.rs1] + i.imm))
      BY DEF UnalignedAccess, Trap, EcallExit
    <2> QED BY <2>1, <2>3, <2>4
  <1>4. insns' \in 0..MaxInsns /\ PInv'
    BY <1>0, <1>1, Fetched, PredictorsKept
  <1>5. pc' \in Words /\ regs' \in [REGS -> Words] /\ regs'[0] = 0
    BY <1>0, <1>1 DEF CpuTypeOK
  <1> QED BY <1>2, <1>3, <1>4, <1>5, CpuAfter

LEMMA EcallInv ==
    ASSUME CpuInv, NEW i \in Instrs, Ecall(i) \/ Unknown(i)
    PROVE CpuInv'
  <1>0. CpuTypeOK /\ PInv
    BY DEF CpuInv
  <1>1. Fetch(i) /\ Advance /\ mem' = Text /\ UNCHANGED <<status, predictorVars>>
    BY DEF Ecall, Unknown, Quietly
  <1>2. regs' \in [REGS -> Words] /\ regs'[0] = 0
    <2>1. WriteReg(0, 0) \/ \E c \in 0..BYTE - 1 \cup {WORD - 1} : WriteReg(A0, c)
      BY DEF Ecall, Unknown
    <2>2. CASE WriteReg(0, 0)
      BY <1>0, <2>2, InstrType, FlagWords, RegWritten
    <2>3. ASSUME NEW c \in 0..BYTE - 1 \cup {WORD - 1}, WriteReg(A0, c) PROVE regs' \in [REGS -> Words] /\ regs'[0] = 0
      <3>1. c \in Words
        <4>1. BYTE \in Nat /\ HALF \in Nat /\ WORD \in Nat \ {0} /\ BYTE <= HALF /\ HALF <= WORD
          BY Widths
        <4> DEFINE m == WORD
        <4>2. c \in 0..BYTE - 1 \cup {m - 1} /\ m \in Nat \ {0} /\ BYTE <= m
          BY <4>1
        <4> HIDE DEF m
        <4>3. c \in Nat /\ c < m
          BY <4>1, <4>2
        <4> QED BY <4>3, InWords DEF m
      <3>2. A0 \in REGS
        BY CpuAssumption
      <3> QED BY <1>0, <2>3, <3>1, <3>2, RegWritten
    <2> QED BY <2>1, <2>2, <2>3
  <1>3. pc' \in Words /\ mem' \in Memories /\ insns' \in 0..MaxInsns /\ PInv'
    BY <1>0, <1>1, Advanced, TextType, Fetched, PredictorsKept
  <1>4. status' \in {"running", "exited", "unaligned", "trapped"}
    BY <1>0, <1>1 DEF CpuTypeOK
  <1> QED BY <1>2, <1>3, <1>4, CpuAfter

LEMMA FetchUnalignedInv ==
    ASSUME CpuInv, FetchUnaligned
    PROVE CpuInv'
  <1>0. CpuTypeOK /\ PInv
    BY DEF CpuInv
  <1>1. mem' \in Memories /\ PInv'
    BY <1>0, TextType, PredictorsKept DEF FetchUnaligned
  <1>2. /\ pc' \in Words /\ regs' \in [REGS -> Words] /\ regs'[0] = 0 /\ insns' \in 0..MaxInsns
        /\ status' \in {"running", "exited", "unaligned", "trapped"}
    BY <1>0 DEF CpuTypeOK, FetchUnaligned
  <1> QED BY <1>1, <1>2, CpuAfter

LEMMA CpuNextInv == CpuInv /\ [Next]_vars => CpuInv'
  <1> SUFFICES ASSUME CpuInv, [Next]_vars PROVE CpuInv'
    OBVIOUS
  <1>1. CASE UNCHANGED vars
    <2>1. PInv'
      BY <1>1, PredictorsKept DEF CpuInv, vars
    <2> QED BY <1>1, <2>1, CpuAfter DEF CpuInv, CpuTypeOK, vars, cpuVars
  <1>2. CASE FetchUnaligned
    BY <1>2, FetchUnalignedInv
  <1>3. ASSUME NEW i \in Instrs,
               \/ Lui(i) \/ Auipc(i) \/ Jal(i) \/ Jalr(i) \/ Branch(i)
               \/ Load(i) \/ Store(i) \/ UnalignedAccess(i)
               \/ AluImm(i) \/ Alu(i) \/ Trap(i)
               \/ Ecall(i) \/ EcallExit(i) \/ Unknown(i)
        PROVE CpuInv'
    BY <1>3, BuildsInv, JumpsInv, BranchInv, LoadInv, StoreInv, AluInv, StopsInv, EcallInv
  <1> QED BY <1>1, <1>2, <1>3 DEF Next

\* CpuTypeOK: whatever the program's arguments, its segments and the text a
\* fetch finds, every instruction leaves words in the registers and in the pages
\* of memory, 0 in x0, and the predictors' counters and history in their widths.
THEOREM MachineTypes == Spec => []CpuTypeOK
  <1>1. CpuInv => CpuTypeOK
    BY DEF CpuInv
  <1> QED BY <1>1, CpuInitInv, CpuNextInv, PTL DEF Spec

\* MispredictsBounded under simulate(): the branches of a program, in the order
\* in which it takes them, cost an entry at most two mispredictions per change
\* of its outcome.
THEOREM MispredictionsOfPrograms == Spec => []MispredictsBounded
  <1>1. CpuInv => MispredictsBounded
    BY DEF CpuInv, PInv, EntriesOK, Entry, MispredictsBounded
  <1> QED BY <1>1, CpuInitInv, CpuNextInv, PTL DEF Spec

-----------------------------------------------------------------------------
(* Memory as an array of bytes *)

\* Dividing twice
LEMMA DivDiv ==
    ASSUME NEW a \in Int, NEW p \in Nat \ {0}, NEW q \in Nat \ {0}
    PROVE (a \div p) \div q = a \div (p * q)
  <1> DEFINE u == a \div p
             r == a % p
             h == u \div q
             x == u % q
             s == p * x + r
             n == p * q
  <1>1. u \in Int /\ r \in Int /\ a = p * u + r /\ 0 <= r /\ r <= p - 1
    BY DivRest
  <1> HIDE DEF u, r
  <1>2. h \in Int /\ x \in Int /\ u = q * h + x /\ 0 <= x /\ x <= q - 1
    BY <1>1, DivRest
  <1> HIDE DEF h, x
  <1>3. n \in Nat \ {0}
    OBVIOUS
  <1>4. s \in Int /\ 0 <= s /\ s < n
    <2>1. p * 0 <= p * x /\ p * x <= p * (q - 1)
      BY <1>2, Monotone
    <2>2. p * (q - 1) = n - p /\ p * 0 = 0 /\ p * x \in Int
      BY <1>2
    <2> QED BY <1>1, <1>3, <2>1, <2>2
  <1>5. a = n * h + s
    BY <1>1, <1>2
  <1> HIDE DEF n, s
  <1>6. (n * h + s) \div n = h
    BY <1>2, <1>3, <1>4, DivUnique
  <1> QED BY <1>5, <1>6, Zenon DEF h, u, n

\* Two addresses share a slot of a page if they share a word.
LEMMA SameWord ==
    ASSUME NEW a \in Words, NEW b \in Words
    PROVE (page_number(a) = page_number(b) /\ index(a) = index(b)) <=> a \div 4 = b \div 4
  <1> DEFINE q == PAGE \div 4
  <1>1. q \in Nat \ {0} /\ PAGE = 4 * q
    BY PageShape
  <1>2. a \in Int /\ b \in Int /\ a \div 4 \in Int /\ b \div 4 \in Int
    BY InWords
  <1>3. index(a) = (a \div 4) % q /\ index(b) = (b \div 4) % q
    BY DEF index
  <1> HIDE DEF q
  <1>4. page_number(a) = (a \div 4) \div q /\ page_number(b) = (b \div 4) \div q
    <2> DEFINE k == 4
    <2>0. k \in Nat \ {0}
      OBVIOUS
    <2> HIDE DEF k
    <2>2. (a \div k) \div q = a \div (k * q) /\ (b \div k) \div q = b \div (k * q)
      BY <1>1, <1>2, <2>0, DivDiv
    <2>1. (a \div 4) \div q = a \div (4 * q) /\ (b \div 4) \div q = b \div (4 * q)
      BY <2>2, Zenon DEF k
    <2> QED BY <1>1, <2>1 DEF page_number
  <1> DEFINE u == a \div 4
             v == b \div 4
  <1>5. u = q * (u \div q) + (u % q) /\ v = q * (v \div q) + (v % q)
    <2> HIDE DEF u, v
    <2> u \in Int /\ v \in Int
      BY <1>2 DEF u, v
    <2> QED BY <1>1, DivRest
  <1> QED BY <1>3, <1>4, <1>5, Zenon DEF u, v

LEMMA SlotPut ==
    ASSUME NEW m \in Memories, NEW a \in Words, NEW b \in Words, NEW w \in Words
    PROVE Slot(Put(m, a, w), b) = IF a \div 4 = b \div 4 THEN w ELSE Slot(m, b)
  <1> DEFINE pa == page_number(a)
             pb == page_number(b)
             ia == index(a)
             ib == index(b)
             g == get_page(m, a)
             n == [g EXCEPT ![ia] = w]
  <1>1. pa \in PageNumbers /\ pb \in PageNumbers /\ ia \in Indices /\ ib \in Indices
    BY Place
  <1>2. g \in [Indices -> Words]
    BY PageType, MemoryShape
  <1>3. m \in [PageNumbers -> {NoPage} \cup Pages]
    BY MemoryShape
  <1>4. Put(m, a, w) = [m EXCEPT ![pa] = n]
    BY DEF Put
  <1>5. Slot(Put(m, a, w), b) = get_page(Put(m, a, w), b)[ib]
    BY DEF Slot
  <1>6. (pa = pb /\ ia = ib) <=> a \div 4 = b \div 4
    BY SameWord
  <1>7. Slot(m, b) = get_page(m, b)[ib]
    BY DEF Slot
  <1> HIDE DEF ia, ib
  <1>8. CASE pa = pb
    <2>1. n \in [Indices -> Words]
      BY <1>1, <1>2
    <2>2. n # NoPage
      BY <2>1, MemoryShape, MemoryAssumption
    <2>3. Put(m, a, w)[pb] = n
      BY <1>1, <1>3, <1>4, <1>8
    <2>4. get_page(Put(m, a, w), b) = n
      BY <2>2, <2>3 DEF get_page
    <2>5. get_page(m, b) = g
      BY <1>8 DEF get_page
    <2>6. n[ib] = IF ia = ib THEN w ELSE g[ib]
      BY <1>1, <1>2
    <2> QED BY <1>5, <1>6, <1>7, <1>8, <2>4, <2>5, <2>6
  <1>9. CASE pa # pb
    <2>1. Put(m, a, w)[pb] = m[pb]
      BY <1>1, <1>3, <1>4, <1>9
    <2>2. get_page(Put(m, a, w), b) = get_page(m, b)
      BY <2>1 DEF get_page
    <2> QED BY <1>5, <1>6, <1>7, <1>9, <2>2
  <1> QED BY <1>8, <1>9

\* Touching a page changes no word.
LEMMA SlotTouched ==
    ASSUME NEW m \in Memories, NEW a \in Words, NEW b \in Words
    PROVE Slot(Touched(m, a), b) = Slot(m, b)
  <1> DEFINE pa == page_number(a)
             pb == page_number(b)
             g == get_page(m, a)
  <1>1. pa \in PageNumbers /\ pb \in PageNumbers /\ m \in [PageNumbers -> {NoPage} \cup Pages]
    BY Place, MemoryShape
  <1>2. g # NoPage
    BY PageType, MemoryAssumption
  <1>3. Touched(m, a) = [m EXCEPT ![pa] = g]
    BY DEF Touched
  <1>4. get_page(Touched(m, a), b) = get_page(m, b)
    <2>1. CASE pa = pb
      <3>1. Touched(m, a)[pb] = g
        BY <1>1, <1>3, <2>1
      <3>2. get_page(m, b) = g
        BY <2>1 DEF get_page
      <3>3. get_page(Touched(m, a), b) = g
        BY <1>2, <3>1 DEF get_page
      <3> QED BY <3>2, <3>3
    <2>2. CASE pa # pb
      <3>1. Touched(m, a)[pb] = m[pb]
        BY <1>1, <1>3, <2>2
      <3> QED BY <3>1 DEF get_page
    <2> QED BY <2>1, <2>2
  <1> QED BY <1>4 DEF Slot

\* The byte of weight k of a value, and the word of four bytes
ByteOf(v, k) == (v \div Weight(k)) % BYTE
WordOf(d0, d1, d2, d3) == BYTE * (BYTE * (BYTE * d3 + d2) + d1) + d0
HasBytes(v, d0, d1, d2, d3) ==
    /\ v \in Words
    /\ ByteOf(v, 0) = d0 /\ ByteOf(v, 1) = d1 /\ ByteOf(v, 2) = d2 /\ ByteOf(v, 3) = d3

LEMMA FourWeights == Weight(0) = 1 /\ Weight(1) = BYTE /\ Weight(2) = BYTE * BYTE /\ Weight(3) = (BYTE * BYTE) * BYTE
  <1>1. 0 % 4 = 0 /\ 1 % 4 = 1 /\ 2 % 4 = 2 /\ 3 % 4 = 3
    OBVIOUS
  <1> QED BY <1>1 DEF Weight, HALF

LEMMA Bounded ==
    ASSUME NEW p \in Nat \ {0}, NEW n \in Nat, NEW u \in Nat, u <= n - 1, NEW d \in 0..p - 1
    PROVE p * u + d \in Nat /\ p * u + d <= p * n - 1
  <1>1. p * u <= p * (n - 1)
    BY Monotone
  <1>2. p * (n - 1) = p * n - p /\ p * u \in Nat /\ p * n \in Nat
    OBVIOUS
  <1> QED BY <1>1, <1>2

LEMMA WordBytes ==
    ASSUME NEW d0 \in 0..BYTE - 1, NEW d1 \in 0..BYTE - 1, NEW d2 \in 0..BYTE - 1, NEW d3 \in 0..BYTE - 1
    PROVE HasBytes(WordOf(d0, d1, d2, d3), d0, d1, d2, d3)
  <1> DEFINE B == BYTE
             u2 == B * d3 + d2
             u1 == B * u2 + d1
             w == B * u1 + d0
  <1>1. B \in Nat \ {0} /\ d0 \in 0..B - 1 /\ d1 \in 0..B - 1 /\ d2 \in 0..B - 1 /\ d3 \in 0..B - 1
    BY Widths
  <1>2. WordOf(d0, d1, d2, d3) = w
    BY DEF WordOf
  <1>3. WORD = B * (B * (B * B)) /\ HALF = B * B
    <2>1. BYTE \in Nat
      BY Widths
    <2> QED BY <2>1 DEF WORD, HALF
  <1>4. Weight(0) = 1 /\ Weight(1) = B /\ Weight(2) = B * B /\ Weight(3) = (B * B) * B
    BY FourWeights
  <1>5. \A v, k : ByteOf(v, k) = (v \div Weight(k)) % B
    BY DEF ByteOf
  <1> HIDE DEF B
  <1>6. u2 \in Nat /\ u2 <= B * B - 1 /\ u2 \div B = d3 /\ u2 % B = d2
    <2>1. d3 \in Nat /\ d3 <= B - 1
      BY <1>1
    <2>2. u2 \in Nat /\ u2 <= B * B - 1
      BY <1>1, <2>1, Bounded
    <2>3. d3 \in Int /\ d2 \in Int /\ 0 <= d2 /\ d2 < B
      BY <1>1
    <2> QED BY <1>1, <2>2, <2>3, DivUnique
  <1> HIDE DEF u2
  <1>7. u1 \in Nat /\ u1 <= B * (B * B) - 1 /\ u1 \div B = u2 /\ u1 % B = d1
    <2>1. B * B \in Nat
      BY <1>1
    <2>2. u1 \in Nat /\ u1 <= B * (B * B) - 1
      BY <1>1, <1>6, <2>1, Bounded
    <2>3. u2 \in Int /\ d1 \in Int /\ 0 <= d1 /\ d1 < B
      BY <1>1, <1>6
    <2> QED BY <1>1, <2>2, <2>3, DivUnique
  <1> HIDE DEF u1
  <1>8. w \in Nat /\ w <= B * (B * (B * B)) - 1 /\ w \div B = u1 /\ w % B = d0
    <2>1. B * (B * B) \in Nat
      BY <1>1
    <2>2. w \in Nat /\ w <= B * (B * (B * B)) - 1
      BY <1>1, <1>7, <2>1, Bounded
    <2>3. u1 \in Int /\ d0 \in Int /\ 0 <= d0 /\ d0 < B
      BY <1>1, <1>7
    <2> QED BY <1>1, <2>2, <2>3, DivUnique
  <1> HIDE DEF w
  <1>9. w \in Words
    <2>1. w < WORD
      BY <1>1, <1>3, <1>8
    <2> QED BY <1>8, <2>1, InWords
  <1>10. w \div 1 = w
    BY <1>8
  <1>11. w \div (B * B) = u2
    <2>0. w \in Int
      BY <1>8
    <2>1. (w \div B) \div B = w \div (B * B)
      BY <1>1, <2>0, DivDiv
    <2> QED BY <1>7, <1>8, <2>1, Zenon
  <1>12. w \div ((B * B) * B) = d3
    <2>1. w \in Int /\ B * B \in Nat \ {0}
      BY <1>1, <1>8
    <2>2. (w \div (B * B)) \div B = w \div ((B * B) * B)
      BY <1>1, <2>1, DivDiv
    <2> QED BY <1>6, <1>11, <2>2, Zenon
  <1>13. d3 % B = d3
    BY <1>1
  <1>14. ByteOf(w, 0) = d0 /\ ByteOf(w, 1) = d1 /\ ByteOf(w, 2) = d2 /\ ByteOf(w, 3) = d3
    BY <1>4, <1>5, <1>6, <1>7, <1>8, <1>10, <1>11, <1>12, <1>13, Zenon
  <1> QED BY <1>2, <1>9, <1>14, Zenon DEF HasBytes

\* Every word is made of four bytes.
LEMMA WordSplit ==
    ASSUME NEW w \in Words
    PROVE \E d0, d1, d2, d3 \in 0..BYTE - 1 : w = WordOf(d0, d1, d2, d3)
  <1> DEFINE B == BYTE
             u1 == w \div B
             u2 == u1 \div B
             d3 == u2 \div B
  <1>1. B \in Nat \ {0}
    BY Widths
  <1>2. WORD = B * (B * (B * B))
    <2>1. BYTE \in Nat
      BY Widths
    <2> QED BY <2>1 DEF WORD
  <1>3. w \in Nat /\ w < B * (B * (B * B))
    BY <1>2, InWords
  <1> HIDE DEF B
  <1>4. B * B \in Nat /\ B * (B * B) \in Nat
    BY <1>1
  <1>5. u1 \in Nat /\ u1 <= B * (B * B) - 1 /\ w = B * u1 + (w % B) /\ w % B \in 0..B - 1
    <2>1. u1 \in Nat /\ u1 <= B * (B * B) - 1
      BY <1>1, <1>3, <1>4, DivBelow
    <2>2. w = B * u1 + (w % B) /\ w % B \in 0..B - 1
      BY <1>1, <1>3, DivRest
    <2> QED BY <2>1, <2>2
  <1> HIDE DEF u1
  <1>6. u2 \in Nat /\ u2 <= B * B - 1 /\ u1 = B * u2 + (u1 % B) /\ u1 % B \in 0..B - 1
    <2>1. u1 < B * (B * B)
      BY <1>4, <1>5
    <2>2. u2 \in Nat /\ u2 <= B * B - 1
      BY <1>1, <1>4, <1>5, <2>1, DivBelow
    <2>3. u1 = B * u2 + (u1 % B) /\ u1 % B \in 0..B - 1
      BY <1>1, <1>5, DivRest
    <2> QED BY <2>2, <2>3
  <1> HIDE DEF u2
  <1>7. d3 \in 0..B - 1 /\ u2 = B * d3 + (u2 % B) /\ u2 % B \in 0..B - 1
    <2>1. u2 < B * B
      BY <1>4, <1>6
    <2> QED BY <1>1, <1>4, <1>6, <2>1, DivBelow, DivRest
  <1> HIDE DEF d3
  <1>8. w = WordOf(w % B, u1 % B, u2 % B, d3)
    BY <1>5, <1>6, <1>7, Zenon DEF WordOf, B
  <1> QED BY <1>5, <1>6, <1>7, <1>8 DEF B

LEMMA HaveBytes ==
    ASSUME NEW w \in Words
    PROVE \E d0, d1, d2, d3 \in 0..BYTE - 1 : w = WordOf(d0, d1, d2, d3) /\ HasBytes(w, d0, d1, d2, d3)
  <1>1. PICK d0, d1, d2, d3 \in 0..BYTE - 1 : w = WordOf(d0, d1, d2, d3)
    BY WordSplit
  <1>2. HasBytes(WordOf(d0, d1, d2, d3), d0, d1, d2, d3)
    BY WordBytes
  <1> QED BY <1>1, <1>2

\* A byte of a word is replaced.
LEMMA ByteIn ==
    ASSUME NEW w \in Words, NEW k \in 0..3, NEW y \in 0..BYTE - 1
    PROVE /\ (w - (ByteOf(w, k) * Weight(k))) + (y * Weight(k)) \in Words
          /\ \A j \in 0..3 : ByteOf((w - (ByteOf(w, k) * Weight(k))) + (y * Weight(k)), j)
                             = IF j = k THEN y ELSE ByteOf(w, j)
  <1> DEFINE v == (w - (ByteOf(w, k) * Weight(k))) + (y * Weight(k))
  <1>1. PICK d0, d1, d2, d3 \in 0..BYTE - 1 : w = WordOf(d0, d1, d2, d3) /\ HasBytes(w, d0, d1, d2, d3)
    BY HaveBytes
  <1>2. BYTE \in Int /\ d0 \in Int /\ d1 \in Int /\ d2 \in Int /\ d3 \in Int /\ y \in Int
    BY Widths, <1>1
  <1>3. w = BYTE * (BYTE * (BYTE * d3 + d2) + d1) + d0
    BY <1>1 DEF WordOf
  <1>b. ByteOf(w, 0) = d0 /\ ByteOf(w, 1) = d1 /\ ByteOf(w, 2) = d2 /\ ByteOf(w, 3) = d3
    BY <1>1 DEF HasBytes
  <1>4. CASE k = 0
    <2>1. v = WordOf(y, d1, d2, d3)
      <3>1. v = (w - (d0 * 1)) + (y * 1)
        BY <1>4, <1>b, FourWeights, Zenon
      <3> HIDE DEF v
      <3> QED BY <1>2, <1>3, <3>1 DEF WordOf
    <2>2. HasBytes(v, y, d1, d2, d3)
      BY <1>1, <2>1, WordBytes
    <2> HIDE DEF v
    <2>3. v \in Words /\ \A j \in 0..3 : ByteOf(v, j) = IF j = k THEN y ELSE ByteOf(w, j)
      BY <1>4, <1>b, <2>2 DEF HasBytes
    <2> QED BY <2>3 DEF v
  <1>5. CASE k = 1
    <2>1. v = WordOf(d0, y, d2, d3)
      <3>1. v = (w - (d1 * BYTE)) + (y * BYTE)
        BY <1>5, <1>b, FourWeights, Zenon
      <3> HIDE DEF v
      <3> QED BY <1>2, <1>3, <3>1 DEF WordOf
    <2>2. HasBytes(v, d0, y, d2, d3)
      BY <1>1, <2>1, WordBytes
    <2> HIDE DEF v
    <2>3. v \in Words /\ \A j \in 0..3 : ByteOf(v, j) = IF j = k THEN y ELSE ByteOf(w, j)
      BY <1>5, <1>b, <2>2 DEF HasBytes
    <2> QED BY <2>3 DEF v
  <1>6. CASE k = 2
    <2>1. v = WordOf(d0, d1, y, d3)
      <3>1. v = (w - (d2 * (BYTE * BYTE))) + (y * (BYTE * BYTE))
        BY <1>6, <1>b, FourWeights, Zenon
      <3> HIDE DEF v
      <3> QED BY <1>2, <1>3, <3>1 DEF WordOf
    <2>2. HasBytes(v, d0, d1, y, d3)
      BY <1>1, <2>1, WordBytes
    <2> HIDE DEF v
    <2>3. v \in Words /\ \A j \in 0..3 : ByteOf(v, j) = IF j = k THEN y ELSE ByteOf(w, j)
      BY <1>6, <1>b, <2>2 DEF HasBytes
    <2> QED BY <2>3 DEF v
  <1>7. CASE k = 3
    <2>1. v = WordOf(d0, d1, d2, y)
      <3>1. v = (w - (d3 * ((BYTE * BYTE) * BYTE))) + (y * ((BYTE * BYTE) * BYTE))
        BY <1>7, <1>b, FourWeights, Zenon
      <3> HIDE DEF v
      <3> QED BY <1>2, <1>3, <3>1 DEF WordOf
    <2>2. HasBytes(v, d0, d1, d2, y)
      BY <1>1, <2>1, WordBytes
    <2> HIDE DEF v
    <2>3. v \in Words /\ \A j \in 0..3 : ByteOf(v, j) = IF j = k THEN y ELSE ByteOf(w, j)
      BY <1>7, <1>b, <2>2 DEF HasBytes
    <2> QED BY <2>3 DEF v
  <1> QED BY <1>4, <1>5, <1>6, <1>7

\* The halves of a word
LEMMA Halves ==
    ASSUME NEW w \in Words
    PROVE \E d0, d1, d2, d3 \in 0..BYTE - 1 :
            /\ HasBytes(w, d0, d1, d2, d3)
            /\ w % HALF = BYTE * d1 + d0 /\ w \div HALF = BYTE * d3 + d2
            /\ (w \div HALF) % HALF = BYTE * d3 + d2
            /\ w = HALF * (BYTE * d3 + d2) + (BYTE * d1 + d0)
  <1>1. PICK d0, d1, d2, d3 \in 0..BYTE - 1 : w = WordOf(d0, d1, d2, d3) /\ HasBytes(w, d0, d1, d2, d3)
    BY HaveBytes
  <1> DEFINE r == BYTE * d1 + d0
             h == BYTE * d3 + d2
  <1>2. BYTE \in Nat \ {0} /\ HALF \in Nat \ {0} /\ HALF = BYTE * BYTE
    BY Widths
  <1>3. r \in Nat /\ r <= HALF - 1 /\ h \in Nat /\ h <= HALF - 1
    <2>1. d1 \in Nat /\ d1 <= BYTE - 1 /\ d3 \in Nat /\ d3 <= BYTE - 1
      BY <1>2
    <2>2. r \in Nat /\ r <= BYTE * BYTE - 1
      BY <1>2, <2>1, Bounded
    <2>3. h \in Nat /\ h <= BYTE * BYTE - 1
      BY <1>2, <2>1, Bounded
    <2> HIDE DEF r, h
    <2> QED BY <1>2, <2>2, <2>3
  <1>4. w = HALF * h + r
    <2>1. BYTE \in Int /\ d0 \in Int /\ d1 \in Int /\ d2 \in Int /\ d3 \in Int
      BY <1>2
    <2>2. w = BYTE * (BYTE * (BYTE * d3 + d2) + d1) + d0
      BY <1>1 DEF WordOf
    <2>3. BYTE * (BYTE * h + d1) + d0 = (BYTE * BYTE) * h + (BYTE * d1 + d0)
      <3> HIDE DEF h
      <3> QED BY <1>3, <2>1
    <2> QED BY <1>2, <2>2, <2>3, Zenon
  <1> HIDE DEF r, h
  <1>5. (HALF * h + r) \div HALF = h /\ (HALF * h + r) % HALF = r
    <2>1. h \in Int /\ r \in Int /\ 0 <= r /\ r < HALF
      BY <1>2, <1>3
    <2> QED BY <1>2, <2>1, DivUnique
  <1>6. h % HALF = h
    BY <1>2, <1>3
  <1>7. w % HALF = r /\ w \div HALF = h /\ (w \div HALF) % HALF = h
    BY <1>4, <1>5, <1>6, Zenon
  <1> QED BY <1>1, <1>4, <1>7 DEF r, h

\* A half of a word is replaced.
LEMMA HalfIn ==
    ASSUME NEW w \in Words, NEW y \in Words
    PROVE /\ (w - (w % HALF)) + (y % HALF) \in Words
          /\ \A j \in 0..3 : ByteOf((w - (w % HALF)) + (y % HALF), j) = IF j < 2 THEN ByteOf(y, j) ELSE ByteOf(w, j)
          /\ (w % HALF) + ((y % HALF) * HALF) \in Words
          /\ \A j \in 0..3 : ByteOf((w % HALF) + ((y % HALF) * HALF), j) = IF j < 2 THEN ByteOf(w, j) ELSE ByteOf(y, j - 2)
  <1>1. PICK d0, d1, d2, d3 \in 0..BYTE - 1 :
            /\ HasBytes(w, d0, d1, d2, d3)
            /\ w % HALF = BYTE * d1 + d0
            /\ w = HALF * (BYTE * d3 + d2) + (BYTE * d1 + d0)
    BY Halves
  <1>2. PICK y0, y1, y2, y3 \in 0..BYTE - 1 : HasBytes(y, y0, y1, y2, y3) /\ y % HALF = BYTE * y1 + y0
    BY Halves
  <1>3. BYTE \in Int /\ HALF = BYTE * BYTE /\ d0 \in Int /\ d1 \in Int /\ d2 \in Int /\ d3 \in Int /\ y0 \in Int /\ y1 \in Int
    BY Widths, <1>1, <1>2
  <1> DEFINE lo == (w - (w % HALF)) + (y % HALF)
             hi == (w % HALF) + ((y % HALF) * HALF)
  <1>4. lo = WordOf(y0, y1, d2, d3)
    <2>1. lo = (w - (BYTE * d1 + d0)) + (BYTE * y1 + y0)
      BY <1>1, <1>2, Zenon
    <2>2. w = (BYTE * BYTE) * (BYTE * d3 + d2) + (BYTE * d1 + d0)
      BY <1>1, <1>3, Zenon
    <2> HIDE DEF lo
    <2> QED BY <1>3, <2>1, <2>2 DEF WordOf
  <1>5. hi = WordOf(d0, d1, y0, y1)
    <2>1. hi = (BYTE * d1 + d0) + ((BYTE * y1 + y0) * (BYTE * BYTE))
      BY <1>1, <1>2, <1>3, Zenon
    <2> HIDE DEF hi
    <2> QED BY <1>3, <2>1 DEF WordOf
  <1>6. HasBytes(lo, y0, y1, d2, d3) /\ HasBytes(hi, d0, d1, y0, y1)
    BY <1>1, <1>2, <1>4, <1>5, WordBytes
  <1> HIDE DEF lo, hi
  <1>7. lo \in Words /\ \A j \in 0..3 : ByteOf(lo, j) = IF j < 2 THEN ByteOf(y, j) ELSE ByteOf(w, j)
    BY <1>1, <1>2, <1>6 DEF HasBytes
  <1>8. hi \in Words /\ \A j \in 0..3 : ByteOf(hi, j) = IF j < 2 THEN ByteOf(w, j) ELSE ByteOf(y, j - 2)
    <2>1. hi \in Words /\ ByteOf(hi, 0) = ByteOf(w, 0) /\ ByteOf(hi, 1) = ByteOf(w, 1)
          /\ ByteOf(hi, 2) = ByteOf(y, 0) /\ ByteOf(hi, 3) = ByteOf(y, 1)
      BY <1>1, <1>2, <1>6 DEF HasBytes
    <2>2. ASSUME NEW j \in 0..3 PROVE ByteOf(hi, j) = IF j < 2 THEN ByteOf(w, j) ELSE ByteOf(y, j - 2)
      <3>1. j = 0 \/ j = 1 \/ (j = 2 /\ j - 2 = 0) \/ (j = 3 /\ j - 2 = 1)
        OBVIOUS
      <3> QED BY <2>1, <3>1
    <2> QED BY <2>1, <2>2
  <1> QED BY <1>7, <1>8 DEF lo, hi

LEMMA ReadByte ==
    ASSUME NEW m, NEW a \in Words
    PROVE a % 4 \in 0..3 /\ memory_rd_b(m, a) = ByteOf(Slot(m, a), a % 4)
  <1>1. a % 4 \in 0..3 /\ (a % 4) % 4 = a % 4
    BY InWords
  <1>2. Weight(a % 4) = Weight(a)
    BY <1>1 DEF Weight
  <1> QED BY <1>1, <1>2, Zenon DEF memory_rd_b, ByteOf

\* The words of an aligned access
LEMMA Aligned ==
    ASSUME NEW addr \in Words
    PROVE /\ addr % 2 = 0 => addr + 1 \in Words
          /\ addr % 4 = 0 => addr + 1 \in Words /\ addr + 2 \in Words /\ addr + 3 \in Words
  <1> DEFINE m == WORD
             n == (PAGE \div 4) * (WORD \div PAGE)
  <1>1. n \in Nat /\ m = 4 * n
    <2> DEFINE x == PAGE \div 4
               y == WORD \div PAGE
    <2>1. x \in Nat /\ y \in Nat /\ PAGE = 4 * x /\ m = PAGE * y
      BY PageShape
    <2> HIDE DEF x, y, m
    <2>2. x * y \in Nat /\ m = 4 * (x * y)
      BY <2>1
    <2> QED BY <2>2 DEF x, y
  <1>2. addr \in Nat /\ addr < m
    BY InWords
  <1> HIDE DEF n
  <1>3. \A v : v \in Nat /\ v < m => v \in Words
    BY InWords
  <1> HIDE DEF m
  <1>4. ASSUME addr % 2 = 0 PROVE addr + 1 \in Words
    <2>1. addr + 1 \in Nat /\ addr + 1 < m
      BY <1>1, <1>2, <1>4
    <2> QED BY <1>3, <2>1
  <1>5. ASSUME addr % 4 = 0 PROVE addr + 1 \in Words /\ addr + 2 \in Words /\ addr + 3 \in Words
    <2>1. addr + 1 \in Nat /\ addr + 2 \in Nat /\ addr + 3 \in Nat /\ addr + 3 < m
      BY <1>1, <1>2, <1>5
    <2>2. addr + 1 < m /\ addr + 2 < m
      BY <1>1, <1>2, <2>1
    <2> QED BY <1>3, <2>1, <2>2
  <1> QED BY <1>4, <1>5

LEMMA TouchedByte ==
    ASSUME NEW m \in Memories, NEW addr \in Words, NEW a \in Words
    PROVE memory_rd_b(Touched(m, addr), a) = memory_rd_b(m, a)
  BY SlotTouched, Zenon DEF memory_rd_b

\* A byte, a half word and a word in memory replace the bytes at their address.
LEMMA ByteStored ==
    ASSUME NEW m \in Memories, NEW addr \in Words, NEW data \in Words, NEW a \in Words
    PROVE memory_rd_b(memory_wr_b(m, addr, data), a)
          = IF a = addr THEN ByteOf(data, 0) ELSE memory_rd_b(m, a)
  <1> DEFINE w == Slot(m, addr)
             k == addr % 4
             j == a % 4
             y == data % BYTE
             v == (w - (ByteOf(w, k) * Weight(k))) + (y * Weight(k))
             n == memory_wr_b(m, addr, data)
  <1>1. w \in Words /\ k \in 0..3 /\ j \in 0..3
    BY PageType, ReadByte
  <1>2. y \in 0..BYTE - 1 /\ y = ByteOf(data, 0)
    <2>1. data \in Int /\ BYTE \in Nat \ {0} /\ data \div 1 = data
      BY Widths, InWords
    <2>2. ByteOf(data, 0) = data % BYTE
      BY <2>1, FourWeights, Zenon DEF ByteOf
    <2> QED BY <2>1, <2>2
  <1>3. n = Put(m, addr, v)
    <2>1. Weight(k) = Weight(addr)
      <3>1. k % 4 = addr % 4
        BY InWords
      <3> QED BY <3>1 DEF Weight
    <2>2. memory_rd_b(m, addr) = ByteOf(w, k)
      BY ReadByte
    <2> QED BY <2>1, <2>2, Zenon DEF memory_wr_b
  <1>4. memory_rd_b(n, a) = ByteOf(Slot(n, a), j) /\ memory_rd_b(m, a) = ByteOf(Slot(m, a), j)
    BY ReadByte
  <1>5. a \div 4 = addr \div 4 => (a = addr <=> j = k)
    BY InWords
  <1>6. a = addr => addr \div 4 = a \div 4
    OBVIOUS
  <1>s. addr \div 4 = a \div 4 => Slot(m, a) = w
    BY SameWord DEF Slot, get_page
  <1> HIDE DEF n, w, k, j, y
  <1>7. v \in Words /\ \A i \in 0..3 : ByteOf(v, i) = IF i = k THEN y ELSE ByteOf(w, i)
    <2>1. w \in Words /\ k \in 0..3 /\ y \in 0..BYTE - 1
      BY <1>1, <1>2
    <2> QED BY <2>1, ByteIn, SMTT(30)
  <1> HIDE DEF v
  <1>8. Slot(n, a) = IF addr \div 4 = a \div 4 THEN v ELSE Slot(m, a)
    BY <1>3, <1>7, SlotPut
  <1>9. CASE addr \div 4 = a \div 4
    BY <1>1, <1>2, <1>4, <1>5, <1>7, <1>8, <1>9, <1>s DEF n
  <1>10. CASE addr \div 4 # a \div 4
    BY <1>4, <1>6, <1>8, <1>10 DEF n
  <1> QED BY <1>9, <1>10

LEMMA HalfStored ==
    ASSUME NEW m \in Memories, NEW addr \in Words, NEW data \in Words, NEW a \in Words, addr % 2 = 0
    PROVE memory_rd_b(memory_wr_h(m, addr, data), a)
          = IF a \in addr..addr + 1 THEN ByteOf(data, a - addr) ELSE memory_rd_b(m, a)
  <1> DEFINE w == Slot(m, addr)
             j == a % 4
             lo == (w - (w % HALF)) + (data % HALF)
             hi == (w % HALF) + ((data % HALF) * HALF)
             v == IF addr % 4 < 2 THEN lo ELSE hi
             n == memory_wr_h(m, addr, data)
  <1>1. w \in Words /\ j \in 0..3
    BY PageType, ReadByte
  <1>3. n = Put(m, addr, v)
    BY Zenon DEF memory_wr_h
  <1>4. memory_rd_b(n, a) = ByteOf(Slot(n, a), j) /\ memory_rd_b(m, a) = ByteOf(Slot(m, a), j)
    BY ReadByte
  <1>i. a \in Nat /\ addr \in Nat
    BY InWords
  <1>5. a \div 4 = addr \div 4 /\ addr % 4 < 2 => /\ a \in addr..addr + 1 <=> j < 2
                                                  /\ j < 2 => a - addr = j
    BY <1>i
  <1>6. a \div 4 = addr \div 4 /\ ~(addr % 4 < 2) => /\ a \in addr..addr + 1 <=> ~(j < 2)
                                                     /\ ~(j < 2) => a - addr = j - 2
    BY <1>i
  <1>7. a \in addr..addr + 1 => a \div 4 = addr \div 4
    BY <1>i
  <1>s. addr \div 4 = a \div 4 => Slot(m, a) = w
    BY SameWord DEF Slot, get_page
  <1> HIDE DEF n, w, j
  <1>8. lo \in Words /\ hi \in Words
        /\ (\A i \in 0..3 : ByteOf(lo, i) = IF i < 2 THEN ByteOf(data, i) ELSE ByteOf(w, i))
        /\ (\A i \in 0..3 : ByteOf(hi, i) = IF i < 2 THEN ByteOf(w, i) ELSE ByteOf(data, i - 2))
    BY <1>1, HalfIn
  <1> HIDE DEF lo, hi
  <1>9. v \in Words
    BY <1>8
  <1>10. Slot(n, a) = IF addr \div 4 = a \div 4 THEN v ELSE Slot(m, a)
    <2> HIDE DEF v
    <2> QED BY <1>3, <1>9, SlotPut
  <1>11. CASE addr \div 4 = a \div 4 /\ addr % 4 < 2
    BY <1>1, <1>4, <1>5, <1>8, <1>10, <1>11, <1>s DEF n
  <1>12. CASE addr \div 4 = a \div 4 /\ ~(addr % 4 < 2)
    BY <1>1, <1>4, <1>6, <1>8, <1>10, <1>12, <1>s DEF n
  <1>13. CASE addr \div 4 # a \div 4
    BY <1>4, <1>7, <1>10, <1>13 DEF n
  <1> QED BY <1>11, <1>12, <1>13

LEMMA WordStored ==
    ASSUME NEW m \in Memories, NEW addr \in Words, NEW data \in Words, NEW a \in Words, addr % 4 = 0
    PROVE memory_rd_b(memory_wr_w(m, addr, data), a)
          = IF a \in addr..addr + 3 THEN ByteOf(data, a - addr) ELSE memory_rd_b(m, a)
  <1> DEFINE j == a % 4
             n == memory_wr_w(m, addr, data)
  <1>1. n = Put(m, addr, data)
    BY DEF memory_wr_w
  <1>2. memory_rd_b(n, a) = ByteOf(Slot(n, a), j) /\ memory_rd_b(m, a) = ByteOf(Slot(m, a), j)
    BY ReadByte
  <1>3. Slot(n, a) = IF addr \div 4 = a \div 4 THEN data ELSE Slot(m, a)
    BY <1>1, SlotPut
  <1>4. a \in Nat /\ addr \in Nat
    BY InWords
  <1>5. a \in addr..addr + 3 <=> addr \div 4 = a \div 4
    BY <1>4
  <1>6. addr \div 4 = a \div 4 => a - addr = j
    BY <1>4
  <1> HIDE DEF n, j
  <1> QED BY <1>2, <1>3, <1>5, <1>6 DEF n

\* An aligned half word or word read from memory is made of the bytes there.
LEMMA HalfRead ==
    ASSUME NEW m \in Memories, NEW addr \in Words, addr % 2 = 0
    PROVE memory_rd_h(m, addr) = BYTE * memory_rd_b(m, addr + 1) + memory_rd_b(m, addr)
  <1> DEFINE w == Slot(m, addr)
  <1>1. addr + 1 \in Words /\ w \in Words /\ addr \in Nat
    BY Aligned, PageType, InWords
  <1>2. addr \div 4 = (addr + 1) \div 4
    BY <1>1
  <1>3. Slot(m, addr + 1) = w
    BY <1>1, <1>2, SameWord DEF Slot, get_page
  <1>4. memory_rd_b(m, addr) = ByteOf(w, addr % 4) /\ memory_rd_b(m, addr + 1) = ByteOf(w, (addr + 1) % 4)
    BY <1>1, <1>3, ReadByte
  <1>6. memory_rd_h(m, addr) = IF addr % 4 < 2 THEN w % HALF ELSE (w \div HALF) % HALF
    BY DEF memory_rd_h
  <1> HIDE DEF w
  <1>5. PICK d0, d1, d2, d3 \in 0..BYTE - 1 :
            /\ HasBytes(w, d0, d1, d2, d3)
            /\ w % HALF = BYTE * d1 + d0 /\ (w \div HALF) % HALF = BYTE * d3 + d2
    BY <1>1, Halves
  <1>7. \/ addr % 4 = 0 /\ (addr + 1) % 4 = 1 /\ addr % 4 < 2
        \/ addr % 4 = 2 /\ (addr + 1) % 4 = 3 /\ ~(addr % 4 < 2)
    BY <1>1
  <1> QED BY <1>4, <1>5, <1>6, <1>7, Zenon DEF HasBytes

LEMMA WordRead ==
    ASSUME NEW m \in Memories, NEW addr \in Words, addr % 4 = 0
    PROVE memory_rd_w(m, addr)
          = WordOf(memory_rd_b(m, addr), memory_rd_b(m, addr + 1), memory_rd_b(m, addr + 2), memory_rd_b(m, addr + 3))
  <1> DEFINE w == Slot(m, addr)
  <1>1. addr + 1 \in Words /\ addr + 2 \in Words /\ addr + 3 \in Words /\ w \in Words /\ addr \in Nat
    BY Aligned, PageType, InWords
  <1>2. /\ addr \div 4 = (addr + 1) \div 4 /\ addr \div 4 = (addr + 2) \div 4 /\ addr \div 4 = (addr + 3) \div 4
        /\ (addr + 1) % 4 = 1 /\ (addr + 2) % 4 = 2 /\ (addr + 3) % 4 = 3
    BY <1>1
  <1>3. Slot(m, addr + 1) = w /\ Slot(m, addr + 2) = w /\ Slot(m, addr + 3) = w
    BY <1>1, <1>2, SameWord DEF Slot, get_page
  <1>4. /\ memory_rd_b(m, addr) = ByteOf(w, 0) /\ memory_rd_b(m, addr + 1) = ByteOf(w, 1)
        /\ memory_rd_b(m, addr + 2) = ByteOf(w, 2) /\ memory_rd_b(m, addr + 3) = ByteOf(w, 3)
    BY <1>1, <1>2, <1>3, ReadByte
  <1>5. PICK d0, d1, d2, d3 \in 0..BYTE - 1 : w = WordOf(d0, d1, d2, d3) /\ HasBytes(w, d0, d1, d2, d3)
    BY <1>1, HaveBytes
  <1>6. memory_rd_w(m, addr) = w
    BY DEF memory_rd_w
  <1> HIDE DEF w
  <1> QED BY <1>4, <1>5, <1>6, Zenon DEF HasBytes

\* The address of a load or store and the bytes that it covers
AddressOf(i) == W(regs[i.rs1] + i.imm)
StoreSize(f3) == CASE f3 = 0 -> 1 [] f3 = 1 -> 2 [] f3 = 2 -> 4 [] OTHER -> 0
Covers(i, a) == i.op = "STORE" /\ a \in AddressOf(i)..AddressOf(i) + StoreSize(i.f3) - 1

\* A store that is carried out sets the bytes of its operand at its address, in
\* this order; every other byte, and every byte in any other turn, stays.
BytesStored ==
    \A a \in Words :
      memory_rd_b(mem', a) =
        IF status' = "running" /\ Covers(ir', a) THEN ByteOf(regs[ir'.rs2], a - AddressOf(ir'))
        ELSE memory_rd_b(mem, a)

\* A load that is carried out finds the bytes at its address.
ByteFrom(i, k) == memory_rd_b(mem, AddressOf(i) + k)
HalfFrom(i) == BYTE * ByteFrom(i, 1) + ByteFrom(i, 0)
BytesLoaded ==
    status' = "running" /\ ir'.op = "LOAD" /\ ir'.rd # 0 =>
      /\ ir'.f3 = 4 => regs'[ir'.rd] = ByteFrom(ir', 0)
      /\ ir'.f3 = 5 => regs'[ir'.rd] = HalfFrom(ir')
      /\ ir'.f3 = 2 => regs'[ir'.rd] = WordOf(ByteFrom(ir', 0), ByteFrom(ir', 1), ByteFrom(ir', 2), ByteFrom(ir', 3))
      /\ ir'.f3 = 0 => regs'[ir'.rd] = IF ByteFrom(ir', 0) >= BYTE \div 2 THEN W(ByteFrom(ir', 0) - BYTE)
                                       ELSE ByteFrom(ir', 0)
      /\ ir'.f3 = 1 => regs'[ir'.rd] = IF HalfFrom(ir') >= HALF \div 2 THEN W(HalfFrom(ir') - HALF)
                                       ELSE HalfFrom(ir')

LEMMA AddressType ==
    ASSUME CpuTypeOK, NEW i \in Instrs
    PROVE AddressOf(i) \in Words
  BY InstrType, Wrapped DEF CpuTypeOK, AddressOf

LEMMA TextBytes ==
    ASSUME CpuTypeOK, NEW a \in Words
    PROVE memory_rd_b(Text, a) = memory_rd_b(mem, a)
  BY TouchedByte DEF CpuTypeOK, Text

LEMMA StoreBytes ==
    ASSUME CpuTypeOK, NEW i \in Instrs, Store(i)
    PROVE BytesStored
  <1> DEFINE addr == AddressOf(i)
             v2 == regs[i.rs2]
  <1>1. addr \in Words /\ Text \in Memories /\ v2 \in Words /\ i.f3 \in 0..7
    BY AddressType, TextType, InstrType DEF CpuTypeOK
  <1>2. ir' = i /\ status' = "running" /\ i.op = "STORE" /\ ~Unaligned(i.f3, addr)
    BY DEF Store, Fetch, Quietly, AddressOf
  <1>3. mem' = CASE i.f3 = 0 -> memory_wr_b(Text, addr, v2)
                [] i.f3 = 1 -> memory_wr_h(Text, addr, v2)
                [] i.f3 = 2 -> memory_wr_w(Text, addr, v2)
                [] OTHER -> Text
    BY DEF Store, AddressOf
  <1> SUFFICES ASSUME NEW a \in Words
               PROVE memory_rd_b(mem', a) = IF a \in addr..addr + StoreSize(i.f3) - 1 THEN ByteOf(v2, a - addr)
                                            ELSE memory_rd_b(mem, a)
    BY <1>2 DEF BytesStored, Covers
  <1>4. addr \in Int /\ a \in Int
    BY <1>1, InWords
  <1>5. memory_rd_b(Text, a) = memory_rd_b(mem, a)
    BY TextBytes
  <1> HIDE DEF addr, v2
  <1>6. CASE i.f3 = 0
    <2>1. mem' = memory_wr_b(Text, addr, v2) /\ StoreSize(i.f3) = 1
      BY <1>3, <1>6 DEF StoreSize
    <2>2. memory_rd_b(mem', a) = IF a = addr THEN ByteOf(v2, 0) ELSE memory_rd_b(Text, a)
      BY <1>1, <2>1, ByteStored
    <2>3. (a \in addr..addr + 1 - 1 <=> a = addr) /\ (a = addr => a - addr = 0)
      BY <1>4
    <2> QED BY <1>5, <2>1, <2>2, <2>3
  <1>7. CASE i.f3 = 1
    <2>1. mem' = memory_wr_h(Text, addr, v2) /\ StoreSize(i.f3) = 2
      BY <1>3, <1>7 DEF StoreSize
    <2>2. addr % 2 = 0
      BY <1>2, <1>7 DEF Unaligned
    <2>3. memory_rd_b(mem', a) = IF a \in addr..addr + 1 THEN ByteOf(v2, a - addr) ELSE memory_rd_b(Text, a)
      BY <1>1, <2>1, <2>2, HalfStored
    <2>4. addr + 2 - 1 = addr + 1
      BY <1>4
    <2> QED BY <1>5, <2>1, <2>3, <2>4
  <1>8. CASE i.f3 = 2
    <2>1. mem' = memory_wr_w(Text, addr, v2) /\ StoreSize(i.f3) = 4
      BY <1>3, <1>8 DEF StoreSize
    <2>2. addr % 4 = 0
      BY <1>2, <1>8 DEF Unaligned
    <2>3. memory_rd_b(mem', a) = IF a \in addr..addr + 3 THEN ByteOf(v2, a - addr) ELSE memory_rd_b(Text, a)
      BY <1>1, <2>1, <2>2, WordStored
    <2>4. addr + 4 - 1 = addr + 3
      BY <1>4
    <2> QED BY <1>5, <2>1, <2>3, <2>4
  <1>9. CASE i.f3 \notin {0, 1, 2}
    <2>1. mem' = Text /\ StoreSize(i.f3) = 0
      BY <1>3, <1>9 DEF StoreSize
    <2>2. ~(a \in addr..addr + 0 - 1)
      BY <1>4
    <2> QED BY <1>5, <2>1, <2>2
  <1> QED BY <1>6, <1>7, <1>8, <1>9

\* Every other step leaves the bytes as they are.
LEMMA OtherBytes ==
    ASSUME CpuTypeOK,
           mem' = Text \/ (\E addr \in Words : mem' = Touched(Text, addr)),
           status' # "running" \/ ir'.op # "STORE"
    PROVE BytesStored
  <1> SUFFICES ASSUME NEW a \in Words PROVE memory_rd_b(mem', a) = memory_rd_b(mem, a)
    BY DEF BytesStored, Covers
  <1>1. Text \in Memories /\ memory_rd_b(Text, a) = memory_rd_b(mem, a)
    BY TextType, TextBytes
  <1>2. CASE mem' = Text
    BY <1>1, <1>2
  <1>3. ASSUME NEW addr \in Words, mem' = Touched(Text, addr)
        PROVE memory_rd_b(mem', a) = memory_rd_b(mem, a)
    BY <1>1, <1>3, TouchedByte
  <1> QED BY <1>2, <1>3

LEMMA LoadBytes ==
    ASSUME CpuTypeOK, NEW i \in Instrs, Load(i)
    PROVE BytesLoaded
  <1> DEFINE addr == AddressOf(i)
             b == memory_rd_b(mem, addr)
             h == memory_rd_h(mem, addr)
             w == memory_rd_w(mem, addr)
             v == CASE i.f3 = 0 -> (IF b >= BYTE \div 2 THEN W(b - BYTE) ELSE b) [] i.f3 = 4 -> b
                    [] i.f3 = 1 -> (IF h >= HALF \div 2 THEN W(h - HALF) ELSE h) [] i.f3 = 5 -> h
                    [] i.f3 = 2 -> w [] OTHER -> regs[i.rd]
  <1>1. ir' = i /\ ~Unaligned(i.f3, addr)
    BY DEF Load, Fetch, AddressOf
  <1>2. WriteReg(i.rd, v)
    BY DEF Load, AddressOf
  <1>3. addr \in Words /\ mem \in Memories /\ i.rd \in REGS /\ regs \in [REGS -> Words] /\ addr \in Int
    BY AddressType, InstrType, InWords DEF CpuTypeOK
  <1>4. i.rd # 0 => regs'[i.rd] = v
    <2> HIDE DEF v
    <2> QED BY <1>2, <1>3 DEF WriteReg
  <1>5. ByteFrom(i, 0) = b
    <2>1. addr + 0 = addr
      BY <1>3
    <2> QED BY <2>1, Zenon DEF ByteFrom
  <1>6. i.f3 \in {1, 5} => h = HalfFrom(i)
    <2> SUFFICES ASSUME i.f3 \in {1, 5} PROVE h = HalfFrom(i)
      OBVIOUS
    <2>1. addr % 2 = 0
      BY <1>1 DEF Unaligned
    <2>2. h = BYTE * memory_rd_b(mem, addr + 1) + b
      BY <1>3, <2>1, HalfRead
    <2>3. ByteFrom(i, 1) = memory_rd_b(mem, addr + 1)
      BY DEF ByteFrom
    <2> QED BY <1>5, <2>2, <2>3, Zenon DEF HalfFrom
  <1>7. i.f3 = 2 => w = WordOf(ByteFrom(i, 0), ByteFrom(i, 1), ByteFrom(i, 2), ByteFrom(i, 3))
    <2> SUFFICES ASSUME i.f3 = 2 PROVE w = WordOf(ByteFrom(i, 0), ByteFrom(i, 1), ByteFrom(i, 2), ByteFrom(i, 3))
      OBVIOUS
    <2>1. addr % 4 = 0
      BY <1>1 DEF Unaligned
    <2>2. w = WordOf(b, memory_rd_b(mem, addr + 1), memory_rd_b(mem, addr + 2), memory_rd_b(mem, addr + 3))
      BY <1>3, <2>1, WordRead
    <2> QED BY <1>5, <2>2, Zenon DEF ByteFrom
  <1> HIDE DEF b, h, w
  <1>8. /\ i.f3 = 4 => v = b
        /\ i.f3 = 5 => v = h
        /\ i.f3 = 2 => v = w
        /\ i.f3 = 0 => v = IF b >= BYTE \div 2 THEN W(b - BYTE) ELSE b
        /\ i.f3 = 1 => v = IF h >= HALF \div 2 THEN W(h - HALF) ELSE h
    OBVIOUS
  <1> HIDE DEF v
  <1> QED BY <1>1, <1>4, <1>5, <1>6, <1>7, <1>8 DEF BytesLoaded

\* Memory under simulate()
LEMMA BytesNext ==
    ASSUME CpuInv, [Next]_vars
    PROVE [BytesStored /\ BytesLoaded]_vars
  <1>0. CpuTypeOK
    BY DEF CpuInv
  <1>1. CASE UNCHANGED vars
    BY <1>1
  <1>2. CASE FetchUnaligned
    <2>1. mem' = Text /\ status' # "running"
      BY <1>2 DEF FetchUnaligned
    <2> QED BY <1>0, <2>1, OtherBytes DEF BytesLoaded
  <1>3. ASSUME NEW i \in Instrs,
               Lui(i) \/ Auipc(i) \/ Jal(i) \/ Jalr(i) \/ Branch(i) \/ AluImm(i) \/ Alu(i) \/ Trap(i)
               \/ Ecall(i) \/ EcallExit(i) \/ Unknown(i)
        PROVE BytesStored /\ BytesLoaded
    <2>1. ir' = i /\ mem' = Text /\ i.op \notin {"STORE", "LOAD"}
      BY <1>3 DEF Lui, Auipc, Jal, Jalr, Branch, AluImm, Alu, Trap, Ecall, EcallExit, Unknown, Fetch
    <2> QED BY <1>0, <2>1, OtherBytes DEF BytesLoaded
  <1>4. ASSUME NEW i \in Instrs, UnalignedAccess(i) PROVE BytesStored /\ BytesLoaded
    <2>1. status' # "running" /\ (mem' = Text \/ mem' = Touched(Text, AddressOf(i)))
      BY <1>4 DEF UnalignedAccess, AddressOf
    <2>2. AddressOf(i) \in Words
      BY <1>0, AddressType
    <2> QED BY <1>0, <2>1, <2>2, OtherBytes DEF BytesLoaded
  <1>5. ASSUME NEW i \in Instrs, Load(i) PROVE BytesStored /\ BytesLoaded
    <2>1. ir' = i /\ i.op = "LOAD" /\ (mem' = Text \/ mem' = Touched(Text, AddressOf(i)))
      BY <1>5 DEF Load, Fetch, AddressOf
    <2>2. AddressOf(i) \in Words
      BY <1>0, AddressType
    <2>3. BytesStored
      BY <1>0, <2>1, <2>2, OtherBytes
    <2> QED BY <1>0, <1>5, <2>3, LoadBytes
  <1>6. ASSUME NEW i \in Instrs, Store(i) PROVE BytesStored /\ BytesLoaded
    <2>1. ir' = i /\ i.op = "STORE"
      BY <1>6 DEF Store, Fetch
    <2> QED BY <1>0, <1>6, <2>1, StoreBytes DEF BytesLoaded
  <1> QED BY <1>1, <1>2, <1>3, <1>4, <1>5, <1>6 DEF Next

\* Pages of words, allocated on first touch, behave as an array of bytes.
THEOREM MemoryIsBytes == Spec => [][BytesStored /\ BytesLoaded]_vars
  <1> QED BY CpuInitInv, CpuNextInv, BytesNext, PTL DEF Spec

-----------------------------------------------------------------------------
(* A word is determined by its bits *)

LEMMA SamePow == Machine!Pow2 = Pow2
  BY DEF Machine!Pow2, Pow2

LEMMA SameWords == Machine!WORD = WORD /\ Machine!Words = Words
  BY SamePow, CpuAssumption DEF Machine!WORD, Machine!Words, Words

LEMMA SameOnes ==
    ASSUME NEW v
    PROVE Machine!Ones(v) = {i \in 0..XLEN - 1 : BitOf(v, i) = 1}
  BY SamePow, Zenon DEF Machine!Ones, BitOf

LEMMA PowPos ==
    ASSUME NEW i \in 0..XLEN
    PROVE Pow2[i] \in Nat \ {0}
  BY Powers

\* A power of two as a product of two
LEMMA PowSum ==
    ASSUME NEW j \in 0..XLEN, NEW i \in 0..j
    PROVE j - i \in 0..XLEN /\ Pow2[j] = Pow2[i] * Pow2[j - i]
  <1>0. XLEN \in Nat
    BY CpuAssumption
  <1> DEFINE P == {m \in Nat : m <= XLEN => \A l \in 0..m : Pow2[m] = Pow2[l] * Pow2[m - l]}
  <1>1. 0 \in P
    <2>1. Pow2[0] = 1
      BY Powers
    <2>2. ASSUME NEW l \in 0..0 PROVE Pow2[0] = Pow2[l] * Pow2[0 - l]
      <3>1. l = 0
        OBVIOUS
      <3>2. 0 - 0 = 0 /\ 1 = 1 * 1
        OBVIOUS
      <3> QED BY <2>1, <3>1, <3>2, Zenon
    <2> QED BY <2>2
  <1>2. ASSUME NEW m \in Nat, m \in P PROVE m + 1 \in P
    <2> SUFFICES ASSUME m + 1 <= XLEN, NEW l \in 0..m + 1 PROVE Pow2[m + 1] = Pow2[l] * Pow2[(m + 1) - l]
      OBVIOUS
    <2>1. CASE l = m + 1
      <3>1. (m + 1) - l = 0 /\ m + 1 \in 0..XLEN
        BY <1>0, <2>1
      <3>2. Pow2[0] = 1 /\ Pow2[m + 1] \in Nat
        BY <3>1, Powers, PowPos
      <3>3. Pow2[m + 1] = Pow2[m + 1] * 1
        BY <3>2
      <3> QED BY <2>1, <3>1, <3>2, <3>3, Zenon
    <2>2. CASE l <= m
      <3>1. /\ l \in 0..m /\ m <= XLEN /\ m + 1 \in 1..XLEN /\ (m + 1) - 1 = m
            /\ (m + 1) - l \in 1..XLEN /\ ((m + 1) - l) - 1 = m - l /\ m - l \in 0..XLEN /\ l \in 0..XLEN
        BY <1>0, <2>2
      <3>2. Pow2[m] = Pow2[l] * Pow2[m - l]
        BY <1>2, <3>1
      <3>3. Pow2[m + 1] = 2 * Pow2[m] /\ Pow2[(m + 1) - l] = 2 * Pow2[m - l]
        <4>1. \A n \in 1..XLEN : Pow2[n] = 2 * Pow2[n - 1]
          BY Powers
        <4> QED BY <3>1, <4>1
      <3>4. Pow2[l] \in Int /\ Pow2[m - l] \in Int
        BY <3>1, PowPos
      <3>5. \A x, y \in Int : 2 * (x * y) = x * (2 * y)
        OBVIOUS
      <3>6. 2 * (Pow2[l] * Pow2[m - l]) = Pow2[l] * (2 * Pow2[m - l])
        BY <3>4, <3>5
      <3> QED BY <3>2, <3>3, <3>6, Zenon
    <2> QED BY <2>1, <2>2
  <1>3. j \in P
    <2> HIDE DEF P
    <2>1. Nat \subseteq P
      BY <1>1, <1>2, StepInduct
    <2> QED BY <1>0, <2>1
  <1> QED BY <1>0, <1>3

LEMMA PowEven ==
    ASSUME NEW j \in 0..XLEN, NEW i \in 0..j - 1
    PROVE \E t \in Nat \ {0} : Pow2[j] = Pow2[i] * (2 * t)
  <1>1. XLEN \in Nat
    BY CpuAssumption
  <1>2. i \in 0..j /\ j - i \in 1..XLEN /\ (j - i) - 1 \in 0..XLEN
    BY <1>1
  <1>3. Pow2[j] = Pow2[i] * Pow2[j - i]
    BY <1>2, PowSum
  <1>4. Pow2[j - i] = 2 * Pow2[(j - i) - 1] /\ Pow2[(j - i) - 1] \in Nat \ {0}
    BY <1>2, Powers, PowPos
  <1> QED BY <1>3, <1>4

\* Multiples of the divisor
LEMMA DivAdd ==
    ASSUME NEW p \in Nat \ {0}, NEW u \in Int, NEW r \in Int
    PROVE (p * u + r) \div p = u + (r \div p)
  <1> DEFINE q == r \div p
             s == r % p
  <1>1. q \in Int /\ s \in Int /\ r = p * q + s /\ 0 <= s /\ s < p
    BY DivRest
  <1> HIDE DEF q, s
  <1>2. p * u + r = p * (u + q) + s /\ u + q \in Int
    BY <1>1
  <1>3. (p * (u + q) + s) \div p = u + q
    BY <1>1, <1>2, DivUnique
  <1> QED BY <1>2, <1>3, Zenon DEF q

LEMMA Parity ==
    ASSUME NEW e \in Int, NEW v \in Int
    PROVE (2 * e + v) % 2 = v % 2 /\ v % 2 \in {0, 1}
  OBVIOUS

LEMMA BitType ==
    ASSUME NEW z \in Int, NEW i \in 0..XLEN
    PROVE z \div Pow2[i] \in Int /\ BitOf(z, i) \in {0, 1}
  <1>1. z \div Pow2[i] \in Int
    BY PowPos, DivRest
  <1> QED BY <1>1 DEF BitOf

\* An even multiple of 2^i does not show in bit i.
LEMMA BitAdd ==
    ASSUME NEW z \in Int, NEW i \in 0..XLEN, NEW n \in Int, NEW t \in Int, n = Pow2[i] * (2 * t)
    PROVE BitOf(n + z, i) = BitOf(z, i)
  <1> DEFINE p == Pow2[i]
             q == z \div p
  <1>1. p \in Nat \ {0} /\ q \in Int
    BY PowPos, BitType
  <1>2. (p * (2 * t) + z) \div p = 2 * t + q
    <2>1. 2 * t \in Int
      OBVIOUS
    <2> HIDE DEF p
    <2> QED BY <1>1, <2>1, DivAdd
  <1>3. (2 * t + q) % 2 = q % 2
    BY <1>1, Parity
  <1> QED BY <1>2, <1>3, Zenon DEF BitOf

\* The rest modulo 2^(n + 1) adds bit n.
LEMMA ModStep ==
    ASSUME NEW z \in Int, NEW n \in 0..XLEN - 1
    PROVE z % Pow2[n + 1] = Pow2[n] * BitOf(z, n) + (z % Pow2[n])
  <1> DEFINE p == Pow2[n]
             u == z \div p
             r == z % p
             h == u \div 2
             b == u % 2
  <1>0. n \in 0..XLEN /\ n + 1 \in 1..XLEN /\ (n + 1) - 1 = n
    BY CpuAssumption
  <1>1. p \in Nat \ {0} /\ Pow2[n + 1] = 2 * p
    BY <1>0, Powers, PowPos
  <1>2. BitOf(z, n) = b
    BY DEF BitOf
  <1>r. r = z % Pow2[n]
    OBVIOUS
  <1> HIDE DEF p
  <1>3. u \in Int /\ r \in Int /\ z = p * u + r /\ 0 <= r /\ r <= p - 1
    BY <1>1, DivRest
  <1> HIDE DEF u, r
  <1>4. h \in Int /\ b \in 0..1 /\ u = 2 * h + b
    BY <1>3
  <1> HIDE DEF h, b
  <1> DEFINE m == 2 * p
             s == p * b + r
  <1>5. m \in Nat \ {0} /\ z = m * h + s
    <2>1. p * (2 * h + b) = (2 * p) * h + p * b
      BY <1>1, <1>4
    <2> QED BY <1>1, <1>3, <1>4, <2>1
  <1>6. s \in Int /\ 0 <= s /\ s < m
    <2>1. b = 0 \/ b = 1
      BY <1>4
    <2> QED BY <1>1, <1>3, <2>1
  <1> HIDE DEF m, s
  <1>7. (m * h + s) % m = s
    BY <1>4, <1>5, <1>6, DivUnique
  <1>8. z % m = s
    BY <1>5, <1>7, Zenon
  <1> QED BY <1>1, <1>2, <1>8, <1>r, Zenon DEF m, s, p

\* A word is known by its ones.
LEMMA OnesUnique ==
    ASSUME NEW v \in Words, NEW w \in Words, \A i \in 0..XLEN - 1 : BitOf(v, i) = BitOf(w, i)
    PROVE v = w
  <1>0. XLEN \in Nat /\ v \in Int /\ w \in Int
    BY CpuAssumption, IntWords
  <1> DEFINE P == {m \in Nat : m <= XLEN => v % Pow2[m] = w % Pow2[m]}
  <1>1. 0 \in P
    <2>1. Pow2[0] = 1
      BY Powers
    <2>2. v % 1 = 0 /\ w % 1 = 0
      BY <1>0
    <2> QED BY <2>1, <2>2
  <1>2. ASSUME NEW m \in Nat, m \in P PROVE m + 1 \in P
    <2> SUFFICES ASSUME m + 1 <= XLEN PROVE v % Pow2[m + 1] = w % Pow2[m + 1]
      OBVIOUS
    <2>1. m \in 0..XLEN - 1 /\ m <= XLEN
      BY <1>0
    <2>2. v % Pow2[m] = w % Pow2[m]
      BY <1>2, <2>1
    <2>3. v % Pow2[m + 1] = Pow2[m] * BitOf(v, m) + (v % Pow2[m])
      BY <1>0, <2>1, ModStep
    <2>4. w % Pow2[m + 1] = Pow2[m] * BitOf(w, m) + (w % Pow2[m])
      BY <1>0, <2>1, ModStep
    <2>5. BitOf(v, m) = BitOf(w, m)
      BY <2>1
    <2> QED BY <2>2, <2>3, <2>4, <2>5, Zenon
  <1>3. v % Pow2[XLEN] = w % Pow2[XLEN]
    <2> HIDE DEF P
    <2>1. XLEN \in P
      BY <1>0, <1>1, <1>2, StepInduct
    <2> QED BY <1>0, <2>1 DEF P
  <1>4. \A z \in Words : z % WORD = z
    <2> TAKE z \in Words
    <2> DEFINE m == WORD
    <2>1. z \in Nat /\ z < m /\ m \in Nat
      BY InWords, Widths
    <2> HIDE DEF m
    <2>2. z % m = z
      BY <2>1
    <2> QED BY <2>2 DEF m
  <1>5. WORD = Pow2[XLEN]
    BY CpuAssumption
  <1> QED BY <1>3, <1>4, <1>5, Zenon

LEMMA WordWithOnes ==
    ASSUME NEW v \in Words, NEW ones, Machine!Ones(v) = ones
    PROVE Machine!WordWith(ones) = v
  <1> DEFINE c == CHOOSE w \in Words : Machine!Ones(w) = ones
  <1>1. Machine!WordWith(ones) = c
    BY SameWords, Zenon DEF Machine!WordWith
  <1>2. c \in Words /\ Machine!Ones(c) = ones
    OBVIOUS
  <1> HIDE DEF c
  <1>3. ASSUME NEW i \in 0..XLEN - 1 PROVE BitOf(c, i) = BitOf(v, i)
    <2>1. BitOf(c, i) = 1 <=> BitOf(v, i) = 1
      <3>1. i \in Machine!Ones(c) <=> BitOf(c, i) = 1
        BY SameOnes
      <3>2. i \in Machine!Ones(v) <=> BitOf(v, i) = 1
        BY SameOnes
      <3> QED BY <1>2, <3>1, <3>2
    <2>2. i \in 0..XLEN
      BY CpuAssumption
    <2>3. BitOf(c, i) \in {0, 1} /\ BitOf(v, i) \in {0, 1}
      BY <1>2, <2>2, IntWords, BitType
    <2> QED BY <2>1, <2>3
  <1>4. c = v
    BY <1>2, <1>3, OnesUnique
  <1> QED BY <1>1, <1>4

\* The bits of &, | and ^
LEMMA BitsAre ==
    ASSUME NEW ones, NEW v1, NEW v2, NEW i \in 0..XLEN - 1
    PROVE BitOf(ByBits(ones, v1, v2), i) = IF <<BitOf(v1, i), BitOf(v2, i)>> \in ones THEN 1 ELSE 0
  <1> DEFINE c(j) == IF <<BitOf(v1, j), BitOf(v2, j)>> \in ones THEN 1 ELSE 0
  <1>0. XLEN \in Nat
    BY CpuAssumption
  <1>1. PICK low : /\ ByBits(ones, v1, v2) = low[XLEN] /\ low[0] = 0
                   /\ \A j \in 1..XLEN : low[j] = low[j - 1] + BitAt(ones, v1, v2, j)
    BY BitsLoop
  <1>c. \A j : c(j) \in {0, 1}
    OBVIOUS
  <1>2. ASSUME NEW j \in 0..XLEN - 1 PROVE low[j + 1] = Pow2[j] * c(j) + low[j]
    <2>1. j + 1 \in 1..XLEN /\ (j + 1) - 1 = j /\ j \in 0..XLEN
      BY <1>0
    <2>2. low[j + 1] = low[j] + BitAt(ones, v1, v2, j + 1)
      BY <1>1, <2>1
    <2>3. BitAt(ones, v1, v2, j + 1) = IF <<BitOf(v1, j), BitOf(v2, j)>> \in ones THEN Pow2[j] ELSE 0
      BY <2>1, Zenon DEF BitAt
    <2>4. Pow2[j] \in Nat /\ low[j] \in Nat
      <3> DEFINE S == Nat
      <3>1. low[0] \in S
        BY <1>1
      <3>2. \A l \in 1..XLEN : low[l - 1] \in S => low[l] \in S
        <4> TAKE l \in 1..XLEN
        <4> HAVE low[l - 1] \in S
        <4>1. l - 1 \in 0..XLEN
          BY <1>0
        <4>2. BitAt(ones, v1, v2, l) \in Nat
          BY <4>1, PowPos DEF BitAt
        <4> QED BY <1>1, <4>2
      <3>3. \A l \in 0..XLEN : low[l] \in S
        <4> HIDE DEF S
        <4> QED BY <1>0, <3>1, <3>2, LoopKeeps
      <3> QED BY <2>1, <3>3, PowPos
    <2>5. Pow2[j] * c(j) = BitAt(ones, v1, v2, j + 1)
      <3>1. CASE <<BitOf(v1, j), BitOf(v2, j)>> \in ones
        <4>1. c(j) = 1 /\ BitAt(ones, v1, v2, j + 1) = Pow2[j]
          BY <2>3, <3>1
        <4> HIDE DEF c
        <4> QED BY <2>4, <4>1
      <3>2. CASE <<BitOf(v1, j), BitOf(v2, j)>> \notin ones
        <4>1. c(j) = 0 /\ BitAt(ones, v1, v2, j + 1) = 0
          BY <2>3, <3>2
        <4> HIDE DEF c
        <4> QED BY <2>4, <4>1
      <3> QED BY <3>1, <3>2
    <2>6. BitAt(ones, v1, v2, j + 1) \in Nat
      BY <2>3, <2>4
    <2> HIDE DEF c
    <2> QED BY <2>2, <2>4, <2>5, <2>6
  <1> HIDE DEF c
  <1> DEFINE P == {m \in Nat : m <= XLEN => /\ low[m] \in Nat /\ low[m] < Pow2[m]
                                            /\ \A l \in 0..m - 1 : BitOf(low[m], l) = c(l)}
  <1>3. 0 \in P
    BY <1>1, Powers
  <1>4. ASSUME NEW m \in Nat, m \in P PROVE m + 1 \in P
    <2> SUFFICES ASSUME m + 1 <= XLEN
                 PROVE /\ low[m + 1] \in Nat /\ low[m + 1] < Pow2[m + 1]
                       /\ \A l \in 0..m : BitOf(low[m + 1], l) = c(l)
      <3>1. (m + 1) - 1 = m
        OBVIOUS
      <3> QED BY <3>1
    <2>1. m \in 0..XLEN - 1 /\ m \in 0..XLEN /\ m + 1 \in 1..XLEN /\ (m + 1) - 1 = m /\ m <= XLEN
      BY <1>0
    <2> DEFINE p == Pow2[m]
               g == low[m]
               n == low[m + 1]
    <2>2. g \in Nat /\ g < p /\ \A l \in 0..m - 1 : BitOf(g, l) = c(l)
      BY <1>4, <2>1
    <2>3. n = p * c(m) + g /\ Pow2[m + 1] = 2 * p /\ p \in Nat \ {0}
      BY <1>2, <2>1, Powers, PowPos
    <2>4. c(m) = 0 \/ c(m) = 1
      BY <1>c
    <2> HIDE DEF p, g, n
    <2>5. n \in Nat /\ n < 2 * p
      BY <2>2, <2>3, <2>4
    <2>6. BitOf(n, m) = c(m)
      <3>1. (p * c(m) + g) \div p = c(m)
        <4>1. c(m) \in Int /\ g \in Int /\ 0 <= g
          BY <2>2, <2>4
        <4> QED BY <2>2, <2>3, <4>1, DivUnique
      <3>2. c(m) % 2 = c(m)
        BY <2>4
      <3> QED BY <2>3, <3>1, <3>2, Zenon DEF BitOf, p
    <2>7. ASSUME NEW l \in 0..m - 1 PROVE BitOf(n, l) = c(l)
      <3>1. PICK t \in Nat \ {0} : Pow2[m] = Pow2[l] * (2 * t)
        BY <2>1, PowEven
      <3>2. l \in 0..XLEN /\ g \in Int /\ Pow2[l] \in Nat
        <4>1. l \in 0..XLEN
          BY <1>0, <2>1
        <4> QED BY <2>2, <4>1, PowPos
      <3> DEFINE e == t * c(m)
      <3>3. e \in Int /\ p * c(m) \in Int
        BY <2>3, <2>4
      <3>4. p * c(m) = Pow2[l] * (2 * e)
        <4>1. p = Pow2[l] * (2 * t)
          BY <3>1 DEF p
        <4>2. \A x, y, z \in Int : (x * (2 * y)) * z = x * (2 * (y * z))
          OBVIOUS
        <4>3. (Pow2[l] * (2 * t)) * c(m) = Pow2[l] * (2 * (t * c(m)))
          <5>1. Pow2[l] \in Int /\ t \in Int /\ c(m) \in Int
            BY <2>4, <3>2
          <5> QED BY <5>1, <4>2
        <4> QED BY <4>1, <4>3, Zenon
      <3> HIDE DEF e
      <3>5. BitOf(p * c(m) + g, l) = BitOf(g, l)
        BY <3>2, <3>3, <3>4, BitAdd
      <3>6. BitOf(g, l) = c(l)
        BY <2>2
      <3> QED BY <2>3, <3>5, <3>6, Zenon
    <2>8. ASSUME NEW l \in 0..m PROVE BitOf(n, l) = c(l)
      <3>1. l = m \/ l \in 0..m - 1
        OBVIOUS
      <3> QED BY <2>6, <2>7, <3>1
    <2> QED BY <2>3, <2>5, <2>8 DEF n
  <1>5. XLEN \in P
    <2> HIDE DEF P
    <2> QED BY <1>0, <1>3, <1>4, StepInduct
  <1>6. BitOf(low[XLEN], i) = c(i)
    BY <1>0, <1>5
  <1> QED BY <1>1, <1>6, Zenon DEF c

LEMMA BitwiseRight ==
    ASSUME NEW v1 \in Words, NEW v2 \in Words
    PROVE /\ And(v1, v2) = Machine!WordWith(Machine!Ones(v1) \cap Machine!Ones(v2))
          /\ Or(v1, v2) = Machine!WordWith(Machine!Ones(v1) \cup Machine!Ones(v2))
          /\ Xor(v1, v2) = Machine!WordWith((Machine!Ones(v1) \ Machine!Ones(v2)) \cup (Machine!Ones(v2) \ Machine!Ones(v1)))
  <1> DEFINE O(v) == {i \in 0..XLEN - 1 : BitOf(v, i) = 1}
  <1>1. \A v : Machine!Ones(v) = O(v)
    BY SameOnes
  <1>2. ASSUME NEW i \in 0..XLEN - 1
        PROVE /\ BitOf(v1, i) \in {0, 1} /\ BitOf(v2, i) \in {0, 1}
              /\ BitOf(And(v1, v2), i) = IF <<BitOf(v1, i), BitOf(v2, i)>> \in {<<1, 1>>} THEN 1 ELSE 0
              /\ BitOf(Or(v1, v2), i) = IF <<BitOf(v1, i), BitOf(v2, i)>> \in {<<0, 1>>, <<1, 0>>, <<1, 1>>} THEN 1 ELSE 0
              /\ BitOf(Xor(v1, v2), i) = IF <<BitOf(v1, i), BitOf(v2, i)>> \in {<<0, 1>>, <<1, 0>>} THEN 1 ELSE 0
    <2>1. i \in 0..XLEN
      BY CpuAssumption
    <2>2. BitOf(v1, i) \in {0, 1} /\ BitOf(v2, i) \in {0, 1}
      BY <2>1, IntWords, BitType
    <2>3. \A ones : BitOf(ByBits(ones, v1, v2), i) = IF <<BitOf(v1, i), BitOf(v2, i)>> \in ones THEN 1 ELSE 0
      BY BitsAre
    <2>4. BitOf(And(v1, v2), i) = IF <<BitOf(v1, i), BitOf(v2, i)>> \in {<<1, 1>>} THEN 1 ELSE 0
      BY <2>3, Zenon DEF And
    <2>5. BitOf(Or(v1, v2), i) = IF <<BitOf(v1, i), BitOf(v2, i)>> \in {<<0, 1>>, <<1, 0>>, <<1, 1>>} THEN 1 ELSE 0
      BY <2>3, Zenon DEF Or
    <2>6. BitOf(Xor(v1, v2), i) = IF <<BitOf(v1, i), BitOf(v2, i)>> \in {<<0, 1>>, <<1, 0>>} THEN 1 ELSE 0
      BY <2>3, Zenon DEF Xor
    <2> QED BY <2>2, <2>4, <2>5, <2>6
  <1>3. ASSUME NEW i \in 0..XLEN - 1
        PROVE /\ BitOf(And(v1, v2), i) = 1 <=> BitOf(v1, i) = 1 /\ BitOf(v2, i) = 1
              /\ BitOf(Or(v1, v2), i) = 1 <=> BitOf(v1, i) = 1 \/ BitOf(v2, i) = 1
              /\ BitOf(Xor(v1, v2), i) = 1 <=> (BitOf(v1, i) = 1) # (BitOf(v2, i) = 1)
    <2> DEFINE x == BitOf(v1, i)
               y == BitOf(v2, i)
    <2>1. x \in {0, 1} /\ y \in {0, 1}
      BY <1>2
    <2>2. /\ BitOf(And(v1, v2), i) = IF <<x, y>> \in {<<1, 1>>} THEN 1 ELSE 0
          /\ BitOf(Or(v1, v2), i) = IF <<x, y>> \in {<<0, 1>>, <<1, 0>>, <<1, 1>>} THEN 1 ELSE 0
          /\ BitOf(Xor(v1, v2), i) = IF <<x, y>> \in {<<0, 1>>, <<1, 0>>} THEN 1 ELSE 0
      BY <1>2
    <2> HIDE DEF x, y
    <2>3. /\ BitOf(And(v1, v2), i) = 1 <=> x = 1 /\ y = 1
          /\ BitOf(Or(v1, v2), i) = 1 <=> x = 1 \/ y = 1
          /\ BitOf(Xor(v1, v2), i) = 1 <=> (x = 1) # (y = 1)
      BY <2>1, <2>2
    <2> QED BY <2>3 DEF x, y
  <1>4. /\ O(And(v1, v2)) = O(v1) \cap O(v2)
        /\ O(Or(v1, v2)) = O(v1) \cup O(v2)
        /\ O(Xor(v1, v2)) = (O(v1) \ O(v2)) \cup (O(v2) \ O(v1))
    BY <1>3
  <1> HIDE DEF O
  <1>5. And(v1, v2) \in Words /\ Or(v1, v2) \in Words /\ Xor(v1, v2) \in Words
    BY BitwiseTypes
  <1> QED BY <1>1, <1>4, <1>5, WordWithOnes

-----------------------------------------------------------------------------
(* Shifts *)

LEMMA Distance ==
    ASSUME NEW n \in Words
    PROVE n % XLEN \in 0..XLEN - 1 /\ n % XLEN \in 0..XLEN
  <1>1. n \in Int /\ XLEN \in Nat \ {0}
    BY IntWords, CpuAssumption
  <1> QED BY <1>1

LEMMA EvenWord ==
    ASSUME NEW i \in 0..XLEN - 1
    PROVE i \in 0..XLEN /\ \E t \in Int : WORD = Pow2[i] * (2 * t)
  <1>1. XLEN \in Nat /\ XLEN \in 0..XLEN /\ WORD = Pow2[XLEN] /\ i \in 0..XLEN
    BY CpuAssumption
  <1>2. PICK t \in Nat \ {0} : Pow2[XLEN] = Pow2[i] * (2 * t)
    BY <1>1, PowEven
  <1> QED BY <1>1, <1>2

\* Wrapping keeps the bits of a word.
LEMMA BitMod ==
    ASSUME NEW z \in Int, NEW i \in 0..XLEN - 1
    PROVE BitOf(W(z), i) = BitOf(z, i)
  <1> DEFINE m == WORD
             d == z \div m
             r == z % m
  <1>1. m \in Nat \ {0}
    BY Widths
  <1>2. i \in 0..XLEN
    BY EvenWord
  <1>3. PICK t \in Int : m = Pow2[i] * (2 * t)
    BY EvenWord
  <1>4. W(z) = r
    BY DEF W
  <1> HIDE DEF m
  <1>5. d \in Int /\ r \in Int /\ z = m * d + r
    BY <1>1, DivRest
  <1> HIDE DEF d, r
  <1> DEFINE n == m * d
             e == t * d
  <1>6. n \in Int /\ e \in Int
    BY <1>1, <1>5
  <1>7. n = Pow2[i] * (2 * e)
    <2>1. Pow2[i] \in Int
      BY <1>2, PowPos
    <2>2. \A x, y, w \in Int : (x * (2 * y)) * w = x * (2 * (y * w))
      OBVIOUS
    <2>3. (Pow2[i] * (2 * t)) * d = Pow2[i] * (2 * (t * d))
      BY <1>5, <2>1, <2>2
    <2> QED BY <1>3, <2>3, Zenon
  <1>8. z = n + r
    BY <1>5
  <1> HIDE DEF n, e
  <1>9. BitOf(n + r, i) = BitOf(r, i)
    BY <1>2, <1>5, <1>6, <1>7, BitAdd
  <1> QED BY <1>4, <1>8, <1>9, Zenon

LEMMA ShlBits ==
    ASSUME NEW v \in Words, NEW n \in Words, NEW i \in 0..XLEN - 1
    PROVE BitOf(Shl(v, n), i) = IF n % XLEN <= i THEN BitOf(v, i - (n % XLEN)) ELSE 0
  <1> DEFINE s == n % XLEN
             p == Pow2[s]
             z == v * p
  <1>1. s \in 0..XLEN /\ v \in Int /\ p \in Nat \ {0}
    BY Distance, IntWords, PowPos
  <1>2. Shl(v, n) = W(z)
    BY DEF Shl
  <1> HIDE DEF s
  <1>3. z \in Int
    BY <1>1
  <1>4. BitOf(Shl(v, n), i) = BitOf(z, i)
    <2> HIDE DEF z
    <2>1. BitOf(W(z), i) = BitOf(z, i)
      BY <1>3, BitMod
    <2> QED BY <1>2, <2>1, Zenon
  <1>5. i \in 0..XLEN /\ XLEN \in Nat
    BY CpuAssumption
  <1>6. CASE s <= i
    <2> DEFINE q == Pow2[i - s]
    <2>1. s \in 0..i
      BY <1>1, <1>5, <1>6
    <2>2. i - s \in 0..XLEN /\ Pow2[i] = p * q
      BY <1>5, <2>1, PowSum
    <2>3. q \in Nat \ {0}
      BY <2>2, PowPos
    <2> HIDE DEF p, q
    <2>4. z = p * v + 0
      BY <1>1
    <2>5. (p * v + 0) \div p = v
      <3>1. 0 \in Int /\ 0 <= 0 /\ 0 < p
        BY <1>1
      <3> QED BY <1>1, <3>1, DivUnique
    <2>6. (z \div p) \div q = z \div (p * q)
      BY <1>1, <1>3, <2>3, DivDiv
    <2>7. z \div Pow2[i] = v \div q
      BY <2>2, <2>4, <2>5, <2>6, Zenon
    <2>8. BitOf(z, i) = BitOf(v, i - s)
      BY <2>7, Zenon DEF BitOf, q
    <2> QED BY <1>4, <1>6, <2>8 DEF s
  <1>7. CASE ~(s <= i)
    <2>1. i \in 0..s - 1
      BY <1>1, <1>5, <1>7
    <2>2. PICK t \in Nat \ {0} : p = Pow2[i] * (2 * t)
      BY <1>1, <2>1, PowEven
    <2> DEFINE e == t * v
    <2>3. e \in Int /\ Pow2[i] \in Nat \ {0}
      BY <1>1, <1>5, PowPos
    <2>4. z = Pow2[i] * (2 * e)
      <3>1. \A x, y, w \in Int : w * (x * (2 * y)) = x * (2 * (y * w))
        OBVIOUS
      <3>2. v * (Pow2[i] * (2 * t)) = Pow2[i] * (2 * (t * v))
        BY <1>1, <2>3, <3>1
      <3> QED BY <2>2, <3>2, Zenon
    <2> HIDE DEF e, z
    <2>5. BitOf(z + 0, i) = BitOf(0, i)
      BY <1>3, <1>5, <2>3, <2>4, BitAdd
    <2>6. z + 0 = z
      BY <1>3
    <2>7. BitOf(0, i) = 0
      <3> DEFINE b == Pow2[i]
      <3>0. b \in Nat \ {0}
        BY <2>3
      <3>b. BitOf(0, i) = (0 \div b) % 2
        BY DEF BitOf
      <3> HIDE DEF b
      <3>1. (b * 0 + 0) \div b = 0
        <4>1. 0 \in Int /\ 0 <= 0 /\ 0 < b
          BY <3>0
        <4> QED BY <3>0, <4>1, DivUnique
      <3>2. b * 0 + 0 = 0
        BY <3>0
      <3> QED BY <3>b, <3>1, <3>2
    <2> QED BY <1>4, <1>7, <2>5, <2>6, <2>7 DEF s
  <1> QED BY <1>6, <1>7

\* Two shifts to the right, within a word and past it
LEMMA ShiftTwice ==
    ASSUME NEW z \in Int, NEW s \in 0..XLEN, NEW i \in 0..XLEN
    PROVE /\ (z \div Pow2[s]) \div Pow2[i] = z \div (Pow2[s] * Pow2[i])
          /\ Pow2[s] * Pow2[i] \in Nat \ {0}
          /\ i + s <= XLEN => Pow2[s] * Pow2[i] = Pow2[i + s]
          /\ i + s >= XLEN => Pow2[s] * Pow2[i] >= WORD
  <1> DEFINE p == Pow2[s]
             q == Pow2[i]
  <1>0. XLEN \in Nat /\ WORD = Pow2[XLEN]
    BY CpuAssumption
  <1>1. p \in Nat \ {0} /\ q \in Nat \ {0}
    BY PowPos
  <1>2. ASSUME i + s <= XLEN PROVE p * q = Pow2[i + s]
    <2>1. i + s \in 0..XLEN /\ s \in 0..i + s /\ (i + s) - s = i
      BY <1>0, <1>2
    <2>2. Pow2[i + s] = Pow2[s] * Pow2[(i + s) - s]
      BY <2>1, PowSum
    <2> QED BY <2>1, <2>2
  <1>3. ASSUME i + s >= XLEN PROVE p * q >= WORD
    <2> DEFINE k == XLEN - s
               f == Pow2[k]
               g == Pow2[i - k]
    <2>1. k \in 0..i /\ k \in 0..XLEN /\ s \in 0..XLEN /\ XLEN \in 0..XLEN
      BY <1>0, <1>3
    <2>2. WORD = p * f
      BY <1>0, <2>1, PowSum
    <2>3. q = f * g /\ i - k \in 0..XLEN
      BY <2>1, PowSum
    <2>4. f \in Nat \ {0} /\ g \in Nat \ {0}
      BY <2>1, <2>3, PowPos
    <2> HIDE DEF p, q, f, g, k
    <2>5. f * 1 <= f * g
      BY <2>4, Monotone
    <2>6. f * 1 = f /\ q \in Int /\ f \in Int
      BY <2>4, <1>1
    <2>7. f <= q
      BY <2>3, <2>5, <2>6
    <2>8. p * f <= p * q
      BY <1>1, <2>6, <2>7, Monotone
    <2>9. p * f \in Int /\ p * q \in Int
      BY <1>1, <2>6
    <2> QED BY <2>2, <2>8, <2>9
  <1>4. p * q \in Nat \ {0}
    BY <1>1
  <1>5. (z \div p) \div q = z \div (p * q)
    BY <1>1, DivDiv
  <1> QED BY <1>2, <1>3, <1>4, <1>5

LEMMA ShrBits ==
    ASSUME NEW v \in Words, NEW n \in Words, NEW i \in 0..XLEN - 1
    PROVE BitOf(Shr(v, n), i) = IF i + (n % XLEN) < XLEN THEN BitOf(v, i + (n % XLEN)) ELSE 0
  <1> DEFINE s == n % XLEN
             q == Pow2[s] * Pow2[i]
  <1>1. s \in 0..XLEN /\ i \in 0..XLEN /\ XLEN \in Nat
    BY Distance, CpuAssumption
  <1>2. v \in Nat /\ v < WORD /\ WORD \in Nat
    BY InWords, Widths
  <1>3. BitOf(Shr(v, n), i) = ((v \div Pow2[s]) \div Pow2[i]) % 2
    BY Zenon DEF Shr, BitOf
  <1>r. n % XLEN = s
    OBVIOUS
  <1> HIDE DEF s
  <1>4. /\ (v \div Pow2[s]) \div Pow2[i] = v \div q /\ q \in Nat \ {0}
        /\ i + s <= XLEN => q = Pow2[i + s]
        /\ i + s >= XLEN => q >= WORD
    <2>1. v \in Int
      BY <1>2
    <2> QED BY <1>1, <2>1, ShiftTwice
  <1> HIDE DEF q
  <1>5. CASE i + s < XLEN
    <2>1. i + s <= XLEN
      BY <1>1, <1>5
    <2>2. BitOf(v, i + s) = (v \div q) % 2
      BY <1>4, <2>1, Zenon DEF BitOf
    <2> QED BY <1>3, <1>4, <1>5, <2>2, <1>r
  <1>6. CASE ~(i + s < XLEN)
    <2>1. i + s >= XLEN
      BY <1>1, <1>6
    <2>2. (q * 0 + v) \div q = 0
      <3>1. 0 \in Int /\ v \in Int /\ 0 <= v /\ v < q
        BY <1>2, <1>4, <2>1
      <3> QED BY <1>4, <3>1, DivUnique
    <2>3. q * 0 + v = v
      BY <1>2, <1>4
    <2>4. v \div q = 0 /\ 0 % 2 = 0
      BY <2>2, <2>3
    <2> QED BY <1>3, <1>4, <1>6, <2>4, <1>r
  <1> QED BY <1>5, <1>6

\* The sign of a word is its highest bit.
LEMMA TopBit ==
    ASSUME NEW v \in Words
    PROVE /\ XLEN - 1 \in 0..XLEN - 1
          /\ v >= WORD \div 2 => BitOf(v, XLEN - 1) = 1 /\ I32(v) = v - WORD
          /\ ~(v >= WORD \div 2) => BitOf(v, XLEN - 1) = 0 /\ I32(v) = v
  <1> DEFINE m == WORD
             k == XLEN - 1
             h == Pow2[k]
  <1>0. XLEN \in Nat \ {0}
    BY CpuAssumption
  <1>1. m = 2 * h /\ h \in Nat \ {0} /\ k \in 0..XLEN - 1
    <2>1. XLEN \in 1..XLEN /\ k \in 0..XLEN /\ k \in 0..XLEN - 1
      BY <1>0
    <2>2. Pow2[XLEN] = 2 * Pow2[XLEN - 1]
      BY <2>1, Powers
    <2> QED BY <2>1, <2>2, PowPos, CpuAssumption
  <1>2. v \in Nat /\ v < m
    BY InWords
  <1>3. BitOf(v, k) = (v \div h) % 2 /\ I32(v) = IF v >= m \div 2 THEN v - m ELSE v
    BY DEF BitOf, I32
  <1> HIDE DEF m, k, h
  <1>4. m \div 2 = h
    BY <1>1
  <1>5. CASE v >= h
    <2>1. (h * 1 + (v - h)) \div h = 1
      <3>1. 1 \in Int /\ v - h \in Int /\ 0 <= v - h /\ v - h < h
        BY <1>1, <1>2, <1>5
      <3> QED BY <1>1, <3>1, DivUnique
    <2>2. h * 1 + (v - h) = v /\ 1 % 2 = 1
      BY <1>1, <1>2
    <2> QED BY <1>1, <1>3, <1>4, <1>5, <2>1, <2>2 DEF k, m
  <1>6. CASE ~(v >= h)
    <2>1. (h * 0 + v) \div h = 0
      <3>1. 0 \in Int /\ v \in Int /\ 0 <= v /\ v < h
        BY <1>1, <1>2, <1>6
      <3> QED BY <1>1, <3>1, DivUnique
    <2>2. h * 0 + v = v /\ 0 % 2 = 0
      BY <1>1, <1>2
    <2> QED BY <1>1, <1>3, <1>4, <1>6, <2>1, <2>2 DEF k, m
  <1> QED BY <1>5, <1>6

LEMMA SignedBits ==
    ASSUME NEW v \in Words, NEW j \in 0..XLEN - 1
    PROVE I32(v) \in Int /\ BitOf(I32(v), j) = BitOf(v, j)
  <1>1. I32(v) \in Int /\ v \in Int
    BY I32Type, IntWords
  <1>2. CASE I32(v) = v
    BY <1>1, <1>2
  <1>3. CASE I32(v) = v - WORD
    <2>1. PICK t \in Int : WORD = Pow2[j] * (2 * t)
      BY EvenWord
    <2>2. j \in 0..XLEN
      BY EvenWord
    <2> DEFINE m == WORD
               n == -m
               e == -t
    <2>3. m \in Int /\ Pow2[j] \in Int
      BY <2>2, Widths, PowPos
    <2>4. n = Pow2[j] * (2 * e)
      <3>1. \A x, y \in Int : -(x * (2 * y)) = x * (2 * (-y))
        OBVIOUS
      <3>2. -(Pow2[j] * (2 * t)) = Pow2[j] * (2 * (-t))
        BY <2>3, <3>1
      <3> QED BY <2>1, <3>2, Zenon
    <2>5. I32(v) = v - m
      BY <1>3
    <2> HIDE DEF m
    <2>6. n \in Int /\ e \in Int /\ I32(v) = n + v
      BY <1>1, <2>3, <2>5
    <2> HIDE DEF n, e
    <2>7. BitOf(n + v, j) = BitOf(v, j)
      BY <1>1, <2>2, <2>4, <2>6, BitAdd
    <2> QED BY <1>1, <2>6, <2>7, Zenon
  <1> QED BY <1>2, <1>3, TopBit

LEMMA SarBits ==
    ASSUME NEW v \in Words, NEW n \in Words, NEW i \in 0..XLEN - 1
    PROVE BitOf(Sar(v, n), i)
          = BitOf(v, IF i + (n % XLEN) < XLEN THEN i + (n % XLEN) ELSE XLEN - 1)
  <1> DEFINE s == n % XLEN
             q == Pow2[s] * Pow2[i]
             a == I32(v)
  <1>1. s \in 0..XLEN /\ i \in 0..XLEN /\ XLEN \in Nat
    BY Distance, CpuAssumption
  <1>2. a \in Int
    BY I32Type
  <1>p. Pow2[s] \in Nat \ {0}
    BY <1>1, PowPos
  <1>3. BitOf(Sar(v, n), i) = ((a \div Pow2[s]) \div Pow2[i]) % 2
    <2> DEFINE z == a \div Pow2[s]
    <2>1. z \in Int
      BY <1>2, <1>p, DivRest
    <2>2. Sar(v, n) = W(z)
      BY DEF Sar
    <2> HIDE DEF z
    <2>3. BitOf(W(z), i) = BitOf(z, i)
      BY <2>1, BitMod
    <2> QED BY <2>2, <2>3, Zenon DEF BitOf, z
  <1>r. n % XLEN = s /\ I32(v) = a
    OBVIOUS
  <1>t. /\ v >= WORD \div 2 => BitOf(v, XLEN - 1) = 1 /\ a = v - WORD
        /\ ~(v >= WORD \div 2) => BitOf(v, XLEN - 1) = 0 /\ a = v
    BY TopBit
  <1> HIDE DEF s, a
  <1>4. /\ (a \div Pow2[s]) \div Pow2[i] = a \div q /\ q \in Nat \ {0}
        /\ i + s <= XLEN => q = Pow2[i + s]
        /\ i + s >= XLEN => q >= WORD
    BY <1>1, <1>2, ShiftTwice
  <1> HIDE DEF q
  <1>5. CASE i + s < XLEN
    <2>1. i + s <= XLEN /\ i + s \in 0..XLEN - 1
      BY <1>1, <1>5
    <2>2. BitOf(a, i + s) = (a \div q) % 2
      BY <1>4, <2>1, Zenon DEF BitOf
    <2>3. BitOf(a, i + s) = BitOf(v, i + s)
      BY <2>1, <1>r, SignedBits
    <2> QED BY <1>3, <1>4, <1>5, <2>2, <2>3, <1>r
  <1>6. CASE ~(i + s < XLEN)
    <2>1. i + s >= XLEN
      BY <1>1, <1>6
    <2> DEFINE m == WORD
    <2>2. v \in Nat /\ v < m /\ m \in Nat /\ q >= m
      BY <1>4, <2>1, InWords, Widths
    <2>3. BitOf(v, XLEN - 1) = (a \div q) % 2
      <3>1. CASE v >= WORD \div 2
        <4>1. BitOf(v, XLEN - 1) = 1 /\ a = v - m
          BY <1>t, <3>1
        <4> HIDE DEF m
        <4> DEFINE y == q + a
        <4>2. y \in Int /\ 0 <= y /\ y < q
          BY <1>2, <1>4, <2>2, <4>1
        <4>5. -1 \in Int /\ q * (-1) + y = a
          BY <1>2, <1>4
        <4> HIDE DEF y
        <4>3. (q * (-1) + y) \div q = -1
          BY <1>4, <4>2, <4>5, DivUnique
        <4>4. a \div q = -1
          BY <4>3, <4>5, Zenon
        <4>6. (-1) % 2 = 1
          <5> DEFINE l == -1
          <5>1. l \in Int /\ l + 1 = 0
            OBVIOUS
          <5> HIDE DEF l
          <5>2. l % 2 = 1
            BY <5>1
          <5> QED BY <5>2 DEF l
        <4> QED BY <4>1, <4>4, <4>6, Zenon
      <3>2. CASE ~(v >= WORD \div 2)
        <4>1. BitOf(v, XLEN - 1) = 0 /\ a = v
          BY <1>t, <3>2
        <4> HIDE DEF m
        <4>2. 0 \in Int /\ 0 <= a /\ a < q
          BY <1>4, <2>2, <4>1
        <4>5. q * 0 + a = a
          BY <1>2, <1>4
        <4>3. (q * 0 + a) \div q = 0
          BY <1>2, <1>4, <4>2, DivUnique
        <4>4. a \div q = 0 /\ 0 % 2 = 0
          BY <4>3, <4>5
        <4> QED BY <4>1, <4>4
      <3> QED BY <3>1, <3>2
    <2> QED BY <1>3, <1>4, <1>6, <2>3, <1>r
  <1> QED BY <1>5, <1>6

LEMMA ShiftsRight ==
    ASSUME NEW v \in Words, NEW n \in Words
    PROVE /\ Shl(v, n) = Machine!WordWith({i \in 0..XLEN - 1 : i - (n % XLEN) \in Machine!Ones(v)})
          /\ Shr(v, n) = Machine!WordWith({i \in 0..XLEN - 1 : i + (n % XLEN) \in Machine!Ones(v)})
          /\ Sar(v, n) = Machine!WordWith({i \in 0..XLEN - 1 :
                           (IF i + (n % XLEN) < XLEN THEN i + (n % XLEN) ELSE XLEN - 1) \in Machine!Ones(v)})
  <1> DEFINE s == n % XLEN
             O(z) == {i \in 0..XLEN - 1 : BitOf(z, i) = 1}
  <1>0. XLEN \in Nat /\ s \in 0..XLEN - 1
    BY Distance, CpuAssumption
  <1>1. \A z : Machine!Ones(z) = O(z)
    BY SameOnes
  <1>2. Shl(v, n) \in Words /\ Shr(v, n) \in Words /\ Sar(v, n) \in Words
    BY ShiftTypes
  <1>3. ASSUME NEW i \in 0..XLEN - 1
        PROVE /\ BitOf(Shl(v, n), i) = IF s <= i THEN BitOf(v, i - s) ELSE 0
              /\ BitOf(Shr(v, n), i) = IF i + s < XLEN THEN BitOf(v, i + s) ELSE 0
              /\ BitOf(Sar(v, n), i) = BitOf(v, IF i + s < XLEN THEN i + s ELSE XLEN - 1)
    BY ShlBits, ShrBits, SarBits
  <1> HIDE DEF s
  <1>4. O(Shl(v, n)) = {i \in 0..XLEN - 1 : i - s \in O(v)}
    <2>1. ASSUME NEW i \in 0..XLEN - 1 PROVE BitOf(Shl(v, n), i) = 1 <=> i - s \in O(v)
      <3>1. CASE s <= i
        <4>1. i - s \in 0..XLEN - 1
          BY <1>0, <3>1
        <4> QED BY <1>3, <3>1, <4>1
      <3>2. CASE ~(s <= i)
        <4>1. i - s \notin 0..XLEN - 1
          BY <1>0, <3>2
        <4> QED BY <1>3, <3>2, <4>1
      <3> QED BY <3>1, <3>2
    <2> QED BY <2>1
  <1>5. O(Shr(v, n)) = {i \in 0..XLEN - 1 : i + s \in O(v)}
    <2>1. ASSUME NEW i \in 0..XLEN - 1 PROVE BitOf(Shr(v, n), i) = 1 <=> i + s \in O(v)
      <3>1. CASE i + s < XLEN
        <4>1. i + s \in 0..XLEN - 1
          BY <1>0, <3>1
        <4> QED BY <1>3, <3>1, <4>1
      <3>2. CASE ~(i + s < XLEN)
        <4>1. i + s \notin 0..XLEN - 1
          BY <1>0, <3>2
        <4> QED BY <1>3, <3>2, <4>1
      <3> QED BY <3>1, <3>2
    <2> QED BY <2>1
  <1>6. O(Sar(v, n)) = {i \in 0..XLEN - 1 : (IF i + s < XLEN THEN i + s ELSE XLEN - 1) \in O(v)}
    <2>1. ASSUME NEW i \in 0..XLEN - 1
          PROVE BitOf(Sar(v, n), i) = 1 <=> (IF i + s < XLEN THEN i + s ELSE XLEN - 1) \in O(v)
      <3>1. (IF i + s < XLEN THEN i + s ELSE XLEN - 1) \in 0..XLEN - 1
        BY <1>0
      <3> QED BY <1>3, <3>1
    <2> QED BY <2>1
  <1> HIDE DEF O
  <1>7. Shl(v, n) = Machine!WordWith({i \in 0..XLEN - 1 : i - s \in Machine!Ones(v)})
    BY <1>1, <1>2, <1>4, WordWithOnes
  <1>8. Shr(v, n) = Machine!WordWith({i \in 0..XLEN - 1 : i + s \in Machine!Ones(v)})
    BY <1>1, <1>2, <1>5, WordWithOnes
  <1>9. Sar(v, n) = Machine!WordWith({i \in 0..XLEN - 1 : (IF i + s < XLEN THEN i + s ELSE XLEN - 1) \in Machine!Ones(v)})
    BY <1>1, <1>2, <1>6, WordWithOnes
  <1> QED BY <1>7, <1>8, <1>9 DEF s

-----------------------------------------------------------------------------
(* Division that truncates *)

\* Quotient and remainder of a division that truncates
Size(b) == IF b < 0 THEN -b ELSE b
Divides(a, b, q, r) ==
    /\ a = q * b + r
    /\ a >= 0 => r >= 0
    /\ a <= 0 => r <= 0
    /\ -Size(b) < r /\ r < Size(b)

LEMMA DividesOnce ==
    ASSUME NEW a \in Int, NEW b \in Int, b # 0, NEW q \in Int, NEW r \in Int, NEW p \in Int, NEW s \in Int,
           Divides(a, b, q, r), Divides(a, b, p, s)
    PROVE p = q /\ s = r
  <1> DEFINE c == Size(b)
             d == q - p
             e == s - r
  <1>1. c \in Nat \ {0} /\ (c = b \/ c = -b)
    BY DEF Size
  <1>2. -c < e /\ e < c /\ e \in Int
    <2>1. -c < r /\ r < c /\ -c < s /\ s < c /\ (a >= 0 => r >= 0 /\ s >= 0) /\ (a <= 0 => r <= 0 /\ s <= 0)
      BY DEF Divides
    <2> HIDE DEF c
    <2> QED BY <1>1, <2>1
  <1>3. q * b + r = p * b + s
    BY DEF Divides
  <1>4. b * d = e /\ d \in Int
    <2>1. q * b - p * b = e
      BY <1>3
    <2>2. b * (q - p) = q * b - p * b
      OBVIOUS
    <2> QED BY <2>1, <2>2
  <1> HIDE DEF c, d, e
  <1>5. -c < c * d /\ c * d < c
    <2>1. CASE c = b
      BY <1>2, <1>4, <2>1
    <2>2. CASE c = -b
      <3>1. (-b) * d = -(b * d)
        BY <1>4
      <3>2. c * d = -e
        BY <1>4, <2>2, <3>1
      <3> QED BY <1>1, <1>2, <3>2
    <2> QED BY <1>1, <2>1, <2>2
  <1>6. d = 0
    <2>1. CASE d >= 1
      <3>1. c * 1 <= c * d
        BY <1>1, <1>4, <2>1, Monotone
      <3>2. c * 1 = c /\ c * d \in Int
        BY <1>1, <1>4
      <3> QED BY <1>1, <1>5, <3>1, <3>2
    <2>2. CASE d <= -1
      <3>1. c * d <= c * (-1)
        BY <1>1, <1>4, <2>2, Monotone
      <3>2. c * (-1) = -c /\ c * d \in Int
        BY <1>1, <1>4
      <3> QED BY <1>1, <1>5, <3>1, <3>2
    <2> QED BY <1>4, <2>1, <2>2
  <1>7. e = 0
    BY <1>4, <1>6
  <1> QED BY <1>6, <1>7 DEF d, e

LEMMA DivRemIs ==
    ASSUME NEW a \in Int, NEW b \in Int, b # 0, NEW q \in -WORD..WORD, NEW r \in -WORD..WORD, Divides(a, b, q, r)
    PROVE Machine!DivRem(a, b)[1] = q /\ Machine!DivRem(a, b)[2] = r
  <1> DEFINE S == -WORD..WORD
             c == CHOOSE qr \in S \X S : Divides(a, b, qr[1], qr[2])
  <1>1. Machine!DivRem(a, b) = c
    <2>1. b # 0
      OBVIOUS
    <2> QED BY <2>1, SameWords, Zenon DEF Machine!DivRem, Divides, Size
  <1>2. S \subseteq Int /\ q \in S /\ r \in S
    <2>1. WORD \in Int
      BY Widths
    <2> DEFINE m == WORD
    <2>2. m \in Int /\ S = -m..m
      BY <2>1
    <2> HIDE DEF m, S
    <2>3. S \subseteq Int
      BY <2>2
    <2> QED BY <2>3 DEF S
  <1> HIDE DEF S
  <1>3. <<q, r>> \in S \X S /\ Divides(a, b, <<q, r>>[1], <<q, r>>[2])
    BY <1>2
  <1>4. c \in S \X S /\ Divides(a, b, c[1], c[2])
    <2>1. \E qr \in S \X S : Divides(a, b, qr[1], qr[2])
      BY <1>3
    <2> QED BY <2>1, Zenon
  <1> HIDE DEF c
  <1>5. c[1] \in Int /\ c[2] \in Int /\ q \in Int /\ r \in Int
    BY <1>2, <1>4
  <1>6. c[1] = q /\ c[2] = r
    BY <1>4, <1>5, DividesOnce
  <1> QED BY <1>1, <1>6

\* C's division is this one.
LEMMA TruncatesC ==
    ASSUME NEW m \in Nat, NEW a \in -m..m, NEW b \in -m..m, b # 0
    PROVE /\ Divides(a, b, Quotient(a, b), Remainder(a, b))
          /\ Quotient(a, b) \in -m..m /\ Remainder(a, b) \in -m..m
  <1> DEFINE A == Abs(a)
             B == Abs(b)
             k == A \div B
             s == A % B
  <1>1. A \in Nat /\ A <= m /\ B \in Nat \ {0} /\ a \in Int /\ b \in Int
    BY DEF Abs
  <1>s. Size(b) = B
    BY DEF Size, Abs
  <1>2. (a >= 0 => A = a) /\ (~(a >= 0) => A = -a /\ a < 0) /\ (b > 0 => B = b) /\ (~(b > 0) => B = -b /\ b < 0)
    BY DEF Abs
  <1>3. Quotient(a, b) = IF (a < 0) = (b < 0) THEN k ELSE -k
    BY DEF Quotient
  <1>q. Remainder(a, b) = a - Quotient(a, b) * b
    BY DEF Remainder
  <1> HIDE DEF A, B
  <1>4. k \in Int /\ s \in Int /\ A = B * k + s /\ 0 <= s /\ s < B
    BY <1>1, DivRest
  <1>5. k \in Nat /\ k <= A
    <2>1. A < B * (A + 1)
      <3>1. 1 * (A + 1) <= B * (A + 1)
        <4>1. (A + 1) * 1 <= (A + 1) * B
          BY <1>1, Monotone
        <4> QED BY <1>1, <4>1
      <3> QED BY <1>1, <3>1
    <2>2. k \in Nat /\ k <= (A + 1) - 1
      BY <1>1, <2>1, DivBelow
    <2> QED BY <1>1, <2>2
  <1> HIDE DEF k, s
  <1>6. B * k \in Nat /\ s <= A
    <2>1. B * k \in Nat
      BY <1>1, <1>5
    <2> QED BY <1>1, <1>4, <2>1
  <1>7. k \in -m..m /\ -k \in -m..m /\ s \in -m..m /\ -s \in -m..m
    BY <1>1, <1>4, <1>5, <1>6
  <1>8. CASE a >= 0 /\ b > 0
    <2>1. Quotient(a, b) = k
      <3>1. (a < 0) = FALSE /\ (b < 0) = FALSE
        BY <1>1, <1>8
      <3> QED BY <1>3, <3>1
    <2>2. Remainder(a, b) = s
      <3>1. a = b * k + s /\ k * b = b * k
        BY <1>1, <1>2, <1>4, <1>8
      <3> QED BY <1>1, <1>4, <1>q, <2>1, <3>1
    <2>3. Divides(a, b, k, s)
      <3>1. a = k * b + s
        BY <1>1, <1>2, <1>4, <1>8
      <3>2. -B < s /\ s < B
        BY <1>1, <1>4
      <3> QED BY <1>4, <1>8, <1>s, <3>1, <3>2, <1>6, <1>2 DEF Divides
    <2> QED BY <1>7, <2>1, <2>2, <2>3
  <1>9. CASE a >= 0 /\ ~(b > 0)
    <2>1. Quotient(a, b) = -k
      <3>1. (a < 0) = FALSE /\ (b < 0) = TRUE
        BY <1>1, <1>9
      <3> QED BY <1>3, <3>1
    <2>2. a = (-k) * b + s
      <3>1. a = (-b) * k + s
        BY <1>2, <1>4, <1>9
      <3> QED BY <1>1, <1>4, <3>1
    <2>3. Remainder(a, b) = s
      BY <1>1, <1>4, <1>q, <2>1, <2>2
    <2>4. Divides(a, b, -k, s)
      <3>2. -B < s /\ s < B
        BY <1>1, <1>4
      <3> QED BY <1>4, <1>9, <1>s, <2>2, <3>2, <1>6, <1>2 DEF Divides
    <2> QED BY <1>7, <2>1, <2>3, <2>4
  <1>10. CASE ~(a >= 0) /\ b > 0
    <2>1. Quotient(a, b) = -k
      <3>1. (a < 0) = TRUE /\ (b < 0) = FALSE
        BY <1>1, <1>10
      <3> QED BY <1>3, <3>1
    <2>2. a = (-k) * b + (-s)
      <3>1. -a = b * k + s
        BY <1>2, <1>4, <1>10
      <3> QED BY <1>1, <1>4, <3>1
    <2>3. Remainder(a, b) = -s
      BY <1>1, <1>4, <1>q, <2>1, <2>2
    <2>4. Divides(a, b, -k, -s)
      <3>2. -B < -s /\ -s < B
        BY <1>1, <1>4
      <3>3. ~(a >= 0) /\ -s <= 0
        BY <1>4, <1>10
      <3> QED BY <1>s, <2>2, <3>2, <3>3 DEF Divides
    <2> QED BY <1>7, <2>1, <2>3, <2>4
  <1>11. CASE ~(a >= 0) /\ ~(b > 0)
    <2>1. Quotient(a, b) = k
      <3>1. (a < 0) = TRUE /\ (b < 0) = TRUE
        BY <1>1, <1>11
      <3> QED BY <1>3, <3>1
    <2>2. a = k * b + (-s)
      <3>1. -a = (-b) * k + s
        BY <1>2, <1>4, <1>11
      <3> QED BY <1>1, <1>4, <3>1
    <2>3. Remainder(a, b) = -s
      BY <1>1, <1>4, <1>q, <2>1, <2>2
    <2>4. Divides(a, b, k, -s)
      <3>2. -B < -s /\ -s < B
        BY <1>1, <1>4
      <3>3. ~(a >= 0) /\ -s <= 0
        BY <1>4, <1>11
      <3> QED BY <1>s, <2>2, <3>2, <3>3 DEF Divides
    <2> QED BY <1>7, <2>1, <2>3, <2>4
  <1> QED BY <1>8, <1>9, <1>10, <1>11

LEMMA SameSign ==
    ASSUME NEW v \in Words
    PROVE Machine!Signed(v) = I32(v) /\ I32(v) \in -WORD..WORD
  <1> DEFINE m == WORD
  <1>1. m \in Nat /\ v \in Nat /\ v < m
    BY InWords, Widths
  <1>2. Machine!Signed(v) = (IF v < m \div 2 THEN v ELSE v - m) /\ I32(v) = IF v >= m \div 2 THEN v - m ELSE v
    BY SameWords DEF Machine!Signed, I32
  <1> HIDE DEF m
  <1>3. Machine!Signed(v) = I32(v) /\ I32(v) \in -m..m
    BY <1>1, <1>2
  <1> QED BY <1>3 DEF m

LEMMA SignedDivision ==
    ASSUME NEW v1 \in Words, NEW v2 \in Words, v2 # 0
    PROVE /\ Machine!DivRem(Machine!Signed(v1), Machine!Signed(v2))[1] = Quotient(I32(v1), I32(v2))
          /\ Machine!DivRem(Machine!Signed(v1), Machine!Signed(v2))[2] = Remainder(I32(v1), I32(v2))
  <1> DEFINE a == I32(v1)
             b == I32(v2)
             m == WORD
  <1>1. a \in -m..m /\ b \in -m..m /\ a \in Int /\ b \in Int /\ b # 0 /\ m \in Nat
    BY SameSign, I32Type, Widths
  <1>2. Machine!Signed(v1) = a /\ Machine!Signed(v2) = b
    BY SameSign
  <1> HIDE DEF a, b
  <1>3. Divides(a, b, Quotient(a, b), Remainder(a, b)) /\ Quotient(a, b) \in -m..m /\ Remainder(a, b) \in -m..m
    <2> HIDE DEF m
    <2> QED BY <1>1, TruncatesC
  <1>4. Machine!DivRem(a, b)[1] = Quotient(a, b) /\ Machine!DivRem(a, b)[2] = Remainder(a, b)
    BY <1>1, <1>3, DivRemIs
  <1> QED BY <1>2, <1>4 DEF a, b

LEMMA UnsignedDivision ==
    ASSUME NEW v1 \in Words, NEW v2 \in Words, v2 # 0
    PROVE Machine!DivRem(v1, v2)[1] = v1 \div v2 /\ Machine!DivRem(v1, v2)[2] = v1 % v2
  <1> DEFINE m == WORD
             k == v1 \div v2
             s == v1 % v2
  <1>1. v1 \in Nat /\ v2 \in Nat \ {0} /\ m \in Nat /\ v1 < m
    BY InWords, Widths
  <1>2. k \in Words /\ s \in Words
    BY <1>1, DividedType
  <1>3. k \in Nat /\ s \in Nat /\ k < m /\ s < m
    BY <1>2, InWords
  <1>4. v1 = v2 * k + s /\ s < v2
    BY <1>1, DivRest
  <1> HIDE DEF k, s
  <1>5. Divides(v1, v2, k, s)
    <2>1. Size(v2) = v2
      BY <1>1 DEF Size
    <2>2. v1 = k * v2 + s
      BY <1>1, <1>3, <1>4
    <2>3. -v2 < s /\ s < v2
      BY <1>1, <1>3, <1>4
    <2>4. v1 <= 0 => s <= 0
      <3> SUFFICES ASSUME v1 = 0 PROVE s = 0
        BY <1>1, <1>3
      <3>1. v2 * k \in Nat
        BY <1>1, <1>3
      <3> QED BY <1>3, <1>4, <3>1
    <2> QED BY <1>3, <2>1, <2>2, <2>3, <2>4 DEF Divides
  <1>6. k \in -m..m /\ s \in -m..m
    <2> HIDE DEF m
    <2> QED BY <1>1, <1>3
  <1>7. Machine!DivRem(v1, v2)[1] = k /\ Machine!DivRem(v1, v2)[2] = s
    <2>1. v1 \in Int /\ v2 \in Int /\ v2 # 0
      BY <1>1
    <2> QED BY <2>1, <1>5, <1>6, DivRemIs
  <1> QED BY <1>7 DEF k, s

-----------------------------------------------------------------------------
(* The turns of simulate() as steps of the instruction set *)

\* An encoding has one name.
LEMMA OneName ==
    ASSUME NEW d \in Machine!Encodings, NEW e \in Machine!Encodings, d[2] = e[2], d[3] = e[3]
    PROVE d = e
  BY DEF Machine!Encodings

EncodedAs(f3, f7) == (CHOOSE e \in Machine!Encodings : e[2] = f3 /\ e[3] = f7)[1]

LEMMA NameIs ==
    ASSUME NEW f3, NEW f7, NEW e \in Machine!Encodings, e[2] = f3, e[3] = f7
    PROVE EncodedAs(f3, f7) = e[1]
  <1> DEFINE d == CHOOSE y \in Machine!Encodings : y[2] = f3 /\ y[3] = f7
  <1>1. d \in Machine!Encodings /\ d[2] = f3 /\ d[3] = f7
    OBVIOUS
  <1>2. EncodedAs(f3, f7) = d[1]
    BY DEF EncodedAs
  <1> HIDE DEF d
  <1>3. d = e
    BY <1>1, OneName
  <1> QED BY <1>2, <1>3

LEMMA Names ==
    /\ EncodedAs(0, 0) = "add" /\ EncodedAs(0, 32) = "sub" /\ EncodedAs(1, 0) = "sll" /\ EncodedAs(2, 0) = "slt"
    /\ EncodedAs(3, 0) = "sltu" /\ EncodedAs(4, 0) = "xor" /\ EncodedAs(5, 0) = "srl" /\ EncodedAs(5, 32) = "sra"
    /\ EncodedAs(6, 0) = "or" /\ EncodedAs(7, 0) = "and" /\ EncodedAs(0, 1) = "mul" /\ EncodedAs(1, 1) = "mulh"
    /\ EncodedAs(2, 1) = "mulhsu" /\ EncodedAs(3, 1) = "mulhu"
    /\ EncodedAs(4, 1) = "div" /\ EncodedAs(5, 1) = "divu" /\ EncodedAs(6, 1) = "rem" /\ EncodedAs(7, 1) = "remu"
  <1>1. \A n, f3, f7 : <<n, f3, f7>> \in Machine!Encodings => EncodedAs(f3, f7) = n
    <2> TAKE n, f3, f7
    <2> HAVE <<n, f3, f7>> \in Machine!Encodings
    <2> DEFINE e == <<n, f3, f7>>
    <2>1. e[1] = n /\ e[2] = f3 /\ e[3] = f7 /\ e \in Machine!Encodings
      OBVIOUS
    <2> HIDE DEF e
    <2> QED BY <2>1, NameIs
  <1>2. /\ <<"add", 0, 0>> \in Machine!Encodings /\ <<"sub", 0, 32>> \in Machine!Encodings
        /\ <<"sll", 1, 0>> \in Machine!Encodings /\ <<"slt", 2, 0>> \in Machine!Encodings
        /\ <<"sltu", 3, 0>> \in Machine!Encodings /\ <<"xor", 4, 0>> \in Machine!Encodings
        /\ <<"srl", 5, 0>> \in Machine!Encodings /\ <<"sra", 5, 32>> \in Machine!Encodings
        /\ <<"or", 6, 0>> \in Machine!Encodings /\ <<"and", 7, 0>> \in Machine!Encodings
        /\ <<"mul", 0, 1>> \in Machine!Encodings /\ <<"mulh", 1, 1>> \in Machine!Encodings
        /\ <<"mulhsu", 2, 1>> \in Machine!Encodings /\ <<"mulhu", 3, 1>> \in Machine!Encodings
        /\ <<"div", 4, 1>> \in Machine!Encodings /\ <<"divu", 5, 1>> \in Machine!Encodings
        /\ <<"rem", 6, 1>> \in Machine!Encodings /\ <<"remu", 7, 1>> \in Machine!Encodings
    BY DEF Machine!Encodings
  <1> QED BY <1>1, <1>2

\* The codes of the instructions that conform
Coded(f3, f7) ==
    \/ f3 \in {0, 5} /\ f7 \in {0, 1, 32}
    \/ f3 \in {1, 2, 3, 4, 6, 7} /\ f7 \in {0, 1}

LEMMA ConformingCodes ==
    ASSUME NEW i, Conforms(i), i.op = "OP"
    PROVE Coded(i.f3, i.f7)
  <1>1. PICK e \in Machine!Encodings : e[2] = i.f3 /\ e[3] = i.f7
    BY DEF Conforms
  <1>2. Coded(e[2], e[3])
    BY <1>1 DEF Machine!Encodings, Coded
  <1> QED BY <1>1, <1>2

\* The rest of a sum is that of the sum of the rests.
LEMMA ModSum ==
    ASSUME NEW p \in Nat \ {0}, NEW a \in Int, NEW b \in Int
    PROVE ((a % p) + (b % p)) % p = (a + b) % p
  <1> DEFINE q == a \div p
             r == a % p
             u == b \div p
             v == b % p
             k == (r + v) \div p
             t == (r + v) % p
  <1>1. q \in Int /\ r \in Int /\ a = p * q + r
    BY DivRest
  <1>2. u \in Int /\ v \in Int /\ b = p * u + v
    BY DivRest
  <1> HIDE DEF q, r, u, v
  <1>3. k \in Int /\ t \in Int /\ r + v = p * k + t /\ 0 <= t /\ t < p
    <2>1. r + v \in Int
      BY <1>1, <1>2
    <2> QED BY <2>1, DivRest
  <1> HIDE DEF k, t
  <1>4. a + b = p * (q + u + k) + t /\ q + u + k \in Int
    <2>1. p * (q + u + k) = p * q + p * u + p * k
      BY <1>1, <1>2, <1>3
    <2> QED BY <2>1, <1>1, <1>2, <1>3
  <1>5. (p * (q + u + k) + t) % p = t
    BY <1>3, <1>4, DivUnique
  <1> QED BY <1>4, <1>5, Zenon DEF t, r, v

\* A product that is larger by k words, and its high word
LEMMA HighSum ==
    ASSUME NEW v1 \in Words, NEW v2 \in Words, NEW k \in Int, NEW j \in Int, NEW a \in Int, j = k + WORD * a
    PROVE ((WORD * k + I32(v1) * I32(v2)) \div WORD) % WORD = W(High(v1, v2) + W(j))
  <1> DEFINE m == WORD
             z == I32(v1) * I32(v2)
             h == z \div m
  <1>1. m \in Nat \ {0} /\ z \in Int
    BY Widths, I32Type
  <1>2. High(v1, v2) = h % m /\ W(j) = j % m /\ W(High(v1, v2) + W(j)) = ((h % m) + (j % m)) % m
    BY DEF High, W
  <1>3. j = k + m * a
    OBVIOUS
  <1> HIDE DEF m, z
  <1>4. h \in Int
    BY <1>1, DivRest
  <1>5. (m * k + z) \div m = k + h
    BY <1>1, DivAdd
  <1> HIDE DEF h
  <1>6. j % m = k % m
    <2> DEFINE q == k \div m
               r == k % m
    <2>1. q \in Int /\ r \in Int /\ k = m * q + r /\ 0 <= r /\ r < m
      BY <1>1, DivRest
    <2> HIDE DEF q, r
    <2>2. j = m * (q + a) + r /\ q + a \in Int
      <3>1. m * (q + a) = m * q + m * a
        BY <1>1, <2>1
      <3> QED BY <3>1, <1>3, <2>1, <1>1
    <2>3. (m * (q + a) + r) % m = r
      BY <1>1, <2>1, <2>2, DivUnique
    <2> QED BY <2>2, <2>3, Zenon DEF r
  <1>7. ((h % m) + (k % m)) % m = (h + k) % m
    BY <1>1, <1>4, ModSum
  <1>8. k + h = h + k
    BY <1>4
  <1> QED BY <1>2, <1>5, <1>6, <1>7, <1>8, Zenon DEF m, z

LEMMA SignOf ==
    ASSUME NEW v \in Words
    PROVE /\ I32(v) \in Int /\ v \in Int
          /\ I32(v) < 0 => v = I32(v) + WORD
          /\ ~(I32(v) < 0) => v = I32(v)
  <1> DEFINE m == WORD
  <1>1. m \in Nat /\ v \in Nat /\ v < m
    BY InWords, Widths
  <1>2. I32(v) = IF v >= m \div 2 THEN v - m ELSE v
    BY DEF I32
  <1> HIDE DEF m
  <1>3. I32(v) \in Int /\ (I32(v) < 0 => v = I32(v) + m) /\ (~(I32(v) < 0) => v = I32(v))
    BY <1>1, <1>2
  <1> QED BY <1>1, <1>3 DEF m

\* The high products of an unsigned operand, and the one of simulate()
LEMMA HighProducts ==
    ASSUME NEW v1 \in Words, NEW v2 \in Words
    PROVE /\ Machine!Result("mulhsu", v1, v2) = W(High(v1, v2) + Lacks(2, v1, v2))
          /\ Machine!Result("mulhu", v1, v2) = W(High(v1, v2) + Lacks(3, v1, v2))
  <1> DEFINE a == I32(v1)
             b == I32(v2)
             m == WORD
  <1>1. /\ Machine!Result("mulhsu", v1, v2) = ((a * v2) \div m) % m
        /\ Machine!Result("mulhu", v1, v2) = ((v1 * v2) \div m) % m
    BY SameWords, SameSign DEF Machine!Result
  <1>2. /\ Lacks(2, v1, v2) = W(IF b < 0 THEN v1 ELSE 0)
        /\ Lacks(3, v1, v2) = W((IF a < 0 THEN v2 ELSE 0) + (IF b < 0 THEN v1 ELSE 0))
    <2>1. 0 + (IF b < 0 THEN v1 ELSE 0) = IF b < 0 THEN v1 ELSE 0
      BY SignOf
    <2> QED BY <2>1 DEF Lacks
  <1>3. /\ a \in Int /\ b \in Int /\ v1 \in Int /\ v2 \in Int /\ m \in Nat
        /\ a < 0 => v1 = a + m
        /\ ~(a < 0) => v1 = a
        /\ b < 0 => v2 = b + m
        /\ ~(b < 0) => v2 = b
    BY SignOf, Widths
  <1>4. \A k, j \in Int : j = k \/ j = k + m => ((m * k + a * b) \div m) % m = W(High(v1, v2) + W(j))
    <2> SUFFICES ASSUME NEW k \in Int, NEW j \in Int, j = k \/ j = k + m
                 PROVE ((m * k + a * b) \div m) % m = W(High(v1, v2) + W(j))
      OBVIOUS
    <2>1. j = k + m * 0 \/ j = k + m * 1
      BY <1>3
    <2> QED BY <2>1, HighSum
  <1> HIDE DEF a, b, m
  <1>5. CASE ~(b < 0)
    <2>1. a * v2 = m * 0 + a * b
      BY <1>3, <1>5
    <2>2. ((a * v2) \div m) % m = W(High(v1, v2) + W(0))
      BY <1>4, <2>1
    <2>3. CASE ~(a < 0)
      <3>1. v1 * v2 = m * 0 + a * b
        BY <1>3, <1>5, <2>3
      <3>2. ((v1 * v2) \div m) % m = W(High(v1, v2) + W(0))
        BY <1>4, <2>1, <3>1
      <3>3. Lacks(2, v1, v2) = W(0) /\ Lacks(3, v1, v2) = W(0)
        <4>1. 0 + 0 = 0
          OBVIOUS
        <4> QED BY <1>2, <1>5, <2>3, <4>1
      <3> QED BY <1>1, <2>2, <3>2, <3>3
    <2>4. CASE a < 0
      <3>1. v1 * v2 = m * b + a * b /\ v2 = b
        BY <1>3, <1>5, <2>4
      <3>2. ((v1 * v2) \div m) % m = W(High(v1, v2) + W(v2))
        BY <1>3, <1>4, <3>1
      <3>3. Lacks(2, v1, v2) = W(0) /\ Lacks(3, v1, v2) = W(v2)
        <4>1. v2 + 0 = v2
          BY <1>3
        <4> QED BY <1>2, <1>5, <2>4, <4>1
      <3> QED BY <1>1, <2>2, <3>2, <3>3
    <2> QED BY <2>3, <2>4
  <1>6. CASE b < 0
    <2>1. a * v2 = m * a + a * b
      BY <1>3, <1>6
    <2>2. v1 = a \/ v1 = a + m
      BY <1>3
    <2>3. ((a * v2) \div m) % m = W(High(v1, v2) + W(v1))
      BY <1>3, <1>4, <2>1, <2>2
    <2>4. CASE ~(a < 0)
      <3>1. v1 * v2 = m * a + a * b /\ v1 = a
        BY <1>3, <1>6, <2>4
      <3>2. ((v1 * v2) \div m) % m = W(High(v1, v2) + W(v1))
        BY <1>3, <1>4, <3>1
      <3>3. Lacks(2, v1, v2) = W(v1) /\ Lacks(3, v1, v2) = W(v1)
        <4>1. 0 + v1 = v1
          BY <1>3
        <4> QED BY <1>2, <1>6, <2>4, <4>1
      <3> QED BY <1>1, <2>3, <3>2, <3>3
    <2>5. CASE a < 0
      <3> DEFINE k == a + b + m
                 j == v2 + v1
      <3>1. v1 * v2 = m * k + a * b /\ j = k + m /\ k \in Int /\ j \in Int
        <4>1. v1 = a + m /\ v2 = b + m
          BY <1>3, <1>6, <2>5
        <4>2. (a + m) * (b + m) = m * (a + b + m) + a * b
          BY <1>3
        <4> QED BY <1>3, <4>1, <4>2
      <3> HIDE DEF k, j
      <3>2. ((v1 * v2) \div m) % m = W(High(v1, v2) + W(j))
        BY <1>4, <3>1
      <3>3. Lacks(2, v1, v2) = W(v1) /\ Lacks(3, v1, v2) = W(j)
        BY <1>2, <1>6, <2>5 DEF j
      <3> QED BY <1>1, <2>3, <3>2, <3>3
    <2> QED BY <2>4, <2>5
  <1> QED BY <1>5, <1>6

\* So they agree just where nothing is lacking.
LEMMA LacksNothing ==
    ASSUME NEW h \in Words, NEW l \in Words
    PROVE W(h + l) = h <=> l = 0
  <1> DEFINE m == WORD
             r == h + l
  <1>1. m \in Nat \ {0} /\ h \in Nat /\ h < m /\ l \in Nat /\ l < m
    BY InWords, Widths
  <1>2. W(h + l) = r % m
    BY DEF W
  <1> HIDE DEF m
  <1>3. CASE r < m
    <2>1. r \in Int /\ 0 <= r /\ m * 0 + r = r
      BY <1>1
    <2>2. (m * 0 + r) % m = r
      <3> HIDE DEF r
      <3> QED BY <1>1, <1>3, <2>1, DivUnique
    <2> QED BY <1>1, <1>2, <2>1, <2>2
  <1>4. CASE r >= m
    <2> DEFINE t == r - m
    <2>1. t \in Int /\ 0 <= t /\ t < m /\ m * 1 + t = r /\ t < h
      BY <1>1, <1>4
    <2>2. (m * 1 + t) % m = t
      <3> HIDE DEF t
      <3> QED BY <1>1, <2>1, DivUnique
    <2>3. W(h + l) = t /\ l # 0
      <3>1. l # 0
        BY <1>1, <1>4
      <3> QED BY <1>2, <2>1, <2>2, <3>1, Zenon
    <2> HIDE DEF t
    <2> QED BY <1>1, <2>1, <2>3
  <1> QED BY <1>1, <1>3, <1>4

\* The effects, as simulate() computes them
LEMMA Results ==
    ASSUME NEW v1 \in Words, NEW v2 \in Words
    PROVE /\ Machine!Result("add", v1, v2) = W(v1 + v2)
          /\ Machine!Result("sub", v1, v2) = W(v1 - v2)
          /\ Machine!Result("slt", v1, v2) = Flag(I32(v1) < I32(v2))
          /\ Machine!Result("sltu", v1, v2) = Flag(v1 < v2)
          /\ Machine!Result("and", v1, v2) = And(v1, v2)
          /\ Machine!Result("or", v1, v2) = Or(v1, v2)
          /\ Machine!Result("xor", v1, v2) = Xor(v1, v2)
          /\ Machine!Result("sll", v1, v2) = Shl(v1, v2)
          /\ Machine!Result("srl", v1, v2) = Shr(v1, v2)
          /\ Machine!Result("sra", v1, v2) = Sar(v1, v2)
          /\ Machine!Result("mul", v1, v2) = W(v1 * v2)
          /\ Machine!Result("mulh", v1, v2) = High(v1, v2)
          /\ v2 # 0 => /\ Machine!Result("div", v1, v2) = W(Quotient(I32(v1), I32(v2)))
                       /\ Machine!Result("rem", v1, v2) = W(Remainder(I32(v1), I32(v2)))
                       /\ Machine!Result("divu", v1, v2) = v1 \div v2
                       /\ Machine!Result("remu", v1, v2) = v1 % v2
  <1>0. Machine!WORD = WORD /\ Machine!Signed(v1) = I32(v1) /\ Machine!Signed(v2) = I32(v2)
    BY SameWords, SameSign
  <1>1. Machine!Result("add", v1, v2) = W(v1 + v2)
    BY <1>0 DEF Machine!Result, W
  <1>2. Machine!Result("sub", v1, v2) = W(v1 - v2)
    BY <1>0 DEF Machine!Result, W
  <1>3. Machine!Result("slt", v1, v2) = Flag(I32(v1) < I32(v2))
    BY <1>0 DEF Machine!Result, Machine!Truth, Flag
  <1>4. Machine!Result("sltu", v1, v2) = Flag(v1 < v2)
    BY <1>0 DEF Machine!Result, Machine!Truth, Flag
  <1>5. Machine!Result("and", v1, v2) = And(v1, v2)
    BY BitwiseRight DEF Machine!Result
  <1>6. Machine!Result("or", v1, v2) = Or(v1, v2)
    BY BitwiseRight DEF Machine!Result
  <1>7. Machine!Result("xor", v1, v2) = Xor(v1, v2)
    BY BitwiseRight DEF Machine!Result
  <1>8. Machine!Result("sll", v1, v2) = Shl(v1, v2)
    BY ShiftsRight DEF Machine!Result
  <1>9. Machine!Result("srl", v1, v2) = Shr(v1, v2)
    BY ShiftsRight DEF Machine!Result
  <1>10. Machine!Result("sra", v1, v2) = Sar(v1, v2)
    BY ShiftsRight DEF Machine!Result
  <1>11. Machine!Result("mul", v1, v2) = W(v1 * v2)
    BY <1>0 DEF Machine!Result, W
  <1>12. Machine!Result("mulh", v1, v2) = High(v1, v2)
    BY <1>0 DEF Machine!Result, High, W
  <1>13. ASSUME v2 # 0
         PROVE /\ Machine!Result("div", v1, v2) = W(Quotient(I32(v1), I32(v2)))
               /\ Machine!Result("rem", v1, v2) = W(Remainder(I32(v1), I32(v2)))
               /\ Machine!Result("divu", v1, v2) = v1 \div v2
               /\ Machine!Result("remu", v1, v2) = v1 % v2
    <2>1. Machine!Result("div", v1, v2) = Machine!DivRem(Machine!Signed(v1), Machine!Signed(v2))[1] % WORD
      BY <1>0 DEF Machine!Result
    <2>2. Machine!Result("rem", v1, v2) = Machine!DivRem(Machine!Signed(v1), Machine!Signed(v2))[2] % WORD
      BY <1>0 DEF Machine!Result
    <2>3. Machine!Result("divu", v1, v2) = Machine!DivRem(v1, v2)[1] % WORD
      BY <1>0 DEF Machine!Result
    <2>4. Machine!Result("remu", v1, v2) = Machine!DivRem(v1, v2)[2]
      BY DEF Machine!Result
    <2>5. /\ Machine!DivRem(Machine!Signed(v1), Machine!Signed(v2))[1] = Quotient(I32(v1), I32(v2))
          /\ Machine!DivRem(Machine!Signed(v1), Machine!Signed(v2))[2] = Remainder(I32(v1), I32(v2))
      BY <1>13, SignedDivision
    <2>6. Machine!DivRem(v1, v2)[1] = v1 \div v2 /\ Machine!DivRem(v1, v2)[2] = v1 % v2
      BY <1>13, UnsignedDivision
    <2>7. (v1 \div v2) % WORD = v1 \div v2
      <3>1. v2 \in Nat \ {0}
        BY <1>13, InWords
      <3>2. v1 \div v2 \in Words /\ 0 \in Words
        BY <3>1, DividedType, FlagWords
      <3> DEFINE k == v1 \div v2
      <3> HIDE DEF k
      <3>3. k \in Words
        BY <3>2 DEF k
      <3>4. W(k + 0) = k
        BY <3>2, <3>3, LacksNothing
      <3>5. k + 0 = k
        BY <3>3, IntWords
      <3> QED BY <3>4, <3>5 DEF k, W
    <2> QED BY <2>1, <2>2, <2>3, <2>4, <2>5, <2>6, <2>7, Zenon DEF W
  <1> QED BY <1>1, <1>2, <1>3, <1>4, <1>5, <1>6, <1>7, <1>8, <1>9, <1>10, <1>11, <1>12, <1>13

LEMMA RegisterResults ==
    ASSUME NEW f3, NEW f7, Coded(f3, f7), ~(f7 = 1 /\ f3 \in {2, 3}),
           NEW v1 \in Words, NEW v2 \in Words, f7 = 1 /\ f3 \in 4..7 => v2 # 0
    PROVE r_type(f3, f7, v1, v2) = Machine!Result(EncodedAs(f3, f7), v1, v2)
  <1>0. \/ f3 = 0 /\ f7 \in {0, 1, 32}
        \/ f3 = 1 /\ f7 \in {0, 1}
        \/ f3 = 2 /\ f7 = 0
        \/ f3 = 3 /\ f7 = 0
        \/ f3 = 4 /\ f7 \in {0, 1}
        \/ f3 = 5 /\ f7 \in {0, 1, 32}
        \/ f3 = 6 /\ f7 \in {0, 1}
        \/ f3 = 7 /\ f7 \in {0, 1}
    BY DEF Coded
  <1>1. CASE f3 = 0 /\ f7 \in {0, 1, 32}
    <2>1. r_type(f3, f7, v1, v2) = IF f7 = 32 THEN W(v1 - v2) ELSE IF f7 = 1 THEN W(v1 * v2) ELSE W(v1 + v2)
      BY <1>1 DEF r_type
    <2>2. EncodedAs(f3, f7) = IF f7 = 32 THEN "sub" ELSE IF f7 = 1 THEN "mul" ELSE "add"
      BY <1>1, Names
    <2> QED BY <2>1, <2>2, Results
  <1>2. CASE f3 = 1 /\ f7 \in {0, 1}
    BY <1>2, Names, Results DEF r_type
  <1>3. CASE f3 = 2 /\ f7 = 0
    BY <1>3, Names, Results DEF r_type
  <1>4. CASE f3 = 3 /\ f7 = 0
    BY <1>4, Names, Results DEF r_type
  <1>5. CASE f3 = 4 /\ f7 \in {0, 1}
    BY <1>5, Names, Results DEF r_type
  <1>6. CASE f3 = 5 /\ f7 \in {0, 1, 32}
    BY <1>6, Names, Results DEF r_type
  <1>7. CASE f3 = 6 /\ f7 \in {0, 1}
    BY <1>7, Names, Results DEF r_type
  <1>8. CASE f3 = 7 /\ f7 \in {0, 1}
    BY <1>8, Names, Results DEF r_type
  <1> QED BY <1>0, <1>1, <1>2, <1>3, <1>4, <1>5, <1>6, <1>7, <1>8

LEMMA ImmediateResults ==
    ASSUME NEW f3 \in 0..7, NEW f7, NEW v1 \in Words, NEW imm \in Words,
           f3 = 1 => f7 = 0, f3 = 5 => f7 \in {0, 32}
    PROVE i_type(f3, f7, v1, imm) = Machine!Result(EncodedAs(f3, IF f3 \in {1, 5} THEN f7 ELSE 0), v1, imm)
  <1>1. CASE f3 \in {0, 2, 3}
    BY <1>1, Names, Results DEF i_type
  <1>2. CASE f3 \in {4, 6, 7}
    BY <1>2, Names, Results DEF i_type
  <1>3. CASE f3 = 1
    BY <1>3, Names, Results DEF i_type
  <1>4. CASE f3 = 5 /\ f7 = 0
    <2>1. (f7 \div 32) % 2 = 0
      BY <1>4
    <2> QED BY <1>4, <2>1, Names, Results DEF i_type
  <1>5. CASE f3 = 5 /\ f7 = 32
    <2>1. (f7 \div 32) % 2 = 1
      BY <1>5
    <2> QED BY <1>5, <2>1, Names, Results DEF i_type
  <1> QED BY <1>1, <1>2, <1>3, <1>4, <1>5

ByteArray(m) == [a \in Words |-> memory_rd_b(m, a)]

\* What a turn does to the registers, the counter and the bytes
LEMMA SetRegs ==
    ASSUME CpuTypeOK, NEW rd \in REGS, NEW v, NEW w, WriteReg(rd, v), rd = 0 \/ v = w
    PROVE Machine!SetReg(rd, w)
  <1>1. regs \in [REGS -> Words] /\ regs[0] = 0 /\ 0 \in REGS
    BY CpuAssumption DEF CpuTypeOK
  <1>2. regs' = [regs EXCEPT ![rd] = v, ![0] = 0]
    BY DEF WriteReg
  <1>3. regs' = [regs EXCEPT ![rd] = IF rd = 0 THEN 0 ELSE w]
    BY <1>1, <1>2
  <1> QED BY <1>3 DEF Machine!SetReg

LEMMA KeepRegs ==
    ASSUME CpuTypeOK, WriteReg(0, 0)
    PROVE regs' = regs
  BY CpuAssumption DEF CpuTypeOK, WriteReg

LEMMA NextPc ==
    ASSUME Advance
    PROVE pc' = Machine!Next4
  BY SameWords DEF Advance, W, Machine!Next4

LEMMA KeepBytes ==
    ASSUME CpuTypeOK, mem' = Text \/ (\E addr \in Words : mem' = Touched(Text, addr))
    PROVE ByteArray(mem') = ByteArray(mem)
  <1>1. ASSUME NEW a \in Words PROVE memory_rd_b(mem', a) = memory_rd_b(mem, a)
    <2>1. Text \in Memories /\ memory_rd_b(Text, a) = memory_rd_b(mem, a)
      BY TextType, TextBytes
    <2>2. CASE mem' = Text
      BY <2>1, <2>2
    <2>3. ASSUME NEW addr \in Words, mem' = Touched(Text, addr)
          PROVE memory_rd_b(mem', a) = memory_rd_b(mem, a)
      BY <2>1, <2>3, TouchedByte
    <2> QED BY <2>2, <2>3
  <1> QED BY <1>1 DEF ByteArray

\* The head of every turn
Running(i) == status = "running" /\ pc % 4 = 0 /\ ir' = i

LEMMA Turn ==
    ASSUME NEW i, Fetch(i)
    PROVE Running(i)
  BY DEF Fetch, Running

\* A turn that goes on, and one that stops the program
LEMMA GoesOn ==
    ASSUME NEW i, Running(i), status' = "running",
           \/ Machine!Computes(i) \/ Machine!Builds(i) \/ Machine!Jumps(i) \/ Machine!Branches(i)
           \/ Machine!Loads(i) \/ Machine!Stores(i) \/ Machine!Calls(i)
           \/ (i.op \notin Machine!Known /\ pc' = Machine!Next4 /\ regs' = regs
               /\ ByteArray(mem') = ByteArray(mem) /\ out' = out)
    PROVE Machine!Next
  <1>1. ir' = i /\ pc % 4 = 0 /\ ~(status # "running") /\ (status # "running")' = (status # "running")
    BY DEF Running
  <1> QED BY <1>1 DEF Machine!Next, ByteArray

LEMMA Stops ==
    ASSUME status = "running", status' # "running",
           \/ ir'.op = "SYSTEM" /\ regs[A7] \in EXITS
           \/ Machine!MisalignedAccess(ir') \/ pc % 4 # 0,
           pc' = pc, regs' = regs, ByteArray(mem') = ByteArray(mem), out' = out
    PROVE Machine!Next
  <1>1. ~(status # "running") /\ (status # "running")' = TRUE
    OBVIOUS
  <1> QED BY <1>1 DEF Machine!Next, Machine!Stop, ByteArray

LEMMA TurnBuilds ==
    ASSUME CpuTypeOK, NEW i \in Instrs, Lui(i) \/ Auipc(i)
    PROVE Machine!Next
  <1>1. Fetch(i) /\ Advance /\ mem' = Text /\ Quietly /\ i.op \in {"LUI", "AUIPC"}
    BY DEF Lui, Auipc
  <1>2. WriteReg(i.rd, IF i.op = "LUI" THEN i.imm ELSE W(pc + i.imm)) /\ i.rd \in REGS
    BY InstrType DEF Lui, Auipc
  <1>3. Machine!SetReg(i.rd, IF i.op = "LUI" THEN i.imm ELSE W(pc + i.imm))
    BY <1>2, SetRegs
  <1>4. W(pc + i.imm) = (pc + i.imm) % Machine!WORD
    BY SameWords DEF W
  <1>5. pc' = Machine!Next4 /\ ByteArray(mem') = ByteArray(mem) /\ out' = out /\ status' = status
    BY <1>1, NextPc, KeepBytes DEF Quietly
  <1>6. Machine!Builds(i)
    BY <1>1, <1>3, <1>4, <1>5 DEF Machine!Builds, ByteArray
  <1>7. Running(i) /\ status' = "running"
    BY <1>1, <1>5, Turn DEF Running
  <1> QED BY <1>6, <1>7, GoesOn

LEMMA TurnJumps ==
    ASSUME CpuTypeOK, NEW i \in Instrs, Jal(i) \/ Jalr(i)
    PROVE Machine!Next
  <1>1. Fetch(i) /\ mem' = Text /\ Quietly /\ i.op \in {"JAL", "JALR"} /\ WriteReg(i.rd, W(pc + 4)) /\ i.rd \in REGS
    BY InstrType DEF Jal, Jalr
  <1>2. W(pc + 4) = Machine!Next4
    BY SameWords DEF W, Machine!Next4
  <1>3. Machine!SetReg(i.rd, Machine!Next4)
    BY <1>1, <1>2, SetRegs
  <1>4. ByteArray(mem') = ByteArray(mem) /\ out' = out /\ status' = status
    BY <1>1, KeepBytes DEF Quietly
  <1>5. pc' = IF i.op = "JAL" THEN (pc + i.imm) % Machine!WORD ELSE 2 * (Machine!Addr(i) \div 2)
    <2>1. CASE Jal(i)
      BY <2>1, SameWords DEF Jal, W
    <2>2. CASE Jalr(i)
      <3> DEFINE a == W(regs[i.rs1] + i.imm)
      <3>1. a \in Int
        BY AddressType, IntWords DEF AddressOf
      <3>2. pc' = (a \div 2) * 2 /\ i.op = "JALR" /\ Machine!Addr(i) = a
        BY <2>2, SameWords DEF Jalr, Machine!Addr, W
      <3> HIDE DEF a
      <3>3. (a \div 2) * 2 = 2 * (a \div 2)
        BY <3>1
      <3> QED BY <3>2, <3>3
    <2> QED BY <2>1, <2>2
  <1>6. Machine!Jumps(i)
    BY <1>1, <1>3, <1>4, <1>5 DEF Machine!Jumps, ByteArray
  <1>7. Running(i) /\ status' = "running"
    BY <1>1, <1>4, Turn DEF Running
  <1> QED BY <1>6, <1>7, GoesOn

LEMMA HoldsIs ==
    ASSUME NEW f3 \in 0..7, f3 \notin {2, 3}, NEW v1 \in Words, NEW v2 \in Words
    PROVE Machine!Holds(Machine!BranchNames[f3 + 1], v1, v2) <=> branch_taken(f3, v1, v2)
  <1>0. Machine!Signed(v1) = I32(v1) /\ Machine!Signed(v2) = I32(v2)
    BY SameSign
  <1>1. CASE f3 = 0
    <2>1. Machine!BranchNames[f3 + 1] = "beq"
      BY <1>1 DEF Machine!BranchNames
    <2> QED BY <1>1, <2>1 DEF Machine!Holds, branch_taken
  <1>2. CASE f3 = 1
    <2>1. Machine!BranchNames[f3 + 1] = "bne"
      BY <1>2 DEF Machine!BranchNames
    <2> QED BY <1>2, <2>1 DEF Machine!Holds, branch_taken
  <1>3. CASE f3 = 4
    <2>1. Machine!BranchNames[f3 + 1] = "blt"
      BY <1>3 DEF Machine!BranchNames
    <2> QED BY <1>0, <1>3, <2>1 DEF Machine!Holds, branch_taken
  <1>4. CASE f3 = 5
    <2>1. Machine!BranchNames[f3 + 1] = "bge"
      BY <1>4 DEF Machine!BranchNames
    <2> QED BY <1>0, <1>4, <2>1 DEF Machine!Holds, branch_taken
  <1>5. CASE f3 = 6
    <2>1. Machine!BranchNames[f3 + 1] = "bltu"
      BY <1>5 DEF Machine!BranchNames
    <2> QED BY <1>5, <2>1 DEF Machine!Holds, branch_taken
  <1>6. CASE f3 = 7
    <2>1. Machine!BranchNames[f3 + 1] = "bgeu"
      BY <1>6 DEF Machine!BranchNames
    <2> QED BY <1>6, <2>1 DEF Machine!Holds, branch_taken
  <1> QED BY <1>1, <1>2, <1>3, <1>4, <1>5, <1>6

LEMMA TurnBranches ==
    ASSUME CpuTypeOK, NEW i \in Instrs, Conforms(i), Branch(i)
    PROVE Machine!Next
  <1>1. Fetch(i) /\ mem' = Text /\ Quietly /\ i.op = "BRANCH" /\ WriteReg(0, 0)
    BY DEF Branch
  <1>2. regs[i.rs1] \in Words /\ regs[i.rs2] \in Words /\ i.f3 \in 0..7 /\ i.f3 \notin {2, 3}
    BY <1>1, InstrType DEF CpuTypeOK, Conforms
  <1>3. Machine!Holds(Machine!BranchNames[i.f3 + 1], regs[i.rs1], regs[i.rs2])
        <=> branch_taken(i.f3, regs[i.rs1], regs[i.rs2])
    BY <1>2, HoldsIs
  <1>4. pc' = IF branch_taken(i.f3, regs[i.rs1], regs[i.rs2]) THEN W(pc + i.imm) ELSE W(pc + 4)
    BY DEF Branch
  <1>5. W(pc + i.imm) = (pc + i.imm) % Machine!WORD /\ W(pc + 4) = Machine!Next4
    BY SameWords DEF W, Machine!Next4
  <1>6. ByteArray(mem') = ByteArray(mem) /\ out' = out /\ status' = status /\ regs' = regs
    BY <1>1, KeepBytes, KeepRegs DEF Quietly
  <1>7. Machine!Branches(i)
    BY <1>1, <1>3, <1>4, <1>5, <1>6 DEF Machine!Branches, ByteArray
  <1>8. Running(i) /\ status' = "running"
    BY <1>1, <1>6, Turn DEF Running
  <1> QED BY <1>7, <1>8, GoesOn

LEMMA NameOfIs ==
    ASSUME NEW i
    PROVE /\ i.op = "OP" => Machine!NameOf(i) = EncodedAs(i.f3, i.f7)
          /\ i.op = "OP-IMM" => Machine!NameOf(i) = EncodedAs(i.f3, IF i.f3 \in {1, 5} THEN i.f7 ELSE 0)
  BY DEF Machine!NameOf, EncodedAs

\* A result that the instruction set gives too, or that x0 throws away
LEMMA AluResults ==
    ASSUME CpuTypeOK, NEW i \in Instrs, Conforms(i), i.op = "OP", ~Traps(i), pc % 4 = 0
    PROVE LET computed == r_type(i.f3, i.f7, regs[i.rs1], regs[i.rs2])
              right == Machine!Result(Machine!NameOf(i), regs[i.rs1], regs[i.rs2])
          IN ~Departs(i) <=> i.rd = 0 \/ computed = right
  <1> DEFINE v1 == regs[i.rs1]
             v2 == regs[i.rs2]
             computed == r_type(i.f3, i.f7, v1, v2)
             right == Machine!Result(Machine!NameOf(i), v1, v2)
  <1>1. v1 \in Words /\ v2 \in Words /\ i.f3 \in 0..7
    BY InstrType DEF CpuTypeOK
  <1>2. Coded(i.f3, i.f7)
    BY ConformingCodes
  <1>3. Machine!NameOf(i) = EncodedAs(i.f3, i.f7)
    BY NameOfIs
  <1>4. i.f7 = 1 /\ i.f3 \in 4..7 => v2 # 0
    BY <1>1 DEF Traps
  <1>5. Departs(i) <=> i.f7 = 1 /\ i.f3 \in {2, 3} /\ i.rd # 0 /\ Lacks(i.f3, v1, v2) # 0
    BY DEF Departs
  <1> HIDE DEF v1, v2
  <1>6. CASE ~(i.f7 = 1 /\ i.f3 \in {2, 3})
    <2>1. computed = right
      BY <1>1, <1>2, <1>3, <1>4, <1>6, RegisterResults
    <2> QED BY <2>1, <1>5, <1>6 DEF v1, v2
  <1>7. CASE i.f7 = 1 /\ i.f3 \in {2, 3}
    <2>1. computed = High(v1, v2)
      BY <1>7 DEF r_type
    <2>2. right = W(High(v1, v2) + Lacks(i.f3, v1, v2))
      BY <1>1, <1>3, <1>7, Names, HighProducts
    <2>3. High(v1, v2) \in Words /\ Lacks(i.f3, v1, v2) \in Words
      <3>1. v1 \in Int /\ v2 \in Int
        BY <1>1, IntWords
      <3>2. (IF i.f3 = 3 /\ I32(v1) < 0 THEN v2 ELSE 0) + (IF I32(v2) < 0 THEN v1 ELSE 0) \in Int
        BY <3>1
      <3> QED BY <1>1, <3>2, HighType, WordType DEF Lacks
    <2> HIDE DEF computed, right
    <2>4. computed = right <=> Lacks(i.f3, v1, v2) = 0
      BY <2>1, <2>2, <2>3, LacksNothing
    <2> QED BY <2>4, <1>5, <1>7 DEF computed, right, v1, v2
  <1> QED BY <1>6, <1>7

LEMMA TurnComputes ==
    ASSUME CpuTypeOK, NEW i \in Instrs, Conforms(i), AluImm(i) \/ (Alu(i) /\ ~Departs(i))
    PROVE Machine!Next
  <1> DEFINE v1 == regs[i.rs1]
             v2 == IF i.op = "OP" THEN regs[i.rs2] ELSE i.imm
             r == Machine!Result(Machine!NameOf(i), v1, v2)
  <1>1. Fetch(i) /\ Advance /\ mem' = Text /\ Quietly
    BY DEF Alu, AluImm
  <1>2. v1 \in Words /\ regs[i.rs2] \in Words /\ i.imm \in Words /\ i.rd \in REGS /\ i.f3 \in 0..7
    BY InstrType DEF CpuTypeOK
  <1>3. Machine!SetReg(i.rd, r) /\ i.op \in {"OP", "OP-IMM"}
    <2>1. CASE Alu(i) /\ ~Departs(i)
      <3>1. i.op = "OP" /\ ~Traps(i) /\ WriteReg(i.rd, r_type(i.f3, i.f7, v1, regs[i.rs2])) /\ v2 = regs[i.rs2]
        BY <2>1 DEF Alu
      <3>2. pc % 4 = 0
        BY <1>1 DEF Fetch
      <3>3. i.rd = 0 \/ r_type(i.f3, i.f7, v1, regs[i.rs2]) = r
        BY <2>1, <3>1, <3>2, AluResults
      <3> HIDE DEF r
      <3>4. Machine!SetReg(i.rd, r)
        BY <1>2, <3>1, <3>3, SetRegs
      <3> QED BY <3>1, <3>4
    <2>2. CASE AluImm(i)
      <3>1. i.op = "OP-IMM" /\ WriteReg(i.rd, i_type(i.f3, i.f7, v1, i.imm)) /\ v2 = i.imm
        BY <2>2 DEF AluImm
      <3>2. (i.f3 = 1 => i.f7 = 0) /\ (i.f3 = 5 => i.f7 \in {0, 32})
        BY <3>1 DEF Conforms
      <3>4. i_type(i.f3, i.f7, v1, i.imm)
            = Machine!Result(EncodedAs(i.f3, IF i.f3 \in {1, 5} THEN i.f7 ELSE 0), v1, i.imm)
        <4> HIDE DEF v1
        <4> QED BY <1>2, <3>2, ImmediateResults
      <3>5. i_type(i.f3, i.f7, v1, i.imm) = r
        BY <3>1, <3>4, NameOfIs
      <3> HIDE DEF r
      <3>7. Machine!SetReg(i.rd, r)
        BY <1>2, <3>1, <3>5, SetRegs
      <3> QED BY <3>1, <3>7
    <2> QED BY <2>1, <2>2
  <1>4. pc' = Machine!Next4 /\ ByteArray(mem') = ByteArray(mem) /\ out' = out /\ status' = status
    BY <1>1, NextPc, KeepBytes DEF Quietly
  <1>5. Machine!Computes(i)
    BY <1>3, <1>4 DEF Machine!Computes, ByteArray
  <1>6. Running(i) /\ status' = "running"
    BY <1>1, <1>4, Turn DEF Running
  <1> QED BY <1>5, <1>6, GoesOn

\* A step of the instruction set that executes an instruction of opcode OP
LEMMA OnlyComputes ==
    ASSUME Machine!Next, ir'.op = "OP", pc % 4 = 0
    PROVE /\ status' = "running"
          /\ Machine!SetReg(ir'.rd, Machine!Result(Machine!NameOf(ir'), regs[ir'.rs1], regs[ir'.rs2]))
  <1>1. ~Machine!Stop(ir')
    BY DEF Machine!Stop, Machine!MisalignedAccess
  <1>2. /\ ~(status # "running") /\ (status' # "running") = (status # "running")
        /\ Machine!Computes(ir')
    BY <1>1 DEF Machine!Next, Machine!Builds, Machine!Jumps, Machine!Branches, Machine!Loads, Machine!Stores,
                Machine!Calls, Machine!Known
  <1> QED BY <1>2 DEF Machine!Computes

LEMMA TurnDeparts ==
    ASSUME CpuTypeOK, NEW i \in Instrs, Conforms(i), Alu(i) \/ Trap(i), Departs(i)
    PROVE ~Machine!Next
  <1>1. i.op = "OP" /\ ir' = i /\ pc % 4 = 0
    BY DEF Alu, Trap, Fetch
  <1>2. CASE Trap(i)
    <2>1. status' # "running"
      BY <1>2 DEF Trap
    <2> QED BY <2>1, <1>1, OnlyComputes
  <1>3. CASE Alu(i)
    <2> DEFINE computed == r_type(i.f3, i.f7, regs[i.rs1], regs[i.rs2])
               right == Machine!Result(Machine!NameOf(i), regs[i.rs1], regs[i.rs2])
    <2>1. ~Traps(i) /\ WriteReg(i.rd, computed)
      BY <1>3 DEF Alu
    <2>2. i.rd # 0 /\ computed # right
      BY <1>1, <2>1, AluResults
    <2> HIDE DEF computed, right
    <2>3. i.rd \in REGS /\ regs \in [REGS -> Words]
      BY InstrType DEF CpuTypeOK
    <2>4. regs'[i.rd] = computed
      BY <2>1, <2>2, <2>3 DEF WriteReg
    <2>5. Machine!SetReg(i.rd, right) => regs'[i.rd] = right
      BY <2>2, <2>3 DEF Machine!SetReg
    <2>6. Machine!Next => Machine!SetReg(i.rd, right)
      BY <1>1, OnlyComputes DEF right
    <2> QED BY <2>2, <2>4, <2>5, <2>6
  <1> QED BY <1>2, <1>3

\* Loads and stores: the address, its alignment and the bytes
LEMMA SameAddress ==
    ASSUME NEW i
    PROVE Machine!Addr(i) = AddressOf(i)
  BY SameWords DEF Machine!Addr, AddressOf, W

LEMMA WidthIs ==
    /\ Machine!Width(0) = 1 /\ Machine!Width(1) = 2 /\ Machine!Width(2) = 4
    /\ Machine!Width(4) = 1 /\ Machine!Width(5) = 2
  <1>1. 0 % 4 = 0 /\ 1 % 4 = 1 /\ 2 % 4 = 2 /\ 4 % 4 = 0 /\ 5 % 4 = 1
    OBVIOUS
  <1> DEFINE s == <<1, 2, 4, 8>>
  <1>2. s[0 + 1] = 1 /\ s[1 + 1] = 2 /\ s[2 + 1] = 4
    OBVIOUS
  <1>3. \A f3 : Machine!Width(f3) = s[(f3 % 4) + 1]
    BY DEF Machine!Width
  <1> HIDE DEF s
  <1> QED BY <1>1, <1>2, <1>3

LEMMA SameAlignment ==
    ASSUME CpuTypeOK, NEW i \in Instrs, Conforms(i), i.op \in {"LOAD", "STORE"}
    PROVE Machine!MisalignedAccess(i) <=> Unaligned(i.f3, AddressOf(i))
  <1>1. i.f3 \in {0, 1, 2, 4, 5}
    BY DEF Conforms
  <1>2. AddressOf(i) \in Int /\ AddressOf(i) % 1 = 0
    BY AddressType, IntWords
  <1>3. Machine!MisalignedAccess(i) <=> AddressOf(i) % Machine!Width(i.f3) # 0
    BY SameAddress DEF Machine!MisalignedAccess
  <1>4. CASE i.f3 \in {0, 4}
    BY <1>2, <1>3, <1>4, WidthIs DEF Unaligned
  <1>5. CASE i.f3 \in {1, 5}
    BY <1>3, <1>5, WidthIs DEF Unaligned
  <1>6. CASE i.f3 = 2
    BY <1>3, <1>6, WidthIs DEF Unaligned
  <1> QED BY <1>1, <1>4, <1>5, <1>6

LEMMA WeightsAre ==
    /\ Machine!Weights[0 + 1] = Weight(0) /\ Machine!Weights[1 + 1] = Weight(1)
    /\ Machine!Weights[2 + 1] = Weight(2) /\ Machine!Weights[3 + 1] = Weight(3)
    /\ Machine!Weights[1 + 1] = BYTE /\ Machine!Weights[2 + 1] = HALF
  <1> DEFINE h == BYTE * BYTE
             t == h * BYTE
             s == <<1, BYTE, h, t>>
  <1>1. Machine!Weights = s
    BY DEF Machine!Weights, Machine!HALF
  <1>2. Weight(0) = 1 /\ Weight(1) = BYTE /\ Weight(2) = h /\ Weight(3) = t /\ HALF = h
    BY FourWeights DEF HALF
  <1> HIDE DEF h, t
  <1>3. s[0 + 1] = 1 /\ s[1 + 1] = BYTE /\ s[2 + 1] = h /\ s[3 + 1] = t
    OBVIOUS
  <1> HIDE DEF s
  <1> QED BY <1>1, <1>2, <1>3

LEMMA DigitIs ==
    ASSUME NEW v, NEW k \in 0..3
    PROVE Machine!Digit(v, k) = ByteOf(v, k)
  <1>1. k = 0 \/ k = 1 \/ k = 2 \/ k = 3
    OBVIOUS
  <1>2. Machine!Weights[k + 1] = Weight(k)
    BY <1>1, WeightsAre
  <1> QED BY <1>2, Zenon DEF Machine!Digit, ByteOf

LEMMA WrapsNot ==
    ASSUME NEW v \in Words
    PROVE v % WORD = v /\ (v - WORD) % WORD = v
  <1> DEFINE m == WORD
  <1>1. m \in Nat \ {0} /\ v \in Int /\ 0 <= v /\ v < m
    BY Widths, InWords
  <1> HIDE DEF m
  <1>2. (m * 0 + v) % m = v /\ (m * (-1) + v) % m = v
    <2>1. 0 \in Int /\ -1 \in Int
      OBVIOUS
    <2>2. (m * 0 + v) % m = v
      BY <1>1, <2>1, DivUnique
    <2> DEFINE u == -1
    <2>3. u \in Int
      OBVIOUS
    <2> HIDE DEF u
    <2>4. (m * u + v) % m = v
      BY <1>1, <2>3, DivUnique
    <2> QED BY <2>2, <2>4 DEF u
  <1>3. m * 0 + v = v /\ m * (-1) + v = v - m
    BY <1>1
  <1>4. v % m = v /\ (v - m) % m = v
    BY <1>2, <1>3, Zenon
  <1> QED BY <1>4 DEF m

LEMMA TurnLoads ==
    ASSUME CpuTypeOK, NEW i \in Instrs, Conforms(i), Load(i)
    PROVE Machine!Next
  <1> DEFINE addr == AddressOf(i)
             b == memory_rd_b(mem, addr)
             h == memory_rd_h(mem, addr)
             w == memory_rd_w(mem, addr)
             sb == IF b >= BYTE \div 2 THEN W(b - BYTE) ELSE b
             sh == IF h >= HALF \div 2 THEN W(h - HALF) ELSE h
             v == CASE i.f3 = 0 -> sb [] i.f3 = 4 -> b [] i.f3 = 1 -> sh [] i.f3 = 5 -> h
                    [] i.f3 = 2 -> w [] OTHER -> regs[i.rd]
             B == ByteArray(mem)
             V == Machine!At(B, addr, Machine!Width(i.f3))
             R == IF i.f3 < 4 THEN Machine!Extended(V, Machine!Width(i.f3)) ELSE V
  <1>1. Fetch(i) /\ Advance /\ Quietly /\ i.op = "LOAD" /\ ~Unaligned(i.f3, addr) /\ WriteReg(i.rd, v)
    BY DEF Load, AddressOf
  <1>2. mem' = Text \/ mem' = Touched(Text, addr)
    BY DEF Load, AddressOf
  <1>3. addr \in Words /\ mem \in Memories /\ i.rd \in REGS /\ i.f3 \in {0, 1, 2, 4, 5}
    BY <1>1, AddressType, InstrType DEF CpuTypeOK, Conforms
  <1>4. \A a \in Words : B[a] = memory_rd_b(mem, a)
    BY DEF ByteArray
  <1>5. addr \in Int /\ addr + 0 = addr /\ addr % WORD = addr
    BY <1>3, IntWords, WrapsNot
  <1>6. /\ \A x, y : Machine!At(x, y, 1) = x[(y + 0) % Machine!WORD]
        /\ \A x, y : Machine!At(x, y, 2) = BYTE * x[(y + 1) % Machine!WORD] + x[(y + 0) % Machine!WORD]
        /\ \A x, y : Machine!At(x, y, 4) = WordOf(x[(y + 0) % Machine!WORD], x[(y + 1) % Machine!WORD],
                                                  x[(y + 2) % Machine!WORD], x[(y + 3) % Machine!WORD])
    BY DEF Machine!At, WordOf
  <1>7. /\ Machine!At(B, addr, 1) = b
        /\ i.f3 \in {1, 5} => Machine!At(B, addr, 2) = h
        /\ i.f3 = 2 => Machine!At(B, addr, 4) = w
    <2> HIDE DEF B, addr
    <2>1. Machine!WORD = WORD /\ B[(addr + 0) % Machine!WORD] = b
      BY <1>3, <1>4, <1>5, SameWords
    <2>2. ASSUME i.f3 \in {1, 5} PROVE Machine!At(B, addr, 2) = h
      <3>1. addr % 2 = 0 /\ addr + 1 \in Words
        BY <1>1, <1>3, <2>2, Aligned DEF Unaligned
      <3>2. B[(addr + 1) % Machine!WORD] = memory_rd_b(mem, addr + 1)
        BY <1>4, <2>1, <3>1, WrapsNot
      <3>3. h = BYTE * memory_rd_b(mem, addr + 1) + b
        BY <1>3, <3>1, HalfRead
      <3>4. Machine!At(B, addr, 2) = BYTE * B[(addr + 1) % Machine!WORD] + B[(addr + 0) % Machine!WORD]
        BY <1>6, Zenon
      <3> QED BY <2>1, <3>2, <3>3, <3>4, Zenon
    <2>3. ASSUME i.f3 = 2 PROVE Machine!At(B, addr, 4) = w
      <3>1. addr % 4 = 0 /\ addr + 1 \in Words /\ addr + 2 \in Words /\ addr + 3 \in Words
        BY <1>1, <1>3, <2>3, Aligned DEF Unaligned
      <3>2. /\ B[(addr + 1) % Machine!WORD] = memory_rd_b(mem, addr + 1)
            /\ B[(addr + 2) % Machine!WORD] = memory_rd_b(mem, addr + 2)
            /\ B[(addr + 3) % Machine!WORD] = memory_rd_b(mem, addr + 3)
        BY <1>4, <2>1, <3>1, WrapsNot
      <3>3. w = WordOf(b, memory_rd_b(mem, addr + 1), memory_rd_b(mem, addr + 2), memory_rd_b(mem, addr + 3))
        BY <1>3, <3>1, WordRead
      <3>4. Machine!At(B, addr, 4) = WordOf(B[(addr + 0) % Machine!WORD], B[(addr + 1) % Machine!WORD],
                                            B[(addr + 2) % Machine!WORD], B[(addr + 3) % Machine!WORD])
        BY <1>6, Zenon
      <3> QED BY <2>1, <3>2, <3>3, <3>4, Zenon
    <2>4. Machine!At(B, addr, 1) = b
      BY <1>6, <2>1, Zenon
    <2> QED BY <2>2, <2>3, <2>4
  <1>8. b \in 0..BYTE - 1 /\ h \in 0..HALF - 1 /\ w \in Words /\ BYTE \in Nat /\ HALF \in Nat
    BY <1>3, ReadTypes, Widths
  <1> HIDE DEF b, h, w, B, addr
  <1>e. /\ \A x : Machine!Extended(x, 1) = IF x < BYTE \div 2 THEN x ELSE (x - BYTE) % WORD
        /\ \A x : Machine!Extended(x, 2) = IF x < HALF \div 2 THEN x ELSE (x - HALF) % WORD
        /\ \A x : Machine!Extended(x, 4) = IF x < WORD \div 2 THEN x ELSE (x - WORD) % WORD
    BY WeightsAre, SameWords DEF Machine!Extended
  <1>9. Machine!Extended(b, 1) = sb
    <2>1. b \in Int /\ BYTE \div 2 \in Int
      BY <1>8
    <2>2. b < BYTE \div 2 <=> ~(b >= BYTE \div 2)
      BY <2>1
    <2> QED BY <1>e, <2>2 DEF W
  <1>10. Machine!Extended(h, 2) = sh
    <2>1. h \in Int /\ HALF \div 2 \in Int
      BY <1>8
    <2>2. h < HALF \div 2 <=> ~(h >= HALF \div 2)
      BY <2>1
    <2> QED BY <1>e, <2>2 DEF W
  <1>11. Machine!Extended(w, 4) = w
    BY <1>e, <1>8, WrapsNot
  <1> HIDE DEF sb, sh
  <1>12. v = R
    <2>1. CASE i.f3 = 0
      BY <2>1, <1>7, <1>9, WidthIs
    <2>2. CASE i.f3 = 1
      BY <2>2, <1>7, <1>10, WidthIs
    <2>3. CASE i.f3 = 2
      BY <2>3, <1>7, <1>11, WidthIs
    <2>4. CASE i.f3 = 4
      BY <2>4, <1>7, WidthIs
    <2>5. CASE i.f3 = 5
      BY <2>5, <1>7, WidthIs
    <2> QED BY <1>3, <2>1, <2>2, <2>3, <2>4, <2>5
  <1> HIDE DEF v
  <1>13. Machine!SetReg(i.rd, R)
    <2> HIDE DEF R
    <2> QED BY <1>1, <1>3, <1>12, SetRegs
  <1>14. pc' = Machine!Next4 /\ ByteArray(mem') = ByteArray(mem) /\ out' = out /\ status' = status
    BY <1>1, <1>2, <1>3, NextPc, KeepBytes DEF Quietly
  <1>15. ~Machine!MisalignedAccess(i)
    BY <1>1, SameAlignment DEF addr
  <1>16. Machine!Loads(i)
    <2>1. Machine!Addr(i) = addr
      BY SameAddress DEF addr
    <2> QED BY <1>1, <1>13, <1>14, <1>15, <2>1 DEF Machine!Loads, B, ByteArray
  <1>17. Running(i) /\ status' = "running"
    BY <1>1, <1>14, Turn DEF Running
  <1> QED BY <1>16, <1>17, GoesOn

\* The bytes within a store's width, also where addresses wrap
LEMMA Within ==
    ASSUME NEW addr \in Words, NEW a \in Words, NEW n \in {1, 2, 4}, addr + n - 1 \in Words
    PROVE /\ (a - addr) % WORD < n <=> a \in addr..addr + n - 1
          /\ a \in addr..addr + n - 1 => (a - addr) % WORD = a - addr /\ a - addr \in 0..3
  <1> DEFINE m == WORD
             d == (a - addr) % m
  <1>1. m \in Nat \ {0} /\ addr \in Nat /\ addr < m /\ a \in Nat /\ a < m /\ n \in Nat /\ addr + n - 1 < m
    BY Widths, InWords
  <1> HIDE DEF m
  <1>2. CASE a >= addr
    <2>1. d = a - addr
      <3>1. (m * 0 + (a - addr)) % m = a - addr
        <4>1. 0 \in Int /\ a - addr \in Int /\ 0 <= a - addr /\ a - addr < m
          BY <1>1, <1>2
        <4> QED BY <1>1, <4>1, DivUnique
      <3>2. m * 0 + (a - addr) = a - addr
        BY <1>1
      <3> QED BY <3>1, <3>2
    <2> HIDE DEF d
    <2>2. (d < n <=> a \in addr..addr + n - 1) /\ (a \in addr..addr + n - 1 => d = a - addr /\ a - addr \in 0..3)
      BY <1>1, <1>2, <2>1
    <2> QED BY <2>2 DEF d, m
  <1>3. CASE a < addr
    <2>1. d = (a - addr) + m
      <3> DEFINE u == -1
                 r == (a - addr) + m
      <3>1. u \in Int /\ r \in Int /\ 0 <= r /\ r < m /\ m * u + r = a - addr
        BY <1>1, <1>3
      <3> HIDE DEF u, r
      <3>2. (m * u + r) % m = r
        BY <1>1, <3>1, DivUnique
      <3> QED BY <3>1, <3>2, Zenon DEF r
    <2> HIDE DEF d
    <2>2. ~(d < n) /\ ~(a \in addr..addr + n - 1)
      BY <1>1, <1>3, <2>1
    <2> QED BY <2>2 DEF d, m
  <1> QED BY <1>1, <1>2, <1>3

LEMMA TurnStores ==
    ASSUME CpuTypeOK, NEW i \in Instrs, Conforms(i), Store(i)
    PROVE Machine!Next
  <1> DEFINE addr == AddressOf(i)
             n == Machine!Width(i.f3)
             v2 == regs[i.rs2]
  <1>1. Fetch(i) /\ Advance /\ Quietly /\ i.op = "STORE" /\ ~Unaligned(i.f3, addr) /\ WriteReg(0, 0)
    BY DEF Store, AddressOf
  <1>2. addr \in Words /\ i.f3 \in {0, 1, 2}
    BY <1>1, AddressType DEF Conforms
  <1>3. n \in {1, 2, 4} /\ StoreSize(i.f3) = n /\ addr + n - 1 \in Words
    <2>0. addr \in Int
      BY <1>2, IntWords
    <2>1. CASE i.f3 = 0
      <3>1. n = 1 /\ StoreSize(i.f3) = 1 /\ addr + 1 - 1 = addr
        BY <2>0, <2>1, WidthIs DEF StoreSize
      <3> QED BY <1>2, <3>1
    <2>2. CASE i.f3 = 1
      <3>1. n = 2 /\ StoreSize(i.f3) = 2 /\ addr + 2 - 1 = addr + 1
        BY <2>0, <2>2, WidthIs DEF StoreSize
      <3>2. addr + 1 \in Words
        BY <1>1, <1>2, <2>2, Aligned DEF Unaligned
      <3> QED BY <3>1, <3>2
    <2>3. CASE i.f3 = 2
      <3>1. n = 4 /\ StoreSize(i.f3) = 4 /\ addr + 4 - 1 = addr + 3
        BY <2>0, <2>3, WidthIs DEF StoreSize
      <3>2. addr + 3 \in Words
        BY <1>1, <1>2, <2>3, Aligned DEF Unaligned
      <3> QED BY <3>1, <3>2
    <2> QED BY <1>2, <2>1, <2>2, <2>3
  <1>4. pc' = Machine!Next4 /\ out' = out /\ status' = status /\ regs' = regs /\ ir' = i /\ status' = "running"
    BY <1>1, NextPc, KeepRegs DEF Quietly, Fetch
  <1>5. ~Machine!MisalignedAccess(i) /\ Machine!Addr(i) = addr /\ Machine!WORD = WORD /\ Machine!Words = Words
    BY <1>1, SameAlignment, SameAddress, SameWords
  <1>6. \A a \in Words : memory_rd_b(mem', a) = IF a \in addr..addr + n - 1 THEN ByteOf(v2, a - addr)
                                                ELSE memory_rd_b(mem, a)
    <2>1. BytesStored
      BY StoreBytes
    <2>2. \A a : Covers(i, a) <=> a \in addr..addr + n - 1
      BY <1>1, <1>3 DEF Covers
    <2> QED BY <1>4, <2>1, <2>2 DEF BytesStored
  <1> HIDE DEF addr, n, v2
  <1>7. ASSUME NEW a \in Words
        PROVE memory_rd_b(mem', a) = IF (a - addr) % WORD < n THEN Machine!Digit(v2, (a - addr) % WORD)
                                     ELSE ByteArray(mem)[a]
    <2>1. /\ (a - addr) % WORD < n <=> a \in addr..addr + n - 1
          /\ a \in addr..addr + n - 1 => (a - addr) % WORD = a - addr /\ a - addr \in 0..3
      BY <1>2, <1>3, Within
    <2>2. ByteArray(mem)[a] = memory_rd_b(mem, a)
      BY DEF ByteArray
    <2>3. a - addr \in 0..3 => Machine!Digit(v2, a - addr) = ByteOf(v2, a - addr)
      BY DigitIs
    <2>4. CASE a \in addr..addr + n - 1
      BY <1>6, <2>1, <2>3, <2>4
    <2>5. CASE ~(a \in addr..addr + n - 1)
      BY <1>6, <2>1, <2>2, <2>5
    <2> QED BY <2>4, <2>5
  <1>8. ByteArray(mem') = [a \in Words |-> IF (a - addr) % WORD < n THEN Machine!Digit(v2, (a - addr) % WORD)
                                           ELSE ByteArray(mem)[a]]
    BY <1>7 DEF ByteArray
  <1>9. Machine!Stores(i)
    BY <1>1, <1>4, <1>5, <1>8 DEF Machine!Stores, ByteArray, n, v2
  <1>10. Running(i)
    BY <1>1, Turn
  <1> QED BY <1>4, <1>9, <1>10, GoesOn

LEMMA TurnStops ==
    ASSUME CpuTypeOK, NEW i \in Instrs, Conforms(i), UnalignedAccess(i) \/ EcallExit(i)
    PROVE Machine!Next
  <1>1. Fetch(i) /\ status' # "running" /\ pc' = pc /\ regs' = regs /\ out' = out
    BY DEF UnalignedAccess, EcallExit
  <1>2. status = "running" /\ ir' = i
    BY <1>1 DEF Fetch
  <1>3. ByteArray(mem') = ByteArray(mem)
    <2>1. AddressOf(i) \in Words
      BY AddressType
    <2>2. mem' = Text \/ mem' = Touched(Text, AddressOf(i))
      BY DEF UnalignedAccess, EcallExit, AddressOf
    <2> QED BY <2>1, <2>2, KeepBytes
  <1>4. \/ i.op = "SYSTEM" /\ regs[A7] \in EXITS
        \/ Machine!MisalignedAccess(i)
    <2>1. CASE UnalignedAccess(i)
      <3>1. i.op \in {"LOAD", "STORE"} /\ Unaligned(i.f3, AddressOf(i))
        BY <2>1 DEF UnalignedAccess, AddressOf
      <3> QED BY <3>1, SameAlignment
    <2>3. CASE EcallExit(i)
      BY <2>3 DEF EcallExit
    <2> QED BY <2>1, <2>3
  <1> QED BY <1>1, <1>2, <1>3, <1>4, Stops

LEMMA TurnCalls ==
    ASSUME CpuTypeOK, NEW i \in Instrs, Ecall(i)
    PROVE Machine!Next
  <1>1. Fetch(i) /\ Advance /\ mem' = Text /\ status' = status /\ i.op = "SYSTEM" /\ regs[A7] \notin EXITS
    BY DEF Ecall
  <1>2. out' = IF regs[A7] = 2 THEN Append(out, regs[A0] % BYTE) ELSE out
    BY DEF Ecall
  <1>3. A0 \in REGS
    BY CpuAssumption
  <1>4. IF regs[A7] = 1 THEN \E c \in 0..BYTE - 1 \cup {Machine!WORD - 1} : Machine!SetReg(A0, c) ELSE regs' = regs
    <2>1. CASE regs[A7] = 1
      <3>1. PICK c \in 0..BYTE - 1 \cup {WORD - 1} : WriteReg(A0, c)
        BY <2>1 DEF Ecall
      <3>2. Machine!SetReg(A0, c)
        BY <1>3, <3>1, SetRegs
      <3> QED BY <2>1, <3>1, <3>2, SameWords
    <2>2. CASE regs[A7] # 1
      BY <2>2, KeepRegs DEF Ecall
    <2> QED BY <2>1, <2>2
  <1>5. pc' = Machine!Next4 /\ ByteArray(mem') = ByteArray(mem)
    BY <1>1, NextPc, KeepBytes
  <1>6. Machine!Calls(i)
    BY <1>1, <1>2, <1>4, <1>5 DEF Machine!Calls, ByteArray
  <1>7. Running(i) /\ status' = "running"
    BY <1>1, Turn DEF Running
  <1> QED BY <1>6, <1>7, GoesOn

LEMMA TurnUnknown ==
    ASSUME CpuTypeOK, NEW i \in Instrs, Unknown(i)
    PROVE Machine!Next
  <1>1. Fetch(i) /\ Advance /\ mem' = Text /\ Quietly /\ WriteReg(0, 0) /\ i.op \notin Machine!Known
    BY DEF Unknown, Machine!Known
  <1>2. pc' = Machine!Next4 /\ ByteArray(mem') = ByteArray(mem) /\ out' = out /\ status' = status /\ regs' = regs
    BY <1>1, NextPc, KeepBytes, KeepRegs DEF Quietly
  <1>3. Running(i) /\ status' = "running"
    BY <1>1, <1>2, Turn DEF Running
  <1> QED BY <1>1, <1>2, <1>3, GoesOn

LEMMA TurnUnaligned ==
    ASSUME CpuTypeOK, FetchUnaligned
    PROVE Machine!Next
  <1>1. status = "running" /\ status' # "running" /\ pc % 4 # 0 /\ mem' = Text /\ pc' = pc /\ regs' = regs /\ out' = out
    BY DEF FetchUnaligned
  <1>2. ByteArray(mem') = ByteArray(mem)
    BY <1>1, KeepBytes
  <1> QED BY <1>1, <1>2, Stops

LEMMA TurnsOfIsa ==
    ASSUME \A i \in Instrs : Conforms(i), CpuInv, Next
    PROVE Machine!Next <=> ~Departs(ir')
  <1>0. CpuTypeOK
    BY DEF CpuInv
  <1>1. CASE FetchUnaligned
    <2>1. ~Departs(ir')
      BY <1>1 DEF FetchUnaligned, Departs
    <2> QED BY <2>1, <1>0, <1>1, TurnUnaligned
  <1>2. ASSUME NEW i \in Instrs,
               \/ Lui(i) \/ Auipc(i) \/ Jal(i) \/ Jalr(i) \/ Branch(i)
               \/ Load(i) \/ Store(i) \/ UnalignedAccess(i)
               \/ AluImm(i) \/ Ecall(i) \/ EcallExit(i) \/ Unknown(i)
        PROVE Machine!Next /\ ~Departs(ir')
    <2>1. Machine!Next
      BY <1>0, <1>2, TurnBuilds, TurnJumps, TurnBranches, TurnLoads, TurnStores, TurnStops, TurnComputes, TurnCalls, TurnUnknown
    <2>2. ir' = i /\ i.op # "OP"
      BY <1>2 DEF Lui, Auipc, Jal, Jalr, Branch, Load, Store, UnalignedAccess, AluImm, Ecall, EcallExit, Unknown, Fetch
    <2> QED BY <2>1, <2>2 DEF Departs
  <1>3. ASSUME NEW i \in Instrs, Alu(i) \/ Trap(i) PROVE Machine!Next <=> ~Departs(ir')
    <2>1. ir' = i
      BY <1>3 DEF Alu, Trap, Fetch
    <2>2. Trap(i) => Departs(i)
      BY DEF Trap, Fetch, Departs, Traps
    <2> QED BY <1>0, <1>3, <2>1, <2>2, TurnComputes, TurnDeparts
  <1> QED BY <1>1, <1>2, <1>3 DEF Next

\* Every turn of simulate() is a step of the instruction set, unless it is one
\* of the cases of Departs, and then it is none: the step half of ImplementsIsa,
\* for words of any width, any registers, any memory and any text of RV32I and
\* RV32M.  The cases are the divisions that trap and the high products of an
\* unsigned operand that differ from that of the signed ones.
THEOREM FollowsIsa ==
    ASSUME \A i \in Instrs : Conforms(i)
    PROVE Spec => [][Machine!Next <=> ~Departs(ir')]_vars
  <1>1. CpuInv /\ [Next]_vars => [Machine!Next <=> ~Departs(ir')]_vars
    BY TurnsOfIsa
  <1> QED BY <1>1, CpuInitInv, CpuNextInv, PTL DEF Spec

-----------------------------------------------------------------------------
(* The program and its arguments, as loaded *)

\* The first j items of data are at the address at, all other bytes as they were.
Copied(new, old, at, data, j) ==
    \A a \in Words : memory_rd_b(new, a) = IF a \in at..at + j - 1 THEN data[a - at + 1] ELSE memory_rd_b(old, a)

LEMMA SmallByte ==
    ASSUME NEW b \in 0..BYTE - 1
    PROVE b \in Words /\ ByteOf(b, 0) = b
  <1>1. BYTE \in Nat /\ HALF \in Nat /\ WORD \in Nat /\ BYTE <= HALF /\ HALF <= WORD /\ BYTE # 0
    BY Widths
  <1>2. b \in Nat /\ b < WORD /\ b \div 1 = b /\ b % BYTE = b
    <2>1. b \in Nat /\ b < BYTE
      BY <1>1
    <2> DEFINE m == WORD
               h == HALF
    <2>2. m \in Nat /\ h \in Nat /\ BYTE <= h /\ h <= m
      BY <1>1
    <2> HIDE DEF m, h
    <2>3. b < m
      BY <2>1, <2>2, <1>1
    <2>4. b \div 1 = b /\ b % BYTE = b
      BY <2>1, <1>1
    <2> QED BY <2>1, <2>3, <2>4 DEF m
  <1>3. ByteOf(b, 0) = b % BYTE
    BY <1>2, FourWeights, Zenon DEF ByteOf
  <1> QED BY <1>2, <1>3, InWords

LEMMA CopyNone ==
    ASSUME NEW m, NEW at \in Int, NEW data
    PROVE Copied(m, m, at, data, 0)
  <1>1. at..at + 0 - 1 = {}
    OBVIOUS
  <1> QED BY <1>1 DEF Copied

LEMMA CopyStep ==
    ASSUME NEW old, NEW new \in Memories, NEW at \in Words, NEW data \in Seq(0..BYTE - 1),
           NEW j \in Nat, j < Len(data), at + Len(data) <= WORD, Copied(new, old, at, data, j)
    PROVE Copied(memory_wr_b(new, W(at + j), data[j + 1]), old, at, data, j + 1)
  <1> DEFINE b == data[j + 1]
             addr == at + j
  <1>1. WORD \in Nat /\ at \in Nat /\ at < WORD /\ Len(data) \in Nat
    BY Widths, InWords
  <1>2. addr \in Nat /\ addr < WORD
    <2> DEFINE m == WORD
    <2>1. m \in Nat /\ at + Len(data) <= m
      BY <1>1
    <2> HIDE DEF m
    <2>2. addr \in Nat /\ addr < m
      BY <1>1, <2>1
    <2> QED BY <2>2 DEF m
  <1>3. addr \in Words /\ W(addr) = addr
    BY <1>2, InWords, WrapsNot DEF W
  <1>4. b \in 0..BYTE - 1
    <2>1. j + 1 \in 1..Len(data)
      BY <1>1
    <2> QED BY <2>1, ElementOfSeq
  <1>5. b \in Words /\ ByteOf(b, 0) = b
    BY <1>4, SmallByte
  <1> HIDE DEF b
  <1> SUFFICES ASSUME NEW a \in Words
               PROVE memory_rd_b(memory_wr_b(new, addr, b), a)
                     = IF a \in at..at + (j + 1) - 1 THEN data[a - at + 1] ELSE memory_rd_b(old, a)
    BY <1>3 DEF Copied, b
  <1>6. memory_rd_b(memory_wr_b(new, addr, b), a) = IF a = addr THEN b ELSE memory_rd_b(new, a)
    BY <1>3, <1>5, ByteStored
  <1>7. memory_rd_b(new, a) = IF a \in at..at + j - 1 THEN data[a - at + 1] ELSE memory_rd_b(old, a)
    BY DEF Copied
  <1>8. a \in Int
    BY InWords
  <1>9. a \in at..at + (j + 1) - 1 <=> a = addr \/ a \in at..at + j - 1
    BY <1>1, <1>8
  <1>10. a = addr => a - at + 1 = j + 1
    BY <1>1, <1>8
  <1>11. CASE a = addr
    <2>1. data[a - at + 1] = b
      BY <1>10, <1>11 DEF b
    <2> QED BY <1>6, <1>9, <1>11, <2>1
  <1>12. CASE a # addr
    BY <1>6, <1>7, <1>9, <1>12
  <1> QED BY <1>11, <1>12

\* One segment
LEMMA SegmentStored ==
    ASSUME NEW m \in Memories, NEW seg \in Segments, seg.vaddr + Len(seg.data) <= WORD
    PROVE Copied(PutSegment(m, seg), m, seg.vaddr, seg.data, Len(seg.data))
  <1> DEFINE N == Len(seg.data)
             v == seg.vaddr
  <1>1. PICK put : /\ PutSegment(m, seg) = put[N] /\ put[0] = m
                   /\ \A j \in 1..N : put[j] = memory_wr_b(put[j - 1], W(v + j - 1), seg.data[j])
                   /\ \A j \in 0..N : put[j] \in Memories
    BY SegmentLoop
  <1>2. v \in Words /\ seg.data \in Seq(0..BYTE - 1) /\ N \in Nat /\ v \in Int
    BY InWords DEF Segments
  <1> DEFINE P == {j \in Nat : j <= N => Copied(put[j], m, v, seg.data, j)}
  <1>3. 0 \in P
    BY <1>1, <1>2, CopyNone
  <1>4. ASSUME NEW j \in Nat, j \in P PROVE j + 1 \in P
    <2> SUFFICES ASSUME j + 1 <= N PROVE Copied(put[j + 1], m, v, seg.data, j + 1)
      OBVIOUS
    <2>1. j < N /\ j <= N /\ j + 1 \in 1..N /\ j \in 0..N /\ (j + 1) - 1 = j /\ v + (j + 1) - 1 = v + j
      BY <1>2
    <2>2. Copied(put[j], m, v, seg.data, j) /\ put[j] \in Memories
      BY <1>1, <1>4, <2>1
    <2>3. put[j + 1] = memory_wr_b(put[j], W(v + j), seg.data[j + 1])
      BY <1>1, <2>1
    <2>4. Copied(memory_wr_b(put[j], W(v + j), seg.data[j + 1]), m, v, seg.data, j + 1)
      <3> HIDE DEF v
      <3> QED BY <1>2, <2>1, <2>2, CopyStep DEF v
    <2> QED BY <2>3, <2>4
  <1>5. Nat \subseteq P
    <2> HIDE DEF P
    <2> QED BY <1>3, <1>4, StepInduct
  <1>6. N \in P
    BY <1>2, <1>5
  <1> QED BY <1>1, <1>2, <1>6

\* All segments
Found(m, seg) == \A a \in Area(seg) : memory_rd_b(m, a) = seg.data[a - seg.vaddr + 1]
SameAt(new, old, a) == memory_rd_b(new, a) = memory_rd_b(old, a)

LEMMA SegmentFound ==
    ASSUME NEW m \in Memories, NEW seg \in Segments, Area(seg) \subseteq Words
    PROVE /\ Found(PutSegment(m, seg), seg)
          /\ \A a \in Words : a \notin Area(seg) => SameAt(PutSegment(m, seg), m, a)
  <1> DEFINE n == PutSegment(m, seg)
             L == Len(seg.data)
             v == seg.vaddr
  <1>1. v \in Words /\ v \in Nat /\ v < WORD /\ L \in Nat /\ WORD \in Nat
    BY InWords, Widths DEF Segments
  <1>2. v + L <= WORD
    <2> DEFINE M == WORD
    <2>1. M \in Nat /\ v < M
      BY <1>1
    <2>2. CASE L = 0
      <3> HIDE DEF M
      <3>1. v + L <= M
        BY <1>1, <2>1, <2>2
      <3> QED BY <3>1 DEF M
    <2>3. CASE L # 0
      <3>1. v + L - 1 \in Area(seg)
        BY <1>1, <2>3 DEF Area
      <3>2. v + L - 1 \in Words
        BY <3>1
      <3>3. v + L - 1 < M
        BY <3>2, InWords
      <3> HIDE DEF M
      <3>4. v + L <= M
        BY <3>3, <1>1, <2>1
      <3> QED BY <3>4 DEF M
    <2> QED BY <2>2, <2>3
  <1>3. Copied(n, m, v, seg.data, L)
    BY <1>2, SegmentStored
  <1>4. Area(seg) = v..v + L - 1
    BY DEF Area
  <1>5. ASSUME NEW a \in Area(seg) PROVE memory_rd_b(n, a) = seg.data[a - v + 1]
    BY <1>3, <1>4 DEF Copied
  <1>6. ASSUME NEW a \in Words, a \notin Area(seg) PROVE memory_rd_b(n, a) = memory_rd_b(m, a)
    BY <1>3, <1>4, <1>6 DEF Copied
  <1> QED BY <1>5, <1>6 DEF Found, SameAt

LEMMA ElfStored ==
    ASSUME NEW m \in Memories, NEW segments \in Images,
           \A s \in 1..Len(segments) : Area(segments[s]) \subseteq Words,
           \A s \in 1..Len(segments) : \A t \in 1..s - 1 : Area(segments[s]) \cap Area(segments[t]) = {}
    PROVE /\ \A s \in 1..Len(segments) : Found(read_elf(m, segments), segments[s])
          /\ \A a \in Words : (\A s \in 1..Len(segments) : a \notin Area(segments[s]))
               => SameAt(read_elf(m, segments), m, a)
  <1> DEFINE N == Len(segments)
  <1>1. PICK loaded : /\ read_elf(m, segments) = loaded[N] /\ loaded[0] = m
                      /\ \A j \in 1..N : loaded[j] = PutSegment(loaded[j - 1], segments[j])
                      /\ \A j \in 0..N : loaded[j] \in Memories
    BY ElfLoop
  <1>2. N \in Nat /\ \A j \in 1..N : segments[j] \in Segments
    <2>1. segments \in Seq(Segments)
      BY CpuAssumption
    <2> QED BY <2>1
  <1> DEFINE Kept(j) == \A a \in Words : (\A s \in 1..j : a \notin Area(segments[s])) => SameAt(loaded[j], m, a)
             Inv(j) == (\A s \in 1..j : Found(loaded[j], segments[s])) /\ Kept(j)
             P == {j \in Nat : j <= N => Inv(j)}
  <1>3. 0 \in P
    <2>1. 1..0 = {}
      OBVIOUS
    <2> QED BY <2>1, <1>1 DEF SameAt
  <1>4. ASSUME NEW j \in Nat, j \in P PROVE j + 1 \in P
    <2> SUFFICES ASSUME j + 1 <= N PROVE Inv(j + 1)
      OBVIOUS
    <2> DEFINE seg == segments[j + 1]
    <2>1. j <= N /\ j + 1 \in 1..N /\ j \in 0..N /\ (j + 1) - 1 = j
      BY <1>2
    <2>2. Inv(j) /\ loaded[j] \in Memories /\ seg \in Segments /\ Area(seg) \subseteq Words
      BY <1>1, <1>2, <1>4, <2>1
    <2>3. loaded[j + 1] = PutSegment(loaded[j], seg)
      BY <1>1, <2>1
    <2>4. /\ Found(loaded[j + 1], seg)
          /\ \A a \in Words : a \notin Area(seg) => SameAt(loaded[j + 1], loaded[j], a)
      BY <2>2, <2>3, SegmentFound
    <2>5. ASSUME NEW s \in 1..j + 1 PROVE Found(loaded[j + 1], segments[s])
      <3>1. CASE s = j + 1
        BY <3>1, <2>4
      <3>2. CASE s # j + 1
        <4>1. s \in 1..j /\ s \in 1..N /\ s \in 1..(j + 1) - 1
          BY <3>2, <1>2, <2>1
        <4>2. Found(loaded[j], segments[s]) /\ Area(segments[s]) \subseteq Words
          BY <2>2, <4>1
        <4>3. Area(seg) \cap Area(segments[s]) = {}
          BY <2>1, <4>1
        <4> QED BY <2>4, <4>2, <4>3 DEF Found, SameAt
      <3> QED BY <3>1, <3>2
    <2>6. ASSUME NEW a \in Words, \A s \in 1..j + 1 : a \notin Area(segments[s])
          PROVE SameAt(loaded[j + 1], m, a)
      <3>1. j + 1 \in 1..j + 1 /\ \A s \in 1..j : s \in 1..j + 1
        OBVIOUS
      <3>2. SameAt(loaded[j + 1], loaded[j], a)
        BY <2>4, <2>6, <3>1
      <3>3. SameAt(loaded[j], m, a)
        BY <2>2, <2>6, <3>1
      <3> QED BY <3>2, <3>3 DEF SameAt
    <2> QED BY <2>5, <2>6
  <1>5. Nat \subseteq P
    <2> HIDE DEF P
    <2> QED BY <1>3, <1>4, StepInduct
  <1>6. Inv(N)
    BY <1>2, <1>5
  <1> QED BY <1>1, <1>6

\* Where the strings are
LEMMA Strings ==
    ASSUME NEW args \in ArgLists
    PROVE /\ StringsAt(args) \in [0..Len(args) -> Nat]
          /\ StringsAt(args)[0] = ARG_BASE + 4 + 4 * Len(args)
          /\ \A k \in 1..Len(args) : StringsAt(args)[k] = StringsAt(args)[k - 1] + Len(args[k]) + 1
  <1> DEFINE N == Len(args)
             base == ARG_BASE + 4 + 4 * N
             Eq(g) == g = [k \in 0..N |-> IF k = 0 THEN base ELSE g[k - 1] + Len(args[k]) + 1]
             at == CHOOSE g : Eq(g)
  <1>1. StringsAt(args) = at
    BY DEF StringsAt
  <1>2. N \in Nat /\ base \in Nat /\ \A k \in 1..N : Len(args[k]) \in Nat
    <2>1. args \in Seq(Seq(1..BYTE - 1)) /\ ARG_BASE \in Nat
      BY CpuAssumption, InWords
    <2> QED BY <2>1
  <1>3. \E g : Eq(g) /\ g \in [0..N -> Nat]
    <2> HIDE DEF N, base
    <2> DEFINE turn == [j \in 1..N |-> [s \in Nat |-> s + Len(args[j]) + 1]]
    <2>1. turn \in [1..N -> [Nat -> Nat]]
      BY <1>2
    <2>2. \A j \in 1..N : \A s \in Nat : turn[j][s] = s + Len(args[j]) + 1
      OBVIOUS
    <2> HIDE DEF turn
    <2>3. PICK g \in [0..N -> Nat] : LoopEq(g, N, base, turn)
      BY <1>2, <2>1, LoopExists
    <2>4. ASSUME NEW j \in 0..N, j # 0 PROVE turn[j][g[j - 1]] = g[j - 1] + Len(args[j]) + 1
      <3>1. j \in 1..N /\ j - 1 \in 0..N
        BY <1>2, <2>4
      <3> QED BY <3>1, <2>2
    <2>5. [j \in 0..N |-> IF j = 0 THEN base ELSE turn[j][g[j - 1]]]
            = [j \in 0..N |-> IF j = 0 THEN base ELSE g[j - 1] + Len(args[j]) + 1]
      BY <2>4
    <2>6. Eq(g)
      BY <2>3, <2>5, Zenon DEF LoopEq
    <2> QED BY <2>6
  <1>4. Eq(at)
    BY <1>3
  <1> HIDE DEF at, N, base
  <1>5. at[0] = base /\ \A j \in 1..N : at[j] = at[j - 1] + Len(args[j]) + 1
    <2>1. 0 \in 0..N /\ \A j \in 1..N : j \in 0..N /\ j # 0
      BY <1>2
    <2> QED BY <1>4, <2>1
  <1>6. \A j \in 0..N : at[j] \in Nat
    <2>1. ASSUME NEW j \in 1..N, at[j - 1] \in Nat PROVE at[j] \in Nat
      <3>1. at[j] = at[j - 1] + Len(args[j]) + 1 /\ Len(args[j]) \in Nat
        BY <1>2, <1>5
      <3> QED BY <2>1, <3>1
    <2> QED BY <1>2, <1>5, <2>1, LoopKeeps
  <1>7. at \in [0..N -> Nat]
    <2>1. at = [j \in 0..N |-> at[j]]
      BY <1>4
    <2> QED BY <1>6, <2>1
  <1> QED BY <1>1, <1>5, <1>7 DEF N, base

\* They follow one another.
LEMMA StringsGrow ==
    ASSUME NEW args \in ArgLists, NEW i \in 0..Len(args), NEW k \in 0..Len(args), i <= k
    PROVE StringsAt(args)[i] <= StringsAt(args)[k]
  <1> DEFINE N == Len(args)
             at == StringsAt(args)
             P == {n \in Nat : i + n <= N => at[i] <= at[i + n]}
  <1>1. N \in Nat /\ \A j \in 1..N : Len(args[j]) \in Nat
    <2>1. args \in Seq(Seq(1..BYTE - 1))
      BY CpuAssumption
    <2> QED BY <2>1
  <1>2. at \in [0..N -> Nat] /\ \A j \in 1..N : at[j] = at[j - 1] + Len(args[j]) + 1
    BY Strings
  <1> HIDE DEF at, N
  <1> USE DEF N
  <1>3. 0 \in P
    BY <1>2
  <1>4. ASSUME NEW n \in Nat, n \in P PROVE n + 1 \in P
    <2> SUFFICES ASSUME i + (n + 1) <= N PROVE at[i] <= at[i + (n + 1)]
      OBVIOUS
    <2> DEFINE j == i + (n + 1)
    <2>1. j \in 1..N /\ j - 1 = i + n /\ i + n <= N /\ j - 1 \in 0..N
      BY <1>1
    <2>2. at[i] <= at[i + n] /\ at[j] = at[j - 1] + Len(args[j]) + 1
      BY <1>2, <1>4, <2>1
    <2>3. at[i] \in Nat /\ at[j - 1] \in Nat /\ Len(args[j]) \in Nat /\ at[i] <= at[j - 1]
      BY <1>1, <1>2, <2>1, <2>2
    <2> QED BY <2>2, <2>3
  <1>5. Nat \subseteq P
    <2> HIDE DEF P
    <2> QED BY <1>3, <1>4, StepInduct
  <1>6. k - i \in Nat /\ i + (k - i) = k /\ k <= N
    BY <1>1
  <1>7. k - i \in P
    BY <1>5, <1>6
  <1> QED BY <1>6, <1>7 DEF at

\* One argument
LEMMA ArgStored ==
    ASSUME NEW state \in Loading, NEW k \in Nat, NEW arg \in Seq(1..BYTE - 1),
           state.str + Len(arg) + 1 <= WORD, ARG_BASE + 4 * k \in Words, (ARG_BASE + 4 * k) % 4 = 0
    PROVE /\ PutArg(state, k, arg).str = W(state.str + Len(arg) + 1)
          /\ \A a \in Words : memory_rd_b(PutArg(state, k, arg).m, a)
               = IF a \in state.str..state.str + Len(arg) THEN Append(arg, 0)[a - state.str + 1]
                 ELSE IF a \in ARG_BASE + 4 * k..ARG_BASE + 4 * k + 3 THEN ByteOf(state.str, a - (ARG_BASE + 4 * k))
                 ELSE memory_rd_b(state.m, a)
  <1> DEFINE bytes == Append(arg, 0)
             N == Len(bytes)
             p == ARG_BASE + 4 * k
             str == state.str
             m0 == memory_wr_w(state.m, p, str)
  <1>1. PICK put : /\ PutArg(state, k, arg) = put[N] /\ put[0] = PutArgBase(state, k)
                   /\ \A j \in 1..N : put[j] = PutByte(put[j - 1], bytes[j])
                   /\ \A j \in 0..N : put[j] \in Loading
    BY PutArgLoop
  <1>2. bytes \in Seq(0..BYTE - 1) /\ N \in Nat /\ N = Len(arg) + 1
    <2>1. BYTE \in Nat \ {0} /\ arg \in Seq(0..BYTE - 1) /\ 0 \in 0..BYTE - 1
      <3>1. BYTE \in Nat \ {0}
        BY Widths
      <3> QED BY <3>1
    <2> QED BY <2>1
  <1>3. str \in Words /\ str \in Nat /\ state.m \in Memories /\ WORD \in Nat
    BY InWords, Widths DEF Loading
  <1>4. put[0].m = m0 /\ put[0].str = str
    <2>1. W(p) = p
      BY WrapsNot DEF W
    <2> QED BY <1>1, <2>1 DEF PutArgBase
  <1>n. str + N <= WORD
    BY <1>2, <1>3
  <1> HIDE DEF bytes, N, m0
  <1> DEFINE Q(j) == Copied(put[j].m, m0, str, bytes, j) /\ put[j].str = W(str + j)
             P == {j \in Nat : j <= N => Q(j)}
  <1>5. 0 \in P
    <2>1. W(str + 0) = str
      BY <1>3, WrapsNot DEF W
    <2> QED BY <1>3, <1>4, <2>1, CopyNone
  <1>6. ASSUME NEW j \in Nat, j \in P PROVE j + 1 \in P
    <2> SUFFICES ASSUME j + 1 <= N PROVE Q(j + 1)
      OBVIOUS
    <2>1. j < N /\ j <= N /\ j + 1 \in 1..N /\ j \in 0..N /\ (j + 1) - 1 = j
      BY <1>2
    <2>2. Q(j) /\ put[j] \in Loading
      BY <1>1, <1>6, <2>1
    <2>3. put[j + 1] = PutByte(put[j], bytes[j + 1])
      BY <1>1, <2>1
    <2>4. put[j + 1].m = memory_wr_b(put[j].m, W(str + j), bytes[j + 1]) /\ put[j + 1].str = W(W(str + j) + 1)
      BY <2>2, <2>3 DEF PutByte
    <2>5. put[j].m \in Memories
      BY <2>2 DEF Loading
    <2>6. Copied(put[j + 1].m, m0, str, bytes, j + 1)
      <3>1. Copied(memory_wr_b(put[j].m, W(str + j), bytes[j + 1]), m0, str, bytes, j + 1)
        <4> HIDE DEF str
        <4> QED BY <1>2, <1>3, <1>n, <2>1, <2>2, <2>5, CopyStep DEF N
      <3> QED BY <2>4, <3>1
    <2>7. W(str + j) + 1 = str + (j + 1)
      <3> DEFINE M == WORD
      <3>1. str + j \in Nat /\ str + j < M
        <4>1. M \in Nat /\ str + N <= M
          BY <1>3, <1>n
        <4>2. str \in Nat /\ N \in Nat /\ j < N
          BY <1>2, <1>3, <2>1
        <4> HIDE DEF M, str
        <4> QED BY <4>1, <4>2
      <3>2. W(str + j) = str + j
        BY <3>1, InWords, WrapsNot DEF W
      <3> QED BY <1>3, <3>2
    <2> QED BY <2>4, <2>6, <2>7
  <1>7. Nat \subseteq P
    <2> HIDE DEF P
    <2> QED BY <1>5, <1>6, StepInduct
  <1>8. Q(N)
    BY <1>2, <1>7
  <1>9. PutArg(state, k, arg).str = W(str + Len(arg) + 1)
    <2>1. str + N = str + Len(arg) + 1
      BY <1>2, <1>3
    <2> QED BY <1>1, <1>8, <2>1
  <1>10. ASSUME NEW a \in Words
         PROVE memory_rd_b(put[N].m, a)
               = IF a \in str..str + Len(arg) THEN bytes[a - str + 1]
                 ELSE IF a \in p..p + 3 THEN ByteOf(str, a - p) ELSE memory_rd_b(state.m, a)
    <2>1. memory_rd_b(put[N].m, a) = IF a \in str..str + N - 1 THEN bytes[a - str + 1] ELSE memory_rd_b(m0, a)
      BY <1>8 DEF Copied
    <2>2. memory_rd_b(m0, a) = IF a \in p..p + 3 THEN ByteOf(str, a - p) ELSE memory_rd_b(state.m, a)
      BY <1>3, WordStored DEF m0
    <2>3. str + N - 1 = str + Len(arg)
      BY <1>2, <1>3
    <2> QED BY <2>1, <2>2, <2>3
  <1> QED BY <1>1, <1>9, <1>10 DEF bytes

\* A pointer, and the string of an argument with its 0, in memory
Pointer(m, p, v) == \A a \in p..p + 3 : memory_rd_b(m, a) = ByteOf(v, a - p)
StringIn(m, args, i) ==
    \A a \in StringsAt(args)[i - 1]..StringsAt(args)[i] - 1 :
      memory_rd_b(m, a) = Append(args[i], 0)[a - StringsAt(args)[i - 1] + 1]
ArgIn(m, args, i) == Pointer(m, ARG_BASE + 4 * i, StringsAt(args)[i - 1]) /\ StringIn(m, args, i)
ArgsIn(m, args, k) == Pointer(m, ARG_BASE, Len(args)) /\ \A i \in 1..k : ArgIn(m, args, i)

\* The places of the arguments in order: pointers, then strings
LEMMA Layout ==
    ASSUME NEW args \in ArgLists, args # <<>>, ARG_BASE % 4 = 0, ArgArea(args) \subseteq Words
    PROVE /\ Len(args) \in Nat \ {0} /\ ARG_BASE \in Nat /\ WORD \in Nat
          /\ StringsAt(args)[Len(args)] <= WORD
          /\ \A i \in 1..Len(args) :
               /\ args[i] \in Seq(1..BYTE - 1) /\ Len(args[i]) \in Nat
               /\ StringsAt(args)[i - 1] \in Nat /\ StringsAt(args)[i] \in Nat
               /\ StringsAt(args)[i] = StringsAt(args)[i - 1] + Len(args[i]) + 1
               /\ StringsAt(args)[i] <= WORD /\ StringsAt(args)[i - 1] \in Words
               /\ ARG_BASE + 4 * Len(args) + 4 <= StringsAt(args)[i - 1]
               /\ (ARG_BASE + 4 * i) % 4 = 0 /\ ARG_BASE + 4 * i \in Words /\ ARG_BASE + 4 * i + 3 \in Words
               /\ StringsAt(args)[i] <= StringsAt(args)[Len(args)]
  <1> DEFINE N == Len(args)
             at == StringsAt(args)
             M == WORD
  <1>1. N \in Nat \ {0} /\ ARG_BASE \in Nat /\ M \in Nat /\ \A i \in 1..N : args[i] \in Seq(1..BYTE - 1) /\ Len(args[i]) \in Nat
    <2>1. args \in Seq(Seq(1..BYTE - 1)) /\ ARG_BASE \in Nat /\ M \in Nat
      BY CpuAssumption, InWords, Widths
    <2>2. N # 0
      BY <2>1, EmptySeq
    <2> QED BY <2>1, <2>2
  <1>2. /\ at \in [0..N -> Nat] /\ at[0] = ARG_BASE + 4 + 4 * N
        /\ \A i \in 1..N : at[i] = at[i - 1] + Len(args[i]) + 1
    BY Strings
  <1>3. \A i, k \in 0..N : i <= k => at[i] <= at[k]
    BY StringsGrow
  <1>4. \A v : v \in Nat /\ v < M => v \in Words
    BY InWords
  <1>5. ArgArea(args) = ARG_BASE..at[N] - 1
    BY DEF ArgArea
  <1> HIDE DEF at, N
  <1>6. at[N] <= M /\ at[N] \in Nat /\ at[0] <= at[N] /\ at[0] \in Nat
    <2>1. at[N] \in Nat /\ at[0] <= at[N] /\ at[0] \in Nat
      BY <1>1, <1>2, <1>3
    <2>2. at[N] - 1 \in ARG_BASE..at[N] - 1
      BY <1>1, <1>2, <2>1
    <2>3. at[N] - 1 \in Words
      BY <1>5, <2>2
    <2>4. at[N] - 1 < M
      BY <2>3, InWords
    <2> HIDE DEF M
    <2> QED BY <1>1, <2>1, <2>4
  <1> HIDE DEF M
  <1>7. ASSUME NEW i \in 1..N
        PROVE /\ at[i - 1] \in Nat /\ at[i] \in Nat /\ at[i] = at[i - 1] + Len(args[i]) + 1
              /\ at[i] <= M /\ at[i - 1] \in Words /\ ARG_BASE + 4 * N + 4 <= at[i - 1]
              /\ (ARG_BASE + 4 * i) % 4 = 0 /\ ARG_BASE + 4 * i \in Words /\ ARG_BASE + 4 * i + 3 \in Words
              /\ at[i] <= at[N]
    <2>1. i \in 0..N /\ i - 1 \in 0..N /\ i <= N /\ 0 <= i - 1 /\ N \in 0..N /\ 0 \in 0..N /\ i \in Nat
      BY <1>1
    <2>2. at[i - 1] \in Nat /\ at[i] \in Nat /\ at[i] = at[i - 1] + Len(args[i]) + 1 /\ Len(args[i]) \in Nat
      BY <1>1, <1>2, <2>1
    <2>3. at[i] <= at[N] /\ at[0] <= at[i - 1]
      BY <1>3, <2>1
    <2>4. at[i] <= M /\ at[i - 1] < M /\ ARG_BASE + 4 * N + 4 <= at[i - 1]
      <3>1. at[i] <= M
        BY <1>1, <1>6, <2>2, <2>3
      <3>2. at[i - 1] < M
        BY <1>1, <2>2, <3>1
      <3>3. ARG_BASE + 4 * N + 4 <= at[i - 1]
        BY <1>1, <1>2, <2>2, <2>3
      <3> QED BY <3>1, <3>2, <3>3
    <2>5. ARG_BASE + 4 * i \in Nat /\ ARG_BASE + 4 * i + 3 \in Nat /\ ARG_BASE + 4 * i + 3 < M /\ ARG_BASE + 4 * i < M
      BY <1>1, <2>1, <2>2, <2>4
    <2>6. (ARG_BASE + 4 * i) % 4 = 0
      BY <1>1, <2>1
    <2> QED BY <1>4, <2>2, <2>3, <2>4, <2>5, <2>6
  <1> QED BY <1>1, <1>6, <1>7 DEF at, N, M

\* What is in memory stays, where the bytes of the arguments stay.
LEMMA ArgKept ==
    ASSUME NEW args \in ArgLists, args # <<>>, ARG_BASE % 4 = 0, ArgArea(args) \subseteq Words,
           NEW new, NEW old, NEW i \in 1..Len(args), ArgIn(old, args, i),
           \A a \in ARG_BASE + 4 * i..ARG_BASE + 4 * i + 3 : SameAt(new, old, a),
           \A a \in StringsAt(args)[i - 1]..StringsAt(args)[i] - 1 : SameAt(new, old, a)
    PROVE ArgIn(new, args, i)
  BY DEF ArgIn, Pointer, StringIn, SameAt

LEMMA PassStored ==
    ASSUME NEW m \in Memories, NEW args \in ArgLists, args # <<>>, ARG_BASE % 4 = 0, ArgArea(args) \subseteq Words
    PROVE ArgsIn(pass_args_to_program(m, args), args, Len(args))
  <1> DEFINE N == Len(args)
             at == StringsAt(args)
             Ptr(i) == ARG_BASE + 4 * i
  <1>1. PICK passed : /\ pass_args_to_program(m, args) = IF args = <<>> THEN m ELSE passed[N].m
                      /\ passed[0] = PassBase(m, args)
                      /\ \A j \in 1..N : passed[j] = PutArg(passed[j - 1], j, args[j])
                      /\ \A j \in 0..N : passed[j] \in Loading
    BY PassLoop
  <1>2. N \in Nat \ {0} /\ ARG_BASE \in Nat /\ WORD \in Nat /\ ARG_BASE \in Words /\ N \in Words
    BY Layout, CpuAssumption
  <1>3. \A i \in 1..N :
          /\ args[i] \in Seq(1..BYTE - 1) /\ Len(args[i]) \in Nat /\ at[i - 1] \in Nat /\ at[i] \in Nat
          /\ at[i] = at[i - 1] + Len(args[i]) + 1 /\ at[i] <= WORD /\ at[i - 1] \in Words
          /\ ARG_BASE + 4 * N + 4 <= at[i - 1]
          /\ Ptr(i) % 4 = 0 /\ Ptr(i) \in Words /\ Ptr(i) + 3 \in Words
    BY Layout
  <1>4. at[0] = ARG_BASE + 4 + 4 * N
    BY Strings
  <1>5. \A i, k \in 0..N : i <= k => at[i] <= at[k]
    BY StringsGrow
  <1> DEFINE Q(k) == passed[k].str = W(at[k]) /\ ArgsIn(passed[k].m, args, k)
             P == {k \in Nat : k <= N => Q(k)}
  <1>6. 0 \in P
    <2>1. passed[0].str = W(at[0]) /\ passed[0].m = memory_wr_w(m, ARG_BASE, N)
      BY <1>1, <1>4 DEF PassBase
    <2>2. Pointer(passed[0].m, ARG_BASE, N)
      <3>1. ASSUME NEW a \in ARG_BASE..ARG_BASE + 3 PROVE memory_rd_b(passed[0].m, a) = ByteOf(N, a - ARG_BASE)
        <4>1. a \in Words
          <5>1. a = ARG_BASE \/ a = ARG_BASE + 1 \/ a = ARG_BASE + 2 \/ a = ARG_BASE + 3
            BY <1>2
          <5> QED BY <5>1, <1>2, Aligned
        <4> QED BY <1>2, <2>1, <4>1, WordStored
      <3> QED BY <3>1 DEF Pointer
    <2>3. 1..0 = {}
      OBVIOUS
    <2> QED BY <2>1, <2>2, <2>3 DEF ArgsIn
  <1>7. ASSUME NEW j \in Nat, j \in P PROVE j + 1 \in P
    <2> SUFFICES ASSUME j + 1 <= N PROVE Q(j + 1)
      OBVIOUS
    <2> DEFINE k == j + 1
               p == Ptr(k)
               str == at[j]
               s == passed[j]
               n == passed[k].m
    <2>1. j <= N /\ k \in 1..N /\ j \in 0..N /\ k - 1 = j /\ k \in Nat
      BY <1>2
    <2>2. Q(j) /\ s \in Loading /\ passed[k] = PutArg(s, k, args[k])
      BY <1>1, <1>7, <2>1
    <2>3. /\ str \in Words /\ str \in Nat /\ args[k] \in Seq(1..BYTE - 1) /\ at[k] = str + Len(args[k]) + 1
          /\ at[k] <= WORD /\ p % 4 = 0 /\ p \in Words /\ p + 3 \in Words /\ Len(args[k]) \in Nat /\ at[k] \in Nat
          /\ ARG_BASE + 4 * N + 4 <= str
      BY <1>3, <2>1
    <2>4. s.str = str
      BY <2>2, <2>3, WrapsNot DEF W
    <2>5. passed[k].str = W(at[k])
          /\ \A a \in Words : memory_rd_b(n, a)
               = IF a \in str..str + Len(args[k]) THEN Append(args[k], 0)[a - str + 1]
                 ELSE IF a \in p..p + 3 THEN ByteOf(str, a - p) ELSE memory_rd_b(s.m, a)
      <3> HIDE DEF k, str, s
      <3>1. /\ PutArg(s, k, args[k]).str = W(s.str + Len(args[k]) + 1)
            /\ \A a \in Words : memory_rd_b(PutArg(s, k, args[k]).m, a)
               = IF a \in s.str..s.str + Len(args[k]) THEN Append(args[k], 0)[a - s.str + 1]
                 ELSE IF a \in p..p + 3 THEN ByteOf(s.str, a - p) ELSE memory_rd_b(s.m, a)
        <4>1. s.str + Len(args[k]) + 1 <= WORD
          BY <2>3, <2>4
        <4>2. p \in Words /\ p % 4 = 0 /\ p = ARG_BASE + 4 * k
          BY <2>3
        <4> HIDE DEF p
        <4>3. ARG_BASE + 4 * k \in Words /\ (ARG_BASE + 4 * k) % 4 = 0
          BY <4>2
        <4>4. s \in Loading /\ k \in Nat /\ args[k] \in Seq(1..BYTE - 1)
          BY <2>1, <2>2, <2>3
        <4>5. /\ PutArg(s, k, args[k]).str = W(s.str + Len(args[k]) + 1)
              /\ \A a \in Words : memory_rd_b(PutArg(s, k, args[k]).m, a)
                 = IF a \in s.str..s.str + Len(args[k]) THEN Append(args[k], 0)[a - s.str + 1]
                   ELSE IF a \in ARG_BASE + 4 * k..ARG_BASE + 4 * k + 3 THEN ByteOf(s.str, a - (ARG_BASE + 4 * k))
                   ELSE memory_rd_b(s.m, a)
          BY <4>1, <4>3, <4>4, ArgStored
        <4> QED BY <4>5, Zenon DEF p
      <3> QED BY <2>2, <2>3, <2>4, <3>1
    <2>6. str + Len(args[k]) = at[k] - 1 /\ p + 3 < str /\ p = ARG_BASE + 4 * k /\ p \in Nat
      BY <1>2, <2>1, <2>3
    <2>w. \A a \in Nat : a < WORD => a \in Words
      BY InWords
    <2>7. ArgIn(n, args, k)
      <3>1. ASSUME NEW a \in p..p + 3 PROVE memory_rd_b(n, a) = ByteOf(str, a - p)
        <4>1. a \in Words
          <5>1. a = p \/ a = p + 1 \/ a = p + 2 \/ a = p + 3
            BY <2>6
          <5> QED BY <5>1, <2>3, Aligned
        <4>2. p \in Nat /\ str \in Nat /\ p + 3 < str
          BY <2>3, <2>6
        <4> HIDE DEF k, p, str, s, n
        <4>3. a \notin str..str + Len(args[k])
          BY <4>2
        <4> QED BY <2>5, <4>1, <4>3
      <3>2. ASSUME NEW a \in str..at[k] - 1 PROVE memory_rd_b(n, a) = Append(args[k], 0)[a - str + 1]
        <4>1. a \in Nat /\ a < WORD
          <5> DEFINE M == WORD
          <5>1. M \in Nat /\ at[k] <= M
            BY <1>2, <2>3
          <5> HIDE DEF M
          <5>2. at[k] \in Nat /\ str \in Nat
            BY <2>3
          <5> HIDE DEF M, str, at, k
          <5>3. a \in Nat /\ a < M
            BY <5>1, <5>2
          <5> QED BY <5>3 DEF M
        <4> QED BY <2>5, <2>6, <2>w, <4>1
      <3> QED BY <3>1, <3>2, <2>1 DEF ArgIn, Pointer, StringIn
    <2>8. ASSUME NEW a \in Words, a < p \/ (a > p + 3 /\ a < str) PROVE SameAt(n, s.m, a)
      <3>1. a \in Nat
        BY InWords
      <3>2. p \in Nat /\ str \in Nat /\ p + 3 < str
        BY <2>3, <2>6
      <3> HIDE DEF k, p, str, s, n
      <3>3. a < str /\ a \notin p..p + 3
        BY <2>8, <3>1, <3>2
      <3>4. a \notin str..str + Len(args[k])
        BY <3>1, <3>2, <3>3
      <3> QED BY <2>5, <3>3, <3>4 DEF SameAt
    <2>9. ASSUME NEW i \in 1..j PROVE ArgIn(n, args, i)
      <3>1. i \in 1..N /\ i \in 0..N /\ i <= j /\ i < k
        BY <1>2, <2>1
      <3>2. ArgIn(s.m, args, i) /\ at[i] <= str
        BY <1>5, <2>1, <2>2, <3>1 DEF ArgsIn
      <3>3. at[i - 1] \in Nat /\ at[i] \in Nat /\ ARG_BASE + 4 * N + 4 <= at[i - 1] /\ Ptr(i) \in Words /\ Ptr(i) % 4 = 0
            /\ at[i] <= WORD
        BY <1>3, <3>1
      <3>4. ASSUME NEW a \in Ptr(i)..Ptr(i) + 3 PROVE SameAt(n, s.m, a)
        <4>1. Ptr(i) \in Nat
          BY <3>3, InWords
        <4>2. a \in Words
          <5>1. a = Ptr(i) \/ a = Ptr(i) + 1 \/ a = Ptr(i) + 2 \/ a = Ptr(i) + 3
            BY <4>1
          <5> QED BY <5>1, <3>3, Aligned
        <4>3. a < p
          BY <1>2, <2>6, <3>1, <4>1
        <4> QED BY <2>8, <4>2, <4>3
      <3>5. ASSUME NEW a \in at[i - 1]..at[i] - 1 PROVE SameAt(n, s.m, a)
        <4>0. str \in Nat /\ p \in Nat /\ p + 3 < ARG_BASE + 4 * N + 4
          BY <1>2, <2>1, <2>3, <2>6
        <4> HIDE DEF p, str, at, N
        <4>i. at[i - 1] \in Nat /\ at[i] \in Nat /\ at[i] <= str
          BY <3>2, <3>3
        <4>j. p + 3 < at[i - 1]
          BY <1>2, <3>3, <4>0
        <4>1. a \in Nat /\ a < str /\ a > p + 3 /\ a < at[i]
          BY <4>0, <4>i, <4>j
        <4>2. a < WORD
          <5> DEFINE M == WORD
          <5>1. M \in Nat /\ at[i] <= M
            BY <1>2, <3>3
          <5> HIDE DEF M
          <5>2. a < M
            BY <3>3, <4>1, <5>1
          <5> QED BY <5>2 DEF M
        <4> QED BY <2>8, <2>w, <4>1, <4>2
      <3> QED BY <3>1, <3>2, <3>4, <3>5, ArgKept
    <2>10. Pointer(n, ARG_BASE, N)
      <3>1. Pointer(s.m, ARG_BASE, N)
        BY <2>2 DEF ArgsIn
      <3>2. ASSUME NEW a \in ARG_BASE..ARG_BASE + 3 PROVE SameAt(n, s.m, a)
        <4>1. a \in Words
          <5>1. a = ARG_BASE \/ a = ARG_BASE + 1 \/ a = ARG_BASE + 2 \/ a = ARG_BASE + 3
            BY <1>2
          <5> QED BY <5>1, <1>2, Aligned
        <4>2. a < p
          BY <1>2, <2>1, <2>6
        <4> QED BY <2>8, <4>1, <4>2
      <3> QED BY <3>1, <3>2 DEF Pointer, SameAt
    <2>11. ASSUME NEW i \in 1..k PROVE ArgIn(n, args, i)
      <3>1. i = k \/ i \in 1..j
        BY <2>1
      <3> QED BY <2>7, <2>9, <3>1
    <2> QED BY <2>5, <2>10, <2>11 DEF ArgsIn
  <1>8. Nat \subseteq P
    <2> HIDE DEF P
    <2> QED BY <1>6, <1>7, StepInduct
  <1>9. Q(N)
    BY <1>2, <1>8
  <1> QED BY <1>1, <1>9

\* What the instruction set calls the word at an address
LEMMA PointerAt ==
    ASSUME NEW m \in Memories, NEW p \in Words, p % 4 = 0, NEW v \in Words, Pointer(m, p, v)
    PROVE Machine!At(ByteArray(m), p, 4) = v
  <1> DEFINE B == ByteArray(m)
  <1>1. p \in Nat /\ p + 0 = p /\ p + 1 \in Words /\ p + 2 \in Words /\ p + 3 \in Words
    BY Aligned, InWords
  <1>2. \A a \in Words : B[a % Machine!WORD] = memory_rd_b(m, a)
    BY SameWords, WrapsNot DEF ByteArray
  <1>3. /\ memory_rd_b(m, p) = ByteOf(v, 0) /\ memory_rd_b(m, p + 1) = ByteOf(v, 1)
        /\ memory_rd_b(m, p + 2) = ByteOf(v, 2) /\ memory_rd_b(m, p + 3) = ByteOf(v, 3)
    <2>1. p \in p..p + 3 /\ p + 1 \in p..p + 3 /\ p + 2 \in p..p + 3 /\ p + 3 \in p..p + 3
          /\ p - p = 0 /\ (p + 1) - p = 1 /\ (p + 2) - p = 2 /\ (p + 3) - p = 3
      BY <1>1
    <2> QED BY <2>1 DEF Pointer
  <1> HIDE DEF B
  <1>4. Machine!At(B, p, 4) = WordOf(B[(p + 0) % Machine!WORD], B[(p + 1) % Machine!WORD],
                                     B[(p + 2) % Machine!WORD], B[(p + 3) % Machine!WORD])
    BY DEF Machine!At, WordOf
  <1>5. PICK d0, d1, d2, d3 \in 0..BYTE - 1 : v = WordOf(d0, d1, d2, d3) /\ HasBytes(v, d0, d1, d2, d3)
    BY HaveBytes
  <1>6. /\ B[(p + 0) % Machine!WORD] = ByteOf(v, 0) /\ B[(p + 1) % Machine!WORD] = ByteOf(v, 1)
        /\ B[(p + 2) % Machine!WORD] = ByteOf(v, 2) /\ B[(p + 3) % Machine!WORD] = ByteOf(v, 3)
    BY <1>1, <1>2, <1>3
  <1>7. ByteOf(v, 0) = d0 /\ ByteOf(v, 1) = d1 /\ ByteOf(v, 2) = d2 /\ ByteOf(v, 3) = d3
    BY <1>5 DEF HasBytes
  <1> QED BY <1>4, <1>5, <1>6, <1>7, Zenon DEF B

LEMMA ArgsLoaded ==
    ASSUME NEW m \in Memories, NEW args \in ArgLists, ARG_BASE % 4 = 0, ArgArea(args) \subseteq Words,
           args # <<>> => ArgsIn(m, args, Len(args))
    PROVE Machine!ArgsAt(ByteArray(m), args)
  <1> DEFINE B == ByteArray(m)
             N == Len(args)
             at == StringsAt(args)
  <1> SUFFICES ASSUME args # <<>>
               PROVE /\ Machine!At(B, ARG_BASE, 4) = N
                     /\ \A k \in 1..N :
                          /\ \A j \in 1..Len(args[k]) :
                               B[(Machine!At(B, ARG_BASE + 4 * k, 4) + j - 1) % Machine!WORD] = args[k][j]
                          /\ B[(Machine!At(B, ARG_BASE + 4 * k, 4) + Len(args[k])) % Machine!WORD] = 0
    BY DEF Machine!ArgsAt
  <1>1. ArgsIn(m, args, N) /\ ARG_BASE \in Words /\ N \in Words
    BY CpuAssumption
  <1>2. Machine!At(B, ARG_BASE, 4) = N
    BY <1>1, PointerAt DEF ArgsIn
  <1>3. \A a \in Words : B[a % Machine!WORD] = memory_rd_b(m, a)
    BY SameWords, WrapsNot DEF ByteArray
  <1> HIDE DEF B
  <1>4. ASSUME NEW k \in 1..N
        PROVE /\ \A j \in 1..Len(args[k]) :
                   B[(Machine!At(B, ARG_BASE + 4 * k, 4) + j - 1) % Machine!WORD] = args[k][j]
              /\ B[(Machine!At(B, ARG_BASE + 4 * k, 4) + Len(args[k])) % Machine!WORD] = 0
    <2> DEFINE s == at[k - 1]
               L == Len(args[k])
               p == ARG_BASE + 4 * k
               bytes == Append(args[k], 0)
    <2>1. /\ args[k] \in Seq(1..BYTE - 1) /\ L \in Nat /\ s \in Nat /\ at[k] \in Nat /\ at[k] = s + L + 1
          /\ at[k] <= WORD /\ s \in Words /\ p % 4 = 0 /\ p \in Words /\ WORD \in Nat
      BY Layout
    <2>2. Pointer(m, p, s) /\ \A a \in s..at[k] - 1 : memory_rd_b(m, a) = bytes[a - s + 1]
      BY <1>1 DEF ArgsIn, ArgIn, StringIn
    <2> HIDE DEF s, p, at
    <2>3. Machine!At(B, p, 4) = s
      BY <2>1, <2>2, PointerAt DEF B
    <2>4. ASSUME NEW j \in 1..L + 1 PROVE B[(s + j - 1) % Machine!WORD] = bytes[j]
      <3>1. s + j - 1 \in s..at[k] - 1 /\ (s + j - 1) - s + 1 = j
        BY <2>1
      <3>2. s + j - 1 \in Words
        <4> DEFINE M == WORD
        <4>1. M \in Nat /\ at[k] <= M
          BY <2>1
        <4> HIDE DEF M
        <4>2. s + j - 1 \in Nat /\ s + j - 1 < M
          BY <2>1, <4>1
        <4> QED BY <4>2, InWords DEF M
      <3>3. memory_rd_b(m, s + j - 1) = bytes[(s + j - 1) - s + 1]
        BY <2>2, <3>1
      <3> QED BY <1>3, <3>1, <3>2, <3>3
    <2>5. bytes[L + 1] = 0 /\ \A j \in 1..L : bytes[j] = args[k][j]
      BY <2>1
    <2>6. ASSUME NEW j \in 1..L PROVE B[(s + j - 1) % Machine!WORD] = args[k][j]
      <3>1. j \in 1..L + 1
        BY <2>1
      <3> QED BY <2>4, <2>5, <3>1
    <2>7. B[(s + L) % Machine!WORD] = 0
      <3>1. L + 1 \in 1..L + 1 /\ s + (L + 1) - 1 = s + L
        BY <2>1
      <3> QED BY <2>4, <2>5, <3>1
    <2> QED BY <2>3, <2>6, <2>7 DEF p
  <1> QED BY <1>2, <1>4

LEMMA ImageLoaded ==
    ASSUME NEW m \in Memories, NEW segments \in Images,
           \A s \in 1..Len(segments) : Area(segments[s]) \subseteq Words /\ Found(m, segments[s])
    PROVE Machine!ImageAt(ByteArray(m), segments)
  <1> DEFINE B == ByteArray(m)
  <1>1. \A a \in Words : B[a % Machine!WORD] = memory_rd_b(m, a)
    BY SameWords, WrapsNot DEF ByteArray
  <1> HIDE DEF B
  <1>2. ASSUME NEW s \in 1..Len(segments), NEW j \in 1..Len(segments[s].data)
        PROVE B[(segments[s].vaddr + j - 1) % Machine!WORD] = segments[s].data[j]
    <2> DEFINE seg == segments[s]
               a == seg.vaddr + j - 1
    <2>1. seg \in Segments
      BY CpuAssumption
    <2>2. seg.vaddr \in Nat /\ Len(seg.data) \in Nat
      BY <2>1, InWords DEF Segments
    <2>3. a \in Area(seg) /\ a - seg.vaddr + 1 = j
      BY <2>2 DEF Area
    <2>4. a \in Words /\ memory_rd_b(m, a) = seg.data[a - seg.vaddr + 1]
      BY <2>3 DEF Found
    <2> QED BY <1>1, <2>3, <2>4
  <1> QED BY <1>2 DEF Machine!ImageAt, B

LEMMA StartsOfIsa ==
    ASSUME \A args \in ArgLists, segments \in Images : Fits(args, segments), Init
    PROVE Machine!Init
  <1>1. PICK args \in ArgLists, segments \in Images :
               mem = read_elf(pass_args_to_program(memory_create, args), segments)
    BY DEF Init
  <1> DEFINE m1 == pass_args_to_program(memory_create, args)
  <1>2. Fits(args, segments) /\ m1 \in Memories /\ mem \in Memories
    BY <1>1, CreateType, PassType, ElfType
  <1>3. ARG_BASE % 4 = 0 /\ ArgArea(args) \subseteq Words
    BY <1>2 DEF Fits
  <1>4. /\ \A s \in 1..Len(segments) : Found(mem, segments[s]) /\ Area(segments[s]) \subseteq Words
        /\ \A a \in Words : (\A s \in 1..Len(segments) : a \notin Area(segments[s])) => SameAt(mem, m1, a)
    <2> HIDE DEF m1
    <2> QED BY <1>1, <1>2, ElfStored DEF Fits, m1
  <1>5. \A a \in ArgArea(args) : SameAt(mem, m1, a)
    <2>1. ASSUME NEW a \in ArgArea(args), NEW s \in 1..Len(segments) PROVE a \notin Area(segments[s])
      BY <1>2 DEF Fits
    <2> QED BY <1>3, <1>4, <2>1
  <1>6. ASSUME args # <<>> PROVE ArgsIn(mem, args, Len(args))
    <2> DEFINE N == Len(args)
               at == StringsAt(args)
    <2>1. ArgsIn(m1, args, N)
      BY <1>3, <1>6, CreateType, PassStored
    <2>2. ArgArea(args) = ARG_BASE..at[N] - 1
      BY <1>6 DEF ArgArea
    <2>3. /\ N \in Nat \ {0} /\ ARG_BASE \in Nat
          /\ \A i \in 1..N : /\ at[i - 1] \in Nat /\ at[i] \in Nat /\ ARG_BASE + 4 * N + 4 <= at[i - 1]
                             /\ at[i] <= at[N] /\ at[i - 1] <= at[i]
      <3>1. /\ N \in Nat \ {0} /\ ARG_BASE \in Nat
            /\ \A i \in 1..N : /\ at[i - 1] \in Nat /\ at[i] \in Nat /\ ARG_BASE + 4 * N + 4 <= at[i - 1]
                               /\ at[i] <= at[N] /\ at[i] = at[i - 1] + Len(args[i]) + 1 /\ Len(args[i]) \in Nat
        BY <1>3, <1>6, Layout
      <3> HIDE DEF at, N
      <3>2. ASSUME NEW i \in 1..N PROVE at[i - 1] <= at[i]
        <4>1. at[i - 1] \in Nat /\ at[i] = at[i - 1] + Len(args[i]) + 1 /\ Len(args[i]) \in Nat
          BY <3>1
        <4> QED BY <4>1
      <3> QED BY <3>1, <3>2
    <2>4. at[N] \in Nat /\ ARG_BASE + 4 * N + 4 <= at[N]
      <3>1. N \in 1..N
        BY <2>3
      <3>2. at[N - 1] \in Nat /\ at[N] \in Nat /\ ARG_BASE + 4 * N + 4 <= at[N - 1] /\ at[N - 1] <= at[N]
        BY <2>3, <3>1
      <3> HIDE DEF at, N
      <3> QED BY <2>3, <3>2
    <2> HIDE DEF at, N
    <2>5. ASSUME NEW i \in 0..N, NEW a \in ARG_BASE + 4 * i..ARG_BASE + 4 * i + 3 PROVE SameAt(mem, m1, a)
      <3>1. a \in ARG_BASE..at[N] - 1
        BY <2>3, <2>4
      <3> QED BY <1>5, <2>2, <3>1
    <2>6. ASSUME NEW i \in 1..N, NEW a \in at[i - 1]..at[i] - 1 PROVE SameAt(mem, m1, a)
      <3>1. at[i - 1] \in Nat /\ at[i] \in Nat /\ ARG_BASE + 4 * N + 4 <= at[i - 1] /\ at[i] <= at[N]
        BY <2>3
      <3>2. a \in ARG_BASE..at[N] - 1
        BY <2>3, <2>4, <3>1
      <3> QED BY <1>5, <2>2, <3>2
    <2>7. Pointer(mem, ARG_BASE, N)
      <3>1. Pointer(m1, ARG_BASE, N)
        BY <2>1 DEF ArgsIn, N
      <3>2. 0 \in 0..N /\ ARG_BASE + 4 * 0 = ARG_BASE
        BY <2>3
      <3>3. \A a \in ARG_BASE..ARG_BASE + 3 : SameAt(mem, m1, a)
        BY <2>5, <3>2
      <3> QED BY <3>1, <3>3 DEF Pointer, SameAt
    <2>8. ASSUME NEW i \in 1..N PROVE ArgIn(mem, args, i)
      <3>1. ArgIn(m1, args, i) /\ i \in 0..N
        BY <2>1, <2>3 DEF ArgsIn
      <3> QED BY <1>3, <1>6, <2>5, <2>6, <3>1, ArgKept DEF at, N
    <2> QED BY <2>7, <2>8 DEF ArgsIn, N
  <1>7. Machine!ArgsAt(ByteArray(mem), args)
    BY <1>2, <1>3, <1>6, ArgsLoaded
  <1>8. Machine!ImageAt(ByteArray(mem), segments)
    BY <1>2, <1>4, ImageLoaded
  <1>9. pc \in Machine!Words /\ regs = [r \in REGS |-> 0] /\ out = <<>> /\ ~(status # "running")
    BY SameWords, CpuAssumption DEF Init
  <1> QED BY <1>7, <1>8, <1>9 DEF Machine!Init, ByteArray

\* ImplementsIsa: started with arguments and segments that fit, simulate()
\* starts as the instruction set does and every turn is a step of it, in all
\* but the cases of Departs and in none of these, for words of any width, any
\* registers and any text of RV32I and RV32M.
THEOREM SimulatesIsa ==
    ASSUME \A i \in Instrs : Conforms(i),
           \A args \in ArgLists, segments \in Images : Fits(args, segments)
    PROVE Spec => ImplementsIsa
  <1>1. Init => Machine!Init
    BY StartsOfIsa
  <1>2. Spec => [][Machine!Next <=> ~Departs(ir')]_vars
    BY FollowsIsa
  <1> QED BY <1>1, <1>2, PTL DEF Spec, ImplementsIsa
=============================================================================
