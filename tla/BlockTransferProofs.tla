------------------------- MODULE BlockTransferProofs ------------------------
(***************************************************************************)
(* Proofs about one RETRIEVE, for files of any length and any message and  *)
(* header sizes: a file that is saved is the file that was served, the     *)
(* blocks of a reply are the data cut up with nothing left out, and two C  *)
(* peers agree on the order of the blocks.                                 *)
(*                                                                         *)
(* Both servers cut the data at multiples of BLOCK, the last block taking  *)
(* what is left; they differ in the number of blocks.  Piece is block b of *)
(* bytes cut into n blocks that way.                                       *)
(***************************************************************************)
EXTENDS BlockTransfer, FiniteSetTheorems, NaturalsInduction, SequenceTheorems,
        WellFoundedInduction, TLAPS

StartOf(n, bytes, b) == IF b = n THEN Len(bytes) ELSE b * BLOCK
Piece(n, bytes, b) == SubSeq(bytes, StartOf(n, bytes, b) + 1, StartOf(n, bytes, b + 1))

\* The number of blocks of a reply with status STATUS_OK.
BlocksOf(program, bytes) ==
    IF bytes = << >> THEN 1
    ELSE CeilDiv(Len(bytes), IF program = "c" THEN MAX_MSG_LEN ELSE BLOCK)
NBlocks == BlocksOf(server, data)
Block(b) == Piece(NBlocks, data, b)

-----------------------------------------------------------------------------
(* Induction on the natural numbers; the property is the set P.            *)

LEMMA LeastNat ==
  ASSUME NEW T, T \subseteq Nat, T # {}
  PROVE  \E x \in T : \A y \in T : x <= y
<1>. DEFINE R == OpToRel(<, Nat)
<1>1. \E x \in T : \A y \in T : ~(<<y, x>> \in R)
  <2>. HIDE DEF R
  <2>1. IsWellFoundedOn(R, Nat)
    BY NatLessThanWellFounded, Zenon DEF R
  <2>. QED BY <2>1, WFMin, Zenon
<1>2. \A x, y \in Nat : <<y, x>> \in R <=> y < x
  BY DEF OpToRel
<1>. HIDE DEF R
<1>3. PICK x \in T : \A y \in T : ~(<<y, x>> \in R)
  BY <1>1
<1>4. \A y \in T : ~(y < x) /\ y \in Nat /\ x \in Nat
  BY <1>2, <1>3
<1>. QED BY <1>3, <1>4

LEMMA Induct ==
  ASSUME NEW P, 0 \in P, \A n \in Nat : n \in P => n + 1 \in P
  PROVE  Nat \subseteq P
<1>. SUFFICES ASSUME NEW m \in Nat, m \notin P PROVE FALSE
  OBVIOUS
<1>. DEFINE T == {n \in Nat : n \notin P}
<1>1. PICK x \in T : \A y \in T : x <= y
  <2>. T \subseteq Nat /\ T # {}
    OBVIOUS
  <2>. HIDE DEF T
  <2>. QED BY LeastNat
<1>2. x # 0 /\ x - 1 \in Nat /\ x - 1 \in P
  BY <1>1
<1>. QED BY <1>1, <1>2

-----------------------------------------------------------------------------
(* Where the blocks begin and end                                          *)

LEMMA BlockSize ==
  BLOCK \in Nat /\ MAX_MSG_LEN \in Nat /\ 0 < BLOCK /\ BLOCK < MAX_MSG_LEN
BY TransferAssumption DEF BLOCK

LEMMA TimesMonotone ==
  ASSUME NEW a \in Nat, NEW b \in Nat, a <= b, NEW c \in Nat, NEW d \in Nat, c <= d
  PROVE  a * c \in Nat /\ b * d \in Nat /\ a * c <= b * d
<1>1. PICK x \in Nat : b = a + x
  <2>1. b - a \in Nat /\ b = a + (b - a)
    OBVIOUS
  <2>. QED BY <2>1
<1>2. PICK y \in Nat : d = c + y
  <2>1. d - c \in Nat /\ d = c + (d - c)
    OBVIOUS
  <2>. QED BY <2>1
<1>3. b * d = a * c + a * y + x * c + x * y
  BY <1>1, <1>2
<1>4. a * c \in Nat /\ a * y \in Nat /\ x * c \in Nat /\ x * y \in Nat
  OBVIOUS
<1>. QED BY <1>3, <1>4

\* CeilDiv(n, d) blocks of d are enough for n bytes, and one less is not.
LEMMA CeilDivBounds ==
  ASSUME NEW n \in Nat, 0 < n, NEW d \in Nat, 0 < d
  PROVE  /\ CeilDiv(n, d) \in Nat /\ 0 < CeilDiv(n, d)
         /\ n <= CeilDiv(n, d) * d /\ (CeilDiv(n, d) - 1) * d < n
<1>. DEFINE a == n + d - 1
            q == a \div d
<1>1. a \in Nat /\ q \in Int
  OBVIOUS
<1>2. d * q <= a /\ a < d * q + d
  BY <1>1
<1>3. q >= 0
  OBVIOUS
<1>. HIDE DEF q
<1>4. q # 0
  BY <1>1, <1>2, <1>3
<1>5. q * d = d * q /\ (q - 1) * d = d * q - d /\ d * q \in Int
  BY <1>1
<1>6. q \in Nat /\ 0 < q /\ n <= q * d /\ (q - 1) * d < n
  BY <1>1, <1>2, <1>3, <1>4, <1>5
<1>. QED BY <1>6 DEF CeilDiv, q

\* n blocks cut bytes up: they begin in order and within the bytes.
GoodCut(n, bytes) ==
    /\ n \in Nat \ {0} /\ bytes \in Seq(Nat)
    /\ \A b \in 0..n : StartOf(n, bytes, b) \in 0..Len(bytes)
    /\ \A b \in 0..n-1 : StartOf(n, bytes, b) <= StartOf(n, bytes, b + 1)

LEMMA CutGood ==
  ASSUME NEW bytes \in Seq(Nat), bytes # << >>, NEW d \in Nat, BLOCK <= d
  PROVE  GoodCut(CeilDiv(Len(bytes), d), bytes)
<1>. DEFINE n == CeilDiv(Len(bytes), d)
<1>1. Len(bytes) \in Nat /\ 0 < Len(bytes)
  BY EmptySeq, LenProperties
<1>2. n \in Nat /\ 0 < n /\ (n - 1) * d < Len(bytes)
  <2>1. 0 < d
    BY BlockSize
  <2>. QED BY <1>1, <2>1, CeilDivBounds
<1>. HIDE DEF n
<1>3. ASSUME NEW b \in 0..n-1
      PROVE  b * BLOCK \in Nat /\ b * BLOCK < Len(bytes)
  <2>1. b * BLOCK \in Nat /\ (n - 1) * d \in Nat /\ b * BLOCK <= (n - 1) * d
    <3>1. b \in Nat /\ n - 1 \in Nat /\ b <= n - 1 /\ BLOCK \in Nat
      BY <1>2, BlockSize
    <3>. QED BY <3>1, TimesMonotone
  <2>. QED BY <1>1, <1>2, <2>1
<1>4. ASSUME NEW b \in 0..n
      PROVE  StartOf(n, bytes, b) \in 0..Len(bytes)
  BY <1>1, <1>2, <1>3 DEF StartOf
<1>5. ASSUME NEW b \in 0..n-1
      PROVE  StartOf(n, bytes, b) <= StartOf(n, bytes, b + 1)
  <2>1. StartOf(n, bytes, b) = b * BLOCK
    BY <1>2 DEF StartOf
  <2>2. CASE b + 1 = n
    BY <1>1, <1>3, <2>1, <2>2 DEF StartOf
  <2>3. CASE b + 1 # n
    <3>1. StartOf(n, bytes, b + 1) = (b + 1) * BLOCK
      BY <2>3 DEF StartOf
    <3>2. b \in Nat /\ b + 1 \in Nat /\ b <= b + 1 /\ BLOCK \in Nat
      BY BlockSize
    <3>3. b * BLOCK <= (b + 1) * BLOCK
      BY <3>2, TimesMonotone
    <3>. QED BY <2>1, <3>1, <3>3
  <2>. QED BY <2>2, <2>3
<1>. QED BY <1>2, <1>4, <1>5 DEF GoodCut, n

LEMMA CutEmpty == GoodCut(1, << >>)
<1>1. \A b \in 0..1 : StartOf(1, << >>, b) = 0
  BY BlockSize DEF StartOf
<1>. QED BY <1>1 DEF GoodCut

\* Piece b has the bytes from StartOf(b) + 1 to StartOf(b + 1).
LEMMA PieceSeq ==
  ASSUME NEW n, NEW bytes, GoodCut(n, bytes), NEW b \in 0..n-1
  PROVE  Piece(n, bytes, b) \in Seq(Nat)
<1>1. StartOf(n, bytes, b) \in 0..Len(bytes) /\ StartOf(n, bytes, b + 1) \in 0..Len(bytes)
  BY DEF GoodCut
<1>2. bytes \in Seq(Nat)
  BY DEF GoodCut
<1>3. \A i \in StartOf(n, bytes, b) + 1 .. StartOf(n, bytes, b + 1) : bytes[i] \in Nat
  BY <1>1, <1>2
<1>. QED BY <1>1, <1>3, SubSeqProperties DEF Piece

\* flatten, the function FlattenSeq is defined with.
FlatEq(f, g) == f = [i \in 1..Len(g) |-> IF i = 1 THEN g[i] ELSE f[i - 1] \o g[i]]

LEMMA FlattenIs ==
  ASSUME NEW g, Len(g) # 0
  PROVE  FlattenSeq(g) = (CHOOSE f : FlatEq(f, g))[Len(g)]
BY DEF FlattenSeq, FlatEq

\* All the pieces one after the other are the bytes.
LEMMA PiecesFlatten ==
  ASSUME NEW n, NEW bytes, GoodCut(n, bytes)
  PROVE  FlattenSeq([i \in 1..n |-> Piece(n, bytes, i - 1)]) = bytes
<1>. DEFINE g == [i \in 1..n |-> Piece(n, bytes, i - 1)]
            Upto(i) == SubSeq(bytes, 1, StartOf(n, bytes, i))
<1>1. n \in Nat /\ n # 0 /\ bytes \in Seq(Nat) /\ Len(bytes) \in Nat
  BY LenProperties DEF GoodCut
<1>2. Len(g) = n /\ \A i \in 1..n : g[i] = Piece(n, bytes, i - 1)
  BY <1>1
<1>3. Upto(1) = Piece(n, bytes, 0)
  <2>1. StartOf(n, bytes, 0) = 0
    BY <1>1, BlockSize DEF StartOf
  <2>2. 0 + 1 = 1
    OBVIOUS
  <2>. QED BY <2>1, <2>2, Zenon DEF Piece
<1>4. ASSUME NEW i \in 1..n-1
      PROVE  Upto(i) \o Piece(n, bytes, i) = Upto(i + 1)
  <2>. DEFINE k == StartOf(n, bytes, i)
              m == StartOf(n, bytes, i + 1)
  <2>1. k \in 0..Len(bytes) /\ m \in 0..Len(bytes) /\ k <= m
    BY <1>1 DEF GoodCut
  <2>2. Piece(n, bytes, i) = SubSeq(bytes, k + 1, m)
    BY DEF Piece
  <2>. HIDE DEF k, m
  <2>3. 1 \in 1..Len(bytes)+1 /\ k \in 1-1..Len(bytes) /\ m \in k..Len(bytes)
    BY <1>1, <2>1
  <2>4. SubSeq(bytes, 1, k) \o SubSeq(bytes, k + 1, m) = SubSeq(bytes, 1, m)
    BY <1>1, <2>3, ConcatAdjacentSubSeq
  <2>. QED BY <2>2, <2>4 DEF k, m
<1>. HIDE DEF g, Upto
<1>5. FlatEq([i \in 1..n |-> Upto(i)], g)
  <2>. DEFINE f == [i \in 1..n |-> Upto(i)]
  <2>1. ASSUME NEW i \in 1..n
        PROVE  f[i] = IF i = 1 THEN g[i] ELSE f[i - 1] \o g[i]
    <3>1. CASE i = 1
      BY <1>2, <1>3, <3>1
    <3>2. CASE i # 1
      <4>1. i - 1 \in 1..n-1 /\ (i - 1) + 1 = i
        BY <1>1, <3>2
      <4>2. Upto(i - 1) \o Piece(n, bytes, i - 1) = Upto(i)
        BY <1>4, <4>1
      <4>3. f[i - 1] = Upto(i - 1)
        BY <1>1, <4>1
      <4>. QED BY <1>2, <3>2, <4>2, <4>3
    <3>. QED BY <3>1, <3>2
  <2>. QED BY <1>2, <2>1 DEF FlatEq
<1>. DEFINE f == CHOOSE h : FlatEq(h, g)
<1>6. FlatEq(f, g)
  BY <1>5
<1>. HIDE DEF f
<1>7. \A i \in 1..n : f[i] = IF i = 1 THEN g[i] ELSE f[i - 1] \o g[i]
  BY <1>2, <1>6 DEF FlatEq
<1>8. f[n] = Upto(n)
  <2>. DEFINE P == {i \in Nat : i + 1 \in 1..n => f[i + 1] = Upto(i + 1)}
  <2>1. 0 \in P
    BY <1>1, <1>2, <1>3, <1>7
  <2>2. ASSUME NEW i \in Nat, i \in P
        PROVE  i + 1 \in P
    <3>. SUFFICES ASSUME i + 2 \in 1..n PROVE f[i + 2] = Upto(i + 2)
      <4>1. (i + 1) + 1 = i + 2
        OBVIOUS
      <4>. QED BY <4>1
    <3>1. i + 1 \in 1..n-1 /\ i + 1 \in 1..n /\ (i + 2) - 1 = i + 1 /\ (i + 1) + 1 = i + 2
      BY <1>1
    <3>2. f[i + 1] = Upto(i + 1)
      BY <2>2, <3>1
    <3>3. f[i + 2] = f[i + 1] \o Piece(n, bytes, i + 1)
      <4>1. i + 2 # 1 /\ i + 2 \in 1..n
        OBVIOUS
      <4>2. f[i + 2] = f[(i + 2) - 1] \o g[i + 2]
        BY <1>7, <4>1
      <4>3. g[i + 2] = Piece(n, bytes, (i + 2) - 1)
        BY <1>2, <4>1
      <4>. QED BY <3>1, <4>2, <4>3
    <3>4. Upto(i + 1) \o Piece(n, bytes, i + 1) = Upto(i + 2)
      BY <1>4, <3>1
    <3>. QED BY <3>2, <3>3, <3>4
  <2>3. Nat \subseteq P
    <3>. HIDE DEF P
    <3>. QED BY <2>1, <2>2, Induct
  <2>4. n - 1 \in Nat /\ (n - 1) + 1 = n /\ n \in 1..n
    BY <1>1
  <2>. QED BY <2>3, <2>4
<1>9. Upto(n) = bytes
  BY <1>1, SubSeqFull DEF Upto, StartOf
<1>10. FlattenSeq(g) = f[Len(g)]
  BY <1>1, <1>2, FlattenIs DEF f
<1>. QED BY <1>2, <1>8, <1>9, <1>10 DEF g

\* The messages of a reply, in order.
Reply(st, n, bytes) ==
    [i \in 1..n |-> Message(st, i - 1, n, Piece(n, bytes, i - 1), Piece(n, bytes, i - 1), bytes)]

LEMMA RespondReply ==
  ASSUME NEW st, NEW bytes \in Seq(Nat), bytes # << >>
  PROVE  respond(st, bytes) = Reply(st, CeilDiv(Len(bytes), MAX_MSG_LEN), bytes)
<1>. DEFINE n == CeilDiv(Len(bytes), MAX_MSG_LEN)
<1>1. n \in Nat
  <2>1. GoodCut(n, bytes)
    BY BlockSize, CutGood
  <2>. HIDE DEF n
  <2>. QED BY <2>1 DEF GoodCut
<1>2. \A i \in 1..n :
         SubSeq(bytes, (i - 1) * BLOCK + 1, IF i = n THEN Len(bytes) ELSE i * BLOCK)
           = Piece(n, bytes, i - 1)
  <2>. HIDE DEF n
  <2>1. \A i \in 1..n : i - 1 # n /\ (i - 1) + 1 = i
    BY <1>1
  <2>. QED BY <2>1 DEF Piece, StartOf
<1>. QED BY <1>2 DEF respond, Reply

LEMMA PyReply ==
  ASSUME NEW st, NEW bytes \in Seq(Nat)
  PROVE  PyBlocks(st, bytes) =
           Reply(st, IF bytes = << >> THEN 1 ELSE CeilDiv(Len(bytes), BLOCK), bytes)
<1>. DEFINE n == IF bytes = << >> THEN 1 ELSE CeilDiv(Len(bytes), BLOCK)
<1>1. Len(bytes) \in Nat /\ BLOCK \in Nat /\ 0 < BLOCK
  BY LenProperties, BlockSize
<1>2. /\ n \in Nat /\ 0 < n /\ Len(bytes) <= n * BLOCK
      /\ n # 1 => (n - 1) * BLOCK < Len(bytes)
  <2>1. CASE bytes = << >>
    BY <1>1, <2>1
  <2>2. CASE bytes # << >>
    <3>1. 0 < Len(bytes)
      BY <1>1, <2>2, EmptySeq
    <3>. QED BY <1>1, <2>2, <3>1, CeilDivBounds
  <2>. QED BY <2>1, <2>2
<1>3. ASSUME NEW i \in 1..n
      PROVE  SubSeq(bytes, (i - 1) * BLOCK + 1,
                    IF i * BLOCK < Len(bytes) THEN i * BLOCK ELSE Len(bytes))
               = Piece(n, bytes, i - 1)
  <2>. HIDE DEF n
  <2>1. i - 1 # n /\ (i - 1) + 1 = i
    BY <1>2
  <2>2. (IF i * BLOCK < Len(bytes) THEN i * BLOCK ELSE Len(bytes))
          = IF i = n THEN Len(bytes) ELSE i * BLOCK
    <3>1. CASE i = n
      <4>1. ~(i * BLOCK < Len(bytes))
        BY <1>1, <1>2, <3>1
      <4>. QED BY <3>1, <4>1
    <3>2. CASE i # n
      <4>1. i \in Nat /\ n - 1 \in Nat /\ i <= n - 1 /\ n # 1
        BY <1>2, <3>2
      <4>2. i * BLOCK <= (n - 1) * BLOCK /\ i * BLOCK \in Nat /\ (n - 1) * BLOCK \in Nat
        BY <1>1, <4>1, TimesMonotone
      <4>3. i * BLOCK < Len(bytes)
        BY <1>1, <1>2, <4>1, <4>2
      <4>. QED BY <3>2, <4>3
    <3>. QED BY <3>1, <3>2
  <2>. QED BY <2>1, <2>2 DEF Piece, StartOf
<1>. QED BY <1>3 DEF PyBlocks, Reply

-----------------------------------------------------------------------------
(* The inductive invariant                                                 *)

Messages == [status : {STATUS_OK, STATUS_BAD_REQUEST, STATUS_OTHER}, block : Nat,
             count : Nat, len : Nat, payload : Seq(Nat),
             hash : Seq(Nat) \cup {ZeroHash}, total : Seq(Nat) \cup {ZeroHash}]

\* A header's numbers fit its body, which may be cut short; the header of an
\* OK reply describes a block of the data.
GoodFor(n, bytes) ==
    {m \in Messages :
       /\ m.block < m.count /\ Len(m.payload) <= m.len
       /\ m.status = STATUS_OK =>
            /\ m.count = n /\ m.len = Len(Piece(n, bytes, m.block))
            /\ (m.hash = Piece(n, bytes, m.block) \/ bytes = << >>)}
WholeFor(n, bytes) == {m \in GoodFor(n, bytes) : Len(m.payload) = m.len}
GoodMessages == GoodFor(NBlocks, data)
WholeMessages == WholeFor(NBlocks, data)

FlowInv == wire \in Seq(GoodMessages) /\ tosend \in Seq(WholeMessages)

\* Nothing happens before the request is handled.
RequestInv ==
    /\ spc = "request" => /\ data = << >> /\ wire = << >> /\ tosend = << >>
                          /\ cpc = "first" /\ ~cut
    /\ cpc = "first" => DOMAIN got = {} /\ saved = NoFile

\* What the client keeps are blocks of the data, each under its number.
GotInv ==
    /\ DOMAIN got \subseteq 0..NBlocks - 1
    /\ \A b \in DOMAIN got : got[b] = Block(b)
    /\ (cpc = "next" \/ DOMAIN got # {}) => count = NBlocks

\* Between two C peers the blocks come in order and whole, and none is missing.
InFlight(i) == IF i <= Len(wire) THEN wire[i] ELSE tosend[i - Len(wire)]
InOrder ==
    /\ Held + Len(wire) + Len(tosend) = NBlocks
    /\ \A i \in 1..Len(wire) + Len(tosend) :
         /\ InFlight(i).status = STATUS_OK /\ InFlight(i).block = Held + i - 1
         /\ InFlight(i).payload = Block(Held + i - 1)
OrderInv ==
    /\ client = "c" => DOMAIN got = 0..Held - 1
    /\ server = "c" /\ client = "c" /\ data # << >> /\ Reading /\ ~cut =>
         InOrder /\ (spc = "send" \/ (spc = "closed" /\ tosend = << >>))

\* A reply not yet begun is complete, in some order.
FullReply(t, n, bytes) ==
    /\ Len(t) = n
    /\ \A i \in 1..n : /\ t[i].block \in 0..n-1 /\ t[i].count = n
                        /\ t[i].payload = Piece(n, bytes, t[i].block)
    /\ \A i, j \in 1..n : t[i].block = t[j].block => i = j
FreshInv ==
    (spc = "send" /\ wire = << >> /\ cpc = "first" /\ tosend # << >> /\ tosend[1].status = STATUS_OK)
    => FullReply(tosend, NBlocks, data)

BasicOK ==
    /\ server \in Servers /\ client \in Clients /\ file \in Files \cup {NoFile}
    /\ data \in Seq(Bytes)
    /\ spc \in {"request", "send", "closed", "killed"}
    /\ cpc \in {"first", "next", "saved", "failed", "crashed"}
    /\ cut \in BOOLEAN /\ overrun \in BOOLEAN

Core == BasicOK /\ FlowInv /\ RequestInv /\ GotInv

TransferInv == Core /\ OrderInv /\ FreshInv /\ SavedIsServed /\ WholeTransferKept

-----------------------------------------------------------------------------
(* Replies                                                                 *)

LEMMA BytesAreNat ==
  ASSUME NEW s \in Seq(Bytes)
  PROVE  s \in Seq(Nat)
<1>1. Bytes \subseteq Nat
  BY TransferAssumption
<1>. QED BY <1>1, SeqMonotonic

LEMMA CutOf ==
  ASSUME NEW program, NEW bytes \in Seq(Nat)
  PROVE  GoodCut(BlocksOf(program, bytes), bytes)
<1>1. CASE bytes = << >>
  BY <1>1, CutEmpty DEF BlocksOf
<1>2. CASE bytes # << >>
  BY <1>2, BlockSize, CutGood DEF BlocksOf
<1>. QED BY <1>1, <1>2

\* A reply consists of messages as the invariant wants them.
LEMMA ReplyGood ==
  ASSUME NEW st \in {STATUS_OK, STATUS_BAD_REQUEST, STATUS_OTHER},
         NEW n, NEW bytes, GoodCut(n, bytes),
         NEW k, NEW d, st = STATUS_OK => k = n /\ d = bytes
  PROVE  /\ Reply(st, n, bytes) \in Seq(WholeFor(k, d))
         /\ Len(Reply(st, n, bytes)) = n
<1>1. n \in Nat /\ bytes \in Seq(Nat)
  BY DEF GoodCut
<1>2. ASSUME NEW i \in 1..n
      PROVE  Message(st, i - 1, n, Piece(n, bytes, i - 1), Piece(n, bytes, i - 1), bytes)
                \in WholeFor(k, d)
  <2>1. i - 1 \in 0..n-1 /\ i - 1 \in Nat /\ i - 1 < n
    BY <1>1
  <2>2. Piece(n, bytes, i - 1) \in Seq(Nat)
    BY <2>1, PieceSeq
  <2>3. Len(Piece(n, bytes, i - 1)) \in Nat
    BY <2>2, LenProperties
  <2>. QED BY <1>1, <2>1, <2>2, <2>3 DEF Message, WholeFor, GoodFor, Messages
<1>3. \A i \in 1..n : Reply(st, n, bytes)[i] \in WholeFor(k, d)
  BY <1>2 DEF Reply
<1>. HIDE DEF WholeFor
<1>4. Reply(st, n, bytes) = [i \in 1..n |-> Reply(st, n, bytes)[i]]
  BY DEF Reply
<1>. QED BY <1>1, <1>3, <1>4

\* The reply for a file C could not open or found empty.
LEMMA EmptyReplyGood ==
  ASSUME NEW st \in {STATUS_OK, STATUS_BAD_REQUEST, STATUS_OTHER}
  PROVE  /\ respond(st, << >>) = << Message(st, 0, 1, << >>, ZeroHash, ZeroHash) >>
         /\ respond(st, << >>) \in Seq(WholeFor(1, << >>))
<1>1. Piece(1, << >>, 0) = << >>
  <2>1. StartOf(1, << >>, 0) = 0 /\ StartOf(1, << >>, 0 + 1) = 0
    BY BlockSize DEF StartOf
  <2>. QED BY <2>1, SubSeqEmpty DEF Piece
<1>2. Message(st, 0, 1, << >>, ZeroHash, ZeroHash) \in WholeFor(1, << >>)
  BY <1>1 DEF Message, WholeFor, GoodFor, Messages
<1>3. respond(st, << >>) = << Message(st, 0, 1, << >>, ZeroHash, ZeroHash) >>
  BY DEF respond
<1>4. \A S : \A m \in S : << m >> \in Seq(S)
  OBVIOUS
<1>. QED BY <1>2, <1>3, <1>4, Zenon

\* The C server reads the file up to its first 0xFF.
LEMMA UpToEofSeq ==
  ASSUME NEW f \in Seq(Bytes)
  PROVE  UpToEof(f) \in Seq(Bytes)
<1>. DEFINE stops == {i \in 1..Len(f) : f[i] = EofByte}
            first == CHOOSE i \in stops : \A j \in stops : i <= j
<1>1. CASE stops = {}
  BY <1>1 DEF UpToEof
<1>2. CASE stops # {}
  <2>1. stops \subseteq Nat
    BY LenProperties
  <2>2. first \in stops
    <3>1. \E i \in stops : \A j \in stops : i <= j
      <4>. HIDE DEF stops
      <4>. QED BY <1>2, <2>1, LeastNat
    <3>. QED BY <3>1
  <2>3. first \in 1..Len(f)
    BY <2>2
  <2>. HIDE DEF first
  <2>4. first - 1 \in Int /\ \A i \in 1..first - 1 : f[i] \in Bytes
    BY <2>3, LenProperties
  <2>5. SubSeq(f, 1, first - 1) \in Seq(Bytes)
    BY <2>4, SubSeqProperties
  <2>. QED BY <1>2, <2>5 DEF UpToEof, first
<1>. QED BY <1>1, <1>2

LEMMA ReplyFull ==
  ASSUME NEW st, NEW n, NEW bytes, GoodCut(n, bytes)
  PROVE  FullReply(Reply(st, n, bytes), n, bytes)
<1>1. n \in Nat
  BY DEF GoodCut
<1>2. Len(Reply(st, n, bytes)) = n
  BY <1>1 DEF Reply
<1>3. \A i \in 1..n : /\ Reply(st, n, bytes)[i].block = i - 1
                      /\ Reply(st, n, bytes)[i].count = n
                      /\ Reply(st, n, bytes)[i].payload = Piece(n, bytes, i - 1)
  BY DEF Reply, Message
<1>4. \A i \in 1..n : i - 1 \in 0..n-1
  BY <1>1
<1>5. \A i, j \in 1..n : i - 1 = j - 1 => i = j
  BY <1>1
<1>. QED BY <1>2, <1>3, <1>4, <1>5 DEF FullReply

\* Shuffling loses and repeats no block.
LEMMA OrdersFull ==
  ASSUME NEW S, NEW s \in Seq(S), NEW t \in Orders(s)
  PROVE  /\ t \in Seq(S) /\ Len(t) = Len(s)
         /\ \A i \in 1..Len(t) : \E k \in 1..Len(s) : t[i] = s[k]
         /\ \A n, bytes : FullReply(s, n, bytes) => FullReply(t, n, bytes)
<1>. DEFINE l == Len(s)
<1>1. l \in Nat /\ \A i \in 1..l : s[i] \in S
  BY LenProperties, ElementOfSeq
<1>2. PICK p \in [1..l -> 1..l] : IsInjective(p) /\ t = [i \in 1..l |-> s[p[i]]]
  BY DEF Orders
<1>. HIDE DEF l
<1>3. Len(t) = l /\ (\A i \in 1..l : p[i] \in 1..l /\ t[i] = s[p[i]])
  BY <1>1, <1>2
<1>4. t \in Seq(S)
  BY <1>1, <1>2
<1>5. \A i, j \in 1..l : p[i] = p[j] => i = j
  BY <1>2 DEF IsInjective
<1>6. ASSUME NEW n, NEW bytes, FullReply(s, n, bytes)
      PROVE  FullReply(t, n, bytes)
  BY <1>3, <1>5, <1>6 DEF FullReply, l
<1>. QED BY <1>3, <1>4, <1>6 DEF l

\* The blocks of a full reply, put in order, are the bytes.
LEMMA FullReplyCovers ==
  ASSUME NEW t, NEW n, NEW bytes, GoodCut(n, bytes), FullReply(t, n, bytes)
  PROVE  /\ {t[i].block : i \in 1..n} = 0..n-1
         /\ \A i \in 1..n : t[i].count = n
         /\ FlattenSeq([b \in 1..n |->
                          t[CHOOSE i \in 1..n : t[i].block = b - 1].payload]) = bytes
<1>1. n \in Nat
  BY DEF GoodCut
<1>. DEFINE f == [i \in 1..n |-> t[i].block]
            D == 1..n
            E == 0..n-1
<1>2. f \in Injection(D, E)
  BY DEF FullReply, Injection, IsInjective
<1>3. IsFiniteSet(D) /\ IsFiniteSet(E) /\ Cardinality(D) = Cardinality(E)
  <2>1. IsFiniteSet(1..n) /\ Cardinality(1..n) = IF 1 > n THEN 0 ELSE n - 1 + 1
    BY <1>1, FS_Interval
  <2>2. IsFiniteSet(0..n-1) /\ Cardinality(0..n-1) = IF 0 > n - 1 THEN 0 ELSE n - 1 - 0 + 1
    BY <1>1, FS_Interval
  <2>. QED BY <1>1, <2>1, <2>2
<1>4. f \in Surjection(D, E)
  <2>. HIDE DEF D, E, f
  <2>. QED BY <1>2, <1>3, FS_Injection
<1>5. \A b \in E : \E i \in D : t[i].block = b
  BY <1>4 DEF Surjection
<1>6. {t[i].block : i \in 1..n} = 0..n-1
  BY <1>5 DEF FullReply
<1>7. ASSUME NEW b \in 1..n
      PROVE  t[CHOOSE i \in 1..n : t[i].block = b - 1].payload = Piece(n, bytes, b - 1)
  <2>. DEFINE c == CHOOSE i \in 1..n : t[i].block = b - 1
  <2>1. c \in 1..n /\ t[c].block = b - 1
    <3>1. b - 1 \in 0..n-1
      BY <1>1
    <3>2. \E i \in 1..n : t[i].block = b - 1
      BY <1>5, <3>1
    <3>. QED BY <3>2
  <2>. HIDE DEF c
  <2>2. t[c].payload = Piece(n, bytes, b - 1)
    BY <2>1 DEF FullReply
  <2>. QED BY <2>2 DEF c
<1>8. [b \in 1..n |-> t[CHOOSE i \in 1..n : t[i].block = b - 1].payload]
        = [b \in 1..n |-> Piece(n, bytes, b - 1)]
  BY <1>7
<1>9. FlattenSeq([b \in 1..n |-> t[CHOOSE i \in 1..n : t[i].block = b - 1].payload]) = bytes
  BY <1>8, PiecesFlatten
<1>. QED BY <1>6, <1>9 DEF FullReply

-----------------------------------------------------------------------------
(* The request                                                             *)

\* What a server has ready to send when it has handled the request.
Ready(program, bytes, t) ==
    /\ bytes \in Seq(Bytes) /\ t \in Seq(WholeFor(BlocksOf(program, bytes), bytes))
    /\ t # << >> /\ t[1].status = STATUS_OK => FullReply(t, BlocksOf(program, bytes), bytes)
    /\ program = "c" /\ bytes # << >> => t = Reply(STATUS_OK, BlocksOf(program, bytes), bytes)

LEMMA StatusDistinct ==
  STATUS_OK # STATUS_BAD_REQUEST /\ STATUS_OK # STATUS_OTHER
BY DEF STATUS_OK, STATUS_BAD_REQUEST, STATUS_OTHER

LEMMA EmptyCReady ==
  ASSUME NEW st \in {STATUS_OK, STATUS_BAD_REQUEST, STATUS_OTHER}
  PROVE  Ready("c", << >>, respond(st, << >>))
<1>. DEFINE m == Message(st, 0, 1, << >>, ZeroHash, ZeroHash)
<1>1. respond(st, << >>) = << m >> /\ respond(st, << >>) \in Seq(WholeFor(1, << >>))
  BY EmptyReplyGood
<1>2. BlocksOf("c", << >>) = 1 /\ << >> \in Seq(Bytes)
  BY DEF BlocksOf
<1>3. m.block = 0 /\ m.count = 1 /\ m.payload = << >>
  BY DEF Message
<1>4. Piece(1, << >>, 0) = << >>
  <2>1. StartOf(1, << >>, 0) = 0 /\ StartOf(1, << >>, 0 + 1) = 0
    BY BlockSize DEF StartOf
  <2>. QED BY <2>1, SubSeqEmpty DEF Piece
<1>. HIDE DEF m
<1>5. Len(<< m >>) = 1 /\ \A i \in 1..1 : << m >>[i] = m /\ i = 1
  OBVIOUS
<1>6. FullReply(<< m >>, 1, << >>)
  BY <1>3, <1>4, <1>5 DEF FullReply
<1>. QED BY <1>1, <1>2, <1>6 DEF Ready

LEMMA PyTextReady ==
  ASSUME NEW program, NEW st \in {STATUS_BAD_REQUEST, STATUS_OTHER},
         NEW text \in Seq(Nat), text # << >>
  PROVE  Ready(program, << >>, PyBlocks(st, text))
<1>. DEFINE n == CeilDiv(Len(text), BLOCK)
            k == BlocksOf(program, << >>)
<1>1. << >> \in Seq(Bytes)
  OBVIOUS
<1>2. GoodCut(n, text)
  BY BlockSize, CutGood
<1>3. PyBlocks(st, text) = Reply(st, n, text)
  BY PyReply
<1>. HIDE DEF n, k
<1>4. Reply(st, n, text) \in Seq(WholeFor(k, << >>))
  BY <1>2, StatusDistinct, ReplyGood
<1>5. Reply(st, n, text)[1].status = st
  <2>1. 1 \in 1..n
    BY <1>2 DEF GoodCut
  <2>. QED BY <2>1 DEF Reply, Message
<1>. QED BY <1>1, <1>3, <1>4, <1>5, StatusDistinct DEF Ready, k

LEMMA PyErrorReady ==
  ASSUME NEW program, NEW st \in {STATUS_BAD_REQUEST, STATUS_OTHER}
  PROVE  Ready(program, << >>, PyError(st))
<1>1. << 0 >> \in Seq(Nat) /\ << 0 >> # << >>
  OBVIOUS
<1>. QED BY <1>1, PyTextReady DEF PyError

LEMMA ReplyReady ==
  ASSUME NEW program, NEW bytes \in Seq(Bytes)
  PROVE  Ready(program, bytes, Reply(STATUS_OK, BlocksOf(program, bytes), bytes))
<1>. DEFINE n == BlocksOf(program, bytes)
<1>1. GoodCut(n, bytes)
  BY BytesAreNat, CutOf
<1>2. Reply(STATUS_OK, n, bytes) \in Seq(WholeFor(n, bytes))
  BY <1>1, ReplyGood
<1>3. FullReply(Reply(STATUS_OK, n, bytes), n, bytes)
  BY <1>1, ReplyFull
<1>. QED BY <1>2, <1>3 DEF Ready

LEMMA Served ==
  ASSUME BasicOK, RequestInv, ServeMissing \/ ServeC \/ ServePy
  PROVE  Ready(server, data', tosend')
<1>1. data = << >> /\ server \in {"c", "py"}
  BY TransferAssumption DEF BasicOK, RequestInv, ServeMissing, ServeC, ServePy
<1>2. file # NoFile => file \in Seq(Bytes)
  BY TransferAssumption DEF BasicOK
<1>3. CASE ServeMissing
  <2>1. data' = << >>
    BY <1>1, <1>3 DEF ServeMissing
  <2>2. CASE server = "c"
    <3>1. tosend' = respond(STATUS_BAD_REQUEST, << >>)
      BY <1>3, <2>2 DEF ServeMissing
    <3>. QED BY <2>1, <2>2, <3>1, EmptyCReady
  <2>3. CASE server # "c"
    <3>1. tosend' = PyError(STATUS_BAD_REQUEST)
      BY <1>3, <2>3 DEF ServeMissing
    <3>. QED BY <2>1, <3>1, PyErrorReady
  <2>. QED BY <2>2, <2>3
<1>4. CASE ServeC
  <2>1. server = "c" /\ data' \in Seq(Bytes) /\ tosend' = respond(STATUS_OK, data')
    BY <1>2, <1>4, UpToEofSeq DEF ServeC
  <2>2. CASE data' = << >>
    BY <2>1, <2>2, EmptyCReady
  <2>3. CASE data' # << >>
    <3>1. tosend' = Reply(STATUS_OK, BlocksOf("c", data'), data')
      BY <2>1, <2>3, BytesAreNat, RespondReply DEF BlocksOf
    <3>. QED BY <2>1, <3>1, ReplyReady
  <2>. QED BY <2>2, <2>3
<1>5. CASE ServePy
  <2>1. server = "py" /\ server # "c" /\ file \in Seq(Bytes)
    BY <1>2, <1>5 DEF ServePy
  <2>2. CASE \E i \in 1..Len(file) : file[i] = EofByte
    <3>1. data' = << >> /\ tosend' = PyError(STATUS_OTHER)
      BY <1>1, <1>5, <2>2 DEF ServePy
    <3>. QED BY <3>1, PyErrorReady
  <2>3. CASE ~ \E i \in 1..Len(file) : file[i] = EofByte
    <3>. DEFINE n == BlocksOf(server, file)
                q == Reply(STATUS_OK, n, file)
    <3>1. data' = file /\ tosend' \in Orders(PyBlocks(STATUS_OK, file))
      BY <1>5, <2>3 DEF ServePy
    <3>2. PyBlocks(STATUS_OK, file) = q
      BY <2>1, BytesAreNat, PyReply DEF BlocksOf
    <3>3. Ready(server, file, q)
      BY <2>1, ReplyReady
    <3>. HIDE DEF n
    <3>4. GoodCut(n, file)
      BY <2>1, BytesAreNat, CutOf DEF n
    <3>5. FullReply(q, n, file)
      BY <3>4, ReplyFull
    <3>. HIDE DEF q
    <3>6. q \in Seq(WholeFor(n, file))
      BY <3>3 DEF Ready, n
    <3>7. tosend' \in Seq(WholeFor(n, file)) /\ FullReply(tosend', n, file)
      BY <3>1, <3>2, <3>5, <3>6, OrdersFull
    <3>. QED BY <2>1, <3>1, <3>7 DEF Ready, n
  <2>. QED BY <2>2, <2>3
<1>. QED BY <1>3, <1>4, <1>5

-----------------------------------------------------------------------------
(* Reading a block                                                         *)

LEMMA DataCut ==
  ASSUME BasicOK
  PROVE  /\ GoodCut(NBlocks, data) /\ NBlocks \in Nat /\ 0 < NBlocks
         /\ \A b \in 0..NBlocks - 1 : Block(b) \in Seq(Nat) /\ Len(Block(b)) \in Nat
<1>1. GoodCut(NBlocks, data)
  BY BytesAreNat, CutOf DEF BasicOK, NBlocks
<1>2. NBlocks \in Nat /\ 0 < NBlocks
  BY <1>1 DEF GoodCut
<1>3. \A b \in 0..NBlocks - 1 : Block(b) \in Seq(Nat)
  BY <1>1, PieceSeq DEF Block
<1>. QED BY <1>1, <1>2, <1>3, LenProperties

\* The client holds at most all the blocks, and when it has all it has the data.
LEMMA HeldBounds ==
  ASSUME BasicOK, GotInv
  PROVE  /\ IsFiniteSet(DOMAIN got) /\ Held \in Nat /\ Held <= NBlocks
         /\ Held = NBlocks => DOMAIN got = 0..NBlocks - 1
<1>. DEFINE D == 0..NBlocks - 1
<1>1. NBlocks \in Nat /\ 0 < NBlocks
  BY DataCut
<1>2. IsFiniteSet(D) /\ Cardinality(D) = NBlocks
  <2>1. IsFiniteSet(0..NBlocks - 1)
        /\ Cardinality(0..NBlocks - 1) = IF 0 > NBlocks - 1 THEN 0 ELSE (NBlocks - 1) - 0 + 1
    BY <1>1, FS_Interval
  <2>. QED BY <1>1, <2>1
<1>3. DOMAIN got \in SUBSET D
  BY DEF GotInv
<1>. HIDE DEF D
<1>4. /\ IsFiniteSet(DOMAIN got) /\ Cardinality(DOMAIN got) <= NBlocks
      /\ NBlocks = Cardinality(DOMAIN got) => D = DOMAIN got
  BY <1>2, <1>3, FS_Subset
<1>5. Held \in Nat
  BY <1>4, FS_CardinalityType DEF Held
<1>. QED BY <1>4, <1>5 DEF Held, D

LEMMA AllHeld ==
  ASSUME BasicOK, GotInv, Held >= NBlocks
  PROVE  Content = data
<1>1. Held = NBlocks /\ DOMAIN got = 0..NBlocks - 1 /\ NBlocks \in Nat
  BY HeldBounds, DataCut
<1>2. \A i \in 1..NBlocks : got[i - 1] = Piece(NBlocks, data, i - 1)
  <2>1. \A i \in 1..NBlocks : i - 1 \in 0..NBlocks - 1
    BY <1>1
  <2>. QED BY <1>1, <2>1 DEF GotInv, Block
<1>3. [i \in 1..Held |-> got[i - 1]] = [i \in 1..NBlocks |-> Piece(NBlocks, data, i - 1)]
  BY <1>1, <1>2
<1>. QED BY <1>3, DataCut, PiecesFlatten DEF Content

\* The client keeps a block as the server cut it, or gives up.
Kept(m) == m.status = STATUS_OK /\ cpc' = "next" /\ Keep(m.block, Block(m.block))
GaveUp == cpc' = "failed" /\ got' = got

LEMMA GoodHead ==
  ASSUME FlowInv, wire # << >>
  PROVE  /\ Head(wire) \in GoodMessages /\ Head(wire) = wire[1]
         /\ Tail(wire) \in Seq(GoodMessages)
BY HeadTailProperties DEF FlowInv

LEMMA GoodMessage ==
  ASSUME BasicOK, NEW m \in GoodMessages
  PROVE  /\ m.block \in Nat /\ m.count \in Nat /\ m.len \in Nat
         /\ m.payload \in Seq(Nat) /\ Len(m.payload) \in Nat
         /\ m.block < m.count /\ Len(m.payload) <= m.len
         /\ m.status = STATUS_OK =>
              /\ m.count = NBlocks /\ m.block \in 0..NBlocks - 1
              /\ m.len = Len(Block(m.block))
              /\ (m.hash = Block(m.block) \/ (data = << >> /\ Block(m.block) = << >>))
<1>1. m \in Messages /\ m.block < m.count /\ Len(m.payload) <= m.len
  BY DEF GoodMessages, GoodFor
<1>2. m.block \in Nat /\ m.count \in Nat /\ m.len \in Nat /\ m.payload \in Seq(Nat)
  BY <1>1 DEF Messages
<1>3. Len(m.payload) \in Nat
  BY <1>2, LenProperties
<1>4. ASSUME m.status = STATUS_OK
      PROVE  /\ m.count = NBlocks /\ m.block \in 0..NBlocks - 1
             /\ m.len = Len(Block(m.block))
             /\ (m.hash = Block(m.block) \/ (data = << >> /\ Block(m.block) = << >>))
  <2>1. /\ m.count = NBlocks /\ m.len = Len(Block(m.block))
        /\ (m.hash = Block(m.block) \/ data = << >>)
    BY <1>4 DEF GoodMessages, GoodFor, Block
  <2>2. m.block \in 0..NBlocks - 1
    BY <1>1, <1>2, <2>1
  <2>3. data = << >> => Block(m.block) = << >>
    <3>. SUFFICES ASSUME data = << >> PROVE Block(m.block) = << >>
      OBVIOUS
    <3>1. NBlocks = 1 /\ m.block = 0
      BY <1>1, <1>2, <2>1 DEF NBlocks, BlocksOf
    <3>2. StartOf(1, << >>, 0) = 0 /\ StartOf(1, << >>, 0 + 1) = 0
      BY BlockSize DEF StartOf
    <3>. QED BY <3>1, <3>2, SubSeqEmpty DEF Block, Piece
  <2>. QED BY <2>1, <2>2, <2>3
<1>. QED BY <1>1, <1>2, <1>3, <1>4

LEMMA EmptyIff ==
  ASSUME NEW s \in Seq(Nat)
  PROVE  Len(s) = 0 <=> s = << >>
BY EmptySeq

LEMMA CBlockEffect ==
  ASSUME BasicOK, FlowInv, CBlock
  PROVE  /\ wire # << >> /\ Head(wire) \in GoodMessages /\ wire' = Tail(wire)
         /\ (Kept(Head(wire)) /\ Expected(Head(wire))) \/ GaveUp
         /\ overrun' \in BOOLEAN
<1>. DEFINE m == Head(wire)
<1>1. wire # << >> /\ wire' = Tail(wire) /\ m \in GoodMessages
  BY GoodHead DEF CBlock
<1>. HIDE DEF m
<1>2. /\ m.payload \in Seq(Nat) /\ Len(m.payload) \in Nat /\ m.len \in Nat
      /\ Len(m.payload) <= m.len
  BY <1>1, GoodMessage
<1>3. CASE Expected(m)
  <2>1. PICK rest \in [1..m.len - Len(m.payload) -> Bytes] :
           IF m.payload \o rest = m.hash
           THEN /\ Keep(m.block, m.payload \o rest) /\ cpc' = "next"
                /\ overrun' = (overrun \/ Overruns(m))
           ELSE Fail
    BY <1>3 DEF CBlock, m
  <2>2. CASE m.payload \o rest = m.hash
    <3>1. m.status = STATUS_OK
      BY <1>3 DEF Expected
    <3>2. rest \in Seq(Nat) /\ Len(rest) = m.len - Len(m.payload)
      <4>1. m.len - Len(m.payload) \in Nat
        BY <1>2
      <4>2. rest \in [1..m.len - Len(m.payload) -> Nat]
        BY TransferAssumption
      <4>. QED BY <4>1, <4>2
    <3>3. m.payload \o rest \in Seq(Nat) /\ Len(m.payload \o rest) = m.len
      <4>1. /\ m.payload \o rest \in Seq(Nat)
            /\ Len(m.payload \o rest) = Len(m.payload) + Len(rest)
        BY <1>2, <3>2, ConcatProperties
      <4>. QED BY <1>2, <3>2, <4>1
    <3>4. m.payload \o rest = Block(m.block)
      <4>1. CASE m.hash = Block(m.block)
        BY <2>2, <4>1
      <4>2. CASE data = << >> /\ Block(m.block) = << >>
        <5>1. m.len = 0
          BY <1>1, <3>1, <4>2, GoodMessage
        <5>. QED BY <3>3, <4>2, <5>1, EmptyIff
      <4>. QED BY <1>1, <3>1, <4>1, <4>2, GoodMessage
    <3>5. overrun' \in BOOLEAN
      <4>1. Overruns(m) \in BOOLEAN
        BY DEF Overruns
      <4>. QED BY <2>1, <2>2, <4>1 DEF BasicOK
    <3>. QED BY <1>1, <1>3, <2>1, <2>2, <3>1, <3>4, <3>5 DEF Kept, m
  <2>3. CASE m.payload \o rest # m.hash
    BY <1>1, <2>1, <2>3 DEF Fail, GaveUp, BasicOK, m
  <2>. QED BY <2>2, <2>3
<1>4. CASE ~Expected(m)
  <2>1. Fail
    BY <1>4 DEF CBlock, m
  <2>. QED BY <1>1, <2>1 DEF Fail, GaveUp, BasicOK, m
<1>. QED BY <1>3, <1>4

LEMMA PyBlockEffect ==
  ASSUME BasicOK, FlowInv, PyBlock
  PROVE  /\ wire # << >> /\ Head(wire) \in GoodMessages /\ wire' = Tail(wire)
         /\ Kept(Head(wire)) \/ GaveUp
         /\ overrun' \in BOOLEAN
<1>. DEFINE m == Head(wire)
<1>1. wire # << >> /\ wire' = Tail(wire) /\ m \in GoodMessages
  BY GoodHead DEF PyBlock
<1>. HIDE DEF m
<1>2. /\ m.payload \in Seq(Nat) /\ Len(m.payload) \in Nat /\ m.len \in Nat
      /\ Len(m.payload) <= m.len
  BY <1>1, GoodMessage
<1>3. PICK n \in 0..Len(m.payload) :
         IF m.status = STATUS_OK /\ SubSeq(m.payload, 1, n) = m.hash
         THEN Keep(m.block, SubSeq(m.payload, 1, n)) /\ cpc' = "next" /\ overrun' = overrun
         ELSE Fail
  BY DEF PyBlock, m
<1>4. CASE m.status = STATUS_OK /\ SubSeq(m.payload, 1, n) = m.hash
  <2>1. SubSeq(m.payload, 1, n) = Block(m.block)
    <3>1. CASE m.hash = Block(m.block)
      BY <1>4, <3>1
    <3>2. CASE data = << >> /\ Block(m.block) = << >>
      <4>1. m.len = 0
        BY <1>1, <1>4, <3>2, GoodMessage
      <4>2. n = 0
        BY <1>2, <4>1
      <4>. QED BY <3>2, <4>2, SubSeqEmpty
    <3>. QED BY <1>1, <1>4, <3>1, <3>2, GoodMessage
  <2>. QED BY <1>1, <1>3, <1>4, <2>1 DEF Kept, BasicOK, m
<1>5. CASE ~(m.status = STATUS_OK /\ SubSeq(m.payload, 1, n) = m.hash)
  BY <1>1, <1>3, <1>5 DEF Fail, GaveUp, BasicOK, m
<1>. QED BY <1>4, <1>5

-----------------------------------------------------------------------------
(* The steps, grouped by what they change                                  *)

LEMMA InitInv == Init => TransferInv
<1>. SUFFICES ASSUME Init PROVE TransferInv
  OBVIOUS
<1>1. BasicOK
  <2>1. << >> \in Seq(Bytes) /\ FALSE \in BOOLEAN
    OBVIOUS
  <2>. QED BY <2>1 DEF Init, BasicOK
<1>2. FlowInv /\ RequestInv
  BY DEF Init, FlowInv, RequestInv
<1>3. DOMAIN got = {} /\ Held = 0
  BY FS_EmptySet DEF Init, Held
<1>4. GotInv
  BY <1>3 DEF Init, GotInv
<1>5. OrderInv
  BY <1>3 DEF Init, OrderInv
<1>6. FreshInv /\ SavedIsServed /\ WholeTransferKept
  BY DEF Init, FreshInv, SavedIsServed, WholeTransferKept
<1>. QED BY <1>1, <1>2, <1>4, <1>5, <1>6 DEF TransferInv, Core

\* The request is handled: everything is still to be sent.
LEMMA ServeStep ==
  ASSUME TransferInv, ServeMissing \/ ServeC \/ ServePy
  PROVE  TransferInv'
<1>1. BasicOK /\ RequestInv
  BY DEF TransferInv, Core
<1>2. /\ spc = "request" /\ spc' = "send"
      /\ UNCHANGED <<server, file, wire, cut, client, cpc, count, total, got, overrun, saved>>
  BY DEF ServeMissing, ServeC, ServePy, clientVars
<1>3. wire = << >> /\ cpc = "first" /\ DOMAIN got = {} /\ saved = NoFile
  BY <1>1, <1>2 DEF RequestInv
<1>4. Ready(server, data', tosend')
  BY <1>1, Served
<1>5. BasicOK'
  BY <1>1, <1>2, <1>4 DEF BasicOK, Ready
<1>6. FlowInv'
  <2>1. WholeMessages' = WholeFor(BlocksOf(server, data'), data')
    BY <1>2 DEF WholeMessages, NBlocks
  <2>. QED BY <1>2, <1>3, <1>4, <2>1 DEF FlowInv, Ready
<1>7. RequestInv' /\ SavedIsServed' /\ WholeTransferKept'
  BY <1>2, <1>3 DEF RequestInv, SavedIsServed, WholeTransferKept
<1>8. GotInv'
  BY <1>2, <1>3 DEF GotInv
<1>9. FreshInv'
  BY <1>2, <1>4 DEF FreshInv, Ready, NBlocks
<1>10. OrderInv'
  <2>1. DOMAIN got' = {} /\ Held' = 0
    BY <1>2, <1>3, FS_EmptySet DEF Held
  <2>2. ASSUME server' = "c", data' # << >>
        PROVE  InOrder'
    <3>. DEFINE n == BlocksOf(server, data')
    <3>1. NBlocks' = n /\ n \in Nat
      <4>1. data' \in Seq(Nat)
        BY <1>5, BytesAreNat DEF BasicOK
      <4>2. GoodCut(n, data')
        BY <4>1, CutOf
      <4>. QED BY <1>2, <4>2 DEF NBlocks, GoodCut
    <3>2. tosend' = Reply(STATUS_OK, n, data')
      BY <1>2, <1>4, <2>2 DEF Ready
    <3>. HIDE DEF n
    <3>3. Len(wire') = 0 /\ Len(tosend') = n
      BY <1>2, <1>3, <3>1, <3>2 DEF Reply
    <3>4. ASSUME NEW i \in 1..n
          PROVE  (/\ InFlight(i).status = STATUS_OK /\ InFlight(i).block = Held + i - 1
                  /\ InFlight(i).payload = Block(Held + i - 1))'
      <4>1. InFlight(i)' = tosend'[i]
        BY <3>1, <3>3 DEF InFlight
      <4>2. /\ tosend'[i].status = STATUS_OK /\ tosend'[i].block = i - 1
            /\ tosend'[i].payload = Piece(n, data', i - 1)
        BY <3>2 DEF Reply, Message
      <4>3. Held' + i - 1 = i - 1
        BY <2>1, <3>1
      <4>4. Block(Held + i - 1)' = Piece(n, data', i - 1)
        BY <2>1, <3>1, <4>3 DEF Block
      <4>. QED BY <4>1, <4>2, <4>3, <4>4
    <3>5. Len(wire') + Len(tosend') = n /\ Held' + Len(wire') + Len(tosend') = n
      BY <2>1, <3>1, <3>3
    <3>. QED BY <3>1, <3>4, <3>5 DEF InOrder
  <2>. QED BY <1>2, <2>1, <2>2 DEF OrderInv
<1>. QED BY <1>5, <1>6, <1>7, <1>8, <1>9, <1>10 DEF TransferInv, Core

\* Cutting the body of a message short leaves its header as it was.
LEMMA CutShort ==
  ASSUME NEW k, NEW d, NEW m \in WholeFor(k, d), NEW n \in 0..m.len - 1
  PROVE  [m EXCEPT !.payload = SubSeq(@, 1, n)] \in GoodFor(k, d)
<1>1. m \in Messages /\ m.len \in Nat /\ m.payload \in Seq(Nat) /\ Len(m.payload) = m.len
  BY DEF WholeFor, GoodFor, Messages
<1>2. n \in Int /\ 1 \in Int /\ \A i \in 1..n : m.payload[i] \in Nat
  BY <1>1, LenProperties
<1>3. SubSeq(m.payload, 1, n) \in Seq(Nat) /\ Len(SubSeq(m.payload, 1, n)) = n
  <2>1. /\ SubSeq(m.payload, 1, n) \in Seq(Nat)
        /\ Len(SubSeq(m.payload, 1, n)) = IF 1 <= n THEN n - 1 + 1 ELSE 0
    BY <1>2, SubSeqProperties
  <2>. QED BY <1>1, <2>1
<1>. DEFINE body == SubSeq(m.payload, 1, n)
            r == [m EXCEPT !.payload = body]
<1>. HIDE DEF body
<1>4. /\ r.status = m.status /\ r.block = m.block /\ r.count = m.count /\ r.len = m.len
      /\ r.hash = m.hash /\ r.payload = body
  BY <1>1 DEF Messages
<1>5. r \in Messages
  BY <1>1, <1>3 DEF Messages, body
<1>6. Len(body) <= m.len
  BY <1>1, <1>3 DEF body
<1>. HIDE DEF r
<1>7. r \in GoodFor(k, d)
  BY <1>4, <1>5, <1>6 DEF WholeFor, GoodFor
<1>. QED BY <1>7 DEF r, body

LEMMA Frame ==
  ASSUME UNCHANGED <<server, data>>
  PROVE  /\ NBlocks' = NBlocks /\ GoodMessages' = GoodMessages
         /\ WholeMessages' = WholeMessages
         /\ \A b : Block(b)' = Block(b)
BY DEF NBlocks, GoodMessages, WholeMessages, Block

LEMMA WholeIsGood == WholeMessages \subseteq GoodMessages
BY DEF WholeMessages, GoodMessages, WholeFor

\* The server writes, is refused, fails, closes or dies: the client's part is as
\* before.
LEMMA SendStep ==
  ASSUME TransferInv,
         \/ ServerSend \/ ServerSendClosed \/ ServerClose
         \/ ServerWriteFails \/ ServerDies
  PROVE  TransferInv'
<1>1. /\ BasicOK /\ FlowInv /\ RequestInv /\ GotInv /\ OrderInv /\ FreshInv
      /\ SavedIsServed /\ WholeTransferKept
  BY DEF TransferInv, Core
<1>2. /\ UNCHANGED <<server, file, data, client, cpc, count, total, got, overrun, saved>>
      /\ spc' \in {"send", "closed", "killed"}
      /\ cut' \in BOOLEAN /\ (cut => cut')
  BY <1>1 DEF ServerSend, ServerSendClosed, ServerClose, ServerWriteFails, ServerDies, CutOff,
              clientVars, BasicOK
<1>3. /\ NBlocks' = NBlocks /\ GoodMessages' = GoodMessages /\ WholeMessages' = WholeMessages
      /\ \A b : Block(b)' = Block(b)
  BY <1>2, Frame
<1>4. Held' = Held /\ Content' = Content
  BY <1>2 DEF Held, Content
<1>5. BasicOK'
  BY <1>1, <1>2 DEF BasicOK
<1>6. ASSUME tosend # << >>
      PROVE  /\ Head(tosend) \in WholeMessages /\ Tail(tosend) \in Seq(WholeMessages)
             /\ Len(Tail(tosend)) = Len(tosend) - 1 /\ Len(tosend) \in Nat \ {0}
             /\ Head(tosend) = tosend[1]
             /\ \A i \in 1..Len(tosend) - 1 : Tail(tosend)[i] = tosend[i + 1]
  BY <1>1, <1>6, HeadTailProperties, EmptySeq DEF FlowInv
<1>7. ASSUME NEW m \in GoodMessages
      PROVE  /\ Append(wire, m) \in Seq(GoodMessages)
             /\ Len(Append(wire, m)) = Len(wire) + 1 /\ Len(wire) \in Nat
             /\ Append(wire, m)[Len(wire) + 1] = m
             /\ \A i \in 1..Len(wire) : Append(wire, m)[i] = wire[i]
  BY <1>1, AppendProperties, LenProperties DEF FlowInv
<1>8. FlowInv'
  <2>1. CASE ServerSend
    <3>1. tosend # << >> /\ wire' = Append(wire, Head(tosend)) /\ tosend' = Tail(tosend)
      BY <2>1 DEF ServerSend
    <3>2. Head(tosend) \in GoodMessages
      BY <1>6, <3>1, WholeIsGood
    <3>3. wire' \in Seq(GoodMessages)
      BY <1>7, <3>1, <3>2
    <3>4. tosend' \in Seq(WholeMessages)
      BY <1>6, <3>1
    <3>. QED BY <1>3, <3>3, <3>4 DEF FlowInv
  <2>2. CASE ServerSendClosed \/ ServerClose
    <3>1. wire' = wire /\ (tosend' = tosend \/ tosend' = << >>
                           \/ (tosend # << >> /\ tosend' = Tail(tosend)))
      BY <2>2 DEF ServerSendClosed, ServerClose
    <3>2. << >> \in Seq(WholeMessages)
      OBVIOUS
    <3>3. tosend' \in Seq(WholeMessages)
      BY <1>1, <1>6, <3>1, <3>2 DEF FlowInv
    <3>. QED BY <1>1, <1>3, <3>1, <3>3 DEF FlowInv
  <2>3. CASE CutOff
    <3>1. tosend' = << >>
      BY <2>3 DEF CutOff
    <3>2. CASE wire' = wire
      BY <1>1, <1>3, <3>1, <3>2 DEF FlowInv
    <3>3. ASSUME tosend # << >>, NEW n \in 0..Head(tosend).len - 1,
                 wire' = Append(wire, [Head(tosend) EXCEPT !.payload = SubSeq(@, 1, n)])
          PROVE  FlowInv'
      <4>1. [Head(tosend) EXCEPT !.payload = SubSeq(@, 1, n)] \in GoodMessages
        BY <1>6, <3>3, CutShort DEF GoodMessages, WholeMessages
      <4>2. wire' \in Seq(GoodMessages)
        BY <1>7, <3>3, <4>1
      <4>. QED BY <1>3, <3>1, <4>2 DEF FlowInv
    <3>. QED BY <2>3, <3>2, <3>3 DEF CutOff
  <2>. QED BY <2>1, <2>2, <2>3 DEF ServerWriteFails, ServerDies
<1>9. RequestInv' /\ GotInv'
  BY <1>1, <1>2, <1>3 DEF RequestInv, GotInv
<1>10. SavedIsServed' /\ WholeTransferKept'
  BY <1>1, <1>2, <1>4 DEF SavedIsServed, WholeTransferKept
<1>11. FreshInv'
  <2>1. CASE ServerSend
    <3>1. wire' # << >>
      BY <1>6, <1>7, <2>1, WholeIsGood DEF ServerSend
    <3>. QED BY <3>1 DEF FreshInv
  <2>2. CASE ServerSendClosed \/ ServerClose \/ CutOff
    BY <1>2, <2>2 DEF ServerSendClosed, ServerClose, CutOff, FreshInv, Reading
  <2>. QED BY <2>1, <2>2 DEF ServerWriteFails, ServerDies
<1>12. OrderInv'
  <2>1. client' = "c" => DOMAIN got' = 0..Held' - 1
    BY <1>1, <1>2, <1>4 DEF OrderInv
  <2>2. ASSUME server' = "c", client' = "c", data' # << >>, Reading', ~cut'
        PROVE  InOrder' /\ (spc' = "send" \/ (spc' = "closed" /\ tosend' = << >>))
    <3>1. InOrder /\ Reading /\ (spc = "send" \/ (spc = "closed" /\ tosend = << >>))
      BY <1>1, <1>2, <2>2 DEF OrderInv, Reading
    <3>2. CASE ServerSend
      <4>. DEFINE m == Head(tosend)
      <4>1. tosend # << >> /\ wire' = Append(wire, m) /\ tosend' = Tail(tosend) /\ spc' = "send"
        BY <3>2 DEF ServerSend
      <4>2. m \in GoodMessages
        BY <1>6, <4>1, WholeIsGood
      <4>. HIDE DEF m
      <4>3. /\ Len(wire) \in Nat /\ Len(tosend) \in Nat \ {0}
            /\ Len(wire') = Len(wire) + 1 /\ Len(tosend') = Len(tosend) - 1
        BY <1>6, <1>7, <4>1, <4>2
      <4>4. Len(wire') + Len(tosend') = Len(wire) + Len(tosend)
        BY <4>3
      <4>5. ASSUME NEW i \in 1..Len(wire) + Len(tosend)
            PROVE  InFlight(i)' = InFlight(i)
        <5>1. CASE i <= Len(wire)
          <6>1. InFlight(i) = wire[i] /\ i \in 1..Len(wire)
            BY <4>3, <5>1 DEF InFlight
          <6>2. InFlight(i)' = wire'[i]
            BY <4>3, <5>1 DEF InFlight
          <6>. QED BY <1>7, <4>1, <4>2, <6>1, <6>2
        <5>2. CASE i = Len(wire) + 1
          <6>1. InFlight(i) = tosend[i - Len(wire)] /\ i - Len(wire) = 1
            BY <4>3, <5>2 DEF InFlight
          <6>2. InFlight(i)' = wire'[i]
            BY <4>3, <5>2 DEF InFlight
          <6>3. wire'[i] = m /\ tosend[1] = m
            BY <1>6, <1>7, <4>1, <4>2, <5>2 DEF m
          <6>. QED BY <6>1, <6>2, <6>3
        <5>3. CASE i > Len(wire) + 1
          <6>. DEFINE j == i - Len(wire) - 1
          <6>1. j \in 1..Len(tosend) - 1 /\ i - Len(wire') = j /\ i - Len(wire) = j + 1
            BY <4>3, <5>3
          <6>2. InFlight(i) = tosend[j + 1]
            BY <4>3, <5>3, <6>1 DEF InFlight
          <6>3. InFlight(i)' = tosend'[j]
            BY <4>3, <5>3, <6>1 DEF InFlight
          <6>4. tosend'[j] = tosend[j + 1]
            BY <1>6, <4>1, <6>1
          <6>. QED BY <6>2, <6>3, <6>4
        <5>. QED BY <4>3, <5>1, <5>2, <5>3
      <4>6. InOrder'
        <5>1. Held' + Len(wire') + Len(tosend') = NBlocks'
          <6>1. Held + Len(wire) + Len(tosend) = NBlocks
            BY <3>1 DEF InOrder
          <6>2. Held \in Nat
            BY <1>1, HeldBounds
          <6>. QED BY <1>3, <1>4, <4>3, <6>1, <6>2
        <5>2. ASSUME NEW i \in 1..Len(wire') + Len(tosend')
              PROVE  (/\ InFlight(i).status = STATUS_OK /\ InFlight(i).block = Held + i - 1
                      /\ InFlight(i).payload = Block(Held + i - 1))'
          <6>1. i \in 1..Len(wire) + Len(tosend)
            BY <4>4
          <6>2. /\ InFlight(i).status = STATUS_OK /\ InFlight(i).block = Held + i - 1
                /\ InFlight(i).payload = Block(Held + i - 1)
            BY <3>1, <6>1 DEF InOrder
          <6>3. Block(Held + i - 1)' = Block(Held + i - 1)
            BY <1>2, <1>3, <1>4 DEF Block
          <6>. QED BY <1>4, <4>5, <6>1, <6>2, <6>3
        <5>. QED BY <5>1, <5>2 DEF InOrder
      <4>. QED BY <4>1, <4>6
    <3>3. CASE ServerClose
      <4>1. wire' = wire /\ tosend' = tosend /\ tosend = << >> /\ spc' = "closed"
        BY <3>3 DEF ServerClose
      <4>2. InOrder'
        BY <1>2, <1>3, <1>4, <3>1, <4>1 DEF InOrder, InFlight, Block
      <4>. QED BY <4>1, <4>2
    <3>4. ~ServerSendClosed /\ ~ServerWriteFails /\ ~ServerDies
      BY <2>2, <3>1 DEF ServerSendClosed, ServerWriteFails, ServerDies, CutOff
    <3>. QED BY <3>2, <3>3, <3>4
  <2>. QED BY <2>1, <2>2 DEF OrderInv
<1>. QED BY <1>5, <1>8, <1>9, <1>10, <1>11, <1>12 DEF TransferInv, Core

\* Steps that end the client's reading: all it holds stays, and what is saved
\* is all of it.
LEMMA EndStep ==
  ASSUME TransferInv, CCrash \/ CSave \/ PySave \/ StreamEnds \/ SaveFails
  PROVE  TransferInv'
<1>1. /\ BasicOK /\ FlowInv /\ RequestInv /\ GotInv /\ OrderInv /\ FreshInv
      /\ SavedIsServed /\ WholeTransferKept
  BY DEF TransferInv, Core
<1>2. /\ UNCHANGED <<server, file, data, spc, tosend, wire, cut, client, count, total, got>>
      /\ cpc \in {"first", "next"} /\ cpc' \in {"saved", "failed", "crashed"}
      /\ overrun' \in BOOLEAN
  BY <1>1 DEF CCrash, CSave, PySave, StreamEnds, SaveFails, Reading, serverVars, BasicOK
<1>3. /\ NBlocks' = NBlocks /\ GoodMessages' = GoodMessages /\ WholeMessages' = WholeMessages
      /\ \A b : Block(b)' = Block(b)
  BY <1>2, Frame
<1>4. Held' = Held /\ Content' = Content
  BY <1>2 DEF Held, Content
<1>5. Held \in Nat /\ NBlocks \in Nat /\ 0 < NBlocks
  BY <1>1, HeldBounds, DataCut
<1>6. BasicOK'
  BY <1>1, <1>2 DEF BasicOK
<1>7. FlowInv' /\ GotInv'
  BY <1>1, <1>2, <1>3 DEF FlowInv, GotInv
<1>8. spc # "request"
  <2>1. SUFFICES ASSUME spc = "request" PROVE FALSE
    OBVIOUS
  <2>2. cpc = "first" /\ wire = << >>
    BY <1>1, <2>1 DEF RequestInv
  <2>. QED BY <2>1, <2>2 DEF CCrash, CSave, PySave, StreamEnds, SaveFails
<1>9. RequestInv' /\ FreshInv'
  BY <1>2, <1>8 DEF RequestInv, FreshInv
<1>10. OrderInv'
  BY <1>1, <1>2, <1>4 DEF OrderInv, Reading
<1>11. ASSUME cpc = "next", Held >= count
       PROVE  Content = data
  <2>1. count = NBlocks
    BY <1>1, <1>11 DEF GotInv
  <2>. QED BY <1>1, <1>11, <2>1, AllHeld
<1>12. SavedIsServed'
  <2>1. CASE CSave \/ PySave
    <3>1. cpc = "next" /\ Held >= count /\ saved' \in {saved, Content}
      <4>1. CASE CSave
        BY <4>1 DEF CSave
      <4>2. CASE PySave
        BY <1>5, <4>2 DEF PySave
      <4>. QED BY <2>1, <4>1, <4>2
    <3>. QED BY <1>1, <1>2, <1>11, <3>1 DEF SavedIsServed
  <2>2. CASE CCrash \/ StreamEnds \/ SaveFails
    BY <1>1, <1>2, <2>2 DEF CCrash, StreamEnds, SaveFails, SavedIsServed
  <2>. QED BY <2>1, <2>2
<1>13. WholeTransferKept'
  <2>. SUFFICES ASSUME cpc' = "failed", ~cut, client = "c", server = "c", data # << >>
                PROVE  Content = data
    BY <1>2, <1>4 DEF WholeTransferKept
  <2>1. CASE CSave \/ PySave \/ SaveFails
    <3>1. cpc = "next" /\ Held >= count
      <4>1. CASE CSave
        BY <4>1 DEF CSave
      <4>2. CASE PySave \/ SaveFails
        BY <1>5, <4>2 DEF PySave, SaveFails
      <4>. QED BY <2>1, <4>1, <4>2
    <3>. QED BY <1>11, <3>1
  <2>2. CASE CCrash
    BY <2>2 DEF CCrash
  <2>3. CASE StreamEnds
    <3>1. Reading /\ wire = << >> /\ (cpc = "first" \/ Held < count) /\ spc \in {"closed", "killed"}
      BY <2>3 DEF StreamEnds
    <3>2. InOrder /\ tosend = << >>
      BY <1>1, <3>1 DEF OrderInv
    <3>3. Held = NBlocks
      <4>1. Held + 0 + 0 = NBlocks
        BY <3>1, <3>2 DEF InOrder
      <4>. QED BY <1>5, <4>1
    <3>. QED BY <1>1, <1>5, <3>3, AllHeld
  <2>. QED BY <2>1, <2>2, <2>3
<1>. QED BY <1>6, <1>7, <1>9, <1>10, <1>12, <1>13 DEF TransferInv, Core

\* A block that is the next one and whole is accepted by the C client.
LEMMA WholeBlockAccepted ==
  ASSUME BasicOK, FlowInv, CBlock, data # << >>,
         Head(wire).status = STATUS_OK, Head(wire).block = Held,
         Head(wire).payload = Block(Held)
  PROVE  cpc' = "next"
<1>. DEFINE m == Head(wire)
<1>1. m \in GoodMessages
  BY GoodHead DEF CBlock
<1>2. m.status = STATUS_OK /\ m.block = Held /\ m.payload = Block(m.block)
  OBVIOUS
<1>. HIDE DEF m
<1>3. m.hash = m.payload /\ m.len = Len(m.payload) /\ m.payload \in Seq(Nat) /\ m.len \in Nat
  BY <1>1, <1>2, GoodMessage
<1>4. Expected(m)
  BY <1>2, <1>3, EmptyIff DEF Expected
<1>5. PICK rest \in [1..m.len - Len(m.payload) -> Bytes] :
         IF m.payload \o rest = m.hash
         THEN /\ Keep(m.block, m.payload \o rest) /\ cpc' = "next"
              /\ overrun' = (overrun \/ Overruns(m))
         ELSE Fail
  BY <1>4 DEF CBlock, m
<1>6. rest = << >>
  <2>1. m.len - Len(m.payload) = 0
    BY <1>3
  <2>2. rest \in [1..0 -> Bytes]
    BY <2>1
  <2>. QED BY <2>2
<1>7. m.payload \o rest = m.hash
  BY <1>3, <1>6, ConcatEmptySeq
<1>. QED BY <1>5, <1>7

LEMMA ReadStep ==
  ASSUME TransferInv, CBlock \/ PyBlock
  PROVE  TransferInv'
<1>1. /\ BasicOK /\ FlowInv /\ RequestInv /\ GotInv /\ OrderInv /\ FreshInv
      /\ SavedIsServed /\ WholeTransferKept
  BY DEF TransferInv, Core
<1>. DEFINE m == Head(wire)
<1>2. /\ UNCHANGED <<server, file, data, spc, tosend, cut, client, saved>>
      /\ cpc \in {"first", "next"} /\ FirstHeader(m)
  BY DEF CBlock, PyBlock, Reading, serverVars
<1>3. /\ wire # << >> /\ m \in GoodMessages /\ wire' = Tail(wire) /\ wire' \in Seq(GoodMessages)
      /\ m = wire[1] /\ Len(wire) \in Nat \ {0} /\ Len(wire') = Len(wire) - 1
      /\ \A i \in 1..Len(wire) - 1 : wire'[i] = wire[i + 1]
  <2>1. wire # << >> /\ wire' = Tail(wire)
    BY DEF CBlock, PyBlock
  <2>2. m \in GoodMessages /\ m = wire[1]
    BY <1>1, <2>1, GoodHead
  <2>. QED BY <1>1, <2>1, <2>2, HeadTailProperties, EmptySeq DEF FlowInv
<1>4. /\ (Kept(m) /\ (client = "c" => m.block = Held)) \/ GaveUp
      /\ overrun' \in BOOLEAN
  <2>1. CASE CBlock
    BY <1>1, <2>1, CBlockEffect DEF Expected
  <2>2. CASE PyBlock
    <3>1. client # "c"
      BY <2>2 DEF PyBlock
    <3>. QED BY <1>1, <2>2, <3>1, PyBlockEffect
  <2>. QED BY <2>1, <2>2
<1>. HIDE DEF m
<1>5. /\ NBlocks' = NBlocks /\ GoodMessages' = GoodMessages /\ WholeMessages' = WholeMessages
      /\ \A b : Block(b)' = Block(b)
  BY <1>2, Frame
<1>6. cpc' \in {"next", "failed"}
  BY <1>4 DEF Kept, GaveUp
<1>7. BasicOK'
  BY <1>1, <1>2, <1>4, <1>6 DEF BasicOK
<1>8. FlowInv'
  BY <1>1, <1>2, <1>3, <1>5 DEF FlowInv
<1>9. spc # "request"
  BY <1>1, <1>3 DEF RequestInv
<1>10. RequestInv' /\ FreshInv' /\ SavedIsServed'
  BY <1>1, <1>2, <1>6, <1>9 DEF RequestInv, FreshInv, SavedIsServed
<1>11. ASSUME Kept(m)
       PROVE  /\ m.status = STATUS_OK /\ m.block \in 0..NBlocks - 1 /\ m.count = NBlocks
              /\ DOMAIN got' = DOMAIN got \cup {m.block}
              /\ \A b \in DOMAIN got' : got'[b] = Block(b)
              /\ cpc' = "next"
  <2>1. m.status = STATUS_OK /\ cpc' = "next" /\ Keep(m.block, Block(m.block))
    BY <1>11 DEF Kept
  <2>2. m.block \in 0..NBlocks - 1 /\ m.count = NBlocks
    BY <1>1, <1>3, <2>1, GoodMessage
  <2>. QED BY <1>1, <2>1, <2>2 DEF Keep, GotInv
<1>12. GotInv'
  <2>1. count' = IF cpc = "first" THEN m.count ELSE count
    BY <1>2 DEF FirstHeader
  <2>2. CASE Kept(m)
    <3>1. count' = NBlocks
      BY <1>1, <1>2, <1>11, <2>1, <2>2 DEF GotInv
    <3>. QED BY <1>1, <1>2, <1>5, <1>11, <2>2, <3>1 DEF GotInv, Block
  <2>3. CASE GaveUp
    <3>1. got' = got /\ cpc' = "failed"
      BY <2>3 DEF GaveUp
    <3>2. DOMAIN got # {} => count' = NBlocks
      BY <1>1, <1>2, <2>1 DEF GotInv, RequestInv
    <3>. QED BY <1>1, <1>2, <1>5, <3>1, <3>2 DEF GotInv, Block
  <2>. QED BY <1>4, <2>2, <2>3
<1>13. /\ Held \in Nat /\ IsFiniteSet(DOMAIN got)
       /\ client = "c" => DOMAIN got = 0..Held - 1
  BY <1>1, HeldBounds DEF OrderInv
<1>14. ASSUME client = "c", Kept(m)
       PROVE  DOMAIN got' = 0..Held' - 1 /\ Held' = Held + 1
  <2>1. m.block = Held \/ GaveUp
    BY <1>4, <1>14
  <2>2. m.block = Held
    BY <1>14, <2>1 DEF GaveUp, Kept
  <2>3. DOMAIN got' = DOMAIN got \cup {Held} /\ Held \notin DOMAIN got
    BY <1>11, <1>13, <1>14, <2>2
  <2>4. Held' = Held + 1
    BY <1>13, <2>3, FS_AddElement DEF Held
  <2>. QED BY <1>13, <1>14, <2>3, <2>4
<1>15. ASSUME client = "c", GaveUp
       PROVE  DOMAIN got' = 0..Held' - 1 /\ Held' = Held
  <2>1. got' = got
    BY <1>15 DEF GaveUp
  <2>. QED BY <1>13, <1>15, <2>1 DEF Held
<1>16. OrderInv'
  <2>1. client' = "c" => DOMAIN got' = 0..Held' - 1
    BY <1>2, <1>4, <1>14, <1>15
  <2>2. ASSUME server' = "c", client' = "c", data' # << >>, Reading', ~cut'
        PROVE  InOrder' /\ (spc' = "send" \/ (spc' = "closed" /\ tosend' = << >>))
    <3>1. Kept(m) /\ Reading
      BY <1>2, <1>4, <2>2 DEF GaveUp, Reading
    <3>2. InOrder /\ (spc = "send" \/ (spc = "closed" /\ tosend = << >>))
      BY <1>1, <1>2, <2>2, <3>1 DEF OrderInv
    <3>3. Held' = Held + 1 /\ Len(tosend) \in Nat
      BY <1>1, <1>2, <1>14, <2>2, <3>1, LenProperties DEF FlowInv
    <3>4. Held + Len(wire) + Len(tosend) = NBlocks
      BY <3>2 DEF InOrder
    <3>5. Held' + Len(wire') + Len(tosend') = NBlocks'
      BY <1>2, <1>3, <1>5, <1>13, <3>3, <3>4
    <3>6. ASSUME NEW i \in 1..Len(wire') + Len(tosend')
          PROVE  (/\ InFlight(i).status = STATUS_OK /\ InFlight(i).block = Held + i - 1
                  /\ InFlight(i).payload = Block(Held + i - 1))'
      <4>1. i \in Nat /\ i + 1 \in 1..Len(wire) + Len(tosend)
        BY <1>2, <1>3, <3>3
      <4>2. InFlight(i)' = InFlight(i + 1)
        <5>1. CASE i <= Len(wire) - 1
          <6>1. InFlight(i)' = wire'[i] /\ InFlight(i + 1) = wire[i + 1]
            BY <1>3, <4>1, <5>1 DEF InFlight
          <6>. QED BY <1>3, <4>1, <5>1, <6>1
        <5>2. CASE ~(i <= Len(wire) - 1)
          <6>1. i - Len(wire') = (i + 1) - Len(wire)
            BY <1>3, <4>1
          <6>2. InFlight(i)' = tosend'[i - Len(wire')] /\ InFlight(i + 1) = tosend[(i + 1) - Len(wire)]
            BY <1>3, <4>1, <5>2 DEF InFlight
          <6>. QED BY <1>2, <6>1, <6>2
        <5>. QED BY <5>1, <5>2
      <4>3. /\ InFlight(i + 1).status = STATUS_OK /\ InFlight(i + 1).block = Held + (i + 1) - 1
            /\ InFlight(i + 1).payload = Block(Held + (i + 1) - 1)
        BY <3>2, <4>1 DEF InOrder
      <4>4. Held' + i - 1 = Held + (i + 1) - 1
        BY <1>13, <3>3, <4>1
      <4>5. Block(Held + i - 1)' = Block(Held + (i + 1) - 1)
        BY <1>2, <1>5, <4>4 DEF Block
      <4>. QED BY <4>2, <4>3, <4>4, <4>5
    <3>7. InOrder'
      BY <3>5, <3>6 DEF InOrder
    <3>. QED BY <1>2, <3>2, <3>7
  <2>. QED BY <2>1, <2>2 DEF OrderInv
<1>17. WholeTransferKept'
  <2>. SUFFICES ASSUME cpc' = "failed", ~cut, client = "c", server = "c", data # << >>
                PROVE  FALSE
    BY <1>2 DEF WholeTransferKept
  <2>1. CBlock
    BY DEF PyBlock
  <2>2. InOrder
    BY <1>1, <1>2 DEF OrderInv, Reading
  <2>3. 1 \in 1..Len(wire) + Len(tosend) /\ InFlight(1) = m
    <3>1. Len(tosend) \in Nat
      BY <1>1, LenProperties DEF FlowInv
    <3>. QED BY <1>3, <3>1 DEF InFlight
  <2>4. m.status = STATUS_OK /\ m.block = Held + 1 - 1 /\ m.payload = Block(Held + 1 - 1)
    BY <2>2, <2>3 DEF InOrder
  <2>5. Held + 1 - 1 = Held
    BY <1>13
  <2>6. cpc' = "next"
    BY <1>1, <2>1, <2>4, <2>5, WholeBlockAccepted DEF m
  <2>. QED BY <2>6
<1>. QED BY <1>7, <1>8, <1>10, <1>12, <1>16, <1>17 DEF TransferInv, Core

-----------------------------------------------------------------------------
(* Theorems                                                                *)

LEMMA InvStep == TransferInv /\ [Next]_vars => TransferInv'
<1>. SUFFICES ASSUME TransferInv, [Next]_vars PROVE TransferInv'
  OBVIOUS
<1>1. CASE UNCHANGED vars
  <2>1. UNCHANGED <<server, file, data, spc, tosend, wire, cut, client, cpc, count, total, got,
                    overrun, saved>>
    BY <1>1 DEF vars, serverVars, clientVars
  <2>2. /\ NBlocks' = NBlocks /\ GoodMessages' = GoodMessages /\ WholeMessages' = WholeMessages
        /\ \A b : Block(b)' = Block(b)
    BY <2>1, Frame
  <2>3. Core'
    BY <2>1, <2>2 DEF TransferInv, Core, BasicOK, FlowInv, RequestInv, GotInv, Block
  <2>4. OrderInv'
    <3>1. Held' = Held /\ InOrder' = InOrder /\ Reading' = Reading
      BY <2>1, <2>2 DEF Held, InOrder, InFlight, Block, Reading
    <3>. QED BY <2>1, <3>1 DEF TransferInv, OrderInv
  <2>5. FreshInv' /\ SavedIsServed' /\ WholeTransferKept'
    BY <2>1, <2>2 DEF TransferInv, FreshInv, SavedIsServed, WholeTransferKept, Content, Held
  <2>. QED BY <2>3, <2>4, <2>5 DEF TransferInv
<1>2. CASE Next /\ ~UNCHANGED vars
  BY <1>2, ServeStep, SendStep, ReadStep, EndStep DEF Next, ServerStep, ClientStep
<1>. QED BY <1>1, <1>2

LEMMA InvAlways == Spec => []TransferInv
BY InitInv, InvStep, PTL DEF Spec

LEMMA InvTypes == TransferInv => TypeOK
<1>. SUFFICES ASSUME TransferInv PROVE TypeOK
  OBVIOUS
<1>1. BasicOK /\ FlowInv /\ GotInv
  BY DEF TransferInv, Core
<1>2. ASSUME NEW s \in {wire, tosend}, NEW i \in 1..Len(s)
      PROVE  s[i].block < s[i].count /\ Len(s[i].payload) <= s[i].len
  <2>1. s[i] \in GoodMessages
    <3>1. CASE s = wire
      BY <1>1, <3>1, ElementOfSeq DEF FlowInv
    <3>2. CASE s = tosend
      BY <1>1, <3>2, ElementOfSeq, WholeIsGood DEF FlowInv
    <3>. QED BY <3>1, <3>2
  <2>. QED BY <1>1, <2>1, GoodMessage
<1>3. DOMAIN got \subseteq 0..count - 1 \/ count = 0
  BY <1>1 DEF GotInv
<1>. QED BY <1>1, <1>2, <1>3 DEF TypeOK, BasicOK

\* Type correctness, for files and messages of any size: the block numbers on
\* the wire, and the index under which a client stores a block, stay below the
\* block_count the receiving buffer was sized from.
THEOREM TransferTypeCorrect == Spec => []TypeOK
BY InvTypes, InvAlways, PTL

\* A file that either client writes is byte for byte what the serving peer
\* read, whatever order the blocks came in, wherever a dying server cut the
\* stream, and however little a read returned.
THEOREM SavedFileIsServedFile == Spec => []SavedIsServed
<1>1. TransferInv => SavedIsServed
  BY DEF TransferInv
<1>. QED BY <1>1, InvAlways, PTL

\* Both servers' ways of counting and cutting blocks cover the data: the blocks
\* of a reply, put in the order of their numbers, are all of the data and
\* nothing else, although respond counts blocks of MAX_MSG_LEN bytes and cuts
\* shorter ones.
THEOREM ReplyCoversData == Spec => []BlocksCoverData
<1>1. TransferInv => BlocksCoverData
  <2>. SUFFICES ASSUME TransferInv, spc = "send", wire = << >>, cpc = "first",
                       tosend # << >>, tosend[1].status = STATUS_OK
                PROVE  LET n == Len(tosend)
                           at(b) == CHOOSE i \in 1..n : tosend[i].block = b
                       IN  /\ {tosend[i].block : i \in 1..n} = 0..n - 1
                           /\ \A i \in 1..n : tosend[i].count = n
                           /\ FlattenSeq([b \in 1..n |-> tosend[at(b - 1)].payload]) = data
    BY DEF BlocksCoverData
  <2>1. FullReply(tosend, NBlocks, data) /\ GoodCut(NBlocks, data)
    BY DataCut DEF TransferInv, Core, FreshInv
  <2>2. Len(tosend) = NBlocks
    BY <2>1 DEF FullReply
  <2>. QED BY <2>1, <2>2, FullReplyCovers
<1>. QED BY <1>1, InvAlways, PTL

\* Between two C peers a transfer of a nonempty file that the server completes
\* never fails for want of a byte: if the client gives up at all, it holds the
\* whole file by then.
THEOREM WholeTransferArrives == Spec => []WholeTransferKept
<1>1. TransferInv => WholeTransferKept
  BY DEF TransferInv
<1>. QED BY <1>1, InvAlways, PTL
=============================================================================
