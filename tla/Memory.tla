------------------------------- MODULE Memory -------------------------------
(***************************************************************************)
(* The simulator's memory (Opgave5 memory.c): pages of words, allocated    *)
(* when they are first touched, with halfwords and bytes merged into the   *)
(* words.  A byte holds BYTE values, so the four bytes of a word hold      *)
(* BYTE^4; alignment is tested by the callers of these operators, as the   *)
(* code exits on it.                                                       *)
(***************************************************************************)
EXTENDS Integers

CONSTANTS
    BYTE,      \* 256
    PAGE,      \* 65536: bytes in a page
    NoPage     \* a page not allocated yet

WORD == BYTE * BYTE * BYTE * BYTE
HALF == BYTE * BYTE

Words == 0..WORD - 1
Pages == [0..(PAGE \div 4) - 1 -> Words]

ASSUME MemoryAssumption ==
    /\ BYTE \in Nat \ {0, 1} /\ PAGE \in Nat \ {0}
    /\ PAGE % 4 = 0 /\ WORD % PAGE = 0
    /\ NoPage \notin Pages

Memories == [0..(WORD \div PAGE) - 1 -> {NoPage} \cup Pages]

memory_create == [p \in 0..(WORD \div PAGE) - 1 |-> NoPage]

page_number(addr) == addr \div PAGE
index(addr) == (addr \div 4) % (PAGE \div 4)

\* The words of the page of addr; calloc gives a new page of zeros.
get_page(m, addr) ==
    IF m[page_number(addr)] = NoPage THEN [i \in 0..(PAGE \div 4) - 1 |-> 0]
    ELSE m[page_number(addr)]

Touched(m, addr) == [m EXCEPT ![page_number(addr)] = get_page(m, addr)]
Slot(m, addr) == get_page(m, addr)[index(addr)]
Put(m, addr, word) ==
    [m EXCEPT ![page_number(addr)] = [get_page(m, addr) EXCEPT ![index(addr)] = word]]

memory_rd_w(m, addr) == Slot(m, addr)
memory_rd_h(m, addr) ==
    IF addr % 4 < 2 THEN Slot(m, addr) % HALF ELSE (Slot(m, addr) \div HALF) % HALF

\* The weight of a byte in its word
Weight(addr) == CASE addr % 4 = 0 -> 1 [] addr % 4 = 1 -> BYTE
                  [] addr % 4 = 2 -> HALF [] addr % 4 = 3 -> HALF * BYTE
memory_rd_b(m, addr) == (Slot(m, addr) \div Weight(addr)) % BYTE

memory_wr_w(m, addr, data) == Put(m, addr, data)

memory_wr_hWide(m, addr, data) ==       \* mutant: the low halfword is not masked
    LET w == Slot(m, addr) IN
    Put(m, addr, IF addr % 4 < 2 THEN data ELSE (w % HALF) + ((data % HALF) * HALF))

memory_wr_h(m, addr, data) ==
    LET w == Slot(m, addr) IN
    Put(m, addr, IF addr % 4 < 2 THEN (w - (w % HALF)) + (data % HALF)
                 ELSE (w % HALF) + ((data % HALF) * HALF))
memory_wr_b(m, addr, data) ==
    LET w == Slot(m, addr) IN
    Put(m, addr, (w - (memory_rd_b(m, addr) * Weight(addr))) + ((data % BYTE) * Weight(addr)))
=============================================================================
