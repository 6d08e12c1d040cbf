------------------------------ MODULE IdQuery -------------------------------
(***************************************************************************)
(* The four programs of Opgave2 that look a record up by its osm_id: over  *)
(* the records as read (naive), over an array of keys (indexed), by binary *)
(* search in the sorted records (binsort), and by a walk through the keys  *)
(* laid out as a search tree in an array (eytzinger).  id_query_loop reads *)
(* the file, builds the index and answers one line of input after another; *)
(* a step is one turn of a search loop.  A record is its position in the   *)
(* file, and the pointer the C code returns is that position.              *)
(***************************************************************************)
EXTENDS Integers, Sequences

CONSTANTS
    PROGRAMS,   \* subset of {"naive", "indexed", "binsort", "eytzinger"}
    Ids,        \* values of osm_id and of needles
    Files,      \* files: n lines [id, complete], counted from 0
    NULL

ASSUME IdQueryAssumption ==
    /\ PROGRAMS \subseteq {"naive", "indexed", "binsort", "eytzinger"}
    /\ Ids \subseteq Int
    /\ \A f \in Files : f.n \in Nat /\ f.line \in [0..f.n - 1 -> [id : Ids, complete : BOOLEAN]]
    /\ NULL \notin Nat

VARIABLES
    program, file,
    n,          \* records read
    rs,         \* position in the file -> osm_id as read
    order,      \* index built: place in the sorted (or copied) array -> record
    ey,         \* node of the eytzinger array -> record
    phase,      \* "read", "ready", "search", "done"
    needle, answer,
    i,          \* naive and indexed: the loop's counter
    low, high,  \* binsort
    k, last     \* eytzinger

indexVars == <<program, file, n, rs, order, ey>>
loopVars == <<i, low, high, k, last>>
idVars == <<indexVars, phase, needle, answer, loopVars>>

Positions == 0..n - 1

\* Only a field with a tab after it is stored: a line of fewer than five
\* columns leaves osm_id as malloc and realloc gave it.
read_record(line) == IF line.complete THEN {line.id} ELSE Ids

IdInit ==
    /\ program \in PROGRAMS /\ file \in Files
    /\ n = 0 /\ rs = <<>> /\ order = <<>> /\ ey = <<>>
    /\ phase = "read" /\ needle = NULL /\ answer = NULL
    /\ i = 0 /\ low = 0 /\ high = 0 /\ k = 0 /\ last = 0

\* Every order of the records of a that qsort may leave: sorted by osm_id,
\* records with the same one in any order.
Bijections(S) == {f \in [S -> S] : \A x \in S : \E y \in S : f[y] = x}
qsort(a) ==
    {o \in Bijections(DOMAIN a) :
       \A x, y \in DOMAIN a : x < y => a[o[x]] <= a[o[y]]}

\* The nodes in the order in which build_eytzinger(k) visits them
visits(size) ==
    LET from[node \in Nat \ {0}] ==
          IF node <= size THEN from[2 * node] \o <<node>> \o from[2 * node + 1] ELSE <<>>
    IN from[1]
build_eytzinger(sorted, size) ==
    LET v == visits(size) IN
    [node \in 1..size |-> sorted[(CHOOSE p \in 1..size : v[p] = node) - 1]]

\* read_records and mk_index
Build ==
    /\ phase = "read"
    /\ n' = file.n
    /\ rs' \in {r \in [0..n' - 1 -> Ids] : \A p \in 0..n' - 1 : r[p] \in read_record(file.line[p])}
    /\ CASE program = "naive" -> order' = <<>> /\ ey' = <<>>
         [] program = "indexed" -> order' = [p \in 0..n' - 1 |-> p] /\ ey' = <<>>
         [] program = "binsort" -> order' \in qsort(rs') /\ ey' = <<>>
         [] program = "eytzinger" -> \E o \in qsort(rs') : order' = <<>> /\ ey' = build_eytzinger(o, n')
    /\ phase' = "ready"
    /\ UNCHANGED <<program, file, needle, answer, loopVars>>

\* A line of input: the search starts from the beginning of its loop.
Query ==
    /\ phase \in {"ready", "done"}
    /\ needle' \in Ids /\ answer' = NULL /\ phase' = "search"
    /\ i' = 0 /\ low' = 0 /\ high' = n - 1 /\ k' = 1 /\ last' = 0
    /\ UNCHANGED indexVars

Return(r) == answer' = r /\ phase' = "done"

lookup_naive ==
    /\ phase = "search" /\ program = "naive"
    /\ \/ i >= n /\ Return(NULL) /\ UNCHANGED i
       \/ i < n /\ rs[i] = needle /\ Return(i) /\ UNCHANGED i
       \/ i < n /\ rs[i] # needle /\ i' = i + 1 /\ UNCHANGED <<answer, phase>>
    /\ UNCHANGED <<indexVars, needle, low, high, k, last>>

lookup_indexed ==
    /\ phase = "search" /\ program = "indexed"
    /\ \/ i >= n /\ Return(NULL) /\ UNCHANGED i
       \/ i < n /\ rs[order[i]] = needle /\ Return(order[i]) /\ UNCHANGED i
       \/ i < n /\ rs[order[i]] # needle /\ i' = i + 1 /\ UNCHANGED <<answer, phase>>
    /\ UNCHANGED <<indexVars, needle, low, high, k, last>>

midOf == low + ((high - low) \div 2)

belowSkips(mid) == mid - 2  \* mutant: high steps over one place too many
below(mid) == mid - 1

binary_lookup ==
    /\ phase = "search" /\ program = "binsort"
    /\ \/ low > high /\ Return(NULL) /\ UNCHANGED <<low, high>>
       \/ low <= high /\ rs[order[midOf]] = needle /\ Return(order[midOf]) /\ UNCHANGED <<low, high>>
       \/ low <= high /\ rs[order[midOf]] < needle /\ low' = midOf + 1 /\ UNCHANGED <<high, answer, phase>>
       \/ low <= high /\ rs[order[midOf]] > needle /\ high' = below(midOf) /\ UNCHANGED <<low, answer, phase>>
    /\ UNCHANGED <<indexVars, needle, i, k, last>>

eytzinger_lookup ==
    /\ phase = "search" /\ program = "eytzinger"
    /\ \/ k <= n /\ rs[ey[k]] >= needle /\ last' = k /\ k' = 2 * k /\ UNCHANGED <<answer, phase>>
       \/ k <= n /\ rs[ey[k]] < needle /\ k' = 2 * k + 1 /\ UNCHANGED <<last, answer, phase>>
       \/ /\ k > n /\ UNCHANGED <<k, last>>
          /\ Return(IF last = 0 THEN NULL ELSE IF rs[ey[last]] # needle THEN NULL ELSE ey[last])
    /\ UNCHANGED <<indexVars, needle, i, low, high>>

IdNext == Build \/ Query \/ lookup_naive \/ lookup_indexed \/ binary_lookup \/ eytzinger_lookup

IdSpec == IdInit /\ [][IdNext]_idVars

-----------------------------------------------------------------------------
\* What each of the four programs prints for a line of input: the record that
\* the lookup returns has the id asked for, unless its line was cut short; and
\* NULL is returned only when no complete line has that id.
AnswerRight ==
    phase = "done" =>
      IF answer = NULL THEN \A p \in 0..file.n - 1 : file.line[p].complete => file.line[p].id # needle
      ELSE answer \in 0..file.n - 1 /\ (file.line[answer].complete => file.line[answer].id = needle)

\* An inductive invariant of the first three programs (AlgorithmsProofs adds what the
\* walk of the fourth needs)
IdTypeOK ==
    /\ program \in PROGRAMS /\ file \in Files
    /\ phase \in {"read", "ready", "search", "done"}
    /\ i \in Nat /\ low \in Nat /\ high \in Int
    /\ phase # "read" =>
         /\ n = file.n
         /\ rs \in [Positions -> Ids]
    /\ phase = "search" => needle \in Ids

IndexBuilt ==
    phase # "read" =>
      /\ \A p \in Positions : file.line[p].complete => rs[p] = file.line[p].id
      /\ program = "indexed" => order = [p \in Positions |-> p]
      /\ program = "binsort" => order \in qsort(rs)

\* Where the needle can still be
SearchNarrows ==
    phase = "search" =>
      /\ program \in {"naive", "indexed"} =>
           \A p \in Positions : p < i => rs[p] # needle
      /\ program = "binsort" =>
           /\ high < n
           /\ \A p \in Positions : p < low => rs[order[p]] < needle
           /\ \A p \in Positions : p > high => rs[order[p]] > needle
=============================================================================
