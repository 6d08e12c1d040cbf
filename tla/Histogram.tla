----------------------------- MODULE Histogram ------------------------------
(***************************************************************************)
(* The counting done by the workers of fhistogram-mt.c: each file's bytes  *)
(* are counted bit by bit into a histogram of the worker's own, which is   *)
(* merged into global_histogram under global_lock after every Chunk bytes  *)
(* and at the end of the file.  The job queue is reduced to what           *)
(* WorkerPool establishes of it: every file goes to exactly one worker.    *)
(* A byte is the set of its bits that are 1.                               *)
(***************************************************************************)
EXTENDS Naturals, Sequences, FiniteSets, Functions

CONSTANTS
    Workers, Files,
    NBits,      \* bits in a byte, and bins in a histogram
    Content,    \* [Files -> the sequence of bytes in the file]
    Chunk,      \* bytes between two merges (100000 in the code)
    NoWorker,   \* owner of a free global_lock
    NoPath      \* a worker's path before its first pop

Bins == 0..NBits-1

ASSUME HistogramAssumption ==
    /\ NBits \in Nat \ {0} /\ Chunk \in Nat \ {0}
    /\ Content \in [Files -> Seq(SUBSET Bins)]
    /\ NoWorker \notin Workers /\ NoPath \notin Files
    /\ Workers # {} /\ IsFiniteSet(Workers) /\ IsFiniteSet(Files)

VARIABLES
    queue,        \* files no worker has popped yet
    unreadable,   \* files fopen failed on
    global_histogram, global_lock,
    shown,        \* the "bits processed" number last printed
    pc, path, local_hist,
    count,        \* bytes of the current file read so far
    final,        \* the merge in progress is the one after end of file
    bin, sum      \* merge_histogram: loop index, value loaded from to[bin]

locals == <<path, local_hist, count, final, bin, sum>>
vars == <<queue, unreadable, global_histogram, global_lock, shown, pc, locals>>

Zero == [b \in Bins |-> 0]
Total(h) == FoldFunction(LAMBDA x, y : x + y, 0, h)

Init ==
    /\ queue = Files /\ unreadable = {}
    /\ global_histogram = Zero /\ global_lock = NoWorker /\ shown = 0
    /\ pc = [w \in Workers |-> "pop"]
    /\ path = [w \in Workers |-> NoPath]
    /\ local_hist = [w \in Workers |-> Zero]
    /\ count = [w \in Workers |-> 0]
    /\ final = [w \in Workers |-> FALSE]
    /\ bin = [w \in Workers |-> 0]
    /\ sum = [w \in Workers |-> 0]

Goto(w, l) == pc' = [pc EXCEPT ![w] = l]

\* pop gives a file; its local histogram and byte count start from zero.
Open(w, f) ==
    /\ pc[w] = "pop" /\ f \in queue
    /\ queue' = queue \ {f}
    /\ path' = [path EXCEPT ![w] = f]
    /\ local_hist' = [local_hist EXCEPT ![w] = Zero]
    /\ count' = [count EXCEPT ![w] = 0]
    /\ Goto(w, "read")
    /\ UNCHANGED <<unreadable, global_histogram, global_lock, shown, final, bin, sum>>

\* fopen failed: warn and go on to the next job.
OpenFails(w, f) ==
    /\ pc[w] = "pop" /\ f \in queue
    /\ queue' = queue \ {f}
    /\ unreadable' = unreadable \cup {f}
    /\ path' = [path EXCEPT ![w] = f]
    /\ local_hist' = [local_hist EXCEPT ![w] = Zero]
    /\ UNCHANGED <<global_histogram, global_lock, shown, pc, count, final, bin, sum>>

update_histogram(h, byte) == [b \in Bins |-> IF b \in byte THEN h[b] + 1 ELSE h[b]]

ReadByte(w) ==
    LET bytes == Content[path[w]] IN
    /\ pc[w] = "read" /\ count[w] < Len(bytes)
    /\ local_hist' = [local_hist EXCEPT ![w] = update_histogram(@, bytes[count[w] + 1])]
    /\ count' = [count EXCEPT ![w] = @ + 1]
    /\ final' = [final EXCEPT ![w] = FALSE]
    /\ Goto(w, IF count'[w] % Chunk = 0 THEN "lock" ELSE "read")
    /\ UNCHANGED <<queue, unreadable, global_histogram, global_lock, shown, path, bin, sum>>

\* Mutant of EndOfFile: the rest of the last chunk is not merged.
EndOfFileNoMerge(w) ==
    /\ pc[w] = "read" /\ count[w] = Len(Content[path[w]])
    /\ Goto(w, "pop")
    /\ UNCHANGED <<queue, unreadable, global_histogram, global_lock, shown, locals>>

EndOfFile(w) ==
    /\ pc[w] = "read" /\ count[w] = Len(Content[path[w]])
    /\ final' = [final EXCEPT ![w] = TRUE]
    /\ Goto(w, "lock")
    /\ UNCHANGED <<queue, unreadable, global_histogram, global_lock, shown,
                   path, local_hist, count, bin, sum>>

\* Mutant of LockGlobal: global_lock is not taken.
LockGlobalSkipped(w) ==
    /\ pc[w] = "lock"
    /\ bin' = [bin EXCEPT ![w] = 0]
    /\ Goto(w, "load")
    /\ UNCHANGED <<queue, unreadable, global_histogram, global_lock, shown,
                   path, local_hist, count, final, sum>>

LockGlobal(w) ==
    /\ pc[w] = "lock" /\ global_lock = NoWorker
    /\ global_lock' = w
    /\ bin' = [bin EXCEPT ![w] = 0]
    /\ Goto(w, "load")
    /\ UNCHANGED <<queue, unreadable, global_histogram, shown,
                   path, local_hist, count, final, sum>>

\* to[i] += from[i] is a load and a store of the shared histogram.
MergeLoad(w) ==
    /\ pc[w] = "load"
    /\ sum' = [sum EXCEPT ![w] = global_histogram[bin[w]]]
    /\ Goto(w, "store")
    /\ UNCHANGED <<queue, unreadable, global_histogram, global_lock, shown,
                   path, local_hist, count, final, bin>>

\* Mutants of MergeStore: from[i] is not set to zero; one bin too many.
MergeStoreKeepsFrom(w) ==
    /\ pc[w] = "store"
    /\ global_histogram' = [global_histogram EXCEPT ![bin[w]] = sum[w] + local_hist[w][bin[w]]]
    /\ bin' = [bin EXCEPT ![w] = @ + 1]
    /\ Goto(w, IF bin[w] = NBits - 1 THEN "print" ELSE "load")
    /\ UNCHANGED <<queue, unreadable, global_lock, shown, path, local_hist, count, final, sum>>
MergeStoreOneMore(w) ==
    /\ pc[w] = "store"
    /\ global_histogram' = [global_histogram EXCEPT ![bin[w]] = sum[w] + local_hist[w][bin[w]]]
    /\ local_hist' = [local_hist EXCEPT ![w][bin[w]] = 0]
    /\ bin' = [bin EXCEPT ![w] = @ + 1]
    /\ Goto(w, IF bin[w] = NBits THEN "print" ELSE "load")
    /\ UNCHANGED <<queue, unreadable, global_lock, shown, path, count, final, sum>>

MergeStore(w) ==
    /\ pc[w] = "store"
    /\ global_histogram' = [global_histogram EXCEPT ![bin[w]] = sum[w] + local_hist[w][bin[w]]]
    /\ local_hist' = [local_hist EXCEPT ![w][bin[w]] = 0]
    /\ bin' = [bin EXCEPT ![w] = @ + 1]
    /\ Goto(w, IF bin[w] = NBits - 1 THEN "print" ELSE "load")
    /\ UNCHANGED <<queue, unreadable, global_lock, shown, path, count, final, sum>>

\* Mutant of PrintAndUnlock: global_lock is kept.
PrintNoUnlock(w) ==
    /\ pc[w] = "print"
    /\ shown' = Total(global_histogram)
    /\ Goto(w, IF final[w] THEN "pop" ELSE "read")
    /\ UNCHANGED <<queue, unreadable, global_histogram, global_lock, locals>>

\* print_histogram, then the unlock: back to the file, or to the next job.
PrintAndUnlock(w) ==
    /\ pc[w] = "print"
    /\ shown' = Total(global_histogram)
    /\ global_lock' = NoWorker
    /\ Goto(w, IF final[w] THEN "pop" ELSE "read")
    /\ UNCHANGED <<queue, unreadable, global_histogram, locals>>

WorkerExit(w) ==
    /\ pc[w] = "pop" /\ queue = {}
    /\ Goto(w, "exited")
    /\ UNCHANGED <<queue, unreadable, global_histogram, global_lock, shown, locals>>

WorkerStep(w) ==
    \/ \E f \in Files : Open(w, f) \/ OpenFails(w, f)
    \/ ReadByte(w) \/ EndOfFile(w) \/ LockGlobal(w)
    \/ MergeLoad(w) \/ MergeStore(w) \/ PrintAndUnlock(w)
    \/ WorkerExit(w)

AllExited == \A w \in Workers : pc[w] = "exited"

Next == (\E w \in Workers : WorkerStep(w)) \/ (AllExited /\ UNCHANGED vars)

\* Workers keep running and get global_lock if it is free again and again.
Spec == Init /\ [][Next]_vars /\ \A w \in Workers : SF_vars(WorkerStep(w))

-----------------------------------------------------------------------------
(* Properties                                                              *)

\* Type correctness; merge_histogram stays within the bins of both histograms.
TypeOK ==
    /\ queue \in SUBSET Files /\ unreadable \in SUBSET Files
    /\ global_histogram \in [Bins -> Nat]
    /\ global_lock \in Workers \cup {NoWorker}
    /\ shown \in Nat
    /\ pc \in [Workers -> {"pop", "read", "lock", "load", "store", "print", "exited"}]
    /\ path \in [Workers -> Files \cup {NoPath}]
    /\ local_hist \in [Workers -> [Bins -> Nat]]
    /\ count \in [Workers -> Nat]
    /\ final \in [Workers -> BOOLEAN]
    /\ bin \in [Workers -> 0..NBits]
    /\ \A w \in Workers : pc[w] \in {"load", "store"} => bin[w] \in Bins
    /\ sum \in [Workers -> Nat]

\* How many of the first n bytes of file f have bit b set.
Ones(f, n, b) == Cardinality({i \in 1..n : b \in Content[f][i]})

\* Bytes of file f read so far: all of them once some worker is done with it.
BytesRead(f) ==
    IF f \in queue \cup unreadable THEN 0
    ELSE IF \E w \in Workers : path[w] = f /\ pc[w] \notin {"pop", "exited"}
         THEN count[CHOOSE w \in Workers : path[w] = f /\ pc[w] \notin {"pop", "exited"}]
         ELSE Len(Content[f])

\* At every moment each bit read is in exactly one histogram: a worker's own
\* or the global one.  Nothing is counted twice at a chunk boundary or at the
\* end of a file, and no merge overwrites another.
BitsConserved ==
    \A b \in Bins :
        global_histogram[b] + Total([w \in Workers |-> local_hist[w][b]])
          = Total([f \in Files |-> Ones(f, BytesRead(f), b)])

\* When all workers are done the histogram printed is that of the readable
\* files, as the sequential fhistogram.c would print it.
FinalHistogram ==
    AllExited =>
       /\ \A b \in Bins : global_histogram[b] =
             Total([f \in Files \ unreadable |-> Ones(f, Len(Content[f]), b)])
       /\ shown = Total(global_histogram)

\* The number of bits printed never goes back.
ShownGrows == [][shown' >= shown]_vars

\* All workers finish.
Finishes == <>AllExited
=============================================================================
