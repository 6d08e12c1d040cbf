----------------------------- MODULE MCJobQueue -----------------------------
(* Instances of JobQueue for TLC.                                          *)
EXTENDS JobQueue, TLC

\* The jobs are interchangeable, and so are the consumers.
Symmetry == Permutations(Jobs) \cup Permutations(Consumers)
=============================================================================
