----------------------------- MODULE MCHistogram ----------------------------
(* An instance of Histogram for TLC: two bits to a byte, a merge after two *)
(* bytes; a file that ends on a chunk boundary, one that does not, an      *)
(* empty one.                                                              *)
EXTENDS Histogram

MCFiles == {"even", "odd", "empty"}
MCContent == [f \in MCFiles |->
                CASE f = "even"  -> << {0}, {0, 1} >>
                  [] f = "odd"   -> << {1}, {0}, {1} >>
                  [] f = "empty" -> << >>]
=============================================================================
