-------------------------- MODULE MCBlockTransfer ---------------------------
(* An instance of BlockTransfer for TLC: messages of three bytes, one of   *)
(* them the header, so that a block holds two.  There are files of every   *)
(* length up to five (empty, one block, several blocks, lengths at which   *)
(* the two ways of counting blocks disagree) and one with a 0xFF inside.   *)
EXTENDS BlockTransfer

Text == <<1, 2, 2, 1, 2>>
MCFiles == {SubSeq(Text, 1, n) : n \in 0..5} \cup {<<1, 255, 2>>}
=============================================================================
