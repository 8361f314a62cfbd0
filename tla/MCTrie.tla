------------------------------- MODULE MCTrie --------------------------------
(* An instance of Trie for TLC: the words of up to three letters. *)
EXTENDS Trie, SequencesExt

MCWords == BoundedSeq(Letters, 3)
=============================================================================
