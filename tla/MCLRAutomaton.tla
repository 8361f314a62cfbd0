--------------------------- MODULE MCLRAutomaton -----------------------------
(* Instances of LRAutomaton for TLC. *)
EXTENDS LRAutomaton, SampleGrammars

MCGrammars == { LeftRecursive, RightRecursive, Cyclic, HiddenLeft, Mutual,
                Repetition, Optional, Prefixed, PrefixInSeq, SeqInSeq }
=============================================================================
