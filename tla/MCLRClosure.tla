---------------------------- MODULE MCLRClosure ------------------------------
(* Instances of LRClosure for TLC. *)
EXTENDS LRClosure, SampleGrammars

MCGrammars == { LeftRecursive, Cyclic, HiddenLeft, Mutual, Repetition,
                Optional, Prefixed, PrefixInSeq, SeqInSeq }

ASSUME \A G \in MCGrammars : IsGrammar(G) /\ WellExpanded(G)
=============================================================================
