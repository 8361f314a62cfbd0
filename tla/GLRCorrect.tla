----------------------------- MODULE GLRCorrect ------------------------------
(***************************************************************************)
(* What a call of parse answers, against the readings the grammar gives    *)
(* the text.                                                               *)
(***************************************************************************)
EXTENDS GLRParse, ParseTrees

CONSTANTS Sound,        \* names of grammars whose answers are readings, and
          Complete      \* of those for which no reading is lost

Expected == Readings(G, Text)
Answer   == { << t >> : t \in ToSet(Plain(accepted.trees)) }

(***************************************************************************)
(* The answer is sound: what parse returns is a reading of the text, with  *)
(* full_parse or without.                                                  *)
(***************************************************************************)
AnswersAreReadings ==
  phase = "done" /\ job.g \in Sound => Answer \subseteq Expected

(***************************************************************************)
(* The answer is complete: with full_parse every reading is in it, and     *)
(* none of them twice; without, one at least.                              *)
(***************************************************************************)
ReadingsFound ==
  phase = "done" /\ job.g \in Complete =>
    /\ Expected # {} => Answer # {}
    /\ job.full => Expected \subseteq Answer /\ Len(accepted.trees) = Cardinality(Answer)

(***************************************************************************)
(* Nothing that was freed is read, and no state is missing.                *)
(***************************************************************************)
NeverBroken == job.g \in Complete => phase # "broken"
=============================================================================
