---------------------------- MODULE MCGLRCorrect -----------------------------
(***************************************************************************)
(* Calls of parse on every sort of grammar that is not cyclic, for every   *)
(* text up to MaxLen, or MaxLen + 1 for a few.  Among them are calls that  *)
(* go wrong: the stack has to be in order until they do.  And single calls *)
(* that show where parse does not answer what its documentation says.      *)
(***************************************************************************)
EXTENDS GLRCorrect, SampleGrammars

CONSTANT MaxLen       \* length of the longest text

MCGrammars ==
  [ left |-> LeftRecursive, right |-> RightRecursive, rep |-> Repetition,
    opt |-> Optional, list |-> EndedList, empty |-> EmptyInside,
    three |-> ThreeReadings, nest |-> Nested, late |-> LateReduction,
    either |-> ShiftOrReduce, double |-> Doubling, fixed |-> Fixed,
    lengths |-> TwoLengths, lefty |-> Lefty, crowd |-> Crowded,
    unstarted |-> Unstarted ]

Letters(g) ==
  UNION { UNION { ToSet(w) : w \in g.words[x] } : x \in DOMAIN g.words } \cup g.ws

Calls(names, len) ==
  UNION { [ g    : {n},
            text : BoundedSeq(Letters(MCGrammars[n]), len),
            full : BOOLEAN ] : n \in names }

MCComplete == {"right", "list", "empty", "three", "nest", "fixed"}
MCSound    == MCComplete \cup {"left", "rep", "late", "double", "lengths", "unstarted"}

MCJobs ==
  Calls(DOMAIN MCGrammars \ {"lefty"}, MaxLen)
  \cup Calls(MCComplete \cup {"crowd"}, MaxLen + 1)

ASSUME TablesAssumption ==
  \A n \in DOMAIN MCGrammars :
     IsCanonical(MCGrammars[n], Automata[n].states, Automata[n].trans)

FullParse(n, text) == { [g |-> n, text |-> text, full |-> TRUE] }

RepetitionJobs   == FullParse("rep", <<"a", "b", "c">>)
LeftyJobs        == FullParse("lefty", <<"b", "a", "a">>)
AnyGrammar       == DOMAIN MCGrammars
=============================================================================
