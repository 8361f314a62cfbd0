----------------------------- MODULE ClosureSpec -----------------------------
(***************************************************************************)
(* What automaton::closure promises (lr.h, class automaton): starting from *)
(* a set of items it adds predicted items, one at a time and in no stated  *)
(* order, and it returns only a closed set.  Whatever is returned is thus  *)
(* the least closed set that contains the seed.                            *)
(***************************************************************************)
EXTENDS LRGrammar

CONSTANT Grammars      \* the grammars considered

VARIABLES g,           \* the grammar
          seed,        \* the set closure() is called with
          C,           \* the set being built
          done         \* closure() has returned

specVars == <<g, seed, C, done>>

SpecInit ==
  /\ g \in Grammars
  /\ \A i \in seed : IsItem(g, i)
  /\ C = seed
  /\ done = FALSE

Predict ==
  /\ ~done
  /\ \E i \in C : \E j \in Predicted(g, i) \ C : C' = C \cup {j}
  /\ UNCHANGED <<g, seed, done>>

Finish ==
  /\ ~done
  /\ Closed(g, C)
  /\ done' = TRUE
  /\ UNCHANGED <<g, seed, C>>

SpecNext == Predict \/ Finish

ClosureSpecification == SpecInit /\ [][SpecNext]_specVars

(***************************************************************************)
(* The set returned contains the seed, is closed, and nothing smaller is.  *)
(***************************************************************************)
LeastClosed ==
  done => /\ seed \subseteq C
          /\ Closed(g, C)
          /\ \A D \in SUBSET C : seed \subseteq D /\ Closed(g, D) => D = C
=============================================================================
