------------------------------ MODULE LRClosure ------------------------------
(***************************************************************************)
(* automaton::closure (lr.h:385-420): the worklist that closes a set of    *)
(* items, while item_rewriter, called on the symbol after each dot, adds   *)
(* to the grammar the rules of the combinations it meets.                  *)
(*                                                                         *)
(* The rules known to the grammar therefore grow during the computation    *)
(* whose result depends on them.  An item whose Nt has no rule yet is      *)
(* skipped for good ("couldn't find rule"): the result is the closure      *)
(* under all the rules only if no item is ever processed too early.        *)
(***************************************************************************)
EXTENDS LRGrammar, SequencesExt

CONSTANTS Grammars,     \* the grammars considered
          MaxSeed       \* how many items a kernel given to closure() has

VARIABLES g,            \* the grammar closure() works for
          known,        \* tags whose rule is in the Grammar map by now
          seed,         \* I, the set closure() is called with
          C,            \* C, the set it returns
          stack,        \* the items still to be looked at, last one first
          todo,         \* the variants of the current rule not yet visited
          done          \* closure() has returned

vars == <<g, known, seed, C, stack, todo, done>>

(***************************************************************************)
(* What items() passes to closure(): the items of the start rule, or the   *)
(* kernel reached over one symbol.  The rules of its items were found in   *)
(* the grammar, by then, by the closure that produced them.                *)
(***************************************************************************)
Kernels(G) ==
  { K \in SUBSET {i \in AllItems(G) : ~AtStart(i)} :
      /\ IsFiniteSet(K)
      /\ Cardinality(K) \in 1 .. MaxSeed
      /\ \A i, j \in K : i.rhs[i.dot] = j.rhs[j.dot] }

Seeds(G, K) ==
  { I \in Kernels(G) \cup {Alternatives(G, G.start)} :
      IsFiniteSet(I) /\ \A i \in I : i.lhs \in K }

KnownSets(G) ==
  { G.listed \cup UNION {G.wraps[c].commits : c \in D} :
      D \in SUBSET Combinations(G) }

Init ==
  /\ g \in Grammars
  /\ known \in KnownSets(g)
  /\ seed \in Seeds(g, known)
  /\ C = seed
  /\ stack \in SetToSeqs(seed)
  /\ todo = {}
  /\ done = FALSE

(***************************************************************************)
(* One turn of the while loop up to the loop over the variants.            *)
(***************************************************************************)
Pop ==
  LET i == Last(stack) IN
  /\ ~done
  /\ todo = {}
  /\ stack # <<>>
  /\ stack' = Front(stack)
  /\ known' = known \cup (IF AtEnd(i) THEN {} ELSE Committed(g, Symbol(i)))
  /\ todo' = IF ~AtEnd(i) /\ Rewritten(g, Symbol(i)) \in known'
               THEN Alternatives(g, Rewritten(g, Symbol(i)))
               ELSE {}
  /\ UNCHANGED <<g, seed, C, done>>

(***************************************************************************)
(* The loop over the variants of the rule found: each is added to C and    *)
(* pushed unless C has it.  In VisitVariant, the body, isNew is that test, *)
(* added and pushed what then goes into C and onto the stack.              *)
(***************************************************************************)
VisitVariant(c, isNew, added, pushed) ==
  /\ ~done
  /\ todo' = todo \ {c}
  /\ IF isNew
       THEN C' = C \cup added /\ stack' = stack \o pushed
       ELSE UNCHANGED <<C, stack>>
  /\ UNCHANGED <<g, known, seed, done>>

VariantUnrecorded(c) == VisitVariant(c, c \notin C, {}, <<c>>)   \* mutant
VariantUnpushed(c)   == VisitVariant(c, c \notin C, {c}, <<>>)   \* mutant
VariantUntested(c)   == VisitVariant(c, TRUE, {c}, <<c>>)        \* mutant
Variant(c)           == VisitVariant(c, c \notin C, {c}, <<c>>)

Return ==
  /\ ~done
  /\ todo = {}
  /\ stack = <<>>
  /\ done' = TRUE
  /\ UNCHANGED <<g, known, seed, C, stack, todo>>

Next == Pop \/ (\E c \in todo : Variant(c)) \/ Return

Spec == Init /\ [][Next]_vars
FairSpec == Spec /\ WF_vars(Next)
-----------------------------------------------------------------------------
TypeOK ==
  /\ g \in Grammars
  /\ known \subseteq Tags(g)
  /\ \A i \in C \cup todo : IsItem(g, i)
  /\ seed \subseteq C
  /\ stack \in Seq(C)
  /\ done \in BOOLEAN

(***************************************************************************)
(* closure() returns the least set that contains the seed and is closed    *)
(* under every rule of the grammar, those that combinations bring in while *)
(* it runs included, whichever of them were known when it was called.      *)
(***************************************************************************)
ClosureCorrect ==
  done => /\ seed \subseteq C
          /\ Closed(g, C)
          /\ \A D \in SUBSET C : seed \subseteq D /\ Closed(g, D) => D = C

(***************************************************************************)
(* The loop ends on every grammar, left-recursive and cyclic ones too.     *)
(***************************************************************************)
Terminates == <>done

(***************************************************************************)
(* The worklist implements ClosureSpec: each variant it adds is predicted  *)
(* by an item already there, and it returns only a closed set.             *)
(***************************************************************************)
Abstract == INSTANCE ClosureSpec
Implements == Abstract!ClosureSpecification
=============================================================================
