----------------------------- MODULE LRAutomaton -----------------------------
(***************************************************************************)
(* automaton::items (lr.h:562-595): the construction of the LR(0) automaton*)
(* that the parser runs.  A state is a set of items; its number is its     *)
(* place in the order of creation, counted here from 1.                    *)
(*                                                                         *)
(* States wait on a stack for their transitions to be computed.  For each, *)
(* compute_transitions groups the items by the symbol after the dot, in an *)
(* unordered_map; the loop over it closes each group, commits it as a      *)
(* state unless one has these very items, and dispatches the transition.   *)
(* What closure() returns is ClosureOf: see LRClosure.                     *)
(***************************************************************************)
EXTENDS LRTables

CONSTANT Grammars     \* the grammars considered

ASSUME GrammarsAssumption == \A G \in Grammars : IsGrammar(G)

VARIABLES g,          \* the grammar the automaton is made for
          states,     \* the item sets committed, by number
          trans,      \* state -> its transitions, symbol -> state
          stack,      \* the states whose transitions are to be computed
          cur,        \* the state whose transitions are being computed, or 0
          fsb         \* what is left of FSB: symbol -> kernel

vars == <<g, states, trans, stack, cur, fsb>>

Nothing == [x \in {} |-> 0]

Init ==
  /\ g \in Grammars
  /\ states = << ClosureOf(g, Alternatives(g, g.start)) >>
  /\ trans = << Nothing >>
  /\ stack = << 1 >>
  /\ cur = 0
  /\ fsb = Nothing

(***************************************************************************)
(* The outer loop: take the last state pushed and list its kernels.        *)
(***************************************************************************)
TakeState(left) ==
  /\ fsb = Nothing
  /\ stack # <<>>
  /\ cur' = Last(stack)
  /\ stack' = left
  /\ fsb' = [x \in MovesOf(g, states[cur']) |-> Moved(g, states[cur'], x)]
  /\ UNCHANGED <<g, states, trans>>

PopStateKept == TakeState(stack)               \* mutant: it stays on the stack
PopState     == TakeState(Front(stack))

(***************************************************************************)
(* The inner loop, on the entry for x: closure, items_commit, dispatch.    *)
(* The dispatcher enters nothing for a Seq, though its state is committed. *)
(***************************************************************************)
SameRules(I, J)   == {i.lhs : i \in I} = {i.lhs : i \in J}     \* mutant
SameState(I, J)   == I = J

UnclosedState(x)  == fsb[x]                                    \* mutant
StateOn(x)        == ClosureOf(g, fsb[x])

PushNone(new, n)   == stack                                    \* mutant
PushBeyond(new, n) == IF new THEN Append(stack, n + 1) ELSE stack   \* mutant
Push(new, n)       == IF new THEN Append(stack, n) ELSE stack

Entered(f, x, n) ==
  IF x \in Combinations(g) THEN f
  ELSE [y \in DOMAIN f \cup {x} |-> IF y = x THEN n ELSE f[y]]

Dispatch(x) ==
  LET I     == StateOn(x)
      found == {k \in DOMAIN states : SameState(states[k], I)}
      new   == found = {}
      n     == IF new THEN Len(states) + 1 ELSE CHOOSE k \in found : TRUE
      grown == IF new THEN Append(trans, Nothing) ELSE trans
  IN /\ states' = IF new THEN Append(states, I) ELSE states
     /\ stack'  = Push(new, n)
     /\ trans'  = [grown EXCEPT ![cur] = Entered(@, x, n)]
     /\ fsb'    = [y \in DOMAIN fsb \ {x} |-> fsb[y]]
     /\ UNCHANGED <<g, cur>>

Next == PopState \/ (\E x \in DOMAIN fsb : Dispatch(x))

Spec     == Init /\ [][Next]_vars
FairSpec == Spec /\ WF_vars(Next)
-----------------------------------------------------------------------------
States == DOMAIN states
Built  == stack = <<>> /\ fsb = Nothing

TypeOK ==
  /\ g \in Grammars
  /\ states \in Seq(SUBSET AllItems(g))
  /\ DOMAIN trans = States
  /\ \A a \in States : \A x \in DOMAIN trans[a] :
        x \in Symbols(g) /\ trans[a][x] \in States
  /\ stack \in Seq(States)
  /\ cur \in States \cup {0}
  /\ \A x \in DOMAIN fsb : fsb[x] \subseteq AllItems(g)

(***************************************************************************)
(* A transition leads to the state its symbol calls for, from whichever    *)
(* states and in whichever order it was reached, and no two states have    *)
(* the same items.                                                         *)
(***************************************************************************)
TransitionsExact ==
  \A a \in States : \A x \in DOMAIN trans[a] :
     \A b \in States : states[b] = Goto(g, states[a], x) <=> b = trans[a][x]

(***************************************************************************)
(* All transitions into a state are over one symbol.  The GSS relies on    *)
(* it: it merges nodes by state, offset and the producer that led there.   *)
(***************************************************************************)
OneSymbolIn ==
  \A a, b \in States : \A x \in DOMAIN trans[a], y \in DOMAIN trans[b] :
     trans[a][x] = trans[b][y] => x = y

(***************************************************************************)
(* The automaton built is the canonical one: it starts from the closure of *)
(* the start rule, every state but that one was reached from an earlier    *)
(* one, and no state misses a transition it should have.                   *)
(***************************************************************************)
Canonical == Built => IsCanonical(g, states, trans)

\* The state reached from a over the first k symbols of r, 0 for none.
Walk(a, r) ==
  LET w[k \in 0 .. Len(r)] ==
        IF k = 0 THEN a
        ELSE LET b == w[k - 1]
                 x == Rewritten(g, r[k])
             IN IF b # 0 /\ x \in DOMAIN trans[b] THEN trans[b][x] ELSE 0
  IN w

(***************************************************************************)
(* What reduce_all and do_reduction count on: from a state where a rule    *)
(* starts, its right-hand side can be walked, to a state that reduces it,  *)
(* and the rule's own tag has a transition there.  An epsilon rule's is    *)
(* followed without a test that it is there.                               *)
(***************************************************************************)
ReductionsLand ==
  Built /\ NoDeadItems(g) =>
    \A a \in States : \A i \in {j \in states[a] : AtStart(j)} :
      LET w == Walk(a, i.rhs) IN
      /\ \A k \in 0 .. Len(i.rhs) : w[k] # 0 /\ [i EXCEPT !.dot = k] \in states[w[k]]
      /\ i.lhs # g.start => i.lhs \in DOMAIN trans[a]

(***************************************************************************)
(* The construction ends, on recursive and cyclic grammars too.            *)
(***************************************************************************)
Terminates == <>Built
=============================================================================
