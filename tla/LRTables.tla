------------------------------ MODULE LRTables -------------------------------
(***************************************************************************)
(* The automaton of a grammar, as a value: the states and transitions that *)
(* LRAutomaton ends with, in one order of the many it may create them in.  *)
(* IsCanonical says what makes a pair of tables the LR(0) automaton; it is *)
(* what LRAutomaton is checked against and what these tables satisfy.      *)
(***************************************************************************)
EXTENDS LRGrammar, SequencesExt

IsCanonical(G, states, trans) ==
  /\ states[1] = ClosureOf(G, Alternatives(G, G.start))
  /\ \A a \in DOMAIN states :
       /\ DOMAIN trans[a] = MovesOf(G, states[a]) \ Combinations(G)
       /\ \A x \in DOMAIN trans[a] : states[trans[a][x]] = Goto(G, states[a], x)
       /\ \A x \in MovesOf(G, states[a]) :
             \E b \in DOMAIN states : states[b] = Goto(G, states[a], x)
  /\ \A b \in DOMAIN states \ {1} : \E a \in 1 .. b - 1 :
       \E x \in MovesOf(G, states[a]) : states[b] = Goto(G, states[a], x)

Gotos(G, s) ==
  UNION { { Goto(G, s[a], x) : x \in MovesOf(G, s[a]) } : a \in DOMAIN s }

AllStates(G) ==
  LET grow[s \in Seq(SUBSET AllItems(G))] ==
        LET new == Gotos(G, s) \ ToSet(s)
        IN IF new = {} THEN s ELSE grow[Append(s, CHOOSE I \in new : TRUE)]
  IN grow[ << ClosureOf(G, Alternatives(G, G.start)) >> ]

Tables(G) ==
  LET s == AllStates(G)
  IN [ states |-> s,
       trans  |-> [ a \in DOMAIN s |->
                     [ x \in MovesOf(G, s[a]) \ Combinations(G) |->
                        CHOOSE b \in DOMAIN s : s[b] = Goto(G, s[a], x) ] ] ]
=============================================================================
