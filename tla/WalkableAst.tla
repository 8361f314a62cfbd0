---------------------------- MODULE WalkableAst -----------------------------
(***************************************************************************)
(* A walkable AST (walkableast.c) as a value: its nodes, each with its     *)
(* operands in order and its label.  make_wast makes nothing but trees.    *)
(***************************************************************************)
EXTENDS Naturals, Sequences, FiniteSets, FiniteSetsExt, Functions

NoNode == 0                                    \* the null pointer

WastNodes(t) == DOMAIN t.operands

\* Each node but the root is an operand once, of an earlier node.
IsWast(t) ==
  /\ WastNodes(t) \subseteq Nat \ {NoNode} /\ IsFiniteSet(WastNodes(t)) /\ t.root \in WastNodes(t)
  /\ DOMAIN t.label = WastNodes(t)
  /\ \A n \in WastNodes(t) :
       /\ t.operands[n] \in Seq(WastNodes(t)) /\ IsInjective(t.operands[n])
       /\ \A i \in DOMAIN t.operands[n] : t.operands[n][i] > n
  /\ \A n \in WastNodes(t) \ {t.root} :
       \E f \in WastNodes(t) : \E i \in DOMAIN t.operands[f] :
         /\ t.operands[f][i] = n
         /\ \A g \in WastNodes(t) \ {f} : n \notin Range(t.operands[g])

wa_opd_count(t, n) == Len(t.operands[n])

\* Operands are counted from 0, and there is none past the last.
wa_opd(t, n, i) == IF i < wa_opd_count(t, n) THEN t.operands[n][i + 1] ELSE NoNode

wa_op(t, n) == t.label[n]

wa_father(t, n) ==
  IF n = t.root THEN NoNode
  ELSE CHOOSE f \in WastNodes(t) : n \in Range(t.operands[f])

\* The place of n among its father's operands.
Place(t, n) ==
  CHOOSE i \in 0 .. wa_opd_count(t, wa_father(t, n)) - 1 : wa_opd(t, wa_father(t, n), i) = n
=============================================================================
