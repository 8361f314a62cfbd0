---------------------------- MODULE WastIterator -----------------------------
(***************************************************************************)
(* How an AST becomes a walkable one (make_wast) and the iterator over it  *)
(* (walkableast.c).  An AST is [op, kids], an atom one without kids.  An   *)
(* iterator is at the operand number child of parent; without a parent it  *)
(* is at the root, or past it.                                             *)
(***************************************************************************)
EXTENDS WalkableAst, SequencesExt

RECURSIVE Size(_)
Size(a) == 1 + FoldLeft(LAMBDA n, k : n + Size(k), 0, a.kids)

\* The nodes a becomes, as [label, operands], numbered from n on.
RECURSIVE Placed(_, _)
Placed(a, n) ==
  LET first == [k \in DOMAIN a.kids |->
                  n + 1 + FoldLeft(LAMBDA m, j : m + Size(j), 0, SubSeq(a.kids, 1, k - 1))]
      below == [k \in DOMAIN a.kids |-> Placed(a.kids[k], first[k])]
  IN [m \in n .. n + Size(a) - 1 |->
        IF m = n THEN [label |-> a.op, operands |-> first]
        ELSE below[CHOOSE k \in DOMAIN below : m \in DOMAIN below[k]][m]]

make_wast(a) ==
  LET nodes == Placed(a, 1)
  IN [root |-> 1, label    |-> [n \in DOMAIN nodes |-> nodes[n].label],
                  operands |-> [n \in DOMAIN nodes |-> nodes[n].operands]]

tinyap_wi_new == [parent |-> NoNode, child |-> 0]

tinyap_wi_node(t, wi) ==
  IF wi.parent # NoNode THEN wa_opd(t, wi.parent, wi.child)
  ELSE IF wi.child = 0 THEN t.root ELSE NoNode

\* The father's place is searched for among its own father's operands.
tinyap_wi_up(t, wi) ==
  IF wi.parent = NoNode THEN wi
  ELSE IF wi.parent = t.root THEN tinyap_wi_new
  ELSE [parent |-> wa_father(t, wi.parent), child |-> Place(t, wi.parent)]

\* From past the last operand it goes back to the root.
tinyap_wi_down(t, wi) == [parent |-> tinyap_wi_node(t, wi), child |-> 0]

\* It may go past the last operand.
tinyap_wi_next(wi) == [wi EXCEPT !.child = @ + 1]

tinyap_wi_has_next(t, wi) ==
  wi.parent # NoNode /\ wi.child + 1 < wa_opd_count(t, wi.parent)

tinyap_wi_on_leaf(t, wi) == wa_opd_count(t, tinyap_wi_node(t, wi)) = 0
=============================================================================
