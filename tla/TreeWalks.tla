----------------------------- MODULE TreeWalks ------------------------------
(***************************************************************************)
(* Where a walk goes, said of the tree alone, with no word of stacks.      *)
(* Down and Next are what tutorial.h:174-175 says of them: Down visits the *)
(* first operand, and Next the next sibling or, on the last one, what      *)
(* follows the father.  Up is not what is said of it.  tinyape.h:57 has    *)
(* "to father" and tutorial.h:173 "to parent node", by which the father    *)
(* would be visited again; walker.c:79-87 (where the line that would go to *)
(* the father is commented out) pops the father and goes on with what      *)
(* follows it.  This module has the rule of the code: a node is visited    *)
(* once at most, and Up leaves out the siblings that remain.  A visit may  *)
(* begin another walk, on an operand of its node, and goes on after it:    *)
(* walks are nested.                                                       *)
(***************************************************************************)
EXTENDS WalkableAst

CONSTANT Trees

VARIABLES tree,
          walks         \* the walks under way, the innermost last

walkVars == <<tree, walks>>

Visiting == "visiting"
Answers == {"Up", "Down", "Next", "Done", "Error"}

\* Where one goes on, in the walk of what is below root, when n is done with.
After(root, n) ==
  LET after[k \in WastNodes(tree)] ==
        IF k \in {root, tree.root} THEN NoNode
        ELSE LET f == wa_father(tree, k)
                 sibling == wa_opd(tree, f, Place(tree, k) + 1)
             IN IF sibling # NoNode THEN sibling ELSE after[f]
  IN after[n]

\* Up, as tinyape.h:57 has it, would be wa_father(tree, w.at).
Target(w) ==
  CASE w.answer = "Down" /\ wa_opd_count(tree, w.at) > 0 -> wa_opd(tree, w.at, 0)
    [] w.answer = "Down" /\ wa_opd_count(tree, w.at) = 0 -> After(w.root, w.at)
    [] w.answer = "Next" -> After(w.root, w.at)
    [] w.answer = "Up" /\ w.at # w.root -> After(w.root, wa_father(tree, w.at))
    [] OTHER -> NoNode

Inner == walks[Len(walks)]
Outer == SubSeq(walks, 1, Len(walks) - 1)

WalksInit == tree \in Trees /\ walks = <<>>

\* A walk of nothing is done at once.
Begun(n) == [root |-> n, at |-> n, answer |-> IF n = NoNode THEN "Done" ELSE Visiting]

Begin ==
  /\ \E n \in WastNodes(tree) \cup {NoNode} :
       /\ walks # <<>> =>
            Inner.answer = Visiting /\ n \in Range(tree.operands[Inner.at])
       /\ walks' = Append(walks, Begun(n))
  /\ UNCHANGED tree

AnswerVisit ==
  /\ walks # <<>> /\ Inner.answer = Visiting
  /\ \E d \in Answers : walks' = Append(Outer, [Inner EXCEPT !.answer = d])
  /\ UNCHANGED tree

Move ==
  /\ walks # <<>> /\ Inner.answer # Visiting /\ Target(Inner) # NoNode
  /\ walks' = Append(Outer, [Inner EXCEPT !.at = Target(Inner), !.answer = Visiting])
  /\ UNCHANGED tree

End ==
  /\ walks # <<>> /\ Inner.answer # Visiting /\ Target(Inner) = NoNode
  /\ walks' = Outer
  /\ UNCHANGED tree

WalksNext == Begin \/ AnswerVisit \/ Move \/ End

WalksSpecification == WalksInit /\ [][WalksNext]_walkVars
=============================================================================
