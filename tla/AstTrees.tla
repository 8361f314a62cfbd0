------------------------------ MODULE AstTrees -------------------------------
(***************************************************************************)
(* What the AST registry promises its users (ast.h, struct Ast): a handle  *)
(* has a tree, atom or pair, as if it were a value of its own.  Nothing    *)
(* that is done through one handle changes the tree of another, and two    *)
(* nodes are equal as pointers exactly when they are equal as trees.       *)
(***************************************************************************)
CONSTANTS Words, Offsets, Handles

VARIABLES value,        \* handle -> its tree
          made,         \* the tree made last, not given to a handle yet
          coming        \* the assignment under way: a handle, or none, and a tree

treeVars == <<value, made, coming>>

NoTree     == [kind |-> "nil"]
Leaf(w, o) == [kind |-> "atom", str |-> w, ofs |-> o]
Cons(l, r) == [kind |-> "pair", car |-> l, cdr |-> r]

NoHandle == "none"
Settled  == [to |-> NoHandle, tree |-> NoTree]

Sources == { value[h] : h \in Handles } \cup {made, NoTree}
Parts   == { t.car : t \in {s \in Sources : s.kind = "pair"} }
           \cup { t.cdr : t \in {s \in Sources : s.kind = "pair"} }

TreeInit ==
  /\ value = [h \in Handles |-> NoTree]
  /\ made = NoTree
  /\ coming = Settled

Make ==
  /\ coming = Settled
  /\ \/ \E w \in Words, o \in Offsets : made' = Leaf(w, o)
     \/ \E l, r \in Sources : made' = Cons(l, r)
  /\ UNCHANGED <<value, coming>>

\* The handle has lost its old tree and waits for the new one.
Release(h) ==
  /\ coming = Settled
  /\ \E t \in Sources \cup Parts : coming' = [to |-> h, tree |-> t]
  /\ value' = [value EXCEPT ![h] = NoTree]
  /\ made' = NoTree

Receive ==
  /\ coming # Settled
  /\ value' = [value EXCEPT ![coming.to] = coming.tree]
  /\ coming' = Settled
  /\ UNCHANGED made

TreeNext == Make \/ (\E h \in Handles : Release(h)) \/ Receive

TreeSpecification == TreeInit /\ [][TreeNext]_treeVars
=============================================================================
