--------------------------------- MODULE GSS ---------------------------------
(***************************************************************************)
(* The graph-structured stack (lr_gss.h).  nodes[n] is the state node n:   *)
(*   S      the state it is in, 0 for a null pointer                       *)
(*   O, P   the offset and the symbol it was shifted with                  *)
(*   preds  its predecessors.  The AST node that the code puts between two *)
(*          state nodes is the pair of its only predecessor and its ast:   *)
(*            from  the state node under it, 0 for the root                *)
(*            ast   the list it holds                                      *)
(*            live  FALSE once that list was freed                         *)
(***************************************************************************)
EXTENDS Naturals, SequencesExt

Edge(from, ast) == [from |-> from, ast |-> ast, live |-> TRUE]

\* shift: a new node over an AST node that holds ast, over the node from.
NewNode(S, O, P, from, ast) ==
  [S |-> S, O |-> O, P |-> P, preds |-> << Edge(from, ast) >>]

(***************************************************************************)
(* rec_path: every way back from n over len symbols, depth first, with the *)
(* list of what lies on it.                                                *)
(***************************************************************************)
Extended(nodes, p) ==
  [ k \in DOMAIN nodes[p.tail].preds |->
      LET e == nodes[p.tail].preds[k]
      IN [tail |-> e.from, accum |-> e.ast \o p.accum, live |-> e.live /\ p.live] ]

Longer(nodes, ways) ==
  FlattenSeq([ q \in DOMAIN ways |-> Extended(nodes, ways[q]) ])

Paths(nodes, n, len) ==
  LET walk[k \in 0 .. len] ==
        IF k = 0 THEN << [tail |-> n, accum |-> <<>>, live |-> TRUE] >>
                 ELSE Longer(nodes, walk[k - 1])
  IN walk[len]

(***************************************************************************)
(* merge_active keeps the nodes it has seen in a std::set ordered by       *)
(* node_less, which is no strict weak order: of two nodes with different   *)
(* symbols each may be less than the other.  A node is never merged into   *)
(* one with another identity, but its twin may be missed, once three nodes *)
(* are in the set and not all have its symbol.                             *)
(***************************************************************************)
SameProducer(a, b) == a.O = b.O /\ a.P = b.P     \* mutant: any state
SameId(a, b) == a.S = b.S /\ a.O = b.O /\ a.P = b.P

NodesSeen == 3

Twins(nodes, active, kept, k) ==
  { j \in kept : j < k /\ SameId(nodes[active[j]], nodes[active[k]]) }

MayMiss(nodes, active, kept, k) ==
  /\ Cardinality({j \in kept : j < k}) >= NodesSeen
  /\ \E j \in kept : j < k /\ nodes[active[j]].P # nodes[active[k]].P

\* The sets of places of the active list that a call may keep.
Kept(nodes, active) ==
  { kept \in SUBSET DOMAIN active :
      \A k \in DOMAIN active :
        IF k \in kept
          THEN Twins(nodes, active, kept, k) = {} \/ MayMiss(nodes, active, kept, k)
          ELSE Twins(nodes, active, kept, k) # {} }

\* A call missed a twin, and keeps both.
Missed(nodes, active, kept) == \E k \in kept : Twins(nodes, active, kept, k) # {}

\* The place of the twin that the node at k goes into; nothing refers to the
\* node afterwards.
Into(nodes, active, kept, k) ==
  CHOOSE j \in Twins(nodes, active, kept, k) :
     \A i \in Twins(nodes, active, kept, k) : j <= i

\* The predecessors that the node at j is given.
Added(nodes, active, kept, j) ==
  FlattenSeq([ k \in DOMAIN active |->
    IF k \notin kept /\ Into(nodes, active, kept, k) = j
      THEN nodes[active[k]].preds ELSE <<>> ])

PlaceOf(active, n) == CHOOSE k \in DOMAIN active : active[k] = n

Merged(nodes, active, kept) ==
  [ n \in DOMAIN nodes |->
      IF n \notin ToSet(active) THEN nodes[n]
      ELSE IF PlaceOf(active, n) \notin kept THEN [nodes[n] EXCEPT !.S = 0, !.preds = <<>>]
      ELSE [nodes[n] EXCEPT !.preds = @ \o Added(nodes, active, kept, PlaceOf(active, n))] ]

RemainingAll(active, kept) == active      \* mutant: what was merged stays active
Remaining(active, kept) ==
  LET keep[k \in 0 .. Len(active)] ==
        IF k = 0 THEN <<>>
        ELSE IF k \in kept THEN Append(keep[k - 1], active[k]) ELSE keep[k - 1]
  IN keep[Len(active)]

(***************************************************************************)
(* The lists that other lists are made of.  Lists are hash-consed, so that *)
(* a list is one object, shared by all that end in it or have it below a   *)
(* tag; each of these, and each AST node, owns one reference to it.        *)
(***************************************************************************)
Suffixes1(l) == { SubSeq(l, k, Len(l)) : k \in 1 .. Len(l) }

Below(L) == { l \in { Head(c).kids : c \in L } : l # <<>> }

Cells(lists, depth) ==
  LET spine(L) == UNION { Suffixes1(l) : l \in L }
      reach[d \in 0 .. depth] ==
        IF d = 0 THEN spine(lists)
        ELSE LET above == reach[d - 1] IN above \cup spine(Below(above))
  IN reach[depth]

Edges(nodes) == UNION { {n} \X DOMAIN nodes[n].preds : n \in DOMAIN nodes }
Live(nodes)  == { e \in Edges(nodes) : nodes[e[1]].preds[e[2]].live }
AstOf(nodes, e) == nodes[e[1]].preds[e[2]].ast

Owners(nodes, c) ==
  LET held  == { e \in Live(nodes) : AstOf(nodes, e) = c }
      cells == Cells({AstOf(nodes, e) : e \in Live(nodes)}, Len(nodes))
  IN Cardinality(held)
     + Cardinality({ d \in cells : Tail(d) = c })
     + Cardinality({ Head(d) : d \in {b \in cells : Head(b).kids = c} })

\* The stack once c is freed: what is made of it is not to be read any more.
Outlives(nodes, e, c) == [e EXCEPT !.live = @ /\ c \notin Cells({e.ast}, Len(nodes))]

Freed(nodes, c) ==
  [ n \in DOMAIN nodes |->
      [ nodes[n] EXCEPT !.preds =
          [ k \in DOMAIN nodes[n].preds |-> Outlives(nodes, nodes[n].preds[k], c) ] ] ]
=============================================================================
