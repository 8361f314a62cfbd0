--------------------------- MODULE GLRParse_proofs ---------------------------
(***************************************************************************)
(* Proofs about GLRParse: whatever the grammar and the text, and whatever  *)
(* order the code takes tokens and reductions in, the stack follows the    *)
(* automaton, until the call breaks and after; and as long as merge_active *)
(* misses no twin, a pass takes the nodes it began with, and what is       *)
(* accepted was read in the text.                                          *)
(***************************************************************************)
EXTENDS GLRParse, LRTables_proofs

(***************************************************************************)
(* The parts of the invariant, as facts about values: T is an automaton,   *)
(* ns and act the nodes and the active ones, o the offset.                 *)
(***************************************************************************)
Goes(T, s, x) == IF x \in DOMAIN T.trans[s] THEN T.trans[s][x] ELSE 0

\* A node that will not be active again: all that is active is newer.
Buried(ns, act, m) ==
  m \in DOMAIN ns /\ ns[m].S # 0 /\ \A a \in ToSet(act) : m < a

IsNode(x) == x = [S |-> x.S, O |-> x.O, P |-> x.P, preds |-> x.preds]
IsEdge(e) == e = [from |-> e.from, ast |-> e.ast, live |-> e.live]

EdgeRight(T, ns, act, n, m) ==
  /\ m \in 0 .. n - 1
  /\ m = 0 => ns[n].S = 1
  /\ m # 0 => Buried(ns, act, m) /\ Goes(T, ns[m].S, ns[n].P) = ns[n].S

NodeRight(T, ns, act, o, n) ==
  /\ IsNode(ns[n])
  /\ ns[n].S \in DOMAIN T.states \cup {0}
  /\ ns[n].O \in 0 .. o
  /\ IsList(ns[n].preds)
  /\ \A k \in DOMAIN ns[n].preds :
       IsEdge(ns[n].preds[k]) /\ EdgeRight(T, ns, act, n, ns[n].preds[k].from)

StackRight(T, ns, act, o) ==
  /\ IsList(ns)
  /\ \A n \in DOMAIN ns : NodeRight(T, ns, act, o, n)

\* The active nodes are in the order they were made in.
InOrder(ns, act) ==
  /\ act \in Seq(DOMAIN ns)
  /\ \A j, k \in DOMAIN act : j < k => act[j] < act[k]

\* No node is over one with a greater offset.
OffsetsGrow(ns) ==
  \A n \in DOMAIN ns : \A k \in DOMAIN ns[n].preds :
    LET m == ns[n].preds[k].from IN m # 0 => ns[m].O <= ns[n].O

\* No two of the first n active nodes are twins.
NoTwins(ns, act, n) ==
  \A j, k \in 1 .. n : j < k => ~ SameId(ns[act[j]], ns[act[k]])

\* What is committed to pending_reductions ends where its rule was begun.
WaysRight(T, g, ns, act, ps) ==
  /\ IsList(ps)
  /\ \A k \in DOMAIN ps :
       /\ IsItem(g, ps[k].item)
       /\ Buried(ns, act, ps[k].tail)
       /\ [ps[k].item EXCEPT !.dot = 0] \in T.states[ns[ps[k].tail].S]

(***************************************************************************)
(* The first l active nodes are those that the pass began with and has not *)
(* taken yet: t is what the tokenizer was asked then, and returned.        *)
(***************************************************************************)
Waiting(T, tokens, ns, act, l, t) ==
  /\ l <= Len(act) /\ NoTwins(ns, act, l)
  /\ \A k \in 1 .. l :
       /\ ns[act[k]].O <= t.from
       /\ DOMAIN T.trans[ns[act[k]].S] \cap tokens \subseteq t.asked

(***************************************************************************)
(* The invariant: the stack is right at any moment, the node taken is of   *)
(* it, and of the pass that goes on, n_states is what is left of the nodes *)
(* it began with.                                                          *)
(***************************************************************************)
Shapes ==
  /\ job \in Jobs
  /\ initial \in Alternatives(G, G.start)
  /\ offset \in 0 .. Size
  /\ tok.hits \subseteq tok.asked /\ tok.asked \subseteq DOMAIN G.tokens
  /\ tok.from \in Nat /\ tok.to \in Nat /\ tok.from <= tok.to /\ tok.to <= offset
  /\ cur \in DOMAIN nodes \cup {0}
  /\ \A i \in reds : IsItem(G, i) /\ AtEnd(i)
  /\ IsABag(excess)
  /\ accepted.some \in BOOLEAN
  /\ overlooked \in BOOLEAN
  /\ phase \in {"pass", "node", "reduce", "done", "broken"}

Taking ==
  phase = "reduce" =>
    /\ Buried(nodes, active, cur)
    /\ reds \subseteq Reductions(nodes[cur].S)

Passing ==
  /\ left \in Nat /\ (phase = "node" => left # 0)
  /\ ~overlooked =>
       /\ OffsetsGrow(nodes)
       /\ phase \in {"pass", "node"} => NoTwins(nodes, active, Len(active))
       /\ phase \in {"node", "reduce"} =>
            Waiting(A, DOMAIN G.tokens, nodes, active, left, tok)

IInv ==
  /\ Shapes
  /\ StackRight(A, nodes, active, offset)
  /\ InOrder(nodes, active)
  /\ WaysRight(A, G, nodes, active, pend)
  /\ Taking
  /\ Passing
-----------------------------------------------------------------------------
(***************************************************************************)
(* Taking the first active node, and adding nodes over a buried one.       *)
(***************************************************************************)
LEMMA OrderFacts ==
  ASSUME NEW ns, NEW act, IsList(ns), InOrder(ns, act)
  PROVE  /\ Len(ns) \in Nat /\ DOMAIN ns = 1 .. Len(ns)
         /\ IsList(act) /\ Len(act) \in Nat /\ DOMAIN act = 1 .. Len(act)
         /\ \A k \in 1 .. Len(act) : act[k] \in DOMAIN ns /\ act[k] \in Nat
         /\ ToSet(act) \subseteq DOMAIN ns
<1>1. Len(ns) \in Nat /\ DOMAIN ns = 1 .. Len(ns)
  BY ListFacts
<1>2. IsList(act) /\ ToSet(act) \subseteq DOMAIN ns
  BY ListOfSeq DEF InOrder
<1>3. Len(act) \in Nat /\ DOMAIN act = 1 .. Len(act)
  BY <1>2, ListFacts
<1>4. \A k \in 1 .. Len(act) : act[k] \in ToSet(act)
  BY <1>3 DEF ToSet
<1> QED BY <1>1, <1>2, <1>3, <1>4

LEMMA TakeRight ==
  ASSUME NEW T, NEW ns, NEW act, NEW o, StackRight(T, ns, act, o), InOrder(ns, act),
         act # <<>>, ns[Head(act)].S # 0
  PROVE  /\ StackRight(T, ns, Tail(act), o) /\ InOrder(ns, Tail(act))
         /\ Head(act) = act[1] /\ Buried(ns, Tail(act), Head(act))
         /\ \A m : Buried(ns, act, m) => Buried(ns, Tail(act), m)
         /\ Len(act) # 0 /\ Len(Tail(act)) = Len(act) - 1
         /\ \A k \in 1 .. Len(act) - 1 : Tail(act)[k] = act[k + 1]
<1>1. /\ IsList(act) /\ Len(act) \in Nat /\ DOMAIN act = 1 .. Len(act) /\ Len(act) # 0
      /\ \A k \in 1 .. Len(act) : act[k] \in DOMAIN ns /\ act[k] \in Nat
      /\ ToSet(act) \subseteq DOMAIN ns
  BY OrderFacts, ListFacts DEF StackRight
<1>2. /\ act \in Seq(DOMAIN ns) /\ Tail(act) \in Seq(DOMAIN ns)
      /\ Len(Tail(act)) = Len(act) - 1
      /\ \A k \in 1 .. Len(act) - 1 : Tail(act)[k] = act[k + 1]
  BY HeadTailProperties DEF InOrder
<1>3. DOMAIN Tail(act) = 1 .. Len(act) - 1
  BY <1>2, LenProperties
<1>4. Head(act) = act[1] /\ 1 \in DOMAIN act
  BY <1>1, <1>2
<1> DEFINE t == Tail(act)
<1> HIDE DEF t
<1>5. ASSUME NEW a \in ToSet(t) PROVE a \in ToSet(act) /\ act[1] < a
  <2>1. PICK k \in 1 .. Len(act) - 1 : a = act[k + 1]
    BY <1>2, <1>3, <1>5 DEF ToSet, t
  <2>2. k + 1 \in DOMAIN act /\ 1 < k + 1
    BY <1>1
  <2> QED BY <1>4, <2>1, <2>2 DEF ToSet, InOrder
<1>6. \A m : Buried(ns, act, m) => Buried(ns, t, m)
  BY <1>5 DEF Buried
<1>7. Buried(ns, t, Head(act))
  BY <1>1, <1>4, <1>5 DEF Buried
<1>8. InOrder(ns, t)
  <2>1. ASSUME NEW j \in DOMAIN t, NEW k \in DOMAIN t, j < k PROVE t[j] < t[k]
    <3>1. t[j] = act[j + 1] /\ t[k] = act[k + 1] /\ j + 1 < k + 1
          /\ j + 1 \in DOMAIN act /\ k + 1 \in DOMAIN act
      BY <1>1, <1>2, <1>3, <2>1 DEF t
    <3> QED BY <3>1 DEF InOrder
  <2> QED BY <1>2, <2>1 DEF InOrder, t
<1>9. StackRight(T, ns, t, o)
  BY <1>6 DEF StackRight, NodeRight, EdgeRight
<1> QED BY <1>1, <1>2, <1>4, <1>6, <1>7, <1>8, <1>9 DEF t

\* What is waiting still waits when nodes are added behind.
LEMMA StillWaiting ==
  ASSUME NEW T, NEW tokens, NEW ns, NEW act, NEW l \in Nat, NEW t, Waiting(T, tokens, ns, act, l, t),
         Len(act) \in Nat, NEW ms, NEW bct, Len(bct) \in Nat, Len(act) <= Len(bct),
         \A k \in 1 .. Len(act) : bct[k] = act[k] /\ ms[act[k]] = ns[act[k]]
  PROVE  Waiting(T, tokens, ms, bct, l, t)
<1>1. l <= Len(act) /\ l <= Len(bct)
  BY DEF Waiting
<1>2. \A k \in 1 .. l : bct[k] = act[k] /\ ms[act[k]] = ns[act[k]]
  BY <1>1
<1> QED BY <1>1, <1>2 DEF Waiting, NoTwins

\* NewIds, with the nodes as a parameter.
IdsAfter(ns, k) == [ j \in 1 .. k |-> Len(ns) + j ]

Grown(ns, new)       == ns \o new
Behind(ns, act, new) == act \o IdsAfter(ns, Len(new))

RightOver(T, ns, o, m, N) ==
  /\ IsNode(N) /\ N.S \in DOMAIN T.states \cup {0} /\ N.O \in 0 .. o
  /\ IsList(N.preds)
  /\ \A k \in DOMAIN N.preds : IsEdge(N.preds[k]) /\ N.preds[k].from = m
  /\ Goes(T, ns[m].S, N.P) = N.S

LEMMA NewNodeRight ==
  ASSUME NEW T, NEW ns, NEW o, NEW m, NEW S, S \in DOMAIN T.states \cup {0}, NEW O \in 0 .. o,
         NEW P, NEW ast, Goes(T, ns[m].S, P) = S
  PROVE  RightOver(T, ns, o, m, NewNode(S, O, P, m, ast)) /\ NewNode(S, O, P, m, ast).O = O
<1> DEFINE e == Edge(m, ast)
           N == NewNode(S, O, P, m, ast)
<1>1. IsEdge(e) /\ e.from = m
  BY DEF IsEdge, Edge
<1>2. N.S = S /\ N.O = O /\ N.P = P /\ N.preds = << e >> /\ IsNode(N)
  BY DEF NewNode, IsNode
<1> HIDE DEF e, N
<1>3. IsList(<< e >>) /\ << e >>[1] = e /\ DOMAIN << e >> = {1}
  BY OneList
<1> QED BY <1>1, <1>2, <1>3 DEF RightOver, N

\* What growing from ns and act to ms and bct keeps.
GrownRight(T, tokens, ns, act, o, m, new, ms, bct) ==
  /\ StackRight(T, ms, bct, o) /\ InOrder(ms, bct)
  /\ DOMAIN ns \subseteq DOMAIN ms
  /\ \A b : Buried(ns, act, b) => Buried(ms, bct, b) /\ ms[b] = ns[b]
  /\ OffsetsGrow(ns) /\ (\A k \in DOMAIN new : ns[m].O <= new[k].O) => OffsetsGrow(ms)
  /\ \A l \in Nat : \A t : Waiting(T, tokens, ns, act, l, t) => Waiting(T, tokens, ms, bct, l, t)

LEMMA GrowRight ==
  ASSUME NEW T, NEW tokens, NEW ns, NEW act, NEW o, StackRight(T, ns, act, o), InOrder(ns, act),
         NEW m, Buried(ns, act, m), NEW new, IsList(new),
         \A k \in DOMAIN new : RightOver(T, ns, o, m, new[k]),
         NEW ms, ms = Grown(ns, new), NEW bct, bct = Behind(ns, act, new)
  PROVE  GrownRight(T, tokens, ns, act, o, m, new, ms, bct)
<1> DEFINE l == Len(ns)
           d == Len(new)
<1>1. /\ l \in Nat /\ DOMAIN ns = 1 .. l
      /\ IsList(act) /\ Len(act) \in Nat /\ DOMAIN act = 1 .. Len(act)
      /\ \A k \in 1 .. Len(act) : act[k] \in DOMAIN ns /\ act[k] \in Nat
      /\ ToSet(act) \subseteq DOMAIN ns
  BY OrderFacts DEF StackRight
<1>2. d \in Nat /\ DOMAIN new = 1 .. d
  BY ListFacts
<1>3. PICK ids : /\ ids = IdsAfter(ns, d) /\ IsList(ids) /\ Len(ids) = d
                 /\ \A k \in 1 .. d : ids[k] = l + k
  <2> DEFINE f == IdsAfter(ns, d)
  <2>1. DOMAIN f = 1 .. d /\ f = [k \in 1 .. d |-> f[k]] /\ \A k \in 1 .. d : f[k] = l + k
    BY DEF IdsAfter
  <2> HIDE DEF f, d
  <2>2. IsList(f) /\ Len(f) = d
    BY <1>2, <2>1, ListOfFunction
  <2> QED BY <2>1, <2>2 DEF f
<1>4. /\ IsList(ms) /\ Len(ms) = l + d /\ DOMAIN ms = 1 .. l + d
      /\ \A n \in 1 .. l : ms[n] = ns[n]
      /\ \A k \in 1 .. d : ms[l + k] = new[k]
  <2>1. ms = ns \o new /\ IsList(ns)
    BY DEF Grown, StackRight
  <2> HIDE DEF l, d
  <2>2. /\ IsList(ms) /\ Len(ms) = Len(ns) + Len(new) /\ DOMAIN ms = 1 .. Len(ns) + Len(new)
        /\ \A n \in 1 .. Len(ns) : ms[n] = ns[n]
        /\ \A k \in 1 .. Len(new) : ms[Len(ns) + k] = new[k]
    BY <2>1, ConcatLists
  <2> QED BY <2>2 DEF l, d
<1>5. /\ IsList(bct) /\ Len(bct) = Len(act) + d /\ DOMAIN bct = 1 .. Len(act) + d
      /\ \A k \in 1 .. Len(act) : bct[k] = act[k]
      /\ \A k \in 1 .. d : bct[Len(act) + k] = l + k
      /\ ToSet(bct) = ToSet(act) \cup ToSet(ids)
  <2>1. bct = act \o ids /\ IsList(act) /\ IsList(ids)
    BY <1>1, <1>3 DEF Behind
  <2> HIDE DEF d, l
  <2>2. /\ IsList(bct) /\ Len(bct) = Len(act) + Len(ids) /\ DOMAIN bct = 1 .. Len(act) + Len(ids)
        /\ \A k \in 1 .. Len(act) : bct[k] = act[k]
        /\ \A k \in 1 .. Len(ids) : bct[Len(act) + k] = ids[k]
        /\ ToSet(bct) = ToSet(act) \cup ToSet(ids)
    BY <2>1, ConcatLists
  <2> QED BY <1>3, <2>2
<1>6. ASSUME NEW a \in ToSet(ids) PROVE a \in 1 .. l + d /\ a > l
  <2> HIDE DEF l, d
  <2>1. DOMAIN ids = 1 .. d
    BY <1>3, ListFacts
  <2>2. PICK k \in 1 .. d : a = l + k
    BY <1>3, <1>6, <2>1 DEF ToSet
  <2> QED BY <1>1, <1>2, <2>2
<1> HIDE DEF l, d
<1>7. ASSUME NEW n \in DOMAIN ms, n \notin DOMAIN ns PROVE n > l /\ n - l \in 1 .. d /\ ms[n] = new[n - l]
  <2>1. n - l \in 1 .. d /\ n = l + (n - l) /\ n > l
    BY <1>1, <1>2, <1>4, <1>7
  <2> QED BY <1>4, <2>1
<1>8. ASSUME NEW b, Buried(ns, act, b) PROVE Buried(ms, bct, b) /\ ms[b] = ns[b] /\ b \in 1 .. l
  <2>1. b \in 1 .. l /\ ms[b] = ns[b] /\ b \in DOMAIN ms
    BY <1>1, <1>2, <1>4, <1>8 DEF Buried
  <2>2. ASSUME NEW a \in ToSet(bct) PROVE b < a
    <3>1. CASE a \in ToSet(act)
      BY <1>8, <3>1 DEF Buried
    <3>2. CASE a \in ToSet(ids)
      BY <1>1, <1>6, <2>1, <3>2
    <3> QED BY <1>5, <2>2, <3>1, <3>2
  <2> QED BY <1>8, <2>1, <2>2 DEF Buried
<1>9. StackRight(T, ms, bct, o)
  <2> SUFFICES ASSUME NEW n \in DOMAIN ms PROVE NodeRight(T, ms, bct, o, n)
    BY <1>4 DEF StackRight
  <2>1. CASE n \in DOMAIN ns
    <3>1. ms[n] = ns[n] /\ NodeRight(T, ns, act, o, n)
      BY <1>1, <1>4, <2>1 DEF StackRight
    <3>2. ASSUME NEW k, EdgeRight(T, ns, act, n, k) PROVE EdgeRight(T, ms, bct, n, k)
      BY <1>8, <3>1, <3>2 DEF EdgeRight
    <3> QED BY <3>1, <3>2 DEF NodeRight
  <2>2. CASE n \notin DOMAIN ns
    <3>1. n > l /\ n - l \in DOMAIN new /\ ms[n] = new[n - l] /\ RightOver(T, ns, o, m, ms[n])
      BY <1>2, <1>7, <2>2
    <3>2. Buried(ms, bct, m) /\ ms[m] = ns[m] /\ m \in 1 .. l
      BY <1>8
    <3>3. m \in 0 .. n - 1 /\ m # 0
      BY <1>1, <1>2, <1>4, <3>1, <3>2
    <3>4. EdgeRight(T, ms, bct, n, m)
      BY <3>1, <3>2, <3>3 DEF EdgeRight, RightOver
    <3> QED BY <3>1, <3>4 DEF NodeRight, RightOver
  <2> QED BY <2>1, <2>2
<1>10. InOrder(ms, bct)
  <2>1. bct \in Seq(DOMAIN ms)
    <3>1. ToSet(bct) \subseteq 1 .. l + d
      BY <1>1, <1>2, <1>5, <1>6
    <3> QED BY <1>4, <1>5, <3>1, ListOfSeq
  <2>2. ASSUME NEW j \in DOMAIN bct, NEW k \in DOMAIN bct, j < k PROVE bct[j] < bct[k]
    <3>1. Len(act) \in Nat /\ d \in Nat /\ j \in 1 .. Len(act) + d /\ k \in 1 .. Len(act) + d
      BY <1>1, <1>2, <1>5
    <3>2. CASE k <= Len(act)
      <4>1. j \in DOMAIN act /\ k \in DOMAIN act /\ bct[j] = act[j] /\ bct[k] = act[k]
        BY <1>1, <1>2, <1>5, <2>2, <3>2
      <4> QED BY <2>2, <4>1 DEF InOrder
    <3>3. CASE k > Len(act)
      <4>1. PICK q \in 1 .. d : k = Len(act) + q
        <5>1. k - Len(act) \in 1 .. d /\ k = Len(act) + (k - Len(act))
          BY <1>1, <1>2, <1>5, <3>3
        <5> QED BY <5>1
      <4>2. bct[k] = l + q
        BY <1>5, <4>1
      <4>3. CASE j <= Len(act)
        <5>1. j \in 1 .. Len(act)
          BY <1>1, <1>2, <1>5, <4>3
        <5>2. bct[j] = act[j] /\ act[j] \in 1 .. l
          BY <1>1, <1>5, <5>1
        <5> QED BY <1>1, <1>2, <4>1, <4>2, <5>2
      <4>4. CASE j > Len(act)
        <5>1. j - Len(act) \in 1 .. d /\ j = Len(act) + (j - Len(act)) /\ j - Len(act) < q
          BY <2>2, <3>1, <4>1, <4>4
        <5>2. bct[j] = l + (j - Len(act))
          BY <1>5, <5>1
        <5> QED BY <1>1, <4>2, <5>1, <5>2
      <4>5. j <= Len(act) \/ j > Len(act)
        BY <3>1
      <4> QED BY <4>3, <4>4, <4>5
    <3>4. k <= Len(act) \/ k > Len(act)
      BY <3>1
    <3> QED BY <3>2, <3>3, <3>4
  <2> QED BY <2>1, <2>2 DEF InOrder
<1>11. ASSUME OffsetsGrow(ns), \A k \in DOMAIN new : ns[m].O <= new[k].O PROVE OffsetsGrow(ms)
  <2> SUFFICES ASSUME NEW n \in DOMAIN ms, NEW k \in DOMAIN ms[n].preds,
                      ms[n].preds[k].from # 0
               PROVE  ms[ms[n].preds[k].from].O <= ms[n].O
    BY DEF OffsetsGrow
  <2>1. CASE n \in DOMAIN ns
    <3>1. ms[n] = ns[n] /\ NodeRight(T, ns, act, o, n)
      BY <1>1, <1>4, <2>1 DEF StackRight
    <3>2. ms[ns[n].preds[k].from] = ns[ns[n].preds[k].from]
      BY <1>8, <3>1 DEF NodeRight, EdgeRight
    <3> QED BY <1>11, <2>1, <3>1, <3>2 DEF OffsetsGrow
  <2>2. CASE n \notin DOMAIN ns
    <3>1. n - l \in DOMAIN new /\ ms[n] = new[n - l] /\ RightOver(T, ns, o, m, ms[n])
      BY <1>2, <1>7, <2>2
    <3>2. ms[n].preds[k].from = m /\ ms[m] = ns[m]
      BY <1>8, <3>1 DEF RightOver
    <3> QED BY <1>11, <3>1, <3>2
  <2> QED BY <2>1, <2>2
<1>12. ASSUME NEW q \in Nat, NEW t, Waiting(T, tokens, ns, act, q, t)
       PROVE  Waiting(T, tokens, ms, bct, q, t)
  <2>1. Len(act) \in Nat /\ Len(bct) \in Nat /\ Len(act) <= Len(bct)
    BY <1>1, <1>2, <1>5
  <2>2. \A k \in 1 .. Len(act) : bct[k] = act[k] /\ ms[act[k]] = ns[act[k]]
    BY <1>1, <1>4, <1>5
  <2> QED BY <1>12, <2>1, <2>2, StillWaiting
<1>13. DOMAIN ns \subseteq DOMAIN ms
  BY <1>1, <1>2, <1>4
<1> QED BY <1>8, <1>9, <1>10, <1>11, <1>12, <1>13 DEF GrownRight

-----------------------------------------------------------------------------
(***************************************************************************)
(* Merging: what stays active, and in which order.                         *)
(***************************************************************************)
KeptOf(act, kept, k, v) ==
  /\ IsList(v) /\ Len(v) <= k
  /\ ToSet(v) = { act[j] : j \in kept \cap 1 .. k }
  /\ \A p, q \in DOMAIN v : p < q =>
       \E a, b \in kept \cap 1 .. k : a < b /\ v[p] = act[a] /\ v[q] = act[b]
  /\ \A i \in 1 .. k : 1 .. i \subseteq kept => i <= Len(v) /\ v[i] = act[i]

LEMMA KeepOneMore ==
  ASSUME NEW act, NEW kept, NEW k \in Nat, NEW v, KeptOf(act, kept, k, v)
  PROVE  KeptOf(act, kept, k + 1, IF k + 1 \in kept THEN Append(v, act[k + 1]) ELSE v)
<1>1. Len(v) \in Nat /\ DOMAIN v = 1 .. Len(v) /\ Len(v) <= k
  BY ListFacts DEF KeptOf
<1>2. CASE k + 1 \notin kept
  <2>1. kept \cap 1 .. k + 1 = kept \cap 1 .. k
    BY <1>2
  <2>2. \A i \in 1 .. k + 1 : 1 .. i \subseteq kept => i \in 1 .. k
    <3> SUFFICES ASSUME NEW i \in 1 .. k + 1, 1 .. i \subseteq kept PROVE i \in 1 .. k
      OBVIOUS
    <3>1. i \in 1 .. i
      OBVIOUS
    <3> QED BY <1>2, <3>1
  <2>3. Len(v) <= k + 1
    BY <1>1
  <2>4. \A i \in 1 .. k + 1 : 1 .. i \subseteq kept => i <= Len(v) /\ v[i] = act[i]
    BY <2>1, <2>2 DEF KeptOf
  <2>5. KeptOf(act, kept, k + 1, v)
    BY <2>1, <2>3, <2>4 DEF KeptOf
  <2> QED BY <1>2, <2>5
<1>3. CASE k + 1 \in kept
  <2>1. PICK x : x = act[k + 1]
    OBVIOUS
  <2>2. PICK w : w = Append(v, x)
    OBVIOUS
  <2>3. /\ IsList(w) /\ Len(w) = Len(v) + 1 /\ DOMAIN w = 1 .. Len(v) + 1
        /\ \A i \in 1 .. Len(v) : w[i] = v[i]
        /\ w[Len(v) + 1] = x
        /\ ToSet(w) = ToSet(v) \cup {x}
    <3>1. IsList(v)
      BY DEF KeptOf
    <3>2. /\ IsList(Append(v, x)) /\ Len(Append(v, x)) = Len(v) + 1
          /\ DOMAIN Append(v, x) = 1 .. Len(v) + 1
          /\ \A i \in 1 .. Len(v) : Append(v, x)[i] = v[i]
          /\ Append(v, x)[Len(v) + 1] = x
          /\ ToSet(Append(v, x)) = ToSet(v) \cup {x}
      BY <3>1, AppendedList, Zenon
    <3> QED BY <2>2, <3>2, Zenon
  <2>4. kept \cap 1 .. k + 1 = (kept \cap 1 .. k) \cup {k + 1}
    BY <1>3
  <2>5. ToSet(w) = { act[j] : j \in kept \cap 1 .. k + 1 }
    BY <2>1, <2>3, <2>4 DEF KeptOf
  <2>6. ASSUME NEW p \in DOMAIN w, NEW q \in DOMAIN w, p < q
        PROVE  \E a, b \in kept \cap 1 .. k + 1 : a < b /\ w[p] = act[a] /\ w[q] = act[b]
    <3>1. p \in DOMAIN v /\ w[p] = v[p]
      BY <1>1, <2>3, <2>6
    <3>2. CASE q <= Len(v)
      <4>1. q \in DOMAIN v /\ w[q] = v[q]
        BY <1>1, <2>3, <3>2
      <4>2. PICK a \in kept \cap 1 .. k, b \in kept \cap 1 .. k :
              a < b /\ v[p] = act[a] /\ v[q] = act[b]
        BY <2>6, <3>1, <4>1 DEF KeptOf
      <4> QED BY <2>4, <3>1, <4>1, <4>2
    <3>3. CASE q = Len(v) + 1
      <4>1. v[p] \in ToSet(v)
        BY <3>1 DEF ToSet
      <4>2. PICK a \in kept \cap 1 .. k : v[p] = act[a]
        BY <4>1 DEF KeptOf
      <4>3. a < k + 1 /\ k + 1 \in kept \cap 1 .. k + 1 /\ a \in kept \cap 1 .. k + 1
        BY <1>3, <4>2
      <4> QED BY <2>1, <2>3, <3>1, <3>3, <4>2, <4>3
    <3> QED BY <1>1, <2>3, <3>2, <3>3
  <2>7. ASSUME NEW i \in 1 .. k + 1, 1 .. i \subseteq kept
        PROVE  i <= Len(w) /\ w[i] = act[i]
    <3>1. CASE i \in 1 .. k
      <4>1. i <= Len(v) /\ v[i] = act[i]
        BY <2>7, <3>1 DEF KeptOf
      <4> QED BY <1>1, <2>3, <3>1, <4>1
    <3>2. CASE i = k + 1
      <4>1. k <= Len(v)
        <5>1. CASE k = 0
          BY <1>1, <5>1
        <5>2. CASE k # 0
          <6>1. k \in 1 .. k /\ 1 .. k \subseteq kept
            BY <2>7, <3>2, <5>2
          <6> QED BY <6>1 DEF KeptOf
        <5> QED BY <5>1, <5>2
      <4>2. Len(v) \in Nat /\ Len(v) <= k
        BY <1>1
      <4>3. Len(v) = k
        BY <4>1, <4>2
      <4> QED BY <2>1, <2>3, <3>2, <4>3
    <3> QED BY <3>1, <3>2
  <2>8. Len(w) <= k + 1
    BY <1>1, <2>3
  <2>9. KeptOf(act, kept, k + 1, w)
    BY <2>3, <2>5, <2>6, <2>7, <2>8 DEF KeptOf
  <2> QED BY <1>3, <2>1, <2>2, <2>9
<1> QED BY <1>2, <1>3

LEMMA RemainingFacts ==
  ASSUME NEW act, IsList(act), NEW kept
  PROVE  KeptOf(act, kept, Len(act), Remaining(act, kept))
<1> DEFINE n == Len(act)
           E == ToSet(act)
           Keeps(f) == f = [k \in 0 .. n |->
                              IF k = 0 THEN <<>>
                              ELSE IF k \in kept THEN Append(f[k - 1], act[k]) ELSE f[k - 1]]
           keep == CHOOSE f : Keeps(f)
           S == 0 .. n
           B == {0}
           given == [k \in B |-> <<>>]
           prior == [k \in S \ B |-> k - 1]
           step == [k \in S \ B |-> [v \in Seq(E) |-> IF k \in kept THEN Append(v, act[k]) ELSE v]]
<1>1. n \in Nat /\ DOMAIN act = 1 .. n /\ \A k \in 1 .. n : act[k] \in E
  BY ListFacts DEF ToSet
<1>2. S \in SUBSET Nat /\ B \in SUBSET S /\ given \in [B -> Seq(E)]
  <2>1. <<>> \in Seq(E)
    BY EmptySeq
  <2> QED BY <1>1, <2>1
<1>3. prior \in [S \ B -> S] /\ \A k \in S \ B : prior[k] < k
  BY <1>1
<1>4. step \in [S \ B -> [Seq(E) -> Seq(E)]]
  <2> SUFFICES ASSUME NEW k \in S \ B, NEW v \in Seq(E)
               PROVE  (IF k \in kept THEN Append(v, act[k]) ELSE v) \in Seq(E)
    OBVIOUS
  <2>1. act[k] \in E
    BY <1>1
  <2> HIDE DEF E
  <2> QED BY <2>1, AppendProperties
<1>5. PICK f \in [S -> Seq(E)] : Recursion(S, given, prior, step, f)
  <2> HIDE DEF S, B, given, prior, step, E
  <2> QED BY <1>2, <1>3, <1>4, RecursionExists
<1>6. Keeps(f)
  <2>1. ASSUME NEW k \in S
        PROVE  f[k] = IF k = 0 THEN <<>>
                      ELSE IF k \in kept THEN Append(f[k - 1], act[k]) ELSE f[k - 1]
    <3>1. f[k] = IF k \in B THEN given[k] ELSE step[k][f[prior[k]]]
      BY <1>5 DEF Recursion
    <3>2. CASE k = 0
      BY <3>1, <3>2
    <3>3. CASE k # 0
      <4>1. k \in S \ B /\ prior[k] = k - 1 /\ k - 1 \in S
        BY <1>1, <3>3
      <4>2. f[k - 1] \in Seq(E)
        BY <1>5, <4>1
      <4>3. step[k][f[k - 1]] = IF k \in kept THEN Append(f[k - 1], act[k]) ELSE f[k - 1]
        BY <4>1, <4>2
      <4> QED BY <3>1, <3>3, <4>1, <4>3
    <3> QED BY <3>2, <3>3
  <2>2. f = [k \in S |-> f[k]]
    BY <1>5
  <2> HIDE DEF n
  <2> QED BY <2>1, <2>2
<1>7. Keeps(keep) /\ Remaining(act, kept) = keep[n]
  BY <1>6 DEF Remaining
<1> HIDE DEF keep
<1> DEFINE D == { k \in Nat : k \in S => KeptOf(act, kept, k, keep[k]) }
<1>8. ASSUME NEW k \in Nat, \A m \in Nat : m < k => m \in D PROVE k \in D
  <2> SUFFICES ASSUME k \in S PROVE KeptOf(act, kept, k, keep[k])
    OBVIOUS
  <2>1. keep[k] = IF k = 0 THEN <<>>
                  ELSE IF k \in kept THEN Append(keep[k - 1], act[k]) ELSE keep[k - 1]
    BY <1>7
  <2>2. CASE k = 0
    <3> DEFINE v == <<>>
    <3>1. keep[k] = v /\ IsList(v) /\ Len(v) = 0 /\ DOMAIN v = {} /\ ToSet(v) = {}
      BY <2>1, <2>2, NoList
    <3> HIDE DEF v
    <3>2. 1 .. k = {}
      BY <2>2
    <3> QED BY <2>2, <3>1, <3>2 DEF KeptOf
  <2>3. CASE k # 0
    <3>1. k - 1 \in Nat /\ k - 1 < k /\ k - 1 \in S /\ (k - 1) + 1 = k
      BY <1>1, <2>3
    <3>2. KeptOf(act, kept, k - 1, keep[k - 1])
      BY <1>8, <3>1
    <3>3. PICK j \in Nat : j = k - 1 /\ j + 1 = k
      BY <3>1
    <3>4. KeptOf(act, kept, j, keep[j])
      BY <3>2, <3>3
    <3>5. KeptOf(act, kept, j + 1, IF j + 1 \in kept THEN Append(keep[j], act[j + 1]) ELSE keep[j])
      BY <3>4, KeepOneMore
    <3> QED BY <2>1, <2>3, <3>3, <3>5
  <2> QED BY <2>2, <2>3
<1>9. Nat \subseteq D
  <2> HIDE DEF D
  <2> QED BY <1>8, SetInduction
<1>10. n \in D /\ n \in S
  BY <1>1, <1>9
<1> QED BY <1>7, <1>10

LEMMA RemainingOfKept ==
  ASSUME NEW act, IsList(act), NEW kept, kept \subseteq 1 .. Len(act),
         NEW v, v = Remaining(act, kept)
  PROVE  /\ IsList(v)
         /\ \A x : x \in ToSet(v) <=> \E j \in kept : x = act[j]
         /\ \A p, q \in DOMAIN v : p < q =>
              \E a, b \in kept : a < b /\ v[p] = act[a] /\ v[q] = act[b]
         /\ \A i \in 1 .. Len(act) : 1 .. i \subseteq kept => i <= Len(v) /\ v[i] = act[i]
<1> DEFINE n == Len(act)
<1>1. KeptOf(act, kept, n, v)
  BY RemainingFacts
<1>2. kept \cap 1 .. n = kept
  OBVIOUS
<1> HIDE DEF n
<1>3. /\ IsList(v)
      /\ ToSet(v) = { act[j] : j \in kept \cap 1 .. n }
      /\ \A p, q \in DOMAIN v : p < q =>
           \E a, b \in kept \cap 1 .. n : a < b /\ v[p] = act[a] /\ v[q] = act[b]
      /\ \A i \in 1 .. n : 1 .. i \subseteq kept => i <= Len(v) /\ v[i] = act[i]
  BY ONLY <1>1 DEF KeptOf
<1>4. /\ IsList(v)
      /\ \A x : x \in ToSet(v) <=> \E j \in kept : x = act[j]
      /\ \A p, q \in DOMAIN v : p < q =>
           \E a, b \in kept : a < b /\ v[p] = act[a] /\ v[q] = act[b]
      /\ \A i \in 1 .. n : 1 .. i \subseteq kept => i <= Len(v) /\ v[i] = act[i]
  BY ONLY <1>2, <1>3
<1> QED BY ONLY <1>4 DEF n

(***************************************************************************)
(* Merging: a node goes into one with its identity, so that what lies      *)
(* under the one may lie under the other; and one that is gone has nothing *)
(* under it.                                                               *)
(***************************************************************************)
LEMMA IntoTwin ==
  ASSUME NEW ns, NEW act, DOMAIN act \subseteq Nat, NEW kept \in Kept(ns, act),
         NEW k \in DOMAIN act \ kept
  PROVE  Into(ns, act, kept, k) \in Twins(ns, act, kept, k)
<1> DEFINE W == Twins(ns, act, kept, k)
<1>1. W # {} /\ W \subseteq Nat
  BY DEF Kept, Twins
<1>2. PICK j \in W : \A i \in W : j <= i
  <2> HIDE DEF W
  <2> QED BY <1>1, Least
<1> QED BY <1>2, Zenon DEF Into

LEMMA PlaceFacts ==
  ASSUME NEW act, NEW n \in ToSet(act)
  PROVE  PlaceOf(act, n) \in DOMAIN act /\ act[PlaceOf(act, n)] = n
<1>1. \E k \in DOMAIN act : act[k] = n
  BY DEF ToSet
<1> QED BY <1>1 DEF PlaceOf

\* What the node n becomes.
MergedFrom(ns, act, n, N) ==
  /\ IsNode(N) /\ N.O = ns[n].O /\ N.P = ns[n].P /\ IsList(N.preds)
  /\ \/ N.S = ns[n].S
     \/ N.S = 0 /\ N.preds = <<>>
  /\ \A k \in DOMAIN N.preds :
       \E m \in {n} \cup ToSet(act) : \E j \in DOMAIN ns[m].preds :
         SameId(ns[m], ns[n]) /\ N.preds[k] = ns[m].preds[j]

LEMMA MergedNode ==
  ASSUME NEW T, NEW ns, NEW act, NEW o, StackRight(T, ns, act, o), InOrder(ns, act),
         NEW kept \in Kept(ns, act), NEW n \in DOMAIN ns
  PROVE  /\ n \notin ToSet(act) => Merged(ns, act, kept)[n] = ns[n]
         /\ n \in ToSet(act) => MergedFrom(ns, act, n, Merged(ns, act, kept)[n])
         /\ n \in { act[k] : k \in kept } => Merged(ns, act, kept)[n].S = ns[n].S
<1> DEFINE N == Merged(ns, act, kept)[n]
           p == PlaceOf(act, n)
           added == Added(ns, act, kept, p)
<1>1. N = IF n \notin ToSet(act) THEN ns[n]
          ELSE IF p \notin kept THEN [ns[n] EXCEPT !.S = 0, !.preds = <<>>]
          ELSE [ns[n] EXCEPT !.preds = @ \o added]
  BY DEF Merged
<1> HIDE DEF N
<1>2. IsNode(ns[n]) /\ IsList(ns[n].preds)
  BY DEF StackRight, NodeRight
<1>3. /\ IsList(act) /\ DOMAIN act = 1 .. Len(act) /\ Len(act) \in Nat
      /\ ToSet(act) \subseteq DOMAIN ns
      /\ \A k \in 1 .. Len(act) : act[k] \in Nat
  BY OrderFacts DEF StackRight
<1>4. kept \subseteq DOMAIN act
  BY DEF Kept
<1>5. ASSUME n \in ToSet(act), p \notin kept
      PROVE  MergedFrom(ns, act, n, N)
  <2>1. N = [ns[n] EXCEPT !.S = 0, !.preds = <<>>]
    BY <1>1, <1>5
  <2> DEFINE none == <<>>
  <2>2. IsNode(N) /\ N.O = ns[n].O /\ N.P = ns[n].P /\ N.S = 0 /\ N.preds = none
    BY <1>2, <2>1 DEF IsNode
  <2>3. IsList(none) /\ DOMAIN none = {}
    BY NoList
  <2> QED BY <2>2, <2>3 DEF MergedFrom
<1>6. ASSUME n \in ToSet(act), p \in kept
      PROVE  MergedFrom(ns, act, n, N) /\ N.S = ns[n].S
  <2>1. N = [ns[n] EXCEPT !.preds = @ \o added]
    BY <1>1, <1>6
  <2>2. p \in DOMAIN act /\ act[p] = n
    BY <1>6, PlaceFacts
  <2> DEFINE ss == [ k \in DOMAIN act |->
                       IF k \notin kept /\ Into(ns, act, kept, k) = p
                         THEN ns[act[k]].preds ELSE <<>> ]
  <2>3. IsList(ss) /\ DOMAIN ss = DOMAIN act
    <3>1. DOMAIN ss = 1 .. Len(act)
      BY <1>3
    <3>2. ss = [k \in 1 .. Len(act) |-> ss[k]]
      BY <3>1
    <3> HIDE DEF ss
    <3> QED BY <1>3, <3>1, <3>2, ListOfFunction
  <2>4. ASSUME NEW q \in DOMAIN ss
        PROVE  /\ IsList(ss[q])
               /\ \A j \in DOMAIN ss[q] :
                    /\ act[q] \in ToSet(act) /\ SameId(ns[act[q]], ns[n])
                    /\ ss[q] = ns[act[q]].preds
    <3>1. CASE q \notin kept /\ Into(ns, act, kept, q) = p
      <4>1. ss[q] = ns[act[q]].preds /\ q \in DOMAIN act \ kept
        BY <2>3, <3>1
      <4>2. p \in Twins(ns, act, kept, q)
        BY <1>3, <3>1, <4>1, IntoTwin
      <4>3. SameId(ns[act[q]], ns[n])
        BY <2>2, <4>2 DEF Twins, SameId
      <4>4. act[q] \in ToSet(act) /\ act[q] \in DOMAIN ns
        BY <1>3, <4>1 DEF ToSet
      <4>5. IsList(ns[act[q]].preds)
        BY <4>4 DEF StackRight, NodeRight
      <4> QED BY <4>1, <4>3, <4>4, <4>5
    <3>2. CASE ~ (q \notin kept /\ Into(ns, act, kept, q) = p)
      <4> DEFINE none == <<>>
      <4>1. ss[q] = none
        BY <2>3, <3>2
      <4>2. IsList(none) /\ DOMAIN none = {}
        BY NoList
      <4> QED BY <4>1, <4>2
    <3> QED BY <3>1, <3>2
  <2>5. added = FlattenSeq(ss)
    BY DEF Added
  <2> HIDE DEF added, ss, p
  <2>6. /\ IsList(added)
        /\ \A k \in DOMAIN added : \E q \in DOMAIN ss : \E j \in DOMAIN ss[q] : added[k] = ss[q][j]
    <3>1. \A q \in DOMAIN ss : IsList(ss[q])
      BY <2>4
    <3> QED BY <2>3, <2>5, <3>1, FlattenLists
  <2>7. \A k \in DOMAIN added :
          \E m \in ToSet(act) : \E j \in DOMAIN ns[m].preds :
            SameId(ns[m], ns[n]) /\ added[k] = ns[m].preds[j]
    <3> SUFFICES ASSUME NEW k \in DOMAIN added
                 PROVE  \E m \in ToSet(act) : \E j \in DOMAIN ns[m].preds :
                          SameId(ns[m], ns[n]) /\ added[k] = ns[m].preds[j]
      OBVIOUS
    <3>1. PICK q \in DOMAIN ss : \E j \in DOMAIN ss[q] : added[k] = ss[q][j]
      BY <2>6
    <3>2. PICK j \in DOMAIN ss[q] : added[k] = ss[q][j]
      BY <3>1
    <3>3. act[q] \in ToSet(act) /\ SameId(ns[act[q]], ns[n]) /\ ss[q] = ns[act[q]].preds
      BY <2>4
    <3> QED BY <3>2, <3>3
  <2> DEFINE old == ns[n].preds
  <2>8. IsNode(N) /\ N.S = ns[n].S /\ N.O = ns[n].O /\ N.P = ns[n].P /\ N.preds = old \o added
    BY <1>2, <2>1 DEF IsNode
  <2>9. PICK ps : ps = N.preds
    OBVIOUS
  <2> HIDE DEF old
  <2>10. /\ IsList(ps) /\ DOMAIN ps = 1 .. Len(old) + Len(added)
         /\ \A k \in 1 .. Len(old) : ps[k] = old[k]
         /\ \A k \in 1 .. Len(added) : ps[Len(old) + k] = added[k]
         /\ Len(old) \in Nat /\ DOMAIN old = 1 .. Len(old)
         /\ Len(added) \in Nat /\ DOMAIN added = 1 .. Len(added)
    <3>1. IsList(old) /\ IsList(added) /\ ps = old \o added
      BY <1>2, <2>6, <2>8, <2>9 DEF old
    <3>2. /\ Len(old) \in Nat /\ DOMAIN old = 1 .. Len(old)
          /\ Len(added) \in Nat /\ DOMAIN added = 1 .. Len(added)
      BY <3>1, ListFacts
    <3> QED BY <3>1, <3>2, ConcatLists
  <2>11. ASSUME NEW k \in DOMAIN ps
         PROVE  \E m \in {n} \cup ToSet(act) : \E j \in DOMAIN ns[m].preds :
                  SameId(ns[m], ns[n]) /\ ps[k] = ns[m].preds[j]
    <3>1. CASE k <= Len(old)
      <4>1. k \in DOMAIN old /\ ps[k] = old[k] /\ SameId(ns[n], ns[n])
        BY <2>10, <3>1 DEF SameId
      <4> QED BY <4>1 DEF old
    <3>2. CASE k > Len(old)
      <4>1. k - Len(old) \in 1 .. Len(added) /\ k = Len(old) + (k - Len(old))
        BY <2>10, <3>2
      <4>2. k - Len(old) \in DOMAIN added /\ ps[k] = added[k - Len(old)]
        BY <2>10, <4>1
      <4> QED BY <2>7, <4>2
    <3> QED BY <2>10, <3>1, <3>2
  <2> QED BY <2>8, <2>9, <2>10, <2>11 DEF MergedFrom
<1>7. n \in { act[k] : k \in kept } => n \in ToSet(act) /\ p \in kept
  <2> SUFFICES ASSUME NEW k \in kept, n = act[k] PROVE n \in ToSet(act) /\ p \in kept
    OBVIOUS
  <2>1. n \in ToSet(act) /\ k \in 1 .. Len(act)
    BY <1>3, <1>4 DEF ToSet
  <2>2. p \in DOMAIN act /\ act[p] = act[k]
    BY <2>1, PlaceFacts
  <2> HIDE DEF p
  <2>3. p = k
    <3>1. p \in 1 .. Len(act) /\ k \in DOMAIN act
      BY <1>3, <2>1, <2>2
    <3>2. ~ (p < k) /\ ~ (k < p)
      BY <1>3, <2>1, <2>2, <3>1 DEF InOrder
    <3> QED BY <1>3, <2>1, <3>1, <3>2
  <2> QED BY <2>1, <2>3
<1> HIDE DEF p
<1> QED BY <1>1, <1>5, <1>6, <1>7 DEF N

LEMMA MergeRight ==
  ASSUME NEW T, NEW ns, NEW act, NEW o, StackRight(T, ns, act, o), InOrder(ns, act),
         NEW kept \in Kept(ns, act),
         NEW ms, ms = Merged(ns, act, kept), NEW bct, bct = Remaining(act, kept)
  PROVE  /\ StackRight(T, ms, bct, o) /\ InOrder(ms, bct) /\ DOMAIN ms = DOMAIN ns
         /\ \A b : Buried(ns, act, b) => Buried(ms, bct, b) /\ ms[b] = ns[b]
         /\ OffsetsGrow(ns) => OffsetsGrow(ms)
         /\ ~ Missed(ns, act, kept) => NoTwins(ms, bct, Len(bct))
         /\ \A l \in 1 .. Len(act) : NoTwins(ns, act, l) =>
              /\ l <= Len(bct) /\ NoTwins(ms, bct, l)
              /\ \A k \in 1 .. l :
                   bct[k] = act[k] /\ ms[bct[k]].S = ns[act[k]].S /\ ms[bct[k]].O = ns[act[k]].O
<1>1. /\ IsList(act) /\ DOMAIN act = 1 .. Len(act) /\ Len(act) \in Nat
      /\ ToSet(act) \subseteq DOMAIN ns
      /\ \A k \in 1 .. Len(act) : act[k] \in Nat /\ act[k] \in DOMAIN ns
      /\ DOMAIN ns = 1 .. Len(ns) /\ Len(ns) \in Nat
  BY OrderFacts DEF StackRight
<1>2. kept \subseteq 1 .. Len(act)
  BY <1>1 DEF Kept
<1>3. /\ IsList(bct)
      /\ ToSet(bct) = { act[j] : j \in kept }
      /\ \A p, q \in DOMAIN bct : p < q =>
           \E a, b \in kept : a < b /\ bct[p] = act[a] /\ bct[q] = act[b]
      /\ \A i \in 1 .. Len(act) : 1 .. i \subseteq kept => i <= Len(bct) /\ bct[i] = act[i]
  <2>1. IsList(act) /\ kept \subseteq 1 .. Len(act) /\ bct = Remaining(act, kept)
    BY <1>1, <1>2
  <2>2. /\ IsList(bct)
        /\ \A x : x \in ToSet(bct) <=> \E j \in kept : x = act[j]
        /\ \A p, q \in DOMAIN bct : p < q =>
             \E a, b \in kept : a < b /\ bct[p] = act[a] /\ bct[q] = act[b]
        /\ \A i \in 1 .. Len(act) : 1 .. i \subseteq kept => i <= Len(bct) /\ bct[i] = act[i]
    BY ONLY <2>1, RemainingOfKept
  <2>3. ToSet(bct) = { act[j] : j \in kept }
    BY <2>2
  <2> QED BY <2>2, <2>3
<1>4. DOMAIN bct = 1 .. Len(bct) /\ Len(bct) \in Nat
  BY <1>3, ListFacts
<1>5. DOMAIN ms = DOMAIN ns /\ IsList(ms)
  <2>1. DOMAIN ms = 1 .. Len(ns) /\ ms = [n \in 1 .. Len(ns) |-> ms[n]]
    BY <1>1 DEF Merged
  <2> QED BY <1>1, <2>1, ListOfFunction
<1>6. ASSUME NEW n \in DOMAIN ns
      PROVE  /\ n \notin ToSet(act) => ms[n] = ns[n]
             /\ n \in ToSet(act) => MergedFrom(ns, act, n, ms[n])
             /\ n \in ToSet(bct) => ms[n].S = ns[n].S
  BY <1>3, MergedNode
<1>7. ToSet(bct) \subseteq ToSet(act)
  BY <1>1, <1>2, <1>3 DEF ToSet
<1>8. ASSUME NEW b, Buried(ns, act, b) PROVE Buried(ms, bct, b) /\ ms[b] = ns[b]
  <2>1. b \in DOMAIN ns /\ b \notin ToSet(act)
    BY <1>1, <1>8 DEF Buried
  <2>2. ms[b] = ns[b]
    BY <1>6, <2>1
  <2> QED BY <1>5, <1>7, <1>8, <2>1, <2>2 DEF Buried
<1>9. ASSUME NEW n \in DOMAIN ns, NEW k \in DOMAIN ms[n].preds
      PROVE  /\ ms[n].S = ns[n].S /\ ms[n].P = ns[n].P /\ ms[n].O = ns[n].O
             /\ IsEdge(ms[n].preds[k])
             /\ EdgeRight(T, ns, act, n, ms[n].preds[k].from)
             /\ OffsetsGrow(ns) => LET m == ms[n].preds[k].from
                                   IN m # 0 => ns[m].O <= ns[n].O
  <2>1. CASE n \notin ToSet(act)
    <3>1. ms[n] = ns[n]
      BY <1>6, <2>1
    <3>2. IsEdge(ns[n].preds[k]) /\ EdgeRight(T, ns, act, n, ns[n].preds[k].from)
      BY <1>9, <3>1 DEF StackRight, NodeRight
    <3> QED BY <1>9, <3>1, <3>2 DEF OffsetsGrow
  <2>2. CASE n \in ToSet(act)
    <3>1. MergedFrom(ns, act, n, ms[n])
      BY <1>6, <2>2
    <3>2. PICK m \in {n} \cup ToSet(act) : \E j \in DOMAIN ns[m].preds :
            SameId(ns[m], ns[n]) /\ ms[n].preds[k] = ns[m].preds[j]
      BY <1>9, <3>1 DEF MergedFrom
    <3>3. PICK j \in DOMAIN ns[m].preds :
            SameId(ns[m], ns[n]) /\ ms[n].preds[k] = ns[m].preds[j]
      BY <3>2
    <3>4. ms[n].S = ns[n].S /\ ms[n].P = ns[n].P /\ ms[n].O = ns[n].O
      <4>1. ms[n].preds # <<>>
        BY <1>9, NoList
      <4> QED BY <3>1, <4>1 DEF MergedFrom
    <3>5. m \in DOMAIN ns /\ m \in ToSet(act)
      BY <1>1, <2>2
    <3>6. IsEdge(ns[m].preds[j]) /\ EdgeRight(T, ns, act, m, ns[m].preds[j].from)
      BY <3>3, <3>5 DEF StackRight, NodeRight
    <3> DEFINE f == ms[n].preds[k].from
    <3>7. EdgeRight(T, ns, act, n, f)
      <4>1. f \in 0 .. m - 1 /\ f = ns[m].preds[j].from
        BY <3>3, <3>6 DEF EdgeRight
      <4>2. f = 0 => f \in 0 .. n - 1 /\ ns[n].S = 1
        BY <1>1, <3>3, <3>6, <4>1 DEF EdgeRight, SameId
      <4>3. f # 0 => f \in 0 .. n - 1 /\ Buried(ns, act, f) /\ Goes(T, ns[f].S, ns[n].P) = ns[n].S
        <5>1. f # 0 => Buried(ns, act, f) /\ Goes(T, ns[f].S, ns[n].P) = ns[n].S
          BY <3>3, <3>6, <4>1 DEF EdgeRight, SameId
        <5>2. f # 0 => f < n /\ f \in Nat /\ n \in Nat
          BY <1>1, <2>2, <5>1 DEF Buried
        <5> HIDE DEF f
        <5> QED BY <5>1, <5>2
      <4> HIDE DEF f
      <4> QED BY <4>2, <4>3 DEF EdgeRight
    <3>8. OffsetsGrow(ns) => (f # 0 => ns[f].O <= ns[n].O)
      <4>1. f = ns[m].preds[j].from /\ ns[m].O = ns[n].O
        BY <3>3 DEF SameId
      <4> QED BY <3>3, <3>5, <4>1 DEF OffsetsGrow
    <3> QED BY <3>3, <3>4, <3>6, <3>7, <3>8
  <2> QED BY <2>1, <2>2
<1>10. StackRight(T, ms, bct, o)
  <2> SUFFICES ASSUME NEW n \in DOMAIN ns PROVE NodeRight(T, ms, bct, o, n)
    BY <1>5 DEF StackRight
  <2>1. NodeRight(T, ns, act, o, n)
    BY DEF StackRight
  <2>2. /\ IsNode(ms[n]) /\ ms[n].S \in DOMAIN T.states \cup {0} /\ ms[n].O \in 0 .. o
        /\ IsList(ms[n].preds)
    <3>1. CASE n \notin ToSet(act)
      BY <1>6, <2>1, <3>1 DEF NodeRight
    <3>2. CASE n \in ToSet(act)
      <4>1. MergedFrom(ns, act, n, ms[n])
        BY <1>6, <3>2
      <4> QED BY <2>1, <4>1 DEF NodeRight, MergedFrom
    <3> QED BY <3>1, <3>2
  <2>3. ASSUME NEW k \in DOMAIN ms[n].preds
        PROVE  IsEdge(ms[n].preds[k]) /\ EdgeRight(T, ms, bct, n, ms[n].preds[k].from)
    <3> DEFINE f == ms[n].preds[k].from
    <3>1. ms[n].S = ns[n].S /\ ms[n].P = ns[n].P /\ IsEdge(ms[n].preds[k])
          /\ EdgeRight(T, ns, act, n, f)
      BY <1>9, <2>3
    <3> HIDE DEF f
    <3>2. EdgeRight(T, ms, bct, n, f)
      BY <1>8, <3>1 DEF EdgeRight
    <3> QED BY <3>1, <3>2 DEF f
  <2> QED BY <2>2, <2>3 DEF NodeRight
<1>11. InOrder(ms, bct)
  <2>1. bct \in Seq(DOMAIN ms)
    BY <1>1, <1>3, <1>5, <1>7, ListOfSeq
  <2>2. ASSUME NEW p \in DOMAIN bct, NEW q \in DOMAIN bct, p < q PROVE bct[p] < bct[q]
    <3>1. PICK a \in kept, b \in kept : a < b /\ bct[p] = act[a] /\ bct[q] = act[b]
      BY <1>3, <2>2
    <3> QED BY <1>1, <1>2, <3>1 DEF InOrder
  <2> QED BY <2>1, <2>2 DEF InOrder
<1>12. ASSUME OffsetsGrow(ns) PROVE OffsetsGrow(ms)
  <2> SUFFICES ASSUME NEW n \in DOMAIN ns, NEW k \in DOMAIN ms[n].preds,
                      ms[n].preds[k].from # 0
               PROVE  ms[ms[n].preds[k].from].O <= ms[n].O
    BY <1>5 DEF OffsetsGrow
  <2> DEFINE f == ms[n].preds[k].from
  <2>1. ns[f].O <= ns[n].O /\ ms[n].O = ns[n].O /\ Buried(ns, act, f)
    BY <1>9, <1>12 DEF EdgeRight
  <2>2. ms[f] = ns[f]
    BY <1>8, <2>1
  <2> QED BY <2>1, <2>2
<1>13. ASSUME NEW n \in ToSet(bct) PROVE ms[n].S = ns[n].S /\ ms[n].O = ns[n].O /\ ms[n].P = ns[n].P
  BY <1>1, <1>6, <1>7, <1>13 DEF MergedFrom
<1>14. ASSUME ~ Missed(ns, act, kept) PROVE NoTwins(ms, bct, Len(bct))
  <2> SUFFICES ASSUME NEW p \in 1 .. Len(bct), NEW q \in 1 .. Len(bct), p < q
               PROVE  ~ SameId(ms[bct[p]], ms[bct[q]])
    BY DEF NoTwins
  <2>1. PICK a \in kept, b \in kept : a < b /\ bct[p] = act[a] /\ bct[q] = act[b]
    BY <1>3, <1>4
  <2>2. a \notin Twins(ns, act, kept, b)
    BY <1>14 DEF Missed
  <2>3. ~ SameId(ns[act[a]], ns[act[b]])
    BY <2>1, <2>2 DEF Twins
  <2>4. act[a] \in ToSet(bct) /\ act[b] \in ToSet(bct)
    BY <1>3
  <2> QED BY <1>13, <2>1, <2>3, <2>4 DEF SameId
<1>15. ASSUME NEW l \in 1 .. Len(act), NoTwins(ns, act, l)
       PROVE  /\ l <= Len(bct) /\ NoTwins(ms, bct, l)
              /\ \A k \in 1 .. l :
                   bct[k] = act[k] /\ ms[bct[k]].S = ns[act[k]].S /\ ms[bct[k]].O = ns[act[k]].O
  <2>1. ASSUME NEW k \in 1 .. l PROVE k \in kept
    <3>1. SUFFICES ASSUME k \notin kept PROVE FALSE
      OBVIOUS
    <3>2. k \in DOMAIN act
      BY <1>1
    <3>3. PICK j \in Twins(ns, act, kept, k) : TRUE
      BY <3>1, <3>2 DEF Kept
    <3>4. j \in 1 .. l /\ j < k /\ SameId(ns[act[j]], ns[act[k]])
      BY <1>1, <1>2, <3>3 DEF Twins
    <3> QED BY <1>15, <3>4 DEF NoTwins
  <2>2. ASSUME NEW k \in 1 .. l PROVE k <= Len(bct) /\ bct[k] = act[k]
    <3>1. k \in 1 .. Len(act) /\ 1 .. k \subseteq kept
      BY <1>1, <2>1
    <3> QED BY <1>3, <3>1
  <2>3. ASSUME NEW k \in 1 .. l
        PROVE  /\ bct[k] = act[k]
               /\ ms[bct[k]].S = ns[act[k]].S /\ ms[bct[k]].O = ns[act[k]].O /\ ms[bct[k]].P = ns[act[k]].P
    <3>1. k \in DOMAIN bct
      BY <1>4, <2>2
    <3>2. bct[k] \in ToSet(bct)
      BY <3>1 DEF ToSet
    <3> QED BY <1>13, <2>2, <3>2
  <2>4. NoTwins(ms, bct, l)
    BY <1>15, <2>3 DEF NoTwins, SameId
  <2>5. l \in 1 .. l
    OBVIOUS
  <2> QED BY <2>2, <2>3, <2>4, <2>5
<1> QED BY <1>5, <1>8, <1>10, <1>11, <1>12, <1>14, <1>15

\* Freeing a list changes nothing but whether it may be read.
LEMMA FreedRight ==
  ASSUME NEW T, NEW ns, NEW act, NEW o, StackRight(T, ns, act, o), NEW c,
         NEW ms, ms = Freed(ns, c)
  PROVE  /\ StackRight(T, ms, act, o) /\ DOMAIN ms = DOMAIN ns
         /\ \A n \in DOMAIN ns :
              ms[n].S = ns[n].S /\ ms[n].O = ns[n].O /\ ms[n].P = ns[n].P
         /\ OffsetsGrow(ns) => OffsetsGrow(ms)
<1>1. DOMAIN ns = 1 .. Len(ns) /\ Len(ns) \in Nat
  BY ListFacts DEF StackRight
<1>2. DOMAIN ms = DOMAIN ns /\ IsList(ms)
  <2>1. DOMAIN ms = 1 .. Len(ns) /\ ms = [n \in 1 .. Len(ns) |-> ms[n]]
    BY <1>1 DEF Freed
  <2> QED BY <1>1, <2>1, ListOfFunction
<1>3. ASSUME NEW n \in DOMAIN ns
      PROVE  /\ IsNode(ms[n]) /\ ms[n].S = ns[n].S /\ ms[n].O = ns[n].O /\ ms[n].P = ns[n].P
             /\ IsList(ms[n].preds) /\ DOMAIN ms[n].preds = DOMAIN ns[n].preds
             /\ \A k \in DOMAIN ns[n].preds :
                  IsEdge(ms[n].preds[k]) /\ ms[n].preds[k].from = ns[n].preds[k].from
  <2> DEFINE old == ns[n].preds
             ps == [ k \in DOMAIN old |-> Outlives(ns, old[k], c) ]
  <2>1. NodeRight(T, ns, act, o, n)
    BY DEF StackRight
  <2>2. ms[n] = [ns[n] EXCEPT !.preds = ps]
    BY DEF Freed
  <2> HIDE DEF ps
  <2>3. IsNode(ms[n]) /\ ms[n].S = ns[n].S /\ ms[n].O = ns[n].O /\ ms[n].P = ns[n].P
        /\ ms[n].preds = ps
    BY <2>1, <2>2 DEF NodeRight, IsNode
  <2>4. DOMAIN old = 1 .. Len(old) /\ Len(old) \in Nat
    BY <2>1, ListFacts DEF NodeRight
  <2>5. DOMAIN ps = DOMAIN old /\ ps = [k \in 1 .. Len(old) |-> ps[k]]
    BY <2>4 DEF ps
  <2>6. IsList(ps)
    <3> HIDE DEF old
    <3> QED BY <2>4, <2>5, ListOfFunction
  <2>7. ASSUME NEW k \in DOMAIN old PROVE IsEdge(ps[k]) /\ ps[k].from = old[k].from
    <3>1. IsEdge(old[k])
      BY <2>1 DEF NodeRight
    <3>2. ps[k] = Outlives(ns, old[k], c)
      BY DEF ps
    <3> HIDE DEF old
    <3> QED BY <3>1, <3>2 DEF IsEdge, Outlives
  <2> QED BY <2>3, <2>5, <2>6, <2>7
<1>4. \A b : Buried(ns, act, b) => Buried(ms, act, b)
  BY <1>2, <1>3 DEF Buried
<1>5. StackRight(T, ms, act, o)
  <2> SUFFICES ASSUME NEW n \in DOMAIN ns PROVE NodeRight(T, ms, act, o, n)
    BY <1>2 DEF StackRight
  <2>1. NodeRight(T, ns, act, o, n)
    BY DEF StackRight
  <2>2. ASSUME NEW k \in DOMAIN ns[n].preds PROVE EdgeRight(T, ms, act, n, ms[n].preds[k].from)
    <3>1. EdgeRight(T, ns, act, n, ns[n].preds[k].from)
      BY <2>1 DEF NodeRight
    <3>2. \A m : Buried(ns, act, m) => ms[m].S = ns[m].S
      BY <1>3 DEF Buried
    <3> QED BY <1>3, <1>4, <3>1, <3>2 DEF EdgeRight
  <2> QED BY <1>3, <2>1, <2>2 DEF NodeRight
<1>6. ASSUME OffsetsGrow(ns) PROVE OffsetsGrow(ms)
  <2> SUFFICES ASSUME NEW n \in DOMAIN ns, NEW k \in DOMAIN ms[n].preds,
                      ms[n].preds[k].from # 0
               PROVE  ms[ms[n].preds[k].from].O <= ms[n].O
    BY <1>2 DEF OffsetsGrow
  <2> DEFINE f == ns[n].preds[k].from
  <2>1. k \in DOMAIN ns[n].preds /\ ms[n].preds[k].from = f
    BY <1>3
  <2>2. ns[f].O <= ns[n].O
    BY <1>6, <2>1 DEF OffsetsGrow
  <2>3. f \in DOMAIN ns
    BY <2>1 DEF StackRight, NodeRight, EdgeRight, Buried
  <2> QED BY <1>3, <2>1, <2>2, <2>3
<1> QED BY <1>2, <1>3, <1>5, <1>6

-----------------------------------------------------------------------------
(***************************************************************************)
(* The ways back: over k symbols of a rule that was read, they end where   *)
(* the rule was read up to k symbols before.  No way leaves the stack,     *)
(* since nothing was read yet in the start state.                          *)
(***************************************************************************)
At(i, d) == [i EXCEPT !.dot = d]

BackOver(T, ns, act, i, k, ways) ==
  /\ IsList(ways)
  /\ \A q \in DOMAIN ways :
       Buried(ns, act, ways[q].tail)
       /\ At(i, Len(i.rhs) - k) \in T.states[ns[ways[q].tail].S]

LEMMA LongerRight ==
  ASSUME NEW T, RunsBack(T), NEW ns, NEW act, NEW o, StackRight(T, ns, act, o),
         NEW g, NEW i, IsItem(g, i), Len(i.rhs) \in Nat,
         NEW k \in Nat, k < Len(i.rhs), NEW ways, BackOver(T, ns, act, i, k, ways)
  PROVE  BackOver(T, ns, act, i, k + 1, Longer(ns, ways))
<1> DEFINE L == Len(i.rhs)
           ss == [ q \in DOMAIN ways |-> Extended(ns, ways[q]) ]
<1>1. DOMAIN ways = 1 .. Len(ways) /\ Len(ways) \in Nat
  BY ListFacts DEF BackOver
<1>2. IsList(ss) /\ DOMAIN ss = DOMAIN ways
  <2>1. DOMAIN ss = 1 .. Len(ways) /\ ss = [q \in 1 .. Len(ways) |-> ss[q]]
    BY <1>1
  <2> HIDE DEF ss
  <2> QED BY <1>1, <2>1, ListOfFunction
<1>3. ASSUME NEW q \in DOMAIN ways
      PROVE  /\ IsList(ss[q])
             /\ \A j \in DOMAIN ss[q] :
                  Buried(ns, act, ss[q][j].tail)
                  /\ At(i, L - (k + 1)) \in T.states[ns[ss[q][j].tail].S]
  <2> DEFINE t == ways[q].tail
             es == ns[t].preds
  <2>1. ss[q] = [ j \in DOMAIN es |->
                    LET e == es[j]
                    IN [tail |-> e.from, accum |-> e.ast \o ways[q].accum, live |-> e.live /\ ways[q].live] ]
    BY DEF Extended
  <2>2. Buried(ns, act, t) /\ At(i, L - k) \in T.states[ns[t].S]
    BY DEF BackOver
  <2> HIDE DEF t
  <2>3. t \in DOMAIN ns /\ ns[t].S # 0 /\ NodeRight(T, ns, act, o, t)
    BY <2>2 DEF Buried, StackRight
  <2>4. DOMAIN es = 1 .. Len(es) /\ Len(es) \in Nat
    BY <2>3, ListFacts DEF NodeRight
  <2>5. IsList(ss[q])
    <3>1. DOMAIN ss[q] = 1 .. Len(es) /\ ss[q] = [j \in 1 .. Len(es) |-> ss[q][j]]
      BY <2>1, <2>4
    <3> HIDE DEF ss, es
    <3> QED BY <2>4, <3>1, ListOfFunction
  <2>6. ASSUME NEW j \in DOMAIN ss[q]
        PROVE  Buried(ns, act, ss[q][j].tail)
               /\ At(i, L - (k + 1)) \in T.states[ns[ss[q][j].tail].S]
    <3> DEFINE f == es[j].from
    <3>1. j \in DOMAIN es /\ ss[q][j].tail = f
      <4> HIDE DEF ss, es
      <4>1. j \in DOMAIN es
        BY <2>1, <2>6
      <4>2. ss[q][j] = [tail |-> es[j].from, accum |-> es[j].ast \o ways[q].accum,
                        live |-> es[j].live /\ ways[q].live]
        BY <2>1, <4>1, Zenon
      <4>3. ss[q][j].tail = es[j].from
        BY ONLY <4>2, SMT
      <4> QED BY <4>1, <4>3
    <3>2. EdgeRight(T, ns, act, t, f)
      BY <2>3, <3>1 DEF NodeRight
    <3> HIDE DEF f, es, ss
    <3>3. PICK l, r : i = [lhs |-> l, rhs |-> r, dot |-> i.dot] /\ L = Len(r)
      BY DEF IsItem
    <3>4. At(i, L - k) = [lhs |-> l, rhs |-> r, dot |-> L - k]
          /\ At(i, L - (k + 1)) = [lhs |-> l, rhs |-> r, dot |-> L - (k + 1)]
      BY <3>3 DEF At
    <3>5. L - k # 0 /\ (L - k) - 1 = L - (k + 1)
      OBVIOUS
    <3> HIDE DEF L
    <3>6. Retreat(At(i, L - k)) = At(i, L - (k + 1)) /\ At(i, L - k).dot # 0
      BY <3>4, <3>5 DEF Retreat
    <3>7. f # 0
      BY <2>2, <3>2, <3>6 DEF EdgeRight, RunsBack
    <3>8. Buried(ns, act, f) /\ Goes(T, ns[f].S, ns[t].P) = ns[t].S
      BY <3>2, <3>7 DEF EdgeRight
    <3>9. ns[f].S \in DOMAIN T.states
      BY <3>8 DEF StackRight, NodeRight, Buried
    <3>10. ns[t].P \in DOMAIN T.trans[ns[f].S] /\ T.trans[ns[f].S][ns[t].P] = ns[t].S
      BY <2>3, <3>8 DEF Goes
    <3>11. At(i, L - (k + 1)) \in T.states[ns[f].S]
      BY <2>2, <3>6, <3>9, <3>10 DEF RunsBack
    <3> QED BY <3>1, <3>8, <3>11
  <2> QED BY <2>5, <2>6
<1>4. Longer(ns, ways) = FlattenSeq(ss)
  BY DEF Longer
<1> HIDE DEF ss, L
<1>5. /\ IsList(FlattenSeq(ss))
      /\ \A p \in DOMAIN FlattenSeq(ss) : \E q \in DOMAIN ss : \E j \in DOMAIN ss[q] :
            FlattenSeq(ss)[p] = ss[q][j]
  BY <1>2, <1>3, FlattenLists
<1>6. BackOver(T, ns, act, i, k + 1, FlattenSeq(ss))
  BY <1>2, <1>3, <1>5 DEF BackOver, L
<1> QED BY <1>4, <1>6

\* The ways back over 0, 1, ... symbols, as rec_path finds them.
WalksBack(ns, n, m, walk) ==
  /\ walk[0] = << [tail |-> n, accum |-> <<>>, live |-> TRUE] >>
  /\ \A k \in 1 .. m : walk[k] = Longer(ns, walk[k - 1])

LEMMA WalkExists ==
  ASSUME NEW ns, NEW n, NEW L \in Nat
  PROVE  \E walk : WalksBack(ns, n, L, walk) /\ Paths(ns, n, L) = walk[L]
<1> DEFINE here == << [tail |-> n, accum |-> <<>>, live |-> TRUE] >>
           Walks(f, m) == f = [k \in 0 .. m |-> IF k = 0 THEN here ELSE Longer(ns, f[k - 1])]
           walk == CHOOSE f : Walks(f, L)
           D == { m \in Nat : \E f : Walks(f, m) }
<1> HIDE DEF here
<1>1. ASSUME NEW m \in Nat, \A l \in Nat : l < m => l \in D PROVE m \in D
  <2>1. CASE m = 0
    <3> DEFINE f == [k \in 0 .. m |-> here]
    <3>1. Walks(f, m)
      BY <2>1
    <3> QED BY <3>1
  <2>2. CASE m # 0
    <3>1. m - 1 \in Nat /\ m - 1 < m
      BY <2>2
    <3>2. PICK f : Walks(f, m - 1)
      BY <1>1, <3>1
    <3> DEFINE h == [k \in 0 .. m |-> IF k = 0 THEN here ELSE Longer(ns, f[k - 1])]
    <3>3. ASSUME NEW k \in 0 .. m, k # 0 PROVE f[k - 1] = h[k - 1]
      <4>1. k - 1 \in 0 .. m - 1 /\ k - 1 \in 0 .. m
        BY <3>1, <3>3
      <4>2. f[k - 1] = IF k - 1 = 0 THEN here ELSE Longer(ns, f[(k - 1) - 1])
        BY <3>2, <4>1
      <4> QED BY <4>1, <4>2
    <3>4. Walks(h, m)
      <4>1. \A k \in 0 .. m : h[k] = IF k = 0 THEN here ELSE Longer(ns, h[k - 1])
        BY <3>3
      <4>2. h = [k \in 0 .. m |-> h[k]]
        OBVIOUS
      <4> HIDE DEF h
      <4> QED BY <4>1, <4>2
    <3> QED BY <3>4
  <2> QED BY <2>1, <2>2
<1>2. Nat \subseteq D
  <2> HIDE DEF D
  <2> QED BY <1>1, SetInduction
<1>3. L \in D
  BY <1>2
<1>4. Walks(walk, L) /\ Paths(ns, n, L) = walk[L]
  <2>1. \E f : Walks(f, L)
    BY <1>3
  <2>2. Walks(walk, L)
    <3> HIDE DEF Walks
    <3> QED BY <2>1
  <2> QED BY <2>2 DEF Paths, here
<1> HIDE DEF walk
<1>5. WalksBack(ns, n, L, walk)
  <2>1. \A k \in 0 .. L : walk[k] = IF k = 0 THEN here ELSE Longer(ns, walk[k - 1])
    BY <1>4
  <2>2. walk[0] = here /\ \A k \in 1 .. L : walk[k] = Longer(ns, walk[k - 1])
    BY <2>1
  <2> QED BY <2>2 DEF WalksBack, here
<1> QED BY <1>4, <1>5

LEMMA WaysBackOver ==
  ASSUME NEW T, RunsBack(T), NEW ns, NEW act, NEW o, StackRight(T, ns, act, o),
         NEW g, NEW i, IsItem(g, i), Len(i.rhs) \in Nat, i.dot = Len(i.rhs),
         NEW n, Buried(ns, act, n), i \in T.states[ns[n].S],
         NEW walk, WalksBack(ns, n, Len(i.rhs), walk)
  PROVE  \A k \in 0 .. Len(i.rhs) : BackOver(T, ns, act, i, k, walk[k])
<1> DEFINE L == Len(i.rhs)
           K == { k \in Nat : k <= L => BackOver(T, ns, act, i, k, walk[k]) }
<1>1. ASSUME NEW k \in Nat, \A l \in Nat : l < k => l \in K PROVE k \in K
  <2> SUFFICES ASSUME k <= L PROVE BackOver(T, ns, act, i, k, walk[k])
    OBVIOUS
  <2>1. CASE k = 0
    <3> DEFINE w == [tail |-> n, accum |-> <<>>, live |-> TRUE]
    <3>1. PICK v : v = walk[0]
      OBVIOUS
    <3>2. w.tail = n /\ v = << w >>
      BY <3>1 DEF WalksBack
    <3> HIDE DEF w
    <3>3. IsList(v) /\ DOMAIN v = {1} /\ v[1] = w
      <4>1. IsList(<< w >>) /\ << w >>[1] = w /\ DOMAIN << w >> = {1}
        BY OneList
      <4> QED BY <3>2, <4>1
    <3>4. At(i, L - k) = i
      <4>1. PICK l, r, d : i = [lhs |-> l, rhs |-> r, dot |-> d]
        BY DEF IsItem
      <4>2. L - k = d
        BY <2>1, <4>1
      <4> QED BY <4>1, <4>2 DEF At
    <3>5. BackOver(T, ns, act, i, k, v)
      BY <3>2, <3>3, <3>4 DEF BackOver
    <3> QED BY <2>1, <3>1, <3>5
  <2>2. CASE k # 0
    <3>1. PICK j \in Nat : j = k - 1 /\ j + 1 = k /\ j < k /\ j < L
      BY <2>2
    <3>2. BackOver(T, ns, act, i, j, walk[j])
      BY <1>1, <3>1
    <3>3. BackOver(T, ns, act, i, j + 1, Longer(ns, walk[j]))
      BY <3>1, <3>2, LongerRight
    <3>4. walk[k] = Longer(ns, walk[j])
      BY <2>2, <3>1 DEF WalksBack
    <3> QED BY <3>1, <3>3, <3>4
  <2> QED BY <2>1, <2>2
<1>2. Nat \subseteq K
  <2> HIDE DEF K
  <2> QED BY <1>1, SetInduction
<1> QED BY <1>2

LEMMA WaysBack ==
  ASSUME NEW T, RunsBack(T), NEW ns, NEW act, NEW o, StackRight(T, ns, act, o),
         NEW g, NEW i, IsItem(g, i), Len(i.rhs) \in Nat, i.dot = Len(i.rhs),
         NEW n, Buried(ns, act, n), i \in T.states[ns[n].S]
  PROVE  BackOver(T, ns, act, i, Len(i.rhs), Paths(ns, n, Len(i.rhs)))
<1>1. PICK walk : WalksBack(ns, n, Len(i.rhs), walk) /\ Paths(ns, n, Len(i.rhs)) = walk[Len(i.rhs)]
  BY WalkExists
<1>2. \A k \in 0 .. Len(i.rhs) : BackOver(T, ns, act, i, k, walk[k])
  BY <1>1, WaysBackOver
<1>3. Len(i.rhs) \in 0 .. Len(i.rhs)
  OBVIOUS
<1> QED BY <1>1, <1>2, <1>3

-----------------------------------------------------------------------------
(***************************************************************************)
(* The tokenizer stays in the text, and returns tokens it was asked for.   *)
(***************************************************************************)
LEMMA Greatest ==
  ASSUME NEW n \in Nat, NEW E \in SUBSET (0 .. n), E # {}
  PROVE  \E x \in E : \A y \in E : x >= y
<1> DEFINE D == { n - x : x \in E }
<1>1. D \in SUBSET Nat /\ D # {}
  <2>1. \A x \in E : n - x \in Nat
    OBVIOUS
  <2>2. PICK x \in E : n - x \in D
    OBVIOUS
  <2> QED BY <2>1, <2>2
<1>2. PICK d \in D : \A c \in D : d <= c
  <2> HIDE DEF D
  <2> QED BY <1>1, Least
<1>3. PICK x \in E : d = n - x
  OBVIOUS
<1>4. ASSUME NEW y \in E PROVE x >= y
  <2>1. n - y \in D
    OBVIOUS
  <2>2. n - x <= n - y
    BY <1>2, <1>3, <2>1
  <2> QED BY <2>2
<1> QED BY <1>4

LEMMA SkipFacts ==
  ASSUME NEW g, NEW text, Len(text) \in Nat, NEW o \in 0 .. Len(text)
  PROVE  Skip(g, text, o) \in o .. Len(text)
<1> DEFINE E == { k \in o .. Len(text) : k = Len(text) \/ text[k + 1] \notin g.ws }
<1>1. E \in SUBSET Nat /\ E # {}
  <2>1. Len(text) \in E
    OBVIOUS
  <2> QED BY <2>1
<1>2. PICK x \in E : \A y \in E : x <= y
  <2> HIDE DEF E
  <2> QED BY <1>1, Least
<1>3. Min(E) \in E
  <2> HIDE DEF E
  <2> QED BY <1>2 DEF Min
<1>4. Skip(g, text, o) = Min(E)
  BY DEF Skip
<1> QED BY <1>3, <1>4

LEMMA RecognizedIsFound ==
  ASSUME NEW g, NEW text, Len(text) \in Nat, NEW o \in 0 .. Len(text),
         NEW x, \A w \in g.words[x] : Len(w) \in Nat, Found(g, text, o, x) # {}
  PROVE  Recognized(g, text, o, x) \in Found(g, text, o, x)
<1> DEFINE F == Found(g, text, o, x)
           E == { Len(w) : w \in F }
           n == Len(text)
<1>1. \A w \in F : Len(w) \in 0 .. n
  BY DEF Found, IsAt
<1>2. E \in SUBSET (0 .. n) /\ E # {}
  BY <1>1
<1>3. PICK l \in E : \A k \in E : l >= k
  <2>1. n \in Nat
    OBVIOUS
  <2> HIDE DEF E, n
  <2> QED BY <1>2, <2>1, Greatest
<1>4. PICK w \in F : l = Len(w)
  OBVIOUS
<1>5. \A v \in F : Len(v) <= Len(w)
  <2> SUFFICES ASSUME NEW v \in F PROVE Len(v) <= Len(w)
    OBVIOUS
  <2>1. Len(v) \in E
    OBVIOUS
  <2>2. l >= Len(v) /\ l \in Nat /\ Len(v) \in Nat
    BY <1>1, <1>3, <1>4, <2>1
  <2> QED BY <1>4, <2>2
<1>6. \E v \in F : \A u \in F : Len(u) <= Len(v)
  BY <1>5
<1> QED BY <1>6, Zenon DEF Recognized

LEMMA ConsumedFacts ==
  ASSUME NEW g, HasWords(g), NEW text, Len(text) \in Nat, NEW o \in 0 .. Len(text),
         NEW X \in SUBSET DOMAIN g.tokens
  PROVE  Consumed(g, text, o, X) \in o .. Len(text) /\ Results(g, text, o, X) \subseteq X
<1> DEFINE ends == { o + Len(Recognized(g, text, o, x)) :
                       x \in {y \in X : Found(g, text, o, y) # {}} }
           E == ends \cup {o}
           n == Len(text)
<1>1. ASSUME NEW x \in X, Found(g, text, o, x) # {}
      PROVE  o + Len(Recognized(g, text, o, x)) \in o .. Len(text)
  <2>1. \A w \in g.words[x] : Len(w) \in Nat
    <3> SUFFICES ASSUME NEW w \in g.words[x] PROVE Len(w) \in Nat
      OBVIOUS
    <3>1. IsList(w)
      BY DEF HasWords, IsList
    <3> QED BY <3>1, ListFacts
  <2>2. Recognized(g, text, o, x) \in Found(g, text, o, x)
    BY <1>1, <2>1, RecognizedIsFound
  <2>3. PICK w \in g.words[x] : w = Recognized(g, text, o, x) /\ o + Len(w) <= Len(text)
    BY <2>2 DEF Found, IsAt
  <2>4. o + Len(w) \in o .. Len(text)
    BY <2>1, <2>3
  <2> QED BY <2>3, <2>4
<1>2. ends \subseteq o .. n
  BY <1>1
<1> HIDE DEF ends
<1>3. E \subseteq o .. n /\ E \in SUBSET (0 .. n) /\ E # {}
  BY <1>2
<1>4. PICK x \in E : \A y \in E : x >= y
  <2>1. n \in Nat
    OBVIOUS
  <2> HIDE DEF E, n
  <2> QED BY <1>3, <2>1, Greatest
<1>5. Max(E) \in E
  <2> HIDE DEF E
  <2> QED BY <1>4 DEF Max
<1>6. Consumed(g, text, o, X) = Max(E)
  BY DEF Consumed, ends
<1>7. Results(g, text, o, X) \subseteq X
  BY DEF Results
<1> QED BY <1>3, <1>5, <1>6, <1>7

\* The ways to put a finite set in order are lists.
LEMMA InAnyOrder ==
  ASSUME NEW S, IsFiniteSet(S), NEW s \in SetToSeqs(S)
  PROVE  IsList(s) /\ ToSet(s) \subseteq S
<1> DEFINE n == Cardinality(S)
<1>1. n \in Nat
  BY FS_CardinalityType
<1> HIDE DEF n
<1>2. s \in [1 .. n -> S]
  BY DEF SetToSeqs, n
<1>3. DOMAIN s = 1 .. n /\ s = [k \in 1 .. n |-> s[k]]
  BY <1>2
<1>4. ToSet(s) \subseteq S
  BY <1>2, <1>3 DEF ToSet
<1> QED BY <1>1, <1>3, <1>4, ListOfFunction

LEMMA OneMoreInBag ==
  ASSUME NEW B, IsABag(B), NEW c
  PROVE  IsABag(B (+) SetToBag({c})) /\ \A D \in SUBSET DOMAIN B : IsABag([d \in D |-> B[d]])
<1> DEFINE P == { n \in Nat : n > 0 }
<1>1. \A d \in DOMAIN B : B[d] \in P
  BY DEF IsABag
<1>2. \A D \in SUBSET DOMAIN B : IsABag([d \in D |-> B[d]])
  BY <1>1 DEF IsABag
<1> DEFINE one == SetToBag({c})
<1>3. DOMAIN one = {c} /\ one[c] = 1
  BY DEF SetToBag
<1> HIDE DEF one
<1>4. \A d \in DOMAIN B \cup {c} :
        (IF d \in DOMAIN B THEN B[d] ELSE 0) + (IF d \in {c} THEN one[d] ELSE 0) \in P
  BY <1>1, <1>3
<1>5. B (+) one = [d \in DOMAIN B \cup {c} |->
                     (IF d \in DOMAIN B THEN B[d] ELSE 0) + (IF d \in {c} THEN one[d] ELSE 0)]
  BY <1>3 DEF (+)
<1>6. IsABag(B (+) one)
  BY <1>4, <1>5 DEF IsABag
<1> QED BY <1>2, <1>6 DEF one

-----------------------------------------------------------------------------
(***************************************************************************)
(* The call that goes on, and what the invariant says of it.               *)
(***************************************************************************)
LEMMA ThisCall ==
  ASSUME job \in Jobs
  PROVE  /\ job.full \in BOOLEAN /\ Size \in Nat
         /\ IsGrammar(G) /\ HasWords(G) /\ IsFiniteSet(DOMAIN G.tokens)
         /\ RunsBack(A) /\ MovesOverSymbols(G, A)
         /\ \A a \in DOMAIN A.states : A.states[a] \subseteq AllItems(G)
<1>1. job.g \in DOMAIN Grammars /\ job.full \in BOOLEAN /\ IsList(job.text)
  BY JobsAssumption DEF IsList
<1>2. IsGrammar(G) /\ HasWords(G) /\ IsFiniteSet(AllItems(G)) /\ IsFiniteSet(DOMAIN G.tokens)
  BY <1>1, GrammarsAssumption DEF G
<1>3. Size \in Nat
  BY <1>1, ListFacts DEF Size
<1>4. A = Tables(G)
  BY <1>1 DEF A, G, Automata
<1>5. RunsBack(Tables(G)) /\ MovesOverSymbols(G, Tables(G))
      /\ \A a \in DOMAIN Tables(G).states : Tables(G).states[a] \subseteq AllItems(G)
  BY <1>2, TablesRunBack
<1> QED BY <1>1, <1>2, <1>3, <1>4, <1>5

LEMMA SameCall ==
  ASSUME job' = job
  PROVE  A' = A /\ G' = G /\ Size' = Size
BY DEF A, G, Size

LEMMA GotoFacts ==
  ASSUME job \in Jobs, NEW s \in DOMAIN A.states, NEW x
  PROVE  GotoOn(s, x) \in DOMAIN A.states \cup {0} /\ Goes(A, s, x) = GotoOn(s, x)
<1>1. RunsBack(A)
  BY ThisCall
<1> QED BY <1>1 DEF RunsBack, GotoOn, Goes

LEMMA OverStateNode ==
  ASSUME job \in Jobs, NEW m, nodes[m].S \in DOMAIN A.states, NEW O \in 0 .. offset, NEW x, NEW ast
  PROVE  /\ RightOver(A, nodes, offset, m, NewNode(GotoOn(nodes[m].S, x), O, x, m, ast))
         /\ NewNode(GotoOn(nodes[m].S, x), O, x, m, ast).O = O
<1> DEFINE S == GotoOn(nodes[m].S, x)
<1>1. S \in DOMAIN A.states \cup {0} /\ Goes(A, nodes[m].S, x) = S
  BY GotoFacts
<1> HIDE DEF S
<1>2. RightOver(A, nodes, offset, m, NewNode(S, O, x, m, ast)) /\ NewNode(S, O, x, m, ast).O = O
  BY <1>1, NewNodeRight
<1> QED BY <1>2 DEF S

LEMMA ReductionsAreItems ==
  ASSUME job \in Jobs, NEW s \in DOMAIN A.states, NEW i \in Reductions(s)
  PROVE  IsItem(G, i) /\ AtEnd(i) /\ Len(i.rhs) \in Nat /\ i.dot = Len(i.rhs) /\ i \in A.states[s]
<1>1. i \in AllItems(G) /\ IsGrammar(G) /\ AtEnd(i) /\ i \in A.states[s]
  BY ThisCall DEF Reductions
<1>2. /\ i = [lhs |-> i.lhs, rhs |-> i.rhs, dot |-> i.dot]
      /\ i.lhs \in Tags(G) /\ i.rhs \in G.rules[i.lhs]
      /\ i.rhs \in Seq(Symbols(G))
      /\ i.dot \in 0 .. Len(i.rhs)
  BY <1>1, ItemShape
<1>3. Len(i.rhs) \in Nat
  BY <1>2, LenProperties
<1> QED BY <1>1, <1>2, <1>3 DEF IsItem, AtEnd

LEMMA CallLands ==
  ASSUME job \in Jobs, RulesLand(G), NEW s \in DOMAIN A.states, NEW i \in A.states[s],
         AtStart(i), i.lhs # G.start
  PROVE  GotoOn(s, i.lhs) # 0
<1>1. job.g \in DOMAIN Grammars
  BY JobsAssumption
<1>2. IsGrammar(G) /\ IsFiniteSet(AllItems(G)) /\ A = Tables(G)
  BY <1>1, GrammarsAssumption DEF G, A, Automata
<1>3. i.lhs \in DOMAIN A.trans[s]
  BY <1>2, TablesLand DEF RulesLand
<1>4. RunsBack(A)
  BY ThisCall
<1>5. A.trans[s][i.lhs] \in Nat \ {0}
  BY <1>3, <1>4 DEF RunsBack
<1> QED BY <1>3, <1>5 DEF GotoOn

LEMMA Typed ==
  ASSUME IInv
  PROVE  TypeOK
<1>1. Size \in Nat /\ offset \in 0 .. Size
  BY ThisCall DEF IInv, Shapes
<1>2. ASSUME NEW n \in NodeIds
      PROVE  /\ nodes[n].S \in DOMAIN A.states \cup {0}
             /\ nodes[n].O \in 0 .. Size
             /\ \A k \in DOMAIN nodes[n].preds : nodes[n].preds[k].from \in 0 .. n - 1
  <2>1. NodeRight(A, nodes, active, offset, n)
    BY <1>2 DEF IInv, StackRight, NodeIds
  <2> QED BY <1>1, <2>1 DEF NodeRight, EdgeRight
<1>3. active \in Seq(NodeIds) /\ IsInjective(active)
  <2>1. DOMAIN active = 1 .. Len(active) /\ Len(active) \in Nat
        /\ \A k \in 1 .. Len(active) : active[k] \in Nat
    BY OrderFacts DEF IInv, StackRight
  <2>2. InOrder(nodes, active)
    BY DEF IInv
  <2>3. IsInjective(active)
    <3> SUFFICES ASSUME NEW j \in DOMAIN active, NEW k \in DOMAIN active, active[j] = active[k]
                 PROVE  j = k
      BY DEF IsInjective
    <3>1. ~ (j < k) /\ ~ (k < j)
      BY <2>1, <2>2 DEF InOrder
    <3>2. j \in Nat /\ k \in Nat
      BY <2>1
    <3> QED BY <3>1, <3>2
  <2> QED BY <2>2, <2>3 DEF InOrder, NodeIds
<1>4. \A k \in DOMAIN pend : IsItem(G, pend[k].item) /\ pend[k].tail \in NodeIds
  BY DEF IInv, WaysRight, Buried, NodeIds
<1>5. left \in Nat
  BY DEF IInv, Passing
<1>6. Shapes
  BY DEF IInv
<1> QED BY <1>2, <1>3, <1>4, <1>5, <1>6 DEF TypeOK, Shapes, NodeIds

LEMMA WaysKept ==
  ASSUME NEW T, NEW g, NEW ns, NEW act, NEW ps, WaysRight(T, g, ns, act, ps), NEW ms, NEW bct,
         \A b : Buried(ns, act, b) => Buried(ms, bct, b) /\ ms[b].S = ns[b].S
  PROVE  WaysRight(T, g, ms, bct, ps)
BY DEF WaysRight

LEMMA LaterOffset ==
  ASSUME NEW T, NEW ns, NEW act, NEW o \in Nat, NEW p \in Nat, o <= p, StackRight(T, ns, act, o)
  PROVE  StackRight(T, ns, act, p)
<1> SUFFICES ASSUME NEW n \in DOMAIN ns PROVE NodeRight(T, ns, act, p, n)
  BY DEF StackRight
<1>1. NodeRight(T, ns, act, o, n)
  BY DEF StackRight
<1>2. ns[n].O \in 0 .. p
  BY <1>1 DEF NodeRight
<1> QED BY <1>1, <1>2 DEF NodeRight
-----------------------------------------------------------------------------
(***************************************************************************)
(* The invariant holds when the call begins, and each step preserves it.   *)
(***************************************************************************)
LEMMA InitRight ==
  ASSUME Init
  PROVE  IInv
<1>1. job \in Jobs /\ Size \in Nat /\ RunsBack(A)
  BY ThisCall DEF Init
<1>2. offset \in 0 .. Size
  <2>1. Len(Text) \in Nat /\ Len(Text) = Size /\ 0 \in 0 .. Len(Text)
    BY <1>1 DEF Size, Text
  <2>2. offset = Skip(G, Text, 0)
    BY DEF Init
  <2> QED BY <2>1, <2>2, SkipFacts
<1> DEFINE root == NewNode(1, 0, "", 0, <<>>)
           e == Edge(0, <<>>)
<1>3. IsNode(root) /\ root.S = 1 /\ root.O = 0 /\ root.preds = << e >> /\ IsEdge(e) /\ e.from = 0
  BY DEF NewNode, Edge, IsNode, IsEdge
<1> HIDE DEF root, e
<1>4. /\ IsList(<< e >>) /\ DOMAIN << e >> = {1} /\ << e >>[1] = e
  BY OneList
<1>5. PICK ns : ns = << root >> /\ ns = nodes
  BY DEF Init, root
<1>6. IsList(ns) /\ DOMAIN ns = {1} /\ ns[1] = root
  <2>1. IsList(<< root >>) /\ << root >>[1] = root /\ DOMAIN << root >> = {1}
    BY OneList
  <2> QED BY <1>5, <2>1
<1>7. StackRight(A, ns, active, offset)
  <2>1. 1 \in DOMAIN A.states
    BY <1>1 DEF RunsBack
  <2>2. EdgeRight(A, ns, active, 1, 0)
    BY <1>3, <1>6 DEF EdgeRight
  <2>3. NodeRight(A, ns, active, offset, 1)
    BY <1>1, <1>2, <1>3, <1>4, <1>6, <2>1, <2>2 DEF NodeRight
  <2> QED BY <1>6, <2>3 DEF StackRight
<1>8. PICK act : act = << 1 >> /\ act = active
  BY DEF Init
<1>9. act \in Seq({1}) /\ DOMAIN act = {1} /\ Len(act) = 1
  BY <1>8
<1>10. InOrder(ns, act)
  BY <1>6, <1>9 DEF InOrder
<1>11. WaysRight(A, G, nodes, active, pend)
  <2>1. pend = <<>>
    BY DEF Init
  <2> QED BY <2>1, NoList DEF WaysRight
<1>12. Shapes
  <2>1. IsABag(excess)
    BY DEF Init, EmptyBag, SetToBag, IsABag
  <2>2. tok.hits = {} /\ tok.asked = {} /\ tok.from = 0 /\ tok.to = 0
    BY DEF Init
  <2>3. accepted.some = FALSE
    BY DEF Init, NoTree
  <2>4. /\ initial \in Alternatives(G, G.start) /\ cur = 0 /\ reds = {}
        /\ overlooked = FALSE /\ phase = "pass"
    BY DEF Init
  <2>5. offset \in Nat
    BY <1>1, <1>2
  <2>6. tok.hits \subseteq tok.asked /\ tok.asked \subseteq DOMAIN G.tokens
        /\ tok.from \in Nat /\ tok.to \in Nat /\ tok.from <= tok.to /\ tok.to <= offset
    BY <2>2, <2>5
  <2> QED BY <1>1, <1>2, <2>1, <2>3, <2>4, <2>6 DEF Shapes
<1>13. Taking
  BY DEF Init, Taking
<1>14. Passing
  <2>1. OffsetsGrow(ns)
    BY <1>3, <1>4, <1>6 DEF OffsetsGrow
  <2>2. NoTwins(ns, act, Len(act))
    BY <1>9 DEF NoTwins
  <2> QED BY <1>5, <1>8, <2>1, <2>2 DEF Init, Passing
<1> QED BY <1>5, <1>7, <1>8, <1>10, <1>11, <1>12, <1>13, <1>14 DEF IInv

LEMMA BeginPassRight ==
  ASSUME IInv, BeginPass
  PROVE  IInv'
<1> DEFINE X == UNION { TokensOf(nodes[n].S) : n \in ToSet(active) }
           to == Consumed(G, Text, offset, X)
<1>1. /\ job \in Jobs /\ Size \in Nat /\ HasWords(G) /\ offset \in 0 .. Size /\ offset \in Nat
      /\ A' = A /\ G' = G /\ Size' = Size /\ job' = job
      /\ phase = "pass" /\ phase' = "node"
      /\ nodes' = nodes /\ active' = active /\ pend' = pend /\ overlooked' = overlooked
  BY ThisCall, SameCall DEF IInv, Shapes, BeginPass
<1>2. X \subseteq DOMAIN G.tokens
  BY DEF TokensOf
<1>3. to \in offset .. Size /\ Results(G, Text, offset, X) \subseteq X
  <2> HIDE DEF X
  <2> QED BY <1>1, <1>2, ConsumedFacts DEF Size, Text
<1>4. /\ tok' = [ asked |-> X, hits |-> Results(G, Text, offset, X), from |-> offset, to |-> to ]
      /\ offset' = Skip(G, Text, to)
  BY DEF BeginPass
<1> HIDE DEF X, to
<1>5. offset' \in to .. Size
  <2>1. to \in 0 .. Size
    BY <1>1, <1>3
  <2> QED BY <1>1, <1>4, <2>1, SkipFacts DEF Size, Text
<1>6. to \in Nat /\ offset <= to /\ to <= offset' /\ offset' \in Nat /\ offset <= offset' /\ offset' \in 0 .. Size
  BY <1>1, <1>3, <1>5
<1>7. StackRight(A, nodes, active, offset')
  BY <1>1, <1>6, LaterOffset DEF IInv
<1>8. Shapes'
  <2>1. tok'.hits \subseteq tok'.asked /\ tok'.asked \subseteq DOMAIN G.tokens
        /\ tok'.from = offset /\ tok'.to = to
    BY <1>2, <1>3, <1>4
  <2>2. initial' = initial /\ cur' = cur /\ reds' = reds /\ excess' = excess /\ accepted' = NoTree
    BY DEF BeginPass
  <2>3. accepted'.some = FALSE
    BY <2>2 DEF NoTree
  <2>4. Shapes
    BY DEF IInv
  <2> QED BY <1>1, <1>6, <2>1, <2>2, <2>3, <2>4 DEF Shapes
<1>9. Taking'
  BY <1>1 DEF Taking
<1>10. Passing'
  <2>1. /\ Len(active) \in Nat /\ DOMAIN active = 1 .. Len(active)
        /\ \A k \in 1 .. Len(active) : active[k] \in DOMAIN nodes
        /\ IsList(active)
    BY OrderFacts DEF IInv, StackRight
  <2>2. left' = Len(active) /\ Len(active) # 0
    BY <2>1, ListFacts DEF BeginPass
  <2>3. ASSUME ~ overlooked
        PROVE  /\ OffsetsGrow(nodes) /\ NoTwins(nodes, active, Len(active))
               /\ Waiting(A, DOMAIN G.tokens, nodes, active, Len(active), tok')
    <3>1. OffsetsGrow(nodes) /\ NoTwins(nodes, active, Len(active))
      BY <1>1, <2>3 DEF IInv, Passing
    <3>2. ASSUME NEW k \in 1 .. Len(active)
          PROVE  /\ nodes[active[k]].O <= offset
                 /\ DOMAIN A.trans[nodes[active[k]].S] \cap DOMAIN G.tokens \subseteq X
      <4>1. active[k] \in ToSet(active) /\ active[k] \in DOMAIN nodes
        BY <2>1 DEF ToSet
      <4>2. nodes[active[k]].O \in 0 .. offset
        BY <4>1 DEF IInv, StackRight, NodeRight
      <4>3. TokensOf(nodes[active[k]].S) \subseteq X
        BY <4>1 DEF X
      <4> QED BY <1>1, <4>2, <4>3 DEF TokensOf
    <3>3. tok'.from = offset /\ tok'.asked = X
      BY <1>4
    <3> QED BY <2>1, <3>1, <3>2, <3>3 DEF Waiting
  <2> QED BY <1>1, <2>1, <2>2, <2>3 DEF Passing
<1> QED BY <1>1, <1>7, <1>8, <1>9, <1>10 DEF IInv

LEMMA EndParseRight ==
  ASSUME IInv, EndParse \/ Break
  PROVE  IInv'
<1>1. /\ UNCHANGED <<job, initial, nodes, active, offset, tok, left, cur, reds,
                     pend, excess, accepted, overlooked>>
      /\ phase' \in {"done", "broken"}
  BY DEF EndParse, Break
<1>2. A' = A /\ G' = G /\ Size' = Size
  BY <1>1, SameCall
<1>3. Shapes'
  BY <1>1, <1>2 DEF IInv, Shapes
<1>4. Taking'
  BY <1>1 DEF Taking
<1>5. Passing'
  BY <1>1, <1>2 DEF IInv, Passing
<1> QED BY <1>1, <1>2, <1>3, <1>4, <1>5 DEF IInv

\* What is committed first, and the rest.
LEMMA FirstWay ==
  ASSUME NEW T, NEW g, NEW ns, NEW act, NEW ps, WaysRight(T, g, ns, act, ps), ps # <<>>
  PROVE  Buried(ns, act, Head(ps).tail) /\ WaysRight(T, g, ns, act, Tail(ps))
<1>1. ps \in Seq(ToSet(ps)) /\ DOMAIN ps = 1 .. Len(ps) /\ Len(ps) \in Nat /\ Len(ps) # 0
  BY ListFacts DEF WaysRight, IsList
<1>2. Head(ps) = ps[1] /\ 1 \in DOMAIN ps
  BY <1>1
<1>3. /\ Tail(ps) \in Seq(ToSet(ps)) /\ Len(Tail(ps)) = Len(ps) - 1
      /\ \A k \in 1 .. Len(ps) - 1 : Tail(ps)[k] = ps[k + 1]
  BY <1>1, HeadTailProperties
<1>4. IsList(Tail(ps)) /\ DOMAIN Tail(ps) = 1 .. Len(ps) - 1
  BY <1>3, ListOfSeq, LenProperties
<1>5. \A k \in DOMAIN Tail(ps) : k + 1 \in DOMAIN ps /\ Tail(ps)[k] = ps[k + 1]
  BY <1>1, <1>3, <1>4
<1> QED BY <1>2, <1>4, <1>5 DEF WaysRight

LEMMA OneMoreNode ==
  ASSUME IInv, phase = "reduce", phase' = phase, NEW m, Buried(nodes, active, m), NEW x, NEW ast,
         nodes' = Append(nodes, NewNode(GotoOn(nodes[m].S, x), offset, x, m, ast)),
         active' = Queued(active, NewIds(1)),
         UNCHANGED <<job, offset, tok, left, cur, overlooked>>
  PROVE  /\ StackRight(A, nodes', active', offset) /\ InOrder(nodes', active')
         /\ DOMAIN nodes \subseteq DOMAIN nodes'
         /\ \A b : Buried(nodes, active, b) => Buried(nodes', active', b) /\ nodes'[b] = nodes[b]
         /\ Passing'
<1> DEFINE S == GotoOn(nodes[m].S, x)
           N == NewNode(S, offset, x, m, ast)
<1>1. job \in Jobs /\ offset \in Nat /\ A' = A /\ G' = G
      /\ StackRight(A, nodes, active, offset) /\ InOrder(nodes, active) /\ Passing
  BY ThisCall, SameCall DEF IInv, Shapes
<1>2. nodes[m].S \in DOMAIN A.states /\ nodes[m].O \in 0 .. offset
  BY <1>1 DEF Buried, StackRight, NodeRight
<1>3. S \in DOMAIN A.states \cup {0} /\ Goes(A, nodes[m].S, x) = S
  BY <1>1, <1>2, GotoFacts
<1> HIDE DEF S
<1>4. RightOver(A, nodes, offset, m, N) /\ N.O = offset
  BY <1>1, <1>3, NewNodeRight
<1> HIDE DEF N
<1>5. PICK new : new = << N >>
  OBVIOUS
<1>6. IsList(new) /\ Len(new) = 1 /\ DOMAIN new = {1} /\ new[1] = N
  <2>1. IsList(<< N >>) /\ Len(<< N >>) = 1 /\ << N >>[1] = N /\ DOMAIN << N >> = {1}
    BY OneList
  <2> QED BY <1>5, <2>1
<1>7. nodes' = Grown(nodes, new)
  <2>1. nodes' = Append(nodes, N)
    BY DEF N, S
  <2>2. IsList(nodes)
    BY <1>1 DEF StackRight
  <2> QED BY <1>5, <2>1, <2>2, AppendedIsConcat DEF Grown
<1>8. active' = Behind(nodes, active, new)
  <2>1. NewIds(1) = IdsAfter(nodes, 1)
    BY DEF NewIds, IdsAfter
  <2> QED BY <1>6, <2>1 DEF Queued, Behind
<1>9. \A k \in DOMAIN new : RightOver(A, nodes, offset, m, new[k]) /\ nodes[m].O <= new[k].O
  BY <1>1, <1>2, <1>4, <1>6
<1>10. /\ StackRight(A, nodes', active', offset) /\ InOrder(nodes', active')
       /\ DOMAIN nodes \subseteq DOMAIN nodes'
       /\ \A b : Buried(nodes, active, b) => Buried(nodes', active', b) /\ nodes'[b] = nodes[b]
       /\ OffsetsGrow(nodes) => OffsetsGrow(nodes')
       /\ \A l \in Nat : \A t : Waiting(A, DOMAIN G.tokens, nodes, active, l, t)
                                => Waiting(A, DOMAIN G.tokens, nodes', active', l, t)
  <2>1. /\ StackRight(A, nodes, active, offset) /\ InOrder(nodes, active)
        /\ IsList(new) /\ \A k \in DOMAIN new : RightOver(A, nodes, offset, m, new[k])
        /\ nodes' = Grown(nodes, new) /\ active' = Behind(nodes, active, new)
    BY <1>1, <1>6, <1>7, <1>8, <1>9
  <2>2. OffsetsGrow(nodes) => OffsetsGrow(nodes) /\ \A k \in DOMAIN new : nodes[m].O <= new[k].O
    BY <1>9
  <2>3. GrownRight(A, DOMAIN G.tokens, nodes, active, offset, m, new, nodes', active')
    BY <2>1, GrowRight
  <2> QED BY <2>2, <2>3 DEF GrownRight
<1>11. Passing'
  BY <1>1, <1>10 DEF Passing
<1> QED BY <1>10, <1>11

LEMMA ReduceEpsilonRight ==
  ASSUME IInv, NEW i \in reds, ReduceEpsilon(i)
  PROVE  IInv'
<1>1. /\ job \in Jobs /\ phase = "reduce" /\ phase' = phase
      /\ UNCHANGED <<job, initial, offset, tok, left, cur, pend, excess, accepted, overlooked>>
      /\ reds' \subseteq reds /\ A' = A /\ G' = G /\ Size' = Size
  BY SameCall DEF IInv, Shapes, ReduceEpsilon
<1>2. Buried(nodes, active, cur) /\ reds \subseteq Reductions(nodes[cur].S)
  BY <1>1 DEF IInv, Taking
<1>3. /\ StackRight(A, nodes', active', offset) /\ InOrder(nodes', active')
      /\ DOMAIN nodes \subseteq DOMAIN nodes'
      /\ \A b : Buried(nodes, active, b) => Buried(nodes', active', b) /\ nodes'[b] = nodes[b]
      /\ Passing'
  <2> DEFINE ast == Reduced(i.lhs, <<>>)
  <2>1. /\ nodes' = Append(nodes, NewNode(GotoOn(nodes[cur].S, i.lhs), offset, i.lhs, cur, ast))
        /\ active' = Queued(active, NewIds(1))
    BY DEF ReduceEpsilon
  <2> HIDE DEF ast
  <2> QED BY <1>1, <1>2, <2>1, OneMoreNode
<1>4. WaysRight(A, G, nodes', active', pend)
  <2>1. WaysRight(A, G, nodes, active, pend)
    BY DEF IInv
  <2> QED BY <1>3, <2>1, WaysKept
<1>5. Taking'
  BY <1>1, <1>2, <1>3 DEF Taking, Reductions
<1>6. Shapes'
  BY <1>1, <1>3 DEF IInv, Shapes
<1> QED BY <1>1, <1>3, <1>4, <1>5, <1>6 DEF IInv

LEMMA FlushGotoRight ==
  ASSUME IInv, FlushGoto
  PROVE  IInv'
<1> DEFINE p == Head(pend)
           S == GotoOn(nodes[p.tail].S, p.item.lhs)
<1>1. /\ job \in Jobs /\ phase = "reduce" /\ phase' = phase /\ pend # <<>> /\ pend' = Tail(pend)
      /\ UNCHANGED <<job, initial, offset, tok, left, cur, reds, excess, accepted, overlooked>>
      /\ A' = A /\ G' = G /\ Size' = Size
  BY SameCall DEF IInv, Shapes, FlushGoto, Flushing
<1>2. Buried(nodes, active, cur) /\ reds \subseteq Reductions(nodes[cur].S)
  BY <1>1 DEF IInv, Taking
<1>3. Buried(nodes, active, p.tail) /\ WaysRight(A, G, nodes, active, Tail(pend))
  BY <1>1, FirstWay DEF IInv
<1>4. \/ nodes' = nodes /\ active' = active
      \/ /\ nodes' = Append(nodes, NewNode(S, offset, p.item.lhs, p.tail, Reduced(p.item.lhs, p.accum)))
         /\ active' = Queued(active, NewIds(1))
  BY DEF FlushGoto
<1>5. /\ StackRight(A, nodes', active', offset) /\ InOrder(nodes', active')
      /\ DOMAIN nodes \subseteq DOMAIN nodes'
      /\ \A b : Buried(nodes, active, b) => Buried(nodes', active', b) /\ nodes'[b] = nodes[b]
      /\ Passing'
  <2>1. CASE nodes' = nodes /\ active' = active
    BY <1>1, <2>1 DEF IInv, Passing
  <2>2. CASE /\ nodes' = Append(nodes, NewNode(S, offset, p.item.lhs, p.tail, Reduced(p.item.lhs, p.accum)))
             /\ active' = Queued(active, NewIds(1))
    <3> DEFINE m == p.tail
               x == p.item.lhs
               ast == Reduced(p.item.lhs, p.accum)
    <3>1. nodes' = Append(nodes, NewNode(GotoOn(nodes[m].S, x), offset, x, m, ast))
      BY <2>2
    <3>2. Buried(nodes, active, m)
      BY <1>3
    <3> HIDE DEF m, x, ast
    <3> QED BY <1>1, <2>2, <3>1, <3>2, OneMoreNode
  <2> QED BY <1>4, <2>1, <2>2
<1>6. WaysRight(A, G, nodes', active', Tail(pend))
  BY <1>3, <1>5, WaysKept
<1>7. Taking'
  BY <1>1, <1>2, <1>5 DEF Taking, Reductions
<1>8. Shapes'
  BY <1>1, <1>5 DEF IInv, Shapes
<1> QED BY <1>1, <1>5, <1>6, <1>7, <1>8 DEF IInv

LEMMA ReducePathsRight ==
  ASSUME IInv, NEW i \in reds, ReducePaths(i)
  PROVE  IInv'
<1> DEFINE ways == Paths(nodes, cur, Len(i.rhs))
           more == [ k \in DOMAIN ways |->
                       [item |-> i, tail |-> ways[k].tail, accum |-> ways[k].accum] ]
<1>1. /\ job \in Jobs /\ phase = "reduce" /\ phase' = phase
      /\ UNCHANGED <<job, initial, nodes, active, offset, tok, left, cur, excess, accepted, overlooked>>
      /\ reds' \subseteq reds /\ pend' = pend \o more
      /\ A' = A /\ G' = G /\ Size' = Size
  BY SameCall DEF IInv, Shapes, ReducePaths
<1> HIDE DEF ways
<1>2. Buried(nodes, active, cur) /\ reds \subseteq Reductions(nodes[cur].S)
  BY <1>1 DEF IInv, Taking
<1>3. nodes[cur].S \in DOMAIN A.states
  BY <1>2 DEF IInv, Buried, StackRight, NodeRight
<1>4. /\ IsItem(G, i) /\ AtEnd(i) /\ Len(i.rhs) \in Nat /\ i.dot = Len(i.rhs)
      /\ i \in A.states[nodes[cur].S]
  BY <1>1, <1>2, <1>3, ReductionsAreItems
<1>5. BackOver(A, nodes, active, i, Len(i.rhs), ways)
  <2>1. RunsBack(A) /\ StackRight(A, nodes, active, offset)
    BY <1>1, ThisCall DEF IInv
  <2> QED BY <1>2, <1>4, <2>1, WaysBack DEF ways
<1>6. At(i, Len(i.rhs) - Len(i.rhs)) = [i EXCEPT !.dot = 0]
  <2>1. Len(i.rhs) - Len(i.rhs) = 0
    BY <1>4
  <2> QED BY <2>1 DEF At
<1>7. IsList(more) /\ DOMAIN more = DOMAIN ways
  <2>1. DOMAIN ways = 1 .. Len(ways) /\ Len(ways) \in Nat
    BY <1>5, ListFacts DEF BackOver
  <2>2. DOMAIN more = 1 .. Len(ways) /\ more = [k \in 1 .. Len(ways) |-> more[k]]
    BY <2>1
  <2> HIDE DEF more
  <2> QED BY <2>1, <2>2, ListOfFunction
<1>8. ASSUME NEW k \in DOMAIN more
      PROVE  /\ IsItem(G, more[k].item)
             /\ Buried(nodes, active, more[k].tail)
             /\ [more[k].item EXCEPT !.dot = 0] \in A.states[nodes[more[k].tail].S]
  <2>1. k \in DOMAIN ways /\ more[k].item = i /\ more[k].tail = ways[k].tail
    BY <1>7
  <2> HIDE DEF more
  <2>2. Buried(nodes, active, ways[k].tail)
        /\ [i EXCEPT !.dot = 0] \in A.states[nodes[ways[k].tail].S]
    BY <1>5, <1>6, <2>1 DEF BackOver
  <2> QED BY <1>4, <2>1, <2>2
<1> HIDE DEF more
<1>9. WaysRight(A, G, nodes, active, pend')
  <2>1. WaysRight(A, G, nodes, active, pend)
    BY DEF IInv
  <2>2. PICK ps : ps = pend'
    OBVIOUS
  <2>3. IsList(pend) /\ IsList(more) /\ ps = pend \o more
    BY <1>1, <1>7, <2>1, <2>2 DEF WaysRight
  <2>4. IsList(ps)
    BY <2>3, ConcatLists
  <2>6. ASSUME NEW k \in DOMAIN ps
        PROVE  (\E j \in DOMAIN pend : ps[k] = pend[j]) \/ (\E j \in DOMAIN more : ps[k] = more[j])
    BY <2>3, <2>6, FromEither
  <2>7. ASSUME NEW k \in DOMAIN ps
        PROVE  /\ IsItem(G, ps[k].item)
               /\ Buried(nodes, active, ps[k].tail)
               /\ [ps[k].item EXCEPT !.dot = 0] \in A.states[nodes[ps[k].tail].S]
    BY <1>8, <2>1, <2>6 DEF WaysRight
  <2>8. WaysRight(A, G, nodes, active, ps)
    BY <2>4, <2>7 DEF WaysRight
  <2> QED BY <2>2, <2>8
<1>10. Taking'
  BY <1>1, <1>2 DEF Taking, Reductions
<1>11. Shapes'
  BY <1>1 DEF IInv, Shapes
<1>12. Passing'
  BY <1>1 DEF IInv, Passing
<1> QED BY <1>1, <1>9, <1>10, <1>11, <1>12 DEF IInv

LEMMA FlushInitialRight ==
  ASSUME IInv, FlushInitial
  PROVE  IInv'
<1>1. /\ job \in Jobs /\ phase = "reduce" /\ phase' = phase /\ pend # <<>> /\ pend' = Tail(pend)
      /\ UNCHANGED <<job, initial, nodes, active, offset, tok, left, cur, reds, overlooked>>
      /\ A' = A /\ G' = G /\ Size' = Size
  BY SameCall DEF IInv, Shapes, FlushInitial, Flushing
<1>2. WaysRight(A, G, nodes, active, Tail(pend))
  BY <1>1, FirstWay DEF IInv
<1>3. accepted'.some \in BOOLEAN /\ IsABag(excess')
  <2> DEFINE list == Head(pend).accum
  <2>1. IsABag(excess) /\ accepted.some \in BOOLEAN
    BY DEF IInv, Shapes
  <2>2. \/ accepted' = Accepting(list) /\ excess' = excess
        \/ accepted' = accepted /\ (excess' = excess \/ excess' = excess (+) SetToBag({list}))
    BY DEF FlushInitial
  <2> HIDE DEF list
  <2>3. Accepting(list).some \in BOOLEAN
    <3>1. Accepting(list) = accepted
          \/ Accepting(list) = [some |-> TRUE, trees |-> accepted.trees \o Reduced(G.start, list)]
      BY DEF Accepting
    <3>2. CASE Accepting(list) = accepted
      BY <2>1, <3>2
    <3>3. CASE Accepting(list) = [some |-> TRUE, trees |-> accepted.trees \o Reduced(G.start, list)]
      <4>1. PICK x : Accepting(list) = [some |-> TRUE, trees |-> x]
        BY <3>3
      <4> QED BY <4>1
    <3> QED BY <3>1, <3>2, <3>3
  <2>4. IsABag(excess (+) SetToBag({list}))
    BY <2>1, OneMoreInBag
  <2> QED BY <2>1, <2>2, <2>3, <2>4
<1>4. Shapes'
  BY <1>1, <1>3 DEF IInv, Shapes
<1>5. Taking'
  BY <1>1 DEF IInv, Taking, Reductions
<1>6. Passing'
  BY <1>1 DEF IInv, Passing
<1> QED BY <1>1, <1>2, <1>4, <1>5, <1>6 DEF IInv

LEMMA FreeRight ==
  ASSUME IInv, NEW c \in Freeable, Free(c)
  PROVE  IInv'
<1>1. /\ job \in Jobs /\ phase = "reduce" /\ phase' = phase
      /\ UNCHANGED <<job, initial, active, offset, tok, left, cur, reds, pend, accepted, overlooked>>
      /\ A' = A /\ G' = G /\ Size' = Size
      /\ StackRight(A, nodes, active, offset) /\ nodes' = Freed(nodes, c)
  BY SameCall DEF IInv, Shapes, Free
<1>2. /\ StackRight(A, nodes', active, offset) /\ DOMAIN nodes' = DOMAIN nodes
      /\ \A n \in DOMAIN nodes :
           nodes'[n].S = nodes[n].S /\ nodes'[n].O = nodes[n].O /\ nodes'[n].P = nodes[n].P
      /\ OffsetsGrow(nodes) => OffsetsGrow(nodes')
  BY <1>1, FreedRight
<1>3. \A b : Buried(nodes, active, b) => Buried(nodes', active, b) /\ nodes'[b].S = nodes[b].S
  BY <1>2 DEF Buried
<1>4. WaysRight(A, G, nodes', active, pend)
  <2>1. WaysRight(A, G, nodes, active, pend)
    BY DEF IInv
  <2> QED BY <1>3, <2>1, WaysKept
<1>5. Taking'
  <2>1. Buried(nodes, active, cur) /\ reds \subseteq Reductions(nodes[cur].S)
    BY <1>1 DEF IInv, Taking
  <2> QED BY <1>1, <1>3, <2>1 DEF Taking, Reductions
<1>6. InOrder(nodes', active)
  BY <1>2 DEF IInv, InOrder
<1>7. IsABag(excess')
  <2>1. excess' = [d \in DOMAIN excess \ {c} |-> excess[d]] /\ IsABag(excess)
    BY DEF Free, BagToSet, IInv, Shapes
  <2> QED BY <2>1, OneMoreInBag
<1>8. Shapes'
  BY <1>1, <1>2, <1>7 DEF IInv, Shapes
<1>9. Passing'
  <2>1. Len(active) \in Nat /\ \A k \in 1 .. Len(active) : active[k] \in DOMAIN nodes
    BY <1>1, OrderFacts DEF IInv, StackRight
  <2>2. left \in Nat
    BY DEF IInv, Passing
  <2>3. ASSUME ~ overlooked
        PROVE  OffsetsGrow(nodes') /\ Waiting(A, DOMAIN G.tokens, nodes', active, left, tok)
    <3>1. OffsetsGrow(nodes) /\ Waiting(A, DOMAIN G.tokens, nodes, active, left, tok)
      BY <1>1, <2>3 DEF IInv, Passing
    <3>2. \A k \in 1 .. left : active[k] \in DOMAIN nodes
      BY <2>1, <2>2, <3>1 DEF Waiting
    <3> QED BY <1>2, <3>1, <3>2 DEF Waiting, NoTwins, SameId
  <2> QED BY <1>1, <2>2, <2>3 DEF Passing
<1> QED BY <1>1, <1>2, <1>4, <1>5, <1>6, <1>8, <1>9 DEF IInv

LEMMA MergeStepRight ==
  ASSUME IInv, Merge
  PROVE  IInv'
<1>1. /\ job \in Jobs /\ phase = "reduce" /\ phase' = (IF left = 0 THEN "pass" ELSE "node")
      /\ reds = {} /\ pend = <<>> /\ cur' = 0
      /\ UNCHANGED <<job, initial, offset, tok, left, reds, pend, excess, accepted>>
      /\ A' = A /\ G' = G /\ Size' = Size
      /\ StackRight(A, nodes, active, offset) /\ InOrder(nodes, active)
  BY SameCall DEF IInv, Shapes, Merge
<1>2. PICK kept \in Kept(nodes, active) :
        /\ nodes' = Merged(nodes, active, kept)
        /\ active' = Remaining(active, kept)
        /\ overlooked' = (overlooked \/ Missed(nodes, active, kept))
  BY DEF Merge
<1>3. /\ StackRight(A, nodes', active', offset) /\ InOrder(nodes', active')
      /\ DOMAIN nodes' = DOMAIN nodes
      /\ OffsetsGrow(nodes) => OffsetsGrow(nodes')
      /\ ~ Missed(nodes, active, kept) => NoTwins(nodes', active', Len(active'))
      /\ \A l \in 1 .. Len(active) : NoTwins(nodes, active, l) =>
           /\ l <= Len(active') /\ NoTwins(nodes', active', l)
           /\ \A k \in 1 .. l :
                /\ active'[k] = active[k]
                /\ nodes'[active'[k]].S = nodes[active[k]].S
                /\ nodes'[active'[k]].O = nodes[active[k]].O
  BY <1>1, <1>2, MergeRight
<1>4. WaysRight(A, G, nodes', active', pend)
  BY <1>1, NoList DEF WaysRight
<1>5. phase' # "reduce" /\ phase' \in {"pass", "node"} /\ (phase' = "node" <=> left # 0)
  BY <1>1
<1>6. Taking'
  BY <1>5 DEF Taking
<1>7. overlooked \in BOOLEAN
  BY DEF IInv, Shapes
<1>8. overlooked' \in BOOLEAN /\ (~ overlooked' => ~ overlooked /\ ~ Missed(nodes, active, kept))
  BY <1>2, <1>7
<1>9. Shapes'
  BY <1>1, <1>5, <1>8 DEF IInv, Shapes
<1>10. Passing'
  <2>1. left \in Nat /\ Len(active) \in Nat
    BY <1>1, OrderFacts DEF IInv, Passing, StackRight
  <2>2. ASSUME ~ overlooked'
        PROVE  /\ OffsetsGrow(nodes') /\ NoTwins(nodes', active', Len(active'))
               /\ left # 0 => Waiting(A, DOMAIN G.tokens, nodes', active', left, tok)
    <3>1. OffsetsGrow(nodes) /\ Waiting(A, DOMAIN G.tokens, nodes, active, left, tok)
      BY <1>1, <1>8, <2>2 DEF IInv, Passing
    <3>2. ASSUME left # 0
          PROVE  Waiting(A, DOMAIN G.tokens, nodes', active', left, tok)
      <4>1. left \in 1 .. Len(active) /\ NoTwins(nodes, active, left)
        BY <2>1, <3>1, <3>2 DEF Waiting
      <4>2. /\ left <= Len(active') /\ NoTwins(nodes', active', left)
            /\ \A k \in 1 .. left :
                 /\ active'[k] = active[k]
                 /\ nodes'[active'[k]].S = nodes[active[k]].S
                 /\ nodes'[active'[k]].O = nodes[active[k]].O
        BY <1>3, <4>1
      <4> QED BY <3>1, <4>2 DEF Waiting
    <3> QED BY <1>3, <1>8, <2>2, <3>1, <3>2
  <2> QED BY <1>1, <1>5, <2>1, <2>2 DEF Passing
<1> QED BY <1>1, <1>3, <1>4, <1>6, <1>9, <1>10 DEF IInv

\* What a node is taken for: its tokens among the hits, all shifted over it.
LEMMA TokensTaken ==
  ASSUME IInv, TakeNode
  PROVE  \E syms :
           /\ IsList(syms) /\ ToSet(syms) \subseteq TokensOf(nodes[Head(active)].S) \cap tok.hits
           /\ DOMAIN ShiftOver(Head(active), syms) = DOMAIN syms
           /\ IsList(ShiftOver(Head(active), syms))
           /\ nodes' = Grown(nodes, ShiftOver(Head(active), syms))
           /\ active' = Behind(nodes, Tail(active), ShiftOver(Head(active), syms))
<1> DEFINE n == Head(active)
           S == nodes[n].S
           rest == Tail(active)
<1>1. IsFiniteSet(DOMAIN G.tokens)
  BY ThisCall DEF IInv, Shapes
<1>2. PICK t \in SetToSeqs(Shifted(S, "t")), b \in SetToSeqs(Shifted(S, "bow")),
           r \in SetToSeqs(Shifted(S, "re")) :
        /\ nodes' = nodes \o ShiftOver(n, t \o b \o r)
        /\ active' = Queued(rest, NewIds(Len(t \o b \o r)))
  BY DEF TakeNode
<1>3. ASSUME NEW class, NEW s \in SetToSeqs(Shifted(S, class))
      PROVE  IsList(s) /\ ToSet(s) \subseteq TokensOf(S) \cap tok.hits
  <2>1. Shifted(S, class) \subseteq TokensOf(S) \cap tok.hits /\ TokensOf(S) \subseteq DOMAIN G.tokens
    BY DEF Shifted, Hits, TokensOf
  <2>2. IsFiniteSet(Shifted(S, class))
    BY <1>1, <2>1, FS_Subset
  <2> QED BY <1>3, <2>1, <2>2, InAnyOrder
<1>4. PICK syms : IsList(syms) /\ syms = t \o b \o r /\ ToSet(syms) \subseteq TokensOf(S) \cap tok.hits
  <2> HIDE DEF S
  <2>1. /\ IsList(t) /\ ToSet(t) \subseteq TokensOf(S) \cap tok.hits
        /\ IsList(b) /\ ToSet(b) \subseteq TokensOf(S) \cap tok.hits
        /\ IsList(r) /\ ToSet(r) \subseteq TokensOf(S) \cap tok.hits
    BY <1>2, <1>3
  <2>2. PICK u : u = t \o b /\ IsList(u) /\ ToSet(u) = ToSet(t) \cup ToSet(b)
    BY <2>1, ConcatLists
  <2>3. PICK v : v = u \o r /\ IsList(v) /\ ToSet(v) = ToSet(u) \cup ToSet(r)
    BY <2>1, <2>2, ConcatLists
  <2> QED BY <2>1, <2>2, <2>3
<1>5. DOMAIN syms = 1 .. Len(syms) /\ Len(syms) \in Nat
  BY <1>4, ListFacts
<1> DEFINE new == ShiftOver(n, syms)
<1>6. IsList(new) /\ Len(new) = Len(syms) /\ DOMAIN new = DOMAIN syms
  <2>1. DOMAIN new = 1 .. Len(syms) /\ new = [k \in 1 .. Len(syms) |-> new[k]]
    BY <1>5 DEF ShiftOver
  <2> HIDE DEF new
  <2> QED BY <1>5, <2>1, ListOfFunction
<1>7. nodes' = Grown(nodes, new) /\ active' = Behind(nodes, rest, new)
  <2>1. nodes' = nodes \o new /\ active' = Queued(rest, NewIds(Len(syms)))
    BY <1>2, <1>4
  <2>2. NewIds(Len(syms)) = IdsAfter(nodes, Len(new))
    BY <1>6 DEF NewIds, IdsAfter
  <2> HIDE DEF new, rest
  <2> QED BY <2>1, <2>2 DEF Grown, Behind, Queued
<1> QED BY <1>4, <1>6, <1>7

LEMMA TakeNodeRight ==
  ASSUME IInv, TakeNode
  PROVE  IInv'
<1> DEFINE n == Head(active)
           S == nodes[n].S
           rest == Tail(active)
<1>1. /\ job \in Jobs /\ phase = "node" /\ phase' = "reduce" /\ active # <<>> /\ S # 0
      /\ cur' = n /\ reds' \subseteq Reductions(S) /\ left' = left - 1
      /\ UNCHANGED <<job, initial, offset, tok, pend, excess, accepted, overlooked>>
      /\ A' = A /\ G' = G /\ Size' = Size
      /\ StackRight(A, nodes, active, offset) /\ InOrder(nodes, active)
      /\ IsFiniteSet(DOMAIN G.tokens)
  BY ThisCall, SameCall DEF IInv, Shapes, TakeNode
<1>2. PICK syms :
        /\ DOMAIN ShiftOver(n, syms) = DOMAIN syms /\ IsList(ShiftOver(n, syms))
        /\ nodes' = Grown(nodes, ShiftOver(n, syms))
        /\ active' = Behind(nodes, rest, ShiftOver(n, syms))
  BY TokensTaken
<1> DEFINE new == ShiftOver(n, syms)
<1>3. /\ StackRight(A, nodes, rest, offset) /\ InOrder(nodes, rest)
      /\ n = active[1] /\ Buried(nodes, rest, n)
      /\ \A m : Buried(nodes, active, m) => Buried(nodes, rest, m)
      /\ Len(active) # 0 /\ Len(rest) = Len(active) - 1
      /\ \A k \in 1 .. Len(active) - 1 : rest[k] = active[k + 1]
  BY <1>1, TakeRight
<1>8. S \in DOMAIN A.states /\ nodes[n].O \in 0 .. offset /\ n \in DOMAIN nodes
  BY <1>1, <1>3 DEF Buried, StackRight, NodeRight
<1>9. ASSUME NEW k \in DOMAIN new
      PROVE  RightOver(A, nodes, offset, n, new[k]) /\ new[k].O = tok.to
  <2> DEFINE x == syms[k]
             ast == Production(G, Text, tok.from, x)
             s == GotoOn(S, x)
  <2>1. new[k] = NewNode(s, tok.to, x, n, ast)
    BY <1>2, <1>9 DEF ShiftOver
  <2>2. tok.to \in 0 .. offset
    BY DEF IInv, Shapes
  <2> HIDE DEF x, ast, new
  <2>3. PICK m : m = n
    OBVIOUS
  <2>4. PICK o \in 0 .. offset : o = tok.to
    BY <2>2
  <2>5. new[k] = NewNode(GotoOn(nodes[m].S, x), o, x, m, ast)
    BY <2>1, <2>3, <2>4
  <2>6. nodes[m].S \in DOMAIN A.states /\ job \in Jobs
    BY <1>1, <1>8, <2>3
  <2>7. /\ RightOver(A, nodes, offset, m, NewNode(GotoOn(nodes[m].S, x), o, x, m, ast))
        /\ NewNode(GotoOn(nodes[m].S, x), o, x, m, ast).O = o
    BY <2>6, OverStateNode
  <2> QED BY <2>3, <2>4, <2>5, <2>7
<1> HIDE DEF new, n, rest
<1>10. /\ StackRight(A, nodes', active', offset) /\ InOrder(nodes', active')
       /\ DOMAIN nodes \subseteq DOMAIN nodes'
       /\ \A m : Buried(nodes, rest, m) => Buried(nodes', active', m) /\ nodes'[m] = nodes[m]
       /\ OffsetsGrow(nodes) /\ (\A k \in DOMAIN new : nodes[n].O <= new[k].O) => OffsetsGrow(nodes')
       /\ \A l \in Nat : \A u : Waiting(A, DOMAIN G.tokens, nodes, rest, l, u)
                                => Waiting(A, DOMAIN G.tokens, nodes', active', l, u)
  <2>1. /\ StackRight(A, nodes, rest, offset) /\ InOrder(nodes, rest) /\ Buried(nodes, rest, n)
        /\ IsList(new) /\ \A k \in DOMAIN new : RightOver(A, nodes, offset, n, new[k])
        /\ nodes' = Grown(nodes, new) /\ active' = Behind(nodes, rest, new)
    BY <1>2, <1>3, <1>9 DEF new
  <2>2. GrownRight(A, DOMAIN G.tokens, nodes, rest, offset, n, new, nodes', active')
    BY <2>1, GrowRight
  <2> QED BY <2>2 DEF GrownRight
<1>11. WaysRight(A, G, nodes', active', pend)
  <2>1. WaysRight(A, G, nodes, active, pend)
    BY DEF IInv
  <2> QED BY <1>3, <1>10, <2>1, WaysKept
<1>12. Taking'
  <2>1. Buried(nodes', active', n) /\ nodes'[n] = nodes[n]
    BY <1>3, <1>10
  <2> QED BY <1>1, <2>1 DEF Taking, Reductions
<1>13. Shapes'
  <2>1. \A i \in reds' : IsItem(G, i) /\ AtEnd(i)
    BY <1>1, <1>8, ReductionsAreItems
  <2> QED BY <1>1, <1>8, <1>10, <2>1 DEF IInv, Shapes
<1>14. Passing'
  <2>1. /\ left \in Nat /\ left # 0 /\ left - 1 \in Nat
        /\ Len(active) \in Nat /\ tok.from \in Nat /\ tok.to \in Nat /\ tok.from <= tok.to
    BY <1>1, OrderFacts DEF IInv, Passing, Shapes, StackRight
  <2>2. ASSUME ~ overlooked
        PROVE  OffsetsGrow(nodes') /\ Waiting(A, DOMAIN G.tokens, nodes', active', left - 1, tok)
    <3>1. OffsetsGrow(nodes) /\ Waiting(A, DOMAIN G.tokens, nodes, active, left, tok)
      BY <1>1, <2>2 DEF IInv, Passing
    <3>2. nodes[n].O <= tok.to
      <4>1. nodes[active[1]].O <= tok.from
        BY <2>1, <3>1 DEF Waiting
      <4>2. nodes[n].O \in Nat
        BY <1>8
      <4> QED BY <1>3, <2>1, <4>1, <4>2
    <3>3. Waiting(A, DOMAIN G.tokens, nodes, rest, left - 1, tok)
      <4>1. left <= Len(active) /\ left - 1 <= Len(rest)
        BY <1>3, <2>1, <3>1 DEF Waiting
      <4>2. \A k \in 1 .. left - 1 : k + 1 \in 1 .. left /\ rest[k] = active[k + 1]
        BY <1>3, <2>1, <4>1
      <4>3. NoTwins(nodes, rest, left - 1)
        <5> SUFFICES ASSUME NEW j \in 1 .. left - 1, NEW k \in 1 .. left - 1, j < k
                     PROVE  ~ SameId(nodes[rest[j]], nodes[rest[k]])
          BY DEF NoTwins
        <5>1. j + 1 \in 1 .. left /\ k + 1 \in 1 .. left /\ j + 1 < k + 1
          BY <2>1
        <5>2. NoTwins(nodes, active, left)
          BY <3>1 DEF Waiting
        <5>3. ~ SameId(nodes[active[j + 1]], nodes[active[k + 1]])
          BY <5>1, <5>2 DEF NoTwins
        <5> QED BY <4>2, <5>3
      <4> QED BY <3>1, <4>1, <4>2, <4>3 DEF Waiting
    <3> QED BY <1>9, <1>10, <2>1, <3>1, <3>2, <3>3
  <2> QED BY <1>1, <2>1, <2>2 DEF Passing
<1> QED BY <1>1, <1>10, <1>11, <1>12, <1>13, <1>14 DEF IInv

LEMMA NextRight ==
  ASSUME IInv, [Next]_vars
  PROVE  IInv'
<1>1. CASE BeginPass
  BY <1>1, BeginPassRight
<1>2. CASE EndParse \/ Break
  BY <1>2, EndParseRight
<1>3. CASE TakeNode
  BY <1>3, TakeNodeRight
<1>4. ASSUME NEW i \in reds, ReduceEpsilon(i) PROVE IInv'
  BY <1>4, ReduceEpsilonRight
<1>5. ASSUME NEW i \in reds, ReducePaths(i) PROVE IInv'
  BY <1>5, ReducePathsRight
<1>6. CASE FlushGoto
  BY <1>6, FlushGotoRight
<1>7. CASE FlushInitial
  BY <1>7, FlushInitialRight
<1>8. ASSUME NEW c \in Freeable, Free(c) PROVE IInv'
  BY <1>8, FreeRight
<1>9. CASE Merge
  BY <1>9, MergeStepRight
<1>10. CASE UNCHANGED vars
  <2>1. /\ UNCHANGED <<job, initial, nodes, active, offset, tok, left, cur, reds,
                       pend, excess, accepted, overlooked, phase>>
    BY <1>10 DEF vars
  <2>2. A' = A /\ G' = G /\ Size' = Size
    BY <2>1, SameCall
  <2>3. Shapes' /\ Taking' /\ Passing'
    BY <2>1, <2>2 DEF IInv, Shapes, Taking, Passing, Reductions
  <2> QED BY <2>1, <2>2, <2>3 DEF IInv
<1> QED BY <1>1, <1>2, <1>3, <1>4, <1>5, <1>6, <1>7, <1>8, <1>9, <1>10 DEF Next
-----------------------------------------------------------------------------
(***************************************************************************)
(* No state is missing, where all rules land.                              *)
(***************************************************************************)
HaveStates(ns, act) == \A n \in ToSet(act) : ns[n].S # 0

NoneMissing == RulesLand(G) => HaveStates(nodes, active)

LEMMA GrowHaveStates ==
  ASSUME NEW ns, NEW act, IsList(ns), IsList(act), ToSet(act) \subseteq DOMAIN ns,
         HaveStates(ns, act), NEW new, IsList(new), \A k \in DOMAIN new : new[k].S # 0
  PROVE  HaveStates(Grown(ns, new), Behind(ns, act, new))
<1> DEFINE l == Len(ns)
           d == Len(new)
           f == IdsAfter(ns, d)
<1>1. l \in Nat /\ DOMAIN ns = 1 .. l /\ d \in Nat /\ DOMAIN new = 1 .. d
  BY ListFacts
<1>2. DOMAIN f = 1 .. d /\ f = [k \in 1 .. d |-> f[k]] /\ \A k \in 1 .. d : f[k] = l + k
  BY DEF IdsAfter
<1> HIDE DEF f
<1>3. IsList(f)
  <2> HIDE DEF d
  <2> QED BY <1>1, <1>2, ListOfFunction
<1>4. ToSet(Behind(ns, act, new)) = ToSet(act) \cup ToSet(f)
  BY <1>3, ConcatLists DEF Behind, f
<1>5. PICK ms : ms = Grown(ns, new)
  OBVIOUS
<1>6. /\ \A n \in 1 .. l : ms[n] = ns[n]
      /\ \A k \in 1 .. d : ms[l + k] = new[k]
  BY <1>5, ConcatLists DEF Grown
<1> HIDE DEF l, d
<1>7. ASSUME NEW n \in ToSet(act) PROVE ms[n].S # 0
  <2>1. n \in 1 .. l
    BY <1>1
  <2> QED BY <1>6, <2>1 DEF HaveStates
<1>8. ASSUME NEW n \in ToSet(f) PROVE ms[n].S # 0
  <2>1. PICK k \in 1 .. d : n = l + k
    BY <1>2 DEF ToSet
  <2> QED BY <1>1, <1>6, <2>1
<1> QED BY <1>4, <1>5, <1>7, <1>8 DEF HaveStates

LEMMA OneMoreHasState ==
  ASSUME IInv, HaveStates(nodes, active), NEW N, N.S # 0,
         nodes' = Append(nodes, N), active' = Queued(active, NewIds(1))
  PROVE  HaveStates(nodes', active')
<1>1. IsList(nodes) /\ IsList(active) /\ ToSet(active) \subseteq DOMAIN nodes
  BY OrderFacts DEF IInv, StackRight
<1>2. PICK new : new = << N >>
  OBVIOUS
<1>3. IsList(new) /\ Len(new) = 1 /\ DOMAIN new = {1} /\ new[1] = N
  <2>1. IsList(<< N >>) /\ Len(<< N >>) = 1 /\ << N >>[1] = N /\ DOMAIN << N >> = {1}
    BY OneList
  <2> QED BY <1>2, <2>1
<1>4. nodes' = Grown(nodes, new)
  BY <1>1, <1>2, AppendedIsConcat DEF Grown
<1>5. active' = Behind(nodes, active, new)
  <2>1. NewIds(1) = IdsAfter(nodes, 1)
    BY DEF NewIds, IdsAfter
  <2> QED BY <1>3, <2>1 DEF Queued, Behind
<1>6. HaveStates(Grown(nodes, new), Behind(nodes, active, new))
  BY <1>1, <1>3, GrowHaveStates
<1> QED BY <1>4, <1>5, <1>6

LEMMA TakeHasStates ==
  ASSUME IInv, HaveStates(nodes, active), TakeNode
  PROVE  HaveStates(nodes', active')
<1> DEFINE n == Head(active)
           S == nodes[n].S
           rest == Tail(active)
<1>1. /\ job \in Jobs /\ active # <<>> /\ S # 0 /\ IsFiniteSet(DOMAIN G.tokens)
      /\ StackRight(A, nodes, active, offset) /\ InOrder(nodes, active)
  BY ThisCall DEF IInv, Shapes, TakeNode
<1>2. PICK syms :
        /\ IsList(syms) /\ ToSet(syms) \subseteq TokensOf(S)
        /\ DOMAIN ShiftOver(n, syms) = DOMAIN syms /\ IsList(ShiftOver(n, syms))
        /\ nodes' = Grown(nodes, ShiftOver(n, syms))
        /\ active' = Behind(nodes, rest, ShiftOver(n, syms))
  BY TokensTaken
<1> DEFINE new == ShiftOver(n, syms)
<1>3. InOrder(nodes, rest) /\ StackRight(A, nodes, rest, offset) /\ Buried(nodes, rest, n)
  BY <1>1, TakeRight
<1>4. IsList(nodes) /\ IsList(rest) /\ ToSet(rest) \subseteq DOMAIN nodes
  <2>1. IsList(nodes)
    BY <1>1 DEF StackRight
  <2> HIDE DEF rest
  <2> QED BY <1>3, <2>1, OrderFacts
<1>5. S \in DOMAIN A.states
  BY <1>1, <1>3 DEF Buried, StackRight, NodeRight
<1>6. ASSUME NEW x \in TokensOf(S) PROVE GotoOn(S, x) # 0
  <2>1. RunsBack(A)
    BY <1>1, ThisCall
  <2> QED BY <1>5, <1>6, <2>1 DEF RunsBack, TokensOf, GotoOn
<1>7. HaveStates(nodes, rest)
  <2>1. IsList(active) /\ Len(active) \in Nat /\ DOMAIN active = 1 .. Len(active)
    BY <1>1, OrderFacts DEF StackRight
  <2>2. \A k \in 1 .. Len(active) - 1 : rest[k] = active[k + 1]
    BY <1>1, TakeRight
  <2>3. DOMAIN rest = 1 .. Len(active) - 1
    <3>1. Len(rest) = Len(active) - 1
      BY <1>1, TakeRight
    <3> HIDE DEF rest
    <3> QED BY <1>4, <3>1, ListFacts
  <2> HIDE DEF rest
  <2>4. ToSet(rest) \subseteq ToSet(active)
    <3> SUFFICES ASSUME NEW k \in 1 .. Len(active) - 1 PROVE rest[k] \in ToSet(active)
      BY <2>3 DEF ToSet
    <3>1. k + 1 \in DOMAIN active
      BY <2>1
    <3> QED BY <2>2, <3>1 DEF ToSet
  <2> QED BY <2>4 DEF HaveStates
<1>12. ASSUME NEW k \in DOMAIN new PROVE new[k].S # 0
  <2>1. new[k].S = GotoOn(S, syms[k])
    BY <1>2, <1>12 DEF ShiftOver, NewNode
  <2>2. syms[k] \in TokensOf(S)
    BY <1>2, <1>12 DEF ToSet
  <2> QED BY <1>6, <2>1, <2>2
<1> HIDE DEF new, rest
<1>14. HaveStates(Grown(nodes, new), Behind(nodes, rest, new))
  BY <1>2, <1>4, <1>7, <1>12, GrowHaveStates DEF new
<1> QED BY <1>2, <1>14 DEF new

LEMMA MergeHasStates ==
  ASSUME IInv, HaveStates(nodes, active), Merge
  PROVE  HaveStates(nodes', active')
<1>1. StackRight(A, nodes, active, offset) /\ InOrder(nodes, active)
  BY DEF IInv
<1>2. PICK kept \in Kept(nodes, active) :
        /\ nodes' = Merged(nodes, active, kept)
        /\ active' = Remaining(active, kept)
  BY DEF Merge
<1>3. IsList(active) /\ DOMAIN active = 1 .. Len(active) /\ ToSet(active) \subseteq DOMAIN nodes
  BY <1>1, OrderFacts DEF StackRight
<1>4. kept \subseteq DOMAIN active
  BY DEF Kept
<1>5. ToSet(active') = { active[k] : k \in kept }
  BY <1>2, <1>3, <1>4, RemainingOfKept
<1>6. ASSUME NEW n \in ToSet(active') PROVE nodes'[n].S # 0
  <2>1. n \in ToSet(active) /\ n \in { active[k] : k \in kept }
    BY <1>4, <1>5, <1>6 DEF ToSet
  <2>2. nodes'[n].S = nodes[n].S
    BY <1>1, <1>2, <1>3, <2>1, MergedNode
  <2> QED BY <2>1, <2>2 DEF HaveStates
<1> QED BY <1>6 DEF HaveStates

LEMMA NoneMissingKept ==
  ASSUME IInv, NoneMissing, [Next]_vars
  PROVE  NoneMissing'
<1>1. job' = job
  BY DEF Next, vars, BeginPass, EndParse, TakeNode, ReduceEpsilon, ReducePaths, FlushGoto,
         FlushInitial, Free, Merge, Break
<1>2. G' = G /\ job \in Jobs
  BY <1>1, SameCall DEF IInv, Shapes
<1> SUFFICES ASSUME RulesLand(G), HaveStates(nodes, active)
             PROVE  HaveStates(nodes', active')
  BY <1>2 DEF NoneMissing
<1>3. CASE UNCHANGED <<nodes, active>>
  BY <1>3
<1>4. CASE TakeNode
  BY <1>4, TakeHasStates
<1>5. ASSUME NEW i \in reds, ReduceEpsilon(i)
      PROVE  HaveStates(nodes', active')
  <2> DEFINE S == nodes[cur].S
             N == NewNode(GotoOn(S, i.lhs), offset, i.lhs, cur, Reduced(i.lhs, <<>>))
  <2>1. Buried(nodes, active, cur) /\ i \in Reductions(S)
    BY <1>5 DEF IInv, Taking, ReduceEpsilon
  <2>2. S \in DOMAIN A.states
    BY <2>1 DEF IInv, Buried, StackRight, NodeRight
  <2>3. IsItem(G, i) /\ AtEnd(i) /\ i \in A.states[S] /\ AtStart(i)
    BY <1>2, <1>5, <2>1, <2>2, ReductionsAreItems DEF ReduceEpsilon
  <2>4. i.lhs # G.start
    <3>1. i.rhs \in G.rules[i.lhs] /\ Len(i.rhs) = 0 /\ i.lhs \in Tags(G)
      BY <2>3 DEF IsItem, AtEnd, AtStart
    <3>2. i.rhs \in Seq(Symbols(G))
      BY <1>2, <3>1, ThisCall DEF IsGrammar
    <3>3. i.rhs = <<>>
      BY <3>1, <3>2, EmptySeq
    <3> QED BY <3>1, <3>3 DEF RulesLand
  <2>5. GotoOn(S, i.lhs) # 0
    BY <1>2, <2>2, <2>3, <2>4, CallLands
  <2>6. nodes' = Append(nodes, N) /\ active' = Queued(active, NewIds(1))
    BY <1>5 DEF ReduceEpsilon
  <2>7. N.S # 0
    BY <2>5 DEF NewNode
  <2> HIDE DEF N, S
  <2> QED BY <2>6, <2>7, OneMoreHasState
<1>6. CASE FlushGoto
  <2> DEFINE p == Head(pend)
             S == GotoOn(nodes[p.tail].S, p.item.lhs)
             N == NewNode(S, offset, p.item.lhs, p.tail, Reduced(p.item.lhs, p.accum))
  <2>1. CASE S = 0
    BY <1>6, <2>1 DEF FlushGoto
  <2>2. CASE S # 0
    <3>1. nodes' = Append(nodes, N) /\ active' = Queued(active, NewIds(1))
      BY <1>6, <2>2 DEF FlushGoto
    <3>2. N.S # 0
      BY <2>2 DEF NewNode
    <3> HIDE DEF N
    <3> QED BY <3>1, <3>2, OneMoreHasState
  <2> QED BY <2>1, <2>2
<1>7. ASSUME NEW c \in Freeable, Free(c)
      PROVE  HaveStates(nodes', active')
  <2>1. /\ StackRight(A, nodes, active, offset) /\ InOrder(nodes, active)
        /\ nodes' = Freed(nodes, c) /\ active' = active
    BY <1>7 DEF IInv, Free
  <2>2. \A n \in DOMAIN nodes : nodes'[n].S = nodes[n].S
    BY <2>1, FreedRight
  <2>3. ToSet(active) \subseteq DOMAIN nodes
    BY <2>1, OrderFacts DEF StackRight
  <2> QED BY <2>1, <2>2, <2>3 DEF HaveStates
<1>8. CASE Merge
  BY <1>8, MergeHasStates
<1>9. CASE BeginPass \/ EndParse \/ FlushInitial \/ Break \/ UNCHANGED vars
  BY <1>3, <1>9 DEF BeginPass, EndParse, FlushInitial, Break, vars
<1>10. ASSUME NEW i \in reds, ReducePaths(i)
       PROVE  HaveStates(nodes', active')
  BY <1>3, <1>10 DEF ReducePaths
<1> QED BY <1>4, <1>5, <1>6, <1>7, <1>8, <1>9, <1>10 DEF Next
-----------------------------------------------------------------------------
(***************************************************************************)
(* What is read, by the grammar and the tokenizer alone: the least facts   *)
(*   <<x, l, f, t>> of W   the symbol x is read between f and t, as l      *)
(*   <<i, l, f, t>> of R   the rest of the item i is                       *)
(* such that a token is read where it stands or before, a rule where what  *)
(* it is made of ends or after, and the rest of a rule symbol by symbol.   *)
(* Text may be left out in between: white space is, and what this parser   *)
(* goes on without having read (lr.h:646).                                 *)
(***************************************************************************)
ClosedUnderReading(g, text, W, R) ==
  /\ \A x \in DOMAIN g.tokens : \A o \in 0 .. Len(text) : \A f \in 0 .. o :
       Found(g, text, o, x) # {} =>
         <<x, Production(g, text, o, x), f, o + Len(Recognized(g, text, o, x))>> \in W
  /\ \A i, t : IsItem(g, i) /\ AtEnd(i) => <<i, <<>>, t, t>> \in R
  /\ \A i, x, l, r, f, m, t :
       /\ IsItem(g, i) /\ ~ AtEnd(i) /\ x \in Moves(g, Symbol(i))
       /\ <<x, l, f, m>> \in W /\ <<Advance(i), r, m, t>> \in R
       => <<i, l \o r, f, t>> \in R
  /\ \A i, l, f : \A o \in 0 .. Len(text) : \A t \in 0 .. o :
       IsItem(g, i) /\ AtStart(i) /\ <<i, l, f, t>> \in R =>
         <<i.lhs, ReducedAt(g, o, i.lhs, l), f, o>> \in W

ReadAs(g, text, x, l, f, t) ==
  \A W, R : ClosedUnderReading(g, text, W, R) => <<x, l, f, t>> \in W

RestReadAs(g, text, i, l, f, t) ==
  \A W, R : ClosedUnderReading(g, text, W, R) => <<i, l, f, t>> \in R

LEMMA TokenRead ==
  ASSUME NEW g, NEW text, NEW x \in DOMAIN g.tokens, NEW o \in 0 .. Len(text), NEW f \in 0 .. o,
         Found(g, text, o, x) # {}
  PROVE  ReadAs(g, text, x, Production(g, text, o, x), f, o + Len(Recognized(g, text, o, x)))
<1> SUFFICES ASSUME NEW W, NEW R, ClosedUnderReading(g, text, W, R)
             PROVE  <<x, Production(g, text, o, x), f, o + Len(Recognized(g, text, o, x))>> \in W
  BY DEF ReadAs
<1> QED BY DEF ClosedUnderReading

LEMMA NothingLeft ==
  ASSUME NEW g, NEW text, NEW i, IsItem(g, i), AtEnd(i), NEW t
  PROVE  RestReadAs(g, text, i, <<>>, t, t)
BY DEF RestReadAs, ClosedUnderReading

LEMMA OneSymbolRead ==
  ASSUME NEW g, NEW text, NEW i, IsItem(g, i), ~ AtEnd(i), NEW x \in Moves(g, Symbol(i)),
         NEW l, NEW r, NEW f, NEW m, NEW t,
         ReadAs(g, text, x, l, f, m), RestReadAs(g, text, Advance(i), r, m, t)
  PROVE  RestReadAs(g, text, i, l \o r, f, t)
<1> SUFFICES ASSUME NEW W, NEW R, ClosedUnderReading(g, text, W, R)
             PROVE  <<i, l \o r, f, t>> \in R
  BY DEF RestReadAs
<1>1. <<x, l, f, m>> \in W /\ <<Advance(i), r, m, t>> \in R
  BY DEF ReadAs, RestReadAs
<1> QED BY <1>1, Zenon DEF ClosedUnderReading

LEMMA RuleRead ==
  ASSUME NEW g, NEW text, NEW i, IsItem(g, i), AtStart(i), NEW l, NEW f,
         NEW o \in 0 .. Len(text), NEW t \in 0 .. o, RestReadAs(g, text, i, l, f, t)
  PROVE  ReadAs(g, text, i.lhs, ReducedAt(g, o, i.lhs, l), f, o)
<1> SUFFICES ASSUME NEW W, NEW R, ClosedUnderReading(g, text, W, R)
             PROVE  <<i.lhs, ReducedAt(g, o, i.lhs, l), f, o>> \in W
  BY DEF ReadAs
<1>1. <<i, l, f, t>> \in R
  BY DEF RestReadAs
<1> QED BY <1>1, Zenon DEF ClosedUnderReading

LEMMA ReducedIsList ==
  ASSUME NEW g, NEW o, NEW t, NEW l, IsList(l)
  PROVE  IsList(ReducedAt(g, o, t, l))
<1>1. \/ ReducedAt(g, o, t, l) = l
      \/ \E x : ReducedAt(g, o, t, l) = << x >>
  BY DEF ReducedAt
<1>2. ASSUME NEW x PROVE IsList(<< x >>)
  BY OneList
<1> QED BY <1>1, <1>2

LEMMA ProductionIsList ==
  ASSUME NEW g, NEW text, NEW o, NEW x
  PROVE  IsList(Production(g, text, o, x))
BY OneList, NoList DEF Production

(***************************************************************************)
(* The parts of the invariant: what a list that lies in the stack was read *)
(* as, and between which offsets.                                          *)
(***************************************************************************)
EdgeRead(g, text, ns, n, e) ==
  /\ IsList(e.ast)
  /\ e.from # 0 => ReadAs(g, text, ns[n].P, e.ast, ns[e.from].O, ns[n].O)

EdgesRead(g, text, ns) ==
  \A n \in DOMAIN ns : \A k \in DOMAIN ns[n].preds : EdgeRead(g, text, ns, n, ns[n].preds[k])

WaysRead(g, text, ns, o, ps) ==
  \A k \in DOMAIN ps :
    /\ IsList(ps[k].accum)
    /\ \E t \in 0 .. o :
         RestReadAs(g, text, [ps[k].item EXCEPT !.dot = 0], ps[k].accum, ns[ps[k].tail].O, t)

TokensRead(g, text, t) ==
  \A x \in t.hits :
    Found(g, text, t.from, x) # {} /\ t.to = t.from + Len(Recognized(g, text, t.from, x))

AcceptedRead(g, text, trees) ==
  /\ IsList(trees)
  /\ \A k \in DOMAIN trees :
       \E l, f : ReadAs(g, text, g.start, l, f, Len(text)) /\ trees[k] \in ToSet(l)

AllRead ==
  /\ EdgesRead(G, Text, nodes)
  /\ WaysRead(G, Text, nodes, offset, pend)
  /\ TokensRead(G, Text, tok)
  /\ AcceptedRead(G, Text, accepted.trees)

ReadRight == ~ overlooked => AllRead

-----------------------------------------------------------------------------
LEMMA GrowRead ==
  ASSUME NEW T, NEW ns, NEW act, NEW o, StackRight(T, ns, act, o), NEW m \in DOMAIN ns,
         NEW g, NEW text, EdgesRead(g, text, ns), NEW new, IsList(new),
         \A k \in DOMAIN new : \A j \in DOMAIN new[k].preds :
           /\ new[k].preds[j].from = m /\ IsList(new[k].preds[j].ast)
           /\ ReadAs(g, text, new[k].P, new[k].preds[j].ast, ns[m].O, new[k].O),
         NEW ms, ms = Grown(ns, new)
  PROVE  EdgesRead(g, text, ms)
<1> DEFINE l == Len(ns)
           d == Len(new)
<1>1. /\ l \in Nat /\ DOMAIN ns = 1 .. l /\ d \in Nat /\ DOMAIN new = 1 .. d /\ IsList(ns)
  BY ListFacts DEF StackRight
<1>2. /\ DOMAIN ms = 1 .. l + d
      /\ \A n \in 1 .. l : ms[n] = ns[n]
      /\ \A k \in 1 .. d : ms[l + k] = new[k]
  BY <1>1, ConcatLists DEF Grown
<1> HIDE DEF l, d
<1> SUFFICES ASSUME NEW n \in DOMAIN ms, NEW k \in DOMAIN ms[n].preds
             PROVE  EdgeRead(g, text, ms, n, ms[n].preds[k])
  BY DEF EdgesRead
<1>3. CASE n <= l
  <2>1. n \in DOMAIN ns /\ ms[n] = ns[n]
    BY <1>1, <1>2, <1>3
  <2> DEFINE e == ns[n].preds[k]
  <2>2. EdgeRead(g, text, ns, n, e) /\ EdgeRight(T, ns, act, n, e.from)
    BY <2>1 DEF EdgesRead, StackRight, NodeRight
  <2> HIDE DEF e
  <2>3. e.from # 0 => ms[e.from] = ns[e.from]
    BY <1>1, <1>2, <2>2 DEF EdgeRight, Buried
  <2>4. EdgeRead(g, text, ms, n, e)
    BY <2>1, <2>2, <2>3 DEF EdgeRead
  <2> QED BY <2>1, <2>4 DEF e
<1>4. CASE n > l
  <2>1. n - l \in 1 .. d /\ n = l + (n - l)
    BY <1>1, <1>2, <1>4
  <2>2. n - l \in DOMAIN new /\ ms[n] = new[n - l] /\ ms[m] = ns[m]
    BY <1>1, <1>2, <2>1
  <2> QED BY <2>2 DEF EdgeRead
<1> QED BY <1>1, <1>2, <1>3, <1>4

LEMMA MergeRead ==
  ASSUME NEW T, NEW ns, NEW act, NEW o, StackRight(T, ns, act, o), InOrder(ns, act),
         NEW kept \in Kept(ns, act), NEW ms, ms = Merged(ns, act, kept),
         NEW g, NEW text, EdgesRead(g, text, ns)
  PROVE  EdgesRead(g, text, ms)
<1>1. DOMAIN ms = DOMAIN ns
  BY DEF Merged
<1>2. ASSUME NEW b, Buried(ns, act, b) PROVE ms[b] = ns[b]
  <2>1. PICK bct : bct = Remaining(act, kept)
    OBVIOUS
  <2> QED BY <1>2, <2>1, MergeRight
<1>3. ToSet(act) \subseteq DOMAIN ns
  BY OrderFacts DEF StackRight
<1> SUFFICES ASSUME NEW n \in DOMAIN ns, NEW k \in DOMAIN ms[n].preds
             PROVE  EdgeRead(g, text, ms, n, ms[n].preds[k])
  BY <1>1 DEF EdgesRead
<1>4. PICK e : e = ms[n].preds[k]
  OBVIOUS
<1>5. CASE n \notin ToSet(act)
  <2>1. ms[n] = ns[n]
    BY <1>5, MergedNode
  <2>2. EdgeRead(g, text, ns, n, e) /\ EdgeRight(T, ns, act, n, e.from)
    BY <1>4, <2>1 DEF EdgesRead, StackRight, NodeRight
  <2>3. e.from # 0 => ms[e.from] = ns[e.from]
    BY <1>2, <2>2 DEF EdgeRight
  <2> QED BY <1>4, <2>1, <2>2, <2>3 DEF EdgeRead
<1>6. CASE n \in ToSet(act)
  <2>1. MergedFrom(ns, act, n, ms[n])
    BY <1>6, MergedNode
  <2>2. PICK m \in {n} \cup ToSet(act) : \E j \in DOMAIN ns[m].preds :
          SameId(ns[m], ns[n]) /\ ms[n].preds[k] = ns[m].preds[j]
    BY <2>1 DEF MergedFrom
  <2>3. PICK j \in DOMAIN ns[m].preds : SameId(ns[m], ns[n]) /\ e = ns[m].preds[j]
    BY <1>4, <2>2
  <2>4. m \in DOMAIN ns
    BY <1>3, <1>6
  <2>5. EdgeRead(g, text, ns, m, e) /\ EdgeRight(T, ns, act, m, e.from)
    BY <2>3, <2>4 DEF EdgesRead, StackRight, NodeRight
  <2>6. e.from # 0 => ms[e.from] = ns[e.from]
    BY <1>2, <2>5 DEF EdgeRight
  <2>7. ms[n].P = ns[n].P /\ ms[n].O = ns[n].O
    BY <2>1 DEF MergedFrom
  <2> QED BY <1>4, <2>3, <2>5, <2>6, <2>7 DEF EdgeRead, SameId
<1> QED BY <1>5, <1>6

LEMMA FreedRead ==
  ASSUME NEW T, NEW ns, NEW act, NEW o, StackRight(T, ns, act, o), NEW c,
         NEW ms, ms = Freed(ns, c), NEW g, NEW text, EdgesRead(g, text, ns)
  PROVE  EdgesRead(g, text, ms)
<1>1. /\ DOMAIN ms = DOMAIN ns
      /\ \A n \in DOMAIN ns :
           ms[n].S = ns[n].S /\ ms[n].O = ns[n].O /\ ms[n].P = ns[n].P
  BY FreedRight
<1> SUFFICES ASSUME NEW n \in DOMAIN ns, NEW k \in DOMAIN ms[n].preds
             PROVE  EdgeRead(g, text, ms, n, ms[n].preds[k])
  BY <1>1 DEF EdgesRead
<1> DEFINE old == ns[n].preds
           ps == [ j \in DOMAIN old |-> Outlives(ns, old[j], c) ]
<1>2. ms[n] = [ns[n] EXCEPT !.preds = ps] /\ IsNode(ns[n])
  BY DEF Freed, StackRight, NodeRight
<1> HIDE DEF ps
<1>3. ms[n].preds = ps
  BY <1>2 DEF IsNode
<1>4. k \in DOMAIN old /\ ps[k] = Outlives(ns, old[k], c)
  BY <1>3 DEF ps
<1>5. PICK e : e = old[k]
  OBVIOUS
<1>6. EdgeRead(g, text, ns, n, e) /\ EdgeRight(T, ns, act, n, e.from) /\ IsEdge(e)
  BY <1>4, <1>5 DEF EdgesRead, StackRight, NodeRight
<1>7. ps[k].from = e.from /\ ps[k].ast = e.ast
  BY <1>4, <1>5, <1>6 DEF Outlives, IsEdge
<1>8. e.from # 0 => ms[e.from].O = ns[e.from].O
  BY <1>1, <1>6 DEF EdgeRight, Buried
<1>9. EdgeRead(g, text, ms, n, ps[k])
  BY <1>1, <1>6, <1>7, <1>8 DEF EdgeRead
<1> QED BY <1>3, <1>9

LEMMA WaysStillRead ==
  ASSUME NEW T, NEW g, NEW ns, NEW act, NEW ps, WaysRight(T, g, ns, act, ps), NEW text,
         NEW o \in Nat, WaysRead(g, text, ns, o, ps), NEW q \in Nat, o <= q,
         NEW ms, \A b : Buried(ns, act, b) => ms[b].O = ns[b].O
  PROVE  WaysRead(g, text, ms, q, ps)
<1>1. \A t \in 0 .. o : t \in 0 .. q
  OBVIOUS
<1> QED BY <1>1 DEF WaysRight, WaysRead

(***************************************************************************)
(* A way back, over k symbols more, reads one symbol more before the rest. *)
(***************************************************************************)
BackRead(g, text, ns, i, k, ways, t) ==
  \A q \in DOMAIN ways :
    /\ IsList(ways[q].accum)
    /\ RestReadAs(g, text, At(i, Len(i.rhs) - k), ways[q].accum, ns[ways[q].tail].O, t)

\* w is the way v with one symbol more: what lies on the j-th edge.
OneLonger(ns, v, j, w) ==
  /\ w.tail = ns[v.tail].preds[j].from
  /\ w.accum = ns[v.tail].preds[j].ast \o v.accum

LEMMA LongerParts ==
  ASSUME NEW ns, NEW ways, IsList(ways),
         \A q \in DOMAIN ways : IsList(ns[ways[q].tail].preds),
         NEW more, more = Longer(ns, ways), NEW p \in DOMAIN more
  PROVE  \E q \in DOMAIN ways : \E j \in DOMAIN ns[ways[q].tail].preds :
           OneLonger(ns, ways[q], j, more[p])
<1> DEFINE ss == [ q \in DOMAIN ways |-> Extended(ns, ways[q]) ]
<1>1. IsList(ss) /\ DOMAIN ss = DOMAIN ways
  <2>1. DOMAIN ways = 1 .. Len(ways) /\ Len(ways) \in Nat
    BY ListFacts
  <2>2. DOMAIN ss = 1 .. Len(ways) /\ ss = [q \in 1 .. Len(ways) |-> ss[q]]
    BY <2>1
  <2> HIDE DEF ss
  <2> QED BY <2>1, <2>2, ListOfFunction
<1>2. ASSUME NEW q \in DOMAIN ways
      PROVE  /\ IsList(ss[q]) /\ DOMAIN ss[q] = DOMAIN ns[ways[q].tail].preds
             /\ \A j \in DOMAIN ss[q] : OneLonger(ns, ways[q], j, ss[q][j])
  <2> DEFINE es == ns[ways[q].tail].preds
             w == ways[q]
  <2>1. ss[q] = [ j \in DOMAIN es |->
                    [tail |-> es[j].from, accum |-> es[j].ast \o w.accum, live |-> es[j].live /\ w.live] ]
    BY DEF Extended
  <2>2. DOMAIN es = 1 .. Len(es) /\ Len(es) \in Nat
    BY ListFacts
  <2> HIDE DEF ss, es, w
  <2>3. DOMAIN ss[q] = DOMAIN es
    BY <2>1
  <2>4. IsList(ss[q])
    <3>1. ss[q] = [j \in 1 .. Len(es) |-> ss[q][j]]
      BY <2>1, <2>2
    <3> QED BY <2>2, <2>3, <3>1, ListOfFunction
  <2>5. ASSUME NEW j \in DOMAIN es
        PROVE  OneLonger(ns, ways[q], j, ss[q][j])
    <3>1. ss[q][j] = [tail |-> es[j].from, accum |-> es[j].ast \o w.accum,
                      live |-> es[j].live /\ w.live]
      BY <2>1, <2>5, Zenon
    <3>2. PICK f, a, v : f = es[j].from /\ a = es[j].ast \o w.accum /\ v = (es[j].live /\ w.live)
      BY Zenon
    <3>3. ss[q][j] = [tail |-> f, accum |-> a, live |-> v]
      BY <3>1, <3>2, Zenon
    <3>4. ss[q][j].tail = f /\ ss[q][j].accum = a
      BY ONLY <3>3, SMT
    <3> QED BY <3>2, <3>4, Zenon DEF OneLonger, es, w
  <2> QED BY <2>3, <2>4, <2>5 DEF es, w
<1>3. Longer(ns, ways) = FlattenSeq(ss)
  BY DEF Longer
<1> HIDE DEF ss
<1>4. IsList(FlattenSeq(ss))
      /\ \A k \in DOMAIN FlattenSeq(ss) : \E q \in DOMAIN ss : \E j \in DOMAIN ss[q] :
           FlattenSeq(ss)[k] = ss[q][j]
  <2>1. \A q \in DOMAIN ss : IsList(ss[q])
    BY <1>1, <1>2
  <2> QED BY <1>1, <2>1, FlattenLists
<1>5. PICK q \in DOMAIN ways : \E j \in DOMAIN ss[q] : more[p] = ss[q][j]
  BY <1>1, <1>3, <1>4
<1>6. PICK j \in DOMAIN ss[q] : more[p] = ss[q][j]
  BY <1>5
<1> QED BY <1>2, <1>6

LEMMA LongerRead ==
  ASSUME NEW T, RunsBack(T), NEW g, MovesOverSymbols(g, T), NEW ns, NEW act, NEW o,
         StackRight(T, ns, act, o), NEW text, EdgesRead(g, text, ns),
         NEW i, IsItem(g, i), Len(i.rhs) \in Nat,
         NEW k \in Nat, k < Len(i.rhs), NEW ways, BackOver(T, ns, act, i, k, ways),
         NEW t, BackRead(g, text, ns, i, k, ways, t)
  PROVE  BackRead(g, text, ns, i, k + 1, Longer(ns, ways), t)
<1> DEFINE L == Len(i.rhs)
           more == Longer(ns, ways)
<1> SUFFICES ASSUME NEW p \in DOMAIN more
             PROVE  /\ IsList(more[p].accum)
                    /\ RestReadAs(g, text, At(i, L - (k + 1)), more[p].accum, ns[more[p].tail].O, t)
  BY DEF BackRead
<1>1. \A q \in DOMAIN ways : IsList(ns[ways[q].tail].preds)
  BY DEF BackOver, Buried, StackRight, NodeRight
<1>2. PICK q \in DOMAIN ways : \E j \in DOMAIN ns[ways[q].tail].preds :
         OneLonger(ns, ways[q], j, more[p])
  <2>1. IsList(ways)
    BY DEF BackOver
  <2> QED BY ONLY <1>1, <2>1, LongerParts DEF more
<1>3. PICK j \in DOMAIN ns[ways[q].tail].preds :
         OneLonger(ns, ways[q], j, more[p])
  BY <1>2
<1>4. PICK n, e : n = ways[q].tail /\ e = ns[n].preds[j]
  OBVIOUS
<1>5. n \in DOMAIN ns /\ ns[n].S # 0 /\ NodeRight(T, ns, act, o, n)
      /\ At(i, L - k) \in T.states[ns[n].S]
  BY <1>4 DEF BackOver, Buried, StackRight
<1>6. EdgeRight(T, ns, act, n, e.from) /\ EdgeRead(g, text, ns, n, e)
  BY <1>3, <1>4, <1>5 DEF NodeRight, EdgesRead
<1>7. Retreat(At(i, L - k)) = At(i, L - (k + 1)) /\ At(i, L - k).dot # 0
      /\ Advance(At(i, L - (k + 1))) = At(i, L - k) /\ IsItem(g, At(i, L - (k + 1)))
  <2>1. PICK l, r, d : i = [lhs |-> l, rhs |-> r, dot |-> d] /\ L = Len(r)
                       /\ l \in Tags(g) /\ r \in g.rules[l]
    BY DEF IsItem
  <2>2. PICK m \in Nat : m = L - (k + 1) /\ m + 1 = L - k /\ m \in 0 .. L
    <3>1. L - (k + 1) \in Nat /\ (L - (k + 1)) + 1 = L - k /\ L - (k + 1) \in 0 .. L
      OBVIOUS
    <3> QED BY <3>1
  <2>3. At(i, L - k) = [lhs |-> l, rhs |-> r, dot |-> m + 1]
        /\ At(i, L - (k + 1)) = [lhs |-> l, rhs |-> r, dot |-> m]
    BY <2>1, <2>2 DEF At
  <2>4. (m + 1) - 1 = m /\ m + 1 # 0
    BY <2>2
  <2> HIDE DEF L
  <2>5. Retreat(At(i, L - k)) = At(i, L - (k + 1)) /\ At(i, L - k).dot # 0
    BY <2>3, <2>4 DEF Retreat
  <2>6. Advance(At(i, L - (k + 1))) = At(i, L - k)
    BY <2>3 DEF Advance
  <2>7. IsItem(g, At(i, L - (k + 1)))
    BY <2>1, <2>2, <2>3 DEF IsItem
  <2> QED BY <2>5, <2>6, <2>7
<1> HIDE DEF L, more
<1>8. e.from # 0
  BY <1>5, <1>6, <1>7 DEF EdgeRight, RunsBack
<1>9. ns[e.from].S \in DOMAIN T.states /\ Goes(T, ns[e.from].S, ns[n].P) = ns[n].S
  BY <1>6, <1>8 DEF EdgeRight, StackRight, NodeRight, Buried
<1>10. ns[n].P \in DOMAIN T.trans[ns[e.from].S] /\ T.trans[ns[e.from].S][ns[n].P] = ns[n].S
  BY <1>5, <1>9 DEF Goes
<1>11. ~ AtEnd(At(i, L - (k + 1))) /\ ns[n].P \in Moves(g, Symbol(At(i, L - (k + 1))))
  BY <1>5, <1>7, <1>9, <1>10 DEF MovesOverSymbols
<1>12. /\ IsList(e.ast) /\ ReadAs(g, text, ns[n].P, e.ast, ns[e.from].O, ns[n].O)
       /\ IsList(ways[q].accum) /\ RestReadAs(g, text, At(i, L - k), ways[q].accum, ns[n].O, t)
  BY <1>4, <1>6, <1>8 DEF EdgeRead, BackRead, L
<1>13. RestReadAs(g, text, At(i, L - (k + 1)), e.ast \o ways[q].accum, ns[e.from].O, t)
  BY <1>7, <1>11, <1>12, OneSymbolRead
<1>14. IsList(e.ast \o ways[q].accum)
  BY <1>12, ConcatLists
<1>15. more[p].tail = e.from /\ more[p].accum = e.ast \o ways[q].accum
  BY <1>3, <1>4, Zenon DEF OneLonger
<1> QED BY <1>13, <1>14, <1>15

LEMMA WaysReadBack ==
  ASSUME NEW T, RunsBack(T), NEW g, MovesOverSymbols(g, T), NEW ns, NEW act, NEW o,
         StackRight(T, ns, act, o), NEW text, EdgesRead(g, text, ns),
         NEW i, IsItem(g, i), Len(i.rhs) \in Nat, i.dot = Len(i.rhs),
         NEW n, Buried(ns, act, n), i \in T.states[ns[n].S]
  PROVE  BackRead(g, text, ns, i, Len(i.rhs), Paths(ns, n, Len(i.rhs)), ns[n].O)
<1> DEFINE L == Len(i.rhs)
<1>1. PICK walk : WalksBack(ns, n, L, walk) /\ Paths(ns, n, L) = walk[L]
  BY WalkExists
<1>2. \A k \in 0 .. L : BackOver(T, ns, act, i, k, walk[k])
  BY <1>1, WaysBackOver
<1> DEFINE K == { k \in Nat : k <= L => BackRead(g, text, ns, i, k, walk[k], ns[n].O) }
<1>3. ASSUME NEW k \in Nat, \A l \in Nat : l < k => l \in K PROVE k \in K
  <2> SUFFICES ASSUME k <= L PROVE BackRead(g, text, ns, i, k, walk[k], ns[n].O)
    OBVIOUS
  <2>1. CASE k = 0
    <3> DEFINE none == <<>>
               w == [tail |-> n, accum |-> none, live |-> TRUE]
    <3>1. PICK v : v = walk[0]
      OBVIOUS
    <3>2. w.tail = n /\ w.accum = none /\ v = << w >>
      BY <1>1, <3>1 DEF WalksBack
    <3>3. IsList(none) /\ RestReadAs(g, text, i, none, ns[n].O, ns[n].O)
      BY NoList, NothingLeft DEF AtEnd
    <3> HIDE DEF w, none
    <3>4. DOMAIN v = {1} /\ v[1] = w
      <4>1. << w >>[1] = w /\ DOMAIN << w >> = {1}
        BY OneList
      <4> QED BY <3>2, <4>1
    <3>5. At(i, L - k) = i
      <4>1. PICK l, r, d : i = [lhs |-> l, rhs |-> r, dot |-> d]
        BY DEF IsItem
      <4>2. L - k = d
        BY <2>1, <4>1
      <4> QED BY <4>1, <4>2 DEF At
    <3>6. BackRead(g, text, ns, i, k, v, ns[n].O)
      BY <3>2, <3>3, <3>4, <3>5 DEF BackRead
    <3> QED BY <2>1, <3>1, <3>6
  <2>2. CASE k # 0
    <3>1. PICK j \in Nat : j = k - 1 /\ j + 1 = k /\ j < k /\ j < L
      BY <2>2
    <3>2. BackRead(g, text, ns, i, j, walk[j], ns[n].O) /\ BackOver(T, ns, act, i, j, walk[j])
      BY <1>2, <1>3, <3>1
    <3>3. BackRead(g, text, ns, i, j + 1, Longer(ns, walk[j]), ns[n].O)
      BY <3>1, <3>2, LongerRead
    <3>4. walk[k] = Longer(ns, walk[j])
      BY <1>1, <2>2, <3>1 DEF WalksBack
    <3> QED BY <3>1, <3>3, <3>4
  <2> QED BY <2>1, <2>2
<1>4. Nat \subseteq K
  <2> HIDE DEF K
  <2> QED BY <1>3, SetInduction
<1>5. L \in K
  BY <1>4
<1> QED BY <1>1, <1>5

-----------------------------------------------------------------------------
(***************************************************************************)
(* What was read holds when the call begins, and as long as no twin was    *)
(* missed, each step preserves it.                                         *)
(***************************************************************************)
LEMMA SameText ==
  ASSUME job' = job
  PROVE  A' = A /\ G' = G /\ Text' = Text /\ Size' = Size
BY SameCall DEF Text

LEMMA InitRead ==
  ASSUME Init
  PROVE  AllRead
<1> DEFINE root == NewNode(1, 0, "", 0, <<>>)
           e == Edge(0, <<>>)
<1>1. root.preds = << e >> /\ e.from = 0 /\ e.ast = <<>>
  BY DEF NewNode, Edge
<1> HIDE DEF root, e
<1>2. << e >>[1] = e /\ DOMAIN << e >> = {1} /\ << root >>[1] = root /\ DOMAIN << root >> = {1}
  BY OneList
<1>3. PICK ns : ns = << root >> /\ ns = nodes
  BY DEF Init, root
<1>4. EdgesRead(G, Text, ns)
  BY <1>1, <1>2, <1>3, NoList DEF EdgesRead, EdgeRead
<1>5. WaysRead(G, Text, nodes, offset, pend)
  BY NoList DEF Init, WaysRead
<1>6. TokensRead(G, Text, tok)
  BY DEF Init, TokensRead
<1>7. AcceptedRead(G, Text, accepted.trees)
  <2>1. accepted.trees = <<>>
    BY DEF Init, NoTree
  <2> QED BY <2>1, NoList DEF AcceptedRead
<1> QED BY <1>3, <1>4, <1>5, <1>6, <1>7 DEF AllRead

LEMMA BeginPassRead ==
  ASSUME IInv, AllRead, BeginPass
  PROVE  AllRead'
<1> DEFINE X == UNION { TokensOf(nodes[n].S) : n \in ToSet(active) }
           to == Consumed(G, Text, offset, X)
<1>1. /\ tok' = [ asked |-> X, hits |-> Results(G, Text, offset, X), from |-> offset, to |-> to ]
      /\ job' = job /\ nodes' = nodes /\ pend' = pend /\ accepted' = NoTree
  BY DEF BeginPass
<1>2. G' = G /\ Text' = Text
  BY <1>1, SameText
<1> HIDE DEF X
<1>3. EdgesRead(G, Text, nodes')
  BY <1>1 DEF AllRead
<1>4. TokensRead(G, Text, tok')
  BY <1>1 DEF TokensRead, Results
<1>5. AcceptedRead(G, Text, accepted'.trees)
  <2>1. accepted'.trees = <<>>
    BY <1>1 DEF NoTree
  <2> QED BY <2>1, NoList DEF AcceptedRead
<1>6. WaysRead(G, Text, nodes, offset', pend)
  <2>1. WaysRight(A, G, nodes, active, pend) /\ WaysRead(G, Text, nodes, offset, pend)
    BY DEF IInv, AllRead
  <2>2. offset \in Nat /\ offset' \in Nat /\ offset <= offset'
    <3>1. Shapes /\ Shapes' /\ Size' = Size /\ Size \in Nat
      BY <1>1, BeginPassRight, ThisCall, SameText DEF IInv, Shapes
    <3>2. tok'.from <= tok'.to /\ tok'.to <= offset' /\ tok'.from = offset /\ tok'.to \in Nat
      BY <1>1, <3>1 DEF Shapes
    <3>3. offset \in Nat /\ offset' \in Nat
      BY <3>1 DEF Shapes
    <3> QED BY <3>2, <3>3
  <2> QED BY <2>1, <2>2, WaysStillRead
<1> QED BY <1>1, <1>2, <1>3, <1>4, <1>5, <1>6 DEF AllRead

LEMMA TakeNodeRead ==
  ASSUME IInv, AllRead, ~ overlooked, TakeNode
  PROVE  AllRead'
<1> DEFINE n == Head(active)
           S == nodes[n].S
           rest == Tail(active)
<1>1. /\ job \in Jobs /\ Size \in Nat /\ phase = "node" /\ active # <<>> /\ S # 0
      /\ job' = job /\ UNCHANGED <<offset, tok, pend, accepted>>
      /\ A' = A /\ G' = G /\ Text' = Text
      /\ StackRight(A, nodes, active, offset) /\ InOrder(nodes, active)
  BY ThisCall, SameText DEF IInv, Shapes, TakeNode
<1>2. PICK syms :
        /\ IsList(syms) /\ ToSet(syms) \subseteq TokensOf(S) \cap tok.hits
        /\ DOMAIN ShiftOver(n, syms) = DOMAIN syms /\ IsList(ShiftOver(n, syms))
        /\ nodes' = Grown(nodes, ShiftOver(n, syms))
  BY TokensTaken
<1> DEFINE new == ShiftOver(n, syms)
<1>3. n = active[1] /\ n \in DOMAIN nodes
  BY <1>1, TakeRight DEF Buried
<1>4. nodes[n].O \in 0 .. tok.from
  <2>1. Waiting(A, DOMAIN G.tokens, nodes, active, left, tok) /\ left \in Nat /\ left # 0
    BY <1>1 DEF IInv, Passing
  <2>2. nodes[n].O <= tok.from
    BY <1>3, <2>1 DEF Waiting
  <2>3. nodes[n].O \in 0 .. offset /\ tok.from \in Nat
    BY <1>1, <1>3 DEF IInv, Shapes, StackRight, NodeRight
  <2> QED BY <2>2, <2>3
<1>5. tok.from \in 0 .. Len(Text)
  <2>1. Size = Len(Text) /\ offset \in 0 .. Size /\ tok.from \in Nat /\ tok.to \in Nat
        /\ tok.from <= tok.to /\ tok.to <= offset
    BY DEF IInv, Shapes, Size, Text
  <2> QED BY <1>1, <2>1
<1>6. ASSUME NEW k \in DOMAIN new, NEW j \in DOMAIN new[k].preds
      PROVE  /\ new[k].preds[j].from = n /\ IsList(new[k].preds[j].ast)
             /\ ReadAs(G, Text, new[k].P, new[k].preds[j].ast, nodes[n].O, new[k].O)
  <2> DEFINE x == syms[k]
             ast == Production(G, Text, tok.from, x)
             e == Edge(n, ast)
  <2>1. x \in tok.hits /\ x \in DOMAIN G.tokens
    BY <1>2, <1>6 DEF ToSet, TokensOf
  <2>2. /\ Found(G, Text, tok.from, x) # {}
        /\ tok.to = tok.from + Len(Recognized(G, Text, tok.from, x))
    BY <2>1 DEF AllRead, TokensRead
  <2>3. ReadAs(G, Text, x, ast, nodes[n].O, tok.to)
    <3>1. PICK o, f : o = tok.from /\ f = nodes[n].O
      OBVIOUS
    <3> HIDE DEF x
    <3>2. ReadAs(G, Text, x, Production(G, Text, o, x), f, o + Len(Recognized(G, Text, o, x)))
      BY <1>4, <1>5, <2>1, <2>2, <3>1, TokenRead
    <3> QED BY <2>2, <3>1, <3>2
  <2>4. IsList(ast)
    BY ProductionIsList
  <2>5. new[k] = NewNode(GotoOn(S, x), tok.to, x, n, ast)
    BY <1>2, <1>6 DEF ShiftOver
  <2> HIDE DEF new, x, ast
  <2>6. new[k].preds = << e >> /\ new[k].P = x /\ new[k].O = tok.to
    BY <2>5 DEF NewNode
  <2>7. e.from = n /\ e.ast = ast
    BY DEF Edge
  <2> HIDE DEF e
  <2>8. << e >>[1] = e /\ DOMAIN << e >> = {1}
    BY OneList
  <2>9. j = 1 /\ new[k].preds[j] = e
    BY <1>6, <2>6, <2>8
  <2> QED BY <2>3, <2>4, <2>6, <2>7, <2>9
<1> HIDE DEF new, n
<1>7. EdgesRead(G, Text, nodes')
  <2>1. EdgesRead(G, Text, nodes) /\ IsList(new) /\ nodes' = Grown(nodes, new)
    BY <1>2 DEF AllRead, new
  <2> QED BY <1>1, <1>3, <1>6, <2>1, GrowRead
<1>8. WaysRead(G, Text, nodes', offset, pend)
  <2>1. ASSUME NEW b, Buried(nodes, active, b) PROVE nodes'[b].O = nodes[b].O
    <3>1. IsList(nodes) /\ IsList(new) /\ b \in DOMAIN nodes /\ nodes' = nodes \o new
      BY <1>1, <1>2, <2>1 DEF Buried, StackRight, Grown, new
    <3>2. DOMAIN nodes = 1 .. Len(nodes)
      BY <3>1, ListFacts
    <3> QED BY <3>1, <3>2, ConcatLists
  <2>2. WaysRight(A, G, nodes, active, pend) /\ WaysRead(G, Text, nodes, offset, pend)
        /\ offset \in Nat /\ offset <= offset
    BY <1>1 DEF IInv, AllRead, Shapes
  <2> QED BY <2>1, <2>2, WaysStillRead
<1> QED BY <1>1, <1>7, <1>8 DEF AllRead

\* A node more, over m, for a rule that was read since m was shifted.
LEMMA OneMoreRead ==
  ASSUME IInv, EdgesRead(G, Text, nodes), phase = "reduce",
         NEW m, Buried(nodes, active, m), NEW x, NEW ast, IsList(ast), NEW S,
         ReadAs(G, Text, x, ast, nodes[m].O, offset),
         nodes' = Append(nodes, NewNode(S, offset, x, m, ast))
  PROVE  /\ EdgesRead(G, Text, nodes')
         /\ \A b : Buried(nodes, active, b) => nodes'[b] = nodes[b]
<1> DEFINE N == NewNode(S, offset, x, m, ast)
           e == Edge(m, ast)
<1>1. N.preds = << e >> /\ N.P = x /\ N.O = offset /\ e.from = m /\ e.ast = ast
  BY DEF NewNode, Edge
<1>2. nodes' = Append(nodes, N)
  OBVIOUS
<1> HIDE DEF N, e
<1>3. << e >>[1] = e /\ DOMAIN << e >> = {1}
  BY OneList
<1>4. PICK new : new = << N >> /\ IsList(new) /\ new[1] = N /\ DOMAIN new = {1}
  <2>1. IsList(<< N >>) /\ << N >>[1] = N /\ DOMAIN << N >> = {1}
    BY OneList
  <2> QED BY <2>1
<1>5. StackRight(A, nodes, active, offset) /\ m \in DOMAIN nodes /\ IsList(nodes)
  BY DEF IInv, Buried, StackRight
<1>6. nodes' = Grown(nodes, new)
  BY <1>2, <1>4, <1>5, AppendedIsConcat DEF Grown
<1>7. \A k \in DOMAIN new : \A j \in DOMAIN new[k].preds :
           /\ new[k].preds[j].from = m /\ IsList(new[k].preds[j].ast)
           /\ ReadAs(G, Text, new[k].P, new[k].preds[j].ast, nodes[m].O, new[k].O)
  BY <1>1, <1>3, <1>4
<1>8. EdgesRead(G, Text, nodes')
  BY <1>4, <1>5, <1>6, <1>7, GrowRead
<1>9. ASSUME NEW b, Buried(nodes, active, b) PROVE nodes'[b] = nodes[b]
  <2>1. b \in 1 .. Len(nodes)
    BY <1>5, <1>9, ListFacts DEF Buried
  <2> QED BY <1>4, <1>5, <1>6, <2>1, ConcatLists DEF Grown
<1> QED BY <1>8, <1>9

LEMMA ReduceEpsilonRead ==
  ASSUME IInv, AllRead, NEW i \in reds, ReduceEpsilon(i)
  PROVE  AllRead'
<1>1. /\ job \in Jobs /\ Size \in Nat /\ phase = "reduce" /\ AtStart(i)
      /\ job' = job /\ UNCHANGED <<offset, tok, pend, accepted>>
      /\ A' = A /\ G' = G /\ Text' = Text
  BY ThisCall, SameText DEF IInv, Shapes, ReduceEpsilon
<1>2. Buried(nodes, active, cur)
  BY <1>1 DEF IInv, Taking
<1>3. IsItem(G, i) /\ AtEnd(i)
  BY DEF IInv, Shapes
<1>4. offset \in 0 .. Len(Text) /\ nodes[cur].O \in 0 .. offset /\ offset \in Nat
  BY <1>1, <1>2 DEF IInv, Shapes, Size, Text, Buried, StackRight, NodeRight
<1> DEFINE none == <<>>
           ast == ReducedAt(G, offset, i.lhs, none)
<1>5. RestReadAs(G, Text, i, none, nodes[cur].O, nodes[cur].O) /\ IsList(none)
  BY <1>3, NothingLeft, NoList
<1>6. nodes' = Append(nodes, NewNode(GotoOn(nodes[cur].S, i.lhs), offset, i.lhs, cur, ast))
  BY DEF ReduceEpsilon, Reduced
<1> HIDE DEF none
<1>7. IsList(ast)
  BY <1>5, ReducedIsList
<1>8. ReadAs(G, Text, i.lhs, ast, nodes[cur].O, offset)
  <2>1. PICK o, t : o = offset /\ t = nodes[cur].O
    OBVIOUS
  <2>2. ReadAs(G, Text, i.lhs, ReducedAt(G, o, i.lhs, none), t, o)
    BY <1>1, <1>3, <1>4, <1>5, <2>1, RuleRead
  <2> QED BY <2>1, <2>2
<1> HIDE DEF ast
<1>9. /\ EdgesRead(G, Text, nodes')
      /\ \A b : Buried(nodes, active, b) => nodes'[b] = nodes[b]
  <2>1. EdgesRead(G, Text, nodes)
    BY DEF AllRead
  <2> QED BY <1>1, <1>2, <1>6, <1>7, <1>8, <2>1, OneMoreRead
<1>10. WaysRead(G, Text, nodes', offset, pend)
  <2>1. WaysRight(A, G, nodes, active, pend) /\ WaysRead(G, Text, nodes, offset, pend)
        /\ offset <= offset
    BY <1>4 DEF IInv, AllRead
  <2> QED BY <1>4, <1>9, <2>1, WaysStillRead
<1> QED BY <1>1, <1>9, <1>10 DEF AllRead

\* What is committed first was read, as its rule, up to where the text is consumed.
LEMMA FirstWayRead ==
  ASSUME NEW T, NEW g, IsGrammar(g), NEW ns, NEW act, NEW ps, WaysRight(T, g, ns, act, ps), ps # <<>>,
         NEW text, NEW o \in 0 .. Len(text), WaysRead(g, text, ns, o, ps),
         NEW p, p = Head(ps), NEW out, out = ReducedAt(g, o, p.item.lhs, p.accum)
  PROVE  /\ IsList(p.accum) /\ IsList(out)
         /\ ReadAs(g, text, p.item.lhs, out, ns[p.tail].O, o)
         /\ WaysRead(g, text, ns, o, Tail(ps))
<1>1. ps \in Seq(ToSet(ps)) /\ DOMAIN ps = 1 .. Len(ps) /\ Len(ps) \in Nat /\ Len(ps) # 0
  BY ListFacts DEF WaysRight, IsList
<1>2. Head(ps) = ps[1] /\ 1 \in DOMAIN ps
  BY <1>1
<1>3. /\ Tail(ps) \in Seq(ToSet(ps)) /\ Len(Tail(ps)) = Len(ps) - 1
      /\ \A k \in 1 .. Len(ps) - 1 : Tail(ps)[k] = ps[k + 1]
  BY <1>1, HeadTailProperties
<1>4. DOMAIN Tail(ps) = 1 .. Len(ps) - 1
  BY <1>3, LenProperties
<1>5. \A k \in DOMAIN Tail(ps) : k + 1 \in DOMAIN ps /\ Tail(ps)[k] = ps[k + 1]
  BY <1>1, <1>3, <1>4
<1>6. WaysRead(g, text, ns, o, Tail(ps))
  BY <1>5 DEF WaysRead
<1>7. IsItem(g, p.item) /\ IsList(p.accum)
  BY <1>2 DEF WaysRight, WaysRead
<1>8. PICK i : i = [p.item EXCEPT !.dot = 0]
  OBVIOUS
<1>9. IsItem(g, i) /\ AtStart(i) /\ i.lhs = p.item.lhs
  <2>1. PICK l, r, d : p.item = [lhs |-> l, rhs |-> r, dot |-> d] /\ l \in Tags(g) /\ r \in g.rules[l]
                       /\ d \in 0 .. Len(r)
    BY <1>7 DEF IsItem
  <2>2. i = [lhs |-> l, rhs |-> r, dot |-> 0]
    BY <1>8, <2>1
  <2>3. 0 \in 0 .. Len(r)
    <3>1. r \in Seq(Symbols(g))
      BY <2>1 DEF IsGrammar
    <3>2. Len(r) \in Nat
      BY <3>1, LenProperties
    <3> QED BY <3>2
  <2> QED BY <2>1, <2>2, <2>3 DEF IsItem, AtStart
<1>10. PICK t \in 0 .. o : RestReadAs(g, text, i, p.accum, ns[p.tail].O, t)
  BY <1>2, <1>8 DEF WaysRead
<1>11. ReadAs(g, text, i.lhs, ReducedAt(g, o, i.lhs, p.accum), ns[p.tail].O, o)
  BY <1>9, <1>10, RuleRead
<1> QED BY <1>6, <1>7, <1>9, <1>11, ReducedIsList

LEMMA FlushGotoRead ==
  ASSUME IInv, AllRead, FlushGoto
  PROVE  AllRead'
<1> DEFINE q == Head(pend)
<1>1. /\ job \in Jobs /\ Size \in Nat /\ IsGrammar(G) /\ phase = "reduce"
      /\ pend # <<>> /\ pend' = Tail(pend)
      /\ job' = job /\ UNCHANGED <<offset, tok, accepted>>
      /\ A' = A /\ G' = G /\ Text' = Text
  BY ThisCall, SameText DEF IInv, Shapes, FlushGoto, Flushing
<1>2. Buried(nodes, active, q.tail) /\ WaysRight(A, G, nodes, active, Tail(pend))
  BY <1>1, FirstWay DEF IInv
<1>3. offset \in 0 .. Len(Text) /\ offset \in Nat
  BY <1>1 DEF IInv, Shapes, Size, Text
<1>4. PICK p, out : p = q /\ out = ReducedAt(G, offset, p.item.lhs, p.accum)
  OBVIOUS
<1>5. /\ IsList(out)
      /\ ReadAs(G, Text, p.item.lhs, out, nodes[p.tail].O, offset)
      /\ WaysRead(G, Text, nodes, offset, Tail(pend))
  <2>1. WaysRight(A, G, nodes, active, pend) /\ WaysRead(G, Text, nodes, offset, pend)
    BY DEF IInv, AllRead
  <2> QED BY <1>1, <1>3, <1>4, <2>1, FirstWayRead
<1>6. /\ EdgesRead(G, Text, nodes')
      /\ \A b : Buried(nodes, active, b) => nodes'[b] = nodes[b]
  <2>1. EdgesRead(G, Text, nodes)
    BY DEF AllRead
  <2>2. CASE nodes' = nodes
    BY <2>1, <2>2
  <2>3. ASSUME NEW S, nodes' = Append(nodes, NewNode(S, offset, p.item.lhs, p.tail, out))
        PROVE  /\ EdgesRead(G, Text, nodes')
               /\ \A b : Buried(nodes, active, b) => nodes'[b] = nodes[b]
    <3>1. PICK m, x : m = p.tail /\ x = p.item.lhs
      OBVIOUS
    <3> QED BY <1>1, <1>2, <1>4, <1>5, <2>1, <2>3, <3>1, OneMoreRead
  <2>4. nodes' = nodes \/ \E S : nodes' = Append(nodes, NewNode(S, offset, p.item.lhs, p.tail, out))
    BY <1>4 DEF FlushGoto, Reduced
  <2> QED BY <2>2, <2>3, <2>4
<1>7. WaysRead(G, Text, nodes', offset, Tail(pend))
  <2>1. offset <= offset
    BY <1>3
  <2> QED BY <1>2, <1>3, <1>5, <1>6, <2>1, WaysStillRead
<1> QED BY <1>1, <1>6, <1>7 DEF AllRead

LEMMA ReducePathsRead ==
  ASSUME IInv, AllRead, NEW i \in reds, ReducePaths(i)
  PROVE  AllRead'
<1> DEFINE ways == Paths(nodes, cur, Len(i.rhs))
           more == [ k \in DOMAIN ways |->
                       [item |-> i, tail |-> ways[k].tail, accum |-> ways[k].accum] ]
<1>1. /\ job \in Jobs /\ Size \in Nat /\ phase = "reduce" /\ pend' = pend \o more
      /\ job' = job /\ UNCHANGED <<nodes, offset, tok, accepted>>
      /\ A' = A /\ G' = G /\ Text' = Text
  BY ThisCall, SameText DEF IInv, Shapes, ReducePaths
<1> HIDE DEF ways
<1>2. Buried(nodes, active, cur) /\ i \in Reductions(nodes[cur].S)
  BY <1>1 DEF IInv, Taking
<1>3. nodes[cur].S \in DOMAIN A.states /\ nodes[cur].O \in 0 .. offset
  BY <1>2 DEF IInv, Buried, StackRight, NodeRight
<1>4. /\ IsItem(G, i) /\ AtEnd(i) /\ Len(i.rhs) \in Nat /\ i.dot = Len(i.rhs)
      /\ i \in A.states[nodes[cur].S]
  BY <1>1, <1>2, <1>3, ReductionsAreItems
<1>5. BackRead(G, Text, nodes, i, Len(i.rhs), ways, nodes[cur].O) /\ IsList(ways)
  <2>1. RunsBack(A) /\ MovesOverSymbols(G, A) /\ StackRight(A, nodes, active, offset)
        /\ EdgesRead(G, Text, nodes)
    BY <1>1, ThisCall DEF IInv, AllRead
  <2>2. BackOver(A, nodes, active, i, Len(i.rhs), ways)
    BY <1>2, <1>4, <2>1, WaysBack DEF ways
  <2> QED BY <1>2, <1>4, <2>1, <2>2, WaysReadBack DEF ways, BackOver
<1>6. At(i, Len(i.rhs) - Len(i.rhs)) = [i EXCEPT !.dot = 0]
  <2>1. Len(i.rhs) - Len(i.rhs) = 0
    BY <1>4
  <2> QED BY <2>1 DEF At
<1>7. IsList(more) /\ DOMAIN more = DOMAIN ways
  <2>1. DOMAIN ways = 1 .. Len(ways) /\ Len(ways) \in Nat
    BY <1>5, ListFacts
  <2>2. DOMAIN more = 1 .. Len(ways) /\ more = [k \in 1 .. Len(ways) |-> more[k]]
    BY <2>1
  <2> HIDE DEF more
  <2> QED BY <2>1, <2>2, ListOfFunction
<1>8. ASSUME NEW k \in DOMAIN more
      PROVE  /\ IsList(more[k].accum)
             /\ \E t \in 0 .. offset :
                  RestReadAs(G, Text, [more[k].item EXCEPT !.dot = 0], more[k].accum,
                             nodes[more[k].tail].O, t)
  <2>1. k \in DOMAIN ways /\ more[k].item = i /\ more[k].tail = ways[k].tail
        /\ more[k].accum = ways[k].accum
    BY <1>7
  <2> HIDE DEF more
  <2>2. /\ IsList(ways[k].accum)
        /\ RestReadAs(G, Text, [i EXCEPT !.dot = 0], ways[k].accum, nodes[ways[k].tail].O, nodes[cur].O)
    BY <1>5, <1>6, <2>1 DEF BackRead
  <2> QED BY <1>3, <2>1, <2>2
<1> HIDE DEF more
<1>9. WaysRead(G, Text, nodes, offset, pend')
  <2>1. WaysRead(G, Text, nodes, offset, pend) /\ IsList(pend)
    BY DEF IInv, AllRead, WaysRight
  <2>2. PICK ps : ps = pend' /\ ps = pend \o more
    BY <1>1
  <2>3. \A k \in DOMAIN ps :
          (\E j \in DOMAIN pend : ps[k] = pend[j]) \/ (\E j \in DOMAIN more : ps[k] = more[j])
    BY <1>7, <2>1, <2>2, FromEither
  <2>4. WaysRead(G, Text, nodes, offset, ps)
    BY <1>8, <2>1, <2>3 DEF WaysRead
  <2> QED BY <2>2, <2>4
<1> QED BY <1>1, <1>9 DEF AllRead

LEMMA FlushInitialRead ==
  ASSUME IInv, AllRead, FlushInitial
  PROVE  AllRead'
<1>1. /\ job \in Jobs /\ Size \in Nat /\ IsGrammar(G) /\ pend # <<>> /\ pend' = Tail(pend)
      /\ job' = job /\ UNCHANGED <<nodes, offset, tok>>
      /\ A' = A /\ G' = G /\ Text' = Text
  BY ThisCall, SameText DEF IInv, Shapes, FlushInitial, Flushing
<1>2. offset \in 0 .. Len(Text)
  BY <1>1 DEF IInv, Shapes, Size, Text
<1>3. PICK p, out : p = Head(pend) /\ out = ReducedAt(G, offset, p.item.lhs, p.accum)
  OBVIOUS
<1>4. /\ IsList(out)
      /\ ReadAs(G, Text, p.item.lhs, out, nodes[p.tail].O, offset)
      /\ WaysRead(G, Text, nodes, offset, Tail(pend))
  <2>1. WaysRight(A, G, nodes, active, pend) /\ WaysRead(G, Text, nodes, offset, pend)
    BY DEF IInv, AllRead
  <2> QED BY <1>1, <1>2, <1>3, <2>1, FirstWayRead
<1>5. AcceptedRead(G, Text, accepted'.trees)
  <2>1. AcceptedRead(G, Text, accepted.trees)
    BY DEF AllRead
  <2>2. CASE accepted' = accepted
    BY <2>1, <2>2
  <2>3. CASE CanAccept /\ accepted' = Accepting(p.accum)
    <3>1. p.item.lhs = G.start
      <4>1. [p.item EXCEPT !.dot = 0] \in Alternatives(G, G.start)
        BY <1>3 DEF FlushInitial, IInv, Shapes
      <4>2. IsItem(G, p.item)
        <5>1. WaysRight(A, G, nodes, active, pend)
          BY DEF IInv
        <5>2. 1 \in DOMAIN pend /\ p = pend[1]
          <6>1. pend \in Seq(ToSet(pend)) /\ DOMAIN pend = 1 .. Len(pend) /\ Len(pend) \in Nat
                /\ Len(pend) # 0
            BY <1>1, <5>1, ListFacts DEF WaysRight, IsList
          <6> QED BY <1>3, <6>1
        <5> QED BY <5>1, <5>2 DEF WaysRight
      <4>3. PICK l, r, d : p.item = [lhs |-> l, rhs |-> r, dot |-> d]
        BY <4>2 DEF IsItem
      <4>4. [p.item EXCEPT !.dot = 0].lhs = l /\ p.item.lhs = l
        BY <4>3
      <4>5. PICK i : i = [p.item EXCEPT !.dot = 0] /\ i \in Alternatives(G, G.start)
        BY <4>1
      <4>6. i.lhs = G.start
        BY <4>5 DEF Alternatives
      <4> QED BY <4>4, <4>5, <4>6
    <3>2. offset = Len(Text)
      BY <2>3 DEF CanAccept, Size, Text
    <3>3. Reduced(G.start, p.accum) = out
      BY <1>3, <3>1 DEF Reduced
    <3>4. \/ accepted' = accepted
          \/ accepted' = [some |-> TRUE, trees |-> accepted.trees \o out]
      BY <2>3, <3>3 DEF Accepting
    <3>5. PICK trees : trees = accepted.trees \o out
      OBVIOUS
    <3>6. IsList(trees) /\ \A k \in DOMAIN trees :
             (\E j \in DOMAIN accepted.trees : trees[k] = accepted.trees[j])
             \/ (\E j \in DOMAIN out : trees[k] = out[j])
      BY <1>4, <2>1, <3>5, FromEither, ConcatLists DEF AcceptedRead
    <3>7. \A j \in DOMAIN out : out[j] \in ToSet(out)
      BY DEF ToSet
    <3>8. ReadAs(G, Text, G.start, out, nodes[p.tail].O, Len(Text))
      BY <1>4, <3>1, <3>2
    <3>9. AcceptedRead(G, Text, trees)
      <4> SUFFICES ASSUME NEW k \in DOMAIN trees
                   PROVE  \E l, f : ReadAs(G, Text, G.start, l, f, Len(Text)) /\ trees[k] \in ToSet(l)
        BY <3>6 DEF AcceptedRead
      <4>1. CASE \E j \in DOMAIN accepted.trees : trees[k] = accepted.trees[j]
        BY <2>1, <4>1 DEF AcceptedRead
      <4>2. CASE \E j \in DOMAIN out : trees[k] = out[j]
        BY <3>7, <3>8, <4>2
      <4> QED BY <3>6, <4>1, <4>2
    <3>10. CASE accepted' = accepted
      BY <2>1, <3>10
    <3>11. CASE accepted' = [some |-> TRUE, trees |-> accepted.trees \o out]
      <4>1. accepted'.trees = trees
        BY <3>5, <3>11
      <4> QED BY <3>9, <4>1
    <3> QED BY <3>4, <3>10, <3>11
  <2> QED BY <1>3, <2>2, <2>3 DEF FlushInitial
<1> QED BY <1>1, <1>4, <1>5 DEF AllRead

LEMMA FreeRead ==
  ASSUME IInv, AllRead, NEW c \in Freeable, Free(c)
  PROVE  AllRead'
<1>1. /\ pend = <<>> /\ job' = job /\ UNCHANGED <<offset, tok, pend, accepted>>
      /\ G' = G /\ Text' = Text /\ nodes' = Freed(nodes, c)
      /\ StackRight(A, nodes, active, offset)
  BY SameText DEF IInv, Free
<1>2. EdgesRead(G, Text, nodes')
  <2>1. EdgesRead(G, Text, nodes)
    BY DEF AllRead
  <2> QED BY <1>1, <2>1, FreedRead
<1>3. WaysRead(G, Text, nodes', offset, pend)
  BY <1>1, NoList DEF WaysRead
<1> QED BY <1>1, <1>2, <1>3 DEF AllRead

LEMMA MergeStepRead ==
  ASSUME IInv, AllRead, Merge
  PROVE  AllRead'
<1>1. /\ pend = <<>> /\ job' = job /\ UNCHANGED <<offset, tok, pend, accepted>>
      /\ G' = G /\ Text' = Text
      /\ StackRight(A, nodes, active, offset) /\ InOrder(nodes, active)
  BY SameText DEF IInv, Merge
<1>2. PICK kept \in Kept(nodes, active) : nodes' = Merged(nodes, active, kept)
  BY DEF Merge
<1>3. EdgesRead(G, Text, nodes')
  <2>1. EdgesRead(G, Text, nodes)
    BY DEF AllRead
  <2> QED BY <1>1, <1>2, <2>1, MergeRead
<1>4. WaysRead(G, Text, nodes', offset, pend)
  BY <1>1, NoList DEF WaysRead
<1> QED BY <1>1, <1>3, <1>4 DEF AllRead

LEMMA ReadRightKept ==
  ASSUME IInv, ReadRight, [Next]_vars
  PROVE  ReadRight'
<1>1. overlooked \in BOOLEAN /\ (~ overlooked' => ~ overlooked)
  BY DEF IInv, Shapes, Next, vars, BeginPass, EndParse, TakeNode, ReduceEpsilon, ReducePaths,
         FlushGoto, FlushInitial, Free, Merge, Break
<1> SUFFICES ASSUME AllRead, ~ overlooked PROVE AllRead'
  BY <1>1 DEF ReadRight
<1>2. CASE BeginPass
  BY <1>2, BeginPassRead
<1>3. CASE TakeNode
  BY <1>3, TakeNodeRead
<1>4. ASSUME NEW i \in reds, ReduceEpsilon(i) PROVE AllRead'
  BY <1>4, ReduceEpsilonRead
<1>5. ASSUME NEW i \in reds, ReducePaths(i) PROVE AllRead'
  BY <1>5, ReducePathsRead
<1>6. CASE FlushGoto
  BY <1>6, FlushGotoRead
<1>7. CASE FlushInitial
  BY <1>7, FlushInitialRead
<1>8. ASSUME NEW c \in Freeable, Free(c) PROVE AllRead'
  BY <1>8, FreeRead
<1>9. CASE Merge
  BY <1>9, MergeStepRead
<1>10. CASE EndParse \/ Break \/ UNCHANGED vars
  <2>1. UNCHANGED <<job, nodes, offset, tok, pend, accepted>>
    BY <1>10 DEF EndParse, Break, vars
  <2>2. G' = G /\ Text' = Text
    BY <2>1, SameText
  <2> QED BY <2>1, <2>2 DEF AllRead
<1> QED BY <1>2, <1>3, <1>4, <1>5, <1>6, <1>7, <1>8, <1>9, <1>10 DEF Next
-----------------------------------------------------------------------------
(***************************************************************************)
(* What the invariant says of the call.                                    *)
(***************************************************************************)
LEMMA FollowsAutomaton ==
  ASSUME IInv, NoneMissing
  PROVE  StackFollowsAutomaton
<1>1. TypeOK
  BY Typed
<1>2. ASSUME NEW n \in NodeIds, NEW k \in DOMAIN nodes[n].preds, nodes[n].preds[k].from # 0
      PROVE  Under(n, nodes[n].preds[k].from)
  <2> DEFINE m == nodes[n].preds[k].from
  <2>1. Buried(nodes, active, m) /\ Goes(A, nodes[m].S, nodes[n].P) = nodes[n].S
    BY <1>2 DEF IInv, StackRight, NodeRight, EdgeRight, NodeIds
  <2>2. nodes[m].O <= nodes[n].O \/ overlooked
    BY <1>2 DEF IInv, Passing, OffsetsGrow, NodeIds
  <2> HIDE DEF m
  <2>3. m \notin ToSet(active)
    <3>1. m \in Nat
      <4>1. DOMAIN nodes = 1 .. Len(nodes)
        BY ListFacts DEF IInv, StackRight
      <4> QED BY <2>1, <4>1 DEF Buried
    <3> QED BY <2>1, <3>1 DEF Buried
  <2>4. Under(n, m)
    BY <2>1, <2>2, <2>3 DEF Under, Goes, GotoOn, Buried
  <2> QED BY <2>4 DEF m
<1>3. \A k \in DOMAIN pend :
        [pend[k].item EXCEPT !.dot = 0] \in A.states[nodes[pend[k].tail].S]
  BY DEF IInv, WaysRight
<1> QED BY <1>1, <1>2, <1>3 DEF StackFollowsAutomaton, NoneMissing, HaveStates

LEMMA AskedFor ==
  ASSUME IInv
  PROVE  TokensAsked
<1> SUFFICES ASSUME phase = "node", ~ overlooked, NEW k \in 1 .. left
             PROVE  k \in DOMAIN active /\ TokensOf(nodes[active[k]].S) \subseteq tok.asked
  BY DEF TokensAsked
<1>1. Waiting(A, DOMAIN G.tokens, nodes, active, left, tok) /\ left \in Nat
  BY DEF IInv, Passing
<1>2. DOMAIN active = 1 .. Len(active) /\ Len(active) \in Nat
  BY OrderFacts DEF IInv, StackRight
<1>3. left <= Len(active)
  BY <1>1 DEF Waiting
<1>4. k \in DOMAIN active
  BY <1>1, <1>2, <1>3
<1> QED BY <1>1, <1>4 DEF Waiting, TokensOf

(***************************************************************************)
(* IInv is an inductive invariant of the call, and NoneMissing is one      *)
(* where it holds.                                                         *)
(***************************************************************************)
LEMMA Invariance == Spec => [](IInv /\ NoneMissing)
<1>1. Init => IInv /\ NoneMissing
  <2> SUFFICES ASSUME Init PROVE IInv /\ NoneMissing
    OBVIOUS
  <2>1. nodes[1].S = 1 /\ ToSet(active) = {1}
    <3>1. nodes = << NewNode(1, 0, "", 0, <<>>) >> /\ active = << 1 >>
      BY DEF Init
    <3>2. NewNode(1, 0, "", 0, <<>>).S = 1
      BY DEF NewNode
    <3> QED BY <3>1, <3>2, OneList
  <2> QED BY <2>1, InitRight DEF NoneMissing, HaveStates
<1>2. (IInv /\ NoneMissing) /\ [Next]_vars => (IInv /\ NoneMissing)'
  BY NextRight, NoneMissingKept
<1> QED BY <1>1, <1>2, PTL DEF Spec

(***************************************************************************)
(* Whatever the grammar and the text, the variables of a call have their   *)
(* types: the stack stays finite lists of nodes whose predecessors are     *)
(* older, offsets stay in the text, and so on (lr.h:606-762).              *)
(***************************************************************************)
THEOREM TypeCorrect == Spec => []TypeOK
<1>1. IInv => TypeOK
  BY Typed
<1> QED BY <1>1, Invariance, PTL

(***************************************************************************)
(* The stack follows the automaton: a node was shifted, with its symbol,   *)
(* from the state of each node under it, which is not active any more, so  *)
(* that merge_active (lr_gss.h:444-487) never changes it; and a way back   *)
(* that rec_path finds ends where the rule it reduces was begun            *)
(* (lr.h:504-604).  Where all rules land, no node is shifted to a null     *)
(* state, though nothing tests for it (lr_gss.h:348).                      *)
(***************************************************************************)
THEOREM StackFollows == Spec => []StackFollowsAutomaton
<1>1. IInv /\ NoneMissing => StackFollowsAutomaton
  BY FollowsAutomaton
<1> QED BY <1>1, Invariance, PTL

(***************************************************************************)
(* As long as merge_active has missed no twin, n_states (lr.h:646) counts  *)
(* nodes that were active when the pass began, whatever was shifted,       *)
(* reduced and merged since: the tokenizer was asked for their tokens.     *)
(***************************************************************************)
THEOREM TokensAreAsked == Spec => []TokensAsked
<1>1. IInv => TokensAsked
  BY AskedFor
<1> QED BY <1>1, Invariance, PTL

(***************************************************************************)
(* Where all rules land and no twin was missed, parse goes wrong in one    *)
(* place only: where a reduction reads a list that was freed under the     *)
(* stack (lr_gss.h:380).  The active list is not used up before n_states   *)
(* is, and no null state is dereferenced.                                  *)
(***************************************************************************)
BreaksOnFreedList ==
  Break /\ RulesLand(G) /\ ~overlooked =>
    \E i \in reds : ~AtStart(i) /\ \E k \in DOMAIN Paths(nodes, cur, Len(i.rhs)) :
       ~Paths(nodes, cur, Len(i.rhs))[k].live

THEOREM OnlyFreedListsBreak == Spec => [][BreaksOnFreedList]_vars
<1>1. ASSUME IInv, NoneMissing, Break, RulesLand(G), ~overlooked
      PROVE  phase = "reduce"
  <2>1. HaveStates(nodes, active)
    BY <1>1 DEF NoneMissing
  <2>2. ~ (phase = "pass" /\ \E n \in ToSet(active) : nodes[n].S = 0)
    BY <2>1 DEF HaveStates
  <2>3. ASSUME phase = "node" PROVE active # <<>> /\ nodes[Head(active)].S # 0
    <3>1. left \in Nat /\ left # 0 /\ left <= Len(active)
      BY <1>1, <2>3 DEF IInv, Passing, Waiting
    <3>2. IsList(active) /\ Len(active) \in Nat /\ DOMAIN active = 1 .. Len(active)
      BY <1>1, OrderFacts DEF IInv, StackRight
    <3>3. Len(active) # 0 /\ active # <<>> /\ 1 \in DOMAIN active
      BY <3>1, <3>2, ListFacts
    <3>4. Head(active) \in ToSet(active)
      BY <3>2, <3>3 DEF ToSet, IsList
    <3> QED BY <2>1, <3>3, <3>4 DEF HaveStates
  <2> QED BY <1>1, <2>2, <2>3 DEF Break
<1>2. IInv /\ NoneMissing /\ [Next]_vars => [BreaksOnFreedList]_vars
  <2> SUFFICES ASSUME IInv, NoneMissing, Break, RulesLand(G), ~overlooked
               PROVE  \E i \in reds : ~AtStart(i) /\
                        \E k \in DOMAIN Paths(nodes, cur, Len(i.rhs)) :
                           ~Paths(nodes, cur, Len(i.rhs))[k].live
    BY DEF BreaksOnFreedList
  <2>1. phase = "reduce"
    BY <1>1
  <2> QED BY <2>1 DEF Break
<1> QED BY <1>2, Invariance, PTL DEF Spec

(***************************************************************************)
(* Every tree that parse answers with was read in the text as the start    *)
(* rule, up to its end: from tokens that are found where they are said to  *)
(* be, put together rule by rule, in order and without overlap, whatever   *)
(* was merged and freed meanwhile, as long as merge_active missed no twin  *)
(* (process_shift_transitions, reduce_all and do_reduction, lr.h:504-762). *)
(* Where a freed list is read the call is broken, and answers no more.  It *)
(* does not say that all the text was read: a rule reduced beside a shift  *)
(* ends where the token ends that it did not read (lr.h:645, 693).         *)
(***************************************************************************)
AnswerIsDerived ==
  \A k \in DOMAIN accepted.trees :
    \E l, f : ReadAs(G, Text, G.start, l, f, Size) /\ accepted.trees[k] \in ToSet(l)

THEOREM AnswersAreDerived == Spec => [](~overlooked => AnswerIsDerived)
<1>1. Init => ReadRight
  BY InitRead DEF ReadRight
<1>2. IInv /\ ReadRight /\ [Next]_vars => ReadRight'
  BY ReadRightKept
<1>3. ReadRight => (~overlooked => AnswerIsDerived)
  BY DEF ReadRight, AllRead, AcceptedRead, AnswerIsDerived, Size, Text
<1> QED BY <1>1, <1>2, <1>3, Invariance, PTL DEF Spec
=============================================================================
