------------------------------ MODULE GLRParse -------------------------------
(***************************************************************************)
(* automaton::parse (lr.h:606-762) over the GSS (lr_gss.h:243-490) and the *)
(* tokenizer: one call, for one grammar, one text and one value of         *)
(* full_parse.  A pass of the outer loop consumes the longest token that   *)
(* any active state waits for, then takes the states that were active, one *)
(* at a time: shift, reduce, flush the reductions, merge.                  *)
(*                                                                         *)
(* phase says where the call is; "broken" is where it throws, or reads     *)
(* what it must not: no behaviour is claimed for it from there on.         *)
(***************************************************************************)
EXTENDS LRTables, GSS, Tokenizer, Bags

CONSTANTS Grammars,     \* name -> grammar
          Jobs          \* the calls considered, [g, text, full]

ASSUME GrammarsAssumption ==
  \A n \in DOMAIN Grammars :
    /\ IsGrammar(Grammars[n]) /\ HasWords(Grammars[n])
    /\ IsFiniteSet(AllItems(Grammars[n])) /\ IsFiniteSet(DOMAIN Grammars[n].tokens)

ASSUME JobsAssumption ==
  \A j \in Jobs :
    /\ j.g \in DOMAIN Grammars /\ j.full \in BOOLEAN
    /\ j.text \in Seq(ToSet(j.text))

VARIABLES job,          \* the call
          initial,      \* the first alternative of the start rule
          nodes,        \* the state nodes of the GSS, by order of creation
          active,       \* the active nodes, in order
          offset,       \* where the text is consumed up to
          tok,          \* the tokenizer: asked, hits, and the span [from, to]
          left,         \* n_states, nodes still to be taken in this pass
          cur,          \* the node taken
          reds,         \* its reductions still to be looked for
          pend,         \* pending_reductions
          excess,       \* references given back that were not owned, a bag
          accepted,     \* accepted, with some = FALSE for a null pointer
          overlooked,   \* history: merge_active has missed a twin
          phase

vars == <<job, initial, nodes, active, offset, tok, left, cur, reds, pend, excess,
          accepted, overlooked, phase>>

Automata == [n \in DOMAIN Grammars |-> Tables(Grammars[n])]

G == Grammars[job.g]
A == Automata[job.g]
Text == job.text
Size == Len(job.text)

\* activate(): what was just pushed waits behind what was there.
QueuedFirst(rest, new) == new \o rest         \* mutant: it is taken first
Queued(rest, new)      == rest \o new

TokensOf(S)   == DOMAIN A.trans[S] \cap DOMAIN G.tokens
Reductions(S) == {i \in A.states[S] : AtEnd(i)}
GotoOn(S, x)  == IF x \in DOMAIN A.trans[S] THEN A.trans[S][x] ELSE 0

NoTree == [some |-> FALSE, trees |-> <<>>]

Init ==
  /\ job \in Jobs
  /\ initial \in Alternatives(G, G.start)
  /\ nodes = << NewNode(1, 0, "", 0, <<>>) >>
  /\ active = << 1 >>
  /\ offset = Skip(G, Text, 0)
  /\ tok = [asked |-> {}, hits |-> {}, from |-> 0, to |-> 0]
  /\ left = 0
  /\ cur = 0
  /\ reds = {}
  /\ pend = <<>>
  /\ excess = EmptyBag
  /\ accepted = NoTree
  /\ overlooked = FALSE
  /\ phase = "pass"

(***************************************************************************)
(* The top of the outer loop.  The tokenizer asks the active states for    *)
(* their tokens, and a node shifted to no state has none to give.          *)
(***************************************************************************)
BeginPass ==
  /\ phase = "pass"
  /\ active # <<>>
  /\ \A n \in ToSet(active) : nodes[n].S # 0
  /\ LET X == UNION { TokensOf(nodes[n].S) : n \in ToSet(active) }
         to == Consumed(G, Text, offset, X)
     IN /\ tok' = [ asked |-> X, hits |-> Results(G, Text, offset, X),
                    from |-> offset, to |-> to ]
        /\ offset' = Skip(G, Text, to)
  /\ accepted' = NoTree
  /\ left' = Len(active)
  /\ phase' = "node"
  /\ UNCHANGED <<job, initial, nodes, active, cur, reds, pend, excess,
                 overlooked>>

\* mutant: the loop goes on until both the text and the nodes are used up
EndParseLate ==
  /\ phase = "pass"
  /\ active = <<>> /\ offset = Size
  /\ phase' = "done"
  /\ UNCHANGED <<job, initial, nodes, active, offset, tok, left, cur, reds,
                 pend, excess, accepted, overlooked>>

EndParse ==
  /\ phase = "pass"
  /\ active = <<>>
  /\ phase' = "done"
  /\ UNCHANGED <<job, initial, nodes, active, offset, tok, left, cur, reds,
                 pend, excess, accepted, overlooked>>

(***************************************************************************)
(* process_shift_transitions, for the three classes of tokens in turn.     *)
(* Without full_parse a class is tried only if those before it gave        *)
(* nothing, and reductions only if nothing was shifted.                    *)
(***************************************************************************)
Hits(S, class) == { x \in TokensOf(S) \cap tok.hits : G.tokens[x] = class }

Tried(S, class) ==
  CASE class = "t"   -> TRUE
    [] class = "bow" -> job.full \/ Hits(S, "t") = {}
    [] class = "re"  -> job.full \/ Hits(S, "t") \cup Hits(S, "bow") = {}

Shifted(S, class) == IF Tried(S, class) THEN Hits(S, class) ELSE {}

MayReduce(S) == job.full \/ TokensOf(S) \cap tok.hits = {}

ShiftOver(n, symbols) ==
  [ k \in DOMAIN symbols |->
      NewNode(GotoOn(nodes[n].S, symbols[k]), tok.to, symbols[k], n,
              Production(G, Text, tok.from, symbols[k])) ]

NewIds(k) == [ j \in 1 .. k |-> Len(nodes) + j ]

TakeNode ==
  /\ phase = "node"
  /\ active # <<>>
  /\ LET n == Head(active)
         S == nodes[n].S
     IN /\ S # 0
        /\ \E t \in SetToSeqs(Shifted(S, "t")), b \in SetToSeqs(Shifted(S, "bow")),
              r \in SetToSeqs(Shifted(S, "re")) :
             /\ nodes' = nodes \o ShiftOver(n, t \o b \o r)
             /\ active' = Queued(Tail(active), NewIds(Len(t \o b \o r)))
        /\ cur' = n
        /\ reds' = IF MayReduce(S) THEN Reductions(S) ELSE {}
  /\ left' = left - 1
  /\ phase' = "reduce"
  /\ UNCHANGED <<job, initial, offset, tok, pend, excess, accepted,
                 overlooked>>

(***************************************************************************)
(* reduce_all, for an item of the state taken.  An epsilon rule is shifted *)
(* at once; for others the ways back are committed to pending_reductions.  *)
(* pfx_extract: a Prefix puts the trees it begins with before the operands *)
(* of its last one, a Postfix after them; that one has operands here.      *)
(***************************************************************************)
ReducedAt(g, o, t, list) ==
  CASE t \in g.prefix    -> << [Last(list) EXCEPT !.kids = Front(list) \o @] >>
    [] t \in g.postfix   -> << [Last(list) EXCEPT !.kids = @ \o Front(list)] >>
    [] t \in g.transient -> list
    [] OTHER             -> << Tree(t, o, list) >>

Reduced(t, list) == ReducedAt(G, offset, t, list)

ReduceEpsilon(i) ==
  /\ phase = "reduce"
  /\ AtStart(i)
  /\ nodes' = Append(nodes, NewNode(GotoOn(nodes[cur].S, i.lhs), offset, i.lhs, cur,
                                    Reduced(i.lhs, <<>>)))
  /\ active' = Queued(active, NewIds(1))
  /\ reds' = reds \ {i}
  /\ UNCHANGED <<job, initial, offset, tok, left, cur, pend, excess, accepted,
                 overlooked, phase>>

ReducePaths(i) ==
  /\ phase = "reduce"
  /\ ~AtStart(i)
  /\ LET ways == Paths(nodes, cur, Len(i.rhs))
     IN /\ \A k \in DOMAIN ways : ways[k].live
        /\ pend' = pend \o [ k \in DOMAIN ways |->
                      [item |-> i, tail |-> ways[k].tail, accum |-> ways[k].accum] ]
  /\ reds' = reds \ {i}
  /\ UNCHANGED <<job, initial, nodes, active, offset, tok, left, cur, excess,
                 accepted, overlooked, phase>>

(***************************************************************************)
(* do_reduction, for the first of pending_reductions: a goto, or for the   *)
(* start rule the acceptance.  Where the text is not at its end, the start *)
(* rule's list is unref'ed once more than it was ref'ed.                   *)
(***************************************************************************)
Flushing == phase = "reduce" /\ reds = {} /\ pend # <<>>

FlushGoto ==
  /\ Flushing
  /\ LET p == Head(pend)
         S == GotoOn(nodes[p.tail].S, p.item.lhs)
     IN /\ [p.item EXCEPT !.dot = 0] # initial
        /\ IF S = 0
             THEN UNCHANGED <<nodes, active>>
             ELSE /\ nodes' = Append(nodes, NewNode(S, offset, p.item.lhs, p.tail,
                                                    Reduced(p.item.lhs, p.accum)))
                  /\ active' = Queued(active, NewIds(1))
  /\ pend' = Tail(pend)
  /\ UNCHANGED <<job, initial, offset, tok, left, cur, reds, excess, accepted,
                 overlooked, phase>>

\* mutant: only the first tree is kept
AcceptingFirst(list) ==
  IF accepted.some THEN accepted ELSE [some |-> TRUE, trees |-> Reduced(G.start, list)]

Accepting(list) ==
  LET out == Reduced(G.start, list)
      known == accepted.some /\ (\/ out = <<>>
                                 \/ \E k \in DOMAIN accepted.trees :
                                      accepted.trees[k] = Head(out))
  IN IF known THEN accepted ELSE [some |-> TRUE, trees |-> accepted.trees \o out]

CanAcceptEarly == TRUE                        \* mutant: the offset is not looked at
CanAccept      == offset = Size

FlushInitial ==
  /\ Flushing
  /\ LET p == Head(pend)
     IN /\ [p.item EXCEPT !.dot = 0] = initial
        /\ IF CanAccept
             THEN accepted' = Accepting(p.accum) /\ UNCHANGED excess
             ELSE /\ UNCHANGED accepted
                  /\ excess' = IF p.accum = <<>> THEN excess
                               ELSE excess (+) SetToBag({p.accum})
  /\ pend' = Tail(pend)
  /\ UNCHANGED <<job, initial, nodes, active, offset, tok, left, cur, reds,
                 overlooked, phase>>

(***************************************************************************)
(* pending_reductions.clear() gives back its references: a list whose      *)
(* owners have all been paid for is freed, whoever still points to it.     *)
(***************************************************************************)
Freeable == { c \in BagToSet(excess) : excess[c] >= Owners(nodes, c) }

Free(c) ==
  /\ phase = "reduce" /\ reds = {} /\ pend = <<>>
  /\ nodes' = Freed(nodes, c)
  /\ excess' = [d \in BagToSet(excess) \ {c} |-> excess[d]]
  /\ UNCHANGED <<job, initial, active, offset, tok, left, cur, reds, pend,
                 accepted, overlooked, phase>>

(***************************************************************************)
(* merge_active, and the end of the turn of the inner loop.                *)
(***************************************************************************)
Merge ==
  /\ phase = "reduce" /\ reds = {} /\ pend = <<>>
  /\ Freeable = {}
  /\ \E kept \in Kept(nodes, active) :
       /\ nodes' = Merged(nodes, active, kept)
       /\ active' = Remaining(active, kept)
       /\ overlooked' = (overlooked \/ Missed(nodes, active, kept))
  /\ cur' = 0
  /\ phase' = IF left = 0 THEN "pass" ELSE "node"
  /\ UNCHANGED <<job, initial, offset, tok, left, reds, pend, excess, accepted>>

(***************************************************************************)
(* A null state is dereferenced or thrown at, the list of active nodes is  *)
(* empty when one is taken, a freed list is read.                          *)
(***************************************************************************)
Break ==
  /\ \/ phase = "pass" /\ \E n \in ToSet(active) : nodes[n].S = 0
     \/ phase = "node" /\ (active # <<>> => nodes[Head(active)].S = 0)
     \/ /\ phase = "reduce"
        /\ \E i \in reds : ~AtStart(i) /\ \E k \in DOMAIN Paths(nodes, cur, Len(i.rhs)) :
              ~Paths(nodes, cur, Len(i.rhs))[k].live
  /\ phase' = "broken"
  /\ UNCHANGED <<job, initial, nodes, active, offset, tok, left, cur, reds,
                 pend, excess, accepted, overlooked>>

Next ==
  \/ BeginPass \/ EndParse \/ TakeNode
  \/ (\E i \in reds : ReduceEpsilon(i) \/ ReducePaths(i))
  \/ FlushGoto \/ FlushInitial
  \/ (\E c \in Freeable : Free(c))
  \/ Merge \/ Break

Spec     == Init /\ [][Next]_vars
FairSpec == Spec /\ WF_vars(Next)
-----------------------------------------------------------------------------
NodeIds == DOMAIN nodes

TypeOK ==
  /\ job \in Jobs
  /\ initial \in Alternatives(G, G.start)
  /\ \A n \in NodeIds :
       /\ nodes[n].S \in DOMAIN A.states \cup {0}
       /\ nodes[n].O \in 0 .. Size
       /\ \A k \in DOMAIN nodes[n].preds : nodes[n].preds[k].from \in 0 .. n - 1
  /\ active \in Seq(NodeIds) /\ IsInjective(active)
  /\ offset \in 0 .. Size
  /\ tok.hits \subseteq tok.asked /\ tok.asked \subseteq DOMAIN G.tokens
  /\ tok.from <= tok.to /\ tok.to <= offset
  /\ left \in Nat
  /\ cur \in NodeIds \cup {0}
  /\ \A i \in reds : IsItem(G, i) /\ AtEnd(i)
  /\ \A k \in DOMAIN pend : IsItem(G, pend[k].item) /\ pend[k].tail \in NodeIds
  /\ IsABag(excess)
  /\ accepted.some \in BOOLEAN
  /\ overlooked \in BOOLEAN
  /\ phase \in {"pass", "node", "reduce", "done", "broken"}

(***************************************************************************)
(* Whatever was merged into what, a node was shifted, with its symbol and  *)
(* from its own state, over each node under it; nothing is merged any more *)
(* into, or out of, a node that lies under another; and a way back that    *)
(* ends its reduction ends where the rule was begun.  The offsets grow     *)
(* from a node to those over it, unless merge_active missed a twin.  And a *)
(* node that is still to be taken is in a state, if all rules land: then   *)
(* nothing is shifted over an epsilon rule to a state there is none of.    *)
(***************************************************************************)
RulesLand(g) == NoDeadItems(g) /\ <<>> \notin g.rules[g.start]

Under(n, m) ==
  /\ m \notin ToSet(active)
  /\ nodes[m].S # 0
  /\ nodes[m].O <= nodes[n].O \/ overlooked
  /\ GotoOn(nodes[m].S, nodes[n].P) = nodes[n].S

StackFollowsAutomaton ==
  /\ TypeOK
  /\ \A n \in NodeIds : \A k \in DOMAIN nodes[n].preds :
       nodes[n].preds[k].from # 0 => Under(n, nodes[n].preds[k].from)
  /\ \A k \in DOMAIN pend :
       [pend[k].item EXCEPT !.dot = 0] \in A.states[nodes[pend[k].tail].S]
  /\ RulesLand(G) => \A n \in ToSet(active) : nodes[n].S # 0

(***************************************************************************)
(* The nodes that are still to be taken in this pass are the ones it began *)
(* with: the tokenizer was asked for what they wait for.  A twin that      *)
(* merge_active missed may be merged later in the pass, away from among    *)
(* them: then n_states takes in a node that this pass has made.            *)
(***************************************************************************)
TokensAsked ==
  phase = "node" /\ ~overlooked =>
    \A k \in 1 .. left :
       k \in DOMAIN active /\ TokensOf(nodes[active[k]].S) \subseteq tok.asked

(***************************************************************************)
(* On a grammar without cycles every call ends: the passes stop, and so do *)
(* the reductions within one, though epsilon rules are shifted at once and *)
(* a pass may consume nothing.                                             *)
(***************************************************************************)
Terminates == <>(phase \in {"done", "broken"})
=============================================================================
