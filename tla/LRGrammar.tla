------------------------------ MODULE LRGrammar ------------------------------
(***************************************************************************)
(* Grammars and LR(0) items of tinyap (lr_grammar.h, lr_visitors.h, lr.h). *)
(* A grammar is a value, so that one run can range over a family of them:  *)
(*                                                                         *)
(*   rules   tag -> set of alternatives (sequences of symbols).  A rule is *)
(*           a std::set of alternatives; a tag no rule defines has {}.     *)
(*   listed  the tags in the Grammar map when its constructor returns.     *)
(*   wraps   symbol of a combination (Rep01, Rep0N, Rep1N, Prefix, Postfix,*)
(*           Alt, Seq inside a sequence) -> how the visitors treat it:     *)
(*             tag      the Nt its commit() returns                        *)
(*             commits  the tags whose rules commit() adds to the grammar  *)
(*             via      what token_filter makes of it: "nt" (that Nt),     *)
(*                      "self" (the combination itself: Seq), "none"       *)
(*   tokens  symbol of a token -> its class, "t", "bow", "re", or "none"   *)
(*           for an Epsilon or a Comment standing inside a sequence.       *)
(*   start   the tag of the start rule, "_start" in the code.              *)
(*                                                                         *)
(* A grammar that texts are parsed with has more, of which Tokenizer and   *)
(* GLRParse tell: transient (the tags whose tree is not named), prefix and *)
(* postfix (the tags of rules a Prefix or a Postfix expands to), words,    *)
(* keeps and ws.                                                           *)
(*                                                                         *)
(* An alternative that is Epsilon is the empty sequence: its iterator is   *)
(* both at its start and at its end.                                       *)
(***************************************************************************)
EXTENDS Naturals, Sequences, FiniteSets

Tags(g) == DOMAIN g.rules
Combinations(g) == DOMAIN g.wraps
Symbols(g) == Tags(g) \cup Combinations(g) \cup DOMAIN g.tokens

Wraps(g) == [ tag     : Tags(g),
              commits : SUBSET Tags(g),
              via     : {"nt", "self", "none"} ]

IsGrammar(g) ==
  /\ g.rules \in [Tags(g) -> SUBSET Seq(Symbols(g))]
  /\ g.wraps \in [Combinations(g) -> Wraps(g)]
  /\ \A c \in Combinations(g) : g.wraps[c].tag \in g.wraps[c].commits
  /\ g.listed \subseteq Tags(g)
  /\ g.start \in g.listed
  /\ g.tokens \in [DOMAIN g.tokens -> {"t", "bow", "re", "none"}]
  /\ Tags(g) \cap Combinations(g) = {}
  /\ (Tags(g) \cup Combinations(g)) \cap DOMAIN g.tokens = {}

(***************************************************************************)
(* Items: a rule, one of its alternatives and a position in it.            *)
(***************************************************************************)
IsItem(g, i) ==
  /\ i = [lhs |-> i.lhs, rhs |-> i.rhs, dot |-> i.dot]
  /\ i.lhs \in Tags(g)
  /\ i.rhs \in g.rules[i.lhs]
  /\ i.dot \in 0 .. Len(i.rhs)

AllItems(g) ==
  UNION { UNION { { [lhs |-> t, rhs |-> r, dot |-> d] : d \in 0 .. Len(r) } :
                  r \in g.rules[t] } : t \in Tags(g) }

AtStart(i) == i.dot = 0
AtEnd(i)   == i.dot = Len(i.rhs)
Symbol(i)  == i.rhs[i.dot + 1]
Advance(i) == [i EXCEPT !.dot = @ + 1]

Alternatives(g, t) == { [lhs |-> t, rhs |-> r, dot |-> 0] : r \in g.rules[t] }

(***************************************************************************)
(* item_rewriter: the Nt a symbol stands for, and the rules its commit()   *)
(* puts into the grammar on the way.                                       *)
(***************************************************************************)
Rewritten(g, s) == IF s \in Combinations(g) THEN g.wraps[s].tag ELSE s
CommittedNothing(g, s) == {}     \* mutant: the rewriter commits no rule
Committed(g, s) == IF s \in Combinations(g) THEN g.wraps[s].commits ELSE {}

(***************************************************************************)
(* The items an item calls for once every rule of the grammar is known,    *)
(* and the sets of items closed under that.                                *)
(***************************************************************************)
Predicted(g, i) ==
  IF ~AtEnd(i) /\ Rewritten(g, Symbol(i)) \in Tags(g)
    THEN Alternatives(g, Rewritten(g, Symbol(i)))
    ELSE {}

Closed(g, C) == \A i \in C : Predicted(g, i) \subseteq C

(***************************************************************************)
(* The tags of K mention, as plain non-terminals, only tags of K or tags   *)
(* no rule defines.                                                        *)
(***************************************************************************)
SelfContained(g, K) ==
  \A t \in K : \A r \in g.rules[t] : \A k \in 1 .. Len(r) :
     r[k] \in Tags(g) => r[k] \in K \/ g.rules[r[k]] = {}

(***************************************************************************)
(* Every rule that a combination brings into the grammar comes together    *)
(* with the rules it mentions.                                             *)
(***************************************************************************)
WellExpanded(g) ==
  /\ SelfContained(g, g.listed)
  /\ \A c \in Combinations(g) : SelfContained(g, g.listed \cup g.wraps[c].commits)

(***************************************************************************)
(* The closure of a set of items once every rule is known: the items, and  *)
(* the alternatives of each tag they call for, directly or through others. *)
(***************************************************************************)
CalledBy(g, I) ==
  { Rewritten(g, Symbol(i)) : i \in {j \in I : ~AtEnd(j)} } \cap Tags(g)

Called(g, I) ==
  { t \in Tags(g) :
      \A T \in SUBSET Tags(g) :
         /\ CalledBy(g, I) \subseteq T
         /\ \A u \in T : CalledBy(g, Alternatives(g, u)) \subseteq T
         => t \in T }

ClosureOf(g, I) == I \cup UNION { Alternatives(g, t) : t \in Called(g, I) }

(***************************************************************************)
(* token_filter: what the symbol after the dot is listed under among the   *)
(* symbols a state moves on, if it is listed at all.                       *)
(***************************************************************************)
Moves(g, s) ==
  IF s \in Combinations(g)
    THEN [nt |-> {g.wraps[s].tag}, self |-> {s}, none |-> {}][g.wraps[s].via]
    ELSE IF s \in DOMAIN g.tokens /\ g.tokens[s] = "none" THEN {} ELSE {s}

MovesOf(g, I) == UNION { Moves(g, Symbol(i)) : i \in {j \in I : ~AtEnd(j)} }

\* The kernel reached from the items I over x.
Moved(g, I, x) ==
  { Advance(i) : i \in {j \in I : ~AtEnd(j) /\ x \in Moves(g, Symbol(j))} }

Goto(g, I, x) == ClosureOf(g, Moved(g, I, x))

(***************************************************************************)
(* Every combination inside a sequence moves as the Nt it was rewritten to *)
(* and every token moves: nothing in the grammar stops an item for good.   *)
(***************************************************************************)
NoDeadItems(G) ==
  /\ \A c \in Combinations(G) : G.wraps[c].via = "nt"
  /\ \A s \in DOMAIN G.tokens : G.tokens[s] # "none"
=============================================================================
