---------------------------- MODULE GrammarBuild -----------------------------
(***************************************************************************)
(* The constructor of Grammar (lr.cc), rule by rule, and the registry of   *)
(* items it shares with every Grammar made before in the same process.     *)
(* What it makes is a grammar value of LRGrammar, the input of LRClosure   *)
(* and LRAutomaton.                                                        *)
(*                                                                         *)
(* The tree of a grammar is a sequence of rules <<kind, tag, body>>.       *)
(***************************************************************************)
EXTENDS GrammarItems

CONSTANTS Trees,        \* the trees grammars are made from
          MaxGrammars,  \* how many are made, one after the other (bound)
          MaxWord       \* the longest words the meanings are compared on (bound)

ASSUME MaxGrammars \in Nat /\ MaxWord \in Nat

VARIABLES tree, left,   \* the tree, and the rules still to be read
          known,        \* the Grammar map: Nt -> alternatives
          named,        \* the Nts of operator rules
          ws,           \* what is skipped between tokens
          built,        \* the constructor has returned
          registry,     \* the nodes whose item is cached
          made          \* how many grammars were begun

vars == <<tree, left, known, named, ws, built, registry, made>>

DefaultBlanks == <<"T", " \t\n\r">>

Init ==
  /\ tree \in Trees /\ left = tree
  /\ known = <<>> /\ named = {}
  /\ ws = DefaultBlanks /\ built = FALSE
  /\ registry = {} /\ made = 1

\* add_rule: a rule whose tag is there is merged into it.
Replaced(old, new) == new @@ old   \* mutant
Merged(old, new) ==
  [t \in DOMAIN old \cup DOMAIN new |->
     (IF t \in DOMAIN old THEN old[t] ELSE {}) \cup (IF t \in DOMAIN new THEN new[t] ELSE {})]

\* The combinations whose rules come into the grammar with a body: those of
\* items not made before, and those rule::init rewrites.
BroughtAsMade(n) == CommitsAsMade(n, registry)                     \* mutant
Brought(n) == CommitsAsMade(n, registry) \cup CommitsAll(CommittedBy(Item(n)))

Rules(X) == [t \in Auto(X) |-> Body(t[2])]

(***************************************************************************)
(* One turn of the loop.  A body without an item ends the program.         *)
(***************************************************************************)
AddRule ==
  /\ left # <<>> /\ Kind(Head(left)) \in {"OperatorRule", "TransientRule"}
  /\ LET rule == Head(left)
         tag  == <<"NT", rule[2]>>
     IN  /\ Item(rule[3]) # Null
         /\ known' = Merged(Merged(known, Rules(Brought(rule[3]))),
                            tag :> AlternativesOf(Item(rule[3])))
         /\ named' = IF Kind(rule) = "OperatorRule" /\ tag \notin DOMAIN known
                       THEN named \cup {tag} ELSE named
         /\ registry' = registry \cup Cached(rule[3])
  /\ left' = Tail(left)
  /\ UNCHANGED <<tree, ws, built, made>>

SkipComment ==
  /\ left # <<>> /\ Kind(Head(left)) = "Comment"
  /\ left' = Tail(left)
  /\ UNCHANGED <<tree, known, named, ws, built, registry, made>>

(***************************************************************************)
(* The blanks are the first symbol of the first alternative of _whitespace *)
(* when that is an expression or a text.  A _whitespace without            *)
(* alternatives ends the program.                                          *)
(***************************************************************************)
Whitespace == <<"NT", "_whitespace">>

Finish ==
  /\ left = <<>> /\ ~built
  /\ IF Whitespace \in DOMAIN known
       THEN \E r \in known[Whitespace] :
              ws' = IF r # <<>> /\ Kind(r[1]) \in {"RE", "T"} THEN r[1] ELSE DefaultBlanks
       ELSE ws' = DefaultBlanks
  /\ built' = TRUE
  /\ UNCHANGED <<tree, left, known, named, registry, made>>

\* Another Grammar, of the same rules in this or another order.
Again ==
  /\ built /\ made < MaxGrammars
  /\ tree' \in { t \in Trees : Range(t) = Range(tree) }
  /\ left' = tree'
  /\ known' = <<>> /\ named' = {}
  /\ ws' = DefaultBlanks /\ built' = FALSE
  /\ made' = made + 1
  /\ UNCHANGED registry

Next == AddRule \/ SkipComment \/ Finish \/ Again

Spec == Init /\ [][Next]_vars
-----------------------------------------------------------------------------
Value == GrammarValue(known, named)

(***************************************************************************)
(* What a tree means: the words its rules stand for, up to MaxWord.  A     *)
(* meaning is a function from tags to sets of words; rules of one tag are  *)
(* alternatives of one another.                                            *)
(***************************************************************************)
Short(W) == { w \in W : Len(w) <= MaxWord }
Then(V, W) == Short({ v \o w : v \in V, w \in W })

RECURSIVE Repeated(_, _)
Repeated(V, W) == LET more == V \cup Then(V, W) IN IF more = V THEN V ELSE Repeated(more, W)

RECURSIVE Means(_, _)
Means(n, m) ==
  CASE Kind(n) = "NT" -> IF n[2] \in DOMAIN m THEN m[n[2]] ELSE {}
    [] Kind(n) = "Epsilon" -> {<<>>}
    [] Kind(n) = "Comment" -> {}
    [] Kind(n) = "Seq" ->
         FoldLeft(LAMBDA W, s : IF Kind(s) \in Marks THEN W ELSE Then(W, Means(s, m)),
                  {<<>>}, Tail(n))
    [] Kind(n) = "Alt" -> UNION { Means(s, m) : s \in {k \in Range(Tail(n)) : Kind(k) \notin Marks} }
    [] Kind(n) = "Rep01" -> Means(n[2], m) \cup {<<>>}
    [] Kind(n) = "Rep0N" -> Repeated({<<>>}, Means(n[2], m))
    [] Kind(n) = "Rep1N" -> Repeated(Means(n[2], m), Means(n[2], m))
    [] Kind(n) \in Fixes -> Then(Means(n[2], m), Means(<<"NT", n[3]>>, m))
    [] OTHER -> {<<n>>}

RECURSIVE Meaning(_, _)
Meaning(t, m) ==
  LET rules == { r \in Range(t) : Kind(r) # "Comment" }
      next  == [k \in { r[2] : r \in rules } |->
                  UNION { Means(r[3], m) : r \in { q \in rules : q[2] = k } }]
  IN  IF next = m THEN m ELSE Meaning(t, next)

(***************************************************************************)
(* What a grammar reads.  A combination is read if its Nt is listed among  *)
(* the symbols a state moves on; the rules are those that were added.      *)
(***************************************************************************)
Reads(v, known_, s, m) ==
  IF s \in DOMAIN v.wraps
    THEN IF v.wraps[s].via = "nt" /\ v.wraps[s].tag \in known_ THEN m[v.wraps[s].tag] ELSE {}
    ELSE IF s \in DOMAIN v.rules THEN IF s \in known_ THEN m[s] ELSE {}
    ELSE IF v.tokens[s] = "none" THEN {} ELSE {<<s>>}

RECURSIVE Language(_, _)
Language(v, m) ==
  LET there == v.listed \cup UNION { v.wraps[c].commits : c \in DOMAIN v.wraps }
      next  == [t \in DOMAIN v.rules |->
                  UNION { FoldLeft(LAMBDA W, s : Then(W, Reads(v, there, s, m)), {<<>>}, r) :
                          r \in v.rules[t] }]
  IN  IF next = m THEN m ELSE Language(v, next)

Nodes_ == UNION { Nodes(r[3]) : r \in { q \in Range(tree) : Kind(q) # "Comment" } }

\* Nothing stands in a sequence that a state does not move on.
Movable ==
  \A n \in Nodes_ : Kind(n) = "Seq" /\ Item(n) = n =>
     \A i \in Range(Members(n)) : Kind(i) \notin Fixes \cup {"Seq", "Epsilon", "Comment"}

\* A Prefix made for an earlier grammar does not commit its operand again.
Reused == made > 1 /\ \E n \in Nodes_ : Kind(n) \in Fixes /\ IsCombination(Operand(n))
-----------------------------------------------------------------------------
(***************************************************************************)
(* What the constructor makes of a grammar is what the construction of the *)
(* automaton relies on: every rule a combination brings comes with those   *)
(* it mentions, whatever the registry held before.                         *)
(***************************************************************************)
Expanded == built => IsGrammar(Value) /\ (Reused \/ WellExpanded(Value))

(***************************************************************************)
(* Expansion keeps the meaning: under each tag the grammar reads no word   *)
(* but those the tree stands for, and all of them unless a sequence holds  *)
(* what no state moves on.                                                 *)
(***************************************************************************)
MeaningKept ==
  built =>
    LET language == Language(Value, [t \in DOMAIN Value.rules |-> {}])
        meaning  == Meaning(tree, <<>>)
    IN  \A k \in DOMAIN meaning :
          /\ language[<<"NT", k>>] \subseteq meaning[k]
          /\ Movable /\ ~Reused => meaning[k] = language[<<"NT", k>>]
=============================================================================
