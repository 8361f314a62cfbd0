---------------------------- MODULE GrammarItems -----------------------------
(***************************************************************************)
(* The items made from the tree of a grammar (lr.cc, base::from_ast) and   *)
(* what the rewriters make of them (lr_visitors.h, item_rewriter and       *)
(* rmember_rewriter; lr_grammar.h, commit): the rule a combination is      *)
(* expanded to, and the other rules that come with it.                     *)
(*                                                                         *)
(* A node is a sequence that begins with its kind: <<"T", "a">>,           *)
(* <<"Seq", n1, n2>>, <<"Rep0N", n>>, <<"Prefix", n, "Y">>, ...  Items are *)
(* cached by node, so that a node names the item made of it.  The Nt made  *)
(* for a combination, auto_tag in the code, is <<"auto", its item>>.       *)
(*                                                                         *)
(* STR, AddToBag, EOF and RawSeq, which are tokens for the rewriters, are  *)
(* left out.  For TLC only: the module declares RECURSIVE operators.       *)
(***************************************************************************)
EXTENDS LRGrammar, SequencesExt

Null == <<"NULL">>
Kind(x) == x[1]

Repetitions  == {"Rep01", "Rep0N", "Rep1N"}
Fixes        == {"Prefix", "Postfix"}
IsCombination(x) == Kind(x) \in {"Seq", "Alt"} \cup Repetitions \cup Fixes

RECURSIVE Nodes(_)
Nodes(n) ==
  {n} \cup CASE Kind(n) \in {"Seq", "Alt"}         -> UNION { Nodes(s) : s \in Range(Tail(n)) }
             [] Kind(n) \in Repetitions \cup Fixes -> Nodes(n[2])
             [] OTHER                              -> {}

(***************************************************************************)
(* from_ast: a mark of layout gives no item, a Seq or an Alt of one item   *)
(* gives that item.                                                        *)
(***************************************************************************)
Marks == {"RPL", "Space", "NewLine", "Indent", "Dedent"}

RECURSIVE Item(_)
Members(n) == SelectSeq([k \in 1 .. Len(n) - 1 |-> Item(n[k + 1])], LAMBDA i : i # Null)
Item(n) ==
  CASE Kind(n) \in Marks -> Null
    [] Kind(n) \in {"Seq", "Alt"} ->
         LET count == IF Kind(n) = "Seq" THEN Len(Members(n)) ELSE Cardinality(Range(Members(n)))
         IN  IF count = 0 THEN Null ELSE IF count = 1 THEN Members(n)[1] ELSE n
    [] OTHER -> n

Operand(x) == Item(x[2])

\* What the registry keeps after from_ast(n).
Cached(n) == { m \in Nodes(n) : Item(m) = m /\ Kind(m) # "NT" }

\* item_rewriter: what stands for an item.
Nt(x) == IF IsCombination(x) THEN <<"auto", x>> ELSE x

(***************************************************************************)
(* rmember_rewriter: the alternatives an item gives the rule it is the     *)
(* body of.  An Alt is taken apart, a Comment dropped.                     *)
(***************************************************************************)
RECURSIVE AlternativesOf(_)
AlternativesOf(x) ==
  CASE Kind(x) = "Alt"     -> UNION { AlternativesOf(i) : i \in Range(Members(x)) }
    [] Kind(x) = "Seq"     -> {Members(x)}
    [] Kind(x) = "Comment" -> {}
    [] Kind(x) = "Epsilon" -> {<<>>}
    [] OTHER               -> {<<Nt(x)>>}

\* The items it commits as it does so.
RECURSIVE CommittedBy(_)
CommittedBy(x) ==
  CASE Kind(x) = "Alt" -> UNION { CommittedBy(i) : i \in Range(Members(x)) }
    [] Kind(x) = "Seq" -> {}
    [] OTHER           -> {x}

(***************************************************************************)
(* contents() and commit(): the rule a combination is expanded to, and the *)
(* items that are committed on the way.  A Prefix does not commit its      *)
(* operand: contents() did when it was made.                               *)
(***************************************************************************)
Body(x) ==
  CASE Kind(x) \in {"Seq", "Alt"} -> AlternativesOf(x)
    [] Kind(x) = "Rep01" -> AlternativesOf(Operand(x)) \cup {<<>>}
    [] Kind(x) = "Rep0N" -> {<<>>, <<Nt(Operand(x)), Nt(x)>>}
    [] Kind(x) = "Rep1N" -> AlternativesOf(Nt(Operand(x))) \cup {<<Nt(Operand(x)), Nt(x)>>}
    [] Kind(x) \in Fixes -> {<<Nt(Operand(x)), <<"NT", x[3]>> >>}

Brings(x) ==
  CASE Kind(x) \in {"Seq", "Alt"}     -> Range(Members(x))
    [] Kind(x) \in {"Rep0N", "Rep1N"} -> {Operand(x)}
    [] Kind(x) = "Rep01"              -> CommittedBy(Operand(x))
    [] OTHER                          -> {}

\* The combinations whose rules the rewriting of an item adds to the grammar.
RECURSIVE Commits(_)
Commits(x) ==
  IF IsCombination(x) THEN {x} \cup UNION { Commits(y) : y \in Brings(x) } ELSE {}

CommitsAll(X) == UNION { Commits(x) : x \in X }

\* Those committed while the items of n are made, and not found in the registry.
CommitsAsMade(n, registry) ==
  CommitsAll({ Operand(m) : m \in { k \in Nodes(n) \ registry :
                                      Kind(k) \in {"Rep0N", "Rep1N"} \cup Fixes } })

(***************************************************************************)
(* A Grammar as the closure and the automaton see it: LRGrammar's value.   *)
(* The rules it holds, and those the combinations in them will bring.      *)
(***************************************************************************)
Auto(X) == { <<"auto", x>> : x \in X }

RuleOf(known, t) ==
  IF t \in DOMAIN known THEN known[t] ELSE IF Kind(t) = "auto" THEN Body(t[2]) ELSE {}

SymbolsIn(known, T) == UNION { UNION { Range(r) : r \in RuleOf(known, t) } : t \in T }

RECURSIVE Mentioned(_, _)
Mentioned(known, T) ==
  LET symbols == SymbolsIn(known, T)
      more    == { s \in symbols : Kind(s) \in {"NT", "auto"} }
                 \cup Auto(CommitsAll(symbols))
  IN  IF more \subseteq T THEN T ELSE Mentioned(known, T \cup more)

GrammarValue(known, named) ==
  LET tags    == Mentioned(known, DOMAIN known)
      symbols == SymbolsIn(known, tags)
      wrapped == { s \in symbols : IsCombination(s) }
      tokens  == { s \in symbols : Kind(s) \notin {"NT", "auto"} } \ wrapped
  IN [ rules  |-> [t \in tags |-> RuleOf(known, t)],
       listed |-> DOMAIN known,
       wraps  |-> [c \in wrapped |->
                     [ tag     |-> Nt(c),
                       commits |-> Auto(Commits(c)),
                       via     |-> CASE Kind(c) = "Seq"   -> "self"
                                     [] Kind(c) \in Fixes -> "none"
                                     [] OTHER             -> "nt" ]],
       tokens |-> [s \in tokens |-> CASE Kind(s) = "T"   -> "t"
                                      [] Kind(s) = "BOW" -> "bow"
                                      [] Kind(s) = "RE"  -> "re"
                                      [] OTHER           -> "none"],
       start  |-> <<"NT", "_start">>,
       transient |-> { t \in tags : RuleOf(known, t) # {} } \ named ]
=============================================================================
