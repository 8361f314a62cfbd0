--------------------------- MODULE UnparseCorrect ----------------------------
(***************************************************************************)
(* What a grammar says the texts of a tree are, without an iterator or a   *)
(* buffer: a grammar derives texts together with the trees a parse makes   *)
(* of them (ParseTrees has the names and the order of the operands).  The  *)
(* texts of the unparser are compared with it, layout apart.               *)
(***************************************************************************)
EXTENDS Unparser

CONSTANTS Lexemes,      \* what an RE matches
          MaxText,      \* how long texts are (bound)
          MaxRules,     \* how deep rules are nested in them (bound)
          Faithful      \* the grammars whose texts are to read back

Derivation(text, forest) == [text |-> text, forest |-> forest]
Nothing == Derivation(<<>>, <<>>)
Leaf(w) == [op |-> w, kids |-> <<>>]

Short(D) == { d \in D : Len(d.text) <= MaxText }
Then(D, E) == Short({ Derivation(d.text \o e.text, d.forest \o e.forest) : d \in D, e \in E })

RECURSIVE Again(_, _)
Again(D, E) == LET more == D \cup Then(D, E) IN IF more = D THEN D ELSE Again(more, E)

\* x, then y with the trees of x as further operands of the last of y.
WithOperands(x, y, joined(_, _)) ==
  Derivation(x.text \o y.text,
             Append(Front(y.forest),
                    [Last(y.forest) EXCEPT !.kids = joined(x.forest, @)]))

RECURSIVE Derived(_, _, _)
Derived(g, x, depth) ==
  LET parts == [i \in 1 .. wa_opd_count(g, x) |-> wa_opd(g, x, i - 1)]
      D(i)  == Derived(g, parts[i], depth)
      rules == { r \in Range(g.operands[g.root]) :
                   wa_op(g, r) # "Comment" /\ wa_op(g, wa_opd(g, r, 0)) = wa_op(g, parts[1]) }
  IN CASE wa_op(g, x) = "T"     -> { Derivation(<<wa_op(g, parts[1])>>, <<>>) }
       [] wa_op(g, x) = "RE"    -> { Derivation(<<w>>, <<Leaf(w)>>) : w \in Lexemes }
       [] wa_op(g, x) = "STR"   ->
            { Derivation(<<wa_op(g, parts[1]), w, wa_op(g, parts[2])>>, <<Leaf(w)>>) : w \in Lexemes }
       [] wa_op(g, x) \in {"Seq", "RawSeq"} ->
            FoldLeft(LAMBDA E, i : Then(E, D(i)), {Nothing}, [i \in DOMAIN parts |-> i])
       [] wa_op(g, x) = "Alt"   -> UNION { D(i) : i \in DOMAIN parts }
       [] wa_op(g, x) = "Rep01" -> {Nothing} \cup D(1)
       [] wa_op(g, x) = "Rep0N" -> Again({Nothing}, D(1))
       [] wa_op(g, x) = "Rep1N" -> Again(D(1), D(1))
       [] wa_op(g, x) = "NT"    -> UNION { Derived(g, r, depth) : r \in rules }
       [] wa_op(g, x) \in {"OperatorRule", "TransientRule"} /\ depth = 0 -> {}
       [] wa_op(g, x) = "TransientRule" -> Derived(g, parts[2], depth - 1)
       [] wa_op(g, x) = "OperatorRule"  ->
            { Derivation(d.text, <<[op |-> wa_op(g, parts[1]), kids |-> d.forest]>>) :
                d \in Derived(g, parts[2], depth - 1) }
       [] wa_op(g, x) = "Prefix" ->
            Short({ WithOperands(d, e, LAMBDA xs, kids : xs \o kids) :
                      d \in D(1), e \in { f \in D(2) : f.forest # <<>> } })
       [] wa_op(g, x) = "Postfix" ->
            Short({ WithOperands(d, e, LAMBDA xs, kids : kids \o xs) :
                      d \in D(1), e \in { f \in D(2) : f.forest # <<>> } })
       [] OTHER -> {Nothing}

\* From the start rule, whose node is looked for.
Start(g) == CHOOSE r \in Range(g.operands[g.root]) : wa_op(g, wa_opd(g, r, 0)) = "_start"
Derivations ==
  [k \in DOMAIN Grammars |-> Derived(Grammars[k], Start(Grammars[k]), MaxRules)]

\* The trees a parse by grammar k makes of short texts.
Parsed(k) == { d.forest[1] : d \in { e \in Derivations[k] : Len(e.forest) = 1 } }

Unparsed == result \notin {NotYet, None, Hangs}
Words    == SelectSeq(result, LAMBDA w : w \notin Layout)

\* a is b with some operands left out, here or below.
RECURSIVE Within(_, _)
Within(as, bs) ==
  \/ as = <<>>
  \/ /\ bs # <<>>
     /\ \/ Within(as, Tail(bs))
        \/ /\ Head(as).op = Head(bs).op
           /\ Within(Head(as).kids, Head(bs).kids) /\ Within(Tail(as), Tail(bs))
-----------------------------------------------------------------------------
(***************************************************************************)
(* Nothing is invented: what is written, layout apart, is a text the       *)
(* grammar has for the tree or for the tree with operands left out,        *)
(* whatever was tried and taken back on the way.                           *)
(***************************************************************************)
NothingInvented ==
  Unparsed /\ Len(Words) <= MaxText =>
    \E d \in Derivations[grammar] : d.text = Words /\ Within(d.forest, <<ast>>)

(***************************************************************************)
(* Where the grammar has no optional element and no alternative that is    *)
(* the beginning of a longer one after it, nothing is lost: the tree of a  *)
(* text is unparsed, and to a text of that very tree.                      *)
(***************************************************************************)
ReadsBack ==
  (grammar \in Faithful /\ ast \in Parsed(grammar) /\ result # NotYet) =>
    Unparsed /\ Derivation(Words, <<ast>>) \in Derivations[grammar]
=============================================================================
