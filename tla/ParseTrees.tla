----------------------------- MODULE ParseTrees ------------------------------
(***************************************************************************)
(* What a grammar says a text is, without an automaton or a stack: a tag   *)
(* derives a stretch of the text, and the AST list it makes of it, when    *)
(* one of its alternatives does, symbol by symbol.  It is the reference    *)
(* the parser's answers are compared with.  Offsets of the AST are left    *)
(* out: they say where the parser was, not what the text is.               *)
(***************************************************************************)
EXTENDS LRGrammar, Tokenizer, SequencesExt

\* A fact: tag t makes list of the text between two (skipped) offsets.
Fact(t, from, to, list) == [t |-> t, from |-> from, to |-> to, list |-> list]

RECURSIVE Plain(_)
Plain(list) ==
  [ k \in DOMAIN list |-> [ atom |-> list[k].atom, tag |-> list[k].tag,
                            kids |-> Plain(list[k].kids) ] ]

\* What one symbol makes of the text from o on, by the facts known.
Steps(g, text, facts, s, o) ==
  IF s \notin DOMAIN g.tokens
    THEN { [to |-> f.to, list |-> f.list] :
             f \in {h \in facts : h.t = Rewritten(g, s) /\ h.from = o} }
    ELSE IF Found(g, text, o, s) = {} THEN {}
    ELSE { [to   |-> Skip(g, text, o + Len(Recognized(g, text, o, s))),
            list |-> Plain(Production(g, text, o, s))] }

\* What the symbols of an alternative make of it.
Sequels(g, text, facts, rhs, o) ==
  LET upto[k \in 0 .. Len(rhs)] ==
        IF k = 0 THEN { [to |-> o, list |-> <<>>] }
        ELSE UNION { { [to |-> b.to, list |-> a.list \o b.list] :
                         b \in Steps(g, text, facts, rhs[k], a.to) } : a \in upto[k - 1] }
  IN upto[Len(rhs)]

\* The list a rule makes of those of its symbols: it gives them a name, adds
\* all but the last to the operands of the last, or neither.
Named(g, t, list) ==
  LET kids == IF list = <<>> THEN <<>> ELSE Last(list).kids
  IN CASE t \in g.prefix    -> << [Last(list) EXCEPT !.kids = Front(list) \o kids] >>
       [] t \in g.postfix   -> << [Last(list) EXCEPT !.kids = kids \o Front(list)] >>
       [] t \in g.transient -> list
       [] OTHER             -> << [atom |-> FALSE, tag |-> <<t>>, kids |-> list] >>

Concluded(g, text, facts) ==
  UNION { UNION { { Fact(t, o, q.to, Named(g, t, q.list)) :
                      q \in Sequels(g, text, facts, rhs, o) } :
                    rhs \in g.rules[t] } : t \in Tags(g), o \in 0 .. Len(text) }

\* Everything there is to conclude; a cyclic grammar has no end of it.
RECURSIVE Grown(_, _, _)
Grown(g, text, facts) ==
  LET more == Concluded(g, text, facts)
  IN IF more \subseteq facts THEN facts ELSE Grown(g, text, more \cup facts)

Facts(g, text) == Grown(g, text, {})

\* The trees a whole text has.
Readings(g, text) ==
  { f.list : f \in {h \in Facts(g, text) : /\ h.t = g.start
                                          /\ h.from = Skip(g, text, 0)
                                          /\ h.to = Len(text)} }
=============================================================================
