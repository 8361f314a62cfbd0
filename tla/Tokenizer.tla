------------------------------ MODULE Tokenizer ------------------------------
(***************************************************************************)
(* The tokenizer (tokenizer.h) and the tokens it runs (lr_grammar.h).      *)
(* A text is a sequence of characters and an offset counts those before it.*)
(* A token is the set of words it matches, g.words[x]: one for a T, the    *)
(* words of the bag for a Bow, a finite language for a Re; g.keeps has the *)
(* tokens that produce an atom.  Words are not empty.                      *)
(*                                                                         *)
(* An AST list is a sequence of trees [atom, tag, ofs, kids].  An atom has *)
(* the word it read for its tag, the tree of a rule has << its tag >>, the *)
(* offset it was reduced at and the list of what it is made of.            *)
(* PRODUCTION_OK_BUT_EMPTY is the empty list.                              *)
(***************************************************************************)
EXTENDS Naturals, SequencesExt

HasWords(g) ==
  \A x \in DOMAIN g.tokens : \A w \in g.words[x] : w \in Seq(ToSet(w))

\* Grammar::skip
Skip(g, text, o) ==
  Min({ k \in o .. Len(text) : k = Len(text) \/ text[k + 1] \notin g.ws })

IsAt(text, o, w) ==
  o + Len(w) <= Len(text) /\ SubSeq(text, o + 1, o + Len(w)) = w

Found(g, text, o, x) == { w \in g.words[x] : IsAt(text, o, w) }

\* recognize(): a token that matches takes the longest word it can.
Recognized(g, text, o, x) ==
  CHOOSE w \in Found(g, text, o, x) :
     \A v \in Found(g, text, o, x) : Len(v) <= Len(w)

Tree(tag, o, list) == [atom |-> FALSE, tag |-> <<tag>>, ofs |-> o, kids |-> list]
Atom(word, o)      == [atom |-> TRUE, tag |-> word, ofs |-> o, kids |-> <<>>]

Production(g, text, o, x) ==
  IF x \in g.keeps THEN << Atom(Recognized(g, text, o, x), o) >> ELSE <<>>

(***************************************************************************)
(* tokenizer::consume: of the recognizers that match, only those that      *)
(* match the most characters are kept, whichever state asked for them.     *)
(***************************************************************************)
Consumed(g, text, o, X) ==
  LET ends == { o + Len(Recognized(g, text, o, x)) :
                  x \in {y \in X : Found(g, text, o, y) # {}} }
  IN Max(ends \cup {o})

Results(g, text, o, X) ==
  { x \in X : /\ Found(g, text, o, x) # {}
              /\ o + Len(Recognized(g, text, o, x)) = Consumed(g, text, o, X) }
=============================================================================
