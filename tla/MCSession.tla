------------------------------ MODULE MCSession ------------------------------
(***************************************************************************)
(* Session for TLC: texts whose lines end in each of the three ways, one   *)
(* of five lines, and a tree whose atoms hold each character that has to   *)
(* be escaped, and one that looks like an escape.  "x" is any character    *)
(* that ends no line.                                                      *)
(***************************************************************************)
EXTENDS Session

MCTexts ==
  { <<"x", "\n">>, <<"\n", "x", "\n", "x">>, <<"x", "\r", "\n", "x">>,
    <<"\r", "\r", "\n", "x">>, <<"x", "\n", "x", "\n", "\n", "x", "\n", "x">> }

MCGarbage == {-1000, 1000}

MCShort == Node(<<Node(<<Atom(<<"G">>, 0)>>)>>)

MCTrees ==
  { Node(<<Node(<<Atom(<<"X">>, 1), Node(<<Atom(<<"a", "\\", "n">>, 2)>>),
                  Atom(<<"(", " ", "\t", "\r", "\n", ")", "\\">>, 3)>>)>>) }
=============================================================================
