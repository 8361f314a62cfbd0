-------------------------- MODULE MCUnparseCorrect ---------------------------
(* Grammars for UnparseCorrect, as their ASTs, and the trees of their texts. *)
EXTENDS UnparseCorrect

Op(op, kids)  == [op |-> op, kids |-> kids]
T(w)          == Op("T", <<Leaf(w)>>)
NT(r)         == Op("NT", <<Leaf(r)>>)
RE            == Op("RE", <<Leaf("[12]")>>)
Str           == Op("STR", <<Leaf("'"), Leaf("'")>>)
Row(xs)       == Op("Seq", xs)
Alt(xs)       == Op("Alt", xs)
Rep01(x)      == Op("Rep01", <<x>>)
Rep0N(x)      == Op("Rep0N", <<x>>)
Rep1N(x)      == Op("Rep1N", <<x>>)
Prefix(x, r)  == Op("Prefix", <<x, NT(r)>>)
Postfix(x, r) == Op("Postfix", <<x, NT(r)>>)
Space         == Op("Space", <<>>)
NewLine       == Op("NewLine", <<>>)
Indent        == Op("Indent", <<>>)
Dedent        == Op("Dedent", <<>>)
Named(r, x)     == Op("OperatorRule", <<Leaf(r), x>>)
Transient(r, x) == Op("TransientRule", <<Leaf(r), x>>)
Grammar(rules)  == make_wast(Op("Grammar", rules))

\* Pairs: x "," y ")", with layout, x and y numbers or pairs.
Pairs == Grammar(<<
  Transient("_start", NT("Pair")),
  Transient("X", Alt(<<NT("Pair"), NT("N")>>)),
  Named("N", RE),
  Named("Pair", Row(<<Indent, NewLine, NT("X"), T(","), Space, NT("X"), Dedent, T(")")>>)) >>)

\* A list of numbers and of strings, some alternatives tried in vain.
Lists == Grammar(<<
  Op("Comment", <<Leaf("a list")>>),
  Named("_start", Row(<<T("["), Rep0N(Alt(<<Row(<<T("n"), Space, NT("N")>>), NT("S")>>)), T("]"), Op("EOF", <<>>)>>)),
  Named("N", RE),
  Op("Comment", <<Leaf("N")>>),
  Named("S", Str) >>)

\* E = E "+" N | N, recursive on the left and transient.
Sums == Grammar(<<
  Named("_start", NT("E")),
  Transient("E", Alt(<<Row(<<NT("E"), Space, T("+"), Space, NT("N")>>), NT("N")>>)),
  Named("N", RE) >>)

\* A number before, and one after, the operands of the node that follows.
Fronts == Grammar(<<
  Transient("_start", Prefix(NT("N"), "Y")),
  Named("Y", Row(<<T("y"), NT("N"), Rep0N(NT("Z"))>>)),
  Named("Z", Row(<<T("z"), RE>>)),
  Named("N", RE) >>)

Backs == Grammar(<<
  Transient("_start", Alt(<<Postfix(NT("N"), "Y"), Postfix(NT("Z"), "Y")>>)),
  Named("Y", Row(<<T("y"), Rep1N(NT("M"))>>)),
  Named("Z", Row(<<T("z"), RE>>)),
  Named("M", RE),
  Named("N", RE) >>)

\* The way to undo a choice is long: a, b, or c after numbers.
Tries == Grammar(<<
  Named("_start", Alt(<<Row(<<Indent, NT("N"), T("a"), NT("A")>>),
                        Row(<<NT("N"), T("b"), NewLine, NT("B"), Space>>),
                        Row(<<NT("N"), Space, NT("N"), T("c")>>)>>)),
  Named("N", RE), Named("A", RE), Named("B", Rep1N(RE)) >>)

\* The formatter of the tutorial.
Tagged == Grammar(<<
  Transient("_start", NT("foobar")),
  Named("foobar", Row(<<Rep01(T("<em>")), RE, Rep01(T("</em>"))>>)) >>)

\* Alternatives that begin alike, the shorter first.
Shorter == Grammar(<<
  Named("_start", Alt(<<NT("N"), Row(<<NT("N"), T("c"), NT("N")>>)>>)),
  Named("N", RE) >>)

\* A repeated word takes nothing of the tree.
Endless == Grammar(<<
  Named("_start", Row(<<Rep0N(T("a")), NT("N")>>)), Named("N", RE) >>)

\* Two rules recursive on the left, the second in the first.
Levels == Grammar(<<
  Named("_start", NT("E")),
  Transient("E", Alt(<<Row(<<NT("E"), T("+"), NT("F")>>), NT("F")>>)),
  Transient("F", Alt(<<Row(<<NT("F"), T("*"), NT("M")>>), NT("N")>>)),
  Named("M", RE), Named("N", RE) >>)

\* A Prefix in the node of a Prefix, which is unproduced again after its first
\* alternative has failed: EOF is not at the end.
Nests == Grammar(<<
  Named("_start", Row(<<NT("P"), NT("K")>>)),
  Transient("P", Prefix(NT("N"), "W")),
  Transient("W", Alt(<<Row(<<NT("Y"), Op("EOF", <<>>)>>), Row(<<NT("Y"), T("b")>>)>>)),
  Named("Y", Row(<<T("y"), NT("V")>>)),
  Transient("V", Prefix(NT("N"), "Z")),
  Named("Z", Row(<<T("z"), RE>>)),
  Named("K", RE),
  Named("N", RE) >>)

MCGrammars ==
  [ pairs |-> Pairs, lists |-> Lists, sums |-> Sums, fronts |-> Fronts,
    backs |-> Backs, tries |-> Tries, nests |-> Nests, tagged |-> Tagged,
    shorter |-> Shorter, endless |-> Endless, levels |-> Levels ]

\* The unparser compares no leaf with another: they are 1, 2, 1, ... in order.
RECURSIVE Leaves(_)
Leaves(a) == IF a.kids = <<>> THEN <<a.op>>
             ELSE FoldLeft(LAMBDA ls, k : ls \o Leaves(k), <<>>, a.kids)

MCAsts ==
  { a \in UNION { Parsed(k) : k \in DOMAIN MCGrammars } :
      LET ls == Leaves(a) IN \A i \in DOMAIN ls : ls[i] \in Lexemes => ls[i] = <<"2", "1">>[1 + (i % 2)] }
=============================================================================
