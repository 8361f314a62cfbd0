--------------------------- MODULE SampleGrammars ----------------------------
(***************************************************************************)
(* Grammars for the model-checking modules.  Each is the value LRGrammar   *)
(* describes, of a grammar tinyap reads; the comment gives its source.     *)
(* The start rule is _start = (NT X), as automaton::test sets it, but in   *)
(* the last.                                                               *)
(***************************************************************************)
EXTENDS Sequences, TLC

LOCAL Start == "_start" :> {<<"X">>}

LOCAL Plain(rules, tokens) ==
  [ rules  |-> Start @@ rules,
    listed |-> DOMAIN (Start @@ rules),
    wraps  |-> [c \in {} |-> c],
    tokens |-> [s \in tokens |-> "t"],
    start  |-> "_start",
    transient |-> {"_start"},
    prefix |-> {},
    postfix |-> {},
    words  |-> [s \in tokens |-> {<<s>>}],
    keeps  |-> {},
    ws     |-> {} ]

LOCAL Wrap(tag, commits, via) == [tag |-> tag, commits |-> commits, via |-> via]

\* X = (Seq (NT X) (T a)) | (T a)
LeftRecursive == Plain("X" :> {<<"X", "a">>, <<"a">>}, {"a"})

\* X = (Seq (T a) (NT X)) | (T a)
RightRecursive == Plain("X" :> {<<"a", "X">>, <<"a">>}, {"a"})

\* X = (NT X) | (T a)
Cyclic == Plain("X" :> {<<"X">>, <<"a">>}, {"a"})

\* X = (Seq (NT E) (NT X) (T a)) | (T b);  E = (Epsilon)
HiddenLeft ==
  Plain("X" :> {<<"E", "X", "a">>, <<"b">>} @@ "E" :> {<<>>}, {"a", "b"})

\* X = (Seq (NT Y) (T a)) | (T b);  Y = (Seq (NT X) (T a)) | (NT Z), Z undefined
Mutual ==
  [ Plain("X" :> {<<"Y", "a">>, <<"b">>} @@ "Y" :> {<<"X", "a">>, <<"Z">>}
          @@ "Z" :> {}, {"a", "b"})
    EXCEPT !.listed = {"_start", "X", "Y"} ]

\* X = (Seq (T a) (Rep0N (Alt (T a) (T b))) (T c))
Repetition ==
  [ Plain("X" :> {<<"a", "rep", "c">>} @@ "Rep0N" :> {<<>>, <<"Alt", "Rep0N">>}
          @@ "Alt" :> {<<"a">>, <<"b">>}, {"a", "b", "c"})
    EXCEPT !.listed = {"_start", "X", "Alt"},
           !.transient = {"_start", "Rep0N", "Alt"},
           !.wraps = "rep" :> Wrap("Rep0N", {"Rep0N", "Alt"}, "nt") ]

\* X = (Seq (Rep01 (Rep01 (T b))) (T c))
Optional ==
  [ Plain("X" :> {<<"opt", "c">>} @@ "Rep01" :> {<<"Rep01_in">>, <<>>}
          @@ "Rep01_in" :> {<<"b">>, <<>>}, {"b", "c"})
    EXCEPT !.listed = {"_start", "X"},
           !.transient = {"_start", "Rep01", "Rep01_in"},
           !.wraps = "opt" :> Wrap("Rep01", {"Rep01", "Rep01_in"}, "nt") ]

\* X = (Prefix (Alt (T a) (T b)) (NT Y));  Y = (T y)
Prefixed ==
  [ Plain("X" :> {<<"Prefix">>} @@ "Prefix" :> {<<"Alt", "Y">>}
          @@ "Alt" :> {<<"a">>, <<"b">>} @@ "Y" :> {<<"y">>}, {"a", "b", "y"})
    EXCEPT !.transient = {"_start", "Prefix", "Alt"} ]

\* The same, in the second Grammar made from these rules: item::base::from_ast
\* returns the Prefix of the first, so that only its own rule is committed.
PrefixedAgain ==
  [ Prefixed EXCEPT !.listed = {"_start", "X", "Prefix", "Y"} ]

\* X = (Seq (T a) (Prefix (NT Q) (NT Y)));  Q = (T q);  Y = (T y)
PrefixInSeq ==
  [ Plain("X" :> {<<"a", "pre">>} @@ "Prefix" :> {<<"Q", "Y">>}
          @@ "Q" :> {<<"q">>} @@ "Y" :> {<<"y">>}, {"a", "q", "y"})
    EXCEPT !.listed = {"_start", "X", "Q", "Y"},
           !.transient = {"_start", "Prefix"},
           !.wraps = "pre" :> Wrap("Prefix", {"Prefix"}, "none") ]

\* X = (Seq (T a) (Seq (T b) (T c)))
SeqInSeq ==
  [ Plain("X" :> {<<"a", "seq">>} @@ "Seq" :> {<<"b", "c">>}, {"a", "b", "c"})
    EXCEPT !.listed = {"_start", "X"},
           !.transient = {"_start", "Seq"},
           !.wraps = "seq" :> Wrap("Seq", {"Seq"}, "self") ]

\* X = (Seq (T a) (NT X) (T b)) | (T c)
Nested == Plain("X" :> {<<"a", "X", "b">>, <<"c">>}, {"a", "b", "c"})

\* X = (Seq (NT L) (T z));  transient L = (Seq (NT L) (NT Y)) | (NT Y);
\* Y = (RE a|b);  blanks are skipped
EndedList ==
  [ Plain("X" :> {<<"L", "z">>} @@ "L" :> {<<"L", "Y">>, <<"Y">>}
          @@ "Y" :> {<<"y">>}, {"y", "z"})
    EXCEPT !.tokens = "y" :> "re" @@ "z" :> "t",
           !.words = "y" :> {<<"a">>, <<"b">>} @@ "z" :> {<<"z">>},
           !.keeps = {"y"},
           !.transient = {"_start", "L"},
           !.ws = {" "} ]

\* X = (Seq (T a) (NT E) (T b));  E = (Epsilon)
EmptyInside ==
  Plain("X" :> {<<"a", "E", "b">>} @@ "E" :> {<<>>}, {"a", "b"})

\* X = (NT A) | (NT B) | (NT C);  A = (T p);  B = (BOW w);  C = (RE p+):
\* one word, read as a token of each class, as in test.cc:568-569
ThreeReadings ==
  [ Plain("X" :> {<<"A">>, <<"B">>, <<"C">>} @@ "A" :> {<<"t">>}
          @@ "B" :> {<<"w">>} @@ "C" :> {<<"r">>}, {"t", "w", "r"})
    EXCEPT !.tokens = "t" :> "t" @@ "w" :> "bow" @@ "r" :> "re",
           !.words = "t" :> {<<"p">>} @@ "w" :> {<<"p">>, <<"q", "q">>}
                  @@ "r" :> {<<"p">>, <<"p", "p">>},
           !.keeps = {"r"} ]

\* X = (T a) | (Seq (NT Z) (T b));  Z = (NT Y);  Y = (T a)
LateReduction ==
  Plain("X" :> {<<"a">>, <<"Z", "b">>} @@ "Z" :> {<<"Y">>} @@ "Y" :> {<<"a">>},
        {"a", "b"})

\* X = (Seq (T a) (T b) (T c)) | (NT Y);  Y = (T a)
ShiftOrReduce ==
  Plain("X" :> {<<"a", "b", "c">>, <<"Y">>} @@ "Y" :> {<<"a">>}, {"a", "b", "c"})

\* X = (Seq (NT X) (NT X)) | (T a), as in test.cc:523
Doubling == Plain("X" :> {<<"X", "X">>, <<"a">>}, {"a"})

\* X = (Seq (NT A) (NT X) (NT X)) | (T a);  A = (Seq (NT A) (NT X)) | (T a);
\* blanks are skipped: many nodes are active at once
Crowded ==
  [ Plain("X" :> {<<"A", "X", "X">>, <<"a">>} @@ "A" :> {<<"A", "X">>, <<"a">>}, {"a"})
    EXCEPT !.ws = {" "} ]

\* X = (Seq (NT X) (NT A)) | (NT B);  A = (T a);  B = (T b): "lefty", the
\* left-recursive rule of tutorial.h:106
Lefty ==
  Plain("X" :> {<<"X", "A">>, <<"B">>} @@ "A" :> {<<"a">>} @@ "B" :> {<<"b">>},
        {"a", "b"})

\* X = (Seq (T a) (T b)) | (Seq (RE ab) (T c))
TwoLengths ==
  [ Plain("X" :> {<<"a", "b">>, <<"ab", "c">>}, {"a", "b", "c", "ab"})
    EXCEPT !.tokens = [s \in {"a", "b", "c", "ab"} |-> IF s = "ab" THEN "re" ELSE "t"],
           !.words = [s \in {"a", "b", "c", "ab"} |->
                        IF s = "ab" THEN {<<"a", "b">>} ELSE {<<s>>}],
           !.keeps = {"ab"} ]

\* X = (Prefix (NT S) (NT Y)) | (Postfix (NT B) (NT Y)) | (NT Y);
\* S = (RE s);  B = (RE b);  Y = (RE y) | (Seq (NT S) (RE y))
Fixed ==
  [ Plain("X" :> {<<"Prefix">>, <<"Postfix">>, <<"Y">>} @@ "Prefix" :> {<<"S", "Y">>}
          @@ "Postfix" :> {<<"B", "Y">>} @@ "S" :> {<<"s">>} @@ "B" :> {<<"b">>}
          @@ "Y" :> {<<"y">>, <<"S", "y">>}, {"s", "b", "y"})
    EXCEPT !.tokens = [x \in {"s", "b", "y"} |-> "re"],
           !.keeps = {"s", "b", "y"},
           !.transient = {"_start"},
           !.prefix = {"Prefix"},
           !.postfix = {"Postfix"} ]

\* _start = (Epsilon)
Unstarted == [ Plain([t \in {} |-> {}], {"a"}) EXCEPT !.rules = "_start" :> {<<>>} ]
=============================================================================
