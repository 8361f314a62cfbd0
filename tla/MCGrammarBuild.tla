--------------------------- MODULE MCGrammarBuild ----------------------------
(* Instances of GrammarBuild for TLC, and where grammars of SampleGrammars  *)
(* come from.                                                                *)
EXTENDS GrammarBuild, SampleGrammars

a == <<"T", "a">>
b == <<"T", "b">>
c == <<"T", "c">>
Y == <<"NT", "Y">>

Combined(S) ==
  UNION { { <<"Rep01", x>>, <<"Rep0N", x>>, <<"Rep1N", x>>, <<"Prefix", x, "Y">>,
            <<"Postfix", x, "Y">>, <<"Seq", x, b>>, <<"Alt", b, x>> } : x \in S }

\* Every combination of combinations of a token or an Nt, and a few more.
Bodies ==
  Combined({a, Y}) \cup Combined(Combined({a, Y})) \cup Combined(Combined(Combined({a}))) \cup
  { <<"Seq", a, <<"Rep0N", <<"Alt", a, <<"Rep01", <<"Seq", b, a>> >> >> >>, c>>,
    <<"Alt", <<"Comment", "x">>, <<"Alt", a, <<"Seq", b, <<"Rep1N", <<"Seq", a, <<"RPL">> >> >> >> >> >>,
    <<"Seq", <<"Space">>, <<"Rep01", <<"Alt", <<"Epsilon">>, <<"RE", "r">> >> >>, <<"BOW", "w">>, <<"NT", "Z">> >>,
    <<"Seq", a, <<"Epsilon">> >>,
    <<"Alt", <<"RPL">> , a>> }

Rule(tag, body) == <<"OperatorRule", tag, body>>
TreesOf(x) ==
  LET Start_ == Rule("_start", <<"NT", "X">>)
      Ys == <<"TransientRule", "Y", <<"T", "y">> >>
      More == Rule("X", <<"Rep1N", a>>)
  IN { <<Start_, Rule("X", x), Ys>>,
       <<Ys, <<"Comment", "x">>, More, Rule("X", x), Start_>>,
       <<Rule("X", x), Start_, <<"Comment", "x">>, Ys, More>> }

MCTrees ==
  UNION { TreesOf(x) : x \in Bodies } \cup
  { <<Rule("_start", a), <<"TransientRule", "_whitespace", w>> >> :
      w \in { <<"RE", "r">>, <<"Alt", <<"T", " ">>, <<"Seq", <<"RE", "r">>, a>> >>,
              <<"Rep0N", <<"T", " ">> >>, <<"Epsilon">> } }

(***************************************************************************)
(* The sample grammars with combinations are what is built from the tree   *)
(* their comment gives, under shorter names.                               *)
(***************************************************************************)
BuiltFrom(bodies, registry_) ==
  LET made_(r) == Merged(Rules(CommitsAsMade(r, registry_) \cup CommitsAll(CommittedBy(Item(r)))), <<>>)
      rules    == "_start" :> <<"NT", "X">> @@ bodies
      known_   == FoldSet(Merged, <<>>,
                    { Merged(made_(rules[k]), <<"NT", k>> :> AlternativesOf(Item(rules[k]))) : k \in DOMAIN rules })
  IN  GrammarValue(known_, { <<"NT", k>> : k \in DOMAIN bodies })

Renamed(v, names) ==
  LET N(s) == IF s \in DOMAIN names THEN names[s] ELSE s[2]
      Set(S) == { N(s) : s \in S }
      Old(S, x) == CHOOSE s \in S : N(s) = x
  IN [ rules  |-> [x \in Set(DOMAIN v.rules) |->
                     { [k \in DOMAIN r |-> N(r[k])] : r \in v.rules[Old(DOMAIN v.rules, x)] }],
       listed |-> Set(v.listed),
       wraps  |-> [x \in Set(DOMAIN v.wraps) |->
                     LET w == v.wraps[Old(DOMAIN v.wraps, x)]
                     IN [tag |-> N(w.tag), commits |-> Set(w.commits), via |-> w.via]],
       tokens |-> [x \in Set(DOMAIN v.tokens) |-> v.tokens[Old(DOMAIN v.tokens, x)]],
       start  |-> N(v.start),
       transient |-> Set(v.transient) ]

Matches(sample, v, names) == Renamed(v, names) = [f \in DOMAIN v |-> sample[f]]

Q   == <<"T", "q">>
AB  == <<"Alt", a, b>>
Rep == <<"Rep0N", AB>>
In  == <<"Rep01", b>>
Opt == <<"Rep01", In>>
Pre == <<"Prefix", AB, "Y">>
PreQ == <<"Prefix", <<"NT", "Q">>, "Y">>
BC  == <<"Seq", b, c>>

ASSUME
  /\ Matches(Repetition, BuiltFrom("X" :> <<"Seq", a, Rep, c>>, {}),
             Rep :> "rep" @@ Nt(Rep) :> "Rep0N" @@ Nt(AB) :> "Alt")
  /\ Matches(Optional, BuiltFrom("X" :> <<"Seq", Opt, c>>, {}),
             Opt :> "opt" @@ Nt(Opt) :> "Rep01" @@ Nt(In) :> "Rep01_in")
  /\ Matches(Prefixed, BuiltFrom("X" :> Pre @@ "Y" :> <<"T", "y">>, {}),
             Nt(Pre) :> "Prefix" @@ Nt(AB) :> "Alt")
  /\ Matches(PrefixedAgain, BuiltFrom("X" :> Pre @@ "Y" :> <<"T", "y">>, {a, b, AB, Pre}),
             Nt(Pre) :> "Prefix" @@ Nt(AB) :> "Alt")
  /\ Matches(PrefixInSeq, BuiltFrom("X" :> <<"Seq", a, PreQ>> @@ "Q" :> Q @@ "Y" :> <<"T", "y">>, {}),
             PreQ :> "pre" @@ Nt(PreQ) :> "Prefix")
  /\ Matches(SeqInSeq, BuiltFrom("X" :> <<"Seq", a, BC>>, {}), BC :> "seq" @@ Nt(BC) :> "Seq")
=============================================================================
