--------------------------- MODULE LRTables_proofs ---------------------------
(***************************************************************************)
(* Facts about grammars, their items and item sets, and the proof that the *)
(* tables of a grammar are its canonical automaton.                        *)
(***************************************************************************)
EXTENDS LRTables, ProofBasics, FiniteSetTheorems

(***************************************************************************)
(* Items, closures and kernels of a grammar.                               *)
(***************************************************************************)
LEMMA ItemShape ==
  ASSUME NEW G, IsGrammar(G), NEW i \in AllItems(G)
  PROVE  /\ i = [lhs |-> i.lhs, rhs |-> i.rhs, dot |-> i.dot]
         /\ i.lhs \in Tags(G) /\ i.rhs \in G.rules[i.lhs]
         /\ i.rhs \in Seq(Symbols(G))
         /\ i.dot \in 0 .. Len(i.rhs)
<1>1. PICK t \in Tags(G) : \E r \in G.rules[t] : \E d \in 0 .. Len(r) :
        i = [lhs |-> t, rhs |-> r, dot |-> d]
  BY DEF AllItems
<1>2. i.rhs \in Seq(Symbols(G))
  BY <1>1 DEF IsGrammar
<1> QED BY <1>1, <1>2

LEMMA ItemOfShape ==
  ASSUME NEW G, NEW t \in Tags(G), NEW r \in G.rules[t], NEW d \in 0 .. Len(r)
  PROVE  [lhs |-> t, rhs |-> r, dot |-> d] \in AllItems(G)
BY DEF AllItems

LEMMA AlternativesAreItems ==
  ASSUME NEW G, IsGrammar(G), NEW t \in Tags(G)
  PROVE  Alternatives(G, t) \subseteq AllItems(G)
<1> SUFFICES ASSUME NEW r \in G.rules[t]
             PROVE  [lhs |-> t, rhs |-> r, dot |-> 0] \in AllItems(G)
  BY DEF Alternatives
<1>1. r \in Seq(Symbols(G))
  BY DEF IsGrammar
<1>2. 0 \in 0 .. Len(r)
  BY <1>1
<1> QED BY <1>2, ItemOfShape

LEMMA ClosureOfItems ==
  ASSUME NEW G, IsGrammar(G), NEW I \in SUBSET AllItems(G)
  PROVE  /\ ClosureOf(G, I) \subseteq AllItems(G)
         /\ I \subseteq ClosureOf(G, I)
         /\ \A i \in ClosureOf(G, I) \ I : i.dot = 0
<1>1. Called(G, I) \subseteq Tags(G)
  BY DEF Called
<1>2. UNION {Alternatives(G, t) : t \in Called(G, I)} \subseteq AllItems(G)
  BY <1>1, AlternativesAreItems
<1>3. \A i \in UNION {Alternatives(G, t) : t \in Called(G, I)} : i.dot = 0
  BY DEF Alternatives
<1> QED BY <1>2, <1>3 DEF ClosureOf

(***************************************************************************)
(* What the symbol after a dot moves as is a symbol, and one at most.      *)
(***************************************************************************)
LEMMA MovesOneSymbol ==
  ASSUME NEW G, IsGrammar(G), NEW s \in Symbols(G), NEW x \in Moves(G, s)
  PROVE  x \in Symbols(G) /\ Moves(G, s) = {x}
<1>1. CASE s \in Combinations(G)
  <2>1. G.wraps[s] \in Wraps(G)
    BY <1>1 DEF IsGrammar, Combinations
  <2>2. G.wraps[s].tag \in Tags(G) /\ G.wraps[s].via \in {"nt", "self", "none"}
    BY <2>1 DEF Wraps
  <2>3. Moves(G, s) \in { {G.wraps[s].tag}, {s}, {} }
    BY <1>1, <2>2 DEF Moves
  <2> QED BY <2>2, <2>3 DEF Symbols
<1>2. CASE s \notin Combinations(G)
  BY <1>2 DEF Moves
<1> QED BY <1>1, <1>2

LEMMA SymbolOfItem ==
  ASSUME NEW G, IsGrammar(G), NEW i \in AllItems(G), ~AtEnd(i)
  PROVE  /\ Symbol(i) \in Symbols(G)
         /\ Advance(i) \in AllItems(G)
         /\ Advance(i).dot = i.dot + 1
<1>1. /\ i = [lhs |-> i.lhs, rhs |-> i.rhs, dot |-> i.dot]
      /\ i.lhs \in Tags(G) /\ i.rhs \in G.rules[i.lhs]
      /\ i.rhs \in Seq(Symbols(G)) /\ i.dot \in 0 .. Len(i.rhs)
  BY ItemShape
<1>2. i.dot + 1 \in 1 .. Len(i.rhs)
  BY <1>1 DEF AtEnd
<1>3. Symbol(i) \in Symbols(G)
  BY <1>1, <1>2 DEF Symbol
<1>4. Advance(i) = [lhs |-> i.lhs, rhs |-> i.rhs, dot |-> i.dot + 1]
  BY <1>1 DEF Advance
<1> QED BY <1>1, <1>2, <1>3, <1>4, ItemOfShape

LEMMA MovesAreSymbols ==
  ASSUME NEW G, IsGrammar(G), NEW I \in SUBSET AllItems(G)
  PROVE  MovesOf(G, I) \subseteq Symbols(G)
<1> SUFFICES ASSUME NEW i \in I, ~AtEnd(i), NEW x \in Moves(G, Symbol(i))
             PROVE  x \in Symbols(G)
  BY DEF MovesOf
<1> QED BY SymbolOfItem, MovesOneSymbol

LEMMA MovedAreItems ==
  ASSUME NEW G, IsGrammar(G), NEW I \in SUBSET AllItems(G), NEW x
  PROVE  Moved(G, I, x) \subseteq AllItems(G) /\ Goto(G, I, x) \subseteq AllItems(G)
<1>1. Moved(G, I, x) \subseteq AllItems(G)
  BY SymbolOfItem DEF Moved
<1> QED BY <1>1, ClosureOfItems DEF Goto

(***************************************************************************)
(* Two sets of items with one successor move to it over one symbol: the    *)
(* items of a successor that are past their start all moved over it.       *)
(***************************************************************************)
LEMMA OneSymbolToGoto ==
  ASSUME NEW G, IsGrammar(G), NEW I \in SUBSET AllItems(G), NEW J \in SUBSET AllItems(G),
         NEW x \in MovesOf(G, I), NEW y \in MovesOf(G, J), Goto(G, I, x) = Goto(G, J, y)
  PROVE  x = y
<1>1. PICK i \in I : ~AtEnd(i) /\ x \in Moves(G, Symbol(i))
  BY DEF MovesOf
<1>2. Advance(i) \in Moved(G, I, x)
  BY <1>1 DEF Moved
<1>3. Advance(i) \in Goto(G, J, y)
  BY <1>2, MovedAreItems, ClosureOfItems DEF Goto
<1>4. i.dot \in Nat /\ Advance(i).dot = i.dot + 1
  BY <1>1, ItemShape, SymbolOfItem
<1>5. Advance(i) \in Moved(G, J, y)
  BY <1>3, <1>4, MovedAreItems, ClosureOfItems DEF Goto
<1>6. PICK j \in J : ~AtEnd(j) /\ y \in Moves(G, Symbol(j)) /\ Advance(i) = Advance(j)
  BY <1>5 DEF Moved
<1>7. Symbol(i) = Symbol(j)
  <2>1. /\ i = [lhs |-> i.lhs, rhs |-> i.rhs, dot |-> i.dot] /\ i.dot \in Int
        /\ j = [lhs |-> j.lhs, rhs |-> j.rhs, dot |-> j.dot] /\ j.dot \in Int
    BY ItemShape
  <2>2. i.rhs = j.rhs /\ i.dot + 1 = j.dot + 1
    BY <1>6, <2>1 DEF Advance
  <2> QED BY <2>1, <2>2 DEF Symbol
<1> QED BY <1>1, <1>6, <1>7, SymbolOfItem, MovesOneSymbol

LEMMA StartIsKnown ==
  ASSUME NEW G, IsGrammar(G)
  PROVE  ClosureOf(G, Alternatives(G, G.start)) \in SUBSET AllItems(G)
<1>1. G.start \in Tags(G)
  BY DEF IsGrammar
<1> QED BY <1>1, AlternativesAreItems, ClosureOfItems
-----------------------------------------------------------------------------
(***************************************************************************)
(* AllStates is a recursion that ends: the sets of items not yet among the *)
(* states get fewer.                                                       *)
(***************************************************************************)
StateLists(G) == Seq(SUBSET AllItems(G))

Wanted(G, s) == Gotos(G, s) \ ToSet(s)

NextState(G, s) == CHOOSE I \in Wanted(G, s) : TRUE

StatesLeft(G, s) == Cardinality((SUBSET AllItems(G)) \ ToSet(s))

LEMMA WantedAreItemSets ==
  ASSUME NEW G, IsGrammar(G), NEW s \in StateLists(G)
  PROVE  Gotos(G, s) \subseteq SUBSET AllItems(G)
<1> SUFFICES ASSUME NEW a \in DOMAIN s, NEW x \in MovesOf(G, s[a])
             PROVE  Goto(G, s[a], x) \in SUBSET AllItems(G)
  BY DEF Gotos
<1>1. s[a] \in SUBSET AllItems(G)
  BY LenProperties, ElementOfSeq DEF StateLists
<1> QED BY <1>1, MovedAreItems

LEMMA AppendedStates ==
  ASSUME NEW G, NEW s \in StateLists(G), NEW I \in SUBSET AllItems(G)
  PROVE  /\ Append(s, I) \in StateLists(G)
         /\ ToSet(Append(s, I)) = ToSet(s) \cup {I}
         /\ DOMAIN s = 1 .. Len(s) /\ Len(s) \in Nat
         /\ DOMAIN Append(s, I) = 1 .. Len(s) + 1
         /\ Append(s, I)[Len(s) + 1] = I
         /\ \A a \in DOMAIN s : Append(s, I)[a] = s[a]
<1>1. /\ Append(s, I) \in StateLists(G)
      /\ DOMAIN s = 1 .. Len(s) /\ Len(s) \in Nat
      /\ DOMAIN Append(s, I) = 1 .. Len(s) + 1
      /\ Append(s, I)[Len(s) + 1] = I
      /\ \A a \in DOMAIN s : Append(s, I)[a] = s[a]
  BY AppendFacts DEF StateLists
<1>2. ToSet(Append(s, I)) \subseteq ToSet(s) \cup {I}
  <2> SUFFICES ASSUME NEW a \in 1 .. Len(s) + 1 PROVE Append(s, I)[a] \in ToSet(s) \cup {I}
    BY <1>1 DEF ToSet
  <2>1. CASE a = Len(s) + 1
    BY <1>1, <2>1
  <2>2. CASE a # Len(s) + 1
    <3>1. a \in DOMAIN s
      BY <1>1, <2>2
    <3> QED BY <1>1, <3>1 DEF ToSet
  <2> QED BY <2>1, <2>2
<1>3. ToSet(s) \cup {I} \subseteq ToSet(Append(s, I))
  <2>1. Len(s) + 1 \in 1 .. Len(s) + 1 /\ \A a \in DOMAIN s : a \in 1 .. Len(s) + 1
    BY <1>1
  <2> QED BY <1>1, <2>1 DEF ToSet
<1> QED BY <1>1, <1>2, <1>3

LEMMA FewerLeft ==
  ASSUME NEW G, IsGrammar(G), IsFiniteSet(AllItems(G)), NEW s \in StateLists(G)
  PROVE  /\ StatesLeft(G, s) \in Nat
         /\ \A I \in (SUBSET AllItems(G)) \ ToSet(s) :
              /\ Append(s, I) \in StateLists(G)
              /\ StatesLeft(G, Append(s, I)) = StatesLeft(G, s) - 1
<1> DEFINE R == (SUBSET AllItems(G)) \ ToSet(s)
<1>1. IsFiniteSet(R)
  <2>1. IsFiniteSet(SUBSET AllItems(G))
    BY FS_SUBSET
  <2>2. R \in SUBSET (SUBSET AllItems(G))
    OBVIOUS
  <2> HIDE DEF R
  <2> QED BY <2>1, <2>2, FS_Subset
<1>2. Cardinality(R) \in Nat
  <2> HIDE DEF R
  <2> QED BY <1>1, FS_CardinalityType
<1>3. ASSUME NEW I \in R
      PROVE  Append(s, I) \in StateLists(G) /\ StatesLeft(G, Append(s, I)) = Cardinality(R) - 1
  <2>1. Append(s, I) \in StateLists(G) /\ ToSet(Append(s, I)) = ToSet(s) \cup {I}
    BY AppendedStates
  <2>2. (SUBSET AllItems(G)) \ ToSet(Append(s, I)) = R \ {I}
    BY <2>1
  <2>3. Cardinality(R \ {I}) = Cardinality(R) - 1
    <3> HIDE DEF R
    <3> QED BY <1>1, <1>3, FS_RemoveElement
  <2> QED BY <2>1, <2>2, <2>3 DEF StatesLeft
<1> QED BY <1>2, <1>3 DEF StatesLeft

Grows(G, f) ==
  f = [ s \in StateLists(G) |->
          IF Wanted(G, s) = {} THEN s ELSE f[Append(s, NextState(G, s))] ]

LEMMA NextStateIsNew ==
  ASSUME NEW G, IsGrammar(G), IsFiniteSet(AllItems(G)), NEW s \in StateLists(G), Wanted(G, s) # {}
  PROVE  /\ NextState(G, s) \in Wanted(G, s)
         /\ NextState(G, s) \in SUBSET AllItems(G)
         /\ Append(s, NextState(G, s)) \in StateLists(G)
         /\ StatesLeft(G, s) \in Nat
         /\ StatesLeft(G, Append(s, NextState(G, s))) = StatesLeft(G, s) - 1
<1>1. NextState(G, s) \in Wanted(G, s)
  BY DEF NextState
<1>2. NextState(G, s) \in (SUBSET AllItems(G)) \ ToSet(s)
  BY <1>1, WantedAreItemSets DEF Wanted
<1> QED BY <1>1, <1>2, FewerLeft

LEMMA GrowthExists ==
  ASSUME NEW G, IsGrammar(G), IsFiniteSet(AllItems(G))
  PROVE  \E f : Grows(G, f)
<1> DEFINE S == StateLists(G)
           B == { s \in S : Wanted(G, s) = {} }
           given == [ s \in B |-> s ]
           rank == [ s \in S |-> StatesLeft(G, s) ]
           prior == [ s \in S \ B |-> Append(s, NextState(G, s)) ]
           same == [ s \in S \ B |-> [ v \in S |-> v ] ]
<1>1. B \in SUBSET S /\ given \in [B -> S] /\ same \in [S \ B -> [S -> S]]
  OBVIOUS
<1>2. rank \in [S -> Nat]
  BY FewerLeft
<1>3. prior \in [S \ B -> S] /\ \A s \in S \ B : rank[prior[s]] < rank[s]
  <2> SUFFICES ASSUME NEW s \in S \ B
               PROVE  /\ Append(s, NextState(G, s)) \in S
                      /\ rank[Append(s, NextState(G, s))] < rank[s]
    OBVIOUS
  <2>1. /\ Append(s, NextState(G, s)) \in S
        /\ StatesLeft(G, s) \in Nat
        /\ StatesLeft(G, Append(s, NextState(G, s))) = StatesLeft(G, s) - 1
    BY NextStateIsNew
  <2>2. /\ rank[s] = StatesLeft(G, s)
        /\ rank[Append(s, NextState(G, s))] = StatesLeft(G, Append(s, NextState(G, s)))
    BY <2>1
  <2> QED BY <2>1, <2>2
<1>4. PICK f \in [S -> S] : Recursion(S, given, prior, same, f)
  <2> HIDE DEF S, B, given, rank, prior, same
  <2> QED BY <1>1, <1>2, <1>3, RankedRecursionExists
<1>5. ASSUME NEW s \in S
      PROVE  f[s] = IF Wanted(G, s) = {} THEN s ELSE f[Append(s, NextState(G, s))]
  <2>1. f[s] = IF s \in B THEN given[s] ELSE same[s][f[prior[s]]]
    BY <1>4 DEF Recursion
  <2>2. CASE s \in B
    BY <2>1, <2>2
  <2>3. CASE s \notin B
    <3>1. prior[s] = Append(s, NextState(G, s)) /\ prior[s] \in S
      BY <1>3, <2>3
    <3>2. f[prior[s]] \in S
      BY <3>1
    <3>3. same[s][f[prior[s]]] = f[prior[s]]
      BY <2>3, <3>2
    <3> QED BY <2>1, <2>3, <3>1, <3>3
  <2> QED BY <2>2, <2>3
<1>6. f = [ s \in S |-> IF Wanted(G, s) = {} THEN s ELSE f[Append(s, NextState(G, s))] ]
  BY <1>4, <1>5
<1> QED BY <1>6 DEF Grows

(***************************************************************************)
(* Every list of states it goes through starts from the start state, and   *)
(* each state after that was reached from an earlier one.                  *)
(***************************************************************************)
Reached(G, s) ==
  /\ s \in StateLists(G) /\ 1 \in DOMAIN s
  /\ s[1] = ClosureOf(G, Alternatives(G, G.start))
  /\ \A b \in DOMAIN s \ {1} : \E a \in 1 .. b - 1 :
       \E x \in MovesOf(G, s[a]) : s[b] = Goto(G, s[a], x)

LEMMA NextIsReached ==
  ASSUME NEW G, IsGrammar(G), IsFiniteSet(AllItems(G)), NEW s, Reached(G, s), Wanted(G, s) # {}
  PROVE  Reached(G, Append(s, NextState(G, s)))
<1> DEFINE I == NextState(G, s)
           t == Append(s, I)
<1>1. s \in StateLists(G) /\ I \in Wanted(G, s) /\ I \in SUBSET AllItems(G)
  BY NextStateIsNew DEF Reached
<1> HIDE DEF I
<1>2. /\ t \in StateLists(G) /\ DOMAIN s = 1 .. Len(s) /\ Len(s) \in Nat
      /\ DOMAIN t = 1 .. Len(s) + 1 /\ t[Len(s) + 1] = I
      /\ \A a \in DOMAIN s : t[a] = s[a]
  BY <1>1, AppendedStates
<1> HIDE DEF t
<1>3. PICK a \in DOMAIN s : \E x \in MovesOf(G, s[a]) : I = Goto(G, s[a], x)
  BY <1>1 DEF Wanted, Gotos
<1>4. 1 \in DOMAIN t /\ t[1] = ClosureOf(G, Alternatives(G, G.start))
  BY <1>2 DEF Reached
<1>5. ASSUME NEW b \in DOMAIN t \ {1}
      PROVE  \E c \in 1 .. b - 1 : \E x \in MovesOf(G, t[c]) : t[b] = Goto(G, t[c], x)
  <2>1. CASE b = Len(s) + 1
    <3>1. a \in 1 .. b - 1 /\ t[a] = s[a] /\ t[b] = I
      BY <1>2, <2>1
    <3> QED BY <1>3, <3>1
  <2>2. CASE b # Len(s) + 1
    <3>1. b \in DOMAIN s \ {1} /\ t[b] = s[b]
      BY <1>2, <2>2
    <3>2. PICK c \in 1 .. b - 1 : \E x \in MovesOf(G, s[c]) : s[b] = Goto(G, s[c], x)
      BY <3>1 DEF Reached
    <3>3. c \in DOMAIN s /\ t[c] = s[c]
      BY <1>2, <3>1, <3>2
    <3> QED BY <3>1, <3>2, <3>3
  <2> QED BY <2>1, <2>2
<1>6. Reached(G, t)
  BY <1>2, <1>4, <1>5 DEF Reached
<1> QED BY <1>6 DEF t, I

LEMMA GrowthEnds ==
  ASSUME NEW G, IsGrammar(G), IsFiniteSet(AllItems(G)), NEW f, Grows(G, f), NEW s, Reached(G, s)
  PROVE  Reached(G, f[s]) /\ Wanted(G, f[s]) = {}
<1> DEFINE Ends(r) == Reached(G, f[r]) /\ Wanted(G, f[r]) = {}
           N == { n \in Nat : \A r \in StateLists(G) :
                    Reached(G, r) /\ StatesLeft(G, r) = n => Ends(r) }
<1>1. ASSUME NEW n \in Nat, \A m \in Nat : m < n => m \in N PROVE n \in N
  <2> SUFFICES ASSUME NEW r \in StateLists(G), Reached(G, r), StatesLeft(G, r) = n
               PROVE  Ends(r)
    OBVIOUS
  <2>1. f[r] = IF Wanted(G, r) = {} THEN r ELSE f[Append(r, NextState(G, r))]
    BY Zenon DEF Grows
  <2>2. CASE Wanted(G, r) = {}
    BY <2>1, <2>2
  <2>3. CASE Wanted(G, r) # {}
    <3> DEFINE t == Append(r, NextState(G, r))
    <3>1. t \in StateLists(G) /\ StatesLeft(G, t) = n - 1 /\ n - 1 \in Nat /\ n - 1 < n
      <4>1. t \in StateLists(G) /\ StatesLeft(G, t) = n - 1
        BY <2>3, NextStateIsNew
      <4>2. StatesLeft(G, t) \in Nat
        BY <4>1, FewerLeft
      <4> QED BY <4>1, <4>2
    <3>2. Reached(G, t)
      BY <2>3, NextIsReached
    <3> HIDE DEF t
    <3>3. n - 1 \in N
      BY <1>1, <3>1
    <3>4. Ends(t)
      BY <3>1, <3>2, <3>3
    <3>5. f[r] = f[t]
      BY <2>1, <2>3 DEF t
    <3> QED BY <3>4, <3>5
  <2> QED BY <2>2, <2>3
<1>2. Nat \subseteq N
  <2> HIDE DEF N
  <2> QED BY <1>1, SetInduction
<1>3. s \in StateLists(G) /\ StatesLeft(G, s) \in Nat
  BY FewerLeft DEF Reached
<1> QED BY <1>2, <1>3

LEMMA AllStatesReached ==
  ASSUME NEW G, IsGrammar(G), IsFiniteSet(AllItems(G))
  PROVE  Reached(G, AllStates(G)) /\ Wanted(G, AllStates(G)) = {}
<1> DEFINE grow == CHOOSE f : Grows(G, f)
           first == << ClosureOf(G, Alternatives(G, G.start)) >>
<1>1. Grows(G, grow)
  BY GrowthExists
<1>2. AllStates(G) = grow[first]
  BY DEF AllStates, Grows, Wanted, NextState, StateLists
<1> HIDE DEF grow
<1>3. Reached(G, first)
  <2>1. ClosureOf(G, Alternatives(G, G.start)) \in SUBSET AllItems(G)
    BY StartIsKnown
  <2>2. first \in StateLists(G) /\ DOMAIN first = {1} /\ first[1] = ClosureOf(G, Alternatives(G, G.start))
    BY <2>1 DEF StateLists
  <2> QED BY <2>2 DEF Reached
<1> HIDE DEF first
<1> QED BY <1>1, <1>2, <1>3, GrowthEnds

(***************************************************************************)
(* The tables with which parse is modelled are the canonical automaton of  *)
(* their grammar, which automaton::items builds (lr.h:562-595), whichever  *)
(* grammar it is.                                                          *)
(***************************************************************************)
THEOREM TablesAreCanonical ==
  ASSUME NEW G, IsGrammar(G), IsFiniteSet(AllItems(G))
  PROVE  IsCanonical(G, Tables(G).states, Tables(G).trans)
<1> DEFINE s == AllStates(G)
           t == Tables(G).trans
<1>1. Tables(G).states = s /\ Reached(G, s) /\ Wanted(G, s) = {}
  BY AllStatesReached DEF Tables
<1>2. t = [ a \in DOMAIN s |-> [ x \in MovesOf(G, s[a]) \ Combinations(G) |->
              CHOOSE b \in DOMAIN s : s[b] = Goto(G, s[a], x) ] ]
  BY DEF Tables
<1> HIDE DEF s, t
<1>3. ASSUME NEW a \in DOMAIN s, NEW x \in MovesOf(G, s[a])
      PROVE  \E b \in DOMAIN s : s[b] = Goto(G, s[a], x)
  BY <1>1, <1>3 DEF Wanted, Gotos, ToSet
<1>4. ASSUME NEW a \in DOMAIN s
      PROVE  /\ DOMAIN t[a] = MovesOf(G, s[a]) \ Combinations(G)
             /\ \A x \in DOMAIN t[a] : s[t[a][x]] = Goto(G, s[a], x)
  <2>1. t[a] = [ x \in MovesOf(G, s[a]) \ Combinations(G) |->
                   CHOOSE b \in DOMAIN s : s[b] = Goto(G, s[a], x) ]
    BY <1>2
  <2>2. DOMAIN t[a] = MovesOf(G, s[a]) \ Combinations(G)
    BY <2>1
  <2>3. ASSUME NEW x \in DOMAIN t[a] PROVE s[t[a][x]] = Goto(G, s[a], x)
    <3>1. t[a][x] = CHOOSE b \in DOMAIN s : s[b] = Goto(G, s[a], x)
      BY <2>1, <2>2
    <3>2. \E b \in DOMAIN s : s[b] = Goto(G, s[a], x)
      BY <1>3, <2>2
    <3> QED BY <3>1, <3>2
  <2> QED BY <2>2, <2>3
<1>5. IsCanonical(G, s, t)
  BY <1>1, <1>3, <1>4 DEF IsCanonical, Reached
<1> QED BY <1>1, <1>5 DEF t

(***************************************************************************)
(* What the parser relies on: a rule is begun, and not half read, in the   *)
(* start state, and an item that is some way into its rule was one symbol  *)
(* less far in every state with a transition to its own; that symbol is    *)
(* the one the transition is over.                                         *)
(***************************************************************************)
Retreat(i) == [i EXCEPT !.dot = @ - 1]

RunsBack(T) ==
  /\ 1 \in DOMAIN T.states /\ DOMAIN T.states \subseteq Nat \ {0}
  /\ \A i \in T.states[1] : i.dot = 0
  /\ \A a \in DOMAIN T.states : \A x \in DOMAIN T.trans[a] :
       /\ T.trans[a][x] \in DOMAIN T.states
       /\ \A i \in T.states[T.trans[a][x]] : i.dot # 0 => Retreat(i) \in T.states[a]

MovesOverSymbols(g, T) ==
  \A a \in DOMAIN T.states : \A x \in DOMAIN T.trans[a] :
    \A i \in T.states[T.trans[a][x]] :
      i.dot # 0 => ~ AtEnd(Retreat(i)) /\ x \in Moves(g, Symbol(Retreat(i)))

LEMMA TablesRunBack ==
  ASSUME NEW G, IsGrammar(G), IsFiniteSet(AllItems(G))
  PROVE  /\ RunsBack(Tables(G)) /\ MovesOverSymbols(G, Tables(G))
         /\ \A a \in DOMAIN Tables(G).states : Tables(G).states[a] \subseteq AllItems(G)
<1> DEFINE s == Tables(G).states
           t == Tables(G).trans
<1>1. /\ s \in StateLists(G) /\ 1 \in DOMAIN s
      /\ DOMAIN t = DOMAIN s
      /\ \A a \in DOMAIN s : \A x \in MovesOf(G, s[a]) \ Combinations(G) :
           t[a][x] = CHOOSE b \in DOMAIN s : s[b] = Goto(G, s[a], x)
  <2>1. s = AllStates(G) /\ Reached(G, AllStates(G))
    BY AllStatesReached DEF Tables
  <2>2. t = [ a \in DOMAIN AllStates(G) |-> [ x \in MovesOf(G, AllStates(G)[a]) \ Combinations(G) |->
              CHOOSE b \in DOMAIN AllStates(G) : AllStates(G)[b] = Goto(G, AllStates(G)[a], x) ] ]
    BY DEF Tables
  <2> HIDE DEF s, t
  <2> QED BY <2>1, <2>2 DEF Reached
<1>2. IsCanonical(G, s, t)
  BY TablesAreCanonical
<1> HIDE DEF s, t
<1>3. DOMAIN s \subseteq Nat \ {0} /\ \A a \in DOMAIN s : s[a] \subseteq AllItems(G)
  BY <1>1, LenProperties, ElementOfSeq DEF StateLists
<1>4. ASSUME NEW i \in s[1] PROVE i.dot = 0
  <2>1. G.start \in Tags(G) /\ s[1] = ClosureOf(G, Alternatives(G, G.start))
    BY <1>2 DEF IsGrammar, IsCanonical
  <2>2. Alternatives(G, G.start) \in SUBSET AllItems(G)
    BY <2>1, AlternativesAreItems
  <2>3. CASE i \in Alternatives(G, G.start)
    BY <2>3 DEF Alternatives
  <2>4. CASE i \notin Alternatives(G, G.start)
    BY <2>1, <2>2, <2>4, ClosureOfItems
  <2> QED BY <2>3, <2>4
<1>5. ASSUME NEW a \in DOMAIN s, NEW x \in DOMAIN t[a]
      PROVE  /\ t[a][x] \in DOMAIN s
             /\ \A i \in s[t[a][x]] : i.dot # 0 =>
                  /\ Retreat(i) \in s[a]
                  /\ ~ AtEnd(Retreat(i)) /\ x \in Moves(G, Symbol(Retreat(i)))
  <2>1. x \in MovesOf(G, s[a]) \ Combinations(G) /\ s[t[a][x]] = Goto(G, s[a], x)
    BY <1>2 DEF IsCanonical
  <2>2. \E b \in DOMAIN s : s[b] = Goto(G, s[a], x)
    BY <1>2, <2>1 DEF IsCanonical
  <2>3. t[a][x] \in DOMAIN s
    <3>1. t[a][x] = CHOOSE b \in DOMAIN s : s[b] = Goto(G, s[a], x)
      BY <1>1, <2>1
    <3> QED BY <2>2, <3>1
  <2>4. ASSUME NEW i \in s[t[a][x]], i.dot # 0
        PROVE  Retreat(i) \in s[a] /\ ~ AtEnd(Retreat(i)) /\ x \in Moves(G, Symbol(Retreat(i)))
    <3>1. Moved(G, s[a], x) \in SUBSET AllItems(G)
      BY <1>3, MovedAreItems
    <3>2. i \in Moved(G, s[a], x)
      BY <2>1, <2>4, <3>1, ClosureOfItems DEF Goto
    <3>3. PICK j \in s[a] : i = Advance(j) /\ ~ AtEnd(j) /\ x \in Moves(G, Symbol(j))
      BY <3>2 DEF Moved
    <3>4. j = [lhs |-> j.lhs, rhs |-> j.rhs, dot |-> j.dot] /\ j.dot \in Nat
      BY <1>3, ItemShape
    <3>5. Retreat(i) = j
      <4>1. PICK l, r, d : j = [lhs |-> l, rhs |-> r, dot |-> d] /\ d \in Nat
        BY <3>4
      <4>2. i = [lhs |-> l, rhs |-> r, dot |-> d + 1]
        BY <3>3, <4>1 DEF Advance
      <4>3. i.dot - 1 = d
        BY <4>1, <4>2
      <4>4. Retreat(i) = [i EXCEPT !.dot = d]
        BY <4>3 DEF Retreat
      <4>5. [i EXCEPT !.dot = d] = [lhs |-> l, rhs |-> r, dot |-> d]
        BY <4>2
      <4> QED BY <4>1, <4>4, <4>5
    <3> QED BY <3>3, <3>5
  <2> QED BY <2>3, <2>4
<1>6. /\ 1 \in DOMAIN s /\ DOMAIN s \subseteq Nat \ {0}
      /\ \A i \in s[1] : i.dot = 0
      /\ \A a \in DOMAIN s : \A x \in DOMAIN t[a] :
           /\ t[a][x] \in DOMAIN s
           /\ \A i \in s[t[a][x]] : i.dot # 0 => Retreat(i) \in s[a]
  BY <1>1, <1>3, <1>4, <1>5
<1>7. \A a \in DOMAIN s : \A x \in DOMAIN t[a] : \A i \in s[t[a][x]] :
        i.dot # 0 => ~ AtEnd(Retreat(i)) /\ x \in Moves(G, Symbol(Retreat(i)))
  BY <1>5
<1> QED BY <1>3, <1>6, <1>7 DEF RunsBack, MovesOverSymbols, s, t
-----------------------------------------------------------------------------
(***************************************************************************)
(* In a canonical automaton of a grammar without dead items, an item that  *)
(* is not at its end moves, and is found one further in the state it moves *)
(* to.                                                                     *)
(***************************************************************************)
LEMMA SymbolMoves ==
  ASSUME NEW G, IsGrammar(G), NoDeadItems(G), NEW s \in Symbols(G)
  PROVE  /\ Moves(G, s) = {Rewritten(G, s)}
         /\ Rewritten(G, s) \notin Combinations(G)
<1>1. CASE s \in Combinations(G)
  <2>1. G.wraps[s] \in Wraps(G) /\ G.wraps[s].via = "nt"
    BY <1>1 DEF IsGrammar, Combinations, NoDeadItems
  <2>2. G.wraps[s].tag \in Tags(G) /\ Moves(G, s) = {G.wraps[s].tag}
    BY <1>1, <2>1 DEF Wraps, Moves
  <2> QED BY <1>1, <2>2 DEF Rewritten, IsGrammar
<1>2. CASE s \notin Combinations(G)
  BY <1>2 DEF Moves, Rewritten, NoDeadItems
<1> QED BY <1>1, <1>2

LEMMA ItemMoves ==
  ASSUME NEW G, IsGrammar(G), NoDeadItems(G),
         NEW s, NEW t, IsCanonical(G, s, t),
         NEW a \in DOMAIN s, s[a] \subseteq AllItems(G), NEW i \in s[a], ~AtEnd(i)
  PROVE  /\ Rewritten(G, Symbol(i)) \in DOMAIN t[a]
         /\ Advance(i) \in s[t[a][Rewritten(G, Symbol(i))]]
<1>1. PICK x : x = Rewritten(G, Symbol(i))
  OBVIOUS
<1>2. i \in AllItems(G) /\ Symbol(i) \in Symbols(G)
  BY SymbolOfItem
<1>3. x \in Moves(G, Symbol(i)) /\ x \notin Combinations(G)
  BY <1>1, <1>2, SymbolMoves
<1>4. x \in MovesOf(G, s[a])
  BY <1>3 DEF MovesOf
<1>5. x \in DOMAIN t[a]
  BY <1>3, <1>4 DEF IsCanonical
<1>6. Advance(i) \in Moved(G, s[a], x)
  BY <1>3 DEF Moved
<1>7. s[t[a][x]] = Goto(G, s[a], x)
  BY <1>5 DEF IsCanonical
<1>8. Moved(G, s[a], x) \subseteq Goto(G, s[a], x)
  BY MovedAreItems, ClosureOfItems DEF Goto
<1> QED BY <1>1, <1>5, <1>6, <1>7, <1>8

(***************************************************************************)
(* A rule starts in a state because an item there has its tag next.        *)
(***************************************************************************)
LEMMA CalledForAReason ==
  ASSUME NEW G, IsGrammar(G), NEW I \in SUBSET AllItems(G), NEW t \in Called(G, I)
  PROVE  \E j \in ClosureOf(G, I) : ~AtEnd(j) /\ Rewritten(G, Symbol(j)) = t
<1> DEFINE T == { u \in Called(G, I) :
                    \E j \in ClosureOf(G, I) : ~AtEnd(j) /\ Rewritten(G, Symbol(j)) = u }
<1>1. Called(G, I) \subseteq Tags(G)
  BY DEF Called
<1>2. CalledBy(G, I) \subseteq T
  <2>1. ASSUME NEW u \in CalledBy(G, I) PROVE u \in Called(G, I)
    <3>1. u \in Tags(G)
      BY <2>1 DEF CalledBy
    <3> QED BY <3>1 DEF Called
  <2>2. ASSUME NEW u \in CalledBy(G, I)
        PROVE  \E j \in ClosureOf(G, I) : ~AtEnd(j) /\ Rewritten(G, Symbol(j)) = u
    <3>1. PICK j \in I : ~AtEnd(j) /\ Rewritten(G, Symbol(j)) = u
      BY <2>2 DEF CalledBy
    <3> QED BY <3>1, ClosureOfItems
  <2> QED BY <2>1, <2>2
<1>3. ASSUME NEW u \in T, NEW v \in CalledBy(G, Alternatives(G, u)) PROVE v \in T
  <2>1. v \in Tags(G)
    BY <1>3 DEF CalledBy
  <2>2. v \in Called(G, I)
    <3> SUFFICES ASSUME NEW S \in SUBSET Tags(G), CalledBy(G, I) \subseteq S,
                        \A w \in S : CalledBy(G, Alternatives(G, w)) \subseteq S
                 PROVE  v \in S
      BY <2>1 DEF Called
    <3>1. u \in S
      BY DEF Called
    <3> QED BY <1>3, <3>1
  <2>3. PICK j \in Alternatives(G, u) : ~AtEnd(j) /\ Rewritten(G, Symbol(j)) = v
    BY <1>3 DEF CalledBy
  <2>4. j \in ClosureOf(G, I)
    BY <2>3 DEF ClosureOf
  <2> QED BY <2>2, <2>3, <2>4
<1>4. T \in SUBSET Tags(G)
  BY <1>1
<1>5. t \in T
  <2> HIDE DEF T
  <2>1. \A u \in T : CalledBy(G, Alternatives(G, u)) \subseteq T
    BY <1>3
  <2> QED BY <1>2, <1>4, <2>1 DEF Called
<1> QED BY <1>5

\* What the states of a canonical automaton are the closures of.
LEMMA KernelsOfStates ==
  ASSUME NEW G, IsGrammar(G), NEW s, NEW t, IsCanonical(G, s, t),
         \A b \in DOMAIN s : s[b] \subseteq AllItems(G) /\ b \in Nat /\ \A c \in 1 .. b - 1 : c \in DOMAIN s,
         NEW a \in DOMAIN s
  PROVE  \E K \in SUBSET AllItems(G) :
           /\ s[a] = ClosureOf(G, K)
           /\ \A i \in K : AtStart(i) => i.lhs = G.start
<1>1. CASE a = 1
  <2>1. Alternatives(G, G.start) \in SUBSET AllItems(G)
    BY AlternativesAreItems DEF IsGrammar
  <2>2. \A i \in Alternatives(G, G.start) : i.lhs = G.start
    BY DEF Alternatives
  <2> QED BY <1>1, <2>1, <2>2 DEF IsCanonical
<1>2. CASE a # 1
  <2>1. PICK b \in 1 .. a - 1 : \E x \in MovesOf(G, s[b]) : s[a] = Goto(G, s[b], x)
    BY <1>2 DEF IsCanonical
  <2>2. PICK x \in MovesOf(G, s[b]) : s[a] = Goto(G, s[b], x)
    BY <2>1
  <2>3. s[b] \in SUBSET AllItems(G)
    BY <2>1
  <2>4. Moved(G, s[b], x) \in SUBSET AllItems(G)
    BY <2>3, MovedAreItems
  <2>5. \A i \in Moved(G, s[b], x) : ~AtStart(i)
    <3> SUFFICES ASSUME NEW j \in s[b], ~AtEnd(j) PROVE ~AtStart(Advance(j))
      BY DEF Moved
    <3>1. Advance(j).dot = j.dot + 1 /\ j \in AllItems(G)
      BY <2>3, SymbolOfItem
    <3>2. j.dot \in Nat
      BY <3>1, ItemShape, LenProperties
    <3> QED BY <3>1, <3>2 DEF AtStart
  <2> QED BY <2>2, <2>4, <2>5 DEF Goto
<1> QED BY <1>1, <1>2

(***************************************************************************)
(* A reduction lands: a state where a rule starts, the start rule apart,   *)
(* has a transition over its tag.                                          *)
(***************************************************************************)
LEMMA RuleLands ==
  ASSUME NEW G, IsGrammar(G), NoDeadItems(G), NEW s, NEW t, IsCanonical(G, s, t),
         \A b \in DOMAIN s : s[b] \subseteq AllItems(G) /\ b \in Nat /\ \A c \in 1 .. b - 1 : c \in DOMAIN s,
         NEW a \in DOMAIN s, NEW i \in s[a], AtStart(i), i.lhs # G.start
  PROVE  i.lhs \in DOMAIN t[a]
<1>1. PICK K \in SUBSET AllItems(G) : /\ s[a] = ClosureOf(G, K)
                                      /\ \A j \in K : AtStart(j) => j.lhs = G.start
  BY KernelsOfStates
<1>2. PICK u \in Called(G, K) : i \in Alternatives(G, u)
  BY <1>1 DEF ClosureOf
<1>3. i.lhs = u
  BY <1>2 DEF Alternatives
<1>4. PICK j \in s[a] : ~AtEnd(j) /\ Rewritten(G, Symbol(j)) = u
  BY <1>1, CalledForAReason
<1>5. u \in DOMAIN t[a]
  BY <1>4, ItemMoves
<1> QED BY <1>3, <1>5

LEMMA TablesLand ==
  ASSUME NEW G, IsGrammar(G), IsFiniteSet(AllItems(G)), NoDeadItems(G),
         NEW a \in DOMAIN Tables(G).states, NEW i \in Tables(G).states[a], AtStart(i), i.lhs # G.start
  PROVE  i.lhs \in DOMAIN Tables(G).trans[a]
<1> DEFINE s == Tables(G).states
           t == Tables(G).trans
<1>1. IsCanonical(G, s, t)
  BY TablesAreCanonical
<1>2. s \in StateLists(G)
  BY AllStatesReached DEF Tables, Reached
<1> HIDE DEF s, t
<1>3. s \in Seq(SUBSET AllItems(G)) /\ DOMAIN s = 1 .. Len(s) /\ Len(s) \in Nat
  BY <1>2, LenProperties DEF StateLists
<1>4. \A b \in DOMAIN s : s[b] \subseteq AllItems(G) /\ b \in Nat /\ \A c \in 1 .. b - 1 : c \in DOMAIN s
  BY <1>3
<1>5. a \in DOMAIN s /\ i \in s[a]
  BY DEF s
<1>6. i.lhs \in DOMAIN t[a]
  BY <1>1, <1>4, <1>5, RuleLands
<1> QED BY <1>6 DEF t
=============================================================================
