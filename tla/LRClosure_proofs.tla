-------------------------- MODULE LRClosure_proofs ---------------------------
(***************************************************************************)
(* Proofs about LRClosure: what automaton::closure returns is right for    *)
(* every well-expanded grammar and every kernel, of any size.              *)
(***************************************************************************)
EXTENDS LRClosure, FiniteSetTheorems, SequenceTheorems, TLAPS

(***************************************************************************)
(* Every tag a known rule mentions is known, as long as it has a rule: no  *)
(* rule that an item calls for can be found missing.                       *)
(***************************************************************************)
RulesFound ==
  /\ g.listed \subseteq known
  /\ SelfContained(g, known)
  /\ \A i \in C \cup todo : i.lhs \in known

(***************************************************************************)
(* The invariant of the worklist: an item that has been looked at has all  *)
(* it predicts in C, or among the variants being visited.                  *)
(***************************************************************************)
Worklist ==
  /\ \A i \in C : i \in ToSet(stack) \/ Predicted(g, i) \subseteq C \cup todo
  /\ todo # {} => \E i \in C : todo \subseteq Predicted(g, i)
  /\ done => stack = <<>> /\ todo = {}

IInv == TypeOK /\ RulesFound /\ Worklist

(***************************************************************************)
(* Nothing is in C, or about to be, that some closed set around the seed   *)
(* does without.                                                           *)
(***************************************************************************)
Least ==
  \A D : seed \subseteq D /\ Closed(g, D) => C \cup todo \subseteq D

(***************************************************************************)
(* The grammars the theorems are about.                                    *)
(***************************************************************************)
Sound(G) == IsGrammar(G) /\ WellExpanded(G)
-----------------------------------------------------------------------------
(***************************************************************************)
(* The parts of IsGrammar that the proofs use, of one combination and of   *)
(* the start rule.                                                         *)
(***************************************************************************)
LEMMA GrammarFacts ==
  ASSUME NEW G, IsGrammar(G)
  PROVE  /\ G.listed \subseteq Tags(G)
         /\ G.start \in G.listed
         /\ \A c \in Combinations(G) : /\ G.wraps[c].tag \in G.wraps[c].commits
                                       /\ G.wraps[c].commits \subseteq Tags(G)
BY DEF IsGrammar, Wraps, Combinations, Tags

(***************************************************************************)
(* Adding what the rewriter commits for a symbol, or what a closure before *)
(* this one committed, keeps the known rules self-contained.               *)
(***************************************************************************)
LEMMA CommitKeepsSelfContained ==
  ASSUME NEW G, IsGrammar(G), WellExpanded(G), NEW K, G.listed \subseteq K,
         SelfContained(G, K), NEW s
  PROVE  SelfContained(G, K \cup Committed(G, s))
<1>1. CASE s \notin Combinations(G)
  BY <1>1 DEF Committed
<1>2. CASE s \in Combinations(G)
  <2>1. SelfContained(G, G.listed \cup G.wraps[s].commits)
    BY <1>2 DEF WellExpanded
  <2> QED BY <2>1, <1>2 DEF Committed, SelfContained
<1> QED BY <1>1, <1>2

LEMMA KnownSetsSelfContained ==
  ASSUME NEW G, IsGrammar(G), WellExpanded(G), NEW K \in KnownSets(G)
  PROVE  G.listed \subseteq K /\ K \subseteq Tags(G) /\ SelfContained(G, K)
<1>1. PICK D \in SUBSET Combinations(G) :
        K = G.listed \cup UNION {G.wraps[c].commits : c \in D}
  BY DEF KnownSets
<1>2. G.listed \subseteq K /\ K \subseteq Tags(G)
  BY <1>1, GrammarFacts
<1>3. ASSUME NEW t \in K, NEW r \in G.rules[t], NEW k \in 1 .. Len(r),
             r[k] \in Tags(G), G.rules[r[k]] # {}
      PROVE  r[k] \in K
  <2>1. CASE t \in G.listed
    BY <2>1, <1>1, <1>3 DEF WellExpanded, SelfContained
  <2>2. CASE t \notin G.listed
    <3>1. PICK c \in D : t \in G.wraps[c].commits
      BY <2>2, <1>1
    <3>2. r[k] \in G.listed \cup G.wraps[c].commits
      BY <3>1, <1>3 DEF WellExpanded, SelfContained
    <3> QED BY <3>1, <3>2, <1>1
  <2> QED BY <2>1, <2>2
<1> QED BY <1>2, <1>3 DEF SelfContained

(***************************************************************************)
(* The variants of a rule are items, each of that rule.                    *)
(***************************************************************************)
LEMMA AlternativesAreItems ==
  ASSUME NEW G, IsGrammar(G), NEW t \in Tags(G), NEW i \in Alternatives(G, t)
  PROVE  IsItem(G, i) /\ i.lhs = t
<1>1. PICK r \in G.rules[t] : i = [lhs |-> t, rhs |-> r, dot |-> 0]
  BY DEF Alternatives
<1>2. r \in Seq(Symbols(G))
  BY <1>1 DEF IsGrammar
<1>3. 0 \in 0 .. Len(r)
  BY <1>2
<1> QED BY <1>1, <1>3 DEF IsItem

(***************************************************************************)
(* What the item just popped predicts is what todo receives: its Nt is     *)
(* found in the grammar, or has no rule at all.                            *)
(***************************************************************************)
LEMMA NothingMissed ==
  ASSUME NEW G, IsGrammar(G), NEW K, K \subseteq Tags(G), SelfContained(G, K),
         NEW i, IsItem(G, i), i.lhs \in K, ~AtEnd(i),
         Rewritten(G, Symbol(i)) \notin K \cup Committed(G, Symbol(i))
  PROVE  Predicted(G, i) = {}
<1> DEFINE s == Symbol(i)
<1>1. s \notin Combinations(G)
  BY GrammarFacts DEF Rewritten, Committed
<1>2. Rewritten(G, s) = s /\ s \notin K
  BY <1>1 DEF Rewritten
<1>3. CASE s \notin Tags(G)
  BY <1>2, <1>3 DEF Predicted
<1>4. CASE s \in Tags(G)
  <2>1. i.rhs \in Seq(Symbols(G)) /\ i.rhs \in G.rules[i.lhs]
    BY DEF IsItem, IsGrammar
  <2>2. i.dot + 1 \in 1 .. Len(i.rhs) /\ s = i.rhs[i.dot + 1]
    BY <2>1 DEF IsItem, AtEnd, Symbol
  <2>3. \A k \in 1 .. Len(i.rhs) :
          i.rhs[k] \in Tags(G) => i.rhs[k] \in K \/ G.rules[i.rhs[k]] = {}
    BY <2>1 DEF SelfContained
  <2>4. s \in K \/ G.rules[s] = {}
    BY <1>4, <2>2, <2>3
  <2> QED BY <1>2, <1>4, <2>4 DEF Predicted, Alternatives
<1> QED BY <1>3, <1>4

(***************************************************************************)
(* pop_back() removes one element.                                         *)
(***************************************************************************)
LEMMA PopLosesTheLast ==
  ASSUME NEW S, NEW s \in Seq(S), s # <<>>
  PROVE  /\ Last(s) \in S
         /\ Front(s) \in Seq(S)
         /\ ToSet(s) \subseteq ToSet(Front(s)) \cup {Last(s)}
<1> DEFINE n == Len(s) - 1
<1>1. /\ n \in Nat /\ 1 \in Int /\ n \in Int /\ DOMAIN s = 1 .. n + 1
      /\ \A k \in 1 .. n + 1 : s[k] \in S
  OBVIOUS
<1>2. Front(s) = SubSeq(s, 1, n) /\ Last(s) = s[n + 1]
  BY <1>1 DEF Front, Last
<1> HIDE DEF n
<1>3. /\ Front(s) \in Seq(S)
      /\ Len(Front(s)) = n
      /\ \A k \in 1 .. n : Front(s)[k] = s[k]
  <2>1. /\ SubSeq(s, 1, n) \in Seq(S)
        /\ Len(SubSeq(s, 1, n)) = IF 1 <= n THEN n - 1 + 1 ELSE 0
        /\ \A k \in 1 .. n - 1 + 1 : SubSeq(s, 1, n)[k] = s[1 + k - 1]
    BY <1>1, SubSeqProperties
  <2> QED BY <1>1, <1>2, <2>1
<1>4. ASSUME NEW k \in DOMAIN s
      PROVE  s[k] = Last(s) \/ (k \in DOMAIN Front(s) /\ Front(s)[k] = s[k])
  BY <1>1, <1>2, <1>3
<1> QED BY <1>1, <1>2, <1>3, <1>4 DEF ToSet
-----------------------------------------------------------------------------
(***************************************************************************)
(* The invariant holds at the call.                                        *)
(***************************************************************************)
LEMMA InitIInv ==
  ASSUME \A G \in Grammars : Sound(G)
  PROVE  Init => IInv
<1> SUFFICES ASSUME Init PROVE IInv
  OBVIOUS
<1>1. IsGrammar(g) /\ WellExpanded(g)
  BY DEF Init, Sound
<1>2. g.listed \subseteq known /\ known \subseteq Tags(g) /\ SelfContained(g, known)
  BY <1>1, KnownSetsSelfContained DEF Init
<1>3. /\ IsFiniteSet(seed)
      /\ \A i \in seed : i.lhs \in known
      /\ seed \in Kernels(g) \cup {Alternatives(g, g.start)}
  BY DEF Init, Seeds
<1>4. ASSUME NEW i \in seed PROVE IsItem(g, i)
  <2>1. CASE seed \in Kernels(g)
    <3>1. i \in AllItems(g)
      BY <2>1 DEF Kernels
    <3>2. PICK t \in Tags(g) :
            \E r \in g.rules[t] : \E d \in 0 .. Len(r) :
              i = [lhs |-> t, rhs |-> r, dot |-> d]
      BY <3>1 DEF AllItems
    <3> QED BY <3>2 DEF IsItem
  <2>2. CASE seed = Alternatives(g, g.start)
    <3>1. g.start \in Tags(g)
      BY <1>1, GrammarFacts
    <3> QED BY <1>1, <2>2, <3>1, AlternativesAreItems
  <2> QED BY <1>3, <2>1, <2>2
<1>5. stack \in Seq(seed) /\ ToSet(stack) = seed
  <2> DEFINE D == 1 .. Cardinality(seed)
  <2>1. Cardinality(seed) \in Nat
    BY <1>3, FS_CardinalityType
  <2>2. Cardinality(D) = Cardinality(seed)
    BY <2>1, FS_Interval
  <2>3. stack \in Injection(D, seed)
    BY DEF Init, SetToSeqs, Injection, IsInjective
  <2>4. stack \in Surjection(D, seed)
    BY <1>3, <2>2, <2>3, FS_Injection
  <2> QED BY <2>1, <2>4 DEF ToSet, Surjection
<1>6. TypeOK
  BY <1>2, <1>4, <1>5 DEF Init, TypeOK
<1>7. RulesFound
  BY <1>2, <1>3 DEF Init, RulesFound
<1>8. Worklist
  BY <1>5 DEF Init, Worklist
<1> QED BY <1>6, <1>7, <1>8 DEF IInv

(***************************************************************************)
(* Every step preserves it.                                                *)
(***************************************************************************)
LEMMA NextIInv ==
  ASSUME \A G \in Grammars : Sound(G)
  PROVE  IInv /\ [Next]_vars => IInv'
<1> SUFFICES ASSUME IInv, [Next]_vars PROVE IInv'
  OBVIOUS
<1> USE DEF IInv
<1>1. IsGrammar(g) /\ WellExpanded(g)
  BY DEF TypeOK, Sound
<1>2. CASE Pop
  <2> DEFINE i == Last(stack)
             t == Rewritten(g, Symbol(i))
  <2>1. /\ ~done /\ todo = {} /\ stack # <<>>
        /\ stack' = Front(stack)
        /\ known' = known \cup (IF AtEnd(i) THEN {} ELSE Committed(g, Symbol(i)))
        /\ todo' = IF ~AtEnd(i) /\ t \in known' THEN Alternatives(g, t) ELSE {}
        /\ UNCHANGED <<g, seed, C, done>>
    BY <1>2 DEF Pop
  <2>2. i \in C /\ IsItem(g, i) /\ i.lhs \in known
    BY <2>1, PopLosesTheLast DEF TypeOK, RulesFound
  <2>3. stack' \in Seq(C) /\ ToSet(stack) \subseteq ToSet(stack') \cup {i}
    BY <2>1, PopLosesTheLast DEF TypeOK
  <2>4. known' \subseteq Tags(g) /\ SelfContained(g, known')
    <3>1. Committed(g, Symbol(i)) \subseteq Tags(g)
      BY <1>1, GrammarFacts DEF Committed
    <3>2. SelfContained(g, known \cup Committed(g, Symbol(i)))
      BY <1>1, CommitKeepsSelfContained DEF RulesFound
    <3> QED BY <2>1, <3>1, <3>2 DEF TypeOK, RulesFound
  <2>5. ASSUME NEW j \in todo' PROVE IsItem(g, j) /\ j.lhs \in known'
    BY <1>1, <2>1, <2>4, <2>5, AlternativesAreItems
  <2>6. todo' = Predicted(g, i)
    <3>1. CASE AtEnd(i)
      BY <2>1, <3>1 DEF Predicted
    <3>2. CASE ~AtEnd(i) /\ t \in known'
      BY <2>1, <2>4, <3>2 DEF Predicted
    <3>3. CASE ~AtEnd(i) /\ t \notin known'
      BY <1>1, <2>1, <2>2, <3>3, NothingMissed DEF TypeOK, RulesFound
    <3> QED BY <3>1, <3>2, <3>3
  <2>7. TypeOK'
    BY <2>1, <2>3, <2>4, <2>5 DEF TypeOK
  <2>8. RulesFound'
    BY <2>1, <2>4, <2>5 DEF RulesFound
  <2>9. Worklist'
    BY <2>1, <2>2, <2>3, <2>6 DEF Worklist
  <2> QED BY <2>7, <2>8, <2>9
<1>3. ASSUME NEW c \in todo, Variant(c) PROVE IInv'
  <2>1. CASE c \in C
    <3>1. /\ todo' = todo \ {c} /\ ~done
          /\ UNCHANGED <<g, known, seed, C, stack, done>>
      BY <1>3, <2>1 DEF Variant, VisitVariant
    <3>2. TypeOK' /\ RulesFound'
      BY <3>1 DEF TypeOK, RulesFound
    <3>3. Worklist'
      BY <2>1, <3>1 DEF Worklist
    <3> QED BY <3>2, <3>3
  <2>2. CASE c \notin C
    <3>1. /\ todo' = todo \ {c} /\ ~done
          /\ C' = C \cup {c} /\ stack' = stack \o <<c>>
          /\ UNCHANGED <<g, known, seed, done>>
      BY <1>3, <2>2 DEF Variant, VisitVariant
    <3>2. stack' \in Seq(C') /\ ToSet(stack') = ToSet(stack) \cup {c}
      <4>1. stack \in Seq(C') /\ <<c>> \in Seq(C')
        BY <3>1 DEF TypeOK
      <4>2. stack' \in Seq(C')
        BY <3>1, <4>1
      <4>3. ASSUME NEW k \in DOMAIN stack PROVE k \in DOMAIN stack' /\ stack'[k] = stack[k]
        BY <3>1, <4>1
      <4>4. Len(stack) + 1 \in DOMAIN stack' /\ stack'[Len(stack) + 1] = c
        BY <3>1, <4>1
      <4>5. ASSUME NEW k \in DOMAIN stack' PROVE k \in DOMAIN stack \/ stack'[k] = c
        BY <3>1, <4>1
      <4> QED BY <4>2, <4>3, <4>4, <4>5 DEF ToSet
    <3>3. TypeOK' /\ RulesFound'
      BY <3>1, <3>2 DEF TypeOK, RulesFound
    <3>4. Worklist'
      BY <3>1, <3>2 DEF Worklist
    <3> QED BY <3>3, <3>4
  <2> QED BY <2>1, <2>2
<1>4. CASE Return
  BY <1>4 DEF Return, TypeOK, RulesFound, Worklist
<1>5. CASE UNCHANGED vars
  BY <1>5 DEF vars, TypeOK, RulesFound, Worklist
<1> QED BY <1>2, <1>3, <1>4, <1>5 DEF Next

LEMMA Invariance ==
  ASSUME \A G \in Grammars : Sound(G)
  PROVE  Spec => []IInv
<1>1. Init => IInv
  BY InitIInv
<1>2. IInv /\ [Next]_vars => IInv'
  BY NextIInv
<1> QED BY <1>1, <1>2, PTL DEF Spec

(***************************************************************************)
(* closure() handles only items of its grammar, whatever the grammar and   *)
(* the set it starts from.                                                 *)
(***************************************************************************)
THEOREM TypeCorrect ==
  ASSUME \A G \in Grammars : Sound(G)
  PROVE  Spec => []TypeOK
<1>1. IInv => TypeOK
  BY DEF IInv
<1> QED BY <1>1, Invariance, PTL

-----------------------------------------------------------------------------
(***************************************************************************)
(* Least is preserved as well: only predicted items are added.             *)
(***************************************************************************)
LEMMA InitLeast == Init => Least
BY DEF Init, Least

LEMMA NextLeast ==
  ASSUME \A G \in Grammars : Sound(G)
  PROVE  IInv /\ Least /\ [Next]_vars => Least'
<1> SUFFICES ASSUME IInv, Least, [Next]_vars,
                    NEW D, seed' \subseteq D, Closed(g', D)
             PROVE  C' \cup todo' \subseteq D
  BY DEF Least
<1>1. g' = g /\ seed' = seed
  BY DEF Next, Pop, Variant, VisitVariant, Return, vars
<1>2. C \cup todo \subseteq D
  BY <1>1 DEF Least
<1>3. CASE Pop
  <2> DEFINE i == Last(stack)
             t == Rewritten(g, Symbol(i))
  <2>1. i \in C
    BY <1>3, PopLosesTheLast DEF Pop, IInv, TypeOK
  <2>2. C' = C /\ known' = known \cup (IF AtEnd(i) THEN {} ELSE Committed(g, Symbol(i)))
        /\ todo' = IF ~AtEnd(i) /\ t \in known' THEN Alternatives(g, t) ELSE {}
    BY <1>3 DEF Pop
  <2>3. CASE ~AtEnd(i) /\ t \in Tags(g)
    <3>1. Predicted(g, i) = Alternatives(g, t)
      BY <2>3 DEF Predicted
    <3>2. Predicted(g, i) \subseteq D
      BY <1>1, <1>2, <2>1 DEF Closed
    <3> QED BY <1>2, <2>2, <3>1, <3>2
  <2>4. CASE AtEnd(i)
    BY <1>2, <2>2, <2>4
  <2>5. CASE ~AtEnd(i) /\ t \notin Tags(g)
    <3>1. known' \subseteq Tags(g)
      BY <1>1, NextIInv DEF IInv, TypeOK
    <3> QED BY <1>2, <2>2, <2>5, <3>1
  <2> QED BY <2>3, <2>4, <2>5
<1>4. ASSUME NEW c \in todo, Variant(c) PROVE C' \cup todo' \subseteq D
  BY <1>2, <1>4 DEF Variant, VisitVariant
<1>5. CASE Return
  BY <1>2, <1>5 DEF Return
<1>6. CASE UNCHANGED vars
  BY <1>2, <1>6 DEF vars
<1> QED BY <1>3, <1>4, <1>5, <1>6 DEF Next

(***************************************************************************)
(* Whatever the grammar, the kernel and the rules known at the call,       *)
(* closure() returns the least closed set around its seed.                 *)
(***************************************************************************)
THEOREM ClosureIsCorrect ==
  ASSUME \A G \in Grammars : Sound(G)
  PROVE  Spec => []ClosureCorrect
<1>1. Init => IInv /\ Least
  BY InitIInv, InitLeast
<1>2. IInv /\ Least /\ [Next]_vars => (IInv /\ Least)'
  BY NextIInv, NextLeast
<1>3. IInv /\ Least => ClosureCorrect
  <2> SUFFICES ASSUME IInv, Least, done PROVE
        /\ seed \subseteq C
        /\ Closed(g, C)
        /\ \A D \in SUBSET C : seed \subseteq D /\ Closed(g, D) => D = C
    BY DEF ClosureCorrect
  <2>1. seed \subseteq C
    BY DEF IInv, TypeOK
  <2>2. stack = <<>> /\ todo = {}
    BY DEF IInv, Worklist
  <2>3. ToSet(stack) = {}
    BY <2>2 DEF ToSet
  <2>4. Closed(g, C)
    BY <2>2, <2>3 DEF IInv, Worklist, Closed
  <2>5. ASSUME NEW D \in SUBSET C, seed \subseteq D, Closed(g, D) PROVE D = C
    BY <2>5 DEF Least
  <2> QED BY <2>1, <2>4, <2>5
<1> QED BY <1>1, <1>2, <1>3, PTL DEF Spec

(***************************************************************************)
(* ClosureOf, which LRAutomaton uses for closure(), is the least closed    *)
(* set around its argument.                                                *)
(***************************************************************************)
LEMMA CalledIsClosed ==
  ASSUME NEW G, NEW I
  PROVE  /\ CalledBy(G, I) \subseteq Called(G, I)
         /\ \A u \in Called(G, I) :
               CalledBy(G, Alternatives(G, u)) \subseteq Called(G, I)
<1>1. \A J : CalledBy(G, J) \subseteq Tags(G)
  BY DEF CalledBy
<1>2. CalledBy(G, I) \subseteq Called(G, I)
  BY <1>1 DEF Called
<1>3. ASSUME NEW u \in Called(G, I), NEW t \in CalledBy(G, Alternatives(G, u)),
             NEW T \in SUBSET Tags(G), CalledBy(G, I) \subseteq T,
             \A w \in T : CalledBy(G, Alternatives(G, w)) \subseteq T
      PROVE  t \in T
  BY <1>3 DEF Called
<1>4. \A u \in Called(G, I) : CalledBy(G, Alternatives(G, u)) \subseteq Called(G, I)
  BY <1>1, <1>3 DEF Called
<1> QED BY <1>2, <1>4

LEMMA PredictedIsCalled ==
  ASSUME NEW G, NEW J, NEW i \in J
  PROVE  \/ Predicted(G, i) = {}
         \/ \E t \in CalledBy(G, J) : Predicted(G, i) = Alternatives(G, t)
BY DEF Predicted, CalledBy

LEMMA CalledIsPredicted ==
  ASSUME NEW G, NEW J, NEW t \in CalledBy(G, J)
  PROVE  \E i \in J : Predicted(G, i) = Alternatives(G, t)
BY DEF Predicted, CalledBy

LEMMA ClosureOfIsLeast ==
  ASSUME NEW G, NEW I
  PROVE  /\ I \subseteq ClosureOf(G, I)
         /\ Closed(G, ClosureOf(G, I))
         /\ \A D : I \subseteq D /\ Closed(G, D) => ClosureOf(G, I) \subseteq D
<1>1. I \subseteq ClosureOf(G, I)
  BY DEF ClosureOf
<1>2. ASSUME NEW i \in ClosureOf(G, I) PROVE Predicted(G, i) \subseteq ClosureOf(G, I)
  <2>1. ASSUME NEW t \in Called(G, I) PROVE Alternatives(G, t) \subseteq ClosureOf(G, I)
    BY DEF ClosureOf
  <2>2. CASE i \in I
    BY <2>1, <2>2, PredictedIsCalled, CalledIsClosed
  <2>3. ASSUME NEW u \in Called(G, I), i \in Alternatives(G, u)
        PROVE  Predicted(G, i) \subseteq ClosureOf(G, I)
    BY <2>1, <2>3, PredictedIsCalled, CalledIsClosed
  <2> QED BY <2>2, <2>3 DEF ClosureOf
<1>3. ASSUME NEW D, I \subseteq D, Closed(G, D) PROVE ClosureOf(G, I) \subseteq D
  <2> DEFINE T == {t \in Tags(G) : Alternatives(G, t) \subseteq D}
  <2>1. ASSUME NEW J, J \subseteq D PROVE CalledBy(G, J) \subseteq T
    <3>1. ASSUME NEW t \in CalledBy(G, J) PROVE t \in T
      <4>1. PICK i \in J : Predicted(G, i) = Alternatives(G, t)
        BY CalledIsPredicted
      <4>2. Alternatives(G, t) \subseteq D
        BY <1>3, <2>1, <4>1 DEF Closed
      <4> QED BY <4>2 DEF CalledBy
    <3> QED BY <3>1
  <2>2. CalledBy(G, I) \subseteq T
    BY <1>3, <2>1
  <2>3. \A u \in T : CalledBy(G, Alternatives(G, u)) \subseteq T
    BY <2>1
  <2>4. T \in SUBSET Tags(G)
    OBVIOUS
  <2> HIDE DEF T
  <2>5. Called(G, I) \subseteq T
    BY <2>2, <2>3, <2>4 DEF Called
  <2> QED BY <1>3, <2>5 DEF ClosureOf, T
<1> QED BY <1>1, <1>2, <1>3 DEF Closed

(***************************************************************************)
(* What closure() returns is a function of the seed, ClosureOf: neither    *)
(* the order of the worklist nor the rules known at the call show in it.   *)
(***************************************************************************)
THEOREM ClosureReturnsClosureOf ==
  ASSUME \A G \in Grammars : Sound(G)
  PROVE  Spec => [](done => C = ClosureOf(g, seed))
<1>1. Init => IInv /\ Least
  BY InitIInv, InitLeast
<1>2. IInv /\ Least /\ [Next]_vars => (IInv /\ Least)'
  BY NextIInv, NextLeast
<1>3. IInv /\ Least => (done => C = ClosureOf(g, seed))
  <2> SUFFICES ASSUME IInv, Least, done PROVE C = ClosureOf(g, seed)
    OBVIOUS
  <2>1. seed \subseteq C /\ Closed(g, C)
    <3>1. stack = <<>> /\ todo = {}
      BY DEF IInv, Worklist
    <3>2. ToSet(stack) = {}
      BY <3>1 DEF ToSet
    <3> QED BY <3>1, <3>2 DEF IInv, TypeOK, Worklist, Closed
  <2>2. ClosureOf(g, seed) \subseteq C
    BY <2>1, ClosureOfIsLeast
  <2>3. C \subseteq ClosureOf(g, seed)
    BY ClosureOfIsLeast DEF Least
  <2> QED BY <2>2, <2>3
<1> QED BY <1>1, <1>2, <1>3, PTL DEF Spec

(***************************************************************************)
(* The operators ClosureSpec takes from LRGrammar are the ones used here.  *)
(***************************************************************************)
LEMMA SameOperators ==
  ASSUME NEW G, NEW i, NEW D
  PROVE  /\ Abstract!IsItem(G, i) <=> IsItem(G, i)
         /\ Abstract!Predicted(G, i) = Predicted(G, i)
         /\ Abstract!Closed(G, D) <=> Closed(G, D)
BY DEF Abstract!IsItem, IsItem, Abstract!Predicted, Predicted, Abstract!Closed,
       Closed, Abstract!Tags, Tags, Abstract!AtEnd, AtEnd, Abstract!Symbol, Symbol,
       Abstract!Rewritten, Rewritten, Abstract!Combinations, Combinations,
       Abstract!Alternatives, Alternatives

(***************************************************************************)
(* The worklist implements ClosureSpec: the loop over the variants of a    *)
(* rule only adds predicted items, and the function returns only when      *)
(* nothing predicted is missing.                                           *)
(***************************************************************************)
THEOREM WorklistImplementsClosure ==
  ASSUME \A G \in Grammars : Sound(G)
  PROVE  Spec => Implements
<1>1. Init => Abstract!SpecInit
  <2> SUFFICES ASSUME Init PROVE Abstract!SpecInit
    OBVIOUS
  <2>1. IInv
    BY InitIInv
  <2>2. \A i \in seed : IsItem(g, i)
    BY <2>1 DEF IInv, TypeOK
  <2>3. \A i \in seed : Abstract!IsItem(g, i)
    BY <2>2, SameOperators
  <2> QED BY <2>3 DEF Init, Abstract!SpecInit
<1>2. IInv /\ [Next]_vars => [Abstract!SpecNext]_(Abstract!specVars)
  <2> SUFFICES ASSUME IInv, [Next]_vars
               PROVE  Abstract!SpecNext \/ UNCHANGED <<g, seed, C, done>>
    BY DEF Abstract!specVars
  <2>1. CASE Pop
    BY <2>1 DEF Pop
  <2>2. ASSUME NEW c \in todo, Variant(c)
        PROVE  Abstract!SpecNext \/ UNCHANGED <<g, seed, C, done>>
    <3>1. CASE c \in C
      BY <2>2, <3>1 DEF Variant, VisitVariant
    <3>2. CASE c \notin C
      <4>1. PICK i \in C : c \in Predicted(g, i)
        BY DEF IInv, Worklist
      <4>2. c \in Abstract!Predicted(g, i) \ C
        BY <3>2, <4>1, SameOperators
      <4>3. C' = C \cup {c} /\ ~done /\ UNCHANGED <<g, seed, done>>
        BY <2>2, <3>2 DEF Variant, VisitVariant
      <4> QED BY <4>2, <4>3 DEF Abstract!SpecNext, Abstract!Predict
    <3> QED BY <3>1, <3>2
  <2>3. CASE Return
    <3>1. ToSet(stack) = {} /\ todo = {}
      BY <2>3 DEF Return, ToSet
    <3>2. Closed(g, C)
      BY <3>1 DEF IInv, Worklist, Closed
    <3>3. Abstract!Closed(g, C)
      BY <3>2, SameOperators
    <3> QED BY <2>3, <3>3 DEF Return, Abstract!SpecNext, Abstract!Finish
  <2>4. CASE UNCHANGED vars
    BY <2>4 DEF vars
  <2> QED BY <2>1, <2>2, <2>3, <2>4 DEF Next
<1> QED
  BY <1>1, <1>2, Invariance, PTL DEF Spec, Implements, Abstract!ClosureSpecification
=============================================================================
