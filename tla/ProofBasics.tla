----------------------------- MODULE ProofBasics -----------------------------
(***************************************************************************)
(* Facts that several proof modules cite: about sequences used as stacks,  *)
(* the innermost element last, and about the least of some natural         *)
(* numbers, from which induction over a set follows.                       *)
(***************************************************************************)
EXTENDS Integers, Sequences, SequencesExt, SequenceTheorems, WellFoundedInduction, TLAPS

\* A stack without its innermost element.
LEMMA FrontFacts ==
  ASSUME NEW S, NEW s \in Seq(S), s # <<>>
  PROVE  /\ Len(s) \in Nat /\ Len(s) >= 1 /\ DOMAIN s = 1 .. Len(s)
         /\ Last(s) = s[Len(s)] /\ Last(s) \in S
         /\ Front(s) \in Seq(S) /\ Len(Front(s)) = Len(s) - 1
         /\ DOMAIN Front(s) = 1 .. Len(s) - 1
         /\ \A i \in 1 .. Len(s) - 1 : Front(s)[i] = s[i]
<1>1. Len(s) \in Nat /\ Len(s) >= 1 /\ DOMAIN s = 1 .. Len(s) /\ \A i \in 1 .. Len(s) : s[i] \in S
  BY EmptySeq, LenProperties, ElementOfSeq
<1>2. Front(s) = SubSeq(s, 1, Len(s) - 1) /\ Last(s) = s[Len(s)]
  BY DEF Front, Last
<1>3. /\ SubSeq(s, 1, Len(s) - 1) \in Seq(S)
      /\ Len(SubSeq(s, 1, Len(s) - 1)) = IF 1 <= Len(s) - 1 THEN Len(s) - 1 - 1 + 1 ELSE 0
      /\ \A i \in 1 .. Len(s) - 1 - 1 + 1 : SubSeq(s, 1, Len(s) - 1)[i] = s[1 + i - 1]
  BY <1>1, SubSeqProperties
<1>4. QED
  BY <1>1, <1>2, <1>3, LenProperties

LEMMA OneElement ==
  ASSUME NEW S, NEW x \in S
  PROVE  << x >> \in Seq(S) /\ Len(<< x >>) = 1 /\ << x >>[1] = x
OBVIOUS

\* A stack with one element more.
LEMMA AppendFacts ==
  ASSUME NEW S, NEW s \in Seq(S), NEW x \in S
  PROVE  /\ Len(s) \in Nat /\ DOMAIN s = 1 .. Len(s)
         /\ Append(s, x) \in Seq(S) /\ Append(s, x) # <<>>
         /\ Len(Append(s, x)) = Len(s) + 1 /\ DOMAIN Append(s, x) = 1 .. Len(s) + 1
         /\ Append(s, x)[Len(s) + 1] = x /\ Last(Append(s, x)) = x
         /\ \A i \in 1 .. Len(s) : Append(s, x)[i] = s[i]
         /\ Front(Append(s, x)) = s
<1>1. Len(s) \in Nat /\ DOMAIN s = 1 .. Len(s)
  BY LenProperties
<1>2. /\ Append(s, x) \in Seq(S) /\ Append(s, x) # <<>>
      /\ Len(Append(s, x)) = Len(s) + 1 /\ DOMAIN Append(s, x) = 1 .. Len(s) + 1
      /\ Append(s, x)[Len(s) + 1] = x
      /\ \A i \in 1 .. Len(s) : Append(s, x)[i] = s[i]
  BY <1>1, AppendProperties, LenProperties
<1>3. Last(Append(s, x)) = x
  BY <1>1, <1>2 DEF Last
<1>4. Front(Append(s, x)) = s
  <2>1. /\ Front(Append(s, x)) \in Seq(S) /\ Len(Front(Append(s, x))) = Len(s)
        /\ \A i \in 1 .. Len(s) : Front(Append(s, x))[i] = Append(s, x)[i]
    <3>1. PICK t \in Seq(S) : t = Append(s, x) /\ t # <<>> /\ Len(t) = Len(s) + 1
      BY <1>2
    <3>2. Front(t) \in Seq(S) /\ Len(Front(t)) = Len(t) - 1 /\ \A i \in 1 .. Len(t) - 1 : Front(t)[i] = t[i]
      BY <3>1, FrontFacts
    <3>3. QED
      BY <1>1, <3>1, <3>2
  <2>2. QED
    BY <1>2, <2>1, SeqEqual
<1>5. QED
  BY <1>1, <1>2, <1>3, <1>4

\* A stack with another innermost element.
LEMMA ReplaceFacts ==
  ASSUME NEW S, NEW s \in Seq(S), s # <<>>, NEW x \in S
  PROVE  /\ Append(Front(s), x) \in Seq(S) /\ Append(Front(s), x) # <<>>
         /\ Len(Append(Front(s), x)) = Len(s) /\ DOMAIN Append(Front(s), x) = DOMAIN s
         /\ Append(Front(s), x)[Len(s)] = x /\ Last(Append(Front(s), x)) = x
         /\ \A i \in DOMAIN s \ {Len(s)} : Append(Front(s), x)[i] = s[i]
         /\ Front(Append(Front(s), x)) = Front(s)
<1>1. PICK t \in Seq(S) : t = Front(s) /\ Len(t) = Len(s) - 1 /\ \A i \in 1 .. Len(s) - 1 : t[i] = s[i]
  BY FrontFacts
<1>2. Len(s) \in Nat /\ Len(s) >= 1 /\ DOMAIN s = 1 .. Len(s)
  BY FrontFacts
<1>3. /\ Append(t, x) \in Seq(S) /\ Append(t, x) # <<>>
      /\ Len(Append(t, x)) = Len(t) + 1 /\ DOMAIN Append(t, x) = 1 .. Len(t) + 1
      /\ Append(t, x)[Len(t) + 1] = x /\ Last(Append(t, x)) = x
      /\ \A i \in 1 .. Len(t) : Append(t, x)[i] = t[i]
      /\ Front(Append(t, x)) = t
  BY AppendFacts
<1>4. QED
  BY <1>1, <1>2, <1>3

-----------------------------------------------------------------------------
LEMMA Least ==
  ASSUME NEW T \in SUBSET Nat, T # {}
  PROVE  \E x \in T : \A y \in T : x <= y
<1>1. PICK x \in T : \A y \in T : ~ (<<y, x>> \in OpToRel(<, Nat))
  BY NatLessThanWellFounded, WFMin, Zenon
<1>2. \A y \in T : ~ (y < x)
  BY <1>1 DEF OpToRel
<1>3. x \in Nat /\ \A y \in T : y \in Nat
  OBVIOUS
<1>4. ASSUME NEW y \in T PROVE x <= y
  BY <1>2, <1>3
<1>5. QED
  BY <1>4

\* What is in a set as soon as all smaller numbers are, is in it.
LEMMA SetInduction ==
  ASSUME NEW S, \A n \in Nat : (\A m \in Nat : m < n => m \in S) => n \in S
  PROVE  Nat \subseteq S
<1>1. SUFFICES ASSUME Nat \ S # {} PROVE FALSE
  OBVIOUS
<1>2. PICK n \in Nat \ S : \A m \in Nat \ S : n <= m
  BY <1>1, Least
<1>3. \A m \in Nat : m < n => m \in S
  BY <1>2
<1>4. QED
  BY <1>2, <1>3

(***************************************************************************)
(* A recursive function exists: one whose value at k is given, or comes    *)
(* from its value at prior[k], which has a lower rank, by step[k].         *)
(***************************************************************************)
Recursion(S, given, prior, step, g) ==
  \A k \in S : g[k] = IF k \in DOMAIN given THEN given[k] ELSE step[k][g[prior[k]]]

UpTo(S, rank, m) == { k \in S : rank[k] <= m }

LEMMA RankedRecursionExists ==
  ASSUME NEW S, NEW V, NEW B \in SUBSET S, NEW given \in [B -> V],
         NEW rank \in [S -> Nat],
         NEW prior \in [S \ B -> S], \A k \in S \ B : rank[prior[k]] < rank[k],
         NEW step \in [S \ B -> [V -> V]]
  PROVE  \E g \in [S -> V] : Recursion(S, given, prior, step, g)
<1> DEFINE Sol(m, g) == g \in [UpTo(S, rank, m) -> V]
                        /\ Recursion(UpTo(S, rank, m), given, prior, step, g)
           Solved == { m \in Nat : \E g : Sol(m, g) }
<1>1. ASSUME NEW m \in Nat, NEW k \in UpTo(S, rank, m), k \notin B
      PROVE  /\ k \in S \ B /\ rank[k] \in Nat /\ prior[k] \in S /\ rank[prior[k]] \in Nat
             /\ prior[k] \in UpTo(S, rank, m) /\ rank[prior[k]] < rank[k]
  <2>1. k \in S \ B /\ rank[k] <= m
    BY <1>1 DEF UpTo
  <2>2. prior[k] \in S /\ rank[prior[k]] < rank[k]
    BY <2>1
  <2>3. PICK j \in Nat : j = rank[prior[k]]
    BY <2>2
  <2>4. rank[k] \in Nat
    BY <2>1
  <2>5. j <= m
    BY <2>1, <2>2, <2>3, <2>4
  <2>6. QED
    BY <2>1, <2>2, <2>3, <2>4, <2>5 DEF UpTo
<1>2. ASSUME NEW m \in Nat, NEW l \in Nat, NEW g, Sol(m, g), NEW h, Sol(l, h),
             NEW i \in UpTo(S, rank, m), i \in UpTo(S, rank, l)
      PROVE  g[i] = h[i]
  <2> DEFINE D == { k \in UpTo(S, rank, m) \cap UpTo(S, rank, l) : g[k] # h[k] }
             R == { rank[k] : k \in D }
  <2>1. SUFFICES ASSUME D # {} PROVE FALSE
    BY <1>2
  <2>2. R \in SUBSET Nat /\ R # {}
    <3>1. \A k \in D : rank[k] \in Nat
      BY DEF UpTo
    <3> HIDE DEF D
    <3>2. QED
      BY <2>1, <3>1
  <2>3. PICK k \in D : \A j \in D : rank[k] <= rank[j]
    <3>1. PICK n \in R : \A j \in R : n <= j
      <4> HIDE DEF R
      <4>1. QED
        BY <2>2, Least
    <3>2. QED
      BY <3>1
  <2>4. k \in UpTo(S, rank, m) /\ k \in UpTo(S, rank, l) /\ g[k] # h[k] /\ DOMAIN given = B
    OBVIOUS
  <2>5. k \notin B
    BY <1>2, <2>4 DEF Recursion
  <2>6. /\ rank[k] \in Nat /\ rank[prior[k]] \in Nat /\ rank[prior[k]] < rank[k]
        /\ prior[k] \in UpTo(S, rank, m) /\ prior[k] \in UpTo(S, rank, l)
    BY <1>1, <2>4, <2>5
  <2>7. prior[k] \notin D
    BY <2>3, <2>6
  <2>8. g[prior[k]] = h[prior[k]]
    BY <2>6, <2>7
  <2>9. g[k] = step[k][g[prior[k]]] /\ h[k] = step[k][h[prior[k]]]
    BY <1>2, <2>4, <2>5 DEF Recursion
  <2>10. QED
    BY <2>4, <2>8, <2>9
<1>3. ASSUME NEW m \in Nat, \A j \in Nat : j < m => j \in Solved PROVE m \in Solved
  <2>1. PICK g : /\ m = 0 => g = given
                 /\ m # 0 => Sol(m - 1, g)
    <3>1. CASE m = 0
      BY <3>1
    <3>2. CASE m # 0
      <4>1. m - 1 \in Nat /\ m - 1 < m
        BY <3>2
      <4>2. m - 1 \in Solved
        BY <1>3, <4>1
      <4>3. QED
        BY <3>2, <4>2
    <3>3. QED
      BY <3>1, <3>2
  <2> DEFINE h == [k \in UpTo(S, rank, m) |-> IF k \in B THEN given[k] ELSE step[k][g[prior[k]]]]
  <2>2. ASSUME NEW k \in UpTo(S, rank, m), k \notin B
        PROVE  /\ prior[k] \in UpTo(S, rank, m) /\ g[prior[k]] \in V
               /\ h[prior[k]] = g[prior[k]]
    <3>1. /\ k \in S \ B /\ rank[k] \in Nat /\ rank[k] <= m /\ rank[prior[k]] \in Nat /\ prior[k] \in S
          /\ rank[prior[k]] < rank[k] /\ prior[k] \in UpTo(S, rank, m)
      BY <1>1, <2>2 DEF UpTo
    <3>2. m # 0 /\ m - 1 \in Nat /\ rank[prior[k]] <= m - 1
      BY <3>1
    <3>3. prior[k] \in UpTo(S, rank, m - 1) /\ Sol(m - 1, g)
      BY <2>1, <3>1, <3>2 DEF UpTo
    <3>4. g[prior[k]] \in V
      BY <3>3
    <3>5. g[prior[k]] = IF prior[k] \in DOMAIN given THEN given[prior[k]] ELSE step[prior[k]][g[prior[prior[k]]]]
      BY <3>3 DEF Recursion
    <3>6. QED
      BY <3>1, <3>4, <3>5
  <2>3. h \in [UpTo(S, rank, m) -> V]
    <3>1. ASSUME NEW k \in UpTo(S, rank, m) PROVE (IF k \in B THEN given[k] ELSE step[k][g[prior[k]]]) \in V
      <4>1. CASE k \in B
        BY <4>1
      <4>2. CASE k \notin B
        <5>1. g[prior[k]] \in V /\ k \in S \ B
          BY <2>2, <4>2 DEF UpTo
        <5>2. step[k] \in [V -> V]
          BY <5>1
        <5>3. QED
          BY <4>2, <5>1, <5>2
      <4>3. QED
        BY <4>1, <4>2
    <3>2. QED
      BY <3>1
  <2>4. Recursion(UpTo(S, rank, m), given, prior, step, h)
    <3>1. ASSUME NEW k \in UpTo(S, rank, m)
          PROVE  h[k] = IF k \in DOMAIN given THEN given[k] ELSE step[k][h[prior[k]]]
      <4>1. h[k] = IF k \in B THEN given[k] ELSE step[k][g[prior[k]]]
        OBVIOUS
      <4>2. DOMAIN given = B
        OBVIOUS
      <4> HIDE DEF h
      <4>3. QED
        BY <2>2, <4>1, <4>2
    <3>2. QED
      BY <3>1 DEF Recursion
  <2>5. QED
    BY <2>3, <2>4
<1>4. \A m \in Nat : \E g : Sol(m, g)
  <2>1. Nat \subseteq Solved
    <3>1. PICK T : T = Solved
      OBVIOUS
    <3>2. \A m \in Nat : (\A j \in Nat : j < m => j \in T) => m \in T
      BY <1>3, <3>1
    <3>3. Nat \subseteq T
      BY <3>2, SetInduction
    <3>4. QED
      BY <3>1, <3>3
  <2>2. QED
    BY <2>1
<1> DEFINE pick == [m \in Nat |-> CHOOSE g : Sol(m, g)]
<1>5. \A m \in Nat : Sol(m, pick[m])
  BY <1>4
<1> HIDE DEF pick, Sol
<1> DEFINE all == [k \in S |-> pick[rank[k]][k]]
<1>6. ASSUME NEW m \in Nat, NEW k \in UpTo(S, rank, m) PROVE k \in S /\ all[k] = pick[m][k]
  <2>1. k \in S /\ rank[k] \in Nat /\ k \in UpTo(S, rank, rank[k])
    BY DEF UpTo
  <2>2. all[k] = pick[rank[k]][k]
    BY <2>1
  <2>3. Sol(rank[k], pick[rank[k]]) /\ Sol(m, pick[m])
    BY <1>5, <2>1
  <2>4. pick[rank[k]][k] = pick[m][k]
    BY <1>2, <2>1, <2>3
  <2>5. QED
    BY <2>1, <2>2, <2>4
<1>7. ASSUME NEW k \in S
      PROVE  all[k] \in V /\ all[k] = IF k \in DOMAIN given THEN given[k] ELSE step[k][all[prior[k]]]
  <2>1. rank[k] \in Nat /\ k \in UpTo(S, rank, rank[k])
    BY DEF UpTo
  <2> DEFINE f == pick[rank[k]]
  <2>2. f \in [UpTo(S, rank, rank[k]) -> V] /\ Recursion(UpTo(S, rank, rank[k]), given, prior, step, f)
    BY <1>5, <2>1 DEF Sol
  <2>3. all[k] = f[k] /\ DOMAIN given = B
    OBVIOUS
  <2>4. all[k] \in V /\ all[k] = IF k \in DOMAIN given THEN given[k] ELSE step[k][f[prior[k]]]
    BY <2>1, <2>2, <2>3 DEF Recursion
  <2>5. k \notin B => all[prior[k]] = f[prior[k]]
    BY <1>1, <1>6, <2>1
  <2>6. QED
    BY <2>3, <2>4, <2>5
<1>8. all \in [S -> V]
  BY <1>7
<1>9. QED
  BY <1>7, <1>8 DEF Recursion

\* Over numbers, where the number itself is the rank.
LEMMA RecursionExists ==
  ASSUME NEW S \in SUBSET Nat, NEW V, NEW B \in SUBSET S, NEW given \in [B -> V],
         NEW prior \in [S \ B -> S], \A k \in S \ B : prior[k] < k,
         NEW step \in [S \ B -> [V -> V]]
  PROVE  \E g \in [S -> V] : Recursion(S, given, prior, step, g)
<1>1. PICK rank \in [S -> Nat] : \A k \in S : rank[k] = k
  <2>1. [k \in S |-> k] \in [S -> Nat]
    OBVIOUS
  <2>2. QED
    BY <2>1
<1>2. \A k \in S \ B : rank[prior[k]] < rank[k]
  BY <1>1
<1>3. QED
  BY <1>2, RankedRecursionExists

-----------------------------------------------------------------------------
(***************************************************************************)
(* Sequences of anything: what they are put together from.                 *)
(***************************************************************************)
IsList(s) == s \in Seq(ToSet(s))

LEMMA ListFacts ==
  ASSUME NEW s, IsList(s)
  PROVE  /\ Len(s) \in Nat /\ DOMAIN s = 1 .. Len(s)
         /\ s = [k \in 1 .. Len(s) |-> s[k]]
         /\ s = <<>> <=> Len(s) = 0
<1>1. Len(s) \in Nat /\ DOMAIN s = 1 .. Len(s) /\ s \in [1 .. Len(s) -> ToSet(s)]
  BY LenProperties DEF IsList
<1>2. s = <<>> <=> Len(s) = 0
  BY <1>1, EmptySeq DEF IsList
<1> QED BY <1>1, <1>2

LEMMA ListOfFunction ==
  ASSUME NEW n \in Nat, NEW s, DOMAIN s = 1 .. n, s = [k \in 1 .. n |-> s[k]]
  PROVE  IsList(s) /\ Len(s) = n
<1>1. \A k \in 1 .. n : s[k] \in ToSet(s)
  BY DEF ToSet
<1>2. s \in [1 .. n -> ToSet(s)]
  BY <1>1
<1>3. s \in Seq(ToSet(s))
  BY <1>2
<1> QED BY <1>3, LenProperties DEF IsList

LEMMA ListOfSeq ==
  ASSUME NEW S, NEW s
  PROVE  s \in Seq(S) <=> IsList(s) /\ ToSet(s) \subseteq S
<1>1. ASSUME s \in Seq(S) PROVE IsList(s) /\ ToSet(s) \subseteq S
  <2>1. Len(s) \in Nat /\ DOMAIN s = 1 .. Len(s) /\ s \in [1 .. Len(s) -> S]
    BY <1>1, LenProperties
  <2>2. s = [k \in 1 .. Len(s) |-> s[k]]
    BY <2>1
  <2> QED BY <2>1, <2>2, ListOfFunction DEF ToSet
<1>2. ASSUME IsList(s), ToSet(s) \subseteq S PROVE s \in Seq(S)
  BY <1>2, SeqMonotonic DEF IsList
<1> QED BY <1>1, <1>2

LEMMA ConcatLists ==
  ASSUME NEW s, NEW t, IsList(s), IsList(t)
  PROVE  /\ IsList(s \o t) /\ Len(s \o t) = Len(s) + Len(t)
         /\ DOMAIN (s \o t) = 1 .. Len(s) + Len(t)
         /\ \A k \in 1 .. Len(s) : (s \o t)[k] = s[k]
         /\ \A k \in 1 .. Len(t) : (s \o t)[Len(s) + k] = t[k]
         /\ ToSet(s \o t) = ToSet(s) \cup ToSet(t)
<1> DEFINE S == ToSet(s) \cup ToSet(t)
           c == s \o t
<1>1. s \in Seq(S) /\ t \in Seq(S)
  BY ListOfSeq
<1>2. Len(s) \in Nat /\ DOMAIN s = 1 .. Len(s) /\ Len(t) \in Nat /\ DOMAIN t = 1 .. Len(t)
  BY ListFacts
<1>3. /\ c \in Seq(S) /\ Len(c) = Len(s) + Len(t)
      /\ \A k \in 1 .. Len(s) + Len(t) : c[k] = IF k <= Len(s) THEN s[k] ELSE t[k - Len(s)]
  <2> HIDE DEF S
  <2> QED BY <1>1, ConcatProperties
<1>4. IsList(c) /\ ToSet(c) \subseteq S /\ DOMAIN c = 1 .. Len(s) + Len(t)
  <2> HIDE DEF S, c
  <2> QED BY <1>3, ListOfSeq, LenProperties
<1> HIDE DEF c
<1>5. \A k \in 1 .. Len(s) : c[k] = s[k] /\ k \in DOMAIN c
  BY <1>2, <1>3, <1>4
<1>6. \A k \in 1 .. Len(t) : c[Len(s) + k] = t[k] /\ Len(s) + k \in DOMAIN c
  <2> SUFFICES ASSUME NEW k \in 1 .. Len(t) PROVE c[Len(s) + k] = t[k] /\ Len(s) + k \in DOMAIN c
    OBVIOUS
  <2>1. Len(s) + k \in 1 .. Len(s) + Len(t) /\ ~ (Len(s) + k <= Len(s)) /\ Len(s) + k - Len(s) = k
    BY <1>2
  <2> QED BY <1>3, <1>4, <2>1
<1>7. S \subseteq ToSet(c)
  <2>1. \A k \in DOMAIN s : s[k] \in ToSet(c)
    BY <1>2, <1>5 DEF ToSet
  <2>2. \A k \in DOMAIN t : t[k] \in ToSet(c)
    BY <1>2, <1>6 DEF ToSet
  <2> QED BY <2>1, <2>2 DEF ToSet
<1> QED BY <1>3, <1>4, <1>5, <1>6, <1>7 DEF c

LEMMA NoList ==
  IsList(<<>>) /\ Len(<<>>) = 0 /\ DOMAIN <<>> = {} /\ ToSet(<<>>) = {}
<1>1. <<>> \in Seq({}) /\ Len(<<>>) = 0 /\ DOMAIN <<>> = {}
  OBVIOUS
<1>2. IsList(<<>>)
  BY <1>1, ListOfSeq
<1> QED BY <1>1, <1>2 DEF ToSet

LEMMA OneList ==
  ASSUME NEW x
  PROVE  IsList(<< x >>) /\ Len(<< x >>) = 1 /\ << x >>[1] = x /\ ToSet(<< x >>) = {x}
<1>1. << x >> \in Seq({x}) /\ Len(<< x >>) = 1 /\ << x >>[1] = x
  OBVIOUS
<1>2. IsList(<< x >>)
  BY <1>1, ListOfSeq
<1>3. ToSet(<< x >>) = {x}
  <2>1. DOMAIN << x >> = {1}
    OBVIOUS
  <2> QED BY <1>1, <2>1, Zenon DEF ToSet
<1> QED BY <1>1, <1>2, <1>3

LEMMA AppendedIsConcat ==
  ASSUME NEW s, IsList(s), NEW x
  PROVE  Append(s, x) = s \o << x >>
<1> DEFINE S == ToSet(s) \cup {x}
<1>1. s \in Seq(S) /\ x \in S
  BY ListOfSeq
<1> HIDE DEF S
<1> QED BY <1>1, AppendIsConcat

LEMMA AppendedList ==
  ASSUME NEW s, IsList(s), NEW x
  PROVE  /\ IsList(Append(s, x)) /\ Len(Append(s, x)) = Len(s) + 1
         /\ DOMAIN Append(s, x) = 1 .. Len(s) + 1
         /\ \A k \in 1 .. Len(s) : Append(s, x)[k] = s[k]
         /\ Append(s, x)[Len(s) + 1] = x
         /\ ToSet(Append(s, x)) = ToSet(s) \cup {x}
<1> DEFINE w == Append(s, x)
<1>2. w = s \o << x >>
  BY AppendedIsConcat
<1>3. PICK t : t = << x >> /\ IsList(t) /\ Len(t) = 1 /\ t[1] = x /\ ToSet(t) = {x}
  BY OneList
<1>4. w = s \o t
  BY <1>2, <1>3
<1> HIDE DEF w
<1>5. IsList(t) /\ Len(t) = 1 /\ t[1] = x /\ ToSet(t) = {x} /\ 1 \in 1 .. 1
  BY <1>3
<1>6. PICK v : v = w /\ v = s \o t
  BY <1>4
<1>7. /\ IsList(v) /\ Len(v) = Len(s) + Len(t) /\ DOMAIN v = 1 .. Len(s) + Len(t)
      /\ \A k \in 1 .. Len(s) : v[k] = s[k]
      /\ \A k \in 1 .. Len(t) : v[Len(s) + k] = t[k]
      /\ ToSet(v) = ToSet(s) \cup ToSet(t)
  <2>1. /\ IsList(s \o t) /\ Len(s \o t) = Len(s) + Len(t)
        /\ DOMAIN (s \o t) = 1 .. Len(s) + Len(t)
        /\ \A k \in 1 .. Len(s) : (s \o t)[k] = s[k]
        /\ \A k \in 1 .. Len(t) : (s \o t)[Len(s) + k] = t[k]
        /\ ToSet(s \o t) = ToSet(s) \cup ToSet(t)
    BY ONLY IsList(s), <1>5, ConcatLists, ZenonT(30)
  <2>2. v = s \o t
    BY <1>6
  <2> QED BY ONLY <2>1, <2>2, ZenonT(30)
<1>8. /\ IsList(w) /\ Len(w) = Len(s) + 1
      /\ DOMAIN w = 1 .. Len(s) + 1
      /\ \A k \in 1 .. Len(s) : w[k] = s[k]
      /\ w[Len(s) + 1] = x
      /\ ToSet(w) = ToSet(s) \cup {x}
  BY <1>5, <1>6, <1>7
<1> QED BY <1>8, Zenon DEF w

\* What a concatenation returns comes from one of the two.
LEMMA FromEither ==
  ASSUME NEW s, NEW t, IsList(s), IsList(t), NEW k \in DOMAIN (s \o t)
  PROVE  (\E j \in DOMAIN s : (s \o t)[k] = s[j]) \/ (\E j \in DOMAIN t : (s \o t)[k] = t[j])
<1>1. /\ DOMAIN (s \o t) = 1 .. Len(s) + Len(t)
      /\ \A j \in 1 .. Len(s) : (s \o t)[j] = s[j]
      /\ \A j \in 1 .. Len(t) : (s \o t)[Len(s) + j] = t[j]
  BY ConcatLists
<1>2. /\ Len(s) \in Nat /\ DOMAIN s = 1 .. Len(s)
      /\ Len(t) \in Nat /\ DOMAIN t = 1 .. Len(t)
  BY ListFacts
<1>3. PICK c : c = s \o t
  OBVIOUS
<1>4. CASE k <= Len(s)
  <2>1. k \in 1 .. Len(s)
    BY <1>1, <1>2, <1>4
  <2> QED BY <1>1, <1>2, <2>1
<1>5. CASE k > Len(s)
  <2>1. k - Len(s) \in 1 .. Len(t) /\ k = Len(s) + (k - Len(s))
    BY <1>1, <1>2, <1>5
  <2>2. c[k] = t[k - Len(s)]
    BY <1>1, <1>3, <2>1
  <2> QED BY <1>2, <1>3, <2>1, <2>2
<1> QED BY <1>1, <1>2, <1>4, <1>5

(***************************************************************************)
(* What FlattenSeq returns comes from one of the sequences it is given.    *)
(***************************************************************************)
LEMMA FlattenLists ==
  ASSUME NEW ss, IsList(ss), \A q \in DOMAIN ss : IsList(ss[q])
  PROVE  /\ IsList(FlattenSeq(ss))
         /\ \A k \in DOMAIN FlattenSeq(ss) : \E q \in DOMAIN ss : \E j \in DOMAIN ss[q] :
               FlattenSeq(ss)[k] = ss[q][j]
<1> DEFINE E == UNION { ToSet(ss[q]) : q \in DOMAIN ss }
           n == Len(ss)
           Flattens(f) == f = [k \in 1 .. n |-> IF k = 1 THEN ss[k] ELSE f[k - 1] \o ss[k]]
           flatten == CHOOSE f : Flattens(f)
<1>1. n \in Nat /\ DOMAIN ss = 1 .. n /\ (ss = <<>> <=> n = 0)
  BY ListFacts
<1>2. \A q \in 1 .. n : ss[q] \in Seq(E)
  <2> SUFFICES ASSUME NEW q \in 1 .. n PROVE ss[q] \in Seq(E)
    OBVIOUS
  <2>1. IsList(ss[q]) /\ ToSet(ss[q]) \subseteq E
    BY <1>1
  <2> HIDE DEF E
  <2> QED BY <2>1, ListOfSeq
<1>3. ASSUME n # 0
      PROVE  FlattenSeq(ss) \in Seq(E)
  <2> DEFINE S == 1 .. n
             B == {1}
             given == [k \in B |-> ss[1]]
             prior == [k \in S \ B |-> k - 1]
             step == [k \in S \ B |-> [v \in Seq(E) |-> v \o ss[k]]]
  <2>1. S \in SUBSET Nat /\ B \in SUBSET S /\ given \in [B -> Seq(E)]
    BY <1>1, <1>2, <1>3
  <2>2. prior \in [S \ B -> S] /\ \A k \in S \ B : prior[k] < k
    BY <1>1
  <2>3. step \in [S \ B -> [Seq(E) -> Seq(E)]]
    <3> SUFFICES ASSUME NEW k \in S \ B, NEW v \in Seq(E) PROVE v \o ss[k] \in Seq(E)
      OBVIOUS
    <3> HIDE DEF E
    <3> QED BY <1>2, ConcatProperties
  <2>4. PICK f \in [S -> Seq(E)] : Recursion(S, given, prior, step, f)
    <3> HIDE DEF S, B, given, prior, step, E
    <3> QED BY <2>1, <2>2, <2>3, RecursionExists
  <2>5. ASSUME NEW k \in 1 .. n PROVE f[k] = IF k = 1 THEN ss[k] ELSE f[k - 1] \o ss[k]
    <3>1. f[k] = IF k \in B THEN given[k] ELSE step[k][f[prior[k]]]
      BY <2>4 DEF Recursion
    <3>2. CASE k = 1
      BY <3>1, <3>2
    <3>3. CASE k # 1
      <4>1. k \in S \ B /\ prior[k] = k - 1 /\ k - 1 \in S
        BY <1>1, <3>3
      <4>2. f[k - 1] \in Seq(E)
        BY <2>4, <4>1
      <4>3. step[k][f[k - 1]] = f[k - 1] \o ss[k]
        BY <4>1, <4>2
      <4> QED BY <3>1, <3>3, <4>1, <4>3
    <3> QED BY <3>2, <3>3
  <2>6. Flattens(f)
    <3>1. f = [k \in 1 .. n |-> f[k]]
      BY <2>4
    <3> HIDE DEF n
    <3> QED BY <2>5, <3>1
  <2>7. Flattens(flatten)
    BY <2>6
  <2>8. FlattenSeq(ss) = flatten[n]
    BY <1>3 DEF FlattenSeq
  <2> HIDE DEF flatten
  <2> DEFINE D == { k \in Nat : k \in 1 .. n => flatten[k] \in Seq(E) }
  <2>9. ASSUME NEW k \in Nat, \A m \in Nat : m < k => m \in D PROVE k \in D
    <3> SUFFICES ASSUME k \in 1 .. n PROVE flatten[k] \in Seq(E)
      OBVIOUS
    <3>1. flatten[k] = IF k = 1 THEN ss[k] ELSE flatten[k - 1] \o ss[k]
      BY <2>7
    <3>2. CASE k = 1
      BY <1>2, <3>1, <3>2
    <3>3. CASE k # 1
      <4>1. k - 1 \in Nat /\ k - 1 < k /\ k - 1 \in 1 .. n
        BY <1>1, <3>3
      <4>2. flatten[k - 1] \in Seq(E) /\ ss[k] \in Seq(E)
        BY <1>2, <2>9, <4>1
      <4> QED BY <3>1, <3>3, <4>2, ConcatProperties
    <3> QED BY <3>2, <3>3
  <2>10. Nat \subseteq D
    <3> HIDE DEF D
    <3> QED BY <2>9, SetInduction
  <2>11. n \in D /\ n \in 1 .. n
    BY <1>1, <1>3, <2>10
  <2> QED BY <2>8, <2>11
<1>4. FlattenSeq(ss) \in Seq(E)
  <2>1. CASE n = 0
    <3>1. FlattenSeq(ss) = <<>>
      BY <1>1, <2>1 DEF FlattenSeq
    <3> HIDE DEF E
    <3> QED BY <3>1, EmptySeq
  <2> QED BY <1>3, <2>1
<1>5. IsList(FlattenSeq(ss)) /\ ToSet(FlattenSeq(ss)) \subseteq E
  <2> HIDE DEF E
  <2> QED BY <1>4, ListOfSeq
<1> QED BY <1>5 DEF ToSet
=============================================================================
