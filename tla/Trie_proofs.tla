----------------------------- MODULE Trie_proofs -----------------------------
(***************************************************************************)
(* Theorems about the trie, for every alphabet and every set of words.     *)
(* Each node spells the letters from the root to its end; the nodes that   *)
(* spell a beginning of a text lie on one way down, and the look-ups go    *)
(* it.  The words found are then the words that nodes with a mark spell.   *)
(***************************************************************************)
EXTENDS Trie, ProofBasics

-----------------------------------------------------------------------------
\* Strings.
Begins(u, v) == Len(u) <= Len(v) /\ \A i \in 1 .. Len(u) : u[i] = v[i]

LEMMA SubSeqFacts ==
  ASSUME NEW L, NEW t \in Seq(L), NEW a \in 1 .. Len(t) + 1, NEW b \in 0 .. Len(t), a <= b + 1
  PROVE  /\ SubSeq(t, a, b) \in Seq(L) /\ Len(SubSeq(t, a, b)) = b - a + 1
         /\ \A i \in 1 .. b - a + 1 : SubSeq(t, a, b)[i] = t[a + i - 1]
<1>1. Len(t) \in Nat /\ \A i \in 1 .. Len(t) : t[i] \in L
  BY LenProperties, ElementOfSeq
<1>2. a \in Int /\ b \in Int /\ \A i \in a .. b : t[i] \in L
  BY <1>1
<1>3. /\ SubSeq(t, a, b) \in Seq(L)
      /\ Len(SubSeq(t, a, b)) = IF a <= b THEN b - a + 1 ELSE 0
      /\ \A i \in 1 .. b - a + 1 : SubSeq(t, a, b)[i] = t[a + i - 1]
  BY <1>1, <1>2, SubSeqProperties
<1>4. QED
  BY <1>1, <1>2, <1>3

LEMMA RestFacts ==
  ASSUME NEW L, NEW t \in Seq(L), NEW k \in 0 .. Len(t)
  PROVE  /\ Rest(t, k) \in Seq(L) /\ Len(Rest(t, k)) = Len(t) - k
         /\ \A i \in 1 .. Len(t) - k : Rest(t, k)[i] = t[k + i]
<1>1. Len(t) \in Nat
  BY LenProperties
<1>2. k + 1 \in 1 .. Len(t) + 1 /\ Len(t) \in 0 .. Len(t) /\ k + 1 <= Len(t) + 1
  BY <1>1
<1>3. /\ Rest(t, k) \in Seq(L) /\ Len(Rest(t, k)) = Len(t) - (k + 1) + 1
      /\ \A i \in 1 .. Len(t) - (k + 1) + 1 : Rest(t, k)[i] = t[(k + 1) + i - 1]
  BY <1>2, SubSeqFacts DEF Rest
<1>4. QED
  BY <1>1, <1>3

LEMMA PartFacts ==
  ASSUME NEW L, NEW t \in Seq(L), NEW k \in 0 .. Len(t)
  PROVE  /\ SubSeq(t, 1, k) \in Seq(L) /\ Len(SubSeq(t, 1, k)) = k
         /\ \A i \in 1 .. k : SubSeq(t, 1, k)[i] = t[i]
<1>1. Len(t) \in Nat
  BY LenProperties
<1>2. 1 \in 1 .. Len(t) + 1 /\ 1 <= k + 1
  BY <1>1
<1>3. /\ SubSeq(t, 1, k) \in Seq(L) /\ Len(SubSeq(t, 1, k)) = k - 1 + 1
      /\ \A i \in 1 .. k - 1 + 1 : SubSeq(t, 1, k)[i] = t[1 + i - 1]
  BY <1>2, SubSeqFacts
<1>4. QED
  BY <1>1, <1>3

\* Two strings have the same first k letters.
LEMMA SameParts ==
  ASSUME NEW L, NEW r \in Seq(L), NEW t \in Seq(L), NEW k \in 0 .. Len(r), k <= Len(t)
  PROVE  SubSeq(r, 1, k) = SubSeq(t, 1, k) <=> \A i \in 1 .. k : r[i] = t[i]
<1>1. k \in 0 .. Len(t)
  BY LenProperties
<1>2. PICK u \in Seq(L) : u = SubSeq(r, 1, k) /\ Len(u) = k /\ \A i \in 1 .. k : u[i] = r[i]
  BY PartFacts, ZenonT(40)
<1>3. PICK v \in Seq(L) : v = SubSeq(t, 1, k) /\ Len(v) = k /\ \A i \in 1 .. k : v[i] = t[i]
  BY <1>1, PartFacts, ZenonT(40)
<1>4. (\A i \in 1 .. k : r[i] = t[i]) => u = v
  BY <1>2, <1>3, SeqEqual
<1>5. QED
  BY <1>2, <1>3, <1>4

\* match_prefix returns the number of letters two strings have in common.
LEMMA InCommonFacts ==
  ASSUME NEW L, NEW r \in Seq(L), NEW t \in Seq(L)
  PROVE  LET k == InCommon(r, t) IN
         /\ k \in Nat /\ k <= Len(r) /\ k <= Len(t)
         /\ \A i \in 1 .. k : r[i] = t[i]
         /\ k < Len(r) /\ k < Len(t) => r[k + 1] # t[k + 1]
<1> DEFINE K == { k \in 0 .. Len(r) : k <= Len(t) /\ SubSeq(r, 1, k) = SubSeq(t, 1, k) }
<1>1. Len(r) \in Nat /\ Len(t) \in Nat
  BY LenProperties
<1>2. \A k \in 0 .. Len(r) : k \in K <=> k <= Len(t) /\ \A i \in 1 .. k : r[i] = t[i]
  BY SameParts
<1>3. 0 \in K
  BY <1>1, <1>2
<1>4. K \subseteq 0 .. Len(r)
  OBVIOUS
<1>5. InCommon(r, t) = Max(K)
  BY DEF InCommon
<1> HIDE DEF K
<1>6. PICK m \in K : \A k \in K : m >= k
  <2> DEFINE T == { Len(r) - k : k \in K }
  <2>1. T \in SUBSET Nat /\ T # {}
    BY <1>1, <1>3, <1>4
  <2>2. PICK l \in T : \A j \in T : l <= j
    <3> HIDE DEF T
    <3>1. QED
      BY <2>1, Least
  <2>3. PICK m \in K : l = Len(r) - m
    OBVIOUS
  <2>4. \A k \in K : Len(r) - m <= Len(r) - k
    BY <2>2, <2>3
  <2>5. QED
    BY <1>1, <1>4, <2>4
<1>7. Max(K) \in K /\ \A k \in K : Max(K) >= k
  BY <1>6 DEF Max
<1>8. PICK n : n = Max(K)
  OBVIOUS
<1>9. n \in Nat /\ n <= Len(r) /\ n <= Len(t) /\ \A i \in 1 .. n : r[i] = t[i]
  <2>1. n \in 0 .. Len(r) /\ n \in K
    BY <1>4, <1>7, <1>8
  <2>2. QED
    BY <1>1, <1>2, <2>1
<1>10. ASSUME n < Len(r), n < Len(t), r[n + 1] = t[n + 1] PROVE FALSE
  <2>1. n + 1 \in 0 .. Len(r) /\ n + 1 <= Len(t)
    BY <1>1, <1>9, <1>10
  <2>2. \A i \in 1 .. n + 1 : r[i] = t[i]
    BY <1>9, <1>10
  <2>3. n + 1 \in K
    BY <1>2, <2>1, <2>2
  <2>4. n >= n + 1
    BY <1>7, <1>8, <2>3
  <2>5. QED
    BY <1>9, <2>4
<1>11. QED
  BY <1>5, <1>8, <1>9, <1>10

LEMMA BeginsFacts ==
  ASSUME NEW L, NEW u \in Seq(L), NEW v \in Seq(L), NEW t \in Seq(L)
  PROVE  /\ Begins(t, t) /\ (t = <<>> => Begins(t, u))
         /\ Begins(u, v) /\ Begins(v, t) => Begins(u, t)
         /\ Begins(u, t) /\ Begins(v, t) /\ Len(u) <= Len(v) => Begins(u, v)
         /\ Begins(u, v) /\ Len(u) >= Len(v) => u = v
<1>1. Len(u) \in Nat /\ Len(v) \in Nat /\ Len(t) \in Nat /\ Len(<<>>) = 0
  BY LenProperties, EmptySeq
<1>2. Begins(t, t) /\ (t = <<>> => Begins(t, u))
  BY <1>1 DEF Begins
<1>3. Begins(u, v) /\ Begins(v, t) => Begins(u, t)
  BY <1>1 DEF Begins
<1>4. Begins(u, t) /\ Begins(v, t) /\ Len(u) <= Len(v) => Begins(u, v)
  BY <1>1 DEF Begins
<1>5. Begins(u, v) /\ Len(u) >= Len(v) => u = v
  BY <1>1, SeqEqual DEF Begins
<1>6. QED
  BY <1>2, <1>3, <1>4, <1>5

-----------------------------------------------------------------------------
(***************************************************************************)
(* The tree.  up[n] is the node over n, sp[n] what n spells.  The children *)
(* of a node are linked from the latest to the earliest.                   *)
(***************************************************************************)
IsSon(h, up, c, p) == c \in DOMAIN h /\ c # Root /\ up[c] = p

Linked(h, up) ==
  /\ \A n \in DOMAIN h : n # Root => up[n] \in DOMAIN h
  /\ \A n \in DOMAIN h : h[n].follow # 0 => IsSon(h, up, h[n].follow, n)
  /\ \A n \in DOMAIN h : h[n].next # 0 =>
       n # Root /\ h[n].next < n /\ IsSon(h, up, h[n].next, up[n])
  /\ \A c, p \in DOMAIN h : IsSon(h, up, c, p) => c <= h[p].follow
  /\ \A c, d \in DOMAIN h : c # Root /\ d # Root /\ up[c] = up[d] /\ c < d => c <= h[d].next

\* v is u and then r, which is not empty.
GoesOn(u, r, v) ==
  /\ Len(u) < Len(v) /\ Begins(u, v)
  /\ Len(r) = Len(v) - Len(u) /\ \A i \in 1 .. Len(r) : r[i] = v[Len(u) + i]

Spelled(h, up, sp) ==
  /\ \A n \in DOMAIN h : sp[n] \in Seq(Letters)
  /\ sp[Root] = <<>>
  /\ \A n \in DOMAIN h : n # Root => GoesOn(sp[up[n]], h[n].radix, sp[n])
  /\ \A c, d \in DOMAIN h : c # Root /\ d # Root /\ up[c] = up[d]
                            /\ h[c].radix[1] = h[d].radix[1] => c = d

Grown(h, up, sp) ==
  /\ h \in Seq(TrieNodes) /\ Len(h) >= 1 /\ h[Root].leaf
  /\ Linked(h, up) /\ Spelled(h, up, sp)

LEMMA GrownFacts ==
  ASSUME NEW h, NEW up, NEW sp, Grown(h, up, sp)
  PROVE  /\ Len(h) \in Nat /\ DOMAIN h = 1 .. Len(h) /\ Root \in DOMAIN h /\ Len(sp[Root]) = 0
         /\ \A n \in DOMAIN h :
              /\ n \in Nat /\ n >= 1
              /\ h[n] \in TrieNodes /\ sp[n] \in Seq(Letters) /\ Len(sp[n]) \in Nat
              /\ h[n].radix \in Seq(Letters) /\ h[n].leaf \in BOOLEAN
              /\ h[n].next \in DOMAIN h \cup {0} /\ h[n].follow \in DOMAIN h \cup {0}
              /\ n # Root => up[n] \in DOMAIN h /\ IsSon(h, up, n, up[n])
<1>1. Len(h) \in Nat /\ DOMAIN h = 1 .. Len(h) /\ Root \in DOMAIN h
  BY LenProperties DEF Grown, Root
<1>2. \A n \in DOMAIN h : h[n] \in TrieNodes
  BY <1>1, ElementOfSeq DEF Grown
<1>3. \A n \in DOMAIN h : sp[n] \in Seq(Letters) /\ Len(sp[n]) \in Nat
  BY LenProperties DEF Grown, Spelled
<1>4. ASSUME NEW n \in DOMAIN h
      PROVE  /\ n \in Nat /\ n >= 1 /\ h[n].radix \in Seq(Letters) /\ h[n].leaf \in BOOLEAN
             /\ h[n].next \in DOMAIN h \cup {0} /\ h[n].follow \in DOMAIN h \cup {0}
             /\ n # Root => up[n] \in DOMAIN h /\ IsSon(h, up, n, up[n])
  <2>1. n \in Nat /\ n >= 1
    BY <1>1
  <2>2. h[n].radix \in Seq(Letters) /\ h[n].leaf \in BOOLEAN
    BY <1>2 DEF TrieNodes
  <2>3. h[n].next \in DOMAIN h \cup {0} /\ h[n].follow \in DOMAIN h \cup {0}
    BY DEF Grown, Linked, IsSon
  <2>4. n # Root => up[n] \in DOMAIN h /\ IsSon(h, up, n, up[n])
    BY DEF Grown, Linked, IsSon
  <2>5. QED
    BY <2>1, <2>2, <2>3, <2>4
<1>5. Len(sp[Root]) = 0
  BY EmptySeq DEF Grown, Spelled
<1>6. QED
  BY <1>1, <1>2, <1>3, <1>4, <1>5

LEMMA SonFacts ==
  ASSUME NEW h, NEW up, NEW sp, Grown(h, up, sp), NEW p, NEW n, IsSon(h, up, n, p)
  PROVE  /\ n \in DOMAIN h /\ n # Root /\ up[n] = p /\ p \in DOMAIN h
         /\ Len(sp[p]) \in Nat /\ Len(sp[n]) \in Nat /\ Len(sp[p]) < Len(sp[n])
         /\ sp[p] \in Seq(Letters) /\ sp[n] \in Seq(Letters)
         /\ GoesOn(sp[p], h[n].radix, sp[n]) /\ Begins(sp[p], sp[n])
         /\ h[n].radix \in Seq(Letters) /\ h[n].radix # <<>>
         /\ Len(h[n].radix) \in Nat /\ Len(h[n].radix) >= 1
         /\ h[n].radix[1] = sp[n][Len(sp[p]) + 1]
         /\ n <= h[p].follow
<1>1. n \in DOMAIN h /\ n # Root /\ up[n] = p
  BY DEF IsSon
<1>2. p \in DOMAIN h /\ GoesOn(sp[p], h[n].radix, sp[n]) /\ n <= h[p].follow
  BY <1>1 DEF Grown, Linked, Spelled
<1>3. /\ Len(sp[p]) \in Nat /\ Len(sp[n]) \in Nat /\ h[n].radix \in Seq(Letters)
      /\ sp[p] \in Seq(Letters) /\ sp[n] \in Seq(Letters)
  BY <1>1, <1>2, GrownFacts
<1>4. /\ Len(sp[p]) < Len(sp[n]) /\ Begins(sp[p], sp[n])
      /\ Len(h[n].radix) \in Nat /\ Len(h[n].radix) >= 1
      /\ h[n].radix[1] = sp[n][Len(sp[p]) + 1]
  BY <1>2, <1>3 DEF GoesOn
<1>5. h[n].radix # <<>>
  BY <1>4, EmptySeq
<1>6. QED
  BY <1>1, <1>2, <1>3, <1>4, <1>5

\* Two children of a node that begin the same text beyond it are one.
LEMMA OneSon ==
  ASSUME NEW h, NEW up, NEW sp, Grown(h, up, sp), NEW t \in Seq(Letters),
         NEW p \in DOMAIN h, NEW c, IsSon(h, up, c, p), NEW d, IsSon(h, up, d, p),
         Begins(sp[c], t), Begins(sp[d], t)
  PROVE  c = d
<1>1. c \in DOMAIN h /\ d \in DOMAIN h /\ c # Root /\ d # Root /\ up[c] = p /\ up[d] = p
  BY DEF IsSon
<1>2. /\ Len(sp[p]) \in Nat /\ Len(sp[c]) \in Nat /\ Len(sp[d]) \in Nat
      /\ Len(sp[p]) < Len(sp[c]) /\ Len(sp[p]) < Len(sp[d])
      /\ h[c].radix[1] = sp[c][Len(sp[p]) + 1] /\ h[d].radix[1] = sp[d][Len(sp[p]) + 1]
  BY SonFacts
<1>3. sp[c][Len(sp[p]) + 1] = t[Len(sp[p]) + 1] /\ sp[d][Len(sp[p]) + 1] = t[Len(sp[p]) + 1]
  <2>1. /\ Len(sp[p]) + 1 \in 1 .. Len(sp[c])
        /\ Len(sp[p]) + 1 \in 1 .. Len(sp[d])
    BY <1>2, SMTT(30)
  <2>2. QED
    BY <2>1 DEF Begins
<1>4. QED
  BY <1>1, <1>2, <1>3 DEF Grown, Spelled

(***************************************************************************)
(* A node that spells a beginning of what m spells is over m: m is reached *)
(* through one of its children.                                            *)
(***************************************************************************)
Leads(h, up, sp, p, m) ==
  Begins(sp[p], sp[m]) /\ p # m => \E c : IsSon(h, up, c, p) /\ Begins(sp[c], sp[m])

LEMMA OnTheWay ==
  ASSUME NEW h, NEW up, NEW sp, Grown(h, up, sp)
  PROVE  \A p, m \in DOMAIN h : Leads(h, up, sp, p, m)
<1>1. PICK size \in [DOMAIN h -> Nat] : \A n \in DOMAIN h : Len(sp[n]) = size[n]
  <2>1. \A n \in DOMAIN h : Len(sp[n]) \in Nat
    BY GrownFacts
  <2>2. [n \in DOMAIN h |-> Len(sp[n])] \in [DOMAIN h -> Nat]
    BY <2>1
  <2>3. QED
    BY <2>2
<1> DEFINE Sized(k) == \A p, m \in DOMAIN h : size[p] + size[m] = k => Leads(h, up, sp, p, m)
           S == { k \in Nat : Sized(k) }
<1>2. ASSUME NEW k \in Nat, \A l \in Nat : l < k => l \in S,
             NEW p \in DOMAIN h, NEW m \in DOMAIN h, size[p] + size[m] = k,
             Begins(sp[p], sp[m]), p # m
      PROVE  \E c : IsSon(h, up, c, p) /\ Begins(sp[c], sp[m])
  <2>1. ASSUME NEW a \in DOMAIN h, NEW b \in DOMAIN h, size[a] + size[b] < k
        PROVE  Leads(h, up, sp, a, b)
    <3>1. PICK l \in Nat : l = size[a] + size[b]
      OBVIOUS
    <3>2. l \in S
      BY <1>2, <2>1, <3>1
    <3>3. QED
      BY <3>1, <3>2
  <2>2. /\ Len(sp[p]) \in Nat /\ Len(sp[m]) \in Nat /\ Len(sp[p]) <= Len(sp[m])
        /\ sp[p] \in Seq(Letters) /\ sp[m] \in Seq(Letters)
    BY <1>2, GrownFacts DEF Begins
  <2>3. m # Root
    <3>1. CASE m = Root
      <4>1. Len(sp[p]) = 0
        BY <2>2, <3>1, GrownFacts
      <4>2. p # Root => Len(sp[up[p]]) \in Nat /\ Len(sp[up[p]]) < Len(sp[p])
        BY GrownFacts, SonFacts
      <4>3. p = Root
        BY <4>1, <4>2
      <4>4. QED
        BY <1>2, <3>1, <4>3
    <3>2. QED
      BY <3>1
  <2>4. PICK q \in DOMAIN h : q = up[m] /\ IsSon(h, up, m, q)
    BY <2>3, GrownFacts
  <2>5. /\ Len(sp[q]) \in Nat /\ Len(sp[q]) < Len(sp[m]) /\ Begins(sp[q], sp[m])
        /\ sp[q] \in Seq(Letters) /\ IsSon(h, up, m, q)
    BY <2>4, SonFacts
  <2>6. CASE p = q
    BY <2>2, <2>5, <2>6, BeginsFacts
  <2>7. CASE p # q /\ Len(sp[p]) <= Len(sp[q])
    <3>1. Begins(sp[p], sp[q])
      BY <1>2, <2>2, <2>5, <2>7, BeginsFacts
    <3>2. PICK c : IsSon(h, up, c, p) /\ Begins(sp[c], sp[q])
      <4>1. size[p] + size[q] < k
        BY <1>1, <1>2, <2>2, <2>5
      <4>2. Leads(h, up, sp, p, q)
        BY <2>1, <4>1
      <4>3. QED
        BY <2>7, <3>1, <4>2 DEF Leads
    <3>3. sp[c] \in Seq(Letters)
      BY <3>2, SonFacts
    <3>4. Begins(sp[c], sp[m])
      BY <2>2, <2>5, <3>2, <3>3, BeginsFacts
    <3>5. QED
      BY <3>2, <3>4
  <2>8. CASE Len(sp[q]) < Len(sp[p])
    <3>1. p # Root
      BY <2>5, <2>8, GrownFacts
    <3>2. PICK r \in DOMAIN h : r = up[p] /\ IsSon(h, up, p, r)
      BY <3>1, GrownFacts
    <3>3. /\ Len(sp[r]) \in Nat /\ Len(sp[r]) < Len(sp[p]) /\ Begins(sp[r], sp[p])
          /\ sp[r] \in Seq(Letters) /\ IsSon(h, up, p, r)
      BY <3>2, SonFacts
    <3>4. Begins(sp[r], sp[m])
      BY <1>2, <2>2, <3>3, BeginsFacts
    <3>5. CASE Len(sp[r]) < Len(sp[q])
      <4>1. Begins(sp[r], sp[q]) /\ r # q
        BY <2>2, <2>5, <3>3, <3>4, <3>5, BeginsFacts
      <4>2. PICK c : IsSon(h, up, c, r) /\ Begins(sp[c], sp[q])
        <5>1. size[r] + size[q] < k
          BY <1>1, <1>2, <2>2, <2>5, <3>3, SMTT(30)
        <5>2. Leads(h, up, sp, r, q)
          BY <2>1, <5>1
        <5>3. QED
          BY <4>1, <5>2 DEF Leads
      <4>3. sp[c] \in Seq(Letters) /\ Len(sp[c]) \in Nat
        BY <4>2, SonFacts
      <4>4. Begins(sp[c], sp[m])
        BY <2>2, <2>5, <4>2, <4>3, BeginsFacts
      <4>5. c = p
        BY <1>2, <2>2, <3>3, <4>2, <4>4, OneSon
      <4>6. Len(sp[p]) <= Len(sp[q])
        BY <4>2, <4>5 DEF Begins
      <4>7. QED
        BY <2>2, <2>5, <2>8, <4>6
    <3>6. CASE Len(sp[q]) < Len(sp[r])
      <4>1. Begins(sp[q], sp[r]) /\ r # q
        BY <2>2, <2>5, <3>3, <3>4, <3>6, BeginsFacts
      <4>2. PICK c : IsSon(h, up, c, q) /\ Begins(sp[c], sp[r])
        <5>1. size[q] + size[r] < k
          BY <1>1, <1>2, <2>2, <2>5, <3>3, SMTT(30)
        <5>2. Leads(h, up, sp, q, r)
          BY <2>1, <5>1
        <5>3. QED
          BY <4>1, <5>2 DEF Leads
      <4>3. sp[c] \in Seq(Letters) /\ Len(sp[c]) \in Nat
        BY <4>2, SonFacts
      <4>4. Begins(sp[c], sp[m])
        BY <2>2, <3>3, <3>4, <4>2, <4>3, BeginsFacts
      <4>5. Begins(sp[m], sp[m])
        BY <2>2, BeginsFacts
      <4>6. c = m
        BY <2>2, <2>5, <4>2, <4>4, <4>5, OneSon
      <4>7. Len(sp[m]) <= Len(sp[r])
        BY <4>2, <4>6 DEF Begins
      <4>8. QED
        BY <2>2, <3>3, <4>7
    <3>7. CASE Len(sp[q]) = Len(sp[r])
      <4>1. Begins(sp[q], sp[r])
        BY <2>2, <2>5, <3>3, <3>4, <3>7, BeginsFacts
      <4>2. q = r
        <5>1. ASSUME q # r PROVE FALSE
          <6>1. size[q] + size[r] < k
            BY <1>1, <1>2, <2>2, <2>5, <3>3, SMTT(30)
          <6>2. Leads(h, up, sp, q, r)
            BY <2>1, <6>1
          <6>3. PICK c : IsSon(h, up, c, q) /\ Begins(sp[c], sp[r])
            BY <4>1, <5>1, <6>2 DEF Leads
          <6>4. Len(sp[q]) < Len(sp[c]) /\ Len(sp[c]) \in Nat
            BY <6>3, SonFacts
          <6>5. Len(sp[c]) <= Len(sp[r])
            BY <6>3 DEF Begins
          <6>6. QED
            BY <2>5, <3>3, <3>7, <6>4, <6>5
        <5>2. QED
          BY <5>1
      <4>3. Begins(sp[m], sp[m])
        BY <2>2, BeginsFacts
      <4>4. p = m
        BY <1>2, <2>2, <2>5, <3>3, <4>2, <4>3, OneSon
      <4>5. QED
        BY <1>2, <4>4
    <3>8. QED
      BY <2>5, <3>3, <3>5, <3>6, <3>7
  <2>9. QED
    BY <2>2, <2>5, <2>6, <2>7, <2>8
<1>3. ASSUME NEW k \in Nat, \A l \in Nat : l < k => l \in S PROVE k \in S
  BY <1>2, <1>3 DEF Leads
<1>4. Nat \subseteq S
  <2> HIDE DEF S
  <2>1. QED
    BY <1>3, SetInduction
<1>5. ASSUME NEW p \in DOMAIN h, NEW m \in DOMAIN h PROVE Leads(h, up, sp, p, m)
  <2>1. PICK k \in Nat : k = size[p] + size[m]
    OBVIOUS
  <2>2. k \in S
    BY <1>4
  <2>3. QED
    BY <2>1, <2>2
<1>6. QED
  BY <1>5

\* No two nodes spell the same.
LEMMA SpelledOnce ==
  ASSUME NEW h, NEW up, NEW sp, Grown(h, up, sp),
         NEW p \in DOMAIN h, NEW m \in DOMAIN h, Begins(sp[p], sp[m]), Len(sp[p]) = Len(sp[m])
  PROVE  p = m
<1>1. SUFFICES ASSUME p # m PROVE FALSE
  OBVIOUS
<1>2. Leads(h, up, sp, p, m)
  BY OnTheWay
<1>3. PICK c : IsSon(h, up, c, p) /\ Begins(sp[c], sp[m])
  BY <1>1, <1>2 DEF Leads
<1>4. Len(sp[p]) < Len(sp[c]) /\ Len(sp[c]) \in Nat /\ Len(sp[p]) \in Nat
  BY <1>3, SonFacts
<1>5. Len(sp[c]) <= Len(sp[m])
  BY <1>3 DEF Begins
<1>6. QED
  BY <1>4, <1>5

-----------------------------------------------------------------------------
(***************************************************************************)
(* The look-ups.  A look-up for t that has read what p spells and looks at *)
(* n has passed by no child of p that spells a beginning of t.             *)
(***************************************************************************)
At(h, up, sp, t, n, read, p) ==
  /\ p \in DOMAIN h /\ Begins(sp[p], t) /\ Len(sp[p]) = read
  /\ n # 0 => IsSon(h, up, n, p)
  /\ \A d : IsSon(h, up, d, p) /\ Begins(sp[d], t) => d <= n

NoneBeyond(h, sp, t, read) ==
  \A m \in DOMAIN h : Begins(sp[m], t) => Len(sp[m]) <= read

LEMMA BeyondThroughSon ==
  ASSUME NEW h, NEW up, NEW sp, Grown(h, up, sp), NEW t \in Seq(Letters),
         NEW n, NEW read, NEW p, At(h, up, sp, t, n, read, p),
         NEW m \in DOMAIN h, Begins(sp[m], t), ~(Len(sp[m]) <= read)
  PROVE  \E d : /\ IsSon(h, up, d, p) /\ Begins(sp[d], sp[m]) /\ Begins(sp[d], t)
                /\ d \in DOMAIN h /\ d >= 1 /\ d \in Nat /\ d <= n
<1>1. p \in DOMAIN h /\ Begins(sp[p], t) /\ Len(sp[p]) = read
  BY DEF At
<1>2. /\ Len(sp[p]) \in Nat /\ Len(sp[m]) \in Nat /\ sp[p] \in Seq(Letters) /\ sp[m] \in Seq(Letters)
  BY <1>1, GrownFacts
<1>3. Begins(sp[p], sp[m]) /\ p # m
  BY <1>1, <1>2, BeginsFacts
<1>4. Leads(h, up, sp, p, m)
  BY <1>1, OnTheWay
<1>5. PICK d : IsSon(h, up, d, p) /\ Begins(sp[d], sp[m])
  BY <1>3, <1>4 DEF Leads
<1>6. sp[d] \in Seq(Letters) /\ d \in DOMAIN h
  BY <1>5, SonFacts
<1>7. Begins(sp[d], t)
  BY <1>2, <1>5, <1>6, BeginsFacts
<1>8. d >= 1 /\ d \in Nat
  BY <1>6, GrownFacts
<1>9. QED
  BY <1>5, <1>6, <1>7, <1>8 DEF At

\* What each turn of a look-up finds out.
LEMMA LookStep ==
  ASSUME NEW h, NEW up, NEW sp, Grown(h, up, sp), NEW t \in Seq(Letters),
         NEW n, NEW read, NEW p, At(h, up, sp, t, n, read, p), n # 0, read < Len(t)
  PROVE  LET k == InCommon(h[n].radix, Rest(t, read)) IN
         /\ k \in Nat /\ read + k <= Len(t) /\ k <= Len(h[n].radix)
         /\ k = 0 => At(h, up, sp, t, h[n].next, read, p)
         /\ k # 0 /\ k < Len(h[n].radix) => NoneBeyond(h, sp, t, read)
         /\ k # 0 /\ k = Len(h[n].radix) =>
              /\ At(h, up, sp, t, h[n].follow, read + k, n)
              /\ \A m \in DOMAIN h : Begins(sp[m], t) =>
                   Len(sp[m]) <= read \/ m = n \/ Len(sp[m]) > read + k
<1>1. p \in DOMAIN h /\ Begins(sp[p], t) /\ Len(sp[p]) = read /\ IsSon(h, up, n, p)
  BY DEF At
<1>2. /\ read \in Nat /\ Len(sp[n]) \in Nat /\ read < Len(sp[n])
      /\ sp[p] \in Seq(Letters) /\ sp[n] \in Seq(Letters)
      /\ GoesOn(sp[p], h[n].radix, sp[n])
      /\ h[n].radix \in Seq(Letters) /\ Len(h[n].radix) \in Nat /\ Len(h[n].radix) >= 1
      /\ n \in DOMAIN h /\ n # Root /\ up[n] = p
  BY <1>1, SonFacts
<1>3. n \in Nat /\ n >= 1 /\ h[n].next \in DOMAIN h \cup {0} /\ h[n].follow \in DOMAIN h \cup {0}
  BY <1>2, GrownFacts
<1>4. PICK r \in Seq(Letters) : r = h[n].radix
  BY <1>2
<1>5. Len(t) \in Nat
  BY LenProperties
<1>6. PICK u \in Seq(Letters) : /\ u = Rest(t, read) /\ Len(u) = Len(t) - read
                                /\ \A i \in 1 .. Len(t) - read : u[i] = t[read + i]
  <2>1. read \in 0 .. Len(t)
    BY <1>2, <1>5
  <2>2. QED
    BY <2>1, RestFacts
<1>7. PICK k : k = InCommon(r, u)
  OBVIOUS
<1>8. /\ k \in Nat /\ k <= Len(r) /\ k <= Len(u)
      /\ \A i \in 1 .. k : r[i] = u[i]
      /\ k < Len(r) /\ k < Len(u) => r[k + 1] # u[k + 1]
  BY <1>7, InCommonFacts
<1>9. /\ Len(r) \in Nat /\ Len(r) = Len(sp[n]) - read /\ Len(u) \in Nat /\ Len(u) >= 1
      /\ \A i \in 1 .. Len(r) : r[i] = sp[n][read + i]
  BY <1>1, <1>2, <1>4, <1>5, <1>6 DEF GoesOn
\* n spells a beginning of t exactly if its whole radix is common.
<1>10. Begins(sp[n], t) => k = Len(r)
  <2>1. SUFFICES ASSUME Begins(sp[n], t), k < Len(r) PROVE FALSE
    BY <1>8, <1>9
  <2>2. k < Len(u)
    <3>1. Len(sp[n]) <= Len(t)
      BY <2>1 DEF Begins
    <3>2. QED
      BY <1>2, <1>5, <1>6, <1>8, <1>9, <2>1, <3>1
  <2>3. r[k + 1] = sp[n][read + (k + 1)] /\ u[k + 1] = t[read + (k + 1)]
    BY <1>5, <1>6, <1>8, <1>9, <2>1, <2>2
  <2>4. read + (k + 1) \in 1 .. Len(sp[n])
    BY <1>2, <1>8, <1>9, <2>1
  <2>5. sp[n][read + (k + 1)] = t[read + (k + 1)]
    BY <2>1, <2>4 DEF Begins
  <2>6. QED
    BY <1>8, <2>1, <2>2, <2>3, <2>5
<1>11. k = Len(r) => Begins(sp[n], t) /\ Len(sp[n]) = read + k
  <2>1. SUFFICES ASSUME k = Len(r) PROVE Begins(sp[n], t) /\ Len(sp[n]) = read + k
    OBVIOUS
  <2>2. Len(sp[n]) = read + k /\ Len(sp[n]) <= Len(t)
    BY <1>2, <1>5, <1>6, <1>8, <1>9, <2>1
  <2>3. ASSUME NEW i \in 1 .. Len(sp[n]) PROVE sp[n][i] = t[i]
    <3>1. CASE i <= read
      <4>1. i \in 1 .. Len(sp[p])
        BY <1>1, <1>2, <3>1
      <4>2. sp[p][i] = sp[n][i] /\ sp[p][i] = t[i]
        BY <1>1, <1>2, <4>1 DEF Begins, GoesOn
      <4>3. QED
        BY <4>2
    <3>2. CASE i > read
      <4>1. PICK j \in 1 .. k : i = read + j
        <5>1. i - read \in 1 .. k /\ i = read + (i - read)
          BY <1>2, <1>8, <2>2, <3>2
        <5>2. QED
          BY <5>1
      <4>2. r[j] = sp[n][read + j] /\ u[j] = t[read + j] /\ r[j] = u[j]
        BY <1>5, <1>6, <1>8, <1>9, <2>1
      <4>3. QED
        BY <4>1, <4>2
    <3>3. QED
      BY <1>2, <3>1, <3>2
  <2>4. QED
    BY <2>2, <2>3 DEF Begins
<1>12. k = 0 => At(h, up, sp, t, h[n].next, read, p)
  <2>1. SUFFICES ASSUME k = 0 PROVE At(h, up, sp, t, h[n].next, read, p)
    OBVIOUS
  <2>2. ~Begins(sp[n], t)
    BY <1>2, <1>4, <1>10, <2>1
  <2>3. h[n].next # 0 => IsSon(h, up, h[n].next, p)
    BY <1>2 DEF Grown, Linked
  <2>4. ASSUME NEW d, IsSon(h, up, d, p), Begins(sp[d], t) PROVE d <= h[n].next
    <3>1. d \in DOMAIN h /\ d # Root /\ up[d] = p
      BY <2>4, SonFacts
    <3>2. d <= n /\ d # n
      BY <2>2, <2>4 DEF At
    <3>3. d \in Nat
      BY <3>1, GrownFacts
    <3>4. d < n
      BY <1>3, <3>2, <3>3
    <3>5. QED
      BY <1>2, <3>1, <3>4 DEF Grown, Linked
  <2>5. QED
    BY <1>1, <2>3, <2>4 DEF At
<1>13. k # 0 => r[1] = t[read + 1]
  <2>1. SUFFICES ASSUME k # 0 PROVE r[1] = t[read + 1]
    OBVIOUS
  <2>2. 1 \in 1 .. k /\ 1 \in 1 .. Len(t) - read
    BY <1>5, <1>6, <1>8, <1>9, <2>1
  <2>3. QED
    BY <1>6, <1>8, <2>2
\* Of the children of p, only n may lead further.
<1>14. ASSUME k # 0, NEW m \in DOMAIN h, Begins(sp[m], t), ~(Len(sp[m]) <= read)
       PROVE  Begins(sp[n], sp[m]) /\ Begins(sp[n], t)
  <2>1. PICK d : IsSon(h, up, d, p) /\ Begins(sp[d], sp[m]) /\ Begins(sp[d], t)
    BY <1>14, BeyondThroughSon
  <2>2. /\ d \in DOMAIN h /\ d # Root /\ up[d] = p /\ Len(sp[d]) \in Nat /\ read < Len(sp[d])
        /\ h[d].radix[1] = sp[d][read + 1]
    BY <1>1, <2>1, SonFacts
  <2>3. sp[d][read + 1] = t[read + 1]
    <3>1. read + 1 \in 1 .. Len(sp[d])
      BY <1>2, <2>2
    <3>2. QED
      BY <2>1, <3>1 DEF Begins
  <2>4. h[d].radix[1] = h[n].radix[1]
    BY <1>4, <1>13, <1>14, <2>2, <2>3
  <2>5. d = n
    BY <1>2, <2>2, <2>4 DEF Grown, Spelled
  <2>6. QED
    BY <2>1, <2>5
<1>15. k # 0 /\ k < Len(r) => NoneBeyond(h, sp, t, read)
  <2>1. SUFFICES ASSUME k # 0, k < Len(r), NEW m \in DOMAIN h, Begins(sp[m], t),
                        ~(Len(sp[m]) <= read)
                 PROVE  FALSE
    BY DEF NoneBeyond
  <2>2. Begins(sp[n], t)
    BY <1>14, <2>1
  <2>3. QED
    BY <1>8, <1>9, <1>10, <2>1, <2>2
<1>16. k # 0 /\ k = Len(r) =>
         /\ At(h, up, sp, t, h[n].follow, read + k, n)
         /\ \A m \in DOMAIN h : Begins(sp[m], t) =>
              Len(sp[m]) <= read \/ m = n \/ Len(sp[m]) > read + k
  <2>1. SUFFICES ASSUME k # 0, k = Len(r)
                 PROVE  /\ At(h, up, sp, t, h[n].follow, read + k, n)
                        /\ \A m \in DOMAIN h : Begins(sp[m], t) =>
                             Len(sp[m]) <= read \/ m = n \/ Len(sp[m]) > read + k
    OBVIOUS
  <2>2. Begins(sp[n], t) /\ Len(sp[n]) = read + k
    BY <1>11, <2>1
  <2>3. h[n].follow # 0 => IsSon(h, up, h[n].follow, n)
    BY <1>2 DEF Grown, Linked
  <2>4. \A d : IsSon(h, up, d, n) => d <= h[n].follow
    BY SonFacts
  <2>5. At(h, up, sp, t, h[n].follow, read + k, n)
    BY <1>2, <2>2, <2>3, <2>4 DEF At
  <2>6. ASSUME NEW m \in DOMAIN h, Begins(sp[m], t), ~(Len(sp[m]) <= read),
               ~(Len(sp[m]) > read + k)
        PROVE  m = n
    <3>1. Begins(sp[n], sp[m])
      BY <1>14, <2>1, <2>6
    <3>2. Len(sp[n]) <= Len(sp[m]) /\ Len(sp[m]) \in Nat
      BY <3>1, GrownFacts DEF Begins
    <3>3. Len(sp[n]) = Len(sp[m])
      BY <1>2, <1>8, <2>2, <2>6, <3>2
    <3>4. QED
      BY <1>2, <3>1, <3>3, SpelledOnce
  <2>7. QED
    BY <2>5, <2>6
<1>17. read + k <= Len(t)
  BY <1>2, <1>5, <1>6, <1>8
<1>18. InCommon(h[n].radix, Rest(t, read)) = k /\ Len(h[n].radix) = Len(r)
  BY <1>4, <1>6, <1>7
<1>19. QED
  BY <1>8, <1>12, <1>15, <1>16, <1>17, <1>18

-----------------------------------------------------------------------------
(***************************************************************************)
(* Matched, which is recursive, is defined for every tree: a turn goes to  *)
(* an earlier sibling or reads on.                                         *)
(***************************************************************************)
Common(h, t, c) == InCommon(h[c.n].radix, Rest(t, c.read))

\* All of the text is to be read.
AsksAll(whole) == whole

Turn(h, t, whole, c, f) ==
  IF c.n = 0 \/ (~whole /\ c.read = Len(t)) THEN c.ret
  ELSE LET k == Common(h, t, c) IN
       IF k = 0 THEN f[[c EXCEPT !.n = h[c.n].next]]
       ELSE IF k < Len(h[c.n].radix) THEN IF whole THEN 0 ELSE c.ret
       ELSE f[[n |-> h[c.n].follow, read |-> c.read + k,
               ret |-> IF Ends(h, c.n, whole, c.read + k = Len(t))
                         THEN c.read + k ELSE c.ret]]

IsMatching(h, t, whole, f) == f = [c \in Places(h, t) |-> Turn(h, t, whole, c, f)]

\* More to read counts for more than any node.
Distance(size, left, n) == left * (size + 1) + n

LEMMA DistanceFacts ==
  ASSUME NEW size \in Nat, NEW left \in Nat, NEW n \in 0 .. size
  PROVE  /\ Distance(size, left, n) \in Nat
         /\ \A m \in 0 .. size : m < n => Distance(size, left, m) < Distance(size, left, n)
         /\ \A less \in Nat, m \in 0 .. size :
              less < left => Distance(size, less, m) < Distance(size, left, n)
<1>1. PICK w \in Nat : w = size + 1 /\ w >= 1
  OBVIOUS
<1>2. \A a \in Nat : a * w \in Nat
  OBVIOUS
<1>3. Distance(size, left, n) \in Nat
  <2>1. PICK a \in Nat : a = left * w
    BY <1>2
  <2>2. QED
    BY <1>1, <2>1 DEF Distance
<1>4. ASSUME NEW m \in 0 .. size, m < n PROVE Distance(size, left, m) < Distance(size, left, n)
  <2>1. PICK a \in Nat : a = left * w
    BY <1>2
  <2>2. QED
    BY <1>1, <1>4, <2>1 DEF Distance
<1>5. ASSUME NEW less \in Nat, NEW m \in 0 .. size, less < left
      PROVE  Distance(size, less, m) < Distance(size, left, n)
  <2>1. PICK d \in Nat : left = less + 1 + d
    <3>1. left - less - 1 \in Nat /\ left = less + 1 + (left - less - 1)
      BY <1>5
    <3>2. QED
      BY <3>1
  <2>2. left * w = less * w + w + d * w
    BY <2>1
  <2>3. PICK a \in Nat : a = less * w
    BY <1>2
  <2>4. PICK b \in Nat : b = d * w
    BY <1>2
  <2>5. left * w = a + w + b
    BY <2>2, <2>3, <2>4
  <2>6. a + m < a + w + b + n
    BY <1>1
  <2>7. QED
    BY <1>1, <2>3, <2>5, <2>6 DEF Distance
<1>6. QED
  BY <1>3, <1>4, <1>5

\* The places a turn goes on to.
Sideways(h, c) == [c EXCEPT !.n = h[c.n].next]

Onward(h, t, whole, c) ==
  LET k == Common(h, t, c)
  IN [n |-> h[c.n].follow, read |-> c.read + k,
      ret |-> IF Ends(h, c.n, whole, c.read + k = Len(t)) THEN c.read + k ELSE c.ret]

Rank(h, t, c) == Distance(Len(h), Len(t) - c.read, c.n)

LEMMA NextPlaces ==
  ASSUME NEW h, NEW up, NEW sp, Grown(h, up, sp), NEW t \in Seq(Letters),
         NEW c \in Places(h, t)
  PROVE  /\ c.n \in 0 .. Len(h) /\ c.read \in 0 .. Len(t) /\ c.ret \in 0 .. Len(t)
         /\ Rank(h, t, c) \in Nat /\ Len(t) \in Nat
         /\ c.n # 0 =>
              /\ Common(h, t, c) \in Nat /\ Common(h, t, c) <= Len(h[c.n].radix)
              /\ Common(h, t, c) = 0 => /\ Sideways(h, c) \in Places(h, t)
                                        /\ Rank(h, t, Sideways(h, c)) < Rank(h, t, c)
              /\ Common(h, t, c) # 0 =>
                   \A whole \in BOOLEAN :
                     /\ Onward(h, t, whole, c) \in Places(h, t)
                     /\ Rank(h, t, Onward(h, t, whole, c)) < Rank(h, t, c)
<1>1. /\ Len(t) \in Nat /\ Len(h) \in Nat
      /\ \A n \in 1 .. Len(h) :
           /\ h[n].radix \in Seq(Letters) /\ Len(h[n].radix) \in Nat
           /\ h[n].next \in 0 .. Len(h) /\ h[n].follow \in 0 .. Len(h)
           /\ h[n].next < n
  <2>1. Len(t) \in Nat
    BY LenProperties
  <2>2. ASSUME NEW n \in 1 .. Len(h)
        PROVE  /\ h[n].radix \in Seq(Letters) /\ Len(h[n].radix) \in Nat
               /\ h[n].next \in 0 .. Len(h) /\ h[n].follow \in 0 .. Len(h)
               /\ h[n].next < n
    <3>1. /\ n \in DOMAIN h /\ DOMAIN h = 1 .. Len(h) /\ h[n].radix \in Seq(Letters)
          /\ h[n].next \in DOMAIN h \cup {0} /\ h[n].follow \in DOMAIN h \cup {0}
          /\ n >= 1 /\ Len(h) \in Nat
      BY GrownFacts
    <3>2. h[n].next # 0 => h[n].next < n
      BY <3>1 DEF Grown, Linked
    <3>3. Len(h[n].radix) \in Nat
      BY <3>1, LenProperties
    <3>4. QED
      BY <3>1, <3>2, <3>3
  <2>3. Len(h) \in Nat
    BY GrownFacts
  <2>4. QED
    BY <2>1, <2>2, <2>3
<1>2. /\ c.n \in 0 .. Len(h) /\ c.read \in 0 .. Len(t) /\ c.ret \in 0 .. Len(t)
      /\ c = [n |-> c.n, read |-> c.read, ret |-> c.ret]
      /\ Len(t) - c.read \in Nat
  BY <1>1 DEF Places
<1>3. ASSUME c.n # 0
      PROVE  /\ Common(h, t, c) \in Nat /\ Common(h, t, c) <= Len(h[c.n].radix)
             /\ c.read + Common(h, t, c) \in 0 .. Len(t)
  <2>1. c.n \in 1 .. Len(h) /\ c.read \in 0 .. Len(t)
    BY <1>1, <1>2, <1>3
  <2>2. PICK u \in Seq(Letters) : u = Rest(t, c.read) /\ Len(u) = Len(t) - c.read
    BY <2>1, RestFacts
  <2>3. PICK r \in Seq(Letters) : r = h[c.n].radix
    BY <1>1, <2>1
  <2>4. PICK k : k = InCommon(r, u)
    OBVIOUS
  <2>5. k \in Nat /\ k <= Len(r) /\ k <= Len(u)
    BY <2>4, InCommonFacts
  <2>6. Common(h, t, c) = k
    BY <2>2, <2>3, <2>4 DEF Common
  <2>7. c.read + k \in 0 .. Len(t)
    BY <1>1, <2>1, <2>2, <2>5
  <2>8. QED
    BY <2>3, <2>5, <2>6, <2>7
<1>4. ASSUME Common(h, t, c) = 0, c.n # 0
      PROVE  /\ Sideways(h, c) \in Places(h, t)
             /\ Rank(h, t, Sideways(h, c)) < Rank(h, t, c)
  <2>1. PICK m \in 0 .. Len(h) : m = h[c.n].next /\ m < c.n
    BY <1>1, <1>2, <1>4
  <2>2. PICK b : b = [c EXCEPT !.n = m]
    OBVIOUS
  <2>3. b \in Places(h, t) /\ b.n = m /\ b.read = c.read
    BY <1>2, <2>2 DEF Places
  <2>4. Distance(Len(h), Len(t) - c.read, m) < Distance(Len(h), Len(t) - c.read, c.n)
    BY <1>1, <1>2, <2>1, DistanceFacts
  <2>5. Sideways(h, c) = b
    BY <2>1, <2>2 DEF Sideways
  <2>6. QED
    BY <2>3, <2>4, <2>5 DEF Rank
<1>5. ASSUME c.n # 0, Common(h, t, c) # 0, NEW whole \in BOOLEAN
      PROVE  /\ Onward(h, t, whole, c) \in Places(h, t)
             /\ Rank(h, t, Onward(h, t, whole, c)) < Rank(h, t, c)
  <2>1. PICK k \in Nat : k = Common(h, t, c) /\ k >= 1 /\ c.read + k \in 0 .. Len(t)
    BY <1>3, <1>5
  <2>2. PICK m \in 0 .. Len(h) : m = h[c.n].follow
    BY <1>1, <1>2, <1>5
  <2>3. PICK e \in 0 .. Len(t) : e = IF Ends(h, c.n, whole, c.read + k = Len(t)) THEN c.read + k ELSE c.ret
    BY <1>2, <2>1
  <2>4. PICK b : b = [n |-> m, read |-> c.read + k, ret |-> e]
    OBVIOUS
  <2>5. b \in Places(h, t) /\ b.n = m /\ b.read = c.read + k
    BY <2>1, <2>4 DEF Places
  <2>6. Onward(h, t, whole, c) = b
    BY <2>1, <2>2, <2>3, <2>4 DEF Onward
  <2>7. PICK l \in Nat : l = Len(t) - c.read
    BY <1>2
  <2>8. PICK j \in Nat : j = Len(t) - (c.read + k) /\ j < l
    <3>1. PICK r \in Nat : r = c.read
      BY <1>2
    <3>2. PICK e2 \in Nat : e2 = Len(t)
      BY <1>1
    <3>3. e2 - (r + k) \in Nat /\ e2 - (r + k) < e2 - r
      BY <2>1, <3>1, <3>2, SMTT(30)
    <3>4. QED
      BY <2>7, <3>1, <3>2, <3>3
  <2>9. Distance(Len(h), j, m) < Distance(Len(h), l, c.n)
    BY <1>1, <1>2, <2>7, <2>8, DistanceFacts
  <2>10. Rank(h, t, b) = Distance(Len(h), j, m) /\ Rank(h, t, c) = Distance(Len(h), l, c.n)
    BY <2>5, <2>7, <2>8 DEF Rank
  <2>11. QED
    BY <2>5, <2>6, <2>9, <2>10
<1>6. Rank(h, t, c) \in Nat
  BY <1>1, <1>2, DistanceFacts DEF Rank
<1>7. QED
  BY <1>1, <1>2, <1>3, <1>4, <1>5, <1>6

\* What is right of a place if it is of all that a look-up may go on to, is of all.
LEMMA PlacesInduction ==
  ASSUME NEW h, NEW up, NEW sp, Grown(h, up, sp), NEW t \in Seq(Letters), NEW T,
         \A c \in Places(h, t) :
           (\A d \in Places(h, t) : Rank(h, t, d) < Rank(h, t, c) => d \in T) => c \in T
  PROVE  Places(h, t) \subseteq T
<1> DEFINE S == { k \in Nat : \A c \in Places(h, t) : Rank(h, t, c) = k => c \in T }
<1>1. \A c \in Places(h, t) : Rank(h, t, c) \in Nat
  BY NextPlaces
<1>2. ASSUME NEW k \in Nat, \A m \in Nat : m < k => m \in S PROVE k \in S
  <2>1. ASSUME NEW c \in Places(h, t), Rank(h, t, c) = k PROVE c \in T
    <3>1. ASSUME NEW d \in Places(h, t), Rank(h, t, d) < Rank(h, t, c) PROVE d \in T
      BY <1>1, <1>2, <2>1, <3>1
    <3>2. QED
      BY <3>1
  <2>2. QED
    BY <2>1
<1>3. Nat \subseteq S
  <2> HIDE DEF S
  <2>1. QED
    BY <1>2, SetInduction
<1>4. QED
  BY <1>1, <1>3

LEMMA MatchingExists ==
  ASSUME NEW h, NEW up, NEW sp, Grown(h, up, sp), NEW t \in Seq(Letters), NEW whole \in BOOLEAN
  PROVE  \E f \in [Places(h, t) -> 0 .. Len(t)] : IsMatching(h, t, whole, f)
<1>1. Len(t) \in Nat
  BY LenProperties
<1> DEFINE S == Places(h, t)
           V == 0 .. Len(t)
           Halts(c) == c.n = 0 \/ (~whole /\ c.read = Len(t))
           Midway(c) == Common(h, t, c) # 0 /\ Common(h, t, c) < Len(h[c.n].radix)
           B == { c \in S : Halts(c) \/ Midway(c) }
           given == [c \in B |-> IF Halts(c) THEN c.ret ELSE IF whole THEN 0 ELSE c.ret]
           rank == [c \in S |-> Rank(h, t, c)]
           prior == [c \in S \ B |-> IF Common(h, t, c) = 0 THEN Sideways(h, c)
                                     ELSE Onward(h, t, whole, c)]
           step == [c \in S \ B |-> [v \in V |-> v]]
<1>2. rank \in [S -> Nat]
  <2>1. \A c \in S : Rank(h, t, c) \in Nat
    BY NextPlaces
  <2> HIDE DEF S
  <2>2. QED
    BY <2>1
<1>3. B \in SUBSET S /\ given \in [B -> V]
  <2>1. 0 \in V
    BY <1>1
  <2>2. \A c \in B : (IF Halts(c) THEN c.ret ELSE IF whole THEN 0 ELSE c.ret) \in V
    BY <2>1, NextPlaces
  <2> HIDE DEF V, S, Halts, Midway
  <2>3. QED
    BY <2>2
<1>4. prior \in [S \ B -> S] /\ \A c \in S \ B : rank[prior[c]] < rank[c]
  <2>1. ASSUME NEW c \in S \ B
        PROVE  prior[c] \in S /\ rank[prior[c]] < rank[c]
    <3>1. c \in S /\ c.n # 0
      OBVIOUS
    <3>2. c \in Places(h, t)
      BY <3>1
    <3>3. \A d \in S : rank[d] = Rank(h, t, d)
      OBVIOUS
    <3> HIDE DEF S, B, rank
    <3>4. CASE Common(h, t, c) = 0
      <4>1. prior[c] = Sideways(h, c)
        BY <3>4
      <4>2. QED
        BY <3>1, <3>4, <3>2, <3>3, <4>1, NextPlaces DEF S
    <3>5. CASE Common(h, t, c) # 0
      <4>1. prior[c] = Onward(h, t, whole, c)
        BY <3>5
      <4>2. QED
        BY <3>1, <3>5, <3>2, <3>3, <4>1, NextPlaces DEF S
    <3>6. QED
      BY <3>4, <3>5
  <2>2. prior = [c \in S \ B |-> prior[c]]
    OBVIOUS
  <2> HIDE DEF S, B, rank, prior
  <2>3. QED
    BY <2>1, <2>2
<1>5. step \in [S \ B -> [V -> V]]
  OBVIOUS
<1>6. PICK f \in [S -> V] : Recursion(S, given, prior, step, f)
  <2> HIDE DEF S, V, B, given, rank, prior, step
  <2>1. QED
    BY <1>2, <1>3, <1>4, <1>5, RankedRecursionExists
<1>7. ASSUME NEW c \in S PROVE f[c] = Turn(h, t, whole, c, f)
  <2>1. f[c] = IF c \in DOMAIN given THEN given[c] ELSE step[c][f[prior[c]]]
    BY <1>6 DEF Recursion
  <2>2. CASE c \in B
    <3>1. f[c] = IF Halts(c) THEN c.ret ELSE IF whole THEN 0 ELSE c.ret
      BY <2>1, <2>2
    <3>2. Halts(c) \/ Midway(c)
      BY <2>2
    <3>3. QED
      BY <3>1, <3>2 DEF Turn
  <2>3. CASE c \notin B
    <3>1. ~Halts(c) /\ ~Midway(c) /\ c.n # 0
      BY <2>3
    <3>2. prior[c] \in S /\ f[c] = f[prior[c]]
      <4>1. c \in S \ B
        BY <2>3
      <4>2. prior[c] \in S
        <5> HIDE DEF S, B, prior
        <5>1. QED
          BY <1>4, <4>1
      <4>3. f[prior[c]] \in V
        BY <4>2
      <4>4. step[c][f[prior[c]]] = f[prior[c]] /\ DOMAIN given = B
        BY <4>1, <4>3
      <4> HIDE DEF B, S, given, prior, step
      <4>5. QED
        BY <2>1, <2>3, <4>2, <4>4
    <3>3. Common(h, t, c) <= Len(h[c.n].radix) /\ Common(h, t, c) \in Nat
      BY <3>1, NextPlaces
    <3>4. CASE Common(h, t, c) = 0
      <4>1. prior[c] = Sideways(h, c)
        BY <2>3, <3>4
      <4>2. QED
        BY <3>1, <3>2, <3>4, <4>1 DEF Turn, Sideways
    <3>5. CASE Common(h, t, c) # 0
      <4>1. prior[c] = Onward(h, t, whole, c)
        BY <2>3, <3>5
      <4>2. ~(Common(h, t, c) < Len(h[c.n].radix))
        BY <3>1, <3>5
      <4>3. QED
        BY <3>1, <3>2, <3>5, <4>1, <4>2 DEF Turn, Onward
    <3>6. QED
      BY <3>4, <3>5
  <2>4. QED
    BY <2>2, <2>3
<1>8. f = [c \in S |-> Turn(h, t, whole, c, f)]
  <2> HIDE DEF S
  <2>1. QED
    BY <1>6, <1>7
<1>9. QED
  BY <1>6, <1>8 DEF IsMatching

\* A turn of a look-up, case by case.
LEMMA TurnCases ==
  ASSUME NEW h, NEW up, NEW sp, Grown(h, up, sp), NEW t \in Seq(Letters), NEW whole \in BOOLEAN,
         NEW f, IsMatching(h, t, whole, f), NEW c \in Places(h, t)
  PROVE  LET k == Common(h, t, c) IN
         /\ c.n = 0 => f[c] = c.ret
         /\ ~AsksAll(whole) /\ c.read = Len(t) => f[c] = c.ret
         /\ c.n # 0 /\ (AsksAll(whole) \/ c.read # Len(t)) =>
              /\ k = 0 => f[c] = f[Sideways(h, c)]
              /\ k # 0 /\ k < Len(h[c.n].radix) => f[c] = IF AsksAll(whole) THEN 0 ELSE c.ret
              /\ k # 0 /\ ~(k < Len(h[c.n].radix)) => f[c] = f[Onward(h, t, whole, c)]
<1>1. f[c] = Turn(h, t, whole, c, f)
  BY DEF IsMatching
<1>2. QED
  BY <1>1 DEF Turn, Sideways, Onward, AsksAll

LEMMA MatchedIs ==
  ASSUME NEW h, NEW up, NEW sp, Grown(h, up, sp), NEW t \in Seq(Letters), NEW whole \in BOOLEAN
  PROVE  \E f \in [Places(h, t) -> 0 .. Len(t)] :
            /\ IsMatching(h, t, whole, f)
            /\ Matched(h, t, whole) = f[[n |-> h[Root].follow, read |-> 0, ret |-> 0]]
            /\ [n |-> h[Root].follow, read |-> 0, ret |-> 0] \in Places(h, t)
<1>1. PICK f : f = CHOOSE g : IsMatching(h, t, whole, g)
  OBVIOUS
<1>2. PICK g \in [Places(h, t) -> 0 .. Len(t)] : IsMatching(h, t, whole, g)
  BY MatchingExists
<1>3. IsMatching(h, t, whole, f)
  BY <1>1, <1>2
<1>4. f \in [Places(h, t) -> 0 .. Len(t)]
  <2> DEFINE T == { c \in Places(h, t) : f[c] \in 0 .. Len(t) }
  <2>1. ASSUME NEW c \in Places(h, t),
               \A d \in Places(h, t) : Rank(h, t, d) < Rank(h, t, c) => d \in T
        PROVE  f[c] \in 0 .. Len(t)
    <3>1. c.ret \in 0 .. Len(t) /\ 0 \in 0 .. Len(t)
      BY NextPlaces
    <3>2. CASE c.n = 0 \/ (~AsksAll(whole) /\ c.read = Len(t))
      BY <1>3, <3>1, <3>2, TurnCases
    <3>3. CASE c.n # 0 /\ (AsksAll(whole) \/ c.read # Len(t))
      <4>1. CASE Common(h, t, c) = 0
        <5>1. Sideways(h, c) \in T
          BY <2>1, <3>3, <4>1, NextPlaces
        <5>2. f[c] = f[Sideways(h, c)]
          BY <1>3, <3>3, <4>1, TurnCases
        <5>3. QED
          BY <5>1, <5>2
      <4>2. CASE Common(h, t, c) # 0 /\ Common(h, t, c) < Len(h[c.n].radix)
        BY <1>3, <3>1, <3>3, <4>2, TurnCases
      <4>3. CASE Common(h, t, c) # 0 /\ ~(Common(h, t, c) < Len(h[c.n].radix))
        <5>1. Onward(h, t, whole, c) \in T
          BY <2>1, <3>3, <4>3, NextPlaces
        <5>2. f[c] = f[Onward(h, t, whole, c)]
          BY <1>3, <3>3, <4>3, TurnCases
        <5>3. QED
          BY <5>1, <5>2
      <4>4. QED
        BY <4>1, <4>2, <4>3
    <3>4. QED
      BY <3>2, <3>3
  <2>2. Places(h, t) \subseteq T
    <3>1. \A c \in Places(h, t) :
            (\A d \in Places(h, t) : Rank(h, t, d) < Rank(h, t, c) => d \in T) => c \in T
      BY <2>1
    <3> HIDE DEF T
    <3>2. QED
      BY <3>1, PlacesInduction
  <2>3. QED
    BY <1>3, <2>2 DEF IsMatching
<1>5. Matched(h, t, whole) = f[[n |-> h[Root].follow, read |-> 0, ret |-> 0]]
  BY <1>1 DEF Matched, IsMatching, Turn, Common
<1>6. [n |-> h[Root].follow, read |-> 0, ret |-> 0] \in Places(h, t)
  <2>1. h[Root].follow \in 0 .. Len(h) /\ Len(t) \in Nat
    <3>1. /\ h[Root].follow \in DOMAIN h \cup {0} /\ DOMAIN h = 1 .. Len(h) /\ Len(h) \in Nat
      BY GrownFacts
    <3>2. QED
      BY <3>1, LenProperties
  <2>2. QED
    BY <2>1 DEF Places
<1>7. QED
  BY <1>3, <1>4, <1>5, <1>6

-----------------------------------------------------------------------------
(***************************************************************************)
(* What the look-ups find.                                                 *)
(***************************************************************************)
Marked(h, sp, w) == \E m \in DOMAIN h : h[m].leaf /\ sp[m] = w

\* At the end of the text nothing more is matched.
LEMMA AllRead ==
  ASSUME NEW h, NEW up, NEW sp, Grown(h, up, sp), NEW t \in Seq(Letters),
         NEW whole \in BOOLEAN, AsksAll(whole), NEW f, IsMatching(h, t, whole, f),
         NEW c \in Places(h, t), c.read = Len(t)
  PROVE  f[c] = c.ret
<1> DEFINE T == { d \in Places(h, t) : d.read = Len(t) => f[d] = d.ret }
<1>1. ASSUME NEW d \in Places(h, t), d.read = Len(t),
             \A e \in Places(h, t) : Rank(h, t, e) < Rank(h, t, d) => e \in T
      PROVE  f[d] = d.ret
  <2>1. CASE d.n = 0
    BY <2>1, TurnCases
  <2>2. CASE d.n # 0
    <3>1. d.n \in DOMAIN h /\ d.read \in 0 .. Len(t) /\ Len(t) \in Nat
      BY <2>2, NextPlaces, GrownFacts
    <3>2. PICK r \in Seq(Letters) : r = h[d.n].radix
      BY <3>1, GrownFacts
    <3>3. PICK u \in Seq(Letters) : u = Rest(t, d.read) /\ Len(u) = 0
      BY <1>1, <3>1, RestFacts
    <3>4. PICK k \in Nat : k = InCommon(r, u) /\ k <= Len(u)
      BY InCommonFacts
    <3>5. Common(h, t, d) = 0
      BY <3>2, <3>3, <3>4 DEF Common
    <3>6. f[d] = f[Sideways(h, d)] /\ Sideways(h, d) \in T
      BY <1>1, <2>2, <3>5, TurnCases, NextPlaces
    <3>7. Sideways(h, d).read = d.read /\ Sideways(h, d).ret = d.ret
      BY DEF Sideways, Places
    <3>8. QED
      BY <1>1, <3>6, <3>7
  <2>3. QED
    BY <2>1, <2>2
<1>2. Places(h, t) \subseteq T
  <2>1. \A d \in Places(h, t) :
          (\A e \in Places(h, t) : Rank(h, t, e) < Rank(h, t, d) => e \in T) => d \in T
    BY <1>1
  <2> HIDE DEF T
  <2>2. QED
    BY <2>1, PlacesInduction
<1>3. QED
  BY <1>2

\* The place a look-up begins at.
LEMMA AtTheRoot ==
  ASSUME NEW h, NEW up, NEW sp, Grown(h, up, sp), NEW t \in Seq(Letters)
  PROVE  At(h, up, sp, t, h[Root].follow, 0, Root)
<1>1. Root \in DOMAIN h /\ Len(sp[Root]) = 0 /\ sp[Root] = <<>>
  BY GrownFacts DEF Grown, Spelled
<1>2. Begins(sp[Root], t)
  BY <1>1, LenProperties DEF Begins
<1>3. h[Root].follow # 0 => IsSon(h, up, h[Root].follow, Root)
  BY <1>1 DEF Grown, Linked
<1>4. \A d : IsSon(h, up, d, Root) => d <= h[Root].follow
  BY SonFacts
<1>5. QED
  BY <1>1, <1>2, <1>3, <1>4 DEF At

\* The place an Onward leads to, below the node it matched.
ReadOn(h, up, sp, t, whole, c) ==
  LET d == Onward(h, t, whole, c)
      read == c.read + Common(h, t, c) IN
  /\ d \in Places(h, t) /\ d.read = read
  /\ d.ret = IF h[c.n].leaf /\ (AsksAll(whole) => read = Len(t)) THEN read ELSE c.ret
  /\ At(h, up, sp, t, d.n, read, c.n)
  /\ read \in Nat /\ c.read < read /\ read <= Len(t)
  /\ c.n \in DOMAIN h /\ Begins(sp[c.n], t) /\ Len(sp[c.n]) = read
  /\ \A m \in DOMAIN h : Begins(sp[m], t) =>
       Len(sp[m]) <= c.read \/ m = c.n \/ Len(sp[m]) > read

LEMMA OnwardIs ==
  ASSUME NEW h, NEW up, NEW sp, Grown(h, up, sp), NEW t \in Seq(Letters), NEW whole \in BOOLEAN,
         NEW c \in Places(h, t), NEW p, At(h, up, sp, t, c.n, c.read, p), c.n # 0,
         c.read # Len(t), Common(h, t, c) # 0, ~(Common(h, t, c) < Len(h[c.n].radix))
  PROVE  ReadOn(h, up, sp, t, whole, c)
<1>1. /\ c.read \in 0 .. Len(t) /\ Len(t) \in Nat /\ Common(h, t, c) \in Nat
      /\ Common(h, t, c) <= Len(h[c.n].radix)
      /\ Onward(h, t, whole, c) \in Places(h, t)
  BY NextPlaces
<1>2. c.read < Len(t)
  BY <1>1
<1>3. IsSon(h, up, c.n, p)
  BY DEF At
<1>4. Len(h[c.n].radix) \in Nat /\ c.n \in DOMAIN h
  BY <1>3, SonFacts
<1>5. Common(h, t, c) = Len(h[c.n].radix)
  BY <1>1, <1>4
<1>6. PICK k \in Nat : k = Common(h, t, c) /\ k # 0
  BY <1>1
<1>7. /\ c.read + k <= Len(t)
      /\ At(h, up, sp, t, h[c.n].follow, c.read + k, c.n)
      /\ \A m \in DOMAIN h : Begins(sp[m], t) =>
           Len(sp[m]) <= c.read \/ m = c.n \/ Len(sp[m]) > c.read + k
  BY <1>2, <1>5, <1>6, LookStep DEF Common
<1>8. Begins(sp[c.n], t) /\ Len(sp[c.n]) = c.read + k
  BY <1>7 DEF At
<1>9. c.read + k \in Nat /\ c.read < c.read + k
  BY <1>1, <1>6
<1>10. PICK d : d = Onward(h, t, whole, c)
  OBVIOUS
<1>11. /\ d.n = h[c.n].follow /\ d.read = c.read + k
       /\ d.ret = IF h[c.n].leaf /\ (AsksAll(whole) => c.read + k = Len(t)) THEN c.read + k ELSE c.ret
  BY <1>6, <1>10 DEF Onward, Ends, AsksAll
<1>12. QED
  BY <1>1, <1>4, <1>6, <1>7, <1>8, <1>9, <1>10, <1>11 DEF ReadOn

\* trie_match finds the words that a node with a mark spells.
LEMMA MatchFinds ==
  ASSUME NEW h, NEW up, NEW sp, Grown(h, up, sp), NEW t \in Seq(Letters),
         NEW whole \in BOOLEAN, AsksAll(whole)
  PROVE  Matched(h, t, whole) = Len(t) <=> Marked(h, sp, t)
<1>1. PICK f : /\ IsMatching(h, t, whole, f)
               /\ Matched(h, t, whole) = f[[n |-> h[Root].follow, read |-> 0, ret |-> 0]]
               /\ [n |-> h[Root].follow, read |-> 0, ret |-> 0] \in Places(h, t)
  BY MatchedIs
<1>2. Len(t) \in Nat
  BY LenProperties
<1> DEFINE Asked(c) == c.ret = 0 /\ c.read # Len(t) /\ \E p : At(h, up, sp, t, c.n, c.read, p)
           Answer == IF Marked(h, sp, t) THEN Len(t) ELSE 0
           T == { c \in Places(h, t) : Asked(c) => f[c] = Answer }
<1>3. ASSUME NEW c \in Places(h, t), Asked(c),
             \A d \in Places(h, t) : Rank(h, t, d) < Rank(h, t, c) => d \in T
      PROVE  f[c] = Answer
  <2>1. PICK p : At(h, up, sp, t, c.n, c.read, p)
    BY <1>3
  <2>2. c.read \in 0 .. Len(t) /\ c.read < Len(t) /\ c.n \in 0 .. Len(h)
    <3>1. c.read \in 0 .. Len(t) /\ c.n \in 0 .. Len(h)
      BY NextPlaces
    <3>2. QED
      BY <1>2, <1>3, <3>1
  <2>3. NoneBeyond(h, sp, t, c.read) => ~Marked(h, sp, t)
    <3>1. SUFFICES ASSUME NoneBeyond(h, sp, t, c.read), NEW m \in DOMAIN h, sp[m] = t PROVE FALSE
      BY DEF Marked
    <3>2. Begins(sp[m], t)
      BY <3>1, BeginsFacts
    <3>3. Len(sp[m]) <= c.read
      BY <3>1, <3>2 DEF NoneBeyond
    <3>4. QED
      BY <1>2, <2>2, <3>1, <3>3
  <2>4. CASE c.n = 0
    <3>1. NoneBeyond(h, sp, t, c.read)
      <4>1. SUFFICES ASSUME NEW m \in DOMAIN h, Begins(sp[m], t), ~(Len(sp[m]) <= c.read)
                     PROVE  FALSE
        BY DEF NoneBeyond
      <4>2. PICK d : d >= 1 /\ d \in Nat /\ d <= c.n
        BY <2>1, <4>1, BeyondThroughSon
      <4>3. QED
        BY <2>4, <4>2
    <3>2. f[c] = 0
      BY <1>1, <1>3, <2>4, TurnCases
    <3>3. QED
      BY <2>3, <3>1, <3>2
  <2>5. CASE c.n # 0
    <3>1. CASE Common(h, t, c) = 0
      <4>1. /\ Sideways(h, c) \in Places(h, t)
            /\ Rank(h, t, Sideways(h, c)) < Rank(h, t, c)
        BY <2>5, <3>1, NextPlaces
      <4>2. f[c] = f[Sideways(h, c)]
        BY <1>1, <2>5, <3>1, TurnCases
      <4>3. f[c] = f[Sideways(h, c)] /\ Sideways(h, c) \in T
        BY <1>3, <4>1, <4>2
      <4>4. /\ Sideways(h, c).n = h[c.n].next /\ Sideways(h, c).read = c.read
            /\ Sideways(h, c).ret = c.ret
        BY DEF Sideways, Places
      <4>5. At(h, up, sp, t, h[c.n].next, c.read, p)
        BY <2>1, <2>2, <2>5, <3>1, LookStep DEF Common
      <4>6. Asked(Sideways(h, c))
        BY <1>3, <4>4, <4>5
      <4>7. QED
        BY <4>3, <4>6
    <3>2. CASE Common(h, t, c) # 0 /\ Common(h, t, c) < Len(h[c.n].radix)
      <4>1. f[c] = 0
        BY <1>1, <2>5, <3>2, TurnCases
      <4>2. NoneBeyond(h, sp, t, c.read)
        BY <2>1, <2>2, <2>5, <3>2, LookStep DEF Common
      <4>3. QED
        BY <2>3, <4>1, <4>2
    <3>3. CASE Common(h, t, c) # 0 /\ ~(Common(h, t, c) < Len(h[c.n].radix))
      <4>1. ReadOn(h, up, sp, t, whole, c)
        BY <1>3, <2>1, <2>5, <3>3, OnwardIs
      <4>2. PICK d : d = Onward(h, t, whole, c)
        OBVIOUS
      <4>3. PICK read : read = c.read + Common(h, t, c)
        OBVIOUS
      <4>4. /\ d \in Places(h, t) /\ d.read = read
            /\ d.ret = IF h[c.n].leaf /\ read = Len(t) THEN read ELSE c.ret
            /\ At(h, up, sp, t, d.n, read, c.n)
            /\ read \in Nat /\ c.read < read /\ read <= Len(t)
            /\ c.n \in DOMAIN h /\ Begins(sp[c.n], t) /\ Len(sp[c.n]) = read
            /\ \A m \in DOMAIN h : Begins(sp[m], t) =>
                 Len(sp[m]) <= c.read \/ m = c.n \/ Len(sp[m]) > read
        BY <4>1, <4>2, <4>3 DEF ReadOn
      <4>5. d \in Places(h, t) /\ Rank(h, t, d) < Rank(h, t, c)
        BY <2>5, <3>3, <4>2, NextPlaces
      <4>6. f[c] = f[d]
        BY <1>1, <2>5, <3>3, <4>2, TurnCases
      <4>7. f[c] = f[d] /\ d \in T
        BY <1>3, <4>5, <4>6
      <4>8. CASE read # Len(t)
        <5>1. Asked(d)
          BY <1>3, <4>4, <4>8
        <5>2. QED
          BY <4>7, <5>1
      <4>9. CASE read = Len(t)
        <5>1. f[d] = d.ret
          BY <1>1, <4>4, <4>9, AllRead
        <5>2. Marked(h, sp, t) <=> h[c.n].leaf
          <6>1. sp[c.n] = t
            <7>1. sp[c.n] \in Seq(Letters) /\ Len(sp[c.n]) = Len(t)
              BY <4>4, <4>9, GrownFacts
            <7>2. QED
              BY <1>2, <4>4, <7>1, BeginsFacts
          <6>2. ASSUME NEW m \in DOMAIN h, sp[m] = t PROVE m = c.n
            <7>1. Begins(sp[m], t)
              BY <6>2, BeginsFacts
            <7>2. ~(Len(sp[m]) <= c.read) /\ ~(Len(sp[m]) > read)
              BY <1>2, <2>2, <4>4, <4>9, <6>2
            <7>3. QED
              BY <4>4, <7>1, <7>2
          <6>3. QED
            BY <4>4, <6>1, <6>2 DEF Marked
        <5>3. QED
          BY <1>3, <4>4, <4>7, <4>9, <5>1, <5>2
      <4>10. QED
        BY <4>8, <4>9
    <3>4. QED
      BY <3>1, <3>2, <3>3
  <2>6. QED
    BY <2>4, <2>5
<1>4. Places(h, t) \subseteq T
  <2>1. \A c \in Places(h, t) :
          (\A d \in Places(h, t) : Rank(h, t, d) < Rank(h, t, c) => d \in T) => c \in T
    BY <1>3
  <2> HIDE DEF T
  <2>2. QED
    BY <2>1, PlacesInduction
<1>5. PICK s0 : s0 = [n |-> h[Root].follow, read |-> 0, ret |-> 0]
  OBVIOUS
<1>6. s0 \in T /\ s0.n = h[Root].follow /\ s0.read = 0 /\ s0.ret = 0 /\ s0 \in Places(h, t)
  BY <1>1, <1>4, <1>5
<1>7. CASE Len(t) = 0
  <2>1. s0.read = Len(t)
    BY <1>6, <1>7
  <2>2. f[s0] = 0
    BY <1>1, <1>6, <2>1, AllRead
  <2>3. t = <<>>
    BY <1>7, EmptySeq
  <2>4. Marked(h, sp, t)
    BY <2>3, GrownFacts DEF Marked, Grown, Spelled
  <2>5. QED
    BY <1>1, <1>5, <1>7, <2>2, <2>4
<1>8. CASE Len(t) # 0
  <2>1. Asked(s0)
    BY <1>6, <1>8, AtTheRoot
  <2>2. f[s0] = Answer
    BY <1>6, <2>1
  <2>3. QED
    BY <1>1, <1>5, <1>8, <2>2
<1>9. QED
  BY <1>7, <1>8

(***************************************************************************)
(* trie_match_prefix returns the length of the longest word that a node    *)
(* with a mark spells, of those that the text begins with.                 *)
(***************************************************************************)
Longest(h, sp, t, r) ==
  /\ \E m \in DOMAIN h : h[m].leaf /\ Begins(sp[m], t) /\ Len(sp[m]) = r
  /\ \A m \in DOMAIN h : h[m].leaf /\ Begins(sp[m], t) => Len(sp[m]) <= r

LEMMA PrefixMatchFinds ==
  ASSUME NEW h, NEW up, NEW sp, Grown(h, up, sp), NEW t \in Seq(Letters),
         NEW whole \in BOOLEAN, ~AsksAll(whole)
  PROVE  Matched(h, t, whole) \in Nat /\ Longest(h, sp, t, Matched(h, t, whole))
<1>1. PICK f : /\ IsMatching(h, t, whole, f) /\ f \in [Places(h, t) -> 0 .. Len(t)]
               /\ Matched(h, t, whole) = f[[n |-> h[Root].follow, read |-> 0, ret |-> 0]]
               /\ [n |-> h[Root].follow, read |-> 0, ret |-> 0] \in Places(h, t)
  BY MatchedIs
<1>2. Len(t) \in Nat
  BY LenProperties
\* c.ret is the longest so far.
<1> DEFINE SoFar(c) == /\ \E m \in DOMAIN h : h[m].leaf /\ Begins(sp[m], t) /\ Len(sp[m]) = c.ret
                       /\ \A m \in DOMAIN h : h[m].leaf /\ Begins(sp[m], t) =>
                            Len(sp[m]) <= c.ret \/ ~(Len(sp[m]) <= c.read)
           Asked(c) == SoFar(c) /\ \E p : At(h, up, sp, t, c.n, c.read, p)
           T == { c \in Places(h, t) : Asked(c) => Longest(h, sp, t, f[c]) }
<1>3. ASSUME NEW c \in Places(h, t), Asked(c),
             \A d \in Places(h, t) : Rank(h, t, d) < Rank(h, t, c) => d \in T
      PROVE  Longest(h, sp, t, f[c])
  <2>1. PICK p : At(h, up, sp, t, c.n, c.read, p)
    BY <1>3
  <2>2. c.read \in 0 .. Len(t) /\ c.n \in 0 .. Len(h) /\ c.ret \in 0 .. Len(t)
    BY NextPlaces
  <2>3. NoneBeyond(h, sp, t, c.read) => Longest(h, sp, t, c.ret)
    BY <1>3 DEF NoneBeyond, Longest
  <2>4. CASE c.read = Len(t)
    <3>1. NoneBeyond(h, sp, t, c.read)
      BY <2>4 DEF NoneBeyond, Begins
    <3>2. f[c] = c.ret
      BY <1>1, <2>4, TurnCases
    <3>3. QED
      BY <2>3, <3>1, <3>2
  <2>5. CASE c.read # Len(t) /\ c.n = 0
    <3>1. NoneBeyond(h, sp, t, c.read)
      <4>1. SUFFICES ASSUME NEW m \in DOMAIN h, Begins(sp[m], t), ~(Len(sp[m]) <= c.read)
                     PROVE  FALSE
        BY DEF NoneBeyond
      <4>2. PICK d : d >= 1 /\ d \in Nat /\ d <= c.n
        BY <2>1, <4>1, BeyondThroughSon
      <4>3. QED
        BY <2>5, <4>2
    <3>2. f[c] = c.ret
      BY <1>1, <2>5, TurnCases
    <3>3. QED
      BY <2>3, <3>1, <3>2
  <2>6. CASE c.read # Len(t) /\ c.n # 0
    <3>1. c.read < Len(t)
      BY <1>2, <2>2, <2>6
    <3>2. CASE Common(h, t, c) = 0
      <4>1. /\ Sideways(h, c) \in Places(h, t)
            /\ Rank(h, t, Sideways(h, c)) < Rank(h, t, c)
        BY <2>6, <3>2, NextPlaces
      <4>2. f[c] = f[Sideways(h, c)]
        BY <1>1, <2>6, <3>2, TurnCases
      <4>3. f[c] = f[Sideways(h, c)] /\ Sideways(h, c) \in T
        BY <1>3, <4>1, <4>2
      <4>4. /\ Sideways(h, c).n = h[c.n].next /\ Sideways(h, c).read = c.read
            /\ Sideways(h, c).ret = c.ret
        BY DEF Sideways, Places
      <4>5. At(h, up, sp, t, h[c.n].next, c.read, p)
        BY <2>1, <2>6, <3>1, <3>2, LookStep DEF Common
      <4>6. SoFar(Sideways(h, c))
        BY <1>3, <4>4
      <4>7. Asked(Sideways(h, c))
        BY <4>4, <4>5, <4>6
      <4>8. QED
        BY <4>3, <4>7
    <3>3. CASE Common(h, t, c) # 0 /\ Common(h, t, c) < Len(h[c.n].radix)
      <4>1. f[c] = c.ret
        BY <1>1, <2>6, <3>3, TurnCases
      <4>2. NoneBeyond(h, sp, t, c.read)
        BY <2>1, <2>6, <3>1, <3>3, LookStep DEF Common
      <4>3. QED
        BY <2>3, <4>1, <4>2
    <3>4. CASE Common(h, t, c) # 0 /\ ~(Common(h, t, c) < Len(h[c.n].radix))
      <4>1. ReadOn(h, up, sp, t, whole, c)
        BY <2>1, <2>6, <3>4, OnwardIs
      <4>2. PICK d : d = Onward(h, t, whole, c)
        OBVIOUS
      <4>3. PICK read : read = c.read + Common(h, t, c)
        OBVIOUS
      <4>4. d.ret = IF h[c.n].leaf /\ (AsksAll(whole) => read = Len(t)) THEN read ELSE c.ret
        BY <4>1, <4>2, <4>3 DEF ReadOn
      <4>5. d.ret = IF h[c.n].leaf THEN read ELSE c.ret
        BY <4>4
      <4>6. /\ d \in Places(h, t) /\ d.read = read
            /\ At(h, up, sp, t, d.n, read, c.n)
            /\ read \in Nat /\ c.read < read /\ read <= Len(t)
            /\ c.n \in DOMAIN h /\ Begins(sp[c.n], t) /\ Len(sp[c.n]) = read
            /\ \A m \in DOMAIN h : Begins(sp[m], t) =>
                 Len(sp[m]) <= c.read \/ m = c.n \/ Len(sp[m]) > read
        BY <4>1, <4>2, <4>3 DEF ReadOn
      <4>7. d \in Places(h, t) /\ Rank(h, t, d) < Rank(h, t, c)
        BY <2>6, <3>4, <4>2, NextPlaces
      <4>8. f[c] = f[d]
        BY <1>1, <2>6, <3>4, <4>2, TurnCases
      <4>9. f[c] = f[d] /\ d \in T
        BY <1>3, <4>7, <4>8
      <4>10. \E m \in DOMAIN h : h[m].leaf /\ Begins(sp[m], t) /\ Len(sp[m]) = d.ret
        <5>1. CASE h[c.n].leaf
          BY <4>6, <4>5, <5>1
        <5>2. CASE ~h[c.n].leaf
          BY <1>3, <4>6, <4>5, <5>2
        <5>3. QED
          BY <5>1, <5>2
      <4>11. ASSUME NEW m \in DOMAIN h, h[m].leaf, Begins(sp[m], t)
            PROVE  Len(sp[m]) <= d.ret \/ ~(Len(sp[m]) <= read)
        <5>1. Len(sp[m]) \in Nat
          BY GrownFacts
        <5>2. CASE Len(sp[m]) <= c.read
          <6>1. Len(sp[m]) <= c.ret
            BY <1>3, <4>11, <5>2
          <6>2. QED
            BY <2>2, <4>6, <4>5, <5>1, <5>2, <6>1
        <5>3. CASE m = c.n
          BY <4>6, <4>11, <4>5, <5>1, <5>3
        <5>4. CASE Len(sp[m]) > read
          BY <4>6, <5>1, <5>4
        <5>5. QED
          BY <4>6, <4>11, <5>2, <5>3, <5>4
      <4>12. SoFar(d)
        BY <4>6, <4>10, <4>11
      <4>13. Asked(d)
        BY <4>6, <4>12
      <4>14. QED
        BY <4>9, <4>13
    <3>5. QED
      BY <3>2, <3>3, <3>4
  <2>7. QED
    BY <2>4, <2>5, <2>6
<1>4. Places(h, t) \subseteq T
  <2>1. \A c \in Places(h, t) :
          (\A d \in Places(h, t) : Rank(h, t, d) < Rank(h, t, c) => d \in T) => c \in T
    BY <1>3
  <2> HIDE DEF T
  <2>2. QED
    BY <2>1, PlacesInduction
<1>5. PICK s0 : s0 = [n |-> h[Root].follow, read |-> 0, ret |-> 0]
  OBVIOUS
<1>6. s0 \in T /\ s0.n = h[Root].follow /\ s0.read = 0 /\ s0.ret = 0 /\ s0 \in Places(h, t)
  BY <1>1, <1>4, <1>5
<1>7. Root \in DOMAIN h /\ h[Root].leaf /\ Begins(sp[Root], t) /\ Len(sp[Root]) = 0
  BY GrownFacts, AtTheRoot DEF At, Grown
<1>8. Asked(s0)
  BY <1>6, <1>7, AtTheRoot
<1>9. f[s0] \in 0 .. Len(t) /\ Longest(h, sp, t, f[s0])
  BY <1>1, <1>6, <1>8
<1>10. f[s0] \in Nat
  BY <1>2, <1>9
<1>11. QED
  BY <1>1, <1>5, <1>9, <1>10

-----------------------------------------------------------------------------
(***************************************************************************)
(* The tree grows.  Splitting n puts a node between n and its children;    *)
(* the parts of its radix are spelled after each other.                    *)
(***************************************************************************)
Parts(u, r, k, v, x) ==
  /\ v \in Seq(Letters) /\ Len(v) = Len(u) + k /\ Begins(v, x) /\ Len(v) < Len(x)
  /\ GoesOn(u, SubSeq(r, 1, k), v) /\ GoesOn(v, Rest(r, k), x)
  /\ SubSeq(r, 1, k) \in Seq(Letters) /\ SubSeq(r, 1, k)[1] = r[1]
  /\ Rest(r, k) \in Seq(Letters)

LEMMA PartsGoOn ==
  ASSUME NEW u \in Seq(Letters), NEW r \in Seq(Letters), NEW v \in Seq(Letters), GoesOn(u, r, v),
         NEW k \in Nat, k >= 1, k < Len(r)
  PROVE  Parts(u, r, k, SubSeq(v, 1, Len(u) + k), v)
<1>1. PICK lu \in Nat : lu = Len(u)
  BY LenProperties
<1>2. PICK lr \in Nat : lr = Len(r)
  BY LenProperties
<1>3. PICK lv \in Nat : lv = Len(v) /\ lv = lu + lr
  BY <1>1, <1>2, LenProperties DEF GoesOn
<1>4. /\ \A i \in 1 .. lu : u[i] = v[i]
      /\ \A i \in 1 .. lr : r[i] = v[lu + i]
  BY <1>1, <1>2 DEF GoesOn, Begins
<1>5. PICK a \in Seq(Letters) : /\ a = SubSeq(v, 1, Len(u) + k) /\ Len(a) = lu + k
                                /\ \A i \in 1 .. lu + k : a[i] = v[i]
  <2>1. lu + k \in 0 .. Len(v) /\ Len(u) + k = lu + k
    BY <1>1, <1>2, <1>3
  <2>2. QED
    BY <2>1, PartFacts
<1>6. PICK b \in Seq(Letters) : /\ b = SubSeq(r, 1, k) /\ Len(b) = k
                                /\ \A i \in 1 .. k : b[i] = r[i]
  <2>1. k \in 0 .. Len(r)
    BY <1>2
  <2>2. PICK b : b = SubSeq(r, 1, k)
    OBVIOUS
  <2>3. b \in Seq(Letters) /\ Len(b) = k /\ \A i \in 1 .. k : b[i] = r[i]
    BY <2>1, <2>2, PartFacts
  <2>4. QED
    BY <2>2, <2>3
<1>7. PICK c \in Seq(Letters) : /\ c = Rest(r, k) /\ Len(c) = lr - k
                                /\ \A i \in 1 .. lr - k : c[i] = r[k + i]
  <2>1. k \in 0 .. Len(r)
    BY <1>2
  <2>2. PICK c : c = Rest(r, k)
    OBVIOUS
  <2>3. /\ c \in Seq(Letters) /\ Len(c) = Len(r) - k
        /\ \A i \in 1 .. Len(r) - k : c[i] = r[k + i]
    BY <2>1, <2>2, RestFacts
  <2>4. QED
    BY <1>2, <2>2, <2>3
<1>8. Begins(a, v) /\ Len(a) < Len(v)
  BY <1>2, <1>3, <1>5 DEF Begins
<1>9. GoesOn(u, b, a)
  <2>1. Len(u) < Len(a) /\ Begins(u, a)
    BY <1>1, <1>4, <1>5 DEF Begins
  <2>2. Len(b) = Len(a) - Len(u)
    BY <1>1, <1>5, <1>6
  <2>3. ASSUME NEW i \in 1 .. k PROVE b[i] = a[lu + i]
    <3>1. i \in 1 .. lr /\ lu + i \in 1 .. lu + k
      BY <1>2
    <3>2. QED
      BY <1>4, <1>5, <1>6, <3>1
  <2>4. QED
    BY <1>1, <1>6, <2>1, <2>2, <2>3 DEF GoesOn
<1>10. GoesOn(a, c, v)
  <2>1. lr - k = lv - (lu + k)
    BY <1>3
  <2>2. Len(c) = Len(v) - Len(a)
    BY <1>3, <1>5, <1>7, <2>1
  <2>3. ASSUME NEW i \in 1 .. lr - k PROVE c[i] = v[(lu + k) + i]
    <3>1. k + i \in 1 .. lr /\ lu + (k + i) = (lu + k) + i
      BY <1>2
    <3>2. QED
      BY <1>4, <1>7, <3>1
  <2>4. QED
    BY <1>5, <1>7, <1>8, <2>2, <2>3 DEF GoesOn
<1>11. b[1] = r[1]
  BY <1>6
<1>12. QED
  BY <1>1, <1>5, <1>6, <1>7, <1>8, <1>9, <1>10, <1>11 DEF Parts

\* What spells what, and what is over what, after node n is split.
UpSplit(h, up, n) ==
  [i \in 1 .. Len(h) + 1 |-> IF i = Len(h) + 1 THEN n
                             ELSE IF i # Root /\ up[i] = n THEN Len(h) + 1 ELSE up[i]]
SpelledSplit(h, sp, n, v) ==
  [i \in 1 .. Len(h) + 1 |-> IF i = Len(h) + 1 THEN sp[n] ELSE IF i = n THEN v ELSE sp[i]]

IsSplit(h, n, k, g) ==
  LET m == Len(h) + 1 IN
  /\ g \in Seq(TrieNodes) /\ Len(g) = m
  /\ \A i \in DOMAIN h : i # n => g[i] = h[i]
  /\ g[n].radix = SubSeq(h[n].radix, 1, k) /\ g[n].next = h[n].next /\ g[n].follow = m
  /\ g[m].radix = Rest(h[n].radix, k) /\ g[m].leaf = h[n].leaf
  /\ g[m].next = 0 /\ g[m].follow = h[n].follow

LEMMA SplitGrows ==
  ASSUME NEW h, NEW up, NEW sp, Grown(h, up, sp), NEW n \in DOMAIN h, n # Root,
         NEW k \in Nat, k >= 1, k < Len(h[n].radix), NEW g, IsSplit(h, n, k, g)
  PROVE  LET v == SubSeq(sp[n], 1, Len(sp[up[n]]) + k)
         IN Grown(g, UpSplit(h, up, n), SpelledSplit(h, sp, n, v))
<1>1. /\ DOMAIN h = 1 .. Len(h) /\ Len(h) \in Nat /\ Len(h) >= 1 /\ Root \in DOMAIN h
      /\ \A i \in DOMAIN h :
           /\ i \in Nat /\ i >= 1 /\ sp[i] \in Seq(Letters)
           /\ h[i].next \in DOMAIN h \cup {0} /\ h[i].follow \in DOMAIN h \cup {0}
           /\ i # Root => up[i] \in DOMAIN h /\ IsSon(h, up, i, up[i])
  BY GrownFacts DEF Grown
<1>2. PICK m : m = Len(h) + 1 /\ m \in Nat /\ m \notin DOMAIN h /\ m # Root /\ m # 0
  BY <1>1 DEF Root
<1>3. PICK q \in DOMAIN h : q = up[n] /\ IsSon(h, up, n, q) /\ q # n
  BY <1>1, SonFacts
<1>4. PICK v \in Seq(Letters) :
        /\ v = SubSeq(sp[n], 1, Len(sp[up[n]]) + k)
        /\ GoesOn(sp[q], SubSeq(h[n].radix, 1, k), v)
        /\ GoesOn(v, Rest(h[n].radix, k), sp[n])
        /\ SubSeq(h[n].radix, 1, k)[1] = h[n].radix[1]
  <2>1. /\ sp[q] \in Seq(Letters) /\ sp[n] \in Seq(Letters) /\ h[n].radix \in Seq(Letters)
        /\ GoesOn(sp[q], h[n].radix, sp[n])
    BY <1>3, SonFacts
  <2>2. Parts(sp[q], h[n].radix, k, SubSeq(sp[n], 1, Len(sp[q]) + k), sp[n])
    BY <2>1, PartsGoOn
  <2>3. QED
    BY <1>3, <2>2 DEF Parts
<1>5. DOMAIN g = 1 .. m /\ DOMAIN h \subseteq DOMAIN g /\ DOMAIN g = DOMAIN h \cup {m}
      /\ Root \in DOMAIN g /\ n \in DOMAIN g /\ m \in DOMAIN g
  <2>1. Len(g) = m /\ DOMAIN g = 1 .. m
    BY <1>2, LenProperties DEF IsSplit
  <2>2. QED
    BY <1>1, <1>2, <2>1
<1>6. /\ \A i \in DOMAIN h : i # n => g[i] = h[i]
      /\ g[n].radix = SubSeq(h[n].radix, 1, k) /\ g[n].next = h[n].next /\ g[n].follow = m
      /\ g[m].radix = Rest(h[n].radix, k) /\ g[m].next = 0 /\ g[m].follow = h[n].follow
  BY <1>2 DEF IsSplit
<1>7. PICK up2 : up2 = UpSplit(h, up, n)
  OBVIOUS
<1>8. /\ up2[m] = n
      /\ \A i \in DOMAIN h : i # Root => up2[i] = IF up[i] = n THEN m ELSE up[i]
  BY <1>1, <1>2, <1>7 DEF UpSplit
<1>9. PICK sp2 : sp2 = SpelledSplit(h, sp, n, v)
  OBVIOUS
<1>10. sp2[m] = sp[n] /\ sp2[n] = v /\ \A i \in DOMAIN h : i # n => sp2[i] = sp[i]
  BY <1>1, <1>2, <1>9 DEF SpelledSplit
<1>11. Linked(g, up2)
  <2>1. \A i \in DOMAIN g : i # Root => up2[i] \in DOMAIN g
    BY <1>1, <1>5, <1>8
  <2>2. ASSUME NEW i \in DOMAIN g, g[i].follow # 0 PROVE IsSon(g, up2, g[i].follow, i)
    <3>1. CASE i = n
      BY <1>2, <1>5, <1>6, <1>8, <3>1 DEF IsSon
    <3>2. CASE i = m
      <4>1. IsSon(h, up, h[n].follow, n) /\ g[m].follow = h[n].follow
        BY <1>6, <2>2, <3>2 DEF Grown, Linked
      <4>2. QED
        BY <1>5, <1>8, <3>2, <4>1 DEF IsSon
    <3>3. CASE i # n /\ i # m
      <4>1. i \in DOMAIN h /\ g[i].follow = h[i].follow
        BY <1>5, <1>6, <3>3
      <4>2. IsSon(h, up, h[i].follow, i)
        BY <2>2, <4>1 DEF Grown, Linked
      <4>3. QED
        BY <1>5, <1>8, <3>3, <4>1, <4>2 DEF IsSon
    <3>4. QED
      BY <3>1, <3>2, <3>3
  <2>3. ASSUME NEW i \in DOMAIN g, g[i].next # 0
        PROVE  i # Root /\ g[i].next < i /\ IsSon(g, up2, g[i].next, up2[i])
    <3>1. i \in DOMAIN h /\ g[i].next = h[i].next
      BY <1>5, <1>6, <2>3
    <3>2. i # Root /\ h[i].next < i /\ IsSon(h, up, h[i].next, up[i])
      BY <2>3, <3>1 DEF Grown, Linked
    <3>3. QED
      BY <1>5, <1>8, <3>1, <3>2 DEF IsSon
  <2>4. ASSUME NEW c \in DOMAIN g, NEW p \in DOMAIN g, IsSon(g, up2, c, p)
        PROVE  c <= g[p].follow
    <3>1. CASE c = m
      BY <1>2, <1>6, <1>8, <2>4, <3>1 DEF IsSon
    <3>2. CASE c # m /\ p = m
      <4>1. c \in DOMAIN h /\ c # Root /\ up[c] = n
        BY <1>1, <1>2, <1>5, <1>8, <2>4, <3>2 DEF IsSon
      <4>2. c <= h[n].follow
        BY <4>1 DEF Grown, Linked, IsSon
      <4>3. QED
        BY <1>6, <3>2, <4>2
    <3>3. CASE c # m /\ p # m
      <4>1. c \in DOMAIN h /\ c # Root /\ up[c] = p /\ p # n /\ p \in DOMAIN h
        BY <1>5, <1>8, <2>4, <3>3 DEF IsSon
      <4>2. c <= h[p].follow
        BY <4>1 DEF Grown, Linked, IsSon
      <4>3. QED
        BY <1>6, <4>1, <4>2
    <3>4. QED
      BY <3>1, <3>2, <3>3
  <2>5. ASSUME NEW c \in DOMAIN g, NEW d \in DOMAIN g, c # Root, d # Root, up2[c] = up2[d], c < d
        PROVE  c <= g[d].next
    <3>1. c # m /\ c \in DOMAIN h
      BY <1>1, <1>2, <1>5, <2>5
    <3>2. d # m
      BY <1>2, <1>3, <1>8, <2>5, <3>1
    <3>3. d \in DOMAIN h /\ up[c] = up[d]
      BY <1>1, <1>2, <1>5, <1>8, <2>5, <3>1, <3>2
    <3>4. c <= h[d].next
      BY <2>5, <3>1, <3>3 DEF Grown, Linked
    <3>5. QED
      BY <1>6, <3>3, <3>4
  <2>6. QED
    BY <2>1, <2>2, <2>3, <2>4, <2>5 DEF Linked
<1>12. Spelled(g, up2, sp2)
  <2>1. \A i \in DOMAIN g : sp2[i] \in Seq(Letters)
    BY <1>1, <1>5, <1>10
  <2>2. sp2[Root] = <<>>
    BY <1>1, <1>10 DEF Grown, Spelled
  <2>3. ASSUME NEW i \in DOMAIN g, i # Root PROVE GoesOn(sp2[up2[i]], g[i].radix, sp2[i])
    <3>1. CASE i = m
      BY <1>4, <1>6, <1>8, <1>10, <3>1, ZenonT(40)
    <3>2. CASE i = n
      <4>1. up2[n] = q /\ sp2[q] = sp[q]
        BY <1>3, <1>8, <1>10, <3>2, <2>3
      <4>2. QED
        BY <1>4, <1>6, <1>10, <3>2, <4>1
    <3>3. CASE i # n /\ i # m
      <4>1. i \in DOMAIN h /\ g[i].radix = h[i].radix /\ sp2[i] = sp[i]
        BY <1>5, <1>6, <1>10, <3>3
      <4>2. GoesOn(sp[up[i]], h[i].radix, sp[i]) /\ up[i] \in DOMAIN h
        BY <1>1, <2>3, <4>1 DEF Grown, Spelled
      <4>3. sp2[up2[i]] = sp[up[i]]
        BY <1>2, <1>8, <1>10, <2>3, <4>1, <4>2
      <4>4. QED
        BY <4>1, <4>2, <4>3
    <3>4. QED
      BY <3>1, <3>2, <3>3
  <2>4. ASSUME NEW c \in DOMAIN g, NEW d \in DOMAIN g, c # Root, d # Root, up2[c] = up2[d],
               g[c].radix[1] = g[d].radix[1]
        PROVE  c = d
    <3>1. ASSUME NEW i \in DOMAIN h, i # Root
          PROVE  up2[i] # n /\ g[i].radix[1] = h[i].radix[1]
      BY <1>2, <1>3, <1>4, <1>6, <1>8, <3>1
    <3>2. CASE c = m \/ d = m
      BY <1>5, <1>8, <2>4, <3>1, <3>2
    <3>3. CASE c # m /\ d # m
      <4>1. c \in DOMAIN h /\ d \in DOMAIN h
        BY <1>5, <3>3
      <4>2. up[c] = up[d]
        BY <1>1, <1>2, <1>8, <2>4, <4>1
      <4>3. h[c].radix[1] = h[d].radix[1]
        BY <2>4, <3>1, <4>1
      <4>4. QED
        BY <2>4, <4>1, <4>2, <4>3 DEF Grown, Spelled
    <3>4. QED
      BY <3>2, <3>3
  <2>5. QED
    BY <2>1, <2>2, <2>3, <2>4 DEF Spelled
<1>13. g \in Seq(TrieNodes) /\ Len(g) >= 1 /\ g[Root].leaf
  <2>1. g[Root] = h[Root] /\ h[Root].leaf
    BY <1>1, <1>6 DEF Grown
  <2>2. g \in Seq(TrieNodes) /\ Len(g) = m
    BY <1>2 DEF IsSplit
  <2>3. QED
    BY <1>1, <1>2, <2>1, <2>2
<1>14. QED
  BY <1>4, <1>7, <1>9, <1>11, <1>12, <1>13 DEF Grown

\* What is over what, and what spells what, after a node is added under n to spell w.
UpAdded(h, up, n) == [i \in 1 .. Len(h) + 1 |-> IF i = Len(h) + 1 THEN n ELSE up[i]]
SpelledAdded(h, sp, w) == [i \in 1 .. Len(h) + 1 |-> IF i = Len(h) + 1 THEN w ELSE sp[i]]

IsAdded(h, n, t, g) ==
  LET m == Len(h) + 1 IN
  /\ g \in Seq(TrieNodes) /\ Len(g) = m
  /\ \A i \in DOMAIN h :
       /\ i # n => g[i] = h[i]
       /\ g[i].radix = h[i].radix /\ g[i].leaf = h[i].leaf /\ g[i].next = h[i].next
  /\ g[n].follow = m
  /\ g[m].radix = t /\ g[m].leaf /\ g[m].next = h[n].follow /\ g[m].follow = 0

LEMMA AddGrows ==
  ASSUME NEW h, NEW up, NEW sp, Grown(h, up, sp), NEW n \in DOMAIN h,
         NEW t, NEW w \in Seq(Letters), GoesOn(sp[n], t, w),
         \A d \in DOMAIN h : IsSon(h, up, d, n) => h[d].radix[1] # t[1],
         NEW g, IsAdded(h, n, t, g)
  PROVE  Grown(g, UpAdded(h, up, n), SpelledAdded(h, sp, w))
<1>1. /\ DOMAIN h = 1 .. Len(h) /\ Len(h) \in Nat /\ Len(h) >= 1 /\ Root \in DOMAIN h
      /\ \A i \in DOMAIN h :
           /\ i \in Nat /\ i >= 1 /\ sp[i] \in Seq(Letters)
           /\ h[i].next \in DOMAIN h \cup {0} /\ h[i].follow \in DOMAIN h \cup {0}
           /\ i # Root => up[i] \in DOMAIN h /\ IsSon(h, up, i, up[i])
  BY GrownFacts DEF Grown
<1>2. PICK m : m = Len(h) + 1 /\ m \in Nat /\ m \notin DOMAIN h /\ m # Root /\ m # 0
               /\ \A i \in DOMAIN h : i < m
  BY <1>1 DEF Root
<1>3. DOMAIN g = DOMAIN h \cup {m} /\ Root \in DOMAIN g /\ n \in DOMAIN g /\ m \in DOMAIN g
  <2>1. Len(g) = m /\ DOMAIN g = 1 .. m
    BY <1>2, LenProperties DEF IsAdded
  <2>2. QED
    BY <1>1, <1>2, <2>1
<1>4. /\ \A i \in DOMAIN h :
           /\ i # n => g[i].follow = h[i].follow
           /\ g[i].radix = h[i].radix /\ g[i].leaf = h[i].leaf /\ g[i].next = h[i].next
      /\ g[n].follow = m
      /\ g[m].radix = t /\ g[m].next = h[n].follow /\ g[m].follow = 0
  BY <1>2 DEF IsAdded
<1>5. PICK up2 : up2 = UpAdded(h, up, n)
  OBVIOUS
<1>6. up2[m] = n /\ \A i \in DOMAIN h : up2[i] = up[i]
  BY <1>1, <1>2, <1>5 DEF UpAdded
<1>7. PICK sp2 : sp2 = SpelledAdded(h, sp, w)
  OBVIOUS
<1>8. sp2[m] = w /\ \A i \in DOMAIN h : sp2[i] = sp[i]
  BY <1>1, <1>2, <1>7 DEF SpelledAdded
<1>9. Linked(g, up2)
  <2>1. \A i \in DOMAIN g : i # Root => up2[i] \in DOMAIN g
    BY <1>1, <1>3, <1>6
  <2>2. ASSUME NEW i \in DOMAIN g, g[i].follow # 0 PROVE IsSon(g, up2, g[i].follow, i)
    <3>1. CASE i = n
      BY <1>2, <1>3, <1>4, <1>6, <3>1 DEF IsSon
    <3>2. CASE i = m
      BY <1>4, <2>2, <3>2
    <3>3. CASE i # n /\ i # m
      <4>1. i \in DOMAIN h /\ g[i].follow = h[i].follow
        BY <1>3, <1>4, <3>3
      <4>2. IsSon(h, up, h[i].follow, i)
        BY <2>2, <4>1 DEF Grown, Linked
      <4>3. QED
        BY <1>3, <1>6, <4>1, <4>2 DEF IsSon
    <3>4. QED
      BY <3>1, <3>2, <3>3
  <2>3. ASSUME NEW i \in DOMAIN g, g[i].next # 0
        PROVE  i # Root /\ g[i].next < i /\ IsSon(g, up2, g[i].next, up2[i])
    <3>1. CASE i = m
      <4>1. IsSon(h, up, h[n].follow, n) /\ g[m].next = h[n].follow
        BY <1>4, <2>3, <3>1 DEF Grown, Linked
      <4>2. QED
        BY <1>2, <1>3, <1>6, <3>1, <4>1 DEF IsSon
    <3>2. CASE i # m
      <4>1. i \in DOMAIN h /\ g[i].next = h[i].next
        BY <1>3, <1>4, <3>2
      <4>2. i # Root /\ h[i].next < i /\ IsSon(h, up, h[i].next, up[i])
        BY <2>3, <4>1 DEF Grown, Linked
      <4>3. QED
        BY <1>3, <1>6, <4>1, <4>2 DEF IsSon
    <3>3. QED
      BY <3>1, <3>2
  <2>4. ASSUME NEW c \in DOMAIN g, NEW p \in DOMAIN g, IsSon(g, up2, c, p)
        PROVE  c <= g[p].follow
    <3>1. CASE c = m
      BY <1>2, <1>4, <1>6, <2>4, <3>1 DEF IsSon
    <3>2. CASE c # m
      <4>1. c \in DOMAIN h /\ c # Root /\ up[c] = p /\ p \in DOMAIN h
        BY <1>1, <1>3, <1>6, <2>4, <3>2 DEF IsSon
      <4>2. c <= h[p].follow
        BY <4>1 DEF Grown, Linked, IsSon
      <4>3. QED
        BY <1>1, <1>2, <1>4, <4>1, <4>2
    <3>3. QED
      BY <3>1, <3>2
  <2>5. ASSUME NEW c \in DOMAIN g, NEW d \in DOMAIN g, c # Root, d # Root, up2[c] = up2[d], c < d
        PROVE  c <= g[d].next
    <3>1. c \in DOMAIN h
      BY <1>1, <1>2, <1>3, <2>5
    <3>2. CASE d = m
      <4>1. up[c] = n
        BY <1>6, <2>5, <3>1, <3>2
      <4>2. c <= h[n].follow
        BY <2>5, <3>1, <4>1 DEF Grown, Linked, IsSon
      <4>3. QED
        BY <1>4, <3>2, <4>2
    <3>3. CASE d # m
      <4>1. d \in DOMAIN h /\ up[c] = up[d]
        BY <1>3, <1>6, <2>5, <3>1, <3>3
      <4>2. c <= h[d].next
        BY <2>5, <3>1, <4>1 DEF Grown, Linked
      <4>3. QED
        BY <1>4, <4>1, <4>2
    <3>4. QED
      BY <3>2, <3>3
  <2>6. QED
    BY <2>1, <2>2, <2>3, <2>4, <2>5 DEF Linked
<1>10. Spelled(g, up2, sp2)
  <2>1. \A i \in DOMAIN g : sp2[i] \in Seq(Letters)
    BY <1>1, <1>3, <1>8
  <2>2. sp2[Root] = <<>>
    BY <1>1, <1>8 DEF Grown, Spelled
  <2>3. ASSUME NEW i \in DOMAIN g, i # Root PROVE GoesOn(sp2[up2[i]], g[i].radix, sp2[i])
    <3>1. CASE i = m
      BY <1>4, <1>6, <1>8, <3>1
    <3>2. CASE i # m
      <4>1. i \in DOMAIN h /\ g[i].radix = h[i].radix /\ sp2[i] = sp[i] /\ up2[i] = up[i]
        BY <1>3, <1>4, <1>6, <1>8, <3>2
      <4>2. GoesOn(sp[up[i]], h[i].radix, sp[i]) /\ up[i] \in DOMAIN h
        BY <1>1, <2>3, <4>1 DEF Grown, Spelled
      <4>3. QED
        BY <1>8, <4>1, <4>2
    <3>3. QED
      BY <3>1, <3>2
  <2>4. ASSUME NEW c \in DOMAIN g, NEW d \in DOMAIN g, c # Root, d # Root, up2[c] = up2[d],
               g[c].radix[1] = g[d].radix[1]
        PROVE  c = d
    <3>1. ASSUME NEW i \in DOMAIN h, i # Root, up2[i] = n PROVE g[i].radix[1] # t[1]
      BY <1>4, <1>6, <3>1 DEF IsSon
    <3>2. CASE c = m \/ d = m
      BY <1>3, <1>4, <1>6, <2>4, <3>1, <3>2
    <3>3. CASE c # m /\ d # m
      <4>1. c \in DOMAIN h /\ d \in DOMAIN h
        BY <1>3, <3>3
      <4>2. up[c] = up[d] /\ h[c].radix[1] = h[d].radix[1]
        BY <1>4, <1>6, <2>4, <4>1
      <4>3. QED
        BY <2>4, <4>1, <4>2 DEF Grown, Spelled
    <3>4. QED
      BY <3>2, <3>3
  <2>5. QED
    BY <2>1, <2>2, <2>3, <2>4 DEF Spelled
<1>11. g \in Seq(TrieNodes) /\ Len(g) >= 1 /\ g[Root].leaf
  <2>1. g[Root].leaf
    BY <1>1, <1>4 DEF Grown
  <2>2. g \in Seq(TrieNodes) /\ Len(g) = m
    BY <1>2 DEF IsAdded
  <2>3. QED
    BY <1>1, <1>2, <2>1, <2>2
<1>12. QED
  BY <1>5, <1>7, <1>9, <1>10, <1>11 DEF Grown

\* trie_new gives a tree.
LEMMA NewTrie ==
  LET h == << Node(<<>>, TRUE, 0, 0) >>
  IN DOMAIN h = {Root} /\ Len(h) = 1 /\ Grown(h, [i \in 1 .. 1 |-> 0], [i \in 1 .. 1 |-> <<>>])
<1>1. PICK r : r = Node(<<>>, TRUE, 0, 0)
  OBVIOUS
<1>2. r \in TrieNodes /\ r.leaf = TRUE /\ r.next = 0 /\ r.follow = 0
  BY <1>1 DEF Node, TrieNodes
<1>3. PICK h : h = << r >>
  OBVIOUS
<1>4. h \in Seq(TrieNodes) /\ Len(h) = 1 /\ DOMAIN h = {1} /\ h[1] = r
  BY <1>2, <1>3
<1>5. PICK up : up = [i \in 1 .. 1 |-> 0]
  OBVIOUS
<1>6. PICK sp : sp = [i \in 1 .. 1 |-> <<>>]
  OBVIOUS
<1>7. Linked(h, up)
  BY <1>2, <1>4 DEF Linked, IsSon, Root
<1>8. Spelled(h, up, sp)
  <2>1. sp[1] = <<>> /\ <<>> \in Seq(Letters)
    BY <1>6
  <2>2. QED
    BY <1>4, <2>1 DEF Spelled, Root
<1>9. Grown(h, up, sp)
  BY <1>2, <1>4, <1>7, <1>8 DEF Grown, Root
<1>10. QED
  BY <1>1, <1>3, <1>4, <1>5, <1>6, <1>9 DEF Root

-----------------------------------------------------------------------------
(***************************************************************************)
(* The walk.  prev spells what has been walked of the word, s is what is   *)
(* left of it, and no child passed begins like what is left.               *)
(***************************************************************************)
Left(u, w, t) == Begins(u, w) /\ Len(t) = Len(w) - Len(u) /\ \A i \in 1 .. Len(t) : t[i] = w[Len(u) + i]

NonePassed(h, up, t, c, p) ==
  t # <<>> => \A d \in DOMAIN h : IsSon(h, up, d, p) /\ h[d].radix[1] = t[1] => d <= c

WalkRight(h, up, sp, w, t, c, p) ==
  /\ Left(sp[p], w, t)
  /\ c # 0 => IsSon(h, up, c, p)
  /\ NonePassed(h, up, t, c, p)

\* k letters of r, which goes on from u to x, are walked; v is u with them.
LEMMA WalkOn ==
  ASSUME NEW u \in Seq(Letters), NEW w \in Seq(Letters), NEW t \in Seq(Letters), Left(u, w, t),
         NEW r \in Seq(Letters), NEW x \in Seq(Letters), GoesOn(u, r, x),
         NEW k \in Nat, k <= Len(r), k <= Len(t), \A i \in 1 .. k : r[i] = t[i],
         NEW v \in Seq(Letters), Len(v) = Len(u) + k, Begins(v, x)
  PROVE  Rest(t, k) \in Seq(Letters) /\ Left(v, w, Rest(t, k))
<1>1. PICK lu \in Nat : lu = Len(u)
  BY LenProperties
<1>2. PICK lt \in Nat : lt = Len(t)
  BY LenProperties
<1>3. PICK lr \in Nat : lr = Len(r)
  BY LenProperties
<1>4. PICK lw \in Nat : lw = Len(w) /\ lw = lu + lt
  BY <1>1, <1>2, LenProperties DEF Left
<1>5. /\ \A i \in 1 .. lu : u[i] = w[i]
      /\ \A i \in 1 .. lt : t[i] = w[lu + i]
      /\ \A i \in 1 .. lu : u[i] = x[i]
      /\ \A i \in 1 .. lr : r[i] = x[lu + i]
      /\ \A i \in 1 .. lu + k : v[i] = x[i]
      /\ Len(v) = lu + k
  BY <1>1, <1>2, <1>3 DEF Left, GoesOn, Begins
<1>6. Begins(v, w)
  <2>1. lu + k <= lw
    BY <1>2, <1>4
  <2>2. ASSUME NEW i \in 1 .. lu + k PROVE v[i] = w[i]
    <3>1. CASE i <= lu
      BY <1>5, <3>1
    <3>2. CASE i > lu
      <4>1. PICK j \in 1 .. k : i = lu + j
        <5>1. i - lu \in 1 .. k /\ i = lu + (i - lu)
          BY <3>2
        <5>2. QED
          BY <5>1
      <4>2. j \in 1 .. lr /\ j \in 1 .. lt
        BY <1>2, <1>3
      <4>3. QED
        BY <1>5, <4>1, <4>2
    <3>3. QED
      BY <3>1, <3>2
  <2>3. QED
    BY <1>4, <1>5, <2>1, <2>2 DEF Begins
<1>7. PICK z : z = Rest(t, k)
  OBVIOUS
<1>8. z \in Seq(Letters) /\ Len(z) = lt - k /\ \A i \in 1 .. lt - k : z[i] = t[k + i]
  <2>1. k \in 0 .. Len(t)
    BY <1>2
  <2>2. z \in Seq(Letters) /\ Len(z) = Len(t) - k /\ \A i \in 1 .. Len(t) - k : z[i] = t[k + i]
    BY <1>7, <2>1, RestFacts
  <2>3. QED
    BY <1>2, <2>2
<1>9. ASSUME NEW i \in 1 .. lt - k PROVE z[i] = w[(lu + k) + i]
  <2>1. k + i \in 1 .. lt /\ lu + (k + i) = (lu + k) + i
    BY <1>2
  <2>2. QED
    BY <1>5, <1>8, <2>1
<1>10. lt - k = lw - (lu + k)
  BY <1>4
<1>11. Left(v, w, z)
  BY <1>4, <1>5, <1>6, <1>8, <1>9, <1>10 DEF Left
<1>12. QED
  BY <1>7, <1>8, <1>11

\* The node looked at shares the first k letters of its radix with what is left.
Shared(h, t, c, k) ==
  /\ k = InCommon(h[c].radix, t)
  /\ k \in Nat /\ k <= Len(h[c].radix) /\ k <= Len(t)
  /\ \A i \in 1 .. k : h[c].radix[i] = t[i]
  /\ k < Len(h[c].radix) /\ k < Len(t) => h[c].radix[k + 1] # t[k + 1]

LEMMA WalkTurn ==
  ASSUME NEW h, NEW up, NEW sp, Grown(h, up, sp), NEW w \in Seq(Letters),
         NEW t \in Seq(Letters), NEW c, c # 0, NEW p, WalkRight(h, up, sp, w, t, c, p)
  PROVE  \E k : Shared(h, t, c, k)
<1>1. PICK r \in Seq(Letters) : r = h[c].radix
  BY SonFacts DEF WalkRight
<1>2. PICK k : k = InCommon(r, t)
  OBVIOUS
<1>3. /\ k \in Nat /\ k <= Len(r) /\ k <= Len(t)
      /\ \A i \in 1 .. k : r[i] = t[i]
      /\ k < Len(r) /\ k < Len(t) => r[k + 1] # t[k + 1]
  BY <1>2, InCommonFacts
<1>4. QED
  BY <1>1, <1>2, <1>3 DEF Shared

LEMMA WalkStarts ==
  ASSUME NEW h, NEW up, NEW sp, Grown(h, up, sp), NEW w \in Seq(Letters)
  PROVE  WalkRight(h, up, sp, w, w, h[Root].follow, Root)
<1>1. Root \in DOMAIN h /\ Len(sp[Root]) = 0
  BY GrownFacts
<1>2. Len(w) \in Nat
  BY LenProperties
<1>3. Left(sp[Root], w, w)
  BY <1>1, <1>2 DEF Left, Begins
<1>4. h[Root].follow # 0 => IsSon(h, up, h[Root].follow, Root)
  BY <1>1 DEF Grown, Linked
<1>5. \A d : IsSon(h, up, d, Root) => d <= h[Root].follow
  BY SonFacts
<1>6. QED
  BY <1>3, <1>4, <1>5 DEF WalkRight, NonePassed

LEMMA WalkSideways ==
  ASSUME NEW h, NEW up, NEW sp, Grown(h, up, sp), NEW w \in Seq(Letters),
         NEW t \in Seq(Letters), t # <<>>, NEW c, c # 0, NEW p, WalkRight(h, up, sp, w, t, c, p),
         Shared(h, t, c, 0)
  PROVE  WalkRight(h, up, sp, w, t, h[c].next, p)
<1>1. /\ IsSon(h, up, c, p) /\ c \in DOMAIN h /\ c # Root /\ up[c] = p
      /\ Len(h[c].radix) \in Nat /\ Len(h[c].radix) >= 1
  BY SonFacts DEF WalkRight
<1>2. h[c].radix[1] # t[1]
  <2>1. Len(t) \in Nat /\ Len(t) # 0
    BY LenProperties, EmptySeq
  <2>2. 0 < Len(t) /\ 0 < Len(h[c].radix) /\ 0 + 1 = 1
    BY <1>1, <2>1
  <2>3. QED
    BY <2>2 DEF Shared
<1>3. h[c].next # 0 => IsSon(h, up, h[c].next, p)
  BY <1>1 DEF Grown, Linked
<1>4. ASSUME NEW d \in DOMAIN h, IsSon(h, up, d, p), h[d].radix[1] = t[1]
      PROVE  d <= h[c].next
  <2>1. d <= c /\ d # c
    BY <1>2, <1>4 DEF WalkRight, NonePassed
  <2>2. d \in Nat /\ c \in Nat
    BY <1>1, GrownFacts
  <2>3. d < c /\ d # Root /\ up[d] = p
    BY <1>4, <2>1, <2>2 DEF IsSon
  <2>4. QED
    BY <1>1, <2>3 DEF Grown, Linked
<1>5. QED
  BY <1>3, <1>4 DEF WalkRight, NonePassed

LEMMA WalkDown ==
  ASSUME NEW h, NEW up, NEW sp, Grown(h, up, sp), NEW w \in Seq(Letters),
         NEW t \in Seq(Letters), NEW c, c # 0, NEW p, WalkRight(h, up, sp, w, t, c, p),
         NEW k, Shared(h, t, c, k), k = Len(h[c].radix)
  PROVE  /\ Rest(t, k) \in Seq(Letters) /\ c \in DOMAIN h
         /\ WalkRight(h, up, sp, w, Rest(t, k), h[c].follow, c)
<1>1. IsSon(h, up, c, p)
  BY DEF WalkRight
<1>2. /\ c \in DOMAIN h /\ sp[p] \in Seq(Letters) /\ sp[c] \in Seq(Letters)
      /\ GoesOn(sp[p], h[c].radix, sp[c]) /\ h[c].radix \in Seq(Letters)
      /\ Len(sp[p]) \in Nat /\ Len(sp[c]) \in Nat
  BY <1>1, SonFacts
<1>3. k \in Nat /\ k <= Len(h[c].radix) /\ k <= Len(t) /\ \A i \in 1 .. k : h[c].radix[i] = t[i]
  BY DEF Shared
<1>4. Len(sp[c]) = Len(sp[p]) + k /\ Begins(sp[c], sp[c])
  BY <1>2, <1>3, BeginsFacts DEF GoesOn
<1>5. Left(sp[p], w, t)
  BY DEF WalkRight
<1>6. Rest(t, k) \in Seq(Letters) /\ Left(sp[c], w, Rest(t, k))
  BY <1>2, <1>3, <1>4, <1>5, WalkOn
<1>7. h[c].follow # 0 => IsSon(h, up, h[c].follow, c)
  BY <1>2 DEF Grown, Linked
<1>8. \A d : IsSon(h, up, d, c) => d <= h[c].follow
  BY SonFacts
<1>9. QED
  BY <1>2, <1>6, <1>7, <1>8 DEF WalkRight, NonePassed

LEMMA WalkSplits ==
  ASSUME NEW h, NEW up, NEW sp, Grown(h, up, sp), NEW w \in Seq(Letters),
         NEW t \in Seq(Letters), NEW c, c # 0, NEW p, WalkRight(h, up, sp, w, t, c, p),
         NEW k, Shared(h, t, c, k), k # 0, k < Len(h[c].radix), NEW g, IsSplit(h, c, k, g)
  PROVE  LET v == SubSeq(sp[c], 1, Len(sp[up[c]]) + k) IN
         /\ Rest(t, k) \in Seq(Letters) /\ c \in DOMAIN h /\ c # Root
         /\ v \in Seq(Letters) /\ Begins(v, sp[c]) /\ Len(v) < Len(sp[c])
         /\ WalkRight(g, UpSplit(h, up, c), SpelledSplit(h, sp, c, v), w, Rest(t, k), 0, c)
<1>1. IsSon(h, up, c, p)
  BY DEF WalkRight
<1>2. /\ c \in DOMAIN h /\ c # Root /\ up[c] = p /\ sp[p] \in Seq(Letters) /\ sp[c] \in Seq(Letters)
      /\ GoesOn(sp[p], h[c].radix, sp[c]) /\ h[c].radix \in Seq(Letters)
      /\ Len(h[c].radix) \in Nat
  BY <1>1, SonFacts
<1>3. /\ k \in Nat /\ k >= 1 /\ k <= Len(h[c].radix) /\ k <= Len(t)
      /\ \A i \in 1 .. k : h[c].radix[i] = t[i]
      /\ k < Len(t) => h[c].radix[k + 1] # t[k + 1]
  BY DEF Shared
<1>4. PICK v : v = SubSeq(sp[c], 1, Len(sp[up[c]]) + k)
  OBVIOUS
<1>5. v \in Seq(Letters) /\ Len(v) = Len(sp[p]) + k /\ Begins(v, sp[c]) /\ Len(v) < Len(sp[c])
  <2>1. Parts(sp[p], h[c].radix, k, SubSeq(sp[c], 1, Len(sp[p]) + k), sp[c])
    BY <1>2, <1>3, PartsGoOn
  <2>2. QED
    BY <1>2, <1>4, <2>1 DEF Parts
<1>6. Left(sp[p], w, t)
  BY DEF WalkRight
<1>7. PICK z : z = Rest(t, k)
  OBVIOUS
<1>8. z \in Seq(Letters) /\ Left(v, w, z)
  BY <1>2, <1>3, <1>5, <1>6, <1>7, WalkOn
<1>9. PICK up2 : up2 = UpSplit(h, up, c)
  OBVIOUS
<1>10. PICK sp2 : sp2 = SpelledSplit(h, sp, c, v)
  OBVIOUS
<1>11. PICK m \in Nat : m = Len(h) + 1 /\ m \notin DOMAIN h /\ DOMAIN h = 1 .. Len(h) /\ Len(h) \in Nat
                        /\ \A i \in DOMAIN h : i # Root => up[i] \in DOMAIN h
  <2>1. /\ DOMAIN h = 1 .. Len(h) /\ Len(h) \in Nat
        /\ \A i \in DOMAIN h : i # Root => up[i] \in DOMAIN h
    BY GrownFacts
  <2>2. QED
    BY <2>1
<1>12. sp2[c] = v
  BY <1>2, <1>10, <1>11 DEF SpelledSplit
<1>13. NonePassed(g, up2, z, 0, c)
  <2>1. SUFFICES ASSUME z # <<>>, NEW d \in DOMAIN g, IsSon(g, up2, d, c), g[d].radix[1] = z[1]
                 PROVE  FALSE
    BY DEF NonePassed
  <2>2. d = m
    <3>1. DOMAIN g = DOMAIN h \cup {m}
      <4>1. Len(g) = m /\ DOMAIN g = 1 .. m
        BY <1>11, LenProperties DEF IsSplit
      <4>2. QED
        BY <1>11, <4>1
    <3>2. \A i \in DOMAIN h : i # Root => up2[i] # c
      BY <1>2, <1>9, <1>11 DEF UpSplit
    <3>3. QED
      BY <2>1, <3>1, <3>2 DEF IsSon
  <2>3. g[m].radix = Rest(h[c].radix, k)
    BY <1>11 DEF IsSplit
  <2>4. Rest(h[c].radix, k)[1] = h[c].radix[k + 1]
    <3>1. k \in 0 .. Len(h[c].radix) /\ 1 \in 1 .. Len(h[c].radix) - k
      BY <1>2, <1>3
    <3>2. QED
      BY <1>2, <3>1, RestFacts
  <2>5. Len(t) \in Nat /\ Len(z) # 0
    BY <1>8, <2>1, LenProperties, EmptySeq
  <2>6. k < Len(t) /\ z[1] = t[k + 1]
    <3>1. k \in 0 .. Len(t)
      BY <1>3, <2>5
    <3>2. Len(z) = Len(t) - k /\ \A i \in 1 .. Len(t) - k : z[i] = t[k + i]
      BY <1>7, <3>1, RestFacts
    <3>3. k < Len(t) /\ 1 \in 1 .. Len(t) - k
      BY <1>3, <2>5, <3>2
    <3>4. QED
      BY <3>2, <3>3
  <2>7. QED
    BY <1>3, <2>1, <2>2, <2>3, <2>4, <2>6
<1>14. QED
  BY <1>2, <1>4, <1>5, <1>7, <1>8, <1>9, <1>10, <1>12, <1>13 DEF WalkRight

-----------------------------------------------------------------------------
(***************************************************************************)
(* The words.  Of those inserted into the trie h, the first done are in    *)
(* it.  A node spells a beginning of one of them, which goes on if no word *)
(* ends at the node; a mark is at the end of a word inserted; and a word   *)
(* is marked unless it began one inserted earlier.                         *)
(***************************************************************************)
Promised(h, sp, ins, done) ==
  \A n \in DOMAIN h : n # Root =>
    \E j \in 1 .. done : Begins(sp[n], ins[j]) /\ (h[n].leaf \/ Len(sp[n]) < Len(ins[j]))

Ended(h, sp, ins) ==
  \A n \in DOMAIN h : n # Root /\ h[n].leaf => \E j \in DOMAIN ins : sp[n] = ins[j]

KeptOf(h, sp, ins, k) ==
  \/ Marked(h, sp, ins[k])
  \/ \E j \in 1 .. k - 1 : Len(ins[k]) < Len(ins[j]) /\ Begins(ins[k], ins[j])

Backed(h, sp, ins, done) ==
  Promised(h, sp, ins, done) /\ Ended(h, sp, ins) /\ \A k \in 1 .. done : KeptOf(h, sp, ins, k)

MarksKept(h, sp, g, sp2) == \A w : Marked(h, sp, w) => Marked(g, sp2, w)

\* The next word is inserted; nothing of it is in the trie.
LEMMA NextBacks ==
  ASSUME NEW h, NEW sp, NEW ins \in Seq(Words), NEW w \in Words, Backed(h, sp, ins, Len(ins))
  PROVE  Backed(h, sp, Append(ins, w), Len(ins))
<1>1. Len(ins) \in Nat /\ DOMAIN ins = 1 .. Len(ins)
  BY LenProperties
<1>2. PICK ins2 : /\ ins2 = Append(ins, w) /\ DOMAIN ins \subseteq DOMAIN ins2
                  /\ \A j \in 1 .. Len(ins) : ins2[j] = ins[j]
  <2>1. DOMAIN Append(ins, w) = 1 .. Len(ins) + 1 /\ \A j \in 1 .. Len(ins) : Append(ins, w)[j] = ins[j]
    BY AppendFacts
  <2>2. 1 .. Len(ins) \subseteq 1 .. Len(ins) + 1
    BY <1>1
  <2>3. QED
    BY <1>1, <2>1, <2>2
<1>3. ASSUME NEW k \in 1 .. Len(ins) PROVE KeptOf(h, sp, ins2, k)
  <2>1. KeptOf(h, sp, ins, k)
    BY <1>3 DEF Backed
  <2>2. ins2[k] = ins[k] /\ \A j \in 1 .. k - 1 : ins2[j] = ins[j]
    BY <1>1, <1>2
  <2>3. QED
    BY <2>1, <2>2 DEF KeptOf
<1>4. Promised(h, sp, ins2, Len(ins)) /\ Ended(h, sp, ins2)
  BY <1>1, <1>2 DEF Backed, Promised, Ended
<1>5. QED
  BY <1>2, <1>3, <1>4 DEF Backed

LEMMA MoreMarksBack ==
  ASSUME NEW h, NEW sp, NEW g, NEW sp2, MarksKept(h, sp, g, sp2), NEW ins, NEW done,
         \A k \in 1 .. done : KeptOf(h, sp, ins, k)
  PROVE  \A k \in 1 .. done : KeptOf(g, sp2, ins, k)
BY DEF KeptOf, MarksKept

(***************************************************************************)
(* A split: the lower part has the mark of the node, and the upper part    *)
(* has one only if the word inserted ends there.                           *)
(***************************************************************************)
LEMMA SplitBacks ==
  ASSUME NEW h, NEW up, NEW sp, Grown(h, up, sp), NEW n \in DOMAIN h, n # Root,
         NEW k, NEW g, IsSplit(h, n, k, g), NEW v \in Seq(Letters), Begins(v, sp[n]),
         Len(v) < Len(sp[n]),
         NEW ins \in Seq(Seq(Letters)), NEW done \in Nat, done <= Len(ins), Backed(h, sp, ins, done),
         g[n].leaf => \E j \in DOMAIN ins : v = ins[j]
  PROVE  /\ Backed(g, SpelledSplit(h, sp, n, v), ins, done)
         /\ MarksKept(h, sp, g, SpelledSplit(h, sp, n, v))
<1>1. /\ DOMAIN h = 1 .. Len(h) /\ Len(h) \in Nat
      /\ \A i \in DOMAIN h : sp[i] \in Seq(Letters) /\ Len(sp[i]) \in Nat
  BY GrownFacts
<1>2. PICK m : m = Len(h) + 1 /\ m \in Nat /\ m \notin DOMAIN h
  BY <1>1
<1>3. DOMAIN g = DOMAIN h \cup {m}
  <2>1. Len(g) = m /\ DOMAIN g = 1 .. m
    BY <1>2, LenProperties DEF IsSplit
  <2>2. QED
    BY <1>1, <1>2, <2>1
<1>4. g[m].leaf = h[n].leaf /\ \A i \in DOMAIN h : i # n => g[i] = h[i]
  BY <1>2 DEF IsSplit
<1>5. PICK sp2 : sp2 = SpelledSplit(h, sp, n, v)
  OBVIOUS
<1>6. sp2[m] = sp[n] /\ sp2[n] = v /\ \A i \in DOMAIN h : i # n => sp2[i] = sp[i]
  BY <1>1, <1>2, <1>5 DEF SpelledSplit
<1>7. ASSUME NEW j \in 1 .. done
      PROVE  ins[j] \in Seq(Letters) /\ Len(ins[j]) \in Nat
  BY LenProperties, ElementOfSeq
<1>8. Promised(g, sp2, ins, done)
  <2>1. SUFFICES ASSUME NEW i \in DOMAIN g, i # Root
                 PROVE  \E j \in 1 .. done :
                          Begins(sp2[i], ins[j]) /\ (g[i].leaf \/ Len(sp2[i]) < Len(ins[j]))
    BY DEF Promised
  <2>2. PICK j0 \in 1 .. done :
          Begins(sp[n], ins[j0]) /\ (h[n].leaf \/ Len(sp[n]) < Len(ins[j0]))
    BY DEF Backed, Promised
  <2>3. CASE i = m
    BY <1>4, <1>6, <2>2, <2>3
  <2>4. CASE i = n
    <3>1. Len(v) \in Nat /\ Len(sp[n]) <= Len(ins[j0])
      BY <2>2, LenProperties DEF Begins
    <3>2. Begins(v, ins[j0])
      BY <1>1, <1>7, <2>2, BeginsFacts
    <3>3. Len(v) < Len(ins[j0])
      BY <1>1, <1>7, <3>1
    <3>4. QED
      BY <1>6, <2>4, <3>2, <3>3
  <2>5. CASE i # m /\ i # n
    <3>1. i \in DOMAIN h /\ g[i] = h[i] /\ sp2[i] = sp[i]
      BY <1>3, <1>4, <1>6, <2>5
    <3>2. QED
      BY <2>1, <3>1 DEF Backed, Promised
  <2>6. QED
    BY <2>3, <2>4, <2>5
<1>9. Ended(g, sp2, ins)
  <2>1. SUFFICES ASSUME NEW i \in DOMAIN g, i # Root, g[i].leaf
                 PROVE  \E j \in DOMAIN ins : sp2[i] = ins[j]
    BY DEF Ended
  <2>2. CASE i = m
    BY <1>4, <1>6, <2>1, <2>2 DEF Backed, Ended
  <2>3. CASE i = n
    BY <1>6, <2>1, <2>3
  <2>4. CASE i # m /\ i # n
    BY <1>3, <1>4, <1>6, <2>1, <2>4 DEF Backed, Ended
  <2>5. QED
    BY <2>2, <2>3, <2>4
<1>10. MarksKept(h, sp, g, sp2)
  <2>1. SUFFICES ASSUME NEW i \in DOMAIN h, h[i].leaf
                 PROVE  \E l \in DOMAIN g : g[l].leaf /\ sp2[l] = sp[i]
    BY DEF MarksKept, Marked
  <2>2. CASE i = n
    BY <1>3, <1>4, <1>6, <2>1, <2>2
  <2>3. CASE i # n
    BY <1>3, <1>4, <1>6, <2>1, <2>3
  <2>4. QED
    BY <2>2, <2>3
<1>11. \A j \in 1 .. done : KeptOf(g, sp2, ins, j)
  BY <1>10, MoreMarksBack DEF Backed
<1>12. QED
  BY <1>5, <1>8, <1>9, <1>10, <1>11 DEF Backed

\* A node is added for the last word: all are in the trie.
LEMMA AddBacks ==
  ASSUME NEW h, NEW up, NEW sp, Grown(h, up, sp), NEW n \in DOMAIN h, NEW t,
         NEW g, IsAdded(h, n, t, g),
         NEW ins \in Seq(Seq(Letters)), ins # <<>>, Backed(h, sp, ins, Len(ins) - 1)
  PROVE  LET sp2 == SpelledAdded(h, sp, ins[Len(ins)])
         IN Backed(g, sp2, ins, Len(ins)) /\ MarksKept(h, sp, g, sp2)
<1>1. DOMAIN h = 1 .. Len(h) /\ Len(h) \in Nat
  BY GrownFacts
<1>2. PICK m : m = Len(h) + 1 /\ m \in Nat /\ m \notin DOMAIN h
  BY <1>1
<1>3. DOMAIN g = DOMAIN h \cup {m}
  <2>1. Len(g) = m /\ DOMAIN g = 1 .. m
    BY <1>2, LenProperties DEF IsAdded
  <2>2. QED
    BY <1>1, <1>2, <2>1
<1>4. g[m].leaf /\ \A i \in DOMAIN h : g[i].leaf = h[i].leaf
  BY <1>2 DEF IsAdded
<1>5. PICK l \in Nat : /\ l = Len(ins) /\ l >= 1 /\ DOMAIN ins = 1 .. l /\ l \in DOMAIN ins
                       /\ ins[l] \in Seq(Letters)
  BY LenProperties, EmptySeq, ElementOfSeq
<1>6. PICK sp2 : sp2 = SpelledAdded(h, sp, ins[l])
  OBVIOUS
<1>7. sp2[m] = ins[l] /\ \A i \in DOMAIN h : sp2[i] = sp[i]
  BY <1>1, <1>2, <1>6 DEF SpelledAdded
<1>8. Backed(h, sp, ins, l - 1) /\ 1 .. l - 1 \subseteq 1 .. l /\ l \in 1 .. l
  BY <1>5
<1>9. Promised(g, sp2, ins, l)
  <2>1. SUFFICES ASSUME NEW i \in DOMAIN g, i # Root
                 PROVE  \E j \in 1 .. l :
                          Begins(sp2[i], ins[j]) /\ (g[i].leaf \/ Len(sp2[i]) < Len(ins[j]))
    BY DEF Promised
  <2>2. CASE i = m
    <3>1. Begins(ins[l], ins[l])
      BY <1>5, BeginsFacts
    <3>2. QED
      BY <1>4, <1>7, <1>8, <2>2, <3>1
  <2>3. CASE i # m
    <3>1. i \in DOMAIN h /\ g[i].leaf = h[i].leaf /\ sp2[i] = sp[i]
      BY <1>3, <1>4, <1>7, <2>3
    <3>2. QED
      BY <1>8, <2>1, <3>1 DEF Backed, Promised
  <2>4. QED
    BY <2>2, <2>3
<1>10. Ended(g, sp2, ins)
  <2>1. SUFFICES ASSUME NEW i \in DOMAIN g, i # Root, g[i].leaf
                 PROVE  \E j \in DOMAIN ins : sp2[i] = ins[j]
    BY DEF Ended
  <2>2. CASE i = m
    BY <1>5, <1>7, <2>2
  <2>3. CASE i # m
    BY <1>3, <1>4, <1>7, <1>8, <2>1, <2>3 DEF Backed, Ended
  <2>4. QED
    BY <2>2, <2>3
<1>11. MarksKept(h, sp, g, sp2)
  BY <1>3, <1>4, <1>7 DEF MarksKept, Marked
<1>12. \A j \in 1 .. l - 1 : KeptOf(g, sp2, ins, j)
  BY <1>8, <1>11, MoreMarksBack DEF Backed
<1>13. KeptOf(g, sp2, ins, l)
  BY <1>3, <1>4, <1>7 DEF KeptOf, Marked
<1>14. \A j \in 1 .. l : KeptOf(g, sp2, ins, j)
  <2>1. \A j \in 1 .. l : j = l \/ j \in 1 .. l - 1
    BY <1>5
  <2>2. QED
    BY <1>12, <1>13, <2>1
<1>15. QED
  BY <1>5, <1>6, <1>9, <1>10, <1>11, <1>14 DEF Backed

\* The word ends at a node: if it is not marked, it began an earlier one.
LEMMA EndBacks ==
  ASSUME NEW h, NEW up, NEW sp, Grown(h, up, sp), NEW p \in DOMAIN h,
         NEW ins \in Seq(Seq(Letters)), ins # <<>>, Backed(h, sp, ins, Len(ins) - 1),
         Left(sp[p], ins[Len(ins)], <<>>)
  PROVE  Backed(h, sp, ins, Len(ins))
<1>1. PICK l \in Nat : /\ l = Len(ins) /\ l >= 1 /\ DOMAIN ins = 1 .. l /\ l \in DOMAIN ins
                       /\ ins[l] \in Seq(Letters) /\ Len(ins[l]) \in Nat
                       /\ 1 .. l - 1 \subseteq 1 .. l
  BY LenProperties, EmptySeq, ElementOfSeq
<1>2. sp[p] \in Seq(Letters) /\ Len(sp[p]) \in Nat
  BY GrownFacts
<1>3. sp[p] = ins[l]
  <2>1. Begins(sp[p], ins[l]) /\ 0 = Len(ins[l]) - Len(sp[p])
    BY <1>1, EmptySeq DEF Left
  <2>2. Len(sp[p]) >= Len(ins[l])
    BY <1>1, <1>2, <2>1
  <2>3. QED
    BY <1>1, <1>2, <2>1, <2>2, BeginsFacts
<1>4. KeptOf(h, sp, ins, l)
  <2>1. CASE h[p].leaf
    BY <1>3, <2>1 DEF KeptOf, Marked
  <2>2. CASE ~h[p].leaf
    <3>1. p # Root
      BY <2>2 DEF Grown
    <3>2. QED
      BY <1>1, <1>3, <2>2, <3>1 DEF KeptOf, Backed, Promised
  <2>3. QED
    BY <2>1, <2>2
<1>5. Promised(h, sp, ins, l) /\ Ended(h, sp, ins)
  BY <1>1 DEF Backed, Promised
<1>6. \A j \in 1 .. l : KeptOf(h, sp, ins, j)
  <2>1. \A j \in 1 .. l : j = l \/ j \in 1 .. l - 1
    BY <1>1
  <2>2. QED
    BY <1>1, <1>4, <2>1 DEF Backed
<1>7. QED
  BY <1>1, <1>5, <1>6 DEF Backed

-----------------------------------------------------------------------------
(***************************************************************************)
(* The inductive invariant: the nodes spell a tree, which holds the words  *)
(* inserted before the one under way, and the walk of that one is right.   *)
(***************************************************************************)
Done == IF op = "walk" THEN Len(inserted) - 1 ELSE Len(inserted)
Word == inserted[Len(inserted)]

Shape(up, sp) ==
  /\ Grown(heap, up, sp)
  /\ Backed(heap, sp, inserted, Done)
  /\ op = "walk" => inserted # <<>> /\ WalkRight(heap, up, sp, Word, s, cur, prev)

IInv == TypeOK /\ \E up, sp : Shape(up, sp)

LEMMA WordsTyped ==
  ASSUME NEW ins \in Seq(Words)
  PROVE  /\ ins \in Seq(Seq(Letters)) /\ Len(ins) \in Nat /\ DOMAIN ins = 1 .. Len(ins)
         /\ \A j \in DOMAIN ins : ins[j] \in Words /\ ins[j] \in Seq(Letters)
         /\ ins # <<>> => Len(ins) >= 1 /\ Len(ins) \in DOMAIN ins /\ ins[Len(ins)] \in Seq(Letters)
<1>1. Len(ins) \in Nat /\ DOMAIN ins = 1 .. Len(ins) /\ \A j \in DOMAIN ins : ins[j] \in Words
  BY LenProperties, ElementOfSeq
<1>2. \A j \in DOMAIN ins : ins[j] \in Seq(Letters)
  BY <1>1, TrieAssumption
<1>3. ins \in Seq(Seq(Letters))
  BY TrieAssumption
<1>4. ins # <<>> => Len(ins) >= 1 /\ Len(ins) \in DOMAIN ins
  BY <1>1, EmptySeq
<1>5. QED
  BY <1>1, <1>2, <1>3, <1>4

\* The part of TypeOK that is about the heap.
HeapOK(h) ==
  /\ h \in Seq(TrieNodes) /\ Root \in DOMAIN h
  /\ \A n \in DOMAIN h :
       /\ h[n].next \in DOMAIN h \cup {0} /\ h[n].follow \in DOMAIN h \cup {0}
       /\ n # Root => h[n].radix # <<>>

LEMMA GrownTyped ==
  ASSUME NEW h, NEW up, NEW sp, Grown(h, up, sp)
  PROVE  HeapOK(h)
<1>1. ASSUME NEW n \in DOMAIN h
      PROVE  /\ h[n].next \in DOMAIN h \cup {0} /\ h[n].follow \in DOMAIN h \cup {0}
             /\ n # Root => h[n].radix # <<>>
  BY GrownFacts, SonFacts
<1>2. QED
  BY <1>1, GrownFacts DEF HeapOK, Grown

LEMMA InitShape ==
  ASSUME heap = << Node(<<>>, TRUE, 0, 0) >>, s = <<>>, cur = 0, prev = Root, op = "idle",
         inserted = <<>>
  PROVE  IInv
<1>1. PICK up, sp : DOMAIN heap = {Root} /\ Grown(heap, up, sp)
  BY NewTrie
<1>2. Len(inserted) = 0 /\ inserted \in Seq(Words) /\ DOMAIN inserted = {}
  BY EmptySeq
<1>3. Backed(heap, sp, inserted, Done)
  BY <1>1, <1>2 DEF Backed, Promised, Ended, Done
<1>4. Shape(up, sp)
  BY <1>1, <1>3 DEF Shape
<1>5. TypeOK
  <2>1. HeapOK(heap)
    BY <1>1, GrownTyped
  <2>2. s \in Seq(Letters) /\ cur \in {0} /\ prev \in DOMAIN heap /\ Len(inserted) <= MaxInserts
    BY <1>1, <1>2, TrieAssumption
  <2>3. QED
    BY <1>2, <2>1, <2>2 DEF TypeOK, HeapOK, NodeIds
<1>6. QED
  BY <1>4, <1>5 DEF IInv

\* What a turn of the walk starts from.
LEMMA WalkShape ==
  ASSUME TypeOK, op = "walk", NEW up, NEW sp, Shape(up, sp)
  PROVE  /\ Grown(heap, up, sp) /\ WalkRight(heap, up, sp, Word, s, cur, prev)
         /\ Backed(heap, sp, inserted, Len(inserted) - 1) /\ inserted # <<>>
         /\ Len(inserted) \in Nat /\ Len(inserted) >= 1 /\ Len(inserted) - 1 \in Nat
         /\ Len(inserted) \in DOMAIN inserted
         /\ inserted \in Seq(Seq(Letters)) /\ Word \in Seq(Letters) /\ s \in Seq(Letters)
         /\ heap \in Seq(TrieNodes) /\ Len(heap) \in Nat /\ DOMAIN heap = 1 .. Len(heap)
         /\ prev \in DOMAIN heap
<1>1. /\ inserted \in Seq(Words) /\ s \in Seq(Letters) /\ heap \in Seq(TrieNodes)
      /\ prev \in DOMAIN heap
  BY DEF TypeOK, NodeIds
<1>2. Grown(heap, up, sp) /\ Backed(heap, sp, inserted, Len(inserted) - 1)
  BY DEF Shape, Done
<1>3. inserted # <<>> /\ WalkRight(heap, up, sp, Word, s, cur, prev)
  BY DEF Shape
<1>4. /\ Len(inserted) \in Nat /\ Len(inserted) >= 1 /\ Len(inserted) - 1 \in Nat
      /\ Len(inserted) \in DOMAIN inserted
      /\ inserted \in Seq(Seq(Letters)) /\ Word \in Seq(Letters)
  <2>1. /\ Len(inserted) \in Nat /\ Len(inserted) >= 1
        /\ Len(inserted) \in DOMAIN inserted
        /\ inserted \in Seq(Seq(Letters)) /\ Word \in Seq(Letters)
    BY <1>1, <1>3, WordsTyped DEF Word
  <2>2. QED
    BY <2>1
<1>5. Len(heap) \in Nat /\ DOMAIN heap = 1 .. Len(heap)
  BY <1>1, LenProperties
<1>6. QED
  BY <1>1, <1>2, <1>3, <1>4, <1>5

LEMMA StartKeeps ==
  ASSUME IInv, NEW w \in Words, Start(w)
  PROVE  IInv'
<1>1. PICK up, sp : Shape(up, sp)
  BY DEF IInv
<1>2. /\ op = "idle" /\ Len(inserted) < MaxInserts /\ s' = w /\ cur' = heap[Root].follow
      /\ prev' = Root /\ op' = "walk" /\ inserted' = Append(inserted, w) /\ heap' = heap
  BY DEF Start
<1>3. /\ TypeOK /\ inserted \in Seq(Words) /\ MaxInserts \in Nat /\ Len(inserted) \in Nat
      /\ w \in Seq(Letters) /\ Grown(heap, up, sp) /\ Backed(heap, sp, inserted, Len(inserted))
  BY <1>1, <1>2, TrieAssumption, LenProperties DEF IInv, TypeOK, Shape, Done
<1>4. PICK ins2 : /\ ins2 = Append(inserted, w) /\ ins2 \in Seq(Words) /\ ins2 # <<>>
                  /\ Len(ins2) = Len(inserted) + 1 /\ ins2[Len(inserted) + 1] = w
  <2>1. PICK u \in Seq(Words) : u = inserted
    BY <1>3
  <2>2. /\ Append(u, w) \in Seq(Words) /\ Append(u, w) # <<>>
        /\ Len(Append(u, w)) = Len(u) + 1 /\ Append(u, w)[Len(u) + 1] = w
    BY AppendFacts
  <2>3. QED
    BY <2>1, <2>2
<1>5. Backed(heap, sp, ins2, Len(inserted))
  BY <1>3, <1>4, NextBacks
<1>6. WalkRight(heap, up, sp, w, w, heap[Root].follow, Root)
  BY <1>3, WalkStarts
<1>7. Shape(up, sp)'
  <2>1. Done' = Len(inserted) /\ Word' = w
    BY <1>2, <1>3, <1>4 DEF Done, Word
  <2>2. QED
    BY <1>2, <1>3, <1>4, <1>5, <1>6, <2>1 DEF Shape
<1>8. TypeOK'
  <2>1. HeapOK(heap)
    BY <1>3, GrownTyped
  <2>2. Len(inserted') <= MaxInserts /\ inserted' \in Seq(Words)
    BY <1>2, <1>3, <1>4
  <2>3. QED
    BY <1>2, <1>3, <2>1, <2>2 DEF TypeOK, HeapOK, NodeIds
<1>9. QED
  BY <1>7, <1>8 DEF IInv

LEMMA SiblingKeeps ==
  ASSUME IInv, NextSibling
  PROVE  IInv'
<1>1. PICK up, sp : Shape(up, sp)
  BY DEF IInv
<1>2. /\ op = "walk" /\ s # <<>> /\ cur # 0 /\ InCommon(heap[cur].radix, s) = 0
      /\ cur' = heap[cur].next /\ heap' = heap /\ s' = s /\ prev' = prev /\ op' = op
      /\ inserted' = inserted /\ TypeOK
  BY DEF NextSibling, Walking, Here, IInv
<1>3. /\ Grown(heap, up, sp) /\ WalkRight(heap, up, sp, Word, s, cur, prev)
      /\ Word \in Seq(Letters) /\ s \in Seq(Letters)
  BY <1>1, <1>2, WalkShape
<1>4. Shared(heap, s, cur, 0)
  <2>1. PICK k : Shared(heap, s, cur, k)
    BY <1>2, <1>3, WalkTurn
  <2>2. QED
    BY <1>2, <2>1 DEF Shared
<1>5. WalkRight(heap, up, sp, Word, s, heap[cur].next, prev)
  BY <1>2, <1>3, <1>4, WalkSideways
<1>6. Shape(up, sp)'
  BY <1>1, <1>2, <1>5 DEF Shape, Done, Word
<1>7. TypeOK'
  BY <1>2 DEF TypeOK, NodeIds
<1>8. QED
  BY <1>6, <1>7 DEF IInv

LEMMA DescendKeeps ==
  ASSUME IInv, Descend
  PROVE  IInv'
<1>1. PICK up, sp : Shape(up, sp)
  BY DEF IInv
<1>2. PICK k : k = InCommon(heap[cur].radix, s)
  OBVIOUS
<1>3. /\ op = "walk" /\ s # <<>> /\ cur # 0 /\ k # 0 /\ k = Len(heap[cur].radix)
      /\ s' = Rest(s, k) /\ prev' = cur /\ cur' = heap[cur].follow /\ heap' = heap
      /\ op' = op /\ inserted' = inserted /\ TypeOK
  BY <1>2 DEF Descend, Walking, Here, IInv
<1>4. /\ Grown(heap, up, sp) /\ WalkRight(heap, up, sp, Word, s, cur, prev)
      /\ Word \in Seq(Letters) /\ s \in Seq(Letters)
  BY <1>1, <1>3, WalkShape
<1>5. Shared(heap, s, cur, k)
  <2>1. PICK j : Shared(heap, s, cur, j)
    BY <1>3, <1>4, WalkTurn
  <2>2. QED
    BY <1>2, <2>1 DEF Shared
<1>6. /\ Rest(s, k) \in Seq(Letters) /\ cur \in DOMAIN heap
      /\ WalkRight(heap, up, sp, Word, Rest(s, k), heap[cur].follow, cur)
  BY <1>3, <1>4, <1>5, WalkDown
<1>7. Shape(up, sp)'
  BY <1>1, <1>3, <1>6 DEF Shape, Done, Word
<1>8. TypeOK'
  BY <1>3, <1>6 DEF TypeOK, NodeIds
<1>9. QED
  BY <1>7, <1>8 DEF IInv

\* A sequence of nodes with one changed and one more is what the lemmas say.
LEMMA ChangedHeap ==
  ASSUME NEW h \in Seq(TrieNodes), NEW n \in DOMAIN h, NEW a \in TrieNodes, NEW b \in TrieNodes
  PROVE  LET g == Append([h EXCEPT ![n] = a], b) IN
         /\ g \in Seq(TrieNodes) /\ Len(g) = Len(h) + 1
         /\ \A i \in DOMAIN h : i # n => g[i] = h[i]
         /\ g[n] = a /\ g[Len(h) + 1] = b
<1>1. Len(h) \in Nat /\ DOMAIN h = 1 .. Len(h)
  BY LenProperties
<1>2. PICK e : e = [h EXCEPT ![n] = a]
  OBVIOUS
<1>3. /\ e \in Seq(TrieNodes) /\ Len(e) = Len(h)
      /\ \A i \in 1 .. Len(h) : e[i] = IF i = n THEN a ELSE h[i]
  BY <1>1, <1>2, ExceptSeq
<1>4. PICK g : g = Append(e, b)
  OBVIOUS
<1>5. /\ g \in Seq(TrieNodes) /\ Len(g) = Len(e) + 1 /\ g[Len(e) + 1] = b
      /\ \A i \in 1 .. Len(e) : g[i] = e[i]
  BY <1>3, <1>4, AppendFacts
<1>6. QED
  BY <1>1, <1>2, <1>3, <1>4, <1>5

LEMMA SplitKeeps ==
  ASSUME IInv, Split
  PROVE  IInv' /\ \A up, sp : Shape(up, sp) =>
           \E up2, sp2 : Shape(up2, sp2)' /\ MarksKept(heap, sp, heap', sp2)
<1>1. PICK k : k = InCommon(heap[cur].radix, s)
  OBVIOUS
<1>2. /\ op = "walk" /\ s # <<>> /\ cur # 0 /\ k # 0 /\ k < Len(heap[cur].radix)
      /\ heap' = Append([heap EXCEPT
                       ![cur].radix  = SubSeq(@, 1, k),
                       ![cur].leaf   = LeafAfterSplit(@, Rest(s, k)),
                       ![cur].follow = Len(heap) + 1], SplitTail(cur, k))
      /\ s' = Rest(s, k) /\ prev' = cur /\ cur' = 0
      /\ op' = op /\ inserted' = inserted /\ TypeOK
  BY <1>1 DEF Split, Walking, Here, IInv
<1>3. ASSUME NEW up, NEW sp, Shape(up, sp)
      PROVE  /\ TypeOK'
             /\ \E up2, sp2 : Shape(up2, sp2)' /\ MarksKept(heap, sp, heap', sp2)
  <2>1. /\ Grown(heap, up, sp) /\ WalkRight(heap, up, sp, Word, s, cur, prev)
        /\ Backed(heap, sp, inserted, Len(inserted) - 1) /\ inserted # <<>>
        /\ Len(inserted) \in Nat /\ Len(inserted) - 1 \in Nat
        /\ Len(inserted) \in DOMAIN inserted
        /\ inserted \in Seq(Seq(Letters)) /\ Word \in Seq(Letters) /\ s \in Seq(Letters)
        /\ heap \in Seq(TrieNodes) /\ Len(heap) \in Nat /\ DOMAIN heap = 1 .. Len(heap)
    BY <1>2, <1>3, WalkShape
  <2>2. Shared(heap, s, cur, k)
    <3>1. PICK j : Shared(heap, s, cur, j)
      BY <1>2, <2>1, WalkTurn
    <3>2. QED
      BY <1>1, <3>1 DEF Shared
  <2>3. k \in Nat /\ k >= 1 /\ k <= Len(s)
    BY <1>2, <2>2 DEF Shared
  <2>4. cur \in DOMAIN heap /\ cur # Root /\ IsSon(heap, up, cur, prev) /\ up[cur] = prev
        /\ heap[cur].radix \in Seq(Letters) /\ Len(heap[cur].radix) \in Nat
        /\ heap[cur] \in TrieNodes /\ heap[cur].follow \in Nat
    <3>1. IsSon(heap, up, cur, prev)
      BY <1>2, <2>1 DEF WalkRight
    <3>2. heap[cur] \in TrieNodes
      BY <2>1, <3>1, GrownFacts, SonFacts
    <3>3. heap[cur].follow \in Nat
      BY <3>2 DEF TrieNodes
    <3>4. /\ cur \in DOMAIN heap /\ cur # Root /\ up[cur] = prev
          /\ heap[cur].radix \in Seq(Letters) /\ Len(heap[cur].radix) \in Nat
      BY <2>1, <3>1, SonFacts
    <3>5. QED
      BY <3>1, <3>2, <3>3, <3>4
  <2>5. SubSeq(heap[cur].radix, 1, k) \in Seq(Letters) /\ Rest(heap[cur].radix, k) \in Seq(Letters)
    <3>1. k \in 0 .. Len(heap[cur].radix)
      BY <1>2, <2>3, <2>4
    <3>2. QED
      BY <2>4, <3>1, PartFacts, RestFacts
  <2>6. PICK a \in TrieNodes :
          /\ a = [heap[cur] EXCEPT !.radix  = SubSeq(@, 1, k),
                                   !.leaf   = LeafAfterSplit(@, Rest(s, k)),
                                   !.follow = Len(heap) + 1]
          /\ a.radix = SubSeq(heap[cur].radix, 1, k) /\ a.next = heap[cur].next
          /\ a.follow = Len(heap) + 1 /\ a.leaf = (heap[cur].leaf /\ Rest(s, k) = <<>>)
    <3>1. PICK r \in Seq(Letters) : r = SubSeq(heap[cur].radix, 1, k)
      BY <2>5
    <3>2. PICK l \in BOOLEAN : l = LeafAfterSplit(heap[cur].leaf, Rest(s, k))
      BY DEF LeafAfterSplit
    <3>3. PICK f \in Nat : f = Len(heap) + 1
      BY <2>1
    <3>4. PICK x \in TrieNodes : x = heap[cur]
      BY <2>4
    <3>5. PICK a : a = [x EXCEPT !.radix = r, !.leaf = l, !.follow = f]
      OBVIOUS
    <3>6. a \in TrieNodes /\ a.radix = r /\ a.leaf = l /\ a.follow = f /\ a.next = x.next
      BY <3>5 DEF TrieNodes
    <3>7. l = (heap[cur].leaf /\ Rest(s, k) = <<>>)
      BY <3>2 DEF LeafAfterSplit
    <3>8. a = [heap[cur] EXCEPT !.radix  = SubSeq(@, 1, k),
                                !.leaf   = LeafAfterSplit(@, Rest(s, k)),
                                !.follow = Len(heap) + 1]
      BY <3>1, <3>2, <3>3, <3>4, <3>5, Zenon
    <3>9. /\ a.radix = SubSeq(heap[cur].radix, 1, k) /\ a.next = heap[cur].next
          /\ a.follow = Len(heap) + 1
      BY <3>1, <3>3, <3>4, <3>6
    <3>10. a.leaf = (heap[cur].leaf /\ Rest(s, k) = <<>>)
      BY <3>6, <3>7, Zenon
    <3>11. QED
      BY <3>6, <3>8, <3>9, <3>10, Zenon
  <2>7. PICK b \in TrieNodes :
          /\ b = SplitTail(cur, k) /\ b.radix = Rest(heap[cur].radix, k)
          /\ b.leaf = heap[cur].leaf /\ b.next = 0 /\ b.follow = heap[cur].follow
    <3>1. PICK x \in TrieNodes : x = heap[cur]
      BY <2>4
    <3>2. PICK r \in Seq(Letters) : r = Rest(x.radix, k)
      BY <2>5, <3>1
    <3>3. x.leaf \in BOOLEAN /\ x.follow \in Nat
      BY DEF TrieNodes
    <3>4. PICK b : b = [radix |-> r, leaf |-> x.leaf, next |-> 0, follow |-> x.follow]
      OBVIOUS
    <3>5. /\ b \in TrieNodes /\ b.radix = r /\ b.leaf = x.leaf /\ b.next = 0
          /\ b.follow = x.follow
      BY <3>3, <3>4 DEF TrieNodes
    <3>6. b = SplitTail(cur, k)
      BY <3>1, <3>2, <3>4 DEF SplitTail, Node
    <3>7. QED
      BY <3>1, <3>2, <3>5, <3>6
  <2>8. PICK g : g = heap' /\ g = Append([heap EXCEPT ![cur] = a], b)
    BY <1>2, <2>1, <2>4, <2>6, <2>7
  <2>9. /\ g \in Seq(TrieNodes) /\ Len(g) = Len(heap) + 1
        /\ \A i \in DOMAIN heap : i # cur => g[i] = heap[i]
        /\ g[cur] = a /\ g[Len(heap) + 1] = b
    BY <2>1, <2>4, <2>8, ChangedHeap
  <2>10. IsSplit(heap, cur, k, g)
    BY <2>6, <2>7, <2>9 DEF IsSplit
  <2>11. PICK v : v = SubSeq(sp[cur], 1, Len(sp[up[cur]]) + k)
    OBVIOUS
  <2>12. PICK up2 : up2 = UpSplit(heap, up, cur)
    OBVIOUS
  <2>13. PICK sp2 : sp2 = SpelledSplit(heap, sp, cur, v)
    OBVIOUS
  <2>14. Grown(g, up2, sp2)
    BY <1>2, <2>1, <2>3, <2>4, <2>10, <2>11, <2>12, <2>13, SplitGrows
  <2>15. /\ Rest(s, k) \in Seq(Letters)
         /\ v \in Seq(Letters) /\ Begins(v, sp[cur]) /\ Len(v) < Len(sp[cur])
         /\ WalkRight(g, up2, sp2, Word, Rest(s, k), 0, cur)
    BY <1>2, <2>1, <2>2, <2>10, <2>11, <2>12, <2>13, WalkSplits
  <2>16. g[cur].leaf => \E j \in DOMAIN inserted : v = inserted[j]
    <3>1. SUFFICES ASSUME Rest(s, k) = <<>> PROVE v = Word
      BY <2>1, <2>6, <2>9 DEF Word
    <3>2. sp2[cur] = v
      <4>1. cur \in 1 .. Len(heap) + 1 /\ cur # Len(heap) + 1
        BY <2>1, <2>4
      <4>2. QED
        BY <2>13, <4>1 DEF SpelledSplit
    <3>3. Begins(v, Word) /\ 0 = Len(Word) - Len(v)
      BY <2>15, <3>1, <3>2, EmptySeq DEF WalkRight, Left
    <3>4. Len(v) >= Len(Word)
      BY <2>1, <2>15, <3>3, LenProperties
    <3>5. QED
      BY <2>1, <2>15, <3>3, <3>4, BeginsFacts
  <2>17. Backed(g, sp2, inserted, Len(inserted) - 1) /\ MarksKept(heap, sp, g, sp2)
    <3>1. PICK done \in Nat : done = Len(inserted) - 1 /\ done <= Len(inserted)
      BY <2>1
    <3>2. Backed(heap, sp, inserted, done)
      BY <2>1, <3>1
    <3>3. Backed(g, sp2, inserted, done) /\ MarksKept(heap, sp, g, sp2)
      BY <2>1, <2>4, <2>10, <2>13, <2>15, <2>16, <3>1, <3>2, SplitBacks
    <3>4. QED
      BY <3>1, <3>3
  <2>18. Shape(up2, sp2)'
    BY <1>2, <2>1, <2>8, <2>14, <2>15, <2>17 DEF Shape, Done, Word
  <2>19. TypeOK'
    <3>1. HeapOK(g)
      BY <2>14, GrownTyped
    <3>2. cur \in DOMAIN g
      <4>1. DOMAIN g = 1 .. Len(heap) + 1
        BY <2>9, LenProperties
      <4>2. QED
        BY <2>1, <2>4, <4>1
    <3>3. QED
      BY <1>2, <2>8, <2>15, <3>1, <3>2 DEF TypeOK, HeapOK, NodeIds
  <2>20. QED
    BY <2>8, <2>17, <2>18, <2>19
<1>4. QED
  BY <1>3 DEF IInv

LEMMA AddKeeps ==
  ASSUME IInv, AddNode
  PROVE  IInv' /\ \A up, sp : Shape(up, sp) =>
           \E up2, sp2 : Shape(up2, sp2)' /\ MarksKept(heap, sp, heap', sp2)
<1>1. /\ op = "walk" /\ s # <<>> /\ cur = 0
      /\ heap' = Append([heap EXCEPT ![prev].follow = Len(heap) + 1],
                        Node(s, TRUE, LinkedTo(prev), 0))
      /\ op' = "idle" /\ s' = s /\ cur' = cur /\ prev' = prev /\ inserted' = inserted /\ TypeOK
  BY DEF AddNode, IInv
<1>2. ASSUME NEW up, NEW sp, Shape(up, sp)
      PROVE  /\ TypeOK'
             /\ \E up2, sp2 : Shape(up2, sp2)' /\ MarksKept(heap, sp, heap', sp2)
  <2>1. /\ Grown(heap, up, sp) /\ WalkRight(heap, up, sp, Word, s, cur, prev)
        /\ Backed(heap, sp, inserted, Len(inserted) - 1) /\ inserted # <<>>
        /\ inserted \in Seq(Seq(Letters)) /\ Word \in Seq(Letters) /\ s \in Seq(Letters)
        /\ heap \in Seq(TrieNodes) /\ Len(heap) \in Nat /\ DOMAIN heap = 1 .. Len(heap)
        /\ prev \in DOMAIN heap
    BY <1>1, <1>2, WalkShape
  <2>2. PICK x \in TrieNodes : x = heap[prev]
    BY <2>1, GrownFacts
  <2>3. x.follow \in Nat
    BY DEF TrieNodes
  <2>4. PICK f \in Nat : f = Len(heap) + 1
    BY <2>1
  <2>5. PICK a : a = [x EXCEPT !.follow = f]
    OBVIOUS
  <2>6. /\ a \in TrieNodes /\ a.radix = x.radix /\ a.leaf = x.leaf /\ a.next = x.next
        /\ a.follow = f
    BY <2>5 DEF TrieNodes
  <2>7. PICK b : b = [radix |-> s, leaf |-> TRUE, next |-> x.follow, follow |-> 0]
    OBVIOUS
  <2>8. b \in TrieNodes /\ b.radix = s /\ b.leaf = TRUE /\ b.next = x.follow /\ b.follow = 0
    BY <2>1, <2>3, <2>7 DEF TrieNodes
  <2>9. PICK g : g = heap' /\ g = Append([heap EXCEPT ![prev] = a], b)
    <3>1. Node(s, TRUE, LinkedTo(prev), 0) = b
      BY <2>2, <2>7 DEF Node, LinkedTo
    <3>2. [heap EXCEPT ![prev].follow = Len(heap) + 1] = [heap EXCEPT ![prev] = a]
      BY <2>2, <2>4, <2>5
    <3>3. QED
      BY <1>1, <3>1, <3>2
  <2>10. /\ g \in Seq(TrieNodes) /\ Len(g) = Len(heap) + 1
         /\ \A i \in DOMAIN heap : i # prev => g[i] = heap[i]
         /\ g[prev] = a /\ g[Len(heap) + 1] = b
    BY <2>1, <2>6, <2>8, <2>9, ChangedHeap
  <2>11. IsAdded(heap, prev, s, g)
    <3>1. ASSUME NEW i \in DOMAIN heap
          PROVE  g[i].radix = heap[i].radix /\ g[i].leaf = heap[i].leaf /\ g[i].next = heap[i].next
      BY <2>2, <2>6, <2>10
    <3>2. /\ g[prev].follow = Len(heap) + 1 /\ g[Len(heap) + 1].leaf
          /\ g[Len(heap) + 1].radix = s /\ g[Len(heap) + 1].next = heap[prev].follow
          /\ g[Len(heap) + 1].follow = 0
      BY <2>2, <2>4, <2>6, <2>8, <2>10
    <3>3. QED
      BY <2>10, <3>1, <3>2 DEF IsAdded
  <2>12. PICK up2 : up2 = UpAdded(heap, up, prev)
    OBVIOUS
  <2>13. PICK sp2 : sp2 = SpelledAdded(heap, sp, Word)
    OBVIOUS
  <2>14. GoesOn(sp[prev], s, Word)
    <3>1. Left(sp[prev], Word, s)
      BY <2>1 DEF WalkRight
    <3>2. Len(s) \in Nat /\ Len(s) # 0 /\ Len(Word) \in Nat /\ Len(sp[prev]) \in Nat
      BY <1>1, <2>1, LenProperties, EmptySeq, GrownFacts
    <3>3. QED
      BY <3>1, <3>2 DEF Left, GoesOn
  <2>15. \A d \in DOMAIN heap : IsSon(heap, up, d, prev) => heap[d].radix[1] # s[1]
    <3>1. SUFFICES ASSUME NEW d \in DOMAIN heap, IsSon(heap, up, d, prev), heap[d].radix[1] = s[1]
                   PROVE  FALSE
      OBVIOUS
    <3>2. d <= 0 /\ d >= 1 /\ d \in Nat
      BY <1>1, <2>1, <3>1 DEF WalkRight, NonePassed
    <3>3. QED
      BY <3>2
  <2>16. Grown(g, up2, sp2)
    BY <2>1, <2>11, <2>12, <2>13, <2>14, <2>15, AddGrows
  <2>17. Backed(g, sp2, inserted, Len(inserted)) /\ MarksKept(heap, sp, g, sp2)
    BY <2>1, <2>11, <2>13, AddBacks DEF Word
  <2>18. Shape(up2, sp2)'
    BY <1>1, <2>9, <2>16, <2>17 DEF Shape, Done
  <2>19. TypeOK'
    <3>1. HeapOK(g)
      BY <2>16, GrownTyped
    <3>2. prev \in DOMAIN g
      <4>1. DOMAIN g = 1 .. Len(heap) + 1
        BY <2>10, LenProperties
      <4>2. QED
        BY <2>1, <4>1
    <3>3. QED
      BY <1>1, <2>9, <3>1, <3>2 DEF TypeOK, HeapOK, NodeIds
  <2>20. QED
    BY <2>9, <2>17, <2>18, <2>19
<1>3. QED
  BY <1>2 DEF IInv

LEMMA ReturnKeeps ==
  ASSUME IInv, Return
  PROVE  IInv'
<1>1. PICK up, sp : Shape(up, sp)
  BY DEF IInv
<1>2. /\ op = "walk" /\ s = <<>> /\ op' = "idle"
      /\ heap' = heap /\ s' = s /\ cur' = cur /\ prev' = prev /\ inserted' = inserted /\ TypeOK
  BY DEF Return, IInv
<1>3. /\ Grown(heap, up, sp) /\ WalkRight(heap, up, sp, Word, s, cur, prev)
      /\ Backed(heap, sp, inserted, Len(inserted) - 1) /\ inserted # <<>>
      /\ inserted \in Seq(Seq(Letters)) /\ prev \in DOMAIN heap
  BY <1>1, <1>2, WalkShape
<1>4. Left(sp[prev], inserted[Len(inserted)], <<>>)
  BY <1>2, <1>3 DEF WalkRight, Word
<1>5. Backed(heap, sp, inserted, Len(inserted))
  BY <1>3, <1>4, EndBacks
<1>6. Shape(up, sp)'
  BY <1>2, <1>3, <1>5 DEF Shape, Done
<1>7. TypeOK'
  BY <1>2 DEF TypeOK, NodeIds
<1>8. QED
  BY <1>6, <1>7 DEF IInv

LEMMA InitInv == Init => IInv
BY InitShape DEF Init

LEMMA StepKeeps ==
  ASSUME IInv, [Next]_vars
  PROVE  IInv'
<1>1. CASE UNCHANGED vars
  BY <1>1 DEF vars, IInv, TypeOK, NodeIds, Shape, Done, Word
<1>2. CASE \E w \in Words : Start(w)
  BY <1>2, StartKeeps
<1>3. CASE NextSibling
  BY <1>3, SiblingKeeps
<1>4. CASE Descend
  BY <1>4, DescendKeeps
<1>5. CASE Split
  BY <1>5, SplitKeeps
<1>6. CASE AddNode
  BY <1>6, AddKeeps
<1>7. CASE Return
  BY <1>7, ReturnKeeps
<1>8. CASE Free
  <2>1. Init'
    BY <1>8 DEF Free, Init
  <2>2. QED
    BY <2>1, InitInv, PTL
<1>9. QED
  BY <1>1, <1>2, <1>3, <1>4, <1>5, <1>6, <1>7, <1>8 DEF Next, Insertion

(***************************************************************************)
(* In every state there is a spelling of the tree of which the shape       *)
(* holds, in the middle of an insertion too.                               *)
(***************************************************************************)
THEOREM Invariant == Spec => []IInv
<1>1. IInv /\ [Next]_vars => IInv'
  BY StepKeeps
<1>2. QED
  BY InitInv, <1>1, PTL DEF Spec

\* The heap's links lead to nodes, and no node but the root spells nothing of its own.
THEOREM TypeCorrect == Spec => []TypeOK
<1>1. IInv => TypeOK
  BY DEF IInv
<1>2. QED
  BY Invariant, <1>1, PTL

-----------------------------------------------------------------------------
(***************************************************************************)
(* What holds of the trie in every state.                                  *)
(***************************************************************************)
LEMMA FoundIsMarked ==
  ASSUME NEW up, NEW sp, Shape(up, sp), NEW w \in Words
  PROVE  w \in Found <=> Marked(heap, sp, w)
<1>1. PICK whole \in BOOLEAN : whole = TRUE
  OBVIOUS
<1>2. AsksAll(whole) /\ Grown(heap, up, sp) /\ w \in Seq(Letters)
  BY <1>1, TrieAssumption DEF AsksAll, Shape
<1>3. Matched(heap, w, whole) = Len(w) <=> Marked(heap, sp, w)
  BY <1>2, MatchFinds
<1>4. trie_match(w) = Matched(heap, w, whole)
  BY <1>1 DEF trie_match
<1>5. QED
  BY <1>3, <1>4 DEF Found

\* The property's way to say Begins.
LEMMA BeginningIs ==
  ASSUME NEW v \in Seq(Letters), NEW w \in Seq(Letters)
  PROVE  Begins(v, w) <=> v = w \/ IsBeginning(v, w)
<1>1. Len(v) \in Nat /\ Len(w) \in Nat
  BY LenProperties
<1>2. v = w => Begins(v, w)
  BY BeginsFacts
<1>3. Begins(v, w) /\ ~(Len(v) < Len(w)) => v = w
  BY <1>1, BeginsFacts
<1>4. ASSUME Len(v) < Len(w) PROVE Begins(v, w) <=> SubSeq(w, 1, Len(v)) = v
  <2>1. Len(v) \in 0 .. Len(w)
    BY <1>1, <1>4
  <2>2. PICK u \in Seq(Letters) : /\ u = SubSeq(w, 1, Len(v)) /\ Len(u) = Len(v)
                                  /\ \A i \in 1 .. Len(v) : u[i] = w[i]
    BY <2>1, PartFacts, ZenonT(40)
  <2>3. u = v <=> \A i \in 1 .. Len(v) : u[i] = v[i]
    BY <2>2, SeqEqual
  <2>4. QED
    BY <1>1, <1>4, <2>2, <2>3 DEF Begins
<1>5. QED
  BY <1>1, <1>2, <1>3, <1>4 DEF IsBeginning

LEMMA FoundFollows ==
  ASSUME IInv
  PROVE  FoundAsInserted
<1>1. SUFFICES ASSUME op = "idle"
               PROVE  /\ Found \subseteq Bag \cup {<<>>}
                      /\ \A k \in DOMAIN inserted :
                           \/ inserted[k] \in Found
                           \/ \E j \in 1 .. k - 1 : IsBeginning(inserted[k], inserted[j])
  BY DEF FoundAsInserted, Idle
<1>2. PICK up, sp : Shape(up, sp)
  BY DEF IInv
<1>3. /\ Grown(heap, up, sp) /\ Backed(heap, sp, inserted, Len(inserted))
      /\ inserted \in Seq(Words)
  BY <1>1, <1>2 DEF Shape, Done, IInv, TypeOK
<1>4. /\ DOMAIN inserted = 1 .. Len(inserted) /\ Len(inserted) \in Nat
      /\ \A j \in DOMAIN inserted : inserted[j] \in Words /\ inserted[j] \in Seq(Letters)
  BY <1>3, WordsTyped
<1>5. ASSUME NEW w \in Found PROVE w \in Bag \cup {<<>>}
  <2>1. w \in Words
    BY <1>5 DEF Found
  <2>2. PICK m \in DOMAIN heap : heap[m].leaf /\ sp[m] = w
    BY <1>2, <1>5, <2>1, FoundIsMarked DEF Marked
  <2>3. CASE m = Root
    BY <1>3, <2>2, <2>3 DEF Grown, Spelled
  <2>4. CASE m # Root
    BY <1>3, <2>2, <2>4 DEF Backed, Ended, Bag
  <2>5. QED
    BY <2>3, <2>4
<1>6. ASSUME NEW k \in DOMAIN inserted
      PROVE  \/ inserted[k] \in Found
             \/ \E j \in 1 .. k - 1 : IsBeginning(inserted[k], inserted[j])
  <2>1. KeptOf(heap, sp, inserted, k)
    BY <1>3, <1>4 DEF Backed
  <2>2. CASE Marked(heap, sp, inserted[k])
    BY <1>2, <1>4, <2>2, FoundIsMarked
  <2>3. ASSUME NEW j \in 1 .. k - 1, Len(inserted[k]) < Len(inserted[j]),
               Begins(inserted[k], inserted[j])
        PROVE  IsBeginning(inserted[k], inserted[j])
    <3>1. j \in DOMAIN inserted
      BY <1>4
    <3>2. inserted[k] # inserted[j]
      BY <1>4, <2>3, <3>1, LenProperties
    <3>3. QED
      BY <1>4, <2>3, <3>1, <3>2, BeginningIs
  <2>4. QED
    BY <2>1, <2>2, <2>3 DEF KeptOf
<1>7. QED
  BY <1>5, <1>6

(***************************************************************************)
(* A word is found once it is inserted, unless it began one inserted       *)
(* before it, and nothing else is found.                                   *)
(***************************************************************************)
THEOREM InsertedIsFound == Spec => []FoundAsInserted
BY Invariant, FoundFollows, PTL

LEMMA LongestFollows ==
  ASSUME IInv
  PROVE  LongestFound
<1>1. SUFFICES ASSUME NEW t \in Words
               PROVE  trie_match_prefix(t) =
                        Max({ Len(w) : w \in {v \in Found : v = t \/ IsBeginning(v, t)} } \cup {0})
  BY DEF LongestFound, LongestAmong
<1>2. PICK up, sp : Shape(up, sp)
  BY DEF IInv
<1>3. /\ Grown(heap, up, sp) /\ Ended(heap, sp, inserted)
      /\ inserted \in Seq(Words)
  BY <1>2 DEF Shape, Backed, IInv, TypeOK
<1>4. \A j \in DOMAIN inserted : inserted[j] \in Words
  BY <1>3, WordsTyped
<1>5. PICK whole \in BOOLEAN : whole = FALSE
  OBVIOUS
<1>6. PICK r : r = Matched(heap, t, whole)
  OBVIOUS
<1>7. r \in Nat /\ Longest(heap, sp, t, r)
  <2>1. ~AsksAll(whole) /\ t \in Seq(Letters)
    BY <1>5, TrieAssumption DEF AsksAll
  <2>2. QED
    BY <1>3, <1>6, <2>1, PrefixMatchFinds
<1> DEFINE Lens == { Len(w) : w \in {v \in Found : v = t \/ IsBeginning(v, t)} } \cup {0}
<1>8. \A w \in Words : w \in Seq(Letters) /\ Len(w) \in Nat
  BY TrieAssumption, LenProperties
<1>9. r \in Lens
  <2>1. PICK m \in DOMAIN heap : heap[m].leaf /\ Begins(sp[m], t) /\ Len(sp[m]) = r
    BY <1>7 DEF Longest
  <2>2. CASE m = Root
    BY <1>3, <2>1, <2>2, GrownFacts
  <2>3. CASE m # Root
    <3>1. sp[m] \in Words
      BY <1>3, <1>4, <2>1, <2>3 DEF Ended
    <3>2. sp[m] \in Found
      BY <1>2, <2>1, <3>1, FoundIsMarked DEF Marked
    <3>3. sp[m] = t \/ IsBeginning(sp[m], t)
      BY <1>8, <2>1, <3>1, BeginningIs
    <3>4. QED
      BY <2>1, <3>2, <3>3
  <2>4. QED
    BY <2>2, <2>3
<1>10. ASSUME NEW x \in Lens PROVE x \in Nat /\ x <= r
  <2>1. CASE x = 0
    BY <1>7, <2>1
  <2>2. ASSUME NEW w \in Found, w = t \/ IsBeginning(w, t), x = Len(w) PROVE x \in Nat /\ x <= r
    <3>1. w \in Words
      BY DEF Found
    <3>2. Begins(w, t)
      BY <1>8, <2>2, <3>1, BeginningIs
    <3>3. PICK m \in DOMAIN heap : heap[m].leaf /\ sp[m] = w
      BY <1>2, <3>1, FoundIsMarked DEF Marked
    <3>4. QED
      BY <1>7, <1>8, <2>2, <3>1, <3>2, <3>3 DEF Longest
  <2>3. QED
    BY <2>1, <2>2
<1>11. Max(Lens) = r
  <2> HIDE DEF Lens
  <2>1. \A x \in Lens : r >= x
    BY <1>7, <1>10
  <2>2. Max(Lens) \in Lens /\ \A x \in Lens : Max(Lens) >= x
    BY <1>9, <2>1 DEF Max
  <2>3. Max(Lens) \in Nat /\ Max(Lens) <= r /\ Max(Lens) >= r
    BY <1>9, <1>10, <2>2
  <2>4. QED
    BY <1>7, <2>3
<1>12. trie_match_prefix(t) = r
  BY <1>5, <1>6 DEF trie_match_prefix
<1>13. QED
  BY <1>11, <1>12

(***************************************************************************)
(* trie_match_prefix returns the length of the longest of the words found  *)
(* that the text begins with.                                              *)
(***************************************************************************)
THEOREM LongestIsFound == Spec => []LongestFound
BY Invariant, LongestFollows, PTL

LEMMA MarksStay ==
  ASSUME IInv, NEW up, NEW sp, Shape(up, sp), NEW up2, NEW sp2, Shape(up2, sp2)',
         MarksKept(heap, sp, heap', sp2)
  PROVE  Found \subseteq Found'
<1>1. ASSUME NEW w \in Words PROVE (w \in Found <=> Marked(heap, sp, w)) /\ (w \in Found' <=> Marked(heap', sp2, w))
  <2>1. w \in Found <=> Marked(heap, sp, w)
    BY FoundIsMarked
  <2>2. w \in Found' <=> Marked(heap', sp2, w)
    <3>1. PICK whole \in BOOLEAN : whole = TRUE
      OBVIOUS
    <3>2. AsksAll(whole) /\ Grown(heap', up2, sp2) /\ w \in Seq(Letters)
      BY <3>1, TrieAssumption DEF AsksAll, Shape
    <3>3. Matched(heap', w, whole) = Len(w) <=> Marked(heap', sp2, w)
      BY <3>2, MatchFinds
    <3>4. trie_match(w)' = Matched(heap', w, whole)
      BY <3>1 DEF trie_match
    <3>5. QED
      BY <3>3, <3>4 DEF Found
  <2>3. QED
    BY <2>1, <2>2
<1>2. \A w \in Found : w \in Words
  BY DEF Found
<1>3. QED
  BY <1>1, <1>2 DEF MarksKept

LEMMA StepFindsMore ==
  ASSUME IInv, [Next]_vars, inserted' # <<>>
  PROVE  Found \subseteq Found'
<1>1. PICK up, sp : Shape(up, sp)
  BY DEF IInv
<1>2. ASSUME heap' = heap PROVE Found \subseteq Found'
  BY <1>2 DEF Found, trie_match
<1>3. CASE UNCHANGED vars
  BY <1>2, <1>3 DEF vars
<1>4. CASE \E w \in Words : Start(w)
  BY <1>2, <1>4 DEF Start
<1>5. CASE NextSibling \/ Descend \/ Return
  BY <1>2, <1>5 DEF NextSibling, Descend, Return
<1>6. CASE Split
  BY <1>1, <1>6, SplitKeeps, MarksStay
<1>7. CASE AddNode
  BY <1>1, <1>7, AddKeeps, MarksStay
<1>8. CASE Free
  BY <1>8 DEF Free
<1>9. QED
  BY <1>3, <1>4, <1>5, <1>6, <1>7, <1>8 DEF Next, Insertion

(***************************************************************************)
(* A word that is found stays found, however nodes are split, until the    *)
(* trie is freed.                                                          *)
(***************************************************************************)
THEOREM FoundIsKept == Spec => FoundForGood
<1>1. IInv /\ [Next]_vars => [inserted' # <<>> => Found \subseteq Found']_vars
  BY StepFindsMore
<1>2. QED
  BY Invariant, <1>1, PTL DEF Spec, FoundForGood

-----------------------------------------------------------------------------
(***************************************************************************)
(* Children, which is recursive, gives the nodes under a node: from a node *)
(* on, its earlier siblings.                                               *)
(***************************************************************************)
Sons(h, up, n) == { c \in DOMAIN h : IsSon(h, up, c, n) }

Earlier(h, up, m) ==
  IF m = 0 THEN {}
  ELSE IF m = Root THEN {Root} ELSE { c \in Sons(h, up, up[m]) : c <= m }

IsChain(h, f) == f = [m \in 0 .. Len(h) |-> IF m = 0 THEN {} ELSE {m} \cup f[h[m].next]]

LEMMA EarlierIs ==
  ASSUME NEW h, NEW up, NEW sp, Grown(h, up, sp), NEW m \in 0 .. Len(h), m # 0
  PROVE  /\ h[m].next \in 0 .. Len(h) /\ h[m].next < m
         /\ Earlier(h, up, m) = {m} \cup Earlier(h, up, h[m].next)
<1>1. /\ m \in DOMAIN h /\ DOMAIN h = 1 .. Len(h) /\ Len(h) \in Nat /\ m \in Nat
      /\ h[m].next \in 0 .. Len(h) /\ (m # Root => up[m] \in DOMAIN h)
  <2>1. DOMAIN h = 1 .. Len(h) /\ Len(h) \in Nat
    BY GrownFacts
  <2>2. m \in DOMAIN h /\ m \in Nat
    BY <2>1
  <2>3. h[m].next \in DOMAIN h \cup {0} /\ (m # Root => up[m] \in DOMAIN h)
    BY <2>2, GrownFacts
  <2>4. QED
    BY <2>1, <2>2, <2>3
<1>2. PICK n \in 0 .. Len(h) : n = h[m].next
  BY <1>1
<1>3. n # 0 => m # Root /\ n < m /\ IsSon(h, up, n, up[m])
  BY <1>1, <1>2 DEF Grown, Linked
<1>4. CASE m = Root
  BY <1>2, <1>3, <1>4 DEF Earlier, Root
<1>5. CASE m # Root
  <2>1. IsSon(h, up, m, up[m])
    BY <1>1, <1>5 DEF IsSon
  <2>2. ASSUME NEW c \in Sons(h, up, up[m]), c <= m, c # m PROVE c <= n
    <3>1. c \in DOMAIN h /\ c # Root /\ up[c] = up[m]
      BY DEF Sons, IsSon
    <3>2. c < m
      BY <1>1, <2>2, <3>1
    <3>3. QED
      BY <1>1, <1>2, <1>5, <3>1, <3>2 DEF Grown, Linked
  <2>3. Earlier(h, up, m) = { c \in Sons(h, up, up[m]) : c <= m }
    BY <1>1, <1>5 DEF Earlier
  <2>4. m \in Sons(h, up, up[m]) /\ m <= m
    BY <1>1, <2>1 DEF Sons
  <2>5. \A c \in Sons(h, up, up[m]) : c \in Nat /\ c >= 1
    BY <1>1 DEF Sons
  <2>6. CASE n = 0
    <3>1. Earlier(h, up, n) = {}
      BY <2>6 DEF Earlier
    <3>2. \A c \in Sons(h, up, up[m]) : c <= m => c = m
      BY <2>2, <2>5, <2>6
    <3>3. QED
      BY <1>1, <1>2, <2>3, <2>4, <2>6, <3>1, <3>2
  <2>7. CASE n # 0
    <3>1. IsSon(h, up, n, up[m]) /\ n < m /\ n # Root /\ up[n] = up[m]
      BY <1>3, <2>7 DEF IsSon
    <3>2. Earlier(h, up, n) = { c \in Sons(h, up, up[m]) : c <= n }
      BY <2>7, <3>1 DEF Earlier
    <3>3. \A c \in Sons(h, up, up[m]) : c <= n => c <= m
      BY <1>1, <1>2, <2>5, <3>1
    <3>4. QED
      BY <1>2, <2>2, <2>3, <2>4, <3>1, <3>2, <3>3
  <2>8. QED
    BY <2>6, <2>7
<1>6. n < m
  BY <1>1, <1>2, <1>3
<1>7. QED
  BY <1>2, <1>4, <1>5, <1>6

LEMMA ChainIs ==
  ASSUME NEW h, NEW up, NEW sp, Grown(h, up, sp), NEW f, IsChain(h, f)
  PROVE  \A m \in 0 .. Len(h) : f[m] = Earlier(h, up, m)
<1> DEFINE S == { m \in Nat : m <= Len(h) => f[m] = Earlier(h, up, m) }
<1>1. Len(h) \in Nat
  BY GrownFacts
<1>2. ASSUME NEW m \in Nat, \A l \in Nat : l < m => l \in S, m <= Len(h)
      PROVE  f[m] = Earlier(h, up, m)
  <2>1. m \in 0 .. Len(h)
    BY <1>1, <1>2
  <2>2. f[m] = IF m = 0 THEN {} ELSE {m} \cup f[h[m].next]
    BY <2>1 DEF IsChain
  <2>3. CASE m = 0
    BY <2>2, <2>3 DEF Earlier
  <2>4. CASE m # 0
    <3>1. /\ h[m].next \in 0 .. Len(h) /\ h[m].next < m
          /\ Earlier(h, up, m) = {m} \cup Earlier(h, up, h[m].next)
      BY <2>1, <2>4, EarlierIs
    <3>2. f[h[m].next] = Earlier(h, up, h[m].next)
      BY <1>1, <1>2, <3>1
    <3>3. QED
      BY <2>2, <2>4, <3>1, <3>2
  <2>5. QED
    BY <2>3, <2>4
<1>3. Nat \subseteq S
  <2>1. \A m \in Nat : (\A l \in Nat : l < m => l \in S) => m \in S
    BY <1>2
  <2> HIDE DEF S
  <2>2. QED
    BY <2>1, SetInduction
<1>4. QED
  BY <1>1, <1>3

LEMMA ChildrenAre ==
  ASSUME NEW h, NEW up, NEW sp, Grown(h, up, sp), NEW n \in DOMAIN h
  PROVE  Children(h, n) = Sons(h, up, n)
<1>1. PICK f : f = CHOOSE g : IsChain(h, g)
  OBVIOUS
<1>2. \E g : IsChain(h, g)
  <2>1. PICK g : g = [m \in 0 .. Len(h) |-> Earlier(h, up, m)]
    OBVIOUS
  <2>2. ASSUME NEW m \in 0 .. Len(h)
        PROVE  Earlier(h, up, m) = IF m = 0 THEN {} ELSE {m} \cup g[h[m].next]
    <3>1. CASE m = 0
      BY <3>1 DEF Earlier
    <3>2. CASE m # 0
      BY <2>1, <3>2, EarlierIs
    <3>3. QED
      BY <3>1, <3>2
  <2>3. IsChain(h, g)
    BY <2>1, <2>2 DEF IsChain
  <2>4. QED
    BY <2>3
<1>3. IsChain(h, f)
  BY <1>1, <1>2
<1>4. Children(h, n) = f[h[n].follow]
  BY <1>1 DEF Children, IsChain
<1>5. h[n].follow \in 0 .. Len(h) /\ DOMAIN h = 1 .. Len(h) /\ Len(h) \in Nat
  <2>1. h[n].follow \in DOMAIN h \cup {0} /\ DOMAIN h = 1 .. Len(h) /\ Len(h) \in Nat
    BY GrownFacts
  <2>2. QED
    BY <2>1
<1>6. f[h[n].follow] = Earlier(h, up, h[n].follow)
  BY <1>3, <1>5, ChainIs
<1>7. \A c \in Sons(h, up, n) : c <= h[n].follow /\ c >= 1 /\ c \in Nat
  BY <1>5, SonFacts DEF Sons
<1>8. CASE h[n].follow = 0
  <2>1. Sons(h, up, n) = {}
    BY <1>5, <1>7, <1>8
  <2>2. QED
    BY <1>4, <1>6, <1>8, <2>1 DEF Earlier
<1>9. CASE h[n].follow # 0
  <2>1. IsSon(h, up, h[n].follow, n)
    BY <1>9 DEF Grown, Linked
  <2>2. Earlier(h, up, h[n].follow) = { c \in Sons(h, up, n) : c <= h[n].follow }
    BY <1>9, <2>1 DEF Earlier, IsSon
  <2>3. QED
    BY <1>4, <1>6, <1>7, <2>2
<1>10. QED
  BY <1>8, <1>9

LEMMA TreeFollows ==
  ASSUME IInv
  PROVE  IsTree
<1>1. PICK up, sp : Shape(up, sp)
  BY DEF IInv
<1>2. Grown(heap, up, sp) /\ TypeOK
  BY <1>1 DEF Shape, IInv
<1>3. \A n \in NodeIds : Children(heap, n) = Sons(heap, up, n)
  BY <1>2, ChildrenAre DEF NodeIds
<1>4. UNION { Children(heap, n) : n \in NodeIds } = NodeIds \ {Root}
  <2>1. ASSUME NEW n \in NodeIds, NEW c \in Children(heap, n) PROVE c \in NodeIds \ {Root}
    BY <1>3 DEF Sons, IsSon, NodeIds
  <2>2. ASSUME NEW c \in NodeIds \ {Root} PROVE \E n \in NodeIds : c \in Children(heap, n)
    <3>1. up[c] \in NodeIds /\ IsSon(heap, up, c, up[c])
      BY <1>2, GrownFacts DEF NodeIds
    <3>2. c \in Children(heap, up[c])
      BY <1>3, <3>1 DEF Sons, NodeIds
    <3>3. QED
      BY <3>1, <3>2
  <2>3. QED
    BY <2>1, <2>2
<1>5. \A m, n \in NodeIds : m # n => Children(heap, m) \cap Children(heap, n) = {}
  BY <1>3 DEF Sons, IsSon
<1>6. ASSUME NEW p \in NodeIds, NEW m \in Children(heap, p), NEW n \in Children(heap, p),
             heap[m].radix[1] = heap[n].radix[1]
      PROVE  m = n
  <2>1. IsSon(heap, up, m, p) /\ IsSon(heap, up, n, p)
    BY <1>3 DEF Sons
  <2>2. QED
    BY <1>2, <1>6, <2>1 DEF Grown, Spelled, IsSon
<1>7. QED
  BY <1>2, <1>4, <1>5, <1>6 DEF IsTree

(***************************************************************************)
(* The nodes are a tree, and no two children of a node begin alike.        *)
(***************************************************************************)
THEOREM TreeIsTree == Spec => []IsTree
BY Invariant, TreeFollows, PTL
=============================================================================
