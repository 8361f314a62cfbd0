---------------------------- MODULE Walker_proofs ----------------------------
(***************************************************************************)
(* Proofs about Walker: the stacks of every walk, the methods called and   *)
(* the tables of pilots and methods are right, and Walker implements       *)
(* TreeWalks, for all trees, pilots, labels and hash functions.            *)
(***************************************************************************)
EXTENDS Walker, ProofBasics

(***************************************************************************)
(* What holds of the frame f of a walk of t, with t as a parameter.        *)
(***************************************************************************)
FramesOf(t) ==
  [ pilot : Pilots, root : WastNodes(t) \cup {NoNode},
    a : WastNodes(t) \cup {NoNode}, next : WastNodes(t) \cup {NoNode},
    d : Answers \cup {Visiting}, answer : Answers \cup {Visiting},
    opd : Nat, stack : Seq(WastNodes(t)), ofs_stack : Seq(Nat),
    asked : Nat, method : Methods \cup {<<>>} ]

\* The stacks lead down from the root of the walk, visit or not.
InStep(t, f) ==
  /\ Len(f.stack) = Len(f.ofs_stack)
  /\ IF f.stack = <<>> THEN f.next = NoNode ELSE f.stack[1] = f.root
  /\ \A i \in 1 .. Len(f.stack) - 1 : f.stack[i + 1] = wa_opd(t, f.stack[i], f.ofs_stack[i + 1])

\* The current node is the operand opd of the father on top, or the root.
AtPlace(t, f) ==
  /\ f.a # NoNode
  /\ f.a = IF f.stack = <<>> THEN f.root ELSE wa_opd(t, Last(f.stack), f.opd)

Right(t, f) ==
  /\ f \in FramesOf(t) /\ InStep(t, f)
  /\ f.d \in {Visiting, "Down", "Up"} => AtPlace(t, f)
  /\ f.d = Visiting => f.method = Symbol(f.pilot, wa_op(t, f.a))

AllRight(t, s) == s \in Seq(FramesOf(t)) /\ \A k \in DOMAIN s : Right(t, s[k])

\* A method that was remembered is the one that would be looked up.
MethodsRight(known) ==
  \A p \in Pilots, r \in Rows : \A i \in DOMAIN known[p][r] :
    known[p][r][i].e = Symbol(p, known[p][r][i].key)

\* Entries of keys of K with elements of E.
TablesOf(K, E) == [Rows -> Seq([key : K, e : E])]

\* p is in the cache c; and it is the one its row begins with.
Cached(c, p)  == \E i \in DOMAIN c[HashRow[p]] : c[HashRow[p]][i].key = p
InFront(c, p) == c[HashRow[p]] # <<>> /\ c[HashRow[p]][1].key = p

(***************************************************************************)
(* The cache c has the pilots s that were asked for, each in its own row,  *)
(* in front the one of the row that was asked for last.                    *)
(***************************************************************************)
CacheRight(c, s) ==
  /\ c \in TablesOf(Pilots, Pilots) /\ s \in Seq(Pilots)
  /\ \A r \in Rows : \A i \in DOMAIN c[r] : c[r][i].e = c[r][i].key /\ HashRow[c[r][i].key] = r
  /\ \A p \in Pilots : /\ p \in Range(s) <=> Cached(c, p)
                       /\ InFront(c, p) <=> p \in Range(s) /\ ~ Overtaken(s, p)

\* A library is open once for a pilot asked for, and for each time it was forgotten.
OpensRight(o, g, s) ==
  /\ o \in [Pilots -> Nat] /\ g \in [Pilots -> Nat]
  /\ \A p \in Pilots : o[p] = g[p] + (IF p \in Range(s) THEN 1 ELSE 0)

MethodsKnown(known) ==
  /\ known \in [Pilots -> TablesOf(Labels, Methods)]
  /\ MethodsRight(known) /\ \A p \in Pilots : KeptOnce(known[p])

(***************************************************************************)
(* The inductive invariant.  A frame is right between visits also: the     *)
(* stacks lead down from the root whatever the direction; with Next alone  *)
(* the current node need not be below the father on top (after an Up).     *)
(***************************************************************************)
IInv ==
  /\ tree \in Trees
  /\ CacheRight(cache, requested)
  /\ OpensRight(opens, forgotten, requested)
  /\ MethodsKnown(methods)
  /\ AllRight(tree, walks)
-----------------------------------------------------------------------------
LEMMA OperandFacts ==
  ASSUME NEW t, IsWast(t), NEW n \in WastNodes(t), NEW i \in Nat
  PROVE  /\ n \in Nat /\ n # NoNode /\ NoNode \notin WastNodes(t)
         /\ wa_opd_count(t, n) \in Nat
         /\ i < wa_opd_count(t, n) =>
              /\ i + 1 \in DOMAIN t.operands[n] /\ wa_opd(t, n, i) = t.operands[n][i + 1]
              /\ wa_opd(t, n, i) \in WastNodes(t) /\ wa_opd(t, n, i) > n
         /\ ~ (i < wa_opd_count(t, n)) => wa_opd(t, n, i) = NoNode
<1>1. /\ t.operands[n] \in Seq(WastNodes(t)) /\ WastNodes(t) \subseteq Nat \ {NoNode}
      /\ \A k \in DOMAIN t.operands[n] : t.operands[n][k] > n
  BY DEF IsWast
<1>2. /\ Len(t.operands[n]) \in Nat /\ DOMAIN t.operands[n] = 1 .. Len(t.operands[n])
      /\ \A k \in 1 .. Len(t.operands[n]) : t.operands[n][k] \in WastNodes(t)
  BY <1>1, LenProperties, ElementOfSeq
<1>3. i < Len(t.operands[n]) => i + 1 \in 1 .. Len(t.operands[n])
  BY <1>2
<1>4. QED
  BY <1>1, <1>2, <1>3 DEF wa_opd, wa_opd_count, NoNode

LEMMA TreeFacts ==
  ASSUME TypeOK
  PROVE  /\ IsWast(tree) /\ tree.root \in WastNodes(tree)
         /\ \A n \in WastNodes(tree) : wa_op(tree, n) \in Labels
<1>1. IsWast(tree) /\ Range(tree.label) \subseteq Labels
  BY WalkerAssumption DEF TypeOK
<1>2. tree.root \in WastNodes(tree) /\ DOMAIN tree.label = WastNodes(tree)
  BY <1>1 DEF IsWast
<1>3. QED
  BY <1>1, <1>2 DEF wa_op, Range

(***************************************************************************)
(* hashtab: what is found has the key asked for, and nothing is found only *)
(* where nothing is; an entry goes in front of its row.                    *)
(***************************************************************************)
LEMMA FindFacts ==
  ASSUME NEW K, NEW E, NEW tab \in TablesOf(K, E), NEW key \in DOMAIN HashRow
  PROVE  /\ HashRow[key] \in Rows
         /\ hash_find_e(tab, key) # NoEntry =>
              \E i \in DOMAIN tab[HashRow[key]] :
                /\ hash_find_e(tab, key) = tab[HashRow[key]][i]
                /\ tab[HashRow[key]][i].key = key
         /\ hash_find_e(tab, key) = NoEntry =>
              \A i \in DOMAIN tab[HashRow[key]] : tab[HashRow[key]][i].key # key
<1> DEFINE row  == tab[HashRow[key]]
           here == { i \in DOMAIN row : row[i].key = key }
<1>1. HashRow[key] \in Rows
  BY DEF Rows, Range
<1>2. row \in Seq([key : K, e : E]) /\ DOMAIN row = 1 .. Len(row) /\ Len(row) \in Nat
  BY <1>1, LenProperties DEF TablesOf
<1>3. \A i \in DOMAIN row : row[i] \in [key : K, e : E]
  BY <1>2, ElementOfSeq
<1>4. \A i \in DOMAIN row : row[i] # NoEntry
  <2> SUFFICES ASSUME NEW x \in [key : K, e : E] PROVE x # NoEntry
    BY <1>3
  <2>1. "e" \in DOMAIN x
    OBVIOUS
  <2>2. "e" \notin DOMAIN NoEntry
    BY DEF NoEntry
  <2>3. QED
    BY <2>1, <2>2
<1>5. hash_find_e(tab, key) = IF here = {} THEN NoEntry ELSE row[Min(here)]
  BY DEF hash_find_e
<1>6. here # {} => Min(here) \in here
  <2>1. here \in SUBSET Nat
    BY <1>2
  <2>2. here # {} => \E x \in here : \A y \in here : x <= y
    BY <2>1, Least
  <2>3. QED
    BY <2>2 DEF Min
<1>7. QED
  BY <1>1, <1>4, <1>5, <1>6

LEMMA AddFacts ==
  ASSUME NEW K, NEW E, NEW tab \in TablesOf(K, E), NEW key \in DOMAIN HashRow,
         key \in K, NEW e \in E
  PROVE  /\ hash_addelem(tab, key, e) \in TablesOf(K, E)
         /\ \A r \in Rows : \A i \in DOMAIN hash_addelem(tab, key, e)[r] :
              \/ hash_addelem(tab, key, e)[r][i] = [key |-> key, e |-> e]
              \/ \E j \in DOMAIN tab[r] : hash_addelem(tab, key, e)[r][i] = tab[r][j]
         /\ KeptOnce(tab) /\ hash_find_e(tab, key) = NoEntry => KeptOnce(hash_addelem(tab, key, e))
         /\ 1 \in DOMAIN hash_addelem(tab, key, e)[HashRow[key]]
         /\ hash_addelem(tab, key, e)[HashRow[key]][1] = [key |-> key, e |-> e]
         /\ \A j \in DOMAIN tab[HashRow[key]] : \E i \in DOMAIN hash_addelem(tab, key, e)[HashRow[key]] :
              hash_addelem(tab, key, e)[HashRow[key]][i] = tab[HashRow[key]][j]
         /\ \A r \in Rows \ {HashRow[key]} : hash_addelem(tab, key, e)[r] = tab[r]
<1> DEFINE row == HashRow[key]
           new == [key |-> key, e |-> e]
           more == << new >> \o tab[row]
           after == hash_addelem(tab, key, e)
<1>1. row \in Rows /\ tab[row] \in Seq([key : K, e : E]) /\ << new >> \in Seq([key : K, e : E])
  <2>1. row \in Rows
    BY DEF Rows, Range
  <2>2. new \in [key : K, e : E]
    OBVIOUS
  <2>3. << new >> \in Seq([key : K, e : E])
    BY <2>2, OneElement
  <2>4. QED
    BY <2>1, <2>3 DEF TablesOf
<1>2. Len(tab[row]) \in Nat /\ DOMAIN tab[row] = 1 .. Len(tab[row])
  BY <1>1, LenProperties
<1>3. /\ more \in Seq([key : K, e : E]) /\ Len(more) = 1 + Len(tab[row])
      /\ \A i \in 1 .. 1 + Len(tab[row]) : more[i] = IF i <= 1 THEN << new >>[i] ELSE tab[row][i - 1]
  <2>1. Len(<< new >>) = 1
    OBVIOUS
  <2>2. PICK one \in Seq([key : K, e : E]), s \in Seq([key : K, e : E]) : one = << new >> /\ s = tab[row]
    BY <1>1
  <2>3. /\ one \o s \in Seq([key : K, e : E]) /\ Len(one \o s) = Len(one) + Len(s)
        /\ \A i \in 1 .. Len(one) + Len(s) : (one \o s)[i] = IF i <= Len(one) THEN one[i] ELSE s[i - Len(one)]
    BY ConcatProperties
  <2>4. QED
    BY <2>1, <2>2, <2>3
<1>4. /\ DOMAIN more = 1 .. 1 + Len(tab[row]) /\ more[1] = new
      /\ \A i \in DOMAIN more \ {1} : i - 1 \in DOMAIN tab[row] /\ more[i] = tab[row][i - 1]
  BY <1>2, <1>3, LenProperties
<1>5. after = [tab EXCEPT ![row] = more]
  BY DEF hash_addelem
<1> HIDE DEF more
<1>6. /\ after \in [Rows -> Seq([key : K, e : E])] /\ after[row] = more
      /\ \A r \in Rows \ {row} : after[r] = tab[r]
  BY <1>1, <1>3, <1>5 DEF TablesOf
<1> HIDE DEF after
<1>7. \A r \in Rows : \A i \in DOMAIN after[r] : after[r][i] = new \/ \E j \in DOMAIN tab[r] : after[r][i] = tab[r][j]
  <2>1. ASSUME NEW i \in DOMAIN more PROVE more[i] = new \/ \E j \in DOMAIN tab[row] : more[i] = tab[row][j]
    BY <1>4
  <2>2. QED
    BY <1>6, <2>1
<1>8. ASSUME KeptOnce(tab), hash_find_e(tab, key) = NoEntry,
             NEW r \in Rows, NEW i \in DOMAIN after[r], NEW j \in DOMAIN after[r],
             after[r][i].key = after[r][j].key
      PROVE  i = j
  <2>1. CASE r # row
    BY <1>6, <1>8, <2>1 DEF KeptOnce
  <2>2. CASE r = row
    <3>1. \A k \in DOMAIN tab[row] : tab[row][k].key # key
      BY <1>8, FindFacts
    <3>2. new.key = key
      OBVIOUS
    <3>3. i \in DOMAIN more /\ j \in DOMAIN more /\ more[i].key = more[j].key
      BY <1>6, <1>8, <2>2
    <3>4. CASE i = 1 \/ j = 1
      BY <1>4, <3>1, <3>2, <3>3, <3>4
    <3>5. CASE i # 1 /\ j # 1
      <4>1. i - 1 = j - 1
        BY <1>1, <1>4, <1>8, <3>3, <3>5 DEF KeptOnce
      <4>2. i \in Nat /\ j \in Nat
        BY <1>2, <1>4, <3>3
      <4>3. QED
        BY <4>1, <4>2
    <3>6. QED
      BY <3>4, <3>5
  <2>3. QED
    BY <2>1, <2>2
<1>9. KeptOnce(tab) /\ hash_find_e(tab, key) = NoEntry => KeptOnce(after)
  BY <1>8 DEF KeptOnce
<1>10. 1 \in DOMAIN after[row] /\ after[row][1] = new
  BY <1>2, <1>4, <1>6
<1>11. ASSUME NEW j \in DOMAIN tab[row] PROVE \E i \in DOMAIN after[row] : after[row][i] = tab[row][j]
  <2>1. j \in 1 .. Len(tab[row]) /\ j + 1 \in DOMAIN more \ {1} /\ (j + 1) - 1 = j
    BY <1>2, <1>4
  <2>2. more[j + 1] = tab[row][j]
    BY <1>4, <2>1
  <2>3. QED
    BY <1>6, <2>1, <2>2
<1>12. QED
  BY <1>6, <1>7, <1>9, <1>10, <1>11 DEF after, TablesOf

-----------------------------------------------------------------------------
(***************************************************************************)
(* The cases of the switch keep the stacks in step.                        *)
(***************************************************************************)
LEMMA StackFacts ==
  ASSUME NEW t, NEW f \in FramesOf(t), InStep(t, f)
  PROVE  /\ f.stack \in Seq(WastNodes(t)) /\ f.ofs_stack \in Seq(Nat)
         /\ Len(f.stack) \in Nat /\ Len(f.ofs_stack) = Len(f.stack)
         /\ DOMAIN f.stack = 1 .. Len(f.stack) /\ DOMAIN f.ofs_stack = 1 .. Len(f.stack)
         /\ f.stack # <<>> => /\ Len(f.stack) >= 1 /\ f.ofs_stack # <<>>
                              /\ Last(f.stack) = f.stack[Len(f.stack)]
                              /\ Last(f.stack) \in WastNodes(t)
<1>1. /\ f.stack \in Seq(WastNodes(t)) /\ f.ofs_stack \in Seq(Nat)
      /\ Len(f.stack) = Len(f.ofs_stack)
  BY DEF FramesOf, InStep
<1>2. /\ Len(f.stack) \in Nat
      /\ DOMAIN f.stack = 1 .. Len(f.stack) /\ DOMAIN f.ofs_stack = 1 .. Len(f.stack)
  BY <1>1, LenProperties
<1>3. f.stack # <<>> => /\ Len(f.stack) >= 1
                        /\ Last(f.stack) = f.stack[Len(f.stack)] /\ Last(f.stack) \in WastNodes(t)
  BY <1>1, FrontFacts
<1>4. f.stack # <<>> => f.ofs_stack # <<>>
  BY <1>1, <1>3, EmptySeq
<1>5. QED
  BY <1>1, <1>2, <1>3, <1>4

LEMMA PushedFacts ==
  ASSUME NEW f, Right(tree, f), f.d = "Down", NEW g, g = Pushed(f)
  PROVE  /\ g \in FramesOf(tree) /\ InStep(tree, g)
         /\ g.stack # <<>> /\ Last(g.stack) = f.a
         /\ g.stack = Append(f.stack, f.a) /\ g.ofs_stack = Append(f.ofs_stack, f.opd)
         /\ g.root = f.root /\ g.a = f.a /\ g.answer = f.answer /\ g.d = f.d /\ g.pilot = f.pilot
<1>1. f \in FramesOf(tree) /\ InStep(tree, f) /\ AtPlace(tree, f)
  BY DEF Right
<1>2. f.a \in WastNodes(tree) /\ f.opd \in Nat
  BY <1>1 DEF FramesOf, AtPlace
<1>3. g = [f EXCEPT !.stack = Append(f.stack, f.a), !.ofs_stack = Append(f.ofs_stack, f.opd)]
  BY DEF Pushed
<1>4. /\ Append(f.stack, f.a) \in Seq(WastNodes(tree)) /\ Append(f.ofs_stack, f.opd) \in Seq(Nat)
      /\ Len(f.stack) \in Nat /\ Len(f.ofs_stack) = Len(f.stack)
      /\ Append(f.stack, f.a) # <<>> /\ Last(Append(f.stack, f.a)) = f.a
      /\ Len(Append(f.stack, f.a)) = Len(f.stack) + 1 /\ Append(f.stack, f.a)[Len(f.stack) + 1] = f.a
      /\ Len(Append(f.ofs_stack, f.opd)) = Len(f.stack) + 1
      /\ Append(f.ofs_stack, f.opd)[Len(f.stack) + 1] = f.opd
      /\ \A i \in 1 .. Len(f.stack) : /\ Append(f.stack, f.a)[i] = f.stack[i]
                                      /\ Append(f.ofs_stack, f.opd)[i] = f.ofs_stack[i]
  BY <1>1, <1>2, StackFacts, AppendFacts
<1>5. /\ g \in FramesOf(tree)
      /\ g.stack = Append(f.stack, f.a) /\ g.ofs_stack = Append(f.ofs_stack, f.opd)
      /\ g.root = f.root /\ g.a = f.a /\ g.answer = f.answer /\ g.d = f.d /\ g.pilot = f.pilot
  BY <1>1, <1>3, <1>4 DEF FramesOf
<1>6. InStep(tree, g)
  <2>1. g.stack[1] = g.root
    <3>1. CASE f.stack = <<>>
      <4>1. Len(f.stack) = 0
        BY <3>1
      <4>2. QED
        BY <1>1, <1>4, <1>5, <3>1, <4>1 DEF AtPlace
    <3>2. CASE f.stack # <<>>
      <4>1. 1 \in 1 .. Len(f.stack)
        BY <1>1, <3>2, StackFacts
      <4>2. QED
        BY <1>1, <1>4, <1>5, <3>2, <4>1 DEF InStep
    <3>3. QED
      BY <3>1, <3>2
  <2>2. ASSUME NEW i \in 1 .. Len(g.stack) - 1
        PROVE  g.stack[i + 1] = wa_opd(tree, g.stack[i], g.ofs_stack[i + 1])
    <3>1. i \in 1 .. Len(f.stack) /\ g.stack[i] = f.stack[i]
      BY <1>4, <1>5
    <3>2. CASE i = Len(f.stack)
      <4>1. f.stack # <<>> /\ Last(f.stack) = f.stack[i]
        BY <1>1, <3>1, <3>2, StackFacts
      <4>2. QED
        BY <1>1, <1>4, <1>5, <3>1, <3>2, <4>1 DEF AtPlace
    <3>3. CASE i # Len(f.stack)
      <4>1. i \in 1 .. Len(f.stack) - 1 /\ i + 1 \in 1 .. Len(f.stack)
        BY <1>4, <3>1, <3>3
      <4>2. QED
        BY <1>1, <1>4, <1>5, <3>1, <4>1 DEF InStep
    <3>4. QED
      BY <3>2, <3>3
  <2>3. QED
    BY <1>4, <1>5, <2>1, <2>2 DEF InStep
<1>7. QED
  BY <1>4, <1>5, <1>6

LEMMA PoppedFacts ==
  ASSUME NEW f \in FramesOf(tree), InStep(tree, f), f.stack # <<>>, NEW g, g = Popped(f)
  PROVE  /\ g \in FramesOf(tree) /\ InStep(tree, g)
         /\ g.next = NoNode /\ g.d = "Next"
         /\ g.stack = Front(f.stack) /\ g.opd = Last(f.ofs_stack)
         /\ g.stack # <<>> => Last(f.stack) = wa_opd(tree, Last(g.stack), g.opd)
         /\ g.stack = <<>> => Last(f.stack) = f.root
         /\ g.root = f.root /\ g.a = f.a /\ g.answer = f.answer /\ g.pilot = f.pilot
<1>0. PICK n : n = Len(f.stack)
  OBVIOUS
<1>1. /\ n \in Nat /\ n >= 1 /\ Len(f.ofs_stack) = n
      /\ f.stack \in Seq(WastNodes(tree)) /\ f.ofs_stack \in Seq(Nat) /\ f.ofs_stack # <<>>
  BY <1>0, StackFacts
<1>2. /\ Front(f.stack) \in Seq(WastNodes(tree)) /\ Len(Front(f.stack)) = n - 1
      /\ \A i \in 1 .. n - 1 : Front(f.stack)[i] = f.stack[i]
      /\ Last(f.stack) = f.stack[n]
  BY <1>0, <1>1, FrontFacts
<1>3. /\ Front(f.ofs_stack) \in Seq(Nat) /\ Len(Front(f.ofs_stack)) = n - 1
      /\ \A i \in 1 .. n - 1 : Front(f.ofs_stack)[i] = f.ofs_stack[i]
      /\ Last(f.ofs_stack) = f.ofs_stack[n] /\ Last(f.ofs_stack) \in Nat
  BY <1>1, FrontFacts
<1>4. g = [f EXCEPT !.next = NoNode, !.stack = Front(f.stack), !.ofs_stack = Front(f.ofs_stack),
                    !.opd = Last(f.ofs_stack), !.d = "Next"]
  BY DEF Popped
<1>5. /\ g \in FramesOf(tree)
      /\ g.next = NoNode /\ g.d = "Next" /\ g.stack = Front(f.stack) /\ g.opd = Last(f.ofs_stack)
      /\ g.ofs_stack = Front(f.ofs_stack)
      /\ g.root = f.root /\ g.a = f.a /\ g.answer = f.answer /\ g.pilot = f.pilot
  BY <1>2, <1>3, <1>4 DEF FramesOf, Answers
<1>6. CASE n = 1
  <2>1. g.stack = <<>>
    BY <1>2, <1>5, <1>6, EmptySeq
  <2>2. \A i : i \notin 1 .. Len(g.stack) - 1
    BY <1>2, <1>5, <1>6
  <2>3. QED
    BY <1>2, <1>3, <1>5, <1>6, <2>1, <2>2 DEF InStep
<1>7. CASE n # 1
  <2>1. Len(g.stack) = n - 1 /\ g.stack # <<>> /\ n - 1 \in 1 .. n - 1 /\ 1 \in 1 .. n - 1
    <3>1. n - 1 \in Nat /\ n - 1 >= 1
      BY <1>1, <1>7
    <3>2. QED
      BY <1>2, <1>5, <3>1, EmptySeq
  <2>2. Last(g.stack) = f.stack[n - 1]
    BY <1>2, <1>5, <2>1 DEF Last
  <2>3. f.stack[n - 1 + 1] = wa_opd(tree, f.stack[n - 1], f.ofs_stack[n - 1 + 1])
    BY <1>0, <2>1 DEF InStep
  <2>4. Last(f.stack) = wa_opd(tree, Last(g.stack), g.opd)
    BY <1>1, <1>2, <1>3, <1>5, <2>2, <2>3
  <2>5. g.stack[1] = g.root
    BY <1>2, <1>5, <2>1 DEF InStep
  <2>6. ASSUME NEW i \in 1 .. Len(g.stack) - 1
        PROVE  g.stack[i + 1] = wa_opd(tree, g.stack[i], g.ofs_stack[i + 1])
    <3>1. i \in 1 .. n - 1 /\ i + 1 \in 1 .. n - 1
      BY <1>1, <2>1
    <3>2. QED
      BY <1>2, <1>3, <1>5, <1>0, <3>1, SMTT(30) DEF InStep
  <2>7. QED
    BY <1>2, <1>3, <1>5, <2>1, <2>4, <2>5, <2>6 DEF InStep
<1>8. QED
  BY <1>6, <1>7

\* What a case of the switch leaves for the end of the turn.
Ready(t, g) ==
  /\ g \in FramesOf(t) /\ InStep(t, g)
  /\ IF g.next = NoNode THEN g.d \in {"Next", "Done"}
     ELSE g.stack # <<>> /\ g.next = wa_opd(t, Last(g.stack), g.opd)

\* What no case changes.
SameVisit(f, g) ==
  g.root = f.root /\ g.a = f.a /\ g.answer = f.answer /\ g.pilot = f.pilot

LEMMA CaseUpFacts ==
  ASSUME NEW f \in FramesOf(tree), InStep(tree, f), NEW g, g = CaseUp(f)
  PROVE  Ready(tree, g) /\ SameVisit(f, g) /\ g.next = NoNode
<1>1. CASE f.stack # <<>>
  BY <1>1, PoppedFacts DEF CaseUp, Ready, SameVisit
<1>2. CASE f.stack = <<>>
  <2>1. g = [f EXCEPT !.next = NoNode, !.d = "Done"]
    BY <1>2 DEF CaseUp
  <2>2. /\ g \in FramesOf(tree) /\ g.next = NoNode /\ g.d = "Done" /\ SameVisit(f, g)
        /\ g.stack = f.stack /\ g.ofs_stack = f.ofs_stack
    BY <2>1 DEF FramesOf, Answers, SameVisit
  <2>3. InStep(tree, g)
    BY <1>2, <2>2 DEF InStep
  <2>4. QED
    BY <2>2, <2>3 DEF Ready
<1>3. QED
  BY <1>1, <1>2

LEMMA CaseNextFacts ==
  ASSUME TypeOK, NEW f \in FramesOf(tree), InStep(tree, f), NEW o \in Nat, NEW g, g = CaseNext(f, o)
  PROVE  Ready(tree, g) /\ SameVisit(f, g)
<1>1. CASE f.stack = <<>>
  <2>1. g = [f EXCEPT !.opd = o, !.d = "Done"]
    BY <1>1 DEF CaseNext
  <2>2. /\ g \in FramesOf(tree) /\ g.next = f.next /\ g.d = "Done" /\ SameVisit(f, g)
        /\ g.stack = f.stack /\ g.ofs_stack = f.ofs_stack
    BY <2>1 DEF FramesOf, Answers, SameVisit
  <2>3. InStep(tree, g) /\ g.next = NoNode
    BY <1>1, <2>2 DEF InStep, SameVisit
  <2>4. QED
    BY <2>2, <2>3 DEF Ready
<1>2. CASE f.stack # <<>> /\ o < wa_opd_count(tree, Last(f.stack))
  <2>1. g = [f EXCEPT !.opd = o, !.next = wa_opd(tree, Last(f.stack), o)]
    BY <1>2 DEF CaseNext
  <2>2. wa_opd(tree, Last(f.stack), o) \in WastNodes(tree) /\ wa_opd(tree, Last(f.stack), o) # NoNode
    BY <1>2, StackFacts, OperandFacts, TreeFacts
  <2>3. /\ g \in FramesOf(tree) /\ g.next = wa_opd(tree, Last(f.stack), o) /\ SameVisit(f, g)
        /\ g.stack = f.stack /\ g.ofs_stack = f.ofs_stack /\ g.opd = o
    BY <2>1, <2>2 DEF FramesOf, SameVisit
  <2>4. InStep(tree, g)
    BY <1>2, <2>3 DEF InStep, SameVisit
  <2>5. QED
    BY <1>2, <2>2, <2>3, <2>4 DEF Ready
<1>3. CASE f.stack # <<>> /\ ~ (o < wa_opd_count(tree, Last(f.stack)))
  <2> DEFINE m == [f EXCEPT !.opd = o]
  <2>1. g = CaseUp(m)
    BY <1>3 DEF CaseNext
  <2>2. /\ m \in FramesOf(tree) /\ m.stack = f.stack /\ m.ofs_stack = f.ofs_stack
        /\ m.root = f.root /\ m.next = f.next /\ SameVisit(f, m)
    BY DEF FramesOf, SameVisit
  <2>3. InStep(tree, m)
    BY <2>2 DEF InStep
  <2> HIDE DEF m
  <2>4. Ready(tree, g) /\ SameVisit(m, g)
    BY <2>1, <2>2, <2>3, CaseUpFacts
  <2>5. QED
    BY <2>2, <2>4 DEF SameVisit
<1>4. QED
  BY <1>1, <1>2, <1>3

LEMMA CaseDownFacts ==
  ASSUME TypeOK, NEW f, Right(tree, f), f.d = "Down", NEW g, g = CaseDown(f)
  PROVE  Ready(tree, g) /\ SameVisit(f, g)
<1>1. PICK m : m = Pushed(f)
  OBVIOUS
<1>2. m \in FramesOf(tree) /\ InStep(tree, m) /\ SameVisit(f, m)
  BY <1>1, PushedFacts DEF SameVisit
<1>3. Ready(tree, g) /\ SameVisit(m, g)
  BY <1>1, <1>2, CaseNextFacts DEF CaseDown
<1>4. QED
  BY <1>2, <1>3 DEF SameVisit
-----------------------------------------------------------------------------
(***************************************************************************)
(* A visit calls the right method, and remembers it rightly.               *)
(***************************************************************************)
LEMMA VisitFacts ==
  ASSUME TypeOK, MethodsRight(methods), \A q \in Pilots : KeptOnce(methods[q]),
         NEW p \in Pilots, NEW n \in WastNodes(tree)
  PROVE  /\ Method(methods, p, wa_op(tree, n)) = Symbol(p, wa_op(tree, n))
         /\ Symbol(p, wa_op(tree, n)) \in Methods
         /\ Remembered(methods, p, wa_op(tree, n))
              \in [Pilots -> [Rows -> Seq([key : Labels, e : Methods])]]
         /\ MethodsRight(Remembered(methods, p, wa_op(tree, n)))
         /\ \A q \in Pilots : KeptOnce(Remembered(methods, p, wa_op(tree, n))[q])
<1>0. PICK label, e, known, added :
         /\ label = wa_op(tree, n) /\ e = Symbol(p, label) /\ known = methods[p]
         /\ added = hash_addelem(known, label, e)
  OBVIOUS
<1>1. label \in Labels /\ label \in DOMAIN HashRow /\ HashRow[label] \in Rows
  BY <1>0, TreeFacts, WalkerAssumption DEF Rows, Range
<1>2. e \in Methods
  BY <1>0, <1>1 DEF Symbol, Methods
<1>3. known \in TablesOf(Labels, Methods)
  BY <1>0 DEF TypeOK, TablesOf
<1>4. CASE hash_find_e(known, label) = NoEntry
  <2>1. /\ added \in TablesOf(Labels, Methods) /\ KeptOnce(added)
        /\ \A r \in Rows : \A i \in DOMAIN added[r] :
             \/ added[r][i] = [key |-> label, e |-> e]
             \/ \E j \in DOMAIN known[r] : added[r][i] = known[r][j]
    <3>1. KeptOnce(known)
      BY <1>0
    <3>2. QED
      BY <1>0, <1>1, <1>2, <1>3, <1>4, <3>1, AddFacts
  <2>2. Remembered(methods, p, label) = [methods EXCEPT ![p] = added]
    BY <1>0, <1>4 DEF Remembered
  <2>3. \A r \in Rows : \A i \in DOMAIN added[r] : added[r][i].e = Symbol(p, added[r][i].key)
    <3>1. \A r \in Rows : \A j \in DOMAIN known[r] : known[r][j].e = Symbol(p, known[r][j].key)
      BY <1>0 DEF MethodsRight
    <3>2. e = Symbol(p, label)
      BY <1>0
    <3>3. QED
      BY <2>1, <3>1, <3>2
  <2>4. /\ [methods EXCEPT ![p] = added] \in [Pilots -> [Rows -> Seq([key : Labels, e : Methods])]]
        /\ [methods EXCEPT ![p] = added][p] = added
        /\ \A q \in Pilots \ {p} : [methods EXCEPT ![p] = added][q] = methods[q]
    BY <2>1 DEF TypeOK, TablesOf
  <2>5. MethodsRight([methods EXCEPT ![p] = added])
    BY <2>3, <2>4 DEF MethodsRight
  <2>6. \A q \in Pilots : KeptOnce([methods EXCEPT ![p] = added][q])
    BY <2>1, <2>4
  <2>7. Method(methods, p, label) = e
    BY <1>0, <1>4 DEF Method
  <2>8. QED
    BY <1>0, <1>2, <2>2, <2>4, <2>5, <2>6, <2>7
<1>5. CASE hash_find_e(known, label) # NoEntry
  <2>1. Remembered(methods, p, label) = methods
    BY <1>0, <1>5 DEF Remembered
  <2>2. PICK i \in DOMAIN known[HashRow[label]] :
          /\ hash_find_e(known, label) = known[HashRow[label]][i]
          /\ known[HashRow[label]][i].key = label
    BY <1>1, <1>3, <1>5, FindFacts
  <2>3. Method(methods, p, label) = known[HashRow[label]][i].e
    BY <1>0, <1>5, <2>2 DEF Method
  <2>4. known[HashRow[label]][i].e = e
    BY <1>0, <1>1, <2>2 DEF MethodsRight
  <2>5. QED
    BY <1>0, <1>2, <2>1, <2>3, <2>4 DEF TypeOK
<1>6. QED
  BY <1>4, <1>5

-----------------------------------------------------------------------------
(***************************************************************************)
(* What the parts of the invariant say together.                           *)
(***************************************************************************)
LEMMA Parts == IInv => TypeOK /\ OpensAccounted /\ MethodsRight(methods)
<1> SUFFICES ASSUME IInv PROVE TypeOK /\ OpensAccounted /\ MethodsRight(methods)
  OBVIOUS
<1>1. Frames = FramesOf(tree)
  BY DEF Frames, FramesOf, Pointers
<1>2. TypeOK
  BY <1>1 DEF TypeOK, IInv, CacheRight, OpensRight, MethodsKnown, AllRight, TablesOf
<1>3. OpensAccounted
  BY DEF IInv, OpensRight, MethodsKnown, OpensAccounted, InUse
<1>4. QED
  BY <1>2, <1>3 DEF IInv, MethodsKnown

LEMMA FrontRight ==
  ASSUME NEW t, NEW s, AllRight(t, s), s # <<>>
  PROVE  AllRight(t, Front(s)) /\ Right(t, Last(s)) /\ Last(s) \in FramesOf(t)
<1>1. PICK x \in Seq(FramesOf(t)) : x = s
  BY DEF AllRight
<1>2. /\ Len(x) \in Nat /\ Len(x) >= 1 /\ DOMAIN x = 1 .. Len(x) /\ Last(x) = x[Len(x)]
      /\ Front(x) \in Seq(FramesOf(t)) /\ DOMAIN Front(x) = 1 .. Len(x) - 1
      /\ \A i \in 1 .. Len(x) - 1 : Front(x)[i] = x[i]
  BY <1>1, FrontFacts
<1>3. /\ \A k \in 1 .. Len(x) - 1 : k \in DOMAIN x
      /\ Len(x) \in DOMAIN x
  BY <1>2
<1>4. \A k \in DOMAIN x : Right(t, x[k])
  BY <1>1 DEF AllRight
<1>5. Right(t, Last(x)) /\ \A k \in DOMAIN Front(x) : Right(t, Front(x)[k])
  BY <1>2, <1>3, <1>4
<1>6. QED
  BY <1>1, <1>2, <1>5 DEF AllRight, Right

LEMMA AppendRight ==
  ASSUME NEW t, NEW s, AllRight(t, s), NEW f, Right(t, f)
  PROVE  AllRight(t, Append(s, f))
<1>1. s \in Seq(FramesOf(t)) /\ f \in FramesOf(t) /\ \A k \in DOMAIN s : Right(t, s[k])
  BY DEF AllRight, Right
<1>2. /\ Append(s, f) \in Seq(FramesOf(t)) /\ Len(s) \in Nat /\ DOMAIN s = 1 .. Len(s)
      /\ DOMAIN Append(s, f) = 1 .. Len(s) + 1
      /\ Append(s, f)[Len(s) + 1] = f /\ \A i \in 1 .. Len(s) : Append(s, f)[i] = s[i]
  BY <1>1, AppendFacts
<1>3. ASSUME NEW k \in DOMAIN Append(s, f) PROVE Right(t, Append(s, f)[k])
  <2>1. k \in 1 .. Len(s) \/ k = Len(s) + 1
    BY <1>2
  <2>2. QED
    BY <1>1, <1>2, <2>1
<1>4. QED
  BY <1>2, <1>3 DEF AllRight

(***************************************************************************)
(* A frame that visits a node it was at the place of is right.             *)
(***************************************************************************)
LEMMA VisitedRight ==
  ASSUME IInv, NEW f \in FramesOf(tree), InStep(tree, f), NEW n \in WastNodes(tree),
         n = IF f.stack = <<>> THEN f.root ELSE wa_opd(tree, Last(f.stack), f.opd)
  PROVE  /\ Right(tree, Visited(f, n, methods))
         /\ MethodsKnown(Remembered(methods, f.pilot, wa_op(tree, n)))
<1>1. TypeOK /\ MethodsRight(methods) /\ (\A q \in Pilots : KeptOnce(methods[q])) /\ f.pilot \in Pilots
  BY Parts DEF IInv, MethodsKnown, FramesOf
<1>2. PICK m : m = Symbol(f.pilot, wa_op(tree, n))
  OBVIOUS
<1>3. /\ Method(methods, f.pilot, wa_op(tree, n)) = m /\ m \in Methods
      /\ MethodsKnown(Remembered(methods, f.pilot, wa_op(tree, n)))
  BY <1>1, <1>2, VisitFacts DEF MethodsKnown, TablesOf
<1>4. PICK g : g = Visited(f, n, methods)
  OBVIOUS
<1>5. g = [f EXCEPT !.a = n, !.d = Visiting, !.answer = Visiting, !.asked = 0, !.method = m]
  BY <1>3, <1>4 DEF Visited
<1>6. /\ g \in FramesOf(tree) /\ g.a = n /\ g.method = m /\ g.pilot = f.pilot /\ g.root = f.root
      /\ g.stack = f.stack /\ g.ofs_stack = f.ofs_stack /\ g.next = f.next /\ g.opd = f.opd
      /\ g.d = Visiting
  BY <1>3, <1>5 DEF FramesOf
<1>7. InStep(tree, g)
  BY <1>6 DEF InStep
<1>8. n # NoNode
  BY <1>1, TreeFacts DEF IsWast
<1>9. AtPlace(tree, g)
  BY <1>6, <1>8 DEF AtPlace
<1>10. QED
  BY <1>2, <1>3, <1>4, <1>6, <1>7, <1>9 DEF Right

(***************************************************************************)
(* The end of a turn.                                                      *)
(***************************************************************************)
LEMMA TurnFacts ==
  ASSUME IInv, walks # <<>>, NEW g, Ready(tree, g), Turn(g)
  PROVE  IInv'
<1>1. AllRight(tree, Front(walks))
  BY FrontRight DEF IInv
<1>2. /\ CacheRight(cache', requested') /\ OpensRight(opens', forgotten', requested')
      /\ tree' \in Trees
  BY DEF IInv, Turn, loading
<1>3. CASE g.next = NoNode
  <2>1. Right(tree, g)
    BY <1>3 DEF Ready, Right, Visiting
  <2>2. walks' = Append(Front(walks), g) /\ methods' = methods /\ tree' = tree
    BY <1>3 DEF Turn
  <2>3. AllRight(tree, Append(Front(walks), g))
    BY <1>1, <2>1, AppendRight
  <2>4. QED
    BY <1>2, <2>2, <2>3 DEF IInv
<1>4. CASE g.next # NoNode
  <2>1. PICK n, h, m : n = g.next /\ h = Visited(g, n, methods) /\ m = Remembered(methods, g.pilot, wa_op(tree, n))
    OBVIOUS
  <2>2. n \in WastNodes(tree) /\ n = IF g.stack = <<>> THEN g.root ELSE wa_opd(tree, Last(g.stack), g.opd)
    BY <1>4, <2>1 DEF Ready, FramesOf
  <2>3. Right(tree, h) /\ MethodsKnown(m)
    BY <2>1, <2>2, VisitedRight DEF Ready
  <2>4. walks' = Append(Front(walks), h) /\ methods' = m /\ tree' = tree
    BY <1>4, <2>1 DEF Turn
  <2>5. AllRight(tree, Append(Front(walks), h))
    BY <1>1, <2>3, AppendRight
  <2>6. QED
    BY <1>2, <2>3, <2>4, <2>5 DEF IInv
<1>5. QED
  BY <1>3, <1>4

(***************************************************************************)
(* A call of walk begins, over frames that are right.                      *)
(***************************************************************************)
LEMMA NewWalkFacts ==
  ASSUME IInv, NEW n \in WastNodes(tree) \cup {NoNode}, NEW p \in Pilots, NEW w, w = NewWalk(n, p)
  PROVE  /\ w \in FramesOf(tree) /\ InStep(tree, w) /\ w.stack = <<>> /\ w.root = n /\ w.pilot = p
         /\ w.a = n /\ w.answer = "Done" /\ w.d = "Done" /\ w.next = NoNode /\ w.opd = 0
         /\ n = NoNode => Right(tree, w)
<1>1. /\ w.ofs_stack = <<>> /\ w.stack = <<>> /\ w.root = n /\ w.pilot = p /\ w.next = NoNode
      /\ w.a = n /\ w.answer = "Done" /\ w.d = "Done" /\ w.opd = 0
  BY DEF NewWalk
<1>2. w \in FramesOf(tree)
  BY DEF NewWalk, FramesOf, Answers
<1>3. InStep(tree, w)
  <2>1. Len(w.stack) = 0 /\ Len(w.ofs_stack) = 0
    BY <1>1
  <2>2. \A i : i \notin 1 .. Len(w.stack) - 1
    BY <2>1
  <2>3. QED
    BY <1>1, <2>1, <2>2 DEF InStep
<1>4. QED
  BY <1>1, <1>2, <1>3 DEF Right, Visiting

(***************************************************************************)
(* One more pilot asked for: it overtakes those of its row.                *)
(***************************************************************************)
LEMMA OneMore ==
  ASSUME NEW s \in Seq(Pilots), NEW p \in Pilots, NEW q \in Pilots
  PROVE  /\ Append(s, p) \in Seq(Pilots)
         /\ q \in Range(Append(s, p)) <=> q = p \/ q \in Range(s)
         /\ Overtaken(s, q) => q \in Range(s)
         /\ Overtaken(Append(s, p), q) <=>
              Overtaken(s, q) \/ (q \in Range(s) /\ p # q /\ HashRow[p] = HashRow[q])
<1>1. PICK t \in Seq(Pilots) : t = Append(s, p)
  BY AppendFacts
<1>2. /\ Len(s) \in Nat /\ DOMAIN s = 1 .. Len(s) /\ DOMAIN t = 1 .. Len(s) + 1
      /\ t[Len(s) + 1] = p /\ \A i \in 1 .. Len(s) : t[i] = s[i]
  BY <1>1, AppendFacts
<1>3. q \in Range(t) <=> q = p \/ q \in Range(s)
  BY <1>2 DEF Range
<1>4. Overtaken(s, q) => q \in Range(s)
  BY DEF Overtaken, Range
<1>5. ASSUME Overtaken(t, q) PROVE Overtaken(s, q) \/ (q \in Range(s) /\ p # q /\ HashRow[p] = HashRow[q])
  <2>1. PICK i \in DOMAIN t, j \in DOMAIN t : i < j /\ t[i] = q /\ t[j] # q /\ HashRow[t[j]] = HashRow[q]
    BY <1>5 DEF Overtaken
  <2>2. i \in DOMAIN s /\ s[i] = q
    BY <1>2, <2>1
  <2>3. CASE j = Len(s) + 1
    BY <1>2, <2>1, <2>2, <2>3 DEF Range
  <2>4. CASE j # Len(s) + 1
    <3>1. j \in DOMAIN s /\ t[j] = s[j]
      BY <1>2, <2>1, <2>4
    <3>2. QED
      BY <2>1, <2>2, <3>1 DEF Overtaken
  <2>5. QED
    BY <2>3, <2>4
<1>6. ASSUME Overtaken(s, q) PROVE Overtaken(t, q)
  <2>1. PICK i \in DOMAIN s, j \in DOMAIN s : i < j /\ s[i] = q /\ s[j] # q /\ HashRow[s[j]] = HashRow[q]
    BY <1>6 DEF Overtaken
  <2>2. i \in DOMAIN t /\ j \in DOMAIN t /\ t[i] = q /\ t[j] = s[j]
    BY <1>2, <2>1
  <2>3. QED
    BY <2>1, <2>2 DEF Overtaken
<1>7. ASSUME q \in Range(s), p # q, HashRow[p] = HashRow[q] PROVE Overtaken(t, q)
  <2>1. PICK i \in DOMAIN s : s[i] = q
    BY <1>7 DEF Range
  <2>2. i \in DOMAIN t /\ Len(s) + 1 \in DOMAIN t /\ i < Len(s) + 1 /\ t[i] = q /\ t[Len(s) + 1] = p
    BY <1>2, <2>1
  <2>3. QED
    BY <1>7, <2>2 DEF Overtaken
<1>8. QED
  BY <1>1, <1>3, <1>4, <1>5, <1>6, <1>7

(***************************************************************************)
(* new_pilot opens the library of a pilot that was not asked for since the *)
(* tables are new, and puts it in front of those it shares its row with.   *)
(***************************************************************************)
LEMMA PilotAdded ==
  ASSUME NEW c, NEW s, CacheRight(c, s), NEW p \in Pilots, hash_find_e(c, p) = NoEntry,
         NEW d, d = hash_addelem(c, p, p)
  PROVE  p \notin Range(s) /\ CacheRight(d, Append(s, p))
<1> DEFINE row == HashRow[p]
           new == [key |-> p, e |-> p]
<1>1. /\ c \in TablesOf(Pilots, Pilots) /\ s \in Seq(Pilots) /\ p \in DOMAIN HashRow
      /\ row \in Rows /\ Pilots \subseteq DOMAIN HashRow
  BY FindFacts, WalkerAssumption DEF CacheRight, Rows, Range
<1>2. p \notin Range(s)
  BY <1>1, FindFacts DEF CacheRight, Cached
<1>3. /\ d \in TablesOf(Pilots, Pilots)
      /\ \A r \in Rows : \A i \in DOMAIN d[r] : d[r][i] = new \/ \E j \in DOMAIN c[r] : d[r][i] = c[r][j]
      /\ 1 \in DOMAIN d[row] /\ d[row][1] = new
      /\ \A j \in DOMAIN c[row] : \E i \in DOMAIN d[row] : d[row][i] = c[row][j]
      /\ \A r \in Rows \ {row} : d[r] = c[r]
  BY <1>1, AddFacts
<1>4. new.key = p /\ new.e = p
  OBVIOUS
<1>5. d[row] # <<>>
  BY <1>3
<1> HIDE DEF new
<1>6. ASSUME NEW r \in Rows, NEW i \in DOMAIN d[r] PROVE d[r][i].e = d[r][i].key /\ HashRow[d[r][i].key] = r
  <2>1. CASE r = row
    BY <1>3, <1>4, <1>6, <2>1 DEF CacheRight
  <2>2. CASE r # row
    BY <1>3, <1>6, <2>2 DEF CacheRight
  <2>3. QED
    BY <2>1, <2>2
<1>7. ASSUME NEW q \in Pilots
      PROVE  /\ q \in Range(Append(s, p)) <=> Cached(d, q)
             /\ InFront(d, q) <=> q \in Range(Append(s, p)) /\ ~ Overtaken(Append(s, p), q)
  <2>1. /\ q \in Range(Append(s, p)) <=> q = p \/ q \in Range(s)
        /\ Overtaken(s, q) => q \in Range(s)
        /\ Overtaken(Append(s, p), q) <=> Overtaken(s, q) \/ (q \in Range(s) /\ p # q /\ row = HashRow[q])
    BY <1>1, OneMore
  <2>2. /\ q \in Range(s) <=> Cached(c, q)
        /\ InFront(c, q) <=> q \in Range(s) /\ ~ Overtaken(s, q)
        /\ HashRow[q] \in Rows
    BY <1>1 DEF CacheRight, Rows, Range
  <2>3. CASE q = p
    <3>1. Cached(d, q) /\ InFront(d, q)
      BY <1>3, <1>4, <1>5, <2>3 DEF Cached, InFront
    <3>2. QED
      BY <1>2, <2>1, <2>3, <3>1
  <2>4. CASE q # p /\ HashRow[q] = row
    <3>1. Cached(d, q) <=> Cached(c, q)
      <4>1. ASSUME Cached(d, q) PROVE Cached(c, q)
        BY <1>1, <1>3, <1>4, <2>4, <4>1 DEF Cached
      <4>2. ASSUME Cached(c, q) PROVE Cached(d, q)
        BY <1>3, <2>4, <4>2 DEF Cached
      <4>3. QED
        BY <4>1, <4>2
    <3>2. ~ InFront(d, q)
      BY <1>3, <1>4, <2>4 DEF InFront
    <3>3. QED
      BY <2>1, <2>2, <2>4, <3>1, <3>2
  <2>5. CASE q # p /\ HashRow[q] # row
    <3>1. d[HashRow[q]] = c[HashRow[q]]
      BY <1>3, <2>2, <2>5
    <3>2. (Cached(d, q) <=> Cached(c, q)) /\ (InFront(d, q) <=> InFront(c, q))
      BY <3>1 DEF Cached, InFront
    <3>3. QED
      BY <2>1, <2>2, <2>5, <3>2
  <2>6. QED
    BY <2>3, <2>4, <2>5
<1>8. Append(s, p) \in Seq(Pilots)
  BY <1>1, OneMore
<1>9. QED
  BY <1>2, <1>3, <1>6, <1>7, <1>8 DEF CacheRight

LEMMA LoadFacts ==
  ASSUME IInv, NEW p \in Pilots, new_pilot(p)
  PROVE  CacheRight(cache', requested') /\ OpensRight(opens', forgotten', requested')
<1>1. /\ CacheRight(cache, requested) /\ OpensRight(opens, forgotten, requested)
      /\ p \in DOMAIN HashRow /\ requested \in Seq(Pilots) /\ cache \in TablesOf(Pilots, Pilots)
  BY WalkerAssumption DEF IInv, CacheRight
<1>2. CASE hash_find_e(cache, p) # NoEntry
  <2>1. p \in Range(requested)
    BY <1>1, <1>2, FindFacts DEF CacheRight, Cached
  <2>2. UNCHANGED <<cache, opens, requested, forgotten>>
    BY <1>2, <2>1 DEF new_pilot
  <2>3. QED
    BY <1>1, <2>2
<1>3. CASE hash_find_e(cache, p) = NoEntry
  <2>1. PICK c, s : c = hash_addelem(cache, p, p) /\ s = Append(requested, p)
    OBVIOUS
  <2>2. p \notin Range(requested) /\ CacheRight(c, s)
    BY <1>1, <1>3, <2>1, PilotAdded
  <2>3. /\ cache' = c /\ requested' = s /\ forgotten' = forgotten
        /\ opens' = [opens EXCEPT ![p] = opens[p] + 1]
    BY <1>3, <2>1, <2>2 DEF new_pilot
  <2>4. \A q \in Pilots : q \in Range(s) <=> q = p \/ q \in Range(requested)
    BY <1>1, <2>1, OneMore
  <2>5. OpensRight(opens', forgotten, s)
    BY <1>1, <2>2, <2>3, <2>4 DEF OpensRight
  <2>6. QED
    BY <2>2, <2>3, <2>5
<1>4. QED
  BY <1>2, <1>3

LEMMA BeginFacts ==
  ASSUME IInv, NEW p \in Pilots, NEW n \in WastNodes(tree) \cup {NoNode}, NEW under,
         AllRight(tree, under), do_walk(n, p, under)
  PROVE  IInv'
<1>1. /\ CacheRight(cache', requested') /\ OpensRight(opens', forgotten', requested')
      /\ tree' \in Trees /\ tree' = tree
  BY LoadFacts DEF do_walk, IInv
<1>2. PICK w : w = NewWalk(n, p)
  OBVIOUS
<1>3. /\ w \in FramesOf(tree) /\ InStep(tree, w) /\ w.stack = <<>> /\ w.root = n /\ w.pilot = p
      /\ n = NoNode => Right(tree, w)
  BY <1>2, NewWalkFacts
<1>4. CASE n = NoNode
  <2>1. walks' = Append(under, w) /\ methods' = methods
    BY <1>2, <1>4 DEF do_walk
  <2>2. AllRight(tree, Append(under, w))
    BY <1>3, <1>4, AppendRight
  <2>3. QED
    BY <1>1, <2>1, <2>2 DEF IInv
<1>5. CASE n # NoNode
  <2>1. PICK h, m : h = Visited(w, n, methods) /\ m = Remembered(methods, p, wa_op(tree, n))
    OBVIOUS
  <2>2. walks' = Append(under, h) /\ methods' = m
    BY <1>2, <1>5, <2>1 DEF do_walk
  <2>3. Right(tree, h) /\ MethodsKnown(m)
    BY <1>3, <1>5, <2>1, VisitedRight
  <2>4. AllRight(tree, Append(under, h))
    BY <2>3, AppendRight
  <2>5. QED
    BY <1>1, <2>2, <2>3, <2>4 DEF IInv
<1>6. QED
  BY <1>4, <1>5

-----------------------------------------------------------------------------
LEMMA EmptyFacts ==
  ASSUME NEW K, NEW E
  PROVE  Empty \in TablesOf(K, E) /\ KeptOnce(Empty) /\ \A r \in Rows : Empty[r] = <<>>
<1>1. \A r \in Rows : Empty[r] = <<>> /\ DOMAIN Empty[r] = {}
  BY DEF Empty
<1>2. <<>> \in Seq([key : K, e : E])
  OBVIOUS
<1>3. Empty \in [Rows -> Seq([key : K, e : E])]
  BY <1>2 DEF Empty
<1>4. QED
  BY <1>1, <1>3 DEF TablesOf, KeptOnce

LEMMA NothingKnown ==
  /\ CacheRight(Empty, <<>>)
  /\ MethodsKnown([p \in Pilots |-> Empty])
  /\ \A t : AllRight(t, <<>>)
<1>1. PICK x : x = Empty
  OBVIOUS
<1>2. x \in TablesOf(Pilots, Pilots) /\ x \in TablesOf(Labels, Methods) /\ KeptOnce(x)
  BY <1>1, EmptyFacts
<1>3. \A r \in Rows : DOMAIN x[r] = {}
  BY <1>1 DEF Empty
<1>4. MethodsKnown([p \in Pilots |-> x])
  BY <1>2, <1>3 DEF MethodsKnown, MethodsRight
<1>5. \A r \in Rows : x[r] = <<>>
  BY <1>1 DEF Empty
<1>6. \A p \in Pilots : HashRow[p] \in Rows /\ ~ Cached(x, p) /\ ~ InFront(x, p)
  BY <1>3, <1>5, WalkerAssumption DEF Cached, InFront, Rows, Range
<1>7. CacheRight(x, <<>>)
  BY <1>2, <1>3, <1>6 DEF CacheRight, Range
<1>8. QED
  BY <1>1, <1>4, <1>7 DEF AllRight

LEMMA InitIInv == Init => IInv
<1> SUFFICES ASSUME Init PROVE IInv
  OBVIOUS
<1>1. OpensRight(opens, forgotten, requested)
  BY DEF Init, OpensRight, Range
<1>2. QED
  BY <1>1, NothingKnown DEF Init, IInv

(***************************************************************************)
(* The iterator of the hash table finds the pilots in front of their rows; *)
(* those are closed, and what is left open has been overtaken.             *)
(***************************************************************************)
LEMMA RestartFacts ==
  ASSUME IInv, Restart
  PROVE  CacheRight(cache', requested') /\ OpensRight(opens', forgotten', requested')
<1>1. /\ CacheRight(cache, requested) /\ OpensRight(opens, forgotten, requested)
      /\ requested \in Seq(Pilots)
  BY DEF IInv, CacheRight
<1>2. /\ cache' = Empty /\ requested' = <<>>
      /\ opens' = [p \in Pilots |-> IF p \in Iterated(cache) THEN opens[p] - 1 ELSE opens[p]]
      /\ forgotten' = [p \in Pilots |->
                         IF Overtaken(requested, p) THEN forgotten[p] + 1 ELSE forgotten[p]]
  BY DEF Restart
<1>3. ASSUME NEW p \in Pilots PROVE p \in Iterated(cache) <=> InFront(cache, p)
  <2>1. HashRow[p] \in Rows
    BY WalkerAssumption DEF Rows, Range
  <2>2. ASSUME NEW r \in Rows, cache[r] # <<>>
        PROVE  1 \in DOMAIN cache[r] /\ cache[r][1].e = cache[r][1].key /\ HashRow[cache[r][1].key] = r
    <3>1. cache[r] \in Seq([key : Pilots, e : Pilots])
      BY <1>1, <2>2 DEF CacheRight, TablesOf
    <3>2. 1 \in DOMAIN cache[r]
      BY <2>2, <3>1, LenProperties, EmptySeq
    <3>3. QED
      BY <1>1, <2>2, <3>2 DEF CacheRight
  <2>3. QED
    BY <2>1, <2>2 DEF Iterated, InFront
<1>4. ASSUME NEW p \in Pilots
      PROVE  opens'[p] \in Nat /\ forgotten'[p] \in Nat /\ opens'[p] = forgotten'[p]
  <2>1. /\ opens[p] \in Nat /\ forgotten[p] \in Nat
        /\ opens[p] = forgotten[p] + (IF p \in Range(requested) THEN 1 ELSE 0)
    BY <1>1 DEF OpensRight
  <2>2. p \in Iterated(cache) <=> p \in Range(requested) /\ ~ Overtaken(requested, p)
    BY <1>1, <1>3 DEF CacheRight
  <2>3. Overtaken(requested, p) => p \in Range(requested)
    BY <1>1, OneMore
  <2>4. QED
    BY <1>2, <2>1, <2>2, <2>3
<1>5. \A p : p \notin Range(<<>>)
  BY DEF Range
<1>6. OpensRight(opens', forgotten', <<>>)
  BY <1>2, <1>4, <1>5 DEF OpensRight
<1>7. QED
  BY <1>2, <1>6, NothingKnown

LEMMA NextIInv == IInv /\ [Next]_vars => IInv'
<1> SUFFICES ASSUME IInv, [Next]_vars PROVE IInv'
  OBVIOUS
<1>0. TypeOK /\ AllRight(tree, walks)
  BY Parts DEF IInv
<1>1. ASSUME NEW n \in WastNodes(tree) \cup {NoNode}, NEW p \in Pilots, Start(n, p) PROVE IInv'
  BY <1>1, BeginFacts, NothingKnown DEF Start
<1>2. ASSUME NEW p \in Pilots, WalkOperand(p) PROVE IInv'
  <2>1. PICK f : f = Inner
    OBVIOUS
  <2>2. AllRight(tree, Front(walks)) /\ Right(tree, f) /\ f \in FramesOf(tree) /\ f.d = Visiting
    BY <1>0, <1>2, <2>1, FrontRight DEF Inner, WalkOperand
  <2>3. f.a \in WastNodes(tree) /\ f.asked \in Nat
    BY <2>2 DEF Right, AtPlace, FramesOf
  <2>4. wa_opd(tree, f.a, f.asked) \in WastNodes(tree)
    BY <1>0, <1>2, <2>1, <2>3, OperandFacts, TreeFacts DEF WalkOperand
  <2>5. PICK h : h = [f EXCEPT !.asked = f.asked + 1]
    OBVIOUS
  <2>6. Right(tree, h)
    <3>1. /\ h \in FramesOf(tree) /\ h.a = f.a /\ h.d = f.d /\ h.root = f.root /\ h.stack = f.stack
          /\ h.ofs_stack = f.ofs_stack /\ h.opd = f.opd /\ h.next = f.next /\ h.method = f.method
          /\ h.pilot = f.pilot
      <4>1. PICK o \in Nat : o = f.asked + 1
        BY <2>3
      <4>2. h = [f EXCEPT !.asked = o]
        BY <2>5, <4>1
      <4>3. QED
        BY <2>2, <4>2 DEF FramesOf
    <3>2. QED
      BY <2>2, <3>1 DEF Right, InStep, AtPlace
  <2>7. AllRight(tree, Append(Front(walks), h))
    BY <2>2, <2>6, AppendRight
  <2>8. do_walk(wa_opd(tree, f.a, f.asked), p, Append(Front(walks), h))
    BY <1>2, <2>1, <2>5 DEF WalkOperand
  <2>9. QED
    BY <2>4, <2>7, <2>8, BeginFacts
<1>3. ASSUME NEW d \in Answers, Answer(d) PROVE IInv'
  <2>1. PICK f, h : f = Inner /\ h = [f EXCEPT !.d = d, !.answer = d]
    OBVIOUS
  <2>2. AllRight(tree, Front(walks)) /\ Right(tree, f) /\ f \in FramesOf(tree) /\ f.d = Visiting
    BY <1>0, <1>3, <2>1, FrontRight DEF Inner, Answer
  <2>3. Right(tree, h)
    <3>1. /\ h \in FramesOf(tree) /\ h.a = f.a /\ h.d = d /\ h.root = f.root /\ h.stack = f.stack
          /\ h.ofs_stack = f.ofs_stack /\ h.opd = f.opd /\ h.next = f.next
      BY <2>1, <2>2 DEF FramesOf
    <3>2. d # Visiting
      BY DEF Answers, Visiting
    <3>3. QED
      BY <2>2, <3>1, <3>2 DEF Right, InStep, AtPlace
  <2>4. walks' = Append(Front(walks), h)
    BY <1>3, <2>1 DEF Answer
  <2>5. AllRight(tree, Append(Front(walks), h))
    BY <2>2, <2>3, AppendRight
  <2>6. QED
    BY <1>3, <2>4, <2>5 DEF Answer, loading, IInv
<1>4. ASSUME GoDown \/ GoNext \/ GoUp PROVE IInv'
  <2>1. PICK f : f = Inner
    OBVIOUS
  <2>2. walks # <<>> /\ Right(tree, f) /\ f \in FramesOf(tree) /\ InStep(tree, f)
    BY <1>0, <1>4, <2>1, FrontRight DEF Inner, GoDown, GoNext, GoUp, Looping, Right
  <2>3. CASE GoDown
    <3>1. PICK g : g = CaseDown(f)
      OBVIOUS
    <3>2. Ready(tree, g)
      BY <1>0, <2>1, <2>2, <2>3, <3>1, CaseDownFacts DEF GoDown, Looping
    <3>3. QED
      BY <2>1, <2>2, <2>3, <3>1, <3>2, TurnFacts DEF GoDown
  <2>4. CASE GoNext
    <3>1. PICK g : g = CaseNext(f, f.opd + 1)
      OBVIOUS
    <3>2. f.opd + 1 \in Nat
      BY <2>2 DEF FramesOf
    <3>3. Ready(tree, g)
      BY <1>0, <2>2, <3>1, <3>2, CaseNextFacts
    <3>4. QED
      BY <2>1, <2>2, <2>4, <3>1, <3>3, TurnFacts DEF GoNext
  <2>5. CASE GoUp
    <3>1. PICK g : g = CaseUp(f)
      OBVIOUS
    <3>2. Ready(tree, g)
      BY <2>2, <3>1, CaseUpFacts
    <3>3. QED
      BY <2>1, <2>2, <2>5, <3>1, <3>2, TurnFacts DEF GoUp
  <2>6. QED
    BY <1>4, <2>3, <2>4, <2>5
<1>5. ASSUME Return PROVE IInv'
  BY <1>0, <1>5, FrontRight DEF Return, Looping, loading, IInv
<1>6. ASSUME Restart PROVE IInv'
  <2>1. tree' = tree /\ walks' = walks /\ methods' = [p \in Pilots |-> Empty]
    BY <1>6 DEF Restart
  <2>2. CacheRight(cache', requested') /\ OpensRight(opens', forgotten', requested')
    BY <1>6, RestartFacts
  <2>3. QED
    BY <2>1, <2>2, NothingKnown DEF IInv
<1>7. ASSUME UNCHANGED vars PROVE IInv'
  BY <1>7 DEF vars, loading, IInv
<1>8. QED
  BY <1>1, <1>2, <1>3, <1>4, <1>5, <1>6, <1>7 DEF Next, Walking

(***************************************************************************)
(* Whatever the tree, the nested walks, and the answers, every frame is    *)
(* right, and so are the tables.                                           *)
(***************************************************************************)
THEOREM Invariant == Spec => []IInv
BY InitIInv, NextIInv, PTL DEF Spec

\* The variables of walk and of the pilot manager keep their types.
THEOREM TypeCorrect == Spec => []TypeOK
<1>1. IInv => TypeOK
  BY Parts
<1>2. QED
  BY <1>1, Invariant, PTL

(***************************************************************************)
(* walker.c: whatever was answered before, the two stacks are the way from *)
(* the root of the walk to the node visited.                               *)
(***************************************************************************)
THEOREM StacksAreTheWay == Spec => []StacksInStep
<1>1. IInv => StacksInStep
  <2> SUFFICES ASSUME IInv PROVE StacksInStep
    OBVIOUS
  <2>1. TypeOK /\ AllRight(tree, walks)
    BY Parts DEF IInv
  <2>2. ASSUME NEW k \in DOMAIN walks, NEW f, f = walks[k]
        PROVE  /\ Len(f.stack) = Len(f.ofs_stack)
               /\ f.d = Visiting =>
                    /\ Way(f, 1) = f.root
                    /\ \A i \in 1 .. Len(f.stack) :
                         Way(f, i + 1) = wa_opd(tree, f.stack[i],
                                           IF i = Len(f.stack) THEN f.opd ELSE f.ofs_stack[i + 1])
    <3>1. Right(tree, f) /\ f \in FramesOf(tree) /\ InStep(tree, f)
      BY <2>1, <2>2 DEF AllRight, Right
    <3>2. Len(f.stack) \in Nat /\ Len(f.stack) = Len(f.ofs_stack)
      BY <3>1, StackFacts
    <3>3. ASSUME f.d = Visiting, f.stack = <<>>
          PROVE  Way(f, 1) = f.root /\ \A i : i \notin 1 .. Len(f.stack)
      <4>1. Len(f.stack) = 0 /\ f.a = f.root
        BY <3>1, <3>3 DEF Right, AtPlace
      <4>2. QED
        BY <4>1 DEF Way
    <3>4. ASSUME f.d = Visiting, f.stack # <<>>
          PROVE  /\ Way(f, 1) = f.root
                 /\ \A i \in 1 .. Len(f.stack) :
                         Way(f, i + 1) = wa_opd(tree, f.stack[i],
                                           IF i = Len(f.stack) THEN f.opd ELSE f.ofs_stack[i + 1])
      <4>1. Len(f.stack) >= 1 /\ Last(f.stack) = f.stack[Len(f.stack)]
        BY <3>1, <3>4, StackFacts
      <4>2. Way(f, 1) = f.root
        BY <3>1, <3>4, <4>1 DEF InStep, Way
      <4>3. f.a = wa_opd(tree, f.stack[Len(f.stack)], f.opd)
        BY <3>1, <3>4, <4>1 DEF Right, AtPlace
      <4>4. ASSUME NEW i \in 1 .. Len(f.stack)
            PROVE  Way(f, i + 1) = wa_opd(tree, f.stack[i],
                                     IF i = Len(f.stack) THEN f.opd ELSE f.ofs_stack[i + 1])
        <5>1. CASE i = Len(f.stack)
          <6>1. ~ (i + 1 <= Len(f.stack))
            BY <3>2, <5>1
          <6>2. QED
            BY <4>3, <5>1, <6>1 DEF Way
        <5>2. CASE i # Len(f.stack)
          <6>1. i + 1 <= Len(f.stack) /\ i \in 1 .. Len(f.stack) - 1
            BY <3>2, <5>2
          <6>2. QED
            BY <3>1, <5>2, <6>1 DEF InStep, Way
        <5>3. QED
          BY <5>1, <5>2
      <4>5. QED
        BY <4>2, <4>4
    <3>5. QED
      BY <3>2, <3>3, <3>4
  <2>3. QED
    BY <2>1, <2>2 DEF StacksInStep
<1>2. QED
  BY <1>1, Invariant, PTL

(***************************************************************************)
(* pilot_manager.c: the method called at a visit is that of the pilot of   *)
(* this walk for the label of this node, though hash tables are shared by  *)
(* the nested walks and rows hold several labels.                          *)
(***************************************************************************)
THEOREM RightMethods == Spec => []RightMethodCalled
<1>1. IInv => RightMethodCalled
  BY DEF IInv, AllRight, Right, RightMethodCalled
<1>2. QED
  BY <1>1, Invariant, PTL

(***************************************************************************)
(* pilot_manager.c, hashtab.h: a library is opened once between two        *)
(* restarts, and is open besides once for each restart that came after     *)
(* another pilot of its row had been asked for after its own; no method is *)
(* looked up twice.                                                        *)
(***************************************************************************)
THEOREM OpensAreAccounted == Spec => []OpensAccounted
<1>1. IInv => OpensAccounted
  BY Parts
<1>2. QED
  BY <1>1, Invariant, PTL

\* No other pilot is in the row of p.
Alone(p) == \A q \in Pilots \ {p} : HashRow[q] # HashRow[p]

(***************************************************************************)
(* pilot_manager.c: the library of a pilot that has a row of its own is    *)
(* open once when it was asked for since the last restart, and closed      *)
(* otherwise.                                                              *)
(***************************************************************************)
THEOREM AloneIsClosed == Spec => [](\A p \in Pilots : Alone(p) => opens[p] = InUse(p))
<1> DEFINE Kept == \A p \in Pilots : Alone(p) => forgotten[p] = 0
<1>1. Init => Kept
  BY DEF Init
<1>2. ASSUME IInv, Kept, [Next]_vars PROVE Kept'
  <2>1. ASSUME Restart PROVE Kept'
    <3>1. ASSUME NEW p \in Pilots, Alone(p) PROVE ~ Overtaken(requested, p)
      BY <1>2, <3>1, ElementOfSeq DEF IInv, CacheRight, Overtaken, Alone
    <3>2. QED
      BY <1>2, <2>1, <3>1 DEF Restart, Alone
  <2>2. CASE ~ Restart
    <3>1. forgotten' = forgotten
      BY <1>2, <2>2 DEF Next, Walking, Start, WalkOperand, do_walk, new_pilot, Answer, GoDown, GoNext,
                        GoUp, Turn, Return, vars, loading
    <3>2. QED
      BY <1>2, <3>1 DEF Alone
  <2>3. QED
    BY <2>1, <2>2
<1>3. IInv /\ Kept => \A p \in Pilots : Alone(p) => opens[p] = InUse(p)
  BY DEF IInv, OpensRight, InUse
<1>4. QED
  BY <1>1, <1>2, <1>3, Invariant, PTL DEF Spec
-----------------------------------------------------------------------------
(***************************************************************************)
(* walk, with its two stacks, implements TreeWalks, which has none: every  *)
(* step of Walker is a step of TreeWalks or changes nothing there.         *)
(***************************************************************************)

(***************************************************************************)
(* TreeWalks has the nodes and operands that Walker has.                   *)
(***************************************************************************)
LEMMA SameTree ==
  /\ \A t : Promised!WastNodes(t) = WastNodes(t)
  /\ \A t, n, i : Promised!wa_opd(t, n, i) = wa_opd(t, n, i)
  /\ \A t, n : Promised!wa_opd_count(t, n) = wa_opd_count(t, n)
  /\ \A t, n : Promised!wa_father(t, n) = wa_father(t, n)
  /\ \A t, n : Promised!Place(t, n) = Place(t, n)
  /\ Promised!NoNode = NoNode /\ Promised!Visiting = Visiting /\ Promised!Answers = Answers
<1>1. \A t : Promised!WastNodes(t) = WastNodes(t)
  BY DEF Promised!WastNodes, WastNodes
<1>2. /\ \A t, n, i : Promised!wa_opd(t, n, i) = wa_opd(t, n, i)
      /\ \A t, n : Promised!wa_opd_count(t, n) = wa_opd_count(t, n)
      /\ Promised!NoNode = NoNode /\ Promised!Visiting = Visiting /\ Promised!Answers = Answers
  BY DEF Promised!wa_opd, Promised!wa_opd_count, wa_opd, wa_opd_count, Promised!NoNode, NoNode,
         Promised!Visiting, Visiting, Promised!Answers, Answers
<1>3. \A t, n : Promised!wa_father(t, n) = wa_father(t, n)
  BY DEF Promised!wa_father, wa_father, Promised!Range, Range, Promised!WastNodes, WastNodes,
         Promised!NoNode, NoNode
<1>4. \A t, n : Promised!Place(t, n) = Place(t, n)
  BY <1>1, <1>2, <1>3 DEF Promised!Place, Place
<1>5. QED
  BY <1>1, <1>2, <1>3, <1>4

(***************************************************************************)
(* Fathers: the root of a tree has the least number, and an operand of a   *)
(* node has that node for its father and its index for its place.          *)
(***************************************************************************)
LEMMA RootIsLeast ==
  ASSUME NEW t, IsWast(t)
  PROVE  \A n \in WastNodes(t) : t.root <= n
<1>1. WastNodes(t) \in SUBSET Nat /\ t.root \in WastNodes(t)
  BY DEF IsWast
<1>2. PICK m \in WastNodes(t) : \A n \in WastNodes(t) : m <= n
  BY <1>1, Least
<1>3. m = t.root
  <2>1. SUFFICES ASSUME m # t.root PROVE FALSE
    OBVIOUS
  <2>2. PICK f \in WastNodes(t) : \E i \in DOMAIN t.operands[f] : t.operands[f][i] = m
    BY <2>1 DEF IsWast
  <2>3. m > f
    BY <2>2 DEF IsWast
  <2>4. m <= f /\ m \in Nat /\ f \in Nat
    BY <1>1, <1>2
  <2>5. QED
    BY <2>3, <2>4
<1>4. QED
  BY <1>2, <1>3

LEMMA FatherFacts ==
  ASSUME NEW t, IsWast(t), NEW f \in WastNodes(t), NEW i \in Nat, i < wa_opd_count(t, f),
         NEW n, n = wa_opd(t, f, i)
  PROVE  /\ n \in WastNodes(t) /\ n > f /\ n # t.root
         /\ wa_father(t, n) = f /\ Place(t, n) = i
<1>1. /\ f \in Nat /\ n \in WastNodes(t) /\ n > f /\ i + 1 \in DOMAIN t.operands[f]
      /\ n = t.operands[f][i + 1] /\ wa_opd_count(t, f) \in Nat
  BY OperandFacts
<1>2. t.root <= f /\ n \in Nat /\ t.root \in Nat
  BY <1>1, RootIsLeast DEF IsWast
<1>3. n # t.root
  BY <1>1, <1>2
<1>4. n \in Range(t.operands[f])
  BY <1>1 DEF Range
<1>5. \A g \in WastNodes(t) : n \in Range(t.operands[g]) => g = f
  BY <1>1, <1>3, <1>4 DEF IsWast
<1>6. wa_father(t, n) = f
  BY <1>3, <1>4, <1>5 DEF wa_father
<1>7. i \in 0 .. wa_opd_count(t, f) - 1
  BY <1>1
<1>8. ASSUME NEW j \in 0 .. wa_opd_count(t, f) - 1, wa_opd(t, f, j) = n PROVE j = i
  <2>1. j \in Nat /\ j < wa_opd_count(t, f)
    BY <1>1
  <2>2. j + 1 \in DOMAIN t.operands[f] /\ n = t.operands[f][j + 1]
    BY <1>8, <2>1, OperandFacts
  <2>3. IsInjective(t.operands[f])
    BY DEF IsWast
  <2>4. j + 1 = i + 1
    BY <1>1, <2>2, <2>3 DEF IsInjective
  <2>5. QED
    BY <2>1, <2>4
<1>9. Place(t, n) = i
  BY <1>6, <1>7, <1>8 DEF Place
<1>10. QED
  BY <1>1, <1>3, <1>6, <1>9

LEMMA HasFather ==
  ASSUME NEW t, IsWast(t), NEW n \in WastNodes(t), n # t.root
  PROVE  /\ wa_father(t, n) \in WastNodes(t) /\ wa_father(t, n) < n
         /\ Place(t, n) \in Nat
         /\ wa_opd(t, wa_father(t, n), Place(t, n) + 1) \in WastNodes(t) \cup {NoNode}
<1>1. PICK f \in WastNodes(t) : \E k \in DOMAIN t.operands[f] : t.operands[f][k] = n
  BY DEF IsWast
<1>2. PICK k \in DOMAIN t.operands[f] : t.operands[f][k] = n
  BY <1>1
<1>3. DOMAIN t.operands[f] = 1 .. wa_opd_count(t, f) /\ wa_opd_count(t, f) \in Nat
  BY LenProperties DEF IsWast, wa_opd_count
<1>4. PICK i \in Nat : i + 1 = k /\ i < wa_opd_count(t, f)
  <2>1. k - 1 \in Nat /\ k - 1 + 1 = k /\ k - 1 < wa_opd_count(t, f)
    BY <1>3
  <2>2. QED
    BY <2>1
<1>5. wa_opd(t, f, i) = n
  BY <1>2, <1>4 DEF wa_opd
<1>6. wa_father(t, n) = f /\ Place(t, n) = i /\ n > f
  BY <1>4, <1>5, FatherFacts
<1>7. f \in Nat /\ n \in Nat
  BY DEF IsWast
<1>8. PICK j \in Nat : j = i + 1
  OBVIOUS
<1>9. wa_opd(t, f, j) \in WastNodes(t) \cup {NoNode}
  BY OperandFacts
<1>10. QED
  BY <1>6, <1>7, <1>8, <1>9

-----------------------------------------------------------------------------
(***************************************************************************)
(* After, which is recursive, is defined for every tree: each node's value *)
(* comes from its father's, and fathers have lower numbers.                *)
(***************************************************************************)
AfterAt(t, root, k, g) ==
  IF k \in {root, t.root} THEN NoNode
  ELSE LET f == wa_father(t, k)
           sibling == wa_opd(t, f, Place(t, k) + 1)
       IN IF sibling # NoNode THEN sibling ELSE g[f]

IsAfter(t, root, g) == g = [k \in WastNodes(t) |-> AfterAt(t, root, k, g)]

LEMMA AfterExists ==
  ASSUME NEW t, IsWast(t), NEW root
  PROVE  \E g : IsAfter(t, root, g) /\ g \in [WastNodes(t) -> WastNodes(t) \cup {NoNode}]
<1> DEFINE S == WastNodes(t)
           V == WastNodes(t) \cup {NoNode}
           sibling(k) == wa_opd(t, wa_father(t, k), Place(t, k) + 1)
           B == { k \in S : k \in {root, t.root} \/ sibling(k) # NoNode }
           given == [k \in B |-> IF k \in {root, t.root} THEN NoNode ELSE sibling(k)]
           prior == [k \in S \ B |-> wa_father(t, k)]
           step == [k \in S \ B |-> [v \in V |-> v]]
<1>1. S \in SUBSET Nat /\ B \in SUBSET S /\ step \in [S \ B -> [V -> V]]
  BY DEF IsWast
<1>2. given \in [B -> V]
  BY HasFather
<1>3. prior \in [S \ B -> S] /\ \A k \in S \ B : prior[k] < k
  BY HasFather
<1>4. PICK g \in [S -> V] : Recursion(S, given, prior, step, g)
  <2> HIDE DEF S, V, B, given, prior, step
  <2>1. QED
    BY <1>1, <1>2, <1>3, RecursionExists
<1>5. ASSUME NEW k \in S PROVE g[k] = AfterAt(t, root, k, g)
  <2>1. g[k] = IF k \in DOMAIN given THEN given[k] ELSE step[k][g[prior[k]]]
    BY <1>4 DEF Recursion
  <2>2. CASE k \in B
    BY <2>1, <2>2 DEF AfterAt
  <2>3. CASE k \notin B
    <3>1. prior[k] = wa_father(t, k) /\ prior[k] \in S
      BY <1>3, <2>3
    <3>2. g[prior[k]] \in V
      BY <1>4, <3>1
    <3>3. step[k][g[prior[k]]] = g[prior[k]] /\ DOMAIN given = B
      BY <2>3, <3>2
    <3>4. sibling(k) = NoNode /\ k \notin {root, t.root}
      BY <2>3
    <3>5. QED
      BY <2>1, <2>3, <3>1, <3>3, <3>4 DEF AfterAt
  <2>4. QED
    BY <2>2, <2>3
<1>6. g = [k \in S |-> g[k]]
  BY <1>4
<1>7. IsAfter(t, root, g)
  BY <1>5, <1>6 DEF IsAfter
<1>8. QED
  BY <1>4, <1>7

AfterOf(t, root, n) == (CHOOSE g : IsAfter(t, root, g))[n]

LEMMA AfterIs == \A root, n : Promised!After(root, n) = AfterOf(tree, root, n)
BY SameTree DEF Promised!After, AfterOf, IsAfter, AfterAt

(***************************************************************************)
(* What After says: nothing after the root of the walk; after an operand,  *)
(* the next operand of its father, or what is after the father.            *)
(***************************************************************************)
LEMMA AfterFacts ==
  ASSUME NEW t, IsWast(t), NEW root
  PROVE  /\ root \in WastNodes(t) => AfterOf(t, root, root) = NoNode
         /\ \A f \in WastNodes(t), i \in Nat :
              i < wa_opd_count(t, f) /\ wa_opd(t, f, i) # root =>
                AfterOf(t, root, wa_opd(t, f, i)) =
                  IF wa_opd(t, f, i + 1) # NoNode THEN wa_opd(t, f, i + 1) ELSE AfterOf(t, root, f)
<1>1. PICK g : g = CHOOSE h : IsAfter(t, root, h)
  OBVIOUS
<1>2. IsAfter(t, root, g)
  BY <1>1, AfterExists
<1>3. \A n \in WastNodes(t) : g[n] = AfterAt(t, root, n, g)
  BY <1>2 DEF IsAfter
<1>4. \A n : AfterOf(t, root, n) = g[n]
  BY <1>1 DEF AfterOf
<1>5. root \in WastNodes(t) => AfterOf(t, root, root) = NoNode
  BY <1>3, <1>4 DEF AfterAt
<1>6. ASSUME NEW f \in WastNodes(t), NEW i \in Nat, i < wa_opd_count(t, f), wa_opd(t, f, i) # root
      PROVE  AfterOf(t, root, wa_opd(t, f, i)) =
               IF wa_opd(t, f, i + 1) # NoNode THEN wa_opd(t, f, i + 1) ELSE AfterOf(t, root, f)
  <2>1. PICK n : n = wa_opd(t, f, i)
    OBVIOUS
  <2>2. n \in WastNodes(t) /\ n # t.root /\ n # root /\ wa_father(t, n) = f /\ Place(t, n) = i
    BY <1>6, <2>1, FatherFacts
  <2>3. g[n] = IF wa_opd(t, f, i + 1) # NoNode THEN wa_opd(t, f, i + 1) ELSE g[f]
    BY <1>3, <2>2 DEF AfterAt
  <2>4. QED
    BY <1>4, <2>1, <2>3
<1>7. QED
  BY <1>5, <1>6

-----------------------------------------------------------------------------
(***************************************************************************)
(* Where a frame is going.                                                 *)
(***************************************************************************)
TargetOf(t, w) ==
  CASE w.answer = "Down" /\ wa_opd_count(t, w.at) > 0 -> wa_opd(t, w.at, 0)
    [] w.answer = "Down" /\ wa_opd_count(t, w.at) = 0 -> AfterOf(t, w.root, w.at)
    [] w.answer = "Next" -> AfterOf(t, w.root, w.at)
    [] w.answer = "Up" /\ w.at # w.root -> AfterOf(t, w.root, wa_father(t, w.at))
    [] OTHER -> NoNode

LEMMA TargetIs == \A w : Promised!Target(w) = TargetOf(tree, w)
BY SameTree, AfterIs DEF Promised!Target, TargetOf

\* Past the father on top; from its operand o; and what the turn must keep.
Above(t, f) == IF f.stack = <<>> THEN NoNode ELSE AfterOf(t, f.root, Last(f.stack))

Going(t, f, o) ==
  IF f.stack # <<>> /\ wa_opd(t, Last(f.stack), o) # NoNode THEN wa_opd(t, Last(f.stack), o)
  ELSE Above(t, f)

Aim(t, g, target) ==
  IF g.next # NoNode THEN target = g.next
  ELSE \/ g.d = "Next" /\ target = Going(t, g, g.opd + 1)
       \/ g.d = "Done" /\ target = NoNode

(***************************************************************************)
(* Between its visits a frame is on its way to the target of its answer.   *)
(***************************************************************************)
Faithful(t, f) ==
  /\ f.d = Visiting <=> f.answer = Visiting
  /\ f.d \in {"Down", "Up"} => f.answer = f.d
  /\ f.d = "Next" => TargetOf(t, VisitOf(f)) = Going(t, f, f.opd + 1)
  /\ f.d \in {"Done", "Error"} => TargetOf(t, VisitOf(f)) = NoNode

AllFaithful(t, s) == \A k \in DOMAIN s : Faithful(t, s[k])

\* The stacks go down: all that is below the first father is below the root.
LEMMA BelowRoot ==
  ASSUME NEW t, IsWast(t), NEW f \in FramesOf(t), InStep(t, f), f.stack # <<>>
  PROVE  /\ f.root \in WastNodes(t) /\ f.root \in Nat
         /\ \A i \in 1 .. Len(f.stack) : f.stack[i] \in Nat /\ f.root <= f.stack[i]
         /\ \A i \in 2 .. Len(f.stack) : f.stack[i] > f.root
<1>1. PICK n : n = Len(f.stack)
  OBVIOUS
<1>2. n \in Nat /\ n >= 1 /\ WastNodes(t) \subseteq Nat
  BY <1>1, StackFacts DEF IsWast
<1>3. \A i \in 1 .. n : f.stack[i] \in WastNodes(t)
  BY <1>1, StackFacts, ElementOfSeq
<1>4. f.stack[1] = f.root /\ f.root \in WastNodes(t)
  BY <1>2, <1>3 DEF InStep
<1>5. \A i \in 1 .. n : f.ofs_stack[i] \in Nat
  BY <1>1, StackFacts, ElementOfSeq
<1> DEFINE D == { i \in 2 .. n : ~ (f.stack[i] > f.root) }
<1>6. D = {}
  <2>1. SUFFICES ASSUME D # {} PROVE FALSE
    OBVIOUS
  <2>2. D \in SUBSET Nat
    OBVIOUS
  <2>3. PICK i \in D : \A j \in D : i <= j
    BY <2>1, <2>2, Least
  <2>4. i \in 2 .. n /\ ~ (f.stack[i] > f.root)
    OBVIOUS
  <2>5. PICK j \in 1 .. n - 1 : i = j + 1
    <3>1. i - 1 \in 1 .. n - 1 /\ i = (i - 1) + 1
      BY <1>2, <2>4
    <3>2. QED
      BY <3>1
  <2>6. /\ j \in 1 .. n /\ i \in 1 .. n
        /\ f.stack[i] = wa_opd(t, f.stack[j], f.ofs_stack[i])
    BY <1>1, <1>2, <2>4, <2>5 DEF InStep
  <2>7. f.stack[i] > f.stack[j]
    BY <1>2, <1>3, <1>5, <2>6, OperandFacts
  <2>8. j = 1 \/ j \notin D
    BY <1>2, <2>3, <2>5
  <2>9. f.root <= f.stack[j]
    <3>1. CASE j = 1
      BY <1>2, <1>4, <3>1
    <3>2. CASE j # 1
      <4>1. j \in 2 .. n
        BY <2>6, <3>2
      <4>2. f.stack[j] > f.root
        BY <2>8, <3>2, <4>1
      <4>3. QED
        BY <1>2, <1>3, <1>4, <2>6, <4>2
    <3>3. QED
      BY <3>1, <3>2
  <2>10. f.stack[i] \in Nat /\ f.stack[j] \in Nat /\ f.root \in Nat
    BY <1>2, <1>3, <1>4, <2>6
  <2>11. QED
    BY <2>4, <2>7, <2>9, <2>10
<1>7. ASSUME NEW i \in 1 .. n PROVE f.stack[i] \in Nat /\ f.root <= f.stack[i]
  <2>1. f.stack[i] \in Nat /\ f.root \in Nat
    BY <1>2, <1>3, <1>4
  <2>2. CASE i = 1
    BY <1>4, <2>1, <2>2
  <2>3. CASE i # 1
    <3>1. i \in 2 .. n /\ i \notin D
      BY <1>6, <2>3
    <3>2. f.stack[i] > f.root
      BY <3>1
    <3>3. QED
      BY <2>1, <3>2
  <2>4. QED
    BY <2>2, <2>3
<1>8. QED
  BY <1>1, <1>2, <1>4, <1>6, <1>7

\* An operand of the father on top is below the root, and has the place opd.
LEMMA OperandOfTop ==
  ASSUME NEW t, IsWast(t), NEW f \in FramesOf(t), InStep(t, f), f.stack # <<>>,
         NEW o \in Nat, NEW n \in WastNodes(t), n = wa_opd(t, Last(f.stack), o)
  PROVE  /\ n # f.root /\ wa_father(t, n) = Last(f.stack)
         /\ AfterOf(t, f.root, n) = Going(t, f, o + 1)
<1>1. Last(f.stack) = f.stack[Len(f.stack)] /\ Len(f.stack) \in 1 .. Len(f.stack) /\ Last(f.stack) \in WastNodes(t)
  BY StackFacts
<1>2. PICK x \in WastNodes(t) : x = Last(f.stack)
  BY <1>1
<1>3. o < wa_opd_count(t, x) /\ n > x
  BY <1>2, OperandFacts
<1>4. f.root <= x /\ f.root \in Nat /\ x \in Nat /\ n \in Nat
  <2>1. f.root \in Nat /\ f.root <= Last(f.stack)
    BY <1>1, BelowRoot
  <2>2. WastNodes(t) \subseteq Nat
    BY DEF IsWast
  <2>3. QED
    BY <1>2, <2>1, <2>2
<1>5. n # f.root
  BY <1>3, <1>4
<1>6. wa_father(t, n) = x
  BY <1>2, <1>3, FatherFacts
<1>7. AfterOf(t, f.root, n) = IF wa_opd(t, x, o + 1) # NoNode THEN wa_opd(t, x, o + 1)
                              ELSE AfterOf(t, f.root, x)
  BY <1>2, <1>3, <1>5, AfterFacts
<1>8. QED
  BY <1>2, <1>5, <1>6, <1>7 DEF Going, Above

LEMMA PoppedAim ==
  ASSUME TypeOK, NEW f \in FramesOf(tree), InStep(tree, f), f.stack # <<>>, NEW g, g = Popped(f)
  PROVE  Above(tree, f) = Going(tree, g, g.opd + 1)
<1>1. /\ g \in FramesOf(tree) /\ InStep(tree, g) /\ g.root = f.root
      /\ g.stack # <<>> => Last(f.stack) = wa_opd(tree, Last(g.stack), g.opd)
      /\ g.stack = <<>> => Last(f.stack) = f.root
  BY PoppedFacts
<1>2. Last(f.stack) \in WastNodes(tree) /\ g.opd \in Nat /\ IsWast(tree)
  BY <1>1, StackFacts, TreeFacts DEF FramesOf
<1>3. CASE g.stack = <<>>
  BY <1>1, <1>2, <1>3, AfterFacts DEF Above, Going
<1>4. CASE g.stack # <<>>
  <2>1. PICK n \in WastNodes(tree) : n = Last(f.stack)
    BY <1>2
  <2>2. AfterOf(tree, g.root, n) = Going(tree, g, g.opd + 1)
    BY <1>1, <1>2, <1>4, <2>1, OperandOfTop
  <2>3. QED
    BY <1>1, <2>1, <2>2 DEF Above
<1>5. QED
  BY <1>3, <1>4

LEMMA CaseUpAim ==
  ASSUME TypeOK, NEW f \in FramesOf(tree), InStep(tree, f), NEW g, g = CaseUp(f)
  PROVE  Aim(tree, g, Above(tree, f))
<1>1. CASE f.stack # <<>>
  BY <1>1, PoppedAim, PoppedFacts DEF CaseUp, Aim
<1>2. CASE f.stack = <<>>
  <2>1. g = [f EXCEPT !.next = NoNode, !.d = "Done"]
    BY <1>2 DEF CaseUp
  <2>2. g.next = NoNode /\ g.d = "Done"
    BY <2>1 DEF FramesOf
  <2>3. QED
    BY <1>2, <2>2 DEF Aim, Above
<1>3. QED
  BY <1>1, <1>2

LEMMA CaseNextAim ==
  ASSUME TypeOK, NEW f \in FramesOf(tree), InStep(tree, f), NEW o \in Nat, NEW g, g = CaseNext(f, o)
  PROVE  Aim(tree, g, Going(tree, f, o))
<1>1. CASE f.stack = <<>>
  <2>1. g = [f EXCEPT !.opd = o, !.d = "Done"] /\ f.next = NoNode
    BY <1>1 DEF CaseNext, InStep
  <2>2. g.next = NoNode /\ g.d = "Done"
    BY <2>1 DEF FramesOf
  <2>3. QED
    BY <1>1, <2>2 DEF Aim, Going, Above
<1>2. ASSUME f.stack # <<>>
      PROVE  IF o < wa_opd_count(tree, Last(f.stack))
               THEN wa_opd(tree, Last(f.stack), o) # NoNode
               ELSE wa_opd(tree, Last(f.stack), o) = NoNode
  <2>1. PICK x \in WastNodes(tree) : x = Last(f.stack)
    BY <1>2, StackFacts
  <2>2. IsWast(tree)
    BY TreeFacts
  <2>3. /\ NoNode \notin WastNodes(tree)
        /\ o < wa_opd_count(tree, x) => wa_opd(tree, x, o) \in WastNodes(tree)
        /\ ~ (o < wa_opd_count(tree, x)) => wa_opd(tree, x, o) = NoNode
    BY <2>2, OperandFacts
  <2>4. QED
    BY <2>1, <2>3
<1>3. CASE f.stack # <<>> /\ o < wa_opd_count(tree, Last(f.stack))
  <2>1. g = [f EXCEPT !.opd = o, !.next = wa_opd(tree, Last(f.stack), o)]
    BY <1>3 DEF CaseNext
  <2>2. g.next = wa_opd(tree, Last(f.stack), o)
    BY <2>1 DEF FramesOf
  <2>3. QED
    BY <1>2, <1>3, <2>2 DEF Aim, Going
<1>4. CASE f.stack # <<>> /\ ~ (o < wa_opd_count(tree, Last(f.stack)))
  <2> DEFINE m == [f EXCEPT !.opd = o]
  <2>1. g = CaseUp(m)
    BY <1>4 DEF CaseNext
  <2>2. /\ m \in FramesOf(tree) /\ m.stack = f.stack /\ m.ofs_stack = f.ofs_stack
        /\ m.root = f.root /\ m.next = f.next
    BY DEF FramesOf
  <2>3. InStep(tree, m)
    BY <2>2 DEF InStep
  <2> HIDE DEF m
  <2>4. Aim(tree, g, Above(tree, m))
    BY <2>1, <2>2, <2>3, CaseUpAim
  <2>5. Above(tree, m) = Above(tree, f)
    BY <2>2 DEF Above
  <2>6. Going(tree, f, o) = Above(tree, f)
    BY <1>2, <1>4 DEF Going
  <2>7. QED
    BY <2>4, <2>5, <2>6
<1>5. QED
  BY <1>1, <1>3, <1>4

(***************************************************************************)
(* The target of each answer, in terms of the stacks.                      *)
(***************************************************************************)
LEMMA DownTarget ==
  ASSUME TypeOK, NEW f, Right(tree, f), f.d = "Down", f.answer = "Down", NEW m, m = Pushed(f)
  PROVE  TargetOf(tree, VisitOf(f)) = Going(tree, m, 0)
<1>1. m.stack # <<>> /\ Last(m.stack) = f.a /\ m.root = f.root
  BY PushedFacts
<1>2. f.a \in WastNodes(tree) /\ IsWast(tree)
  BY TreeFacts DEF Right, AtPlace, FramesOf
<1>3. /\ wa_opd_count(tree, f.a) \in Nat /\ NoNode \notin WastNodes(tree)
      /\ 0 < wa_opd_count(tree, f.a) => wa_opd(tree, f.a, 0) \in WastNodes(tree)
      /\ ~ (0 < wa_opd_count(tree, f.a)) => wa_opd(tree, f.a, 0) = NoNode
  <2>1. PICK z \in Nat : z = 0
    OBVIOUS
  <2>2. QED
    BY <1>2, <2>1, OperandFacts
<1>4. Going(tree, m, 0) = IF wa_opd(tree, f.a, 0) # NoNode THEN wa_opd(tree, f.a, 0)
                          ELSE AfterOf(tree, f.root, f.a)
  BY <1>1 DEF Going, Above
<1>5. TargetOf(tree, VisitOf(f)) = IF wa_opd_count(tree, f.a) > 0 THEN wa_opd(tree, f.a, 0)
                             ELSE AfterOf(tree, f.root, f.a)
  BY <1>3 DEF TargetOf, VisitOf
<1>6. QED
  BY <1>3, <1>4, <1>5

LEMMA UpTarget ==
  ASSUME TypeOK, NEW f, Right(tree, f), f.d = "Up", f.answer = "Up"
  PROVE  TargetOf(tree, VisitOf(f)) = Above(tree, f)
<1>1. /\ f \in FramesOf(tree) /\ InStep(tree, f) /\ AtPlace(tree, f) /\ f.a \in WastNodes(tree)
      /\ f.opd \in Nat /\ IsWast(tree)
  BY TreeFacts DEF Right, AtPlace, FramesOf
<1>2. TargetOf(tree, VisitOf(f)) = IF f.a # f.root THEN AfterOf(tree, f.root, wa_father(tree, f.a)) ELSE NoNode
  BY DEF TargetOf, VisitOf
<1>3. CASE f.stack = <<>>
  BY <1>1, <1>2, <1>3 DEF AtPlace, Above
<1>4. CASE f.stack # <<>>
  <2>1. f.a # f.root /\ wa_father(tree, f.a) = Last(f.stack)
    BY <1>1, <1>4, OperandOfTop DEF AtPlace
  <2>2. QED
    BY <1>2, <1>4, <2>1 DEF Above
<1>5. QED
  BY <1>3, <1>4

LEMMA AnswerTarget ==
  ASSUME TypeOK, NEW f, Right(tree, f), f.d = Visiting, NEW d \in Answers,
         NEW h, h = [f EXCEPT !.d = d, !.answer = d]
  PROVE  Faithful(tree, h)
<1>1. /\ f \in FramesOf(tree) /\ InStep(tree, f) /\ AtPlace(tree, f) /\ f.a \in WastNodes(tree)
      /\ f.opd \in Nat /\ IsWast(tree)
  BY TreeFacts DEF Right, AtPlace, FramesOf
<1>2. /\ h.d = d /\ h.answer = d /\ h.stack = f.stack /\ h.root = f.root /\ h.a = f.a /\ h.opd = f.opd
      /\ d # Visiting
  BY <1>1 DEF FramesOf, Answers, Visiting
<1>3. ASSUME d = "Next" PROVE TargetOf(tree, VisitOf(h)) = Going(tree, h, h.opd + 1)
  <2>1. TargetOf(tree, VisitOf(h)) = AfterOf(tree, f.root, f.a)
    BY <1>2, <1>3 DEF TargetOf, VisitOf
  <2>2. Going(tree, h, h.opd + 1) = Going(tree, f, f.opd + 1)
    BY <1>2 DEF Going, Above
  <2>3. CASE f.stack = <<>>
    <3>1. f.a = f.root /\ Going(tree, f, f.opd + 1) = NoNode
      BY <1>1, <2>3 DEF AtPlace, Going, Above
    <3>2. QED
      BY <1>1, <2>1, <2>2, <3>1, AfterFacts
  <2>4. CASE f.stack # <<>>
    <3>1. f.a = wa_opd(tree, Last(f.stack), f.opd)
      BY <1>1, <2>4 DEF AtPlace
    <3>2. AfterOf(tree, f.root, f.a) = Going(tree, f, f.opd + 1)
      BY <1>1, <2>4, <3>1, OperandOfTop
    <3>3. QED
      BY <2>1, <2>2, <3>2
  <2>5. QED
    BY <2>3, <2>4
<1>4. d \in {"Done", "Error"} => TargetOf(tree, VisitOf(h)) = NoNode
  BY <1>2 DEF TargetOf, VisitOf
<1>5. QED
  BY <1>2, <1>3, <1>4 DEF Faithful

-----------------------------------------------------------------------------
(***************************************************************************)
(* The walks of TreeWalks: the frames of Walker, each seen as a visit.     *)
(***************************************************************************)
VisitsOf(s) == [k \in DOMAIN s |-> VisitOf(s[k])]

VisitSet(t) ==
  [ root : WastNodes(t) \cup {NoNode}, at : WastNodes(t) \cup {NoNode},
    answer : Answers \cup {Visiting} ]

LEMMA VisitsFacts ==
  ASSUME NEW t, NEW s \in Seq(FramesOf(t))
  PROVE  /\ VisitsOf(s) \in Seq(VisitSet(t)) /\ Len(VisitsOf(s)) = Len(s) /\ Len(s) \in Nat
         /\ \A k \in 1 .. Len(s) : VisitsOf(s)[k] = VisitOf(s[k])
         /\ VisitsOf(s) # <<>> <=> s # <<>>
<1>1. PICK n \in Nat : n = Len(s) /\ DOMAIN s = 1 .. n
  BY LenProperties
<1>2. \A k \in 1 .. n : VisitOf(s[k]) \in VisitSet(t)
  <2>1. \A k \in 1 .. n : s[k] \in FramesOf(t)
    BY <1>1, ElementOfSeq
  <2>2. \A f \in FramesOf(t) : VisitOf(f) \in VisitSet(t)
    BY DEF FramesOf, VisitSet, VisitOf
  <2>3. QED
    BY <2>1, <2>2
<1>3. VisitsOf(s) = [k \in 1 .. n |-> VisitOf(s[k])]
  BY <1>1 DEF VisitsOf
<1>4. VisitsOf(s) \in Seq(VisitSet(t)) /\ Len(VisitsOf(s)) = n
  <2>1. VisitsOf(s) \in [1 .. n -> VisitSet(t)]
    BY <1>2, <1>3
  <2>2. VisitsOf(s) \in Seq(VisitSet(t))
    BY <2>1, SeqDef
  <2>3. QED
    BY <1>1, <1>3, <2>1, <2>2, LenProperties
<1>5. VisitsOf(s) # <<>> <=> s # <<>>
  BY <1>1, <1>4, EmptySeq
<1>6. QED
  BY <1>1, <1>3, <1>4, <1>5

LEMMA AppendVisits ==
  ASSUME NEW t, NEW s \in Seq(FramesOf(t)), NEW f \in FramesOf(t)
  PROVE  VisitsOf(Append(s, f)) = Append(VisitsOf(s), VisitOf(f))
<1>1. PICK u \in Seq(FramesOf(t)) : u = Append(s, f)
  BY AppendFacts
<1>2. PICK n \in Nat : n = Len(s)
  BY LenProperties
<1>3. Len(u) = n + 1 /\ u[n + 1] = f /\ \A k \in 1 .. n : u[k] = s[k]
  BY <1>1, <1>2, AppendFacts
<1>4. PICK v \in Seq(VisitSet(t)), x \in VisitSet(t) : v = VisitsOf(s) /\ x = VisitOf(f)
  <2>1. VisitsOf(s) \in Seq(VisitSet(t))
    BY VisitsFacts
  <2>2. VisitOf(f) \in VisitSet(t)
    BY DEF FramesOf, VisitSet, VisitOf
  <2>3. QED
    BY <2>1, <2>2
<1>5. Len(v) = n /\ \A k \in 1 .. n : v[k] = VisitOf(s[k])
  BY <1>2, <1>4, VisitsFacts
<1>6. /\ Append(v, x) \in Seq(VisitSet(t)) /\ Len(Append(v, x)) = n + 1
      /\ Append(v, x)[n + 1] = x /\ \A k \in 1 .. n : Append(v, x)[k] = v[k]
  BY <1>5, AppendFacts
<1>7. /\ VisitsOf(u) \in Seq(VisitSet(t)) /\ Len(VisitsOf(u)) = n + 1
      /\ \A k \in 1 .. n + 1 : VisitsOf(u)[k] = VisitOf(u[k])
  BY <1>3, VisitsFacts
<1>8. ASSUME NEW k \in 1 .. n + 1 PROVE VisitsOf(u)[k] = Append(v, x)[k]
  <2>1. k \in 1 .. n \/ k = n + 1
    OBVIOUS
  <2>2. QED
    BY <1>3, <1>4, <1>5, <1>6, <1>7, <2>1
<1>9. VisitsOf(u) = Append(v, x)
  BY <1>6, <1>7, <1>8, SeqEqual
<1>10. QED
  BY <1>1, <1>4, <1>9

LEMMA FrontVisits ==
  ASSUME NEW t, NEW s \in Seq(FramesOf(t)), s # <<>>
  PROVE  /\ VisitsOf(s)[Len(VisitsOf(s))] = VisitOf(Last(s))
         /\ SubSeq(VisitsOf(s), 1, Len(VisitsOf(s)) - 1) = VisitsOf(Front(s))
<1>1. PICK n \in Nat : n = Len(s) /\ n >= 1
  BY FrontFacts
<1>2. PICK v \in Seq(VisitSet(t)) : v = VisitsOf(s)
  BY VisitsFacts
<1>3. Len(v) = n /\ \A k \in 1 .. n : v[k] = VisitOf(s[k])
  BY <1>1, <1>2, VisitsFacts
<1>4. v[Len(v)] = VisitOf(Last(s))
  <2>1. n \in 1 .. n
    BY <1>1
  <2>2. Last(s) = s[n]
    BY <1>1, FrontFacts
  <2>3. QED
    BY <1>3, <2>1, <2>2
<1>5. PICK u \in Seq(FramesOf(t)) : u = Front(s)
  BY FrontFacts
<1>6. Len(u) = n - 1 /\ \A k \in 1 .. n - 1 : u[k] = s[k]
  BY <1>1, <1>5, FrontFacts
<1>7. /\ VisitsOf(u) \in Seq(VisitSet(t)) /\ Len(VisitsOf(u)) = n - 1
      /\ \A k \in 1 .. n - 1 : VisitsOf(u)[k] = VisitOf(u[k])
  BY <1>6, VisitsFacts
<1>8. v # <<>>
  BY <1>1, <1>3, EmptySeq
<1>9. /\ Front(v) \in Seq(VisitSet(t)) /\ Len(Front(v)) = n - 1
      /\ \A k \in 1 .. n - 1 : Front(v)[k] = v[k]
  BY <1>3, <1>8, FrontFacts
<1>10. \A k \in 1 .. n - 1 : VisitsOf(u)[k] = Front(v)[k]
  <2>1. \A k \in 1 .. n - 1 : k \in 1 .. n
    BY <1>1
  <2>2. QED
    BY <1>3, <1>6, <1>7, <1>9, <2>1
<1>11. VisitsOf(u) = Front(v)
  BY <1>7, <1>9, <1>10, SeqEqual
<1>12. Front(v) = SubSeq(v, 1, Len(v) - 1)
  BY DEF Front
<1>13. QED
  BY <1>2, <1>4, <1>5, <1>11, <1>12

-----------------------------------------------------------------------------
(***************************************************************************)
(* The invariant with what every frame has to keep, and the innermost of   *)
(* the walks as TreeWalks sees it.                                         *)
(***************************************************************************)
Faith == IInv /\ AllFaithful(tree, walks)

LEMMA InnerIs ==
  ASSUME IInv, walks # <<>>
  PROVE  /\ Visits # <<>>
         /\ Promised!Inner = VisitOf(Inner)
         /\ Promised!Outer = VisitsOf(Front(walks))
         /\ Front(walks) \in Seq(FramesOf(tree))
<1>1. PICK s \in Seq(FramesOf(tree)) : s = walks
  BY DEF IInv, AllRight
<1>2. Visits = VisitsOf(s)
  BY <1>1 DEF Visits, VisitsOf
<1>3. /\ VisitsOf(s)[Len(VisitsOf(s))] = VisitOf(Last(s))
      /\ SubSeq(VisitsOf(s), 1, Len(VisitsOf(s)) - 1) = VisitsOf(Front(s))
      /\ VisitsOf(s) # <<>> /\ Front(s) \in Seq(FramesOf(tree))
  BY <1>1, VisitsFacts, FrontVisits, FrontFacts
<1>4. QED
  BY <1>1, <1>2, <1>3 DEF Promised!Inner, Promised!Outer, Inner

\* Frames that are faithful stay so under one more, or without the innermost.
LEMMA FaithfulFront ==
  ASSUME NEW t, NEW s, AllRight(t, s), s # <<>>, AllFaithful(t, s)
  PROVE  AllFaithful(t, Front(s)) /\ Faithful(t, Last(s))
<1>1. PICK x \in Seq(FramesOf(t)) : x = s
  BY DEF AllRight
<1>2. /\ Len(x) \in Nat /\ Len(x) >= 1 /\ DOMAIN x = 1 .. Len(x) /\ Last(x) = x[Len(x)]
      /\ DOMAIN Front(x) = 1 .. Len(x) - 1
      /\ \A i \in 1 .. Len(x) - 1 : Front(x)[i] = x[i]
  BY <1>1, FrontFacts
<1>3. (\A k \in 1 .. Len(x) - 1 : k \in DOMAIN x) /\ Len(x) \in DOMAIN x
  BY <1>2
<1>4. QED
  BY <1>1, <1>2, <1>3 DEF AllFaithful

LEMMA FaithfulAppend ==
  ASSUME NEW t, NEW s \in Seq(FramesOf(t)), AllFaithful(t, s),
         NEW f \in FramesOf(t), Faithful(t, f)
  PROVE  AllFaithful(t, Append(s, f))
<1>1. /\ Len(s) \in Nat /\ DOMAIN s = 1 .. Len(s) /\ DOMAIN Append(s, f) = 1 .. Len(s) + 1
      /\ Append(s, f)[Len(s) + 1] = f /\ \A i \in 1 .. Len(s) : Append(s, f)[i] = s[i]
  BY AppendFacts
<1>2. ASSUME NEW k \in DOMAIN Append(s, f) PROVE Faithful(t, Append(s, f)[k])
  <2>1. k \in 1 .. Len(s) \/ k = Len(s) + 1
    BY <1>1
  <2>2. QED
    BY <1>1, <2>1 DEF AllFaithful
<1>3. QED
  BY <1>2 DEF AllFaithful

\* What the visits are after a step that leaves f innermost, over under.
LEMMA VisitsAfter ==
  ASSUME NEW under \in Seq(FramesOf(tree)), NEW f \in FramesOf(tree), walks' = Append(under, f)
  PROVE  Visits' = Append(VisitsOf(under), VisitOf(f))
<1>1. Visits' = VisitsOf(walks')
  BY DEF Visits, VisitsOf
<1>2. QED
  BY <1>1, AppendVisits

LEMMA VisitsNow ==
  ASSUME IInv, walks # <<>>
  PROVE  Visits = Append(VisitsOf(Front(walks)), VisitOf(Inner))
<1>1. PICK s \in Seq(FramesOf(tree)) : s = walks
  BY DEF IInv, AllRight
<1>2. PICK u \in Seq(FramesOf(tree)), f \in FramesOf(tree) : u = Front(s) /\ f = Last(s)
  BY <1>1, FrontFacts
<1>3. s = Append(u, f)
  BY <1>1, <1>2, ReplaceFacts, FrontFacts, AppendFacts, SeqEqual
<1>4. VisitsOf(s) = Append(VisitsOf(u), VisitOf(f))
  BY <1>3, AppendVisits
<1>5. QED
  BY <1>1, <1>2, <1>4 DEF Visits, VisitsOf, Inner

(***************************************************************************)
(* A turn of the loop moves where the answer said, or only gets nearer to  *)
(* the node that it said.                                                  *)
(***************************************************************************)
Simulated == AllFaithful(tree', walks') /\ [Promised!WalksNext]_Promised!walkVars

LEMMA TurnSimulated ==
  ASSUME Faith, walks # <<>>, NEW f, f = Inner, f.answer # Visiting,
         NEW g, Ready(tree, g), SameVisit(f, g), Aim(tree, g, TargetOf(tree, VisitOf(f))), Turn(g)
  PROVE  Simulated
<1>1. PICK under \in Seq(FramesOf(tree)) : under = Front(walks)
  BY InnerIs DEF Faith
<1>2. /\ Visits # <<>> /\ Promised!Inner = VisitOf(f) /\ Promised!Outer = VisitsOf(under)
      /\ Visits = Append(VisitsOf(under), VisitOf(f))
  BY <1>1, InnerIs, VisitsNow DEF Faith
<1>3. AllFaithful(tree, under) /\ tree' = tree /\ TypeOK /\ IInv
  BY <1>1, FaithfulFront, Parts DEF Faith, IInv, Turn
<1>4. g \in FramesOf(tree) /\ VisitOf(g) = VisitOf(f)
  BY DEF Ready, SameVisit, VisitOf
<1>5. CASE g.next = NoNode
  <2>1. walks' = Append(under, g)
    BY <1>1, <1>5 DEF Turn
  <2>2. Faithful(tree, g)
    <3>1. \/ g.d = "Next" /\ TargetOf(tree, VisitOf(g)) = Going(tree, g, g.opd + 1)
          \/ g.d = "Done" /\ TargetOf(tree, VisitOf(g)) = NoNode
      BY <1>4, <1>5 DEF Aim
    <3>2. g.answer = f.answer
      BY DEF SameVisit
    <3>3. QED
      BY <3>1, <3>2 DEF Faithful, Visiting
  <2>3. AllFaithful(tree', walks')
    BY <1>3, <1>4, <2>1, <2>2, FaithfulAppend
  <2>4. Visits' = Visits
    BY <1>2, <1>4, <2>1, VisitsAfter
  <2>5. UNCHANGED Promised!walkVars
    BY <1>3, <2>4 DEF Promised!walkVars
  <2>6. QED
    BY <2>3, <2>5 DEF Simulated
<1>6. CASE g.next # NoNode
  <2>1. PICK h : h = Visited(g, g.next, methods)
    OBVIOUS
  <2>2. walks' = Append(under, h)
    BY <1>1, <1>6, <2>1 DEF Turn
  <2>3. Right(tree, h) /\ h \in FramesOf(tree)
    <3>1. PICK n \in WastNodes(tree) : n = g.next
      BY <1>4, <1>6 DEF FramesOf
    <3>2. QED
      BY <1>3, <1>6, <2>1, <3>1, VisitedRight DEF Ready, Right
  <2>4. VisitOf(h) = [VisitOf(f) EXCEPT !.at = TargetOf(tree, VisitOf(f)), !.answer = Visiting]
        /\ h.d = Visiting /\ h.answer = Visiting
    <3>1. /\ h.a = g.next /\ h.answer = Visiting /\ h.root = g.root /\ h.d = Visiting
      BY <1>4, <2>1 DEF Visited, FramesOf
    <3>2. g.root = f.root /\ g.next = TargetOf(tree, VisitOf(f))
      BY <1>6 DEF SameVisit, Aim
    <3>3. PICK x : x = TargetOf(tree, VisitOf(f))
      OBVIOUS
    <3>4. VisitOf(h) = [root |-> f.root, at |-> x, answer |-> Visiting]
      BY <3>1, <3>2, <3>3 DEF VisitOf
    <3>5. [VisitOf(f) EXCEPT !.at = x, !.answer = Visiting] = [root |-> f.root, at |-> x, answer |-> Visiting]
      <4>1. PICK v, r, a, w : v = VisitOf(f) /\ r = f.root /\ a = f.a /\ w = f.answer
        OBVIOUS
      <4>2. v = [root |-> r, at |-> a, answer |-> w]
        BY <4>1 DEF VisitOf
      <4>3. PICK u : u = [v EXCEPT !.at = x]
        OBVIOUS
      <4>4. u = [root |-> r, at |-> x, answer |-> w]
        BY <4>2, <4>3
      <4>5. [u EXCEPT !.answer = Visiting] = [root |-> r, at |-> x, answer |-> Visiting]
        BY <4>4
      <4>6. [v EXCEPT !.at = x, !.answer = Visiting] = [u EXCEPT !.answer = Visiting]
        BY <4>3
      <4>7. QED
        BY <4>1, <4>5, <4>6
    <3>6. QED
      BY <3>1, <3>3, <3>4, <3>5
  <2>5. Faithful(tree, h)
    BY <2>4 DEF Faithful, Visiting
  <2>6. AllFaithful(tree', walks')
    BY <1>3, <2>2, <2>3, <2>5, FaithfulAppend
  <2>7. Visits' = Append(VisitsOf(under), VisitOf(h))
    BY <2>2, <2>3, VisitsAfter
  <2>8. Promised!Target(Promised!Inner) = TargetOf(tree, VisitOf(f)) /\ TargetOf(tree, VisitOf(f)) # NoNode
    BY <1>2, <1>6, TargetIs DEF Aim
  <2>9. VisitOf(f).answer # Visiting
    BY DEF VisitOf
  <2>10. Promised!Move
    BY <1>2, <1>3, <2>4, <2>7, <2>8, <2>9, SameTree DEF Promised!Move
  <2>11. QED
    BY <2>6, <2>10 DEF Simulated, Promised!WalksNext
<1>7. QED
  BY <1>5, <1>6

(***************************************************************************)
(* A walk begins.                                                          *)
(***************************************************************************)
LEMMA BeginSimulated ==
  ASSUME Faith, NEW p \in Pilots, NEW n \in WastNodes(tree) \cup {NoNode},
         NEW under \in Seq(FramesOf(tree)), AllFaithful(tree, under), Visits = VisitsOf(under),
         do_walk(n, p, under),
         walks # <<>> => Inner.answer = Visiting /\ n \in Range(tree.operands[Inner.a])
  PROVE  Simulated
<1>1. PICK w : w = NewWalk(n, p)
  OBVIOUS
<1>2. /\ IInv /\ tree' = tree /\ w \in FramesOf(tree) /\ InStep(tree, w) /\ w.stack = <<>>
      /\ w.root = n /\ w.pilot = p /\ w.a = n /\ w.answer = "Done" /\ w.d = "Done"
  BY <1>1, NewWalkFacts DEF Faith, do_walk
<1>3. PICK h \in FramesOf(tree) : /\ walks' = Append(under, h)
                                  /\ Faithful(tree, h)
                                  /\ VisitOf(h) = Promised!Begun(n)
  <2>1. CASE n = NoNode
    <3>1. walks' = Append(under, w)
      BY <1>1, <2>1 DEF do_walk
    <3>2. VisitOf(w) = [root |-> n, at |-> n, answer |-> "Done"]
      BY <1>2 DEF VisitOf
    <3>3. TargetOf(tree, VisitOf(w)) = NoNode
      BY <3>2 DEF TargetOf
    <3>4. Faithful(tree, w)
      BY <1>2, <3>3 DEF Faithful, Visiting
    <3>5. VisitOf(w) = Promised!Begun(n)
      BY <2>1, <3>2, SameTree DEF Promised!Begun
    <3>6. QED
      BY <1>2, <3>1, <3>4, <3>5
  <2>2. CASE n # NoNode
    <3>1. PICK h : h = Visited(w, n, methods)
      OBVIOUS
    <3>2. walks' = Append(under, h)
      BY <1>1, <2>2, <3>1 DEF do_walk
    <3>3. Right(tree, h) /\ h \in FramesOf(tree)
      <4>1. n \in WastNodes(tree)
        BY <2>2
      <4>2. QED
        BY <1>2, <3>1, <4>1, VisitedRight DEF Right
    <3>4. h.a = n /\ h.answer = Visiting /\ h.root = n /\ h.d = Visiting
      BY <1>2, <3>1 DEF Visited, FramesOf
    <3>5. Faithful(tree, h)
      BY <3>4 DEF Faithful, Visiting
    <3>6. VisitOf(h) = Promised!Begun(n)
      BY <2>2, <3>4, SameTree DEF Promised!Begun, VisitOf
    <3>7. QED
      BY <3>2, <3>3, <3>5, <3>6
  <2>3. QED
    BY <2>1, <2>2
<1>4. AllFaithful(tree', walks')
  BY <1>2, <1>3, FaithfulAppend
<1>5. Visits' = Append(Visits, Promised!Begun(n))
  BY <1>3, VisitsAfter
<1>6. ASSUME Visits # <<>>
      PROVE  Promised!Inner.answer = Promised!Visiting /\ n \in Promised!Range(tree.operands[Promised!Inner.at])
  <2>1. walks # <<>>
    <3>1. PICK s \in Seq(FramesOf(tree)) : s = walks
      BY <1>2 DEF IInv, AllRight
    <3>2. Visits = VisitsOf(s)
      BY <3>1 DEF Visits, VisitsOf
    <3>3. QED
      BY <1>6, <3>1, <3>2, VisitsFacts
  <2>2. Promised!Inner = VisitOf(Inner)
    BY <1>2, <2>1, InnerIs
  <2>3. Promised!Inner.answer = Inner.answer /\ Promised!Inner.at = Inner.a
    BY <2>2 DEF VisitOf
  <2>4. QED
    BY <2>1, <2>3, SameTree DEF Promised!Range, Range
<1>7. Promised!Begin
  BY <1>2, <1>5, <1>6, SameTree DEF Promised!Begin
<1>8. QED
  BY <1>4, <1>7 DEF Simulated, Promised!WalksNext

LEMMA NextSimulated == Faith /\ [Next]_vars => Simulated
<1> SUFFICES ASSUME Faith, [Next]_vars PROVE Simulated
  OBVIOUS
<1>0. IInv /\ TypeOK /\ AllRight(tree, walks) /\ AllFaithful(tree, walks) /\ walks \in Seq(FramesOf(tree))
  BY Parts DEF Faith, IInv, AllRight
<1>1. ASSUME walks # <<>>, NEW f, f = Inner
      PROVE  /\ Right(tree, f) /\ f \in FramesOf(tree) /\ InStep(tree, f) /\ Faithful(tree, f)
             /\ Front(walks) \in Seq(FramesOf(tree)) /\ AllFaithful(tree, Front(walks))
             /\ Visits # <<>> /\ Promised!Inner = VisitOf(f)
             /\ Promised!Outer = VisitsOf(Front(walks))
             /\ Visits = Append(VisitsOf(Front(walks)), VisitOf(f))
  BY <1>0, <1>1, FrontRight, FaithfulFront, InnerIs, VisitsNow DEF Inner, Right
<1>2. ASSUME NEW n \in WastNodes(tree) \cup {NoNode}, NEW p \in Pilots, Start(n, p) PROVE Simulated
  <2>1. PICK u \in Seq(FramesOf(tree)) : u = walks /\ u = <<>>
    BY <1>0, <1>2 DEF Start
  <2>2. Visits = VisitsOf(u) /\ AllFaithful(tree, u) /\ do_walk(n, p, u) /\ walks = <<>>
    BY <1>0, <1>2, <2>1 DEF Visits, VisitsOf, Start
  <2>3. QED
    BY <2>2, BeginSimulated
<1>3. ASSUME NEW p \in Pilots, WalkOperand(p) PROVE Simulated
  <2>1. PICK f, u : f = Inner /\ u = Front(walks)
    OBVIOUS
  <2>2. /\ walks # <<>> /\ Right(tree, f) /\ f \in FramesOf(tree) /\ f.d = Visiting /\ Faithful(tree, f)
        /\ u \in Seq(FramesOf(tree)) /\ AllFaithful(tree, u)
        /\ Visits = Append(VisitsOf(u), VisitOf(f))
    BY <1>1, <1>3, <2>1 DEF WalkOperand
  <2>3. f.a \in WastNodes(tree) /\ f.asked \in Nat /\ f.answer = Visiting
    BY <2>2 DEF Right, AtPlace, FramesOf, Faithful
  <2>4. PICK n : n = wa_opd(tree, f.a, f.asked)
    OBVIOUS
  <2>5. n \in WastNodes(tree) /\ n \in Range(tree.operands[f.a])
    <3>1. /\ f.asked + 1 \in DOMAIN tree.operands[f.a] /\ n = tree.operands[f.a][f.asked + 1]
          /\ n \in WastNodes(tree)
      BY <1>0, <1>3, <2>1, <2>3, <2>4, OperandFacts, TreeFacts DEF WalkOperand
    <3>2. QED
      BY <3>1 DEF Range
  <2>6. PICK h : h = [f EXCEPT !.asked = f.asked + 1]
    OBVIOUS
  <2>7. /\ h \in FramesOf(tree) /\ h.d = f.d /\ h.answer = f.answer /\ VisitOf(h) = VisitOf(f)
    <3>1. PICK o \in Nat : o = f.asked + 1
      BY <2>3
    <3>2. h = [f EXCEPT !.asked = o]
      BY <2>6, <3>1
    <3>3. QED
      BY <2>2, <3>2 DEF FramesOf, VisitOf
  <2>8. Faithful(tree, h)
    BY <2>2, <2>3, <2>7 DEF Faithful, Visiting
  <2>9. PICK under \in Seq(FramesOf(tree)) : under = Append(u, h)
    BY <2>2, <2>7, AppendFacts
  <2>10. AllFaithful(tree, under) /\ VisitsOf(under) = Visits
    BY <2>2, <2>7, <2>8, <2>9, FaithfulAppend, AppendVisits
  <2>11. do_walk(n, p, under)
    BY <1>3, <2>1, <2>4, <2>6, <2>9 DEF WalkOperand
  <2>12. QED
    BY <2>1, <2>3, <2>5, <2>10, <2>11, BeginSimulated
<1>4. ASSUME NEW d \in Answers, Answer(d) PROVE Simulated
  <2>1. PICK f, h, u : f = Inner /\ h = [f EXCEPT !.d = d, !.answer = d] /\ u = Front(walks)
    OBVIOUS
  <2>2. /\ walks # <<>> /\ Right(tree, f) /\ f \in FramesOf(tree) /\ f.d = Visiting /\ f.answer = Visiting
        /\ u \in Seq(FramesOf(tree)) /\ AllFaithful(tree, u)
        /\ Visits # <<>> /\ Promised!Inner = VisitOf(f) /\ Promised!Outer = VisitsOf(u)
    BY <1>1, <1>4, <2>1 DEF Answer, Faithful
  <2>3. walks' = Append(u, h) /\ tree' = tree
    BY <1>4, <2>1 DEF Answer
  <2>4. h \in FramesOf(tree) /\ VisitOf(h) = [VisitOf(f) EXCEPT !.answer = d]
    <3>1. h \in FramesOf(tree) /\ h.root = f.root /\ h.a = f.a /\ h.answer = d
      BY <2>1, <2>2 DEF FramesOf
    <3>2. [VisitOf(f) EXCEPT !.answer = d] = [root |-> f.root, at |-> f.a, answer |-> d]
      <4>1. PICK v, r, a, w : v = VisitOf(f) /\ r = f.root /\ a = f.a /\ w = f.answer
        OBVIOUS
      <4>2. v = [root |-> r, at |-> a, answer |-> w]
        BY <4>1 DEF VisitOf
      <4>3. [v EXCEPT !.answer = d] = [root |-> r, at |-> a, answer |-> d]
        BY <4>2
      <4>4. QED
        BY <4>1, <4>3
    <3>3. QED
      BY <3>1, <3>2 DEF VisitOf
  <2>5. Faithful(tree, h)
    BY <1>0, <2>1, <2>2, AnswerTarget
  <2>6. AllFaithful(tree', walks')
    BY <2>2, <2>3, <2>4, <2>5, FaithfulAppend
  <2>7. Visits' = Append(VisitsOf(u), VisitOf(h))
    BY <2>2, <2>3, <2>4, VisitsAfter
  <2>8. VisitOf(f).answer = Visiting
    BY <2>2 DEF VisitOf
  <2>9. Promised!AnswerVisit
    BY <2>2, <2>3, <2>4, <2>7, <2>8, SameTree DEF Promised!AnswerVisit
  <2>10. QED
    BY <2>6, <2>9 DEF Simulated, Promised!WalksNext
<1>5. ASSUME GoDown PROVE Simulated
  <2>1. PICK f, m, g : f = Inner /\ m = Pushed(f) /\ g = CaseDown(f)
    OBVIOUS
  <2>2. walks # <<>> /\ f.d = "Down" /\ Right(tree, f) /\ Faithful(tree, f) /\ Turn(g)
    BY <1>1, <1>5, <2>1 DEF GoDown, Looping
  <2>3. f.answer = "Down" /\ f.answer # Visiting
    BY <2>2 DEF Faithful, Visiting
  <2>4. m \in FramesOf(tree) /\ InStep(tree, m) /\ g = CaseNext(m, 0)
    BY <2>1, <2>2, PushedFacts DEF CaseDown
  <2>5. Aim(tree, g, Going(tree, m, 0))
    BY <1>0, <2>4, CaseNextAim
  <2>6. TargetOf(tree, VisitOf(f)) = Going(tree, m, 0)
    BY <1>0, <2>1, <2>2, <2>3, DownTarget
  <2>7. Ready(tree, g) /\ SameVisit(f, g)
    BY <1>0, <2>1, <2>2, CaseDownFacts
  <2>8. QED
    BY <2>1, <2>2, <2>3, <2>5, <2>6, <2>7, TurnSimulated
<1>6. ASSUME GoNext PROVE Simulated
  <2>1. PICK f, g : f = Inner /\ g = CaseNext(f, f.opd + 1)
    OBVIOUS
  <2>2. /\ walks # <<>> /\ f.d = "Next" /\ f \in FramesOf(tree) /\ InStep(tree, f)
        /\ Faithful(tree, f) /\ Turn(g)
    BY <1>1, <1>6, <2>1 DEF GoNext, Looping
  <2>3. f.answer # Visiting /\ TargetOf(tree, VisitOf(f)) = Going(tree, f, f.opd + 1)
    BY <2>2 DEF Faithful, Visiting
  <2>4. f.opd + 1 \in Nat
    BY <2>2 DEF FramesOf
  <2>5. Aim(tree, g, Going(tree, f, f.opd + 1)) /\ Ready(tree, g) /\ SameVisit(f, g)
    BY <1>0, <2>1, <2>2, <2>4, CaseNextAim, CaseNextFacts
  <2>6. QED
    BY <2>1, <2>2, <2>3, <2>5, TurnSimulated
<1>7. ASSUME GoUp PROVE Simulated
  <2>1. PICK f, g : f = Inner /\ g = CaseUp(f)
    OBVIOUS
  <2>2. /\ walks # <<>> /\ f.d = "Up" /\ f \in FramesOf(tree) /\ InStep(tree, f)
        /\ Right(tree, f) /\ Faithful(tree, f) /\ Turn(g)
    BY <1>1, <1>7, <2>1 DEF GoUp, Looping
  <2>3. f.answer = "Up" /\ f.answer # Visiting
    BY <2>2 DEF Faithful, Visiting
  <2>4. TargetOf(tree, VisitOf(f)) = Above(tree, f)
    BY <1>0, <2>2, <2>3, UpTarget
  <2>5. Aim(tree, g, Above(tree, f)) /\ Ready(tree, g) /\ SameVisit(f, g)
    BY <1>0, <2>1, <2>2, CaseUpAim, CaseUpFacts
  <2>6. QED
    BY <2>1, <2>2, <2>3, <2>4, <2>5, TurnSimulated
<1>8. ASSUME Return PROVE Simulated
  <2>1. PICK f, u : f = Inner /\ u = Front(walks)
    OBVIOUS
  <2>2. /\ walks # <<>> /\ f.d \in {"Done", "Error"} /\ Faithful(tree, f)
        /\ u \in Seq(FramesOf(tree)) /\ AllFaithful(tree, u)
        /\ Visits # <<>> /\ Promised!Inner = VisitOf(f) /\ Promised!Outer = VisitsOf(u)
    BY <1>1, <1>8, <2>1 DEF Return, Looping
  <2>3. walks' = u /\ tree' = tree
    BY <1>8, <2>1 DEF Return
  <2>4. Promised!Target(VisitOf(f)) = NoNode /\ VisitOf(f).answer # Visiting
    BY <2>2, TargetIs DEF Faithful, VisitOf, Visiting
  <2>5. Visits' = VisitsOf(u)
    BY <2>3 DEF Visits, VisitsOf
  <2>6. Promised!End
    BY <2>2, <2>3, <2>4, <2>5, SameTree DEF Promised!End
  <2>7. QED
    BY <2>2, <2>3, <2>6 DEF Simulated, Promised!WalksNext
<1>9. ASSUME Restart \/ UNCHANGED vars PROVE Simulated
  <2>1. walks' = walks /\ tree' = tree
    BY <1>9 DEF Restart, vars
  <2>2. UNCHANGED Promised!walkVars
    BY <2>1 DEF Promised!walkVars, Visits
  <2>3. QED
    BY <1>0, <2>1, <2>2 DEF Simulated
<1>10. QED
  BY <1>2, <1>3, <1>4, <1>5, <1>6, <1>7, <1>8, <1>9 DEF Next, Walking

(***************************************************************************)
(* walk() with its stacks, its directions and its nested calls visits the  *)
(* nodes that TreeWalks says the answers ask for, in that order, and ends  *)
(* when there is none: for every tree and whatever the pilots answer.      *)
(***************************************************************************)
THEOREM WalkImplementsTreeWalks == Spec => Implements
<1>1. Init => Faith
  <2> SUFFICES ASSUME Init PROVE AllFaithful(tree, walks)
    BY InitIInv DEF Faith
  <2>1. QED
    BY DEF Init, AllFaithful
<1>2. Faith /\ [Next]_vars => Faith'
  BY NextIInv, NextSimulated DEF Faith, Simulated
<1>3. Init => Promised!WalksInit
  BY DEF Init, Promised!WalksInit, Visits
<1>4. Faith /\ [Next]_vars => [Promised!WalksNext]_Promised!walkVars
  BY NextSimulated DEF Simulated
<1>5. QED
  BY <1>1, <1>2, <1>3, <1>4, PTL DEF Spec, Implements, Promised!WalksSpecification
=============================================================================
