------------------------- MODULE AstRegistry_proofs --------------------------
(***************************************************************************)
(* Proofs about AstRegistry: counts, contents and strings are right, and   *)
(* nothing that is still used is freed, whatever is made, shared and       *)
(* assigned, for any number of addresses, words and handles.               *)
(***************************************************************************)
EXTENDS AstRegistry, ProofBasics, FiniteSetTheorems

CallRecords == [do : {"unref", "drop"}, node : Pointers]

(***************************************************************************)
(* There are finitely many nodes and pairs at a time, so that they can be  *)
(* counted.                                                                *)
(***************************************************************************)
Finite == IsFiniteSet(Live) /\ IsFiniteSet(DOMAIN pairs)

(***************************************************************************)
(* unref runs only within an assignment; meanwhile the handle is empty and *)
(* no node made before waits for a handle.                                 *)
(***************************************************************************)
AssignmentUnderWay ==
  /\ calls # <<>> => coming # Settled
  /\ coming # Settled =>
       made = Nothing /\ coming.to \in Handles /\ held[coming.to] = Nothing

(***************************************************************************)
(* A pair whose parts are being unref'ed is nobody's, is not found any     *)
(* more, and is freed by one call.                                         *)
(***************************************************************************)
DroppedOnce ==
  /\ \A a \in Dropping :
       /\ a \in Live /\ node[a].type = "pair"
       /\ Owners(a) = {}
       /\ \A k \in DOMAIN pairs : pairs[k] # a
  /\ \A i, j \in DOMAIN calls : calls[i].do = "drop" /\ calls[j] = calls[i] => i = j /\ calls[i].node # Nothing

(***************************************************************************)
(* The node that is to be assigned outlives the calls of unref: a handle   *)
(* leads to it, or nothing that is being unref'ed does.                    *)
(***************************************************************************)
Untouched(S, x) ==
  Parts(S) \subseteq S /\ { calls[k].node : k \in DOMAIN calls } \subseteq S /\ x \notin S

ComingKept ==
  coming # Settled =>
    \/ coming.node = Nothing
    \/ coming.node \in Below({held[h] : h \in Handles})
    \/ \E S \in SUBSET Pointers : Untouched(S, coming.node)

IInv ==
  /\ CountsExact /\ HashConsed /\ NoDangling /\ StringsHeld
  /\ Finite /\ AssignmentUnderWay /\ DroppedOnce /\ ComingKept
-----------------------------------------------------------------------------
(***************************************************************************)
(* What is at an address, and a call, are one of the records they look     *)
(* like.                                                                   *)
(***************************************************************************)
LEMMA ContentsFacts ==
  ASSUME NEW c \in Contents
  PROVE  /\ c.type \in {"free", "atom", "pair"}
         /\ c.type = "free" <=> c = Free
         /\ c.type = "atom" => c.str \in Words /\ c.ofs \in Offsets /\ c = Atom(c.str, c.ofs)
         /\ c.type = "pair" => c.car \in Pointers /\ c.cdr \in Pointers /\ c = Pair(c.car, c.cdr)
BY DEF Contents, Free, Atom, Pair

LEMMA FreeFacts == Free \in Contents /\ Free.type = "free"
BY DEF Contents, Free

LEMMA AtomFacts ==
  ASSUME NEW w \in Words, NEW o \in Offsets
  PROVE  /\ Atom(w, o) \in Contents /\ Atom(w, o) # Free
         /\ Atom(w, o).type = "atom" /\ Atom(w, o).str = w /\ Atom(w, o).ofs = o
BY DEF Contents, Free, Atom

LEMMA PairFacts ==
  ASSUME NEW x \in Pointers, NEW y \in Pointers
  PROVE  /\ Pair(x, y) \in Contents /\ Pair(x, y) # Free
         /\ Pair(x, y).type = "pair" /\ Pair(x, y).car = x /\ Pair(x, y).cdr = y
BY DEF Contents, Free, Pair

LEMMA CallFacts ==
  ASSUME NEW x \in Pointers
  PROVE  /\ Unref(x) \in CallRecords /\ Unref(x).do = "unref" /\ Unref(x).node = x
         /\ Drop(x) \in CallRecords  /\ Drop(x).do = "drop"   /\ Drop(x).node = x
         /\ \A c \in CallRecords : /\ c.do \in {"unref", "drop"} /\ c.node \in Pointers
                                   /\ c.do = "unref" => c = Unref(c.node)
                                   /\ c.do = "drop"  => c = Drop(c.node)
BY DEF CallRecords, Unref, Drop

\* ref on a node that is counted already.
LEMMA CountedFacts ==
  ASSUME NEW D, NEW r \in [D -> Nat], Nothing \notin D, NEW x \in D \cup {Nothing}
  PROVE  /\ Counted(r, x) \in [D -> Nat]
         /\ \A b \in D : Counted(r, x)[b] = r[b] + (IF b = x THEN 1 ELSE 0)
BY DEF Counted, With

\* The owners of a node can be counted.
LEMMA OwnersFinite ==
  ASSUME TypeOK, Finite, NEW a
  PROVE  IsFiniteSet(Owners(a))
<1> DEFINE All == ({"handle"} \X Handles) \cup ({"call"} \X DOMAIN calls)
                  \cup ({"car"} \X DOMAIN pairs) \cup ({"cdr"} \X DOMAIN pairs)
<1>1. DOMAIN calls = 1 .. Len(calls) /\ Len(calls) \in Nat
  BY LenProperties DEF TypeOK
<1>2. IsFiniteSet(DOMAIN calls)
  BY <1>1, FS_Interval
<1>3. \A x : IsFiniteSet({x})
  BY FS_Singleton
<1>4. /\ IsFiniteSet({"handle"} \X Handles) /\ IsFiniteSet({"call"} \X DOMAIN calls)
      /\ IsFiniteSet({"car"} \X DOMAIN pairs) /\ IsFiniteSet({"cdr"} \X DOMAIN pairs)
  BY <1>2, <1>3, RegistryAssumption, FS_Product DEF Finite
<1>5. IsFiniteSet(All)
  BY <1>4, FS_Union
<1>6. Owners(a) \subseteq All
  BY DEF Owners
<1>7. QED
  BY <1>5, <1>6, FS_Subset

LEMMA StepTypes ==
  ASSUME TypeOK
  PROVE  /\ \A a \in Addresses : node[a] \in Contents
         /\ \A h \in Handles : held[h] \in Pointers
         /\ made \in Pointers /\ coming.node \in Pointers
         /\ coming.to \in Handles \cup {NoHandle}
         /\ calls \in Seq(CallRecords)
         /\ Len(calls) \in Nat /\ DOMAIN calls = 1 .. Len(calls)
         /\ \A k \in DOMAIN calls : calls[k] \in CallRecords
         /\ \A k \in DOMAIN calls : calls[k].node \in Pointers
         /\ \A a \in Live : refs[a] \in Nat
<1>1. calls \in Seq(CallRecords)
  BY DEF TypeOK, CallRecords
<1>2. /\ Len(calls) \in Nat /\ DOMAIN calls = 1 .. Len(calls)
      /\ \A k \in DOMAIN calls : calls[k] \in CallRecords
  BY <1>1, LenProperties, ElementOfSeq
<1>3. coming.node \in Pointers /\ coming.to \in Handles \cup {NoHandle}
  BY DEF TypeOK
<1>4. \A k \in DOMAIN calls : calls[k].node \in Pointers
  BY <1>2 DEF CallRecords
<1>5. QED
  BY <1>1, <1>2, <1>3, <1>4 DEF TypeOK

(***************************************************************************)
(* Whatever has an owner is a node that is neither freed nor on its way.   *)
(***************************************************************************)
LEMMA Owned ==
  ASSUME IInv, NEW a \in Pointers, Owners(a) # {}
  PROVE  a = Nothing \/ a \in Live \ Dropping
<1>1. a \notin Dropping
  BY DEF IInv, DroppedOnce
<1>2. SUFFICES Readable(a)
  BY <1>1 DEF Readable
<1>3. CASE \E h \in Handles : held[h] = a
  BY <1>3 DEF IInv, NoDangling
<1>4. CASE \E k \in DOMAIN pairs : k[1] = a \/ k[2] = a
  <2>1. PICK k \in DOMAIN pairs : k[1] = a \/ k[2] = a
    BY <1>4
  <2>2. k[1] \in Pointers /\ k[2] \in Pointers
    BY DEF IInv, CountsExact, TypeOK
  <2>3. pairs[k] \in Live \ Dropping /\ node[pairs[k]] = Pair(k[1], k[2])
    BY DEF IInv, HashConsed, DroppedOnce
  <2>4. QED
    BY <2>1, <2>2, <2>3, PairFacts DEF IInv, NoDangling
<1>5. CASE \E k \in DOMAIN calls : calls[k] = Unref(a)
  BY <1>5, CallFacts DEF IInv, NoDangling
<1>6. QED
  BY <1>3, <1>4, <1>5 DEF Owners

\* unref is never called for nothing on a node.
LEMMA SubjectOwned ==
  ASSUME IInv, Running("unref")
  PROVE  /\ Subject \in Pointers
         /\ calls[Len(calls)] = Unref(Subject) /\ Len(calls) \in DOMAIN calls
         /\ <<"call", Len(calls)>> \in Owners(Subject)
         /\ Subject # Nothing =>
              /\ Subject \in Live \ Dropping
              /\ refs[Subject] \in Nat /\ refs[Subject] >= 1
              /\ HasRef(Subject)
<1>1. calls \in Seq(CallRecords) /\ calls # <<>>
  BY StepTypes DEF IInv, CountsExact, Running
<1>2. /\ Last(calls) = calls[Len(calls)] /\ Last(calls) \in CallRecords
      /\ Len(calls) \in DOMAIN calls
  BY <1>1, FrontFacts
<1>3. Subject \in Pointers /\ Last(calls) = Unref(Subject)
  BY <1>2, CallFacts, Nothing \in Pointers DEF Running, Subject, Pointers
<1>4. <<"call", Len(calls)>> \in Owners(Subject)
  BY <1>2, <1>3 DEF Owners
<1>5. ASSUME Subject # Nothing
      PROVE  Subject \in Live \ Dropping /\ refs[Subject] \in Nat /\ refs[Subject] >= 1
  <2>1. Subject \in Live \ Dropping
    BY <1>3, <1>4, <1>5, Owned
  <2>2. IsFiniteSet(Owners(Subject)) /\ TypeOK
    BY OwnersFinite DEF IInv, CountsExact
  <2>3. Cardinality(Owners(Subject)) \in Nat /\ Cardinality(Owners(Subject)) # 0
    BY <1>4, <2>2, FS_EmptySet, FS_CardinalityType
  <2>4. refs[Subject] = Cardinality(Owners(Subject))
    BY <2>1 DEF IInv, CountsExact
  <2>5. QED
    BY <2>1, <2>3, <2>4
<1>6. QED
  BY <1>2, <1>3, <1>4, <1>5 DEF HasRef, Live

\* A node that is not shared belongs to the call that is about to free it.
LEMMA SoleOwner ==
  ASSUME IInv, Running("unref"), HasRef(Subject), ~Shared(Subject)
  PROVE  /\ refs[Subject] = 1
         /\ Owners(Subject) = { <<"call", Len(calls)>> }
<1>1. Subject \in Live \ Dropping /\ refs[Subject] = 1
  BY SubjectOwned DEF HasRef, Shared
<1>2. Cardinality(Owners(Subject)) = 1 /\ IsFiniteSet(Owners(Subject))
  BY <1>1, OwnersFinite DEF IInv, CountsExact
<1>3. \E o : Owners(Subject) = {o}
  BY <1>2, FS_Singleton
<1>4. QED
  BY <1>1, <1>3, SubjectOwned

-----------------------------------------------------------------------------
\* Steps that leave the calls, or the owners of all nodes, as they are.
LEMMA QuietFrame ==
  ASSUME Idle, UNCHANGED <<calls, coming>>
  PROVE  /\ AssignmentUnderWay' /\ DroppedOnce' /\ ComingKept'
         /\ Dropping = {} /\ Dropping' = {}
         /\ DOMAIN calls = {} /\ DOMAIN calls' = {}
<1>1. calls = <<>> /\ calls' = <<>> /\ coming' = Settled
  BY DEF Idle
<1>2. DOMAIN <<>> = {}
  OBVIOUS
<1>3. Dropping = {} /\ Dropping' = {}
  BY <1>1, <1>2 DEF Dropping, ToSet
<1>4. QED
  BY <1>1, <1>2, <1>3 DEF AssignmentUnderWay, DroppedOnce, ComingKept

LEMMA OwnersFrame ==
  ASSUME UNCHANGED <<held, pairs, calls>>
  PROVE  (\A a : Owners(a)' = Owners(a)) /\ Dropping' = Dropping
BY DEF Owners, Dropping

LEMMA InitIInv == Init => IInv
<1> SUFFICES ASSUME Init PROVE IInv
  OBVIOUS
<1>1. /\ DOMAIN Empty = {} /\ Empty \in [DOMAIN Empty -> Addresses] /\ Empty \in [DOMAIN Empty -> Nat]
  BY DEF Empty
<1>2. Live = {} /\ DOMAIN atoms = {} /\ DOMAIN pairs = {} /\ calls = <<>> /\ coming = Settled
  BY <1>1 DEF Init, Live
<1>3. TypeOK
  <2>1. node \in [Addresses -> Contents]
    BY FreeFacts DEF Init
  <2>2. strings \in [Words -> 0 .. MaxCount] /\ labels \in [Words -> 0 .. MaxCount]
    BY RegistryAssumption DEF Init
  <2>3. held \in [Handles -> Pointers] /\ made \in Pointers
    BY DEF Init, Pointers
  <2>4. coming \in [to : Handles \cup {NoHandle}, node : Pointers]
    BY <1>2 DEF Settled, Pointers
  <2>5. calls \in Seq([do : {"unref", "drop"}, node : Pointers])
    BY <1>2
  <2>6. QED
    BY <1>1, <1>2, <2>1, <2>2, <2>3, <2>4, <2>5 DEF TypeOK, Init, Live
<1>4. CountsExact /\ HashConsed
  BY <1>2, <1>3 DEF CountsExact, HashConsed
<1>5. DOMAIN calls = {} /\ Dropping = {}
  BY <1>2 DEF Dropping, ToSet
<1>6. NoDangling
  <2>1. \A a \in Addresses : node[a] = Free
    BY DEF Init
  <2>2. made = Nothing /\ coming.node = Nothing /\ \A h \in Handles : held[h] = Nothing
    BY <1>2 DEF Init, Settled
  <2>3. QED
    BY <1>2, <1>5, <2>1, <2>2 DEF NoDangling, Readable
<1>7. StringsHeld
  <2>1. \A w : AtomsOf(w) = {}
    BY <1>2 DEF AtomsOf
  <2>2. \A w \in Words : strings[w] = 0 /\ labels[w] = 0
    BY DEF Init
  <2>3. QED
    BY <2>1, <2>2, FS_EmptySet DEF StringsHeld
<1>8. Finite
  BY <1>2, FS_EmptySet DEF Finite
<1>9. AssignmentUnderWay /\ DroppedOnce /\ ComingKept
  BY <1>2, <1>5 DEF AssignmentUnderWay, DroppedOnce, ComingKept
<1>10. QED
  BY <1>4, <1>6, <1>7, <1>8, <1>9 DEF IInv

(***************************************************************************)
(* Labels touch the strings only.                                          *)
(***************************************************************************)
LEMMA StringsOnly ==
  ASSUME IInv, Idle, UNCHANGED <<node, atoms, pairs, refs, held, made, calls, coming>>,
         strings' \in [Words -> 0 .. MaxCount], labels' \in [Words -> 0 .. MaxCount],
         StringsHeld'
  PROVE  IInv'
<1>1. TypeOK'
  BY DEF IInv, CountsExact, TypeOK, Live
<1>2. /\ AssignmentUnderWay' /\ DroppedOnce' /\ ComingKept'
      /\ \A a : Owners(a)' = Owners(a)
      /\ Dropping' = Dropping /\ Live' = Live
  BY QuietFrame, OwnersFrame DEF Live
<1>3. CountsExact'
  BY <1>1, <1>2 DEF IInv, CountsExact
<1>4. HashConsed' /\ NoDangling' /\ Finite'
  BY <1>2 DEF IInv, HashConsed, NoDangling, Readable, Finite
<1>5. QED
  BY <1>2, <1>3, <1>4 DEF IInv

LEMMA AtomsCounted ==
  ASSUME IInv, NEW w
  PROVE  IsFiniteSet(AtomsOf(w)) /\ Cardinality(AtomsOf(w)) \in Nat
<1>1. AtomsOf(w) \in SUBSET Live
  BY DEF AtomsOf
<1>2. QED
  BY <1>1, FS_Subset, FS_CardinalityType DEF IInv, Finite

LEMMA LabelKeeps ==
  ASSUME IInv, NEW w \in Words, Label(w) \/ Unlabel(w)
  PROVE  IInv'
<1>1. /\ strings \in [Words -> 0 .. MaxCount] /\ labels \in [Words -> 0 .. MaxCount]
      /\ MaxCount \in Nat
      /\ \A v \in Words : /\ strings[v] >= labels[v] + Cardinality(AtomsOf(v))
                          /\ Cardinality(AtomsOf(v)) \in Nat
  BY RegistryAssumption, AtomsCounted DEF IInv, CountsExact, TypeOK, StringsHeld
<1>2. Idle /\ UNCHANGED <<node, atoms, pairs, refs, held, made, calls, coming>>
  BY DEF Label, Unlabel
<1>3. \A v : AtomsOf(v)' = AtomsOf(v)
  BY <1>2 DEF AtomsOf, Live
<1>4. CASE Label(w)
  <2>1. /\ strings[w] < MaxCount
        /\ strings' = [strings EXCEPT ![w] = @ + 1] /\ labels' = [labels EXCEPT ![w] = @ + 1]
    BY <1>4 DEF Label, regstr
  <2>2. /\ strings' \in [Words -> 0 .. MaxCount] /\ labels' \in [Words -> 0 .. MaxCount]
        /\ \A v \in Words : strings'[v] >= labels'[v] + Cardinality(AtomsOf(v))
    BY <1>1, <2>1
  <2>3. QED
    BY <1>2, <1>3, <2>2, StringsOnly DEF StringsHeld
<1>5. CASE Unlabel(w)
  <2>1. /\ labels[w] > 0 /\ labels' = [labels EXCEPT ![w] = @ - 1]
        /\ strings' = [strings EXCEPT ![w] = IF @ = 0 THEN 0 ELSE @ - 1]
    BY <1>5 DEF Unlabel, unregstr
  <2>2. /\ strings' \in [Words -> 0 .. MaxCount] /\ labels' \in [Words -> 0 .. MaxCount]
        /\ \A v \in Words : strings'[v] >= labels'[v] + Cardinality(AtomsOf(v))
    BY <1>1, <2>1
  <2>3. QED
    BY <1>2, <1>3, <2>2, StringsOnly DEF StringsHeld
<1>6. QED
  BY <1>4, <1>5

\* A handle, a part or a call that could be named before names a node still.
LEMMA RegStr ==
  ASSUME IInv, NEW w \in Words, strings[w] < MaxCount, regstr(w)
  PROVE  /\ strings' \in [Words -> 0 .. MaxCount]
         /\ strings'[w] = strings[w] + 1
         /\ \A v \in Words \ {w} : strings'[v] = strings[v]
BY RegistryAssumption DEF IInv, CountsExact, TypeOK, regstr

LEMMA NewAtomKeeps ==
  ASSUME IInv, NEW w \in Words, NEW o \in Offsets, NewAtom(w, o)
  PROVE  IInv'
<1> DEFINE key == <<w, o>>
<1>1. /\ Idle /\ UNCHANGED <<pairs, labels, held, calls, coming>>
      /\ strings' \in [Words -> 0 .. MaxCount] /\ strings'[w] = strings[w] + 1
      /\ \A v \in Words \ {w} : strings'[v] = strings[v]
  BY RegStr DEF NewAtom
<1>2. /\ AssignmentUnderWay' /\ DroppedOnce' /\ ComingKept'
      /\ Dropping = {} /\ Dropping' = {} /\ DOMAIN calls' = {}
      /\ \A a : Owners(a)' = Owners(a)
  BY <1>1, QuietFrame, OwnersFrame
<1>3. TypeOK
  BY DEF IInv, CountsExact
<1>4. \A v \in Words : /\ strings[v] >= labels[v] + Cardinality(AtomsOf(v))
                       /\ strings[v] \in Nat /\ labels[v] \in Nat
                       /\ IsFiniteSet(AtomsOf(v)) /\ Cardinality(AtomsOf(v)) \in Nat
  BY <1>3, RegistryAssumption, AtomsCounted DEF IInv, StringsHeld, TypeOK
<1>5. CASE key \in DOMAIN atoms
  <2>1. made' = atoms[key] /\ UNCHANGED <<node, atoms, refs>>
    BY <1>5 DEF NewAtom
  <2>2. made' \in Live
    BY <1>5, <2>1 DEF IInv, HashConsed
  <2>3. Live' = Live /\ \A v : AtomsOf(v)' = AtomsOf(v)
    BY <2>1 DEF Live, AtomsOf
  <2>4. TypeOK'
    BY <1>1, <1>3, <2>1, <2>2, <2>3 DEF TypeOK, Pointers
  <2>5. CountsExact' /\ HashConsed' /\ Finite'
    BY <1>1, <1>2, <2>1, <2>3, <2>4 DEF IInv, CountsExact, HashConsed, Finite
  <2>6. NoDangling'
    BY <1>1, <1>2, <2>1, <2>2, <2>3 DEF IInv, NoDangling, Readable
  <2>7. StringsHeld'
    BY <1>1, <1>4, <2>3 DEF StringsHeld
  <2>8. QED
    BY <1>2, <2>5, <2>6, <2>7 DEF IInv
<1>6. CASE key \notin DOMAIN atoms
  <2>1. PICK a \in FreeAddresses :
          /\ node' = [node EXCEPT ![a] = Atom(w, o)]
          /\ atoms' = With(atoms, key, a)
          /\ refs' = With(refs, a, 0)
          /\ made' = a
    BY <1>6 DEF NewAtom
  <2>2. a \in Addresses /\ node[a] = Free /\ a \notin Live /\ a # Nothing
    BY <1>3, ContentsFacts, RegistryAssumption DEF FreeAddresses, TypeOK, IInv, NoDangling, Free
  <2>3. /\ node'[a] = Atom(w, o) /\ node' \in [Addresses -> Contents]
        /\ \A b \in Addresses \ {a} : node'[b] = node[b]
    BY <1>3, <2>1, <2>2, AtomFacts DEF TypeOK
  <2>4. /\ Live' = Live \cup {a} /\ refs'[a] = 0 /\ refs' \in [Live' -> Nat]
        /\ \A b \in Live : refs'[b] = refs[b]
    <3>1. refs \in [Live -> Nat] /\ 0 \in Nat /\ refs' = With(refs, a, 0) /\ a \notin Live
      BY <1>3, <2>1, <2>2 DEF TypeOK
    <3>2. /\ DOMAIN refs' = Live \cup {a} /\ refs' \in [Live \cup {a} -> Nat] /\ refs'[a] = 0
          /\ \A b \in Live \ {a} : refs'[b] = refs[b]
      BY <3>1 DEF With
    <3>3. QED
      BY <3>1, <3>2 DEF Live
  <2>5. /\ DOMAIN atoms' = DOMAIN atoms \cup {key} /\ atoms'[key] = a
        /\ atoms' \in [DOMAIN atoms' -> Addresses]
        /\ \A k \in DOMAIN atoms : atoms'[k] = atoms[k]
    <3>1. atoms \in [DOMAIN atoms -> Addresses] /\ a \in Addresses /\ atoms' = With(atoms, key, a)
      BY <1>3, <2>1, <2>2 DEF TypeOK
    <3>2. /\ DOMAIN atoms' = DOMAIN atoms \cup {key} /\ atoms' \in [DOMAIN atoms \cup {key} -> Addresses]
          /\ atoms'[key] = a
          /\ \A k \in DOMAIN atoms \ {key} : atoms'[k] = atoms[k]
      BY <3>1 DEF With
    <3>3. QED
      BY <1>6, <3>2
  <2>6. Owners(a) = {}
    BY <1>2, <2>2, Owned DEF Pointers
  <2>7. TypeOK'
    <3>1. DOMAIN atoms' \subseteq Words \X Offsets /\ Live' \subseteq Addresses
      BY <1>3, <2>2, <2>4, <2>5 DEF TypeOK
    <3>2. made' \in Pointers
      BY <2>1, <2>2 DEF Pointers
    <3>3. QED
      BY <1>1, <1>3, <2>3, <2>4, <2>5, <3>1, <3>2 DEF TypeOK
  <2>8. CountsExact'
    BY <1>2, <2>2, <2>4, <2>6, <2>7, FS_EmptySet DEF IInv, CountsExact
  <2>9. HashConsed'
    <3>1. \A b \in Live \ {a} : node'[b] = node[b]
      BY <1>3, <2>3 DEF TypeOK
    <3>2. \A k \in DOMAIN atoms : atoms'[k] # a /\ node'[atoms[k]] = node[atoms[k]]
      BY <2>2, <2>5, <3>1 DEF IInv, HashConsed
    <3>3. \A k \in DOMAIN pairs : pairs[k] # a /\ node'[pairs[k]] = node[pairs[k]]
      BY <2>2, <3>1 DEF IInv, HashConsed
    <3>4. \A b \in Live' :
            IF node'[b].type = "atom"
              THEN <<node'[b].str, node'[b].ofs>> \in DOMAIN atoms'
                   /\ atoms'[<<node'[b].str, node'[b].ofs>>] = b
              ELSE <<node'[b].car, node'[b].cdr>> \in DOMAIN pairs'
                   /\ pairs'[<<node'[b].car, node'[b].cdr>>] = b
      <4> SUFFICES ASSUME NEW b \in Live'
                   PROVE  IF node'[b].type = "atom"
                            THEN <<node'[b].str, node'[b].ofs>> \in DOMAIN atoms'
                                 /\ atoms'[<<node'[b].str, node'[b].ofs>>] = b
                            ELSE <<node'[b].car, node'[b].cdr>> \in DOMAIN pairs'
                                 /\ pairs'[<<node'[b].car, node'[b].cdr>>] = b
        OBVIOUS
      <4>1. CASE b = a
        BY <2>3, <2>5, <4>1, AtomFacts
      <4>2. CASE b # a
        BY <1>1, <1>2, <2>4, <2>5, <3>1, <4>2 DEF IInv, HashConsed
      <4>3. QED
        BY <4>1, <4>2
    <3>5. \A k \in DOMAIN atoms' : atoms'[k] \in Live' /\ node'[atoms'[k]] = Atom(k[1], k[2])
      BY <2>3, <2>4, <2>5, <3>2 DEF IInv, HashConsed
    <3>6. \A k \in DOMAIN pairs' : pairs'[k] \in Live' /\ node'[pairs'[k]] = Pair(k[1], k[2])
      BY <1>1, <2>4, <3>3 DEF IInv, HashConsed
    <3>7. QED
      BY <1>2, <3>4, <3>5, <3>6 DEF HashConsed
  <2>10. NoDangling'
    <3>1. Live' = { b \in Addresses : node'[b] # Free }
      BY <2>2, <2>3, <2>4, AtomFacts DEF IInv, NoDangling
    <3>2. \A b \in Live : node'[b] = node[b]
      BY <1>3, <2>2, <2>3 DEF TypeOK
    <3>3. \A b \in Live' :
            node'[b].type = "pair" => {node'[b].car, node'[b].cdr} \subseteq Live' \cup {Nothing}
      BY <1>2, <2>3, <2>4, <3>2, AtomFacts DEF IInv, NoDangling, Readable
    <3>4. QED
      BY <1>1, <1>2, <2>1, <2>4, <3>1, <3>3 DEF IInv, NoDangling, Readable
  <2>11. StringsHeld'
    <3>1. AtomsOf(w)' = AtomsOf(w) \cup {a} /\ a \notin AtomsOf(w)
      BY <1>3, <2>2, <2>3, <2>4, AtomFacts DEF AtomsOf, TypeOK
    <3>2. \A v \in Words \ {w} : AtomsOf(v)' = AtomsOf(v)
      BY <1>3, <2>2, <2>3, <2>4, AtomFacts DEF AtomsOf, TypeOK
    <3>3. Cardinality(AtomsOf(w)') = Cardinality(AtomsOf(w)) + 1
      BY <1>4, <3>1, FS_AddElement
    <3>4. QED
      BY <1>1, <1>4, <3>2, <3>3 DEF StringsHeld
  <2>12. Finite'
    BY <1>1, <2>4, FS_AddElement DEF IInv, Finite
  <2>13. QED
    BY <1>2, <2>8, <2>9, <2>10, <2>11, <2>12 DEF IInv
<1>7. QED
  BY <1>5, <1>6

\* One owner more, perhaps.
LEMMA MoreBy ==
  ASSUME NEW S, IsFiniteSet(S), NEW o, o \notin S, NEW x, NEW y
  PROVE  /\ IsFiniteSet(S \cup (IF x = y THEN {o} ELSE {}))
         /\ Cardinality(S \cup (IF x = y THEN {o} ELSE {}))
            = Cardinality(S) + (IF x = y THEN 1 ELSE 0)
<1>0. Cardinality(S) \in Nat
  BY FS_CardinalityType
<1>1. CASE x = y
  <2>1. (IF x = y THEN {o} ELSE {}) = {o} /\ (IF x = y THEN 1 ELSE 0) = 1
    BY <1>1
  <2>2. IsFiniteSet(S \cup {o}) /\ Cardinality(S \cup {o}) = Cardinality(S) + 1
    BY FS_AddElement
  <2>3. QED
    BY <2>1, <2>2
<1>2. CASE x # y
  <2>1. S \cup (IF x = y THEN {o} ELSE {}) = S /\ (IF x = y THEN 1 ELSE 0) = 0
    BY <1>2
  <2>2. QED
    BY <1>0, <2>1
<1>3. QED
  BY <1>1, <1>2

\* What a user may name is there.
LEMMA KnownReadable ==
  ASSUME IInv, NEW x \in Known
  PROVE  x \in Pointers /\ x \in Live \cup {Nothing}
BY DEF IInv, NoDangling, Readable, Known, CountsExact, TypeOK, Pointers

LEMMA NewPairKeeps ==
  ASSUME IInv, NEW car \in Known, NEW cdr \in Known, NewPair(car, cdr)
  PROVE  IInv'
<1> DEFINE key == <<car, cdr>>
<1>1. Idle /\ UNCHANGED <<atoms, strings, labels, held, calls, coming>>
  BY DEF NewPair
<1>2. /\ AssignmentUnderWay' /\ ComingKept'
      /\ Dropping = {} /\ Dropping' = {} /\ DOMAIN calls = {} /\ DOMAIN calls' = {}
      /\ DroppedOnce'
  BY <1>1, QuietFrame
<1>3. TypeOK
  BY DEF IInv, CountsExact
<1>4. /\ car \in Pointers /\ car \in Live \cup {Nothing}
      /\ cdr \in Pointers /\ cdr \in Live \cup {Nothing}
  BY KnownReadable
<1>5. CASE key \in DOMAIN pairs
  <2>1. made' = pairs[key] /\ UNCHANGED <<node, pairs, refs>>
    BY <1>5 DEF NewPair
  <2>2. made' \in Live
    BY <1>5, <2>1 DEF IInv, HashConsed
  <2>3. /\ Live' = Live /\ \A v : AtomsOf(v)' = AtomsOf(v)
        /\ \A b : Owners(b)' = Owners(b)
    BY <1>1, <2>1 DEF Live, AtomsOf, Owners
  <2>4. TypeOK'
    BY <1>1, <1>3, <2>1, <2>2, <2>3 DEF TypeOK, Pointers
  <2>5. CountsExact' /\ HashConsed' /\ Finite' /\ StringsHeld'
    BY <1>1, <1>2, <2>1, <2>3, <2>4 DEF IInv, CountsExact, HashConsed, Finite, StringsHeld
  <2>6. NoDangling'
    BY <1>1, <1>2, <2>1, <2>2, <2>3 DEF IInv, NoDangling, Readable
  <2>7. QED
    BY <1>2, <2>5, <2>6 DEF IInv
<1>6. CASE key \notin DOMAIN pairs
  <2>1. PICK a \in FreeAddresses :
          /\ node' = [node EXCEPT ![a] = Pair(car, cdr)]
          /\ pairs' = With(pairs, key, a)
          /\ refs' = With(Counted(Counted(refs, car), cdr), a, 0)
          /\ made' = a
    BY <1>6 DEF NewPair, PartsCounted
  <2>2. a \in Addresses /\ node[a] = Free /\ a \notin Live /\ a # Nothing
    BY <1>3, ContentsFacts, RegistryAssumption DEF FreeAddresses, TypeOK, IInv, NoDangling, Free
  <2>3. /\ node'[a] = Pair(car, cdr) /\ node' \in [Addresses -> Contents]
        /\ \A b \in Addresses \ {a} : node'[b] = node[b]
    BY <1>3, <1>4, <2>1, <2>2, PairFacts DEF TypeOK
  <2>4. /\ Live' = Live \cup {a} /\ refs'[a] = 0 /\ refs' \in [Live' -> Nat]
        /\ \A b \in Live : refs'[b] = refs[b] + (IF b = car THEN 1 ELSE 0) + (IF b = cdr THEN 1 ELSE 0)
    <3>1. refs \in [Live -> Nat] /\ Nothing \notin Live
      BY <1>3, RegistryAssumption DEF TypeOK
    <3> DEFINE more == Counted(Counted(refs, car), cdr)
    <3>2. /\ more \in [Live -> Nat]
          /\ \A b \in Live : more[b] = refs[b] + (IF b = car THEN 1 ELSE 0) + (IF b = cdr THEN 1 ELSE 0)
      <4>1. /\ Counted(refs, car) \in [Live -> Nat]
            /\ \A b \in Live : Counted(refs, car)[b] = refs[b] + (IF b = car THEN 1 ELSE 0)
        BY <1>4, <3>1, CountedFacts
      <4>2. /\ more \in [Live -> Nat]
            /\ \A b \in Live : more[b] = Counted(refs, car)[b] + (IF b = cdr THEN 1 ELSE 0)
        BY <1>4, <3>1, <4>1, CountedFacts
      <4>3. QED
        BY <4>1, <4>2
    <3>3. refs' = With(more, a, 0)
      BY <2>1
    <3> HIDE DEF more
    <3>4. /\ DOMAIN refs' = Live \cup {a} /\ refs' \in [Live \cup {a} -> Nat] /\ refs'[a] = 0
          /\ \A b \in Live : refs'[b] = more[b]
      BY <2>2, <3>2, <3>3 DEF With
    <3>5. QED
      BY <3>2, <3>4 DEF Live
  <2>5. /\ DOMAIN pairs' = DOMAIN pairs \cup {key} /\ pairs'[key] = a
        /\ pairs' \in [DOMAIN pairs' -> Addresses]
        /\ \A k \in DOMAIN pairs : pairs'[k] = pairs[k]
    <3>1. pairs \in [DOMAIN pairs -> Addresses] /\ a \in Addresses /\ pairs' = With(pairs, key, a)
      BY <1>3, <2>1, <2>2 DEF TypeOK
    <3>2. /\ DOMAIN pairs' = DOMAIN pairs \cup {key} /\ pairs' \in [DOMAIN pairs \cup {key} -> Addresses]
          /\ pairs'[key] = a
          /\ \A k \in DOMAIN pairs \ {key} : pairs'[k] = pairs[k]
      BY <3>1 DEF With
    <3>3. QED
      BY <1>6, <3>2
  <2>6. /\ Owners(a) = {} /\ a # car /\ a # cdr
        /\ \A b : Owners(b)' = Owners(b) \cup (IF b = car THEN {<<"car", key>>} ELSE {})
                                         \cup (IF b = cdr THEN {<<"cdr", key>>} ELSE {})
    <3>1. Owners(a) = {} /\ a # car /\ a # cdr
      BY <1>2, <1>4, <2>2, Owned DEF Pointers
    <3>2. ASSUME NEW b
          PROVE  Owners(b)' = Owners(b) \cup (IF b = car THEN {<<"car", key>>} ELSE {})
                                        \cup (IF b = cdr THEN {<<"cdr", key>>} ELSE {})
      <4>1. { q \in DOMAIN pairs' : q[1] = b }
            = { q \in DOMAIN pairs : q[1] = b } \cup (IF b = car THEN {key} ELSE {})
        BY <2>5
      <4>2. { q \in DOMAIN pairs' : q[2] = b }
            = { q \in DOMAIN pairs : q[2] = b } \cup (IF b = cdr THEN {key} ELSE {})
        BY <2>5
      <4>3. QED
        BY <1>1, <4>1, <4>2 DEF Owners
    <3>3. QED
      BY <3>1, <3>2
  <2>7. TypeOK'
    <3>1. DOMAIN pairs' \subseteq Pointers \X Pointers /\ Live' \subseteq Addresses
      BY <1>3, <1>4, <2>2, <2>4, <2>5 DEF TypeOK
    <3>2. made' \in Pointers
      BY <2>1, <2>2 DEF Pointers
    <3>3. QED
      BY <1>1, <1>3, <2>3, <2>4, <2>5, <3>1, <3>2 DEF TypeOK
  <2>8. CountsExact'
    <3>1. ASSUME NEW b \in Live PROVE refs'[b] = Cardinality(Owners(b)')
      <4>1. /\ IsFiniteSet(Owners(b)) /\ refs[b] = Cardinality(Owners(b)) /\ refs[b] \in Nat
            /\ <<"car", key>> \notin Owners(b) /\ <<"cdr", key>> \notin Owners(b)
        BY <1>2, <1>3, <1>6, OwnersFinite DEF IInv, CountsExact, TypeOK, Owners
      <4> DEFINE Some == Owners(b) \cup (IF b = car THEN {<<"car", key>>} ELSE {})
      <4>2. /\ IsFiniteSet(Some) /\ Cardinality(Some) = refs[b] + (IF b = car THEN 1 ELSE 0)
            /\ <<"cdr", key>> \notin Some
        <5>1. <<"cdr", key>> # <<"car", key>>
          OBVIOUS
        <5>2. QED
          BY <4>1, <5>1, MoreBy
      <4>3. Owners(b)' = Some \cup (IF b = cdr THEN {<<"cdr", key>>} ELSE {})
        BY <2>6
      <4>4. Cardinality(Owners(b)') = Cardinality(Some) + (IF b = cdr THEN 1 ELSE 0)
        <5> HIDE DEF Some
        <5>1. QED
          BY <4>2, <4>3, MoreBy
      <4>5. QED
        BY <2>4, <4>2, <4>4
    <3>2. refs'[a] = Cardinality(Owners(a)')
      BY <2>4, <2>6, FS_EmptySet
    <3>3. QED
      BY <1>2, <2>4, <2>7, <3>1, <3>2 DEF CountsExact
  <2>9. HashConsed'
    <3>1. \A b \in Live \ {a} : node'[b] = node[b]
      BY <1>3, <2>3 DEF TypeOK
    <3>2. \A k \in DOMAIN atoms : atoms[k] # a /\ node'[atoms[k]] = node[atoms[k]]
      BY <2>2, <3>1 DEF IInv, HashConsed
    <3>3. \A k \in DOMAIN pairs : pairs'[k] # a /\ node'[pairs[k]] = node[pairs[k]]
      BY <2>2, <2>5, <3>1 DEF IInv, HashConsed
    <3>4. \A b \in Live' :
            IF node'[b].type = "atom"
              THEN <<node'[b].str, node'[b].ofs>> \in DOMAIN atoms'
                   /\ atoms'[<<node'[b].str, node'[b].ofs>>] = b
              ELSE <<node'[b].car, node'[b].cdr>> \in DOMAIN pairs'
                   /\ pairs'[<<node'[b].car, node'[b].cdr>>] = b
      <4> SUFFICES ASSUME NEW b \in Live'
                   PROVE  IF node'[b].type = "atom"
                            THEN <<node'[b].str, node'[b].ofs>> \in DOMAIN atoms'
                                 /\ atoms'[<<node'[b].str, node'[b].ofs>>] = b
                            ELSE <<node'[b].car, node'[b].cdr>> \in DOMAIN pairs'
                                 /\ pairs'[<<node'[b].car, node'[b].cdr>>] = b
        OBVIOUS
      <4>1. CASE b = a
        BY <1>4, <2>3, <2>5, <4>1, PairFacts
      <4>2. CASE b # a
        BY <1>1, <1>2, <2>4, <2>5, <3>1, <4>2 DEF IInv, HashConsed
      <4>3. QED
        BY <4>1, <4>2
    <3>5. \A k \in DOMAIN pairs' : pairs'[k] \in Live' /\ node'[pairs'[k]] = Pair(k[1], k[2])
      BY <2>3, <2>4, <2>5, <3>3 DEF IInv, HashConsed
    <3>6. \A k \in DOMAIN atoms' : atoms'[k] \in Live' /\ node'[atoms'[k]] = Atom(k[1], k[2])
      BY <1>1, <2>4, <3>2 DEF IInv, HashConsed
    <3>7. QED
      BY <1>2, <3>4, <3>5, <3>6 DEF HashConsed
  <2>10. NoDangling'
    <3>1. Live' = { b \in Addresses : node'[b] # Free }
      BY <1>4, <2>2, <2>3, <2>4, PairFacts DEF IInv, NoDangling
    <3>2. \A b \in Live : node'[b] = node[b]
      BY <1>3, <2>2, <2>3 DEF TypeOK
    <3>3. \A b \in Live' :
            node'[b].type = "pair" => {node'[b].car, node'[b].cdr} \subseteq Live' \cup {Nothing}
      BY <1>2, <1>4, <2>3, <2>4, <3>2, PairFacts DEF IInv, NoDangling, Readable
    <3>4. QED
      BY <1>1, <1>2, <2>1, <2>4, <3>1, <3>3 DEF IInv, NoDangling, Readable
  <2>11. StringsHeld'
    <3>1. \A v \in Words : AtomsOf(v)' = AtomsOf(v)
      BY <1>3, <1>4, <2>2, <2>3, <2>4, PairFacts DEF AtomsOf, TypeOK
    <3>2. QED
      BY <1>1, <3>1 DEF IInv, StringsHeld
  <2>12. Finite'
    <3>1. IsFiniteSet(Live) /\ IsFiniteSet(DOMAIN pairs)
      BY DEF IInv, Finite
    <3>2. IsFiniteSet(Live \cup {a}) /\ IsFiniteSet(DOMAIN pairs \cup {key})
      BY <3>1, FS_AddElement
    <3>3. QED
      BY <2>4, <2>5, <3>2 DEF Finite
  <2>13. QED
    BY <1>2, <2>8, <2>9, <2>10, <2>11, <2>12 DEF IInv
<1>7. QED
  BY <1>5, <1>6

\* One owner instead of another.
LEMMA Swap ==
  ASSUME NEW S, IsFiniteSet(S), NEW o \in S, NEW p, p \notin S
  PROVE  Cardinality((S \ {o}) \cup {p}) = Cardinality(S) /\ IsFiniteSet((S \ {o}) \cup {p})
<1>1. IsFiniteSet(S \ {o}) /\ Cardinality(S \ {o}) = Cardinality(S) - 1
  BY FS_RemoveElement
<1>2. Cardinality((S \ {o}) \cup {p}) = Cardinality(S \ {o}) + 1 /\ IsFiniteSet((S \ {o}) \cup {p})
  BY <1>1, FS_AddElement
<1>3. QED
  BY <1>1, <1>2, FS_CardinalityType

\* What is written at the addresses, and what is counted, stays.
LEMMA NodesFrame ==
  ASSUME IInv, UNCHANGED <<node, atoms, pairs, strings, labels>>, Live' = Live, Dropping' = Dropping
  PROVE  HashConsed' /\ Finite' /\ StringsHeld'
BY DEF IInv, HashConsed, Finite, StringsHeld, AtomsOf

\* The parts of what can be named are there too.
LEMMA PartsReadable ==
  ASSUME IInv, Idle, NEW x \in Known \cup Parts(Known)
  PROVE  x \in Pointers /\ x \in Live \cup {Nothing}
<1>1. CASE x \in Known
  BY <1>1, KnownReadable
<1>2. CASE x \in Parts(Known)
  <2>1. PICK b \in Known \ {Nothing} : node[b].type = "pair" /\ x \in {node[b].car, node[b].cdr}
    BY <1>2 DEF Parts
  <2>2. b \in Live /\ b \in Addresses
    BY <2>1, KnownReadable DEF IInv, CountsExact, TypeOK
  <2>3. Dropping = {}
    BY DEF Dropping, ToSet, Idle
  <2>4. x \in Pointers
    BY <2>1, <2>2, ContentsFacts, StepTypes DEF IInv, CountsExact
  <2>5. x \in Live \cup {Nothing}
    BY <2>1, <2>2, <2>3 DEF IInv, NoDangling, Readable
  <2>6. QED
    BY <2>4, <2>5
<1>3. QED
  BY <1>1, <1>2

LEMMA AssignKeeps ==
  ASSUME IInv, NEW h \in Handles, NEW x \in Known \cup Parts(Known), Assign(h, x)
  PROVE  IInv'
<1> DEFINE old == held[h]
<1>1. /\ Idle /\ UNCHANGED <<node, atoms, pairs, refs, strings, labels>>
      /\ KeptWithout(h, x)
      /\ coming' = [to |-> h, node |-> x] /\ calls' = << Unref(old) >>
      /\ held' = [held EXCEPT ![h] = Nothing] /\ made' = Nothing
  BY DEF Assign
<1>2. TypeOK /\ Nothing \in Pointers
  BY DEF IInv, CountsExact, Pointers
<1>3. x \in Pointers /\ x \in Live \cup {Nothing}
  BY <1>1, PartsReadable
<1>4. /\ old \in Pointers /\ old \in Live \cup {Nothing}
      /\ Unref(old) \in CallRecords /\ Unref(old).do = "unref" /\ Unref(old).node = old
  <2>1. old \in Pointers /\ old \in Live \cup {Nothing}
    BY <1>2, StepTypes DEF IInv, NoDangling, Readable
  <2>2. QED
    BY <2>1, CallFacts
<1>5. /\ held' \in [Handles -> Pointers] /\ held'[h] = Nothing
      /\ \A k \in Handles \ {h} : held'[k] = held[k]
  BY <1>1, <1>2 DEF TypeOK
<1>6. DOMAIN calls = {} /\ DOMAIN calls' = {1} /\ calls'[1] = Unref(old)
  BY <1>1 DEF Idle
<1>7. Dropping = {} /\ Dropping' = {}
  <2>1. \A a \in Addresses : Drop(a) # Unref(old)
    BY <1>4, CallFacts DEF Pointers
  <2>2. QED
    BY <1>6, <2>1 DEF Dropping, ToSet
<1>8. Live' = Live
  BY <1>1 DEF Live
<1>9. HashConsed' /\ Finite' /\ StringsHeld'
  BY <1>1, <1>7, <1>8, NodesFrame
<1>10. TypeOK'
  <2>1. calls' \in Seq([do : {"unref", "drop"}, node : Pointers])
    BY <1>1, <1>4 DEF CallRecords
  <2>2. coming' \in [to : Handles \cup {NoHandle}, node : Pointers]
    BY <1>1, <1>3
  <2>3. QED
    BY <1>1, <1>2, <1>5, <1>8, <2>1, <2>2 DEF TypeOK
<1>11. CountsExact'
  <2>1. ASSUME NEW a \in Live PROVE refs[a] = Cardinality(Owners(a)')
    <3>1. refs[a] = Cardinality(Owners(a)) /\ IsFiniteSet(Owners(a)) /\ a # Nothing
      BY <1>2, <1>7, OwnersFinite, RegistryAssumption DEF IInv, CountsExact, TypeOK
    <3>2. { k \in Handles : held'[k] = a } = { k \in Handles : held[k] = a } \ {h}
      BY <1>5, <3>1
    <3>3. { k \in DOMAIN calls' : calls'[k] = Unref(a) } = IF a = old THEN {1} ELSE {}
      <4>1. Unref(a).node = a
        BY DEF Unref
      <4>2. QED
        BY <1>4, <1>6, <4>1
    <3>4. CASE a = old
      <4>1. Owners(a)' = (Owners(a) \ {<<"handle", h>>}) \cup {<<"call", 1>>}
        BY <1>1, <1>6, <3>2, <3>3, <3>4 DEF Owners
      <4>2. <<"handle", h>> \in Owners(a) /\ <<"call", 1>> \notin Owners(a)
        BY <1>6, <3>4 DEF Owners
      <4>3. QED
        BY <3>1, <4>1, <4>2, Swap
    <3>5. CASE a # old
      <4>1. Owners(a)' = Owners(a)
        BY <1>1, <1>6, <3>2, <3>3, <3>5 DEF Owners
      <4>2. QED
        BY <3>1, <4>1
    <3>6. QED
      BY <3>4, <3>5
  <2>2. QED
    BY <1>1, <1>8, <1>10, <2>1 DEF CountsExact
<1>12. NoDangling'
  BY <1>1, <1>3, <1>4, <1>5, <1>6, <1>7, <1>8 DEF IInv, NoDangling, Readable
<1>13. AssignmentUnderWay' /\ DroppedOnce' /\ coming' # Settled
  BY <1>1, <1>4, <1>5, <1>6, <1>7, RegistryAssumption
     DEF AssignmentUnderWay, DroppedOnce, Settled, NoHandle
<1>14. ComingKept'
  <2>1. \A S : Parts(S)' = Parts(S)
    BY <1>1 DEF Parts
  <2>2. { calls'[k].node : k \in DOMAIN calls' } = {old}
    BY <1>4, <1>6
  <2>3. CASE x = Nothing
    BY <1>1, <2>3 DEF ComingKept
  <2>4. CASE x \notin Below({old})
    <3>1. PICK S \in SUBSET Pointers : {old} \subseteq S /\ Parts(S) \subseteq S /\ x \notin S
      BY <1>3, <2>4 DEF Below
    <3>2. Untouched(S, x)'
      BY <2>1, <2>2, <3>1 DEF Untouched
    <3>3. QED
      BY <1>1, <3>2 DEF ComingKept, Untouched
  <2>5. CASE x \in Below({held[k] : k \in Handles \ {h}})
    <3>1. { held[k] : k \in Handles \ {h} } \subseteq { held'[k] : k \in Handles }
      BY <1>5
    <3>2. x \in Below({ held[k] : k \in Handles })'
      BY <2>1, <2>5, <3>1 DEF Below
    <3>3. QED
      BY <1>1, <3>2 DEF ComingKept
  <2>6. QED
    BY <1>1, <2>3, <2>4, <2>5 DEF KeptWithout
<1>15. QED
  BY <1>9, <1>11, <1>12, <1>13, <1>14 DEF IInv

LEMMA AssignedKeeps ==
  ASSUME IInv, Assigned
  PROVE  IInv'
<1> DEFINE h == coming.to
           x == coming.node
<1>1. /\ coming # Settled /\ calls = <<>> /\ calls' = <<>> /\ coming' = Settled
      /\ held' = [held EXCEPT ![h] = x] /\ refs' = Counted(refs, x)
      /\ UNCHANGED <<node, atoms, pairs, strings, labels, made, calls>>
  BY DEF Assigned
<1>2. TypeOK /\ Nothing \notin Live
  BY RegistryAssumption DEF IInv, CountsExact, TypeOK
<1>3. h \in Handles /\ held[h] = Nothing /\ x \in Pointers /\ x \in Live \cup {Nothing}
  BY <1>1, <1>2, StepTypes DEF IInv, AssignmentUnderWay, NoDangling, Readable
<1>4. /\ held' \in [Handles -> Pointers] /\ held'[h] = x
      /\ \A k \in Handles \ {h} : held'[k] = held[k]
  BY <1>1, <1>2, <1>3 DEF TypeOK
<1>5. DOMAIN calls = {} /\ DOMAIN calls' = {} /\ Dropping = {} /\ Dropping' = {}
  BY <1>1 DEF Dropping, ToSet
<1>6. /\ refs' \in [Live -> Nat] /\ Live' = Live
      /\ \A b \in Live : refs'[b] = refs[b] + (IF b = x THEN 1 ELSE 0)
  <2>1. refs \in [Live -> Nat]
    BY <1>2 DEF TypeOK
  <2>2. /\ Counted(refs, x) \in [Live -> Nat]
        /\ \A b \in Live : Counted(refs, x)[b] = refs[b] + (IF b = x THEN 1 ELSE 0)
    BY <1>2, <1>3, <2>1, CountedFacts
  <2>3. QED
    BY <1>1, <2>2 DEF Live
<1>7. HashConsed' /\ Finite' /\ StringsHeld'
  BY <1>1, <1>5, <1>6, NodesFrame
<1>8. TypeOK'
  <2>1. coming' \in [to : Handles \cup {NoHandle}, node : Pointers]
    BY <1>1 DEF Settled, Pointers
  <2>2. QED
    BY <1>1, <1>2, <1>4, <1>6, <2>1 DEF TypeOK
<1>9. CountsExact'
  <2>1. ASSUME NEW a \in Live PROVE refs'[a] = Cardinality(Owners(a)')
    <3>1. refs[a] = Cardinality(Owners(a)) /\ IsFiniteSet(Owners(a)) /\ a # Nothing
      BY <1>2, <1>5, OwnersFinite DEF IInv, CountsExact
    <3>2. { k \in Handles : held'[k] = a }
          = { k \in Handles : held[k] = a } \cup (IF a = x THEN {h} ELSE {})
      BY <1>3, <1>4, <3>1
    <3>3. Owners(a)' = Owners(a) \cup (IF a = x THEN {<<"handle", h>>} ELSE {})
      BY <1>1, <3>2 DEF Owners
    <3>4. <<"handle", h>> \notin Owners(a)
      BY <1>3, <3>1 DEF Owners
    <3>5. Cardinality(Owners(a) \cup (IF a = x THEN {<<"handle", h>>} ELSE {}))
          = Cardinality(Owners(a)) + (IF a = x THEN 1 ELSE 0)
      BY <3>1, <3>4, MoreBy
    <3>6. QED
      BY <1>6, <3>1, <3>3, <3>5
  <2>2. QED
    BY <1>5, <1>6, <1>8, <2>1 DEF CountsExact
<1>10. NoDangling'
  BY <1>1, <1>3, <1>4, <1>5, <1>6 DEF IInv, NoDangling, Readable, Settled
<1>11. AssignmentUnderWay' /\ DroppedOnce' /\ ComingKept'
  BY <1>1, <1>5 DEF AssignmentUnderWay, DroppedOnce, ComingKept
<1>12. QED
  BY <1>7, <1>9, <1>10, <1>11 DEF IInv

-----------------------------------------------------------------------------
\* Whoever leads to a node owns it.
LEMMA Owning ==
  /\ \A h \in Handles : <<"handle", h>> \in Owners(held[h])
  /\ \A k \in DOMAIN pairs : <<"car", k>> \in Owners(k[1]) /\ <<"cdr", k>> \in Owners(k[2])
  /\ \A k \in DOMAIN calls : \A a : calls[k] = Unref(a) => <<"call", k>> \in Owners(a)
BY DEF Owners

\* The innermost call, and the calls around it.
LEMMA CallsFacts ==
  ASSUME IInv, calls # <<>>, NEW n, n = Len(calls), NEW a, a = Subject
  PROVE  /\ n \in Nat /\ n >= 1 /\ n \in DOMAIN calls /\ DOMAIN calls = 1 .. n
         /\ a \in Pointers /\ a = calls[n].node /\ Last(calls) = calls[n]
         /\ Running("unref") => calls[n] = Unref(a)
         /\ Running("drop") => calls[n] = Drop(a)
         /\ Front(calls) \in Seq(CallRecords)
         /\ Len(Front(calls)) = n - 1 /\ DOMAIN Front(calls) = DOMAIN calls \ {n}
         /\ \A i \in DOMAIN calls \ {n} : Front(calls)[i] = calls[i]
         /\ \A i \in DOMAIN calls : calls[i] \in CallRecords
<1>1. calls \in Seq(CallRecords) /\ \A i \in DOMAIN calls : calls[i] \in CallRecords
  BY StepTypes DEF IInv, CountsExact
<1>2. /\ n \in Nat /\ n >= 1 /\ DOMAIN calls = 1 .. n
      /\ Last(calls) = calls[n] /\ Last(calls) \in CallRecords
      /\ Front(calls) \in Seq(CallRecords) /\ Len(Front(calls)) = n - 1
      /\ DOMAIN Front(calls) = 1 .. n - 1
      /\ \A i \in 1 .. n - 1 : Front(calls)[i] = calls[i]
  BY <1>1, FrontFacts
<1>3. a = calls[n].node /\ a \in Pointers
  BY <1>2, Nothing \in Pointers, CallFacts DEF Subject, Pointers
<1>4. /\ Running("unref") => calls[n] = Unref(a)
      /\ Running("drop") => calls[n] = Drop(a)
  BY <1>2, <1>3, CallFacts DEF Running
<1>5. 1 .. n - 1 = (1 .. n) \ {n} /\ n \in 1 .. n
  BY <1>2
<1>6. QED
  BY <1>1, <1>2, <1>3, <1>4, <1>5

\* When a call of unref returns, its node has one owner less.
LEMMA UnrefReturns ==
  ASSUME IInv, Running("unref"), calls' = Front(calls), UNCHANGED <<held, pairs>>,
         NEW n, n = Len(calls), NEW a, a = Subject
  PROVE  /\ \A b \in Pointers :
              Owners(b)' = IF b = a THEN Owners(b) \ {<<"call", n>>} ELSE Owners(b)
         /\ Dropping' = Dropping
         /\ \A i, j \in DOMAIN calls' :
              calls'[i].do = "drop" /\ calls'[j] = calls'[i] => i = j /\ calls'[i].node # Nothing
<1>1. /\ calls[n] = Unref(a) /\ n \in DOMAIN calls
      /\ DOMAIN calls' = DOMAIN calls \ {n} /\ \A i \in DOMAIN calls \ {n} : calls'[i] = calls[i]
      /\ a \in Pointers
  BY CallsFacts DEF Running
<1>2. ASSUME NEW b \in Pointers
      PROVE  Owners(b)' = IF b = a THEN Owners(b) \ {<<"call", n>>} ELSE Owners(b)
  <2>1. { k \in DOMAIN calls' : calls'[k] = Unref(b) }
        = { k \in DOMAIN calls : calls[k] = Unref(b) } \ (IF b = a THEN {n} ELSE {})
    <3>1. b # a => Unref(b) # Unref(a)
      BY <1>1, CallFacts
    <3>2. QED
      BY <1>1, <3>1
  <2>2. QED
    BY <2>1 DEF Owners
<1>3. Dropping' = Dropping
  <2>1. \A b \in Addresses : Drop(b) # Unref(a)
    BY <1>1, CallFacts DEF Pointers
  <2>2. QED
    BY <1>1, <2>1 DEF Dropping, ToSet
<1>4. QED
  BY <1>1, <1>2, <1>3 DEF IInv, DroppedOnce

\* A node that no handle and no pair leads to is not the one to be assigned.
LEMMA Abandoned ==
  ASSUME IInv, NEW a \in Live, NEW n, Owners(a) \subseteq {<<"call", n>>}
  PROVE  /\ \A h \in Handles : held[h] # a
         /\ \A k \in DOMAIN pairs : k[1] # a /\ k[2] # a
         /\ \A b \in Live \ Dropping : node[b].type = "pair" =>
              /\ node[b].car # a /\ node[b].cdr # a
              /\ node[b].car \in Pointers /\ node[b].car \in (Live \ Dropping) \cup {Nothing}
              /\ node[b].cdr \in Pointers /\ node[b].cdr \in (Live \ Dropping) \cup {Nothing}
<1>0. \A x : /\ <<"handle", x>> \notin Owners(a) /\ <<"car", x>> \notin Owners(a)
              /\ <<"cdr", x>> \notin Owners(a)
  <2>1. \A x : /\ <<"handle", x>> # <<"call", n>> /\ <<"car", x>> # <<"call", n>>
               /\ <<"cdr", x>> # <<"call", n>>
    OBVIOUS
  <2>2. QED
    BY <2>1
<1>1. \A h \in Handles : held[h] # a
  BY <1>0, Owning
<1>2. \A k \in DOMAIN pairs : k[1] # a /\ k[2] # a
  BY <1>0, Owning
<1>3. ASSUME NEW b \in Live \ Dropping, node[b].type = "pair"
      PROVE  /\ node[b].car # a /\ node[b].cdr # a
             /\ node[b].car \in Pointers /\ node[b].car \in (Live \ Dropping) \cup {Nothing}
             /\ node[b].cdr \in Pointers /\ node[b].cdr \in (Live \ Dropping) \cup {Nothing}
  <2> DEFINE key == <<node[b].car, node[b].cdr>>
  <2>1. key \in DOMAIN pairs
    BY <1>3 DEF IInv, HashConsed
  <2>2. node[b].car \in Pointers /\ node[b].cdr \in Pointers
    BY <1>3, ContentsFacts, StepTypes DEF IInv, CountsExact, TypeOK
  <2>3. Owners(node[b].car) # {} /\ Owners(node[b].cdr) # {}
    BY <2>1, Owning
  <2>4. QED
    BY <1>2, <2>1, <2>2, <2>3, Owned
<1>4. QED
  BY <1>1, <1>2, <1>3

\* What can be read from the handles, and is not about to be freed.
Standing(a) == {Nothing} \cup ((Live \ Dropping) \ {a})

LEMMA StandingClosed ==
  ASSUME IInv, NEW a \in Live, NEW n, Owners(a) \subseteq {<<"call", n>>}
  PROVE  /\ Standing(a) \subseteq Pointers
         /\ {held[h] : h \in Handles} \subseteq Standing(a)
         /\ Parts(Standing(a)) \subseteq Standing(a)
<1>1. Standing(a) \subseteq Pointers
  BY DEF IInv, CountsExact, TypeOK, Standing, Pointers
<1>2. \A h \in Handles : held[h] \in Standing(a)
  <2>1. \A h \in Handles : held[h] # a /\ Owners(held[h]) # {} /\ held[h] \in Pointers
    BY Abandoned, Owning, StepTypes DEF IInv, CountsExact
  <2>2. QED
    BY <2>1, Owned DEF Standing
<1>3. Parts(Standing(a)) \subseteq Standing(a)
  BY Abandoned DEF Parts, Standing
<1>4. QED
  BY <1>1, <1>2, <1>3

LEMMA ComingElsewhere ==
  ASSUME IInv, NEW a \in Live, NEW n, Owners(a) \subseteq {<<"call", n>>},
         NEW k \in DOMAIN calls, calls[k].node = a
  PROVE  coming.node # a
<1>1. a # Nothing
  BY RegistryAssumption DEF IInv, CountsExact, TypeOK
<1>2. coming # Settled
  BY DEF IInv, AssignmentUnderWay
<1>3. CASE coming.node \in Below({held[h] : h \in Handles})
  <2>1. coming.node \in Standing(a)
    BY <1>3, StandingClosed DEF Below
  <2>2. QED
    BY <1>1, <2>1 DEF Standing
<1>4. CASE \E S \in SUBSET Pointers : Untouched(S, coming.node)
  BY <1>4 DEF Untouched
<1>5. QED
  BY <1>1, <1>2, <1>3, <1>4 DEF IInv, ComingKept

\* The calls go on with nodes they had, or with the parts of those.
CallNodes == { calls[k].node : k \in DOMAIN calls }

LEMMA KeptOn ==
  ASSUME IInv, UNCHANGED <<node, held, coming>>,
         CallNodes' \subseteq CallNodes \cup Parts(CallNodes)
  PROVE  ComingKept'
<1>1. \A S : Parts(S)' = Parts(S)
  BY DEF Parts
<1>2. \A X : Below(X)' = Below(X)
  BY <1>1 DEF Below
<1>3. ASSUME NEW S \in SUBSET Pointers, Untouched(S, coming.node)
      PROVE  Untouched(S, coming.node)'
  <2>1. Parts(S) \subseteq S /\ CallNodes \subseteq S /\ coming.node \notin S
    BY <1>3 DEF Untouched, CallNodes
  <2>2. Parts(CallNodes) \subseteq Parts(S)
    BY <2>1 DEF Parts
  <2>3. CallNodes' \subseteq S
    BY <2>1, <2>2
  <2>4. QED
    BY <1>1, <2>1, <2>3 DEF Untouched, CallNodes
<1>4. QED
  BY <1>2, <1>3 DEF IInv, ComingKept

LEMMA KeptWhenFreed ==
  ASSUME IInv, NEW a \in Live, NEW n, Owners(a) \subseteq {<<"call", n>>},
         node' = [node EXCEPT ![a] = Free], UNCHANGED <<held, coming>>,
         CallNodes' \subseteq CallNodes
  PROVE  ComingKept'
<1>1. /\ a \in Addresses /\ a # Nothing /\ node'[a].type = "free"
      /\ \A b \in Addresses \ {a} : node'[b] = node[b]
      /\ Live \subseteq Addresses
  BY FreeFacts, RegistryAssumption DEF IInv, CountsExact, TypeOK
<1>2. ASSUME NEW S \in SUBSET Pointers PROVE Parts(S)' \subseteq Parts(S)
  BY <1>1 DEF Parts, Pointers
<1>3. ASSUME NEW S \in SUBSET Pointers, Untouched(S, coming.node)
      PROVE  Untouched(S, coming.node)'
  BY <1>2, <1>3 DEF Untouched, CallNodes
<1>4. ASSUME NEW x, x \in Below({held[h] : h \in Handles})
      PROVE  x \in Below({held[h] : h \in Handles})'
  <2> SUFFICES ASSUME NEW S \in SUBSET Pointers,
                      {held[h] : h \in Handles} \subseteq S, Parts(S)' \subseteq S
               PROVE  x \in S
    BY <1>4 DEF Below
  <2>1. Parts(S \cap Standing(a)) \subseteq Parts(S)'
    BY <1>1 DEF Parts, Standing
  <2>2. Parts(S \cap Standing(a)) \subseteq Parts(Standing(a))
    BY DEF Parts
  <2>3. /\ S \cap Standing(a) \in SUBSET Pointers
        /\ {held[h] : h \in Handles} \subseteq S \cap Standing(a)
        /\ Parts(S \cap Standing(a)) \subseteq S \cap Standing(a)
    BY <2>1, <2>2, StandingClosed
  <2>4. x \in S \cap Standing(a)
    BY <1>4, <2>3 DEF Below
  <2>5. QED
    BY <2>4
<1>5. QED
  BY <1>3, <1>4 DEF IInv, ComingKept

-----------------------------------------------------------------------------
LEMMA UnrefNothingKeeps ==
  ASSUME IInv, UnrefNothing, NEW n, n = Len(calls), NEW a, a = Subject
  PROVE  IInv'
<1>1. /\ Running("unref") /\ calls' = Front(calls) /\ calls # <<>>
      /\ UNCHANGED <<node, atoms, pairs, refs, strings, labels, held, made, coming>>
  BY DEF UnrefNothing, Running
<1>2. a = Nothing
  BY <1>1, SubjectOwned DEF UnrefNothing
<1>3. /\ calls' \in Seq(CallRecords) /\ DOMAIN calls' = DOMAIN calls \ {n}
      /\ \A i \in DOMAIN calls \ {n} : calls'[i] = calls[i]
  BY <1>1, CallsFacts
<1>4. /\ Live' = Live /\ Live \subseteq Addresses /\ Nothing \notin Live /\ TypeOK
  BY <1>1, RegistryAssumption DEF Live, IInv, CountsExact, TypeOK
<1>5. /\ Dropping' = Dropping
      /\ \A b \in Live : Owners(b)' = Owners(b)
      /\ \A i, j \in DOMAIN calls' : calls'[i].do = "drop" /\ calls'[j] = calls'[i] => i = j /\ calls'[i].node # Nothing
  BY <1>1, <1>2, <1>4, UnrefReturns DEF Pointers
<1>6. HashConsed' /\ Finite' /\ StringsHeld'
  BY <1>1, <1>4, <1>5, NodesFrame
<1>7. TypeOK'
  BY <1>1, <1>3, <1>4 DEF TypeOK, CallRecords
<1>8. CountsExact'
  BY <1>1, <1>4, <1>5, <1>7 DEF IInv, CountsExact
<1>9. NoDangling'
  BY <1>1, <1>3, <1>4, <1>5 DEF IInv, NoDangling, Readable
<1>10. AssignmentUnderWay' /\ DroppedOnce'
  BY <1>1, <1>4, <1>5 DEF IInv, AssignmentUnderWay, DroppedOnce
<1>11. ComingKept'
  <2>1. CallNodes' \subseteq CallNodes
    BY <1>3 DEF CallNodes
  <2>2. QED
    BY <1>1, <2>1, KeptOn
<1>12. QED
  BY <1>6, <1>8, <1>9, <1>10, <1>11 DEF IInv

LEMMA UnrefSharedKeeps ==
  ASSUME IInv, UnrefShared, NEW n, n = Len(calls), NEW a, a = Subject
  PROVE  IInv'
<1>1. /\ Running("unref") /\ calls' = Front(calls) /\ calls # <<>> /\ HasRef(a) /\ refs[a] > 1
      /\ refs' = [refs EXCEPT ![a] = @ - 1]
      /\ UNCHANGED <<node, atoms, pairs, strings, labels, held, made, coming>>
  BY DEF UnrefShared, Running, Shared
<1>2. a \in Live \ Dropping /\ a # Nothing /\ <<"call", n>> \in Owners(a)
  BY <1>1, SubjectOwned DEF HasRef
<1>3. /\ calls' \in Seq(CallRecords) /\ DOMAIN calls' = DOMAIN calls \ {n}
      /\ \A i \in DOMAIN calls \ {n} : calls'[i] = calls[i]
  BY <1>1, CallsFacts
<1>4. TypeOK /\ Live \subseteq Addresses /\ refs \in [Live -> Nat]
  BY DEF IInv, CountsExact, TypeOK
<1>5. /\ Live' = Live /\ refs' \in [Live -> Nat] /\ refs'[a] = refs[a] - 1
      /\ \A b \in Live \ {a} : refs'[b] = refs[b]
  BY <1>1, <1>2, <1>4 DEF Live
<1>6. /\ Dropping' = Dropping
      /\ \A b \in Live : Owners(b)' = IF b = a THEN Owners(b) \ {<<"call", n>>} ELSE Owners(b)
      /\ \A i, j \in DOMAIN calls' : calls'[i].do = "drop" /\ calls'[j] = calls'[i] => i = j /\ calls'[i].node # Nothing
  BY <1>1, <1>4, UnrefReturns DEF Pointers
<1>7. HashConsed' /\ Finite' /\ StringsHeld'
  BY <1>1, <1>5, <1>6, NodesFrame
<1>8. TypeOK'
  BY <1>1, <1>3, <1>4, <1>5 DEF TypeOK, CallRecords
<1>9. CountsExact'
  <2>1. refs[a] = Cardinality(Owners(a)) /\ IsFiniteSet(Owners(a))
    BY <1>2, <1>4, OwnersFinite DEF IInv, CountsExact
  <2>2. Cardinality(Owners(a) \ {<<"call", n>>}) = Cardinality(Owners(a)) - 1
    BY <1>2, <2>1, FS_RemoveElement
  <2>3. \A b \in Live \ Dropping : refs'[b] = Cardinality(Owners(b)')
    BY <1>2, <1>5, <1>6, <2>1, <2>2 DEF IInv, CountsExact
  <2>4. QED
    BY <1>5, <1>6, <1>8, <2>3 DEF CountsExact
<1>10. NoDangling'
  BY <1>1, <1>3, <1>5, <1>6 DEF IInv, NoDangling, Readable
<1>11. AssignmentUnderWay' /\ DroppedOnce'
  <2>1. \A b \in Dropping : b # a /\ b \in Live
    BY <1>2 DEF IInv, DroppedOnce
  <2>2. QED
    BY <1>1, <1>5, <1>6, <2>1 DEF IInv, AssignmentUnderWay, DroppedOnce
<1>12. ComingKept'
  <2>1. CallNodes' \subseteq CallNodes
    BY <1>3 DEF CallNodes
  <2>2. QED
    BY <1>1, <2>1, KeptOn
<1>13. QED
  BY <1>7, <1>9, <1>10, <1>11, <1>12 DEF IInv

(***************************************************************************)
(* A node is freed: what is common to an atom and to a pair.  Nothing      *)
(* leads to it but the call that frees it.                                 *)
(***************************************************************************)
LEMMA FreedFacts ==
  ASSUME IInv, calls # <<>>, calls' = Front(calls),
         NEW n, n = Len(calls), NEW a, a = Subject, a \in Live, Owners(a) \subseteq {<<"call", n>>},
         node' = [node EXCEPT ![a] = Free], refs' = Without(refs, a),
         UNCHANGED <<held, made, coming>>
  PROVE  /\ Live' = Live \ {a} /\ refs' \in [Live' -> Nat] /\ \A b \in Live' : refs'[b] = refs[b]
         /\ node' \in [Addresses -> Contents] /\ \A b \in Live' : node'[b] = node[b]
         /\ Live' = { b \in Addresses : node'[b] # Free } /\ Live' \subseteq Addresses
         /\ calls' \in Seq([do : {"unref", "drop"}, node : Pointers])
         /\ \A h \in Handles : Readable(held[h])'
         /\ Readable(made)' /\ Readable(coming.node)'
         /\ (\A k \in DOMAIN calls : Readable(calls[k].node))'
         /\ AssignmentUnderWay' /\ ComingKept'
<1>1. /\ TypeOK /\ refs \in [Live -> Nat] /\ Live \subseteq Addresses
      /\ node \in [Addresses -> Contents]
  BY DEF IInv, CountsExact, TypeOK
<1>2. Live' = Live \ {a} /\ refs' \in [Live' -> Nat] /\ \A b \in Live' : refs'[b] = refs[b]
  BY <1>1 DEF Without, Live
<1>3. /\ node'[a] = Free /\ node' \in [Addresses -> Contents]
      /\ \A b \in Addresses \ {a} : node'[b] = node[b]
  BY <1>1, FreeFacts
<1>4. /\ \A b \in Live' : node'[b] = node[b]
      /\ Live' = { b \in Addresses : node'[b] # Free } /\ Live' \subseteq Addresses
  BY <1>1, <1>2, <1>3 DEF IInv, NoDangling
<1>5. /\ calls' \in Seq(CallRecords) /\ DOMAIN calls' = DOMAIN calls \ {n}
      /\ \A i \in DOMAIN calls \ {n} : calls'[i] = calls[i]
      /\ n \in DOMAIN calls /\ calls[n].node = a
  BY CallsFacts
<1>6. ASSUME NEW k \in DOMAIN calls \ {n} PROVE calls[k].node # a
  <2>1. calls[k] # Unref(a)
    <3>1. <<"call", k>> # <<"call", n>>
      BY <1>6
    <3>2. QED
      BY <1>6, <3>1, Owning
  <2>2. calls[k] # Drop(a)
    <3>1. CASE calls[n] = Drop(a)
      <4>1. a \in Pointers /\ Drop(a).do = "drop"
        BY <1>1, CallFacts DEF Pointers
      <4>2. QED
        BY <1>5, <1>6, <3>1, <4>1 DEF IInv, DroppedOnce
    <3>2. CASE calls[n] = Unref(a)
      <4>1. <<"call", n>> \in Owners(a)
        BY <1>5, <3>2, Owning
      <4>2. QED
        BY <1>1, <1>6, <4>1 DEF IInv, DroppedOnce, Dropping, ToSet
    <3>3. QED
      BY <1>5, <3>1, <3>2, CallsFacts, CallFacts
  <2>3. QED
    BY <1>6, <2>1, <2>2, CallFacts, StepTypes DEF IInv, CountsExact
<1>7. (\A k \in DOMAIN calls : Readable(calls[k].node))'
  BY <1>2, <1>5, <1>6 DEF IInv, NoDangling, Readable
<1>8. \A h \in Handles : Readable(held[h])'
  <2>1. \A h \in Handles : held[h] # a
    BY Abandoned
  <2>2. QED
    BY <1>2, <2>1 DEF IInv, NoDangling, Readable
<1>9. Readable(made)' /\ Readable(coming.node)'
  <2>1. coming # Settled /\ made = Nothing
    BY DEF IInv, AssignmentUnderWay
  <2>2. coming.node # a
    BY <1>5, ComingElsewhere
  <2>3. QED
    BY <1>2, <2>1, <2>2 DEF IInv, NoDangling, Readable
<1>10. AssignmentUnderWay'
  BY DEF IInv, AssignmentUnderWay
<1>11. ComingKept'
  <2>1. CallNodes' \subseteq CallNodes
    BY <1>5 DEF CallNodes
  <2>2. QED
    BY <2>1, KeptWhenFreed
<1>12. QED
  BY <1>2, <1>3, <1>4, <1>5, <1>7, <1>8, <1>9, <1>10, <1>11 DEF CallRecords

LEMMA UnrefAtomKeeps ==
  ASSUME IInv, UnrefAtom, NEW n, n = Len(calls), NEW a, a = Subject
  PROVE  IInv'
<1>0. PICK w, key : w = node[a].str /\ key = <<node[a].str, node[a].ofs>>
  OBVIOUS
<1>1. /\ Running("unref") /\ calls' = Front(calls) /\ calls # <<>>
      /\ HasRef(a) /\ ~Shared(a) /\ node[a].type = "atom"
      /\ atoms' = Without(atoms, key) /\ unregstr(w)
      /\ node' = [node EXCEPT ![a] = Free] /\ refs' = Without(refs, a)
      /\ UNCHANGED <<pairs, labels, held, made, coming>>
  BY <1>0 DEF UnrefAtom, Running, AtomForgotten
<1>2. /\ a \in Live \ Dropping /\ a # Nothing
      /\ Owners(a) = {<<"call", n>>} /\ <<"call", n>> \in Owners(a)
  BY <1>1, SubjectOwned, SoleOwner DEF HasRef
<1>3. /\ Live' = Live \ {a} /\ refs' \in [Live' -> Nat] /\ \A b \in Live' : refs'[b] = refs[b]
      /\ node' \in [Addresses -> Contents] /\ \A b \in Live' : node'[b] = node[b]
      /\ Live' = { b \in Addresses : node'[b] # Free } /\ Live' \subseteq Addresses
      /\ calls' \in Seq([do : {"unref", "drop"}, node : Pointers])
      /\ \A h \in Handles : Readable(held[h])'
      /\ Readable(made)' /\ Readable(coming.node)'
      /\ (\A k \in DOMAIN calls : Readable(calls[k].node))'
      /\ AssignmentUnderWay' /\ ComingKept'
  BY <1>1, <1>2, FreedFacts
<1>4. /\ TypeOK /\ node[a] \in Contents /\ w \in Words /\ node[a] = Atom(w, node[a].ofs)
      /\ Live \subseteq Addresses
  BY <1>0, <1>1, <1>2, ContentsFacts DEF IInv, CountsExact, TypeOK
<1>5. /\ Dropping' = Dropping
      /\ \A b \in Live' : Owners(b)' = Owners(b)
      /\ \A i, j \in DOMAIN calls' : calls'[i].do = "drop" /\ calls'[j] = calls'[i] => i = j /\ calls'[i].node # Nothing
  BY <1>1, <1>3, UnrefReturns DEF Pointers
<1>6. key \in DOMAIN atoms /\ atoms[key] = a
  BY <1>0, <1>1, <1>2 DEF IInv, HashConsed
<1>7. /\ DOMAIN atoms' = DOMAIN atoms \ {key} /\ atoms' \in [DOMAIN atoms' -> Addresses]
      /\ \A k \in DOMAIN atoms' : atoms'[k] = atoms[k]
  <2>1. atoms \in [DOMAIN atoms -> Addresses] /\ atoms' = Without(atoms, key)
    BY <1>1, <1>4 DEF TypeOK
  <2>2. QED
    BY <2>1 DEF Without
<1>8. /\ Cardinality(AtomsOf(w)') = Cardinality(AtomsOf(w)) - 1
      /\ Cardinality(AtomsOf(w)) \in Nat /\ Cardinality(AtomsOf(w)) >= 1
      /\ \A v \in Words \ {w} : AtomsOf(v)' = AtomsOf(v)
  <2>1. AtomsOf(w)' = AtomsOf(w) \ {a} /\ a \in AtomsOf(w)
    BY <1>0, <1>1, <1>2, <1>3 DEF AtomsOf
  <2>2. IsFiniteSet(AtomsOf(w)) /\ Cardinality(AtomsOf(w)) \in Nat
    BY AtomsCounted
  <2>3. Cardinality(AtomsOf(w)) # 0
    BY <2>1, <2>2, FS_EmptySet
  <2>4. Cardinality(AtomsOf(w) \ {a}) = Cardinality(AtomsOf(w)) - 1
    BY <2>1, <2>2, FS_RemoveElement
  <2>5. \A v \in Words \ {w} : AtomsOf(v)' = AtomsOf(v)
    BY <1>0, <1>3 DEF AtomsOf
  <2>6. QED
    BY <2>1, <2>2, <2>3, <2>4, <2>5
<1>9. strings' \in [Words -> 0 .. MaxCount] /\ StringsHeld'
  <2>1. /\ strings \in [Words -> 0 .. MaxCount] /\ labels \in [Words -> 0 .. MaxCount]
        /\ MaxCount \in Nat
        /\ strings' = [strings EXCEPT ![w] = IF @ = 0 THEN 0 ELSE @ - 1]
    BY <1>1, <1>4, RegistryAssumption DEF TypeOK, unregstr
  <2>2. strings' \in [Words -> 0 .. MaxCount]
    BY <1>4, <2>1
  <2>3. strings'[w] >= labels[w] + Cardinality(AtomsOf(w)')
    <3>1. strings[w] >= labels[w] + Cardinality(AtomsOf(w)) /\ labels[w] \in Nat /\ strings[w] \in Nat
      BY <1>4, <2>1 DEF IInv, StringsHeld
    <3>2. strings'[w] = IF strings[w] = 0 THEN 0 ELSE strings[w] - 1
      BY <1>4, <2>1
    <3>3. QED
      BY <1>8, <3>1, <3>2
  <2>4. \A v \in Words \ {w} : strings'[v] >= labels[v] + Cardinality(AtomsOf(v)')
    BY <1>8, <2>1 DEF IInv, StringsHeld
  <2>5. QED
    BY <1>1, <2>2, <2>3, <2>4 DEF StringsHeld
<1>10. TypeOK'
  BY <1>1, <1>3, <1>4, <1>7, <1>9 DEF TypeOK
<1>11. CountsExact'
  BY <1>3, <1>5, <1>10 DEF IInv, CountsExact
<1>12. HashConsed'
  <2>1. ASSUME NEW b \in Live' \ Dropping'
        PROVE  IF node'[b].type = "atom"
                 THEN <<node'[b].str, node'[b].ofs>> \in DOMAIN atoms'
                      /\ atoms'[<<node'[b].str, node'[b].ofs>>] = b
                 ELSE <<node'[b].car, node'[b].cdr>> \in DOMAIN pairs'
                      /\ pairs'[<<node'[b].car, node'[b].cdr>>] = b
    <3>1. b \in Live \ Dropping /\ b # a /\ node'[b] = node[b]
      BY <1>3, <1>5
    <3>2. QED
      BY <1>0, <1>1, <1>6, <1>7, <3>1 DEF IInv, HashConsed
  <2>2. \A k \in DOMAIN atoms' : atoms'[k] \in Live' /\ node'[atoms'[k]] = Atom(k[1], k[2])
    <3>1. ASSUME NEW k \in DOMAIN atoms, atoms[k] = a PROVE k = key
      <4>1. PICK u \in Words, o \in Offsets : k = <<u, o>>
        BY <1>4 DEF TypeOK
      <4>2. node[a] = Atom(u, o)
        BY <3>1, <4>1 DEF IInv, HashConsed
      <4>3. QED
        BY <1>0, <4>1, <4>2, AtomFacts
    <3>2. QED
      BY <1>3, <1>7, <3>1 DEF IInv, HashConsed
  <2>3. \A k \in DOMAIN pairs' : pairs'[k] \in Live' /\ node'[pairs'[k]] = Pair(k[1], k[2])
    <3>1. \A k \in DOMAIN pairs : pairs[k] # a
      <4>1. \A x \in Pointers, y \in Pointers : Pair(x, y).type # "atom"
        BY PairFacts
      <4>2. \A k \in DOMAIN pairs : k[1] \in Pointers /\ k[2] \in Pointers
        BY <1>4 DEF TypeOK
      <4>3. QED
        BY <1>1, <4>1, <4>2 DEF IInv, HashConsed
    <3>2. QED
      BY <1>1, <1>3, <3>1 DEF IInv, HashConsed
  <2>4. QED
    BY <2>1, <2>2, <2>3 DEF HashConsed
<1>13. NoDangling'
  <2>0. \A b \in Live \ Dropping : node[b].type = "pair" =>
          {node[b].car, node[b].cdr} \subseteq (Live \ {a}) \cup {Nothing}
    BY <1>2, Abandoned
  <2>1. \A b \in Live' \ Dropping' : node'[b].type = "pair" =>
           {node'[b].car, node'[b].cdr} \subseteq Live' \cup {Nothing}
    BY <1>2, <1>3, <1>5, <2>0
  <2>2. QED
    BY <1>3, <2>1 DEF NoDangling, Readable
<1>14. DroppedOnce'
  <2>1. \A b \in Dropping : b # a /\ b \in Live'
    BY <1>2, <1>3 DEF IInv, DroppedOnce
  <2>2. QED
    BY <1>1, <1>3, <1>5, <2>1 DEF IInv, DroppedOnce
<1>15. Finite'
  BY <1>1, <1>3, FS_Subset DEF IInv, Finite
<1>16. QED
  BY <1>3, <1>9, <1>11, <1>12, <1>13, <1>14, <1>15 DEF IInv

LEMMA DropPairKeeps ==
  ASSUME IInv, DropPair, NEW n, n = Len(calls), NEW a, a = Subject
  PROVE  IInv'
<1>1. /\ Running("drop") /\ calls' = Front(calls) /\ calls # <<>>
      /\ node' = [node EXCEPT ![a] = Free] /\ refs' = Without(refs, a)
      /\ UNCHANGED <<atoms, pairs, strings, labels, held, made, coming>>
  BY DEF DropPair, Running
<1>2. /\ calls[n] = Drop(a) /\ n \in DOMAIN calls /\ a \in Pointers
      /\ DOMAIN calls' = DOMAIN calls \ {n} /\ \A i \in DOMAIN calls \ {n} : calls'[i] = calls[i]
  BY <1>1, CallsFacts
<1>3. /\ a \in Dropping /\ a \in Live /\ node[a].type = "pair" /\ Owners(a) = {}
      /\ \A k \in DOMAIN pairs : pairs[k] # a
  <2>1. a # Nothing
    BY <1>2, CallFacts DEF IInv, DroppedOnce
  <2>2. a \in Dropping
    BY <1>2, <2>1 DEF Dropping, ToSet, Pointers
  <2>3. QED
    BY <2>2 DEF IInv, DroppedOnce
<1>4. /\ Live' = Live \ {a} /\ refs' \in [Live' -> Nat] /\ \A b \in Live' : refs'[b] = refs[b]
      /\ node' \in [Addresses -> Contents] /\ \A b \in Live' : node'[b] = node[b]
      /\ Live' = { b \in Addresses : node'[b] # Free } /\ Live' \subseteq Addresses
      /\ calls' \in Seq([do : {"unref", "drop"}, node : Pointers])
      /\ \A h \in Handles : Readable(held[h])'
      /\ Readable(made)' /\ Readable(coming.node)'
      /\ (\A k \in DOMAIN calls : Readable(calls[k].node))'
      /\ AssignmentUnderWay' /\ ComingKept'
  BY <1>1, <1>3, FreedFacts
<1>5. TypeOK
  BY DEF IInv, CountsExact
<1>6. \A b \in Pointers : Unref(b) # Drop(a) /\ (b # a => Drop(b) # Drop(a))
  BY <1>2, CallFacts
<1>7. Dropping' = Dropping \ {a} /\ Dropping \subseteq Live
  <2>1. Drop(a).do = "drop"
    BY <1>2, CallFacts
  <2>2. \A k \in DOMAIN calls \ {n} : calls[k] # Drop(a)
    BY <1>2, <2>1 DEF IInv, DroppedOnce
  <2>3. Dropping' = Dropping \ {a}
    BY <1>2, <1>6, <2>2 DEF Dropping, ToSet, Pointers
  <2>4. QED
    BY <2>3 DEF IInv, DroppedOnce
<1>8. \A b \in Live : Owners(b)' = Owners(b)
  <2>1. ASSUME NEW b \in Live
        PROVE  { k \in DOMAIN calls' : calls'[k] = Unref(b) } = { k \in DOMAIN calls : calls[k] = Unref(b) }
    BY <1>2, <1>5, <1>6 DEF TypeOK, Pointers
  <2>2. QED
    BY <1>1, <2>1 DEF Owners
<1>9. TypeOK'
  BY <1>1, <1>4, <1>5 DEF TypeOK
<1>10. CountsExact'
  BY <1>4, <1>7, <1>8, <1>9 DEF IInv, CountsExact
<1>11. HashConsed'
  <2>1. ASSUME NEW b \in Live' \ Dropping'
        PROVE  IF node'[b].type = "atom"
                 THEN <<node'[b].str, node'[b].ofs>> \in DOMAIN atoms'
                      /\ atoms'[<<node'[b].str, node'[b].ofs>>] = b
                 ELSE <<node'[b].car, node'[b].cdr>> \in DOMAIN pairs'
                      /\ pairs'[<<node'[b].car, node'[b].cdr>>] = b
    <3>1. b \in Live \ Dropping /\ node'[b] = node[b]
      BY <1>4, <1>7
    <3>2. QED
      BY <1>1, <3>1 DEF IInv, HashConsed
  <2>2. \A k \in DOMAIN atoms' : atoms'[k] \in Live' /\ node'[atoms'[k]] = Atom(k[1], k[2])
    <3>1. \A u \in Words, o \in Offsets : Atom(u, o).type # "pair"
      BY AtomFacts
    <3>2. \A k \in DOMAIN atoms : k[1] \in Words /\ k[2] \in Offsets
      BY <1>5 DEF TypeOK
    <3>3. \A k \in DOMAIN atoms : atoms[k] # a
      BY <1>3, <3>1, <3>2 DEF IInv, HashConsed
    <3>4. QED
      BY <1>1, <1>4, <3>3 DEF IInv, HashConsed
  <2>3. \A k \in DOMAIN pairs' : pairs'[k] \in Live' /\ node'[pairs'[k]] = Pair(k[1], k[2])
    BY <1>1, <1>3, <1>4 DEF IInv, HashConsed
  <2>4. QED
    BY <2>1, <2>2, <2>3 DEF HashConsed
<1>12. NoDangling'
  <2>0. \A b \in Live \ Dropping : node[b].type = "pair" =>
          {node[b].car, node[b].cdr} \subseteq (Live \ {a}) \cup {Nothing}
    BY <1>3, Abandoned
  <2>1. \A b \in Live' \ Dropping' : node'[b].type = "pair" =>
           {node'[b].car, node'[b].cdr} \subseteq Live' \cup {Nothing}
    BY <1>3, <1>4, <1>7, <2>0
  <2>2. QED
    BY <1>4, <2>1 DEF NoDangling, Readable
<1>13. DroppedOnce'
  <2>1. \A b \in Dropping' : b \in Dropping /\ b \in Live'
    BY <1>4, <1>7
  <2>2. QED
    BY <1>1, <1>2, <1>4, <1>7, <1>8, <2>1 DEF IInv, DroppedOnce
<1>14. Finite' /\ StringsHeld'
  <2>1. \A w \in Words : AtomsOf(w)' = AtomsOf(w)
    BY <1>3, <1>4 DEF AtomsOf
  <2>2. QED
    BY <1>1, <1>4, <2>1, FS_Subset DEF IInv, Finite, StringsHeld
<1>15. QED
  BY <1>4, <1>10, <1>11, <1>12, <1>13, <1>14 DEF IInv

\* One owner instead of another.
Replaced(S, o, p) == (S \ {o}) \cup {p}

LEMMA UnrefPairKeeps ==
  ASSUME IInv, UnrefPair, NEW n, n = Len(calls), NEW a, a = Subject
  PROVE  IInv'
<1>0. PICK x, y, key : x = node[a].car /\ y = node[a].cdr /\ key = <<x, y>>
  OBVIOUS
<1>1. /\ Running("unref") /\ calls # <<>> /\ HasRef(a) /\ ~Shared(a) /\ node[a].type = "pair"
      /\ pairs' = Without(pairs, key)
      /\ calls' = Front(calls) \o << Drop(a), Unref(y), Unref(x) >>
      /\ UNCHANGED <<node, atoms, refs, strings, labels, held, made, coming>>
  BY <1>0 DEF UnrefPair, Running
<1>2. a \in Live \ Dropping /\ a # Nothing /\ a \in Pointers /\ Owners(a) = {<<"call", n>>}
  BY <1>1, SubjectOwned, SoleOwner DEF HasRef
<1>3. /\ TypeOK /\ Live' = Live /\ Live \subseteq Addresses
  BY <1>1 DEF IInv, CountsExact, TypeOK, Live
<1>4. /\ x \in Pointers /\ y \in Pointers /\ node[a] = Pair(x, y) /\ x # a /\ y # a
      /\ Readable(x) /\ Readable(y)
  <2>1. x \in Pointers /\ y \in Pointers /\ node[a] = Pair(x, y)
    BY <1>0, <1>1, <1>2, <1>3, ContentsFacts, StepTypes
  <2>2. x # a /\ y # a
    BY <1>0, <1>1, <1>2, Abandoned
  <2>3. QED
    BY <1>0, <1>1, <1>2, <2>1, <2>2 DEF IInv, NoDangling
<1>5. /\ n \in Nat /\ n >= 1 /\ DOMAIN calls = 1 .. n /\ calls[n] = Unref(a)
      /\ Front(calls) \in Seq(CallRecords) /\ Len(Front(calls)) = n - 1
      /\ \A i \in (1 .. n) \ {n} : Front(calls)[i] = calls[i]
  BY <1>1, CallsFacts
<1>6. /\ calls' \in Seq(CallRecords) /\ DOMAIN calls' = 1 .. n + 2
      /\ calls'[n] = Drop(a) /\ calls'[n + 1] = Unref(y) /\ calls'[n + 2] = Unref(x)
      /\ \A i \in (1 .. n) \ {n} : calls'[i] = calls[i]
  <2> DEFINE more == << Drop(a), Unref(y), Unref(x) >>
  <2>1. /\ more \in Seq(CallRecords) /\ Len(more) = 3
        /\ more[1] = Drop(a) /\ more[2] = Unref(y) /\ more[3] = Unref(x)
    BY <1>2, <1>4, CallFacts
  <2> HIDE DEF more
  <2>2. calls' = Front(calls) \o more
    BY <1>1 DEF more
  <2>3. /\ calls' \in Seq(CallRecords) /\ Len(calls') = n - 1 + 3
        /\ \A i \in 1 .. n - 1 + 3 :
             calls'[i] = IF i <= n - 1 THEN Front(calls)[i] ELSE more[i - (n - 1)]
    <3>1. PICK outer \in Seq(CallRecords) : outer = Front(calls)
      BY <1>5
    <3>2. /\ outer \o more \in Seq(CallRecords) /\ Len(outer \o more) = Len(outer) + Len(more)
          /\ \A i \in 1 .. Len(outer) + Len(more) :
               (outer \o more)[i] = IF i <= Len(outer) THEN outer[i] ELSE more[i - Len(outer)]
      BY <2>1, ConcatProperties
    <3>3. Len(outer) = n - 1 /\ Len(more) = 3
      BY <1>5, <2>1, <3>1
    <3>4. QED
      BY <2>2, <3>1, <3>2, <3>3
  <2>4. DOMAIN calls' = 1 .. n + 2
    BY <1>5, <2>3, LenProperties
  <2>5. calls'[n] = Drop(a) /\ calls'[n + 1] = Unref(y) /\ calls'[n + 2] = Unref(x)
    <3>1. /\ calls'[n] = more[n - (n - 1)] /\ calls'[n + 1] = more[n + 1 - (n - 1)]
          /\ calls'[n + 2] = more[n + 2 - (n - 1)]
      BY <1>5, <2>3
    <3>2. n - (n - 1) = 1 /\ n + 1 - (n - 1) = 2 /\ n + 2 - (n - 1) = 3
      BY <1>5
    <3>3. QED
      BY <2>1, <3>1, <3>2
  <2>6. QED
    BY <1>5, <2>3, <2>4, <2>5
<1>7. /\ key \in DOMAIN pairs /\ pairs[key] = a
      /\ DOMAIN pairs' = DOMAIN pairs \ {key} /\ pairs' \in [DOMAIN pairs' -> Addresses]
      /\ \A k \in DOMAIN pairs' : pairs'[k] = pairs[k] /\ pairs[k] # a
  <2>1. key \in DOMAIN pairs /\ pairs[key] = a
    BY <1>0, <1>1, <1>2 DEF IInv, HashConsed
  <2>2. pairs \in [DOMAIN pairs -> Addresses] /\ pairs' = Without(pairs, key)
    BY <1>1, <1>3 DEF TypeOK
  <2>3. /\ DOMAIN pairs' = DOMAIN pairs \ {key} /\ pairs' \in [DOMAIN pairs' -> Addresses]
        /\ \A k \in DOMAIN pairs' : pairs'[k] = pairs[k]
    BY <2>2 DEF Without
  <2>4. ASSUME NEW k \in DOMAIN pairs, pairs[k] = a PROVE k = key
    <3>1. PICK u \in Pointers, v \in Pointers : k = <<u, v>>
      BY <1>3 DEF TypeOK
    <3>2. node[a] = Pair(u, v)
      BY <2>4, <3>1 DEF IInv, HashConsed
    <3>3. QED
      BY <1>0, <3>1, <3>2, PairFacts
  <2>5. QED
    BY <2>1, <2>3, <2>4
<1>8. /\ \A b \in Pointers : Unref(b) # Drop(a) /\ (b # a => Unref(b) # Unref(a) /\ Drop(b) # Drop(a))
      /\ \A b, c \in Pointers : Unref(b) = Unref(c) => b = c
      /\ \A b \in Pointers : Unref(b).do = "unref" /\ Drop(b).do = "drop"
      /\ \A b \in Pointers : Drop(b) # Unref(x) /\ Drop(b) # Unref(y) /\ Drop(b) # Unref(a)
  BY <1>2, <1>4, CallFacts
<1>9. Dropping' = Dropping \cup {a}
  BY <1>2, <1>3, <1>5, <1>6, <1>8 DEF Dropping, ToSet, Pointers
<1> DEFINE First(b)  == IF b = x THEN Replaced(Owners(b), <<"car", key>>, <<"call", n + 2>>) ELSE Owners(b)
           Second(b) == IF b = y THEN Replaced(First(b), <<"cdr", key>>, <<"call", n + 1>>) ELSE First(b)
<1>10. ASSUME NEW b \in Live
       PROVE  Owners(b)' = IF b = a THEN {} ELSE Second(b)
  <2>1. { k \in DOMAIN pairs' : k[1] = b }
        = { k \in DOMAIN pairs : k[1] = b } \ (IF b = x THEN {key} ELSE {})
    BY <1>0, <1>7
  <2>2. { k \in DOMAIN pairs' : k[2] = b }
        = { k \in DOMAIN pairs : k[2] = b } \ (IF b = y THEN {key} ELSE {})
    BY <1>0, <1>7
  <2>3. { k \in DOMAIN calls' : calls'[k] = Unref(b) }
        = ({ k \in DOMAIN calls : calls[k] = Unref(b) } \ {n})
          \cup (IF b = x THEN {n + 2} ELSE {}) \cup (IF b = y THEN {n + 1} ELSE {})
    <3>1. b \in Pointers
      BY <1>3 DEF Pointers
    <3>2. DOMAIN calls' = ((1 .. n) \ {n}) \cup {n, n + 1, n + 2}
      BY <1>5, <1>6
    <3>3. QED
      BY <1>4, <1>5, <1>6, <1>8, <3>1, <3>2
  <2>4. CASE b = a
    <3>1. /\ { k \in DOMAIN pairs' : k[1] = b } = {} /\ { k \in DOMAIN pairs' : k[2] = b } = {}
          /\ { k \in Handles : held[k] = b } = {}
      <4>1. /\ \A k \in Handles : held[k] # a
            /\ \A k \in DOMAIN pairs : k[1] # a /\ k[2] # a
        BY <1>2, Abandoned
      <4>2. QED
        BY <1>7, <2>4, <4>1
    <3>2. { k \in DOMAIN calls' : calls'[k] = Unref(b) } = {}
      <4>1. \A k \in DOMAIN calls \ {n} : calls[k] # Unref(a)
        BY <1>2, Owning
      <4>2. QED
        BY <1>4, <1>5, <2>3, <2>4, <4>1
    <3>3. QED
      BY <1>1, <2>4, <3>1, <3>2 DEF Owners
  <2>5. CASE b # a
    <3>1. { k \in DOMAIN calls : calls[k] = Unref(b) } \ {n} = { k \in DOMAIN calls : calls[k] = Unref(b) }
      BY <1>3, <1>5, <1>8, <2>5 DEF Pointers
    <3> DEFINE C == {<<"call", k>> : k \in { k \in DOMAIN calls' : calls'[k] = Unref(b) }}
               A == {<<"car", k>> : k \in { k \in DOMAIN pairs' : k[1] = b }}
               D == {<<"cdr", k>> : k \in { k \in DOMAIN pairs' : k[2] = b }}
               H == {<<"handle", k>> : k \in { k \in Handles : held[k] = b }}
               c == {<<"call", k>> : k \in { k \in DOMAIN calls : calls[k] = Unref(b) }}
               p == {<<"car", k>> : k \in { k \in DOMAIN pairs : k[1] = b }}
               d == {<<"cdr", k>> : k \in { k \in DOMAIN pairs : k[2] = b }}
    <3>2. /\ C = c \cup (IF b = x THEN {<<"call", n + 2>>} ELSE {}) \cup (IF b = y THEN {<<"call", n + 1>>} ELSE {})
          /\ A = p \ (IF b = x THEN {<<"car", key>>} ELSE {})
          /\ D = d \ (IF b = y THEN {<<"cdr", key>>} ELSE {})
      BY <2>1, <2>2, <2>3, <3>1
    <3>3. Owners(b)' = H \cup A \cup D \cup C /\ Owners(b) = H \cup p \cup d \cup c
      BY <1>1 DEF Owners
    <3>4. /\ <<"car", key>> \notin H \cup d \cup c /\ <<"cdr", key>> \notin H \cup p \cup c
          /\ <<"cdr", key>> # <<"call", n + 2>>
      OBVIOUS
    <3> HIDE DEF C, A, D, H, c, p, d
    <3>5. QED
      BY <2>5, <3>2, <3>3, <3>4 DEF Replaced
  <2>6. QED
    BY <2>4, <2>5
<1> HIDE DEF First, Second
<1>11. TypeOK'
  BY <1>1, <1>3, <1>6, <1>7 DEF TypeOK, CallRecords
<1>12. CountsExact'
  <2>1. ASSUME NEW b \in Live \ Dropping, b # a
        PROVE  refs[b] = Cardinality(Owners(b)')
    <3>1. refs[b] = Cardinality(Owners(b)) /\ IsFiniteSet(Owners(b))
      BY <1>3, <2>1, OwnersFinite DEF IInv, CountsExact
    <3>2. /\ b = x => <<"car", key>> \in Owners(b)
          /\ b = y => <<"cdr", key>> \in Owners(b)
      BY <1>0, <1>7, Owning
    <3>3. <<"call", n + 1>> \notin Owners(b) /\ <<"call", n + 2>> \notin Owners(b)
      <4>1. n + 1 \notin DOMAIN calls /\ n + 2 \notin DOMAIN calls
        BY <1>5
      <4>2. QED
        BY <4>1 DEF Owners
    <3>4. /\ Cardinality(First(b)) = Cardinality(Owners(b)) /\ IsFiniteSet(First(b))
          /\ b = y => <<"cdr", key>> \in First(b)
          /\ <<"call", n + 1>> \notin First(b)
      <4>1. CASE b = x
        <5>1. First(b) = (Owners(b) \ {<<"car", key>>}) \cup {<<"call", n + 2>>}
          BY <4>1 DEF First, Replaced
        <5>2. Cardinality(First(b)) = Cardinality(Owners(b))
          BY <3>1, <3>2, <3>3, <4>1, <5>1, Swap
        <5>3. IsFiniteSet(First(b))
          BY <3>1, <3>2, <3>3, <4>1, <5>1, Swap
        <5>4. <<"cdr", key>> # <<"car", key>> /\ <<"call", n + 1>> # <<"call", n + 2>>
          BY <1>5
        <5>5. QED
          BY <3>2, <3>3, <5>1, <5>2, <5>3, <5>4
      <4>2. CASE b # x
        BY <3>1, <3>2, <3>3, <4>2 DEF First
      <4>3. QED
        BY <4>1, <4>2
    <3>5. Cardinality(Second(b)) = Cardinality(First(b))
      <4>1. CASE b = y
        <5>1. Second(b) = (First(b) \ {<<"cdr", key>>}) \cup {<<"call", n + 1>>}
          BY <4>1 DEF Second, Replaced
        <5>2. QED
          BY <3>4, <4>1, <5>1, Swap
      <4>2. CASE b # y
        BY <4>2 DEF Second
      <4>3. QED
        BY <4>1, <4>2
    <3>6. QED
      BY <1>10, <2>1, <3>1, <3>4, <3>5
  <2>2. QED
    BY <1>1, <1>3, <1>9, <1>11, <2>1 DEF CountsExact
<1>13. HashConsed'
  <2>1. ASSUME NEW b \in Live' \ Dropping'
        PROVE  IF node'[b].type = "atom"
                 THEN <<node'[b].str, node'[b].ofs>> \in DOMAIN atoms'
                      /\ atoms'[<<node'[b].str, node'[b].ofs>>] = b
                 ELSE <<node'[b].car, node'[b].cdr>> \in DOMAIN pairs'
                      /\ pairs'[<<node'[b].car, node'[b].cdr>>] = b
    <3>1. b \in Live \ Dropping /\ b # a /\ node'[b] = node[b]
      BY <1>1, <1>3, <1>9
    <3>2. QED
      BY <1>1, <1>7, <3>1 DEF IInv, HashConsed
  <2>2. \A k \in DOMAIN atoms' : atoms'[k] \in Live' /\ node'[atoms'[k]] = Atom(k[1], k[2])
    BY <1>1, <1>3 DEF IInv, HashConsed
  <2>3. \A k \in DOMAIN pairs' : pairs'[k] \in Live' /\ node'[pairs'[k]] = Pair(k[1], k[2])
    BY <1>1, <1>3, <1>7 DEF IInv, HashConsed
  <2>4. QED
    BY <2>1, <2>2, <2>3 DEF HashConsed
<1>14. \A k \in DOMAIN calls' :
          \/ k \in (1 .. n) \ {n} /\ calls'[k] = calls[k]
          \/ k = n /\ calls'[k] = Drop(a)
          \/ k = n + 1 /\ calls'[k] = Unref(y)
          \/ k = n + 2 /\ calls'[k] = Unref(x)
  BY <1>5, <1>6
<1>15. Drop(a).node = a /\ Unref(x).node = x /\ Unref(y).node = y
  BY DEF Drop, Unref
<1>16. NoDangling'
  <2>1. \A k \in DOMAIN calls' : calls'[k].node \in Live \cup {Nothing}
    BY <1>2, <1>4, <1>5, <1>14, <1>15 DEF IInv, NoDangling, Readable
  <2>2. QED
    BY <1>1, <1>3, <1>9, <2>1 DEF IInv, NoDangling, Readable
<1>17. AssignmentUnderWay' /\ DroppedOnce'
  <2>1. AssignmentUnderWay'
    BY <1>1 DEF IInv, AssignmentUnderWay
  <2>2. ASSUME NEW b \in Dropping'
        PROVE  b \in Live /\ node[b].type = "pair" /\ Owners(b)' = {} /\ \A k \in DOMAIN pairs' : pairs'[k] # b
    <3>1. CASE b = a
      BY <1>1, <1>2, <1>7, <1>10, <3>1
    <3>2. CASE b # a
      <4>1. b \in Dropping
        BY <1>9, <3>2
      <4>2. /\ b \in Live /\ node[b].type = "pair" /\ Owners(b) = {}
            /\ \A k \in DOMAIN pairs : pairs[k] # b
        BY <4>1 DEF IInv, DroppedOnce
      <4>3. b # x /\ b # y
        BY <1>0, <1>7, <4>2, Owning
      <4>4. Second(b) = {}
        BY <4>2, <4>3 DEF First, Second
      <4>5. QED
        BY <1>7, <1>10, <3>2, <4>2, <4>4
    <3>3. QED
      BY <3>1, <3>2
  <2>3. ASSUME NEW i \in DOMAIN calls', NEW j \in DOMAIN calls',
               calls'[i].do = "drop", calls'[j] = calls'[i]
        PROVE  i = j /\ calls'[i].node # Nothing
    <3>1. i \in 1 .. n /\ (i # n => calls'[i] = calls[i]) /\ (i = n => calls'[i] = Drop(a))
      BY <1>4, <1>5, <1>8, <1>14, <2>3
    <3>2. j \in 1 .. n /\ (j # n => calls'[j] = calls[j]) /\ (j = n => calls'[j] = Drop(a))
      BY <1>4, <1>5, <1>8, <1>14, <2>3
    <3>3. \A k \in DOMAIN calls : calls[k] # Drop(a)
      BY <1>2, <1>3 DEF Dropping, ToSet
    <3>4. QED
      BY <1>2, <1>5, <1>15, <2>3, <3>1, <3>2, <3>3 DEF IInv, DroppedOnce
  <2>4. QED
    BY <1>1, <1>3, <2>1, <2>2, <2>3 DEF DroppedOnce
<1>18. ComingKept'
  <2>1. a \in CallNodes
    BY <1>5, CallFacts, <1>2 DEF CallNodes
  <2>2. x \in Parts(CallNodes) /\ y \in Parts(CallNodes)
    BY <1>0, <1>1, <1>2, <2>1 DEF Parts
  <2>3. CallNodes' \subseteq CallNodes \cup Parts(CallNodes)
    BY <1>5, <1>14, <1>15, <2>1, <2>2 DEF CallNodes
  <2>4. QED
    BY <1>1, <2>3, KeptOn
<1>19. Finite' /\ StringsHeld'
  <2>1. \A w \in Words : AtomsOf(w)' = AtomsOf(w)
    BY <1>1, <1>3 DEF AtomsOf
  <2>2. QED
    BY <1>1, <1>3, <1>7, <2>1, FS_Subset DEF IInv, Finite, StringsHeld
<1>20. QED
  BY <1>12, <1>13, <1>16, <1>17, <1>18, <1>19 DEF IInv

-----------------------------------------------------------------------------
LEMMA NextKeeps == IInv /\ [Next]_vars => IInv'
<1> SUFFICES ASSUME IInv, [Next]_vars PROVE IInv'
  OBVIOUS
<1> PICK n, a : n = Len(calls) /\ a = Subject
  OBVIOUS
<1>1. CASE \E w \in Words : Label(w) \/ Unlabel(w)
  BY <1>1, LabelKeeps
<1>2. CASE \E w \in Words, o \in Offsets : NewAtom(w, o)
  BY <1>2, NewAtomKeeps
<1>3. CASE \E car, cdr \in Known : NewPair(car, cdr)
  BY <1>3, NewPairKeeps
<1>4. CASE \E h \in Handles, x \in Known \cup Parts(Known) : Assign(h, x)
  BY <1>4, AssignKeeps
<1>5. CASE Assigned
  BY <1>5, AssignedKeeps
<1>6. CASE UnrefNothing
  BY <1>6, UnrefNothingKeeps
<1>7. CASE UnrefShared
  BY <1>7, UnrefSharedKeeps
<1>8. CASE UnrefAtom
  BY <1>8, UnrefAtomKeeps
<1>9. CASE UnrefPair
  BY <1>9, UnrefPairKeeps
<1>10. CASE DropPair
  BY <1>10, DropPairKeeps
<1>11. CASE UNCHANGED vars
  <2>1. /\ TypeOK' = TypeOK /\ CountsExact' = CountsExact /\ HashConsed' = HashConsed
        /\ NoDangling' = NoDangling /\ StringsHeld' = StringsHeld
    BY <1>11 DEF vars, TypeOK, CountsExact, HashConsed, NoDangling, StringsHeld, Owners, Dropping,
                 Readable, AtomsOf, Live
  <2>2. AssignmentUnderWay' = AssignmentUnderWay /\ DroppedOnce' = DroppedOnce /\ Finite' = Finite
    BY <1>11 DEF vars, AssignmentUnderWay, DroppedOnce, Finite, Owners, Dropping, Live
  <2>3. ComingKept'
    <3>1. CallNodes' \subseteq CallNodes
      BY <1>11 DEF vars, CallNodes
    <3>2. QED
      BY <1>11, <3>1, KeptOn DEF vars
  <2>4. QED
    BY <2>1, <2>2, <2>3 DEF IInv
<1>12. QED
  BY <1>1, <1>2, <1>3, <1>4, <1>5, <1>6, <1>7, <1>8, <1>9, <1>10, <1>11 DEF Next

(***************************************************************************)
(* The invariant holds in every reachable state: all theorems below are    *)
(* parts of it.                                                            *)
(***************************************************************************)
THEOREM Invariant == Spec => []IInv
BY InitIInv, NextKeeps, PTL DEF Spec

(***************************************************************************)
(* The registers, the counts and the calls of unref are what ast.cc        *)
(* declares them to be, however many nodes there are.                      *)
(***************************************************************************)
THEOREM TypeCorrect == Spec => []TypeOK
<1>1. IInv => TypeOK
  BY DEF IInv, CountsExact
<1>2. QED
  BY <1>1, Invariant, PTL

(***************************************************************************)
(* refs of a node is the number of its owners, while unref recurses and    *)
(* while operator= has let go of one node and not yet taken the other.     *)
(***************************************************************************)
THEOREM CountsAreExact == Spec => []CountsExact
<1>1. IInv => CountsExact
  BY DEF IInv
<1>2. QED
  BY <1>1, Invariant, PTL

(***************************************************************************)
(* newAtom and newPair never make a second node for contents that one has, *)
(* and never find one that was freed.                                      *)
(***************************************************************************)
THEOREM EqualTreesAreOneNode == Spec => []HashConsed
<1>1. IInv => HashConsed
  BY DEF IInv
<1>2. QED
  BY <1>1, Invariant, PTL

(***************************************************************************)
(* No handle, no part of a registered pair, no call of unref and no node   *)
(* that is being assigned is ever a freed one.                             *)
(***************************************************************************)
THEOREM NothingDangles == Spec => []NoDangling
<1>1. IInv => NoDangling
  BY DEF IInv
<1>2. QED
  BY <1>1, Invariant, PTL

(***************************************************************************)
(* The string of an atom or of a label is never unregistered before it.    *)
(***************************************************************************)
THEOREM StringsAreHeld == Spec => []StringsHeld
<1>1. IInv => StringsHeld
  BY DEF IInv
<1>2. QED
  BY <1>1, Invariant, PTL
=============================================================================
