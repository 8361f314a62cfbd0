----------------------------- MODULE AstRegistry -----------------------------
(***************************************************************************)
(* The registry of AST nodes (ast.cc, ast.h) with the registry of strings  *)
(* under it (string_registry.cc).  Nodes are hash-consed, found by their   *)
(* contents, and counted: by the handles (struct Ast, and the ref and      *)
(* unref that other owners write out) and by the pairs that point to them. *)
(* An address is reused once its node is freed.                            *)
(*                                                                         *)
(* unref recurses into the two parts of a pair; calls is its stack, the    *)
(* innermost call last.  A handle is assigned by Ast::operator=, which     *)
(* unrefs the old node before it refs the new one.                         *)
(*                                                                         *)
(* NULL and PRODUCTION_OK_BUT_EMPTY, neither of which is counted, are      *)
(* Nothing.                                                                *)
(***************************************************************************)
EXTENDS Naturals, Sequences, FiniteSets, SequencesExt

CONSTANTS Addresses,    \* what the allocator can give out
          Nothing,      \* a null pointer
          Words, Offsets,
          Handles,
          MaxCount      \* bound on the count of a string

ASSUME RegistryAssumption ==
  /\ Nothing \notin Addresses
  /\ MaxCount \in Nat
  /\ IsFiniteSet(Handles) /\ "none" \notin Handles

VARIABLES node,         \* address -> what is written there
          atoms,        \* m_atoms: <<word, offset>> -> address
          pairs,        \* m_pairs: <<car, cdr>> -> address
          refs,         \* m_refs: address -> count
          strings,      \* str_registry: word -> count, 0 if it is not there
          labels,       \* how often a word is the label of a walkable AST
          held,         \* handle -> n, the node it holds
          made,         \* the node newAtom or newPair returned last
          calls,        \* the calls of unref, and what is left to do in them
          coming        \* operator= under way: the handle and the node it gets

vars == <<node, atoms, pairs, refs, strings, labels, held, made, calls, coming>>

Free        == [type |-> "free"]
Atom(w, o)  == [type |-> "atom", str |-> w, ofs |-> o]
Pair(a, d)  == [type |-> "pair", car |-> a, cdr |-> d]

Pointers == Addresses \cup {Nothing}
Contents == {Free}
            \cup [type : {"atom"}, str : Words, ofs : Offsets]
            \cup [type : {"pair"}, car : Pointers, cdr : Pointers]

Unref(a) == [do |-> "unref", node |-> a]
Drop(a)  == [do |-> "drop", node |-> a]

NoHandle == "none"
Settled  == [to |-> NoHandle, node |-> Nothing]

Live == DOMAIN refs      \* the nodes that are not freed
FreeAddresses == { a \in Addresses : node[a].type = "free" }

\* f with y at x, and f without x.
With(f, x, y)  == [z \in DOMAIN f \cup {x} |-> IF z = x THEN y ELSE f[z]]
Without(f, x)  == [z \in DOMAIN f \ {x} |-> f[z]]

\* ref, on the counts r: a count that is not there is made.
Counted(r, a) ==
  IF a = Nothing THEN r
  ELSE With(r, a, IF a \in DOMAIN r THEN r[a] + 1 ELSE 1)

Empty == [x \in {} |-> Nothing]

Init ==
  /\ node = [a \in Addresses |-> Free]
  /\ atoms = Empty /\ pairs = Empty /\ refs = Empty
  /\ strings = [w \in Words |-> 0]
  /\ labels = [w \in Words |-> 0]
  /\ held = [h \in Handles |-> Nothing]
  /\ made = Nothing
  /\ calls = <<>>
  /\ coming = Settled

Idle == calls = <<>> /\ coming = Settled

(***************************************************************************)
(* regstr, by newAtom, whether the atom is found or made, and for a label  *)
(* of a walkable AST; unregstr.                                            *)
(***************************************************************************)
regstrFound(w) == strings' = [strings EXCEPT ![w] = IF @ = 0 THEN 1 ELSE @]   \* mutant
regstr(w)   == strings' = [strings EXCEPT ![w] = @ + 1]
unregstr(w) == strings' = [strings EXCEPT ![w] = IF @ = 0 THEN 0 ELSE @ - 1]

Label(w) ==
  /\ Idle
  /\ strings[w] < MaxCount
  /\ regstr(w)
  /\ labels' = [labels EXCEPT ![w] = @ + 1]
  /\ UNCHANGED <<node, atoms, pairs, refs, held, made, calls, coming>>

Unlabel(w) ==
  /\ Idle
  /\ labels[w] > 0
  /\ unregstr(w)
  /\ labels' = [labels EXCEPT ![w] = @ - 1]
  /\ UNCHANGED <<node, atoms, pairs, refs, held, made, calls, coming>>

(***************************************************************************)
(* newAtom and newPair: the node with these contents, found or made.       *)
(***************************************************************************)
NewAtom(w, o) ==
  /\ Idle
  /\ strings[w] < MaxCount
  /\ regstr(w)
  /\ IF <<w, o>> \in DOMAIN atoms
       THEN made' = atoms[<<w, o>>] /\ UNCHANGED <<node, atoms, refs>>
       ELSE \E a \in FreeAddresses :
              /\ node' = [node EXCEPT ![a] = Atom(w, o)]
              /\ atoms' = With(atoms, <<w, o>>, a)
              /\ refs' = With(refs, a, 0)
              /\ made' = a
  /\ UNCHANGED <<pairs, labels, held, calls, coming>>

\* What a user may point to: what a handle holds, what was just made, null.
Known == { held[h] : h \in Handles } \cup {made, Nothing}

CarCounted(car, cdr)   == Counted(refs, car)                   \* mutant
PartsCounted(car, cdr) == Counted(Counted(refs, car), cdr)

NewPair(car, cdr) ==
  /\ Idle
  /\ IF <<car, cdr>> \in DOMAIN pairs
       THEN made' = pairs[<<car, cdr>>] /\ UNCHANGED <<node, pairs, refs>>
       ELSE \E a \in FreeAddresses :
              /\ node' = [node EXCEPT ![a] = Pair(car, cdr)]
              /\ pairs' = With(pairs, <<car, cdr>>, a)
              /\ refs' = With(PartsCounted(car, cdr), a, 0)
              /\ made' = a
  /\ UNCHANGED <<atoms, strings, labels, held, calls, coming>>

(***************************************************************************)
(* Ast::operator=, for constructors and the destructor too.  The node x    *)
(* that h gets is one that a user can name, or a part of it; since h lets  *)
(* go of its node first, x must not depend on that alone.                  *)
(***************************************************************************)
Parts(X) == 
  UNION { {node[a].car, node[a].cdr} :
            a \in {b \in X \ {Nothing} : node[b].type = "pair"} }

\* What is in each set that has X and the parts of what it has.
Below(X) ==
  { x \in Pointers :
      \A S \in SUBSET Pointers : X \subseteq S /\ Parts(S) \subseteq S => x \in S }

KeptWithout(h, x) ==
  \/ x = Nothing
  \/ x \notin Below({held[h]})
  \/ x \in Below({held[k] : k \in Handles \ {h}})

Assign(h, x) ==
  /\ Idle
  /\ x # held[h]
  /\ KeptWithout(h, x)
  /\ coming' = [to |-> h, node |-> x]
  /\ calls' = << Unref(held[h]) >>
  /\ held' = [held EXCEPT ![h] = Nothing]
  /\ made' = Nothing
  /\ UNCHANGED <<node, atoms, pairs, refs, strings, labels>>

Assigned ==
  /\ coming # Settled /\ calls = <<>>
  /\ held' = [held EXCEPT ![coming.to] = coming.node]
  /\ refs' = Counted(refs, coming.node)
  /\ coming' = Settled
  /\ UNCHANGED <<node, atoms, pairs, strings, labels, made, calls>>

(***************************************************************************)
(* unref: nothing to do, one reference less, or the end of a node.  A pair *)
(* leaves m_pairs, then its parts are unref'ed, then it is freed.          *)
(***************************************************************************)
Running(what) == calls # <<>> /\ Last(calls).do = what
Subject == Last(calls).node
HasRef(a) == a # Nothing /\ a \in DOMAIN refs /\ refs[a] > 0

SharedBeyond(a) == refs[a] > 2       \* mutant: one owner too many is forgotten
Shared(a)       == refs[a] > 1

UnrefNothing ==
  /\ Running("unref") /\ ~HasRef(Subject)
  /\ calls' = Front(calls)
  /\ UNCHANGED <<node, atoms, pairs, refs, strings, labels, held, made, coming>>

UnrefShared ==
  /\ Running("unref") /\ HasRef(Subject) /\ Shared(Subject)
  /\ refs' = [refs EXCEPT ![Subject] = @ - 1]
  /\ calls' = Front(calls)
  /\ UNCHANGED <<node, atoms, pairs, strings, labels, held, made, coming>>

AtomKept(a)      == atoms            \* mutant: m_atoms still has it
AtomForgotten(a) == Without(atoms, <<node[a].str, node[a].ofs>>)

UnrefAtom ==
  LET a == Subject IN
  /\ Running("unref") /\ HasRef(a) /\ ~Shared(a) /\ node[a].type = "atom"
  /\ atoms' = AtomForgotten(a)
  /\ unregstr(node[a].str)
  /\ node' = [node EXCEPT ![a] = Free]
  /\ refs' = Without(refs, a)
  /\ calls' = Front(calls)
  /\ UNCHANGED <<pairs, labels, held, made, coming>>

UnrefPair ==
  LET a == Subject IN
  /\ Running("unref") /\ HasRef(a) /\ ~Shared(a) /\ node[a].type = "pair"
  /\ pairs' = Without(pairs, <<node[a].car, node[a].cdr>>)
  /\ calls' = Front(calls) \o << Drop(a), Unref(node[a].cdr), Unref(node[a].car) >>
  /\ UNCHANGED <<node, atoms, refs, strings, labels, held, made, coming>>

DropPair ==
  /\ Running("drop")
  /\ node' = [node EXCEPT ![Subject] = Free]
  /\ refs' = Without(refs, Subject)
  /\ calls' = Front(calls)
  /\ UNCHANGED <<atoms, pairs, strings, labels, held, made, coming>>

Next ==
  \/ \E w \in Words : Label(w) \/ Unlabel(w)
  \/ \E w \in Words, o \in Offsets : NewAtom(w, o)
  \/ \E car, cdr \in Known : NewPair(car, cdr)
  \/ \E h \in Handles, x \in Known \cup Parts(Known) : Assign(h, x)
  \/ Assigned \/ UnrefNothing \/ UnrefShared \/ UnrefAtom \/ UnrefPair \/ DropPair

Spec     == Init /\ [][Next]_vars
FairSpec == Spec /\ WF_vars(UnrefNothing \/ UnrefShared \/ UnrefAtom \/ UnrefPair
                            \/ DropPair \/ Assigned)
-----------------------------------------------------------------------------
TypeOK ==
  /\ node \in [Addresses -> Contents]
  /\ DOMAIN atoms \subseteq Words \X Offsets /\ atoms \in [DOMAIN atoms -> Addresses]
  /\ DOMAIN pairs \subseteq Pointers \X Pointers /\ pairs \in [DOMAIN pairs -> Addresses]
  /\ Live \subseteq Addresses /\ refs \in [Live -> Nat]
  /\ strings \in [Words -> 0 .. MaxCount] /\ labels \in [Words -> 0 .. MaxCount]
  /\ held \in [Handles -> Pointers] /\ made \in Pointers
  /\ calls \in Seq([do : {"unref", "drop"}, node : Pointers])
  /\ coming \in [to : Handles \cup {NoHandle}, node : Pointers]

(***************************************************************************)
(* A count is the number of owners: handles, pairs that are registered,    *)
(* and calls of unref that were made and have not run yet.  The node of a  *)
(* pair whose parts are being unref'ed has no owner any more.              *)
(***************************************************************************)
Dropping == { a \in Addresses : Drop(a) \in ToSet(calls) }

Owners(a) ==
  { <<"handle", h>> : h \in {k \in Handles : held[k] = a} }
  \cup { <<"car", k>> : k \in {q \in DOMAIN pairs : q[1] = a} }
  \cup { <<"cdr", k>> : k \in {q \in DOMAIN pairs : q[2] = a} }
  \cup { <<"call", k>> : k \in {q \in DOMAIN calls : calls[q] = Unref(a)} }

CountsExact ==
  TypeOK /\ \A a \in Live \ Dropping : refs[a] = Cardinality(Owners(a))

(***************************************************************************)
(* Every node that is not freed is found by its contents, and only such    *)
(* nodes are: equal trees are one node.                                    *)
(***************************************************************************)
HashConsed ==
  /\ \A a \in Live \ Dropping :
       IF node[a].type = "atom"
         THEN <<node[a].str, node[a].ofs>> \in DOMAIN atoms /\ atoms[<<node[a].str, node[a].ofs>>] = a
         ELSE <<node[a].car, node[a].cdr>> \in DOMAIN pairs /\ pairs[<<node[a].car, node[a].cdr>>] = a
  /\ \A k \in DOMAIN atoms : atoms[k] \in Live /\ node[atoms[k]] = Atom(k[1], k[2])
  /\ \A k \in DOMAIN pairs : pairs[k] \in Live /\ node[pairs[k]] = Pair(k[1], k[2])

(***************************************************************************)
(* Whatever was assigned in which order, nothing that can still be read    *)
(* was freed, and what was freed is not counted.                           *)
(***************************************************************************)
Readable(x) == x \in Live \cup {Nothing}

NoDangling ==
  /\ Live = { a \in Addresses : node[a] # Free }
  /\ \A h \in Handles : Readable(held[h])
  /\ Readable(made) /\ Readable(coming.node)
  /\ \A k \in DOMAIN calls : Readable(calls[k].node)
  /\ \A a \in Live \ Dropping :
       node[a].type = "pair" => Readable(node[a].car) /\ Readable(node[a].cdr)

(***************************************************************************)
(* A string stays as long as an atom or a label points to it: newAtom      *)
(* takes a reference for each call and only gives the last one back.       *)
(***************************************************************************)
AtomsOf(w) == { a \in Live : node[a].type = "atom" /\ node[a].str = w }

StringsHeld == \A w \in Words : strings[w] >= labels[w] + Cardinality(AtomsOf(w))

(***************************************************************************)
(* The registry is transparent: through it each handle has its own tree.   *)
(***************************************************************************)
Unfold ==
  LET tree[d \in 0 .. Cardinality(Addresses)] ==
        [ x \in Addresses \cup {Nothing} |->
            IF x = Nothing \/ d = 0 THEN [kind |-> "nil"]
            ELSE CASE node[x].type = "free" -> [kind |-> "freed"]
                   [] node[x].type = "atom" ->
                        [kind |-> "atom", str |-> node[x].str, ofs |-> node[x].ofs]
                   [] node[x].type = "pair" ->
                        [kind |-> "pair", car |-> tree[d - 1][node[x].car],
                                          cdr |-> tree[d - 1][node[x].cdr]] ]
  IN tree[Cardinality(Addresses)]

Trees == INSTANCE AstTrees WITH
           value  <- [h \in Handles |-> Unfold[held[h]]],
           made   <- Unfold[made],
           coming <- [to |-> coming.to, tree |-> Unfold[coming.node]]

Implements == Trees!TreeSpecification

(***************************************************************************)
(* Every assignment ends, however much is freed on the way.                *)
(***************************************************************************)
AssignmentsEnd == [](coming # Settled => <>(coming = Settled))
=============================================================================
