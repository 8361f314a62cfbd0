------------------------------- MODULE Walker -------------------------------
(***************************************************************************)
(* The walk of a tree by a pilot (walker.c) and the pilot manager that     *)
(* finds the method to call for a node (pilot_manager.c, over hashtab.h).  *)
(* A pilot answers each visit by a direction.  walk() keeps the fathers of *)
(* the current node and their places in two stacks; it does not use the    *)
(* links to fathers the nodes have.  A method may itself walk the operands *)
(* of its node, as those of examples/ape_tinycalc.c do, so that walks are  *)
(* nested.                                                                 *)
(***************************************************************************)
EXTENDS WalkableAst, SequencesExt

CONSTANTS Trees,        \* the trees to walk
          Pilots,       \* the names of the pilots that can be loaded
          Labels,       \* the labels of nodes
          Exports,      \* pilot -> the labels it has a method of its own for
          HashRow,      \* pilot or label -> its row in a hash table
          MaxOpens      \* bound: opens of one library at a restart

ASSUME WalkerAssumption ==
  /\ \A t \in Trees : IsWast(t) /\ Range(t.label) \subseteq Labels
  /\ Exports \in [Pilots -> SUBSET Labels]
  /\ Pilots \cup Labels = DOMAIN HashRow
  /\ MaxOpens \in Nat

VARIABLES tree,
          cache,        \* row -> the pilots loaded
          opens,        \* pilot -> dlopens of its library without a dlclose
          methods,      \* pilot -> row -> the methods looked up
          walks,        \* the calls of walk(), the innermost last
          requested,    \* history: the pilots asked for since tinyap_init
          forgotten     \* history: pilot -> restarts that came after another
                        \* pilot of its row was asked for after it

loading == <<cache, opens, requested, forgotten>>
vars    == <<tree, methods, walks, loading>>

Rows  == Range(HashRow)
Empty == [r \in Rows |-> <<>>]

Answers  == {"Up", "Down", "Next", "Done", "Error"}
Visiting == "visiting"

(***************************************************************************)
(* hashtab.h: a row is a chain of entries; an entry is added in front.     *)
(***************************************************************************)
NoEntry == [key |-> "none"]

FirstInRow(tab, key) ==                        \* mutant: keys are not compared
  IF tab[HashRow[key]] = <<>> THEN NoEntry ELSE tab[HashRow[key]][1]
FoundInFront(tab, key) ==                      \* mutant: the chain is not followed
  LET row == tab[HashRow[key]] IN
  IF row # <<>> /\ row[1].key = key THEN row[1] ELSE NoEntry
hash_find_e(tab, key) ==
  LET row  == tab[HashRow[key]]
      here == { i \in DOMAIN row : row[i].key = key }
  IN IF here = {} THEN NoEntry ELSE row[Min(here)]

hash_addelem(tab, key, e) ==
  [tab EXCEPT ![HashRow[key]] = << [key |-> key, e |-> e] >> \o @]

\* dlsym, or the default method of the pilot.
Symbol(p, label) == <<p, IF label \in Exports[p] THEN label ELSE "default">>

(***************************************************************************)
(* get_visit_method, on the methods known: the method, and those known     *)
(* after.                                                                  *)
(***************************************************************************)
Method(known, p, label) ==
  LET e == hash_find_e(known[p], label) IN
  IF e # NoEntry THEN e.e ELSE Symbol(p, label)

Remembered(known, p, label) ==
  IF hash_find_e(known[p], label) # NoEntry THEN known
  ELSE [known EXCEPT ![p] = hash_addelem(@, label, Symbol(p, label))]

(***************************************************************************)
(* do_visit begins: of the walk f, on node n, with the methods known.      *)
(***************************************************************************)
Visited(f, n, known) ==
  [f EXCEPT !.a = n, !.d = Visiting, !.answer = Visiting, !.asked = 0,
            !.method = Method(known, f.pilot, wa_op(tree, n))]

Inner == Last(walks)

Init ==
  /\ tree \in Trees
  /\ cache = Empty /\ opens = [p \in Pilots |-> 0]
  /\ methods = [p \in Pilots |-> Empty]
  /\ walks = <<>>
  /\ requested = <<>> /\ forgotten = [p \in Pilots |-> 0]

(***************************************************************************)
(* do_walk: new_pilot, which loads a pilot that is not in the cache, and   *)
(* walk, up to its first visit.  There is no visit of a null node.  What   *)
(* is opened again is the library that is open: dlopen counts.             *)
(***************************************************************************)
NewWalk(n, p) ==
  [ pilot |-> p, root |-> n, a |-> n, next |-> NoNode, d |-> "Done", opd |-> 0,
    stack |-> <<>>, ofs_stack |-> <<>>, asked |-> 0, method |-> <<>>, answer |-> "Done" ]

new_pilot(p) ==
  /\ IF hash_find_e(cache, p) = NoEntry
       THEN cache' = hash_addelem(cache, p, p) /\ opens' = [opens EXCEPT ![p] = @ + 1]
       ELSE UNCHANGED <<cache, opens>>
  /\ requested' = IF p \in Range(requested) THEN requested ELSE Append(requested, p)
  /\ UNCHANGED forgotten

do_walk(n, p, under) ==
  /\ new_pilot(p)
  /\ IF n = NoNode
       THEN walks' = Append(under, NewWalk(n, p)) /\ UNCHANGED methods
       ELSE /\ walks' = Append(under, Visited(NewWalk(n, p), n, methods))
            /\ methods' = Remembered(methods, p, wa_op(tree, n))
  /\ UNCHANGED tree

\* tinyap_walk, from a program.
Start(n, p) == walks = <<>> /\ do_walk(n, p, <<>>)

\* tinyap_walk, from a method, on the next operand of the node visited.
WalkOperand(p) ==
  /\ walks # <<>> /\ Inner.d = Visiting
  /\ Inner.asked < wa_opd_count(tree, Inner.a)
  /\ do_walk(wa_opd(tree, Inner.a, Inner.asked), p,
             Append(Front(walks), [Inner EXCEPT !.asked = @ + 1]))

\* The method returns.
Answer(d) ==
  /\ walks # <<>> /\ Inner.d = Visiting
  /\ walks' = Append(Front(walks), [Inner EXCEPT !.d = d, !.answer = d])
  /\ UNCHANGED <<tree, methods, loading>>

(***************************************************************************)
(* The switch in the loop of walk: case Down runs on into case Next, and   *)
(* that into case Up when there is no operand left.                        *)
(***************************************************************************)
PushedReset(f) ==                              \* mutant: opd is reset before
  [f EXCEPT !.stack = Append(@, f.a), !.ofs_stack = Append(@, 0)]
Pushed(f) == [f EXCEPT !.stack = Append(@, f.a), !.ofs_stack = Append(@, f.opd)]

Popped(f) ==
  [f EXCEPT !.next = NoNode, !.stack = Front(@), !.ofs_stack = Front(@),
            !.opd = Last(f.ofs_stack), !.d = "Next"]

CaseUpForever(f) ==                            \* mutant: the end is not seen
  IF f.stack # <<>> THEN Popped(f) ELSE [f EXCEPT !.next = NoNode]
CaseUp(f) == IF f.stack # <<>> THEN Popped(f)
             ELSE [f EXCEPT !.next = NoNode, !.d = "Done"]

CaseNext(f, opd) ==
  IF f.stack = <<>> THEN [f EXCEPT !.opd = opd, !.d = "Done"]
  ELSE IF opd < wa_opd_count(tree, Last(f.stack))
    THEN [f EXCEPT !.opd = opd, !.next = wa_opd(tree, Last(f.stack), opd)]
  ELSE CaseUp([f EXCEPT !.opd = opd])

CaseDownUnreset(f) == CaseNext(Pushed(f), f.opd + 1)       \* mutant: opd goes on
CaseDown(f) == CaseNext(Pushed(f), 0)

\* A turn of the loop ends with a visit of next, when there is one.
Turn(f) ==
  /\ IF f.next = NoNode
       THEN walks' = Append(Front(walks), f) /\ UNCHANGED methods
       ELSE /\ walks' = Append(Front(walks), Visited(f, f.next, methods))
            /\ methods' = Remembered(methods, f.pilot, wa_op(tree, f.next))
  /\ UNCHANGED <<tree, loading>>

Looping(d) == walks # <<>> /\ Inner.d = d

GoDown == Looping("Down") /\ Turn(CaseDown(Inner))
GoNext == Looping("Next") /\ Turn(CaseNext(Inner, Inner.opd + 1))
GoUp   == Looping("Up")   /\ Turn(CaseUp(Inner))

\* The result is asked for, the pilot freed, and the method that walked goes on.
Return ==
  /\ Looping("Done") \/ Looping("Error")
  /\ walks' = Front(walks)
  /\ UNCHANGED <<tree, methods, loading>>

(***************************************************************************)
(* tinyap_terminate and tinyap_init again.  hi_incr goes to the next row   *)
(* after each entry: of the pilots of a row only the first is released,    *)
(* and the others are forgotten with their libraries open.                 *)
(***************************************************************************)
Iterated(tab) == { tab[r][1].e : r \in { q \in Rows : tab[q] # <<>> } }

\* Another pilot of its row was asked for after p.
Overtaken(s, p) ==
  \E i, j \in DOMAIN s : i < j /\ s[i] = p /\ s[j] # p /\ HashRow[s[j]] = HashRow[p]

Restart ==
  /\ walks = <<>> /\ cache # Empty
  /\ \A p \in Pilots : opens[p] <= MaxOpens
  /\ opens' = [p \in Pilots |-> IF p \in Iterated(cache) THEN opens[p] - 1 ELSE opens[p]]
  /\ cache' = Empty /\ methods' = [p \in Pilots |-> Empty]
  /\ requested' = <<>>
  /\ forgotten' = [p \in Pilots |->
                     IF Overtaken(requested, p) THEN forgotten[p] + 1 ELSE forgotten[p]]
  /\ UNCHANGED <<tree, walks>>

Walking == \/ \E p \in Pilots : WalkOperand(p)
           \/ \E d \in Answers : Answer(d)
           \/ GoDown \/ GoNext \/ GoUp \/ Return

Next == (\E n \in WastNodes(tree) \cup {NoNode}, p \in Pilots : Start(n, p)) \/ Walking \/ Restart

Spec     == Init /\ [][Next]_vars
FairSpec == Spec /\ WF_vars(Walking)
-----------------------------------------------------------------------------
Pointers == WastNodes(tree) \cup {NoNode}
Methods  == Pilots \X (Labels \cup {"default"})
Frames   == [ pilot : Pilots, root : Pointers, a : Pointers, next : Pointers,
              d : Answers \cup {Visiting}, answer : Answers \cup {Visiting},
              opd : Nat, stack : Seq(WastNodes(tree)), ofs_stack : Seq(Nat),
              asked : Nat, method : Methods \cup {<<>>} ]

TypeOK ==
  /\ tree \in Trees
  /\ opens \in [Pilots -> Nat] /\ forgotten \in [Pilots -> Nat]
  /\ requested \in Seq(Pilots)
  /\ cache \in [Rows -> Seq([key : Pilots, e : Pilots])]
  /\ methods \in [Pilots -> [Rows -> Seq([key : Labels, e : Methods])]]
  /\ walks \in Seq(Frames)

(***************************************************************************)
(* The two stacks are the way from the root of the walk to the current     *)
(* node: each father with its own place among its father's operands.       *)
(***************************************************************************)
Way(f, k) == IF k <= Len(f.stack) THEN f.stack[k] ELSE f.a

StacksInStep ==
  TypeOK /\ \A k \in DOMAIN walks :
    LET f == walks[k] IN
    /\ Len(f.stack) = Len(f.ofs_stack)
    /\ f.d = Visiting =>
         /\ Way(f, 1) = f.root
         /\ \A i \in 1 .. Len(f.stack) :
              Way(f, i + 1) = wa_opd(tree, f.stack[i],
                                IF i = Len(f.stack) THEN f.opd ELSE f.ofs_stack[i + 1])

(***************************************************************************)
(* Whatever was looked up before, by whichever pilot in whichever nested   *)
(* walk, the method called is the one of this pilot for this label.        *)
(***************************************************************************)
RightMethodCalled ==
  \A k \in DOMAIN walks :
    walks[k].d = Visiting =>
      walks[k].method = Symbol(walks[k].pilot, wa_op(tree, walks[k].a))

(***************************************************************************)
(* What is opened and what is closed, over any number of restarts.  A      *)
(* library is opened once between two restarts, however often its pilot is *)
(* asked for and whatever shares its row; a restart closes it, unless      *)
(* another pilot of its row was asked for after it: then it stays open     *)
(* for good, and the next walk that asks for it opens it once more.  In    *)
(* between no method is looked up twice.                                   *)
(***************************************************************************)
KeptOnce(tab) ==
  \A r \in Rows : \A i, j \in DOMAIN tab[r] : tab[r][i].key = tab[r][j].key => i = j

InUse(p) == IF p \in Range(requested) THEN 1 ELSE 0

OpensAccounted ==
  /\ \A p \in Pilots : opens[p] = forgotten[p] + InUse(p)
  /\ \A p \in Pilots : KeptOnce(methods[p])

(***************************************************************************)
(* The walk, with stacks, fall-through cases and a next that is kept, goes *)
(* where TreeWalks says, which knows of a frame the node visited and the   *)
(* answer to the visit.  What is said there of Up holds here.              *)
(***************************************************************************)
VisitOf(f) == [root |-> f.root, at |-> f.a, answer |-> f.answer]
Visits     == [k \in DOMAIN walks |-> VisitOf(walks[k])]

Promised == INSTANCE TreeWalks WITH walks <- Visits

Implements == Promised!WalksSpecification

(***************************************************************************)
(* The walk a program asked for ends if every method answers.              *)
(***************************************************************************)
WalksEnd == walks # <<>> ~> walks = <<>>
=============================================================================
