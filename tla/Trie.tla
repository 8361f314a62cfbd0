-------------------------------- MODULE Trie ---------------------------------
(***************************************************************************)
(* The radix tree that holds a bag of words (trie.cc).  A node has a piece *)
(* of a word (radix), the mark that a word ends there (is_leaf), its next  *)
(* sibling and its first child (follow).  trie_insert walks down the tree  *)
(* along the word, an action per turn of its loops, and splits the node in *)
(* the middle of whose radix the word leaves it.                           *)
(***************************************************************************)
EXTENDS Naturals, Sequences, FiniteSets, FiniteSetsExt

CONSTANTS Letters,
          Words,        \* the words that may be inserted
          MaxInserts    \* how many are

ASSUME TrieAssumption == Words \subseteq Seq(Letters) /\ MaxInserts \in Nat

VARIABLES heap,         \* node -> [radix, leaf, next, follow]; the root is 1
          s,            \* what is left of the word being inserted
          cur, prev,    \* the node looked at, or 0, and the one over it
          op,           \* what trie_insert is doing
          inserted      \* the words inserted so far, in order

vars == <<heap, s, cur, prev, op, inserted>>

Root == 1
NodeIds == DOMAIN heap

Node(radix, leaf, next, follow) ==
  [radix |-> radix, leaf |-> leaf, next |-> next, follow |-> follow]

Init ==
  /\ heap = << Node(<<>>, TRUE, 0, 0) >>
  /\ s = <<>>
  /\ cur = 0 /\ prev = Root
  /\ op = "idle"
  /\ inserted = <<>>

\* match_prefix: how much two strings have in common.
InCommon(r, t) ==
  Max({ k \in 0 .. Len(r) : k <= Len(t) /\ SubSeq(r, 1, k) = SubSeq(t, 1, k) })

Rest(t, k) == SubSeq(t, k + 1, Len(t))

Start(w) ==
  /\ op = "idle"
  /\ Len(inserted) < MaxInserts
  /\ s' = w
  /\ cur' = heap[Root].follow /\ prev' = Root
  /\ op' = "walk"
  /\ inserted' = Append(inserted, w)
  /\ UNCHANGED heap

Walking == op = "walk" /\ s # <<>> /\ cur # 0
Here    == InCommon(heap[cur].radix, s)

NextSibling ==
  /\ Walking
  /\ Here = 0
  /\ cur' = heap[cur].next
  /\ UNCHANGED <<heap, s, prev, op, inserted>>

Descend ==
  /\ Walking
  /\ Here # 0 /\ Here = Len(heap[cur].radix)
  /\ s' = Rest(s, Here)
  /\ prev' = cur /\ cur' = heap[cur].follow
  /\ UNCHANGED <<heap, op, inserted>>

(***************************************************************************)
(* The upper part of a split node stays a word's end only if it was one,   *)
(* and the word inserted ends there: is_leaf &= !s[l].                     *)
(***************************************************************************)
LeafAfterSplit(was, left) == was /\ left = <<>>

TailWithoutFollow(n, k) == Node(Rest(heap[n].radix, k), heap[n].leaf, 0, 0)   \* mutant
SplitTail(n, k) == Node(Rest(heap[n].radix, k), heap[n].leaf, 0, heap[n].follow)

Split ==
  LET k == Here IN
  /\ Walking
  /\ k # 0 /\ k < Len(heap[cur].radix)
  /\ heap' = Append([heap EXCEPT
                       ![cur].radix  = SubSeq(@, 1, k),
                       ![cur].leaf   = LeafAfterSplit(@, Rest(s, k)),
                       ![cur].follow = Len(heap) + 1], SplitTail(cur, k))
  /\ s' = Rest(s, k)
  /\ prev' = cur /\ cur' = 0
  /\ UNCHANGED <<op, inserted>>

\* No node goes on with what is left: a new first child of prev does.
LinkedOver(n)  == 0                        \* mutant: its siblings are forgotten
LinkedToNew(n) == Len(heap) + 1            \* mutant: follow is set before it is read
LinkedTo(n)    == heap[n].follow

AddNode ==
  /\ op = "walk" /\ s # <<>> /\ cur = 0
  /\ heap' = Append([heap EXCEPT ![prev].follow = Len(heap) + 1],
                    Node(s, TRUE, LinkedTo(prev), 0))
  /\ op' = "idle"
  /\ UNCHANGED <<s, cur, prev, inserted>>

\* The word ends where it is: nothing is left to insert.
Return ==
  /\ op = "walk" /\ s = <<>>
  /\ op' = "idle"
  /\ UNCHANGED <<heap, s, cur, prev, inserted>>

\* trie_free, and trie_new again.
Free ==
  /\ op = "idle" /\ inserted # <<>>
  /\ heap' = << Node(<<>>, TRUE, 0, 0) >>
  /\ s' = <<>> /\ cur' = 0 /\ prev' = Root
  /\ inserted' = <<>>
  /\ UNCHANGED op

Insertion == NextSibling \/ Descend \/ Split \/ AddNode \/ Return
Next == (\E w \in Words : Start(w)) \/ Insertion \/ Free

Spec     == Init /\ [][Next]_vars
FairSpec == Spec /\ WF_vars(Insertion)

\* A word ends at node n of the heap h: trie_match wants all of the text to be read.
EndsAtAnyNode(h, n, whole, all) == whole => h[n].leaf /\ all         \* mutant
Ends(h, n, whole, all)          == h[n].leaf /\ (whole => all)

(***************************************************************************)
(* trie_match_prefix and trie_match: from node n, with read letters of t   *)
(* read and ret the length to return so far.                               *)
(***************************************************************************)
Places(h, t) == [n : 0 .. Len(h), read : 0 .. Len(t), ret : 0 .. Len(t)]

Matched(h, t, whole) ==
  LET from[c \in Places(h, t)] ==
        IF c.n = 0 \/ (~whole /\ c.read = Len(t)) THEN c.ret
        ELSE LET k == InCommon(h[c.n].radix, Rest(t, c.read)) IN
             IF k = 0 THEN from[[c EXCEPT !.n = h[c.n].next]]
             ELSE IF k < Len(h[c.n].radix) THEN IF whole THEN 0 ELSE c.ret
             ELSE from[[n |-> h[c.n].follow, read |-> c.read + k,
                        ret |-> IF Ends(h, c.n, whole, c.read + k = Len(t))
                                  THEN c.read + k ELSE c.ret]]
  IN from[[n |-> h[Root].follow, read |-> 0, ret |-> 0]]

trie_match(t)        == Matched(heap, t, TRUE)
trie_match_prefix(t) == Matched(heap, t, FALSE)
-----------------------------------------------------------------------------
Idle == op = "idle"
Bag  == { inserted[k] : k \in DOMAIN inserted }

\* The words of Words that the trie finds.
Found == { w \in Words : trie_match(w) = Len(w) }

TrieNodes == [radix : Seq(Letters), leaf : BOOLEAN, next : Nat, follow : Nat]

TypeOK ==
  /\ heap \in Seq(TrieNodes) /\ Root \in NodeIds
  /\ \A n \in NodeIds :
       /\ heap[n].next \in NodeIds \cup {0} /\ heap[n].follow \in NodeIds \cup {0}
       /\ n # Root => heap[n].radix # <<>>
  /\ s \in Seq(Letters)
  /\ cur \in NodeIds \cup {0} /\ prev \in NodeIds
  /\ op \in {"idle", "walk"}
  /\ inserted \in Seq(Words) /\ Len(inserted) <= MaxInserts

Children(h, n) ==
  LET andNext[m \in 0 .. Len(h)] ==
        IF m = 0 THEN {} ELSE {m} \cup andNext[h[m].next]
  IN andNext[h[n].follow]

(***************************************************************************)
(* Between two insertions the nodes are a tree: each but the root is below *)
(* one node, and no two children of a node begin alike.  A walk that took  *)
(* the first child that goes on needs no other.                            *)
(***************************************************************************)
IsTree ==
  TypeOK /\ (Idle =>
    /\ UNION { Children(heap, n) : n \in NodeIds } = NodeIds \ {Root}
    /\ \A m, n \in NodeIds : m # n => Children(heap, m) \cap Children(heap, n) = {}
    /\ \A p \in NodeIds : \A m, n \in Children(heap, p) :
         heap[m].radix[1] = heap[n].radix[1] => m = n)

(***************************************************************************)
(* A word that is found is found for good, however nodes are split later,  *)
(* and in the middle of an insertion too; only trie_free forgets it.       *)
(***************************************************************************)
FoundForGood == [][inserted' # <<>> => Found \subseteq Found']_vars

(***************************************************************************)
(* No word is found that was not inserted, and a word is found once it is  *)
(* inserted unless it is the beginning of one inserted before it.          *)
(***************************************************************************)
IsBeginning(v, w) == Len(v) < Len(w) /\ SubSeq(w, 1, Len(v)) = v

FoundAsInserted ==
  Idle =>
    /\ Found \subseteq Bag \cup {<<>>}
    /\ \A k \in DOMAIN inserted :
         \/ inserted[k] \in Found
         \/ \E j \in 1 .. k - 1 : IsBeginning(inserted[k], inserted[j])

\* trie_match_prefix answers the longest of the words found that the text begins with.
LongestAmong(found) ==
  \A t \in Words :
    trie_match_prefix(t) =
      Max({ Len(w) : w \in {v \in found : v = t \/ IsBeginning(v, t)} } \cup {0})

(***************************************************************************)
(* What is found of a text is the longest word that it begins with, of     *)
(* those the trie finds.                                                   *)
(***************************************************************************)
LongestFound == Idle => LongestAmong(Found)

(***************************************************************************)
(* Every word inserted is found: what the program at the end of trie.cc    *)
(* tests.                                                                  *)
(***************************************************************************)
InsertedFound == Idle => Bag \subseteq Found

\* An insertion ends: the walk goes down, and the tree has an end.
InsertionsEnd == []((op = "walk") => <>Idle)
=============================================================================
