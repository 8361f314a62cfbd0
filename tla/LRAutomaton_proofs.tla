------------------------- MODULE LRAutomaton_proofs --------------------------
(***************************************************************************)
(* Proofs about LRAutomaton: whatever the grammar and whatever the order   *)
(* in which the unordered_map is walked, automaton::items builds the       *)
(* canonical LR(0) automaton.                                              *)
(***************************************************************************)
EXTENDS LRAutomaton, LRTables_proofs

(***************************************************************************)
(* The symbols the state a moves on that the loop over FSB is done with.   *)
(***************************************************************************)
Dispatched(a) == MovesOf(g, states[a]) \ (IF a = cur THEN DOMAIN fsb ELSE {})

(***************************************************************************)
(* The states: the first is the start state, each other was reached from   *)
(* an earlier one, and no set of items is there twice.                     *)
(***************************************************************************)
StatesReached ==
  /\ 1 \in States
  /\ states[1] = ClosureOf(g, Alternatives(g, g.start))
  /\ \A b \in States \ {1} : \E a \in 1 .. b - 1 :
       \E x \in MovesOf(g, states[a]) : states[b] = Goto(g, states[a], x)

StatesDistinct == \A a, b \in States : states[a] = states[b] => a = b

(***************************************************************************)
(* The transitions: each is over a symbol its state moves on, to the state *)
(* of that symbol.                                                         *)
(***************************************************************************)
TransitionsRight ==
  /\ trans = [a \in States |-> trans[a]]
  /\ \A a \in States : \A x \in DOMAIN trans[a] :
       /\ x \in MovesOf(g, states[a])
       /\ trans[a][x] \in States
       /\ states[trans[a][x]] = Goto(g, states[a], x)

(***************************************************************************)
(* The work: a state that left the stack has all its transitions but those *)
(* of the kernels still in FSB; one that is on it, once, has none.         *)
(***************************************************************************)
StackWaits ==
  /\ IsInjective(stack)
  /\ cur \notin ToSet(stack)
  /\ \A a \in ToSet(stack) : DOMAIN trans[a] = {}

KernelsWait ==
  /\ fsb = [x \in DOMAIN fsb |-> fsb[x]]
  /\ DOMAIN fsb # {} => cur \in States
  /\ \A x \in DOMAIN fsb :
       x \in MovesOf(g, states[cur]) /\ fsb[x] = Moved(g, states[cur], x)

Explored ==
  \A a \in States \ ToSet(stack) :
    /\ DOMAIN trans[a] = Dispatched(a) \ Combinations(g)
    /\ \A x \in Dispatched(a) : \E b \in States : states[b] = Goto(g, states[a], x)

IInv == /\ TypeOK /\ StatesReached /\ StatesDistinct /\ TransitionsRight
        /\ StackWaits /\ KernelsWait /\ Explored
-----------------------------------------------------------------------------
(***************************************************************************)
(* pop_back() removes one element, and push_back() adds one.               *)
(***************************************************************************)
LEMMA PopLosesTheLast ==
  ASSUME NEW S, NEW s \in Seq(S), s # <<>>, IsInjective(s)
  PROVE  /\ Last(s) \in S
         /\ Front(s) \in Seq(S)
         /\ IsInjective(Front(s))
         /\ ToSet(Front(s)) = ToSet(s) \ {Last(s)}
         /\ Last(s) \in ToSet(s)
<1> DEFINE n == Len(s) - 1
<1>1. /\ n \in Nat /\ 1 \in Int /\ n \in Int /\ DOMAIN s = 1 .. n + 1
      /\ \A k \in 1 .. n + 1 : s[k] \in S
  OBVIOUS
<1>2. Front(s) = SubSeq(s, 1, n) /\ Last(s) = s[n + 1]
  BY <1>1 DEF Front, Last
<1> HIDE DEF n
<1>3. /\ Front(s) \in Seq(S)
      /\ Len(Front(s)) = n
      /\ \A k \in 1 .. n : Front(s)[k] = s[k]
  <2>1. /\ SubSeq(s, 1, n) \in Seq(S)
        /\ Len(SubSeq(s, 1, n)) = IF 1 <= n THEN n - 1 + 1 ELSE 0
        /\ \A k \in 1 .. n - 1 + 1 : SubSeq(s, 1, n)[k] = s[1 + k - 1]
    BY <1>1, SubSeqProperties
  <2> QED BY <1>1, <1>2, <2>1
<1>4. DOMAIN Front(s) = 1 .. n
  BY <1>3
<1>5. \A j, k \in 1 .. n + 1 : s[j] = s[k] => j = k
  BY <1>1 DEF IsInjective
<1>6. IsInjective(Front(s))
  BY <1>1, <1>3, <1>4, <1>5 DEF IsInjective
<1>7. Last(s) \in S /\ Last(s) \in ToSet(s)
  <2>1. n + 1 \in 1 .. n + 1
    BY <1>1
  <2> QED BY <1>1, <1>2, <2>1 DEF ToSet
<1>8. ToSet(Front(s)) = ToSet(s) \ {Last(s)}
  <2>1. ASSUME NEW k \in 1 .. n PROVE s[k] \in ToSet(s) /\ s[k] # Last(s)
    <3>1. k \in 1 .. n + 1 /\ n + 1 \in 1 .. n + 1 /\ k # n + 1
      BY <1>1
    <3> QED BY <1>1, <1>2, <1>5, <3>1 DEF ToSet
  <2>2. ASSUME NEW k \in 1 .. n + 1, s[k] # Last(s) PROVE k \in 1 .. n
    BY <1>1, <1>2, <2>2
  <2>3. ToSet(Front(s)) = {s[k] : k \in 1 .. n}
    BY <1>3, <1>4 DEF ToSet
  <2>4. ToSet(s) = {s[k] : k \in 1 .. n + 1}
    BY <1>1 DEF ToSet
  <2> QED BY <2>1, <2>2, <2>3, <2>4
<1> QED BY <1>3, <1>6, <1>7, <1>8

LEMMA PushAddsOne ==
  ASSUME NEW S, NEW s \in Seq(S), IsInjective(s), NEW e \in S, e \notin ToSet(s)
  PROVE  /\ Append(s, e) \in Seq(S)
         /\ IsInjective(Append(s, e))
         /\ ToSet(Append(s, e)) = ToSet(s) \cup {e}
<1>1. /\ DOMAIN s = 1 .. Len(s) /\ Len(s) \in Nat
      /\ Append(s, e) \in Seq(S)
      /\ DOMAIN Append(s, e) = 1 .. Len(s) + 1
      /\ \A k \in 1 .. Len(s) : Append(s, e)[k] = s[k]
      /\ Append(s, e)[Len(s) + 1] = e
  OBVIOUS
<1>2. \A k \in 1 .. Len(s) : s[k] # e
  BY <1>1 DEF ToSet
<1>3. \A j, k \in 1 .. Len(s) : s[j] = s[k] => j = k
  BY <1>1 DEF IsInjective
<1>4. IsInjective(Append(s, e))
  BY <1>1, <1>2, <1>3 DEF IsInjective
<1>5. ToSet(Append(s, e)) = ToSet(s) \cup {e}
  <2>1. ASSUME NEW d \in ToSet(Append(s, e)) PROVE d \in ToSet(s) \cup {e}
    BY <1>1 DEF ToSet
  <2>2. ToSet(s) \subseteq ToSet(Append(s, e))
    BY <1>1 DEF ToSet
  <2>3. e \in ToSet(Append(s, e))
    BY <1>1 DEF ToSet
  <2> QED BY <2>1, <2>2, <2>3
<1> QED BY <1>1, <1>4, <1>5
-----------------------------------------------------------------------------
(***************************************************************************)
(* The invariant holds at first.                                           *)
(***************************************************************************)
LEMMA InitIInv == Init => IInv
<1> SUFFICES ASSUME Init PROVE IInv
  OBVIOUS
<1>1. g \in Grammars /\ IsGrammar(g)
  BY GrammarsAssumption DEF Init
<1>2. /\ states \in Seq(SUBSET AllItems(g)) /\ States = {1}
      /\ states[1] = ClosureOf(g, Alternatives(g, g.start))
  BY <1>1, StartIsKnown DEF Init, States
<1>3. trans = [a \in {1} |-> Nothing] /\ DOMAIN Nothing = {}
  BY DEF Init, Nothing
<1>4. /\ stack \in Seq(States) /\ IsInjective(stack) /\ ToSet(stack) = {1}
  BY <1>2 DEF Init, IsInjective, ToSet
<1>5. cur = 0 /\ fsb = Nothing
  BY DEF Init
<1>6. TypeOK
  BY <1>1, <1>2, <1>3, <1>4, <1>5 DEF TypeOK
<1>7. StatesReached /\ StatesDistinct
  BY <1>2 DEF StatesReached, StatesDistinct
<1>8. TransitionsRight
  BY <1>2, <1>3 DEF TransitionsRight
<1>9. StackWaits /\ Explored
  BY <1>2, <1>3, <1>4, <1>5 DEF StackWaits, Explored
<1>10. KernelsWait
  BY <1>3, <1>5 DEF KernelsWait, Nothing
<1> QED BY <1>6, <1>7, <1>8, <1>9, <1>10 DEF IInv

(***************************************************************************)
(* Taking a state from the stack preserves it.                             *)
(***************************************************************************)
LEMMA PopIInv == IInv /\ PopState => IInv'
<1> SUFFICES ASSUME IInv, PopState PROVE IInv'
  OBVIOUS
<1> USE DEF IInv
<1>1. /\ fsb = Nothing /\ stack # <<>> /\ UNCHANGED <<g, states, trans>>
      /\ cur' = Last(stack) /\ stack' = Front(stack)
      /\ fsb' = [x \in MovesOf(g, states[cur']) |-> Moved(g, states[cur'], x)]
  BY DEF PopState, TakeState
<1>2. /\ cur' \in States /\ cur' \in ToSet(stack)
      /\ stack' \in Seq(States) /\ IsInjective(stack')
      /\ ToSet(stack') = ToSet(stack) \ {cur'}
  BY <1>1, PopLosesTheLast DEF TypeOK, StackWaits
<1>3. States' = States /\ IsGrammar(g) /\ states[cur'] \in SUBSET AllItems(g)
  BY <1>1, <1>2, GrammarsAssumption DEF TypeOK, States
<1>4. DOMAIN fsb' = MovesOf(g, states[cur']) /\ DOMAIN fsb = {}
  BY <1>1 DEF Nothing
<1>5. TypeOK'
  <2>1. \A x \in DOMAIN fsb' : fsb'[x] \subseteq AllItems(g)
    BY <1>1, <1>3, MovedAreItems
  <2> QED BY <1>1, <1>2, <1>3, <2>1 DEF TypeOK
<1>6. StatesReached' /\ StatesDistinct' /\ TransitionsRight'
  BY <1>1, <1>3 DEF StatesReached, StatesDistinct, TransitionsRight
<1>7. StackWaits'
  BY <1>1, <1>2 DEF StackWaits
<1>8. KernelsWait'
  BY <1>1, <1>2, <1>3, <1>4 DEF KernelsWait
<1>9. Explored'
  <2> SUFFICES ASSUME NEW a \in States \ ToSet(stack')
               PROVE  /\ DOMAIN trans[a] = Dispatched(a)' \ Combinations(g)
                      /\ \A x \in Dispatched(a)' :
                           \E b \in States : states[b] = Goto(g, states[a], x)
    BY <1>1, <1>3 DEF Explored
  <2>1. CASE a = cur'
    <3>1. Dispatched(a)' = {}
      BY <1>1, <1>4, <2>1 DEF Dispatched
    <3> QED BY <1>2, <2>1, <3>1 DEF StackWaits
  <2>2. CASE a # cur'
    <3>1. a \notin ToSet(stack) /\ Dispatched(a)' = Dispatched(a)
      BY <1>1, <1>2, <1>4, <2>2 DEF Dispatched
    <3> QED BY <3>1 DEF Explored
  <2> QED BY <2>1, <2>2
<1> QED BY <1>5, <1>6, <1>7, <1>8, <1>9

(***************************************************************************)
(* What dispatching does to each variable, in one form for a state that is *)
(* new and for one that was there: n is its number.                        *)
(***************************************************************************)
LEMMA DispatchStates ==
  ASSUME IInv, NEW x \in DOMAIN fsb, Dispatch(x)
  PROVE  /\ IsGrammar(g) /\ cur \in States /\ UNCHANGED <<g, cur>>
         /\ fsb' = [y \in DOMAIN fsb \ {x} |-> fsb[y]]
         /\ Goto(g, states[cur], x) \in SUBSET AllItems(g)
         /\ \E n \in 1 .. Len(states) + 1 :
              /\ states' \in Seq(SUBSET AllItems(g))
              /\ States' = States \cup {n}
              /\ \A a \in States : states'[a] = states[a]
              /\ states'[n] = Goto(g, states[cur], x)
              /\ n \notin States => /\ n = Len(states) + 1
                                   /\ \A a \in States : states[a] # states'[n]
              /\ stack' = IF n \in States THEN stack ELSE Append(stack, n)
              /\ trans' = [(IF n \in States THEN trans ELSE Append(trans, Nothing))
                            EXCEPT ![cur] = Entered(@, x, n)]
<1> DEFINE I     == StateOn(x)
           found == {k \in States : states[k] = I}
<1>1. IsGrammar(g) /\ cur \in States /\ states[cur] \in SUBSET AllItems(g)
  BY GrammarsAssumption DEF IInv, TypeOK, KernelsWait, States
<1>2. I = Goto(g, states[cur], x)
  BY DEF IInv, KernelsWait, StateOn, Goto
<1>3. I \in SUBSET AllItems(g)
  BY <1>1, <1>2, MovedAreItems
<1>4. states \in Seq(SUBSET AllItems(g)) /\ States = 1 .. Len(states) /\ Len(states) \in Nat
  BY DEF IInv, TypeOK, States
<1>5. UNCHANGED <<g, cur>> /\ fsb' = [y \in DOMAIN fsb \ {x} |-> fsb[y]]
  BY DEF Dispatch
<1>6. CASE found = {}
  <2> DEFINE n == Len(states) + 1
  <2>1. states' = Append(states, I) /\ stack' = Append(stack, n)
        /\ trans' = [Append(trans, Nothing) EXCEPT ![cur] = Entered(@, x, n)]
    BY <1>6 DEF Dispatch, SameState, Push, States
  <2>2. /\ states' \in Seq(SUBSET AllItems(g)) /\ States' = States \cup {n}
        /\ \A a \in States : states'[a] = states[a]
        /\ states'[n] = I
    BY <1>3, <1>4, <2>1 DEF States
  <2>3. n \notin States /\ n \in 1 .. Len(states) + 1
    BY <1>4
  <2> QED BY <1>1, <1>2, <1>3, <1>5, <1>6, <2>1, <2>2, <2>3
<1>7. CASE found # {}
  <2> DEFINE n == CHOOSE k \in found : TRUE
  <2>1. n \in States /\ states[n] = I
    BY <1>7
  <2>2. states' = states /\ stack' = stack
        /\ trans' = [trans EXCEPT ![cur] = Entered(@, x, n)]
    BY <1>7 DEF Dispatch, SameState, Push, States
  <2>3. States' = States \cup {n} /\ n \in 1 .. Len(states) + 1
    BY <1>4, <2>1, <2>2 DEF States
  <2> HIDE DEF n
  <2> QED BY <1>1, <1>2, <1>3, <1>4, <1>5, <2>1, <2>2, <2>3
<1> QED BY <1>6, <1>7

(***************************************************************************)
(* Dispatching a transition preserves the invariant.                       *)
(***************************************************************************)
LEMMA DispatchIInv ==
  ASSUME IInv, NEW x \in DOMAIN fsb, Dispatch(x)
  PROVE  IInv'
<1> USE DEF IInv
<1>1. /\ IsGrammar(g) /\ cur \in States /\ UNCHANGED <<g, cur>>
      /\ fsb' = [y \in DOMAIN fsb \ {x} |-> fsb[y]]
      /\ Goto(g, states[cur], x) \in SUBSET AllItems(g)
  BY DispatchStates
<1>2. PICK n \in 1 .. Len(states) + 1 :
        /\ states' \in Seq(SUBSET AllItems(g))
        /\ States' = States \cup {n}
        /\ \A a \in States : states'[a] = states[a]
        /\ states'[n] = Goto(g, states[cur], x)
        /\ n \notin States => /\ n = Len(states) + 1
                             /\ \A a \in States : states[a] # states'[n]
        /\ stack' = IF n \in States THEN stack ELSE Append(stack, n)
        /\ trans' = [(IF n \in States THEN trans ELSE Append(trans, Nothing))
                      EXCEPT ![cur] = Entered(@, x, n)]
  BY DispatchStates
<1>3. /\ States = 1 .. Len(states) /\ Len(states) \in Nat
      /\ \A a \in States : states[a] \in SUBSET AllItems(g)
  BY DEF TypeOK, States
<1>4. /\ x \in MovesOf(g, states[cur]) /\ x \in Symbols(g)
      /\ \A y \in DOMAIN fsb : y \in MovesOf(g, states[cur])
                              /\ fsb[y] = Moved(g, states[cur], y)
  BY <1>1, <1>3, MovesAreSymbols DEF KernelsWait
<1>5. /\ stack' \in Seq(States') /\ IsInjective(stack')
      /\ ToSet(stack') = ToSet(stack) \cup ({n} \ States)
  <2>1. stack \in Seq(States') /\ ToSet(stack) \subseteq States
    BY <1>2 DEF TypeOK, ToSet
  <2>2. CASE n \in States
    BY <1>2, <2>1, <2>2 DEF StackWaits
  <2>3. CASE n \notin States
    BY <1>2, <2>1, <2>3, PushAddsOne DEF StackWaits
  <2> QED BY <2>2, <2>3
<1>6. /\ trans' = [a \in States' |-> trans'[a]]
      /\ trans'[cur] = Entered(trans[cur], x, n)
      /\ \A a \in States \ {cur} : trans'[a] = trans[a]
      /\ n \notin States => trans'[n] = Nothing
  <2> DEFINE T == {trans[a] : a \in States} \cup {Nothing}
  <2>0. trans \in [1 .. Len(states) -> T]
    BY <1>3 DEF TransitionsRight
  <2>1. Nothing \in T
    OBVIOUS
  <2> HIDE DEF T
  <2>2. CASE n \in States
    BY <1>1, <1>2, <1>3, <2>2 DEF TransitionsRight
  <2>3. CASE n \notin States
    <3> DEFINE grown == Append(trans, Nothing)
    <3>1. trans \in Seq(T) /\ Len(trans) = Len(states)
      BY <1>3, <2>0
    <3>2. /\ grown \in Seq(T) /\ Len(grown) = Len(states) + 1
          /\ \A a \in 1 .. Len(states) : grown[a] = trans[a]
          /\ grown[Len(states) + 1] = Nothing
      BY <2>1, <3>1
    <3> HIDE DEF grown
    <3>3. /\ grown = [a \in States' |-> grown[a]]
          /\ \A a \in States : grown[a] = trans[a]
          /\ grown[n] = Nothing
      <4>1. States' = 1 .. Len(states) + 1
        BY <1>2, <1>3, <2>3
      <4>2. grown \in [1 .. Len(states) + 1 -> T]
        BY <3>2
      <4> QED BY <1>2, <1>3, <2>3, <3>2, <4>1, <4>2
    <3>4. trans' = [grown EXCEPT ![cur] = Entered(@, x, n)]
      BY <1>2, <2>3 DEF grown
    <3> QED BY <1>1, <1>2, <2>3, <3>3, <3>4
  <2> QED BY <2>2, <2>3
<1>7. /\ DOMAIN trans'[cur] = DOMAIN trans[cur] \cup ({x} \ Combinations(g))
      /\ \A y \in DOMAIN trans'[cur] : trans'[cur][y] = IF y = x /\ x \notin Combinations(g)
                                                      THEN n ELSE trans[cur][y]
  BY <1>6 DEF Entered
<1>8. TypeOK'
  <2>1. DOMAIN trans' = States'
    BY <1>6
  <2>2. ASSUME NEW a \in States', NEW y \in DOMAIN trans'[a]
        PROVE  y \in Symbols(g) /\ trans'[a][y] \in States'
    <3>1. CASE a = cur
      <4>1. y = x \/ (y \in DOMAIN trans[cur] /\ trans'[cur][y] = trans[cur][y])
        BY <1>7, <2>2, <3>1
      <4>2. CASE y = x /\ trans'[cur][y] = n
        BY <1>2, <1>4, <3>1, <4>2
      <4>3. CASE y \in DOMAIN trans[cur] /\ trans'[cur][y] = trans[cur][y]
        BY <1>1, <1>2, <3>1, <4>3 DEF TypeOK
      <4> QED BY <1>7, <2>2, <3>1, <4>1, <4>2, <4>3
    <3>2. CASE a # cur /\ a \in States
      BY <1>2, <1>6, <2>2, <3>2 DEF TypeOK
    <3>3. CASE a # cur /\ a \notin States
      BY <1>2, <1>6, <2>2, <3>3 DEF Nothing
    <3> QED BY <3>1, <3>2, <3>3
  <2>3. \A y \in DOMAIN fsb' : fsb'[y] \subseteq AllItems(g)
    BY <1>1 DEF TypeOK
  <2> QED BY <1>1, <1>2, <1>5, <2>1, <2>2, <2>3 DEF TypeOK
<1>9. StatesReached'
  <2>1. 1 \in States' /\ states'[1] = ClosureOf(g, Alternatives(g, g.start))
    BY <1>2 DEF StatesReached
  <2>2. ASSUME NEW b \in States' \ {1}
        PROVE  \E a \in 1 .. b - 1 : \E y \in MovesOf(g, states'[a]) :
                  states'[b] = Goto(g, states'[a], y)
    <3>1. CASE b \in States
      <4>1. PICK a \in 1 .. b - 1 : \E y \in MovesOf(g, states[a]) :
                  states[b] = Goto(g, states[a], y)
        BY <3>1, <2>2 DEF StatesReached
      <4>2. a \in States
        BY <1>3, <3>1
      <4> QED BY <1>2, <3>1, <4>1, <4>2
    <3>2. CASE b \notin States
      <4>1. b = n /\ cur \in 1 .. b - 1
        BY <1>1, <1>2, <1>3, <3>2
      <4> QED BY <1>1, <1>2, <1>4, <4>1
    <3> QED BY <3>1, <3>2
  <2> QED BY <1>1, <2>1, <2>2 DEF StatesReached
<1>10. StatesDistinct'
  BY <1>2 DEF StatesDistinct
<1>11. TransitionsRight'
  <2> SUFFICES ASSUME NEW a \in States', NEW y \in DOMAIN trans'[a]
               PROVE  /\ y \in MovesOf(g, states'[a])
                      /\ trans'[a][y] \in States'
                      /\ states'[trans'[a][y]] = Goto(g, states'[a], y)
    BY <1>1, <1>6 DEF TransitionsRight
  <2>1. CASE a = cur /\ y = x /\ x \notin Combinations(g)
    <3>1. trans'[a][y] = n /\ states'[a] = states[cur]
      BY <1>1, <1>2, <1>7, <2>1
    <3> QED BY <1>2, <1>4, <2>1, <3>1
  <2>2. CASE a = cur /\ ~(y = x /\ x \notin Combinations(g))
    <3>1. y \in DOMAIN trans[cur] /\ trans'[cur][y] = trans[cur][y]
      BY <1>7, <2>2
    <3> QED BY <1>1, <1>2, <2>2, <3>1 DEF TransitionsRight
  <2>3. CASE a # cur /\ a \in States
    BY <1>2, <1>6, <2>3 DEF TransitionsRight
  <2>4. CASE a # cur /\ a \notin States
    BY <1>2, <1>6, <2>4 DEF Nothing
  <2> QED BY <2>1, <2>2, <2>3, <2>4
<1>12. StackWaits'
  <2>1. ToSet(stack) \subseteq States
    BY DEF TypeOK, ToSet
  <2>2. ASSUME NEW a \in ToSet(stack') PROVE DOMAIN trans'[a] = {} /\ a # cur
    <3>1. CASE a \in ToSet(stack)
      BY <1>6, <2>1, <3>1 DEF StackWaits
    <3>2. CASE a \notin ToSet(stack)
      BY <1>1, <1>5, <1>6, <2>2, <3>2 DEF Nothing
    <3> QED BY <3>1, <3>2
  <2> QED BY <1>1, <1>5, <2>2 DEF StackWaits
<1>13. KernelsWait'
  BY <1>1, <1>2, <1>4 DEF KernelsWait
<1>14. Explored'
  <2> SUFFICES ASSUME NEW a \in States' \ ToSet(stack')
               PROVE  /\ DOMAIN trans'[a] = Dispatched(a)' \ Combinations(g)
                      /\ \A y \in Dispatched(a)' :
                           \E b \in States' : states'[b] = Goto(g, states'[a], y)
    BY <1>1 DEF Explored
  <2>1. a \in States \ ToSet(stack) /\ states'[a] = states[a]
    BY <1>2, <1>5
  <2>2. /\ DOMAIN trans[a] = Dispatched(a) \ Combinations(g)
        /\ \A y \in Dispatched(a) :
             \E b \in States : states[b] = Goto(g, states[a], y)
    BY <2>1 DEF Explored
  <2>3. CASE a = cur
    <3>1. Dispatched(a)' = Dispatched(a) \cup {x}
      BY <1>1, <1>4, <2>1, <2>3 DEF Dispatched
    <3>2. DOMAIN trans'[a] = Dispatched(a)' \ Combinations(g)
      BY <1>7, <2>2, <2>3, <3>1
    <3>3. ASSUME NEW y \in Dispatched(a)'
          PROVE  \E b \in States' : states'[b] = Goto(g, states'[a], y)
      <4>1. CASE y = x
        BY <1>2, <2>1, <2>3, <4>1
      <4>2. CASE y # x
        <5>1. PICK b \in States : states[b] = Goto(g, states[a], y)
          BY <2>2, <3>1, <3>3, <4>2
        <5> QED BY <1>2, <2>1, <5>1
      <4> QED BY <4>1, <4>2
    <3> QED BY <3>2, <3>3
  <2>4. CASE a # cur
    <3>1. Dispatched(a)' = Dispatched(a)
      BY <1>1, <2>1, <2>4 DEF Dispatched
    <3> QED BY <1>2, <1>6, <2>1, <2>2, <2>4, <3>1
  <2> QED BY <2>3, <2>4
<1> QED BY <1>8, <1>9, <1>10, <1>11, <1>12, <1>13, <1>14

LEMMA NextIInv == IInv /\ [Next]_vars => IInv'
<1> SUFFICES ASSUME IInv, [Next]_vars PROVE IInv'
  OBVIOUS
<1>1. CASE PopState
  BY <1>1, PopIInv
<1>2. ASSUME NEW x \in DOMAIN fsb, Dispatch(x) PROVE IInv'
  BY <1>2, DispatchIInv
<1>3. CASE UNCHANGED vars
  <2>1. UNCHANGED <<g, states, trans, stack, cur, fsb>> /\ States' = States
    BY <1>3 DEF vars, States
  <2>2. TypeOK'
    BY <2>1 DEF IInv, TypeOK
  <2>3. StatesReached' /\ StatesDistinct' /\ TransitionsRight'
    BY <2>1 DEF IInv, StatesReached, StatesDistinct, TransitionsRight
  <2>4. StackWaits' /\ KernelsWait'
    BY <2>1 DEF IInv, StackWaits, KernelsWait
  <2>5. Explored'
    <3>1. \A a : Dispatched(a)' = Dispatched(a)
      BY <2>1 DEF Dispatched
    <3> QED BY <2>1, <3>1 DEF IInv, Explored
  <2> QED BY <2>2, <2>3, <2>4, <2>5 DEF IInv
<1> QED BY <1>1, <1>2, <1>3 DEF Next

LEMMA Invariance == Spec => []IInv
BY InitIInv, NextIInv, PTL DEF Spec
-----------------------------------------------------------------------------
(***************************************************************************)
(* Every table the construction goes through is well formed: states are    *)
(* sets of items of the grammar, and transitions and the stack refer to    *)
(* states that exist (lr.h:562-595).                                       *)
(***************************************************************************)
THEOREM TypeCorrect == Spec => []TypeOK
BY Invariance, PTL DEF IInv

(***************************************************************************)
(* At every moment of the construction, and not at its end only, every     *)
(* transition leads to the one state its symbol calls for: items_commit    *)
(* never makes a second copy of a state (lr.h:430-450).                    *)
(***************************************************************************)
THEOREM TransitionsAreExact == Spec => []TransitionsExact
<1>1. IInv => TransitionsExact
  BY DEF IInv, TransitionsExact, TransitionsRight, StatesDistinct, TypeOK
<1> QED BY <1>1, Invariance, PTL

(***************************************************************************)
(* All transitions into a state are over one symbol, which is what lets    *)
(* merge_active put the paths of two nodes of one state together.          *)
(***************************************************************************)
THEOREM StatesHaveOneSymbol == Spec => []OneSymbolIn
<1>1. ASSUME IInv, NEW a \in States, NEW b \in States,
             NEW x \in DOMAIN trans[a], NEW y \in DOMAIN trans[b],
             trans[a][x] = trans[b][y]
      PROVE  x = y
  <2>1. /\ IsGrammar(g)
        /\ states[a] \in SUBSET AllItems(g) /\ states[b] \in SUBSET AllItems(g)
    BY <1>1, GrammarsAssumption DEF IInv, TypeOK, States
  <2>2. /\ x \in MovesOf(g, states[a]) /\ y \in MovesOf(g, states[b])
        /\ Goto(g, states[a], x) = Goto(g, states[b], y)
    BY <1>1 DEF IInv, TransitionsRight
  <2> QED BY <2>1, <2>2, OneSymbolToGoto
<1>2. IInv => OneSymbolIn
  BY <1>1 DEF OneSymbolIn
<1> QED BY <1>2, Invariance, PTL

LEMMA BuiltIsCanonical == IInv /\ Built => IsCanonical(g, states, trans)
<1> SUFFICES ASSUME IInv, Built PROVE IsCanonical(g, states, trans)
  OBVIOUS
<1>1. ToSet(stack) = {} /\ DOMAIN fsb = {}
  BY DEF Built, Nothing, ToSet
<1>2. \A a \in States : Dispatched(a) = MovesOf(g, states[a])
  BY <1>1 DEF Dispatched
<1> QED BY <1>1, <1>2
        DEF IInv, IsCanonical, StatesReached, TransitionsRight, Explored, States

(***************************************************************************)
(* When the stack of states is used up the automaton is the canonical one: *)
(* no state and no transition is missing, and none is there that the start *)
(* rule does not lead to.                                                  *)
(***************************************************************************)
THEOREM AutomatonIsCanonical == Spec => []Canonical
<1>1. IInv => Canonical
  BY BuiltIsCanonical DEF Canonical
<1> QED BY <1>1, Invariance, PTL

-----------------------------------------------------------------------------
(***************************************************************************)
(* The walk over a right-hand side, which is recursive, one step at a time.*)
(***************************************************************************)
StepOf(b, x) == IF b # 0 /\ x \in DOMAIN trans[b] THEN trans[b][x] ELSE 0

IsWalk(a, r, w) ==
  w = [k \in 0 .. Len(r) |-> IF k = 0 THEN a ELSE StepOf(w[k - 1], Rewritten(g, r[k]))]

LEMMA WalkSteps ==
  ASSUME TypeOK, NEW a \in States, NEW r, Len(r) \in Nat
  PROVE  IsWalk(a, r, Walk(a, r))
<1>1. Walk(a, r) = CHOOSE w : IsWalk(a, r, w)
  BY DEF Walk, IsWalk, StepOf
<1>2. PICK n \in Nat : n = Len(r)
  OBVIOUS
<1>3. PICK V : V = States \cup {0}
  OBVIOUS
<1> DEFINE given == [k \in {0} |-> a]
           prior == [k \in 1 .. n |-> k - 1]
           step  == [k \in 1 .. n |-> [b \in V |-> StepOf(b, Rewritten(g, r[k]))]]
<1>4. 0 .. n \in SUBSET Nat /\ {0} \in SUBSET (0 .. n) /\ (0 .. n) \ {0} = 1 .. n
  OBVIOUS
<1>5. given \in [{0} -> V]
  BY <1>3
<1>6. prior \in [1 .. n -> 0 .. n] /\ \A k \in 1 .. n : prior[k] < k
  OBVIOUS
<1>7. step \in [1 .. n -> [V -> V]]
  <2>1. ASSUME NEW b \in V, NEW x PROVE StepOf(b, x) \in V
    BY <1>3 DEF StepOf, TypeOK
  <2> QED BY <2>1
<1>8. PICK w \in [0 .. n -> V] : Recursion(0 .. n, given, prior, step, w)
  <2> HIDE DEF given, prior, step
  <2>1. /\ given \in [{0} -> V] /\ prior \in [(0 .. n) \ {0} -> 0 .. n]
        /\ (\A k \in (0 .. n) \ {0} : prior[k] < k) /\ step \in [(0 .. n) \ {0} -> [V -> V]]
    BY <1>4, <1>5, <1>6, <1>7
  <2> QED BY <1>4, <2>1, RecursionExists
<1>9. ASSUME NEW k \in 0 .. n
      PROVE  w[k] = IF k = 0 THEN a ELSE StepOf(w[k - 1], Rewritten(g, r[k]))
  <2>1. w[k] = IF k \in DOMAIN given THEN given[k] ELSE step[k][w[prior[k]]]
    BY <1>8 DEF Recursion
  <2>2. CASE k = 0
    BY <2>1, <2>2
  <2>3. CASE k # 0
    <3>1. k \in 1 .. n /\ k - 1 \in 0 .. n
      BY <2>3
    <3>2. w[k - 1] \in V
      BY <1>8, <3>1
    <3> QED BY <2>1, <2>3, <3>1, <3>2
  <2> QED BY <2>2, <2>3
<1>10. w = [k \in 0 .. n |-> w[k]]
  BY <1>8
<1>11. IsWalk(a, r, w)
  BY <1>2, <1>9, <1>10 DEF IsWalk
<1> QED BY <1>1, <1>11

LEMMA WalkLands ==
  ASSUME IInv, Built, NoDeadItems(g), IsCanonical(g, states, trans),
         NEW a \in States, NEW i \in states[a], AtStart(i), NEW w, w = Walk(a, i.rhs),
         NEW k \in 0 .. Len(i.rhs)
  PROVE  w[k] # 0 /\ [i EXCEPT !.dot = k] \in states[w[k]]
<1> DEFINE Lands == { m \in 0 .. Len(i.rhs) : w[m] \in States /\ [i EXCEPT !.dot = m] \in states[w[m]] }
<1>1. IsGrammar(g) /\ TypeOK /\ \A b \in States : states[b] \subseteq AllItems(g) /\ b \in Nat /\ b # 0
  BY GrammarsAssumption, LenProperties DEF IInv, TypeOK, States
<1>2. /\ i \in AllItems(g) /\ i = [lhs |-> i.lhs, rhs |-> i.rhs, dot |-> i.dot]
      /\ i.rhs \in Seq(Symbols(g)) /\ Len(i.rhs) \in Nat /\ i.dot = 0
  BY <1>1, ItemShape, LenProperties DEF AtStart
<1>3. IsWalk(a, i.rhs, w)
  BY <1>1, <1>2, WalkSteps
<1>4. \A m \in 0 .. Len(i.rhs) : w[m] = IF m = 0 THEN a ELSE StepOf(w[m - 1], Rewritten(g, i.rhs[m]))
  BY <1>3 DEF IsWalk
<1>5. ASSUME NEW m \in Nat, m \in 0 .. Len(i.rhs), \A l \in Nat : l < m => (l \in 0 .. Len(i.rhs) => l \in Lands)
      PROVE  m \in Lands
  <2>1. CASE m = 0
    <3>1. [i EXCEPT !.dot = 0] = i
      BY <1>2
    <3> QED BY <1>2, <1>4, <2>1, <3>1
  <2>2. CASE m # 0
    <3>1. PICK l \in Nat : m = l + 1 /\ l < Len(i.rhs)
      <4>1. m - 1 \in Nat /\ m = (m - 1) + 1 /\ m - 1 < Len(i.rhs)
        BY <1>2, <1>5, <2>2
      <4> QED BY <4>1
    <3>2. l \in Lands /\ l \in 0 .. Len(i.rhs)
      BY <1>2, <1>5, <3>1, SMTT(30)
    <3>3. PICK b, j : b = w[l] /\ j = [i EXCEPT !.dot = l]
      OBVIOUS
    <3>4. b \in States /\ j \in states[b]
      BY <3>2, <3>3
    <3>5. /\ j.lhs = i.lhs /\ j.rhs = i.rhs /\ j.dot = l
          /\ Advance(j) = [i EXCEPT !.dot = m]
      <4>1. j = [lhs |-> i.lhs, rhs |-> i.rhs, dot |-> l]
        BY <1>2, <3>3
      <4>2. Advance(j) = [lhs |-> i.lhs, rhs |-> i.rhs, dot |-> m]
        BY <3>1, <4>1 DEF Advance
      <4>3. [i EXCEPT !.dot = m] = [lhs |-> i.lhs, rhs |-> i.rhs, dot |-> m]
        BY <1>2
      <4> QED BY <4>1, <4>2, <4>3
    <3>6. ~AtEnd(j) /\ Symbol(j) = i.rhs[m]
      <4>1. l # Len(i.rhs)
        BY <1>2, <3>1
      <4> QED BY <3>1, <3>5, <4>1 DEF AtEnd, Symbol
    <3>7. PICK x : x = Rewritten(g, i.rhs[m])
      OBVIOUS
    <3>8. x \in DOMAIN trans[b] /\ Advance(j) \in states[trans[b][x]]
      BY <1>1, <3>4, <3>6, <3>7, ItemMoves DEF States
    <3>9. w[m] = trans[b][x]
      <4>1. w[m - 1] = b
        BY <3>1, <3>3
      <4>2. w[m] = StepOf(b, x)
        BY <1>4, <1>5, <2>2, <3>7, <4>1
      <4> QED BY <1>1, <3>4, <3>8, <4>2 DEF StepOf
    <3>10. trans[b][x] \in States
      BY <1>1, <3>4, <3>8 DEF TypeOK
    <3> QED BY <1>5, <3>5, <3>8, <3>9, <3>10
  <2> QED BY <2>1, <2>2
<1>6. \A m \in Nat : m \in 0 .. Len(i.rhs) => m \in Lands
  <2> HIDE DEF Lands
  <2> DEFINE S == { m \in Nat : m \in 0 .. Len(i.rhs) => m \in Lands }
  <2>1. \A m \in Nat : (\A l \in Nat : l < m => l \in S) => m \in S
    BY <1>5
  <2> HIDE DEF S
  <2>2. Nat \subseteq S
    BY <2>1, SetInduction
  <2> QED BY <2>2 DEF S
<1>7. k \in Nat
  BY <1>2
<1>8. k \in Lands
  <2> HIDE DEF Lands
  <2> QED BY <1>6, <1>7
<1> QED BY <1>1, <1>8

(***************************************************************************)
(* reduce_all and do_reduction (lr_gss.h:285-400): the state a way back    *)
(* ends in has a transition over the tag of the rule reduced, and the path *)
(* the items were moved over leads to the end of the rule; whatever the    *)
(* grammar, if it has no dead items.                                       *)
(***************************************************************************)
THEOREM EveryReductionLands == Spec => []ReductionsLand
<1>1. ASSUME IInv, Built, NoDeadItems(g), NEW a \in States, NEW i \in states[a], AtStart(i),
             i.lhs # g.start
      PROVE  i.lhs \in DOMAIN trans[a]
  <2>1. /\ IsGrammar(g) /\ IsCanonical(g, states, trans)
        /\ \A b \in States : /\ states[b] \subseteq AllItems(g) /\ b \in Nat
                             /\ \A c \in 1 .. b - 1 : c \in States
    <3>1. states \in Seq(SUBSET AllItems(g)) /\ IsGrammar(g)
      BY <1>1, GrammarsAssumption DEF IInv, TypeOK
    <3>2. States = 1 .. Len(states) /\ Len(states) \in Nat
      BY <3>1, LenProperties DEF States
    <3> QED BY <1>1, <3>1, <3>2, BuiltIsCanonical DEF States
  <2> QED BY <1>1, <2>1, RuleLands DEF States
<1>2. IInv => ReductionsLand
  BY <1>1, BuiltIsCanonical, WalkLands DEF ReductionsLand
<1> QED BY <1>2, Invariance, PTL
=============================================================================
