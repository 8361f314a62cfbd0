# tinyap in TLA+

tinyap ("this is not yet another parser") is a library, in C and C++, that
parses a text with a grammar given at run time and returns a tree. The grammar
is itself parsed by tinyap; a rule may be left-recursive or ambiguous; with
*full parse* the caller gets every tree. The live code is what
`src/src/Makefile` builds. `attic/` and three files of `src/src`
(`lr_gss.cc`, `ast.c`, `string_registry.c`) belong to an earlier version and
are not compiled.

This directory holds a model of tinyap: how a grammar is built from its tree, the
construction of the LR(0) automaton and the generalised LR parser that runs it
over a graph-structured stack, which together decide what tinyap answers; the stores
under them; and what a program does with them, from the session to the text that is
written back from a tree. Line numbers below refer to `src/src`.

## Inventory

| part | code | state it keeps | operations | status |
|---|---|---|---|---|
| grammar, items, rewriting of combinations | `lr_grammar.h`, `lr.cc`, `lr_visitors.h` | rules by tag, items cached by AST | `from_ast`, `add_rule`, `commit`, the constructor | modelled but for some tokens |
| closure of a set of items | `lr.h:385-420` | worklist, result; the grammar grows | `closure` | modelled, proved |
| LR(0) automaton | `lr.h:423-595` | states, transitions, stack of states | `items` | modelled, proved |
| recognizers | `lr_grammar.h:280-600` | bags of words | `recognize`, `skip` | a token is a set of words |
| tokenizer | `tokenizer.h` | tokens asked for, their results | `init`, `consume` | modelled |
| graph-structured stack (GSS) | `lr_gss.h` | nodes, active list, pending reductions | `shift`, `reduce_all`, `flush`, `merge_active` | modelled but for the release of nodes |
| parse loop | `lr.h:606-762` | offset, accepted tree | `parse` | modelled |
| AST registry | `ast.cc:69-174`, `ast.h:258-278` | hash-consed pairs and atoms with counts | `make_pair`, `make_atom`, `ref`, `unref`, assignment of an `Ast` | modelled |
| string registry | `string_registry.cc` | strings with counts | `regstr`, `unregstr` | modelled, with the AST registry |
| trie, bags of words | `trie.cc` | radix tree | `trie_insert`, `trie_match`, `trie_match_prefix`, `trie_free` | modelled |
| hash table | `hashtab.h` | buckets | `hash_addelem`, `hash_find`, iterator, `clean_hashtab` | modelled, with the walker |
| pool allocator | `tinyap_alloc.cc` | blocks and free lists | `alloc`, `free` | not in the program (`USE_MALLOC`) |
| session (facade) | `tinyap.cc`, `tinyap.h` | grammar, automaton, buffer, output, error | `set_*`, `parse`, `get_*` | modelled but for plugs and accessors |
| position cache | `tinyap.cc:76-153` | offsets of the lines found | `position_of`, `reset` | modelled |
| walker and pilots | `walker.c`, `pilot_manager.c`, `stack.h` | two operand stacks, pilots and methods loaded | `tinyap_walk`, `tinyap_terminate` | modelled |
| walkable AST | `walkableast.c` | parent/child tree, cursor | `make_wast`, `wi_up`, `wi_down`, `wi_next` | modelled |
| unparser | `unparser.cc` | buffer, place in the tree, blacklists, indentation | `tinyap_unparse` | modelled but for escapes |
| serialization | `serialize.c`, `serialize.h` | bytes | `ast_serialize`, `ast_unserialize` | modelled but for offsets |
| command line | `main.cc` | | the options of `do_args` | as the callers of session and unparser |
| comparators | `lr_less_than.h`, `lr_equal_to.h` | none | `less_than`, `equal_to` | not modelled |
| token utilities, tests, bootstrap | `token_utils.c`, `test.cc`, `bootstrap.c`, ... | none | | not modelled |

How the parts meet: a session hands the AST of a grammar to `Grammar`, which
makes items and rules of it, and keeps the automaton until the grammar is replaced. `automaton::items` turns them into states, calling
`closure` for each; `closure` calls visitors that *add rules to the grammar*
for the combinations (repetitions, prefixes, ...) they meet. `parse` then makes
passes: the tokenizer asks the active GSS nodes what tokens they wait for and
consumes the longest; each node that was active shifts and reduces; the
reductions are flushed; nodes that coincide are merged. Trees are lists in the
AST registry, shared by hash-consing and counted by hand, so that the GSS, the
pending reductions and the accepted tree are owners of the same objects. A program takes the
tree that was parsed and walks it, writes it to a file, makes it the grammar, or has it
written as text again by `tinyap_unparse`, with a grammar that is a tree like any other.

The library is sequential: nothing runs concurrently and nothing is persisted.
What is hard in it comes from elsewhere. Structures change while they are
iterated over (the grammar in `closure`, the active list in `parse`).
Containers are ordered by addresses, or by an order that is none, so the order
of steps is not the programmer's. Lists have several owners and manual counts.
A single offset serves nodes that have consumed different amounts of text. What is made
lazily or cached (the automaton, items, positions, methods) has to be dropped when what it was
made of changes. The unparser backtracks over a buffer, a cursor and static variables. And
termination rests on the shape of the grammar. `PROJECT.json` lists each of
these hazards at its line with the properties that watch it.

## Modules

### The grammar

* **`GrammarItems`** has `from_ast` (`Item`), the two rewriters (`Nt`, `AlternativesOf`), `contents`
  (`Body`) and `commit` (`Brings`, `Commits`) as operators on the tree of a grammar. An item is
  named by the node it is made of, as in the cache; the `Nt` of a combination, an `auto_tag`
  in the code, by the item.
* **`GrammarBuild`** is the constructor of `Grammar`, a turn of its loop being an action; the cache
  of items outlives it, and `Again` makes another grammar. Its `Value` is what `LRGrammar` describes:
  the input of closure and automaton. `Meaning` is the reference: the words a tree stands for.
  `MCGrammarBuild` also checks that the sample grammars with combinations, by which the automaton and
  the parser are checked, are what the constructor makes of the source given beside them.

### The automaton

* **`LRGrammar`** is about a grammar as a value: rules, alternatives, items, the
  rules a combination commits, and what an item moves on. `Predicted` is what
  an item calls for, `Closed` and `ClosureOf` the closure, as a definition and
  not as an algorithm. A combination is a symbol whose entry in `wraps` says
  what `item_rewriter` turns it into (`tag`), the rules its `commit()` adds, and
  what `token_filter` makes of it: `Seq` and `Prefix` inside a sequence are
  treated otherwise than repetitions there (`lr_visitors.h:260-278`).
* **`LRClosure`** is `automaton::closure`, a turn of its `while` loop and a turn
  of the loop over the variants of a rule being an action each. `known` is the
  Grammar map as it grows. An item whose rule is not known yet is skipped for
  good, as in the code ("couldn't find rule", `lr.h:402`).
* **`ClosureSpec`** is what closure promises: add predicted items in any order,
  return a closed set. `LRClosure` implements it (`Implements`), with the
  identity as the refinement mapping.
* **`LRAutomaton`** is `automaton::items`: `PopState` takes the last state pushed
  and lists its kernels; `Dispatch(x)` is the inner loop's body for one of them,
  in any order, since the loop runs over an `unordered_map` keyed by pointers.
  It uses `ClosureOf` for the call of `closure`, which `LRClosure_proofs`
  justifies (`ClosureReturnsClosureOf`).
* **`LRTables`** has the automaton as a value, for the parser to run, and
  `IsCanonical`, by which both that value (`TablesAreCanonical`) and the automaton that `LRAutomaton`
  builds (`AutomatonIsCanonical`) are judged, and proved to be right.

### The parser

* **`Tokenizer`**: `Consumed` and `Results` are `tokenizer::consume`. A token is a
  finite set of words, which stands for the literal, the bag or the regular
  expression; the blanks after a token are skipped.
* **`GSS`**: nodes, the ways back from a node (`Paths`), the merge of nodes, and the
  ownership of lists. An AST node of the code, which lies between two state
  nodes, is here an edge. `merge_active` uses a `std::set` whose comparison is
  not a strict weak order (`lr_gss.h:444-453`): with three nodes or more in the
  set that are not all of one symbol, a node's twin may be missed (`MayMiss`). `Kept` is every set of nodes it may
  keep, `Missed` says that a twin was.
* **`GLRParse`** is one call of `automaton::parse`. `BeginPass` is the top of the
  outer loop, with the tokenizer; `TakeNode` shifts for the next node of the
  pass; `ReduceEpsilon` and `ReducePaths` are `reduce_all` for one item;
  `FlushGoto` and `FlushInitial` are `do_reduction`; `Free` is what
  `pending_reductions.clear()` frees; `Merge` is `merge_active` and the end of
  the turn. `Break` is where the code throws, dereferences a null state or
  reads a freed list; nothing is claimed from there on. `overlooked` is a history variable: `merge_active` has
  missed a twin in this call. Tokens of one class and
  reductions of one state are taken in any order, since their containers are
  ordered by address.
  `Reduced` (`ReducedAt` the offset) is what a rule makes of its list; of a `Prefix` or `Postfix` it is what
  `pfx_extract` leaves.
* **`ParseTrees`** is the reference: the readings of a text, from the rules alone,
  with no automaton and no stack.
* **`GLRCorrect`** compares the answers of `GLRParse` with those readings.

Two details of the code are worth knowing when reading `GLRParse`, since the
results below depend on them. The offset moves when the tokens of the pass are
consumed, *before* the nodes of the pass reduce, so that a reduction is done at
the new offset (`lr.h:645`, `693`). And the start rule, when reduced elsewhere than at
the end of the text, unrefs a list it did not ref (`lr_gss.h:380`): `excess` counts
these, and a list goes when its owners are no more than its excess.

The answers of `GLRParse`, offsets in the tree included, were compared with those of the
compiled library on 1624 calls (ten grammars, every text of up to four
characters, full and plain parse); they agree on all of them.

### The stores under the parser

* **`AstTrees`** is what the AST registry promises: a handle (an `Ast` in a `std::vector`, a
  session, a GSS node) has a tree, as if it were a value of its own.
* **`AstRegistry`** is the registry: nodes at addresses, the two maps that find a node by its
  contents, the counts, and the string registry. `NewAtom` and `NewPair` find or make a node;
  `Assign` and `Assigned` are the two halves of `Ast::operator=`; between them runs `unref`, a call of it
  being an action, with what is left of the callers in the stack `calls`. An address that was
  freed is reused, so that a count, a map entry or a handle left behind meets another node there.
  `Assign` requires that the handle's new node is not kept by its old tree only
  (`KeptWithout`): `operator=` lets go of the old node first (`ast.h:269`). `newAtom` takes a
  reference to its string on every call and gives back one per node: strings stay too
  long, never too short (`StringsHeld`).
* **`Trie`** is the radix tree: an action per turn of the loops of `trie_insert`, the two
  look-ups as operators on the tree as it stands.

### What a program does with a tree

* **`Session`** is the parser a program holds: the grammar, the automaton made of it when it is first
  needed, the source and its cache, the last output. Its actions are the options of `do_args`, in any
  order and any number. What a parse answers is left to `GLRParse`: here it is any tree or none, at any
  offset, a tree only at the end.
* **`PosCache`** is the table of line starts: `position_of` has each outcome a search can have, a
  lost pointer (`strchr` finding nothing) and an entry past the end being free values; `ErrorPlace` is the other
  way a place is found, in `parse`.
* **`Serialize`** is writing and reading of a tree, by characters, since the escapes are what it is about.
* **`WalkableAst`** is a tree with its operands and fathers; **`WastIterator`** makes one of a tree
  (`make_wast`) and has the moves of the iterator.
* **`Unparser`** is `tinyap_unparse`: `unproduce` and `unproduce_rule` as operators from one place of an
  unproduction to another, with the buffer (whose bytes after a restored size stay), the iterator over the
  tree and the static variables, which the next call finds as they were left.
* **`UnparseCorrect`** is the reference: the pairs of a text and a tree that a grammar derives, without an
  iterator or a buffer.
* **`TreeWalks`** says where a walk goes, in terms of the tree and with no stacks: where the next visit is
  after each answer (`Down`: first operand; `Next`: next sibling, or on from the father; `Up`: on from the father),
  in nested walks. It is the rule of the code, which for `Up` is not that of the documents (see *The walk* below).
* **`Walker`** is `walk` with its two stacks. `CaseDown`, `CaseNext` and `CaseUp` are the cases of its
  `switch`, which run on into one another; `next` keeps its value from one turn to the next, as in
  the code. `Start` and `WalkOperand` are `do_walk` called by a program and by a method;
  `Answer`, and which operands a method walks, are the pilot's and free. The cache of pilots and
  the methods of each are hash tables, rows being chains. `new_pilot` opens the library of a pilot that is not in the cache.
  `Restart` is `tinyap_terminate` and `tinyap_init`: `term_pilot_manager` closes the libraries of the pilots that
  the iterator of the hash table finds, and empties the cache (`clean_hashtab`). `opens` counts, for each library, the
  `dlopen`s without a `dlclose`; `requested` and `forgotten` are history variables, which say for which pilots was asked since
  `tinyap_init`, and how often a pilot was overtaken in its row before a restart. Pilots are known ones, have a library
  each and a default method.

### Instances

`SampleGrammars` holds the grammars, each with its source in tinyap's notation; two
are from the repository's tests and tutorial. `MCLRClosure`, `MCLRAutomaton`, `MCGrammarBuild`
and `MCGLRCorrect` choose among them; the other MC modules have their own instances.

## Runs

| run | question | bounds | result |
|---|---|---|---|
| `closure` | Does `closure` return the least closed set, whichever rules were known, and end? | 9 grammars, every kernel of at most `MaxSeed` = 2 items and every set of committed combinations | holds |
| `automaton` | Is the automaton canonical, whatever the order of the map? Do reductions land? Does the construction end? | 10 grammars, all orders | holds |
| `build` | Does a grammar come with every rule it uses, and read what its tree means? Does a second one from the same tree? | trees over every combination of combinations, up to three deep, rules in three orders; `MaxGrammars` = 2, words up to `MaxWord` = 3 | holds |
| `parse` | Does the stack stay in order and every call end? Are the answers the readings of the text? | 15 grammars, every text up to `MaxLen` = 3 (4 for seven of them), both modes | holds |
| `full_parse_loses` | Does full parse find every tree of a repetition? | one call | **violated** |
| `left_recursion` | Does the tutorial's left-recursive rule work? | one call | **violated** |
| `registry` | Are counts, maps and strings in step, whatever is made, assigned and dropped? Is the registry transparent (`AstTrees`)? | 3 addresses, 2 handles, 1 word at 2 offsets, `MaxCount` = 2 references to a string | holds |
| `session` | In any order of requests: is the automaton the grammar's, the cache the text's, the place of an error right, a written tree read back? | 5 texts with line ends of every sort, one of 5 lines; 1 tree with every character that the context of a tree escapes; calls without bound | holds |
| `unparse` | Is what is written a text of the tree? Does a failed choice leave anything behind? | 11 grammars, trees of texts up to `MaxText` = 7 words, `MaxRules` = 6 deep, `MaxCalls` = 2 | holds |
| `walk` | Do nested walks keep their stacks in step, call the right methods, go where `TreeWalks` says, and end? How often is a library opened, and which ones does a restart leave open? | 4 trees of up to 5 nodes, 2 pilots, 2 labels, one row of each hash table for all, `MaxOpens` = 2 | holds |
| `trie` | Is nothing invented, nothing lost once found, and the longest word found? | words of at most 3 letters over 2, `MaxInserts` = 4 | holds |
| `trie_loses` | Is each word inserted found? | the same | **violated** |

*Bounds.* The sample grammars have each of the shapes that the code tells apart:
left and right recursion, recursion hidden behind an empty rule, mutual
recursion through an undefined rule, a cycle, repetition, nested options,
`Prefix` and `Postfix`, `Seq` inside `Seq`, and tokens of the three classes that match one word. In `closure` two items in a
kernel are enough for one to be processed before the rule of the other is
committed. In the parser, three characters give a node that is shifted, reduced,
merged and reduced through again; the merges with two and three twins and the
paths over several predecessors occur in `Doubling` and `LeftRecursive`, and in `Crowded` merges that
miss a twin and those that may take it away later, from among the nodes still to be taken.

*What `parse` claims of which grammar.* parse does not answer every grammar well, as the
violated runs show. The stack (`StackFollowsAutomaton`, `TokensAsked`) and the end of the call are judged
on all fifteen, until the call breaks if it does; what `TokensAsked` says of the nodes of a pass, and `StackFollowsAutomaton`
of the offsets, until a merge misses a twin. Soundness is claimed for the
twelve of `Sound`, completeness and that nothing breaks for the six of `Complete`: right recursion, nesting, a
left-recursive list closed by a token, an empty rule inside a sequence, `Prefix` and `Postfix`, and a
text with three readings. The others show what goes wrong, and where: with `left` and `double`, a full parse reads
a freed list (as in `left_recursion`); `rep` loses readings in a full parse, `late` in a plain one;
`opt`, an option in an option, accepts `cc` in a plain parse; `either` accepts a tree that covers a beginning of the text, when a
reduction is made beside the last shift; `lengths` loses a reading since the tokenizer keeps the longest match over *all*
active states (`tokenizer.h:54-66`); `unstarted` is the grammar whose start rule is empty.

*What `unparse` claims.* `NothingInvented` is about every grammar: what is written is, layout apart, a text the
grammar derives from the tree, or from the tree with some of its operands left out. `ReadsBack` is about the seven of `Faithful`, which between them use every
element but `RPL`; in `nests` the node of a `Prefix` has a `Prefix` of its own, so that the operand blacklisted for the outer one has
to come back. TLC shows why the other four are not among them: an optional element steps over a node
of the tree whether or not it wrote one (`unparser.cc:427`), so that the formatter of the tutorial (`tutorial.h:222-232`) writes
nothing at all; an alternative that begins like a longer one after it is taken, and the operands that
remain are lost; a repetition of a fixed word never ends; and a left-recursive rule inside a left-recursive rule loses
operands, since its end clears the blacklisted element of the one around it (`unparser.cc:319`).

*The grammar.* Combinations three deep have each rewriting inside each other; two grammars from one
tree meet everything a cache can hold of it. `MeaningKept` excepts, by name, sequences with something
no state moves on (`Movable`, `lr_visitors.h:260-278`) and a `Prefix` met again by a second
grammar (`Reused`): items are cached by AST (`lr.cc:72`) and a `Prefix` keeps the rule made for it
(`lr.cc:381-392`), so that the second grammar lacks the rules of its operand and parses nothing ("couldn't
find rule Alt_1 !" in the compiled library).

*The session.* `tinyap_set_source_buffer` leaves the cache with a pointer to a freed buffer
(`tinyap.cc:494`); the model asks it nothing then, and `TableOfLines` claims nothing but for source files.
`ErrorPlaceExact` is about the place `parse` prints, which counts from 1; the rows `position_of` answers, and `main.cc`
prints beside it, count from 0 or from 1 with the questions asked before, whereas `tinyap.h:137-142` has the rows and columns of an
error start at 1. That disagreement has no run; `TableOfLines` is about the table only.

*The walk.* Two things hold of the code that one might not expect of it, and the properties say so. A library stays open over a
restart if another pilot of its row was asked for after it, since the iterator of the hash table goes to the next row after
each entry (`hashtab.h:70-82`, `pilot_manager.c:86-91`); the next walk that asks for the pilot opens the library once more.
`OpensAccounted` says of every library how often it is open, for these reasons and no other. And `Up` goes on
past the father, to what follows it (`walker.c:79-87`, where the line that would visit the father is commented out), whereas
`tinyape.h:57` says "to father" and `tutorial.h:173` "to parent node": `Implements` shows that the walk goes by the rule of the
code, which `TreeWalks` states, and not that it goes by the documents. No run is spent on it: with the father for what follows an `Up` in
`TreeWalks`, TLC finds `Implements` violated by the first `Up` below the root.

*The stores.* Three nodes give a pair over a pair that shares its atom, and an address
that is freed and reused while handles and calls of `unref` are pending. There is no symmetry,
since `registry` checks temporal properties. Words of
three letters over two are enough to split a node that was the tail of a split, with
siblings; four insertions give each of the orders of the words that begin one another.

*Fairness.* The library is one thread that does not stop between two steps: weak
fairness of the steps of the call under way is all that is assumed, and only for
`Terminates`, `AssignmentsEnd`, `InsertionsEnd` and `WalksEnd` (which thus supposes that methods return); nothing makes a user call again. The parser's termination is claimed for grammars without cycles. On
`X = (NT X) | (T a)` the loop of `parse` need not end.

*`CHECK_DEADLOCK FALSE`.* Most specifications describe calls that return, after which nothing need happen. In `session`, which never
stops, deadlock is checked.

## What the violated runs show

All were reproduced with the compiled library.

* `full_parse_loses`: `X = (Seq (T a) (Rep0N (Alt (T a) (T b))) (T c))`, text `abc`: the empty
  repetition is reduced at the offset after the token just consumed beside it, and the branch
  that is right is lost with it. A full parse answers nothing, a plain one finds the tree.
* `trie_loses`: `trie_insert` marks no word that ends inside a radix or at an inner node already there
  (`trie.cc:169-185`). After `aa`, `ab`, `a` the word `a` is not found, though the program at the end of
  `trie.cc` expects every word back. `FoundAsInserted` says that only such words are lost.
* `left_recursion`: the extra unref frees a list under the stack; the tree answered is
  not one of the text.

## Proofs

TLC checks small instances. What follows TLAPS proves for every value of the constants, with no
bound on sizes. The only assumptions are those named in the modules of the components; TLC evaluates
each of them on the instances, where every inductive invariant was checked too (that of `Trie` with its two functions computed from the heap; but not
`ReadRight` of `GLRParse_proofs`, which speaks of all sets of readings).
Where a grammar must have finitely many items or tokens, or a text be a sequence, that is said
(`GrammarsAssumption`, `JobsAssumption`): a tree from a file has finitely many nodes.

* **`LRClosure_proofs`** assumes that grammars are well-formed and that every rule
  a combination commits comes with the rules it mentions (`WellExpanded`, which
  the run `build` checks of what the constructor makes, but for a `Prefix` met again). It has
  `TypeCorrect`; `ClosureIsCorrect`, what is returned is the least closed set;
  `WorklistImplementsClosure`; `ClosureReturnsClosureOf`, it is
  the set the other modules call `ClosureOf`. The inductive invariant says
  that every tag mentioned by a known rule is known (`RulesFound`), that an item that left the
  worklist has all it predicts in the result or among the variants being
  visited (`Worklist`), and that nothing is there that a closed set does without (`Least`). Without the
  first, the second is not inductive: that is exactly the hazard of a grammar that grows.
* **`LRTables_proofs`** has the facts about items, closures and kernels that both automaton and parser need
  (`OneSymbolToGoto`, `CalledForAReason`, `RuleLands`), and `TablesAreCanonical`: `Tables(G)` is the canonical automaton of `G`
  for every grammar of finitely many items. `AllStates` adds one state at a time until none is missing; the
  function that does so recurses over lists of item sets, of which there are finitely many without repetition (`FewerLeft`),
  so that it exists and ends (`GrowthExists`, `GrowthEnds`).
* **`LRAutomaton_proofs`** assumes `GrammarsAssumption` (grammars are well-formed) only. It has
  `TypeCorrect`, `TransitionsAreExact`, `StatesHaveOneSymbol`, `AutomatonIsCanonical` and `EveryReductionLands`.
  The inductive invariant has each state reached from an earlier one, states
  distinct, transitions right, the kernels still in FSB those of the current state,
  and, for every state that left the stack, every symbol either dispatched or waiting
  (`Explored`). `OneSymbolIn` follows from the shape of kernels: what lies
  before the dot is the symbol moved over. That reductions land follows from the automaton being canonical: an
  item at its start is in a state because an item there calls for it (`CalledForAReason`), which has a
  transition over the tag; and along a right-hand side each transition exists since the item that wants it
  has been carried there (`WalkSteps`, `WalkLands`). It supposes, as `ReductionsLand` does, that no item is dead
  (`NoDeadItems`): over a tag without a rule nothing moves.
* **`GLRParse_proofs`**, for every grammar, text and mode, and every order in which the code may take tokens,
  reductions and twins: `TypeCorrect`, `StackFollows`, `TokensAreAsked`, `OnlyFreedListsBreak`, `AnswersAreDerived`. It rests on
  `TablesAreCanonical` for the automaton. `StackFollowsAutomaton` is not inductive. What makes it so is that
  the active list is in the order its nodes were made in (`InOrder`), so that a node taken is older than all that
  will ever be active again (`Buried`): every tail of an edge, every end of a way back and the node being reduced is buried, and
  `merge_active`, which changes active nodes only, leaves them alone. An edge to such a node follows the automaton
  (`EdgeRight`); twins have one state and symbol, so that what lies under the one may lie under the other (`MergedNode`).
  A way back over an item retreats one symbol per edge (`RunsBack`: an item some way into its rule was one symbol
  less far in every state with a transition to its own), and so ends where the rule was begun (`WaysBack`, by induction on
  its length), or would have to pass below the first node, whose state has no item under way.
  For `TokensAsked`, the first `left` active nodes have offsets no greater than the one the tokens were read at,
  have no twins among them, and were asked (`Waiting`); without a missed twin a later node goes into them and they into none.
  `NoneMissing`, inductive where the rest holds, says that active nodes are in states, for grammars whose rules all
  land (`RulesLand`: no dead items, no empty alternative of the start rule). `OnlyFreedListsBreak` draws the
  conclusion: of the ways in which `parse` may throw or read what it must not, only the freed list of `lr_gss.h:380` is
  left, as long as no twin was missed. This is what `ReductionsLand` says of the automaton, carried to the stack.
  `AnswersAreDerived` is the soundness of parse: a tree that is accepted was read in the text, up to its end, as the start rule.
  What is read is defined without the parser, by the grammar and the tokenizer: `ReadAs(g, text, x, l, f, t)` has
  the symbol `x` read as the list `l` between the offsets `f` and `t`, in every set of facts closed under three steps
  (`ClosedUnderReading`), that is, in the least one. A token is read where the tokenizer finds it; the rest of an item, one
  symbol at a time and each where the one before ends or after; a rule, once its items are read, by what it reduces to. The invariant
  (`ReadRight`, inductive where `IInv` holds) says so of every list on an edge of the stack, between the offsets of the
  two nodes, of every way back committed to `pending_reductions`, and of the trees accepted; merging
  keeps it since twins have one symbol and offset. Nothing is invented, put in another order or read twice. The definition lets a rule
  end after what it is made of, because the code does (`lr.h:645`, `693`; `full_parse_loses`), and so the theorem does not say that nothing
  is left out.
* **`AstRegistry_proofs`**, for any number of addresses, handles and words: `TypeCorrect`, `CountsAreExact`,
  `EqualTreesAreOneNode`, `NothingDangles`, `StringsAreHeld`. The four properties are inductive
  together, not one by one, and need four facts about a release under way. There are finitely many nodes (`Finite`: the owners
  of a node can be counted). Calls of `unref` run only inside an assignment, whose handle is empty
  meanwhile (`AssignmentUnderWay`). A pair whose parts are being released has no owner left, is in no map, and
  one call frees it (`DroppedOnce`). And the node that is to be assigned survives the release of the old tree: a handle leads to it,
  or there is a set of nodes, closed under parts, with every node under release in it and the coming node
  outside (`ComingKept`). This last is what the precondition of `Assign` buys, and where
  the order of `ref` and `unref` in `operator=` (`ast.h:269`) would break the proof without it.
* **`Walker_proofs`**, for all trees, pilots, labels and hash functions: `TypeCorrect`, `StacksAreTheWay`,
  `RightMethods`, `OpensAreAccounted`, `AloneIsClosed` (a library whose pilot has a row for itself is never open twice). The inductive invariant holds between visits too: in every
  frame of the nested walks the two stacks lead down from the root, the current node is the operand
  on which they agree unless the direction is `Next`, a remembered method is the one a look-up would
  give, each table of methods holds a key once, and the cache has the pilots asked for since the last start, each in its
  row, the last one asked for in front (`CacheRight`): the one `term_pilot_manager` finds.
  `StacksInStep` follows since operands come after their fathers (`IsWast`).
  The module's last theorem is `WalkImplementsTreeWalks`: every step of `Walker` is a step of `TreeWalks`
  or leaves it as it was. The mapping sends a frame to its root, the node visited, or the node to which the answer
  leads; the strengthening (`Faithful`) says where a frame between two visits is bound for, in
  terms of `After`, the recursive function by which `TreeWalks` goes on from a node. That it exists is
  proved (`AfterExists`); each case of the `switch` keeps the aim (`CaseUpAim`, `CaseNextAim`), so that
  falling from one into the next does.
* **`Trie_proofs`**, for any alphabet, any set of words and any number of insertions: `TypeCorrect`, `TreeIsTree`,
  `InsertedIsFound`, `LongestIsFound`, `FoundIsKept`. The invariant says that for the heap there are
  two functions, the father `up` of a node and the letters `sp` it spells, such that the heap is a
  tree of spelled nodes (`Grown`: links go to nodes of the same father in decreasing order, a node spells
  what its father does and then its radix, no two children of a node begin alike), the marks are backed
  by words inserted (`Backed`), and the insertion under way has read what `prev` spells and passed only
  children that do not go on (`WalkRight`). `up` and `sp` are not in the program: they are
  bound in the invariant, and each step gives the next ones (`SplitGrows`, `AddGrows`). Both look-ups are then
  shown to do what they should on any grown heap: by induction on the letters left and the node reached,
  `trie_match` answers the length of a text iff a node with a mark spells it (`MatchFinds`), and
  `trie_match_prefix` answers the longest beginning of it that one spells (`PrefixMatchFinds`). The properties
  follow without another look at the steps.
* **`ProofBasics`** has what these share: facts about stacks; induction on the natural numbers and the
  existence of a function defined by recursion, both stated of sets and
  functions instead of operators, which the provers can instantiate. So a function
  that recurses over data (`Matched`, `Children`, `After`) can be proved about; what uses
  `RECURSIVE` operators cannot.

To be reasoned about, some things in the model were stated differently than before, and mean the same: what is below
a node of the registry is a least closed set, `IsWast` and the type invariants are in terms of sets of sequences, the
look-ups of `Trie`, `After` of `TreeWalks` and `Paths` of `GSS` are recursive functions, and what a merge does to a node has a
name for each part. `Trie` has its alphabet as a constant.

The proof of `TokensAsked` failed on the first attempt, for a reason that is one of the code: a twin that `merge_active` misses
may be merged later in the pass, which takes a node away from among those `n_states` still counts. The compiled library, with a
counter in `merge_active`, misses twins on 71 of 600 random ambiguous grammars, and then takes nodes made in this pass or the front of
an empty list. Four active nodes are enough. The property now says so (`overlooked`), and `Crowded` was added to the run to make it happen.

Only model-checked:

* Termination (`Terminates`, `AssignmentsEnd`, `InsertionsEnd`, `WalksEnd`): liveness is out of the prover's reach.
* That the answers of a parse are all the readings and no other: `AnswersAreReadings`, `ReadingsFound` and `NeverBroken` of `GLRCorrect`.
  `AnswersAreDerived` proves what holds for all grammars: the answers are derived, with gaps. The three are
  about the grammars of two named shapes, found by looking at what goes wrong with the others, and compare with readings that
  are defined by recursion over texts and trees (`RECURSIVE`).
* `GrammarBuild`, `UnparseCorrect`: their operators on trees and texts are `RECURSIVE`, and what they compute is by induction over data.
* `Session`: its trees are read and written by `Serialize`, whose operators are `RECURSIVE`, which bars a theorem in
  any module that extends it, on `AutomatonOfGrammar` and `TableOfLines` as well.

## Not modelled, and why

* A `Prefix` whose operand read nothing, or whose rule reduces to an atom (`lr_grammar.h:661`).
* Several alternatives of `_start`: `parse` accepts the first only (`lr_gss.h:376`); `test()` makes
  a start rule with one.
* `make_nil` and `clear` of the AST registry; the release of GSS nodes.
* `AddToBag`, `RawSeq`, `STR`, `EOF` in the parser, and the regular-expression engine.
* `tinyap_plug` and `tinyap_append_grammar`, which nothing in the repository calls; the two
  `tinyap_set_whitespace` functions, whose effect the parser never reads.
* Whatever reads past the end of an input in `usrlz_token` (`serialize.c:84`), and empty atoms and lists in what is written:
  `Writable` names the trees `ReadsBack` is about.
* An unknown pilot (`pilot_manager.c:190`), and a pilot that is part of the program and has no library (`pilot_manager.c:153-155`).
* The pool allocator: the Makefile defines `USE_MALLOC`, and the pools are not in the program.
* The comparators of items: the model compares by value, which is what containers rest on.
* Names and wording of diagnostics, dumps, statistics, the static grammars.
* `attic/`, and the files of `src/src` the Makefile does not name. They are more than half of the
  repository's lines, which is why the lines the model maps are a small share of all of them.

## Plan

1. *Done*: grammars (`GrammarItems`, `GrammarBuild`), automaton (`LRGrammar`, `LRClosure` with `ClosureSpec`,
   `LRAutomaton`, and their proofs), parser (`Tokenizer`, `GSS`, `GLRParse`, `GLRCorrect`), stores (`AstRegistry`
   with `AstTrees`, `Trie`), use (`Session`, `PosCache`, `Serialize`, `WastIterator`, `Unparser` with `UnparseCorrect`,
   `Walker` with `TreeWalks`).
2. *Done*: proofs of `AstRegistry`, `Walker` with its refinement, `Trie`, `ReductionsLand`, the tables, the
   stack of `GLRParse` and the soundness of its answers.
3. `Session` split, so that `AutomatonOfGrammar` and `TableOfLines` can be proved apart from `Serialize`.
4. Conditions on grammars under which nothing is left out of an answer but white space. In general something is.
5. `Comparators` (which of the comparisons of items are orders), plugs, and bags that grow during a parse.
