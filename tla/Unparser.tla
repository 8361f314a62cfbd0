------------------------------ MODULE Unparser -------------------------------
(***************************************************************************)
(* The unparser (unparser.cc): it writes a text for a tree by a grammar,   *)
(* one call of tinyap_unparse after the other, with what is static         *)
(* between them: the level of indentation and the two blacklisted nodes.   *)
(*                                                                         *)
(* A grammar and a tree are walkable ASTs; an element of the grammar is    *)
(* its node, for each call leaves the iterator over it where it was.  The  *)
(* stack wps never holds the pair of a call: it compares iterators by      *)
(* address, and each rule is entered with an iterator made for it.  A      *)
(* word of the text is one symbol, and how a word is escaped is left out.  *)
(*                                                                         *)
(* s is where an unproduction is: at, the iterator over the tree; mem, the *)
(* bytes of the buffer, of which size count; the static variables; whether *)
(* it succeeded (ok); and whether it will never end (stuck).               *)
(***************************************************************************)
EXTENDS WastIterator

CONSTANTS Grammars,     \* name -> grammar, a walkable AST
          Asts,         \* the trees, as [op, kids]
          MaxLevel,     \* levels of indentation are counted up to it (bound)
          MaxDepth,     \* calls are nested so deep where they end (bound)
          MaxCalls      \* calls of tinyap_unparse (bound)

ASSUME MaxLevel \in Nat /\ MaxDepth \in Nat /\ MaxCalls \in Nat

VARIABLES grammar, ast, \* a grammar, by its name, and a tree,
          G, tree,      \* which become what tinyap_unparse is called with
          indent_lvl, bl_ast, bl_expr,
          result, calls

vars == <<grammar, ast, G, tree, indent_lvl, bl_ast, bl_expr, result, calls>>

Layout == {" ", "\n", "\t"}
Nul    == "NUL"
None   == <<"NULL">>
Hangs  == <<"hangs">>
NotYet == <<"not yet">>

wi_op(x)        == wa_op(G, x)
wi_string(x, n) == wa_op(G, wa_opd(G, x, n))
Part(x, n)      == wa_opd(G, x, n)

wi_node(s) == tinyap_wi_node(tree, s.at)
wi_next(s) == [s EXCEPT !.at = tinyap_wi_next(@)]
wi_down(s) == [s EXCEPT !.at = tinyap_wi_down(tree, @)]
wi_up(s)   == [s EXCEPT !.at = tinyap_wi_up(tree, @)]

RECURSIVE ToLast(_)
ToLast(s) == IF tinyap_wi_has_next(tree, s.at) THEN ToLast(wi_next(s)) ELSE s

(***************************************************************************)
(* The buffer.  A string is written with the 0 that ends it; restoring the *)
(* size does not write one.                                                *)
(***************************************************************************)
Byte(s, k) == IF k \in DOMAIN s.mem THEN s.mem[k] ELSE Nul

_buf_append(s, w) ==
  [s EXCEPT !.mem = SubSeq(@, 1, s.size) \o <<w, Nul>> \o SubSeq(@, s.size + 3, Len(@)),
            !.size = @ + 1]

_buf_endswith(s, w) == s.size > 0 /\ Byte(s, s.size) = w /\ Byte(s, s.size + 1) = Nul

_buf_append_space(s) == IF _buf_endswith(s, " ") THEN s ELSE _buf_append(s, " ")

_buf_append_newline(s) ==
  FoldLeft(LAMBDA r, k : _buf_append(r, "\t"), _buf_append(s, "\n"), [k \in 1 .. s.level |-> k])

_buf_do_indent(s) == _buf_append([s EXCEPT !.level = (@ + 1) % (MaxLevel + 1)], "\t")

\* The level is an unsigned number: there is one under 0.
_buf_do_dedent(s) ==
  [s EXCEPT !.level = (@ + MaxLevel) % (MaxLevel + 1),
            !.size = IF _buf_endswith(s, "\t") THEN @ - 1 ELSE @]

Succeeded(s) == [s EXCEPT !.ok = TRUE]
Failed(s)    == [s EXCEPT !.ok = FALSE]

\* VALIDATE, or RESTORE, which leaves the level as it is.
KeptOnFailure(s, r) == r                                       \* mutant
Settled(s, r) == IF r.ok THEN r ELSE [r EXCEPT !.at = s.at, !.size = s.size]

\* wig_goto_rule: the first rule of this name; the first of all may be a Comment.
wig_goto_rule(name) ==
  LET rules == { i \in 0 .. wa_opd_count(G, G.root) - 1 :
                   /\ i = 0 \/ wi_op(Part(G.root, i)) # "Comment"
                   /\ wi_string(Part(G.root, i), 0) = name }
  IN Part(G.root, Min(rules))

\* A rule whose first alternative is a sequence that begins with the rule.
wa_check_lefty(x) ==
  LET seq == Part(Part(x, 1), 0)
  IN /\ wi_op(Part(x, 1)) = "Alt"
     /\ wi_op(seq) \in {"Seq", "RawSeq"}
     /\ wi_op(Part(seq, 0)) = "NT"
     /\ wi_string(Part(seq, 0), 0) = wi_string(x, 0)
-----------------------------------------------------------------------------
RECURSIVE unproduce(_, _, _), unproduce_rule(_, _, _), Repeated(_, _, _), Chained(_, _, _, _, _)

(***************************************************************************)
(* while(wi_node(ast) && unproduce(...)).  A turn that wrote and did not   *)
(* move is the first of turns without end.                                 *)
(***************************************************************************)
Repeated(x, s, depth) ==
  IF wi_node(s) = NoNode THEN s
  ELSE LET r == unproduce(x, s, depth) IN
       IF ~r.ok \/ r.stuck THEN r
       ELSE IF r.at = s.at THEN [r EXCEPT !.stuck = TRUE]
       ELSE Repeated(x, r, depth)

\* The parts of x from the n-th on, in turn, as long as each gives go.
Chained(x, n, go, s, depth) ==
  LET r == unproduce(Part(x, n), s, depth)
  IN IF r.ok = go /\ n + 1 < wa_opd_count(G, x) THEN Chained(x, n + 1, go, r, depth) ELSE r

\* An element that takes the leaf the iterator is on, and writes words.
OnLeaf(s, words) ==
  IF tinyap_wi_on_leaf(tree, s.at)
    THEN wi_next(Succeeded(FoldLeft(_buf_append, s, words)))
    ELSE Failed(s)

(***************************************************************************)
(* A Prefix unproduces its first part by the first operand, then its       *)
(* second by the node without that operand; a Postfix likewise by the last.*)
(***************************************************************************)
BlCleared(old, now)   == NoNode                                \* mutant: not the one before
Whitelisted(old, now) == old

Fixed(x, there, s, depth) ==
  LET first  == unproduce(Part(x, 0), there, depth)
      second == unproduce(Part(x, 1), [first EXCEPT !.at = s.at, !.bl_ast = wi_node(there)], depth)
  IN IF first.ok THEN [second EXCEPT !.bl_ast = Whitelisted(s.bl_ast, @)] ELSE first

Tried(x, s, depth) ==
  CASE wi_op(x) = "T"       -> Succeeded(_buf_append(s, wi_string(x, 0)))
    [] wi_op(x) = "Rep0N"   -> Succeeded(Repeated(Part(x, 0), s, depth))
    [] wi_op(x) = "Rep01"   -> wi_next(Succeeded(unproduce(Part(x, 0), s, depth)))
    [] wi_op(x) \in {"Seq", "RawSeq"} -> Chained(x, 0, TRUE, s, depth)
    [] wi_op(x) = "Alt"     -> Chained(x, 0, FALSE, s, depth)
    [] wi_op(x) = "Epsilon" -> Succeeded(s)
    [] wi_op(x) = "EOF"     -> [s EXCEPT !.ok = wi_node(s) = NoNode]
    [] wi_op(x) = "Space"   -> Succeeded(_buf_append_space(s))
    [] wi_op(x) = "NewLine" -> Succeeded(_buf_append_newline(s))
    [] wi_op(x) = "Indent"  -> Succeeded(_buf_do_indent(s))
    [] wi_op(x) = "Dedent"  -> Succeeded(_buf_do_dedent(s))
    [] wi_op(x) = "NT"      -> unproduce_rule(wig_goto_rule(wi_string(x, 0)), s, depth)
    [] wi_node(s) = NoNode  -> Failed(s)
    [] wi_op(x) = "RE"      -> OnLeaf(s, <<wa_op(tree, wi_node(s))>>)
    [] wi_op(x) = "STR"     -> OnLeaf(s, <<wi_string(x, 0), wa_op(tree, wi_node(s)), wi_string(x, 1)>>)
    [] wi_op(x) = "RPL"     -> OnLeaf(s, <<"OBSOLETE">>)
    [] wi_op(x) = "Prefix"  -> Fixed(x, wi_down(s), s, depth)
    [] wi_op(x) = "Postfix" -> Fixed(x, ToLast(wi_down(s)), s, depth)
    [] wi_op(x) = "Rep1N"   ->
         LET r == unproduce(Part(x, 0), s, depth)
         IN IF r.ok THEN Succeeded(Repeated(Part(x, 0), r, depth)) ELSE r
    [] OTHER -> Failed(s)

\* The blacklisted node is stepped over, the blacklisted element taken as done.
unproduce(x, s0, depth) ==
  LET s == IF wi_node(s0) = s0.bl_ast THEN wi_next(s0) ELSE s0
  IN IF x = NoNode THEN Failed(s0)
     ELSE IF s.stuck \/ depth = 0 THEN [Failed(s) EXCEPT !.stuck = TRUE]
     ELSE IF x = s.bl_expr THEN Succeeded(s)
     ELSE Settled(s, Tried(x, s, depth - 1))

(***************************************************************************)
(* A rule.  Of one that is recursive on the left, the second alternative   *)
(* is unproduced once, then the first without its first part repeatedly.   *)
(* An operator rule takes the node of its name and unproduces its operands.*)
(***************************************************************************)
Lefty(x, s, depth) ==
  LET alt  == Part(x, 1)
      head == unproduce(Part(alt, 1), s, depth)
      tail == Repeated(Part(alt, 0), [head EXCEPT !.bl_expr = Part(Part(alt, 0), 0)], depth)
  IN IF head.ok THEN [Succeeded(tail) EXCEPT !.bl_expr = NoNode] ELSE head

Matches(x, s) == wi_node(s) # NoNode /\ wi_string(x, 0) = wa_op(tree, wi_node(s))

Operands(x, s, depth) ==
  LET r == wi_up(unproduce(Part(x, 1), wi_down(s), depth)) IN IF r.ok THEN wi_next(r) ELSE r

unproduce_rule(x, s, depth) ==
  Settled(s,
    CASE wi_op(x) = "TransientRule" ->
           IF wa_check_lefty(x) THEN Lefty(x, s, depth) ELSE unproduce(Part(x, 1), s, depth)
      [] wi_op(x) = "OperatorRule" ->
           IF Matches(x, s) THEN Operands(x, s, depth) ELSE Failed(s)
      [] OTHER -> Failed(s))
-----------------------------------------------------------------------------
Init ==
  /\ grammar \in DOMAIN Grammars /\ G = Grammars[grammar]
  /\ ast \in Asts /\ tree = make_wast(ast)
  /\ indent_lvl = 0 /\ bl_ast = NoNode /\ bl_expr = NoNode
  /\ result = NotYet /\ calls = 1

_buf_init ==
  [ at |-> tinyap_wi_new, mem |-> <<>>, size |-> 0, level |-> indent_lvl,
    bl_ast |-> bl_ast, bl_expr |-> bl_expr, ok |-> FALSE, stuck |-> FALSE ]

\* The whole of tree need not have been unproduced.
tinyap_unparse ==
  /\ result = NotYet
  /\ LET s == unproduce_rule(wig_goto_rule("_start"), _buf_init, MaxDepth)
     IN /\ result' = IF s.stuck THEN Hangs ELSE IF s.ok THEN SubSeq(s.mem, 1, s.size) ELSE None
        /\ indent_lvl' = s.level
        /\ bl_ast' = s.bl_ast /\ bl_expr' = s.bl_expr
  /\ UNCHANGED <<grammar, ast, G, tree, calls>>

\* The program asks for another text; a call that does not end is the last.
Call ==
  /\ result \notin {NotYet, Hangs} /\ calls < MaxCalls
  /\ grammar' \in DOMAIN Grammars /\ G' = Grammars[grammar']
  /\ ast' \in Asts /\ tree' = make_wast(ast')
  /\ result' = NotYet /\ calls' = calls + 1
  /\ UNCHANGED <<indent_lvl, bl_ast, bl_expr>>

Next == tinyap_unparse \/ Call

Spec == Init /\ [][Next]_vars
=============================================================================
