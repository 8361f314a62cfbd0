------------------------------ MODULE Serialize ------------------------------
(***************************************************************************)
(* Trees written as text and read back (serialize.c, serialize.h).         *)
(*                                                                         *)
(* A tree is nothing, an atom with its string (a sequence of characters)   *)
(* and offset, or a pair.  A text is a sequence of characters.             *)
(***************************************************************************)
EXTENDS Integers, Sequences, SequencesExt, FiniteSetsExt

Nil           == [kind |-> "nil"]
Atom(str, o)  == [kind |-> "atom", str |-> str, ofs |-> o]
Pair(a, d)    == [kind |-> "pair", car |-> a, cdr |-> d]
Node(l)       == FoldRight(LAMBDA t, rest : Pair(t, rest), l, Nil)

(***************************************************************************)
(* escape_characters: what follows a backslash, the character it is for,   *)
(* and the contexts in which it is escaped.                                *)
(***************************************************************************)
Escape(e, u, contexts) == [escaped |-> e, unescaped |-> u, contexts |-> contexts]

AnyContext == {"LISP", "RE", "T"}

escape_charactersNoBackslash ==                                    \* mutant
  { Escape("n", "\n", AnyContext), Escape("t", "\t", AnyContext),
    Escape("r", "\r", AnyContext), Escape("(", "(", {"LISP"}),
    Escape(")", ")", {"LISP"}), Escape(" ", " ", {"LISP"}) }

escape_characters ==
  { Escape("n", "\n", AnyContext), Escape("t", "\t", AnyContext),
    Escape("r", "\r", AnyContext), Escape("\\", "\\", AnyContext),
    Escape("\"", "\"", {"T"}),     Escape("(", "(", {"LISP"}),
    Escape(")", ")", {"LISP"}),    Escape(" ", " ", {"LISP"}) }

Blanks      == {"\n", "\r", "\t", " "}
Terminators == {"(", ")"}

\* escape_chr, in the context of trees.
escape_chr(c) ==
  LET found == { e \in escape_characters : e.unescaped = c /\ "LISP" \in e.contexts }
  IN IF found = {} THEN <<c>> ELSE << "\\", (CHOOSE e \in found : TRUE).escaped >>

(***************************************************************************)
(* ast_serialize and ast_ser_list, without the offsets: as written to a    *)
(* file.  A list leaves out its empty elements, and is written as if its   *)
(* end were nothing.                                                       *)
(***************************************************************************)
RECURSIVE ast_serialize(_), ast_ser_list(_)

ast_serialize(t) ==
  CASE t.kind = "nil"  -> << "(", ")" >>
    [] t.kind = "atom" -> FlattenSeq([k \in DOMAIN t.str |-> escape_chr(t.str[k])])
    [] t.kind = "pair" -> <<"(">> \o ast_ser_list(t) \o <<")">>

ast_ser_list(t) ==
  IF t.kind = "atom" THEN ast_serialize(t)
  ELSE (IF t.car = Nil THEN <<>> ELSE ast_serialize(t.car))
       \o (IF t.cdr = Nil THEN <<>> ELSE <<" ">> \o ast_ser_list(t.cdr))

(***************************************************************************)
(* usrlz_token: what stands at an offset of a text, and the offset after   *)
(* it.  strchr finds the NUL at the end of a text among the blanks: past   *)
(* the end, reading goes on in whatever follows.                           *)
(***************************************************************************)
SkipBlanks(text, ofs) ==
  Min({ o \in ofs .. Len(text) + 1 : o > Len(text) \/ text[o] \notin Blanks })

\* unescape_chr: the character, and how many it takes in the text.
Unescaped(text, o) ==
  LET found == { e \in escape_characters :
                   /\ text[o] = "\\" /\ o < Len(text)
                   /\ e.escaped = text[o + 1] /\ "LISP" \in e.contexts }
  IN IF found = {} THEN [char |-> text[o], size |-> 1]
     ELSE [char |-> (CHOOSE e \in found : TRUE).unescaped, size |-> 2]

RECURSIVE Symbol(_, _)
Symbol(text, o) ==
  LET c == Unescaped(text, o)
      after == o + c.size
      rest == IF after > Len(text) \/ text[after] \in Blanks \cup Terminators
                THEN [str |-> <<>>, ofs |-> after]
                ELSE Symbol(text, after)
  IN [rest EXCEPT !.str = <<c.char>> \o @]

(***************************************************************************)
(* _qlp_elem and _qlp_list: a tree and the offset after it.  A list ends   *)
(* at the first element that is nothing.                                   *)
(***************************************************************************)
Read(tree, ofs) == [tree |-> tree, ofs |-> ofs]
PastEnd == Read([kind |-> "undefined"], 0)

RECURSIVE _qlp_elem(_, _), _qlp_list(_, _)

_qlp_elem(text, ofs) ==
  LET o == SkipBlanks(text, ofs) IN
  IF o > Len(text) THEN PastEnd
  ELSE IF text[o] = "(" THEN _qlp_list(text, o + 1)
  ELSE IF text[o] = ")" THEN Read(Nil, o + 1)
  ELSE LET s == Symbol(text, o) IN Read(Atom(s.str, 0), s.ofs)

_qlp_list(text, ofs) ==
  LET car == _qlp_elem(text, ofs) IN
  IF car = PastEnd \/ car.tree = Nil THEN car
  ELSE LET cdr == _qlp_list(text, car.ofs) IN
       IF cdr = PastEnd THEN PastEnd
       ELSE Read(Pair(car.tree, cdr.tree), cdr.ofs)

ast_unserialize(text) == _qlp_elem(text, 1).tree

(***************************************************************************)
(* Trees that survive: lists, none of them empty, of atoms that have a     *)
(* string, and of such lists.  A file keeps no offset.                     *)
(***************************************************************************)
RECURSIVE Writable(_), WritableList(_)
WritableList(t) ==
  \/ t = Nil
  \/ t.kind = "pair" /\ Writable(t.car) /\ WritableList(t.cdr)
Writable(t) ==
  \/ t.kind = "atom" /\ t.str # <<>>
  \/ t.kind = "pair" /\ WritableList(t)

RECURSIVE WithoutOffsets(_)
WithoutOffsets(t) ==
  CASE t.kind = "nil"  -> t
    [] t.kind = "atom" -> Atom(t.str, 0)
    [] t.kind = "pair" -> Pair(WithoutOffsets(t.car), WithoutOffsets(t.cdr))
=============================================================================
