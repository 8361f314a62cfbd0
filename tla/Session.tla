------------------------------- MODULE Session -------------------------------
(***************************************************************************)
(* A session: the parser a program holds (tinyap.cc, struct _tinyap_t) and *)
(* the options of the command line that drive it (main.cc, do_args).  It   *)
(* joins a grammar, the automaton made from it when it is first needed,    *)
(* the source text with its cache of positions, and the last output.       *)
(*                                                                         *)
(* What a parse answers is GLRParse's matter: here it is any tree or none, *)
(* and any offset as the farthest one.  There is a tree only if the text   *)
(* was read to its end.                                                    *)
(***************************************************************************)
EXTENDS PosCache, Serialize

CONSTANTS Texts,        \* the contents of the files that can be read
          Trees,        \* the trees a parse may answer
          Short,        \* the built-in grammar
          NoAutomaton, NoPlace

VARIABLES grammar,      \* the tree the grammar was set to
          A,            \* the automaton: the grammar it was made from, how far
                        \* its last parse came, and the place in its message
          output,       \* the output of the last parse
          error,        \* whether that output was a tree, as the code has it
          from_file,    \* whether there is a source file
          buffer,       \* source_buffer
          pos_cache, dangling,   \* the cache, and whether its buffer was freed
          written,      \* the file trees are written to, and
          saved,        \* the output that was written to it
          told          \* the place of an error, if the last parse printed one

vars == <<grammar, A, output, error, from_file, buffer, pos_cache, dangling,
          written, saved, told>>

Automaton(g) == [of |-> g, furthest |-> 0, place |-> NoPlace]

\* tinyap_new
Init ==
  /\ grammar = Short
  /\ A = NoAutomaton
  /\ output = Nil /\ error = FALSE
  /\ from_file = FALSE /\ buffer = <<>>
  /\ pos_cache = reset(<<>>) /\ dangling = FALSE
  /\ written = <<>> /\ saved = Nil
  /\ told = NoPlace

(***************************************************************************)
(* init_grammar: the automaton goes with the grammar it was made from.     *)
(***************************************************************************)
init_grammarKept(g) == grammar' = g /\ A' = A                      \* mutant
init_grammar(g) == grammar' = g /\ A' = NoAutomaton

\* -g: a built-in grammar, or a file that holds a tree.
SetGrammar(g) ==
  /\ init_grammar(g)
  /\ UNCHANGED <<output, error, from_file, buffer, pos_cache, dangling, written, saved, told>>

ReadGrammar ==
  /\ written # <<>>
  /\ SetGrammar(ast_unserialize(written))

(***************************************************************************)
(* -i: a file with this text.  One that cannot be found leaves the parser  *)
(* with an empty buffer, and no source file.                               *)
(***************************************************************************)
CacheKept(text) == UNCHANGED <<pos_cache, dangling>>               \* mutant
CacheReset(text) == pos_cache' = reset(text) /\ dangling' = FALSE

SetSourceFile(text) ==
  /\ from_file' = TRUE /\ buffer' = text
  /\ CacheReset(text)
  /\ UNCHANGED <<grammar, A, output, error, written, saved, told>>

MissingSourceFile ==
  /\ from_file' = FALSE /\ buffer' = <<>>
  /\ CacheReset(<<>>)
  /\ UNCHANGED <<grammar, A, output, error, written, saved, told>>

\* The cache goes on pointing to the buffer that is freed here.
SetSourceBuffer(text) ==
  /\ from_file' = FALSE /\ buffer' = text
  /\ dangling' = (dangling \/ pos_cache.text # <<>>)
  /\ UNCHANGED <<grammar, A, output, error, pos_cache, written, saved, told>>

(***************************************************************************)
(* tinyap_parse.  What the automaton finds: a tree, or how far it came.    *)
(***************************************************************************)
Parser == IF A = NoAutomaton THEN Automaton(grammar) ELSE A

Parsed(out, far) ==
  [Parser EXCEPT !.furthest = far,
                 !.place = IF far = Len(buffer) THEN NoPlace ELSE ErrorPlace(buffer, far)]

tinyap_parsed_ok(err, far) == err \/ far # Len(buffer)

\* The row and the column are asked for one after the other, either first.
AskPlace(far) ==
  /\ ~dangling
  /\ \E first \in position_of(pos_cache, far) :
     \E second \in position_of(first[1], far) :
       /\ pos_cache' = second[1]
       /\ \/ told' = Place(first[2].row, second[2].col)
          \/ told' = Place(second[2].row, first[2].col)

\* -p and -fp
Parse(out, far) ==
  /\ out # Nil => far = Len(buffer)
  /\ A' = Parsed(out, far)
  /\ output' = out /\ error' = (out # Nil)
  /\ IF tinyap_parsed_ok(error', far) /\ out # Nil
       THEN told' = NoPlace /\ UNCHANGED pos_cache
       ELSE AskPlace(far)
  /\ UNCHANGED <<grammar, from_file, buffer, dangling, written, saved>>

\* -pag: the output becomes the grammar, if there is one.
ParseAsGrammar(out, far) ==
  /\ out # Nil => far = Len(buffer)
  /\ error' = (out # Nil)
  /\ output' = Nil
  /\ IF out # Nil
       THEN init_grammar(out)
       ELSE A' = Parsed(out, far) /\ UNCHANGED grammar
  /\ IF tinyap_parsed_ok(error', far)
       THEN told' = NoPlace /\ UNCHANGED pos_cache
       ELSE AskPlace(far)
  /\ UNCHANGED <<from_file, buffer, dangling, written, saved>>

(***************************************************************************)
(* -o.  tinyap_parsed_ok looks at the automaton if the last parse answered *)
(* no tree: without one, the program ends there.                           *)
(***************************************************************************)
Output ==
  /\ error \/ A # NoAutomaton
  /\ IF tinyap_parsed_ok(error, A.furthest) /\ output # Nil
       THEN written' = Append(ast_serialize(output), "\n") /\ saved' = output
       ELSE UNCHANGED <<written, saved>>
  /\ UNCHANGED <<grammar, A, output, error, from_file, buffer, pos_cache, dangling, told>>

\* -ps
PrintStates ==
  /\ A' = Parser
  /\ UNCHANGED <<grammar, output, error, from_file, buffer, pos_cache, dangling, written, saved, told>>

\* tinyap_node_get_row or _col, of an atom at this offset.
NodePlace(ofs) ==
  /\ ~dangling
  /\ \E answer \in position_of(pos_cache, ofs) : pos_cache' = answer[1]
  /\ UNCHANGED <<grammar, A, output, error, from_file, buffer, dangling, written, saved, told>>

Next ==
  \/ SetGrammar(Short) \/ ReadGrammar
  \/ \E text \in Texts : SetSourceFile(text) \/ SetSourceBuffer(text)
  \/ MissingSourceFile
  \/ \E out \in Trees \cup {Nil}, far \in 0 .. Len(buffer) :
       Parse(out, far) \/ ParseAsGrammar(out, far)
  \/ Output \/ PrintStates
  \/ \E ofs \in 0 .. Len(pos_cache.text) : NodePlace(ofs)

Spec == Init /\ [][Next]_vars
-----------------------------------------------------------------------------
(***************************************************************************)
(* A text is never parsed by the automaton of a grammar that was replaced: *)
(* set, read from a file, or taken from a parse in between.                *)
(***************************************************************************)
AutomatonOfGrammar == A # NoAutomaton => A.of = grammar

(***************************************************************************)
(* After any order of inputs, parses and questions, the cache is about the *)
(* source file, and its table has the line ends of the text in order, none *)
(* skipped but one at offset 0, perhaps with one lost pointer after the    *)
(* last of them.                                                           *)
(***************************************************************************)
TableOfLines ==
  LET table == Tail(pos_cache.row_offset)
      ends  == SetToSortSeq(Newlines(pos_cache.text, 1), <)
  IN /\ from_file => pos_cache.text = buffer /\ ~dangling
     /\ \/ IsPrefix(table, ends)
        \/ table # <<>> /\ Front(table) = ends /\ Last(table) \in Garbage

(***************************************************************************)
(* The error message of a parse tells the line and the column it stopped   *)
(* at, whatever ends the lines before.                                     *)
(***************************************************************************)
ErrorPlaceExact ==
  [][A' # A /\ A' # NoAutomaton /\ A'.place # NoPlace
       => A'.place = TruePlace(buffer, A'.furthest)]_vars

(***************************************************************************)
(* A tree that was written can be read back, as a grammar or otherwise: it *)
(* is the same but for its offsets.                                        *)
(***************************************************************************)
ReadsBack ==
  written # <<>> /\ Writable(saved) => ast_unserialize(written) = WithoutOffsets(saved)
=============================================================================
