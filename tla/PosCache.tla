------------------------------ MODULE PosCache -------------------------------
(***************************************************************************)
(* Lines and columns of offsets: the position cache of a session           *)
(* (tinyap.cc, pos_cache_t) and the place of a parse error, which the      *)
(* automaton counts by itself (lr.h, parse and its find_nl).               *)
(*                                                                         *)
(* A text is a sequence of characters, of which only "\n" and "\r" are     *)
(* told from the others; offsets count from 0.  No text has a NUL in it:   *)
(* find_nl would stand still on one.                                       *)
(*                                                                         *)
(* A cache is the text it was reset to and row_offset, the table of line   *)
(* ends it has met, after an entry 0.                                      *)
(***************************************************************************)
EXTENDS Integers, Sequences, SequencesExt, FiniteSetsExt

CONSTANT Garbage      \* what a truncated pointer, or a read past the table, gives

ASSUME GarbageAssumption == Garbage # {} /\ Garbage \subseteq Int

Char(text, ofs) == text[ofs + 1]
NewlineAt(text, ofs) == ofs \in 0 .. Len(text) - 1 /\ Char(text, ofs) = "\n"

reset(text) == [text |-> text, row_offset |-> <<0>>]

(***************************************************************************)
(* position_of, beyond the table: lines are searched until one ends at the *)
(* offset or after it.  strchr finds the next newline; where there is none *)
(* the null pointer, less the source, is truncated to an int.  As a size_t *)
(* it is beyond any text, and so is a negative int: both end the loop.     *)
(***************************************************************************)
Newlines(text, from) == { o \in from .. Len(text) - 1 : NewlineAt(text, o) }

LineEnd(text, from, lost) ==
  IF Newlines(text, from) = {} THEN lost ELSE Min(Newlines(text, from))

Filled(c, ofs, lost) ==
  LET search[n \in 0 .. Len(c.text)] ==
        IF n = 0 THEN c.row_offset
        ELSE LET t == search[n - 1]
                 from == Last(t) + 1 IN
             IF from < 0 \/ from >= ofs THEN t
             ELSE Append(t, LineEnd(c.text, from, lost))
  IN [c EXCEPT !.row_offset = search[Len(c.text)]]

(***************************************************************************)
(* position_of, within the table: a dichotomy, which reads the entry after *)
(* its needle.  read is the table with what may lie past its end.          *)
(***************************************************************************)
Half(n) == n \div 2

Needle(read, size, ofs) ==
  LET step[delta \in 0 .. size] ==
        [ needle \in 0 .. 2 * size |->
            IF delta = 0 THEN needle
            ELSE IF read[needle] > ofs THEN step[Half(delta)][needle - delta]
            ELSE IF read[needle + 1] > ofs THEN needle
            ELSE step[Half(delta)][needle + delta] ]
  IN step[Half(size)][Half(size)]

Place(row, col) == [row |-> row, col |-> col]

\* The cache and the place after position_of(ofs): one pair for each outcome.
position_of(c, ofs) ==
  IF ofs > Len(c.text) THEN { <<c, Place(-1, -1)>> }
  ELSE IF ofs > Last(c.row_offset)
    THEN { LET d == Filled(c, ofs, lost)
           IN <<d, Place(Len(d.row_offset), ofs - Last(d.row_offset))>> : lost \in Garbage }
    ELSE LET size == Len(c.row_offset) IN
         { LET read == [k \in 0 .. 2 * size + 1 |->
                          IF k < size THEN c.row_offset[k + 1] ELSE past[k]]
               needle == Needle(read, size, ofs)
           IN <<c, Place(needle, ofs - read[needle])>>
             : past \in [size .. 2 * size + 1 -> Garbage] }

(***************************************************************************)
(* The place of an error at the offset farthest, as parse counts it:       *)
(* find_nl gives the start of the next line, or the end of the text.       *)
(***************************************************************************)
EndsLine(text, ofs) == Char(text, ofs) \in {"\n", "\r"}

CrLfAt(text, ofs) ==
  ofs + 1 < Len(text) /\ Char(text, ofs) = "\r" /\ Char(text, ofs + 1) = "\n"

find_nlOne(text, from) ==                                          \* mutant
  LET ends == { o \in from .. Len(text) - 1 : EndsLine(text, o) }
  IN IF ends = {} THEN Len(text) ELSE Min(ends) + 1

find_nl(text, from) ==
  LET ends == { o \in from .. Len(text) - 1 : EndsLine(text, o) } IN
  IF ends = {} THEN Len(text)
  ELSE IF CrLfAt(text, Min(ends)) THEN Min(ends) + 2 ELSE Min(ends) + 1

ErrorPlace(text, farthest) ==
  LET count[nl_before \in 0 .. Len(text)] ==
        LET next == find_nl(text, nl_before) IN
        IF next <= farthest
          THEN [count[next] EXCEPT !.row = @ + 1]
          ELSE Place(1, farthest - nl_before + 1)
  IN count[0]

(***************************************************************************)
(* What a line and a column are, both counted from 1: a line starts at the *)
(* beginning of the text and after each newline, which is "\n", "\r\n", or *)
(* "\r" alone.                                                             *)
(***************************************************************************)
LineStarts(text) ==
  { o \in 0 .. Len(text) :
      \/ o = 0
      \/ Char(text, o - 1) = "\n"
      \/ Char(text, o - 1) = "\r" /\ ~NewlineAt(text, o) }

TruePlace(text, ofs) ==
  LET before == { o \in LineStarts(text) : o <= ofs }
  IN Place(Cardinality(before), ofs - Max(before) + 1)
=============================================================================
