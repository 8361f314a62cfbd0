---------------------------- MODULE MCAstRegistry ----------------------------
(***************************************************************************)
(* AstRegistry for TLC.  The registry is small enough to be checked with   *)
(* no symmetry, which its temporal properties would not allow.             *)
(***************************************************************************)
EXTENDS AstRegistry

\* One word, whose atoms differ by their offsets only, as hash-consing has it.
MCWords == {"w"}
=============================================================================
