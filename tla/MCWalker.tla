------------------------------ MODULE MCWalker ------------------------------
(***************************************************************************)
(* Walker for TLC: trees of up to five nodes, two pilots that share a row  *)
(* of the cache and two labels that share a row of the methods.            *)
(***************************************************************************)
EXTENDS Walker, TLC

Wast(operands, label) == [root |-> 1, operands |-> operands, label |-> label]

MCTrees ==
  { Wast(<< <<>> >>, <<"expr">>),
    Wast(<< <<2>>, <<3>>, <<>> >>, <<"expr", "expr", "num">>),
    Wast(<< <<2, 3>>, <<>>, <<4>>, <<>> >>, <<"expr", "num", "expr", "num">>),
    Wast(<< <<2, 5>>, <<3, 4>>, <<>>, <<>>, <<>> >>, <<"expr", "expr", "num", "expr", "num">>) }

MCExports == "calc" :> {"expr", "num"} @@ "print" :> {"num"}
MCHashRow == "calc" :> 0 @@ "print" :> 0 @@ "expr" :> 1 @@ "num" :> 1
=============================================================================
