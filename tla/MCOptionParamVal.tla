--------------------------- MODULE MCOptionParamVal ---------------------------
(* An instance of OptionParamVal for TLC. *)
EXTENDS OptionParamVal

CONSTANT x
Two     == {Zero, x}
AllSet  == [f \in Fields |-> x]
================================================================================
