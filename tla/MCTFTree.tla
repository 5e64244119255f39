------------------------------ MODULE MCTFTree ------------------------------
(* The frame store and its operations step by step, for TLC. *)
EXTENDS TFSnapshot
=============================================================================
