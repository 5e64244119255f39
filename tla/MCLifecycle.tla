---------------------------- MODULE MCLifecycle ----------------------------
(* The life of the program for TLC: the bound is in the .cfg files.        *)
EXTENDS Lifecycle
=============================================================================
