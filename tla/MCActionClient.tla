--------------------------- MODULE MCActionClient ---------------------------
(* The action client on the service worker, for TLC: the values of the     *)
(* constants are in the .cfg files.                                        *)
EXTENDS ActionClient
=============================================================================
