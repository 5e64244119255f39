--------------------------- MODULE MCServiceWorker ---------------------------
(* The service worker for TLC: the refinement and the liveness properties   *)
(* are checked with the values of the .cfg files.                           *)
EXTENDS ServiceWorker
=============================================================================
