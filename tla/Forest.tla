------------------------------- MODULE Forest -------------------------------
(***************************************************************************)
(* What lazyrtui promises about the coordinate frames it shows: at every   *)
(* moment they form a forest.  An update that attaches a frame to a parent *)
(* is taken exactly when the outcome is still a forest, and taking it      *)
(* moves the frame together with everything attached below it.             *)
(*                                                                         *)
(* The specification knows nothing of how the parent links and the         *)
(* children maps are stored; TFTree implements it (see TFTreeProofs and    *)
(* MCTFTree).                                                              *)
(***************************************************************************)
CONSTANTS
  Frames,      \* the frame names that transforms may mention
  NoFrame      \* the empty name: "attached to nothing"

VARIABLES
  known,       \* the frames heard of so far
  edges,       \* pairs <<p, c>>: frame c hangs below frame p
  accepted     \* whether the latest update was taken

vars == <<known, edges, accepted>>

(***************************************************************************)
(* A set of edges is acyclic when no nonempty set of frames is made of     *)
(* frames that all have their parent in the set (on a finite set: when no  *)
(* walk from child to parent goes on forever).                             *)
(***************************************************************************)
AcyclicEdges(E) ==
  \A S \in SUBSET Frames :
    S # {} => \E f \in S : \A p \in S : <<p, f>> \notin E

AttachEdges(parent, child) ==
  { e \in edges : e[2] # child }
    \cup (IF parent = NoFrame THEN {} ELSE {<<parent, child>>})

Init ==
  /\ known = {}
  /\ edges = {}
  /\ accepted = TRUE

Attach(parent, child) ==
  /\ child # NoFrame
  /\ AcyclicEdges(AttachEdges(parent, child))
  /\ known' = known \cup ({parent, child} \ {NoFrame})
  /\ edges' = AttachEdges(parent, child)
  /\ accepted' = TRUE

Refuse(parent, child) ==
  /\ child = NoFrame \/ ~AcyclicEdges(AttachEdges(parent, child))
  /\ accepted' = FALSE
  /\ UNCHANGED <<known, edges>>

Forget ==
  /\ known' = {}
  /\ edges' = {}
  /\ UNCHANGED accepted

Next ==
  \/ \E parent, child \in Frames \cup {NoFrame} :
       Attach(parent, child) \/ Refuse(parent, child)
  \/ Forget

Spec == Init /\ [][Next]_vars
=============================================================================
