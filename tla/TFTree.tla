------------------------------- MODULE TFTree -------------------------------
(***************************************************************************)
(* TFTree (src/tf_tree.cpp): the store of coordinate frames.  The executor *)
(* thread feeds it every transform of /tf and /tf_static, the UI thread    *)
(* copies it.  Every operation runs under the store's own mutex, so each   *)
(* one is one atomic action here.                                          *)
(*                                                                         *)
(* A node of frames_ keeps a parent_id and a map of children; the two are  *)
(* updated separately and have to agree.  Translation, rotation and stamp  *)
(* of a node are overwritten by every accepted update and read by nobody   *)
(* but the display: they are left out.                                     *)
(***************************************************************************)
EXTENDS Naturals, FiniteSets

CONSTANTS
  Frames,      \* the nonempty frame names that transforms may mention
  NoFrame      \* the empty string, a legal header.frame_id

ASSUME TFAssumption == NoFrame \notin Frames

Names == Frames \cup {NoFrame}

VARIABLES
  frames,      \* the keys of frames_
  parent_id,   \* parent_id of each node; NoFrame for roots and unknown names
  children,    \* keys of each node's children map
  result       \* what the latest update_transform returned

vars == <<frames, parent_id, children, result>>

TypeOK ==
  /\ frames \in SUBSET Frames
  /\ parent_id \in [Frames -> Names]
  /\ children \in [Frames -> SUBSET Frames]
  /\ result \in BOOLEAN

(***************************************************************************)
(* The names the ancestor walk of update_transform visits when it starts   *)
(* at f: the least set that contains f and, with a frame, its parent.      *)
(***************************************************************************)
ClosedUnderParent(S) == \A f \in S : parent_id[f] # NoFrame => parent_id[f] \in S

Ancestors(f) ==
  { a \in Frames :
      \A S \in SUBSET Frames : f \in S /\ ClosedUnderParent(S) => a \in S }

Refused(parent, child) ==
  \/ child = NoFrame
  \/ parent = child
  \/ parent # NoFrame /\ child \in Ancestors(parent)

Init ==
  /\ frames = {}
  /\ parent_id = [f \in Frames |-> NoFrame]
  /\ children = [f \in Frames |-> {}]
  /\ result = TRUE

Reject(parent, child) ==
  /\ Refused(parent, child)
  /\ result' = FALSE
  /\ UNCHANGED <<frames, parent_id, children>>

\* Mutant of Relink: the child stays in the map of the parent it leaves.
RelinkKeepsOld(parent, child) ==
  [f \in Frames |-> IF f = parent THEN children[f] \cup {child} ELSE children[f]]

(***************************************************************************)
(* Create the missing nodes, take the child out of the children map of the *)
(* parent it leaves, set its parent_id, and enter it under the new one.    *)
(***************************************************************************)
Relink(parent, child) ==
  [f \in Frames |->
     CASE f = parent -> children[f] \cup {child}
       [] f # parent /\ f = parent_id[child] -> children[f] \ {child}
       [] OTHER -> children[f]]

\* Mutant of Link: an empty parent name gets a node too.
LinkKnowsEmpty(parent, child) ==
  /\ frames' = frames \cup {parent, child}
  /\ parent_id' = [parent_id EXCEPT ![child] = parent]
  /\ children' = Relink(parent, child)
  /\ result' = TRUE

Link(parent, child) ==
  /\ frames' = frames \cup ({parent, child} \ {NoFrame})
  /\ parent_id' = [parent_id EXCEPT ![child] = parent]
  /\ children' = Relink(parent, child)
  /\ result' = TRUE

Accept(parent, child) == ~Refused(parent, child) /\ Link(parent, child)

update_transform(parent, child) == Accept(parent, child) \/ Reject(parent, child)

clear ==
  /\ frames' = {}
  /\ parent_id' = [f \in Frames |-> NoFrame]
  /\ children' = [f \in Frames |-> {}]
  /\ UNCHANGED result

Next ==
  \/ \E parent, child \in Names : update_transform(parent, child)
  \/ clear

Spec == Init /\ [][Next]_vars

-----------------------------------------------------------------------------
(***************************************************************************)
(* Safety.                                                                 *)
(***************************************************************************)

(* No walk from child to parent goes on forever, whatever sequence of      *)
(* updates re-parents whatever subtrees (tf_tree.cpp:24-40).               *)
Acyclic ==
  \A S \in SUBSET Frames : S # {} => \E f \in S : parent_id[f] \notin S

(* The children maps and the parent links describe the same edges, and     *)
(* only known frames are linked (tf_tree.cpp:52-82).                       *)
LinksAgree ==
  /\ \A p, c \in Frames : c \in children[p] <=> parent_id[c] = p
  /\ \A c \in Frames : parent_id[c] # NoFrame => {c, parent_id[c]} \subseteq frames

(* The store is a forest whose edges are the entries of the children maps, *)
(* and update_transform refuses an update exactly when it would break it.  *)
Edges == { e \in Frames \X Frames : e[2] \in children[e[1]] }

Abstract ==
  INSTANCE Forest WITH known <- frames, edges <- Edges, accepted <- result

ImplementsForest == Abstract!Spec
=============================================================================
