----------------------------- MODULE TFSnapshot -----------------------------
(***************************************************************************)
(* The operations of TFTree step by step, under its mutex: the walk up the *)
(* ancestors that looks for a cycle, and the recursive copy for display.   *)
(* TFTree.tla says what they come to.                                      *)
(*                                                                         *)
(* The copy goes down from the roots and stops below MaxDepth and at a     *)
(* node it has already copied; where it stops it leaves a node with no     *)
(* name behind, which the TF tab shows as an empty line.  A std::map hands *)
(* out siblings in name order; here they come in any order.                *)
(***************************************************************************)
EXTENDS TFTree, Sequences

CONSTANT MaxDepth    \* 64 in the code; the run uses a smaller value

ASSUME DepthAssumption == MaxDepth \in Nat

VARIABLES
  holder,      \* what has mutex_, and how far it is
  args,        \* the arguments of the update in progress
  ancestor,    \* its locals
  seen,
  loops,       \* the calls of copy_node in progress, the innermost last:
               \* the node each one fills and the children it has yet to visit
  visited,
  lines,       \* the nodes copied: frame, the node it is under, and depth
  blanks       \* how many nodes were left without a name

store == <<frames, parent_id, children>>
update == <<args, ancestor, seen>>
copy == <<loops, visited, lines, blanks>>
stepVars == <<vars, holder, update, copy>>

Args(p, c) == [parent |-> p, child |-> c]

Idle == Args(NoFrame, NoFrame)

InitSteps ==
  /\ Init /\ holder = "nobody"
  /\ args = Idle /\ ancestor = NoFrame /\ seen = {}
  /\ loops = << >> /\ visited = {} /\ lines = {} /\ blanks = 0

-----------------------------------------------------------------------------
(***************************************************************************)
(* update_transform                                                        *)
(***************************************************************************)
UpdateStarts(p, c) ==
  /\ holder = "nobody"
  /\ args' = Args(p, c)
  /\ ancestor' = p /\ seen' = {}
  /\ holder' = IF c = NoFrame \/ p = c THEN "refuse" ELSE "walk"
  /\ UNCHANGED <<vars, copy>>

\* Mutants of WalkGoesOn: only two frames are looked at; a parent that
\* is not known is refused; the empty parent of a root is walked to.
WalkGoesOnOnce ==
  /\ holder = "walk" /\ ancestor \notin seen \cup {NoFrame}
  /\ seen' = seen \cup {ancestor}
  /\ IF ancestor = args.child \/ parent_id[ancestor] = args.child
     THEN holder' = "refuse" /\ UNCHANGED ancestor
     ELSE holder' = "store" /\ UNCHANGED ancestor
  /\ UNCHANGED <<vars, args, copy>>

WalkGoesOnKnown ==
  /\ holder = "walk" /\ ancestor \notin seen \cup {NoFrame}
  /\ seen' = seen \cup {ancestor}
  /\ IF ancestor = args.child \/ ancestor \notin frames
     THEN holder' = "refuse" /\ UNCHANGED ancestor
     ELSE ancestor' = parent_id[ancestor] /\ UNCHANGED holder
  /\ UNCHANGED <<vars, args, copy>>

WalkGoesOnEmpty ==
  /\ holder = "walk" /\ ancestor \notin seen
  /\ seen' = seen \cup {ancestor}
  /\ \/ /\ ancestor = args.child
        /\ holder' = "refuse" /\ UNCHANGED ancestor
     \/ /\ ancestor # args.child /\ ancestor \notin frames
        /\ holder' = "store" /\ UNCHANGED ancestor
     \/ /\ ancestor # args.child /\ ancestor \in frames
        /\ ancestor' = parent_id[ancestor] /\ UNCHANGED holder
  /\ UNCHANGED <<vars, args, copy>>

\* One turn of the loop.
WalkGoesOn ==
  /\ holder = "walk" /\ ancestor \notin seen \cup {NoFrame}
  /\ seen' = seen \cup {ancestor}
  /\ \/ /\ ancestor = args.child
        /\ holder' = "refuse" /\ UNCHANGED ancestor
     \/ /\ ancestor # args.child /\ ancestor \notin frames
        /\ holder' = "store" /\ UNCHANGED ancestor
     \/ /\ ancestor # args.child /\ ancestor \in frames
        /\ ancestor' = parent_id[ancestor] /\ UNCHANGED holder
  /\ UNCHANGED <<vars, args, copy>>

WalkEnds ==
  /\ holder = "walk" /\ ancestor \in seen \cup {NoFrame}
  /\ holder' = "store"
  /\ UNCHANGED <<vars, update, copy>>

\* Mutant of UpdateReturns: an update that is refused keeps the mutex.
UpdateReturnsLocked ==
  /\ \/ holder = "refuse" /\ result' = FALSE /\ UNCHANGED store
     \/ holder = "store" /\ Link(args.parent, args.child)
  /\ holder' = IF holder = "store" THEN "nobody" ELSE holder
  /\ args' = Idle /\ ancestor' = NoFrame /\ seen' = {}
  /\ UNCHANGED copy

UpdateReturns ==
  /\ \/ holder = "refuse" /\ result' = FALSE /\ UNCHANGED store
     \/ holder = "store" /\ Link(args.parent, args.child)
  /\ holder' = "nobody"
  /\ args' = Idle /\ ancestor' = NoFrame /\ seen' = {}
  /\ UNCHANGED copy

-----------------------------------------------------------------------------
(***************************************************************************)
(* snapshot                                                                *)
(***************************************************************************)
get_roots == { f \in frames : parent_id[f] = NoFrame }

Loop(f, left) == [of |-> f, left |-> left]
Line(f, under, depth) == [frame |-> f, under |-> under, depth |-> depth]

Top == loops[Len(loops)]
Outer == SubSeq(loops, 1, Len(loops) - 1)

SnapshotStarts ==
  /\ holder = "nobody" /\ holder' = "copy"
  /\ loops' = <<Loop(NoFrame, get_roots)>>
  /\ visited' = {} /\ lines' = {} /\ blanks' = 0
  /\ UNCHANGED <<vars, update>>

\* Mutant of LeavesBlank: the limit is off by one.
LeavesBlankEarly(f, depth) == depth >= MaxDepth \/ f \in visited

LeavesBlank(f, depth) == depth > MaxDepth \/ f \in visited

\* The call that a turn of the innermost loop makes.
copy_node(f) ==
  LET depth == Len(loops) - 1
      rest == Append(Outer, Loop(Top.of, Top.left \ {f}))
  IN /\ holder = "copy" /\ f \in Top.left
     /\ IF LeavesBlank(f, depth)
        THEN /\ loops' = rest /\ blanks' = blanks + 1
             /\ UNCHANGED <<visited, lines>>
        ELSE /\ loops' = Append(rest, Loop(f, children[f]))
             /\ visited' = visited \cup {f}
             /\ lines' = lines \cup {Line(f, Top.of, depth)}
             /\ UNCHANGED blanks
     /\ UNCHANGED <<vars, holder, update>>

\* A call returns, the outermost one with the copy.
LoopEnds ==
  /\ holder = "copy" /\ Top.left = {}
  /\ loops' = Outer
  /\ holder' = IF Len(loops) = 1 THEN "copied" ELSE "copy"
  /\ UNCHANGED <<vars, update, visited, lines, blanks>>

SnapshotReturns ==
  /\ holder = "copied" /\ holder' = "nobody"
  /\ loops' = << >> /\ visited' = {} /\ lines' = {} /\ blanks' = 0
  /\ UNCHANGED <<vars, update>>

-----------------------------------------------------------------------------
Clears ==
  /\ holder = "nobody" /\ clear
  /\ UNCHANGED <<holder, update, copy>>

Works ==
  \/ WalkGoesOn \/ WalkEnds \/ UpdateReturns
  \/ \E f \in Frames : copy_node(f)
  \/ LoopEnds \/ SnapshotReturns

NextSteps ==
  \/ \E p, c \in Names : UpdateStarts(p, c)
  \/ SnapshotStarts
  \/ Clears
  \/ Works

\* Who has the mutex is not kept from running.
SpecSteps == InitSteps /\ [][NextSteps]_stepVars /\ WF_stepVars(Works)

-----------------------------------------------------------------------------
LocalsTyped ==
  /\ holder \in {"nobody", "walk", "refuse", "store", "copy", "copied"}
  /\ args \in [parent : Names, child : Names] /\ ancestor \in Names
  /\ seen \in SUBSET Frames
  /\ loops \in Seq([of : Names, left : SUBSET Frames])
  /\ visited \in SUBSET Frames
  /\ lines \in SUBSET [frame : Frames, under : Names, depth : Nat]
  /\ blanks \in Nat

StepsTyped == TypeOK /\ LocalsTyped

Depth(f) == Cardinality(Ancestors(f)) - 1

(* The walk that looks for a cycle meets no name twice, so that its test   *)
(* for names seen before never decides, and an update is stored after it   *)
(* has met every ancestor of the parent (tf_tree.cpp:27-40).               *)
WalkVisitsAncestors ==
  /\ holder = "walk" => ancestor \notin seen
  /\ holder = "store" => seen = (IF args.parent = NoFrame THEN {} ELSE Ancestors(args.parent))

(* Every known frame down to the depth limit is copied, once, under its    *)
(* own parent and at its own depth, whatever re-parenting happened before  *)
(* (tf_tree.cpp:108-145): no frame is lost between the roots, nor drawn in *)
(* two places.  A nameless node stands for exactly one subtree cut off by  *)
(* the limit: the already-copied test of the copy never fires.             *)
SnapshotComplete ==
  holder = "copied" =>
    /\ lines = { Line(f, parent_id[f], Depth(f)) :
                   f \in { g \in frames : Depth(g) <= MaxDepth } }
    /\ blanks = Cardinality({ f \in frames : Depth(f) = MaxDepth + 1 })

(* Step by step the operations do what TFTree says they do at once: an     *)
(* update stores its own arguments or refuses them as update_transform of  *)
(* TFTree does, and nothing else but clear changes the store.              *)
AtOnce ==
  \/ holder = "nobody" /\ clear
  \/ holder \in {"refuse", "store"} /\ update_transform(args.parent, args.child)

ImplementsTFTree == Init /\ [][AtOnce]_vars

(* Every operation ends, and so never keeps the other threads from the     *)
(* mutex for good (tf_tree_test.cpp:143).                                  *)
OperationsEnd == holder # "nobody" ~> holder = "nobody"
=============================================================================
