-------------------------- MODULE TFSnapshotProofs --------------------------
(***************************************************************************)
(* For every set of frame names and every depth limit: the frame store is  *)
(* always a forest, its two representations of the edges agree, and it     *)
(* implements Forest; the walk up the ancestors decides what TFTree says,  *)
(* so that the steps implement it, and the copy is complete.               *)
(*                                                                         *)
(* "Acyclic" and "Ancestors" are both stated with sets of frames, so that  *)
(* the argument needs no induction: a set of frames that all have their    *)
(* new parent in the set, cut down to the ancestors of the new parent, is  *)
(* such a set for the old parents too, unless the child is among them.     *)
(* The depth of a frame is a number of ancestors: a frame that the copy    *)
(* should have reached and did not has a parent of that kind, and Acyclic  *)
(* says that there are none.                                               *)
(***************************************************************************)
EXTENDS TFSnapshot, FiniteSetTheorems, SequenceTheorems, TLAPS

-----------------------------------------------------------------------------
(***************************************************************************)
(* TFTree: transforms are accepted and refused at once.                    *)
(***************************************************************************)
IInv == TypeOK /\ Acyclic /\ LinksAgree

-----------------------------------------------------------------------------
(* What a walk of update_transform visits contains its start.              *)
LEMMA SelfIsAncestor ==
  ASSUME NEW f \in Frames
  PROVE  f \in Ancestors(f)
BY DEF Ancestors

(* The walk goes on to the parent of every frame it visits.                *)
LEMMA ParentIsAncestor ==
  ASSUME TypeOK, NEW f \in Frames, NEW a \in Ancestors(f),
         parent_id[a] # NoFrame
  PROVE  parent_id[a] \in Ancestors(f)
<1>1. a \in Frames /\ parent_id[a] \in Frames
  BY DEF Ancestors, TypeOK, Names
<1>2. ASSUME NEW S \in SUBSET Frames, f \in S, ClosedUnderParent(S)
      PROVE  parent_id[a] \in S
  <2>1. a \in S
    BY <1>2 DEF Ancestors
  <2> QED
    BY <1>2, <2>1 DEF ClosedUnderParent
<1> QED
  BY <1>1, <1>2 DEF Ancestors

(* Whatever the walk visits after its start, the walk from the next frame  *)
(* visits too.                                                             *)
LEMMA AncestorOfParent ==
  ASSUME TypeOK, NEW f \in Frames, NEW a \in Ancestors(f), a # f
  PROVE  /\ parent_id[f] # NoFrame
         /\ a \in Ancestors(parent_id[f])
<1>1. CASE parent_id[f] = NoFrame
  <2>1. ClosedUnderParent({f})
    BY <1>1 DEF ClosedUnderParent
  <2>2. a \in {f}
    BY <2>1 DEF Ancestors
  <2> QED
    BY <2>2
<1>2. CASE parent_id[f] # NoFrame
  <2> DEFINE p == parent_id[f]
             S == {f} \cup Ancestors(p)
  <2>1. p \in Frames
    BY <1>2 DEF TypeOK, Names
  <2>2. S \in SUBSET Frames
    BY DEF Ancestors
  <2>3. p \in S
    BY <2>1, SelfIsAncestor
  <2>4. \A x \in Ancestors(p) : parent_id[x] # NoFrame => parent_id[x] \in Ancestors(p)
    BY <2>1, ParentIsAncestor
  <2>5. ClosedUnderParent(S)
    BY <2>3, <2>4 DEF ClosedUnderParent
  <2>6. a \in S
    BY <2>2, <2>5 DEF Ancestors
  <2> QED
    BY <1>2, <2>6
<1> QED
  BY <1>1, <1>2

-----------------------------------------------------------------------------
(* An update the guard lets through creates no cycle.                      *)
LEMMA AcceptAcyclic ==
  ASSUME TypeOK, Acyclic, NEW parent \in Names, NEW child \in Names,
         Accept(parent, child)
  PROVE  Acyclic'
<1> SUFFICES ASSUME NEW S \in SUBSET Frames, S # {},
                    \A f \in S : parent_id'[f] \in S
             PROVE  FALSE
  BY DEF Acyclic
<1>1. child \in Frames /\ parent # child
  BY DEF Accept, Link, Refused, Names
<1>2. parent_id' = [parent_id EXCEPT ![child] = parent]
  BY DEF Accept, Link
<1>3. \A f \in Frames : parent_id'[f] = IF f = child THEN parent ELSE parent_id[f]
  BY <1>1, <1>2 DEF TypeOK
<1>4. CASE child \notin S
  BY <1>3, <1>4 DEF Acyclic
<1>5. CASE child \in S
  <2> DEFINE T == S \cap Ancestors(parent)
  <2>1. parent \in S /\ parent \in Frames /\ parent # NoFrame
    BY <1>3, <1>5, TFAssumption
  <2>2. child \notin Ancestors(parent)
    BY <2>1 DEF Accept, Link, Refused
  <2>3. parent \in T
    BY <2>1, SelfIsAncestor
  <2>4. ASSUME NEW f \in T
        PROVE  parent_id[f] \in T
    <3>1. f \in Frames /\ f # child
      BY <2>2
    <3>2. parent_id[f] \in S
      BY <1>3, <3>1
    <3>3. parent_id[f] # NoFrame
      BY <3>2, TFAssumption
    <3> QED
      BY <2>1, <3>2, <3>3, ParentIsAncestor
  <2> QED
    BY <2>3, <2>4 DEF Acyclic
<1> QED
  BY <1>4, <1>5

(* The children maps follow the parent links through an update.            *)
LEMMA AcceptLinksAgree ==
  ASSUME TypeOK, LinksAgree, NEW parent \in Names, NEW child \in Names,
         Accept(parent, child)
  PROVE  LinksAgree'
<1>1. child \in Frames /\ parent # child
  BY DEF Accept, Link, Refused, Names
<1>2. \A f \in Frames : parent_id'[f] = IF f = child THEN parent ELSE parent_id[f]
  BY <1>1 DEF Accept, Link, TypeOK
<1>3. \A p \in Frames : children'[p] =
         IF p = parent THEN children[p] \cup {child}
         ELSE IF p = parent_id[child] THEN children[p] \ {child}
         ELSE children[p]
  BY DEF Accept, Link, Relink
<1>4. frames' = frames \cup ({parent, child} \ {NoFrame})
  BY DEF Accept, Link
<1>5. ASSUME NEW p \in Frames, NEW c \in Frames
      PROVE  c \in children'[p] <=> parent_id'[c] = p
  <2>1. c \in children[p] <=> parent_id[c] = p
    BY DEF LinksAgree
  <2>2. CASE c = child
    <3>1. parent_id'[c] = parent
      BY <1>2, <2>2
    <3>2. CASE p = parent
      BY <1>3, <2>2, <3>1, <3>2
    <3>3. CASE p # parent
      BY <1>3, <2>1, <2>2, <3>1, <3>3
    <3> QED
      BY <3>2, <3>3
  <2>3. CASE c # child
    <3>1. parent_id'[c] = parent_id[c]
      BY <1>2, <2>3
    <3>2. c \in children'[p] <=> c \in children[p]
      BY <1>3, <2>3
    <3> QED
      BY <2>1, <3>1, <3>2
  <2> QED
    BY <2>2, <2>3
<1>6. ASSUME NEW c \in Frames, parent_id'[c] # NoFrame
      PROVE  {c, parent_id'[c]} \subseteq frames'
  <2>1. CASE c = child
    <3>1. parent_id'[c] = parent /\ parent # NoFrame
      BY <1>2, <1>6, <2>1
    <3>2. parent \in frames' /\ child \in frames'
      BY <1>1, <1>4, <3>1, TFAssumption
    <3> QED
      BY <2>1, <3>1, <3>2
  <2>2. CASE c # child
    <3>1. parent_id'[c] = parent_id[c]
      BY <1>2, <2>2
    <3>2. {c, parent_id[c]} \subseteq frames
      BY <1>6, <3>1 DEF LinksAgree
    <3> QED
      BY <1>4, <3>1, <3>2
  <2> QED
    BY <2>1, <2>2
<1> QED
  BY <1>5, <1>6 DEF LinksAgree

(* Every step preserves the type of the store.                             *)
LEMMA TypeStep == TypeOK /\ [Next]_vars => TypeOK'
<1> SUFFICES ASSUME TypeOK, [Next]_vars
             PROVE  TypeOK'
  OBVIOUS
<1>1. ASSUME NEW parent \in Names, NEW child \in Names, Accept(parent, child)
      PROVE  TypeOK'
  <2>1. child \in Frames
    BY <1>1 DEF Accept, Link, Refused, Names
  <2>2. frames' \in SUBSET Frames
    BY <1>1 DEF Accept, Link, TypeOK, Names
  <2>3. parent_id' \in [Frames -> Names]
    BY <1>1, <2>1 DEF Accept, Link, TypeOK
  <2>4. children' \in [Frames -> SUBSET Frames]
    BY <1>1, <2>1 DEF Accept, Link, Relink, TypeOK
  <2>5. result' \in BOOLEAN
    BY <1>1 DEF Accept, Link
  <2> QED
    BY <2>2, <2>3, <2>4, <2>5 DEF TypeOK
<1>2. ASSUME NEW parent \in Names, NEW child \in Names, Reject(parent, child)
      PROVE  TypeOK'
  BY <1>2 DEF Reject, TypeOK
<1>3. CASE clear
  BY <1>3 DEF clear, TypeOK, Names
<1>4. CASE UNCHANGED vars
  BY <1>4 DEF vars, TypeOK
<1> QED
  BY <1>1, <1>2, <1>3, <1>4 DEF Next, update_transform

-----------------------------------------------------------------------------
(* The inductive invariant of the store.                                   *)
LEMMA InvStep == IInv /\ [Next]_vars => IInv'
<1> SUFFICES ASSUME IInv, [Next]_vars
             PROVE  IInv'
  OBVIOUS
<1> USE DEF IInv
<1>1. ASSUME NEW parent \in Names, NEW child \in Names, Accept(parent, child)
      PROVE  Acyclic' /\ LinksAgree'
  BY <1>1, AcceptAcyclic, AcceptLinksAgree
<1>2. ASSUME NEW parent \in Names, NEW child \in Names, Reject(parent, child)
      PROVE  Acyclic' /\ LinksAgree'
  BY <1>2 DEF Reject, Acyclic, LinksAgree
<1>3. ASSUME clear
      PROVE  Acyclic' /\ LinksAgree'
  <2>1. \A f \in Frames : parent_id'[f] = NoFrame /\ children'[f] = {}
    BY <1>3 DEF clear
  <2> QED
    BY <2>1, TFAssumption DEF Acyclic, LinksAgree
<1>4. ASSUME UNCHANGED vars
      PROVE  Acyclic' /\ LinksAgree'
  BY <1>4 DEF vars, Acyclic, LinksAgree
<1> QED
  BY <1>1, <1>2, <1>3, <1>4, TypeStep DEF Next, update_transform

LEMMA InvInit == Init => IInv
BY TFAssumption DEF Init, IInv, TypeOK, Names, Acyclic, LinksAgree

LEMMA InvHolds == Spec => []IInv
BY InvInit, InvStep, PTL DEF Spec

(* The state of the store always has its type.                             *)
THEOREM TFTypeCorrect == Spec => []TypeOK
<1>1. IInv => TypeOK
  BY DEF IInv
<1> QED
  BY <1>1, InvHolds, PTL

(* No sequence of transforms, whatever it re-parents, makes a cycle of     *)
(* frames (update_transform's cycle detection, tf_tree.cpp:18-40).         *)
THEOREM TFAlwaysAcyclic == Spec => []Acyclic
<1>1. IInv => Acyclic
  BY DEF IInv
<1> QED
  BY <1>1, InvHolds, PTL

(* The children maps and the parent links never disagree.                  *)
THEOREM TFLinksAlwaysAgree == Spec => []LinksAgree
<1>1. IInv => LinksAgree
  BY DEF IInv
<1> QED
  BY <1>1, InvHolds, PTL

-----------------------------------------------------------------------------
(* On the edges of the store, Forest's test is the store's Acyclic.        *)
LEMMA SameAcyclic ==
  ASSUME TypeOK, LinksAgree
  PROVE  Abstract!AcyclicEdges(Edges) <=> Acyclic
<1>1. ASSUME NEW S \in SUBSET Frames, NEW f \in S
      PROVE  (\A p \in S : <<p, f>> \notin Edges) <=> parent_id[f] \notin S
  <2>1. \A p \in S : <<p, f>> \in Edges <=> parent_id[f] = p
    BY <1>1 DEF Edges, LinksAgree
  <2> QED
    BY <2>1
<1> QED
  BY <1>1 DEF Acyclic, Abstract!AcyclicEdges

(* A taken update changes the drawn edges as Forest says.                  *)
LEMMA AcceptEdges ==
  ASSUME TypeOK, LinksAgree, LinksAgree',
         NEW parent \in Names, NEW child \in Names, Accept(parent, child)
  PROVE  Edges' = Abstract!AttachEdges(parent, child)
<1>1. child \in Frames /\ parent # child
  BY DEF Accept, Link, Refused, Names
<1>2. \A f \in Frames : parent_id'[f] = IF f = child THEN parent ELSE parent_id[f]
  BY <1>1 DEF Accept, Link, TypeOK
<1>3. ASSUME NEW p \in Frames, NEW c \in Frames
      PROVE  /\ <<p, c>> \in Edges <=> parent_id[c] = p
             /\ <<p, c>> \in Edges' <=> parent_id'[c] = p
  BY <1>3 DEF Edges, LinksAgree
<1>4. ASSUME NEW p \in Frames, NEW c \in Frames
      PROVE  <<p, c>> \in Edges' <=> <<p, c>> \in Abstract!AttachEdges(parent, child)
  <2>1. CASE c = child
    <3>1. <<p, c>> \in Edges' <=> parent = p
      BY <1>2, <1>3, <2>1
    <3>2. <<p, c>> \in Abstract!AttachEdges(parent, child) <=> parent = p
      BY <2>1, TFAssumption DEF Abstract!AttachEdges
    <3> QED
      BY <3>1, <3>2
  <2>2. CASE c # child
    <3>1. <<p, c>> \in Edges' <=> <<p, c>> \in Edges
      BY <1>2, <1>3, <2>2
    <3>2. <<p, c>> \in Abstract!AttachEdges(parent, child) <=> <<p, c>> \in Edges
      BY <2>2 DEF Abstract!AttachEdges
    <3> QED
      BY <3>1, <3>2
  <2> QED
    BY <2>1, <2>2
<1>5. Edges' \subseteq Frames \X Frames
  BY DEF Edges
<1>6. Abstract!AttachEdges(parent, child) \subseteq Frames \X Frames
  BY <1>1 DEF Abstract!AttachEdges, Edges, Names
<1> QED
  BY <1>4, <1>5, <1>6

(* Every update the guard turns down would have closed a cycle.            *)
LEMMA RefusedWouldCycle ==
  ASSUME TypeOK, LinksAgree, NEW parent \in Names, NEW child \in Frames,
         Refused(parent, child)
  PROVE  ~Abstract!AcyclicEdges(Abstract!AttachEdges(parent, child))
<1> DEFINE E == Abstract!AttachEdges(parent, child)
<1>1. \A p, c \in Frames : <<p, c>> \in Edges <=> parent_id[c] = p
  BY DEF Edges, LinksAgree
<1>2. \E S \in SUBSET Frames :
        S # {} /\ \A f \in S : \E p \in S : <<p, f>> \in E
  <2>1. CASE parent = child
    <3>1. <<child, child>> \in E
      BY <2>1, TFAssumption DEF Abstract!AttachEdges
    <3> DEFINE S == {child}
    <3>2. S \in SUBSET Frames /\ S # {} /\ \A f \in S : \E p \in S : <<p, f>> \in E
      BY <3>1
    <3> QED
      BY <3>2
  <2>2. CASE parent # NoFrame /\ child \in Ancestors(parent)
    <3> DEFINE S == { f \in Ancestors(parent) : child \in Ancestors(f) }
    <3>1. parent \in Frames
      BY <2>2 DEF Names
    <3>2. parent \in S
      BY <2>2, <3>1, SelfIsAncestor
    <3>3. <<parent, child>> \in E
      BY <2>2 DEF Abstract!AttachEdges
    <3>4. ASSUME NEW f \in S, f # child
          PROVE  parent_id[f] \in S /\ <<parent_id[f], f>> \in E
      <4>1. f \in Frames
        BY DEF Ancestors
      <4>2. parent_id[f] # NoFrame /\ child \in Ancestors(parent_id[f])
        BY <3>4, <4>1, AncestorOfParent
      <4>3. parent_id[f] \in Ancestors(parent)
        BY <3>1, <4>2, ParentIsAncestor
      <4>4. parent_id[f] \in Frames
        BY <4>3 DEF Ancestors
      <4>5. <<parent_id[f], f>> \in Edges
        BY <1>1, <4>1, <4>4
      <4> QED
        BY <3>4, <4>2, <4>3, <4>5 DEF Abstract!AttachEdges
    <3>5. S \in SUBSET Frames
      BY DEF Ancestors
    <3>6. \A f \in S : \E p \in S : <<p, f>> \in E
      BY <3>2, <3>3, <3>4
    <3> QED
      BY <3>2, <3>5, <3>6
  <2>3. child # NoFrame
    BY TFAssumption
  <2> QED
    BY <2>1, <2>2, <2>3 DEF Refused
<1> QED
  BY <1>2 DEF Abstract!AcyclicEdges

(* The store implements Forest: what is drawn changes only by whole        *)
(* attachments, and update_transform returns false exactly for an update   *)
(* whose outcome would not be a forest (tf_tree.cpp:8-85, 147-150).        *)
THEOREM TFImplementsForest == Spec => ImplementsForest
<1>1. Init => Abstract!Init
  BY DEF Init, Abstract!Init, Edges
<1>2. IInv /\ IInv' /\ [Next]_vars => [Abstract!Next]_(Abstract!vars)
  <2> SUFFICES ASSUME IInv, IInv', [Next]_vars
               PROVE  [Abstract!Next]_(Abstract!vars)
    OBVIOUS
  <2> USE DEF IInv
  <2>1. ASSUME NEW parent \in Names, NEW child \in Names, Accept(parent, child)
        PROVE  Abstract!Attach(parent, child)
    <3>1. Edges' = Abstract!AttachEdges(parent, child)
      BY <2>1, AcceptEdges
    <3>2. Abstract!AcyclicEdges(Edges)'
      BY SameAcyclic, PTL
    <3>3. Abstract!AcyclicEdges(Edges)' <=> Abstract!AcyclicEdges(Edges')
      BY DEF Abstract!AcyclicEdges
    <3>4. child # NoFrame
      BY <2>1 DEF Accept, Link, Refused
    <3> QED
      BY <2>1, <3>1, <3>2, <3>3, <3>4 DEF Accept, Link, Abstract!Attach
  <2>2. ASSUME NEW parent \in Names, NEW child \in Names, Reject(parent, child)
        PROVE  Abstract!Refuse(parent, child)
    <3>1. child = NoFrame \/ ~Abstract!AcyclicEdges(Abstract!AttachEdges(parent, child))
      BY <2>2, RefusedWouldCycle DEF Reject, Names
    <3>2. Edges' = Edges
      BY <2>2 DEF Reject, Edges
    <3> QED
      BY <2>2, <3>1, <3>2 DEF Reject, Abstract!Refuse
  <2>3. ASSUME clear
        PROVE  Abstract!Forget
    BY <2>3 DEF clear, Abstract!Forget, Edges
  <2>4. ASSUME UNCHANGED vars
        PROVE  UNCHANGED Abstract!vars
    BY <2>4 DEF vars, Abstract!vars, Edges
  <2> QED
    BY <2>1, <2>2, <2>3, <2>4
    DEF Next, update_transform, Abstract!Next, Names
<1> QED
  BY <1>1, <1>2, InvHolds, PTL DEF Spec, ImplementsForest, Abstract!Spec

-----------------------------------------------------------------------------
(***************************************************************************)
(* TFSnapshot: the walk and the copy, step by step.                        *)
(***************************************************************************)
KnownFinite == IsFiniteSet(frames)

(***************************************************************************)
(* The walk: what it has seen and what is still above it make up the       *)
(* ancestors of the parent, and the child was not among them so far.       *)
(***************************************************************************)
Above(f) == IF f = NoFrame THEN {} ELSE Ancestors(f)

WalkSound ==
  /\ holder \in {"walk", "store"} =>
       /\ args.child # NoFrame /\ args.parent # args.child
       /\ args.child \notin seen
  /\ holder = "walk" =>
       /\ seen \cup Above(ancestor) = Above(args.parent)
       /\ seen \cap Above(ancestor) = {}
  /\ holder = "store" => seen = Above(args.parent)
  /\ holder = "refuse" => Refused(args.parent, args.child)

(***************************************************************************)
(* The copy: the loops go down one path, each one over children of the     *)
(* node it fills that are not copied yet; what is below a copied node is   *)
(* copied, waits in a loop, or was cut off.                                *)
(***************************************************************************)
LoopSound(i) ==
  /\ loops[i].left \cap visited = {}
  /\ i = 1 => loops[i].of = NoFrame /\ loops[i].left \subseteq get_roots
  /\ i > 1 => /\ loops[i].of \in visited /\ Depth(loops[i].of) = i - 2
              /\ loops[i].left \subseteq children[loops[i].of]

VisitedSound ==
  /\ visited \subseteq frames
  /\ \A f \in visited : Depth(f) <= MaxDepth
  /\ \A f \in visited : parent_id[f] = NoFrame \/ parent_id[f] \in visited
  /\ lines = { Line(f, parent_id[f], Depth(f)) : f \in visited }

Waits(f) == \E i \in 1..Len(loops) : f \in loops[i].left

NothingMissed ==
  \A f \in frames \ visited :
    parent_id[f] = NoFrame \/ parent_id[f] \in visited => Waits(f) \/ Depth(f) > MaxDepth

CutOff ==
  { f \in frames : Depth(f) = MaxDepth + 1 /\ parent_id[f] \in visited /\ ~Waits(f) }

CopySound ==
  holder \in {"copy", "copied"} =>
    /\ holder = "copied" <=> loops = << >>
    /\ \A i \in 1..Len(loops) : LoopSound(i)
    /\ VisitedSound
    /\ NothingMissed
    /\ IsFiniteSet(CutOff) /\ blanks = Cardinality(CutOff)

StepsInv == IInv /\ LocalsTyped /\ KnownFinite /\ WalkSound /\ CopySound

-----------------------------------------------------------------------------
(***************************************************************************)
(* Ancestors and depths.                                                   *)
(***************************************************************************)
(* Only known frames are above a known frame.                              *)
LEMMA AncestorsKnown ==
  ASSUME IInv, NEW f \in frames
  PROVE  Ancestors(f) \subseteq frames
<1>1. frames \in SUBSET Frames
  BY DEF IInv, TypeOK
<1>2. ClosedUnderParent(frames)
  BY <1>1 DEF IInv, LinksAgree, ClosedUnderParent
<1> QED
  BY <1>1, <1>2 DEF Ancestors

(* Above a frame are the frame, its parent and what is above the parent.   *)
LEMMA AncestorsOfChild ==
  ASSUME IInv, NEW f \in Frames, parent_id[f] # NoFrame
  PROVE  /\ parent_id[f] \in Frames
         /\ Ancestors(f) = {f} \cup Ancestors(parent_id[f])
         /\ f \notin Ancestors(parent_id[f])
<1> DEFINE p == parent_id[f]
<1> USE DEF IInv
<1>1. p \in Frames
  BY DEF TypeOK, Names
<1>2. Ancestors(f) \subseteq {f} \cup Ancestors(p)
  BY AncestorOfParent
<1>3. f \in Ancestors(f)
  BY SelfIsAncestor
<1>4. ASSUME NEW a \in Ancestors(p) PROVE a \in Ancestors(f)
  <2> DEFINE S == Ancestors(f)
  <2>1. S \in SUBSET Frames
    BY DEF Ancestors
  <2>2. p \in S
    BY <1>3, ParentIsAncestor
  <2>3. ClosedUnderParent(S)
    BY ParentIsAncestor DEF ClosedUnderParent
  <2> QED
    BY <2>1, <2>2, <2>3 DEF Ancestors
<1>5. ASSUME f \in Ancestors(p) PROVE FALSE
  <2> DEFINE S == { a \in Ancestors(p) : f \in Ancestors(a) }
  <2>1. S \in SUBSET Frames
    BY DEF Ancestors
  <2>2. p \in S
    BY <1>1, <1>5, SelfIsAncestor
  <2>3. ASSUME NEW a \in S PROVE parent_id[a] \in S
    <3>1. a \in Frames
      BY <2>1
    <3>2. CASE a = f
      BY <2>2, <3>2
    <3>3. CASE a # f
      <4>1. parent_id[a] # NoFrame /\ f \in Ancestors(parent_id[a])
        BY <3>1, <3>3, AncestorOfParent
      <4>2. parent_id[a] \in Ancestors(p)
        BY <1>1, <4>1, ParentIsAncestor
      <4> QED
        BY <4>1, <4>2
    <3> QED
      BY <3>2, <3>3
  <2> QED
    BY <2>1, <2>2, <2>3 DEF Acyclic
<1> QED
  BY <1>1, <1>2, <1>3, <1>4, <1>5

(* Nothing is above a root but the root.                                   *)
LEMMA AncestorsOfRoot ==
  ASSUME IInv, NEW f \in Frames, parent_id[f] = NoFrame
  PROVE  Ancestors(f) = {f}
<1>1. \A a \in Ancestors(f) : a = f
  BY AncestorOfParent DEF IInv
<1> QED
  BY <1>1, SelfIsAncestor

(* The depth of a frame is one more than that of its parent.               *)
LEMMA Depths ==
  ASSUME IInv, KnownFinite, NEW f \in frames
  PROVE  /\ f \in Frames
         /\ Depth(f) \in Nat
         /\ parent_id[f] = NoFrame => Depth(f) = 0
         /\ parent_id[f] # NoFrame =>
              parent_id[f] \in frames /\ Depth(f) = Depth(parent_id[f]) + 1
<1>1. f \in Frames
  BY DEF IInv, TypeOK
<1>2. \A g \in frames : IsFiniteSet(Ancestors(g)) /\ Cardinality(Ancestors(g)) \in Nat
  BY AncestorsKnown, FS_Subset, FS_CardinalityType DEF KnownFinite
<1>3. CASE parent_id[f] = NoFrame
  <2>1. Cardinality(Ancestors(f)) = 1
    BY <1>1, <1>3, AncestorsOfRoot, FS_Singleton
  <2> QED
    BY <1>1, <1>3, <2>1 DEF Depth
<1>4. CASE parent_id[f] # NoFrame
  <2> DEFINE p == parent_id[f]
  <2>1. p \in frames
    BY <1>1, <1>4 DEF IInv, LinksAgree
  <2>2. Ancestors(f) = Ancestors(p) \cup {f} /\ f \notin Ancestors(p)
    BY <1>1, <1>4, AncestorsOfChild
  <2>3. Cardinality(Ancestors(f)) = Cardinality(Ancestors(p)) + 1
    BY <1>2, <2>1, <2>2, FS_AddElement
  <2>4. p \in Ancestors(p)
    BY <2>1, SelfIsAncestor DEF IInv, TypeOK
  <2>5. Cardinality(Ancestors(p)) # 0
    BY <1>2, <2>1, <2>4, FS_EmptySet
  <2>6. Cardinality(Ancestors(p)) \in Nat /\ Cardinality(Ancestors(p)) >= 1
    BY <1>2, <2>1, <2>5
  <2> QED
    BY <1>1, <1>4, <2>1, <2>3, <2>6 DEF Depth
<1> QED
  BY <1>3, <1>4

-----------------------------------------------------------------------------
(***************************************************************************)
(* The walk.                                                               *)
(***************************************************************************)
LEMMA WalkGoesOnSound ==
  ASSUME StepsInv, WalkGoesOn
  PROVE  WalkSound'
<1> DEFINE p == args.parent
           c == args.child
           a == ancestor
<1>1. /\ c # NoFrame /\ p # c /\ c \notin seen
      /\ seen \cup Above(a) = Above(p)
      /\ seen \cap Above(a) = {}
  BY DEF StepsInv, WalkSound, WalkGoesOn
<1>2. a \in Frames /\ a # NoFrame
  BY DEF WalkGoesOn, StepsInv, LocalsTyped, Names
<1>3. a \in Above(a) /\ a \in Above(p)
  BY <1>1, <1>2, SelfIsAncestor DEF Above
<1>4. p # NoFrame /\ a \in Ancestors(p)
  BY <1>3 DEF Above
<1>5. /\ args' = args /\ parent_id' = parent_id
      /\ seen' = seen \cup {a}
  BY DEF WalkGoesOn, vars
<1>6. \A f : Above(f)' = Above(f)
  BY <1>5 DEF Above, Ancestors, ClosedUnderParent
<1>7. CASE a = c
  <2>1. holder' = "refuse"
    BY <1>7 DEF WalkGoesOn
  <2>2. Refused(p, c)
    BY <1>4, <1>7 DEF Refused
  <2>3. Refused(args.parent, args.child)'
    BY <1>5, <2>2 DEF Refused, Ancestors, ClosedUnderParent
  <2> QED
    BY <2>1, <2>3 DEF WalkSound
<1>8. CASE a # c /\ a \notin frames
  <2>1. holder' = "store" /\ ancestor' = a
    BY <1>8 DEF WalkGoesOn
  <2>2. parent_id[a] = NoFrame
    BY <1>2, <1>8 DEF StepsInv, IInv, LinksAgree
  <2>3. Above(a) = {a}
    BY <1>2, <2>2, AncestorsOfRoot DEF Above, StepsInv
  <2>4. seen' = Above(p)
    BY <1>1, <1>5, <2>3
  <2> QED
    BY <1>1, <1>5, <1>6, <1>8, <2>1, <2>4 DEF WalkSound
<1>9. CASE a # c /\ a \in frames
  <2>1. holder' = "walk" /\ ancestor' = parent_id[a]
    BY <1>9 DEF WalkGoesOn
  <2>2. Above(a) = {a} \cup Above(parent_id[a]) /\ a \notin Above(parent_id[a])
    <3>1. CASE parent_id[a] = NoFrame
      BY <1>2, <3>1, AncestorsOfRoot DEF Above, StepsInv
    <3>2. CASE parent_id[a] # NoFrame
      BY <1>2, <3>2, AncestorsOfChild DEF Above, StepsInv
    <3> QED
      BY <3>1, <3>2
  <2>3. /\ seen' \cup Above(ancestor)' = Above(args.parent)'
        /\ seen' \cap Above(ancestor)' = {}
    <3> HIDE DEF Above
    <3>1. Above(ancestor)' = Above(parent_id[a]) /\ Above(args.parent)' = Above(p)
      BY <1>5, <2>1 DEF Above, Ancestors, ClosedUnderParent
    <3> QED
      BY <1>1, <1>5, <2>2, <3>1
  <2> QED
    BY <1>1, <1>5, <1>9, <2>1, <2>3 DEF WalkSound
<1> QED
  BY <1>7, <1>8, <1>9

LEMMA WalkEndsSound ==
  ASSUME StepsInv, WalkEnds
  PROVE  WalkSound'
<1>1. /\ args.child # NoFrame /\ args.parent # args.child /\ args.child \notin seen
      /\ seen \cup Above(ancestor) = Above(args.parent)
      /\ seen \cap Above(ancestor) = {}
  BY DEF StepsInv, WalkSound, WalkEnds
<1>2. ancestor = NoFrame
  <2>1. ASSUME ancestor # NoFrame PROVE FALSE
    <3>1. ancestor \in Frames /\ ancestor \in seen
      BY <2>1 DEF WalkEnds, StepsInv, LocalsTyped, Names
    <3>2. ancestor \in Above(ancestor)
      BY <2>1, <3>1, SelfIsAncestor DEF Above
    <3> QED
      BY <1>1, <3>1, <3>2
  <2> QED
    BY <2>1
<1>3. seen = Above(args.parent)
  BY <1>1, <1>2 DEF Above
<1>4. UNCHANGED <<args, seen, parent_id>> /\ holder' = "store"
  BY DEF WalkEnds, vars, update
<1>5. Above(args.parent)' = Above(args.parent)
  BY <1>4 DEF Above, Ancestors, ClosedUnderParent
<1> QED
  BY <1>1, <1>3, <1>4, <1>5 DEF WalkSound

LEMMA UpdateStartsSound ==
  ASSUME NEW p \in Names, NEW c \in Names, UpdateStarts(p, c)
  PROVE  WalkSound'
<1>1. args'.parent = p /\ args'.child = c /\ ancestor' = p /\ seen' = {}
  BY DEF UpdateStarts, Args
<1>2. CASE c = NoFrame \/ p = c
  <2>1. holder' = "refuse"
    BY <1>2 DEF UpdateStarts
  <2> QED
    BY <1>1, <1>2, <2>1 DEF WalkSound, Refused
<1>3. CASE ~(c = NoFrame \/ p = c)
  <2>1. holder' = "walk"
    BY <1>3 DEF UpdateStarts
  <2>2. Above(ancestor)' = Above(args.parent)'
    BY <1>1
  <2> QED
    BY <1>1, <1>3, <2>1, <2>2 DEF WalkSound
<1> QED
  BY <1>2, <1>3

-----------------------------------------------------------------------------
(***************************************************************************)
(* The copy.                                                               *)
(***************************************************************************)
\* The loops, with the innermost one at f, left with these.
Narrowed(f) == Append(Outer, Loop(Top.of, Top.left \ {f}))

LEMMA LoopsTyped ==
  ASSUME LocalsTyped, loops # << >>
  PROVE  /\ Len(loops) \in Nat /\ Len(loops) >= 1
         /\ \A i \in 1..Len(loops) :
              loops[i] \in [of : Names, left : SUBSET Frames]
         /\ Outer \in Seq([of : Names, left : SUBSET Frames])
         /\ Len(Outer) = Len(loops) - 1
         /\ \A i \in 1..(Len(loops) - 1) : Outer[i] = loops[i]
<1> DEFINE R == [of : Names, left : SUBSET Frames]
<1>1. loops \in Seq(R)
  BY DEF LocalsTyped
<1> HIDE DEF R
<1>2. Len(loops) \in Nat /\ Len(loops) >= 1 /\ \A i \in 1..Len(loops) : loops[i] \in R
  BY <1>1
<1>3. /\ Outer \in Seq(R) /\ Len(Outer) = Len(loops) - 1
      /\ \A i \in 1..(Len(loops) - 1) : Outer[i] = loops[i]
  <2>1. 1 \in Int /\ Len(loops) - 1 \in Int /\ \A i \in 1..(Len(loops) - 1) : loops[i] \in R
    BY <1>2
  <2> DEFINE m == Len(loops) - 1
  <2>2. /\ SubSeq(loops, 1, m) \in Seq(R)
        /\ Len(SubSeq(loops, 1, m)) = IF 1 <= m THEN m - 1 + 1 ELSE 0
        /\ \A i \in 1..(m - 1 + 1) : SubSeq(loops, 1, m)[i] = loops[1 + i - 1]
    BY <2>1, SubSeqProperties
  <2>3. m - 1 + 1 = m /\ m \in Nat /\ \A i \in 1..m : 1 + i - 1 = i
    BY <1>2
  <2> QED
    BY <2>2, <2>3 DEF Outer
<1> QED
  BY <1>2, <1>3 DEF R

LEMMA NarrowedLoops ==
  ASSUME LocalsTyped, loops # << >>, NEW f
  PROVE  /\ Narrowed(f) \in Seq([of : Names, left : SUBSET Frames])
         /\ Len(Narrowed(f)) = Len(loops)
         /\ \A i \in 1..Len(loops) :
              /\ Narrowed(f)[i].of = loops[i].of
              /\ Narrowed(f)[i].left =
                   IF i = Len(loops) THEN loops[i].left \ {f} ELSE loops[i].left
<1> DEFINE R == [of : Names, left : SUBSET Frames]
           l == Loop(Top.of, Top.left \ {f})
<1>1. Top \in R
  BY LoopsTyped DEF Top
<1>2. l \in R
  BY <1>1 DEF Loop
<1>3. l.of = Top.of /\ l.left = Top.left \ {f}
  BY DEF Loop
<1> HIDE DEF l, R
<1>4. /\ Append(Outer, l) \in Seq(R)
      /\ Len(Append(Outer, l)) = Len(loops)
      /\ \A i \in 1..Len(loops) : Append(Outer, l)[i] = IF i = Len(loops) THEN l ELSE loops[i]
  <2>1. Outer \in Seq(R) /\ Len(Outer) = Len(loops) - 1 /\ Len(loops) \in Nat /\ Len(loops) >= 1
    BY LoopsTyped DEF R
  <2>2. \A i \in 1..(Len(loops) - 1) : Outer[i] = loops[i]
    BY LoopsTyped
  <2> QED
    BY <1>2, <2>1, <2>2
<1> QED
  BY <1>3, <1>4 DEF Narrowed, l, R, Top

(* A frame waits in one loop at most, that of its parent, and that loop is *)
(* as deep as the frame.                                                   *)
LEMMA WaitsAtDepth ==
  ASSUME StepsInv, holder = "copy", NEW i \in 1..Len(loops), NEW f \in loops[i].left
  PROVE  /\ f \in frames \ visited
         /\ parent_id[f] = loops[i].of
         /\ Depth(f) = i - 1
         /\ i = 1 <=> parent_id[f] = NoFrame
         /\ i > 1 => parent_id[f] \in visited
<1>1. IInv /\ KnownFinite /\ LoopSound(i) /\ VisitedSound
  BY DEF StepsInv, CopySound
<1>2. i \in Nat /\ i >= 1
  BY LoopsTyped DEF StepsInv, LocalsTyped
<1>3. f \notin visited
  BY <1>1 DEF LoopSound
<1>4. CASE i = 1
  <2>1. loops[i].of = NoFrame /\ f \in frames /\ parent_id[f] = NoFrame
    BY <1>1, <1>4 DEF LoopSound, get_roots
  <2> QED
    BY <1>1, <1>3, <1>4, <2>1, Depths
<1>5. CASE i > 1
  <2> DEFINE p == loops[i].of
  <2>1. p \in visited /\ Depth(p) = i - 2 /\ f \in children[p]
    BY <1>1, <1>5 DEF LoopSound
  <2>2. p \in frames /\ p \in Frames /\ p # NoFrame
    BY <1>1, <2>1, TFAssumption DEF VisitedSound, IInv, TypeOK
  <2>3. f \in Frames
    BY <1>1, <2>1, <2>2 DEF IInv, TypeOK
  <2>4. parent_id[f] = p /\ f \in frames
    BY <1>1, <2>1, <2>2, <2>3 DEF IInv, LinksAgree
  <2>5. Depth(f) = Depth(p) + 1
    BY <1>1, <2>2, <2>4, Depths
  <2> QED
    BY <1>2, <1>3, <1>5, <2>1, <2>2, <2>4, <2>5
<1> QED
  BY <1>2, <1>4, <1>5

LEMMA SnapshotStartsSound ==
  ASSUME StepsInv, SnapshotStarts
  PROVE  CopySound'
<1>1. /\ holder' = "copy" /\ loops' = <<Loop(NoFrame, get_roots)>>
      /\ visited' = {} /\ lines' = {} /\ blanks' = 0
      /\ UNCHANGED <<frames, parent_id, children>>
  BY DEF SnapshotStarts, vars
<1>2. Len(loops') = 1 /\ loops' # << >>
  BY <1>1
<1>3. loops'[1].of = NoFrame /\ loops'[1].left = get_roots
  BY <1>1 DEF Loop
<1>4. get_roots' = get_roots
  BY <1>1 DEF get_roots
<1>5. \A i \in 1..Len(loops') : LoopSound(i)'
  BY <1>1, <1>2, <1>3, <1>4 DEF LoopSound
<1>6. VisitedSound'
  BY <1>1 DEF VisitedSound
<1>7. NothingMissed'
  <2>1. ASSUME NEW f \in frames, parent_id[f] = NoFrame
        PROVE  \E i \in 1..Len(loops') : f \in loops'[i].left
    BY <1>2, <1>3, <2>1 DEF get_roots
  <2> QED
    BY <1>1, <2>1 DEF NothingMissed, Waits
<1>8. CutOff' = {}
  BY <1>1 DEF CutOff
<1>9. IsFiniteSet(CutOff') /\ blanks' = Cardinality(CutOff')
  BY <1>1, <1>8, FS_EmptySet
<1> QED
  BY <1>1, <1>2, <1>5, <1>6, <1>7, <1>9 DEF CopySound

(* A call that leaves a blank is one for a frame just below the limit.     *)
LEMMA BlankSound ==
  ASSUME StepsInv, NEW f \in Frames, copy_node(f), LeavesBlank(f, Len(loops) - 1)
  PROVE  CopySound'
<1> DEFINE n == Len(loops)
<1>1. /\ holder = "copy" /\ f \in Top.left
      /\ loops' = Narrowed(f) /\ blanks' = blanks + 1
      /\ UNCHANGED <<holder, frames, parent_id, children, visited, lines>>
  BY DEF copy_node, Narrowed, vars
<1>2. /\ loops # << >> /\ VisitedSound /\ NothingMissed
      /\ \A i \in 1..n : LoopSound(i)
      /\ IsFiniteSet(CutOff) /\ blanks = Cardinality(CutOff)
  BY <1>1 DEF StepsInv, CopySound
<1>3. LocalsTyped /\ n \in Nat /\ n >= 1 /\ f \in loops[n].left
  BY <1>1, <1>2, LoopsTyped DEF StepsInv, Top
<1>4. /\ Len(loops') = n
      /\ \A i \in 1..n :
           /\ loops'[i].of = loops[i].of
           /\ loops'[i].left = IF i = n THEN loops[i].left \ {f} ELSE loops[i].left
  BY <1>1, <1>2, <1>3, NarrowedLoops
<1>5. /\ f \in frames \ visited /\ Depth(f) = n - 1
      /\ n = 1 <=> parent_id[f] = NoFrame
      /\ n > 1 => parent_id[f] \in visited
  <2>1. n \in 1..Len(loops)
    BY <1>3
  <2> QED
    BY <1>1, <1>3, <2>1, WaitsAtDepth
<1>6. \A g : Depth(g)' = Depth(g)
  BY <1>1 DEF Depth, Ancestors, ClosedUnderParent
<1>7. n > 1 /\ parent_id[f] \in visited /\ Depth(f) = MaxDepth + 1
  <2>1. n - 1 > MaxDepth
    BY <1>5 DEF LeavesBlank
  <2>2. n > 1 /\ parent_id[f] \in visited
    BY <1>3, <1>5, <2>1, DepthAssumption
  <2>3. Depth(parent_id[f]) <= MaxDepth
    BY <1>2, <2>2 DEF VisitedSound
  <2>4. Depth(parent_id[f]) = Depth(f) - 1
    <3>1. /\ parent_id[f] \in frames /\ Depth(f) = Depth(parent_id[f]) + 1
      BY <1>5, <2>2, Depths DEF StepsInv
    <3>2. Depth(parent_id[f]) \in Nat
      BY <3>1, Depths DEF StepsInv
    <3> QED
      BY <3>1, <3>2
  <2> QED
    BY <1>3, <1>5, <2>1, <2>2, <2>3, <2>4, DepthAssumption
<1>8. \A g : Waits(g)' <=> Waits(g) /\ g # f
  <2>1. ASSUME NEW i \in 1..n, f \in loops[i].left PROVE i = n
    BY <1>1, <1>3, <1>5, <2>1, WaitsAtDepth
  <2>2. \A g : Waits(g)' <=> \E i \in 1..n : g \in loops'[i].left
    BY <1>4 DEF Waits
  <2> QED
    BY <1>3, <1>4, <2>1, <2>2 DEF Waits
<1>9. \A i \in 1..Len(loops') : LoopSound(i)'
  <2> TAKE i \in 1..Len(loops')
  <2>1. LoopSound(i) /\ i \in 1..n
    BY <1>2, <1>4
  <2>2. get_roots' = get_roots
    BY <1>1 DEF get_roots
  <2>3. loops'[i].of = loops[i].of /\ loops'[i].left \subseteq loops[i].left
    BY <1>4, <2>1
  <2>4. Depth(loops[i].of)' = Depth(loops[i].of)
    BY <1>1, <2>3 DEF Depth, Ancestors, ClosedUnderParent
  <2> QED
    BY <1>1, <2>1, <2>2, <2>3, <2>4 DEF LoopSound
<1>10. VisitedSound'
  BY <1>1, <1>2, <1>6 DEF VisitedSound
<1>11. NothingMissed'
  <2> SUFFICES ASSUME NEW g \in frames \ visited, parent_id[g] = NoFrame \/ parent_id[g] \in visited
               PROVE  Waits(g)' \/ Depth(g) > MaxDepth
    BY <1>1, <1>6 DEF NothingMissed
  <2>1. Waits(g) \/ Depth(g) > MaxDepth
    BY <1>2 DEF NothingMissed
  <2> QED
    BY <1>7, <1>8, <2>1, DepthAssumption
<1>12. CutOff' = CutOff \cup {f} /\ f \notin CutOff
  <2>1. Waits(f)
    BY <1>3 DEF Waits
  <2> QED
    BY <1>1, <1>5, <1>6, <1>7, <1>8, <2>1 DEF CutOff
<1>13. IsFiniteSet(CutOff') /\ blanks' = Cardinality(CutOff')
  BY <1>1, <1>2, <1>12, FS_AddElement
<1>14. loops' # << >>
  BY <1>3, <1>4
<1> QED
  BY <1>1, <1>9, <1>10, <1>11, <1>13, <1>14 DEF CopySound

(* A call that copies a frame has its children wait, which are not copied  *)
(* yet: the parent of a copied frame is.                                   *)
LEMMA CopiedSound ==
  ASSUME StepsInv, NEW f \in Frames, copy_node(f), ~LeavesBlank(f, Len(loops) - 1)
  PROVE  CopySound'
<1> DEFINE n == Len(loops)
<1>1. /\ holder = "copy" /\ f \in Top.left
      /\ loops' = Append(Narrowed(f), Loop(f, children[f]))
      /\ visited' = visited \cup {f}
      /\ lines' = lines \cup {Line(f, Top.of, n - 1)}
      /\ UNCHANGED <<holder, frames, parent_id, children, blanks>>
  BY DEF copy_node, Narrowed, vars
<1>2. /\ loops # << >> /\ VisitedSound /\ NothingMissed
      /\ \A i \in 1..n : LoopSound(i)
      /\ IsFiniteSet(CutOff) /\ blanks = Cardinality(CutOff)
  BY <1>1 DEF StepsInv, CopySound
<1>3. LocalsTyped /\ n \in Nat /\ n >= 1 /\ f \in loops[n].left
  BY <1>1, <1>2, LoopsTyped DEF StepsInv, Top
<1>4. /\ Len(loops') = n + 1
      /\ \A i \in 1..n :
           /\ loops'[i].of = loops[i].of
           /\ loops'[i].left = IF i = n THEN loops[i].left \ {f} ELSE loops[i].left
      /\ loops'[n + 1].of = f /\ loops'[n + 1].left = children[f]
  <2> DEFINE s == Narrowed(f)
             l == Loop(f, children[f])
  <2>1. /\ s \in Seq([of : Names, left : SUBSET Frames]) /\ Len(s) = n
        /\ \A i \in 1..n :
             /\ s[i].of = loops[i].of
             /\ s[i].left = IF i = n THEN loops[i].left \ {f} ELSE loops[i].left
    BY <1>2, <1>3, NarrowedLoops
  <2>2. l.of = f /\ l.left = children[f]
    BY DEF Loop
  <2>3. loops' = Append(s, l)
    BY <1>1
  <2> HIDE DEF s, l
  <2>4. /\ Len(loops') = n + 1 /\ loops'[n + 1] = l
        /\ \A i \in 1..n : loops'[i] = s[i]
    BY <1>3, <2>1, <2>3
  <2> QED
    BY <2>1, <2>2, <2>4
<1>5. /\ f \in frames \ visited /\ Depth(f) = n - 1 /\ parent_id[f] = loops[n].of
      /\ n = 1 <=> parent_id[f] = NoFrame
      /\ n > 1 => parent_id[f] \in visited
  <2>1. n \in 1..Len(loops)
    BY <1>3
  <2> QED
    BY <1>1, <1>3, <2>1, WaitsAtDepth
<1>6. \A g : Depth(g)' = Depth(g)
  BY <1>1 DEF Depth, Ancestors, ClosedUnderParent
<1>7. Depth(f) <= MaxDepth
  BY <1>3, <1>5, DepthAssumption DEF LeavesBlank
<1>8. IInv /\ KnownFinite /\ f # NoFrame
  BY TFAssumption DEF StepsInv
<1>9. \A g \in Frames : g \in children[f] <=> parent_id[g] = f
  BY <1>8 DEF IInv, LinksAgree
<1>10. children[f] \cap (visited \cup {f}) = {}
  <2>1. ASSUME NEW g \in visited, g \in children[f] PROVE FALSE
    <3>1. g \in Frames /\ parent_id[g] = f
      BY <1>2, <1>8, <1>9, <2>1 DEF VisitedSound, IInv, TypeOK
    <3> QED
      BY <1>2, <1>5, <1>8, <2>1, <3>1 DEF VisitedSound
  <2>2. f \notin children[f]
    <3>1. parent_id[f] # f
      <4> HIDE DEF n
      <4>1. n = 1 \/ n > 1
        BY <1>3
      <4>2. parent_id[f] = NoFrame \/ parent_id[f] \in visited
        BY <1>5, <4>1
      <4> QED
        BY <1>5, <1>8, <4>2
    <3> QED
      BY <1>9, <3>1
  <2> QED
    BY <2>1, <2>2
<1>11. \A g : Waits(g)' <=> (Waits(g) /\ g # f) \/ g \in children[f]
  <2>1. ASSUME NEW i \in 1..n, f \in loops[i].left PROVE i = n
    BY <1>1, <1>3, <1>5, <2>1, WaitsAtDepth
  <2>2. \A g : Waits(g)' <=> \E i \in 1..(n + 1) : g \in loops'[i].left
    BY <1>4 DEF Waits
  <2>3. \A g : (\E i \in 1..(n + 1) : g \in loops'[i].left) <=>
                 (\E i \in 1..n : g \in loops'[i].left) \/ g \in loops'[n + 1].left
    BY <1>3
  <2>4. \A g : (\E i \in 1..n : g \in loops'[i].left) <=> Waits(g) /\ g # f
    BY <1>3, <1>4, <2>1 DEF Waits
  <2> QED
    BY <1>4, <2>2, <2>3, <2>4
<1>12. \A i \in 1..Len(loops') : LoopSound(i)'
  <2> TAKE i \in 1..Len(loops')
  <2>1. CASE i \in 1..n
    <3>1. LoopSound(i)
      BY <1>2, <2>1
    <3>2. get_roots' = get_roots
      BY <1>1 DEF get_roots
    <3>3. loops'[i].of = loops[i].of /\ loops'[i].left \subseteq loops[i].left
      BY <1>4, <2>1
    <3>4. f \notin loops'[i].left
      <4>1. ASSUME f \in loops[i].left PROVE i = n
        BY <1>1, <1>3, <1>5, <2>1, <4>1, WaitsAtDepth
      <4> QED
        BY <1>4, <2>1, <4>1
    <3>5. Depth(loops[i].of)' = Depth(loops[i].of)
      BY <1>1, <3>3 DEF Depth, Ancestors, ClosedUnderParent
    <3> QED
      BY <1>1, <3>1, <3>2, <3>3, <3>4, <3>5 DEF LoopSound
  <2>2. CASE i = n + 1
    <3>1. i > 1 /\ i # 1 /\ i - 2 = n - 1
      BY <1>3, <2>2
    <3>2. Depth(loops[i].of)' = n - 1
      <4>1. Depth(loops[i].of)' = Depth(f)
        BY <1>1, <1>4, <2>2 DEF Depth, Ancestors, ClosedUnderParent
      <4> QED
        BY <1>5, <4>1
    <3> QED
      BY <1>1, <1>4, <1>10, <2>2, <3>1, <3>2 DEF LoopSound
  <2> QED
    BY <1>3, <1>4, <2>1, <2>2
<1>13. VisitedSound'
  <2>1. Line(f, Top.of, n - 1) = Line(f, parent_id[f], Depth(f))
    BY <1>5 DEF Top
  <2>2. { Line(g, parent_id[g], Depth(g)) : g \in visited \cup {f} } =
          { Line(g, parent_id[g], Depth(g)) : g \in visited } \cup {Line(f, parent_id[f], Depth(f))}
    OBVIOUS
  <2>3. lines' = { Line(g, parent_id[g], Depth(g)) : g \in visited' }
    BY <1>1, <1>2, <2>1, <2>2 DEF VisitedSound
  <2>4. lines' = { Line(g, parent_id'[g], Depth(g)') : g \in visited' }
    BY <1>1, <1>6, <2>3
  <2>5. /\ visited' \subseteq frames' /\ \A g \in visited' : Depth(g)' <= MaxDepth
        /\ \A g \in visited' : parent_id'[g] = NoFrame \/ parent_id'[g] \in visited'
    <3>1. parent_id[f] = NoFrame \/ parent_id[f] \in visited
      <4> HIDE DEF n
      <4>1. n = 1 \/ n > 1
        BY <1>3
      <4> QED
        BY <1>5, <4>1
    <3> QED
      BY <1>1, <1>2, <1>5, <1>6, <1>7, <3>1 DEF VisitedSound
  <2> QED
    BY <2>4, <2>5 DEF VisitedSound
<1>14. NothingMissed'
  <2> SUFFICES ASSUME NEW g \in frames \ (visited \cup {f}),
                      parent_id[g] = NoFrame \/ parent_id[g] \in visited \cup {f}
               PROVE  Waits(g)' \/ Depth(g) > MaxDepth
    BY <1>1, <1>6 DEF NothingMissed
  <2>1. CASE parent_id[g] = f
    BY <1>8, <1>9, <1>11, <2>1 DEF IInv, TypeOK
  <2>2. CASE parent_id[g] # f
    BY <1>2, <1>11, <2>2 DEF NothingMissed
  <2> QED
    BY <2>1, <2>2
<1>15. CutOff' = CutOff
  <2>1. ASSUME NEW g \in frames, Depth(g) = MaxDepth + 1
        PROVE  (parent_id[g] \in visited /\ ~Waits(g)) <=> (parent_id[g] \in visited \cup {f} /\ ~Waits(g)')
    <3>1. g \in Frames /\ g # f
      BY <1>7, <1>8, <2>1, DepthAssumption DEF IInv, TypeOK
    <3> QED
      BY <1>5, <1>9, <1>11, <3>1
  <2> QED
    BY <1>1, <1>6, <2>1 DEF CutOff
<1>16. loops' # << >>
  BY <1>3, <1>4
<1> QED
  BY <1>1, <1>2, <1>12, <1>13, <1>14, <1>15, <1>16 DEF CopySound

(* When a loop ends, nothing waits in it.                                  *)
LEMMA LoopEndsSound ==
  ASSUME StepsInv, LoopEnds
  PROVE  CopySound'
<1> DEFINE n == Len(loops)
<1>1. /\ holder = "copy" /\ Top.left = {} /\ loops' = Outer
      /\ holder' = IF n = 1 THEN "copied" ELSE "copy"
      /\ UNCHANGED <<frames, parent_id, children, visited, lines, blanks>>
  BY DEF LoopEnds, vars
<1>2. /\ loops # << >> /\ VisitedSound /\ NothingMissed
      /\ \A i \in 1..n : LoopSound(i)
      /\ IsFiniteSet(CutOff) /\ blanks = Cardinality(CutOff)
  BY <1>1 DEF StepsInv, CopySound
<1>3. /\ LocalsTyped /\ n \in Nat /\ n >= 1
      /\ Len(loops') = n - 1 /\ loops' \in Seq([of : Names, left : SUBSET Frames])
      /\ \A i \in 1..(n - 1) : loops'[i] = loops[i]
  BY <1>1, <1>2, LoopsTyped DEF StepsInv
<1>4. \A g : Depth(g)' = Depth(g)
  BY <1>1 DEF Depth, Ancestors, ClosedUnderParent
<1>5. \A g : Waits(g)' <=> Waits(g)
  <2>1. \A g : Waits(g)' <=> \E i \in 1..(n - 1) : g \in loops[i].left
    BY <1>3 DEF Waits
  <2>2. loops[n].left = {}
    BY <1>1 DEF Top
  <2> QED
    BY <1>3, <2>1, <2>2 DEF Waits
<1>6. \A i \in 1..Len(loops') : LoopSound(i)'
  <2> TAKE i \in 1..Len(loops')
  <2>1. LoopSound(i) /\ loops'[i] = loops[i]
    BY <1>2, <1>3
  <2>2. get_roots' = get_roots /\ Depth(loops[i].of)' = Depth(loops[i].of)
    BY <1>1, <2>1 DEF get_roots, Depth, Ancestors, ClosedUnderParent
  <2> QED
    BY <1>1, <2>1, <2>2 DEF LoopSound
<1>7. VisitedSound' /\ NothingMissed' /\ CutOff' = CutOff
  BY <1>1, <1>2, <1>4, <1>5 DEF VisitedSound, NothingMissed, CutOff
<1>8. holder' = "copied" <=> loops' = << >>
  BY <1>1, <1>3
<1> QED
  BY <1>1, <1>2, <1>6, <1>7, <1>8 DEF CopySound

-----------------------------------------------------------------------------
(***************************************************************************)
(* What the steps do to the store, and that they keep the invariant.       *)
(***************************************************************************)
LEMMA StepIsAtOnce ==
  ASSUME StepsInv, [NextSteps]_stepVars
  PROVE  [AtOnce]_vars
<1>1. CASE UpdateReturns
  <2> DEFINE p == args.parent
             c == args.child
  <2>1. CASE holder = "refuse"
    <3>1. Reject(p, c)
      BY <1>1, <2>1 DEF UpdateReturns, StepsInv, WalkSound, Reject, store
    <3> QED
      BY <2>1, <3>1 DEF AtOnce, update_transform
  <2>2. CASE holder = "store"
    <3>1. Link(p, c)
      BY <1>1, <2>2 DEF UpdateReturns
    <3>2. ~Refused(p, c)
      BY <2>2 DEF StepsInv, WalkSound, Above, Refused
    <3> QED
      BY <2>2, <3>1, <3>2 DEF AtOnce, update_transform, Accept
  <2> QED
    BY <1>1, <2>1, <2>2 DEF UpdateReturns
<1>2. CASE Clears
  BY <1>2 DEF Clears, AtOnce
<1>3. CASE ~UpdateReturns /\ ~Clears
  <2>1. CASE UNCHANGED stepVars
    BY <2>1 DEF stepVars
  <2>2. ASSUME NEW p \in Names, NEW c \in Names, UpdateStarts(p, c) PROVE UNCHANGED vars
    BY <2>2 DEF UpdateStarts
  <2>3. ASSUME NEW f \in Frames, copy_node(f) PROVE UNCHANGED vars
    BY <2>3 DEF copy_node
  <2> QED
    BY <1>3, <2>1, <2>2, <2>3
    DEF NextSteps, Works, WalkGoesOn, WalkEnds, SnapshotStarts, LoopEnds, SnapshotReturns
<1> QED
  BY <1>1, <1>2, <1>3

LEMMA StepIsTFTreeStep ==
  ASSUME StepsInv, [NextSteps]_stepVars
  PROVE  [Next]_vars
<1>1. args.parent \in Names /\ args.child \in Names
  BY DEF StepsInv, LocalsTyped
<1> QED
  BY <1>1, StepIsAtOnce DEF AtOnce, Next

LEMMA KnownStaysFinite ==
  ASSUME StepsInv, [Next]_vars
  PROVE  KnownFinite'
<1>1. ASSUME NEW p \in Names, NEW c \in Names, Accept(p, c)
      PROVE  IsFiniteSet(frames')
  <2>1. IsFiniteSet({p} \cup {c})
    BY FS_Singleton, FS_Union
  <2>2. IsFiniteSet({p, c} \ {NoFrame})
    BY <2>1, FS_Subset
  <2> QED
    BY <1>1, <2>2, FS_Union DEF Accept, Link, StepsInv, KnownFinite
<1>2. ASSUME clear PROVE IsFiniteSet(frames')
  BY <1>2, FS_EmptySet DEF clear
<1>3. ASSUME UNCHANGED frames PROVE IsFiniteSet(frames')
  BY <1>3 DEF StepsInv, KnownFinite
<1> QED
  BY <1>1, <1>2, <1>3 DEF Next, vars, update_transform, Reject, KnownFinite

LEMMA LocalsStayTyped ==
  ASSUME StepsInv, [NextSteps]_stepVars
  PROVE  LocalsTyped'
<1> USE DEF StepsInv, LocalsTyped
<1>1. /\ frames \in SUBSET Frames /\ parent_id \in [Frames -> Names]
      /\ children \in [Frames -> SUBSET Frames]
  BY DEF IInv, TypeOK
<1>2. ASSUME NEW p \in Names, NEW c \in Names, UpdateStarts(p, c) PROVE LocalsTyped'
  BY <1>2 DEF UpdateStarts, Args, copy
<1>3. CASE SnapshotStarts
  <2>1. Loop(NoFrame, get_roots) \in [of : Names, left : SUBSET Frames]
    BY <1>1 DEF Loop, get_roots, Names
  <2>2. loops' \in Seq([of : Names, left : SUBSET Frames])
    BY <1>3, <2>1 DEF SnapshotStarts
  <2> QED
    BY <1>3, <2>2 DEF SnapshotStarts, update
<1>4. CASE Clears
  BY <1>4 DEF Clears, update, copy
<1>5. CASE WalkGoesOn
  <2>1. ancestor \in Frames
    BY <1>5 DEF WalkGoesOn, Names
  <2> QED
    BY <1>1, <1>5, <2>1 DEF WalkGoesOn, copy
<1>6. CASE WalkEnds
  BY <1>6 DEF WalkEnds, update, copy
<1>7. CASE UpdateReturns
  BY <1>7 DEF UpdateReturns, copy, Idle, Args, Names
<1>8. ASSUME NEW f \in Frames, copy_node(f) PROVE LocalsTyped'
  <2> DEFINE n == Len(loops)
             R == [of : Names, left : SUBSET Frames]
  <2>1. loops # << >>
    BY <1>8 DEF copy_node, CopySound
  <2>2. n \in Nat /\ n >= 1 /\ loops[n] \in R
    BY <2>1, LoopsTyped
  <2>3. Narrowed(f) \in Seq(R)
    BY <2>1, NarrowedLoops
  <2>4. Loop(f, children[f]) \in R
    BY <1>1 DEF Loop, Names
  <2>5. Append(Narrowed(f), Loop(f, children[f])) \in Seq(R)
    BY <2>3, <2>4, AppendProperties
  <2>6. loops' \in Seq(R)
    BY <1>8, <2>3, <2>5 DEF copy_node, Narrowed
  <2>7. Top.of \in Names
    BY <2>2 DEF Top
  <2>8. n - 1 \in Nat
    <3> HIDE DEF n
    <3> QED  BY <2>2
  <2>9. Line(f, Top.of, n - 1) \in [frame : Frames, under : Names, depth : Nat]
    BY <2>7, <2>8 DEF Line
  <2>10. /\ visited' \in SUBSET Frames /\ blanks' \in Nat
         /\ lines' \in SUBSET [frame : Frames, under : Names, depth : Nat]
    BY <1>8, <2>9 DEF copy_node
  <2> QED
    BY <1>8, <2>6, <2>10 DEF copy_node, update
<1>9. CASE LoopEnds
  <2>1. loops # << >>
    BY <1>9 DEF LoopEnds, CopySound
  <2>2. loops' \in Seq([of : Names, left : SUBSET Frames])
    BY <1>9, <2>1, LoopsTyped DEF LoopEnds
  <2> QED
    BY <1>9, <2>2 DEF LoopEnds, update
<1>10. CASE SnapshotReturns
  BY <1>10 DEF SnapshotReturns, update
<1>11. CASE UNCHANGED stepVars
  BY <1>11 DEF stepVars, update, copy
<1> QED
  BY <1>2, <1>3, <1>4, <1>5, <1>6, <1>7, <1>8, <1>9, <1>10, <1>11 DEF NextSteps, Works

(* An invariant that speaks of one operation is kept by all that leave its *)
(* variables and the store alone.                                          *)
LEMMA WalkUndisturbed ==
  ASSUME WalkSound, UNCHANGED <<holder, update, store>>
  PROVE  WalkSound'
<1>1. \A f : Above(f)' = Above(f)
  BY DEF Above, Ancestors, ClosedUnderParent, store
<1>2. \A f, g : Refused(f, g)' <=> Refused(f, g)
  BY DEF Refused, Ancestors, ClosedUnderParent, store
<1>3. UNCHANGED <<holder, args, ancestor, seen>>
  BY DEF update
<1>4. /\ Above(args.parent)' = Above(args.parent) /\ Above(ancestor)' = Above(ancestor)
      /\ Refused(args.parent, args.child)' <=> Refused(args.parent, args.child)
  BY <1>3 DEF Above, Refused, Ancestors, ClosedUnderParent, store
<1> QED
  BY <1>3, <1>4 DEF WalkSound

LEMMA CopyUndisturbed ==
  ASSUME CopySound, UNCHANGED <<holder, copy, store>>
  PROVE  CopySound'
<1>1. UNCHANGED <<holder, loops, visited, lines, blanks, frames, parent_id, children>>
  BY DEF copy, store
<1>2. \A f : Depth(f)' = Depth(f)
  BY <1>1 DEF Depth, Ancestors, ClosedUnderParent
<1>3. \A i : LoopSound(i)' <=> LoopSound(i)
  <2> TAKE i
  <2>1. Depth(loops[i].of)' = Depth(loops[i].of) /\ get_roots' = get_roots
    BY <1>1 DEF Depth, Ancestors, ClosedUnderParent, get_roots
  <2> QED
    BY <1>1, <2>1 DEF LoopSound
<1>4. /\ VisitedSound' <=> VisitedSound
      /\ NothingMissed' <=> NothingMissed
      /\ CutOff' = CutOff
  BY <1>1, <1>2 DEF VisitedSound, NothingMissed, CutOff, Waits
<1> QED
  BY <1>1, <1>3, <1>4 DEF CopySound

LEMMA StepsKeep == StepsInv /\ [NextSteps]_stepVars => StepsInv'
<1> SUFFICES ASSUME StepsInv, [NextSteps]_stepVars
             PROVE  WalkSound' /\ CopySound'
  BY StepIsTFTreeStep, InvStep, KnownStaysFinite, LocalsStayTyped DEF StepsInv
<1> USE DEF StepsInv
<1>1. ASSUME NEW p \in Names, NEW c \in Names, UpdateStarts(p, c)
      PROVE  WalkSound' /\ CopySound'
  <2>1. CopySound'
    BY <1>1 DEF UpdateStarts, CopySound
  <2> QED
    BY <1>1, <2>1, UpdateStartsSound
<1>2. CASE SnapshotStarts
  <2>1. WalkSound'
    BY <1>2 DEF SnapshotStarts, WalkSound
  <2> QED
    BY <1>2, <2>1, SnapshotStartsSound
<1>3. CASE Clears
  BY <1>3 DEF Clears, WalkSound, CopySound
<1>4. CASE WalkGoesOn
  <2>1. CopySound'
    BY <1>4 DEF WalkGoesOn, CopySound
  <2> QED
    BY <1>4, <2>1, WalkGoesOnSound
<1>5. CASE WalkEnds
  <2>1. CopySound'
    BY <1>5 DEF WalkEnds, CopySound
  <2> QED
    BY <1>5, <2>1, WalkEndsSound
<1>6. CASE UpdateReturns
  BY <1>6 DEF UpdateReturns, WalkSound, CopySound
<1>7. ASSUME NEW f \in Frames, copy_node(f)
      PROVE  WalkSound' /\ CopySound'
  <2>1. WalkSound'
    BY <1>7 DEF copy_node, WalkSound
  <2> QED
    BY <1>7, <2>1, BlankSound, CopiedSound
<1>8. CASE LoopEnds
  <2>1. WalkSound'
    BY <1>8 DEF LoopEnds, WalkSound
  <2> QED
    BY <1>8, <2>1, LoopEndsSound
<1>9. CASE SnapshotReturns
  BY <1>9 DEF SnapshotReturns, WalkSound, CopySound
<1>10. CASE UNCHANGED stepVars
  <2>1. UNCHANGED <<holder, update, copy, store>>
    BY <1>10 DEF stepVars, vars, store
  <2> QED
    BY <2>1, WalkUndisturbed, CopyUndisturbed
<1> QED
  BY <1>1, <1>2, <1>3, <1>4, <1>5, <1>6, <1>7, <1>8, <1>9, <1>10 DEF NextSteps, Works

LEMMA StepsStart == InitSteps => StepsInv
<1> SUFFICES ASSUME InitSteps PROVE StepsInv
  OBVIOUS
<1>1. IInv
  BY InvInit DEF InitSteps
<1>2. KnownFinite
  BY FS_EmptySet DEF InitSteps, Init, KnownFinite
<1>3. LocalsTyped
  <2>1. << >> \in Seq([of : Names, left : SUBSET Frames])
    OBVIOUS
  <2> QED
    BY <2>1 DEF InitSteps, LocalsTyped, Idle, Args, Names
<1>4. WalkSound /\ CopySound
  BY DEF InitSteps, WalkSound, CopySound
<1> QED
  BY <1>1, <1>2, <1>3, <1>4 DEF StepsInv

LEMMA StepsInvHolds == SpecSteps => []StepsInv
BY StepsStart, StepsKeep, PTL DEF SpecSteps

-----------------------------------------------------------------------------
(* The store and the operations keep their types.                          *)
THEOREM StepsTypeCorrect == SpecSteps => []StepsTyped
<1>1. StepsInv => StepsTyped
  BY DEF StepsInv, IInv, StepsTyped
<1> QED
  BY <1>1, StepsInvHolds, PTL

(* The walk of update_transform meets every ancestor of the parent, none   *)
(* twice (tf_tree.cpp:27-40).                                              *)
THEOREM WalkAlwaysVisitsAncestors == SpecSteps => []WalkVisitsAncestors
<1>1. StepsInv => WalkVisitsAncestors
  <2> SUFFICES ASSUME StepsInv PROVE WalkVisitsAncestors
    OBVIOUS
  <2>1. ASSUME holder = "walk" PROVE ancestor \notin seen
    <3>1. CASE ancestor = NoFrame
      BY <3>1, TFAssumption DEF StepsInv, LocalsTyped
    <3>2. CASE ancestor # NoFrame
      <4>1. ancestor \in Above(ancestor)
        BY <3>2, SelfIsAncestor DEF Above, StepsInv, LocalsTyped, Names
      <4> QED
        BY <2>1, <4>1 DEF StepsInv, WalkSound
    <3> QED
      BY <3>1, <3>2
  <2> QED
    BY <2>1 DEF WalkVisitsAncestors, StepsInv, WalkSound, Above
<1> QED
  BY <1>1, StepsInvHolds, PTL

(* A copy that is handed out is complete down to the limit, and marks what *)
(* it cut off there (TFTree::snapshot, tf_tree.cpp:108-145).               *)
THEOREM SnapshotAlwaysComplete == SpecSteps => []SnapshotComplete
<1>1. StepsInv => SnapshotComplete
  <2> SUFFICES ASSUME StepsInv, holder = "copied"
               PROVE  /\ lines = { Line(f, parent_id[f], Depth(f)) :
                                     f \in { g \in frames : Depth(g) <= MaxDepth } }
                      /\ blanks = Cardinality({ f \in frames : Depth(f) = MaxDepth + 1 })
    BY DEF SnapshotComplete
  <2>1. /\ loops = << >> /\ VisitedSound /\ NothingMissed
        /\ blanks = Cardinality(CutOff)
    BY DEF StepsInv, CopySound
  <2>2. \A f : ~Waits(f)
    BY <2>1 DEF Waits
  <2>3. IInv /\ KnownFinite
    BY DEF StepsInv
  <2> DEFINE Missed == { f \in frames : Depth(f) <= MaxDepth /\ f \notin visited }
  <2>4. Missed = {}
    <3> SUFFICES ASSUME Missed # {} PROVE FALSE
      OBVIOUS
    <3>1. Missed \in SUBSET Frames
      BY <2>3 DEF IInv, TypeOK
    <3>2. PICK f \in Missed : parent_id[f] \notin Missed
      BY <2>3, <3>1 DEF IInv, Acyclic
    <3>3. parent_id[f] # NoFrame /\ parent_id[f] \notin visited
      BY <2>1, <2>2, <3>2, Depths, <2>3, DepthAssumption DEF NothingMissed
    <3>4. parent_id[f] \in frames /\ Depth(f) = Depth(parent_id[f]) + 1
      BY <2>3, <3>2, <3>3, Depths
    <3>5. Depth(parent_id[f]) \in Nat /\ Depth(f) <= MaxDepth
      BY <2>3, <3>2, <3>4, Depths
    <3>6. Depth(parent_id[f]) <= MaxDepth
      BY <3>4, <3>5, DepthAssumption
    <3> QED
      BY <3>2, <3>3, <3>4, <3>6
  <2>5. visited = { g \in frames : Depth(g) <= MaxDepth }
    BY <2>1, <2>4 DEF VisitedSound
  <2>6. CutOff = { f \in frames : Depth(f) = MaxDepth + 1 }
    <3>1. ASSUME NEW f \in frames, Depth(f) = MaxDepth + 1 PROVE parent_id[f] \in visited
      <4>1. parent_id[f] # NoFrame
        BY <2>3, <3>1, Depths, DepthAssumption
      <4>2. parent_id[f] \in frames /\ Depth(f) = Depth(parent_id[f]) + 1
        BY <2>3, <4>1, Depths
      <4>3. Depth(parent_id[f]) \in Nat
        BY <2>3, <4>2, Depths
      <4>4. Depth(parent_id[f]) <= MaxDepth
        BY <3>1, <4>2, <4>3, DepthAssumption
      <4> QED
        BY <2>5, <4>2, <4>4
    <3> QED
      BY <2>2, <3>1 DEF CutOff
  <2> QED
    BY <2>1, <2>5, <2>6 DEF VisitedSound
<1> QED
  BY <1>1, StepsInvHolds, PTL

(* Step by step the operations implement TFTree, each update with its own  *)
(* arguments (TFTree::update_transform, tf_tree.cpp:8-85).                 *)
THEOREM StepsImplementTFTree == SpecSteps => ImplementsTFTree /\ Spec
<1>1. InitSteps => Init
  BY DEF InitSteps
<1>2. StepsInv /\ [NextSteps]_stepVars => [AtOnce]_vars /\ [Next]_vars
  BY StepIsAtOnce, StepIsTFTreeStep
<1> QED
  BY <1>1, <1>2, StepsInvHolds, PTL DEF SpecSteps, Spec, ImplementsTFTree
=============================================================================
