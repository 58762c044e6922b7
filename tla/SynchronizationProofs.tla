----------------------- MODULE SynchronizationProofs -----------------------
(***************************************************************************)
(* Theorems about the synchronization loop, for every set of paths and     *)
(* nodes, every bound and every initial content.                           *)
(***************************************************************************)
EXTENDS Synchronization, ReconciliationProofs

(* Every transition that is planned or under way has the shape in which    *)
(* reconciliation proposes changes.                                        *)
Underway(e) == plan[e] \cup pending[e] \cup orphans[e]
PlansShaped ==
    \A e \in Endpoints : \A t \in Underway(e) :
        ShapedAt(t.old, t.path) /\ ShapedAt(t.new, t.path)

TypeInv == TypeOK /\ PlansShaped

-----------------------------------------------------------------------------
(* The steps of the system, one by one. *)
LEMMA Steps ==
    ASSUME Next
    PROVE  \/ \E consumed \in SUBSET Endpoints : Poll(consumed)
           \/ \E e \in Endpoints : \E content \in Contents : Scan(e, content)
           \/ ReconcileSnapshots
           \/ \E e \in Endpoints : \E missed : Stage(e, missed)
           \/ \E e \in Endpoints : \E t \in pending[e] : \E denied, closed : TransitionOne(e, t, denied, closed)
           \/ SaveAncestor
           \/ \E e \in Endpoints : \E t \in orphans[e] : \E denied, closed : OrphanTransition(e, t, denied, closed)
           \/ \E e \in Endpoints : OrphanStop(e)
           \/ \E detached \in SUBSET Endpoints : Interrupt(detached)
           \/ ScanAgain
           \/ \E e \in Endpoints : TransitionError(e)
           \/ \E e \in Endpoints, p \in Paths : \E node \in Placeable(p) : Edit(e, p, node)
           \/ Flush \/ Resume \/ Reset
<1>1. ASSUME NEW e \in Endpoints, NEW t, Refused(e, t)
      PROVE  \/ t \in pending[e] /\ \E denied, closed : TransitionOne(e, t, denied, closed)
             \/ t \in orphans[e] /\ \E denied, closed : OrphanTransition(e, t, denied, closed)
  BY <1>1 DEF Refused, TransitionOne, OrphanTransition
<1>2. CASE Loop
  BY <1>2 DEF Loop
<1>3. CASE Faults
  BY <1>1, <1>3 DEF Faults
<1>4. CASE Users
  BY <1>4 DEF Users
<1>5. CASE \E e \in Endpoints : Detached(e)
  BY <1>5 DEF Detached
<1> QED BY <1>2, <1>3, <1>4, <1>5 DEF Next

(* The pairs of a content are of the types of windows and histories. *)
LEMMA PairsTyped ==
    ASSUME NEW c \in Contents
    PROVE  /\ NodesOf(c) \in SUBSET (Paths \X Nodes) /\ NodesOf(c) # {}
           /\ LeavesOf(c) \in SUBSET (Paths \X Leaves)
<1>1. \A q \in Paths : c[q] \in Nodes
  BY DEF Contents
<1>2. NodesOf(c) \in SUBSET (Paths \X Nodes)
  BY <1>1 DEF NodesOf
<1>3. <<Root, c[Root]>> \in NodesOf(c)
  BY PathsAssumption DEF NodesOf
<1>4. LeavesOf(c) \in SUBSET (Paths \X Leaves)
  BY DEF LeavesOf
<1> QED BY <1>2, <1>3, <1>4

(* Absence is well-formed content. *)
LEMMA NilContents == NilEntry \in Contents /\ EnsureValid(NilEntry) /\ NilEntry \in Entries
BY DEF NilEntry, Contents, Nodes, WellFormed, EnsureValid, Entries

(* The initial states are well typed. *)
LEMMA TypeInit == Init => TypeInv
<1> SUFFICES ASSUME Init PROVE TypeInv
  OBVIOUS
<1>1. disk \in [Endpoints -> Contents]
  BY SynchronizationAssumption DEF Init, Endpoints
<1>2. window \in [Endpoints -> SUBSET (Paths \X Nodes)] /\ seen \in [Endpoints -> SUBSET (Paths \X Leaves)]
  BY <1>1, PairsTyped DEF Init
<1>3. plan = NoOutcome /\ \A e \in Endpoints : plan[e] = {} /\ pending[e] = {} /\ orphans[e] = {}
  BY DEF Init, NoOutcome, Endpoints
<1>4. plan.ancestor = {} /\ plan.alpha = {} /\ plan.beta = {}
  BY <1>3 DEF NoOutcome
<1>5. TypeOK
  <2>1. dirty \subseteq Endpoints /\ failed \subseteq Endpoints /\ problems \subseteq Endpoints
    BY DEF Init
  <2>2. /\ staged \in [Endpoints -> SUBSET (Paths \X Digests)]
        /\ orphans \in [Endpoints -> SUBSET Changes]
        /\ pending \in [Endpoints -> SUBSET Changes] /\ applied \in [Endpoints -> SUBSET Changes]
    BY DEF Init
  <2>3. /\ archive \in Entries /\ EnsureValid(archive) /\ ancestor = archive
        /\ snapshot \in [Endpoints -> Contents]
    BY NilContents DEF Init
  <2>4. phase \in Phases /\ missing \in BOOLEAN /\ retrying \in BOOLEAN
    BY DEF Init, Phases
  <2>5. edits \in 0 .. MaxEdits /\ faults \in 0 .. MaxFaults
    BY SynchronizationAssumption DEF Init
  <2>6. dropped \subseteq Paths \X Leaves
    BY DEF Init
  <2> QED BY <1>1, <1>2, <1>4, <2>1, <2>2, <2>3, <2>4, <2>5, <2>6 DEF TypeOK
<1> QED BY <1>3, <1>5 DEF TypeInv, PlansShaped, Underway

-----------------------------------------------------------------------------
(* The type invariant, in groups of variables that change together. *)
ContentTypes ==
    /\ disk \in [Endpoints -> Contents]
    /\ window \in [Endpoints -> SUBSET (Paths \X Nodes)]
    /\ seen \in [Endpoints -> SUBSET (Paths \X Leaves)]
    /\ dropped \subseteq Paths \X Leaves
TransferTypes ==
    /\ staged \in [Endpoints -> SUBSET (Paths \X Digests)]
    /\ orphans \in [Endpoints -> SUBSET Changes]
    /\ pending \in [Endpoints -> SUBSET Changes]
    /\ applied \in [Endpoints -> SUBSET Changes]
PlanTypes ==
    /\ plan.ancestor \subseteq Changes /\ plan.alpha \subseteq Changes /\ plan.beta \subseteq Changes
RecordTypes ==
    /\ archive \in Entries /\ EnsureValid(archive) /\ ancestor = archive
    /\ snapshot \in [Endpoints -> Contents]
ControlTypes ==
    /\ phase \in Phases /\ missing \in BOOLEAN /\ retrying \in BOOLEAN
    /\ dirty \subseteq Endpoints /\ failed \subseteq Endpoints /\ problems \subseteq Endpoints
CountTypes == edits \in 0 .. MaxEdits /\ faults \in 0 .. MaxFaults

(* The type invariant in groups, so that a step deals with those it changes. *)
LEMMA TypeGroups ==
    /\ TypeOK <=> /\ ContentTypes /\ TransferTypes /\ PlanTypes
                  /\ RecordTypes /\ ControlTypes /\ CountTypes
    /\ TypeOK' <=> /\ ContentTypes' /\ TransferTypes' /\ PlanTypes'
                   /\ RecordTypes' /\ ControlTypes' /\ CountTypes'
BY DEF TypeOK, ContentTypes, TransferTypes, PlanTypes, RecordTypes, ControlTypes, CountTypes

(* A content replaces another. *)
LEMMA ChangeDiskTyped ==
    ASSUME ContentTypes, ControlTypes, NEW e \in Endpoints, NEW c \in Contents, ChangeDisk(e, c)
    PROVE  /\ disk' \in [Endpoints -> Contents] /\ disk'[e] = c
           /\ disk'[Other(e)] = disk[Other(e)]
           /\ window' \in [Endpoints -> SUBSET (Paths \X Nodes)]
           /\ seen' \in [Endpoints -> SUBSET (Paths \X Leaves)]
           /\ dirty' \subseteq Endpoints
<1>1. disk' \in [Endpoints -> Contents] /\ disk'[e] = c /\ disk'[Other(e)] = disk[Other(e)]
  BY DEF ChangeDisk, ContentTypes, Other, Endpoints
<1>2. NodesOf(disk'[e]) \in SUBSET (Paths \X Nodes) /\ LeavesOf(disk'[e]) \in SUBSET (Paths \X Leaves)
  BY <1>1, PairsTyped
<1> QED BY <1>1, <1>2 DEF ChangeDisk, ContentTypes, ControlTypes

(* Starting and ending scans is well typed. *)
LEMMA ScansTyped ==
    ASSUME ContentTypes
    PROVE  /\ StartScans => /\ phase' \in Phases
                            /\ window' \in [Endpoints -> SUBSET (Paths \X Nodes)]
           /\ NoScans => window' \in [Endpoints -> SUBSET (Paths \X Nodes)]
BY PairsTyped DEF StartScans, NoScans, ContentTypes, Phases

(* Resetting the local state of synchronize is well typed. *)
LEMMA ResetCycleTyped ==
    ASSUME ResetCycle
    PROVE  /\ snapshot' \in [Endpoints -> Contents] /\ PlanTypes'
           /\ pending' \in [Endpoints -> SUBSET Changes] /\ applied' \in [Endpoints -> SUBSET Changes]
           /\ failed' \subseteq Endpoints /\ missing' \in BOOLEAN
           /\ plan'.ancestor = {}
           /\ \A e \in Endpoints : plan'[e] = {} /\ pending'[e] = {} /\ applied'[e] = {}
<1>1. plan'.ancestor = {} /\ plan'.alpha = {} /\ plan'.beta = {} /\ \A e \in Endpoints : plan'[e] = {}
  BY DEF ResetCycle, NoOutcome, Endpoints
<1>2. PlanTypes'
  BY <1>1 DEF PlanTypes
<1> QED BY <1>1, <1>2, NilContents DEF ResetCycle

(* The type of what an unfinished call of synchronize leaves behind. *)
LEMMA RestartTyped ==
    ASSUME TypeInv, ResetCycle, StartScans,
           ancestor' = archive', archive' \in {archive, NilEntry},
           retrying' \in BOOLEAN, problems' \subseteq Endpoints,
           UNCHANGED <<disk, dirty, staged, historyVars>>,
           orphans' \in [Endpoints -> SUBSET Changes],
           \A e \in Endpoints : orphans'[e] \subseteq orphans[e] \cup pending[e],
           CountTypes'
    PROVE  TypeInv'
<1>1. ContentTypes'
  BY TypeGroups, ScansTyped DEF TypeInv, ContentTypes, historyVars
<1>2. TransferTypes'
  BY TypeGroups, ResetCycleTyped DEF TypeInv, TransferTypes
<1>3. RecordTypes'
  BY TypeGroups, ResetCycleTyped, NilContents DEF TypeInv, RecordTypes
<1>4. ControlTypes'
  BY TypeGroups, ResetCycleTyped, ScansTyped DEF TypeInv, ControlTypes
<1>5. PlansShaped'
  BY ResetCycleTyped DEF TypeInv, PlansShaped, Underway
<1> QED BY <1>1, <1>2, <1>3, <1>4, <1>5, TypeGroups, ResetCycleTyped DEF TypeInv

-----------------------------------------------------------------------------
(* Staging preserves the types. *)
LEMMA StageTyped ==
    ASSUME TypeInv, NEW e \in Endpoints
    PROVE  Obtained(e) \in SUBSET (Paths \X Digests)
<1>1. disk[Other(e)] \in [Paths -> Nodes]
  BY TypeGroups DEF TypeInv, ContentTypes, Contents, Endpoints, Other
<1>2. Supplied(e) \in SUBSET (Paths \X Digests)
  BY <1>1 DEF Supplied, Digests
<1>3. Located(e) \in SUBSET (Paths \X Digests)
  BY DEF Located, TransitionDependencies
<1> QED BY <1>2, <1>3 DEF Obtained

(* The plan of a cycle has the shape that transitions rely on. *)
LEMMA ReconcileTyped ==
    ASSUME TypeInv, ReconcileSnapshots
    PROVE  TypeInv'
<1> DEFINE o == Reconcile(Mode, ancestor, snapshot["alpha"], snapshot["beta"])
<1>1. /\ ContentTypes /\ TransferTypes /\ PlanTypes /\ RecordTypes /\ ControlTypes /\ CountTypes
      /\ PlansShaped
  BY TypeGroups DEF TypeInv
<1>2. ancestor \in Contents /\ snapshot["alpha"] \in Contents /\ snapshot["beta"] \in Contents
  BY <1>1 DEF RecordTypes, EnsureValid, Contents, Entries, Endpoints
<1>3. ContentTypes' /\ CountTypes' /\ staged' = staged /\ orphans' = orphans
  BY <1>1 DEF ReconcileSnapshots, endpointVars, historyVars, ContentTypes, CountTypes
<1>4. CASE phase' = "halted" /\ ResetCycle
  <2>1. TransferTypes' /\ PlanTypes'
    BY <1>1, <1>3, <1>4, ResetCycleTyped DEF TransferTypes
  <2>2. RecordTypes'
    BY <1>1, <1>4, ResetCycleTyped DEF ReconcileSnapshots, RecordTypes
  <2>3. ControlTypes'
    BY <1>1, <1>4, ResetCycleTyped DEF ReconcileSnapshots, ControlTypes, endpointVars, Phases
  <2>4. PlansShaped'
    BY <1>1, <1>3, <1>4, ResetCycleTyped DEF PlansShaped, Underway
  <2> QED BY <1>3, <2>1, <2>2, <2>3, <2>4, TypeGroups DEF TypeInv
<1>5. CASE phase' = "stage-alpha" /\ plan' = o /\ UNCHANGED <<snapshot, pending, applied, failed, missing>>
  <2>1. /\ o.ancestor \subseteq Changes
        /\ \A c \in o.alpha : Proposed(c, snapshot["alpha"], snapshot["beta"])
        /\ \A c \in o.beta : Proposed(c, snapshot["beta"], snapshot["alpha"])
    BY <1>2, ReconcileSound, SynchronizationAssumption
  <2> HIDE DEF o
  <2>2. PlanTypes'
    BY <1>5, <2>1 DEF PlanTypes, Proposed
  <2>3. PlansShaped'
    BY <1>1, <1>3, <1>5, <2>1 DEF PlansShaped, Underway, Proposed, Endpoints
  <2>4. TransferTypes'
    BY <1>1, <1>3, <1>5 DEF TransferTypes
  <2>5. RecordTypes'
    BY <1>1, <1>5 DEF ReconcileSnapshots, RecordTypes
  <2>6. ControlTypes'
    BY <1>1, <1>5 DEF ReconcileSnapshots, ControlTypes, endpointVars, Phases
  <2> QED BY <1>3, <2>2, <2>3, <2>4, <2>5, <2>6, TypeGroups DEF TypeInv
<1> QED BY <1>4, <1>5 DEF ReconcileSnapshots

(* A transition, by a server that is connected or not, leaves valid        *)
(* content behind.                                                         *)
LEMMA TransitionTyped ==
    ASSUME TypeInv, NEW e \in Endpoints, NEW t \in Underway(e), NEW denied, NEW closed
    PROVE  /\ t \in Changes
           /\ Performs(Transition(disk[e], t, staged[e], denied, closed), disk[e], t.old, t.new)
<1>1. disk[e] \in Contents /\ t \in Changes
  BY TypeGroups DEF TypeInv, ContentTypes, TransferTypes, PlanTypes, Underway, Endpoints
<1>2. ShapedAt(t.old, t.path) /\ ShapedAt(t.new, t.path)
  BY DEF TypeInv, PlansShaped
<1> QED BY <1>1, <1>2, TransitionPerforms

(* Counting a refusal preserves the type of the counter. *)
LEMMA RefusalTyped ==
    ASSUME CountTypes, NEW denied, NEW closed, Refusal(denied, closed), edits' = edits
    PROVE  CountTypes'
BY SynchronizationAssumption DEF CountTypes, Refusal

(* A transition preserves the types. *)
LEMMA TransitionOneTyped ==
    ASSUME TypeInv, NEW e \in Endpoints, NEW t \in pending[e], NEW denied, NEW closed,
           TransitionOne(e, t, denied, closed)
    PROVE  TypeInv'
<1> DEFINE result == Transition(disk[e], t, staged[e], denied, closed)
<1>1. /\ ContentTypes /\ TransferTypes /\ PlanTypes /\ RecordTypes /\ ControlTypes /\ CountTypes
      /\ PlansShaped
  BY TypeGroups DEF TypeInv
<1>2. result.disk \in Contents /\ result.entry \in Entries /\ t.path \in Paths
  <2>1. t \in Underway(e)
    BY DEF Underway
  <2>2. t \in Changes /\ Performs(result, disk[e], t.old, t.new)
    BY <2>1, TransitionTyped
  <2> QED BY <2>2 DEF Performs, Changes
<1>3. /\ ChangeDisk(e, result.disk)
      /\ applied' = [applied EXCEPT ![e] = @ \cup {Change(t.path, NilEntry, result.entry)}]
      /\ Refusal(denied, closed) /\ edits' = edits /\ dropped' = dropped
      /\ pending' = [pending EXCEPT ![e] = @ \ {t}]
      /\ staged' = IF pending'[e] = {} THEN [staged EXCEPT ![e] = {}] ELSE staged
      /\ missing' \in BOOLEAN
      /\ UNCHANGED <<orphans, archive, ancestor, phase, snapshot, plan, failed, retrying, problems>>
  BY DEF TransitionOne
<1> HIDE DEF result
<1>4. ContentTypes' /\ dirty' \subseteq Endpoints
  BY <1>1, <1>2, <1>3, ChangeDiskTyped DEF ContentTypes
<1>5. TransferTypes'
  <2>1. Change(t.path, NilEntry, result.entry) \in Changes
    BY <1>2, NilContents DEF Change, Changes
  <2> QED BY <1>1, <1>3, <2>1 DEF TransferTypes
<1>6. PlanTypes' /\ RecordTypes' /\ ControlTypes'
  BY <1>1, <1>3, <1>4 DEF PlanTypes, RecordTypes, ControlTypes
<1>7. CountTypes'
  BY <1>1, <1>3, RefusalTyped
<1>8. PlansShaped'
  BY <1>1, <1>3 DEF PlansShaped, Underway, TransferTypes
<1> QED BY <1>4, <1>5, <1>6, <1>7, <1>8, TypeGroups DEF TypeInv

(* A transition of a detached server preserves the types. *)
LEMMA OrphanTransitionTyped ==
    ASSUME TypeInv, NEW e \in Endpoints, NEW t \in orphans[e], NEW denied, NEW closed,
           OrphanTransition(e, t, denied, closed)
    PROVE  TypeInv'
<1> DEFINE result == Transition(disk[e], t, staged[e], denied, closed)
<1>1. /\ ContentTypes /\ TransferTypes /\ PlanTypes /\ RecordTypes /\ ControlTypes /\ CountTypes
      /\ PlansShaped
  BY TypeGroups DEF TypeInv
<1>2. result.disk \in Contents
  BY TransitionTyped DEF Underway, Performs
<1>3. /\ ChangeDisk(e, result.disk)
      /\ Refusal(denied, closed) /\ edits' = edits /\ dropped' = dropped
      /\ orphans' = [orphans EXCEPT ![e] = @ \ {t}]
      /\ staged' = IF orphans'[e] = {} THEN [staged EXCEPT ![e] = {}] ELSE staged
      /\ UNCHANGED <<archive, ancestor, phase, cycleVars, retrying, problems>>
  BY DEF OrphanTransition
<1> HIDE DEF result
<1>4. ContentTypes' /\ dirty' \subseteq Endpoints
  BY <1>1, <1>2, <1>3, ChangeDiskTyped DEF ContentTypes
<1>5. TransferTypes'
  BY <1>1, <1>3 DEF TransferTypes, cycleVars
<1>6. PlanTypes' /\ RecordTypes' /\ ControlTypes'
  BY <1>1, <1>3, <1>4 DEF PlanTypes, RecordTypes, ControlTypes, cycleVars
<1>7. CountTypes'
  BY <1>1, <1>3, RefusalTyped
<1>8. PlansShaped'
  BY <1>1, <1>3 DEF PlansShaped, Underway, TransferTypes, cycleVars
<1> QED BY <1>4, <1>5, <1>6, <1>7, <1>8, TypeGroups DEF TypeInv

(* Saving the ancestor preserves the types. *)
LEMMA SaveAncestorTyped ==
    ASSUME TypeInv, SaveAncestor
    PROVE  TypeInv'
<1>1. /\ ContentTypes /\ TransferTypes /\ PlanTypes /\ RecordTypes /\ ControlTypes /\ CountTypes
      /\ PlansShaped
  BY TypeGroups DEF TypeInv
<1>2. /\ archive' = (IF NewAncestorValid THEN NewAncestor ELSE archive) /\ ancestor' = archive'
      /\ ResetCycle
      /\ retrying' \in BOOLEAN /\ problems' \subseteq Endpoints
      /\ StartScans \/ (phase' = "watch" /\ NoScans)
      /\ UNCHANGED <<disk, dirty, staged, orphans, edits, faults, seen, dropped>>
  BY <1>1 DEF SaveAncestor, endpointVars, historyVars, ControlTypes
<1>3. ContentTypes'
  BY <1>1, <1>2, ScansTyped DEF ContentTypes
<1>4. TransferTypes' /\ PlanTypes'
  BY <1>1, <1>2, ResetCycleTyped DEF TransferTypes
<1>5. RecordTypes'
  <2>1. NewAncestorValid => NewAncestor \in Entries /\ EnsureValid(NewAncestor)
    <3>1. NewAncestorValid => EnsureValid(NewAncestor)
      BY DEF NewAncestorValid
    <3>2. NewAncestor = [q \in Paths |-> NewAncestor[q]]
      BY DEF NewAncestor, Apply
    <3> QED BY <3>1, <3>2 DEF EnsureValid, Entries, Nodes
  <2> QED BY <1>1, <1>2, <2>1, ResetCycleTyped DEF RecordTypes
<1>6. ControlTypes'
  BY <1>1, <1>2, ResetCycleTyped, ScansTyped DEF ControlTypes, Phases
<1>7. CountTypes'
  BY <1>1, <1>2 DEF CountTypes
<1>8. PlansShaped'
  BY <1>1, <1>2, ResetCycleTyped DEF PlansShaped, Underway
<1> QED BY <1>3, <1>4, <1>5, <1>6, <1>7, <1>8, TypeGroups DEF TypeInv

(* An edit by a user preserves the types. *)
LEMMA EditTyped ==
    ASSUME TypeInv, NEW e \in Endpoints, NEW p \in Paths, NEW node \in Placeable(p), Edit(e, p, node)
    PROVE  TypeInv'
<1> DEFINE c == [q \in Paths |-> IF q = p THEN node ELSE IF q \in AtOrBelow(p) THEN "nil" ELSE disk[e][q]]
<1>1. /\ ContentTypes /\ TransferTypes /\ PlanTypes /\ RecordTypes /\ ControlTypes /\ CountTypes
      /\ PlansShaped
  BY TypeGroups DEF TypeInv
<1>2. c \in Contents
  <2>1. disk[e] \in [Paths -> Nodes] /\ WellFormed(disk[e]) /\ node \in Nodes /\ "nil" \in Nodes
    BY <1>1, SynchronizationAssumption DEF ContentTypes, Contents, Placeable, Nodes
  <2>2. c \in [Paths -> Nodes]
    BY <2>1
  <2>3. ASSUME NEW q \in Paths, c[q] # "nil", NEW r \in Above[q] PROVE c[r] = "dir"
    <3>1. r \in Paths /\ UpTo(r) \subseteq UpTo(q) /\ r \in UpTo(q)
      BY AboveTransitive DEF UpTo
    <3>2. CASE q = p
      <4>1. r \notin AtOrBelow(p) /\ r # p
        BY <3>1, <3>2, AboveTransitive DEF AtOrBelow, UpTo
      <4> QED BY <3>1, <3>2, <4>1 DEF Edit, ParentExists
    <3>3. CASE q # p
      <4>1. q \notin AtOrBelow(p) /\ disk[e][q] # "nil"
        BY <2>3, <3>3
      <4>2. r \notin AtOrBelow(p) /\ r # p
        BY <3>1, <4>1 DEF AtOrBelow, UpTo
      <4>3. disk[e][r] = "dir"
        BY <2>1, <4>1 DEF WellFormed
      <4> QED BY <3>1, <4>2, <4>3
    <3> QED BY <3>2, <3>3
  <2> QED BY <2>2, <2>3 DEF Contents, WellFormed
<1>3. /\ ChangeDisk(e, c) /\ edits < MaxEdits /\ edits' = edits + 1 /\ faults' = faults
      /\ dropped' = dropped \cup (LeavesOf(disk[e]) \ LeavesOf(disk'[e]))
      /\ UNCHANGED <<staged, orphans, archive, ancestor, phase, snapshot, plan, pending, applied,
                     failed, missing, retrying, problems>>
  BY DEF Edit, cycleVars
<1> HIDE DEF c
<1>4. ContentTypes' /\ dirty' \subseteq Endpoints
  <2>1. LeavesOf(disk[e]) \in SUBSET (Paths \X Leaves)
    BY <1>1, PairsTyped DEF ContentTypes
  <2> QED BY <1>1, <1>2, <1>3, <2>1, ChangeDiskTyped DEF ContentTypes
<1>5. TransferTypes' /\ PlanTypes' /\ RecordTypes'
  BY <1>1, <1>3 DEF TransferTypes, PlanTypes, RecordTypes
<1>6. ControlTypes'
  BY <1>1, <1>3, <1>4 DEF ControlTypes
<1>7. CountTypes'
  BY <1>1, <1>3, SynchronizationAssumption DEF CountTypes
<1>8. PlansShaped'
  BY <1>1, <1>3 DEF PlansShaped, Underway
<1> QED BY <1>4, <1>5, <1>6, <1>7, <1>8, TypeGroups DEF TypeInv

(* The steps of the loop preserve the types. *)
LEMMA LoopTyped ==
    ASSUME TypeInv
    PROVE  /\ \A consumed \in SUBSET Endpoints : Poll(consumed) => TypeInv'
           /\ Flush => TypeInv'
           /\ \A e \in Endpoints, content \in Contents : Scan(e, content) => TypeInv'
           /\ \A e \in Endpoints : \A missed : Stage(e, missed) => TypeInv'
           /\ \A e \in Endpoints : TransitionError(e) => TypeInv'
           /\ \A e \in Endpoints : OrphanStop(e) => TypeInv'
<1>1. /\ ContentTypes /\ TransferTypes /\ PlanTypes /\ RecordTypes /\ ControlTypes /\ CountTypes
      /\ PlansShaped
  BY TypeGroups DEF TypeInv
<1>2. ASSUME NEW consumed \in SUBSET Endpoints, Poll(consumed) PROVE TypeInv'
  <2>1. ContentTypes' /\ CountTypes'
    BY <1>1, <1>2, ScansTyped DEF Poll, ContentTypes, CountTypes, historyVars
  <2>2. TransferTypes' /\ PlanTypes' /\ RecordTypes' /\ PlansShaped'
    BY <1>1, <1>2 DEF Poll, TransferTypes, PlanTypes, RecordTypes, PlansShaped, Underway, cycleVars
  <2>3. ControlTypes'
    BY <1>1, <1>2, ScansTyped DEF Poll, ControlTypes, cycleVars
  <2> QED BY <2>1, <2>2, <2>3, TypeGroups DEF TypeInv
<1>3. ASSUME Flush PROVE TypeInv'
  <2>1. ContentTypes'
    BY <1>1, <1>3, ScansTyped DEF Flush, ContentTypes, historyVars, endpointVars
  <2>2. TransferTypes' /\ PlanTypes' /\ RecordTypes' /\ PlansShaped'
    BY <1>1, <1>3
    DEF Flush, TransferTypes, PlanTypes, RecordTypes, PlansShaped, Underway, cycleVars, endpointVars
  <2>3. ControlTypes'
    BY <1>1, <1>3, ScansTyped DEF Flush, ControlTypes, cycleVars, endpointVars
  <2>4. CountTypes'
    BY <1>1, <1>3, SynchronizationAssumption DEF Flush, CountTypes
  <2> QED BY <2>1, <2>2, <2>3, <2>4, TypeGroups DEF TypeInv
<1>4. ASSUME NEW e \in Endpoints, NEW content \in Contents, Scan(e, content) PROVE TypeInv'
  <2>1. ContentTypes' /\ CountTypes'
    BY <1>1, <1>4 DEF Scan, ContentTypes, CountTypes, historyVars, endpointVars
  <2>2. TransferTypes' /\ PlanTypes' /\ RecordTypes' /\ PlansShaped'
    BY <1>1, <1>4 DEF Scan, TransferTypes, PlanTypes, RecordTypes, PlansShaped, Underway, endpointVars
  <2>3. ControlTypes'
    BY <1>1, <1>4 DEF Scan, ControlTypes, endpointVars, Phases
  <2> QED BY <2>1, <2>2, <2>3, TypeGroups DEF TypeInv
<1>5. ASSUME NEW e \in Endpoints, NEW missed, Stage(e, missed) PROVE TypeInv'
  <2>1. ContentTypes' /\ PlanTypes' /\ RecordTypes'
    BY <1>1, <1>5 DEF Stage, ContentTypes, PlanTypes, RecordTypes, historyVars
  <2>2. plan["alpha"] \in SUBSET Changes /\ plan["beta"] \in SUBSET Changes
    BY <1>1 DEF PlanTypes
  <2>3. TransferTypes'
    BY <1>1, <1>5, <2>2, StageTyped DEF Stage, TransferTypes, Endpoints
  <2>4. ControlTypes'
    BY <1>1, <1>5 DEF Stage, ControlTypes, Phases
  <2>5. CountTypes'
    BY <1>1, <1>5, SynchronizationAssumption DEF Stage, CountTypes
  <2>6. PlansShaped'
    BY <1>1, <1>5 DEF Stage, PlansShaped, Underway
  <2> QED BY <2>1, <2>3, <2>4, <2>5, <2>6, TypeGroups DEF TypeInv
<1>6. ASSUME NEW e \in Endpoints, TransitionError(e) PROVE TypeInv'
  <2>1. ContentTypes' /\ PlanTypes' /\ RecordTypes' /\ ControlTypes'
    BY <1>1, <1>6 DEF TransitionError, ContentTypes, PlanTypes, RecordTypes, ControlTypes, historyVars
  <2>2. TransferTypes'
    BY <1>1, <1>6 DEF TransitionError, TransferTypes
  <2>3. CountTypes'
    BY <1>1, <1>6, SynchronizationAssumption DEF TransitionError, CountTypes
  <2>4. PlansShaped'
    BY <1>1, <1>6 DEF TransitionError, PlansShaped, Underway, TransferTypes
  <2> QED BY <2>1, <2>2, <2>3, <2>4, TypeGroups DEF TypeInv
<1>7. ASSUME NEW e \in Endpoints, OrphanStop(e) PROVE TypeInv'
  <2>1. ContentTypes' /\ PlanTypes' /\ RecordTypes' /\ ControlTypes' /\ CountTypes'
    BY <1>1, <1>7
    DEF OrphanStop, ContentTypes, PlanTypes, RecordTypes, ControlTypes, CountTypes, historyVars, cycleVars
  <2>2. TransferTypes'
    BY <1>1, <1>7 DEF OrphanStop, TransferTypes, cycleVars
  <2>3. PlansShaped'
    BY <1>1, <1>7 DEF OrphanStop, PlansShaped, Underway, TransferTypes, cycleVars
  <2> QED BY <2>1, <2>2, <2>3, TypeGroups DEF TypeInv
<1> QED BY <1>2, <1>3, <1>4, <1>5, <1>6, <1>7

(* Starting synchronize anew preserves the types. *)
LEMMA AnewTyped ==
    ASSUME TypeInv
    PROVE  /\ \A detached \in SUBSET Endpoints : Interrupt(detached) => TypeInv'
           /\ Resume => TypeInv'
           /\ Reset => TypeInv'
           /\ ScanAgain => TypeInv'
<1>1. /\ ContentTypes /\ TransferTypes /\ RecordTypes /\ ControlTypes /\ CountTypes
  BY TypeGroups DEF TypeInv
<1>2. ASSUME NEW detached \in SUBSET Endpoints, Interrupt(detached) PROVE TypeInv'
  <2>1. CountTypes'
    BY <1>1, <1>2, SynchronizationAssumption DEF Interrupt, CountTypes
  <2>2. /\ orphans' \in [Endpoints -> SUBSET Changes]
        /\ \A e \in Endpoints : orphans'[e] \subseteq orphans[e] \cup pending[e]
    BY <1>1, <1>2 DEF Interrupt, TransferTypes
  <2> QED BY <1>2, <2>1, <2>2, RestartTyped DEF Interrupt, Restart
<1>3. ASSUME Resume PROVE TypeInv'
  <2>1. CountTypes'
    BY <1>1, <1>3, SynchronizationAssumption DEF Resume, CountTypes
  <2> QED BY <1>1, <1>3, <2>1, RestartTyped DEF Resume, Restart, endpointVars, TransferTypes
<1>4. ASSUME Reset PROVE TypeInv'
  <2>1. CountTypes'
    BY <1>1, <1>4, SynchronizationAssumption DEF Reset, CountTypes
  <2> QED BY <1>1, <1>4, <2>1, RestartTyped DEF Reset, endpointVars, TransferTypes
<1>5. ASSUME ScanAgain PROVE TypeInv'
  <2>1. CountTypes'
    BY <1>1, <1>5, SynchronizationAssumption DEF ScanAgain, CountTypes
  <2> QED BY <1>1, <1>5, <2>1, RestartTyped
          DEF ScanAgain, endpointVars, TransferTypes, RecordTypes, ControlTypes
<1> QED BY <1>2, <1>3, <1>4, <1>5

(* Every step preserves the types. *)
LEMMA TypeStep == TypeInv /\ [Next]_vars => TypeInv'
<1> SUFFICES ASSUME TypeInv, [Next]_vars PROVE TypeInv'
  OBVIOUS
<1>1. CASE UNCHANGED vars
  <2>1. /\ ContentTypes /\ TransferTypes /\ PlanTypes /\ RecordTypes /\ ControlTypes /\ CountTypes
        /\ PlansShaped
    BY TypeGroups DEF TypeInv
  <2>2. /\ UNCHANGED <<disk, dirty, staged, orphans, archive, ancestor, phase, window, snapshot, plan>>
        /\ UNCHANGED <<pending, applied, failed, missing, retrying, problems, edits, faults, seen, dropped>>
    BY <1>1 DEF vars, endpointVars, cycleVars, historyVars
  <2>3. ContentTypes' /\ TransferTypes' /\ PlanTypes' /\ PlansShaped'
    BY <2>1, <2>2 DEF ContentTypes, TransferTypes, PlanTypes, PlansShaped, Underway
  <2>4. RecordTypes' /\ ControlTypes' /\ CountTypes'
    BY <2>1, <2>2 DEF RecordTypes, ControlTypes, CountTypes
  <2> QED BY <2>3, <2>4, TypeGroups DEF TypeInv
<1>2. CASE Next
  BY <1>2, Steps, LoopTyped, AnewTyped, ReconcileTyped, TransitionOneTyped, OrphanTransitionTyped,
     SaveAncestorTyped, EditTyped
<1> QED BY <1>1, <1>2

(* Type correctness: the content on disk, in snapshots and in the archive  *)
(* is always well formed, whatever was refused, interrupted or done twice. *)
THEOREM TypeCorrect == Spec => []TypeOK
<1>1. TypeInv => TypeOK
  BY DEF TypeInv
<1> QED BY <1>1, TypeInit, TypeStep, PTL DEF Spec

-----------------------------------------------------------------------------
(* In the one-way modes nothing is ever planned for alpha. *)
OneWayModes == {"one-way-safe", "one-way-replica"}
OneWayInv == TypeInv /\ Underway("alpha") = {}

(* In a one-way mode no step plans a transition on alpha. *)
LEMMA OneWayStep == Mode \in OneWayModes /\ OneWayInv /\ [Next]_vars => OneWayInv'
<1> SUFFICES ASSUME Mode \in OneWayModes, OneWayInv, [Next]_vars PROVE OneWayInv'
  OBVIOUS
<1>1. TypeInv' /\ TransferTypes /\ RecordTypes /\ PlanTypes
  BY TypeStep, TypeGroups DEF OneWayInv, TypeInv
<1>2. plan["alpha"] = {} /\ pending["alpha"] = {} /\ orphans["alpha"] = {} /\ "alpha" \in Endpoints
  BY DEF OneWayInv, Underway, Endpoints
<1>3. ASSUME plan'["alpha"] = {} /\ pending'["alpha"] = {} /\ orphans'["alpha"] = {} PROVE OneWayInv'
  BY <1>1, <1>3 DEF OneWayInv, Underway
<1>4. CASE UNCHANGED vars
  BY <1>2, <1>3, <1>4 DEF vars, endpointVars, cycleVars
<1>5. ASSUME ReconcileSnapshots PROVE OneWayInv'
  <2>1. pending'["alpha"] = {} /\ orphans'["alpha"] = {}
    BY <1>2, <1>5, ResetCycleTyped DEF ReconcileSnapshots, endpointVars
  <2>2. CASE ResetCycle
    BY <1>2, <1>3, <2>1, <2>2, ResetCycleTyped
  <2>3. CASE plan' = Reconcile(Mode, ancestor, snapshot["alpha"], snapshot["beta"])
    <3>1. ancestor \in Contents /\ snapshot["alpha"] \in Contents /\ snapshot["beta"] \in Contents
      BY <1>1 DEF RecordTypes, EnsureValid, Contents, Entries, Endpoints
    <3>2. plan'.alpha = {}
      BY <2>3, <3>1, ReconcileSound, SynchronizationAssumption DEF OneWayModes
    <3> QED BY <1>3, <2>1, <3>2
  <2> QED BY <1>5, <2>2, <2>3 DEF ReconcileSnapshots
<1>6. ASSUME NEW e \in Endpoints,
             \/ \E missed : Stage(e, missed)
             \/ \E t, denied, closed : TransitionOne(e, t, denied, closed)
             \/ \E t, denied, closed : OrphanTransition(e, t, denied, closed)
             \/ OrphanStop(e)
             \/ TransitionError(e)
      PROVE  plan'["alpha"] = {} /\ pending'["alpha"] = {} /\ orphans'["alpha"] = {}
  <2>1. CASE \E missed : Stage(e, missed)
    BY <1>1, <1>2, <2>1 DEF Stage
  <2>2. CASE \E t, denied, closed : TransitionOne(e, t, denied, closed)
    BY <1>1, <1>2, <2>2 DEF TransitionOne, TransferTypes
  <2>3. CASE \E t, denied, closed : OrphanTransition(e, t, denied, closed)
    BY <1>1, <1>2, <2>3 DEF OrphanTransition, TransferTypes, cycleVars
  <2>4. CASE OrphanStop(e)
    BY <1>1, <1>2, <2>4 DEF OrphanStop, TransferTypes, cycleVars
  <2>5. CASE TransitionError(e)
    BY <1>1, <1>2, <2>5 DEF TransitionError, TransferTypes
  <2> QED BY <1>6, <2>1, <2>2, <2>3, <2>4, <2>5
<1>7. ASSUME ResetCycle, \A e \in Endpoints : orphans'[e] \subseteq orphans[e] \cup pending[e]
      PROVE  OneWayInv'
  BY <1>2, <1>3, <1>7, ResetCycleTyped
<1>8. ASSUME NEW detached \in SUBSET Endpoints, Interrupt(detached) PROVE OneWayInv'
  BY <1>7, <1>8 DEF Interrupt, Restart
<1>9. ASSUME SaveAncestor \/ ScanAgain \/ Resume \/ Reset PROVE OneWayInv'
  BY <1>7, <1>9 DEF SaveAncestor, ScanAgain, Resume, Reset, Restart, endpointVars
<1>10. ASSUME \/ \E consumed \in SUBSET Endpoints : Poll(consumed)
              \/ \E e \in Endpoints : \E content \in Contents : Scan(e, content)
              \/ \E e \in Endpoints, p \in Paths : \E node \in Placeable(p) : Edit(e, p, node)
              \/ Flush
       PROVE  OneWayInv'
  BY <1>2, <1>3, <1>10 DEF Poll, Scan, Edit, Flush, endpointVars, cycleVars
<1>11. CASE Next
  BY <1>3, <1>5, <1>6, <1>8, <1>9, <1>10, <1>11, Steps
<1> QED BY <1>4, <1>11

(* In the one-way modes no step of the synchronizer changes alpha, whoever *)
(* performs it and whatever failed before.                                 *)
THEOREM AlphaUntouchedHolds ==
    ASSUME Mode \in OneWayModes
    PROVE  Spec => AlphaUntouched
<1>1. Init => OneWayInv
  <2> SUFFICES ASSUME Init PROVE OneWayInv
    OBVIOUS
  <2>1. plan["alpha"] = {} /\ pending["alpha"] = {} /\ orphans["alpha"] = {}
    BY DEF Init, NoOutcome, Endpoints
  <2> QED BY <2>1, TypeInit DEF OneWayInv, Underway
<1>2. OneWayInv /\ [Next]_vars => OneWayInv'
  BY OneWayStep
<1>3. OneWayInv /\ [Next]_vars => [\A q \in Paths : ~Overwrites("alpha", q)]_vars
  <2> SUFFICES ASSUME OneWayInv, [Next]_vars PROVE edits' # edits \/ disk'["alpha"] = disk["alpha"]
    BY DEF Overwrites
  <2>1. /\ edits \in Nat /\ disk \in [Endpoints -> Contents]
        /\ pending["alpha"] = {} /\ orphans["alpha"] = {}
    BY TypeGroups, SynchronizationAssumption, SMTT(30)
    DEF OneWayInv, TypeInv, CountTypes, ContentTypes, Underway
  <2>2. ASSUME NEW e \in Endpoints, NEW c, e # "alpha", ChangeDisk(e, c) PROVE disk'["alpha"] = disk["alpha"]
    BY <2>1, <2>2 DEF ChangeDisk, Endpoints
  <2>3. ASSUME NEW e \in Endpoints, NEW t \in pending[e], NEW denied, NEW closed,
               TransitionOne(e, t, denied, closed)
        PROVE  disk'["alpha"] = disk["alpha"]
    BY <2>1, <2>2, <2>3 DEF TransitionOne
  <2>4. ASSUME NEW e \in Endpoints, NEW t \in orphans[e], NEW denied, NEW closed,
               OrphanTransition(e, t, denied, closed)
        PROVE  disk'["alpha"] = disk["alpha"]
    BY <2>1, <2>2, <2>4 DEF OrphanTransition
  <2>5. ASSUME \/ \E e \in Endpoints, p \in Paths : \E node \in Placeable(p) : Edit(e, p, node)
               \/ Flush \/ Resume \/ Reset
        PROVE  edits' # edits
    <3>1. edits' = edits + 1
      BY <2>5 DEF Edit, Flush, Resume, Reset
    <3> QED BY <2>1, <3>1
  <2>6. ASSUME \/ \E consumed \in SUBSET Endpoints : Poll(consumed)
               \/ \E e \in Endpoints : \E content \in Contents : Scan(e, content)
               \/ ReconcileSnapshots
               \/ \E e \in Endpoints : \E missed : Stage(e, missed)
               \/ SaveAncestor
               \/ \E e \in Endpoints : OrphanStop(e)
               \/ \E detached \in SUBSET Endpoints : Interrupt(detached)
               \/ ScanAgain
               \/ \E e \in Endpoints : TransitionError(e)
        PROVE  disk' = disk
    BY <2>6 DEF Poll, Scan, ReconcileSnapshots, Stage, SaveAncestor, OrphanStop, Interrupt, ScanAgain,
                TransitionError, endpointVars
  <2>7. CASE UNCHANGED vars
    BY <2>7 DEF vars, endpointVars
  <2>8. CASE Next
    BY <2>3, <2>4, <2>5, <2>6, <2>8, Steps
  <2> QED BY <2>7, <2>8
<1> QED BY <1>1, <1>2, <1>3, PTL DEF Spec, AlphaUntouched
=============================================================================
