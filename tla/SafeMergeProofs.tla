-------------------------- MODULE SafeMergeProofs --------------------------
(***************************************************************************)
(* In the safe modes the synchronization loop implements SafeMerge: it     *)
(* overwrites a leaf only if that leaf had been at the same path on both   *)
(* endpoints and a user has destroyed it since.                            *)
(*                                                                         *)
(* The argument follows a leaf around the loop.  A leaf in the archive was *)
(* on both endpoints (ArchiveShared).  A scan that does not find it proves *)
(* that a user destroyed it (WindowsObserved, SnapshotsObserved), because  *)
(* the synchronizer itself never drops a leaf that no user dropped         *)
(* (Histories).  So reconciliation, which only overwrites a leaf that the  *)
(* archive records and one snapshot lacks, plans to overwrite dropped      *)
(* leaves only (PlansAgreed); that remains true however late a transition  *)
(* is performed, even by a server that lost its connection.  And what the  *)
(* transitions report for the next archive is on both endpoints again      *)
(* (ResultsShared).                                                        *)
(***************************************************************************)
EXTENDS SynchronizationProofs

Shared(q, v) == <<q, v>> \in seen["alpha"] /\ <<q, v>> \in seen["beta"]

Histories ==
    \A e \in Endpoints, q \in Paths :
        /\ disk[e][q] \in Leaves => <<q, disk[e][q]>> \in seen[e]
        /\ \A v \in Leaves : <<q, v>> \in seen[e] => disk[e][q] = v \/ <<q, v>> \in dropped

ArchiveShared == \A q \in Paths : archive[q] \in Leaves => Shared(q, archive[q])

Observed(e, q, n) ==
    /\ n \in Leaves => <<q, n>> \in seen[e]
    /\ archive[q] \in Leaves /\ n # archive[q] => <<q, archive[q]>> \in dropped

WindowsObserved ==
    \A e \in Endpoints : \A q \in Paths, n \in Nodes : <<q, n>> \in window[e] => Observed(e, q, n)

SnapshotsObserved ==
    \A e \in Endpoints : phase = "reconcile" \/ (phase = "scan" /\ window[e] = {}) =>
        \A q \in Paths : Observed(e, q, snapshot[e][q])

AgreedChange(e, t) ==
    \A q \in Paths : /\ t.old[q] \in SynchronizableNodes \cup {"nil"}
                     /\ t.new[q] \in SynchronizableNodes \cup {"nil"}
                     /\ t.old[q] \in Leaves => Shared(q, t.old[q]) /\ <<q, t.old[q]>> \in dropped
                     /\ t.new[q] \in Leaves => <<q, t.new[q]>> \in seen[Other(e)]
PlansAgreed == \A e \in Endpoints : \A t \in Underway(e) : AgreedChange(e, t)

Results == plan.ancestor \cup applied["alpha"] \cup applied["beta"]
ResultsShared == \A c \in Results, q \in Paths : c.new[q] \in Leaves => Shared(q, c.new[q])

SafeInv ==
    /\ TypeInv
    /\ Histories /\ ArchiveShared /\ WindowsObserved /\ SnapshotsObserved
    /\ PlansAgreed /\ ResultsShared

-----------------------------------------------------------------------------
(* The pairs that describe content are those of its nodes. *)
LEMMA PairsOf ==
    ASSUME NEW c \in Contents, NEW q \in Paths, NEW n
    PROVE  /\ <<q, n>> \in NodesOf(c) <=> c[q] = n
           /\ <<q, n>> \in LeavesOf(c) <=> c[q] = n /\ n \in Leaves
BY DEF NodesOf, LeavesOf

(* A leaf is a node other than absence and directories. *)
LEMMA LeavesAreNodes == Leaves \subseteq Nodes /\ "nil" \notin Leaves /\ "dir" \notin Leaves
BY NodesAssumption DEF Leaves, Nodes, SynchronizableNodes

(* The invariant holds in a new session. *)
LEMMA SafeInit == Init => SafeInv
<1> SUFFICES ASSUME Init PROVE SafeInv
  OBVIOUS
<1>1. TypeInv /\ disk \in [Endpoints -> Contents]
  BY TypeInit, TypeGroups DEF TypeInv, ContentTypes
<1>2. archive = NilEntry /\ \A q \in Paths : archive[q] = "nil"
  BY DEF Init, NilEntry
<1>3. Histories
  BY <1>1, PairsOf DEF Init, Histories
<1>4. ArchiveShared
  BY <1>2, LeavesAreNodes DEF ArchiveShared
<1>5. WindowsObserved
  BY <1>1, <1>2, PairsOf, LeavesAreNodes DEF Init, WindowsObserved, Observed
<1>6. SnapshotsObserved
  BY <1>1, PairsTyped DEF Init, SnapshotsObserved
<1>7. \A e \in Endpoints : Underway(e) = {}
  BY DEF Init, NoOutcome, Endpoints, Underway
<1>8. Results = {}
  BY DEF Init, NoOutcome, Results, Endpoints
<1> QED BY <1>1, <1>3, <1>4, <1>5, <1>6, <1>7, <1>8 DEF SafeInv, PlansAgreed, ResultsShared

-----------------------------------------------------------------------------
(* Histories only grow, so what was shared, agreed and observed stays so. *)
Grown == /\ \A e \in Endpoints : seen[e] \subseteq seen'[e]
         /\ dropped \subseteq dropped'

(* A shared leaf remains shared as histories grow. *)
LEMMA SharedStays ==
    ASSUME Grown, NEW q, NEW v, Shared(q, v)
    PROVE  Shared(q, v)'
BY DEF Grown, Shared, Endpoints

(* A change that was agreed upon remains so as histories grow. *)
LEMMA AgreedStays ==
    ASSUME Grown, NEW e \in Endpoints, NEW t, AgreedChange(e, t)
    PROVE  AgreedChange(e, t)'
<1>1. Other(e) \in Endpoints
  BY DEF Other, Endpoints
<1>2. \A q, v : Shared(q, v) => Shared(q, v)'
  BY SharedStays
<1> QED BY <1>1, <1>2 DEF Grown, AgreedChange

(* A node that was observed remains so as histories grow. *)
LEMMA ObservedStays ==
    ASSUME Grown, archive' = archive, NEW e \in Endpoints, NEW q, NEW n, Observed(e, q, n)
    PROVE  Observed(e, q, n)'
BY DEF Grown, Observed

(* Plans remain agreed upon when no transition is added. *)
LEMMA PlansAgreedStays ==
    ASSUME PlansAgreed, Grown, \A e \in Endpoints : Underway(e)' \subseteq Underway(e)
    PROVE  PlansAgreed'
BY AgreedStays DEF PlansAgreed

(* Results remain shared when none is added. *)
LEMMA ResultsSharedStays ==
    ASSUME ResultsShared, Grown, Results' \subseteq Results
    PROVE  ResultsShared'
BY SharedStays DEF ResultsShared

(* The archive remains shared when it is not written. *)
LEMMA ArchiveSharedStays ==
    ASSUME ArchiveShared, Grown, archive' \in {archive, NilEntry}
    PROVE  ArchiveShared'
BY SharedStays, LeavesAreNodes DEF ArchiveShared, NilEntry

-----------------------------------------------------------------------------
(* A step that changes a disk and accounts for every leaf it overwrites    *)
(* preserves the histories and what running scans may find.                *)
LEMMA DiskStep ==
    ASSUME SafeInv, NEW e \in Endpoints, NEW c \in Contents, ChangeDisk(e, c),
           archive' = archive, dropped \subseteq dropped',
           \A q \in Paths : disk[e][q] \in Leaves /\ c[q] # disk[e][q] => <<q, disk[e][q]>> \in dropped'
    PROVE  /\ Grown /\ Histories' /\ ArchiveShared' /\ WindowsObserved'
           /\ \A q \in Paths : c[q] \in Leaves => <<q, c[q]>> \in seen'[e]
<1>1. /\ ContentTypes /\ ControlTypes
      /\ Histories /\ ArchiveShared /\ WindowsObserved
  BY TypeGroups DEF SafeInv, TypeInv
<1>2. /\ disk' \in [Endpoints -> Contents] /\ disk'[e] = c
      /\ \A x \in Endpoints : x # e => disk'[x] = disk[x]
  BY <1>1 DEF ChangeDisk, ContentTypes
<1>3. /\ seen'[e] = seen[e] \cup LeavesOf(c)
      /\ \A x \in Endpoints : x # e => seen'[x] = seen[x]
  BY <1>1, <1>2 DEF ChangeDisk, ContentTypes
<1>4. Grown
  BY <1>3 DEF Grown
<1>5. Histories'
  <2>1. ASSUME NEW x \in Endpoints, NEW q \in Paths
        PROVE  /\ disk'[x][q] \in Leaves => <<q, disk'[x][q]>> \in seen'[x]
               /\ \A v \in Leaves : <<q, v>> \in seen'[x] => disk'[x][q] = v \/ <<q, v>> \in dropped'
    <3>1. CASE x # e
      BY <1>1, <1>2, <1>3, <3>1 DEF Histories
    <3>2. CASE x = e
      <4>1. disk'[e][q] \in Leaves => <<q, disk'[e][q]>> \in seen'[e]
        BY <1>2, <1>3, PairsOf
      <4>2. ASSUME NEW v \in Leaves, <<q, v>> \in seen'[e]
            PROVE  disk'[e][q] = v \/ <<q, v>> \in dropped'
        <5>1. CASE <<q, v>> \in LeavesOf(c)
          BY <1>2, <5>1, PairsOf
        <5>2. CASE <<q, v>> \in seen[e]
          BY <1>1, <1>2, <5>2 DEF Histories
        <5> QED BY <1>3, <4>2, <5>1, <5>2
      <4> QED BY <3>2, <4>1, <4>2
    <3> QED BY <3>1, <3>2
  <2> QED BY <2>1 DEF Histories
<1>6. ArchiveShared'
  BY <1>1, <1>4, ArchiveSharedStays
<1>7. WindowsObserved'
  <2>1. ASSUME NEW x \in Endpoints, NEW q \in Paths, NEW n \in Nodes, <<q, n>> \in window'[x]
        PROVE  Observed(x, q, n)'
    <3>1. CASE <<q, n>> \in window[x]
      BY <1>1, <1>4, <3>1, ObservedStays DEF WindowsObserved
    <3>2. CASE <<q, n>> \notin window[x]
      <4>1. x = e /\ <<q, n>> \in NodesOf(disk'[e])
        BY <1>1, <2>1, <3>2 DEF ChangeDisk, ContentTypes
      <4>2. n = disk'[x][q]
        BY <1>2, <4>1, PairsOf
      <4>3. archive[q] \in Leaves => <<q, archive[q]>> \in seen'[x]
        BY <1>1, <1>4 DEF ArchiveShared, Shared, Grown, Endpoints
      <4> QED BY <1>5, <4>2, <4>3 DEF Observed, Histories
    <3> QED BY <3>1, <3>2
  <2> QED BY <2>1 DEF WindowsObserved
<1>8. \A q \in Paths : c[q] \in Leaves => <<q, c[q]>> \in seen'[e]
  BY <1>3, PairsOf
<1> QED BY <1>4, <1>5, <1>6, <1>7, <1>8

(* A window that was not open stays closed. *)
LEMMA SnapshotsStay ==
    ASSUME SafeInv, Grown, archive' = archive, phase' = phase, snapshot' = snapshot,
           \A e \in Endpoints : window'[e] = {} => window[e] = {}
    PROVE  SnapshotsObserved'
<1>1. SnapshotsObserved
  BY DEF SafeInv
<1> QED BY <1>1, ObservedStays DEF SnapshotsObserved

(* The same for a transition that is planned or still under way at e. *)
LEMMA TransitionStep ==
    ASSUME SafeInv, NEW e \in Endpoints, NEW t \in Underway(e), NEW denied, NEW closed,
           NEW result, result = Transition(disk[e], t, staged[e], denied, closed),
           ChangeDisk(e, result.disk), dropped' = dropped,
           archive' = archive, phase' = phase, snapshot' = snapshot
    PROVE  /\ Grown /\ Histories' /\ ArchiveShared' /\ WindowsObserved' /\ SnapshotsObserved'
           /\ result.entry \in Entries
           /\ \A q \in Paths : result.entry[q] \in Leaves => Shared(q, result.entry[q])'
           /\ \A q \in Paths : disk'[e][q] # disk[e][q] =>
                 /\ disk[e][q] \in {"nil", "dir"} \/ <<q, disk[e][q]>> \in seen[Other(e)] \cap dropped
                 /\ disk'[e][q] \in {"nil", "dir"} \/ <<q, disk'[e][q]>> \in seen[Other(e)]
<1>1. Performs(result, disk[e], t.old, t.new)
  BY TransitionTyped DEF SafeInv
<1>2. AgreedChange(e, t)
  BY DEF SafeInv, PlansAgreed
<1>3. result.disk \in Contents /\ result.entry \in Entries
  BY <1>1 DEF Performs
<1>4. \A q \in Paths : disk[e][q] \in Leaves /\ result.disk[q] # disk[e][q] => <<q, disk[e][q]>> \in dropped'
  BY <1>1, <1>2, LeavesAreNodes DEF Performs, AgreedChange
<1>5. /\ Grown /\ Histories' /\ ArchiveShared' /\ WindowsObserved'
      /\ \A q \in Paths : result.disk[q] \in Leaves => <<q, result.disk[q]>> \in seen'[e]
  BY <1>3, <1>4, DiskStep
<1>6. ContentTypes
  BY TypeGroups DEF SafeInv, TypeInv
<1>7. disk'[e] = result.disk /\ \A x \in Endpoints : window'[x] = {} => window[x] = {}
  BY <1>6 DEF ChangeDisk, ContentTypes
<1>8. SnapshotsObserved'
  BY <1>5, <1>7, SnapshotsStay
<1>9. ASSUME NEW q \in Paths, result.entry[q] \in Leaves PROVE Shared(q, result.entry[q])'
  <2>1. CASE result.entry[q] = t.old[q]
    BY <1>2, <1>5, <1>9, <2>1, SharedStays DEF AgreedChange
  <2>2. CASE result.entry[q] = t.new[q] /\ result.disk[q] = t.new[q]
    <3>1. <<q, t.new[q]>> \in seen'[e]
      BY <1>5, <1>9, <2>2
    <3>2. <<q, t.new[q]>> \in seen'[Other(e)]
      BY <1>2, <1>5, <1>9, <2>2 DEF AgreedChange, Grown, Other, Endpoints
    <3> QED BY <2>2, <3>1, <3>2 DEF Shared, Other, Endpoints
  <2> QED BY <1>1, <1>9, <2>1, <2>2, LeavesAreNodes DEF Performs
<1>10. ASSUME NEW q \in Paths, disk'[e][q] # disk[e][q]
       PROVE  /\ disk[e][q] \in {"nil", "dir"} \/ <<q, disk[e][q]>> \in seen[Other(e)] \cap dropped
              /\ disk'[e][q] \in {"nil", "dir"} \/ <<q, disk'[e][q]>> \in seen[Other(e)]
  <2>1. disk[e][q] \in {"nil", t.old[q]} /\ disk'[e][q] \in {"nil", t.new[q]}
    BY <1>1, <1>7, <1>10 DEF Performs
  <2>2. \A n \in SynchronizableNodes : n = "dir" \/ n \in Leaves
    BY DEF SynchronizableNodes
  <2> QED BY <1>2, <2>1, <2>2 DEF AgreedChange, Shared, Other, Endpoints
<1> QED BY <1>3, <1>5, <1>8, <1>9, <1>10

-----------------------------------------------------------------------------
(* The steps that change a disk. *)
LEMMA TransitionOneSafe ==
    ASSUME SafeInv, NEW e \in Endpoints, NEW t \in pending[e], NEW denied, NEW closed,
           TransitionOne(e, t, denied, closed)
    PROVE  SafeInv'
<1>1. PICK result \in {Transition(disk[e], t, staged[e], denied, closed)} :
          /\ ChangeDisk(e, result.disk)
          /\ applied' = [applied EXCEPT ![e] = @ \cup {Change(t.path, NilEntry, result.entry)}]
  BY DEF TransitionOne
<1>2. /\ pending' = [pending EXCEPT ![e] = @ \ {t}]
      /\ UNCHANGED <<orphans, archive, phase, snapshot, plan, dropped>>
  BY DEF TransitionOne
<1>3. TypeInv' /\ TransferTypes
  BY TransitionOneTyped, TypeGroups DEF SafeInv, TypeInv
<1>4. t \in Underway(e)
  BY DEF Underway
<1>5. /\ Grown /\ Histories' /\ ArchiveShared' /\ WindowsObserved' /\ SnapshotsObserved'
      /\ \A q \in Paths : result.entry[q] \in Leaves => Shared(q, result.entry[q])'
  BY <1>1, <1>2, <1>4, TransitionStep
<1>6. PlansAgreed'
  <2>1. \A x \in Endpoints : Underway(x)' \subseteq Underway(x)
    BY <1>2, <1>3 DEF Underway, TransferTypes
  <2> QED BY <1>5, <2>1, PlansAgreedStays DEF SafeInv
<1>7. ResultsShared'
  <2>1. ASSUME NEW c \in Results', NEW q \in Paths, c.new[q] \in Leaves PROVE Shared(q, c.new[q])'
    <3>1. c \in Results \/ c = Change(t.path, NilEntry, result.entry)
      BY <1>1, <1>2, <1>3, <2>1 DEF Results, TransferTypes, Endpoints
    <3>2. CASE c \in Results
      BY <1>5, <2>1, <3>2, SharedStays DEF SafeInv, ResultsShared
    <3>3. CASE c = Change(t.path, NilEntry, result.entry)
      BY <1>5, <2>1, <3>3 DEF Change
    <3> QED BY <3>1, <3>2, <3>3
  <2> QED BY <2>1 DEF ResultsShared
<1> QED BY <1>3, <1>5, <1>6, <1>7 DEF SafeInv

(* A transition of a detached server preserves the invariant. *)
LEMMA OrphanTransitionSafe ==
    ASSUME SafeInv, NEW e \in Endpoints, NEW t \in orphans[e], NEW denied, NEW closed,
           OrphanTransition(e, t, denied, closed)
    PROVE  SafeInv'
<1>1. PICK result \in {Transition(disk[e], t, staged[e], denied, closed)} : ChangeDisk(e, result.disk)
  BY DEF OrphanTransition
<1>2. /\ orphans' = [orphans EXCEPT ![e] = @ \ {t}]
      /\ UNCHANGED <<pending, archive, phase, snapshot, plan, applied, dropped>>
  BY DEF OrphanTransition, cycleVars
<1>3. TypeInv' /\ TransferTypes
  BY OrphanTransitionTyped, TypeGroups DEF SafeInv, TypeInv
<1>4. t \in Underway(e)
  BY DEF Underway
<1>5. /\ Grown /\ Histories' /\ ArchiveShared' /\ WindowsObserved' /\ SnapshotsObserved'
  BY <1>1, <1>2, <1>4, TransitionStep
<1>6. PlansAgreed'
  <2>1. \A x \in Endpoints : Underway(x)' \subseteq Underway(x)
    BY <1>2, <1>3 DEF Underway, TransferTypes
  <2> QED BY <1>5, <2>1, PlansAgreedStays DEF SafeInv
<1>7. ResultsShared'
  BY <1>2, <1>5, ResultsSharedStays DEF SafeInv, Results
<1> QED BY <1>3, <1>5, <1>6, <1>7 DEF SafeInv

(* An edit by a user preserves the invariant. *)
LEMMA EditSafe ==
    ASSUME SafeInv, NEW e \in Endpoints, NEW p \in Paths, NEW node \in Placeable(p), Edit(e, p, node)
    PROVE  SafeInv'
<1>1. TypeInv' /\ ContentTypes /\ ContentTypes'
  BY EditTyped, TypeGroups DEF SafeInv, TypeInv
<1>2. PICK c : ChangeDisk(e, c)
  BY DEF Edit
<1>3. c = disk'[e] /\ c \in Contents
  BY <1>1, <1>2 DEF ChangeDisk, ContentTypes
<1>4. /\ dropped' = dropped \cup (LeavesOf(disk[e]) \ LeavesOf(disk'[e]))
      /\ UNCHANGED <<orphans, archive, phase, snapshot, plan, pending, applied>>
  BY DEF Edit, cycleVars
<1>5. \A q \in Paths : disk[e][q] \in Leaves /\ c[q] # disk[e][q] => <<q, disk[e][q]>> \in dropped'
  BY <1>1, <1>3, <1>4, PairsOf DEF ContentTypes
<1>6. Grown /\ Histories' /\ ArchiveShared' /\ WindowsObserved'
  BY <1>2, <1>3, <1>4, <1>5, DiskStep
<1>7. \A x \in Endpoints : window'[x] = {} => window[x] = {}
  BY <1>1, <1>2 DEF ChangeDisk, ContentTypes
<1>8. SnapshotsObserved'
  BY <1>4, <1>6, <1>7, SnapshotsStay
<1>9. PlansAgreed'
  <2>1. \A x \in Endpoints : Underway(x)' \subseteq Underway(x)
    BY <1>4 DEF Underway
  <2> QED BY <1>6, <2>1, PlansAgreedStays DEF SafeInv
<1>10. ResultsShared'
  BY <1>4, <1>6, ResultsSharedStays DEF SafeInv, Results
<1> QED BY <1>1, <1>6, <1>8, <1>9, <1>10 DEF SafeInv

-----------------------------------------------------------------------------
(* The steps that leave the disks alone.  New scans find what is on disk.  *)
LEMMA QuietStep ==
    ASSUME UNCHANGED <<disk, seen, dropped>>, Histories
    PROVE  Grown /\ Histories'
BY DEF Grown, Histories

(* Steps that start both scans preserve the invariant. *)
LEMMA StartScansSafe ==
    ASSUME TypeInv, Histories', ArchiveShared', StartScans, UNCHANGED <<disk, seen, dropped>>
    PROVE  WindowsObserved' /\ SnapshotsObserved'
<1>1. disk \in [Endpoints -> Contents]
  BY TypeGroups DEF TypeInv, ContentTypes
<1>2. \A e \in Endpoints : window'[e] # {}
  BY <1>1, PairsTyped DEF StartScans
<1>3. SnapshotsObserved'
  BY <1>2 DEF StartScans, SnapshotsObserved
<1>4. ASSUME NEW e \in Endpoints, NEW q \in Paths, NEW n \in Nodes, <<q, n>> \in window'[e]
      PROVE  Observed(e, q, n)'
  <2>1. n = disk'[e][q]
    BY <1>1, <1>4, PairsOf DEF StartScans
  <2>2. archive'[q] \in Leaves => <<q, archive'[q]>> \in seen'[e]
    BY DEF ArchiveShared, Shared, Endpoints
  <2> QED BY <2>1, <2>2 DEF Observed, Histories
<1> QED BY <1>3, <1>4 DEF WindowsObserved

(* synchronize starts anew, or one of its scans does. *)
LEMMA AnewSafe ==
    ASSUME SafeInv, TypeInv', ResetCycle, StartScans, UNCHANGED <<disk, seen, dropped>>,
           archive' \in {archive, NilEntry},
           \A e \in Endpoints : orphans'[e] \subseteq orphans[e] \cup pending[e]
    PROVE  SafeInv'
<1>1. Grown /\ Histories'
  BY QuietStep DEF SafeInv
<1>2. ArchiveShared'
  BY <1>1, ArchiveSharedStays DEF SafeInv
<1>3. WindowsObserved' /\ SnapshotsObserved'
  BY <1>1, <1>2, StartScansSafe DEF SafeInv
<1>4. PlansAgreed'
  <2>1. \A e \in Endpoints : Underway(e)' \subseteq Underway(e)
    BY ResetCycleTyped DEF Underway
  <2> QED BY <1>1, <2>1, PlansAgreedStays DEF SafeInv
<1>5. Results' = {}
  BY ResetCycleTyped DEF Results, Endpoints
<1> QED BY <1>1, <1>2, <1>3, <1>4, <1>5 DEF SafeInv, ResultsShared

(* What a proposed change overwrites is in the archive and was not found   *)
(* on the other endpoint: a user has destroyed it.                         *)
LEMMA ProposedAgreed ==
    ASSUME SafeInv, NEW e \in Endpoints, phase = "reconcile", NEW t,
           Proposed(t, snapshot[e], snapshot[Other(e)]),
           DeletedByOther(t, archive, snapshot[Other(e)])
    PROVE  AgreedChange(e, t)
<1>1. Other(e) \in Endpoints
  BY DEF Other, Endpoints
<1>2. \A q \in Paths : Observed(Other(e), q, snapshot[Other(e)][q])
  BY <1>1 DEF SafeInv, SnapshotsObserved
<1> SUFFICES ASSUME NEW q \in Paths
             PROVE  /\ t.old[q] \in SynchronizableNodes \cup {"nil"}
                    /\ t.new[q] \in SynchronizableNodes \cup {"nil"}
                    /\ t.old[q] \in Leaves => Shared(q, t.old[q]) /\ <<q, t.old[q]>> \in dropped
                    /\ t.new[q] \in Leaves => <<q, t.new[q]>> \in seen[Other(e)]
  BY DEF AgreedChange
<1>3. t.old[q] \in SynchronizableNodes \cup {"nil"} /\ t.new[q] \in SynchronizableNodes \cup {"nil"}
  BY DEF Proposed
<1>4. t.new[q] \in Leaves => <<q, t.new[q]>> \in seen[Other(e)]
  BY <1>2, LeavesAreNodes DEF Proposed, Observed
<1>5. ASSUME t.old[q] \in Leaves PROVE Shared(q, t.old[q]) /\ <<q, t.old[q]>> \in dropped
  <2>1. archive[q] = t.old[q] /\ snapshot[Other(e)][q] # t.old[q]
    BY <1>5 DEF DeletedByOther
  <2> QED BY <1>2, <1>5, <2>1 DEF SafeInv, ArchiveShared, Observed
<1> QED BY <1>3, <1>4, <1>5

(* Reconciliation preserves the invariant: what it plans is agreed upon. *)
LEMMA ReconcileSafe ==
    ASSUME SafeInv, Mode \in SafeModes, ReconcileSnapshots
    PROVE  SafeInv'
<1> DEFINE o == Reconcile(Mode, ancestor, snapshot["alpha"], snapshot["beta"])
<1>1. TypeInv' /\ RecordTypes
  BY ReconcileTyped, TypeGroups DEF SafeInv, TypeInv
<1>2. UNCHANGED <<disk, orphans, archive, window, seen, dropped>>
  BY DEF ReconcileSnapshots, endpointVars, historyVars
<1>3. Grown /\ Histories' /\ ArchiveShared'
  BY <1>2, QuietStep, ArchiveSharedStays DEF SafeInv
<1>4. WindowsObserved'
  BY <1>2, <1>3, ObservedStays DEF SafeInv, WindowsObserved
<1>5. SnapshotsObserved'
  BY DEF ReconcileSnapshots, SnapshotsObserved
<1>6. CASE ResetCycle
  <2>1. \A e \in Endpoints : Underway(e)' \subseteq Underway(e)
    BY <1>2, <1>6, ResetCycleTyped DEF Underway
  <2>2. Results' = {}
    BY <1>6, ResetCycleTyped DEF Results, Endpoints
  <2> QED BY <1>1, <1>3, <1>4, <1>5, <2>1, <2>2, PlansAgreedStays DEF SafeInv, ResultsShared
<1>7. CASE plan' = o /\ UNCHANGED <<snapshot, pending, applied, failed, missing>>
  <2>1. ancestor = archive /\ archive \in Contents
        /\ snapshot["alpha"] \in Contents /\ snapshot["beta"] \in Contents
    BY <1>1 DEF RecordTypes, EnsureValid, Contents, Entries, Endpoints
  <2>2. /\ \A c \in o.ancestor : \A q \in Paths :
              c.new[q] # "nil" => c.new[q] = snapshot["alpha"][q] /\ c.new[q] = snapshot["beta"][q]
        /\ \A c \in o.alpha : /\ Proposed(c, snapshot["alpha"], snapshot["beta"])
                              /\ DeletedByOther(c, archive, snapshot["beta"])
        /\ \A c \in o.beta : /\ Proposed(c, snapshot["beta"], snapshot["alpha"])
                             /\ DeletedByOther(c, archive, snapshot["alpha"])
    BY <2>1, ReconcileSound, SynchronizationAssumption, SMTT(30)
  <2> HIDE DEF o
  <2>3. phase = "reconcile"
    BY DEF ReconcileSnapshots
  <2>4. \A c \in o.alpha : AgreedChange("alpha", c)
    BY <2>2, <2>3, ProposedAgreed DEF Other, Endpoints
  <2>5. \A c \in o.beta : AgreedChange("beta", c)
    BY <2>2, <2>3, ProposedAgreed DEF Other, Endpoints
  <2>6. PlansAgreed'
    <3>1. ASSUME NEW e \in Endpoints, NEW t \in Underway(e)' PROVE AgreedChange(e, t)'
      <4>1. t \in o[e] \/ t \in Underway(e)
        BY <1>2, <1>7, <3>1 DEF Underway
      <4>2. AgreedChange(e, t)
        BY <2>4, <2>5, <4>1 DEF Endpoints, SafeInv, PlansAgreed
      <4> QED BY <1>3, <4>2, AgreedStays
    <3> QED BY <3>1 DEF PlansAgreed
  <2>7. ResultsShared'
    <3>1. ASSUME NEW c \in Results', NEW q \in Paths, c.new[q] \in Leaves PROVE Shared(q, c.new[q])
      <4>1. CASE c \in o.ancestor
        <5>1. c.new[q] = snapshot["alpha"][q] /\ c.new[q] = snapshot["beta"][q]
          BY <2>2, <3>1, <4>1, LeavesAreNodes
        <5> QED BY <2>3, <3>1, <5>1 DEF SafeInv, SnapshotsObserved, Observed, Shared, Endpoints
      <4>2. CASE c \in Results
        BY <3>1, <4>2 DEF SafeInv, ResultsShared
      <4> QED BY <1>7, <4>1, <4>2 DEF Results
    <3> QED BY <1>3, <3>1, SharedStays DEF ResultsShared
  <2> QED BY <1>1, <1>3, <1>4, <1>5, <2>6, <2>7 DEF SafeInv
<1> QED BY <1>6, <1>7 DEF ReconcileSnapshots

(* A scan that returns preserves the invariant. *)
LEMMA ScanSafe ==
    ASSUME SafeInv, NEW e \in Endpoints, NEW content \in Contents, Scan(e, content)
    PROVE  SafeInv'
<1>1. TypeInv' /\ ContentTypes /\ RecordTypes
  BY LoopTyped, TypeGroups DEF SafeInv, TypeInv
<1>2. UNCHANGED <<disk, orphans, archive, plan, pending, applied, seen, dropped>>
  BY DEF Scan, endpointVars, historyVars
<1>3. Grown /\ Histories' /\ ArchiveShared'
  BY <1>2, QuietStep, ArchiveSharedStays DEF SafeInv
<1>4. /\ window'[e] = {} /\ snapshot'[e] = content
      /\ \A x \in Endpoints : x # e => window'[x] = window[x] /\ snapshot'[x] = snapshot[x]
  BY <1>1 DEF Scan, ContentTypes, RecordTypes
<1>5. WindowsObserved'
  BY <1>2, <1>3, <1>4, ObservedStays DEF SafeInv, WindowsObserved
<1>6. \A q \in Paths : Observed(e, q, content[q])
  <2>1. \A q \in Paths : content[q] \in Nodes /\ <<q, content[q]>> \in window[e]
    BY DEF Contents, Scan, NodesOf
  <2> QED BY <2>1 DEF SafeInv, WindowsObserved
<1>7. SnapshotsObserved'
  <2>1. ASSUME NEW x \in Endpoints, phase' = "reconcile" \/ (phase' = "scan" /\ window'[x] = {}),
               NEW q \in Paths
        PROVE  Observed(x, q, snapshot'[x][q])
    <3>1. CASE x = e
      BY <1>4, <1>6, <3>1
    <3>2. CASE x # e
      <4>1. x = Other(e)
        BY <3>2 DEF Other, Endpoints
      <4>2. phase = "scan" /\ window[x] = {}
        BY <1>4, <2>1, <3>2, <4>1 DEF Scan
      <4> QED BY <1>4, <3>2, <4>2 DEF SafeInv, SnapshotsObserved
    <3> QED BY <3>1, <3>2
  <2>2. \A x \in Endpoints, q \in Paths : \A n : Observed(x, q, n) => Observed(x, q, n)'
    BY <1>2, <1>3, ObservedStays
  <2> QED BY <1>2, <1>3, <2>1, <2>2 DEF SnapshotsObserved, Observed
<1>8. PlansAgreed' /\ ResultsShared'
  BY <1>2, <1>3, PlansAgreedStays, ResultsSharedStays DEF SafeInv, Underway, Results
<1> QED BY <1>1, <1>3, <1>5, <1>7, <1>8 DEF SafeInv

(* The archive that is saved records what is on both endpoints. *)
LEMMA SaveAncestorSafe ==
    ASSUME SafeInv, SaveAncestor
    PROVE  SafeInv'
<1>1. TypeInv' /\ RecordTypes /\ PlanTypes /\ TransferTypes
  BY SaveAncestorTyped, TypeGroups DEF SafeInv, TypeInv
<1>2. /\ archive' = (IF NewAncestorValid THEN NewAncestor ELSE archive)
      /\ ResetCycle
      /\ StartScans \/ (phase' = "watch" /\ NoScans)
      /\ UNCHANGED <<disk, orphans, seen, dropped>>
  BY DEF SaveAncestor, endpointVars, historyVars
<1>3. Grown /\ Histories'
  BY <1>2, QuietStep DEF SafeInv
<1>4. ArchiveShared'
  <2>1. ASSUME NEW q \in Paths, NewAncestor[q] \in Leaves PROVE Shared(q, NewAncestor[q])
    <3>1. AncestorChanges = Results /\ AncestorChanges \in SUBSET Changes
      BY <1>1 DEF AncestorChanges, Results, PlanTypes, TransferTypes, Endpoints
    <3>2. \/ NewAncestor[q] = ancestor[q]
          \/ \E c \in Results : NewAncestor[q] = c.new[q]
      BY <3>1, ApplyOrigin DEF NewAncestor
    <3>3. CASE NewAncestor[q] = ancestor[q]
      BY <1>1, <2>1, <3>3 DEF RecordTypes, SafeInv, ArchiveShared
    <3>4. CASE \E c \in Results : NewAncestor[q] = c.new[q]
      BY <2>1, <3>4 DEF SafeInv, ResultsShared
    <3> QED BY <3>2, <3>3, <3>4
  <2>2. \A q \in Paths : archive'[q] \in Leaves => Shared(q, archive'[q])
    BY <1>2, <2>1 DEF SafeInv, ArchiveShared
  <2> QED BY <1>2, <2>2 DEF ArchiveShared, Shared
<1>5. WindowsObserved' /\ SnapshotsObserved'
  <2>1. CASE StartScans
    BY <1>2, <1>3, <1>4, <2>1, StartScansSafe DEF SafeInv
  <2>2. CASE phase' = "watch" /\ NoScans
    BY <2>2 DEF NoScans, WindowsObserved, SnapshotsObserved
  <2> QED BY <1>2, <2>1, <2>2
<1>6. \A e \in Endpoints : Underway(e)' \subseteq Underway(e)
  BY <1>2, ResetCycleTyped DEF Underway
<1>7. Results' = {}
  BY <1>2, ResetCycleTyped DEF Results, Endpoints
<1> QED BY <1>1, <1>3, <1>4, <1>5, <1>6, <1>7, PlansAgreedStays DEF SafeInv, ResultsShared

(* A poll or flush preserves the invariant. *)
LEMMA PollSafe ==
    ASSUME SafeInv, (\E consumed \in SUBSET Endpoints : Poll(consumed)) \/ Flush
    PROVE  SafeInv'
<1>1. TypeInv'
  BY LoopTyped DEF SafeInv
<1>2. StartScans /\ UNCHANGED <<disk, orphans, archive, plan, pending, applied, seen, dropped>>
  BY DEF Poll, Flush, endpointVars, cycleVars, historyVars
<1>3. Grown /\ Histories' /\ ArchiveShared'
  BY <1>2, QuietStep, ArchiveSharedStays DEF SafeInv
<1>4. WindowsObserved' /\ SnapshotsObserved'
  BY <1>2, <1>3, StartScansSafe DEF SafeInv
<1>5. PlansAgreed' /\ ResultsShared'
  BY <1>2, <1>3, PlansAgreedStays, ResultsSharedStays DEF SafeInv, Underway, Results
<1> QED BY <1>1, <1>3, <1>4, <1>5 DEF SafeInv

(* Steps of the transition phases that leave disks and scans alone. *)
LEMMA IdleSafe ==
    ASSUME SafeInv, TypeInv', UNCHANGED <<disk, archive, window, snapshot, seen, dropped>>,
           phase' = phase \/ phase' \in {"stage-beta", "transition"},
           \A e \in Endpoints : Underway(e)' \subseteq Underway(e),
           Results' \subseteq Results
    PROVE  SafeInv'
<1>1. Grown /\ Histories' /\ ArchiveShared'
  BY QuietStep, ArchiveSharedStays DEF SafeInv
<1>2. WindowsObserved' /\ SnapshotsObserved'
  BY <1>1, ObservedStays DEF SafeInv, WindowsObserved, SnapshotsObserved
<1> QED BY <1>1, <1>2, PlansAgreedStays, ResultsSharedStays DEF SafeInv

(* Every step preserves the invariant. *)
LEMMA SafeStep == Mode \in SafeModes /\ SafeInv /\ [Next]_vars => SafeInv'
<1> SUFFICES ASSUME Mode \in SafeModes, SafeInv, [Next]_vars PROVE SafeInv'
  OBVIOUS
<1>1. TypeInv' /\ TransferTypes
  BY TypeStep, TypeGroups DEF SafeInv, TypeInv
<1>2. CASE UNCHANGED vars
  BY <1>1, <1>2, IdleSafe
  DEF vars, endpointVars, cycleVars, historyVars, Underway, Results
<1>3. ASSUME NEW e \in Endpoints, NEW missed, Stage(e, missed) PROVE SafeInv'
  <2>1. \A x \in Endpoints : Underway(x)' \subseteq Underway(x)
    BY <1>3 DEF Stage, Underway
  <2> QED BY <1>1, <1>3, <2>1, IdleSafe DEF Stage, historyVars, Results
<1>4. ASSUME NEW e \in Endpoints, TransitionError(e) PROVE SafeInv'
  <2>1. \A x \in Endpoints : Underway(x)' \subseteq Underway(x)
    BY <1>1, <1>4 DEF TransitionError, Underway, TransferTypes
  <2>2. Results' \subseteq Results
    BY <1>1, <1>4 DEF TransitionError, Results, TransferTypes, Endpoints
  <2> QED BY <1>1, <1>4, <2>1, <2>2, IdleSafe DEF TransitionError, historyVars
<1>5. ASSUME NEW e \in Endpoints, OrphanStop(e) PROVE SafeInv'
  <2>1. \A x \in Endpoints : Underway(x)' \subseteq Underway(x)
    BY <1>1, <1>5 DEF OrphanStop, Underway, TransferTypes, cycleVars
  <2> QED BY <1>1, <1>5, <2>1, IdleSafe DEF OrphanStop, historyVars, cycleVars, Results
<1>6. ASSUME NEW detached \in SUBSET Endpoints, Interrupt(detached) PROVE SafeInv'
  BY <1>1, <1>6, AnewSafe DEF Interrupt, Restart, historyVars
<1>7. ASSUME Resume \/ Reset \/ ScanAgain PROVE SafeInv'
  BY <1>1, <1>7, AnewSafe DEF Resume, Reset, ScanAgain, Restart, historyVars, endpointVars
<1>8. CASE Next
  BY <1>3, <1>4, <1>5, <1>6, <1>7, <1>8, Steps, PollSafe, ScanSafe, ReconcileSafe,
     TransitionOneSafe, OrphanTransitionSafe, SaveAncestorSafe, EditSafe
<1> QED BY <1>2, <1>8

(* What the archive records is accounted for, in the safe modes. *)
THEOREM ArchiveAlwaysAccounted ==
    ASSUME Mode \in SafeModes
    PROVE  Spec => []ArchiveAccounted
<1>1. Init => SafeInv
  BY SafeInit
<1>2. SafeInv /\ [Next]_vars => SafeInv'
  BY SafeStep
<1>3. SafeInv => ArchiveAccounted
  BY DEF SafeInv, Histories, ArchiveShared, Shared, ArchiveAccounted, Endpoints
<1> QED BY <1>1, <1>2, <1>3, PTL DEF Spec

-----------------------------------------------------------------------------
(* The definitions that SafeMerge shares with this specification. *)
LEMMA PromiseNames ==
    /\ Promise!Endpoints = Endpoints
    /\ \A e : Promise!Other(e) = Other(e)
    /\ Promise!Contents = Contents
    /\ \A c : Promise!LeavesOf(c) = LeavesOf(c)
<1>1. Promise!Leaves = Leaves
  BY DEF Promise!Leaves, Leaves
<1>2. Promise!Nodes = Nodes
  BY <1>1 DEF Promise!Nodes, Nodes, Promise!SynchronizableNodes, SynchronizableNodes
<1>3. Promise!Contents = Contents
  BY <1>2 DEF Promise!Contents, Contents, Promise!WellFormed, WellFormed
<1>4. \A c : Promise!LeavesOf(c) = LeavesOf(c)
  BY <1>1 DEF Promise!LeavesOf, LeavesOf
<1> QED BY <1>3, <1>4 DEF Promise!Endpoints, Endpoints, Promise!Other, Other

(* An initial state of the loop is one of SafeMerge. *)
LEMMA PromiseInit == Init => Promise!Init
<1> SUFFICES ASSUME Init PROVE Promise!Init
  OBVIOUS
<1>1. disk \in [Endpoints -> Contents]
  BY TypeInit, TypeGroups DEF TypeInv, ContentTypes
<1> QED BY <1>1, PromiseNames DEF Init, Promise!Init

(* What users do is a user's step, even where it leaves the disks alone. *)
LEMMA PromiseUserStep ==
    ASSUME SafeInv, NEW e \in Endpoints, disk' \in [Endpoints -> Contents],
           disk'[Other(e)] = disk[Other(e)],
           seen' = [seen EXCEPT ![e] = @ \cup LeavesOf(disk'[e])],
           dropped' = dropped \cup (LeavesOf(disk[e]) \ LeavesOf(disk'[e])),
           edits' = edits + 1
    PROVE  Promise!Next
BY PromiseNames DEF Promise!Next, Promise!UserStep, Promise!Becomes

(* A transition is a synchronizer step of SafeMerge. *)
LEMMA PromiseSynchronizerStep ==
    ASSUME SafeInv, NEW e \in Endpoints, NEW c \in Contents, ChangeDisk(e, c),
           dropped' = dropped, edits' = edits,
           \A q \in Paths : disk'[e][q] # disk[e][q] =>
                 /\ disk[e][q] \in {"nil", "dir"} \/ <<q, disk[e][q]>> \in seen[Other(e)] \cap dropped
                 /\ disk'[e][q] \in {"nil", "dir"} \/ <<q, disk'[e][q]>> \in seen[Other(e)]
    PROVE  Promise!Next
<1>1. ContentTypes /\ ControlTypes
  BY TypeGroups DEF SafeInv, TypeInv
<1>2. /\ disk' \in [Endpoints -> Contents] /\ disk'[Other(e)] = disk[Other(e)]
      /\ seen' = [seen EXCEPT ![e] = @ \cup LeavesOf(disk'[e])]
  BY <1>1, ChangeDiskTyped DEF ChangeDisk
<1>3. Promise!Becomes(e)
  BY <1>2, PromiseNames DEF Promise!Becomes
<1>4. Promise!SynchronizerStep(e)
  BY <1>3, PromiseNames DEF Promise!SynchronizerStep, Promise!MayOverwrite, Promise!MayPlace
<1> QED BY <1>4, PromiseNames DEF Promise!Next

(* Every step of the loop is a step of SafeMerge or stutters. *)
LEMMA PromiseStep == SafeInv /\ [Next]_vars => [Promise!Next]_(Promise!vars)
<1> SUFFICES ASSUME SafeInv, [Next]_vars PROVE [Promise!Next]_(Promise!vars)
  OBVIOUS
<1>1. ContentTypes /\ ControlTypes /\ ContentTypes'
  BY TypeStep, TypeGroups DEF SafeInv, TypeInv
<1>2. ASSUME UNCHANGED <<disk, seen, dropped, edits>> PROVE [Promise!Next]_(Promise!vars)
  BY <1>2 DEF Promise!vars
<1>3. CASE UNCHANGED vars
  BY <1>2, <1>3 DEF vars, endpointVars, historyVars
<1>4. ASSUME NEW e \in Endpoints, NEW t \in Underway(e), NEW denied, NEW closed,
             NEW result \in {Transition(disk[e], t, staged[e], denied, closed)},
             ChangeDisk(e, result.disk),
             UNCHANGED <<dropped, edits, archive, phase, snapshot>>
      PROVE  Promise!Next
  <2>1. \A q \in Paths : disk'[e][q] # disk[e][q] =>
           /\ disk[e][q] \in {"nil", "dir"} \/ <<q, disk[e][q]>> \in seen[Other(e)] \cap dropped
           /\ disk'[e][q] \in {"nil", "dir"} \/ <<q, disk'[e][q]>> \in seen[Other(e)]
    BY <1>4, TransitionStep
  <2>2. result.disk \in Contents
    <3>1. Performs(result, disk[e], t.old, t.new)
      BY TransitionTyped DEF SafeInv
    <3> QED BY <3>1 DEF Performs
  <2> QED BY <1>4, <2>1, <2>2, PromiseSynchronizerStep
<1>5. ASSUME NEW e \in Endpoints, NEW t \in pending[e], NEW denied, NEW closed,
             TransitionOne(e, t, denied, closed)
      PROVE  Promise!Next
  <2>1. t \in Underway(e)
    BY DEF Underway
  <2>2. PICK result \in {Transition(disk[e], t, staged[e], denied, closed)} : ChangeDisk(e, result.disk)
    BY <1>5 DEF TransitionOne
  <2> QED BY <1>4, <1>5, <2>1, <2>2 DEF TransitionOne
<1>6. ASSUME NEW e \in Endpoints, NEW t \in orphans[e], NEW denied, NEW closed,
             OrphanTransition(e, t, denied, closed)
      PROVE  Promise!Next
  <2>1. t \in Underway(e)
    BY DEF Underway
  <2>2. PICK result \in {Transition(disk[e], t, staged[e], denied, closed)} : ChangeDisk(e, result.disk)
    BY <1>6 DEF OrphanTransition
  <2> QED BY <1>4, <1>6, <2>1, <2>2 DEF OrphanTransition, cycleVars
<1>7. ASSUME NEW e \in Endpoints, NEW p \in Paths, NEW node \in Placeable(p), Edit(e, p, node)
      PROVE  Promise!Next
  <2>1. PICK c : ChangeDisk(e, c)
    BY <1>7 DEF Edit
  <2>2. disk'[Other(e)] = disk[Other(e)] /\ seen' = [seen EXCEPT ![e] = @ \cup LeavesOf(disk'[e])]
    BY <1>1, <2>1 DEF ChangeDisk, ContentTypes, Other, Endpoints
  <2> QED BY <1>1, <1>7, <2>2, PromiseUserStep DEF Edit, ContentTypes
<1>8. ASSUME Flush \/ Resume \/ Reset PROVE Promise!Next
  <2>1. UNCHANGED <<disk, seen, dropped>> /\ edits' = edits + 1
    BY <1>8 DEF Flush, Resume, Reset, endpointVars, historyVars
  <2>2. LeavesOf(disk["alpha"]) \subseteq seen["alpha"]
    BY DEF SafeInv, Histories, LeavesOf, Endpoints
  <2>3. seen' = [seen EXCEPT !["alpha"] = @ \cup LeavesOf(disk'["alpha"])]
    BY <1>1, <2>1, <2>2 DEF ContentTypes, Endpoints
  <2>4. dropped' = dropped \cup (LeavesOf(disk["alpha"]) \ LeavesOf(disk'["alpha"]))
    BY <2>1
  <2>5. "alpha" \in Endpoints /\ disk' \in [Endpoints -> Contents] /\ disk'[Other("alpha")] = disk[Other("alpha")]
    BY <1>1, <2>1 DEF ContentTypes, Endpoints
  <2> QED BY <2>1, <2>3, <2>4, <2>5, PromiseUserStep
<1>9. ASSUME \/ \E consumed \in SUBSET Endpoints : Poll(consumed)
             \/ \E e \in Endpoints : \E content \in Contents : Scan(e, content)
             \/ ReconcileSnapshots
             \/ \E e \in Endpoints : \E missed : Stage(e, missed)
             \/ SaveAncestor
             \/ \E e \in Endpoints : OrphanStop(e)
             \/ \E detached \in SUBSET Endpoints : Interrupt(detached)
             \/ ScanAgain
             \/ \E e \in Endpoints : TransitionError(e)
      PROVE  UNCHANGED <<disk, seen, dropped, edits>>
  BY <1>9 DEF Poll, Scan, ReconcileSnapshots, Stage, SaveAncestor, OrphanStop, Interrupt, ScanAgain,
              TransitionError, endpointVars, historyVars
<1>10. CASE Next
  BY <1>2, <1>5, <1>6, <1>7, <1>8, <1>9, <1>10, Steps
<1> QED BY <1>3, <1>10

(* The loop implements the promise of SafeMerge in the safe modes: with    *)
(* users, interruptions, partial failures and detached servers at every    *)
(* step, a leaf is overwritten only if it was at that path on both         *)
(* endpoints and a user destroyed it.                                      *)
THEOREM SafeMergeImplemented ==
    ASSUME Mode \in SafeModes
    PROVE  Spec => SafeMergePromise
<1>1. Init => SafeInv /\ Promise!Init
  BY SafeInit, PromiseInit
<1>2. SafeInv /\ [Next]_vars => SafeInv'
  BY SafeStep
<1>3. SafeInv /\ [Next]_vars => [Promise!Next]_(Promise!vars)
  BY PromiseStep
<1> QED BY <1>1, <1>2, <1>3, PTL DEF Spec, SafeMergePromise, Promise!Spec

(* A step of SafeMerge overwrites nothing that NoUnagreedLoss protects. *)
LEMMA PromisePreventsLoss ==
    ASSUME TypeInv, [Promise!Next]_(Promise!vars),
           NEW e \in Endpoints, NEW q \in Paths, Overwrites(e, q)
    PROVE  disk[e][q] \in {"nil", "dir"} \/ <<q, disk[e][q]>> \in seen[Other(e)] \cap dropped
<1>1. edits \in Nat /\ edits' = edits /\ disk' # disk
  BY TypeGroups, SynchronizationAssumption DEF TypeInv, CountTypes, Overwrites
<1>2. PICK x \in Endpoints : Promise!UserStep(x) \/ Promise!SynchronizerStep(x)
  BY <1>1, PromiseNames DEF Promise!Next, Promise!vars
<1>3. Promise!SynchronizerStep(x)
  BY <1>1, <1>2 DEF Promise!UserStep
<1>4. disk'[Other(x)] = disk[Other(x)]
  BY <1>3, PromiseNames DEF Promise!SynchronizerStep, Promise!Becomes
<1>5. x = e
  BY <1>4 DEF Overwrites, Other, Endpoints
<1>6. Promise!MayOverwrite(e, q)
  BY <1>3, <1>5 DEF Promise!SynchronizerStep, Overwrites
<1> QED BY <1>6, PromiseNames DEF Promise!MayOverwrite

(* No content that is only on one endpoint, or that no user has destroyed, *)
(* is ever overwritten by the synchronizer in a safe mode.                 *)
THEOREM NoUnagreedLossHolds ==
    ASSUME Mode \in SafeModes
    PROVE  Spec => NoUnagreedLoss
<1>1. Init => SafeInv
  BY SafeInit
<1>2. SafeInv /\ [Next]_vars => SafeInv'
  BY SafeStep
<1>3. SafeInv /\ [Next]_vars =>
          [\A e \in Endpoints, q \in Paths :
              Overwrites(e, q) => \/ disk[e][q] \in {"nil", "dir"}
                                  \/ <<q, disk[e][q]>> \in seen[Other(e)] \cap dropped]_vars
  <2> SUFFICES ASSUME SafeInv, [Next]_vars, NEW e \in Endpoints, NEW q \in Paths, Overwrites(e, q)
               PROVE  disk[e][q] \in {"nil", "dir"} \/ <<q, disk[e][q]>> \in seen[Other(e)] \cap dropped
    OBVIOUS
  <2>1. [Promise!Next]_(Promise!vars)
    BY PromiseStep
  <2> QED BY <2>1, PromisePreventsLoss DEF SafeInv
<1> QED BY <1>1, <1>2, <1>3, PTL DEF Spec, NoUnagreedLoss
=============================================================================
