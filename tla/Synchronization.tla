-------------------------- MODULE Synchronization --------------------------
(***************************************************************************)
(* The synchronization loop: controller.synchronize of                     *)
(* pkg/synchronization/controller.go with the two endpoints it drives,     *)
(* the archive it persists, the users who edit both roots at any time, and *)
(* interruptions (errors that end synchronize, lost connections, crashes)  *)
(* after which the loop starts again from the saved archive, possibly      *)
(* while the endpoint server of a lost connection is still at work.        *)
(***************************************************************************)
EXTENDS Transitioning, Naturals

CONSTANTS Mode,        \* the synchronization mode of the session
          Initial,     \* the contents that the endpoints may have at first
          UserNodes,   \* the nodes users put on disk
          MaxEdits,    \* bound on the operations of users
          MaxFaults    \* bound on refusals, failures and interruptions

ASSUME SynchronizationAssumption ==
    /\ Mode \in Modes
    /\ Initial \subseteq [{"alpha", "beta"} -> Contents]
    /\ UserNodes \subseteq Nodes
    /\ MaxEdits \in Nat /\ MaxFaults \in Nat

VARIABLES
    disk,      \* disk[e]: the content at endpoint e
    dirty,     \* the endpoints with a filesystem event not yet polled
    staged,    \* staged[e]: the <<path, digest>> pairs in the stager of e
    orphans,   \* orphans[e]: transitions that a disconnected server of e still performs
    archive,   \* the saved ancestor
    ancestor,  \* the ancestor in memory
    phase,     \* what the loop is doing
    window,    \* window[e]: the <<path, node>> pairs a running scan of e may find
    snapshot,  \* snapshot[e]: what the scan of e returned
    plan,      \* the outcome of reconciliation
    pending,   \* pending[e]: transitions not yet performed
    applied,   \* applied[e]: performed transitions as ancestor changes
    failed,    \* the endpoints whose Transition call returned an error
    missing,   \* whether a stager was missing files during the transitions
    retrying,  \* skippingPollingDueToMissingFiles
    problems,  \* the endpoints that report transition problems
    edits,     \* number of user operations so far
    faults,    \* number of faults so far
    seen,      \* history: seen[e] holds every <<path, leaf>> ever on disk at e
    dropped    \* history: every <<path, leaf>> that a user destroyed

endpointVars == <<disk, dirty, staged, orphans>>
cycleVars == <<snapshot, plan, pending, applied, failed, missing>>
historyVars == <<seen, dropped>>
vars == <<endpointVars, archive, ancestor, phase, window, cycleVars, retrying,
          problems, edits, faults, historyVars>>

Endpoints == {"alpha", "beta"}
Other(e) == IF e = "alpha" THEN "beta" ELSE "alpha"
Phases == {"watch", "scan", "reconcile", "stage-alpha", "stage-beta", "transition", "halted"}

(* A scan finds directories and files at the root, and fails otherwise. *)
Placeable(p) == (UserNodes \cup {"nil"}) \cap (IF p = Root THEN Files \cup {"nil", "dir"} ELSE Nodes)

NodesOf(c) == {<<q, c[q]>> : q \in Paths}
LeavesOf(c) == {<<q, c[q]>> : q \in {r \in Paths : c[r] \in Leaves}}

(* The content of e becomes c: watchers notice, and so does a running scan. *)
ChangeDisk(e, c) ==
    /\ disk' = [disk EXCEPT ![e] = c]
    /\ dirty' = IF disk'[e] # disk[e] THEN dirty \cup {e} ELSE dirty
    /\ window' = [window EXCEPT ![e] = IF @ = {} THEN {} ELSE @ \cup NodesOf(disk'[e])]
    /\ seen' = [seen EXCEPT ![e] = @ \cup LeavesOf(disk'[e])]

-----------------------------------------------------------------------------
(* The local state of a call of synchronize, reset. *)
ResetCycle ==
    /\ snapshot' = [e \in Endpoints |-> NilEntry]
    /\ plan' = NoOutcome
    /\ pending' = [e \in Endpoints |-> {}]
    /\ applied' = [e \in Endpoints |-> {}]
    /\ failed' = {}
    /\ missing' = FALSE

(* Both scans start. *)
StartScans ==
    /\ phase' = "scan"
    /\ window' = [e \in Endpoints |-> NodesOf(disk[e])]
NoScans == window' = [e \in Endpoints |-> {}]

(* A new session, with an empty archive. *)
Init ==
    /\ disk \in Initial
    /\ dirty = {}
    /\ staged = [e \in Endpoints |-> {}]
    /\ orphans = [e \in Endpoints |-> {}]
    /\ archive = NilEntry
    /\ ancestor = NilEntry
    /\ phase = "scan"
    /\ window = [e \in Endpoints |-> NodesOf(disk[e])]
    /\ snapshot = [e \in Endpoints |-> NilEntry]
    /\ plan = NoOutcome
    /\ pending = [e \in Endpoints |-> {}]
    /\ applied = [e \in Endpoints |-> {}]
    /\ failed = {}
    /\ missing = FALSE
    /\ retrying = FALSE
    /\ problems = {}
    /\ edits = 0
    /\ faults = 0
    /\ seen = [e \in Endpoints |-> LeavesOf(disk[e])]
    /\ dropped = {}

(* Mutant of Restart: polling is not skipped. *)
RestartPolling ==
    /\ ancestor' = archive
    /\ retrying' = FALSE
    /\ problems' = {}
    /\ ResetCycle
    /\ phase' = "watch" /\ NoScans

(* synchronize is called anew: it loads the archive and skips polling. *)
Restart ==
    /\ ancestor' = archive
    /\ retrying' = FALSE
    /\ problems' = {}
    /\ ResetCycle
    /\ StartScans

(* synchronize returns an error, the connection is lost or the process     *)
(* dies.  The servers of the detached endpoints have not noticed yet, and  *)
(* go on with the transitions they were given.                             *)
Interrupt(detached) ==
    /\ phase # "halted"
    /\ faults < MaxFaults
    /\ faults' = faults + 1
    /\ orphans' = [e \in Endpoints |-> orphans[e] \cup (IF e \in detached THEN pending[e] ELSE {})]
    /\ Restart
    /\ UNCHANGED <<disk, dirty, staged, archive, edits, historyVars>>

(* The user resumes a session that was halted for safety. *)
Resume ==
    /\ phase = "halted"
    /\ edits < MaxEdits
    /\ edits' = edits + 1
    /\ Restart
    /\ UNCHANGED <<endpointVars, archive, faults, historyVars>>

(* The user resets the session: it is halted, the archive is emptied and   *)
(* the session is resumed.  Halting waits for transitions to return.       *)
Reset ==
    /\ phase # "transition"
    /\ edits < MaxEdits
    /\ edits' = edits + 1
    /\ archive' = NilEntry
    /\ ancestor' = NilEntry
    /\ retrying' = FALSE
    /\ problems' = {}
    /\ ResetCycle
    /\ StartScans
    /\ UNCHANGED <<endpointVars, faults, historyVars>>

(* A user creates, replaces or removes content inside a directory that     *)
(* exists (external).                                                      *)
Edit(e, p, node) ==
    /\ edits < MaxEdits
    /\ edits' = edits + 1
    /\ ParentExists(disk[e], p)
    /\ disk[e][p] # node
    /\ ChangeDisk(e, [q \in Paths |-> IF q = p THEN node
                                      ELSE IF q \in AtOrBelow(p) THEN "nil" ELSE disk[e][q]])
    /\ dropped' = dropped \cup (LeavesOf(disk[e]) \ LeavesOf(disk'[e]))
    /\ UNCHANGED <<staged, orphans, archive, ancestor, phase, cycleVars, retrying, problems, faults>>

-----------------------------------------------------------------------------
(* Polling returns: an endpoint has an event.  The poll of the other one   *)
(* is cancelled, and consumes its event or does not.                       *)
Poll(consumed) ==
    /\ phase = "watch"
    /\ consumed # {} /\ consumed \subseteq dirty
    /\ dirty' = dirty \ consumed
    /\ StartScans
    /\ UNCHANGED <<disk, staged, orphans, archive, ancestor, cycleVars, retrying, problems,
                   edits, faults, historyVars>>

(* A flush request ends polling. *)
Flush ==
    /\ phase = "watch"
    /\ edits < MaxEdits
    /\ edits' = edits + 1
    /\ StartScans
    /\ UNCHANGED <<endpointVars, archive, ancestor, cycleVars, retrying, problems,
                   faults, historyVars>>

(* The scan of e returns.  It is not atomic: each node is one that was on  *)
(* disk at some time during the scan.                                      *)
Scan(e, content) ==
    /\ phase = "scan" /\ window[e] # {}
    /\ content \in Contents /\ NodesOf(content) \subseteq window[e]
    /\ snapshot' = [snapshot EXCEPT ![e] = content]
    /\ window' = [window EXCEPT ![e] = {}]
    /\ phase' = IF window'[Other(e)] = {} THEN "reconcile" ELSE "scan"
    /\ UNCHANGED <<endpointVars, archive, ancestor, plan, pending, applied, failed, missing,
                   retrying, problems, edits, faults, historyVars>>

(* A scan fails and suggests a retry: both endpoints are scanned again. *)
ScanAgain ==
    /\ phase = "scan"
    /\ faults < MaxFaults
    /\ faults' = faults + 1
    /\ ResetCycle
    /\ StartScans
    /\ UNCHANGED <<endpointVars, archive, ancestor, retrying, problems, edits, historyVars>>

-----------------------------------------------------------------------------
(* Mutant of oneEndpointEmptiedRoot: only alpha is watched. *)
alphaEmptiedRoot(anc, alpha, beta) ==
    LET emptied(c) == \A q \in Children(Root) : c[q] = "nil"
    IN  /\ anc[Root] = "dir" /\ alpha[Root] = "dir" /\ beta[Root] = "dir"
        /\ \E q, r \in Children(Root) : q # r /\ anc[q] # "nil" /\ anc[r] # "nil"
        /\ emptied(alpha) /\ ~emptied(beta)

(* The guards of safety.go. *)
oneEndpointEmptiedRoot(anc, alpha, beta) ==
    LET emptied(c) == \A q \in Children(Root) : c[q] = "nil"
    IN  /\ anc[Root] = "dir" /\ alpha[Root] = "dir" /\ beta[Root] = "dir"
        /\ \E q, r \in Children(Root) : q # r /\ anc[q] # "nil" /\ anc[r] # "nil"
        /\ emptied(alpha) # emptied(beta)

Kind(node) == CASE node \in Files -> "file" [] node \in Links -> "link" [] OTHER -> node

IsRootDeletion(c) == c.path = Root /\ c.old[Root] # "nil" /\ c.new[Root] = "nil"
(* Mutant of IsRootTypeChange: only the loss of a directory counts. *)
IsRootDirectoryLoss(c) == c.path = Root /\ c.old[Root] = "dir" /\ c.new[Root] \notin {"nil", "dir"}

IsRootTypeChange(c) == /\ c.path = Root
                       /\ c.old[Root] # "nil" /\ c.new[Root] # "nil"
                       /\ Kind(c.old[Root]) # Kind(c.new[Root])

containsRootDeletion(changes) == \E c \in changes : IsRootDeletion(c)
containsRootTypeChange(changes) == \E c \in changes : IsRootTypeChange(c)

(* Reconciliation of the two snapshots, and the checks that halt the       *)
(* session before anything is staged or applied.                           *)
ReconcileSnapshots ==
    /\ phase = "reconcile"
    /\ \E outcome \in {Reconcile(Mode, ancestor, snapshot["alpha"], snapshot["beta"])} :
           IF \/ oneEndpointEmptiedRoot(ancestor, snapshot["alpha"], snapshot["beta"])
              \/ containsRootDeletion(outcome.alpha) \/ containsRootDeletion(outcome.beta)
              \/ containsRootTypeChange(outcome.alpha) \/ containsRootTypeChange(outcome.beta)
           THEN phase' = "halted" /\ ResetCycle
           ELSE /\ phase' = "stage-alpha"
                /\ plan' = outcome
                /\ UNCHANGED <<snapshot, pending, applied, failed, missing>>
    /\ UNCHANGED <<endpointVars, archive, ancestor, window, retrying, problems,
                   edits, faults, historyVars>>

(* What staging adds: a file that its own root already holds under some    *)
(* path, or else whatever the other endpoint now has at the path, stored   *)
(* under the digest of what was received.                                  *)
Located(e) ==
    {w \in TransitionDependencies(plan[e]) :
        \E r \in Paths : \A c \in {snapshot[e], disk[e]} : c[r] \in Files /\ Digest[c[r]] = w[2]}
Supplied(e) ==
    LET wanted == TransitionDependencies(plan[e]) \ (staged[e] \cup Located(e))
    IN  {<<q, Digest[disk[Other(e)][q]]>> :
            q \in {r \in Paths : disk[Other(e)][r] \in Files /\ \E w \in wanted : w[1] = r}}
Obtained(e) == (Located(e) \cup Supplied(e)) \ staged[e]

Stage(e, missed) ==
    /\ phase = (IF e = "alpha" THEN "stage-alpha" ELSE "stage-beta")
    /\ missed \subseteq Obtained(e)
    /\ missed # {} => faults < MaxFaults
    /\ faults' = IF missed # {} THEN faults + 1 ELSE faults
    /\ staged' = [staged EXCEPT ![e] = @ \cup (Obtained(e) \ missed)]
    /\ phase' = IF e = "alpha" THEN "stage-beta" ELSE "transition"
    /\ pending' = IF e = "alpha" THEN pending ELSE [x \in Endpoints |-> plan[x]]
    /\ UNCHANGED <<disk, dirty, orphans, archive, ancestor, window, snapshot, plan, applied, failed,
                   missing, retrying, problems, edits, historyVars>>

-----------------------------------------------------------------------------
(* A refusal of the filesystem is a fault. *)
Refusal(denied, closed) ==
    /\ denied \cup closed # {} => faults < MaxFaults
    /\ faults' = IF denied \cup closed # {} THEN faults + 1 ELSE faults

(* Mutant of TransitionOne: what was planned is taken for what was done. *)
TransitionOneAssumed(e, t, denied, closed) ==
    /\ phase = "transition" /\ t \in pending[e]
    /\ Refusal(denied, closed)
    /\ ChangeDisk(e, Transition(disk[e], t, staged[e], denied, closed).disk)
    /\ applied' = [applied EXCEPT ![e] = @ \cup {Change(t.path, NilEntry, t.new)}]
    /\ missing' = (missing \/ Missing(disk[e], t, staged[e], denied, closed))
    /\ pending' = [pending EXCEPT ![e] = @ \ {t}]
    /\ staged' = IF pending'[e] = {} THEN [staged EXCEPT ![e] = {}] ELSE staged
    /\ UNCHANGED <<orphans, archive, ancestor, phase, snapshot, plan, failed, retrying, problems,
                   edits, dropped>>

(* One transition of the list of e; the lists of the two endpoints run in  *)
(* parallel.  The stager is wiped when the list is done.                   *)
TransitionOne(e, t, denied, closed) ==
    /\ phase = "transition" /\ t \in pending[e]
    /\ Refusal(denied, closed)
    /\ \E result \in {Transition(disk[e], t, staged[e], denied, closed)} :
           /\ ChangeDisk(e, result.disk)
           /\ applied' = [applied EXCEPT ![e] = @ \cup {Change(t.path, NilEntry, result.entry)}]
    /\ missing' = (missing \/ Missing(disk[e], t, staged[e], denied, closed))
    /\ pending' = [pending EXCEPT ![e] = @ \ {t}]
    /\ staged' = IF pending'[e] = {} THEN [staged EXCEPT ![e] = {}] ELSE staged
    /\ UNCHANGED <<orphans, archive, ancestor, phase, snapshot, plan, failed, retrying, problems,
                   edits, dropped>>

(* The Transition call of e returns an error: whatever it did or still     *)
(* does on disk, no result of it reaches the controller.                   *)
TransitionError(e) ==
    /\ phase = "transition" /\ plan[e] # {} /\ e \notin failed
    /\ faults < MaxFaults
    /\ faults' = faults + 1
    /\ failed' = failed \cup {e}
    /\ orphans' = [orphans EXCEPT ![e] = @ \cup pending[e]]
    /\ pending' = [pending EXCEPT ![e] = {}]
    /\ applied' = [applied EXCEPT ![e] = {}]
    /\ UNCHANGED <<disk, dirty, staged, archive, ancestor, phase, window, snapshot, plan, missing,
                   retrying, problems, edits, historyVars>>

(* The server of a lost connection performs one more of its transitions,   *)
(* or notices the loss, skips the rest and wipes the staging directory,    *)
(* which it shares with the server that replaced it.                       *)
OrphanTransition(e, t, denied, closed) ==
    /\ t \in orphans[e]
    /\ Refusal(denied, closed)
    /\ ChangeDisk(e, Transition(disk[e], t, staged[e], denied, closed).disk)
    /\ orphans' = [orphans EXCEPT ![e] = @ \ {t}]
    /\ staged' = IF orphans'[e] = {} THEN [staged EXCEPT ![e] = {}] ELSE staged
    /\ UNCHANGED <<archive, ancestor, phase, cycleVars, retrying, problems, edits, dropped>>

OrphanStop(e) ==
    /\ orphans[e] # {}
    /\ orphans' = [orphans EXCEPT ![e] = {}]
    /\ staged' = [staged EXCEPT ![e] = {}]
    /\ UNCHANGED <<disk, dirty, archive, ancestor, phase, window, cycleVars, retrying, problems,
                   edits, faults, historyVars>>

-----------------------------------------------------------------------------
(* Both Transition calls have returned: their results are folded into the  *)
(* ancestor, which is validated and saved.  An ancestor that cannot be     *)
(* computed or is invalid ends synchronize before it is saved, and a       *)
(* Transition error ends it afterwards.                                    *)
AncestorChanges == plan.ancestor \cup applied["alpha"] \cup applied["beta"]
NewAncestor == Apply(ancestor, AncestorChanges)
NewAncestorValid == ApplyResolves(ancestor, AncestorChanges) /\ EnsureValid(NewAncestor)

(* The transitions of e that were not carried out as planned. *)
Problems(e) == {t \in plan[e] : Change(t.path, NilEntry, t.new) \notin applied[e]}

SaveAncestor ==
    /\ phase = "transition" /\ \A e \in Endpoints : pending[e] = {}
    /\ archive' = IF NewAncestorValid THEN NewAncestor ELSE archive
    /\ ancestor' = archive'
    /\ IF NewAncestorValid /\ failed = {}
       THEN /\ problems' = {e \in Endpoints : Problems(e) # {}}
            /\ retrying' = (missing /\ ~retrying)
            /\ IF missing /\ ~retrying THEN StartScans ELSE phase' = "watch" /\ NoScans
       ELSE /\ problems' = {} /\ retrying' = FALSE /\ StartScans
    /\ ResetCycle
    /\ UNCHANGED <<endpointVars, edits, faults, historyVars>>

-----------------------------------------------------------------------------
(* The loop, and a detached server, without faults. *)
Loop ==
    \/ \E consumed \in SUBSET Endpoints : Poll(consumed)
    \/ \E e \in Endpoints : \E content \in Contents : Scan(e, content)
    \/ ReconcileSnapshots
    \/ \E e \in Endpoints : Stage(e, {})
    \/ \E e \in Endpoints : \E t \in pending[e] : TransitionOne(e, t, {}, {})
    \/ SaveAncestor
Detached(e) ==
    \/ \E t \in orphans[e] : OrphanTransition(e, t, {}, {})
    \/ OrphanStop(e)

Refused(e, t) ==
    \E denied, closed \in SUBSET AtOrBelow(t.path) :
        /\ denied \cup closed # {}
        /\ TransitionOne(e, t, denied, closed) \/ OrphanTransition(e, t, denied, closed)
Faults ==
    /\ faults < MaxFaults
    /\ \/ \E detached \in SUBSET Endpoints : Interrupt(detached)
       \/ ScanAgain
       \/ \E e \in Endpoints : \E missed \in SUBSET Obtained(e) : missed # {} /\ Stage(e, missed)
       \/ \E e \in Endpoints : \E t \in pending[e] \cup orphans[e] : Refused(e, t)
       \/ \E e \in Endpoints : TransitionError(e)
Users ==
    \/ \E e \in Endpoints, p \in Paths : \E node \in Placeable(p) : Edit(e, p, node)
    \/ Flush
    \/ Resume
    \/ Reset

Next == Loop \/ Faults \/ Users \/ \E e \in Endpoints : Detached(e)

Spec == Init /\ [][Next]_vars

(* The loop and the goroutines it starts are scheduled, endpoints answer,  *)
(* and a detached server notices the loss of its connection.               *)
FairSpec == Spec /\ WF_vars(Loop) /\ \A e \in Endpoints : WF_vars(Detached(e))

-----------------------------------------------------------------------------
TypeOK ==
    /\ disk \in [Endpoints -> Contents]
    /\ dirty \subseteq Endpoints
    /\ staged \in [Endpoints -> SUBSET (Paths \X Digests)]
    /\ orphans \in [Endpoints -> SUBSET Changes]
    /\ archive \in Entries /\ EnsureValid(archive)
    /\ ancestor = archive
    /\ phase \in Phases
    /\ window \in [Endpoints -> SUBSET (Paths \X Nodes)]
    /\ snapshot \in [Endpoints -> Contents]
    /\ plan.ancestor \subseteq Changes /\ plan.alpha \subseteq Changes /\ plan.beta \subseteq Changes
    /\ pending \in [Endpoints -> SUBSET Changes]
    /\ applied \in [Endpoints -> SUBSET Changes]
    /\ failed \subseteq Endpoints
    /\ missing \in BOOLEAN /\ retrying \in BOOLEAN
    /\ problems \subseteq Endpoints
    /\ edits \in 0 .. MaxEdits /\ faults \in 0 .. MaxFaults
    /\ seen \in [Endpoints -> SUBSET (Paths \X Leaves)]
    /\ dropped \subseteq Paths \X Leaves

-----------------------------------------------------------------------------
(* What a step of the synchronizer, as opposed to one of a user, replaces  *)
(* or removes at q on endpoint e.                                          *)
Overwrites(e, q) == edits' = edits /\ disk'[e][q] # disk[e][q]

(* Synchronization overwrites nothing but absence, directories, and leaves *)
(* that were at that path on the other endpoint too and that some user has *)
(* destroyed since.  It never touches untracked or problematic content,    *)
(* and no failure makes it invent a deletion.  Holds in the safe modes:    *)
(* reconcile overwrites only what the ancestor records, and transitions    *)
(* verify what they remove.                                                *)
NoUnagreedLoss ==
    [][\A e \in Endpoints, q \in Paths :
          Overwrites(e, q) => \/ disk[e][q] \in {"nil", "dir"}
                              \/ <<q, disk[e][q]>> \in seen[Other(e)] \cap dropped]_vars

(* The loop implements the promise of SafeMerge in the safe modes, with    *)
(* interruptions, detached servers and users at every step.                *)
Promise == INSTANCE SafeMerge
SafeMergePromise == Promise!Spec

(* What the archive records is accounted for: a leaf in it was at that     *)
(* path on both endpoints, and still is unless a user destroyed it.  Were  *)
(* it not, the next cycle would take a difference for a user's deletion.   *)
ArchiveAccounted ==
    \A q \in Paths : archive[q] \in Leaves =>
        \A e \in Endpoints : /\ <<q, archive[q]>> \in seen[e]
                             /\ disk[e][q] = archive[q] \/ <<q, archive[q]>> \in dropped

(* Synchronization never removes the root or changes its kind. *)
RootPreserved ==
    [][\A e \in Endpoints :
          Overwrites(e, Root) => disk[e][Root] = "nil" \/ Kind(disk'[e][Root]) = Kind(disk[e][Root])]_vars

(* When one endpoint has no content left in its root, nothing is planned   *)
(* that would empty the root of the other if that holds two entries or     *)
(* more: the session halts first.  Holds in the two-way modes.             *)
EmptiedRootSpared ==
    \A e \in Endpoints :
        LET held == {q \in Children(Root) : snapshot[e][q] # "nil"}
        IN  /\ Cardinality(held) >= 2
            /\ \A q \in Children(Root) : snapshot[Other(e)][q] = "nil"
            => \E q \in held : ~\E t \in plan[e] : t.path \in UpTo(q) /\ t.new[q] = "nil"

(* In the one-way modes no step of the synchronizer changes alpha. *)
AlphaUntouched == [][\A q \in Paths : ~Overwrites("alpha", q)]_vars

(* The ancestor that results from the transitions can always be computed   *)
(* and is valid, whatever part of them was carried out: the check that     *)
(* synchronize makes before saving it never fails.                         *)
AncestorAlwaysValid ==
    phase = "transition" /\ (\A e \in Endpoints : pending[e] = {}) => NewAncestorValid

(* Without conflicts, the synchronizable content of beta is that of alpha; *)
(* in one-way-safe mode beta may have more.                                *)
Mirrored ==
    LET a == Synchronizable(disk["alpha"], Root)
        b == Synchronizable(disk["beta"], Root)
    IN  IF Mode = "one-way-safe" THEN \A q \in Paths : a[q] # "nil" => b[q] = a[q] ELSE a = b

(* Once users and faults stop, the loop halts for safety, or rests with    *)
(* transition problems to report, or rests with nothing left to propagate  *)
(* and beta mirroring alpha wherever there is no conflict to report.  An   *)
(* event during a cycle is not lost, and no cycle undoes the one before.   *)
Settled ==
    \/ phase = "halted"
    \/ phase = "watch" /\ problems # {}
    \/ /\ phase = "watch"
       /\ LET outcome == Reconcile(Mode, archive, disk["alpha"], disk["beta"])
          IN  /\ outcome.alpha = {} /\ outcome.beta = {} /\ outcome.ancestor = {}
              /\ outcome.conflicts = {} => Mirrored
Convergence == <>[]Settled
=============================================================================
