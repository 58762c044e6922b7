--------------------------- MODULE Reconciliation ---------------------------
(***************************************************************************)
(* The three-way merge of pkg/synchronization/core/reconcile.go.           *)
(*                                                                         *)
(* The code recurses from the root and stops at the first path where the   *)
(* endpoints do not agree.  Here the paths it visits are those whose       *)
(* proper prefixes were all agreed upon, and each visited path contributes *)
(* its changes to one outcome.                                             *)
(***************************************************************************)
EXTENDS Entries

Modes == {"two-way-safe", "two-way-resolved", "one-way-safe", "one-way-replica"}

(* Conflicts keep the changes that each side is reported with. *)
Conflict(p, alphaChanges, betaChanges) ==
    [root |-> p, alphaChanges |-> alphaChanges, betaChanges |-> betaChanges]

(* What a visited path adds to the lists of the reconciler. *)
NoOutcome == [ancestor |-> {}, alpha |-> {}, beta |-> {}, conflicts |-> {}]
ToAncestor(c) == [NoOutcome EXCEPT !.ancestor = {c}]
ToAlpha(c) == [NoOutcome EXCEPT !.alpha = {c}]
ToBeta(c) == [NoOutcome EXCEPT !.beta = {c}]
InConflict(c) == [NoOutcome EXCEPT !.conflicts = {c}]

(* Mutant of extractNonDeletionChanges: modifications are left out too. *)
extractCreationChanges(changes) ==
    {c \in changes : c.old[c.path] = "nil" /\ c.new[c.path] # "nil"}

extractNonDeletionChanges(changes) == {c \in changes : c.new[c.path] # "nil"}

(* Overwrite one side with new content, unless what would be overwritten   *)
(* holds unsynchronizable content: that is reported as a conflict.         *)
OverwriteBeta(p, old, new, alphaChanges, sync, beta) ==
    IF Diff(sync, beta) # {}
    THEN InConflict(Conflict(p, alphaChanges, Diff(sync, beta)))
    ELSE ToBeta(Change(p, old, new))
OverwriteAlpha(p, old, new, betaChanges, sync, alpha) ==
    IF Diff(sync, alpha) # {}
    THEN InConflict(Conflict(p, Diff(sync, alpha), betaChanges))
    ELSE ToAlpha(Change(p, old, new))

(* handleDisagreementBidirectional: the arguments are the entries at p. *)
Bidirectional(mode, p, ancestor, alpha, beta) ==
    LET a == Synchronizable(alpha, p)
        b == Synchronizable(beta, p)
        aDiff == Diff(ancestor, a)
        bDiff == Diff(ancestor, b)
        aKept == extractNonDeletionChanges(aDiff)
        bKept == extractNonDeletionChanges(bDiff)
    IN  CASE bDiff = {} -> OverwriteBeta(p, ancestor, a, aDiff, b, beta)
          [] bDiff # {} /\ aDiff = {} -> OverwriteAlpha(p, ancestor, b, bDiff, a, alpha)
          [] OTHER ->
               CASE aKept = {} /\ bKept = {} /\ a[p] = "nil" ->
                        OverwriteBeta(p, b, NilEntry, aDiff, b, beta)
                 [] aKept = {} /\ bKept = {} /\ a[p] # "nil" ->
                        OverwriteAlpha(p, a, NilEntry, bDiff, a, alpha)
                 [] aKept # {} /\ bKept = {} -> OverwriteBeta(p, b, a, aKept, b, beta)
                 [] aKept = {} /\ bKept # {} -> OverwriteAlpha(p, a, b, bKept, a, alpha)
                 [] aKept # {} /\ bKept # {} /\ mode = "two-way-safe" ->
                        InConflict(Conflict(p, aKept, bKept))
                 [] aKept # {} /\ bKept # {} /\ mode # "two-way-safe" ->
                        OverwriteBeta(p, b, a, aKept, b, beta)

(* Mutant of OneWaySafe: content that alpha lacks is pulled from beta. *)
OneWaySafePulling(p, ancestor, alpha, beta) ==
    LET b == Synchronizable(beta, p)
        bKept == extractNonDeletionChanges(Diff(ancestor, b))
    IN  CASE bKept = {} -> OverwriteBeta(p, beta, Synchronizable(alpha, p), {}, b, beta)
          [] bKept # {} /\ alpha[p] = "nil" -> ToAlpha(Change(p, NilEntry, b))
          [] OTHER -> InConflict(Conflict(p, {}, bKept))

(* handleDisagreementOneWaySafe. *)
OneWaySafe(p, ancestor, alpha, beta) ==
    LET b == Synchronizable(beta, p)
        bKept == extractNonDeletionChanges(Diff(ancestor, b))
        synthetic == {Change(p, ancestor, alpha)}
        untrackBetaContent == /\ alpha[p] \in {"nil", "untracked"}
                              /\ ancestor[p] # "dir" \/ beta[p] # "dir"
    IN  CASE bKept = {} ->
                 OverwriteBeta(p, beta, Synchronizable(alpha, p), synthetic, b, beta)
          [] bKept # {} /\ untrackBetaContent ->
                 IF ancestor[p] # "nil" THEN ToAncestor(Change(p, NilEntry, NilEntry))
                                        ELSE NoOutcome
          [] OTHER -> InConflict(Conflict(p, synthetic, bKept))

(* handleDisagreementOneWayReplica. *)
OneWayReplica(p, ancestor, alpha, beta) ==
    OverwriteBeta(p, beta, Synchronizable(alpha, p), {Change(p, ancestor, alpha)},
                  Synchronizable(beta, p), beta)

Absent(node) == node \in {"nil", "untracked"}

(* The endpoints agree on the node at p and the recursion continues below. *)
Agreed(alpha, beta, p) ==
    /\ ~(Absent(alpha[p]) /\ Absent(beta[p]))
    /\ alpha[p] # "problematic"
    /\ alpha[p] = beta[p]
Visited(alpha, beta) == {p \in Paths : \A q \in Above[p] : Agreed(alpha, beta, q)}

(* The ancestor passed down to p: its contents are ignored below a path    *)
(* where it differs from what the endpoints agree on.                      *)
AncestorAt(ancestor, alpha, p) ==
    IF \A q \in Above[p] : ancestor[q] = alpha[q] THEN EntryAt(ancestor, p) ELSE NilEntry

(* Mutant of ReconcilePath: what both sides have agreed on outside of      *)
(* synchronization is not recorded in the ancestor.                        *)
ReconcilePathForgetful(mode, p, ancestor, alpha, beta) ==
    IF Agreed(alpha, beta, p) \/ alpha[p] = "problematic" \/ beta[p] = "problematic"
       \/ (Absent(alpha[p]) /\ Absent(beta[p]))
    THEN NoOutcome
    ELSE Bidirectional(mode, p, AncestorAt(ancestor, alpha, p), EntryAt(alpha, p), EntryAt(beta, p))

(* reconciler.reconcile at a visited path. *)
ReconcilePath(mode, p, ancestor, alpha, beta) ==
    LET anc == AncestorAt(ancestor, alpha, p)
        al == EntryAt(alpha, p)
        be == EntryAt(beta, p)
    IN  CASE alpha[p] = "problematic" \/ beta[p] = "problematic" -> NoOutcome
          [] OTHER ->
               CASE Absent(alpha[p]) /\ Absent(beta[p]) ->
                        IF anc[p] # "nil" THEN ToAncestor(Change(p, NilEntry, NilEntry))
                                          ELSE NoOutcome
                 [] Agreed(alpha, beta, p) ->
                        IF anc[p] # alpha[p] THEN ToAncestor(Change(p, NilEntry, Slim(alpha, p)))
                                             ELSE NoOutcome
                 [] OTHER ->
                        CASE mode \in {"two-way-safe", "two-way-resolved"} ->
                                 Bidirectional(mode, p, anc, al, be)
                          [] mode = "one-way-safe" -> OneWaySafe(p, anc, al, be)
                          [] mode = "one-way-replica" -> OneWayReplica(p, anc, al, be)

(* Reconcile: the lists collected over all visited paths. *)
Reconcile(mode, ancestor, alpha, beta) ==
    LET outcome == [p \in Visited(alpha, beta) |-> ReconcilePath(mode, p, ancestor, alpha, beta)]
    IN  [ancestor  |-> UNION {outcome[p].ancestor : p \in DOMAIN outcome},
         alpha     |-> UNION {outcome[p].alpha : p \in DOMAIN outcome},
         beta      |-> UNION {outcome[p].beta : p \in DOMAIN outcome},
         conflicts |-> UNION {outcome[p].conflicts : p \in DOMAIN outcome}]
=============================================================================
