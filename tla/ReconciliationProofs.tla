------------------------ MODULE ReconciliationProofs ------------------------
(***************************************************************************)
(* What reconciliation and transitions guarantee, for every set of paths   *)
(* and nodes: the facts about single operations on which the theorems of   *)
(* SynchronizationProofs rest.                                             *)
(***************************************************************************)
EXTENDS Transitioning, TLAPS

(* A prefix of a prefix is a prefix, and no path is above itself. *)
LEMMA AboveTransitive ==
    \A p \in Paths : /\ p \notin Above[p]
                     /\ UpTo(p) \subseteq Paths
                     /\ \A q \in Above[p] : Above[q] \subseteq Above[p]
                     /\ \A q \in UpTo(p) : UpTo(q) \subseteq UpTo(p)
BY PathsAssumption, PrefixAssumption DEF UpTo

(* A set of prefixes of one path has a shortest and a longest member. *)
LEMMA Extremes ==
    ASSUME NEW p \in Paths, NEW S \in SUBSET UpTo(p), S # {}
    PROVE  /\ \E m \in S : \A s \in S : m \in UpTo(s)
           /\ \E m \in S : \A s \in S : s \in UpTo(m)
<1>1. S \in SUBSET (Above[p] \cup {p})
  BY DEF UpTo
<1>2. /\ \E m \in S : \A s \in S : s = m \/ m \in Above[s]
      /\ \E m \in S : \A s \in S : s = m \/ s \in Above[m]
  BY <1>1, PrefixAssumption, ZenonT(90)
<1> QED BY <1>2 DEF UpTo

(* Two prefixes of the same path are comparable. *)
LEMMA Comparable ==
    \A p \in Paths : \A q, r \in UpTo(p) : q \in UpTo(r) \/ r \in UpTo(q)
<1> TAKE p \in Paths
<1> TAKE q, r \in UpTo(p)
<1> DEFINE S == {q, r}
<1>1. S \in SUBSET UpTo(p) /\ S # {}
  OBVIOUS
<1>2. \E m \in S : \A s \in S : m \in UpTo(s)
  <2> HIDE DEF S
  <2> QED BY <1>1, Extremes
<1> QED BY <1>2

(* Where two entries differ, they differ at a shallowest path. *)
LEMMA ShallowestDifference ==
    ASSUME NEW base, NEW target, NEW q \in Paths, base[q] # target[q]
    PROVE  \E m \in UpTo(q) : /\ base[m] # target[m]
                              /\ \A s \in Above[m] : base[s] = target[s]
<1> DEFINE S == {r \in UpTo(q) : base[r] # target[r]}
<1>1. S \in SUBSET UpTo(q) /\ S # {}
  BY DEF UpTo
<1>2. PICK m \in S : \A s \in S : m \in UpTo(s)
  <2> HIDE DEF S
  <2> QED BY <1>1, Extremes
<1>3. m \in UpTo(q) /\ m \in Paths /\ Above[m] \subseteq UpTo(q)
  BY AboveTransitive DEF UpTo
<1>4. ASSUME NEW s \in Above[m], s \in S PROVE FALSE
  <2>1. m \in UpTo(s) /\ s \in Paths /\ s # m
    BY <1>2, <1>3, <1>4, AboveTransitive
  <2>2. m \in Above[s] /\ Above[s] \subseteq Above[m]
    BY <1>3, <2>1, AboveTransitive DEF UpTo
  <2> QED BY <1>3, <2>2, AboveTransitive
<1>5. \A s \in Above[m] : base[s] = target[s]
  BY <1>3, <1>4
<1> QED BY <1>2, <1>3, <1>5

-----------------------------------------------------------------------------
(* An entry whose content is all at or below p, and in which only a        *)
(* directory has contents: what walking to p in valid content finds.       *)
ShapedAt(e, p) ==
    /\ e \in Entries
    /\ \A q \in Paths : e[q] # "nil" =>
          q \in AtOrBelow(p) /\ \A r \in Above[q] \cap AtOrBelow(p) : e[r] = "dir"

(* The empty entry is shaped at every path. *)
LEMMA NilEntryShaped == \A p \in Paths : ShapedAt(NilEntry, p)
BY DEF ShapedAt, NilEntry, Entries, Nodes

(* The part of well-formed content at a path is shaped at that path. *)
LEMMA EntryAtShaped ==
    ASSUME NEW c \in Contents, NEW p \in Paths
    PROVE  /\ ShapedAt(EntryAt(c, p), p)
           /\ \A q \in Paths : EntryAt(c, p)[q] \in {"nil", c[q]}
           /\ \A q \in AtOrBelow(p) : EntryAt(c, p)[q] = c[q]
<1>1. c \in [Paths -> Nodes] /\ WellFormed(c)
  BY DEF Contents
<1>2. EntryAt(c, p) \in Entries
  BY <1>1 DEF EntryAt, Entries, Nodes
<1>3. \A q \in Paths : Above[q] \subseteq Paths
  BY PathsAssumption
<1> QED BY <1>1, <1>2, <1>3 DEF ShapedAt, EntryAt, WellFormed, AtOrBelow

(* Dropping unsynchronizable content leaves a shaped entry. *)
LEMMA SynchronizableShaped ==
    ASSUME NEW p \in Paths, NEW e, ShapedAt(e, p)
    PROVE  /\ ShapedAt(Synchronizable(e, p), p)
           /\ \A q \in Paths : /\ Synchronizable(e, p)[q] \in {"nil", e[q]}
                               /\ Synchronizable(e, p)[q] \in SynchronizableNodes \cup {"nil"}
<1> DEFINE s == Synchronizable(e, p)
<1>1. e \in Entries
  BY DEF ShapedAt
<1>2. \A q \in Paths : s[q] = IF q \in AtOrBelow(p) /\ \A r \in UpTo(q) \cap AtOrBelow(p) : e[r] \in SynchronizableNodes
                              THEN e[q] ELSE "nil"
  BY DEF Synchronizable
<1>3. s \in Entries
  BY <1>1 DEF Synchronizable, Entries, Nodes
<1>4. \A q \in Paths : s[q] \in {"nil", e[q]} /\ s[q] \in SynchronizableNodes \cup {"nil"}
  BY <1>2 DEF UpTo
<1>5. ASSUME NEW q \in Paths, s[q] # "nil"
      PROVE  q \in AtOrBelow(p) /\ \A r \in Above[q] \cap AtOrBelow(p) : s[r] = "dir"
  <2>1. q \in AtOrBelow(p) /\ s[q] = e[q] /\ \A r \in UpTo(q) \cap AtOrBelow(p) : e[r] \in SynchronizableNodes
    BY <1>2, <1>5
  <2>2. ASSUME NEW r \in Above[q] \cap AtOrBelow(p) PROVE s[r] = "dir"
    <3>1. e[r] = "dir"
      BY <2>1, <1>5 DEF ShapedAt
    <3>2. r \in Paths /\ UpTo(r) \subseteq UpTo(q)
      BY AboveTransitive DEF UpTo
    <3> QED BY <1>2, <2>1, <3>1, <3>2
  <2> QED BY <2>1, <2>2
<1> QED BY <1>3, <1>4, <1>5 DEF ShapedAt

-----------------------------------------------------------------------------
(* diff returns replacements at the paths where the entries differ first,  *)
(* so that nothing is returned only for equal entries.                     *)
LEMMA DiffChanges ==
    ASSUME NEW base \in Entries, NEW target \in Entries
    PROVE  Diff(base, target) \subseteq Changes
<1>1. \A q \in Paths : EntryAt(base, q) \in Entries /\ EntryAt(target, q) \in Entries
  BY DEF EntryAt, Entries, Nodes
<1> QED BY <1>1 DEF Diff, Change, Changes

(* A change of diff carries the two entries that it was computed from. *)
LEMMA DiffAt ==
    ASSUME NEW base, NEW target, NEW m \in Paths, base[m] # target[m],
           \A s \in Above[m] : base[s] = target[s]
    PROVE  /\ Change(m, EntryAt(base, m), EntryAt(target, m)) \in Diff(base, target)
           /\ EntryAt(target, m)[m] = target[m]
<1>1. m \in AtOrBelow(m)
  BY DEF AtOrBelow, UpTo
<1> QED BY <1>1 DEF Diff, EntryAt

(* diff finds nothing only if the two entries are the same. *)
LEMMA NoDiff ==
    ASSUME NEW base \in Entries, NEW target \in Entries, Diff(base, target) = {}
    PROVE  base = target
<1>1. ASSUME NEW q \in Paths, base[q] # target[q] PROVE FALSE
  <2>1. PICK m \in UpTo(q) : base[m] # target[m] /\ \A s \in Above[m] : base[s] = target[s]
    BY <1>1, ShallowestDifference
  <2>2. m \in Paths
    BY AboveTransitive
  <2> QED BY <2>1, <2>2, DiffAt
<1> QED BY <1>1 DEF Entries

(* When one side has made nothing but deletions, what it still has is what *)
(* the ancestor records.                                                   *)
LEMMA OnlyDeletions ==
    ASSUME NEW p \in Paths, NEW base, ShapedAt(base, p), NEW target, ShapedAt(target, p),
           extractNonDeletionChanges(Diff(base, target)) = {},
           NEW q \in Paths
    PROVE  target[q] \in {"nil", base[q]}
<1> SUFFICES ASSUME target[q] # "nil", target[q] # base[q] PROVE FALSE
  OBVIOUS
<1>1. PICK m \in UpTo(q) : base[m] # target[m] /\ \A s \in Above[m] : base[s] = target[s]
  BY ShallowestDifference
<1>2. m \in Paths
  BY AboveTransitive
<1>3. target[m] = "nil"
  <2> DEFINE c == Change(m, EntryAt(base, m), EntryAt(target, m))
  <2>1. c \in Diff(base, target) /\ EntryAt(target, m)[m] = target[m]
    BY <1>1, <1>2, DiffAt
  <2>2. c.new[c.path] = target[m]
    BY <2>1 DEF Change
  <2> QED BY <2>1, <2>2 DEF extractNonDeletionChanges
<1>4. m \in AtOrBelow(p)
  BY <1>1, <1>2, <1>3 DEF ShapedAt
<1>5. m \in Above[q]
  BY <1>3 DEF UpTo
<1> QED BY <1>3, <1>4, <1>5 DEF ShapedAt

-----------------------------------------------------------------------------
(* The changes that reconciliation proposes at p to the endpoint that has  *)
(* the entry own there: they expect what the endpoint has, as far as it is *)
(* synchronizable, and replace it with what the other one has or nothing.  *)
Propagates(c, p, own, other) ==
    c \in {Change(p, Synchronizable(own, p), new) : new \in {Synchronizable(other, p), NilEntry}}

(* One side has made nothing but deletions since the ancestor. *)
Yields(p, ancestor, own) ==
    extractNonDeletionChanges(Diff(ancestor, Synchronizable(own, p))) = {}

(* OverwriteAlpha and OverwriteBeta propose one change, or a conflict. *)
LEMMA OverwriteOutcome ==
    ASSUME NEW p, NEW old, NEW new, NEW changes, NEW sync \in Entries, NEW own \in Entries
    PROVE  /\ OverwriteBeta(p, old, new, changes, sync, own).ancestor = {}
           /\ OverwriteBeta(p, old, new, changes, sync, own).alpha = {}
           /\ OverwriteAlpha(p, old, new, changes, sync, own).ancestor = {}
           /\ OverwriteAlpha(p, old, new, changes, sync, own).beta = {}
           /\ \A c \in OverwriteBeta(p, old, new, changes, sync, own).beta :
                 c = Change(p, old, new) /\ sync = own
           /\ \A c \in OverwriteAlpha(p, old, new, changes, sync, own).alpha :
                 c = Change(p, old, new) /\ sync = own
<1>1. CASE Diff(sync, own) # {}
  BY <1>1 DEF OverwriteBeta, OverwriteAlpha, InConflict, NoOutcome
<1>2. CASE Diff(sync, own) = {}
  <2>1. sync = own
    BY <1>2, NoDiff
  <2>2. /\ OverwriteBeta(p, old, new, changes, sync, own) = ToBeta(Change(p, old, new))
        /\ OverwriteAlpha(p, old, new, changes, sync, own) = ToAlpha(Change(p, old, new))
    BY <1>2 DEF OverwriteBeta, OverwriteAlpha
  <2> QED BY <2>1, <2>2 DEF ToBeta, ToAlpha, NoOutcome
<1> QED BY <1>1, <1>2

(* What handleDisagreementBidirectional proposes at a path. *)
LEMMA BidirectionalOutcome ==
    ASSUME NEW mode \in {"two-way-safe", "two-way-resolved"}, NEW p \in Paths,
           NEW ancestor, ShapedAt(ancestor, p), NEW alpha, ShapedAt(alpha, p),
           NEW beta, ShapedAt(beta, p)
    PROVE  /\ Bidirectional(mode, p, ancestor, alpha, beta).ancestor = {}
           /\ \A c \in Bidirectional(mode, p, ancestor, alpha, beta).alpha :
                 Propagates(c, p, alpha, beta) /\ Yields(p, ancestor, alpha)
           /\ \A c \in Bidirectional(mode, p, ancestor, alpha, beta).beta :
                 /\ Propagates(c, p, beta, alpha)
                 /\ mode = "two-way-safe" => Yields(p, ancestor, beta)
<1> DEFINE a == Synchronizable(alpha, p)
           b == Synchronizable(beta, p)
           aDiff == Diff(ancestor, a)
           bDiff == Diff(ancestor, b)
           aKept == extractNonDeletionChanges(aDiff)
           bKept == extractNonDeletionChanges(bDiff)
           o == Bidirectional(mode, p, ancestor, alpha, beta)
<1>1. a \in Entries /\ b \in Entries /\ ancestor \in Entries /\ alpha \in Entries /\ beta \in Entries
  BY SynchronizableShaped DEF ShapedAt
<1>2. SUFFICES /\ o.ancestor = {}
               /\ \A c \in o.alpha : /\ \E new \in {b, NilEntry} : c = Change(p, a, new)
                                     /\ aKept = {}
               /\ \A c \in o.beta : /\ \E new \in {a, NilEntry} : c = Change(p, b, new)
                                    /\ mode = "two-way-safe" => bKept = {}
  BY DEF Propagates, Yields
<1>3. CASE bDiff = {}
  <2>1. o = OverwriteBeta(p, ancestor, a, aDiff, b, beta)
    BY <1>3 DEF Bidirectional
  <2>2. ancestor = b /\ bKept = {}
    BY <1>1, <1>3, NoDiff DEF extractNonDeletionChanges
  <2> HIDE DEF o, a, b, aDiff, bDiff, aKept, bKept
  <2> QED BY <1>1, <2>1, <2>2, OverwriteOutcome, ZenonT(60)
<1>4. CASE bDiff # {} /\ aDiff = {}
  <2>1. o = OverwriteAlpha(p, ancestor, b, bDiff, a, alpha)
    BY <1>4 DEF Bidirectional
  <2>2. ancestor = a /\ aKept = {}
    BY <1>1, <1>4, NoDiff DEF extractNonDeletionChanges
  <2> HIDE DEF o, a, b, aDiff, bDiff, aKept, bKept
  <2> QED BY <1>1, <2>1, <2>2, OverwriteOutcome, ZenonT(60)
<1>5. CASE bDiff # {} /\ aDiff # {}
  <2>1. \/ bKept = {} /\ o = OverwriteBeta(p, b, NilEntry, aDiff, b, beta)
        \/ aKept = {} /\ o = OverwriteAlpha(p, a, NilEntry, bDiff, a, alpha)
        \/ bKept = {} /\ o = OverwriteBeta(p, b, a, aKept, b, beta)
        \/ aKept = {} /\ o = OverwriteAlpha(p, a, b, bKept, a, alpha)
        \/ o = InConflict(Conflict(p, aKept, bKept))
        \/ mode # "two-way-safe" /\ o = OverwriteBeta(p, b, a, aKept, b, beta)
    BY <1>5 DEF Bidirectional
  <2> HIDE DEF o, a, b, aDiff, bDiff, aKept, bKept
  <2>2. CASE bKept = {} /\ o = OverwriteBeta(p, b, NilEntry, aDiff, b, beta)
    BY <1>1, <2>2, OverwriteOutcome, ZenonT(60)
  <2>3. CASE aKept = {} /\ o = OverwriteAlpha(p, a, NilEntry, bDiff, a, alpha)
    BY <1>1, <2>3, OverwriteOutcome, ZenonT(60)
  <2>4. CASE bKept = {} /\ o = OverwriteBeta(p, b, a, aKept, b, beta)
    BY <1>1, <2>4, OverwriteOutcome, ZenonT(60)
  <2>5. CASE aKept = {} /\ o = OverwriteAlpha(p, a, b, bKept, a, alpha)
    BY <1>1, <2>5, OverwriteOutcome, ZenonT(60)
  <2>6. CASE o = InConflict(Conflict(p, aKept, bKept))
    BY <2>6 DEF InConflict, NoOutcome
  <2>7. CASE mode # "two-way-safe" /\ o = OverwriteBeta(p, b, a, aKept, b, beta)
    BY <1>1, <2>7, OverwriteOutcome, ZenonT(60)
  <2> QED BY <2>1, <2>2, <2>3, <2>4, <2>5, <2>6, <2>7
<1> QED BY <1>3, <1>4, <1>5

(* What the handlers of the one-way modes propose at a path. *)
LEMMA OneWayOutcome ==
    ASSUME NEW p \in Paths, NEW ancestor, ShapedAt(ancestor, p), NEW alpha, ShapedAt(alpha, p),
           NEW beta, ShapedAt(beta, p)
    PROVE  /\ OneWaySafe(p, ancestor, alpha, beta).alpha = {}
           /\ OneWaySafe(p, ancestor, alpha, beta).ancestor \subseteq {Change(p, NilEntry, NilEntry)}
           /\ \A c \in OneWaySafe(p, ancestor, alpha, beta).beta :
                 Propagates(c, p, beta, alpha) /\ Yields(p, ancestor, beta)
           /\ OneWayReplica(p, ancestor, alpha, beta).alpha = {}
           /\ OneWayReplica(p, ancestor, alpha, beta).ancestor = {}
           /\ \A c \in OneWayReplica(p, ancestor, alpha, beta).beta : Propagates(c, p, beta, alpha)
<1> DEFINE a == Synchronizable(alpha, p)
           b == Synchronizable(beta, p)
           bKept == extractNonDeletionChanges(Diff(ancestor, b))
           synthetic == {Change(p, ancestor, alpha)}
           o == OneWaySafe(p, ancestor, alpha, beta)
           r == OneWayReplica(p, ancestor, alpha, beta)
           Replacement == OverwriteBeta(p, beta, a, synthetic, b, beta)
<1>1. b \in Entries /\ beta \in Entries
  BY SynchronizableShaped DEF ShapedAt
<1>2. /\ Replacement.alpha = {} /\ Replacement.ancestor = {}
      /\ \A c \in Replacement.beta : c = Change(p, b, a)
  <2> HIDE DEF a, b, synthetic
  <2>1. \A c \in Replacement.beta : c = Change(p, beta, a) /\ b = beta
    BY <1>1, OverwriteOutcome
  <2> QED BY <1>1, <2>1, OverwriteOutcome
<1>3. \/ bKept = {} /\ o = Replacement
      \/ o = ToAncestor(Change(p, NilEntry, NilEntry))
      \/ o = NoOutcome
      \/ o = InConflict(Conflict(p, synthetic, bKept))
  BY DEF OneWaySafe
<1>4. r = Replacement
  BY DEF OneWayReplica
<1>5. SUFFICES /\ o.alpha = {} /\ o.ancestor \subseteq {Change(p, NilEntry, NilEntry)}
               /\ \A c \in o.beta : c = Change(p, b, a) /\ bKept = {}
               /\ r.alpha = {} /\ r.ancestor = {}
               /\ \A c \in r.beta : c = Change(p, b, a)
  BY DEF Propagates, Yields
<1>6. r.alpha = {} /\ r.ancestor = {} /\ \A c \in r.beta : c = Change(p, b, a)
  BY <1>2, <1>4
<1>7. /\ o.alpha = {} /\ o.ancestor \subseteq {Change(p, NilEntry, NilEntry)}
      /\ \A c \in o.beta : c = Change(p, b, a) /\ bKept = {}
  <2> HIDE DEF o, Replacement, bKept, synthetic
  <2>1. CASE bKept = {} /\ o = Replacement
    BY <1>2, <2>1
  <2>2. CASE o = ToAncestor(Change(p, NilEntry, NilEntry))
    BY <2>2 DEF ToAncestor, NoOutcome
  <2>3. CASE o = NoOutcome
    BY <2>3 DEF NoOutcome
  <2>4. CASE o = InConflict(Conflict(p, synthetic, bKept))
    BY <2>4 DEF InConflict, NoOutcome
  <2> QED BY <1>3, <2>1, <2>2, <2>3, <2>4
<1> QED BY <1>6, <1>7

-----------------------------------------------------------------------------
SafeModes == {"two-way-safe", "one-way-safe"}

(* An outcome o of reconcile at p: what it records in the ancestor is      *)
(* common to both sides or nothing, and it proposes changes only where the *)
(* nodes differ.                                                           *)
SoundOutcome(o, mode, p, anc, al, be) ==
    /\ \A c \in o.ancestor : \/ c = Change(p, NilEntry, NilEntry)
                             \/ c = Change(p, NilEntry, Slim(al, p)) /\ al[p] = be[p]
    /\ \A c \in o.alpha : /\ Propagates(c, p, al, be) /\ Yields(p, anc, al) /\ al[p] # be[p]
                          /\ mode \in {"two-way-safe", "two-way-resolved"}
    /\ \A c \in o.beta : /\ Propagates(c, p, be, al) /\ al[p] # be[p]
                         /\ mode \in SafeModes => Yields(p, anc, be)

(* What reconcile proposes at a path it visits. *)
LEMMA PathOutcome ==
    ASSUME NEW mode \in Modes, NEW p \in Paths,
           NEW ancestor \in Contents, NEW alpha \in Contents, NEW beta \in Contents
    PROVE  SoundOutcome(ReconcilePath(mode, p, ancestor, alpha, beta), mode, p,
                        AncestorAt(ancestor, alpha, p), EntryAt(alpha, p), EntryAt(beta, p))
<1> DEFINE o == ReconcilePath(mode, p, ancestor, alpha, beta)
           anc == AncestorAt(ancestor, alpha, p)
           al == EntryAt(alpha, p)
           be == EntryAt(beta, p)
<1>1. ShapedAt(anc, p) /\ ShapedAt(al, p) /\ ShapedAt(be, p)
  BY EntryAtShaped, NilEntryShaped DEF AncestorAt
<1>2. alpha[p] = al[p] /\ beta[p] = be[p] /\ Slim(alpha, p) = Slim(al, p)
  <2>1. p \in AtOrBelow(p)
    BY DEF AtOrBelow, UpTo
  <2> QED BY <2>1 DEF EntryAt, Slim
<1> DEFINE problematic == alpha[p] = "problematic" \/ beta[p] = "problematic"
           absent == Absent(alpha[p]) /\ Absent(beta[p])
<1>3. \/ o = NoOutcome
      \/ o = ToAncestor(Change(p, NilEntry, NilEntry))
      \/ o = ToAncestor(Change(p, NilEntry, Slim(alpha, p))) /\ alpha[p] = beta[p]
      \/ /\ alpha[p] # beta[p]
         /\ \/ mode \in {"two-way-safe", "two-way-resolved"} /\ o = Bidirectional(mode, p, anc, al, be)
            \/ mode = "one-way-safe" /\ o = OneWaySafe(p, anc, al, be)
            \/ mode = "one-way-replica" /\ o = OneWayReplica(p, anc, al, be)
  <2>1. CASE problematic \/ absent \/ Agreed(alpha, beta, p)
    BY <2>1 DEF ReconcilePath, Agreed
  <2>2. CASE ~problematic /\ ~absent /\ ~Agreed(alpha, beta, p)
    BY <2>2 DEF ReconcilePath, Agreed, Modes
  <2> QED BY <2>1, <2>2
<1> SUFFICES SoundOutcome(o, mode, p, anc, al, be)
  OBVIOUS
<1> HIDE DEF o, anc, al, be
<1>4. CASE o = NoOutcome
  BY <1>4 DEF NoOutcome, SoundOutcome
<1>5. CASE o = ToAncestor(Change(p, NilEntry, NilEntry))
  BY <1>5 DEF ToAncestor, NoOutcome, SoundOutcome
<1>6. CASE o = ToAncestor(Change(p, NilEntry, Slim(alpha, p))) /\ alpha[p] = beta[p]
  BY <1>2, <1>6 DEF ToAncestor, NoOutcome, SoundOutcome
<1>7. CASE /\ alpha[p] # beta[p] /\ mode \in {"two-way-safe", "two-way-resolved"}
           /\ o = Bidirectional(mode, p, anc, al, be)
  BY <1>1, <1>2, <1>7, BidirectionalOutcome DEF SafeModes, SoundOutcome
<1>8. CASE alpha[p] # beta[p] /\ mode = "one-way-safe" /\ o = OneWaySafe(p, anc, al, be)
  BY <1>1, <1>2, <1>8, OneWayOutcome DEF SoundOutcome
<1>9. CASE alpha[p] # beta[p] /\ mode = "one-way-replica" /\ o = OneWayReplica(p, anc, al, be)
  BY <1>1, <1>2, <1>9, OneWayOutcome DEF SafeModes, SoundOutcome
<1> QED BY <1>3, <1>4, <1>5, <1>6, <1>7, <1>8, <1>9

(* A change proposed to the endpoint that has the content own. *)
Proposed(c, own, other) ==
    /\ c \in Changes /\ ShapedAt(c.old, c.path) /\ ShapedAt(c.new, c.path)
    /\ \A q \in Paths : /\ c.old[q] \in (SynchronizableNodes \cup {"nil"}) \cap {"nil", own[q]}
                        /\ c.new[q] \in (SynchronizableNodes \cup {"nil"}) \cap {"nil", other[q]}

(* A leaf that the change would overwrite is the one that the ancestor     *)
(* records, and the other endpoint no longer has it.                       *)
DeletedByOther(c, ancestor, other) ==
    \A q \in Paths : c.old[q] \in Leaves => ancestor[q] = c.old[q] /\ other[q] # c.old[q]

(* New content in a proposal comes from the other endpoint. *)
LEMMA PropagatesProposed ==
    ASSUME NEW p \in Paths, NEW own \in Contents, NEW other \in Contents, NEW c,
           Propagates(c, p, EntryAt(own, p), EntryAt(other, p))
    PROVE  Proposed(c, own, other) /\ c.path = p
<1> DEFINE ow == EntryAt(own, p)
           ot == EntryAt(other, p)
<1>1. /\ ShapedAt(Synchronizable(ow, p), p) /\ ShapedAt(Synchronizable(ot, p), p)
      /\ \A q \in Paths : /\ Synchronizable(ow, p)[q] \in {"nil", own[q]}
                          /\ Synchronizable(ow, p)[q] \in SynchronizableNodes \cup {"nil"}
                          /\ Synchronizable(ot, p)[q] \in {"nil", other[q]}
                          /\ Synchronizable(ot, p)[q] \in SynchronizableNodes \cup {"nil"}
  <2>1. /\ ShapedAt(ow, p) /\ ShapedAt(ot, p)
        /\ \A q \in Paths : ow[q] \in {"nil", own[q]} /\ ot[q] \in {"nil", other[q]}
    BY EntryAtShaped
  <2> HIDE DEF ow, ot
  <2> QED BY <2>1, SynchronizableShaped
<1>2. ShapedAt(NilEntry, p) /\ \A q \in Paths : NilEntry[q] = "nil"
  BY NilEntryShaped DEF NilEntry
<1>3. PICK new \in {Synchronizable(ot, p), NilEntry} : c = Change(p, Synchronizable(ow, p), new)
  BY DEF Propagates
<1>4. c.path = p /\ c.old = Synchronizable(ow, p) /\ c.new = new
  BY <1>3 DEF Change
<1> HIDE DEF ow, ot
<1>5. ShapedAt(c.old, c.path) /\ ShapedAt(c.new, c.path)
  BY <1>1, <1>2, <1>4
<1>6. c \in Changes
  BY <1>3, <1>4, <1>5 DEF ShapedAt, Changes, Change
<1> QED BY <1>1, <1>2, <1>4, <1>5, <1>6 DEF Proposed

(* Content that a proposal gives up was deleted by the other endpoint. *)
LEMMA YieldsDeleted ==
    ASSUME NEW p \in Paths, NEW own \in Contents, NEW other \in Contents, NEW ancestor \in Contents,
           NEW anc \in {EntryAt(ancestor, p), NilEntry}, NEW c,
           Propagates(c, p, EntryAt(own, p), EntryAt(other, p)),
           Yields(p, anc, EntryAt(own, p)),
           own[p] # other[p]
    PROVE  DeletedByOther(c, ancestor, other)
<1> SUFFICES ASSUME NEW q \in Paths, c.old[q] \in Leaves
             PROVE  ancestor[q] = c.old[q] /\ other[q] # c.old[q]
  BY DEF DeletedByOther
<1>1. c.old = Synchronizable(EntryAt(own, p), p)
  BY DEF Propagates, Change
<1>2. ShapedAt(EntryAt(own, p), p) /\ ShapedAt(EntryAt(ancestor, p), p) /\ ShapedAt(anc, p)
  BY EntryAtShaped, NilEntryShaped
<1>3. ShapedAt(c.old, p) /\ c.old[q] # "nil" /\ c.old[q] # "dir"
  BY <1>1, <1>2, SynchronizableShaped, NodesAssumption DEF Leaves
<1>4. c.old[q] \in {"nil", anc[q]}
  BY <1>1, <1>2, <1>3, OnlyDeletions DEF Yields
<1>5. anc[q] \in {"nil", ancestor[q]}
  BY EntryAtShaped DEF NilEntry
<1>6. ancestor[q] = c.old[q]
  BY <1>3, <1>4, <1>5
<1>7. c.old[q] = own[q]
  BY <1>3, PropagatesProposed DEF Proposed
<1>8. q \in AtOrBelow(p)
  BY <1>3 DEF ShapedAt
<1>9. CASE q = p
  BY <1>6, <1>7, <1>9
<1>10. CASE q # p
  <2>1. p \in Above[q]
    BY <1>8, <1>10 DEF AtOrBelow, UpTo
  <2>2. own[p] = "dir" /\ (other[q] # "nil" => other[p] = "dir")
    BY <1>3, <1>7, <2>1 DEF Contents, WellFormed
  <2> QED BY <1>3, <1>6, <2>2
<1> QED BY <1>9, <1>10

(* Reconcile as a whole. *)
LEMMA ReconcileSound ==
    ASSUME NEW mode \in Modes,
           NEW ancestor \in Contents, NEW alpha \in Contents, NEW beta \in Contents
    PROVE  LET o == Reconcile(mode, ancestor, alpha, beta)
           IN  /\ \A c \in o.ancestor :
                     /\ c \in Changes
                     /\ \A q \in Paths : c.new[q] # "nil" => c.new[q] = alpha[q] /\ c.new[q] = beta[q]
               /\ \A c \in o.alpha : Proposed(c, alpha, beta) /\ DeletedByOther(c, ancestor, beta)
               /\ \A c \in o.beta : /\ Proposed(c, beta, alpha)
                                    /\ mode \in SafeModes => DeletedByOther(c, ancestor, alpha)
               /\ mode \notin {"two-way-safe", "two-way-resolved"} => o.alpha = {}
<1> DEFINE o == Reconcile(mode, ancestor, alpha, beta)
           at(p) == ReconcilePath(mode, p, ancestor, alpha, beta)
<1>1. /\ \A c \in o.ancestor : \E p \in Paths : c \in at(p).ancestor
      /\ \A c \in o.alpha : \E p \in Paths : c \in at(p).alpha
      /\ \A c \in o.beta : \E p \in Paths : c \in at(p).beta
  BY DEF Reconcile, Visited
<1>2. \A p \in Paths : /\ SoundOutcome(at(p), mode, p, AncestorAt(ancestor, alpha, p),
                                       EntryAt(alpha, p), EntryAt(beta, p))
                       /\ EntryAt(alpha, p)[p] = alpha[p] /\ EntryAt(beta, p)[p] = beta[p]
                       /\ AncestorAt(ancestor, alpha, p) \in {EntryAt(ancestor, p), NilEntry}
  BY PathOutcome, SMTT(30) DEF AncestorAt, EntryAt, AtOrBelow, UpTo
<1> HIDE DEF at
<1>3. ASSUME NEW c \in o.ancestor
      PROVE  /\ c \in Changes
             /\ \A q \in Paths : c.new[q] # "nil" => c.new[q] = alpha[q] /\ c.new[q] = beta[q]
  <2>1. PICK p \in Paths : c \in at(p).ancestor
    BY <1>1
  <2>2. \/ c = Change(p, NilEntry, NilEntry)
        \/ c = Change(p, NilEntry, Slim(EntryAt(alpha, p), p)) /\ alpha[p] = beta[p]
    BY <1>2, <2>1 DEF SoundOutcome
  <2>3. Slim(EntryAt(alpha, p), p) = [q \in Paths |-> IF q = p THEN alpha[p] ELSE "nil"]
    BY <1>2 DEF Slim
  <2>4. alpha[p] \in Nodes
    BY DEF Contents
  <2>5. NilEntry \in Entries /\ Slim(EntryAt(alpha, p), p) \in Entries
    BY <2>3, <2>4 DEF NilEntry, Entries, Nodes
  <2>6. c.new \in {NilEntry, Slim(EntryAt(alpha, p), p)} /\ (c.new # NilEntry => alpha[p] = beta[p])
    BY <2>2 DEF Change
  <2>7. c \in Changes
    BY <2>2, <2>5 DEF Change, Changes
  <2>8. \A q \in Paths : NilEntry[q] = "nil"
    BY DEF NilEntry
  <2> QED BY <2>3, <2>6, <2>7, <2>8
<1>4. ASSUME NEW c \in o.alpha
      PROVE  /\ Proposed(c, alpha, beta) /\ DeletedByOther(c, ancestor, beta)
             /\ mode \in {"two-way-safe", "two-way-resolved"}
  <2>1. PICK p \in Paths : c \in at(p).alpha
    BY <1>1
  <2>2. /\ Propagates(c, p, EntryAt(alpha, p), EntryAt(beta, p))
        /\ Yields(p, AncestorAt(ancestor, alpha, p), EntryAt(alpha, p))
        /\ alpha[p] # beta[p] /\ mode \in {"two-way-safe", "two-way-resolved"}
    BY <1>2, <2>1 DEF SoundOutcome
  <2> QED BY <1>2, <2>2, PropagatesProposed, YieldsDeleted
<1>5. ASSUME NEW c \in o.beta
      PROVE  Proposed(c, beta, alpha) /\ (mode \in SafeModes => DeletedByOther(c, ancestor, alpha))
  <2>1. PICK p \in Paths : c \in at(p).beta
    BY <1>1
  <2>2. /\ Propagates(c, p, EntryAt(beta, p), EntryAt(alpha, p))
        /\ mode \in SafeModes => Yields(p, AncestorAt(ancestor, alpha, p), EntryAt(beta, p))
        /\ alpha[p] # beta[p]
    BY <1>2, <2>1 DEF SoundOutcome
  <2> QED BY <1>2, <2>2, PropagatesProposed, YieldsDeleted
<1> QED BY <1>3, <1>4, <1>5

-----------------------------------------------------------------------------
(* What an operation of a transition may do to the disk of an endpoint and *)
(* report: it overwrites only what was expected, places only what was      *)
(* wanted, and reports what it left or what it placed.                     *)
Performs(result, disk, old, new) ==
    /\ result.disk \in Contents
    /\ result.entry \in Entries
    /\ \A q \in Paths : result.disk[q] # disk[q] =>
          disk[q] \in {"nil", old[q]} /\ result.disk[q] \in {"nil", new[q]}
    /\ \A q \in Paths : result.entry[q] # "nil" =>
          \/ result.entry[q] = old[q]
          \/ result.entry[q] = new[q] /\ result.disk[q] = new[q]

(* When a directory is removed, so is everything in it. *)
LEMMA RemovedBelow ==
    ASSUME NEW disk \in Contents, NEW p \in Paths, NEW old, NEW denied, NEW closed,
           NEW q \in Paths, NEW r \in Above[q], disk[q] # "nil",
           Removed(disk, p, old, denied, closed, r)
    PROVE  Removed(disk, p, old, denied, closed, q)
<1>1. r \in Paths /\ UpTo(r) \subseteq UpTo(q) /\ r \in UpTo(q) /\ r \in AtOrBelow(p)
  BY AboveTransitive DEF UpTo, Removed
<1>2. q \in AtOrBelow(p)
  BY <1>1 DEF AtOrBelow
<1>3. AtOrBelow(q) \subseteq AtOrBelow(r) /\ q \in AtOrBelow(r)
  BY <1>1, AboveTransitive DEF AtOrBelow, UpTo
<1>4. \A x \in AtOrBelow(q) : disk[x] # "nil" => Expected(disk, old, closed, x) /\ x \notin denied
  BY <1>3 DEF Removed
<1>5. ASSUME NEW x \in Above[q] \cap AtOrBelow(p)
      PROVE  disk[x] = "dir" /\ Expected(disk, old, closed, x)
  <2>1. disk[x] = "dir" /\ x \in Paths
    BY PathsAssumption DEF Contents, WellFormed
  <2>2. x \in UpTo(r) \/ r \in UpTo(x)
    BY <1>1, Comparable DEF UpTo
  <2>3. CASE x \in Above[r]
    BY <2>1, <2>3 DEF Removed, Reached
  <2>4. CASE r \in UpTo(x)
    <3>1. x \in AtOrBelow(r)
      BY <2>1, <2>4 DEF AtOrBelow
    <3> QED BY <2>1, <3>1 DEF Removed
  <2> QED BY <2>2, <2>3, <2>4 DEF UpTo
<1> QED BY <1>2, <1>4, <1>5 DEF Removed, Reached

(* remove takes away nothing but content that was expected. *)
LEMMA RemovePerforms ==
    ASSUME NEW disk \in Contents, NEW p \in Paths, NEW old, ShapedAt(old, p), NEW new,
           NEW denied, NEW closed
    PROVE  Performs(Remove(disk, p, old, denied, closed), disk, old, new)
<1> DEFINE R(q) == Removed(disk, p, old, denied, closed, q)
           d == [q \in Paths |-> IF R(q) THEN "nil" ELSE disk[q]]
           result == Remove(disk, p, old, denied, closed)
<1>1. disk \in [Paths -> Nodes] /\ WellFormed(disk) /\ old \in [Paths -> Nodes] /\ "nil" \in Nodes
  BY DEF Contents, ShapedAt, Entries, Nodes
<1>2. d \in Contents
  <2>1. d \in [Paths -> Nodes]
    BY <1>1
  <2>2. ASSUME NEW q \in Paths, d[q] # "nil", NEW r \in Above[q] PROVE d[r] = "dir"
    <3>1. ~R(q) /\ disk[q] # "nil"
      BY <2>2
    <3>2. ~R(r)
      BY <3>1, RemovedBelow
    <3>3. r \in Paths /\ disk[r] = "dir"
      BY <1>1, <3>1, PathsAssumption DEF WellFormed
    <3> QED BY <3>2, <3>3
  <2> QED BY <2>1, <2>2 DEF Contents, WellFormed
<1>3. \A q \in Paths : d[q] # disk[q] => disk[q] = old[q] /\ d[q] = "nil"
  <2>1. \A q \in Paths : R(q) => q \in AtOrBelow(q) /\ disk[q] = old[q]
    BY DEF Removed, Expected, AtOrBelow, UpTo
  <2> QED BY <2>1
<1>4. CASE old[p] = "nil" \/ ~ParentExists(disk, p)
  <2>1. result.disk = disk /\ result.entry = old
    BY <1>4 DEF Remove
  <2> QED BY <1>1, <2>1 DEF Performs, Entries
<1>5. CASE ~(old[p] = "nil" \/ ~ParentExists(disk, p))
  <2>1. result.disk = d
    BY <1>5 DEF Remove
  <2>2. result.entry \in [Paths -> Nodes] /\ \A q \in Paths : result.entry[q] \in {"nil", old[q]}
    BY <1>1, <1>5 DEF Remove
  <2> HIDE DEF result, d
  <2>3. Performs(result, disk, old, new)
    BY <1>2, <1>3, <2>1, <2>2 DEF Performs, Entries
  <2> QED BY <2>3 DEF result
<1> QED BY <1>4, <1>5

(* create adds nothing but the content it was given, where nothing was. *)
LEMMA CreatePerforms ==
    ASSUME NEW disk \in Contents, NEW p \in Paths, NEW old, NEW new, ShapedAt(new, p),
           NEW staged, NEW denied, NEW closed
    PROVE  Performs(Create(disk, p, new, staged, denied, closed), disk, old, new)
<1> DEFINE C(q) == Created(disk, p, new, staged, denied, closed, q)
           d == [q \in Paths |-> IF C(q) THEN new[q] ELSE disk[q]]
           result == Create(disk, p, new, staged, denied, closed)
<1>1. disk \in [Paths -> Nodes] /\ WellFormed(disk) /\ new \in [Paths -> Nodes] /\ "nil" \in Nodes
  BY DEF Contents, ShapedAt, Entries, Nodes
<1>2. CASE new[p] = "nil" \/ ~ParentExists(disk, p)
  <2>1. result.disk = disk /\ result.entry = NilEntry
    BY <1>2 DEF Create
  <2> QED BY <1>1, <2>1 DEF Performs, Entries, NilEntry
<1>3. CASE new[p] # "nil" /\ ParentExists(disk, p)
  <2>1. \A q \in Paths : C(q) => q \in AtOrBelow(p) /\ disk[q] = "nil" /\ new[q] # "nil"
    BY DEF Created, UpTo
  <2>2. d \in Contents
    <3>1. d \in [Paths -> Nodes]
      BY <1>1
    <3>2. ASSUME NEW q \in Paths, d[q] # "nil", NEW r \in Above[q] PROVE d[r] = "dir"
      <4>1. r \in Paths /\ UpTo(r) \subseteq UpTo(q) /\ r \in UpTo(q)
        BY AboveTransitive DEF UpTo
      <4>2. CASE ~C(q)
        <5>1. disk[q] # "nil"
          BY <3>2, <4>2
        <5>2. disk[r] = "dir"
          BY <1>1, <5>1 DEF WellFormed
        <5> QED BY <2>1, <4>1, <5>2
      <4>3. CASE C(q) /\ r \in AtOrBelow(p)
        <5>1. C(r)
          <6>1. q \notin UpTo(r)
            BY AboveTransitive, <4>1 DEF UpTo
          <6> QED BY <4>1, <4>3, <6>1 DEF Created
        <5>2. new[r] = "dir"
          BY <2>1, <4>3 DEF ShapedAt
        <5> QED BY <4>1, <5>1, <5>2
      <4>4. CASE C(q) /\ r \notin AtOrBelow(p)
        <5>1. p \in UpTo(q)
          BY <2>1, <4>4 DEF AtOrBelow
        <5>2. r \in Above[p]
          <6>1. r \in UpTo(p) \/ p \in UpTo(r)
            BY <4>1, <5>1, Comparable
          <6>2. p \notin UpTo(r)
            BY <4>1, <4>4 DEF AtOrBelow
          <6> QED BY <6>1, <6>2 DEF UpTo
        <5>3. disk[r] = "dir"
          BY <1>3, <5>2 DEF ParentExists
        <5> QED BY <2>1, <4>1, <4>4, <5>3
      <4> QED BY <4>2, <4>3, <4>4
    <3> QED BY <3>1, <3>2 DEF Contents, WellFormed
  <2>3. result.disk = d
    BY <1>3 DEF Create
  <2>4. /\ result.entry \in [Paths -> Nodes]
        /\ \A q \in Paths : result.entry[q] # "nil" => C(q) /\ result.entry[q] = new[q]
    BY <1>1, <1>3 DEF Create
  <2>5. \A q \in Paths : d[q] # disk[q] => C(q)
    OBVIOUS
  <2>6. \A q \in Paths : C(q) => d[q] = new[q]
    OBVIOUS
  <2> SUFFICES Performs(result, disk, old, new)
    OBVIOUS
  <2> HIDE DEF result, d, C
  <2> QED BY <2>1, <2>2, <2>3, <2>4, <2>5, <2>6 DEF Performs, Entries
<1> QED BY <1>2, <1>3

(* swapFile replaces the expected file by the new one, or does nothing. *)
LEMMA SwapPerforms ==
    ASSUME NEW disk \in Contents, NEW p \in Paths, NEW old, ShapedAt(old, p), NEW new, ShapedAt(new, p),
           old[p] \in Files, new[p] \in Files, NEW staged, NEW denied
    PROVE  Performs(Swap(disk, p, old, new, staged, denied), disk, old, new)
<1> DEFINE d == [disk EXCEPT ![p] = new[p]]
           result == Swap(disk, p, old, new, staged, denied)
<1>1. disk \in [Paths -> Nodes] /\ WellFormed(disk) /\ new \in [Paths -> Nodes] /\ old \in [Paths -> Nodes]
  BY DEF Contents, ShapedAt, Entries
<1>2. CASE result.disk = disk /\ result.entry = old
  BY <1>1, <1>2 DEF Performs, Entries
<1>3. CASE result.disk = d /\ result.entry = new /\ disk[p] = old[p]
  <2>1. disk[p] # "nil" /\ disk[p] # "dir" /\ new[p] # "dir" /\ new[p] # "nil"
    BY <1>3, NodesAssumption
  <2>2. ASSUME NEW q \in Paths, d[q] # "nil", NEW r \in Above[q] PROVE d[r] = "dir"
    <3>1. disk[q] # "nil"
      BY <1>1, <2>1, <2>2
    <3>2. disk[r] = "dir" /\ r \in Paths
      BY <1>1, <3>1, PathsAssumption DEF WellFormed
    <3>3. r # p
      BY <2>1, <3>2
    <3> QED BY <1>1, <3>2, <3>3
  <2>3. d \in Contents
    BY <1>1, <2>2 DEF Contents, WellFormed
  <2>4. \A q \in Paths : q # p => new[q] = "nil"
    <3>1. \A q \in Paths : q \in AtOrBelow(p) /\ q # p => p \in Above[q] \cap AtOrBelow(p)
      BY DEF AtOrBelow, UpTo
    <3> QED BY <2>1, <3>1 DEF ShapedAt
  <2>5. d[p] = new[p] /\ \A q \in Paths : q # p => d[q] = disk[q]
    BY <1>1
  <2> SUFFICES Performs(result, disk, old, new)
    OBVIOUS
  <2> HIDE DEF result, d
  <2> QED BY <1>1, <1>3, <2>3, <2>4, <2>5 DEF Performs, Entries
<1> QED BY <1>2, <1>3 DEF Swap

(* Transition: one change of the list. *)
LEMMA TransitionPerforms ==
    ASSUME NEW disk \in Contents, NEW t \in Changes, ShapedAt(t.old, t.path), ShapedAt(t.new, t.path),
           NEW staged, NEW denied, NEW closed
    PROVE  Performs(Transition(disk, t, staged, denied, closed), disk, t.old, t.new)
<1> DEFINE removal == Remove(disk, t.path, t.old, denied, closed)
           creation == Create(removal.disk, t.path, t.new, staged, denied, closed)
           result == Transition(disk, t, staged, denied, closed)
<1>1. t.path \in Paths
  BY DEF Changes
<1>2. CASE t.old[t.path] \in Files /\ t.new[t.path] \in Files
  <2>1. result = Swap(disk, t.path, t.old, t.new, staged, denied)
    BY <1>2 DEF Transition
  <2> QED BY <1>1, <1>2, <2>1, SwapPerforms
<1>3. CASE ~(t.old[t.path] \in Files /\ t.new[t.path] \in Files)
  <2>1. Performs(removal, disk, t.old, t.new)
    BY <1>1, RemovePerforms
  <2>2. CASE removal.entry[t.path] # "nil"
    <3>1. result = removal
      BY <1>3, <2>2 DEF Transition
    <3> QED BY <2>1, <3>1
  <2>3. CASE removal.entry[t.path] = "nil"
    <3>1. result = creation
      BY <1>3, <2>3 DEF Transition
    <3>2. removal.disk \in Contents
      BY <2>1 DEF Performs
    <3>3. Performs(creation, removal.disk, NilEntry, t.new)
      <4> HIDE DEF removal
      <4> QED BY <1>1, <3>2, CreatePerforms
    <3>4. \A q \in Paths : NilEntry[q] = "nil"
      BY DEF NilEntry
    <3> SUFFICES Performs(creation, disk, t.old, t.new)
      BY <3>1
    <3> HIDE DEF removal, creation
    <3>5. \A q \in Paths : creation.disk[q] # removal.disk[q] => removal.disk[q] = "nil"
      BY <3>3, <3>4 DEF Performs
    <3>6. \A q \in Paths : creation.disk[q] # disk[q] =>
             disk[q] \in {"nil", t.old[q]} /\ creation.disk[q] \in {"nil", t.new[q]}
      <4> TAKE q \in Paths
      <4>1. CASE creation.disk[q] = removal.disk[q]
        BY <2>1, <4>1 DEF Performs
      <4>2. CASE creation.disk[q] # removal.disk[q] /\ removal.disk[q] = disk[q]
        BY <3>3, <3>5, <4>2 DEF Performs
      <4>3. CASE creation.disk[q] # removal.disk[q] /\ removal.disk[q] # disk[q]
        BY <2>1, <3>3, <4>3 DEF Performs
      <4> QED BY <4>1, <4>2, <4>3
    <3> QED BY <3>3, <3>4, <3>6 DEF Performs
  <2> QED BY <2>2, <2>3
<1> QED BY <1>2, <1>3

-----------------------------------------------------------------------------
(* What Apply computes at a path comes from its base or from a change. *)
LEMMA ApplyOrigin ==
    ASSUME NEW base, NEW changes \in SUBSET Changes, NEW q \in Paths
    PROVE  \/ Apply(base, changes)[q] = base[q]
           \/ \E c \in changes : Apply(base, changes)[q] = c.new[q]
<1> DEFINE cs == Reaching(changes, q)
<1>1. CASE cs = {}
  BY <1>1 DEF Apply
<1>2. CASE cs # {}
  <2> DEFINE S == {c.path : c \in cs}
  <2>1. S \in SUBSET UpTo(q) /\ S # {}
    BY <1>2 DEF Reaching
  <2>2. \E m \in S : \A s \in S : s \in UpTo(m)
    <3> HIDE DEF S
    <3> QED BY <2>1, Extremes
  <2>3. \E c \in cs : IsDeepest(c, cs)
    BY <2>2 DEF IsDeepest
  <2>4. (CHOOSE c \in cs : IsDeepest(c, cs)) \in cs
    BY <2>3
  <2>5. Apply(base, changes)[q] = (CHOOSE c \in cs : IsDeepest(c, cs)).new[q]
    BY <1>2 DEF Apply
  <2>6. cs \subseteq changes
    BY DEF Reaching
  <2> HIDE DEF cs
  <2> QED BY <2>4, <2>5, <2>6
<1> QED BY <1>1, <1>2
=============================================================================
