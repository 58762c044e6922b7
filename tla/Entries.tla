------------------------------ MODULE Entries ------------------------------
(***************************************************************************)
(* Entries, changes and the pure operations on them: pkg/synchronization/  *)
(* core (entry.go, diff.go, apply.go, stage.go).                           *)
(*                                                                         *)
(* The code's Entry is a tree: a node with a kind, some attributes and a   *)
(* map from names to child entries; nil is the absence of content.  Here   *)
(* an entry is one function from every path to the node found there, with  *)
(* "nil" where nothing is, so that a property of a subtree is a quantifier *)
(* over the paths below a path and needs no recursion.  A path is opaque:  *)
(* Above[p] is the set of its proper prefixes.                             *)
(***************************************************************************)
EXTENDS FiniteSets

CONSTANTS Paths,   \* the paths at which content may exist
          Root,    \* the synchronization root, the path "" of the code
          Above,   \* Above[p]: the paths of the directories that contain p
          Files,   \* the file nodes (a digest together with executability)
          Links    \* the symbolic link nodes (a target)

ASSUME PathsAssumption ==
    /\ Root \in Paths
    /\ Above \in [Paths -> SUBSET Paths]
    /\ Above[Root] = {}
    /\ \A p \in Paths : p \notin Above[p] /\ (p # Root => Root \in Above[p])

(* The prefixes of a path are closed under prefix, and any set of them has *)
(* a shortest and a longest one.                                           *)
ASSUME PrefixAssumption ==
    \A p \in Paths :
        /\ \A q \in Above[p] : Above[q] \subseteq Above[p]
        /\ \A S \in SUBSET (Above[p] \cup {p}) :
              S # {} => /\ \E m \in S : \A s \in S : s = m \/ m \in Above[s]
                        /\ \E m \in S : \A s \in S : s = m \/ s \in Above[m]

ASSUME NodesAssumption ==
    /\ Files \cap Links = {}
    /\ (Files \cup Links) \cap {"nil", "dir", "untracked", "problematic"} = {}

Leaves == Files \cup Links

(* The kinds for which EntryKind.synchronizable holds. Phantom directories *)
(* are reified before reconciliation and do not occur.                     *)
SynchronizableNodes == Leaves \cup {"dir"}
Nodes == SynchronizableNodes \cup {"nil", "untracked", "problematic"}

UpTo(p) == Above[p] \cup {p}
AtOrBelow(p) == {q \in Paths : p \in UpTo(q)}
Children(p) == {q \in Paths : Above[q] = UpTo(p)}

(* Entries in which only a directory has contents, which is what EnsureValid *)
(* enforces; with the argument true it also refuses unsynchronizable nodes. *)
WellFormed(e) == \A q \in Paths : e[q] # "nil" => \A r \in Above[q] : e[r] = "dir"
Contents == {e \in [Paths -> Nodes] : WellFormed(e)}
EnsureValid(e) ==
    /\ \A q \in Paths : e[q] \in SynchronizableNodes \cup {"nil"}
    /\ WellFormed(e)

NilEntry == [q \in Paths |-> "nil"]

(* The part of e at and below p, as the entry found by walking to p. *)
EntryAt(e, p) == [q \in Paths |-> IF q \in AtOrBelow(p) THEN e[q] ELSE "nil"]

(* Mutant of Slim: contents are copied as well. *)
SlimWithContents(e, p) == EntryAt(e, p)

(* Entry.Copy with EntryCopyBehaviorSlim: the node at p without contents. *)
Slim(e, p) == [q \in Paths |-> IF q = p THEN e[q] ELSE "nil"]

(* Entry.synchronizable: content that is not synchronizable is dropped,    *)
(* together with everything beneath it.                                    *)
Synchronizable(e, p) ==
    [q \in Paths |->
        IF q \in AtOrBelow(p) /\ \A r \in UpTo(q) \cap AtOrBelow(p) : e[r] \in SynchronizableNodes
        THEN e[q] ELSE "nil"]

Change(p, old, new) == [path |-> p, old |-> old, new |-> new]
Entries == [Paths -> Nodes]
Changes == [path : Paths, old : Entries, new : Entries]

(* diff: a complete replacement at the shallowest paths where the nodes    *)
(* differ (Entry.Equal without recursion).                                 *)
Diff(base, target) ==
    {Change(q, EntryAt(base, q), EntryAt(target, q)) :
        q \in {r \in Paths : base[r] # target[r] /\ \A s \in Above[r] : base[s] = target[s]}}

(* The changes of a list that apply to q, and the one applied last: lists  *)
(* are in depth-first order, so a parent is replaced before its contents.  *)
Reaching(changes, q) == {c \in changes : c.path \in UpTo(q)}
IsDeepest(c, cs) == \A o \in cs : o.path \in UpTo(c.path)

(* Apply, for a list with at most one change per path. *)
Apply(base, changes) ==
    [q \in Paths |->
        LET cs == Reaching(changes, q)
        IN  IF cs = {} THEN base[q] ELSE (CHOOSE c \in cs : IsDeepest(c, cs)).new[q]]

(* Apply fails (and dereferences nil at the root) unless the walk to the   *)
(* parent of every change finds content at each step.                      *)
ApplyResolves(base, changes) ==
    \A c \in changes :
        LET earlier == {o \in changes : o.path \in Above[c.path]}
        IN  \A r \in Above[c.path] : Apply(base, earlier)[r] # "nil"
=============================================================================
