--------------------------- MODULE Transitioning ---------------------------
(***************************************************************************)
(* What pkg/synchronization/core/transition.go and stage.go do to the      *)
(* content on disk at an endpoint.                                         *)
(*                                                                         *)
(* Each operation takes the disk, the content expected or wanted at p, and *)
(* the paths at which the filesystem refuses it: denied, where content     *)
(* cannot be created, replaced or removed, and closed, where the step that *)
(* follows fails (opening or listing a directory, setting permissions on a *)
(* new directory or link).  A spurious "modification detected", a          *)
(* cancellation and the refusal of the whole list because of the maximum   *)
(* entry count are refusals too.  The windows between check and use that   *)
(* the code documents as RACE are not modelled.                            *)
(***************************************************************************)
EXTENDS Reconciliation

CONSTANT Digest  \* Digest[f]: the content digest of file node f

ASSUME DigestAssumption == DOMAIN Digest = Files

SameDigest(old, new) == old \in Files /\ new \in Files /\ Digest[old] = Digest[new]

Digests == {Digest[f] : f \in Files}

(* TransitionDependencies: the files to stage for a list of transitions,   *)
(* by path and digest, which is how the stager stores them.                *)
TransitionDependencies(transitions) ==
    {w \in Paths \X Digests :
        \E t \in transitions : /\ t.new[w[1]] \in Files /\ Digest[t.new[w[1]]] = w[2]
                               /\ ~SameDigest(t.old[t.path], t.new[t.path])}

(* walkToParentAndComputeLeafName reaches the parent of p. *)
ParentExists(disk, p) == \A r \in Above[p] : disk[r] = "dir"

(* Mutant of Expected: any leaf passes for the one that was scanned. *)
ExpectedAnyLeaf(disk, old, closed, q) ==
    /\ disk[q] = old[q] \/ (disk[q] \in Leaves /\ old[q] \in Leaves)
    /\ disk[q] = "dir" => q \notin closed

(* ensureExpectedFile and ensureExpectedSymbolicLink, and a directory that *)
(* can be opened and listed.                                               *)
Expected(disk, old, closed, q) == disk[q] = old[q] /\ (disk[q] = "dir" => q \notin closed)

(* removeDirectory gets to q below p. *)
Reached(disk, p, old, closed, q) ==
    \A r \in Above[q] \cap AtOrBelow(p) : disk[r] = "dir" /\ Expected(disk, old, closed, r)

(* The content at q is removed: a directory goes when all it holds is      *)
(* known content that could be removed.                                    *)
Removed(disk, p, old, denied, closed, q) ==
    /\ disk[q] # "nil"
    /\ q \in AtOrBelow(p)
    /\ Reached(disk, p, old, closed, q)
    /\ \A r \in AtOrBelow(q) :
          disk[r] # "nil" => Expected(disk, old, closed, r) /\ r \notin denied

(* All known content of the directory r was removed, so that the entries   *)
(* that were not found on disk are dropped as well.  A refusal at such an  *)
(* entry is a cancellation that cut the iteration short.                   *)
Cleared(disk, p, old, denied, closed, r) ==
    /\ Reached(disk, p, old, closed, r)
    /\ disk[r] = "dir" /\ Expected(disk, old, closed, r)
    /\ \A s \in Children(r) :
          old[s] # "nil" => \/ disk[s] = "nil" /\ s \notin denied
                            \/ Removed(disk, p, old, denied, closed, s)

(* transitioner.remove: the disk afterwards and the entry that remains. *)
Remove(disk, p, old, denied, closed) ==
    IF old[p] = "nil" \/ ~ParentExists(disk, p)
    THEN [disk |-> disk, entry |-> old]
    ELSE [disk |-> [q \in Paths |->
                       IF Removed(disk, p, old, denied, closed, q) THEN "nil" ELSE disk[q]],
          entry |-> [q \in Paths |->
                       IF \E s \in UpTo(q) \cap AtOrBelow(p) :
                             \/ Removed(disk, p, old, denied, closed, s)
                             \/ \E r \in AtOrBelow(p) :
                                   s \in Children(r) /\ Cleared(disk, p, old, denied, closed, r)
                       THEN "nil" ELSE old[q]]]

(* The stager provides the content of file f for path q. *)
Staged(staged, q, f) == <<q, Digest[f]>> \in staged

(* The node wanted at q is put on disk, which needs its parents below p to *)
(* have been created and, for a file, its content to have been staged.     *)
Created(disk, p, new, staged, denied, closed, q) ==
    /\ q \in AtOrBelow(p)
    /\ \A r \in UpTo(q) \cap AtOrBelow(p) :
          /\ new[r] # "nil" /\ disk[r] = "nil" /\ r \notin denied
          /\ new[r] \in Files => Staged(staged, r, new[r])
          /\ r # q => r \notin closed

(* Mutant of Create: the parent is not verified. *)
CreateAnywhere(disk, p, new, staged, denied, closed) ==
    [disk |-> [q \in Paths |->
                  IF Created(disk, p, new, staged, denied, closed, q) THEN new[q] ELSE disk[q]],
     entry |-> [q \in Paths |->
                  IF Created(disk, p, new, staged, denied, closed, q) THEN new[q] ELSE "nil"]]

(* transitioner.create: a link whose permissions could not be set stays on *)
(* disk although its creation is reported as failed.                       *)
Create(disk, p, new, staged, denied, closed) ==
    IF new[p] = "nil" \/ ~ParentExists(disk, p)
    THEN [disk |-> disk, entry |-> NilEntry]
    ELSE [disk |-> [q \in Paths |->
                       IF Created(disk, p, new, staged, denied, closed, q) THEN new[q] ELSE disk[q]],
          entry |-> [q \in Paths |->
                       IF /\ Created(disk, p, new, staged, denied, closed, q)
                          /\ ~(new[q] \in Links /\ q \in closed)
                       THEN new[q] ELSE "nil"]]

(* transitioner.swapFile. *)
Swap(disk, p, old, new, staged, denied) ==
    IF /\ ParentExists(disk, p)
       /\ disk[p] = old[p]
       /\ SameDigest(old[p], new[p]) \/ Staged(staged, p, new[p])
       /\ p \notin denied
    THEN [disk |-> [disk EXCEPT ![p] = new[p]], entry |-> new]
    ELSE [disk |-> disk, entry |-> old]

(* providerMissingFiles: a file had to be put in place and was not staged. *)
Missing(disk, t, staged, denied, closed) ==
    LET p == t.path
    IN  /\ ParentExists(disk, p)
        /\ IF t.old[p] \in Files /\ t.new[p] \in Files
           THEN /\ disk[p] = t.old[p] /\ ~SameDigest(t.old[p], t.new[p])
                /\ ~Staged(staged, p, t.new[p])
           ELSE LET removal == Remove(disk, p, t.old, denied, closed)
                IN  /\ removal.entry[p] = "nil"
                    /\ \E q \in AtOrBelow(p) :
                          /\ t.new[q] \in Files /\ ~Staged(staged, q, t.new[q])
                          /\ \A r \in Above[q] \cap AtOrBelow(p) :
                                /\ Created(removal.disk, p, t.new, staged, denied, closed, r)
                                /\ r \notin closed

(* Transition, for one change of the list: a file is swapped for a file in *)
(* place, anything else is removed before what replaces it is created.     *)
Transition(disk, t, staged, denied, closed) ==
    LET removal == Remove(disk, t.path, t.old, denied, closed)
    IN  CASE t.old[t.path] \in Files /\ t.new[t.path] \in Files ->
                 Swap(disk, t.path, t.old, t.new, staged, denied)
          [] ~(t.old[t.path] \in Files /\ t.new[t.path] \in Files)
             /\ removal.entry[t.path] # "nil" -> removal
          [] OTHER -> Create(removal.disk, t.path, t.new, staged, denied, closed)
=============================================================================
