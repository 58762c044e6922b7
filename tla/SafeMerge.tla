------------------------------ MODULE SafeMerge ------------------------------
(***************************************************************************)
(* What synchronization in a safe mode promises to the users of the two    *)
(* endpoints, without archives, snapshots, staging or interruptions.       *)
(*                                                                         *)
(* Users change content at will.  The synchronizer copies leaves from one  *)
(* endpoint to the same path on the other, and overwrites a leaf only when *)
(* it had been at that path on both endpoints and some user has since      *)
(* destroyed it.                                                           *)
(***************************************************************************)
EXTENDS Entries, Naturals

VARIABLES disk,     \* disk[e]: the content at endpoint e
          seen,     \* seen[e]: every <<path, leaf>> ever on disk at e
          dropped,  \* every <<path, leaf>> that a user destroyed
          edits     \* number of operations by users

vars == <<disk, seen, dropped, edits>>

Endpoints == {"alpha", "beta"}
Other(e) == IF e = "alpha" THEN "beta" ELSE "alpha"
LeavesOf(c) == {<<q, c[q]>> : q \in {r \in Paths : c[r] \in Leaves}}

Init ==
    /\ disk \in [Endpoints -> Contents]
    /\ seen = [e \in Endpoints |-> LeavesOf(disk[e])]
    /\ dropped = {}
    /\ edits = 0

(* Only the content of e changes, and the history records its leaves. *)
Becomes(e) ==
    /\ disk' \in [Endpoints -> Contents]
    /\ disk'[Other(e)] = disk[Other(e)]
    /\ seen' = [seen EXCEPT ![e] = @ \cup LeavesOf(disk'[e])]

UserStep(e) ==
    /\ Becomes(e)
    /\ dropped' = dropped \cup (LeavesOf(disk[e]) \ LeavesOf(disk'[e]))
    /\ edits' = edits + 1

MayOverwrite(e, q) ==
    \/ disk[e][q] \in {"nil", "dir"}
    \/ <<q, disk[e][q]>> \in seen[Other(e)] \cap dropped
MayPlace(e, q, node) == node \in {"nil", "dir"} \/ <<q, node>> \in seen[Other(e)]

SynchronizerStep(e) ==
    /\ Becomes(e)
    /\ \A q \in Paths :
          disk'[e][q] # disk[e][q] => MayOverwrite(e, q) /\ MayPlace(e, q, disk'[e][q])
    /\ UNCHANGED <<dropped, edits>>

Next == \E e \in Endpoints : UserStep(e) \/ SynchronizerStep(e)

Spec == Init /\ [][Next]_vars
=============================================================================
