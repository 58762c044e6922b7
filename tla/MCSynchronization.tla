------------------------- MODULE MCSynchronization -------------------------
(* Small trees for model checking the synchronization loop. *)
EXTENDS Synchronization, TLC

CONSTANTS f1, f2

(* A directory d with one entry x: content can be nested and replaced by   *)
(* content of another kind.                                                *)
ChainPaths == {"", "d", "d/x"}
ChainAbove == [p \in ChainPaths |->
    CASE p = "" -> {} [] p = "d" -> {""} [] p = "d/x" -> {"", "d"}]

(* Two entries directly under the root, as the emptied root check needs. *)
FlatPaths == {"", "a", "b"}
FlatAbove == [p \in FlatPaths |-> IF p = "" THEN {} ELSE {""}]

Sides(alpha, beta) == [e \in Endpoints |-> IF e = "alpha" THEN alpha ELSE beta]

Chain(d, x) == [p \in Paths |-> CASE p = "" -> "dir" [] p = "d" -> d [] p = "d/x" -> x]
EqualChains == {Sides(Chain("dir", f1), Chain("dir", f1))}
ConflictingChains == {Sides(Chain("dir", f1), Chain(f2, "nil"))}
EmptyChains == {Sides(Chain("dir", f1), beta) : beta \in {NilEntry, Chain("nil", "nil")}}
TwoWayInitial == EqualChains \cup ConflictingChains
ChainInitial == TwoWayInitial \cup EmptyChains

Flat(a, b) == [p \in Paths |-> CASE p = "" -> "dir" [] p = "a" -> a [] p = "b" -> b]
FileRoot == [NilEntry EXCEPT ![""] = f1]
FlatInitial == {Sides(Flat(f1, f2), Flat(f1, f2)), Sides(FileRoot, FileRoot)}

Symmetry == Permutations({f1, f2})

DistinctDigests == [f \in Files |-> f]
=============================================================================
