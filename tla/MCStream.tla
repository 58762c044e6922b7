------------------------------ MODULE MCStream ------------------------------
(* Small instances of Stream. *)
EXTENDS Stream

TwoBytes == [e \in Ends |-> IF e = "a" THEN 2 ELSE 0]
OneWay == [e \in Ends |-> IF e = "a" THEN 3 ELSE 0]
=============================================================================
