------------------------------- MODULE MCRelease -------------------------------
(***************************************************************************)
(* A short history of the default branch for Release: the second commit    *)
(* keeps base version and workflows, a third would change both.            *)
(***************************************************************************)
EXTENDS Release

MCSettings ==
    {[parallel |-> 1, runs |-> 3, trouble |-> 3], [parallel |-> 2, runs |-> 2, trouble |-> 2],
     [parallel |-> 2, runs |-> 3, trouble |-> 0]}

MCBaseOf == [c \in 1..MaxHead |-> IF c < 3 THEN 1 ELSE 2]
MCTreeOf == MCBaseOf
=============================================================================
