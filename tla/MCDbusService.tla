---------------------------- MODULE MCDbusService ----------------------------
(***************************************************************************)
(* DbusService with interchangeable BMS: nothing it does depends on which  *)
(* BMS is which, and its properties are safety properties.                 *)
(***************************************************************************)
EXTENDS DbusService, TLC

Interchangeable == Permutations(Slot)
=============================================================================
