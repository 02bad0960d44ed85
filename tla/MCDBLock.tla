------------------------------ MODULE MCDBLock ------------------------------
(***************************************************************************)
(* Small instances of DBLock.                                              *)
(***************************************************************************)
EXTENDS DBLock, TLC

NodeSymmetry == Permutations(Node)
=============================================================================
