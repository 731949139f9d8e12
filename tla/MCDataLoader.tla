---------------------------- MODULE MCDataLoader ----------------------------
(* Finite instances of DataLoader for TLC.                                 *)
EXTENDS DataLoader
=============================================================================
