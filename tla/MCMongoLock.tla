---------------------------- MODULE MCMongoLock ----------------------------
(* Finite instances of MongoLock for TLC.                                  *)
EXTENDS MongoLock, TLC

CONSTANTS h1, h2, c1, c2, c3

\* Two requests in one process and a third in another one.
SharedHost == (c1 :> h1) @@ (c2 :> h1) @@ (c3 :> h2)
=============================================================================
