-------------------------- MODULE MCAuthenticator ---------------------------
(* Finite instances of Authenticator for TLC.                              *)
EXTENDS Authenticator

CONSTANTS c1, c2, e1, e2
=============================================================================
