--------------------------- MODULE MCCredentials ----------------------------
(* Finite instances of Credentials for TLC.                                *)
EXTENDS Credentials, TLC

CONSTANTS r1, r2, r3, n1, n2, p1, p2, t1, t2, t3

Interchangeable ==
    Permutations(Requests) \cup Permutations(Names) \cup Permutations(Passwords)
      \cup Permutations(Tokens)
=============================================================================
