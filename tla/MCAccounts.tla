----------------------------- MODULE MCAccounts -----------------------------
(* Finite instances of Accounts for TLC.                                   *)
EXTENDS Accounts, TLC

CONSTANTS i1, i2, i3, s1, s2, e1, e2, r1, r2, r3

\* One subject comes with either e-mail, and another one with the first's.
TwoEmailsOfOne ==
    {[sub |-> s1, email |-> e1], [sub |-> s1, email |-> e2], [sub |-> s2, email |-> e2]}

AllButUpdateBySub ==
    SignUps \cup Updates \cup {"deleteMe", "setPlatformRoles"}

SignUpsAndSaves ==
    SignUps \cup {"saveUser", "updateUserBySub", "setPlatformRoles"}

Interchangeable == Permutations({r1, r2, r3}) \cup Permutations({i1, i2, i3})
=============================================================================
