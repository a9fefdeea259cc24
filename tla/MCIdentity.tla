------------------------------ MODULE MCIdentity ------------------------------
EXTENDS Identity, TLC

Symmetric == UNION {Permutations(S) : S \in {LocalUsers, Requests, Logins, Browsers}}
=============================================================================
