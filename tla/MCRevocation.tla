---- MODULE MCRevocation ----
EXTENDS Revocation, TLC
CONSTANTS alice, bob
\* Nothing tells the identities apart.
Identities == Permutations(Identity)
====
