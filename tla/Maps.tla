------------------------------- MODULE Maps --------------------------------
(* Go maps as functions whose domain is the set of keys present.           *)
EXTENDS Integers, FiniteSets, Functions

Empty == [x \in {} |-> x]

\* The map f after f[k] = v.
Put(f, k, v) == [x \in DOMAIN f \cup {k} |-> IF x = k THEN v ELSE f[x]]

\* The map f after the keys of S are deleted.
Without(f, S) == Restrict(f, DOMAIN f \ S)
=============================================================================
