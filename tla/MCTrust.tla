------------------------------ MODULE MCTrust ------------------------------
(* An artifact and an alias; two keys, two versions that one or both signed, *)
(* and one that nobody signed.                                             *)
EXTENDS Trust, TLC

CONSTANTS p1, p2, k1, k2, v1, v2, v3, own, alias

SomeAuthored == {<<v1, k1>>, <<v2, k1>>, <<v2, k2>>}

TrustSymmetry == Permutations(Calls)
=============================================================================
