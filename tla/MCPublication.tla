--------------------------- MODULE MCPublication ---------------------------
(* Two builds of one commit and two of another, one of them with inputs that *)
(* disagree; two assets and a stray name.                                    *)
EXTENDS Publication, TLC

CONSTANTS b1, b2, b3, b4, c1, c2, wheel, sums, stray

TwoCommits == b1 :> c1 @@ b2 :> c1 @@ b3 :> c2 @@ b4 :> c2

PublicationSymmetry == Permutations(Assets)
=============================================================================
