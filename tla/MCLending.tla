----------------------------- MODULE MCLending -----------------------------
(* Finite instances of Lending for TLC.                                    *)
EXTENDS Lending, TLC

CONSTANTS
    AssetProduct,   \* the product all units belong to
    Outer           \* the container every other container is nested in

MCProductOf == [a \in Assets |-> AssetProduct]

MCSubtree == [b \in Boxes |-> IF b = Outer THEN Boxes ELSE {b}]

Symmetry ==
    UNION {Permutations(S) : S \in {Assets, Requests, IssuePhotos, ReturnPhotos, Keys}}
=============================================================================
