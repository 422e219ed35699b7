--------------------------- MODULE MCAssetStorage ---------------------------
(* Model values, sizes and symmetry for the runs of AssetStorage. *)
EXTENDS AssetStorage, TLC

CONSTANTS a1, a2, a3, p1, p2

TwoAssets == {a1, a2}
ThreeAssets == {a1, a2, a3}
OnePurger == {p1}
TwoPurgers == {p1, p2}

UnitSize == [a \in Assets |-> 1]

AssetAndPurgerSymmetry == Permutations(Assets) \cup Permutations(Purgers)

=============================================================================
