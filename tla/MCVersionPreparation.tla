----------------------- MODULE MCVersionPreparation -----------------------
(* VersionPreparation with interchangeable operators.                      *)
EXTENDS VersionPreparation, TLC

Symmetry == Permutations(Operators)
=============================================================================
