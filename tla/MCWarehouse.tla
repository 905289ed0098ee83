---------------------------- MODULE MCWarehouse -----------------------------
(* Two resources and two links that stand for any two.                     *)
EXTENDS Warehouse, TLC

MCSymmetry == Permutations(Resource) \cup Permutations(Path)
=============================================================================
