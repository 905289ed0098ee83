--------------------------- MODULE MCResourceSync ---------------------------
(* Small instances of ResourceSync for TLC. *)
EXTENDS ResourceSync, TLC

(* Links and proxies are interchangeable. *)
Symmetry == Permutations(Link) \cup Permutations(Obj)
=============================================================================
