--------------------------- MODULE MCCaHierarchy ---------------------------
(* Instances of CaHierarchy for TLC.                                        *)
EXTENDS CaHierarchy, TLC

(* No definition tells workers, or CAs from elsewhere, apart.               *)
Symmetric == Permutations(Workers) \cup Permutations(Foreign)
=============================================================================
