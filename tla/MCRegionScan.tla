---------------------------- MODULE MCRegionScan ----------------------------
(* An instance of RegionScan for TLC: three regions compete for two tokens, *)
(* and two scanners for the result of each.  Neither the regions nor the    *)
(* scanners are told apart anywhere.                                        *)
EXTENDS RegionScan, TLC

CONSTANTS r1, r2, r3, s1, s2

Symmetry == Permutations(Regions) \cup Permutations(Scanners)
=============================================================================
