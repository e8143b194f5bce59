--------------------------- MODULE MCScanResults ---------------------------
(* An instance of ScanResults for TLC: the analyzer of the first type may   *)
(* have something to say of every resource, the one of the second only      *)
(* takes its time.                                                          *)
EXTENDS ScanResults, TLC

CONSTANTS analyze_orphans, analyze_ssl, r1, r2

Types == <<analyze_orphans, analyze_ssl>>
OrphanFindings == Resources \X {analyze_orphans}
Symmetry == Permutations(Resources)
=============================================================================
