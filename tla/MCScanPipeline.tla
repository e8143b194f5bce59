--------------------------- MODULE MCScanPipeline ---------------------------
(* Instances of ScanPipeline for TLC: the fan-out of seven analyzers is cut *)
(* down to two, enough for a first and a last one.                          *)
EXTENDS ScanPipeline

TwoAnalyzers == <<"analyze_orphans", "analyze_iam">>
=============================================================================
