--------------------------- MODULE MCJobRecovery ---------------------------
(* An instance of JobRecovery for TLC: the two worker processes, a job of   *)
(* the API handled by the scanner, and one of the scanner for the analyzer. *)
EXTENDS JobRecovery

CONSTANTS scanJob, analyzerJob, scanner, analyzer

MCHandledBy == [j \in Jobs |-> IF j = scanJob THEN scanner ELSE analyzer]
=============================================================================
