-------------------------- MODULE MCSessionClient --------------------------
(* Instances of SessionClient for TLC.                                     *)
EXTENDS SessionClient, TLC

CONSTANTS c1, c2, o1, o2
=============================================================================
