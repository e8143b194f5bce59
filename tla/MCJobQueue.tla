----------------------------- MODULE MCJobQueue -----------------------------
(* An instance of JobQueue for TLC. *)
EXTENDS JobQueue

CONSTANTS m1, m2, m3

\* Two messages compete on one list; a third waits on a list that every
\* consumer looks at last.
MCTypeOf == [m \in Messages |->
  IF m = m3 THEN "analyze_cost" ELSE "analyze_ssl"]
MCKeys == [c \in Consumers |-> <<"analyze_ssl", "analyze_cost">>]
=============================================================================
