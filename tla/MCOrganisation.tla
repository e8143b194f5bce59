---------------------------- MODULE MCOrganisation ----------------------------
(* An instance of Organisation for TLC: the founder and a colleague, two    *)
(* requests at a time.                                                      *)
EXTENDS Organisation, TLC

CONSTANTS founder, alice, r1, r2

Symmetry == Permutations(Users \ {Founder}) \union Permutations(Requests)
=============================================================================
