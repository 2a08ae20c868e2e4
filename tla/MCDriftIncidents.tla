-------------------------- MODULE MCDriftIncidents --------------------------
(* Small instances of DriftIncidents: the first incident of a violation is  *)
(* promoted to one item, its recurrences to another.                        *)
EXTENDS DriftIncidents, TLC

CONSTANTS x1, x2

ItemOfDef == [i \in Incidents |-> IF i[2] = 1 THEN x1 ELSE x2]

Interchangeable == Permutations(Clients)
=============================================================================
