------------------------------- MODULE MCAntDns -------------------------------
(* AntDns with two urls of one host and one of another.                       *)
EXTENDS AntDns, TLC

CONSTANTS d1, d2

Domains == {d1, d2}
Urls == {<<d1, 1>>, <<d1, 2>>, <<d2, 1>>}

\* No descriptor is told from another.
Symmetry == Permutations(Sock)
=============================================================================
