----------------------------- MODULE MCCatalogue -----------------------------
(***************************************************************************)
(* Small instances of Catalogue for TLC.                                   *)
(***************************************************************************)
EXTENDS Catalogue, TLC

CONSTANTS e1, e2, t1, t2, m1, m2, q1, q2, p1, p2, k1, k2, i1

MCSymmetry == Permutations(Merchants) \cup Permutations(Requests)
              \cup Permutations(Servers) \cup Permutations(SigningKeys)
=============================================================================
