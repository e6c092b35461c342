--------------------------- MODULE MCCollectionTask ---------------------------
(***************************************************************************)
(* Small instances of CollectionTask: two worker processes on one host, as *)
(* in docker-compose.yml, or on a host each, where only the slots keep     *)
(* their browsers apart.                                                   *)
(***************************************************************************)
EXTENDS CollectionTask, TLC

CONSTANTS t1, t2, w1, w2, h1, h2

MCOneHost  == [w \in Workers |-> h1]
MCTwoHosts == (w1 :> h1 @@ w2 :> h2)
=============================================================================
