------------------------------- MODULE MCIngest -------------------------------
(***************************************************************************)
(* Small instances of Ingest for TLC.                                      *)
(***************************************************************************)
EXTENDS Search

CONSTANTS l1, l2, w1, w2
=============================================================================
