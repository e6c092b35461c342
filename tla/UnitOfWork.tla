------------------------------ MODULE UnitOfWork ------------------------------
(***************************************************************************)
(* What a SQLAlchemy session writes at a flush: of a row it loaded, the    *)
(* columns whose value differs from the one loaded, over the row as it is  *)
(* in the database by then.  A change another transaction committed in     *)
(* between survives in the other columns, and is lost in these.            *)
(***************************************************************************)
Column(now, loaded, new) == IF new # loaded THEN new ELSE now

Columns(now, loaded, new) ==
  [c \in DOMAIN now |-> Column(now[c], loaded[c], new[c])]
=============================================================================
