------------------------------- MODULE MCLegacy -------------------------------
(***************************************************************************)
(* A small instance of Opportunities and Legacy: the scheduled task        *)
(* collects both sources of a day; commands collect one, for an earlier    *)
(* day too, or one twice.                                                  *)
(***************************************************************************)
EXTENDS Opportunities

CONSTANTS task, shell, s1, s2

MCOptions ==
  [p \in {task, shell} |->
     IF p = task THEN {[date |-> 2, keys |-> <<s1, s2>>]}
     ELSE {[date |-> 1, keys |-> <<s1>>], [date |-> 2, keys |-> <<s1, s1>>]}]
=============================================================================
