------------------------------- MODULE Escrow -------------------------------
(***************************************************************************)
(* What the ledger promises, without orders, webhooks or a PSP: per order  *)
(* the money is captured once, may be settled to the merchant once, and is *)
(* reversed by refunds.  Nothing posted is ever changed or removed, money  *)
(* is settled or reversed only after it was captured, and a reversal       *)
(* debits the account the money is in at that moment: the merchant's once  *)
(* the order is settled, the held funds before.                            *)
(*                                                                         *)
(* An order that is not Funded has a total of zero: it posts no capture.   *)
(***************************************************************************)
EXTENDS Naturals

CONSTANTS Orders, Refunds, OrderOf, Funded

VARIABLES captured, settled, reversed

EscrowInit ==
  /\ captured = {}
  /\ settled = {}
  /\ reversed = [r \in Refunds |-> "none"]

Covered(o) == o \in captured \/ o \notin Funded

Capture(o) ==
  /\ o \in Funded \ captured
  /\ captured' = captured \cup {o}
  /\ UNCHANGED <<settled, reversed>>

Settle(o) ==
  /\ Covered(o)
  /\ o \notin settled
  /\ settled' = settled \cup {o}
  /\ UNCHANGED <<captured, reversed>>

Reverse(r) ==
  /\ Covered(OrderOf[r])
  /\ reversed[r] = "none"
  /\ reversed' = [reversed EXCEPT ![r] =
                    IF OrderOf[r] \in settled THEN "payable" ELSE "held"]
  /\ UNCHANGED <<captured, settled>>

EscrowNext ==
  \/ \E o \in Orders : Capture(o) \/ Settle(o)
  \/ \E r \in Refunds : Reverse(r)

EscrowSpec == EscrowInit /\ [][EscrowNext]_<<captured, settled, reversed>>
=============================================================================
