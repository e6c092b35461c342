------------------------------ MODULE MCCheckout ------------------------------
(***************************************************************************)
(* Small instances of Checkout for TLC. The handlers never touch two items *)
(* at once, so one item with the orders that compete for it is enough.     *)
(***************************************************************************)
EXTENDS Checkout, TLC

CONSTANTS o1, o2, i1, m1, r1, r2

MCSellerOf == (i1 :> m1)
MCTotal    == (i1 :> 1)

\* One order refunded twice: the life of its money.
MCOneOrder   == (o1 :> i1)
MCTwoRefunds == (r1 :> o1) @@ (r2 :> o1)

\* Two orders for one item, each refunded at most once.
MCTwoOrders  == (o1 :> i1) @@ (o2 :> i1)
MCRefundEach == (r1 :> o1) @@ (r2 :> o2)
=============================================================================
