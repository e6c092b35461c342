----------------------------- MODULE MCCheckoutRC -----------------------------
(***************************************************************************)
(* Small instances of CheckoutRC, with the two sessions a lost update      *)
(* takes: one order refunded at most once, or two orders for one phone.    *)
(***************************************************************************)
EXTENDS CheckoutRC, TLC

CONSTANTS o1, o2, i1, m1, r1, s1, s2

MCSellerOf  == (i1 :> m1)
MCTotal     == (i1 :> 1)
MCOneOrder  == (o1 :> i1)
MCTwoOrders == (o1 :> i1 @@ o2 :> i1)
MCRefundOf  == (r1 :> o1)
MCSymmetry  == Permutations({s1, s2})
=============================================================================
