------------------------------ MODULE MCAppraisal -----------------------------
(***************************************************************************)
(* A small instance of Appraisal: four variants, of which one shows two    *)
(* phones or more, and samples of up to 36 comparables of other sources    *)
(* with outliers on both sides.                                            *)
(***************************************************************************)
EXTENDS Appraisal

MCVariants == <<"16 Pro 128", "16 Pro 256", "17 Pro 128", "17 Pro 256">>

MCCard(id, variant, price, used, state) ==
  [id |-> id, variant |-> variant, price |-> price, used |-> used, status |-> state]

MCPages ==
  [v \in {MCVariants[n] : n \in 1 .. 4} |->
     IF v # "16 Pro 256" THEN {<<>>}
     ELSE {<<>>,
           <<MCCard("a", v, 10, TRUE, "active"), MCCard("b", v, 4, TRUE, "active"),
             MCCard("c", v, 9, TRUE, "active")>>,
           <<MCCard("a", v, 40, TRUE, "active"), MCCard("b", v, 4, FALSE, "active"),
             MCCard("c", "16 Pro 128", 9, TRUE, "active")>>,
           <<MCCard("a", v, 0, TRUE, "active"), MCCard("c", v, 9, TRUE, "sold")>>}]

MCLiquidity ==
  LET table == <<20, 31, 40, 46, 52, 56, 60, 63, 67, 69, 72, 74, 76, 78, 80, 82, 84, 85, 87,
                 88, 90, 91, 92, 93, 94, 95, 97, 98, 99, 100>>
  IN  [n \in 0 .. 30 |-> IF n = 0 THEN 0 ELSE table[n]]

\* None, one or six comparables at each price.
MCOtherSamples == [{4, 9, 10, 11, 40} -> {0, 1, 6}]
=============================================================================
