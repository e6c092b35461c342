------------------------------- MODULE MCMarket -------------------------------
(***************************************************************************)
(* A small instance of Market: two listings of two sources that are one    *)
(* phone at some prices, and a watchlist whose page holds one of them.     *)
(***************************************************************************)
EXTENDS Market

CONSTANTS j1, j2, w1

MCSourceOf   == <<"carousell", "price.com.hk">>
MCDistrictOf == <<"Kowloon", "Kowloon">>
MCAlike      == {<<1, 2>>, <<2, 1>>}
MCCollected  == <<100, 100>>
MCLimit      == [w \in {w1} |-> 104]
=============================================================================
