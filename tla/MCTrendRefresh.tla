--------------------------- MODULE MCTrendRefresh ---------------------------
(* A small instance of TrendRefresh for TLC: weibo stores one part, x a part *)
(* for each of two regions.                                                  *)
EXTENDS TrendRefresh

CONSTANTS weibo, x, w, us, gb

BothSources == <<weibo, x>>
BothPartsOf == weibo :> {w} @@ x :> {us, gb}
BothTtl == weibo :> 2 @@ x :> 2
Symmetry == Permutations({us, gb})
=============================================================================
