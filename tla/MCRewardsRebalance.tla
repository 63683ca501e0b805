------------------------- MODULE MCRewardsRebalance -------------------------
(***************************************************************************)
(* RewardsRebalance for TLC: two host chains, the first unbonding in every *)
(* second epoch and the second in every third one; only the first has      *)
(* reward parameters.                                                      *)
(***************************************************************************)
EXTENDS RewardsRebalance, TLC

CONSTANTS c1, c2

TwoChains == <<c1, c2>>

Factors == (c1 :> 2) @@ (c2 :> 3)

OnlyFirst == {c1}

=============================================================================
