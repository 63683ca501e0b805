--------------------------- MODULE MCUndelegation ---------------------------
(***************************************************************************)
(* Undelegation for TLC.  Two host chains, the first unbonding in every    *)
(* epoch and the second in every other one, show what the chains do to one *)
(* another; one host chain with two validators shows the loop over the     *)
(* validators of a chain.                                                  *)
(***************************************************************************)
EXTENDS Undelegation

CONSTANTS c1, c2, v1, v2

OneChain == <<c1>>

TwoChains == <<c1, c2>>

OneValidator == <<v1>>

TwoValidators == <<v1, v2>>

\* The first chain unbonds twice as often as the second.
Factors == (c1 :> 1) @@ (c2 :> 2)

EveryEpoch == (c1 :> 1)

=============================================================================
