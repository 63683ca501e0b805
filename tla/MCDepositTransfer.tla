------------------------- MODULE MCDepositTransfer -------------------------
(***************************************************************************)
(* DepositTransfer for TLC.  The host chains are model values; a cfg picks *)
(* how many of them there are and which have the LSM flag.                 *)
(***************************************************************************)
EXTENDS DepositTransfer, TLC

CONSTANTS c1, c2

OneChain  == {c1}
TwoChains == {c1, c2}

\* With the same flags on both, the host chains are interchangeable.
ChainSymmetry == Permutations(TwoChains)

=============================================================================
