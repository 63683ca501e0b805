--------------------------- MODULE DepositLedger ---------------------------
(***************************************************************************)
(* What the deposit side of the keeper promises about the native tokens of *)
(* every host chain, whatever records it keeps to get there.  Tokens are   *)
(* pooled in the deposit module account, in transit to the host chain, or  *)
(* staked there, which is what hc.DelegationAccount.Balance claims.        *)
(* Tokens come in from outside, move from the pool into transit, and from  *)
(* transit either on to the host chain or back into the pool.  Nothing is  *)
(* counted as staked that was not in transit, and nothing in transit is    *)
(* lost or counted twice.                                                  *)
(***************************************************************************)
EXTENDS Integers

CONSTANTS
    Chains,     \* the host chains
    MaxAmount   \* bound: the tokens one step moves on one chain

VARIABLES
    pooled,     \* tokens of every chain in the deposit module account
    inTransit,  \* tokens of every chain escrowed by a transfer in flight
    staked      \* tokens of every chain known to have arrived

ledger == <<pooled, inTransit, staked>>

Amounts == 1..MaxAmount

\* Tokens arrive in the pool: a stake, or an inbound transfer less its fee.
Collect(c, a) ==
    /\ pooled' = [pooled EXCEPT ![c] = @ + a]
    /\ UNCHANGED <<inTransit, staked>>

\* One epoch tick sends d[c] pooled tokens of every chain c on their way.
Dispatch(d) ==
    /\ \A c \in Chains : d[c] <= pooled[c]
    /\ pooled' = [c \in Chains |-> pooled[c] - d[c]]
    /\ inTransit' = [c \in Chains |-> inTransit[c] + d[c]]
    /\ UNCHANGED staked

\* A transfer of a tokens is confirmed by the host chain.
Confirm(c, a) ==
    /\ a <= inTransit[c]
    /\ inTransit' = [inTransit EXCEPT ![c] = @ - a]
    /\ staked' = [staked EXCEPT ![c] = @ + a]
    /\ UNCHANGED pooled

\* A transfer of a tokens is refused or times out: the tokens come back.
Return(c, a) ==
    /\ a <= inTransit[c]
    /\ inTransit' = [inTransit EXCEPT ![c] = @ - a]
    /\ pooled' = [pooled EXCEPT ![c] = @ + a]
    /\ UNCHANGED staked

Init ==
    /\ pooled = [c \in Chains |-> 0]
    /\ inTransit = [c \in Chains |-> 0]
    /\ staked = [c \in Chains |-> 0]

Next ==
    \/ \E c \in Chains, a \in Amounts : Collect(c, a) \/ Confirm(c, a) \/ Return(c, a)
    \/ \E d \in [Chains -> 0..MaxAmount] : Dispatch(d)

Spec == Init /\ [][Next]_ledger

=============================================================================
