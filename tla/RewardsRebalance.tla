-------------------------- MODULE RewardsRebalance --------------------------
(***************************************************************************)
(* The two workflows of the liquidstakeibc keeper hooks that only send:    *)
(* RewardsWorkflow, at the end of a rewards epoch, withdraws the rewards   *)
(* of every host chain and asks for the balances of its rewards account;   *)
(* RebalanceWorkflow, at the end of a redelegation epoch, sends the        *)
(* redelegations that bring the delegations back to the weights and keeps  *)
(* a RedelegateTx of each.                                                 *)
(*                                                                         *)
(* Both send interchain-account transactions on the channel of the chain's *)
(* delegation account, which fails while that channel is closed.           *)
(***************************************************************************)
EXTENDS Integers, FiniteSets, Sequences, SequencesExt

CONSTANTS
    HostChains,        \* GetAllHostChains: the chains in store order
    UnbondingFactor,   \* hc.UnbondingFactor of every host chain
    WithRewardParams,  \* the chains whose hc.RewardParams is set
    MaxMsgs,           \* bound: the messages GenerateRedelegateMsgs returns
    MaxEpoch,          \* bound: both epochs stop here
    MaxSequence        \* bound: the sequences of an ICA channel

Chains == ToSet(HostChains)

ASSUME /\ Len(HostChains) = Cardinality(Chains)
       /\ UnbondingFactor \in [Chains -> Nat \ {0}]
       /\ WithRewardParams \subseteq Chains
       /\ MaxMsgs \in Nat /\ MaxEpoch \in Nat /\ MaxSequence \in Nat

VARIABLES
    rewardsEpoch,       \* current rewards epoch
    redelegationEpoch,  \* current redelegation epoch
    active,             \* hc.Active of every host chain
    delegated,          \* some validator of the chain has a DelegatedAmount
    rewardsChannel,     \* hc.RewardsAccount is there, its channel created
    icaOpen,            \* the delegation account's ICA channel is open
    icaSequence,        \* next sequence of every chain's ICA channel
    outbox,             \* what the last RewardsWorkflow sent for every chain
    redelegations       \* the RedelegateTx records, keyed by their id

vars == <<rewardsEpoch, redelegationEpoch, active, delegated, rewardsChannel,
          icaOpen, icaSequence, outbox, redelegations>>

WITHDRAW_REWARDS          == "MsgWithdrawDelegatorReward"
QUERY_BALANCE             == "QueryRewardsHostChainAccountBalance"
QUERY_NON_COMPOUNDABLE    == "QueryNonCompoundableRewardsHostChainAccountBalance"
REDELEGATE_SENT           == "REDELEGATE_SENT"

Queries == {QUERY_BALANCE, QUERY_NON_COMPOUNDABLE}

IsUnbondingEpoch(factor, e) == e % factor = 0

(***************************************************************************)
(* RewardsWorkflow.  Per active chain: one transaction that withdraws from *)
(* every validator with a delegation, then the balance queries.  A chain   *)
(* whose transaction cannot be sent is left, its queries included.         *)
(***************************************************************************)
Withdraws(c) == active[c] /\ delegated[c] /\ icaOpen[c]

\* The queries RewardsWorkflow issues for chain c.
QueriesOf(c) ==
    IF rewardsChannel[c]
    THEN {QUERY_BALANCE} \cup
            (IF c \in WithRewardParams THEN {QUERY_NON_COMPOUNDABLE} ELSE {})
    ELSE {}

\* Faulty variant: a chain is queried after its transaction has failed.
AsksQueryingAfterFailure(c) ==
    IF active[c] THEN QueriesOf(c) ELSE {}

Asks(c) ==
    IF active[c] /\ (delegated[c] => icaOpen[c]) THEN QueriesOf(c) ELSE {}

\* lost: the queries that could not be sent, which is logged and no more.
RewardsWorkflow(lost) ==
    [outbox |->
        [c \in Chains |->
            (IF Withdraws(c) THEN {WITHDRAW_REWARDS} ELSE {})
                \cup (Asks(c) \ lost[c])],
     icaSequence |->
        [c \in Chains |-> icaSequence[c] + (IF Withdraws(c) THEN 1 ELSE 0)]]

(***************************************************************************)
(* RebalanceWorkflow.  Per chain that is not in an unbonding epoch: every  *)
(* message of GenerateRedelegateMsgs is a transaction of its own.  One     *)
(* that cannot be sent is logged and left; every one that is sent takes    *)
(* the next sequence of the channel and leaves a RedelegateTx with its id. *)
(***************************************************************************)
\* The chains that are rebalanced.  hc.Active is not looked at.
Rebalances(c, e) == ~IsUnbondingEpoch(UnbondingFactor[c], e)

\* The transactions of chain c the channel takes: of msgs[c] messages,
\* failed[c] cannot be sent.
Submitted(c, e, msgs, failed) ==
    IF Rebalances(c, e) THEN msgs[c] - failed[c] ELSE 0

\* Faulty variant: a transaction that could not be sent is recorded too.
SentOnKeepingFailed(c, e, msgs, failed) ==
    IF Rebalances(c, e)
    THEN {<<c, s>> : s \in icaSequence[c]..(icaSequence[c] + msgs[c] - 1)}
    ELSE {}

\* Faulty variant: the record is written once, after the loop over the
\* messages, with the id of the last transaction.
SentOnLastOnly(c, e, msgs, failed) ==
    {<<c, s>> : s \in {icaSequence[c] + Submitted(c, e, msgs, failed) - 1}
                         \ {icaSequence[c] - 1}}

\* The ids of the transactions that were sent: the channel's next sequences.
SentOn(c, e, msgs, failed) ==
    {<<c, s>> : s \in icaSequence[c]
                        ..(icaSequence[c] + Submitted(c, e, msgs, failed) - 1)}

\* msgs: how many messages GenerateRedelegateMsgs returns for every chain;
\* failed: how many of them GenerateAndExecuteICATx does not send.
RebalanceWorkflow(e, msgs, failed) ==
    LET sent == UNION {SentOn(c, e, msgs, failed) : c \in Chains} IN
    [redelegations |->
        [k \in DOMAIN redelegations \cup sent |-> REDELEGATE_SENT],
     icaSequence |->
        [c \in Chains |-> icaSequence[c] + Submitted(c, e, msgs, failed)]]

(***************************************************************************)
(* AfterEpochEnd of the rewards and of the redelegation epoch.             *)
(***************************************************************************)
HasRoom(sequences) == \A c \in Chains : sequences[c] <= MaxSequence + 1

RewardsTick ==
    /\ rewardsEpoch < MaxEpoch
    /\ \E lost \in [Chains -> SUBSET Queries] :
          LET done == RewardsWorkflow(lost) IN
          /\ HasRoom(done.icaSequence)
          /\ outbox' = done.outbox
          /\ icaSequence' = done.icaSequence
    /\ rewardsEpoch' = rewardsEpoch + 1
    /\ UNCHANGED <<redelegationEpoch, active, delegated, rewardsChannel,
                   icaOpen, redelegations>>

\* What may fail of msgs: nothing is sent on a closed channel, and on an
\* open one any of the transactions may still be refused.
Failures(msgs) ==
    {failed \in [Chains -> 0..MaxMsgs] :
        \A c \in Chains :
            /\ failed[c] <= msgs[c]
            /\ ~icaOpen[c] => failed[c] = msgs[c]}

RedelegationTick ==
    /\ redelegationEpoch < MaxEpoch
    /\ \E msgs \in [Chains -> 0..MaxMsgs] :
          \E failed \in Failures(msgs) :
              LET done == RebalanceWorkflow(redelegationEpoch, msgs, failed) IN
              /\ \A c \in Chains : icaSequence[c] + msgs[c] <= MaxSequence + 1
              /\ redelegations' = done.redelegations
              /\ icaSequence' = done.icaSequence
    /\ redelegationEpoch' = redelegationEpoch + 1
    /\ UNCHANGED <<rewardsEpoch, active, delegated, rewardsChannel, icaOpen,
                   outbox>>

(***************************************************************************)
(* What the chain's authority, the stakers and the relayers do.            *)
(***************************************************************************)
SetActive(c) ==
    /\ active' = [active EXCEPT ![c] = ~@]
    /\ UNCHANGED <<rewardsEpoch, redelegationEpoch, delegated, rewardsChannel,
                   icaOpen, icaSequence, outbox, redelegations>>

\* The first delegation to a validator of the chain is confirmed.
Delegate(c) ==
    /\ ~delegated[c]
    /\ delegated' = [delegated EXCEPT ![c] = TRUE]
    /\ UNCHANGED <<rewardsEpoch, redelegationEpoch, active, rewardsChannel,
                   icaOpen, icaSequence, outbox, redelegations>>

\* The channel of the rewards account is created.
CreateRewardsChannel(c) ==
    /\ ~rewardsChannel[c]
    /\ rewardsChannel' = [rewardsChannel EXCEPT ![c] = TRUE]
    /\ UNCHANGED <<rewardsEpoch, redelegationEpoch, active, delegated,
                   icaOpen, icaSequence, outbox, redelegations>>

\* The ICA channel of the delegation account closes, or is opened again.
SetIcaOpen(c) ==
    /\ icaOpen' = [icaOpen EXCEPT ![c] = ~@]
    /\ UNCHANGED <<rewardsEpoch, redelegationEpoch, active, delegated,
                   rewardsChannel, icaSequence, outbox, redelegations>>

(***************************************************************************)
(* Specification.                                                          *)
(***************************************************************************)
Init ==
    /\ rewardsEpoch = 1
    /\ redelegationEpoch = 1
    /\ active = [c \in Chains |-> TRUE]
    /\ delegated = [c \in Chains |-> FALSE]
    /\ rewardsChannel = [c \in Chains |-> FALSE]
    /\ icaOpen = [c \in Chains |-> TRUE]
    /\ icaSequence = [c \in Chains |-> 1]
    /\ outbox = [c \in Chains |-> {}]
    /\ redelegations = <<>>

Next ==
    \/ RewardsTick
    \/ RedelegationTick
    \/ \E c \in Chains : SetActive(c)
    \/ \E c \in Chains : Delegate(c)
    \/ \E c \in Chains : CreateRewardsChannel(c)
    \/ \E c \in Chains : SetIcaOpen(c)

Spec == Init /\ [][Next]_vars

(***************************************************************************)
(* Properties.                                                             *)
(***************************************************************************)
\* The variables hold what the store and the channels hold; the ids of the
\* RedelegateTx records of a chain are the sequences RebalanceWorkflow got
\* from the chain's channel, all below the channel's next sequence.
TypeOK ==
    /\ rewardsEpoch \in 1..MaxEpoch
    /\ redelegationEpoch \in 1..MaxEpoch
    /\ active \in [Chains -> BOOLEAN]
    /\ delegated \in [Chains -> BOOLEAN]
    /\ rewardsChannel \in [Chains -> BOOLEAN]
    /\ icaOpen \in [Chains -> BOOLEAN]
    /\ icaSequence \in [Chains -> 1..(MaxSequence + 1)]
    /\ outbox \in [Chains -> SUBSET ({WITHDRAW_REWARDS} \cup Queries)]
    /\ DOMAIN redelegations \subseteq Chains \X (1..MaxSequence)
    /\ \A k \in DOMAIN redelegations :
          redelegations[k] = REDELEGATE_SENT /\ k[2] < icaSequence[k[1]]

\* RewardsWorkflow asks for the balances of a rewards account only after
\* the rewards of the chain were withdrawn or there was nothing to
\* withdraw: the continue after a failed GenerateAndExecuteICATx skips the
\* queries, so a balance never comes back for rewards that were not asked
\* for in this epoch, and a chain that is switched off gets nothing.
QueriesFollowWithdrawal ==
    [][rewardsEpoch' = rewardsEpoch + 1 =>
          \A c \in Chains :
              outbox'[c] \cap Queries # {} =>
                  /\ active[c]
                  /\ rewardsChannel[c]
                  /\ delegated[c] => WITHDRAW_REWARDS \in outbox'[c]]_vars

New(c) == {k \in DOMAIN redelegations' \ DOMAIN redelegations : k[1] = c}

\* What the design says of a RedelegateTx, "one per submitted redelegation
\* message": the records RebalanceWorkflow makes at the end of a
\* redelegation epoch are those of the sequences the chain's channel handed
\* out in that tick, whichever of the messages could not be sent and
\* whatever RewardsWorkflow has sent on the same channel between two
\* redelegation epochs, and a record that was made is never touched again.
\* An acknowledgement finds its RedelegateTx by that id.
OneRedelegateTxPerSubmission ==
    [][/\ \A c \in Chains :
             New(c) =
                 IF redelegationEpoch' = redelegationEpoch + 1
                 THEN {<<c, s>> : s \in icaSequence[c]..(icaSequence'[c] - 1)}
                 ELSE {}
       /\ \A k \in DOMAIN redelegations :
             k \in DOMAIN redelegations'
                 /\ redelegations'[k] = redelegations[k]]_vars

\* What the design says of every pipeline: for an inactive chain no
\* message is generated in any epoch.  RewardsWorkflow looks at hc.Active,
\* RebalanceWorkflow does not.
InactiveChainsGetNoMessages ==
    [][\A c \in Chains :
          ~active[c] =>
              /\ New(c) = {}
              /\ rewardsEpoch' = rewardsEpoch + 1 => outbox'[c] = {}]_vars

=============================================================================
