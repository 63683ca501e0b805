---------------------------- MODULE Undelegation ----------------------------
(***************************************************************************)
(* The undelegation side of the liquidstakeibc keeper hooks: what the end  *)
(* of an undelegation epoch does, ValidatorUndelegationWorkflow and then   *)
(* UndelegationWorkflow, and the branch of OnRecvIBCTransferPacket that    *)
(* settles unbondings when their tokens come back.                         *)
(*                                                                         *)
(* Both workflows send interchain-account transactions on the channel of   *)
(* the chain's delegation account.  Whether that channel is open is state  *)
(* of the environment: GenerateAndExecuteICATx fails while it is closed.   *)
(***************************************************************************)
EXTENDS Integers, FiniteSets, Sequences, FiniteSetsExt, SequencesExt, TLC

CONSTANTS
    HostChains,                \* GetAllHostChains: the chains in store order
    ValidatorList,             \* hc.Validators: the validators in list order
    UnbondingFactor,           \* hc.UnbondingFactor of every host chain
    UnbondingStateEpochLimit,  \* epochs a validator may stay unbonding
    Delegations,               \* the DelegatedAmount a validator may have
    Amounts,                   \* the amounts of an unstake
    MaxEpoch,                  \* bound: the undelegation epoch stops here
    MaxUnbond,                 \* bound: the amount of one unbonding
    Nil                        \* the empty IbcSequenceId

Chains     == ToSet(HostChains)
Validators == ToSet(ValidatorList)

ASSUME /\ Len(HostChains) = Cardinality(Chains)
       /\ Len(ValidatorList) = Cardinality(Validators)
       /\ UnbondingFactor \in [Chains -> Nat \ {0}]
       /\ UnbondingStateEpochLimit \in Nat
       /\ Delegations \subseteq Nat /\ Amounts \subseteq Nat
       /\ MaxEpoch \in Nat /\ MaxUnbond \in Nat

VARIABLES
    epoch,                \* current undelegation epoch
    active,               \* hc.Active of every host chain
    icaOpen,              \* the delegation account's ICA channel is open
    icaSequence,          \* next sequence of every chain's ICA channel
    validators,           \* of every chain: the validators' fields read here
    unbondings,           \* the Unbonding records, keyed by <<chain, epoch>>
    validatorUnbondings,  \* ValidatorUnbonding records, <<chain, val, epoch>>
    arriving,             \* transfers of unbonded tokens on their way back
    undelegationAccount,  \* tokens of every chain in the undelegation account
    undelegateMsgs        \* what the MsgUndelegate of the last epoch end ask
                          \* of every validator of every chain

vars == <<epoch, active, icaOpen, icaSequence, validators, unbondings,
          validatorUnbondings, arriving, undelegationAccount, undelegateMsgs>>

UNBONDING_PENDING   == "UNBONDING_PENDING"
UNBONDING_INITIATED == "UNBONDING_INITIATED"
UNBONDING_MATURED   == "UNBONDING_MATURED"
UNBONDING_CLAIMABLE == "UNBONDING_CLAIMABLE"
UNBONDING_FAILED    == "UNBONDING_FAILED"

UnbondingStates ==
    {UNBONDING_PENDING, UNBONDING_INITIATED, UNBONDING_MATURED,
     UNBONDING_CLAIMABLE, UNBONDING_FAILED}

(***************************************************************************)
(* The epochs of a host chain.                                             *)
(***************************************************************************)
IsUnbondingEpoch(factor, e) == e % factor = 0

\* The bucket an unstake of epoch e goes to: the next unbonding epoch.
CurrentUnbondingEpoch(factor, e) == ((e + factor - 1) \div factor) * factor

\* The chains a workflow of this epoch works on.
Unbonds(c, e) == active[c] /\ IsUnbondingEpoch(UnbondingFactor[c], e)

(***************************************************************************)
(* ValidatorUndelegationWorkflow.  The loops run over the chains and their *)
(* validators in order; every validator that has been unbonding for the    *)
(* limit of epochs is one transaction undelegating all it has.  The first  *)
(* transaction that cannot be sent ends the workflow.                      *)
(***************************************************************************)
IsDue(c, v, e) ==
    /\ validators[c][v].unbondingEpoch > 0
    /\ validators[c][v].unbondingEpoch + UnbondingStateEpochLimit <= e

DueOf(c, e) ==
    SelectSeq([i \in DOMAIN ValidatorList |-> <<c, ValidatorList[i]>>],
              LAMBDA p : IsDue(c, p[2], e))

\* The validators to unbond, in the order the loops reach them.
Due(e) ==
    FlattenSeq([i \in DOMAIN HostChains |->
                   IF Unbonds(HostChains[i], e)
                   THEN DueOf(HostChains[i], e)
                   ELSE <<>>])

\* Those reached before the first transaction that fails.
Started(e) ==
    LET due == Due(e) IN
    SubSeq(due, 1, Max({n \in 0..Len(due) :
                           \A j \in 1..n : icaOpen[due[j][1]]}))

StartedOn(c, e) == {p \in ToSet(Started(e)) : p[1] = c}

\* The channel hands out its sequences in the order of the transactions.
ValidatorSequence(started, p) ==
    LET i == CHOOSE j \in DOMAIN started : started[j] = p IN
    icaSequence[p[1]]
        + Cardinality({j \in 1..(i - 1) : started[j][1] = p[1]})

\* The weight of the validator goes to the validators that have weight.
RedistributeValidatorWeight(vals, c, v) ==
    [vals EXCEPT ![c][v].weighted = FALSE]

ValidatorUndelegationWorkflow(e) ==
    LET started == Started(e) IN
    [validatorUnbondings |->
        [k \in {<<p[1], p[2], e>> : p \in ToSet(started)} |->
            [amount |-> validators[k[1]][k[2]].delegated,
             seq    |-> <<k[1], ValidatorSequence(started, <<k[1], k[2]>>)>>]]
        @@ validatorUnbondings,
     validators |->
        FoldLeft(LAMBDA vals, p : RedistributeValidatorWeight(vals, p[1], p[2]),
                 validators, started),
     icaSequence |->
        [c \in Chains |-> icaSequence[c] + Cardinality(StartedOn(c, e))]]

(***************************************************************************)
(* UndelegationWorkflow.  On every chain that unbonds in this epoch, the   *)
(* unbonding of the epoch, if it has anything to unbond, is one transaction*)
(* of undelegate messages.  If the messages cannot be generated or the     *)
(* transaction cannot be sent, the unbonding has failed.                   *)
(***************************************************************************)
\* GenerateUndelegateMessages: the amount, split over the validators of the
\* chain so that none is asked for more than its DelegatedAmount.
GenerateUndelegateMessages(c, amount) ==
    {msgs \in [Validators -> 0..amount] :
        /\ \A v \in Validators : msgs[v] <= validators[c][v].delegated
        /\ MapThenSumSet(LAMBDA v : msgs[v], Validators) = amount}

\* It fails unless the delegations cover the amount.
CanAllocate(c, amount) ==
    amount <= MapThenSumSet(LAMBDA v : validators[c][v].delegated, Validators)

ToUnbond(e) ==
    {k \in DOMAIN unbondings :
        /\ k[2] = e
        /\ Unbonds(k[1], e)
        /\ unbondings[k].amount > 0}

Initiated(e) ==
    {k \in ToUnbond(e) :
        CanAllocate(k[1], unbondings[k].amount) /\ icaOpen[k[1]]}

\* Faulty variant: the first unbonding that fails ends the workflow.
UndelegationWorkflowAborting(e, sequences) ==
    LET Rank(c) == CHOOSE i \in DOMAIN HostChains : HostChains[i] = c
        reached == {k \in ToUnbond(e) :
                      \A j \in ToUnbond(e) :
                          Rank(j[1]) < Rank(k[1]) => j \in Initiated(e)}
    IN
    [unbondings |->
        [k \in DOMAIN unbondings |->
            IF k \in Initiated(e) \cap reached
            THEN [unbondings[k] EXCEPT !.state = UNBONDING_INITIATED,
                                       !.seq = <<k[1], sequences[k[1]]>>]
            ELSE IF k \in reached
            THEN [unbondings[k] EXCEPT !.state = UNBONDING_FAILED]
            ELSE unbondings[k]],
     icaSequence |->
        [c \in Chains |->
            sequences[c]
                + Cardinality({k \in Initiated(e) \cap reached : k[1] = c})]]

\* sequences: the next sequence of every ICA channel as the workflow starts.
UndelegationWorkflow(e, sequences) ==
    [unbondings |->
        [k \in DOMAIN unbondings |->
            IF k \in Initiated(e)
            THEN [unbondings[k] EXCEPT !.state = UNBONDING_INITIATED,
                                       !.seq = <<k[1], sequences[k[1]]>>]
            ELSE IF k \in ToUnbond(e)
            THEN [unbondings[k] EXCEPT !.state = UNBONDING_FAILED]
            ELSE unbondings[k]],
     icaSequence |->
        [c \in Chains |->
            sequences[c] + Cardinality({k \in Initiated(e) : k[1] = c})]]

(***************************************************************************)
(* AfterEpochEnd of the undelegation epoch, and the scheduler's tick.      *)
(***************************************************************************)
\* The MsgUndelegate of ValidatorUndelegationWorkflow: all a started
\* validator has.
ForcedUndelegations(e) ==
    [c \in Chains |-> [v \in Validators |->
        IF <<c, v>> \in StartedOn(c, e) THEN validators[c][v].delegated ELSE 0]]

\* The messages of UndelegationWorkflow: the shares GenerateUndelegateMessages
\* made of the unbonding of the epoch, if its transaction was sent.
AllocatedUndelegations(e, shares) ==
    [c \in Chains |-> [v \in Validators |->
        IF <<c, e>> \in Initiated(e) THEN shares[c][v] ELSE 0]]

\* What the transactions of both workflows ask of every validator.
UndelegateMessages(e, shares) ==
    [c \in Chains |-> [v \in Validators |->
        ForcedUndelegations(e)[c][v] + AllocatedUndelegations(e, shares)[c][v]]]

AfterEpochEnd(epochNumber) ==
    LET forced      == ValidatorUndelegationWorkflow(epochNumber)
        undelegated == UndelegationWorkflow(epochNumber, forced.icaSequence)
    IN  /\ validatorUnbondings' = forced.validatorUnbondings
        /\ validators' = forced.validators
        /\ unbondings' = undelegated.unbondings
        /\ icaSequence' = undelegated.icaSequence
        /\ \E shares \in [Chains -> [Validators -> 0..MaxUnbond]] :
              /\ \A c \in Chains :
                    shares[c] \in
                        IF <<c, epochNumber>> \in Initiated(epochNumber)
                        THEN GenerateUndelegateMessages(
                                 c, unbondings[<<c, epochNumber>>].amount)
                        ELSE {[v \in Validators |-> 0]}
              /\ undelegateMsgs' = UndelegateMessages(epochNumber, shares)

EpochTick ==
    /\ epoch < MaxEpoch
    /\ AfterEpochEnd(epoch)
    /\ epoch' = epoch + 1
    /\ UNCHANGED <<active, icaOpen, arriving, undelegationAccount>>

(***************************************************************************)
(* OnRecvIBCTransferPacket, for a transfer from the delegation account of  *)
(* host chain c to the undelegation module account: the unbonded tokens    *)
(* have come back, and every matured unbonding of the chain is claimable.  *)
(***************************************************************************)
FilterUnbondings(c, state) ==
    {k \in DOMAIN unbondings : k[1] = c /\ unbondings[k].state = state}

\* Faulty variant: the unbondings are not filtered by their state.
OnRecvUnbondingOfAnyState(c) ==
    unbondings' =
        [k \in DOMAIN unbondings |->
            IF k[1] = c
            THEN [unbondings[k] EXCEPT !.state = UNBONDING_CLAIMABLE,
                                       !.seq = Nil]
            ELSE unbondings[k]]

\* Faulty variant: only the unbondings still unbonding are looked for.
OnRecvUnbondingOfInitiated(c) ==
    unbondings' =
        [k \in DOMAIN unbondings |->
            IF k \in FilterUnbondings(c, UNBONDING_INITIATED)
            THEN [unbondings[k] EXCEPT !.state = UNBONDING_CLAIMABLE,
                                       !.seq = Nil]
            ELSE unbondings[k]]

\* Faulty variant: the sequence id of a settled unbonding is not cleared.
OnRecvUnbondingKeepingId(c) ==
    unbondings' =
        [k \in DOMAIN unbondings |->
            IF k \in FilterUnbondings(c, UNBONDING_MATURED)
            THEN [unbondings[k] EXCEPT !.state = UNBONDING_CLAIMABLE]
            ELSE unbondings[k]]

OnRecvUnbonding(c) ==
    unbondings' =
        [k \in DOMAIN unbondings |->
            IF k \in FilterUnbondings(c, UNBONDING_MATURED)
            THEN [unbondings[k] EXCEPT !.state = UNBONDING_CLAIMABLE,
                                       !.seq = Nil]
            ELSE unbondings[k]]

\* The transfer module mints the tokens to the receiver, then calls the hook.
Deliver(t) ==
    /\ t \in arriving
    /\ arriving' = arriving \ {t}
    /\ undelegationAccount' =
          [undelegationAccount EXCEPT ![t.chain] = @ + t.amount]
    /\ OnRecvUnbonding(t.chain)
    /\ UNCHANGED <<epoch, active, icaOpen, icaSequence, validators,
                   validatorUnbondings, undelegateMsgs>>

(***************************************************************************)
(* What users, the host chains and the chain's authority do.               *)
(***************************************************************************)
\* A user unstakes: the amount joins the unbonding of the next unbonding
\* epoch of the chain.
LiquidUnstake(c, amount) ==
    LET k == <<c, CurrentUnbondingEpoch(UnbondingFactor[c], epoch)>> IN
    /\ k[2] <= MaxEpoch
    /\ IF k \in DOMAIN unbondings
       THEN /\ unbondings[k].amount + amount <= MaxUnbond
            /\ unbondings' = [unbondings EXCEPT ![k].amount = @ + amount]
       ELSE unbondings' =
                (k :> [amount |-> amount, state |-> UNBONDING_PENDING,
                       seq |-> Nil]) @@ unbondings
    /\ UNCHANGED <<epoch, active, icaOpen, icaSequence, validators,
                   validatorUnbondings, arriving, undelegationAccount,
                   undelegateMsgs>>

\* The unbonding period of an initiated unbonding has passed on the host
\* chain, and its tokens are sent back to the undelegation account.
Mature(k) ==
    /\ k \in DOMAIN unbondings
    /\ unbondings[k].state = UNBONDING_INITIATED
    /\ unbondings' = [unbondings EXCEPT ![k].state = UNBONDING_MATURED]
    /\ arriving' = arriving \cup
          {[chain |-> k[1], epoch |-> k[2], amount |-> unbondings[k].amount]}
    /\ UNCHANGED <<epoch, active, icaOpen, icaSequence, validators,
                   validatorUnbondings, undelegationAccount, undelegateMsgs>>

\* A validator of the host chain stops being bonded: it is marked with the
\* epoch in which that is seen.
MarkUnbonding(c, v) ==
    /\ validators[c][v].unbondingEpoch = 0
    /\ validators' = [validators EXCEPT ![c][v].unbondingEpoch = epoch]
    /\ UNCHANGED <<epoch, active, icaOpen, icaSequence, unbondings,
                   validatorUnbondings, arriving, undelegationAccount,
                   undelegateMsgs>>

\* The authority switches a host chain on or off.
SetActive(c) ==
    /\ active' = [active EXCEPT ![c] = ~@]
    /\ UNCHANGED <<epoch, icaOpen, icaSequence, validators, unbondings,
                   validatorUnbondings, arriving, undelegationAccount,
                   undelegateMsgs>>

\* The ICA channel of a chain closes, or is opened again.
SetIcaOpen(c) ==
    /\ icaOpen' = [icaOpen EXCEPT ![c] = ~@]
    /\ UNCHANGED <<epoch, active, icaSequence, validators, unbondings,
                   validatorUnbondings, arriving, undelegationAccount,
                   undelegateMsgs>>

(***************************************************************************)
(* Specification.                                                          *)
(***************************************************************************)
ValidatorRecords ==
    [delegated : Delegations, unbondingEpoch : 0..MaxEpoch,
     weighted : BOOLEAN]

Init ==
    /\ epoch = 1
    /\ active = [c \in Chains |-> TRUE]
    /\ icaOpen = [c \in Chains |-> TRUE]
    /\ icaSequence = [c \in Chains |-> 1]
    /\ validators \in [Chains -> [Validators ->
          {r \in ValidatorRecords : r.unbondingEpoch = 0 /\ r.weighted}]]
    /\ unbondings = <<>>
    /\ validatorUnbondings = <<>>
    /\ arriving = {}
    /\ undelegationAccount = [c \in Chains |-> 0]
    /\ undelegateMsgs = [c \in Chains |-> [v \in Validators |-> 0]]

Next ==
    \/ EpochTick
    \/ \E t \in arriving : Deliver(t)
    \/ \E c \in Chains, a \in Amounts : LiquidUnstake(c, a)
    \/ \E k \in DOMAIN unbondings : Mature(k)
    \/ \E c \in Chains, v \in Validators : MarkUnbonding(c, v)
    \/ \E c \in Chains : SetActive(c)
    \/ \E c \in Chains : SetIcaOpen(c)

Spec == Init /\ [][Next]_vars

Transfers == [chain : Chains, epoch : 1..MaxEpoch, amount : 1..MaxUnbond]

\* The unbonding period of the host chain ends, and the transport delivers
\* the transfer that brings the tokens back.  Nothing is assumed of users,
\* of the authority, of the ICA channel or of the epochs.  There are finitely
\* many unbondings and transfers, so one condition for each kind of step is
\* enough.
FairSpec ==
    /\ Spec
    /\ WF_vars(\E k \in Chains \X (1..MaxEpoch) : Mature(k))
    /\ WF_vars(\E t \in Transfers : Deliver(t))

(***************************************************************************)
(* Properties.                                                             *)
(***************************************************************************)
SequenceIDs == Chains \X (1..(2 * MaxEpoch * (1 + Cardinality(Validators))))

HasSequenceID == {UNBONDING_INITIATED, UNBONDING_MATURED}

\* The variables hold what the store holds: every unbonding is a record of
\* its chain and epoch with a positive amount and carries the id of its
\* transaction exactly from UndelegationWorkflow's SetUnbonding with the id
\* until OnRecvIBCTransferPacket clears it.
TypeOK ==
    /\ epoch \in 1..MaxEpoch
    /\ active \in [Chains -> BOOLEAN]
    /\ icaOpen \in [Chains -> BOOLEAN]
    /\ icaSequence \in [Chains -> Nat]
    /\ validators \in [Chains -> [Validators -> ValidatorRecords]]
    /\ DOMAIN unbondings \subseteq Chains \X (1..MaxEpoch)
    /\ \A k \in DOMAIN unbondings :
          /\ unbondings[k].amount \in 1..MaxUnbond
          /\ unbondings[k].state \in UnbondingStates
          /\ IF unbondings[k].state \in HasSequenceID
             THEN unbondings[k].seq \in SequenceIDs /\ unbondings[k].seq[1] = k[1]
             ELSE unbondings[k].seq = Nil
    /\ DOMAIN validatorUnbondings \subseteq Chains \X Validators \X (1..MaxEpoch)
    /\ \A k \in DOMAIN validatorUnbondings :
          /\ validatorUnbondings[k].amount \in Delegations
          /\ validatorUnbondings[k].seq \in SequenceIDs
    /\ arriving \subseteq Transfers
    /\ undelegationAccount \in [Chains -> Nat]
    /\ undelegateMsgs \in [Chains -> [Validators -> Nat]]

\* The steps an unbonding may take.
UnbondingSteps ==
    {<<UNBONDING_PENDING, UNBONDING_INITIATED>>,
     <<UNBONDING_PENDING, UNBONDING_FAILED>>,
     <<UNBONDING_INITIATED, UNBONDING_MATURED>>,
     <<UNBONDING_MATURED, UNBONDING_CLAIMABLE>>}

\* An unbonding follows its state machine, and what it unbonds is fixed
\* when it leaves the pending state: UndelegationWorkflow moves only the
\* unbonding of the epoch that ends, in the tick in which that epoch ends,
\* users' unstakes join only unbondings that are still to be initiated, and
\* OnRecvIBCTransferPacket settles only unbondings that have matured.
UnbondingLifecycle ==
    [][\A k \in DOMAIN unbondings :
          /\ k \in DOMAIN unbondings'
          /\ unbondings'[k].state # unbondings[k].state =>
                <<unbondings[k].state, unbondings'[k].state>> \in UnbondingSteps
          /\ unbondings[k].state = UNBONDING_PENDING
                /\ unbondings'[k].state # UNBONDING_PENDING =>
                      k[2] = epoch /\ epoch' = epoch + 1
          /\ unbondings[k].state # UNBONDING_PENDING =>
                unbondings'[k].amount = unbondings[k].amount]_vars

\* UndelegationWorkflow's loop continues past a chain that fails: at the
\* end of an epoch the unbonding of every active chain that unbonds in it
\* is initiated when its transaction can be built and sent, and has failed
\* when not, whatever happens to the unbondings of the other chains.
UndelegationFailureIsLocal ==
    [][epoch' = epoch + 1 =>
          \A k \in DOMAIN unbondings :
              k[2] = epoch /\ Unbonds(k[1], epoch) =>
                  unbondings'[k].state =
                      IF icaOpen[k[1]] /\ CanAllocate(k[1], unbondings[k].amount)
                      THEN UNBONDING_INITIATED
                      ELSE UNBONDING_FAILED]_vars

\* What the design says of ValidatorUndelegationWorkflow: a transaction
\* that cannot be sent ends the pass of that chain, so every due validator
\* of another chain, whose channel is open, is force-unbonded in the tick.
ValidatorFailureIsLocal ==
    [][epoch' = epoch + 1 =>
          \A c \in Chains, v \in Validators :
              Unbonds(c, epoch) /\ icaOpen[c] /\ IsDue(c, v, epoch) =>
                  <<c, v, epoch>> \in DOMAIN validatorUnbondings']_vars

Is(k, state) == k \in DOMAIN unbondings /\ unbondings[k].state = state

\* The unbondings an epoch end can work on: those of the unbonding epochs of
\* their chain that end within the bound.
Workable ==
    {k \in Chains \X (1..(MaxEpoch - 1)) :
        IsUnbondingEpoch(UnbondingFactor[k[1]], k[2])}

\* Stakers get their tokens: an unbonding whose transaction was sent becomes
\* claimable, because OnRecvIBCTransferPacket finds it matured when the
\* transfer of its tokens, or a later one of its chain, is delivered,
\* whatever epochs end, channels close or chains are switched off meanwhile.
InitiatedBecomesClaimable ==
    \A k \in Workable :
        Is(k, UNBONDING_INITIATED) ~> Is(k, UNBONDING_CLAIMABLE)

\* What the design says of GenerateUndelegateMessages, "none exceeds its
\* own di", and the comment in ValidatorUndelegationWorkflow, "unbond all
\* delegated tokens from the validator": the transactions that the end of one
\* epoch sends to a host chain never ask of a validator more than is
\* delegated to it, so the host chain can carry out all of them.
UndelegateWithinDelegation ==
    \A c \in Chains, v \in Validators :
        undelegateMsgs[c][v] <= validators[c][v].delegated

Claimable(c) == FilterUnbondings(c, UNBONDING_CLAIMABLE)

\* What the comment in OnRecvIBCTransferPacket says, "get all the
\* unbondings for that ibc sequence id": a transfer settles the unbondings
\* whose tokens it brings, so what is claimable on a chain has arrived in
\* the undelegation account.
ClaimableIsBacked ==
    \A c \in Chains :
        MapThenSumSet(LAMBDA k : unbondings[k].amount, Claimable(c))
            <= undelegationAccount[c]

=============================================================================
