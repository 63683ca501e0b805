# Model checking the liquidstakeibc keeper hooks and the ratesync host chain

This directory holds TLA+ models of the epoch-driven reconciliation engine of
the liquidstakeibc module (`src/unnamed/part_000`, lines 1-947, the keeper's
`hooks.go`) and of the host chain validation of the ratesync module (the same
file, lines 948-1158, `host_chain.go`), with the TLC configurations that check
them.  `PROJECT.json` lists the components, the runs, the map from every
definition to the source lines it stands for, the findings and the hazards.

To check one configuration: `tlc -workers 2 -config <file>.cfg <MC module>`.

## 1. The system

### Parts

| Part | Source | State it owns | Operations |
|---|---|---|---|
| Epoch hooks | `part_000` 27-124 | none of its own | `BeforeEpochStart` (creates the epoch's deposits), `AfterEpochEnd` (dispatches on the epoch identifier) |
| Deposit pipeline | 503-570 | `Deposit` per chain and epoch: amount, state, `IbcSequenceId` | `DepositWorkflow`: prune empty deposits, send one transfer per pending deposit of every active chain |
| LSM pipeline | 854-915 | `LSMDeposit`: shares, state, sequence id | `LSMWorkflow`: one transfer per pending LSM deposit of every active LSM chain |
| Callback reconciler | 128-499 | writes all of the above | `OnRecvIBCTransferPacket`, `OnAcknowledgementIBCTransferPacket`, `OnTimeoutIBCTransferPacket` |
| Undelegation pipeline | 572-687 | `Unbonding` per chain and epoch, `ValidatorUnbonding` | `UndelegationWorkflow` |
| Validator lifecycle manager | 689-775 | validator weight, `UnbondingEpoch` marker | `ValidatorUndelegationWorkflow` |
| Rewards pipeline | 777-852 | none (sends a transaction and two queries) | `RewardsWorkflow` |
| Rebalance pipeline | 918-947 | `RedelegateTx` per chain and sequence id | `RebalanceWorkflow` |
| ratesync host chain | 948-1158 | a `HostChain` with its ICA account and two features | `ValidateBasic`, `IsActive`, the denom tests, `Equals`, the port id helpers |

### Interactions

The epochs module calls `AfterEpochEnd` with an epoch identifier; the hook
runs the workflows of that identifier one after the other, each looping over
all host chains.  A workflow sends IBC transfers or interchain-account
transactions and writes the sequence number the channel returns into the
record it is working on.  Later, in another transaction and in an order the
transport decides, the IBC stack calls the reconciler with an
acknowledgement, a timeout or an inbound packet; the reconciler finds the
records by chain and sequence number and moves them on.  Users stake and
unstake between any two of these steps, and governance switches chains on and
off.

### What makes it hard

* Callbacks arrive in any order relative to epoch ticks and to each other,
  and a sequence number is unique for a channel only.
* Every submission inside a loop may fail; the code uses `continue`,
  `return` and a logged error in different places, and what a failure leaves
  behind differs from one workflow to the next.
* A timed-out deposit goes back to pending and is sent beside its successor.
* The records of several epochs share an account, so a settlement that is
  too generous for one record takes from another.
* Whether a ratesync host chain may be stored is decided by three nested
  validations, each with cases of its own; what must hold of the stored host
  chain has to hold of every value they accept together.

## 2. Modules

| Module | Models | Lines of TLA+ |
|---|---|---|
| `DepositTransfer` | epoch hooks for the delegation epoch, deposit and LSM pipelines, the three transfer callbacks | 640 |
| `DepositLedger` | the abstract ledger the deposit side implements | 64 |
| `Undelegation` | undelegation pipeline, validator lifecycle manager, the unbonding branch of the inbound callback | 487 |
| `RewardsRebalance` | rewards and rebalance pipelines | 271 |
| `RatesyncHostChain` | ratesync host chain validation, port ids and store keys | 338 |
| `MCDepositTransfer`, `MCUndelegation`, `MCRewardsRebalance`, `MCRatesyncHostChain` | the constants for TLC | |

The three keeper modules are separate specifications rather than one
composition.  The workflows of different epoch identifiers share only
`hc.Active` and the ICA channel, which every module has as a variable of its
own with the same environment actions (`SetActive`, `SetIcaOpen`); no
workflow reads a record another pipeline writes.  The two places where they
do touch are recorded as hazards (section 6).

### DepositTransfer

State: `epoch`, `active`, `delegationBalance`, `deposits` (keyed by chain and
epoch), `lsmDeposits`, `nextSequence` per transfer channel, `inFlight` (the
packets sent and not resolved), `settled` (resolved packets, kept so that a
callback can be delivered again), `depositAccount`.

| Action | Code |
|---|---|
| `EpochTick` | `AfterEpochEnd` for the delegation epoch, then `BeforeEpochStart` of the next: `DepositWorkflow`, `LSMWorkflow`, creation of the new deposits, as one step. Each transfer may fail; the set of failing transfers is chosen with `\E`. |
| `OnRecvIBCTransferPacket` | the autocompound and validator-unbonding branches: fee transfer, missing deposit, credit to the deposit of the current epoch |
| `Acknowledge(p)`, `Refuse(p)`, `Timeout(p)` | the transport resolving packet `p` and the hook it calls: a success acknowledgement, an error acknowledgement, a timeout |
| `Redeliver(s)` | a callback for a packet that was already resolved |
| `LiquidStake`, `LiquidStakeLSM` | a user's stake: what the message server adds to the deposit (modelled from the design) |
| `SetActive` | governance switching a chain |

`DepositLedger` has three counters per chain (`pooled`, `inTransit`,
`staked`) and four steps (`Collect`, `Dispatch`, `Confirm`, `Return`).
`DepositTransfer` implements it under the mapping pooled = `depositAccount`,
in transit = the sum of the native packets in flight, staked =
`hc.DelegationAccount.Balance`; `LedgerSpec` is checked as a property.

### Undelegation

State: `epoch`, `active`, `icaOpen`, `icaSequence`, `validators` (weight,
delegated amount, unbonding marker), `unbondings` (keyed by chain and
epoch), `validatorUnbondings`, `arriving` (transfers on their way back to the
undelegation account), `undelegationAccount`, `undelegateMsgs` (what the
`MsgUndelegate` of the last epoch end ask of every validator).

| Action | Code |
|---|---|
| `EpochTick` | `AfterEpochEnd` for the undelegation epoch: `ValidatorUndelegationWorkflow` then `UndelegationWorkflow`, in that order, as one step |
| `Deliver(t)` | `OnRecvIBCTransferPacket`, unbonding branch (160-200) |
| `LiquidUnstake`, `Mature`, `MarkUnbonding` | the message server and the ICA acknowledgement handlers, which are outside the source: they create the pending unbonding, move an initiated one to matured and set a validator's marker |
| `SetActive`, `SetIcaOpen` | governance; the channel closing and reopening |

The `return` of `ValidatorUndelegationWorkflow` at the first failed
submission is `Started`: the longest prefix of the due validators, in list
order over chains and validators, whose channels are open.

`UndelegateMessages` adds up what the two workflows of one epoch end ask of a
validator: `ForcedUndelegations`, its whole `DelegatedAmount` if it was
started (lines 708-729), and `AllocatedUndelegations`, its share of the
epoch's unbonding if the transaction of `UndelegationWorkflow` was sent
(lines 609-640).  The share is any member of `GenerateUndelegateMessages`,
the splits the design allows (they sum to the amount, none above the
validator's delegation); neither workflow changes `DelegatedAmount`, which
the acknowledgement handlers lower later.

An unbonding that cannot be initiated fails from `UNBONDING_PENDING` (lines
619 and 649 write `UNBONDING_FAILED` into the record the workflow has just
read as pending).  The design (4.3) draws that step from the initiated
state; the model follows the code.

### RewardsRebalance

State: `rewardsEpoch`, `redelegationEpoch`, `active`, `delegated`,
`rewardsChannel`, `icaOpen`, `icaSequence`, `outbox` (the messages of the last
pass), `redelegations`.

| Action | Code |
|---|---|
| `RewardsTick` | `RewardsWorkflow`: withdraw transaction, `continue` on its failure, the two queries, each of which may fail on its own |
| `RedelegationTick` | `RebalanceWorkflow`: skip in the chain's unbonding epoch, one transaction per message, `continue` past each one that fails, `SetRedelegationTx` for each one that was sent |
| `SetActive`, `Delegate`, `CreateRewardsChannel`, `SetIcaOpen` | environment |

### RatesyncHostChain

The functions of `host_chain.go` are operators that return `TRUE` for "no
error", or `Err` where the Go function returns an error beside a value.  A
string is a sequence of characters in which each of the two prefixes
(`icacontroller-`, `pstake_ratesync_`) is a single character;
`fmt.Sprintf("%v", id)`, `strconv.ParseUint` and `strings.CutPrefix` are
modelled by what they do (`FormatUint` is recursive).  The state is one host
chain.  It starts as `ValidHostChainInMsg(id)` of the message tests, and
`UpdateHostChain` replaces its connection id, its ICA account or one of its
two features by any value of the type, provided `ValidateBasic` accepts the
result.  The message server is outside the source, so the action is no more
than a way to reach every value that `ValidateBasic` accepts: the value is
judged whole, and the properties of the run are properties of the set of
accepted host chains, not of the order in which they are stored.

The store keys of `src/unnamed/part_001` are sequences of bytes.
`KeyPrefix` turns the characters of a prefix into their ASCII codes
(`Ascii`), `HostChainKey(id)` appends the eight bytes of the id, most
significant first (`PutUint` for `binary.BigEndian.PutUint64`), and
`HostChainIDKey` is the key of the id counter.  `Before` is `bytes.Compare`,
the order in which the store iterates.

## 3. Abstractions

* A transfer channel is identified with its host chain.
* Amounts are small naturals; the shares of an LSM deposit are one unit; the
  restake fee is the fraction `FeeNum / FeeDen` with integer division, as in
  the code.
* A validator's weight is zero or not zero.  `GenerateUndelegateMessages`,
  which is outside the source, is the set of splits the design allows, and
  it fails when there is none (`CanAllocate`); the proportional rule that
  picks one of them is left open.
* In `RewardsRebalance` the validators of a chain are one flag, `delegated`,
  and the messages `GenerateRedelegateMsgs` returns are a number up to
  `MaxMsgs`.
* Whether a submission fails is state of the environment (`icaOpen`) for the
  transactions of the undelegation and rewards workflows and a choice per
  transfer for IBC transfers.  In `RebalanceWorkflow`, which sends several
  transactions for one chain in one pass, it is both: nothing is sent on a
  closed channel, and on an open one any number of the transactions may be
  refused (`Failures`).  A refused transaction takes no sequence, so only
  how many fail matters, not which.
* Events, logging and telemetry are left out.
* The branch of `DepositWorkflow` that fails to decode the response of a
  transfer that succeeded is left out: the router returns what the transfer
  module has just encoded.
* The set of host chains is fixed; registration and removal are outside the
  source.
* `MaxUint` stands for 2^64 - 1: TLC's integers are 32 bits wide, and no id
  of the model comes near either bound.

## 4. Runs

| Run | Configuration | Result | Distinct states |
|---|---|---|---|
| `deposit_pipeline` | `MCDepositTransfer.cfg` | holds | 85,674 |
| `two_chains` | `MCTwoChains.cfg` | holds | 633,527 |
| `refused_transfer` | `MCRefusedTransfer.cfg` | `SentIsResolved` violated | |
| `undelegation` | `MCUndelegation.cfg` | holds | 260,992 |
| `forced_unbonding` | `MCValidators.cfg` | holds | 1,222,716 |
| `validator_abort` | `MCValidatorAbort.cfg` | `ValidatorFailureIsLocal` violated | |
| `matured_transfer` | `MCMaturedTransfer.cfg` | `ClaimableIsBacked` violated | |
| `rewards_rebalance` | `MCRewardsRebalance.cfg` | holds | 224,272 |
| `inactive_rebalance` | `MCInactiveRebalance.cfg` | `InactiveChainsGetNoMessages` violated | |
| `ratesync_host_chain` | `MCRatesyncHostChain.cfg` | holds | 5,248 |
| `undeclared_channel_state` | `MCUndeclaredState.cfg` | `NoFeatureWithoutAccount` violated | |
| `double_undelegation` | `MCDoubleUndelegation.cfg` | `UndelegateWithinDelegation` violated | |

### Properties that hold

`deposit_pipeline` (one LSM chain, three epochs, three packets, under
`FairSpec`):

* `TypeOK`: the shape of the state.
* `PendingIsBacked`: the deposit module account holds at least what the
  pending deposits of a chain say; a timeout puts the tokens and the record
  back together.
* `SentRecordsTrackPackets`: a record has a sequence id exactly while it is
  SENT, and that id is of a packet in flight or of one the host chain
  refused; after a timeout or a success no record waits for the packet.
* `DepositLifecycle` (action property): a record moves forward along its
  state machine, or back to pending on a timeout, and is never re-dated.
* `LedgerSpec`: refinement of `DepositLedger`; a redelivered acknowledgement
  does not credit the delegation account twice.
* `SentIsSettledUnlessRefused` (liveness): a deposit or LSM deposit that is
  SENT leaves that state, unless its transfer was refused by the host chain
  (finding 1).  It is the part of `SentIsResolved` the code keeps: the
  timeout has to find both kinds of record of the packet, also a deposit
  that is sent for the second time.

`two_chains`: `PacketsHaveOneRecord`, with two channels that hand out the
same sequence numbers: every packet in flight has exactly one record, of its
own chain.

`undelegation` (two chains with unbonding factors 1 and 2, one validator
each with or without a delegation, under `FairSpec`):

* `UnbondingLifecycle` (action property): an unbonding follows its state
  machine and its amount is fixed once it leaves the pending state; only the
  unbonding of the epoch that ends is taken up, in the tick in which that
  epoch ends, and only matured unbondings are settled by an inbound
  transfer.
* `UndelegationFailureIsLocal` (action property): at the end of an epoch the
  unbonding of every active chain that unbonds in it is initiated when its
  transaction can be built and sent and has failed when not, whatever
  happens to the other chain.
* `InitiatedBecomesClaimable` (liveness): an unbonding whose transaction was
  sent becomes claimable, whatever epochs end, channels close and chains are
  switched off between its maturing and the arrival of its tokens.

`forced_unbonding` (one chain, two validators, unbondings that unstakes
join):

* `UnbondingLifecycle`, as above, while both workflows send on the same
  channel and an unstake adds to a pending unbonding: with `MaxUnbond` 2 the
  amount of an unbonding can still change, and must not once it has left
  the pending state.

That a validator is force-unbonded only when its marker is due is the guard
of lines 705-706 and is not checked as a property; what the workflow does
when a submission fails is the subject of `validator_abort`.

`rewards_rebalance` (two chains, factors 2 and 3):

* `TypeOK`, which includes that every `RedelegateTx` carries a sequence id the
  channel has handed out.
* `QueriesFollowWithdrawal` (action property): a chain that has delegations
  is asked for its rewards balance only in a pass that submitted the
  withdrawal.
* `OneRedelegateTxPerSubmission` (action property): the `RedelegateTx`
  records made at the end of a redelegation epoch are exactly those of the
  sequences the chain's channel handed out in that tick, whichever of the
  messages were refused and whatever `RewardsWorkflow` sent on the channel
  in between, and no record is touched afterwards.

`ratesync_host_chain`:

* `TypeOK`: the stored host chain is of its type and each feature of its own
  feature type.
* `NoFeatureWithoutAccount`: of every host chain `ValidateBasic` accepts, an
  active one has a created ICA account with a valid address, and every
  enabled feature has an instantiated contract with a code id.
* `AllowedIsLiquidStake`: `AllowsDenom` lets through a denom that is not a
  liquid staking denom only for a feature that allows all denoms.
* `PortLeadsBack`: `OwnerfromPortID` and `IDfromPortID` invert
  `MustICAPortIDfromOwner(DefaultPortOwner(id))`.
* `KeysSortLikeIds`: the keys of two host chains compare the way their ids
  do, so no two ids share a key.  The ids compared (`KeyIds`) lie on both sides of the boundaries
  of the three lowest bytes, where an encoding with the bytes the other way
  round or without leading zeros puts 256 before 1.

Every property has a faulty variant of a mapped definition in its module
(marked "Faulty variant") under which TLC finds it violated; `PROJECT.json`
pairs them.

### Findings

1. **A refused transfer leaves the deposit SENT** (`part_000:346`).
   `OnAcknowledgementIBCTransferPacket` returns an error for an error
   acknowledgement without touching a record.  The transfer module refunds
   the tokens, but the deposit keeps state SENT and a sequence id no callback
   will carry again.  `SentIsResolved` (every SENT deposit is eventually
   pending or received) fails under `FairSpec`.
2. **One failed validator undelegation ends the pass of all later chains**
   (`part_000:737`).  `ValidatorUndelegationWorkflow` uses `return` inside
   the loop over chains; the design says a failure aborts the rest of that
   chain's pass only.
3. **The first returning transfer settles every matured unbonding**
   (`part_000:177`).  The comment says the filter gets the unbondings "for
   that ibc sequence id"; the filter tests the state only.  With two matured
   unbondings whose tokens return separately, both become claimable while
   the undelegation account holds the tokens of one.  The finding rests on
   the assumption, stated in `Mature`, that the host chain returns the tokens
   of each matured unbonding in a transfer of its own.
4. **Rebalancing ignores `hc.Active`** (`part_000:922`).
   `RebalanceWorkflow` is the only workflow without the check; the design
   promises that no pipeline generates messages for an inactive chain.
5. **`ValidateBasic` has no default case** (`part_000:982`).  A channel
   state outside the two declared values passes with features enabled and
   any address.  The finding needs a message that carries such a number,
   which the decoder of an enum admits.
6. **A due validator is asked for its delegation twice in one tick**
   (`part_000:714`, `:610`).  `AfterEpochEnd` runs
   `ValidatorUndelegationWorkflow`, which undelegates all of
   `validator.DelegatedAmount`, and then `UndelegationWorkflow`, which
   allocates the epoch's unbonding over the same, unchanged delegations.
   With an unbonding as large as the delegations of the chain the allocation
   is forced, and the two transactions together ask the validator for twice
   what it has; the host chain cannot carry out the second, whose unbonding
   is already recorded as initiated.  The design says that no allocation
   exceeds its validator's delegation (4.3, 8).  The allocation is modelled
   from the design; the counterexample does not depend on which split is
   chosen.

## 5. Bounds and fairness

| Bound | Value | Why it is enough |
|---|---|---|
| `MaxEpoch` (DepositTransfer) | 3 | a deposit is sent, times out, is sent again beside its successor and is acknowledged |
| `MaxSequence` (DepositTransfer) | 3 / 2 | three packets of one channel: two in flight and one resolved; two per channel with two chains, so that sequence numbers coincide |
| `MaxPooled` | 3 / 2 | the amounts 1 and 2 add up in one deposit and split into the fee and the rest |
| `MaxEpoch` (Undelegation) | 3 / 4 | with factors 1 and 2 both chains have an unbonding epoch and one that is not; 4 with two validators, so that a marker ripens and the next unbonding epoch comes |
| `MaxUnbond` | 1 / 2 | 1 in `undelegation`, where every unbonding is one unstake and the allocation fails on a validator without delegation; 2 elsewhere: an unstake joins a pending unbonding, two unbondings of one chain are matured at the same time, an unbonding as large as both delegations |
| `Delegations` | {0, 1} / {1} | a validator with nothing delegated makes `GenerateUndelegateMessages` fail |
| `UnbondingStateEpochLimit` | 1 | a marker that is due and one that is not |
| `MaxEpoch`, `MaxSequence` (RewardsRebalance) | 3 | with factors 2 and 3 each chain has an unbonding epoch in range, and they differ |
| `MaxMsgs` | 2 | a pass with several transactions on one channel |
| `Ids` | {0, 120} | zero, the id of the host chain the message tests create; several digits with a trailing zero |
| `KeyIds` | {0, 1, 255, 256, 257, 65535, 65536, 16777216} | ids on both sides of the boundaries of the three lowest bytes, where the order of the keys depends on the order of the bytes; ids beyond 2^31 are out of TLC's reach, and the five highest bytes are written by the same recursion |
| `DenomLists` | six lists | empty, the sign of all denoms alone and in a longer list, a valid and an invalid denom, two valid ones |

Counters stop at their bound through a conjunct in the guard of the action
that increments them.  Every specification keeps an environment action that
is always possible, so deadlock is checked in every run.

Fairness is assumed of the transport and of the host chain only, never of
users, governance, the ICA channel or the epochs.

* `DepositTransfer!FairSpec`: weak fairness of
  `Acknowledge(p) \/ Refuse(p) \/ Timeout(p)` for every packet.  IBC
  guarantees that a packet is either received and acknowledged or times out,
  and a relayer that is live delivers one of the two.  `SentIsResolved` and
  `SentIsSettledUnlessRefused` are checked under it.
* `Undelegation!FairSpec`: weak fairness of some `Mature(k)` and of some
  `Deliver(t)`.  The unbonding period of the host chain ends, and the
  transfer that brings the tokens back is delivered.  One condition for all
  unbondings and one for all transfers is enough because there are finitely
  many of each.  `InitiatedBecomesClaimable` is checked under it, for the
  unbondings of epochs that end within `MaxEpoch`.

The safety properties of these runs do not depend on the fairness.

`two_chains` uses the symmetry of the two chains, which are interchangeable
in `DepositTransfer`.  The chains of `Undelegation` and `RewardsRebalance`
are a sequence with different unbonding factors, so no symmetry is declared
there.

## 6. Not modelled

* `UpdateCValues` and the call of `AfterEpochEnd` for identifiers other than
  the four above: outside the source.
* The ICA acknowledgement handlers, the message server and the store of both
  modules: outside the source; what the models need of them is modelled from
  the design and marked `spec_modelled` in the map.
* The interfaces of the expected keepers (`src/unnamed/part_002`):
  declarations without behaviour.
* `ModuleName`, `StoreKey`, `RouterKey`, `MemStoreKey`, `ParamsKeyPrefix`
  and `LiquidStakeEpoch` of `src/unnamed/part_001`: names that no code of
  the source uses.  The store itself, and with it which keys an iteration
  meets, belongs to the ratesync keeper, outside the source.
* `src/x/liquidstake/types/events.go`: the event types and attribute keys of
  the liquidstake module.  The keeper that emits them is neither in the
  source nor in the design, and the hooks modelled here emit the events of
  liquidstakeibc.  There is nothing in the file to translate, and a model of
  who emits what would be invented.
* Events in general: every handler emits its event inside the loop that
  writes the record, so the records say all the events would.
* The table tests of the ratesync messages, apart from the host chain they
  start from.

Hazards recorded without a property, with the reason, in `PROJECT.json`:
an inactive chain's unbonding left pending at its tick (577); the
redelegation epoch number compared with the unbonding factor (925); the
marker of a force-unbonded validator that stays set (705); a chain removed while a packet is in flight (371); a
due validator with nothing delegated (714); what a transfer that fails has
written before it fails, since the hook calls its handler on its own context
(539); the key prefix `host_chain`, which is also the beginning of the key of
the id counter `host_chain_id` (`part_001:19`); the rewards account that
`OnRecvIBCTransferPacket` reads without the test for nil that
`RewardsWorkflow` makes (252).

## 7. Plan

Done: the deposit side with its refinement and its liveness, the
undelegation side with its liveness and the messages of both workflows,
rewards and rebalance, the ratesync host chain with its store keys.

Considered and left out, because the model would decide the answer and not
the code:

* A composition of `Undelegation` and `RewardsRebalance` on a shared
  `icaSequence`: the sequence is handed out by the channel, which is outside
  the source, so that two pipelines never get the same one would hold by the
  way the channel is modelled.
* An abstract unbonding ledger: its steps would be those of the message
  server and of the acknowledgement handlers, all modelled from the design.

Left:

1. The acknowledgement that lowers `DelegatedAmount`, once its handler is in
   the source: what the second transaction of finding 6 does to the
   unbonding.
2. `IDfromPortID` over owners that are not the default owner (leading
   zeros, signs), and `Equals` as the guard of an update.
3. The inbound hook for a host chain without a rewards account
   (`part_000:252`), once the registration of host chains is in the source
   and says whether there is such a chain.
