-------------------------- MODULE DepositTransfer --------------------------
(***************************************************************************)
(* The deposit side of the liquidstakeibc keeper hooks: the Deposit and    *)
(* LSM pipelines that the delegation epoch drives, and the callbacks that  *)
(* reconcile their IBC transfers (acknowledgement, timeout, inbound        *)
(* transfer).  A step of this module is one call of a hook, which the      *)
(* chain runs to completion before anything else.                          *)
(*                                                                         *)
(* Every host chain has its own transfer channel, so a channel is named    *)
(* by its chain.  The transfer module and the bank are the environment:    *)
(* a sent packet escrows its amount out of the deposit module account, a   *)
(* refused or timed out packet refunds it, a received packet mints it.     *)
(***************************************************************************)
EXTENDS Integers, FiniteSets, FiniteSetsExt

CONSTANTS
    Chains,       \* the registered host chains
    LsmChains,    \* the host chains with Flags.Lsm set
    LsmIds,       \* identities of the LSM deposits users may create
    Amounts,      \* the amounts of a stake or of an inbound transfer
    MaxEpoch,     \* bound: the delegation epoch counter stops here
    MaxSequence,  \* bound: the packets one transfer channel sends
    MaxPooled,    \* bound: the tokens of one chain pooled or in flight
    FeeNum,       \* hc.Params.RestakeFee is the fraction FeeNum / FeeDen
    FeeDen,
    Nil           \* the empty IbcSequenceId

ASSUME /\ LsmChains \subseteq Chains
       /\ LsmIds \subseteq Nat
       /\ Amounts \subseteq Nat \ {0}
       /\ MaxEpoch \in Nat /\ MaxSequence \in Nat /\ MaxPooled \in Nat
       /\ FeeNum \in Nat /\ FeeDen \in Nat \ {0} /\ FeeNum <= FeeDen

VARIABLES
    epoch,              \* current delegation epoch; 0 before counting starts
    active,             \* hc.Active of every host chain
    delegationBalance,  \* hc.DelegationAccount.Balance of every host chain
    deposits,           \* the Deposit records, keyed by <<chain, epoch>>
    lsmDeposits,        \* the LSMDeposit records, keyed by identity
    nextSequence,       \* next packet sequence of every transfer channel
    inFlight,           \* transfer packets sent and not yet resolved
    settled,            \* history: resolved packets with their outcome
    depositAccount      \* tokens of every chain in the deposit module account

vars == <<epoch, active, delegationBalance, deposits, lsmDeposits,
          nextSequence, inFlight, settled, depositAccount>>

DEPOSIT_PENDING  == "DEPOSIT_PENDING"
DEPOSIT_SENT     == "DEPOSIT_SENT"
DEPOSIT_RECEIVED == "DEPOSIT_RECEIVED"
DepositStates    == {DEPOSIT_PENDING, DEPOSIT_SENT, DEPOSIT_RECEIVED}

SequenceIDs == Chains \X (1..MaxSequence)

\* The join key of a pending record: channel and packet sequence together.
GetTransactionSequenceID(channel, sequence) == <<channel, sequence>>

Packets ==
    [channel : Chains, sequence : 1..MaxSequence, amount : 1..MaxPooled,
     native : BOOLEAN]

PacketID(p) == GetTransactionSequenceID(p.channel, p.sequence)

ChainOf(key) == key[1]
EpochOf(key) == key[2]

(***************************************************************************)
(* Lookups of the keeper.                                                  *)
(***************************************************************************)
GetDepositsWithSequenceID(id) ==
    {k \in DOMAIN deposits : deposits[k].seq = id}

GetLSMDepositsFromIbcSequenceID(id) ==
    {i \in DOMAIN lsmDeposits : lsmDeposits[i].seq = id}

GetPendingDepositsBeforeEpoch(e) ==
    {k \in DOMAIN deposits :
        deposits[k].state = DEPOSIT_PENDING /\ EpochOf(k) <= e}

GetTransferableLSMDeposits(c) ==
    {i \in DOMAIN lsmDeposits :
        lsmDeposits[i].chain = c /\ lsmDeposits[i].state = DEPOSIT_PENDING}

\* The restake fee of an autocompounded amount, truncated to an integer.
RestakeFee(amount) == (FeeNum * amount) \div FeeDen

(***************************************************************************)
(* DepositWorkflow.  Of the pending deposits up to the ending epoch, the   *)
(* empty ones of earlier epochs are deleted, those of inactive chains are  *)
(* left alone, and each of the others is one MsgTransfer, which may fail.  *)
(* `sent' is the set of deposits whose transfer went through.              *)
(***************************************************************************)
EmptyDeposits(e) ==
    {k \in GetPendingDepositsBeforeEpoch(e) : deposits[k].amount <= 0}

\* Faulty variant: the check of the amount (amount <= 0) is dropped.
TransferableWithEmpty(e) ==
    {k \in GetPendingDepositsBeforeEpoch(e) : active[ChainOf(k)]}

Transferable(e) ==
    {k \in GetPendingDepositsBeforeEpoch(e) \ EmptyDeposits(e) :
        active[ChainOf(k)]}

\* The channel hands out its sequences in the order the transfers are made.
DepositSequence(sent, k) ==
    nextSequence[ChainOf(k)]
        + Cardinality({j \in sent : ChainOf(j) = ChainOf(k)
                                     /\ EpochOf(j) < EpochOf(k)})

\* Faulty variant: an empty deposit of the ending epoch is deleted as well.
DepositWorkflowPruningAll(e, sent) ==
    [k \in DOMAIN deposits \ EmptyDeposits(e) |->
        IF k \in sent
        THEN [deposits[k] EXCEPT
                !.state = DEPOSIT_SENT,
                !.seq = GetTransactionSequenceID(ChainOf(k),
                                                 DepositSequence(sent, k))]
        ELSE deposits[k]]

DepositWorkflow(e, sent) ==
    [k \in DOMAIN deposits \ {j \in EmptyDeposits(e) : EpochOf(j) < e} |->
        IF k \in sent
        THEN [deposits[k] EXCEPT
                !.state = DEPOSIT_SENT,
                !.seq = GetTransactionSequenceID(ChainOf(k),
                                                 DepositSequence(sent, k))]
        ELSE deposits[k]]

DepositPackets(sent) ==
    {[channel |-> ChainOf(k), sequence |-> DepositSequence(sent, k),
      amount |-> deposits[k].amount, native |-> TRUE] : k \in sent}

(***************************************************************************)
(* LSMWorkflow.  On every active LSM chain each transferable LSM deposit   *)
(* is a MsgTransfer of its own, made after the transfers of the deposit    *)
(* workflow.  The shares of an LSM deposit are abstracted to one unit.     *)
(***************************************************************************)
LsmTransferable ==
    UNION {GetTransferableLSMDeposits(c) :
              c \in {h \in LsmChains : active[h]}}

LsmSequence(sent, sentLsm, i) ==
    LET c == lsmDeposits[i].chain IN
    nextSequence[c]
        + Cardinality({k \in sent : ChainOf(k) = c})
        + Cardinality({j \in sentLsm : lsmDeposits[j].chain = c /\ j < i})

\* seqs gives the sequence id of every record in its domain.
UpdateLSMDepositsStateAndSequence(records, state, seqs) ==
    [i \in DOMAIN records |->
        IF i \in DOMAIN seqs
        THEN [records[i] EXCEPT !.state = state, !.seq = seqs[i]]
        ELSE records[i]]

LSMWorkflow(sent, sentLsm) ==
    UpdateLSMDepositsStateAndSequence(
        lsmDeposits, DEPOSIT_SENT,
        [i \in sentLsm |->
            GetTransactionSequenceID(lsmDeposits[i].chain,
                                     LsmSequence(sent, sentLsm, i))])

LsmPackets(sent, sentLsm) ==
    {[channel |-> lsmDeposits[i].chain,
      sequence |-> LsmSequence(sent, sentLsm, i),
      amount |-> 1, native |-> FALSE] : i \in sentLsm}

(***************************************************************************)
(* The epoch hooks of the delegation epoch.  A hook is a function of the   *)
(* state it finds, so that the scheduler can run one after the other in    *)
(* the same block.                                                         *)
(***************************************************************************)
\* A pending, empty deposit of every host chain for the starting epoch.
CreateDeposits(records, e) ==
    [k \in DOMAIN records \cup (Chains \X {e}) |->
        IF k \in DOMAIN records
        THEN records[k]
        ELSE [amount |-> 0, state |-> DEPOSIT_PENDING, seq |-> Nil]]

BeforeEpochStart(records, epochNumber) == CreateDeposits(records, epochNumber)

SentOn(c, sent, sentLsm) ==
    Cardinality({k \in sent : ChainOf(k) = c})
        + Cardinality({i \in sentLsm : lsmDeposits[i].chain = c})

EscrowedOn(c, sent) ==
    MapThenSumSet(LAMBDA k : deposits[k].amount,
                  {k \in sent : ChainOf(k) = c})

\* The transfer module accepts a transfer only if the sender has the tokens;
\* the sequences of a channel are capped at MaxSequence.
CanSend(sent, sentLsm) ==
    \A c \in Chains :
        /\ nextSequence[c] + SentOn(c, sent, sentLsm) <= MaxSequence + 1
        /\ EscrowedOn(c, sent) <= depositAccount[c]

\* DepositWorkflow, then LSMWorkflow, with what the transfers they make do
\* to the channels and to the deposit module account.
AfterEpochEnd(epochNumber, sent, sentLsm) ==
    [deposits       |-> DepositWorkflow(epochNumber, sent),
     lsmDeposits    |-> LSMWorkflow(sent, sentLsm),
     nextSequence   |-> [c \in Chains |->
                            nextSequence[c] + SentOn(c, sent, sentLsm)],
     inFlight       |-> inFlight \cup DepositPackets(sent)
                                 \cup LsmPackets(sent, sentLsm),
     depositAccount |-> [c \in Chains |->
                            depositAccount[c] - EscrowedOn(c, sent)]]

\* The scheduler.  The first tick starts epoch 1; every later one ends the
\* current epoch and starts the next in the same block.
StartCounting ==
    /\ epoch = 0
    /\ deposits' = BeforeEpochStart(deposits, 1)
    /\ UNCHANGED <<lsmDeposits, nextSequence, inFlight, depositAccount>>

EndAndStart ==
    /\ epoch > 0
    /\ \E sent \in SUBSET Transferable(epoch),
          sentLsm \in SUBSET LsmTransferable :
          LET ended == AfterEpochEnd(epoch, sent, sentLsm) IN
          /\ CanSend(sent, sentLsm)
          /\ deposits' = BeforeEpochStart(ended.deposits, epoch + 1)
          /\ lsmDeposits' = ended.lsmDeposits
          /\ nextSequence' = ended.nextSequence
          /\ inFlight' = ended.inFlight
          /\ depositAccount' = ended.depositAccount

EpochTick ==
    /\ epoch < MaxEpoch
    /\ epoch' = epoch + 1
    /\ StartCounting \/ EndAndStart
    /\ UNCHANGED <<active, delegationBalance, settled>>

(***************************************************************************)
(* OnRecvIBCTransferPacket, for a transfer the transfer module accepted    *)
(* and whose denom is that of host chain c.  The packet is classified by   *)
(* its sender and receiver; the tokens are minted to the receiver before   *)
(* the hook runs, whatever the hook then does.                             *)
(***************************************************************************)
CurrentDeposit(c) == <<c, epoch>>

\* The bound on what flows in: pooled and escrowed tokens of a chain.
Escrowed(c) ==
    MapThenSumSet(LAMBDA p : p.amount,
                  {p \in inFlight : p.channel = c /\ p.native})

HasRoom(c, amount) ==
    depositAccount[c] + Escrowed(c) + amount <= MaxPooled

Credit(records, key, amount) ==
    IF key \in DOMAIN records
    THEN [records EXCEPT ![key].amount = @ + amount]
    ELSE records

\* From the delegation account to the deposit account: a validator that was
\* unbonded in full.  Without a deposit of the current epoch it is an error.
OnRecvValidatorUnbonding(c, amount) ==
    /\ HasRoom(c, amount)
    /\ depositAccount' = [depositAccount EXCEPT ![c] = @ + amount]
    /\ deposits' = Credit(deposits, CurrentDeposit(c), amount)

\* Faulty variant: the deposit is credited with the amount before the fee.
OnRecvAutocompoundGross(c, amount, feeSent) ==
    LET fee == IF feeSent THEN RestakeFee(amount) ELSE 0 IN
    /\ HasRoom(c, amount)
    /\ depositAccount' = [depositAccount EXCEPT ![c] = @ + amount - fee]
    /\ deposits' = IF feeSent
                   THEN Credit(deposits, CurrentDeposit(c), amount)
                   ELSE deposits

\* From the rewards account to the deposit account: autocompounding.  The
\* fee leaves first; if sending it fails nothing else happens, and if there
\* is no deposit of the current epoch the fee is gone all the same.
OnRecvAutocompound(c, amount, feeSent) ==
    LET fee == IF feeSent THEN RestakeFee(amount) ELSE 0 IN
    /\ HasRoom(c, amount)
    /\ depositAccount' = [depositAccount EXCEPT ![c] = @ + amount - fee]
    /\ deposits' = IF feeSent
                   THEN Credit(deposits, CurrentDeposit(c), amount - fee)
                   ELSE deposits

\* Every other packet: a failed transfer, an unknown denom, a memo, another
\* sender, or the undelegation account as receiver.
OnRecvIgnored ==
    UNCHANGED <<deposits, depositAccount>>

OnRecvIBCTransferPacket ==
    /\ \/ \E c \in Chains, a \in Amounts : OnRecvValidatorUnbonding(c, a)
       \/ \E c \in Chains, a \in Amounts, feeSent \in BOOLEAN :
             OnRecvAutocompound(c, a, feeSent)
       \/ OnRecvIgnored
    /\ UNCHANGED <<epoch, active, delegationBalance, lsmDeposits,
                   nextSequence, inFlight, settled>>

(***************************************************************************)
(* OnAcknowledgementIBCTransferPacket.  A refused transfer is an error and *)
(* changes nothing.  A successful one marks the records that carry the     *)
(* packet's sequence id as received, clears the id, and adds the packet's  *)
(* amount to the delegation balance once for every such deposit.           *)
(***************************************************************************)
MarkReceived(matched) ==
    [k \in DOMAIN deposits |->
        IF k \in matched
        THEN [deposits[k] EXCEPT !.state = DEPOSIT_RECEIVED, !.seq = Nil]
        ELSE deposits[k]]

\* The transferred amount, once for every deposit that matched.
AddToDelegationBalance(matched, amount) ==
    [c \in Chains |->
        delegationBalance[c]
            + amount * Cardinality({k \in matched : ChainOf(k) = c})]

\* Faulty variant: the sequence id of a received deposit is not cleared.
OnAcknowledgementKeepingId(packet, success) ==
    LET matched    == GetDepositsWithSequenceID(PacketID(packet))
        matchedLsm == GetLSMDepositsFromIbcSequenceID(PacketID(packet))
    IN  IF success
        THEN /\ deposits' =
                   [k \in DOMAIN deposits |->
                       IF k \in matched
                       THEN [deposits[k] EXCEPT !.state = DEPOSIT_RECEIVED]
                       ELSE deposits[k]]
             /\ delegationBalance' =
                   AddToDelegationBalance(matched, packet.amount)
             /\ lsmDeposits' =
                   UpdateLSMDepositsStateAndSequence(
                       lsmDeposits, DEPOSIT_RECEIVED,
                       [i \in matchedLsm |-> Nil])
        ELSE UNCHANGED <<deposits, delegationBalance, lsmDeposits>>

\* Faulty variant: records are matched by the packet's sequence alone,
\* whatever the channel.
OnAcknowledgementAnyChannel(packet, success) ==
    LET Same(seq)  == seq # Nil /\ seq[2] = packet.sequence
        matched    == {k \in DOMAIN deposits : Same(deposits[k].seq)}
        matchedLsm == {i \in DOMAIN lsmDeposits : Same(lsmDeposits[i].seq)}
    IN  IF success
        THEN /\ deposits' = MarkReceived(matched)
             /\ delegationBalance' =
                   AddToDelegationBalance(matched, packet.amount)
             /\ lsmDeposits' =
                   UpdateLSMDepositsStateAndSequence(
                       lsmDeposits, DEPOSIT_RECEIVED,
                       [i \in matchedLsm |-> Nil])
        ELSE UNCHANGED <<deposits, delegationBalance, lsmDeposits>>

OnAcknowledgementIBCTransferPacket(packet, success) ==
    LET matched    == GetDepositsWithSequenceID(PacketID(packet))
        matchedLsm == GetLSMDepositsFromIbcSequenceID(PacketID(packet))
    IN  IF success
        THEN /\ deposits' = MarkReceived(matched)
             /\ delegationBalance' =
                   AddToDelegationBalance(matched, packet.amount)
             /\ lsmDeposits' =
                   UpdateLSMDepositsStateAndSequence(
                       lsmDeposits, DEPOSIT_RECEIVED,
                       [i \in matchedLsm |-> Nil])
        ELSE UNCHANGED <<deposits, delegationBalance, lsmDeposits>>

(***************************************************************************)
(* OnTimeoutIBCTransferPacket: the records that carry the packet's         *)
(* sequence id go back to pending, without the id.                         *)
(***************************************************************************)
RevertDepositsState(ids) ==
    [k \in DOMAIN deposits |->
        IF k \in ids
        THEN [deposits[k] EXCEPT !.state = DEPOSIT_PENDING, !.seq = Nil]
        ELSE deposits[k]]

RevertLSMDepositsState(ids) ==
    UpdateLSMDepositsStateAndSequence(
        lsmDeposits, DEPOSIT_PENDING, [i \in ids |-> Nil])

\* Faulty variant: the LSM deposits of the packet are not reverted.
OnTimeoutDepositsOnly(packet) ==
    /\ deposits' =
          RevertDepositsState(GetDepositsWithSequenceID(PacketID(packet)))
    /\ UNCHANGED <<lsmDeposits, delegationBalance>>

OnTimeoutIBCTransferPacket(packet) ==
    /\ deposits' =
          RevertDepositsState(GetDepositsWithSequenceID(PacketID(packet)))
    /\ lsmDeposits' =
          RevertLSMDepositsState(
              GetLSMDepositsFromIbcSequenceID(PacketID(packet)))
    /\ UNCHANGED delegationBalance

(***************************************************************************)
(* The transport.  Every packet in flight is resolved once, by a           *)
(* successful acknowledgement, a refusal or a timeout, in any order; a     *)
(* refusal and a timeout refund a native packet.  A resolved packet may    *)
(* have its callback delivered again.                                      *)
(***************************************************************************)
Refund(packet) ==
    IF packet.native
    THEN [depositAccount EXCEPT ![packet.channel] = @ + packet.amount]
    ELSE depositAccount

Outcomes == {"ACK", "ERROR", "TIMEOUT"}

Resolve(packet, outcome) ==
    /\ packet \in inFlight
    /\ inFlight' = inFlight \ {packet}
    /\ settled' = settled \cup {[packet |-> packet, outcome |-> outcome]}
    /\ UNCHANGED <<epoch, active, nextSequence>>

Acknowledge(packet) ==
    /\ Resolve(packet, "ACK")
    /\ OnAcknowledgementIBCTransferPacket(packet, TRUE)
    /\ UNCHANGED depositAccount

Refuse(packet) ==
    /\ Resolve(packet, "ERROR")
    /\ OnAcknowledgementIBCTransferPacket(packet, FALSE)
    /\ depositAccount' = Refund(packet)

Timeout(packet) ==
    /\ Resolve(packet, "TIMEOUT")
    /\ OnTimeoutIBCTransferPacket(packet)
    /\ depositAccount' = Refund(packet)

Redeliver(s) ==
    /\ s \in settled
    /\ \/ s.outcome = "TIMEOUT" /\ OnTimeoutIBCTransferPacket(s.packet)
       \/ s.outcome # "TIMEOUT"
            /\ OnAcknowledgementIBCTransferPacket(s.packet, s.outcome = "ACK")
    /\ UNCHANGED <<epoch, active, nextSequence, inFlight, settled,
                   depositAccount>>

(***************************************************************************)
(* What users and the chain's authority do.                                *)
(***************************************************************************)
\* A user stakes: the amount joins the deposit of the current epoch.
LiquidStake(c, amount) ==
    /\ CurrentDeposit(c) \in DOMAIN deposits
    /\ HasRoom(c, amount)
    /\ deposits' = Credit(deposits, CurrentDeposit(c), amount)
    /\ depositAccount' = [depositAccount EXCEPT ![c] = @ + amount]
    /\ UNCHANGED <<epoch, active, delegationBalance, lsmDeposits,
                   nextSequence, inFlight, settled>>

\* A user stakes tokenized shares of an LSM chain.
LiquidStakeLSM(i, c) ==
    /\ i \in LsmIds \ DOMAIN lsmDeposits
    /\ c \in LsmChains
    /\ lsmDeposits' =
          [j \in DOMAIN lsmDeposits \cup {i} |->
              IF j = i
              THEN [chain |-> c, state |-> DEPOSIT_PENDING, seq |-> Nil]
              ELSE lsmDeposits[j]]
    /\ UNCHANGED <<epoch, active, delegationBalance, deposits, nextSequence,
                   inFlight, settled, depositAccount>>

\* The authority switches a host chain on or off.
SetActive(c) ==
    /\ active' = [active EXCEPT ![c] = ~@]
    /\ UNCHANGED <<epoch, delegationBalance, deposits, lsmDeposits,
                   nextSequence, inFlight, settled, depositAccount>>

(***************************************************************************)
(* Specification.                                                          *)
(***************************************************************************)
Init ==
    /\ epoch = 0
    /\ active \in [Chains -> BOOLEAN]
    /\ delegationBalance = [c \in Chains |-> 0]
    /\ deposits = <<>>
    /\ lsmDeposits = <<>>
    /\ nextSequence = [c \in Chains |-> 1]
    /\ inFlight = {}
    /\ settled = {}
    /\ depositAccount = [c \in Chains |-> 0]

Next ==
    \/ EpochTick
    \/ OnRecvIBCTransferPacket
    \/ \E p \in inFlight : Acknowledge(p)
    \/ \E p \in inFlight : Refuse(p)
    \/ \E p \in inFlight : Timeout(p)
    \/ \E s \in settled : Redeliver(s)
    \/ \E c \in Chains, a \in Amounts : LiquidStake(c, a)
    \/ \E i \in LsmIds, c \in LsmChains : LiquidStakeLSM(i, c)
    \/ \E c \in Chains : SetActive(c)

Spec == Init /\ [][Next]_vars

(***************************************************************************)
(* Invariants and properties.                                              *)
(***************************************************************************)
DepositRecords ==
    [amount : 0..MaxPooled, state : DepositStates,
     seq : SequenceIDs \cup {Nil}]

LsmDepositRecords ==
    [chain : LsmChains, state : DepositStates, seq : SequenceIDs \cup {Nil}]

\* The type of the state.  A packet carries at least one token: the deposit
\* workflow never transfers an empty deposit.
TypeOK ==
    /\ epoch \in 0..MaxEpoch
    /\ active \in [Chains -> BOOLEAN]
    /\ delegationBalance \in [Chains -> Nat]
    /\ DOMAIN deposits \subseteq Chains \X (1..MaxEpoch)
    /\ \A k \in DOMAIN deposits : deposits[k] \in DepositRecords
    /\ DOMAIN lsmDeposits \subseteq LsmIds
    /\ \A i \in DOMAIN lsmDeposits : lsmDeposits[i] \in LsmDepositRecords
    /\ nextSequence \in [Chains -> 1..MaxSequence + 1]
    /\ inFlight \subseteq Packets
    /\ settled \subseteq [packet : Packets, outcome : Outcomes]
    /\ depositAccount \in [Chains -> 0..MaxPooled]

PendingOn(c) ==
    {k \in DOMAIN deposits :
        ChainOf(k) = c /\ deposits[k].state = DEPOSIT_PENDING}

\* The pending deposits of a chain never claim more than the deposit module
\* account holds of its tokens, so that DepositWorkflow can always transfer
\* them: whatever OnRecvIBCTransferPacket, a stake or a timeout adds to a
\* deposit has reached the account, net of the restake fee.
PendingIsBacked ==
    \A c \in Chains :
        MapThenSumSet(LAMBDA k : deposits[k].amount, PendingOn(c))
            <= depositAccount[c]

Refused == {s.packet : s \in {r \in settled : r.outcome = "ERROR"}}

Tracked(seq, packets) == seq \in {PacketID(p) : p \in packets}

\* A record has a sequence id exactly while it is sent, and the id of a
\* sent record is that of a packet still in flight or of one the host chain
\* refused: after a timeout or a successful acknowledgement handled by
\* OnTimeoutIBCTransferPacket and OnAcknowledgementIBCTransferPacket no
\* record is left waiting for that packet.
SentRecordsTrackPackets ==
    /\ \A k \in DOMAIN deposits :
          IF deposits[k].state = DEPOSIT_SENT
          THEN Tracked(deposits[k].seq, inFlight \cup Refused)
          ELSE deposits[k].seq = Nil
    /\ \A i \in DOMAIN lsmDeposits :
          IF lsmDeposits[i].state = DEPOSIT_SENT
          THEN Tracked(lsmDeposits[i].seq, inFlight \cup Refused)
          ELSE lsmDeposits[i].seq = Nil

\* Every packet in flight has exactly one record waiting for it: a sent
\* deposit of the packet's chain and amount for a native transfer, a sent
\* LSM deposit of the packet's chain for a transfer of shares.  The callbacks
\* of one channel never settle the records of another, which is what
\* GetTransactionSequenceID joining channel and sequence is for.
PacketsHaveOneRecord ==
    \A p \in inFlight :
        LET waiting    == GetDepositsWithSequenceID(PacketID(p))
            waitingLsm == GetLSMDepositsFromIbcSequenceID(PacketID(p))
        IN  IF p.native
            THEN /\ waitingLsm = {}
                 /\ \E k \in waiting :
                       /\ waiting = {k}
                       /\ ChainOf(k) = p.channel
                       /\ deposits[k].state = DEPOSIT_SENT
                       /\ deposits[k].amount = p.amount
            ELSE /\ waiting = {}
                 /\ \E i \in waitingLsm :
                       /\ waitingLsm = {i}
                       /\ lsmDeposits[i].chain = p.channel
                       /\ lsmDeposits[i].state = DEPOSIT_SENT

Lifecycle ==
    {<<DEPOSIT_PENDING, DEPOSIT_SENT>>, <<DEPOSIT_SENT, DEPOSIT_RECEIVED>>,
     <<DEPOSIT_SENT, DEPOSIT_PENDING>>}

\* A step moves a deposit only along PENDING -> SENT -> RECEIVED or back
\* from SENT to PENDING.  A deposit that stays in its state keeps its
\* sequence id (no second transfer of a sent deposit by DepositWorkflow);
\* only a pending deposit changes its amount, and only upwards; only an
\* empty pending deposit of an earlier epoch is deleted.  LSM deposits move
\* the same way and are never deleted.
DepositLifecycle ==
    [][/\ \A k \in DOMAIN deposits :
            IF k \in DOMAIN deposits'
            THEN /\ \/ deposits'[k].state = deposits[k].state
                       /\ deposits'[k].seq = deposits[k].seq
                    \/ <<deposits[k].state, deposits'[k].state>> \in Lifecycle
                 /\ deposits'[k].amount >= deposits[k].amount
                 /\ deposits[k].state # DEPOSIT_PENDING
                       => deposits'[k].amount = deposits[k].amount
            ELSE /\ deposits[k] =
                       [amount |-> 0, state |-> DEPOSIT_PENDING, seq |-> Nil]
                 /\ EpochOf(k) < epoch
       /\ \A i \in DOMAIN lsmDeposits :
            /\ i \in DOMAIN lsmDeposits'
            /\ \/ lsmDeposits'[i] = lsmDeposits[i]
               \/ <<lsmDeposits[i].state, lsmDeposits'[i].state>> \in Lifecycle
      ]_vars

\* The keeper implements the ledger of DepositLedger: the deposit module
\* account is the pool, the native packets in flight are in transit, and
\* hc.DelegationAccount.Balance is what is staked.  The balance grows only
\* by the amount of a transfer that was in transit and is confirmed, once,
\* also when a callback is delivered again.
Ledger ==
    INSTANCE DepositLedger WITH
        MaxAmount <- MaxPooled,
        pooled    <- depositAccount,
        inTransit <- [c \in Chains |-> Escrowed(c)],
        staked    <- delegationBalance

LedgerSpec == Ledger!Spec

(***************************************************************************)
(* The transport resolves every packet: fairness of the resolution of each *)
(* packet, and of nothing else.                                            *)
(***************************************************************************)
FairSpec ==
    /\ Spec
    /\ \A p \in Packets :
          WF_vars(Acknowledge(p) \/ Refuse(p) \/ Timeout(p))

IsSent(k) == k \in DOMAIN deposits /\ deposits[k].state = DEPOSIT_SENT

\* Every operation is resumable: a sent deposit does not stay sent for
\* ever, the acknowledgement makes it received and anything else pending
\* again, to be retried by the next DepositWorkflow.
SentIsResolved ==
    \A k \in Chains \X (1..MaxEpoch) : IsSent(k) ~> ~IsSent(k)

IsSentLSM(i) ==
    i \in DOMAIN lsmDeposits /\ lsmDeposits[i].state = DEPOSIT_SENT

\* What does hold of it: a deposit or an LSM deposit that is sent is settled
\* by OnAcknowledgementIBCTransferPacket or put back by
\* OnTimeoutIBCTransferPacket, however often it times out and is sent
\* again and whatever is delivered twice, unless the host chain refuses
\* its transfer.
SentIsSettledUnlessRefused ==
    /\ \A k \in Chains \X (1..MaxEpoch) :
          IsSent(k) ~>
              (IsSent(k) => Tracked(deposits[k].seq, Refused))
    /\ \A i \in LsmIds :
          IsSentLSM(i) ~>
              (IsSentLSM(i) => Tracked(lsmDeposits[i].seq, Refused))

=============================================================================
