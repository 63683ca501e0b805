------------------------- MODULE RatesyncHostChain -------------------------
(***************************************************************************)
(* The host chain of the ratesync module: what HostChain.ValidateBasic     *)
(* accepts, when a host chain is active, and the port ids of its           *)
(* interchain account.  The functions are operators; the specification     *)
(* is a host chain that starts as the one of the message tests and is      *)
(* replaced, one part at a time, by whatever ValidateBasic accepts.        *)
(*                                                                         *)
(* A string is a sequence of characters, and each of the two prefixes is   *)
(* one character.  A function that returns an error returns Err.           *)
(***************************************************************************)
EXTENDS Integers, Sequences, SequencesExt

CONSTANTS
    Ids,               \* the ids a host chain may have
    ConnectionIds,     \* the connection ids a message may carry
    ChannelStates,     \* the values ICAAccount.ChannelState may carry
    Addresses,         \* the addresses a message may carry
    DenomLists,        \* the lists LiquidStake.Denoms may carry
    MaxUint,           \* the largest id, 2^64 - 1 in the code
    KeyIds,            \* the ids whose store keys are compared
    Err                \* the error a function returns

ICA_CHANNEL_CREATING == "ICA_CHANNEL_CREATING"
ICA_CHANNEL_CREATED  == "ICA_CHANNEL_CREATED"

LIQUID_STAKE_IBC == "LIQUID_STAKE_IBC"
LIQUID_STAKE     == "LIQUID_STAKE"

INSTANTIATION_NOT_INITIATED == "INSTANTIATION_NOT_INITIATED"
INSTANTIATION_INITIATED     == "INSTANTIATION_INITIATED"
INSTANTIATION_COMPLETED     == "INSTANTIATION_COMPLETED"

HostChainIDKeyPrefix == <<"h", "o", "s", "t", "_", "c", "h", "a", "i", "n",
                          "_", "i", "d">>
HostChainKeyPrefix   == <<"h", "o", "s", "t", "_", "c", "h", "a", "i", "n">>

LocalhostConnectionID     == "connection-localhost"
LiquidStakeAllowAllDenoms == "*"
ControllerPortPrefix      == "icacontroller-"
DefaultPortOwnerPrefix    == "pstake_ratesync_"

VARIABLE hc   \* the host chain in the store

(***************************************************************************)
(* What the libraries decide.                                              *)
(***************************************************************************)
\* host.ConnectionIdentifierValidator: letters, digits and a few signs.
ConnectionIdentifierValidator(id) ==
    id \in {"connection-0", LocalhostConnectionID}

\* bech32.DecodeAndConvert: a prefix, the separator and a checksum.
IsBech32(address) == address = "persistence1valid"

\* types.IsLiquidStakingDenom: the prefix of the liquid staking tokens.
IsLiquidStakingDenom(denom) == denom \in {"stk/uatom", "stk/uosmo"}

\* icatypes.NewControllerPortID: the owner must not be blank.
NewControllerPortID(owner) ==
    IF \A i \in DOMAIN owner : owner[i] = " "
    THEN Err
    ELSE <<ControllerPortPrefix>> \o owner

\* host.PortIdentifierValidator: no blank and no slash in a port id.
PortIdentifierValidator(portID) ==
    \A i \in DOMAIN portID : portID[i] \notin {" ", "/"}

Digit == <<"0", "1", "2", "3", "4", "5", "6", "7", "8", "9">>

\* fmt.Sprintf("%v", id) of an unsigned integer.
RECURSIVE FormatUint(_)
FormatUint(n) ==
    IF n < 10
    THEN <<Digit[n + 1]>>
    ELSE FormatUint(n \div 10) \o <<Digit[(n % 10) + 1]>>

\* strconv.ParseUint(s, 10, 64).
ParseUint(s) ==
    LET Value(ch) == (CHOOSE d \in DOMAIN Digit : Digit[d] = ch) - 1
        n == FoldLeft(LAMBDA acc, ch : 10 * acc + Value(ch), 0, s)
    IN  IF s = <<>> \/ \E i \in DOMAIN s : s[i] \notin ToSet(Digit)
        THEN Err
        ELSE IF n > MaxUint THEN Err ELSE n

\* strings.CutPrefix, the string without the prefix or no string at all.
CutPrefix(s, prefix) ==
    IF IsPrefix(prefix, s)
    THEN SubSeq(s, Len(prefix) + 1, Len(s))
    ELSE Err

(***************************************************************************)
(* The port ids of the interchain account.                                 *)
(***************************************************************************)
MustICAPortIDfromOwner(owner) == NewControllerPortID(owner)

DefaultPortOwner(id) == <<DefaultPortOwnerPrefix>> \o FormatUint(id)

OwnerfromPortID(portID) == CutPrefix(portID, <<ControllerPortPrefix>>)

\* Faulty variant: only the prefix of the controller is cut.
IDfromPortIDKeepingOwnerPrefix(portID) ==
    LET idStr == CutPrefix(portID, <<ControllerPortPrefix>>) IN
    IF idStr = Err THEN Err ELSE ParseUint(idStr)

IDfromPortID(portID) ==
    LET idStr == CutPrefix(portID,
                           <<ControllerPortPrefix, DefaultPortOwnerPrefix>>)
    IN  IF idStr = Err THEN Err ELSE ParseUint(idStr)

(***************************************************************************)
(* The keys of the store.  A key is a sequence of bytes; the store keeps   *)
(* and iterates its keys in the order of bytes.Compare.                    *)
(***************************************************************************)
\* The bytes of the letters of the two prefixes.
Ascii ==
    [ch \in {"_", "a", "c", "d", "h", "i", "n", "o", "s", "t"} |->
        CASE ch = "_" -> 95  [] ch = "a" -> 97  [] ch = "c" -> 99
          [] ch = "d" -> 100 [] ch = "h" -> 104 [] ch = "i" -> 105
          [] ch = "n" -> 110 [] ch = "o" -> 111 [] ch = "s" -> 115
          [] ch = "t" -> 116]

\* binary.BigEndian.PutUint64 into n bytes: the most significant first.
RECURSIVE PutUint(_, _)
PutUint(v, n) ==
    IF n = 0 THEN <<>> ELSE PutUint(v \div 256, n - 1) \o <<v % 256>>

KeyPrefix(p) == [i \in DOMAIN p |-> Ascii[p[i]]]

HostChainIDKey == KeyPrefix(HostChainIDKeyPrefix)

\* Faulty variant: the bytes of the id are written the other way round.
HostChainKeyLittleEndian(id) ==
    KeyPrefix(HostChainKeyPrefix) \o Reverse(PutUint(id, 8))

HostChainKey(id) == KeyPrefix(HostChainKeyPrefix) \o PutUint(id, 8)

(***************************************************************************)
(* Validation.  TRUE is no error.                                          *)
(***************************************************************************)
\* Faulty variant: the sign of all denoms is accepted in a longer list.
ValidateLiquidStakeDenomsAnywhere(denoms) ==
    \A i \in DOMAIN denoms :
        \/ denoms[i] = LiquidStakeAllowAllDenoms
        \/ IsLiquidStakingDenom(denoms[i])

ValidateLiquidStakeDenoms(denoms) ==
    \/ Len(denoms) = 1 /\ denoms[1] = LiquidStakeAllowAllDenoms
    \/ \A i \in DOMAIN denoms : IsLiquidStakingDenom(denoms[i])

\* What the state of the instantiation asks of a feature.
InstantiationAllows(lsConfig) ==
    CASE lsConfig.instantiation = INSTANTIATION_NOT_INITIATED ->
            /\ lsConfig.contractAddress = ""
            /\ ~lsConfig.enabled
      [] lsConfig.instantiation = INSTANTIATION_INITIATED ->
            /\ lsConfig.contractAddress = ""
            /\ lsConfig.codeID # 0
            /\ ~lsConfig.enabled
      [] lsConfig.instantiation = INSTANTIATION_COMPLETED ->
            /\ lsConfig.contractAddress # ""
            /\ IsBech32(lsConfig.contractAddress)
            /\ lsConfig.codeID # 0
      [] OTHER -> TRUE

LiquidStakeValdidateBasic(lsConfig) ==
    /\ lsConfig.codeID = 0 =>
          lsConfig.instantiation = INSTANTIATION_NOT_INITIATED
    /\ InstantiationAllows(lsConfig)
    /\ ValidateLiquidStakeDenoms(lsConfig.denoms)

\* Faulty variant: the type of the first feature is tested twice.
FeatureValdidateBasicOfFirst(f) ==
    /\ f.liquidStakeIBC.featureType = LIQUID_STAKE_IBC
    /\ LiquidStakeValdidateBasic(f.liquidStakeIBC)
    /\ LiquidStakeValdidateBasic(f.liquidStake)

FeatureValdidateBasic(f) ==
    /\ f.liquidStakeIBC.featureType = LIQUID_STAKE_IBC
    /\ LiquidStakeValdidateBasic(f.liquidStakeIBC)
    /\ f.liquidStake.featureType = LIQUID_STAKE
    /\ LiquidStakeValdidateBasic(f.liquidStake)

IsActive(chain) ==
    chain.features.liquidStakeIBC.enabled \/ chain.features.liquidStake.enabled

\* Faulty variant: features may be on while the channel is being created.
ChannelStateAllowsFeatures(chain) ==
    CASE chain.icaAccount.channelState = ICA_CHANNEL_CREATING ->
            chain.icaAccount.address = ""
      [] chain.icaAccount.channelState = ICA_CHANNEL_CREATED ->
            /\ chain.icaAccount.address # ""
            /\ IsBech32(chain.icaAccount.address)
      [] OTHER -> TRUE

\* What the state of the channel asks of the account and the features.
ChannelStateAllows(chain) ==
    CASE chain.icaAccount.channelState = ICA_CHANNEL_CREATING ->
            /\ chain.icaAccount.address = ""
            /\ ~IsActive(chain)
      [] chain.icaAccount.channelState = ICA_CHANNEL_CREATED ->
            /\ chain.icaAccount.address # ""
            /\ IsBech32(chain.icaAccount.address)
      [] OTHER -> TRUE

ValidateBasic(chain) ==
    /\ \/ ConnectionIdentifierValidator(chain.connectionID)
       \/ chain.connectionID = LocalhostConnectionID
    /\ chain.icaAccount.owner # <<>> =>
          LET portID == NewControllerPortID(chain.icaAccount.owner) IN
          portID # Err /\ PortIdentifierValidator(portID)
    /\ ChannelStateAllows(chain)
    /\ FeatureValdidateBasic(chain.features)

AllowsAllDenoms(lsConfig) ==
    Len(lsConfig.denoms) = 1 /\ lsConfig.denoms[1] = LiquidStakeAllowAllDenoms

AllowsDenom(lsConfig, denom) ==
    AllowsAllDenoms(lsConfig) \/ denom \in ToSet(lsConfig.denoms)

Equals(lsConfig, l2) ==
    /\ lsConfig.codeID = l2.codeID
    /\ lsConfig.instantiation = l2.instantiation
    /\ lsConfig.contractAddress = l2.contractAddress
    /\ lsConfig.denoms = l2.denoms
    /\ lsConfig.featureType = l2.featureType
    /\ lsConfig.enabled = l2.enabled

(***************************************************************************)
(* The host chain in the store.                                            *)
(***************************************************************************)
\* The host chain the message tests create.
ValidHostChainInMsg(id) ==
    LET off(type) ==
            [featureType |-> type, codeID |-> 0,
             instantiation |-> INSTANTIATION_NOT_INITIATED,
             contractAddress |-> "", denoms |-> <<>>, enabled |-> FALSE]
    IN  [id |-> id, connectionID |-> LocalhostConnectionID,
         icaAccount |-> [address |-> "", owner |-> <<>>,
                         channelState |-> ICA_CHANNEL_CREATING],
         features |-> [liquidStakeIBC |-> off(LIQUID_STAKE_IBC),
                       liquidStake |-> off(LIQUID_STAKE)]]

Owners(id) == {<<>>, <<" ">>, <<"x", "/">>, DefaultPortOwner(id)}

IcaAccounts(id) ==
    [address : Addresses, owner : Owners(id), channelState : ChannelStates]

LiquidStakes ==
    [featureType : {LIQUID_STAKE_IBC, LIQUID_STAKE}, codeID : {0, 1},
     instantiation : {INSTANTIATION_NOT_INITIATED, INSTANTIATION_INITIATED,
                      INSTANTIATION_COMPLETED},
     contractAddress : Addresses, denoms : DenomLists, enabled : BOOLEAN]

\* A message replaces the connection, the account or one of the features.
Replacements ==
    {[hc EXCEPT !.connectionID = id] : id \in ConnectionIds}
      \cup {[hc EXCEPT !.icaAccount = a] : a \in IcaAccounts(hc.id)}
      \cup {[hc EXCEPT !.features.liquidStakeIBC = l] : l \in LiquidStakes}
      \cup {[hc EXCEPT !.features.liquidStake = l] : l \in LiquidStakes}

\* The message is refused unless its host chain is valid.
UpdateHostChain(chain) ==
    /\ ValidateBasic(chain)
    /\ chain # hc
    /\ hc' = chain

Init == \E id \in Ids : hc = ValidHostChainInMsg(id)

Next == \E chain \in Replacements : UpdateHostChain(chain)

Spec == Init /\ [][Next]_hc

(***************************************************************************)
(* Properties.                                                             *)
(***************************************************************************)
\* The host chain in the store is a host chain, and each of its two
\* features is of its own type, as Feature.ValdidateBasic asks.
TypeOK ==
    /\ hc.id \in Ids
    /\ hc.connectionID \in ConnectionIds
    /\ hc.icaAccount \in IcaAccounts(hc.id)
    /\ hc.features \in [liquidStakeIBC : LiquidStakes,
                        liquidStake : LiquidStakes]
    /\ hc.features.liquidStakeIBC.featureType = LIQUID_STAKE_IBC
    /\ hc.features.liquidStake.featureType = LIQUID_STAKE

Enabled(chain) ==
    {f \in {chain.features.liquidStakeIBC, chain.features.liquidStake} :
        f.enabled}

\* What the comment in ValidateBasic says, "No features allowed without
\* ICA account", together with "feature cannot be turned on without
\* instantiation complete": whatever sequence of messages was accepted, an
\* active host chain has an interchain account with an address, and every
\* feature that is on has its contract, with a code id and an address.
NoFeatureWithoutAccount ==
    IsActive(hc) =>
        /\ hc.icaAccount.channelState = ICA_CHANNEL_CREATED
        /\ IsBech32(hc.icaAccount.address)
        /\ \A f \in Enabled(hc) :
              /\ f.instantiation = INSTANTIATION_COMPLETED
              /\ f.codeID # 0
              /\ IsBech32(f.contractAddress)

\* What ValidateLiquidStakeDenoms accepts and what AllowsDenom then lets
\* through agree: a feature in the store lets through a denom that is no
\* liquid staking denom only when it allows all denoms.
AllowedIsLiquidStake ==
    \A f \in {hc.features.liquidStakeIBC, hc.features.liquidStake} :
        \A list \in DenomLists : \A d \in ToSet(list) :
            AllowsDenom(f, d) => AllowsAllDenoms(f) \/ IsLiquidStakingDenom(d)

\* The owner the module gives to the account of a host chain leads back to
\* the host chain: of the port id made by MustICAPortIDfromOwner from
\* DefaultPortOwner, OwnerfromPortID is the owner and IDfromPortID the id.
PortLeadsBack ==
    hc.icaAccount.owner = DefaultPortOwner(hc.id) =>
        LET portID == MustICAPortIDfromOwner(hc.icaAccount.owner) IN
        /\ OwnerfromPortID(portID) = hc.icaAccount.owner
        /\ IDfromPortID(portID) = hc.id

\* bytes.Compare(k, l) < 0: the first byte in which they differ is the
\* smaller one in k, or k is a strict prefix of l.
Before(k, l) ==
    \/ \E i \in DOMAIN k \cap DOMAIN l :
          k[i] < l[i] /\ SubSeq(k, 1, i - 1) = SubSeq(l, 1, i - 1)
    \/ IsStrictPrefix(k, l)

\* The store hands the host chains out in the byte order of their keys,
\* which has to be the order of their ids: HostChainKey writes the id with
\* the most significant byte first, so the key of the host chain in the
\* store and the keys of other ids compare as the ids do, also where an id
\* goes from one byte to the next, and no two ids share a key.
KeysSortLikeIds ==
    \A a, b \in KeyIds \cup {hc.id} :
        a < b <=> Before(HostChainKey(a), HostChainKey(b))

=============================================================================
