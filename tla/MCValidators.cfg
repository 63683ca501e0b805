SPECIFICATION Spec
CONSTANTS
    HostChains <- OneChain
    ValidatorList <- TwoValidators
    UnbondingFactor <- EveryEpoch
    UnbondingStateEpochLimit = 1
    Delegations = {0, 1}
    Amounts = {1}
    MaxEpoch = 4
    MaxUnbond = 2
    Nil = Nil
    c1 = c1
    c2 = c2
    v1 = v1
    v2 = v2
PROPERTY UnbondingLifecycle
