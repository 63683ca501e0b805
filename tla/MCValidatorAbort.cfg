SPECIFICATION Spec
CONSTANTS
    HostChains <- TwoChains
    ValidatorList <- OneValidator
    UnbondingFactor <- Factors
    UnbondingStateEpochLimit = 1
    Delegations = {1}
    Amounts = {1}
    MaxEpoch = 3
    MaxUnbond = 2
    Nil = Nil
    c1 = c1
    c2 = c2
    v1 = v1
    v2 = v2
PROPERTY ValidatorFailureIsLocal
