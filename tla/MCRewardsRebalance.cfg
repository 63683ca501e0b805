SPECIFICATION Spec
CONSTANTS
    HostChains <- TwoChains
    UnbondingFactor <- Factors
    WithRewardParams <- OnlyFirst
    MaxMsgs = 2
    MaxEpoch = 3
    MaxSequence = 3
    c1 = c1
    c2 = c2
INVARIANT TypeOK
PROPERTY QueriesFollowWithdrawal
PROPERTY OneRedelegateTxPerSubmission
