\* One host chain and one transfer, which the transport resolves.
SPECIFICATION FairSpec
CONSTANTS
    c1 = c1
    c2 = c2
    Nil = Nil
    Chains <- OneChain
    LsmChains <- OneChain
    LsmIds = {1}
    Amounts = {1}
    MaxEpoch = 2
    MaxSequence = 1
    MaxPooled = 1
    FeeNum = 1
    FeeDen = 2
PROPERTY SentIsResolved
