\* One host chain with LSM, long enough for a deposit to be sent, to time
\* out, to be sent again beside its successor, and to be acknowledged.
SPECIFICATION FairSpec
CONSTANTS
    c1 = c1
    c2 = c2
    Nil = Nil
    Chains <- OneChain
    LsmChains <- OneChain
    LsmIds = {1, 2}
    Amounts = {1, 2}
    MaxEpoch = 3
    MaxSequence = 3
    MaxPooled = 3
    FeeNum = 1
    FeeDen = 2
INVARIANT TypeOK
INVARIANT PendingIsBacked
INVARIANT SentRecordsTrackPackets
PROPERTY DepositLifecycle
PROPERTY LedgerSpec
PROPERTY SentIsSettledUnlessRefused
