SPECIFICATION Spec
CONSTANTS
    Ids <- SomeIds
    ConnectionIds <- SomeConnectionIds
    ChannelStates <- DeclaredChannelStates
    Addresses <- SomeAddresses
    DenomLists <- SomeDenomLists
    MaxUint = 999
    KeyIds <- SomeKeyIds
    Err = Err
INVARIANT TypeOK
INVARIANT NoFeatureWithoutAccount
INVARIANT AllowedIsLiquidStake
INVARIANT PortLeadsBack
INVARIANT KeysSortLikeIds
