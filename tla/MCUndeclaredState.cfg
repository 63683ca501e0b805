SPECIFICATION Spec
CONSTANTS
    Ids <- SomeIds
    ConnectionIds <- SomeConnectionIds
    ChannelStates <- AnyChannelStates
    Addresses <- SomeAddresses
    DenomLists <- SomeDenomLists
    MaxUint = 999
    KeyIds <- SomeKeyIds
    Err = Err
INVARIANT NoFeatureWithoutAccount
