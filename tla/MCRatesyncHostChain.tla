------------------------ MODULE MCRatesyncHostChain ------------------------
(***************************************************************************)
(* RatesyncHostChain for TLC: an id of one digit and one of three, the        *)
(* connection ids, addresses and denom lists that pass and that fail each  *)
(* test of ValidateBasic.                                                  *)
(***************************************************************************)
EXTENDS RatesyncHostChain

SomeIds == {0, 120}

\* Ids on both sides of the boundaries of the three lowest bytes.
SomeKeyIds == {0, 1, 255, 256, 257, 65535, 65536, 16777216}

SomeConnectionIds == {"connection-0", "connection-localhost", "bad id"}

DeclaredChannelStates == {ICA_CHANNEL_CREATING, ICA_CHANNEL_CREATED}

\* A message may carry a number that is no declared value of the enum.
AnyChannelStates == DeclaredChannelStates \cup {"2"}

SomeAddresses == {"", "persistence1valid", "not bech32"}

SomeDenomLists ==
    {<<>>, <<"*">>, <<"stk/uatom">>, <<"uatom">>, <<"*", "stk/uatom">>,
     <<"stk/uatom", "stk/uosmo">>}

=============================================================================
