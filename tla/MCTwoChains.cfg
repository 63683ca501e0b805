\* Two host chains, each with its own channel, whose packets carry the same
\* sequence numbers.
SPECIFICATION Spec
CONSTANTS
    c1 = c1
    c2 = c2
    Nil = Nil
    Chains <- TwoChains
    LsmChains <- TwoChains
    LsmIds = {1}
    Amounts = {1, 2}
    MaxEpoch = 3
    MaxSequence = 2
    MaxPooled = 2
    FeeNum = 1
    FeeDen = 2
SYMMETRY ChainSymmetry
INVARIANT PacketsHaveOneRecord
