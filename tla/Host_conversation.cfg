SPECIFICATION Spec
CONSTANTS
    c1 = c1  c2 = c2  c3 = c3
    Calls = {c1, c2, c3}
    Channels <- OneChannel
    Convs <- OneConv
    ChannelOf <- ChannelOfOne
    Senders <- TwoSenders
    Kinds <- MostKinds
    MaxCalls = 3
    MaxStarts = 1
SYMMETRY Sym
INVARIANTS TypeOK Serialized StopEffective ComponentsInUse PendingOwned
CHECK_DEADLOCK FALSE
