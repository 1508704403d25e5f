SPECIFICATION Spec
CONSTANTS
    c1 = c1  c2 = c2  c3 = c3
    Calls = {c1, c2}
    Channels <- OneChannel
    Convs <- OneConv
    ChannelOf <- ChannelOfOne
    Senders <- OneSender
    Kinds <- StopKinds
    MaxCalls = 2
    MaxStarts = 2
PROPERTIES OperationsEnd
CHECK_DEADLOCK FALSE
