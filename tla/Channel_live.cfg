SPECIFICATION FairSpec
CONSTANTS
    SeqMod = 8
    NewerRange = 3
    MaxFragments = 2
    MaxPackets = 2
    Horizon = 4
    AcksPerPacket = 1
PROPERTIES
    EveryMessageDelivered
    EveryPacketAcked
