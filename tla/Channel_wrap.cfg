SPECIFICATION Spec
CONSTANTS
    SeqMod = 6
    NewerRange = 1
    MaxFragments = 1
    MaxPackets = 14
    Horizon = 2
    AcksPerPacket = 2
PROPERTIES
    ImplementsOrdered
