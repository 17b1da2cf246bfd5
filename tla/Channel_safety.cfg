SPECIFICATION Spec
CONSTANTS
    SeqMod = 8
    NewerRange = 3
    MaxFragments = 3
    MaxPackets = 3
    Horizon = 4
    AcksPerPacket = 1
INVARIANTS
    InOrderDelivery
    AckedIsHeld
    HeadHasJob
