\* The smallest packet, the largest, one in between, and headers that claim 0;
\* two small packets fit in the buffer, three packets overrun it.
CONSTANTS
    Cap = 9
    Sizes = {0, 4, 5, 9}
    MaxPackets = 3
SPECIFICATION Spec
INVARIANTS TypeOK Intact NoWholePacketLeft ErasedOnlyIfHungUp
PROPERTIES EveryPacketTakenOut HungUpIsErased
