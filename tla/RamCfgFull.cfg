SPECIFICATION Spec
CONSTANTS
    Handles = {h1, h2, h3}
    NSlots = 2
    Size = 2
    Bytes <- MCBytes
    Offsets <- MCOffsets
    MaxIo = 2
INVARIANT TypeOK
INVARIANT OnlySlotZeroShared
PROPERTY OwnSeek
