SPECIFICATION Spec
CONSTANTS
    Handles = {h1, h2}
    NSlots = 2
    Size = 3
    Bytes <- MCBytes
    Offsets <- MCOffsets
    MaxIo = 2
INVARIANT SlotsMatchHandles
PROPERTY PerFdSeeks
