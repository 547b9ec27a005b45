SPECIFICATION FairSpec
CONSTANT Slashes <- MCSlashes
INVARIANT StaysInIcon
INVARIANT OnTheLine
PROPERTY LoopEnds
CHECK_DEADLOCK FALSE
