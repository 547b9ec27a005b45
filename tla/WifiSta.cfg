SPECIFICATION FairSpec
CONSTANTS
    Addrs = {a1, a2}
    NoIp = NoIp
    kMaxRetries = 2
    ConnectMayFail = TRUE
    MaxEvents = 2
INVARIANT RetryBudget
INVARIANT BitsFollowStatus
INVARIANT StatusTruthful
PROPERTY GiveUpIsFinal
INVARIANT FailedVerdictIsFinal
INVARIANT NeverStranded
PROPERTY SettlesAgain
CHECK_DEADLOCK FALSE
