SPECIFICATION ProvSpec
CONSTANTS
    Wraps <- AllWraps
    Nodes = {"n1"}
    UidReads = {TRUE, FALSE}
    Full = {"p64"}
    Cut = Cut
    None = None
INVARIANT ProvTypeOK
INVARIANT RadioGetsPair
INVARIANT LoadsWhatOpens
INVARIANT PanelTellsCause
INVARIANT ErasedForGood
PROPERTY GoodNvsKept
PROPERTY NoStaleWrap
