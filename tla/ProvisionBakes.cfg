SPECIFICATION ProvSpec
CONSTANTS
    Wraps <- AllWraps
    Nodes = {"n1"}
    UidReads = {TRUE, FALSE}
    Full = {"p64"}
    Cut = Cut
    None = None
INVARIANT AnnouncedIsBaked
