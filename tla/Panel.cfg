SPECIFICATION FairSpec
CONSTANTS
    event_loop = event_loop
    svc_reach = svc_reach
    WIFI = WIFI
    JMRI = JMRI
    LCC = LCC
    Painters = {event_loop, svc_reach}
    Areas = {WIFI, JMRI, LCC}
    Owner <- MCOwner
    Texts = {JMRI, LCC}
    None = None
    Black = Black
    Icons = {OK, FAIL}
    NPixels = 2
INVARIANT IconsIntact
PROPERTY OwnAreaOnly
PROPERTY PaintEnds
