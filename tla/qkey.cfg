SPECIFICATION Spec
CONSTANTS
    keeper = keeper
    app = app
    Thread = {keeper, app}
    Keeper = keeper
    MaxKeys = 3
    Text = {x}
    Length = {48, 256, 300}
    Stated = {8, 69}
    TransLen = 255
    HeadLen = 6
    IdLen = 1
    Backlog <- Bounds
    None = None
    NoData = NoData
    Garbage = Garbage
    Refused = Refused
INVARIANTS
    TypeOK
    RootKnown
PROPERTIES
    KeysAdvance
CHECK_DEADLOCK FALSE
