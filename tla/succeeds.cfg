SPECIFICATION FairSpec
CONSTANTS
    a1 = a1
    a2 = a2
    a3 = a3
    d1 = d1
    d2 = d2
    k1 = k1
    k2 = k2
    good = good
    bad = bad
    None = None
    Attempt = {a1, a2, a3}
    Device = {d1, d2}
    Client = {k1, k2}
    Key = {good, bad}
    DeviceOf <- MixedDevice
    ClientOf <- MixedClient
    KeyOf <- AllGood
    Password <- OneUnknown
    Faults = {}
INVARIANTS
    FramesUnderstood
    BrokenFramesRefused
PROPERTIES
    GenuineAttemptsSucceed
CHECK_DEADLOCK FALSE
