SPECIFICATION FairSpec
CONSTANTS
    a1 = a1
    a2 = a2
    a3 = a3
    d1 = d1
    d2 = d2
    k1 = k1
    k2 = k2
    good = good
    bad = bad
    None = None
    Attempt = {a1, a2}
    Device = {d1}
    Client = {k1}
    Key = {good, bad}
    DeviceOf <- RetryDevice
    ClientOf <- RetryClient
    KeyOf <- AllGood
    Password <- KnownDevice
    Faults = {"timeout", "interrupt", "connect", "send", "lose", "restart", "frame", "wrap",
              "argument", "encrypt"}
INVARIANTS
    TypeOK
    CallerAgreement
    FailureClosesChannel
    ChannelInv
    ExchangeInv
PROPERTIES
    ImplementsMutualAuth
    RemovesOwnEntry
    AttemptsReturn
CHECK_DEADLOCK FALSE
