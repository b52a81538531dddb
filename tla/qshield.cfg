SPECIFICATION FairSpec
CONSTANTS
    d1 = d1
    d2 = d2
    client = client
    key = key
    None = None
    Attempt = {1, 2, 3, 4}
    Caller = {1, 2}
    Device = {d1, d2}
    Client = {client}
    Key = {key}
    KeyIn <- SameKey
    DeviceOf <- AnyDevice
    ClientOf <- OneClient
    KeyOf <- AnyKey
    Password <- SameKey
    Backlog = 1
    Faults = {"timeout", "interrupt", "connect", "send", "token", "swap"}
INVARIANTS
    TypeOK
    OwnSession
    FreshInv
PROPERTIES
    ImplementsMutualAuth
    AttemptsReturn
CHECK_DEADLOCK FALSE
