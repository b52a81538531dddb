SPECIFICATION Spec
CONSTANTS
    a1 = a1
    a2 = a2
    a3 = a3
    d1 = d1
    d2 = d2
    k1 = k1
    k2 = k2
    good = good
    bad = bad
    None = None
    Attempt = {a1, a2}
    Device = {d1}
    Client = {k1, k2}
    Key = {good, bad}
    DeviceOf <- RetryDevice
    ClientOf <- OwnClient
    KeyOf <- BadThenGood
    Password <- KnownDevice
    Faults = {"timeout", "send", "frame", "wrap"}
INVARIANTS
    AgreementInv
    ServerAgreement
    SpentNoncesForgotten
    OneSessionPerNonce
    DeliveredIsEstablished
CHECK_DEADLOCK FALSE
