SPECIFICATION Spec
CONSTANTS
    th1 = th1
    th2 = th2
    Thread = {th1, th2}
    Text <- Texts
    Keys <- TheKeys
    Sample <- Samples
    MaxSealed = 1
SYMMETRY Threads
INVARIANTS
    TypeOK
    CipherRight
    RoundTrip
    TablesRight
