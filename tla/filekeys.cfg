SPECIFICATION Spec
CONSTANTS
    d1 = d1
    d2 = d2
    Device = {d1, d2}
    Count = {2, 3}
    MaxLogins = 2
    MaxKeys = 2
    Backlog = 2
    None = None
    Malformed = Malformed
SYMMETRY Devices
INVARIANTS
    TypeOK
    OfItsDevice
    AckedIsDropped
PROPERTIES
    KeysInOrder
CHECK_DEADLOCK FALSE
