SPECIFICATION Spec
CONSTANTS
    c1 = c1
    c2 = c2
    c3 = c3
    None = None
    Call = {c1, c2, c3}
    Device = {0}
    Arg <- Mixed
    TransLen = 5
    HeadLen = 2
    StateLen = 1
    IdLen = 1
    PacketLen = 2
    QueueLimit = 30
    Padded = FALSE
    Faults = {"late", "write"}
INVARIANTS
    TypeOK
    AnswersRequest
    AnswerInv
PROPERTIES
    ImplementsTokenLink
CHECK_DEADLOCK FALSE
