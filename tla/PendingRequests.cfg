CONSTANTS
    Sessions = {a, b}
    Times = {1, 3, 5}
    MaxId = 3
    a = a
    b = b
SPECIFICATION Spec
INVARIANTS
    TypeOK
    IndexesAgree
    EveryEntryCanExpire
    NothingLost
    LoopsAgree
PROPERTIES
    HandedOutOnce
    ImplementsForwardTable
