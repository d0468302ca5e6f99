CONSTANTS
    a = a
    b = b
    c = c
    add = add
    math = math
    Reaper = Reaper
    Sessions = {a, b}
    Capabilities = {math}
    Methods = {add}
    Registrations <- MathOnly
    AnswerCodes = {"result", "null"}
    MaxCalls = 2
    MaxChanges = 1
    MaxReaped = 1
SPECIFICATION FairSpec
INVARIANTS
    TypeOK
    ClosedLeavesNothing
    SendersAreConnected
PROPERTIES
    EveryRequestAnswered
    DisconnectCompletes
