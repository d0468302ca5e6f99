CONSTANTS
    a = a
    b = b
    add = add
    mul = mul
    math = math
    tools = tools
    Server = Server
    Sessions = {a, b}
    Capabilities = {math}
    Methods = {add}
    Registrations <- MathOnly
    MaxChanges = 3
    MaxLists = 1
SPECIFICATION FairSpec
CHECK_DEADLOCK FALSE
INVARIANTS
    TypeOK
    SessionsMeet
    EventsAddUp
    ViewsCatchUp
PROPERTIES
    EventuallyInformed
    ShutdownCompletes
