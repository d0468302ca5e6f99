CONSTANTS
    a = a
    b = b
    add = add
    mul = mul
    math = math
    tools = tools
    Server = Server
    Sessions = {a}
    Capabilities = {math}
    Methods = {add}
    Registrations <- MathOnly
    MaxChanges = 0
    MaxLists = 0
SPECIFICATION Spec
CHECK_DEADLOCK FALSE
INVARIANTS
    ShutdownReachesSessions
