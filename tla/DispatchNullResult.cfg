CONSTANTS
    a = a
    b = b
    c = c
    add = add
    math = math
    Reaper = Reaper
    Sessions = {a, b}
    Capabilities = {math}
    Methods = {add}
    Registrations <- MathOnly
    AnswerCodes = {"result", "null"}
    MaxCalls = 1
    MaxChanges = 1
    MaxReaped = 1
SYMMETRY SessionSymmetry
SPECIFICATION Spec
INVARIANT
    AnsweredDoesNotTimeOut
