CONSTANTS
    a = a
    b = b
    c = c
    add = add
    math = math
    Reaper = Reaper
    Sessions = {a, b, c}
    Capabilities = {math}
    Methods = {add}
    Registrations <- MathOnly
    AnswerCodes = {"result"}
    MaxCalls = 2
    MaxChanges = 1
    MaxReaped = 1
SYMMETRY SessionSymmetry
SPECIFICATION Spec
INVARIANTS
    NoOrphanForward
    NoRequestForgotten
    SentForwardRepliedOnce
    RepliesMatch
