CONSTANTS
    a = a
    b = b
    c = c
    leaf = leaf
    tree = tree
    forest = forest
    math = math
    tools = tools
    add = add
    mul = mul
    neg = neg
    Sessions = {a, b}
    Capabilities = {math, tools}
    Methods = {add, mul, neg}
    Contracts = {leaf, tree, forest}
    Refs <- Growth
    Registrations <- FiveRegistrations
SPECIFICATION FairSpec
INVARIANTS
    TypeOK
    RefsStored
    RegisteredContractsStored
    TornHasReason
    RegistryMapsAgree
PROPERTIES
    RegistryChangesAtOnce
    RegistrationsEnd
