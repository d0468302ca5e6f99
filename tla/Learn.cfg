CONSTANTS
    app = app
    math = math
    units = units
    loop = loop
    broken = broken
    nobody = nobody
    appP = appP
    mathP = mathP
    brokenP = brokenP
    unitsP = unitsP
    loopP = loopP
    slug = slug
    whole = whole
    Absent = Absent
    Partial = Partial
    Capabilities = {app, math, loop, broken, nobody}
    Providers = {appP, mathP, loopP, brokenP}
    Offers <- RegistryOffers
    Manifest <- RegistryManifest
    Shorter <- RegistryShorter
    Whole = whole
    MaxEntries = 3
    Slug <- OwnSlug
    Dir <- OwnDir
    Name <- OwnName
SPECIFICATION FairSpec
INVARIANTS
    TypeOK
    RecordedProvided
    RecordedVerified
    DependenciesRecorded
    NoCallWithinItself
    ChildrenReaped
    RecordedResolved
    LearnedOrdered
PROPERTIES
    RecordedUntouched
    RunsEnd
    ImplementsWorkspace
