CONSTANTS
    app = app
    math = math
    units = units
    loop = loop
    broken = broken
    nobody = nobody
    appP = appP
    mathP = mathP
    brokenP = brokenP
    unitsP = unitsP
    loopP = loopP
    slug = slug
    whole = whole
    Absent = Absent
    Partial = Partial
    Capabilities = {math}
    Providers = {mathP, brokenP}
    Offers <- CollidingOffers
    Manifest <- CollidingManifest
    Shorter <- NoneShorter
    Whole = whole
    MaxEntries = 3
    Slug <- OneSlug
    Dir <- OwnDir
    Name <- OwnName
SPECIFICATION Spec
INVARIANTS
    RecordedProvided
