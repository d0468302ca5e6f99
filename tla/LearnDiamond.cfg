CONSTANTS
    app = app
    math = math
    units = units
    loop = loop
    broken = broken
    nobody = nobody
    appP = appP
    mathP = mathP
    brokenP = brokenP
    unitsP = unitsP
    loopP = loopP
    slug = slug
    whole = whole
    Absent = Absent
    Partial = Partial
    Capabilities = {app, math, units}
    Providers = {appP, mathP, unitsP}
    Offers <- DiamondOffers
    Manifest <- DiamondManifest
    Shorter <- NoneShorter
    Whole = whole
    MaxEntries = 3
    Slug <- OwnSlug
    Dir <- OwnDir
    Name <- OwnName
SPECIFICATION Spec
INVARIANTS
    ReportedCycleIsOne
