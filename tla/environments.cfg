SPECIFICATION Spec
CONSTANTS
    global = global
    package = package
    inner = inner
    nowhere = nowhere
    symX = symX
    siteLookup = siteLookup
    siteAssign = siteAssign
    siteCall = siteCall
    Frame = {global, package, inner}
    Global = global
    NoFrame = nowhere
    Parents <- AllParents
    Symbol = {symX}
    Params <- NoParams
    Value = {v1, v2}
    Stored = {v1, v2}
    Macro = Macro
    Unassigned = Unassigned
    Unbound = Unbound
    Absent = Absent
    Id = {1, 2, 3, 4, 5, 6}
    Site = {siteLookup, siteAssign, siteCall}
    SiteEnv <- EnvOfSite
    BlockEnv <- EnvOfSite
    SiteSymbol <- SymbolOfSite
    SiteKind <- KindOfSite
    None = None
    Names <- AllNames
    Reclaimable = {siteCall}
    Disciplined = TRUE
SYMMETRY Values
CHECK_DEADLOCK FALSE
INVARIANTS TypeOK   
PROPERTIES RefinesBindings
