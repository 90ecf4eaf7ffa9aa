SPECIFICATION FairSpec
CONSTANTS
    Locals = {"u"}
    Domains = {"d"}
    Exts = {"x"}
    NoExt = NoExt
    NoDomain = NoDomain
    Procs = {p1, p2}
    MaxChanges = 3
PROPERTY BounceOnlyIfAbsent
PROPERTY HandleDecides
PROPERTY EventuallyAnswered
