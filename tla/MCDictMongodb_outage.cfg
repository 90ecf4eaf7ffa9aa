SPECIFICATION Spec
CONSTANTS
    Locals = {"u"}
    Domains = {"d"}
    Exts = {"x"}
    NoExt = NoExt
    NoDomain = NoDomain
    Procs = {p1}
    MaxChanges = 1
PROPERTY TroubleDefers
