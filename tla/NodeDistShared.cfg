\* Two threads set, clear and read; the number of measurements is bounded, which may stop them.
CONSTANTS
    Callers = {c1, c2}
    Params = {pa, pb, dflt}
    DefaultBench = dflt
    Off = Off
    MaxTakes = 4
SPECIFICATION DistSpec
CHECK_DEADLOCK FALSE
INVARIANTS
    RegistryAgrees
    CacheOfParam
PROPERTIES
    StableWhileUnchanged
