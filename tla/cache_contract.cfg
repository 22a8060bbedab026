SPECIFICATION Spec
CONSTANTS
    k1 = k1
    k2 = k2
    k3 = k3
    Keys <- MCKeys
    Prefixes <- MCPrefixes
    Values = {a, b}
    Miss = Miss
    Ttls = {0, 1}
    Limits = {0, 1, 2}
    MaxTime = 2
    MaxOps = 3
INVARIANTS
    TypeOK
    StatsBalance
    WithinLimit
PROPERTIES
    EvictionIsFair
    ImplementsMap
CHECK_DEADLOCK FALSE
