SPECIFICATION Spec
CONSTANTS
    c1 = c1
    c2 = c2
    user = user
    id = id
    name = name
    Callers <- TwoCallers
    Entities <- OneEntity
    Names <- TwoColumns
    Mappings <- OracleMappings
    PoolSize = 2
    MaxFaults = 0
INVARIANTS
    PrimaryKeyAdded
CHECK_DEADLOCK FALSE
