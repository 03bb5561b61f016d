SPECIFICATION Spec
CONSTANTS
    c1 = c1
    c2 = c2
    user = user
    id = id
    name = name
    Callers <- TwoCallers
    Entities <- OneEntity
    Names <- TwoColumns
    Mappings <- AllMappings
    PoolSize = 2
    MaxFaults = 1
INVARIANTS
    TypeOK
    ReturnedMeansConforms
    UpToDateIsQuiet
    IInv
PROPERTIES
    LostOnlyByMetadata
CHECK_DEADLOCK FALSE
