CONSTANTS
    Relations <- FourRelations
    CacheSize = 2
    MaxCopies = 2
    NoComponents = NoComponents
SPECIFICATION Spec
PROPERTY EvictionUnindexes
