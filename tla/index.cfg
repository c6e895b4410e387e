CONSTANTS
    Relations <- FourRelations
    CacheSize = 2
    MaxCopies = 2
    NoComponents = NoComponents
SPECIFICATION Spec
INVARIANTS TypeOK CachedKeysAreIndexed
PROPERTIES StoreSpec SweepsAreExact
