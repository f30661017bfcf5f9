SPECIFICATION Spec
CONSTANTS
    kMaxBindings = 3
    kMaxChannels = 2
    kMaxGroups = 2
    kNoChannel = kNoChannel
    kInvalidToken = kInvalidToken
    Exclusive = Exclusive
    Shared = Shared
    Handle = {h1, h2, h3, h4}
SYMMETRY Symmetry
CONSTRAINT RefBound
INVARIANTS
    TypeOK
    RegistrySound
    TokensOwned
    Isolation
PROPERTIES
    LeaksOnlyWithoutTokens
