SPECIFICATION JwksSpec
CONSTANTS
    h1 = h1
    h2 = h2
    h3 = h3
    service = service
    gateway = gateway
    Issuers = {r1, r2}
    Verifiers = {service}
    TypChecked = {service}
    Handlers = {h1, h2}
    VerifierOf <- Processes
    VaultConfigured = TRUE
    VaultMayFail = TRUE
    MaxKeys = 3
    MaxTokens = 1
    NoKid = NoKid
SYMMETRY Same
INVARIANTS
    CacheIsOneRing
PROPERTY
    RetiredKeysStayOut
