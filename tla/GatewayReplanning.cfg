SPECIFICATION Spec
CONSTANTS
    Host <- MCHost
    Wildcard <- MCWildcard
    WildcardOf <- MCWildcardOf
    GatewayHTTPSCapacity = 2
    ListenerSetCapacity = 1
    MaxListenerSet = 3
    Source = {1, 2, 3}
    Secret = {1, 2, 3}
    LocalSecret = {3}
    Fingerprint = {1, 2, 3}
    Declarations <- MCDeclarations
    Infos <- MCInfos
INVARIANTS
    TypeOK
    OneListenerPerHostname
    RightCertificate
    ServedOnceOrReported
    ConflictReported
    Settled
PROPERTIES
    HonoursContract
