SPECIFICATION Spec
CONSTANTS
    Host <- MCHost
    Wildcard <- MCWildcard
    WildcardOf <- MCWildcardOf
    GatewayHTTPSCapacity = 1
    ListenerSetCapacity = 2
    MaxListenerSet = 2
    Source = {1, 2, 3, 4}
    Secret = {1, 2, 3}
    LocalSecret = {}
    Fingerprint = {1, 2}
    NamespaceOf <- MCNamespaceOf
    Age <- MCAge
    Covering <- MCCovering
    Path = {0, 1}
    MaxRules = 3
    Declarations <- MCDeclarations
    Initially <- MCMirrored
    Certificates <- MCCertificates
    Overflow = TRUE
    MaxEdits = 0
    MaxFailures = 0
INVARIANT NoPolicyOnOverlap
