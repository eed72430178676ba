SPECIFICATION FairSpec
CONSTANTS
    first = first
    second = second
    unsupported = unsupported
    Nil = Nil
    Body = {first, unsupported}
    Object = {1}
    Objects <- MCObjects
    GatewayStatus <- TwoStatuses
    MaxEdits = 2
    MaxFailures = 0
    MaxRestarts = 0
INVARIANTS
    TypeOK
    QuietServes
    QuietReleased
    QuietReports
PROPERTIES
    Rests
