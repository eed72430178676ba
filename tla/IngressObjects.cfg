SPECIFICATION Spec
CONSTANTS
    first = first
    second = second
    unsupported = unsupported
    Nil = Nil
    Body = {first, second}
    Object = {1, 2}
    Objects <- MCObjects
    GatewayStatus <- OnlyPending
    MaxEdits = 1
    MaxFailures = 1
    MaxRestarts = 1
INVARIANTS
    QuietServes
    QuietReleased
