SPECIFICATION Spec
CONSTANTS
    first = first
    second = second
    unsupported = unsupported
    Nil = Nil
    Body = {first, second}
    Object = {1, 2}
    Objects <- MCObjects
    GatewayStatus <- TwoStatuses
    MaxEdits = 1
    MaxFailures = 0
    MaxRestarts = 0
PROPERTIES
    ReadyIsEarned
