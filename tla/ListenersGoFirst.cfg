SPECIFICATION Spec
CONSTANTS
    first = first
    second = second
    unsupported = unsupported
    Nil = Nil
    Body = {first}
    Object = {1}
    Objects <- MCObjects
    GatewayStatus <- OnlyPending
    MaxEdits = 3
    MaxFailures = 0
    MaxRestarts = 0
PROPERTIES
    ListenersGoFirst
