\* Three clients and two connections: several sleep at once, and clients that
\* hold one each wait for a second, for ever where nothing times out.
SPECIFICATION Spec
CONSTANTS
    Clients = {a, b, c}
    Careless = {a}
    MaxConnections = 2
    Fakes = {999}
    MaxCalls = 2
INVARIANTS PoolSound ExclusiveLeases NoLostWakeup
PROPERTIES CallsReturn
CHECK_DEADLOCK FALSE
