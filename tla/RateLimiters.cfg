\* Three tokens, refilled every second tick; two requests of each of two
\* clients in two seconds; clocks are set back by up to three seconds, more
\* than a window.
SPECIFICATION Spec
CONSTANTS
    capacity = 3
    TicksPerToken = 2
    Requests = {1, 2, 3}
    Clients = {a, b}
    limit = 2
    windowSeconds = 2
    MaxSetBack = 3
    Nobody = Nobody
INVARIANTS WithinLimit DeniesOnlyAtLimit
PROPERTIES NeverLocksOut
