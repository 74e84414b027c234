\* More threads than slots.  Batches of 3, seven messages: a batch fills up
\* while the previous one is written, during the wait, and during the
\* shutdown.  No deadlock check: once somebody is interrupted the others may
\* wait for ever, and a logger that is joined stops.
SPECIFICATION Spec
CONSTANTS
    Producers = {p1, p2}
    Consumers = {c1, c2, c3}
    Capacity = 2
    Interruptible = {p1, c1}
    AddsEach = 3
    TakesEach = 2
    BatchSize = 3
    WaitSeconds = 2
    MaxMessages = 7
INVARIANTS NoSleeperLeftBehind SlotsConserved NothingLost
PROPERTIES ChannelSpec Termination EventuallyWritten
CHECK_DEADLOCK FALSE
