\* Three jobs, due at once or two ticks later, within three ticks of time: a
\* job is scheduled earlier than, together with and later than the one waited
\* for, before, during and after the stop.  No deadlock check: the worker may
\* sleep for ever when nobody calls again.
SPECIFICATION FairSpec
CONSTANTS
    Jobs = {a, b, c}
    Delays = {0, 2}
    Horizon = 3
INVARIANTS NeverOversleeps RunsInDueOrder
PROPERTIES EveryJobRuns StopEndsWorker
CHECK_DEADLOCK FALSE
