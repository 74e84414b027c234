\* Two keys and room for one: an eviction overtakes a notified sleeper.
\* Once every other caller is done nobody will wake it.
SPECIFICATION FairSpec
CONSTANTS
    Threads = {t1, t2, t3}
    Keys = {1, 2}
    PutValues = {}
    OneCall = TRUE
    Capacities = {1}
PROPERTIES EveryCallerAnswered
CHECK_DEADLOCK FALSE
