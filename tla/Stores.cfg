\* One key more than the LRU cache holds, and one address more; two keys and
\* room for one or both in the single-flight cache; a clock passes the largest
\* int and is set back by more than the longer of the ttls.  One key in the
\* stores and in the expiring cache.  The LRU cache ends with its destructor,
\* a store whose lock is held may wait for ever, and the broker has a bound.
SPECIFICATION Spec
CONSTANTS
    Threads = {t1, t2, t3}
    Keys = {1, 2}
    StoredValues = {v1, v2}
    PutValues = {7}
    Capacities = {1, 2}
    LRUKeys = {k1, k2, k3, k4}
    Capacity = 3
    Addresses = {a1, a2, a3, a4}
    HeadNode = HeadNode
    TailNode = TailNode
    Null = Null
    Miss = Miss
    KVKeys = {k1}
    Absent = Absent
    NoCall = NoCall
    Nothing = Nothing
    Ttls = {0, 1}
    IntMax = 4
    TicksPerSecond = 2
    MaxClock = 6
    MaxSetBack = 2
    nullopt = nullopt
    Topics = {x, y}
    Subscribers = {s1, s2}
    MaxCalls = 5
INVARIANTS ListSound SingleFlight ExpiresInTime Delivered
PROPERTIES AnswersFit CallsReturn StoreSpec
CHECK_DEADLOCK FALSE
