SPECIFICATION FairSpec
CONSTANTS
    A = A
    B = B
    C = C
    D = D
    NoOwner = NoOwner
    Nodes <- MCNodes
    Ttl <- MCTtl
    Hold <- MCHold
    Crashable <- MCCrashable
INVARIANTS TypeOK MutualExclusion
PROPERTIES LeaseHonoured CrashNeverBlocks
