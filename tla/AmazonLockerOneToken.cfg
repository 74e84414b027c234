\* A code that is in use is drawn again.
SPECIFICATION Spec
CONSTANTS
    s1 = s1
    s2 = s2
    l1 = l1
    Compartments <- MCCompartments
    Sizes <- MCSizes
    SizeOf <- MCSizeOf
    Codes = {1, 2}
    Packages = {p1, p2, p3}
    Ttl = 2
    Nothing = Nothing
    rows = 4
    cols = 4
    Aligned = 3
    n = 3
    car1 = car1
    car2 = car2
    motorcycle = motorcycle
    bus = bus
    Spots = {0, 1}
    Vehicles <- MCVehicles
    VehicleType <- MCVehicleType
    Addresses = {a1, a2, a3}
    nullptr = nullptr
    text1 = text1
    text2 = text2
    Names = {1, 2}
    Contents <- MCContents
    MaxDepth = 2
    MaxHeap = 3
    MaxContent = 2
    NoFile = NoFile
    Size = 4
    MaxPieces = 3
    Empty = Empty
INVARIANTS OneTokenPerPackage
CHECK_DEADLOCK FALSE
