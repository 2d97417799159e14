\* With a name filter, a filtered-out set is released with its entries left in the map.
CONSTANTS
    s1 = s1
    s2 = s2
    a = a
    b = b
    c = c
    id1 = id1
    id2 = id2
    SetIDs <- MCSetIDs
    Members <- MCMembers
    OtherMembers <- NoMembers
    NumIDs <- MCNumIDs
    NoID = NoID
    UseNameFilter = TRUE
    MaxFailures = 1
    MaxCrashes = 1
SPECIFICATION Spec
INVARIANT NoStrayEntries
