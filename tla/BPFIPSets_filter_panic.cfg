\* With a name filter, a delta for a filtered-out set that is not yet released panics.
CONSTANTS
    s1 = s1
    s2 = s2
    a = a
    b = b
    c = c
    id1 = id1
    id2 = id2
    SetIDs <- MCSetIDs
    Members <- MCMembers
    OtherMembers <- NoMembers
    NumIDs <- MCNumIDs
    NoID = NoID
    UseNameFilter = TRUE
    MaxFailures = 1
    MaxCrashes = 1
SPECIFICATION Spec
INVARIANT NoPanic
