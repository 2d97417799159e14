\* Reconciler with a name filter that the dataplane replaces at any time.
CONSTANTS
    s1 = s1
    s2 = s2
    a = a
    b = b
    c = c
    id1 = id1
    id2 = id2
    SetIDs <- MCSetIDs
    Members <- OneMember
    OtherMembers <- MCOtherMembers
    NumIDs <- MCNumIDs
    NoID = NoID
    UseNameFilter = TRUE
    MaxFailures = 1
    MaxCrashes = 1
SPECIFICATION Spec
INVARIANT NoMissingEntries
SYMMETRY MCSymmetry
