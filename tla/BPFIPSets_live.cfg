\* Without a name filter the bookkeeping stays exact and the map converges to the desired state despite failures and crashes.
CONSTANTS
    s1 = s1
    s2 = s2
    a = a
    b = b
    c = c
    id1 = id1
    id2 = id2
    SetIDs <- MCSetIDs
    Members <- MCMembers
    OtherMembers <- NoMembers
    NumIDs <- MCNumIDs
    NoID = NoID
    UseNameFilter = FALSE
    MaxFailures = 1
    MaxCrashes = 1
SPECIFICATION Spec
INVARIANT TypeOK
INVARIANT NoMissingEntries
INVARIANT NoStrayEntries
INVARIANT DesiredMatchesCaller
INVARIANT NoPanic
PROPERTY Converges
