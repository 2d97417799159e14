\* The failsafe map read back by DumpFailsafeMap.
CONSTANTS
    if1 = if1
    NotFound = NotFound
    Ifaces <- MCIfaces
    Protos <- MCProtos
    Ports <- MCPorts
    IPs <- MCIPs
    Masks <- MCMasks
    RefCounts <- MCRefCounts
SPECIFICATION Spec
INVARIANT FailsafeDumpMatches
