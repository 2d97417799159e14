\* The CIDR and sockmap endpoints maps read back what the caller put, through bpftool's byte encodings and the kernel's lpm_trie.
CONSTANTS
    if1 = if1
    NotFound = NotFound
    Ifaces <- MCIfaces
    Protos <- MCProtos
    Ports <- MCPorts
    IPs <- MCIPs
    Masks <- MCMasks
    RefCounts <- MCRefCounts
SPECIFICATION Spec
INVARIANT TypeOK
INVARIANT CIDRDumpMatches
INVARIANT CIDRLookupLongestMatch
INVARIANT SockmapEndpointsMatch
