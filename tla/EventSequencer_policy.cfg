\* IP sets, policies, profiles and endpoints: flush order and coalescing.
CONSTANTS
    s1 = s1
    s2 = s2
    m1 = m1
    p1 = p1
    pr1 = pr1
    e1 = e1
    n1 = n1
    n2 = n2
    r1 = r1
    r2 = r2
    c1 = c1
    c2 = c2
    g1 = g1
    w1 = w1
    v1 = v1
    v2 = v2
    Absent = Absent
    IPSetIDs <- PolIPSetIDs
    Members <- PolMembers
    PolicyKeys <- PolPolicyKeys
    ProfileKeys <- PolProfileKeys
    EndpointKeys <- PolEndpointKeys
    VTEPNodes <- NoKeys
    RouteIDs <- NoKeys
    RouteHome <- NoRouteHome
    GenericKinds <- NoKinds
    GenericKeys <- NoKeys
    WireguardNodes <- NoKeys
    Payloads <- NoKeys
    ConfigValues <- OneConfig
    RoutesMayMove = FALSE
SPECIFICATION Spec
INVARIANT NoDanglingReferences
INVARIANT EveryMessageApplies
INVARIANT BuffersTrackDataplane
INVARIANT EndpointTierInfosCorrect
SYMMETRY PolSymmetry
