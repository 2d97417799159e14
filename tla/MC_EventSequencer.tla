------------------------- MODULE MC_EventSequencer -------------------------
(* Model-checking instances of EventSequencer.  The policy instance has   *)
(* two IP sets, one member, one policy and one endpoint; the profile and   *)
(* route instance has one IP set, one profile, one endpoint, one VTEP node *)
(* and one route through it, and two config values so that a config       *)
(* update can and cannot be a change; the route-move instance has two      *)
(* VTEP nodes and one route that may move between them; the cluster-wide   *)
(* instance has one generic key and one wireguard node.                    *)
EXTENDS EventSequencer, TierInfo

CONSTANTS s1, s2, m1, p1, pr1, e1, n1, n2, r1, r2, c1, c2, g1, w1, v1, v2

MCConfigValues == {c1, c2}

\* the policy instance
PolIPSetIDs == {s1, s2}
PolMembers == {m1}
PolPolicyKeys == {p1}
PolProfileKeys == {}
OneConfig == {c1}
PolEndpointKeys == {e1}

\* the profile instance
ProfIPSetIDs == {s1}
ProfProfileKeys == {pr1}

\* the VTEP nodes a route may move between
RtVTEPNodes == {n1, n2}

\* one route, homed on n1 until it moves
OneVTEPNode == {n1}
MoveRouteIDs == {r1}
MoveRouteHome == r1 :> n1

\* the cluster-wide instance: one key of one unreferenced kind (they all
\* share QueueUpdate, QueueDelete, flushUpdates and flushDeletes), one
\* wireguard node, and two payloads for that kind, encap and BGP config
ClusterKinds == {"services"}
ClusterKeys == {g1}
ClusterWireguardNodes == {w1}
ClusterPayloads == {v1, v2}

NoKeys == {}
NoKinds == {}
NoRouteHome == [r \in {} |-> n1]

\* IP-set IDs are interchangeable (the policy instance's safety runs).
PolSymmetry == Permutations(PolIPSetIDs)

\* flushEndpointTierUpdates converts the tiers of each endpoint it emits
\* with tierInfoToProtoTierInfo: whenever an endpoint update is pending,
\* the conversion its flush will run gives every endpoint exactly the
\* policies that apply to it (TierInfoMatchesReference, over every
\* bounded tier list).
EndpointTierInfosCorrect ==
    buf.pendingEndpointUpdates # NoMap => TierInfoMatchesReference

=============================================================================
