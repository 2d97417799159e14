---------------------------- MODULE EventSequencer ----------------------------
(***************************************************************************)
(* felix's EventSequencer (src/felix/calc/event_sequencer.go).             *)
(*                                                                         *)
(* The calculation graph reports changes through On* callbacks.  The       *)
(* sequencer buffers them (coalescing repeated changes to one key) and    *)
(* Flush emits them to the dataplane in a fixed order of kinds, so that    *)
(* the dataplane never holds an object whose dependencies it lacks.  It    *)
(* remembers in sent* what it has sent, so that a removal is only emitted  *)
(* for an object the dataplane has.                                        *)
(*                                                                         *)
(* calc is what the calculation graph currently wants downstream; dp is   *)
(* the dataplane's copy, built by applying the emitted messages in order.  *)
(* Both map each key of a kind to its value, or to Absent.  Values are     *)
(* abstracted to the references the properties are about: a policy or     *)
(* profile names the IP sets its rules use, an endpoint the policies and  *)
(* profiles of its tiers, a route the VTEP (node) it goes through.         *)
(*                                                                         *)
(* The kinds that reference nothing (service accounts, namespaces, host   *)
(* IPs and metadata, IP pools, services, wireguard, encapsulation and BGP *)
(* configuration) carry an opaque payload.                                *)
(***************************************************************************)
EXTENDS FiniteSets, FiniteSetsExt, Functions, Sequences, TLC

CONSTANTS
    IPSetIDs, Members,   \* IP-set IDs and members
    PolicyKeys,          \* model.PolicyKey
    ProfileKeys,         \* model.ProfileRulesKey
    EndpointKeys,        \* workload and host endpoint keys
    VTEPNodes,           \* node names with a VXLAN tunnel endpoint
    RouteIDs,            \* routeID (destination CIDR)
    GenericKinds,        \* which of the unreferenced keyed kinds to instantiate
    GenericKeys,         \* their keys
    WireguardNodes,      \* node names with wireguard data
    Payloads,            \* contents of unreferenced objects, encap and BGP config
    ConfigValues,        \* merged global+host config maps
    Absent,              \* "no such object" / a nil pointer or map
    RouteHome,           \* the node a route goes through when routes do not move
    RoutesMayMove        \* whether a route's next-hop node can change

\* Keyed kinds whose objects reference nothing and are referenced by nothing.
UnrefKinds == {"serviceAccounts", "namespaces", "hostIPs", "hostIPv6s",
               "hosts", "ipPools", "services"}

ASSUME /\ RoutesMayMove \in BOOLEAN
       /\ RouteHome \in [RouteIDs -> VTEPNodes]
       /\ GenericKinds \subseteq UnrefKinds
       /\ Absent \notin ConfigValues \cup Payloads

VARIABLES calc, buf, dp

vars == <<calc, buf, dp>>

\* The keys of each kind of keyed object.  Wireguard data of a node is two
\* dataplane objects, its IPv4 and its IPv6 endpoint.
Keys == [ipsets |-> IPSetIDs, policies |-> PolicyKeys, profiles |-> ProfileKeys,
         endpoints |-> EndpointKeys, vteps |-> VTEPNodes, routes |-> RouteIDs,
         wireguard |-> WireguardNodes, wireguardV6 |-> WireguardNodes]
        @@ [kind \in UnrefKinds |-> IF kind \in GenericKinds THEN GenericKeys ELSE {}]

\* The value each key can have.
Value == [ipsets    |-> SUBSET Members,
          policies  |-> SUBSET IPSetIDs,
          profiles  |-> SUBSET IPSetIDs,
          endpoints |-> SUBSET (PolicyKeys \cup ProfileKeys),
          vteps     |-> {TRUE},
          routes    |-> VTEPNodes,
          wireguard |-> {TRUE}, wireguardV6 |-> {TRUE}]
         @@ [kind \in UnrefKinds |-> Payloads]

KeyedKinds == DOMAIN Keys

Present(f) == {k \in DOMAIN f : f[k] # Absent}

NoObjects(c) ==
    [kind \in KeyedKinds |-> [k \in Keys[kind] |-> Absent]]
    @@ [config |-> c, encap |-> Absent, bgp |-> Absent]

\* Every reference an object holds is to an object of the same state.
Closed(d) ==
    /\ \A p \in Present(d.policies) : d.policies[p] \subseteq Present(d.ipsets)
    /\ \A p \in Present(d.profiles) : d.profiles[p] \subseteq Present(d.ipsets)
    /\ \A e \in Present(d.endpoints) :
          d.endpoints[e] \subseteq Present(d.policies) \cup Present(d.profiles)
    /\ \A r \in Present(d.routes) : d.routes[r] \in Present(d.vteps)

-----------------------------------------------------------------------------
(* Messages to the dataplane.  A keyed message names its kind, its         *)
(* operation and its key; an IPSetDeltaUpdate carries <<added, removed>>. *)

Upd(kind, k, v) == [kind |-> kind, op |-> "update", id |-> k, val |-> v]
Rem(kind, k) == [kind |-> kind, op |-> "remove", id |-> k, val |-> Absent]
Delta(s, added, removed) ==
    [kind |-> "ipsets", op |-> "delta", id |-> s, val |-> <<added, removed>>]
NotReadyMsg == [kind |-> "notready", op |-> "update", id |-> Absent, val |-> Absent]
\* ConfigUpdate, Encapsulation and GlobalBGPConfigUpdate: one object each.
SingletonMsg(kind, v) == [kind |-> kind, op |-> "update", id |-> Absent, val |-> v]

\* The dataplane's reading of one message.
ApplyMsg(m, d) ==
    CASE m.kind \in {"config", "encap", "bgp"} -> [d EXCEPT ![m.kind] = m.val]
      [] m.kind = "notready" -> d
      [] m.op = "delta"      -> [d EXCEPT !.ipsets[m.id] = (@ \ m.val[2]) \cup m.val[1]]
      [] m.op = "update"     -> [d EXCEPT ![m.kind][m.id] = m.val]
      [] m.op = "remove"     -> [d EXCEPT ![m.kind][m.id] = Absent]

\* What the dataplane expects of a message: a removal or delta is for an
\* object it has, and a delta adds only non-members and removes only members.
Applicable(m, d) ==
    CASE m.op = "remove" -> d[m.kind][m.id] # Absent
      [] m.op = "delta"  -> /\ d.ipsets[m.id] # Absent
                            /\ m.val[1] \cap d.ipsets[m.id] = {}
                            /\ m.val[2] \subseteq d.ipsets[m.id]
      [] OTHER           -> TRUE

-----------------------------------------------------------------------------
(* The sequencer's buffers (struct EventSequencer).  A Go map is a         *)
(* function whose domain is the keys it holds; a Multidict of IP-set       *)
(* members is a set of <<setID, member>> pairs.                            *)

NoMap == [k \in {} |-> Absent]

InitBuf(c) ==
    [pendingAddedIPSets |-> {}, pendingRemovedIPSets |-> {},
     pendingAddedIPSetMembers |-> {}, pendingRemovedIPSetMembers |-> {},
     pendingPolicyUpdates |-> NoMap, pendingPolicyDeletes |-> {},
     pendingProfileUpdates |-> NoMap, pendingProfileDeletes |-> {},
     pendingEncapUpdate |-> Absent,
     pendingEndpointUpdates |-> NoMap, pendingEndpointDeletes |-> {},
     pendingHostIPUpdates |-> NoMap, pendingHostIPDeletes |-> {},
     pendingHostIPv6Updates |-> NoMap, pendingHostIPv6Deletes |-> {},
     pendingHostMetadataUpdates |-> NoMap, pendingHostMetadataDeletes |-> {},
     pendingIPPoolUpdates |-> NoMap, pendingIPPoolDeletes |-> {},
     pendingNotReady |-> FALSE, pendingGlobalConfig |-> Absent,
     pendingServiceAccountUpdates |-> NoMap, pendingServiceAccountDeletes |-> {},
     pendingNamespaceUpdates |-> NoMap, pendingNamespaceDeletes |-> {},
     pendingRouteUpdates |-> NoMap, pendingRouteDeletes |-> {},
     pendingVTEPUpdates |-> NoMap, pendingVTEPDeletes |-> {},
     pendingWireguardUpdates |-> NoMap, pendingWireguardDeletes |-> {},
     pendingGlobalBGPConfig |-> Absent,
     pendingServiceUpdates |-> NoMap, pendingServiceDeletes |-> {},
     sentIPSets |-> {}, sentPolicies |-> {}, sentProfiles |-> {},
     sentEndpoints |-> {}, sentHostIPs |-> {}, sentHostIPv6s |-> {},
     sentHosts |-> {}, sentIPPools |-> {}, sentServiceAccounts |-> {},
     sentNamespaces |-> {}, sentRoutes |-> {}, sentVTEPs |-> {},
     sentWireguard |-> {}, sentWireguardV6 |-> {}, sentServices |-> {},
     config |-> c]

\* The buffer fields of each keyed kind that follows the common pattern of
\* a pending-update map, a pending-delete set and a sent set.
F(upd, del, sent) == [upd |-> upd, del |-> del, sent |-> sent]
Fields ==
    [policies        |-> F("pendingPolicyUpdates", "pendingPolicyDeletes", "sentPolicies"),
     profiles        |-> F("pendingProfileUpdates", "pendingProfileDeletes", "sentProfiles"),
     endpoints       |-> F("pendingEndpointUpdates", "pendingEndpointDeletes", "sentEndpoints"),
     vteps           |-> F("pendingVTEPUpdates", "pendingVTEPDeletes", "sentVTEPs"),
     routes          |-> F("pendingRouteUpdates", "pendingRouteDeletes", "sentRoutes"),
     serviceAccounts |-> F("pendingServiceAccountUpdates", "pendingServiceAccountDeletes", "sentServiceAccounts"),
     namespaces      |-> F("pendingNamespaceUpdates", "pendingNamespaceDeletes", "sentNamespaces"),
     hostIPs         |-> F("pendingHostIPUpdates", "pendingHostIPDeletes", "sentHostIPs"),
     hostIPv6s       |-> F("pendingHostIPv6Updates", "pendingHostIPv6Deletes", "sentHostIPv6s"),
     hosts           |-> F("pendingHostMetadataUpdates", "pendingHostMetadataDeletes", "sentHosts"),
     ipPools         |-> F("pendingIPPoolUpdates", "pendingIPPoolDeletes", "sentIPPools"),
     services        |-> F("pendingServiceUpdates", "pendingServiceDeletes", "sentServices")]

MembersOf(md, s) == {p[2] : p \in {q \in md : q[1] = s}}
DiscardKey(md, s) == {p \in md : p[1] # s}

-----------------------------------------------------------------------------
(* The callbacks.  Each maps the buffer to its new value; a log.Panic is a *)
(* failed assertion.                                                       *)

OnIPSetAdded(b, s) ==
    IF s \in b.sentIPSets /\ s \notin b.pendingRemovedIPSets
    THEN Assert(FALSE, "OnIPSetAdded called for existing IP set")
    ELSE [b EXCEPT !.pendingAddedIPSets = @ \cup {s},
                   !.pendingRemovedIPSets = @ \ {s},
                   !.pendingAddedIPSetMembers = DiscardKey(@, s),
                   !.pendingRemovedIPSetMembers = DiscardKey(@, s)]

\* sent || updatePending, the guard of the three callbacks below
KnownIPSet(b, s) == s \in b.sentIPSets \cup b.pendingAddedIPSets

OnIPSetRemoved(b, s) ==
    IF ~KnownIPSet(b, s)
    THEN Assert(FALSE, "IPSetRemoved called for unknown IP set")
    ELSE [b EXCEPT !.pendingRemovedIPSets =
                       IF s \in b.sentIPSets THEN @ \cup {s} ELSE @,
                   !.pendingAddedIPSets = @ \ {s},
                   !.pendingAddedIPSetMembers = DiscardKey(@, s),
                   !.pendingRemovedIPSetMembers = DiscardKey(@, s)]

\* Mutant: no cancel-on-opposite.
OnIPSetMemberAddedNoCancel(b, s, m) ==
    IF ~KnownIPSet(b, s)
    THEN Assert(FALSE, "Member added to unknown IP set")
    ELSE [b EXCEPT !.pendingAddedIPSetMembers = @ \cup {<<s, m>>}]

OnIPSetMemberAdded(b, s, m) ==
    IF ~KnownIPSet(b, s)
    THEN Assert(FALSE, "Member added to unknown IP set")
    ELSE IF <<s, m>> \in b.pendingRemovedIPSetMembers
         THEN [b EXCEPT !.pendingRemovedIPSetMembers = @ \ {<<s, m>>}]
         ELSE [b EXCEPT !.pendingAddedIPSetMembers = @ \cup {<<s, m>>}]

OnIPSetMemberRemoved(b, s, m) ==
    IF ~KnownIPSet(b, s)
    THEN Assert(FALSE, "Member removed from unknown IP set")
    ELSE IF <<s, m>> \in b.pendingAddedIPSetMembers
         THEN [b EXCEPT !.pendingAddedIPSetMembers = @ \ {<<s, m>>}]
         ELSE [b EXCEPT !.pendingRemovedIPSetMembers = @ \cup {<<s, m>>}]

OnDatastoreNotReady(b) == [b EXCEPT !.pendingNotReady = TRUE]

OnConfigUpdate(b, c) == [b EXCEPT !.pendingGlobalConfig = c]

\* The update callback of a keyed kind (OnPolicyActive, OnProfileActive,
\* OnEndpointTierUpdate with an endpoint, OnVTEPUpdate, OnRouteUpdate):
\* a queued delete is squashed and the latest value queued.
QueueUpdate(b, kind, k, v) ==
    LET f == Fields[kind]
    IN  [b EXCEPT ![f.del] = @ \ {k}, ![f.upd] = (k :> v) @@ @]

\* Mutant: a delete is queued whether or not the key was sent.
QueueDeleteAlwaysDeletes(b, kind, k) ==
    LET f == Fields[kind]
    IN  [b EXCEPT ![f.upd] = Restrict(@, DOMAIN @ \ {k}), ![f.del] = @ \cup {k}]

\* The removal callback of a keyed kind (OnPolicyInactive, ...,
\* OnRouteRemove): a queued update is squashed and a delete is queued
\* only for a key that has been sent.
QueueDelete(b, kind, k) ==
    LET f == Fields[kind]
    IN  [b EXCEPT ![f.upd] = Restrict(@, DOMAIN @ \ {k}),
                  ![f.del] = IF k \in b[f.sent] THEN @ \cup {k} ELSE @]

\* OnWireguardUpdate: wg is [v4, v6], whether each public key is set.
OnWireguardUpdate(b, n, wg) ==
    [b EXCEPT !.pendingWireguardDeletes = @ \ {n},
              !.pendingWireguardUpdates = (n :> wg) @@ @]

\* OnWireguardRemove queues a delete whether or not anything was sent;
\* the flush looks at the sent sets.
OnWireguardRemove(b, n) ==
    [b EXCEPT !.pendingWireguardUpdates = Restrict(@, DOMAIN @ \ {n}),
              !.pendingWireguardDeletes = @ \cup {n}]

OnEncapUpdate(b, e) == [b EXCEPT !.pendingEncapUpdate = e]

\* A nil BGPConfiguration yields an empty GlobalBGPConfigUpdate, which is
\* one of the payloads.
OnGlobalBGPConfigUpdate(b, v) == [b EXCEPT !.pendingGlobalBGPConfig = v]

\* The keyed callbacks, each an instance of QueueUpdate or QueueDelete.
\* An endpoint update with a nil endpoint is a deletion.
OnPolicyActive(b, k, v) == QueueUpdate(b, "policies", k, v)
OnPolicyInactive(b, k) == QueueDelete(b, "policies", k)
OnProfileActive(b, k, v) == QueueUpdate(b, "profiles", k, v)
OnProfileInactive(b, k) == QueueDelete(b, "profiles", k)
OnEndpointTierUpdate(b, k, v) ==
    IF v = Absent THEN QueueDelete(b, "endpoints", k)
    ELSE QueueUpdate(b, "endpoints", k, v)
OnHostIPUpdate(b, k, v) == QueueUpdate(b, "hostIPs", k, v)
OnHostIPRemove(b, k) == QueueDelete(b, "hostIPs", k)
OnHostIPv6Update(b, k, v) == QueueUpdate(b, "hostIPv6s", k, v)
OnHostIPv6Remove(b, k) == QueueDelete(b, "hostIPv6s", k)
OnHostMetadataUpdate(b, k, v) == QueueUpdate(b, "hosts", k, v)
OnHostMetadataRemove(b, k) == QueueDelete(b, "hosts", k)
OnIPPoolUpdate(b, k, v) == QueueUpdate(b, "ipPools", k, v)
OnIPPoolRemove(b, k) == QueueDelete(b, "ipPools", k)
OnServiceAccountUpdate(b, k, v) == QueueUpdate(b, "serviceAccounts", k, v)
OnServiceAccountRemove(b, k) == QueueDelete(b, "serviceAccounts", k)
OnNamespaceUpdate(b, k, v) == QueueUpdate(b, "namespaces", k, v)
OnNamespaceRemove(b, k) == QueueDelete(b, "namespaces", k)
OnVTEPUpdate(b, k, v) == QueueUpdate(b, "vteps", k, v)
OnVTEPRemove(b, k) == QueueDelete(b, "vteps", k)
OnRouteUpdate(b, k, v) == QueueUpdate(b, "routes", k, v)
OnRouteRemove(b, k) == QueueDelete(b, "routes", k)
OnServiceUpdate(b, k, v) == QueueUpdate(b, "services", k, v)
OnServiceRemove(b, k) == QueueDelete(b, "services", k)

\* The callback the calculation graph calls for an object of a kind that
\* now has value v, or that it no longer wants.
UpdateCallback(b, kind, k, v) ==
    CASE kind = "policies"        -> OnPolicyActive(b, k, v)
      [] kind = "profiles"        -> OnProfileActive(b, k, v)
      [] kind = "endpoints"       -> OnEndpointTierUpdate(b, k, v)
      [] kind = "hostIPs"         -> OnHostIPUpdate(b, k, v)
      [] kind = "hostIPv6s"       -> OnHostIPv6Update(b, k, v)
      [] kind = "hosts"           -> OnHostMetadataUpdate(b, k, v)
      [] kind = "ipPools"         -> OnIPPoolUpdate(b, k, v)
      [] kind = "serviceAccounts" -> OnServiceAccountUpdate(b, k, v)
      [] kind = "namespaces"      -> OnNamespaceUpdate(b, k, v)
      [] kind = "vteps"           -> OnVTEPUpdate(b, k, v)
      [] kind = "routes"          -> OnRouteUpdate(b, k, v)
      [] kind = "services"        -> OnServiceUpdate(b, k, v)
RemoveCallback(b, kind, k) ==
    CASE kind = "policies"        -> OnPolicyInactive(b, k)
      [] kind = "profiles"        -> OnProfileInactive(b, k)
      [] kind = "endpoints"       -> OnEndpointTierUpdate(b, k, Absent)
      [] kind = "hostIPs"         -> OnHostIPRemove(b, k)
      [] kind = "hostIPv6s"       -> OnHostIPv6Remove(b, k)
      [] kind = "hosts"           -> OnHostMetadataRemove(b, k)
      [] kind = "ipPools"         -> OnIPPoolRemove(b, k)
      [] kind = "serviceAccounts" -> OnServiceAccountRemove(b, k)
      [] kind = "namespaces"      -> OnNamespaceRemove(b, k)
      [] kind = "vteps"           -> OnVTEPRemove(b, k)
      [] kind = "routes"          -> OnRouteRemove(b, k)
      [] kind = "services"        -> OnServiceRemove(b, k)

-----------------------------------------------------------------------------
(* Flush.  Each flush* step maps [b |-> buffer, d |-> dataplane] to the    *)
(* buffer after it, the messages it emits and the dataplane after it has   *)
(* applied them.  A step ranges over one Go map or set, so its messages    *)
(* are for distinct keys of one kind and the dataplane may apply them in   *)
(* any order: the order the map iteration picks does not matter.          *)

Stage(st, nb, msgs) ==
    [b |-> nb, d |-> FoldSet(ApplyMsg, st.d, msgs), msgs |-> msgs]

flushReadyFlag(st) ==
    IF ~st.b.pendingNotReady THEN Stage(st, st.b, {})
    ELSE Stage(st, [st.b EXCEPT !.pendingNotReady = FALSE], {NotReadyMsg})

\* Mutant: the merged config is not recorded.
flushConfigUpdateNoRecord(st) ==
    LET c == st.b.pendingGlobalConfig
    IN  IF c = Absent THEN Stage(st, st.b, {})
        ELSE Stage(st, [st.b EXCEPT !.pendingGlobalConfig = Absent],
                   IF c # st.b.config THEN {SingletonMsg("config", c)} ELSE {})

\* UpdateFrom reports a change when the new maps differ from the config.
flushConfigUpdate(st) ==
    LET c == st.b.pendingGlobalConfig
    IN  IF c = Absent THEN Stage(st, st.b, {})
        ELSE Stage(st, [st.b EXCEPT !.config = c, !.pendingGlobalConfig = Absent],
                   IF c # st.b.config THEN {SingletonMsg("config", c)} ELSE {})

flushAddedIPSets(st) ==
    LET b == st.b
    IN  Stage(st, [b EXCEPT !.pendingAddedIPSets = {},
                            !.pendingAddedIPSetMembers =
                                {p \in @ : p[1] \notin b.pendingAddedIPSets},
                            !.sentIPSets = @ \cup b.pendingAddedIPSets],
              {Upd("ipsets", s, MembersOf(b.pendingAddedIPSetMembers, s)) :
                  s \in b.pendingAddedIPSets})

\* flushAddsOrRemoves for every set with a pending member change: one
\* IPSetDeltaUpdate with its added and removed members.
flushIPSetDeltas(st) ==
    LET b == st.b
        md == b.pendingAddedIPSetMembers \cup b.pendingRemovedIPSetMembers
    IN  Stage(st, [b EXCEPT !.pendingAddedIPSetMembers = {},
                            !.pendingRemovedIPSetMembers = {}],
              {Delta(s, MembersOf(b.pendingAddedIPSetMembers, s),
                        MembersOf(b.pendingRemovedIPSetMembers, s)) :
                  s \in {p[1] : p \in md}})

\* Mutant: a removed set stays in sentIPSets.
flushRemovedIPSetsKeepsSent(st) ==
    LET b == st.b
        rm == b.pendingRemovedIPSets
    IN  Stage(st, [b EXCEPT !.pendingRemovedIPSets = {},
                            !.pendingAddedIPSetMembers = {p \in @ : p[1] \notin rm},
                            !.pendingRemovedIPSetMembers = {p \in @ : p[1] \notin rm}],
              {Rem("ipsets", s) : s \in rm})

flushRemovedIPSets(st) ==
    LET b == st.b
        rm == b.pendingRemovedIPSets
    IN  Stage(st, [b EXCEPT !.pendingRemovedIPSets = {},
                            !.pendingAddedIPSetMembers = {p \in @ : p[1] \notin rm},
                            !.pendingRemovedIPSetMembers = {p \in @ : p[1] \notin rm},
                            !.sentIPSets = @ \ rm],
              {Rem("ipsets", s) : s \in rm})

\* The pattern of every keyed update flush: send every queued value and
\* record its key as sent.
flushUpdates(st, kind) ==
    LET f == Fields[kind]
        u == st.b[f.upd]
    IN  Stage(st, [st.b EXCEPT ![f.upd] = NoMap, ![f.sent] = @ \cup DOMAIN u],
              {Upd(kind, k, u[k]) : k \in DOMAIN u})

\* The pattern of every keyed delete flush: send a removal for every
\* queued key and forget that it was sent.
flushDeletes(st, kind) ==
    LET f == Fields[kind]
        del == st.b[f.del]
    IN  Stage(st, [st.b EXCEPT ![f.del] = {}, ![f.sent] = @ \ del],
              {Rem(kind, k) : k \in del})

\* Mutant: a wireguard delete sends the IPv6 remove without checking that
\* the IPv6 endpoint was sent.
flushHostWireguardDeletesNoV6Check(st) ==
    LET b == st.b
        del == b.pendingWireguardDeletes
    IN  Stage(st, [b EXCEPT !.pendingWireguardDeletes = {},
                            !.sentWireguard = @ \ del,
                            !.sentWireguardV6 = @ \ del],
              {Rem("wireguard", n) : n \in del \cap b.sentWireguard}
              \cup {Rem("wireguardV6", n) : n \in del})

flushHostWireguardDeletes(st) ==
    LET b == st.b
        del == b.pendingWireguardDeletes
    IN  Stage(st, [b EXCEPT !.pendingWireguardDeletes = {},
                            !.sentWireguard = @ \ del,
                            !.sentWireguardV6 = @ \ del],
              {Rem("wireguard", n) : n \in del \cap b.sentWireguard}
              \cup {Rem("wireguardV6", n) : n \in del \cap b.sentWireguardV6})

\* Mutant: an endpoint whose key was cleared is removed but stays in the
\* sent set.
flushHostWireguardUpdatesKeepsSent(st) ==
    LET b == st.b
        u == b.pendingWireguardUpdates
        on4 == {n \in DOMAIN u : u[n].v4}
        off4 == {n \in DOMAIN u : ~u[n].v4} \cap b.sentWireguard
        on6 == {n \in DOMAIN u : u[n].v6}
        off6 == {n \in DOMAIN u : ~u[n].v6} \cap b.sentWireguardV6
    IN  Stage(st, [b EXCEPT !.pendingWireguardUpdates = NoMap,
                            !.sentWireguard = @ \cup on4,
                            !.sentWireguardV6 = @ \cup on6],
              {Upd("wireguard", n, TRUE) : n \in on4} \cup {Rem("wireguard", n) : n \in off4}
              \cup {Upd("wireguardV6", n, TRUE) : n \in on6} \cup {Rem("wireguardV6", n) : n \in off6})

\* Per node, an update for each address family whose key is set, and a
\* remove for one whose key is empty but which was sent.
flushHostWireguardUpdates(st) ==
    LET b == st.b
        u == b.pendingWireguardUpdates
        on4 == {n \in DOMAIN u : u[n].v4}
        off4 == {n \in DOMAIN u : ~u[n].v4} \cap b.sentWireguard
        on6 == {n \in DOMAIN u : u[n].v6}
        off6 == {n \in DOMAIN u : ~u[n].v6} \cap b.sentWireguardV6
    IN  Stage(st, [b EXCEPT !.pendingWireguardUpdates = NoMap,
                            !.sentWireguard = (@ \cup on4) \ off4,
                            !.sentWireguardV6 = (@ \cup on6) \ off6],
              {Upd("wireguard", n, TRUE) : n \in on4} \cup {Rem("wireguard", n) : n \in off4}
              \cup {Upd("wireguardV6", n, TRUE) : n \in on6} \cup {Rem("wireguardV6", n) : n \in off6})

flushEncapUpdate(st) ==
    LET e == st.b.pendingEncapUpdate
    IN  IF e = Absent THEN Stage(st, st.b, {})
        ELSE Stage(st, [st.b EXCEPT !.pendingEncapUpdate = Absent],
                   {SingletonMsg("encap", e)})

\* The global BGP configuration, flushed inline in Flush.
flushGlobalBGPConfig(st) ==
    LET v == st.b.pendingGlobalBGPConfig
    IN  IF v = Absent THEN Stage(st, st.b, {})
        ELSE Stage(st, [st.b EXCEPT !.pendingGlobalBGPConfig = Absent],
                   {SingletonMsg("bgp", v)})

\* The keyed flushes, each an instance of flushUpdates or flushDeletes.
flushPolicyUpdates(st) == flushUpdates(st, "policies")
flushPolicyDeletes(st) == flushDeletes(st, "policies")
flushProfileUpdates(st) == flushUpdates(st, "profiles")
flushProfileDeletes(st) == flushDeletes(st, "profiles")
flushEndpointTierUpdates(st) == flushUpdates(st, "endpoints")
flushEndpointTierDeletes(st) == flushDeletes(st, "endpoints")
flushHostIPUpdates(st) == flushUpdates(st, "hostIPs")
flushHostIPDeletes(st) == flushDeletes(st, "hostIPs")
flushHostIPv6Updates(st) == flushUpdates(st, "hostIPv6s")
flushHostIPv6Deletes(st) == flushDeletes(st, "hostIPv6s")
flushHostUpdates(st) == flushUpdates(st, "hosts")
flushHostDeletes(st) == flushDeletes(st, "hosts")
flushIPPoolUpdates(st) == flushUpdates(st, "ipPools")
flushIPPoolDeletes(st) == flushDeletes(st, "ipPools")
flushVTEPAdds(st) == flushUpdates(st, "vteps")
flushVTEPRemoves(st) == flushDeletes(st, "vteps")
flushRouteAdds(st) == flushUpdates(st, "routes")
flushRouteRemoves(st) == flushDeletes(st, "routes")

\* flushServiceAccounts, flushNamespaces and flushServices send a kind's
\* deletes and then its updates, in one method.
DeletesThenUpdates(st, kind) ==
    LET del == flushDeletes(st, kind)
        upd == flushUpdates(del, kind)
    IN  [upd EXCEPT !.msgs = del.msgs \cup @]
flushServiceAccounts(st) == DeletesThenUpdates(st, "serviceAccounts")
flushNamespaces(st) == DeletesThenUpdates(st, "namespaces")
flushServices(st) == DeletesThenUpdates(st, "services")

\* One step of Flush, named by the flush* method it calls.
FlushStep(st, step) ==
    CASE step = "flushReadyFlag"            -> flushReadyFlag(st)
      [] step = "flushConfigUpdate"         -> flushConfigUpdate(st)
      [] step = "flushAddedIPSets"          -> flushAddedIPSets(st)
      [] step = "flushIPSetDeltas"          -> flushIPSetDeltas(st)
      [] step = "flushPolicyUpdates"        -> flushPolicyUpdates(st)
      [] step = "flushProfileUpdates"       -> flushProfileUpdates(st)
      [] step = "flushEndpointTierUpdates"  -> flushEndpointTierUpdates(st)
      [] step = "flushEndpointTierDeletes"  -> flushEndpointTierDeletes(st)
      [] step = "flushProfileDeletes"       -> flushProfileDeletes(st)
      [] step = "flushPolicyDeletes"        -> flushPolicyDeletes(st)
      [] step = "flushRemovedIPSets"        -> flushRemovedIPSets(st)
      [] step = "flushServiceAccounts"      -> flushServiceAccounts(st)
      [] step = "flushNamespaces"           -> flushNamespaces(st)
      [] step = "flushRouteRemoves"         -> flushRouteRemoves(st)
      [] step = "flushVTEPRemoves"          -> flushVTEPRemoves(st)
      [] step = "flushVTEPAdds"             -> flushVTEPAdds(st)
      [] step = "flushRouteAdds"            -> flushRouteAdds(st)
      [] step = "flushHostWireguardDeletes" -> flushHostWireguardDeletes(st)
      [] step = "flushHostWireguardUpdates" -> flushHostWireguardUpdates(st)
      [] step = "flushHostIPDeletes"        -> flushHostIPDeletes(st)
      [] step = "flushHostIPUpdates"        -> flushHostIPUpdates(st)
      [] step = "flushHostIPv6Deletes"      -> flushHostIPv6Deletes(st)
      [] step = "flushHostIPv6Updates"      -> flushHostIPv6Updates(st)
      [] step = "flushHostDeletes"          -> flushHostDeletes(st)
      [] step = "flushHostUpdates"          -> flushHostUpdates(st)
      [] step = "flushIPPoolDeletes"        -> flushIPPoolDeletes(st)
      [] step = "flushIPPoolUpdates"        -> flushIPPoolUpdates(st)
      [] step = "flushEncapUpdate"          -> flushEncapUpdate(st)
      [] step = "flushGlobalBGPConfig"      -> flushGlobalBGPConfig(st)
      [] step = "flushServices"             -> flushServices(st)

\* The parts of Flush's order.
FlushHead == <<"flushReadyFlag", "flushConfigUpdate">>
FlushAdds ==
    <<"flushAddedIPSets", "flushIPSetDeltas", "flushPolicyUpdates",
      "flushProfileUpdates", "flushEndpointTierUpdates">>
FlushRemovals ==
    <<"flushEndpointTierDeletes", "flushProfileDeletes", "flushPolicyDeletes",
      "flushRemovedIPSets">>
FlushSAsAndNamespaces == <<"flushServiceAccounts", "flushNamespaces">>
FlushVXLAN ==
    <<"flushRouteRemoves", "flushVTEPRemoves", "flushVTEPAdds", "flushRouteAdds">>
FlushClusterWide ==
    <<"flushHostWireguardDeletes", "flushHostWireguardUpdates",
      "flushHostIPDeletes", "flushHostIPUpdates",
      "flushHostIPv6Deletes", "flushHostIPv6Updates",
      "flushHostDeletes", "flushHostUpdates",
      "flushIPPoolDeletes", "flushIPPoolUpdates",
      "flushEncapUpdate", "flushGlobalBGPConfig", "flushServices">>

\* Mutants of the order of Flush: removals in forward dependency order,
\* profile deletes before endpoint deletes, VTEP removes before route removes.
FlushOrderRemovalsForward ==
    FlushHead \o FlushAdds
    \o <<"flushRemovedIPSets", "flushPolicyDeletes", "flushProfileDeletes",
         "flushEndpointTierDeletes">>
    \o FlushSAsAndNamespaces \o FlushVXLAN \o FlushClusterWide
FlushOrderProfilesFirst ==
    FlushHead \o FlushAdds
    \o <<"flushProfileDeletes", "flushEndpointTierDeletes", "flushPolicyDeletes",
         "flushRemovedIPSets">>
    \o FlushSAsAndNamespaces \o FlushVXLAN \o FlushClusterWide
FlushOrderVTEPsFirst ==
    FlushHead \o FlushAdds \o FlushRemovals \o FlushSAsAndNamespaces
    \o <<"flushVTEPRemoves", "flushRouteRemoves", "flushVTEPAdds", "flushRouteAdds">>
    \o FlushClusterWide

\* The order in which Flush calls the flush* methods.
FlushOrder ==
    FlushHead \o FlushAdds \o FlushRemovals \o FlushSAsAndNamespaces
    \o FlushVXLAN \o FlushClusterWide

\* The states Flush passes through from st on, taking the steps in order.
RECURSIVE StepsFrom(_, _)
StepsFrom(st, order) ==
    IF order = <<>> THEN <<st>>
    ELSE <<st>> \o StepsFrom(FlushStep(st, Head(order)), Tail(order))

\* The states Flush passes through, the state before it first.
FlushSteps(b, d) == StepsFrom([b |-> b, d |-> d, msgs |-> {}], FlushOrder)

-----------------------------------------------------------------------------
(* The calculation graph, which is not under src/, is modelled from the    *)
(* sequencer's contract: it changes what it wants downstream one object   *)
(* at a time, reporting each change through the matching callback, and    *)
(* it calls Flush only once it has finished a batch, when what it wants    *)
(* is closed under references.  Any value may be re-sent.                 *)

Init ==
    \E c \in ConfigValues :
        /\ calc = NoObjects(c)
        /\ dp = NoObjects(c)
        /\ buf = InitBuf(c)

IPSetAdded(s) ==
    /\ calc.ipsets[s] = Absent
    /\ calc' = [calc EXCEPT !.ipsets[s] = {}]
    /\ buf' = OnIPSetAdded(buf, s)
    /\ UNCHANGED dp

IPSetRemoved(s) ==
    /\ calc.ipsets[s] # Absent
    /\ calc' = [calc EXCEPT !.ipsets[s] = Absent]
    /\ buf' = OnIPSetRemoved(buf, s)
    /\ UNCHANGED dp

IPSetMemberAdded(s, m) ==
    /\ calc.ipsets[s] # Absent /\ m \notin calc.ipsets[s]
    /\ calc' = [calc EXCEPT !.ipsets[s] = @ \cup {m}]
    /\ buf' = OnIPSetMemberAdded(buf, s, m)
    /\ UNCHANGED dp

IPSetMemberRemoved(s, m) ==
    /\ calc.ipsets[s] # Absent /\ m \in calc.ipsets[s]
    /\ calc' = [calc EXCEPT !.ipsets[s] = @ \ {m}]
    /\ buf' = OnIPSetMemberRemoved(buf, s, m)
    /\ UNCHANGED dp

\* OnPolicyActive, OnProfileActive, OnEndpointTierUpdate(key, endpoint),
\* OnVTEPUpdate, OnRouteUpdate, and the update callbacks of service
\* accounts, namespaces, host IPs, host metadata, IP pools and services.
Active(kind, k, v) ==
    /\ calc' = [calc EXCEPT ![kind][k] = v]
    /\ buf' = UpdateCallback(buf, kind, k, v)
    /\ UNCHANGED dp

\* OnPolicyInactive, OnProfileInactive, OnEndpointTierUpdate(key, nil),
\* OnVTEPRemove, OnRouteRemove and the other kinds' remove callbacks.
Inactive(kind, k) ==
    /\ calc[kind][k] # Absent
    /\ calc' = [calc EXCEPT ![kind][k] = Absent]
    /\ buf' = RemoveCallback(buf, kind, k)
    /\ UNCHANGED dp

\* The next hops a route update may carry.
RouteTargets(r) == IF RoutesMayMove THEN VTEPNodes ELSE {RouteHome[r]}

\* OnWireguardUpdate: the node's IPv4 and IPv6 endpoints exist downstream
\* exactly when their public keys are set.
WireguardUpdate(n, wg) ==
    /\ calc' = [calc EXCEPT !.wireguard[n] = IF wg.v4 THEN TRUE ELSE Absent,
                            !.wireguardV6[n] = IF wg.v6 THEN TRUE ELSE Absent]
    /\ buf' = OnWireguardUpdate(buf, n, wg)
    /\ UNCHANGED dp

\* OnWireguardRemove, which the calculation graph may call for a node
\* whose endpoints it never had.
WireguardRemove(n) ==
    /\ calc' = [calc EXCEPT !.wireguard[n] = Absent, !.wireguardV6[n] = Absent]
    /\ buf' = OnWireguardRemove(buf, n)
    /\ UNCHANGED dp

EncapUpdate(e) ==
    /\ calc' = [calc EXCEPT !.encap = e]
    /\ buf' = OnEncapUpdate(buf, e)
    /\ UNCHANGED dp

GlobalBGPConfigUpdate(v) ==
    /\ calc' = [calc EXCEPT !.bgp = v]
    /\ buf' = OnGlobalBGPConfigUpdate(buf, v)
    /\ UNCHANGED dp

DatastoreNotReady ==
    /\ buf' = OnDatastoreNotReady(buf)
    /\ UNCHANGED <<calc, dp>>

ConfigUpdate(c) ==
    /\ calc' = [calc EXCEPT !.config = c]
    /\ buf' = OnConfigUpdate(buf, c)
    /\ UNCHANGED dp

\* Flush, the dataplane applying its messages as they come.
Flush ==
    /\ Closed(calc)
    /\ LET steps == FlushSteps(buf, dp)
       IN  /\ buf' = steps[Len(steps)].b
           /\ dp' = steps[Len(steps)].d
    /\ UNCHANGED calc

Next ==
    \/ \E s \in IPSetIDs : IPSetAdded(s) \/ IPSetRemoved(s)
    \/ \E s \in IPSetIDs, m \in Members :
          IPSetMemberAdded(s, m) \/ IPSetMemberRemoved(s, m)
    \/ \E kind \in DOMAIN Fields \ {"routes"} :
          \E k \in Keys[kind], v \in Value[kind] : Active(kind, k, v)
    \/ \E r \in RouteIDs : \E n \in RouteTargets(r) : Active("routes", r, n)
    \/ \E kind \in DOMAIN Fields : \E k \in Keys[kind] : Inactive(kind, k)
    \/ \E n \in WireguardNodes, wg \in [v4 : BOOLEAN, v6 : BOOLEAN] :
          WireguardUpdate(n, wg)
    \/ \E n \in WireguardNodes : WireguardRemove(n)
    \/ \E e \in Payloads : EncapUpdate(e)
    \/ \E v \in Payloads : GlobalBGPConfigUpdate(v)
    \/ DatastoreNotReady
    \/ \E c \in ConfigValues : ConfigUpdate(c)
    \/ Flush

Spec == Init /\ [][Next]_vars

-----------------------------------------------------------------------------
(* Properties *)

\* Flush's order of kinds keeps the dataplane closed under references at
\* every point of a flush: no policy or profile uses an IP set, no endpoint
\* a policy or profile, and no route a VTEP, that the dataplane lacks.
NoDanglingReferences ==
    Closed(calc) =>
        LET steps == FlushSteps(buf, dp)
        IN  \A i \in DOMAIN steps : Closed(steps[i].d)

\* Coalescing is exact: every removal Flush emits is for an object the
\* dataplane holds, and every IP-set delta adds only members the set lacks
\* and removes only members it has.
EveryMessageApplies ==
    Closed(calc) =>
        LET steps == FlushSteps(buf, dp)
        IN  \A i \in 2..Len(steps) :
               \A m \in steps[i].msgs : Applicable(m, steps[i-1].d)

\* The sent* sets are the dataplane's keys, and the buffers hold exactly the
\* difference between the dataplane and what the calculation graph wants:
\* a flush now would leave the dataplane equal to calc.
BuffersTrackDataplane ==
    /\ buf.sentIPSets = Present(dp.ipsets)
    /\ \A kind \in DOMAIN Fields : buf[Fields[kind].sent] = Present(dp[kind])
    /\ buf.sentWireguard = Present(dp.wireguard)
    /\ buf.sentWireguardV6 = Present(dp.wireguardV6)
    /\ buf.config = dp.config
    /\ LET steps == FlushSteps(buf, dp)
       IN  steps[Len(steps)].d = calc

====
