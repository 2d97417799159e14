------------------------------ MODULE TierInfo ------------------------------
(***************************************************************************)
(* tierInfoToProtoTierInfo and addPolicyToTierInfo of                     *)
(* src/felix/calc/event_sequencer.go: the conversion, run for each queued  *)
(* endpoint by flushEndpointTierUpdates, of the tiers of policies that     *)
(* apply to an endpoint into the four tier lists of its endpoint message  *)
(* (normal, untracked, pre-DNAT and forward tiers).                        *)
(*                                                                         *)
(* A policy (PolKV) is abstracted to its name and the five predicates the *)
(* conversion reads: DoNotTrack, PreDNAT, ApplyOnForward, GovernsIngress   *)
(* and GovernsEgress.  A tier (TierInfo) is its name, default action and   *)
(* ordered policies; a proto.TierInfo its name, default action and the     *)
(* names of its ingress and egress policies, in order.                     *)
(***************************************************************************)
EXTENDS Naturals, Sequences, SequencesExt

\* The four lists of the endpoint message.
Lists == {"normal", "untracked", "preDNAT", "forward"}

ProtoTier(name, action) ==
    [name |-> name, action |-> action, ingress |-> <<>>, egress |-> <<>>]

addPolicyToTierInfo(pol, t, egressAllowed) ==
    [t EXCEPT !.ingress = IF pol.ingress THEN Append(@, pol.name) ELSE @,
              !.egress = IF egressAllowed /\ pol.egress THEN Append(@, pol.name) ELSE @]

\* Mutant: pre-DNAT policies keep their egress side.
AddToTiersPreDNATEgress(t, pol) ==
    CASE pol.doNotTrack -> [t EXCEPT !.untracked = addPolicyToTierInfo(pol, @, TRUE)]
      [] pol.preDNAT    -> [t EXCEPT !.preDNAT = addPolicyToTierInfo(pol, @, TRUE)]
      [] OTHER -> [t EXCEPT !.forward = IF pol.applyOnForward
                                        THEN addPolicyToTierInfo(pol, @, TRUE) ELSE @,
                            !.normal = addPolicyToTierInfo(pol, @, TRUE)]

\* The body of the loop over ti.OrderedPolicies: an untracked policy goes
\* to the untracked tier, else a pre-DNAT one to the pre-DNAT tier without
\* its egress side, else to the normal tier and, if it applies on forward,
\* to the forward tier too.
AddToTiers(t, pol) ==
    CASE pol.doNotTrack -> [t EXCEPT !.untracked = addPolicyToTierInfo(pol, @, TRUE)]
      [] pol.preDNAT    -> [t EXCEPT !.preDNAT = addPolicyToTierInfo(pol, @, FALSE)]
      [] OTHER -> [t EXCEPT !.forward = IF pol.applyOnForward
                                        THEN addPolicyToTierInfo(pol, @, TRUE) ELSE @,
                            !.normal = addPolicyToTierInfo(pol, @, TRUE)]

\* The four proto tiers built from one tier; untracked and pre-DNAT tiers
\* pass by default so that the normal tiers are still checked.
TierInfos(ti) ==
    FoldLeft(AddToTiers,
             [untracked |-> ProtoTier(ti.name, "Pass"),
              preDNAT   |-> ProtoTier(ti.name, "Pass"),
              forward   |-> ProtoTier(ti.name, ti.action),
              normal    |-> ProtoTier(ti.name, ti.action)],
             ti.policies)

HasPolicies(t) == t.ingress # <<>> \/ t.egress # <<>>

\* A tier is appended to a list only when it has a policy there.
AppendTier(out, ti) ==
    LET t == TierInfos(ti)
    IN  [l \in Lists |-> IF HasPolicies(t[l]) THEN Append(out[l], t[l]) ELSE out[l]]

tierInfoToProtoTierInfo(filteredTiers) ==
    FoldLeft(AppendTier, [l \in Lists |-> <<>>], filteredTiers)

-----------------------------------------------------------------------------
(* The reference: what each list means for the dataplane.                  *)

\* Whether a policy is enforced in a list, and whether its egress side is.
Enforced(l, pol) ==
    CASE l = "untracked" -> pol.doNotTrack
      [] l = "preDNAT"   -> pol.preDNAT /\ ~pol.doNotTrack
      [] l = "normal"    -> ~pol.doNotTrack /\ ~pol.preDNAT
      [] l = "forward"   -> ~pol.doNotTrack /\ ~pol.preDNAT /\ pol.applyOnForward
EgressEnforced(l, pol) == Enforced(l, pol) /\ pol.egress /\ l # "preDNAT"

Names(pols) == [i \in 1..Len(pols) |-> pols[i].name]

\* The list l of the message: each tier, in order, with the names of the
\* policies enforced there, omitting tiers with none.
RefTier(l, ti) ==
    [name |-> ti.name,
     action |-> IF l \in {"untracked", "preDNAT"} THEN "Pass" ELSE ti.action,
     ingress |-> Names(SelectSeq(ti.policies, LAMBDA p : Enforced(l, p) /\ p.ingress)),
     egress |-> Names(SelectSeq(ti.policies, LAMBDA p : EgressEnforced(l, p)))]
RefList(l, tiers) ==
    SelectSeq([i \in 1..Len(tiers) |-> RefTier(l, tiers[i])], HasPolicies)

\* Bounded inputs: at most two tiers holding at most two policies between
\* them, with every combination of flags the API allows (a policy is not
\* both untracked and pre-DNAT), two names for each, both default actions.
PolicyFlags ==
    {f \in [doNotTrack : BOOLEAN, preDNAT : BOOLEAN, applyOnForward : BOOLEAN,
            ingress : BOOLEAN, egress : BOOLEAN] : ~(f.doNotTrack /\ f.preDNAT)}
Pol(name, f) == [name |-> name] @@ f
TierOf(name, action, pols) == [name |-> name, action |-> action, policies |-> pols]
PolicyLists(n) ==
    {[i \in 1..n |-> Pol(i, fs[i])] : fs \in [1..n -> PolicyFlags]}
Actions == {"Deny", "Pass"}
SmallTierLists ==
    {<<>>}
    \cup {<<TierOf("t1", a, ps)>> : a \in Actions, ps \in UNION {PolicyLists(n) : n \in 0..2}}
    \cup {<<TierOf("t1", a1, ps1), TierOf("t2", a2, ps2)>> :
            a1 \in Actions, a2 \in Actions,
            ps1 \in UNION {PolicyLists(n) : n \in 0..1},
            ps2 \in UNION {PolicyLists(n) : n \in 0..1}}

\* The reference check: tierInfoToProtoTierInfo gives each endpoint exactly the policies that
\* apply to it, in tier and policy order: untracked policies in the
\* untracked tiers, pre-DNAT policies (ingress only) in the pre-DNAT
\* tiers, every other policy in the normal tiers and, when it applies on
\* forward, in the forward tiers; untracked and pre-DNAT tiers pass by
\* default, and a tier with no policy in a list is left out of it.
TierInfoMatchesReference ==
    \A tiers \in SmallTierLists :
        tierInfoToProtoTierInfo(tiers) = [l \in Lists |-> RefList(l, tiers)]

=============================================================================
