------------------------------ MODULE BPFIPSets ------------------------------
(***************************************************************************)
(* The BPF IP-set reconciler of felix (src/felix/bpf/ipsets/ipsets.go).   *)
(*                                                                         *)
(* bpfIPSets keeps, per IP set, the desired membership and the pending     *)
(* adds/removes that bring the kernel map (bpfMap) into line with it, and  *)
(* converges the map in ApplyUpdates, after a full resync when one is      *)
(* scheduled.  An IP-set entry is the pair <<numeric set ID, member>>.     *)
(*                                                                         *)
(* The environment is modelled too: the calling dataplane loop (which      *)
(* obeys the IP-set protocol of the calculation graph), per-entry          *)
(* failures of the map's Update/Delete/Iter, and crashes of the felix      *)
(* process, after which the pinned map survives and everything else is     *)
(* rebuilt.                                                                *)
(***************************************************************************)
EXTENDS Naturals, FiniteSets, Functions, TLC

CONSTANTS
    SetIDs,         \* string IP-set IDs sent by the calculation graph
    Members,        \* members of the reconciler's IP version
    OtherMembers,   \* members of the other IP version
    NumIDs,         \* numeric IDs the IDAllocator can hand out
    NoID,           \* the allocator's "0": no numeric ID allocated
    UseNameFilter,  \* whether the dataplane installs an IP-set name filter
    MaxFailures,    \* bound on failed bpfMap Update/Delete/Iter calls
    MaxCrashes      \* bound on process crashes

ASSUME /\ NoID \notin NumIDs
       /\ Members \cap OtherMembers = {}
       /\ Cardinality(NumIDs) >= Cardinality(SetIDs)
       /\ UseNameFilter \in BOOLEAN
       /\ MaxFailures \in Nat /\ MaxCrashes \in Nat

VARIABLES
    ipSets,          \* m.ipSets: numeric ID -> bpfIPSet
    alloc,           \* the IDAllocator: string ID -> numeric ID or NoID
    dirtyIPSetIDs,   \* m.dirtyIPSetIDs
    resyncScheduled, \* m.resyncScheduled
    needed,          \* the set names m.filterIPSet accepts (all when nil)
    bpfMap,          \* the pinned kernel map: a set of entries
    calcActive,      \* the caller's view: IP sets it has added, not removed
    calcMembers,     \* the caller's view: the members it has given each set
    status,          \* the felix process: running, panicked or crashed
    failuresLeft, crashesLeft

vars == <<ipSets, alloc, dirtyIPSetIDs, resyncScheduled, needed, bpfMap,
          calcActive, calcMembers, status, failuresLeft, crashesLeft>>

\* everything but the caller's view
reconcilerVars == <<ipSets, alloc, dirtyIPSetIDs, resyncScheduled, needed,
                    bpfMap, status, failuresLeft, crashesLeft>>

Entry == NumIDs \X Members

\* nil: the conversion of a member of the other IP version.
NoEntry == "nil"

\* The conversions of a member string to the member part of its entry:
\* the injected protoIPSetMemberToBPFEntry, which AddOrReplaceIPSet and
\* AddMembers use, and the package-level ProtoIPSetMemberToBPFEntry, which
\* RemoveMembers uses.  Both are outside src/; for a reconciler of the
\* package function's own IP version they are the same parse.
protoIPSetMemberToBPFEntry(m) == IF m \in Members THEN m ELSE NoEntry

\* Mutant: the package-level conversion parses only the other IP version
\* (an IPv6 reconciler given an IPv4-only package function).
ProtoIPSetMemberToBPFEntryOtherFamily(m) == IF m \in OtherMembers THEN m ELSE NoEntry

ProtoIPSetMemberToBPFEntry(m) == IF m \in Members THEN m ELSE NoEntry

\* bpfIPSet.AddMembers with the injected conversion: the entries of the
\* members that convert.
ConvertedEntries(ms) == {protoIPSetMemberToBPFEntry(m) : m \in ms} \ {NoEntry}

\* One bpfIPSet tracking struct.
IPSet == [OriginalID: SetIDs, DesiredEntries: SUBSET Members,
          PendingAdds: SUBSET Members, PendingRemoves: SUBSET Members,
          Deleted: BOOLEAN]

-----------------------------------------------------------------------------
(* The IDAllocator is outside src/ and is modelled from its contract: an   *)
(* ID is stable while allocated, and a free ID is chosen otherwise.        *)

GetNoAlloc(s) == alloc[s]

\* Fault: the allocator hands out its "unallocated" value.
FreeIDsWithZero == (NumIDs \ Range(alloc)) \cup {NoID}

FreeIDs == NumIDs \ Range(alloc)

ReleaseUintID(id) == [s \in SetIDs |-> IF alloc[s] = id THEN NoID ELSE alloc[s]]

-----------------------------------------------------------------------------
(* bpfIPSet methods, as operators on one tracking struct.                  *)

\* Faults used to show the properties below detect plausible bugs:
\* AddMember that forgets to queue the write,
AddMemberNoPendingAdd(set, e) ==
    IF e \in set.DesiredEntries THEN set
    ELSE [set EXCEPT !.DesiredEntries = @ \cup {e}, !.PendingRemoves = @ \ {e}]

\* RemoveMember that queues a delete even for a never-written entry,
RemoveMemberAlwaysQueues(set, e) ==
    IF e \notin set.DesiredEntries THEN set
    ELSE [set EXCEPT !.DesiredEntries = @ \ {e}, !.PendingAdds = @ \ {e},
                     !.PendingRemoves = @ \cup {e}]

\* RemoveAll that clears the desired set without queueing deletes,
RemoveAllNoDeletes(set) == [set EXCEPT !.DesiredEntries = {},
                                       !.PendingAdds = @ \ set.DesiredEntries]

\* and Dirty that ignores pending adds.
DirtyIgnoringAdds(set) == set.PendingRemoves # {} \/ set.Deleted

AddMember(set, e) ==
    IF e \in set.DesiredEntries THEN set
    ELSE [set EXCEPT !.DesiredEntries = @ \cup {e},
                     !.PendingRemoves = @ \ {e},
                     !.PendingAdds = IF e \in set.PendingRemoves THEN @
                                     ELSE @ \cup {e}]

RemoveMember(set, e) ==
    IF e \notin set.DesiredEntries THEN set
    ELSE [set EXCEPT !.DesiredEntries = @ \ {e},
                     !.PendingAdds = @ \ {e},
                     !.PendingRemoves = IF e \in set.PendingAdds THEN @
                                        ELSE @ \cup {e}]

\* RemoveAll: RemoveMember of every desired entry.
RemoveAll(set) ==
    [set EXCEPT !.DesiredEntries = {},
                !.PendingAdds = @ \ set.DesiredEntries,
                !.PendingRemoves = @ \cup (set.DesiredEntries \ set.PendingAdds)]

\* ReplaceMembers: RemoveAll, then AddMember of every new member.
ReplaceMembers(set, ms) ==
    LET cleared == RemoveAll(set) IN
    [cleared EXCEPT !.DesiredEntries = ms,
                    !.PendingAdds = @ \cup (ms \ cleared.PendingRemoves),
                    !.PendingRemoves = @ \ ms]

Dirty(set) == set.PendingRemoves # {} \/ set.PendingAdds # {} \/ set.Deleted

isIPSetNeeded(s) == s \in needed

NewIPSet(s) == [OriginalID |-> s, DesiredEntries |-> {}, PendingAdds |-> {},
                PendingRemoves |-> {}, Deleted |-> FALSE]

-----------------------------------------------------------------------------
Init ==
    /\ ipSets = <<>>
    /\ alloc = [s \in SetIDs |-> NoID]
    /\ dirtyIPSetIDs = {}
    /\ resyncScheduled = TRUE
    /\ needed = SetIDs
    \* whatever an earlier felix left in the pinned map
    /\ bpfMap \in SUBSET Entry
    /\ calcActive = {}
    /\ calcMembers = [s \in SetIDs |-> {}]
    /\ status = "running"
    /\ failuresLeft = MaxFailures
    /\ crashesLeft = MaxCrashes

Running == status = "running"

\* log.Panic: the process dies; the restart is the action Restart.
Panic ==
    /\ status' = "panicked"
    /\ UNCHANGED <<ipSets, alloc, dirtyIPSetIDs, resyncScheduled, needed,
                   bpfMap, failuresLeft, crashesLeft>>

\* Mutant: getOrCreateIPSet hands back a pending-deletion set as it is.
ReviveKeepDeleted(set) == set

\* getOrCreateIPSet on a set queued for deletion: it is recreated.
Revive(set) == [set EXCEPT !.Deleted = FALSE]

\* getExistingIPSetString: the tracking struct's numeric ID, or NoID.
ExistingID(s) ==
    IF GetNoAlloc(s) # NoID /\ GetNoAlloc(s) \in DOMAIN ipSets
    THEN GetNoAlloc(s) ELSE NoID

\* AddOrReplaceIPSet.  An IP set the name filter rejects is marked Deleted
\* if it is known; otherwise getOrCreateIPSet (allocating an ID, clearing
\* Deleted on a set whose deletion is still pending) and ReplaceMembers.
AddOrReplaceIPSet(s, ms) ==
    /\ Running
    /\ calcActive' = calcActive \cup {s}
    /\ calcMembers' = [calcMembers EXCEPT ![s] = ms]
    /\ IF ~isIPSetNeeded(s)
       THEN /\ IF ExistingID(s) # NoID
               THEN /\ ipSets' = [ipSets EXCEPT ![ExistingID(s)].Deleted = TRUE]
                    /\ dirtyIPSetIDs' = dirtyIPSetIDs \cup {ExistingID(s)}
               ELSE UNCHANGED <<ipSets, dirtyIPSetIDs>>
            /\ UNCHANGED alloc
       ELSE \E id \in IF alloc[s] # NoID THEN {alloc[s]} ELSE FreeIDs :
            LET old == IF id \in DOMAIN ipSets
                       THEN Revive(ipSets[id])
                       ELSE NewIPSet(s)
            IN /\ alloc' = [alloc EXCEPT ![s] = id]
               /\ ipSets' = (id :> ReplaceMembers(old, ConvertedEntries(ms))) @@ ipSets
               /\ dirtyIPSetIDs' = dirtyIPSetIDs \cup {id}
    /\ UNCHANGED <<resyncScheduled, needed, bpfMap, status, failuresLeft,
                   crashesLeft>>

\* The guard shared by RemoveIPSet, AddMembers and RemoveMembers: a call for
\* an unknown set is ignored unless the set is needed (then it panics), and
\* a call for a set already marked Deleted panics.  op names the caller,
\* whose update of the set is applied otherwise; a member whose entry is
\* nil is skipped, but the set is still marked dirty.
KnownOrPanic(s, op, e) ==
    LET id == ExistingID(s) IN
    \/ /\ id = NoID
       /\ IF isIPSetNeeded(s) THEN Panic ELSE UNCHANGED reconcilerVars
    \/ /\ id # NoID
       /\ ipSets[id].Deleted
       /\ Panic
    \/ /\ id # NoID
       /\ ~ipSets[id].Deleted
       /\ ipSets' = [ipSets EXCEPT ![id] =
                        CASE op = "RemoveIPSet" -> [RemoveAll(@) EXCEPT !.Deleted = TRUE]
                          [] e = NoEntry -> @
                          [] op = "AddMembers"  -> AddMember(@, e)
                          [] op = "RemoveMembers" -> RemoveMember(@, e)]
       /\ dirtyIPSetIDs' = dirtyIPSetIDs \cup {id}
       /\ UNCHANGED <<alloc, resyncScheduled, needed, bpfMap, status,
                      failuresLeft, crashesLeft>>

\* RemoveIPSet: RemoveAll and mark Deleted; the ID is released by
\* ApplyUpdates once the set is clean.
RemoveIPSet(s) ==
    /\ Running
    /\ s \in calcActive
    /\ calcActive' = calcActive \ {s}
    /\ calcMembers' = [calcMembers EXCEPT ![s] = {}]
    /\ KnownOrPanic(s, "RemoveIPSet", NoEntry)

\* AddMembers and RemoveMembers, one member per call: the code converts
\* and applies a list of members one at a time.  The caller sends a delta
\* only for a real change of membership.
AddMembers(s, m) ==
    /\ Running
    /\ s \in calcActive /\ m \notin calcMembers[s]
    /\ calcMembers' = [calcMembers EXCEPT ![s] = @ \cup {m}]
    /\ UNCHANGED calcActive
    /\ KnownOrPanic(s, "AddMembers", protoIPSetMemberToBPFEntry(m))

RemoveMembers(s, m) ==
    /\ Running
    /\ s \in calcActive /\ m \in calcMembers[s]
    /\ calcMembers' = [calcMembers EXCEPT ![s] = @ \ {m}]
    /\ UNCHANGED calcActive
    /\ KnownOrPanic(s, "RemoveMembers", ProtoIPSetMemberToBPFEntry(m))

QueueResync ==
    /\ Running
    /\ resyncScheduled' = TRUE
    /\ UNCHANGED <<ipSets, alloc, dirtyIPSetIDs, needed, bpfMap, calcActive,
                   calcMembers, status, failuresLeft, crashesLeft>>

\* SetIPSetNameFilter only replaces the predicate.
SetIPSetNameFilter(n) ==
    /\ Running
    /\ UseNameFilter
    /\ needed' = n
    /\ UNCHANGED <<ipSets, alloc, dirtyIPSetIDs, resyncScheduled, bpfMap,
                   calcActive, calcMembers, status, failuresLeft, crashesLeft>>

\* ApplyIPSetNameFilter marks every known set the filter rejects Deleted
\* (without RemoveAll) and dirty.
ApplyIPSetNameFilter ==
    LET rejected == {id \in DOMAIN ipSets : ~isIPSetNeeded(ipSets[id].OriginalID)}
    IN /\ Running
       /\ UseNameFilter
       /\ ipSets' = [id \in DOMAIN ipSets |->
                        IF id \in rejected THEN [ipSets[id] EXCEPT !.Deleted = TRUE]
                        ELSE ipSets[id]]
       /\ dirtyIPSetIDs' = dirtyIPSetIDs \cup rejected
       /\ UNCHANGED <<alloc, resyncScheduled, needed, bpfMap, calcActive,
                      calcMembers, status, failuresLeft, crashesLeft>>

-----------------------------------------------------------------------------
(* ApplyUpdates.  When a resync is scheduled: every set's PendingAdds      *)
(* becomes its DesiredEntries and PendingRemoves is cleared; the map is    *)
(* iterated, which may fail part way through (visited is what it saw);     *)
(* entries of known sets update the pending sets, entries of unknown sets  *)
(* are deleted; every set left Dirty is marked dirty.  Then every dirty    *)
(* set has its PendingRemoves deleted and its PendingAdds written.  Each   *)
(* map call may fail (failed is the set of failed calls); a failure leaves *)
(* the set dirty and schedules a resync.  A clean Deleted set is dropped   *)
(* and its ID released.  The whole call is one step: nothing else runs on  *)
(* the reconciler while it executes.                                       *)
(***************************************************************************)
ResyncedSets(visited) ==
    [id \in DOMAIN ipSets |->
        [ipSets[id] EXCEPT
            !.PendingAdds = ipSets[id].DesiredEntries
                                \ {m \in Members : <<id, m>> \in visited},
            !.PendingRemoves = {m \in Members : /\ <<id, m>> \in visited
                                                /\ m \notin ipSets[id].DesiredEntries}]]

\* The pending work of set id, as the entries it touches.
PendingOps(sets, id) ==
    {<<id, m>> : m \in sets[id].PendingRemoves \cup sets[id].PendingAdds}

ApplyUpdates ==
  /\ Running
  /\ \E iterErr \in IF resyncScheduled /\ failuresLeft > 0 THEN BOOLEAN ELSE {FALSE},
        visited \in SUBSET bpfMap :
     LET sets1 == IF resyncScheduled THEN ResyncedSets(visited) ELSE ipSets
         unknownEntries == IF resyncScheduled
                           THEN {e \in visited : e[1] \notin DOMAIN ipSets}
                           ELSE {}
         dirty1 == IF resyncScheduled
                   THEN {id \in DOMAIN sets1 : Dirty(sets1[id])}
                   ELSE dirtyIPSetIDs \cap DOMAIN ipSets
         \* a dirty ID without a tracking struct only schedules a resync
         lostDirty == ~resyncScheduled /\ dirtyIPSetIDs \ DOMAIN ipSets # {}
         attempted == unknownEntries \cup UNION {PendingOps(sets1, id) : id \in dirty1}
     IN
     /\ visited = bpfMap \/ iterErr
     /\ \E failed \in {f \in SUBSET attempted :
                          Cardinality(f) + (IF iterErr THEN 1 ELSE 0) <= failuresLeft} :
        LET leaveDirty == {id \in dirty1 : PendingOps(sets1, id) \cap failed # {}}
            released == {id \in dirty1 \ leaveDirty : sets1[id].Deleted}
            deleted == (unknownEntries \cup
                        {<<id, m>> \in Entry : id \in dirty1 /\ m \in sets1[id].PendingRemoves})
                       \ failed
            written == {<<id, m>> \in Entry : id \in dirty1 /\ m \in sets1[id].PendingAdds}
                       \ failed
            sets2 == [id \in DOMAIN sets1 |->
                        IF id \in dirty1
                        THEN [sets1[id] EXCEPT
                                !.PendingRemoves = {m \in @ : <<id, m>> \in failed},
                                !.PendingAdds = {m \in @ : <<id, m>> \in failed}]
                        ELSE sets1[id]]
        IN
        /\ bpfMap' = (bpfMap \ deleted) \cup written
        /\ ipSets' = Restrict(sets2, DOMAIN sets2 \ released)
        /\ alloc' = [s \in SetIDs |-> IF alloc[s] \in released THEN NoID ELSE alloc[s]]
        /\ dirtyIPSetIDs' = leaveDirty
        /\ resyncScheduled' = (iterErr \/ (unknownEntries \cap failed # {})
                               \/ lostDirty \/ leaveDirty # {})
        /\ failuresLeft' = failuresLeft - Cardinality(failed) - (IF iterErr THEN 1 ELSE 0)
  /\ UNCHANGED <<needed, calcActive, calcMembers, status, crashesLeft>>

-----------------------------------------------------------------------------
(* The felix process may die at any time; it is restarted with a fresh     *)
(* bpfIPSets (resync scheduled, no filter, empty ID allocator) and a fresh *)
(* calculation graph that will re-send every IP set.  The pinned map       *)
(* survives.                                                               *)

Crash ==
    /\ Running
    /\ crashesLeft > 0
    /\ status' = "crashed"
    /\ crashesLeft' = crashesLeft - 1
    /\ UNCHANGED <<ipSets, alloc, dirtyIPSetIDs, resyncScheduled, needed,
                   bpfMap, calcActive, calcMembers, failuresLeft>>

Restart ==
    /\ ~Running
    /\ status' = "running"
    /\ ipSets' = <<>>
    /\ alloc' = [s \in SetIDs |-> NoID]
    /\ dirtyIPSetIDs' = {}
    /\ resyncScheduled' = TRUE
    /\ needed' = SetIDs
    /\ calcActive' = {}
    /\ calcMembers' = [s \in SetIDs |-> {}]
    /\ UNCHANGED <<bpfMap, failuresLeft, crashesLeft>>

Next ==
    \/ \E s \in SetIDs, ms \in SUBSET (Members \cup OtherMembers) :
          AddOrReplaceIPSet(s, ms)
    \/ \E s \in SetIDs : RemoveIPSet(s)
    \/ \E s \in SetIDs, m \in Members \cup OtherMembers :
          AddMembers(s, m) \/ RemoveMembers(s, m)
    \/ QueueResync
    \/ \E n \in SUBSET SetIDs : SetIPSetNameFilter(n)
    \/ ApplyIPSetNameFilter
    \/ ApplyUpdates
    \/ Crash
    \/ Restart

\* The dataplane loop calls ApplyUpdates again and again, and a dead felix
\* is restarted; the calculation graph's calls are not forced to happen.
Spec == Init /\ [][Next]_vars /\ WF_vars(ApplyUpdates) /\ WF_vars(Restart)

-----------------------------------------------------------------------------
TypeOK ==
    /\ DOMAIN ipSets \subseteq NumIDs
    /\ \A id \in DOMAIN ipSets : ipSets[id] \in IPSet
    /\ alloc \in [SetIDs -> NumIDs \cup {NoID}]
    /\ dirtyIPSetIDs \subseteq NumIDs
    /\ resyncScheduled \in BOOLEAN
    /\ needed \subseteq SetIDs
    /\ bpfMap \subseteq Entry
    /\ calcActive \subseteq SetIDs
    /\ calcMembers \in [SetIDs -> SUBSET (Members \cup OtherMembers)]
    /\ status \in {"running", "panicked", "crashed"}
    /\ failuresLeft \in 0..MaxFailures
    /\ crashesLeft \in 0..MaxCrashes

\* The members of set id that the map really holds, and those the
\* reconciler believes it holds: desired and written, or not yet deleted.
EntriesOf(id) == {m \in Members : <<id, m>> \in bpfMap}

BelievedPresent(id) ==
    (ipSets[id].DesiredEntries \ ipSets[id].PendingAdds) \cup ipSets[id].PendingRemoves

\* Unless a resync is pending, every entry the reconciler believes is in the
\* map is there: ApplyUpdates may skip a set only if the map already holds
\* what it wants.  Violated if a pending add is dropped, a failed write is
\* forgotten, or a resync fails to reconstruct the pending adds.
NoMissingEntries ==
    (Running /\ ~resyncScheduled) =>
        \A id \in DOMAIN ipSets : BelievedPresent(id) \subseteq EntriesOf(id)

\* Unless a resync is pending, every entry in the map belongs to a known set
\* and is one the reconciler believes is there: nothing is left behind by a
\* removed member, a removed IP set or a released numeric ID (the spec's
\* rule that an ID is released only once its entries are gone).
NoStrayEntries ==
    (Running /\ ~resyncScheduled) =>
        \A e \in bpfMap : e[1] \in DOMAIN ipSets /\ e[2] \in BelievedPresent(e[1])

\* The entries the reconciler currently wants in the map.
Wanted == {e \in Entry : /\ e[1] \in DOMAIN ipSets
                         /\ ~ipSets[e[1]].Deleted
                         /\ e[2] \in ipSets[e[1]].DesiredEntries}

\* Every entry on which the map and the desired state disagree eventually
\* stops disagreeing: a missing entry is written or stops being wanted, an
\* unwanted entry is deleted or becomes wanted, whatever the failures,
\* crashes and resyncs in between.
Converges ==
    \A e \in Entry :
        ((e \in bpfMap) # (e \in Wanted)) ~> ((e \in bpfMap) = (e \in Wanted))

\* While felix runs, the desired membership of every IP set the caller
\* has active is exactly the caller's members of the reconciler's IP
\* version, whatever the interleaving of replacements, deltas, removals,
\* ID reuse and restarts: in particular a removal converts its member to
\* the entry its addition did (RemoveMembers uses the package-level
\* conversion, the other calls the injected one).
DesiredMatchesCaller ==
    Running =>
        \A s \in calcActive :
            LET id == ExistingID(s)
            IN  /\ id # NoID
                /\ ~ipSets[id].Deleted
                /\ ipSets[id].DesiredEntries = calcMembers[s] \cap Members

\* A felix that obeys the calculation graph's protocol never panics.
NoPanic == status # "panicked"
=============================================================================
