---------------------------- MODULE MC_BPFIPSets ----------------------------
(* Model-checking instance of BPFIPSets: two IP sets, two members, two     *)
(* numeric IDs (so an ID can be released and reused), as model values.    *)
(* The filter run adds a member of the other IP version.                  *)
EXTENDS BPFIPSets

CONSTANTS s1, s2, a, b, c, id1, id2

MCSetIDs == {s1, s2}
MCMembers == {a, b}
\* a member of the other IP version, which the conversions turn into nil
MCOtherMembers == {c}
NoMembers == {}
OneMember == {a}
MCNumIDs == {id1, id2}

\* Safety runs only: the names of sets, members and IDs are interchangeable.
MCSymmetry == Permutations(MCSetIDs) \cup Permutations(MCMembers) \cup Permutations(MCNumIDs)
=============================================================================
