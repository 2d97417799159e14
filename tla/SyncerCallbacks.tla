--------------------------- MODULE SyncerCallbacks ---------------------------
(***************************************************************************)
(* What the syncer callbacks decoupler promises its two sides, as if the   *)
(* syncer called the sink directly: the callbacks reach the sink one at a  *)
(* time and in the order they were made, a callback returns once the sink  *)
(* has it, and each is eventually delivered unless the consumer's context  *)
(* is cancelled.  After cancellation the consumer eventually closes Done,  *)
(* and once Done is closed the sink is given nothing more.                 *)
(***************************************************************************)
EXTENDS Naturals, Sequences

CONSTANT Values     \* the arguments a callback may carry

VARIABLES
    made,       \* the callbacks the syncer has made, in order
    got,        \* the callbacks the sink has received, a prefix of made
    cancelled,  \* the consumer's context is cancelled
    closed      \* Done is closed

absVars == <<made, got, cancelled, closed>>

Init ==
    /\ made = <<>>
    /\ got = <<>>
    /\ cancelled = FALSE
    /\ closed = FALSE

\* The syncer makes a callback; the previous one has returned.
Make(v) ==
    /\ Len(made) = Len(got)
    /\ made' = Append(made, v)
    /\ UNCHANGED <<got, cancelled, closed>>

\* The sink receives the outstanding callback, which then returns.
Deliver ==
    /\ Len(got) < Len(made)
    /\ ~closed
    /\ got' = Append(got, made[Len(got) + 1])
    /\ UNCHANGED <<made, cancelled, closed>>

Cancel ==
    /\ ~cancelled
    /\ cancelled' = TRUE
    /\ UNCHANGED <<made, got, closed>>

Close ==
    /\ cancelled /\ ~closed
    /\ closed' = TRUE
    /\ UNCHANGED <<made, got, cancelled>>

Next == (\E v \in Values : Make(v)) \/ Deliver \/ Cancel \/ Close

\* Delivery is owed only until cancellation; closing is owed after it.
Spec == /\ Init /\ [][Next]_absVars
        /\ WF_absVars(Deliver /\ ~cancelled)
        /\ WF_absVars(Close)

=============================================================================
