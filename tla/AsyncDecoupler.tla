--------------------------- MODULE AsyncDecoupler ---------------------------
(***************************************************************************)
(* The syncer callbacks decoupler of typha/pkg/calc/async_decoupler.go.   *)
(* The syncer goroutine calls OnStatusUpdated and OnUpdates; each call     *)
(* sends its argument on the unbuffered channel c and returns once the     *)
(* consumer goroutine running SendToContext has received it.  The consumer *)
(* hands each value to the sink and stops when its context is cancelled,   *)
(* closing Done on the way out.                                            *)
(***************************************************************************)
EXTENDS Naturals, Sequences

CONSTANTS
    MaxCalls,       \* bound on the callbacks the syncer makes
    Cancellable     \* TRUE when the consumer runs SendToContext with a
                    \* context that may be cancelled, FALSE for SendTo

ASSUME MaxCalls \in Nat /\ Cancellable \in BOOLEAN

CallKinds == {"OnStatusUpdated", "OnUpdates"}

None == [kind |-> "none", n |-> 0]

VARIABLES
    pending,    \* the value the syncer is blocked sending on c, or None
    calls,      \* callbacks the syncer has started
    consumer,   \* "notStarted", "running" or "returned"
    ctxDone,    \* the consumer's context is cancelled
    done,       \* Done is closed
    delivered   \* the values the sink has received, in order

vars == <<pending, calls, consumer, ctxDone, done, delivered>>

Init ==
    /\ pending = None
    /\ calls = 0
    /\ consumer = "notStarted"
    /\ ctxDone = FALSE
    /\ done = FALSE
    /\ delivered = <<>>

\* OnStatusUpdated / OnUpdates: `a.c <- x` blocks the syncer until received.
Call(kind) ==
    /\ pending = None
    /\ calls < MaxCalls
    /\ pending' = [kind |-> kind, n |-> calls + 1]
    /\ calls' = calls + 1
    /\ UNCHANGED <<consumer, ctxDone, done, delivered>>

\* Mutant: the consumer goroutine is never started.
StartMissing ==
    /\ FALSE
    /\ UNCHANGED vars

\* The consumer goroutine starts: SendTo calls SendToContext with a
\* background context, which defers close(Done) and enters its select loop.
Start ==
    /\ consumer = "notStarted"
    /\ consumer' = "running"
    /\ UNCHANGED <<pending, calls, ctxDone, done, delivered>>

\* Mutant: the type switch has no case for api.SyncStatus.
ReceiveOnlyUpdates ==
    /\ consumer = "running"
    /\ pending # None
    /\ delivered' = IF pending.kind = "OnUpdates"
                    THEN Append(delivered, pending) ELSE delivered
    /\ pending' = None
    /\ UNCHANGED <<calls, consumer, ctxDone, done>>

\* The first select case: receive from c, dispatch on the type to the sink.
\* The receive completes the syncer's send, so its callback returns.
Receive ==
    /\ consumer = "running"
    /\ pending # None
    /\ delivered' = Append(delivered, pending)
    /\ pending' = None
    /\ UNCHANGED <<calls, consumer, ctxDone, done>>

\* The context may be cancelled only if the caller chose SendToContext.
Cancel ==
    /\ Cancellable
    /\ ~ctxDone
    /\ ctxDone' = TRUE
    /\ UNCHANGED <<pending, calls, consumer, done, delivered>>

\* Mutant: the deferred close of Done is missing.
StopNoClose ==
    /\ consumer = "running"
    /\ ctxDone
    /\ consumer' = "returned"
    /\ UNCHANGED <<pending, calls, ctxDone, done, delivered>>

\* Mutant: the loop returns whenever nothing is being sent.
StopWhenIdle ==
    /\ consumer = "running"
    /\ ctxDone \/ pending = None
    /\ consumer' = "returned"
    /\ done' = TRUE
    /\ UNCHANGED <<pending, calls, ctxDone, delivered>>

\* Mutant: a `break` in the ctx case leaves only the select, not the loop.
StopBreaksSelect ==
    /\ consumer = "running"
    /\ ctxDone
    /\ done' = TRUE
    /\ UNCHANGED <<pending, calls, consumer, ctxDone, delivered>>

\* The second select case: the context is done, so the loop returns and the
\* deferred close(a.Done) runs.  When c is also ready, Go's select picks
\* either case, which the disjunction with Receive covers.
Stop ==
    /\ consumer = "running"
    /\ ctxDone
    /\ consumer' = "returned"
    /\ done' = TRUE
    /\ UNCHANGED <<pending, calls, ctxDone, delivered>>

Next ==
    \/ \E kind \in CallKinds : Call(kind)
    \/ Start
    \/ Receive
    \/ Cancel
    \/ Stop

\* The Go scheduler runs every runnable goroutine, so the consumer's steps
\* are weakly fair.  The syncer's calls and the cancellation are not: the
\* syncer may stop calling and the caller may never cancel.
Fairness == WF_vars(Start) /\ WF_vars(Receive) /\ WF_vars(Stop)

Spec == Init /\ [][Next]_vars /\ Fairness

-----------------------------------------------------------------------------

\* The sink sees the syncer's callbacks in the order they were made, none
\* lost or repeated except the one still blocked in the channel send.
DeliveredInCallOrder ==
    /\ \A i \in 1..Len(delivered) : delivered[i].n = i
    /\ Len(delivered) = IF pending = None THEN calls ELSE calls - 1

\* Once Done is closed, the sink receives nothing more: callers that wait
\* on Done may assume the consumer has finished with the sink.
NoDeliveryAfterDone == [][done => UNCHANGED delivered]_vars

\* Every callback eventually returns unless the consumer's context has been
\* cancelled: while SendToContext runs, its select keeps receiving from c.
CallbacksReturnUnlessCancelled == \A n \in 1..MaxCalls :
    (pending # None /\ pending.n = n) ~> (pending = None \/ pending.n # n \/ ctxDone)

\* After the context is cancelled, SendToContext returns and Done is closed.
StopsAfterCancel == ctxDone ~> done


-----------------------------------------------------------------------------
(* Refinement: the decoupler implements SyncerCallbacks.  A callback is   *)
(* made when its send starts and received when the consumer takes it; the  *)
(* one still blocked in the send is the outstanding call.                  *)

CallValues == [kind : CallKinds, n : 1..MaxCalls]

Outstanding == IF pending = None THEN <<>> ELSE <<pending>>

Abstract == INSTANCE SyncerCallbacks
    WITH Values <- CallValues,
         made <- delivered \o Outstanding,
         got <- delivered,
         cancelled <- ctxDone,
         closed <- done

\* The decoupler behaves as the syncer calling the sink directly: every
\* step of SendToContext and of the callbacks is a step of SyncerCallbacks
\* (in order, one at a time, nothing after Done), and under the Go
\* scheduler's fairness every callback is delivered unless the context is
\* cancelled, and a cancelled consumer closes Done.
RefinesSyncerCallbacks == Abstract!Spec

=============================================================================
