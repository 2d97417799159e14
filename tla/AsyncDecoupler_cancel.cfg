SPECIFICATION Spec
CONSTANTS
    MaxCalls <- MCMaxCalls
    Cancellable = TRUE
INVARIANTS DeliveredInCallOrder
PROPERTIES NoDeliveryAfterDone CallbacksReturnUnlessCancelled StopsAfterCancel RefinesSyncerCallbacks
\* The syncer may stop making callbacks, so a final state is legitimate.
CHECK_DEADLOCK FALSE
