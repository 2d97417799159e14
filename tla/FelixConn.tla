----------------------------- MODULE FelixConn -----------------------------
(***************************************************************************)
(* The legacy felix main (go/felix/felix.go): the DataplaneConn that       *)
(* forwards the calculation graph's messages to the dataplane driver, the  *)
(* main goroutine that starts everything and relays a failure, and         *)
(* manageShutdown.  Goroutines are processes with a program counter;       *)
(* unbuffered channels are rendezvous steps between two of them.          *)
(***************************************************************************)
EXTENDS Naturals, Sequences

CONSTANTS
    ConfigValues,     \* possible merged configurations
    MainConfig,       \* configParams.RawValues() loaded by main at start-up
    NoConfig,         \* the nil config map
    CalcKinds,        \* message kinds the calculation graph may send
    MaxCalcMsgs,      \* bound on the calculation graph's messages
    MaxReports,       \* bound on the driver's ProcessStatusUpdates
    MaxApplyFailures, \* bound on failed datastore writes
    ReportingChoices, \* values configParams.EndpointReportingEnabled may have
    MaxEndpointStatuses, \* bound on the driver's endpoint status messages
    MaxConfigErrors,  \* bound on failed attempts to load config
    MaxReadyChanges   \* bound on changes of the datastore's Ready flag

ASSUME /\ MainConfig \in ConfigValues /\ NoConfig \notin ConfigValues
       /\ MaxCalcMsgs \in Nat /\ MaxReports \in Nat /\ MaxApplyFailures \in Nat
       /\ ReportingChoices \subseteq BOOLEAN /\ MaxEndpointStatuses \in Nat
       /\ MaxConfigErrors \in Nat /\ MaxReadyChanges \in Nat

\* The payload types marshalToDataplane has a case for.
MarshalKinds == {"ConfigUpdate", "InSync", "IPSetUpdate", "IPSetDeltaUpdate",
    "IPSetRemove", "ActivePolicyUpdate", "ActivePolicyRemove",
    "ActiveProfileUpdate", "ActiveProfileRemove", "HostEndpointUpdate",
    "HostEndpointRemove", "WorkloadEndpointUpdate", "WorkloadEndpointRemove",
    "HostMetadataUpdate", "HostMetadataRemove"}

Msg(kind, cfg) == [kind |-> kind, cfg |-> cfg]

None == Msg("none", NoConfig)

VARIABLES
    mainPc,       \* where main is: "loadLocal", "getReady", "listGlobal",
                  \* "listHost", "validate", "startDriver", "startCalc",
                  \* "startReporter", "startConn", "sendConfig",
                  \* "waitFailure", "relay" or "sleep"
    calcPending,  \* message the calculation graph is blocked sending, or None
    calcSent,     \* messages the calculation graph has sent
    calcConfig,   \* the calculation graph's merged config
    senderPc,     \* sendMessagesToDataplaneDriver: "notStarted", "recv",
                  \* "shutdown" (blocked sending on failureReportChan) or
                  \* "sleep" (in shutDownProcess after the send)
    config,       \* the sender's local config map
    datastoreInSync,
    inSyncQueued, \* values buffered in the InSync channel (capacity 1)
    nextSeqNumber,
    pipe,         \* envelopes written to the driver, in order
    readerStarted,
    firstStatusReportSent,
    reports,      \* FirstUpdate of each ActiveStatusReport the datastore took
    reportsLeft,
    failuresLeft,
    mgrPc,        \* manageShutdown: "notStarted", "select" or "stopping"
    endpointReportingEnabled, \* configParams.EndpointReportingEnabled
    statusReporter,   \* fc.statusReporter # nil
    statusesLeft,     \* endpoint status messages the driver may still write
    statusesRead,     \* endpoint status messages the reader has read
    statusPending,    \* the reader is blocked sending on StatusUpdatesFromDataplane
    statusesReported, \* endpoint status messages the status reporter received
    configErr,        \* configParams.Err
    configErrorsLeft,
    datastoreReady,   \* the datastore's global Ready flag
    readyChangesLeft,
    driverRunning,
    exited,       \* the felix process has exited
    exitCause

vars == <<mainPc, calcPending, calcSent, calcConfig, senderPc, config,
          datastoreInSync, inSyncQueued, nextSeqNumber, pipe, readerStarted,
          firstStatusReportSent, reports, reportsLeft, failuresLeft, mgrPc,
          driverRunning, exited, exitCause, endpointReportingEnabled,
          statusReporter, statusesLeft, statusesRead, statusPending,
          statusesReported, configErr, configErrorsLeft, datastoreReady,
          readyChangesLeft>>

\* The start-up state: config loading and the datastore's Ready flag.
startVars == <<configErr, configErrorsLeft, datastoreReady, readyChangesLeft>>

connVars == <<config, datastoreInSync, inSyncQueued, nextSeqNumber, pipe>>
\* The reader's state, and the status reporter's, which it feeds.
readerVars == <<endpointReportingEnabled, readerStarted, firstStatusReportSent, reports, reportsLeft,
                failuresLeft, statusReporter, statusesLeft, statusesRead,
                statusPending, statusesReported>>
calcVars == <<calcPending, calcSent, calcConfig>>

Init ==
    /\ mainPc = "loadLocal"
    /\ calcPending = None /\ calcSent = 0 /\ calcConfig = MainConfig
    /\ senderPc = "notStarted"
    /\ config = NoConfig
    /\ datastoreInSync = FALSE
    /\ inSyncQueued = 0
    /\ nextSeqNumber = 0
    /\ pipe = <<>>
    /\ readerStarted = FALSE
    /\ firstStatusReportSent = FALSE
    /\ reports = <<>>
    /\ reportsLeft = MaxReports
    /\ failuresLeft = MaxApplyFailures
    /\ mgrPc = "notStarted"
    /\ driverRunning = FALSE
    /\ exited = FALSE
    /\ exitCause = "none"
    /\ endpointReportingEnabled \in ReportingChoices
    /\ statusReporter = FALSE
    /\ statusesLeft = MaxEndpointStatuses
    /\ statusesRead = 0
    /\ statusPending = FALSE
    /\ statusesReported = 0
    /\ configErr = FALSE
    /\ configErrorsLeft = MaxConfigErrors
    /\ datastoreReady \in BOOLEAN
    /\ readyChangesLeft = MaxReadyChanges

Exit(cause) == exited' = TRUE /\ exitCause' = cause

-----------------------------------------------------------------------------
(* main's configRetry loop: load the environment and the config file,     *)
(* parse and merge them, connect to the datastore, then                   *)
(* loadConfigFromDatastore, merge and validate; then start the driver.    *)
(* A failure sleeps 1s and retries.                                        *)

LoadingPcs == {"loadLocal", "getReady", "listGlobal", "listHost", "validate",
               "startDriver"}

\* The local steps that may fail: LoadConfigFile, the parse of the merged
\* local config (configParams.Err) and backend.NewClient.
LocalOutcomes == {"fileError", "parseError", "clientError", "ok"}

\* What every start-up step leaves alone.
startFrame == <<calcVars, senderPc, connVars, readerVars>>

\* Mutant: configParams is created once, before the loop, so a parse error
\* stays in configParams.Err on every later attempt.
LoadLocalConfigStickyErr ==
    /\ ~exited
    /\ mainPc = "loadLocal"
    /\ \E outcome \in LocalOutcomes :
        /\ outcome # "ok" => configErrorsLeft > 0
        /\ configErrorsLeft' = IF outcome = "ok" THEN configErrorsLeft
                                                ELSE configErrorsLeft - 1
        /\ configErr' = (configErr \/ outcome = "parseError")
        /\ mainPc' = IF configErr' \/ outcome \in {"fileError", "clientError"}
                     THEN "loadLocal" ELSE "getReady"
    /\ UNCHANGED <<startFrame, datastoreReady, readyChangesLeft, mgrPc,
                   driverRunning, exited, exitCause>>

\* One pass of the loop up to loadConfigFromDatastore; `configParams =
\* config.New()` at its top clears the previous attempt's error.
LoadLocalConfig ==
    /\ ~exited
    /\ mainPc = "loadLocal"
    /\ \E outcome \in LocalOutcomes :
        /\ outcome # "ok" => configErrorsLeft > 0
        /\ configErrorsLeft' = IF outcome = "ok" THEN configErrorsLeft
                                                ELSE configErrorsLeft - 1
        /\ configErr' = (outcome = "parseError")
        /\ mainPc' = IF configErr' \/ outcome \in {"fileError", "clientError"}
                     THEN "loadLocal" ELSE "getReady"
    /\ UNCHANGED <<startFrame, datastoreReady, readyChangesLeft, mgrPc,
                   driverRunning, exited, exitCause>>

\* loadConfigFromDatastore reads the Ready flag; a failed read, or a flag
\* that is not true, sleeps and reads again.
GetReadyFlag ==
    /\ ~exited
    /\ mainPc = "getReady"
    /\ \/ /\ configErrorsLeft > 0
          /\ configErrorsLeft' = configErrorsLeft - 1
          /\ UNCHANGED mainPc
       \/ /\ datastoreReady
          /\ mainPc' = "listGlobal"
          /\ UNCHANGED configErrorsLeft
    /\ UNCHANGED <<startFrame, configErr, datastoreReady, readyChangesLeft,
                   mgrPc, driverRunning, exited, exitCause>>

\* The global, then the per-host config List; a failed List sleeps and
\* starts over at the Ready flag.
ListConfig ==
    /\ ~exited
    /\ mainPc \in {"listGlobal", "listHost"}
    /\ \/ /\ configErrorsLeft > 0
          /\ configErrorsLeft' = configErrorsLeft - 1
          /\ mainPc' = "getReady"
       \/ /\ mainPc' = IF mainPc = "listGlobal" THEN "listHost" ELSE "validate"
          /\ UNCHANGED configErrorsLeft
    /\ UNCHANGED <<startFrame, configErr, datastoreReady, readyChangesLeft,
                   mgrPc, driverRunning, exited, exitCause>>

\* Merge the datastore config and Validate: an invalid config is
\* log.Fatalf, so the sleep and retry after it never run.
ValidateConfig ==
    /\ ~exited
    /\ mainPc = "validate"
    /\ \/ /\ Exit("invalidConfig")
          /\ UNCHANGED mainPc
       \/ /\ mainPc' = "startDriver"
          /\ UNCHANGED <<exited, exitCause>>
    /\ UNCHANGED <<startFrame, startVars, mgrPc, driverRunning>>

\* Open the pipes and start the driver process, then `go manageShutdown`;
\* a failure to open, start or close a pipe is log.Fatalf.
StartDriver ==
    /\ ~exited
    /\ mainPc = "startDriver"
    /\ \/ /\ Exit("driverStartFailed")
          /\ UNCHANGED <<mainPc, mgrPc, driverRunning>>
       \/ /\ mainPc' = "startCalc"
          /\ driverRunning' = TRUE
          /\ mgrPc' = "select"
          /\ UNCHANGED <<exited, exitCause>>
    /\ UNCHANGED <<startFrame, startVars>>

\* The datastore's Ready flag is set or cleared by its administrator.
ReadyFlagChanges ==
    /\ ~exited
    /\ mainPc \in LoadingPcs
    /\ readyChangesLeft > 0
    /\ readyChangesLeft' = readyChangesLeft - 1
    /\ datastoreReady' = ~datastoreReady
    /\ UNCHANGED <<startFrame, configErr, configErrorsLeft, mainPc, mgrPc,
                   driverRunning, exited, exitCause>>

-----------------------------------------------------------------------------
(* main: asyncCalcGraph.Start(), felixConn.Start(), then the opening       *)
(* ConfigUpdate, then `reason := <-failureReportChan` and the relay.       *)

StartCalcGraph ==
    /\ ~exited
    /\ mainPc = "startCalc"
    /\ mainPc' = "startReporter"
    /\ UNCHANGED <<startVars, calcVars, senderPc, connVars, readerVars, mgrPc,
                   driverRunning, exited, exitCause>>

\* `if configParams.EndpointReportingEnabled`: create and start the status
\* reporter, before the reader that feeds it is started.
StartStatusReporter ==
    /\ ~exited
    /\ mainPc = "startReporter"
    /\ mainPc' = "startConn"
    /\ statusReporter' = endpointReportingEnabled
    /\ UNCHANGED <<startVars, calcVars, senderPc, connVars, endpointReportingEnabled,
                   readerStarted, firstStatusReportSent, reports, reportsLeft,
                   failuresLeft, statusesLeft, statusesRead, statusPending,
                   statusesReported, mgrPc, driverRunning, exited, exitCause>>

\* DataplaneConn.Start: the sender and reader goroutines.
StartConn ==
    /\ ~exited
    /\ mainPc = "startConn"
    /\ mainPc' = "sendConfig"
    /\ senderPc' = "recv"
    /\ readerStarted' = TRUE
    /\ UNCHANGED <<startVars, calcVars, connVars, endpointReportingEnabled,
                   firstStatusReportSent, reports, reportsLeft, failuresLeft,
                   statusReporter, statusesLeft, statusesRead, statusPending,
                   statusesReported, mgrPc, driverRunning, exited, exitCause>>

\* After relaying the reason, main sleeps 5s and calls log.Fatal.
MainFatal ==
    /\ ~exited
    /\ mainPc = "sleep"
    /\ Exit("mainFatal")
    /\ UNCHANGED <<startVars, mainPc, calcVars, senderPc, connVars, readerVars, mgrPc,
                   driverRunning>>

-----------------------------------------------------------------------------
(* The calculation graph's output.  felix.go imports the legacy package  *)
(* github.com/projectcalico/felix/go/felix/calc, which is not in this     *)
(* repository; its output is modelled from its contract: messages of the  *)
(* kinds CalcKinds, InSync, and a ConfigUpdate only when the merged config *)
(* changed, starting from main's config.                                  *)

CalcSend(kind) ==
    /\ ~exited
    /\ mainPc # "startCalc"
    /\ calcPending = None
    /\ calcSent < MaxCalcMsgs
    /\ kind \in CalcKinds \ {"ConfigUpdate"}
    /\ calcPending' = Msg(kind, NoConfig)
    /\ calcSent' = calcSent + 1
    /\ UNCHANGED <<startVars, calcConfig, mainPc, senderPc, connVars, readerVars, mgrPc,
                   driverRunning, exited, exitCause>>

CalcConfigUpdate(c) ==
    /\ ~exited
    /\ mainPc # "startCalc"
    /\ calcPending = None
    /\ calcSent < MaxCalcMsgs
    /\ "ConfigUpdate" \in CalcKinds
    /\ c # calcConfig
    /\ calcPending' = Msg("ConfigUpdate", c)
    /\ calcSent' = calcSent + 1
    /\ calcConfig' = c
    /\ UNCHANGED <<startVars, mainPc, senderPc, connVars, readerVars, mgrPc,
                   driverRunning, exited, exitCause>>

-----------------------------------------------------------------------------
(* sendMessagesToDataplaneDriver: receive, switch on the type, marshal.   *)

\* marshalToDataplane: the envelope takes the next sequence number; a type
\* with no case is fatal.
Marshal(m) ==
    /\ nextSeqNumber' = nextSeqNumber + 1
    /\ IF m.kind \in MarshalKinds
       THEN /\ pipe' = Append(pipe, [seq |-> nextSeqNumber, msg |-> m])
            /\ UNCHANGED <<startVars, exited, exitCause>>
       ELSE /\ Exit("unknownMessage")
            /\ UNCHANGED pipe

\* `fc.InSync <- true` only on the first InSync.
QueueInSync ==
    inSyncQueued' = IF datastoreInSync THEN inSyncQueued ELSE inSyncQueued + 1

\* Mutant: the first config is never copied into the local map.
RecordConfigNever(m) == config' = config

\* The `config == nil` branch copies the first config.
RecordConfig(m) == config' = IF config = NoConfig THEN m.cfg ELSE config

\* shutDownProcess: block sending the reason on failureReportChan.
ShutDown ==
    /\ senderPc' = "shutdown"
    /\ UNCHANGED <<startVars, connVars, exited, exitCause>>

Handle(m) ==
    CASE m.kind = "InSync" ->
            /\ datastoreInSync' = TRUE
            /\ QueueInSync
            /\ UNCHANGED <<startVars, config, senderPc>>
            /\ Marshal(m)
      [] m.kind = "ConfigUpdate" /\ config # NoConfig /\ m.cfg # config ->
            ShutDown
      [] m.kind = "ConfigUpdate" ->
            /\ RecordConfig(m)
            /\ UNCHANGED <<startVars, datastoreInSync, inSyncQueued, senderPc>>
            /\ Marshal(m)
      [] m.kind = "DatastoreNotReady" ->
            ShutDown
      [] OTHER ->
            /\ UNCHANGED <<startVars, config, datastoreInSync, inSyncQueued, senderPc>>
            /\ Marshal(m)

\* The receive completes main's `felixConn.ToDataplane <- &ConfigUpdate{..}`.
ReceiveFromMain ==
    /\ ~exited
    /\ senderPc = "recv"
    /\ mainPc = "sendConfig"
    /\ mainPc' = "waitFailure"
    /\ Handle(Msg("ConfigUpdate", MainConfig))
    /\ UNCHANGED <<startVars, calcVars, readerVars, mgrPc, driverRunning>>

ReceiveFromCalc ==
    /\ ~exited
    /\ senderPc = "recv"
    /\ calcPending # None
    /\ calcPending' = None
    /\ Handle(calcPending)
    /\ UNCHANGED <<startVars, mainPc, calcSent, calcConfig, readerVars, mgrPc,
                   driverRunning>>

\* `fc.failureReportChan <- reason` meets main's receive; shutDownProcess
\* then sleeps 5s.
SenderReportFailure ==
    /\ ~exited
    /\ senderPc = "shutdown"
    /\ mainPc = "waitFailure"
    /\ senderPc' = "sleep"
    /\ mainPc' = "relay"
    /\ UNCHANGED <<startVars, calcVars, connVars, readerVars, mgrPc, driverRunning,
                   exited, exitCause>>

\* log.Panic; the deferred shutDownProcess sends the reason again.
SenderPanic ==
    /\ ~exited
    /\ senderPc = "sleep"
    /\ senderPc' = "shutdown"
    /\ UNCHANGED <<startVars, mainPc, calcVars, connVars, readerVars, mgrPc,
                   driverRunning, exited, exitCause>>

-----------------------------------------------------------------------------
(* readMessagesFromDataplane and handleProcessStatusUpdate.               *)

\* Mutant: firstStatusReportSent is set whether or not the write succeeded.
ProcessStatusUpdateMarksOnFailure ==
    /\ ~exited
    /\ readerStarted /\ driverRunning /\ ~statusPending
    /\ reportsLeft > 0
    /\ reportsLeft' = reportsLeft - 1
    /\ firstStatusReportSent' = TRUE
    /\ \/ /\ reports' = Append(reports, ~firstStatusReportSent)
          /\ UNCHANGED failuresLeft
       \/ /\ failuresLeft > 0
          /\ failuresLeft' = failuresLeft - 1
          /\ UNCHANGED reports
    /\ UNCHANGED <<startVars, mainPc, calcVars, senderPc, connVars, readerStarted, mgrPc,
                   driverRunning, exited, exitCause, endpointReportingEnabled,
                   statusReporter, statusesLeft, statusesRead, statusPending,
                   statusesReported>>

\* The driver's ProcessStatusUpdate: write an ActiveStatusReport whose
\* FirstUpdate is !firstStatusReportSent, and set the flag once a write
\* succeeds.  The LastStatusReport write's result is ignored.
ProcessStatusUpdate ==
    /\ ~exited
    /\ readerStarted /\ driverRunning /\ ~statusPending
    /\ reportsLeft > 0
    /\ reportsLeft' = reportsLeft - 1
    /\ \/ /\ reports' = Append(reports, ~firstStatusReportSent)
          /\ firstStatusReportSent' = TRUE
          /\ UNCHANGED failuresLeft
       \/ /\ failuresLeft > 0
          /\ failuresLeft' = failuresLeft - 1
          /\ UNCHANGED <<startVars, reports, firstStatusReportSent>>
    /\ UNCHANGED <<startVars, mainPc, calcVars, senderPc, connVars, readerStarted, mgrPc,
                   driverRunning, exited, exitCause, endpointReportingEnabled,
                   statusReporter, statusesLeft, statusesRead, statusPending,
                   statusesReported>>

\* io.ReadFull fails once the driver has gone: log.Fatalf.
ReaderFatal ==
    /\ ~exited
    /\ readerStarted /\ ~driverRunning /\ ~statusPending
    /\ Exit("readFailed")
    /\ UNCHANGED <<startVars, mainPc, calcVars, senderPc, connVars, readerVars, mgrPc,
                   driverRunning>>

\* Mutant: the type switch has no case for endpoint statuses, so the
\* default case logs and drops them.
ReadEndpointStatusDropped ==
    /\ ~exited
    /\ readerStarted /\ driverRunning /\ ~statusPending
    /\ statusesLeft > 0
    /\ statusesLeft' = statusesLeft - 1
    /\ statusesRead' = statusesRead + 1
    /\ statusPending' = FALSE
    /\ UNCHANGED <<startVars, mainPc, calcVars, senderPc, connVars, endpointReportingEnabled,
                   readerStarted, firstStatusReportSent, reports, reportsLeft,
                   failuresLeft, statusReporter, statusesReported, mgrPc,
                   driverRunning, exited, exitCause>>

\* The four endpoint status cases (workload and host endpoint, update and
\* remove): with a status reporter, the reader blocks sending the message
\* on the unbuffered StatusUpdatesFromDataplane; without one it drops it.
ReadEndpointStatus ==
    /\ ~exited
    /\ readerStarted /\ driverRunning /\ ~statusPending
    /\ statusesLeft > 0
    /\ statusesLeft' = statusesLeft - 1
    /\ statusesRead' = statusesRead + 1
    /\ statusPending' = statusReporter
    /\ UNCHANGED <<startVars, mainPc, calcVars, senderPc, connVars, endpointReportingEnabled,
                   readerStarted, firstStatusReportSent, reports, reportsLeft,
                   failuresLeft, statusReporter, statusesReported, mgrPc,
                   driverRunning, exited, exitCause>>

\* The status reporter's loop receives the reader's message.
ReporterReceiveStatus ==
    /\ ~exited
    /\ statusReporter /\ statusPending
    /\ statusPending' = FALSE
    /\ statusesReported' = statusesReported + 1
    /\ UNCHANGED <<startVars, mainPc, calcVars, senderPc, connVars, endpointReportingEnabled,
                   readerStarted, firstStatusReportSent, reports, reportsLeft,
                   failuresLeft, statusReporter, statusesLeft, statusesRead,
                   mgrPc, driverRunning, exited, exitCause>>

\* The status reporter's loop takes the value buffered in InSync.
ReporterReceiveInSync ==
    /\ ~exited
    /\ statusReporter /\ inSyncQueued > 0
    /\ inSyncQueued' = inSyncQueued - 1
    /\ UNCHANGED <<startVars, mainPc, calcVars, senderPc, config, datastoreInSync,
                   nextSeqNumber, pipe, readerVars, mgrPc, driverRunning,
                   exited, exitCause>>

\* The driver process dies on its own.
DriverStops ==
    /\ ~exited
    /\ driverRunning
    /\ driverRunning' = FALSE
    /\ UNCHANGED <<startVars, mainPc, calcVars, senderPc, connVars, readerVars, mgrPc,
                   exited, exitCause>>

-----------------------------------------------------------------------------
(* manageShutdown: select on driver exit, SIGTERM and the relayed reason, *)
(* then stop the driver (SIGTERM, SIGKILL after 4s) and syscall.Exit(1).   *)

\* Mutant: the select has no case for the relayed reason.
MgrReceiveReasonMissing ==
    /\ FALSE
    /\ UNCHANGED vars

\* `shutdownReasonChan <- reason` in main meets the select's third case.
MgrReceiveReason ==
    /\ ~exited
    /\ mgrPc = "select"
    /\ mainPc = "relay"
    /\ mgrPc' = "stopping"
    /\ mainPc' = "sleep"
    /\ UNCHANGED <<startVars, calcVars, senderPc, connVars, readerVars, driverRunning,
                   exited, exitCause>>

TermSignal ==
    /\ ~exited
    /\ mgrPc = "select"
    /\ mgrPc' = "stopping"
    /\ UNCHANGED <<startVars, mainPc, calcVars, senderPc, connVars, readerVars,
                   driverRunning, exited, exitCause>>

\* Before manageShutdown's signal.Notify, SIGTERM has Go's default effect:
\* the process exits at once.
TermSignalBeforeNotify ==
    /\ ~exited
    /\ mgrPc = "notStarted"
    /\ Exit("signal")
    /\ UNCHANGED <<startVars, mainPc, calcVars, senderPc, connVars, readerVars,
                   mgrPc, driverRunning>>

\* The driver already stopped: exit at once.
MgrDriverStopped ==
    /\ ~exited
    /\ mgrPc = "select"
    /\ ~driverRunning
    /\ Exit("driverStopped")
    /\ UNCHANGED <<startVars, mainPc, calcVars, senderPc, connVars, readerVars, mgrPc,
                   driverRunning>>

MgrStop ==
    /\ ~exited
    /\ mgrPc = "stopping"
    /\ driverRunning' = FALSE
    /\ Exit("shutdown")
    /\ UNCHANGED <<startVars, mainPc, calcVars, senderPc, connVars, readerVars, mgrPc>>

-----------------------------------------------------------------------------

Next ==
    \/ LoadLocalConfig \/ GetReadyFlag \/ ListConfig \/ ValidateConfig
    \/ StartDriver \/ ReadyFlagChanges
    \/ StartCalcGraph \/ StartConn \/ MainFatal
    \/ \E kind \in CalcKinds : CalcSend(kind)
    \/ \E c \in ConfigValues : CalcConfigUpdate(c)
    \/ ReceiveFromMain \/ ReceiveFromCalc
    \/ SenderReportFailure \/ SenderPanic
    \/ StartStatusReporter
    \/ ProcessStatusUpdate \/ ReadEndpointStatus \/ ReaderFatal \/ DriverStops
    \/ ReporterReceiveStatus \/ ReporterReceiveInSync
    \/ MgrReceiveReason \/ TermSignal \/ TermSignalBeforeNotify \/ MgrDriverStopped \/ MgrStop

\* Every goroutine's own steps are weakly fair.  The calculation graph's
\* messages, the driver's reports, the driver dying and SIGTERM are
\* environment events that need never happen.
Fairness ==
    /\ WF_vars(LoadLocalConfig) /\ WF_vars(GetReadyFlag) /\ WF_vars(ListConfig)
    /\ WF_vars(ValidateConfig) /\ WF_vars(StartDriver)
    /\ WF_vars(StartCalcGraph) /\ WF_vars(StartConn) /\ WF_vars(MainFatal)
    /\ WF_vars(ReceiveFromMain) /\ WF_vars(ReceiveFromCalc)
    /\ WF_vars(SenderReportFailure) /\ WF_vars(SenderPanic)
    /\ WF_vars(StartStatusReporter) /\ WF_vars(ReaderFatal)
    /\ WF_vars(ReporterReceiveStatus) /\ WF_vars(ReporterReceiveInSync)
    /\ WF_vars(MgrReceiveReason)
    /\ WF_vars(MgrDriverStopped) /\ WF_vars(MgrStop)

Spec == Init /\ [][Next]_vars /\ Fairness

-----------------------------------------------------------------------------

\* The driver never sees its configuration change: a ConfigUpdate that
\* differs from the first one makes the sender restart felix instead of
\* forwarding it, whichever goroutine sent either.
DriverConfigNeverChanges ==
    \A i, j \in 1..Len(pipe) :
        pipe[i].msg.kind = "ConfigUpdate" /\ pipe[j].msg.kind = "ConfigUpdate"
            => pipe[i].msg.cfg = pipe[j].msg.cfg

\* Of the ActiveStatusReports the datastore accepted, exactly the first is
\* marked FirstUpdate, even when earlier writes failed.
FirstReportMarked == \A i \in 1..Len(reports) : reports[i] = (i = 1)

\* Once main is waiting for a failure, a failure the sender reports leads to
\* felix exiting.
ReportedFailureLeadsToExit ==
    (senderPc = "shutdown" /\ mainPc = "waitFailure") ~> exited

\* Whenever the sender decides to restart felix, felix eventually exits.
FailureLeadsToExit == senderPc = "shutdown" ~> exited

\* While status reporting is on, every endpoint status the reader reads
\* reaches the status reporter, or is the one the reader is still sending.
NoStatusLost ==
    endpointReportingEnabled =>
        statusesReported + (IF statusPending THEN 1 ELSE 0) = statusesRead

\* Start-up ends: once the datastore's Ready flag stays set, the config
\* retry loop and loadConfigFromDatastore finish, with felix started or
\* exited, whatever transient errors came first.
StartupCompletes ==
    <>[]datastoreReady => <>(mainPc \notin LoadingPcs \/ exited)

=============================================================================
