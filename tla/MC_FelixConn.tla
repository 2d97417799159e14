--------------------------- MODULE MC_FelixConn ---------------------------
EXTENDS FelixConn

CONSTANTS c1, c2, nil

MCConfigValues == {c1, c2}
\* Kinds marshalToDataplane accepts, plus the restart triggers.
PassKinds == {"ConfigUpdate", "DatastoreNotReady", "InSync", "IPSetUpdate"}
NotReadyKinds == {"DatastoreNotReady"}
\* Endpoint status reporting on and off.
BothReportingChoices == BOOLEAN
ReportingOff == {FALSE}

=============================================================================
