---------------------------- MODULE CallContract -----------------------------
(***************************************************************************)
(* What one call of the runtime promises whoever dispatched it: the        *)
(* dispatch state it reports is no stronger than what happened.  This is   *)
(* what ShadowRunner relies on (RuntimeAnswer, RuntimeFailure).            *)
(***************************************************************************)

VARIABLES
    wire,    \* "open": the request may still arrive; "sent"; "closed"
    report   \* dispatch state reported, or "none"

contractVars == <<wire, report>>

ContractInit == wire = "open" /\ report = "none"

\* The endpoint receives the request, at once or long after the call is over.
Transmit ==
    /\ wire = "open"
    /\ wire' = "sent"
    /\ UNCHANGED report

\* Saying not_sent is a promise about the future as well.
ReportNotSent ==
    /\ report = "none"
    /\ wire = "open"
    /\ report' = "not_sent"
    /\ wire' = "closed"

ReportUnknown ==
    /\ report = "none"
    /\ report' = "sent_unknown"
    /\ UNCHANGED wire

ReportCompleted ==
    /\ report = "none"
    /\ wire = "sent"
    /\ report' = "completed"
    /\ UNCHANGED wire

ContractNext ==
    Transmit \/ ReportNotSent \/ ReportUnknown \/ ReportCompleted

ContractSpec == ContractInit /\ [][ContractNext]_contractVars

=============================================================================
