---------------------------- MODULE RuntimeProofs ----------------------------
(***************************************************************************)
(* Proofs about RuntimeCall: for every clock, deadline and limit, what a   *)
(* call reports of its dispatch is true, and the call keeps CallContract.  *)
(* Nothing depends on the timers: an abort may come at any moment.         *)
(* About ProviderStream: whatever a provider sends, of whatever length, a  *)
(* response that counts as completed was whole.  And about StreamFraming:  *)
(* an ending that a decoder reports is one, however the body was cut.      *)
(***************************************************************************)
EXTENDS RuntimeCall, CapabilityLease, ProviderStream, StreamFraming, FiniteSums

-----------------------------------------------------------------------------
\* Steps before the connection, and steps that wait for the response.
Unconnected == Unbroken \cup
    {"prepared", "resolving", "unpinned", "pinned", "secrets", "connect"}
Connecteds == {"head", "body"}

\* The outcome o says no more of the wire and of the answer than is so.
BorneOut(o) ==
    /\ o \in Reports
    /\ o.dispatch = "not_sent" => wire = "idle"
    /\ o.dispatch = "completed" => answer \in {"refusal", "end"}
    /\ o.status = "completed" => answer = "end"

\* An answer presupposes a request, and the transport's own state is as strong
\* as the point the call has reached.
StateSound ==
    /\ pc \in Steps
    /\ dispatch \in DispatchStates
    /\ wire \in {"idle", "open", "sent"}
    /\ answer \in {"none", "refusal", "head", "end"}
    /\ answer # "none" => wire = "sent"
    /\ pc \in Unconnected => wire = "idle" /\ dispatch = "not_sent"
    /\ pc \in Connecteds => wire # "idle" /\ dispatch = "sent_unknown"
    /\ pc = "decoding" => answer = "end" /\ dispatch = "completed"

\* What the call is about to report, and what it has reported.
OutcomeSound ==
    /\ pc = "returning" => BorneOut(pending) /\ answer = "end"
    /\ pc = "throwing" => BorneOut(pending)
    /\ pc = "settled" => BorneOut(report)
    /\ pc # "settled" => report = Nothing

\* The inductive invariant.
CallInv == StateSound /\ OutcomeSound

USE DEF Steps, Gaps, Unbroken, ClientSteps, Unconnected, Connecteds, DispatchStates,
        budget

\* The call begins in the invariant.
LEMMA CallInit == Init => CallInv
  BY DEF Init, CallInv, StateSound, OutcomeSound

\* Every failure of a call is a report.
LEMMA FailedIsReport ==
  ASSUME NEW d \in DispatchStates, NEW l \in Lifecycles
  PROVE  /\ Failed(d, l) \in Reports
         /\ Failed(d, l).dispatch = d
         /\ Failed(d, l).status = "failed"
  BY DEF Failed, Reports, Statuses

\* An abort of the operation is reported with a lifecycle of the schema.
LEMMA AbortLifecycleType ==
  ASSUME NEW s
  PROVE  AbortLifecycle(s) \in Lifecycles
  BY DEF AbortLifecycle, Lifecycles

\* A report of something that is so keeps the invariant.
LEMMA ReportSound ==
  ASSUME CallInv, NEW o, BorneOut(o), Report(o),
         UNCHANGED <<wire, answer>>, dispatch' \in DispatchStates
  PROVE  CallInv'
  BY DEF CallInv, StateSound, OutcomeSound, BorneOut, Report

\* So does an error on its way out of the transport.
LEMMA FinishSound ==
  ASSUME CallInv, NEW o, BorneOut(o), Finish(o),
         pc # "settled",
         UNCHANGED <<wire, answer>>, dispatch' \in DispatchStates
  PROVE  CallInv'
  <1>1. CASE pc \in ClientSteps
    BY <1>1 DEF CallInv, StateSound, OutcomeSound, BorneOut, Finish, Close
  <1>2. CASE pc \notin ClientSteps
    BY <1>2, ReportSound DEF Finish
  <1> QED
    BY <1>1, <1>2

\* Whoever aborts, the state reached is what is reported.
LEMMA AbortSound ==
  ASSUME CallInv, NEW s, AbortOperation(s),
         pc \in {"clamping", "arming", "secrets", "connect", "head", "body",
                 "decoding"},
         UNCHANGED <<wire, answer, dispatch>>
  PROVE  CallInv'
  <1> DEFINE o == Failed(dispatch, AbortLifecycle(s))
  <1>1. dispatch \in DispatchStates
    BY DEF CallInv, StateSound
  <1>2. o \in Reports /\ o.dispatch = dispatch /\ o.status = "failed"
    BY <1>1, AbortLifecycleType, FailedIsReport
  <1>3. BorneOut(o)
    BY <1>2 DEF BorneOut, CallInv, StateSound
  <1>4. Finish(o)
    BY DEF AbortOperation
  <1> HIDE DEF o
  <1> QED
    BY <1>1, <1>3, <1>4, FinishSound

\* A failure that is not an abort keeps it when the dispatch state it names is
\* borne out.
LEMMA AbandonSound ==
  ASSUME CallInv, NEW d \in DispatchStates, Abandon(d),
         pc # "settled",
         d = "not_sent" => wire = "idle",
         d = "completed" => answer \in {"refusal", "end"},
         UNCHANGED <<wire, answer>>, dispatch' \in DispatchStates
  PROVE  CallInv'
  <1> DEFINE o == Failed(d, "not-aborted")
  <1>1. o \in Reports /\ o.dispatch = d /\ o.status = "failed"
    BY FailedIsReport DEF Lifecycles
  <1>2. BorneOut(o)
    BY <1>1 DEF BorneOut
  <1>3. Finish(o)
    BY DEF Abandon
  <1> HIDE DEF o
  <1> QED
    BY <1>2, <1>3, FinishSound

\* Rejections and failures of the pin come before any connection.
LEMMA UnsentSound ==
  ASSUME CallInv, pc \in Unconnected,
         NEW o, Report(o),
         o = Rejected \/ \E l \in Lifecycles : o = Failed("not_sent", l),
         UNCHANGED <<wire, answer, dispatch>>
  PROVE  CallInv'
  <1>2. o \in Reports /\ o.dispatch = "not_sent" /\ o.status # "completed"
    BY FailedIsReport
       DEF Rejected, Reports, DispatchStates, Lifecycles, Statuses
  <1>3. BorneOut(o)
    BY <1>2 DEF BorneOut, CallInv, StateSound
  <1>4. dispatch' \in DispatchStates
    BY DEF CallInv, StateSound
  <1> QED
    BY <1>3, <1>4, ReportSound

\* A step from before the connection to before the connection, which touches
\* neither the wire nor what is to be reported.
LEMMA StillUnconnected ==
  ASSUME CallInv, pc \in Unconnected, pc' \in Unconnected,
         UNCHANGED <<wire, answer, dispatch, report>>
  PROVE  CallInv'
  BY DEF CallInv, StateSound, OutcomeSound, BorneOut

-----------------------------------------------------------------------------
\* Every step of the call, of the endpoint and of time keeps the invariant.
LEMMA CallInvNext == CallInv /\ [Next]_vars => CallInv'
<1> SUFFICES ASSUME CallInv, [Next]_vars
             PROVE  CallInv'
  OBVIOUS
<1>1. CASE Tick
  BY <1>1 DEF Tick, CallInv, StateSound, OutcomeSound, BorneOut
<1>2. CASE DispatchPrepared
  <2>1. CASE Report(Rejected)
    BY <1>2, <2>1, UnsentSound DEF DispatchPrepared
  <2>2. CASE pc' = "pinning" /\ UNCHANGED <<due, pending, report>>
    BY <1>2, <2>2, StillUnconnected DEF DispatchPrepared
  <2> QED
    BY <1>2, <2>1, <2>2 DEF DispatchPrepared
<1>3. CASE StartPin \/ StartLookup \/ AskResolver \/ Resolve \/ LookupTimeout
  BY <1>3, StillUnconnected
     DEF StartPin, StartLookup, AskResolver, Resolve, LookupTimeout, Unpinned
<1>4. CASE ClassifyPinFailure
  <2>1. PICK l \in Lifecycles : Report(Failed("not_sent", l))
    BY <1>4 DEF ClassifyPinFailure, Lifecycles
  <2> DEFINE o == Failed("not_sent", l)
  <2>2. Report(o) /\ (o = Rejected \/ \E m \in Lifecycles : o = Failed("not_sent", m))
    BY <2>1
  <2> HIDE DEF o
  <2> QED
    BY <1>4, <2>2, UnsentSound DEF ClassifyPinFailure
<1>5. CASE OpenTransport
  <2>1. CASE Report(Rejected)
    BY <1>5, <2>1, UnsentSound DEF OpenTransport
  <2>2. CASE pc' = "opening" /\ UNCHANGED <<due, pending, report>>
    BY <1>5, <2>2, StillUnconnected DEF OpenTransport
  <2> QED
    BY <1>5, <2>1, <2>2 DEF OpenTransport
<1>6. CASE StartTransport \/ ConsumePin \/ ClampLimits \/ ArmOperation
  <2>1. CASE StartTransport
    BY <2>1, StillUnconnected DEF StartTransport
  <2>2. CASE ConsumePin
    <3>1. CASE Abandon("not_sent")
      BY <2>2, <3>1, AbandonSound DEF ConsumePin, CallInv, StateSound
    <3>2. CASE pc' = "clamping" /\ UNCHANGED <<due, pending, report>>
      BY <2>2, <3>2, StillUnconnected DEF ConsumePin
    <3> QED
      BY <2>2, <3>1, <3>2 DEF ConsumePin
  <2>3. CASE ClampLimits
    <3>1. CASE AbortOperation("deadline")
      BY <2>3, <3>1, AbortSound DEF ClampLimits
    <3>2. CASE pc' = "arming" /\ UNCHANGED <<due, pending, report>>
      BY <2>3, <3>2, StillUnconnected DEF ClampLimits
    <3> QED
      BY <2>3, <3>1, <3>2 DEF ClampLimits
  <2>4. CASE ArmOperation
    <3>1. CASE AbortOperation("caller")
      BY <2>4, <3>1, AbortSound DEF ArmOperation
    <3>2. CASE pc' = "secrets" /\ UNCHANGED <<pending, report>>
      BY <2>4, <3>2, StillUnconnected DEF ArmOperation
    <3> QED
      BY <2>4, <3>1, <3>2 DEF ArmOperation
  <2> QED
    BY <1>6, <2>1, <2>2, <2>3, <2>4
<1>7. CASE ResolveSecrets
  <2>1. CASE Abandon("not_sent")
    BY <1>7, <2>1, AbandonSound DEF ResolveSecrets, CallInv, StateSound
  <2>2. CASE pc' = "connect" /\ UNCHANGED <<pending, report>>
    BY <1>7, <2>2
       DEF ResolveSecrets, CallInv, StateSound, OutcomeSound, BorneOut
  <2> QED
    BY <1>7, <2>1, <2>2 DEF ResolveSecrets
<1>8. CASE Connected
  BY <1>8
     DEF Connected, MarkConnected, CallInv, StateSound, OutcomeSound, BorneOut
<1>9. CASE ConnectionLost
  <2>1. /\ dispatch \in DispatchStates
        /\ dispatch = "not_sent" => wire = "idle"
        /\ dispatch # "completed"
    BY <1>9 DEF ConnectionLost, CallInv, StateSound
  <2> QED
    BY <1>9, <2>1, AbandonSound DEF ConnectionLost
<1>10. CASE ResponseHead
  <2>1. CASE answer = "refusal" /\ dispatch' = "completed" /\ Abandon("completed")
    BY <1>10, <2>1, AbandonSound DEF ResponseHead
  <2>2. CASE dispatch' = "sent_unknown" /\ Abandon("sent_unknown")
    BY <1>10, <2>2, AbandonSound DEF ResponseHead
  <2>3. CASE /\ dispatch' = "sent_unknown"
             /\ pc' = "body"
             /\ UNCHANGED <<pending, report>>
    BY <1>10, <2>3
       DEF ResponseHead, CallInv, StateSound, OutcomeSound, BorneOut
  <2> QED
    BY <1>10, <2>1, <2>2, <2>3 DEF ResponseHead
<1>11. CASE Chunk
  <2>1. CASE Abandon("sent_unknown")
    BY <1>11, <2>1, AbandonSound DEF Chunk, CallInv, StateSound
  <2>2. CASE UNCHANGED <<pc, pending, report>>
    BY <1>11, <2>2 DEF Chunk, CallInv, StateSound, OutcomeSound, BorneOut
  <2> QED
    BY <1>11, <2>1, <2>2 DEF Chunk
<1>12. CASE BodyRefused
  BY <1>12, AbandonSound DEF BodyRefused, CallInv, StateSound
<1>13. CASE BodyEnds
  BY <1>13
     DEF BodyEnds, EndOfBody, CallInv, StateSound, OutcomeSound, BorneOut
<1>14. CASE Decode
  BY <1>14 DEF Decode, Close, CallInv, StateSound, OutcomeSound, BorneOut,
               Reports, Statuses, Lifecycles
<1>15. CASE TimerFires
  BY <1>15, AbortSound DEF TimerFires, AbortableSteps
<1>16. CASE CallerAbort
  <2>1. CASE pc \in AbortableSteps \cup {"decoding"}
    BY <1>16, <2>1, AbortSound DEF CallerAbort, AbortableSteps
  <2>2. CASE pc = "resolving"
    BY <1>16, <2>2, StillUnconnected DEF CallerAbort, AbortableSteps, Unpinned
  <2>3. CASE pc \notin AbortableSteps \cup {"decoding", "resolving"}
    BY <1>16, <2>3
       DEF CallerAbort, CallInv, StateSound, OutcomeSound, BorneOut
  <2> QED
    BY <2>1, <2>2, <2>3
<1>17. CASE Throw
  BY <1>17, ReportSound DEF Throw, CallInv, StateSound, OutcomeSound
<1>18. CASE Return
  <2>1. CASE InTime
    BY <1>18, <2>1, ReportSound
       DEF Return, CallInv, StateSound, OutcomeSound
  <2>2. CASE ~InTime
    <3> DEFINE o == Failed("completed", "deadline-exceeded")
    <3>1. o \in Reports /\ o.dispatch = "completed" /\ o.status = "failed"
      BY FailedIsReport DEF Lifecycles
    <3>2. BorneOut(o) /\ Report(o)
      BY <1>18, <2>2, <3>1 DEF Return, BorneOut, CallInv, OutcomeSound
    <3>3. UNCHANGED <<wire, answer>> /\ dispatch' \in DispatchStates
      BY <1>18 DEF Return, CallInv, StateSound
    <3> HIDE DEF o
    <3> QED
      BY <3>2, <3>3, ReportSound
  <2> QED
    BY <2>1, <2>2
<1>19. CASE Transmit
  BY <1>19 DEF Transmit, CallInv, StateSound, OutcomeSound, BorneOut
<1>20. CASE Endpoint
  BY <1>20 DEF Endpoint, CallInv, StateSound, OutcomeSound, BorneOut
<1>21. CASE UNCHANGED vars
  BY <1>21 DEF vars, CallInv, StateSound, OutcomeSound, BorneOut
<1> QED
  BY <1>1, <1>2, <1>3, <1>4, <1>5, <1>6, <1>7, <1>8, <1>9, <1>10, <1>11,
     <1>12, <1>13, <1>14, <1>15, <1>16, <1>17, <1>18, <1>19, <1>20, <1>21
     DEF Next, CallStep

\* The invariant holds throughout.
LEMMA CallInvariant == Spec => []CallInv
  BY CallInit, CallInvNext, PTL DEF Spec

-----------------------------------------------------------------------------
\* not_sent is a proof, whatever the clock and the deadlines: no error path of
\* invoke.ts or http.ts reports it of a call whose connection was made.  And
\* completed is one, of a refusal or of an answer read to its end.
THEOREM DispatchProved == Spec => []DispatchIsProof
<1>1. CallInv => DispatchIsProof
  BY DEF CallInv, OutcomeSound, BorneOut, DispatchIsProof, Nothing
<1> QED
  BY <1>1, CallInvariant, PTL

\* A step that touches the wire or the report does only one of the two: the
\* connection is made, the request arrives, or the call reports for once.
LEMMA StepShape ==
  ASSUME [Next]_vars
  PROVE  \/ UNCHANGED <<wire, report>>
         \/ pc = "connect" /\ wire' = "open" /\ UNCHANGED report
         \/ wire = "open" /\ wire' = "sent" /\ UNCHANGED report
         \/ pc # "settled" /\ pc' = "settled" /\ UNCHANGED wire
<1>1. CASE \/ DispatchPrepared \/ StartPin \/ StartLookup \/ AskResolver
         \/ Resolve \/ LookupTimeout \/ ClassifyPinFailure
  BY <1>1 DEF DispatchPrepared, StartPin, StartLookup, AskResolver, Resolve,
              LookupTimeout, ClassifyPinFailure, Unpinned, Report
<1>2. CASE \/ OpenTransport \/ StartTransport \/ ConsumePin \/ ClampLimits
         \/ ArmOperation \/ ResolveSecrets
  BY <1>2 DEF OpenTransport, StartTransport, ConsumePin, ClampLimits,
              ArmOperation, ResolveSecrets, Abandon, AbortOperation, Finish,
              Close, Report
<1>3. CASE ConnectionLost \/ ResponseHead \/ Chunk \/ BodyRefused
  BY <1>3 DEF ConnectionLost, ResponseHead, Chunk, BodyRefused, Abandon,
              Finish, Close, Report
<1>4. CASE TimerFires \/ CallerAbort
  BY <1>4 DEF TimerFires, CallerAbort, AbortableSteps, AbortOperation,
              Unpinned, Finish, Close, Report
<1>5. CASE BodyEnds \/ Decode \/ Throw \/ Return
  BY <1>5 DEF BodyEnds, Decode, Throw, Return, Close, Report
<1>6. CASE Connected \/ Transmit
  BY <1>6 DEF Connected, Transmit
<1>7. CASE Tick \/ Endpoint \/ UNCHANGED vars
  BY <1>7 DEF Tick, Endpoint, vars
<1> QED
  BY <1>1, <1>2, <1>3, <1>4, <1>5, <1>6, <1>7 DEF Next, CallStep

\* Between two states that bear out their reports, such a step is one of the
\* contract's, or none.
LEMMA StepKeepsContract ==
  ASSUME CallInv, CallInv', [Next]_vars
  PROVE  [Contract!ContractNext]_(Contract!contractVars)
<1> USE DEF Contract!contractVars
<1>1. report.dispatch = "not_sent" => wire = "idle"
  BY DEF CallInv, OutcomeSound, BorneOut, Nothing
<1>2. pc # "settled" => report.dispatch = "none"
  BY DEF CallInv, OutcomeSound, Nothing
<1>3. CASE UNCHANGED <<wire, report>>
  BY <1>3
<1>4. CASE pc = "connect" /\ wire' = "open" /\ UNCHANGED report
  BY <1>2, <1>4 DEF CallInv, StateSound
<1>5. CASE wire = "open" /\ wire' = "sent" /\ UNCHANGED report
  BY <1>1, <1>5 DEF Contract!ContractNext, Contract!Transmit
<1>6. CASE pc # "settled" /\ pc' = "settled" /\ UNCHANGED wire
  <2>1. /\ report'.dispatch \in DispatchStates
        /\ report'.dispatch = "not_sent" => wire = "idle"
        /\ report'.dispatch = "completed" => wire = "sent"
    BY <1>6 DEF CallInv, OutcomeSound, StateSound, BorneOut, Reports
  <2>2. CASE report'.dispatch = "not_sent"
    BY <1>2, <1>6, <2>1, <2>2
       DEF Contract!ContractNext, Contract!ReportNotSent
  <2>3. CASE report'.dispatch = "sent_unknown"
    BY <1>2, <1>6, <2>3
       DEF Contract!ContractNext, Contract!ReportUnknown
  <2>4. CASE report'.dispatch = "completed"
    BY <1>2, <1>6, <2>1, <2>4
       DEF Contract!ContractNext, Contract!ReportCompleted
  <2> QED
    BY <2>1, <2>2, <2>3, <2>4
<1> QED
  BY <1>3, <1>4, <1>5, <1>6, StepShape

\* The call implements the contract its dispatcher relies on, which ShadowRunner
\* assumes of the runtime.
THEOREM KeepsContract == Spec => ImplementsContract
<1>1. Init => Contract!ContractInit
  BY DEF Init, Nothing, Contract!ContractInit
<1>2. CallInv /\ CallInv' /\ [Next]_vars
        => [Contract!ContractNext]_(Contract!contractVars)
  BY StepKeepsContract
<1> QED
  BY <1>1, <1>2, CallInvariant, PTL
     DEF Spec, ImplementsContract, Contract!ContractSpec

-----------------------------------------------------------------------------
\* The signal is looked at wherever the call begins to wait, and listened to
\* while it does.
CancelInv ==
    aborted => pc \notin AbortableSteps \cup {"lookup", "dialing", "resolving"}

\* A cancelled call waits for nothing, at whatever moment it was cancelled.
THEOREM CancelProved == Spec => []CancelledCallWaitsForNothing
<1>1. Init => CancelInv
  BY DEF Init, CancelInv
<1>2. CancelInv /\ [Next]_vars => CancelInv'
  <2> SUFFICES ASSUME CancelInv, [Next]_vars
               PROVE  CancelInv'
    OBVIOUS
  <2> USE DEF CancelInv, AbortableSteps
  <2>1. CASE \/ DispatchPrepared \/ StartPin \/ StartLookup \/ AskResolver
           \/ Resolve \/ LookupTimeout \/ ClassifyPinFailure
    BY <2>1 DEF DispatchPrepared, StartPin, StartLookup, AskResolver, Resolve,
                LookupTimeout, ClassifyPinFailure, Unpinned, Report
  <2>2. CASE \/ OpenTransport \/ StartTransport \/ ConsumePin \/ ClampLimits
           \/ ArmOperation \/ ResolveSecrets
    BY <2>2 DEF OpenTransport, StartTransport, ConsumePin, ClampLimits,
                ArmOperation, ResolveSecrets, AbortedBefore, Abandon,
                AbortOperation, Finish, Close, Report
  <2>3. CASE ConnectionLost \/ ResponseHead \/ Chunk \/ BodyRefused
    BY <2>3 DEF ConnectionLost, ResponseHead, Chunk, BodyRefused, Abandon,
                Finish, Close, Report
  <2>4. CASE TimerFires
    BY <2>4 DEF TimerFires, AbortOperation, Finish, Close, Report
  <2>5. CASE CallerAbort
    BY <2>5 DEF CallerAbort, AbortOperation, Unpinned, Finish, Close, Report
  <2>6. CASE BodyEnds \/ Decode \/ Throw \/ Return
    BY <2>6 DEF BodyEnds, Decode, Throw, Return, Close, Report
  <2>7. CASE Connected \/ Transmit \/ Endpoint \/ Tick \/ UNCHANGED vars
    BY <2>7 DEF Connected, Transmit, Endpoint, Tick, vars
  <2> QED
    BY <2>1, <2>2, <2>3, <2>4, <2>5, <2>6, <2>7 DEF Next, CallStep
<1>3. CancelInv => CancelledCallWaitsForNothing
  BY DEF CancelInv, CancelledCallWaitsForNothing
<1> QED
  BY <1>1, <1>2, <1>3, PTL DEF Spec

-----------------------------------------------------------------------------
\* Rounding down to whole milliseconds never gains time.
LEMMA RoundingDown ==
  ASSUME NEW a \in Nat, NEW b \in Nat \ {0}
  PROVE  a \div b \in Nat /\ b * (a \div b) <= a
  BY SMT

LEMMA GrainMonotone ==
  ASSUME NEW a \in Nat, NEW b \in Nat, NEW g \in Nat \ {0}, a <= b
  PROVE  g * a <= g * b
  BY SMT

LEMMA RemainingType ==
  ASSUME clock \in Nat, NEW end \in Nat
  PROVE  Remaining(end) \in Nat
<1>1. CASE end <= clock
  BY <1>1 DEF Remaining
<1>2. CASE end > clock
  BY <1>2, CallAssumption, RoundingDown DEF Remaining
<1> QED
  BY <1>1, <1>2

\* What remains of a deadline reaches no further than the deadline.
LEMMA RemainingFits ==
  ASSUME clock \in Nat, NEW end \in Nat, Remaining(end) >= 1
  PROVE  /\ Remaining(end) \in Nat
         /\ Grain * Remaining(end) \in Nat
         /\ After(Remaining(end)) <= end
<1>1. end > clock /\ Remaining(end) = (end - clock) \div Grain
  BY DEF Remaining
<1>2. end - clock \in Nat /\ Grain \in Nat \ {0}
  BY <1>1, CallAssumption
<1>3. /\ Remaining(end) \in Nat
      /\ Grain * Remaining(end) <= end - clock
  BY <1>1, <1>2, RoundingDown
<1>4. Grain * Remaining(end) \in Nat
  BY <1>2, <1>3
<1> QED
  BY <1>1, <1>3, <1>4 DEF After

\* Neither do fewer units, rounded down to milliseconds and clamped.
LEMMA ClampFits ==
  ASSUME NEW units \in Nat, NEW limit \in Nat
  PROVE  /\ AtMost(limit, units \div Grain) \in Nat
         /\ Grain * AtMost(limit, units \div Grain) \in Nat
         /\ Grain * AtMost(limit, units \div Grain) <= units
<1> DEFINE ms == units \div Grain
           most == AtMost(limit, units \div Grain)
<1>1. Grain \in Nat \ {0}
  BY CallAssumption
<1>2. ms \in Nat /\ Grain * ms <= units
  BY <1>1, RoundingDown
<1>3. most \in Nat /\ most <= ms
  BY <1>2 DEF AtMost
<1> HIDE DEF ms, most
<1>4. Grain * most <= Grain * ms
  BY <1>1, <1>2, <1>3, GrainMonotone
<1>5. Grain * most \in Nat /\ Grain * ms \in Nat
  BY <1>1, <1>2, <1>3
<1>6. most \in Nat /\ Grain * most \in Nat /\ Grain * most <= units
  BY <1>2, <1>3, <1>4, <1>5
<1> QED
  BY <1>6 DEF most

\* From the reading of a deadline to the start of what it bounds, so many
\* milliseconds from now end by the deadline, but for the delay so far; while the
\* transport subtracts what has elapsed, so many from its start do.
GapSound ==
    /\ pc = "pinning" =>
          /\ Grain * remaining \in Nat
          /\ clock + Grain * remaining <= Expires + delayed
    /\ pc = "dialing" =>
          /\ Grain * remaining \in Nat
          /\ clock + Grain * remaining <= Expires + delayed
    /\ pc \in {"consuming", "clamping"} => startedAt \in Nat /\ startedAt <= clock
    /\ pc = "clamping" =>
          /\ Grain * remaining \in Nat
          /\ startedAt + Grain * remaining <= pinEnd
    /\ pc = "arming" =>
          /\ Grain * limitMs \in Nat
          /\ clock + Grain * limitMs <= Expires + delayed

\* What the deadlines nest in.
NestSound ==
    /\ clock \in Nat
    /\ pinEnd \in Nat
    /\ delayed \in Nat
    /\ limitMs \in Nat
    /\ pinEnd <= Expires + delayed
    /\ DOMAIN due = Timers
    /\ \A t \in {"lookup", "deadline"} :
          due[t] # None => due[t] \in Nat /\ due[t] <= Expires + delayed

NestInv == NestSound /\ GapSound

\* A longer delay only loosens a bound.
LEMMA DelayLoosens ==
  ASSUME NEW x \in Nat, NEW e \in Nat, NEW d \in Nat, NEW f \in Nat,
         x <= e + d, d <= f
  PROVE  x <= e + f
  OBVIOUS

LEMMA ExpiresType == Expires \in Nat /\ Expires' = Expires
  BY CallAssumption DEF Expires

\* A step that leaves the deadlines alone, leaves the gaps behind, and stops all
\* timers or touches only those of a phase.
LEMMA NestKept ==
  ASSUME NestInv, UNCHANGED <<clock, pinEnd, delayed>>,
         pc' \notin Gaps \cup {"consuming", "clamping"},
         limitMs' \in Nat,
         \/ due' = NoTimers
         \/ /\ DOMAIN due' = Timers
            /\ due'["lookup"] = due["lookup"]
            /\ due'["deadline"] = due["deadline"]
  PROVE  NestInv'
  BY ExpiresType DEF NestInv, NestSound, GapSound, NoTimers, Timers

\* A timer armed inside the deadline.
LEMMA NestArmed ==
  ASSUME NestInv, UNCHANGED <<clock, pinEnd, delayed, limitMs>>,
         pc' \notin Gaps \cup {"consuming", "clamping"},
         NEW t \in Timers, NEW end \in Nat, end <= Expires + delayed,
         due' = [due EXCEPT ![t] = end]
  PROVE  NestInv'
<1>1. {"lookup", "deadline"} \subseteq Timers
  BY DEF Timers
<1> QED
  BY <1>1, ExpiresType DEF NestInv, NestSound, GapSound

LEMMA NestNext == NestInv /\ [Next]_vars => NestInv'
<1> SUFFICES ASSUME NestInv, [Next]_vars
             PROVE  NestInv'
  OBVIOUS
<1> USE ExpiresType
<1>1. CASE Tick
  <2>1. clock' = clock + 1 /\ UNCHANGED <<pc, remaining, pinEnd, startedAt, limitMs, due>>
    BY <1>1 DEF Tick
  <2>2. delayed' = IF pc \in Gaps THEN delayed + 1 ELSE delayed
    BY <1>1 DEF Tick
  <2>3. delayed \in Nat /\ delayed' \in Nat /\ delayed <= delayed'
    BY <2>2 DEF NestInv, NestSound
  <2>4. NestSound'
    <3>1. pinEnd \in Nat /\ pinEnd <= Expires + delayed'
      BY <2>3, DelayLoosens DEF NestInv, NestSound
    <3>2. /\ clock' \in Nat /\ pinEnd' \in Nat /\ limitMs' \in Nat
          /\ pinEnd' <= Expires + delayed'
          /\ DOMAIN due' = Timers
      BY <2>1, <3>1 DEF NestInv, NestSound
    <3>3. ASSUME NEW t \in {"lookup", "deadline"}, due'[t] # None
          PROVE  due'[t] \in Nat /\ due'[t] <= Expires + delayed'
      <4>1. due'[t] = due[t] /\ due[t] \in Nat /\ due[t] <= Expires + delayed
        BY <2>1, <3>3 DEF NestInv, NestSound
      <4> QED
        BY <2>3, <4>1, DelayLoosens
    <3> QED
      BY <2>3, <3>2, <3>3 DEF NestSound
  <2>5. GapSound'
    BY <2>1, <2>2 DEF NestInv, NestSound, GapSound
  <2> QED
    BY <2>4, <2>5 DEF NestInv
<1>2. CASE DispatchPrepared
  <2>1. CASE Report(Rejected)
    BY <1>2, <2>1, NestKept DEF DispatchPrepared, Report, NestInv, NestSound
  <2>2. CASE /\ Remaining(Expires) >= 1
             /\ remaining' = Remaining(Expires)
             /\ pc' = "pinning"
             /\ UNCHANGED <<clock, pinEnd, limitMs, delayed, due>>
    <3>1. /\ Grain * Remaining(Expires) \in Nat
          /\ clock + Grain * Remaining(Expires) <= Expires
      BY <2>2, RemainingFits DEF NestInv, NestSound, After
    <3> QED
      BY <2>2, <3>1 DEF NestInv, NestSound, GapSound
  <2> QED
    BY <1>2, <2>1, <2>2 DEF DispatchPrepared
<1>3. CASE StartPin
  <2>1. /\ pinEnd' = clock + Grain * remaining
        /\ pc' \in {"unpinned", "lookup"}
        /\ due' = NoTimers \/ due' = due
        /\ UNCHANGED <<clock, limitMs, delayed>>
    BY <1>3 DEF StartPin, Unpinned, After
  <2>2. /\ Grain * remaining \in Nat
        /\ clock + Grain * remaining <= Expires + delayed
    BY <1>3 DEF StartPin, NestInv, GapSound
  <2> QED
    BY <2>1, <2>2 DEF NestInv, NestSound, GapSound, NoTimers, Timers
<1>4. CASE StartLookup
  <2>1. CASE pc' # "dialing"
    BY <1>4, <2>1, NestKept DEF StartLookup, Unpinned, NestInv, NestSound
  <2>2. CASE pc' = "dialing"
    <3>1. /\ ~(Remaining(pinEnd) < 1)
          /\ remaining' = Remaining(pinEnd)
          /\ UNCHANGED <<clock, pinEnd, limitMs, delayed, due>>
      BY <1>4, <2>2 DEF StartLookup, Unpinned
    <3>2. Remaining(pinEnd) >= 1
      BY <3>1, RemainingType DEF NestInv, NestSound
    <3>3. /\ Grain * Remaining(pinEnd) \in Nat
          /\ clock + Grain * Remaining(pinEnd) <= pinEnd
      BY <3>2, RemainingFits DEF NestInv, NestSound, After
    <3> QED
      BY <2>2, <3>1, <3>3 DEF NestInv, NestSound, GapSound
  <2> QED
    BY <2>1, <2>2
<1>5. CASE AskResolver
  <2>1. After(remaining) \in Nat /\ After(remaining) <= Expires + delayed
    BY <1>5 DEF AskResolver, NestInv, NestSound, GapSound, After
  <2>2. "lookup" \in Timers
    BY DEF Timers
  <2> QED
    BY <1>5, <2>1, <2>2, NestArmed DEF AskResolver
<1>6. CASE Resolve \/ LookupTimeout \/ ClassifyPinFailure
  BY <1>6, NestKept
     DEF Resolve, LookupTimeout, ClassifyPinFailure, Unpinned, Report, NestInv,
         NestSound
<1>7. CASE OpenTransport
  <2>1. Remaining(Expires) \in Nat
    BY RemainingType DEF NestInv, NestSound
  <2>2. AtMost(DeadlineMs, Remaining(Expires)) \in Nat
    BY <2>1, CallAssumption DEF AtMost
  <2> QED
    BY <1>7, <2>2, NestKept DEF OpenTransport, Report, NestInv, NestSound
<1>8. CASE StartTransport
  BY <1>8 DEF StartTransport, NestInv, NestSound, GapSound
<1>9. CASE ConsumePin
  <2>1. CASE Abandon("not_sent")
    BY <1>9, <2>1, NestKept
       DEF ConsumePin, Abandon, Finish, Close, Report, NestInv, NestSound
  <2>2. CASE /\ Remaining(pinEnd) >= 1
             /\ remaining' = Remaining(pinEnd)
             /\ pc' = "clamping"
             /\ UNCHANGED due
    <3>1. UNCHANGED <<clock, pinEnd, startedAt, limitMs, delayed>>
      BY <1>9 DEF ConsumePin
    <3>2. startedAt \in Nat /\ startedAt <= clock
      BY <1>9 DEF ConsumePin, NestInv, GapSound
    <3>3. /\ Grain * Remaining(pinEnd) \in Nat
          /\ clock + Grain * Remaining(pinEnd) <= pinEnd
      BY <2>2, RemainingFits DEF NestInv, NestSound, After
    <3>4. startedAt + Grain * Remaining(pinEnd) <= pinEnd
      BY <3>2, <3>3 DEF NestInv, NestSound
    <3> QED
      BY <2>2, <3>1, <3>2, <3>3, <3>4 DEF NestInv, NestSound, GapSound
  <2> QED
    BY <1>9, <2>1, <2>2 DEF ConsumePin
<1>10. CASE ClampLimits
  <2> DEFINE left == Grain * remaining - Elapsed
  <2>1. CASE AbortOperation("deadline") /\ UNCHANGED limitMs
    BY <1>10, <2>1, NestKept
       DEF ClampLimits, AbortOperation, Finish, Close, Report, NestInv, NestSound
  <2>2. CASE /\ ~(left < Grain)
             /\ limitMs' = AtMost(limitMs, left \div Grain)
             /\ pc' = "arming"
             /\ UNCHANGED due
    <3>1. /\ startedAt \in Nat /\ startedAt <= clock
          /\ Grain * remaining \in Nat
          /\ startedAt + Grain * remaining <= pinEnd
      BY <1>10 DEF ClampLimits, NestInv, GapSound
    <3>2. left \in Nat /\ clock + left <= pinEnd
      BY <2>2, <3>1, CallAssumption DEF Elapsed, NestInv, NestSound
    <3>3. UNCHANGED <<clock, pinEnd, delayed>>
      BY <1>10 DEF ClampLimits
    <3> HIDE DEF left
    <3>4. /\ limitMs' \in Nat
          /\ Grain * limitMs' \in Nat
          /\ Grain * limitMs' <= left
      BY <2>2, <3>2, ClampFits DEF NestInv, NestSound
    <3>5. clock + Grain * limitMs' <= Expires + delayed
      BY <3>2, <3>4 DEF NestInv, NestSound
    <3> QED
      BY <2>2, <3>3, <3>4, <3>5 DEF NestInv, NestSound, GapSound
  <2> QED
    BY <1>10, <2>1, <2>2 DEF ClampLimits
<1>11. CASE ArmOperation
  <2>1. CASE AbortOperation("caller")
    BY <1>11, <2>1, NestKept
       DEF ArmOperation, AbortOperation, Finish, Close, Report, NestInv, NestSound
  <2>2. CASE ArmDeadline /\ pc' = "secrets"
    <3>1. After(limitMs) \in Nat /\ After(limitMs) <= Expires + delayed
      BY <1>11 DEF ArmOperation, NestInv, NestSound, GapSound, After
    <3>2. "deadline" \in Timers
      BY DEF Timers
    <3> QED
      BY <1>11, <2>2, <3>1, <3>2, NestArmed DEF ArmOperation, ArmDeadline
  <2> QED
    BY <1>11, <2>1, <2>2 DEF ArmOperation
<1>12. CASE ResolveSecrets \/ Connected
  BY <1>12, NestKept
     DEF ResolveSecrets, Connected, NestInv, NestSound, Timers, Abandon, Finish,
         Close, Report
<1>13. CASE ConnectionLost \/ BodyRefused
  BY <1>13, NestKept
     DEF ConnectionLost, BodyRefused, Abandon, Finish, Close, Report, NestInv,
         NestSound
<1>14. CASE ResponseHead \/ Chunk \/ BodyEnds
  BY <1>14, NestKept
     DEF ResponseHead, Chunk, BodyEnds, NestInv, NestSound, Timers, Abandon,
         Finish, Close, Report
<1>15. CASE Decode \/ Throw \/ Return
  BY <1>15, NestKept DEF Decode, Throw, Return, Close, Report, NestInv, NestSound
<1>16. CASE TimerFires
  BY <1>16, NestKept
     DEF TimerFires, AbortOperation, Finish, Close, Report, NestInv, NestSound
<1>17. CASE CallerAbort
  BY <1>17, NestKept
     DEF CallerAbort, AbortOperation, Unpinned, Finish, Close, Report, NestInv,
         NestSound
<1>18. CASE Transmit \/ Endpoint \/ UNCHANGED vars
  BY <1>18 DEF Transmit, Endpoint, vars, NestInv, NestSound, GapSound
<1> QED
  BY <1>1, <1>2, <1>3, <1>4, <1>5, <1>6, <1>7, <1>8, <1>9, <1>10, <1>11,
     <1>12, <1>13, <1>14, <1>15, <1>16, <1>17, <1>18 DEF Next, CallStep

\* For every grain of the clock, every limit and every delay of the process, the
\* deadline that is handed from the invocation to the pin, the lookup and the
\* operation gains nothing but that delay.
THEOREM DeadlinesProved == Spec => []DeadlinesNest
<1>1. Init => NestInv
  BY ExpiresType DEF Init, NestInv, NestSound, GapSound, NoTimers, Timers
<1>2. NestInv => DeadlinesNest
  BY DEF NestInv, NestSound, DeadlinesNest
<1> QED
  BY <1>1, <1>2, NestNext, PTL DEF Spec

-----------------------------------------------------------------------------
(* Proofs about CapabilityLease, for any instances, routes, deadlines and  *)
(* lifetimes of leases: a call on a conditional route does all it waits    *)
(* for under one lease.                                                    *)

Canaries == [instance : Instances, route : Offered \cup {Passive}, lifetime : Lifetimes]

Requests == [instance : Instances, route : Offered, token : tokens \cup {request.token},
             expires : Nat, budget : Nat, at : Nat,
             stage : {"prepared", "completed", "failed"}
                     \cup DOMAIN Reading \cup DOMAIN Verified \cup {"pinning", "open"}]

\* Each token that is valid in this process is of a canary that it saw answered.
TokensEarned ==
    \A t \in tokens : \E a \in answered :
        a.instance = t.instance /\ a.route = t.route /\ a.until = t.expires

\* What the preparation saw of the lease still holds, whatever became of the
\* token since: the deadline of the call lies within the lease.
RequestLeased ==
    request # Unused /\ StaticCapability[request.route] = "conditional" =>
        /\ \E a \in answered :
               /\ a.instance = request.instance /\ a.route = request.route
               /\ a.until = request.token.expires
        /\ request.expires <= request.token.expires
        /\ request.stage = "completed" => request.at < request.expires

LeaseInv ==
    /\ instant \in Nat
    /\ canary \in {Unused} \cup Canaries
    /\ \A t \in tokens : t \in [instance : Instances, route : Offered, expires : Nat]
    /\ \A a \in answered : a \in [instance : Instances, route : Offered, until : Nat]
    /\ request # Unused => request \in Requests
    /\ TokensEarned
    /\ RequestLeased

-----------------------------------------------------------------------------

\* The invariant holds of a process that has probed nothing.
LEMMA LeaseInvInit == LeaseInit => LeaseInv
  BY DEF LeaseInit, LeaseInv, TokensEarned, RequestLeased

\* A token that a preparation accepts covers the deadline that it computes, from
\* a reading of the clock before the one at which it verified the lease.
LEMMA PrepareKeeps ==
  ASSUME LeaseInv, NEW i \in Instances, NEW r \in Routes, NEW t \in tokens \cup {Unused, Copied},
         NEW d \in Deadlines, NEW s \in {0, 1}, s <= instant, Prepare(i, r, t, d, instant - s)
  PROVE  LeaseInv'
<1> DEFINE q == [instance |-> i, route |-> r, token |-> t,
                 expires |-> (instant - s) + d * TicksPerMs,
                 budget |-> 0, at |-> 0, stage |-> "prepared"]
<1>1. /\ request' = q /\ r \in Offered
      /\ UNCHANGED <<instant, canary, tokens, answered>>
  BY DEF Prepare
<1>2. d \in Nat /\ TicksPerMs \in Nat /\ instant \in Nat
  BY CapabilityLeaseAssumption DEF LeaseInv
<1>3. d * TicksPerMs \in Nat BY <1>2
<1>4. (instant - s) + d * TicksPerMs \in Nat BY <1>2, <1>3
<1>5. request' \in Requests'
  <2>1. t \in tokens' \cup {request'.token} BY <1>1
  <2>. QED BY <1>1, <1>4, <2>1 DEF Requests
<1>6. TokensEarned' BY <1>1 DEF LeaseInv, TokensEarned
<1>7. RequestLeased'
  <2>. SUFFICES ASSUME StaticCapability[r] = "conditional"
                PROVE  /\ \E a \in answered :
                              a.instance = i /\ a.route = r /\ a.until = t.expires
                       /\ q.expires <= t.expires
    BY <1>1 DEF RequestLeased
  <2>1. t # Unused BY DEF Prepare, TokenFits
  <2>2. /\ t \in tokens /\ t.instance = i /\ t.route = r
        /\ instant + d * TicksPerMs <= t.expires
    BY <2>1 DEF Prepare, LeaseIsAuthentic, Authorized
  <2>3. t.expires \in Nat BY <2>2 DEF LeaseInv
  <2>4. q.expires <= t.expires BY <1>2, <1>3, <2>2, <2>3
  <2>. QED BY <2>2, <2>4 DEF LeaseInv, TokensEarned
<1>. QED BY <1>1, <1>5, <1>6, <1>7 DEF LeaseInv

\* The steps of the dispatch: the request goes on with what it was prepared for,
\* and is completed only before its deadline.
LEMMA DispatchKeeps ==
  ASSUME LeaseInv, ReadRemaining \/ VerifyLease \/ Pinned \/ Responded \/ NoResponse
  PROVE  LeaseInv'
<1>1. /\ request # Unused /\ request \in Requests
      /\ instant' = instant /\ canary' = canary /\ answered' = answered
      /\ tokens' \subseteq tokens
  BY DEF LeaseInv, ReadRemaining, VerifyLease, Pinned, Responded, NoResponse
<1>2. TicksPerMs \in Nat \ {0} /\ instant \in Nat /\ request.expires \in Nat
  BY <1>1, CapabilityLeaseAssumption DEF LeaseInv, Requests
<1>3. RemainingMs \in Nat BY <1>2 DEF RemainingMs
<1>4. /\ request' \in Requests'
      /\ request'.instance = request.instance /\ request'.route = request.route
      /\ request'.token = request.token /\ request'.expires = request.expires
  <2>1. CASE ReadRemaining
    <3>1. CASE RemainingMs < 1 BY <1>1, <2>1, <3>1 DEF ReadRemaining, Requests
    <3>2. CASE ~(RemainingMs < 1)
      <4>1. Reading[request.stage] \in {"authorizing", "binding", "opening"}
        BY <2>1 DEF ReadRemaining, Reading
      <4>2. PICK stage \in {"authorizing", "binding", "opening"} :
                request' = [request EXCEPT !.stage = stage, !.budget = RemainingMs]
        BY <2>1, <3>2, <4>1 DEF ReadRemaining
      <4>. QED BY <1>1, <1>3, <4>2 DEF Requests, Verified
    <3>. QED BY <3>1, <3>2
  <2>2. CASE VerifyLease
    <3>1. \E stage \in {"failed", "authorized", "pinning", "open"} :
              request' = [request EXCEPT !.stage = stage]
      BY <2>2 DEF VerifyLease, Verified
    <3>. QED BY <1>1, <3>1 DEF Requests, Reading
  <2>3. CASE Pinned BY <1>1, <2>3 DEF Pinned, Requests, Reading, Verified
  <2>4. CASE Responded BY <1>1, <1>2, <2>4 DEF Responded, Requests, Reading, Verified
  <2>5. CASE NoResponse BY <1>1, <2>5 DEF NoResponse, Requests, Reading, Verified
  <2>. QED BY <2>1, <2>2, <2>3, <2>4, <2>5
<1>5. request'.stage = "completed" => request'.at < request'.expires
  <2>1. CASE ReadRemaining BY <1>1, <2>1 DEF ReadRemaining, Requests, Reading
  <2>2. CASE VerifyLease BY <1>1, <2>2 DEF VerifyLease, Requests, Verified
  <2>3. CASE Pinned BY <1>1, <2>3 DEF Pinned, Requests
  <2>4. CASE Responded BY <1>1, <1>2, <2>4 DEF Responded, Requests, RemainingMs
  <2>5. CASE NoResponse BY <1>1, <2>5 DEF NoResponse, Requests
  <2>. QED BY <2>1, <2>2, <2>3, <2>4, <2>5
<1>6. TokensEarned' BY <1>1 DEF LeaseInv, TokensEarned
<1>7. RequestLeased' BY <1>1, <1>4, <1>5 DEF LeaseInv, RequestLeased
<1>. QED BY <1>1, <1>4, <1>6, <1>7 DEF LeaseInv

\* The steps of a probe: a token and the canary that earned it come together.
LEMMA ProbeKeeps ==
  ASSUME LeaseInv,
         \/ \E i \in Instances, c \in Routes \cup {Passive}, l \in Lifetimes : StartProbe(i, c, l)
         \/ ProbeSupported
         \/ ProbeUnsupported
  PROVE  LeaseInv'
<1>1. CASE \E i \in Instances, c \in Routes \cup {Passive}, l \in Lifetimes : StartProbe(i, c, l)
  BY <1>1 DEF StartProbe, LeaseInv, Canaries, Requests, TokensEarned, RequestLeased
<1>2. CASE ProbeSupported
  <2>1. canary # Unused /\ canary \in Canaries /\ canary' = Unused /\ UNCHANGED <<instant, request>>
    BY <1>2 DEF ProbeSupported, LeaseInv
  <2>2. CASE canary.route = Passive
    BY <1>2, <2>1, <2>2 DEF ProbeSupported, LeaseInv, Requests, TokensEarned, RequestLeased
  <2>3. CASE canary.route # Passive
    <3> DEFINE expires == instant + canary.lifetime * TicksPerMs
    <3> DEFINE t == [instance |-> canary.instance, route |-> canary.route, expires |-> expires]
    <3> DEFINE a == [instance |-> canary.instance, route |-> canary.route, until |-> expires]
    <3>1. tokens' = tokens \cup {t} /\ answered' = answered \cup {a}
      BY <1>2, <2>3 DEF ProbeSupported
    <3>2. canary.lifetime \in Nat /\ TicksPerMs \in Nat /\ instant \in Nat
      BY <2>1, CapabilityLeaseAssumption DEF LeaseInv, Canaries
    <3>3. canary.lifetime * TicksPerMs \in Nat BY <3>2
    <3>4. expires \in Nat BY <3>2, <3>3
    <3>5. t \in [instance : Instances, route : Offered, expires : Nat]
      BY <2>1, <2>3, <3>4 DEF Canaries
    <3>6. TokensEarned'
      <4>1. t.instance = a.instance /\ t.route = a.route /\ t.expires = a.until OBVIOUS
      <4>. HIDE DEF t, a
      <4>. QED BY <3>1, <4>1 DEF LeaseInv, TokensEarned
    <3>9. a \in [instance : Instances, route : Offered, until : Nat]
      BY <2>1, <2>3, <3>4 DEF Canaries
    <3>7. RequestLeased' BY <2>1, <3>1 DEF LeaseInv, RequestLeased
    <3>8. request' # Unused => request' \in Requests'
      BY <2>1, <3>1 DEF LeaseInv, Requests
    <3>. QED BY <2>1, <3>1, <3>5, <3>6, <3>7, <3>8, <3>9 DEF LeaseInv
  <2>. QED BY <2>2, <2>3
<1>3. CASE ProbeUnsupported
  BY <1>3 DEF ProbeUnsupported, LeaseInv, Requests, TokensEarned, RequestLeased
<1>. QED BY <1>1, <1>2, <1>3

\* The invariant is inductive: time, the caller and the end of the process too.
LEMMA LeaseInvStep == LeaseInv /\ [LeaseNext]_leaseVars => LeaseInv'
<1> SUFFICES ASSUME LeaseInv, [LeaseNext]_leaseVars PROVE LeaseInv'
  OBVIOUS
<1>1. CASE TimePasses
  BY <1>1 DEF TimePasses, LeaseInv, Canaries, Requests, TokensEarned, RequestLeased
<1>2. CASE TakeOutcome
  BY <1>2 DEF TakeOutcome, LeaseInv, Canaries, TokensEarned, RequestLeased
<1>3. CASE NewProcess
  BY <1>3 DEF NewProcess, LeaseInv, TokensEarned, RequestLeased
<1>4. CASE UNCHANGED leaseVars
  BY <1>4 DEF leaseVars, LeaseInv, Canaries, Requests, TokensEarned, RequestLeased
<1>. QED
  BY <1>1, <1>2, <1>3, <1>4, PrepareKeeps, DispatchKeeps, ProbeKeeps DEF LeaseNext

\* "The opaque lease must remain valid for the complete bounded operation"
\* (probe.ts), for whatever instances, routes, deadlines and lifetimes, and
\* however often the endpoint is probed again meanwhile.
THEOREM OneLeaseCovers == LeaseSpec => []LeaseCovers
<1>1. LeaseInv => LeaseCovers
  <2> SUFFICES ASSUME LeaseInv, request # Unused,
                      StaticCapability[request.route] = "conditional"
               PROVE  \E a \in answered :
                          /\ a.instance = request.instance /\ a.route = request.route
                          /\ request.stage # "failed" => request.expires <= a.until
                          /\ request.stage = "completed" => request.at < a.until
    BY DEF LeaseCovers
  <2>1. PICK a \in answered : /\ a.instance = request.instance /\ a.route = request.route
                              /\ a.until = request.token.expires
    BY DEF LeaseInv, RequestLeased
  <2>2. request.at \in Nat /\ request.expires \in Nat /\ a.until \in Nat
    BY DEF LeaseInv, Requests
  <2>. QED BY <2>1, <2>2 DEF LeaseInv, RequestLeased
<1>. QED BY <1>1, LeaseInvInit, LeaseInvStep, PTL DEF LeaseSpec

-----------------------------------------------------------------------------
(* What has been read of a response.                                       *)

HIDE DEF Steps, ClientSteps, Unconnected, Connecteds, DispatchStates

Readers ==
    [stage : Nat, text : Nat, reasoning : Nat,
     part : [Parts -> {"not-started", "started", "ended"}],
     chatStarted : BOOLEAN, providerError : BOOLEAN,
     terminal : {"truncated", "complete", "provider-error"}]

ReaderTyped == read \in Seq(Sent) /\ reader \in Readers

\* What a reader of a staged protocol has read, n events of it, at a stage.
ChatRead(n, stage) ==
    /\ stage \in 0..2 /\ n >= stage
    /\ \A k \in 1..(n - stage) : read[k].type = "delta"
    /\ stage >= 1 => read[n - stage + 1].type = "finish"
    /\ stage = 2 => read[n].type = "usage"

ChatInv ==
    /\ reader.terminal = "truncated" => ChatRead(Len(read), reader.stage)
    /\ reader.terminal = "complete" =>
          /\ Len(read) > 0 /\ read[Len(read)].type = "[DONE]"
          /\ ChatRead(Len(read) - 1, reader.stage)

OllamaInv ==
    /\ reader.terminal = "truncated" =>
          reader.stage = 0 /\ \A k \in DOMAIN read : read[k].type = "delta"
    /\ reader.terminal = "complete" /\ reader.stage = 2 =>
          /\ Len(read) > 0 /\ read[Len(read)].type = "done-with-counts"
          /\ \A k \in 1..(Len(read) - 1) : read[k].type = "delta"

ResponsesInv ==
    reader.terminal # "provider-error" =>
        /\ reader.stage \in 0..8 /\ Len(read) = reader.stage + reader.text
        /\ reader.stage < 4 => reader.text = 0
        /\ reader.stage > 4 => reader.text > 0
        /\ \A k \in DOMAIN read :
              /\ k <= 4 => read[k].type = ResponsesOrder[k]
              /\ k > 4 /\ k <= 4 + reader.text => read[k].type = "response.output_text.delta"
              /\ k > 4 + reader.text => /\ read[k].type = ResponsesOrder[k - reader.text]
                                        /\ read[k].text = reader.text
        /\ (reader.terminal = "complete") <=> (reader.stage = 8)

\* What was read of a part, and where.
PartRead(part) ==
    LET starts == Where(StartOf[part])
        ends == Where(EndOf[part])
    IN  /\ reader.part[part] = "not-started" <=> starts = {}
        /\ reader.part[part] = "ended" <=> ends # {}
        /\ \A m, n \in starts : m = n
        /\ \A m, n \in ends : m = n
        /\ \A n \in ends \cup Where(WithinOf[part]) : \E m \in starts : m < n
        /\ \A n \in Where(WithinOf[part]), m \in ends : n < m
        /\ starts # {} => \A p \in Earlier[part] :
              /\ reader.part[p] # "started"
              /\ \A m \in Where(EndOf[p]), n \in starts : m < n

LmStudioInv ==
    ~reader.providerError =>
        /\ reader.terminal # "provider-error"
        /\ reader.chatStarted <=> read # <<>>
        /\ Where("chat.start") = IF read = <<>> THEN {} ELSE {1}
        /\ Where("chat.end") = IF reader.terminal = "complete" THEN {Len(read)} ELSE {}
        /\ Where("error") = {} /\ Where("malformed") = {}
        /\ \A part \in Parts : PartRead(part)
        /\ Cardinality(Where("message.delta")) = reader.text
        /\ Cardinality(Where("reasoning.delta")) = reader.reasoning
        /\ reader.terminal = "complete" =>
              /\ reader.part["message"] = "ended"
              /\ \A part \in Parts : reader.part[part] # "started"
              /\ read[Len(read)].text = reader.text
              /\ read[Len(read)].reasoning = reader.reasoning

StreamInv ==
    CASE protocol = Chat -> ChatInv
      [] protocol = Ollama -> OllamaInv
      [] protocol = Responses -> ResponsesInv
      [] protocol = LmStudio -> LmStudioInv

ProviderInv ==
    /\ document = Streamed => protocol \in {Chat, Responses, LmStudio, Ollama}
    /\ document # Streamed => document \in Documents(protocol)
    /\ ReaderTyped
    /\ status = "reading" /\ document = Streamed => StreamInv
    /\ CompletedIsWhole

LEMMA OneMoreEvent ==
  ASSUME ReaderTyped, NEW event \in Sent, read' = Append(read, event)
  PROVE  /\ Len(read) \in Nat /\ Len(read') = Len(read) + 1
         /\ DOMAIN read = 1..Len(read) /\ DOMAIN read' = 1..(Len(read) + 1)
         /\ \A k \in 1..Len(read) : read'[k] = read[k]
         /\ read'[Len(read) + 1] = event
  BY DEF ReaderTyped, Readers

\* What a step from stage to stage leaves.
LEMMA StagedGives ==
  ASSUME ReaderTyped, NEW event, Staged(event)
  PROVE  \E step \in StepsOf(protocol) :
            /\ step[1] = reader.stage /\ step[2] = event.type
            /\ event.type \in Repeating => event.text = reader.text /\ event.text > 0
            /\ reader'.stage = step[3]
            /\ reader'.text = IF event.type \in Deltas THEN reader.text + 1 ELSE reader.text
            /\ reader'.terminal = IF event.type \in {"response.completed", "done",
                                                    "done-with-counts"}
                                  THEN "complete" ELSE reader.terminal
            /\ reader' = [reader EXCEPT !.stage = step[3], !.text = reader'.text,
                                       !.terminal = reader'.terminal]
  BY DEF ReaderTyped, Readers, Staged

LEMMA SentinelGives ==
  ASSUME ReaderTyped, NEW event, Sentinel(event) \/ ProviderError(event)
  PROVE  \/ /\ protocol = Chat /\ event.type = "[DONE]"
            /\ reader' = [reader EXCEPT !.terminal = "complete"]
            /\ reader'.terminal = "complete" /\ reader'.stage = reader.stage
         \/ /\ protocol # LmStudio
            /\ reader' = [reader EXCEPT !.terminal = "provider-error"]
            /\ reader'.terminal = "provider-error"
  BY DEF ReaderTyped, Readers, Sentinel, ProviderError

LEMMA ProtocolsDiffer ==
    /\ Chat # Responses /\ Chat # LmStudio /\ Chat # Ollama /\ Chat # Tgi
    /\ Responses # LmStudio /\ Responses # Ollama /\ Responses # Tgi
    /\ LmStudio # Ollama /\ LmStudio # Tgi /\ Ollama # Tgi
  BY DEF Chat, Responses, LmStudio, Ollama, Tgi

LEMMA ChatStep ==
  ASSUME ReaderTyped, protocol = Chat, ChatInv, NEW event \in Sent,
         read' = Append(read, event), Accepts(event)
  PROVE  ChatInv'
<1>1. reader.terminal = "truncated" /\ ChatRead(Len(read), reader.stage)
  BY DEF Accepts, ChatInv
<1>2. PICK L \in Nat : L = Len(read) BY DEF ReaderTyped, Readers
<1>3. /\ Len(read') = L + 1 /\ read'[L + 1] = event
      /\ \A k \in 1..L : read'[k] = read[k]
  BY <1>2, OneMoreEvent
<1>4. PICK stage \in 0..2 : stage = reader.stage BY <1>1 DEF ChatRead
<1>5. /\ L >= stage
      /\ \A k \in 1..(L - stage) : read[k].type = "delta"
      /\ stage >= 1 => read[L - stage + 1].type = "finish"
      /\ stage = 2 => read[L].type = "usage"
  BY <1>1, <1>2, <1>4 DEF ChatRead
<1>6. CASE Staged(event)
  <2>1. PICK step \in ChatSteps :
            /\ step[1] = stage /\ step[2] = event.type /\ reader'.stage = step[3]
            /\ reader'.terminal = "truncated"
    <3>1. PICK step \in StepsOf(protocol) :
            /\ step[1] = reader.stage /\ step[2] = event.type
            /\ reader'.stage = step[3]
            /\ reader'.terminal = IF event.type \in {"response.completed", "done",
                                                    "done-with-counts"}
                                  THEN "complete" ELSE reader.terminal
      BY <1>6, StagedGives
    <3>2. step \in ChatSteps BY ProtocolsDiffer DEF StepsOf
    <3>3. event.type \in {"delta", "finish", "usage"} BY <3>1, <3>2 DEF ChatSteps
    <3>. QED BY <1>1, <1>4, <3>1, <3>2, <3>3
  <2>2. \/ stage = 0 /\ event.type = "delta" /\ reader'.stage = 0
        \/ stage = 0 /\ event.type = "finish" /\ reader'.stage = 1
        \/ stage = 1 /\ event.type = "usage" /\ reader'.stage = 2
    BY <2>1 DEF ChatSteps
  <2>3. ChatRead(L + 1, reader.stage)'
    <3>0. ChatRead(L, stage) BY <1>5 DEF ChatRead
    <3>1. CASE stage = 0 /\ event.type = "delta" /\ reader'.stage = 0
      <4>1. \A k \in 1..L : read'[k].type = "delta" BY <1>3, <3>0, <3>1 DEF ChatRead
      <4>2. \A k \in 1..(L + 1) : read'[k].type = "delta" BY <1>3, <3>1, <4>1
      <4>3. (L + 1) - reader'.stage = L + 1 /\ reader'.stage \in 0..2 /\ L + 1 >= reader'.stage
        BY <3>1
      <4>4. \A k \in 1..((L + 1) - reader'.stage) : read'[k].type = "delta" BY <4>2, <4>3
      <4>5. ~(reader'.stage >= 1) /\ reader'.stage # 2 BY <3>1
      <4>. QED BY <4>3, <4>4, <4>5, Zenon DEF ChatRead
    <3>2. CASE stage = 0 /\ event.type = "finish" /\ reader'.stage = 1
      <4>1. \A k \in 1..L : read'[k].type = "delta" BY <1>3, <3>0, <3>2 DEF ChatRead
      <4>. QED BY <1>3, <3>2, <4>1 DEF ChatRead
    <3>3. CASE stage = 1 /\ event.type = "usage" /\ reader'.stage = 2
      <4>1. /\ L >= 1 /\ read[L].type = "finish"
            /\ \A k \in 1..(L - 1) : read[k].type = "delta"
        BY <3>0, <3>3 DEF ChatRead
      <4>2. read'[L].type = "finish" BY <1>3, <4>1
      <4>3. \A k \in 1..(L - 1) : read'[k].type = "delta" BY <1>3, <4>1
      <4>4. read'[L + 1].type = "usage" BY <1>3, <3>3
      <4>. QED BY <3>3, <4>1, <4>2, <4>3, <4>4 DEF ChatRead
    <3>. QED BY <2>2, <3>1, <3>2, <3>3
  <2>. QED BY <1>3, <2>1, <2>3 DEF ChatInv
<1>7. CASE Sentinel(event) \/ ProviderError(event)
  <2>1. \/ event.type = "[DONE]" /\ reader'.terminal = "complete" /\ reader'.stage = stage
        \/ reader'.terminal = "provider-error"
    BY <1>4, <1>7, SentinelGives
  <2>2. CASE reader'.terminal = "provider-error" BY <2>2 DEF ChatInv
  <2>3. CASE event.type = "[DONE]" /\ reader'.terminal = "complete" /\ reader'.stage = stage
    <3>1. ChatRead(L, reader.stage)' BY <1>3, <1>5, <2>3 DEF ChatRead
    <3>. QED BY <1>3, <2>3, <3>1 DEF ChatInv
  <2>. QED BY <2>1, <2>2, <2>3
<1>8. ~LmStudioEvent(event) BY ProtocolsDiffer DEF LmStudioEvent
<1>. QED BY <1>6, <1>7, <1>8 DEF Accepts

LEMMA OllamaStep ==
  ASSUME ReaderTyped, protocol = Ollama, OllamaInv, NEW event \in Sent,
         read' = Append(read, event), Accepts(event)
  PROVE  OllamaInv'
<1>1. /\ reader.terminal = "truncated" /\ reader.stage = 0
      /\ \A k \in DOMAIN read : read[k].type = "delta"
  BY DEF Accepts, OllamaInv
<1>2. PICK L \in Nat : L = Len(read) BY DEF ReaderTyped, Readers
<1>3. /\ Len(read') = L + 1 /\ read'[L + 1] = event /\ DOMAIN read' = 1..(L + 1)
      /\ \A k \in 1..L : read'[k] = read[k] /\ read[k].type = "delta"
  BY <1>1, <1>2, OneMoreEvent
<1>4. CASE Staged(event)
  <2>1. PICK step \in StepsOf(protocol) :
          /\ step[1] = reader.stage /\ step[2] = event.type
          /\ reader'.stage = step[3]
          /\ reader'.terminal = IF event.type \in {"response.completed", "done",
                                                  "done-with-counts"}
                                THEN "complete" ELSE reader.terminal
    BY <1>4, StagedGives
  <2>2. step \in OllamaSteps BY ProtocolsDiffer DEF StepsOf
  <2>3. \/ event.type = "delta" /\ reader'.stage = 0 /\ reader'.terminal = "truncated"
        \/ event.type = "done" /\ reader'.stage = 1 /\ reader'.terminal = "complete"
        \/ event.type = "done-with-counts" /\ reader'.stage = 2 /\ reader'.terminal = "complete"
    BY <1>1, <2>1, <2>2 DEF OllamaSteps
  <2>. QED BY <1>3, <2>3 DEF OllamaInv
<1>5. CASE Sentinel(event) \/ ProviderError(event)
  <2>1. reader'.terminal = "provider-error" BY <1>5, SentinelGives, ProtocolsDiffer
  <2>. QED BY <2>1 DEF OllamaInv
<1>6. ~LmStudioEvent(event) BY ProtocolsDiffer DEF LmStudioEvent
<1>. QED BY <1>4, <1>5, <1>6 DEF Accepts

LEMMA ResponsesStep ==
  ASSUME ReaderTyped, protocol = Responses, ResponsesInv, NEW event \in Sent,
         read' = Append(read, event), Accepts(event)
  PROVE  ResponsesInv'
<1>1. reader.terminal = "truncated" BY DEF Accepts
<1>2. PICK L \in Nat : L = Len(read) BY DEF ReaderTyped, Readers
<1>3. /\ Len(read') = L + 1 /\ read'[L + 1] = event
      /\ DOMAIN read = 1..L /\ DOMAIN read' = 1..(L + 1)
      /\ \A k \in 1..L : read'[k] = read[k]
  BY <1>2, OneMoreEvent
<1>4. PICK stage \in 0..8, text \in Nat : stage = reader.stage /\ text = reader.text
  BY <1>1 DEF ResponsesInv, ReaderTyped, Readers
<1>5. /\ L = stage + text /\ stage # 8
      /\ stage < 4 => text = 0
      /\ stage > 4 => text > 0
      /\ \A k \in 1..L :
              /\ k <= 4 => read[k].type = ResponsesOrder[k]
              /\ k > 4 /\ k <= 4 + text => read[k].type = "response.output_text.delta"
              /\ k > 4 + text => /\ read[k].type = ResponsesOrder[k - text]
                                 /\ read[k].text = text
  BY <1>1, <1>2, <1>3, <1>4 DEF ResponsesInv
<1>6. CASE Staged(event)
  <2>1. PICK step \in StepsOf(protocol) :
          /\ step[1] = reader.stage /\ step[2] = event.type
          /\ event.type \in Repeating => event.text = reader.text /\ event.text > 0
          /\ reader'.stage = step[3]
          /\ reader'.text = IF event.type \in Deltas THEN reader.text + 1 ELSE reader.text
          /\ reader'.terminal = IF event.type \in {"response.completed", "done",
                                                  "done-with-counts"}
                                THEN "complete" ELSE reader.terminal
    BY <1>6, StagedGives
  <2>2. step \in ResponsesSteps BY ProtocolsDiffer DEF StepsOf
  <2>3. \/ \E n \in 1..8 : step = <<n - 1, ResponsesOrder[n], n>>
        \/ step = <<4, "response.output_text.delta", 4>>
    BY <2>2 DEF ResponsesSteps, ResponsesOrder
  <2>4. CASE step = <<4, "response.output_text.delta", 4>>
    <3>1. /\ stage = 4 /\ event.type = "response.output_text.delta"
          /\ reader'.stage = 4 /\ reader'.text = text + 1 /\ reader'.terminal = "truncated"
      BY <1>1, <1>4, <2>1, <2>4 DEF Deltas
    <3>2. \A k \in 1..(L + 1) :
              /\ k <= 4 => read'[k].type = ResponsesOrder[k]
              /\ k > 4 => k <= 4 + (text + 1) /\ read'[k].type = "response.output_text.delta"
      BY <1>3, <1>5, <3>1
    <3>. QED BY <1>3, <1>5, <3>1, <3>2 DEF ResponsesInv
  <2>5. CASE \E n \in 1..8 : step = <<n - 1, ResponsesOrder[n], n>>
    <3>1. PICK n \in 1..8 : step = <<n - 1, ResponsesOrder[n], n>> BY <2>5
    <3>2. stage = n - 1 /\ event.type = ResponsesOrder[n] /\ reader'.stage = n
      BY <1>4, <2>1, <3>1
    <3>3. /\ ResponsesOrder[n] \notin Deltas
          /\ ResponsesOrder[n] \in {"response.completed", "done", "done-with-counts"} <=> n = 8
          /\ n > 4 => ResponsesOrder[n] \in Repeating
      BY DEF ResponsesOrder, Deltas, Repeating
    <3>4. /\ reader'.text = text /\ reader'.terminal = IF n = 8 THEN "complete" ELSE "truncated"
          /\ n > 4 => event.text = text /\ text > 0
      BY <1>1, <1>4, <2>1, <3>2, <3>3
    <3>5. \A k \in 1..(L + 1) :
              /\ k <= 4 => read'[k].type = ResponsesOrder[k]
              /\ k > 4 /\ k <= 4 + text => read'[k].type = "response.output_text.delta"
              /\ k > 4 + text => /\ read'[k].type = ResponsesOrder[k - text]
                                 /\ read'[k].text = text
      <4>. DEFINE Right(k) ==
                    /\ k <= 4 => read'[k].type = ResponsesOrder[k]
                    /\ k > 4 /\ k <= 4 + text => read'[k].type = "response.output_text.delta"
                    /\ k > 4 + text => /\ read'[k].type = ResponsesOrder[k - text]
                                       /\ read'[k].text = text
      <4>1. L = stage + text /\ L + 1 = n + text BY <1>5, <3>2
      <4>2. n <= 4 => text = 0 BY <1>5, <3>2
      <4>3. event.type = ResponsesOrder[n] /\ (n > 4 => event.text = text) BY <3>2, <3>4
      <4>4. \A k \in 1..L : Right(k) BY <1>3, <1>5
      <4>5. Right(L + 1)
        <5>1. CASE n <= 4
          <6>1. L + 1 = n /\ L + 1 <= 4 BY <4>1, <4>2, <5>1
          <6>2. read'[L + 1].type = ResponsesOrder[n] BY <1>3, <4>3
          <6>3. ~(L + 1 > 4) BY <6>1
          <6>4. ~(L + 1 > 4 + text) BY <4>2, <5>1, <6>1
          <6>. QED BY <6>1, <6>2, <6>3, <6>4
        <5>2. CASE n > 4
          <6>1. ~(L + 1 <= 4) /\ L + 1 > 4 + text /\ (L + 1) - text = n BY <4>1, <5>2
          <6>2. read'[L + 1].type = ResponsesOrder[n] /\ read'[L + 1].text = text
            BY <1>3, <4>3, <5>2
          <6>3. ~(L + 1 <= 4 + text) BY <6>1
          <6>. QED BY <6>1, <6>2, <6>3
        <5>3. n <= 4 \/ n > 4 OBVIOUS
        <5>. QED BY <5>1, <5>2, <5>3, Zenon
      <4>. HIDE DEF Right
      <4>6. \A k \in 1..(L + 1) : k \in 1..L \/ k = L + 1 OBVIOUS
      <4>7. \A k \in 1..(L + 1) : Right(k) BY <4>4, <4>5, <4>6
      <4>. QED BY <4>7 DEF Right
    <3>. QED BY <1>3, <1>5, <3>2, <3>4, <3>5 DEF ResponsesInv
  <2>. QED BY <2>3, <2>4, <2>5
<1>7. CASE Sentinel(event) \/ ProviderError(event)
  <2>1. reader'.terminal = "provider-error" BY <1>7, SentinelGives, ProtocolsDiffer
  <2>. QED BY <2>1 DEF ResponsesInv
<1>8. ~LmStudioEvent(event) BY ProtocolsDiffer DEF LmStudioEvent
<1>. QED BY <1>6, <1>7, <1>8 DEF Accepts

\* An event is at the place it is read at.
LEMMA WhereGrows ==
  ASSUME ReaderTyped, NEW event \in Sent, read' = Append(read, event), NEW t
  PROVE  /\ Where(t) \subseteq 1..Len(read)
         /\ Where(t)' = IF event.type = t THEN Where(t) \cup {Len(read) + 1} ELSE Where(t)
         /\ Cardinality(Where(t)) \in Nat
         /\ Cardinality(Where(t)') = IF event.type = t THEN Cardinality(Where(t)) + 1
                                     ELSE Cardinality(Where(t))
<1>1. PICK L \in Nat : L = Len(read) BY DEF ReaderTyped, Readers
<1>2. /\ DOMAIN read = 1..L /\ DOMAIN read' = 1..(L + 1)
      /\ \A k \in 1..L : read'[k] = read[k]
      /\ read'[L + 1] = event
  BY <1>1, OneMoreEvent
<1>3. PICK old : old = Where(t) OBVIOUS
<1>4. old \subseteq 1..L BY <1>2, <1>3 DEF Where
<1>5. Where(t)' = IF event.type = t THEN old \cup {L + 1} ELSE old
  BY <1>2, <1>3 DEF Where
<1>6. IsFiniteSet(old) /\ Cardinality(old) \in Nat
  <2>1. IsFiniteSet(1..L) BY FS_Interval
  <2>. QED BY <1>4, <2>1, FS_Subset, FS_CardinalityType
<1>7. L + 1 \notin old BY <1>4
<1>8. Cardinality(old \cup {L + 1}) = Cardinality(old) + 1
  BY <1>6, <1>7, FS_AddElement
<1>. QED BY <1>1, <1>3, <1>4, <1>5, <1>6, <1>8

\* The events of the parts are told apart.
LEMMA PartEvents ==
    /\ \A p, q \in Parts :
          /\ (StartOf[p] = StartOf[q]) => p = q
          /\ (EndOf[p] = EndOf[q]) => p = q
          /\ (WithinOf[p] = WithinOf[q]) => p = q
          /\ StartOf[p] # EndOf[q] /\ StartOf[p] # WithinOf[q] /\ EndOf[p] # WithinOf[q]
    /\ \A p \in Parts :
          {StartOf[p], EndOf[p], WithinOf[p]}
              \cap {"chat.start", "chat.end", "error", "malformed"} = {}
    /\ StartOf["message"] = "message.start"
    /\ WithinOf["message"] = "message.delta" /\ WithinOf["reasoning"] = "reasoning.delta"
    /\ \A p \in Parts : Earlier[p] \subseteq Parts /\ p \notin Earlier[p]
  BY DEF Parts, StartOf, EndOf, WithinOf, Earlier

LEMMA MayStartGives ==
  ASSUME NEW part \in Parts, MayStart(part)
  PROVE  /\ reader.chatStarted /\ reader.part[part] = "not-started"
         /\ \A p \in Earlier[part] : reader.part[p] # "started"
         /\ \A q \in Parts : part \in Earlier[q] => reader.part[q] = "not-started"
<1>1. part \in {"model_load", "prompt_processing", "reasoning", "message"} BY DEF Parts
<1>2. CASE part = "model_load" BY <1>2 DEF MayStart, Ready, Parts, Earlier
<1>3. CASE part = "prompt_processing" BY <1>3 DEF MayStart, Ready, Parts, Earlier
<1>4. CASE part = "reasoning" BY <1>4 DEF MayStart, Ready, Parts, Earlier
<1>5. CASE part = "message" BY <1>5 DEF MayStart, Ready, Parts, Earlier
<1>. QED BY <1>1, <1>2, <1>3, <1>4, <1>5

\* A part of which nothing is read stays as it is.
LEMMA PartKept ==
  ASSUME NEW q \in Parts, PartRead(q), reader'.part[q] = reader.part[q],
         Where(StartOf[q])' = Where(StartOf[q]), Where(EndOf[q])' = Where(EndOf[q]),
         Where(WithinOf[q])' = Where(WithinOf[q]),
         Where(StartOf[q]) # {} =>
             \A p \in Earlier[q] : /\ reader'.part[p] # "started"
                                   /\ Where(EndOf[p])' = Where(EndOf[p])
  PROVE  PartRead(q)'
  BY DEF PartRead

LEMMA PartStarts ==
  ASSUME ReaderTyped, \A q \in Parts : PartRead(q), NEW event \in Sent,
         read' = Append(read, event),
         NEW part \in Parts, event.type = StartOf[part], MayStart(part),
         reader' = [reader EXCEPT !.part[part] = "started"]
  PROVE  \A q \in Parts : PartRead(q)'
<1>1. PICK L \in Nat : L = Len(read) BY DEF ReaderTyped, Readers
<1>2. /\ reader'.part[part] = "started"
      /\ \A q \in Parts \ {part} : reader'.part[q] = reader.part[q]
  BY DEF ReaderTyped, Readers
<1>3. \A q \in Parts :
          /\ Where(EndOf[q])' = Where(EndOf[q]) /\ Where(WithinOf[q])' = Where(WithinOf[q])
          /\ q # part => Where(StartOf[q])' = Where(StartOf[q])
          /\ Where(EndOf[q]) \subseteq 1..L
  BY <1>1, WhereGrows, PartEvents
<1>4. Where(StartOf[part])' = Where(StartOf[part]) \cup {L + 1}
  BY <1>1, WhereGrows
<1>5. /\ reader.part[part] = "not-started"
      /\ \A p \in Earlier[part] : reader.part[p] # "started"
      /\ \A q \in Parts : part \in Earlier[q] => reader.part[q] = "not-started"
  BY MayStartGives
<1>6. ASSUME NEW q \in Parts \ {part} PROVE PartRead(q)'
  <2>1. ASSUME Where(StartOf[q]) # {}, NEW p \in Earlier[q]
        PROVE  reader'.part[p] # "started" /\ Where(EndOf[p])' = Where(EndOf[p])
    <3>1. p \in Parts /\ reader.part[p] # "started" BY <2>1, PartEvents DEF PartRead
    <3>2. p # part BY <1>5, <2>1 DEF PartRead
    <3>. QED BY <1>2, <1>3, <3>1, <3>2
  <2>. QED BY <1>2, <1>3, <2>1, PartKept
<1>7. PartRead(part)'
  <2>1. Where(StartOf[part]) = {} /\ Where(EndOf[part]) = {} /\ Where(WithinOf[part]) = {}
    BY <1>5 DEF PartRead
  <2>2. /\ Where(StartOf[part])' = {L + 1} /\ Where(EndOf[part])' = {}
        /\ Where(WithinOf[part])' = {}
    BY <1>3, <1>4, <2>1
  <2>3. ASSUME NEW p \in Earlier[part]
        PROVE  /\ reader'.part[p] # "started"
               /\ \A m \in Where(EndOf[p])', n \in {L + 1} : m < n
    <3>1. p \in Parts \ {part} BY PartEvents
    <3>2. Where(EndOf[p])' \subseteq 1..L BY <1>3, <3>1
    <3>. QED BY <1>2, <1>5, <3>1, <3>2
  <2>. QED BY <1>2, <2>2, <2>3 DEF PartRead
<1>. QED BY <1>6, <1>7

LEMMA PartShows ==
  ASSUME ReaderTyped, \A q \in Parts : PartRead(q), NEW event \in Sent,
         read' = Append(read, event),
         NEW part \in Parts, event.type = WithinOf[part], reader.part[part] = "started",
         reader'.part = reader.part
  PROVE  \A q \in Parts : PartRead(q)'
<1>1. PICK L \in Nat : L = Len(read) BY DEF ReaderTyped, Readers
<1>2. \A q \in Parts :
          /\ Where(StartOf[q])' = Where(StartOf[q]) /\ Where(EndOf[q])' = Where(EndOf[q])
          /\ q # part => Where(WithinOf[q])' = Where(WithinOf[q])
          /\ Where(StartOf[q]) \subseteq 1..L
  BY <1>1, WhereGrows, PartEvents
<1>3. Where(WithinOf[part])' = Where(WithinOf[part]) \cup {L + 1}
  BY <1>1, WhereGrows
<1>4. ASSUME NEW q \in Parts \ {part} PROVE PartRead(q)'
  <2>1. ASSUME Where(StartOf[q]) # {}, NEW p \in Earlier[q]
        PROVE  reader'.part[p] # "started" /\ Where(EndOf[p])' = Where(EndOf[p])
    <3>1. p \in Parts /\ reader.part[p] # "started" BY <2>1, PartEvents DEF PartRead
    <3>. QED BY <1>2, <3>1
  <2>. QED BY <1>2, <2>1, PartKept
<1>5. PartRead(part)'
  <2>1. Where(StartOf[part]) # {} /\ Where(EndOf[part]) = {} BY DEF PartRead
  <2>2. PICK m \in Where(StartOf[part]) : m < L + 1 BY <1>2, <2>1
  <2>3. \A n \in Where(WithinOf[part])' : \E k \in Where(StartOf[part]) : k < n
    BY <1>3, <2>2 DEF PartRead
  <2>4. ASSUME NEW p \in Earlier[part]
        PROVE  /\ reader'.part[p] # "started"
               /\ \A i \in Where(EndOf[p])', n \in Where(StartOf[part])' : i < n
    <3>1. p \in Parts BY PartEvents
    <3>2. /\ reader.part[p] # "started"
          /\ \A i \in Where(EndOf[p]), n \in Where(StartOf[part]) : i < n
      BY <2>1 DEF PartRead
    <3>. QED BY <1>2, <3>1, <3>2
  <2>5. \A i, n \in Where(StartOf[part]) : i = n BY DEF PartRead
  <2>6. Where(StartOf[part])' = Where(StartOf[part]) /\ Where(EndOf[part])' = {}
    BY <1>2, <2>1
  <2>. QED BY <2>1, <2>3, <2>4, <2>5, <2>6 DEF PartRead
<1>. QED BY <1>4, <1>5

LEMMA PartEnds ==
  ASSUME ReaderTyped, \A q \in Parts : PartRead(q), NEW event \in Sent,
         read' = Append(read, event),
         NEW part \in Parts, event.type = EndOf[part], reader.part[part] = "started",
         reader' = [reader EXCEPT !.part[part] = "ended"]
  PROVE  \A q \in Parts : PartRead(q)'
<1>1. PICK L \in Nat : L = Len(read) BY DEF ReaderTyped, Readers
<1>2. \A q \in Parts :
          /\ Where(StartOf[q])' = Where(StartOf[q])
          /\ Where(WithinOf[q])' = Where(WithinOf[q])
          /\ q # part => Where(EndOf[q])' = Where(EndOf[q])
          /\ Where(StartOf[q]) \subseteq 1..L /\ Where(WithinOf[q]) \subseteq 1..L
  BY <1>1, WhereGrows, PartEvents
<1>3. Where(EndOf[part])' = Where(EndOf[part]) \cup {L + 1}
  BY <1>1, WhereGrows
<1>4. /\ reader'.part[part] = "ended"
      /\ \A q \in Parts \ {part} : reader'.part[q] = reader.part[q]
  BY DEF ReaderTyped, Readers
<1>5. ASSUME NEW q \in Parts \ {part} PROVE PartRead(q)'
  <2>1. ASSUME Where(StartOf[q]) # {}, NEW p \in Earlier[q]
        PROVE  reader'.part[p] # "started" /\ Where(EndOf[p])' = Where(EndOf[p])
    <3>1. p \in Parts /\ reader.part[p] # "started" BY <2>1, PartEvents DEF PartRead
    <3>2. p # part BY <3>1
    <3>. QED BY <1>2, <1>4, <3>1, <3>2
  <2>. QED BY <1>2, <1>4, <2>1, PartKept
<1>6. PartRead(part)'
  <2>1. Where(StartOf[part]) # {} /\ Where(EndOf[part]) = {} BY DEF PartRead
  <2>2. Where(EndOf[part])' = {L + 1} BY <1>3, <2>1
  <2>3. PICK m \in Where(StartOf[part]) : m < L + 1 BY <1>2, <2>1
  <2>4. \A n \in Where(WithinOf[part]) : n < L + 1 BY <1>2
  <2>5. ASSUME NEW p \in Earlier[part]
        PROVE  /\ reader'.part[p] # "started"
               /\ \A i \in Where(EndOf[p])', n \in Where(StartOf[part])' : i < n
    <3>1. p \in Parts \ {part} BY PartEvents
    <3>2. /\ reader.part[p] # "started"
          /\ \A i \in Where(EndOf[p]), n \in Where(StartOf[part]) : i < n
      BY <2>1 DEF PartRead
    <3>. QED BY <1>2, <1>4, <3>1, <3>2
  <2>6. /\ \A i, n \in Where(StartOf[part]) : i = n
        /\ \A n \in Where(WithinOf[part]) : \E i \in Where(StartOf[part]) : i < n
    BY DEF PartRead
  <2>7. /\ Where(StartOf[part])' = Where(StartOf[part])
        /\ Where(WithinOf[part])' = Where(WithinOf[part])
    BY <1>2
  <2>. QED BY <1>4, <2>1, <2>2, <2>3, <2>4, <2>5, <2>6, <2>7 DEF PartRead
<1>. QED BY <1>5, <1>6

\* What an event of a part, or of the stream, leaves in LM Studio's reader.
LEMMA PartEventGives ==
  ASSUME ReaderTyped, NEW event, Start(event) \/ Within(event) \/ End(event)
  PROVE  \E part \in Parts :
            /\ reader'.chatStarted = reader.chatStarted
            /\ reader'.terminal = reader.terminal
            /\ reader'.providerError = reader.providerError
            /\ \/ /\ event.type = StartOf[part] /\ MayStart(part)
                  /\ reader' = [reader EXCEPT !.part[part] = "started"]
                  /\ reader'.text = reader.text /\ reader'.reasoning = reader.reasoning
               \/ /\ event.type = WithinOf[part] /\ reader.part[part] = "started"
                  /\ reader'.part = reader.part
                  /\ reader'.text = IF part = "message" THEN reader.text + 1 ELSE reader.text
                  /\ reader'.reasoning = IF part = "reasoning" THEN reader.reasoning + 1
                                         ELSE reader.reasoning
               \/ /\ event.type = EndOf[part] /\ reader.part[part] = "started"
                  /\ reader' = [reader EXCEPT !.part[part] = "ended"]
                  /\ reader'.text = reader.text /\ reader'.reasoning = reader.reasoning
<1>1. CASE Start(event)
  <2>1. PICK part \in Parts : /\ event.type = StartOf[part] /\ MayStart(part)
                             /\ reader' = [reader EXCEPT !.part[part] = "started"]
    BY <1>1 DEF Start
  <2>2. /\ reader'.chatStarted = reader.chatStarted /\ reader'.terminal = reader.terminal
        /\ reader'.providerError = reader.providerError
        /\ reader'.text = reader.text /\ reader'.reasoning = reader.reasoning
    BY <2>1 DEF ReaderTyped, Readers
  <2>. QED BY <2>1, <2>2
<1>2. CASE End(event)
  <2>1. PICK part \in Parts : /\ event.type = EndOf[part] /\ reader.part[part] = "started"
                             /\ reader' = [reader EXCEPT !.part[part] = "ended"]
    BY <1>2 DEF End
  <2>2. /\ reader'.chatStarted = reader.chatStarted /\ reader'.terminal = reader.terminal
        /\ reader'.providerError = reader.providerError
        /\ reader'.text = reader.text /\ reader'.reasoning = reader.reasoning
    BY <2>1 DEF ReaderTyped, Readers
  <2>. QED BY <2>1, <2>2
<1>3. CASE Within(event)
  <2>1. PICK part \in Parts :
            /\ event.type = WithinOf[part] /\ reader.part[part] = "started"
            /\ reader' = [reader EXCEPT
                            !.reasoning = IF part = "reasoning" THEN @ + 1 ELSE @,
                            !.text = IF part = "message" THEN @ + 1 ELSE @]
    BY <1>3 DEF Within
  <2>2. /\ reader'.chatStarted = reader.chatStarted /\ reader'.terminal = reader.terminal
        /\ reader'.providerError = reader.providerError /\ reader'.part = reader.part
        /\ reader'.text = IF part = "message" THEN reader.text + 1 ELSE reader.text
        /\ reader'.reasoning = IF part = "reasoning" THEN reader.reasoning + 1
                               ELSE reader.reasoning
    BY <2>1 DEF ReaderTyped, Readers
  <2>. QED BY <2>1, <2>2
<1>. QED BY <1>1, <1>2, <1>3

LEMMA PartEventStep ==
  ASSUME ReaderTyped, LmStudioInv, NEW event \in Sent, read' = Append(read, event),
         ~reader.providerError, reader.terminal = "truncated",
         Start(event) \/ Within(event) \/ End(event)
  PROVE  LmStudioInv'
<1>1. PICK part \in Parts :
         /\ reader'.chatStarted = reader.chatStarted
         /\ reader'.terminal = reader.terminal
         /\ reader'.providerError = reader.providerError
         /\ \/ /\ event.type = StartOf[part] /\ MayStart(part)
               /\ reader' = [reader EXCEPT !.part[part] = "started"]
               /\ reader'.text = reader.text /\ reader'.reasoning = reader.reasoning
            \/ /\ event.type = WithinOf[part] /\ reader.part[part] = "started"
               /\ reader'.part = reader.part
               /\ reader'.text = IF part = "message" THEN reader.text + 1 ELSE reader.text
               /\ reader'.reasoning = IF part = "reasoning" THEN reader.reasoning + 1
                                      ELSE reader.reasoning
            \/ /\ event.type = EndOf[part] /\ reader.part[part] = "started"
               /\ reader' = [reader EXCEPT !.part[part] = "ended"]
               /\ reader'.text = reader.text /\ reader'.reasoning = reader.reasoning
  BY PartEventGives
<1>2. /\ reader.chatStarted <=> read # <<>>
      /\ Where("chat.start") = IF read = <<>> THEN {} ELSE {1}
      /\ Where("chat.end") = {} /\ Where("error") = {} /\ Where("malformed") = {}
      /\ \A q \in Parts : PartRead(q)
      /\ Cardinality(Where("message.delta")) = reader.text
      /\ Cardinality(Where("reasoning.delta")) = reader.reasoning
  BY DEF LmStudioInv
<1>3. /\ reader'.chatStarted = reader.chatStarted /\ reader'.terminal = "truncated"
      /\ reader'.providerError = reader.providerError
  BY <1>1 DEF ReaderTyped, Readers
<1>4. read # <<>> /\ read' # <<>>
  <2>1. CASE MayStart(part) BY <1>2, <2>1, MayStartGives, OneMoreEvent
  <2>2. CASE reader.part[part] = "started"
    <3>1. Where(StartOf[part]) # {} BY <1>2, <2>2 DEF PartRead
    <3>2. read # <<>> BY <3>1 DEF Where
    <3>. QED BY <3>2, OneMoreEvent
  <2>. QED BY <1>1, <2>1, <2>2
<1>5. \A t \in {"chat.start", "chat.end", "error", "malformed"} : Where(t)' = Where(t)
  BY <1>1, WhereGrows, PartEvents
<1>6. /\ Cardinality(Where("message.delta"))' = reader'.text
      /\ Cardinality(Where("reasoning.delta"))' = reader'.reasoning
  <2>1. /\ Cardinality(Where("message.delta"))' =
              IF event.type = "message.delta" THEN reader.text + 1 ELSE reader.text
        /\ Cardinality(Where("reasoning.delta"))' =
              IF event.type = "reasoning.delta" THEN reader.reasoning + 1 ELSE reader.reasoning
    BY <1>2, WhereGrows
  <2>2. "message" \in Parts /\ "reasoning" \in Parts BY DEF Parts
  <2>3. CASE event.type = StartOf[part] \/ event.type = EndOf[part]
    <3>1. event.type # "message.delta" /\ event.type # "reasoning.delta"
      BY <2>2, <2>3, PartEvents
    <3>2. reader'.text = reader.text /\ reader'.reasoning = reader.reasoning
      BY <1>1, <2>3, PartEvents
    <3>. QED BY <2>1, <3>1, <3>2
  <2>4. CASE event.type = WithinOf[part]
    <3>1. /\ event.type = "message.delta" <=> part = "message"
          /\ event.type = "reasoning.delta" <=> part = "reasoning"
      BY <2>2, <2>4, PartEvents
    <3>2. /\ reader'.text = IF part = "message" THEN reader.text + 1 ELSE reader.text
          /\ reader'.reasoning = IF part = "reasoning" THEN reader.reasoning + 1
                                 ELSE reader.reasoning
      BY <1>1, <2>4, PartEvents
    <3>. QED BY <2>1, <3>1, <3>2
  <2>. QED BY <1>1, <2>3, <2>4
<1>7. \A q \in Parts : PartRead(q)'
  BY <1>1, <1>2, PartStarts, PartShows, PartEnds
<1>. QED BY <1>2, <1>3, <1>4, <1>5, <1>6, <1>7 DEF LmStudioInv

LEMMA LmStudioStep ==
  ASSUME ReaderTyped, protocol = LmStudio, LmStudioInv, NEW event \in Sent,
         read' = Append(read, event), Accepts(event)
  PROVE  LmStudioInv'
<1>1. LmStudioEvent(event) /\ reader.terminal = "truncated"
  <2>1. ~Sentinel(event) /\ ~ProviderError(event)
    BY ProtocolsDiffer DEF Sentinel, ProviderError
  <2>2. ~Staged(event) BY ProtocolsDiffer DEF Staged, StepsOf
  <2>. QED BY <2>1, <2>2 DEF Accepts
<1>2. CASE reader.providerError
  <2>1. event.type = "chat.end" BY <1>1, <1>2 DEF LmStudioEvent
  <2>2. ~Start(event) /\ ~Within(event) /\ ~End(event) /\ ~ChatStart(event) /\ ~Error(event)
    BY <2>1, PartEvents DEF Start, Within, End, ChatStart, Error
  <2>3. ChatEnd(event) BY <1>1, <2>2 DEF LmStudioEvent
  <2>4. reader'.providerError BY <1>2, <2>3 DEF ChatEnd, ReaderTyped
  <2>. QED BY <2>4 DEF LmStudioInv
<1>3. CASE ~reader.providerError
  <2>1. /\ reader.chatStarted <=> read # <<>>
        /\ Where("chat.start") = IF read = <<>> THEN {} ELSE {1}
        /\ Where("chat.end") = {} /\ Where("error") = {} /\ Where("malformed") = {}
        /\ \A q \in Parts : PartRead(q)
        /\ Cardinality(Where("message.delta")) = reader.text
        /\ Cardinality(Where("reasoning.delta")) = reader.reasoning
    BY <1>1, <1>3 DEF LmStudioInv
  <2>2. PICK L \in Nat : L = Len(read) BY DEF ReaderTyped, Readers
  <2>3. /\ Len(read') = L + 1 /\ read'[L + 1] = event /\ read' # <<>>
        /\ read = <<>> <=> L = 0
    BY <2>2, OneMoreEvent DEF ReaderTyped, Readers
  <2>4. ASSUME event.type \in {"chat.start", "chat.end"}, reader'.part = reader.part
        PROVE  /\ \A q \in Parts : PartRead(q)'
               /\ Where("error")' = {} /\ Where("malformed")' = {}
               /\ Cardinality(Where("message.delta"))' = reader.text
               /\ Cardinality(Where("reasoning.delta"))' = reader.reasoning
    <3>1. ASSUME NEW q \in Parts
          PROVE  /\ Where(StartOf[q])' = Where(StartOf[q]) /\ Where(EndOf[q])' = Where(EndOf[q])
                 /\ Where(WithinOf[q])' = Where(WithinOf[q])
      BY <2>4, WhereGrows, PartEvents
    <3>2. ASSUME NEW q \in Parts PROVE PartRead(q)'
      <4>1. ASSUME Where(StartOf[q]) # {}, NEW p \in Earlier[q]
            PROVE  reader'.part[p] # "started" /\ Where(EndOf[p])' = Where(EndOf[p])
        <5>1. p \in Parts /\ reader.part[p] # "started" BY <2>1, <4>1, PartEvents DEF PartRead
        <5>. QED BY <2>4, <3>1, <5>1
      <4>. QED BY <2>1, <2>4, <3>1, <4>1, PartKept
    <3>3. /\ Where("error")' = {} /\ Where("malformed")' = {}
          /\ Cardinality(Where("message.delta"))' = reader.text
          /\ Cardinality(Where("reasoning.delta"))' = reader.reasoning
      BY <2>1, <2>4, WhereGrows
    <3>. QED BY <3>2, <3>3
  <2>5. CASE ChatStart(event)
    <3>1. /\ event.type = "chat.start" /\ read = <<>>
          /\ reader' = [reader EXCEPT !.chatStarted = TRUE]
      BY <2>5 DEF ChatStart
    <3>2. /\ reader'.chatStarted /\ reader'.part = reader.part /\ reader'.text = reader.text
          /\ reader'.reasoning = reader.reasoning /\ reader'.terminal = "truncated"
      BY <1>1, <3>1 DEF ReaderTyped, Readers
    <3>3. Where("chat.start")' = {1} /\ Where("chat.end")' = {}
      BY <2>1, <2>2, <2>3, <3>1, WhereGrows
    <3>. QED BY <2>3, <2>4, <3>1, <3>2, <3>3 DEF LmStudioInv
  <2>6. CASE Error(event)
    <3>1. reader'.providerError BY <2>6 DEF Error, ReaderTyped
    <3>. QED BY <3>1 DEF LmStudioInv
  <2>7. CASE ChatEnd(event)
    <3>1. /\ event.type = "chat.end" /\ reader.chatStarted
          /\ reader.part["message"] = "ended"
          /\ \A p \in Parts : reader.part[p] # "started"
          /\ event.text = reader.text /\ event.reasoning = reader.reasoning
          /\ reader' = [reader EXCEPT !.terminal = "complete"]
      BY <1>3, <2>7 DEF ChatEnd
    <3>2. /\ reader'.chatStarted /\ reader'.part = reader.part /\ reader'.text = reader.text
          /\ reader'.reasoning = reader.reasoning /\ reader'.terminal = "complete"
      BY <3>1 DEF ReaderTyped, Readers
    <3>3. Where("chat.start")' = {1} /\ Where("chat.end")' = {L + 1}
      BY <2>1, <2>2, <3>1, WhereGrows
    <3>. QED BY <2>3, <2>4, <3>1, <3>2, <3>3 DEF LmStudioInv
  <2>8. CASE Start(event) \/ Within(event) \/ End(event)
    BY <1>1, <1>3, <2>8, PartEventStep
  <2>. QED BY <1>1, <2>5, <2>6, <2>7, <2>8 DEF LmStudioEvent
<1>. QED BY <1>2, <1>3

LEMMA StepTypes ==
  ASSUME NEW p, NEW step \in StepsOf(p)
  PROVE  step[3] \in Nat
<1>1. step \in ChatSteps => step[3] \in Nat BY DEF ChatSteps
<1>2. step \in OllamaSteps => step[3] \in Nat BY DEF OllamaSteps
<1>3. step \in ResponsesSteps => step[3] \in Nat BY DEF ResponsesSteps, ResponsesOrder
<1>. QED BY <1>1, <1>2, <1>3 DEF StepsOf

LEMMA ReaderType ==
  ASSUME ReaderTyped, NEW event \in Sent, Accepts(event)
  PROVE  reader' \in Readers
<1>1. reader \in Readers BY DEF ReaderTyped
<1>2. CASE Staged(event)
  <2>1. PICK step \in StepsOf(protocol) :
            reader' = [reader EXCEPT
                        !.stage = step[3],
                        !.text = IF event.type \in Deltas THEN @ + 1 ELSE @,
                        !.terminal = IF event.type \in {"response.completed", "done",
                                                        "done-with-counts"}
                                     THEN "complete" ELSE @]
    BY <1>2 DEF Staged
  <2>2. PICK stage \in Nat : stage = step[3] BY StepTypes
  <2>3. reader.text \in Nat /\ reader.terminal \in {"truncated", "complete", "provider-error"}
    BY <1>1 DEF Readers
  <2>4. PICK text \in Nat : text = IF event.type \in Deltas THEN reader.text + 1 ELSE reader.text
    BY <2>3
  <2>5. PICK terminal \in {"truncated", "complete", "provider-error"} :
            terminal = IF event.type \in {"response.completed", "done", "done-with-counts"}
                       THEN "complete" ELSE reader.terminal
    BY <2>3
  <2>6. reader' = [reader EXCEPT !.stage = stage, !.text = text, !.terminal = terminal]
    BY <1>1, <2>1, <2>2, <2>4, <2>5 DEF Readers
  <2>. QED BY <1>1, <2>6 DEF Readers
<1>3. CASE Sentinel(event) \/ ProviderError(event)
  BY <1>1, <1>3 DEF Readers, Sentinel, ProviderError
<1>4. CASE Start(event) BY <1>1, <1>4 DEF Readers, Start
<1>5. CASE Within(event)
  <2>1. PICK part \in Parts :
            reader' = [reader EXCEPT
                        !.reasoning = IF part = "reasoning" THEN @ + 1 ELSE @,
                        !.text = IF part = "message" THEN @ + 1 ELSE @]
    BY <1>5 DEF Within
  <2>2. reader.text \in Nat /\ reader.reasoning \in Nat BY <1>1 DEF Readers
  <2>3. PICK text \in Nat : text = IF part = "message" THEN reader.text + 1 ELSE reader.text
    BY <2>2
  <2>4. PICK reasoning \in Nat :
            reasoning = IF part = "reasoning" THEN reader.reasoning + 1 ELSE reader.reasoning
    BY <2>2
  <2>5. reader' = [reader EXCEPT !.reasoning = reasoning, !.text = text]
    BY <1>1, <2>1, <2>3, <2>4 DEF Readers
  <2>. QED BY <1>1, <2>5 DEF Readers
<1>6. CASE End(event) BY <1>1, <1>6 DEF Readers, End
<1>7. CASE ChatStart(event) \/ Error(event) \/ ChatEnd(event)
  BY <1>1, <1>7 DEF Readers, ChatStart, Error, ChatEnd
<1>. QED BY <1>2, <1>3, <1>4, <1>5, <1>6, <1>7 DEF Accepts, LmStudioEvent

\* Each reader completes for a stream that went through its whole protocol.
LEMMA ChatCompletes ==
  ASSUME ReaderTyped, ChatInv, reader.terminal = "complete", reader.stage = 2
  PROVE  WholeChat
<1>1. PICK L \in Nat : L = Len(read) BY DEF ReaderTyped
<1>2. /\ L > 0 /\ read[L].type = "[DONE]" /\ L - 1 >= 2
      /\ \A k \in 1..((L - 1) - 2) : read[k].type = "delta"
      /\ read[(L - 1) - 2 + 1].type = "finish" /\ read[L - 1].type = "usage"
  BY <1>1 DEF ChatInv, ChatRead
<1>3. (L - 1) - 2 = L - 3 /\ (L - 1) - 2 + 1 = L - 2 OBVIOUS
<1>. QED BY <1>1, <1>2, <1>3 DEF WholeChat

LEMMA OllamaCompletes ==
  ASSUME ReaderTyped, OllamaInv, reader.terminal = "complete", reader.stage = 2
  PROVE  WholeOllama
<1>1. PICK L \in Nat : L = Len(read) BY DEF ReaderTyped
<1>2. DOMAIN read = 1..L /\ (L > 0 => read # <<>>) BY <1>1 DEF ReaderTyped
<1>. QED BY <1>1, <1>2 DEF OllamaInv, WholeOllama

LEMMA ResponsesCompletes ==
  ASSUME ReaderTyped, ResponsesInv, reader.terminal = "complete"
  PROVE  WholeResponses
<1>1. PICK L \in Nat : L = Len(read) BY DEF ReaderTyped
<1>2. PICK text \in Nat : text = reader.text BY DEF ReaderTyped, Readers
<1>3. /\ DOMAIN read = 1..L /\ L = 8 + text /\ text > 0
      /\ \A k \in 1..L :
            /\ k <= 4 => read[k].type = ResponsesOrder[k]
            /\ k > 4 /\ k <= 4 + text => read[k].type = "response.output_text.delta"
            /\ k > 4 + text => read[k].type = ResponsesOrder[k - text] /\ read[k].text = text
  BY <1>1, <1>2 DEF ResponsesInv, ReaderTyped
<1>4. L - 8 = text BY <1>3
<1>. QED BY <1>1, <1>3, <1>4 DEF WholeResponses

LEMMA LmStudioCompletes ==
  ASSUME ReaderTyped, LmStudioInv, reader.terminal = "complete", ~reader.providerError
  PROVE  WholeLmStudio
<1>1. PICK L \in Nat : L = Len(read) BY DEF ReaderTyped
<1>2. /\ read = <<>> <=> L = 0 BY <1>1 DEF ReaderTyped
<1>3. /\ Where("chat.start") = IF read = <<>> THEN {} ELSE {1}
      /\ Where("chat.end") = {L}
      /\ Where("error") = {} /\ Where("malformed") = {}
      /\ \A part \in Parts : PartRead(part) /\ reader.part[part] # "started"
      /\ reader.part["message"] = "ended"
      /\ read[L].text = Cardinality(Where("message.delta"))
      /\ read[L].reasoning = Cardinality(Where("reasoning.delta"))
  BY <1>1 DEF LmStudioInv
<1>4. read # <<>>
  <2>1. Where("chat.end") # {} BY <1>3
  <2>. QED BY <2>1 DEF Where
<1>5. Where("message.start") # {}
  <2>1. "message" \in Parts BY DEF Parts
  <2>. QED BY <1>3, <2>1, PartEvents DEF PartRead
<1>6. ASSUME NEW part \in Parts
      PROVE  LET starts == Where(StartOf[part])
                 ends == Where(EndOf[part])
             IN
             /\ starts # {} => Cardinality(starts) = 1 /\ Cardinality(ends) = 1
             /\ \A m \in starts, n \in ends : m < n
             /\ \A p \in Earlier[part] : \A m \in Where(EndOf[p]), n \in starts : m < n
             /\ \A n \in ends \cup Where(WithinOf[part]) : \E m \in starts : m < n
             /\ \A n \in starts \cup Where(WithinOf[part]) : \E m \in ends : n < m
  <2>. DEFINE starts == Where(StartOf[part])
              ends == Where(EndOf[part])
  <2>1. /\ reader.part[part] = "not-started" <=> starts = {}
        /\ reader.part[part] = "ended" <=> ends # {}
        /\ \A m, n \in starts : m = n
        /\ \A m, n \in ends : m = n
        /\ \A n \in ends \cup Where(WithinOf[part]) : \E m \in starts : m < n
        /\ \A n \in Where(WithinOf[part]), m \in ends : n < m
        /\ starts # {} => \A p \in Earlier[part] :
              \A m \in Where(EndOf[p]), n \in starts : m < n
    BY <1>3 DEF PartRead
  <2>. HIDE DEF starts, ends
  <2>2. starts # {} => ends # {}
    <3>1. reader.part[part] \in {"not-started", "started", "ended"}
      BY DEF ReaderTyped, Readers
    <3>. QED BY <1>3, <2>1, <3>1
  <2>3. \A n \in starts, m \in ends : n < m BY <2>1
  <2>4. ASSUME starts # {} PROVE Cardinality(starts) = 1 /\ Cardinality(ends) = 1
    <3>1. PICK m \in starts : TRUE BY <2>4
    <3>2. PICK n \in ends : TRUE BY <2>2, <2>4
    <3>3. starts = {m} /\ ends = {n} BY <2>1
    <3>. QED BY <3>3, FS_Singleton
  <2>5. \A n \in starts \cup Where(WithinOf[part]) : \E m \in ends : n < m
    BY <2>1, <2>2, <2>3
  <2>6. /\ starts # {} => Cardinality(starts) = 1 /\ Cardinality(ends) = 1
        /\ \A m \in starts, n \in ends : m < n
        /\ \A p \in Earlier[part] : \A m \in Where(EndOf[p]), n \in starts : m < n
        /\ \A n \in ends \cup Where(WithinOf[part]) : \E m \in starts : m < n
        /\ \A n \in starts \cup Where(WithinOf[part]) : \E m \in ends : n < m
    BY <2>1, <2>3, <2>4, <2>5
  <2>. QED BY <2>6 DEF starts, ends
<1>7. Where("chat.start") = {1} /\ Where("chat.end") = {Len(read)} BY <1>1, <1>3, <1>4
<1>8. /\ read[Len(read)].text = Cardinality(Where("message.delta"))
      /\ read[Len(read)].reasoning = Cardinality(Where("reasoning.delta"))
  BY <1>1, <1>3
<1>. QED BY <1>3, <1>5, <1>6, <1>7, <1>8, Zenon DEF WholeLmStudio

LEMMA OutputsFinite ==
  ASSUME NEW p, NEW d \in Documents(p)
  PROVE  IsFiniteSet(DOMAIN d.outputs)
<1>1. d.outputs \in Outputs(p) BY DEF Documents
<1>2. \A m \in 0..2 : IsFiniteSet(1..m) BY FS_Interval
<1>3. CASE p \in Listing
  <2>1. d.outputs \in BoundedSeq(Answers \cup {"reasoning", "tool"}, 2)
    BY <1>1, <1>3 DEF Outputs
  <2>2. PICK m \in 0..2 : DOMAIN d.outputs = 1..m BY <2>1 DEF BoundedSeq, SeqOf
  <2>. QED BY <1>2, <2>2
<1>4. CASE p \notin Listing
  <2>1. d.outputs \in {<<>>, <<"answer">>, <<"laden">>, <<"tool">>}
    BY <1>1, <1>4 DEF Outputs
  <2>2. DOMAIN d.outputs \in {1..0, 1..1} BY <2>1
  <2>. QED BY <1>2, <2>2
<1>. QED BY <1>3, <1>4

\* Each reader of a document takes one that says everything.
LEMMA DocumentCompletes ==
  ASSUME document \in Documents(protocol), Judgement(Normalized(protocol, document)) = "completed"
  PROVE  WholeDocument
<1>1. PICK result : result = Normalized(protocol, document) OBVIOUS
<1>2. /\ result.terminal = "complete" /\ result.counted /\ result.resolved
  BY <1>1 DEF Judgement
<1>3. /\ document.error = "none" /\ Readable(protocol, document)
      /\ result = Result("complete", TRUE, document.usage # "absent",
                         document.model = "requested")
  BY <1>1, <1>2 DEF Normalized, Result
<1>4. document.usage # "absent" /\ document.model = "requested"
  BY <1>2, <1>3 DEF Result
<1>5. document.usage = "whole" \/ (protocol = Tgi /\ document.usage = "output-only")
  BY <1>3, <1>4, ProtocolsDiffer DEF Readable, UsagesRead
<1>6. \E n \in DOMAIN document.outputs :
          /\ document.outputs[n] \in Answers
          /\ \A k \in DOMAIN document.outputs \ {n} : document.outputs[k] = "reasoning"
  <2>1. OutputsRead(protocol, document.outputs) BY <1>3 DEF Readable
  <2>2. ASSUME NEW kind \in Answers, document.outputs = <<kind>>
        PROVE  \E n \in DOMAIN document.outputs :
                  /\ document.outputs[n] \in Answers
                  /\ \A k \in DOMAIN document.outputs \ {n} :
                        document.outputs[k] = "reasoning"
    <3>1. DOMAIN <<kind>> = {1} /\ <<kind>>[1] = kind OBVIOUS
    <3>. QED BY <2>2, <3>1
  <2>3. CASE \A kind \in Answers : document.outputs # <<kind>>
    <3>1. PICK outputs : outputs = document.outputs OBVIOUS
    <3>2. /\ \A k \in DOMAIN outputs : outputs[k] \in Answers \cup {"reasoning"}
          /\ Cardinality({n \in DOMAIN outputs : outputs[n] \in Answers}) = 1
      BY <2>1, <2>3, <3>1 DEF OutputsRead, Answers, ToSet
    <3>3. PICK n : {k \in DOMAIN outputs : outputs[k] \in Answers} = {n}
      <4>1. IsFiniteSet(DOMAIN outputs) BY <3>1, OutputsFinite
      <4>2. IsFiniteSet({k \in DOMAIN outputs : outputs[k] \in Answers}) BY <4>1, FS_Subset
      <4>. QED BY <3>2, <4>2, FS_Singleton
    <3>. QED BY <3>1, <3>2, <3>3
  <2>. QED BY <2>2, <2>3
<1>. QED BY <1>3, <1>4, <1>5, <1>6 DEF WholeDocument

LEMMA ProviderStarts == ProviderInit => ProviderInv
<1> SUFFICES ASSUME ProviderInit PROVE ProviderInv
  OBVIOUS
<1>1. reader = Fresh /\ read = <<>> /\ status = "reading" BY DEF ProviderInit
<1>2. /\ document = Streamed => protocol \in {Chat, Responses, LmStudio, Ollama}
      /\ document # Streamed => document \in Documents(protocol)
  BY ProviderStreamAssumption DEF ProviderInit
<1>3. ReaderTyped BY <1>1 DEF ReaderTyped, Readers, Fresh
<1>4. /\ reader.stage = 0 /\ reader.text = 0 /\ reader.reasoning = 0
      /\ reader.terminal = "truncated" /\ ~reader.chatStarted
      /\ \A p \in Parts : reader.part[p] = "not-started"
  BY <1>1 DEF Fresh
<1>5. ChatInv BY <1>1, <1>4 DEF ChatInv, ChatRead
<1>6. OllamaInv BY <1>1, <1>4 DEF OllamaInv
<1>7. ResponsesInv BY <1>1, <1>4 DEF ResponsesInv
<1>8. LmStudioInv
  <2>1. \A t : Where(t) = {} BY <1>1 DEF Where
  <2>2. \A t : Cardinality(Where(t)) = 0 BY <2>1, FS_EmptySet
  <2>. QED BY <1>1, <1>4, <2>1, <2>2 DEF LmStudioInv, PartRead
<1>9. document = Streamed => StreamInv BY <1>2, <1>5, <1>6, <1>7, <1>8, ProtocolsDiffer DEF StreamInv
<1>. QED BY <1>1, <1>2, <1>3, <1>9 DEF ProviderInv, CompletedIsWhole

LEMMA ReadKeeps ==
  ASSUME ProviderInv, NEW event \in Sent, ReadEvent(event)
  PROVE  ProviderInv'
<1>1. /\ status = "reading" /\ document = Streamed /\ read' = Append(read, event)
      /\ UNCHANGED <<protocol, document>>
  BY DEF ReadEvent
<1>2. Sent' = Sent BY <1>1 DEF Sent
<1>3. read' \in Seq(Sent') BY <1>1, <1>2 DEF ProviderInv, ReaderTyped
<1>4. ReaderTyped /\ StreamInv BY <1>1 DEF ProviderInv
<1>5. protocol \in {Chat, Responses, LmStudio, Ollama} BY <1>1 DEF ProviderInv
<1>6. CASE Reject(event)
  <2>1. status' = "failed" /\ reader' = reader BY <1>6 DEF Reject
  <2>. QED BY <1>1, <1>3, <1>4, <1>5, <2>1 DEF ProviderInv, ReaderTyped, CompletedIsWhole
<1>7. CASE Accepts(event)
  <2>1. status' = status BY <1>7 DEF Accepts
  <2>2. ReaderTyped' BY <1>3, <1>4, <1>7, ReaderType DEF ReaderTyped, Readers
  <2>3. StreamInv'
    <3>1. CASE protocol = Chat
      BY <1>1, <1>4, <1>7, <3>1, ChatStep, ProtocolsDiffer DEF StreamInv
    <3>2. CASE protocol = Ollama
      BY <1>1, <1>4, <1>7, <3>2, OllamaStep, ProtocolsDiffer DEF StreamInv
    <3>3. CASE protocol = Responses
      BY <1>1, <1>4, <1>7, <3>3, ResponsesStep, ProtocolsDiffer DEF StreamInv
    <3>4. CASE protocol = LmStudio
      BY <1>1, <1>4, <1>7, <3>4, LmStudioStep, ProtocolsDiffer DEF StreamInv
    <3>. QED BY <1>5, <3>1, <3>2, <3>3, <3>4
  <2>. QED BY <1>1, <1>5, <2>1, <2>2, <2>3 DEF ProviderInv, CompletedIsWhole
<1>. QED BY <1>6, <1>7 DEF ReadEvent

\* What was read stays as it is when the reading ends.
LEMMA WholeStays ==
  ASSUME UNCHANGED <<protocol, read, document>>
  PROVE  Whole' <=> Whole
  BY DEF Whole, WholeChat, WholeOllama, WholeResponses, WholeLmStudio, WholeDocument, Where

LEMMA EndKeeps ==
  ASSUME ProviderInv, UNCHANGED <<protocol, reader, read, document>>, status' # "reading",
         status' = "completed" => Whole
  PROVE  ProviderInv'
<1>1. Sent' = Sent BY DEF Sent
<1>2. ReaderTyped' BY <1>1 DEF ProviderInv, ReaderTyped
<1>3. CompletedIsWhole' BY WholeStays DEF CompletedIsWhole
<1>. QED BY <1>2, <1>3 DEF ProviderInv

LEMMA StreamCompletes ==
  ASSUME ProviderInv, NEW partial, NEW modelReported, EndOfStream(partial, modelReported),
         status' = "completed"
  PROVE  Whole
<1>1. /\ status = "reading" /\ document = Streamed
      /\ Judgement(NormalizedStream(modelReported)) = "completed"
  BY DEF EndOfStream
<1>2. ReaderTyped /\ StreamInv /\ protocol \in {Chat, Responses, LmStudio, Ollama}
  BY <1>1 DEF ProviderInv
<1>3. PICK result : result = NormalizedStream(modelReported) OBVIOUS
<1>4. result.terminal = "complete" /\ result.counted BY <1>1, <1>3 DEF Judgement
<1>5. /\ reader.terminal = "complete" /\ ~reader.providerError /\ UsagePresent
  BY <1>3, <1>4 DEF NormalizedStream, Result
<1>6. CASE protocol = Chat
  BY <1>1, <1>2, <1>5, <1>6, ChatCompletes, ProtocolsDiffer DEF StreamInv, UsagePresent, Whole
<1>7. CASE protocol = Ollama
  BY <1>1, <1>2, <1>5, <1>7, OllamaCompletes, ProtocolsDiffer DEF StreamInv, UsagePresent, Whole
<1>8. CASE protocol = Responses
  BY <1>1, <1>2, <1>5, <1>8, ResponsesCompletes, ProtocolsDiffer DEF StreamInv, Whole
<1>9. CASE protocol = LmStudio
  BY <1>1, <1>2, <1>5, <1>9, LmStudioCompletes, ProtocolsDiffer DEF StreamInv, Whole
<1>. QED BY <1>2, <1>6, <1>7, <1>8, <1>9

LEMMA ProviderStep == ProviderInv /\ [ProviderNext]_providerVars => ProviderInv'
<1> SUFFICES ASSUME ProviderInv, [ProviderNext]_providerVars PROVE ProviderInv'
  OBVIOUS
<1>1. ASSUME NEW event \in Sent, ReadEvent(event) PROVE ProviderInv'
  BY <1>1, ReadKeeps
<1>2. ASSUME NEW partial \in BOOLEAN, NEW modelReported \in BOOLEAN,
             EndOfStream(partial, modelReported)
      PROVE  ProviderInv'
  <2>1. UNCHANGED <<protocol, reader, read, document>> /\ status' # "reading"
    BY <1>2 DEF EndOfStream, Judgement
  <2>2. status' = "completed" => Whole BY <1>2, StreamCompletes
  <2>. QED BY <2>1, <2>2, EndKeeps
<1>3. CASE EndOfDocument
  <2>1. /\ UNCHANGED <<protocol, reader, read, document>> /\ document # Streamed
        /\ status' = Judgement(Normalized(protocol, document))
        /\ document \in Documents(protocol)
    BY <1>3 DEF EndOfDocument, ProviderInv
  <2>2. status' # "reading" BY <2>1 DEF Judgement
  <2>3. ASSUME status' = "completed" PROVE Whole
    <3>1. Judgement(Normalized(protocol, document)) = "completed" BY <2>1, <2>3
    <3>2. WholeDocument BY <2>1, <3>1, DocumentCompletes
    <3>. QED BY <2>1, <3>2, Zenon DEF Whole
  <2>. QED BY <2>1, <2>2, <2>3, EndKeeps
<1>4. CASE WrongContentType
  <2>1. UNCHANGED <<protocol, reader, read, document>> /\ status' = "failed"
    BY <1>4 DEF WrongContentType
  <2>. QED BY <2>1, EndKeeps
<1>5. CASE UNCHANGED providerVars
  <2>1. UNCHANGED <<protocol, reader, read, document, status>> BY <1>5 DEF providerVars
  <2>2. Sent' = Sent BY <2>1 DEF Sent
  <2>3. StreamInv' <=> StreamInv
    BY <2>1 DEF StreamInv, ChatInv, ChatRead, OllamaInv, ResponsesInv, LmStudioInv, PartRead,
                Where
  <2>4. CompletedIsWhole' BY <2>1, WholeStays DEF ProviderInv, CompletedIsWhole
  <2>. QED BY <2>1, <2>2, <2>3, <2>4 DEF ProviderInv, ReaderTyped
<1>. QED BY <1>1, <1>2, <1>3, <1>4, <1>5 DEF ProviderNext

\* For streams of any length, with any events in any order and cut off anywhere, and
\* for any document: a response that counts as completed went through the whole
\* protocol of its provider (the normalize functions of src/runtime/invoke.ts).
THEOREM CompletedResponsesAreWhole == ProviderSpec => []CompletedIsWhole
<1>1. ProviderInv => CompletedIsWhole BY DEF ProviderInv
<1>. QED BY <1>1, ProviderStarts, ProviderStep, PTL DEF ProviderSpec

-----------------------------------------------------------------------------
(* What a decoder makes of a body.                                         *)

\* The offsets of a finite set have an order: every one of them once, and each
\* place is how many come before.
LEMMA OrderedIn ==
  ASSUME NEW S \in SUBSET Nat, IsFiniteSet(S)
  PROVE  /\ Cardinality(S) \in Nat
         /\ DOMAIN Ordered(S) = 1..Cardinality(S)
         /\ \A n \in 1..Cardinality(S) :
               /\ Ordered(S)[n] \in S
               /\ Cardinality({j \in S : j < Ordered(S)[n]}) = n - 1
         /\ \A i \in S, n \in 1..Cardinality(S) :
               Cardinality({j \in S : j < i}) = n - 1 => Ordered(S)[n] = i
         /\ \A m, n \in 1..Cardinality(S) : m < n => Ordered(S)[m] < Ordered(S)[n]
<1>. DEFINE below(i) == {j \in S : j < i}
            rank == [i \in S |-> Cardinality(below(i))]
<1>1. PICK size \in Nat : size = Cardinality(S) BY FS_CardinalityType
<1>2. ASSUME NEW i \in S
      PROVE  /\ IsFiniteSet(below(i)) /\ Cardinality(below(i)) \in Nat
             /\ Cardinality(below(i)) < size
  <2>0. i \in Nat /\ ~(i < i) OBVIOUS
  <2>1. below(i) \in SUBSET S /\ i \notin below(i) BY <2>0, Zenon
  <2>2. below(i) # S BY <2>1
  <2>. HIDE DEF below
  <2>3. /\ IsFiniteSet(below(i)) /\ Cardinality(below(i)) <= size
        /\ Cardinality(below(i)) # size
    BY <1>1, <2>1, <2>2, FS_Subset
  <2>4. Cardinality(below(i)) \in Nat BY <2>3, FS_CardinalityType
  <2>. QED BY <2>3, <2>4
<1>3. ASSUME NEW i \in S, NEW j \in S, i < j
      PROVE  Cardinality(below(i)) < Cardinality(below(j))
  <2>0. i \in Nat /\ j \in Nat /\ ~(i < i) OBVIOUS
  <2>a. ASSUME NEW k \in S, k < i PROVE k < j BY <1>3, <2>0, <2>a
  <2>1. below(i) \in SUBSET below(j) /\ i \in below(j) /\ i \notin below(i)
    BY <1>3, <2>0, <2>a, Zenon
  <2>2. below(i) # below(j) BY <2>1
  <2>. HIDE DEF below
  <2>3. /\ Cardinality(below(i)) <= Cardinality(below(j))
        /\ Cardinality(below(i)) # Cardinality(below(j))
    BY <1>2, <2>1, <2>2, FS_Subset
  <2>. QED BY <1>2, <2>3
<1>. HIDE DEF below
<1>4. \A i \in S, j \in S : Cardinality(below(i)) = Cardinality(below(j)) => i = j
  <2>1. ASSUME NEW i \in S, NEW j \in S, Cardinality(below(i)) = Cardinality(below(j)), i # j
        PROVE  FALSE
    <3>1. i < j \/ j < i BY <2>1
    <3>. QED BY <1>2, <1>3, <2>1, <3>1
  <2>. QED BY <2>1
<1>5. /\ IsFiniteSet(0..(size - 1)) /\ Cardinality(0..(size - 1)) = size
  <2>1. size - 1 \in Int /\ 0 \in Int OBVIOUS
  <2>2. /\ IsFiniteSet(0..(size - 1))
        /\ Cardinality(0..(size - 1)) = IF 0 > size - 1 THEN 0 ELSE (size - 1) - 0 + 1
    BY <2>1, FS_Interval
  <2>3. (IF 0 > size - 1 THEN 0 ELSE (size - 1) - 0 + 1) = size OBVIOUS
  <2>. QED BY <2>2, <2>3
<1>6. rank \in Injection(S, 0..(size - 1))
  <2>1. \A i \in S : rank[i] \in 0..(size - 1) BY <1>2
  <2>2. rank \in [S -> 0..(size - 1)] BY <2>1
  <2>3. \A i, j \in S : rank[i] = rank[j] => i = j BY <1>4
  <2>. HIDE DEF rank
  <2>. QED BY <2>2, <2>3 DEF Injection, IsInjective
<1>7. rank \in Surjection(S, 0..(size - 1)) BY <1>1, <1>5, <1>6, FS_Injection
<1>8. \A m \in 0..(size - 1) : \E i \in S : Cardinality(below(i)) = m
  <2>1. \A m \in 0..(size - 1) : \E i \in S : rank[i] = m
    <3>. HIDE DEF rank
    <3>. QED BY <1>7 DEF Surjection
  <2>. QED BY <2>1
<1>9. DOMAIN Ordered(S) = 1..size BY <1>1 DEF Ordered
<1>10. ASSUME NEW n \in 1..size
       PROVE  Ordered(S)[n] \in S /\ Cardinality(below(Ordered(S)[n])) = n - 1
  <2>1. n - 1 \in 0..(size - 1) OBVIOUS
  <2>2. \E i \in S : Cardinality(below(i)) = n - 1 BY <1>8, <2>1
  <2>3. Ordered(S)[n] = CHOOSE i \in S : Cardinality(below(i)) = n - 1
    BY <1>1 DEF Ordered, below
  <2>. QED BY <2>2, <2>3
<1>11. \A i \in S, n \in 1..size : Cardinality(below(i)) = n - 1 => Ordered(S)[n] = i
  BY <1>4, <1>10
<1>12. ASSUME NEW m \in 1..size, NEW n \in 1..size, m < n
       PROVE  Ordered(S)[m] < Ordered(S)[n]
  <2>1. PICK i \in S, j \in S : i = Ordered(S)[m] /\ j = Ordered(S)[n] BY <1>10
  <2>2. Cardinality(below(i)) = m - 1 /\ Cardinality(below(j)) = n - 1 BY <1>10, <2>1
  <2>3. ~(j < i) /\ j # i BY <1>3, <1>12, <2>2
  <2>4. i \in Nat /\ j \in Nat OBVIOUS
  <2>. QED BY <2>1, <2>3, <2>4
<1>. QED BY <1>1, <1>9, <1>10, <1>11, <1>12 DEF below

\* One more offset behind all the others changes the place of none.
LEMMA OrderedGrows ==
  ASSUME NEW S \in SUBSET Nat, IsFiniteSet(S), NEW x \in Nat, \A i \in S : i < x
  PROVE  /\ IsFiniteSet(S \cup {x})
         /\ Cardinality(S) \in Nat /\ Cardinality(S \cup {x}) = Cardinality(S) + 1
         /\ Ordered(S \cup {x})[Cardinality(S) + 1] = x
         /\ \A n \in 1..Cardinality(S) : Ordered(S \cup {x})[n] = Ordered(S)[n]
<1>1. PICK T : T = S \cup {x} OBVIOUS
<1>2. PICK size \in Nat : size = Cardinality(S) BY FS_CardinalityType
<1>3. ~(x < x) /\ x \notin S
  <2>1. ~(x < x) OBVIOUS
  <2>. QED BY <2>1
<1>4. IsFiniteSet(T) /\ Cardinality(T) = size + 1 /\ T \in SUBSET Nat
  <2>1. /\ IsFiniteSet(S \cup {x})
        /\ Cardinality(S \cup {x}) = IF x \in S THEN Cardinality(S) ELSE Cardinality(S) + 1
    BY FS_AddElement
  <2>2. T \in SUBSET Nat BY <1>1
  <2>. QED BY <1>1, <1>2, <1>3, <2>1, <2>2
<1>5. {j \in T : j < x} = S BY <1>1, <1>3
<1>a. \A n \in 1..size : /\ Ordered(S)[n] \in S
                          /\ Cardinality({j \in S : j < Ordered(S)[n]}) = n - 1
  BY <1>2, OrderedIn
<1>b. \A i \in T, n \in 1..(size + 1) :
         Cardinality({j \in T : j < i}) = n - 1 => Ordered(T)[n] = i
  BY <1>4, OrderedIn
<1>6. Ordered(T)[size + 1] = x
  <2>1. Cardinality({j \in T : j < x}) = size BY <1>2, <1>5
  <2>2. x \in T BY <1>1
  <2>3. size + 1 \in 1..(size + 1) /\ (size + 1) - 1 = size OBVIOUS
  <2>. QED BY <1>b, <2>1, <2>2, <2>3
<1>7. ASSUME NEW n \in 1..size PROVE Ordered(T)[n] = Ordered(S)[n]
  <2>1. PICK i \in S : i = Ordered(S)[n] /\ Cardinality({j \in S : j < i}) = n - 1
    BY <1>a
  <2>2. {j \in T : j < i} = {j \in S : j < i}
    <3>1. i \in Nat /\ i < x OBVIOUS
    <3>2. ~(x < i) BY <3>1
    <3>. QED BY <1>1, <3>2
  <2>3. i \in T BY <1>1
  <2>4. n \in 1..(size + 1) OBVIOUS
  <2>5. Cardinality({j \in T : j < i}) = n - 1 BY <2>1, <2>2
  <2>. QED BY <1>b, <2>1, <2>3, <2>4, <2>5
<1>. QED BY <1>1, <1>2, <1>4, <1>6, <1>7

\* The body that was cut, and the body one byte later.
Cut(f, b) ==
    /\ f \in Seq(Symbols) /\ b \in Seq(Symbols)
    /\ Len(b) = Len(f) + 1
    /\ \A k \in 1..Len(f) : b[k] = f[k]

\* The greatest of a finite set of numbers.
LEMMA MaxIn ==
  ASSUME NEW S \in SUBSET Nat, S # {}, IsFiniteSet(S)
  PROVE  Max(S) \in S /\ \A m \in S : m <= Max(S)
<1>1. PICK n \in S : \A m \in S : m <= n BY GreatestIn
<1>2. \E x \in S : \A y \in S : x >= y
  <2>1. \A m \in S : n >= m BY <1>1
  <2>. QED BY <2>1
<1>3. PICK x : x = Max(S) OBVIOUS
<1>4. x \in S /\ \A y \in S : x >= y BY <1>2, <1>3 DEF Max
<1>5. \A y \in S : y <= x BY <1>4
<1>. QED BY <1>3, <1>4, <1>5

LEMMA BreakEndIn ==
  ASSUME NEW L \in Nat, NEW b \in Seq(Symbols), L = Len(b), NEW i \in 1..L
  PROVE  BreakEnd(b, i) \in Nat /\ i <= BreakEnd(b, i) /\ BreakEnd(b, i) <= L
         /\ BreakEnd(b, i) <= i + 1
<1>1. BreakEnd(b, i) = i \/ (BreakEnd(b, i) = i + 1 /\ i < L) BY DEF BreakEnd
<1>. QED BY <1>1

\* A frame starts before its blank line.
LEMMA FrameStartIn ==
  ASSUME NEW L \in Nat, NEW b \in Seq(Symbols), L = Len(b), NEW i \in 1..(L + 1)
  PROVE  FrameStart(b, i) \in 0..L
<1>. DEFINE before == {k \in BlankLines(b) : k < i}
            ends == {0} \cup {BreakEnd(b, j) : j \in before}
<1>1. before \subseteq 1..L BY DEF BlankLines, SseBreaks
<1>2. ends \subseteq 0..L
  <2>1. ASSUME NEW j \in before PROVE BreakEnd(b, j) \in 0..L
    <3>1. j \in 1..L BY <1>1
    <3>. HIDE DEF before
    <3>. QED BY <3>1, BreakEndIn
  <2>. HIDE DEF before
  <2>. QED BY <2>1
<1>3. ends \in SUBSET Nat /\ ends # {} /\ IsFiniteSet(ends)
  <2>1. IsFiniteSet(0..L)
    <3>1. 0 \in Int /\ L \in Int OBVIOUS
    <3>. QED BY <3>1, FS_Interval
  <2>2. ends # {} OBVIOUS
  <2>. HIDE DEF ends
  <2>3. IsFiniteSet(ends) BY <1>2, <2>1, FS_Subset
  <2>4. ends \in SUBSET Nat BY <1>2
  <2>. QED BY <2>2, <2>3, <2>4
<1>4. FrameStart(b, i) = Max(ends) BY DEF FrameStart
<1>. HIDE DEF ends
<1>. QED BY <1>2, <1>3, <1>4, MaxIn

\* What came before a byte is the same lines and frames when the byte is there.
LEMMA LinesStay ==
  ASSUME NEW L \in Nat, NEW f, NEW b, Cut(f, b), L = Len(f), NEW i \in 1..L
  PROVE  /\ i \in SseBreaks(b) <=> i \in SseBreaks(f)
         /\ i \in BlankLines(b) <=> i \in BlankLines(f)
         /\ i < L => BreakEnd(b, i) = BreakEnd(f, i)
<1>1. Len(b) = L + 1 BY DEF Cut
<1>2. i \in 1..(L + 1) /\ (i = 1 \/ i > 1) OBVIOUS
<1>3. b[i] = f[i] /\ (i > 1 => b[i - 1] = f[i - 1])
  <2>1. i > 1 => i - 1 \in 1..L OBVIOUS
  <2>. QED BY <2>1 DEF Cut
<1>4. i \in SseBreaks(b) <=> i \in SseBreaks(f)
  <2>1. i \in SseBreaks(b) <=> /\ b[i] \in Breaks
                              /\ ~(b[i] = "LF" /\ i > 1 /\ b[i - 1] = "CR")
    BY <1>1, <1>2 DEF SseBreaks, Cut
  <2>2. i \in SseBreaks(f) <=> /\ f[i] \in Breaks
                              /\ ~(f[i] = "LF" /\ i > 1 /\ f[i - 1] = "CR")
    BY DEF SseBreaks
  <2>. QED BY <1>3, <2>1, <2>2
<1>5. i \in BlankLines(b) <=> i \in BlankLines(f)
  <2>1. i \in BlankLines(b) <=> i \in SseBreaks(b) /\ (i = 1 \/ b[i - 1] \in Breaks)
    BY DEF BlankLines
  <2>2. i \in BlankLines(f) <=> i \in SseBreaks(f) /\ (i = 1 \/ f[i - 1] \in Breaks)
    BY DEF BlankLines
  <2>. QED BY <1>2, <1>3, <1>4, <2>1, <2>2
<1>6. ASSUME i < L PROVE BreakEnd(b, i) = BreakEnd(f, i)
  <2>1. i + 1 \in 1..L /\ i < L + 1 BY <1>6
  <2>2. b[i + 1] = f[i + 1] BY <2>1 DEF Cut
  <2>3. Len(b) = L + 1 BY DEF Cut
  <2>. QED BY <1>3, <1>6, <2>1, <2>2, <2>3 DEF BreakEnd
<1>. QED BY <1>4, <1>5, <1>6

LEMMA FramesStay ==
  ASSUME NEW L \in Nat, NEW f, NEW b, Cut(f, b), L = Len(f), NEW i \in 1..L
  PROVE  /\ DataAt(b, i) = DataAt(f, i) /\ DataAt(f, i) \subseteq 1..L
         /\ i \in Dispatches(b) <=> i \in Dispatches(f)
<1>1. f \in Seq(Symbols) /\ b \in Seq(Symbols) /\ Len(b) = L + 1 BY DEF Cut
<1>2. {k \in BlankLines(b) : k < i} = {k \in BlankLines(f) : k < i}
  <2>1. BlankLines(b) \subseteq 1..(L + 1) /\ BlankLines(f) \subseteq 1..L
    BY <1>1 DEF BlankLines, SseBreaks
  <2>2. ASSUME NEW k, k < i, k \in 1..(L + 1)
        PROVE  k \in BlankLines(b) <=> k \in BlankLines(f)
    <3>1. k \in 1..L BY <2>2
    <3>. QED BY <3>1, LinesStay
  <2>3. \A k \in 1..L : k \in 1..(L + 1) OBVIOUS
  <2>. QED BY <2>1, <2>2, <2>3, Zenon
<1>3. \A j \in {k \in BlankLines(f) : k < i} : BreakEnd(b, j) = BreakEnd(f, j)
  <2>1. ASSUME NEW j \in BlankLines(f), j < i PROVE BreakEnd(b, j) = BreakEnd(f, j)
    <3>1. j \in 1..L BY <1>1 DEF BlankLines, SseBreaks
    <3>2. j < L BY <2>1, <3>1
    <3>. QED BY <3>1, <3>2, LinesStay
  <2>. QED BY <2>1
<1>4. PICK S : S = {k \in BlankLines(f) : k < i} OBVIOUS
<1>5. {BreakEnd(b, j) : j \in S} = {BreakEnd(f, j) : j \in S} BY <1>3, <1>4
<1>6. FrameStart(b, i) = FrameStart(f, i)
  <2>1. FrameStart(b, i) = Max({0} \cup {BreakEnd(b, j) : j \in S})
    BY <1>2, <1>4 DEF FrameStart
  <2>2. FrameStart(f, i) = Max({0} \cup {BreakEnd(f, j) : j \in S})
    BY <1>4 DEF FrameStart
  <2>. QED BY <1>5, <2>1, <2>2
<1>7. FrameStart(f, i) \in 0..L
  <2>1. i \in 1..(L + 1) OBVIOUS
  <2>. QED BY <1>1, <2>1, FrameStartIn
<1>8. FrameStart(f, i) + 1..i \subseteq 1..L BY <1>7
<1>9. DataAt(f, i) \subseteq 1..L /\ DataAt(b, i) = DataAt(f, i)
  <2>1. PICK span : span = FrameStart(f, i) + 1..i OBVIOUS
  <2>2. DataAt(f, i) = {k \in span : f[k] \in Values} BY <2>1 DEF DataAt
  <2>3. DataAt(b, i) = {k \in span : b[k] \in Values} BY <1>6, <2>1 DEF DataAt
  <2>4. \A k \in span : b[k] = f[k] BY <1>8, <2>1 DEF Cut
  <2>. QED BY <1>8, <2>1, <2>2, <2>3, <2>4
<1>. QED BY <1>9, LinesStay DEF Dispatches

\* What an event may say.
Contents == Symbols \cup {"joined"}

\* One event more.
Longer(v, w) == Len(w) = Len(v) + 1 /\ \A n \in 1..Len(v) : w[n] = v[n]

LEMMA SingleIn ==
  ASSUME NEW b \in Seq(Symbols), NEW content \in SUBSET (1..Len(b))
  PROVE  Single(b, content) \in Contents
<1>1. CASE \E k \in content : content = {k}
  <2>1. PICK k \in content : content = {k} BY <1>1
  <2>2. (CHOOSE j \in content : TRUE) = k BY <2>1
  <2>3. Single(b, content) = b[k] BY <2>1, <2>2 DEF Single
  <2>4. k \in 1..Len(b) OBVIOUS
  <2>. QED BY <2>3, <2>4 DEF Contents
<1>2. CASE ~\E k \in content : content = {k} BY <1>2 DEF Single, Contents
<1>. QED BY <1>1, <1>2

LEMMA SingleStays ==
  ASSUME NEW f, NEW b, Cut(f, b), NEW content \in SUBSET (1..Len(f))
  PROVE  Single(b, content) = Single(f, content)
<1>1. CASE \E k \in content : content = {k}
  <2>1. PICK k \in content : content = {k} BY <1>1
  <2>2. PICK j : j = CHOOSE k0 \in content : TRUE OBVIOUS
  <2>3. j \in content BY <2>1, <2>2
  <2>4. b[j] = f[j] BY <2>3 DEF Cut
  <2>5. Single(b, content) = b[j] /\ Single(f, content) = f[j] BY <1>1, <2>2 DEF Single
  <2>. QED BY <2>4, <2>5
<1>2. CASE ~\E k \in content : content = {k} BY <1>2 DEF Single
<1>. QED BY <1>1, <1>2

LEMMA DispatchesIn ==
  ASSUME NEW L \in Nat, NEW b \in Seq(Symbols), L = Len(b)
  PROVE  /\ Dispatches(b) \subseteq 1..L /\ Dispatches(b) \in SUBSET Nat
         /\ IsFiniteSet(Dispatches(b))
         /\ \A i \in 1..L : DataAt(b, i) \in SUBSET (1..L)
<1>1. Dispatches(b) \subseteq 1..L BY DEF Dispatches, BlankLines, SseBreaks
<1>2. IsFiniteSet(1..L)
  <2>1. 1 \in Int /\ L \in Int OBVIOUS
  <2>. QED BY <2>1, FS_Interval
<1>3. IsFiniteSet(Dispatches(b)) BY <1>1, <1>2, FS_Subset
<1>4. ASSUME NEW i \in 1..L PROVE DataAt(b, i) \in SUBSET (1..L)
  <2>1. i \in 1..(L + 1) OBVIOUS
  <2>2. FrameStart(b, i) \in 0..L BY <2>1, FrameStartIn
  <2>3. FrameStart(b, i) + 1..i \subseteq 1..L BY <2>2
  <2>. QED BY <2>3 DEF DataAt
<1>. QED BY <1>1, <1>3, <1>4

LEMMA SseValues ==
  ASSUME NEW L \in Nat, NEW b \in Seq(Symbols), L = Len(b),
         NEW size, size = Cardinality(Dispatches(b)), NEW v, v = ValuesOf(SseEvents(b))
  PROVE  /\ size \in Nat /\ v \in Seq(Contents) /\ Len(v) = size
         /\ \A n \in 1..size : v[n] = Single(b, DataAt(b, Ordered(Dispatches(b))[n]))
<1>1. PICK S : S = Dispatches(b) OBVIOUS
<1>2. S \subseteq 1..L /\ S \in SUBSET Nat /\ IsFiniteSet(S) BY <1>1, DispatchesIn
<1>3. PICK at : at = Ordered(S) OBVIOUS
<1>4. size \in Nat /\ DOMAIN at = 1..size /\ \A n \in 1..size : at[n] \in S
  BY <1>1, <1>2, <1>3, OrderedIn
<1>5. SseEvents(b) = [n \in 1..size |-> [value |-> Single(b, DataAt(b, at[n])),
                                         end |-> BreakEnd(b, at[n])]]
  BY <1>1, <1>3, <1>4 DEF SseEvents
<1>6. v = [n \in 1..size |-> Single(b, DataAt(b, at[n]))] BY <1>5 DEF ValuesOf
<1>7. ASSUME NEW n \in 1..size PROVE Single(b, DataAt(b, at[n])) \in Contents
  <2>1. at[n] \in 1..L BY <1>2, <1>4
  <2>2. DataAt(b, at[n]) \in SUBSET (1..L) BY <2>1, DispatchesIn
  <2>. QED BY <2>2, SingleIn
<1>8. v \in [1..size -> Contents] BY <1>6, <1>7
<1>9. v \in Seq(Contents) /\ Len(v) = size BY <1>4, <1>8
<1>. QED BY <1>1, <1>3, <1>4, <1>6, <1>9

\* One byte more gives the same events, or one more.
LEMMA SseGrows ==
  ASSUME NEW f, NEW b, Cut(f, b),
         NEW v, v = ValuesOf(SseEvents(f)), NEW w, w = ValuesOf(SseEvents(b))
  PROVE  v \in Seq(Contents) /\ w \in Seq(Contents) /\ (w = v \/ Longer(v, w))
<1>1. PICK L \in Nat : L = Len(f) /\ L + 1 = Len(b) /\ f \in Seq(Symbols) /\ b \in Seq(Symbols)
  BY DEF Cut
<1>2. PICK S : S = Dispatches(f) OBVIOUS
<1>3. S \subseteq 1..L /\ S \in SUBSET Nat /\ IsFiniteSet(S) BY <1>1, <1>2, DispatchesIn
<1>4. PICK size \in Nat : size = Cardinality(S) BY <1>3, FS_CardinalityType
<1>5. /\ v \in Seq(Contents) /\ Len(v) = size
      /\ \A n \in 1..size : v[n] = Single(f, DataAt(f, Ordered(S)[n]))
  BY <1>1, <1>2, <1>4, SseValues
<1>6. /\ w \in Seq(Contents) /\ Len(w) = Cardinality(Dispatches(b))
      /\ \A n \in 1..Cardinality(Dispatches(b)) :
            w[n] = Single(b, DataAt(b, Ordered(Dispatches(b))[n]))
  BY <1>1, SseValues
<1>7. \A n \in 1..size : v[n] = Single(b, DataAt(b, Ordered(S)[n]))
  <2>1. ASSUME NEW n \in 1..size PROVE v[n] = Single(b, DataAt(b, Ordered(S)[n]))
    <3>1. PICK i \in S : i = Ordered(S)[n] BY <1>3, <1>4, OrderedIn
    <3>2. i \in 1..L BY <1>3, <3>1
    <3>3. DataAt(b, i) = DataAt(f, i) /\ DataAt(f, i) \subseteq 1..L BY <1>1, <3>2, FramesStay
    <3>4. Single(b, DataAt(f, i)) = Single(f, DataAt(f, i)) BY <1>1, <3>3, SingleStays
    <3>. QED BY <1>5, <3>1, <3>3, <3>4
  <2>. QED BY <2>1
<1>8. Dispatches(b) = S \/ Dispatches(b) = S \cup {L + 1}
  <2>1. Dispatches(b) \subseteq 1..(L + 1)
    <3>1. L + 1 \in Nat OBVIOUS
    <3>. QED BY <1>1, <3>1, DispatchesIn
  <2>2. \A i \in 1..L : i \in Dispatches(b) <=> i \in S BY <1>1, <1>2, FramesStay
  <2>3. \A i \in 1..(L + 1) : i \in 1..L \/ i = L + 1 OBVIOUS
  <2>. QED BY <1>3, <2>1, <2>2, <2>3, Zenon
<1>9. CASE Dispatches(b) = S
  <2>1. Len(w) = Len(v) /\ \A n \in 1..Len(v) : w[n] = v[n] BY <1>4, <1>5, <1>6, <1>7, <1>9
  <2>2. w = v BY <1>5, <1>6, <2>1
  <2>. QED BY <1>5, <1>6, <2>2
<1>10. CASE Dispatches(b) = S \cup {L + 1}
  <2>1. L + 1 \in Nat /\ \A i \in S : i < L + 1 BY <1>3
  <2>2. /\ Cardinality(S \cup {L + 1}) = size + 1
        /\ \A n \in 1..size : Ordered(S \cup {L + 1})[n] = Ordered(S)[n]
    BY <1>3, <1>4, <2>1, OrderedGrows
  <2>3. Len(w) = size + 1 BY <1>6, <1>10, <2>2
  <2>4. ASSUME NEW n \in 1..size PROVE w[n] = v[n]
    <3>1. n \in 1..(size + 1) OBVIOUS
    <3>2. w[n] = Single(b, DataAt(b, Ordered(S \cup {L + 1})[n])) BY <1>6, <1>10, <2>2, <3>1
    <3>. QED BY <1>7, <2>2, <3>2
  <2>5. Longer(v, w) BY <1>5, <2>3, <2>4 DEF Longer
  <2>. QED BY <1>5, <1>6, <2>5
<1>. QED BY <1>8, <1>9, <1>10

LEMMA SseFinal ==
  ASSUME NEW f, NEW b, Cut(f, b), NEW p \in SseProtocols, IsEnded(Decoded(p, f))
  PROVE  Decoded(p, b) \in {Decoded(p, f), [terminal |-> "refused"]}
<1>1. PICK v, w : v = ValuesOf(SseEvents(f)) /\ w = ValuesOf(SseEvents(b)) OBVIOUS
<1>2. v \in Seq(Contents) /\ w \in Seq(Contents) /\ (w = v \/ Longer(v, w)) BY <1>1, SseGrows
<1>3. Decoded(p, f) = IF SseRefused(p, f, v) THEN [terminal |-> "refused"]
                      ELSE [values |-> v, terminal |-> SseSummary(p, v).terminal,
                            finalUsage |-> SseSummary(p, v).finalUsage]
  BY <1>1 DEF Decoded
<1>4. Decoded(p, b) = IF SseRefused(p, b, w) THEN [terminal |-> "refused"]
                      ELSE [values |-> w, terminal |-> SseSummary(p, w).terminal,
                            finalUsage |-> SseSummary(p, w).finalUsage]
  BY <1>1 DEF Decoded
<1>5. /\ ~SseRefused(p, f, v)
      /\ SseSummary(p, v).terminal \notin {"refused", "eof", "truncated"}
  BY <1>3 DEF IsEnded
<1>6. PICK n \in 1..Len(v) : SseTerminal(p, v[n])
  <2>1. \/ "error" \in Range(v)
        \/ p = "openai-responses" /\ "completed" \in Range(v)
        \/ Len(v) > 0 /\ v[Len(v)] = "done"
    BY <1>5 DEF SseSummary
  <2>2. Len(v) \in Nat /\ DOMAIN v = 1..Len(v) BY <1>2
  <2>3. \A x \in Range(v) : \E n \in 1..Len(v) : v[n] = x BY <2>2 DEF Range
  <2>4. Len(v) > 0 => Len(v) \in 1..Len(v) BY <2>2
  <2>. QED BY <2>1, <2>3, <2>4 DEF SseTerminal
<1>7. CASE w = v BY <1>3, <1>4, <1>5, <1>7
<1>8. CASE Longer(v, w)
  <2>1. Len(w) = Len(v) + 1 /\ w[n] = v[n] BY <1>8 DEF Longer
  <2>2. Len(v) \in Nat /\ DOMAIN w = 1..Len(w) BY <1>2
  <2>3. n \in DOMAIN w /\ n < Len(w) BY <2>1, <2>2
  <2>4. SseRefused(p, b, w) BY <1>6, <2>1, <2>3 DEF SseRefused
  <2>. QED BY <1>4, <2>4
<1>. QED BY <1>2, <1>7, <1>8

-----------------------------------------------------------------------------
\* The lines of a stream of items.
LEMMA NdjsonEndsIn ==
  ASSUME NEW L \in Nat, NEW b \in Seq(Symbols), L = Len(b)
  PROVE  /\ NdjsonEnds(b) = {i \in 1..L : b[i] = "LF"} \cup (IF L > 0 THEN {L} ELSE {})
         /\ NdjsonEnds(b) \subseteq 1..L /\ NdjsonEnds(b) \in SUBSET Nat
         /\ IsFiniteSet(NdjsonEnds(b))
<1>1. b # <<>> <=> L > 0 OBVIOUS
<1>2. L > 0 => Last(b) = b[L] BY DEF Last
<1>3. NdjsonEnds(b) = {i \in 1..L : b[i] = "LF"} \cup (IF L > 0 THEN {L} ELSE {})
  <2>1. CASE L > 0 /\ b[L] = "LF"
    <3>1. NdjsonEnds(b) = {i \in 1..L : b[i] = "LF"} BY <1>2, <2>1 DEF NdjsonEnds
    <3>2. L \in {i \in 1..L : b[i] = "LF"} BY <2>1
    <3>. QED BY <2>1, <3>1, <3>2
  <2>2. CASE L > 0 /\ b[L] # "LF" BY <1>1, <1>2, <2>2 DEF NdjsonEnds
  <2>3. CASE ~(L > 0) BY <1>1, <2>3 DEF NdjsonEnds
  <2>. QED BY <2>1, <2>2, <2>3
<1>4. NdjsonEnds(b) \subseteq 1..L
  <2>1. L > 0 => L \in 1..L OBVIOUS
  <2>. QED BY <1>3, <2>1
<1>5. IsFiniteSet(1..L)
  <2>1. 1 \in Int /\ L \in Int OBVIOUS
  <2>. QED BY <2>1, FS_Interval
<1>. QED BY <1>3, <1>4, <1>5, FS_Subset

\* A line starts after the break before it.
LEMMA LineStartIn ==
  ASSUME NEW L \in Nat, NEW b \in Seq(Symbols), L = Len(b), NEW i \in 1..L
  PROVE  LineStart(b, i) \in 0..(i - 1)
<1>. DEFINE ends == {0} \cup {j \in NdjsonEnds(b) : j < i}
<1>1. ends \subseteq 0..(i - 1)
  <2>1. NdjsonEnds(b) \subseteq 1..L BY NdjsonEndsIn
  <2>2. \A j \in 1..L : j < i => j \in 0..(i - 1) OBVIOUS
  <2>3. 0 \in 0..(i - 1) OBVIOUS
  <2>. QED BY <2>1, <2>2, <2>3, Zenon
<1>2. ends \in SUBSET Nat /\ ends # {} /\ IsFiniteSet(ends)
  <2>1. IsFiniteSet(0..(i - 1))
    <3>1. 0 \in Int /\ i - 1 \in Int OBVIOUS
    <3>. QED BY <3>1, FS_Interval
  <2>2. ends # {} OBVIOUS
  <2>. HIDE DEF ends
  <2>3. IsFiniteSet(ends) BY <1>1, <2>1, FS_Subset
  <2>4. ends \in SUBSET Nat BY <1>1
  <2>. QED BY <2>2, <2>3, <2>4
<1>3. LineStart(b, i) = Max(ends) BY DEF LineStart
<1>. HIDE DEF ends
<1>. QED BY <1>1, <1>2, <1>3, MaxIn

LEMMA NdjsonValues ==
  ASSUME NEW L \in Nat, NEW b \in Seq(Symbols), L = Len(b),
         NEW size, size = Cardinality(NdjsonEnds(b)), NEW v, v = ValuesOf(NdjsonItems(b))
  PROVE  /\ size \in Nat /\ v \in Seq(Contents) /\ Len(v) = size
         /\ \A n \in 1..size : v[n] = Single(b, ContentAt(b, Ordered(NdjsonEnds(b))[n]))
<1>1. PICK S : S = NdjsonEnds(b) OBVIOUS
<1>2. S \subseteq 1..L /\ S \in SUBSET Nat /\ IsFiniteSet(S) BY <1>1, NdjsonEndsIn
<1>3. PICK at : at = Ordered(S) OBVIOUS
<1>4. size \in Nat /\ DOMAIN at = 1..size /\ \A n \in 1..size : at[n] \in S
  BY <1>1, <1>2, <1>3, OrderedIn
<1>5. NdjsonItems(b) = [n \in 1..size |-> [value |-> Single(b, ContentAt(b, at[n])),
                                           end |-> at[n]]]
  BY <1>1, <1>3, <1>4 DEF NdjsonItems
<1>6. v = [n \in 1..size |-> Single(b, ContentAt(b, at[n]))] BY <1>5 DEF ValuesOf
<1>7. ASSUME NEW n \in 1..size PROVE Single(b, ContentAt(b, at[n])) \in Contents
  <2>1. PICK i \in 1..L : i = at[n] BY <1>2, <1>4
  <2>2. LineStart(b, i) \in 0..(i - 1) BY LineStartIn
  <2>3. LineStart(b, i) + 1..i \subseteq 1..L BY <2>2
  <2>4. ContentAt(b, i) \in SUBSET (1..L) BY <2>3 DEF ContentAt
  <2>. QED BY <2>1, <2>4, SingleIn
<1>8. v \in [1..size -> Contents] BY <1>6, <1>7
<1>9. v \in Seq(Contents) /\ Len(v) = size BY <1>4, <1>8
<1>. QED BY <1>1, <1>3, <1>4, <1>6, <1>9

\* The breaks of a body.
Feeds(b) == {i \in 1..Len(b) : b[i] = "LF"}

LEMMA LineStartBy ==
  ASSUME NEW L \in Nat, NEW b \in Seq(Symbols), L = Len(b), NEW i \in 1..L
  PROVE  LineStart(b, i) = Max({0} \cup {j \in Feeds(b) : j < i})
<1>1. {j \in NdjsonEnds(b) : j < i} = {j \in Feeds(b) : j < i}
  <2>1. NdjsonEnds(b) = Feeds(b) \cup {L} BY NdjsonEndsIn DEF Feeds
  <2>2. ~(L < i) OBVIOUS
  <2>. QED BY <2>1, <2>2, Zenon
<1>. QED BY <1>1 DEF LineStart

LEMMA LineStay ==
  ASSUME NEW L \in Nat, NEW f, NEW b, Cut(f, b), L = Len(f), NEW i \in 1..L
  PROVE  LineStart(b, i) = LineStart(f, i) /\ ContentAt(b, i) = ContentAt(f, i)
         /\ ContentAt(f, i) \subseteq 1..L
<1>1. f \in Seq(Symbols) /\ b \in Seq(Symbols) /\ Len(b) = L + 1 BY DEF Cut
<1>2. {j \in Feeds(b) : j < i} = {j \in Feeds(f) : j < i}
  <2>1. Feeds(b) \subseteq 1..(L + 1) /\ Feeds(f) \subseteq 1..L BY <1>1 DEF Feeds
  <2>2. ASSUME NEW j \in 1..(L + 1), j < i PROVE j \in Feeds(b) <=> j \in Feeds(f)
    <3>1. j \in 1..L BY <2>2
    <3>2. b[j] = f[j] BY <3>1 DEF Cut
    <3>. QED BY <1>1, <3>1, <3>2 DEF Feeds
  <2>3. \A j \in 1..L : j \in 1..(L + 1) OBVIOUS
  <2>. QED BY <2>1, <2>2, <2>3, Zenon
<1>3. LineStart(b, i) = LineStart(f, i)
  <2>1. i \in 1..(L + 1) /\ L + 1 \in Nat OBVIOUS
  <2>2. LineStart(b, i) = Max({0} \cup {j \in Feeds(b) : j < i}) BY <1>1, <2>1, LineStartBy
  <2>3. LineStart(f, i) = Max({0} \cup {j \in Feeds(f) : j < i}) BY <1>1, LineStartBy
  <2>. QED BY <1>2, <2>2, <2>3
<1>4. LineStart(f, i) \in 0..(i - 1) BY <1>1, LineStartIn
<1>5. PICK span : span = LineStart(f, i) + 1..i OBVIOUS
<1>6. span \subseteq 1..L BY <1>4, <1>5
<1>7. ContentAt(f, i) = {k \in span : f[k] \notin Breaks} BY <1>5 DEF ContentAt
<1>8. ContentAt(b, i) = {k \in span : b[k] \notin Breaks} BY <1>3, <1>5 DEF ContentAt
<1>9. \A k \in span : b[k] = f[k] BY <1>6 DEF Cut
<1>. QED BY <1>3, <1>6, <1>7, <1>8, <1>9

\* A line that goes on past the cut begins where it began.
LEMMA LineGoesOn ==
  ASSUME NEW L \in Nat, NEW f, NEW b, Cut(f, b), L = Len(f), L > 0, f[L] # "LF"
  PROVE  ContentAt(b, L + 1) = ContentAt(f, L)
                                 \cup (IF b[L + 1] \in Breaks THEN {} ELSE {L + 1})
<1>1. f \in Seq(Symbols) /\ b \in Seq(Symbols) /\ Len(b) = L + 1 /\ L \in 1..L BY DEF Cut
<1>2. {j \in Feeds(b) : j < L + 1} = {j \in Feeds(f) : j < L}
  <2>1. Feeds(b) \subseteq 1..(L + 1) /\ Feeds(f) \subseteq 1..L BY <1>1 DEF Feeds
  <2>2. ASSUME NEW j \in 1..(L + 1) PROVE j \in Feeds(b) /\ j < L + 1 <=> j \in Feeds(f) /\ j < L
    <3>1. CASE j < L
      <4>1. j \in 1..L /\ j < L + 1 BY <3>1
      <4>2. b[j] = f[j] BY <4>1 DEF Cut
      <4>. QED BY <1>1, <3>1, <4>1, <4>2 DEF Feeds
    <3>2. CASE j = L
      <4>1. ~(j < L) BY <3>2
      <4>2. b[j] # "LF" BY <1>1, <3>2 DEF Cut
      <4>. QED BY <4>1, <4>2 DEF Feeds
    <3>3. CASE j = L + 1
      <4>1. ~(j < L + 1) /\ ~(j < L) BY <3>3
      <4>. QED BY <4>1
    <3>4. j < L \/ j = L \/ j = L + 1 OBVIOUS
    <3>. QED BY <3>1, <3>2, <3>3, <3>4
  <2>3. \A j \in 1..L : j \in 1..(L + 1) OBVIOUS
  <2>. QED BY <2>1, <2>2, <2>3, Zenon
<1>3. LineStart(b, L + 1) = LineStart(f, L)
  <2>1. L + 1 \in 1..(L + 1) /\ L + 1 \in Nat OBVIOUS
  <2>2. LineStart(b, L + 1) = Max({0} \cup {j \in Feeds(b) : j < L + 1})
    BY <1>1, <2>1, LineStartBy
  <2>3. LineStart(f, L) = Max({0} \cup {j \in Feeds(f) : j < L}) BY <1>1, LineStartBy
  <2>. QED BY <1>2, <2>2, <2>3
<1>4. PICK start \in 0..(L - 1) : start = LineStart(f, L) BY <1>1, LineStartIn
<1>5. ContentAt(f, L) = {k \in start + 1..L : f[k] \notin Breaks} BY <1>4 DEF ContentAt
<1>6. ContentAt(b, L + 1) = {k \in start + 1..L + 1 : b[k] \notin Breaks}
  BY <1>3, <1>4 DEF ContentAt
<1>7. \A k \in start + 1..L : b[k] = f[k] BY <1>4 DEF Cut
<1>8. start + 1..L + 1 = (start + 1..L) \cup {L + 1} /\ L + 1 \notin start + 1..L BY <1>4
<1>. QED BY <1>5, <1>6, <1>7, <1>8

\* One byte more gives the same items, or one more, or one that is refused.
LEMMA NdjsonGrows ==
  ASSUME NEW f, NEW b, Cut(f, b),
         NEW v, v = ValuesOf(NdjsonItems(f)), NEW w, w = ValuesOf(NdjsonItems(b))
  PROVE  /\ v \in Seq(Contents) /\ w \in Seq(Contents)
         /\ \/ w = v \/ Longer(v, w)
            \/ \E n \in 1..Len(v) : v[n] = "joined"
            \/ \E n \in 1..Len(w) : w[n] = "joined"
<1>1. PICK L \in Nat : L = Len(f) /\ L + 1 = Len(b) /\ f \in Seq(Symbols) /\ b \in Seq(Symbols)
  BY DEF Cut
<1>2. PICK S : S = Feeds(f) OBVIOUS
<1>3. S \subseteq 1..L /\ S \in SUBSET Nat /\ IsFiniteSet(S)
  <2>1. S \subseteq 1..L BY <1>1, <1>2 DEF Feeds
  <2>2. NdjsonEnds(f) = S \cup (IF L > 0 THEN {L} ELSE {}) /\ IsFiniteSet(NdjsonEnds(f))
    BY <1>1, <1>2, NdjsonEndsIn DEF Feeds
  <2>3. S \in SUBSET NdjsonEnds(f) BY <2>2
  <2>. QED BY <2>1, <2>2, <2>3, FS_Subset
<1>4. PICK size \in Nat : size = Cardinality(S) BY <1>3, FS_CardinalityType
<1>5. /\ v \in Seq(Contents) /\ Len(v) = Cardinality(NdjsonEnds(f))
      /\ \A n \in 1..Cardinality(NdjsonEnds(f)) :
            v[n] = Single(f, ContentAt(f, Ordered(NdjsonEnds(f))[n]))
  BY <1>1, NdjsonValues
<1>6. /\ w \in Seq(Contents) /\ Len(w) = Cardinality(NdjsonEnds(b))
      /\ \A n \in 1..Cardinality(NdjsonEnds(b)) :
            w[n] = Single(b, ContentAt(b, Ordered(NdjsonEnds(b))[n]))
  BY <1>1, NdjsonValues
<1>7. NdjsonEnds(b) = S \cup {L + 1}
  <2>1. NdjsonEnds(b) = Feeds(b) \cup {L + 1}
    <3>1. L + 1 \in Nat /\ L + 1 > 0 OBVIOUS
    <3>. QED BY <1>1, <3>1, NdjsonEndsIn DEF Feeds
  <2>2. Feeds(b) \subseteq 1..(L + 1) BY <1>1 DEF Feeds
  <2>3. \A i \in 1..L : i \in Feeds(b) <=> i \in S
    <3>1. ASSUME NEW i \in 1..L PROVE i \in Feeds(b) <=> i \in S
      <4>1. i \in 1..(L + 1) OBVIOUS
      <4>2. b[i] = f[i] BY <1>1 DEF Cut
      <4>. QED BY <1>1, <1>2, <4>1, <4>2 DEF Feeds
    <3>. QED BY <3>1
  <2>4. \A i \in 1..(L + 1) : i \in 1..L \/ i = L + 1 OBVIOUS
  <2>. QED BY <1>3, <2>1, <2>2, <2>3, <2>4, Zenon
<1>8. /\ Cardinality(S \cup {L + 1}) = size + 1
      /\ Ordered(S \cup {L + 1})[size + 1] = L + 1
      /\ \A n \in 1..size : Ordered(S \cup {L + 1})[n] = Ordered(S)[n]
  <2>1. L + 1 \in Nat /\ \A i \in S : i < L + 1 BY <1>3
  <2>. QED BY <1>3, <1>4, <2>1, OrderedGrows
<1>9. \A n \in 1..size : Ordered(S)[n] \in 1..L
  BY <1>3, <1>4, OrderedIn
<1>10. \A n \in 1..size : w[n] = Single(f, ContentAt(f, Ordered(S)[n]))
  <2>1. ASSUME NEW n \in 1..size PROVE w[n] = Single(f, ContentAt(f, Ordered(S)[n]))
    <3>1. PICK i \in 1..L : i = Ordered(S)[n] BY <1>9
    <3>2. n \in 1..(size + 1) OBVIOUS
    <3>3. w[n] = Single(b, ContentAt(b, i)) BY <1>6, <1>7, <1>8, <3>1, <3>2
    <3>4. ContentAt(b, i) = ContentAt(f, i) /\ ContentAt(f, i) \subseteq 1..L BY <1>1, LineStay
    <3>5. Single(b, ContentAt(f, i)) = Single(f, ContentAt(f, i)) BY <1>1, <3>4, SingleStays
    <3>. QED BY <3>1, <3>3, <3>4, <3>5
  <2>. QED BY <2>1
<1>11. Len(w) = size + 1 BY <1>6, <1>7, <1>8
<1>12. CASE L = 0 \/ f[L] = "LF"
  <2>1. NdjsonEnds(f) = S
    <3>1. NdjsonEnds(f) = S \cup (IF L > 0 THEN {L} ELSE {})
      BY <1>1, <1>2, NdjsonEndsIn DEF Feeds
    <3>2. L > 0 => L \in S
      <4>1. L > 0 => L \in 1..L /\ f[L] = "LF" BY <1>12
      <4>. QED BY <1>1, <1>2, <4>1 DEF Feeds
    <3>. QED BY <3>1, <3>2
  <2>2. Len(v) = size /\ \A n \in 1..size : v[n] = Single(f, ContentAt(f, Ordered(S)[n]))
    BY <1>4, <1>5, <2>1
  <2>3. Longer(v, w) BY <1>10, <1>11, <2>2 DEF Longer
  <2>. QED BY <1>5, <1>6, <2>3
<1>13. CASE L > 0 /\ f[L] # "LF"
  <2>1. NdjsonEnds(f) = S \cup {L} BY <1>1, <1>2, <1>13, NdjsonEndsIn DEF Feeds
  <2>2. \A i \in S : i < L
    <3>1. L \notin S BY <1>2, <1>13 DEF Feeds
    <3>. QED BY <1>3, <3>1
  <2>3. /\ Cardinality(S \cup {L}) = size + 1
        /\ Ordered(S \cup {L})[size + 1] = L
        /\ \A n \in 1..size : Ordered(S \cup {L})[n] = Ordered(S)[n]
    BY <1>3, <1>4, <2>2, OrderedGrows
  <2>4. Len(v) = size + 1 BY <1>5, <2>1, <2>3
  <2>5. \A n \in 1..size : v[n] = w[n]
    <3>1. ASSUME NEW n \in 1..size PROVE v[n] = w[n]
      <4>1. n \in 1..(size + 1) OBVIOUS
      <4>2. v[n] = Single(f, ContentAt(f, Ordered(S)[n])) BY <1>5, <2>1, <2>3, <4>1
      <4>. QED BY <1>10, <4>2
    <3>. QED BY <3>1
  <2>6. size + 1 \in 1..(size + 1) OBVIOUS
  <2>7. v[size + 1] = Single(f, ContentAt(f, L)) BY <1>5, <2>1, <2>3, <2>6
  <2>8. w[size + 1] = Single(b, ContentAt(b, L + 1)) BY <1>6, <1>7, <1>8, <2>6
  <2>9. PICK content : content = ContentAt(f, L) OBVIOUS
  <2>10. L \in 1..L BY <1>13
  <2>11. content \subseteq 1..L BY <1>1, <2>9, <2>10, LineStay
  <2>12. CASE b[L + 1] \in Breaks
    <3>1. ContentAt(b, L + 1) = content BY <1>1, <1>13, <2>9, <2>12, LineGoesOn
    <3>2. Single(b, content) = Single(f, content) BY <1>1, <2>11, SingleStays
    <3>3. w[size + 1] = v[size + 1] BY <2>7, <2>8, <2>9, <3>1, <3>2
    <3>4. \A n \in 1..(size + 1) : n \in 1..size \/ n = size + 1 OBVIOUS
    <3>5. Len(w) = Len(v) /\ \A n \in 1..Len(v) : w[n] = v[n]
      BY <1>11, <2>4, <2>5, <3>3, <3>4
    <3>6. w = v BY <1>5, <1>6, <3>5
    <3>. QED BY <1>5, <1>6, <3>6
  <2>13. CASE b[L + 1] \notin Breaks
    <3>1. ContentAt(b, L + 1) = content \cup {L + 1} BY <1>1, <1>13, <2>9, <2>13, LineGoesOn
    <3>2. CASE content = {}
      <4>1. v[size + 1] = "joined" BY <2>7, <2>9, <3>2 DEF Single
      <4>. QED BY <1>5, <1>6, <2>4, <2>6, <4>1
    <3>3. CASE content # {}
      <4>1. PICK k \in content : TRUE BY <3>3
      <4>2. k # L + 1 BY <2>11
      <4>3. ~\E j \in content \cup {L + 1} : content \cup {L + 1} = {j} BY <4>2
      <4>4. w[size + 1] = "joined" BY <2>8, <3>1, <4>3, Zenon DEF Single
      <4>. QED BY <1>5, <1>6, <1>11, <2>6, <4>4
    <3>. QED BY <3>2, <3>3
  <2>. QED BY <2>12, <2>13
<1>. QED BY <1>12, <1>13

LEMMA NdjsonFinal ==
  ASSUME NEW f, NEW b, Cut(f, b), NEW p \in NdjsonProtocols, IsEnded(Decoded(p, f))
  PROVE  Decoded(p, b) \in {Decoded(p, f), [terminal |-> "refused"]}
<1>0. p \notin SseProtocols BY DEF SseProtocols, NdjsonProtocols
<1>1. PICK v, w : v = ValuesOf(NdjsonItems(f)) /\ w = ValuesOf(NdjsonItems(b)) OBVIOUS
<1>2. /\ v \in Seq(Contents) /\ w \in Seq(Contents)
      /\ \/ w = v \/ Longer(v, w)
         \/ \E n \in 1..Len(v) : v[n] = "joined"
         \/ \E n \in 1..Len(w) : w[n] = "joined"
  BY <1>1, NdjsonGrows
<1>3. Decoded(p, f) = IF NdjsonRefused(p, v) THEN [terminal |-> "refused"]
                      ELSE [values |-> v, terminal |-> NdjsonSummary(p, v).terminal,
                            finalUsage |-> NdjsonSummary(p, v).finalUsage]
  BY <1>0, <1>1 DEF Decoded
<1>4. Decoded(p, b) = IF NdjsonRefused(p, w) THEN [terminal |-> "refused"]
                      ELSE [values |-> w, terminal |-> NdjsonSummary(p, w).terminal,
                            finalUsage |-> NdjsonSummary(p, w).finalUsage]
  BY <1>0, <1>1 DEF Decoded
<1>5. /\ ~NdjsonRefused(p, v)
      /\ NdjsonSummary(p, v).terminal \notin {"refused", "eof", "truncated"}
  BY <1>3 DEF IsEnded
<1>6. DOMAIN v = 1..Len(v) /\ DOMAIN w = 1..Len(w) /\ Len(v) \in Nat BY <1>2
<1>7. PICK n \in 1..Len(v) : NdjsonTerminal(p, v[n])
  <2>1. \/ "error" \in Range(v)
        \/ p = "ollama" /\ ("done" \in Range(v) \/ "completed" \in Range(v))
    BY <1>5 DEF NdjsonSummary
  <2>2. \A x \in Range(v) : \E n \in 1..Len(v) : v[n] = x BY <1>6 DEF Range
  <2>. QED BY <2>1, <2>2 DEF NdjsonTerminal
<1>8. CASE w = v BY <1>3, <1>4, <1>5, <1>8
<1>9. CASE Longer(v, w)
  <2>1. Len(w) = Len(v) + 1 /\ w[n] = v[n] BY <1>9 DEF Longer
  <2>2. n \in DOMAIN w /\ n < Len(w) BY <1>6, <2>1
  <2>3. NdjsonRefused(p, w) BY <1>7, <2>1, <2>2 DEF NdjsonRefused
  <2>. QED BY <1>4, <2>3
<1>10. ~\E k \in 1..Len(v) : v[k] = "joined" BY <1>5, <1>6 DEF NdjsonRefused
<1>11. CASE \E k \in 1..Len(w) : w[k] = "joined"
  <2>1. NdjsonRefused(p, w) BY <1>6, <1>11 DEF NdjsonRefused
  <2>. QED BY <1>4, <2>1
<1>. QED BY <1>2, <1>8, <1>9, <1>10, <1>11

\* A body that was cut never passes for a whole one.
LEMMA EndedBodies ==
  ASSUME bytes \in Seq(Symbols)
  PROVE  EndedIsFinal
<1>1. SUFFICES ASSUME bytes # <<>>, NEW p \in SseProtocols \cup NdjsonProtocols,
                      IsEnded(Decoded(p, Front(bytes)))
               PROVE  Decoded(p, bytes) \in {Decoded(p, Front(bytes)), [terminal |-> "refused"]}
  BY DEF EndedIsFinal
<1>2. PICK L \in Nat : Len(bytes) = L + 1
  <2>1. Len(bytes) \in Nat /\ Len(bytes) # 0 BY <1>1
  <2>2. Len(bytes) - 1 \in Nat /\ Len(bytes) = (Len(bytes) - 1) + 1 BY <2>1
  <2>. QED BY <2>2
<1>3. PICK f : f = Front(bytes) OBVIOUS
<1>4. f = [k \in 1..L |-> bytes[k]]
  <2>1. f = SubSeq(bytes, 1, L) BY <1>2, <1>3 DEF Front
  <2>2. \A k \in 1..L : k \in 1..Len(bytes) BY <1>2
  <2>3. Len(f) = L /\ f \in Seq(Symbols) /\ \A k \in 1..L : f[k] = bytes[k] BY <1>2, <2>1
  <2>. QED BY <2>3
<1>5. \A k \in 1..L : bytes[k] \in Symbols BY <1>2
<1>6. f \in [1..L -> Symbols] BY <1>4, <1>5
<1>7. f \in Seq(Symbols) /\ Len(f) = L BY <1>6
<1>8. Cut(f, bytes) BY <1>2, <1>4, <1>7 DEF Cut
<1>. QED BY <1>1, <1>3, <1>8, SseFinal, NdjsonFinal

-----------------------------------------------------------------------------
(* The time of an event.                                                   *)

Spans == (1..(Len(marks) + 1)) \X (0..Len(marks))

Middle(low, high) == low + ((high - low) \div 2)

IsSearch(f, offset) ==
    f = [span \in Spans |->
            IF span[1] > span[2] THEN span[1]
            ELSE IF marks[Middle(span[1], span[2])] >= offset
                 THEN f[<<span[1], Middle(span[1], span[2]) - 1>>]
                 ELSE f[<<Middle(span[1], span[2]) + 1, span[2]>>]]

LEMMA SearchUnfolds ==
  ASSUME NEW offset
  PROVE  Search(offset) = CHOOSE f : IsSearch(f, offset)
BY DEF Search, IsSearch, Spans, Middle

LEMMA MiddleIn ==
  ASSUME NEW low \in Nat, NEW high \in Nat, low <= high
  PROVE  Middle(low, high) \in low..high
BY DEF Middle

\* The marks are in order, and n is the first of them that covers an offset.
FirstCover(n, offset) ==
    /\ marks \in Seq(Nat) /\ offset \in Nat
    /\ n \in 1..Len(marks)
    /\ \A m \in 1..Len(marks) : marks[m] >= offset <=> m >= n

\* What the search answers from a span on.
Answer(n, low, high) ==
    IF low > high \/ n < low THEN low ELSE IF n > high + 1 THEN high + 1 ELSE n

LEMMA AnswerUnfolds ==
  ASSUME NEW n, NEW offset, FirstCover(n, offset), NEW M \in Nat, M = Len(marks),
         NEW low \in 1..(M + 1), NEW high \in 0..M
  PROVE  Answer(n, low, high) =
            IF low > high THEN low
            ELSE IF marks[Middle(low, high)] >= offset
                 THEN Answer(n, low, Middle(low, high) - 1)
                 ELSE Answer(n, Middle(low, high) + 1, high)
<1>1. CASE low > high BY <1>1 DEF Answer
<1>2. CASE low <= high
  <2>1. PICK middle \in low..high : middle = Middle(low, high)
    <3>1. low \in Nat /\ high \in Nat OBVIOUS
    <3>. QED BY <1>2, <3>1, MiddleIn
  <2>2. middle \in 1..M /\ (marks[middle] >= offset <=> middle >= n) BY <2>1 DEF FirstCover
  <2>3. n \in Nat BY DEF FirstCover
  <2>4. CASE middle >= n
    <3>1. Answer(n, low, high) = IF n < low THEN low ELSE n
      BY <1>2, <2>1, <2>3, <2>4 DEF Answer
    <3>2. Answer(n, low, middle - 1) = IF n < low THEN low ELSE n
      BY <1>2, <2>1, <2>3, <2>4 DEF Answer
    <3>3. ~(low > high) BY <1>2
    <3>. QED BY <2>1, <2>2, <2>4, <3>1, <3>2, <3>3
  <2>5. CASE ~(middle >= n)
    <3>1. Answer(n, low, high) = IF n > high + 1 THEN high + 1 ELSE n
      BY <1>2, <2>1, <2>3, <2>5 DEF Answer
    <3>2. Answer(n, middle + 1, high) = IF n > high + 1 THEN high + 1 ELSE n
      BY <1>2, <2>1, <2>3, <2>5 DEF Answer
    <3>3. ~(low > high) BY <1>2
    <3>. QED BY <2>1, <2>2, <2>5, <3>1, <3>2, <3>3
  <2>. QED BY <2>4, <2>5
<1>. QED BY <1>1, <1>2

LEMMA SearchExists ==
  ASSUME NEW n, NEW offset, FirstCover(n, offset)
  PROVE  IsSearch(Search(offset), offset)
<1>1. PICK M \in Nat : M = Len(marks) BY DEF FirstCover
<1>2. PICK g : g = [span \in Spans |-> Answer(n, span[1], span[2])] OBVIOUS
<1>3. ASSUME NEW low \in 1..(M + 1), NEW high \in 0..M
      PROVE  g[<<low, high>>] = Answer(n, low, high)
  <2>1. <<low, high>> \in Spans BY <1>1 DEF Spans
  <2>. QED BY <1>2, <2>1
<1>4. ASSUME NEW span \in Spans
      PROVE  g[span] = IF span[1] > span[2] THEN span[1]
                       ELSE IF marks[Middle(span[1], span[2])] >= offset
                            THEN g[<<span[1], Middle(span[1], span[2]) - 1>>]
                            ELSE g[<<Middle(span[1], span[2]) + 1, span[2]>>]
  <2>1. PICK low \in 1..(M + 1), high \in 0..M : low = span[1] /\ high = span[2]
    BY <1>1 DEF Spans
  <2>2. g[span] = Answer(n, low, high) BY <1>2, <2>1
  <2>3. CASE low > high
    BY <1>1, <2>1, <2>2, <2>3, AnswerUnfolds
  <2>4. CASE ~(low > high)
    <3>1. PICK middle \in low..high : middle = Middle(low, high)
      <4>1. low \in Nat /\ high \in Nat /\ low <= high BY <2>4
      <4>. QED BY <4>1, MiddleIn
    <3>2. low \in 1..(M + 1) /\ middle - 1 \in 0..M /\ middle + 1 \in 1..(M + 1) /\ high \in 0..M
      BY <3>1
    <3>3. g[<<low, middle - 1>>] = Answer(n, low, middle - 1) BY <1>3, <3>2
    <3>4. g[<<middle + 1, high>>] = Answer(n, middle + 1, high) BY <1>3, <3>2
    <3>5. Answer(n, low, high) =
            IF low > high THEN low
            ELSE IF marks[Middle(low, high)] >= offset
                 THEN Answer(n, low, Middle(low, high) - 1)
                 ELSE Answer(n, Middle(low, high) + 1, high)
      BY <1>1, AnswerUnfolds
    <3>. QED BY <2>1, <2>2, <2>4, <3>1, <3>3, <3>4, <3>5, Zenon
  <2>. QED BY <2>3, <2>4
<1>5. IsSearch(g, offset) BY <1>2, <1>4, Zenon DEF IsSearch
<1>6. \E f : IsSearch(f, offset) BY <1>5
<1>7. IsSearch(CHOOSE f : IsSearch(f, offset), offset) BY <1>6
<1>. QED BY <1>7, SearchUnfolds

\* The search finds the first mark that covers the offset.
LEMMA SearchFinds ==
  ASSUME NEW n, NEW offset, FirstCover(n, offset)
  PROVE  ObservedAt(offset) = n
<1>1. PICK M \in Nat : M = Len(marks) BY DEF FirstCover
<1>2. PICK f : f = Search(offset) OBVIOUS
<1>3. IsSearch(f, offset) BY <1>2, SearchExists
<1>4. n \in 1..M BY <1>1 DEF FirstCover
<1>5. ASSUME NEW low \in 1..(M + 1), NEW high \in 0..M
      PROVE  f[<<low, high>>] =
                IF low > high THEN low
                ELSE IF marks[Middle(low, high)] >= offset
                     THEN f[<<low, Middle(low, high) - 1>>]
                     ELSE f[<<Middle(low, high) + 1, high>>]
  <2>1. PICK span \in Spans : span = <<low, high>> BY <1>1 DEF Spans
  <2>2. span[1] = low /\ span[2] = high BY <2>1
  <2>3. f[span] = IF span[1] > span[2] THEN span[1]
                  ELSE IF marks[Middle(span[1], span[2])] >= offset
                       THEN f[<<span[1], Middle(span[1], span[2]) - 1>>]
                       ELSE f[<<Middle(span[1], span[2]) + 1, span[2]>>]
    BY <1>3, Zenon DEF IsSearch
  <2>. QED BY <2>1, <2>2, <2>3, Zenon
<1>. DEFINE astray == {d \in Nat : \E low \in 1..(M + 1), high \in 0..M :
                          /\ low <= n /\ n <= high + 1
                          /\ d = (high + 1) - low
                          /\ f[<<low, high>>] # n}
<1>6. astray = {}
  <2>1. SUFFICES ASSUME astray # {} PROVE FALSE OBVIOUS
  <2>2. PICK d \in astray : \A e \in astray : d <= e
    <3>1. astray \in SUBSET Nat OBVIOUS
    <3>. HIDE DEF astray
    <3>. QED BY <2>1, <3>1, LeastIn
  <2>3. PICK low \in 1..(M + 1), high \in 0..M :
           /\ low <= n /\ n <= high + 1
           /\ d = (high + 1) - low
           /\ f[<<low, high>>] # n
    OBVIOUS
  <2>4. ASSUME NEW l \in 1..(M + 1), NEW h \in 0..M, l <= n, n <= h + 1,
               (h + 1) - l < (high + 1) - low
        PROVE  f[<<l, h>>] = n
    <3>0. d \in Nat /\ n \in Nat BY <1>4
    <3>1. (h + 1) - l \in Nat BY <2>4, <3>0
    <3>2. ~(d <= (h + 1) - l) BY <2>3, <2>4, <3>0, <3>1
    <3>3. (h + 1) - l \notin astray BY <2>2, <3>2
    <3>. QED BY <2>4, <3>1, <3>3
  <2>5. CASE low > high
    <3>0. n \in Nat /\ low \in Nat /\ high \in Nat BY <1>4
    <3>1. low <= n /\ n <= high + 1 BY <2>3
    <3>2. n = low BY <2>5, <3>0, <3>1
    <3>. QED BY <1>5, <2>3, <2>5, <3>2
  <2>6. CASE ~(low > high)
    <3>1. PICK middle \in low..high : middle = Middle(low, high)
      <4>1. low \in Nat /\ high \in Nat /\ low <= high BY <2>6
      <4>. QED BY <4>1, MiddleIn
    <3>2. middle \in 1..M /\ (marks[middle] >= offset <=> middle >= n)
      BY <1>1, <3>1 DEF FirstCover
    <3>3. CASE middle >= n
      <4>1. f[<<low, high>>] = f[<<low, middle - 1>>] BY <1>5, <2>6, <3>1, <3>2, <3>3
      <4>2. /\ middle - 1 \in 0..M /\ n <= (middle - 1) + 1
            /\ ((middle - 1) + 1) - low < (high + 1) - low
        BY <3>1, <3>2, <3>3
      <4>3. f[<<low, middle - 1>>] = n BY <2>3, <2>4, <4>2
      <4>. QED BY <2>3, <4>1, <4>3
    <3>4. CASE ~(middle >= n)
      <4>1. f[<<low, high>>] = f[<<middle + 1, high>>] BY <1>5, <2>6, <3>1, <3>2, <3>4
      <4>2. /\ middle + 1 \in 1..(M + 1) /\ middle + 1 <= n
            /\ (high + 1) - (middle + 1) < (high + 1) - low
        BY <1>4, <3>1, <3>2, <3>4
      <4>3. f[<<middle + 1, high>>] = n BY <2>3, <2>4, <4>2
      <4>. QED BY <2>3, <4>1, <4>3
    <3>. QED BY <3>3, <3>4
  <2>. QED BY <2>5, <2>6
<1>7. f[<<1, M>>] = n
  <2>1. 1 \in 1..(M + 1) /\ M \in 0..M /\ 1 <= n /\ n <= M + 1 /\ (M + 1) - 1 \in Nat BY <1>4
  <2>. QED BY <1>6, <2>1
<1>. QED BY <1>1, <1>2, <1>7 DEF ObservedAt

\* The marks of a body, and what is remembered of its bytes.
FramingInv ==
    /\ bytes \in Seq(Symbols) /\ marks \in Seq(Nat) /\ seen \in Seq(Nat)
    /\ Len(seen) = Len(bytes)
    /\ \A m \in 1..Len(marks) : marks[m] <= Len(bytes)
    /\ \A k \in 1..Len(bytes) :
          /\ seen[k] \in 1..Len(marks)
          /\ \A m \in 1..Len(marks) : marks[m] >= k <=> m >= seen[k]

LEMMA FramingStarts == FramingInit => FramingInv
BY DEF FramingInit, FramingInv

LEMMA FramingStep == FramingInv /\ [FramingNext]_framingVars => FramingInv'
<1> SUFFICES ASSUME FramingInv, [FramingNext]_framingVars PROVE FramingInv'
  OBVIOUS
<1>1. ASSUME NEW symbol \in Symbols, NEW newChunk \in BOOLEAN, Receive(symbol, newChunk)
      PROVE  FramingInv'
  <2>1. PICK L \in Nat, M \in Nat : L = Len(bytes) /\ M = Len(marks) BY DEF FramingInv
  <2>2. /\ bytes' \in Seq(Symbols) /\ Len(bytes') = L + 1
    BY <1>1, <2>1 DEF Receive, FramingInv
  <2>3. PICK N \in Nat : /\ marks' \in Seq(Nat) /\ N = Len(marks') /\ N >= M /\ N > 0
                         /\ marks'[N] = L + 1
                         /\ \A m \in 1..N : m < N => m <= M /\ marks'[m] = marks[m]
                         /\ N = M \/ N = M + 1
    <3>1. CASE newChunk
      <4>1. marks' = Append(marks, L + 1) BY <1>1, <2>2, <3>1 DEF Receive
      <4>2. /\ marks' \in Seq(Nat) /\ Len(marks') = M + 1 /\ marks'[M + 1] = L + 1
            /\ \A m \in 1..M : marks'[m] = marks[m]
        BY <2>1, <4>1 DEF FramingInv
      <4>3. \A m \in 1..(M + 1) : m < M + 1 => m \in 1..M /\ m <= M OBVIOUS
      <4>4. M + 1 \in Nat /\ M + 1 >= M /\ M + 1 > 0 OBVIOUS
      <4>. QED BY <4>2, <4>3, <4>4
    <3>2. CASE ~newChunk
      <4>1. marks # <<>> /\ marks' = [marks EXCEPT ![M] = L + 1]
        BY <1>1, <2>1, <2>2, <3>2 DEF Receive
      <4>2. M > 0 /\ M \in 1..M BY <2>1, <4>1 DEF FramingInv
      <4>3. /\ marks' \in Seq(Nat) /\ Len(marks') = M /\ marks'[M] = L + 1
            /\ \A m \in 1..M : m < M => marks'[m] = marks[m]
        BY <2>1, <4>1, <4>2 DEF FramingInv
      <4>4. M >= M /\ \A m \in 1..M : m < M => m <= M OBVIOUS
      <4>. QED BY <4>2, <4>3, <4>4
    <3>. QED BY <3>1, <3>2
  <2>4. /\ seen' \in Seq(Nat) /\ Len(seen') = L + 1 /\ seen'[L + 1] = N
        /\ \A k \in 1..L : seen'[k] = seen[k]
    <3>1. seen' = Append(seen, N) BY <1>1, <2>3 DEF Receive
    <3>. QED BY <2>1, <3>1 DEF FramingInv
  <2>5. \A m \in 1..N : marks'[m] <= L + 1
    <3>1. ASSUME NEW m \in 1..N PROVE marks'[m] <= L + 1
      <4>1. CASE m = N BY <2>3, <4>1
      <4>2. CASE m < N
        <5>1. m \in 1..M /\ marks'[m] = marks[m] BY <2>3, <4>2
        <5>2. marks[m] <= L /\ marks[m] \in Nat BY <2>1, <5>1 DEF FramingInv
        <5>. QED BY <5>1, <5>2
      <4>. QED BY <4>1, <4>2
    <3>. QED BY <3>1
  <2>6. ASSUME NEW k \in 1..(L + 1)
        PROVE  /\ seen'[k] \in 1..N
               /\ \A m \in 1..N : marks'[m] >= k <=> m >= seen'[k]
    <3>1. CASE k = L + 1
      <4>1. seen'[k] = N /\ N \in 1..N BY <2>3, <2>4, <3>1
      <4>2. ASSUME NEW m \in 1..N PROVE marks'[m] >= k <=> m >= N
        <5>1. CASE m = N
          <6>1. marks'[m] = k BY <2>3, <3>1, <5>1
          <6>. QED BY <3>1, <5>1, <6>1
        <5>2. CASE m < N
          <6>1. m \in 1..M /\ marks'[m] = marks[m] BY <2>3, <5>2
          <6>2. marks[m] <= L /\ marks[m] \in Nat BY <2>1, <6>1 DEF FramingInv
          <6>. QED BY <3>1, <5>2, <6>1, <6>2
        <5>. QED BY <5>1, <5>2
      <4>. QED BY <4>1, <4>2
    <3>2. CASE k \in 1..L
      <4>1. /\ seen'[k] = seen[k] /\ seen[k] \in 1..M
            /\ \A m \in 1..M : marks[m] >= k <=> m >= seen[k]
        BY <2>1, <2>4, <3>2 DEF FramingInv
      <4>2. ASSUME NEW m \in 1..N PROVE marks'[m] >= k <=> m >= seen[k]
        <5>1. CASE m = N
          <6>1. marks'[m] = L + 1 /\ L + 1 >= k /\ m >= seen[k] BY <2>3, <3>2, <4>1, <5>1
          <6>. QED BY <6>1
        <5>2. CASE m < N
          <6>1. m \in 1..M /\ marks'[m] = marks[m] BY <2>3, <5>2
          <6>. QED BY <4>1, <6>1
        <5>. QED BY <5>1, <5>2
      <4>3. seen[k] \in 1..N BY <2>3, <4>1
      <4>. QED BY <4>1, <4>2, <4>3
    <3>. QED BY <3>1, <3>2
  <2>. QED BY <2>2, <2>3, <2>4, <2>5, <2>6 DEF FramingInv
<1>2. CASE UNCHANGED framingVars BY <1>2 DEF framingVars, FramingInv
<1>. QED BY <1>1, <1>2 DEF FramingNext

\* Events whose ends are in order have the times of their last bytes.
LEMMA EventsTimed ==
  ASSUME FramingInv, NEW size \in Nat, NEW events, DOMAIN events = 1..size,
         \A n \in 1..size : events[n].end \in 1..Len(bytes),
         \A m, n \in 1..size : m < n => events[m].end <= events[n].end
  PROVE  \A n \in DOMAIN events :
            /\ ObservedAt(events[n].end) = seen[events[n].end]
            /\ n > 1 => ObservedAt(events[n - 1].end) <= ObservedAt(events[n].end)
<1>1. ASSUME NEW k \in 1..Len(bytes) PROVE ObservedAt(k) = seen[k]
  <2>1. FirstCover(seen[k], k) BY DEF FirstCover, FramingInv
  <2>. QED BY <2>1, SearchFinds
<1>2. ASSUME NEW j \in 1..Len(bytes), NEW k \in 1..Len(bytes), j <= k
      PROVE  seen[j] <= seen[k]
  <2>1. PICK m \in 1..Len(marks) : m = seen[k] BY DEF FramingInv
  <2>2. marks[m] \in Nat /\ marks[m] >= k
    <3>1. m >= m OBVIOUS
    <3>. QED BY <2>1, <3>1 DEF FramingInv
  <2>3. marks[m] >= j BY <1>2, <2>2
  <2>4. m >= seen[j] /\ seen[j] \in Nat BY <2>3 DEF FramingInv
  <2>. QED BY <2>1, <2>4
<1>3. ASSUME NEW n \in 1..size
      PROVE  /\ ObservedAt(events[n].end) = seen[events[n].end]
             /\ n > 1 => ObservedAt(events[n - 1].end) <= ObservedAt(events[n].end)
  <2>1. ObservedAt(events[n].end) = seen[events[n].end] BY <1>1
  <2>2. ASSUME n > 1 PROVE ObservedAt(events[n - 1].end) <= ObservedAt(events[n].end)
    <3>1. PICK m \in 1..size : m = n - 1 /\ m < n BY <2>2
    <3>2. PICK j, k : j = events[m].end /\ k = events[n].end OBVIOUS
    <3>3. j \in 1..Len(bytes) /\ k \in 1..Len(bytes) /\ j <= k BY <3>1, <3>2
    <3>4. ObservedAt(j) = seen[j] /\ ObservedAt(k) = seen[k] /\ seen[j] <= seen[k]
      BY <1>1, <1>2, <3>3
    <3>. QED BY <3>1, <3>2, <3>4
  <2>. QED BY <2>1, <2>2
<1>. QED BY <1>3

\* The dispatched events follow one another.
LEMMA SseEventsIn ==
  ASSUME NEW L \in Nat, NEW b \in Seq(Symbols), L = Len(b), NEW events, events = SseEvents(b)
  PROVE  \E size \in Nat :
            /\ DOMAIN events = 1..size
            /\ \A n \in 1..size : events[n].end \in 1..L
            /\ \A m, n \in 1..size : m < n => events[m].end <= events[n].end
<1>1. PICK S : S = Dispatches(b) OBVIOUS
<1>2. S \subseteq 1..L /\ S \in SUBSET Nat /\ IsFiniteSet(S) BY <1>1, DispatchesIn
<1>3. PICK at : at = Ordered(S) OBVIOUS
<1>4. PICK size \in Nat : size = Cardinality(S) BY <1>2, FS_CardinalityType
<1>5. /\ DOMAIN at = 1..size
      /\ \A n \in 1..size : at[n] \in S
      /\ \A m, n \in 1..size : m < n => at[m] < at[n]
  BY <1>2, <1>3, <1>4, OrderedIn
<1>6. \A n \in 1..size : events[n].end = BreakEnd(b, at[n]) BY <1>1, <1>3, <1>5 DEF SseEvents
<1>7. DOMAIN events = 1..size BY <1>1, <1>3, <1>5 DEF SseEvents
<1>8. ASSUME NEW n \in 1..size PROVE events[n].end \in 1..L
  <2>1. PICK i \in 1..L : i = at[n] BY <1>2, <1>5
  <2>2. BreakEnd(b, i) \in Nat /\ i <= BreakEnd(b, i) /\ BreakEnd(b, i) <= L BY BreakEndIn
  <2>3. BreakEnd(b, i) \in 1..L BY <2>2
  <2>. QED BY <1>6, <2>1, <2>3
<1>9. ASSUME NEW m \in 1..size, NEW n \in 1..size, m < n
      PROVE  events[m].end <= events[n].end
  <2>1. PICK i \in 1..L, j \in 1..L : i = at[m] /\ j = at[n] /\ i < j BY <1>2, <1>5, <1>9
  <2>2. BreakEnd(b, i) \in Nat /\ BreakEnd(b, i) <= i + 1 BY BreakEndIn
  <2>3. BreakEnd(b, j) \in Nat /\ j <= BreakEnd(b, j) BY BreakEndIn
  <2>4. BreakEnd(b, i) <= BreakEnd(b, j) BY <2>1, <2>2, <2>3
  <2>. QED BY <1>6, <2>1, <2>4
<1>. QED BY <1>7, <1>8, <1>9

\* And so do the items.
LEMMA NdjsonItemsIn ==
  ASSUME NEW L \in Nat, NEW b \in Seq(Symbols), L = Len(b), NEW events, events = NdjsonItems(b)
  PROVE  \E size \in Nat :
            /\ DOMAIN events = 1..size
            /\ \A n \in 1..size : events[n].end \in 1..L
            /\ \A m, n \in 1..size : m < n => events[m].end <= events[n].end
<1>1. PICK S : S = NdjsonEnds(b) OBVIOUS
<1>2. S \subseteq 1..L /\ S \in SUBSET Nat /\ IsFiniteSet(S) BY <1>1, NdjsonEndsIn
<1>3. PICK at : at = Ordered(S) OBVIOUS
<1>4. PICK size \in Nat : size = Cardinality(S) BY <1>2, FS_CardinalityType
<1>5. /\ DOMAIN at = 1..size
      /\ \A n \in 1..size : at[n] \in S
      /\ \A m, n \in 1..size : m < n => at[m] < at[n]
  BY <1>2, <1>3, <1>4, OrderedIn
<1>6. DOMAIN events = 1..size /\ \A n \in 1..size : events[n].end = at[n]
  BY <1>1, <1>3, <1>5 DEF NdjsonItems
<1>7. \A n \in 1..size : events[n].end \in 1..L BY <1>2, <1>5, <1>6
<1>8. ASSUME NEW m \in 1..size, NEW n \in 1..size, m < n
      PROVE  events[m].end <= events[n].end
  <2>1. PICK i \in 1..L, j \in 1..L : i = at[m] /\ j = at[n] /\ i < j BY <1>2, <1>5, <1>8
  <2>2. i <= j BY <2>1
  <2>. QED BY <1>6, <2>1, <2>2
<1>. QED BY <1>6, <1>7, <1>8

\* However the body came in chunks, an event has the time of its last byte.
LEMMA EventsSeen == FramingInv => SeenWhenArrived
<1>1. SUFFICES ASSUME FramingInv, NEW events \in {SseEvents(bytes), NdjsonItems(bytes)}
               PROVE  LET at == [n \in DOMAIN events |-> ObservedAt(events[n].end)]
                      IN  \A n \in DOMAIN events :
                             /\ at[n] = seen[events[n].end]
                             /\ n > 1 => at[n - 1] <= at[n]
  BY DEF SeenWhenArrived
<1>2. PICK L \in Nat : L = Len(bytes) /\ bytes \in Seq(Symbols) BY <1>1 DEF FramingInv
<1>3. PICK size \in Nat :
         /\ DOMAIN events = 1..size
         /\ \A n \in 1..size : events[n].end \in 1..L
         /\ \A m, n \in 1..size : m < n => events[m].end <= events[n].end
  BY <1>2, SseEventsIn, NdjsonItemsIn
<1>4. \A n \in DOMAIN events :
         /\ ObservedAt(events[n].end) = seen[events[n].end]
         /\ n > 1 => ObservedAt(events[n - 1].end) <= ObservedAt(events[n].end)
  BY <1>1, <1>2, <1>3, EventsTimed
<1>5. ASSUME NEW n \in DOMAIN events, n > 1 PROVE n - 1 \in DOMAIN events BY <1>3, <1>5
<1>. QED BY <1>4, <1>5

\* Whatever the bytes and the chunks of a body, what its decoder reports stands: no
\* byte that follows an ending reported by the provider makes it another one, and
\* every event has the time at which it was whole (parseBoundedJsonSse and
\* parseBoundedNdjsonStream, src/runtime/sse.ts and ndjson.ts).
THEOREM DecodersStand == FramingSpec => []ReportStands
<1>1. FramingInv => ReportStands
  <2>1. FramingInv => bytes \in Seq(Symbols) BY DEF FramingInv
  <2>. QED BY <2>1, EndedBodies, EventsSeen DEF ReportStands
<1>. QED BY <1>1, FramingStarts, FramingStep, PTL DEF FramingSpec

=============================================================================
