---------------------------- MODULE AttemptTimes -----------------------------
(***************************************************************************)
(* The times that a collected trace is made of: the observation records of *)
(* src/runtime/shadow.ts and the trace contract of src/evidence.ts that    *)
(* they have to meet.                                                      *)
(*                                                                         *)
(* Several executions work on one job of a run directory, at once or one   *)
(* after the other; one that crashes goes no further.  Each reads a wall   *)
(* clock that never steps back while it runs (MonotonicWallClock), but     *)
(* nothing makes the clocks of two of them agree.  Every record one of     *)
(* them writes is checked against the contract by all of them.             *)
(*                                                                         *)
(* ShadowRunner has one clock, every read of the directory and the run's   *)
(* admission; here reads that follow each other are one step and the       *)
(* admitted deadline is a constant.                                        *)
(***************************************************************************)
EXTENDS Integers, SequencesExt

CONSTANTS
    Collectors,       \* executions of the run
    MaximumAttempts,  \* protocol.shadowCollection.maximumAttempts
    AttemptLimit,     \* protocol.shadowCollection.attemptTimeoutMs
    RunDeadline,      \* runDeadlineAtMs
    CollectionEnd,    \* protocol.expiresAt
    WireShapes,       \* wire and stream timing: offsets from the wire's start
    Null,             \* null
    LastInstant       \* bound of the wall clocks

\* The records of an attempt.
Leases == [issued : Nat, expires : Nat]

Outcomes ==
    [started : Nat, headers : Nat \cup {Null}, firstByte : Nat \cup {Null},
     meaningful : Nat \cup {Null}, completed : Nat,
     dispatch : {"not_sent", "sent_unknown", "completed"},
     status : {"success", "failure", "aborted"},
     category : {"transient", "lasting", Null},
     abort : {"not-aborted", "abort-requested", "abort-confirmed", "abort-ambiguous"}]

ASSUME AttemptTimesAssumption ==
    /\ {MaximumAttempts, AttemptLimit} \subseteq Nat \ {0}
    /\ {RunDeadline, CollectionEnd, LastInstant} \subseteq Nat
    /\ RunDeadline <= CollectionEnd
    /\ WireShapes \subseteq [headers : Nat \cup {Null}, firstByte : Nat \cup {Null},
                           meaningful : Nat \cup {Null}, wireCompleted : Nat]

\* Null is none of the values it stands in for.
ASSUME AbsenceAssumption ==
    Null \notin Int \cup {"transient", "lasting"} \cup Leases \cup Outcomes

VARIABLES
    together,  \* whether the clocks agree; chosen once
    wall,      \* wall[c]: Date.now() where c runs
    intentAt,  \* dispatchIntent.issuedAt
    leaseOf,   \* leaseOf[n]: the send lease of attempt n
    outcomeOf, \* outcomeOf[n]: its outcome record
    gathered,  \* the accepted trace
    process    \* process[c]: where c stands

timesVars == <<together, wall, intentAt, leaseOf, outcomeOf, gathered, process>>
recordVars == <<intentAt, leaseOf, outcomeOf, gathered>>

Tries == 1 .. MaximumAttempts
Later(a, b) == IF a >= b THEN a ELSE b
Earlier(a, b) == IF a <= b THEN a ELSE b

Unstarted == [at |-> "open", n |-> 1, prior |-> <<>>, own |-> Null, aborted |-> FALSE]

TimesInit ==
    /\ together \in BOOLEAN
    /\ wall = [c \in Collectors |-> 0]
    /\ intentAt = Null
    /\ leaseOf = [n \in Tries |-> Null]
    /\ outcomeOf = [n \in Tries |-> Null]
    /\ gathered = Null
    /\ process = [c \in Collectors |-> Unstarted]

-----------------------------------------------------------------------------
(* The contract of a trace.                                                *)

\* The timings of an attempt, in the order of the wire.
Timeline(attempt) == <<attempt.started, attempt.headers, attempt.firstByte,
                       attempt.meaningful, attempt.completed>>

\* Those that were observed ascend.
Ascending(times) ==
    \A j \in DOMAIN times : \A i \in 1 .. j - 1 :
        times[i] # Null /\ times[j] # Null => times[i] <= times[j]

\* assertAttemptSemantics
AttemptHolds(attempt) ==
    /\ Ascending(Timeline(attempt))
    /\ attempt.status = "success" =>
          /\ attempt.dispatch = "completed" /\ attempt.category = Null
          /\ attempt.abort = "not-aborted"
    /\ attempt.status # "success" => attempt.category # Null
    /\ attempt.status = "aborted" => attempt.abort # "not-aborted"

\* Faulty variant of AttemptsHold: the intent must be earlier than the first
\* attempt.
AttemptsHoldStrictly(intended, attempts) ==
    /\ intended < attempts[1].started
    /\ \A i \in DOMAIN attempts : AttemptHolds(attempts[i])

\* assertTraceSemantics
AttemptsHold(intended, attempts) ==
    /\ intended <= attempts[1].started
    /\ \A i \in DOMAIN attempts : AttemptHolds(attempts[i])
    /\ \A i \in 2 .. Len(attempts) :
          attempts[i - 1].completed <= attempts[i].started
    /\ \A i \in 1 .. Len(attempts) - 1 : attempts[i].status # "success"

RetrySafe(attempt) ==
    /\ attempt.dispatch = "not_sent" /\ attempt.status = "failure"
    /\ attempt.abort = "not-aborted"
    /\ attempt.category = "transient"

\* assertTraceAttemptLineage, the identities aside
LineageHolds(attempts) == \A i \in 1 .. Len(attempts) - 1 : RetrySafe(attempts[i])

\* validateOutcomeRecord
OutcomeHolds(intended, prior, attempt) ==
    LET attempts == Append(prior, attempt)
    IN  AttemptsHold(intended, attempts) /\ LineageHolds(attempts)

\* verifyTraceDispatchIntent, the signatures aside, and parseAcceptedRecord.
\* The protocol's validity begins at 0.
TraceHolds(intended, attempts, collected) ==
    /\ Len(attempts) <= MaximumAttempts
    /\ intended < CollectionEnd
    /\ AttemptsHold(intended, attempts) /\ LineageHolds(attempts)
    /\ Last(attempts).completed <= collected
    /\ collected < CollectionEnd

\* validateLeaseRecord
LeaseHolds(lease) ==
    /\ lease.issued < lease.expires
    /\ lease.expires - lease.issued <= AttemptLimit
    /\ lease.expires <= RunDeadline

LastCompletion(attempts) == IF attempts = <<>> THEN -1 ELSE Last(attempts).completed

-----------------------------------------------------------------------------
(* Observations.                                                           *)

\* syntheticOutcome.  Of the failure categories, "transport" and "timeout" are
\* transient; the others are told apart by nothing here.
Synthetic(started, now, dispatch, category, aborted) ==
    [started |-> started, headers |-> Null, firstByte |-> Null,
     meaningful |-> Null, completed |-> Later(started, now),
     dispatch |-> dispatch, status |-> IF aborted THEN "aborted" ELSE "failure",
     category |-> category,
     abort |-> IF ~aborted THEN "not-aborted"
               ELSE IF dispatch = "not_sent" THEN "abort-confirmed"
               ELSE "abort-ambiguous"]

Observed(shape, start, mark) ==
    IF shape[mark] = Null THEN Null ELSE start + shape[mark]

\* What the runtime may say of a call, and what abortLifecycleFromPersistence
\* and the failure category make of it.
Answers ==
    {[dispatch |-> "not_sent", status |-> "failure", abort |-> "not-aborted",
      category |-> "transient"],
     [dispatch |-> "not_sent", status |-> "aborted", abort |-> "abort-confirmed",
      category |-> "lasting"],
     [dispatch |-> "sent_unknown", status |-> "failure", abort |-> "not-aborted",
      category |-> "lasting"],
     [dispatch |-> "completed", status |-> "success", abort |-> "not-aborted",
      category |-> Null],
     [dispatch |-> "completed", status |-> "failure", abort |-> "not-aborted",
      category |-> "lasting"]}

CompletionExpired(lease, completed) ==
    completed >= RunDeadline \/ completed >= lease.expires

\* observerTimingsFromPersistence: whether the timing can be accepted.
WireHolds(lease, start, shape) ==
    /\ lease.issued <= start /\ start < lease.expires
    /\ (shape.firstByte # Null /\ shape.headers # Null)
          => shape.headers <= shape.firstByte
    /\ shape.meaningful # Null
          => shape.firstByte # Null /\ shape.firstByte <= shape.meaningful
    /\ \A mark \in {"headers", "firstByte", "meaningful"} :
          shape[mark] # Null => shape[mark] <= shape.wireCompleted

\* outcomeFromRuntime
FromRuntime(lease, answer, start, shape, now) ==
    LET wired == shape # Null
        completed == IF wired THEN Later(start + shape.wireCompleted, now)
                              ELSE Later(lease.issued, now)
        late == CompletionExpired(lease, completed)
        seen(mark) == IF wired THEN Observed(shape, start, mark) ELSE Null
    IN  [started |-> lease.issued, headers |-> seen("headers"),
         firstByte |-> seen("firstByte"), meaningful |-> seen("meaningful"),
         completed |-> completed, dispatch |-> answer.dispatch,
         status |-> IF late THEN "aborted" ELSE answer.status,
         category |-> IF late THEN "transient" ELSE answer.category,
         abort |-> IF late THEN "abort-ambiguous" ELSE answer.abort]

-----------------------------------------------------------------------------
(* One execution of a job.                                                 *)

Stands(c, point) == process[c].at = point
Now(c) == wall[c]
Go(c, point) == process' = [process EXCEPT ![c].at = point]

\* The job is finished for c; what it held in memory is gone.
Stop(c, point) == process' = [process EXCEPT ![c] = [Unstarted EXCEPT !.at = point]]

\* Clocks that agree advance in one step.
WallAdvances ==
    /\ \E c \in Collectors :
          /\ wall[c] < LastInstant
          /\ wall' = IF together THEN [d \in Collectors |-> wall[c] + 1]
                                 ELSE [wall EXCEPT ![c] = @ + 1]
    /\ UNCHANGED <<together, recordVars, process>>

\* The caller, the run's own timer or the failure of another job, where
\* signalAborted is read next.
Cancel(c) ==
    /\ process[c].at \in {"outcome", "prepare", "turn", "inflight", "persist"}
    /\ ~process[c].aborted
    /\ process' = [process EXCEPT ![c].aborted = TRUE]
    /\ UNCHANGED <<together, wall, recordVars>>

\* loadAccepted, and loadOrCreateIntent up to its write.  An intent is issued at
\* the time that is read here.
OpenJob(c) ==
    /\ Stands(c, "open")
    /\ IF gathered # Null THEN Stop(c, "gathered")
       ELSE IF intentAt # Null THEN Go(c, "outcome")
       ELSE IF Now(c) >= RunDeadline THEN Stop(c, "pending")
       ELSE process' = [process EXCEPT ![c].at = "intent", ![c].own = Now(c)]
    /\ UNCHANGED <<together, wall, recordVars>>

WriteIntent(c) ==
    /\ Stands(c, "intent")
    /\ intentAt' = IF intentAt = Null THEN process[c].own ELSE intentAt
    /\ process' = [process EXCEPT ![c].at = "outcome", ![c].own = Null]
    /\ UNCHANGED <<together, wall, leaseOf, outcomeOf, gathered>>

\* Go on to persist an outcome of the attempt.
Propose(c, outcome) ==
    process' = [process EXCEPT ![c].at = "persist", ![c].own = outcome]

\* outcomeIsTerminal, and the next attempt if it is not.
AfterOutcome(c, outcome) ==
    LET attempts == Append(process[c].prior, outcome)
        retry == /\ RetrySafe(outcome) /\ process[c].n < MaximumAttempts
                 /\ ~process[c].aborted /\ Now(c) < RunDeadline
    IN  process' = [process EXCEPT ![c].prior = attempts, ![c].own = Null,
                        ![c].n = IF retry THEN @ + 1 ELSE @,
                        ![c].at = IF retry THEN "outcome" ELSE "gather"]

\* A lease of another execution: wait for it to expire, then record that its
\* request may have been sent.
Defer(c, lease) ==
    IF ~LeaseHolds(lease) THEN Stop(c, "failed")
    ELSE IF Now(c) < lease.expires THEN Stop(c, "pending")
    ELSE Propose(c, Synthetic(lease.issued, Now(c), "sent_unknown", "lasting", FALSE))

\* The outcome of the attempt, or else its lease, or else the beginning of it.
OpenAttempt(c) ==
    /\ Stands(c, "outcome")
    /\ LET n == process[c].n
           start == Later(Now(c), LastCompletion(process[c].prior))
           aborted == process[c].aborted
       IN  IF outcomeOf[n] # Null
           THEN IF OutcomeHolds(intentAt, process[c].prior, outcomeOf[n])
                THEN AfterOutcome(c, outcomeOf[n])
                ELSE Stop(c, "failed")
           ELSE IF leaseOf[n] # Null THEN Defer(c, leaseOf[n])
           ELSE IF aborted \/ start >= RunDeadline
           THEN Propose(c, Synthetic(start, start, "not_sent",
                               IF aborted THEN "lasting" ELSE "transient", aborted))
           ELSE process' = [process EXCEPT ![c].at = "prepare", ![c].own =
                    [issued |-> start, expires |-> Earlier(RunDeadline, start + AttemptLimit)]]
    /\ UNCHANGED <<together, wall, recordVars>>

\* prepareInvocation fails, perhaps because its deadline is over already:
\* notSentOutcomeForPrepareFailure.
PrepareFails(c) ==
    /\ Stands(c, "prepare")
    /\ \E category \in {"transient", "lasting"} :
          Propose(c, Synthetic(process[c].own.issued, Now(c), "not_sent",
                               category, process[c].aborted))
    /\ UNCHANGED <<together, wall, recordVars>>

\* persistLease up to its write: the lease is issued at a later reading of the
\* clock than the attempt began at.
IssueLease(c) ==
    /\ Stands(c, "prepare")
    /\ LET own == process[c].own
           issued == Later(Now(c), own.issued)
       IN  IF issued >= own.expires
           THEN Propose(c, Synthetic(own.issued, Now(c), "not_sent", "transient", FALSE))
           ELSE process' = [process EXCEPT ![c].at = "lease", ![c].own.issued = issued]
    /\ UNCHANGED <<together, wall, recordVars>>

\* The lease that is found durable decides.
WriteLease(c) ==
    /\ Stands(c, "lease")
    /\ LET n == process[c].n
       IN  IF leaseOf[n] = Null
           THEN /\ leaseOf' = [leaseOf EXCEPT ![n] = process[c].own]
                /\ IF LeaseHolds(process[c].own) THEN Go(c, "turn") ELSE Stop(c, "failed")
           ELSE Defer(c, leaseOf[n]) /\ UNCHANGED leaseOf
    /\ UNCHANGED <<together, wall, intentAt, outcomeOf, gathered>>

\* beginDispatch.  From now on the process remembers when the call began.
Dispatch(c) ==
    /\ Stands(c, "turn")
    /\ LET lease == leaseOf[process[c].n]
           aborted == process[c].aborted
       IN  IF aborted \/ Now(c) >= lease.expires
           THEN Propose(c, Synthetic(lease.issued, Now(c), "not_sent",
                               IF aborted THEN "lasting" ELSE "transient", aborted))
           ELSE process' = [process EXCEPT ![c].at = "inflight", ![c].own = Now(c)]
    /\ UNCHANGED <<together, wall, recordVars>>

\* The runtime answers before anything gives the call up.  A timing that does
\* not fit makes the answer worthless.
Answer(c) ==
    /\ Stands(c, "inflight") /\ ~process[c].aborted
    /\ LET lease == leaseOf[process[c].n] IN
       \E answer \in Answers, shape \in WireShapes \cup {Null},
          start \in process[c].own .. Now(c) :
          /\ answer.dispatch = "not_sent" => shape = Null
          /\ answer.dispatch = "completed" => shape # Null
          /\ shape # Null => start + shape.wireCompleted <= Now(c)
          /\ Propose(c,
                IF shape # Null /\ ~WireHolds(lease, start, shape)
                THEN Synthetic(lease.issued, Now(c), "sent_unknown", "lasting", FALSE)
                ELSE FromRuntime(lease, answer, start, shape, Now(c)))
    /\ UNCHANGED <<together, wall, recordVars>>

\* The runtime throws: a RuntimeInvocationInputError says that nothing was sent.
CallFails(c) ==
    /\ Stands(c, "inflight") /\ ~process[c].aborted
    /\ LET failed(dispatch, category) ==
               Propose(c, Synthetic(leaseOf[process[c].n].issued, Now(c), dispatch,
                                    category, FALSE))
       IN  \/ failed("not_sent", "transient") \/ failed("not_sent", "lasting")
           \/ failed("sent_unknown", "lasting")
    /\ UNCHANGED <<together, wall, recordVars>>

\* awaitDispatchSettlement: the run is cancelled or the lease is over.
GiveUp(c) ==
    /\ Stands(c, "inflight")
    /\ LET lease == leaseOf[process[c].n] IN
       /\ process[c].aborted \/ Now(c) >= lease.expires
       /\ Propose(c, Synthetic(lease.issued, Now(c), "sent_unknown",
                          IF process[c].aborted THEN "lasting" ELSE "transient", TRUE))
    /\ UNCHANGED <<together, wall, recordVars>>

\* persistOutcome: what is intended and what is found are both validated.
PersistOutcome(c) ==
    /\ Stands(c, "persist")
    /\ LET n == process[c].n
           winner == IF outcomeOf[n] = Null THEN process[c].own ELSE outcomeOf[n]
           holds(outcome) == OutcomeHolds(intentAt, process[c].prior, outcome)
       IN  IF ~holds(process[c].own)
           THEN Stop(c, "failed") /\ UNCHANGED outcomeOf
           ELSE /\ outcomeOf' = [outcomeOf EXCEPT ![n] = winner]
                /\ IF holds(winner) THEN AfterOutcome(c, winner) ELSE Stop(c, "failed")
    /\ UNCHANGED <<together, wall, intentAt, leaseOf, gathered>>

\* attestCollectedTrace and persistAcceptedAndComplete.
Gather(c) ==
    /\ Stands(c, "gather")
    /\ LET attempts == process[c].prior
           collected == Later(Now(c), Last(attempts).completed)
           own == [attempts |-> attempts, collected |-> collected]
       IN  IF ~TraceHolds(intentAt, attempts, collected)
           THEN Stop(c, "failed") /\ UNCHANGED gathered
           ELSE /\ gathered' = IF gathered = Null THEN own ELSE gathered
                /\ Stop(c, "gathered")
    /\ UNCHANGED <<together, wall, intentAt, leaseOf, outcomeOf>>

TimesNext ==
    \/ WallAdvances
    \/ \E c \in Collectors :
          \/ Cancel(c) \/ OpenJob(c) \/ WriteIntent(c) \/ OpenAttempt(c)
          \/ PrepareFails(c) \/ IssueLease(c) \/ WriteLease(c) \/ Dispatch(c)
          \/ Answer(c) \/ CallFails(c) \/ GiveUp(c) \/ PersistOutcome(c) \/ Gather(c)

TimesSpec == TimesInit /\ [][TimesNext]_timesVars

-----------------------------------------------------------------------------
(* Properties.                                                             *)

\* docs/design.md, on resume: "an expired lease without outcome becomes
\* `sent_unknown`".  The record of that can be written.
ExpiredLeaseSettles ==
    \A n \in Tries :
        (leaseOf[n] # Null /\ \A m \in 1 .. n - 1 : outcomeOf[m] # Null)
            => OutcomeHolds(intentAt, SubSeq(outcomeOf, 1, n - 1),
                   Synthetic(leaseOf[n].issued, leaseOf[n].expires,
                             "sent_unknown", "lasting", FALSE))

\* As long as the clocks of all executions agree, what they build passes every
\* check they make of it, whoever reads it back and however late the answers are:
\* a job fails only if it is gathered after the protocol's end.
OnlyLateCollectionFails ==
    [][\A c \in Collectors :
          (together /\ Stands(c, "failed")' /\ ~Stands(c, "failed"))
              => Stands(c, "gather") /\ Now(c) >= CollectionEnd]_timesVars

=============================================================================
