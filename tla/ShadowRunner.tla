---------------------------- MODULE ShadowRunner -----------------------------
(***************************************************************************)
(* The shadow collection runner, src/runtime/shadow.ts.                    *)
(*                                                                         *)
(* A runner (one call of executeShadowCollection) collects every job of a  *)
(* plan into a directory of immutable records that any number of runner    *)
(* processes may share and that survives a crash.  Each action below is    *)
(* the code between two awaits: one read or write of the directory, or one *)
(* event of the runner's event loop.  Records are written by an atomic     *)
(* "create unless present" (writeArtifactPacketOrVerifyIdentical), and the *)
(* record found at the target, not the one intended, is what the runner    *)
(* goes on with (persistRecord).                                           *)
(*                                                                         *)
(* The order in which the jobs of one runner may first dispatch            *)
(* (StableDispatchOrder, lanes, maxConcurrency) is left to DispatchOrder:  *)
(* here a job that holds its lease begins its dispatch at any later time.  *)
(***************************************************************************)
EXTENDS ShadowJournal

CONSTANTS
    AttemptTimeout,  \* protocol.shadowCollection.attemptTimeoutMs
    MaxWallClock,    \* plan.workBudget.maxWallClockMs
    AuthorityEnd,    \* earliest end of protocol, plan and window validity
    ProtocolExpiry   \* protocol.expiresAt

ASSUME TimeAssumption ==
    /\ AttemptTimeout \in Nat \ {0}
    /\ MaxWallClock \in Nat \ {0}
    /\ AuthorityEnd \in Nat
    /\ ProtocolExpiry \in Nat
    /\ AuthorityEnd <= ProtocolExpiry
    /\ ProtocolExpiry <= MaxClock

\* An absent admission is told from any deadline.
ASSUME AdmissionAssumption == None \notin Instants

VARIABLES
    clock,       \* wall clock the runners share, bounded by MaxClock
    admission,   \* durable run deadline, or None
    wire,        \* wire[j][n]: the request of attempt n, seen by the endpoint
    dispatched,  \* dispatched[j][n]: calls of dispatchInvocation
    runner,      \* runner[r]: one execution and its cancellation signal
    worker       \* worker[r][j]: where processJob of r stands for job j

runtimeVars == <<clock, admission, wire, dispatched, runner, worker>>
vars == <<intent, lease, outcome, accepted, complete,
          clock, admission, wire, dispatched, runner, worker>>

-----------------------------------------------------------------------------
(* Outcomes the runner can record (syntheticOutcome, outcomeFromRuntime).  *)

NotSent(aborted, category) ==
    [dispatch |-> "not_sent",
     status   |-> IF aborted THEN "aborted" ELSE "failure",
     category |-> category]

SentUnknown(aborted) ==
    [dispatch |-> "sent_unknown",
     status   |-> IF aborted THEN "aborted" ELSE "failure",
     category |-> "other"]

\* The runtime reports that nothing was sent.  `late' is completionExpired,
\* which turns every result into an abort with category timeout; an abort
\* before dispatch is reported as cancelled or as timeout.
RuntimeNotSent(late) ==
    {NotSent(TRUE, "retrySafe")} \cup
    (IF late THEN {}
     ELSE {NotSent(TRUE, "other"), NotSent(FALSE, "retrySafe"),
           NotSent(FALSE, "other")})

\* The response was read to its end: a success, an incomplete or invalid
\* response, or one past the deadline.
RuntimeCompleted(late) ==
    {[dispatch |-> "completed", status |-> "aborted", category |-> "other"]} \cup
    (IF late THEN {}
     ELSE {[dispatch |-> "completed", status |-> "success", category |-> "none"],
           [dispatch |-> "completed", status |-> "failure", category |-> "other"]})

-----------------------------------------------------------------------------
(* State.                                                                  *)

Phases == {"down", "admit", "jobs"}

Steps == {"idle", "begin", "orphan", "intent", "writeIntent", "outcome",
          "lease", "prepare", "writeLease", "turn", "inflight", "persist",
          "accept", "finish", "done", "pending", "failed", "orphaned"}

\* The job is finished, for better or worse, in this execution.
Settled == {"done", "pending", "failed", "orphaned"}

WorkerStates ==
    [pc      : Steps,
     n       : Attempts,                  \* attemptNumber
     seen    : Seq(Outcomes),             \* attempts, then the accepted trace
     cand    : Outcomes \cup {None},      \* outcome about to be persisted
     expires : Instants]                  \* dispatchExpiresAtMs, until written

RunnerStates ==
    [phase    : Phases,
     deadline : Instants,                 \* runDeadlineAtMs
     timer    : Instants,                 \* when RunCancellation fires
     aborted  : BOOLEAN]                  \* signalAborted(run.signal)

IdleWorker ==
    [pc |-> "idle", n |-> 1, seen |-> <<>>, cand |-> None, expires |-> 0]

DownRunner ==
    [phase |-> "down", deadline |-> 0, timer |-> 0, aborted |-> FALSE]

WireStates == {"none", "open", "sent", "closed"}

TypeOK ==
    /\ JournalTypeOK
    /\ clock \in Instants
    /\ admission \in Instants \cup {None}
    /\ wire \in [Jobs -> [Attempts -> WireStates]]
    /\ dispatched \in [Jobs -> [Attempts -> Nat]]
    /\ runner \in [Runners -> RunnerStates]
    /\ worker \in [Runners -> [Jobs -> WorkerStates]]

Init ==
    /\ JournalInit
    /\ clock = 0
    /\ admission = None
    /\ wire = [j \in Jobs |-> [n \in Attempts |-> "none"]]
    /\ dispatched = [j \in Jobs |-> [n \in Attempts |-> 0]]
    /\ runner = [r \in Runners |-> DownRunner]
    /\ worker = [r \in Runners |-> [j \in Jobs |-> IdleWorker]]

-----------------------------------------------------------------------------
(* Runs: admission, cancellation, return and crash.                        *)

\* prepareInvocation is synchronous: while a job is in it, nothing else of
\* the same runner's event loop happens (other processes and time do).
LoopFree(r, j) == \A k \in Jobs \ {j} : worker[r][k].pc # "prepare"

\* Move the worker of job j to the record w.
Move(r, j, w) == worker' = [worker EXCEPT ![r][j] = w]

\* The job settles, leaving nothing behind in memory but its result.
Settle(r, j, pc) == Move(r, j, [IdleWorker EXCEPT !.pc = pc])

\* An error of one job is fatal for the run: every other job is cancelled.
Fail(r, j, pc) ==
    /\ Settle(r, j, pc)
    /\ runner' = [runner EXCEPT ![r].aborted = TRUE]

Tick ==
    /\ clock < MaxClock
    /\ clock' = clock + 1
    /\ UNCHANGED <<journalVars, admission, wire, dispatched, runner, worker>>

\* normalizeRunInput: a run starts inside the plan's validity, with its whole
\* wall-clock budget ahead of the end of that validity.
StartRun(r) ==
    /\ runner[r].phase = "down"
    /\ clock < AuthorityEnd
    /\ MaxWallClock <= AuthorityEnd - clock
    /\ runner' = [runner EXCEPT ![r] =
                    [phase |-> "admit", deadline |-> clock + MaxWallClock,
                     timer |-> clock + MaxWallClock, aborted |-> FALSE]]
    /\ UNCHANGED <<journalVars, clock, admission, wire, dispatched, worker>>

\* Faulty variant of Admit: every run keeps the deadline it computed itself.
AdmitOwnDeadline(r) ==
    /\ runner[r].phase = "admit"
    /\ runner' = [runner EXCEPT ![r].phase = "jobs"]
    /\ admission' = IF admission = None /\ ~runner[r].aborted
                    THEN runner[r].deadline ELSE admission
    /\ UNCHANGED <<journalVars, clock, wire, dispatched, worker>>

\* establishRunAdmission: the first admission record fixes the deadline of
\* every later run; a run that is already cancelled does not write one.
Admit(r) ==
    /\ runner[r].phase = "admit"
    /\ IF runner[r].aborted
       THEN /\ runner' = [runner EXCEPT ![r].phase = "jobs"]
            /\ UNCHANGED admission
       ELSE /\ admission' = IF admission = None THEN runner[r].deadline
                                                ELSE admission
            /\ runner' = [runner EXCEPT ![r].phase = "jobs",
                                        ![r].deadline = admission']
    /\ UNCHANGED <<journalVars, clock, wire, dispatched, worker>>

\* The caller's signal, at any time the event loop is free.
CallerAbort(r) ==
    /\ runner[r].phase # "down"
    /\ ~runner[r].aborted
    /\ \A j \in Jobs : worker[r][j].pc # "prepare"
    /\ runner' = [runner EXCEPT ![r].aborted = TRUE]
    /\ UNCHANGED <<journalVars, clock, admission, wire, dispatched, worker>>

\* RunCancellation.#armDeadline: the timer of this run, which counts from its
\* own start and not from the admitted one.
DeadlineAbort(r) ==
    /\ clock >= runner[r].timer
    /\ CallerAbort(r)

\* Faulty variant of Return: a job left pending is not counted as finished.
ReturnWithoutPending(r) ==
    /\ runner[r].phase = "jobs"
    /\ \A j \in Jobs : worker[r][j].pc \in Settled \ {"pending"}
    /\ runner' = [runner EXCEPT ![r] = DownRunner]
    /\ worker' = [worker EXCEPT ![r] = [j \in Jobs |-> IdleWorker]]
    /\ UNCHANGED <<journalVars, clock, admission, wire, dispatched>>

\* executeShadowCollection returns when every job has settled.
Return(r) ==
    /\ runner[r].phase = "jobs"
    /\ \A j \in Jobs : worker[r][j].pc \in Settled
    /\ runner' = [runner EXCEPT ![r] = DownRunner]
    /\ worker' = [worker EXCEPT ![r] = [j \in Jobs |-> IdleWorker]]
    /\ UNCHANGED <<journalVars, clock, admission, wire, dispatched>>

\* The process dies between two steps.  The journal stays; a call in flight
\* may still reach the endpoint.
Crash(r) ==
    /\ runner[r].phase # "down"
    /\ runner' = [runner EXCEPT ![r] = DownRunner]
    /\ worker' = [worker EXCEPT ![r] = [j \in Jobs |-> IdleWorker]]
    /\ UNCHANGED <<journalVars, clock, admission, wire, dispatched>>

-----------------------------------------------------------------------------
(* processJob, up to the attempt loop.                                     *)

\* Job j of r is at step pc and its event loop can run it.
At(r, j, pc) ==
    /\ runner[r].phase = "jobs"
    /\ worker[r][j].pc = pc
    /\ LoopFree(r, j)

Goto(r, j, pc) == Move(r, j, [worker[r][j] EXCEPT !.pc = pc])

\* runScheduledJobs takes the job up.
StartJob(r, j) ==
    /\ At(r, j, "idle")
    /\ ~runner[r].aborted
    /\ Goto(r, j, "begin")
    /\ UNCHANGED <<journalVars, clock, admission, wire, dispatched, runner>>

\* runScheduledJobs gives the job up: the run is cancelled, or a job of its
\* lane was left pending.
SkipJob(r, j) ==
    /\ At(r, j, "idle")
    /\ runner[r].aborted \/ \E k \in Jobs : worker[r][k].pc = "pending"
    /\ Settle(r, j, "pending")
    /\ UNCHANGED <<journalVars, clock, admission, wire, dispatched, runner>>

\* A job whose trace is accepted only needs its completion marker.
LoadAccepted(r, j) ==
    /\ At(r, j, "begin")
    /\ IF accepted[j] # <<>>
       THEN Move(r, j, [IdleWorker EXCEPT !.pc = "finish",
                                          !.seen = accepted[j]])
       ELSE Goto(r, j, "orphan")
    /\ UNCHANGED <<journalVars, clock, admission, wire, dispatched, runner>>

\* A second read: a completion marker without an accepted trace is an error.
CheckOrphan(r, j) ==
    /\ At(r, j, "orphan")
    /\ IF complete[j] # <<>>
       THEN Fail(r, j, "orphaned")
       ELSE /\ IF runner[r].aborted THEN Settle(r, j, "pending")
                                   ELSE Goto(r, j, "intent")
            /\ UNCHANGED runner
    /\ UNCHANGED <<journalVars, clock, admission, wire, dispatched>>

ReadIntent(r, j) ==
    /\ At(r, j, "intent")
    /\ IF intent[j] THEN Goto(r, j, "outcome")
       ELSE IF runner[r].aborted \/ clock >= runner[r].deadline
       THEN Settle(r, j, "pending") ELSE Goto(r, j, "writeIntent")
    /\ UNCHANGED <<journalVars, clock, admission, wire, dispatched, runner>>

WriteIntent(r, j) ==
    /\ At(r, j, "writeIntent")
    /\ intent' = [intent EXCEPT ![j] = TRUE]
    /\ Goto(r, j, "outcome")
    /\ UNCHANGED <<lease, outcome, accepted, complete,
                   clock, admission, wire, dispatched, runner>>

-----------------------------------------------------------------------------
(* processJob, one attempt: outcome, lease, dispatch, settlement.          *)

\* The attempt settled with the durable outcome o: outcomeIsTerminal decides
\* between a retry and attestCollectedTrace, which refuses an expired protocol.
AfterOutcome(r, j, o) ==
    LET w == worker[r][j]
        seen == Append(w.seen, o)
    IN  IF /\ RetrySafe(o)
           /\ w.n < MaxAttempts
           /\ ~runner[r].aborted
           /\ clock < runner[r].deadline
        THEN /\ Move(r, j, [w EXCEPT !.pc = "outcome", !.n = w.n + 1,
                                     !.seen = seen, !.cand = None])
             /\ UNCHANGED runner
        ELSE IF clock >= ProtocolExpiry
        THEN Fail(r, j, "failed")
        ELSE /\ Move(r, j, [IdleWorker EXCEPT !.pc = "accept", !.seen = seen])
             /\ UNCHANGED runner

ReadOutcome(r, j) ==
    /\ At(r, j, "outcome")
    /\ LET o == outcome[j][worker[r][j].n]
       IN  IF o # None
           THEN AfterOutcome(r, j, o)
           ELSE Goto(r, j, "lease") /\ UNCHANGED runner
    /\ UNCHANGED <<journalVars, clock, admission, wire, dispatched>>

\* Go on to persist o as the outcome of the current attempt.
Propose(r, j, o) ==
    Move(r, j, [worker[r][j] EXCEPT !.pc = "persist", !.cand = o, !.expires = 0])

\* Faulty variant of Defer: an expired lease is taken for a send that never was.
DeferAsUnsent(r, j, l) ==
    IF clock < l.expires THEN Settle(r, j, "pending")
    ELSE Propose(r, j, NotSent(FALSE, "retrySafe"))

\* A lease of someone else, or of an earlier execution: wait for it to expire,
\* then record that the attempt may have been sent.
Defer(r, j, l) ==
    IF clock < l.expires THEN Settle(r, j, "pending")
    ELSE Propose(r, j, SentUnknown(FALSE))

\* Faulty variant of ReadLease: an attempt given up before its lease is
\* recorded as ambiguous.
ReadLeaseAmbiguous(r, j) ==
    /\ At(r, j, "lease")
    /\ LET l == lease[j][worker[r][j].n]
       IN  CASE l # None -> Defer(r, j, l)
             [] l = None /\ (runner[r].aborted \/ clock >= runner[r].deadline) ->
                    Propose(r, j, SentUnknown(runner[r].aborted))
             [] OTHER -> Goto(r, j, "prepare")
    /\ UNCHANGED <<journalVars, clock, admission, wire, dispatched, runner>>

\* An attempt without outcome: its lease, if any, decides; otherwise the run
\* must still be allowed to start it.
ReadLease(r, j) ==
    /\ At(r, j, "lease")
    /\ LET l == lease[j][worker[r][j].n]
           expires == IF runner[r].deadline <= clock + AttemptTimeout
                      THEN runner[r].deadline ELSE clock + AttemptTimeout
       IN  CASE l # None -> Defer(r, j, l)
             [] l = None /\ runner[r].aborted ->
                    Propose(r, j, NotSent(TRUE, "other"))
             [] l = None /\ ~runner[r].aborted /\ clock >= runner[r].deadline ->
                    Propose(r, j, NotSent(FALSE, "retrySafe"))
             [] OTHER -> Move(r, j, [worker[r][j] EXCEPT !.pc = "prepare",
                                                         !.expires = expires])
    /\ UNCHANGED <<journalVars, clock, admission, wire, dispatched, runner>>

\* prepareInvocation and the clock check of persistLease, which follow in one
\* synchronous piece; time may have passed since the lease was read.
Prepare(r, j) ==
    /\ At(r, j, "prepare")
    /\ \/ Propose(r, j, NotSent(FALSE, "other"))
       \/ /\ clock >= worker[r][j].expires
          /\ Propose(r, j, NotSent(FALSE, "retrySafe"))
       \/ /\ clock < worker[r][j].expires
          /\ Goto(r, j, "writeLease")
    /\ UNCHANGED <<journalVars, clock, admission, wire, dispatched, runner>>

\* Faulty variant of WriteLease: any durable lease permits a dispatch, whoever
\* claimed it.
WriteLeaseUnclaimed(r, j) ==
    /\ At(r, j, "writeLease")
    /\ LET n == worker[r][j].n
       IN  lease' = [lease EXCEPT ![j][n] =
               IF @ = None THEN [owner |-> r, expires |-> worker[r][j].expires]
                           ELSE @]
    /\ Move(r, j, [worker[r][j] EXCEPT !.pc = "turn", !.expires = 0])
    /\ UNCHANGED <<intent, outcome, accepted, complete,
                   clock, admission, wire, dispatched, runner>>

\* persistLease: the claim that is durable decides who may dispatch.
WriteLease(r, j) ==
    /\ At(r, j, "writeLease")
    /\ LET n == worker[r][j].n
       IN  IF lease[j][n] = None
           THEN /\ lease' = [lease EXCEPT ![j][n] =
                        [owner |-> r, expires |-> worker[r][j].expires]]
                /\ Move(r, j, [worker[r][j] EXCEPT !.pc = "turn", !.expires = 0])
           ELSE /\ Defer(r, j, lease[j][n])
                /\ UNCHANGED lease
    /\ UNCHANGED <<intent, outcome, accepted, complete,
                   clock, admission, wire, dispatched, runner>>

\* beginDispatch, when the stable dispatch order gives the job its turn.
BeginDispatch(r, j) ==
    /\ At(r, j, "turn")
    /\ LET n == worker[r][j].n
       IN  IF runner[r].aborted \/ clock >= lease[j][n].expires
           THEN /\ Propose(r, j,
                      IF runner[r].aborted THEN NotSent(TRUE, "other")
                                           ELSE NotSent(FALSE, "retrySafe"))
                /\ UNCHANGED <<wire, dispatched>>
           ELSE /\ dispatched' = [dispatched EXCEPT ![j][n] = @ + 1]
                /\ wire' = [wire EXCEPT ![j][n] = "open"]
                /\ Goto(r, j, "inflight")
    /\ UNCHANGED <<journalVars, clock, admission, runner>>

\* The endpoint receives the request of an open call.
Transmit(j, n) ==
    /\ wire[j][n] = "open"
    /\ wire' = [wire EXCEPT ![j][n] = "sent"]
    /\ UNCHANGED <<journalVars, clock, admission, dispatched, runner, worker>>

\* The runtime answers in time to be heard.  It says not_sent only when the
\* request never left and completed only when it arrived; a malformed answer
\* is recorded as sent_unknown.
RuntimeAnswer(r, j) ==
    /\ At(r, j, "inflight")
    /\ ~runner[r].aborted
    /\ LET n == worker[r][j].n
           late == clock >= runner[r].deadline \/ clock >= lease[j][n].expires
       IN  \/ /\ wire[j][n] = "open"
              /\ \E o \in RuntimeNotSent(late) : Propose(r, j, o)
              /\ wire' = [wire EXCEPT ![j][n] = "closed"]
           \/ /\ wire[j][n] = "sent"
              /\ \E o \in RuntimeCompleted(late) : Propose(r, j, o)
              /\ UNCHANGED wire
           \/ /\ \E a \in BOOLEAN : (late => a) /\ Propose(r, j, SentUnknown(a))
              /\ UNCHANGED wire
    /\ UNCHANGED <<journalVars, clock, admission, dispatched, runner>>

\* The call fails: RuntimeInvocationInputError proves that nothing was sent,
\* any other failure proves nothing.
RuntimeFailure(r, j) ==
    /\ At(r, j, "inflight")
    /\ ~runner[r].aborted
    /\ LET n == worker[r][j].n
       IN  \/ /\ wire[j][n] = "open"
              /\ \E c \in {"retrySafe", "other"} :
                    Propose(r, j, NotSent(FALSE, c))
              /\ wire' = [wire EXCEPT ![j][n] = "closed"]
           \/ /\ Propose(r, j, SentUnknown(FALSE))
              /\ UNCHANGED wire
    /\ UNCHANGED <<journalVars, clock, admission, dispatched, runner>>

\* awaitDispatchSettlement gives up: the run is cancelled or the lease expired.
GiveUp(r, j) ==
    /\ At(r, j, "inflight")
    /\ runner[r].aborted \/ clock >= lease[j][worker[r][j].n].expires
    /\ Propose(r, j, SentUnknown(TRUE))
    /\ UNCHANGED <<journalVars, clock, admission, wire, dispatched, runner>>

\* Faulty variant of PersistOutcome: the last writer wins.
PersistOutcomeOverwrites(r, j) ==
    /\ At(r, j, "persist")
    /\ outcome' = [outcome EXCEPT ![j][worker[r][j].n] = worker[r][j].cand]
    /\ AfterOutcome(r, j, worker[r][j].cand)
    /\ UNCHANGED <<intent, lease, accepted, complete,
                   clock, admission, wire, dispatched>>

\* persistOutcome: the outcome found at the target is the outcome.
PersistOutcome(r, j) ==
    /\ At(r, j, "persist")
    /\ LET n == worker[r][j].n
           winner == IF outcome[j][n] = None THEN worker[r][j].cand
                                             ELSE outcome[j][n]
       IN  /\ outcome' = [outcome EXCEPT ![j][n] = winner]
           /\ AfterOutcome(r, j, winner)
    /\ UNCHANGED <<intent, lease, accepted, complete,
                   clock, admission, wire, dispatched>>

-----------------------------------------------------------------------------
(* persistAcceptedAndComplete.                                             *)

\* Faulty variant of WriteAccepted: the runner goes on with its own trace when
\* another one was accepted first.
WriteAcceptedKeepsOwn(r, j) ==
    /\ At(r, j, "accept")
    /\ accepted' = [accepted EXCEPT ![j] = IF @ = <<>> THEN worker[r][j].seen
                                                       ELSE @]
    /\ Goto(r, j, "finish")
    /\ UNCHANGED <<intent, lease, outcome, complete,
                   clock, admission, wire, dispatched, runner>>

\* The trace found at the target is the accepted one.
WriteAccepted(r, j) ==
    /\ At(r, j, "accept")
    /\ accepted' = [accepted EXCEPT ![j] = IF @ = <<>> THEN worker[r][j].seen
                                                       ELSE @]
    /\ Move(r, j, [IdleWorker EXCEPT !.pc = "finish", !.seen = accepted'[j]])
    /\ UNCHANGED <<intent, lease, outcome, complete,
                   clock, admission, wire, dispatched, runner>>

\* ensureComplete: the marker must close the trace the runner holds.
EnsureComplete(r, j) ==
    /\ At(r, j, "finish")
    /\ complete' = [complete EXCEPT ![j] = IF @ = <<>> THEN worker[r][j].seen
                                                       ELSE @]
    /\ IF complete'[j] = worker[r][j].seen
       THEN /\ Move(r, j, [IdleWorker EXCEPT !.pc = "done",
                                            !.seen = complete'[j]])
            /\ UNCHANGED runner
       ELSE Fail(r, j, "failed")
    /\ UNCHANGED <<intent, lease, outcome, accepted,
                   clock, admission, wire, dispatched>>

\* A read or write of the directory, a signer or the clock fails: persistRecord
\* found no winner to go on with, or signing or reading the time threw.
Fault(r, j) ==
    /\ \E pc \in {"begin", "orphan", "intent", "writeIntent", "outcome", "lease",
                  "writeLease", "turn", "inflight", "persist", "accept",
                  "finish"} :
          At(r, j, pc)
    /\ Fail(r, j, "failed")
    /\ UNCHANGED <<journalVars, clock, admission, wire, dispatched>>

-----------------------------------------------------------------------------
\* The steps a job takes by itself, without an answer of the runtime.
JobStep(r, j) ==
    \/ StartJob(r, j)    \/ SkipJob(r, j)     \/ LoadAccepted(r, j)
    \/ CheckOrphan(r, j) \/ ReadIntent(r, j)  \/ WriteIntent(r, j)
    \/ ReadOutcome(r, j) \/ ReadLease(r, j)   \/ Prepare(r, j)
    \/ WriteLease(r, j)  \/ BeginDispatch(r, j)
    \/ GiveUp(r, j)      \/ PersistOutcome(r, j)
    \/ WriteAccepted(r, j) \/ EnsureComplete(r, j)

RunStep(r) == StartRun(r) \/ Admit(r) \/ Return(r) \/ DeadlineAbort(r)

Next ==
    \/ Tick
    \/ \E j \in Jobs, n \in Attempts : Transmit(j, n)
    \/ \E r \in Runners :
          \/ RunStep(r)
          \/ CallerAbort(r)
          \/ Crash(r)
          \/ \E j \in Jobs : \/ JobStep(r, j)
                             \/ RuntimeAnswer(r, j)
                             \/ RuntimeFailure(r, j)
                             \/ Fault(r, j)

Spec == Init /\ [][Next]_vars

-----------------------------------------------------------------------------
(* Safety.                                                                 *)

\* Requests the endpoint has received, or may still receive.
Contacted(j) == {n \in Attempts : wire[j][n] \in {"open", "sent"}}

\* An attempt is dispatched at most once, however many runners contend for its
\* lease and whatever crashes in between (the claim id of persistLease).
DispatchedOnce ==
    \A j \in Jobs : \A n \in Attempts : dispatched[j][n] <= 1

\* A durable outcome claims no more than happened: `completed' was received by
\* the endpoint, and sent_unknown stands on a send lease.
OutcomeHasEvidence ==
    \A j \in Jobs : \A n \in Attempts :
        outcome[j][n] # None =>
            /\ outcome[j][n].dispatch = "completed" => wire[j][n] = "sent"
            /\ outcome[j][n].dispatch = "sent_unknown" => lease[j][n] # None

\* Retries never turn one logical execution into two inferences, over all crashes
\* and resumes: at most one attempt of a job ever reaches the endpoint, because a
\* durable not_sent is the truth, so that the request of such an attempt neither
\* reached the endpoint nor will.
SingleInference ==
    \A j \in Jobs :
        /\ \A m, n \in Contacted(j) : m = n
        /\ \A n \in Attempts :
              (outcome[j][n] # None /\ outcome[j][n].dispatch = "not_sent")
                  => n \notin Contacted(j)

\* A job that a run reports as collected carries the one accepted trace, closed
\* by the completion marker, whichever runner wrote them.
ReturnedTraceIsAccepted ==
    \A r \in Runners, j \in Jobs :
        worker[r][j].pc = "done" =>
            /\ worker[r][j].seen = accepted[j]
            /\ complete[j] = accepted[j]
            /\ accepted[j] # <<>>

\* No request is sent past the deadline of the first admitted run, although a
\* resumed run's own timer ends later.
DispatchInsideAdmission ==
    [][dispatched' # dispatched => admission # None /\ clock < admission]_vars

\* The runners' writes are those of an immutable journal written in protocol
\* order.
Journal == INSTANCE ShadowJournal
ImplementsJournal == Journal!JournalSpec

-----------------------------------------------------------------------------
(* Claims of the documentation that the code does not keep.                *)

\* docs/threat-model.md: "only a result proving `not_sent` can consume a
\* pre-budgeted retry".
RetryProvesNotSent ==
    \A j \in Jobs : \A n \in Attempts :
        (n > 1 /\ lease[j][n] # None) => (n - 1) \notin Contacted(j)

\* docs/design.md, on resume: "an expired lease without outcome becomes
\* `sent_unknown`"; so every leased attempt is in the accepted trace.
AcceptedCoversLeases ==
    \A j \in Jobs : \A n \in Attempts :
        (accepted[j] # <<>> /\ lease[j][n] # None) => n <= Len(accepted[j])

\* processJob: "shadow completion marker has no accepted trace".
OrphanHasNoTrace ==
    \A r \in Runners, j \in Jobs :
        worker[r][j].pc = "orphaned" => accepted[j] = <<>>

-----------------------------------------------------------------------------
(* Liveness.                                                               *)

\* The event loop goes on, timers fire and time passes; nothing is assumed of
\* the endpoint, of the caller or of a restart.
Fairness ==
    /\ WF_vars(Tick)
    /\ \A r \in Runners :
          /\ WF_vars(Admit(r))
          /\ WF_vars(Return(r))
          /\ WF_vars(DeadlineAbort(r))
          /\ \A j \in Jobs : WF_vars(JobStep(r, j))

FairSpec == Spec /\ Fairness

\* A run comes to an end even if the endpoint never answers.
RunsEnd ==
    \A r \in Runners : runner[r].phase # "down" ~> runner[r].phase = "down"

=============================================================================
