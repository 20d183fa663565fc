--------------------------- MODULE CollectionPlan ----------------------------
(***************************************************************************)
(* The authority of a collection run: the frozen plan of                   *)
(* src/shadow-plan.ts, the preflight that admits a run under it, and what  *)
(* the executions of that run spend, in src/runtime/shadow.ts.             *)
(*                                                                         *)
(* A plan names a policy, a window, the endpoint of every profile and a    *)
(* work budget.  The same run may be executed again after it crashed or    *)
(* left work behind; each execution counts what it does itself, and the    *)
(* budget is meant for all of them together.                               *)
(*                                                                         *)
(* ShadowRunner has executions at once and every read of the directory;    *)
(* here one execution follows the other, and the reads before a write are  *)
(* one step with it.                                                       *)
(***************************************************************************)
EXTENDS Integers, FiniteSetsExt, SequencesExt

CONSTANTS
    Base,           \* championProfileId, then candidateProfileIds
    Protocol,       \* the rest of the protocol
    Requirements,   \* <<profile, alias>>: endpointRequirements by runtime
    Supported,      \* <<profile, capability>>: "supported" in the runtime's profile
    RequestBytes,   \* requestByteCount of a job, by profile
    ResponseLimit,  \* maxResponseBytes of its HTTP limits, by profile
    Drafts,         \* inputs of buildShadowRunPlan
    Workloads,      \* sequences of cases
    LiveTargets,    \* sequences of runtime targets
    Hashes,         \* what the digests of a plan make of its replicates
    Nil,            \* null
    FinalInstant,   \* bound of the clock
    MaxExecutions   \* bound of the executions of the run

\* The replicates with which index is counterbalanced, as many as profiles.
Block(index) ==
    LET first == index - (index % Len(Base))
    IN  first .. first + Len(Base) - 1

\* Where a job of an execution is.
WorkStages == {"queued", "attempt", "leased", "sending", "trace", "settled", "pending"}

\* What the protocol's, the plan's and the case files' schemas say.  Profiles and
\* the cases of a run are distinct, digests of one block are compared as numbers,
\* and a binding is the digest of a target.
ASSUME PlanAssumption ==
    /\ Base \in Seq(Range(Base)) /\ Base # <<>>
    /\ \A i, k \in DOMAIN Base : Base[i] = Base[k] => i = k
    /\ {Protocol.created, Protocol.expires} \subseteq Nat
    /\ {Protocol.attemptTimeout, Protocol.maximumAttempts} \subseteq Nat \ {0}
    /\ \A p \in Range(Base) : RequestBytes[p] \in Nat /\ ResponseLimit[p] \in Nat
    /\ Nil \notin Drafts /\ Nil \notin Int /\ Nil # "spent"
    /\ Nil \notin [at : {"admission", "jobs"}, deadline : Int, live : LiveTargets, calls : Int,
                  cancelled : BOOLEAN, work : Seq([at : WorkStages, n : Nat])]
    /\ \A d \in Drafts :
           {d.issued, d.expires, d.policy.issued, d.policy.expires, d.window.start,
            d.window.end, d.snapshot.lastEventAt, d.budget.wallClock, d.budget.calls,
            d.budget.attempts, d.budget.records, d.budget.requestBytes,
            d.budget.responseBytes} \subseteq Nat
    /\ \A d \in Drafts, live \in LiveTargets : \A t \in Range(d.targets), u \in Range(live) :
           t.profile = u.profile /\ t.alias = u.alias /\ t.binding = u.binding => t = u
    /\ \A cases \in Workloads :
           /\ cases \in Seq(Range(cases))
           /\ \A i \in DOMAIN cases : cases[i].replicates \in Nat
           /\ \A i, k \in DOMAIN cases : cases[i].case = cases[k].case => i = k
           /\ \A h \in Hashes, i \in DOMAIN cases :
                  \A index \in 0 .. cases[i].replicates - 1 : \A a \in Block(index) :
                      h.digest[<<cases[i].case, a>>] \in Int

VARIABLES
    plan,       \* the frozen plan
    hash,       \* selected: the replicates in the sample; digest: their ranks
    workload,   \* the cases of the run
    jobs,       \* the jobs of the run, in order
    time,       \* Date.now()
    granted,    \* the deadline in the admission record
    record,     \* record[j]: the durable records of job j
    execution,  \* the execution that runs
    started,    \* executions so far
    sent,       \* sent[j]: the contacts made for job j, by all executions
    idled       \* whether time passed without an attempt under way

planVars == <<plan, hash, workload, jobs, time, granted, record, execution, started,
              sent, idled>>
inputVars == <<plan, hash, workload, jobs>>

Profiles == Range(Base)
Least(a, b) == IF a <= b THEN a ELSE b

-----------------------------------------------------------------------------
(* The plan.                                                               *)

\* normalizeCollectionTargets
TargetsHold(targets) ==
    /\ \A i, k \in DOMAIN targets :
           targets[i].profile = targets[k].profile => i = k
    /\ \A i \in DOMAIN targets :
           <<targets[i].profile, targets[i].alias>> \in Requirements
    /\ {targets[i].profile : i \in DOMAIN targets} = Profiles

\* assertWorkBudgetSemantics
BudgetHolds(draft) ==
    /\ Len(draft.targets) <= draft.budget.profiles
    /\ draft.budget.executions <= Protocol.maximumLogicalExecutions
    /\ draft.budget.concurrency <= Protocol.maximumConcurrency
    /\ draft.budget.wallClock <= draft.expires - draft.issued
    /\ draft.budget.wallClock <= draft.window.end - draft.window.start

\* Faulty variant of WithinPolicy: the policy may expire before the plan.
WithinPolicyAtIssue(draft) ==
    /\ draft.policy.issued <= draft.issued /\ draft.issued <= draft.policy.expires
    /\ draft.snapshot.lastEventAt <= draft.issued

WithinPolicy(draft) ==
    /\ draft.policy.issued <= draft.issued /\ draft.expires <= draft.policy.expires
    /\ draft.snapshot.lastEventAt <= draft.issued

\* normalizePlanBody, the digests aside.
PlanHolds(draft) ==
    /\ draft.snapshot.state = "SHADOW_ASSESSING"
    /\ draft.snapshot.selected = draft.policy
    /\ draft.issued < draft.expires /\ draft.expires <= Protocol.expires
    /\ WithinPolicy(draft)
    /\ draft.window.start < draft.window.end
    /\ draft.issued <= draft.window.start /\ draft.window.end <= draft.expires
    /\ TargetsHold(draft.targets)
    /\ BudgetHolds(draft)

PlanTarget(profile) ==
    CHOOSE t \in Range(plan.targets) : t.profile = profile

-----------------------------------------------------------------------------
(* The jobs of a run.                                                      *)

\* Whether replicate a of a case comes before b, by digest.
Before(case, a, b) ==
    \/ hash.digest[<<case, a>>] < hash.digest[<<case, b>>]
    \/ hash.digest[<<case, a>>] = hash.digest[<<case, b>>] /\ a < b

\* Faulty variant of Rank: it is taken over all replicates before this one.
RankSoFar(case, index) == Cardinality({a \in 0 .. index : Before(case, a, index)})

\* The rank of a replicate in its block, from 0.
Rank(case, index) == Cardinality({a \in Block(index) : Before(case, a, index)})

\* profileOrder: the profiles, rotated by the replicate's rank in its block.
ProfileOrder(case, index) ==
    [k \in DOMAIN Base |-> Base[((Rank(case, index) + k - 1) % Len(Base)) + 1]]

\* isWindowMembershipSelected, and the replicates in the sample: the position of
\* a case and an index.
IsSelected(case, index) == <<case, index>> \in hash.selected

InSample ==
    {r \in UNION {{i} \X (0 .. workload[i].replicates - 1) : i \in DOMAIN workload} :
        IsSelected(workload[r[1]].case, r[2])}

\* The sample, case by case; a replicate's place is the number of those before it.
Precedes(r, s) == r[1] < s[1] \/ (r[1] = s[1] /\ r[2] < s[2])
Sampled ==
    [k \in 1 .. Cardinality(InSample) |->
        CHOOSE r \in InSample : Cardinality({s \in InSample : Precedes(s, r)}) = k - 1]

\* buildJobSeeds: every replicate of the sample under every profile.
JobList ==
    [j \in 1 .. Cardinality(InSample) * Len(Base) |->
        LET r == Sampled[((j - 1) \div Len(Base)) + 1]
            member == workload[r[1]].case
            k == ((j - 1) % Len(Base)) + 1
        IN  [case |-> member, index |-> r[2], profile |-> ProfileOrder(member, r[2])[k],
             place |-> k]]

PlanJobs == DOMAIN jobs

-----------------------------------------------------------------------------
(* The preflight of an execution.                                          *)

Declared == SumFunction([i \in DOMAIN workload |-> workload[i].replicates])

\* The most that the jobs can cost.
MaximumAttempts == Len(jobs) * Protocol.maximumAttempts

\* Faulty variant of AttemptWork: retries are forgotten.
AttemptWorkOfFirst == Len(jobs) * Protocol.attemptTimeout

AttemptWork == MaximumAttempts * Protocol.attemptTimeout

\* The admission; intent, acceptance and completion of each job; lease and
\* outcome of each attempt.
MaximumRecords == 1 + 3 * Len(jobs) + 2 * MaximumAttempts

MaximumResponseBytes ==
    Protocol.maximumAttempts
        * SumFunction([j \in PlanJobs |-> ResponseLimit[jobs[j].profile]])

MaximumRequestBytes ==
    Protocol.maximumAttempts
        * SumFunction([j \in PlanJobs |-> RequestBytes[jobs[j].profile]])

\* normalizeTarget: the live targets are those the plan names, one of each.
LiveTargetsHold(live) ==
    /\ Len(live) = Len(Base)
    /\ \A i \in DOMAIN live :
           \E t \in Range(plan.targets) :
               /\ t.profile = live[i].profile
               /\ t.alias = live[i].alias /\ t.binding = live[i].binding
    /\ {live[i].profile : i \in DOMAIN live} = Profiles

\* assertRequiredCapabilitiesAreAdmitted
CapabilityAdmitted(capability) ==
    /\ capability = "chat-completions" =>
           /\ \A t \in Range(plan.targets) : t.route = "chatCompletions"
           /\ \A c \in Range(workload) : c.chat
    /\ capability # "chat-completions" =>
           \A p \in Profiles : <<p, capability>> \in Supported
    /\ capability = "streaming" => \A c \in Range(workload) : c.streamed

\* Faulty variant of BudgetAdmits: records are counted as if nothing is retried.
BudgetAdmitsOnce(budget) ==
    /\ Len(workload) <= budget.cases /\ Len(Base) <= budget.profiles
    /\ Declared <= budget.replicates
    /\ Declared * Len(Base) <= Least(budget.executions, Protocol.maximumLogicalExecutions)
    /\ MaximumAttempts <= Least(budget.attempts, budget.calls)
    /\ 1 + 5 * Len(jobs) <= budget.records
    /\ MaximumResponseBytes <= budget.responseBytes
    /\ MaximumRequestBytes <= budget.requestBytes
    /\ AttemptWork <= budget.wallClock

\* The declared work before the sample is drawn, and the exact work after.
BudgetAdmits(budget) ==
    /\ Len(workload) <= budget.cases /\ Len(Base) <= budget.profiles
    /\ Declared <= budget.replicates
    /\ Declared * Len(Base) <= Least(budget.executions, Protocol.maximumLogicalExecutions)
    /\ MaximumAttempts <= Least(budget.attempts, budget.calls)
    /\ MaximumRecords <= budget.records
    /\ MaximumResponseBytes <= budget.responseBytes
    /\ MaximumRequestBytes <= budget.requestBytes
    /\ AttemptWork <= budget.wallClock

\* Least of protocolExpiresAtMs, planExpiresAtMs and windowEndsAtMs.
AuthorityEndsAt == Least(Protocol.expires, Least(plan.expires, plan.window.end))

\* An execution begins inside every validity and has its whole wall-clock
\* budget before the first of them ends.
InTimeToStart ==
    /\ Protocol.created <= time /\ plan.issued <= time /\ plan.window.start <= time
    /\ time < AuthorityEndsAt
    /\ plan.budget.wallClock <= AuthorityEndsAt - time
    /\ \A c \in Range(workload) : c.signalAt # Nil => c.signalAt <= time

-----------------------------------------------------------------------------
(* Executions.                                                             *)

NoRecords ==
    [intent |-> FALSE, leases |-> [n \in 1 .. Protocol.maximumAttempts |-> Nil],
     outcomes |-> <<>>, accepted |-> FALSE]

PlanInit ==
    /\ plan = Nil
    /\ hash \in Hashes /\ workload \in Workloads /\ jobs = <<>>
    /\ time = 0 /\ granted = Nil
    /\ record = <<>> /\ execution = Nil /\ started = 0
    /\ sent = <<>> /\ idled = FALSE

\* buildShadowRunPlan
BuildPlan(draft) ==
    /\ plan = Nil
    /\ PlanHolds(draft)
    /\ plan' = draft /\ jobs' = JobList
    /\ record' = [j \in DOMAIN JobList |-> NoRecords]
    /\ sent' = [j \in DOMAIN JobList |-> 0]
    /\ UNCHANGED <<hash, workload, time, granted, execution, started, idled>>

\* normalizeRunInput.  Without a job the execution returns at once.
StartExecution(live) ==
    /\ plan # Nil /\ execution = Nil /\ started < MaxExecutions
    /\ LiveTargetsHold(live)
    /\ \A capability \in Protocol.requiredCapabilities : CapabilityAdmitted(capability)
    /\ BudgetAdmits(plan.budget)
    /\ InTimeToStart
    /\ PlanJobs # {}
    /\ execution' =
           [at |-> "admission", deadline |-> time + plan.budget.wallClock,
            live |-> live, calls |-> 0, cancelled |-> FALSE,
            work |-> [j \in PlanJobs |-> [at |-> "queued", n |-> 1]]]
    /\ started' = started + 1
    /\ UNCHANGED <<inputVars, time, granted, record, sent, idled>>

\* establishRunAdmission: the first admission of the run is the one that counts.
Admission ==
    /\ execution # Nil /\ execution.at = "admission"
    /\ IF execution.cancelled
       THEN UNCHANGED granted /\ execution' = [execution EXCEPT !.at = "jobs"]
       ELSE /\ granted' = IF granted # Nil THEN granted ELSE execution.deadline
            /\ execution' = [execution EXCEPT !.at = "jobs", !.deadline = granted']
    /\ UNCHANGED <<inputVars, time, record, started, sent, idled>>

\* The caller's signal, or the timer of this execution.
CancelExecution ==
    /\ execution # Nil /\ ~execution.cancelled
    /\ execution' = [execution EXCEPT !.cancelled = TRUE]
    /\ UNCHANGED <<inputVars, time, granted, record, started, sent, idled>>

\* The process dies; what it wrote and sent stays.
CrashExecution ==
    /\ execution # Nil
    /\ execution' = Nil /\ idled' = TRUE
    /\ UNCHANGED <<inputVars, time, granted, record, started, sent>>

Stage(j, stage) == execution # Nil /\ execution.at = "jobs" /\ execution.work[j].at = stage
Late == time >= execution.deadline

\* The job goes to a stage, without a new record or with one.
Moves(j, stage) ==
    /\ execution' = [execution EXCEPT !.work[j].at = stage]
    /\ UNCHANGED record
Records(j, changed, stage) ==
    /\ record' = [record EXCEPT ![j] = changed]
    /\ execution' = [execution EXCEPT !.work[j].at = stage]

\* A pending job takes with it what is queued behind it in its lane.
LeavesPending(j) ==
    /\ execution' = [execution EXCEPT !.work =
           [k \in PlanJobs |->
               IF \/ k = j
                  \/ @[k].at = "queued" /\ jobs[k].profile = jobs[j].profile
               THEN [@[k] EXCEPT !.at = "pending"] ELSE @[k]]]
    /\ UNCHANGED record

InHand == {j \in PlanJobs : execution.work[j].at \notin {"queued", "settled", "pending"}}
Lanes == {jobs[j].profile : j \in InHand}

\* runScheduledJobs and the start of processJob: a cancelled or failed execution
\* takes no more jobs; otherwise the first job of a free lane is next.  An accepted
\* job is settled; an intent is written in time or not at all.
TakeJob(j) ==
    /\ Stage(j, "queued")
    /\ IF execution.cancelled THEN Moves(j, "pending")
       ELSE /\ Cardinality(InHand) < plan.budget.concurrency
            /\ \A k \in 1 .. j :
                   (k = j \/ execution.work[k].at = "queued")
                       => (jobs[k].profile \in Lanes <=> k # j)
            /\ IF record[j].accepted THEN Moves(j, "settled")
               ELSE IF record[j].intent THEN Moves(j, "attempt")
               ELSE IF Late THEN LeavesPending(j)
               ELSE Records(j, [record[j] EXCEPT !.intent = TRUE], "attempt")
    /\ UNCHANGED <<inputVars, time, granted, started, sent, idled>>

\* outcomeIsTerminal: only what was surely not sent is tried again, in time.
TriedAgain(j, outcome) ==
    /\ outcome = "unsent"
    /\ execution.work[j].n < Protocol.maximumAttempts
    /\ ~execution.cancelled /\ ~Late

\* On to the next attempt, or to the acceptance of the trace.
GoOn(j, outcome) ==
    execution' =
        [execution EXCEPT !.work[j] =
            IF TriedAgain(j, outcome) THEN [at |-> "attempt", n |-> @.n + 1]
                                      ELSE [@ EXCEPT !.at = "trace"]]

\* persistOutcome; a lease is not read again once there is the outcome.
Outcome(j, outcome) ==
    /\ record' = [record EXCEPT
           ![j].outcomes = Append(@, outcome),
           ![j].leases[execution.work[j].n] = IF @ = Nil THEN Nil ELSE "spent"]
    /\ GoOn(j, outcome)

\* The outcome of an attempt, or else its lease, or else a new lease.
BeginAttempt(j) ==
    /\ Stage(j, "attempt")
    /\ LET n == execution.work[j].n
           lease == record[j].leases[n]
       IN  IF n <= Len(record[j].outcomes)
           THEN GoOn(j, record[j].outcomes[n]) /\ UNCHANGED record
           ELSE IF lease # Nil
           THEN IF time < lease THEN LeavesPending(j) ELSE Outcome(j, "final")
           ELSE IF execution.cancelled THEN Outcome(j, "final")
           ELSE IF Late THEN Outcome(j, "unsent")
           ELSE \/ Outcome(j, "final")
                \/ Records(j, [record[j] EXCEPT !.leases[n] =
                       Least(execution.deadline, time + Protocol.attemptTimeout)], "leased")
    /\ UNCHANGED <<inputVars, time, granted, started, sent, idled>>

LeaseOf(j) == record[j].leases[execution.work[j].n]

\* beginDispatch: a call over the budget is an error, which ends the execution.
Contact(j) ==
    /\ Stage(j, "leased")
    /\ IF execution.cancelled \/ time >= LeaseOf(j)
       THEN Outcome(j, IF execution.cancelled THEN "final" ELSE "unsent")
            /\ UNCHANGED sent
       ELSE IF execution.calls >= plan.budget.calls
       THEN /\ execution' = [execution EXCEPT !.work[j].at = "pending", !.cancelled = TRUE]
            /\ UNCHANGED <<record, sent>>
       ELSE /\ execution' = [execution EXCEPT !.work[j].at = "sending", !.calls = @ + 1]
            /\ sent' = [sent EXCEPT ![j] = @ + 1]
            /\ UNCHANGED record
    /\ UNCHANGED <<inputVars, time, granted, started, idled>>

\* The runtime answers, or the call is given up.
Settle(j) ==
    /\ Stage(j, "sending")
    /\ IF execution.cancelled \/ time >= LeaseOf(j) THEN Outcome(j, "final")
       ELSE Outcome(j, "final") \/ Outcome(j, "unsent")
    /\ UNCHANGED <<inputVars, time, granted, started, sent, idled>>

\* persistAcceptedAndComplete: two records, before the protocol's end.
AcceptTrace(j) ==
    /\ Stage(j, "trace")
    /\ IF time >= Protocol.expires
       THEN /\ execution' = [execution EXCEPT !.work[j].at = "pending", !.cancelled = TRUE]
            /\ UNCHANGED record
       ELSE Records(j, [record[j] EXCEPT !.accepted = TRUE], "settled")
    /\ UNCHANGED <<inputVars, time, granted, started, sent, idled>>

\* The end of executeShadowCollection.
ReturnResult ==
    /\ execution # Nil /\ execution.at = "jobs"
    /\ \A j \in PlanJobs : execution.work[j].at \in {"settled", "pending"}
    /\ execution' = Nil /\ idled' = TRUE
    /\ UNCHANGED <<inputVars, time, granted, record, started, sent>>

\* Time is well spent while an attempt is under way that its lease still allows.
WellSpent ==
    /\ execution # Nil
    /\ \E j \in PlanJobs : Stage(j, "sending") /\ time < LeaseOf(j)

TimePasses ==
    /\ time < FinalInstant
    /\ time' = time + 1
    /\ idled' = (idled \/ (started > 0 /\ ~WellSpent))
    /\ UNCHANGED <<inputVars, granted, record, execution, started, sent>>

PlanNext ==
    \/ \E d \in Drafts : BuildPlan(d)
    \/ \E live \in LiveTargets : StartExecution(live)
    \/ Admission \/ CancelExecution \/ CrashExecution \/ ReturnResult \/ TimePasses
    \/ plan # Nil /\ \E j \in PlanJobs :
           \/ TakeJob(j) \/ BeginAttempt(j) \/ Contact(j)
           \/ Settle(j) \/ AcceptTrace(j)

PlanSpec == PlanInit /\ [][PlanNext]_planVars

-----------------------------------------------------------------------------
(* Properties.                                                             *)

AttemptsOf(j) == Len(record[j].outcomes)
RecordsOf(j) ==
    Cardinality({n \in DOMAIN record[j].leases : record[j].leases[n] # Nil})
        + AttemptsOf(j) + (IF record[j].intent THEN 1 ELSE 0)
        + (IF record[j].accepted THEN 2 ELSE 0)

\* The budget of a plan bounds what all executions of its run do together,
\* although each of them counts from zero.
WorkIsAdmitted ==
    plan # Nil =>
        LET total(f(_)) == SumFunction([j \in PlanJobs |-> f(j)])
        IN  /\ total(LAMBDA j : sent[j]) <= plan.budget.calls
            /\ total(AttemptsOf) <= plan.budget.attempts
            /\ total(RecordsOf) + (IF granted = Nil THEN 0 ELSE 1) <= plan.budget.records
            /\ total(LAMBDA j : sent[j] * RequestBytes[jobs[j].profile])
                   <= plan.budget.requestBytes
            /\ total(LAMBDA j : sent[j] * ResponseLimit[jobs[j].profile])
                   <= plan.budget.responseBytes

\* The wall-clock budget is enough for every retry of every job, also one after
\* the other: as long as the run was neither interrupted nor idle, whatever has
\* yet to begin has the whole of its timeout left, and nothing is left pending.
WorkFitsItsTime ==
    (execution # Nil /\ execution.at = "jobs" /\ ~execution.cancelled /\ ~idled) =>
        \A j \in PlanJobs :
            /\ execution.work[j].at # "pending"
            /\ execution.work[j].at \in {"queued", "attempt"}
                   => time + Protocol.attemptTimeout <= execution.deadline

\* Every contact is made while plan, window, protocol and policy are in force,
\* the policy being the one that the controller had selected, and with the
\* endpoint that the plan names for the profile.
InForce(valid) == valid.issued <= time /\ time < valid.expires
ContactsUnderAuthority ==
    [][\A j \in PlanJobs : sent'[j] > sent[j] =>
           /\ InForce(plan) /\ InForce(plan.policy)
           /\ plan.window.start <= time /\ time < plan.window.end
           /\ Protocol.created <= time /\ time < Protocol.expires
           /\ plan.snapshot.selected = plan.policy /\ plan.snapshot.lastEventAt <= time
           /\ \E t \in Range(execution.live) : t = PlanTarget(jobs[j].profile)
      ]_planVars

\* Order is counterbalanced: among the replicates of a block no profile is
\* called twice in the same place, and every replicate of the sample is run
\* under every profile.
OrderIsCounterbalanced ==
    \A a, b \in Range(jobs) :
        /\ (/\ a.case = b.case /\ a.index # b.index /\ a.profile = b.profile
            /\ a.index \div Len(Base) = b.index \div Len(Base)) => a.place # b.place
        /\ \E c \in Range(jobs) :
               c.case = a.case /\ c.index = a.index /\ c.profile = b.profile

=============================================================================
