# TLA+ models of TASC

TASC is an out-of-band controller for inference evaluation: it collects traces
of model calls under a signed protocol (`src/src/runtime`), keeps them as
immutable, digest-named packets (`src/src/artifacts.ts`), joins and assesses
them (`src/src/evidence-join.ts`, `src/src/assessment.ts`), proposes experiments
on the decision (`src/src/experiments.ts`), and walks an advisory controller
through a recorded lifecycle (`src/src/controller.ts`).  This directory holds
TLA+ models of the parts where order, failure and concurrency decide whether
that is right, TLC runs that check them on small instances, and TLAPS proofs of
the properties that matter most.

Paths below are relative to `src/src/` unless they start with `src/`.

## Inventory

| component | state | operations | hard behaviour | correct when |
|---|---|---|---|---|
| shadow runner, `runtime/shadow.ts` | the run directory (admission, intent, leases, outcomes, accepted trace, completion marker); per job, the attempts seen | resume, lease, dispatch, settle, persist, accept, complete | several processes on one directory, clocks that differ, crash and resume, deadlines, late answers | an attempt is dispatched once; outcomes are true; all runners return one trace; runs end |
| scheduler and dispatch order, `runtime/shadow.ts` | queue, lanes in use, turns, the run's promise | start, refill, turn, retry, handlers, cancellation | callbacks interleave; jobs finish without taking their turn | no deadlock, one job per lane, order of first contacts |
| plan and preflight, `shadow-plan.ts`, `runtime/shadow.ts` | the frozen plan, what its run spent | issue, admit, execute again | interrupted executions that each count from zero; validities that end at different times | all executions together stay in the budget; contacts only under an authority in force |
| packet store, `artifacts.ts` | staging directories, the target, what is on disk | write or verify, read, collide, clean up | racing writers, failing operations, power loss, missing fsync | write-once, whole or absent, results true |
| controller, `controller.ts`, `controller-events.ts` | the snapshot: state, evidence, ledgers, assessments, reasons; which snapshots and decisions are live | twelve commands, replay, checkpoints | long sequences of commands, late revisions, expiry, forks, redelivered events | the snapshot always loads again; a recommendation stands on current evidence; a snapshot is one history |
| runtime invocation, `runtime/invoke.ts`, `runtime/orchestration.ts` | the dispatch state of a call; the reader of its response | prepare, dispatch, read, classify errors | errors after the request left; responses that stop early or leave parts out | `not_sent` only when nothing was sent, `completed` only for a whole answer |
| HTTP transport, `runtime/http.ts` | phase timers, abort source, dispatch state | connect, send, read | timers race the answer | one abort source; the state is monotone |
| stream decoders, `runtime/sse.ts`, `runtime/ndjson.ts` | received bytes and chunk marks | collect, parse | chunk boundaries, ends of lines, trailing input | chunking does not change the result |
| network policy, `runtime/network-policy.ts` | pinned addresses | resolve, classify, pin | stale resolutions, deadlines | only admitted addresses are contacted, in time |
| profiles and probe, `runtime/profiles.ts`, `runtime/probe.ts` | capability tokens of the process | probe, authorize, verify | time passes between every check | a lease covers the whole operation it was taken for |
| evidence contracts, `evidence.ts`, `evaluator-trust.ts`, `integrity.ts` | none | parse, sign, verify | key validity and revocation, times of attempts | only current, authorized evidence is trusted |
| evidence join, `evidence-join.ts` | none (one pass over its input) | admit, deduplicate, exclude, join | repeated and conflicting rows in any order | more rows never give another score |
| windows, `window.ts` | none | seal a manifest, revise it | late evidence, watermarks | what belongs to a window was over when it was sealed |
| assessment, `assessment.ts`, `assessment-contract.ts`, `policy.ts`, `statistics.ts` | none | replay, gates, staleness, decisions | missing, failed, ambiguous and stale evidence | a pass leaves nothing out and rests on trusted scores |
| experiments, `experiments.ts` | the history document | diagnose, propose, register | proposals of old readings, findings of other protocols | the loop comes to rest |
| input bounds, redaction, references, budgets | counters | charge, refuse | limits | nothing passes its ceiling |
| command line, `cli.ts`, `cli-v2.ts`, `cli-args.ts` | what a process has read | read, compare, publish or contact, exit | files replaced between two reads, two commands on one output, failures after the rename | inputs belong together; exit codes say what is there |
| legacy evaluator, `evaluate.ts`, `schema.ts`, `report.ts` | the nomination file | nominate, confirm, report | edited files, revised specs, groups that leak | the confirmed policy is the nominated one, on unseen groups |

How they interact: the command line reads a protocol and a plan and calls
`runShadowCollection`.  The scheduler starts `processJob` per job; a job writes
each of its records through `persistRecord`, which calls the packet store, and
dispatches through the runtime invocation, which uses the transport, the network
policy and the decoders.  Several processes may work on one run directory: they
share nothing else.  Accepted traces are joined with evaluations, windows are
sealed over them, assessments judge them, experiments are proposed on the
decisions, and the controller records projections of manifests and decisions as
events of a digest-linked chain.

`PROJECT.json` lists every hazard of this code by line, with the property that
would catch it.

## Modules

| module | what it is |
|---|---|
| `ShadowJournal` | abstract: the run directory as a write-once journal written in protocol order |
| `ShadowRunner` | `processJob`, admission, cancellation, crash and resume, for any number of runners |
| `ShadowRunnerProofs` | TLAPS proofs about `ShadowRunner`: types, evidence, returned traces; it implements `ShadowJournal`; the admitted deadline; one runner is one inference |
| `AttemptTimes` | the times in the records of one job, written by executions whose clocks may differ |
| `CollectionPlan` | the plan, its preflight, the order of its jobs, and what all executions of its run spend |
| `DispatchOrder` | `runScheduledJobs` and `StableDispatchOrder` |
| `SchedulingProofs` | TLAPS proofs about `DispatchOrder` and `CollectionPlan` |
| `WriteOnceRecord` | abstract: one record, published at most once |
| `ArtifactStore` | the packet writer and `persistRecord`, for one target |
| `ArtifactStoreProofs` | TLAPS proofs about `ArtifactStore`, with its refinement of `WriteOnceRecord`, and about `AttemptTimes` |
| `ControllerLifecycle` | abstract: when a recommendation may stand |
| `Controller` | the commands, the event envelope and the snapshot validator |
| `ControllerLog` | which snapshots a process may hold: forks, checkpoints, restarts, replay |
| `ControllerProofs` | TLAPS proofs about `Controller`, with its refinement of `ControllerLifecycle`, and about `ControllerLog` |
| `CallContract` | abstract: what a call of the runtime promises about the dispatch state it reports |
| `RuntimeCall` | one call: `dispatchPreparedRuntimeInvocation`, the pin and the transport |
| `StreamFraming` | from bytes to events: server-sent events and NDJSON |
| `ProviderStream`, `ResponseDocument` | from events, or from one document, to the status of the call, per provider |
| `CapabilityLease` | probes, their tokens, and the routes that need one |
| `RuntimeProofs` | TLAPS proofs about `RuntimeCall`, `CapabilityLease`, `ProviderStream` and `StreamFraming` |
| `EvidenceJoin` | evaluator trust and the join |
| `Assessment` (extends `EvidenceJoin`) | policies, windows, the three assessments and the contract of a decision |
| `AssessmentProofs` | TLAPS proofs about `EvidenceJoin` and `Assessment`, `Experiments` and `LegacyEvaluation` |
| `Experiments` | diagnosis, proposal, registration |
| `LegacyEvaluation` | the first version's nomination and confirmation |
| `CommandLine` | the commands as processes over files |
| `CommandLineProofs` | TLAPS proofs about `CommandLine` |
| `FiniteSums` | lemmas on finite sets of numbers and on sums, for the other proofs |
| `MCShadowRunner`, `MCDispatch`, `MCRunDirectory`, `MCControlPlane` | instances for TLC: small data, symmetry, and parts side by side |

The models fit together by contract.  `ShadowRunner` creates a record in one
step, *create if absent, else learn the winner*; `ArtifactStore` shows that the
staged, renamed and flushed packets behind `persistRecord` implement exactly
that (`WriteOnceRecord`), up to losses of power.  `DispatchOrder` lets
`processJob` end in any way after any number of retries; `RunsEnd` of
`ShadowRunner` is the reason it may assume that it ends.  `ShadowRunner` leaves
open how long a job waits for its turn; `DispatchOrder` models the turns.
`ShadowRunner` lets the runtime answer `not_sent` only for a request that never
left, and `completed` only for one that arrived; that is `CallContract`, and
`RuntimeCall` shows that the invocation and the transport keep it.  What the
decoder makes of the body is a choice in `RuntimeCall`; `StreamFraming`,
`ProviderStream` and `ResponseDocument` say what it is.  `ShadowRunner` has one
clock and no times in its records; `AttemptTimes` has only those.  It also
leaves the budgets out, which are `CollectionPlan`.  `Controller` says which
facts a snapshot admits, on one chain; `ControllerLog` how chains arise.

Three MC modules put parts side by side that meet only in what they hand to each
other and share no variable: `MCDispatch` (commands, plan, scheduler, call),
`MCRunDirectory` (store, times) and `MCControlPlane` (controller, log, framing,
provider, lease, study, experiments, first version).  A behaviour is one of one
part, chosen at the start, while the others stay as they begin: the sum of the
parts, not their product, which would only interleave steps that cannot disturb
each other.

A definition whose comment says "faulty variant" is not part of the model: it is
a plausible bug put in the place of the definition after it, to see that a
property notices.

### ShadowRunner

The variables of `ShadowJournal` are the records on disk: `intent`, `lease`,
`outcome`, `accepted`, `complete`; `admission` is the admission record.
`wire[j][n]` is the fate of the request of attempt n (the endpoint's side),
`dispatched` counts calls of the runtime, `runner[r]` is the `NormalizedRun` of
a process (phase, deadline, timer, cancelled or not) and `worker[r][j]` the
local state of `processJob`: `pc`, the attempt number `n`, the outcomes `seen`,
the candidate outcome `cand`, the planned expiry `expires`.

Every `await` of `processJob` is a boundary between actions, so the steps of two
runners interleave as two processes do; what runs between two awaits
(prepareInvocation and the clock check of persistLease) is one action or is kept
together by `LoopFree`.  `Crash` drops a process and keeps the directory and the
wire.  `Fault` is any failed file operation, signer or clock.

Abstractions: one wall clock that all processes share and that never goes back
(`MonotonicWallClock` guarantees the second per process; `AttemptTimes` drops
the first); the failure categories of an outcome are collapsed to the two that
`outcomeIsTerminal` tells apart; timestamps inside records are in `AttemptTimes`
and the budgets in `CollectionPlan`; signatures and digests are the values
themselves.

### AttemptTimes

`wall[c]` is the clock of an execution, `process[c]` where it stands in
`processJob`; the records hold the instants the code puts into them.  Each check
of the contract (`parseTraceEnvelope`, `validateLeaseRecord`, the attempt lineage)
is an operator on instants, applied wherever the code applies it, and a record
that fails it fails the execution.  `together` fixes whether the clocks agree.
With clocks that disagree a retry's lease may also be issued in the future of
the process that resumes, which then discards a completed answer as
`sent_unknown`; the run expected to fail shows the worse case.

### CollectionPlan

A draft is what an operator asks a plan for; `plan` is what `shadow-plan.ts`
freezes.  `jobs` is made from the plan by the partition, the sample and the rank
of the code; digests rank replicates freely (`hash`).  An execution goes through
preflight, takes or finds the admission record, and works on its jobs attempt by
attempt; it may crash after any record, and the next counts from zero.  A plan is
self-contained: the controller's snapshot is checked when it is issued, and a
later drift or retirement does not revoke it.  The work budget belongs to the
run, whose identifier binds its jobs, not to the plan: two runs under one plan
spend it twice.  An execution after a crash needs the whole `maxWallClockMs`
before the authority ends (`shadow.ts:2281`), which
`src/docs/operating-guide.md:541` does not mention; such a rerun is refused and
its admitted work stays undone.

### DispatchOrder

`turn` and `next` are `#turns` and `#nextIndex`; `status` places a job in the
queue, in `processJob`, in its handlers or past `finally`, which are separate
microtasks and so separate actions.  `Pump(t, st)` is `#pump` on the turns t (its
loop ends at `last`, the first missing turn, which is what `next` becomes),
`Schedule` is `pump()`.  A job's lease may run out while it waits: which jobs are
`late` is chosen freely at the moment of their turn.

### ArtifactStore

`target`, `contentSynced` and `nameSynced` are the directory entry as readers see
it and what of it a power loss cannot undo; `staging`, `pc`, `result`, `winner`
belong to one call.  A call made after a restart is one more writer that is still
idle.  A filesystem either supports fsync throughout or not at all (`supported`,
the capability the code tracks; a change on the way is a failed operation).

### RuntimeCall

`pc` follows one call through the awaits, and the clock readings, of three
functions: `prepared`, `pinning`, `lookup`, `dialing`, `resolving`, `unpinned` and
`pinned` are `dispatchPreparedRuntimeInvocation` up to and around
`pinAuthorizedCollectorRequest`; `opening`, `consuming`, `clamping`, `arming`,
`secrets`, `connect`, `head`, `body` and `decoding` are `withBoundedHttpResponse`
with its consumer `decodeResponse`; in `returning` and `throwing` the client is
being destroyed.  `dispatch` is `state.dispatchState`, `due` holds every
`setTimeout`, `wire` and `answer` are the endpoint's side.  An action is a task of the event loop with its microtasks,
so an abort and its classification are one action.  Where the caller can act
from a microtask (between the pin and the transport, between the end of the body
and the end of the consumer) its abort is a step of its own.

The clock counts fractions of a millisecond (`Grain` of them), because the deadlines
are handed on as whole milliseconds: `Remaining` rounds down as the code does.  Each
reading of the clock is a step of its own, and time may pass between any two; the
caller's signal may not where there is no await (`Unbroken`).  So what is read of a
deadline (`remaining`) is used later than it was read: the invocation reads the pin's
budget (`invoke.ts:2892`), and the pin counts it from its own start
(`network-policy.ts:1325`).  The pin may therefore outlive the invocation's deadline,
as may the lookup's timer, armed with what was left of the pin, and the operation's,
armed with limits that were clamped before.  `delayed` adds up the time that passes
between such a reading and its use (`Gaps`), and `DeadlinesNest` says that this is
all the deadlines ever gain: each ends by the invocation's plus that delay of the
process itself.  The transport subtracts what has elapsed since its own start
(`Elapsed`), so the wait before it consumes the pin is not among the gaps.  Timers
may fire late.  A choice without condition stands for data: whether a binding, an
authorization, a DNS answer, secret material or a header is acceptable, and what the
decoder makes of the body.  undici's own connect, header and body timeouts have the
limits of the code's timers and are classified alike; they are not separate actions.
The last catch of the dispatch (`invoke.ts:3028`), which reports `not_sent` for any
error that is not the transport's, is left out: the transport classifies every error
it raises, and nothing else in that `try` throws for the outcomes it builds.

The model also shows two roundings that change a label, not the dispatch state:
a lookup that times out may be reported as a plain transport failure, because
its timer is rounded down more often than the deadline it is judged by, and a
pin that expires before it is consumed is reported as a rejected authorization.
Nothing in the documentation rules this out, so neither is listed as a finding;
it matters because a timeout of the first kind is retried and an abort is not.

### StreamFraming, ProviderStream, ResponseDocument

The state of `StreamFraming` is the bytes received and the offsets where chunks
ended; what the decoders make of them is an operator of that state, so every
state is also a stream that broke off there.  A line's content is one symbol;
its two line-break bytes are two.

In `ProviderStream` the provider is arbitrary: any event may come next. `reader`
holds the local variables of the `normalize...` function, `read` the events, and
`status` what `decodeResponse` and the dispatch make of them at the end.  A response
in one piece is a `document`, and `ResponseDocument` has the five readers of
documents.  Four things the readers do that one would not guess: an `error` member
that is `null` still counts as a provider's error (`Object.hasOwn`); a Responses
document with a reasoning item beside its message is refused where LM Studio's is
accepted; a chat or Ollama document is read for its text alone, so one with tool
calls or reasoning beside it (`laden`) completes; and an answer cut off by its length
limit completes.  Of an Ollama stream that breaks off within a line, what is left is
no JSON: it fails, where the others are incomplete.

### CapabilityLease

`instant` is the monotonic clock; it may advance between any two readings of it,
in synchronous code too.  `canary` is the probe under way, `tokens` the entries
of `authorizationAuthorities` (a `WeakMap`, so a copied or foreign token is in
none), `request` the prepared invocation.  A shadow run never uses a lease: it
requires routes that the profile supports statically, and refuses a token there.

### Controller and ControllerLog

The variables of `Controller` are the fields of the snapshot; `windows` lists the
revisions of all ledgers in the order of their recording.  Guards that are only in
the validator (a decision recorded twice, limits of the schema, the age of a policy)
are conjuncts of the action, and `Coherent` restates the validator itself: that it
is an invariant says the validator refuses no further command.  `judged` is a
history variable.

`ControllerLog` has the predecessor links that `Controller` leaves out.  An
event's id covers its fact and its predecessor's id, so an id is the sequence of
facts up to it; a snapshot claims one, and that it is the state of that sequence
is what is to be shown.  `live` is `liveControllerSnapshots`, `replay` the replay
under way: events are delivered to it in any order, again, or not at all.  The
design (`src/docs/superpowers/specs/2026-07-27-trace-control-plane-design.md:332`)
calls replay "append-only and idempotent"; after a resume from a checkpoint only
the last event counts as known, and an earlier one that is delivered again makes
the replay fail.  It fails closed and drops nothing, which is what is proved.
The bound on events of a replay is no limit of its own: the snapshot's schema
bounds its sequence number by the same constant.

### EvidenceJoin and Assessment

The rows of a study arrive one by one and repeated if the caller repeats them.
The join sorts what it is given, so its inputs are bags.  `Verdict` is
`verifyEvaluatorEvidence`, in the order of its objections.  `Assessment` adds the
phase, the window manifest with its revisions, and the decision; `Decide` is
`nominateDevelopment`, `confirmHoldout` or `assessPolicyWindow` up to
`finishDecision`, whose contract may refuse it.  Scores, latencies and costs are
no numbers: which candidates clear the numeric gates is a free choice, so
whatever is checked holds for every outcome of them.  What is not free is
whether something may be compared at all.  The gate `critical-slice-quality` that
the contract knows is never emitted by `assessment.ts`.  Traces of shadow runs
always have an unavailable cost, so a decision on them alone is insufficient.

### Experiments

`assessment` and the history (`registered`, `findings`) are what the proposer
reads; `desk` holds proposals of any age, and an operator may register any of
them.  Duplicates are told apart with the budget's digest, so the bound of
`RegistrationSettles` is per budget.  Of several findings that match, only the
first is ever proposed.

### LegacyEvaluation

`development` and `holdout` are measurements with small numbers; replay, metrics
and gates are computed.  A case may have any number of replicates, which share its
traffic: `parts` is the unit of mass, a multiple of each case's number, so that the
shares are whole.  Means are totals over the same mass, the bootstrap
interval lies anywhere between the effects of its groups, and policies that tie
are ordered arbitrarily, as their digests do.  Between nomination and
confirmation the file may be edited and the spec revised.  The file may also be one
of the version before (`NominateBefore`, which is not under `src/`), whose specs had
no inference controls: confirmation takes its digest where the spec has the
defaults, and so is the code's check against the wrong spec modelled whole
(`OfThisSpec`).  The holdout drops the
gate on cost, and confirming evidence that is not synthetic always holds.

### CommandLine

A command process reads its files in the order of the code (files that one
`Promise.all` reads are unordered), compares each with those before it, and then
publishes or contacts.  A file is of an edition; what was written together agrees.
Files that lead to a contact are compared by some of their terms only
(`Terms`): `shadow run` compares the plan's digest whole, the targets of the
profiles, the endpoint bindings of profiles and trust, the study of the identity,
and holds the plan's attempt timeout against the trust's longest request; a probe
compares bindings.  Trust with other evaluators, or an identity that adds keys, is
accepted, as `network-policy.ts:890` says it should be; that the signing keys are
those of the identity is a check of the secret material, which may fail
(`RejectSecret`).  Operators replace files, edit a published decision, and kill
processes, at any moment.  Exit codes are those of `runCli`; no document states
them.  An error that no command names is exit 1, whatever was published or sent
before it (`FailInternally`).  `shadow run`
calls whatever stops it, other than an invocation's own error, a failure of its
output: exit 4 does not mean that nothing was sent.  A holdout reads the
nomination's `assessment.json` without its packet's manifest, but recomputes it.

## Runs

| run | parts and bounds | shows |
|---|---|---|
| `shadow_single` | 1 job, 2 attempts, 1 runner, clock 0..5 | with crashes and resumes, one job is one inference and `not_sent` is true, no dispatch past the admitted deadline, and runs end |
| `shadow_pair` | 1 job, 2 attempts, 2 runners, clock 0..2 | one dispatch per attempt, evidenced outcomes, one returned trace, and the refinement of `ShadowJournal` |
| `dispatch` | commands: 2 processes in 8 pairings, 4 editions, 1 interference; plan: 4 drafts, 2 profiles, 1 case of 2 replicates, 2 attempts of 2 instants, 2 executions, instants 1..11; scheduler: 3 jobs, every lane map, 2 slots, 2 attempts; call: 3 ms of deadline in half milliseconds, phases of 1 and 2 ms, half a ms of delay, 1 chunk, clock 0..8 | inputs belong together and exit codes are true; work is admitted and fits its time, orders are counterbalanced, contacts are under authority; lanes, turns and settlement; dispatch states are proofs, deadlines gain nothing but delay, cancelled calls wait for nothing, the refinement of `CallContract`, and calls end |
| `run_directory` | store: 3 calls, 2 packets; times: 2 executions, 2 attempts, instants 0..2, 3 shapes of an answer | true results, survival of whole packets, the refinement of `WriteOnceRecord`; with clocks that agree nothing built is refused |
| `control_plane` | controller: 2 policies, 2 windows, 3 revisions, 4 assessments, 11 events, time 0..3; log: 3 facts, 3 events, 2 live snapshots; framing: 6 bytes, 2 chunks; provider: text of 2, documents of 2 outputs; lease: 2 instances, 2 ticks per ms, instants 0..3; study: 2 cases, 6 traces and a few receipts, 4 rows, 2 manifests; experiments: one assessment of each kind, 4 findings, 4 budgets; first version: 4 specs, 4 developments of up to 3 replicates, 5 holdouts, 1 key | coherent snapshots and the refinement of `ControllerLifecycle`; histories; framing, completion, leases; the join, sealed and evidenced decisions and their contract; the loop at rest; the nominee and its confirmation |

Seven runs are expected to end in a violation; each shows that something the
documentation, a comment or a message of the code says is not what the code does.

| run | claim | what happens |
|---|---|---|
| `shadow_retry` | only a proven `not_sent` consumes a retry | two runners: one records `not_sent` for an attempt the other leased and sent meanwhile |
| `shadow_covers` | every leased attempt is in the accepted trace | a resume past the deadline stops before the lease of the next attempt |
| `shadow_orphan` | "shadow completion marker has no accepted trace" | another runner wrote both records between two reads |
| `dispatch_contact` | first contacts in declared order | a job whose lease expired while it waited makes its first contact on a retry |
| `artifact_lease` | the lease is durable before dispatch | after a failed flush, persistRecord returns the record as if it were durable |
| `clock_skew` | an expired lease becomes `sent_unknown` on resume | a lease issued by a clock behind the intent's has no outcome that the contract accepts |
| `ambiguous_cascade` | ambiguous outcomes stay unavailable in a replay | a cascade falls back over an ambiguous primary and is nominated on the expert's score |

The first of them is why `SingleInference` is checked with one runner only: it
fails with two.

Why the bounds are enough.  Jobs of `ShadowRunner` share nothing but their run's
cancellation and deadline, so one job meets every race of records; two attempts are
needed for a retry, and a third adds only a repetition of the second.  The clock of
`shadow_single` passes the lease expiry, the run deadline, the admitted deadline of a
resume and the protocol's expiry; that of `shadow_pair` passes a lease expiry and the
run deadline.  In `DispatchOrder`, two jobs of one lane and a job of another are the
smallest case with a blocked lane and a turn held back. The plan's drafts are a good
one and ones that miss by one record, by half the time, or by a policy that ends too
early; its window is long enough for an interrupted execution, a second one and its
expiry.  Each pair of commands meets in a file or in an output, and one interference
between any two reads separates every file from the rest, or replaces all of them; of
the three editions besides the old one, one is as good for a contact, one only grants
requests too short for the plan, and one differs in every term.  The controller
reaches a second revision after a recommendation, a rollback, a hold at each phase
and the expiry.  Three events are two branches of a fork after a common one.  Six
bytes hold two events, or one between line ends of two bytes, and a cut between any
two of them.  Four rows are a case with both profiles and two receipts of one output,
or two cases.  The clock of the call passes the deadline by two units, one of which
may be a delay, so that every timer can be late, every phase timer can fire before
the deadline and after it, and both parities of a rounding occur; the clock of the
lease separates any two readings.  Two packets and three calls give a winner, an
identical and a conflicting loser.

Constants whose name begins with `Max` in the comments marked "bound", and
`FinalInstant`, `LastInstant`, `MinSealed`, bound the models only; the other
constants of the configurations are parameters of the code.  `MinSealed` leaves
out windows over fewer rows, which the other phases have.

## Fairness

`FairSpec` of `ShadowRunner` assumes that time passes, that the run's timer
fires, and that an event loop runs what is ready: admission, return, and the
steps of a job that wait for no one.  Nothing is assumed of the endpoint, the
runtime's answer, the caller's signal, or a restart; `awaitDispatchSettlement`
races the answer against the lease expiry, which is why `RunsEnd` holds.
`DispatchFairness` of `MCDispatch` assumes for the scheduler that `processJob`
ends (that property) and that promise handlers run, and for a call that time
passes, that due timers fire, that the continuation of a settled promise runs,
and that `client.destroy` settles; the resolver, the secret factory, the endpoint
and the caller may be silent for ever.  Commands, plans and the parts of
`MCControlPlane` and `MCRunDirectory` are checked for safety only.

## Proofs

Eight modules hold 38 theorems that TLAPS checks for every value of the constants
that the named assumptions admit. Each of them but the first states a property that a
run checks on a small instance. An assumption says what the configuration or a schema
of the code says: that counters are natural numbers and budgets positive, that a
marker for "absent" is none of the values it stands in for (`NoneAssumption`,
`AdmissionAssumption`, `PolicyAssumption`, `TornAssumption`, `CommandAssumption`,
`LoopAssumption`, `AbsenceAssumption`, `ProviderStreamAssumption`), that the compared
fields of a row are what their schema makes them (`RowsAssumption`), that the
instants of an observation are natural numbers or null (`AttemptTimesAssumption`),
that specs and measurements are finite documents with natural numbers for what they
measure, a case has as many replicates of one side as of the other, and a unit
divides into the shares of each (`LegacyAssumption`). `CommandAssumption` adds that
terms are milliseconds and that a file is replaced by a file. `CallAssumption` bounds
the model's own clock from below. `PlanAssumption` says that the profiles of a
protocol and the cases of a run are distinct, that digests of one block can be
compared, that sizes and budgets are natural numbers, that a target is what its
binding digests, and that null is no lease and no execution. TLC evaluates all of
them. One theorem has a hypothesis of its own, `OneInference`: a single runner.

**Shadow runner** (`ShadowRunnerProofs`), for any number of runners, jobs and
attempts and any timing constants:

* `TypeCorrect`: `Spec => []TypeOK`
* `DispatchOnce`: `Spec => []DispatchedOnce`
* `OutcomesHaveEvidence`: `Spec => []OutcomeHasEvidence`
* `ReturnsAccepted`: `Spec => []ReturnedTraceIsAccepted`

None of these is inductive.  The strengthening is
`IInv == TypeOK /\ WorkersSound /\ RecordsSound`.  `WorkersSound` ties what a
runner remembers to the directory: at `turn` it owns the durable lease of the
attempt and the attempt is not dispatched yet; at `inflight` the request is on
the wire; a candidate outcome is one the wire and the lease bear out; at `finish`
and `done` it holds the accepted trace.  `RecordsSound` says the same of the
records: an attempt that was dispatched was leased, and an outcome claims no more
than the wire shows.  The argument for `DispatchOnce` is that a lease is created
once, so only one (runner, job, attempt) is ever at `turn` with it, and
`BeginDispatch` leaves `turn` for good.  `TypeCorrect` is the base of the others;
the runs do not repeat it.

**The journal** (`ShadowRunnerProofs`):

* `RunnersImplementJournal`: `Spec => ImplementsJournal`
* `DispatchesAdmitted`: `Spec => DispatchInsideAdmission`
* `OneInference`: `ASSUME OneRunner PROVE Spec => []SingleInference`

The refinement needs to know where a runner's trace comes from: `FollowInv` says
that what it has `seen` are the durable outcomes of the attempts before its own,
each of which allowed a retry; then every step that writes a record is the
journal's step of that record, and all others stutter.  `AdmitInv` says that
deadlines, planned expiries and durable leases lie within the first admission.
`AloneInv` is what one runner can rely on and two cannot: a durable `not_sent` is
true of the wire, and a leased attempt is reached by such outcomes only; it fails
with two runners, as `shadow_retry` shows, in the step that records `not_sent`
for an attempt that the other has leased.

**Scheduler** (`SchedulingProofs`), for any number of jobs, any lanes, slots and
attempts:

* `LanesAreKept`: `OrderSpec => []LaneDiscipline`
* `ContactsFollowThePlan`: `OrderSpec => []OrderUnlessExpired`

`SchedulerInv` has three parts.  `LanesSound`: of a job that was taken up, or has
contacted its endpoint, every earlier job of its lane is over and not pending,
and behind a pending job that was handled the lane is over; this is what makes
taking the first ready job safe.  `Turns`: a job has a turn in the order exactly
while it waits for one, and one that was released, or is past its turn, is never
waited for again.  `Ordered`: of two contacts out of order, the later one's lease
had expired.  `PumpStep` and `PumpKeeps` are about `#pump` alone and serve every
action; `FirstFew` is the counting argument that a refill stays within the slots.

**Plan** (`SchedulingProofs`), for any protocol, drafts, cases, digests and number
of executions:

* `ContactsAreAuthorized`: `PlanSpec => ContactsUnderAuthority`
* `OrdersAreCounterbalanced`: `PlanSpec => []OrderIsCounterbalanced`
* `WorkStaysAdmitted`: `PlanSpec => []WorkIsAdmitted`
* `WorkKeepsItsTime`: `PlanSpec => []WorkFitsItsTime`

`PlanInv` has two parts.  `PlanSound`: the plan is a draft that holds, its jobs are
the job list, and the deadline admitted first lies within the authority of the plan.
`ExecutionSound`: an execution began inside every validity with the targets of the
plan, its deadline is within the authority, and so is the lease of every attempt that
has yet to contact its endpoint.  So a contact before its lease ends is one before the
plan ends.  A resumed execution never contacts under a lease that an earlier one
wrote, whose deadline may differ.  `JobStep` is what all steps of a job have in
common.  The order needs no invariant but that the jobs are the list: `RanksDiffer`
says that the replicates of a block have as many ranks as there are profiles,
`SampleNumbered` that numbering the sample by what comes before it leaves no number
out, and `Rotation` that two rotations of the profiles with the same profile at one
place are by the same rank.

The budgets take two invariants more.  `WorkInv`: a job was contacted at most once
for each of its leases and has at most as many outcomes as it may have attempts
(`Counted`); the attempt it is at is the one after those with an outcome, and a lease
just taken is not used yet (`Staged`); and nothing is done under a plan whose budget
does not admit all of it.  Every execution counts from zero, but the leases and
outcomes of a job are all its executions', and there are only so many of each.
`TimeInv` is about a run that nothing interrupted and that was never idle: the time
since its start, and the end of every lease in use, are at most that of the leases
taken so far (`SpentBy`), and no attempt to come has a lease.  An instant passes only
under a lease that has not ended, so the first is kept; a new lease ends at most one
timeout later, so the second is.  An attempt that is yet to begin is one of those the
wall-clock budget was computed for and that has no lease, so its timeout is left.

Sums over the jobs are `SumFunction` of the community modules, a fold.  What the two
theorems need of them (`SumStep`, `SumWithin`, `SumAtMost`, `SumAdded`) is proved in
`FiniteSums` by `SubsetInduction`: induction over the subsets of a finite set, stated
for the set of those for which the claim holds, since no operator can be given to a
theorem.

**Packet store** (`ArtifactStoreProofs`), for any set of calls and packets:

* `ResultsTrue`: `StoreSpec => []TruthfulResult`
* `WrittenKept`: `StoreSpec => WrittenSurvives`
* `RecordIsWriteOnce`: `StoreSpec => ImplementsWriteOnce`

`StoreInv` says what one call remembers of the target (`CallSound`), that at most
one call has published (a rename onto an empty target finds no publisher), and,
where flushing works, that what is at the target was flushed before, and its name
before anybody was told.  A loss of power is the abstract record's loss; where
flushing works it takes only what nobody was told of.

**The times of a job** (`ArtifactStoreProofs`), for any number of executions, any
instants, timeouts and observations of the wire:

* `NoCheckFails`: `TimesSpec => OnlyLateCollectionFails`

Where the clocks agree, every record that an execution writes passes every check
that any execution makes of it later.  `TimesInv` says what is in the records and
what is in the hands of an execution: the instants of the intent, of a lease and of
an outcome are in order and within their deadlines (`IntentSound`, `LeaseSound`,
`OutcomeSound`), and so are those an execution has read or is about to write, up to
what its own clock shows (`OwnSound`, `MemorySound`).  `OutcomeAccepted` and
`TraceAccepted` are the contract checks themselves: what the invariant says of the
instants is enough for each of them, but for the end of the collection.  `TimesStep`
proves the action property along with the invariant.

**Runtime call and lease** (`RuntimeProofs`), for every grain of the clock,
deadline and limit:

* `DispatchProved`: `Spec => []DispatchIsProof`
* `KeepsContract`: `Spec => ImplementsContract`
* `CancelProved`: `Spec => []CancelledCallWaitsForNothing`
* `DeadlinesProved`: `Spec => []DeadlinesNest`
* `OneLeaseCovers`: `LeaseSpec => []LeaseCovers`

The first two rest on `CallInv == StateSound /\ OutcomeSound`: the transport's
dispatch state is as strong as the point the call has reached (nothing is
connected before `head`, the answer has ended at `decoding`), and the outcome
that waits for the client, or was reported, is borne out by the wire and the
answer.  It takes the second part because the report is made long after the
error, when the transport's state is gone.  `StepShape` says that a step moves
either the wire or the report, which gives the refinement.  `CancelProved` needs
that the signal is not aborted at `lookup`, where no await lets the caller in.
`DeadlinesProved` rests on `RoundingDown`, `Grain * (a \div Grain) <= a`, and on
what `GapSound` says of a reading that is yet to be used: counted from the instant
of its reading it ends by the deadline that was read, so counted from now it ends
by that deadline and the delay since.  A delay of the bounded model is at most
`MaxDelay`; the theorem holds for every value of that, too.
`LeaseInv` of the last one keeps what the preparation saw of a token after the
token is gone: the deadline of the call lies within the life of a canary that was
answered for this very route and instance.

**Decoders** (`RuntimeProofs`), for streams of any length, cut into chunks anywhere:

* `CompletedResponsesAreWhole`: `ProviderSpec => []CompletedIsWhole`
* `DecodersStand`: `FramingSpec => []ReportStands`

`CompletedIsWhole` speaks of the whole stream, the code only of the event at hand.
`StreamInv` is what the local variables of each reader say of everything read so
far: for `chat/completions` how many events of which kind (`ChatInv`), for Responses
which stage each position of the stream was read in (`ResponsesInv`), for LM Studio
which part is open, where it began and what came within it (`LmStudioInv`,
`PartRead`).  One step of a reader is then one more position
(`OneMoreEvent`).  An event is refused where the reader's step is not enabled; the
proof never looks into that, since a refused event ends the call as failed.

`ReportStands` says that no byte after the ending that a provider sent makes the
decoder report anything else, but at most refuse the stream, and that each event is
stamped with the chunk in which its last byte arrived.  Lines, frames and items are
given by positions in the bytes; a byte changes nothing before it (`LinesStay`,
`FramesStay`, `LineStay`).  So with one byte more the events are the same, or one
more, or the last of them is refused (`SseGrows`, `NdjsonGrows`); the elements of a
finite set of positions taken in order (`OrderedIn`) grow at their end only
(`OrderedGrows`), and what was an ended stream is refused with anything after it.  The
decoder finds the chunk of an event by binary search over the offsets of chunks.  The
search is a recursion over spans; `SearchExists` gives a function that satisfies it
and `SearchFinds` shows, by the length of the span, that whatever satisfies it finds
the least chunk that reaches the offset.  `FramingInv` says that this is the chunk in
which the byte arrived.

**Controller** (`ControllerProofs`), for any protocol and any bounds:

* `SnapshotsCoherent`: `Spec => []Coherent`
* `CommandsImplementLifecycle`: `Spec => ImplementsLifecycle`
* `HoldsHistories`: `LogSpec => []SnapshotIsAHistory`
* `DropsNothing`: `LogSpec => []NothingIsDropped`

`Coherent` is what the validator asks, in terms of counts and filters of lists.
`ControllerInv` says it in terms of positions: the first assessment is of
development, the second of the holdout, the rest of windows, each on a recorded
manifest; a ledger's revisions are numbered through; a state fixes the number of
events behind it.  `SnapshotsCoherent` is that the commands keep the one and that
it implies the other.  For the log the invariant `History` says of every live
snapshot, every checkpoint and the snapshot of a replay that its facts are those
its last event names and that this event was emitted, and that each event
delivered to a replay is or precedes the last event of its snapshot.  The step
that needs an argument is a replayed event: it extends the snapshot only if its
predecessor is the snapshot's last event, so the extension is the event itself,
which some process emitted.

**Join and assessment** (`AssessmentProofs`), for any rows, signers, policies and
contexts:

* `NoScoreIsReplaced`: `StudySpec => ScoreIsNeverReplaced`
* `AdmissibleDatasetsAreWhole`: `StudySpec => []AdmissibleIsComplete`
* `PassesRestOnEvidence`: `StudySpec => []PassRestsOnEvidence`
* `PassesAreSealed`: `StudySpec => []PassIsSealed`
* `NoDecisionIsRefused`: `StudySpec => []DecisionContractHolds`

One more row only grows the conflicting and repeated ones and so only shrinks the
undisputed ones: what an execution is scored by was its only matching receipt
before, or the execution is not scored.  An admissible dataset has no diagnostic
left, and each diagnostic, taken negatively, is a conjunct of completeness.
`StudyInv` joins the types of the rows (`RowsInv`) with what a window's phase and
manifest say of each other (`ManifestInv`); the decision properties are then
facts about one call of assess, for everything it may be given (`Given`).

**Experiments and the first version** (`AssessmentProofs`), for any assessments,
findings, budgets, specs, measurements and keys:

* `ExperimentsSettle`: `LoopSpec => []RegistrationSettles`
* `TheNomineeIsConfirmed`: `LegacySpec => []ConfirmsTheNominee`
* `TheNomineeIsBest`: `LegacySpec => []NomineeIsBest`

What can be diagnosed (`Matches`) is one thing for the assessment and one for each
finding that concerns it, and findings only add to it (`MatchesGrow`).  By `LoopInv`
every registered intent is that of a match within the entry's budget, and a history
that holds has no intent twice, so entries of one budget are an injection into the
matches (`RegisteredMatches`).  That no proposal is refused is two computations, with
a finding (`FindingProposed`) and without (`OtherProposed`).  `NominationInv` says
that the file of a nomination carries the digest of what was nominated, which no
edit of the file changes; a file whose body is not under its digest is rejected.

`NomineeIsBest` says of the nominee that no candidate that passes the gates
dominates it, is cheaper, or is as cheap and faster, though the code looks only at
those that no other dominates.  Metrics are natural numbers, being sums and quantiles of
natural numbers (`RowsAddUp`, `QuantileType`, `MetricsType`), so dominance is
transitive (`DominatesTransitive`), and each dominated candidate is dominated by
one of the frontier: by that of its dominators which has the fewest itself
(`FrontierCovers`).  The first of a frontier in the order of preference is then
best among all (`PreferredIsBest`, `NominatesTheBest`).  None of this asks how many
cases there are or how often each was run.

**Command line** (`CommandLineProofs`), for any processes, commands, files and
any number of interferences:

* `ExitsSayWhatIsThere`: `CommandSpec => []ExitSaysWhatIsThere`
* `InputsAreTogether`: `CommandSpec => []InputsBelongTogether`

`CommandInv` has three parts.  `CommandTyped` says what files, packets and
decisions may hold; of it the proofs need above all that neither a decision nor a
packet is the marker for nothing.  `StepSound` says that a process past its reads
is `Prepared`: nothing is pending and what it read was accepted, and that does not
change, for only its own reads change what it has seen.  `PacketSound` says the
same of whoever published a packet, at its own output and with the decision that
it saw as lineage; an operator who edits the packet changes neither.  Both theorems
are then facts about one prepared process.  `AllRead` is the argument that such a
process has read all it compares: were a file unread, the first read with one would
be pending (`LeastNumber`), and comparisons pass over what is not read yet.

What proof attempts changed. `PassRestsOnEvidence` used to say that the receipts
of a favourable decision's scores are the only trusted ones for their outputs.
That is false where another evaluator than the pinned one is trusted for other
purposes: the join skips receipts of evaluators that the protocol does not pin.
The instance of `control_plane` had pinned every key it knew; it now has a key
that is trusted and not pinned, and the property speaks of the pinned evaluator,
as the join does. `Pump` was restated from a choice of the loop's last turn to a
quantifier over it, and copies of a row are read from the bag directly, so that
both can be reasoned about; neither changes what the model does. The reads of
`CommandLine` are written out command by command, since the provers see no
further than a sequence's length through a concatenation. In `CollectionPlan` a
replicate's rank is the number of replicates of its block that come before it,
its place in the sample the number of sampled ones before it, and the job list a
function of the index, where there were sorts and concatenations: counting
arguments about them need no induction. In `Experiments` the diagnoses are names
in order with a condition each, where a sequence of pairs was filtered; in
`LegacyEvaluation` "not nominated" is a status of its own, so that nothing has
to be assumed of the marker for nothing.

`DeadlinesNest` used to say that the deadlines nest outright, and held only because
the model read the clock once where the code reads it twice; with a step for each
reading TLC finds the pin ending after the invocation's deadline, and the property
now names the delay that this takes.  `InputsBelongTogether` used to compare whole
files before a contact; it now compares what the code does.  `LegacyEvaluation`
fixed the unit of mass for at most two replicates; the unit is now part of the
measurements, and the median that of any number of gains.

The decoders were a recursion over chunks, frames and tokens.  They are now stated
by positions: the lines and frames of a stream, the data of a frame as offsets, what
a whole stream of events is as a table of what may stand where.  The one recursion
that is left is the code's own, the binary search, as a function over its spans.
The times of an attempt are ascending by a condition on pairs of instants, and sums
of weights a fold.  Two definitions turned out to say less than TLC had checked:
`Whole` of `ProviderStream` and `Verdict` of `EvidenceJoin` were `CASE`s whose guards
overlap, of which TLC takes the first and TLA+ any.  The order, which is the code's,
is now explicit.

Model-checked only: liveness (`RunsEnd`, `EveryRunSettles`, `CallEnds`), which needs
`ENABLED` and fairness and is beyond the prover.  Every safety invariant and every
action property of the passing runs is stated by a theorem.  The runs that expect a
violation claim what the code does not keep.

## Plan

The models planned at the start are written, and the safety properties of the runs
proved.  What would be worth adding, in this order: models of the numeric gates and
slices of the second version, as far as they are sums over rows; the limits on sizes
and the byte order mark in `StreamFraming`; and the compatibility tables of
`runtime/profiles.ts`, which decide what a plan may ask of a runtime.

## Not modelled, and why

Cryptography, canonical JSON, schema validation, redaction, work budgets of the
parsers and the translation of requests are functions of data with no order to
get wrong, and outside TLC's reach.  Floating-point statistics and the bootstrap
have no TLA+ counterpart; models that depend on them leave their result open.
Of the second version's assessment the critical slices, traffic mass, the
assignment of cases to splits and the sampling of window members by bucket are
left out: they are sums and digests over the rows that the model has.  Whether a
decision is authentic after a restart is modelled in `ControllerLog` and
`CommandLine` only as far as they recompute it.  Argument parsing, diagnostics,
reports (`report.ts`) and the metrics of a response are layout; the evidence
tables of `runtime/profiles.ts` are constants.  A probe's own validation of the
answer is the choice between support and none.
