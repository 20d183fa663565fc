----------------------------- MODULE Assessment -----------------------------
(***************************************************************************)
(* Policies, windows and the assessment of a joined dataset:               *)
(* src/policy.ts (bundles), src/window.ts, src/assessment.ts and           *)
(* src/assessment-contract.ts.                                             *)
(*                                                                         *)
(* One phase is under way: its rows arrive, its window is sealed and       *)
(* sealed again for late rows, and then it is assessed, with a context and *)
(* a policy the caller picks; an assessment leaves nothing behind but its  *)
(* decision.  Scores, latencies and costs are not numbers here: which      *)
(* candidates clear the gates that compare them is a free choice.  What    *)
(* the code decides before it compares is modelled: identities, times,     *)
(* which executions a policy uses, which of them have a score and a cost,  *)
(* and how candidates make a decision.                                     *)
(***************************************************************************)
EXTENDS EvidenceJoin

CONSTANTS
    Predicates,       \* of the candidate policy space: operator, threshold
    Bundles,          \* policies that a caller may present as frozen
    Contexts,         \* assessment contexts
    WindowStart, WindowEnd,
    Watermarks,
    CapacityEvidence, \* capacityEvidence of a manifest
    MinimumGroups,    \* minimumIndependentGroups
    CapacityRequired, \* the service-capacity gate is not disabled
    MinSealed,        \* bound: rows that arrive before the window is sealed
    MaxManifests      \* bound: revisions of the window

ASSUME AssessmentAssumption ==
    /\ {WindowStart, WindowEnd, MinSealed, MaxManifests} \subseteq Nat
    /\ Watermarks \subseteq Nat
    /\ MinimumGroups \in Nat \ {0}
    /\ CapacityRequired \in BOOLEAN

\* A protocol has a candidate; null is neither a policy nor a decision.
ASSUME PolicyAssumption ==
    /\ Candidates # {}
    /\ \A c \in Contexts : c.asOf \in Nat
    /\ \A b \in Bundles : b.issuedAt \in Nat
    /\ Absent \notin [kind : {"expert-only", "fast-only", "cascade"},
                     primary : Candidates \cup {Champion},
                     predicate : Predicates \cup {Absent}, issuedAt : Nat]
    /\ Absent # [status |-> "REFUSED"]

VARIABLES
    phase,      \* AssessmentPhase
    manifest,   \* the last revision of the window manifest
    decision    \* the last decision

studyVars == <<traceRows, receiptRows, phase, manifest, decision>>

-----------------------------------------------------------------------------
(* Policy bundles.                                                         *)

\* The control, which is not a candidate.
ControlBundle(issued) ==
    [kind |-> "expert-only", primary |-> Champion, predicate |-> Absent,
     issuedAt |-> issued]

\* enumerateProtocolPolicyBundles
CandidateBundles(issued) ==
    {[kind |-> "fast-only", primary |-> c, predicate |-> Absent,
      issuedAt |-> issued] : c \in Candidates}
    \cup
    {[kind |-> "cascade", primary |-> c, predicate |-> p, issuedAt |-> issued] :
        c \in Candidates, p \in Predicates}

\* assertPolicyBundleMatchesProtocol: what may be frozen.
FrozenBundles ==
    {b \in Bundles :
        /\ Created <= b.issuedAt /\ b.issuedAt < Expires
        /\ b \in CandidateBundles(b.issuedAt) \cup {ControlBundle(b.issuedAt)}}

Fires(predicate, value) ==
    CASE predicate.operator = "less-than" -> value < predicate.threshold
      [] predicate.operator = "less-than-or-equal" -> value <= predicate.threshold
      [] predicate.operator = "greater-than" -> value > predicate.threshold
      [] predicate.operator = "greater-than-or-equal" -> value >= predicate.threshold

-----------------------------------------------------------------------------
(* Window manifests.                                                       *)

\* The digests of the rows it was sealed over: no row is ever taken back, so
\* the numbers of rows identify them.
Arrived == [traces |-> BagCardinality(traceRows), receipts |-> BagCardinality(receiptRows)]

Manifest(policy, watermark, capacity, revision) ==
    [policy |-> policy, watermark |-> watermark, capacity |-> capacity,
     revision |-> revision, sources |-> Arrived]

\* assertWindowManifestBodySemantics
ManifestHolds(m) == WindowStart < WindowEnd /\ WindowEnd <= m.watermark

\* createWindowManifestRevision: time does not go back and something is new.
MayRevise(m, watermark, capacity) ==
    /\ m.watermark <= watermark
    /\ m.sources # Arrived \/ m.capacity # capacity

\* assertTraceBelongsToWindow
TraceInWindow(trace, m) ==
    /\ WindowStart <= trace.started /\ trace.started < WindowEnd
    /\ trace.completed <= m.watermark

\* Faulty variant: evidence is accepted whenever it was produced.
EvidenceAnyTime(x, m) == TRUE

\* assertAcceptedEvaluatorEvidenceWithinWindowWatermark
EvidenceInWindow(x, m) ==
    x.outcome.accepted => x.outcome.receipt.evidence.producedAt <= m.watermark

-----------------------------------------------------------------------------
(* Replay.                                                                 *)

\* What an execution's outcome says of its score.
ScoreOf(outcome) ==
    CASE outcome.kind \in {"scored", "protocol-failure-zero"} ->
             [available |-> TRUE, reason |-> Absent]
      [] OTHER -> [available |-> FALSE, reason |-> outcome.kind]

\* replayDirect
Direct(x) ==
    [case |-> x.trace.case, group |-> x.trace.group, attempted |-> {x},
     selected |-> x, score |-> ScoreOf(x.outcome), costed |-> x.trace.costed]

\* combineFallback: the expert's score, and the cost of both.
Fallback(x, expert) ==
    [Direct(expert) EXCEPT !.attempted = {x, expert},
                           !.costed = x.trace.costed /\ expert.trace.costed]

\* The row of one case and replicate.
ReplayRow(policy, primary, expert) ==
    CASE policy.kind = "expert-only" -> Direct(expert)
      [] policy.kind = "fast-only" -> Direct(primary)
      [] policy.kind = "cascade" /\ primary.trace.signal # Absent ->
             IF Fires(policy.predicate, primary.trace.signal) THEN Direct(expert)
             ELSE IF primary.trace.terminal = "success" THEN Direct(primary)
             ELSE Fallback(primary, expert)

Of(executions, case, profile) ==
    {x \in executions : x.trace.case = case /\ x.trace.profile = profile}

CasesIn(executions) == {x.trace.case : x \in executions}

\* replayPolicy
ReplayedCases(policy, executions) ==
    {c \in CasesIn(executions) :
        /\ Of(executions, c, policy.primary) # {}
        /\ Of(executions, c, Champion) # {}
        /\ policy.kind = "cascade" =>
               \A x \in Of(executions, c, policy.primary) : x.trace.signal # Absent}

Replay(policy, executions) ==
    UNION {{ReplayRow(policy, p, e) : p \in Of(executions, c, policy.primary),
                                      e \in Of(executions, c, Champion)} :
              c \in ReplayedCases(policy, executions)}

\* Faulty variant: a case that cannot be replayed is left out.
ReplayWithoutReasons(policy, executions) == {}

\* missing-required-profile and missing-route-signal
ReplayReasons(policy, executions) ==
    IF ReplayedCases(policy, executions) = CasesIn(executions)
    THEN {} ELSE {"missing-required-profile-or-signal"}

-----------------------------------------------------------------------------
(* Candidates.                                                             *)

RowReasons(rows) == {r.score.reason : r \in {r \in rows : ~r.score.available}}

\* Groups with a case that is scored in both replays.
PairedGroups(rows, controlRows) ==
    {r.group : r \in {r \in rows :
        /\ r.score.available
        /\ \E q \in controlRows : q.case = r.case /\ q.score.available}}

\* serviceCapacityFor: no capacity that a manifest can report is measured.
CapacityMissing == phase = "window" /\ CapacityRequired

\* Why nothing may be inferred: the insufficiencyReasons.
Insufficiencies(policy, control, executions) ==
    LET rows == Replay(policy, executions)
        controlRows == Replay(control, executions)
    IN  ReplayReasons(policy, executions) \cup ReplayReasons(control, executions)
        \cup RowReasons(rows) \cup RowReasons(controlRows)
        \cup {reason \in {"capacity", "coverage", "cost", "groups"} :
                 \/ reason = "capacity" /\ CapacityMissing
                 \/ reason = "coverage" /\ rows \cup controlRows = {}
                 \/ reason = "cost" /\ (rows = {} \/ \E r \in rows : ~r.costed)
                 \/ reason = "groups" /\ Cardinality(PairedGroups(rows, controlRows))
                                            < MinimumGroups}

\* candidateAssessment.  Without inference the paired-quality gate fails.
Candidate(policy, control, executions, clears) ==
    LET reasons == Insufficiencies(policy, control, executions)
    IN  [policy |-> policy, replay |-> Replay(policy, executions),
         reasons |-> reasons, inferred |-> reasons = {},
         gatesFail |-> reasons # {} \/ ~clears,
         status |-> IF reasons # {} THEN "INSUFFICIENT_EVIDENCE"
                    ELSE IF clears THEN "PASS" ELSE "HOLD"]

\* staleCandidate
StaleCandidate(policy) ==
    [policy |-> policy, replay |-> {}, reasons |-> {}, inferred |-> FALSE,
     gatesFail |-> FALSE, status |-> "STALE"]

-----------------------------------------------------------------------------
(* Staleness.                                                              *)

StaleStatuses == {"revoked", "stale", "future-dated", "key-not-yet-valid", "key-expired"}

\* The receipts are of the assessment's own context.
ContextAgrees(context) ==
    \A r \in Present(receiptRows) :
        r.authentic => r.context = context /\ r.status # "context-mismatch"

\* The policy was frozen before its window began, and that is over.
WindowWasSealed(policy, context) ==
    /\ WindowEnd <= context.asOf
    /\ manifest.watermark <= context.asOf
    /\ policy.issuedAt <= WindowStart

\* staleReasonsFor: whether there are any.
IsStale(policy, executions, context) ==
    \/ ~ContextAgrees(context)
    \/ context.asOf < Created \/ Expires <= context.asOf
    \/ policy # Absent /\ policy.issuedAt > context.asOf
    \/ phase = "window" /\ ~WindowWasSealed(policy, context)
    \/ \E r \in Present(receiptRows) : r.authentic /\ r.status \in StaleStatuses
    \/ \E x \in executions :
           \/ x.trace.completed > context.asOf
           \/ /\ x.outcome.receipt # Absent
              /\ x.outcome.receipt.evidence.producedAt > context.asOf

\* assertAssessmentDatasetIntegrity and the membership of each row; a decision
\* on stale rows uses none of them.
IntegrityHolds(executions) ==
    /\ StructuralReasons(traceRows, receiptRows) = {}
    /\ phase = "window" =>
           \A x \in executions :
               TraceInWindow(x.trace, manifest) /\ EvidenceInWindow(x, manifest)

-----------------------------------------------------------------------------
(* Decisions.                                                              *)

Assessed(policy, control, executions, context, frozen, clearing) ==
    IF IsStale(frozen, executions, context) THEN StaleCandidate(policy)
    ELSE Candidate(policy, control, executions, policy \in clearing)

\* Faulty variant: candidates without evidence are passed over.
DevelopmentStatusOfSome(candidates) ==
    IF \E c \in candidates : c.status = "STALE" THEN "STALE"
    ELSE IF \E c \in candidates : c.status = "PASS" THEN "NOMINATED"
    ELSE IF \E c \in candidates : c.status = "INSUFFICIENT_EVIDENCE"
         THEN "INSUFFICIENT_EVIDENCE"
    ELSE "NO_CANDIDATE"

DevelopmentStatus(candidates) ==
    IF \E c \in candidates : c.status = "STALE" THEN "STALE"
    ELSE IF \E c \in candidates : c.status = "PASS" THEN "NOMINATED"
    ELSE IF \A c \in candidates : c.status = "INSUFFICIENT_EVIDENCE"
         THEN "INSUFFICIENT_EVIDENCE"
    ELSE "NO_CANDIDATE"

\* selectDevelopmentCandidate: a passing one; which depends on its cost.
Selectable(candidates) ==
    IF \E c \in candidates : c.status = "PASS"
    THEN {c.policy : c \in {c \in candidates : c.status = "PASS"}}
    ELSE {Absent}

IssueTime(context) ==
    IF Created <= context.asOf /\ context.asOf < Expires THEN context.asOf ELSE Created

\* The candidate schema: each assessment by its status.
CandidateHolds(c) ==
    /\ c.status = "PASS" => c.reasons = {} /\ ~c.gatesFail /\ c.inferred
    /\ c.status = "HOLD" => c.reasons = {} /\ c.gatesFail /\ c.inferred
    /\ c.status = "INSUFFICIENT_EVIDENCE" => c.reasons # {} /\ ~c.inferred
    /\ c.status = "STALE" => c.replay = {} /\ c.reasons = {} /\ ~c.inferred
    /\ \A r \in c.replay :
           r.score.available /\ r.selected.trace.terminal # "success"
               => r.selected.outcome.kind = "protocol-failure-zero"

\* Of development: the status is that of its candidates, and only a nomination
\* selects.
DevelopmentHolds(d) ==
    LET statuses == {c.status : c \in d.candidates}
    IN  /\ d.status \in {"NOMINATED", "NO_CANDIDATE", "INSUFFICIENT_EVIDENCE", "STALE"}
        /\ d.status = "NOMINATED" <=> d.selected # Absent
        /\ d.status = "NOMINATED" =>
               \E c \in d.candidates : c.policy = d.selected /\ c.status = "PASS"
        /\ d.status = "NO_CANDIDATE" => "HOLD" \in statuses /\ "PASS" \notin statuses
        /\ d.status = "INSUFFICIENT_EVIDENCE" => statuses = {"INSUFFICIENT_EVIDENCE"}

\* Of holdout and window: the frozen policy is the only candidate.
FrozenHolds(d) ==
    /\ d.status \in {"PASS", "HOLD", "INSUFFICIENT_EVIDENCE", "STALE"}
    /\ \E c \in d.candidates :
           d.candidates = {c} /\ c.policy = d.selected /\ c.status = d.status

\* assertDecisionSemantics
DecisionHolds(d) ==
    /\ \A c \in d.candidates \cup {d.control} :
           CandidateHolds(c) /\ (c.status = "STALE" <=> d.stale)
    /\ d.control.policy.kind = "expert-only"
    /\ d.phase = "window" <=> d.manifest # Absent
    /\ IF d.phase = "development" THEN DevelopmentHolds(d) ELSE FrozenHolds(d)
    /\ d.status = "STALE" <=> d.stale

\* What finishDecision leaves of a decision that its contract refuses: an error.
Refused == [status |-> "REFUSED"]

\* assess, when nothing before finishDecision throws.
Decide(policies, frozen, context, clearing) ==
    LET executions == Executions(traceRows, receiptRows)
        control == ControlBundle(IssueTime(context))
        Assess(p) == Assessed(p, control, executions, context, frozen, clearing)
        candidates == {Assess(p) : p \in policies}
    IN  /\ ~JoinThrows(traceRows)
        /\ IsStale(frozen, executions, context) \/ IntegrityHolds(executions)
        /\ \E chosen \in IF frozen = Absent THEN Selectable(candidates) ELSE {frozen} :
               LET made == [phase |-> phase, context |-> context, manifest |-> manifest,
                            control |-> Assess(control), candidates |-> candidates,
                            selected |-> chosen,
                            stale |-> IsStale(frozen, executions, context),
                            status |-> IF frozen = Absent THEN DevelopmentStatus(candidates)
                                       ELSE (CHOOSE c \in candidates : TRUE).status]
               IN  decision' = IF DecisionHolds(made) THEN made ELSE Refused
        /\ UNCHANGED <<traceRows, receiptRows, phase, manifest>>

StudyInit ==
    /\ JoinInit
    /\ phase \in {"development", "holdout", "window"}
    /\ manifest = Absent
    /\ decision = Absent

Collect ==
    /\ decision = Absent
    /\ RowArrives
    /\ UNCHANGED <<phase, manifest, decision>>

\* The operator seals what has arrived.
Seal(policy, watermark, capacity) ==
    /\ phase = "window" /\ manifest = Absent /\ decision = Absent
    /\ Arrived.traces + Arrived.receipts >= MinSealed
    /\ ManifestHolds(Manifest(policy, watermark, capacity, 1))
    /\ manifest' = Manifest(policy, watermark, capacity, 1)
    /\ UNCHANGED <<traceRows, receiptRows, phase, decision>>

\* createWindowManifestRevision, after late rows.
Revise(watermark, capacity) ==
    /\ manifest # Absent /\ decision = Absent
    /\ manifest.revision < MaxManifests
    /\ MayRevise(manifest, watermark, capacity)
    /\ LET next == Manifest(manifest.policy, watermark, capacity, manifest.revision + 1)
       IN  ManifestHolds(next) /\ manifest' = next
    /\ UNCHANGED <<traceRows, receiptRows, phase, decision>>

NominateDevelopment(context) ==
    /\ phase = "development" /\ decision = Absent
    /\ \E clearing \in SUBSET CandidateBundles(IssueTime(context)) :
           Decide(CandidateBundles(IssueTime(context)), Absent, context, clearing)

\* The policy is that of an authentic nomination.
ConfirmHoldout(policy, context) ==
    /\ phase = "holdout" /\ policy.kind # "expert-only" /\ decision = Absent
    /\ \E clearing \in SUBSET {policy} : Decide({policy}, policy, context, clearing)

\* The manifest is of this policy and of exactly these rows.
AssessPolicyWindow(policy, context) ==
    /\ phase = "window" /\ manifest # Absent /\ decision = Absent
    /\ manifest.policy = policy
    /\ manifest.sources = Arrived
    /\ \E clearing \in SUBSET {policy} : Decide({policy}, policy, context, clearing)

StudyNext ==
    \/ Collect
    \/ \E p \in FrozenBundles, w \in Watermarks, c \in CapacityEvidence : Seal(p, w, c)
    \/ \E w \in Watermarks, c \in CapacityEvidence : Revise(w, c)
    \/ \E c \in Contexts :
           \/ NominateDevelopment(c)
           \/ \E p \in FrozenBundles : ConfirmHoldout(p, c) \/ AssessPolicyWindow(p, c)

StudySpec == StudyInit /\ [][StudyNext]_studyVars

-----------------------------------------------------------------------------
(* Properties.                                                             *)

Favourable == decision # Absent /\ decision.status \in {"NOMINATED", "PASS"}

Chosen == CHOOSE c \in decision.candidates : c.policy = decision.selected

\* What a favourable decision says of time: the policy was frozen before the
\* window, every execution began in it and ended, and every score it was given
\* was produced, after that end and before the watermark, and the watermark
\* was past when the decision was made, with the protocol still in force and
\* the key of each score not revoked.
PassIsSealed ==
    Favourable /\ decision.phase = "window" =>
        LET asOf == decision.context.asOf
            watermark == decision.manifest.watermark
        IN  /\ decision.selected.issuedAt <= WindowStart
            /\ WindowEnd <= watermark /\ watermark <= asOf /\ asOf < Expires
            /\ \A t \in Present(traceRows) :
                   /\ WindowStart <= t.started /\ t.started < WindowEnd
                   /\ t.completed <= watermark
            /\ \A r \in Chosen.replay : r.selected.outcome.kind = "scored" =>
                   LET e == r.selected.outcome.receipt.evidence
                   IN  /\ r.selected.trace.completed <= e.producedAt
                       /\ e.producedAt <= watermark
                       /\ Trust.keys[e.key].revokedAt > asOf

\* A favourable decision leaves no case out and invents no score: each case
\* that was submitted, under any profile, is replayed by the policy and by the
\* control, and each replayed execution is a failure or has the one score that
\* the pinned evaluator gives it, by a trusted receipt of the decision's own
\* context.
PassRestsOnEvidence ==
    Favourable =>
        \A replay \in {Chosen.replay, decision.control.replay} :
            /\ {t.case : t \in Present(traceRows)} = {r.case : r \in replay}
            /\ \A r \in replay : LET x == r.selected IN
                   \/ x.trace.terminal # "success" /\ x.outcome.kind = "protocol-failure-zero"
                   \/ /\ x.outcome.kind = "scored"
                      /\ x.outcome.receipt \in Present(receiptRows)
                      /\ x.outcome.receipt.authentic
                      /\ x.outcome.receipt.status = "trusted"
                      /\ x.outcome.receipt.context = decision.context
                      /\ {q \in Present(receiptRows) :
                            Acceptable(q) /\ JoinKey(q.evidence) = JoinKey(x.trace)}
                            = {x.outcome.receipt}

\* The decision contract refuses nothing that assess makes: finishDecision never
\* throws, whatever the evidence and the gates say.
DecisionContractHolds == decision # Refused

\* docs/design.md says of replay that "unavailable or ambiguous outcomes stay
\* unavailable".  A cascade whose primary was sent, and may have been answered,
\* falls back to the expert and takes its score.
PassHasNoAmbiguity ==
    Favourable =>
        \A r \in Chosen.replay : \A x \in r.attempted : ~x.trace.ambiguous

=============================================================================
