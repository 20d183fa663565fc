----------------------------- MODULE Experiments -----------------------------
(***************************************************************************)
(* The loop that follows an assessment, src/experiments.ts: a proposer     *)
(* reads one assessment and a history of registered experiments and        *)
(* findings, and proposes one experiment or holds; an operator registers   *)
(* what was proposed.                                                      *)
(*                                                                         *)
(* The proposer keeps nothing, so proposals of several readings, some of   *)
(* them old, lie on the operator's desk.  The history is a document; what  *)
(* the code contributes is which documents it accepts.  A digest is the    *)
(* content it covers.                                                      *)
(***************************************************************************)
EXTENDS Naturals, FiniteSets, SequencesExt

CONSTANTS
    Assessments,     \* decisions that parseAssessmentDecision accepts
    Findings,        \* capability findings, in canonical order
    Ceilings,        \* experiment budgets
    NewProtocols,    \* protocols an operator may register
    EvaluatorStale,  \* EVALUATOR_STALE_REASONS
    Nobody           \* null

\* Null is neither a finding nor a reason, and findings are in their order.
ASSUME LoopAssumption ==
    /\ Findings \in Seq(Range(Findings))
    /\ \A k \in DOMAIN Findings : Findings[k] # Nobody
    /\ Nobody \notin {"holdout-tuning-forbidden", "assessment-already-passing",
                     "structural-staleness", "insufficient-proposal-budget",
                     "no-actionable-diagnosis"}

VARIABLES
    assessment,   \* the assessment under study
    registered,   \* registeredExperiments
    findings,     \* indices of the findings reported
    desk,         \* proposals not thrown away
    answer        \* the last decision of the proposer

loopVars == <<assessment, registered, findings, desk, answer>>

-----------------------------------------------------------------------------
(* The history.                                                            *)

\* assertNoDuplicateHistoryIdentities
HistoryHolds(experiments) ==
    \A r, q \in experiments :
        r.intent = q.intent \/ r.protocol = q.protocol => r = q

\* budgetBody: each logical execution may be attempted.
CeilingHolds(budget) == budget.executions <= budget.attempts

-----------------------------------------------------------------------------
(* What a diagnosis asks for.                                              *)

ProfileRegressions ==
    {"ttft-regression", "tail-latency-regression", "error-regression", "cost-regression"}
QualityRegressions == {"quality-regression", "critical-slice-regression"}

controlsFor(diagnosis) ==
    {"holdout-membership", "payload-policy", "policy-gates", "production-state"}
    \cup (IF diagnosis = "evaluator-drift" THEN {} ELSE {"evaluator-calibration"})
    \cup (IF diagnosis \in ProfileRegressions \cup {"capability-mismatch"} THEN {}
          ELSE {"execution-profiles"})
    \cup (IF diagnosis \in QualityRegressions THEN {} ELSE {"routing-policy"})
    \cup (IF diagnosis = "sealed-shadow-replication" THEN {} ELSE {"sampling-membership"})

Lineage(finding) ==
    [kind |-> "runtime-capability-evidence", protocol |-> finding.protocol, profile |-> finding.profile,
     capability |-> finding.capability, evidence |-> finding.evidence]

RequiredKinds(diagnosis) ==
    CASE diagnosis = "insufficient-evidence" ->
             {"paired-evaluator-evidence", "independent-group-coverage",
              "observer-failure-evidence"}
      [] diagnosis = "evaluator-drift" -> {"evaluator-calibration-evidence"}
      [] diagnosis = "quality-regression" ->
             {"paired-evaluator-evidence", "independent-group-coverage"}
      [] diagnosis = "critical-slice-regression" ->
             {"paired-evaluator-evidence", "critical-slice-coverage"}
      [] diagnosis \in {"ttft-regression", "tail-latency-regression"} ->
             {"observer-timing-evidence", "paired-evaluator-evidence",
              "observer-failure-evidence"}
      [] diagnosis = "error-regression" ->
             {"observer-failure-evidence", "paired-evaluator-evidence"}
      [] diagnosis = "cost-regression" ->
             {"attempt-cost-evidence", "paired-evaluator-evidence"}
      [] diagnosis = "unavailable-capacity" -> {"exact-policy-capacity-evidence"}
      [] diagnosis = "sealed-shadow-replication" ->
             {"sealed-shadow-window-evidence", "paired-evaluator-evidence",
              "independent-group-coverage"}

requirementsFor(match) ==
    IF match.diagnosis = "capability-mismatch" THEN {Lineage(match.finding)}
    ELSE {[kind |-> k] : k \in RequiredKinds(match.diagnosis)}

changedVariableFor(match) ==
    CASE match.diagnosis = "insufficient-evidence" -> [kind |-> "evidence-collection"]
      [] match.diagnosis = "evaluator-drift" -> [kind |-> "evaluator-calibration"]
      [] match.diagnosis \in QualityRegressions -> [kind |-> "routing-policy"]
      [] match.diagnosis \in ProfileRegressions -> [kind |-> "execution-profile"]
      [] match.diagnosis = "unavailable-capacity" -> [kind |-> "capacity-observation"]
      [] match.diagnosis = "capability-mismatch" ->
             [kind |-> "required-capability", capability |-> match.finding.capability,
              profile |-> match.finding.profile]
      [] match.diagnosis = "sealed-shadow-replication" -> [kind |-> "evidence-window"]

-----------------------------------------------------------------------------
(* The diagnosis.                                                          *)

\* The selected candidate, or all of them.
Considered ==
    {c \in assessment.candidates :
        assessment.selected = Nobody \/ c.policy = assessment.selected}

\* candidatesWithFailedGate: a gate that was measured.
FailsOneOf(gates) == \E c \in Considered : c.failed \cap gates # {}

EvaluatorOnlyStale ==
    /\ assessment.status = "STALE" /\ assessment.stale # {}
    /\ assessment.stale \subseteq EvaluatorStale

Concerns(finding) ==
    /\ finding.protocol = assessment.protocol
    /\ \E c \in Considered : finding.profile \in c.profiles

\* capabilityFindingFor: the first one.
FirstFinding ==
    LET concerning == {k \in findings : Concerns(Findings[k])}
    IN  IF concerning = {} THEN Nobody
        ELSE Findings[CHOOSE k \in concerning : \A m \in concerning : k <= m]

\* What may be diagnosed, the most pressing first.
Diagnoses ==
    <<"insufficient-evidence", "evaluator-drift", "quality-regression",
      "critical-slice-regression", "ttft-regression", "tail-latency-regression",
      "error-regression", "cost-regression", "unavailable-capacity",
      "capability-mismatch", "sealed-shadow-replication">>

Applies(diagnosis) ==
    \/ /\ diagnosis = "insufficient-evidence"
       /\ \E c \in Considered : c.reasons \ {"capacity"} # {}
    \/ diagnosis = "evaluator-drift" /\ EvaluatorOnlyStale
    \/ /\ diagnosis = "quality-regression"
       /\ FailsOneOf({"paired-quality", "minimum-mean-score"})
    \/ /\ diagnosis = "critical-slice-regression"
       /\ FailsOneOf({"paired-critical-slice-quality"})
    \/ diagnosis = "ttft-regression" /\ FailsOneOf({"maximum-p95-ttft"})
    \/ diagnosis = "tail-latency-regression" /\ FailsOneOf({"maximum-p95-end-to-end"})
    \/ diagnosis = "error-regression" /\ FailsOneOf({"maximum-failure-rate"})
    \/ diagnosis = "cost-regression" /\ FailsOneOf({"maximum-cost-per-thousand"})
    \/ /\ diagnosis = "unavailable-capacity" /\ assessment.phase = "window"
       /\ \E c \in Considered : "capacity" \in c.reasons \/ c.unmeasured
    \/ diagnosis = "capability-mismatch" /\ FirstFinding # Nobody
    \/ /\ diagnosis = "sealed-shadow-replication"
       /\ assessment.phase = "development" /\ assessment.status = "NOMINATED"

Applying == {i \in DOMAIN Diagnoses : Applies(Diagnoses[i])}

\* actionableDiagnosis: the first that applies.
actionableDiagnosis ==
    LET diagnosis == Diagnoses[CHOOSE i \in Applying : \A k \in Applying : i <= k]
    IN  IF Applying = {} THEN Nobody
        ELSE [diagnosis |-> diagnosis,
              finding |-> IF diagnosis = "capability-mismatch" THEN FirstFinding ELSE Nobody]

-----------------------------------------------------------------------------
(* Proposals.                                                              *)

\* Faulty variant of IntentOf: the intent covers the history it was read from.
IntentOfHistory(p) ==
    [parent |-> p.parent, protocol |-> p.protocol, budget |-> p.budget,
     diagnosis |-> p.diagnosis, changed |-> p.changed, controls |-> p.controls,
     requirements |-> p.requirements, history |-> <<registered, findings>>]

\* experimentIntentBody.  Hypothesis, stop condition and expected decision follow
\* from the diagnosis and the budget.
IntentOf(p) ==
    [parent |-> p.parent, protocol |-> p.protocol, budget |-> p.budget,
     diagnosis |-> p.diagnosis, changed |-> p.changed, controls |-> p.controls,
     requirements |-> p.requirements]

\* proposalBody
ProposalFor(match, budget) ==
    LET body == [parent |-> assessment.id, protocol |-> assessment.protocol,
                 budget |-> budget, diagnosis |-> match.diagnosis,
                 changed |-> changedVariableFor(match),
                 controls |-> controlsFor(match.diagnosis),
                 requirements |-> requirementsFor(match)]
    IN  [status |-> "PROPOSED", body |-> body, intent |-> IntentOf(body)]

\* assertProposalSemantics: what the proposal says follows from its diagnosis and,
\* for a capability, from the one finding it carries, of the parent's protocol.
ProposalHolds(p) ==
    LET carried == {r \in p.body.requirements : r.kind = "runtime-capability-evidence"}
        match == [diagnosis |-> p.body.diagnosis,
                  finding |-> IF carried = {} THEN Nobody ELSE CHOOSE r \in carried : TRUE]
    IN  /\ IF p.body.diagnosis = "capability-mismatch"
           THEN /\ Cardinality(carried) = 1
                /\ match.finding.protocol = p.body.protocol
                /\ p.body.changed.kind = "required-capability"
                /\ p.body.changed.capability = match.finding.capability
                /\ p.body.changed.profile = match.finding.profile
           ELSE carried = {}
        /\ p.body.changed = changedVariableFor(match)
        /\ p.body.controls = controlsFor(p.body.diagnosis)
        /\ p.body.requirements = requirementsFor(match)
        /\ p.intent = IntentOf(p.body)

Hold(reason, related) == [status |-> "HOLD", reason |-> reason, related |-> related]

\* Why nothing is proposed, before any diagnosis.
HoldReason(budget) ==
    IF assessment.phase = "holdout" THEN "holdout-tuning-forbidden"
    ELSE IF assessment.phase = "window" /\ assessment.status = "PASS"
    THEN "assessment-already-passing"
    ELSE IF assessment.status = "STALE" /\ ~EvaluatorOnlyStale THEN "structural-staleness"
    ELSE IF budget.executions < 2 \/ budget.attempts < 2 \/ budget.wallClock = 0
    THEN "insufficient-proposal-budget"
    ELSE IF actionableDiagnosis = Nobody THEN "no-actionable-diagnosis"
    ELSE Nobody

\* proposeExperiment; finishDecision throws for what the contract refuses.
proposeExperiment(budget) ==
    IF HoldReason(budget) # Nobody THEN Hold(HoldReason(budget), Nobody)
    ELSE LET p == ProposalFor(actionableDiagnosis, budget)
             same == {r \in registered : r.intent = p.intent}
         IN  IF same # {}
             THEN Hold("duplicate-registered-experiment", (CHOOSE r \in same : TRUE).protocol)
             ELSE IF ProposalHolds(p) THEN p ELSE [status |-> "REFUSED"]

-----------------------------------------------------------------------------
(* The loop.                                                               *)

LoopInit ==
    /\ assessment \in Assessments
    /\ registered = {} /\ findings = {} /\ desk = {} /\ answer = Nobody

\* Someone reports a finding of a probe.
ReportFinding(k) ==
    /\ k \notin findings
    /\ findings' = findings \cup {k}
    /\ UNCHANGED <<assessment, registered, desk, answer>>

Propose(budget) ==
    /\ CeilingHolds(budget)
    /\ answer' = proposeExperiment(budget)
    /\ desk' = IF answer'.status = "PROPOSED" THEN desk \cup {answer'} ELSE desk
    /\ UNCHANGED <<assessment, registered, findings>>

\* The operator registers a proposal, however old, under a protocol of its own;
\* a history that does not parse is of no use.
RegisterExperiment(p, protocol) ==
    LET entry == [parent |-> p.body.protocol, budget |-> p.body.budget,
                  intent |-> p.intent, protocol |-> protocol]
    IN  /\ entry \notin registered /\ HistoryHolds(registered \cup {entry})
        /\ registered' = registered \cup {entry}
        /\ UNCHANGED <<assessment, findings, desk, answer>>

LoopNext ==
    \/ \E k \in DOMAIN Findings : ReportFinding(k)
    \/ \E b \in Ceilings : Propose(b)
    \/ \E p \in desk, protocol \in NewProtocols : RegisterExperiment(p, protocol)

LoopSpec == LoopInit /\ [][LoopNext]_loopVars

-----------------------------------------------------------------------------
(* Properties.                                                             *)

\* The loop comes to rest, and not by refusal: the contract accepts every proposal
\* that proposeExperiment makes, whatever findings of other protocols and profiles
\* the history holds, and yet for one assessment and one budget no more experiments
\* are ever registered than the diagnosis and the findings can ask for, although
\* each reading of a history that has grown since may propose again.
RegistrationSettles ==
    /\ answer # Nobody => answer.status # "REFUSED"
    /\ \A b \in Ceilings :
          Cardinality({r \in registered : r.budget = b})
              <= 1 + Cardinality({k \in findings : Concerns(Findings[k])})

=============================================================================
