---------------------------- MODULE EvidenceJoin ----------------------------
(***************************************************************************)
(* Evaluator trust and the join of traces with evaluator evidence:         *)
(* src/evaluator-trust.ts and src/evidence-join.ts.                        *)
(*                                                                         *)
(* The rows that a caller gives to joinAssessmentEvidence arrive one by    *)
(* one, repeated if the caller repeats them; the join is a function of     *)
(* what has arrived.  It sorts whatever it is given, so its inputs are     *)
(* bags.  A digest is the content it covers: equal digests, equal rows.    *)
(* All rows are of one study and of one split; the join and the assessment *)
(* refuse any other.                                                       *)
(***************************************************************************)
EXTENDS Naturals, FiniteSets, Bags

CONSTANTS
    TraceRows,        \* parsed traces: see TraceAdmitted and the outcome
    Verifications,    \* signed evaluator evidence, and the context it is
                      \* verified in: asOf and the snapshot that is bound
    Trust,            \* EvaluatorTrustSnapshot
    Evaluator,        \* the keys and the rubric that the protocol pins
    Champion,
    Candidates,       \* candidateProfileIds
    Absent,           \* null
    Created, Expires, \* validity of the protocol
    MaxTraceRows,     \* bounds: rows given to the join
    MaxEvidenceRows,
    MaxRows           \* and of both kinds together

\* evaluatorOutcomeSchema
EvaluatorOutcomes == {"scored", "missing-evidence", "invalid-evidence", "abstained"}

ASSUME EvidenceJoinAssumption ==
    /\ {Created, Expires, MaxTraceRows, MaxEvidenceRows, MaxRows} \subseteq Nat
    /\ Created < Expires
    /\ Champion \notin Candidates

\* What the schemas of the rows say of the fields that are compared.
ASSUME RowsAssumption ==
    /\ \A t \in TraceRows : {t.started, t.completed} \subseteq Nat
    /\ \A v \in Verifications :
           /\ {v.evidence.producedAt, v.context.asOf} \subseteq Nat
           /\ v.evidence.outcome \in EvaluatorOutcomes
    /\ \A k \in DOMAIN Trust.keys : Trust.keys[k].revokedAt \in Nat

VARIABLES
    traceRows,    \* a bag of traces
    receiptRows   \* a bag of EvaluatorEvidenceVerification

Present(bag) == BagToSet(bag)

-----------------------------------------------------------------------------
(* Evaluator trust.                                                        *)

\* verifyEvaluatorEvidence: the first objection counts.
Verdict(evidence, context) ==
    IF context.snapshot # Trust.snapshot THEN "context-mismatch"
    ELSE IF evidence.key \notin DOMAIN Trust.keys THEN "unknown-key"
    ELSE IF ~evidence.signed THEN "invalid-signature"
    ELSE LET key == Trust.keys[evidence.key] IN
         IF key.revokedAt <= context.asOf THEN "revoked"
         ELSE IF evidence.producedAt > context.asOf + Trust.maximumSkew THEN "future-dated"
         ELSE IF context.asOf > evidence.producedAt + Trust.maximumAge THEN "stale"
         ELSE IF evidence.producedAt < key.validFrom THEN "key-not-yet-valid"
         ELSE IF evidence.producedAt > key.validUntil THEN "key-expired"
         ELSE IF evidence.rubric \notin key.rubrics THEN "unauthorized-evidence"
         ELSE "trusted"

Receipt(evidence, context) ==
    [authentic |-> TRUE, evidence |-> evidence, context |-> context,
     status |-> Verdict(evidence, context)]

\* An object that the verifier of this process did not make, a receipt that
\* was stored and read again for one.  Nothing in it is looked at.
Foreign == [authentic |-> FALSE, evidence |-> Absent, context |-> Absent,
            status |-> "inauthentic"]

-----------------------------------------------------------------------------
(* Traces.                                                                 *)

\* normalizeTraces; a trace that is not admitted fails the whole join.
TraceAdmitted(trace) ==
    /\ Created <= trace.started
    /\ trace.completed < Expires
    /\ trace.profile \in Candidates \cup {Champion}

\* logicalProfileKey: one execution of a profile per case and replicate.
LogicalProfile(trace) == <<trace.case, trace.profile>>

OneDigestPerId(traces) ==
    {t \in Present(traces) : \A u \in Present(traces) : u.id = t.id => u = t}

\* retainUniqueTraceRecords: of repeated traces one stays, of traces that
\* contradict each other none.
Retained(traces) ==
    LET consistent == OneDigestPerId(traces)
    IN  {t \in consistent : \A u \in consistent :
            LogicalProfile(u) = LogicalProfile(t) => u = t}

ConflictingTraces(traces) == Present(traces) \ Retained(traces)

DuplicateTraces(traces) ==
    {t \in OneDigestPerId(traces) : traces[t] > 1}

\* validateTraceMetadata, which throws.
MetadataConflicts(traces) ==
    \E t, u \in Retained(traces) :
        t.case = u.case /\ (t.group # u.group \/ t.signal # u.signal)

JoinThrows(traces) ==
    \/ \E t \in Present(traces) : ~TraceAdmitted(t)
    \/ MetadataConflicts(traces)

-----------------------------------------------------------------------------
(* Receipts.                                                               *)

\* A trusted receipt of the evaluator that the protocol pins.
Acceptable(receipt) ==
    /\ receipt.authentic
    /\ receipt.status = "trusted"
    /\ receipt.evidence.key \in Evaluator.keys
    /\ receipt.evidence.rubric = Evaluator.rubric

VerificationContexts(receipts) ==
    {r.context : r \in {r \in Present(receipts) : r.authentic}}

\* Faulty variant: receipts of several contexts are mixed.
StableInAnyContext(receipts) == {r \in Present(receipts) : Acceptable(r)}

\* Receipts of two contexts are never mixed: none of them counts.
Stable(receipts) ==
    IF Cardinality(VerificationContexts(receipts)) = 1
    THEN {r \in Present(receipts) : Acceptable(r)}
    ELSE {}

InvalidReceipts(receipts) == Present(receipts) \ Stable(receipts)

DuplicateEvidence(receipts) ==
    {r \in Stable(receipts) : receipts[r] > 1}

\* evidenceJoinKey and traceIdentityKey.
JoinKey(row) == <<row.id, row.profile, row.output>>

\* Faulty variant: of the evidence for one output, the latest is kept.
LatestOnly(receipts) ==
    LET stable == Stable(receipts)
    IN  {r \in stable : \A q \in stable :
            JoinKey(q.evidence) = JoinKey(r.evidence)
                => q.evidence.producedAt <= r.evidence.producedAt}

\* Of distinct evidence for one output none counts.
Undisputed(receipts) ==
    LET stable == Stable(receipts)
    IN  {r \in stable : \A q \in stable :
            JoinKey(q.evidence) = JoinKey(r.evidence) => q = r}

LineageMatches(trace, evidence) ==
    /\ JoinKey(trace) = JoinKey(evidence)
    /\ trace.case = evidence.case

HasTrace(traces, receipt) ==
    \E t \in Retained(traces) : JoinKey(t) = JoinKey(receipt.evidence)

OrphanEvidence(traces, receipts) ==
    {r \in Undisputed(receipts) : ~HasTrace(traces, r)}

\* Evidence for another case than its trace's counts as a conflict.
LineageConflicts(traces, receipts) ==
    {r \in Undisputed(receipts) :
        /\ HasTrace(traces, r)
        /\ \A t \in Retained(traces) : ~LineageMatches(t, r.evidence)}

ConflictingEvidence(traces, receipts) ==
    (Stable(receipts) \ Undisputed(receipts)) \cup LineageConflicts(traces, receipts)

Predates(trace, receipt) ==
    /\ LineageMatches(trace, receipt.evidence)
    /\ receipt.evidence.producedAt < trace.completed

Matching(trace, receipts) ==
    {r \in Undisputed(receipts) :
        /\ LineageMatches(trace, r.evidence)
        /\ ~Predates(trace, r)}

\* rejectedEvidenceByExecution, evidence older than the output first.
Rejections(trace, receipts) ==
    LET early == {r \in Undisputed(receipts) : Predates(trace, r)}
        others == {r \in InvalidReceipts(receipts) :
                      r.authentic /\ LineageMatches(trace, r.evidence)}
    IN  IF early # {} THEN early ELSE others

-----------------------------------------------------------------------------
(* Executions.                                                             *)

Outcome(kind, receipt, accepted) ==
    [kind |-> kind, receipt |-> receipt, accepted |-> accepted]

\* The first of: an ambiguous send, a failure, accepted evidence, rejected
\* evidence, disputed evidence, nothing.
OutcomeOf(trace, receipts) ==
    LET matching == Matching(trace, receipts)
        rejections == Rejections(trace, receipts)
        disputed == \E r \in Stable(receipts) :
                        JoinKey(r.evidence) = JoinKey(trace)
    IN  IF trace.ambiguous THEN Outcome("ambiguous-execution", Absent, FALSE)
        ELSE IF trace.terminal # "success"
             THEN Outcome("protocol-failure-zero", Absent, FALSE)
        ELSE IF matching # {}
             THEN LET r == CHOOSE r \in matching : TRUE
                  IN  Outcome(r.evidence.outcome, r, TRUE)
        ELSE IF rejections # {}
             THEN Outcome("invalid-evidence", CHOOSE r \in rejections : TRUE, FALSE)
        ELSE IF disputed THEN Outcome("invalid-evidence", Absent, FALSE)
        ELSE Outcome("missing-evidence", Absent, FALSE)

Executions(traces, receipts) ==
    {[trace |-> t, outcome |-> OutcomeOf(t, receipts)] : t \in Retained(traces)}

RequiredProfiles == Candidates \cup {Champion}

CasesOf(traces) == {t.case : t \in Retained(traces)}

PairedCases(traces) ==
    {c \in CasesOf(traces) :
        RequiredProfiles \subseteq {t.profile : t \in {t \in Retained(traces) : t.case = c}}}

-----------------------------------------------------------------------------
(* The dataset.                                                            *)

\* Declared by the evaluator, whether or not the execution used it.
Declared(kind, traces, receipts) ==
    \E t \in Retained(traces) : \E r \in Matching(t, receipts) :
        r.evidence.outcome = kind

MissingEvidence(traces, receipts) ==
    \/ Declared("missing-evidence", traces, receipts)
    \/ \E x \in Executions(traces, receipts) :
           x.outcome.kind = "missing-evidence" /\ ~x.outcome.accepted

InvalidEvidence(traces, receipts) ==
    \/ InvalidReceipts(receipts) # {}
    \/ Declared("invalid-evidence", traces, receipts)
    \/ \E t \in Retained(traces), r \in Undisputed(receipts) : Predates(t, r)

\* Each of these makes assertAssessmentDatasetIntegrity throw.
StructuralReasons(traces, receipts) ==
    {reason \in {"orphan-evaluator-evidence", "duplicate-evaluator-evidence",
                 "conflicting-evaluator-evidence", "duplicate-traces",
                 "conflicting-traces"} :
        CASE reason = "orphan-evaluator-evidence" ->
                 OrphanEvidence(traces, receipts) # {}
          [] reason = "duplicate-evaluator-evidence" ->
                 DuplicateEvidence(receipts) # {}
          [] reason = "conflicting-evaluator-evidence" ->
                 ConflictingEvidence(traces, receipts) # {}
          [] reason = "duplicate-traces" -> DuplicateTraces(traces) # {}
          [] reason = "conflicting-traces" -> ConflictingTraces(traces) # {}}

\* admissibility.valid
AdmissibleDataset(traces, receipts) ==
    /\ StructuralReasons(traces, receipts) = {}
    /\ ~MissingEvidence(traces, receipts)
    /\ ~InvalidEvidence(traces, receipts)
    /\ ~Declared("abstained", traces, receipts)
    /\ PairedCases(traces) = CasesOf(traces)

-----------------------------------------------------------------------------
(* The rows arrive.                                                        *)

JoinInit ==
    /\ traceRows = EmptyBag
    /\ receiptRows = EmptyBag

RoomForRow == BagCardinality(traceRows) + BagCardinality(receiptRows) < MaxRows

DeliverTrace(trace) ==
    /\ RoomForRow
    /\ BagCardinality(traceRows) < MaxTraceRows
    /\ traceRows' = traceRows (+) SetToBag({trace})
    /\ UNCHANGED receiptRows

DeliverReceipt(receipt) ==
    /\ RoomForRow
    /\ BagCardinality(receiptRows) < MaxEvidenceRows
    /\ receiptRows' = receiptRows (+) SetToBag({receipt})
    /\ UNCHANGED traceRows

RowArrives ==
    \/ \E t \in TraceRows : DeliverTrace(t)
    \/ \E v \in Verifications : DeliverReceipt(Receipt(v.evidence, v.context))
    \/ DeliverReceipt(Foreign)

-----------------------------------------------------------------------------
(* Properties.                                                             *)

ScoredExecutions(traces, receipts) ==
    IF JoinThrows(traces) THEN {}
    ELSE {x \in Executions(traces, receipts) : x.outcome.kind = "scored"}

\* A dataset that calls itself admissible is whole: each successful execution
\* whose sends are unambiguous is scored, by the only evidence there is for its
\* output, trusted, of one context and not older than the output; each case has
\* all its profiles; no row was given twice or is left over.  What it lets pass
\* is evidence for an output of an ambiguous execution, which is not used.
AdmissibleIsComplete ==
    ~JoinThrows(traceRows) /\ AdmissibleDataset(traceRows, receiptRows) =>
        /\ \A t \in Present(traceRows) :
               /\ traceRows[t] = 1
               /\ RequiredProfiles =
                      {u.profile : u \in {u \in Present(traceRows) : u.case = t.case}}
               /\ t.terminal = "success" /\ ~t.ambiguous =>
                      \E r \in Present(receiptRows) :
                          /\ r.evidence.outcome = "scored"
                          /\ OutcomeOf(t, receiptRows) = Outcome("scored", r, TRUE)
        /\ \A r \in Present(receiptRows) :
               /\ receiptRows[r] = 1
               /\ r.authentic /\ r.status = "trusted"
               /\ \A q \in Present(receiptRows) : q.context = r.context
               /\ \E t \in Present(traceRows) :
                      /\ LineageMatches(t, r.evidence)
                      /\ t.completed <= r.evidence.producedAt
                      /\ \A q \in Present(receiptRows) :
                             LineageMatches(t, q.evidence) => q = r

\* Another row may cost an execution its score, but never gives it another
\* one: short of withholding a row, a caller cannot submit evidence until it
\* likes the score.
ScoreIsNeverReplaced ==
    [][\A x \in ScoredExecutions(traceRows, receiptRows),
          y \in ScoredExecutions(traceRows, receiptRows)' :
           x.trace = y.trace => x.outcome = y.outcome]_<<traceRows, receiptRows>>

=============================================================================
