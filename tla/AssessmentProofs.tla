--------------------------- MODULE AssessmentProofs ---------------------------
(***************************************************************************)
(* Proofs about Assessment and the join of evidence it rests on, for any   *)
(* protocol, rows, signers, trust, policies and contexts.                  *)
(*                                                                         *)
(* First the rows: a further row never gives an execution another score,   *)
(* and a dataset that calls itself admissible is whole.  Then decisions:   *)
(* the decision contract refuses nothing that assess makes, and what a     *)
(* favourable decision says of evidence and of time is true.               *)
(*                                                                         *)
(* Then what is made of assessments: the experiments that are registered,  *)
(* counted by what their diagnoses can be; and the first version's         *)
(* nomination, whose file says what it covers, and whose nominee is the    *)
(* best of all that passed: metrics are sums and quantiles over finitely   *)
(* many rows, hence numbers, and domination is a strict order of them.     *)
(***************************************************************************)
EXTENDS Assessment, Experiments, LegacyEvaluation, FiniteSums

-----------------------------------------------------------------------------
(* The rows that arrive.                                                   *)

ReceiptsToGive == {Receipt(v.evidence, v.context) : v \in Verifications} \cup {Foreign}

\* Each row that is there was given, at least once.
RowsInv ==
    /\ \A t \in Present(traceRows) : t \in TraceRows /\ traceRows[t] \in Nat \ {0}
    /\ \A r \in Present(receiptRows) : r \in ReceiptsToGive /\ receiptRows[r] \in Nat \ {0}
    /\ IsFiniteSet(VerificationContexts(receiptRows))

\* One more copy of a row leaves the others alone.
LEMMA BagAddition ==
  ASSUME NEW B, NEW x
  PROVE  /\ Present(B (+) SetToBag({x})) = Present(B) \cup {x}
         /\ (\A e \in Present(B) : B[e] \in Nat \ {0}) =>
                \A e \in Present(B (+) SetToBag({x})) :
                    (B (+) SetToBag({x}))[e] \in Nat \ {0}
<1> DEFINE sum == B (+) SetToBag({x})
<1>1. Present(sum) = Present(B) \cup {x}
  BY DEF Present, BagToSet, SetToBag, (+)
<1>2. ASSUME \A e \in Present(B) : B[e] \in Nat \ {0}, NEW e \in Present(B) \cup {x}
      PROVE  sum[e] \in Nat \ {0}
  <2>1. sum[e] = (IF e \in Present(B) THEN B[e] ELSE 0)
                     + (IF e \in {x} THEN SetToBag({x})[e] ELSE 0)
    BY DEF Present, BagToSet, SetToBag, (+)
  <2>2. e \in {x} => SetToBag({x})[e] = 1 BY DEF SetToBag
  <2> HIDE DEF sum
  <2>. QED BY <1>2, <2>1, <2>2
<1>. QED BY <1>1, <1>2

\* A row arrives at one bag or the other.
LEMMA RowArrivesGives ==
  ASSUME RowArrives
  PROVE  \/ /\ \E t \in TraceRows : traceRows' = traceRows (+) SetToBag({t})
            /\ UNCHANGED receiptRows
         \/ /\ \E r \in ReceiptsToGive : receiptRows' = receiptRows (+) SetToBag({r})
            /\ UNCHANGED traceRows
  BY DEF RowArrives, DeliverTrace, DeliverReceipt, ReceiptsToGive

LEMMA RowsInvInit == JoinInit => RowsInv
<1> SUFFICES ASSUME JoinInit PROVE RowsInv
  OBVIOUS
<1>1. Present(traceRows) = {} /\ Present(receiptRows) = {}
  BY DEF JoinInit, Present, BagToSet, EmptyBag, SetToBag
<1>2. VerificationContexts(receiptRows) = {} BY <1>1 DEF VerificationContexts
<1>. QED BY <1>1, <1>2, FS_EmptySet DEF RowsInv

LEMMA RowsInvArrives ==
  ASSUME RowsInv, RowArrives
  PROVE  RowsInv'
<1>1. CASE /\ \E t \in TraceRows : traceRows' = traceRows (+) SetToBag({t})
           /\ UNCHANGED receiptRows
  <2>1. PICK t \in TraceRows : traceRows' = traceRows (+) SetToBag({t}) BY <1>1
  <2>2. \A u \in Present(traceRows') : u \in TraceRows /\ traceRows'[u] \in Nat \ {0}
    <3>1. Present(traceRows') = Present(traceRows) \cup {t} BY <2>1, BagAddition
    <3>2. \A u \in Present(traceRows') : traceRows'[u] \in Nat \ {0}
      BY <2>1, BagAddition DEF RowsInv
    <3>. QED BY <3>1, <3>2 DEF RowsInv
  <2>3. VerificationContexts(receiptRows') = VerificationContexts(receiptRows)
    BY <1>1
  <2>. QED BY <1>1, <2>2, <2>3 DEF RowsInv
<1>2. CASE /\ \E r \in ReceiptsToGive : receiptRows' = receiptRows (+) SetToBag({r})
           /\ UNCHANGED traceRows
  <2>1. PICK r \in ReceiptsToGive : receiptRows' = receiptRows (+) SetToBag({r}) BY <1>2
  <2>2. Present(receiptRows') = Present(receiptRows) \cup {r} BY <2>1, BagAddition
  <2>3. \A q \in Present(receiptRows') : q \in ReceiptsToGive /\ receiptRows'[q] \in Nat \ {0}
    <3>1. \A q \in Present(receiptRows') : receiptRows'[q] \in Nat \ {0}
      BY <2>1, BagAddition DEF RowsInv
    <3>. QED BY <2>2, <3>1 DEF RowsInv
  <2>4. \/ VerificationContexts(receiptRows') = VerificationContexts(receiptRows) \cup {r.context}
        \/ VerificationContexts(receiptRows') = VerificationContexts(receiptRows)
    BY <2>2 DEF VerificationContexts
  <2>5. IsFiniteSet(VerificationContexts(receiptRows'))
    BY <2>4, FS_AddElement DEF RowsInv
  <2>. QED BY <1>2, <2>3, <2>5 DEF RowsInv
<1>. QED BY <1>1, <1>2, RowArrivesGives

\* All the steps of a study but those of its collection leave its rows alone.
LEMMA StudyKeepsRows ==
  ASSUME [StudyNext]_studyVars
  PROVE  RowArrives \/ UNCHANGED <<traceRows, receiptRows>>
  BY DEF StudyNext, studyVars, Collect, Seal, Revise, NominateDevelopment, ConfirmHoldout,
     AssessPolicyWindow, Decide

LEMMA RowsInvStep == RowsInv /\ [StudyNext]_studyVars => RowsInv'
<1> SUFFICES ASSUME RowsInv, [StudyNext]_studyVars PROVE RowsInv'
  OBVIOUS
<1>1. CASE RowArrives BY <1>1, RowsInvArrives
<1>2. CASE UNCHANGED <<traceRows, receiptRows>>
  BY <1>2 DEF RowsInv, VerificationContexts, Present
<1>. QED BY <1>1, <1>2, StudyKeepsRows

\* The rows of a study are such rows.
LEMMA RowsAreGiven == StudySpec => []RowsInv
<1>1. StudyInit => RowsInv BY RowsInvInit DEF StudyInit
<1>. QED BY <1>1, RowsInvStep, PTL DEF StudySpec

-----------------------------------------------------------------------------
(* Scores.                                                                 *)

\* A score comes from evidence that matches the execution, and from nothing else.
LEMMA ScoredByMatching ==
  ASSUME NEW traces, NEW receipts, NEW x \in Executions(traces, receipts),
         x.outcome.kind = "scored"
  PROVE  /\ x.trace \in Retained(traces)
         /\ x.trace.terminal = "success" /\ ~x.trace.ambiguous
         /\ \E r \in Matching(x.trace, receipts) :
                r.evidence.outcome = "scored" /\ x.outcome = Outcome("scored", r, TRUE)
<1>1. PICK t \in Retained(traces) : x = [trace |-> t, outcome |-> OutcomeOf(t, receipts)]
  BY DEF Executions
<1>2. OutcomeOf(t, receipts).kind = "scored" BY <1>1
<1>3. /\ Matching(t, receipts) # {} /\ t.terminal = "success" /\ ~t.ambiguous
      /\ OutcomeOf(t, receipts) = LET r == CHOOSE r \in Matching(t, receipts) : TRUE
                                  IN  Outcome(r.evidence.outcome, r, TRUE)
  BY <1>2 DEF OutcomeOf, Outcome
<1>4. PICK r \in Matching(t, receipts) :
          OutcomeOf(t, receipts) = Outcome(r.evidence.outcome, r, TRUE)
  BY <1>3
<1>5. r.evidence.outcome = "scored" BY <1>2, <1>4 DEF Outcome
<1>. QED BY <1>1, <1>3, <1>4, <1>5

\* Where some evidence counts among more receipts, all that counted before does:
\* it is of the same context.
LEMMA StableGrows ==
  ASSUME NEW receipts, NEW more, Present(receipts) \subseteq Present(more),
         Stable(more) # {}
  PROVE  Stable(receipts) \subseteq Stable(more)
  BY DEF Stable

\* An execution that has a score by some rows, and one by more rows, has it by
\* the same evidence.
LEMMA MoreRowsSameScore ==
  ASSUME NEW traces, NEW receipts, NEW moreTraces, NEW more,
         Present(receipts) \subseteq Present(more),
         NEW x \in ScoredExecutions(traces, receipts),
         NEW y \in ScoredExecutions(moreTraces, more), x.trace = y.trace
  PROVE  x.outcome = y.outcome
<1>1. PICK r \in Matching(x.trace, receipts) : x.outcome = Outcome("scored", r, TRUE)
  BY ScoredByMatching DEF ScoredExecutions
<1>2. PICK q \in Matching(y.trace, more) : y.outcome = Outcome("scored", q, TRUE)
  BY ScoredByMatching DEF ScoredExecutions
<1>3. r \in Stable(receipts) /\ JoinKey(x.trace) = JoinKey(r.evidence)
  BY <1>1 DEF Matching, Undisputed, LineageMatches
<1>4. q \in Undisputed(more) /\ q \in Stable(more) /\ JoinKey(y.trace) = JoinKey(q.evidence)
  BY <1>2 DEF Matching, Undisputed, LineageMatches
<1>5. r \in Stable(more) BY <1>3, <1>4, StableGrows
<1>6. r = q BY <1>3, <1>4, <1>5 DEF Undisputed
<1>. QED BY <1>1, <1>2, <1>6

\* Another row may cost an execution its score, but never gives it another one,
\* whatever the rows are and in whatever order they arrive.
THEOREM NoScoreIsReplaced == StudySpec => ScoreIsNeverReplaced
<1> DEFINE Same == \A x \in ScoredExecutions(traceRows, receiptRows),
                      y \in ScoredExecutions(traceRows, receiptRows)' :
                       x.trace = y.trace => x.outcome = y.outcome
<1>1. [StudyNext]_studyVars => [Same]_<<traceRows, receiptRows>>
  <2> SUFFICES ASSUME [StudyNext]_studyVars, RowArrives PROVE Same
    BY StudyKeepsRows
  <2>1. Present(receiptRows) \subseteq Present(receiptRows')
    <3>1. CASE receiptRows' = receiptRows BY <3>1
    <3>2. CASE \E r \in ReceiptsToGive : receiptRows' = receiptRows (+) SetToBag({r})
      <4>1. PICK r \in ReceiptsToGive : receiptRows' = receiptRows (+) SetToBag({r}) BY <3>2
      <4>. QED BY <4>1, BagAddition
    <3>. QED BY <3>1, <3>2, RowArrivesGives
  <2> SUFFICES ASSUME NEW x \in ScoredExecutions(traceRows, receiptRows),
                      NEW y \in ScoredExecutions(traceRows', receiptRows'),
                      x.trace = y.trace
               PROVE  x.outcome = y.outcome
    BY DEF Same
  <2>. QED BY <2>1, MoreRowsSameScore
<1>. QED BY <1>1, PTL DEF StudySpec, ScoreIsNeverReplaced

-----------------------------------------------------------------------------
(* Admissible datasets.                                                    *)

\* What the structural reasons leave out.
LEMMA StructureHolds ==
  ASSUME NEW traces, NEW receipts, StructuralReasons(traces, receipts) = {}
  PROVE  /\ OrphanEvidence(traces, receipts) = {}
         /\ DuplicateEvidence(receipts) = {}
         /\ ConflictingEvidence(traces, receipts) = {}
         /\ DuplicateTraces(traces) = {}
         /\ ConflictingTraces(traces) = {}
<1>1. \A reason \in {"orphan-evaluator-evidence", "duplicate-evaluator-evidence",
                     "conflicting-evaluator-evidence", "duplicate-traces",
                     "conflicting-traces"} : reason \notin StructuralReasons(traces, receipts)
  OBVIOUS
<1>2. OrphanEvidence(traces, receipts) = {}
  BY <1>1 DEF StructuralReasons
<1>3. DuplicateEvidence(receipts) = {}
  BY <1>1 DEF StructuralReasons
<1>4. ConflictingEvidence(traces, receipts) = {}
  BY <1>1 DEF StructuralReasons
<1>5. DuplicateTraces(traces) = {}
  BY <1>1 DEF StructuralReasons
<1>6. ConflictingTraces(traces) = {}
  BY <1>1 DEF StructuralReasons
<1>. QED BY <1>2, <1>3, <1>4, <1>5, <1>6

\* Where the structure holds, all traces stay, each with an identity of its own,
\* and each receipt that counts belongs to one of them.
LEMMA NothingLeftOver ==
  ASSUME NEW traces, NEW receipts, StructuralReasons(traces, receipts) = {}
  PROVE  /\ Retained(traces) = Present(traces)
         /\ \A t, u \in Present(traces) : t.id = u.id => t = u
         /\ Undisputed(receipts) = Stable(receipts)
         /\ \A r \in Stable(receipts) :
                \E t \in Present(traces) : LineageMatches(t, r.evidence)
<1>1. Retained(traces) = Present(traces)
  BY StructureHolds DEF ConflictingTraces, Retained, OneDigestPerId
<1>2. \A t, u \in Present(traces) : t.id = u.id => t = u
  <2>1. Retained(traces) \subseteq OneDigestPerId(traces) BY DEF Retained
  <2>. QED BY <1>1, <2>1 DEF OneDigestPerId
<1>3. Undisputed(receipts) = Stable(receipts) /\ LineageConflicts(traces, receipts) = {}
  <2>1. Stable(receipts) \ Undisputed(receipts) = {} /\ LineageConflicts(traces, receipts) = {}
    BY StructureHolds DEF ConflictingEvidence
  <2>2. Undisputed(receipts) \subseteq Stable(receipts) BY DEF Undisputed
  <2>. QED BY <2>1, <2>2
<1>4. ASSUME NEW r \in Stable(receipts)
      PROVE  \E t \in Present(traces) : LineageMatches(t, r.evidence)
  <2>1. HasTrace(traces, r) BY <1>3, StructureHolds DEF OrphanEvidence
  <2>. QED BY <1>1, <1>3, <2>1 DEF LineageConflicts
<1>. QED BY <1>1, <1>2, <1>3, <1>4

\* A set of one element has no two.
LEMMA OnlyOne ==
  ASSUME NEW S, IsFiniteSet(S), Cardinality(S) = 1, NEW x \in S, NEW y \in S
  PROVE  x = y
<1>1. PICK e : S = {e} BY FS_Singleton
<1>. QED BY <1>1

\* Each successful execution of an admissible dataset has its score.
LEMMA AdmissibleIsScored ==
  ASSUME RowsInv, AdmissibleDataset(traceRows, receiptRows), NEW t \in Present(traceRows),
         t.terminal = "success", ~t.ambiguous
  PROVE  \E r \in Present(receiptRows) :
             /\ r.evidence.outcome = "scored"
             /\ OutcomeOf(t, receiptRows) = Outcome("scored", r, TRUE)
<1>1. /\ StructuralReasons(traceRows, receiptRows) = {}
      /\ ~MissingEvidence(traceRows, receiptRows)
      /\ ~InvalidEvidence(traceRows, receiptRows)
      /\ ~Declared("abstained", traceRows, receiptRows)
  BY DEF AdmissibleDataset
<1>2. t \in Retained(traceRows) BY <1>1, NothingLeftOver
<1>3. \A r \in Undisputed(receiptRows) : ~Predates(t, r)
  BY <1>1, <1>2 DEF InvalidEvidence
<1>4. Rejections(t, receiptRows) = {}
  BY <1>1, <1>3 DEF Rejections, InvalidEvidence
<1>5. Matching(t, receiptRows) = {} =>
          ~\E r \in Stable(receiptRows) : JoinKey(r.evidence) = JoinKey(t)
  <2> SUFFICES ASSUME NEW r \in Stable(receiptRows), JoinKey(r.evidence) = JoinKey(t)
               PROVE  Matching(t, receiptRows) # {}
    OBVIOUS
  <2>1. r \in Undisputed(receiptRows) BY <1>1, NothingLeftOver
  <2>2. PICK u \in Present(traceRows) : LineageMatches(u, r.evidence)
    BY <1>1, NothingLeftOver
  <2>3. u.id = t.id BY <2>2 DEF LineageMatches, JoinKey
  <2>4. u = t BY <1>1, <2>3, NothingLeftOver
  <2>. QED BY <1>3, <2>1, <2>2, <2>4 DEF Matching
<1>6. Matching(t, receiptRows) # {}
  <2> SUFFICES ASSUME Matching(t, receiptRows) = {} PROVE FALSE
    OBVIOUS
  <2> DEFINE x == [trace |-> t, outcome |-> OutcomeOf(t, receiptRows)]
  <2>1. OutcomeOf(t, receiptRows) = Outcome("missing-evidence", Absent, FALSE)
    BY <1>4, <1>5 DEF OutcomeOf
  <2>2. x \in Executions(traceRows, receiptRows) BY <1>2 DEF Executions
  <2>. QED BY <1>1, <2>1, <2>2 DEF MissingEvidence, Outcome
<1>7. PICK r \in Matching(t, receiptRows) :
          OutcomeOf(t, receiptRows) = Outcome(r.evidence.outcome, r, TRUE)
  BY <1>6 DEF OutcomeOf
<1>8. r \in Stable(receiptRows) BY DEF Matching, Undisputed
<1>9. r \in Present(receiptRows) /\ r.authentic BY <1>8 DEF Stable, Acceptable
<1>10. r.evidence.outcome \in EvaluatorOutcomes
  <2>1. PICK v \in Verifications : r = Receipt(v.evidence, v.context)
    BY <1>9 DEF RowsInv, ReceiptsToGive, Foreign
  <2>. QED BY <2>1, RowsAssumption DEF Receipt
<1>11. r.evidence.outcome \notin {"missing-evidence", "invalid-evidence", "abstained"}
  BY <1>1, <1>2 DEF MissingEvidence, InvalidEvidence, Declared
<1>12. r.evidence.outcome = "scored" BY <1>10, <1>11 DEF EvaluatorOutcomes
<1>. QED BY <1>7, <1>9, <1>12

\* Each receipt of an admissible dataset is trusted, of the one context, and the
\* only evidence for the output of an execution that it is not older than.
LEMMA AdmissibleIsUsed ==
  ASSUME RowsInv, AdmissibleDataset(traceRows, receiptRows), NEW r \in Present(receiptRows)
  PROVE  /\ receiptRows[r] = 1
         /\ r.authentic /\ r.status = "trusted"
         /\ \A q \in Present(receiptRows) : q.context = r.context
         /\ \E t \in Present(traceRows) :
                /\ LineageMatches(t, r.evidence)
                /\ t.completed <= r.evidence.producedAt
                /\ \A q \in Present(receiptRows) : LineageMatches(t, q.evidence) => q = r
<1>1. /\ StructuralReasons(traceRows, receiptRows) = {}
      /\ ~InvalidEvidence(traceRows, receiptRows)
  BY DEF AdmissibleDataset
<1>2. Stable(receiptRows) = Present(receiptRows)
  <2>1. Stable(receiptRows) \subseteq Present(receiptRows) BY DEF Stable
  <2>. QED BY <1>1, <2>1 DEF InvalidEvidence, InvalidReceipts
<1>3. \A q \in Present(receiptRows) : Acceptable(q) BY <1>2 DEF Stable
<1>4. receiptRows[r] = 1
  <2>1. ~(receiptRows[r] > 1)
    BY <1>1, <1>2, StructureHolds DEF DuplicateEvidence
  <2>. QED BY <2>1 DEF RowsInv
<1>5. ASSUME NEW q \in Present(receiptRows) PROVE q.context = r.context
  <2>1. Cardinality(VerificationContexts(receiptRows)) = 1 BY <1>2 DEF Stable
  <2>2. /\ q.context \in VerificationContexts(receiptRows)
        /\ r.context \in VerificationContexts(receiptRows)
    BY <1>3 DEF VerificationContexts, Acceptable
  <2>. QED BY <2>1, <2>2, OnlyOne DEF RowsInv
<1>6. PICK t \in Present(traceRows) : LineageMatches(t, r.evidence)
  BY <1>1, <1>2, NothingLeftOver
<1>7. t.completed <= r.evidence.producedAt
  <2>1. ~(r.evidence.producedAt < t.completed)
    BY <1>1, <1>2, <1>6, NothingLeftOver DEF InvalidEvidence, Predates
  <2>2. t.completed \in Nat BY RowsAssumption DEF RowsInv
  <2>3. PICK v \in Verifications : r = Receipt(v.evidence, v.context)
    BY <1>3 DEF RowsInv, ReceiptsToGive, Foreign, Acceptable
  <2>4. r.evidence.producedAt \in Nat BY <2>3, RowsAssumption DEF Receipt
  <2>. QED BY <2>1, <2>2, <2>4
<1>8. ASSUME NEW q \in Present(receiptRows), LineageMatches(t, q.evidence) PROVE q = r
  <2>1. JoinKey(q.evidence) = JoinKey(r.evidence) BY <1>6, <1>8 DEF LineageMatches
  <2>2. r \in Undisputed(receiptRows) BY <1>1, <1>2, NothingLeftOver
  <2>. QED BY <1>2, <2>1, <2>2 DEF Undisputed
<1>. QED BY <1>3, <1>4, <1>5, <1>6, <1>7, <1>8 DEF Acceptable

\* A dataset that calls itself admissible is whole, whatever rows a caller gave.
THEOREM AdmissibleDatasetsAreWhole == StudySpec => []AdmissibleIsComplete
<1>1. RowsInv => AdmissibleIsComplete
  <2> SUFFICES ASSUME RowsInv, ~JoinThrows(traceRows),
                      AdmissibleDataset(traceRows, receiptRows)
               PROVE  AdmissibleIsComplete
    BY DEF AdmissibleIsComplete
  <2>1. ASSUME NEW t \in Present(traceRows)
        PROVE  /\ traceRows[t] = 1
               /\ RequiredProfiles =
                      {u.profile : u \in {u \in Present(traceRows) : u.case = t.case}}
    <3>1. StructuralReasons(traceRows, receiptRows) = {} BY DEF AdmissibleDataset
    <3>2. Retained(traceRows) = Present(traceRows) BY <3>1, NothingLeftOver
    <3>3. ~(traceRows[t] > 1)
      BY <3>1, <3>2, StructureHolds DEF DuplicateTraces, Retained
    <3>4. traceRows[t] = 1 BY <3>3 DEF RowsInv
    <3>5. t.case \in PairedCases(traceRows)
      BY <3>2 DEF AdmissibleDataset, CasesOf
    <3>6. \A u \in Present(traceRows) : u.profile \in RequiredProfiles
      BY DEF JoinThrows, TraceAdmitted, RequiredProfiles
    <3>. QED BY <3>2, <3>4, <3>5, <3>6 DEF PairedCases
  <2>. QED BY <2>1, AdmissibleIsScored, AdmissibleIsUsed DEF AdmissibleIsComplete
<1>. QED BY <1>1, RowsAreGiven, PTL

-----------------------------------------------------------------------------
(* The decisions.                                                          *)

PolicyRecords ==
    [kind : {"expert-only", "fast-only", "cascade"}, primary : Candidates \cup {Champion},
     predicate : Predicates \cup {Absent}, issuedAt : Nat]

Statuses == {"PASS", "HOLD", "INSUFFICIENT_EVIDENCE", "STALE"}

\* Only a window has a manifest, and that was sealed after its end.
ManifestInv ==
    manifest # Absent =>
        phase = "window" /\ WindowEnd <= manifest.watermark /\ manifest.watermark \in Nat

StudyRows == Executions(traceRows, receiptRows)

\* What assess makes before its contract looks at it.
Made(policies, frozen, context, clearing, chosen) ==
    LET control == ControlBundle(IssueTime(context))
        Assess(p) == Assessed(p, control, StudyRows, context, frozen, clearing)
    IN  [phase |-> phase, context |-> context, manifest |-> manifest,
         control |-> Assess(control), candidates |-> {Assess(p) : p \in policies},
         selected |-> chosen, stale |-> IsStale(frozen, StudyRows, context),
         status |-> IF frozen = Absent
                    THEN DevelopmentStatus({Assess(p) : p \in policies})
                    ELSE (CHOOSE c \in {Assess(p) : p \in policies} : TRUE).status]

-----------------------------------------------------------------------------
(* Executions and replays.                                                 *)

\* A zero is that of an execution that failed, a score that of one that did not.
LEMMA OutcomeMeans ==
  ASSUME RowsInv, NEW x \in StudyRows
  PROVE  /\ x.trace \in Retained(traceRows)
         /\ x.outcome.kind = "protocol-failure-zero" => x.trace.terminal # "success"
         /\ x.outcome.kind = "scored" => x.trace.terminal = "success"
<1>1. PICK t \in Retained(traceRows) : x = [trace |-> t, outcome |-> OutcomeOf(t, receiptRows)]
  BY DEF StudyRows, Executions
<1>2. ASSUME OutcomeOf(t, receiptRows).kind = "protocol-failure-zero", t.terminal = "success"
      PROVE  FALSE
  <2>1. PICK r \in Matching(t, receiptRows) : r.evidence.outcome = "protocol-failure-zero"
    BY <1>2 DEF OutcomeOf, Outcome
  <2>2. r \in Present(receiptRows) /\ r.authentic
    BY DEF Matching, Undisputed, Stable, Acceptable
  <2>3. PICK v \in Verifications : r = Receipt(v.evidence, v.context)
    BY <2>2 DEF RowsInv, ReceiptsToGive, Foreign
  <2>. QED BY <2>1, <2>3, RowsAssumption DEF Receipt, EvaluatorOutcomes
<1>3. x.outcome.kind = "scored" => x.trace.terminal = "success"
  <2>1. x \in Executions(traceRows, receiptRows) BY DEF StudyRows
  <2>. QED BY <2>1, ScoredByMatching
<1>4. x.trace = t /\ x.outcome = OutcomeOf(t, receiptRows) BY <1>1
<1>. QED BY <1>2, <1>3, <1>4

\* A row of a replay is that of an execution, and has its score.
LEMMA RowOfReplay ==
  ASSUME NEW policy \in PolicyRecords, NEW executions, NEW row \in Replay(policy, executions)
  PROVE  /\ row.selected \in executions
         /\ row.score = ScoreOf(row.selected.outcome)
         /\ row.case = row.selected.trace.case
<1>0. PICK c \in ReplayedCases(policy, executions) :
          \E p \in Of(executions, c, policy.primary), e \in Of(executions, c, Champion) :
              row = ReplayRow(policy, p, e)
  BY DEF Replay
<1>1. PICK p \in Of(executions, c, policy.primary), e \in Of(executions, c, Champion) :
          row = ReplayRow(policy, p, e)
  BY <1>0
<1>2. policy.kind = "cascade" => p.trace.signal # Absent BY <1>1 DEF ReplayedCases
<1>3. policy.kind \in {"expert-only", "fast-only", "cascade"} BY DEF PolicyRecords
<1>4. row = Direct(e) \/ row = Direct(p) \/ row = Fallback(p, e)
  BY <1>1, <1>2, <1>3 DEF ReplayRow
<1>5. p \in executions /\ e \in executions BY DEF Of
<1>6. Fallback(p, e).selected = e /\ Fallback(p, e).score = ScoreOf(e.outcome)
      /\ Fallback(p, e).case = e.trace.case
  BY DEF Fallback, Direct
<1>. QED BY <1>4, <1>5, <1>6 DEF Direct

\* A replay that has no reason to leave a case out has rows of every case.
LEMMA ReplayIsWhole ==
  ASSUME NEW policy \in PolicyRecords, NEW executions, ReplayReasons(policy, executions) = {}
  PROVE  {r.case : r \in Replay(policy, executions)} = CasesIn(executions)
<1>1. ReplayedCases(policy, executions) = CasesIn(executions) BY DEF ReplayReasons
<1>2. ASSUME NEW r \in Replay(policy, executions) PROVE r.case \in CasesIn(executions)
  BY RowOfReplay DEF CasesIn
<1>3. ASSUME NEW c \in CasesIn(executions)
      PROVE  \E r \in Replay(policy, executions) : r.case = c
  <2>1. c \in ReplayedCases(policy, executions) BY <1>1
  <2>2. PICK p \in Of(executions, c, policy.primary) : TRUE BY <2>1 DEF ReplayedCases
  <2>3. PICK e \in Of(executions, c, Champion) : TRUE BY <2>1 DEF ReplayedCases
  <2>4. ReplayRow(policy, p, e) \in Replay(policy, executions) BY <2>1 DEF Replay
  <2>5. p.trace.case = c /\ e.trace.case = c BY DEF Of
  <2>6. policy.kind = "cascade" => p.trace.signal # Absent BY <2>1 DEF ReplayedCases
  <2>7. policy.kind \in {"expert-only", "fast-only", "cascade"} BY DEF PolicyRecords
  <2>8. ReplayRow(policy, p, e) \in {Direct(e), Direct(p), Fallback(p, e)}
    BY <2>6, <2>7 DEF ReplayRow
  <2>9. Direct(e).case = c /\ Direct(p).case = c /\ Fallback(p, e).case = c
    BY <2>5 DEF Direct, Fallback
  <2>10. ReplayRow(policy, p, e).case = c BY <2>8, <2>9
  <2>. QED BY <2>4, <2>10
<1>. QED BY <1>2, <1>3

-----------------------------------------------------------------------------
(* The decision contract.                                                  *)

\* Each assessment of a policy satisfies the schema of its status.
LEMMA AssessedHolds ==
  ASSUME RowsInv, NEW policy \in PolicyRecords, NEW control, NEW context, NEW frozen,
         NEW clearing
  PROVE  LET c == Assessed(policy, control, StudyRows, context, frozen, clearing)
         IN  /\ c.policy = policy /\ c.status \in Statuses
             /\ CandidateHolds(c)
             /\ c.status = "STALE" <=> IsStale(frozen, StudyRows, context)
<1> DEFINE c == Assessed(policy, control, StudyRows, context, frozen, clearing)
<1>1. CASE IsStale(frozen, StudyRows, context)
  BY <1>1 DEF Assessed, StaleCandidate, CandidateHolds, Statuses
<1>2. CASE ~IsStale(frozen, StudyRows, context)
  <2>1. c = Candidate(policy, control, StudyRows, policy \in clearing) BY <1>2 DEF Assessed
  <2>2. ASSUME NEW r \in Replay(policy, StudyRows), r.score.available,
               r.selected.trace.terminal # "success"
        PROVE  r.selected.outcome.kind = "protocol-failure-zero"
    <3>1. r.selected \in StudyRows /\ ScoreOf(r.selected.outcome).available
      BY <2>2, RowOfReplay
    <3>2. r.selected.outcome.kind \in {"scored", "protocol-failure-zero"}
      BY <3>1 DEF ScoreOf
    <3>. QED BY <2>2, <3>1, <3>2, OutcomeMeans
  <2> DEFINE reasons == Insufficiencies(policy, control, StudyRows)
  <2>3. c = [policy |-> policy, replay |-> Replay(policy, StudyRows),
             reasons |-> reasons, inferred |-> reasons = {},
             gatesFail |-> reasons # {} \/ ~(policy \in clearing),
             status |-> IF reasons # {} THEN "INSUFFICIENT_EVIDENCE"
                        ELSE IF policy \in clearing THEN "PASS" ELSE "HOLD"]
    BY <2>1 DEF Candidate
  <2> HIDE DEF reasons, c
  <2>4. c.policy = policy /\ c.status \in Statuses /\ c.status # "STALE"
    BY <2>3 DEF Statuses
  <2>5. \A r \in c.replay :
            r.score.available /\ r.selected.trace.terminal # "success"
                => r.selected.outcome.kind = "protocol-failure-zero"
    BY <2>2, <2>3
  <2>6. CandidateHolds(c) BY <2>3, <2>5 DEF CandidateHolds
  <2>. QED BY <1>2, <2>4, <2>6 DEF c
<1>. QED BY <1>1, <1>2

\* Development: the status of the decision is made of those of its candidates.
LEMMA DevelopmentContract ==
  ASSUME NEW candidates, candidates # {}, NEW stale \in BOOLEAN,
         \A c \in candidates : /\ c.status \in Statuses /\ c.policy # Absent
                               /\ c.status = "STALE" <=> stale,
         NEW chosen \in Selectable(candidates), NEW d,
         d.candidates = candidates, d.selected = chosen,
         d.status = DevelopmentStatus(candidates)
  PROVE  DevelopmentHolds(d) /\ (d.status = "STALE" <=> stale)
<1>1. CASE stale
  <2>1. d.status = "STALE" BY <1>1 DEF DevelopmentStatus
  <2>2. chosen = Absent BY <1>1 DEF Selectable
  <2>. QED BY <1>1, <2>1, <2>2 DEF DevelopmentHolds
<1>2. CASE ~stale /\ \E c \in candidates : c.status = "PASS"
  <2>1. d.status = "NOMINATED" BY <1>2 DEF DevelopmentStatus
  <2>2. \E c \in candidates : c.policy = chosen /\ c.status = "PASS"
    BY <1>2 DEF Selectable
  <2>. QED BY <1>2, <2>1, <2>2 DEF DevelopmentHolds
<1>3. CASE ~stale /\ ~\E c \in candidates : c.status = "PASS"
  <2>1. chosen = Absent BY <1>3 DEF Selectable
  <2>2. CASE \A c \in candidates : c.status = "INSUFFICIENT_EVIDENCE"
    <3>1. d.status = "INSUFFICIENT_EVIDENCE" BY <1>3, <2>2 DEF DevelopmentStatus
    <3>2. {c.status : c \in candidates} = {"INSUFFICIENT_EVIDENCE"} BY <2>2
    <3>. QED BY <1>3, <2>1, <3>1, <3>2 DEF DevelopmentHolds
  <2>3. CASE ~\A c \in candidates : c.status = "INSUFFICIENT_EVIDENCE"
    <3>1. d.status = "NO_CANDIDATE" BY <1>3, <2>3 DEF DevelopmentStatus
    <3>2. PICK c \in candidates : c.status # "INSUFFICIENT_EVIDENCE" BY <2>3
    <3>3. c.status = "HOLD" BY <1>3, <3>2 DEF Statuses
    <3>. QED BY <1>3, <2>1, <3>1, <3>3 DEF DevelopmentHolds
  <2>. QED BY <2>2, <2>3
<1>. QED BY <1>1, <1>2, <1>3

\* The policies that assess is given: all that may be nominated, or the frozen one.
Given(policies, frozen, context) ==
    /\ context \in Contexts
    /\ policies # {} /\ policies \subseteq PolicyRecords
    /\ frozen = Absent <=> phase = "development"
    /\ frozen # Absent => policies = {frozen}
    /\ phase = "window" <=> manifest # Absent

\* Whatever assess makes, its contract accepts.
LEMMA ContractAccepts ==
  ASSUME RowsInv, NEW policies, NEW frozen, NEW context, Given(policies, frozen, context),
         NEW clearing,
         NEW chosen \in
             IF frozen = Absent
             THEN Selectable({Assessed(p, ControlBundle(IssueTime(context)), StudyRows, context,
                                       frozen, clearing) : p \in policies})
             ELSE {frozen}
  PROVE  DecisionHolds(Made(policies, frozen, context, clearing, chosen))
<1> DEFINE control == ControlBundle(IssueTime(context))
<1> DEFINE Assess(p) == Assessed(p, control, StudyRows, context, frozen, clearing)
<1> DEFINE candidates == {Assess(p) : p \in policies}
<1> DEFINE stale == IsStale(frozen, StudyRows, context)
<1> DEFINE d == Made(policies, frozen, context, clearing, chosen)
<1>1. control \in PolicyRecords /\ control.kind = "expert-only"
  BY EvidenceJoinAssumption, PolicyAssumption DEF Given, PolicyRecords, ControlBundle, IssueTime
<1>2. stale \in BOOLEAN BY DEF IsStale
<1>3. \A p \in policies \cup {control} :
          /\ Assess(p).policy = p /\ Assess(p).status \in Statuses
          /\ CandidateHolds(Assess(p))
          /\ Assess(p).status = "STALE" <=> stale
  BY <1>1, AssessedHolds DEF Given
<1>4. /\ d.phase = phase /\ d.manifest = manifest /\ d.control = Assess(control)
      /\ d.candidates = candidates /\ d.selected = chosen /\ d.stale = stale
      /\ d.status = IF frozen = Absent THEN DevelopmentStatus(candidates)
                    ELSE (CHOOSE c \in candidates : TRUE).status
  BY DEF Made
<1>5. \A c \in candidates : /\ c.status \in Statuses /\ c.policy \in policies
                            /\ CandidateHolds(c) /\ (c.status = "STALE" <=> stale)
  BY <1>3
<1>6. candidates # {} BY DEF Given
<1>7. \A c \in candidates : c.policy # Absent
  BY <1>5, PolicyAssumption DEF Given, PolicyRecords
<1>8. chosen \in IF frozen = Absent THEN Selectable(candidates) ELSE {frozen}
  OBVIOUS
<1>9. frozen # Absent => candidates = {Assess(frozen)} BY DEF Given
<1> HIDE DEF Assess, candidates, stale, d, control
<1>10. CASE frozen = Absent
  <2>1. DevelopmentHolds(d) /\ (d.status = "STALE" <=> stale)
    BY <1>2, <1>4, <1>5, <1>6, <1>7, <1>8, <1>10, DevelopmentContract
  <2>. QED BY <1>1, <1>2, <1>3, <1>4, <1>5, <1>10, <2>1 DEF DecisionHolds, Given, d
<1>11. CASE frozen # Absent
  <2>1. frozen \in policies BY <1>11 DEF Given
  <2>2. d.status = Assess(frozen).status /\ chosen = frozen
    BY <1>4, <1>8, <1>9, <1>11
  <2>3. FrozenHolds(d)
    BY <1>3, <1>4, <1>9, <1>11, <2>1, <2>2 DEF FrozenHolds, Statuses
  <2>4. d.status = "STALE" <=> stale BY <1>3, <2>1, <2>2
  <2>. QED BY <1>1, <1>2, <1>3, <1>4, <1>5, <1>11, <2>3, <2>4 DEF DecisionHolds, Given, d
<1>. QED BY <1>10, <1>11

-----------------------------------------------------------------------------
(* Favourable decisions.                                                   *)

MayBeChosen(policies, frozen, context, clearing) ==
    IF frozen = Absent
    THEN Selectable({Assessed(p, ControlBundle(IssueTime(context)), StudyRows, context,
                              frozen, clearing) : p \in policies})
    ELSE {frozen}

\* A favourable decision is not stale, and is that of a policy for which nothing
\* is insufficient.
LEMMA FavourableMade ==
  ASSUME RowsInv, NEW policies, NEW frozen, NEW context, Given(policies, frozen, context),
         NEW clearing, NEW chosen \in MayBeChosen(policies, frozen, context, clearing),
         NEW d, d = Made(policies, frozen, context, clearing, chosen),
         d.status \in {"NOMINATED", "PASS"}
  PROVE  LET control == ControlBundle(IssueTime(context)) IN
         /\ ~IsStale(frozen, StudyRows, context)
         /\ chosen \in policies /\ control \in PolicyRecords
         /\ d.selected = chosen /\ d.context = context
         /\ d.manifest = manifest /\ d.phase = phase
         /\ Insufficiencies(chosen, control, StudyRows) = {}
         /\ (CHOOSE c \in d.candidates : c.policy = d.selected).replay
                = Replay(chosen, StudyRows)
         /\ d.control.replay = Replay(control, StudyRows)
<1> DEFINE control == ControlBundle(IssueTime(context))
<1> DEFINE Assess(p) == Assessed(p, control, StudyRows, context, frozen, clearing)
<1> DEFINE candidates == {Assess(p) : p \in policies}
<1>1. control \in PolicyRecords
  BY EvidenceJoinAssumption, PolicyAssumption DEF Given, PolicyRecords, ControlBundle, IssueTime
<1>2. \A p \in policies : /\ Assess(p).policy = p
                          /\ Assess(p).status = "STALE" <=> IsStale(frozen, StudyRows, context)
  BY AssessedHolds DEF Given
<1>3. /\ d.control = Assess(control) /\ d.candidates = candidates /\ d.selected = chosen
      /\ d.context = context /\ d.manifest = manifest /\ d.phase = phase
      /\ d.status = IF frozen = Absent THEN DevelopmentStatus(candidates)
                    ELSE (CHOOSE c \in candidates : TRUE).status
  BY DEF Made
<1>4. chosen \in IF frozen = Absent THEN Selectable(candidates) ELSE {frozen}
  BY DEF MayBeChosen
<1>5. frozen # Absent => policies = {frozen} BY DEF Given
<1>6. ~IsStale(frozen, StudyRows, context) => Assess(control).replay = Replay(control, StudyRows)
  BY DEF Assessed, Candidate
<1>7. \A p \in policies : Assess(p).status = "PASS" =>
          /\ Insufficiencies(p, control, StudyRows) = {}
          /\ Assess(p).replay = Replay(p, StudyRows)
  BY DEF Assessed, Candidate, StaleCandidate
<1> HIDE DEF Assess, control
<1>8. chosen \in policies /\ Assess(chosen).status = "PASS"
  <2>1. CASE frozen = Absent
    <3>1. DevelopmentStatus(candidates) \in {"NOMINATED", "PASS"} BY <1>3, <2>1
    <3>2. \E c \in candidates : c.status = "PASS" BY <3>1 DEF DevelopmentStatus
    <3>3. PICK c \in candidates : c.status = "PASS" /\ c.policy = chosen
      BY <1>4, <2>1, <3>2 DEF Selectable
    <3>4. PICK p \in policies : c = Assess(p) BY <3>3
    <3>. QED BY <1>2, <3>3, <3>4
  <2>2. CASE frozen # Absent
    <3>1. policies = {frozen} /\ chosen = frozen BY <1>4, <1>5, <2>2
    <3>2. candidates = {Assess(frozen)} BY <3>1
    <3>3. d.status = Assess(frozen).status BY <1>3, <2>2, <3>2
    <3>4. Assess(frozen).status \in {"PASS", "HOLD", "INSUFFICIENT_EVIDENCE", "STALE"}
      BY <3>1, AssessedHolds DEF Given, Assess, Statuses
    <3>. QED BY <3>1, <3>3, <3>4
  <2>. QED BY <2>1, <2>2
<1>9. \A c \in candidates : c.policy = chosen <=> c = Assess(chosen) BY <1>2, <1>8
<1>10. (CHOOSE c \in d.candidates : c.policy = d.selected) = Assess(chosen)
  <2>1. Assess(chosen) \in candidates BY <1>8
  <2>. QED BY <1>3, <1>9, <2>1
<1>11. ~IsStale(frozen, StudyRows, context) BY <1>2, <1>8
<1>. QED BY <1>1, <1>3, <1>6, <1>7, <1>8, <1>10, <1>11 DEF control

\* Of an execution that has a score: the receipt it is by.
LEMMA ScoreReceipt ==
  ASSUME RowsInv, NEW x \in StudyRows, x.outcome.kind = "scored"
  PROVE  LET r == x.outcome.receipt IN
         /\ x.outcome.accepted
         /\ r \in Present(receiptRows) /\ r \in Undisputed(receiptRows)
         /\ Acceptable(r) /\ JoinKey(r.evidence) = JoinKey(x.trace)
         /\ x.trace.completed <= r.evidence.producedAt
         /\ r.evidence.producedAt \in Nat
         /\ r.context.asOf \in Nat
         /\ Trust.keys[r.evidence.key].revokedAt \in Nat
         /\ ~(Trust.keys[r.evidence.key].revokedAt <= r.context.asOf)
<1>1. x \in Executions(traceRows, receiptRows) BY DEF StudyRows
<1>2. PICK r \in Matching(x.trace, receiptRows) : x.outcome = Outcome("scored", r, TRUE)
  BY <1>1, ScoredByMatching
<1>3. x.outcome.receipt = r /\ x.outcome.accepted BY <1>2 DEF Outcome
<1>4. /\ r \in Undisputed(receiptRows) /\ r \in Stable(receiptRows)
      /\ JoinKey(x.trace) = JoinKey(r.evidence)
      /\ ~(r.evidence.producedAt < x.trace.completed)
  BY DEF Matching, Undisputed, LineageMatches, Predates
<1>5. r \in Present(receiptRows) /\ Acceptable(r) BY <1>4 DEF Stable
<1>6. PICK v \in Verifications : r = Receipt(v.evidence, v.context)
  BY <1>5 DEF RowsInv, ReceiptsToGive, Foreign, Acceptable
<1>7. /\ r.evidence = v.evidence /\ r.context = v.context
      /\ Verdict(v.evidence, v.context) = "trusted"
  BY <1>5, <1>6 DEF Receipt, Acceptable
<1>8. v.evidence.key \in DOMAIN Trust.keys
      /\ ~(Trust.keys[v.evidence.key].revokedAt <= v.context.asOf)
  BY <1>7 DEF Verdict
<1>9. r.evidence.producedAt \in Nat /\ r.context.asOf \in Nat
      /\ Trust.keys[r.evidence.key].revokedAt \in Nat
  BY <1>7, <1>8, RowsAssumption
<1>10. x.trace \in Present(traceRows)
  BY <1>1, ScoredByMatching DEF Retained, OneDigestPerId
<1>11. x.trace.completed \in Nat BY <1>10, RowsAssumption DEF RowsInv
<1>. QED BY <1>3, <1>4, <1>5, <1>7, <1>8, <1>9, <1>11

\* What PassRestsOnEvidence says of one replay.
Rests(replay, context) ==
    /\ {t.case : t \in Present(traceRows)} = {r.case : r \in replay}
    /\ \A r \in replay : LET x == r.selected IN
           \/ x.trace.terminal # "success" /\ x.outcome.kind = "protocol-failure-zero"
           \/ /\ x.outcome.kind = "scored"
              /\ x.outcome.receipt \in Present(receiptRows)
              /\ x.outcome.receipt.authentic
              /\ x.outcome.receipt.status = "trusted"
              /\ x.outcome.receipt.context = context
              /\ {q \in Present(receiptRows) :
                    Acceptable(q) /\ JoinKey(q.evidence) = JoinKey(x.trace)}
                    = {x.outcome.receipt}

\* A replay without a reason against it rests on the evidence that was given, and
\* on all of it that the pinned evaluator has for an output.
LEMMA ReplayRests ==
  ASSUME RowsInv, NEW context, ContextAgrees(context),
         StructuralReasons(traceRows, receiptRows) = {},
         NEW policy \in PolicyRecords, ReplayReasons(policy, StudyRows) = {},
         RowReasons(Replay(policy, StudyRows)) = {}
  PROVE  Rests(Replay(policy, StudyRows), context)
<1>1. {t.case : t \in Present(traceRows)} = CasesIn(StudyRows)
  <2>1. Retained(traceRows) = Present(traceRows) BY NothingLeftOver
  <2>2. CasesIn(StudyRows) = {t.case : t \in Retained(traceRows)}
    <3>1. \A x \in StudyRows : x.trace \in Retained(traceRows) BY OutcomeMeans
    <3>2. ASSUME NEW t \in Retained(traceRows) PROVE \E x \in StudyRows : x.trace = t
      <4>1. [trace |-> t, outcome |-> OutcomeOf(t, receiptRows)] \in StudyRows
        BY DEF StudyRows, Executions
      <4>. QED BY <4>1
    <3>. QED BY <3>1, <3>2 DEF CasesIn
  <2>. QED BY <2>1, <2>2
<1>2. ASSUME NEW r \in Replay(policy, StudyRows),
             r.selected.outcome.kind # "protocol-failure-zero"
      PROVE  LET x == r.selected IN
             /\ x.outcome.kind = "scored"
             /\ x.outcome.receipt \in Present(receiptRows)
             /\ x.outcome.receipt.authentic
             /\ x.outcome.receipt.status = "trusted"
             /\ x.outcome.receipt.context = context
             /\ {q \in Present(receiptRows) :
                   Acceptable(q) /\ JoinKey(q.evidence) = JoinKey(x.trace)}
                   = {x.outcome.receipt}
  <2> DEFINE x == r.selected
  <2>1. x \in StudyRows /\ r.score = ScoreOf(x.outcome) BY RowOfReplay
  <2>2. r.score.available BY DEF RowReasons
  <2>3. x.outcome.kind = "scored" BY <1>2, <2>1, <2>2 DEF ScoreOf
  <2> DEFINE e == x.outcome.receipt
  <2>4. /\ e \in Present(receiptRows) /\ e \in Undisputed(receiptRows) /\ Acceptable(e)
        /\ JoinKey(e.evidence) = JoinKey(x.trace)
    BY <2>1, <2>3, ScoreReceipt
  <2>5. e.context = context BY <2>4 DEF ContextAgrees, Acceptable
  <2>6. ASSUME NEW q \in Present(receiptRows), Acceptable(q),
               JoinKey(q.evidence) = JoinKey(x.trace)
        PROVE  q = e
    <3>1. e \in Stable(receiptRows) BY <2>4 DEF Undisputed
    <3>2. q \in Stable(receiptRows) BY <2>6, <3>1 DEF Stable
    <3>. QED BY <2>4, <2>6, <3>2 DEF Undisputed
  <2>7. {q \in Present(receiptRows) :
           Acceptable(q) /\ JoinKey(q.evidence) = JoinKey(x.trace)} = {e}
    BY <2>4, <2>6
  <2>8. e.authentic /\ e.status = "trusted" BY <2>4 DEF Acceptable
  <2>. QED BY <2>3, <2>4, <2>5, <2>7, <2>8
<1>3. ASSUME NEW r \in Replay(policy, StudyRows),
             r.selected.outcome.kind = "protocol-failure-zero"
      PROVE  r.selected.trace.terminal # "success"
  BY <1>3, RowOfReplay, OutcomeMeans
<1>4. {t.case : t \in Present(traceRows)} = {r.case : r \in Replay(policy, StudyRows)}
  BY <1>1, ReplayIsWhole
<1>. QED BY <1>2, <1>3, <1>4 DEF Rests

-----------------------------------------------------------------------------
(* The steps of a study.                                                   *)

\* What assess leaves is what it made: its contract refused nothing.
LEMMA DecideMakes ==
  ASSUME RowsInv, NEW policies, NEW frozen, NEW context, Given(policies, frozen, context),
         NEW clearing, Decide(policies, frozen, context, clearing)
  PROVE  /\ \E chosen \in MayBeChosen(policies, frozen, context, clearing) :
                decision' = Made(policies, frozen, context, clearing, chosen)
         /\ IsStale(frozen, StudyRows, context) \/ IntegrityHolds(StudyRows)
         /\ UNCHANGED <<traceRows, receiptRows, phase, manifest>>
         /\ decision' # Refused
<1>1. PICK chosen \in MayBeChosen(policies, frozen, context, clearing) :
          decision' = IF DecisionHolds(Made(policies, frozen, context, clearing, chosen))
                      THEN Made(policies, frozen, context, clearing, chosen) ELSE Refused
  BY DEF Decide, MayBeChosen, Made, StudyRows
<1>2. DecisionHolds(Made(policies, frozen, context, clearing, chosen))
  BY ContractAccepts DEF MayBeChosen
<1>3. decision' = Made(policies, frozen, context, clearing, chosen) BY <1>1, <1>2
<1>4. decision'.status # "REFUSED"
  BY <1>2, <1>3 DEF DecisionHolds, DevelopmentHolds, FrozenHolds
<1>5. decision' # Refused BY <1>4 DEF Refused
<1>6. IsStale(frozen, StudyRows, context) \/ IntegrityHolds(StudyRows)
  BY DEF Decide, StudyRows
<1>7. UNCHANGED <<traceRows, receiptRows, phase, manifest>> BY DEF Decide
<1>. QED BY <1>3, <1>5, <1>6, <1>7

\* So the decision rests on its evidence.
LEMMA DecideRests ==
  ASSUME RowsInv, NEW policies, NEW frozen, NEW context, Given(policies, frozen, context),
         NEW clearing, Decide(policies, frozen, context, clearing)
  PROVE  PassRestsOnEvidence'
<1>1. /\ UNCHANGED <<traceRows, receiptRows>>
      /\ IsStale(frozen, StudyRows, context) \/ IntegrityHolds(StudyRows)
  BY DecideMakes
<1>2. PICK chosen \in MayBeChosen(policies, frozen, context, clearing) :
          decision' = Made(policies, frozen, context, clearing, chosen)
  BY DecideMakes
<1> DEFINE control == ControlBundle(IssueTime(context))
<1> SUFFICES ASSUME decision'.status \in {"NOMINATED", "PASS"}
             PROVE  \A replay \in {Chosen'.replay, decision'.control.replay} :
                        Rests(replay, decision'.context)
  BY <1>1 DEF PassRestsOnEvidence, Favourable, Rests
<1>3. /\ ~IsStale(frozen, StudyRows, context)
      /\ chosen \in policies /\ control \in PolicyRecords
      /\ decision'.context = context
      /\ Insufficiencies(chosen, control, StudyRows) = {}
      /\ Chosen'.replay = Replay(chosen, StudyRows)
      /\ decision'.control.replay = Replay(control, StudyRows)
  BY <1>2, FavourableMade DEF Chosen
<1>4. /\ ContextAgrees(context) /\ StructuralReasons(traceRows, receiptRows) = {}
      /\ chosen \in PolicyRecords
  BY <1>1, <1>3 DEF IsStale, IntegrityHolds, Given
<1>5. /\ ReplayReasons(chosen, StudyRows) = {} /\ ReplayReasons(control, StudyRows) = {}
      /\ RowReasons(Replay(chosen, StudyRows)) = {}
      /\ RowReasons(Replay(control, StudyRows)) = {}
  BY <1>3 DEF Insufficiencies
<1> HIDE DEF control
<1>. QED BY <1>3, <1>4, <1>5, ReplayRests

\* And its times are in order.
LEMMA DecideSealed ==
  ASSUME RowsInv, ManifestInv, NEW policies, NEW frozen, NEW context,
         Given(policies, frozen, context),
         NEW clearing, Decide(policies, frozen, context, clearing)
  PROVE  PassIsSealed'
<1>1. /\ UNCHANGED <<traceRows, receiptRows, phase, manifest>>
      /\ IsStale(frozen, StudyRows, context) \/ IntegrityHolds(StudyRows)
  BY DecideMakes
<1>2. PICK chosen \in MayBeChosen(policies, frozen, context, clearing) :
          decision' = Made(policies, frozen, context, clearing, chosen)
  BY DecideMakes
<1> SUFFICES ASSUME decision'.status \in {"NOMINATED", "PASS"}, decision'.phase = "window"
             PROVE  PassIsSealed'
  BY DEF PassIsSealed, Favourable
<1>3. /\ ~IsStale(frozen, StudyRows, context)
      /\ chosen \in policies /\ decision'.selected = chosen
      /\ decision'.context = context /\ decision'.manifest = manifest /\ phase = "window"
      /\ Chosen'.replay = Replay(chosen, StudyRows)
  BY <1>2, FavourableMade DEF Chosen
<1>4. frozen # Absent /\ chosen = frozen /\ manifest # Absent /\ chosen \in PolicyRecords
  BY <1>3 DEF Given
<1>5. /\ ContextAgrees(context) /\ StructuralReasons(traceRows, receiptRows) = {}
      /\ WindowEnd <= context.asOf /\ manifest.watermark <= context.asOf
      /\ chosen.issuedAt <= WindowStart /\ ~(Expires <= context.asOf)
      /\ \A x \in StudyRows : TraceInWindow(x.trace, manifest) /\ EvidenceInWindow(x, manifest)
  BY <1>1, <1>3, <1>4 DEF IsStale, IntegrityHolds, WindowWasSealed
<1>6. context.asOf \in Nat /\ Expires \in Nat /\ WindowEnd <= manifest.watermark
  BY <1>4, EvidenceJoinAssumption, PolicyAssumption DEF Given, ManifestInv
<1>7. context.asOf < Expires BY <1>5, <1>6
<1>8. ASSUME NEW t \in Present(traceRows)
      PROVE  /\ WindowStart <= t.started /\ t.started < WindowEnd
             /\ t.completed <= manifest.watermark
  <2>1. t \in Retained(traceRows) BY <1>5, NothingLeftOver
  <2>2. [trace |-> t, outcome |-> OutcomeOf(t, receiptRows)] \in StudyRows
    BY <2>1 DEF StudyRows, Executions
  <2>3. TraceInWindow(t, manifest) BY <1>5, <2>2
  <2>. QED BY <2>3 DEF TraceInWindow
<1>9. ASSUME NEW r \in Replay(chosen, StudyRows), r.selected.outcome.kind = "scored"
      PROVE  LET e == r.selected.outcome.receipt.evidence
             IN  /\ r.selected.trace.completed <= e.producedAt
                 /\ e.producedAt <= manifest.watermark
                 /\ Trust.keys[e.key].revokedAt > context.asOf
  <2> DEFINE x == r.selected
  <2> DEFINE q == x.outcome.receipt
  <2>1. x \in StudyRows BY <1>4, RowOfReplay
  <2>2. /\ x.outcome.accepted /\ q \in Present(receiptRows) /\ Acceptable(q)
        /\ x.trace.completed <= q.evidence.producedAt
        /\ q.context.asOf \in Nat
        /\ Trust.keys[q.evidence.key].revokedAt \in Nat
        /\ ~(Trust.keys[q.evidence.key].revokedAt <= q.context.asOf)
    BY <1>9, <2>1, ScoreReceipt
  <2>3. q.evidence.producedAt <= manifest.watermark
    BY <1>5, <2>1, <2>2 DEF EvidenceInWindow
  <2>4. q.context = context BY <1>5, <2>2 DEF ContextAgrees, Acceptable
  <2>. QED BY <2>2, <2>3, <2>4
<1>. QED BY <1>1, <1>3, <1>5, <1>6, <1>7, <1>8, <1>9 DEF PassIsSealed

StudyInv ==
    /\ RowsInv
    /\ ManifestInv
    /\ PassIsSealed /\ PassRestsOnEvidence /\ DecisionContractHolds

\* Every assessment is given what Given says.
LEMMA AssessIsGiven ==
  ASSUME RowsInv, ManifestInv, NEW context \in Contexts,
         \/ NominateDevelopment(context)
         \/ \E p \in FrozenBundles : ConfirmHoldout(p, context) \/ AssessPolicyWindow(p, context)
  PROVE  \E policies, frozen, clearing :
             Given(policies, frozen, context) /\ Decide(policies, frozen, context, clearing)
<1>1. CASE NominateDevelopment(context)
  <2> DEFINE policies == CandidateBundles(IssueTime(context))
  <2>1. IssueTime(context) \in Nat
    BY EvidenceJoinAssumption, PolicyAssumption DEF IssueTime
  <2>2. policies \subseteq PolicyRecords
    BY <2>1 DEF CandidateBundles, PolicyRecords
  <2>3. policies # {}
    <3>1. PICK c \in Candidates : TRUE BY PolicyAssumption
    <3>2. [kind |-> "fast-only", primary |-> c, predicate |-> Absent,
           issuedAt |-> IssueTime(context)] \in policies
      BY DEF CandidateBundles
    <3>. QED BY <3>2
  <2>4. Given(policies, Absent, context)
    BY <1>1, <2>2, <2>3 DEF Given, NominateDevelopment, ManifestInv
  <2>. QED BY <1>1, <2>4 DEF NominateDevelopment
<1>2. ASSUME NEW p \in FrozenBundles, ConfirmHoldout(p, context) \/ AssessPolicyWindow(p, context)
      PROVE  \E policies, frozen, clearing :
                 Given(policies, frozen, context) /\ Decide(policies, frozen, context, clearing)
  <2>1. p \in PolicyRecords
    BY PolicyAssumption DEF FrozenBundles, CandidateBundles, ControlBundle, PolicyRecords
  <2>2. p # Absent BY <2>1, PolicyAssumption DEF PolicyRecords
  <2>3. Given({p}, p, context)
    BY <1>2, <2>1, <2>2 DEF Given, ConfirmHoldout, AssessPolicyWindow, ManifestInv
  <2>. QED BY <1>2, <2>3 DEF ConfirmHoldout, AssessPolicyWindow
<1>. QED BY <1>1, <1>2

LEMMA StudyInvInit == StudyInit => StudyInv
  BY RowsInvInit, PolicyAssumption DEF StudyInit, StudyInv, ManifestInv, PassIsSealed,
     PassRestsOnEvidence, DecisionContractHolds, Favourable, Refused

\* Collection and sealing come before the decision, of which there is one.
LEMMA StudyInvStep == StudyInv /\ [StudyNext]_studyVars => StudyInv'
<1> SUFFICES ASSUME StudyInv, [StudyNext]_studyVars PROVE StudyInv'
  OBVIOUS
<1>1. RowsInv' BY RowsInvStep DEF StudyInv
<1>2. ASSUME decision' = Absent
      PROVE  PassIsSealed' /\ PassRestsOnEvidence' /\ DecisionContractHolds'
  BY <1>2, PolicyAssumption DEF PassIsSealed, PassRestsOnEvidence, DecisionContractHolds,
     Favourable, Refused
<1>3. CASE Collect
  BY <1>1, <1>2, <1>3 DEF StudyInv, ManifestInv, Collect
<1>4. CASE \E p \in FrozenBundles, w \in Watermarks, c \in CapacityEvidence : Seal(p, w, c)
  BY <1>1, <1>2, <1>4, AssessmentAssumption
     DEF StudyInv, ManifestInv, Seal, ManifestHolds, Manifest
<1>5. CASE \E w \in Watermarks, c \in CapacityEvidence : Revise(w, c)
  BY <1>1, <1>2, <1>5, AssessmentAssumption
     DEF StudyInv, ManifestInv, Revise, ManifestHolds, Manifest
<1>6. ASSUME NEW c \in Contexts,
             \/ NominateDevelopment(c)
             \/ \E p \in FrozenBundles : ConfirmHoldout(p, c) \/ AssessPolicyWindow(p, c)
      PROVE  StudyInv'
  <2>1. PICK policies, frozen, clearing :
            Given(policies, frozen, c) /\ Decide(policies, frozen, c, clearing)
    BY <1>6, AssessIsGiven DEF StudyInv
  <2>2. DecisionContractHolds' BY <2>1, DecideMakes DEF StudyInv, DecisionContractHolds
  <2>3. PassRestsOnEvidence' BY <2>1, DecideRests DEF StudyInv
  <2>4. PassIsSealed' BY <2>1, DecideSealed DEF StudyInv
  <2>5. ManifestInv' BY <2>1 DEF Decide, StudyInv, ManifestInv
  <2>. QED BY <1>1, <2>2, <2>3, <2>4, <2>5 DEF StudyInv
<1>7. CASE UNCHANGED studyVars
  <2>1. ManifestInv' BY <1>7 DEF StudyInv, ManifestInv, studyVars
  <2>2. PassIsSealed' BY <1>7 DEF StudyInv, PassIsSealed, Favourable, Chosen, studyVars
  <2>3. PassRestsOnEvidence'
    <3>1. PassRestsOnEvidence <=>
              (Favourable => \A replay \in {Chosen.replay, decision.control.replay} :
                                 Rests(replay, decision.context))
      BY DEF PassRestsOnEvidence, Rests
    <3>2. decision' = decision /\ traceRows' = traceRows /\ receiptRows' = receiptRows
      BY <1>7 DEF studyVars
    <3>3. PassRestsOnEvidence' <=>
              (Favourable => \A replay \in {Chosen.replay, decision.control.replay} :
                                 Rests(replay, decision.context))
      BY <3>2 DEF PassRestsOnEvidence, Rests, Favourable, Chosen
    <3>. QED BY <3>1, <3>3 DEF StudyInv
  <2>4. DecisionContractHolds' BY <1>7 DEF StudyInv, DecisionContractHolds, studyVars
  <2>. QED BY <1>1, <2>1, <2>2, <2>3, <2>4 DEF StudyInv
<1>. QED BY <1>3, <1>4, <1>5, <1>6, <1>7 DEF StudyNext

\* A favourable decision leaves no case out and invents no score, whatever rows,
\* policies and contexts the callers pick.
THEOREM PassesRestOnEvidence == StudySpec => []PassRestsOnEvidence
  BY StudyInvInit, StudyInvStep, PTL DEF StudySpec, StudyInv

\* The times of a favourable window decision are in order.
THEOREM PassesAreSealed == StudySpec => []PassIsSealed
  BY StudyInvInit, StudyInvStep, PTL DEF StudySpec, StudyInv

\* finishDecision never throws: its contract accepts whatever assess makes.
THEOREM NoDecisionIsRefused == StudySpec => []DecisionContractHolds
  BY StudyInvInit, StudyInvStep, PTL DEF StudySpec, StudyInv

-----------------------------------------------------------------------------
(* The loop of experiments.                                                *)

\* What the assessment alone asks for, and what the findings add to it.
Concerning == {k \in findings : Concerns(Findings[k])}
ByAssessment ==
    LET settled == Applying \ {10}
    IN  [diagnosis |-> Diagnoses[CHOOSE i \in settled : \A k \in settled : i <= k],
         finding |-> Nobody]
ByFinding(k) == [diagnosis |-> "capability-mismatch", finding |-> Findings[k]]
Matches == {ByAssessment} \cup {ByFinding(k) : k \in Concerning}

\* The diagnoses by number.
LEMMA DiagnosesNumbered ==
  /\ DOMAIN Diagnoses = 1 .. 11 /\ Applying \subseteq 1 .. 11
  /\ \A i \in 1 .. 11 : Diagnoses[i] = "capability-mismatch" <=> i = 10
  /\ 10 \in Applying => FirstFinding # Nobody
<1>1. DOMAIN Diagnoses = 1 .. 11 BY DEF Diagnoses
<1>2. \A i \in 1 .. 11 : Diagnoses[i] = "capability-mismatch" <=> i = 10 BY DEF Diagnoses
<1>3. Applies("capability-mismatch") => FirstFinding # Nobody BY DEF Applies
<1>. QED BY <1>1, <1>2, <1>3 DEF Applying

\* Of a set of numbers that is not empty one is the least.
LEMMA LeastOf ==
  ASSUME NEW S \in SUBSET Nat, S # {}
  PROVE  \E i \in S : /\ \A k \in S : i <= k
                      /\ i = CHOOSE n \in S : \A k \in S : n <= k
<1>1. \E i \in S : \A k \in S : i <= k
  <2>1. PICK x \in S : \A y \in S : ~(<<y, x>> \in OpToRel(<, Nat))
    BY NatLessThanWellFounded, WFMin
  <2>2. \A y \in S : x <= y
    <3> SUFFICES ASSUME NEW y \in S, ~(x <= y) PROVE FALSE
      OBVIOUS
    <3>1. y < x /\ x \in Nat /\ y \in Nat OBVIOUS
    <3>. QED BY <2>1, <3>1 DEF OpToRel
  <2>. QED BY <2>2
<1>. QED BY <1>1

\* The diagnosis is one that the assessment asks for, or one with a finding.
LEMMA MatchGiven ==
  ASSUME findings \subseteq DOMAIN Findings, actionableDiagnosis # Nobody
  PROVE  \/ \E k \in Concerning : actionableDiagnosis = ByFinding(k)
         \/ /\ actionableDiagnosis = ByAssessment
            /\ ByAssessment.diagnosis
                   \in {Diagnoses[i] : i \in 1 .. 11} \ {"capability-mismatch"}
<1>1. Applying # {} BY DEF actionableDiagnosis
<1>2. PICK i \in Applying : /\ \A k \in Applying : i <= k
                            /\ i = CHOOSE n \in Applying : \A k \in Applying : n <= k
  <2>1. Applying \in SUBSET Nat BY DiagnosesNumbered
  <2>. QED BY <1>1, <2>1, LeastOf
<1>3. i \in 1 .. 11 BY DiagnosesNumbered
<1>4. actionableDiagnosis =
          [diagnosis |-> Diagnoses[i],
           finding |-> IF Diagnoses[i] = "capability-mismatch" THEN FirstFinding
                       ELSE Nobody]
  BY <1>1, <1>2, <1>3, DiagnosesNumbered DEF actionableDiagnosis
<1>5. CASE i = 10
  <2>1. Diagnoses[i] = "capability-mismatch" BY <1>5, DiagnosesNumbered
  <2>2. FirstFinding # Nobody BY <1>5, DiagnosesNumbered
  <2>3. Concerning # {} /\ Concerning \in SUBSET Nat
    <3>1. DOMAIN Findings \subseteq Nat BY LoopAssumption
    <3>. QED BY <2>2, <3>1 DEF FirstFinding, Concerning
  <2>4. \E k \in Concerning : FirstFinding = Findings[k]
    BY <2>3, LeastOf DEF FirstFinding, Concerning
  <2>. QED BY <1>4, <2>1, <2>4 DEF ByFinding
<1>6. CASE i # 10
  <2>1. Diagnoses[i] # "capability-mismatch"
    BY <1>3, <1>6, DiagnosesNumbered
  <2> DEFINE settled == Applying \ {10}
  <2>2. settled \in SUBSET Nat /\ i \in settled BY <1>6, DiagnosesNumbered
  <2>3. PICK n \in settled : /\ \A k \in settled : n <= k
                             /\ n = CHOOSE m \in settled : \A k \in settled : m <= k
    <3> HIDE DEF settled
    <3>. QED BY <2>2, LeastOf
  <2>4. n = i BY <1>2, <2>2, <2>3
  <2>. QED BY <1>3, <1>4, <2>1, <2>3, <2>4 DEF ByAssessment
<1>. QED BY <1>5, <1>6

\* The contract accepts a proposal for a finding of the assessed protocol.
LEMMA FindingProposed ==
  ASSUME NEW k \in Concerning, NEW b
  PROVE  ProposalHolds(ProposalFor(ByFinding(k), b))
<1> DEFINE m == ByFinding(k)
           p == ProposalFor(m, b)
           carried == {r \in p.body.requirements : r.kind = "runtime-capability-evidence"}
           evidence == Lineage(Findings[k])
<1>1. /\ m.diagnosis = "capability-mismatch" /\ m.finding = Findings[k]
      /\ m.finding.protocol = assessment.protocol
  BY DEF ByFinding, Concerning, Concerns
<1>2. requirementsFor(m) = {evidence} BY <1>1 DEF requirementsFor
<1>3. changedVariableFor(m) = [kind |-> "required-capability",
                               capability |-> Findings[k].capability,
                               profile |-> Findings[k].profile]
  BY <1>1 DEF changedVariableFor, QualityRegressions, ProfileRegressions
<1>4. /\ p.body.requirements = {evidence} /\ p.body.diagnosis = "capability-mismatch"
      /\ p.body.protocol = assessment.protocol /\ p.body.changed = changedVariableFor(m)
      /\ p.body.controls = controlsFor("capability-mismatch") /\ p.intent = IntentOf(p.body)
  BY <1>1, <1>2 DEF ProposalFor
<1>5. evidence.kind = "runtime-capability-evidence" BY DEF Lineage
<1>6. carried = {evidence} BY <1>4, <1>5
<1>7. (CHOOSE r \in carried : TRUE) = evidence BY <1>6
<1>8. Cardinality(carried) = 1 BY <1>6, FS_Singleton
<1> DEFINE match == [diagnosis |-> "capability-mismatch", finding |-> evidence]
<1>9. /\ evidence.protocol = assessment.protocol
      /\ evidence.capability = Findings[k].capability
      /\ evidence.profile = Findings[k].profile
  BY <1>1 DEF Lineage
<1>10. changedVariableFor(match) = changedVariableFor(m)
  BY <1>3, <1>9 DEF changedVariableFor, QualityRegressions, ProfileRegressions
<1>11. requirementsFor(match) = {evidence} BY DEF requirementsFor, Lineage
<1>. QED BY <1>3, <1>4, <1>6, <1>7, <1>8, <1>9, <1>10, <1>11 DEF ProposalHolds

\* It accepts every other proposal, which carries no finding.
LEMMA OtherProposed ==
  ASSUME NEW d \in {Diagnoses[i] : i \in 1 .. 11} \ {"capability-mismatch"}, NEW b
  PROVE  ProposalHolds(ProposalFor([diagnosis |-> d, finding |-> Nobody], b))
<1> DEFINE m == [diagnosis |-> d, finding |-> Nobody]
           p == ProposalFor(m, b)
           carried == {r \in p.body.requirements : r.kind = "runtime-capability-evidence"}
<1>1. d \in {"insufficient-evidence", "evaluator-drift", "quality-regression",
             "critical-slice-regression", "ttft-regression", "tail-latency-regression",
             "error-regression", "cost-regression", "unavailable-capacity",
             "sealed-shadow-replication"}
  BY DEF Diagnoses
<1>2. "runtime-capability-evidence" \notin RequiredKinds(d) BY <1>1 DEF RequiredKinds
<1>3. p.body.requirements = {[kind |-> k] : k \in RequiredKinds(d)}
  BY DEF ProposalFor, requirementsFor
<1>4. carried = {} BY <1>2, <1>3
<1>5. /\ p.body.diagnosis = d /\ p.body.changed = changedVariableFor(m)
      /\ p.body.controls = controlsFor(d) /\ p.body.requirements = requirementsFor(m)
      /\ p.intent = IntentOf(p.body)
  BY DEF ProposalFor
<1>. QED BY <1>4, <1>5 DEF ProposalHolds

LoopInv ==
    /\ findings \subseteq DOMAIN Findings /\ IsFiniteSet(findings)
    /\ \A p \in desk : \E m \in Matches : p = ProposalFor(m, p.body.budget)
    /\ \A r \in registered : \E m \in Matches : r.intent = ProposalFor(m, r.budget).intent
    /\ HistoryHolds(registered)
    /\ answer # Nobody => answer.status # "REFUSED"

\* What was registered for one budget are as many matches.
LEMMA RegisteredMatches ==
  ASSUME LoopInv, NEW b
  PROVE  Cardinality({r \in registered : r.budget = b})
             <= 1 + Cardinality({k \in findings : Concerns(Findings[k])})
<1> DEFINE R == {r \in registered : r.budget = b}
           Found == {ByFinding(k) : k \in Concerning}
           match == [r \in R |-> CHOOSE m \in Matches : r.intent = ProposalFor(m, b).intent]
           find == [k \in Concerning |-> ByFinding(k)]
<1>1. IsFiniteSet(Concerning) /\ Cardinality(Concerning) \in Nat
  BY FS_Subset, FS_CardinalityType DEF LoopInv, Concerning
<1>2. find \in Surjection(Concerning, Found) BY DEF Surjection
<1>3. IsFiniteSet(Found) /\ Cardinality(Found) <= Cardinality(Concerning)
      /\ Cardinality(Found) \in Nat
  <2> HIDE DEF find, Found
  <2>. QED BY <1>1, <1>2, FS_Surjection, FS_CardinalityType
<1>4. IsFiniteSet(Matches) /\ Cardinality(Matches) <= 1 + Cardinality(Found)
      /\ Cardinality(Matches) \in Nat
  <2>1. Matches = Found \cup {ByAssessment} BY DEF Matches
  <2> HIDE DEF Found
  <2>2. /\ IsFiniteSet(Found \cup {ByAssessment})
        /\ Cardinality(Found \cup {ByAssessment}) =
               IF ByAssessment \in Found THEN Cardinality(Found) ELSE Cardinality(Found) + 1
    BY <1>3, FS_AddElement
  <2>. QED BY <1>3, <2>1, <2>2
<1>5. \A r \in R : match[r] \in Matches /\ r.intent = ProposalFor(match[r], b).intent
  BY DEF LoopInv
<1>6. \A r, q \in R : match[r] = match[q] => r = q
  <2> SUFFICES ASSUME NEW r \in R, NEW q \in R, match[r] = match[q] PROVE r = q
    OBVIOUS
  <2>1. r.intent = q.intent
    <3> HIDE DEF match
    <3>. QED BY <1>5
  <2>. QED BY <2>1 DEF LoopInv, HistoryHolds
<1>7. match \in Injection(R, Matches)
  BY <1>5, <1>6 DEF Injection, IsInjective
<1>8. Cardinality(R) <= Cardinality(Matches)
  <2> HIDE DEF match, R
  <2>. QED BY <1>4, <1>7, FS_Injection
<1>9. IsFiniteSet(R) /\ Cardinality(R) \in Nat
  <2> HIDE DEF match, R
  <2>. QED BY <1>4, <1>7, FS_Injection, FS_CardinalityType
<1> HIDE DEF R, Found
<1>10. Cardinality(R) <= 1 + Cardinality(Concerning) BY <1>1, <1>3, <1>4, <1>8, <1>9
<1>. QED BY <1>10 DEF R, Concerning

LEMMA LoopStarts == LoopInit => LoopInv
  BY FS_EmptySet DEF LoopInit, LoopInv, HistoryHolds

\* A finding more leaves every match there.
LEMMA MatchesGrow ==
  ASSUME assessment' = assessment, findings \subseteq findings'
  PROVE  /\ Matches \subseteq Matches'
         /\ \A m, b : ProposalFor(m, b)' = ProposalFor(m, b)
<1>1. Considered' = Considered BY DEF Considered
<1>2. EvaluatorOnlyStale' <=> EvaluatorOnlyStale BY DEF EvaluatorOnlyStale
<1>3. \A gates : FailsOneOf(gates)' <=> FailsOneOf(gates) BY <1>1 DEF FailsOneOf
<1>4. \A d : d # "capability-mismatch" => (Applies(d)' <=> Applies(d))
  BY <1>1, <1>2, <1>3 DEF Applies
<1>5. Applying' \ {10} = Applying \ {10}
  BY <1>4, DiagnosesNumbered DEF Applying
<1>6. ByAssessment' = ByAssessment BY <1>5 DEF ByAssessment
<1>7. \A k : Concerns(Findings[k])' <=> Concerns(Findings[k]) BY <1>1 DEF Concerns
<1>8. Concerning \subseteq Concerning' BY <1>7 DEF Concerning
<1>9. Matches \subseteq Matches' BY <1>6, <1>8 DEF Matches, ByFinding
<1>10. \A m, b : ProposalFor(m, b)' = ProposalFor(m, b)
  BY DEF ProposalFor
<1>. QED BY <1>9, <1>10

\* A finding more.
LEMMA ReportKeeps ==
  ASSUME LoopInv, NEW k \in DOMAIN Findings, ReportFinding(k)
  PROVE  LoopInv'
<1>1. /\ findings' = findings \cup {k} /\ assessment' = assessment
      /\ registered' = registered /\ desk' = desk /\ answer' = answer
  BY DEF ReportFinding
<1>2. Matches \subseteq Matches' /\ \A m, b : ProposalFor(m, b)' = ProposalFor(m, b)
  BY <1>1, MatchesGrow
<1>3. findings' \subseteq DOMAIN Findings /\ IsFiniteSet(findings')
  BY <1>1, FS_AddElement DEF LoopInv
<1>4. \A p \in desk' : \E m \in Matches' : p = ProposalFor(m, p.body.budget)'
  BY <1>1, <1>2 DEF LoopInv
<1>5. \A r \in registered' : \E m \in Matches' : r.intent = ProposalFor(m, r.budget)'.intent
  BY <1>1, <1>2 DEF LoopInv
<1>. QED BY <1>1, <1>3, <1>4, <1>5 DEF LoopInv, HistoryHolds

\* A proposal is a match within a budget, and is not refused.
LEMMA ProposeAnswers ==
  ASSUME LoopInv, NEW b
  PROVE  /\ proposeExperiment(b).status # "REFUSED"
         /\ proposeExperiment(b).status = "PROPOSED" =>
                \E m \in Matches : proposeExperiment(b) = ProposalFor(m, b)
<1>1. CASE HoldReason(b) # Nobody BY <1>1 DEF proposeExperiment, Hold
<1>2. CASE HoldReason(b) = Nobody
  <2>1. actionableDiagnosis # Nobody BY <1>2, LoopAssumption DEF HoldReason
  <2>2. PICK m : m = actionableDiagnosis OBVIOUS
  <2>3. m \in Matches /\ ProposalHolds(ProposalFor(m, b))
    <3>1. CASE \E k \in Concerning : m = ByFinding(k)
      BY <3>1, FindingProposed DEF Matches
    <3>2. CASE /\ m = ByAssessment
               /\ ByAssessment.diagnosis
                      \in {Diagnoses[i] : i \in 1 .. 11} \ {"capability-mismatch"}
      <4>1. m = [diagnosis |-> ByAssessment.diagnosis, finding |-> Nobody]
        BY <3>2 DEF ByAssessment
      <4>. QED BY <3>2, <4>1, OtherProposed DEF Matches
    <3>. QED BY <2>1, <2>2, <3>1, <3>2, MatchGiven DEF LoopInv
  <2>4. PICK p : p = ProposalFor(m, b) OBVIOUS
  <2>5. \/ \E related : proposeExperiment(b) = Hold("duplicate-registered-experiment", related)
        \/ proposeExperiment(b) = p
    BY <1>2, <2>2, <2>3, <2>4 DEF proposeExperiment
  <2>6. p.status = "PROPOSED" BY <2>4 DEF ProposalFor
  <2>. QED BY <2>3, <2>4, <2>5, <2>6 DEF Hold
<1>. QED BY <1>1, <1>2

\* The proposer answers.
LEMMA ProposeKeeps ==
  ASSUME LoopInv, NEW b \in Ceilings, Propose(b)
  PROVE  LoopInv'
<1>1. /\ findings' = findings /\ assessment' = assessment /\ registered' = registered
      /\ answer' = proposeExperiment(b)
      /\ desk' = IF answer'.status = "PROPOSED" THEN desk \cup {answer'} ELSE desk
  BY DEF Propose
<1>2. Matches \subseteq Matches' /\ \A m, c : ProposalFor(m, c)' = ProposalFor(m, c)
  BY <1>1, MatchesGrow
<1>3. \A p \in desk' : \E m \in Matches : p = ProposalFor(m, p.body.budget)
  <2>1. ASSUME answer'.status = "PROPOSED"
        PROVE  \E m \in Matches : answer' = ProposalFor(m, answer'.body.budget)
    <3>1. PICK m \in Matches : answer' = ProposalFor(m, b)
      BY <1>1, <2>1, ProposeAnswers
    <3>2. answer'.body.budget = b BY <3>1 DEF ProposalFor
    <3>. QED BY <3>1, <3>2
  <2>. QED BY <1>1, <2>1 DEF LoopInv
<1>4. answer'.status # "REFUSED" BY <1>1, ProposeAnswers
<1>5. \A p \in desk' : \E m \in Matches' : p = ProposalFor(m, p.body.budget)'
  BY <1>2, <1>3
<1>6. \A r \in registered' : \E m \in Matches' : r.intent = ProposalFor(m, r.budget)'.intent
  BY <1>1, <1>2 DEF LoopInv
<1>. QED BY <1>1, <1>4, <1>5, <1>6 DEF LoopInv, HistoryHolds

\* The operator registers what lies on the desk.
LEMMA RegisterKeeps ==
  ASSUME LoopInv, NEW p \in desk, NEW ofProtocol, RegisterExperiment(p, ofProtocol)
  PROVE  LoopInv'
<1> DEFINE entry == [parent |-> p.body.protocol, budget |-> p.body.budget,
                     intent |-> p.intent, protocol |-> ofProtocol]
<1>1. /\ findings' = findings /\ assessment' = assessment /\ desk' = desk
      /\ answer' = answer /\ registered' = registered \cup {entry}
      /\ HistoryHolds(registered')
  BY DEF RegisterExperiment
<1>2. Matches \subseteq Matches' /\ \A m, c : ProposalFor(m, c)' = ProposalFor(m, c)
  BY <1>1, MatchesGrow
<1>3. \E m \in Matches : entry.intent = ProposalFor(m, entry.budget).intent
  BY DEF LoopInv
<1> HIDE DEF entry
<1>4. \A r \in registered' : \E m \in Matches' : r.intent = ProposalFor(m, r.budget)'.intent
  BY <1>1, <1>2, <1>3 DEF LoopInv
<1>5. \A q \in desk' : \E m \in Matches' : q = ProposalFor(m, q.body.budget)'
  BY <1>1, <1>2 DEF LoopInv
<1>. QED BY <1>1, <1>4, <1>5 DEF LoopInv

\* No step of the loop breaks its invariant.
LEMMA LoopStep == LoopInv /\ [LoopNext]_loopVars => LoopInv'
<1> SUFFICES ASSUME LoopInv, [LoopNext]_loopVars PROVE LoopInv'
  OBVIOUS
<1>1. CASE \E k \in DOMAIN Findings : ReportFinding(k) BY <1>1, ReportKeeps
<1>2. CASE \E b \in Ceilings : Propose(b) BY <1>2, ProposeKeeps
<1>3. CASE \E p \in desk, ofProtocol \in NewProtocols : RegisterExperiment(p, ofProtocol)
  BY <1>3, RegisterKeeps
<1>4. CASE UNCHANGED loopVars
  <2>1. /\ findings' = findings /\ assessment' = assessment /\ registered' = registered
        /\ desk' = desk /\ answer' = answer
    BY <1>4 DEF loopVars
  <2>2. Matches \subseteq Matches' /\ \A m, b : ProposalFor(m, b)' = ProposalFor(m, b)
    BY <2>1, MatchesGrow
  <2>. QED BY <2>1, <2>2 DEF LoopInv, HistoryHolds
<1>. QED BY <1>1, <1>2, <1>3, <1>4 DEF LoopNext

\* For any assessments, findings and budgets: the contract refuses no proposal, and
\* for one assessment and one budget there are at most as many experiments as the
\* findings that concern it, and one (proposeExperiment, parseExperimentHistory).
THEOREM ExperimentsSettle == LoopSpec => []RegistrationSettles
<1>1. LoopInv => RegistrationSettles
  BY RegisteredMatches DEF RegistrationSettles, LoopInv
<1>. QED BY <1>1, LoopStarts, LoopStep, PTL DEF LoopSpec

-----------------------------------------------------------------------------
(* The nomination of the first version, and its confirmation.              *)

\* The body of a nomination, as one version or the other writes it.
BodyBefore(s, policy, measured) ==
    [Body(s, policy, measured) EXCEPT !.spec = LegacyProjection(s)]

\* The file of a nomination has the digest of what was nominated, whoever edited
\* it, and what was confirmed is what the digest covers.
NominationInv ==
    /\ spec \in Specs
    /\ nominated = Unnominated => artifact = NoValue /\ confirmation = NoValue
    /\ artifact # NoValue =>
          /\ nominated.spec \in Specs
          /\ \/ artifact.selfDigest = Body(nominated.spec, nominated.policy, development)
             \/ /\ artifact.selfDigest = BodyBefore(nominated.spec, nominated.policy, development)
                /\ DefaultControls(nominated.spec)
    /\ ConfirmsTheNominee

LEMMA NominationStarts == LegacyInit => NominationInv
  BY DEF LegacyInit, NominationInv, ConfirmsTheNominee

\* Nothing but its controls was left out of a spec.
LEMMA ProjectionTells ==
  ASSUME NEW s \in SpecSet, NEW t \in SpecSet,
         LegacyProjection(s) = LegacyProjection(t), DefaultControls(s), DefaultControls(t)
  PROVE  s = t
<1> DEFINE controls == {"minimumGroups", "minimumSliceGroups", "alphaPercent"}
           fields == {"confidences", "tokens", "fastOnly", "critical", "margin", "scoreFloor",
                      "sliceFloor", "maxTtft", "maxLatency", "minRate", "minCapacity",
                      "maxErrorPercent", "maxCost", "minSavingPercent", "minimumGroups",
                      "minimumSliceGroups", "alphaPercent"}
<1>1. DOMAIN s = fields /\ DOMAIN t = fields BY DEF SpecSet
<1>2. ASSUME NEW f \in fields \ controls PROVE s[f] = t[f]
  <2>1. LegacyProjection(s)[f] = s[f] /\ LegacyProjection(t)[f] = t[f]
    BY <1>1 DEF LegacyProjection
  <2>. QED BY <2>1
<1>3. s.critical = t.critical BY <1>2
<1>4. /\ s.minimumGroups = t.minimumGroups /\ s.alphaPercent = t.alphaPercent
      /\ s.minimumSliceGroups = t.minimumSliceGroups
  BY <1>3 DEF DefaultControls
<1>5. \A f \in fields : s[f] = t[f] BY <1>2, <1>4
<1>6. s = [f \in fields |-> s[f]] /\ t = [f \in fields |-> t[f]] BY <1>1 DEF SpecSet
<1>. QED BY <1>5, <1>6

\* A spec and what is left of another are told apart by their fields.
LEMMA ProjectionIsNoSpec ==
  ASSUME NEW s \in SpecSet, NEW t \in SpecSet
  PROVE  s # LegacyProjection(t)
<1>1. "alphaPercent" \in DOMAIN s BY DEF SpecSet
<1>2. "alphaPercent" \notin DOMAIN LegacyProjection(t) BY DEF LegacyProjection
<1>. QED BY <1>1, <1>2

\* The nomination writes its file once.
LEMMA NominateKeeps ==
  ASSUME NominationInv, NEW key, Nominate(key)
  PROVE  NominationInv'
<1>1. /\ artifact = NoValue /\ confirmation' = NoValue /\ development' = development
      /\ spec' = spec /\ spec \in Specs
  BY DEF Nominate, NominationInv
<1>2. \/ nominated'.status = "NO_CANDIDATE" /\ artifact' = NoValue
      \/ /\ nominated'.status = "NOMINATED"
         /\ artifact'.selfDigest = Body(nominated'.spec, nominated'.policy, development)
         /\ nominated'.spec = spec
  <2>1. PICK quality \in [CandidatesOf(spec) -> BOOLEAN] :
          \E evaluations \in {Evaluations(quality)} :
            LET metrics == [p \in DOMAIN evaluations |-> evaluations[p].metrics]
                passers == {p \in DOMAIN evaluations : Failed(evaluations[p].gates) = {}}
                choices == Preferred(metrics, Frontier(spec, metrics, passers))
                result(status, policy) ==
                    [status |-> status, evaluations |-> evaluations, spec |-> spec,
                     policy |-> policy]
            IN  IF choices = {}
                THEN nominated' = result("NO_CANDIDATE", NoValue) /\ UNCHANGED artifact
                ELSE \E policy \in choices :
                     LET body == Body(spec, policy, development)
                     IN  /\ nominated' = result("NOMINATED", policy)
                         /\ artifact' = [body |-> body, selfDigest |-> body,
                                         key |-> key, attested |-> body]
    BY DEF Nominate
  <2>2. \/ \E e : /\ nominated' = [status |-> "NO_CANDIDATE", evaluations |-> e,
                                  spec |-> spec, policy |-> NoValue]
                  /\ artifact' = artifact
        \/ \E e, policy :
              LET body == Body(spec, policy, development)
              IN  /\ nominated' = [status |-> "NOMINATED", evaluations |-> e,
                                   spec |-> spec, policy |-> policy]
                  /\ artifact' = [body |-> body, selfDigest |-> body,
                                  key |-> key, attested |-> body]
    BY <2>1
  <2>. QED BY <1>1, <2>2
<1>3. nominated' # Unnominated BY <1>2 DEF Unnominated
<1>. QED BY <1>1, <1>2, <1>3 DEF NominationInv, ConfirmsTheNominee, Body

LEMMA NominateBeforeKeeps ==
  ASSUME NominationInv, NEW key, NominateBefore(key)
  PROVE  NominationInv'
<1>1. PICK policy \in CandidatesOf(spec) :
          LET body == [Body(spec, policy, development) EXCEPT !.spec = LegacyProjection(spec)]
          IN  /\ nominated' = [status |-> "NOMINATED_BEFORE", spec |-> spec, policy |-> policy]
              /\ artifact' = [body |-> body, selfDigest |-> body, key |-> key,
                              attested |-> body]
  BY DEF NominateBefore
<1>2. /\ UNCHANGED <<spec, development, holdout, confirmation>> /\ confirmation = NoValue
      /\ DefaultControls(spec) /\ spec \in Specs
  BY DEF NominateBefore, NominationInv
<1>3. /\ nominated'.status = "NOMINATED_BEFORE" /\ nominated'.spec = spec
      /\ nominated'.policy = policy
      /\ artifact'.selfDigest = BodyBefore(spec, policy, development)
  BY <1>1 DEF BodyBefore
<1>4. nominated' # Unnominated BY <1>3 DEF Unnominated
<1>. QED BY <1>2, <1>3, <1>4 DEF NominationInv, ConfirmsTheNominee, Body, BodyBefore,
            DefaultControls, LegacyProjection

\* What is confirmed is what was nominated.
LEMMA ConfirmKeeps ==
  ASSUME NominationInv, NEW key, Confirm(key)
  PROVE  NominationInv'
<1>1. /\ artifact # NoValue /\ nominated # Unnominated
      /\ UNCHANGED <<spec, development, holdout, nominated, artifact>>
  BY DEF Confirm, NominationInv
<1>2. /\ spec \in Specs /\ nominated.spec \in Specs
      /\ \/ artifact.selfDigest = Body(nominated.spec, nominated.policy, development)
         \/ /\ artifact.selfDigest = BodyBefore(nominated.spec, nominated.policy, development)
            /\ DefaultControls(nominated.spec)
  BY <1>1 DEF NominationInv
<1>3. CASE ~Confirmable(key)
  <2>1. confirmation' = Rejected BY <1>3 DEF Confirm
  <2>. QED BY <1>1, <1>2, <2>1
           DEF NominationInv, ConfirmsTheNominee, Body, BodyBefore, DefaultControls, LegacyProjection
<1>4. CASE Confirmable(key)
  <2>1. /\ artifact.body = artifact.selfDigest
        /\ OfThisSpec /\ artifact.body.evaluator = holdout.evaluator
        /\ GroupsOf(holdout.cases) \cap artifact.body.groups = {}
    BY <1>4 DEF Confirmable
  <2>2. /\ artifact.body.policy = nominated.policy
        /\ artifact.body.groups = GroupsOf(development.cases)
        /\ artifact.body.evaluator = development.evaluator
        /\ artifact.body.synthetic = development.synthetic
        /\ \/ artifact.body.spec = nominated.spec
           \/ /\ artifact.body.spec = LegacyProjection(nominated.spec)
              /\ DefaultControls(nominated.spec)
    BY <1>2, <2>1 DEF Body, BodyBefore
  <2>3. nominated.spec = spec
    <3>1. spec \in SpecSet /\ nominated.spec \in SpecSet BY <1>2, LegacyAssumption
    <3>. QED BY <2>1, <2>2, <3>1, ProjectionTells, ProjectionIsNoSpec DEF OfThisSpec
  <2>4. PICK quality \in QualityOutcomes(artifact.body.policy, spec, holdout) :
            LET policy == artifact.body.policy
                failed == Failed(Gates(policy, MetricsOf(policy, holdout), spec, holdout,
                                       quality, FALSE))
            IN  confirmation' =
                    [status |-> IF failed = {} /\ (artifact.body.synthetic \/ holdout.synthetic)
                                THEN "DEMO_ONLY" ELSE "HOLD",
                     policy |-> policy, spec |-> spec, failed |-> failed,
                     verified |-> key # NoValue]
    BY <1>4 DEF Confirm
  <2>5. /\ confirmation'.policy = artifact.body.policy /\ confirmation'.spec = spec
        /\ confirmation'.status = "DEMO_ONLY" =>
              confirmation'.failed = {} /\ (artifact.body.synthetic \/ holdout.synthetic)
    BY <2>4
  <2>6. ConfirmsTheNominee' BY <1>1, <2>1, <2>2, <2>3, <2>5 DEF ConfirmsTheNominee
  <2>. QED BY <1>1, <1>2, <2>6
           DEF NominationInv, Body, BodyBefore, DefaultControls, LegacyProjection
<1>. QED BY <1>3, <1>4

LEMMA NominationStep == NominationInv /\ [LegacyNext]_legacyVars => NominationInv'
<1> SUFFICES ASSUME NominationInv, [LegacyNext]_legacyVars PROVE NominationInv'
  OBVIOUS
<1>1. ASSUME NEW key \in Keys \cup {NoValue}, Nominate(key) PROVE NominationInv'
  BY <1>1, NominateKeeps
<1>2. ASSUME NEW key \in Keys \cup {NoValue}, Confirm(key) PROVE NominationInv'
  BY <1>2, ConfirmKeeps
<1>3. ASSUME NEW key \in Keys \cup {NoValue}, NominateBefore(key) PROVE NominationInv'
  BY <1>3, NominateBeforeKeeps
<1>4. ASSUME NEW policy, EditNomination(policy) PROVE NominationInv'
  <2>1. PICK file : file = artifact OBVIOUS
  <2>2. /\ artifact' = [file EXCEPT !.body.policy = policy] /\ file # NoValue
        /\ UNCHANGED <<spec, development, holdout, nominated, confirmation>>
    BY <1>4, <2>1 DEF EditNomination
  <2>. QED BY <2>1, <2>2 DEF NominationInv, ConfirmsTheNominee, Body, BodyBefore,
              DefaultControls, LegacyProjection
<1>5. ASSUME NEW s \in Specs, ReviseSpec(s) PROVE NominationInv'
  BY <1>5 DEF ReviseSpec, NominationInv, ConfirmsTheNominee, Body, BodyBefore,
     DefaultControls, LegacyProjection
<1>6. CASE UNCHANGED legacyVars
  BY <1>6 DEF legacyVars, NominationInv, ConfirmsTheNominee, Body, BodyBefore,
     DefaultControls, LegacyProjection
<1>. QED BY <1>1, <1>2, <1>3, <1>4, <1>5, <1>6 DEF LegacyNext

\* For any specs, measurements, keys and edits of the file: what is confirmed was
\* nominated, by this version or the one before, under the same spec, and is judged
\* on other groups (nominatePolicy, confirmNomination).
THEOREM TheNomineeIsConfirmed == LegacySpec => []ConfirmsTheNominee
<1>1. NominationInv => ConfirmsTheNominee BY DEF NominationInv
<1>. QED BY <1>1, NominationStarts, NominationStep, PTL DEF LegacySpec

-----------------------------------------------------------------------------
(* What nominations compare: every metric is a natural number, except the  *)
(* capacity that nobody measured.                                          *)

MetricSet ==
    [score : Nat, rate : Nat, errors : Nat, ttft : Nat, latency : Nat, cost : Nat,
     capacity : Nat \cup {NoValue}]

Measurable(measured) ==
    /\ measured.cases # {} /\ IsFiniteSet(measured.cases) /\ measured.parts \in Nat \ {0}
    /\ \A c \in measured.cases :
          /\ c.weight \in Nat
          /\ c.primary \in Seq(ObservationSet) /\ c.expert \in Seq(ObservationSet)
          /\ Len(c.primary) \in 1..measured.parts /\ Len(c.expert) = Len(c.primary)

Row(policy, measured, c, n) ==
    [case |-> c, replicate |-> n, seen |-> Replayed(policy, c, n),
     mass |-> (c.weight * measured.parts) \div Len(c.primary)]

\* A share of the traffic is a number.
LEMMA ShareIsNatural ==
  ASSUME NEW w \in Nat, NEW parts \in Nat, NEW k \in Nat \ {0}
  PROVE  (w * parts) \div k \in Nat
<1>1. PICK x \in Nat : x = w * parts OBVIOUS
<1>2. x \div k \in Nat OBVIOUS
<1>. QED BY <1>1, <1>2

\* A replay shows what an execution could.
LEMMA ReplayedType ==
  ASSUME NEW s, NEW policy \in CandidatesOf(s), NEW measured, Measurable(measured),
         NEW c \in measured.cases, NEW n \in DOMAIN c.primary
  PROVE  Replayed(policy, c, n) \in ObservationSet
<1>1. PICK primary, champion : primary = c.primary[n] /\ champion = c.expert[n]
  OBVIOUS
<1>2. primary \in ObservationSet /\ champion \in ObservationSet
  BY <1>1 DEF Measurable
<1>3. [primary EXCEPT !.capacity = NoValue] \in ObservationSet
  BY <1>2 DEF ObservationSet
<1>4. [champion EXCEPT !.capacity = NoValue, !.cost = @ + primary.cost,
            !.ttft = @ + primary.latency, !.latency = @ + primary.latency] \in ObservationSet
  <2>1. /\ champion.cost + primary.cost \in Nat /\ champion.ttft + primary.latency \in Nat
        /\ champion.latency + primary.latency \in Nat
    BY <1>2 DEF ObservationSet
  <2>. QED BY <1>2, <2>1 DEF ObservationSet
<1>5. policy.kind \in {"cascade", "fast-only"} BY DEF CandidatesOf, Policy
<1>6. Replayed(policy, c, n) \in
          {primary, champion, [primary EXCEPT !.capacity = NoValue],
           [champion EXCEPT !.capacity = NoValue, !.cost = @ + primary.cost,
            !.ttft = @ + primary.latency, !.latency = @ + primary.latency]}
  BY <1>1, <1>5 DEF Replayed
<1>. QED BY <1>2, <1>3, <1>4, <1>6

\* There is a row for each replicate, finitely many and at least one.
LEMMA RowsTyped ==
  ASSUME NEW s, NEW policy \in CandidatesOf(s), NEW measured, Measurable(measured)
  PROVE  /\ IsFiniteSet(RowsOf(policy, measured)) /\ RowsOf(policy, measured) # {}
         /\ \A r \in RowsOf(policy, measured) : r.mass \in Nat /\ r.seen \in ObservationSet
<1> DEFINE places == {x \in measured.cases \X (1..measured.parts) : x[2] \in DOMAIN x[1].primary}
           row == [x \in places |-> Row(policy, measured, x[1], x[2])]
<1>1. \A c \in measured.cases : DOMAIN c.primary \subseteq 1..measured.parts /\ 1 \in DOMAIN c.primary
  BY DEF Measurable
<1>2. RowsOf(policy, measured) =
          {row[x] : x \in places}
  <2>1. RowsOf(policy, measured) =
            UNION {{Row(policy, measured, c, n) : n \in DOMAIN c.primary} : c \in measured.cases}
    BY DEF RowsOf, Row
  <2>2. ASSUME NEW c \in measured.cases, NEW n \in DOMAIN c.primary
        PROVE  <<c, n>> \in places /\ row[<<c, n>>] = Row(policy, measured, c, n)
    BY <1>1, <2>2
  <2>3. ASSUME NEW x \in places
        PROVE  /\ x[1] \in measured.cases /\ x[2] \in DOMAIN x[1].primary
               /\ row[x] = Row(policy, measured, x[1], x[2])
    OBVIOUS
  <2> HIDE DEF places, row
  <2>4. ASSUME NEW r \in RowsOf(policy, measured) PROVE r \in {row[x] : x \in places}
    <3>1. PICK c \in measured.cases : r \in {Row(policy, measured, c, n) : n \in DOMAIN c.primary}
      BY <2>1
    <3>2. PICK n \in DOMAIN c.primary : r = Row(policy, measured, c, n) BY <3>1
    <3>. QED BY <2>2, <3>2
  <2>5. ASSUME NEW x \in places PROVE row[x] \in RowsOf(policy, measured)
    <3>1. PICK c \in measured.cases : c = x[1] BY <2>3
    <3>2. row[x] \in {Row(policy, measured, c, n) : n \in DOMAIN c.primary} BY <2>3, <3>1
    <3>. QED BY <2>1, <3>2
  <2>. QED BY <2>4, <2>5
<1>3. IsFiniteSet(places)
  <2>1. IsFiniteSet(measured.cases \X (1..measured.parts))
    <3>1. measured.parts \in Int BY DEF Measurable
    <3>2. IsFiniteSet(1..measured.parts) BY <3>1, FS_Interval
    <3>3. IsFiniteSet(measured.cases) BY DEF Measurable
    <3>. QED BY <3>2, <3>3, FS_Product
  <2>. QED BY <2>1, FS_Subset
<1>4. IsFiniteSet({row[x] : x \in places})
  <2> DEFINE image == {row[x] : x \in places}
  <2>1. row \in Surjection(places, image) BY DEF Surjection
  <2>. QED BY <1>3, <2>1, FS_Surjection
<1>5. places # {}
  <2>1. PICK c \in measured.cases : TRUE BY DEF Measurable
  <2>2. <<c, 1>> \in places BY <1>1
  <2>. QED BY <2>2
<1>6. ASSUME NEW x \in places PROVE row[x].mass \in Nat /\ row[x].seen \in ObservationSet
  <2>1. PICK c, n : c \in measured.cases /\ n \in DOMAIN c.primary /\ x = <<c, n>> OBVIOUS
  <2>2. row[x] = Row(policy, measured, c, n) BY <2>1
  <2>3. (c.weight * measured.parts) \div Len(c.primary) \in Nat
    <3>1. c.weight \in Nat /\ measured.parts \in Nat /\ Len(c.primary) \in Nat \ {0}
      BY <2>1 DEF Measurable
    <3>. QED BY <3>1, ShareIsNatural
  <2>. QED BY <2>2, <2>3, ReplayedType DEF Row
<1> HIDE DEF places, row
<1>. QED BY <1>2, <1>4, <1>5, <1>6

\* Rows add up.
LEMMA RowsAddUp ==
  ASSUME NEW rows, IsFiniteSet(rows), \A r \in rows : r.mass \in Nat
  PROVE  /\ Mass(rows) \in Nat
         /\ \A field : (\A r \in rows : r.seen[field] \in Nat) => Total(rows, field) \in Nat
<1>1. [r \in rows |-> r.mass] \in [rows -> Nat] OBVIOUS
<1>2. Mass(rows) \in Nat BY <1>1, SumIsNatural DEF Mass
<1>3. ASSUME NEW field, \A r \in rows : r.seen[field] \in Nat
      PROVE  Total(rows, field) \in Nat
  <2>1. ASSUME NEW r \in rows PROVE r.mass * r.seen[field] \in Nat
    <3>1. PICK a \in Nat, b \in Nat : a = r.mass /\ b = r.seen[field] BY <1>3
    <3>2. a * b \in Nat OBVIOUS
    <3>. QED BY <3>1, <3>2
  <2>2. [r \in rows |-> r.mass * r.seen[field]] \in [rows -> Nat] BY <2>1
  <2>. QED BY <2>2, SumIsNatural DEF Total
<1>. QED BY <1>2, <1>3

\* The value that enough of the mass does not exceed is one that a row has.
LEMMA QuantileType ==
  ASSUME NEW rows, IsFiniteSet(rows), rows # {}, \A r \in rows : r.mass \in Nat,
         NEW field, \A r \in rows : r.seen[field] \in Nat,
         NEW percent \in 0..100
  PROVE  Quantile(rows, field, percent) \in Nat
<1> DEFINE enough == {x \in rows : 100 * Mass({y \in rows : y.seen[field] <= x.seen[field]})
                                       >= percent * Mass(rows)}
           values == {r.seen[field] : r \in enough}
<1>1. PICK x \in rows : \A y \in rows : y.seen[field] <= x.seen[field]
  <2> DEFINE all == {r.seen[field] : r \in rows}
             value == [r \in rows |-> r.seen[field]]
  <2>1. IsFiniteSet(all)
    <3>1. value \in Surjection(rows, all) BY DEF Surjection
    <3>. QED BY <3>1, FS_Surjection
  <2>2. all \subseteq Nat /\ all # {} OBVIOUS
  <2>3. PICK v \in all : \A w \in all : w <= v
    <3> HIDE DEF all
    <3>. QED BY <2>1, <2>2, GreatestIn
  <2>. QED BY <2>3
<1>2. {y \in rows : y.seen[field] <= x.seen[field]} = rows BY <1>1
<1>3. 100 * Mass(rows) >= percent * Mass(rows)
  <2>1. PICK m \in Nat : m = Mass(rows) BY RowsAddUp
  <2>2. 100 * m >= percent * m OBVIOUS
  <2>. QED BY <2>1, <2>2
<1>4. x \in enough BY <1>2, <1>3
<1>5. values \subseteq Nat /\ values # {} BY <1>4
<1>6. Quantile(rows, field, percent) = Min(values) BY DEF Quantile
<1> HIDE DEF values
<1>. QED BY <1>5, <1>6, LeastIn DEF Min

LEMMA MetricsType ==
  ASSUME NEW s, NEW policy \in CandidatesOf(s), NEW measured, Measurable(measured)
  PROVE  MetricsOf(policy, measured) \in MetricSet
<1>1. PICK rows : rows = RowsOf(policy, measured) OBVIOUS
<1>2. /\ IsFiniteSet(rows) /\ rows # {}
      /\ \A r \in rows : r.mass \in Nat /\ r.seen \in ObservationSet
  BY <1>1, RowsTyped
<1>3. \A r \in rows : /\ r.seen["score"] \in Nat /\ r.seen["rate"] \in Nat /\ r.seen["ttft"] \in Nat
                      /\ r.seen["latency"] \in Nat /\ r.seen["cost"] \in Nat
                      /\ r.seen["capacity"] \in Nat \cup {NoValue}
  BY <1>2 DEF ObservationSet
<1>4. Total(rows, "score") \in Nat /\ Total(rows, "cost") \in Nat
  BY <1>2, <1>3, RowsAddUp
<1>5. /\ Quantile(rows, "rate", 10) \in Nat /\ Quantile(rows, "ttft", 95) \in Nat
      /\ Quantile(rows, "latency", 95) \in Nat
  BY <1>2, <1>3, QuantileType
<1>6. Mass({r \in rows : ~r.seen.ok}) \in Nat
  <2> DEFINE failed == {r \in rows : ~r.seen.ok}
  <2>1. IsFiniteSet(failed) /\ \A r \in failed : r.mass \in Nat BY <1>2, FS_Subset
  <2> HIDE DEF failed
  <2>2. Mass(failed) \in Nat BY <2>1, RowsAddUp
  <2>. QED BY <2>2 DEF failed
<1>7. (IF \E r \in rows : r.seen.capacity = NoValue THEN NoValue
       ELSE Quantile(rows, "capacity", 50)) \in Nat \cup {NoValue}
  <2>1. CASE \E r \in rows : r.seen.capacity = NoValue BY <2>1
  <2>2. CASE ~\E r \in rows : r.seen.capacity = NoValue
    <3>1. \A r \in rows : r.seen["capacity"] \in Nat BY <1>3, <2>2
    <3>2. Quantile(rows, "capacity", 50) \in Nat BY <1>2, <3>1, QuantileType
    <3>. QED BY <2>2, <3>2
  <2>. QED BY <2>1, <2>2
<1>. QED BY <1>1, <1>4, <1>5, <1>6, <1>7 DEF MetricsOf, MetricSet

-----------------------------------------------------------------------------
(* Domination is a strict order, so among finitely many policies one that  *)
(* nothing dominates stands above each of the others.                      *)

Comparable(s, m) == m \in MetricSet /\ (s.minCapacity > 0 => m.capacity # NoValue)

LEMMA ObjectiveType ==
  ASSUME NEW s, NEW m, Comparable(s, m)
  PROVE  /\ \A k \in HigherIsBetter(s) : m[k] \in Nat
         /\ \A k \in LowerIsBetter : m[k] \in Nat
  BY DEF Comparable, MetricSet, HigherIsBetter, LowerIsBetter

LEMMA DominatesTransitive ==
  ASSUME NEW s, NEW a, NEW b, NEW c, Comparable(s, a), Comparable(s, b), Comparable(s, c),
         Dominates(s, a, b), Dominates(s, b, c)
  PROVE  Dominates(s, a, c)
<1>1. \A k \in HigherIsBetter(s) :
          /\ a[k] \in Nat /\ b[k] \in Nat /\ c[k] \in Nat
          /\ a[k] # NoValue /\ c[k] # NoValue /\ a[k] >= b[k] /\ b[k] >= c[k]
  BY ObjectiveType DEF Dominates, NeverWorse
<1>2. \A k \in LowerIsBetter :
          a[k] \in Nat /\ b[k] \in Nat /\ c[k] \in Nat /\ a[k] <= b[k] /\ b[k] <= c[k]
  BY ObjectiveType DEF Dominates, NeverWorse
<1>3. NeverWorse(s, a, c)
  <2>1. \A k \in HigherIsBetter(s) : a[k] # NoValue /\ c[k] # NoValue /\ a[k] >= c[k]
    BY <1>1
  <2>2. \A k \in LowerIsBetter : a[k] <= c[k] BY <1>2
  <2>. QED BY <2>1, <2>2 DEF NeverWorse
<1>4. PICK k \in HigherIsBetter(s) \cup LowerIsBetter : a[k] # b[k] BY DEF Dominates
<1>5. a[k] # c[k] BY <1>1, <1>2, <1>4
<1>. QED BY <1>3, <1>5 DEF Dominates

LEMMA FrontierCovers ==
  ASSUME NEW s, NEW metrics, NEW passers, IsFiniteSet(passers),
         \A p \in passers : Comparable(s, metrics[p]),
         NEW p \in passers
  PROVE  \E q \in Frontier(s, metrics, passers) :
             q = p \/ Dominates(s, metrics[q], metrics[p])
<1> DEFINE above(q) == {r \in passers : Dominates(s, metrics[r], metrics[q])}
           chain == {p} \cup above(p)
           sizes == {Cardinality(above(q)) : q \in chain}
<1>1. chain \subseteq passers OBVIOUS
<1>2. \A q \in passers : IsFiniteSet(above(q)) /\ Cardinality(above(q)) \in Nat
  BY FS_Subset, FS_CardinalityType
<1>3. PICK least \in sizes : \A n \in sizes : least <= n
  <2>1. sizes \in SUBSET Nat /\ sizes # {} BY <1>1, <1>2
  <2> HIDE DEF sizes
  <2>. QED BY <2>1, LeastIn
<1>4. PICK q \in chain : least = Cardinality(above(q)) OBVIOUS
<1>5. ASSUME NEW r \in above(q) PROVE FALSE
  <2>1. r \in passers /\ q \in passers BY <1>1, <1>5
  <2>2. above(r) \subseteq above(q) BY <1>5, <2>1, DominatesTransitive
  <2>3. r \notin above(r) BY DEF Dominates
  <2>4. above(r) # above(q) BY <1>5, <2>3
  <2>5. r \in chain BY <1>5, <2>1, DominatesTransitive
  <2>6. Cardinality(above(r)) \in sizes BY <2>5
  <2>7. IsFiniteSet(above(q)) /\ Cardinality(above(r)) \in Nat /\ Cardinality(above(q)) \in Nat
    BY <1>2, <2>1
  <2>8. Cardinality(above(r)) <= Cardinality(above(q)) /\ Cardinality(above(r)) # Cardinality(above(q))
    <3> HIDE DEF above
    <3>. QED BY <2>2, <2>4, <2>7, FS_Subset
  <2>9. least <= Cardinality(above(r)) BY <1>3, <2>6
  <2> HIDE DEF above, sizes
  <2>. QED BY <1>4, <2>7, <2>8, <2>9
<1>6. q \in Frontier(s, metrics, passers) BY <1>1, <1>5 DEF Frontier
<1>. QED BY <1>6

\* What nominatePolicy finds on the frontier is the best of all that passed.
LEMMA PreferredIsBest ==
  ASSUME NEW s, NEW metrics, NEW passers, IsFiniteSet(passers),
         \A p \in passers : Comparable(s, metrics[p]),
         NEW nominee \in Preferred(metrics, Frontier(s, metrics, passers)),
         NEW p \in passers
  PROVE  /\ nominee \in passers
         /\ metrics[nominee].cost <= metrics[p].cost
         /\ metrics[p].cost = metrics[nominee].cost
               => metrics[nominee].latency <= metrics[p].latency
         /\ ~Dominates(s, metrics[p], metrics[nominee])
<1>1. /\ nominee \in passers /\ ~Dominates(s, metrics[p], metrics[nominee])
  BY DEF Preferred, Frontier
<1>2. PICK q \in Frontier(s, metrics, passers) : q = p \/ Dominates(s, metrics[q], metrics[p])
  BY FrontierCovers
<1>3. q \in passers /\ ~CheaperOrFaster(metrics[q], metrics[nominee])
  BY DEF Preferred, Frontier
<1>4. \A x \in {nominee, p, q} : metrics[x].cost \in Nat /\ metrics[x].latency \in Nat
  BY <1>1, <1>3 DEF Comparable, MetricSet
<1>5. metrics[q].cost <= metrics[p].cost /\ metrics[q].latency <= metrics[p].latency
  <2>1. CASE q = p BY <1>4, <2>1
  <2>2. CASE Dominates(s, metrics[q], metrics[p])
    <3>1. metrics[q]["cost"] <= metrics[p]["cost"] /\ metrics[q]["latency"] <= metrics[p]["latency"]
      BY <2>2 DEF Dominates, NeverWorse, LowerIsBetter
    <3>. QED BY <3>1
  <2>. QED BY <1>2, <2>1, <2>2
<1>. QED BY <1>1, <1>3, <1>4, <1>5 DEF CheaperOrFaster

\* Who is not dominated by another policy gives up nothing to it, or something for it.
LEMMA UndominatedTrades ==
  ASSUME NEW s, NEW a, NEW b, Comparable(s, a), Comparable(s, b), ~Dominates(s, b, a),
         NEW k \in HigherIsBetter(s) \cup LowerIsBetter,
         (IF k \in LowerIsBetter THEN a[k] - b[k] ELSE b[k] - a[k]) > 0
  PROVE  \E l \in HigherIsBetter(s) \cup LowerIsBetter :
             (IF l \in LowerIsBetter THEN a[l] - b[l] ELSE b[l] - a[l]) < 0
<1> SUFFICES ASSUME \A l \in HigherIsBetter(s) \cup LowerIsBetter :
                       ~((IF l \in LowerIsBetter THEN a[l] - b[l] ELSE b[l] - a[l]) < 0)
             PROVE  Dominates(s, b, a)
  OBVIOUS
<1>1. \A l \in HigherIsBetter(s) : a[l] \in Nat /\ b[l] \in Nat BY ObjectiveType
<1>2. \A l \in LowerIsBetter : a[l] \in Nat /\ b[l] \in Nat BY ObjectiveType
<1>3. \A l \in HigherIsBetter(s) : l \notin LowerIsBetter BY DEF HigherIsBetter, LowerIsBetter
<1>4. \A l \in HigherIsBetter(s) : b[l] >= a[l] BY <1>1, <1>3
<1>5. \A l \in LowerIsBetter : b[l] <= a[l] BY <1>2
<1>6. \A l \in HigherIsBetter(s) : a[l] # NoValue /\ b[l] # NoValue
  BY <1>1, LegacyAssumption
<1>7. b[k] # a[k] BY <1>1, <1>2
<1>. QED BY <1>4, <1>5, <1>6, <1>7 DEF Dominates, NeverWorse

-----------------------------------------------------------------------------
(* The nomination: what it selects.                                        *)

LEMMA CandidatesFinite ==
  ASSUME NEW s, IsFiniteSet(s.confidences), IsFiniteSet(s.tokens)
  PROVE  IsFiniteSet(CandidatesOf(s))
<1> DEFINE cascades == {Policy("cascade", c, t, s.critical) : c \in s.confidences, t \in s.tokens}
           fast == IF s.fastOnly THEN {Policy("fast-only", NoValue, NoValue, s.critical)} ELSE {}
           limits == s.confidences \X s.tokens
           cascade == [x \in limits |-> Policy("cascade", x[1], x[2], s.critical)]
<1>1. IsFiniteSet(limits) BY FS_Product
<1>2. cascade \in Surjection(limits, cascades)
  <2>1. \A x \in limits : cascade[x] \in cascades OBVIOUS
  <2>2. ASSUME NEW p \in cascades PROVE \E x \in limits : cascade[x] = p
    <3>1. PICK c \in s.confidences, t \in s.tokens : p = Policy("cascade", c, t, s.critical)
      OBVIOUS
    <3>2. <<c, t>> \in limits /\ cascade[<<c, t>>] = p BY <3>1
    <3>. QED BY <3>2
  <2> HIDE DEF cascades
  <2>. QED BY <2>1, <2>2 DEF Surjection
<1>3. IsFiniteSet(cascades) BY <1>1, <1>2, FS_Surjection
<1>4. IsFiniteSet(fast) BY FS_Singleton, FS_EmptySet
<1>5. CandidatesOf(s) = cascades \cup fast BY DEF CandidatesOf
<1> HIDE DEF cascades, fast
<1>. QED BY <1>3, <1>4, <1>5, FS_Union

\* A capacity that is asked for was measured where the gate is passed.
LEMMA PasserComparable ==
  ASSUME NEW s, NEW measured, Measurable(measured), NEW p \in CandidatesOf(s),
         NEW quality, NEW nominating,
         Failed(Gates(p, MetricsOf(p, measured), s, measured, quality, nominating)) = {}
  PROVE  Comparable(s, MetricsOf(p, measured))
<1>1. PICK m : m = MetricsOf(p, measured) OBVIOUS
<1>2. PICK gates : gates = Gates(p, m, s, measured, quality, nominating) OBVIOUS
<1>3. "p50_total_tps" \in DOMAIN gates
      /\ (gates["p50_total_tps"] = IF m.capacity = NoValue THEN s.minCapacity = 0
                                   ELSE m.capacity >= s.minCapacity)
  BY <1>2 DEF Gates
<1>4. gates["p50_total_tps"] BY <1>1, <1>2, <1>3 DEF Failed
<1>5. s.minCapacity > 0 => m.capacity # NoValue
  <2>1. m.capacity = NoValue => s.minCapacity = 0 BY <1>3, <1>4, Zenon
  <2>. QED BY <2>1
<1>6. m \in MetricSet BY <1>1, MetricsType
<1>. QED BY <1>1, <1>5, <1>6 DEF Comparable

\* What was nominated is settled: the measurements stay, and the nominee is the best.
NomineeInv ==
    /\ spec \in Specs /\ development \in Developments
    /\ NomineeIsBest

LEMMA NomineeStarts == LegacyInit => NomineeInv
  BY DEF LegacyInit, NomineeInv, NomineeIsBest, Unnominated

LEMMA NominatesTheBest ==
  ASSUME NomineeInv, NEW key, Nominate(key)
  PROVE  NomineeIsBest'
<1>1. Measurable(development) /\ IsFiniteSet(CandidatesOf(spec))
  <2>1. IsFiniteSet(spec.confidences) /\ IsFiniteSet(spec.tokens)
    BY LegacyAssumption DEF NomineeInv
  <2>2. Measurable(development) BY LegacyAssumption DEF NomineeInv, Measurable
  <2>. QED BY <2>1, <2>2, CandidatesFinite
<1>2. PICK s, measured : s = spec /\ measured = development OBVIOUS
<1>3. PICK quality \in [CandidatesOf(s) -> BOOLEAN] :
          \E evaluations \in {Evaluations(quality)} :
            LET metrics == [p \in DOMAIN evaluations |-> evaluations[p].metrics]
                passers == {p \in DOMAIN evaluations : Failed(evaluations[p].gates) = {}}
                choices == Preferred(metrics, Frontier(spec, metrics, passers))
                result(status, policy) ==
                    [status |-> status, evaluations |-> evaluations, spec |-> spec,
                     policy |-> policy]
            IN  IF choices = {}
                THEN nominated' = result("NO_CANDIDATE", NoValue) /\ UNCHANGED artifact
                ELSE \E policy \in choices :
                     LET body == Body(spec, policy, development)
                     IN  /\ nominated' = result("NOMINATED", policy)
                         /\ artifact' = [body |-> body, selfDigest |-> body,
                                         key |-> key, attested |-> body]
  BY <1>2 DEF Nominate
<1>4. PICK done : done = Evaluations(quality) OBVIOUS
<1>5. /\ DOMAIN done = CandidatesOf(s)
      /\ \A p \in CandidatesOf(s) :
            /\ done[p].metrics = MetricsOf(p, measured)
            /\ done[p].gates = Gates(p, MetricsOf(p, measured), s, measured, quality[p], TRUE)
  BY <1>2, <1>4 DEF Evaluations
<1>6. PICK metrics : metrics = [p \in DOMAIN done |-> done[p].metrics] OBVIOUS
<1>7. PICK passers : passers = {p \in DOMAIN done : Failed(done[p].gates) = {}} OBVIOUS
<1>8. PICK choices : choices = Preferred(metrics, Frontier(s, metrics, passers)) OBVIOUS
<1>9. \/ nominated'.status = "NO_CANDIDATE"
      \/ \E policy \in choices : nominated' = [status |-> "NOMINATED", evaluations |-> done,
                                               spec |-> s, policy |-> policy]
  <2>1. LET metrics_ == [p \in DOMAIN done |-> done[p].metrics]
            passers_ == {p \in DOMAIN done : Failed(done[p].gates) = {}}
            choices_ == Preferred(metrics_, Frontier(spec, metrics_, passers_))
        IN  \/ \E e : nominated' = [status |-> "NO_CANDIDATE", evaluations |-> e,
                                     spec |-> spec, policy |-> NoValue]
            \/ \E policy \in choices_ :
                   nominated' = [status |-> "NOMINATED", evaluations |-> done,
                                 spec |-> spec, policy |-> policy]
    BY <1>3, <1>4, Zenon
  <2>2. spec = s BY <1>2
  <2>3. choices = LET metrics_ == [p \in DOMAIN done |-> done[p].metrics]
                      passers_ == {p \in DOMAIN done : Failed(done[p].gates) = {}}
                  IN  Preferred(metrics_, Frontier(spec, metrics_, passers_))
    BY <1>6, <1>7, <1>8, <2>2, Zenon
  <2>4. \/ \E e : nominated' = [status |-> "NO_CANDIDATE", evaluations |-> e,
                               spec |-> spec, policy |-> NoValue]
        \/ \E policy \in choices :
               nominated' = [status |-> "NOMINATED", evaluations |-> done,
                             spec |-> spec, policy |-> policy]
    BY <2>1, <2>3, Zenon
  <2>. QED BY <2>2, <2>4
<1>10. IsFiniteSet(passers) /\ passers \subseteq CandidatesOf(s)
  BY <1>1, <1>2, <1>5, <1>7, FS_Subset
<1>11. ASSUME NEW p \in passers
       PROVE  Comparable(s, metrics[p]) /\ metrics[p] = done[p].metrics
  <2>1. metrics[p] = done[p].metrics BY <1>6, <1>7
  <2>2. p \in CandidatesOf(s) /\ Failed(done[p].gates) = {} BY <1>7, <1>10
  <2>3. Measurable(measured) BY <1>1, <1>2
  <2>4. Failed(Gates(p, MetricsOf(p, measured), s, measured, quality[p], TRUE)) = {}
    BY <1>5, <2>2
  <2>5. Comparable(s, MetricsOf(p, measured)) BY <2>2, <2>3, <2>4, PasserComparable
  <2>. QED BY <1>5, <2>1, <2>2, <2>5
<1>12. ASSUME NEW nominee \in choices, NEW p \in passers
       PROVE  /\ nominee \in passers
              /\ metrics[nominee].cost <= metrics[p].cost
              /\ metrics[p].cost = metrics[nominee].cost
                    => metrics[nominee].latency <= metrics[p].latency
              /\ ~Dominates(s, metrics[p], metrics[nominee])
  BY <1>8, <1>10, <1>11, PreferredIsBest
<1>13. CASE nominated'.status = "NO_CANDIDATE" BY <1>13 DEF NomineeIsBest
<1>14. ASSUME NEW nominee \in choices,
              nominated' = [status |-> "NOMINATED", evaluations |-> done,
                            spec |-> s, policy |-> nominee]
       PROVE  NomineeIsBest'
  <2>1. nominee \in passers BY <1>8 DEF Preferred, Frontier
  <2>2. PICK m : m = [p \in passers |-> done[p].metrics] OBVIOUS
  <2>3. \A p \in passers : m[p] = metrics[p] /\ Comparable(s, m[p]) BY <1>11, <2>2
  <2>4. ASSUME NEW p \in passers
        PROVE  /\ m[nominee].cost <= m[p].cost
               /\ m[p].cost = m[nominee].cost => m[nominee].latency <= m[p].latency
               /\ (\E k \in HigherIsBetter(s) \cup LowerIsBetter :
                       (IF k \in LowerIsBetter THEN m[nominee][k] - m[p][k]
                        ELSE m[p][k] - m[nominee][k]) > 0)
                  => \E k \in HigherIsBetter(s) \cup LowerIsBetter :
                       (IF k \in LowerIsBetter THEN m[nominee][k] - m[p][k]
                        ELSE m[p][k] - m[nominee][k]) < 0
    <3>1. m[p] = metrics[p] /\ m[nominee] = metrics[nominee] BY <2>1, <2>3
    <3>2. PICK a, b : a = m[nominee] /\ b = m[p] OBVIOUS
    <3>3. Comparable(s, a) /\ Comparable(s, b) BY <2>1, <2>3, <3>2
    <3>4. ~Dominates(s, b, a) /\ a.cost <= b.cost /\ (b.cost = a.cost => a.latency <= b.latency)
      BY <1>12, <3>1, <3>2
    <3>. QED BY <3>2, <3>3, <3>4, UndominatedTrades
  <2>5. passers = {p \in DOMAIN done : Failed(done[p].gates) = {}} BY <1>7
  <2>6. nominated'.spec = s /\ nominated'.evaluations = done /\ nominated'.policy = nominee
    BY <1>14
  <2>. QED BY <2>1, <2>2, <2>4, <2>5, <2>6, Zenon DEF NomineeIsBest
<1>. QED BY <1>9, <1>13, <1>14

LEMMA NomineeStep == NomineeInv /\ [LegacyNext]_legacyVars => NomineeInv'
<1> SUFFICES ASSUME NomineeInv, [LegacyNext]_legacyVars PROVE NomineeInv'
  OBVIOUS
<1>1. ASSUME NEW key, Nominate(key) PROVE NomineeInv'
  <2>1. UNCHANGED <<spec, development>> BY <1>1 DEF Nominate
  <2>. QED BY <1>1, <2>1, NominatesTheBest DEF NomineeInv
<1>2. ASSUME NEW key, NominateBefore(key) PROVE NomineeInv'
  <2>1. UNCHANGED <<spec, development>> /\ nominated'.status = "NOMINATED_BEFORE"
    BY <1>2 DEF NominateBefore
  <2>. QED BY <2>1 DEF NomineeInv, NomineeIsBest
<1>3. ASSUME NEW key, Confirm(key) PROVE NomineeInv'
  <2>1. UNCHANGED <<spec, development, nominated>> BY <1>3 DEF Confirm
  <2>. QED BY <2>1 DEF NomineeInv, NomineeIsBest
<1>4. ASSUME NEW policy, EditNomination(policy) PROVE NomineeInv'
  <2>1. UNCHANGED <<spec, development, nominated>> BY <1>4 DEF EditNomination
  <2>. QED BY <2>1 DEF NomineeInv, NomineeIsBest
<1>5. ASSUME NEW s \in Specs, ReviseSpec(s) PROVE NomineeInv'
  <2>1. spec' = s /\ UNCHANGED <<development, nominated>> BY <1>5 DEF ReviseSpec
  <2>. QED BY <2>1 DEF NomineeInv, NomineeIsBest
<1>6. CASE UNCHANGED legacyVars
  BY <1>6 DEF legacyVars, NomineeInv, NomineeIsBest
<1>. QED BY <1>1, <1>2, <1>3, <1>4, <1>5, <1>6 DEF LegacyNext

\* For any specs, confidence limits and token limits, and measurements of any number
\* of cases and replicates: no policy that passes every gate is cheaper than the
\* nominee, or as cheap and faster, or better in one objective and worse in none,
\* though the search for it leaves out all that something dominates
\* (boundedParetoFrontier, nominatePolicy).
THEOREM TheNomineeIsBest == LegacySpec => []NomineeIsBest
<1>1. NomineeInv => NomineeIsBest BY DEF NomineeInv
<1>. QED BY <1>1, NomineeStarts, NomineeStep, PTL DEF LegacySpec

=============================================================================
