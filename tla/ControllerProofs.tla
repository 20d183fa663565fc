--------------------------- MODULE ControllerProofs ---------------------------
(***************************************************************************)
(* Proofs about Controller and ControllerLog, for any protocol and bounds: *)
(* every accepted history of commands leads to a snapshot that the         *)
(* validator accepts, the commands implement the documented lifecycle, and *)
(* the snapshots a process holds are histories, however they came about.   *)
(*                                                                         *)
(* The invariant says in terms of positions what the validator says in     *)
(* terms of counts: of the assessments the first is of development, the    *)
(* second of the holdout and all others of windows.                        *)
(***************************************************************************)
EXTENDS Controller, ControllerLog, TLAPS, FiniteSetTheorems

Typed ==
    /\ state \in States
    /\ sequence \in Nat
    /\ lastEventAt \in Instants
    /\ developmentEvidence \in Sources \cup {None}
    /\ selectedPolicy \in Policies \cup {None}
    /\ assessments \in Seq(Decisions)
    /\ windows \in Seq(Manifests)
    /\ deploymentObservation \in Observations \cup {None}
    /\ judged \in Nat /\ judged <= Len(windows)

PhaseAt(i) == IF i = 1 THEN "development" ELSE IF i = 2 THEN "holdout" ELSE "window"

\* The assessments: their phases, results, policy and evidence.
AssessmentInv ==
    /\ \A i \in 1..Len(assessments) :
          /\ assessments[i].phase = PhaseAt(i)
          /\ assessments[i].policy = selectedPolicy
          /\ \A k \in 1..Len(assessments) : assessments[i] = assessments[k] => i = k
          /\ i > 2 => \E k \in 1..Len(windows) :
                          /\ windows[k] = assessments[i].manifest
                          /\ windows[k].source = assessments[i].source
    /\ Len(assessments) > 0 =>
          /\ developmentEvidence # None
          /\ assessments[1].source = developmentEvidence
          /\ selectedPolicy # None <=> assessments[1].status = "NOMINATED"
    /\ Len(assessments) = 0 => selectedPolicy = None
    /\ Len(assessments) > 1 => assessments[1].status = "NOMINATED"
    /\ Len(assessments) > 2 => assessments[2].status = "PASS"
    /\ developmentEvidence # None => collectionStarted
    /\ selectedPolicy # None => selectedPolicy.issuedAt <= lastEventAt

Earlier(i) == {k \in Ledger(windows[i].window) : k < i}

\* One revision of a window against those before it.
Follows(i) ==
    /\ IsFiniteSet(Earlier(i))
    /\ windows[i].revision = Cardinality(Earlier(i)) + 1
    /\ \A k \in Earlier(i) :
          /\ windows[k].end = windows[i].end
          /\ windows[k].watermark <= windows[i].watermark
          /\ windows[k].revision < windows[i].revision
          /\ windows[k].revision + 1 = windows[i].revision =>
                <<windows[k].source, windows[k].capacity>>
                    # <<windows[i].source, windows[i].capacity>>

LedgerInv ==
    /\ Len(windows) <= MaxRevisions
    /\ Len(windows) > 0 => selectedPolicy # None
    /\ \A i \in 1..Len(windows) :
          /\ Follows(i)
          /\ windows[i].policy = selectedPolicy.id
          /\ windows[i].watermark < Expiry /\ windows[i].watermark <= lastEventAt
    /\ \A w \in Windows : Ledger(w) # {} => \E i \in Ledger(w) : \A k \in Ledger(w) : k <= i

Deployed == deploymentObservation # None

DeployInv ==
    Deployed =>
        /\ Len(assessments) > 2
        /\ \E i \in 3..Len(assessments) : assessments[i].status = "PASS"
        /\ deploymentObservation.policy = selectedPolicy.id
        /\ deploymentObservation.observedAt < Expiry
        /\ deploymentObservation.observedAt <= lastEventAt
        /\ state \in {"MONITORING", "HOLD", "ROLLBACK_RECOMMENDED", "STALE", "RETIRED"}

\* What a state says of the evidence, and of the number of events.
StateInv ==
    LET revisions == Len(windows)
        judgements == Len(assessments)
        confirmed == judgements > 1 /\ assessments[2].status = "PASS"
    IN  /\ state = "DRAFT" => sequence = 0 /\ ~collectionStarted /\ judgements = 0
        /\ state = "REGISTERED" => sequence = 1 /\ ~collectionStarted /\ judgements = 0
        /\ state = "COLLECTING" =>
               /\ sequence = 2 /\ collectionStarted /\ judgements = 0
               /\ developmentEvidence = None
        /\ state = "DEV_READY" =>
               sequence = 3 /\ developmentEvidence # None /\ judgements = 0
        /\ state = "NOMINATED" => sequence = 4 /\ revisions = 0
        /\ state = "SHADOW_ASSESSING" => sequence = 5 + revisions
        /\ state \in {"NOMINATED", "SHADOW_ASSESSING"} =>
               judgements = 1 /\ assessments[1].status = "NOMINATED"
        /\ state \in {"HOLDOUT_CONFIRMED", "PROMOTION_RECOMMENDED"} =>
               sequence = 4 + revisions + judgements /\ confirmed
        /\ state = "PROMOTION_RECOMMENDED" =>
               LatestWindowIs("PASS") /\ judged = revisions /\ judgements > 2
        /\ state \in {"MONITORING", "ROLLBACK_RECOMMENDED"} =>
               sequence = 5 + revisions + judgements /\ confirmed /\ Deployed
        /\ state = "ROLLBACK_RECOMMENDED" => LatestWindowIs("HOLD")
        /\ state = "HOLD" =>
               /\ judgements > 0
               /\ assessments[judgements].status \in
                      {"NO_CANDIDATE", "HOLD", "INSUFFICIENT_EVIDENCE"}
               /\ sequence = IF selectedPolicy = None THEN 3 + judgements
                             ELSE 4 + judgements + revisions + (IF Deployed THEN 1 ELSE 0)
        /\ state \in {"STALE", "RETIRED"} => sequence > 0

ControllerInv ==
    /\ Typed /\ AssessmentInv /\ LedgerInv /\ DeployInv /\ StateInv /\ CoherentTime

-----------------------------------------------------------------------------
(* The invariant is what the validator asks.                               *)

\* The assessments of a phase by their positions.
LEMMA PhasePositions ==
  ASSUME ControllerInv
  PROVE  /\ \A i \in OfPhase("development") : i = 1
         /\ \A i \in OfPhase("holdout") : i = 2
         /\ OfPhase("window") = 3..Len(assessments)
         /\ Len(assessments) > 0 => 1 \in OfPhase("development")
         /\ Len(assessments) > 1 => 2 \in OfPhase("holdout")
         /\ \A i \in DOMAIN assessments : i \in Nat /\ 1 <= i /\ i <= Len(assessments)
         /\ DOMAIN assessments = 1..Len(assessments)
         /\ Len(assessments) \in Nat
<1>1. /\ DOMAIN assessments = 1..Len(assessments) /\ Len(assessments) \in Nat
  BY DEF ControllerInv, Typed
<1>2. \A i \in 1..Len(assessments) : assessments[i].phase = PhaseAt(i)
  BY DEF ControllerInv, AssessmentInv
<1>. QED BY <1>1, <1>2 DEF OfPhase, PhaseAt

\* What was concluded, by the positions too.
LEMMA ConcludedPositions ==
  ASSUME ControllerInv
  PROVE  /\ Concluded("development", "NOMINATED") <=>
                Len(assessments) > 0 /\ assessments[1].status = "NOMINATED"
         /\ Concluded("holdout", "PASS") <=>
                Len(assessments) > 1 /\ assessments[2].status = "PASS"
         /\ Concluded("window", "PASS") <=>
                \E i \in 3..Len(assessments) : assessments[i].status = "PASS"
         /\ Nominated <=> Len(assessments) > 0 /\ assessments[1].status = "NOMINATED"
<1>1. Concluded("development", "NOMINATED") <=>
          Len(assessments) > 0 /\ assessments[1].status = "NOMINATED"
  BY PhasePositions DEF Concluded, OfPhase
<1>2. Concluded("holdout", "PASS") <=>
          Len(assessments) > 1 /\ assessments[2].status = "PASS"
  BY PhasePositions DEF Concluded, OfPhase
<1>3. Concluded("window", "PASS") <=>
          \E i \in 3..Len(assessments) : assessments[i].status = "PASS"
  BY PhasePositions DEF Concluded
<1>. QED BY <1>1, <1>2, <1>3 DEF Nominated, ControllerInv, AssessmentInv

LEMMA WindowCount ==
  ASSUME ControllerInv, Len(assessments) > 1
  PROVE  WindowAssessments = Len(assessments) - 2
<1>1. Len(assessments) \in Nat BY PhasePositions
<1>2. Cardinality(3..Len(assessments)) = Len(assessments) - 2
  BY <1>1, FS_Interval
<1>. QED BY <1>2, PhasePositions DEF WindowAssessments

LEMMA InvImpliesCoherent == ControllerInv => Coherent
<1> SUFFICES ASSUME ControllerInv PROVE Coherent
  OBVIOUS
<1> USE DEF ControllerInv
<1>1. CoherentWindows
  <2>1. DOMAIN windows = 1..Len(windows) /\ Len(windows) \in Nat BY DEF Typed
  <2>2. windows # <<>> => Len(windows) > 0 BY DEF Typed
  <2>3. \A i \in 1..Len(windows) : Follows(i) BY DEF LedgerInv
  <2>. QED BY <2>1, <2>2, <2>3 DEF LedgerInv, CoherentWindows, Follows, Earlier
<1>2. CoherentAssessments
  <2>1. Cardinality(OfPhase("development")) <= 1
    <3>1. OfPhase("development") \in SUBSET {1} BY PhasePositions
    <3>2. IsFiniteSet({1}) /\ Cardinality({1}) = 1 BY FS_Singleton
    <3>3. Cardinality(OfPhase("development")) <= Cardinality({1}) BY <3>1, <3>2, FS_Subset
    <3>. QED BY <3>2, <3>3
  <2>2. \A i, k \in DOMAIN assessments :
          /\ assessments[i] = assessments[k] => i = k
          /\ (i < k /\ assessments[i].phase = "window")
                => assessments[k].phase = "window"
          /\ (i < k /\ assessments[i].phase = "holdout")
                => assessments[k].phase = "window"
    BY PhasePositions DEF AssessmentInv, PhaseAt
  <2>3. /\ OfPhase("holdout") # {} => Concluded("development", "NOMINATED")
        /\ OfPhase("window") # {} => Concluded("holdout", "PASS")
    <3>1. OfPhase("holdout") # {} => Len(assessments) > 1 BY PhasePositions DEF OfPhase
    <3>2. OfPhase("window") # {} => Len(assessments) > 2 BY PhasePositions
    <3>. QED BY <3>1, <3>2, PhasePositions, ConcludedPositions DEF AssessmentInv
  <2>4. assessments # <<>> => developmentEvidence # None
    BY DEF AssessmentInv, Typed
  <2>5. \A i \in OfPhase("development") : assessments[i].source = developmentEvidence
    BY PhasePositions DEF AssessmentInv, OfPhase
  <2>6. DOMAIN windows = 1..Len(windows) BY DEF Typed
  <2>7. \A i \in OfPhase("window") : \E k \in DOMAIN windows :
            windows[k] = assessments[i].manifest /\ windows[k].source = assessments[i].source
    BY <2>6, PhasePositions DEF AssessmentInv
  <2>8. developmentEvidence # None => collectionStarted BY DEF AssessmentInv
  <2>. QED BY <2>1, <2>2, <2>3, <2>4, <2>5, <2>7, <2>8 DEF CoherentAssessments
<1>3. CoherentPolicy
  BY PhasePositions, ConcludedPositions DEF AssessmentInv, CoherentPolicy
<1>4. CoherentDeployment
  BY PhasePositions, ConcludedPositions
     DEF DeployInv, AssessmentInv, CoherentDeployment, Deployed, Confirmed
<1>5. CoherentState
  <2>1. Len(windows) \in Nat /\ Len(assessments) \in Nat /\ sequence \in Nat BY DEF Typed
  <2>2. assessments = <<>> <=> Len(assessments) = 0 BY DEF Typed
  <2>3. Len(assessments) = 1 => OfPhase("holdout") = {} BY PhasePositions DEF OfPhase
  <2>4. Len(assessments) = 1 \/ Len(assessments) = 0 => ~Deployed BY <2>1 DEF DeployInv
  <2>5. state \in {"HOLDOUT_CONFIRMED", "PROMOTION_RECOMMENDED"} => ~Deployed BY DEF DeployInv
  <2>6. Len(assessments) > 1 /\ assessments[2].status = "PASS" => Confirmed
    BY ConcludedPositions DEF Confirmed, AssessmentInv
  <2>7. Nominated <=> Len(assessments) > 0 /\ assessments[1].status = "NOMINATED"
    BY ConcludedPositions
  <2>8. Len(assessments) > 1 => WindowAssessments = Len(assessments) - 2 BY WindowCount
  <2>9. Len(assessments) = 0 => selectedPolicy = None BY DEF AssessmentInv
  <2>10. Len(assessments) > 0 => developmentEvidence # None BY DEF AssessmentInv
  <2> USE <2>1, <2>2, <2>3, <2>4, <2>5, <2>6, <2>7, <2>8, <2>9, <2>10
  <2> HIDE DEF ControllerInv
  <2>11. StateInv BY DEF ControllerInv
  <2>12. CASE state = "DRAFT" BY <2>11, <2>12 DEF CoherentState, StateInv
  <2>13. CASE state = "REGISTERED" BY <2>11, <2>13 DEF CoherentState, StateInv
  <2>14. CASE state = "COLLECTING" BY <2>11, <2>14 DEF CoherentState, StateInv
  <2>15. CASE state = "DEV_READY" BY <2>11, <2>15 DEF CoherentState, StateInv
  <2>16. CASE state = "NOMINATED" BY <2>11, <2>16 DEF CoherentState, StateInv, Deployed
  <2>17. CASE state = "SHADOW_ASSESSING" BY <2>11, <2>17 DEF CoherentState, StateInv, Deployed
  <2>18. CASE state = "HOLDOUT_CONFIRMED"
    BY <2>11, <2>18 DEF CoherentState, StateInv, Deployed
  <2>19. CASE state = "PROMOTION_RECOMMENDED"
    BY <2>11, <2>19 DEF CoherentState, StateInv, Deployed
  <2>20. CASE state = "MONITORING" BY <2>11, <2>20 DEF CoherentState, StateInv, Deployed
  <2>21. CASE state = "ROLLBACK_RECOMMENDED"
    BY <2>11, <2>21 DEF CoherentState, StateInv, Deployed
  <2>22. CASE state = "HOLD" BY <2>11, <2>22 DEF CoherentState, StateInv, Deployed
  <2>23. CASE state \in {"STALE", "RETIRED"} BY <2>11, <2>23 DEF CoherentState, StateInv
  <2>24. state \in States BY DEF ControllerInv, Typed
  <2>. QED
    BY <2>12, <2>13, <2>14, <2>15, <2>16, <2>17, <2>18, <2>19, <2>20, <2>21, <2>22, <2>23,
       <2>24 DEF States
<1>. QED BY <1>1, <1>2, <1>3, <1>4, <1>5 DEF Coherent

-----------------------------------------------------------------------------
(* What a step keeps.                                                      *)

\* The fields of the decisions of each phase.
LEMMA DecisionFields ==
  /\ \A d \in DevelopmentDecisions :
        /\ d \in Decisions /\ d.phase = "development"
        /\ d.status \in {"NOMINATED", "NO_CANDIDATE", "INSUFFICIENT_EVIDENCE", "STALE"}
        /\ d.policy \in Policies \cup {None}
        /\ d.policy # None <=> d.status = "NOMINATED"
  /\ \A d \in HoldoutDecisions :
        d \in Decisions /\ d.phase = "holdout" /\ d.status \in Verdicts
  /\ \A m \in Manifests : \A d \in WindowDecisions(m) :
        /\ d \in Decisions /\ d.phase = "window" /\ d.status \in Verdicts
        /\ d.manifest = m
<1>1. ASSUME NEW d \in DevelopmentDecisions
      PROVE  /\ d \in Decisions /\ d.phase = "development"
             /\ d.status \in {"NOMINATED", "NO_CANDIDATE", "INSUFFICIENT_EVIDENCE", "STALE"}
             /\ d.policy \in Policies \cup {None}
             /\ d.policy # None <=> d.status = "NOMINATED"
  <2>1. d \in Decisions BY DEF Decisions
  <2>. QED BY <2>1, NoneAssumption DEF DevelopmentDecisions
<1>2. ASSUME NEW d \in HoldoutDecisions
      PROVE  d \in Decisions /\ d.phase = "holdout" /\ d.status \in Verdicts
  BY DEF Decisions, HoldoutDecisions
<1>3. ASSUME NEW m \in Manifests, NEW d \in WindowDecisions(m)
      PROVE  /\ d \in Decisions /\ d.phase = "window" /\ d.status \in Verdicts
             /\ d.manifest = m
  <2>1. d \in Decisions BY DEF Decisions
  <2>. QED BY <2>1 DEF WindowDecisions
<1>. QED BY <1>1, <1>2, <1>3

\* An event is later than those before it, and counted.
LEMMA EventFacts ==
  ASSUME ControllerInv, NEW at \in Instants, ExpirySafeEvent(at)
  PROVE  /\ sequence' = sequence + 1 /\ sequence' \in Nat /\ sequence' > 0
         /\ lastEventAt' = at /\ lastEventAt' \in Instants
         /\ lastEventAt <= lastEventAt' /\ lastEventAt \in Nat /\ at \in Nat
         /\ state # "RETIRED"
  BY ControllerAssumption DEF ExpirySafeEvent, ControllerInv, Typed, Instants

\* Where the ledgers stay as they are, so does what is said of them.
LEMMA LedgerKept ==
  ASSUME ControllerInv, windows' = windows, Len(windows) > 0 => selectedPolicy' = selectedPolicy,
         lastEventAt' \in Instants, lastEventAt <= lastEventAt'
  PROVE  LedgerInv'
<1>1. \A i \in 1..Len(windows) : Follows(i)' <=> Follows(i)
  BY DEF Follows, Earlier, Ledger
<1>2. \A w \in Windows : Ledger(w)' = Ledger(w) BY DEF Ledger
<1>3. \A i \in 1..Len(windows) : windows[i].watermark <= lastEventAt'
  <2> SUFFICES ASSUME NEW i \in 1..Len(windows) PROVE windows[i].watermark <= lastEventAt'
    OBVIOUS
  <2>1. windows[i] \in Manifests /\ lastEventAt \in Instants BY DEF ControllerInv, Typed
  <2>3. windows[i].watermark \in Nat /\ lastEventAt \in Nat /\ lastEventAt' \in Nat
    BY <2>1, ControllerAssumption DEF Manifests, Instants
  <2>2. windows[i].watermark <= lastEventAt BY DEF ControllerInv, LedgerInv
  <2>. QED BY <2>2, <2>3
<1>. QED BY <1>1, <1>2, <1>3 DEF ControllerInv, LedgerInv

\* Where no assessment is added, what is said of them stays, whatever manifest is.
LEMMA AssessmentsKept ==
  ASSUME ControllerInv, assessments' = assessments, selectedPolicy' = selectedPolicy,
         windows' = windows \/ \E m \in Manifests : windows' = Append(windows, m),
         Len(assessments) > 0 => developmentEvidence' = developmentEvidence,
         developmentEvidence' # None => collectionStarted',
         lastEventAt' \in Instants, lastEventAt <= lastEventAt'
  PROVE  AssessmentInv'
<1>1. \A k \in 1..Len(windows) : k \in 1..Len(windows') /\ windows'[k] = windows[k]
  <2>1. windows \in Seq(Manifests) BY DEF ControllerInv, Typed
  <2>2. CASE windows' = windows BY <2>2
  <2>3. CASE \E m \in Manifests : windows' = Append(windows, m)
    <3>1. PICK m \in Manifests : windows' = Append(windows, m) BY <2>3
    <3>. QED BY <2>1, <3>1
  <2>. QED BY <2>2, <2>3
<1>2. selectedPolicy # None => selectedPolicy.issuedAt <= lastEventAt'
  <2> SUFFICES ASSUME selectedPolicy # None PROVE selectedPolicy.issuedAt <= lastEventAt'
    OBVIOUS
  <2>1. selectedPolicy.issuedAt \in Nat /\ lastEventAt \in Nat /\ lastEventAt' \in Nat
    BY ControllerAssumption DEF ControllerInv, Typed, Policies, Instants
  <2>2. selectedPolicy.issuedAt <= lastEventAt BY DEF ControllerInv, AssessmentInv
  <2>. QED BY <2>1, <2>2
<1>. QED BY <1>1, <1>2 DEF ControllerInv, AssessmentInv

\* A decision that is recorded takes the place that its phase has.
LEMMA AssessmentAdded ==
  ASSUME ControllerInv, NEW d \in Decisions, Admissible(d),
         assessments' = Append(assessments, d), windows' = windows,
         d.phase = PhaseAt(Len(assessments) + 1), d.policy = selectedPolicy',
         IF Len(assessments) = 0
         THEN /\ selectedPolicy' # None <=> d.status = "NOMINATED"
              /\ selectedPolicy' # None => selectedPolicy'.issuedAt <= lastEventAt'
              /\ d.source = developmentEvidence /\ developmentEvidence # None
         ELSE selectedPolicy' = selectedPolicy,
         Len(assessments) = 1 => assessments[1].status = "NOMINATED",
         Len(assessments) = 2 => assessments[2].status = "PASS",
         Len(assessments) > 1 => \E k \in 1..Len(windows) :
                                     windows[k] = d.manifest /\ windows[k].source = d.source,
         UNCHANGED <<developmentEvidence, collectionStarted>>,
         lastEventAt' \in Instants, lastEventAt <= lastEventAt'
  PROVE  AssessmentInv' /\ assessments' \in Seq(Decisions)
<1> DEFINE n == Len(assessments)
<1>1. /\ n \in Nat /\ Len(assessments') = n + 1 /\ assessments' \in Seq(Decisions)
      /\ assessments'[n + 1] = d
      /\ \A i \in 1..n : assessments'[i] = assessments[i]
  BY DEF ControllerInv, Typed
<1>2. \A i \in 1..n : assessments[i] # d BY DEF Admissible, ControllerInv, Typed
<1>3. AssessmentInv BY DEF ControllerInv
<1>4. selectedPolicy' # None => selectedPolicy'.issuedAt <= lastEventAt'
  <2> SUFFICES ASSUME n # 0, selectedPolicy # None PROVE selectedPolicy.issuedAt <= lastEventAt'
    OBVIOUS
  <2>1. selectedPolicy.issuedAt \in Nat /\ lastEventAt \in Nat /\ lastEventAt' \in Nat
    BY ControllerAssumption DEF ControllerInv, Typed, Policies, Instants
  <2>2. selectedPolicy.issuedAt <= lastEventAt BY <1>3 DEF AssessmentInv
  <2>. QED BY <2>1, <2>2
<1> HIDE DEF n
<1>5. ASSUME NEW i \in 1..Len(assessments')
      PROVE  /\ assessments'[i].phase = PhaseAt(i)
             /\ assessments'[i].policy = selectedPolicy'
             /\ \A k \in 1..Len(assessments') : assessments'[i] = assessments'[k] => i = k
             /\ i > 2 => \E k \in 1..Len(windows') :
                             /\ windows'[k] = assessments'[i].manifest
                             /\ windows'[k].source = assessments'[i].source
  <2>1. CASE i = n + 1
    BY <1>1, <1>2, <2>1 DEF n
  <2>2. CASE i # n + 1
    <3>1. i \in 1..n /\ assessments'[i] = assessments[i] /\ n > 0 BY <1>1, <2>2
    <3>2. selectedPolicy' = selectedPolicy BY <3>1 DEF n
    <3>3. /\ assessments[i].phase = PhaseAt(i) /\ assessments[i].policy = selectedPolicy
          /\ \A k \in 1..n : assessments[i] = assessments[k] => i = k
          /\ i > 2 => \E k \in 1..Len(windows) :
                          /\ windows[k] = assessments[i].manifest
                          /\ windows[k].source = assessments[i].source
      BY <1>3, <3>1 DEF AssessmentInv, n
    <3>. QED BY <1>1, <1>2, <3>1, <3>2, <3>3
  <2>. QED BY <2>1, <2>2
<1>6. CASE n = 0
  BY <1>1, <1>3, <1>4, <1>5, <1>6 DEF AssessmentInv, n
<1>7. CASE n > 0
  <2>1. assessments'[1] = assessments[1] /\ (n > 1 => assessments'[2] = assessments[2])
    BY <1>1, <1>7
  <2>2. /\ developmentEvidence # None /\ assessments[1].source = developmentEvidence
        /\ selectedPolicy # None <=> assessments[1].status = "NOMINATED"
        /\ n > 1 => assessments[1].status = "NOMINATED"
        /\ n > 2 => assessments[2].status = "PASS"
        /\ developmentEvidence # None => collectionStarted
    BY <1>3, <1>7 DEF AssessmentInv, n
  <2>3. /\ n = 1 => assessments[1].status = "NOMINATED"
        /\ n = 2 => assessments[2].status = "PASS"
        /\ selectedPolicy' = selectedPolicy
    BY <1>7 DEF n
  <2>4. Len(assessments') = n + 1 BY <1>1
  <2>5. /\ developmentEvidence' # None
        /\ assessments'[1].source = developmentEvidence'
        /\ selectedPolicy' # None <=> assessments'[1].status = "NOMINATED"
        /\ developmentEvidence' # None => collectionStarted'
    BY <2>1, <2>2, <2>3
  <2>6. Len(assessments') > 1 => assessments'[1].status = "NOMINATED"
    BY <1>1, <2>1, <2>2, <2>3, <2>4
  <2>7. Len(assessments') > 2 => assessments'[2].status = "PASS"
    BY <1>1, <2>1, <2>2, <2>3, <2>4
  <2>8. Len(assessments') # 0 BY <1>1, <2>4
  <2>. QED BY <1>1, <1>4, <1>5, <2>5, <2>6, <2>7, <2>8 DEF AssessmentInv
<1>. QED BY <1>1, <1>6, <1>7

\* The latest revision of a window that has one.
LEMMA LatestRevision ==
  ASSUME ControllerInv, NEW w \in Windows, Ledger(w) # {}
  PROVE  \E j \in Ledger(w) : Latest(w) = windows[j] /\ \A k \in Ledger(w) : k <= j
<1>1. PICK j \in Ledger(w) : \A k \in Ledger(w) : k <= j BY DEF ControllerInv, LedgerInv
<1>2. \A i \in Ledger(w) : i \in Nat BY DEF Ledger, ControllerInv, Typed
<1>3. (CHOOSE i \in Ledger(w) : \A k \in Ledger(w) : k <= i) = j BY <1>1, <1>2
<1>. QED BY <1>1, <1>3 DEF Latest

\* A manifest that extends its ledger follows all that are there.
LEMMA ManifestAdded ==
  ASSUME ControllerInv, NEW m \in Manifests, Extends(m), windows' = Append(windows, m),
         selectedPolicy # None, UNCHANGED selectedPolicy, m.policy = selectedPolicy.id,
         m.watermark < Expiry, m.watermark <= lastEventAt',
         lastEventAt' \in Instants, lastEventAt <= lastEventAt'
  PROVE  LedgerInv' /\ windows' \in Seq(Manifests)
<1>0. PICK n \in Nat : n = Len(windows) BY DEF ControllerInv, Typed
<1>1. /\ Len(windows') = n + 1 /\ windows' \in Seq(Manifests)
      /\ windows'[n + 1] = m /\ \A i \in 1..n : windows'[i] = windows[i]
      /\ DOMAIN windows = 1..n /\ DOMAIN windows' = 1..(n + 1)
  BY <1>0 DEF ControllerInv, Typed
<1>2. \A i \in 1..n : windows[i] \in Manifests BY <1>0 DEF ControllerInv, Typed
<1>3. LedgerInv BY DEF ControllerInv
<1>4. n < MaxRevisions BY <1>0 DEF Extends
<1>5. MaxRevisions \in Nat /\ lastEventAt \in Nat /\ lastEventAt' \in Nat
  BY ControllerAssumption DEF ControllerInv, Typed, Instants
<1>6. \A i \in 1..n : windows[i].revision \in Nat /\ windows[i].watermark \in Nat
  BY <1>2, ControllerAssumption DEF Manifests, Instants
<1>7. m.revision \in Nat /\ m.watermark \in Nat /\ m.window \in Windows
  BY ControllerAssumption DEF Manifests, Instants
<1>8. /\ \A w \in Windows : \A i : i \in Ledger(w) <=> i \in 1..n /\ windows[i].window = w
      /\ \A w \in Windows : \A i : i \in Ledger(w)' <=>
                                   i \in 1..(n + 1) /\ windows'[i].window = w
  BY <1>1 DEF Ledger
<1>9. /\ \A w \in Windows : w # m.window => Ledger(w)' = Ledger(w)
      /\ Ledger(m.window)' = Ledger(m.window) \cup {n + 1}
  <2>1. \A i : i \in 1..(n + 1) <=> i \in 1..n \/ i = n + 1 OBVIOUS
  <2>2. ASSUME NEW w \in Windows, w # m.window PROVE Ledger(w)' = Ledger(w)
    <3>1. \A i : i \in Ledger(w)' <=> i \in Ledger(w) BY <1>1, <1>8, <2>1, <2>2
    <3>. QED BY <3>1
  <2>3. Ledger(m.window)' = Ledger(m.window) \cup {n + 1}
    <3>1. \A i : i \in Ledger(m.window)' <=> i \in Ledger(m.window) \/ i = n + 1
      BY <1>1, <1>7, <1>8, <2>1
    <3>. QED BY <3>1
  <2>. QED BY <2>2, <2>3
<1>10. ASSUME NEW i \in 1..n PROVE Follows(i)'
  <2>1. windows[i].window \in Windows BY <1>2 DEF Manifests
  <2>2. windows'[i] = windows[i] BY <1>1
  <2>3. Earlier(i)' = Earlier(i)
    <3>1. PICK w \in Windows : w = windows[i].window BY <2>1
    <3>2. \A k : k \in Earlier(i)' <=> k \in Ledger(w)' /\ k < i
      BY <2>2, <3>1 DEF Earlier
    <3>3. \A k : k \in Earlier(i)' <=> k \in Ledger(w) /\ k < i
      <4>1. \A k : k \in Ledger(w)' <=> k \in Ledger(w) \/ (w = m.window /\ k = n + 1)
        BY <1>9
      <4>. QED BY <3>2, <4>1
    <3>4. \A k : k \in Earlier(i) <=> k \in Ledger(w) /\ k < i BY <3>1 DEF Earlier
    <3>. QED BY <3>3, <3>4
  <2>4. \A k \in Earlier(i) : windows'[k] = windows[k]
    BY <1>1, <1>8, <2>1 DEF Earlier
  <2>5. Follows(i) BY <1>0, <1>3 DEF LedgerInv
  <2>. QED BY <2>2, <2>3, <2>4, <2>5 DEF Follows
<1>11. Follows(n + 1)'
  <2>1. Earlier(n + 1)' = Ledger(m.window)
    <3>1. Earlier(n + 1)' = {k \in Ledger(m.window)' : k < n + 1} BY <1>1 DEF Earlier
    <3>2. \A k \in Ledger(m.window) : k < n + 1 BY <1>1, <1>7, <1>8
    <3>3. ~(n + 1 < n + 1) BY <1>1
    <3>. QED BY <1>7, <1>9, <3>1, <3>2, <3>3
  <2>2. CASE Ledger(m.window) = {}
    <3>1. m.revision = 1 BY <2>2 DEF Extends
    <3>2. Earlier(n + 1)' = {} BY <2>1, <2>2
    <3>3. IsFiniteSet({}) /\ Cardinality({}) = 0 BY FS_EmptySet
    <3>4. windows'[n + 1].revision = 0 + 1 BY <1>1, <3>1
    <3>. QED BY <3>2, <3>3, <3>4 DEF Follows
  <2>3. CASE Ledger(m.window) # {}
    <3>1. PICK j \in Ledger(m.window) :
              Latest(m.window) = windows[j] /\ \A k \in Ledger(m.window) : k <= j
      BY <1>7, <2>3, LatestRevision
    <3>2. /\ m.revision = windows[j].revision + 1 /\ m.end = windows[j].end
          /\ m.watermark >= windows[j].watermark
          /\ <<m.source, m.capacity>> # <<windows[j].source, windows[j].capacity>>
      BY <2>3, <3>1 DEF Extends, Continues
    <3>3. j \in 1..n /\ windows[j].window = m.window BY <1>7, <1>8
    <3>4. Follows(j) BY <1>0, <1>3, <3>3 DEF LedgerInv
    <3>5. Ledger(m.window) = Earlier(j) \cup {j} /\ j \notin Earlier(j)
      <4>1. \A k \in Ledger(m.window) : k \in Nat /\ (k < j \/ k = j)
        BY <1>7, <1>8, <3>1, <3>3
      <4>2. j \in Ledger(m.window) /\ j \in Nat BY <3>3
      <4>3. \A k : k \in Earlier(j) <=> k \in Ledger(m.window) /\ k < j
        BY <3>3 DEF Earlier
      <4>4. \A k : k \in Ledger(m.window) <=> k \in Earlier(j) \/ k = j
        BY <4>1, <4>2, <4>3
      <4>. QED BY <4>2, <4>3, <4>4
    <3>6. IsFiniteSet(Ledger(m.window))
          /\ Cardinality(Ledger(m.window)) = Cardinality(Earlier(j)) + 1
      BY <3>4, <3>5, FS_AddElement DEF Follows
    <3>7. m.revision = Cardinality(Ledger(m.window)) + 1 BY <3>2, <3>4, <3>6 DEF Follows
    <3>8. ASSUME NEW k \in Ledger(m.window)
          PROVE  /\ windows[k].end = m.end
                 /\ windows[k].watermark <= m.watermark
                 /\ windows[k].revision < m.revision
                 /\ windows[k].revision + 1 = m.revision =>
                       <<windows[k].source, windows[k].capacity>> # <<m.source, m.capacity>>
      <4>1. k \in 1..n BY <1>7, <1>8
      <4>2. CASE k = j BY <1>6, <1>7, <3>2, <3>3, <4>2
      <4>3. CASE k # j
        <5>1. k \in Earlier(j) BY <3>5, <4>3
        <5>2. /\ windows[k].end = windows[j].end
              /\ windows[k].watermark <= windows[j].watermark
              /\ windows[k].revision < windows[j].revision
          BY <3>4, <5>1 DEF Follows
        <5>. QED BY <1>6, <1>7, <3>2, <3>3, <4>1, <5>2
      <4>. QED BY <4>2, <4>3
    <3>9. \A k \in Ledger(m.window) : windows'[k] = windows[k] BY <1>1, <1>7, <1>8
    <3>. QED BY <1>1, <2>1, <3>6, <3>7, <3>8, <3>9 DEF Follows
  <2>. QED BY <2>2, <2>3
<1>12. ASSUME NEW i \in 1..(n + 1)
       PROVE  /\ windows'[i].policy = selectedPolicy.id
              /\ windows'[i].watermark < Expiry /\ windows'[i].watermark <= lastEventAt'
  <2>1. CASE i = n + 1 BY <1>1, <2>1
  <2>2. CASE i # n + 1
    <3>1. i \in 1..n /\ windows'[i] = windows[i] BY <1>1, <2>2
    <3>2. /\ windows[i].policy = selectedPolicy.id
          /\ windows[i].watermark < Expiry /\ windows[i].watermark <= lastEventAt
      BY <1>0, <1>3, <3>1 DEF LedgerInv
    <3>. QED BY <1>5, <1>6, <3>1, <3>2
  <2>. QED BY <2>1, <2>2
<1>13. ASSUME NEW w \in Windows, Ledger(w)' # {}
       PROVE  \E i \in Ledger(w)' : \A k \in Ledger(w)' : k <= i
  <2>1. CASE w = m.window
    <3>1. \A k \in Ledger(w)' : k <= n + 1 BY <1>1, <1>8
    <3>. QED BY <1>9, <2>1, <3>1
  <2>2. CASE w # m.window
    <3>1. Ledger(w)' = Ledger(w) BY <1>9, <2>2
    <3>. QED BY <1>3, <1>13, <3>1 DEF LedgerInv
  <2>. QED BY <2>1, <2>2
<1>14. \A i \in 1..(n + 1) : Follows(i)'
  <2>1. \A i \in 1..(n + 1) : i \in 1..n \/ i = n + 1 BY <1>1
  <2>. QED BY <1>10, <1>11, <2>1
<1>15. Len(windows') <= MaxRevisions BY <1>1, <1>4, <1>5
<1>. QED BY <1>1, <1>12, <1>13, <1>14, <1>15 DEF LedgerInv

\* An event that records neither a manifest nor a decision.
LEMMA EvidenceKept ==
  ASSUME ControllerInv, NEW at \in Instants, ExpirySafeEvent(at),
         UNCHANGED <<selectedPolicy, assessments, windows>>,
         Len(assessments) > 0 => developmentEvidence' = developmentEvidence,
         developmentEvidence' # None => collectionStarted'
  PROVE  /\ AssessmentInv' /\ LedgerInv'
         /\ \A status : LatestWindowIs(status)' <=> LatestWindowIs(status)
<1>1. AssessmentInv' BY EventFacts, AssessmentsKept
<1>2. LedgerInv' BY EventFacts, LedgerKept
<1>3. \A status : LatestWindowIs(status)' <=> LatestWindowIs(status)
  BY DEF LatestWindowIs, Latest, Ledger
<1>. QED BY <1>1, <1>2, <1>3

\* The observation of a deployment stays later than nothing and before all.
LEMMA DeployKept ==
  ASSUME ControllerInv, NEW at \in Instants, ExpirySafeEvent(at),
         UNCHANGED deploymentObservation,
         Len(assessments) > 2 =>
             /\ selectedPolicy' = selectedPolicy /\ Len(assessments') >= Len(assessments)
             /\ \A i \in 1..Len(assessments) : assessments'[i] = assessments[i],
         Len(assessments') \in Nat,
         Deployed => state' \in {"MONITORING", "HOLD", "ROLLBACK_RECOMMENDED", "STALE",
                                 "RETIRED"}
  PROVE  DeployInv'
<1> SUFFICES ASSUME Deployed PROVE DeployInv'
  BY DEF DeployInv, Deployed
<1>1. DeployInv /\ Len(assessments) \in Nat BY DEF ControllerInv, Typed
<1>2. PICK i \in 3..Len(assessments) : assessments[i].status = "PASS" BY <1>1 DEF DeployInv
<1>3. i \in 3..Len(assessments') /\ assessments'[i].status = "PASS" BY <1>1, <1>2
<1>4. /\ deploymentObservation \in Observations BY DEF ControllerInv, Typed, Deployed
<1>5. deploymentObservation.observedAt \in Nat
  BY <1>4, ControllerAssumption DEF Observations, Instants
<1>6. deploymentObservation.observedAt <= lastEventAt' BY <1>1, <1>5, EventFacts DEF DeployInv
<1>. QED BY <1>1, <1>2, <1>3, <1>6 DEF DeployInv

-----------------------------------------------------------------------------
(* The commands keep the invariant.                                        *)

LEMMA RegisterKeepsInv ==
  ASSUME ControllerInv, NEW at \in Instants, RegisterController(at)
  PROVE  ControllerInv'
<1> USE DEF RegisterController, Event
<1>1. AssessmentInv' /\ LedgerInv'
  <2>1. developmentEvidence # None => collectionStarted BY DEF ControllerInv, AssessmentInv
  <2>. QED BY <2>1, EvidenceKept
<1>2. Len(assessments) = 0 /\ sequence = 0 /\ ~collectionStarted
  BY DEF ControllerInv, StateInv
<1>3. DeployInv' BY <1>2, DeployKept DEF ControllerInv, DeployInv
<1>4. Typed' BY EventFacts DEF ControllerInv, Typed, States
<1>5. StateInv' BY <1>2, EventFacts DEF StateInv
<1>6. CoherentTime' BY EventFacts DEF ControllerInv, CoherentTime
<1>. QED BY <1>1, <1>3, <1>4, <1>5, <1>6 DEF ControllerInv

LEMMA StartCollectionKeepsInv ==
  ASSUME ControllerInv, NEW at \in Instants, StartCollection(at)
  PROVE  ControllerInv'
<1> USE DEF StartCollection, Event
<1>1. AssessmentInv' /\ LedgerInv' BY EvidenceKept
<1>2. Len(assessments) = 0 /\ sequence = 1 /\ developmentEvidence = None
  BY DEF ControllerInv, StateInv, AssessmentInv
<1>3. DeployInv' BY <1>2, DeployKept DEF ControllerInv, DeployInv
<1>4. Typed' BY EventFacts DEF ControllerInv, Typed, States
<1>5. StateInv' BY <1>2, EventFacts DEF StateInv
<1>6. CoherentTime' BY EventFacts DEF ControllerInv, CoherentTime
<1>. QED BY <1>1, <1>3, <1>4, <1>5, <1>6 DEF ControllerInv

LEMMA MarkReadyKeepsInv ==
  ASSUME ControllerInv, NEW at \in Instants, NEW source \in Sources,
         MarkDevelopmentReady(source, at)
  PROVE  ControllerInv'
<1> USE DEF MarkDevelopmentReady, Event
<1>1. Len(assessments) = 0 /\ sequence = 2 /\ collectionStarted
  BY DEF ControllerInv, StateInv
<1>2. AssessmentInv' /\ LedgerInv' BY <1>1, EvidenceKept
<1>3. DeployInv' BY <1>1, DeployKept DEF ControllerInv, DeployInv
<1>4. Typed' BY EventFacts DEF ControllerInv, Typed, States
<1>5. StateInv' BY <1>1, EventFacts, NoneAssumption DEF StateInv
<1>6. CoherentTime' BY EventFacts DEF ControllerInv, CoherentTime
<1>. QED BY <1>2, <1>3, <1>4, <1>5, <1>6 DEF ControllerInv

LEMMA StartShadowKeepsInv ==
  ASSUME ControllerInv, NEW at \in Instants, StartShadowAssessment(at)
  PROVE  ControllerInv'
<1> USE DEF StartShadowAssessment, Event
<1>1. AssessmentInv' /\ LedgerInv'
  <2>1. developmentEvidence # None => collectionStarted BY DEF ControllerInv, AssessmentInv
  <2>. QED BY <2>1, EvidenceKept
<1>2. /\ Len(assessments) = 1 /\ assessments[1].status = "NOMINATED"
      /\ sequence = 4 /\ Len(windows) = 0
  BY DEF ControllerInv, StateInv
<1>3. DeployInv' BY <1>2, DeployKept DEF ControllerInv, DeployInv
<1>4. Typed' BY EventFacts DEF ControllerInv, Typed, States
<1>5. StateInv' BY <1>2, EventFacts DEF StateInv
<1>6. CoherentTime' BY EventFacts DEF ControllerInv, CoherentTime
<1>. QED BY <1>1, <1>3, <1>4, <1>5, <1>6 DEF ControllerInv

LEMMA RetireKeepsInv ==
  ASSUME ControllerInv, NEW at \in Instants, RetireController(at)
  PROVE  ControllerInv'
<1> USE DEF RetireController
<1>1. AssessmentInv' /\ LedgerInv'
  <2>1. developmentEvidence # None => collectionStarted BY DEF ControllerInv, AssessmentInv
  <2>. QED BY <2>1, EvidenceKept
<1>2. Len(assessments) \in Nat BY DEF ControllerInv, Typed
<1>3. DeployInv' BY <1>2, DeployKept
<1>4. Typed' BY EventFacts DEF ControllerInv, Typed, States
<1>5. StateInv' BY EventFacts DEF StateInv
<1>6. CoherentTime' BY DEF ControllerInv, CoherentTime
<1>. QED BY <1>1, <1>3, <1>4, <1>5, <1>6 DEF ControllerInv

LEMMA StaleKeepsInv ==
  ASSUME ControllerInv, NEW at \in Instants, ExpirySafeEvent(at), NEW reason, Stale(reason)
  PROVE  ControllerInv'
<1> USE DEF Stale
<1>1. AssessmentInv' /\ LedgerInv'
  <2>1. developmentEvidence # None => collectionStarted BY DEF ControllerInv, AssessmentInv
  <2>. QED BY <2>1, EvidenceKept
<1>2. Len(assessments) \in Nat BY DEF ControllerInv, Typed
<1>3. DeployInv' BY <1>2, DeployKept
<1>4. Typed' BY EventFacts DEF ControllerInv, Typed, States
<1>5. StateInv' BY EventFacts DEF StateInv
<1>6. CoherentTime' BY DEF ControllerInv, CoherentTime
<1>. QED BY <1>1, <1>3, <1>4, <1>5, <1>6 DEF ControllerInv

LEMMA ObservationKeepsInv ==
  ASSUME ControllerInv, NEW at \in Instants, NEW o \in Observations,
         RecordDeploymentObservation(o, at)
  PROVE  ControllerInv'
<1> USE DEF RecordDeploymentObservation, Event
<1>1. AssessmentInv' /\ LedgerInv'
  <2>1. developmentEvidence # None => collectionStarted BY DEF ControllerInv, AssessmentInv
  <2>. QED BY <2>1, EvidenceKept
<1>2. /\ Len(assessments) \in Nat /\ Len(assessments) > 2
      /\ assessments[2].status = "PASS" /\ LatestWindowIs("PASS") /\ ~Deployed
      /\ sequence = 4 + Len(windows) + Len(assessments) /\ Len(windows) \in Nat
  BY DEF ControllerInv, StateInv, Typed, DeployInv
<1>3. Deployed' BY NoneAssumption DEF Deployed
<1>4. DeployInv'
  <2>1. Len(assessments) \in 3..Len(assessments) BY <1>2
  <2>2. assessments[Len(assessments)].status = "PASS" BY <1>2 DEF LatestWindowIs
  <2>3. o.observedAt < Expiry /\ o.observedAt <= lastEventAt'
    <3>1. o.observedAt \in Nat /\ Expiry \in Nat
      BY ControllerAssumption DEF Observations, Instants
    <3>. QED BY <3>1, EventFacts
  <2>. QED BY <1>2, <2>1, <2>2, <2>3 DEF DeployInv
<1>5. Typed' BY EventFacts DEF ControllerInv, Typed, States
<1>6. StateInv' BY <1>2, <1>3, EventFacts DEF StateInv
<1>7. CoherentTime' BY EventFacts DEF ControllerInv, CoherentTime
<1>. QED BY <1>1, <1>4, <1>5, <1>6, <1>7 DEF ControllerInv

LEMMA ManifestKeepsInv ==
  ASSUME ControllerInv, NEW at \in Instants, NEW m \in Manifests, RecordWindowManifest(m, at)
  PROVE  ControllerInv'
<1> USE DEF RecordWindowManifest, Event
<1>1. /\ Len(assessments) \in Nat /\ Len(assessments) > 0 /\ selectedPolicy # None
      /\ windows \in Seq(Manifests) /\ Len(windows) \in Nat
  BY DEF ControllerInv, StateInv, AssessmentInv, Typed
<1>2. AssessmentInv'
  <2>1. developmentEvidence # None => collectionStarted BY DEF ControllerInv, AssessmentInv
  <2>. QED BY <2>1, EventFacts, AssessmentsKept
<1>3. LedgerInv' /\ windows' \in Seq(Manifests)
  <2>1. m.watermark \in Nat /\ Expiry \in Nat BY ControllerAssumption DEF Manifests, Instants
  <2>2. m.watermark < Expiry /\ m.watermark <= lastEventAt' BY <2>1, EventFacts
  <2>. QED BY <1>1, <2>2, EventFacts, ManifestAdded
<1>4. Len(windows') = Len(windows) + 1 BY <1>1
<1>5. DeployInv'
  <2>1. Deployed => state = "MONITORING" BY DEF ControllerInv, DeployInv
  <2>. QED BY <1>1, <2>1, DeployKept
<1>6. Typed' BY <1>1, <1>3, <1>4, EventFacts DEF ControllerInv, Typed, States
<1>7. StateInv'
  <2>1. CASE state = "SHADOW_ASSESSING" BY <1>1, <1>4, <2>1, EventFacts DEF ControllerInv, StateInv
  <2>2. CASE state \in {"HOLDOUT_CONFIRMED", "PROMOTION_RECOMMENDED"}
    BY <1>1, <1>4, <2>2, EventFacts DEF ControllerInv, StateInv
  <2>3. CASE state = "MONITORING"
    BY <1>1, <1>4, <2>3, EventFacts DEF ControllerInv, StateInv, Deployed
  <2>. QED BY <2>1, <2>2, <2>3
<1>8. CoherentTime' BY EventFacts DEF ControllerInv, CoherentTime
<1>. QED BY <1>2, <1>3, <1>5, <1>6, <1>7, <1>8 DEF ControllerInv

\* What recording a decision does, result by result.
LEMMA Recorded ==
  ASSUME ControllerInv, NEW d \in Decisions, NEW onPass, NEW onHold, Record(d, onPass, onHold)
  PROVE  /\ Admissible(d) /\ assessments' = Append(assessments, d)
         /\ assessments' \in Seq(Decisions)
         /\ Len(assessments) \in Nat /\ Len(assessments') = Len(assessments) + 1
         /\ assessments'[Len(assessments')] = d /\ judged' = Len(windows)
         /\ \A i \in 1..Len(assessments) : assessments'[i] = assessments[i]
         /\ d.status \in {"NOMINATED", "PASS"} => state' = onPass /\ staleReasons' = staleReasons
         /\ d.status = "STALE" => state' = "STALE" /\ staleReasons' # {}
         /\ d.status = "HOLD" => state' = onHold /\ staleReasons' = staleReasons
         /\ d.status \in {"NO_CANDIDATE", "INSUFFICIENT_EVIDENCE"} =>
                state' = "HOLD" /\ staleReasons' = staleReasons
<1>1. assessments \in Seq(Decisions) BY DEF ControllerInv, Typed
<1>2. /\ Admissible(d) /\ assessments' = Append(assessments, d) /\ judged' = Len(windows)
  BY DEF Record
<1>3. /\ assessments' \in Seq(Decisions)
      /\ Len(assessments) \in Nat /\ Len(assessments') = Len(assessments) + 1
      /\ assessments'[Len(assessments')] = d
      /\ \A i \in 1..Len(assessments) : assessments'[i] = assessments[i]
  BY <1>1, <1>2
<1>4. /\ d.status \in {"NOMINATED", "PASS"} => state' = onPass /\ staleReasons' = staleReasons
      /\ d.status = "STALE" => state' = "STALE" /\ staleReasons' # {}
      /\ d.status = "HOLD" => state' = onHold /\ staleReasons' = staleReasons
      /\ d.status \in {"NO_CANDIDATE", "INSUFFICIENT_EVIDENCE"} =>
             state' = "HOLD" /\ staleReasons' = staleReasons
  BY DEF Record
<1>. QED BY <1>2, <1>3, <1>4

LEMMA DevelopmentKeepsInv ==
  ASSUME ControllerInv, NEW at \in Instants, NEW d \in DevelopmentDecisions,
         RecordDevelopmentAssessment(d, at)
  PROVE  ControllerInv'
<1> USE DEF RecordDevelopmentAssessment, Event
<1>1. /\ d \in Decisions /\ d.phase = "development"
      /\ d.status \in {"NOMINATED", "NO_CANDIDATE", "INSUFFICIENT_EVIDENCE", "STALE"}
      /\ d.policy \in Policies \cup {None} /\ (d.policy # None <=> d.status = "NOMINATED")
  BY DecisionFields
<1>2. /\ Len(assessments) = 0 /\ sequence = 3 /\ developmentEvidence # None
      /\ Len(windows) = 0
  BY DEF ControllerInv, StateInv, LedgerInv, AssessmentInv, Typed
<1>3. /\ assessments' \in Seq(Decisions) /\ Len(assessments') = 1 /\ assessments'[1] = d
      /\ judged' = 0
  BY <1>1, <1>2, Recorded
<1>4. AssessmentInv'
  <2>1. d.policy # None => d.policy.issuedAt <= lastEventAt' BY EventFacts
  <2>2. Admissible(d) /\ assessments' = Append(assessments, d) BY <1>1, Recorded
  <2>. QED BY <1>1, <1>2, <2>1, <2>2, EventFacts, AssessmentAdded DEF PhaseAt
<1>5. LedgerInv' BY <1>2, EventFacts, LedgerKept
<1>6. ~Deployed /\ ~Deployed' BY <1>2 DEF ControllerInv, DeployInv, Deployed
<1>7. DeployInv' BY <1>6 DEF DeployInv
<1>8. /\ d.status = "NOMINATED" => state' = "NOMINATED" /\ staleReasons' = staleReasons
      /\ d.status = "STALE" => state' = "STALE" /\ staleReasons' # {}
      /\ d.status \in {"NO_CANDIDATE", "INSUFFICIENT_EVIDENCE"} =>
             state' = "HOLD" /\ staleReasons' = staleReasons
  BY <1>1, Recorded
<1>9. Typed' BY <1>1, <1>2, <1>3, <1>8, EventFacts DEF ControllerInv, Typed, States
<1>10. StateInv' BY <1>1, <1>2, <1>3, <1>6, <1>8, EventFacts DEF StateInv
<1>11. CoherentTime' BY <1>1, <1>8, EventFacts DEF ControllerInv, CoherentTime
<1>. QED BY <1>4, <1>5, <1>7, <1>9, <1>10, <1>11 DEF ControllerInv

LEMMA HoldoutKeepsInv ==
  ASSUME ControllerInv, NEW at \in Instants, NEW d \in HoldoutDecisions,
         RecordHoldoutAssessment(d, at)
  PROVE  ControllerInv'
<1> USE DEF RecordHoldoutAssessment, Event
<1>1. d \in Decisions /\ d.phase = "holdout" /\ d.status \in Verdicts BY DecisionFields
<1>2. /\ Len(assessments) = 1 /\ assessments[1].status = "NOMINATED"
      /\ sequence = 5 + Len(windows) /\ Len(windows) \in Nat /\ selectedPolicy # None
  <2>1. /\ Len(assessments) = 1 /\ assessments[1].status = "NOMINATED"
        /\ sequence = 5 + Len(windows)
    BY DEF ControllerInv, StateInv
  <2>2. selectedPolicy # None BY <2>1 DEF ControllerInv, AssessmentInv
  <2>. QED BY <2>1, <2>2 DEF ControllerInv, Typed
<1>3. /\ assessments' \in Seq(Decisions) /\ Len(assessments') = 2 /\ assessments'[2] = d
      /\ judged' = Len(windows)
  BY <1>1, <1>2, Recorded
<1>4. AssessmentInv'
  <2>1. Admissible(d) /\ assessments' = Append(assessments, d) BY <1>1, Recorded
  <2>. QED BY <1>1, <1>2, <2>1, EventFacts, AssessmentAdded DEF PhaseAt
<1>5. LedgerInv' BY EventFacts, LedgerKept
<1>6. ~Deployed /\ ~Deployed' BY <1>2 DEF ControllerInv, DeployInv, Deployed
<1>7. DeployInv' BY <1>6 DEF DeployInv
<1>8. /\ d.status = "PASS" => state' = "HOLDOUT_CONFIRMED" /\ staleReasons' = staleReasons
      /\ d.status = "STALE" => state' = "STALE" /\ staleReasons' # {}
      /\ d.status \in {"HOLD", "INSUFFICIENT_EVIDENCE"} =>
             state' = "HOLD" /\ staleReasons' = staleReasons
  BY <1>1, Recorded
<1>9. Typed' BY <1>1, <1>2, <1>3, <1>8, EventFacts DEF ControllerInv, Typed, States, Verdicts
<1>10. StateInv' BY <1>1, <1>2, <1>3, <1>6, <1>8, EventFacts DEF StateInv, Verdicts
<1>11. CoherentTime' BY <1>1, <1>8, EventFacts DEF ControllerInv, CoherentTime, Verdicts
<1>. QED BY <1>4, <1>5, <1>7, <1>9, <1>10, <1>11 DEF ControllerInv

LEMMA WindowKeepsInv ==
  ASSUME ControllerInv, NEW at \in Instants, NEW i \in DOMAIN windows,
         NEW d \in WindowDecisions(windows[i]), RecordWindowAssessment(d, at)
  PROVE  ControllerInv'
<1>0. /\ state \in {"HOLDOUT_CONFIRMED", "MONITORING"} /\ d.policy = selectedPolicy
      /\ d.manifest = Latest(d.manifest.window) /\ d.source = d.manifest.source
      /\ UNCHANGED <<collectionStarted, developmentEvidence, selectedPolicy, windows,
                     deploymentObservation>>
      /\ at < Expiry /\ ExpirySafeEvent(at)
  BY DEF RecordWindowAssessment, Event
<1>e. /\ sequence' = sequence + 1 /\ sequence' \in Nat /\ sequence' > 0
      /\ lastEventAt' = at /\ lastEventAt' \in Instants
      /\ lastEventAt <= lastEventAt' /\ lastEventAt \in Nat /\ at \in Nat
  BY <1>0, EventFacts
<1>1. /\ d \in Decisions /\ d.phase = "window" /\ d.status \in Verdicts
      /\ d.manifest = windows[i] /\ i \in 1..Len(windows)
  <2>1. windows[i] \in Manifests /\ i \in 1..Len(windows) BY DEF ControllerInv, Typed
  <2>. QED BY <2>1, DecisionFields
<1>2. /\ Len(assessments) \in Nat /\ Len(assessments) > 1 /\ Len(windows) \in Nat
      /\ assessments[1].status = "NOMINATED" /\ assessments[2].status = "PASS"
      /\ selectedPolicy # None
      /\ state = "MONITORING" => sequence = 5 + Len(windows) + Len(assessments) /\ Deployed
      /\ state = "HOLDOUT_CONFIRMED" => sequence = 4 + Len(windows) + Len(assessments)
      /\ state = "HOLDOUT_CONFIRMED" => ~Deployed
  <2>1. StateInv /\ AssessmentInv /\ DeployInv BY DEF ControllerInv
  <2>2. Len(assessments) \in Nat /\ Len(windows) \in Nat BY DEF ControllerInv, Typed
  <2>3. /\ Len(assessments) > 1 /\ assessments[2].status = "PASS"
        /\ state = "MONITORING" => sequence = 5 + Len(windows) + Len(assessments) /\ Deployed
        /\ state = "HOLDOUT_CONFIRMED" => sequence = 4 + Len(windows) + Len(assessments)
    BY <1>0, <2>1 DEF StateInv
  <2>4. assessments[1].status = "NOMINATED" BY <2>1, <2>3 DEF AssessmentInv
  <2>5. selectedPolicy # None BY <2>1, <2>2, <2>3, <2>4 DEF AssessmentInv
  <2>6. state = "HOLDOUT_CONFIRMED" => ~Deployed BY <2>1 DEF DeployInv
  <2>. QED BY <2>2, <2>3, <2>4, <2>5, <2>6
<1>3. PICK onPass, onHold : /\ Record(d, onPass, onHold)
                            /\ state = "MONITORING" => onPass = "MONITORING"
                                                       /\ onHold = "ROLLBACK_RECOMMENDED"
                            /\ state = "HOLDOUT_CONFIRMED" => onPass = "PROMOTION_RECOMMENDED"
                                                              /\ onHold = "HOLD"
  BY DEF RecordWindowAssessment
<1>4. /\ Admissible(d) /\ assessments' = Append(assessments, d)
      /\ assessments' \in Seq(Decisions) /\ Len(assessments') = Len(assessments) + 1
      /\ assessments'[Len(assessments')] = d /\ judged' = Len(windows)
      /\ \A k \in 1..Len(assessments) : assessments'[k] = assessments[k]
  BY <1>1, <1>3, Recorded
<1>5. AssessmentInv'
  <2>1. \E k \in 1..Len(windows) : windows[k] = d.manifest /\ windows[k].source = d.source
    BY <1>0, <1>1
  <2>2. d.phase = PhaseAt(Len(assessments) + 1) BY <1>1, <1>2 DEF PhaseAt
  <2>3. Len(assessments) # 0 /\ Len(assessments) # 1 BY <1>2
  <2>. QED BY <1>0, <1>1, <1>2, <1>4, <2>1, <2>2, <2>3, <1>e, AssessmentAdded
<1>6. LedgerInv' BY <1>0, <1>e, LedgerKept
<1>7. /\ d.status = "PASS" => state' = onPass /\ staleReasons' = staleReasons
      /\ d.status = "STALE" => state' = "STALE" /\ staleReasons' # {}
      /\ d.status = "HOLD" => state' = onHold /\ staleReasons' = staleReasons
      /\ d.status = "INSUFFICIENT_EVIDENCE" => state' = "HOLD" /\ staleReasons' = staleReasons
  BY <1>1, <1>3, Recorded
<1>8. \A status : d.status = status => LatestWindowIs(status)'
  <2>1. assessments' # <<>> BY <1>2, <1>4
  <2>2. Latest(d.manifest.window)' = Latest(d.manifest.window) BY <1>0 DEF Latest, Ledger
  <2>. QED BY <1>0, <1>1, <1>4, <2>1, <2>2 DEF LatestWindowIs
<1>9. assessments'[2].status = "PASS" /\ Len(assessments') > 2 BY <1>2, <1>4
<1>10. DeployInv'
  <2>1. Deployed => state' \in {"MONITORING", "HOLD", "ROLLBACK_RECOMMENDED", "STALE", "RETIRED"}
    BY <1>0, <1>1, <1>2, <1>3, <1>7 DEF Verdicts
  <2>. QED BY <1>0, <1>2, <1>4, <2>1, DeployKept
<1>11. Typed'
  BY <1>0, <1>1, <1>2, <1>3, <1>4, <1>7, <1>e DEF ControllerInv, Typed, States, Verdicts
<1>12. StateInv'
  <2>1. Deployed' = Deployed BY <1>0 DEF Deployed
  <2>2. Len(windows') = Len(windows) /\ selectedPolicy' # None BY <1>0, <1>2
  <2>3. CASE d.status = "STALE" BY <1>7, <1>e, <2>3 DEF StateInv
  <2>4. CASE state' = "HOLD"
    <3>1. d.status \in {"HOLD", "INSUFFICIENT_EVIDENCE"}
      BY <1>0, <1>1, <1>3, <1>7, <2>4 DEF Verdicts
    <3>2. sequence' = 4 + Len(assessments') + Len(windows') + (IF Deployed' THEN 1 ELSE 0)
      <4>1. CASE state = "MONITORING" BY <1>2, <1>4, <1>e, <2>1, <2>2, <4>1
      <4>2. CASE state = "HOLDOUT_CONFIRMED" BY <1>2, <1>4, <1>e, <2>1, <2>2, <4>2
      <4>. QED BY <1>0, <4>1, <4>2
    <3>. QED BY <1>4, <1>9, <2>2, <2>4, <3>1, <3>2 DEF StateInv
  <2>5. CASE d.status = "PASS"
    <3>1. CASE state = "MONITORING"
      BY <1>2, <1>3, <1>4, <1>7, <1>9, <1>e, <2>1, <2>2, <2>5, <3>1 DEF StateInv
    <3>2. CASE state = "HOLDOUT_CONFIRMED"
      BY <1>2, <1>3, <1>4, <1>7, <1>8, <1>9, <1>e, <2>1, <2>2, <2>5, <3>2 DEF StateInv
    <3>. QED BY <1>0, <3>1, <3>2
  <2>6. CASE d.status = "HOLD" /\ state = "MONITORING"
    BY <1>2, <1>3, <1>4, <1>7, <1>8, <1>9, <1>e, <2>1, <2>2, <2>6 DEF StateInv
  <2>. QED BY <1>0, <1>1, <1>3, <1>7, <2>3, <2>4, <2>5, <2>6 DEF Verdicts
<1>13. CoherentTime'
  BY <1>0, <1>1, <1>3, <1>7, <1>e DEF ControllerInv, CoherentTime, Verdicts
<1>. QED BY <1>5, <1>6, <1>10, <1>11, <1>12, <1>13 DEF ControllerInv

LEMMA InitMakesInv == Init => ControllerInv
<1> SUFFICES ASSUME Init PROVE ControllerInv
  OBVIOUS
<1> USE DEF Init
<1>1. Typed BY ControllerAssumption DEF Typed, States, Instants
<1>2. AssessmentInv BY DEF AssessmentInv
<1>3. LedgerInv BY ControllerAssumption DEF LedgerInv, Ledger
<1>4. DeployInv BY DEF DeployInv, Deployed
<1>5. StateInv BY DEF StateInv
<1>6. CoherentTime BY ControllerAssumption DEF CoherentTime
<1>. QED BY <1>1, <1>2, <1>3, <1>4, <1>5, <1>6 DEF ControllerInv

LEMMA NextKeepsInv == ControllerInv /\ [Next]_vars => ControllerInv'
<1> SUFFICES ASSUME ControllerInv, [Next]_vars PROVE ControllerInv'
  OBVIOUS
<1>1. CASE Next
  <2>1. PICK at \in Instants :
            \/ RegisterController(at)
            \/ StartCollection(at)
            \/ \E source \in Sources : MarkDevelopmentReady(source, at)
            \/ \E d \in DevelopmentDecisions : RecordDevelopmentAssessment(d, at)
            \/ StartShadowAssessment(at)
            \/ \E d \in HoldoutDecisions : RecordHoldoutAssessment(d, at)
            \/ \E m \in Manifests : RecordWindowManifest(m, at)
            \/ \E i \in DOMAIN windows :
                  \E d \in WindowDecisions(windows[i]) : RecordWindowAssessment(d, at)
            \/ \E o \in Observations : RecordDeploymentObservation(o, at)
            \/ \E reason \in DriftReasons : RecordIdentityDrift(reason, at)
            \/ ObserveProtocolTime(at)
            \/ RetireController(at)
    BY <1>1 DEF Next
  <2>2. CASE RegisterController(at) BY <2>2, RegisterKeepsInv
  <2>3. CASE StartCollection(at) BY <2>3, StartCollectionKeepsInv
  <2>4. CASE \E source \in Sources : MarkDevelopmentReady(source, at)
    BY <2>4, MarkReadyKeepsInv
  <2>5. CASE \E d \in DevelopmentDecisions : RecordDevelopmentAssessment(d, at)
    BY <2>5, DevelopmentKeepsInv
  <2>6. CASE StartShadowAssessment(at) BY <2>6, StartShadowKeepsInv
  <2>7. CASE \E d \in HoldoutDecisions : RecordHoldoutAssessment(d, at)
    BY <2>7, HoldoutKeepsInv
  <2>8. CASE \E m \in Manifests : RecordWindowManifest(m, at) BY <2>8, ManifestKeepsInv
  <2>9. CASE \E i \in DOMAIN windows :
                \E d \in WindowDecisions(windows[i]) : RecordWindowAssessment(d, at)
    BY <2>9, WindowKeepsInv
  <2>10. CASE \E o \in Observations : RecordDeploymentObservation(o, at)
    BY <2>10, ObservationKeepsInv
  <2>11. CASE \E reason \in DriftReasons : RecordIdentityDrift(reason, at)
    BY <2>11, StaleKeepsInv DEF RecordIdentityDrift
  <2>12. CASE ObserveProtocolTime(at) BY <2>12, StaleKeepsInv DEF ObserveProtocolTime
  <2>13. CASE RetireController(at) BY <2>13, RetireKeepsInv
  <2>. QED BY <2>1, <2>2, <2>3, <2>4, <2>5, <2>6, <2>7, <2>8, <2>9, <2>10, <2>11, <2>12, <2>13
<1>2. CASE UNCHANGED vars
  <2> USE <1>2 DEF vars
  <2>1. \A i : Follows(i)' <=> Follows(i) BY DEF Follows, Earlier, Ledger
  <2>2. \A w : Ledger(w)' = Ledger(w) BY DEF Ledger
  <2>3. \A status : LatestWindowIs(status)' <=> LatestWindowIs(status)
    BY DEF LatestWindowIs, Latest, Ledger
  <2>4. Typed' /\ AssessmentInv' BY DEF ControllerInv, Typed, AssessmentInv
  <2>5. LedgerInv' BY <2>1, <2>2 DEF ControllerInv, LedgerInv
  <2>6. DeployInv' BY DEF ControllerInv, DeployInv, Deployed
  <2>7. StateInv' BY <2>3 DEF ControllerInv, StateInv, Deployed
  <2>8. CoherentTime' BY DEF ControllerInv, CoherentTime
  <2>. QED BY <2>4, <2>5, <2>6, <2>7, <2>8 DEF ControllerInv
<1>. QED BY <1>1, <1>2

\* No accepted sequence of commands leads to a snapshot that the validator, which
\* loads it the next time, refuses (applyParsedControllerEvent and
\* assertSnapshotBodySemantics).
THEOREM SnapshotsCoherent == Spec => []Coherent
<1>. QED BY InitMakesInv, NextKeepsInv, InvImpliesCoherent, PTL DEF Spec

-----------------------------------------------------------------------------
(* The commands implement the lifecycle.                                   *)

Observed == deploymentObservation # None

\* An evidence that is not a window's pass is not current.
LEMMA NotCurrent ==
  ASSUME ControllerInv, Len(assessments) < 3
  PROVE  Current = FALSE
<1>1. assessments = <<>> \/ Len(assessments) \in 1..2
  <2>1. assessments \in Seq(Decisions) /\ Len(assessments) \in Nat BY DEF ControllerInv, Typed
  <2>2. Len(assessments) = 0 => assessments = <<>> BY <2>1
  <2>3. PICK n \in Nat : n = Len(assessments) BY <2>1
  <2>4. n = 0 \/ n \in 1..2 BY <2>3
  <2>. QED BY <2>2, <2>3, <2>4
<1>2. ASSUME Len(assessments) \in 1..2
      PROVE  assessments[Len(assessments)].phase # "window"
  BY <1>2 DEF ControllerInv, AssessmentInv, PhaseAt
<1>. QED BY <1>1, <1>2 DEF Current, LatestWindowIs

\* Where neither decisions nor manifests are recorded, what is current stays so.
LEMMA CurrentKept ==
  ASSUME UNCHANGED <<assessments, windows, judged>>
  PROVE  Current' = Current
BY DEF Current, LatestWindowIs, Latest, Ledger

\* A step that leaves stage, evidence and deployment alone is a stutter.
LEMMA Stutters ==
  ASSUME Stage' = Stage, Current' = Current, UNCHANGED deploymentObservation
  PROVE  UNCHANGED Lifecycle!lifecycleVars
BY DEF Lifecycle!lifecycleVars

LEMMA InitialStage == Init => Lifecycle!LifecycleInit
BY DEF Init, Lifecycle!LifecycleInit, Stage, Current, LatestWindowIs

LEMMA PreparingStutters ==
  ASSUME ControllerInv, NEW at \in Instants,
         \/ RegisterController(at) \/ StartCollection(at) \/ StartShadowAssessment(at)
         \/ \E source \in Sources : MarkDevelopmentReady(source, at)
  PROVE  UNCHANGED Lifecycle!lifecycleVars
<1>1. /\ UNCHANGED <<assessments, windows, judged, deploymentObservation>>
      /\ state \in {"DRAFT", "REGISTERED", "COLLECTING", "NOMINATED"}
      /\ state' \in {"REGISTERED", "COLLECTING", "DEV_READY", "SHADOW_ASSESSING"}
  BY DEF RegisterController, StartCollection, StartShadowAssessment, MarkDevelopmentReady
<1>2. Stage = "preparing" /\ Stage' = "preparing" BY <1>1 DEF Stage
<1>. QED BY <1>1, <1>2, CurrentKept, Stutters

LEMMA DevelopmentSteps ==
  ASSUME ControllerInv, NEW at \in Instants, NEW d \in DevelopmentDecisions,
         RecordDevelopmentAssessment(d, at)
  PROVE  [Lifecycle!LifecycleNext]_(Lifecycle!lifecycleVars)
<1>1. /\ state = "DEV_READY" /\ UNCHANGED deploymentObservation
      /\ Record(d, "NOMINATED", "HOLD") /\ d \in Decisions
  BY DecisionFields DEF RecordDevelopmentAssessment
<1>2. Len(assessments) = 0 BY <1>1 DEF ControllerInv, StateInv
<1>3. assessments'[Len(assessments')].phase # "window" BY <1>1, DecisionFields, Recorded
<1>4. Current = FALSE /\ Current' = FALSE
  <2>1. Current = FALSE BY <1>2, NotCurrent
  <2>2. Current' = FALSE BY <1>3 DEF Current, LatestWindowIs
  <2>. QED BY <2>1, <2>2
<1>5. Stage = "preparing" BY <1>1 DEF Stage
<1>6. state' \in {"NOMINATED", "HOLD", "STALE"} BY <1>1, DecisionFields, Recorded
<1>7. CASE state' = "NOMINATED"
  <2>1. Stage' = "preparing" BY <1>7 DEF Stage
  <2>. QED BY <1>1, <1>4, <1>5, <2>1, Stutters
<1>8. CASE state' = "HOLD"
  <2>1. Stage' = "held" BY <1>8 DEF Stage
  <2>. QED BY <1>1, <1>4, <1>5, <2>1 DEF Lifecycle!LifecycleNext, Lifecycle!Hold
<1>9. CASE state' = "STALE"
  <2>1. Stage' = "stale" BY <1>9 DEF Stage
  <2>. QED BY <1>1, <1>4, <1>5, <2>1 DEF Lifecycle!LifecycleNext, Lifecycle!GoStale
<1>. QED BY <1>6, <1>7, <1>8, <1>9

LEMMA HoldoutSteps ==
  ASSUME ControllerInv, NEW at \in Instants, NEW d \in HoldoutDecisions,
         RecordHoldoutAssessment(d, at)
  PROVE  [Lifecycle!LifecycleNext]_(Lifecycle!lifecycleVars)
<1>1. /\ state = "SHADOW_ASSESSING" /\ UNCHANGED deploymentObservation
      /\ Record(d, "HOLDOUT_CONFIRMED", "HOLD") /\ d \in Decisions /\ d.status \in Verdicts
  BY DecisionFields DEF RecordHoldoutAssessment
<1>2. Len(assessments) = 1 BY <1>1 DEF ControllerInv, StateInv
<1>3. assessments'[Len(assessments')].phase # "window" BY <1>1, DecisionFields, Recorded
<1>4. Current = FALSE /\ Current' = FALSE
  <2>1. Current = FALSE BY <1>2, NotCurrent
  <2>2. Current' = FALSE BY <1>3 DEF Current, LatestWindowIs
  <2>. QED BY <2>1, <2>2
<1>5. Stage = "preparing" BY <1>1 DEF Stage
<1>6. state' \in {"HOLDOUT_CONFIRMED", "HOLD", "STALE"} BY <1>1, Recorded DEF Verdicts
<1>7. CASE state' = "HOLDOUT_CONFIRMED"
  <2>1. Stage' = "confirmed" BY <1>7 DEF Stage
  <2>. QED BY <1>1, <1>4, <1>5, <2>1 DEF Lifecycle!LifecycleNext, Lifecycle!Confirm
<1>8. CASE state' = "HOLD"
  <2>1. Stage' = "held" BY <1>8 DEF Stage
  <2>. QED BY <1>1, <1>4, <1>5, <2>1 DEF Lifecycle!LifecycleNext, Lifecycle!Hold
<1>9. CASE state' = "STALE"
  <2>1. Stage' = "stale" BY <1>9 DEF Stage
  <2>. QED BY <1>1, <1>4, <1>5, <2>1 DEF Lifecycle!LifecycleNext, Lifecycle!GoStale
<1>. QED BY <1>6, <1>7, <1>8, <1>9

LEMMA ManifestSteps ==
  ASSUME ControllerInv, NEW at \in Instants, NEW m \in Manifests, RecordWindowManifest(m, at)
  PROVE  Lifecycle!LifecycleNext
<1>1. /\ windows' = Append(windows, m) /\ UNCHANGED <<judged, deploymentObservation>>
      /\ state \in {"SHADOW_ASSESSING", "HOLDOUT_CONFIRMED", "PROMOTION_RECOMMENDED",
                    "MONITORING"}
      /\ state' = IF state = "PROMOTION_RECOMMENDED" THEN "HOLDOUT_CONFIRMED" ELSE state
  BY DEF RecordWindowManifest
<1>2. /\ windows \in Seq(Manifests) /\ judged \in Nat /\ judged <= Len(windows)
  BY DEF ControllerInv, Typed
<1>3. Current' = FALSE
  <2>1. Len(windows') = Len(windows) + 1 /\ Len(windows) \in Nat BY <1>1, <1>2
  <2>. QED BY <1>1, <1>2, <2>1 DEF Current
<1>4. /\ Stage \in {"preparing", "confirmed", "recommended", "monitoring"}
      /\ Stage' = IF Stage = "recommended" THEN "confirmed" ELSE Stage
  BY <1>1 DEF Stage
<1>. QED BY <1>1, <1>3, <1>4 DEF Lifecycle!LifecycleNext, Lifecycle!Seal

LEMMA WindowSteps ==
  ASSUME ControllerInv, NEW at \in Instants, NEW i \in DOMAIN windows,
         NEW d \in WindowDecisions(windows[i]), RecordWindowAssessment(d, at)
  PROVE  Lifecycle!LifecycleNext
<1>1. /\ state \in {"HOLDOUT_CONFIRMED", "MONITORING"}
      /\ UNCHANGED <<windows, deploymentObservation>>
      /\ d.manifest = Latest(d.manifest.window)
      /\ state = "MONITORING" => Record(d, "MONITORING", "ROLLBACK_RECOMMENDED")
      /\ state = "HOLDOUT_CONFIRMED" => Record(d, "PROMOTION_RECOMMENDED", "HOLD")
  BY DEF RecordWindowAssessment
<1>2. d \in Decisions /\ d.phase = "window" /\ d.status \in Verdicts
  <2>1. windows[i] \in Manifests BY DEF ControllerInv, Typed
  <2>. QED BY <2>1, DecisionFields
<1>3. state = "MONITORING" => Observed BY DEF ControllerInv, StateInv, Deployed, Observed
<1>4. /\ Len(assessments') > 0 /\ assessments'[Len(assessments')] = d
      /\ judged' = Len(windows)
  BY <1>1, <1>2, Recorded
<1>5. Current' = (d.status = "PASS")
  <2>1. Latest(d.manifest.window)' = Latest(d.manifest.window) BY <1>1 DEF Latest, Ledger
  <2>2. assessments' # <<>> BY <1>4
  <2>3. LatestWindowIs("PASS")' <=> d.status = "PASS"
    BY <1>1, <1>2, <1>4, <2>1, <2>2 DEF LatestWindowIs
  <2>. QED BY <1>1, <1>4, <2>3 DEF Current
<1>6. Stage = IF state = "MONITORING" THEN "monitoring" ELSE "confirmed" BY <1>1 DEF Stage
<1>7. CASE d.status = "PASS"
  <2>1. CASE state = "MONITORING"
    <3>1. Stage' = "monitoring" BY <1>1, <1>2, <1>7, <2>1, Recorded DEF Stage
    <3>. QED
      BY <1>1, <1>5, <1>6, <1>7, <2>1, <3>1 DEF Lifecycle!LifecycleNext, Lifecycle!Reconfirm
  <2>2. CASE state = "HOLDOUT_CONFIRMED"
    <3>1. Stage' = "recommended" BY <1>1, <1>2, <1>7, <2>2, Recorded DEF Stage
    <3>. QED
      BY <1>1, <1>5, <1>6, <1>7, <2>2, <3>1 DEF Lifecycle!LifecycleNext, Lifecycle!Recommend
  <2>. QED BY <1>1, <2>1, <2>2
<1>8. CASE d.status = "STALE"
  <2>1. Stage' = "stale" BY <1>1, <1>2, <1>8, Recorded DEF Stage
  <2>2. Current' = FALSE BY <1>5, <1>8
  <2>. QED BY <1>1, <1>6, <2>1, <2>2 DEF Lifecycle!LifecycleNext, Lifecycle!GoStale
<1>9. CASE d.status = "HOLD" /\ state = "MONITORING"
  <2>1. Stage' = "rollback" BY <1>1, <1>2, <1>9, Recorded DEF Stage
  <2>2. Current' = FALSE BY <1>5, <1>9
  <2>. QED
    BY <1>1, <1>3, <1>6, <1>9, <2>1, <2>2
       DEF Lifecycle!LifecycleNext, Lifecycle!Regress, Observed
<1>10. CASE \/ d.status = "INSUFFICIENT_EVIDENCE"
            \/ d.status = "HOLD" /\ state = "HOLDOUT_CONFIRMED"
  <2>1. state' = "HOLD" BY <1>1, <1>2, <1>10, Recorded
  <2>2. Stage' = "held" BY <2>1 DEF Stage
  <2>3. Current' = FALSE BY <1>5, <1>10
  <2>. QED BY <1>1, <1>6, <2>2, <2>3 DEF Lifecycle!LifecycleNext, Lifecycle!Hold
<1>11. \/ d.status = "PASS" \/ d.status = "STALE" \/ d.status = "INSUFFICIENT_EVIDENCE"
       \/ d.status = "HOLD"
  BY <1>2 DEF Verdicts
<1>12. state = "MONITORING" \/ state = "HOLDOUT_CONFIRMED" BY <1>1
<1>. QED BY <1>7, <1>8, <1>9, <1>10, <1>11, <1>12

LEMMA ObservationSteps ==
  ASSUME ControllerInv, NEW at \in Instants, NEW o \in Observations,
         RecordDeploymentObservation(o, at)
  PROVE  Lifecycle!LifecycleNext
<1>1. /\ state = "PROMOTION_RECOMMENDED" /\ state' = "MONITORING"
      /\ deploymentObservation' = o /\ UNCHANGED <<assessments, windows, judged>>
  BY DEF RecordDeploymentObservation
<1>2. Current /\ Current' = Current
  BY <1>1, CurrentKept DEF ControllerInv, StateInv, Current
<1>3. Stage = "recommended" /\ Stage' = "monitoring" BY <1>1 DEF Stage
<1>4. o # None BY NoneAssumption
<1>. QED BY <1>1, <1>2, <1>3, <1>4 DEF Lifecycle!LifecycleNext, Lifecycle!Deploy

LEMMA EndSteps ==
  ASSUME ControllerInv, NEW at \in Instants,
         RetireController(at) \/ (ExpirySafeEvent(at) /\ \E reason : Stale(reason))
  PROVE  Lifecycle!LifecycleNext
<1>1. /\ UNCHANGED <<assessments, windows, judged, deploymentObservation>>
      /\ state # "RETIRED" /\ state' \in {"RETIRED", "STALE"}
  BY DEF RetireController, Stale, ExpirySafeEvent
<1>2. Current' = Current BY <1>1, CurrentKept
<1>3. Stage # "retired" BY <1>1 DEF Stage
<1>4. Stage' \in {"retired", "stale"} BY <1>1 DEF Stage
<1>. QED
  BY <1>1, <1>2, <1>3, <1>4 DEF Lifecycle!LifecycleNext, Lifecycle!Retire, Lifecycle!GoStale

LEMMA StepsImplement ==
  ControllerInv /\ [Next]_vars
      => [Lifecycle!LifecycleNext]_(Lifecycle!lifecycleVars)
<1> SUFFICES ASSUME ControllerInv, [Next]_vars
             PROVE  [Lifecycle!LifecycleNext]_(Lifecycle!lifecycleVars)
  OBVIOUS
<1>1. CASE UNCHANGED vars
  <2>1. Stage' = Stage BY <1>1 DEF vars, Stage
  <2>. QED BY <1>1, <2>1, CurrentKept, Stutters DEF vars
<1>2. CASE Next
  <2>1. PICK at \in Instants :
            \/ RegisterController(at)
            \/ StartCollection(at)
            \/ \E source \in Sources : MarkDevelopmentReady(source, at)
            \/ \E d \in DevelopmentDecisions : RecordDevelopmentAssessment(d, at)
            \/ StartShadowAssessment(at)
            \/ \E d \in HoldoutDecisions : RecordHoldoutAssessment(d, at)
            \/ \E m \in Manifests : RecordWindowManifest(m, at)
            \/ \E i \in DOMAIN windows :
                  \E d \in WindowDecisions(windows[i]) : RecordWindowAssessment(d, at)
            \/ \E o \in Observations : RecordDeploymentObservation(o, at)
            \/ \E reason \in DriftReasons : RecordIdentityDrift(reason, at)
            \/ ObserveProtocolTime(at)
            \/ RetireController(at)
    BY <1>2 DEF Next
  <2>2. CASE \/ RegisterController(at) \/ StartCollection(at) \/ StartShadowAssessment(at)
             \/ \E source \in Sources : MarkDevelopmentReady(source, at)
    BY <2>2, PreparingStutters
  <2>3. CASE \E d \in DevelopmentDecisions : RecordDevelopmentAssessment(d, at)
    BY <2>3, DevelopmentSteps
  <2>4. CASE \E d \in HoldoutDecisions : RecordHoldoutAssessment(d, at)
    BY <2>4, HoldoutSteps
  <2>5. CASE \E m \in Manifests : RecordWindowManifest(m, at) BY <2>5, ManifestSteps
  <2>6. CASE \E i \in DOMAIN windows :
                \E d \in WindowDecisions(windows[i]) : RecordWindowAssessment(d, at)
    BY <2>6, WindowSteps
  <2>7. CASE \E o \in Observations : RecordDeploymentObservation(o, at)
    BY <2>7, ObservationSteps
  <2>8. CASE \/ \E reason \in DriftReasons : RecordIdentityDrift(reason, at)
             \/ ObserveProtocolTime(at) \/ RetireController(at)
    BY <2>8, EndSteps DEF RecordIdentityDrift, ObserveProtocolTime
  <2>. QED BY <2>1, <2>2, <2>3, <2>4, <2>5, <2>6, <2>7, <2>8
<1>. QED BY <1>1, <1>2

\* What the controller recommends is what its evidence supports: a promotion only
\* on a window assessment newer than every sealed manifest, a deployment only
\* under a recommendation, nothing after it failed closed (src/controller.ts).
THEOREM CommandsImplementLifecycle == Spec => ImplementsLifecycle
<1>1. Init => Lifecycle!LifecycleInit BY InitialStage
<1>. QED
  BY <1>1, InitMakesInv, NextKeepsInv, StepsImplement, PTL
     DEF Spec, ImplementsLifecycle, Lifecycle!LifecycleSpec

-----------------------------------------------------------------------------
(* What ControllerLog promises, for every set of facts and every bound:    *)
(* the snapshot a process holds is a history, and a replay drops nothing.  *)
(*                                                                         *)
(* The invariant is History: types, the two properties, and that what a    *)
(* snapshot knows is of its own chain.  Without that last part a replay    *)
(* could skip an event of another fork as known.  Two lemmas about chains  *)
(* carry the proof: an event that extends a chain ends in it, and a prefix *)
(* of a chain stays one when the chain is extended.                        *)

Chains == Seq(Facts)
Snapshots == [body : Chains, last : Chains, seen : SUBSET Chains]
Checkpoints == [body : Chains, last : Chains]
Replays == [snapshot : Snapshots, target : Checkpoints \cup {NoReplay},
            delivered : SUBSET Chains, taken : Nat]

LogTypeOK ==
    /\ emitted \subseteq Chains
    /\ live \subseteq Snapshots
    /\ checkpoints \subseteq Checkpoints
    /\ replay \in Replays \cup {NoReplay}

\* A snapshot as the properties want it, given the events that exist.
Sound(snapshot, histories) ==
    /\ snapshot.body = snapshot.last
    /\ snapshot.last \in histories
    /\ \A e \in snapshot.seen : Precedes(e, snapshot.last)

Pinned(checkpoint, histories) ==
    checkpoint.body = checkpoint.last /\ checkpoint.last \in histories

History ==
    /\ LogTypeOK
    /\ \A s \in live : Sound(s, Histories)
    /\ \A c \in checkpoints : Pinned(c, Histories)
    /\ replay # NoReplay =>
          /\ Sound(replay.snapshot, Histories)
          /\ \A e \in replay.delivered : Precedes(e, replay.snapshot.last)

-----------------------------------------------------------------------------
(* Chains.                                                                 *)

LEMMA AppendIsChain ==
    ASSUME NEW chain \in Chains, NEW fact \in Facts
    PROVE  /\ Append(chain, fact) \in Chains
           /\ Precedes(Append(chain, fact), Append(chain, fact))
           /\ \A e \in Chains : Precedes(e, chain) => Precedes(e, Append(chain, fact))
BY DEF Chains, Precedes

\* An event whose predecessor a chain ends in is that chain with its fact.
LEMMA EventEndsItsChain ==
    ASSUME NEW event \in Chains, Len(event) > 0
    PROVE  /\ FactOf(event) \in Facts
           /\ PredecessorOf(event) \in Chains
           /\ event = Append(PredecessorOf(event), FactOf(event))
BY DEF Chains, FactOf, PredecessorOf

LEMMA ChainPrecedesItself ==
    ASSUME NEW chain \in Chains
    PROVE  Precedes(chain, chain)
BY DEF Chains, Precedes

\* Applying an event that extends a sound snapshot makes a sound one.
LEMMA AppliedIsSound ==
    ASSUME NEW snapshot \in Snapshots, NEW event \in Chains, NEW histories,
           snapshot.body = snapshot.last,
           \A e \in snapshot.seen : Precedes(e, snapshot.last),
           event \in histories,
           Len(event) > 0,
           PredecessorOf(event) = snapshot.last
    PROVE  /\ Applied(snapshot, event) \in Snapshots
           /\ Sound(Applied(snapshot, event), histories)
           /\ \A e \in Chains : Precedes(e, snapshot.last) =>
                  Precedes(e, Applied(snapshot, event).last)
<1> DEFINE fact == FactOf(event)
<1>1. /\ fact \in Facts
      /\ event = Append(snapshot.last, fact)
  BY EventEndsItsChain
<1>2. snapshot.last \in Chains /\ snapshot.seen \subseteq Chains
  BY DEF Snapshots
<1>3. Applied(snapshot, event) =
          [body |-> event, last |-> event, seen |-> snapshot.seen \cup {event}]
  BY <1>1 DEF Applied
<1>4. \A e \in Chains : Precedes(e, snapshot.last) => Precedes(e, event)
  BY <1>1, <1>2, AppendIsChain
<1>5. Precedes(event, event)
  BY ChainPrecedesItself
<1>. QED BY <1>2, <1>3, <1>4, <1>5 DEF Sound, Snapshots

-----------------------------------------------------------------------------
(* The invariant.                                                          *)

LEMMA GenesisIsSound ==
    Genesis \in Snapshots /\ Sound(Genesis, Histories)
BY DEF Genesis, Snapshots, Chains, Sound, Histories

LEMMA HistoryInit == LogInit => History
BY DEF LogInit, History, LogTypeOK, Histories

LEMMA AppendFactKeepsHistory ==
    ASSUME History, NEW s \in live, NEW f \in Facts, NEW keep \in BOOLEAN,
           AppendFact(s, f, keep)
    PROVE  History'
<1> DEFINE event == Append(s.last, f)
<1>1. /\ s \in Snapshots /\ s.last \in Chains /\ Sound(s, Histories)
      /\ replay = NoReplay
  BY DEF History, LogTypeOK, Snapshots, AppendFact
<1>2. /\ emitted' = emitted \cup {event}
      /\ live' \subseteq live \cup {Applied(s, event)}
      /\ UNCHANGED <<checkpoints, replay>>
  BY DEF AppendFact
<1>3. /\ event \in Chains
      /\ Len(event) > 0
      /\ PredecessorOf(event) = s.last
  BY <1>1 DEF Chains, PredecessorOf
<1>4. event \in Histories' /\ Histories \subseteq Histories'
  BY <1>2 DEF Histories
<1>5. Applied(s, event) \in Snapshots /\ Sound(Applied(s, event), Histories')
  BY <1>1, <1>3, <1>4, AppliedIsSound DEF Sound
<1>6. LogTypeOK'
  BY <1>2, <1>3, <1>5 DEF History, LogTypeOK
<1>7. \A t \in live' : Sound(t, Histories')
  BY <1>2, <1>4, <1>5 DEF History, Sound
<1>8. \A c \in checkpoints' : Pinned(c, Histories')
  BY <1>2, <1>4 DEF History, Pinned
<1>9. replay' = NoReplay
  BY <1>1, <1>2
<1>10. (replay # NoReplay)' = FALSE
  BY <1>9
<1>. QED BY <1>6, <1>7, <1>8, <1>10 DEF History

LEMMA DeliverKeepsHistory ==
    ASSUME History, NEW event \in emitted, Deliver(event)
    PROVE  History'
<1>1. /\ replay # NoReplay /\ replay \in Replays
      /\ replay.snapshot \in Snapshots /\ replay.delivered \subseteq Chains
      /\ Sound(replay.snapshot, Histories)
      /\ \A e \in replay.delivered : Precedes(e, replay.snapshot.last)
      /\ event \in Chains /\ event \in Histories
  BY DEF History, LogTypeOK, Deliver, Replays, Histories
<1>2. UNCHANGED <<emitted, live, checkpoints>> /\ Histories' = Histories
  BY DEF Deliver, Histories
<1>3. SUFFICES /\ replay' \in Replays \cup {NoReplay}
               /\ replay' # NoReplay =>
                     /\ Sound(replay'.snapshot, Histories)
                     /\ \A e \in replay'.delivered : Precedes(e, replay'.snapshot.last)
  BY <1>2 DEF History, LogTypeOK
<1>4. CASE Skip(event)
  <2> DEFINE skipped == [replay.snapshot EXCEPT !.seen = @ \cup {event}]
  <2>1. Precedes(event, replay.snapshot.last)
    BY <1>1, <1>4, ChainPrecedesItself DEF Skip, IsKnown, Sound
  <2>2. skipped \in Snapshots /\ Sound(skipped, Histories)
    BY <1>1, <2>1 DEF Snapshots, Sound
  <2>3. replay' = [replay EXCEPT !.snapshot = skipped,
                                 !.delivered = @ \cup {event}, !.taken = @ + 1]
    BY <1>1, <1>4 DEF Skip, Replays, Snapshots
  <2>4. skipped.last = replay.snapshot.last
    BY <1>1 DEF Snapshots
  <2>. HIDE DEF skipped
  <2>5. replay' = [snapshot |-> skipped, target |-> replay.target,
                   delivered |-> replay.delivered \cup {event},
                   taken |-> replay.taken + 1]
    BY <1>1, <2>3 DEF Replays
  <2>6. replay' \in Replays
    BY <1>1, <2>2, <2>5 DEF Replays
  <2>. QED BY <1>1, <2>1, <2>2, <2>4, <2>5, <2>6
<1>5. CASE Apply(event)
  <2> DEFINE applied == Applied(replay.snapshot, event)
  <2>1. Len(event) > 0 /\ PredecessorOf(event) = replay.snapshot.last
    BY <1>1, <1>5 DEF Apply, ExtendsChain, SequenceOf, Snapshots, Chains
  <2>2. /\ applied \in Snapshots /\ Sound(applied, Histories)
        /\ \A e \in Chains : Precedes(e, replay.snapshot.last) => Precedes(e, applied.last)
    BY <1>1, <2>1, AppliedIsSound DEF Sound
  <2>3. applied.last = event /\ Precedes(event, applied.last)
    BY <1>1, ChainPrecedesItself DEF Applied
  <2>4. replay' = [replay EXCEPT !.snapshot = applied,
                                 !.delivered = @ \cup {event}, !.taken = @ + 1]
    BY <1>5 DEF Apply
  <2>. HIDE DEF applied
  <2>5. replay' = [snapshot |-> applied, target |-> replay.target,
                   delivered |-> replay.delivered \cup {event},
                   taken |-> replay.taken + 1]
    BY <1>1, <2>4 DEF Replays
  <2>6. replay' \in Replays
    BY <1>1, <2>2, <2>5 DEF Replays
  <2>. QED BY <1>1, <2>2, <2>3, <2>5, <2>6
<1>6. CASE Refuse(event)
  BY <1>6 DEF Refuse
<1>. QED BY <1>4, <1>5, <1>6 DEF Deliver

LEMMA HistoryNext == History /\ [LogNext]_logVars => History'
<1> SUFFICES ASSUME History, [LogNext]_logVars PROVE History'
  OBVIOUS
<1>1. CASE Create
  BY <1>1, GenesisIsSound DEF Create, History, LogTypeOK, Histories
<1>2. ASSUME NEW d \in DecisionFacts, RecordDecision(d) PROVE History'
  BY <1>2 DEF RecordDecision, History, LogTypeOK, Histories
<1>3. ASSUME NEW s \in live, NEW f \in Facts, NEW keep \in BOOLEAN,
             AppendFact(s, f, keep)
      PROVE  History'
  BY <1>3, AppendFactKeepsHistory
<1>4. ASSUME NEW s \in live, Checkpoint(s) PROVE History'
  <2>1. s \in Snapshots /\ Sound(s, Histories)
    BY DEF History, LogTypeOK
  <2>2. /\ UNCHANGED <<emitted, live, replay>>
        /\ checkpoints' = {[body |-> s.body, last |-> s.last]}
    BY <1>4 DEF Checkpoint
  <2>3. \A c \in checkpoints' : c \in Checkpoints /\ Pinned(c, Histories)
    BY <2>1, <2>2 DEF Snapshots, Checkpoints, Sound, Pinned
  <2>. QED BY <2>2, <2>3 DEF History, LogTypeOK, Histories
<1>5. CASE Restart
  BY <1>5 DEF Restart, History, LogTypeOK, Histories
<1>6. CASE StartReplay
  <2>1. /\ UNCHANGED <<emitted, live, checkpoints>>
        /\ replay' = Replaying(Genesis, NoReplay)
    BY <1>6 DEF StartReplay
  <2>. QED BY <2>1, GenesisIsSound
           DEF Replaying, Replays, History, LogTypeOK, Histories
<1>7. ASSUME NEW c \in checkpoints, StartPrefix(c) PROVE History'
  <2>1. /\ UNCHANGED <<emitted, live, checkpoints>>
        /\ replay' = Replaying(Genesis, c)
    BY <1>7 DEF StartPrefix
  <2>. QED BY <2>1, GenesisIsSound
           DEF Replaying, Replays, History, LogTypeOK, Histories
<1>8. ASSUME NEW c \in checkpoints, StartFromAnchor(c) PROVE History'
  <2> DEFINE anchored == [body |-> c.body, last |-> c.last, seen |-> {}]
  <2>1. /\ UNCHANGED <<emitted, live, checkpoints>>
        /\ replay' = Replaying(anchored, NoReplay)
    BY <1>8 DEF StartFromAnchor
  <2>2. anchored \in Snapshots /\ Sound(anchored, Histories)
    BY DEF History, LogTypeOK, Checkpoints, Snapshots, Pinned, Sound
  <2>3. Replaying(anchored, NoReplay) \in Replays
    BY <2>2 DEF Replaying, Replays
  <2>. QED BY <2>1, <2>2, <2>3 DEF Replaying, History, LogTypeOK, Histories
<1>9. ASSUME NEW e \in emitted, Deliver(e) PROVE History'
  BY <1>9, DeliverKeepsHistory
<1>10. CASE PrefixDone
  <2>1. replay \in Replays /\ UNCHANGED <<emitted, live, checkpoints>>
    BY <1>10 DEF PrefixDone, History, LogTypeOK
  <2>2. \/ replay' = NoReplay
        \/ /\ replay' \in Replays
           /\ replay'.snapshot = replay.snapshot
           /\ replay'.delivered = replay.delivered
    BY <1>10, <2>1 DEF PrefixDone, Replays
  <2>. QED BY <1>10, <2>1, <2>2 DEF PrefixDone, History, LogTypeOK, Histories
<1>11. CASE ReplayDone
  <2>1. /\ replay \in Replays /\ replay # NoReplay /\ replay' = NoReplay
        /\ live' = live \cup {replay.snapshot}
        /\ UNCHANGED <<emitted, checkpoints>>
    BY <1>11 DEF ReplayDone, History, LogTypeOK
  <2>. QED BY <2>1 DEF History, LogTypeOK, Replays, Histories
<1>12. CASE UNCHANGED logVars
  BY <1>12 DEF logVars, History, LogTypeOK, Histories
<1>. QED
  BY <1>1, <1>2, <1>3, <1>4, <1>5, <1>6, <1>7, <1>8, <1>9, <1>10, <1>11, <1>12
  DEF LogNext

LEMMA HistoryInvariant == LogSpec => []History
BY HistoryInit, HistoryNext, PTL DEF LogSpec

-----------------------------------------------------------------------------
(* The theorems.                                                           *)

\* However often a process forks, loses and replays events, and restarts, the
\* snapshots it holds and those pinned outside are states of a live chain.
THEOREM HoldsHistories == LogSpec => []SnapshotIsAHistory
<1>1. History => SnapshotIsAHistory
  BY DEF History, Sound, Pinned, SnapshotIsAHistory, Held
<1>. QED BY <1>1, HistoryInvariant, PTL

\* A replay, from the start, a prefix or an anchor, has each event it was given
\* in the chain of its result: it never skips one of another fork.
THEOREM DropsNothing == LogSpec => []NothingIsDropped
<1>1. History => NothingIsDropped
  BY DEF History, NothingIsDropped
<1>. QED BY <1>1, HistoryInvariant, PTL

=============================================================================
