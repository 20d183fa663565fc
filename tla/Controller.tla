----------------------------- MODULE Controller ------------------------------
(***************************************************************************)
(* The advisory controller of one study: src/controller.ts and             *)
(* src/controller-events.ts.                                               *)
(*                                                                         *)
(* The variables are the fields of the ControllerSnapshot; each action is  *)
(* the command of the same name with the event it appends, as              *)
(* applyParsedControllerEvent applies it.  A command that is refused       *)
(* leaves the snapshot as it was, so a refusal is a guard.                 *)
(*                                                                         *)
(* Every new snapshot is validated a second time, as a whole, by           *)
(* assertSnapshotBodySemantics (Coherent below).  Only what that validator *)
(* alone refuses is a guard here; that it refuses nothing else, so that no *)
(* legal sequence of commands runs into it, is the invariant.              *)
(*                                                                         *)
(* A digest is the content it covers: equal digests, equal records.        *)
(***************************************************************************)
EXTENDS Naturals, Sequences, FiniteSets

CONSTANTS
    PolicyIds,       \* policyDigest
    Sources,         \* trace and evaluator set digests
    Capacities,      \* capacityEvidenceDigest
    Windows,         \* windowId
    WindowEnds,      \* eventTimeEndExclusive of the windows
    Issues,          \* what distinguishes two decisions on the same evidence
    DriftReasons,    \* reasonCode of identity drift
    None,            \* null
    Expiry,          \* protocolExpiresAt; protocolCreatedAt is 0
    MaxTime,         \* bound of occurredAt
    MaxEvents,       \* bound of sequence
    MaxWindows,      \* MAX_CONTROLLER_WINDOWS
    MaxRevisions,    \* MAX_CONTROLLER_WINDOW_REVISIONS
    MaxAssessments,  \* MAX_CONTROLLER_ASSESSMENTS
    MaxReasons       \* bound of staleReasons

Instants == 0..MaxTime

ASSUME ControllerAssumption ==
    /\ {Expiry, MaxTime, MaxEvents, MaxWindows, MaxRevisions} \subseteq Nat
    /\ {MaxAssessments, MaxReasons} \subseteq Nat \ {0}
    /\ 0 < Expiry /\ Expiry <= MaxTime
    /\ WindowEnds \subseteq Instants \ {0}

\* A policy expires with its protocol (the validator refuses any other).
Policies == [id : PolicyIds, issuedAt : Instants]

Verdicts == {"PASS", "HOLD", "INSUFFICIENT_EVIDENCE", "STALE"}

\* A window manifest; its predecessor is the revision before it.
Manifests == [window : Windows, revision : 1..MaxRevisions, end : WindowEnds,
              watermark : Instants, source : Sources, capacity : Capacities,
              policy : PolicyIds]

\* Assessment decisions.  Only a nomination carries a policy of its own choice.
DevelopmentDecisions ==
    [phase : {"development"}, status : {"NOMINATED"}, policy : Policies,
     source : Sources, manifest : {None}, issue : Issues]
    \cup
    [phase : {"development"},
     status : {"NO_CANDIDATE", "INSUFFICIENT_EVIDENCE", "STALE"},
     policy : {None}, source : Sources, manifest : {None}, issue : Issues]

HoldoutDecisions ==
    [phase : {"holdout"}, status : Verdicts, policy : Policies,
     source : Sources, manifest : {None}, issue : Issues]

WindowDecisions(m) ==
    [phase : {"window"}, status : Verdicts, policy : Policies,
     source : Sources, manifest : {m}, issue : Issues]

Decisions ==
    DevelopmentDecisions \cup HoldoutDecisions
        \cup UNION {WindowDecisions(m) : m \in Manifests}

Observations == [policy : PolicyIds, observedAt : Instants]

\* null is neither a digest nor a record.
ASSUME NoneAssumption == None \notin Sources \cup Policies \cup Observations

StaleReasons == DriftReasons \cup {"assessment-stale", "protocol-expired"}

VARIABLES
    state,                  \* ControllerState
    sequence,               \* events applied
    lastEventAt,            \* 0 before the first event
    collectionStarted,      \* collectionId is not null
    developmentEvidence,
    selectedPolicy,
    assessments,
    windows,                \* the revisions of all ledgers, as recorded
    deploymentObservation,
    staleReasons,
    judged                  \* history: Len(windows) at the last assessment

vars == <<state, sequence, lastEventAt, collectionStarted, developmentEvidence,
          selectedPolicy, assessments, windows, deploymentObservation,
          staleReasons, judged>>

States == {"DRAFT", "REGISTERED", "COLLECTING", "DEV_READY", "NOMINATED",
           "SHADOW_ASSESSING", "HOLDOUT_CONFIRMED", "PROMOTION_RECOMMENDED",
           "MONITORING", "HOLD", "STALE", "ROLLBACK_RECOMMENDED", "RETIRED"}

TypeOK ==
    /\ state \in States
    /\ sequence \in 0..MaxEvents
    /\ lastEventAt \in Instants
    /\ collectionStarted \in BOOLEAN
    /\ developmentEvidence \in Sources \cup {None}
    /\ selectedPolicy \in Policies \cup {None}
    /\ assessments \in Seq(Decisions) /\ Len(assessments) <= MaxAssessments
    /\ windows \in Seq(Manifests) /\ Len(windows) <= MaxRevisions
    /\ deploymentObservation \in Observations \cup {None}
    /\ staleReasons \subseteq StaleReasons
    /\ judged \in 0..Len(windows)

Init ==
    /\ state = "DRAFT"
    /\ sequence = 0
    /\ lastEventAt = 0
    /\ collectionStarted = FALSE
    /\ developmentEvidence = None
    /\ selectedPolicy = None
    /\ assessments = <<>>
    /\ windows = <<>>
    /\ deploymentObservation = None
    /\ staleReasons = {}
    /\ judged = 0

-----------------------------------------------------------------------------
(* The event envelope.                                                     *)

\* An event that observes expiry, drift or retirement may come at any time.
ExpirySafeEvent(at) ==
    /\ state # "RETIRED"
    /\ sequence < MaxEvents
    /\ at >= lastEventAt
    /\ sequence' = sequence + 1
    /\ lastEventAt' = at

\* Faulty variant of Event: the protocol's expiry is inclusive.
EventAtExpiry(at) ==
    /\ at <= Expiry
    /\ ExpirySafeEvent(at)

\* Any other event comes before the protocol, and the policy, expires.
Event(at) ==
    /\ at < Expiry
    /\ ExpirySafeEvent(at)

-----------------------------------------------------------------------------
(* Assessments.                                                            *)

\* What the snapshot validator asks of a further decision.
Admissible(d) ==
    /\ Len(assessments) < MaxAssessments
    /\ \A i \in DOMAIN assessments : assessments[i] # d

\* Record the decision d: the state it leads to when it passes or holds.
Record(d, onPass, onHold) ==
    /\ Admissible(d)
    /\ assessments' = Append(assessments, d)
    /\ judged' = Len(windows)
    /\ state' = CASE d.status \in {"NOMINATED", "PASS"} -> onPass
                  [] d.status = "STALE" -> "STALE"
                  [] d.status = "HOLD" -> onHold
                  [] OTHER -> "HOLD"
    /\ staleReasons' = IF d.status = "STALE"
                       THEN staleReasons \cup {"assessment-stale"}
                       ELSE staleReasons

-----------------------------------------------------------------------------
(* Window ledgers.                                                         *)

Ledger(w) == {i \in DOMAIN windows : windows[i].window = w}

Latest(w) == windows[CHOOSE i \in Ledger(w) : \A k \in Ledger(w) : k <= i]

\* A revision follows the latest of its window, with the same bounds, a later
\* watermark and some change of evidence.
Continues(m) ==
    LET latest == Latest(m.window)
    IN  /\ m.revision = latest.revision + 1
        /\ m.end = latest.end
        /\ m.watermark >= latest.watermark
        /\ <<m.source, m.capacity>> # <<latest.source, latest.capacity>>

\* applyWindowProjection, with the limits of the snapshot schema.
Extends(m) ==
    /\ Len(windows) < MaxRevisions
    /\ IF Ledger(m.window) = {}
       THEN /\ m.revision = 1
            /\ Cardinality({windows[i].window : i \in DOMAIN windows}) < MaxWindows
       ELSE Continues(m)

-----------------------------------------------------------------------------
(* The commands.                                                           *)

RegisterController(at) ==
    /\ Event(at)
    /\ state = "DRAFT"
    /\ state' = "REGISTERED"
    /\ UNCHANGED <<collectionStarted, developmentEvidence, selectedPolicy,
                   assessments, windows, deploymentObservation, staleReasons,
                   judged>>

StartCollection(at) ==
    /\ Event(at)
    /\ state = "REGISTERED"
    /\ state' = "COLLECTING"
    /\ collectionStarted' = TRUE
    /\ UNCHANGED <<developmentEvidence, selectedPolicy, assessments, windows,
                   deploymentObservation, staleReasons, judged>>

MarkDevelopmentReady(source, at) ==
    /\ Event(at)
    /\ state = "COLLECTING"
    /\ state' = "DEV_READY"
    /\ developmentEvidence' = source
    /\ UNCHANGED <<collectionStarted, selectedPolicy, assessments, windows,
                   deploymentObservation, staleReasons, judged>>

\* The validator refuses a policy issued after the event that nominates it.
RecordDevelopmentAssessment(d, at) ==
    /\ Event(at)
    /\ state = "DEV_READY"
    /\ d.source = developmentEvidence
    /\ d.policy # None => d.policy.issuedAt <= at
    /\ selectedPolicy' = d.policy
    /\ Record(d, "NOMINATED", "HOLD")
    /\ UNCHANGED <<collectionStarted, developmentEvidence, windows,
                   deploymentObservation>>

StartShadowAssessment(at) ==
    /\ Event(at)
    /\ state = "NOMINATED"
    /\ state' = "SHADOW_ASSESSING"
    /\ UNCHANGED <<collectionStarted, developmentEvidence, selectedPolicy,
                   assessments, windows, deploymentObservation, staleReasons,
                   judged>>

RecordHoldoutAssessment(d, at) ==
    /\ Event(at)
    /\ state = "SHADOW_ASSESSING"
    /\ d.policy = selectedPolicy
    /\ Record(d, "HOLDOUT_CONFIRMED", "HOLD")
    /\ UNCHANGED <<collectionStarted, developmentEvidence, selectedPolicy,
                   windows, deploymentObservation>>

\* Faulty variant of RecordWindowManifest: a recommendation survives evidence
\* it was not made on.
RecordWindowManifestQuietly(m, at) ==
    /\ Event(at)
    /\ state \in {"SHADOW_ASSESSING", "HOLDOUT_CONFIRMED",
                  "PROMOTION_RECOMMENDED", "MONITORING"}
    /\ m.policy = selectedPolicy.id
    /\ m.end <= m.watermark /\ m.watermark <= at
    /\ Extends(m)
    /\ windows' = Append(windows, m)
    /\ UNCHANGED <<state, collectionStarted, developmentEvidence,
                   selectedPolicy, assessments, deploymentObservation,
                   staleReasons, judged>>

RecordWindowManifest(m, at) ==
    /\ Event(at)
    /\ state \in {"SHADOW_ASSESSING", "HOLDOUT_CONFIRMED",
                  "PROMOTION_RECOMMENDED", "MONITORING"}
    /\ m.policy = selectedPolicy.id
    /\ m.end <= m.watermark /\ m.watermark <= at
    /\ Extends(m)
    /\ windows' = Append(windows, m)
    /\ state' = IF state = "PROMOTION_RECOMMENDED" THEN "HOLDOUT_CONFIRMED"
                                                   ELSE state
    /\ UNCHANGED <<collectionStarted, developmentEvidence, selectedPolicy,
                   assessments, deploymentObservation, staleReasons, judged>>

\* The decision is on some recorded revision; only the latest will do.
RecordWindowAssessment(d, at) ==
    /\ Event(at)
    /\ state \in {"HOLDOUT_CONFIRMED", "MONITORING"}
    /\ d.manifest = Latest(d.manifest.window)
    /\ d.source = d.manifest.source
    /\ d.policy = selectedPolicy
    /\ IF state = "MONITORING"
       THEN Record(d, "MONITORING", "ROLLBACK_RECOMMENDED")
       ELSE Record(d, "PROMOTION_RECOMMENDED", "HOLD")
    /\ UNCHANGED <<collectionStarted, developmentEvidence, selectedPolicy,
                   windows, deploymentObservation>>

RecordDeploymentObservation(o, at) ==
    /\ Event(at)
    /\ state = "PROMOTION_RECOMMENDED"
    /\ o.policy = selectedPolicy.id
    /\ lastEventAt <= o.observedAt /\ o.observedAt <= at
    /\ deploymentObservation' = o
    /\ state' = "MONITORING"
    /\ UNCHANGED <<collectionStarted, developmentEvidence, selectedPolicy,
                   assessments, windows, staleReasons, judged>>

\* identity-drift-recorded and protocol-expiry-observed.
Stale(reason) ==
    /\ state' = "STALE"
    /\ staleReasons' = staleReasons \cup {reason}
    /\ Cardinality(staleReasons') <= MaxReasons
    /\ UNCHANGED <<collectionStarted, developmentEvidence, selectedPolicy,
                   assessments, windows, deploymentObservation, judged>>

RecordIdentityDrift(reason, at) ==
    /\ ExpirySafeEvent(at)
    /\ Stale(reason)

\* Before the expiry the command changes nothing.
ObserveProtocolTime(at) ==
    /\ ExpirySafeEvent(at)
    /\ at >= Expiry
    /\ Stale("protocol-expired")

RetireController(at) ==
    /\ ExpirySafeEvent(at)
    /\ state' = "RETIRED"
    /\ UNCHANGED <<collectionStarted, developmentEvidence, selectedPolicy,
                   assessments, windows, deploymentObservation, staleReasons,
                   judged>>

Next ==
    \E at \in Instants :
        \/ RegisterController(at)
        \/ StartCollection(at)
        \/ \E source \in Sources : MarkDevelopmentReady(source, at)
        \/ \E d \in DevelopmentDecisions : RecordDevelopmentAssessment(d, at)
        \/ StartShadowAssessment(at)
        \/ \E d \in HoldoutDecisions : RecordHoldoutAssessment(d, at)
        \/ \E m \in Manifests : RecordWindowManifest(m, at)
        \/ \E i \in DOMAIN windows :
              \E d \in WindowDecisions(windows[i]) : RecordWindowAssessment(d, at)
        \/ \E o \in Observations : RecordDeploymentObservation(o, at)
        \/ \E reason \in DriftReasons : RecordIdentityDrift(reason, at)
        \/ ObserveProtocolTime(at)
        \/ RetireController(at)

Spec == Init /\ [][Next]_vars

-----------------------------------------------------------------------------
(* assertSnapshotBodySemantics.                                            *)

OfPhase(phase) == {i \in DOMAIN assessments : assessments[i].phase = phase}

\* Some assessment of this phase ended with this status.
Concluded(phase, status) ==
    \E i \in OfPhase(phase) : assessments[i].status = status

Nominated == selectedPolicy # None /\ Concluded("development", "NOMINATED")
Confirmed == Nominated /\ Concluded("holdout", "PASS")

\* The last assessment judged the latest revision of a window, with this result.
LatestWindowIs(status) ==
    /\ assessments # <<>>
    /\ LET last == assessments[Len(assessments)]
       IN  /\ last.phase = "window"
           /\ last.status = status
           /\ last.manifest = Latest(last.manifest.window)

WindowAssessments == Cardinality(OfPhase("window"))

\* Ledgers: contiguous revisions, bounds fixed, watermarks ordered and past.
CoherentWindows ==
    /\ Len(windows) <= MaxRevisions
    /\ windows # <<>> => selectedPolicy # None
    /\ \A i \in DOMAIN windows :
          LET m == windows[i]
              earlier == {k \in Ledger(m.window) : k < i}
          IN  /\ m.revision = Cardinality(earlier) + 1
              /\ m.policy = selectedPolicy.id
              /\ m.watermark < Expiry /\ m.watermark <= lastEventAt
              /\ \A k \in earlier :
                    /\ windows[k].end = m.end
                    /\ windows[k].watermark <= m.watermark
                    /\ windows[k].revision + 1 = m.revision =>
                          <<windows[k].source, windows[k].capacity>>
                              # <<m.source, m.capacity>>

\* Assessments: no duplicate, phases in order, each on the evidence before it.
CoherentAssessments ==
    /\ \A i, k \in DOMAIN assessments :
          /\ assessments[i] = assessments[k] => i = k
          /\ (i < k /\ assessments[i].phase = "window")
                => assessments[k].phase = "window"
          /\ (i < k /\ assessments[i].phase = "holdout")
                => assessments[k].phase = "window"
    /\ Cardinality(OfPhase("development")) <= 1
    /\ OfPhase("holdout") # {} => Concluded("development", "NOMINATED")
    /\ OfPhase("window") # {} => Concluded("holdout", "PASS")
    /\ assessments # <<>> => developmentEvidence # None
    /\ developmentEvidence # None => collectionStarted
    /\ \A i \in OfPhase("development") :
          assessments[i].source = developmentEvidence
    /\ \A i \in OfPhase("window") :
          \E k \in DOMAIN windows :
              /\ windows[k] = assessments[i].manifest
              /\ windows[k].source = assessments[i].source

\* Policy: the one nominated, issued before the last event, used throughout.
CoherentPolicy ==
    /\ selectedPolicy # None <=> Concluded("development", "NOMINATED")
    /\ selectedPolicy # None => selectedPolicy.issuedAt <= lastEventAt
    /\ \A i \in DOMAIN assessments :
          \/ assessments[i].policy = selectedPolicy
          \/ assessments[i].phase = "development" /\ selectedPolicy = None

\* Deployment: a confirmed policy with a passing window, seen in time.
CoherentDeployment ==
    deploymentObservation # None =>
        /\ Confirmed
        /\ Concluded("window", "PASS")
        /\ deploymentObservation.policy = selectedPolicy.id
        /\ deploymentObservation.observedAt < Expiry
        /\ deploymentObservation.observedAt <= lastEventAt
        /\ state \in {"MONITORING", "HOLD", "ROLLBACK_RECOMMENDED", "STALE",
                      "RETIRED"}

\* The evidence a state requires and excludes, and the number of events it
\* must have taken to get there.
CoherentState ==
    LET revisions == Len(windows)
        judgements == Len(assessments)
        noEvidence == assessments = <<>> /\ selectedPolicy = None
        afterHoldout == 6 + revisions + WindowAssessments
        deployed == deploymentObservation # None
    IN  CASE state = "DRAFT" ->
                 sequence = 0 /\ ~collectionStarted /\ noEvidence
          [] state = "REGISTERED" ->
                 sequence = 1 /\ ~collectionStarted /\ noEvidence
          [] state = "COLLECTING" ->
                 /\ sequence = 2 /\ collectionStarted /\ noEvidence
                 /\ developmentEvidence = None
          [] state = "DEV_READY" ->
                 sequence = 3 /\ developmentEvidence # None /\ noEvidence
          [] state = "NOMINATED" ->
                 /\ sequence = 4 /\ Nominated
                 /\ OfPhase("holdout") = {} /\ revisions = 0 /\ ~deployed
          [] state = "SHADOW_ASSESSING" ->
                 /\ sequence = 5 + revisions /\ Nominated
                 /\ OfPhase("holdout") = {} /\ ~deployed
          [] state = "HOLDOUT_CONFIRMED" ->
                 sequence = afterHoldout /\ Confirmed /\ ~deployed
          [] state = "PROMOTION_RECOMMENDED" ->
                 /\ sequence = afterHoldout /\ Confirmed /\ ~deployed
                 /\ LatestWindowIs("PASS")
          [] state = "MONITORING" ->
                 sequence = afterHoldout + 1 /\ Confirmed /\ deployed
          [] state = "ROLLBACK_RECOMMENDED" ->
                 /\ sequence = afterHoldout + 1 /\ Confirmed /\ deployed
                 /\ LatestWindowIs("HOLD")
          [] state = "HOLD" ->
                 /\ developmentEvidence # None
                 /\ sequence = IF selectedPolicy = None THEN 3 + judgements
                               ELSE 4 + judgements + revisions
                                      + (IF deployed THEN 1 ELSE 0)
                 /\ judgements > 0
                 /\ assessments[judgements].status \in
                       {"NO_CANDIDATE", "HOLD", "INSUFFICIENT_EVIDENCE"}
          [] state \in {"STALE", "RETIRED"} -> sequence > 0

\* Expiry and reasons.
CoherentTime ==
    /\ state \notin {"STALE", "RETIRED"} => lastEventAt < Expiry
    /\ staleReasons # {} => state \in {"STALE", "RETIRED"}
    /\ state = "STALE" => staleReasons # {}

-----------------------------------------------------------------------------
(* Properties.                                                             *)

\* Whatever commands are accepted, in whatever order, the validator accepts the
\* snapshot they lead to: no accepted history ends in a snapshot that
\* parseControllerSnapshot would refuse to load again.
Coherent ==
    /\ CoherentWindows
    /\ CoherentAssessments
    /\ CoherentPolicy
    /\ CoherentDeployment
    /\ CoherentState
    /\ CoherentTime

\* The stages of the documented lifecycle, as ControllerLifecycle names them.
Stage ==
    CASE state = "HOLDOUT_CONFIRMED" -> "confirmed"
      [] state = "PROMOTION_RECOMMENDED" -> "recommended"
      [] state = "MONITORING" -> "monitoring"
      [] state = "ROLLBACK_RECOMMENDED" -> "rollback"
      [] state = "HOLD" -> "held"
      [] state = "STALE" -> "stale"
      [] state = "RETIRED" -> "retired"
      [] OTHER -> "preparing"

\* The last assessment is a window's pass, made on all that was sealed by then.
Current == LatestWindowIs("PASS") /\ judged = Len(windows)

\* What the snapshot recommends is what its evidence supports at that moment.
Lifecycle == INSTANCE ControllerLifecycle WITH
    stage <- Stage, current <- Current, deployed <- deploymentObservation # None
ImplementsLifecycle == Lifecycle!LifecycleSpec

=============================================================================
