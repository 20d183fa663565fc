--------------------------- MODULE MCControlPlane ----------------------------
(***************************************************************************)
(* Instances for TLC of the parts of the control plane that meet only in   *)
(* what they hand to each other: the controller of a study, its event log, *)
(* the framing and the reading of a response, the lease of a runtime's     *)
(* capability, the assessment of a study, the experiments that follow it,  *)
(* and the evaluation of the first version. They share no variable. A      *)
(* behaviour is one of one part, chosen at the start, while the others     *)
(* stay as they begin.                                                     *)
(***************************************************************************)
EXTENDS Controller, ControllerLog, StreamFraming, ProviderStream, Assessment,
        CapabilityLease, Experiments, LegacyEvaluation, TLC

CONSTANTS fast, expert, t1, t2, t3, c1, c2, g1, k1, k2, o1, o2, current, rubric,
          chatCompletions, responses

VARIABLE part

planeVars ==
    <<part, vars, logVars, framingVars, providerVars, leaseVars, studyVars, loopVars,
      legacyVars>>

\* Digests, windows and policies of the controller differ by name only, and so
\* do the runtimes of a lease, to which the names of the policies are lent.
Symmetry ==
    Permutations(PolicyIds) \cup Permutations(Sources) \cup Permutations(Windows)

\* Of a runtime whose profile promises one route and has to be asked for another.
MCStaticCapability == chatCompletions :> "supported" @@ responses :> "conditional"

-----------------------------------------------------------------------------
(* The rows of a study: two cases, a fast candidate and the expert.        *)

Trace(id, case, profile, terminal, ambiguous, completed, output, signal) ==
    [id |-> id, case |-> case, group |-> g1, profile |-> profile,
     terminal |-> terminal, ambiguous |-> ambiguous, started |-> 2,
     completed |-> completed, output |-> output, signal |-> signal, costed |-> TRUE]

MCTraceRows ==
    {Trace(t1, c1, fast, "success", FALSE, 3, o1, 0),
     Trace(t1, c1, fast, "success", FALSE, 4, o1, 0),
     Trace(t3, c1, fast, "failure", TRUE, 3, Absent, 0),
     Trace(t2, c1, expert, "success", FALSE, 3, o2, 0),
     Trace(t2, c1, expert, "failure", FALSE, 3, Absent, 0),
     Trace(t3, c2, expert, "failure", FALSE, 3, Absent, Absent)}

Evidence(id, case, profile, output, at, outcome, key) ==
    [id |-> id, case |-> case, profile |-> profile, output |-> output,
     producedAt |-> at, outcome |-> outcome, key |-> key, rubric |-> rubric,
     signed |-> TRUE]

Early == [asOf |-> 4, snapshot |-> current]
Late == [asOf |-> 5, snapshot |-> current]
MCContexts == {Early, Late}

Verification(evidence, context) == [evidence |-> evidence, context |-> context]

MCVerifications ==
    {Verification(Evidence(t1, c1, fast, o1, 3, "scored", k1), Early),
     Verification(Evidence(t1, c1, fast, o1, 4, "scored", k1), Early),
     Verification(Evidence(t2, c1, expert, o2, 3, "scored", k1), Early),
     Verification(Evidence(t2, c1, expert, o2, 4, "scored", k1), Late),
     Verification(Evidence(t2, c2, expert, o2, 3, "scored", k1), Early),
     Verification(Evidence(t1, c1, fast, o1, 3, "scored", k2), Early),
     Verification(Evidence(t2, c1, expert, o2, 4, "abstained", k1), Early),
     Verification(Evidence(t2, c1, expert, o2, 4, "scored", k2), Late)}

\* k2 is revoked at 5, and no key of the evaluator that the protocol pins.
MCTrust ==
    LET key(revokedAt) == [revokedAt |-> revokedAt, validFrom |-> 0,
                           validUntil |-> 9, rubrics |-> {rubric}]
    IN  [snapshot |-> current, maximumSkew |-> 1, maximumAge |-> 2,
         keys |-> k1 :> key(9) @@ k2 :> key(5)]

MCEvaluator == [keys |-> {k1}, rubric |-> rubric]

Positive == [operator |-> "greater-than", threshold |-> 0]
MCPredicates == {Positive}

Bundle(kind, primary, predicate, at) ==
    [kind |-> kind, primary |-> primary, predicate |-> predicate, issuedAt |-> at]

MCBundles ==
    {Bundle("expert-only", expert, Absent, 2), Bundle("fast-only", fast, Absent, 2),
     Bundle("cascade", fast, Positive, 2), Bundle("cascade", fast, Positive, 3)}

-----------------------------------------------------------------------------
(* Assessments that experiments may follow: one of each kind.              *)

Entry(policy, reasons, failed, unmeasured) ==
    [policy |-> policy, profiles |-> {fast, expert}, reasons |-> reasons,
     failed |-> failed, unmeasured |-> unmeasured]

Judged(ofPhase, ofStatus, chosen, reasons, failed, unmeasured) ==
    [id |-> <<ofPhase, ofStatus, reasons, failed>>, protocol |-> current, phase |-> ofPhase,
     status |-> ofStatus, selected |-> chosen, stale |-> {},
     candidates |-> {Entry(c1, reasons, failed, unmeasured)}]

StaleOf(reason) == [Judged("window", "STALE", c1, {}, {}, FALSE) EXCEPT !.stale = {reason}]

MeasuredGates ==
    {"paired-quality", "paired-critical-slice-quality", "maximum-p95-ttft",
     "maximum-p95-end-to-end", "maximum-failure-rate", "maximum-cost-per-thousand"}

MCAssessments ==
    {Judged("development", "NO_CANDIDATE", Absent, {}, {g}, FALSE) : g \in MeasuredGates}
    \cup
    {Judged("development", "NOMINATED", c1, {}, {}, FALSE),
     Judged("development", "INSUFFICIENT_EVIDENCE", Absent, {"coverage"}, {}, FALSE),
     Judged("holdout", "HOLD", c1, {}, {"paired-quality"}, FALSE),
     Judged("window", "HOLD", c1, {}, {"minimum-service-capacity"}, FALSE),
     Judged("window", "INSUFFICIENT_EVIDENCE", c1, {"capacity"}, {}, TRUE),
     Judged("window", "PASS", c1, {}, {}, FALSE),
     StaleOf("evaluator-evidence-revoked"), StaleOf("window-not-complete")}

Finding(inProtocol, profile, capability) ==
    [protocol |-> inProtocol, profile |-> profile, capability |-> capability,
     evidence |-> rubric]

MCFindings ==
    <<Finding(rubric, fast, chatCompletions), Finding(current, fast, responses),
      Finding(current, expert, responses), Finding(current, g1, responses)>>

Ceiling(executions, attempts, wallClock) ==
    [executions |-> executions, attempts |-> attempts, wallClock |-> wallClock]

MCCeilings == {Ceiling(2, 2, 1), Ceiling(2, 3, 1), Ceiling(1, 2, 1), Ceiling(2, 1, 1)}

-----------------------------------------------------------------------------
(* Measurements: one profile or the other in one replicate of a case.      *)

Shown(ok, score, confidence, latency, rate, capacity, cost) ==
    [ok |-> ok, score |-> score, confidence |-> confidence, ttft |-> latency,
     latency |-> latency, rate |-> rate, capacity |-> capacity, cost |-> cost]

Sure == Shown(TRUE, 2, 2, 1, 2, 2, 1)
Unsure == Shown(TRUE, 1, 1, 1, 2, 2, 1)
Wrong == Shown(TRUE, 1, 2, 1, 2, 2, 1)
Silent == Shown(TRUE, 2, NoValue, 2, 1, 2, 1)
Able == Shown(TRUE, 2, 2, 2, 2, 1, 4)
Slow == Shown(TRUE, 2, 2, 4, 1, 1, 4)

Measure(group, weight, size, slices, primary, champion) ==
    [group |-> group, weight |-> weight, tokens |-> size, slices |-> slices,
     primary |-> primary, expert |-> champion]

Measured(cases, evaluator, synthetic) ==
    [cases |-> cases, parts |-> 6, evaluator |-> evaluator, synthetic |-> synthetic]

MCDevelopments ==
    {Measured({Measure("g1", 1, 1, {}, shown[1], [n \in DOMAIN shown[1] |-> shown[2]]),
               Measure("g2", 2, 3, {"critical"}, <<shown[3]>>, <<Able>>)}, "judge", TRUE) :
        shown \in {<<<<Unsure, Unsure>>, Slow, Wrong>>, <<<<Sure, Unsure>>, Able, Wrong>>,
                   <<<<Unsure, Unsure>>, Able, Silent>>,
                   <<<<Sure, Unsure, Sure>>, Slow, Silent>>}}

MCHoldouts ==
    {Measured({Measure("g3", 1, 1, {}, <<Unsure>>, <<Able>>)}, "judge", s) : s \in BOOLEAN}
    \cup {Measured({Measure(g, 1, 1, {}, <<Sure>>, <<Able>>) : g \in {"g3", "g4", "g5"}},
                   "judge", TRUE)}
    \cup {Measured({Measure(g, 1, 1, {}, <<Sure>>, <<Able>>)}, e, TRUE) :
             <<g, e>> \in {<<"g1", "judge">>, <<"g3", "laboratory">>}}

AnySpec ==
    [confidences |-> {1, 2}, tokens |-> {3, 9}, fastOnly |-> TRUE, critical |-> {},
     margin |-> 0, minimumGroups |-> 1, minimumSliceGroups |-> 0, alphaPercent |-> 5,
     scoreFloor |-> 1, sliceFloor |-> 0, maxTtft |-> 6, maxLatency |-> 6, minRate |-> 0, minCapacity |-> 0,
     maxErrorPercent |-> 50, maxCost |-> 5, minSavingPercent |-> 5]

MCSpecs ==
    {AnySpec, [AnySpec EXCEPT !.minimumGroups = 3],
     [AnySpec EXCEPT !.margin = -1, !.minCapacity = 1],
     [AnySpec EXCEPT !.critical = {"critical"}, !.minimumSliceGroups = 1, !.sliceFloor = 1,
                     !.fastOnly = FALSE, !.maxLatency = 4, !.minRate = 1]}

-----------------------------------------------------------------------------
(* The parts side by side.                                                 *)

Components == {"controller", "log", "framing", "provider", "lease", "study", "loop",
               "legacy"}

StudyIdle == JoinInit /\ phase = "development" /\ manifest = Absent /\ decision = Absent
LoopIdle ==
    /\ assessment = Absent /\ registered = {} /\ findings = {}
    /\ desk = {} /\ answer = Absent
ProviderIdle ==
    /\ protocol = Chat /\ document = Streamed
    /\ reader = Fresh /\ read = <<>> /\ status = "reading"

LegacyIdle ==
    /\ spec = AnySpec /\ development = Absent /\ holdout = Absent
    /\ nominated = Unnominated /\ artifact = NoValue /\ confirmation = NoValue

PlaneInit ==
    /\ part \in Components
    /\ Init /\ LogInit /\ FramingInit /\ LeaseInit
    /\ IF part = "provider" THEN ProviderInit ELSE ProviderIdle
    /\ IF part = "study" THEN StudyInit ELSE StudyIdle
    /\ IF part = "loop" THEN LoopInit ELSE LoopIdle
    /\ IF part = "legacy" THEN LegacyInit ELSE LegacyIdle

ControllerStep ==
    /\ part = "controller" /\ Next
    /\ UNCHANGED <<logVars, framingVars, providerVars, leaseVars, studyVars, loopVars, legacyVars>>

LogStep ==
    /\ part = "log" /\ LogNext
    /\ UNCHANGED <<vars, framingVars, providerVars, leaseVars, studyVars, loopVars, legacyVars>>

FramingStep ==
    /\ part = "framing" /\ FramingNext
    /\ UNCHANGED <<vars, logVars, providerVars, leaseVars, studyVars, loopVars, legacyVars>>

ProviderStep ==
    /\ part = "provider" /\ ProviderNext
    /\ UNCHANGED <<vars, logVars, framingVars, leaseVars, studyVars, loopVars, legacyVars>>

LeaseStep ==
    /\ part = "lease" /\ LeaseNext
    /\ UNCHANGED <<vars, logVars, framingVars, providerVars, studyVars, loopVars, legacyVars>>

StudyStep ==
    /\ part = "study" /\ StudyNext
    /\ UNCHANGED <<vars, logVars, framingVars, providerVars, leaseVars, loopVars, legacyVars>>

LoopStep ==
    /\ part = "loop" /\ LoopNext
    /\ UNCHANGED <<vars, logVars, framingVars, providerVars, leaseVars, studyVars, legacyVars>>

LegacyStep ==
    /\ part = "legacy" /\ LegacyNext
    /\ UNCHANGED <<vars, logVars, framingVars, providerVars, leaseVars, studyVars, loopVars>>

PlaneNext ==
    /\ UNCHANGED part
    /\ \/ ControllerStep \/ LogStep \/ FramingStep \/ ProviderStep
       \/ LeaseStep \/ StudyStep \/ LoopStep \/ LegacyStep

PlaneSpec == PlaneInit /\ [][PlaneNext]_planeVars

=============================================================================
