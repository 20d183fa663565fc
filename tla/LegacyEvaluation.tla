-------------------------- MODULE LegacyEvaluation ---------------------------
(***************************************************************************)
(* The first version's evaluator: src/evaluate.ts over src/policy.ts.      *)
(*                                                                         *)
(* A study measures a fast (primary) and an expert (champion) profile on   *)
(* every case. Policies are replayed over the measurements, never run.     *)
(* On the development cases the one policy is nominated that passes every  *)
(* gate and no other passing one beats; on holdout cases of other groups   *)
(* it is confirmed, perhaps by another process that has only the file of   *)
(* the nomination, and a spec that may since have been revised. The file   *)
(* may be one of the version before, whose specs had no controls and which *)
(* digested them without.                                                  *)
(*                                                                         *)
(* Measured values are natural numbers. Means are compared as totals over  *)
(* the same mass of traffic. The interval of the paired quality lies       *)
(* between the effects of the groups that it resamples, and is arbitrary   *)
(* there. Policies that tie are ordered by the digest in their names,      *)
(* which is an arbitrary order here. A digest is what it is a digest of.   *)
(***************************************************************************)
EXTENDS Integers, Sequences, FiniteSets, FiniteSetsExt

CONSTANTS
    Specs,          \* the specs an operator may write
    Developments,   \* measurements of development cases
    Holdouts,       \* measurements of holdout cases
    Keys,           \* keys an attestation may be made and checked with
    NoValue         \* null, undefined or nothing yet

\* What one profile showed in one replicate of a case.  It may not have said how
\* sure it was, and capacity is what the provider served in all while it answered.
ObservationSet ==
    [ok : BOOLEAN, score : Nat, confidence : Nat \cup {NoValue}, ttft : Nat,
     latency : Nat, rate : Nat, capacity : Nat \cup {NoValue}, cost : Nat]

\* A spec: the candidates and the limits. The last three are the controls.
SpecSet ==
    [confidences : SUBSET Nat, tokens : SUBSET Nat, fastOnly : BOOLEAN, critical : SUBSET STRING,
     margin : Int, scoreFloor : Nat, sliceFloor : Nat, maxTtft : Nat, maxLatency : Nat,
     minRate : Nat, minCapacity : Nat, maxErrorPercent : Nat, maxCost : Nat,
     minSavingPercent : Nat, minimumGroups : Nat, minimumSliceGroups : Nat, alphaPercent : Nat]

\* Specs are finite documents, and each replicate of a measured case has both
\* profiles. A case has any number of replicates: parts is the unit in which
\* measurements are weighed, a multiple of the replicates of each of their cases.
ASSUME LegacyAssumption ==
    /\ NoValue \notin Nat
    /\ IsFiniteSet(Specs) /\ Specs \subseteq SpecSet
    /\ \A s \in Specs : IsFiniteSet(s.confidences) /\ IsFiniteSet(s.tokens)
    /\ \A m \in Developments \cup Holdouts :
          /\ m.cases # {} /\ IsFiniteSet(m.cases) /\ m.parts \in Nat \ {0}
          /\ \A c \in m.cases :
                /\ c.weight \in Nat
                /\ c.primary \in Seq(ObservationSet) /\ c.expert \in Seq(ObservationSet)
                /\ Len(c.primary) \in 1..m.parts /\ Len(c.expert) = Len(c.primary)
                /\ m.parts % Len(c.primary) = 0

VARIABLES
    spec,           \* the spec in its file
    development,    \* the measurements nominated on
    holdout,        \* the measurements to confirm on
    nominated,      \* the NominationResult, or Unnominated
    artifact,       \* the nomination in its file, or NoValue
    confirmation    \* the ConfirmationResult, Rejected, or NoValue

legacyVars == <<spec, development, holdout, nominated, artifact, confirmation>>

-----------------------------------------------------------------------------
(* Policies and their replay: src/policy.ts.                               *)

Policy(kind, confidence, tokens, critical) ==
    [kind |-> kind, confidence |-> confidence, tokens |-> tokens, critical |-> critical]

ChampionPolicy(s) == Policy("expert-only", NoValue, NoValue, s.critical)

CandidatesOf(s) ==
    {Policy("cascade", c, t, s.critical) : c \in s.confidences, t \in s.tokens}
        \cup (IF s.fastOnly THEN {Policy("fast-only", NoValue, NoValue, s.critical)} ELSE {})

ShouldEscalate(policy, case, primary) ==
    \/ ~primary.ok
    \/ primary.confidence = NoValue
    \/ primary.confidence # NoValue /\ primary.confidence < policy.confidence
    \/ case.tokens >= policy.tokens
    \/ case.slices \cap policy.critical # {}

\* What an execution under the policy would have shown.  A cascade pays for both
\* profiles, one after the other, and nobody measured its capacity.
Replayed(policy, case, n) ==
    LET primary == case.primary[n]
        champion == case.expert[n]
    IN  CASE policy.kind = "expert-only" -> champion
          [] policy.kind = "fast-only" -> primary
          [] policy.kind = "cascade" /\ ~ShouldEscalate(policy, case, primary) ->
                [primary EXCEPT !.capacity = NoValue]
          [] OTHER -> [champion EXCEPT !.capacity = NoValue, !.cost = @ + primary.cost,
                           !.ttft = @ + primary.latency, !.latency = @ + primary.latency]

\* effectiveWeightedRows: the replicates of a case share its traffic.
RowsOf(policy, measured) ==
    UNION {{[case |-> c, replicate |-> n, seen |-> Replayed(policy, c, n),
             mass |-> (c.weight * measured.parts) \div Len(c.primary)] :
                n \in DOMAIN c.primary} : c \in measured.cases}

Mass(rows) == SumFunction([r \in rows |-> r.mass])
Total(rows, field) == SumFunction([r \in rows |-> r.mass * r.seen[field]])

\* weightedQuantile: the first value that enough of the mass does not exceed.
Quantile(rows, field, percent) ==
    Min({r.seen[field] : r \in {x \in rows :
        100 * Mass({y \in rows : y.seen[field] <= x.seen[field]}) >= percent * Mass(rows)}})

MetricsOf(policy, measured) ==
    LET rows == RowsOf(policy, measured)
    IN  [score |-> Total(rows, "score"),
         rate |-> Quantile(rows, "rate", 10),
         errors |-> Mass({r \in rows : ~r.seen.ok}),
         ttft |-> Quantile(rows, "ttft", 95),
         latency |-> Quantile(rows, "latency", 95),
         cost |-> Total(rows, "cost"),
         capacity |-> IF \E r \in rows : r.seen.capacity = NoValue THEN NoValue
                      ELSE Quantile(rows, "capacity", 50)]

-----------------------------------------------------------------------------
(* Gates: evaluatePolicyInternal.                                          *)

GroupsOf(cases) == {c.group : c \in cases}
InSlice(measured, slice) == {c \in measured.cases : slice \in c.slices}

\* pairRows: twice the median of what the policy gains over the champion, which is
\* the least gain that half of them do not exceed and the greatest that half reach.
TwiceEffect(policy, s, case) ==
    LET all == DOMAIN case.primary
        gain(n) == Replayed(policy, case, n).score - Replayed(ChampionPolicy(s), case, n).score
        half(some) == 2 * Cardinality(some) >= Cardinality(all)
    IN  Min({gain(n) : n \in {k \in all : half({l \in all : gain(l) <= gain(k)})}})
            + Max({gain(n) : n \in {k \in all : half({l \in all : gain(l) >= gain(k)})}})

\* Whether one group alone is within the margin.
GroupHolds(policy, s, cases) ==
    SumFunction([c \in cases |-> c.weight * TwiceEffect(policy, s, c)])
        >= 2 * s.margin * SumFunction([c \in cases |-> c.weight])

Covered(s, measured) ==
    /\ Cardinality(GroupsOf(measured.cases)) >= s.minimumGroups
    /\ \A slice \in s.critical :
          Cardinality(GroupsOf(InSlice(measured, slice))) >= s.minimumSliceGroups

\* bootstrapGroupedWeightedMeanCI: resampled groups are no better than the best
\* and no worse than the worst of them.  Without coverage there is no interval.
QualityOutcomes(policy, s, measured) ==
    LET holds == {GroupHolds(policy, s, {c \in measured.cases : c.group = g}) :
                      g \in GroupsOf(measured.cases)}
    IN  IF Covered(s, measured) THEN holds ELSE {FALSE}

\* quality is whether the lower end of the interval is within the margin.
Gates(policy, m, s, measured, quality, nominating) ==
    LET champion == Total(RowsOf(ChampionPolicy(s), measured), "cost")
        rows == RowsOf(policy, measured)
        mass == Mass(rows)
        ofSlice(slice) == {r \in rows : slice \in r.case.slices}
    IN  [paired_quality_non_inferiority |-> quality,
         minimum_groups |-> Covered(s, measured),
         mean_task_score |-> m.score >= s.scoreFloor * mass,
         critical_slice |-> \A slice \in s.critical :
             ofSlice(slice) # {}
                /\ Total(ofSlice(slice), "score") >= s.sliceFloor * Mass(ofSlice(slice)),
         p95_ttft |-> m.ttft <= s.maxTtft,
         p95_end_to_end_latency |-> m.latency <= s.maxLatency,
         p10_perceived_tps |-> m.rate >= s.minRate,
         p50_total_tps |-> IF m.capacity = NoValue THEN s.minCapacity = 0
                           ELSE m.capacity >= s.minCapacity,
         error_rate |-> 100 * m.errors <= s.maxErrorPercent * mass,
         cost_per_thousand |-> m.cost <= s.maxCost * mass,
         development_cost_improvement |-> nominating =>
             champion > 0 /\ 100 * (champion - m.cost) >= s.minSavingPercent * champion]

Failed(gates) == {g \in DOMAIN gates : ~gates[g]}

-----------------------------------------------------------------------------
(* Nomination.                                                             *)

HigherIsBetter(s) ==
    {"score", "rate"} \cup (IF s.minCapacity > 0 THEN {"capacity"} ELSE {})
LowerIsBetter == {"errors", "ttft", "latency", "cost"}

NeverWorse(s, left, right) ==
    /\ \A k \in HigherIsBetter(s) :
          left[k] # NoValue /\ right[k] # NoValue /\ left[k] >= right[k]
    /\ \A k \in LowerIsBetter : left[k] <= right[k]

\* dominates, of policies that differ in some objective.
Dominates(s, left, right) ==
    /\ NeverWorse(s, left, right)
    /\ \E k \in HigherIsBetter(s) \cup LowerIsBetter : left[k] # right[k]

\* boundedParetoFrontier; metrics are those of each policy.
Frontier(s, metrics, passers) ==
    {p \in passers : ~\E q \in passers : Dominates(s, metrics[q], metrics[p])}

\* Faulty variant: waiting counts before cost.
FasterOrCheaper(left, right) ==
    left.latency < right.latency \/ (left.latency = right.latency /\ left.cost < right.cost)

CheaperOrFaster(left, right) ==
    left.cost < right.cost \/ (left.cost = right.cost /\ left.latency < right.latency)

\* The first of nominatePolicy's orderedFrontier, or those that tie for it.
Preferred(metrics, frontier) ==
    {p \in frontier : ~\E q \in frontier : CheaperOrFaster(metrics[q], metrics[p])}

\* The file of a nomination: a body, and the digest of the body.
Body(s, policy, measured) ==
    [spec |-> s, policy |-> policy, groups |-> GroupsOf(measured.cases),
     evaluator |-> measured.evaluator, synthetic |-> measured.synthetic]

Unnominated == [status |-> "none"]

\* evaluations of nominatePolicy: what each candidate showed, and its gates.
Evaluations(quality) ==
    [p \in CandidatesOf(spec) |->
        LET m == MetricsOf(p, development)
        IN  [metrics |-> m, gates |-> Gates(p, m, spec, development, quality[p], TRUE)]]

\* nominatePolicy, with the key that the environment holds, or none.
Nominate(key) ==
    /\ nominated = Unnominated
    /\ \E quality \in [CandidatesOf(spec) -> BOOLEAN] :
        /\ \A p \in CandidatesOf(spec) :
              quality[p] \in QualityOutcomes(p, spec, development)
        /\ \E evaluations \in {Evaluations(quality)} :
            LET metrics == [p \in DOMAIN evaluations |-> evaluations[p].metrics]
                passers == {p \in DOMAIN evaluations : Failed(evaluations[p].gates) = {}}
                choices == Preferred(metrics, Frontier(spec, metrics, passers))
                result(status, policy) ==
                    [status |-> status, evaluations |-> evaluations, spec |-> spec,
                     policy |-> policy]
            IN  IF choices = {}
                THEN nominated' = result("NO_CANDIDATE", NoValue) /\ UNCHANGED artifact
                ELSE \E policy \in choices :
                     LET body == Body(spec, policy, development)
                     IN  /\ nominated' = result("NOMINATED", policy)
                         /\ artifact' = [body |-> body, selfDigest |-> body,
                                         key |-> key, attested |-> body]
    /\ UNCHANGED <<spec, development, holdout, confirmation>>

\* legacySpecProjection: a spec as the version before wrote it.
LegacyProjection(s) ==
    [f \in DOMAIN s \ {"minimumGroups", "minimumSliceGroups", "alphaPercent"} |-> s[f]]

\* hasLegacyDefaultInferenceControls
DefaultControls(s) ==
    /\ s.alphaPercent = 5 /\ s.minimumGroups = 3
    /\ s.minimumSliceGroups = IF s.critical = {} THEN 0 ELSE 1

\* The version before nominated one of the candidates, in ways of its own. Its
\* specs name no controls, and are now read with the defaults.
NominateBefore(key) ==
    /\ nominated = Unnominated
    /\ DefaultControls(spec)
    /\ \E policy \in CandidatesOf(spec) :
        LET body == [Body(spec, policy, development) EXCEPT !.spec = LegacyProjection(spec)]
        IN  /\ nominated' = [status |-> "NOMINATED_BEFORE", spec |-> spec, policy |-> policy]
            /\ artifact' = [body |-> body, selfDigest |-> body, key |-> key, attested |-> body]
    /\ UNCHANGED <<spec, development, holdout, confirmation>>

\* Someone changes which policy the file names, and not the digests.
EditNomination(policy) ==
    /\ artifact # NoValue
    /\ confirmation = NoValue
    /\ artifact' = [artifact EXCEPT !.body.policy = policy]
    /\ UNCHANGED <<spec, development, holdout, nominated, confirmation>>

ReviseSpec(s) ==
    /\ nominated # Unnominated
    /\ confirmation = NoValue
    /\ spec' = s
    /\ UNCHANGED <<development, holdout, nominated, artifact, confirmation>>

-----------------------------------------------------------------------------
(* Confirmation: confirmNomination.                                        *)

\* verifyNominationAttestation: required where the environment holds a key.
AttestationHolds(key) ==
    key # NoValue => artifact.key = key /\ artifact.attested = artifact.body

\* The spec that the nomination digests is the one of this process, whole or as the
\* version before wrote it.
OfThisSpec ==
    \/ artifact.body.spec = spec
    \/ DefaultControls(spec) /\ artifact.body.spec = LegacyProjection(spec)

\* Faulty variant: the groups of the two splits may meet.
ConfirmableLeaking(key) ==
    /\ AttestationHolds(key)
    /\ artifact.selfDigest = artifact.body
    /\ OfThisSpec
    /\ artifact.body.policy \in CandidatesOf(spec)
    /\ artifact.body.evaluator = holdout.evaluator

Confirmable(key) ==
    /\ AttestationHolds(key)
    /\ artifact.selfDigest = artifact.body
    /\ OfThisSpec
    /\ artifact.body.policy \in CandidatesOf(spec)
    /\ artifact.body.evaluator = holdout.evaluator
    /\ GroupsOf(holdout.cases) \cap artifact.body.groups = {}

Rejected == [status |-> "refused"]

Confirm(key) ==
    /\ artifact # NoValue
    /\ confirmation = NoValue
    /\ IF ~Confirmable(key) THEN confirmation' = Rejected
       ELSE \E quality \in QualityOutcomes(artifact.body.policy, spec, holdout) :
            LET policy == artifact.body.policy
                failed == Failed(Gates(policy, MetricsOf(policy, holdout), spec, holdout,
                                       quality, FALSE))
            IN  confirmation' =
                    [status |-> IF failed = {} /\ (artifact.body.synthetic \/ holdout.synthetic)
                                THEN "DEMO_ONLY" ELSE "HOLD",
                     policy |-> policy, spec |-> spec, failed |-> failed,
                     verified |-> key # NoValue]
    /\ UNCHANGED <<spec, development, holdout, nominated, artifact>>

LegacyInit ==
    /\ spec \in Specs
    /\ development \in Developments
    /\ holdout \in Holdouts
    /\ nominated = Unnominated
    /\ artifact = NoValue
    /\ confirmation = NoValue

LegacyNext ==
    \/ \E key \in Keys \cup {NoValue} : Nominate(key) \/ NominateBefore(key) \/ Confirm(key)
    \/ \E policy \in CandidatesOf(spec) : EditNomination(policy)
    \/ \E s \in Specs : ReviseSpec(s)

LegacySpec == LegacyInit /\ [][LegacyNext]_legacyVars

-----------------------------------------------------------------------------
(* Properties.                                                             *)

\* The nominee is the right one of all that pass, though nominatePolicy looks
\* for it among those that nothing dominates: no passing policy is cheaper, none
\* as cheap is faster, and none is better in one objective and worse in none.
NomineeIsBest ==
    nominated.status = "NOMINATED" =>
        LET s == nominated.spec
            done == nominated.evaluations
            passers == {p \in DOMAIN done : Failed(done[p].gates) = {}}
            m == [p \in passers |-> done[p].metrics]
            nominee == nominated.policy
            gain(p, k) == IF k \in LowerIsBetter THEN m[nominee][k] - m[p][k]
                          ELSE m[p][k] - m[nominee][k]
            objectives == HigherIsBetter(s) \cup LowerIsBetter
        IN  /\ nominee \in passers
            /\ \A p \in passers :
                /\ m[nominee].cost <= m[p].cost
                /\ m[p].cost = m[nominee].cost => m[nominee].latency <= m[p].latency
                /\ (\E k \in objectives : gain(p, k) > 0)
                        => \E k \in objectives : gain(p, k) < 0

\* What is confirmed, with whatever file and spec the second process finds, is
\* the policy that development selected under the same spec, in this version or
\* the one before, judged on groups that took no part in the selection; and only
\* a demonstration ever passes.
ConfirmsTheNominee ==
    confirmation \notin {NoValue, Rejected} =>
        /\ confirmation.policy = nominated.policy
        /\ confirmation.spec = nominated.spec
        /\ GroupsOf(holdout.cases) \cap GroupsOf(development.cases) = {}
        /\ holdout.evaluator = development.evaluator
        /\ confirmation.status = "DEMO_ONLY" =>
              /\ confirmation.failed = {}
              /\ development.synthetic \/ holdout.synthetic

=============================================================================
