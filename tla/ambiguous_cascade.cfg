SPECIFICATION PlaneSpec
CONSTANTS
    PolicyIds = {p1, p2}
    Sources = {s1, s2}
    Capacities = {capacity}
    Windows = {w1, w2}
    WindowEnds = {1}
    Issues = {issue}
    DriftReasons = {drift}
    None = None
    Expiry = 2
    MaxTime = 3
    MaxEvents = 11
    MaxWindows = 2
    MaxRevisions = 3
    MaxAssessments = 4
    MaxReasons = 2
    Facts = {note, decide, retire}
    DecisionFacts = {decide}
    Retirement = retire
    NoReplay = NoReplay
    MaxSequence = 3
    MaxReplay = 3
    MaxEmitted = 3
    MaxLive = 2
    MaxBytes = 6
    MaxMarks = 2
    MaxText = 2
    Streamed = Streamed
    fast = fast
    expert = expert
    t1 = t1
    t2 = t2
    t3 = t3
    c1 = c1
    c2 = c2
    g1 = g1
    k1 = k1
    k2 = k2
    o1 = o1
    o2 = o2
    current = current
    rubric = rubric
    chatCompletions = chatCompletions
    responses = responses
    Instances = {p1, p2}
    StaticCapability <- MCStaticCapability
    Unused = Unused
    TicksPerMs = 2
    Deadlines = {1}
    Lifetimes = {1}
    MaxInstant = 3
    MaxAnswered = 2
    Absent = Absent
    TraceRows <- MCTraceRows
    Verifications <- MCVerifications
    Bundles <- MCBundles
    Contexts <- MCContexts
    Trust <- MCTrust
    Evaluator <- MCEvaluator
    Predicates <- MCPredicates
    Champion = expert
    Candidates = {fast}
    Created = 1
    Expires = 6
    MaxTraceRows = 3
    MaxEvidenceRows = 2
    MaxRows = 4
    WindowStart = 2
    WindowEnd = 3
    CapacityEvidence = {unmeasured}
    Watermarks = {3, 4}
    MinimumGroups = 1
    CapacityRequired = FALSE
    MaxManifests = 2
    MinSealed = 3
    Nobody = Absent
    Assessments <- MCAssessments
    Findings <- MCFindings
    Ceilings <- MCCeilings
    NewProtocols = {s1, s2}
    EvaluatorStale = {"evaluator-evidence-revoked", "evaluator-evidence-stale"}
    Keys = {k1}
    NoValue = Absent
    Specs <- MCSpecs
    Developments <- MCDevelopments
    Holdouts <- MCHoldouts
CHECK_DEADLOCK FALSE
SYMMETRY Symmetry
INVARIANTS
    PassHasNoAmbiguity
