\* Two commands and one interference; a plan of two jobs with two attempts each
\* and two executions; three jobs on two slots; one call with 3 ms of deadline on a
\* clock that counts half milliseconds.
SPECIFICATION DispatchSpec
CONSTANTS
    N = 3
    MaxConcurrency = 2
    MaxAttempts = 2
    None = None
    Grain = 2
    TotalMs = 3
    DeadlineMs = 3
    ConnectMs = 2
    HeadersMs = 1
    BodyMs = 1
    MaxChunks = 1
    MaxDelay = 1
    MaxClock = 8
    champion = champion
    challenger = challenger
    aliasA = aliasA
    aliasB = aliasB
    case = case
    near = near
    far = far
    Nil = Nil
    Base <- MCBase
    Protocol <- MCProtocol
    Requirements <- MCRequirements
    Supported <- MCSupported
    RequestBytes <- MCBytes
    ResponseLimit <- MCBytes
    Drafts <- MCDrafts
    Workloads <- MCWorkloads
    LiveTargets <- MCLiveTargets
    Hashes <- MCHashes
    FinalInstant = 11
    MaxExecutions = 2
    p1 = p1
    Processes = {p1, p2}
    Assignments <- MCAssignments
    Replacements <- MCReplacements
    MaxReplacements = 1
    Editions = {"old", "rekeyed", "stricter", "new"}
    Terms <- MCTerms
    ExpectedPlan = "old"
    DevelopmentOut = "dev"
    Broken = Broken
    Vacant = Vacant
INVARIANTS
    InputsBelongTogether
    ExitSaysWhatIsThere
    LaneDiscipline
    OrderUnlessExpired
    DispatchIsProof
    CancelledCallWaitsForNothing
    DeadlinesNest
    WorkIsAdmitted
    WorkFitsItsTime
    OrderIsCounterbalanced
PROPERTIES
    EveryRunSettles
    ImplementsContract
    CallEnds
    ContactsUnderAuthority
\* A run that is over and a call that has returned do nothing more.
CHECK_DEADLOCK FALSE
