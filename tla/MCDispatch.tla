----------------------------- MODULE MCDispatch ------------------------------
(***************************************************************************)
(* Instances for TLC of the dispatch of a run: the command that starts it, *)
(* among other commands, the plan that gives it its authority and its      *)
(* budget, the scheduler that decides when a job makes its call, and one   *)
(* call.  To a command a run is what may contact somebody and ends, to the *)
(* plan it is a list of jobs that spend from the budget, to the scheduler  *)
(* a call is a step that ends, to the call the scheduler is whoever may    *)
(* abort it; they share no variable.  A behaviour is one of one part,      *)
(* chosen at the start, while the others rest: commands that do not start, *)
(* a plan that is not built, a run without calls that is over, a call that *)
(* nobody made.                                                            *)
(***************************************************************************)
EXTENDS DispatchOrder, RuntimeCall, CollectionPlan, CommandLine, TLC

CONSTANTS champion, challenger, aliasA, aliasB, case, near, far, p1

VARIABLE part

dispatchVars == <<part, orderVars, vars, planVars, commandVars>>

-----------------------------------------------------------------------------
(* One case of two replicates, under a champion and a candidate.  Only a   *)
(* plan of two jobs fits the budget of calls.  Every attempt may take two  *)
(* instants.                                                               *)

MCBase == <<champion, challenger>>

MCProtocol ==
    [created |-> 0, expires |-> 12, maximumLogicalExecutions |-> 4, maximumConcurrency |-> 1,
     maximumAttempts |-> 2, attemptTimeout |-> 2,
     requiredCapabilities |-> {"chat-completions", "streaming", "final-usage"}]

MCRequirements == {<<champion, aliasA>>, <<challenger, aliasB>>}
MCSupported == {champion, challenger} \X {"streaming", "final-usage"}
MCBytes == champion :> 2 @@ challenger :> 3

Target(profile, alias, binding) ==
    [profile |-> profile, alias |-> alias, binding |-> binding, route |-> "chatCompletions"]
MCTargets == <<Target(challenger, aliasB, near), Target(champion, aliasA, near)>>
MCLiveTargets ==
    {MCTargets, <<Target(champion, aliasA, near), Target(challenger, aliasB, far)>>}

WorkBudget(records, wallClock) ==
    [cases |-> 1, profiles |-> 2, replicates |-> 2, executions |-> 4,
     attempts |-> 4, calls |-> 4, records |-> records, requestBytes |-> 10,
     responseBytes |-> 10, wallClock |-> wallClock, concurrency |-> 1]

\* A plan for a policy that ends when it ends, with so many records and so much time.
Draft(policyEnd, records, wallClock) ==
    LET policy == [issued |-> 0, expires |-> policyEnd]
    IN  [policy |-> policy, issued |-> 1, expires |-> 11,
         snapshot |-> [state |-> "SHADOW_ASSESSING", selected |-> policy, lastEventAt |-> 1],
         window |-> [start |-> 1, end |-> 11], targets |-> MCTargets,
         budget |-> WorkBudget(records, wallClock)]

\* A good plan; a policy that ends too early; a record or half the time too little.
MCDrafts == {Draft(12, 15, 8), Draft(5, 15, 8), Draft(12, 14, 8), Draft(12, 15, 4)}

MCWorkloads ==
    {<<[case |-> case, replicates |-> 2, signalAt |-> Nil, chat |-> TRUE, streamed |-> TRUE]>>}

\* The second replicate is in the sample, or both are and the second ranks first.
MCHashes ==
    {[selected |-> {<<case, 1>>}, digest |-> <<case, 0>> :> 0 @@ <<case, 1>> :> 0],
     [selected |-> {<<case, 0>>, <<case, 1>>}, digest |-> <<case, 0>> :> 1 @@ <<case, 1>> :> 0]}

-----------------------------------------------------------------------------
(* Commands that meet in a file or in an output.                           *)

Command(kind, out) == [kind |-> kind, out |-> out]

MCAssignments ==
    {[p \in Processes |-> IF p = p1 THEN pair[1] ELSE pair[2]] :
        pair \in ({Command("assess_development", "dev")}
                    \X {Command("assess_development", "dev"), Command("assess_holdout", "dev"),
                        Command("assess_holdout", "holdout"), Command("experiment_next", "next")})
            \cup ({Command("shadow_run", "run")}
                    \X {Command(k, "run") : k \in {"runtime_probe", "protocol_validate",
                                                   "traces_validate"}})
            \cup ({Command("assess_window", "window")}
                    \X {Command("evidence_validate", "window")})}

\* Trust with other evaluators and a longer deadline, an identity with another key,
\* and profiles with another secret say the same; new ones differ in all, and
\* trust of the stricter edition allows no request as long as an attempt.
MCTerms ==
    LET old == [binding |-> near, targets |-> "both", study |-> "first",
                attemptTimeout |-> 2, longestRequest |-> 2]
    IN  "old" :> old
        @@ "rekeyed" :> [old EXCEPT !.longestRequest = 3]
        @@ "stricter" :> [old EXCEPT !.longestRequest = 1]
        @@ "new" :> [binding |-> far, targets |-> "one", study |-> "second",
                     attemptTimeout |-> 3, longestRequest |-> 3]

\* One file that belongs with another, or all of them.
MCReplacements ==
    LET dated == {"protocol", "devContext", "devTraces", "context", "evidence", "window",
                  "plan", "runtime"}
        bound == {"profiles", "collectorTrust", "identity"}
        Becomes(paths, contents) == [paths : paths, content : contents]
    IN  Becomes({{f} : f \in dated} \cup {Paths}, {"new", Broken})
        \cup Becomes({{f} : f \in bound}, {"rekeyed", "stricter", "new", Broken})

-----------------------------------------------------------------------------
(* The parts side by side.                                                 *)

OrderIdle ==
    /\ lane = [i \in Jobs |-> i] /\ status = [i \in Jobs |-> "over"]
    /\ result = [i \in Jobs |-> "done"] /\ attempts = [i \in Jobs |-> 0]
    /\ turn = [i \in Jobs |-> "none"] /\ next = N + 1 /\ contacts = <<>>
    /\ cancelled = FALSE /\ fatal = FALSE /\ promise = "resolved" /\ expired = {}

PlanIdle ==
    /\ plan = Nil /\ hash = Nil /\ workload = Nil /\ jobs = <<>> /\ time = 0
    /\ granted = Nil /\ record = <<>> /\ execution = Nil /\ started = 0
    /\ sent = <<>> /\ idled = FALSE

CommandIdle ==
    /\ files = <<>> /\ packets = <<>> /\ replaced = 0 /\ command = <<>> /\ seen = <<>>
    /\ commandAt = <<>> /\ contacted = {} /\ exit = [p \in Processes |-> "none"]

DispatchInit ==
    /\ part \in {"commands", "plan", "order", "call"} /\ Init
    /\ IF part = "commands" THEN CommandInit ELSE CommandIdle
    /\ IF part = "order" THEN OrderInit ELSE OrderIdle
    /\ IF part = "plan" THEN PlanInit ELSE PlanIdle

\* A step of a command, under the plan, of the scheduler, or of the call.
Commanding(step) ==
    part = "commands" /\ step /\ UNCHANGED <<part, orderVars, vars, planVars>>
Planning(step) == part = "plan" /\ step /\ UNCHANGED <<part, orderVars, vars, commandVars>>
Scheduling(step) == part = "order" /\ step /\ UNCHANGED <<part, vars, planVars, commandVars>>
Calling(step) == part = "call" /\ step /\ UNCHANGED <<part, orderVars, planVars, commandVars>>

DispatchNext ==
    \/ Commanding(CommandNext) \/ Planning(PlanNext) \/ Scheduling(OrderNext)
    \/ Calling(Next)

\* OrderFairness of the scheduler, and Fairness of the call.
DispatchFairness ==
    /\ WF_dispatchVars(Scheduling(Start))
    /\ \A i \in Jobs : /\ WF_dispatchVars(Scheduling(Enter(i) \/ End(i)))
                       /\ WF_dispatchVars(Scheduling(Handle(i) \/ Finally(i)))
    /\ WF_dispatchVars(Calling(Tick)) /\ WF_dispatchVars(Calling(CallStep))

DispatchSpec == DispatchInit /\ [][DispatchNext]_dispatchVars /\ DispatchFairness

=============================================================================
