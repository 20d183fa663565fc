----------------------------- MODULE CommandLine -----------------------------
(***************************************************************************)
(* The commands of src/cli-v2.ts and the exit codes of src/cli.ts.         *)
(*                                                                         *)
(* A command reads its files one after the other, or a few of them at      *)
(* once, parses each and compares it with those before it, and then        *)
(* publishes one packet or opens the network.  Nobody holds the files      *)
(* still meanwhile: operators replace them, edit a published decision, and *)
(* run other commands, and a process may be killed anywhere.               *)
(*                                                                         *)
(* A file is of an edition: what was written together agrees (a context    *)
(* names the snapshots it is about, traces their protocol, evidence its    *)
(* traces and signers) and what was not does not.  The files of a contact  *)
(* are compared by some of their terms only: trust that lists other        *)
(* evaluators is other trust, but it may bind the same endpoint.  A        *)
(* decision stands for the inputs that it is computed from and a digest    *)
(* for what it covers.  What assessments decide is not modelled here but   *)
(* for whether evidence of the traces was trusted, without which nothing   *)
(* is nominated.  Argument parsing, limits and messages are left out.      *)
(***************************************************************************)
EXTENDS Naturals, Sequences, FiniteSetsExt

CONSTANTS
    Processes,        \* command processes
    Assignments,      \* which command, to which output, each process may run
    Editions,         \* of the files
    Terms,            \* Terms[e]: what files of e say of the contacts of a command
    ExpectedPlan,     \* the edition that --expected-plan-digest names
    DevelopmentOut,   \* where --nomination and --assessment point into
    Replacements,     \* files that an operator replaces at once, and the content
    MaxReplacements,  \* bound: replacements and edits
    Broken,           \* a file absent, malformed or of another phase
    Vacant            \* nothing there, or not read

\* What a file may hold, and what a decision says.
Contents == Editions \cup {Vacant, Broken}
Decisions ==
    [phase : {"development", "holdout", "window"}, protocol : Contents, trust : Contents,
     traces : Contents, evidence : Contents,
     status : {"NOMINATED", "INSUFFICIENT_EVIDENCE"}]

\* Terms count milliseconds; a file is replaced by a file.  Nothing and what does
\* not parse are neither files, nor decisions, nor packets.
ASSUME CommandAssumption ==
    /\ ExpectedPlan \in Editions /\ MaxReplacements \in Nat
    /\ \A e \in Editions : Terms[e].attemptTimeout \in Nat /\ Terms[e].longestRequest \in Nat
    /\ \A r \in Replacements : r.content \in Editions \cup {Broken}
    /\ Vacant # Broken /\ {Vacant, Broken} \cap (Editions \cup Decisions) = {}
    /\ Vacant \notin [by : Processes, decision : Decisions \cup {Broken},
                      lineage : Decisions \cup {Vacant, Broken}]

VARIABLES
    files,         \* files[path]: what is there
    packets,       \* packets[out]: the packet published there
    replaced,      \* how often operators interfered
    command,       \* command[p]: what p was started with
    seen,          \* seen[p]: what p has read of each path
    commandAt,     \* where p is
    contacted,     \* the processes that opened the network
    exit           \* exit[p]: the exit code, or "none" while it runs

commandVars == <<files, packets, replaced, command, seen, commandAt, contacted, exit>>

-----------------------------------------------------------------------------
(* What commands read.                                                     *)

\* The reads of each command, in order; those in one set are not ordered.  The
\* files named "dev" are those that development decided on, read again.
Reads ==
    [protocol_validate |-> <<{"budget"}, {"protocol"}>>,
     traces_validate |-> <<{"budget"}, {"traces"}>>,
     evidence_validate |-> <<{"budget"}, {"trust"}, {"context"}, {"evidence"}>>,
     assess_development |->
        <<{"budget"}, {"protocol"}, {"devTrust"}, {"devContext"}, {"devTraces"},
          {"devEvidence"}>>,
     assess_holdout |->
        <<{"budget"}, {"protocol"}, {"devTrust"}, {"devContext"}, {"devTraces"},
          {"devEvidence"}, {"decision"}, {"trust"}, {"context"}, {"traces"}, {"evidence"}>>,
     assess_window |->
        <<{"budget"}, {"protocol"}, {"trust"}, {"context"}, {"traces"}, {"evidence"},
          {"policy"}, {"window"}>>,
     experiment_next |-> <<{"decision"}, {"history"}, {"budget"}>>,
     runtime_probe |-> <<{"endpoint", "runtime", "collectorTrust"}>>,
     shadow_run |-> <<{"plan"}, {"profiles", "collectorTrust", "identity"}, {"cases"}>>]

Paths == UNION {UNION {Reads[k][n] : n \in DOMAIN Reads[k]} : k \in DOMAIN Reads}

Publishing == {"assess_development", "assess_holdout", "assess_window", "experiment_next"}
Contacting == {"runtime_probe", "shadow_run"}

Content(path) ==
    IF path # "decision" THEN files[path]
    ELSE IF packets[DevelopmentOut] = Vacant THEN Broken
    ELSE packets[DevelopmentOut].decision

\* The files the command waits for.
Pending(kind, read) ==
    LET reads == Reads[kind]
        unread(n) == {path \in reads[n] : read[path] = Vacant}
        open == {n \in DOMAIN reads : unread(n) # {}}
    IN  IF open = {} THEN {} ELSE unread(Min(open))

-----------------------------------------------------------------------------
(* What they compare.                                                      *)

\* The decision on a data set: rows not signed by whom the snapshot trusts are
\* dropped, and so is evidence of other traces.  NOMINATED stands for what each
\* phase says of a policy that passes.
DecisionOn(phase, protocol, trust, traces, evidence) ==
    [phase |-> phase, protocol |-> protocol, trust |-> trust, traces |-> traces,
     evidence |-> evidence,
     status |-> IF evidence = traces /\ evidence = trust THEN "NOMINATED"
                ELSE "INSUFFICIENT_EVIDENCE"]

Renominated(read) ==
    DecisionOn("development", read["protocol"], read["devContext"], read["devTraces"],
               read["devEvidence"])

\* Faulty variant: a nomination is what says it is one.
RevalidatedAsRead(decision, read) == decision.status = "NOMINATED"

\* revalidateDevelopmentNomination
Revalidated(decision, read) ==
    /\ decision # Broken
    /\ decision.status = "NOMINATED"
    /\ decision = Renominated(read)

\* Whether files that were both read belong together.
Agree(read, paths) ==
    \A f, g \in paths : read[f] # Vacant /\ read[g] # Vacant => read[f] = read[g]

WellFormed(read) == \A path \in Paths : read[path] # Broken

\* loadTrustContext: a context names its trust and its revocations.
TrustOfContext(read) ==
    Agree(read, {"devTrust", "devContext"}) /\ Agree(read, {"trust", "context"})

\* Traces are joined under their protocol; a policy is of its protocol.
DataOfProtocol(read) ==
    /\ Agree(read, {"protocol", "devTraces"})
    /\ Agree(read, {"protocol", "traces"})
    /\ Agree(read, {"protocol", "policy"})

\* A window names its policy and its rows.
RowsOfWindow(read) ==
    Agree(read, {"window", "traces", "policy"}) /\ Agree(read, {"window", "evidence"})

WereRead(read, paths) == \A f \in paths : read[f] # Vacant

\* Whether files say the same of the endpoints, the targets or the study.
SameTerm(term, read, paths) ==
    \A f, g \in paths : Terms[read[f]][term] = Terms[read[g]][term]

\* assertEndpointBinding: the binding of an endpoint covers what trust says of that
\* endpoint, and nothing else of it.
EndpointOfRuntime(read) ==
    LET probed == {"endpoint", "runtime", "collectorTrust"}
    IN  WereRead(read, probed) => SameTerm("binding", read, probed)

\* validateShadowTarget, and shadowAuthorities but for its keys, after the last
\* read: targets are those of the plan at the endpoints that trust and plan bind,
\* an attempt of the plan fits the requests that trust allows, and identities are
\* for the study of the plan.
RunOfPlan(read) ==
    /\ read["plan"] # Vacant => read["plan"] = ExpectedPlan
    /\ WereRead(read, {"plan", "profiles", "collectorTrust", "identity", "cases"}) =>
          /\ SameTerm("binding", read, {"plan", "profiles", "collectorTrust"})
          /\ SameTerm("targets", read, {"plan", "profiles"})
          /\ Terms[read["plan"]].attemptTimeout <= Terms[read["collectorTrust"]].longestRequest
          /\ SameTerm("study", read, {"plan", "identity"})

\* Whether the command goes on after what it has read.
Accepted(kind, read) ==
    /\ WellFormed(read)
    /\ TrustOfContext(read) /\ DataOfProtocol(read) /\ RowsOfWindow(read)
    /\ EndpointOfRuntime(read) /\ RunOfPlan(read)
    /\ kind = "evidence_validate" => Agree(read, {"evidence", "trust"})
    /\ kind = "assess_holdout" /\ read["decision"] # Vacant =>
          Revalidated(read["decision"], read)

\* What the command publishes.  A holdout decision names its nomination.
Product(p) ==
    LET read == seen[p]
        kind == command[p].kind
    IN  [by |-> p,
         decision |->
            CASE kind = "assess_development" -> Renominated(read)
              [] kind = "assess_holdout" ->
                    DecisionOn("holdout", read["protocol"], read["context"],
                               read["traces"], read["evidence"])
              [] kind = "assess_window" ->
                    DecisionOn("window", read["protocol"], read["context"],
                               read["traces"], read["evidence"])
              [] kind = "experiment_next" -> Broken,
         lineage |-> IF kind \in {"assess_holdout", "experiment_next"} THEN read["decision"]
                     ELSE Vacant]

-----------------------------------------------------------------------------
Goes(p, step) == commandAt' = [commandAt EXCEPT ![p] = step] /\ UNCHANGED exit

Exits(p, code) ==
    /\ commandAt' = [commandAt EXCEPT ![p] = "ended"]
    /\ exit' = [exit EXCEPT ![p] = code]

\* The next file is read and parsed; a CliInputError ends the process.  After
\* the last, the command goes on to its output, to its contact, or is done.
ReadFile(p, path) ==
    /\ seen' = [seen EXCEPT ![p][path] = Content(path)]
    /\ LET kind == command[p].kind
       IN  IF ~Accepted(kind, seen'[p]) THEN Exits(p, "3")
           ELSE IF Pending(kind, seen'[p]) # {} THEN UNCHANGED <<commandAt, exit>>
           ELSE IF kind \in Publishing THEN Goes(p, "publishing")
           ELSE IF kind \in Contacting THEN Goes(p, "authorized")
           ELSE Exits(p, "0")
    /\ UNCHANGED <<files, packets, replaced, command, contacted>>

\* readSecret, loadShadowSigningKey: the environment lacks a key, or it is not
\* the key that the protocol names.
RejectSecret(p) ==
    /\ commandAt[p] = "authorized"
    /\ Exits(p, "3")
    /\ UNCHANGED <<files, packets, replaced, command, seen, contacted>>

\* assertExistingOutputRoot
RejectRoot(p) ==
    /\ commandAt[p] = "authorized"
    /\ command[p].kind = "shadow_run"
    /\ Exits(p, "4")
    /\ UNCHANGED <<files, packets, replaced, command, seen, contacted>>

StartRuntime(p) ==
    /\ commandAt[p] = "authorized"
    /\ Goes(p, "running")
    /\ UNCHANGED <<files, packets, replaced, command, seen, contacted>>

OpenNetwork(p) ==
    /\ commandAt[p] = "running"
    /\ contacted' = contacted \cup {p}
    /\ UNCHANGED <<files, packets, replaced, command, seen, commandAt, exit>>

\* A probe that observed an error, and a run stopped by an invocation's error,
\* are runtime failures, reported as what is unexpected is; a probe whose input is rejected has opened nothing; and
\* whatever else stops a run is called a failure of its output.
EndRuntime(p, code) ==
    /\ commandAt[p] = "running"
    /\ code = "3" => command[p].kind = "runtime_probe" /\ p \notin contacted
    /\ code = "4" => command[p].kind = "shadow_run"
    /\ Exits(p, code)
    /\ UNCHANGED <<files, packets, replaced, command, seen, contacted>>

\* writeArtifactPacket: the target must be absent and the staged packet is
\* renamed to it, which fails if somebody was faster.
CheckTarget(p) ==
    /\ commandAt[p] = "publishing"
    /\ IF packets[command[p].out] = Vacant THEN Goes(p, "renaming") ELSE Exits(p, "4")
    /\ UNCHANGED <<files, packets, replaced, command, seen, contacted>>

\* Faulty variant: a packet that is there already will do.
PublishAnyhow(p) ==
    /\ commandAt[p] = "renaming"
    /\ packets' = [packets EXCEPT ![command[p].out] =
                       IF @ = Vacant THEN Product(p) ELSE @]
    /\ Goes(p, "confirming")
    /\ UNCHANGED <<files, replaced, command, seen, contacted>>

Publish(p) ==
    /\ commandAt[p] = "renaming"
    /\ IF packets[command[p].out] = Vacant
       THEN /\ packets' = [packets EXCEPT ![command[p].out] = Product(p)]
            /\ Goes(p, "confirming")
       ELSE Exits(p, "4") /\ UNCHANGED packets
    /\ UNCHANGED <<files, replaced, command, seen, contacted>>

\* Some operation of the writer fails, before its rename or after it.
FailToPublish(p) ==
    /\ commandAt[p] \in {"publishing", "renaming", "confirming"}
    /\ Exits(p, "4")
    /\ UNCHANGED <<files, packets, replaced, command, seen, contacted>>

ConfirmPacket(p) ==
    /\ commandAt[p] = "confirming"
    /\ Exits(p, "0")
    /\ UNCHANGED <<files, packets, replaced, command, seen, contacted>>

\* Whatever is caught as nothing else, the writing of the result among it.
FailInternally(p) ==
    /\ commandAt[p] \in {"reading", "authorized", "publishing", "confirming"}
    /\ Exits(p, "1")
    /\ UNCHANGED <<files, packets, replaced, command, seen, contacted>>

Kill(p) ==
    /\ commandAt[p] # "ended"
    /\ Exits(p, "killed")
    /\ UNCHANGED <<files, packets, replaced, command, seen, contacted>>

-----------------------------------------------------------------------------
(* Operators.                                                              *)

Interfere == replaced < MaxReplacements /\ replaced' = replaced + 1

Replace(paths, content) ==
    /\ Interfere
    /\ files' = [f \in DOMAIN files |-> IF f \in paths THEN content ELSE files[f]]
    /\ UNCHANGED <<packets, command, seen, commandAt, contacted, exit>>

\* A published decision is edited, with digests that fit.
EditDecision(field, value) ==
    /\ Interfere
    /\ packets[DevelopmentOut] # Vacant
    /\ packets[DevelopmentOut].decision # Broken
    /\ packets' = [packets EXCEPT ![DevelopmentOut].decision[field] = value]
    /\ UNCHANGED <<files, command, seen, commandAt, contacted, exit>>

CommandInit ==
    /\ files = [f \in Paths \ {"decision"} |-> ExpectedPlan]
    /\ command \in Assignments
    /\ packets = [out \in {command[p].out : p \in Processes} \cup {DevelopmentOut} |-> Vacant]
    /\ replaced = 0
    /\ seen = [p \in Processes |-> [path \in Paths |-> Vacant]]
    /\ commandAt = [p \in Processes |-> "reading"]
    /\ contacted = {}
    /\ exit = [p \in Processes |-> "none"]

CommandNext ==
    \/ \E p \in Processes :
        \/ commandAt[p] = "reading" /\ \E path \in Pending(command[p].kind, seen[p]) :
              ReadFile(p, path)
        \/ RejectSecret(p) \/ RejectRoot(p) \/ StartRuntime(p) \/ OpenNetwork(p)
        \/ \E code \in {"0", "1", "3", "4"} : EndRuntime(p, code)
        \/ CheckTarget(p) \/ Publish(p) \/ FailToPublish(p) \/ ConfirmPacket(p)
        \/ FailInternally(p) \/ Kill(p)
    \/ \E r \in Replacements : Replace(r.paths, r.content)
    \/ EditDecision("status", "NOMINATED")
    \/ \E e \in Editions : EditDecision("traces", e)

CommandSpec == CommandInit /\ [][CommandNext]_commandVars

-----------------------------------------------------------------------------
(* Properties.                                                             *)

\* Whatever leaves a process rests on inputs that belong together, though it
\* reads them one by one while operators replace them: a decision on traces of
\* its protocol, a confirmation on a nomination of the same protocol that the
\* development files it read do select, a run on the plan it was told to expect,
\* on that plan's targets and study, and on trust that binds its endpoints and
\* grants its deadline, and a probe on the endpoint that its runtime names.
InputsBelongTogether ==
    /\ \A out \in DOMAIN packets : packets[out] # Vacant =>
        LET p == packets[out].by
            lineage == packets[out].lineage
            together(paths) == \A f, g \in paths : seen[p][f] = seen[p][g]
        IN  CASE command[p].kind = "assess_holdout" ->
                    /\ together({"protocol", "traces"}) /\ together({"context", "trust"})
                    /\ lineage.phase = "development" /\ lineage.status = "NOMINATED"
                    /\ \A f \in {"protocol", "devTrust", "devTraces", "devEvidence"} :
                          lineage.protocol = seen[p][f]
              [] command[p].kind = "assess_window" ->
                    /\ together({"protocol", "policy", "window", "traces", "evidence"})
                    /\ together({"context", "trust"})
              [] OTHER -> TRUE
    /\ \A p \in contacted :
        LET said(f) == Terms[seen[p][f]]
            expected == Terms[ExpectedPlan]
        IN  CASE command[p].kind = "shadow_run" ->
                    /\ seen[p]["plan"] = ExpectedPlan
                    /\ said("profiles").targets = expected.targets
                    /\ \A f \in {"profiles", "collectorTrust"} : said(f).binding = expected.binding
                    /\ expected.attemptTimeout <= said("collectorTrust").longestRequest
                    /\ said("identity").study = expected.study
              [] command[p].kind = "runtime_probe" ->
                    \A f \in {"endpoint", "runtime"} :
                        said(f).binding = said("collectorTrust").binding

\* An exit code says what is there.  Success of a publishing command means its
\* own packet at its output, whoever else published there; a refused input means
\* that nothing was published or sent; and a failed output that has nothing of
\* its own published may be retried there once it is free.
ExitSaysWhatIsThere ==
    \A p \in Processes :
        LET own == \E out \in DOMAIN packets :
                       packets[out] # Vacant /\ packets[out].by = p
        IN  /\ exit[p] = "0" /\ command[p].kind \in Publishing =>
                  packets[command[p].out] # Vacant /\ packets[command[p].out].by = p
            /\ exit[p] = "3" => ~own /\ p \notin contacted
            /\ own => packets[command[p].out].by = p /\ p \notin contacted

=============================================================================
