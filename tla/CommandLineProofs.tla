-------------------------- MODULE CommandLineProofs --------------------------
(***************************************************************************)
(* Proofs about CommandLine, for any processes, commands, editions and any *)
(* number of interferences: what leaves a process rests on inputs that     *)
(* belong together, and its exit code says what is there.                  *)
(*                                                                         *)
(* The argument is that a process is past its reading only with all of its *)
(* files read and accepted, and that what it has seen does not change from *)
(* then on, whatever becomes of the files.                                 *)
(***************************************************************************)
EXTENDS CommandLine, TLAPS, WellFoundedInduction

Packets == [by : Processes, decision : Decisions \cup {Broken},
            lineage : Decisions \cup {Vacant, Broken}]

CommandSteps == {"reading", "authorized", "running", "publishing", "renaming", "confirming",
                 "ended"}
ExitCodes == {"none", "0", "1", "3", "4", "killed"}

CommandTyped ==
    /\ DOMAIN files = Paths \ {"decision"}
    /\ \A f \in Paths \ {"decision"} : files[f] \in Contents
    /\ \A out \in DOMAIN packets : packets[out] \in Packets \cup {Vacant}
    /\ DevelopmentOut \in DOMAIN packets
    /\ \A p \in Processes : command[p].out \in DOMAIN packets
    /\ DOMAIN seen = Processes
    /\ \A p \in Processes :
          /\ DOMAIN seen[p] = Paths
          /\ \A f \in Paths \ {"decision"} : seen[p][f] \in Contents
          /\ seen[p]["decision"] \in Decisions \cup {Vacant, Broken}
    /\ commandAt \in [Processes -> CommandSteps] /\ exit \in [Processes -> ExitCodes]
    /\ contacted \subseteq Processes

\* All that the command waits for was read, and accepted.
Prepared(p) ==
    Pending(command[p].kind, seen[p]) = {} /\ Accepted(command[p].kind, seen[p])

Publisher(p) ==
    /\ command[p].kind \in Publishing /\ p \notin contacted
    /\ Prepared(p)

\* A process at its steps.
StepSound(p) ==
    /\ commandAt[p] = "ended" <=> exit[p] # "none"
    /\ commandAt[p] \in {"publishing", "renaming", "confirming"} => Publisher(p)
    /\ commandAt[p] = "confirming" =>
          packets[command[p].out] # Vacant /\ packets[command[p].out].by = p
    /\ commandAt[p] \in {"authorized", "running"} =>
          command[p].kind \in Contacting /\ Prepared(p)
    /\ p \in contacted =>
          /\ command[p].kind \in Contacting /\ Prepared(p)
          /\ commandAt[p] \in {"running", "ended"}
    /\ exit[p] = "0" /\ command[p].kind \in Publishing =>
          packets[command[p].out] # Vacant /\ packets[command[p].out].by = p
    /\ exit[p] = "3" => p \notin contacted

\* A packet is of the process that published it, and of what that one had seen.
PacketSound(out) ==
    packets[out] # Vacant =>
        LET p == packets[out].by
        IN  /\ p \in Processes /\ command[p].out = out /\ Publisher(p)
            /\ commandAt[p] \in {"confirming", "ended"} /\ exit[p] # "3"
            /\ command[p].kind \in {"assess_holdout", "experiment_next"} =>
                  packets[out].lineage = seen[p]["decision"]

CommandInv ==
    /\ CommandTyped
    /\ \A p \in Processes : StepSound(p)
    /\ \A out \in DOMAIN packets : PacketSound(out)

-----------------------------------------------------------------------------
(* What was read.                                                          *)

\* A set of numbers has a least one.
LEMMA LeastNumber ==
  ASSUME NEW S \in SUBSET Nat, S # {}
  PROVE  Min(S) \in S /\ \A y \in S : Min(S) <= y
<1>1. PICK x \in S : \A y \in S : ~(<<y, x>> \in OpToRel(<, Nat))
  BY NatLessThanWellFounded, WFMin
<1>2. \A y \in S : x <= y
  <2> SUFFICES ASSUME NEW y \in S, ~(x <= y) PROVE FALSE
    OBVIOUS
  <2>1. y < x /\ x \in Nat /\ y \in Nat OBVIOUS
  <2>. QED BY <1>1, <2>1 DEF OpToRel
<1>. QED BY <1>2 DEF Min

\* When nothing is pending, everything was read.
LEMMA AllRead ==
  ASSUME NEW kind \in DOMAIN Reads, NEW read, Pending(kind, read) = {},
         NEW n \in DOMAIN Reads[kind], DOMAIN Reads[kind] \subseteq Nat,
         NEW path \in Reads[kind][n]
  PROVE  read[path] # Vacant
<1> DEFINE unread(m) == {f \in Reads[kind][m] : read[f] = Vacant}
           open == {m \in DOMAIN Reads[kind] : unread(m) # {}}
<1> SUFFICES ASSUME read[path] = Vacant PROVE FALSE
  OBVIOUS
<1>1. n \in open OBVIOUS
<1>2. Min(open) \in open BY <1>1, LeastNumber
<1>3. unread(Min(open)) # {} BY <1>2
<1>4. Pending(kind, read) = unread(Min(open)) BY <1>1 DEF Pending
<1>. QED BY <1>3, <1>4

LEMMA HoldoutReads ==
  LET reads == Reads["assess_holdout"]
  IN  /\ DOMAIN reads \subseteq Nat
      /\ \A f \in {"protocol", "devTrust", "devContext", "devTraces", "devEvidence",
                   "decision", "trust", "context", "traces", "evidence"} :
            \E n \in DOMAIN reads : f \in reads[n]
<1>1. Reads["assess_holdout"] =
        <<{"budget"}, {"protocol"}, {"devTrust"}, {"devContext"}, {"devTraces"},
          {"devEvidence"}, {"decision"}, {"trust"}, {"context"}, {"traces"}, {"evidence"}>>
  BY DEF Reads
<1>. QED BY <1>1

LEMMA WindowReads ==
  LET reads == Reads["assess_window"]
  IN  /\ DOMAIN reads \subseteq Nat
      /\ \A f \in {"protocol", "trust", "context", "traces", "evidence", "policy", "window"} :
            \E n \in DOMAIN reads : f \in reads[n]
<1>1. Reads["assess_window"] =
        <<{"budget"}, {"protocol"}, {"trust"}, {"context"}, {"traces"}, {"evidence"},
          {"policy"}, {"window"}>>
  BY DEF Reads
<1>. QED BY <1>1

LEMMA RunReads ==
  LET reads == Reads["shadow_run"]
  IN  /\ DOMAIN reads \subseteq Nat
      /\ \A f \in {"plan", "profiles", "collectorTrust", "identity", "cases"} :
            \E n \in DOMAIN reads : f \in reads[n]
<1>1. Reads["shadow_run"] =
        <<{"plan"}, {"profiles", "collectorTrust", "identity"}, {"cases"}>>
  BY DEF Reads
<1>. QED BY <1>1

LEMMA ProbeReads ==
  LET reads == Reads["runtime_probe"]
  IN  /\ DOMAIN reads \subseteq Nat
      /\ \A f \in {"endpoint", "runtime", "collectorTrust"} :
            \E n \in DOMAIN reads : f \in reads[n]
<1>1. Reads["runtime_probe"] = <<{"endpoint", "runtime", "collectorTrust"}>>
  BY DEF Reads
<1>. QED BY <1>1

\* The names of the files a packet is made from.
LEMMA PathsNamed ==
  {"protocol", "devTrust", "devContext", "devTraces", "devEvidence", "decision", "trust",
   "context", "traces", "evidence"} \subseteq Paths
<1>1. "assess_holdout" \in DOMAIN Reads BY DEF Reads
<1>2. \A n \in DOMAIN Reads["assess_holdout"] : Reads["assess_holdout"][n] \subseteq Paths
  BY <1>1 DEF Paths
<1>. QED BY <1>2, HoldoutReads

LEMMA DecisionTypes ==
  ASSUME NEW phase \in {"development", "holdout", "window"}, NEW protocol \in Contents,
         NEW trust \in Contents, NEW traces \in Contents, NEW evidence \in Contents
  PROVE  DecisionOn(phase, protocol, trust, traces, evidence) \in Decisions
  BY DEF DecisionOn, Decisions

-----------------------------------------------------------------------------
(* The steps.                                                              *)

LEMMA CommandStarts == CommandInit => CommandInv
<1> SUFFICES ASSUME CommandInit PROVE CommandInv
  OBVIOUS
<1>1. /\ files = [f \in Paths \ {"decision"} |-> ExpectedPlan]
      /\ packets = [out \in {command[p].out : p \in Processes} \cup {DevelopmentOut} |-> Vacant]
      /\ seen = [p \in Processes |-> [path \in Paths |-> Vacant]]
      /\ commandAt = [p \in Processes |-> "reading"] /\ contacted = {}
      /\ exit = [p \in Processes |-> "none"]
  BY DEF CommandInit
<1>2. CommandTyped
  BY <1>1, CommandAssumption, PathsNamed DEF CommandTyped, Contents, CommandSteps, ExitCodes
<1>3. \A p \in Processes : StepSound(p) BY <1>1 DEF StepSound
<1>4. \A out \in DOMAIN packets : PacketSound(out) BY <1>1 DEF PacketSound
<1>. QED BY <1>2, <1>3, <1>4 DEF CommandInv

\* A step of one process that publishes nothing leaves the others as they are.
LEMMA OwnStep ==
  ASSUME CommandInv, NEW p \in Processes, UNCHANGED <<packets, command, files>>,
         CommandTyped', StepSound(p)',
         \A q \in Processes \ {p} :
             /\ seen'[q] = seen[q] /\ commandAt'[q] = commandAt[q] /\ exit'[q] = exit[q]
             /\ q \in contacted' <=> q \in contacted,
         commandAt[p] \in {"confirming", "ended"} =>
             /\ seen'[p] = seen[p] /\ commandAt'[p] \in {"confirming", "ended"}
             /\ exit'[p] # "3" /\ p \notin contacted'
  PROVE  CommandInv'
<1>1. ASSUME NEW q \in Processes \ {p} PROVE StepSound(q)'
  BY <1>1 DEF CommandInv, StepSound, Publisher, Prepared
<1>2. ASSUME NEW out \in DOMAIN packets, PacketSound(out) PROVE PacketSound(out)'
  <2> SUFFICES ASSUME packets[out] # Vacant PROVE PacketSound(out)'
    BY DEF PacketSound
  <2>1. CASE packets[out].by = p
    BY <1>2, <2>1 DEF PacketSound, Publisher, Prepared
  <2>2. CASE packets[out].by # p
    BY <1>2, <2>2 DEF PacketSound, Publisher, Prepared
  <2>. QED BY <2>1, <2>2
<1>. QED BY <1>1, <1>2 DEF CommandInv

\* What a process saw stays what it saw.
LEMMA StepTypes ==
  ASSUME CommandInv, NEW p \in Processes, NEW step \in CommandSteps, NEW code \in ExitCodes,
         commandAt' = [commandAt EXCEPT ![p] = step], exit' = [exit EXCEPT ![p] = code],
         UNCHANGED <<files, packets, replaced, command, seen>>,
         contacted' \subseteq Processes
  PROVE  /\ CommandTyped' /\ commandAt'[p] = step /\ exit'[p] = code
         /\ \A q \in Processes \ {p} :
               commandAt'[q] = commandAt[q] /\ exit'[q] = exit[q] /\ seen'[q] = seen[q]
  BY DEF CommandInv, CommandTyped

LEMMA ReadKeeps ==
  ASSUME CommandInv, NEW p \in Processes, NEW path, commandAt[p] = "reading",
         ReadFile(p, path)
  PROVE  CommandInv'
<1>1. CommandTyped /\ StepSound(p) BY DEF CommandInv
<1>2. /\ seen' = [seen EXCEPT ![p][path] = Content(path)]
      /\ UNCHANGED <<files, packets, replaced, command, contacted>>
  BY DEF ReadFile
<1>3. path \in Paths => /\ path # "decision" => Content(path) \in Contents
                        /\ path = "decision" => Content(path) \in Decisions \cup {Broken}
  BY <1>1 DEF Content, CommandTyped, Packets
<1>4. /\ DOMAIN seen' = Processes /\ DOMAIN seen'[p] = Paths
      /\ \A q \in Processes \ {p} : seen'[q] = seen[q]
      /\ \A f \in Paths : seen'[p][f] = IF f = path THEN Content(path) ELSE seen[p][f]
  BY <1>1, <1>2 DEF CommandTyped
<1>5. /\ exit[p] = "none" /\ p \notin contacted BY <1>1 DEF StepSound
<1>6. \E step, code :
          /\ commandAt' = [commandAt EXCEPT ![p] = step] /\ exit' = [exit EXCEPT ![p] = code]
          /\ \/ step = "ended" /\ code = "3"
             \/ step = "ended" /\ code = "0" /\ command[p].kind \notin Publishing
             \/ step = "reading" /\ code = "none"
             \/ /\ Accepted(command[p].kind, seen'[p]) /\ code = "none"
                /\ Pending(command[p].kind, seen'[p]) = {}
                /\ \/ step = "publishing" /\ command[p].kind \in Publishing
                   \/ step = "authorized" /\ command[p].kind \in Contacting
  <2>1. [commandAt EXCEPT ![p] = "reading"] = commandAt /\ [exit EXCEPT ![p] = "none"] = exit
    BY <1>1, <1>5 DEF CommandTyped
  <2>. QED BY <1>5, <2>1 DEF ReadFile, Goes, Exits
<1>7. PICK step, code :
          /\ commandAt' = [commandAt EXCEPT ![p] = step] /\ exit' = [exit EXCEPT ![p] = code]
          /\ \/ step = "ended" /\ code = "3"
             \/ step = "ended" /\ code = "0" /\ command[p].kind \notin Publishing
             \/ step = "reading" /\ code = "none"
             \/ /\ Accepted(command[p].kind, seen'[p]) /\ code = "none"
                /\ Pending(command[p].kind, seen'[p]) = {}
                /\ \/ step = "publishing" /\ command[p].kind \in Publishing
                   \/ step = "authorized" /\ command[p].kind \in Contacting
  BY <1>6
<1>8. /\ commandAt'[p] = step /\ exit'[p] = code
      /\ commandAt' \in [Processes -> CommandSteps] /\ exit' \in [Processes -> ExitCodes]
      /\ \A q \in Processes \ {p} : commandAt'[q] = commandAt[q] /\ exit'[q] = exit[q]
  BY <1>1, <1>7 DEF CommandTyped, CommandSteps, ExitCodes
<1>9. CommandTyped'
  <2>1. \A q \in Processes :
            /\ DOMAIN seen'[q] = Paths
            /\ \A f \in Paths \ {"decision"} : seen'[q][f] \in Contents
            /\ seen'[q]["decision"] \in Decisions \cup {Vacant, Broken}
    BY <1>1, <1>3, <1>4, PathsNamed DEF CommandTyped
  <2>. QED BY <1>1, <1>2, <1>4, <1>8, <2>1 DEF CommandTyped
<1>10. StepSound(p)'
  BY <1>2, <1>5, <1>7, <1>8 DEF StepSound, Publisher, Prepared
<1>. QED BY <1>2, <1>4, <1>8, <1>9, <1>10, OwnStep

\* The steps between the reading and the end, those that publish aside.
LEMMA AdvanceKeeps ==
  ASSUME CommandInv, NEW p \in Processes,
         \/ RejectSecret(p) \/ RejectRoot(p) \/ StartRuntime(p) \/ OpenNetwork(p)
         \/ \E code \in {"0", "1", "3", "4"} : EndRuntime(p, code)
         \/ CheckTarget(p) \/ FailToPublish(p) \/ ConfirmPacket(p)
         \/ FailInternally(p) \/ Kill(p)
  PROVE  CommandInv'
<1>1. CommandTyped /\ StepSound(p) BY DEF CommandInv
<1>2. ASSUME NEW step \in CommandSteps, NEW code \in ExitCodes,
             commandAt' = [commandAt EXCEPT ![p] = step], exit' = [exit EXCEPT ![p] = code],
             UNCHANGED <<files, packets, replaced, command, seen>>,
             contacted' \subseteq Processes,
             \A q \in Processes \ {p} : q \in contacted' <=> q \in contacted,
             commandAt[p] \in {"confirming", "ended"} =>
                 step = "ended" /\ code # "3" /\ p \notin contacted',
             (commandAt'[p] = step /\ exit'[p] = code) => StepSound(p)'
      PROVE  CommandInv'
  <2>1. /\ CommandTyped' /\ commandAt'[p] = step /\ exit'[p] = code
        /\ \A q \in Processes \ {p} :
              commandAt'[q] = commandAt[q] /\ exit'[q] = exit[q] /\ seen'[q] = seen[q]
    BY <1>2, StepTypes
  <2>2. StepSound(p)' BY <1>2, <2>1
  <2>. QED BY <1>2, <2>1, <2>2, OwnStep
<1>3. /\ [exit EXCEPT ![p] = exit[p]] = exit /\ [commandAt EXCEPT ![p] = commandAt[p]] = commandAt
      /\ contacted \subseteq Processes /\ exit[p] \in ExitCodes /\ commandAt[p] \in CommandSteps
  BY <1>1 DEF CommandTyped
<1>4. CASE RejectSecret(p)
  BY <1>1, <1>2, <1>3, <1>4 DEF CommandSteps, ExitCodes, RejectSecret, Exits, StepSound, Publisher, Prepared
<1>5. CASE RejectRoot(p)
  BY <1>1, <1>2, <1>3, <1>5 DEF CommandSteps, ExitCodes, RejectRoot, Exits, StepSound, Publisher, Prepared
<1>6. CASE StartRuntime(p)
  <2>1. exit' = [exit EXCEPT ![p] = exit[p]] BY <1>3, <1>6 DEF StartRuntime, Goes
  <2>. QED BY <1>1, <1>2, <1>3, <1>6, <2>1 DEF CommandSteps, ExitCodes, StartRuntime, Goes, StepSound, Publisher, Prepared
<1>7. CASE OpenNetwork(p)
  <2>1. /\ exit' = [exit EXCEPT ![p] = exit[p]]
        /\ commandAt' = [commandAt EXCEPT ![p] = commandAt[p]]
    BY <1>3, <1>7 DEF OpenNetwork
  <2>. QED BY <1>1, <1>2, <1>3, <1>7, <2>1 DEF CommandSteps, ExitCodes, OpenNetwork, StepSound, Publisher, Prepared
<1>8. ASSUME NEW code \in {"0", "1", "3", "4"}, EndRuntime(p, code) PROVE CommandInv'
  <2>1. command[p].kind \notin Publishing
    BY <1>1, <1>8 DEF EndRuntime, StepSound, Publishing, Contacting
  <2>. QED BY <1>1, <1>2, <1>3, <1>8, <2>1 DEF CommandSteps, ExitCodes, EndRuntime, Exits, StepSound, Publisher, Prepared
<1>9. CASE CheckTarget(p)
  <2>1. CASE packets[command[p].out] = Vacant
    <3>1. exit' = [exit EXCEPT ![p] = exit[p]] BY <1>3, <1>9, <2>1 DEF CheckTarget, Goes
    <3>. QED BY <1>1, <1>2, <1>3, <1>9, <2>1, <3>1
             DEF CommandSteps, ExitCodes, CheckTarget, Goes, StepSound, Publisher, Prepared
  <2>2. CASE packets[command[p].out] # Vacant
    BY <1>1, <1>2, <1>3, <1>9, <2>2 DEF CommandSteps, ExitCodes, CheckTarget, Exits, StepSound, Publisher, Prepared
  <2>. QED BY <2>1, <2>2
<1>10. CASE FailToPublish(p)
  BY <1>1, <1>2, <1>3, <1>10 DEF CommandSteps, ExitCodes, FailToPublish, Exits, StepSound, Publisher, Prepared
<1>11. CASE ConfirmPacket(p)
  BY <1>1, <1>2, <1>3, <1>11 DEF CommandSteps, ExitCodes, ConfirmPacket, Exits, StepSound, Publisher, Prepared
<1>12. CASE Kill(p)
  <2>1. p \in contacted => commandAt[p] # "confirming"
    BY <1>1 DEF StepSound
  <2>. QED BY <1>1, <1>2, <1>3, <1>12, <2>1 DEF CommandSteps, ExitCodes, Kill, Exits, StepSound, Publisher, Prepared
<1>13. CASE FailInternally(p)
  <2>1. p \in contacted => commandAt[p] # "confirming"
    BY <1>1 DEF StepSound
  <2>. QED BY <1>1, <1>2, <1>3, <1>13, <2>1 DEF CommandSteps, ExitCodes, FailInternally, Exits, StepSound, Publisher, Prepared
<1>. QED BY <1>4, <1>5, <1>6, <1>7, <1>8, <1>9, <1>10, <1>11, <1>12, <1>13

\* A packet is published where nothing was.
LEMMA PublishKeeps ==
  ASSUME CommandInv, NEW p \in Processes, Publish(p)
  PROVE  CommandInv'
<1>1. CommandTyped /\ StepSound(p) BY DEF CommandInv
<1>2. commandAt[p] = "renaming" /\ UNCHANGED <<files, replaced, command, seen, contacted>>
  BY DEF Publish
<1>3. CASE packets[command[p].out] # Vacant
  <2>1. /\ commandAt' = [commandAt EXCEPT ![p] = "ended"] /\ exit' = [exit EXCEPT ![p] = "4"]
        /\ UNCHANGED packets
    BY <1>3 DEF Publish, Exits
  <2>2. /\ CommandTyped' /\ commandAt'[p] = "ended" /\ exit'[p] = "4"
        /\ \A q \in Processes \ {p} :
              commandAt'[q] = commandAt[q] /\ exit'[q] = exit[q] /\ seen'[q] = seen[q]
    BY <1>1, <1>2, <2>1, StepTypes DEF CommandTyped, CommandSteps, ExitCodes
  <2>3. StepSound(p)' BY <1>1, <1>2, <2>1, <2>2 DEF StepSound, Publisher, Prepared
  <2>. QED BY <1>2, <2>1, <2>2, <2>3, OwnStep
<1>4. CASE packets[command[p].out] = Vacant
  <2>1. PICK o : o = command[p].out OBVIOUS
  <2>2. PICK made : made = Product(p) OBVIOUS
  <2>3. /\ o \in DOMAIN packets /\ packets[o] = Vacant
        /\ packets' = [packets EXCEPT ![o] = made]
        /\ commandAt' = [commandAt EXCEPT ![p] = "confirming"] /\ UNCHANGED exit
    BY <1>1, <1>4, <2>1, <2>2 DEF Publish, Goes, CommandTyped
  <2>4. /\ DOMAIN packets' = DOMAIN packets /\ packets'[o] = made
        /\ \A out \in DOMAIN packets \ {o} : packets'[out] = packets[out]
        /\ commandAt' \in [Processes -> CommandSteps] /\ commandAt'[p] = "confirming"
        /\ \A q \in Processes \ {p} : commandAt'[q] = commandAt[q]
    BY <1>1, <2>3 DEF CommandTyped, CommandSteps
  <2>5. Publisher(p) /\ p \notin contacted /\ exit[p] = "none"
    BY <1>1, <1>2 DEF StepSound, Publisher
  <2>6. made \in Packets
    <3>1. seen[p]["decision"] \in Decisions \cup {Vacant, Broken}
      BY <1>1 DEF CommandTyped
    <3>2. \A f \in {"protocol", "devTrust", "devContext", "devTraces", "devEvidence", "trust",
                    "context", "traces", "evidence"} : seen[p][f] \in Contents
      BY <1>1, PathsNamed DEF CommandTyped
    <3>3. Renominated(seen[p]) \in Decisions BY <3>2, DecisionTypes DEF Renominated
    <3>4. \A phase \in {"holdout", "window"} :
              DecisionOn(phase, seen[p]["protocol"], seen[p]["context"], seen[p]["traces"],
                         seen[p]["evidence"]) \in Decisions
      BY <3>2, DecisionTypes
    <3>5. made.decision \in Decisions \cup {Broken}
      <4>1. command[p].kind \in {"assess_development", "assess_holdout", "assess_window",
                                 "experiment_next"}
        BY <2>5 DEF Publisher, Publishing
      <4>2. CASE command[p].kind = "assess_development" BY <2>2, <3>3, <4>2 DEF Product
      <4>3. CASE command[p].kind = "assess_holdout" BY <2>2, <3>4, <4>3 DEF Product
      <4>4. CASE command[p].kind = "assess_window" BY <2>2, <3>4, <4>4 DEF Product
      <4>5. CASE command[p].kind = "experiment_next" BY <2>2, <4>5 DEF Product
      <4>. QED BY <4>1, <4>2, <4>3, <4>4, <4>5
    <3>6. made.by = p /\ made.lineage \in Decisions \cup {Vacant, Broken}
      BY <2>2, <3>1 DEF Product
    <3>7. made = [by |-> made.by, decision |-> made.decision, lineage |-> made.lineage]
      BY <2>2 DEF Product
    <3>. QED BY <3>5, <3>6, <3>7 DEF Packets
  <2>7. made # Vacant BY <2>6, CommandAssumption DEF Packets
  <2>8. /\ made.by = p
        /\ command[p].kind \in {"assess_holdout", "experiment_next"} =>
              made.lineage = seen[p]["decision"]
    BY <2>2 DEF Product
  <2>9. CommandTyped'
    BY <1>1, <1>2, <2>3, <2>4, <2>6 DEF CommandTyped
  <2>10. ASSUME NEW q \in Processes PROVE StepSound(q)'
    <3>1. CASE q = p
      BY <1>1, <1>2, <2>1, <2>3, <2>4, <2>5, <2>7, <2>8, <3>1 DEF StepSound, Publisher, Prepared
    <3>2. CASE q # p
      <4>1. StepSound(q) BY DEF CommandInv
      <4>2. packets[command[q].out] # Vacant => packets'[command[q].out] = packets[command[q].out]
        <5>1. command[q].out \in DOMAIN packets BY <1>1 DEF CommandTyped
        <5>. QED BY <2>3, <2>4, <5>1
      <4>3. commandAt'[q] = commandAt[q] /\ exit'[q] = exit[q] /\ seen'[q] = seen[q]
        BY <1>2, <2>3, <2>4, <3>2
      <4>. QED BY <1>2, <4>1, <4>2, <4>3 DEF StepSound, Publisher, Prepared
    <3>. QED BY <3>1, <3>2
  <2>11. ASSUME NEW out \in DOMAIN packets PROVE PacketSound(out)'
    <3>1. CASE out = o
      BY <1>2, <2>1, <2>3, <2>4, <2>5, <2>8, <3>1 DEF PacketSound, Publisher, Prepared
    <3>2. CASE out # o
      <4>1. PacketSound(out) /\ packets'[out] = packets[out] BY <2>4, <3>2 DEF CommandInv
      <4>2. packets[out] # Vacant => packets[out].by # p
        BY <1>2, <4>1 DEF PacketSound
      <4>. QED BY <1>2, <2>3, <2>4, <4>1, <4>2 DEF PacketSound, Publisher, Prepared
    <3>. QED BY <3>1, <3>2
  <2>. QED BY <2>4, <2>9, <2>10, <2>11 DEF CommandInv
<1>. QED BY <1>3, <1>4

\* Operators replace files; what was read stays read.
LEMMA ReplaceKeeps ==
  ASSUME CommandInv, NEW paths, NEW content \in Editions \cup {Broken},
         Replace(paths, content)
  PROVE  CommandInv'
<1>1. UNCHANGED <<packets, command, seen, commandAt, contacted, exit>> BY DEF Replace
<1>2. CommandTyped BY DEF CommandInv
<1>3. /\ DOMAIN files' = DOMAIN files
      /\ \A f \in DOMAIN files : files'[f] = IF f \in paths THEN content ELSE files[f]
  BY DEF Replace
<1>4. content \in Contents BY DEF Contents
<1>5. CommandTyped' BY <1>1, <1>2, <1>3, <1>4 DEF CommandTyped
<1>6. ASSUME NEW p \in Processes PROVE StepSound(p)'
  BY <1>1 DEF CommandInv, StepSound, Publisher, Prepared
<1>7. ASSUME NEW out \in DOMAIN packets PROVE PacketSound(out)'
  BY <1>1 DEF CommandInv, PacketSound, Publisher, Prepared
<1>. QED BY <1>1, <1>5, <1>6, <1>7 DEF CommandInv

\* An edited decision stays in the packet of the process that published it.
LEMMA EditKeeps ==
  ASSUME CommandInv, NEW field, NEW value, EditDecision(field, value),
         \/ field = "status" /\ value = "NOMINATED"
         \/ field = "traces" /\ value \in Editions
  PROVE  CommandInv'
<1>1. UNCHANGED <<files, command, seen, commandAt, contacted, exit>> BY DEF EditDecision
<1>2. CommandTyped BY DEF CommandInv
<1>3. PICK o : o = DevelopmentOut OBVIOUS
<1>4. PICK old : old = packets[o] OBVIOUS
<1>5. PICK edited : edited = [old EXCEPT !.decision[field] = value] OBVIOUS
<1>6. /\ o \in DOMAIN packets /\ old \in Packets /\ old.decision \in Decisions
      /\ packets' = [packets EXCEPT ![o] = edited]
  <2>1. /\ packets[o] # Vacant /\ packets[o].decision # Broken
        /\ packets' = [packets EXCEPT ![o].decision[field] = value]
    BY <1>3 DEF EditDecision
  <2>. QED BY <1>2, <1>3, <1>4, <1>5, <2>1 DEF CommandTyped, Packets
<1>7. edited \in Packets /\ edited.by = old.by /\ edited.lineage = old.lineage
  <2>1. PICK was : was = old.decision OBVIOUS
  <2>2. [was EXCEPT ![field] = value] \in Decisions
    <3>1. CASE field = "status" /\ value = "NOMINATED" BY <1>6, <2>1, <3>1 DEF Decisions
    <3>2. CASE field = "traces" /\ value \in Contents BY <1>6, <2>1, <3>2 DEF Decisions
    <3>. QED BY <3>1, <3>2 DEF Contents
  <2>3. edited = [old EXCEPT !.decision = [was EXCEPT ![field] = value]]
    BY <1>5, <2>1
  <2>. QED BY <1>6, <2>2, <2>3 DEF Packets
<1>8. edited # Vacant /\ old # Vacant BY <1>6, <1>7, CommandAssumption DEF Packets
<1>9. /\ DOMAIN packets' = DOMAIN packets /\ packets'[o] = edited
      /\ \A out \in DOMAIN packets \ {o} : packets'[out] = packets[out]
  BY <1>6
<1>10. CommandTyped' BY <1>1, <1>2, <1>7, <1>9 DEF CommandTyped
<1>11. \A out \in DOMAIN packets :
          /\ packets'[out] = Vacant <=> packets[out] = Vacant
          /\ packets[out] # Vacant =>
                packets'[out].by = packets[out].by /\ packets'[out].lineage = packets[out].lineage
  BY <1>4, <1>7, <1>8, <1>9
<1>12. ASSUME NEW p \in Processes PROVE StepSound(p)'
  <2>1. StepSound(p) /\ command[p].out \in DOMAIN packets
    BY <1>2 DEF CommandInv, CommandTyped
  <2>. QED BY <1>1, <1>11, <2>1 DEF StepSound, Publisher, Prepared
<1>13. ASSUME NEW out \in DOMAIN packets PROVE PacketSound(out)'
  <2>1. PacketSound(out) BY DEF CommandInv
  <2>. QED BY <1>1, <1>11, <2>1 DEF PacketSound, Publisher, Prepared
<1>. QED BY <1>9, <1>10, <1>12, <1>13 DEF CommandInv

LEMMA CommandStep == CommandInv /\ [CommandNext]_commandVars => CommandInv'
<1> SUFFICES ASSUME CommandInv, [CommandNext]_commandVars PROVE CommandInv'
  OBVIOUS
<1>1. ASSUME NEW p \in Processes, commandAt[p] = "reading",
             NEW path \in Pending(command[p].kind, seen[p]), ReadFile(p, path)
      PROVE  CommandInv'
  BY <1>1, ReadKeeps
<1>2. ASSUME NEW p \in Processes,
             \/ RejectSecret(p) \/ RejectRoot(p) \/ StartRuntime(p) \/ OpenNetwork(p)
             \/ \E code \in {"0", "1", "3", "4"} : EndRuntime(p, code)
             \/ CheckTarget(p) \/ FailToPublish(p) \/ ConfirmPacket(p)
             \/ FailInternally(p) \/ Kill(p)
      PROVE  CommandInv'
  BY <1>2, AdvanceKeeps
<1>3. ASSUME NEW p \in Processes, Publish(p) PROVE CommandInv'
  BY <1>3, PublishKeeps
<1>4. ASSUME NEW r \in Replacements, Replace(r.paths, r.content) PROVE CommandInv'
  BY <1>4, CommandAssumption, ReplaceKeeps
<1>5. CASE EditDecision("status", "NOMINATED") BY <1>5, EditKeeps
<1>6. ASSUME NEW e \in Editions, EditDecision("traces", e) PROVE CommandInv'
  BY <1>6, EditKeeps
<1>7. CASE UNCHANGED commandVars
  BY <1>7 DEF CommandInv, CommandTyped, StepSound, PacketSound, Publisher, Prepared, commandVars
<1>. QED BY <1>1, <1>2, <1>3, <1>4, <1>5, <1>6, <1>7 DEF CommandNext

LEMMA CommandInvariant == CommandSpec => []CommandInv
<1>. QED BY CommandStarts, CommandStep, PTL DEF CommandSpec

-----------------------------------------------------------------------------
(* The theorems.                                                           *)

\* An exit code says what is there (cli.ts), for any number of processes that
\* publish to the same outputs: a success means that the process's own packet is
\* at its output, a refused input that nothing left the process.
THEOREM ExitsSayWhatIsThere == CommandSpec => []ExitSaysWhatIsThere
<1>1. ASSUME CommandInv PROVE ExitSaysWhatIsThere
  <2>1. ASSUME NEW p \in Processes, NEW out \in DOMAIN packets, packets[out] # Vacant,
               packets[out].by = p
        PROVE  command[p].out = out /\ p \notin contacted /\ exit[p] # "3"
    BY <1>1, <2>1 DEF CommandInv, PacketSound, Publisher
  <2>2. \A p \in Processes : StepSound(p) BY <1>1 DEF CommandInv
  <2>. QED BY <2>1, <2>2 DEF ExitSaysWhatIsThere, StepSound
<1>. QED BY <1>1, CommandInvariant, PTL

\* Whatever leaves a process (a packet published, a network opened) rests on
\* inputs that belong together, though it read them one by one while operators
\* replaced them and edited the decision that it revalidates (cli-v2.ts).  Files
\* of a contact belong together in what is compared of them, and in no more.
THEOREM InputsAreTogether == CommandSpec => []InputsBelongTogether
<1>1. ASSUME CommandInv PROVE InputsBelongTogether
  <2>1. ASSUME NEW p \in Processes, command[p].kind = "assess_holdout", Prepared(p)
        PROVE  /\ seen[p]["protocol"] = seen[p]["traces"]
               /\ seen[p]["context"] = seen[p]["trust"]
               /\ seen[p]["decision"].phase = "development"
               /\ seen[p]["decision"].status = "NOMINATED"
               /\ \A f \in {"protocol", "devTrust", "devTraces", "devEvidence"} :
                     seen[p]["decision"].protocol = seen[p][f]
    <3>1. PICK read : read = seen[p] OBVIOUS
    <3>2. \A f \in {"protocol", "devTrust", "devContext", "devTraces", "devEvidence",
                    "decision", "trust", "context", "traces", "evidence"} :
              read[f] # Vacant
      <4>1. "assess_holdout" \in DOMAIN Reads BY DEF Reads
      <4>2. Pending("assess_holdout", read) = {} BY <2>1, <3>1 DEF Prepared
      <4>. QED BY <4>1, <4>2, AllRead, HoldoutReads
    <3>3. Accepted("assess_holdout", read) BY <2>1, <3>1 DEF Prepared
    <3>4. Agree(read, {"protocol", "devTraces"}) /\ Agree(read, {"protocol", "traces"})
          /\ Agree(read, {"devTrust", "devContext"}) /\ Agree(read, {"trust", "context"})
      BY <3>3 DEF Accepted, DataOfProtocol, TrustOfContext
    <3>5. /\ read["protocol"] = read["devTraces"] /\ read["protocol"] = read["traces"]
          /\ read["devTrust"] = read["devContext"] /\ read["trust"] = read["context"]
      BY <3>2, <3>4 DEF Agree
    <3>6. /\ read["decision"].status = "NOMINATED"
          /\ read["decision"] = Renominated(read)
      BY <3>2, <3>3 DEF Accepted, Revalidated
    <3>7. /\ read["devEvidence"] = read["devTraces"] /\ read["devEvidence"] = read["devContext"]
          /\ read["decision"].phase = "development"
          /\ read["decision"].protocol = read["protocol"]
      BY <3>6 DEF Renominated, DecisionOn
    <3>. QED BY <3>1, <3>5, <3>6, <3>7
  <2>2. ASSUME NEW p \in Processes, command[p].kind = "assess_window", Prepared(p)
        PROVE  /\ \A f, g \in {"protocol", "policy", "window", "traces", "evidence"} :
                     seen[p][f] = seen[p][g]
               /\ seen[p]["context"] = seen[p]["trust"]
    <3>1. PICK read : read = seen[p] OBVIOUS
    <3>2. \A f \in {"protocol", "trust", "context", "traces", "evidence", "policy", "window"} :
              read[f] # Vacant
      <4>1. "assess_window" \in DOMAIN Reads BY DEF Reads
      <4>2. Pending("assess_window", read) = {} BY <2>2, <3>1 DEF Prepared
      <4>. QED BY <4>1, <4>2, AllRead, WindowReads
    <3>3. Accepted("assess_window", read) BY <2>2, <3>1 DEF Prepared
    <3>4. Agree(read, {"protocol", "traces"}) /\ Agree(read, {"window", "traces", "policy"})
          /\ Agree(read, {"window", "evidence"}) /\ Agree(read, {"trust", "context"})
      BY <3>3 DEF Accepted, DataOfProtocol, TrustOfContext, RowsOfWindow
    <3>5. /\ read["protocol"] = read["traces"] /\ read["window"] = read["traces"]
          /\ read["policy"] = read["traces"] /\ read["evidence"] = read["window"]
          /\ read["context"] = read["trust"]
      BY <3>2, <3>4 DEF Agree
    <3>. QED BY <3>1, <3>5
  <2>3. ASSUME NEW p \in Processes, command[p].kind = "shadow_run", Prepared(p)
        PROVE  LET said(f) == Terms[seen[p][f]]
                   expected == Terms[ExpectedPlan]
               IN  /\ seen[p]["plan"] = ExpectedPlan
                   /\ said("profiles").targets = expected.targets
                   /\ \A f \in {"profiles", "collectorTrust"} :
                         said(f).binding = expected.binding
                   /\ expected.attemptTimeout <= said("collectorTrust").longestRequest
                   /\ said("identity").study = expected.study
    <3>1. PICK read : read = seen[p] OBVIOUS
    <3>2. \A f \in {"plan", "profiles", "collectorTrust", "identity", "cases"} :
              read[f] # Vacant
      <4>1. "shadow_run" \in DOMAIN Reads BY DEF Reads
      <4>2. Pending("shadow_run", read) = {} BY <2>3, <3>1 DEF Prepared
      <4>. QED BY <4>1, <4>2, AllRead, RunReads
    <3>3. RunOfPlan(read) BY <2>3, <3>1 DEF Prepared, Accepted
    <3>4. read["plan"] = ExpectedPlan BY <3>2, <3>3 DEF RunOfPlan
    <3>5. /\ SameTerm("binding", read, {"plan", "profiles", "collectorTrust"})
          /\ SameTerm("targets", read, {"plan", "profiles"})
          /\ Terms[read["plan"]].attemptTimeout <= Terms[read["collectorTrust"]].longestRequest
          /\ SameTerm("study", read, {"plan", "identity"})
      BY <3>2, <3>3 DEF RunOfPlan, WereRead
    <3>6. /\ Terms[read["profiles"]].targets = Terms[read["plan"]].targets
          /\ \A f \in {"profiles", "collectorTrust"} :
                Terms[read[f]].binding = Terms[read["plan"]].binding
          /\ Terms[read["identity"]].study = Terms[read["plan"]].study
      BY <3>5 DEF SameTerm
    <3>. QED BY <3>1, <3>4, <3>5, <3>6
  <2>4. ASSUME NEW p \in Processes, command[p].kind = "runtime_probe", Prepared(p)
        PROVE  \A f \in {"endpoint", "runtime"} :
                  Terms[seen[p][f]].binding = Terms[seen[p]["collectorTrust"]].binding
    <3>1. PICK read : read = seen[p] OBVIOUS
    <3>2. \A f \in {"endpoint", "runtime", "collectorTrust"} : read[f] # Vacant
      <4>1. "runtime_probe" \in DOMAIN Reads BY DEF Reads
      <4>2. Pending("runtime_probe", read) = {} BY <2>4, <3>1 DEF Prepared
      <4>. QED BY <4>1, <4>2, AllRead, ProbeReads
    <3>3. EndpointOfRuntime(read) BY <2>4, <3>1 DEF Prepared, Accepted
    <3>4. SameTerm("binding", read, {"endpoint", "runtime", "collectorTrust"})
      BY <3>2, <3>3 DEF EndpointOfRuntime, WereRead
    <3>. QED BY <3>1, <3>4 DEF SameTerm
  <2>5. ASSUME NEW out \in DOMAIN packets, packets[out] # Vacant
        PROVE  LET p == packets[out].by
                   lineage == packets[out].lineage
                   together(paths) == \A f, g \in paths : seen[p][f] = seen[p][g]
               IN  CASE command[p].kind = "assess_holdout" ->
                           /\ together({"protocol", "traces"}) /\ together({"context", "trust"})
                           /\ lineage.phase = "development" /\ lineage.status = "NOMINATED"
                           /\ \A f \in {"protocol", "devTrust", "devTraces", "devEvidence"} :
                                 lineage.protocol = seen[p][f]
                     [] command[p].kind = "assess_window" ->
                           /\ together({"protocol", "policy", "window", "traces", "evidence"})
                           /\ together({"context", "trust"})
                     [] OTHER -> TRUE
    <3>1. PICK p : p = packets[out].by OBVIOUS
    <3>2. /\ p \in Processes /\ Prepared(p)
          /\ command[p].kind = "assess_holdout" =>
                packets[out].lineage = seen[p]["decision"]
      BY <1>1, <2>5, <3>1 DEF CommandInv, PacketSound, Publisher
    <3>3. CASE command[p].kind = "assess_holdout" BY <2>1, <3>1, <3>2, <3>3
    <3>4. CASE command[p].kind = "assess_window" BY <2>2, <3>1, <3>2, <3>4
    <3>5. CASE command[p].kind \notin {"assess_holdout", "assess_window"} BY <3>1, <3>5
    <3>. QED BY <3>3, <3>4, <3>5
  <2>6. \A p \in contacted :
            p \in Processes /\ Prepared(p) /\ command[p].kind \in {"runtime_probe", "shadow_run"}
    BY <1>1 DEF CommandInv, CommandTyped, StepSound, Contacting
  <2>7. ASSUME NEW p \in contacted
        PROVE  LET said(f) == Terms[seen[p][f]]
                   expected == Terms[ExpectedPlan]
               IN  CASE command[p].kind = "shadow_run" ->
                           /\ seen[p]["plan"] = ExpectedPlan
                           /\ said("profiles").targets = expected.targets
                           /\ \A f \in {"profiles", "collectorTrust"} :
                                 said(f).binding = expected.binding
                           /\ expected.attemptTimeout <= said("collectorTrust").longestRequest
                           /\ said("identity").study = expected.study
                     [] command[p].kind = "runtime_probe" ->
                           \A f \in {"endpoint", "runtime"} :
                               said(f).binding = said("collectorTrust").binding
    <3>1. CASE command[p].kind = "shadow_run" BY <2>3, <2>6, <3>1
    <3>2. CASE command[p].kind = "runtime_probe" BY <2>4, <2>6, <3>2
    <3>. QED BY <2>6, <3>1, <3>2
  <2>. QED BY <2>5, <2>7 DEF InputsBelongTogether
<1>. QED BY <1>1, CommandInvariant, PTL

=============================================================================
