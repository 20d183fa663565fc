------------------------- MODULE ShadowRunnerProofs --------------------------
(***************************************************************************)
(* Proofs about ShadowRunner, for any number of runners, jobs and attempts *)
(* and any clock bounds: first the types, then the evidence an outcome     *)
(* rests on and the trace a run reports, then that the runners implement   *)
(* the journal, and that nothing is dispatched past the deadline of the    *)
(* first admitted run, which every lease is bound by.                      *)
(***************************************************************************)
EXTENDS ShadowRunner, TLAPS

LEMMA OutcomeTypes ==
    /\ \A a \in BOOLEAN, c \in {"retrySafe", "other"} : NotSent(a, c) \in Outcomes
    /\ \A a \in BOOLEAN : SentUnknown(a) \in Outcomes
    /\ \A a \in BOOLEAN : RuntimeNotSent(a) \subseteq Outcomes
    /\ \A a \in BOOLEAN : RuntimeCompleted(a) \subseteq Outcomes
  BY DEF NotSent, SentUnknown, RuntimeNotSent, RuntimeCompleted, Outcomes

LEMMA Constants ==
    /\ MaxAttempts \in Nat /\ MaxAttempts >= 1
    /\ MaxClock \in Nat
    /\ AttemptTimeout \in Nat /\ MaxWallClock \in Nat
    /\ AuthorityEnd \in Nat /\ ProtocolExpiry \in Nat
    /\ AuthorityEnd <= MaxClock
    /\ None \notin Outcomes /\ None \notin Leases
    /\ IdleWorker \in WorkerStates
    /\ DownRunner \in RunnerStates
  BY MaxAttemptsAssumption, MaxClockAssumption, TimeAssumption, NoneAssumption
     DEF IdleWorker, DownRunner, WorkerStates, RunnerStates, Steps, Phases,
         Attempts, Instants

\* Storing a well-typed worker keeps the type of the workers.
LEMMA MoveType ==
    ASSUME worker \in [Runners -> [Jobs -> WorkerStates]],
           NEW r \in Runners, NEW j \in Jobs, NEW w \in WorkerStates,
           Move(r, j, w)
    PROVE  worker' \in [Runners -> [Jobs -> WorkerStates]]
  BY DEF Move

\* The fields of a worker.
LEMMA WorkerType ==
    ASSUME TypeOK, NEW r \in Runners, NEW j \in Jobs
    PROVE  /\ worker[r][j] \in WorkerStates
           /\ worker[r][j].pc \in Steps
           /\ worker[r][j].n \in Attempts
           /\ worker[r][j].n \in Nat
           /\ worker[r][j].seen \in Seq(Outcomes)
           /\ worker[r][j].cand \in Outcomes \cup {None}
           /\ worker[r][j].expires \in Instants
  <1>1. worker[r][j] \in WorkerStates
    BY DEF TypeOK
  <1>2. /\ worker[r][j].n \in Attempts
        /\ worker[r][j].seen \in Seq(Outcomes)
        /\ worker[r][j].cand \in Outcomes \cup {None}
        /\ worker[r][j].expires \in Instants
        /\ worker[r][j].pc \in Steps
    BY <1>1 DEF WorkerStates
  <1> QED
    BY <1>1, <1>2 DEF Attempts

\* Updating one attempt of one job keeps the type of a record table.
LEMMA UpdateType ==
    ASSUME NEW S, NEW f \in [Jobs -> [Attempts -> S]],
           NEW j \in Jobs, NEW n \in Attempts, NEW v \in S
    PROVE  [f EXCEPT ![j][n] = v] \in [Jobs -> [Attempts -> S]]
  OBVIOUS

\* The same, for a step that may also leave the table alone.
LEMMA StepType ==
    ASSUME NEW S, NEW f \in [Jobs -> [Attempts -> S]], NEW g,
           NEW j \in Jobs, NEW n \in Attempts, NEW v \in S,
           g = f \/ g = [f EXCEPT ![j][n] = v]
    PROVE  g \in [Jobs -> [Attempts -> S]]
  OBVIOUS

LEMMA TypeInit == Init => TypeOK
  <1> SUFFICES ASSUME Init PROVE TypeOK
    OBVIOUS
  <1>1. JournalTypeOK
    BY DEF Init, JournalInit, JournalTypeOK
  <1> QED
    BY <1>1, Constants DEF Init, TypeOK, WireStates, Instants

LEMMA AfterOutcomeType ==
    ASSUME TypeOK, NEW r \in Runners, NEW j \in Jobs, NEW o \in Outcomes,
           AfterOutcome(r, j, o)
    PROVE  /\ worker' \in [Runners -> [Jobs -> WorkerStates]]
           /\ runner' \in [Runners -> RunnerStates]
  <1> DEFINE w == worker[r][j]
             seen == Append(w.seen, o)
  <1>0. w \in WorkerStates /\ seen \in Seq(Outcomes)
    BY WorkerType
  <1>1. CASE /\ RetrySafe(o) /\ w.n < MaxAttempts
             /\ Move(r, j, [w EXCEPT !.pc = "outcome", !.n = w.n + 1,
                                     !.seen = seen, !.cand = None])
             /\ UNCHANGED runner
    <2>1. w.n + 1 \in Attempts
      <3>1. w.n \in Attempts /\ w.n < MaxAttempts
        BY <1>1, WorkerType
      <3> QED
        BY <3>1, Constants DEF Attempts
    <2>2. [w EXCEPT !.pc = "outcome", !.n = w.n + 1,
                    !.seen = seen, !.cand = None] \in WorkerStates
      <3> HIDE DEF w, seen
      <3> QED
        BY <1>0, <2>1 DEF WorkerStates, Steps
    <2> QED
      BY <1>1, <2>2, MoveType DEF TypeOK
  <1>2. CASE Fail(r, j, "failed")
    <2>1. [IdleWorker EXCEPT !.pc = "failed"] \in WorkerStates
      BY Constants DEF WorkerStates, Steps, IdleWorker
    <2> QED
      BY <1>2, <2>1, MoveType DEF TypeOK, Fail, Settle, RunnerStates
  <1>3. CASE /\ Move(r, j, [IdleWorker EXCEPT !.pc = "accept", !.seen = seen])
             /\ UNCHANGED runner
    <2>1. [IdleWorker EXCEPT !.pc = "accept", !.seen = seen] \in WorkerStates
      BY <1>0, Constants DEF WorkerStates, Steps, IdleWorker
    <2> QED
      BY <1>3, <2>1, MoveType DEF TypeOK
  <1> QED
    BY <1>1, <1>2, <1>3 DEF AfterOutcome

\* The moves the actions are made of keep the type of the workers.
LEMMA MovesType ==
    ASSUME TypeOK, NEW r \in Runners, NEW j \in Jobs
    PROVE  /\ \A pc \in Steps : Goto(r, j, pc) =>
                 worker' \in [Runners -> [Jobs -> WorkerStates]]
           /\ \A pc \in Steps : Settle(r, j, pc) =>
                 worker' \in [Runners -> [Jobs -> WorkerStates]]
           /\ \A pc \in Steps, t \in Seq(Outcomes) :
                 Move(r, j, [IdleWorker EXCEPT !.pc = pc, !.seen = t]) =>
                 worker' \in [Runners -> [Jobs -> WorkerStates]]
           /\ \A o \in Outcomes : Propose(r, j, o) =>
                 worker' \in [Runners -> [Jobs -> WorkerStates]]
           /\ \A l : Defer(r, j, l) =>
                 worker' \in [Runners -> [Jobs -> WorkerStates]]
           /\ \A pc \in Steps, e \in Instants :
                 Move(r, j, [worker[r][j] EXCEPT !.pc = pc, !.expires = e]) =>
                 worker' \in [Runners -> [Jobs -> WorkerStates]]
  <1> DEFINE w == worker[r][j]
  <1>0. /\ worker \in [Runners -> [Jobs -> WorkerStates]]
        /\ w \in WorkerStates /\ IdleWorker \in WorkerStates
        /\ 0 \in Instants
    BY WorkerType, Constants DEF TypeOK, Instants
  <1>1. ASSUME NEW pc \in Steps
        PROVE  /\ [w EXCEPT !.pc = pc] \in WorkerStates
               /\ [IdleWorker EXCEPT !.pc = pc] \in WorkerStates
    <2> HIDE DEF w
    <2> QED
      BY <1>0 DEF WorkerStates
  <1>2. ASSUME NEW pc \in Steps, NEW t \in Seq(Outcomes)
        PROVE  [IdleWorker EXCEPT !.pc = pc, !.seen = t] \in WorkerStates
    BY <1>0 DEF WorkerStates
  <1>3. ASSUME NEW o \in Outcomes
        PROVE  [w EXCEPT !.pc = "persist", !.cand = o, !.expires = 0]
                  \in WorkerStates
    <2> HIDE DEF w
    <2> QED
      BY <1>0 DEF WorkerStates, Steps
  <1>4. ASSUME NEW pc \in Steps, NEW e \in Instants
        PROVE  [w EXCEPT !.pc = pc, !.expires = e] \in WorkerStates
    <2> HIDE DEF w
    <2> QED
      BY <1>0 DEF WorkerStates
  <1>5. \A pc \in Steps : Goto(r, j, pc) =>
            worker' \in [Runners -> [Jobs -> WorkerStates]]
    BY <1>0, <1>1, MoveType DEF Goto
  <1>6. \A pc \in Steps : Settle(r, j, pc) =>
            worker' \in [Runners -> [Jobs -> WorkerStates]]
    BY <1>0, <1>1, MoveType DEF Settle
  <1>7. \A pc \in Steps, t \in Seq(Outcomes) :
            Move(r, j, [IdleWorker EXCEPT !.pc = pc, !.seen = t]) =>
            worker' \in [Runners -> [Jobs -> WorkerStates]]
    BY <1>0, <1>2, MoveType
  <1>8. \A o \in Outcomes : Propose(r, j, o) =>
            worker' \in [Runners -> [Jobs -> WorkerStates]]
    BY <1>0, <1>3, MoveType DEF Propose
  <1>9. \A l : Defer(r, j, l) =>
            worker' \in [Runners -> [Jobs -> WorkerStates]]
    BY <1>6, <1>8, OutcomeTypes DEF Defer, Steps
  <1>10. \A pc \in Steps, e \in Instants :
            Move(r, j, [worker[r][j] EXCEPT !.pc = pc, !.expires = e]) =>
            worker' \in [Runners -> [Jobs -> WorkerStates]]
    BY <1>0, <1>4, MoveType
  <1> QED
    BY <1>5, <1>6, <1>7, <1>8, <1>9, <1>10

\* A worker about to persist an outcome has one.
CandidatePresent ==
    \A r \in Runners, j \in Jobs :
        worker[r][j].pc = "persist" => worker[r][j].cand # None

\* Every step keeps the types.
LEMMA TypeNext == TypeOK /\ CandidatePresent /\ [Next]_vars => TypeOK'
  <1> SUFFICES ASSUME TypeOK, CandidatePresent, [Next]_vars PROVE TypeOK'
    OBVIOUS
  <1>0. /\ lease \in [Jobs -> [Attempts -> Leases \cup {None}]]
        /\ outcome \in [Jobs -> [Attempts -> Outcomes \cup {None}]]
        /\ wire \in [Jobs -> [Attempts -> WireStates]]
        /\ dispatched \in [Jobs -> [Attempts -> Nat]]
    BY DEF TypeOK, JournalTypeOK
  <1> USE DEF TypeOK, JournalTypeOK
  <1>1. CASE UNCHANGED vars
    BY <1>1 DEF vars
  <1>2. CASE Tick
    BY <1>2, Constants DEF Tick, journalVars, Instants
  <1>3. ASSUME NEW j \in Jobs, NEW n \in Attempts, Transmit(j, n)
        PROVE  TypeOK'
    BY <1>3 DEF Transmit, journalVars, WireStates
  <1>4. ASSUME NEW r \in Runners PROVE StartRun(r) => TypeOK'
    <2> SUFFICES ASSUME StartRun(r) PROVE TypeOK'
      OBVIOUS
    <2>1. clock + MaxWallClock \in Instants
      BY Constants DEF StartRun, Instants
    <2> DEFINE new == [phase |-> "admit", deadline |-> clock + MaxWallClock,
                       timer |-> clock + MaxWallClock, aborted |-> FALSE]
    <2>2. new \in RunnerStates
      BY <2>1 DEF RunnerStates, Phases
    <2>3. runner' \in [Runners -> RunnerStates]
      <3> HIDE DEF new
      <3>1. runner' = [runner EXCEPT ![r] = new]
        BY DEF StartRun, new
      <3> QED
        BY <2>2, <3>1
    <2> HIDE DEF new
    <2> QED
      BY <2>3 DEF StartRun, journalVars
  <1>5. ASSUME NEW r \in Runners PROVE Admit(r) => TypeOK'
    <2> SUFFICES ASSUME Admit(r) PROVE TypeOK'
      OBVIOUS
    <2>1. CASE runner[r].aborted
      <3>1. runner' \in [Runners -> RunnerStates]
        <4>1. [runner[r] EXCEPT !.phase = "jobs"] \in RunnerStates
          BY DEF RunnerStates, Phases
        <4>2. runner' = [runner EXCEPT ![r] = [runner[r] EXCEPT !.phase = "jobs"]]
          BY <2>1 DEF Admit
        <4> QED
          BY <4>1, <4>2
      <3> HIDE DEF RunnerStates
      <3> QED
        BY <2>1, <3>1 DEF Admit, journalVars
    <2>2. CASE ~runner[r].aborted
      <3>1. runner[r].deadline \in Instants
        BY DEF RunnerStates
      <3>2. admission' \in Instants
        BY <2>2, <3>1 DEF Admit
      <3>3. runner' \in [Runners -> RunnerStates]
        <4>1. [runner[r] EXCEPT !.phase = "jobs", !.deadline = admission']
                 \in RunnerStates
          BY <3>2 DEF RunnerStates, Phases
        <4>2. runner' = [runner EXCEPT ![r] =
                 [runner[r] EXCEPT !.phase = "jobs", !.deadline = admission']]
          BY <2>2 DEF Admit
        <4> QED
          BY <4>1, <4>2
      <3> QED
        BY <2>2, <3>2, <3>3 DEF Admit, journalVars
    <2> QED
      BY <2>1, <2>2
  <1>6. ASSUME NEW r \in Runners PROVE CallerAbort(r) => TypeOK'
    BY DEF CallerAbort, journalVars, RunnerStates
  <1>7. ASSUME NEW r \in Runners PROVE DeadlineAbort(r) => TypeOK'
    BY <1>6 DEF DeadlineAbort
  <1>8. ASSUME NEW r \in Runners PROVE Return(r) \/ Crash(r) => TypeOK'
    <2>0. [j \in Jobs |-> IdleWorker] \in [Jobs -> WorkerStates]
      BY Constants
    <2>1. Return(r) \/ Crash(r) =>
            /\ runner' \in [Runners -> RunnerStates]
            /\ worker' \in [Runners -> [Jobs -> WorkerStates]]
      <3> HIDE DEF TypeOK
      <3>1. /\ runner \in [Runners -> RunnerStates]
            /\ worker \in [Runners -> [Jobs -> WorkerStates]]
            /\ DownRunner \in RunnerStates
        BY Constants DEF TypeOK
      <3> QED
        BY <2>0, <3>1 DEF Return, Crash
    <2> QED
      BY <2>1 DEF Return, Crash, journalVars
  <1>9. ASSUME NEW r \in Runners, NEW j \in Jobs,
               JobStep(r, j) \/ RuntimeAnswer(r, j) \/ RuntimeFailure(r, j)
                 \/ Fault(r, j)
        PROVE  TypeOK'
    <2> DEFINE w == worker[r][j]
               WorkersTyped == worker' \in [Runners -> [Jobs -> WorkerStates]]
               RunnersTyped == runner' \in [Runners -> RunnerStates]
    <2>0. /\ w.n \in Attempts
          /\ w.seen \in Seq(Outcomes)
          /\ w.cand \in Outcomes \cup {None}
          /\ w.expires \in Instants
      BY WorkerType
    <2>1. \A pc \in Steps : Fail(r, j, pc) => WorkersTyped /\ RunnersTyped
      BY MovesType DEF Fail, RunnerStates
    <2>2. CASE StartJob(r, j) \/ SkipJob(r, j) \/ ReadIntent(r, j)
      <3>1. WorkersTyped
        BY <2>2, MovesType DEF StartJob, SkipJob, ReadIntent, Steps
      <3> QED
        BY <2>2, <3>1 DEF StartJob, SkipJob, ReadIntent, journalVars
    <2>3. CASE LoadAccepted(r, j)
      <3>1. accepted[j] \in Seq(Outcomes)
        OBVIOUS
      <3>2. WorkersTyped
        BY <2>3, <3>1, MovesType DEF LoadAccepted, Steps
      <3> QED
        BY <2>3, <3>2 DEF LoadAccepted, journalVars
    <2>4. CASE CheckOrphan(r, j)
      <3>1. WorkersTyped /\ RunnersTyped
        BY <2>4, <2>1, MovesType DEF CheckOrphan, Steps
      <3> QED
        BY <2>4, <3>1 DEF CheckOrphan, journalVars
    <2>5. CASE WriteIntent(r, j)
      <3>1. WorkersTyped
        BY <2>5, MovesType DEF WriteIntent, Steps
      <3> QED
        BY <2>5, <3>1 DEF WriteIntent
    <2>6. CASE ReadOutcome(r, j)
      <3>1. WorkersTyped /\ RunnersTyped
        <4>1. CASE outcome[j][w.n] # None
          <5>1. outcome[j][w.n] \in Outcomes
            BY <2>0, <4>1
          <5> QED
            BY <2>6, <4>1, <5>1, AfterOutcomeType DEF ReadOutcome
        <4>2. CASE outcome[j][w.n] = None
          BY <2>6, <4>2, MovesType DEF ReadOutcome, Steps
        <4> QED
          BY <4>1, <4>2
      <3> QED
        BY <2>6, <3>1 DEF ReadOutcome, journalVars
    <2>7. CASE ReadLease(r, j)
      <3> DEFINE e == IF runner[r].deadline <= clock + AttemptTimeout
                      THEN runner[r].deadline ELSE clock + AttemptTimeout
      <3>1. e \in Instants
        <4>1. runner[r].deadline \in Instants
          BY DEF RunnerStates
        <4> QED
          BY <4>1, Constants DEF Instants
      <3>2. WorkersTyped
        <4> HIDE DEF e
        <4>1. \/ Defer(r, j, lease[j][w.n])
              \/ Propose(r, j, NotSent(TRUE, "other"))
              \/ Propose(r, j, NotSent(FALSE, "retrySafe"))
              \/ Move(r, j, [w EXCEPT !.pc = "prepare", !.expires = e])
          BY <2>7 DEF ReadLease, e
        <4> QED
          BY <3>1, <4>1, MovesType, OutcomeTypes DEF Steps
      <3> QED
        BY <2>7, <3>2 DEF ReadLease, journalVars
    <2>8. CASE Prepare(r, j)
      <3>1. WorkersTyped
        BY <2>8, MovesType, OutcomeTypes DEF Prepare, Steps
      <3> QED
        BY <2>8, <3>1 DEF Prepare, journalVars
    <2>9. CASE WriteLease(r, j)
      <3>1. 0 \in Instants
        BY Constants DEF Instants
      <3>2. WorkersTyped
        BY <2>9, <3>1, MovesType DEF WriteLease, Steps
      <3>3. [owner |-> r, expires |-> w.expires] \in Leases
        BY <2>0 DEF Leases
      <3>4. lease' \in [Jobs -> [Attempts -> Leases \cup {None}]]
        <4> DEFINE new == [owner |-> r, expires |-> w.expires]
        <4> HIDE DEF new
        <4>1. \/ lease' = lease
              \/ lease' = [lease EXCEPT ![j][w.n] = new]
          BY <2>9 DEF WriteLease, new
        <4>2. new \in Leases \cup {None}
          BY <3>3 DEF new
        <4>3. w.n \in Attempts
          BY <2>0
        <4> QED
          BY <1>0, <4>1, <4>2, <4>3, StepType
      <3> QED
        BY <2>9, <3>2, <3>4 DEF WriteLease
    <2>10. CASE BeginDispatch(r, j)
      <3>1. WorkersTyped
        BY <2>10, MovesType, OutcomeTypes DEF BeginDispatch, Steps
      <3>2. /\ wire' \in [Jobs -> [Attempts -> WireStates]]
            /\ dispatched' \in [Jobs -> [Attempts -> Nat]]
        <4>1. \/ UNCHANGED <<wire, dispatched>>
              \/ /\ wire' = [wire EXCEPT ![j][w.n] = "open"]
                 /\ dispatched' = [dispatched EXCEPT ![j][w.n] =
                                                     dispatched[j][w.n] + 1]
          BY <2>10 DEF BeginDispatch
        <4>2. "open" \in WireStates /\ dispatched[j][w.n] + 1 \in Nat
          BY <2>0 DEF WireStates
        <4>3. w.n \in Attempts
          BY <2>0
        <4>4. wire' \in [Jobs -> [Attempts -> WireStates]]
          BY <1>0, <4>1, <4>2, <4>3, StepType
        <4>5. dispatched' \in [Jobs -> [Attempts -> Nat]]
          BY <1>0, <4>1, <4>2, <4>3, StepType
        <4> QED
          BY <4>4, <4>5
      <3> QED
        BY <2>10, <3>1, <3>2 DEF BeginDispatch, journalVars
    <2>11. CASE GiveUp(r, j)
      <3>1. WorkersTyped
        BY <2>11, MovesType, OutcomeTypes DEF GiveUp
      <3> QED
        BY <2>11, <3>1 DEF GiveUp, journalVars
    <2>12. CASE PersistOutcome(r, j)
      <3> DEFINE winner == IF outcome[j][w.n] = None THEN w.cand
                                                     ELSE outcome[j][w.n]
      <3>1. w.cand \in Outcomes
        BY <2>12, <2>0 DEF PersistOutcome, At, CandidatePresent
      <3>2. winner \in Outcomes
        BY <2>0, <3>1
      <3>3. /\ outcome' = [outcome EXCEPT ![j][w.n] = winner]
            /\ AfterOutcome(r, j, winner)
        BY <2>12 DEF PersistOutcome
      <3> HIDE DEF winner
      <3>4. outcome' \in [Jobs -> [Attempts -> Outcomes \cup {None}]]
        BY <2>0, <3>2, <3>3, UpdateType
      <3>5. WorkersTyped /\ RunnersTyped
        BY <3>2, <3>3, AfterOutcomeType
      <3> QED
        BY <2>12, <3>4, <3>5 DEF PersistOutcome
    <2>13. CASE WriteAccepted(r, j)
      <3>1. /\ accepted' \in [Jobs -> Seq(Outcomes)]
            /\ accepted'[j] \in Seq(Outcomes)
        BY <2>13, <2>0 DEF WriteAccepted
      <3>2. WorkersTyped
        BY <2>13, <3>1, MovesType DEF WriteAccepted, Steps
      <3> QED
        BY <2>13, <3>1, <3>2 DEF WriteAccepted
    <2>14. CASE EnsureComplete(r, j)
      <3>1. /\ complete' \in [Jobs -> Seq(Outcomes)]
            /\ complete'[j] \in Seq(Outcomes)
        BY <2>14, <2>0 DEF EnsureComplete
      <3>2. WorkersTyped /\ RunnersTyped
        BY <2>14, <2>1, <3>1, MovesType DEF EnsureComplete, Steps
      <3> QED
        BY <2>14, <3>1, <3>2 DEF EnsureComplete
    <2>15. CASE RuntimeAnswer(r, j) \/ RuntimeFailure(r, j)
      <3>1. WorkersTyped
        BY <2>15, MovesType, OutcomeTypes DEF RuntimeAnswer, RuntimeFailure
      <3>2. wire' \in [Jobs -> [Attempts -> WireStates]]
        <4>1. \/ wire' = wire
              \/ wire' = [wire EXCEPT ![j][w.n] = "closed"]
          BY <2>15 DEF RuntimeAnswer, RuntimeFailure
        <4>2. "closed" \in WireStates
          BY DEF WireStates
        <4>3. w.n \in Attempts
          BY <2>0
        <4> QED
          BY <1>0, <4>1, <4>2, <4>3, StepType
      <3> QED
        BY <2>15, <3>1, <3>2 DEF RuntimeAnswer, RuntimeFailure, journalVars
    <2>16. CASE Fault(r, j)
      <3>1. WorkersTyped /\ RunnersTyped
        BY <2>16, <2>1 DEF Fault, Steps
      <3> QED
        BY <2>16, <3>1 DEF Fault, journalVars
    <2> QED
      BY <1>9, <2>2, <2>3, <2>4, <2>5, <2>6, <2>7, <2>8, <2>9, <2>10, <2>11,
         <2>12, <2>13, <2>14, <2>15, <2>16 DEF JobStep
  <1> QED
    BY <1>1, <1>2, <1>3, <1>4, <1>5, <1>6, <1>7, <1>8, <1>9
       DEF Next, RunStep

-----------------------------------------------------------------------------
(* Safety of ShadowRunner for any number of runners, jobs and attempts: an *)
(* attempt is dispatched at most once, a durable outcome never claims more *)
(* than happened, and the trace a run reports is the accepted one.         *)
(*                                                                         *)
(* None of the three is inductive alone.  Two runners cannot both dispatch *)
(* an attempt because a runner waiting for its turn owns the durable lease *)
(* and nothing was sent under it yet; an outcome is backed by evidence     *)
(* because the outcome a worker is about to persist already is.            *)

\* What the worker state w of runner r for job j relies on.
Sound(r, j, w) ==
    /\ w.pc = "turn" =>
          /\ lease[j][w.n] # None
          /\ lease[j][w.n].owner = r
          /\ dispatched[j][w.n] = 0
          /\ wire[j][w.n] = "none"
    /\ w.pc = "inflight" => lease[j][w.n] # None
    /\ w.pc = "persist" =>
          /\ w.cand # None
          /\ w.cand.dispatch = "completed" => wire[j][w.n] = "sent"
          /\ w.cand.dispatch = "sent_unknown" => lease[j][w.n] # None
    /\ w.pc = "accept" => w.seen # <<>>
    /\ w.pc \in {"finish", "done"} => w.seen = accepted[j] /\ w.seen # <<>>
    /\ w.pc = "done" => complete[j] = accepted[j]

WorkersSound == \A r \in Runners, j \in Jobs : Sound(r, j, worker[r][j])

\* Nothing is sent without a lease.
SendsAreLeased ==
    \A j \in Jobs : \A n \in Attempts :
        lease[j][n] = None => dispatched[j][n] = 0 /\ wire[j][n] = "none"

\* A completion marker closes the accepted trace.
CompleteIsAccepted ==
    \A j \in Jobs : complete[j] # <<>> => complete[j] = accepted[j]

RecordsSound ==
    /\ SendsAreLeased
    /\ DispatchedOnce
    /\ OutcomeHasEvidence
    /\ CompleteIsAccepted

IInv == TypeOK /\ WorkersSound /\ RecordsSound

\* The variables the invariant reads, besides worker.
records == <<lease, outcome, accepted, complete, wire, dispatched>>

\* Worker states that rely on nothing.
Free == Steps \ {"turn", "inflight", "persist", "accept", "finish", "done"}

-----------------------------------------------------------------------------
LEMMA InvInit == Init => IInv
  <1> SUFFICES ASSUME Init PROVE IInv
    OBVIOUS
  <1>1. WorkersSound
    BY DEF Init, WorkersSound, Sound, IdleWorker
  <1>2. RecordsSound
    BY DEF Init, JournalInit, RecordsSound, SendsAreLeased, DispatchedOnce,
           OutcomeHasEvidence, CompleteIsAccepted
  <1> QED
    BY <1>1, <1>2, TypeInit DEF IInv

\* A step that leaves the records alone and moves one worker to a sound state.
LEMMA QuietMove ==
    ASSUME IInv, NEW r \in Runners, NEW j \in Jobs, NEW w,
           Move(r, j, w), Sound(r, j, w), UNCHANGED records
    PROVE  WorkersSound' /\ RecordsSound'
  <1>1. ASSUME NEW q \in Runners, NEW k \in Jobs
        PROVE  worker'[q][k] = IF q = r /\ k = j THEN w ELSE worker[q][k]
    BY DEF Move, IInv, TypeOK
  <1>2. ASSUME NEW q \in Runners, NEW k \in Jobs
        PROVE  Sound(q, k, worker[q][k])'
    <2>1. CASE q = r /\ k = j
      BY <2>1, <1>1 DEF Sound, records
    <2>2. CASE ~(q = r /\ k = j)
      <3>1. Sound(q, k, worker[q][k])
        BY DEF IInv, WorkersSound
      <3>2. worker'[q][k] = worker[q][k]
        BY <1>1, <2>2
      <3> QED
        BY <3>1, <3>2 DEF Sound, records
    <2> QED
      BY <2>1, <2>2
  <1>3. RecordsSound'
    BY DEF IInv, records, RecordsSound, SendsAreLeased, DispatchedOnce,
           OutcomeHasEvidence, CompleteIsAccepted
  <1> QED
    BY <1>2, <1>3 DEF WorkersSound

-----------------------------------------------------------------------------
\* Worker states that are sound whatever the records are.
Light(w) ==
    \/ w.pc \in Free
    \/ w.pc = "accept" /\ w.seen # <<>>

\* Worker states that are sound whatever is recorded later.
LEMMA LightSound ==
    ASSUME NEW r, NEW j, NEW w, Light(w)
    PROVE  Sound(r, j, w) /\ Sound(r, j, w)'
  BY DEF Light, Sound, Free

\* The moves the actions are made of, when the records stay.
LEMMA QuietMoves ==
    ASSUME IInv, NEW r \in Runners, NEW j \in Jobs, UNCHANGED records
    PROVE  /\ \A pc \in Free : Goto(r, j, pc) => WorkersSound' /\ RecordsSound'
           /\ \A pc \in Free : Settle(r, j, pc) => WorkersSound' /\ RecordsSound'
           /\ \A o \in Outcomes :
                 /\ \/ o.dispatch = "not_sent"
                    \/ /\ o.dispatch = "sent_unknown"
                       /\ lease[j][worker[r][j].n] # None
                 /\ Propose(r, j, o)
                 => WorkersSound' /\ RecordsSound'
  <1> DEFINE w == worker[r][j]
  <1>0. w \in WorkerStates /\ IdleWorker \in WorkerStates
    BY WorkerType, Constants DEF IInv
  <1>1. ASSUME NEW pc \in Free
        PROVE  Light([w EXCEPT !.pc = pc]) /\ Light([IdleWorker EXCEPT !.pc = pc])
    <2> HIDE DEF w
    <2> QED
      BY <1>0 DEF Light, WorkerStates
  <1>2. ASSUME NEW pc \in Free, Goto(r, j, pc)
        PROVE  WorkersSound' /\ RecordsSound'
    BY <1>1, <1>2, LightSound, QuietMove DEF Goto
  <1>3. ASSUME NEW pc \in Free, Settle(r, j, pc)
        PROVE  WorkersSound' /\ RecordsSound'
    BY <1>1, <1>3, LightSound, QuietMove DEF Settle
  <1>4. ASSUME NEW o \in Outcomes,
               \/ o.dispatch = "not_sent"
               \/ o.dispatch = "sent_unknown" /\ lease[j][w.n] # None,
               Propose(r, j, o)
        PROVE  WorkersSound' /\ RecordsSound'
    <2> DEFINE v == [w EXCEPT !.pc = "persist", !.cand = o, !.expires = 0]
    <2>1. v.pc = "persist" /\ v.cand = o /\ v.n = w.n
      <3> HIDE DEF w
      <3> QED
        BY <1>0 DEF WorkerStates
    <2>2. Move(r, j, v)
      BY <1>4 DEF Propose
    <2>3. o # None
      BY Constants
    <2> HIDE DEF v
    <2>4. Sound(r, j, v)
      BY <1>4, <2>1, <2>3 DEF Sound
    <2> QED
      BY <2>2, <2>4, QuietMove
  <1> QED
    BY <1>2, <1>3, <1>4

\* The outcomes the runner makes up itself.
LEMMA SyntheticOutcomes ==
    /\ \A a \in BOOLEAN, c \in {"retrySafe", "other"} :
          NotSent(a, c) \in Outcomes /\ NotSent(a, c).dispatch = "not_sent"
    /\ \A a \in BOOLEAN :
          SentUnknown(a) \in Outcomes /\ SentUnknown(a).dispatch = "sent_unknown"
  BY DEF NotSent, SentUnknown, Outcomes

\* A durable lease of someone else keeps the invariant.
LEMMA DeferSound ==
    ASSUME IInv, NEW r \in Runners, NEW j \in Jobs, UNCHANGED records,
           NEW l, lease[j][worker[r][j].n] # None, Defer(r, j, l)
    PROVE  WorkersSound' /\ RecordsSound'
  BY QuietMoves, SyntheticOutcomes DEF Defer, Free, Steps

\* After an outcome the worker relies on nothing but its own trace.
LEMMA AfterOutcomeLight ==
    ASSUME TypeOK, NEW r \in Runners, NEW j \in Jobs, NEW o \in Outcomes,
           AfterOutcome(r, j, o)
    PROVE  \E w : Move(r, j, w) /\ Light(w)
  <1> DEFINE w == worker[r][j]
             seen == Append(w.seen, o)
             next == [w EXCEPT !.pc = "outcome", !.n = w.n + 1,
                               !.seen = seen, !.cand = None]
             fail == [IdleWorker EXCEPT !.pc = "failed"]
             last == [IdleWorker EXCEPT !.pc = "accept", !.seen = seen]
  <1>0. w \in WorkerStates /\ IdleWorker \in WorkerStates /\ w.seen \in Seq(Outcomes)
    BY WorkerType, Constants
  <1>1. seen # <<>>
    BY <1>0
  <1>2. Light(next)
    <2> HIDE DEF w, seen
    <2> QED
      BY <1>0 DEF Light, Free, Steps, WorkerStates
  <1>3. Light(fail)
    BY <1>0 DEF Light, Free, Steps, WorkerStates
  <1>4. Light(last)
    <2> HIDE DEF seen
    <2> QED
      BY <1>0, <1>1 DEF Light, WorkerStates
  <1>5. Move(r, j, next) \/ Move(r, j, fail) \/ Move(r, j, last)
    BY DEF AfterOutcome, Fail, Settle
  <1> HIDE DEF next, fail, last
  <1> QED
    BY <1>2, <1>3, <1>4, <1>5

\* A worker state stays sound while the records only grow, provided nothing
\* is sent under the lease of a worker that waits for its turn.
LEMMA Grow ==
    ASSUME NEW q \in Runners, NEW k \in Jobs, NEW w, w.n \in Attempts,
           Sound(q, k, w),
           lease[k][w.n] # None => lease'[k][w.n] = lease[k][w.n],
           wire[k][w.n] = "sent" => wire'[k][w.n] = "sent",
           accepted[k] # <<>> => accepted'[k] = accepted[k],
           complete[k] # <<>> => complete'[k] = complete[k],
           w.pc = "turn" => /\ dispatched'[k][w.n] = dispatched[k][w.n]
                            /\ wire'[k][w.n] = wire[k][w.n]
    PROVE  Sound(q, k, w)'
  BY DEF Sound

\* A step that moves one worker and lets the records grow.
LEMMA GrowMove ==
    ASSUME IInv, NEW r \in Runners, NEW j \in Jobs, NEW w,
           Move(r, j, w), Sound(r, j, w)',
           \A k \in Jobs : \A m \in Attempts :
              /\ lease[k][m] # None => lease'[k][m] = lease[k][m]
              /\ wire[k][m] = "sent" => wire'[k][m] = "sent",
           \A k \in Jobs :
              /\ accepted[k] # <<>> => accepted'[k] = accepted[k]
              /\ complete[k] # <<>> => complete'[k] = complete[k],
           \A q \in Runners, k \in Jobs :
              /\ ~(q = r /\ k = j)
              /\ worker[q][k].pc = "turn"
              => LET m == worker[q][k].n
                 IN  /\ dispatched'[k][m] = dispatched[k][m]
                     /\ wire'[k][m] = wire[k][m]
    PROVE  WorkersSound'
  <1>1. ASSUME NEW q \in Runners, NEW k \in Jobs
        PROVE  worker'[q][k] = IF q = r /\ k = j THEN w ELSE worker[q][k]
    BY DEF Move, IInv, TypeOK
  <1> SUFFICES ASSUME NEW q \in Runners, NEW k \in Jobs
               PROVE  Sound(q, k, worker[q][k])'
    BY DEF WorkersSound
  <1>2. CASE q = r /\ k = j
    BY <1>1, <1>2 DEF Sound
  <1>3. CASE ~(q = r /\ k = j)
    <2> DEFINE v == worker[q][k]
    <2>1. v.n \in Attempts
      BY WorkerType DEF IInv
    <2>2. Sound(q, k, v)
      BY DEF IInv, WorkersSound
    <2>3. worker'[q][k] = v
      BY <1>1, <1>3
    <2>4. v.pc = "turn" => /\ dispatched'[k][v.n] = dispatched[k][v.n]
                           /\ wire'[k][v.n] = wire[k][v.n]
      BY <1>3
    <2> HIDE DEF v
    <2> QED
      BY <2>1, <2>2, <2>3, <2>4 DEF Sound
  <1> QED
    BY <1>2, <1>3

\* A run that is down has idle workers.
LEMMA StopSound ==
    ASSUME IInv, NEW r \in Runners, UNCHANGED records,
           worker' = [worker EXCEPT ![r] = [j \in Jobs |-> IdleWorker]]
    PROVE  WorkersSound' /\ RecordsSound'
  <1>1. ASSUME NEW q \in Runners, NEW k \in Jobs
        PROVE  worker'[q][k] = IF q = r THEN IdleWorker ELSE worker[q][k]
    BY DEF IInv, TypeOK
  <1>2. Light(IdleWorker)
    BY DEF Light, Free, Steps, IdleWorker
  <1>3. ASSUME NEW q \in Runners, NEW k \in Jobs
        PROVE  Sound(q, k, worker[q][k])'
    <2>1. Sound(q, k, worker[q][k]) /\ Sound(q, k, IdleWorker)
      BY <1>2, LightSound DEF IInv, WorkersSound
    <2> QED
      BY <1>1, <2>1 DEF Sound, records
  <1>4. RecordsSound'
    BY DEF IInv, records, RecordsSound, SendsAreLeased, DispatchedOnce,
           OutcomeHasEvidence, CompleteIsAccepted
  <1> QED
    BY <1>3, <1>4 DEF WorkersSound

\* A step of no worker.
LEMMA IdleSound ==
    ASSUME IInv, UNCHANGED worker, UNCHANGED records
    PROVE  WorkersSound' /\ RecordsSound'
  BY DEF IInv, records, WorkersSound, Sound, RecordsSound, SendsAreLeased,
         DispatchedOnce, OutcomeHasEvidence, CompleteIsAccepted

-----------------------------------------------------------------------------
(* The actions that write a record or put a request on the wire.           *)

LEMMA WriteLeaseSound ==
    ASSUME IInv, NEW r \in Runners, NEW j \in Jobs, WriteLease(r, j)
    PROVE  WorkersSound' /\ RecordsSound'
  <1> DEFINE w == worker[r][j]
             new == [owner |-> r, expires |-> w.expires]
  <1>0. /\ w \in WorkerStates /\ w.n \in Attempts
        /\ lease \in [Jobs -> [Attempts -> Leases \cup {None}]]
    BY WorkerType DEF IInv, TypeOK, JournalTypeOK
  <1>1. CASE lease[j][w.n] # None
    <2>1. UNCHANGED records /\ Defer(r, j, lease[j][w.n])
      BY <1>1 DEF WriteLease, records
    <2> QED
      BY <1>1, <2>1, DeferSound
  <1>2. CASE lease[j][w.n] = None
    <2>0. PICK v : v = [w EXCEPT !.pc = "turn", !.expires = 0]
      OBVIOUS
    <2>1. /\ lease' = [lease EXCEPT ![j][w.n] = new]
          /\ Move(r, j, v)
          /\ UNCHANGED <<outcome, accepted, complete, wire, dispatched>>
      BY <1>2, <2>0 DEF WriteLease
    <2>2. v.pc = "turn" /\ v.n = w.n
      <3> HIDE DEF w
      <3> QED
        BY <1>0, <2>0 DEF WorkerStates
    <2>3. new # None /\ new.owner = r
      <3>1. new \in Leases
        BY WorkerType DEF Leases, IInv
      <3> QED
        BY <3>1, Constants
    <2>4. dispatched[j][w.n] = 0 /\ wire[j][w.n] = "none"
      BY <1>0, <1>2 DEF IInv, RecordsSound, SendsAreLeased
    <2>5. ASSUME NEW k \in Jobs, NEW m \in Attempts
          PROVE  lease'[k][m] = IF k = j /\ m = w.n THEN new ELSE lease[k][m]
      <3> HIDE DEF w, new
      <3> QED
        BY <1>0, <2>1
    <2> HIDE DEF new, w
    <2>6. Sound(r, j, v)'
      BY <1>0, <2>1, <2>2, <2>3, <2>4, <2>5 DEF Sound
    <2>7. WorkersSound'
      BY <1>2, <2>1, <2>5, <2>6, GrowMove
    <2>8. RecordsSound'
      BY <2>1, <2>3, <2>5
      DEF IInv, RecordsSound, SendsAreLeased, DispatchedOnce,
          OutcomeHasEvidence, CompleteIsAccepted
    <2> QED
      BY <2>7, <2>8
  <1> QED
    BY <1>1, <1>2

LEMMA BeginDispatchSound ==
    ASSUME IInv, NEW r \in Runners, NEW j \in Jobs, BeginDispatch(r, j)
    PROVE  WorkersSound' /\ RecordsSound'
  <1> DEFINE w == worker[r][j]
  <1>0. /\ w \in WorkerStates /\ w.n \in Attempts
        /\ wire \in [Jobs -> [Attempts -> WireStates]]
        /\ dispatched \in [Jobs -> [Attempts -> Nat]]
    BY WorkerType DEF IInv, TypeOK
  <1>1. /\ w.pc = "turn" /\ lease[j][w.n] # None /\ lease[j][w.n].owner = r
        /\ dispatched[j][w.n] = 0 /\ wire[j][w.n] = "none"
    BY DEF BeginDispatch, At, IInv, WorkersSound, Sound
  <1>2. CASE UNCHANGED <<wire, dispatched>> /\ \E o \in Outcomes :
                 o.dispatch = "not_sent" /\ Propose(r, j, o)
    <2>1. UNCHANGED records
      BY <1>2 DEF BeginDispatch, records, journalVars
    <2>2. PICK o \in Outcomes : o.dispatch = "not_sent" /\ Propose(r, j, o)
      BY <1>2
    <2> QED
      BY <2>1, <2>2, QuietMoves
  <1>3. CASE /\ dispatched' = [dispatched EXCEPT ![j][w.n] =
                                                 dispatched[j][w.n] + 1]
             /\ wire' = [wire EXCEPT ![j][w.n] = "open"]
             /\ Goto(r, j, "inflight")
    <2>0. PICK v : v = [w EXCEPT !.pc = "inflight"]
      OBVIOUS
    <2>9. Move(r, j, v)
      BY <1>3, <2>0 DEF Goto
    <2>1. UNCHANGED <<lease, outcome, accepted, complete>>
      BY DEF BeginDispatch, journalVars
    <2>2. v.pc = "inflight" /\ v.n = w.n
      <3> HIDE DEF w
      <3> QED
        BY <1>0, <2>0 DEF WorkerStates
    <2>3. ASSUME NEW k \in Jobs, NEW m \in Attempts
          PROVE  /\ wire'[k][m] = IF k = j /\ m = w.n THEN "open"
                                                      ELSE wire[k][m]
                 /\ dispatched'[k][m] = IF k = j /\ m = w.n THEN 1
                                                            ELSE dispatched[k][m]
      <3> HIDE DEF w
      <3> QED
        BY <1>0, <1>1, <1>3
    <2>4. ASSUME NEW q \in Runners, NEW k \in Jobs, ~(q = r /\ k = j),
                 worker[q][k].pc = "turn"
          PROVE  ~(k = j /\ worker[q][k].n = w.n) /\ worker[q][k].n \in Attempts
      <3>1. lease[k][worker[q][k].n].owner = q
        BY <2>4 DEF IInv, WorkersSound, Sound
      <3>2. worker[q][k].n \in Attempts
        BY WorkerType DEF IInv
      <3> QED
        BY <1>1, <2>4, <3>1, <3>2
    <2> HIDE DEF w
    <2>5. Sound(r, j, v)'
      BY <1>1, <2>1, <2>2 DEF Sound
    <2>6. WorkersSound'
      BY <1>1, <2>1, <2>3, <2>4, <2>5, <2>9, GrowMove
    <2>7. RecordsSound'
      BY <1>1, <2>1, <2>3
      DEF IInv, RecordsSound, SendsAreLeased, DispatchedOnce,
          OutcomeHasEvidence, CompleteIsAccepted
    <2> QED
      BY <2>6, <2>7
  <1> QED
    BY <1>2, <1>3, SyntheticOutcomes DEF BeginDispatch

LEMMA TransmitSound ==
    ASSUME IInv, NEW j \in Jobs, NEW n \in Attempts, Transmit(j, n)
    PROVE  WorkersSound' /\ RecordsSound'
  <1>0. wire \in [Jobs -> [Attempts -> WireStates]]
    BY DEF IInv, TypeOK
  <1>1. ASSUME NEW k \in Jobs, NEW m \in Attempts
        PROVE  wire'[k][m] = IF k = j /\ m = n THEN "sent" ELSE wire[k][m]
    BY <1>0 DEF Transmit
  <1>2. /\ wire[j][n] = "open"
        /\ UNCHANGED <<lease, outcome, accepted, complete, dispatched, worker>>
    BY DEF Transmit, journalVars
  <1>3. ASSUME NEW q \in Runners, NEW k \in Jobs
        PROVE  Sound(q, k, worker[q][k])'
    <2>1. Sound(q, k, worker[q][k])
      BY DEF IInv, WorkersSound
    <2>2. worker[q][k].n \in Attempts
      BY WorkerType DEF IInv
    <2> QED
      BY <1>1, <1>2, <2>1, <2>2 DEF Sound
  <1>4. RecordsSound'
    BY <1>1, <1>2 DEF IInv, RecordsSound, SendsAreLeased, DispatchedOnce,
           OutcomeHasEvidence, CompleteIsAccepted
  <1> QED
    BY <1>3, <1>4 DEF WorkersSound

LEMMA RuntimeSound ==
    ASSUME IInv, NEW r \in Runners, NEW j \in Jobs,
           RuntimeAnswer(r, j) \/ RuntimeFailure(r, j)
    PROVE  WorkersSound' /\ RecordsSound'
  <1> DEFINE w == worker[r][j]
  <1>0. /\ w \in WorkerStates /\ w.n \in Attempts
        /\ wire \in [Jobs -> [Attempts -> WireStates]]
        /\ lease[j][w.n] # None
        /\ UNCHANGED <<lease, outcome, accepted, complete, dispatched>>
    BY WorkerType DEF IInv, TypeOK, RuntimeAnswer, RuntimeFailure, At,
         WorkersSound, Sound, journalVars
  <1>1. PICK o \in Outcomes :
          /\ Propose(r, j, o)
          /\ \/ /\ o.dispatch = "not_sent" /\ wire[j][w.n] = "open"
                /\ wire' = [wire EXCEPT ![j][w.n] = "closed"]
             \/ o.dispatch = "completed" /\ wire[j][w.n] = "sent" /\ wire' = wire
             \/ o.dispatch = "sent_unknown" /\ wire' = wire
    <2>1. \A late \in BOOLEAN :
            /\ \A o \in RuntimeNotSent(late) :
                  o \in Outcomes /\ o.dispatch = "not_sent"
            /\ \A o \in RuntimeCompleted(late) :
                  o \in Outcomes /\ o.dispatch = "completed"
      BY DEF RuntimeNotSent, RuntimeCompleted, NotSent, Outcomes
    <2>2. CASE RuntimeAnswer(r, j)
      <3> DEFINE late == clock >= runner[r].deadline \/ clock >= lease[j][w.n].expires
      <3>1. late \in BOOLEAN
        OBVIOUS
      <3>2. \/ /\ wire[j][w.n] = "open"
               /\ \E o \in RuntimeNotSent(late) : Propose(r, j, o)
               /\ wire' = [wire EXCEPT ![j][w.n] = "closed"]
            \/ /\ wire[j][w.n] = "sent"
               /\ \E o \in RuntimeCompleted(late) : Propose(r, j, o)
               /\ UNCHANGED wire
            \/ /\ \E a \in BOOLEAN : Propose(r, j, SentUnknown(a))
               /\ UNCHANGED wire
        BY <2>2 DEF RuntimeAnswer
      <3> HIDE DEF late, w
      <3> QED
        BY <2>1, <3>1, <3>2, SyntheticOutcomes
    <2>3. CASE RuntimeFailure(r, j)
      BY <2>3, SyntheticOutcomes DEF RuntimeFailure
    <2> QED
      BY <2>2, <2>3
  <1>2. PICK v : v = [w EXCEPT !.pc = "persist", !.cand = o, !.expires = 0]
    OBVIOUS
  <1>3. v.pc = "persist" /\ v.cand = o /\ v.n = w.n
    <2> HIDE DEF w
    <2> QED
      BY <1>0, <1>2 DEF WorkerStates
  <1>4. Move(r, j, v)
    BY <1>1, <1>2 DEF Propose
  <1>5. ASSUME NEW k \in Jobs, NEW m \in Attempts
        PROVE  \/ wire'[k][m] = wire[k][m]
               \/ wire[k][m] = "open" /\ wire'[k][m] = "closed"
    <2> HIDE DEF w
    <2> QED
      BY <1>0, <1>1
  <1>6. o # None
    BY Constants
  <1> HIDE DEF w
  <1>7. Sound(r, j, v)'
    BY <1>0, <1>1, <1>3, <1>6 DEF Sound
  <1>8. ASSUME NEW q \in Runners, NEW k \in Jobs, worker[q][k].pc = "turn"
        PROVE  wire'[k][worker[q][k].n] = wire[k][worker[q][k].n]
    <2>1. wire[k][worker[q][k].n] = "none"
      BY <1>8 DEF IInv, WorkersSound, Sound
    <2>2. worker[q][k].n \in Attempts
      BY WorkerType DEF IInv
    <2> QED
      BY <1>5, <2>1, <2>2
  <1>9. WorkersSound'
    BY <1>0, <1>4, <1>5, <1>7, <1>8, GrowMove
  <1>10. RecordsSound'
    BY <1>0, <1>5 DEF IInv, RecordsSound, SendsAreLeased, DispatchedOnce,
           OutcomeHasEvidence, CompleteIsAccepted
  <1> QED
    BY <1>9, <1>10

LEMMA PersistOutcomeSound ==
    ASSUME IInv, NEW r \in Runners, NEW j \in Jobs, PersistOutcome(r, j)
    PROVE  WorkersSound' /\ RecordsSound'
  <1> DEFINE w == worker[r][j]
             winner == IF outcome[j][w.n] = None THEN w.cand
                                                 ELSE outcome[j][w.n]
  <1>0. /\ w.n \in Attempts
        /\ outcome \in [Jobs -> [Attempts -> Outcomes \cup {None}]]
        /\ outcome' = [outcome EXCEPT ![j][w.n] = winner]
        /\ AfterOutcome(r, j, winner)
        /\ UNCHANGED <<lease, accepted, complete, wire, dispatched>>
    BY WorkerType DEF IInv, TypeOK, JournalTypeOK, PersistOutcome
  <1>1. /\ w.cand \in Outcomes
        /\ w.cand.dispatch = "completed" => wire[j][w.n] = "sent"
        /\ w.cand.dispatch = "sent_unknown" => lease[j][w.n] # None
    <2>1. w.pc = "persist" /\ Sound(r, j, w)
      BY DEF PersistOutcome, At, IInv, WorkersSound
    <2>2. w.cand \in Outcomes \cup {None}
      BY WorkerType DEF IInv
    <2> QED
      BY <2>1, <2>2 DEF Sound
  <1>2. winner \in Outcomes
    BY <1>0, <1>1
  <1> HIDE DEF winner, w
  <1>3. PICK v : Move(r, j, v) /\ Light(v)
    BY <1>0, <1>2, AfterOutcomeLight DEF IInv
  <1>4. WorkersSound'
    BY <1>0, <1>3, LightSound, GrowMove
  <1>5. ASSUME NEW k \in Jobs, NEW m \in Attempts
        PROVE  \/ outcome'[k][m] = outcome[k][m]
               \/ k = j /\ m = w.n /\ outcome'[k][m] = w.cand
    BY <1>0 DEF winner
  <1>6. RecordsSound'
    BY <1>0, <1>1, <1>5 DEF IInv, RecordsSound, SendsAreLeased, DispatchedOnce,
           OutcomeHasEvidence, CompleteIsAccepted
  <1> QED
    BY <1>4, <1>6

LEMMA WriteAcceptedSound ==
    ASSUME IInv, NEW r \in Runners, NEW j \in Jobs, WriteAccepted(r, j)
    PROVE  WorkersSound' /\ RecordsSound'
  <1> DEFINE w == worker[r][j]
  <1>0. /\ w.seen # <<>>
        /\ accepted \in [Jobs -> Seq(Outcomes)]
        /\ UNCHANGED <<lease, outcome, complete, wire, dispatched>>
    BY DEF WriteAccepted, At, IInv, TypeOK, JournalTypeOK, WorkersSound, Sound
  <1>1. \A k \in Jobs : accepted'[k] = IF k = j /\ accepted[k] = <<>>
                                       THEN w.seen ELSE accepted[k]
    BY <1>0 DEF WriteAccepted
  <1>2. PICK v : v = [IdleWorker EXCEPT !.pc = "finish", !.seen = accepted'[j]]
    OBVIOUS
  <1>3. v.pc = "finish" /\ v.seen = accepted'[j]
    BY <1>2 DEF IdleWorker
  <1>4. Move(r, j, v)
    BY <1>2 DEF WriteAccepted
  <1> HIDE DEF w
  <1>5. Sound(r, j, v)'
    BY <1>0, <1>1, <1>3 DEF Sound
  <1>6. WorkersSound'
    BY <1>0, <1>1, <1>4, <1>5, GrowMove
  <1>7. RecordsSound'
    <2>1. \A k \in Jobs : complete[k] # <<>> => accepted'[k] = accepted[k]
      BY <1>1 DEF IInv, RecordsSound, CompleteIsAccepted
    <2> QED
      BY <1>0, <2>1 DEF IInv, RecordsSound, SendsAreLeased, DispatchedOnce,
             OutcomeHasEvidence, CompleteIsAccepted
  <1> QED
    BY <1>6, <1>7

LEMMA EnsureCompleteSound ==
    ASSUME IInv, NEW r \in Runners, NEW j \in Jobs, EnsureComplete(r, j)
    PROVE  WorkersSound' /\ RecordsSound'
  <1> DEFINE w == worker[r][j]
  <1>0. /\ w.seen = accepted[j] /\ w.seen # <<>>
        /\ complete \in [Jobs -> Seq(Outcomes)]
        /\ UNCHANGED <<lease, outcome, accepted, wire, dispatched>>
    BY DEF EnsureComplete, At, IInv, TypeOK, JournalTypeOK, WorkersSound, Sound
  <1>1. \A k \in Jobs : complete'[k] = IF k = j THEN accepted[k] ELSE complete[k]
    <2>1. \A k \in Jobs : complete'[k] = IF k = j /\ complete[k] = <<>>
                                         THEN w.seen ELSE complete[k]
      BY <1>0 DEF EnsureComplete
    <2> QED
      BY <1>0, <2>1 DEF IInv, RecordsSound, CompleteIsAccepted
  <1>2. PICK v : v = [IdleWorker EXCEPT !.pc = "done", !.seen = complete'[j]]
    OBVIOUS
  <1>3. v.pc = "done" /\ v.seen = complete'[j]
    BY <1>2 DEF IdleWorker
  <1>4. complete'[j] = w.seen
    BY <1>0, <1>1
  <1>5. Move(r, j, v)
    BY <1>2, <1>4 DEF EnsureComplete
  <1> HIDE DEF w
  <1>6. Sound(r, j, v)'
    BY <1>0, <1>1, <1>3 DEF Sound
  <1>7. \A k \in Jobs : complete[k] # <<>> => complete'[k] = complete[k]
    BY <1>1 DEF IInv, RecordsSound, CompleteIsAccepted
  <1>8. WorkersSound'
    BY <1>0, <1>5, <1>6, <1>7, GrowMove
  <1>9. RecordsSound'
    BY <1>0, <1>1 DEF IInv, RecordsSound, SendsAreLeased, DispatchedOnce,
           OutcomeHasEvidence, CompleteIsAccepted
  <1> QED
    BY <1>8, <1>9

-----------------------------------------------------------------------------
\* Every step keeps the invariant.
LEMMA InvNext == IInv /\ [Next]_vars => IInv'
  <1> SUFFICES ASSUME IInv, [Next]_vars PROVE IInv'
    OBVIOUS
  <1>1. TypeOK'
    BY TypeNext DEF IInv, WorkersSound, Sound, CandidatePresent
  <1> SUFFICES WorkersSound' /\ RecordsSound'
    BY <1>1 DEF IInv
  <1>2. CASE UNCHANGED vars
    BY <1>2, IdleSound DEF vars, records
  <1>3. CASE Tick
    BY <1>3, IdleSound DEF Tick, journalVars, records
  <1>4. CASE \E j \in Jobs, n \in Attempts : Transmit(j, n)
    BY <1>4, TransmitSound
  <1>5. CASE \E r \in Runners : StartRun(r) \/ Admit(r) \/ DeadlineAbort(r)
                                  \/ CallerAbort(r)
    <2>1. UNCHANGED worker /\ UNCHANGED records
      BY <1>5 DEF StartRun, Admit, DeadlineAbort, CallerAbort, journalVars, records
    <2> QED
      BY <2>1, IdleSound
  <1>6. CASE \E r \in Runners : Return(r) \/ Crash(r)
    <2>1. PICK r \in Runners : Return(r) \/ Crash(r)
      BY <1>6
    <2>2. UNCHANGED records
      BY <2>1 DEF Return, Crash, journalVars, records
    <2>3. worker' = [worker EXCEPT ![r] = [j \in Jobs |-> IdleWorker]]
      BY <2>1 DEF Return, Crash
    <2> QED
      BY <2>2, <2>3, StopSound
  <1>7. ASSUME NEW r \in Runners, NEW j \in Jobs,
               JobStep(r, j) \/ RuntimeAnswer(r, j) \/ RuntimeFailure(r, j)
                 \/ Fault(r, j)
        PROVE  WorkersSound' /\ RecordsSound'
    <2>1. CASE StartJob(r, j) \/ SkipJob(r, j) \/ ReadIntent(r, j)
               \/ CheckOrphan(r, j) \/ Fault(r, j) \/ WriteIntent(r, j)
      <3>1. UNCHANGED records
        BY <2>1 DEF StartJob, SkipJob, ReadIntent, CheckOrphan, Fault,
               WriteIntent, journalVars, records
      <3>2. \E pc \in Free : Goto(r, j, pc) \/ Settle(r, j, pc)
        BY <2>1 DEF StartJob, SkipJob, ReadIntent, CheckOrphan, Fault, Fail,
               WriteIntent, Free, Steps
      <3> QED
        BY <3>1, <3>2, QuietMoves
    <2>2. CASE LoadAccepted(r, j)
      <3>1. UNCHANGED records
        BY <2>2 DEF LoadAccepted, journalVars, records
      <3>2. CASE accepted[j] # <<>>
        <4>1. PICK v : v = [IdleWorker EXCEPT !.pc = "finish",
                                             !.seen = accepted[j]]
          OBVIOUS
        <4>2. Move(r, j, v)
          BY <2>2, <3>2, <4>1 DEF LoadAccepted
        <4>3. v.pc = "finish" /\ v.seen = accepted[j]
          BY <4>1 DEF IdleWorker
        <4>4. Sound(r, j, v)
          BY <3>2, <4>3 DEF Sound
        <4> QED
          BY <3>1, <4>2, <4>4, QuietMove
      <3>3. CASE accepted[j] = <<>>
        <4>1. Goto(r, j, "orphan")
          BY <2>2, <3>3 DEF LoadAccepted
        <4> QED
          BY <3>1, <4>1, QuietMoves DEF Free, Steps
      <3> QED
        BY <3>2, <3>3
    <2>3. CASE ReadOutcome(r, j)
      <3> DEFINE o == outcome[j][worker[r][j].n]
      <3>1. UNCHANGED records
        BY <2>3 DEF ReadOutcome, journalVars, records
      <3>2. CASE o # None
        <4>1. o \in Outcomes
          BY <3>2, WorkerType DEF IInv, TypeOK, JournalTypeOK
        <4>2. AfterOutcome(r, j, o)
          BY <2>3, <3>2 DEF ReadOutcome
        <4>3. PICK v : Move(r, j, v) /\ Light(v)
          BY <4>1, <4>2, AfterOutcomeLight DEF IInv
        <4> QED
          BY <3>1, <4>3, LightSound, QuietMove
      <3>3. CASE o = None
        <4>1. Goto(r, j, "lease")
          BY <2>3, <3>3 DEF ReadOutcome
        <4> QED
          BY <3>1, <4>1, QuietMoves DEF Free, Steps
      <3> QED
        BY <3>2, <3>3
    <2>4. CASE ReadLease(r, j)
      <3> DEFINE w == worker[r][j]
                 l == lease[j][w.n]
                 e == IF runner[r].deadline <= clock + AttemptTimeout
                      THEN runner[r].deadline ELSE clock + AttemptTimeout
                 v == [w EXCEPT !.pc = "prepare", !.expires = e]
      <3>1. UNCHANGED records
        BY <2>4 DEF ReadLease, journalVars, records
      <3>2. \/ l # None /\ Defer(r, j, l)
            \/ Propose(r, j, NotSent(TRUE, "other"))
            \/ Propose(r, j, NotSent(FALSE, "retrySafe"))
            \/ Move(r, j, v)
        BY <2>4 DEF ReadLease
      <3>3. Light(v)
        <4>1. w \in WorkerStates
          BY WorkerType DEF IInv
        <4> HIDE DEF w, e
        <4> QED
          BY <4>1 DEF Light, Free, Steps, WorkerStates
      <3> HIDE DEF v, l
      <3>4. CASE l # None /\ Defer(r, j, l)
        BY <3>1, <3>4, DeferSound DEF l
      <3>5. CASE \E o \in Outcomes : o.dispatch = "not_sent" /\ Propose(r, j, o)
        BY <3>1, <3>5, QuietMoves
      <3>6. CASE Move(r, j, v)
        BY <3>1, <3>3, <3>6, LightSound, QuietMove
      <3> QED
        BY <3>2, <3>4, <3>5, <3>6, SyntheticOutcomes
    <2>5. CASE Prepare(r, j)
      <3>1. UNCHANGED records
        BY <2>5 DEF Prepare, journalVars, records
      <3>2. \/ \E o \in Outcomes : o.dispatch = "not_sent" /\ Propose(r, j, o)
            \/ Goto(r, j, "writeLease")
        BY <2>5, SyntheticOutcomes DEF Prepare
      <3> QED
        BY <3>1, <3>2, QuietMoves DEF Free, Steps
    <2>6. CASE GiveUp(r, j)
      <3>1. UNCHANGED records
        BY <2>6 DEF GiveUp, journalVars, records
      <3>2. lease[j][worker[r][j].n] # None
        BY <2>6 DEF GiveUp, At, IInv, WorkersSound, Sound
      <3>3. Propose(r, j, SentUnknown(TRUE))
        BY <2>6 DEF GiveUp
      <3> QED
        BY <3>1, <3>2, <3>3, SyntheticOutcomes, QuietMoves
    <2> QED
      BY <1>7, <2>1, <2>2, <2>3, <2>4, <2>5, <2>6, WriteLeaseSound,
         BeginDispatchSound, RuntimeSound, PersistOutcomeSound,
         WriteAcceptedSound, EnsureCompleteSound
      DEF JobStep
  <1> QED
    BY <1>2, <1>3, <1>4, <1>5, <1>6, <1>7 DEF Next, RunStep

LEMMA Invariance == Spec => []IInv
  <1> QED
    BY InvInit, InvNext, PTL DEF Spec

\* Every reachable state of the runners and of the journal is well formed: in
\* particular the attempt number never passes the attempt budget.
THEOREM TypeCorrect == Spec => []TypeOK
  <1>1. IInv => TypeOK
    BY DEF IInv
  <1> QED
    BY <1>1, Invariance, PTL

\* However many runners contend for a job, and wherever they crash, no attempt
\* is handed to the runtime twice (persistLease, beginDispatch).
THEOREM DispatchOnce == Spec => []DispatchedOnce
  <1>1. IInv => DispatchedOnce
    BY DEF IInv, RecordsSound
  <1> QED
    BY <1>1, Invariance, PTL

\* No durable outcome claims a completion that was not received, nor an
\* ambiguous send without the lease that allowed it (persistOutcome).
THEOREM OutcomesHaveEvidence == Spec => []OutcomeHasEvidence
  <1>1. IInv => OutcomeHasEvidence
    BY DEF IInv, RecordsSound
  <1> QED
    BY <1>1, Invariance, PTL

\* Every trace a run reports is the one accepted trace of its job, closed by
\* the completion marker (persistAcceptedAndComplete, ensureComplete).
THEOREM ReturnsAccepted == Spec => []ReturnedTraceIsAccepted
  <1>1. IInv => ReturnedTraceIsAccepted
    BY DEF IInv, WorkersSound, Sound, ReturnedTraceIsAccepted
  <1> QED
    BY <1>1, Invariance, PTL

-----------------------------------------------------------------------------
(* The runners implement the journal of ShadowJournal: whatever they race  *)
(* for and wherever they crash, each record is published once, in protocol *)
(* order, and claims no more than the records before it allow.             *)
(*                                                                         *)
(* IInv says what the records claim; here it is joined by what a runner    *)
(* remembers of the outcomes it has read: its trace is the durable         *)
(* outcomes of the attempts before its own, each of which allowed a retry. *)

\* Steps before the attempt loop, and in it.
Before == {"idle", "begin", "orphan", "intent", "writeIntent"}
Attempting == {"outcome", "lease", "prepare", "writeLease", "turn", "inflight", "persist"}
Loose == Settled \cup {"finish"}

\* The durable outcomes of the first n attempts.
FirstOutcomes(j, n) == [m \in 1..n |-> outcome[j][m]]

\* The worker state w for job j follows the journal.
Following(j, w) ==
    /\ w.pc \in Before => w.n = 1 /\ w.seen = <<>>
    /\ w.pc \in Attempting =>
           /\ intent[j]
           /\ Reached(j, w.n)
           /\ w.seen = FirstOutcomes(j, w.n - 1)
    /\ w.pc = "accept" =>
           \E n \in Attempts :
               /\ outcome[j][n] # None
               /\ Reached(j, n)
               /\ w.seen = FirstOutcomes(j, n)

FollowInv == \A r \in Runners, j \in Jobs : Following(j, worker[r][j])

\* The intent and the outcomes of job j stay.
Kept(j) ==
    /\ intent[j] => intent'[j]
    /\ \A m \in Attempts : outcome[j][m] # None => outcome'[j][m] = outcome[j][m]

-----------------------------------------------------------------------------
(* Traces.                                                                 *)

\* One more outcome makes the trace of one more attempt.
LEMMA AppendOutcome ==
    ASSUME NEW k \in Nat, NEW f, NEW o \in Outcomes, NEW s \in Seq(Outcomes),
           s = [m \in 1..k |-> f[m]], o = f[k + 1]
    PROVE  Append(s, o) = [m \in 1..(k + 1) |-> f[m]]
  <1>1. Len(s) = k
    OBVIOUS
  <1>2. Append(s, o) \in Seq(Outcomes) /\ Len(Append(s, o)) = k + 1
    BY <1>1
  <1>3. \A m \in 1..(k + 1) : Append(s, o)[m] = f[m]
    BY <1>1
  <1>4. Append(s, o) = [m \in 1..Len(Append(s, o)) |-> Append(s, o)[m]]
    BY <1>2
  <1> QED
    BY <1>2, <1>3, <1>4

\* A worker goes on following a journal that only grows.
LEMMA FollowingKept ==
    ASSUME NEW j \in Jobs, NEW w, w.n \in Attempts, Following(j, w), Kept(j)
    PROVE  Following(j, w)'
  <1>1. ASSUME NEW n \in Attempts, Reached(j, n)
        PROVE  Reached(j, n)' /\ FirstOutcomes(j, n - 1)' = FirstOutcomes(j, n - 1)
    <2>1. 1..(n - 1) \subseteq Attempts
      BY <1>1, Constants DEF Attempts
    <2>2. \A m \in 1..(n - 1) : outcome'[j][m] = outcome[j][m]
      BY <1>1, <2>1 DEF Reached, Kept
    <2> QED
      BY <1>1, <2>2 DEF Reached, FirstOutcomes
  <1>2. ASSUME NEW n \in Attempts, Reached(j, n), outcome[j][n] # None
        PROVE  /\ outcome'[j][n] # None
               /\ FirstOutcomes(j, n)' = FirstOutcomes(j, n)
    <2>1. 1..n = 1..(n - 1) \cup {n} /\ 1..n \subseteq Attempts
      BY <1>2, Constants DEF Attempts
    <2>2. \A m \in 1..n : outcome'[j][m] = outcome[j][m]
      BY <1>2, <2>1 DEF Reached, Kept
    <2> QED
      BY <1>2, <2>2 DEF FirstOutcomes, Kept
  <1>3. w.pc \in Before => w.n = 1 /\ w.seen = <<>>
    BY DEF Following
  <1>4. w.pc \in Attempting =>
           intent'[j] /\ Reached(j, w.n)' /\ w.seen = FirstOutcomes(j, w.n - 1)'
    BY <1>1 DEF Following, Kept
  <1>5. ASSUME w.pc = "accept"
        PROVE  \E n \in Attempts :
                   /\ outcome'[j][n] # None
                   /\ Reached(j, n)'
                   /\ w.seen = FirstOutcomes(j, n)'
    <2>1. PICK n \in Attempts : /\ outcome[j][n] # None
                                /\ Reached(j, n)
                                /\ w.seen = FirstOutcomes(j, n)
      BY <1>5 DEF Following
    <2> QED
      BY <1>1, <1>2, <2>1
  <1> QED
    BY <1>3, <1>4, <1>5 DEF Following

-----------------------------------------------------------------------------
(* Steps.                                                                  *)

\* A step of one worker.
LEMMA FollowMove ==
    ASSUME IInv, FollowInv, NEW r \in Runners, NEW j \in Jobs, NEW w,
           Move(r, j, w), Following(j, w)', \A k \in Jobs : Kept(k)
    PROVE  FollowInv'
  <1> SUFFICES ASSUME NEW q \in Runners, NEW k \in Jobs
               PROVE  Following(k, worker[q][k])'
    BY DEF FollowInv
  <1>1. worker'[q][k] = IF q = r /\ k = j THEN w ELSE worker[q][k]
    BY DEF Move, IInv, TypeOK
  <1>2. Following(k, worker[q][k]) /\ worker[q][k].n \in Attempts
    BY WorkerType DEF FollowInv, IInv
  <1>3. PICK v : v = worker[q][k]
    OBVIOUS
  <1>4. Following(k, v)'
    BY <1>2, <1>3, FollowingKept
  <1>5. worker'[q][k] = IF q = r /\ k = j THEN w ELSE v
    BY <1>1, <1>3
  <1> QED
    BY <1>4, <1>5 DEF Following

\* Whoever settles, or holds the accepted trace, follows nothing any more.
LEMMA LooseFollows ==
    ASSUME NEW j, NEW w, w.pc \in Loose
    PROVE  Following(j, w)'
  BY DEF Following, Loose, Settled, Before, Attempting

\* A step within the attempt loop that stays at its attempt.
LEMMA SameAttempt ==
    ASSUME IInv, FollowInv, NEW r \in Runners, NEW j \in Jobs, NEW v, Kept(j),
           worker[r][j].pc \in Attempting, v.pc \in Attempting,
           v.n = worker[r][j].n, v.seen = worker[r][j].seen
    PROVE  Following(j, v)'
  <1>1. PICK w : w = worker[r][j]
    OBVIOUS
  <1>2. Following(j, w) /\ w.n \in Attempts
    BY <1>1, WorkerType DEF FollowInv, IInv
  <1>3. Following(j, w)'
    BY <1>2, FollowingKept
  <1> QED
    BY <1>1, <1>3 DEF Following, Before, Attempting

\* After the durable outcome of its attempt, a worker follows with one more.
LEMMA AfterOutcomeFollows ==
    ASSUME IInv, FollowInv, NEW r \in Runners, NEW j \in Jobs, NEW o \in Outcomes,
           worker[r][j].pc \in Attempting, Kept(j),
           outcome'[j][worker[r][j].n] = o, AfterOutcome(r, j, o)
    PROVE  \E v : Move(r, j, v) /\ Following(j, v)'
  <1>0. PICK w : w = worker[r][j]
    OBVIOUS
  <1> DEFINE seen == Append(w.seen, o)
             next == [w EXCEPT !.pc = "outcome", !.n = w.n + 1,
                               !.seen = seen, !.cand = None]
             fail == [IdleWorker EXCEPT !.pc = "failed"]
             last == [IdleWorker EXCEPT !.pc = "accept", !.seen = seen]
  <1>1. /\ w \in WorkerStates /\ IdleWorker \in WorkerStates
        /\ w.seen \in Seq(Outcomes) /\ w.n \in Attempts /\ w.n \in Nat /\ w.n >= 1
    BY <1>0, WorkerType, Constants DEF IInv, Attempts
  <1>2. Following(j, w) /\ w.pc \in Attempting
    BY <1>0 DEF FollowInv
  <1>3. /\ intent'[j]
        /\ Reached(j, w.n)'
        /\ w.seen = FirstOutcomes(j, w.n - 1)'
    BY <1>1, <1>2, FollowingKept DEF Following
  <1>4. outcome'[j][w.n] = o /\ o # None
    BY <1>0, Constants
  <1>5. seen = FirstOutcomes(j, w.n)'
    <2>1. w.n - 1 \in Nat /\ (w.n - 1) + 1 = w.n
      BY <1>1
    <2> HIDE DEF seen
    <2>2. Append(w.seen, o) = [m \in 1..((w.n - 1) + 1) |-> outcome'[j][m]]
      BY <1>1, <1>3, <1>4, <2>1, AppendOutcome DEF FirstOutcomes
    <2> QED
      BY <2>1, <2>2 DEF seen, FirstOutcomes
  <1>6. CASE RetrySafe(o) /\ Move(r, j, next)
    <2>1. next.pc = "outcome" /\ next.n = w.n + 1 /\ next.seen = seen
      <3> HIDE DEF seen
      <3> QED
        BY <1>1 DEF WorkerStates
    <2>2. Reached(j, w.n + 1)'
      <3>1. 1..((w.n + 1) - 1) = 1..(w.n - 1) \cup {w.n}
        BY <1>1
      <3> QED
        BY <1>3, <1>4, <1>6, <3>1 DEF Reached
    <2>3. (w.n + 1) - 1 = w.n
      BY <1>1
    <2> HIDE DEF next, seen
    <2>4. Following(j, next)'
      BY <1>3, <1>5, <2>1, <2>2, <2>3 DEF Following, Before, Attempting
    <2> QED
      BY <1>6, <2>4
  <1>7. CASE Move(r, j, fail)
    <2>1. fail.pc \in Loose
      BY <1>1 DEF WorkerStates, Loose, Settled
    <2> QED
      BY <1>7, <2>1, LooseFollows
  <1>8. CASE Move(r, j, last)
    <2>1. last.pc = "accept" /\ last.seen = seen
      <3> HIDE DEF seen
      <3> QED
        BY <1>1 DEF WorkerStates
    <2> HIDE DEF last, seen
    <2>2. Following(j, last)'
      BY <1>1, <1>3, <1>4, <1>5, <2>1 DEF Following, Before, Attempting
    <2> QED
      BY <1>8, <2>2
  <1>9. \/ RetrySafe(o) /\ Move(r, j, next)
        \/ Move(r, j, fail)
        \/ Move(r, j, last)
    BY <1>0 DEF AfterOutcome, Fail, Settle
  <1> QED
    BY <1>6, <1>7, <1>8, <1>9

\* The moves the actions are made of, when intents and outcomes are kept.
LEMMA FollowMoves ==
    ASSUME IInv, FollowInv, NEW r \in Runners, NEW j \in Jobs, \A k \in Jobs : Kept(k)
    PROVE  /\ \A pc \in Loose : Settle(r, j, pc) => FollowInv'
           /\ \A pc \in Before \ {"idle"} :
                 worker[r][j].pc \in Before /\ Goto(r, j, pc) => FollowInv'
           /\ \A pc \in Attempting :
                 worker[r][j].pc \in Attempting /\ Goto(r, j, pc) => FollowInv'
           /\ \A o \in Outcomes :
                 worker[r][j].pc \in Attempting /\ Propose(r, j, o) => FollowInv'
  <1>0. PICK w : w = worker[r][j]
    OBVIOUS
  <1>1. w \in WorkerStates /\ IdleWorker \in WorkerStates /\ Following(j, w)
    BY <1>0, WorkerType, Constants DEF IInv, FollowInv
  <1>2. ASSUME NEW pc \in Loose, Settle(r, j, pc)
        PROVE  FollowInv'
    <2>1. PICK v : v = [IdleWorker EXCEPT !.pc = pc]
      OBVIOUS
    <2>2. v.pc = pc
      BY <1>1, <2>1 DEF WorkerStates
    <2> QED
      BY <1>2, <2>1, <2>2, LooseFollows, FollowMove DEF Settle
  <1>3. ASSUME NEW pc \in Before, w.pc \in Before, Goto(r, j, pc)
        PROVE  FollowInv'
    <2>1. PICK v : v = [w EXCEPT !.pc = pc]
      OBVIOUS
    <2>2. v.pc = pc /\ v.n = w.n /\ v.seen = w.seen
      BY <1>1, <2>1 DEF WorkerStates
    <2>3. Following(j, v)'
      BY <1>1, <1>3, <2>2 DEF Following, Before, Attempting
    <2> QED
      BY <1>0, <1>3, <2>1, <2>3, FollowMove DEF Goto
  <1>4. ASSUME NEW pc \in Attempting, w.pc \in Attempting, Goto(r, j, pc)
        PROVE  FollowInv'
    <2>1. PICK v : v = [w EXCEPT !.pc = pc]
      OBVIOUS
    <2>2. v.pc = pc /\ v.n = w.n /\ v.seen = w.seen
      BY <1>1, <2>1 DEF WorkerStates
    <2>3. Following(j, v)'
      BY <1>0, <1>4, <2>2, SameAttempt
    <2> QED
      BY <1>0, <1>4, <2>1, <2>3, FollowMove DEF Goto
  <1>5. ASSUME NEW o \in Outcomes, w.pc \in Attempting, Propose(r, j, o)
        PROVE  FollowInv'
    <2>1. PICK v : v = [w EXCEPT !.pc = "persist", !.cand = o, !.expires = 0]
      OBVIOUS
    <2>2. v.pc = "persist" /\ v.n = w.n /\ v.seen = w.seen
      BY <1>1, <2>1 DEF WorkerStates
    <2>3. Following(j, v)'
      BY <1>0, <1>5, <2>2, SameAttempt DEF Attempting
    <2> QED
      BY <1>0, <1>5, <2>1, <2>3, FollowMove DEF Propose
  <1> QED
    BY <1>0, <1>2, <1>3, <1>4, <1>5

\* The worker that wrote or found the intent enters the attempt loop at its
\* first attempt, with an empty trace.
LEMMA EnterLoop ==
    ASSUME IInv, FollowInv, NEW r \in Runners, NEW j \in Jobs,
           \A k \in Jobs : Kept(k), worker[r][j].pc \in Before, intent'[j],
           Goto(r, j, "outcome")
    PROVE  FollowInv'
  <1>0. PICK w : w = worker[r][j]
    OBVIOUS
  <1>1. w \in WorkerStates /\ Following(j, w)
    BY <1>0, WorkerType DEF IInv, FollowInv
  <1>2. PICK v : v = [w EXCEPT !.pc = "outcome"]
    OBVIOUS
  <1>3. v.pc = "outcome" /\ v.n = 1 /\ v.seen = <<>>
    BY <1>0, <1>1, <1>2 DEF WorkerStates, Following
  <1>4. v.seen = FirstOutcomes(j, v.n - 1)'
    <2>1. 1..(v.n - 1) = {}
      BY <1>3
    <2> QED
      BY <1>3, <2>1 DEF FirstOutcomes
  <1>5. Following(j, v)'
    BY <1>3, <1>4 DEF Following, Before, Attempting, Reached
  <1> QED
    BY <1>0, <1>2, <1>5, FollowMove DEF Goto

\* A worker never writes over a durable record, and gives its own outcome for
\* its own attempt only.
LEMMA RecordsKept ==
    ASSUME IInv, NEW r \in Runners, NEW j \in Jobs,
           JobStep(r, j) \/ RuntimeAnswer(r, j) \/ RuntimeFailure(r, j) \/ Fault(r, j)
    PROVE  \A k \in Jobs : Kept(k)
  <1>1. CASE WriteIntent(r, j)
    BY <1>1 DEF WriteIntent, Kept, IInv, TypeOK, JournalTypeOK
  <1>2. CASE PersistOutcome(r, j)
    <2> DEFINE n == worker[r][j].n
    <2>1. n \in Attempts /\ outcome \in [Jobs -> [Attempts -> Outcomes \cup {None}]]
      BY WorkerType DEF IInv, TypeOK, JournalTypeOK
    <2>2. /\ UNCHANGED intent
          /\ \E o : /\ outcome' = [outcome EXCEPT ![j][n] = o]
                    /\ outcome[j][n] # None => o = outcome[j][n]
      BY <1>2 DEF PersistOutcome
    <2> HIDE DEF n
    <2> QED
      BY <2>1, <2>2 DEF Kept
  <1>3. CASE ~WriteIntent(r, j) /\ ~PersistOutcome(r, j)
    <2>1. UNCHANGED <<intent, outcome>>
      BY <1>3 DEF JobStep, StartJob, SkipJob, LoadAccepted, CheckOrphan, ReadIntent,
         ReadOutcome, ReadLease, Prepare, WriteLease, BeginDispatch, GiveUp,
         WriteAccepted, EnsureComplete, RuntimeAnswer, RuntimeFailure, Fault, journalVars
    <2> QED
      BY <2>1 DEF Kept
  <1> QED
    BY <1>1, <1>2, <1>3

\* The outcome a worker persists or finds is an outcome.
LEMMA WinnerType ==
    ASSUME IInv, NEW r \in Runners, NEW j \in Jobs, PersistOutcome(r, j)
    PROVE  LET n == worker[r][j].n
               winner == IF outcome[j][n] = None THEN worker[r][j].cand ELSE outcome[j][n]
           IN  winner \in Outcomes /\ outcome'[j][n] = winner
  <1> DEFINE n == worker[r][j].n
             winner == IF outcome[j][n] = None THEN worker[r][j].cand ELSE outcome[j][n]
  <1>1. /\ n \in Attempts /\ outcome \in [Jobs -> [Attempts -> Outcomes \cup {None}]]
        /\ worker[r][j].cand \in Outcomes \cup {None}
    BY WorkerType DEF IInv, TypeOK, JournalTypeOK
  <1>2. worker[r][j].cand # None
    BY DEF PersistOutcome, At, IInv, WorkersSound, Sound
  <1>3. outcome' = [outcome EXCEPT ![j][n] = winner]
    BY DEF PersistOutcome
  <1>4. winner \in Outcomes
    BY <1>1, <1>2
  <1> HIDE DEF n, winner
  <1>5. outcome'[j][n] = winner
    BY <1>1, <1>3
  <1> QED
    BY <1>4, <1>5 DEF n, winner

\* Every step of a job keeps the workers on the journal.
LEMMA JobFollows ==
    ASSUME IInv, FollowInv, NEW r \in Runners, NEW j \in Jobs,
           JobStep(r, j) \/ RuntimeAnswer(r, j) \/ RuntimeFailure(r, j) \/ Fault(r, j)
    PROVE  FollowInv'
  <1>0. \A k \in Jobs : Kept(k)
    BY RecordsKept
  <1>1. CASE StartJob(r, j) \/ SkipJob(r, j) \/ CheckOrphan(r, j) \/ Fault(r, j)
    <2>1. \/ \E pc \in Loose : Settle(r, j, pc)
          \/ \E pc \in Before \ {"idle"} :
                worker[r][j].pc \in Before /\ Goto(r, j, pc)
      BY <1>1 DEF StartJob, SkipJob, CheckOrphan, Fault, Fail, At, Loose, Settled, Before
    <2> QED
      BY <1>0, <2>1, FollowMoves
  <1>2. CASE LoadAccepted(r, j)
    <2>1. CASE accepted[j] # <<>>
      <3>1. PICK v : v = [IdleWorker EXCEPT !.pc = "finish", !.seen = accepted[j]]
        OBVIOUS
      <3>2. v.pc \in Loose
        BY <3>1 DEF IdleWorker, Loose
      <3>3. Move(r, j, v)
        BY <1>2, <2>1, <3>1 DEF LoadAccepted
      <3> QED
        BY <1>0, <3>2, <3>3, LooseFollows, FollowMove
    <2>2. CASE accepted[j] = <<>>
      <3>1. worker[r][j].pc \in Before /\ Goto(r, j, "orphan")
        BY <1>2, <2>2 DEF LoadAccepted, At, Before
      <3> QED
        BY <1>0, <3>1, FollowMoves DEF Before
    <2> QED
      BY <2>1, <2>2
  <1>3. CASE ReadIntent(r, j) \/ WriteIntent(r, j)
    <2>1. worker[r][j].pc \in Before
      BY <1>3 DEF ReadIntent, WriteIntent, At, Before
    <2>2. \/ Goto(r, j, "outcome") /\ intent'[j]
          \/ Goto(r, j, "writeIntent")
          \/ Settle(r, j, "pending")
      BY <1>3 DEF ReadIntent, WriteIntent, journalVars, IInv, TypeOK, JournalTypeOK
    <2> QED
      BY <1>0, <2>1, <2>2, FollowMoves, EnterLoop DEF Before, Loose, Settled
  <1>4. CASE ReadOutcome(r, j)
    <2> DEFINE o == outcome[j][worker[r][j].n]
    <2>1. worker[r][j].pc \in Attempting
      BY <1>4 DEF ReadOutcome, At, Attempting
    <2>2. CASE o # None
      <3>1. o \in Outcomes
        BY <2>2, WorkerType DEF IInv, TypeOK, JournalTypeOK
      <3>2. AfterOutcome(r, j, o) /\ outcome'[j][worker[r][j].n] = o
        BY <1>4, <2>2 DEF ReadOutcome, journalVars
      <3>3. PICK v : Move(r, j, v) /\ Following(j, v)'
        BY <1>0, <2>1, <3>1, <3>2, AfterOutcomeFollows
      <3> QED
        BY <1>0, <3>3, FollowMove
    <2>3. CASE o = None
      <3>1. Goto(r, j, "lease")
        BY <1>4, <2>3 DEF ReadOutcome
      <3> QED
        BY <1>0, <2>1, <3>1, FollowMoves DEF Attempting
    <2> QED
      BY <2>2, <2>3
  <1>5. CASE ReadLease(r, j)
    <2>0. PICK w : w = worker[r][j]
      OBVIOUS
    <2> DEFINE e == IF runner[r].deadline <= clock + AttemptTimeout
                    THEN runner[r].deadline ELSE clock + AttemptTimeout
    <2>1. PICK v : v = [w EXCEPT !.pc = "prepare", !.expires = e]
      OBVIOUS
    <2>2. worker[r][j].pc \in Attempting
      BY <1>5 DEF ReadLease, At, Attempting
    <2>3. \/ \E o \in Outcomes : Propose(r, j, o)
          \/ Settle(r, j, "pending")
          \/ Move(r, j, v)
      BY <1>5, <2>0, <2>1, SyntheticOutcomes DEF ReadLease, Defer
    <2>4. Following(j, v)'
      <3>1. w \in WorkerStates
        BY <2>0, WorkerType DEF IInv
      <3> HIDE DEF e
      <3>2. v.pc = "prepare" /\ v.n = w.n /\ v.seen = w.seen
        BY <2>1, <3>1 DEF WorkerStates
      <3> QED
        BY <1>0, <2>0, <2>2, <3>2, SameAttempt DEF Attempting
    <2> QED
      BY <1>0, <2>2, <2>3, <2>4, FollowMoves, FollowMove DEF Loose, Settled
  <1>6. CASE Prepare(r, j) \/ GiveUp(r, j) \/ RuntimeAnswer(r, j) \/ RuntimeFailure(r, j)
             \/ BeginDispatch(r, j)
    <2>1. worker[r][j].pc \in Attempting
      BY <1>6 DEF Prepare, GiveUp, RuntimeAnswer, RuntimeFailure, BeginDispatch, At, Attempting
    <2>2. \A a \in BOOLEAN : RuntimeNotSent(a) \subseteq Outcomes
                             /\ RuntimeCompleted(a) \subseteq Outcomes
      BY OutcomeTypes
    <2>3. \/ \E o \in Outcomes : Propose(r, j, o)
          \/ \E pc \in Attempting : Goto(r, j, pc)
      <3>1. CASE Prepare(r, j) \/ GiveUp(r, j) \/ BeginDispatch(r, j)
        BY <3>1, SyntheticOutcomes DEF Prepare, GiveUp, BeginDispatch, Attempting
      <3>2. CASE RuntimeAnswer(r, j)
        BY <2>2, <3>2, SyntheticOutcomes DEF RuntimeAnswer
      <3>3. CASE RuntimeFailure(r, j)
        BY <3>3, SyntheticOutcomes DEF RuntimeFailure
      <3> QED
        BY <1>6, <3>1, <3>2, <3>3
    <2> QED
      BY <1>0, <2>1, <2>3, FollowMoves
  <1>7. CASE WriteLease(r, j)
    <2>0. PICK w : w = worker[r][j]
      OBVIOUS
    <2>1. PICK v : v = [w EXCEPT !.pc = "turn", !.expires = 0]
      OBVIOUS
    <2>2. worker[r][j].pc \in Attempting
      BY <1>7 DEF WriteLease, At, Attempting
    <2>3. \/ \E o \in Outcomes : Propose(r, j, o)
          \/ Settle(r, j, "pending")
          \/ Move(r, j, v)
      BY <1>7, <2>0, <2>1, SyntheticOutcomes DEF WriteLease, Defer
    <2>4. Following(j, v)'
      <3>1. w \in WorkerStates
        BY <2>0, WorkerType DEF IInv
      <3>2. v.pc = "turn" /\ v.n = w.n /\ v.seen = w.seen
        BY <2>1, <3>1 DEF WorkerStates
      <3> QED
        BY <1>0, <2>0, <2>2, <3>2, SameAttempt DEF Attempting
    <2> QED
      BY <1>0, <2>2, <2>3, <2>4, FollowMoves, FollowMove DEF Loose, Settled
  <1>8. CASE PersistOutcome(r, j)
    <2> DEFINE n == worker[r][j].n
               winner == IF outcome[j][n] = None THEN worker[r][j].cand ELSE outcome[j][n]
    <2>1. winner \in Outcomes /\ outcome'[j][n] = winner
      BY <1>8, WinnerType
    <2>2. AfterOutcome(r, j, winner) /\ worker[r][j].pc \in Attempting
      BY <1>8 DEF PersistOutcome, At, Attempting
    <2> HIDE DEF winner
    <2>3. PICK v : Move(r, j, v) /\ Following(j, v)'
      BY <1>0, <2>1, <2>2, AfterOutcomeFollows
    <2> QED
      BY <1>0, <2>3, FollowMove
  <1>9. CASE WriteAccepted(r, j) \/ EnsureComplete(r, j)
    <2>1. \/ \E pc \in Loose : Settle(r, j, pc)
          \/ \E pc \in Loose : \E t : Move(r, j, [IdleWorker EXCEPT !.pc = pc, !.seen = t])
      BY <1>9 DEF WriteAccepted, EnsureComplete, Fail, Loose, Settled
    <2>2. ASSUME NEW pc \in Loose, NEW t,
                 Move(r, j, [IdleWorker EXCEPT !.pc = pc, !.seen = t])
          PROVE  FollowInv'
      <3>1. PICK v : v = [IdleWorker EXCEPT !.pc = pc, !.seen = t]
        OBVIOUS
      <3>2. v.pc \in Loose
        BY <3>1 DEF IdleWorker
      <3> QED
        BY <1>0, <2>2, <3>1, <3>2, LooseFollows, FollowMove
    <2> QED
      BY <1>0, <2>1, <2>2, FollowMoves
  <1> QED
    BY <1>1, <1>2, <1>3, <1>4, <1>5, <1>6, <1>7, <1>8, <1>9 DEF JobStep

\* An idle worker follows any journal.
LEMMA IdleFollows ==
    ASSUME NEW j, NEW w, w = IdleWorker
    PROVE  Following(j, w) /\ Following(j, w)'
  <1>1. w.pc = "idle" /\ w.n = 1 /\ w.seen = <<>>
    BY DEF IdleWorker
  <1> QED
    BY <1>1 DEF Following, Before, Attempting

LEMMA FollowInit == Init => FollowInv
  <1> SUFFICES ASSUME Init, NEW r \in Runners, NEW j \in Jobs
               PROVE  Following(j, worker[r][j])
    BY DEF FollowInv
  <1>1. worker[r][j] = IdleWorker
    BY DEF Init
  <1> QED
    BY <1>1, IdleFollows

LEMMA FollowNext == IInv /\ FollowInv /\ [Next]_vars => FollowInv'
  <1> SUFFICES ASSUME IInv, FollowInv, [Next]_vars PROVE FollowInv'
    OBVIOUS
  <1>1. ASSUME UNCHANGED worker, UNCHANGED <<intent, outcome>>
        PROVE  FollowInv'
    BY <1>1 DEF FollowInv, Following, Reached, FirstOutcomes
  <1>2. CASE UNCHANGED vars
    BY <1>1, <1>2 DEF vars
  <1>3. CASE Tick \/ \E j \in Jobs, n \in Attempts : Transmit(j, n)
    BY <1>1, <1>3 DEF Tick, Transmit, journalVars
  <1>4. CASE \E r \in Runners : StartRun(r) \/ Admit(r) \/ DeadlineAbort(r) \/ CallerAbort(r)
    BY <1>1, <1>4 DEF StartRun, Admit, DeadlineAbort, CallerAbort, journalVars
  <1>5. CASE \E r \in Runners : Return(r) \/ Crash(r)
    <2>1. PICK r \in Runners : Return(r) \/ Crash(r)
      BY <1>5
    <2>2. /\ UNCHANGED <<intent, outcome>>
          /\ worker' = [worker EXCEPT ![r] = [j \in Jobs |-> IdleWorker]]
      BY <2>1 DEF Return, Crash, journalVars
    <2>3. ASSUME NEW q \in Runners, NEW k \in Jobs
          PROVE  Following(k, worker[q][k])'
      <3>1. worker'[q][k] = IF q = r THEN IdleWorker ELSE worker[q][k]
        BY <2>2 DEF IInv, TypeOK
      <3>2. PICK v : v = worker'[q][k]
        OBVIOUS
      <3>3. Following(k, v)
        BY <3>1, <3>2, IdleFollows DEF FollowInv
      <3> QED
        BY <2>2, <3>2, <3>3 DEF Following, Reached, FirstOutcomes
    <2> QED
      BY <2>3 DEF FollowInv
  <1> QED
    BY <1>2, <1>3, <1>4, <1>5, JobFollows DEF Next, RunStep

LEMMA JournalInvariance == Spec => [](IInv /\ FollowInv)
  BY InvInit, InvNext, FollowInit, FollowNext, PTL DEF Spec

-----------------------------------------------------------------------------
(* The refinement.                                                         *)

\* What a job may do to the journal: one publication, allowed by it.
LEMMA JobPublishes ==
    ASSUME IInv, FollowInv, NEW r \in Runners, NEW j \in Jobs,
           JobStep(r, j) \/ RuntimeAnswer(r, j) \/ RuntimeFailure(r, j) \/ Fault(r, j)
    PROVE  [Journal!JournalNext]_Journal!journalVars
  <1> DEFINE n == worker[r][j].n
  <1>0. n \in Attempts /\ JournalTypeOK
    BY WorkerType DEF IInv, TypeOK
  <1>1. CASE WriteIntent(r, j)
    <2>1. Journal!PublishIntent(j) \/ UNCHANGED Journal!journalVars
      BY <1>0, <1>1 DEF WriteIntent, Journal!PublishIntent, Journal!journalVars, JournalTypeOK
    <2> QED
      BY <2>1 DEF Journal!JournalNext
  <1>2. CASE WriteLease(r, j)
    <2>1. CASE lease[j][n] # None
      BY <1>2, <2>1 DEF WriteLease, Journal!journalVars
    <2>2. CASE lease[j][n] = None
      <3> DEFINE new == [owner |-> r, expires |-> worker[r][j].expires]
      <3>1. new \in Leases
        BY WorkerType DEF Leases, IInv
      <3>2. /\ lease' = [lease EXCEPT ![j][n] = new]
            /\ UNCHANGED <<intent, outcome, accepted, complete>>
        BY <1>2, <2>2 DEF WriteLease
      <3>3. intent[j] /\ Reached(j, n)
        BY <1>2 DEF WriteLease, At, FollowInv, Following, Attempting
      <3> HIDE DEF n, new
      <3>4. lease'[j][n] = new
        BY <1>0, <3>2 DEF JournalTypeOK
      <3>5. Journal!PublishLease(j, n)
        BY <2>2, <3>1, <3>2, <3>3, <3>4
        DEF Journal!PublishLease, Journal!Reached, Journal!RetrySafe, Reached, RetrySafe,
            Journal!Leases, Journal!Instants, Leases, Instants
      <3> QED
        BY <1>0, <3>5 DEF Journal!JournalNext, Journal!Attempts, Attempts
    <2> QED
      BY <2>1, <2>2
  <1>3. CASE PersistOutcome(r, j)
    <2>1. CASE outcome[j][n] # None
      <3>1. outcome' = outcome
        BY <1>0, <1>3, <2>1 DEF PersistOutcome, JournalTypeOK
      <3> QED
        BY <1>3, <3>1 DEF PersistOutcome, Journal!journalVars
    <2>2. CASE outcome[j][n] = None
      <3> DEFINE o == worker[r][j].cand
      <3>1. /\ outcome' = [outcome EXCEPT ![j][n] = o]
            /\ UNCHANGED <<intent, lease, accepted, complete>>
        BY <1>3, <2>2 DEF PersistOutcome
      <3>2. o \in Outcomes /\ outcome'[j][n] = o
        BY <1>3, <2>2, WinnerType
      <3>3. intent[j] /\ Reached(j, n)
        BY <1>3 DEF PersistOutcome, At, FollowInv, Following, Attempting
      <3>4. o.dispatch # "not_sent" => lease[j][n] # None
        <4>1. /\ o.dispatch = "completed" => wire[j][n] = "sent"
              /\ o.dispatch = "sent_unknown" => lease[j][n] # None
          BY <1>3 DEF PersistOutcome, At, IInv, WorkersSound, Sound
        <4>2. lease[j][n] = None => wire[j][n] = "none"
          BY <1>0 DEF IInv, RecordsSound, SendsAreLeased
        <4>3. o.dispatch \in {"not_sent", "sent_unknown", "completed"}
          BY <3>2 DEF Outcomes
        <4> HIDE DEF n, o
        <4> QED
          BY <4>1, <4>2, <4>3
      <3> HIDE DEF n, o
      <3>5. Journal!PublishOutcome(j, n)
        BY <2>2, <3>1, <3>2, <3>3, <3>4
        DEF Journal!PublishOutcome, Journal!Reached, Journal!RetrySafe, Reached, RetrySafe,
            Journal!Outcomes, Outcomes
      <3> QED
        BY <1>0, <3>5 DEF Journal!JournalNext, Journal!Attempts, Attempts
    <2> QED
      BY <2>1, <2>2
  <1>4. CASE WriteAccepted(r, j)
    <2>1. CASE accepted[j] # <<>>
      BY <1>0, <1>4, <2>1 DEF WriteAccepted, Journal!journalVars, JournalTypeOK
    <2>2. CASE accepted[j] = <<>>
      <3>1. PICK m \in Attempts : /\ outcome[j][m] # None
                                  /\ Reached(j, m)
                                  /\ worker[r][j].seen = FirstOutcomes(j, m)
        BY <1>4 DEF WriteAccepted, At, FollowInv, Following
      <3>2. /\ accepted' = [accepted EXCEPT ![j] = FirstOutcomes(j, m)]
            /\ UNCHANGED <<intent, lease, outcome, complete>>
        BY <1>4, <2>2, <3>1 DEF WriteAccepted
      <3>3. Journal!PublishAccepted(j, m)
        BY <2>2, <3>1, <3>2
        DEF Journal!PublishAccepted, FirstOutcomes, Journal!Reached, Journal!RetrySafe,
            Reached, RetrySafe
      <3> QED
        BY <3>3 DEF Journal!JournalNext, Journal!Attempts, Attempts
    <2> QED
      BY <2>1, <2>2
  <1>5. CASE EnsureComplete(r, j)
    <2>1. CASE complete[j] # <<>>
      BY <1>0, <1>5, <2>1 DEF EnsureComplete, Journal!journalVars, JournalTypeOK
    <2>2. CASE complete[j] = <<>>
      <3>1. worker[r][j].seen = accepted[j] /\ accepted[j] # <<>>
        BY <1>5 DEF EnsureComplete, At, IInv, WorkersSound, Sound
      <3>2. /\ complete' = [complete EXCEPT ![j] = accepted[j]]
            /\ UNCHANGED <<intent, lease, outcome, accepted>>
        BY <1>5, <2>2, <3>1 DEF EnsureComplete
      <3>3. Journal!PublishComplete(j)
        BY <2>2, <3>1, <3>2 DEF Journal!PublishComplete
      <3> QED
        BY <3>3 DEF Journal!JournalNext
    <2> QED
      BY <2>1, <2>2
  <1>6. CASE ~\/ WriteIntent(r, j) \/ WriteLease(r, j) \/ PersistOutcome(r, j)
              \/ WriteAccepted(r, j) \/ EnsureComplete(r, j)
    BY <1>6 DEF JobStep, StartJob, SkipJob, LoadAccepted, CheckOrphan, ReadIntent,
       ReadOutcome, ReadLease, Prepare, BeginDispatch, GiveUp, RuntimeAnswer,
       RuntimeFailure, Fault, journalVars, Journal!journalVars
  <1> QED
    BY <1>1, <1>2, <1>3, <1>4, <1>5, <1>6

\* Whatever the runners race for, and wherever they crash and resume, the run
\* directory is an immutable journal: each record is published once, a lease or
\* an outcome only for an attempt reached by retries that the protocol allows, an
\* outcome only with the lease it needs, the accepted trace from the durable
\* outcomes, and the completion marker from the accepted trace.
THEOREM RunnersImplementJournal == Spec => ImplementsJournal
  <1>1. Init => Journal!JournalInit
    BY DEF Init, JournalInit, Journal!JournalInit, Journal!Attempts, Attempts
  <1>2. IInv /\ FollowInv /\ [Next]_vars => [Journal!JournalNext]_Journal!journalVars
    <2> SUFFICES ASSUME IInv, FollowInv, [Next]_vars
                 PROVE  [Journal!JournalNext]_Journal!journalVars
      OBVIOUS
    <2>1. CASE UNCHANGED vars
      BY <2>1 DEF vars, Journal!journalVars
    <2>2. CASE Tick \/ \E j \in Jobs, n \in Attempts : Transmit(j, n)
      BY <2>2 DEF Tick, Transmit, journalVars, Journal!journalVars
    <2>3. CASE \E r \in Runners : RunStep(r) \/ CallerAbort(r) \/ Crash(r)
      BY <2>3 DEF RunStep, StartRun, Admit, Return, DeadlineAbort, CallerAbort, Crash,
         journalVars, Journal!journalVars
    <2> QED
      BY <2>1, <2>2, <2>3, JobPublishes DEF Next
  <1> QED
    BY <1>1, <1>2, JournalInvariance, PTL
    DEF Spec, ImplementsJournal, Journal!JournalSpec

-----------------------------------------------------------------------------
(* The deadline of the first admission.                                    *)

\* The instant t is not after the admitted deadline.
Within(t) == admission # None /\ t <= admission

\* A run that may still write goes by the admitted deadline, and so does every
\* lease that was granted or is about to be.
AdmitInv ==
    /\ \A r \in Runners :
          runner[r].phase = "jobs" /\ ~runner[r].aborted => Within(runner[r].deadline)
    /\ \A r \in Runners, j \in Jobs :
          worker[r][j].pc \in {"prepare", "writeLease"} => Within(worker[r][j].expires)
    /\ \A j \in Jobs, n \in Attempts :
          lease[j][n] # None => Within(lease[j][n].expires)

LEMMA AdmitInit == Init => AdmitInv
  BY DEF Init, JournalInit, AdmitInv, DownRunner, IdleWorker

\* A job grants itself no lease beyond the admission.
LEMMA JobAdmits ==
    ASSUME IInv, AdmitInv, NEW r \in Runners, NEW j \in Jobs,
           JobStep(r, j) \/ RuntimeAnswer(r, j) \/ RuntimeFailure(r, j) \/ Fault(r, j)
    PROVE  AdmitInv'
  <1>0. PICK w : w = worker[r][j]
    OBVIOUS
  <1>1. /\ w \in WorkerStates /\ w.n \in Attempts /\ TypeOK /\ w.expires \in Instants
        /\ lease \in [Jobs -> [Attempts -> Leases \cup {None}]]
    BY <1>0, WorkerType DEF IInv, TypeOK, JournalTypeOK
  <1>2. UNCHANGED admission
    BY DEF JobStep, StartJob, SkipJob, LoadAccepted, CheckOrphan, ReadIntent, WriteIntent,
       ReadOutcome, ReadLease, Prepare, WriteLease, BeginDispatch, GiveUp, PersistOutcome,
       WriteAccepted, EnsureComplete, RuntimeAnswer, RuntimeFailure, Fault
  <1>3. \A q \in Runners : /\ runner'[q].phase = runner[q].phase
                           /\ runner'[q].deadline = runner[q].deadline
                           /\ runner[q].aborted => runner'[q].aborted
    <2>1. UNCHANGED runner \/ runner' = [runner EXCEPT ![r].aborted = TRUE]
      BY DEF JobStep, StartJob, SkipJob, LoadAccepted, CheckOrphan, ReadIntent, WriteIntent,
         ReadOutcome, ReadLease, Prepare, WriteLease, BeginDispatch, GiveUp, PersistOutcome,
         WriteAccepted, EnsureComplete, RuntimeAnswer, RuntimeFailure, Fault, AfterOutcome,
         Fail
    <2>2. ASSUME NEW q \in Runners
          PROVE  /\ runner'[q].phase = runner[q].phase
                 /\ runner'[q].deadline = runner[q].deadline
                 /\ runner[q].aborted => runner'[q].aborted
      <3>1. PICK x : x = runner[q]
        OBVIOUS
      <3>2. x \in RunnerStates
        BY <1>1, <3>1 DEF TypeOK
      <3>3. runner'[q] = x \/ runner'[q] = [x EXCEPT !.aborted = TRUE]
        BY <1>1, <2>1, <3>1 DEF TypeOK
      <3> QED
        BY <3>1, <3>2, <3>3 DEF RunnerStates
    <2> QED
      BY <2>2
  <1>4. \E v : /\ Move(r, j, v)
               /\ v.pc \in {"prepare", "writeLease"} => Within(v.expires)
    <2>1. \A o : Propose(r, j, o) => \E v : Move(r, j, v) /\ v.pc = "persist"
      <3>1. ASSUME NEW o, Propose(r, j, o)
            PROVE  \E v : Move(r, j, v) /\ v.pc = "persist"
        <4>1. PICK v : v = [w EXCEPT !.pc = "persist", !.cand = o, !.expires = 0]
          OBVIOUS
        <4>2. v.pc = "persist"
          BY <1>1, <4>1 DEF WorkerStates
        <4> QED
          BY <1>0, <3>1, <4>1, <4>2 DEF Propose
      <3> QED
        BY <3>1
    <2>2. \A pc : Goto(r, j, pc) => \E v : Move(r, j, v) /\ v.pc = pc /\ v.expires = w.expires
      <3>1. ASSUME NEW pc, Goto(r, j, pc)
            PROVE  \E v : Move(r, j, v) /\ v.pc = pc /\ v.expires = w.expires
        <4>1. PICK v : v = [w EXCEPT !.pc = pc]
          OBVIOUS
        <4>2. v.pc = pc /\ v.expires = w.expires
          BY <1>1, <4>1 DEF WorkerStates
        <4> QED
          BY <1>0, <3>1, <4>1, <4>2 DEF Goto
      <3> QED
        BY <3>1
    <2>3. \A pc : Settle(r, j, pc) => \E v : Move(r, j, v) /\ v.pc = pc
      <3>1. ASSUME NEW pc, Settle(r, j, pc)
            PROVE  \E v : Move(r, j, v) /\ v.pc = pc
        <4>1. PICK v : v = [IdleWorker EXCEPT !.pc = pc]
          OBVIOUS
        <4>2. v.pc = pc
          BY <4>1 DEF IdleWorker
        <4> QED
          BY <3>1, <4>1, <4>2 DEF Settle
      <3> QED
        BY <3>1
    <2>4. CASE StartJob(r, j) \/ SkipJob(r, j) \/ CheckOrphan(r, j) \/ ReadIntent(r, j)
               \/ WriteIntent(r, j) \/ Fault(r, j)
      <3>1. \E pc : /\ pc \notin {"prepare", "writeLease"}
                    /\ Goto(r, j, pc) \/ Settle(r, j, pc)
        BY <2>4 DEF StartJob, SkipJob, CheckOrphan, ReadIntent, WriteIntent, Fault, Fail
      <3> QED
        BY <2>2, <2>3, <3>1
    <2>5. CASE LoadAccepted(r, j) \/ WriteAccepted(r, j) \/ EnsureComplete(r, j)
      <3>1. \/ \E pc : pc \notin {"prepare", "writeLease"} /\ (Goto(r, j, pc) \/ Settle(r, j, pc))
            \/ \E pc, t : /\ pc \notin {"prepare", "writeLease"}
                          /\ Move(r, j, [IdleWorker EXCEPT !.pc = pc, !.seen = t])
        BY <2>5 DEF LoadAccepted, WriteAccepted, EnsureComplete, Fail
      <3>2. ASSUME NEW pc, NEW t, pc \notin {"prepare", "writeLease"},
                   Move(r, j, [IdleWorker EXCEPT !.pc = pc, !.seen = t])
            PROVE  \E v : Move(r, j, v) /\ v.pc \notin {"prepare", "writeLease"}
        <4>1. PICK v : v = [IdleWorker EXCEPT !.pc = pc, !.seen = t]
          OBVIOUS
        <4>2. v.pc = pc
          BY <4>1 DEF IdleWorker
        <4> QED
          BY <3>2, <4>1, <4>2
      <3> QED
        BY <2>2, <2>3, <3>1, <3>2
    <2>6. CASE ReadOutcome(r, j) \/ PersistOutcome(r, j)
      <3>1. Goto(r, j, "lease") \/ \E o : AfterOutcome(r, j, o)
        BY <2>6 DEF ReadOutcome, PersistOutcome
      <3>2. ASSUME NEW o, AfterOutcome(r, j, o)
            PROVE  \E v : Move(r, j, v) /\ v.pc \notin {"prepare", "writeLease"}
        <4> DEFINE seen == Append(w.seen, o)
        <4>1. \/ \E pc : pc \notin {"prepare", "writeLease"} /\ Settle(r, j, pc)
              \/ Move(r, j, [IdleWorker EXCEPT !.pc = "accept", !.seen = seen])
              \/ Move(r, j, [w EXCEPT !.pc = "outcome", !.n = w.n + 1,
                                      !.seen = seen, !.cand = None])
          BY <1>0, <3>2 DEF AfterOutcome, Fail
        <4> HIDE DEF seen
        <4>2. /\ [IdleWorker EXCEPT !.pc = "accept", !.seen = seen].pc = "accept"
              /\ [w EXCEPT !.pc = "outcome", !.n = w.n + 1,
                           !.seen = seen, !.cand = None].pc = "outcome"
          BY <1>1 DEF IdleWorker, WorkerStates
        <4> QED
          BY <2>3, <4>1, <4>2
      <3> QED
        BY <2>2, <3>1, <3>2
    <2>7. CASE ReadLease(r, j)
      <3> DEFINE e == IF runner[r].deadline <= clock + AttemptTimeout
                      THEN runner[r].deadline ELSE clock + AttemptTimeout
                 v == [w EXCEPT !.pc = "prepare", !.expires = e]
      <3>1. \/ \E o : Propose(r, j, o)
            \/ Settle(r, j, "pending")
            \/ /\ Move(r, j, v)
               /\ ~runner[r].aborted /\ runner[r].phase = "jobs"
        BY <1>0, <2>7 DEF ReadLease, Defer, At
      <3>2. v.pc = "prepare" /\ v.expires = e
        <4> HIDE DEF e
        <4> QED
          BY <1>1 DEF WorkerStates
      <3>3. ~runner[r].aborted /\ runner[r].phase = "jobs" => Within(e)
        BY <1>1, Constants, AdmissionAssumption
        DEF AdmitInv, Within, TypeOK, RunnerStates, Instants
      <3> HIDE DEF e, v
      <3> QED
        BY <2>1, <2>3, <3>1, <3>2, <3>3
    <2>8. CASE Prepare(r, j)
      <3>1. /\ worker[r][j].pc = "prepare"
            /\ (\E o : Propose(r, j, o)) \/ Goto(r, j, "writeLease")
        BY <2>8 DEF Prepare, At
      <3>2. Within(w.expires)
        BY <1>0, <3>1 DEF AdmitInv
      <3> QED
        BY <2>1, <2>2, <3>1, <3>2
    <2>9. CASE WriteLease(r, j)
      <3>1. PICK v : v = [w EXCEPT !.pc = "turn", !.expires = 0]
        OBVIOUS
      <3>2. \/ \E o : Propose(r, j, o)
            \/ Settle(r, j, "pending")
            \/ Move(r, j, v)
        BY <1>0, <2>9, <3>1 DEF WriteLease, Defer
      <3>3. v.pc = "turn"
        BY <1>1, <3>1 DEF WorkerStates
      <3> QED
        BY <2>1, <2>3, <3>2, <3>3
    <2>10. CASE BeginDispatch(r, j) \/ GiveUp(r, j) \/ RuntimeAnswer(r, j)
                \/ RuntimeFailure(r, j)
      <3>1. (\E o : Propose(r, j, o)) \/ Goto(r, j, "inflight")
        BY <2>10 DEF BeginDispatch, GiveUp, RuntimeAnswer, RuntimeFailure
      <3> QED
        BY <2>1, <2>2, <3>1
    <2> QED
      BY <2>4, <2>5, <2>6, <2>7, <2>8, <2>9, <2>10 DEF JobStep
  <1>5. \A k \in Jobs, m \in Attempts :
           lease'[k][m] # None => lease'[k][m] = lease[k][m] \/ Within(lease'[k][m].expires)
    <2>1. CASE WriteLease(r, j)
      <3> DEFINE new == [owner |-> r, expires |-> w.expires]
      <3>1. lease' = lease \/ lease' = [lease EXCEPT ![j][w.n] = new]
        BY <1>0, <2>1 DEF WriteLease
      <3>2. Within(new.expires)
        BY <1>0, <2>1 DEF WriteLease, At, AdmitInv
      <3> HIDE DEF new
      <3> QED
        BY <1>1, <3>1, <3>2
    <2>2. CASE ~WriteLease(r, j)
      BY <2>2 DEF JobStep, StartJob, SkipJob, LoadAccepted, CheckOrphan, ReadIntent, WriteIntent,
         ReadOutcome, ReadLease, Prepare, BeginDispatch, GiveUp, PersistOutcome,
         WriteAccepted, EnsureComplete, RuntimeAnswer, RuntimeFailure, Fault, journalVars
    <2> QED
      BY <2>1, <2>2
  <1>6. \A q \in Runners, k \in Jobs :
           worker'[q][k].pc \in {"prepare", "writeLease"} => Within(worker'[q][k].expires)
    <2>1. PICK v : /\ Move(r, j, v)
                   /\ v.pc \in {"prepare", "writeLease"} => Within(v.expires)
      BY <1>4
    <2>2. \A q \in Runners, k \in Jobs :
             worker'[q][k] = IF q = r /\ k = j THEN v ELSE worker[q][k]
      BY <1>1, <2>1 DEF Move, TypeOK
    <2> QED
      BY <2>1, <2>2 DEF AdmitInv
  <1> QED
    BY <1>2, <1>3, <1>5, <1>6 DEF AdmitInv, Within

LEMMA AdmitNext == IInv /\ AdmitInv /\ [Next]_vars => AdmitInv'
  <1> SUFFICES ASSUME IInv, AdmitInv, [Next]_vars PROVE AdmitInv'
    OBVIOUS
  <1>0. TypeOK
    BY DEF IInv
  <1>1. CASE Tick \/ UNCHANGED vars \/ \E j \in Jobs, n \in Attempts : Transmit(j, n)
    BY <1>1 DEF Tick, vars, Transmit, journalVars, AdmitInv, Within
  <1>2. ASSUME NEW r \in Runners, Admit(r)
        PROVE  AdmitInv'
    <2>1. UNCHANGED <<lease, worker>>
      BY <1>2 DEF Admit, journalVars
    <2>2. runner[r] \in RunnerStates /\ runner[r].deadline \in Instants
      BY <1>0 DEF TypeOK, RunnerStates
    <2>3. CASE runner[r].aborted
      BY <1>0, <1>2, <2>1, <2>3 DEF Admit, TypeOK, RunnerStates, AdmitInv, Within
    <2>4. CASE ~runner[r].aborted
      <3>1. /\ admission' = IF admission = None THEN runner[r].deadline ELSE admission
            /\ runner' = [runner EXCEPT ![r].phase = "jobs", ![r].deadline = admission']
        BY <1>2, <2>4 DEF Admit
      <3>2. admission' \in Instants /\ admission' # None
        BY <1>0, <2>2, <3>1, AdmissionAssumption DEF TypeOK
      <3>3. \A t : Within(t) => Within(t)'
        BY <3>1 DEF Within
      <3>4. \A q \in Runners : q # r => runner'[q] = runner[q]
        BY <1>0, <3>1 DEF TypeOK
      <3>5. runner'[r].deadline = admission'
        BY <1>0, <2>2, <3>1 DEF TypeOK, RunnerStates
      <3>6. admission' <= admission'
        BY <3>2 DEF Instants
      <3> QED
        BY <2>1, <3>2, <3>3, <3>4, <3>5, <3>6 DEF AdmitInv, Within
    <2> QED
      BY <2>3, <2>4
  <1>3. ASSUME NEW r \in Runners, StartRun(r) \/ CallerAbort(r) \/ Return(r) \/ Crash(r)
        PROVE  AdmitInv'
    <2>1. UNCHANGED <<lease, admission>>
      BY <1>3 DEF StartRun, CallerAbort, Return, Crash, journalVars
    <2>2. ASSUME NEW q \in Runners, runner'[q].phase = "jobs", ~runner'[q].aborted
          PROVE  runner'[q] = runner[q]
      BY <1>0, <1>3, <2>2 DEF StartRun, CallerAbort, Return, Crash, TypeOK, RunnerStates,
         DownRunner
    <2>3. ASSUME NEW q \in Runners, NEW k \in Jobs
          PROVE  worker'[q][k] = worker[q][k] \/ worker'[q][k].pc = "idle"
      <3>1. UNCHANGED worker \/ worker' = [worker EXCEPT ![r] = [j \in Jobs |-> IdleWorker]]
        BY <1>3 DEF StartRun, CallerAbort, Return, Crash
      <3>2. IdleWorker.pc = "idle"
        BY DEF IdleWorker
      <3> QED
        BY <1>0, <3>1, <3>2 DEF TypeOK
    <2>4. \A q \in Runners, k \in Jobs :
             worker'[q][k].pc \in {"prepare", "writeLease"} => Within(worker'[q][k].expires)
      BY <2>3 DEF AdmitInv
    <2> QED
      BY <2>1, <2>2, <2>4 DEF AdmitInv, Within
  <1> QED
    BY <1>1, <1>2, <1>3, JobAdmits DEF Next, RunStep, DeadlineAbort

\* No request of any run, first or resumed, begins at or past the deadline that
\* the first admission recorded: a lease never outlives it, and beginDispatch
\* asks the lease.
THEOREM DispatchesAdmitted == Spec => DispatchInsideAdmission
  <1>1. IInv /\ AdmitInv /\ [Next]_vars
          => [dispatched' # dispatched => admission # None /\ clock < admission]_vars
    <2> SUFFICES ASSUME IInv, AdmitInv, Next, dispatched' # dispatched
                 PROVE  admission # None /\ clock < admission
      OBVIOUS
    <2>1. PICK r \in Runners, j \in Jobs :
             /\ BeginDispatch(r, j)
             /\ clock < lease[j][worker[r][j].n].expires
             /\ worker[r][j].pc = "turn"
      <3>1. ASSUME NEW r \in Runners, NEW j \in Jobs, ~BeginDispatch(r, j),
                   JobStep(r, j) \/ RuntimeAnswer(r, j) \/ RuntimeFailure(r, j) \/ Fault(r, j)
            PROVE  UNCHANGED dispatched
        BY <3>1 DEF JobStep, StartJob, SkipJob, LoadAccepted, CheckOrphan, ReadIntent,
           WriteIntent, ReadOutcome, ReadLease, Prepare, WriteLease, GiveUp, PersistOutcome,
           WriteAccepted, EnsureComplete, RuntimeAnswer, RuntimeFailure, Fault
      <3>2. ASSUME \/ Tick
                   \/ \E j \in Jobs, n \in Attempts : Transmit(j, n)
                   \/ \E r \in Runners : RunStep(r) \/ CallerAbort(r) \/ Crash(r)
            PROVE  UNCHANGED dispatched
        BY <3>2 DEF Tick, Transmit, RunStep, StartRun, Admit, Return, DeadlineAbort,
           CallerAbort, Crash
      <3>3. PICK r \in Runners, j \in Jobs : BeginDispatch(r, j)
        BY <3>1, <3>2 DEF Next
      <3>4. /\ worker[r][j].pc = "turn"
            /\ ~(clock >= lease[j][worker[r][j].n].expires) \/ UNCHANGED dispatched
        BY <3>3 DEF BeginDispatch, At
      <3>5. lease[j][worker[r][j].n] \in Leases
        BY <3>4, WorkerType DEF IInv, TypeOK, JournalTypeOK, WorkersSound, Sound
      <3>6. clock < lease[j][worker[r][j].n].expires
        BY <3>4, <3>5, Constants DEF IInv, TypeOK, Leases, Instants
      <3> QED
        BY <3>3, <3>4, <3>6
    <2>2. PICK l : l = lease[j][worker[r][j].n]
      OBVIOUS
    <2>3. l \in Leases /\ l # None
      BY <2>1, <2>2, WorkerType, Constants
      DEF IInv, TypeOK, JournalTypeOK, WorkersSound, Sound
    <2>4. Within(l.expires) /\ clock < l.expires /\ l.expires \in Instants
      BY <2>1, <2>2, <2>3, WorkerType DEF AdmitInv, Leases, IInv
    <2> QED
      BY <2>4, Constants DEF Within, IInv, TypeOK, Instants
  <1> QED
    BY <1>1, Invariance, AdmitInit, AdmitNext, PTL DEF Spec, DispatchInsideAdmission

-----------------------------------------------------------------------------
(* With one runner at a time, over any number of jobs, attempts, crashes   *)
(* and resumes, a logical execution reaches the endpoint once at most.     *)
(* (With two it may reach it twice: the run shadow_retry.)                 *)
(*                                                                         *)
(* The runner leaves an attempt without outcome only by ending, and then   *)
(* its lease, if it was sent, stays and forces sent_unknown.  So a durable *)
(* not_sent is the truth, and since every attempt before a leased one is a *)
(* durable not_sent, no two attempts are ever on the wire.                 *)

OneRunner == \A q, r \in Runners : q = r

\* Steps of an attempt that has no outcome yet.
Open == {"lease", "prepare", "writeLease", "turn", "inflight", "persist"}

\* What the worker state w of job j may rely on, as no other runner interferes.
Alone(j, w) ==
    /\ w.pc \in Open => outcome[j][w.n] = None
    /\ w.pc \in {"prepare", "writeLease"} => lease[j][w.n] = None
    /\ w.pc = "persist" /\ w.cand.dispatch = "not_sent" => w.n \notin Contacted(j)

\* A durable not_sent is the truth.
NotSentTrue(j) ==
    \A n \in Attempts :
        (outcome[j][n] # None /\ outcome[j][n].dispatch = "not_sent")
            => n \notin Contacted(j)

OneContact(j) == \A m, n \in Contacted(j) : m = n

\* A lease is granted to an attempt that the ones before it allow.
LeasesReached(j) == \A n \in Attempts : lease[j][n] # None => Reached(j, n)

RecordsAlone(j) == NotSentTrue(j) /\ OneContact(j) /\ LeasesReached(j)

AloneInv ==
    /\ \A r \in Runners, j \in Jobs : Alone(j, worker[r][j])
    /\ \A j \in Jobs : RecordsAlone(j)

SInv == IInv /\ FollowInv /\ AloneInv

\* What the invariant reads of the records of job j.
Facts(j) == <<lease[j], outcome[j], wire[j]>>

-----------------------------------------------------------------------------
LEMMA AloneInit == Init => AloneInv
  <1> SUFFICES ASSUME Init PROVE AloneInv
    OBVIOUS
  <1>1. ASSUME NEW r \in Runners, NEW j \in Jobs
        PROVE  Alone(j, worker[r][j])
    BY DEF Init, Alone, IdleWorker, Open
  <1>2. ASSUME NEW j \in Jobs
        PROVE  RecordsAlone(j)
    <2>1. Contacted(j) = {}
      BY DEF Init, Contacted
    <2> QED
      BY <2>1 DEF Init, JournalInit, RecordsAlone, NotSentTrue, OneContact, LeasesReached
  <1> QED
    BY <1>1, <1>2 DEF AloneInv

\* Records that stay keep what they say.
LEMMA FactsKept ==
    ASSUME NEW j \in Jobs, UNCHANGED Facts(j), RecordsAlone(j)
    PROVE  /\ RecordsAlone(j)'
           /\ \A w : Alone(j, w) => Alone(j, w)'
  <1>1. Contacted(j)' = Contacted(j)
    BY DEF Contacted, Facts
  <1>2. \A n : Reached(j, n)' = Reached(j, n)
    BY DEF Reached, Facts
  <1>3. RecordsAlone(j)'
    BY <1>1, <1>2 DEF RecordsAlone, NotSentTrue, OneContact, LeasesReached, Facts
  <1>4. ASSUME NEW w, Alone(j, w) PROVE Alone(j, w)'
    BY <1>1, <1>4 DEF Alone, Facts
  <1> QED
    BY <1>3, <1>4

\* A step of one job of the only runner.
LEMMA AloneMove ==
    ASSUME SInv, OneRunner, NEW r \in Runners, NEW j \in Jobs, NEW v, Move(r, j, v),
           Alone(j, v)', RecordsAlone(j)',
           \A k \in Jobs \ {j} : UNCHANGED Facts(k)
    PROVE  AloneInv'
  <1>1. ASSUME NEW k \in Jobs PROVE RecordsAlone(k)'
    BY FactsKept DEF SInv, AloneInv
  <1>2. ASSUME NEW q \in Runners, NEW k \in Jobs PROVE Alone(k, worker[q][k])'
    <2>1. worker'[q][k] = IF k = j THEN v ELSE worker[q][k]
      BY DEF OneRunner, Move, SInv, IInv, TypeOK
    <2>2. PICK w : w = worker[q][k]
      OBVIOUS
    <2>3. k # j => Alone(k, w)'
      BY <2>2, FactsKept DEF SInv, AloneInv
    <2>4. worker'[q][k] = IF k = j THEN v ELSE w
      BY <2>1, <2>2
    <2> QED
      BY <2>3, <2>4 DEF Alone
  <1> QED
    BY <1>1, <1>2 DEF AloneInv

\* The same, when no record that matters changes.
LEMMA QuietAlone ==
    ASSUME SInv, OneRunner, NEW r \in Runners, NEW j \in Jobs, NEW v, Move(r, j, v),
           Alone(j, v), UNCHANGED <<lease, outcome, wire>>
    PROVE  AloneInv'
  <1>1. \A k \in Jobs : UNCHANGED Facts(k)
    BY DEF Facts
  <1>2. Alone(j, v)' /\ RecordsAlone(j)'
    BY <1>1, FactsKept DEF SInv, AloneInv
  <1> QED
    BY <1>1, <1>2, AloneMove

\* Where a worker goes without relying on anything.
LEMMA ClearAlone ==
    ASSUME NEW j, NEW v, v.pc \notin Open
    PROVE  Alone(j, v) /\ Alone(j, v)'
  BY DEF Alone, Open

\* The record a worker proposes an outcome with.
LEMMA Proposal ==
    ASSUME TypeOK, NEW r \in Runners, NEW j \in Jobs, NEW o, Propose(r, j, o)
    PROVE  \E v : /\ Move(r, j, v)
                  /\ v.pc = "persist" /\ v.n = worker[r][j].n /\ v.cand = o
  <1>1. PICK w : w = worker[r][j]
    OBVIOUS
  <1>2. w \in WorkerStates
    BY <1>1, WorkerType
  <1>3. PICK v : v = [w EXCEPT !.pc = "persist", !.cand = o, !.expires = 0]
    OBVIOUS
  <1>4. v.pc = "persist" /\ v.n = w.n /\ v.cand = o
    BY <1>2, <1>3 DEF WorkerStates
  <1> QED
    BY <1>1, <1>3, <1>4 DEF Propose

\* A proposal that leaves the records alone.
LEMMA ProposeAlone ==
    ASSUME SInv, OneRunner, NEW r \in Runners, NEW j \in Jobs, NEW o, Propose(r, j, o),
           worker[r][j].pc \in Open, UNCHANGED <<lease, outcome, wire>>,
           o.dispatch = "not_sent" => worker[r][j].n \notin Contacted(j)
    PROVE  AloneInv'
  <1>1. PICK v : /\ Move(r, j, v)
                 /\ v.pc = "persist" /\ v.n = worker[r][j].n /\ v.cand = o
    BY Proposal DEF SInv, IInv
  <1>2. outcome[j][v.n] = None
    BY <1>1 DEF SInv, AloneInv, Alone
  <1>3. Alone(j, v)
    BY <1>1, <1>2 DEF Alone
  <1> QED
    BY <1>1, <1>3, QuietAlone

\* A move to another step of the same attempt or out of all attempts.
LEMMA GotoAlone ==
    ASSUME SInv, OneRunner, NEW r \in Runners, NEW j \in Jobs, NEW pc, Goto(r, j, pc),
           UNCHANGED <<lease, outcome, wire>>, pc # "persist",
           pc \in Open => outcome[j][worker[r][j].n] = None,
           pc \in {"prepare", "writeLease"} => lease[j][worker[r][j].n] = None
    PROVE  AloneInv'
  <1>1. PICK w : w = worker[r][j]
    OBVIOUS
  <1>2. w \in WorkerStates
    BY <1>1, WorkerType DEF SInv, IInv
  <1>3. PICK v : v = [w EXCEPT !.pc = pc]
    OBVIOUS
  <1>4. v.pc = pc /\ v.n = w.n
    BY <1>2, <1>3 DEF WorkerStates
  <1>5. Alone(j, v)
    BY <1>1, <1>4 DEF Alone
  <1> QED
    BY <1>1, <1>3, <1>5, QuietAlone DEF Goto

\* A job that settles, or goes on from a record of its own making.
LEMMA SettleAlone ==
    ASSUME SInv, OneRunner, NEW r \in Runners, NEW j \in Jobs, NEW pc, NEW t,
           \/ Settle(r, j, pc)
           \/ Move(r, j, [IdleWorker EXCEPT !.pc = pc, !.seen = t]),
           UNCHANGED <<lease, outcome, wire>>, pc \notin Open
    PROVE  AloneInv'
  <1>1. PICK v : /\ Move(r, j, v)
                 /\ \/ v = [IdleWorker EXCEPT !.pc = pc]
                    \/ v = [IdleWorker EXCEPT !.pc = pc, !.seen = t]
    BY DEF Settle
  <1>2. v.pc = pc
    BY <1>1 DEF IdleWorker
  <1> QED
    BY <1>1, <1>2, ClearAlone, QuietAlone

\* After an outcome the worker looks for the next, or leaves the attempts.
LEMMA AfterOutcomeClear ==
    ASSUME TypeOK, NEW r \in Runners, NEW j \in Jobs, NEW o, AfterOutcome(r, j, o)
    PROVE  \E v : Move(r, j, v) /\ v.pc \notin Open
  <1>0. PICK w : w = worker[r][j]
    OBVIOUS
  <1> DEFINE seen == Append(w.seen, o)
             next == [w EXCEPT !.pc = "outcome", !.n = w.n + 1,
                               !.seen = seen, !.cand = None]
             fail == [IdleWorker EXCEPT !.pc = "failed"]
             last == [IdleWorker EXCEPT !.pc = "accept", !.seen = seen]
  <1>1. w \in WorkerStates
    BY <1>0, WorkerType
  <1>2. next.pc = "outcome" /\ fail.pc = "failed" /\ last.pc = "accept"
    <2> HIDE DEF seen
    <2> QED
      BY <1>1 DEF WorkerStates, IdleWorker
  <1>3. Move(r, j, next) \/ Move(r, j, fail) \/ Move(r, j, last)
    BY <1>0 DEF AfterOutcome, Fail, Settle
  <1> HIDE DEF next, fail, last
  <1> QED
    BY <1>2, <1>3 DEF Open

\* Nothing is on the wire of an attempt without a lease.
LEMMA UnleasedUnsent ==
    ASSUME SInv, NEW j \in Jobs, NEW n \in Attempts, lease[j][n] = None
    PROVE  n \notin Contacted(j)
  BY DEF SInv, IInv, RecordsSound, SendsAreLeased, Contacted

-----------------------------------------------------------------------------
(* The steps that write what the invariant is about.                       *)

LEMMA WriteLeaseAlone ==
    ASSUME SInv, OneRunner, NEW r \in Runners, NEW j \in Jobs, WriteLease(r, j)
    PROVE  AloneInv'
  <1>0. PICK w : w = worker[r][j]
    OBVIOUS
  <1> DEFINE new == [owner |-> r, expires |-> w.expires]
  <1>1. /\ w \in WorkerStates /\ w.n \in Attempts
        /\ lease \in [Jobs -> [Attempts -> Leases \cup {None}]]
    BY <1>0, WorkerType DEF SInv, IInv, TypeOK, JournalTypeOK
  <1>2. w.pc = "writeLease" /\ Alone(j, w) /\ Following(j, w) /\ RecordsAlone(j)
    BY <1>0 DEF WriteLease, At, SInv, AloneInv, FollowInv
  <1>3. lease[j][w.n] = None /\ outcome[j][w.n] = None /\ Reached(j, w.n)
    BY <1>2 DEF Alone, Following, Open, Attempting
  <1>4. PICK v : v = [w EXCEPT !.pc = "turn", !.expires = 0]
    OBVIOUS
  <1>5. /\ lease' = [lease EXCEPT ![j][w.n] = new]
        /\ Move(r, j, v)
        /\ UNCHANGED <<outcome, wire>>
    BY <1>0, <1>3, <1>4 DEF WriteLease
  <1>6. v.pc = "turn" /\ v.n = w.n
    BY <1>1, <1>4 DEF WorkerStates
  <1> HIDE DEF new
  <1>7. ASSUME NEW k \in Jobs, NEW m \in Attempts, k # j \/ m # w.n
        PROVE  lease'[k][m] = lease[k][m]
    BY <1>1, <1>5, <1>7
  <1>8. \A k \in Jobs \ {j} : UNCHANGED Facts(k)
    BY <1>1, <1>5 DEF Facts
  <1>9. Contacted(j)' = Contacted(j) /\ \A n : Reached(j, n)' = Reached(j, n)
    BY <1>5 DEF Contacted, Reached
  <1>10. RecordsAlone(j)'
    BY <1>2, <1>3, <1>5, <1>7, <1>9 DEF RecordsAlone, NotSentTrue, OneContact, LeasesReached
  <1>11. Alone(j, v)'
    BY <1>3, <1>5, <1>6 DEF Alone
  <1> QED
    BY <1>5, <1>8, <1>10, <1>11, AloneMove

\* The dispatch is the only contact of its job: every attempt before it is a
\* durable and true not_sent, and none after it was leased.
LEMMA BeginDispatchAlone ==
    ASSUME SInv, OneRunner, NEW r \in Runners, NEW j \in Jobs, BeginDispatch(r, j)
    PROVE  AloneInv'
  <1>0. PICK w : w = worker[r][j]
    OBVIOUS
  <1>1. /\ w \in WorkerStates /\ w.n \in Attempts
        /\ wire \in [Jobs -> [Attempts -> WireStates]]
    BY <1>0, WorkerType DEF SInv, IInv, TypeOK
  <1>2. /\ w.pc = "turn" /\ Alone(j, w) /\ Following(j, w) /\ RecordsAlone(j)
        /\ wire[j][w.n] = "none"
    BY <1>0 DEF BeginDispatch, At, SInv, AloneInv, FollowInv, IInv, WorkersSound, Sound
  <1>3. outcome[j][w.n] = None /\ Reached(j, w.n) /\ w.n \notin Contacted(j)
    BY <1>2 DEF Alone, Following, Open, Attempting, Contacted
  <1>4. CASE runner[r].aborted \/ clock >= lease[j][w.n].expires
    <2>1. /\ \E o \in Outcomes : Propose(r, j, o)
          /\ UNCHANGED <<lease, outcome, wire>>
      BY <1>0, <1>4, SyntheticOutcomes DEF BeginDispatch, journalVars
    <2> QED
      BY <1>0, <1>2, <1>3, <2>1, ProposeAlone DEF Open
  <1>5. CASE ~(runner[r].aborted \/ clock >= lease[j][w.n].expires)
    <2>1. PICK v : v = [w EXCEPT !.pc = "inflight"]
      OBVIOUS
    <2>2. /\ wire' = [wire EXCEPT ![j][w.n] = "open"]
          /\ Move(r, j, v)
          /\ UNCHANGED <<lease, outcome>>
      BY <1>0, <1>5, <2>1 DEF BeginDispatch, Goto, journalVars
    <2>3. v.pc = "inflight" /\ v.n = w.n
      BY <1>1, <2>1 DEF WorkerStates
    <2>4. \A k \in Jobs \ {j} : UNCHANGED Facts(k)
      BY <1>1, <2>2 DEF Facts
    <2>5. Contacted(j)' = Contacted(j) \cup {w.n}
      BY <1>1, <2>2 DEF Contacted
    <2>6. ASSUME NEW m \in Contacted(j) PROVE FALSE
      <3>1. m \in Attempts /\ lease[j][m] # None
        BY <2>6, UnleasedUnsent DEF Contacted
      <3>2. CASE m < w.n
        <4>1. m \in 1..(w.n - 1)
          BY <1>1, <3>1, <3>2, Constants DEF Attempts
        <4>2. outcome[j][m] # None /\ outcome[j][m].dispatch = "not_sent"
          BY <1>3, <4>1 DEF Reached, RetrySafe
        <4> QED
          BY <1>2, <2>6, <3>1, <4>2 DEF RecordsAlone, NotSentTrue
      <3>3. CASE m = w.n
        BY <1>3, <2>6, <3>3
      <3>4. CASE m > w.n
        <4>1. Reached(j, m)
          BY <1>2, <3>1 DEF RecordsAlone, LeasesReached
        <4>2. w.n \in 1..(m - 1)
          BY <1>1, <3>1, <3>4, Constants DEF Attempts
        <4> QED
          BY <1>3, <4>1, <4>2 DEF Reached
      <3> QED
        BY <1>1, <3>1, <3>2, <3>3, <3>4, Constants DEF Attempts
    <2>7. Contacted(j)' = {w.n}
      BY <2>5, <2>6
    <2>8. \A n : Reached(j, n)' = Reached(j, n)
      BY <2>2 DEF Reached
    <2>9. RecordsAlone(j)'
      <3>1. NotSentTrue(j)'
        BY <1>2, <1>3, <2>2, <2>7 DEF RecordsAlone, NotSentTrue
      <3>2. OneContact(j)'
        BY <2>7 DEF OneContact
      <3>3. LeasesReached(j)'
        BY <1>2, <2>2, <2>8 DEF RecordsAlone, LeasesReached
      <3> QED
        BY <3>1, <3>2, <3>3 DEF RecordsAlone
    <2>10. Alone(j, v)'
      BY <1>3, <2>2, <2>3 DEF Alone
    <2> QED
      BY <2>2, <2>4, <2>9, <2>10, AloneMove
  <1> QED
    BY <1>4, <1>5

\* An answer that says not_sent closes the wire.
LEMMA AnswerAlone ==
    ASSUME SInv, OneRunner, NEW r \in Runners, NEW j \in Jobs,
           RuntimeAnswer(r, j) \/ RuntimeFailure(r, j)
    PROVE  AloneInv'
  <1>0. PICK n : n = worker[r][j].n
    OBVIOUS
  <1>1. /\ n \in Attempts /\ wire \in [Jobs -> [Attempts -> WireStates]]
        /\ worker[r][j].pc = "inflight"
        /\ Alone(j, worker[r][j]) /\ RecordsAlone(j)
    BY <1>0, WorkerType DEF SInv, IInv, TypeOK, RuntimeAnswer, RuntimeFailure, At, AloneInv
  <1>2. \A a \in BOOLEAN : \A o \in RuntimeCompleted(a) : o.dispatch = "completed"
    BY DEF RuntimeCompleted
  <1>3. /\ UNCHANGED <<lease, outcome>>
        /\ \E o : /\ Propose(r, j, o)
                 /\ \/ o.dispatch # "not_sent" /\ UNCHANGED wire
                    \/ wire' = [wire EXCEPT ![j][n] = "closed"]
    <2>1. CASE RuntimeAnswer(r, j)
      BY <1>0, <1>2, <2>1, SyntheticOutcomes DEF RuntimeAnswer, journalVars
    <2>2. CASE RuntimeFailure(r, j)
      BY <1>0, <2>2, SyntheticOutcomes DEF RuntimeFailure, journalVars
    <2> QED
      BY <2>1, <2>2
  <1>4. PICK o : /\ Propose(r, j, o)
                 /\ \/ o.dispatch # "not_sent" /\ UNCHANGED wire
                    \/ wire' = [wire EXCEPT ![j][n] = "closed"]
    BY <1>3
  <1>5. CASE UNCHANGED wire /\ o.dispatch # "not_sent"
    BY <1>1, <1>3, <1>4, <1>5, ProposeAlone DEF Open
  <1>6. CASE wire' = [wire EXCEPT ![j][n] = "closed"]
    <2>1. PICK v : /\ Move(r, j, v)
                   /\ v.pc = "persist" /\ v.n = n /\ v.cand = o
      BY <1>0, <1>4, Proposal DEF SInv, IInv
    <2>2. Contacted(j)' = Contacted(j) \ {n}
      BY <1>1, <1>6 DEF Contacted
    <2>3. \A m : Reached(j, m)' = Reached(j, m)
      BY <1>3 DEF Reached
    <2>4. RecordsAlone(j)'
      BY <1>1, <1>3, <2>2, <2>3 DEF RecordsAlone, NotSentTrue, OneContact, LeasesReached
    <2>5. Alone(j, v)'
      BY <1>0, <1>1, <1>3, <2>1, <2>2 DEF Alone, Open
    <2>6. \A k \in Jobs \ {j} : UNCHANGED Facts(k)
      BY <1>1, <1>3, <1>6 DEF Facts
    <2> QED
      BY <2>1, <2>4, <2>5, <2>6, AloneMove
  <1> QED
    BY <1>4, <1>5, <1>6

\* The only runner's outcome is the first of its attempt.
LEMMA PersistOutcomeAlone ==
    ASSUME SInv, OneRunner, NEW r \in Runners, NEW j \in Jobs, PersistOutcome(r, j)
    PROVE  AloneInv'
  <1>0. PICK n : n = worker[r][j].n
    OBVIOUS
  <1> DEFINE o == worker[r][j].cand
  <1>1. /\ n \in Attempts /\ outcome \in [Jobs -> [Attempts -> Outcomes \cup {None}]]
        /\ worker[r][j].pc = "persist"
        /\ Alone(j, worker[r][j]) /\ RecordsAlone(j)
    BY <1>0, WorkerType DEF SInv, IInv, TypeOK, JournalTypeOK, PersistOutcome, At, AloneInv
  <1>2. outcome[j][n] = None /\ (o.dispatch = "not_sent" => n \notin Contacted(j))
    BY <1>0, <1>1 DEF Alone, Open
  <1>3. /\ outcome' = [outcome EXCEPT ![j][n] = o]
        /\ UNCHANGED <<lease, wire>>
        /\ AfterOutcome(r, j, o)
    BY <1>0, <1>2 DEF PersistOutcome
  <1> HIDE DEF o
  <1>4. PICK v : Move(r, j, v) /\ v.pc \notin Open
    BY <1>3, AfterOutcomeClear DEF SInv, IInv
  <1>5. ASSUME NEW m \in Attempts
        PROVE  outcome'[j][m] = IF m = n THEN o ELSE outcome[j][m]
    BY <1>1, <1>3
  <1>6. Contacted(j)' = Contacted(j)
    BY <1>3 DEF Contacted
  <1>7. ASSUME NEW m \in Attempts, Reached(j, m) PROVE Reached(j, m)'
    <2>1. 1..(m - 1) \subseteq Attempts
      BY <1>7, Constants DEF Attempts
    <2>2. n \notin 1..(m - 1)
      BY <1>2, <1>7 DEF Reached
    <2> QED
      BY <1>5, <1>7, <2>1, <2>2 DEF Reached
  <1>8. RecordsAlone(j)'
    BY <1>1, <1>2, <1>3, <1>5, <1>6, <1>7
    DEF RecordsAlone, NotSentTrue, OneContact, LeasesReached
  <1>9. \A k \in Jobs \ {j} : UNCHANGED Facts(k)
    BY <1>1, <1>3 DEF Facts
  <1> QED
    BY <1>4, <1>8, <1>9, ClearAlone, AloneMove

-----------------------------------------------------------------------------
(* The other steps.                                                        *)

LEMMA ReadLeaseAlone ==
    ASSUME SInv, OneRunner, NEW r \in Runners, NEW j \in Jobs, ReadLease(r, j)
    PROVE  AloneInv'
  <1>0. PICK w : w = worker[r][j]
    OBVIOUS
  <1> DEFINE e == IF runner[r].deadline <= clock + AttemptTimeout
                  THEN runner[r].deadline ELSE clock + AttemptTimeout
  <1>1. w \in WorkerStates /\ w.n \in Attempts /\ w.pc = "lease" /\ Alone(j, w)
    BY <1>0, WorkerType DEF SInv, IInv, ReadLease, At, AloneInv
  <1>2. PICK v : v = [w EXCEPT !.pc = "prepare", !.expires = e]
    OBVIOUS
  <1>3. UNCHANGED <<lease, outcome, wire>>
    BY DEF ReadLease, journalVars
  <1>4. CASE lease[j][w.n] # None
    <2>1. Settle(r, j, "pending") \/ Propose(r, j, SentUnknown(FALSE))
      BY <1>0, <1>4 DEF ReadLease, Defer
    <2>2. CASE Settle(r, j, "pending")
      <3>1. "pending" \notin Open
        BY DEF Open
      <3>2. ASSUME NEW t PROVE AloneInv'
        BY <1>3, <2>2, <3>1, SettleAlone
      <3> QED
        BY <3>2
    <2>3. CASE Propose(r, j, SentUnknown(FALSE))
      <3>1. SentUnknown(FALSE).dispatch # "not_sent" /\ "lease" \in Open
        BY SyntheticOutcomes DEF Open
      <3> QED
        BY <1>0, <1>1, <1>3, <2>3, <3>1, ProposeAlone
    <2> QED
      BY <2>1, <2>2, <2>3
  <1>5. CASE lease[j][w.n] = None
    <2>1. \/ \E o : Propose(r, j, o)
          \/ Move(r, j, v)
      BY <1>0, <1>2, <1>5 DEF ReadLease
    <2>2. w.n \notin Contacted(j)
      BY <1>1, <1>5, UnleasedUnsent
    <2>3. CASE \E o : Propose(r, j, o)
      BY <1>0, <1>1, <1>3, <2>2, <2>3, ProposeAlone DEF Open
    <2>4. CASE Move(r, j, v)
      <3> HIDE DEF e
      <3>1. v.pc = "prepare" /\ v.n = w.n
        BY <1>1, <1>2 DEF WorkerStates
      <3>2. Alone(j, v)
        BY <1>1, <1>5, <3>1 DEF Alone, Open
      <3> QED
        BY <1>3, <2>4, <3>2, QuietAlone
    <2> QED
      BY <2>1, <2>3, <2>4
  <1> QED
    BY <1>4, <1>5

LEMMA PrepareAlone ==
    ASSUME SInv, OneRunner, NEW r \in Runners, NEW j \in Jobs, Prepare(r, j)
    PROVE  AloneInv'
  <1>0. PICK w : w = worker[r][j]
    OBVIOUS
  <1>1. w.n \in Attempts /\ w.pc = "prepare" /\ Alone(j, w)
    BY <1>0, WorkerType DEF SInv, IInv, Prepare, At, AloneInv
  <1>2. outcome[j][w.n] = None /\ lease[j][w.n] = None /\ w.n \notin Contacted(j)
    BY <1>1, UnleasedUnsent DEF Alone, Open
  <1>3. /\ UNCHANGED <<lease, outcome, wire>>
        /\ (\E o : Propose(r, j, o)) \/ Goto(r, j, "writeLease")
    BY DEF Prepare, journalVars
  <1> QED
    BY <1>0, <1>1, <1>2, <1>3, ProposeAlone, GotoAlone DEF Open

\* Every step of a job keeps the invariant.
LEMMA JobAlone ==
    ASSUME SInv, OneRunner, NEW r \in Runners, NEW j \in Jobs,
           JobStep(r, j) \/ RuntimeAnswer(r, j) \/ RuntimeFailure(r, j) \/ Fault(r, j)
    PROVE  AloneInv'
  <1>1. CASE StartJob(r, j) \/ SkipJob(r, j) \/ LoadAccepted(r, j) \/ CheckOrphan(r, j)
             \/ ReadIntent(r, j) \/ WriteIntent(r, j) \/ Fault(r, j)
             \/ WriteAccepted(r, j) \/ EnsureComplete(r, j)
    <2>1. UNCHANGED <<lease, outcome, wire>>
      BY <1>1 DEF StartJob, SkipJob, LoadAccepted, CheckOrphan, ReadIntent, WriteIntent,
         Fault, WriteAccepted, EnsureComplete, journalVars
    <2>2. \E pc, t : /\ pc \notin Open
                     /\ \/ Goto(r, j, pc)
                        \/ Settle(r, j, pc)
                        \/ Move(r, j, [IdleWorker EXCEPT !.pc = pc, !.seen = t])
      <3>1. CASE WriteAccepted(r, j) \/ EnsureComplete(r, j)
        BY <3>1 DEF WriteAccepted, EnsureComplete, Fail, Open
      <3>2. CASE StartJob(r, j) \/ SkipJob(r, j) \/ LoadAccepted(r, j) \/ CheckOrphan(r, j)
        BY <3>2 DEF StartJob, SkipJob, LoadAccepted, CheckOrphan, Fail, Open
      <3>3. CASE ReadIntent(r, j) \/ WriteIntent(r, j) \/ Fault(r, j)
        BY <3>3 DEF ReadIntent, WriteIntent, Fault, Fail, Open
      <3> QED
        BY <1>1, <3>1, <3>2, <3>3
    <2>3. PICK pc, t : /\ pc \notin Open
                       /\ \/ Goto(r, j, pc)
                          \/ Settle(r, j, pc)
                          \/ Move(r, j, [IdleWorker EXCEPT !.pc = pc, !.seen = t])
      BY <2>2
    <2>4. CASE Goto(r, j, pc)
      <3>1. pc # "persist" /\ pc \notin {"prepare", "writeLease"}
        BY <2>3 DEF Open
      <3> QED
        BY <2>1, <2>3, <2>4, <3>1, GotoAlone
    <2>5. CASE \/ Settle(r, j, pc)
               \/ Move(r, j, [IdleWorker EXCEPT !.pc = pc, !.seen = t])
      BY <2>1, <2>3, <2>5, SettleAlone
    <2> QED
      BY <2>3, <2>4, <2>5
  <1>2. CASE ReadOutcome(r, j)
    <2>1. UNCHANGED <<lease, outcome, wire>>
      BY <1>2 DEF ReadOutcome, journalVars
    <2>2. CASE outcome[j][worker[r][j].n] = None
      <3>1. Goto(r, j, "lease")
        BY <1>2, <2>2 DEF ReadOutcome
      <3> QED
        BY <2>1, <2>2, <3>1, GotoAlone
    <2>3. CASE outcome[j][worker[r][j].n] # None
      <3>1. AfterOutcome(r, j, outcome[j][worker[r][j].n])
        BY <1>2, <2>3 DEF ReadOutcome
      <3>2. PICK v : Move(r, j, v) /\ v.pc \notin Open
        BY <3>1, AfterOutcomeClear DEF SInv, IInv
      <3> QED
        BY <2>1, <3>2, ClearAlone, QuietAlone
    <2> QED
      BY <2>2, <2>3
  <1>3. CASE GiveUp(r, j)
    <2>1. /\ UNCHANGED <<lease, outcome, wire>>
          /\ worker[r][j].pc = "inflight"
          /\ Propose(r, j, SentUnknown(TRUE))
      BY <1>3 DEF GiveUp, At, journalVars
    <2> QED
      BY <2>1, SyntheticOutcomes, ProposeAlone DEF Open
  <1> QED
    BY <1>1, <1>2, <1>3, ReadLeaseAlone, PrepareAlone, WriteLeaseAlone, BeginDispatchAlone,
       AnswerAlone, PersistOutcomeAlone DEF JobStep

\* The endpoint's receipt of an open request is no new contact.
LEMMA TransmitAlone ==
    ASSUME SInv, NEW j \in Jobs, NEW n \in Attempts, Transmit(j, n)
    PROVE  AloneInv'
  <1>1. wire \in [Jobs -> [Attempts -> WireStates]]
    BY DEF SInv, IInv, TypeOK
  <1>2. /\ UNCHANGED <<lease, outcome, worker>>
        /\ wire[j][n] = "open" /\ wire' = [wire EXCEPT ![j][n] = "sent"]
    BY DEF Transmit, journalVars
  <1>3. \A k \in Jobs : Contacted(k)' = Contacted(k)
    BY <1>1, <1>2 DEF Contacted
  <1>4. \A k \in Jobs, m \in Attempts : Reached(k, m)' = Reached(k, m)
    BY <1>2 DEF Reached
  <1> QED
    BY <1>2, <1>3, <1>4
    DEF SInv, AloneInv, Alone, RecordsAlone, NotSentTrue, OneContact, LeasesReached

LEMMA AloneNext == OneRunner /\ SInv /\ [Next]_vars => AloneInv'
  <1> SUFFICES ASSUME OneRunner, SInv, [Next]_vars PROVE AloneInv'
    OBVIOUS
  <1>1. ASSUME UNCHANGED <<worker, lease, outcome, wire>>
        PROVE  AloneInv'
    BY <1>1 DEF SInv, AloneInv, Alone, RecordsAlone, NotSentTrue, OneContact, LeasesReached,
       Reached, Contacted
  <1>2. CASE Tick \/ UNCHANGED vars
    BY <1>1, <1>2 DEF Tick, vars, journalVars
  <1>3. CASE \E r \in Runners : StartRun(r) \/ Admit(r) \/ DeadlineAbort(r) \/ CallerAbort(r)
    BY <1>1, <1>3 DEF StartRun, Admit, DeadlineAbort, CallerAbort, journalVars
  <1>4. CASE \E r \in Runners : Return(r) \/ Crash(r)
    <2>1. PICK r \in Runners : Return(r) \/ Crash(r)
      BY <1>4
    <2>2. /\ UNCHANGED <<lease, outcome, wire>>
          /\ worker' = [worker EXCEPT ![r] = [j \in Jobs |-> IdleWorker]]
      BY <2>1 DEF Return, Crash, journalVars
    <2>3. \A q \in Runners, k \in Jobs : worker'[q][k] = IdleWorker
      BY <2>2 DEF OneRunner, SInv, IInv, TypeOK
    <2>4. \A k \in Jobs : UNCHANGED Facts(k)
      BY <2>2 DEF Facts
    <2>5. IdleWorker.pc \notin Open
      BY DEF IdleWorker, Open
    <2>6. \A q \in Runners, k \in Jobs : Alone(k, worker[q][k])'
      BY <2>3, <2>5 DEF Alone, Open
    <2> QED
      BY <2>4, <2>6, FactsKept DEF SInv, AloneInv
  <1> QED
    BY <1>2, <1>3, <1>4, JobAlone, TransmitAlone DEF Next, RunStep

\* A single runner, over any number of jobs, retries, crashes and resumes, never
\* turns one logical execution into two inferences: one attempt at most is ever on
\* the wire, and a durable not_sent (persistOutcome) is never of that one.
THEOREM OneInference ==
    ASSUME OneRunner
    PROVE  Spec => []SingleInference
  <1>1. AloneInv => SingleInference
    BY DEF AloneInv, RecordsAlone, NotSentTrue, OneContact, SingleInference
  <1>2. AloneInv /\ IInv /\ FollowInv /\ [Next]_vars => AloneInv'
    BY AloneNext DEF SInv
  <1> QED
    BY <1>1, <1>2, AloneInit, JournalInvariance, PTL DEF Spec

=============================================================================
