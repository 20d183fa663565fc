------------------------- MODULE ArtifactStoreProofs -------------------------
(***************************************************************************)
(* Proofs about what is kept in a run directory.  About ArtifactStore, for *)
(* any set of writers and packets: what a call is told is true, what was   *)
(* reported as written survives a loss of power, and the steps of the      *)
(* writers implement the atomic WriteOnceRecord that ShadowRunner takes a  *)
(* record for.  About AttemptTimes, for any number of executions and       *)
(* attempts, any limits and any timing of a call: no check of a record     *)
(* fails while the clocks agree.                                           *)
(***************************************************************************)
EXTENDS ArtifactStore, AttemptTimes, TLAPS

\* The call renamed its packet to the target, and did not fail since.
Published(w) == writerAt[w] \in {"confirm", "syncParent"} \/ result[w] = "written"

\* What one call remembers agrees with the target it remembers it of.
CallSound(w) ==
    /\ writerAt[w] # "idle" => packet[w] \in Packets
    /\ result[w] # "none" => writerAt[w] \in WriterEnded \cup {"winner"}
    /\ winner[w] # NoPacket => writerAt[w] \in WriterEnded
    /\ Published(w) \/ result[w] = "verified-identical" => target = packet[w]
    /\ result[w] = "conflict" => target \notin {NoPacket, packet[w]}
    /\ supported /\ writerAt[w] \in {"recheck", "rename"} => staging[w] = "synced"

\* One call at most published the packet that is at the target.
OnePublisher == \A v, w \in Writers : Published(v) /\ Published(w) => v = w

\* Where flushing works, what is at the target was flushed before, and its name
\* before anybody was told.
Flushed ==
    supported =>
        /\ target # Torn
        /\ target # NoPacket => contentSynced
        /\ acked # {} => nameSynced /\ target # NoPacket

StoreInv ==
    /\ StoreTypeOK
    /\ \A w \in Writers : CallSound(w)
    /\ OnePublisher
    /\ Flushed

-----------------------------------------------------------------------------
(* The inductive invariant.                                                *)

\* The invariant holds of an empty run directory and calls that have not begun.
LEMMA StoreInvInit == StoreInit => StoreInv
  BY TornAssumption DEF StoreInit, StoreInv, StoreTypeOK, CallSound, OnePublisher, Flushed,
     Published, WriterEnded, IOSteps

\* A step of the writer w at the file system or of persistRecord.
LEMMA WriterStepTypes ==
  ASSUME StoreInv, NEW w \in Writers, WriterStep(w) \/ WriterCrash(w)
  PROVE  StoreTypeOK'
<1>. USE TornAssumption DEF StoreInv, StoreTypeOK, disk, Goto, Finish, CleanUp, WriterEnded, IOSteps
<1>1. CASE BeginWrite(w) BY <1>1 DEF BeginWrite
<1>2. CASE ReadTarget(w) BY <1>2 DEF ReadTarget, Judge
<1>3. CASE CheckAbsent(w) BY <1>3 DEF CheckAbsent, Collide
<1>4. CASE OpenStaging(w) BY <1>4 DEF OpenStaging
<1>5. CASE FillStaging(w) BY <1>5 DEF FillStaging
<1>6. CASE SealStaging(w) BY <1>6 DEF SealStaging
<1>7. CASE SyncStaging(w) BY <1>7 DEF SyncStaging
<1>8. CASE Recheck(w) BY <1>8 DEF Recheck, Collide
<1>9. CASE Rename(w)
  <2>1. packet[w] \in Packets BY <1>9 DEF Rename, CallSound
  <2>2. CASE target = NoPacket BY <1>9, <2>1, <2>2 DEF Rename
  <2>3. CASE target # NoPacket BY <1>9, <2>3 DEF Rename, Collide
  <2>. QED BY <2>2, <2>3
<1>10. CASE ConfirmTarget(w) BY <1>10 DEF ConfirmTarget
<1>11. CASE SyncParent(w) BY <1>11 DEF SyncParent
<1>12. CASE Reread(w) BY <1>12 DEF Reread, Judge
<1>13. CASE OperationFails(w) BY <1>13 DEF OperationFails
<1>14. CASE ReadWinner(w) BY <1>14 DEF ReadWinner
<1>15. CASE WriterCrash(w) BY <1>15 DEF WriterCrash
<1>. QED
  BY <1>1, <1>2, <1>3, <1>4, <1>5, <1>6, <1>7, <1>8, <1>9, <1>10, <1>11, <1>12, <1>13,
     <1>14, <1>15 DEF WriterStep

\* The other calls keep what they remember.
LEMMA OthersKeep ==
  ASSUME StoreInv, NEW w \in Writers, WriterStep(w) \/ WriterCrash(w),
         NEW v \in Writers, v # w
  PROVE  /\ writerAt'[v] = writerAt[v] /\ result'[v] = result[v] /\ winner'[v] = winner[v]
         /\ packet'[v] = packet[v] /\ staging'[v] = staging[v]
<1>. USE DEF StoreInv, StoreTypeOK, disk, Goto, Finish, CleanUp, IOSteps
<1>. QED
  BY DEF WriterStep, BeginWrite, ReadTarget, Judge, CheckAbsent, Collide, OpenStaging,
     FillStaging, SealStaging, SyncStaging, Recheck, Rename, ConfirmTarget, SyncParent,
     Reread, OperationFails, ReadWinner, WriterCrash

\* A packet at the target is never replaced by a writer, and an empty target is
\* filled by a rename only.
LEMMA TargetKept ==
  ASSUME StoreInv, NEW w \in Writers, WriterStep(w) \/ WriterCrash(w)
  PROVE  /\ supported' = supported
         /\ target # NoPacket => target' = target
         /\ target' # target =>
                /\ writerAt[w] = "rename" /\ writerAt'[w] = "confirm"
                /\ target' = packet[w] /\ packet'[w] = packet[w]
  BY DEF StoreInv, StoreTypeOK, disk, Goto, Finish, WriterStep, BeginWrite, ReadTarget,
     Judge, CheckAbsent, Collide, OpenStaging, FillStaging, SealStaging, SyncStaging,
     Recheck, Rename, ConfirmTarget, SyncParent, Reread, OperationFails, ReadWinner,
     WriterCrash

\* The writer's own memory stays sound, and it publishes only into an empty target.
LEMMA WriterSound ==
  ASSUME StoreInv, NEW w \in Writers, WriterStep(w) \/ WriterCrash(w)
  PROVE  /\ CallSound(w)'
         /\ Published(w)' => Published(w) \/ target = NoPacket
<1>. USE TornAssumption DEF StoreInv, StoreTypeOK, CallSound, Published, disk, Goto, Finish, CleanUp,
         WriterEnded, IOSteps
<1>1. CASE BeginWrite(w) BY <1>1 DEF BeginWrite
<1>2. CASE ReadTarget(w) BY <1>2 DEF ReadTarget, Judge
<1>3. CASE CheckAbsent(w) BY <1>3 DEF CheckAbsent, Collide
<1>4. CASE OpenStaging(w) BY <1>4 DEF OpenStaging
<1>5. CASE FillStaging(w) BY <1>5 DEF FillStaging
<1>6. CASE SealStaging(w) BY <1>6 DEF SealStaging
<1>7. CASE SyncStaging(w) BY <1>7 DEF SyncStaging
<1>8. CASE Recheck(w) BY <1>8 DEF Recheck, Collide
<1>9. CASE Rename(w) BY <1>9 DEF Rename, Collide
<1>10. CASE ConfirmTarget(w) BY <1>10 DEF ConfirmTarget
<1>11. CASE SyncParent(w) BY <1>11 DEF SyncParent
<1>12. CASE Reread(w) BY <1>12 DEF Reread, Judge
<1>13. CASE OperationFails(w) BY <1>13 DEF OperationFails
<1>14. CASE ReadWinner(w) BY <1>14 DEF ReadWinner
<1>15. CASE WriterCrash(w) BY <1>15 DEF WriterCrash
<1>. QED
  BY <1>1, <1>2, <1>3, <1>4, <1>5, <1>6, <1>7, <1>8, <1>9, <1>10, <1>11, <1>12, <1>13,
     <1>14, <1>15 DEF WriterStep

\* No call has published into an empty target.
LEMMA EmptyUnpublished ==
  ASSUME StoreInv, target = NoPacket, NEW v \in Writers
  PROVE  ~Published(v)
  BY TornAssumption DEF StoreInv, StoreTypeOK, CallSound, Published, WriterEnded

\* What the other calls remember stays sound too.
LEMMA OthersSound ==
  ASSUME StoreInv, NEW w \in Writers, WriterStep(w) \/ WriterCrash(w),
         NEW v \in Writers, v # w
  PROVE  CallSound(v)'
  BY OthersKeep, TargetKept, TornAssumption
  DEF StoreInv, StoreTypeOK, CallSound, Published, WriterEnded

\* At most one call is a publisher after the step: a second one would have found
\* the target empty, and an empty target has no publisher.
LEMMA StaysOne ==
  ASSUME StoreInv, NEW w \in Writers, WriterStep(w) \/ WriterCrash(w)
  PROVE  OnePublisher'
<1>1. SUFFICES ASSUME NEW v \in Writers, NEW u \in Writers, Published(v)', Published(u)'
               PROVE  v = u
  BY DEF OnePublisher
<1>2. ASSUME NEW x \in Writers, Published(x)', x # w
      PROVE  Published(x)
  BY <1>2, OthersKeep DEF Published
<1>3. CASE v = w /\ u # w BY <1>1, <1>2, <1>3, WriterSound, EmptyUnpublished DEF StoreInv, OnePublisher
<1>4. CASE u = w /\ v # w BY <1>1, <1>2, <1>4, WriterSound, EmptyUnpublished DEF StoreInv, OnePublisher
<1>5. CASE u # w /\ v # w BY <1>1, <1>2, <1>5 DEF StoreInv, OnePublisher
<1>. QED BY <1>3, <1>4, <1>5

\* What is at the target stays flushed: a rename moves a flushed directory, and
\* nobody was told of an empty target; "written" is told after the parent's flush.
LEMMA StaysFlushed ==
  ASSUME StoreInv, NEW w \in Writers, WriterStep(w) \/ WriterCrash(w)
  PROVE  Flushed'
<1>. USE TornAssumption DEF StoreInv, StoreTypeOK, Flushed, disk, Goto, Finish, CleanUp
<1>1. CASE BeginWrite(w) BY <1>1 DEF BeginWrite
<1>2. CASE ReadTarget(w) BY <1>2 DEF ReadTarget, Judge
<1>3. CASE CheckAbsent(w) BY <1>3 DEF CheckAbsent, Collide
<1>4. CASE OpenStaging(w) BY <1>4 DEF OpenStaging
<1>5. CASE FillStaging(w) BY <1>5 DEF FillStaging
<1>6. CASE SealStaging(w) BY <1>6 DEF SealStaging
<1>7. CASE SyncStaging(w) BY <1>7 DEF SyncStaging
<1>8. CASE Recheck(w) BY <1>8 DEF Recheck, Collide
<1>9. CASE Rename(w)
  <2>1. /\ packet[w] \in Packets
        /\ supported => staging[w] = "synced"
    BY <1>9 DEF Rename, CallSound
  <2>2. CASE target = NoPacket BY <1>9, <2>1, <2>2 DEF Rename
  <2>3. CASE target # NoPacket BY <1>9, <2>3 DEF Rename, Collide
  <2>. QED BY <2>2, <2>3
<1>10. CASE ConfirmTarget(w) BY <1>10 DEF ConfirmTarget
<1>11. CASE SyncParent(w)
  <2>1. CallSound(w) /\ Published(w) BY <1>11 DEF SyncParent, Published
  <2>2. target # NoPacket BY <2>1, EmptyUnpublished
  <2>. QED BY <1>11, <2>2 DEF SyncParent
<1>12. CASE Reread(w) BY <1>12 DEF Reread, Judge
<1>13. CASE OperationFails(w) BY <1>13 DEF OperationFails
<1>14. CASE ReadWinner(w) BY <1>14 DEF ReadWinner
<1>15. CASE WriterCrash(w) BY <1>15 DEF WriterCrash
<1>. QED
  BY <1>1, <1>2, <1>3, <1>4, <1>5, <1>6, <1>7, <1>8, <1>9, <1>10, <1>11, <1>12, <1>13,
     <1>14, <1>15 DEF WriterStep

\* A loss of power forgets every call; what was flushed stays.
LEMMA PowerLossSound ==
  ASSUME StoreInv, PowerLoss
  PROVE  /\ StoreInv'
         /\ supported => target' # Torn /\ (acked # {} => target' = target)
<1>. USE TornAssumption DEF StoreInv, PowerLoss
<1>1. StoreTypeOK' BY DEF StoreTypeOK, IOSteps, WriterEnded
<1>2. ASSUME NEW w \in Writers PROVE CallSound(w)' /\ ~Published(w)'
  BY <1>2 DEF StoreTypeOK, CallSound, Published, WriterEnded
<1>3. OnePublisher' BY <1>2 DEF OnePublisher
<1>4. Flushed' /\ (supported => target' # Torn /\ (acked # {} => target' = target))
  BY DEF StoreTypeOK, Flushed
<1>. QED BY <1>1, <1>2, <1>3, <1>4

\* The invariant is inductive.
LEMMA StoreInvNext == StoreInv /\ [StoreNext]_storeVars => StoreInv'
<1>. SUFFICES ASSUME StoreInv, [StoreNext]_storeVars PROVE StoreInv'
  OBVIOUS
<1>1. CASE PowerLoss BY <1>1, PowerLossSound
<1>2. ASSUME NEW w \in Writers, WriterStep(w) \/ WriterCrash(w)
      PROVE  StoreInv'
  <2>1. \A v \in Writers : CallSound(v)' BY <1>2, WriterSound, OthersSound
  <2>. QED BY <1>2, <2>1, WriterStepTypes, StaysOne, StaysFlushed DEF StoreInv
<1>3. CASE UNCHANGED storeVars
  BY <1>3 DEF storeVars, disk, StoreInv, StoreTypeOK, CallSound, OnePublisher, Flushed,
     Published
<1>. QED BY <1>1, <1>2, <1>3 DEF StoreNext

\* Every reachable state of the run directory satisfies it.
LEMMA StoreInvHolds == StoreSpec => []StoreInv
  BY StoreInvInit, StoreInvNext, PTL DEF StoreSpec

-----------------------------------------------------------------------------
(* The theorems.                                                           *)

\* What writeArtifactPacketOrVerifyIdentical tells a call is true of the target
\* as long as the call lives, and it tells one call only that it wrote it.
THEOREM ResultsTrue == StoreSpec => []TruthfulResult
<1>1. StoreInv => TruthfulResult
  BY DEF StoreInv, CallSound, OnePublisher, Published, TruthfulResult
<1>. QED BY <1>1, StoreInvHolds, PTL

\* Where fsync works, no step leaves a torn packet for a reader, and none takes
\* back or replaces a packet that some call was told was written.
THEOREM WrittenKept == StoreSpec => WrittenSurvives
<1>1. StoreInv /\ StoreInv' /\ [StoreNext]_storeVars
        => [supported => target' # Torn /\ (acked # {} => target' = target)]_storeVars
  <2>. SUFFICES ASSUME StoreInv, StoreInv', StoreNext, supported
                PROVE  target' # Torn /\ (acked # {} => target' = target)
    OBVIOUS
  <2>1. CASE PowerLoss BY <2>1, PowerLossSound
  <2>2. ASSUME NEW w \in Writers, WriterStep(w) \/ WriterCrash(w)
        PROVE  target' # Torn /\ (acked # {} => target' = target)
    BY <2>2, TargetKept DEF StoreInv, Flushed
  <2>. QED BY <2>1, <2>2 DEF StoreNext
<1>. QED BY <1>1, StoreInvHolds, PTL DEF StoreSpec, WrittenSurvives

\* Calls start with nothing published and no answer.
LEMMA RecordStarts == StoreInit => WriteOnce!RecordInit
  BY TornAssumption DEF StoreInit, WriteOnce!RecordInit

\* Every step of a writer publishes the record, answers one call, or is unseen.
LEMMA WriterImplements ==
  ASSUME StoreInv, NEW w \in Writers, WriterStep(w) \/ WriterCrash(w)
  PROVE  [WriteOnce!RecordNext]_WriteOnce!recordVars
<1>. USE TornAssumption DEF StoreInv, StoreTypeOK, disk, Goto, Finish
<1>1. CASE ReadWinner(w)
  <2>1. winner[w] = NoPacket BY <1>1 DEF ReadWinner, CallSound, WriterEnded
  <2>2. CASE target \in Packets /\ winner' = [winner EXCEPT ![w] = target]
    <3>1. WriteOnce!Answer(w) BY <1>1, <2>1, <2>2 DEF ReadWinner, WriteOnce!Answer
    <3>. QED BY <3>1 DEF WriteOnce!RecordNext
  <2>3. CASE UNCHANGED winner BY <1>1, <2>3 DEF ReadWinner, WriteOnce!recordVars
  <2>. QED BY <1>1, <2>2, <2>3 DEF ReadWinner
<1>2. CASE Rename(w) /\ target = NoPacket
  <2>1. packet[w] \in Packets BY <1>2 DEF Rename, CallSound
  <2>2. WriteOnce!Publish BY <1>2, <2>1 DEF Rename, WriteOnce!Publish
  <2>. QED BY <2>2 DEF WriteOnce!RecordNext
<1>3. CASE ~ReadWinner(w) /\ ~(Rename(w) /\ target = NoPacket)
  <2>1. UNCHANGED <<target, winner>>
    BY <1>3 DEF WriterStep, BeginWrite, ReadTarget, Judge, CheckAbsent, Collide,
       OpenStaging, FillStaging, SealStaging, SyncStaging, Recheck, Rename, ConfirmTarget,
       SyncParent, Reread, OperationFails, WriterCrash
  <2>. QED BY <2>1 DEF WriteOnce!recordVars
<1>. QED BY <1>1, <1>2, <1>3

\* The calls that race for a record, any of whose operations may fail, behave
\* like the atomic record: the first packet published is the record, every call
\* that gets an answer gets it, and only a loss of power takes it back, together
\* with everyone who heard of it.
THEOREM RecordIsWriteOnce == StoreSpec => ImplementsWriteOnce
<1>1. StoreInv /\ [StoreNext]_storeVars => [WriteOnce!RecordNext]_WriteOnce!recordVars
  <2>. SUFFICES ASSUME StoreInv, [StoreNext]_storeVars
                PROVE  [WriteOnce!RecordNext]_WriteOnce!recordVars
    OBVIOUS
  <2>1. CASE PowerLoss
    <3>1. WriteOnce!Lose BY <2>1, TornAssumption DEF PowerLoss, WriteOnce!Lose
    <3>. QED BY <3>1 DEF WriteOnce!RecordNext
  <2>2. ASSUME NEW w \in Writers, WriterStep(w) \/ WriterCrash(w)
        PROVE  [WriteOnce!RecordNext]_WriteOnce!recordVars
    BY <2>2, WriterImplements
  <2>3. CASE UNCHANGED storeVars BY <2>3 DEF storeVars, disk, WriteOnce!recordVars
  <2>. QED BY <2>1, <2>2, <2>3 DEF StoreNext
<1>. QED
  BY <1>1, RecordStarts, StoreInvHolds, PTL
  DEF StoreSpec, ImplementsWriteOnce, WriteOnce!RecordSpec

-----------------------------------------------------------------------------
(* The times of a job's records: what holds of them and of the executions  *)
(* that write them, in every state.                                        *)

Points == {"open", "intent", "outcome", "prepare", "lease", "turn", "inflight", "persist",
           "gather", "gathered", "pending", "failed"}

Process == [at : Points, n : Tries, prior : Seq(Outcomes),
            own : Nat \cup Leases \cup Outcomes \cup {Null}, aborted : BOOLEAN]

TimesTypeOK ==
    /\ together \in BOOLEAN
    /\ wall \in [Collectors -> Nat]
    /\ intentAt \in Nat \cup {Null}
    /\ leaseOf \in [Tries -> Leases \cup {Null}]
    /\ outcomeOf \in [Tries -> Outcomes \cup {Null}]
    /\ process \in [Collectors -> Process]

ClocksAgree == together => \A c, d \in Collectors : wall[c] = wall[d]

\* Clocks that agree have all reached t.
Reached(t) == together => \A c \in Collectors : t <= wall[c]

\* Attempt n may begin at t: after the intent, or after a failure that is safe
\* to retry.
Begins(n, t) ==
    /\ intentAt # Null
    /\ n = 1 => (together => intentAt <= t)
    /\ n > 1 =>
          /\ outcomeOf[n - 1] # Null
          /\ RetrySafe(outcomeOf[n - 1])
          /\ outcomeOf[n - 1].completed <= t

\* The observation a of attempt n passes every check of it.
Passes(n, a) == AttemptHolds(a) /\ Begins(n, a.started) /\ Reached(a.completed)

IntentSound == intentAt # Null => intentAt < RunDeadline /\ Reached(intentAt)

LeaseSound(n) ==
    leaseOf[n] # Null =>
        LeaseHolds(leaseOf[n]) /\ Begins(n, leaseOf[n].issued) /\ Reached(leaseOf[n].issued)

OutcomeSound(n) == outcomeOf[n] # Null => Passes(n, outcomeOf[n])

Working == {"outcome", "prepare", "lease", "turn", "inflight", "persist"}

\* c has read the outcomes of the first m attempts.
Remembers(c, m) ==
    /\ Len(process[c].prior) = m
    /\ \A i \in 1 .. m : outcomeOf[i] # Null /\ process[c].prior[i] = outcomeOf[i]

\* A lease of attempt n that is not durable yet.
Proposed(n, lease) ==
    /\ lease \in Leases
    /\ lease.expires <= RunDeadline /\ lease.expires <= lease.issued + AttemptLimit
    /\ Begins(n, lease.issued) /\ Reached(lease.issued)

OwnSound(c) ==
    LET own == process[c].own
        n == process[c].n
    IN  /\ Stands(c, "intent") => own \in Nat /\ own < RunDeadline /\ Reached(own)
        /\ process[c].at \in {"prepare", "lease"} => Proposed(n, own)
        /\ Stands(c, "lease") => own.issued < own.expires
        /\ process[c].at \in {"turn", "inflight"} => leaseOf[n] # Null
        /\ Stands(c, "inflight") => own \in Nat
        /\ Stands(c, "persist") => own \in Outcomes /\ Passes(n, own)

MemorySound(c) ==
    /\ process[c].at \in {"open", "intent"} => process[c].n = 1 /\ process[c].prior = <<>>
    /\ process[c].at \in Working \cup {"gather"} => intentAt # Null
    /\ process[c].at \in Working =>
          /\ Remembers(c, process[c].n - 1)
          /\ process[c].n > 1 => RetrySafe(outcomeOf[process[c].n - 1])
    /\ Stands(c, "gather") => Remembers(c, process[c].n)

TimesInv ==
    /\ TimesTypeOK
    /\ ClocksAgree
    /\ IntentSound
    /\ \A n \in Tries : LeaseSound(n) /\ OutcomeSound(n)
    /\ \A c \in Collectors : OwnSound(c) /\ MemorySound(c)

-----------------------------------------------------------------------------
(* Observations.                                                           *)

\* What is made up of a call passes the contract, and ends no earlier than it
\* began.
LEMMA SyntheticHolds ==
  ASSUME NEW started \in Nat, NEW now \in Nat, NEW dispatch \in {"not_sent", "sent_unknown"},
         NEW category \in {"transient", "lasting"}, NEW aborted \in BOOLEAN
  PROVE  LET a == Synthetic(started, now, dispatch, category, aborted)
         IN  /\ a \in Outcomes /\ AttemptHolds(a)
             /\ a.started = started /\ a.completed = Later(started, now)
<1> DEFINE a == Synthetic(started, now, dispatch, category, aborted)
<1>1. /\ a.started = started /\ a.completed = Later(started, now)
      /\ a.headers = Null /\ a.firstByte = Null /\ a.meaningful = Null
      /\ a.category = category /\ a.status # "success"
      /\ a.status = "aborted" => a.abort # "not-aborted"
  BY DEF Synthetic
<1>2. a \in Outcomes BY DEF Synthetic, Outcomes, Later
<1>3. Ascending(Timeline(a))
  <2>1. started <= Later(started, now) BY DEF Later
  <2>. QED BY <1>1, <2>1 DEF Ascending, Timeline
<1>4. category # Null BY AbsenceAssumption
<1>. QED BY <1>1, <1>2, <1>3, <1>4 DEF AttemptHolds

\* What the runtime says of a call passes the contract, if its timing is
\* accepted.
LEMMA FromRuntimeHolds ==
  ASSUME NEW lease \in Leases, NEW answer \in Answers, NEW start \in Nat, NEW now \in Nat,
         NEW shape \in WireShapes \cup {Null},
         shape # Null => WireHolds(lease, start, shape)
  PROVE  LET a == FromRuntime(lease, answer, start, shape, now)
         IN  /\ a \in Outcomes /\ AttemptHolds(a) /\ a.started = lease.issued
             /\ shape # Null => a.completed = Later(start + shape.wireCompleted, now)
             /\ shape = Null => a.completed = Later(lease.issued, now)
<1> DEFINE a == FromRuntime(lease, answer, start, shape, now)
           at(mark) == IF shape # Null THEN Observed(shape, start, mark) ELSE Null
           done == IF shape # Null THEN Later(start + shape.wireCompleted, now)
                                   ELSE Later(lease.issued, now)
           late == CompletionExpired(lease, done)
<1>1. /\ a.started = lease.issued /\ a.headers = at("headers")
      /\ a.firstByte = at("firstByte") /\ a.meaningful = at("meaningful")
      /\ a.completed = done /\ a.dispatch = answer.dispatch
      /\ a.status = IF late THEN "aborted" ELSE answer.status
      /\ a.category = IF late THEN "transient" ELSE answer.category
      /\ a.abort = IF late THEN "abort-ambiguous" ELSE answer.abort
  BY DEF FromRuntime
<1>2. a = [started |-> a.started, headers |-> a.headers, firstByte |-> a.firstByte,
           meaningful |-> a.meaningful, completed |-> a.completed,
           dispatch |-> a.dispatch, status |-> a.status, category |-> a.category,
           abort |-> a.abort]
  BY DEF FromRuntime
<1>3. lease.issued \in Nat BY DEF Leases
<1>4. ASSUME shape # Null
      PROVE  /\ shape.wireCompleted \in Nat
             /\ \A m \in {"headers", "firstByte", "meaningful"} :
                   at(m) # Null =>
                      /\ at(m) \in Nat /\ shape[m] \in Nat /\ at(m) = start + shape[m]
                      /\ lease.issued <= at(m) /\ at(m) <= start + shape.wireCompleted
             /\ at("headers") # Null /\ at("firstByte") # Null
                   => at("headers") <= at("firstByte")
             /\ at("meaningful") # Null
                   => at("firstByte") # Null /\ at("firstByte") <= at("meaningful")
  <2>1. /\ shape.wireCompleted \in Nat
        /\ \A m \in {"headers", "firstByte", "meaningful"} : shape[m] \in Nat \cup {Null}
    BY <1>4, AttemptTimesAssumption
  <2>2. lease.issued <= start BY <1>4 DEF WireHolds
  <2>3. \A m \in {"headers", "firstByte", "meaningful"} :
           /\ shape[m] # Null => at(m) = start + shape[m] /\ at(m) # Null
                                 /\ shape[m] <= shape.wireCompleted
           /\ shape[m] = Null => at(m) = Null
    BY <1>4, <2>1, AbsenceAssumption DEF Observed, WireHolds
  <2>4. /\ shape.headers # Null /\ shape.firstByte # Null => shape.headers <= shape.firstByte
        /\ shape.meaningful # Null
              => shape.firstByte # Null /\ shape.firstByte <= shape.meaningful
    BY <1>4 DEF WireHolds
  <2>. QED BY <1>3, <2>1, <2>2, <2>3, <2>4
<1>5. /\ done \in Nat /\ lease.issued <= done
      /\ shape # Null => start + shape.wireCompleted <= done
  <2>1. CASE shape # Null
    <3>1. lease.issued <= start BY <2>1 DEF WireHolds
    <3>. QED BY <1>3, <1>4, <2>1, <3>1 DEF Later
  <2>2. CASE shape = Null BY <1>3, <2>2 DEF Later
  <2>. QED BY <2>1, <2>2
<1>6. \A m \in {"headers", "firstByte", "meaningful"} :
         /\ at(m) \in Nat \cup {Null}
         /\ at(m) # Null => lease.issued <= at(m) /\ at(m) <= done
  BY <1>3, <1>4, <1>5
<1>7. /\ at("headers") # Null /\ at("firstByte") # Null => at("headers") <= at("firstByte")
      /\ at("meaningful") # Null => at("firstByte") # Null /\ at("firstByte") <= at("meaningful")
  BY <1>4
<1>8. Ascending(Timeline(a))
  <2>1. Ascending(<<lease.issued, at("headers"), at("firstByte"), at("meaningful"), done>>)
    <3> HIDE DEF at, done
    <3>. QED BY <1>3, <1>5, <1>6, <1>7 DEF Ascending
  <2>. QED BY <1>1, <2>1 DEF Timeline
<1>9. /\ answer.dispatch \in {"not_sent", "sent_unknown", "completed"}
      /\ answer.status \in {"success", "failure", "aborted"}
      /\ answer.category \in {"transient", "lasting", Null}
      /\ answer.abort \in {"not-aborted", "abort-confirmed", "abort-ambiguous"}
      /\ answer.status = "success" => /\ answer.dispatch = "completed"
                                      /\ answer.category = Null /\ answer.abort = "not-aborted"
      /\ answer.status # "success" => answer.category \in {"transient", "lasting"}
      /\ answer.status = "aborted" => answer.abort # "not-aborted"
  BY DEF Answers
<1>10. a \in Outcomes
  <2> HIDE DEF a, at, done, late
  <2>. QED BY <1>1, <1>2, <1>3, <1>5, <1>6, <1>9 DEF Outcomes
<1>11. AttemptHolds(a)
  <2>1. /\ a.status = "success" => /\ a.dispatch = "completed" /\ a.category = Null
                                   /\ a.abort = "not-aborted"
        /\ a.status # "success" => a.category # Null
        /\ a.status = "aborted" => a.abort # "not-aborted"
    <3> HIDE DEF a, late
    <3>. QED BY <1>1, <1>9, AbsenceAssumption
  <2>. QED BY <1>8, <2>1 DEF AttemptHolds
<1>. QED BY <1>1, <1>10, <1>11

-----------------------------------------------------------------------------
(* What a step leaves true.                                                *)

\* Clocks go forward and a record that is there stays as it is.
Grows ==
    /\ together' = together
    /\ \A c \in Collectors : wall[c] <= wall'[c]
    /\ intentAt # Null => intentAt' = intentAt
    /\ \A n \in Tries : leaseOf[n] # Null => leaseOf'[n] = leaseOf[n]
    /\ \A n \in Tries : outcomeOf[n] # Null => outcomeOf'[n] = outcomeOf[n]

\* An instant that was reached stays reached, and what is said of a record that is
\* there stays true of it.
LEMMA ReachedKept ==
  ASSUME TimesTypeOK, TimesTypeOK', Grows, NEW t \in Nat, Reached(t)
  PROVE  Reached(t)'
BY DEF TimesTypeOK, Grows, Reached

LEMMA BeginsKept ==
  ASSUME TimesTypeOK, Grows, NEW n \in Tries, NEW t, Begins(n, t)
  PROVE  Begins(n, t)'
<1>1. n > 1 => n - 1 \in Tries BY AttemptTimesAssumption DEF Tries
<1>. QED BY <1>1 DEF Begins, Grows

LEMMA PassesKept ==
  ASSUME TimesTypeOK, TimesTypeOK', Grows, NEW n \in Tries, NEW a \in Outcomes, Passes(n, a)
  PROVE  Passes(n, a)'
<1>1. a.completed \in Nat BY DEF Outcomes
<1>. QED BY <1>1, ReachedKept, BeginsKept DEF Passes

LEMMA ProposedKept ==
  ASSUME TimesTypeOK, TimesTypeOK', Grows, NEW n \in Tries, NEW lease, Proposed(n, lease)
  PROVE  Proposed(n, lease)'
<1>1. lease.issued \in Nat BY DEF Proposed, Leases
<1>. QED BY <1>1, ReachedKept, BeginsKept DEF Proposed

LEMMA IntentKept ==
  ASSUME TimesInv, TimesTypeOK', Grows, intentAt' = intentAt
  PROVE  IntentSound'
BY ReachedKept DEF TimesInv, TimesTypeOK, IntentSound

LEMMA LeaseKept ==
  ASSUME TimesInv, TimesTypeOK', Grows, NEW n \in Tries, leaseOf'[n] = leaseOf[n]
  PROVE  LeaseSound(n)'
<1>1. SUFFICES ASSUME leaseOf[n] # Null PROVE LeaseSound(n)' BY DEF LeaseSound
<1>2. /\ leaseOf[n] \in Leases /\ LeaseHolds(leaseOf[n])
      /\ Begins(n, leaseOf[n].issued) /\ Reached(leaseOf[n].issued)
  BY <1>1 DEF TimesInv, TimesTypeOK, LeaseSound
<1>3. leaseOf[n].issued \in Nat BY <1>2 DEF Leases
<1>4. Begins(n, leaseOf[n].issued)' /\ Reached(leaseOf[n].issued)'
  <2>1. PICK t \in Nat : t = leaseOf[n].issued BY <1>3
  <2>2. Begins(n, t)' /\ Reached(t)' BY <1>2, <2>1, ReachedKept, BeginsKept DEF TimesInv
  <2>. QED BY <2>1, <2>2 DEF Begins, Reached
<1>. QED BY <1>2, <1>4 DEF LeaseSound, LeaseHolds

LEMMA OutcomeKept ==
  ASSUME TimesInv, TimesTypeOK', Grows, NEW n \in Tries, outcomeOf'[n] = outcomeOf[n]
  PROVE  OutcomeSound(n)'
<1>1. SUFFICES ASSUME outcomeOf[n] # Null PROVE OutcomeSound(n)' BY DEF OutcomeSound
<1>2. PICK a \in Outcomes : a = outcomeOf[n] BY <1>1 DEF TimesInv, TimesTypeOK
<1>3. Passes(n, a) BY <1>1, <1>2 DEF TimesInv, OutcomeSound
<1>4. Passes(n, a)' BY <1>2, <1>3, PassesKept DEF TimesInv
<1>5. Passes(n, outcomeOf[n])' BY <1>2, <1>4 DEF Passes, Begins, Reached
<1>. QED BY <1>5 DEF OutcomeSound

\* An execution that does not move stays sound.
LEMMA IdleKept ==
  ASSUME TimesInv, TimesTypeOK', Grows, NEW c \in Collectors, process'[c] = process[c]
  PROVE  OwnSound(c)' /\ MemorySound(c)'
<1>1. OwnSound(c) /\ MemorySound(c) /\ process[c] \in Process /\ TimesTypeOK
  BY DEF TimesInv, TimesTypeOK
<1>2. process[c].n \in Tries BY <1>1 DEF Process
<1>3. OwnSound(c)'
  <2>1. Stands(c, "intent")' => process[c].own \in Nat /\ process[c].own < RunDeadline
                                /\ Reached(process[c].own)'
    <3>1. SUFFICES ASSUME Stands(c, "intent") PROVE Reached(process[c].own)'
      BY <1>1 DEF OwnSound, Stands
    <3>2. PICK t \in Nat : t = process[c].own /\ Reached(t) BY <1>1, <3>1 DEF OwnSound
    <3>3. Reached(t)' BY <1>1, <3>2, ReachedKept
    <3>. QED BY <3>2, <3>3 DEF Reached
  <2>2. process[c].at \in {"prepare", "lease"} =>
           \E lease : lease = process[c].own /\ Proposed(process[c].n, lease)'
    BY <1>1, <1>2, ProposedKept DEF OwnSound
  <2>3. Stands(c, "persist") => \E a \in Outcomes : a = process[c].own /\ Passes(process[c].n, a)'
    BY <1>1, <1>2, PassesKept DEF OwnSound
  <2>4. process[c].at \in {"turn", "inflight"} => leaseOf'[process[c].n] # Null
    BY <1>1, <1>2 DEF OwnSound, Grows
  <2>5. process[c].at \in {"prepare", "lease"} => Proposed(process[c].n, process[c].own)'
    BY <2>2 DEF Proposed, Begins, Reached, RetrySafe
  <2>6. Stands(c, "persist") => process[c].own \in Outcomes /\ Passes(process[c].n, process[c].own)'
    BY <2>3 DEF Passes, AttemptHolds, Begins, Reached, RetrySafe
  <2>7. /\ Stands(c, "lease") => process[c].own.issued < process[c].own.expires
        /\ Stands(c, "inflight") => process[c].own \in Nat
    BY <1>1 DEF OwnSound
  <2>. QED BY <2>1, <2>4, <2>5, <2>6, <2>7 DEF OwnSound, Stands, Proposed, Passes, Begins, Reached,
         RetrySafe, AttemptHolds
<1>4. MemorySound(c)'
  <2>1. \A m \in 0 .. MaximumAttempts : Remembers(c, m) => Remembers(c, m)'
    <3>1. \A m \in 0 .. MaximumAttempts : 1 .. m \subseteq Tries BY AttemptTimesAssumption DEF Tries
    <3>. QED BY <3>1 DEF Remembers, Grows
  <2>2. /\ process[c].n - 1 \in 0 .. MaximumAttempts /\ process[c].n \in 0 .. MaximumAttempts
        /\ process[c].n > 1 => process[c].n - 1 \in Tries
    BY <1>2, AttemptTimesAssumption DEF Tries
  <2>3. process[c].n > 1 /\ process[c].at \in Working =>
           outcomeOf[process[c].n - 1] # Null
    BY <1>1, <2>2 DEF MemorySound, Remembers, Tries
  <2>. QED BY <1>1, <2>1, <2>2, <2>3 DEF MemorySound, Grows, Stands
<1>. QED BY <1>3, <1>4

-----------------------------------------------------------------------------
(* What is built passes every check of it.                                 *)

\* The outcomes that an execution has read, and one that passes after them.
LEMMA MemoryHolds ==
  ASSUME TimesInv, NEW c \in Collectors, NEW m \in 0 .. MaximumAttempts, Remembers(c, m)
  PROVE  LET prior == process[c].prior
         IN  /\ prior \in Seq(Outcomes) /\ Len(prior) = m
             /\ \A i \in 1 .. m : /\ prior[i] \in Outcomes /\ Passes(i, prior[i])
                                  /\ i > 1 => /\ RetrySafe(prior[i - 1])
                                              /\ prior[i - 1].completed <= prior[i].started
<1> DEFINE prior == process[c].prior
<1>1. prior \in Seq(Outcomes) /\ Len(prior) = m
  BY DEF TimesInv, TimesTypeOK, Process, Remembers
<1>2. ASSUME NEW i \in 1 .. m
      PROVE  /\ prior[i] \in Outcomes /\ Passes(i, prior[i])
             /\ i > 1 => RetrySafe(prior[i - 1]) /\ prior[i - 1].completed <= prior[i].started
  <2>1. i \in Tries /\ (i > 1 => i - 1 \in 1 .. m) BY AttemptTimesAssumption DEF Tries
  <2>2. outcomeOf[i] # Null /\ prior[i] = outcomeOf[i] BY DEF Remembers
  <2>3. prior[i] \in Outcomes BY <2>1, <2>2 DEF TimesInv, TimesTypeOK
  <2>4. Passes(i, prior[i]) BY <2>1, <2>2 DEF TimesInv, OutcomeSound
  <2>5. i > 1 => prior[i - 1] = outcomeOf[i - 1] BY <2>1 DEF Remembers
  <2>. QED BY <2>3, <2>4, <2>5 DEF Passes, Begins
<1>. QED BY <1>1, <1>2

\* What appending an element to a sequence gives.
LEMMA OneMore ==
  ASSUME NEW S, NEW s \in Seq(S), NEW e \in S
  PROVE  /\ Append(s, e) \in Seq(S) /\ Len(Append(s, e)) = Len(s) + 1
         /\ Append(s, e)[Len(s) + 1] = e
         /\ \A i \in 1 .. Len(s) : Append(s, e)[i] = s[i]
OBVIOUS

\* validateOutcomeRecord accepts an outcome that passes.
LEMMA OutcomeAccepted ==
  ASSUME TimesInv, together, NEW c \in Collectors, process[c].at \in Working,
         NEW a \in Outcomes, Passes(process[c].n, a)
  PROVE  OutcomeHolds(intentAt, process[c].prior, a)
<1> DEFINE prior == process[c].prior
           n == process[c].n
           attempts == Append(prior, a)
<1>1. n \in Tries /\ MemorySound(c) BY DEF TimesInv, TimesTypeOK, Process
<1>2. n - 1 \in 0 .. MaximumAttempts /\ Remembers(c, n - 1)
  BY <1>1, AttemptTimesAssumption DEF Tries, MemorySound
<1>3. /\ prior \in Seq(Outcomes) /\ Len(prior) = n - 1
      /\ \A i \in 1 .. n - 1 : /\ prior[i] \in Outcomes /\ Passes(i, prior[i])
                               /\ i > 1 => /\ RetrySafe(prior[i - 1])
                                           /\ prior[i - 1].completed <= prior[i].started
  BY <1>2, MemoryHolds
<1>4. n > 1 => /\ RetrySafe(prior[n - 1]) /\ prior[n - 1].completed <= a.started
  <2>1. \A i \in 1 .. n - 1 : prior[i] = outcomeOf[i] BY <1>2 DEF Remembers
  <2>2. n > 1 => n - 1 \in 1 .. n - 1 BY <1>1, AttemptTimesAssumption DEF Tries
  <2>. QED BY <2>1, <2>2 DEF Passes, Begins
<1>5. /\ Len(attempts) = n /\ DOMAIN attempts = 1 .. n /\ n \in Nat \ {0}
      /\ attempts[n] = a /\ \A i \in 1 .. n - 1 : attempts[i] = prior[i]
  <2>1. n \in Nat \ {0} BY <1>1, AttemptTimesAssumption DEF Tries
  <2>2. n = Len(prior) + 1 /\ n - 1 = Len(prior) BY <1>3, <2>1
  <2>3. /\ attempts \in Seq(Outcomes) /\ Len(attempts) = n
        /\ attempts[n] = a /\ \A i \in 1 .. n - 1 : attempts[i] = prior[i]
    BY <1>3, <2>2, OneMore
  <2>. QED BY <2>1, <2>3
<1>6. \A i \in 1 .. n : AttemptHolds(attempts[i]) /\ Begins(i, attempts[i].started)
  <2>1. SUFFICES ASSUME NEW i \in 1 .. n PROVE Passes(i, attempts[i]) BY DEF Passes
  <2>2. CASE i = n BY <1>5, <2>2
  <2>3. CASE i # n BY <1>3, <1>5, <2>3
  <2>. QED BY <2>2, <2>3
<1>7. \A i \in 1 .. n - 1 : /\ RetrySafe(attempts[i])
                            /\ attempts[i].completed <= attempts[i + 1].started
  <2>1. SUFFICES ASSUME NEW i \in 1 .. n - 1
                 PROVE  /\ RetrySafe(attempts[i])
                        /\ attempts[i].completed <= attempts[i + 1].started
    OBVIOUS
  <2>2. CASE i = n - 1 BY <1>4, <1>5, <2>2
  <2>3. CASE i < n - 1
    <3>1. i + 1 \in 1 .. n - 1 /\ i + 1 > 1 /\ (i + 1) - 1 = i BY <1>5, <2>3
    <3>2. RetrySafe(prior[i]) /\ prior[i].completed <= prior[i + 1].started BY <1>3, <3>1
    <3>. QED BY <1>5, <3>1, <3>2
  <2>. QED BY <1>5, <2>2, <2>3
<1>8. AttemptsHold(intentAt, attempts)
  <2>1. intentAt <= attempts[1].started BY <1>5, <1>6 DEF Begins
  <2>2. \A i \in 2 .. n : attempts[i - 1].completed <= attempts[i].started
    <3>1. \A i \in 2 .. n : i - 1 \in 1 .. n - 1 /\ (i - 1) + 1 = i BY <1>5
    <3>. QED BY <1>7, <3>1
  <2>3. \A i \in 1 .. n - 1 : attempts[i].status # "success" BY <1>7 DEF RetrySafe
  <2>. QED BY <1>5, <1>6, <2>1, <2>2, <2>3 DEF AttemptsHold
<1>9. LineageHolds(attempts) BY <1>5, <1>7 DEF LineageHolds
<1>. QED BY <1>8, <1>9 DEF OutcomeHolds

\* parseAcceptedRecord accepts what was remembered, unless it comes too late.
LEMMA TraceAccepted ==
  ASSUME TimesInv, together, NEW c \in Collectors, Stands(c, "gather"), Now(c) < CollectionEnd
  PROVE  LET attempts == process[c].prior
         IN  TraceHolds(intentAt, attempts, Later(Now(c), Last(attempts).completed))
<1> DEFINE attempts == process[c].prior
           n == process[c].n
           end == Last(attempts).completed
<1>1. /\ n \in Tries /\ MemorySound(c) /\ wall[c] \in Nat
      /\ intentAt \in Nat /\ intentAt < RunDeadline
  BY DEF TimesInv, TimesTypeOK, Process, IntentSound, MemorySound, Stands
<1>2. n \in 0 .. MaximumAttempts /\ n \in Nat \ {0} /\ Remembers(c, n)
  BY <1>1, AttemptTimesAssumption DEF Tries, MemorySound
<1>3. /\ attempts \in Seq(Outcomes) /\ Len(attempts) = n
      /\ \A i \in 1 .. n : /\ attempts[i] \in Outcomes /\ Passes(i, attempts[i])
                           /\ i > 1 => /\ RetrySafe(attempts[i - 1])
                                       /\ attempts[i - 1].completed <= attempts[i].started
  BY <1>2, MemoryHolds
<1>4. DOMAIN attempts = 1 .. n BY <1>3
<1>5. \A i \in 1 .. n - 1 : RetrySafe(attempts[i])
  <2>1. \A i \in 1 .. n - 1 : i + 1 \in 1 .. n /\ i + 1 > 1 /\ (i + 1) - 1 = i BY <1>2
  <2>. QED BY <1>3, <2>1
<1>6. AttemptsHold(intentAt, attempts)
  <2>1. intentAt <= attempts[1].started BY <1>2, <1>3 DEF Passes, Begins
  <2>2. \A i \in 2 .. n : attempts[i - 1].completed <= attempts[i].started BY <1>3
  <2>. QED BY <1>2, <1>3, <1>4, <1>5, <2>1, <2>2 DEF AttemptsHold, Passes, RetrySafe
<1>7. LineageHolds(attempts) BY <1>3, <1>5 DEF LineageHolds
<1>8. end \in Nat /\ end <= wall[c]
  <2>1. Last(attempts) = attempts[n] BY <1>3 DEF Last
  <2>2. attempts[n] \in Outcomes /\ Passes(n, attempts[n]) BY <1>2, <1>3
  <2>. QED BY <2>1, <2>2 DEF Passes, Reached, Outcomes
<1>9. Later(Now(c), end) = wall[c] BY <1>1, <1>8 DEF Later, Now
<1>10. intentAt < CollectionEnd /\ Len(attempts) <= MaximumAttempts
  BY <1>1, <1>2, <1>3, AttemptTimesAssumption
<1>11. wall[c] < CollectionEnd BY DEF Now
<1>. QED BY <1>6, <1>7, <1>8, <1>9, <1>10, <1>11 DEF TraceHolds

-----------------------------------------------------------------------------
(* Steps.                                                                  *)

\* No execution fails, but one that gathers after the protocol's end.
OnTime ==
    \A c \in Collectors :
        (together /\ Stands(c, "failed")' /\ ~Stands(c, "failed"))
            => Stands(c, "gather") /\ Now(c) >= CollectionEnd

\* Only c moves.
Alone(c) == \A d \in Collectors \ {c} : process'[d] = process[d]

\* The invariant holds of an empty job.
LEMMA TimesStart == TimesInit => TimesInv
<1>. SUFFICES ASSUME TimesInit PROVE TimesInv OBVIOUS
<1>1. 1 \in Tries BY AttemptTimesAssumption DEF Tries
<1>2. Unstarted \in Process
  BY <1>1 DEF Unstarted, Process, Points
<1>3. TimesTypeOK BY <1>2 DEF TimesInit, TimesTypeOK
<1>4. ClocksAgree /\ IntentSound BY DEF TimesInit, ClocksAgree, IntentSound
<1>5. \A n \in Tries : LeaseSound(n) /\ OutcomeSound(n)
  BY DEF TimesInit, LeaseSound, OutcomeSound
<1>6. \A c \in Collectors : OwnSound(c) /\ MemorySound(c)
  BY DEF TimesInit, OwnSound, MemorySound, Stands, Unstarted, Working
<1>. QED BY <1>3, <1>4, <1>5, <1>6 DEF TimesInv

\* What is left to show of a step: that it is sound for the one that moves.
LEMMA StepKeeps ==
  ASSUME TimesInv, TimesTypeOK', Grows, ClocksAgree', IntentSound', NEW c \in Collectors, Alone(c),
         \A n \in Tries : LeaseSound(n)' /\ OutcomeSound(n)',
         OwnSound(c)', MemorySound(c)'
  PROVE  TimesInv'
<1>1. \A d \in Collectors \ {c} : OwnSound(d)' /\ MemorySound(d)' BY IdleKept DEF Alone
<1>. QED BY <1>1 DEF TimesInv

\* A step of c that only reads.
LEMMA ReadStepKeeps ==
  ASSUME TimesInv, NEW c \in Collectors, UNCHANGED <<together, wall, recordVars>>,
         NEW p \in Process, process' = [process EXCEPT ![c] = p],
         OwnSound(c)', MemorySound(c)'
  PROVE  TimesInv'
<1>1. TimesTypeOK /\ TimesTypeOK' BY DEF TimesInv, TimesTypeOK, recordVars
<1>2. Grows BY <1>1 DEF Grows, recordVars, TimesTypeOK
<1>3. Alone(c) BY <1>1 DEF Alone, TimesTypeOK
<1>4. ClocksAgree' BY DEF TimesInv, ClocksAgree
<1>5. IntentSound' BY <1>1, <1>2, IntentKept DEF recordVars
<1>6. \A n \in Tries : LeaseSound(n)' /\ OutcomeSound(n)'
  BY <1>1, <1>2, LeaseKept, OutcomeKept DEF recordVars
<1>. QED BY <1>1, <1>2, <1>3, <1>4, <1>5, <1>6, StepKeeps

\* What an execution is in the middle of.
LEMMA Memory ==
  ASSUME TimesInv, NEW c \in Collectors, process[c].at \in Working
  PROVE  /\ process[c] \in Process /\ process[c].n \in Tries /\ process[c].n \in Nat \ {0}
         /\ wall[c] \in Nat /\ Reached(wall[c])
         /\ intentAt \in Nat /\ intentAt < RunDeadline /\ Reached(intentAt)
         /\ Remembers(c, process[c].n - 1)
         /\ process[c].n > 1 => RetrySafe(outcomeOf[process[c].n - 1])
<1>1. process[c] \in Process /\ process[c].n \in Tries BY DEF TimesInv, TimesTypeOK, Process
<1>2. process[c].n \in Nat \ {0} BY <1>1, AttemptTimesAssumption DEF Tries
<1>3. wall[c] \in Nat /\ Reached(wall[c])
  BY DEF TimesInv, TimesTypeOK, ClocksAgree, Reached
<1>4. intentAt # Null /\ Remembers(c, process[c].n - 1)
      /\ (process[c].n > 1 => RetrySafe(outcomeOf[process[c].n - 1]))
  BY DEF TimesInv, MemorySound
<1>5. intentAt \in Nat /\ intentAt < RunDeadline /\ Reached(intentAt)
  BY <1>4 DEF TimesInv, TimesTypeOK, IntentSound
<1>. QED BY <1>1, <1>2, <1>3, <1>4, <1>5

\* c goes on to another point of the same attempt.
LEMMA AdvanceKeeps ==
  ASSUME TimesInv, NEW c \in Collectors, process[c].at \in Working,
         UNCHANGED <<together, wall, recordVars>>,
         NEW at \in Working, NEW own \in Nat \cup Leases \cup Outcomes \cup {Null},
         process' = [process EXCEPT ![c] = [@ EXCEPT !.at = at, !.own = own]],
         at \in {"prepare", "lease"} => Proposed(process[c].n, own),
         at = "lease" => own.issued < own.expires,
         at \in {"turn", "inflight"} => leaseOf[process[c].n] # Null,
         at = "inflight" => own \in Nat,
         at = "persist" => own \in Outcomes /\ Passes(process[c].n, own)
  PROVE  TimesInv' /\ OnTime
<1> DEFINE p == [process[c] EXCEPT !.at = at, !.own = own]
<1>1. process[c] \in Process /\ process \in [Collectors -> Process]
  BY DEF TimesInv, TimesTypeOK
<1>2. p \in Process /\ p.at = at /\ p.own = own /\ p.n = process[c].n
      /\ p.prior = process[c].prior
  BY <1>1 DEF Process, Points, Working
<1>3. process' = [process EXCEPT ![c] = p] /\ process'[c] = p BY <1>1
<1>4. \A n, t : (Begins(n, t)' <=> Begins(n, t)) /\ (Reached(t)' <=> Reached(t))
  BY DEF Begins, Reached, recordVars
<1>5. OwnSound(c)'
  <2>1. at \in {"prepare", "lease"} => Proposed(p.n, p.own)' BY <1>2, <1>4 DEF Proposed
  <2>2. at = "persist" => p.own \in Outcomes /\ Passes(p.n, p.own)' BY <1>2, <1>4 DEF Passes
  <2>3. at # "intent" BY DEF Working
  <2> HIDE DEF p
  <2>. QED BY <1>2, <1>3, <2>1, <2>2, <2>3
         DEF OwnSound, Stands, recordVars, Proposed, Passes, Begins, Reached
<1>6. MemorySound(c)'
  <2>1. MemorySound(c) BY DEF TimesInv
  <2>2. at \notin {"gather", "open", "intent"} BY DEF Working
  <2> HIDE DEF p
  <2>. QED BY <1>2, <1>3, <2>1, <2>2 DEF MemorySound, Remembers, Stands, recordVars
<1>7. TimesInv' BY <1>2, <1>3, <1>5, <1>6, ReadStepKeeps
<1>8. OnTime BY <1>1, <1>2, <1>3 DEF OnTime, Stands, Working
<1>. QED BY <1>7, <1>8

\* c is done with the job, whether it failed or not.
LEMMA StopSound ==
  ASSUME TimesInv, NEW c \in Collectors, NEW point \in {"gathered", "pending", "failed"},
         Stop(c, point)
  PROVE  /\ Unstarted \in Process /\ process' = [process EXCEPT ![c] = process'[c]]
         /\ process'[c] \in Process /\ process' \in [Collectors -> Process]
         /\ process'[c].at = point /\ Alone(c) /\ OwnSound(c)' /\ MemorySound(c)'
<1>1. 1 \in Tries BY AttemptTimesAssumption DEF Tries
<1>2. Unstarted \in Process BY <1>1 DEF Unstarted, Process, Points
<1>3. process \in [Collectors -> Process] BY DEF TimesInv, TimesTypeOK
<1>4. PICK p : p = [Unstarted EXCEPT !.at = point] OBVIOUS
<1>5. p \in Process /\ p.at = point BY <1>2, <1>4 DEF Unstarted, Process, Points
<1>6. process' = [process EXCEPT ![c] = p] /\ process'[c] = p BY <1>3, <1>4 DEF Stop
<1>. QED BY <1>2, <1>3, <1>5, <1>6 DEF Alone, OwnSound, MemorySound, Stands, Working

\* c goes on to persist an observation that passes.
LEMMA ProposeKeeps ==
  ASSUME TimesInv, NEW c \in Collectors, process[c].at \in Working,
         UNCHANGED <<together, wall, recordVars>>,
         NEW a \in Outcomes, Passes(process[c].n, a), Propose(c, a)
  PROVE  TimesInv' /\ OnTime
<1>1. process[c] \in Process /\ process \in [Collectors -> Process]
  BY DEF TimesInv, TimesTypeOK
<1>2. process' = [process EXCEPT ![c] = [@ EXCEPT !.at = "persist", !.own = a]]
  BY <1>1 DEF Propose, Process
<1>3. PICK at \in Working : at = "persist" BY DEF Working
<1>4. process' = [process EXCEPT ![c] = [@ EXCEPT !.at = at, !.own = a]] BY <1>2, <1>3
<1>. QED BY <1>3, <1>4, AdvanceKeeps

\* What is made up of an attempt that could begin when it is said to have begun.
LEMMA SyntheticPasses ==
  ASSUME TimesInv, NEW n \in Tries, NEW started \in Nat, NEW now \in Nat,
         Begins(n, started), Reached(started), Reached(now),
         NEW dispatch \in {"not_sent", "sent_unknown"},
         NEW category \in {"transient", "lasting"}, NEW aborted \in BOOLEAN
  PROVE  LET a == Synthetic(started, now, dispatch, category, aborted)
         IN  a \in Outcomes /\ Passes(n, a)
<1>1. Reached(Later(started, now)) BY DEF Reached, Later
<1>. QED BY <1>1, SyntheticHolds DEF Passes

\* c makes up an observation of its attempt.
LEMMA MadeUpKeeps ==
  ASSUME TimesInv, NEW c \in Collectors, process[c].at \in Working,
         UNCHANGED <<together, wall, recordVars>>,
         NEW started \in Nat, Begins(process[c].n, started), Reached(started),
         NEW now \in Nat, Reached(now),
         NEW dispatch \in {"not_sent", "sent_unknown"},
         NEW category \in {"transient", "lasting"}, NEW aborted \in BOOLEAN,
         Propose(c, Synthetic(started, now, dispatch, category, aborted))
  PROVE  TimesInv' /\ OnTime
<1>1. PICK a : a = Synthetic(started, now, dispatch, category, aborted) OBVIOUS
<1>2. a \in Outcomes /\ Passes(process[c].n, a) BY <1>1, Memory, SyntheticPasses
<1>. QED BY <1>1, <1>2, ProposeKeeps

\* A durable lease.
LEMMA DurableLease ==
  ASSUME TimesInv, NEW n \in Tries, leaseOf[n] # Null
  PROVE  /\ leaseOf[n] \in Leases /\ leaseOf[n].issued \in Nat /\ leaseOf[n].expires \in Nat
         /\ LeaseHolds(leaseOf[n]) /\ Begins(n, leaseOf[n].issued) /\ Reached(leaseOf[n].issued)
<1>1. leaseOf[n] \in Leases BY DEF TimesInv, TimesTypeOK
<1>. QED BY <1>1 DEF TimesInv, LeaseSound, Leases

\* c leaves the job without a failure.
LEMMA StopReads ==
  ASSUME TimesInv, NEW c \in Collectors, NEW point \in {"gathered", "pending"},
         Stop(c, point), UNCHANGED <<together, wall, recordVars>>
  PROVE  TimesInv' /\ OnTime
<1>1. /\ process'[c] \in Process /\ process' = [process EXCEPT ![c] = process'[c]]
      /\ process'[c].at = point /\ Alone(c) /\ OwnSound(c)' /\ MemorySound(c)'
  BY StopSound
<1>2. TimesInv'
  <2>1. PICK p \in Process : p = process'[c] BY <1>1
  <2>. QED BY <1>1, <2>1, ReadStepKeeps
<1>. QED BY <1>1, <1>2 DEF OnTime, Stands, Alone

\* The steps, one by one.
LEMMA DeferKeeps ==
  ASSUME TimesInv, NEW c \in Collectors, process[c].at \in Working,
         leaseOf[process[c].n] # Null, UNCHANGED <<together, wall, recordVars>>,
         Defer(c, leaseOf[process[c].n])
  PROVE  TimesInv' /\ OnTime
<1>1. PICK lease : lease = leaseOf[process[c].n] OBVIOUS
<1>2. /\ lease \in Leases /\ lease.issued \in Nat /\ LeaseHolds(lease)
      /\ Begins(process[c].n, lease.issued) /\ Reached(lease.issued)
  BY <1>1, Memory, DurableLease
<1>3. CASE Stop(c, "pending") BY <1>3, StopReads
<1>4. CASE Propose(c, Synthetic(lease.issued, wall[c], "sent_unknown", "lasting", FALSE))
  BY <1>2, <1>4, Memory, MadeUpKeeps
<1>. QED BY <1>1, <1>2, <1>3, <1>4 DEF Defer, Now

LEMMA CancelKeeps ==
  ASSUME TimesInv, NEW c \in Collectors, Cancel(c)
  PROVE  TimesInv' /\ OnTime
<1>1. process[c] \in Process /\ process \in [Collectors -> Process]
      /\ process' = [process EXCEPT ![c] = [@ EXCEPT !.aborted = TRUE]]
      /\ UNCHANGED <<together, wall, recordVars>>
  BY DEF Cancel, TimesInv, TimesTypeOK
<1>2. PICK p : p = [process[c] EXCEPT !.aborted = TRUE] OBVIOUS
<1>3. /\ p \in Process /\ p.at = process[c].at /\ p.n = process[c].n /\ p.own = process[c].own
      /\ p.prior = process[c].prior
  BY <1>1, <1>2 DEF Process
<1>4. process' = [process EXCEPT ![c] = p] /\ process'[c] = p BY <1>1, <1>2
<1>5. OwnSound(c)' /\ MemorySound(c)'
  BY <1>1, <1>3, <1>4 DEF TimesInv, OwnSound, MemorySound, Stands, recordVars, Proposed, Passes,
     Begins, Reached, Remembers
<1>6. TimesInv' BY <1>1, <1>3, <1>4, <1>5, ReadStepKeeps
<1>. QED BY <1>1, <1>3, <1>4, <1>6 DEF OnTime, Stands

LEMMA PrepareFailsKeeps ==
  ASSUME TimesInv, NEW c \in Collectors, PrepareFails(c)
  PROVE  TimesInv' /\ OnTime
<1>1. Stands(c, "prepare") /\ process[c].at \in Working /\ UNCHANGED <<together, wall, recordVars>>
  BY DEF PrepareFails, Stands, Working
<1>2. PICK category \in {"transient", "lasting"} :
         Propose(c, Synthetic(process[c].own.issued, wall[c], "not_sent",
                              category, process[c].aborted))
  BY DEF PrepareFails, Now
<1>3. /\ process[c].own.issued \in Nat /\ Begins(process[c].n, process[c].own.issued)
      /\ Reached(process[c].own.issued)
  BY <1>1 DEF TimesInv, OwnSound, Proposed, Leases, Stands
<1>4. process[c].aborted \in BOOLEAN BY DEF TimesInv, TimesTypeOK, Process
<1>. QED BY <1>1, <1>2, <1>3, <1>4, Memory, MadeUpKeeps

LEMMA IssueLeaseKeeps ==
  ASSUME TimesInv, NEW c \in Collectors, IssueLease(c)
  PROVE  TimesInv' /\ OnTime
<1> DEFINE own == process[c].own
           issued == Later(wall[c], own.issued)
<1>1. Stands(c, "prepare") /\ process[c].at \in Working /\ UNCHANGED <<together, wall, recordVars>>
  BY DEF IssueLease, Stands, Working
<1>2. process[c] \in Process /\ process \in [Collectors -> Process] /\ process[c].n \in Tries
      /\ wall[c] \in Nat /\ Reached(wall[c])
  BY <1>1, Memory DEF TimesInv, TimesTypeOK
<1>3. Proposed(process[c].n, own) BY <1>1 DEF TimesInv, OwnSound, Stands
<1>4. own \in Leases /\ own.issued \in Nat /\ own.expires \in Nat
  BY <1>3 DEF Proposed, Leases
<1>5. issued \in Nat /\ own.issued <= issued /\ Reached(issued) BY <1>2, <1>3, <1>4
  DEF Later, Proposed, Reached
<1>6. CASE Propose(c, Synthetic(own.issued, wall[c], "not_sent", "transient", FALSE))
  BY <1>1, <1>2, <1>3, <1>4, <1>6, MadeUpKeeps DEF Proposed
<1>7. CASE /\ issued < own.expires
           /\ process' = [process EXCEPT ![c].at = "lease", ![c].own.issued = issued]
  <2>1. PICK lease : lease = [own EXCEPT !.issued = issued] OBVIOUS
  <2>2. lease \in Leases /\ lease.issued = issued /\ lease.expires = own.expires
    BY <1>4, <1>5, <2>1 DEF Leases
  <2>3. process' = [process EXCEPT ![c] = [@ EXCEPT !.at = "lease", !.own = lease]]
    BY <1>2, <1>7, <2>1 DEF Process
  <2>4. Begins(process[c].n, issued)
    <3>1. /\ \A t \in Nat : t <= own.issued => t <= issued BY <1>4, <1>5
    <3>2. intentAt \in Nat /\ (process[c].n > 1 => outcomeOf[process[c].n - 1].completed \in Nat)
      <4>1. process[c].n > 1 => process[c].n - 1 \in Tries
        BY <1>2, AttemptTimesAssumption DEF Tries
      <4>. QED BY <1>1, <1>3, <4>1, Memory DEF Proposed, Begins, TimesInv, TimesTypeOK, Outcomes
    <3> HIDE DEF issued
    <3>. QED BY <1>3, <3>1, <3>2 DEF Proposed, Begins
  <2>5. Proposed(process[c].n, lease)
    <3>1. own.expires <= RunDeadline /\ own.expires <= own.issued + AttemptLimit
      BY <1>3 DEF Proposed
    <3>2. own.expires <= issued + AttemptLimit
      BY <1>4, <1>5, <3>1, AttemptTimesAssumption
    <3> HIDE DEF issued
    <3>. QED BY <1>5, <2>2, <2>4, <3>1, <3>2 DEF Proposed
  <2>6. "lease" \in Working BY DEF Working
  <2>7. lease \in Nat \cup Leases \cup Outcomes \cup {Null} BY <2>2
  <2>8. lease.issued < lease.expires BY <1>7, <2>2
  <2>9. PICK at \in Working : at = "lease" BY <2>6
  <2>10. process' = [process EXCEPT ![c] = [@ EXCEPT !.at = at, !.own = lease]] BY <2>3, <2>9
  <2> HIDE DEF own, issued
  <2>. QED BY <1>1, <2>5, <2>7, <2>8, <2>9, <2>10, AdvanceKeeps
<1>9. IF issued >= own.expires
      THEN Propose(c, Synthetic(own.issued, wall[c], "not_sent", "transient", FALSE))
      ELSE process' = [process EXCEPT ![c].at = "lease", ![c].own.issued = issued]
  BY DEF IssueLease, Now
<1>10. CASE issued >= own.expires BY <1>6, <1>9, <1>10
<1>11. CASE ~(issued >= own.expires)
  <2>1. issued < own.expires BY <1>4, <1>5, <1>11
  <2>. QED BY <1>7, <1>9, <1>11, <2>1
<1>. QED BY <1>10, <1>11

LEMMA OpenJobKeeps ==
  ASSUME TimesInv, NEW c \in Collectors, OpenJob(c)
  PROVE  TimesInv' /\ OnTime
<1>1. /\ Stands(c, "open") /\ UNCHANGED <<together, wall, recordVars>>
      /\ process[c] \in Process /\ process \in [Collectors -> Process] /\ MemorySound(c)
      /\ wall[c] \in Nat /\ Reached(wall[c])
  BY DEF OpenJob, TimesInv, TimesTypeOK, ClocksAgree, Reached
<1>2. process[c].n = 1 /\ process[c].prior = <<>> BY <1>1 DEF MemorySound, Stands
<1>3. CASE \E point \in {"gathered", "pending"} : Stop(c, point) BY <1>1, <1>3, StopReads
<1>4. CASE intentAt # Null /\ Go(c, "outcome")
  <2>1. PICK p : p = [process[c] EXCEPT !.at = "outcome"] OBVIOUS
  <2>2. /\ p \in Process /\ p.at = "outcome" /\ p.n = 1 /\ p.prior = <<>>
        /\ process' = [process EXCEPT ![c] = p] /\ process'[c] = p
    BY <1>1, <1>2, <1>4, <2>1 DEF Go, Process, Points
  <2>3. OwnSound(c)' BY <2>2 DEF OwnSound, Stands
  <2>4. MemorySound(c)' BY <1>1, <1>4, <2>2 DEF MemorySound, Stands, Working, Remembers, recordVars
  <2>5. TimesInv' BY <1>1, <2>2, <2>3, <2>4, ReadStepKeeps
  <2>. QED BY <1>1, <2>2, <2>5 DEF OnTime, Stands
<1>5. CASE /\ ~(Now(c) >= RunDeadline)
           /\ process' = [process EXCEPT ![c].at = "intent", ![c].own = Now(c)]
  <2>1. PICK p : p = [process[c] EXCEPT !.at = "intent", !.own = wall[c]] OBVIOUS
  <2>2. /\ p \in Process /\ p.at = "intent" /\ p.own = wall[c] /\ p.n = 1 /\ p.prior = <<>>
        /\ process' = [process EXCEPT ![c] = p] /\ process'[c] = p
    BY <1>1, <1>2, <1>5, <2>1 DEF Process, Points, Now
  <2>3. wall[c] < RunDeadline BY <1>1, <1>5, AttemptTimesAssumption DEF Now
  <2>4. OwnSound(c)' BY <1>1, <2>2, <2>3 DEF OwnSound, Stands, Reached
  <2>5. MemorySound(c)' BY <2>2 DEF MemorySound, Stands, Working
  <2>6. TimesInv' BY <1>1, <2>2, <2>4, <2>5, ReadStepKeeps
  <2>. QED BY <1>1, <2>2, <2>6 DEF OnTime, Stands
<1>. QED BY <1>3, <1>4, <1>5 DEF OpenJob

LEMMA WriteIntentKeeps ==
  ASSUME TimesInv, NEW c \in Collectors, WriteIntent(c)
  PROVE  TimesInv' /\ OnTime
<1>1. /\ Stands(c, "intent") /\ UNCHANGED <<together, wall, leaseOf, outcomeOf>>
      /\ TimesTypeOK /\ process[c] \in Process /\ process \in [Collectors -> Process]
      /\ OwnSound(c) /\ MemorySound(c)
  BY DEF WriteIntent, TimesInv, TimesTypeOK
<1>2. /\ process[c].n = 1 /\ process[c].prior = <<>>
      /\ process[c].own \in Nat /\ process[c].own < RunDeadline /\ Reached(process[c].own)
  BY <1>1 DEF MemorySound, OwnSound, Stands
<1>3. intentAt' \in Nat /\ intentAt' < RunDeadline /\ Reached(intentAt') /\ intentAt' # Null
      /\ (intentAt # Null => intentAt' = intentAt)
  <2>1. \A t \in Nat : t # Null BY AbsenceAssumption
  <2>. QED BY <1>1, <1>2, <2>1 DEF WriteIntent, TimesInv, TimesTypeOK, IntentSound
<1>4. PICK p : p = [process[c] EXCEPT !.at = "outcome", !.own = Null] OBVIOUS
<1>5. /\ p \in Process /\ p.at = "outcome" /\ p.n = 1 /\ p.prior = <<>>
      /\ process' = [process EXCEPT ![c] = p] /\ process'[c] = p
  BY <1>1, <1>2, <1>4 DEF WriteIntent, Process, Points
<1>6. TimesTypeOK' BY <1>1, <1>3, <1>5 DEF TimesTypeOK
<1>7. Grows /\ Alone(c) BY <1>1, <1>3, <1>5 DEF Grows, Alone, TimesTypeOK
<1>8. ClocksAgree' /\ IntentSound'
  BY <1>1, <1>3 DEF TimesInv, ClocksAgree, IntentSound, Reached
<1>9. \A n \in Tries : LeaseSound(n)' /\ OutcomeSound(n)'
  BY <1>1, <1>6, <1>7, LeaseKept, OutcomeKept
<1>10. OwnSound(c)' BY <1>5 DEF OwnSound, Stands
<1>11. MemorySound(c)' BY <1>3, <1>5 DEF MemorySound, Stands, Working, Remembers
<1>12. TimesInv' BY <1>6, <1>7, <1>8, <1>9, <1>10, <1>11, StepKeeps
<1>. QED BY <1>1, <1>5, <1>12 DEF OnTime, Stands

LEMMA WallKeeps ==
  ASSUME TimesInv, WallAdvances
  PROVE  TimesInv' /\ OnTime
<1>1. TimesTypeOK /\ ClocksAgree /\ UNCHANGED <<together, recordVars, process>>
  BY DEF TimesInv, WallAdvances
<1>2. PICK c \in Collectors :
         wall' = IF together THEN [d \in Collectors |-> wall[c] + 1]
                             ELSE [wall EXCEPT ![c] = @ + 1]
  BY DEF WallAdvances
<1>3. /\ wall' \in [Collectors -> Nat] /\ \A d \in Collectors : wall[d] <= wall'[d]
      /\ ClocksAgree'
  <2>1. CASE together BY <1>1, <1>2, <2>1 DEF TimesTypeOK, ClocksAgree
  <2>2. CASE ~together BY <1>1, <1>2, <2>2 DEF TimesTypeOK, ClocksAgree
  <2>. QED BY <2>1, <2>2
<1>4. TimesTypeOK' BY <1>1, <1>3 DEF TimesTypeOK, recordVars
<1>5. Grows BY <1>1, <1>3 DEF Grows, recordVars
<1>6. IntentSound' BY <1>1, <1>4, <1>5, IntentKept DEF recordVars
<1>7. \A n \in Tries : LeaseSound(n)' /\ OutcomeSound(n)'
  BY <1>1, <1>4, <1>5, LeaseKept, OutcomeKept DEF recordVars
<1>8. \A d \in Collectors : OwnSound(d)' /\ MemorySound(d)' BY <1>1, <1>4, <1>5, IdleKept
<1>9. OnTime BY <1>1 DEF OnTime, Stands
<1>. QED BY <1>3, <1>4, <1>6, <1>7, <1>8, <1>9 DEF TimesInv

LEMMA DispatchKeeps ==
  ASSUME TimesInv, NEW c \in Collectors, Dispatch(c)
  PROVE  TimesInv' /\ OnTime
<1> DEFINE n == process[c].n
<1>1. Stands(c, "turn") /\ process[c].at \in Working /\ UNCHANGED <<together, wall, recordVars>>
  BY DEF Dispatch, Stands, Working
<1>2. n \in Tries /\ wall[c] \in Nat /\ Reached(wall[c]) /\ process[c] \in Process
      /\ process \in [Collectors -> Process] /\ process[c].aborted \in BOOLEAN
  BY <1>1, Memory DEF TimesInv, TimesTypeOK, Process
<1>3. leaseOf[n] # Null BY <1>1 DEF TimesInv, OwnSound, Stands
<1>4. PICK lease : lease = leaseOf[n] OBVIOUS
<1>5. lease.issued \in Nat /\ Begins(n, lease.issued) /\ Reached(lease.issued)
  BY <1>2, <1>3, <1>4, DurableLease
<1>6. ASSUME NEW category \in {"transient", "lasting"},
             Propose(c, Synthetic(lease.issued, wall[c], "not_sent", category, process[c].aborted))
      PROVE  TimesInv' /\ OnTime
  BY <1>1, <1>2, <1>5, <1>6, MadeUpKeeps
<1>7. CASE process' = [process EXCEPT ![c].at = "inflight", ![c].own = Now(c)]
  <2>1. process' = [process EXCEPT ![c] = [@ EXCEPT !.at = "inflight", !.own = wall[c]]]
    BY <1>2, <1>7 DEF Process, Now
  <2>2. PICK at \in Working : at = "inflight" BY DEF Working
  <2>3. process' = [process EXCEPT ![c] = [@ EXCEPT !.at = at, !.own = wall[c]]] BY <2>1, <2>2
  <2>. QED BY <1>1, <1>2, <1>3, <2>2, <2>3, AdvanceKeeps
<1>8. \/ \E category \in {"transient", "lasting"} :
            Propose(c, Synthetic(lease.issued, wall[c], "not_sent", category, process[c].aborted))
      \/ process' = [process EXCEPT ![c].at = "inflight", ![c].own = Now(c)]
  BY <1>4 DEF Dispatch, Now
<1>. QED BY <1>6, <1>7, <1>8

\* The lease of a call that is under way.
LEMMA Calling ==
  ASSUME TimesInv, NEW c \in Collectors, Stands(c, "inflight")
  PROVE  LET lease == leaseOf[process[c].n]
         IN  /\ process[c].at \in Working /\ process[c].n \in Tries /\ process[c].own \in Nat
             /\ wall[c] \in Nat /\ Reached(wall[c]) /\ lease \in Leases /\ lease.issued \in Nat
             /\ Begins(process[c].n, lease.issued) /\ Reached(lease.issued)
<1>1. process[c].at \in Working /\ OwnSound(c) BY DEF Stands, Working, TimesInv
<1>2. process[c].own \in Nat /\ leaseOf[process[c].n] # Null BY <1>1 DEF OwnSound, Stands
<1>. QED BY <1>1, <1>2, Memory, DurableLease

LEMMA AnswerKeeps ==
  ASSUME TimesInv, NEW c \in Collectors, Answer(c)
  PROVE  TimesInv' /\ OnTime
<1> DEFINE n == process[c].n
<1>1. Stands(c, "inflight") /\ UNCHANGED <<together, wall, recordVars>> BY DEF Answer
<1>2. PICK lease : lease = leaseOf[n] OBVIOUS
<1>3. /\ process[c].at \in Working /\ n \in Tries /\ process[c].own \in Nat
      /\ wall[c] \in Nat /\ Reached(wall[c]) /\ lease \in Leases /\ lease.issued \in Nat
      /\ Begins(n, lease.issued) /\ Reached(lease.issued)
  BY <1>1, <1>2, Calling
<1>4. PICK answer \in Answers, shape \in WireShapes \cup {Null}, start \in process[c].own .. wall[c] :
         /\ shape # Null => start + shape.wireCompleted <= wall[c]
         /\ Propose(c,
               IF shape # Null /\ ~WireHolds(lease, start, shape)
               THEN Synthetic(lease.issued, wall[c], "sent_unknown", "lasting", FALSE)
               ELSE FromRuntime(lease, answer, start, shape, wall[c]))
  BY <1>2 DEF Answer, Now
<1>5. start \in Nat BY <1>3
<1>6. CASE shape # Null /\ ~WireHolds(lease, start, shape)
  BY <1>1, <1>3, <1>4, <1>6, MadeUpKeeps
<1>7. CASE shape # Null => WireHolds(lease, start, shape)
  <2>1. PICK a : a = FromRuntime(lease, answer, start, shape, wall[c]) OBVIOUS
  <2>2. /\ a \in Outcomes /\ AttemptHolds(a) /\ a.started = lease.issued
        /\ shape # Null => a.completed = Later(start + shape.wireCompleted, wall[c])
        /\ shape = Null => a.completed = Later(lease.issued, wall[c])
    BY <1>3, <1>5, <1>7, <2>1, FromRuntimeHolds
  <2>3. shape # Null => shape.wireCompleted \in Nat BY AttemptTimesAssumption
  <2>4. a.completed \in {wall[c], lease.issued} BY <1>3, <1>4, <1>5, <2>2, <2>3 DEF Later
  <2>5. Passes(n, a) BY <1>3, <2>2, <2>4 DEF Passes
  <2>6. Propose(c, a) BY <1>4, <1>7, <2>1
  <2>. QED BY <1>1, <1>3, <2>2, <2>5, <2>6, ProposeKeeps
<1>. QED BY <1>6, <1>7

LEMMA EndCallKeeps ==
  ASSUME TimesInv, NEW c \in Collectors, CallFails(c) \/ GiveUp(c)
  PROVE  TimesInv' /\ OnTime
<1>1. Stands(c, "inflight") /\ UNCHANGED <<together, wall, recordVars>> BY DEF CallFails, GiveUp
<1>2. PICK lease : lease = leaseOf[process[c].n] OBVIOUS
<1>3. PICK dispatch \in {"not_sent", "sent_unknown"}, category \in {"transient", "lasting"},
           aborted \in BOOLEAN :
         Propose(c, Synthetic(lease.issued, wall[c], dispatch, category, aborted))
  <2>1. CASE CallFails(c) BY <1>2, <2>1 DEF CallFails, Now
  <2>2. CASE GiveUp(c)
    <3>1. CASE process[c].aborted BY <1>2, <2>2, <3>1 DEF GiveUp, Now
    <3>2. CASE ~process[c].aborted BY <1>2, <2>2, <3>2 DEF GiveUp, Now
    <3>. QED BY <3>1, <3>2
  <2>. QED BY <2>1, <2>2
<1>. QED BY <1>1, <1>2, <1>3, Calling, MadeUpKeeps

\* An outcome that is durable ends the attempt: the process of c after it.
LEMMA AfterSound ==
  ASSUME TimesInv, Grows, NEW c \in Collectors, process[c].at \in Working,
         NEW a \in Outcomes, outcomeOf'[process[c].n] = a, a # Null, AfterOutcome(c, a)
  PROVE  /\ process'[c] \in Process /\ process' = [process EXCEPT ![c] = process'[c]]
         /\ process'[c].at \in {"outcome", "gather"} /\ Alone(c)
         /\ OwnSound(c)' /\ MemorySound(c)'
<1> DEFINE n == process[c].n
           attempts == Append(process[c].prior, a)
           retry == /\ RetrySafe(a) /\ n < MaximumAttempts
                    /\ ~process[c].aborted /\ Now(c) < RunDeadline
<1>1. /\ process[c] \in Process /\ n \in Tries /\ n \in Nat \ {0} /\ Remembers(c, n - 1)
      /\ process \in [Collectors -> Process] /\ intentAt # Null
  BY Memory DEF TimesInv, TimesTypeOK, MemorySound
<1>2. PICK p : p = [process[c] EXCEPT !.prior = attempts, !.own = Null,
                         !.n = IF retry THEN n + 1 ELSE n,
                         !.at = IF retry THEN "outcome" ELSE "gather"]
  OBVIOUS
<1>3. process' = [process EXCEPT ![c] = p] /\ process'[c] = p
  BY <1>1, <1>2 DEF AfterOutcome, Process
<1>4. /\ attempts \in Seq(Outcomes) /\ Len(attempts) = n /\ attempts[n] = a
      /\ \A i \in 1 .. n - 1 : attempts[i] = process[c].prior[i]
  <2>1. process[c].prior \in Seq(Outcomes) /\ Len(process[c].prior) = n - 1
    BY <1>1 DEF Process, Remembers
  <2>. QED BY <1>1, <2>1
<1>5. n + 1 \in Nat /\ (n < MaximumAttempts => n + 1 \in Tries)
  BY <1>1, AttemptTimesAssumption DEF Tries
<1>6. p \in Process
  <2> HIDE DEF attempts
  <2>. QED BY <1>1, <1>2, <1>4, <1>5 DEF Process, Points
<1>7. /\ p.prior = attempts /\ p.n = (IF retry THEN n + 1 ELSE n)
      /\ p.at = IF retry THEN "outcome" ELSE "gather"
  BY <1>1, <1>2 DEF Process
<1>8. \A i \in 1 .. n : outcomeOf'[i] # Null /\ attempts[i] = outcomeOf'[i]
  <2>1. SUFFICES ASSUME NEW i \in 1 .. n
                 PROVE  outcomeOf'[i] # Null /\ attempts[i] = outcomeOf'[i]
    OBVIOUS
  <2>2. CASE i = n BY <1>4, <2>2
  <2>3. CASE i # n
    <3>1. i \in 1 .. n - 1 /\ i \in Tries BY <1>1, <2>3, AttemptTimesAssumption DEF Tries
    <3>2. outcomeOf[i] # Null /\ process[c].prior[i] = outcomeOf[i] BY <1>1, <3>1 DEF Remembers
    <3>. QED BY <1>4, <3>1, <3>2 DEF Grows
  <2>. QED BY <2>2, <2>3
<1>9. intentAt' # Null BY <1>1 DEF Grows
<1>10. OwnSound(c)' BY <1>3, <1>7 DEF OwnSound, Stands
<1>11. MemorySound(c)'
  <2>1. CASE retry
    <3>1. p.at = "outcome" /\ p.n = n + 1 /\ p.n - 1 = n BY <1>1, <1>7, <2>1
    <3>2. Remembers(c, p.n - 1)' BY <1>3, <1>4, <1>7, <1>8, <3>1 DEF Remembers
    <3>3. RetrySafe(outcomeOf'[p.n - 1]) BY <2>1, <3>1
    <3>4. p.at \in Working /\ p.at \notin {"open", "intent", "gather"} BY <3>1 DEF Working
    <3>. QED BY <1>3, <1>9, <3>1, <3>2, <3>3, <3>4 DEF MemorySound, Stands, Remembers
  <2>2. CASE ~retry
    <3>1. p.at = "gather" /\ p.n = n BY <1>7, <2>2
    <3>2. Remembers(c, p.n)' BY <1>3, <1>4, <1>7, <1>8, <3>1 DEF Remembers
    <3>3. p.at \notin Working \cup {"open", "intent"} BY <3>1 DEF Working
    <3>. QED BY <1>3, <1>9, <3>1, <3>2, <3>3 DEF MemorySound, Stands, Remembers
  <2>. QED BY <2>1, <2>2
<1>. QED BY <1>1, <1>3, <1>6, <1>7, <1>10, <1>11 DEF Alone

LEMMA OpenAttemptKeeps ==
  ASSUME TimesInv, NEW c \in Collectors, OpenAttempt(c)
  PROVE  TimesInv' /\ OnTime
<1> DEFINE n == process[c].n
           prior == process[c].prior
           start == Later(wall[c], LastCompletion(prior))
           aborted == process[c].aborted
<1>1. Stands(c, "outcome") /\ process[c].at \in Working
      /\ UNCHANGED <<together, wall, recordVars>>
  BY DEF OpenAttempt, Stands, Working
<1>2. /\ process[c] \in Process /\ n \in Tries /\ n \in Nat \ {0} /\ wall[c] \in Nat
      /\ Reached(wall[c]) /\ intentAt \in Nat /\ Reached(intentAt) /\ Remembers(c, n - 1)
      /\ n > 1 => RetrySafe(outcomeOf[n - 1])
      /\ process \in [Collectors -> Process] /\ aborted \in BOOLEAN
      /\ prior \in Seq(Outcomes) /\ intentAt # Null
  BY <1>1, Memory DEF TimesInv, TimesTypeOK, Process, MemorySound
<1>3. LastCompletion(prior) \in Int
      /\ (n > 1 => /\ outcomeOf[n - 1] # Null /\ LastCompletion(prior) = outcomeOf[n - 1].completed
                   /\ Reached(LastCompletion(prior)))
      /\ (n = 1 => LastCompletion(prior) = -1)
  <2>1. CASE n = 1
    <3>1. Len(prior) = 0 BY <1>2, <2>1 DEF Remembers
    <3>2. prior = <<>> BY <1>2, <3>1
    <3>. QED BY <2>1, <3>2 DEF LastCompletion
  <2>2. CASE n > 1
    <3>1. n - 1 \in 1 .. n - 1 /\ n - 1 \in Tries BY <1>2, <2>2, AttemptTimesAssumption DEF Tries
    <3>2. Len(prior) = n - 1 /\ prior[n - 1] = outcomeOf[n - 1] /\ outcomeOf[n - 1] # Null
      BY <1>2, <3>1 DEF Remembers
    <3>3. prior # <<>> BY <1>2, <2>2, <3>2
    <3>4. Last(prior) = outcomeOf[n - 1] BY <3>2 DEF Last
    <3>5. outcomeOf[n - 1] \in Outcomes /\ OutcomeSound(n - 1)
      BY <3>1, <3>2 DEF TimesInv, TimesTypeOK
    <3>6. outcomeOf[n - 1].completed \in Nat /\ Reached(outcomeOf[n - 1].completed)
      BY <3>2, <3>5 DEF Outcomes, OutcomeSound, Passes
    <3>7. LastCompletion(prior) = outcomeOf[n - 1].completed BY <3>3, <3>4 DEF LastCompletion
    <3>. QED BY <2>2, <3>2, <3>6, <3>7
  <2>. QED BY <1>2, <2>1, <2>2
<1>4. start \in Nat /\ Reached(start) /\ wall[c] <= start
  BY <1>2, <1>3 DEF Later, Reached
<1>5. Begins(n, start)
  <2>1. together => intentAt <= wall[c] BY <1>2 DEF Reached
  <2>2. n > 1 => outcomeOf[n - 1].completed <= start BY <1>2, <1>3 DEF Later
  <2>3. together => intentAt <= start BY <1>2, <1>4, <2>1
  <2> HIDE DEF start
  <2>. QED BY <1>2, <1>3, <2>2, <2>3 DEF Begins
<1>6. CASE outcomeOf[n] # Null
  <2>1. PICK a \in Outcomes : a = outcomeOf[n] BY <1>2, <1>6 DEF TimesInv, TimesTypeOK
  <2>2. Passes(n, a) BY <1>2, <1>6, <2>1 DEF TimesInv, OutcomeSound
  <2>3. CASE AfterOutcome(c, a)
    <3>1. Grows BY <1>1 DEF Grows, recordVars, TimesInv, TimesTypeOK
    <3>2. /\ process'[c] \in Process /\ process' = [process EXCEPT ![c] = process'[c]]
          /\ process'[c].at \in {"outcome", "gather"} /\ Alone(c)
          /\ OwnSound(c)' /\ MemorySound(c)'
      BY <1>1, <1>6, <2>1, <2>3, <3>1, AfterSound DEF recordVars
    <3>3. PICK q \in Process : q = process'[c] BY <3>2
    <3>4. TimesInv' BY <1>1, <3>2, <3>3, ReadStepKeeps
    <3>. QED BY <3>2, <3>4 DEF OnTime, Stands, Alone
  <2>4. CASE ~OutcomeHolds(intentAt, prior, a) /\ Stop(c, "failed")
    <3>1. ~together BY <1>1, <2>2, <2>4, OutcomeAccepted
    <3>2. /\ process'[c] \in Process /\ process' = [process EXCEPT ![c] = process'[c]]
          /\ OwnSound(c)' /\ MemorySound(c)'
      BY <2>4, StopSound
    <3>3. PICK q \in Process : q = process'[c] BY <3>2
    <3>4. TimesInv' BY <1>1, <3>2, <3>3, ReadStepKeeps
    <3>. QED BY <3>1, <3>4 DEF OnTime
  <2>. QED BY <1>6, <2>1, <2>3, <2>4 DEF OpenAttempt
<1>7. CASE leaseOf[n] # Null /\ Defer(c, leaseOf[n]) BY <1>1, <1>7, DeferKeeps
<1>8. ASSUME NEW category \in {"transient", "lasting"},
             Propose(c, Synthetic(start, start, "not_sent", category, aborted))
      PROVE  TimesInv' /\ OnTime
  BY <1>1, <1>2, <1>4, <1>5, <1>8, MadeUpKeeps
<1>9. CASE /\ start < RunDeadline
           /\ process' = [process EXCEPT ![c].at = "prepare", ![c].own =
                 [issued |-> start, expires |-> Earlier(RunDeadline, start + AttemptLimit)]]
  <2>1. PICK lease : lease = [issued |-> start,
                              expires |-> Earlier(RunDeadline, start + AttemptLimit)]
    OBVIOUS
  <2>2. RunDeadline \in Nat /\ AttemptLimit \in Nat BY AttemptTimesAssumption
  <2>3. /\ lease.issued = start /\ lease \in Leases
        /\ lease.expires <= RunDeadline /\ lease.expires <= start + AttemptLimit
    <3> HIDE DEF start
    <3>. QED BY <1>4, <2>1, <2>2 DEF Leases, Earlier
  <2>4. Proposed(n, lease)
    <3> HIDE DEF start
    <3>. QED BY <1>4, <1>5, <2>3 DEF Proposed
  <2>5. process' = [process EXCEPT ![c] = [@ EXCEPT !.at = "prepare", !.own = lease]]
    <3> HIDE DEF start
    <3>. QED BY <1>2, <1>9, <2>1 DEF Process
  <2>6. PICK at \in Working : at = "prepare" BY DEF Working
  <2>7. process' = [process EXCEPT ![c] = [@ EXCEPT !.at = at, !.own = lease]] BY <2>5, <2>6
  <2>8. lease \in Nat \cup Leases \cup Outcomes \cup {Null} BY <2>3
  <2> HIDE DEF start
  <2>. QED BY <1>1, <2>4, <2>6, <2>7, <2>8, AdvanceKeeps
<1>10. CASE outcomeOf[n] = Null /\ leaseOf[n] = Null
  <2>1. IF aborted \/ start >= RunDeadline
        THEN Propose(c, Synthetic(start, start, "not_sent",
                            IF aborted THEN "lasting" ELSE "transient", aborted))
        ELSE process' = [process EXCEPT ![c].at = "prepare", ![c].own =
                 [issued |-> start, expires |-> Earlier(RunDeadline, start + AttemptLimit)]]
    BY <1>10 DEF OpenAttempt, Now
  <2>2. CASE aborted \/ start >= RunDeadline
    <3>1. PICK category \in {"transient", "lasting"} :
             category = IF aborted THEN "lasting" ELSE "transient"
      OBVIOUS
    <3> HIDE DEF start
    <3>. QED BY <1>8, <2>1, <2>2, <3>1
  <2>3. CASE ~(aborted \/ start >= RunDeadline)
    <3>1. start < RunDeadline BY <1>4, <2>3, AttemptTimesAssumption
    <3> HIDE DEF start
    <3>. QED BY <1>9, <2>1, <2>3, <3>1
  <2>. QED BY <2>2, <2>3
<1>. QED BY <1>6, <1>7, <1>10 DEF OpenAttempt

LEMMA WriteLeaseKeeps ==
  ASSUME TimesInv, NEW c \in Collectors, WriteLease(c)
  PROVE  TimesInv' /\ OnTime
<1> DEFINE n == process[c].n
           own == process[c].own
<1>1. Stands(c, "lease") /\ process[c].at \in Working
      /\ UNCHANGED <<together, wall, intentAt, outcomeOf, gathered>>
  BY DEF WriteLease, Stands, Working
<1>2. /\ process[c] \in Process /\ n \in Tries /\ TimesTypeOK /\ OwnSound(c) /\ MemorySound(c)
      /\ process \in [Collectors -> Process]
  BY <1>1, Memory DEF TimesInv, TimesTypeOK
<1>3. CASE leaseOf[n] # Null
  BY <1>1, <1>3, DeferKeeps DEF WriteLease, recordVars
<1>4. CASE leaseOf[n] = Null
  <2>1. own \in Leases /\ Proposed(n, own) /\ own.issued < own.expires
    BY <1>1, <1>2 DEF OwnSound, Stands, Proposed
  <2>2. LeaseHolds(own)
    <3>1. own.issued \in Nat /\ own.expires \in Nat /\ AttemptLimit \in Nat
      BY <2>1, AttemptTimesAssumption DEF Leases
    <3>2. own.expires <= own.issued + AttemptLimit /\ own.expires <= RunDeadline
      BY <2>1 DEF Proposed
    <3>3. own.expires - own.issued <= AttemptLimit BY <3>1, <3>2
    <3>. QED BY <2>1, <3>2, <3>3 DEF LeaseHolds
  <2>3. leaseOf' = [leaseOf EXCEPT ![n] = own] /\ Go(c, "turn")
    BY <1>4, <2>2 DEF WriteLease
  <2>4. PICK p : p = [process[c] EXCEPT !.at = "turn"] OBVIOUS
  <2>5. /\ p \in Process /\ p.at = "turn" /\ p.n = n /\ p.prior = process[c].prior
        /\ process' = [process EXCEPT ![c] = p] /\ process'[c] = p
    BY <1>2, <2>3, <2>4 DEF Go, Process, Points
  <2>6. leaseOf'[n] = own /\ own # Null BY <1>2, <2>1, <2>3, AbsenceAssumption DEF TimesTypeOK
  <2>7. TimesTypeOK' BY <1>1, <1>2, <2>1, <2>3, <2>5 DEF TimesTypeOK
  <2>8. Grows /\ Alone(c) BY <1>1, <1>2, <1>4, <2>3, <2>5 DEF Grows, Alone, TimesTypeOK
  <2>9. ClocksAgree' /\ IntentSound'
    BY <1>1, <2>7, <2>8, IntentKept DEF TimesInv, ClocksAgree
  <2>10. \A m \in Tries : LeaseSound(m)' /\ OutcomeSound(m)'
    <3>1. \A m \in Tries : OutcomeSound(m)' BY <1>1, <2>7, <2>8, OutcomeKept
    <3>2. PICK k \in Tries : k = n BY <1>2
    <3>3. \A m \in Tries \ {k} : LeaseSound(m)'
      <4>1. \A m \in Tries \ {k} : leaseOf'[m] = leaseOf[m] BY <1>2, <2>3, <3>2 DEF TimesTypeOK
      <4>. QED BY <2>7, <2>8, <4>1, LeaseKept
    <3>4. LeaseSound(k)'
      <4>1. PICK l : l = own OBVIOUS
      <4>2. LeaseHolds(l) /\ Begins(k, l.issued) /\ Reached(l.issued)
        BY <2>1, <2>2, <3>2, <4>1 DEF Proposed
      <4>3. LeaseHolds(l) /\ Begins(k, l.issued)' /\ Reached(l.issued)'
        BY <1>1, <4>2 DEF Begins, Reached
      <4>4. leaseOf'[k] = l BY <2>6, <3>2, <4>1
      <4>. QED BY <4>3, <4>4 DEF LeaseSound, LeaseHolds, Begins, Reached
    <3>. QED BY <3>1, <3>3, <3>4
  <2>11. OwnSound(c)' BY <2>5, <2>6 DEF OwnSound, Stands
  <2>12. MemorySound(c)'
    <3>1. p.at \in Working /\ p.at \notin {"open", "intent", "gather"} BY <2>5 DEF Working
    <3>. QED BY <1>1, <1>2, <2>5, <3>1 DEF MemorySound, Stands, Remembers
  <2>13. TimesInv' BY <2>7, <2>8, <2>9, <2>10, <2>11, <2>12, StepKeeps
  <2>. QED BY <2>5, <2>8, <2>13 DEF OnTime, Stands, Alone
<1>. QED BY <1>3, <1>4

LEMMA PersistKeeps ==
  ASSUME TimesInv, NEW c \in Collectors, PersistOutcome(c)
  PROVE  TimesInv' /\ OnTime
<1>1. PICK n, own : n = process[c].n /\ own = process[c].own OBVIOUS
<1>2. /\ Stands(c, "persist") /\ process[c].at \in Working
      /\ UNCHANGED <<together, wall, intentAt, leaseOf, gathered>>
      /\ TimesTypeOK /\ n \in Tries /\ process[c].n = n /\ process \in [Collectors -> Process]
      /\ own \in Outcomes /\ Passes(n, own) /\ own # Null
  BY <1>1, Memory, AbsenceAssumption DEF PersistOutcome, Stands, Working, TimesInv, TimesTypeOK,
     OwnSound
<1>3. PICK stored : stored = IF outcomeOf[n] = Null THEN own ELSE outcomeOf[n] OBVIOUS
<1>4. stored \in Outcomes /\ stored # Null /\ Passes(n, stored)
      /\ (outcomeOf[n] # Null => stored = outcomeOf[n])
  BY <1>2, <1>3 DEF TimesInv, TimesTypeOK, OutcomeSound
<1>5. ASSUME ~OutcomeHolds(intentAt, process[c].prior, own) PROVE ~together
  BY <1>2, <1>5, OutcomeAccepted
<1>6. ASSUME ~OutcomeHolds(intentAt, process[c].prior, stored) PROVE ~together
  BY <1>2, <1>4, <1>6, OutcomeAccepted
<1>7. CASE ~OutcomeHolds(intentAt, process[c].prior, own)
  <2>1. Stop(c, "failed") /\ UNCHANGED outcomeOf BY <1>1, <1>7 DEF PersistOutcome
  <2>2. /\ process'[c] \in Process /\ process' = [process EXCEPT ![c] = process'[c]]
        /\ OwnSound(c)' /\ MemorySound(c)'
    BY <2>1, StopSound
  <2>3. PICK q \in Process : q = process'[c] BY <2>2
  <2>4. TimesInv' BY <1>2, <2>1, <2>2, <2>3, ReadStepKeeps DEF recordVars
  <2>. QED BY <1>5, <1>7, <2>4 DEF OnTime
<1>8. CASE OutcomeHolds(intentAt, process[c].prior, own)
  <2>1. /\ outcomeOf' = [outcomeOf EXCEPT ![n] = stored]
        /\ IF OutcomeHolds(intentAt, process[c].prior, stored)
           THEN AfterOutcome(c, stored) ELSE Stop(c, "failed")
    BY <1>1, <1>3, <1>8 DEF PersistOutcome
  <2>2. /\ outcomeOf' \in [Tries -> Outcomes \cup {Null}] /\ outcomeOf'[n] = stored
        /\ \A m \in Tries \ {n} : outcomeOf'[m] = outcomeOf[m]
    BY <1>2, <1>4, <2>1 DEF TimesTypeOK
  <2>3. Grows BY <1>2, <1>4, <2>2 DEF Grows, TimesTypeOK
  <2>4. /\ process'[c] \in Process /\ process' = [process EXCEPT ![c] = process'[c]]
        /\ Alone(c) /\ OwnSound(c)' /\ MemorySound(c)'
        /\ together => process'[c].at # "failed"
    <3>1. CASE AfterOutcome(c, stored) BY <1>2, <1>4, <2>2, <2>3, <3>1, AfterSound
    <3>2. CASE ~together /\ Stop(c, "failed") BY <3>2, StopSound
    <3>. QED BY <1>6, <2>1, <3>1, <3>2
  <2>5. process' \in [Collectors -> Process] BY <1>2, <2>4
  <2>6. TimesTypeOK' BY <1>2, <2>2, <2>5 DEF TimesTypeOK
  <2>7. ClocksAgree' /\ IntentSound'
    BY <1>2, <2>3, <2>6, IntentKept DEF TimesInv, ClocksAgree
  <2>8. \A m \in Tries : LeaseSound(m)' BY <1>2, <2>3, <2>6, LeaseKept
  <2>9. \A m \in Tries \ {n} : OutcomeSound(m)' BY <2>2, <2>3, <2>6, OutcomeKept
  <2>10. OutcomeSound(n)'
    <3>1. Passes(n, stored)' BY <1>2, <1>4, <2>3, <2>6, PassesKept
    <3>. QED BY <2>2, <3>1 DEF OutcomeSound, Passes, AttemptHolds, Begins, Reached
  <2>11. TimesInv' BY <2>3, <2>4, <2>6, <2>7, <2>8, <2>9, <2>10, StepKeeps
  <2>. QED BY <2>4, <2>11 DEF OnTime, Stands, Alone
<1>. QED BY <1>7, <1>8

LEMMA GatherKeeps ==
  ASSUME TimesInv, NEW c \in Collectors, Gather(c)
  PROVE  TimesInv' /\ OnTime
<1>1. /\ Stands(c, "gather") /\ UNCHANGED <<together, wall, intentAt, leaseOf, outcomeOf>>
      /\ TimesTypeOK /\ wall[c] \in Nat
  BY DEF Gather, TimesInv, TimesTypeOK
<1>2. PICK point \in {"gathered", "failed"} :
         /\ Stop(c, point)
         /\ point = "failed" =>
               ~TraceHolds(intentAt, process[c].prior,
                           Later(Now(c), Last(process[c].prior).completed))
  BY DEF Gather
<1>3. /\ process'[c] \in Process /\ process' \in [Collectors -> Process]
      /\ process'[c].at = point /\ Alone(c) /\ OwnSound(c)' /\ MemorySound(c)'
  BY <1>2, StopSound
<1>4. TimesTypeOK' /\ Grows BY <1>1, <1>3 DEF TimesTypeOK, Grows
<1>5. ClocksAgree' /\ IntentSound' BY <1>1, <1>4, IntentKept DEF TimesInv, ClocksAgree
<1>6. \A n \in Tries : LeaseSound(n)' /\ OutcomeSound(n)'
  BY <1>1, <1>4, LeaseKept, OutcomeKept
<1>7. TimesInv' BY <1>3, <1>4, <1>5, <1>6, StepKeeps
<1>8. together /\ point = "failed" => ~(Now(c) < CollectionEnd) BY <1>1, <1>2, TraceAccepted
<1>9. OnTime
  <2>1. together /\ point = "failed" => Now(c) >= CollectionEnd
    BY <1>1, <1>8, AttemptTimesAssumption DEF Now
  <2>. QED BY <1>1, <1>3, <2>1 DEF OnTime, Stands, Alone
<1>. QED BY <1>7, <1>9

\* Every step keeps the invariant and is on time.
LEMMA TimesStep == TimesInv /\ [TimesNext]_timesVars => TimesInv' /\ OnTime
<1>. SUFFICES ASSUME TimesInv, [TimesNext]_timesVars PROVE TimesInv' /\ OnTime OBVIOUS
<1>1. CASE WallAdvances BY <1>1, WallKeeps
<1>2. ASSUME NEW c \in Collectors,
             \/ Cancel(c) \/ OpenJob(c) \/ WriteIntent(c) \/ OpenAttempt(c)
             \/ PrepareFails(c) \/ IssueLease(c) \/ WriteLease(c) \/ Dispatch(c)
             \/ Answer(c) \/ CallFails(c) \/ GiveUp(c) \/ PersistOutcome(c) \/ Gather(c)
      PROVE  TimesInv' /\ OnTime
  BY <1>2, CancelKeeps, OpenJobKeeps, WriteIntentKeeps, OpenAttemptKeeps, PrepareFailsKeeps,
     IssueLeaseKeeps, WriteLeaseKeeps, DispatchKeeps, AnswerKeeps, EndCallKeeps, PersistKeeps,
     GatherKeeps
<1>3. CASE UNCHANGED timesVars
  <2>1. Grows /\ TimesTypeOK'
    BY <1>3 DEF timesVars, Grows, TimesInv, TimesTypeOK
  <2>2. ClocksAgree' /\ IntentSound'
    BY <1>3, <2>1, IntentKept DEF timesVars, TimesInv, ClocksAgree
  <2>3. \A n \in Tries : LeaseSound(n)' /\ OutcomeSound(n)'
    BY <1>3, <2>1, LeaseKept, OutcomeKept DEF timesVars
  <2>4. \A c \in Collectors : OwnSound(c)' /\ MemorySound(c)'
    BY <1>3, <2>1, IdleKept DEF timesVars
  <2>. QED BY <1>3, <2>1, <2>2, <2>3, <2>4 DEF TimesInv, OnTime, Stands, timesVars
<1>. QED BY <1>1, <1>2, <1>3 DEF TimesNext

\* As long as the clocks agree no check that an execution makes of a record,
\* its own or another's, fails: a job fails only where it is gathered after the
\* protocol's end (validateOutcomeRecord, validateLeaseRecord and
\* parseAcceptedRecord in src/runtime/shadow.ts).
THEOREM NoCheckFails == TimesSpec => OnlyLateCollectionFails
<1>1. TimesInv /\ [TimesNext]_timesVars =>
         [\A c \in Collectors :
             (together /\ Stands(c, "failed")' /\ ~Stands(c, "failed"))
                 => Stands(c, "gather") /\ Now(c) >= CollectionEnd]_timesVars
  BY TimesStep DEF OnTime
<1>2. TimesInv /\ [TimesNext]_timesVars => TimesInv' BY TimesStep
<1>. QED BY <1>1, <1>2, TimesStart, PTL DEF TimesSpec, OnlyLateCollectionFails

=============================================================================
