---------------------------- MODULE ArtifactStore ----------------------------
(***************************************************************************)
(* One record of the run directory: the packet writer of src/artifacts.ts  *)
(* and persistRecord of src/runtime/shadow.ts, which calls it.             *)
(*                                                                         *)
(* A writer stages the packet in a directory of its own, seals it with the *)
(* manifest, flushes it, renames it to the target and flushes the parent   *)
(* directory.  Writers of one target race; any file operation may fail; a  *)
(* process may die and leave its staging directory; and a loss of power    *)
(* undoes what was not flushed.  persistRecord turns both an error and a   *)
(* success of the writer into the packet found at the target.              *)
(*                                                                         *)
(* Checks of identity, mode and custody of the paths compare what nobody   *)
(* but the writers changes here, so they pass; a check that fails for an   *)
(* outside reason is a failed operation.                                   *)
(***************************************************************************)
EXTENDS FiniteSets

CONSTANTS
    Writers,   \* calls of persistRecord for this target, by any process
    Packets,   \* packet digests
    NoPacket,  \* nothing at the target
    Torn       \* a target directory whose content was lost

ASSUME TornAssumption ==
    Torn \notin Packets \cup {NoPacket} /\ NoPacket \notin Packets

VARIABLES
    supported,      \* the filesystem implements fsync
    packet,         \* packet[w]: what w intends to write, once it began
    target,         \* what a reader finds at the target
    contentSynced,  \* the target directory's content is on disk
    nameSynced,     \* the rename to the target is on disk
    staging,        \* staging[w]: the staging directory of w
    writerAt,       \* where w is
    result,         \* what writeArtifactPacketOrVerifyIdentical told w
    winner,         \* the record persistRecord gave w
    acked           \* history: writers ever told "written"

storeVars == <<supported, packet, target, contentSynced, nameSynced, staging,
               writerAt, result, winner, acked>>

disk == <<target, contentSynced, nameSynced>>

\* Steps that touch the filesystem and may fail.
IOSteps == {"read", "check", "open", "fill", "seal", "sync", "recheck", "rename",
            "confirm", "syncParent", "reread"}

WriterEnded == {"returned", "failed", "dead"}

StoreTypeOK ==
    /\ supported \in BOOLEAN
    /\ packet \in [Writers -> Packets \cup {NoPacket}]
    /\ target \in Packets \cup {NoPacket, Torn}
    /\ contentSynced \in BOOLEAN
    /\ nameSynced \in BOOLEAN
    /\ staging \in [Writers -> {"none", "open", "filled", "sealed", "synced"}]
    /\ writerAt \in [Writers -> IOSteps \cup WriterEnded \cup {"idle", "winner"}]
    /\ result \in [Writers -> {"none", "written", "verified-identical",
                               "conflict", "error"}]
    /\ winner \in [Writers -> Packets \cup {NoPacket}]
    /\ acked \subseteq Writers

StoreInit ==
    /\ supported \in BOOLEAN
    /\ packet = [w \in Writers |-> NoPacket]
    /\ target = NoPacket
    /\ contentSynced = FALSE
    /\ nameSynced = FALSE
    /\ staging = [w \in Writers |-> "none"]
    /\ writerAt = [w \in Writers |-> "idle"]
    /\ result = [w \in Writers |-> "none"]
    /\ winner = [w \in Writers |-> NoPacket]
    /\ acked = {}

-----------------------------------------------------------------------------
Goto(w, step) == writerAt' = [writerAt EXCEPT ![w] = step]

\* The writer's call ends with this result.
Finish(w, res) ==
    /\ Goto(w, "winner")
    /\ result' = [result EXCEPT ![w] = res]

\* Faulty variant of Judge: any complete packet will do.
JudgeAny(w) == Finish(w, "verified-identical")

\* matchingPacketResult, of a packet found at the target.
Judge(w) ==
    Finish(w, CASE target = packet[w] -> "verified-identical"
                [] target = Torn -> "error"
                [] OTHER -> "conflict")

\* safeCleanupStaging, which may itself fail and then leaves the directory.
CleanUp(w) == staging' \in {staging, [staging EXCEPT ![w] = "none"]}

\* The target exists after all: look at it again, if the cleanup succeeds.
Collide(w) ==
    /\ CleanUp(w)
    /\ IF staging'[w] = "none"
       THEN Goto(w, "reread") /\ UNCHANGED result
       ELSE Finish(w, "error")

-----------------------------------------------------------------------------
(* writeArtifactPacketOrVerifyIdentical.                                   *)

BeginWrite(w) ==
    /\ writerAt[w] = "idle"
    /\ \E p \in Packets : packet' = [packet EXCEPT ![w] = p]
    /\ Goto(w, "read")
    /\ UNCHANGED <<supported, disk, staging, result, winner, acked>>

ReadTarget(w) ==
    /\ writerAt[w] = "read"
    /\ IF target = NoPacket THEN Goto(w, "check") /\ UNCHANGED result ELSE Judge(w)
    /\ UNCHANGED <<supported, packet, disk, staging, winner, acked>>

CheckAbsent(w) ==
    /\ writerAt[w] = "check"
    /\ IF target = NoPacket
       THEN Goto(w, "open") /\ UNCHANGED <<staging, result>>
       ELSE Collide(w)
    /\ UNCHANGED <<supported, packet, disk, winner, acked>>

\* The parent directory is flushed, with what others renamed into it, and a
\* staging directory is created.
OpenStaging(w) ==
    /\ writerAt[w] = "open"
    /\ nameSynced' = (nameSynced \/ (supported /\ target # NoPacket))
    /\ staging' = [staging EXCEPT ![w] = "open"]
    /\ Goto(w, "fill")
    /\ UNCHANGED <<supported, packet, target, contentSynced, result, winner,
                   acked>>

\* Payloads, and then the manifest last.
FillStaging(w) ==
    /\ writerAt[w] = "fill"
    /\ staging' = [staging EXCEPT ![w] = "filled"]
    /\ Goto(w, "seal")
    /\ UNCHANGED <<supported, packet, disk, result, winner, acked>>

SealStaging(w) ==
    /\ writerAt[w] = "seal"
    /\ staging' = [staging EXCEPT ![w] = "sealed"]
    /\ Goto(w, "sync")
    /\ UNCHANGED <<supported, packet, disk, result, winner, acked>>

\* The staging directory is verified and flushed, where flushing is supported.
SyncStaging(w) ==
    /\ writerAt[w] = "sync"
    /\ staging' = [staging EXCEPT ![w] = IF supported THEN "synced" ELSE @]
    /\ Goto(w, "recheck")
    /\ UNCHANGED <<supported, packet, disk, result, winner, acked>>

Recheck(w) ==
    /\ writerAt[w] = "recheck"
    /\ IF target = NoPacket
       THEN Goto(w, "rename") /\ UNCHANGED <<staging, result>>
       ELSE Collide(w)
    /\ UNCHANGED <<supported, packet, disk, winner, acked>>

\* Faulty variant of Rename: an existing target is replaced.
RenameOver(w) ==
    /\ writerAt[w] = "rename"
    /\ target' = packet[w]
    /\ contentSynced' = (staging[w] = "synced")
    /\ nameSynced' = FALSE
    /\ staging' = [staging EXCEPT ![w] = "none"]
    /\ Goto(w, "confirm")
    /\ UNCHANGED <<supported, packet, result, winner, acked>>

\* rename(2) of a directory fails when the target is one that is not empty.
Rename(w) ==
    /\ writerAt[w] = "rename"
    /\ IF target = NoPacket
       THEN /\ target' = packet[w]
            /\ contentSynced' = (staging[w] = "synced")
            /\ nameSynced' = FALSE
            /\ staging' = [staging EXCEPT ![w] = "none"]
            /\ Goto(w, "confirm")
            /\ UNCHANGED result
       ELSE /\ Collide(w)
            /\ UNCHANGED disk
    /\ UNCHANGED <<supported, packet, winner, acked>>

\* The published packet is verified once more.
ConfirmTarget(w) ==
    /\ writerAt[w] = "confirm"
    /\ Goto(w, "syncParent")
    /\ UNCHANGED <<supported, packet, disk, staging, result, winner, acked>>

\* Faulty variant of SyncParent: the rename is not flushed.
SyncNoParent(w) ==
    /\ writerAt[w] = "syncParent"
    /\ acked' = acked \cup {w}
    /\ Finish(w, "written")
    /\ UNCHANGED <<supported, packet, disk, staging, winner>>

SyncParent(w) ==
    /\ writerAt[w] = "syncParent"
    /\ nameSynced' = (nameSynced \/ supported)
    /\ acked' = acked \cup {w}
    /\ Finish(w, "written")
    /\ UNCHANGED <<supported, packet, target, contentSynced, staging, winner>>

\* The winner of a collision, or the collision itself when it is gone again.
Reread(w) ==
    /\ writerAt[w] = "reread"
    /\ IF target = NoPacket THEN Finish(w, "error") ELSE Judge(w)
    /\ UNCHANGED <<supported, packet, disk, staging, winner, acked>>

\* An operation fails; before the publication, the staging directory goes too.
OperationFails(w) ==
    /\ writerAt[w] \in IOSteps
    /\ CleanUp(w)
    /\ Finish(w, "error")
    /\ UNCHANGED <<supported, packet, disk, winner, acked>>

-----------------------------------------------------------------------------
(* persistRecord.                                                          *)

\* Success or error, the complete packet at the target is the record; reading
\* it may fail, or find none.
ReadWinner(w) ==
    /\ writerAt[w] = "winner"
    /\ \/ /\ target \in Packets
          /\ winner' = [winner EXCEPT ![w] = target]
          /\ Goto(w, "returned")
       \/ /\ Goto(w, "failed")
          /\ UNCHANGED winner
    /\ UNCHANGED <<supported, packet, disk, staging, result, acked>>

-----------------------------------------------------------------------------
(* Failures of the world.                                                  *)

WriterCrash(w) ==
    /\ writerAt[w] \notin WriterEnded \cup {"idle"}
    /\ Goto(w, "dead")
    /\ UNCHANGED <<supported, packet, disk, staging, result, winner, acked>>

\* Every process dies; an unflushed rename may be undone, and an unflushed
\* directory may come back without its content.
PowerLoss ==
    /\ target # NoPacket
    /\ LET kept == IF contentSynced THEN {target} ELSE {target, Torn}
       IN  target' \in IF nameSynced THEN kept ELSE kept \cup {NoPacket}
    /\ contentSynced' = TRUE
    /\ nameSynced' = TRUE
    /\ writerAt' = [w \in Writers |-> IF writerAt[w] = "idle" THEN "idle" ELSE "dead"]
    /\ result' = [w \in Writers |-> "none"]
    /\ winner' = [w \in Writers |-> NoPacket]
    /\ UNCHANGED <<supported, packet, staging, acked>>

WriterStep(w) ==
    \/ BeginWrite(w) \/ ReadTarget(w) \/ CheckAbsent(w) \/ OpenStaging(w)
    \/ FillStaging(w) \/ SealStaging(w) \/ SyncStaging(w) \/ Recheck(w)
    \/ Rename(w) \/ ConfirmTarget(w)
    \/ SyncParent(w) \/ Reread(w) \/ OperationFails(w) \/ ReadWinner(w)

StoreNext == PowerLoss \/ \E w \in Writers : WriterStep(w) \/ WriterCrash(w)

StoreSpec == StoreInit /\ [][StoreNext]_storeVars

-----------------------------------------------------------------------------
(* Properties.                                                             *)

\* A call is told the truth about the target, and only one of them that it was
\* the one who wrote it.
TruthfulResult ==
    /\ \A w \in Writers :
          /\ result[w] \in {"written", "verified-identical"}
                => target = packet[w]
          /\ result[w] = "conflict" => target \notin {NoPacket, packet[w]}
    /\ \A v, w \in Writers :
          result[v] = "written" /\ result[w] = "written" => v = w

\* Where flushing works, a power loss leaves the whole packet or nothing for a
\* reader to find, whatever it interrupted, and a packet that was reported as
\* written is never lost or replaced.
WrittenSurvives ==
    [][supported => target' # Torn /\ (acked # {} => target' = target)]_storeVars

\* The record is the atomic write-once record the shadow runner takes it for.
WriteOnce == INSTANCE WriteOnceRecord WITH None <- NoPacket,
    value <- IF target = Torn THEN NoPacket ELSE target, answered <- winner
ImplementsWriteOnce == WriteOnce!RecordSpec

-----------------------------------------------------------------------------
(* A claim of the documentation that the code does not keep.               *)

\* docs/threat-model.md: "the lease is durable before network dispatch".  A
\* runner dispatches once persistRecord returned the lease it intended.
ActedOnDurableRecord ==
    \A w \in Writers :
        (supported /\ winner[w] # NoPacket /\ winner[w] = packet[w]) => nameSynced

=============================================================================
