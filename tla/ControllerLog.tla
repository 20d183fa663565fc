--------------------------- MODULE ControllerLog -----------------------------
(***************************************************************************)
(* The event chain of a controller and its replay: the second half of      *)
(* src/controller.ts.  Controller says which facts a snapshot admits; this *)
(* module says which snapshot a process may hold.                          *)
(*                                                                         *)
(* A snapshot is live when this process built it, or verified it: only     *)
(* then may it be extended.  Nothing makes a snapshot that was extended    *)
(* stop being live, so a caller that keeps it can fork the chain.  What a  *)
(* replay is given (a journal) may repeat, lose and reorder events, and    *)
(* mix the events of forks.  A restart forgets which snapshots were live,  *)
(* which decisions were authentic, and which events were seen.             *)
(*                                                                         *)
(* An event's id covers its fact and its predecessor's id, so an id is the *)
(* sequence of all facts up to it.  A snapshot's body is the sequence of   *)
(* facts that were folded into it; that it is the one its last event names *)
(* is a claim, checked below.                                              *)
(***************************************************************************)
EXTENDS Naturals, Sequences, FiniteSets

CONSTANTS
    Facts,          \* controller facts
    DecisionFacts,      \* those that record an assessment decision
    Retirement,     \* the fact after which none is admitted
    NoReplay,
    MaxSequence,    \* MAX_CONTROLLER_EVENTS, of a chain
    MaxReplay,      \* MAX_CONTROLLER_EVENTS, of the array given to a replay
    MaxEmitted,     \* bound: events ever appended
    MaxLive         \* bound: snapshots a process keeps

ASSUME ControllerLogAssumption ==
    /\ DecisionFacts \subseteq Facts /\ Retirement \in Facts
    /\ {MaxSequence, MaxReplay, MaxEmitted, MaxLive} \subseteq Nat \ {0}

VARIABLES
    emitted,      \* ids of the events that appendLiveFact returned, ever
    live,         \* snapshots in liveControllerSnapshots, with their history
    checkpoints,  \* serialized snapshots, each pinned outside the process
    authentic,    \* decisions this process computed
    replay        \* the replay under way; it runs without interruption

logVars == <<emitted, live, checkpoints, authentic, replay>>

Genesis == [body |-> <<>>, last |-> <<>>, seen |-> {}]

\* The parts an event's id covers.
SequenceOf(event) == Len(event)
FactOf(event) == event[Len(event)]
PredecessorOf(event) == SubSeq(event, 1, Len(event) - 1)

\* event is in the chain that ends in last.
Precedes(event, last) ==
    Len(event) <= Len(last) /\ event = SubSeq(last, 1, Len(event))

\* applyParsedControllerEvent, as far as it depends on the state folded so far.
Admits(snapshot, fact) ==
    /\ \A i \in 1..Len(snapshot.body) : snapshot.body[i] # Retirement
    /\ fact \in DecisionFacts => fact \in authentic

\* Faulty variant: only the sequence number is compared.
ExtendsChainByNumber(snapshot, event) ==
    SequenceOf(event) = Len(snapshot.body) + 1

\* assertEventEnvelope.
ExtendsChain(snapshot, event) ==
    /\ SequenceOf(event) = Len(snapshot.body) + 1
    /\ PredecessorOf(event) = snapshot.last

Applied(snapshot, event) ==
    [body |-> Append(snapshot.body, FactOf(event)), last |-> event,
     seen |-> snapshot.seen \cup {event}]

LogInit ==
    /\ emitted = {}
    /\ live = {}
    /\ checkpoints = {}
    /\ authentic = {}
    /\ replay = NoReplay

-----------------------------------------------------------------------------
(* Live commands.                                                          *)

Create ==
    /\ replay = NoReplay
    /\ Cardinality(live) < MaxLive
    /\ live' = live \cup {Genesis}
    /\ UNCHANGED <<emitted, checkpoints, authentic, replay>>

\* The assessor computes, or after a restart recomputes, a decision.
RecordDecision(decision) ==
    /\ replay = NoReplay
    /\ authentic' = authentic \cup {decision}
    /\ UNCHANGED <<emitted, live, checkpoints, replay>>

\* appendLiveFact.  The caller may keep the snapshot it extended.
AppendFact(snapshot, fact, keep) ==
    LET event == Append(snapshot.last, fact)
        rest == IF keep THEN live ELSE live \ {snapshot}
    IN  /\ replay = NoReplay
        /\ Len(snapshot.body) < MaxSequence
        /\ Admits(snapshot, fact)
        /\ Cardinality(emitted \cup {event}) <= MaxEmitted
        /\ Cardinality(rest \cup {Applied(snapshot, event)}) <= MaxLive
        /\ emitted' = emitted \cup {event}
        /\ live' = rest \cup {Applied(snapshot, event)}
        /\ UNCHANGED <<checkpoints, authentic, replay>>

\* The caller serializes a snapshot and pins what it serialized.
Checkpoint(snapshot) ==
    /\ replay = NoReplay
    /\ checkpoints' = {[body |-> snapshot.body, last |-> snapshot.last]}
    /\ UNCHANGED <<emitted, live, authentic, replay>>

\* The process ends and another starts.
Restart ==
    /\ live' = {}
    /\ authentic' = {}
    /\ replay' = NoReplay
    /\ UNCHANGED <<emitted, checkpoints>>

-----------------------------------------------------------------------------
(* Replay: one step per event of the given array.                          *)

Replaying(snapshot, target) ==
    [snapshot |-> snapshot, target |-> target, delivered |-> {}, taken |-> 0]

\* replayController: from a live, empty genesis.
StartReplay ==
    /\ replay = NoReplay
    /\ Genesis \in live
    /\ replay' = Replaying(Genesis, NoReplay)
    /\ UNCHANGED <<emitted, live, checkpoints, authentic>>

\* resumeController with the complete prefix: replay it, then compare.
StartPrefix(checkpoint) ==
    /\ replay = NoReplay
    /\ Genesis \in live
    /\ replay' = Replaying(Genesis, checkpoint)
    /\ UNCHANGED <<emitted, live, checkpoints, authentic>>

\* resumeController with the pinned anchor: the history is lost.
StartFromAnchor(checkpoint) ==
    /\ replay = NoReplay
    /\ replay' = Replaying([body |-> checkpoint.body, last |-> checkpoint.last,
                            seen |-> {}], NoReplay)
    /\ UNCHANGED <<emitted, live, checkpoints, authentic>>

\* Faulty variant of IsKnown: whatever is not beyond the snapshot is skipped.
IsKnownByNumber(snapshot, event) ==
    SequenceOf(event) <= Len(snapshot.body)

\* An event seen before, or the one the snapshot ends in, is skipped.
IsKnown(snapshot, event) ==
    \/ event \in snapshot.seen
    \/ event = snapshot.last /\ SequenceOf(event) = Len(snapshot.body)

Skip(event) ==
    /\ IsKnown(replay.snapshot, event)
    /\ replay' = [replay EXCEPT !.snapshot.seen = @ \cup {event},
                                !.delivered = @ \cup {event},
                                !.taken = @ + 1]

Apply(event) ==
    /\ ~IsKnown(replay.snapshot, event)
    /\ ExtendsChain(replay.snapshot, event)
    /\ Admits(replay.snapshot, FactOf(event))
    /\ replay' = [replay EXCEPT !.snapshot = Applied(@, event),
                                !.delivered = @ \cup {event},
                                !.taken = @ + 1]

\* Anything else throws: the replay leaves nothing behind.
Refuse(event) ==
    /\ ~IsKnown(replay.snapshot, event)
    /\ ~(ExtendsChain(replay.snapshot, event) /\ Admits(replay.snapshot, FactOf(event)))
    /\ replay' = NoReplay

\* An array longer than MaxReplay is refused before its first event.
Deliver(event) ==
    /\ replay # NoReplay
    /\ replay.taken < MaxReplay
    /\ Skip(event) \/ Apply(event) \/ Refuse(event)
    /\ UNCHANGED <<emitted, live, checkpoints, authentic>>

\* verifyControllerCheckpoint: the prefix must lead to the checkpoint.  The
\* suffix is an array of its own, and the events of the prefix stay known.
PrefixDone ==
    /\ replay # NoReplay
    /\ replay.target # NoReplay
    /\ replay' =
          IF /\ replay.snapshot.body = replay.target.body
             /\ replay.snapshot.last = replay.target.last
          THEN [replay EXCEPT !.target = NoReplay, !.taken = 0]
          ELSE NoReplay
    /\ UNCHANGED <<emitted, live, checkpoints, authentic>>

\* The result is live.
ReplayDone ==
    /\ replay # NoReplay
    /\ replay.target = NoReplay
    /\ Cardinality(live \cup {replay.snapshot}) <= MaxLive
    /\ live' = live \cup {replay.snapshot}
    /\ replay' = NoReplay
    /\ UNCHANGED <<emitted, checkpoints, authentic>>

LogNext ==
    \/ Create
    \/ \E d \in DecisionFacts : RecordDecision(d)
    \/ \E s \in live, f \in Facts, keep \in BOOLEAN : AppendFact(s, f, keep)
    \/ \E s \in live : Checkpoint(s)
    \/ Restart
    \/ StartReplay
    \/ \E c \in checkpoints : StartPrefix(c) \/ StartFromAnchor(c)
    \/ \E e \in emitted : Deliver(e)
    \/ PrefixDone
    \/ ReplayDone

LogSpec == LogInit /\ [][LogNext]_logVars

-----------------------------------------------------------------------------
(* Properties.                                                             *)

Held == live \cup (IF replay = NoReplay THEN {} ELSE {replay.snapshot})

Histories == emitted \cup {<<>>}

\* Whatever a journal repeats, loses, reorders or mixes, a snapshot that a
\* process holds is the state some live chain had: its facts are those its
\* last event names, and that event was appended once.
SnapshotIsAHistory ==
    \A s \in Held \cup checkpoints : s.body = s.last /\ s.last \in Histories

\* A replay that succeeds has dropped nothing: each event it was given is in
\* the chain of its result.  So the events of two forks are never both
\* accepted, and a gap is never closed.
NothingIsDropped ==
    replay # NoReplay =>
        \A e \in replay.delivered : Precedes(e, replay.snapshot.last)

=============================================================================
