----------------------------- MODULE RuntimeCall -----------------------------
(***************************************************************************)
(* One call of a model runtime, from the prepared invocation to the        *)
(* reported outcome: dispatchPreparedRuntimeInvocation of                  *)
(* runtime/invoke.ts, pinAuthorizedCollectorRequest of                     *)
(* runtime/network-policy.ts, withBoundedHttpResponse of runtime/http.ts.  *)
(*                                                                         *)
(* An action is one task of the event loop with the microtasks it drains:  *)
(* an abort is classified in the task that caused it.  Where the code      *)
(* reads the monotonic clock again, a new step begins: time passes between *)
(* any two readings, but the caller's signal cannot come in between where  *)
(* there is no await.  Timers may fire late.  The endpoint acts on its     *)
(* own: what it does with the request is not seen before the answer is     *)
(* read.                                                                   *)
(***************************************************************************)
EXTENDS Integers

CONSTANTS
    None,
    Grain,       \* units of the clock in a millisecond
    TotalMs,     \* totalDeadlineMs of the prepared invocation
    DeadlineMs,  \* httpLimits.deadlineMs
    ConnectMs,   \* httpLimits.connectTimeoutMs
    HeadersMs,   \* httpLimits.headersTimeoutMs
    BodyMs,      \* httpLimits.bodyTimeoutMs
    MaxChunks,   \* httpLimits.maxResponseChunks
    MaxDelay,    \* bound of the model on the delays of the process itself
    MaxClock     \* bound of the model on the monotonic clock

ASSUME CallAssumption ==
    /\ Grain \in Nat \ {0}
    /\ TotalMs \in Nat \ {0}
    /\ DeadlineMs \in Nat \ {0}
    /\ ConnectMs \in Nat \ {0}
    /\ HeadersMs \in Nat \ {0}
    /\ BodyMs \in Nat \ {0}
    /\ MaxChunks \in Nat
    /\ MaxDelay \in Nat
    /\ MaxClock \in Nat
    /\ Grain * TotalMs + MaxDelay <= MaxClock
    /\ None \notin Int

VARIABLES
    clock,     \* process.hrtime, in units
    aborted,   \* the caller's signal
    pc,        \* where the call stands
    remaining, \* whole milliseconds read of a deadline and not used yet
    pinEnd,    \* expiresAtNs of the pin
    startedAt, \* timing.startedNs of the transport
    limitMs,   \* deadlineMs of the limits, clamped so far
    delayed,   \* time that passed between the reading of a deadline and the
               \* start of what it bounds
    due,       \* when each timer fires, or None
    dispatch,  \* state.dispatchState
    chunks,    \* state.responseChunks
    wire,      \* the request: "idle" (unconnected), "open", "sent"
    answer,    \* what the endpoint has answered
    pending,   \* outcome to report once the client is destroyed
    report     \* what the call returned or threw

\* What is known of the deadlines when the transport waits.
budget == <<remaining, pinEnd, startedAt, limitMs, delayed>>

vars == <<clock, aborted, pc, budget, due, dispatch, chunks,
          wire, answer, pending, report>>

-----------------------------------------------------------------------------

Timers == {"lookup", "deadline", "connect", "headers", "body"}
NoTimers == [t \in Timers |-> None]

\* Steps between a reading of the clock and the deadline made of it.
Gaps == {"pinning", "dialing", "arming"}

\* Steps that the event loop runs in one piece with the step before.
Unbroken == Gaps \cup {"lookup", "opening", "consuming", "clamping"}

Steps == Unbroken \cup
         {"prepared", "resolving", "unpinned", "pinned", "secrets", "connect",
          "head", "body", "decoding", "returning", "throwing", "settled"}

\* Steps in which the client exists, and must be destroyed before a report.
ClientSteps == {"connect", "head", "body", "decoding"}

DispatchStates == {"not_sent", "sent_unknown", "completed"}
Lifecycles == {"not-aborted", "cancelled-before", "cancelled-ambiguous",
               "deadline-exceeded"}
Statuses == {"completed", "incomplete", "failed", "rejected"}

Reports == [dispatch : DispatchStates, status : Statuses, lifecycle : Lifecycles]

\* Nothing reported yet, nothing waiting to be.
Nothing == [dispatch |-> "none", status |-> "none", lifecycle |-> "none"]

\* authority.expiresAtNs: the invocation was prepared at instant 0.
Expires == Grain * TotalMs

\* Whole milliseconds from now to an instant, rounded down, never negative.
Remaining(end) == IF end <= clock THEN 0 ELSE (end - clock) \div Grain

AtMost(a, b) == IF a <= b THEN a ELSE b

\* A timer of ms milliseconds, armed now.
After(ms) == clock + Grain * ms

\* A phase timer, clamped to the whole operation.
Phase(ms) == After(AtMost(ms, limitMs))

TypeOK ==
    /\ clock \in 0..MaxClock
    /\ aborted \in BOOLEAN
    /\ pc \in Steps
    /\ remaining \in Nat
    /\ pinEnd \in Nat
    /\ startedAt \in 0..MaxClock
    /\ limitMs \in Nat
    /\ delayed \in 0..MaxDelay
    /\ due \in [Timers -> Nat \cup {None}]
    /\ dispatch \in DispatchStates
    /\ chunks \in 0..(MaxChunks + 1)
    /\ wire \in {"idle", "open", "sent"}
    /\ answer \in {"none", "refusal", "head", "end"}
    /\ pending \in Reports \cup {Nothing}
    /\ report \in Reports \cup {Nothing}

Init ==
    /\ clock = 0
    /\ aborted = FALSE
    /\ pc = "prepared"
    /\ remaining = 0
    /\ pinEnd = 0
    /\ startedAt = 0
    /\ limitMs = 0
    /\ delayed = 0
    /\ due = NoTimers
    /\ dispatch = "not_sent"
    /\ chunks = 0
    /\ wire = "idle"
    /\ answer = "none"
    /\ pending = Nothing
    /\ report = Nothing

-----------------------------------------------------------------------------
(* How a call ends.                                                        *)

Failed(d, lifecycle) ==
    [dispatch |-> d, status |-> "failed", lifecycle |-> lifecycle]

\* RuntimeInvocationInputError, thrown before anything is sent.
Rejected ==
    [dispatch |-> "not_sent", status |-> "rejected", lifecycle |-> "not-aborted"]

\* abortLifecycleForError, for an abort of the caller and for a timer.
AbortLifecycle(source) ==
    IF source # "caller" THEN "deadline-exceeded"
    ELSE IF dispatch = "not_sent" THEN "cancelled-before"
    ELSE "cancelled-ambiguous"

\* The call returns o, or throws it, in this very task.
Report(o) ==
    /\ report' = o
    /\ pc' = "settled"
    /\ due' = NoTimers
    /\ UNCHANGED pending

\* The finally of withBoundedHttpResponse: the timers go, and the report waits
\* for the client to be destroyed.
Close(o, step) ==
    /\ pending' = o
    /\ pc' = step
    /\ due' = NoTimers
    /\ UNCHANGED report

\* An error leaves withBoundedHttpResponse, at once if there is no client yet.
Finish(o) == IF pc \in ClientSteps THEN Close(o, "throwing") ELSE Report(o)

\* classifyTransportError, for an error that says nothing of an abort.
Abandon(d) == Finish(Failed(d, "not-aborted"))

\* Faulty variant of AbortOperation: what the caller cancels counts as unsent.
AbortAsUnsent(source) ==
    Finish(Failed(IF source = "caller" THEN "not_sent" ELSE dispatch,
                  AbortLifecycle(source)))

\* abortOperation, and the rejection of everything that is raced with it.
AbortOperation(source) == Finish(Failed(dispatch, AbortLifecycle(source)))

\* pinAuthorizedCollectorRequest throws, whatever the reason.
Unpinned ==
    /\ pc' = "unpinned"
    /\ due' = NoTimers
    /\ UNCHANGED <<pending, report>>

-----------------------------------------------------------------------------
(* Authorization and pinning.                                              *)

\* Time between the reading of a deadline and the start of what it bounds is a
\* delay of the process itself.
Tick ==
    /\ clock < MaxClock
    /\ clock' = clock + 1
    /\ IF pc \in Gaps THEN delayed < MaxDelay /\ delayed' = delayed + 1
                      ELSE UNCHANGED delayed
    /\ UNCHANGED <<aborted, pc, remaining, pinEnd, startedAt, limitMs, due,
                   dispatch, chunks, wire, answer, pending, report>>

\* The prepared invocation is consumed; expiry, endpoint binding, capability
\* lease and authorization are checked, and what is left is for the pin.
DispatchPrepared ==
    /\ pc = "prepared"
    /\ \/ Report(Rejected) /\ UNCHANGED remaining
       \/ /\ Remaining(Expires) >= 1
          /\ remaining' = Remaining(Expires)
          /\ pc' = "pinning"
          /\ UNCHANGED <<due, pending, report>>
    /\ UNCHANGED <<clock, aborted, pinEnd, startedAt, limitMs, delayed,
                   dispatch, chunks, wire, answer>>

\* The pin reads its own start, looks at the signal, and ends so many
\* milliseconds after its start.  (normalizeInvocation has seen to it that they
\* are within the policy.)
StartPin ==
    /\ pc = "pinning"
    /\ pinEnd' = After(remaining)
    /\ remaining' = 0
    /\ IF aborted THEN Unpinned
       ELSE pc' = "lookup" /\ UNCHANGED <<due, pending, report>>
    /\ UNCHANGED <<clock, aborted, startedAt, limitMs, delayed, dispatch, chunks,
                   wire, answer>>

\* A literal address needs no lookup; a name gets what is left of the pin.
StartLookup ==
    /\ pc = "lookup"
    /\ IF Remaining(pinEnd) < 1
       THEN Unpinned /\ UNCHANGED remaining
       ELSE /\ \/ pc' = "pinned" /\ UNCHANGED remaining
               \/ pc' = "dialing" /\ remaining' = Remaining(pinEnd)
            /\ UNCHANGED <<due, pending, report>>
    /\ UNCHANGED <<clock, aborted, pinEnd, startedAt, limitMs, delayed, dispatch,
                   chunks, wire, answer>>

\* The resolver is asked, against a timer.
AskResolver ==
    /\ pc = "dialing"
    /\ pc' = "resolving"
    /\ due' = [due EXCEPT !["lookup"] = After(remaining)]
    /\ remaining' = 0
    /\ UNCHANGED <<clock, aborted, pinEnd, startedAt, limitMs, delayed, dispatch,
                   chunks, wire, answer, pending, report>>

\* The resolver answers: the address is pinned, unless the answer is refused or
\* too late.
Resolve ==
    /\ pc = "resolving"
    /\ \/ Unpinned
       \/ /\ Remaining(pinEnd) >= 1
          /\ pc' = "pinned"
          /\ due' = NoTimers
          /\ UNCHANGED <<pending, report>>
    /\ UNCHANGED <<clock, aborted, budget, dispatch, chunks, wire, answer>>

LookupTimeout ==
    /\ pc = "resolving"
    /\ due["lookup"] <= clock
    /\ Unpinned
    /\ UNCHANGED <<clock, aborted, budget, dispatch, chunks, wire, answer>>

\* The catch around the pin: whatever failed, the signal and the clock are read
\* again to say why.
ClassifyPinFailure ==
    /\ pc = "unpinned"
    /\ Report(Failed("not_sent",
           IF aborted THEN "cancelled-before"
           ELSE IF Remaining(Expires) < 1 THEN "deadline-exceeded"
           ELSE "not-aborted"))
    /\ UNCHANGED <<clock, aborted, budget, dispatch, chunks, wire, answer>>

-----------------------------------------------------------------------------
(* The transport.                                                          *)

\* After the pin: the deadline, binding and lease are checked again, and
\* httpLimitsWithinPreparedDeadline clamps the limits to what is left.
OpenTransport ==
    /\ pc = "pinned"
    /\ \/ Report(Rejected) /\ UNCHANGED limitMs
       \/ /\ Remaining(Expires) >= 1
          /\ limitMs' = AtMost(DeadlineMs, Remaining(Expires))
          /\ pc' = "opening"
          /\ UNCHANGED <<due, pending, report>>
    /\ UNCHANGED <<clock, aborted, remaining, pinEnd, startedAt, delayed,
                   dispatch, chunks, wire, answer>>

\* withBoundedHttpResponse begins to count.
StartTransport ==
    /\ pc = "opening"
    /\ pc' = "consuming"
    /\ startedAt' = clock
    /\ UNCHANGED <<clock, aborted, remaining, pinEnd, limitMs, delayed, due,
                   dispatch, chunks, wire, answer, pending, report>>

\* consumePinnedCollectorRequest: what is left of the pin, if anything is; the
\* target and the request are validated too.
ConsumePin ==
    /\ pc = "consuming"
    /\ \/ Abandon("not_sent") /\ UNCHANGED remaining
       \/ /\ Remaining(pinEnd) >= 1
          /\ remaining' = Remaining(pinEnd)
          /\ pc' = "clamping"
          /\ UNCHANGED <<due, pending, report>>
    /\ UNCHANGED <<clock, aborted, pinEnd, startedAt, limitMs, delayed, dispatch,
                   chunks, wire, answer>>

\* Faulty variant of Elapsed: the pin is taken to have been consumed just now.
ElapsedUnseen == 0

\* elapsedMs, in units.
Elapsed == clock - startedAt

\* clampLimitsToPinnedDeadline: what was left of the pin, less what has elapsed
\* since, bounds the operation.
ClampLimits ==
    LET left == Grain * remaining - Elapsed
    IN  /\ pc = "clamping"
        /\ IF left < Grain
           THEN AbortOperation("deadline") /\ UNCHANGED limitMs
           ELSE /\ limitMs' = AtMost(limitMs, left \div Grain)
                /\ pc' = "arming"
                /\ UNCHANGED <<due, pending, report>>
        /\ remaining' = 0
        /\ startedAt' = 0
        /\ UNCHANGED <<clock, aborted, pinEnd, delayed, dispatch, chunks, wire,
                       answer>>

\* Faulty variant of ArmDeadline: only the phases are timed.
ArmNoDeadline == UNCHANGED due

ArmDeadline == due' = [due EXCEPT !["deadline"] = After(limitMs)]

\* Faulty variant of AbortedBefore: the signal is only listened to, and one
\* that is aborted already never fires again.
AbortedUnheard == FALSE

\* abortSignalIsAborted, read when the listener is attached.
AbortedBefore == aborted

\* The listener is attached, in case the signal aborts, and the timer armed.
ArmOperation ==
    /\ pc = "arming"
    /\ IF AbortedBefore
       THEN AbortOperation("caller")
       ELSE /\ ArmDeadline
            /\ pc' = "secrets"
            /\ UNCHANGED <<pending, report>>
    /\ UNCHANGED <<clock, aborted, budget, dispatch, chunks, wire, answer>>

\* resolveSecretHeaders: the factory answers, or there is none to ask; bad or
\* missing material ends the call.  Then the client begins to connect.
ResolveSecrets ==
    /\ pc = "secrets"
    /\ \/ Abandon("not_sent")
       \/ /\ pc' = "connect"
          /\ due' = [due EXCEPT !["connect"] = Phase(ConnectMs)]
          /\ UNCHANGED <<pending, report>>
    /\ UNCHANGED <<clock, aborted, budget, dispatch, chunks, wire, answer>>

\* Faulty variant of MarkConnected: the request counts as sent once answered.
MarkUnsent == UNCHANGED dispatch

MarkConnected == dispatch' = "sent_unknown"

\* The "connect" event, which precedes the first byte of the request.
Connected ==
    /\ pc = "connect"
    /\ pc' = "head"
    /\ wire' = "open"
    /\ MarkConnected
    /\ due' = [due EXCEPT !["connect"] = None, !["headers"] = Phase(HeadersMs)]
    /\ UNCHANGED <<clock, aborted, budget, chunks, answer, pending, report>>

\* The connection cannot be made, or is lost: classifyTransportError reports
\* the state reached so far.  (It reports an InvalidArgumentError as not_sent in
\* any state; the client raises that one for a request it never starts.)
ConnectionLost ==
    /\ pc \in {"connect", "head", "body"}
    /\ Abandon(dispatch)
    /\ UNCHANGED <<clock, aborted, budget, dispatch, chunks, wire, answer>>

\* The response head: a redirect or an error status ends the call as completed;
\* headers the transport refuses leave it ambiguous.
ResponseHead ==
    /\ pc = "head"
    /\ \/ /\ answer = "refusal"
          /\ dispatch' = "completed"
          /\ Abandon("completed")
       \/ /\ answer \in {"head", "end"}
          /\ dispatch' = "sent_unknown"
          /\ \/ Abandon("sent_unknown")
             \/ /\ pc' = "body"
                /\ due' = [due EXCEPT !["headers"] = None,
                                      !["body"] = Phase(BodyMs)]
                /\ UNCHANGED <<pending, report>>
    /\ UNCHANGED <<clock, aborted, budget, chunks, wire, answer>>

TooManyChunks(n) == n > MaxChunks

\* A chunk of the body, which the decoder reads at once; then the wait for the
\* next one is timed anew.  An empty chunk is not counted.
Chunk ==
    /\ pc = "body"
    /\ \E n \in {chunks, chunks + 1} :
          /\ chunks' = n
          /\ IF TooManyChunks(n)
             THEN Abandon("sent_unknown")
             ELSE /\ due' = [due EXCEPT !["body"] = Phase(BodyMs)]
                  /\ UNCHANGED <<pc, pending, report>>
    /\ UNCHANGED <<clock, aborted, budget, dispatch, wire, answer>>

\* Too many bytes, or a decoder that gives up before the end of the body.
BodyRefused ==
    /\ pc = "body"
    /\ Abandon("sent_unknown")
    /\ UNCHANGED <<clock, aborted, budget, dispatch, chunks, wire, answer>>

\* The body iterator ends without an error only at the end of the response.
EndOfBody == answer = "end"

BodyEnds ==
    /\ pc = "body"
    /\ EndOfBody
    /\ dispatch' = "completed"
    /\ pc' = "decoding"
    /\ due' = [due EXCEPT !["body"] = None]
    /\ UNCHANGED <<clock, aborted, budget, chunks, wire, answer, pending, report>>

\* decodeResponse: complete, short of something, or not a valid response.
Decode ==
    /\ pc = "decoding"
    /\ \E s \in {"completed", "incomplete", "failed"} :
          Close([dispatch |-> "completed", status |-> s,
                 lifecycle |-> "not-aborted"], "returning")
    /\ UNCHANGED <<clock, aborted, budget, dispatch, chunks, wire, answer>>

\* Steps that wait for something while the operation can be aborted.
AbortableSteps == {"secrets", "connect", "head", "body"}

\* A timer of the transport fires, when it is due or later.
TimerFires ==
    /\ pc \in AbortableSteps
    /\ \E t \in Timers :
          /\ due[t] # None
          /\ due[t] <= clock
          /\ AbortOperation(t)
    /\ UNCHANGED <<clock, aborted, budget, dispatch, chunks, wire, answer>>

\* The caller's signal.  At "pinned", "unpinned" and "decoding" it can come from
\* a microtask only; once the client is being destroyed nobody listens any more.
CallerAbort ==
    /\ ~aborted
    /\ pc \notin Unbroken \cup {"settled"}
    /\ aborted' = TRUE
    /\ CASE pc \in AbortableSteps \cup {"decoding"} -> AbortOperation("caller")
         [] pc = "resolving" -> Unpinned
         [] OTHER -> UNCHANGED <<pc, due, pending, report>>
    /\ UNCHANGED <<clock, budget, dispatch, chunks, wire, answer>>

\* The last look at the deadline of the prepared invocation.
InTime == Remaining(Expires) >= 1

\* The client is destroyed and the error becomes the outcome.
Throw ==
    /\ pc = "throwing"
    /\ Report(pending)
    /\ UNCHANGED <<clock, aborted, budget, dispatch, chunks, wire, answer>>

\* The client is destroyed; the decoded response counts only if it is in time.
Return ==
    /\ pc = "returning"
    /\ Report(IF InTime THEN pending
              ELSE Failed("completed", "deadline-exceeded"))
    /\ UNCHANGED <<clock, aborted, budget, dispatch, chunks, wire, answer>>

-----------------------------------------------------------------------------
(* The endpoint and the network, which nothing hurries.                    *)

\* The request of a connected call arrives, even after the call was given up.
Transmit ==
    /\ wire = "open"
    /\ wire' = "sent"
    /\ UNCHANGED <<clock, aborted, pc, budget, due, dispatch, chunks, answer,
                   pending, report>>

\* The endpoint refuses, or answers and then completes its answer.
Endpoint ==
    /\ wire = "sent"
    /\ \/ answer = "none" /\ answer' \in {"refusal", "head"}
       \/ answer = "head" /\ answer' = "end"
    /\ UNCHANGED <<clock, aborted, pc, budget, due, dispatch, chunks, wire,
                   pending, report>>

-----------------------------------------------------------------------------
\* What the event loop does by itself once the call has begun.
CallStep ==
    \/ StartPin       \/ StartLookup    \/ AskResolver \/ LookupTimeout
    \/ OpenTransport  \/ StartTransport \/ ConsumePin  \/ ClampLimits
    \/ ArmOperation   \/ TimerFires     \/ Decode
    \/ ClassifyPinFailure \/ Throw      \/ Return

Next ==
    \/ Tick
    \/ DispatchPrepared
    \/ CallStep
    \/ Resolve        \/ ResolveSecrets \/ Connected
    \/ ConnectionLost \/ ResponseHead   \/ Chunk
    \/ BodyRefused    \/ BodyEnds
    \/ CallerAbort
    \/ Transmit       \/ Endpoint

Spec == Init /\ [][Next]_vars

-----------------------------------------------------------------------------
(* Safety.                                                                 *)

\* What a call reports of its dispatch is proof, on all the error paths of
\* invoke.ts and http.ts.  A call that says not_sent, or rejects its input, has
\* put nothing on the wire, and nothing of it is on its way: the connection was
\* never made.  One that says completed was taken by the endpoint, and refused or
\* answered to the end; a completed invocation was answered.
DispatchIsProof ==
    /\ report.dispatch = "not_sent" => wire = "idle"
    /\ report.dispatch = "completed" => answer \in {"refusal", "end"}
    /\ report.status = "completed" => answer = "end"

\* However the caller's abort and the steps of the call interleave, a cancelled
\* call never goes on to wait for the resolver, a secret or the endpoint.
CancelledCallWaitsForNothing ==
    aborted => pc \notin AbortableSteps \cup {"resolving"}

\* A deadline is handed on three times, each time as whole milliseconds that
\* are read at one moment and counted from another.  All the rounding, clamping
\* and subtracting gains the call no time: the pin, the lookup and the whole
\* operation end by the deadline of the prepared invocation, but for the time
\* the process itself took between reading what was left and starting to count.
DeadlinesNest ==
    /\ pinEnd <= Expires + delayed
    /\ \A t \in {"lookup", "deadline"} :
          due[t] # None => due[t] <= Expires + delayed

\* A call keeps the contract its dispatcher relies on.
Contract == INSTANCE CallContract WITH
    wire   <- IF wire = "sent" THEN "sent"
              ELSE IF report.dispatch = "not_sent" THEN "closed"
              ELSE "open",
    report <- report.dispatch

ImplementsContract == Contract!ContractSpec

-----------------------------------------------------------------------------
(* Liveness.                                                               *)

\* Time passes and the event loop runs what is ready; the resolver, the secret
\* factory, the endpoint and the caller may stay silent.
Fairness == WF_vars(Tick) /\ WF_vars(CallStep)

FairSpec == Spec /\ Fairness

\* A call that was begun ends, whoever stays silent.
CallEnds == pc \notin {"prepared", "settled"} ~> pc = "settled"

=============================================================================
