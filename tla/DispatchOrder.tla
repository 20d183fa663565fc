---------------------------- MODULE DispatchOrder ----------------------------
(***************************************************************************)
(* The scheduler of one shadow run: runScheduledJobs and                   *)
(* StableDispatchOrder of src/runtime/shadow.ts.                           *)
(*                                                                         *)
(* Jobs are numbered in the plan's order.  The scheduler runs up to        *)
(* MaxConcurrency of them, never two of one lane, and takes the first      *)
(* ready one.  A job that is about to contact its endpoint for the first   *)
(* time waits for its turn: turns are given in job order, and a job that   *)
(* will not take its turn must give it up, or those behind it wait         *)
(* forever.  A lease already runs while its job waits.                     *)
(*                                                                         *)
(* processJob itself (ShadowRunner) is abstracted to what the scheduler    *)
(* sees: it enters the order or not, may retry, and ends with a result.    *)
(* Each action is one synchronous piece of the event loop.                 *)
(***************************************************************************)
EXTENDS Naturals, FiniteSets, Sequences

CONSTANTS
    N,               \* number of jobs of the plan
    MaxConcurrency,  \* plan.workBudget.maxConcurrency
    MaxAttempts      \* protocol.shadowCollection.maximumAttempts

ASSUME SchedulerAssumption ==
    /\ N \in Nat \ {0}
    /\ MaxConcurrency \in Nat \ {0}
    /\ MaxAttempts \in Nat \ {0}

Jobs == 1..N

\* A lane is named by its first job: the keys matter up to renaming only.
LaneMaps == {f \in [Jobs -> Jobs] : \A i \in Jobs : f[i] <= i /\ f[f[i]] = f[i]}

VARIABLES
    lane,       \* laneKey of each job, fixed by the plan
    status,     \* where each job is
    result,     \* what each job ended with
    attempts,   \* attempts of a job that reached its dispatch
    turn,       \* StableDispatchOrder.#turns
    next,       \* StableDispatchOrder.#nextIndex
    cancelled,  \* signalAborted(run.signal)
    fatal,      \* fatalSet
    promise,    \* the promise runScheduledJobs returns
    contacts,   \* jobs in the order of their first endpoint contact
    expired     \* jobs whose lease ran out while they waited for their turn

orderVars == <<lane, status, result, attempts, turn, next, cancelled, fatal,
               promise, contacts, expired>>

\* "queued" jobs are pendingJobs; a job is "running" up to its first dispatch,
\* "waiting" for its turn, "released" once it had it; processJob has "ended",
\* its handler ran ("handled"), and at last the job is "over".
JobStatuses == {"queued", "running", "waiting", "released", "ended", "handled",
             "over"}
Results == {"none", "done", "pending", "error"}

Active(st) == {i \in Jobs : st[i] \notin {"queued", "over"}}
Queued == {i \in Jobs : status[i] = "queued"}

OrderTypeOK ==
    /\ lane \in LaneMaps
    /\ status \in [Jobs -> JobStatuses]
    /\ result \in [Jobs -> Results]
    /\ attempts \in [Jobs -> 0..MaxAttempts]
    /\ turn \in [Jobs -> {"none", "begin", "skip"}]
    /\ next \in 1..(N + 1)
    /\ cancelled \in BOOLEAN
    /\ fatal \in BOOLEAN
    /\ promise \in {"new", "open", "resolved", "rejected"}
    /\ contacts \in Seq(Jobs)
    /\ expired \subseteq Jobs

OrderInit ==
    /\ lane \in LaneMaps
    /\ status = [i \in Jobs |-> "queued"]
    /\ result = [i \in Jobs |-> "none"]
    /\ attempts = [i \in Jobs |-> 0]
    /\ turn = [i \in Jobs |-> "none"]
    /\ next = 1
    /\ cancelled \in BOOLEAN
    /\ fatal = FALSE
    /\ promise = "new"
    /\ contacts = <<>>
    /\ expired = {}

-----------------------------------------------------------------------------
(* StableDispatchOrder.                                                    *)

\* The turns the order holds once the jobs of S have given theirs up.
Skip(S) ==
    [i \in Jobs |-> IF i \in S /\ i >= next /\ turn[i] = "none"
                    THEN "skip" ELSE turn[i]]

\* The jobs of S in the plan's order: a set of one sequence.
InOrder(S) ==
    {s \in [1..Cardinality(S) -> S] : \A a, b \in DOMAIN s : a < b => s[a] < s[b]}

\* Faulty variant of Pump: turns are given as they come.
PumpUnordered(t, st) ==
    LET freed == {i \in Jobs : t[i] = "begin"}
    IN  /\ UNCHANGED next
        /\ turn' = [i \in Jobs |-> IF i \in freed THEN "skip" ELSE t[i]]
        /\ status' = [i \in Jobs |-> IF i \in freed THEN "released" ELSE st[i]]
        /\ attempts' = [i \in Jobs |-> IF i \in freed THEN 1 ELSE attempts[i]]
        /\ \E order \in InOrder(freed) : contacts' = contacts \o order
        /\ UNCHANGED expired

\* #pump, from the turns t and the job states st: every turn up to the first
\* missing one, which is the next after, is taken, in order.  beginDispatch
\* contacts the endpoint unless the run is cancelled or the lease expired
\* meanwhile.
Pump(t, st) ==
    \E last \in next..(N + 1) :
        LET freed == {i \in next..(last - 1) : t[i] = "begin"}
        IN  /\ last \in Jobs => t[last] = "none"
            /\ \A i \in next..(last - 1) : t[i] # "none"
            /\ next' = last
            /\ turn' = [i \in Jobs |-> IF i < last THEN "none" ELSE t[i]]
            /\ status' = [i \in Jobs |-> IF i \in freed THEN "released" ELSE st[i]]
            /\ attempts' = [i \in Jobs |-> IF i \in freed THEN 1 ELSE attempts[i]]
            /\ \E late \in SUBSET freed :
                  /\ cancelled' => late = freed
                  /\ \E order \in InOrder(freed \ late) : contacts' = contacts \o order
                  /\ expired' = IF cancelled' THEN expired ELSE expired \cup late

-----------------------------------------------------------------------------
(* runScheduledJobs.                                                       *)

\* The jobs pump() takes up: while there is room, the first queued job whose
\* lane is free, that is, the lowest of the heads of the free lanes.
Refill(st) ==
    LET queued == {i \in Jobs : st[i] = "queued"}
        busy == {lane[i] : i \in Active(st)}
        heads == {i \in queued :
                     /\ lane[i] \notin busy
                     /\ \A k \in queued : lane[k] = lane[i] => i <= k}
        room == MaxConcurrency - Cardinality(Active(st))
    IN  [i \in Jobs |-> IF /\ i \in heads
                           /\ Cardinality({k \in heads : k < i}) < room
                        THEN "running" ELSE st[i]]

\* settleIfDone, with the job states and results a step arrives at.
SettleIfDone(st, res) ==
    promise' = CASE Active(st) # {} -> "open"
                 [] Active(st) = {} /\ fatal -> "rejected"
                 [] Active(st) = {} /\ ~fatal
                      /\ \A i \in Jobs : res[i] \in {"done", "pending"} -> "resolved"
                 [] OTHER -> "open"

\* markPendingJobs: a cancelled run leaves its queued jobs pending.
MarkPending == [i \in Jobs |-> IF i \in Queued THEN "pending" ELSE result[i]]

\* The jobs of S leave the queue for good.
Drop(S, st) == [i \in Jobs |-> IF i \in S THEN "over" ELSE st[i]]

\* pump() after the jobs of S gave up their turn and reached the states st.
Schedule(S, st) ==
    IF cancelled /\ ~fatal
    THEN LET after == Drop(Queued, st)
         IN  /\ result' = MarkPending
             /\ Pump(Skip(S \cup Queued), after)
             /\ SettleIfDone(after, MarkPending)
    ELSE LET after == IF fatal THEN st ELSE Refill(st)
         IN  /\ Pump(Skip(S), after)
             /\ SettleIfDone(after, result)
             /\ UNCHANGED result

\* The first pump().
Start ==
    /\ promise = "new"
    /\ UNCHANGED <<lane, cancelled, fatal>>
    /\ Schedule({}, status)

\* The caller, or the run's timer, cancels.
Abort ==
    /\ promise = "open"
    /\ ~cancelled
    /\ cancelled' = TRUE
    /\ UNCHANGED <<lane, status, result, attempts, turn, next, fatal, promise,
                   contacts, expired>>

\* processJob reaches its first dispatch: StableDispatchOrder.start.  If the turn
\* were gone it would throw; here the job would be stuck, and so would the run.
Enter(i) ==
    /\ status[i] = "running"
    /\ i >= next /\ turn[i] = "none"
    /\ UNCHANGED <<lane, result, cancelled, fatal, promise>>
    /\ Pump([turn EXCEPT ![i] = "begin"], [status EXCEPT ![i] = "waiting"])

\* A retry dispatches at once, whatever its job's turn was.
Retry(i) ==
    /\ status[i] = "released"
    /\ ~cancelled
    /\ attempts[i] < MaxAttempts
    /\ attempts' = [attempts EXCEPT ![i] = @ + 1]
    /\ contacts' = IF \E k \in DOMAIN contacts : contacts[k] = i
                   THEN contacts ELSE Append(contacts, i)
    /\ UNCHANGED <<lane, status, result, turn, next, cancelled, fatal, promise,
                   expired>>

\* processJob ends, with or without having dispatched.
End(i) ==
    /\ status[i] \in {"running", "released"}
    /\ status' = [status EXCEPT ![i] = "ended"]
    /\ \E res \in Results \ {"none"} : result' = [result EXCEPT ![i] = res]
    /\ UNCHANGED <<lane, attempts, turn, next, cancelled, fatal, promise,
                   contacts, expired>>

\* Faulty variant of HandlePending: the rest of the lane stays queued.
HandlePendingAlone(i) ==
    /\ status[i] = "ended"
    /\ result[i] = "pending"
    /\ status' = [status EXCEPT ![i] = "handled"]
    /\ UNCHANGED <<lane, result, attempts, turn, next, cancelled, fatal, promise,
                   contacts, expired>>

\* The rest of the lane of a job left pending is left pending too.
HandlePending(i) ==
    LET rest == {k \in Queued : lane[k] = lane[i]}
    IN  /\ status[i] = "ended"
        /\ result[i] = "pending"
        /\ result' = [k \in Jobs |-> IF k \in rest THEN "pending" ELSE result[k]]
        /\ UNCHANGED <<lane, cancelled, fatal, promise>>
        /\ Pump(Skip(rest), [Drop(rest, status) EXCEPT ![i] = "handled"])

HandleDone(i) ==
    /\ status[i] = "ended"
    /\ result[i] = "done"
    /\ status' = [status EXCEPT ![i] = "handled"]
    /\ UNCHANGED <<lane, result, attempts, turn, next, cancelled, fatal, promise,
                   contacts, expired>>

\* Faulty variant of HandleError: the jobs given up keep their turns.
HandleErrorKeepsTurns(i) ==
    /\ status[i] = "ended"
    /\ result[i] = "error"
    /\ fatal' = TRUE
    /\ cancelled' = TRUE
    /\ status' = [Drop(Queued, status) EXCEPT ![i] = "handled"]
    /\ UNCHANGED <<lane, result, attempts, turn, next, promise, contacts, expired>>

\* The first error cancels the run and abandons the queue.
HandleError(i) ==
    LET rest == IF fatal THEN {} ELSE Queued
    IN  /\ status[i] = "ended"
        /\ result[i] = "error"
        /\ fatal' = TRUE
        /\ cancelled' = TRUE
        /\ UNCHANGED <<lane, result, promise>>
        /\ Pump(Skip(rest), [Drop(rest, status) EXCEPT ![i] = "handled"])

\* finally: the turn, the lane and the slot of the job are free.
Finally(i) ==
    /\ status[i] = "handled"
    /\ UNCHANGED <<lane, cancelled, fatal>>
    /\ Schedule({i}, [status EXCEPT ![i] = "over"])

Handle(i) == HandleDone(i) \/ HandlePending(i) \/ HandleError(i)

OrderNext ==
    \/ Start
    \/ Abort
    \/ \E i \in Jobs : Enter(i) \/ Retry(i) \/ End(i) \/ Handle(i) \/ Finally(i)

OrderSpec == OrderInit /\ [][OrderNext]_orderVars

\* processJob always ends (RunsEnd of ShadowRunner) and handlers are run.
OrderFairness ==
    /\ WF_orderVars(Start)
    /\ \A i \in Jobs : /\ WF_orderVars(Enter(i) \/ End(i))
                       /\ WF_orderVars(Handle(i) \/ Finally(i))

FairOrderSpec == OrderSpec /\ OrderFairness

-----------------------------------------------------------------------------
(* Properties.                                                             *)

Position(i) == CHOOSE k \in DOMAIN contacts : contacts[k] = i
Contacted == {contacts[k] : k \in DOMAIN contacts}

\* First contacts follow the plan's order, except for jobs whose lease ran out
\* while they waited.
OrderUnlessExpired ==
    \A i, k \in Contacted :
        (i < k /\ Position(k) < Position(i)) => i \in expired

\* A lane is an ordered experiment: its jobs run one at a time, within the slots,
\* and once one is left pending, no later one contacts its endpoint.
LaneDiscipline ==
    /\ Cardinality(Active(status)) <= MaxConcurrency
    /\ \A i, k \in Active(status) : lane[i] = lane[k] => i = k
    /\ \A i, k \in Jobs :
           (result[i] = "pending" /\ lane[k] = lane[i] /\ i < k)
               => k \notin Contacted /\ status[k] \in {"queued", "over"}

\* No job waits forever for a turn that never comes, and the run returns.
EveryRunSettles == <>(promise \in {"resolved", "rejected"})

\* Comment of StableDispatchOrder: "Starts each logical execution's first P1
\* call in declared job order."
FirstContactInOrder ==
    \A i, k \in Contacted : i < k => Position(i) < Position(k)

=============================================================================
