---------------------------- MODULE ShadowJournal ----------------------------
(***************************************************************************)
(* What the shadow collection journal promises, whoever writes it.         *)
(*                                                                         *)
(* The journal of one logical execution (a "job", the code's traceId) is a *)
(* set of immutable, write-once records: a signed dispatch intent, one     *)
(* send lease and one outcome per attempt, the accepted trace and the      *)
(* completion marker.  This module says in which order records may appear  *)
(* and what each one may claim given the records before it.  It knows      *)
(* nothing of runners, clocks, cancellations or crashes: ShadowRunner is   *)
(* the program, and implements this.  A step that publishes a record       *)
(* leaves its content open: it constrains the primed value only.           *)
(***************************************************************************)
EXTENDS Naturals, Sequences

CONSTANTS
    Jobs,         \* logical executions of one shadow run
    MaxAttempts,  \* protocol.shadowCollection.maximumAttempts
    Runners,      \* processes that may write leases
    MaxClock,     \* last instant of the bounded clock
    None          \* absent record

ASSUME MaxAttemptsAssumption == MaxAttempts \in Nat \ {0}
ASSUME MaxClockAssumption == MaxClock \in Nat

Attempts == 1..MaxAttempts
Instants == 0..MaxClock

(***************************************************************************)
(* An outcome keeps what retry, attestation and replay look at.  The       *)
(* failure category is collapsed to what outcomeIsTerminal distinguishes:  *)
(* "retrySafe" stands for `transport' and `timeout', "other" for the rest, *)
(* and it is kept for not_sent outcomes only, the others being "other" or, *)
(* for a success, "none".  abortLifecycle is not kept: it is `not-aborted' *)
(* exactly when the status is not "aborted".                               *)
(***************************************************************************)
Outcomes == [dispatch : {"not_sent", "sent_unknown", "completed"},
             status   : {"success", "failure", "aborted"},
             category : {"none", "retrySafe", "other"}]

\* claimId and expiresAt of a send lease.
Leases == [owner : Runners, expires : Instants]

ASSUME NoneAssumption == None \notin Outcomes /\ None \notin Leases

VARIABLES
    intent,    \* intent[j]: the dispatch intent is durable
    lease,     \* lease[j][n]: the durable send lease of attempt n
    outcome,   \* outcome[j][n]: the durable outcome of attempt n
    accepted,  \* accepted[j]: attempts of the attested trace, <<>> if absent
    complete   \* complete[j]: the trace the completion marker closes, or <<>>

journalVars == <<intent, lease, outcome, accepted, complete>>

\* The outcome of one attempt allows the next one to be tried.
RetrySafe(o) ==
    /\ o.dispatch = "not_sent"
    /\ o.status = "failure"
    /\ o.category = "retrySafe"

\* Every attempt before n has an outcome that allows a retry.
Reached(j, n) ==
    \A m \in 1..(n - 1) : outcome[j][m] # None /\ RetrySafe(outcome[j][m])

JournalTypeOK ==
    /\ intent \in [Jobs -> BOOLEAN]
    /\ lease \in [Jobs -> [Attempts -> Leases \cup {None}]]
    /\ outcome \in [Jobs -> [Attempts -> Outcomes \cup {None}]]
    /\ accepted \in [Jobs -> Seq(Outcomes)]
    /\ complete \in [Jobs -> Seq(Outcomes)]

JournalInit ==
    /\ intent = [j \in Jobs |-> FALSE]
    /\ lease = [j \in Jobs |-> [n \in Attempts |-> None]]
    /\ outcome = [j \in Jobs |-> [n \in Attempts |-> None]]
    /\ accepted = [j \in Jobs |-> <<>>]
    /\ complete = [j \in Jobs |-> <<>>]

-----------------------------------------------------------------------------
PublishIntent(j) ==
    /\ ~intent[j]
    /\ intent' = [intent EXCEPT ![j] = TRUE]
    /\ UNCHANGED <<lease, outcome, accepted, complete>>

\* A lease is granted once per attempt, and only for an attempt reached by
\* retry-safe outcomes.
PublishLease(j, n) ==
    /\ UNCHANGED <<intent, outcome, accepted, complete>>
    /\ intent[j]
    /\ lease[j][n] = None
    /\ Reached(j, n)
    /\ lease'[j][n] \in Leases
    /\ lease' = [lease EXCEPT ![j][n] = lease'[j][n]]

\* An outcome is recorded once per attempt; one that admits the request may
\* have been sent needs the lease that allowed the send.
PublishOutcome(j, n) ==
    /\ UNCHANGED <<intent, lease, accepted, complete>>
    /\ intent[j]
    /\ outcome[j][n] = None
    /\ Reached(j, n)
    /\ outcome'[j][n] \in Outcomes
    /\ outcome'[j][n].dispatch # "not_sent" => lease[j][n] # None
    /\ outcome' = [outcome EXCEPT ![j][n] = outcome'[j][n]]

\* The accepted trace is made of the first n durable outcomes.
PublishAccepted(j, n) ==
    /\ accepted[j] = <<>>
    /\ outcome[j][n] # None
    /\ Reached(j, n)
    /\ accepted' = [accepted EXCEPT ![j] = [m \in 1..n |-> outcome[j][m]]]
    /\ UNCHANGED <<intent, lease, outcome, complete>>

\* The completion marker names the accepted trace.
PublishComplete(j) ==
    /\ accepted[j] # <<>>
    /\ complete[j] = <<>>
    /\ complete' = [complete EXCEPT ![j] = accepted[j]]
    /\ UNCHANGED <<intent, lease, outcome, accepted>>

JournalNext ==
    \E j \in Jobs :
        \/ PublishIntent(j)
        \/ \E n \in Attempts :
              \/ PublishLease(j, n)
              \/ PublishOutcome(j, n)
              \/ PublishAccepted(j, n)
        \/ PublishComplete(j)

JournalSpec == JournalInit /\ [][JournalNext]_journalVars

=============================================================================
