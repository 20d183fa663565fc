--------------------------- MODULE CapabilityLease ---------------------------
(***************************************************************************)
(* Probing a runtime and what a probe allows: src/runtime/probe.ts and the *)
(* preparation and dispatch of src/runtime/invoke.ts, as far as they deal  *)
(* with the lease of a capability.                                         *)
(*                                                                         *)
(* A route that a runtime's profile calls conditional may be used only by  *)
(* the process that just saw it work: a canary request that the endpoint   *)
(* answers as the expected model gives a token that this process keeps in  *)
(* a WeakMap, for one instance, one route and a limited time.  Time passes *)
(* between any two readings of the clock, in synchronous code too.         *)
(*                                                                         *)
(* One call is prepared and dispatched at a time; RuntimeCall models what  *)
(* happens to it on the wire.                                              *)
(***************************************************************************)
EXTENDS Naturals, FiniteSets

CONSTANTS
    Instances,         \* RuntimeInstanceIdentity
    StaticCapability,  \* state of each inference route in the profile
    Unused,            \* null, undefined
    TicksPerMs,        \* ticks of process.hrtime in a millisecond
    Deadlines,         \* totalDeadlineMs of a call
    Lifetimes,         \* authorizationTtlMs of a probe
    MaxInstant,        \* bound: ticks
    MaxAnswered        \* bound: canaries answered in the life of a process

ASSUME CapabilityLeaseAssumption ==
    /\ TicksPerMs \in Nat \ {0}
    /\ Deadlines \cup Lifetimes \subseteq Nat \ {0}
    /\ {MaxInstant, MaxAnswered} \subseteq Nat

VARIABLES
    instant,   \* process.hrtime
    canary,    \* the probe under way
    tokens,    \* authorizationAuthorities
    request,   \* the prepared invocation and how far its dispatch is
    answered   \* history: the canaries that this process saw answered, and when

leaseVars == <<instant, canary, tokens, request, answered>>

Routes == DOMAIN StaticCapability
Offered == {r \in Routes : StaticCapability[r] \in {"supported", "conditional"}}

\* A probe that infers nothing: models, health, metrics.
Passive == "passive"

\* An object that looks like a token: a copy, one of another process, or one
\* that was made from the stored evidence of a probe.
Copied == [instance |-> Unused, route |-> Unused, expires |-> 0]

LeaseInit ==
    /\ instant = 0
    /\ canary = Unused
    /\ tokens = {}
    /\ request = Unused
    /\ answered = {}

TimePasses ==
    /\ instant < MaxInstant
    /\ instant' = instant + 1
    /\ UNCHANGED <<canary, tokens, request, answered>>

-----------------------------------------------------------------------------
(* Probing.                                                                *)

\* probeRuntimeCapability up to its request.
StartProbe(instance, capability, lifetime) ==
    /\ canary = Unused
    /\ capability \in Offered \cup {Passive}
    /\ canary' = [instance |-> instance, route |-> capability, lifetime |-> lifetime]
    /\ UNCHANGED <<instant, tokens, request, answered>>

\* validateCanary accepted the answer; a passive probe proves no route.
ProbeSupported ==
    /\ canary # Unused
    /\ Cardinality(answered) < MaxAnswered
    /\ canary' = Unused
    /\ IF canary.route = Passive THEN UNCHANGED <<tokens, answered>>
       ELSE LET expires == instant + canary.lifetime * TicksPerMs IN
            /\ tokens' = tokens \cup {[instance |-> canary.instance,
                                       route |-> canary.route, expires |-> expires]}
            /\ answered' = answered \cup {[instance |-> canary.instance,
                                           route |-> canary.route, until |-> expires]}
    /\ UNCHANGED <<instant, request>>

\* Not found, another model, no valid answer, none at all.  What an earlier
\* probe allowed it does not take back.
ProbeUnsupported ==
    /\ canary # Unused
    /\ canary' = Unused
    /\ UNCHANGED <<instant, tokens, request, answered>>

\* Faulty variant: the lease need only have begun to last.
AuthorizedNow(token, instance, route, minimumRemainingMs) ==
    /\ token \in tokens
    /\ instant < token.expires
    /\ token.instance = instance /\ token.route = route

\* verifyRuntimeCapabilityAuthorization
Authorized(token, instance, route, minimumRemainingMs) ==
    /\ token \in tokens
    /\ instant < token.expires
    /\ instant + minimumRemainingMs * TicksPerMs <= token.expires
    /\ token.instance = instance /\ token.route = route

-----------------------------------------------------------------------------
(* Preparing and dispatching.                                              *)

\* normalizeInvocation: a token where one is needed, and only there.
TokenFits(route, token) ==
    (StaticCapability[route] = "conditional") <=> (token # Unused)

\* capabilityLeaseIsAuthentic
LeaseIsAuthentic(instance, route, token, minimumRemainingMs) ==
    token # Unused => Authorized(token, instance, route, minimumRemainingMs)

\* prepareRuntimeInvocation.  Its deadline counts from its first reading of the
\* clock; the lease is verified at a later one.
Prepare(instance, route, token, deadline, started) ==
    /\ request = Unused
    /\ route \in Offered
    /\ TokenFits(route, token)
    /\ LeaseIsAuthentic(instance, route, token, deadline)
    /\ request' = [instance |-> instance, route |-> route, token |-> token,
                   expires |-> started + deadline * TicksPerMs,
                   budget |-> 0, at |-> 0, stage |-> "prepared"]
    /\ UNCHANGED <<instant, canary, tokens, answered>>

\* remainingPreparedDeadlineMs, rounded down.
RemainingMs ==
    IF request.expires <= instant THEN 0 ELSE (request.expires - instant) \div TicksPerMs

\* From a reading of what remains to the verification of the lease for it, and
\* on: three times, the last after the await of the pin.
Reading == [prepared |-> "authorizing", authorized |-> "binding", pinned |-> "opening"]
Verified == [authorizing |-> "authorized", binding |-> "pinning", opening |-> "open"]

\* dispatchPreparedRuntimeInvocation consumes the prepared invocation with its
\* first reading.
ReadRemaining ==
    /\ request # Unused
    /\ request.stage \in DOMAIN Reading
    /\ request' = IF RemainingMs < 1 THEN [request EXCEPT !.stage = "failed"]
                  ELSE [request EXCEPT !.stage = Reading[@], !.budget = RemainingMs]
    /\ UNCHANGED <<instant, canary, tokens, answered>>

VerifyLease ==
    /\ request # Unused
    /\ request.stage \in DOMAIN Verified
    /\ LET valid == LeaseIsAuthentic(request.instance, request.route, request.token,
                                     request.budget)
       IN  request' = [request EXCEPT !.stage = IF valid THEN Verified[@] ELSE "failed"]
    /\ tokens' = {t \in tokens : t # request.token \/ instant < t.expires}
    /\ UNCHANGED <<instant, canary, answered>>

Pinned ==
    /\ request # Unused
    /\ request.stage = "pinning"
    /\ \E stage \in {"pinned", "failed"} : request' = [request EXCEPT !.stage = stage]
    /\ UNCHANGED <<instant, canary, tokens, answered>>

\* The response is a success only within the deadline of the call; the lease is
\* not looked at again.
Responded ==
    /\ request # Unused
    /\ request.stage = "open"
    /\ request' = [request EXCEPT !.at = instant, !.stage =
                      IF RemainingMs < 1 THEN "failed" ELSE "completed"]
    /\ UNCHANGED <<instant, canary, tokens, answered>>

NoResponse ==
    /\ request # Unused
    /\ request.stage = "open"
    /\ request' = [request EXCEPT !.stage = "failed"]
    /\ UNCHANGED <<instant, canary, tokens, answered>>

\* The caller takes the outcome, or drops what it prepared.
TakeOutcome ==
    /\ request # Unused
    /\ request.stage \in {"prepared", "completed", "failed"}
    /\ request' = Unused
    /\ UNCHANGED <<instant, canary, tokens, answered>>

\* The process ends and another starts, which has seen nothing.
NewProcess ==
    /\ canary' = Unused
    /\ tokens' = {}
    /\ request' = Unused
    /\ answered' = {}
    /\ UNCHANGED instant

LeaseNext ==
    \/ TimePasses
    \/ \E i \in Instances, c \in Routes \cup {Passive}, l \in Lifetimes : StartProbe(i, c, l)
    \/ ProbeSupported
    \/ ProbeUnsupported
    \/ \E i \in Instances, r \in Routes, t \in tokens \cup {Unused, Copied}, d \in Deadlines,
          s \in {0, 1} : s <= instant /\ Prepare(i, r, t, d, instant - s)
    \/ ReadRemaining
    \/ VerifyLease
    \/ Pinned
    \/ Responded
    \/ NoResponse
    \/ TakeOutcome
    \/ NewProcess

LeaseSpec == LeaseInit /\ [][LeaseNext]_leaseVars

-----------------------------------------------------------------------------
(* Properties.                                                             *)

\* "The opaque lease must remain valid for the complete bounded operation"
\* (probe.ts): whatever a call on a conditional route still has to wait for, the
\* name server, a secret or the endpoint, it waits under one lease, of this very
\* route on this very instance, and a response that counts as a success came
\* within it, although nothing looks at the lease when it comes.
LeaseCovers ==
    /\ request # Unused
    /\ StaticCapability[request.route] = "conditional"
    => \E a \in answered :
           /\ a.instance = request.instance /\ a.route = request.route
           /\ request.stage # "failed" => request.expires <= a.until
           /\ request.stage = "completed" => request.at < a.until

=============================================================================
