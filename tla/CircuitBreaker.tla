--------------------------- MODULE CircuitBreaker ---------------------------
(***************************************************************************)
(* One HealthAwareBalancer (src/src/balancer/mod.rs): the circuit breakers *)
(* of a channel's endpoints, the requests that select an endpoint through  *)
(* it and report what became of the call (src/src/server/handlers), and    *)
(* the health probe, which calls endpoints without selecting them          *)
(* (src/src/service/health_probe.rs).                                      *)
(*                                                                         *)
(* A selection looks at the endpoints one after the other and takes the    *)
(* lock of each breaker on its own, so every look is a step.  A reload of  *)
(* the routing cache makes a new balancer; requests keep the one they got. *)
(***************************************************************************)
EXTENDS Integers, FiniteSets

CONSTANTS
  EndpointCount,   \* endpoints are 1..EndpointCount, in the channel's order
  Requests,        \* concurrent requests; a finished one may come again
  Threshold,       \* 3 in the code
  Weight,          \* Weight[e]: weight of endpoint e
  Probed,          \* endpoints the health probe can call: those without full_url
  MaxFailures,     \* bound on failure_count
  MaxCooldowns,    \* bound on the cooldowns that elapse
  MaxSwitches      \* bound on the times an endpoint is switched on or off

Endpoints == 1..EndpointCount

ASSUME BreakerAssumption ==
  /\ EndpointCount \in Nat
  /\ Threshold \in Nat \ {0}
  /\ Weight \in [Endpoints -> Nat]
  /\ Probed \subseteq Endpoints
  /\ MaxFailures \in Nat /\ MaxCooldowns \in Nat /\ MaxSwitches \in Nat

VARIABLES
  breaker,     \* breaker[e]: the fields of BreakerInner
  request,     \* request[r]: what r is doing with the balancer
  loaded,      \* endpoints enabled in the configuration the balancer was made from
  cooldowns,   \* cooldowns that have elapsed
  switches     \* times an endpoint was switched

vars == <<breaker, request, loaded, cooldowns, switches>>

\* last_failure: none, less than cooldown_secs ago, or longer ago
Ages == {"never", "recent", "cooled"}

Closed(enabled) ==
  [enabled |-> enabled, status |-> "closed", failures |-> 0,
   failed |-> "never", inFlight |-> FALSE]

\* look: the next endpoint a selection asks; available: those that said yes
Idle == [pc |-> "idle", look |-> 1, available |-> {}, endpoint |-> 0]

-----------------------------------------------------------------------------
(* CircuitBreaker *)

(* A definition named Mutant... is a plausible bug of the definition that follows  *)
(* it.  No specification uses it: the properties are tested against it.            *)

\* is_available, which claims the trial of a half-open breaker
Available(b) ==
  /\ b.enabled
  /\ \/ b.status = "closed"
     \/ b.status = "half_open" /\ ~b.inFlight
     \/ b.status = "open" /\ b.failed = "cooled"

\* the trial is granted but not claimed
MutantClaimed(b) ==
  IF b.status = "open" THEN [b EXCEPT !.status = "half_open", !.failures = 0] ELSE b

Claimed(b) ==
  CASE b.status = "closed" -> b
    [] b.status = "half_open" -> [b EXCEPT !.inFlight = TRUE]
    [] b.status = "open" -> [b EXCEPT !.status = "half_open", !.failures = 0,
                                      !.inFlight = TRUE]

\* the trial stays claimed and the breaker half-open
MutantSucceeded(b) == [b EXCEPT !.failures = 0]

\* record_success
Succeeded(b) == [b EXCEPT !.failures = 0, !.status = "closed", !.inFlight = FALSE]

\* record_failure
Failed(b) ==
  [b EXCEPT !.failures = @ + 1, !.failed = "recent", !.inFlight = FALSE,
            !.status = IF b.status = "half_open" \/ b.failures + 1 >= Threshold
                         THEN "open" ELSE @]

\* set_enabled
Switched(b, enabled) ==
  IF enabled /\ ~b.enabled THEN Closed(TRUE) ELSE [b EXCEPT !.enabled = enabled]

\* is_available_readonly, which agrees with is_available
Reachable(e) == Available(breaker[e])

-----------------------------------------------------------------------------

Init ==
  /\ loaded \in SUBSET Endpoints
  /\ breaker = [e \in Endpoints |-> Closed(e \in loaded)]
  /\ request = [r \in Requests |-> Idle]
  /\ cooldowns = 0 /\ switches = 0

\* resolve_route: a new request begins to select.
Begin(r) ==
  /\ request[r].pc = "idle"
  /\ request' = [request EXCEPT ![r].pc = "select"]
  /\ UNCHANGED <<breaker, loaded, cooldowns, switches>>

\* select: is_available of the next endpoint.
Look(r) ==
  LET e == request[r].look IN
  /\ request[r].pc = "select"
  /\ e \in Endpoints
  /\ IF Available(breaker[e])
       THEN /\ breaker' = [breaker EXCEPT ![e] = Claimed(@)]
            /\ request' = [request EXCEPT ![r].look = e + 1, ![r].available = @ \cup {e}]
       ELSE /\ request' = [request EXCEPT ![r].look = e + 1]
            /\ UNCHANGED breaker
  /\ UNCHANGED <<loaded, cooldowns, switches>>

\* pick_index: by turns, or by weight when the endpoints have different weights and
\* the available ones have any.  The counter is shared by all requests.
Pickable(available) ==
  LET weighted == {e \in available : Weight[e] > 0}
  IN  IF weighted = {} THEN available ELSE weighted

\* The end of select: an endpoint of those that said yes, or none at all.
Pick(r) ==
  /\ request[r].pc = "select"
  /\ request[r].look > EndpointCount
  /\ \/ /\ request[r].available = {}
        /\ request' = [request EXCEPT ![r] = Idle]
     \/ \E e \in Pickable(request[r].available) :
          request' = [request EXCEPT ![r] = [Idle EXCEPT !.pc = "call", !.endpoint = e]]
  /\ UNCHANGED <<breaker, loaded, cooldowns, switches>>

\* The upstream call succeeded: report_success, or a stream that reached its end.
CallSucceeds(r) ==
  /\ request[r].pc = "call"
  /\ breaker' = [breaker EXCEPT ![request[r].endpoint] = Succeeded(@)]
  /\ request' = [request EXCEPT ![r] = Idle]
  /\ UNCHANGED <<loaded, cooldowns, switches>>

\* a failed connection is not reported
MutantCallFails(r, retry) ==
  /\ request[r].pc = "call"
  /\ request' = [request EXCEPT ![r] = IF retry THEN [Idle EXCEPT !.pc = "select"] ELSE Idle]
  /\ UNCHANGED <<breaker, loaded, cooldowns, switches>>

\* It failed: report_failure, then another selection (retry_next; after a failed
\* connection always, after another retryable error while the budget lasts) or the
\* end of the request.
CallFails(r, retry) ==
  /\ request[r].pc = "call"
  /\ breaker[request[r].endpoint].failures < MaxFailures
  /\ breaker' = [breaker EXCEPT ![request[r].endpoint] = Failed(@)]
  /\ request' = [request EXCEPT ![r] = IF retry THEN [Idle EXCEPT !.pc = "select"] ELSE Idle]
  /\ UNCHANGED <<loaded, cooldowns, switches>>

\* No report: an error that is the client's, a client that went away, a stream that
\* was cut.
CallUnreported(r) ==
  /\ request[r].pc = "call"
  /\ request' = [request EXCEPT ![r] = Idle]
  /\ UNCHANGED <<breaker, loaded, cooldowns, switches>>

\* run_probe_job: the outcome of a call that was not selected.  The jobs are those of
\* the endpoints that the loaded configuration enables: a later toggle makes none.
Probe(e, ok) ==
  /\ e \in Probed \cap loaded
  /\ ok \/ breaker[e].failures < MaxFailures
  /\ breaker' = [breaker EXCEPT ![e] = IF ok THEN Succeeded(@) ELSE Failed(@)]
  /\ UNCHANGED <<request, loaded, cooldowns, switches>>

\* set_endpoint_enabled
SetEnabled(e, enabled) ==
  /\ switches < MaxSwitches
  /\ switches' = switches + 1
  /\ breaker' = [breaker EXCEPT ![e] = Switched(@, enabled)]
  /\ UNCHANGED <<request, loaded, cooldowns>>

\* cooldown_secs have passed since the last failure.
CoolDown(e) ==
  /\ breaker[e].failed = "recent"
  /\ cooldowns < MaxCooldowns
  /\ cooldowns' = cooldowns + 1
  /\ breaker' = [breaker EXCEPT ![e].failed = "cooled"]
  /\ UNCHANGED <<request, loaded, switches>>

-----------------------------------------------------------------------------
(* Specification *)

RequestStep ==
  \E r \in Requests :
    \/ Begin(r) \/ Look(r) \/ Pick(r)
    \/ CallSucceeds(r) \/ CallUnreported(r)
    \/ \E retry \in BOOLEAN : CallFails(r, retry)

EndpointStep ==
  \E e \in Endpoints :
    \/ CoolDown(e)
    \/ \E ok \in BOOLEAN : Probe(e, ok)
    \/ \E enabled \in BOOLEAN : SetEnabled(e, enabled)

Next == RequestStep \/ EndpointStep

Spec == Init /\ [][Next]_vars

\* A request that has begun goes on: a selection runs through, a call returns or
\* is given up.
GoesOn(r) ==
  \/ Look(r) \/ Pick(r) \/ CallSucceeds(r) \/ CallUnreported(r)
  \/ \E retry \in BOOLEAN : CallFails(r, retry)

-----------------------------------------------------------------------------
(* Properties *)

Breaker ==
  [enabled: BOOLEAN, status: {"closed", "open", "half_open"}, failures: Nat,
   failed: Ages, inFlight: BOOLEAN]

Request ==
  [pc: {"idle", "select", "call"}, look: Nat, available: SUBSET Endpoints,
   endpoint: {0} \cup Endpoints]

TypeOK ==
  /\ breaker \in [Endpoints -> Breaker]
  /\ request \in [Requests -> Request]
  /\ loaded \subseteq Endpoints
  /\ cooldowns \in Nat /\ switches \in Nat
  /\ \A r \in Requests : request[r].pc = "call" => request[r].endpoint \in Endpoints

\* A breaker that lets everybody pass has seen fewer than `threshold` failures since
\* the last success, whoever reports and however late; one that does not has a
\* failure to wait out.
FailuresCounted ==
  \A e \in Endpoints :
    /\ breaker[e].status = "closed" => breaker[e].failures < Threshold
    /\ breaker[e].status # "closed" => breaker[e].failed # "never"

\* "An Open breaker may grant exactly one trial request after its cooldown": though
\* selections overlap, none gets an endpoint whose breaker is half-open.  It is so
\* from the grant to the next report, which need not be the trial's: a call that began
\* before the breaker opened and succeeds late closes it, and the next selection gets
\* the endpoint with the trial still out.
OneTrial ==
  [][\A r \in Requests, e \in Endpoints :
       e \in request'[r].available \ request[r].available
         => breaker[e].status # "half_open"]_vars

\* An upstream call that ends well, of a request or of the probe.
Answers ==
  (\E e \in Probed : Probe(e, TRUE)) \/ (\E r \in Requests : CallSucceeds(r))

\* The retries of a request end.  Those after a failed connection have no budget:
\* it is the breakers that end them, unless they are closed again and again by calls
\* of others that succeed, or by cooldowns that elapse.
RetriesEnd ==
  <>[][~Answers]_vars
    => \A r \in Requests : request[r].pc # "idle" ~> request[r].pc = "idle"

\* The probe loop of main.rs calls every endpoint that the loaded configuration enables
\* again and again, also while a toggle has it off.  One that answers does not stay out
\* of the rotation: whatever became of the trials that were granted, it can be selected
\* again and again.  An endpoint that was loaded disabled and switched on later has no
\* such guarantee.
ProbedRecover ==
  \A e \in Probed :
    WF_vars(Probe(e, TRUE)) => []<>(e \in loaded /\ breaker[e].enabled => Reachable(e))
=============================================================================
