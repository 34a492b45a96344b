-------------------------- MODULE RequestLifecycle --------------------------
(***************************************************************************)
(* A chat completion from its arrival to its settlement                    *)
(* (src/src/server/handlers/openai.rs): the endpoint it selects, the       *)
(* reservation it makes, the call, the retries, the answer or the stream,  *)
(* and the finalizer that settles the reservation in a task of its own     *)
(* (src/src/service/token_reservation.rs).  The handler is a future: it    *)
(* can time out, and it is dropped when the client leaves, but only where  *)
(* it awaits something.                                                    *)
(*                                                                         *)
(* The module composes with CircuitBreaker.  The requests of Tracked come  *)
(* once and are seen from end to end; the others, of any kind and again    *)
(* and again, only at the breakers.  Billing is enabled.  What settlement  *)
(* does to grants and wallets is TokenBilling's, and where a usage record  *)
(* goes is UsagePipeline's.                                                *)
(***************************************************************************)
EXTENDS CircuitBreaker

CONSTANTS
  Tracked,      \* the requests whose handler is modelled
  MaxRetries,   \* max_retries of the gateway configuration
  MaxFaults     \* bound on the transactions that fail

ASSUME LifeAssumption ==
  /\ Tracked \subseteq Requests
  /\ MaxRetries \in Nat /\ MaxFaults \in Nat

VARIABLES
  life,    \* life[r]: the handler of r and what it leaves behind
  faults   \* transactions that have failed

lifeVars == <<breaker, request, loaded, cooldowns, switches, life, faults>>

\* stage: where the handler is; retries: the budget spent
\* hold: the reservation's row; tasks: the settlements that were spawned
\* failed: a transaction of the reservation failed
\* record: the usage record; flow: the entry of the flow tracker
\* answer: how the client was served
Unborn ==
  [stage |-> "idle", stream |-> FALSE, retries |-> 0, hold |-> "none", tasks |-> {},
   failed |-> FALSE, record |-> "none", flow |-> FALSE, answer |-> "none"]

-----------------------------------------------------------------------------
(* What the handlers do at their ends *)

\* the finalizer spawns the settlement of the given usage
Settling(l, usage) == [l EXCEPT !.tasks = @ \cup {usage}]

\* UsageService.record, which also ends the entry of the flow tracker
Recorded(l, usage) ==
  [l EXCEPT !.record = IF @ = "none" THEN usage ELSE "twice", !.flow = FALSE]

\* the handler is over, and what only it knew is gone
Ended(l, answer) ==
  [l EXCEPT !.stage = "idle", !.stream = FALSE, !.retries = 0, !.answer = answer]

\* the reservation is left to its expiry
MutantGivenUp(l) == Ended(Recorded(l, "zero"), "error")

\* release, a record without usage, an error
GivenUp(l) == Ended(Recorded(Settling(l, "zero"), "zero"), "error")

-----------------------------------------------------------------------------
(* The handler *)

LifeInit == Init /\ life = [r \in Tracked |-> Unborn] /\ faults = 0

\* chat_completions begins: resolve_route selects an endpoint.
Accept(r, stream) ==
  /\ life[r] = Unborn
  /\ Begin(r)
  /\ life' = [life EXCEPT ![r].stage = "route", ![r].stream = stream]
  /\ UNCHANGED faults

\* The selection ends.  The first leads to mark_accepted, a later one (retry_next)
\* to another call; without an endpoint the request is over.
Routed(r) ==
  /\ Pick(r)
  /\ life' = [life EXCEPT ![r] =
       CASE request'[r].pc = "call" /\ @.stage = "route" ->
              [@ EXCEPT !.stage = "accepted", !.flow = TRUE]
         [] request'[r].pc = "call" /\ @.stage = "retry" -> [@ EXCEPT !.stage = "upstream"]
         [] request'[r].pc = "idle" /\ @.stage = "route" -> Ended(@, "error")
         [] request'[r].pc = "idle" /\ @.stage = "retry" -> GivenUp(@)]
  /\ UNCHANGED faults

\* the flow entry of a request that cannot pay stays
MutantRefuse(r) ==
  /\ life[r].stage = "accepted"
  /\ CallUnreported(r)
  /\ life' = [life EXCEPT ![r] = Ended(@, "error")]
  /\ UNCHANGED faults

\* The content filter blocks the request, or no reservation can be made, though a
\* COMMIT that was reported as failed may have made it: mark_completed.
Refuse(r) ==
  /\ life[r].stage = "accepted"
  /\ CallUnreported(r)
  /\ \/ /\ life' = [life EXCEPT ![r] = Ended([@ EXCEPT !.flow = FALSE], "error")]
        /\ UNCHANGED faults
     \/ /\ faults < MaxFaults
        /\ faults' = faults + 1
        /\ life' = [life EXCEPT ![r] =
             Ended([@ EXCEPT !.flow = FALSE, !.hold = "reserved", !.failed = TRUE], "error")]

\* reserve
Reserve(r) ==
  /\ life[r].stage = "accepted"
  /\ life' = [life EXCEPT ![r].hold = "reserved", ![r].stage = "upstream"]
  /\ UNCHANGED <<vars, faults>>

\* reserve, then the answer that was set aside from the response cache: billed as
\* any other, but nothing is said to the breaker whose endpoint was selected.
ServeHit(r) ==
  /\ life[r].stage = "accepted"
  /\ ~life[r].stream
  /\ CallUnreported(r)
  /\ life' = [life EXCEPT ![r] =
       Ended(Recorded(Settling([@ EXCEPT !.hold = "reserved"], "usage"), "usage"), "ok")]
  /\ UNCHANGED faults

\* handle_non_streaming, Ok: settle_usage and the record, then cache.set is awaited.
Serve(r) ==
  /\ life[r].stage = "upstream" /\ ~life[r].stream
  /\ life' = [life EXCEPT ![r] =
       [Recorded(Settling(@, "usage"), "usage") EXCEPT !.stage = "stored"]]
  /\ UNCHANGED <<vars, faults>>

\* report_success, and the answer.
Return(r) ==
  /\ life[r].stage = "stored"
  /\ CallSucceeds(r)
  /\ life' = [life EXCEPT ![r] = Ended(@, "ok")]
  /\ UNCHANGED faults

\* ErrorKind::ConnectFailed: another endpoint, whatever is left of the budget.
ConnectFailed(r) ==
  /\ life[r].stage = "upstream" /\ ~life[r].stream
  /\ CallFails(r, TRUE)
  /\ life' = [life EXCEPT ![r].stage = "retry"]
  /\ UNCHANGED faults

\* is_retryable_error: another endpoint while the budget lasts.
CallRetryable(r) ==
  /\ life[r].stage = "upstream" /\ ~life[r].stream
  /\ \/ /\ life[r].retries < MaxRetries
        /\ CallFails(r, TRUE)
        /\ life' = [life EXCEPT ![r].stage = "retry", ![r].retries = @ + 1]
     \/ /\ life[r].retries >= MaxRetries
        /\ CallFails(r, FALSE)
        /\ life' = [life EXCEPT ![r] = GivenUp(@)]
  /\ UNCHANGED faults

\* Any other error is the client's.
Reject(r) ==
  /\ life[r].stage = "upstream" /\ ~life[r].stream
  /\ CallUnreported(r)
  /\ life' = [life EXCEPT ![r] = GivenUp(@)]
  /\ UNCHANGED faults

\* handle_streaming, Err: any error is the endpoint's, and there is no retry.
OpenFails(r) ==
  /\ life[r].stage = "upstream" /\ life[r].stream
  /\ CallFails(r, FALSE)
  /\ life' = [life EXCEPT ![r] = GivenUp(@)]
  /\ UNCHANGED faults

\* handle_streaming, Ok: the handler returns, the body goes on.
Open(r) ==
  /\ life[r].stage = "upstream" /\ life[r].stream
  /\ life' = [life EXCEPT ![r].stage = "stream"]
  /\ UNCHANGED <<vars, faults>>

\* recorded is not set: the drop of the stream records once more
MutantStreamEnds(r, answer) ==
  /\ life[r].stage = "stream"
  /\ CallSucceeds(r)
  /\ life' = [life EXCEPT ![r] =
       Ended(Recorded(Recorded(Settling(@, "usage"), "usage"), "usage"), answer)]
  /\ UNCHANGED faults

\* UsageTrackingStream sees the end of the stream.  A timeout of IdleTimeoutStream and
\* an overflow of SseBuffer ("cut") end it just as the upstream does.
StreamEnds(r, answer) ==
  /\ life[r].stage = "stream"
  /\ CallSucceeds(r)
  /\ life' = [life EXCEPT ![r] = Ended(Recorded(Settling(@, "usage"), "usage"), answer)]
  /\ UNCHANGED faults

\* the whole estimate is charged for a stream the client left
MutantStreamDropped(r) ==
  /\ life[r].stage = "stream"
  /\ CallUnreported(r)
  /\ life' = [life EXCEPT ![r] = Ended(Recorded(Settling(@, "usage"), "partial"), "gone")]
  /\ UNCHANGED faults

\* Drop of UsageTrackingStream: release_partial with what was seen so far.
StreamDropped(r) ==
  /\ life[r].stage = "stream"
  /\ CallUnreported(r)
  /\ life' = [life EXCEPT ![r] = Ended(Recorded(Settling(@, "partial"), "partial"), "gone")]
  /\ UNCHANGED faults

-----------------------------------------------------------------------------
(* What cuts the handler off where it awaits, and the tasks it leaves *)

\* tokio::time::timeout: the future is dropped; a second finalizer, which does not
\* know of the first, releases the reservation.
HandlerTimesOut(r) ==
  /\ life[r].stage \in {"upstream", "stored"}
  /\ CallUnreported(r)
  /\ life' = [life EXCEPT ![r] = Ended(Settling([@ EXCEPT !.flow = FALSE], "zero"), "timeout")]
  /\ UNCHANGED faults

\* The client leaves and the handler is dropped without a word; a reservation that was
\* being made may have been.
ClientLeaves(r) ==
  /\ life[r].stage \in {"accepted", "upstream", "stored"}
  /\ CallUnreported(r)
  /\ \E hold \in IF life[r].stage = "accepted" THEN {"none", "reserved"}
                                              ELSE {life[r].hold} :
       life' = [life EXCEPT ![r] = Ended([@ EXCEPT !.hold = hold], "gone")]
  /\ UNCHANGED faults

\* settle_token_request: the first to find the row reserved decides.
Settle(r, usage) ==
  /\ usage \in life[r].tasks
  /\ life' = [life EXCEPT ![r].tasks = @ \ {usage},
                          ![r].hold = IF @ = "reserved" THEN usage ELSE @]
  /\ UNCHANGED <<vars, faults>>

\* It fails: the finalizer can be used again, but nobody holds it.
SettleFails(r, usage) ==
  /\ usage \in life[r].tasks
  /\ faults < MaxFaults
  /\ faults' = faults + 1
  /\ life' = [life EXCEPT ![r].tasks = @ \ {usage}, ![r].failed = TRUE]
  /\ UNCHANGED vars

\* The reclaimer.  expires_at is a minute after the timeout of the handler, so only a
\* stream can still be running.
Reclaim(r) ==
  /\ life[r].hold = "reserved"
  /\ life[r].stage \in {"idle", "stream"}
  /\ life' = [life EXCEPT ![r].hold = "expired"]
  /\ UNCHANGED <<vars, faults>>

-----------------------------------------------------------------------------
(* Specification *)

\* The requests seen only at the breakers.
OtherStep(r) ==
  /\ \/ Begin(r) \/ GoesOn(r)
  /\ UNCHANGED <<life, faults>>

CallStep(r) ==
  \/ Serve(r) \/ Return(r) \/ ConnectFailed(r) \/ CallRetryable(r) \/ Reject(r)
  \/ OpenFails(r) \/ Open(r) \/ StreamDropped(r)
  \/ \E answer \in {"ok", "cut"} : StreamEnds(r, answer)

HandlerStep(r) ==
  \/ Look(r) /\ UNCHANGED <<life, faults>>
  \/ Routed(r) \/ Refuse(r) \/ Reserve(r) \/ ServeHit(r)
  \/ CallStep(r)
  \/ HandlerTimesOut(r) \/ ClientLeaves(r)

AfterStep(r) ==
  \/ Reclaim(r)
  \/ \E usage \in life[r].tasks : Settle(r, usage) \/ SettleFails(r, usage)

LifeNext ==
  \/ \E r \in Requests \ Tracked : OtherStep(r)
  \/ \E r \in Tracked :
       \/ \E stream \in BOOLEAN : Accept(r, stream)
       \/ HandlerStep(r) \/ AfterStep(r)
  \/ EndpointStep /\ UNCHANGED <<life, faults>>

LifeSpec == LifeInit /\ [][LifeNext]_lifeVars

\* A request that has begun goes on: every await of a handler ends, at the latest by
\* the timeout, and so does every stream, by its idle timeout.
LifeFairSpec ==
  /\ LifeSpec
  /\ \A r \in Tracked : WF_lifeVars(HandlerStep(r))
  /\ \A r \in Requests \ Tracked : WF_lifeVars(GoesOn(r) /\ UNCHANGED <<life, faults>>)

-----------------------------------------------------------------------------
(* Properties *)

Usages == {"usage", "partial", "zero"}

Life ==
  [stage: {"idle", "route", "accepted", "upstream", "stored", "stream", "retry"},
   stream: BOOLEAN, retries: 0..MaxRetries,
   hold: {"none", "reserved", "expired"} \cup Usages, tasks: SUBSET Usages,
   failed: BOOLEAN, record: {"none", "twice"} \cup Usages, flow: BOOLEAN,
   answer: {"none", "ok", "error", "cut", "gone", "timeout"}]

\* The handler and its place at the breakers agree: it selects, or calls the endpoint
\* it was given, or is not there.
LifeTypeOK ==
  /\ TypeOK
  /\ life \in [Tracked -> Life]
  /\ faults \in Nat
  /\ \A r \in Tracked :
       request[r].pc = CASE life[r].stage = "idle" -> "idle"
                         [] life[r].stage \in {"route", "retry"} -> "select"
                         [] OTHER -> "call"

\* A reservation is settled for what the usage record says, although the settlement
\* and the record go different ways.  Only the timeout of a handler, which has no
\* record or comes after one, and the expiry of the reservation part them.
SettledAsRecorded ==
  \A r \in Tracked :
    life[r].hold \in Usages => life[r].record = life[r].hold \/ life[r].answer = "timeout"

\* Every request that made a reservation leaves one usage record, however it ends;
\* none only when it timed out or its client left before an answer.
OneRecord ==
  \A r \in Tracked :
    /\ life[r].record # "twice"
    /\ life[r].stage = "idle" /\ life[r].hold # "none" /\ life[r].record = "none"
         => life[r].answer \in {"timeout", "gone"} \/ life[r].failed

\* A request that is over is not counted as in flight, unless its client left before
\* an answer.
NoLeakedFlow ==
  \A r \in Tracked : life[r].stage = "idle" /\ life[r].flow => life[r].answer = "gone"

\* No handler ends without a settlement under way: only a transaction that failed and
\* a client that left before an answer leave a reservation to its expiry.
NoOrphanedHold ==
  \A r \in Tracked :
    life[r].stage = "idle" /\ life[r].hold = "reserved" /\ life[r].tasks = {}
      => life[r].answer = "gone" \/ life[r].failed

=============================================================================
