----------------------- MODULE RequestLifecycleProofs -----------------------
(***************************************************************************)
(* Proofs about CircuitBreaker and RequestLifecycle for any number of      *)
(* requests, endpoints, retries and failures and any threshold: the fields *)
(* of a breaker fit together after every operation, so a half-open breaker *)
(* always has its trial claimed; at every stage of a handler the           *)
(* reservation, the settlements under way and the usage record fit         *)
(* together; and to the breakers the requests of RequestLifecycle are      *)
(* those of CircuitBreaker.                                                *)
(***************************************************************************)
EXTENDS RequestLifecycle, TLAPS

-----------------------------------------------------------------------------
(* The breakers *)

\* What every operation keeps of the fields of one breaker: FailuresCounted, and
\* half-open means claimed.
Sound(b) ==
  /\ b \in Breaker
  /\ b.status = "closed" => b.failures < Threshold
  /\ b.status # "closed" => b.failed # "never"
  /\ b.status = "half_open" <=> b.inFlight = TRUE

\* The inductive invariant.
IInv ==
  /\ \A e \in Endpoints : Sound(breaker[e])
  /\ TypeOK

USE BreakerAssumption

\* A new breaker, and one that is switched on again, is sound.
LEMMA ClosedSound == ASSUME NEW on \in BOOLEAN PROVE Sound(Closed(on))
BY DEF Sound, Closed, Breaker, Ages

\* is_available leaves a sound breaker behind when it says yes.
LEMMA ClaimedSound ==
  ASSUME NEW b, Sound(b), Available(b) PROVE Sound(Claimed(b))
BY DEF Sound, Claimed, Available, Breaker, Ages

\* So does record_success ...
LEMMA SucceededSound == ASSUME NEW b, Sound(b) PROVE Sound(Succeeded(b))
<1>1. b \in Breaker
  BY DEF Sound
<1>2. Succeeded(b) \in Breaker
  BY <1>1 DEF Succeeded, Breaker
<1>3. /\ Succeeded(b).status = "closed" /\ Succeeded(b).failures = 0
      /\ Succeeded(b).inFlight = FALSE
  BY <1>1 DEF Succeeded, Breaker
<1> QED
  BY <1>2, <1>3 DEF Sound

\* ... record_failure, ...
LEMMA FailedSound == ASSUME NEW b, Sound(b) PROVE Sound(Failed(b))
<1>1. b \in Breaker
  BY DEF Sound
<1>2. Failed(b) \in Breaker
  <2> DEFINE status == IF b.status = "half_open" \/ b.failures + 1 >= Threshold
                         THEN "open" ELSE b.status
  <2>1. status \in {"closed", "open", "half_open"} /\ b.failures + 1 \in Nat
    BY <1>1 DEF Breaker
  <2>2. Failed(b) = [b EXCEPT !.failures = b.failures + 1, !.failed = "recent",
                              !.inFlight = FALSE, !.status = status]
    BY DEF Failed
  <2> HIDE DEF status
  <2> QED
    BY <1>1, <2>1, <2>2 DEF Breaker, Ages
<1>3. /\ Failed(b).failures = b.failures + 1 /\ Failed(b).failed = "recent"
      /\ Failed(b).inFlight = FALSE
  BY <1>1 DEF Failed, Breaker
<1>4. Failed(b).status = "closed" => b.failures + 1 < Threshold
  BY <1>1 DEF Failed, Breaker
<1>5. Failed(b).status # "half_open"
  BY <1>1 DEF Failed, Breaker
<1> QED
  BY <1>2, <1>3, <1>4, <1>5 DEF Sound

\* ... set_enabled ...
LEMMA SwitchedSound ==
  ASSUME NEW b, Sound(b), NEW on \in BOOLEAN PROVE Sound(Switched(b, on))
BY ClosedSound DEF Sound, Switched, Breaker, Ages

\* ... and the passing of time.
LEMMA CooledSound ==
  ASSUME NEW b, Sound(b) PROVE Sound([b EXCEPT !.failed = "cooled"])
BY DEF Sound, Breaker, Ages

\* Replacing one breaker by a sound one keeps all of them sound.
LEMMA OneSound ==
  ASSUME IInv, NEW e \in Endpoints, NEW b, Sound(b),
         breaker' = [breaker EXCEPT ![e] = b]
  PROVE  /\ \A f \in Endpoints : Sound(breaker'[f])
         /\ breaker' \in [Endpoints -> Breaker]
BY DEF IInv, TypeOK, Sound

\* A request that ends or goes back to selecting is still a request.
LEMMA RequestReset ==
  ASSUME NEW retry \in BOOLEAN
  PROVE  (IF retry THEN [Idle EXCEPT !.pc = "select"] ELSE Idle) \in Request
BY DEF Idle, Request

\* The candidates a selection picks from are endpoints that said yes.
LEMMA PickableAvailable ==
  ASSUME NEW available PROVE Pickable(available) \subseteq available
BY DEF Pickable

LEMMA InitIInv == Init => IInv
<1> SUFFICES ASSUME Init PROVE IInv
  OBVIOUS
<1>1. \A e \in Endpoints : breaker[e] = Closed(e \in loaded) /\ (e \in loaded) \in BOOLEAN
  BY DEF Init
<1>2. \A e \in Endpoints : Sound(breaker[e])
  BY <1>1, ClosedSound
<1>3. breaker \in [Endpoints -> Breaker]
  BY <1>2 DEF Init, Sound
<1>4. Idle \in Request
  BY DEF Idle, Request
<1>5. request \in [Requests -> Request] /\ \A r \in Requests : request[r].pc # "call"
  BY <1>4 DEF Init, Idle
<1> QED
  BY <1>2, <1>3, <1>5 DEF IInv, TypeOK, Init

LEMMA NextIInv == IInv /\ [Next]_vars => IInv'
<1> SUFFICES ASSUME IInv, [Next]_vars PROVE IInv'
  OBVIOUS
<1> USE DEF IInv, TypeOK
<1>1. ASSUME NEW r \in Requests, Begin(r) PROVE IInv'
  <2>1. [request[r] EXCEPT !.pc = "select"] \in Request
    BY DEF Request
  <2> QED
    BY <1>1, <2>1 DEF Begin, Request
<1>2. ASSUME NEW r \in Requests, Look(r) PROVE IInv'
  <2> DEFINE e == request[r].look
  <2>1. e \in Endpoints /\ e + 1 \in Nat
    BY <1>2 DEF Look, Endpoints
  <2>2. /\ \A f \in Endpoints : Sound(breaker'[f])
        /\ breaker' \in [Endpoints -> Breaker]
    <3>1. CASE Available(breaker[e])
      <4>1. Sound(Claimed(breaker[e]))
        BY <2>1, <3>1, ClaimedSound
      <4>2. breaker' = [breaker EXCEPT ![e] = Claimed(breaker[e])]
        BY <1>2, <3>1 DEF Look
      <4> QED
        BY <2>1, <4>1, <4>2, OneSound
    <3>2. CASE ~Available(breaker[e])
      BY <1>2, <3>2 DEF Look
    <3> QED
      BY <3>1, <3>2
  <2>3. request[r] \in Request
    OBVIOUS
  <2>4. /\ [request[r] EXCEPT !.look = e + 1] \in Request
        /\ [request[r] EXCEPT !.look = e + 1, !.available = @ \cup {e}] \in Request
    BY <2>1, <2>3 DEF Request
  <2>5. \/ request' = [request EXCEPT ![r] = [request[r] EXCEPT !.look = e + 1]]
        \/ request' = [request EXCEPT
             ![r] = [request[r] EXCEPT !.look = e + 1, !.available = @ \cup {e}]]
    BY <1>2 DEF Look
  <2>6. request'[r].pc = "select"
    BY <1>2, <2>5 DEF Look, Request
  <2>7. request' \in [Requests -> Request]
    BY <2>4, <2>5
  <2>8. \A q \in Requests : q # r => request'[q] = request[q]
    BY <2>5
  <2>9. loaded' = loaded /\ cooldowns' = cooldowns /\ switches' = switches
    BY <1>2 DEF Look
  <2> QED
    BY <2>2, <2>6, <2>7, <2>8, <2>9
<1>3. ASSUME NEW r \in Requests, Pick(r) PROVE IInv'
  <2>1. CASE request' = [request EXCEPT ![r] = Idle]
    <3>1. Idle \in Request /\ Idle.pc # "call"
      BY DEF Idle, Request
    <3> QED
      BY <1>3, <2>1, <3>1 DEF Pick
  <2>2. ASSUME NEW e \in Pickable(request[r].available),
               request' = [request EXCEPT ![r] = [Idle EXCEPT !.pc = "call", !.endpoint = e]]
        PROVE  IInv'
    <3>1. e \in Endpoints
      BY <2>2, PickableAvailable DEF Request
    <3>2. /\ [Idle EXCEPT !.pc = "call", !.endpoint = e] \in Request
          /\ [Idle EXCEPT !.pc = "call", !.endpoint = e].endpoint = e
      BY <3>1 DEF Idle, Request
    <3> QED
      BY <1>3, <2>2, <3>1, <3>2 DEF Pick
  <2> QED
    BY <1>3, <2>1, <2>2 DEF Pick
<1>4. ASSUME NEW r \in Requests, CallSucceeds(r) PROVE IInv'
  <2> DEFINE e == request[r].endpoint
  <2>1. e \in Endpoints
    BY <1>4 DEF CallSucceeds
  <2>2. /\ \A f \in Endpoints : Sound(breaker'[f])
        /\ breaker' \in [Endpoints -> Breaker]
    BY <1>4, <2>1, SucceededSound, OneSound DEF CallSucceeds
  <2>3. Idle \in Request /\ Idle.pc # "call"
    BY DEF Idle, Request
  <2> QED
    BY <1>4, <2>2, <2>3 DEF CallSucceeds
<1>5. ASSUME NEW r \in Requests, NEW retry \in BOOLEAN, CallFails(r, retry) PROVE IInv'
  <2> DEFINE e == request[r].endpoint
             next == IF retry THEN [Idle EXCEPT !.pc = "select"] ELSE Idle
  <2>1. e \in Endpoints
    BY <1>5 DEF CallFails
  <2>2. /\ \A f \in Endpoints : Sound(breaker'[f])
        /\ breaker' \in [Endpoints -> Breaker]
    BY <1>5, <2>1, FailedSound, OneSound DEF CallFails
  <2>3. next \in Request /\ next.pc # "call"
    BY DEF Idle, Request
  <2>4. request' = [request EXCEPT ![r] = next]
    BY <1>5 DEF CallFails
  <2> HIDE DEF next
  <2> QED
    BY <1>5, <2>2, <2>3, <2>4 DEF CallFails
<1>6. ASSUME NEW r \in Requests, CallUnreported(r) PROVE IInv'
  <2>1. Idle \in Request /\ Idle.pc # "call"
    BY DEF Idle, Request
  <2> QED
    BY <1>6, <2>1 DEF CallUnreported
<1>7. ASSUME NEW e \in Endpoints, NEW ok \in BOOLEAN, Probe(e, ok) PROVE IInv'
  <2>1. Sound(IF ok THEN Succeeded(breaker[e]) ELSE Failed(breaker[e]))
    BY SucceededSound, FailedSound
  <2>2. /\ \A f \in Endpoints : Sound(breaker'[f])
        /\ breaker' \in [Endpoints -> Breaker]
    BY <1>7, <2>1, OneSound DEF Probe
  <2> QED
    BY <1>7, <2>2 DEF Probe
<1>8. ASSUME NEW e \in Endpoints, NEW on \in BOOLEAN, SetEnabled(e, on) PROVE IInv'
  <2>1. /\ \A f \in Endpoints : Sound(breaker'[f])
        /\ breaker' \in [Endpoints -> Breaker]
    BY <1>8, SwitchedSound, OneSound DEF SetEnabled
  <2> QED
    BY <1>8, <2>1 DEF SetEnabled
<1>9. ASSUME NEW e \in Endpoints, CoolDown(e) PROVE IInv'
  <2>1. breaker' = [breaker EXCEPT ![e] = [breaker[e] EXCEPT !.failed = "cooled"]]
    BY <1>9 DEF CoolDown
  <2>2. /\ \A f \in Endpoints : Sound(breaker'[f])
        /\ breaker' \in [Endpoints -> Breaker]
    BY <2>1, CooledSound, OneSound
  <2> QED
    BY <1>9, <2>2 DEF CoolDown
<1>10. CASE UNCHANGED vars
  BY <1>10 DEF vars
<1> QED
  BY <1>1, <1>2, <1>3, <1>4, <1>5, <1>6, <1>7, <1>8, <1>9, <1>10
  DEF Next, RequestStep, EndpointStep

LEMMA IInvHolds == Spec => []IInv
BY InitIInv, NextIInv, PTL DEF Spec

\* Every reachable state is well typed; in particular a call always goes to an
\* endpoint of the balancer, for every selection that came before it.
THEOREM BreakerTypeCorrect == Spec => []TypeOK
<1>1. IInv => TypeOK
  BY DEF IInv
<1> QED
  BY <1>1, IInvHolds, PTL

\* record_failure opens a breaker at the threshold and not later, and a breaker that
\* is not closed has a failure to wait out, for every number of reporters.
THEOREM FailuresCountedHolds == Spec => []FailuresCounted
<1>1. IInv => FailuresCounted
  BY DEF IInv, Sound, FailuresCounted
<1> QED
  BY <1>1, IInvHolds, PTL

\* While a breaker is half-open no selection, of any number that overlap, is given its
\* endpoint: from the grant of a trial to the next report of any call.
THEOREM OneTrialHolds == Spec => OneTrial
<1> DEFINE Exclusive ==
      \A r \in Requests, e \in Endpoints :
        e \in request'[r].available \ request[r].available
          => breaker[e].status # "half_open"
<1>1. IInv /\ [Next]_vars => [Exclusive]_vars
  <2> SUFFICES ASSUME IInv, [Next]_vars,
                      NEW r \in Requests, NEW e \in Endpoints,
                      e \in request'[r].available, e \notin request[r].available
               PROVE  breaker[e].status # "half_open"
    OBVIOUS
  <2> USE DEF IInv, TypeOK
  <2>1. ASSUME NEW q \in Requests, Look(q) PROVE breaker[e].status # "half_open"
    <3>1. r = q /\ e = request[q].look /\ Available(breaker[e])
      BY <2>1 DEF Look, Request
    <3>2. Sound(breaker[e])
      OBVIOUS
    <3> QED
      BY <3>1, <3>2 DEF Available, Sound, Breaker
  <2>2. ASSUME NEW q \in Requests,
               Begin(q) \/ CallSucceeds(q) \/ CallUnreported(q)
                 \/ \E retry \in BOOLEAN : CallFails(q, retry)
        PROVE  FALSE
    BY <2>2 DEF Begin, CallSucceeds, CallUnreported, CallFails, Idle, Request
  <2>3. ASSUME NEW q \in Requests, Pick(q) PROVE FALSE
    <3>1. CASE request' = [request EXCEPT ![q] = Idle]
      BY <3>1 DEF Idle
    <3>2. ASSUME NEW f \in Pickable(request[q].available),
                 request' = [request EXCEPT ![q] = [Idle EXCEPT !.pc = "call", !.endpoint = f]]
          PROVE  FALSE
      BY <3>2 DEF Idle
    <3> QED
      BY <2>3, <3>1, <3>2 DEF Pick
  <2>4. CASE EndpointStep
    BY <2>4 DEF EndpointStep, CoolDown, Probe, SetEnabled
  <2>5. CASE UNCHANGED vars
    BY <2>5 DEF vars
  <2> QED
    BY <2>1, <2>2, <2>3, <2>4, <2>5 DEF Next, RequestStep
<1> QED
  BY <1>1, IInvHolds, PTL DEF Spec, OneTrial

-----------------------------------------------------------------------------
(* The handlers *)

\* What one request has at each stage, whatever the others do.  The settlements under
\* way are for what the record says too: that makes SettledAsRecorded inductive.
Fits(l) ==
  /\ l \in Life
  /\ l.stage \in {"route", "accepted", "upstream", "retry", "stream"}
       => l.record = "none" /\ l.tasks = {} /\ l.answer = "none"
  /\ l.stage = "route" => l.hold = "none" /\ ~l.flow
  /\ l.stage = "accepted" => l.hold = "none"
  /\ l.stage = "stored" => l.record = "usage" /\ ~l.flow /\ l.answer = "none"
  /\ l.record # "twice"
  /\ l.answer # "timeout"
       => l.tasks \subseteq {l.record} /\ (l.hold \in Usages => l.hold = l.record)
  /\ l.stage \in {"idle", "stored"} /\ l.hold = "reserved" /\ l.tasks = {}
       => l.answer = "gone" \/ l.failed
  /\ l.stage = "idle" /\ l.hold # "none" /\ l.record = "none"
       => l.answer \in {"timeout", "gone"} \/ l.failed
  /\ l.stage = "idle" /\ l.flow => l.answer = "gone"

\* The place at the breakers that belongs to a stage.
PlaceOf(stage) ==
  CASE stage = "idle" -> "idle"
    [] stage \in {"route", "retry"} -> "select"
    [] OTHER -> "call"

\* The inductive invariant.
LifeInv ==
  /\ life \in [Tracked -> Life]
  /\ faults \in Nat
  /\ \A r \in Tracked : Fits(life[r]) /\ request[r].pc = PlaceOf(life[r].stage)

USE LifeAssumption

-----------------------------------------------------------------------------
(* The handler's steps at the breakers *)

\* Each step of a handler is a step of its request at the breakers, or none.
LEMMA HandlerRefines ==
  ASSUME NEW r \in Requests, HandlerStep(r) PROVE [Next]_vars
<1>1. CASE \/ Look(r) \/ Pick(r) \/ CallSucceeds(r) \/ CallUnreported(r)
           \/ \E retry \in BOOLEAN : CallFails(r, retry)
  BY <1>1 DEF Next, RequestStep
<1>2. CASE UNCHANGED vars
  BY <1>2
<1>3. Refuse(r) \/ ServeHit(r) \/ Reject(r) \/ StreamDropped(r) \/ HandlerTimesOut(r)
        \/ ClientLeaves(r) => CallUnreported(r)
  BY DEF Refuse, ServeHit, Reject, StreamDropped, HandlerTimesOut, ClientLeaves
<1>4. Return(r) \/ (\E answer \in {"ok", "cut"} : StreamEnds(r, answer)) => CallSucceeds(r)
  BY DEF Return, StreamEnds
<1>5. ConnectFailed(r) \/ CallRetryable(r) \/ OpenFails(r)
        => \E retry \in BOOLEAN : CallFails(r, retry)
  BY DEF ConnectFailed, CallRetryable, OpenFails
<1>6. Reserve(r) \/ Serve(r) \/ Open(r) => UNCHANGED vars
  BY DEF Reserve, Serve, Open
<1>7. Routed(r) => Pick(r)
  BY DEF Routed
<1> QED
  BY <1>1, <1>2, <1>3, <1>4, <1>5, <1>6, <1>7 DEF HandlerStep, CallStep

\* What other requests do at the breakers, they do as before.
LEMMA OtherRefines ==
  ASSUME NEW r \in Requests, OtherStep(r) PROVE [Next]_vars
BY DEF OtherStep, GoesOn, Next, RequestStep

LEMMA StepRefines == [LifeNext]_lifeVars => [Next]_vars
<1> SUFFICES ASSUME [LifeNext]_lifeVars PROVE [Next]_vars
  OBVIOUS
<1>1. ASSUME NEW r \in Requests \ Tracked, OtherStep(r) PROVE [Next]_vars
  BY <1>1, OtherRefines
<1>2. ASSUME NEW r \in Tracked, NEW stream \in BOOLEAN, Accept(r, stream)
      PROVE  [Next]_vars
  BY <1>2 DEF Accept, Next, RequestStep
<1>3. ASSUME NEW r \in Tracked, HandlerStep(r) PROVE [Next]_vars
  BY <1>3, HandlerRefines
<1>4. ASSUME NEW r \in Tracked, AfterStep(r) PROVE [Next]_vars
  BY <1>4 DEF AfterStep, Reclaim, Settle, SettleFails
<1>5. CASE EndpointStep
  BY <1>5 DEF Next
<1>6. CASE UNCHANGED lifeVars
  BY <1>6 DEF lifeVars, vars
<1> QED
  BY <1>1, <1>2, <1>3, <1>4, <1>5, <1>6 DEF LifeNext

\* The composition implements CircuitBreaker: whatever stage a handler is at, timed
\* out or left by its client, the breakers see what that module allows.
THEOREM LifeImplementsBreaker == LifeSpec => Spec
<1>1. LifeInit => Init
  BY DEF LifeInit
<1> QED
  BY <1>1, StepRefines, PTL DEF LifeSpec, Spec

\* In the composition too a closed breaker has seen fewer failures than the threshold.
THEOREM LifeFailuresCounted == LifeSpec => []FailuresCounted
BY LifeImplementsBreaker, FailuresCountedHolds, PTL

\* In the composition too no selection is given the endpoint of a half-open breaker.
THEOREM LifeOneTrial == LifeSpec => OneTrial
BY LifeImplementsBreaker, OneTrialHolds, PTL

-----------------------------------------------------------------------------
(* What the helpers make of a request, field by field *)

LEMMA SettlingFields ==
  ASSUME NEW l \in Life, NEW u \in Usages
  PROVE  /\ Settling(l, u) \in Life
         /\ Settling(l, u).tasks = l.tasks \cup {u}
         /\ \A m \in {Settling(l, u)} :
              /\ m.stage = l.stage /\ m.hold = l.hold /\ m.failed = l.failed
              /\ m.record = l.record /\ m.flow = l.flow /\ m.answer = l.answer
BY DEF Settling, Life

LEMMA RecordedFields ==
  ASSUME NEW l \in Life, NEW u \in Usages, l.record = "none"
  PROVE  /\ Recorded(l, u) \in Life
         /\ Recorded(l, u).record = u /\ ~Recorded(l, u).flow
         /\ \A m \in {Recorded(l, u)} :
              /\ m.stage = l.stage /\ m.hold = l.hold /\ m.tasks = l.tasks
              /\ m.failed = l.failed /\ m.answer = l.answer
<1>1. Recorded(l, u) = [l EXCEPT !.record = u, !.flow = FALSE]
  BY DEF Recorded, Life
<1>2. [l EXCEPT !.record = u, !.flow = FALSE] \in Life
  BY DEF Life
<1> QED BY <1>1, <1>2 DEF Life

LEMMA EndedFields ==
  ASSUME NEW l \in Life, NEW a \in {"ok", "error", "cut", "gone", "timeout"}
  PROVE  /\ Ended(l, a) \in Life
         /\ Ended(l, a).stage = "idle" /\ Ended(l, a).answer = a
         /\ \A m \in {Ended(l, a)} :
              /\ m.hold = l.hold /\ m.tasks = l.tasks /\ m.failed = l.failed
              /\ m.record = l.record /\ m.flow = l.flow
<1>1. 0 \in 0..MaxRetries
  BY LifeAssumption
<1>2. Ended(l, a) \in Life
  BY <1>1 DEF Ended, Life
<1>3. Ended(l, a).stage = "idle" /\ Ended(l, a).answer = a
  BY DEF Ended, Life
<1> QED
  BY <1>2, <1>3 DEF Ended, Life

\* A handler that ends with a record and a settlement for the same usage fits.
LEMMA EndFits ==
  ASSUME NEW l \in Life, NEW u \in Usages,
         NEW a \in {"ok", "error", "cut", "gone"},
         l.hold \notin Usages, l.tasks = {}, l.record = "none"
  PROVE  /\ Fits(Ended(Recorded(Settling(l, u), u), a))
         /\ Ended(Recorded(Settling(l, u), u), a).stage = "idle"
<1> DEFINE s == Settling(l, u)
           m == Recorded(s, u)
           e == Ended(m, a)
<1>1. /\ s \in Life /\ s.tasks = {u} /\ s.record = "none" /\ s.hold = l.hold
      /\ s.failed = l.failed
  BY SettlingFields
<1> HIDE DEF s
<1>2. /\ m \in Life /\ m.record = u /\ ~m.flow /\ m.tasks = {u} /\ m.hold = l.hold
  BY <1>1, RecordedFields
<1> HIDE DEF m
<1>3. /\ e \in Life /\ e.stage = "idle" /\ e.answer = a /\ e.record = u /\ e.tasks = {u}
      /\ e.hold = l.hold /\ ~e.flow
  BY <1>2, EndedFields
<1> HIDE DEF e
<1>4. Fits(e) /\ e.stage = "idle"
  BY <1>3 DEF Fits, Usages
<1> QED
  BY <1>4 DEF e, m, s

-----------------------------------------------------------------------------
(* The inductive invariant is kept *)

Others(r) == \A q \in Requests \ {r} : request'[q] = request[q]

\* Where a request is after a step at the breakers.
LEMMA PlaceAfter ==
  ASSUME TypeOK, NEW r \in Requests
  PROVE  /\ CallSucceeds(r) \/ CallUnreported(r) \/ CallFails(r, FALSE)
              => request'[r].pc = "idle" /\ Others(r)
         /\ CallFails(r, TRUE) => request'[r].pc = "select" /\ Others(r)
         /\ Begin(r) => request'[r].pc = "select" /\ Others(r)
         /\ Look(r) => request'[r].pc = "select" /\ request[r].pc = "select" /\ Others(r)
         /\ Pick(r) => request'[r].pc \in {"idle", "call"} /\ Others(r)
<1> USE DEF TypeOK, Others
<1>1. Idle \in Request /\ Idle.pc = "idle"
  BY DEF Idle, Request
<1>2. [Idle EXCEPT !.pc = "select"].pc = "select"
  BY DEF Idle
<1>3. CallSucceeds(r) \/ CallUnreported(r) \/ CallFails(r, FALSE)
        => request' = [request EXCEPT ![r] = Idle]
  BY DEF CallSucceeds, CallUnreported, CallFails
<1>4. CallFails(r, TRUE) => request' = [request EXCEPT ![r] = [Idle EXCEPT !.pc = "select"]]
  BY DEF CallFails
<1>5. Begin(r) => request'[r].pc = "select" /\ Others(r)
  BY DEF Begin, Request
<1>6. Look(r) => request'[r].pc = "select" /\ request[r].pc = "select" /\ Others(r)
  <2> SUFFICES ASSUME Look(r)
               PROVE  request'[r].pc = "select" /\ request[r].pc = "select" /\ Others(r)
    OBVIOUS
  <2> DEFINE e == request[r].look
  <2>1. \/ request' = [request EXCEPT ![r] = [request[r] EXCEPT !.look = e + 1]]
        \/ request' = [request EXCEPT
             ![r] = [request[r] EXCEPT !.look = e + 1, !.available = @ \cup {e}]]
    BY DEF Look
  <2>2. request[r] \in Request /\ request[r].pc = "select"
    BY DEF Look
  <2>3. \A q \in Requests \ {r} : request'[q] = request[q]
    BY <2>1
  <2>4. \/ request'[r] = [request[r] EXCEPT !.look = e + 1]
        \/ request'[r] = [request[r] EXCEPT !.look = e + 1, !.available = @ \cup {e}]
    BY <2>1, <2>2
  <2>5. request'[r].pc = "select"
    BY <2>2, <2>4 DEF Request
  <2> QED
    BY <2>2, <2>3, <2>5
<1>7. Pick(r) => request'[r].pc \in {"idle", "call"} /\ Others(r)
  BY <1>1 DEF Pick, Idle
<1> QED
  BY <1>1, <1>2, <1>3, <1>4, <1>5, <1>6, <1>7

\* One request is changed to what fits, at its place; the others stay.
LEMMA OneFits ==
  ASSUME LifeInv, NEW r \in Tracked, NEW l, Fits(l),
         life' = [life EXCEPT ![r] = l], faults' \in Nat,
         request'[r].pc = PlaceOf(l.stage), Others(r)
  PROVE  LifeInv'
<1>1. l \in Life
  BY DEF Fits
<1>2. life' \in [Tracked -> Life]
  BY <1>1 DEF LifeInv
<1>3. ASSUME NEW q \in Tracked PROVE Fits(life'[q]) /\ request'[q].pc = PlaceOf(life'[q].stage)
  <2>1. CASE q = r
    BY <2>1 DEF LifeInv
  <2>2. CASE q # r
    BY <2>2, LifeAssumption DEF LifeInv, Others
  <2> QED
    BY <2>1, <2>2
<1> QED
  BY <1>2, <1>3 DEF LifeInv

LEMMA UnbornFits == Fits(Unborn) /\ Unborn.stage = "idle"
BY LifeAssumption DEF Fits, Unborn, Life, Usages

LEMMA LifeInitInv == LifeInit => LifeInv
BY UnbornFits, LifeAssumption DEF LifeInit, Init, Idle, LifeInv, PlaceOf, Fits

\* Ends of a handler that is calling: a record and a settlement for the same usage.
LEMMA EndStep ==
  ASSUME TypeOK, LifeInv, NEW r \in Tracked,
         NEW u \in Usages, NEW a \in {"ok", "error", "cut", "gone"},
         life[r].stage \in {"upstream", "stream", "retry"},
         life' = [life EXCEPT ![r] = Ended(Recorded(Settling(life[r], u), u), a)],
         request'[r].pc = "idle", Others(r), faults' = faults
  PROVE  LifeInv'
<1> DEFINE l == Ended(Recorded(Settling(life[r], u), u), a)
<1>1. Fits(life[r])
  BY DEF LifeInv
<1>2. life[r] \in Life /\ life[r].tasks = {} /\ life[r].record = "none"
  BY <1>1 DEF Fits
<1>3. life[r].hold \notin Usages
  BY <1>1, <1>2 DEF Fits, Usages
<1>4. Fits(l) /\ l.stage = "idle"
  BY <1>2, <1>3, EndFits
<1>5. request'[r].pc = PlaceOf(l.stage)
  BY <1>4 DEF PlaceOf
<1>6. faults' \in Nat
  BY DEF LifeInv
<1>7. life' = [life EXCEPT ![r] = l]
  OBVIOUS
<1> HIDE DEF l
<1> QED
  BY <1>4, <1>5, <1>6, <1>7, OneFits

\* The call, its retries and its stream.
LEMMA CallInv ==
  ASSUME TypeOK, LifeInv, NEW r \in Tracked, CallStep(r) PROVE LifeInv'
<1> DEFINE l == life[r]
<1>0. r \in Requests /\ Fits(l) /\ l \in Life /\ faults \in Nat
  BY LifeAssumption DEF LifeInv
<1>1. CASE Serve(r)
  <2> DEFINE s == Settling(l, "usage")
             m == Recorded(s, "usage")
             n == [m EXCEPT !.stage = "stored"]
  <2>1. l.stage = "upstream" /\ l.record = "none" /\ l.tasks = {} /\ l.hold \notin Usages
        /\ l.answer = "none"
    BY <1>0, <1>1 DEF Serve, Fits, Usages
  <2>2. /\ s \in Life /\ s.tasks = {"usage"} /\ s.record = "none" /\ s.hold = l.hold
        /\ s.answer = "none"
    BY <1>0, <2>1, SettlingFields DEF Usages
  <2>3. life' = [life EXCEPT ![r] = n] /\ UNCHANGED <<request, faults>>
    BY <1>1 DEF Serve, vars
  <2> HIDE DEF s
  <2>4. /\ m \in Life /\ m.tasks = {"usage"} /\ m.record = "usage" /\ m.hold = l.hold
        /\ ~m.flow /\ m.answer = "none"
    BY <2>2, RecordedFields DEF Usages
  <2> HIDE DEF m
  <2>5. Fits(n) /\ n.stage = "stored"
    BY <2>1, <2>4 DEF Fits, Life
  <2>6. request[r].pc = "call"
    BY <2>1 DEF LifeInv, PlaceOf
  <2> HIDE DEF n
  <2> QED
    BY <1>0, <2>3, <2>5, <2>6, OneFits DEF PlaceOf, Others
<1>2. CASE Return(r)
  <2> DEFINE n == Ended(l, "ok")
  <2>1. life' = [life EXCEPT ![r] = n] /\ faults' = faults
    BY <1>2 DEF Return
  <2>2. Fits(n) /\ n.stage = "idle"
    BY <1>0, <1>2, EndedFields DEF Return, Fits
  <2>3. request'[r].pc = "idle" /\ Others(r)
    BY <1>0, <1>2, PlaceAfter DEF Return
  <2> HIDE DEF n
  <2> QED
    BY <1>0, <2>1, <2>2, <2>3, OneFits DEF PlaceOf
<1>3. CASE ConnectFailed(r)
  <2> DEFINE m == [l EXCEPT !.stage = "retry"]
  <2>1. life' = [life EXCEPT ![r] = m] /\ faults' = faults
    BY <1>3 DEF ConnectFailed
  <2>2. Fits(m) /\ m.stage = "retry"
    BY <1>0, <1>3 DEF ConnectFailed, Fits, Life, Usages
  <2>3. request'[r].pc = "select" /\ Others(r)
    BY <1>0, <1>3, PlaceAfter DEF ConnectFailed
  <2> HIDE DEF m
  <2> QED
    BY <1>0, <2>1, <2>2, <2>3, OneFits DEF PlaceOf
<1>4. CASE CallRetryable(r)
  <2>1. CASE CallFails(r, TRUE) /\ l.retries < MaxRetries
               /\ life' = [life EXCEPT ![r].stage = "retry", ![r].retries = @ + 1]
    <3> DEFINE n == l.retries + 1
               m == [l EXCEPT !.stage = "retry", !.retries = n]
    <3>1. n \in 0..MaxRetries
      BY <1>0, <2>1, LifeAssumption DEF Life
    <3>2. life' = [life EXCEPT ![r] = m] /\ faults' = faults
      BY <1>4, <2>1 DEF CallRetryable
    <3> HIDE DEF n
    <3>3. m \in Life
      BY <1>0, <3>1 DEF Life
    <3>4. Fits(m) /\ m.stage = "retry"
      BY <1>0, <1>4, <3>3 DEF CallRetryable, Fits, Life, Usages
    <3>5. request'[r].pc = "select" /\ Others(r)
      BY <1>0, <2>1, PlaceAfter
    <3> HIDE DEF m
    <3> QED
      BY <1>0, <3>2, <3>4, <3>5, OneFits DEF PlaceOf
  <2>2. CASE CallFails(r, FALSE) /\ life' = [life EXCEPT ![r] = GivenUp(@)]
    BY <1>0, <1>4, <2>2, PlaceAfter, EndStep DEF CallRetryable, GivenUp, Usages
  <2> QED
    BY <1>4, <2>1, <2>2 DEF CallRetryable
<1>5. CASE Reject(r)
  BY <1>0, <1>5, PlaceAfter, EndStep DEF Reject, GivenUp, Usages
<1>6. CASE OpenFails(r)
  BY <1>0, <1>6, PlaceAfter, EndStep DEF OpenFails, GivenUp, Usages
<1>7. CASE Open(r)
  <2> DEFINE m == [l EXCEPT !.stage = "stream"]
  <2>1. life' = [life EXCEPT ![r] = m] /\ UNCHANGED <<request, faults>>
    BY <1>7 DEF Open, vars
  <2>2. Fits(m) /\ m.stage = "stream"
    BY <1>0, <1>7 DEF Open, Fits, Life, Usages
  <2>3. request[r].pc = "call"
    BY <1>7 DEF Open, LifeInv, PlaceOf
  <2> HIDE DEF m
  <2> QED
    BY <1>0, <2>1, <2>2, <2>3, OneFits DEF PlaceOf, Others
<1>8. CASE StreamDropped(r)
  BY <1>0, <1>8, PlaceAfter, EndStep DEF StreamDropped, Usages
<1>9. ASSUME NEW a \in {"ok", "cut"}, StreamEnds(r, a) PROVE LifeInv'
  BY <1>0, <1>9, PlaceAfter, EndStep DEF StreamEnds, Usages
<1> QED
  BY <1>1, <1>2, <1>3, <1>4, <1>5, <1>6, <1>7, <1>8, <1>9 DEF CallStep

\* What else a handler does.
LEMMA HandlerInv ==
  ASSUME TypeOK, LifeInv, NEW r \in Tracked, HandlerStep(r) PROVE LifeInv'
<1> DEFINE l == life[r]
<1>0. r \in Requests /\ Fits(l) /\ l \in Life /\ faults \in Nat
  BY LifeAssumption DEF LifeInv
<1>1. CASE Look(r) /\ UNCHANGED <<life, faults>>
  <2>1. request'[r].pc = request[r].pc /\ Others(r)
    BY <1>0, <1>1, PlaceAfter
  <2> QED
    BY <1>1, <2>1, LifeAssumption DEF LifeInv, Others, Fits
<1>2. CASE Routed(r)
  <2>1. request'[r].pc \in {"idle", "call"} /\ Others(r) /\ faults' = faults
    BY <1>0, <1>2, PlaceAfter DEF Routed
  <2>2. request[r].pc = "select" /\ l.stage \in {"route", "retry"}
    BY <1>0, <1>2 DEF Routed, Pick, LifeInv, PlaceOf
  <2>3. CASE request'[r].pc = "call" /\ l.stage = "route"
    <3> DEFINE m == [l EXCEPT !.stage = "accepted", !.flow = TRUE]
    <3>1. life' = [life EXCEPT ![r] = m]
      BY <1>2, <2>3 DEF Routed
    <3>2. Fits(m) /\ m.stage = "accepted"
      BY <1>0, <2>3 DEF Fits, Life, Usages
    <3> HIDE DEF m
    <3> QED
      BY <1>0, <2>1, <2>3, <3>1, <3>2, OneFits DEF PlaceOf
  <2>4. CASE request'[r].pc = "call" /\ l.stage = "retry"
    <3> DEFINE m == [l EXCEPT !.stage = "upstream"]
    <3>1. life' = [life EXCEPT ![r] = m]
      BY <1>2, <2>4 DEF Routed
    <3>2. Fits(m) /\ m.stage = "upstream"
      BY <1>0, <2>4 DEF Fits, Life, Usages
    <3> HIDE DEF m
    <3> QED
      BY <1>0, <2>1, <2>4, <3>1, <3>2, OneFits DEF PlaceOf
  <2>5. CASE request'[r].pc = "idle" /\ l.stage = "route"
    <3> DEFINE m == Ended(l, "error")
    <3>1. life' = [life EXCEPT ![r] = m]
      BY <1>2, <2>5 DEF Routed
    <3>2. Fits(m) /\ m.stage = "idle"
      BY <1>0, <2>5, EndedFields DEF Fits, Usages
    <3> HIDE DEF m
    <3> QED
      BY <1>0, <2>1, <2>5, <3>1, <3>2, OneFits DEF PlaceOf
  <2>6. CASE request'[r].pc = "idle" /\ l.stage = "retry"
    <3>1. life' = [life EXCEPT ![r] = Ended(Recorded(Settling(l, "zero"), "zero"), "error")]
      BY <1>2, <2>6 DEF Routed, GivenUp
    <3> QED
      BY <2>1, <2>6, <3>1, EndStep DEF Usages
  <2> QED
    BY <2>1, <2>2, <2>3, <2>4, <2>5, <2>6
<1>3. CASE Refuse(r)
  <2>1. request'[r].pc = "idle" /\ Others(r)
    BY <1>0, <1>3, PlaceAfter DEF Refuse
  <2>2. CASE life' = [life EXCEPT ![r] = Ended([l EXCEPT !.flow = FALSE], "error")]
    <3> DEFINE m == [l EXCEPT !.flow = FALSE]
               n == Ended(m, "error")
    <3>1. m \in Life /\ m.hold = "none" /\ m.tasks = {} /\ m.record = "none" /\ ~m.flow
      BY <1>0, <1>3 DEF Refuse, Fits, Life
    <3> HIDE DEF m
    <3>2. Fits(n) /\ n.stage = "idle"
      BY <3>1, EndedFields DEF Fits, Usages
    <3>3. life' = [life EXCEPT ![r] = n] /\ faults' \in Nat
      BY <1>0, <1>3, <2>2 DEF Refuse, m
    <3> HIDE DEF n
    <3> QED
      BY <2>1, <3>2, <3>3, OneFits DEF PlaceOf
  <2>3. CASE life' = [life EXCEPT ![r] =
               Ended([l EXCEPT !.flow = FALSE, !.hold = "reserved", !.failed = TRUE], "error")]
    <3> DEFINE m == [l EXCEPT !.flow = FALSE, !.hold = "reserved", !.failed = TRUE]
               n == Ended(m, "error")
    <3>1. m \in Life /\ m.hold = "reserved" /\ m.tasks = {} /\ m.record = "none" /\ ~m.flow
          /\ m.failed
      BY <1>0, <1>3 DEF Refuse, Fits, Life
    <3> HIDE DEF m
    <3>2. Fits(n) /\ n.stage = "idle"
      BY <3>1, EndedFields DEF Fits, Usages
    <3>3. life' = [life EXCEPT ![r] = n] /\ faults' \in Nat
      BY <1>0, <1>3, <2>3 DEF Refuse, m
    <3> HIDE DEF n
    <3> QED
      BY <2>1, <3>2, <3>3, OneFits DEF PlaceOf
  <2> QED
    BY <1>3, <2>2, <2>3 DEF Refuse
<1>4. CASE Reserve(r)
  <2> DEFINE m == [l EXCEPT !.hold = "reserved", !.stage = "upstream"]
  <2>1. life' = [life EXCEPT ![r] = m] /\ UNCHANGED request /\ faults' = faults
    BY <1>4 DEF Reserve, vars
  <2>2. Fits(m) /\ m.stage = "upstream"
    BY <1>0, <1>4 DEF Reserve, Fits, Life, Usages
  <2>3. request[r].pc = "call"
    BY <1>4 DEF Reserve, LifeInv, PlaceOf
  <2> HIDE DEF m
  <2> QED
    BY <1>0, <2>1, <2>2, <2>3, OneFits DEF PlaceOf, Others
<1>5. CASE ServeHit(r)
  <2> DEFINE m == [l EXCEPT !.hold = "reserved"]
             n == Ended(Recorded(Settling(m, "usage"), "usage"), "ok")
  <2>1. m \in Life /\ m.hold = "reserved" /\ m.tasks = {} /\ m.record = "none"
    BY <1>0, <1>5 DEF ServeHit, Fits, Life
  <2>2. life' = [life EXCEPT ![r] = n] /\ faults' = faults
    BY <1>5 DEF ServeHit
  <2> HIDE DEF m
  <2>3. Fits(n) /\ n.stage = "idle"
    BY <2>1, EndFits DEF Usages
  <2> HIDE DEF n
  <2>4. request'[r].pc = "idle" /\ Others(r)
    BY <1>0, <1>5, PlaceAfter DEF ServeHit
  <2> QED
    BY <1>0, <2>2, <2>3, <2>4, OneFits DEF PlaceOf
<1>6. CASE CallStep(r)
  BY <1>6, CallInv
<1>7. CASE HandlerTimesOut(r)
  <2> DEFINE k == [l EXCEPT !.flow = FALSE]
             m == Settling(k, "zero")
             n == Ended(m, "timeout")
  <2>1. k \in Life /\ k.record # "twice" /\ ~k.flow
    BY <1>0, <1>7 DEF HandlerTimesOut, Fits, Life
  <2>2. life' = [life EXCEPT ![r] = n] /\ faults' = faults
    BY <1>7 DEF HandlerTimesOut
  <2> HIDE DEF k
  <2>3. m \in Life /\ m.tasks # {} /\ m.record # "twice" /\ ~m.flow
    BY <2>1, SettlingFields DEF Usages
  <2> HIDE DEF m
  <2>4. Fits(n) /\ n.stage = "idle"
    BY <2>3, EndedFields DEF Fits
  <2> HIDE DEF n
  <2>5. request'[r].pc = "idle" /\ Others(r)
    BY <1>0, <1>7, PlaceAfter DEF HandlerTimesOut
  <2> QED
    BY <1>0, <2>2, <2>4, <2>5, OneFits DEF PlaceOf
<1>8. CASE ClientLeaves(r)
  <2>1. PICK hold \in IF l.stage = "accepted" THEN {"none", "reserved"} ELSE {l.hold} :
          life' = [life EXCEPT ![r] = Ended([l EXCEPT !.hold = hold], "gone")]
    BY <1>8 DEF ClientLeaves
  <2> DEFINE m == [l EXCEPT !.hold = hold]
             n == Ended(m, "gone")
  <2>2. /\ m \in Life /\ m.record # "twice" /\ m.tasks \subseteq {m.record}
        /\ m.hold \in Usages => m.hold = m.record
    BY <1>0, <1>8, <2>1 DEF ClientLeaves, Fits, Life, Usages
  <2> HIDE DEF m
  <2>3. Fits(n) /\ n.stage = "idle"
    BY <2>2, EndedFields DEF Fits
  <2>4. life' = [life EXCEPT ![r] = n] /\ faults' = faults
    BY <1>8, <2>1 DEF ClientLeaves, m
  <2> HIDE DEF n
  <2>5. request'[r].pc = "idle" /\ Others(r)
    BY <1>0, <1>8, PlaceAfter DEF ClientLeaves
  <2> QED
    BY <1>0, <2>3, <2>4, <2>5, OneFits DEF PlaceOf
<1> QED
  BY <1>1, <1>2, <1>3, <1>4, <1>5, <1>6, <1>7, <1>8 DEF HandlerStep

\* The settlements under way, and the reclaimer.
LEMMA AfterInv ==
  ASSUME TypeOK, LifeInv, NEW r \in Tracked, AfterStep(r) PROVE LifeInv'
<1> DEFINE l == life[r]
<1>0. /\ Fits(l) /\ l \in Life /\ faults \in Nat /\ request[r].pc = PlaceOf(l.stage)
  BY DEF LifeInv
<1>1. UNCHANGED request /\ Others(r)
  BY DEF AfterStep, Reclaim, Settle, SettleFails, vars, Others
<1>2. CASE Reclaim(r)
  <2> DEFINE m == [l EXCEPT !.hold = "expired"]
  <2>1. life' = [life EXCEPT ![r] = m] /\ faults' = faults
    BY <1>2 DEF Reclaim
  <2>2. Fits(m) /\ m.stage = l.stage
    BY <1>0, <1>2 DEF Reclaim, Fits, Life, Usages
  <2> HIDE DEF m
  <2> QED
    BY <1>0, <1>1, <2>1, <2>2, OneFits
<1>3. ASSUME NEW u \in l.tasks, Settle(r, u) PROVE LifeInv'
  <2> DEFINE h == IF l.hold = "reserved" THEN u ELSE l.hold
             m == [l EXCEPT !.tasks = l.tasks \ {u}, !.hold = h]
  <2>1. life' = [life EXCEPT ![r] = m] /\ faults' = faults
    BY <1>3 DEF Settle
  <2>2. u \in Usages /\ h \in {"none", "reserved", "expired"} \cup Usages /\ h # "reserved"
        /\ (h = u \/ h = l.hold)
    BY <1>0 DEF Life, Usages
  <2> HIDE DEF h
  <2>3. /\ m \in Life /\ m.hold = h /\ m.tasks = l.tasks \ {u} /\ m.stage = l.stage
        /\ m.record = l.record /\ m.flow = l.flow /\ m.answer = l.answer
        /\ m.failed = l.failed
    BY <1>0, <2>2 DEF Life
  <2>4. (l.answer # "timeout" => u = l.record) /\ l.stage \in {"idle", "stored"}
    BY <1>0, <1>3 DEF Fits, Life
  <2> HIDE DEF m
  <2>5. Fits(m)
    BY <1>0, <1>3, <2>2, <2>3, <2>4 DEF Fits, Usages
  <2> QED
    BY <1>0, <1>1, <2>1, <2>3, <2>5, OneFits
<1>4. ASSUME NEW u \in l.tasks, SettleFails(r, u) PROVE LifeInv'
  <2> DEFINE m == [l EXCEPT !.tasks = l.tasks \ {u}, !.failed = TRUE]
  <2>1. life' = [life EXCEPT ![r] = m] /\ faults' \in Nat
    <3>1. faults' \in Nat
      BY <1>0, <1>4 DEF SettleFails
    <3>2. life' = [life EXCEPT ![r] = m]
      BY <1>4 DEF SettleFails
    <3> QED
      BY <3>1, <3>2
  <2>2. /\ m \in Life /\ m.tasks = l.tasks \ {u} /\ m.hold = l.hold /\ m.stage = l.stage
        /\ m.record = l.record /\ m.flow = l.flow /\ m.answer = l.answer
        /\ m.failed
    BY <1>0 DEF Life
  <2>3. Fits(m) /\ m.stage = l.stage
    <3> HIDE DEF m
    <3> QED
      BY <1>0, <1>4, <2>2 DEF Fits, Usages
  <2> HIDE DEF m
  <2> QED
    BY <1>0, <1>1, <2>1, <2>3, OneFits
<1> QED
  BY <1>2, <1>3, <1>4 DEF AfterStep

LEMMA LifeNextInv == IInv /\ LifeInv /\ [LifeNext]_lifeVars => LifeInv'
<1> SUFFICES ASSUME IInv, LifeInv, [LifeNext]_lifeVars PROVE LifeInv'
  OBVIOUS
<1>0. TypeOK
  BY DEF IInv
<1>1. ASSUME NEW r \in Requests \ Tracked, OtherStep(r) PROVE LifeInv'
  <2>1. Others(r)
    BY <1>0, <1>1, PlaceAfter DEF OtherStep, GoesOn
  <2>2. \A q \in Tracked : request'[q] = request[q]
    BY <1>1, <2>1, LifeAssumption DEF Others
  <2> QED
    BY <1>1, <2>2 DEF OtherStep, LifeInv, Fits
<1>2. ASSUME NEW r \in Tracked, NEW stream \in BOOLEAN, Accept(r, stream) PROVE LifeInv'
  <2> DEFINE m == [Unborn EXCEPT !.stage = "route", !.stream = stream]
  <2>1. r \in Requests /\ life[r] = Unborn /\ life[r] \in Life
    BY <1>2, LifeAssumption DEF Accept, LifeInv
  <2>2. life' = [life EXCEPT ![r] = m] /\ faults' \in Nat
    BY <1>2, <2>1 DEF Accept, LifeInv
  <2>3. Fits(m) /\ m.stage = "route"
    <3>1. m \in Life
      BY <1>2, <2>1 DEF Life
    <3>2. /\ m.stage = "route" /\ m.hold = "none" /\ ~m.flow /\ m.record = "none"
          /\ m.tasks = {} /\ m.answer = "none"
      BY DEF Unborn
    <3>3. "none" \notin Usages
      BY DEF Usages
    <3> QED
      BY <3>1, <3>2, <3>3 DEF Fits
  <2>4. request'[r].pc = "select" /\ Others(r)
    BY <1>0, <1>2, <2>1, PlaceAfter DEF Accept
  <2> HIDE DEF m
  <2> QED
    BY <2>2, <2>3, <2>4, OneFits DEF PlaceOf
<1>3. ASSUME NEW r \in Tracked, HandlerStep(r) PROVE LifeInv'
  BY <1>0, <1>3, HandlerInv
<1>4. ASSUME NEW r \in Tracked, AfterStep(r) PROVE LifeInv'
  BY <1>0, <1>4, AfterInv
<1>5. CASE EndpointStep /\ UNCHANGED <<life, faults>>
  <2>1. UNCHANGED request
    BY <1>5 DEF EndpointStep, CoolDown, Probe, SetEnabled
  <2> QED
    BY <1>5, <2>1 DEF LifeInv, Fits
<1>6. CASE UNCHANGED lifeVars
  BY <1>6 DEF lifeVars, LifeInv, Fits
<1> QED
  BY <1>1, <1>2, <1>3, <1>4, <1>5, <1>6 DEF LifeNext

LEMMA LifeInvHolds == LifeSpec => [](IInv /\ LifeInv)
<1>1. LifeSpec => []IInv
  BY LifeImplementsBreaker, IInvHolds, PTL
<1>2. LifeSpec => [](LifeInv)
  BY <1>1, LifeInitInv, LifeNextInv, PTL DEF LifeSpec
<1> QED
  BY <1>1, <1>2, PTL

-----------------------------------------------------------------------------
(* The properties *)

\* Types, and the agreement of a handler's stage with its place at the breakers.
THEOREM LifeTypeCorrect == LifeSpec => []LifeTypeOK
<1>1. IInv /\ LifeInv => LifeTypeOK
  BY DEF IInv, LifeInv, LifeTypeOK, PlaceOf
<1> QED
  BY <1>1, LifeInvHolds, PTL

\* However a request ends, what is settled is what was recorded, but for a timeout.
THEOREM SettledAsRecordedHolds == LifeSpec => []SettledAsRecorded
<1>1. LifeInv => SettledAsRecorded
  BY DEF LifeInv, Fits, SettledAsRecorded
<1> QED
  BY <1>1, LifeInvHolds, PTL

\* However a request ends, it leaves one usage record, and none only as stated.
THEOREM OneRecordHolds == LifeSpec => []OneRecord
<1>1. LifeInv => OneRecord
  BY DEF LifeInv, Fits, OneRecord
<1> QED
  BY <1>1, LifeInvHolds, PTL

\* A request that is over is not counted as in flight, unless its client left.
THEOREM NoLeakedFlowHolds == LifeSpec => []NoLeakedFlow
<1>1. LifeInv => NoLeakedFlow
  BY DEF LifeInv, Fits, NoLeakedFlow
<1> QED
  BY <1>1, LifeInvHolds, PTL

\* No path through the handler, its retries and its stream forgets the reservation.
THEOREM NoOrphanedHoldHolds == LifeSpec => []NoOrphanedHold
<1>1. LifeInv => NoOrphanedHold
  BY DEF LifeInv, Fits, NoOrphanedHold
<1> QED
  BY <1>1, LifeInvHolds, PTL
=============================================================================
