-------------------------- MODULE ConfigSyncProofs --------------------------
(***************************************************************************)
(* Proofs about ConfigSync for any edits, instances, failures and          *)
(* restarts: every thread stays inside its program; what the poll loop can *)
(* make good is made good; and a change that nobody is told of is in force *)
(* where it was made.                                                      *)
(***************************************************************************)
EXTENDS ConfigSync, TLAPS

-----------------------------------------------------------------------------
(* The programs, step by step *)

LEMMA PollSteps ==
  /\ Len(PollLoop) = 17
  /\ PollLoop[1] = Op("check") /\ PollLoop[2] = Op("invalidate")
  /\ PollLoop[3] = On("read", "channels") /\ PollLoop[4] = On("read", "models")
  /\ PollLoop[5] = On("read", "rules")
  /\ PollLoop[6] = On("swap", "channels") /\ PollLoop[7] = On("swap", "balancers")
  /\ PollLoop[8] = On("swap", "models") /\ PollLoop[9] = On("swap", "rules")
  /\ PollLoop[10] = Op("validate") /\ PollLoop[11] = Op("adopt")
  /\ PollLoop[12] = On("read", "keys") /\ PollLoop[13] = On("swap", "keys")
  /\ PollLoop[14] = On("read", "users") /\ PollLoop[15] = On("swap", "users")
  /\ PollLoop[16] = On("read", "members") /\ PollLoop[17] = On("swap", "members")
BY DEF PollLoop, ReloadRouting, ReloadAuth, Op, On

LEMMA StartupSteps ==
  /\ Len(Startup) = 18
  /\ Startup[1] = On("read", "settings") /\ Startup[2] = On("swap", "settings")
  /\ Startup[3] = On("read", "keys") /\ Startup[4] = On("swap", "keys")
  /\ Startup[5] = On("read", "users") /\ Startup[6] = On("swap", "users")
  /\ Startup[7] = On("read", "members") /\ Startup[8] = On("swap", "members")
  /\ Startup[9] = Op("invalidate")
  /\ Startup[10] = On("read", "channels") /\ Startup[11] = On("read", "models")
  /\ Startup[12] = On("read", "rules")
  /\ Startup[13] = On("swap", "channels") /\ Startup[14] = On("swap", "balancers")
  /\ Startup[15] = On("swap", "models") /\ Startup[16] = On("swap", "rules")
  /\ Startup[17] = Op("validate") /\ Startup[18] = Op("begin")
BY DEF Startup, ReloadRouting, ReloadAuth, Op, On

HandlerOps == {"commit", "notify", "apply", "invalidate", "read", "swap", "validate"}
GatewayOps == {"check", "adopt", "begin", "invalidate", "read", "swap", "validate"}

LEMMA HandlerSteps ==
  ASSUME NEW kind \in Kinds
  PROVE  /\ Program(kind) = Handler(kind)
         /\ Len(Handler(kind)) \in Nat \ {0}
         /\ \A i \in 1..Len(Handler(kind)) :
              /\ Handler(kind)[i].op \in HandlerOps
              /\ Handler(kind)[i].op = "swap" => Handler(kind)[i].part \in Caches \ {"settings"}
              /\ Handler(kind)[i].op = "read" => Handler(kind)[i].part \in Parts \ {"settings"}
<1>1. Program(kind) = Handler(kind)
  BY DEF Kinds, Program
<1>2. CASE kind = "routing"
  <2> DEFINE H == Handler("routing")
  <2>1. Handler(kind) = H
    BY <1>2
  <2>2. /\ Len(H) = 11
        /\ H[1] = Op("commit") /\ H[2] = Op("invalidate")
        /\ H[3] = On("read", "channels") /\ H[4] = On("read", "models")
        /\ H[5] = On("read", "rules") /\ H[6] = On("swap", "channels")
        /\ H[7] = On("swap", "balancers") /\ H[8] = On("swap", "models")
        /\ H[9] = On("swap", "rules") /\ H[10] = Op("validate") /\ H[11] = Op("notify")
    BY DEF Handler, ReloadRouting, Op, On
  <2> HIDE DEF H
  <2>3. \A i \in 1..11 : H[i].op \in HandlerOps
                         /\ (H[i].op = "swap" => H[i].part \in Caches \ {"settings"})
                         /\ (H[i].op = "read" => H[i].part \in Parts \ {"settings"})
    BY <2>2 DEF Op, On, HandlerOps, Caches, Parts, RoutingParts
  <2>4. Len(Handler(kind)) = 11
    BY <2>1, <2>2
  <2> QED BY <1>1, <2>1, <2>3, <2>4
<1>3. CASE kind = "auth"
  <2> DEFINE H == Handler("auth")
  <2>1. Handler(kind) = H
    BY <1>3
  <2>2. /\ Len(H) = 8
        /\ H[1] = Op("commit")
        /\ H[2] = On("read", "keys") /\ H[3] = On("swap", "keys")
        /\ H[4] = On("read", "users") /\ H[5] = On("swap", "users")
        /\ H[6] = On("read", "members") /\ H[7] = On("swap", "members")
        /\ H[8] = Op("notify")
    BY DEF Handler, ReloadAuth, Op, On
  <2> HIDE DEF H
  <2>3. \A i \in 1..8 : H[i].op \in HandlerOps
                        /\ (H[i].op = "swap" => H[i].part \in Caches \ {"settings"})
                        /\ (H[i].op = "read" => H[i].part \in Parts \ {"settings"})
    BY <2>2 DEF Op, On, HandlerOps, Caches, Parts, AuthParts
  <2>4. Len(Handler(kind)) = 8
    BY <2>1, <2>2
  <2> QED BY <1>1, <2>1, <2>3, <2>4
<1>4. CASE kind = "group"
  <2> DEFINE H == Handler("group")
  <2>1. Handler(kind) = H
    BY <1>4
  <2>2. /\ Len(H) = 8
        /\ H[1] = Op("commit") /\ H[2] = Op("notify")
        /\ H[3] = On("read", "keys") /\ H[4] = On("swap", "keys")
        /\ H[5] = On("read", "users") /\ H[6] = On("swap", "users")
        /\ H[7] = On("read", "members") /\ H[8] = On("swap", "members")
    BY DEF Handler, ReloadAuth, Op, On
  <2> HIDE DEF H
  <2>3. \A i \in 1..8 : H[i].op \in HandlerOps
                        /\ (H[i].op = "swap" => H[i].part \in Caches \ {"settings"})
                        /\ (H[i].op = "read" => H[i].part \in Parts \ {"settings"})
    BY <2>2 DEF Op, On, HandlerOps, Caches, Parts, AuthParts
  <2>4. Len(Handler(kind)) = 8
    BY <2>1, <2>2
  <2> QED BY <1>1, <2>1, <2>3, <2>4
<1>5. CASE kind \in {"toggle", "settings", "member"}
  <2> DEFINE H == Handler(kind)
  <2>1. /\ H \in {<<Op("commit"), On("apply", "balancers")>>,
                   <<Op("commit"), On("apply", "settings")>>, <<Op("commit")>>}
    BY <1>5 DEF Handler
  <2> HIDE DEF H
  <2>2. Len(H) \in {1, 2} /\ \A i \in 1..Len(H) : H[i].op \in {"commit", "apply"}
    BY <2>1 DEF Op, On
  <2> QED BY <1>1, <2>2 DEF H, HandlerOps
<1> QED BY <1>2, <1>3, <1>4, <1>5 DEF Kinds

\* The steps of the two programs of an instance, as the proofs use them.
LEMMA GatewaySteps ==
  /\ Program("poll") = PollLoop /\ Program("startup") = Startup
  /\ \A i \in 1..17 : /\ PollLoop[i].op \in GatewayOps \ {"begin"}
                      /\ PollLoop[i].op = "swap" => PollLoop[i].part \in Caches \ {"settings"}
                      /\ PollLoop[i].op = "read" => PollLoop[i].part \in Parts \ {"settings"}
  /\ \A i \in 1..18 : /\ Startup[i].op \in GatewayOps \ {"check", "adopt"}
                      /\ Startup[i].op = "begin" <=> i = 18
                      /\ Startup[i].op = "swap" => Startup[i].part \in Caches
                      /\ Startup[i].op = "read" => Startup[i].part \in Parts
<1>1. Program("poll") = PollLoop /\ Program("startup") = Startup
  BY DEF Program
<1>2. \A i \in 1..17 : /\ PollLoop[i].op \in GatewayOps \ {"begin"}
                       /\ PollLoop[i].op = "swap" => PollLoop[i].part \in Caches \ {"settings"}
                       /\ PollLoop[i].op = "read" => PollLoop[i].part \in Parts \ {"settings"}
  BY PollSteps DEF GatewayOps, Op, On, Caches, Parts, RoutingParts, AuthParts
<1>3. \A i \in 1..18 : /\ Startup[i].op \in GatewayOps \ {"check", "adopt"}
                       /\ Startup[i].op = "begin" <=> i = 18
                       /\ Startup[i].op = "swap" => Startup[i].part \in Caches
                       /\ Startup[i].op = "read" => Startup[i].part \in Parts
  BY StartupSteps DEF GatewayOps, Op, On, Caches, Parts, RoutingParts, AuthParts
<1> QED BY <1>1, <1>2, <1>3

-----------------------------------------------------------------------------
(* Type correctness *)

Views == [Parts -> SUBSET (Edits \cup Cleared)]

\* Edits run the handler of their kind, instances their loop or their startup.
Roles ==
  /\ \A g \in Gateways : thread[g].prog \in {"poll", "startup"} /\ thread[g].at = g
  /\ \A e \in Edits : thread[e].prog = Kind[e]

IInv == TypeOK /\ Roles

\* What TypeOK says of the threads.
ThreadsFit ==
  /\ thread \in [Threads -> ThreadState]
  /\ \A t \in Threads : thread[t].step <= Len(Program(thread[t].prog)) + 1
  /\ \A g \in Gateways : Running(g)

\* What the story fixes.
LEMMA StoryFacts ==
  ASSUME TypeOK
  PROVE  /\ Kind \in [Edits -> Kinds] /\ Part \in [Edits -> Parts]
         /\ \A e \in Edits : Part[e] \in PartsOf(Kind[e])
         /\ Edits \cap Gateways = {}
BY ConfigAssumption DEF TypeOK, Kind, Part

\* A thread at one of its steps.
LEMMA RunningThread ==
  ASSUME IInv, NEW t \in Threads, Running(t)
  PROVE  LET s == thread[t].step
             p == thread[t].prog
         IN  /\ thread[t] \in ThreadState /\ s \in Nat \ {0}
             /\ t \in Gateways =>
                  \/ p = "poll" /\ s \in 1..17 /\ Current(t) = PollLoop[s]
                  \/ p = "startup" /\ s \in 1..18 /\ Current(t) = Startup[s]
             /\ t \in Edits => /\ p \in Kinds /\ s \in 1..Len(Handler(p))
                               /\ Current(t) = Handler(p)[s]
                               /\ Current(t).op \in HandlerOps
<1>1. thread[t] \in ThreadState /\ thread[t].step \in Nat
  BY DEF IInv, TypeOK, ThreadState
<1>2. CASE t \in Gateways
  <2>1. thread[t].prog \in {"poll", "startup"}
    BY <1>2 DEF IInv, Roles
  <2>2. t \notin Edits
    BY <1>2, ConfigAssumption
  <2>3. Len(PollLoop) = 17 /\ Len(Startup) = 18
    BY PollSteps, StartupSteps
  <2>4. Program("poll") = PollLoop /\ Program("startup") = Startup
    BY GatewaySteps
  <2>5. CASE thread[t].prog = "poll"
    <3>1. thread[t].step \in 1..17 /\ Current(t) = PollLoop[thread[t].step]
      BY <2>3, <2>4, <2>5 DEF Running, Current
    <3> QED BY <1>1, <2>2, <2>5, <3>1
  <2>6. CASE thread[t].prog = "startup"
    <3>1. thread[t].step \in 1..18 /\ Current(t) = Startup[thread[t].step]
      BY <2>3, <2>4, <2>6 DEF Running, Current
    <3> QED BY <1>1, <2>2, <2>6, <3>1
  <2> QED BY <2>1, <2>5, <2>6
<1>3. CASE t \in Edits
  <2>1. thread[t].prog \in Kinds
    BY <1>3, StoryFacts DEF IInv, Roles
  <2>2. t \notin Gateways
    BY <1>3, ConfigAssumption
  <2>3. thread[t].step \in 1..Len(Handler(thread[t].prog))
    BY <2>1, HandlerSteps DEF Running
  <2>4. Current(t) = Handler(thread[t].prog)[thread[t].step]
    BY <2>1, HandlerSteps DEF Current
  <2>5. Current(t).op \in HandlerOps
    BY <2>1, <2>3, <2>4, HandlerSteps
  <2> QED BY <1>1, <1>3, <2>1, <2>2, <2>3, <2>4, <2>5
<1> QED BY <1>2, <1>3 DEF Threads

\* Where a thread may go: one step on, within its program.
LEMMA NextStepFits ==
  ASSUME IInv, NEW t \in Threads, Running(t), Current(t).op # "begin"
  PROVE  /\ NextStep(t) \in Nat /\ NextStep(t) <= Len(Program(thread[t].prog)) + 1
         /\ t \in Gateways => NextStep(t) \in 1..Len(Program(thread[t].prog))
         /\ t \in Edits => NextStep(t) = thread[t].step + 1
<1>1. CASE t \in Gateways
  <2>1. t \notin Edits
    BY <1>1, ConfigAssumption
  <2>2. Len(PollLoop) = 17 /\ Len(Startup) = 18
    BY PollSteps, StartupSteps
  <2>3. Program("poll") = PollLoop /\ Program("startup") = Startup
    BY GatewaySteps
  <2>4. CASE thread[t].prog = "poll"
    <3>1. thread[t].step \in 1..17
      BY <1>1, <2>4, RunningThread
    <3>2. Len(Program(thread[t].prog)) = 17
      BY <2>2, <2>3, <2>4
    <3>3. NextStep(t) \in 1..17
      BY <2>2, <2>4, <3>1 DEF NextStep
    <3> QED BY <2>1, <3>2, <3>3
  <2>5. CASE thread[t].prog = "startup"
    <3>1. thread[t].step \in 1..18 /\ Current(t) = Startup[thread[t].step]
      BY <1>1, <2>5, RunningThread
    <3>2. thread[t].step # 18
      BY <3>1, GatewaySteps
    <3>3. Len(Program(thread[t].prog)) = 18
      BY <2>2, <2>3, <2>5
    <3>4. NextStep(t) \in 1..18
      BY <2>5, <3>1, <3>2 DEF NextStep
    <3> QED BY <2>1, <3>3, <3>4
  <2>6. thread[t].prog \in {"poll", "startup"}
    BY <1>1 DEF IInv, Roles
  <2> QED BY <2>4, <2>5, <2>6
<1>2. CASE t \in Edits
  <2>1. thread[t].prog \in Kinds /\ thread[t].step \in 1..Len(Handler(thread[t].prog))
    BY <1>2, RunningThread
  <2>2. thread[t].prog # "poll" /\ Program(thread[t].prog) = Handler(thread[t].prog)
        /\ Len(Handler(thread[t].prog)) \in Nat
    BY <2>1, HandlerSteps DEF Kinds
  <2>3. t \notin Gateways
    BY <1>2, ConfigAssumption
  <2> QED BY <2>1, <2>2, <2>3 DEF NextStep
<1> QED BY <1>1, <1>2 DEF Threads

\* Thread t has gone to step s with the local values view and seen.
Moved(t, s, view, seen) ==
  /\ thread' \in [Threads -> ThreadState]
  /\ thread'[t].prog = thread[t].prog /\ thread'[t].at = thread[t].at
  /\ thread'[t].step = s /\ thread'[t].view = view /\ thread'[t].seen = seen
  /\ \A u \in Threads \ {t} : thread'[u] = thread[u]

LEMMA MovedFits ==
  ASSUME IInv, NEW t \in Threads, NEW s, NEW view, NEW seen,
         s <= Len(Program(thread[t].prog)) + 1,
         t \in Gateways => s \in 1..Len(Program(thread[t].prog)),
         Moved(t, s, view, seen), story' = story
  PROVE  ThreadsFit' /\ Roles'
<1>1. \A u \in Threads : u # t => thread'[u] = thread[u]
  BY DEF Moved
<1>2. thread'[t].step = s /\ thread'[t].prog = thread[t].prog /\ thread'[t].at = thread[t].at
  BY DEF Moved
<1>3. \A u \in Threads : thread'[u].step <= Len(Program(thread'[u].prog)) + 1
  BY <1>1, <1>2 DEF IInv, TypeOK
<1>4. \A g \in Gateways : Running(g)'
  BY <1>1, <1>2 DEF IInv, TypeOK, Running, Threads
<1>5. Roles'
  BY <1>1, <1>2 DEF IInv, Roles, Threads, Kind
<1> QED BY <1>3, <1>4, <1>5 DEF ThreadsFit, Moved

LEMMA StepMoves ==
  ASSUME IInv, NEW t \in Threads, NEW s \in Nat, thread' = [thread EXCEPT ![t].step = s]
  PROVE  Moved(t, s, thread[t].view, thread[t].seen)
<1>1. thread \in [Threads -> ThreadState] /\ thread[t] \in ThreadState
  BY DEF IInv, TypeOK
<1>2. [thread[t] EXCEPT !.step = s] \in ThreadState
  BY <1>1 DEF ThreadState
<1>3. thread' \in [Threads -> ThreadState]
  BY <1>1, <1>2
<1>4. thread'[t] = [thread[t] EXCEPT !.step = s] /\ \A u \in Threads \ {t} : thread'[u] = thread[u]
  BY <1>1
<1>5. thread'[t].step = s /\ thread'[t].prog = thread[t].prog /\ thread'[t].at = thread[t].at
      /\ thread'[t].view = thread[t].view /\ thread'[t].seen = thread[t].seen
  BY <1>1, <1>4 DEF ThreadState
<1> QED BY <1>3, <1>4, <1>5 DEF Moved

LEMMA AdvanceMoves ==
  ASSUME IInv, NEW t \in Threads, Running(t), Current(t).op # "begin", Advance(t)
  PROVE  Moved(t, NextStep(t), thread[t].view, thread[t].seen)
<1>1. NextStep(t) \in Nat /\ thread' = [thread EXCEPT ![t].step = NextStep(t)]
  BY NextStepFits DEF Advance
<1> QED BY <1>1, StepMoves

LEMMA CheckMoves ==
  ASSUME IInv, NEW t \in Threads, Check(t)
  PROVE  Moved(t, NextStep(t), thread[t].view, stamp)
<1>1. thread \in [Threads -> ThreadState] /\ thread[t] \in ThreadState /\ stamp \in Nat
  BY DEF IInv, TypeOK
<1> DEFINE s == NextStep(t)
<1>2. s \in Nat
  BY NextStepFits DEF Check, AtOp
<1>3. thread' = [thread EXCEPT ![t].seen = stamp, ![t].step = s]
  BY DEF Check
<1> HIDE DEF s
<1> DEFINE new == [[thread[t] EXCEPT !.seen = stamp] EXCEPT !.step = s]
<1>4. new \in ThreadState
  BY <1>1, <1>2 DEF ThreadState
<1>5. /\ new.step = s /\ new.prog = thread[t].prog /\ new.at = thread[t].at
      /\ new.view = thread[t].view /\ new.seen = stamp
  BY <1>1 DEF ThreadState
<1>6. thread'[t] = new /\ \A u \in Threads \ {t} : thread'[u] = thread[u]
  BY <1>1, <1>3
<1>7. DOMAIN thread' = Threads /\ thread' = [u \in Threads |-> thread'[u]]
  BY <1>1, <1>3
<1> HIDE DEF new
<1>8. \A u \in Threads : thread'[u] \in ThreadState
  BY <1>1, <1>4, <1>6
<1>9. thread' \in [Threads -> ThreadState]
  BY <1>7, <1>8
<1>10. Moved(t, s, thread[t].view, stamp)
  BY <1>5, <1>6, <1>9 DEF Moved
<1> QED BY <1>10 DEF s

\* A table was read: what thread t now holds of it is rows.
LEMMA ViewMoves ==
  ASSUME IInv, NEW t \in Threads, NEW s \in Nat, NEW p, NEW rows \in SUBSET (Edits \cup Cleared),
         thread' = [thread EXCEPT ![t].view[p] = rows, ![t].step = s]
  PROVE  Moved(t, s, [thread[t].view EXCEPT ![p] = rows], thread[t].seen)
<1>1. thread \in [Threads -> ThreadState] /\ thread[t] \in ThreadState
  BY DEF IInv, TypeOK
<1> DEFINE view == [thread[t].view EXCEPT ![p] = rows]
<1>2. view \in Views
  BY <1>1 DEF ThreadState, Views
<1>3. thread' = [thread EXCEPT ![t].view = view, ![t].step = s]
  BY <1>1
<1> HIDE DEF view
<1> DEFINE new == [[thread[t] EXCEPT !.view = view] EXCEPT !.step = s]
<1>4. new \in ThreadState
  BY <1>1, <1>2 DEF ThreadState, Views
<1>5. /\ new.step = s /\ new.prog = thread[t].prog /\ new.at = thread[t].at
      /\ new.view = view /\ new.seen = thread[t].seen
  BY <1>1 DEF ThreadState
<1>6. thread'[t] = new /\ \A u \in Threads \ {t} : thread'[u] = thread[u]
  BY <1>1, <1>3
<1>7. DOMAIN thread' = Threads /\ thread' = [u \in Threads |-> thread'[u]]
  BY <1>1, <1>3
<1> HIDE DEF new
<1>8. \A u \in Threads : thread'[u] \in ThreadState
  BY <1>1, <1>4, <1>6
<1>9. thread' \in [Threads -> ThreadState]
  BY <1>7, <1>8
<1>10. Moved(t, s, view, thread[t].seen)
  BY <1>5, <1>6, <1>9 DEF Moved
<1> QED BY <1>10 DEF view

LEMMA ReadMoves ==
  ASSUME IInv, NEW t \in Threads, Read(t)
  PROVE  LET p == Current(t).part IN
         Moved(t, NextStep(t), [thread[t].view EXCEPT ![p] = Stored(p)], thread[t].seen)
<1> DEFINE p == Current(t).part
<1>1. Stored(p) \in SUBSET (Edits \cup Cleared)
  BY DEF Stored, IInv, TypeOK
<1>2. NextStep(t) \in Nat
  BY NextStepFits DEF Read, AtOp
<1>3. thread' = [thread EXCEPT ![t].view[p] = Stored(p), ![t].step = NextStep(t)]
  BY DEF Read
<1> HIDE DEF p
<1>4. Moved(t, NextStep(t), [thread[t].view EXCEPT ![p] = Stored(p)], thread[t].seen)
  BY <1>1, <1>2, <1>3, ViewMoves
<1> QED BY <1>4 DEF p

LEMMA BeginMoves ==
  ASSUME IInv, NEW t \in Threads, Begin(t)
  PROVE  /\ t \in Gateways /\ thread[t].prog = "startup" /\ thread[t].step = 18
         /\ thread' \in [Threads -> ThreadState]
         /\ thread'[t] = Thread("poll", t)
         /\ \A u \in Threads \ {t} : thread'[u] = thread[u]
<1>1. Running(t) /\ Current(t).op = "begin" /\ thread' = [thread EXCEPT ![t] = Thread("poll", t)]
  BY DEF Begin, AtOp
<1>2. t \in Gateways
  BY <1>1, RunningThread DEF HandlerOps, Threads
<1>3. thread[t].prog = "startup" /\ thread[t].step \in 1..18 /\ Current(t) = Startup[thread[t].step]
  <2>1. CASE thread[t].prog = "poll" /\ thread[t].step \in 1..17 /\ Current(t) = PollLoop[thread[t].step]
    BY <1>1, <2>1, GatewaySteps DEF GatewayOps
  <2> QED BY <1>1, <1>2, <2>1, RunningThread
<1>4. thread[t].step = 18
  BY <1>1, <1>3, GatewaySteps
<1>5. Thread("poll", t) \in ThreadState
  BY <1>2 DEF Thread, ThreadState, NoView
<1>6. thread \in [Threads -> ThreadState]
  BY DEF IInv, TypeOK
<1>7. thread' \in [Threads -> ThreadState]
  BY <1>1, <1>5, <1>6
<1>8. thread'[t] = Thread("poll", t) /\ \A u \in Threads \ {t} : thread'[u] = thread[u]
  BY <1>1, <1>6
<1> QED BY <1>2, <1>3, <1>4, <1>7, <1>8

\* What a failed call does: the bump is skipped, the reload ends, or a cleared view.
LEMMA FailMoves ==
  ASSUME IInv, NEW t \in Threads, Fail(t)
  PROVE  LET p == Current(t).part
             view == thread[t].view
             seen == thread[t].seen
         IN  /\ Running(t) /\ Current(t).op \in {"read", "notify"}
             /\ \/ Current(t).op = "notify" /\ Moved(t, NextStep(t), view, seen)
                \/ /\ Current(t).op = "read" /\ p \in RoutingParts /\ <<t, p>> \in story.faulty
                   /\ AfterError(t) \in Nat
                   /\ Moved(t, AfterError(t), view, seen)
                \/ /\ Current(t).op = "read" /\ p \in Parts \ RoutingParts
                   /\ <<t, p>> \in story.faulty
                   /\ Moved(t, NextStep(t), [view EXCEPT ![p] = Cleared], seen)
<1> DEFINE p == Current(t).part
           view == thread[t].view
           seen == thread[t].seen
<1>1. Running(t) /\ Current(t).op \in {"read", "notify"}
  BY DEF Fail
<1>2. NextStep(t) \in Nat
  BY <1>1, NextStepFits
<1>3. CASE Current(t).op = "notify"
  <2> DEFINE q == IF AtOp(t, "notify") THEN "stamp" ELSE Current(t).part
  <2>1. q = "stamp"
    BY <1>1, <1>3 DEF AtOp
  <2>2. thread' = [thread EXCEPT ![t].step = NextStep(t)]
    <3>1. thread' =
            CASE q = "stamp" -> [thread EXCEPT ![t].step = NextStep(t)]
              [] q \in RoutingParts -> [thread EXCEPT ![t].step = AfterError(t)]
              [] OTHER -> [thread EXCEPT ![t].view[q] = Cleared, ![t].step = NextStep(t)]
      BY DEF Fail
    <3> HIDE DEF q
    <3>2. q \notin RoutingParts
      BY <2>1 DEF RoutingParts
    <3> QED BY <2>1, <3>1, <3>2
  <2>3. Moved(t, NextStep(t), view, seen)
    BY <1>2, <2>2, StepMoves
  <2> QED BY <1>1, <1>3, <2>3
<1>4. CASE Current(t).op = "read"
  <2>1. p \in Parts
    <3>1. CASE t \in Gateways
      <4>1. \/ thread[t].step \in 1..17 /\ Current(t) = PollLoop[thread[t].step]
            \/ thread[t].step \in 1..18 /\ Current(t) = Startup[thread[t].step]
        BY <1>1, <3>1, RunningThread
      <4> QED BY <1>4, <4>1, GatewaySteps
    <3>2. CASE t \in Edits
      <4>1. thread[t].prog \in Kinds /\ thread[t].step \in 1..Len(Handler(thread[t].prog))
            /\ Current(t) = Handler(thread[t].prog)[thread[t].step]
        BY <1>1, <3>2, RunningThread
      <4> QED BY <1>4, <4>1, HandlerSteps
    <3> QED BY <3>1, <3>2 DEF Threads
  <2>2. p # "stamp"
    BY <2>1 DEF Parts, RoutingParts, AuthParts
  <2>3. <<t, p>> \in story.faulty
    BY <1>4 DEF Fail, AtOp
  <2>4. CASE p \in RoutingParts
    <3>1. thread' = [thread EXCEPT ![t].step = AfterError(t)]
      BY <1>4, <2>2, <2>4 DEF Fail, AtOp
    <3>2. AfterError(t) \in Nat
      <4>1. CASE t \in Gateways
        BY <4>1 DEF AfterError, IInv, Roles
      <4>2. CASE t \in Edits
        <5>1. thread[t].prog \in Kinds
          BY <1>1, <4>2, RunningThread
        <5>2. Len(Program(thread[t].prog)) \in Nat
          BY <5>1, HandlerSteps
        <5> QED BY <5>2 DEF AfterError
      <4> QED BY <4>1, <4>2 DEF Threads
    <3>3. Moved(t, AfterError(t), view, seen)
      BY <3>1, <3>2, StepMoves
    <3> QED BY <1>1, <1>4, <2>3, <2>4, <3>2, <3>3
  <2>5. CASE p \notin RoutingParts
    <3>1. thread' = [thread EXCEPT ![t].view[p] = Cleared, ![t].step = NextStep(t)]
      BY <1>4, <2>2, <2>5 DEF Fail, AtOp
    <3>2. Cleared \in SUBSET (Edits \cup Cleared)
      OBVIOUS
    <3> HIDE DEF p
    <3>3. Moved(t, NextStep(t), [view EXCEPT ![p] = Cleared], seen)
      BY <1>2, <3>1, <3>2, ViewMoves
    <3> QED BY <1>1, <1>4, <2>1, <2>3, <2>5, <3>3 DEF p
  <2> QED BY <2>4, <2>5
<1> QED BY <1>1, <1>3, <1>4

LEMMA Advanced ==
  ASSUME IInv, NEW t \in Threads, Running(t), Current(t).op # "begin", Advance(t),
         story' = story
  PROVE  ThreadsFit' /\ Roles'
<1>1. /\ NextStep(t) <= Len(Program(thread[t].prog)) + 1
      /\ t \in Gateways => NextStep(t) \in 1..Len(Program(thread[t].prog))
  BY NextStepFits
<1> QED BY <1>1, AdvanceMoves, MovedFits

\* The sources of the caches are tables, and what was read of one is a set of edits.
LEMMA SourceIsPart == ASSUME NEW c \in Caches PROVE SourceOf(c) \in Parts
BY DEF SourceOf, Caches, Parts, RoutingParts

LEMMA TypeStep ==
  ASSUME IInv, NEW t \in Threads, Step(t) PROVE IInv'
<1>1. thread[t] \in ThreadState /\ thread[t].at \in Gateways
  BY DEF IInv, TypeOK, ThreadState
<1>2. Edits \cap Gateways = {}
  BY ConfigAssumption
<1>3. ASSUME Running(t), Current(t).op # "begin", Advance(t), story' = story
      PROVE  ThreadsFit' /\ Roles'
  BY <1>3, Advanced
<1>4. CASE Commit(t)
  <2>1. t \in Edits
    BY <1>4, RunningThread, GatewaySteps DEF Commit, AtOp, GatewayOps, Threads
  <2>2. ThreadsFit' /\ Roles'
    BY <1>3, <1>4 DEF Commit, AtOp
  <2>3. db' \subseteq Edits /\ raced' \subseteq Edits
    BY <1>4, <2>1 DEF Commit, Overwrite, IInv, TypeOK
  <2>4. UNCHANGED <<story, stamp, memory, valid, last, faults, restarts>>
    BY <1>4 DEF Commit
  <2> QED BY <2>2, <2>3, <2>4 DEF IInv, TypeOK, ThreadsFit
<1>5. CASE Notify(t)
  <2>1. ThreadsFit' /\ Roles'
    BY <1>3, <1>5 DEF Notify, AtOp
  <2> QED BY <1>5, <2>1 DEF Notify, IInv, TypeOK, ThreadsFit
<1>6. CASE Apply(t)
  <2>1. t \in Edits
    BY <1>6, RunningThread, GatewaySteps DEF Apply, AtOp, GatewayOps, Threads
  <2>2. ThreadsFit' /\ Roles'
    BY <1>3, <1>6 DEF Apply, AtOp
  <2>3. memory' \in [Gateways -> [Caches -> SUBSET (Edits \cup Cleared)]]
    <3> DEFINE row == memory[thread[t].at]
    <3>1. /\ memory \in [Gateways -> [Caches -> SUBSET (Edits \cup Cleared)]]
          /\ row \in [Caches -> SUBSET (Edits \cup Cleared)]
      BY <1>1 DEF IInv, TypeOK
    <3>2. memory' = [memory EXCEPT
                       ![thread[t].at] = [row EXCEPT ![Current(t).part] = Overwrite(@, t)]]
      BY <1>6 DEF Apply
    <3>3. ASSUME NEW rows PROVE Overwrite(rows, t) \subseteq Edits
      BY <2>1 DEF Overwrite
    <3>4. [row EXCEPT ![Current(t).part] = Overwrite(@, t)]
            \in [Caches -> SUBSET (Edits \cup Cleared)]
      BY <3>1, <3>3
    <3> QED BY <3>1, <3>2, <3>4
  <2> QED BY <1>6, <2>2, <2>3 DEF Apply, IInv, TypeOK, ThreadsFit
<1>7. CASE Invalidate(t) \/ Validate(t)
  <2>1. ThreadsFit' /\ Roles'
    BY <1>3, <1>7 DEF Invalidate, Validate, AtOp
  <2>2. valid' \in [Gateways -> BOOLEAN]
    BY <1>1, <1>7 DEF Invalidate, Validate, IInv, TypeOK
  <2> QED BY <1>7, <2>1, <2>2 DEF Invalidate, Validate, IInv, TypeOK, ThreadsFit
<1>8. CASE Read(t)
  <2>1. /\ NextStep(t) <= Len(Program(thread[t].prog)) + 1
        /\ t \in Gateways => NextStep(t) \in 1..Len(Program(thread[t].prog))
    BY <1>8, NextStepFits DEF Read, AtOp
  <2>2. ThreadsFit' /\ Roles'
    BY <1>8, <2>1, ReadMoves, MovedFits DEF Read
  <2> QED BY <1>8, <2>2 DEF Read, IInv, TypeOK, ThreadsFit
<1>9. CASE Swap(t)
  <2>1. ThreadsFit' /\ Roles'
    BY <1>3, <1>9 DEF Swap, AtOp
  <2>2. Current(t).part \in Caches
    <3>1. Running(t) /\ Current(t).op = "swap"
      BY <1>9 DEF Swap, AtOp
    <3>2. CASE t \in Gateways
      <4>1. \/ thread[t].step \in 1..17 /\ Current(t) = PollLoop[thread[t].step]
            \/ thread[t].step \in 1..18 /\ Current(t) = Startup[thread[t].step]
        BY <3>1, <3>2, RunningThread
      <4> QED BY <3>1, <4>1, GatewaySteps
    <3>3. CASE t \in Edits
      <4>1. thread[t].prog \in Kinds /\ thread[t].step \in 1..Len(Handler(thread[t].prog))
            /\ Current(t) = Handler(thread[t].prog)[thread[t].step]
        BY <3>1, <3>3, RunningThread
      <4> QED BY <3>1, <4>1, HandlerSteps
    <3> QED BY <3>2, <3>3 DEF Threads
  <2>3. thread[t].view[SourceOf(Current(t).part)] \in SUBSET (Edits \cup Cleared)
    BY <1>1, <2>2, SourceIsPart DEF ThreadState
  <2>4. memory' \in [Gateways -> [Caches -> SUBSET (Edits \cup Cleared)]]
    BY <1>1, <1>9, <2>3 DEF Swap, IInv, TypeOK
  <2> QED BY <1>9, <2>1, <2>4 DEF Swap, IInv, TypeOK, ThreadsFit
<1>10. CASE Check(t)
  <2>1. /\ NextStep(t) <= Len(Program(thread[t].prog)) + 1
        /\ t \in Gateways => NextStep(t) \in 1..Len(Program(thread[t].prog))
    BY <1>10, NextStepFits DEF Check, AtOp
  <2>2. ThreadsFit' /\ Roles'
    BY <1>10, <2>1, CheckMoves, MovedFits DEF Check
  <2> QED BY <1>10, <2>2 DEF Check, IInv, TypeOK, ThreadsFit
<1>11. CASE Adopt(t)
  <2>1. ThreadsFit' /\ Roles'
    BY <1>3, <1>11 DEF Adopt, AtOp
  <2>2. last' \in [Gateways -> Nat]
    BY <1>1, <1>11 DEF Adopt, IInv, TypeOK, ThreadState
  <2> QED BY <1>11, <2>1, <2>2 DEF Adopt, IInv, TypeOK, ThreadsFit
<1>12. CASE Begin(t)
  <2>1. /\ t \in Gateways
        /\ thread' \in [Threads -> ThreadState]
        /\ thread'[t] = Thread("poll", t)
        /\ \A u \in Threads \ {t} : thread'[u] = thread[u]
    BY <1>12, BeginMoves
  <2>2. thread'[t].prog = "poll" /\ thread'[t].step = 1 /\ thread'[t].at = t
    BY <2>1 DEF Thread
  <2>3. Len(Program(thread'[t].prog)) = 17
    BY <2>2, GatewaySteps, PollSteps
  <2>4. ASSUME NEW u \in Threads PROVE thread'[u].step <= Len(Program(thread'[u].prog)) + 1
    <3>1. CASE u = t
      BY <2>2, <2>3, <3>1
    <3>2. CASE u # t
      BY <2>1, <3>2 DEF IInv, TypeOK
    <3> QED BY <3>1, <3>2
  <2>5. ASSUME NEW g \in Gateways PROVE Running(g)'
    <3>1. CASE g = t
      <4>1. 1 \in 1..17
        OBVIOUS
      <4>2. thread'[t].step \in 1..Len(Program(thread'[t].prog))
        BY <2>2, <2>3, <4>1, Zenon
      <4> QED BY <3>1, <4>2, Zenon DEF Running
    <3>2. CASE g # t
      <4>1. thread'[g] = thread[g] /\ Running(g)
        BY <2>1, <3>2 DEF IInv, TypeOK, Threads
      <4> QED BY <4>1 DEF Running
    <3> QED BY <3>1, <3>2
  <2>6. Roles'
    BY <1>2, <1>12, <2>1, <2>2 DEF IInv, Roles, Threads, Kind, Begin
  <2>7. last' \in [Gateways -> Nat]
    BY <1>12 DEF Begin, IInv, TypeOK
  <2> QED BY <1>12, <2>1, <2>4, <2>5, <2>6, <2>7 DEF Begin, IInv, TypeOK
<1> QED BY <1>4, <1>5, <1>6, <1>7, <1>8, <1>9, <1>10, <1>11, <1>12 DEF Step

LEMMA TypeFail ==
  ASSUME IInv, NEW t \in Threads, Fail(t) PROVE IInv'
<1> DEFINE p == Current(t).part
           view == thread[t].view
           seen == thread[t].seen
<1>1. Running(t) /\ Current(t).op # "begin"
  BY FailMoves
<1>2. /\ NextStep(t) <= Len(Program(thread[t].prog)) + 1
      /\ t \in Gateways => NextStep(t) \in 1..Len(Program(thread[t].prog))
  BY <1>1, NextStepFits
<1>3. /\ AfterError(t) <= Len(Program(thread[t].prog)) + 1
      /\ t \in Gateways => AfterError(t) \in 1..Len(Program(thread[t].prog))
  <2>1. CASE t \in Gateways
    <3>1. AfterError(t) = 1
      BY <2>1 DEF AfterError, IInv, Roles
    <3>2. thread[t].prog = "poll" \/ thread[t].prog = "startup"
      BY <2>1 DEF IInv, Roles
    <3>3. Len(Program("poll")) = 17 /\ Len(Program("startup")) = 18
      BY GatewaySteps, PollSteps, StartupSteps
    <3> DEFINE n == Len(Program(thread[t].prog))
    <3>4. n = 17 \/ n = 18
      BY <3>2, <3>3
    <3> HIDE DEF n
    <3>5. 1 <= n + 1 /\ 1 \in 1..n
      BY <3>4
    <3> QED BY <3>1, <3>5 DEF n
  <2>2. CASE t \in Edits
    <3>1. thread[t].prog \in Kinds
      BY <1>1, <2>2, RunningThread
    <3>2. Len(Program(thread[t].prog)) \in Nat /\ thread[t].prog \notin {"poll", "startup"}
      BY <3>1, HandlerSteps DEF Kinds
    <3>3. t \notin Gateways
      BY <2>2, ConfigAssumption
    <3> QED BY <3>2, <3>3 DEF AfterError
  <2> QED BY <2>1, <2>2 DEF Threads
<1>4. story' = story
  BY DEF Fail
<1>5. ThreadsFit' /\ Roles'
  <2>1. CASE Moved(t, NextStep(t), view, seen)
    BY <1>2, <1>4, <2>1, MovedFits
  <2>2. CASE Moved(t, AfterError(t), view, seen)
    BY <1>3, <1>4, <2>2, MovedFits
  <2>3. CASE Moved(t, NextStep(t), [view EXCEPT ![p] = Cleared], seen)
    BY <1>2, <1>4, <2>3, MovedFits
  <2> QED BY <2>1, <2>2, <2>3, FailMoves
<1>6. faults' \in Nat
  BY DEF Fail, IInv, TypeOK
<1> QED BY <1>5, <1>6 DEF Fail, IInv, TypeOK, ThreadsFit

\* A handler begins.
LEMMA StartMoves ==
  ASSUME IInv, NEW e \in Edits, Start(e)
  PROVE  Moved(e, 1, thread[e].view, thread[e].seen) /\ Kind[e] \in Kinds
<1>1. e \in Threads
  BY DEF Threads
<1>2. thread[e].prog = Kind[e] /\ Kind[e] \in Kinds
  BY StoryFacts DEF IInv, Roles
<1>3. NextStep(e) = 1
  BY <1>2 DEF Start, NextStep, Kinds
<1>4. thread' = [thread EXCEPT ![e].step = 1]
  BY <1>3 DEF Start, Advance
<1> QED BY <1>1, <1>2, <1>4, StepMoves

LEMMA TypeStart ==
  ASSUME IInv, NEW e \in Edits, Start(e) PROVE IInv'
<1>1. e \in Threads /\ e \notin Gateways
  BY ConfigAssumption DEF Threads
<1>2. thread[e].prog = Kind[e]
  BY DEF IInv, Roles
<1>3. 1 <= Len(Program(thread[e].prog)) + 1
  BY <1>2, StartMoves, HandlerSteps
<1>4. story' = story
  BY DEF Start
<1>5. ThreadsFit' /\ Roles'
  BY <1>1, <1>3, <1>4, StartMoves, MovedFits
<1> QED BY <1>5 DEF Start, IInv, TypeOK, ThreadsFit

\* The threads after a restart of instance g.
CutOff(g, t) == thread[t].at = g /\ t \in Edits /\ thread[t].step > 0

LEMMA RestartMoves ==
  ASSUME IInv, NEW g \in Gateways, Restart(g)
  PROVE  /\ thread' \in [Threads -> ThreadState]
         /\ thread'[g] = Thread("startup", g)
         /\ \A t \in Threads \ {g} :
              /\ ~CutOff(g, t) => thread'[t] = thread[t]
              /\ CutOff(g, t) => /\ thread'[t].step = Len(Program(thread[t].prog)) + 1
                                 /\ thread'[t].prog = thread[t].prog /\ thread'[t].at = g
<1>1. thread' = [t \in Threads |->
                  IF t = g THEN Thread("startup", g)
                  ELSE IF CutOff(g, t)
                    THEN [thread[t] EXCEPT !.step = Len(Program(thread[t].prog)) + 1]
                  ELSE thread[t]]
  BY DEF Restart, CutOff
<1>2. g \in Threads
  BY DEF Threads
<1>3. Thread("startup", g) \in ThreadState
  BY DEF Thread, ThreadState, NoView
<1>4. ASSUME NEW t \in Threads, t # g
      PROVE  /\ thread'[t] \in ThreadState
             /\ ~CutOff(g, t) => thread'[t] = thread[t]
             /\ CutOff(g, t) => /\ thread'[t].step = Len(Program(thread[t].prog)) + 1
                                /\ thread'[t].prog = thread[t].prog /\ thread'[t].at = g
  <2>1. thread[t] \in ThreadState
    BY DEF IInv, TypeOK
  <2>2. CASE CutOff(g, t)
    <3> DEFINE n == Len(Program(thread[t].prog)) + 1
    <3>1. thread[t].prog \in Kinds
      BY <2>2, StoryFacts DEF CutOff, IInv, Roles
    <3>2. n \in Nat
      BY <3>1, HandlerSteps
    <3>3. thread'[t] = [thread[t] EXCEPT !.step = n]
      BY <1>1, <1>4, <2>2
    <3> HIDE DEF n
    <3>4. /\ thread'[t] \in ThreadState /\ thread'[t].step = n
          /\ thread'[t].prog = thread[t].prog /\ thread'[t].at = thread[t].at
      BY <2>1, <3>2, <3>3 DEF ThreadState
    <3> QED BY <2>2, <3>4 DEF n, CutOff
  <2>3. CASE ~CutOff(g, t)
    <3>1. thread'[t] = thread[t]
      BY <1>1, <1>4, <2>3
    <3> QED BY <2>1, <2>3, <3>1
  <2> QED BY <2>2, <2>3
<1>5. thread'[g] = Thread("startup", g)
  BY <1>1, <1>2
<1>6. thread' \in [Threads -> ThreadState]
  <2>1. \A t \in Threads : thread'[t] \in ThreadState
    BY <1>3, <1>4, <1>5
  <2>2. DOMAIN thread' = Threads /\ thread' = [t \in Threads |-> thread'[t]]
    BY <1>1
  <2> QED BY <2>1, <2>2
<1> QED BY <1>4, <1>5, <1>6

LEMMA TypeRestart ==
  ASSUME IInv, NEW g \in Gateways, Restart(g) PROVE IInv'
<1>1. Edits \cap Gateways = {} /\ g \in Threads
  BY ConfigAssumption DEF Threads
<1>2. thread'[g].prog = "startup" /\ thread'[g].step = 1 /\ thread'[g].at = g
  <2>1. thread'[g] = Thread("startup", g)
    BY RestartMoves
  <2> QED BY <2>1 DEF Thread
<1>3. Len(Program(thread'[g].prog)) = 18
  BY <1>2, GatewaySteps, StartupSteps
<1>4. ASSUME NEW t \in Threads PROVE thread'[t].step <= Len(Program(thread'[t].prog)) + 1
  <2>1. CASE t = g
    BY <1>2, <1>3, <2>1
  <2>2. CASE t # g /\ CutOff(g, t)
    <3>1. thread[t].prog \in Kinds
      BY <2>2, StoryFacts DEF CutOff, IInv, Roles
    <3>2. Len(Program(thread[t].prog)) \in Nat
      BY <3>1, HandlerSteps
    <3>3. thread'[t].step = Len(Program(thread[t].prog)) + 1 /\ thread'[t].prog = thread[t].prog
      BY <2>2, RestartMoves
    <3> QED BY <3>2, <3>3
  <2>3. CASE t # g /\ ~CutOff(g, t)
    <3>1. thread'[t] = thread[t]
      BY <2>3, RestartMoves
    <3> QED BY <3>1 DEF IInv, TypeOK
  <2> QED BY <2>1, <2>2, <2>3
<1>5. ASSUME NEW h \in Gateways PROVE Running(h)'
  <2>1. CASE h = g
    <3> DEFINE n == Len(Program(thread'[h].prog))
    <3>1. n = 18
      BY <1>3, <2>1
    <3> HIDE DEF n
    <3>2. 1 \in 1..n
      BY <3>1
    <3> QED BY <1>2, <2>1, <3>2 DEF Running, n
  <2>2. CASE h # g
    <3>1. h \in Threads /\ ~CutOff(g, h)
      BY <1>1 DEF Threads, CutOff
    <3>2. thread'[h] = thread[h]
      BY <2>2, <3>1, RestartMoves
    <3> QED BY <3>2 DEF IInv, TypeOK, Running
  <2> QED BY <2>1, <2>2
<1>6. story' = story
  BY DEF Restart
<1>7. Roles'
  <2>1. ASSUME NEW h \in Gateways
        PROVE  thread'[h].prog \in {"poll", "startup"} /\ thread'[h].at = h
    <3>1. h \in Threads /\ ~CutOff(g, h)
      BY <1>1 DEF Threads, CutOff
    <3> QED BY <1>2, <3>1, RestartMoves DEF IInv, Roles
  <2>2. ASSUME NEW e \in Edits PROVE thread'[e].prog = Kind[e]
    <3>1. e \in Threads /\ e # g
      BY <1>1 DEF Threads
    <3>2. thread'[e].prog = thread[e].prog
      BY <3>1, RestartMoves
    <3> QED BY <3>2 DEF IInv, Roles
  <2> QED BY <1>6, <2>1, <2>2 DEF Roles, Kind
<1>8. /\ memory' \in [Gateways -> [Caches -> SUBSET (Edits \cup Cleared)]]
      /\ valid' \in [Gateways -> BOOLEAN]
      /\ restarts' \in Nat
  BY DEF Restart, IInv, TypeOK
<1> QED BY <1>4, <1>5, <1>6, <1>7, <1>8, RestartMoves DEF Restart, IInv, TypeOK

LEMMA TypeInit == ASSUME Init PROVE IInv
<1>1. /\ Kind \in [Edits -> Kinds]
      /\ Edits \cap Gateways = {}
  BY ConfigAssumption DEF Init, Kind
<1>2. PICK at \in [Edits -> Gateways] :
        thread = [t \in Threads |-> IF t \in Gateways THEN Thread("poll", t)
                                    ELSE [Thread(Kind[t], at[t]) EXCEPT !.step = 0]]
  BY DEF Init
<1>3. ASSUME NEW g \in Gateways PROVE thread[g] = Thread("poll", g)
  BY <1>2 DEF Threads
<1>4. ASSUME NEW e \in Edits
      PROVE  /\ thread[e] \in ThreadState /\ thread[e].prog = Kind[e]
             /\ thread[e].step = 0 /\ Kind[e] \in Kinds
  <2>1. thread[e] = [Thread(Kind[e], at[e]) EXCEPT !.step = 0]
    BY <1>1, <1>2 DEF Threads
  <2>2. at[e] \in Gateways /\ Kind[e] \in Kinds
    BY <1>1
  <2>3. Thread(Kind[e], at[e]) \in ThreadState
    BY <2>2 DEF Thread, ThreadState, NoView
  <2> QED BY <2>1, <2>2, <2>3 DEF Thread, ThreadState
<1>5. ASSUME NEW g \in Gateways
      PROVE  /\ thread[g] \in ThreadState /\ thread[g].prog = "poll"
             /\ thread[g].step = 1 /\ thread[g].at = g
  <2>1. Thread("poll", g) \in ThreadState
    BY DEF Thread, ThreadState, NoView
  <2> QED BY <1>3, <2>1 DEF Thread
<1>6. thread \in [Threads -> ThreadState]
  <2>1. \A t \in Threads : thread[t] \in ThreadState
    BY <1>4, <1>5 DEF Threads
  <2>2. DOMAIN thread = Threads /\ thread = [t \in Threads |-> thread[t]]
    BY <1>2
  <2> QED BY <2>1, <2>2
<1>7. ASSUME NEW g \in Gateways PROVE Len(Program(thread[g].prog)) = 17
  BY <1>5, GatewaySteps, PollSteps
<1>8. ASSUME NEW t \in Threads PROVE thread[t].step <= Len(Program(thread[t].prog)) + 1
  <2>1. CASE t \in Gateways
    BY <1>5, <1>7, <2>1
  <2>2. CASE t \in Edits
    <3>1. Len(Program(thread[t].prog)) \in Nat
      BY <1>4, <2>2, HandlerSteps
    <3> QED BY <1>4, <2>2, <3>1
  <2> QED BY <2>1, <2>2 DEF Threads
<1>9. ASSUME NEW g \in Gateways PROVE Running(g)
  <2> DEFINE n == Len(Program(thread[g].prog))
  <2>1. n = 17
    BY <1>7
  <2> HIDE DEF n
  <2>2. 1 \in 1..n
    BY <2>1
  <2> QED BY <1>5, <2>2 DEF Running, n
<1>10. Roles
  BY <1>4, <1>5 DEF Roles
<1>11. TypeOK
  BY <1>6, <1>8, <1>9 DEF Init, TypeOK
<1> QED BY <1>10, <1>11 DEF IInv

LEMMA TypeStutter == ASSUME IInv, UNCHANGED vars PROVE IInv'
BY DEF vars, IInv, TypeOK, Roles, Running, Kind

LEMMA TypeNext == ASSUME IInv, [Next]_vars PROVE IInv'
<1>1. ASSUME NEW e \in Edits, Start(e) PROVE IInv'
  BY <1>1, TypeStart
<1>2. ASSUME NEW t \in Threads, Step(t) PROVE IInv'
  BY <1>2, TypeStep
<1>3. ASSUME NEW t \in Threads, Fail(t) PROVE IInv'
  BY <1>3, TypeFail
<1>4. ASSUME NEW g \in Gateways, Restart(g) PROVE IInv'
  BY <1>4, TypeRestart
<1>5. CASE UNCHANGED vars
  BY <1>5, TypeStutter
<1> QED BY <1>1, <1>2, <1>3, <1>4, <1>5 DEF Next

LEMMA Inductive == Spec => []IInv
<1>1. Init => IInv
  BY TypeInit
<1>2. IInv /\ [Next]_vars => IInv'
  BY TypeNext
<1> QED BY <1>1, <1>2, PTL DEF Spec

\* Every thread stays inside its program, the poll loop never runs off its end, and a
\* cache holds committed changes or was cleared (main.rs:522-596, service/routing.rs
\* reload, service/auth.rs reload).
THEOREM ConfigTypeCorrect == Spec => []TypeOK
<1>1. IInv => TypeOK
  BY DEF IInv
<1> QED BY <1>1, Inductive, PTL
-----------------------------------------------------------------------------
(* What the poll loop makes good *)

(* A turn of the loop is started for a stamp.  While no handler runs, the      *)
(* database and the caches of an instance change only by its own turn, so a    *)
(* turn started for the newest stamp knows how much of what it has read and    *)
(* swapped is current; and a handler that ends makes every turn one for an     *)
(* older stamp, since the bump is the last thing it does.                      *)

\* The step of the loop that reads a table, and the one that fills a cache.
ReadAt(p) ==
  CASE p = "channels" -> 3 [] p = "models" -> 4 [] p = "rules" -> 5
    [] p = "keys" -> 12 [] p = "users" -> 14 [] p = "members" -> 16

SwapAt(c) ==
  CASE c = "channels" -> 6 [] c = "balancers" -> 7 [] c = "models" -> 8 [] c = "rules" -> 9
    [] c = "keys" -> 13 [] c = "users" -> 15 [] c = "members" -> 17

LoopParts == Parts \ {"settings"}
LoopCaches == Caches \ {"settings"}

LEMMA Tables ==
  /\ \A p \in LoopParts : ReadAt(p) \in 3..16 /\ PollLoop[ReadAt(p)] = On("read", p)
  /\ \A c \in LoopCaches : /\ SwapAt(c) \in 6..17 /\ PollLoop[SwapAt(c)] = On("swap", c)
                           /\ SourceOf(c) \in LoopParts
                           /\ ReadAt(SourceOf(c)) < SwapAt(c)
<1>1. LoopParts = {"channels", "models", "rules", "keys", "users", "members"}
  BY DEF LoopParts, Parts, RoutingParts, AuthParts
<1>2. LoopCaches = {"channels", "models", "rules", "keys", "users", "members", "balancers"}
  BY DEF LoopCaches, Caches, Parts, RoutingParts, AuthParts
<1>3. ASSUME NEW p \in LoopParts
      PROVE  ReadAt(p) \in 3..16 /\ PollLoop[ReadAt(p)] = On("read", p)
  BY <1>1, PollSteps DEF ReadAt
<1>4. ASSUME NEW c \in LoopCaches
      PROVE  /\ SwapAt(c) \in 6..17 /\ PollLoop[SwapAt(c)] = On("swap", c)
             /\ SourceOf(c) \in LoopParts
             /\ ReadAt(SourceOf(c)) < SwapAt(c)
  BY <1>1, <1>2, PollSteps DEF SwapAt, ReadAt, SourceOf
<1> QED BY <1>3, <1>4

\* The step of the loop at which each kind of operation stands.
LEMMA LoopOps ==
  ASSUME NEW s \in 1..17
  PROVE  LET o == PollLoop[s].op
             p == PollLoop[s].part
         IN  /\ o = "check" <=> s = 1
             /\ o = "invalidate" <=> s = 2
             /\ o = "validate" <=> s = 10
             /\ o = "adopt" <=> s = 11
             /\ o = "read" => p \in LoopParts /\ ReadAt(p) = s /\ s < 17
             /\ o = "read" /\ p \in RoutingParts => s \in 3..5
             /\ o = "swap" => p \in LoopCaches /\ SwapAt(p) = s
             /\ o \in {"check", "invalidate", "validate", "adopt", "read", "swap"}
<1> DEFINE o == PollLoop[s].op
           p == PollLoop[s].part
<1>1. /\ o = "check" <=> s = 1
      /\ o = "invalidate" <=> s = 2
      /\ o = "validate" <=> s = 10
      /\ o = "adopt" <=> s = 11
      /\ o \in {"check", "invalidate", "validate", "adopt", "read", "swap"}
  BY PollSteps DEF Op, On
<1>2. ASSUME o = "read" PROVE p \in LoopParts /\ ReadAt(p) = s /\ s < 17
  <2>1. s \in {3, 4, 5, 12, 14, 16}
    BY <1>2, PollSteps DEF Op, On
  <2> QED BY <2>1, PollSteps DEF On, ReadAt, LoopParts, Parts, RoutingParts, AuthParts
<1>3. ASSUME o = "read", p \in RoutingParts PROVE s \in 3..5
  <2>1. s \in {3, 4, 5, 12, 14, 16}
    BY <1>3, PollSteps DEF Op, On
  <2> QED BY <1>3, <2>1, PollSteps DEF On, RoutingParts
<1>4. ASSUME o = "swap" PROVE p \in LoopCaches /\ SwapAt(p) = s
  <2>1. s \in {6, 7, 8, 9, 13, 15, 17}
    BY <1>4, PollSteps DEF Op, On
  <2> QED BY <2>1, PollSteps DEF On, SwapAt, LoopCaches, Caches, Parts, RoutingParts, AuthParts
<1> QED BY <1>1, <1>2, <1>3, <1>4

\* Routing and auth handlers announce at their end, and copy nothing in by hand.
LEMMA OrderlySteps ==
  ASSUME NEW kind \in {"routing", "auth"}
  PROVE  \A i \in 1..Len(Handler(kind)) :
           /\ Handler(kind)[i].op = "notify" <=> i = Len(Handler(kind))
           /\ Handler(kind)[i].op # "apply"
<1>1. CASE kind = "routing"
  <2> DEFINE H == Handler("routing")
  <2>1. Handler(kind) = H
    BY <1>1
  <2>2. /\ Len(H) = 11
        /\ H[1] = Op("commit") /\ H[2] = Op("invalidate")
        /\ H[3] = On("read", "channels") /\ H[4] = On("read", "models")
        /\ H[5] = On("read", "rules") /\ H[6] = On("swap", "channels")
        /\ H[7] = On("swap", "balancers") /\ H[8] = On("swap", "models")
        /\ H[9] = On("swap", "rules") /\ H[10] = Op("validate") /\ H[11] = Op("notify")
    BY DEF Handler, ReloadRouting, Op, On
  <2> HIDE DEF H
  <2>3. \A i \in 1..11 : (H[i].op = "notify" <=> i = 11) /\ H[i].op # "apply"
    BY <2>2 DEF Op, On
  <2> QED BY <2>1, <2>2, <2>3
<1>2. CASE kind = "auth"
  <2> DEFINE H == Handler("auth")
  <2>1. Handler(kind) = H
    BY <1>2
  <2>2. /\ Len(H) = 8
        /\ H[1] = Op("commit")
        /\ H[2] = On("read", "keys") /\ H[3] = On("swap", "keys")
        /\ H[4] = On("read", "users") /\ H[5] = On("swap", "users")
        /\ H[6] = On("read", "members") /\ H[7] = On("swap", "members")
        /\ H[8] = Op("notify")
    BY DEF Handler, ReloadAuth, Op, On
  <2> HIDE DEF H
  <2>3. \A i \in 1..8 : (H[i].op = "notify" <=> i = 8) /\ H[i].op # "apply"
    BY <2>2 DEF Op, On
  <2> QED BY <2>1, <2>2, <2>3
<1> QED BY <1>1, <1>2

\* The stamps a turn goes by.  It adopts its own before the auth caches are loaded.
Ordered(g) ==
  LET s == thread[g].step
      seen == thread[g].seen IN
  /\ thread[g].prog = "poll"
  /\ s = 1 => last[g] <= stamp
  /\ s \in 2..11 => last[g] < seen /\ seen <= stamp
  /\ s > 11 => last[g] = seen /\ seen <= stamp

\* The turn of g, or the one it finished, was started for the newest stamp.
LatestTurn(g) == IF thread[g].step = 1 THEN last[g] = stamp ELSE thread[g].seen = stamp

Fresh(g) ==
  LET s == thread[g].step IN
  /\ \A p \in LoopParts : s > ReadAt(p) => thread[g].view[p] = Stored(p)
  /\ \A c \in LoopCaches : s = 1 \/ s > SwapAt(c) => memory[g][c] = Stored(SourceOf(c))
  /\ s = 1 \/ s > 10 => valid[g]

Following(g) ==
  /\ Ordered(g)
  /\ HandlersIdle /\ LatestTurn(g) => Fresh(g)
  /\ memory[g]["settings"] = {}

SyncInv == Orderly => \A g \in Gateways : Following(g)

LEMMA SyncInit == ASSUME Init PROVE SyncInv
<1>1. IInv
  BY TypeInit
<1>2. ASSUME NEW g \in Gateways PROVE thread[g] = Thread("poll", g)
  BY DEF Init, Threads
<1>3. ASSUME NEW p PROVE Stored(p) = {}
  BY DEF Init, Stored
<1>4. ASSUME NEW g \in Gateways PROVE Following(g)
  <2>1. thread[g].prog = "poll" /\ thread[g].step = 1 /\ thread[g].seen = 0
    <3>1. thread[g] = [prog |-> "poll", step |-> 1, at |-> g, view |-> NoView, seen |-> 0]
      BY <1>2 DEF Thread
    <3> QED BY <3>1
  <2>2. /\ last[g] = 0 /\ stamp = 0 /\ valid[g] = TRUE
        /\ \A c \in Caches : memory[g][c] = {}
    BY DEF Init
  <2>3. Ordered(g)
    BY <2>1, <2>2 DEF Ordered
  <2>4. ASSUME NEW p \in LoopParts PROVE ~(1 > ReadAt(p))
    BY Tables
  <2>5. Fresh(g)
    BY <1>3, <2>1, <2>2, <2>4 DEF Fresh, LoopCaches
  <2>6. "settings" \in Caches
    BY DEF Caches, Parts
  <2> QED BY <2>2, <2>3, <2>5, <2>6 DEF Following
<1> QED BY <1>4 DEF SyncInv

\* What an orderly story says of a step of a thread.
LEMMA OrderlyLoop ==
  ASSUME IInv, Orderly, SyncInv, NEW g \in Gateways
  PROVE  /\ thread[g].prog = "poll" /\ thread[g].step \in 1..17
         /\ Current(g) = PollLoop[thread[g].step] /\ Running(g)
         /\ g \in Threads /\ thread[g].at = g
         /\ NextStep(g) = IF thread[g].step = 17 THEN 1 ELSE thread[g].step + 1
<1>1. thread[g].prog = "poll" /\ Running(g) /\ g \in Threads
  BY DEF SyncInv, Following, Ordered, IInv, TypeOK, Threads
<1>2. thread[g].step \in 1..17 /\ Current(g) = PollLoop[thread[g].step]
  BY <1>1, RunningThread
<1>3. thread[g].at = g
  BY DEF IInv, Roles
<1>4. NextStep(g) = IF thread[g].step = 17 THEN 1 ELSE thread[g].step + 1
  BY <1>1, PollSteps DEF NextStep
<1> QED BY <1>1, <1>2, <1>3, <1>4

\* A step that leaves an instance, the database and the handlers alone.
LEMMA FollowingKept ==
  ASSUME NEW h \in Gateways, Following(h),
         thread'[h] = thread[h], memory'[h] = memory[h], valid'[h] = valid[h],
         last'[h] = last[h], UNCHANGED <<story, db, stamp>>,
         HandlersIdle' => HandlersIdle
  PROVE  Following(h)'
<1>1. \A p : Stored(p)' = Stored(p)
  BY DEF Stored, Part
<1>2. Ordered(h)'
  BY DEF Following, Ordered
<1>3. LatestTurn(h)' = LatestTurn(h)
  BY DEF LatestTurn
<1>4. Fresh(h) => Fresh(h)'
  BY <1>1 DEF Fresh
<1> QED BY <1>2, <1>3, <1>4 DEF Following

\* While a handler runs, or once the stamp is new, nothing is promised of the caches.
LEMMA FollowingPending ==
  ASSUME NEW h \in Gateways, Following(h),
         thread'[h] = thread[h], last'[h] = last[h],
         IInv, stamp' \in Nat, stamp' >= stamp,
         ~HandlersIdle' \/ stamp' > stamp,
         memory'[h]["settings"] = memory[h]["settings"]
  PROVE  Following(h)'
<1>1. last[h] \in Nat /\ stamp \in Nat /\ h \in Threads
  BY DEF IInv, TypeOK, Threads
<1>2. thread[h].seen \in Nat /\ thread[h].step \in Nat
  BY <1>1 DEF IInv, TypeOK, ThreadState
<1>3. Running(h) /\ thread[h].prog = "poll"
  BY DEF IInv, TypeOK, Following, Ordered
<1>4. thread[h].step \in 1..17
  BY <1>1, <1>3, RunningThread
<1>5. Ordered(h)'
  BY <1>1, <1>2 DEF Following, Ordered
<1>6. stamp' > stamp => ~LatestTurn(h)'
  BY <1>1, <1>2, <1>4 DEF Following, Ordered, LatestTurn
<1> QED BY <1>5, <1>6 DEF Following

LEMMA SyncHandler ==
  ASSUME IInv, Orderly, SyncInv, NEW e \in Edits, Start(e) \/ Step(e) \/ Fail(e)
  PROVE  \A h \in Gateways : Following(h)'
<1>1. /\ e \in Threads /\ e \notin Gateways /\ Edits \cap Gateways = {}
      /\ Kind[e] \in {"routing", "auth"} /\ thread[e].prog = Kind[e] /\ Kind[e] \in Kinds
  BY ConfigAssumption DEF Threads, Orderly, IInv, Roles, Kinds
<1> DEFINE H == Handler(Kind[e])
           n == Len(H)
<1>2. /\ Program(Kind[e]) = H /\ n \in Nat \ {0}
      /\ \A i \in 1..n : /\ H[i].op = "notify" <=> i = n
                         /\ H[i].op # "apply"
                         /\ H[i].op \in HandlerOps
                         /\ H[i].op = "swap" => H[i].part \in Caches \ {"settings"}
  BY <1>1, HandlerSteps, OrderlySteps
<1> HIDE DEF H, n
<1>3. /\ \A h \in Gateways : Following(h) /\ h \in Threads /\ h # e
      /\ stamp \in Nat
  BY <1>1 DEF SyncInv, IInv, TypeOK, Threads
<1>4. ASSUME NEW s, NEW view, NEW seen, Moved(e, s, view, seen), s \in 1..n
      PROVE  ~HandlersIdle'
  <2>1. thread'[e].step = s /\ thread'[e].prog = Kind[e]
    BY <1>1, <1>4 DEF Moved
  <2>2. Program(thread'[e].prog) = H
    BY <1>2, <2>1
  <2>3. Running(e)'
    BY <1>4, <2>1, <2>2 DEF Running, n
  <2> QED BY <2>3 DEF HandlersIdle
<1>5. ASSUME NEW s, NEW view, NEW seen, Moved(e, s, view, seen)
      PROVE  \A h \in Gateways : thread'[h] = thread[h]
  BY <1>3, <1>5 DEF Moved
<1>6. CASE Start(e)
  <2>1. Moved(e, 1, thread[e].view, thread[e].seen)
    BY <1>6, StartMoves
  <2>2. 1 \in 1..n
    BY <1>2
  <2>3. ~HandlersIdle'
    BY <1>4, <2>1, <2>2
  <2>4. \A h \in Gateways : thread'[h] = thread[h]
    BY <1>5, <2>1
  <2> QED BY <1>3, <1>6, <2>3, <2>4, FollowingPending DEF Start
<1>7. ASSUME Running(e)
      PROVE  /\ thread[e].step \in 1..n /\ Current(e) = H[thread[e].step]
             /\ NextStep(e) = thread[e].step + 1
             /\ Current(e).op # "notify" => NextStep(e) \in 1..n
             /\ Current(e).op \in HandlerOps \ {"apply"}
             /\ Current(e).op = "swap" => Current(e).part \in Caches \ {"settings"}
  <2>1. thread[e].step \in 1..n /\ Current(e) = H[thread[e].step]
    BY <1>1, <1>7, RunningThread DEF n, H
  <2>2. NextStep(e) = thread[e].step + 1
    BY <1>1 DEF NextStep
  <2>3. Current(e).op # "notify" => NextStep(e) \in 1..n
    BY <1>2, <2>1, <2>2
  <2> QED BY <1>2, <2>1, <2>2, <2>3
<1>8. ASSUME Running(e), Current(e).op # "notify", Current(e).op # "begin", Advance(e)
      PROVE  ~HandlersIdle' /\ \A h \in Gateways : thread'[h] = thread[h]
  <2>1. Moved(e, NextStep(e), thread[e].view, thread[e].seen)
    BY <1>1, <1>8, AdvanceMoves
  <2>2. NextStep(e) \in 1..n
    BY <1>7, <1>8
  <2> QED BY <1>4, <1>5, <2>1, <2>2
<1>9. CASE Step(e)
  <2>1. CASE Commit(e) \/ Invalidate(e) \/ Validate(e)
    <3>1. ~HandlersIdle' /\ \A h \in Gateways : thread'[h] = thread[h]
      BY <1>8, <2>1 DEF Commit, Invalidate, Validate, AtOp
    <3>2. stamp' = stamp /\ last' = last /\ memory' = memory
      BY <2>1 DEF Commit, Invalidate, Validate
    <3> QED BY <1>3, <3>1, <3>2, FollowingPending
  <2>2. CASE Notify(e)
    <3>1. Moved(e, NextStep(e), thread[e].view, thread[e].seen)
      BY <1>1, <2>2, AdvanceMoves DEF Notify, AtOp
    <3>2. \A h \in Gateways : thread'[h] = thread[h]
      BY <1>5, <3>1
    <3>3. stamp' = stamp + 1 /\ last' = last /\ memory' = memory
      BY <2>2 DEF Notify
    <3>4. stamp' \in Nat /\ stamp' > stamp /\ stamp' >= stamp
      BY <1>3, <3>3
    <3> QED BY <1>3, <3>2, <3>3, <3>4, FollowingPending
  <2>3. CASE Swap(e)
    <3>1. ~HandlersIdle' /\ \A h \in Gateways : thread'[h] = thread[h]
      BY <1>8, <2>3 DEF Swap, AtOp
    <3>2. stamp' = stamp /\ last' = last
      BY <2>3 DEF Swap
    <3>3. Current(e).part # "settings"
      BY <1>7, <2>3 DEF Swap, AtOp
    <3>4. memory' = [memory EXCEPT ![thread[e].at][Current(e).part] =
                                     thread[e].view[SourceOf(Current(e).part)]]
      BY <2>3 DEF Swap
    <3>5. memory \in [Gateways -> [Caches -> SUBSET (Edits \cup Cleared)]]
      BY DEF IInv, TypeOK
    <3>6. "settings" \in Caches
      BY DEF Caches, Parts
    <3>7. ASSUME NEW h \in Gateways PROVE memory'[h]["settings"] = memory[h]["settings"]
      BY <3>3, <3>4, <3>5, <3>6
    <3>8. stamp' >= stamp /\ stamp' \in Nat
      BY <1>3, <3>2
    <3> QED BY <1>3, <3>1, <3>2, <3>7, <3>8, FollowingPending
  <2>4. CASE Read(e)
    <3>1. Running(e) /\ Current(e).op # "notify"
      BY <2>4 DEF Read, AtOp
    <3>2. NextStep(e) \in 1..n
      BY <1>7, <3>1
    <3>3. ~HandlersIdle' /\ \A h \in Gateways : thread'[h] = thread[h]
      BY <1>1, <1>4, <1>5, <2>4, <3>2, ReadMoves
    <3>4. stamp' = stamp /\ last' = last /\ memory' = memory
      BY <2>4 DEF Read
    <3> QED BY <1>3, <3>3, <3>4, FollowingPending
  <2>5. ~(Apply(e) \/ Check(e) \/ Adopt(e) \/ Begin(e))
    BY <1>7 DEF Apply, Check, Adopt, Begin, AtOp, HandlerOps
  <2> QED BY <1>9, <2>1, <2>2, <2>3, <2>4, <2>5 DEF Step
<1>10. ~Fail(e)
  <2>1. \A p : <<e, p>> \notin story.faulty
    BY <1>1 DEF Orderly
  <2> QED BY <2>1 DEF Fail
<1> QED BY <1>6, <1>9, <1>10

\* A turn of the loop that goes on: what it has to show for its steps.
LEMMA LoopMoved ==
  ASSUME IInv, Orderly, SyncInv, NEW g \in Gateways, NEW view, NEW seen,
         Moved(g, NextStep(g), view, seen), UNCHANGED <<story, db, stamp>>
  PROVE  /\ HandlersIdle' = HandlersIdle
         /\ thread'[g].step = NextStep(g) /\ thread'[g].view = view /\ thread'[g].seen = seen
         /\ thread'[g].prog = "poll"
         /\ \A h \in Gateways \ {g} : thread'[h] = thread[h]
         /\ \A p : Stored(p)' = Stored(p)
<1>1. Edits \cap Gateways = {}
  BY ConfigAssumption
<1>2. \A e \in Edits : thread'[e] = thread[e]
  BY <1>1 DEF Moved, Threads
<1>3. HandlersIdle' = HandlersIdle
  BY <1>2 DEF HandlersIdle, Running
<1>4. \A p : Stored(p)' = Stored(p)
  BY DEF Stored, Part
<1>5. thread[g].prog = "poll"
  BY OrderlyLoop
<1>6. /\ thread'[g].step = NextStep(g) /\ thread'[g].view = view /\ thread'[g].seen = seen
      /\ thread'[g].prog = "poll"
      /\ \A h \in Gateways \ {g} : thread'[h] = thread[h]
  BY <1>5 DEF Moved, Threads
<1> QED BY <1>3, <1>4, <1>6

LEMMA SyncLoop ==
  ASSUME IInv, Orderly, SyncInv, NEW g \in Gateways, Step(g) \/ Fail(g)
  PROVE  \A h \in Gateways : Following(h)'
<1> DEFINE s == thread[g].step
           view == thread[g].view
           seen == thread[g].seen
           part == Current(g).part
<1>1. /\ thread[g].prog = "poll" /\ s \in 1..17
      /\ Current(g) = PollLoop[s] /\ Running(g)
      /\ g \in Threads /\ thread[g].at = g
      /\ NextStep(g) = IF s = 17 THEN 1 ELSE s + 1
  BY OrderlyLoop
<1>2. /\ Current(g).op = "check" <=> s = 1
      /\ Current(g).op = "invalidate" <=> s = 2
      /\ Current(g).op = "validate" <=> s = 10
      /\ Current(g).op = "adopt" <=> s = 11
      /\ Current(g).op = "read" => part \in LoopParts /\ ReadAt(part) = s /\ s < 17
      /\ Current(g).op = "read" /\ part \in RoutingParts => s \in 3..5
      /\ Current(g).op = "swap" => part \in LoopCaches /\ SwapAt(part) = s
      /\ Current(g).op \in {"check", "invalidate", "validate", "adopt", "read", "swap"}
  BY <1>1, LoopOps
<1>3. /\ Following(g) /\ \A h \in Gateways : Following(h)
      /\ last[g] \in Nat /\ stamp \in Nat /\ seen \in Nat
      /\ DOMAIN view = Parts
      /\ memory \in [Gateways -> [Caches -> SUBSET (Edits \cup Cleared)]]
      /\ valid \in [Gateways -> BOOLEAN] /\ last \in [Gateways -> Nat]
      /\ "settings" \in Caches
  BY <1>1 DEF SyncInv, IInv, TypeOK, ThreadState, Caches, Parts
<1>4. /\ \A p \in LoopParts : ReadAt(p) \in 3..16 /\ PollLoop[ReadAt(p)] = On("read", p)
      /\ \A c \in LoopCaches : /\ SwapAt(c) \in 6..17 /\ PollLoop[SwapAt(c)] = On("swap", c)
                               /\ SourceOf(c) \in LoopParts
                               /\ ReadAt(SourceOf(c)) < SwapAt(c)
  BY Tables
<1>5. ASSUME NEW p \in LoopParts, Current(g).op # "read" \/ part # p PROVE ReadAt(p) # s
  <2>1. SUFFICES ASSUME ReadAt(p) = s PROVE FALSE
    OBVIOUS
  <2>2. Current(g) = On("read", p)
    BY <1>1, <1>4, <2>1
  <2> QED BY <1>5, <2>2 DEF On
<1>6. ASSUME NEW c \in LoopCaches, Current(g).op # "swap" \/ part # c PROVE SwapAt(c) # s
  <2>1. SUFFICES ASSUME SwapAt(c) = s PROVE FALSE
    OBVIOUS
  <2>2. Current(g) = On("swap", c)
    BY <1>1, <1>4, <2>1
  <2> QED BY <1>6, <2>2 DEF On
<1> HIDE DEF s, view, seen, part
<1>7. /\ thread[g].prog = "poll"
      /\ s = 1 => last[g] <= stamp
      /\ s \in 2..11 => last[g] < seen /\ seen <= stamp
      /\ s > 11 => last[g] = seen /\ seen <= stamp
  BY <1>3 DEF Following, Ordered, s, seen
<1>8. HandlersIdle /\ (IF s = 1 THEN last[g] = stamp ELSE seen = stamp) =>
        /\ \A p \in LoopParts : s > ReadAt(p) => view[p] = Stored(p)
        /\ \A c \in LoopCaches : s = 1 \/ s > SwapAt(c) => memory[g][c] = Stored(SourceOf(c))
        /\ s = 1 \/ s > 10 => valid[g]
  BY <1>3 DEF Following, LatestTurn, Fresh, s, seen, view
<1>9. memory[g]["settings"] = {}
  BY <1>3 DEF Following
<1>10. ASSUME NEW v, NEW w, Moved(g, NextStep(g), v, w), UNCHANGED <<story, db, stamp>>,
              NEW h \in Gateways, h # g,
              memory'[h] = memory[h], valid'[h] = valid[h], last'[h] = last[h]
       PROVE  Following(h)'
  BY <1>3, <1>10, LoopMoved, FollowingKept
<1>11. Advance(g) /\ Current(g).op # "begin" => Moved(g, NextStep(g), view, seen)
  BY <1>1, AdvanceMoves DEF view, seen
<1>12. CASE Check(g)
  <2>1. Moved(g, NextStep(g), view, stamp) /\ UNCHANGED <<story, db, stamp>>
    BY <1>1, <1>12, CheckMoves DEF Check, view
  <2>2. s = 1 /\ stamp # last[g] /\ UNCHANGED <<memory, valid, last>>
    BY <1>2, <1>12 DEF Check, AtOp
  <2>3. thread'[g].step = 2 /\ thread'[g].seen = stamp /\ thread'[g].prog = "poll"
    BY <1>1, <2>1, <2>2, LoopMoved
  <2>4. Ordered(g)'
    <3>1. last[g] < stamp
      <4>1. last[g] <= stamp /\ stamp # last[g]
        BY <1>7, <2>2
      <4>2. last[g] \in Nat /\ stamp \in Nat
        BY <1>3
      <4> QED BY <4>1, <4>2
    <3>2. last'[g] = last[g] /\ stamp' = stamp
      BY <2>1, <2>2
    <3> QED BY <1>3, <2>3, <3>1, <3>2 DEF Ordered
  <2>5. Fresh(g)'
    BY <1>4, <2>3 DEF Fresh
  <2>6. Following(g)'
    BY <1>9, <2>2, <2>4, <2>5 DEF Following
  <2> QED BY <1>10, <2>1, <2>2, <2>6
<1>13. CASE Invalidate(g)
  <2>1. Moved(g, NextStep(g), view, seen) /\ UNCHANGED <<story, db, stamp>>
    BY <1>2, <1>11, <1>13 DEF Invalidate, AtOp
  <2>2. s = 2 /\ UNCHANGED <<memory, last>> /\ valid' = [valid EXCEPT ![g] = FALSE]
    BY <1>1, <1>2, <1>13 DEF Invalidate, AtOp
  <2>3. thread'[g].step = 3 /\ thread'[g].seen = seen /\ thread'[g].prog = "poll"
    BY <1>1, <2>1, <2>2, LoopMoved
  <2>4. Ordered(g)'
    BY <1>7, <2>1, <2>2, <2>3 DEF Ordered
  <2>5. Fresh(g)'
    BY <1>4, <2>3 DEF Fresh
  <2>6. Following(g)'
    BY <1>9, <2>2, <2>4, <2>5 DEF Following
  <2>7. \A h \in Gateways : h # g => valid'[h] = valid[h]
    BY <1>3, <2>2
  <2> QED BY <1>10, <2>1, <2>2, <2>6, <2>7
<1>14. CASE Validate(g)
  <2>1. Moved(g, NextStep(g), view, seen) /\ UNCHANGED <<story, db, stamp>>
    BY <1>2, <1>11, <1>14 DEF Validate, AtOp
  <2>2. s = 10 /\ UNCHANGED <<memory, last>> /\ valid' = [valid EXCEPT ![g] = TRUE]
    BY <1>1, <1>2, <1>14 DEF Validate, AtOp
  <2>3. /\ thread'[g].step = 11 /\ thread'[g].seen = seen /\ thread'[g].prog = "poll"
        /\ thread'[g].view = view
        /\ HandlersIdle' = HandlersIdle /\ \A p : Stored(p)' = Stored(p)
    BY <1>1, <2>1, <2>2, LoopMoved
  <2>4. Ordered(g)'
    BY <1>7, <2>1, <2>2, <2>3 DEF Ordered
  <2>5. valid'[g] = TRUE
    BY <1>3, <2>2
  <2>6. HandlersIdle' /\ LatestTurn(g)' => Fresh(g)'
    <3>1. SUFFICES ASSUME HandlersIdle, seen = stamp PROVE Fresh(g)'
      BY <2>1, <2>3 DEF LatestTurn
    <3>2. \A p \in LoopParts : 11 > ReadAt(p) => view[p] = Stored(p)
      BY <1>2, <1>4, <1>5, <1>8, <2>2, <3>1
    <3>3. \A c \in LoopCaches : 11 > SwapAt(c) => memory[g][c] = Stored(SourceOf(c))
      BY <1>2, <1>4, <1>6, <1>8, <2>2, <3>1
    <3> QED BY <2>2, <2>3, <2>5, <3>2, <3>3 DEF Fresh
  <2>7. Following(g)'
    BY <1>9, <2>2, <2>4, <2>6 DEF Following
  <2>8. \A h \in Gateways : h # g => valid'[h] = valid[h]
    BY <1>3, <2>2
  <2> QED BY <1>10, <2>1, <2>2, <2>7, <2>8
<1>15. CASE Adopt(g)
  <2>1. Moved(g, NextStep(g), view, seen) /\ UNCHANGED <<story, db, stamp>>
    BY <1>2, <1>11, <1>15 DEF Adopt, AtOp
  <2>2. s = 11 /\ UNCHANGED <<memory, valid>> /\ last' = [last EXCEPT ![g] = seen]
    BY <1>1, <1>2, <1>15 DEF Adopt, AtOp, seen
  <2>3. /\ thread'[g].step = 12 /\ thread'[g].seen = seen /\ thread'[g].prog = "poll"
        /\ thread'[g].view = view
        /\ HandlersIdle' = HandlersIdle /\ \A p : Stored(p)' = Stored(p)
    BY <1>1, <2>1, <2>2, LoopMoved
  <2>4. last'[g] = seen
    BY <1>3, <2>2
  <2>5. Ordered(g)'
    BY <1>7, <2>1, <2>2, <2>3, <2>4 DEF Ordered
  <2>6. HandlersIdle' /\ LatestTurn(g)' => Fresh(g)'
    <3>1. SUFFICES ASSUME HandlersIdle, seen = stamp PROVE Fresh(g)'
      BY <2>1, <2>3 DEF LatestTurn
    <3>2. \A p \in LoopParts : 12 > ReadAt(p) => view[p] = Stored(p)
      BY <1>2, <1>4, <1>5, <1>8, <2>2, <3>1
    <3>3. \A c \in LoopCaches : 12 > SwapAt(c) => memory[g][c] = Stored(SourceOf(c))
      BY <1>2, <1>4, <1>6, <1>8, <2>2, <3>1
    <3>4. valid[g]
      BY <1>8, <2>2, <3>1
    <3> QED BY <2>2, <2>3, <3>2, <3>3, <3>4 DEF Fresh
  <2>7. Following(g)'
    BY <1>9, <2>2, <2>5, <2>6 DEF Following
  <2>8. \A h \in Gateways : h # g => last'[h] = last[h]
    BY <1>3, <2>2
  <2> QED BY <1>10, <2>1, <2>2, <2>7, <2>8
<1>16. CASE Read(g)
  <2> DEFINE v == [view EXCEPT ![part] = Stored(part)]
  <2>1. Moved(g, NextStep(g), v, seen) /\ UNCHANGED <<story, db, stamp>>
    BY <1>1, <1>16, ReadMoves DEF Read, view, seen, part
  <2>2. /\ Current(g).op = "read" /\ part \in LoopParts /\ ReadAt(part) = s /\ s < 17
        /\ UNCHANGED <<memory, valid, last>>
    BY <1>2, <1>16 DEF Read, AtOp
  <2>3. s \in 3..16 /\ NextStep(g) = s + 1 /\ s # 11
    BY <1>1, <1>2, <1>4, <2>2
  <2>4. /\ thread'[g].step = s + 1 /\ thread'[g].seen = seen /\ thread'[g].prog = "poll"
        /\ thread'[g].view = v
        /\ HandlersIdle' = HandlersIdle /\ \A p : Stored(p)' = Stored(p)
    BY <2>1, <2>3, LoopMoved
  <2>5. Ordered(g)'
    BY <1>7, <2>1, <2>2, <2>3, <2>4 DEF Ordered
  <2>6. HandlersIdle' /\ LatestTurn(g)' => Fresh(g)'
    <3>1. SUFFICES ASSUME HandlersIdle, seen = stamp PROVE Fresh(g)'
      BY <2>1, <2>3, <2>4 DEF LatestTurn
    <3>2. ASSUME NEW p \in LoopParts, s + 1 > ReadAt(p) PROVE v[p] = Stored(p)
      <4>1. CASE p = part
        BY <1>3, <4>1 DEF LoopParts
      <4>2. CASE p # part
        <5>1. s > ReadAt(p)
          BY <1>4, <1>5, <2>3, <3>2, <4>2
        <5>2. view[p] = Stored(p)
          BY <1>8, <2>3, <3>1, <5>1
        <5> QED BY <1>3, <4>2, <5>2 DEF LoopParts
      <4> QED BY <4>1, <4>2
    <3>3. ASSUME NEW c \in LoopCaches, s + 1 > SwapAt(c)
          PROVE  memory[g][c] = Stored(SourceOf(c))
      <4>1. s > SwapAt(c)
        BY <1>4, <1>6, <2>2, <2>3, <3>3
      <4> QED BY <1>8, <2>3, <3>1, <4>1
    <3>4. s + 1 > 10 => valid[g]
      <4>1. s # 10
        BY <1>2, <2>2
      <4> QED BY <1>8, <2>3, <3>1, <4>1
    <3> HIDE DEF v
    <3> QED BY <2>2, <2>3, <2>4, <3>2, <3>3, <3>4 DEF Fresh
  <2>7. Following(g)'
    BY <1>9, <2>2, <2>5, <2>6 DEF Following
  <2> QED BY <1>10, <2>1, <2>2, <2>7
<1>17. CASE Swap(g)
  <2>1. Moved(g, NextStep(g), view, seen) /\ UNCHANGED <<story, db, stamp>>
    BY <1>2, <1>11, <1>17 DEF Swap, AtOp
  <2>2. /\ Current(g).op = "swap" /\ part \in LoopCaches /\ SwapAt(part) = s
        /\ UNCHANGED <<valid, last>>
        /\ memory' = [memory EXCEPT ![g][part] = view[SourceOf(part)]]
    BY <1>1, <1>2, <1>17 DEF Swap, AtOp, view, part
  <2>3. s \in 6..17 /\ s # 10 /\ s # 11
    BY <1>2, <1>4, <2>2
  <2>4. /\ thread'[g].step = NextStep(g) /\ thread'[g].seen = seen /\ thread'[g].prog = "poll"
        /\ thread'[g].view = view
        /\ HandlersIdle' = HandlersIdle /\ \A p : Stored(p)' = Stored(p)
    BY <2>1, LoopMoved
  <2>5. /\ memory'[g][part] = view[SourceOf(part)]
        /\ \A c \in LoopCaches : c # part => memory'[g][c] = memory[g][c]
        /\ memory'[g]["settings"] = {}
        /\ \A h \in Gateways : h # g => memory'[h] = memory[h]
    BY <1>3, <1>9, <2>2 DEF LoopCaches
  <2>6. Ordered(g)'
    BY <1>1, <1>7, <2>1, <2>2, <2>3, <2>4 DEF Ordered
  <2>7. HandlersIdle' /\ LatestTurn(g)' => Fresh(g)'
    <3>1. SUFFICES ASSUME HandlersIdle, seen = stamp PROVE Fresh(g)'
      BY <1>1, <1>7, <2>1, <2>2, <2>3, <2>4 DEF LatestTurn
    <3>2. ASSUME NEW p \in LoopParts, NextStep(g) > ReadAt(p) PROVE view[p] = Stored(p)
      <4>1. s > ReadAt(p)
        BY <1>1, <1>4, <1>5, <2>2, <2>3, <3>2
      <4> QED BY <1>8, <2>3, <3>1, <4>1
    <3>3. ASSUME NEW c \in LoopCaches, NextStep(g) = 1 \/ NextStep(g) > SwapAt(c)
          PROVE  memory'[g][c] = Stored(SourceOf(c))
      <4>1. CASE c = part
        <5>1. SourceOf(part) \in LoopParts /\ s > ReadAt(SourceOf(part))
          BY <1>4, <2>2, <2>3
        <5>2. view[SourceOf(part)] = Stored(SourceOf(part))
          BY <1>8, <2>3, <3>1, <5>1
        <5> QED BY <2>5, <4>1, <5>2
      <4>2. CASE c # part
        <5>1. s > SwapAt(c)
          BY <1>1, <1>4, <1>6, <2>3, <3>3, <4>2
        <5>2. memory[g][c] = Stored(SourceOf(c))
          BY <1>8, <2>3, <3>1, <5>1
        <5> QED BY <2>5, <4>2, <5>2
      <4> QED BY <4>1, <4>2
    <3>4. NextStep(g) = 1 \/ NextStep(g) > 10 => valid[g]
      BY <1>1, <1>8, <2>3, <3>1
    <3> QED BY <2>2, <2>4, <3>2, <3>3, <3>4 DEF Fresh
  <2>8. Following(g)'
    BY <2>5, <2>6, <2>7 DEF Following
  <2> QED BY <1>10, <2>1, <2>2, <2>5, <2>8
<1>18. ~(Commit(g) \/ Notify(g) \/ Apply(g) \/ Begin(g))
  BY <1>2 DEF Commit, Notify, Apply, Begin, AtOp
<1>19. CASE Fail(g)
  <2>1. part \in RoutingParts
    <3>1. <<g, part>> \in story.faulty
      <4>1. Current(g).op # "notify"
        BY <1>2
      <4> QED BY <1>19, <4>1 DEF Fail, AtOp, part
    <3> QED BY <3>1 DEF Orderly
  <2>2. Current(g).op = "read" /\ s \in 3..5
    BY <1>2, <1>19, <2>1 DEF Fail
  <2>3. AfterError(g) = 1
    BY <1>1 DEF AfterError
  <2>4. Moved(g, 1, view, seen)
    BY <1>1, <1>19, <2>1, <2>2, <2>3, FailMoves DEF view, seen, part
  <2>5. UNCHANGED <<story, db, stamp, memory, valid, last>>
    BY <1>19 DEF Fail
  <2>6. thread'[g].step = 1 /\ thread'[g].prog = "poll"
    BY <1>1, <2>4 DEF Moved
  <2>7. last[g] < stamp
    BY <1>3, <1>7, <2>2
  <2>8. Ordered(g)' /\ ~LatestTurn(g)'
    BY <1>3, <2>5, <2>6, <2>7 DEF Ordered, LatestTurn
  <2>9. Following(g)'
    BY <1>9, <2>5, <2>8 DEF Following
  <2>10. ASSUME NEW h \in Gateways, h # g PROVE Following(h)'
    <3>1. thread'[h] = thread[h] /\ \A e \in Edits : thread'[e] = thread[e]
      BY <2>4, <2>10, ConfigAssumption DEF Moved, Threads
    <3>2. HandlersIdle' = HandlersIdle
      BY <3>1 DEF HandlersIdle, Running
    <3> QED BY <1>3, <2>5, <3>1, <3>2, FollowingKept
  <2> QED BY <2>9, <2>10
<1> QED BY <1>12, <1>13, <1>14, <1>15, <1>16, <1>17, <1>18, <1>19 DEF Step

LEMMA SyncNext == ASSUME IInv, SyncInv, [Next]_vars PROVE SyncInv'
<1>1. SUFFICES ASSUME Orderly PROVE \A g \in Gateways : Following(g)'
  <2>1. story' = story
    BY DEF vars, Next, Start, Step, Fail, Restart, Commit, Notify, Apply, Invalidate, Read,
           Swap, Validate, Check, Adopt, Begin
  <2>2. Orderly' = Orderly
    BY <2>1 DEF Orderly, Kind
  <2> QED BY <2>2 DEF SyncInv
<1>2. ASSUME NEW e \in Edits, Start(e) PROVE \A g \in Gateways : Following(g)'
  BY <1>1, <1>2, SyncHandler
<1>3. ASSUME NEW t \in Threads, Step(t) \/ Fail(t) PROVE \A g \in Gateways : Following(g)'
  <2>1. CASE t \in Edits
    BY <1>1, <1>3, <2>1, SyncHandler
  <2>2. CASE t \in Gateways
    BY <1>1, <1>3, <2>2, SyncLoop
  <2> QED BY <2>1, <2>2 DEF Threads
<1>4. ASSUME NEW g \in Gateways PROVE ~Restart(g)
  BY <1>1 DEF Restart, Orderly, IInv, TypeOK
<1>5. CASE UNCHANGED vars
  <2>1. HandlersIdle' => HandlersIdle
    BY <1>5 DEF vars, HandlersIdle, Running
  <2>2. \A g \in Gateways : Following(g)
    BY <1>1 DEF SyncInv
  <2> QED BY <1>5, <2>1, <2>2, FollowingKept DEF vars
<1> QED BY <1>2, <1>3, <1>4, <1>5 DEF Next

\* With no handler running and no new stamp, the caches are what the database holds.
LEMMA FollowingSynced ==
  ASSUME IInv, Orderly, SyncInv, NEW g \in Gateways, HandlersIdle, CaughtUp(g)
  PROVE  Synced(g)
<1>1. Fresh(g) /\ memory[g]["settings"] = {} /\ thread[g].step = 1
  BY DEF SyncInv, Following, LatestTurn, CaughtUp
<1>2. ASSUME NEW c \in LoopCaches PROVE memory[g][c] = Stored(SourceOf(c))
  BY <1>1 DEF Fresh
<1>3. Stored("settings") = {}
  <2>1. \A e \in Edits : Part[e] \in RoutingParts \cup AuthParts
    BY StoryFacts DEF Orderly, PartsOf, IInv
  <2>2. db \subseteq Edits
    BY DEF IInv, TypeOK
  <2> QED BY <2>1, <2>2 DEF Stored, RoutingParts, AuthParts
<1>4. ASSUME NEW p \in Parts PROVE memory[g][p] = Stored(p)
  <2>1. CASE p = "settings"
    BY <1>1, <1>3, <2>1
  <2>2. CASE p # "settings"
    <3>1. p \in LoopCaches /\ p # "balancers"
      BY <2>2 DEF LoopCaches, Caches, Parts, RoutingParts, AuthParts
    <3>2. SourceOf(p) = p
      BY <3>1 DEF SourceOf
    <3> QED BY <1>2, <3>1, <3>2
  <2> QED BY <2>1, <2>2
<1>5. memory[g]["balancers"] = Stored("channels")
  <2>1. "balancers" \in LoopCaches
    BY DEF LoopCaches, Caches
  <2>2. SourceOf("balancers") = "channels"
    BY DEF SourceOf
  <2> QED BY <1>2, <2>1, <2>2
<1>6. "channels" \in Parts
  BY DEF Parts, RoutingParts
<1> QED BY <1>1, <1>4, <1>5, <1>6 DEF Synced, Fresh

\* However the reloads of handlers and poll loops overlap, and whatever reads of the
\* routing tables the loops miss: when the handlers of changes that are announced last
\* have returned and an instance sees no new stamp, its caches are what the database
\* holds (main.rs:560-596, service/routing.rs reload, service/auth.rs reload).
THEOREM SyncedWhenQuietHolds == Spec => [](Orderly => SyncedWhenQuiet)
<1>1. Init => SyncInv
  BY SyncInit
<1>2. IInv /\ SyncInv /\ [Next]_vars => SyncInv'
  BY SyncNext
<1>3. IInv /\ SyncInv => (Orderly => SyncedWhenQuiet)
  BY FollowingSynced DEF SyncedWhenQuiet
<1> QED BY <1>1, <1>2, <1>3, Inductive, PTL DEF Spec

-----------------------------------------------------------------------------
(* What is in force where it was made *)

(* With no announcement a poll loop never begins a turn, so the caches of an   *)
(* instance that is up change only by the handlers it serves, which overwrite  *)
(* rows of them: a row that is stored was the last to be committed, so it was  *)
(* the last to be applied unless it overtook another.  An instance that starts *)
(* again reads every change made on it, because it serves nobody until it is   *)
(* up.                                                                         *)

\* The cache that a change is in force in, and the steps of the startup that read the
\* change and put it there.
Home(e) == IF Kind[e] = "toggle" THEN "balancers" ELSE "settings"
LoadedAt(e) == IF Kind[e] = "toggle" THEN 10 ELSE 1
FilledAt(e) == IF Kind[e] = "toggle" THEN 14 ELSE 2

Quiet == stamp = 0 /\ \A g \in Gateways : last[g] = 0 /\ (Up(g) => thread[g].step = 1)

Served(e) ==
  /\ Running(e) => Up(thread[e].at)
  /\ e \in db => thread[e].step > 1

InForce(e) ==
  LET g == thread[e].at IN
  e \in db /\ Kind[e] # "member" =>
    /\ Up(g) /\ thread[e].step > 2 /\ e \notin raced => e \in memory[g][Home(e)]
    /\ ~Up(g) /\ thread[g].step > LoadedAt(e) => e \in thread[g].view[Part[e]]
    /\ ~Up(g) /\ thread[g].step > FilledAt(e) => e \in memory[g][Home(e)]

\* What is stored, and overtook nothing, nothing committed before it will overwrite.
LastApplied(e) ==
  e \in db \ raced =>
    \A f \in Edits \ {e} :
      SameRow(e, f) /\ thread[f].at = thread[e].at => ~AtOp(f, "apply")

HomeInv ==
  Unannounced => Quiet /\ \A e \in Edits : Served(e) /\ InForce(e) /\ LastApplied(e)

LEMMA HomeInit == ASSUME Init PROVE HomeInv
<1>1. IInv
  BY TypeInit
<1>2. ASSUME NEW g \in Gateways PROVE thread[g].step = 1
  <2>1. thread[g] = [prog |-> "poll", step |-> 1, at |-> g, view |-> NoView, seen |-> 0]
    BY DEF Init, Threads, Thread
  <2> QED BY <2>1
<1>3. Quiet
  BY <1>2 DEF Init, Quiet
<1>4. db = {}
  BY DEF Init
<1>5. ASSUME NEW e \in Edits PROVE ~Running(e)
  <2>1. e \in Threads /\ e \notin Gateways
    BY ConfigAssumption DEF Threads
  <2>2. PICK at \in [Edits -> Gateways] :
          thread = [t \in Threads |-> IF t \in Gateways THEN Thread("poll", t)
                                      ELSE [Thread(Kind[t], at[t]) EXCEPT !.step = 0]]
    BY DEF Init
  <2>3. thread[e] = [Thread(Kind[e], at[e]) EXCEPT !.step = 0]
    BY <2>1, <2>2
  <2>4. thread[e].step = 0
    BY <2>3 DEF Thread
  <2> QED BY <2>4 DEF Running
<1> QED BY <1>3, <1>4, <1>5 DEF HomeInv, Served, InForce, LastApplied

\* The handlers of the changes that nobody is told of.
LEMMA QuietHandler ==
  ASSUME IInv, Unannounced, NEW e \in Edits
  PROVE  LET H == Handler(Kind[e])
         IN  /\ thread[e].prog = Kind[e] /\ Program(thread[e].prog) = H
             /\ Kind[e] \in {"toggle", "settings", "member"}
             /\ H[1] = Op("commit")
             /\ Kind[e] = "member" => Len(H) = 1
             /\ Kind[e] # "member" => Len(H) = 2 /\ H[2] = On("apply", Home(e))
             /\ Kind[e] = "toggle" => Part[e] = "channels"
             /\ Kind[e] = "settings" => Part[e] = "settings"
             /\ Kind[e] # "member" => Part[e] \in Parts /\ SourceOf(Home(e)) = Part[e]
<1>1. Kind[e] \in {"toggle", "settings", "member"} /\ thread[e].prog = Kind[e]
  BY DEF Unannounced, IInv, Roles
<1>2. Program(Kind[e]) = Handler(Kind[e])
  BY <1>1, HandlerSteps DEF Kinds
<1>3. Part[e] \in PartsOf(Kind[e])
  BY StoryFacts DEF IInv
<1>4. CASE Kind[e] = "toggle"
  <2>1. Handler(Kind[e]) = << Op("commit"), On("apply", "balancers") >>
    BY <1>4 DEF Handler
  <2>2. Part[e] = "channels"
    BY <1>3, <1>4 DEF PartsOf
  <2> QED BY <1>1, <1>2, <1>4, <2>1, <2>2 DEF Home, Parts, RoutingParts, SourceOf
<1>5. CASE Kind[e] = "settings"
  <2>1. Handler(Kind[e]) = << Op("commit"), On("apply", "settings") >>
    BY <1>5 DEF Handler
  <2>2. Part[e] = "settings"
    BY <1>3, <1>5 DEF PartsOf
  <2> QED BY <1>1, <1>2, <1>5, <2>1, <2>2 DEF Home, Parts, SourceOf
<1>6. CASE Kind[e] = "member"
  <2>1. Handler(Kind[e]) = << Op("commit") >>
    BY <1>6 DEF Handler
  <2> QED BY <1>1, <1>2, <1>6, <2>1
<1> QED BY <1>1, <1>4, <1>5, <1>6

\* Served and InForce of a change that a step does not touch.
LEMMA HomeKept ==
  ASSUME NEW e \in Edits, NEW g \in Gateways, Served(e), InForce(e), story' = story,
         thread[e].at = g, thread'[e] = thread[e], thread'[g] = thread[g],
         e \in db' => e \in db,
         e \in memory[g][Home(e)] =>
           \/ e \in memory'[g][Home(e)]
           \/ Up(g) /\ (e \in db' => e \in raced'),
         e \in raced => e \in raced'
  PROVE  Served(e)' /\ InForce(e)'
<1>1. /\ Home(e)' = Home(e) /\ LoadedAt(e)' = LoadedAt(e) /\ FilledAt(e)' = FilledAt(e)
      /\ Kind'[e] = Kind[e] /\ Part'[e] = Part[e]
  BY DEF Home, LoadedAt, FilledAt, Kind, Part
<1>2. Up(g)' = Up(g) /\ Running(e)' = Running(e)
  BY DEF Up, Running
<1>3. Served(e)'
  BY <1>2 DEF Served
<1>4. InForce(e)'
  BY <1>1, <1>2 DEF InForce
<1> QED BY <1>3, <1>4

\* What such a handler does next: it has two steps.
LEMMA QuietStep ==
  ASSUME IInv, Unannounced, NEW t \in Edits, Step(t) \/ Fail(t)
  PROVE  /\ Running(t) /\ NextStep(t) = thread[t].step + 1
         /\ \/ Commit(t) /\ thread[t].step = 1 /\ Current(t) = Op("commit")
            \/ /\ Apply(t) /\ thread[t].step = 2 /\ Current(t) = On("apply", Home(t))
               /\ Kind[t] # "member"
<1>1. Running(t)
  <2>1. CASE Step(t)
    BY <2>1 DEF Step, Commit, Notify, Apply, Invalidate, Read, Swap, Validate,
                Check, Adopt, Begin, AtOp
  <2>2. CASE Fail(t)
    BY <2>2 DEF Fail
  <2> QED BY <2>1, <2>2
<1> DEFINE H == Handler(Kind[t])
<1>2. /\ thread[t].prog = Kind[t] /\ Program(thread[t].prog) = H
      /\ Kind[t] \in {"toggle", "settings", "member"}
      /\ H[1] = Op("commit")
      /\ Kind[t] = "member" => Len(H) = 1
      /\ Kind[t] # "member" => Len(H) = 2 /\ H[2] = On("apply", Home(t))
  BY QuietHandler
<1> HIDE DEF H
<1>3. /\ thread[t].step \in 1..Len(H) /\ Current(t) = H[thread[t].step]
      /\ NextStep(t) = thread[t].step + 1
  BY <1>1, <1>2 DEF Running, Current, NextStep
<1>4. \/ thread[t].step = 1 /\ Current(t) = Op("commit")
      \/ thread[t].step = 2 /\ Current(t) = On("apply", Home(t)) /\ Kind[t] # "member"
  BY <1>2, <1>3
<1>5. \/ thread[t].step = 1 /\ Current(t) = Op("commit") /\ Current(t).op = "commit"
      \/ /\ thread[t].step = 2 /\ Current(t) = On("apply", Home(t))
         /\ Kind[t] # "member" /\ Current(t).op = "apply"
  BY <1>4 DEF Op, On
<1>6. Step(t)
  BY <1>5 DEF Fail
<1>7. CASE Current(t).op = "commit"
  <2>1. Commit(t)
    BY <1>6, <1>7 DEF Step, Notify, Apply, Invalidate, Read, Swap, Validate, Check, Adopt,
                      Begin, AtOp
  <2> QED BY <1>1, <1>3, <1>5, <1>7, <2>1
<1>8. CASE Current(t).op = "apply"
  <2>1. Apply(t)
    BY <1>6, <1>8 DEF Step, Commit, Notify, Invalidate, Read, Swap, Validate, Check, Adopt,
                      Begin, AtOp
  <2> QED BY <1>1, <1>3, <1>5, <1>8, <2>1
<1> QED BY <1>5, <1>7, <1>8

LEMMA HomeHandler ==
  ASSUME IInv, Unannounced, HomeInv, NEW t \in Edits, Start(t) \/ Step(t) \/ Fail(t)
  PROVE  Quiet' /\ \A e \in Edits : Served(e)' /\ InForce(e)'
<1>1. t \in Threads /\ Edits \cap Gateways = {}
  BY ConfigAssumption DEF Threads
<1>2. Quiet /\ \A e \in Edits : Served(e) /\ InForce(e) /\ LastApplied(e)
  BY DEF HomeInv
<1>3. /\ thread[t] \in ThreadState /\ thread[t].step \in Nat
      /\ \A e \in Edits : thread[e].at \in Gateways /\ thread[e].step \in Nat
      /\ memory \in [Gateways -> [Caches -> SUBSET (Edits \cup Cleared)]]
  BY <1>1 DEF IInv, TypeOK, ThreadState, Threads
<1> PICK g \in Gateways : g = thread[t].at
  BY <1>3
<1>4. thread[t].prog = Kind[t]
  BY QuietHandler
<1>5. ASSUME NEW s, NEW view, NEW seen, Moved(t, s, view, seen)
      PROVE  /\ \A h \in Gateways : thread'[h] = thread[h]
             /\ \A e \in Edits \ {t} : thread'[e] = thread[e]
             /\ thread'[t].step = s /\ thread'[t].prog = Kind[t] /\ thread'[t].at = g
             /\ Up(g)' = Up(g)
  <2>1. \A h \in Gateways : thread'[h] = thread[h]
    BY <1>1, <1>5 DEF Moved, Threads
  <2>2. Up(g)' = Up(g)
    BY <1>3, <2>1 DEF Up
  <2> QED BY <1>4, <1>5, <2>1, <2>2 DEF Moved, Threads
<1>6. ASSUME \A h \in Gateways : thread'[h] = thread[h], stamp' = stamp, last' = last
      PROVE  Quiet'
  BY <1>2, <1>6 DEF Quiet, Up
<1>7. CASE Start(t)
  <2>1. Moved(t, 1, thread[t].view, thread[t].seen)
    BY <1>7, StartMoves
  <2>2. UNCHANGED <<story, db, raced, stamp, memory, last>> /\ thread[t].step = 0 /\ Up(g)
    BY <1>7 DEF Start
  <2>3. Quiet'
    BY <1>5, <1>6, <2>1, <2>2
  <2>4. ASSUME NEW e \in Edits, e # t PROVE Served(e)' /\ InForce(e)'
    BY <1>2, <1>3, <1>5, <2>1, <2>2, <2>4, HomeKept
  <2>5. t \notin db
    BY <1>2, <2>2 DEF Served
  <2>6. Served(t)' /\ InForce(t)'
    BY <1>5, <2>1, <2>2, <2>5 DEF Served, InForce
  <2> QED BY <2>3, <2>4, <2>6
<1>8. CASE Step(t) \/ Fail(t)
  <2>1. Running(t) /\ NextStep(t) = thread[t].step + 1
    BY <1>8, QuietStep
  <2>2. Up(g)
    BY <1>2, <2>1 DEF Served
  <2>3. \/ Commit(t) /\ thread[t].step = 1 /\ Current(t) = Op("commit")
        \/ /\ Apply(t) /\ thread[t].step = 2 /\ Current(t) = On("apply", Home(t))
           /\ Kind[t] # "member"
    BY <1>8, QuietStep
  <2>4. /\ Commit(t) \/ Apply(t)
        /\ Commit(t) => thread[t].step = 1 /\ Current(t).op = "commit"
        /\ Apply(t) => /\ thread[t].step = 2 /\ Current(t) = On("apply", Home(t))
                       /\ Current(t).op = "apply" /\ Kind[t] # "member"
    BY <2>3 DEF Op, On, Commit, Apply, AtOp
  <2>5. Moved(t, NextStep(t), thread[t].view, thread[t].seen)
    BY <1>1, <2>1, <2>4, AdvanceMoves DEF Commit, Apply
  <2>6. UNCHANGED <<story, stamp, last>>
    BY <2>4 DEF Commit, Apply
  <2>7. Quiet'
    BY <1>5, <1>6, <2>5, <2>6
  <2>8. CASE Commit(t)
    <3>1. /\ db' \subseteq db \cup {t} /\ raced \subseteq raced' /\ memory' = memory
          /\ thread[t].step = 1
      BY <2>4, <2>8 DEF Commit, Overwrite
    <3>2. ASSUME NEW e \in Edits, e # t PROVE Served(e)' /\ InForce(e)'
      BY <1>2, <1>3, <1>5, <2>5, <2>6, <3>1, <3>2, HomeKept
    <3>3. thread'[t].step = 2 /\ thread'[t].at = g /\ Up(g)'
      <4>1. NextStep(t) = 2
        BY <2>1, <3>1
      <4>2. thread'[t].step = NextStep(t) /\ thread'[t].at = g /\ Up(g)' = Up(g)
        BY <1>5, <2>5
      <4> QED BY <2>2, <4>1, <4>2
    <3>4. Served(t)' /\ InForce(t)'
      BY <3>3 DEF Served, InForce
    <3> QED BY <2>7, <3>2, <3>4
  <2>9. CASE Apply(t)
    <3>1. /\ Current(t).part = Home(t) /\ thread[t].step = 2
          /\ memory' = [memory EXCEPT ![g][Current(t).part] = Overwrite(@, t)]
          /\ db' = db /\ raced' = raced /\ AtOp(t, "apply")
      BY <2>4, <2>9 DEF Apply, On
    <3>2. memory' = [memory EXCEPT ![g][Home(t)] = Overwrite(@, t)]
      BY <3>1
    <3>3. ASSUME NEW e \in Edits PROVE Home(e) \in Caches
      BY DEF Home, Caches, Parts
    <3>4. ASSUME NEW e \in Edits, e # t PROVE Served(e)' /\ InForce(e)'
      <4>1. CASE thread[e].at = g /\ SameRow(t, e)
        <5>1. SameRow(e, t)
          BY <4>1 DEF SameRow
        <5>2. e \in db => e \in raced
          BY <1>2, <3>1, <3>4, <4>1, <5>1 DEF LastApplied
        <5> QED BY <1>2, <1>3, <1>5, <2>2, <2>5, <2>6, <3>1, <3>4, <4>1, <5>2, HomeKept
      <4>2. CASE ~(thread[e].at = g /\ SameRow(t, e))
        <5>1. e \in memory[thread[e].at][Home(e)] => e \in memory'[thread[e].at][Home(e)]
          BY <1>3, <3>2, <3>3, <4>2 DEF Overwrite
        <5> QED BY <1>2, <1>3, <1>5, <2>5, <2>6, <3>1, <3>4, <5>1, HomeKept
      <4> QED BY <4>1, <4>2
    <3>5. thread'[t].step = 3 /\ thread'[t].at = g /\ Up(g)'
      <4>1. NextStep(t) = 3
        BY <2>1, <3>1
      <4>2. thread'[t].step = NextStep(t) /\ thread'[t].at = g /\ Up(g)' = Up(g)
        BY <1>5, <2>5
      <4> QED BY <2>2, <4>1, <4>2
    <3>6. t \in memory'[g][Home(t)]
      BY <1>3, <3>2, <3>3 DEF Overwrite
    <3>7. Home(t)' = Home(t)
      BY <2>6 DEF Home, Kind
    <3>8. Served(t)' /\ InForce(t)'
      BY <3>5, <3>6, <3>7 DEF Served, InForce
    <3> QED BY <2>7, <3>4, <3>8
  <2> QED BY <2>4, <2>8, <2>9
<1> QED BY <1>7, <1>8

\* The steps of the startup that a change depends on.
LEMMA StartupOps ==
  ASSUME IInv, Unannounced, NEW e \in Edits, Kind[e] # "member", NEW s \in 1..18
  PROVE  LET o == Startup[s].op
             p == Startup[s].part
         IN  /\ LoadedAt(e) \in 1..10 /\ FilledAt(e) \in 2..14 /\ LoadedAt(e) < FilledAt(e)
             /\ o = "begin" <=> s = 18
             /\ s = LoadedAt(e) <=> o = "read" /\ p = Part[e]
             /\ s = FilledAt(e) <=> o = "swap" /\ p = Home(e)
             /\ o \in {"invalidate", "read", "swap", "validate", "begin"}
             /\ o = "read" => p \in Parts
<1> DEFINE o == Startup[s].op
           p == Startup[s].part
<1>1. /\ Kind[e] \in {"toggle", "settings", "member"}
      /\ Kind[e] = "toggle" => Part[e] = "channels"
      /\ Kind[e] = "settings" => Part[e] = "settings"
  BY QuietHandler
<1>2. /\ o = "begin" <=> s = 18
      /\ o \in {"invalidate", "read", "swap", "validate", "begin"}
      /\ s = 1 <=> o = "read" /\ p = "settings"
      /\ s = 2 <=> o = "swap" /\ p = "settings"
      /\ s = 10 <=> o = "read" /\ p = "channels"
      /\ s = 14 <=> o = "swap" /\ p = "balancers"
  BY StartupSteps DEF Op, On
<1>3. o = "read" => p \in Parts
  BY GatewaySteps
<1>4. CASE Kind[e] = "toggle"
  BY <1>1, <1>2, <1>3, <1>4 DEF LoadedAt, FilledAt, Home
<1>5. CASE Kind[e] = "settings"
  BY <1>1, <1>2, <1>3, <1>5 DEF LoadedAt, FilledAt, Home
<1> QED BY <1>1, <1>4, <1>5

LEMMA HomeGateway ==
  ASSUME IInv, Unannounced, HomeInv, NEW g \in Gateways, Step(g) \/ Fail(g)
  PROVE  Quiet' /\ \A e \in Edits : Served(e)' /\ InForce(e)'
<1>1. g \in Threads /\ Edits \cap Gateways = {} /\ thread[g].at = g /\ Running(g)
  BY ConfigAssumption DEF Threads, IInv, Roles, TypeOK
<1>2. Quiet /\ \A e \in Edits : Served(e) /\ InForce(e)
  BY DEF HomeInv
<1>3. /\ thread[g] \in ThreadState /\ DOMAIN thread[g].view = Parts
      /\ \A e \in Edits : thread[e].at \in Gateways
      /\ memory \in [Gateways -> [Caches -> SUBSET (Edits \cup Cleared)]]
      /\ last \in [Gateways -> Nat]
  BY <1>1 DEF IInv, TypeOK, ThreadState, Threads
<1>4. ~Up(g)
  <2>1. SUFFICES ASSUME Up(g) PROVE FALSE
    OBVIOUS
  <2>2. thread[g].step = 1 /\ stamp = last[g]
    BY <1>2, <2>1 DEF Quiet
  <2>3. Current(g) = Op("check")
    BY <1>1, <2>1, <2>2, PollSteps, GatewaySteps DEF Up, Current
  <2>4. Current(g).op = "check"
    BY <2>3 DEF Op
  <2>5. Check(g) \/ Fail(g)
    BY <2>4 DEF Step, Commit, Notify, Apply, Invalidate, Read, Swap, Validate, Adopt,
                Begin, AtOp
  <2> QED BY <2>2, <2>4, <2>5 DEF Check, Fail
<1> DEFINE s == thread[g].step
           view == thread[g].view
           part == Current(g).part
<1>5. /\ thread[g].prog = "startup" /\ s \in 1..18 /\ Current(g) = Startup[s]
      /\ s # 18 => NextStep(g) = s + 1
  BY <1>1, <1>4, RunningThread DEF Up, NextStep
<1>6. Current(g).op \in {"invalidate", "read", "swap", "validate", "begin"}
      /\ (Current(g).op = "begin" <=> s = 18)
  BY <1>5, StartupSteps DEF Op, On
<1>7. ASSUME NEW e \in Edits, Kind[e] # "member"
      PROVE  /\ LoadedAt(e) \in 1..10 /\ FilledAt(e) \in 2..14 /\ LoadedAt(e) < FilledAt(e)
             /\ s = LoadedAt(e) <=> Current(g).op = "read" /\ part = Part[e]
             /\ s = FilledAt(e) <=> Current(g).op = "swap" /\ part = Home(e)
  BY <1>5, <1>7, StartupOps
<1> HIDE DEF s, view, part
<1>8. ASSUME NEW e \in Edits, e \in db, Kind[e] # "member", thread[e].at = g
      PROVE  /\ s > LoadedAt(e) => e \in view[Part[e]]
             /\ s > FilledAt(e) => e \in memory[g][Home(e)]
  BY <1>2, <1>4, <1>8 DEF InForce, s, view
<1>9. ASSUME NEW e \in Edits, thread[e].at = g PROVE ~Running(e)
  BY <1>2, <1>4, <1>9 DEF Served
\* A step of the startup of g: what the changes made on g need.
<1>10. ASSUME NEW n \in Nat, NEW v, Moved(g, n, v, thread[g].seen),
              UNCHANGED <<story, db, raced, stamp, last>>,
              \A h \in Gateways : h # g => memory'[h] = memory[h],
              \A e \in Edits : e \in db /\ Kind[e] # "member" /\ thread[e].at = g =>
                /\ n > LoadedAt(e) => e \in v[Part[e]]
                /\ n > FilledAt(e) => e \in memory'[g][Home(e)]
       PROVE  Quiet' /\ \A e \in Edits : Served(e)' /\ InForce(e)'
  <2>1. /\ \A e \in Edits : thread'[e] = thread[e]
        /\ \A h \in Gateways : h # g => thread'[h] = thread[h]
        /\ thread'[g].step = n /\ thread'[g].view = v /\ thread'[g].prog = "startup"
    BY <1>1, <1>5, <1>10 DEF Moved, Threads
  <2>2. Quiet'
    BY <1>2, <1>10, <2>1 DEF Quiet, Up
  <2>3. ASSUME NEW e \in Edits PROVE Served(e)' /\ InForce(e)'
    <3>1. CASE thread[e].at = g
      <4>1. /\ Home(e)' = Home(e) /\ LoadedAt(e)' = LoadedAt(e) /\ FilledAt(e)' = FilledAt(e)
            /\ Kind'[e] = Kind[e] /\ Part'[e] = Part[e] /\ db' = db
        BY <1>10 DEF Home, LoadedAt, FilledAt, Kind, Part
      <4>2. ~Up(g)' /\ thread'[e] = thread[e]
        BY <2>1 DEF Up
      <4>3. ~Running(e)'
        BY <1>9, <3>1, <4>2 DEF Running
      <4>4. Served(e)'
        BY <1>2, <4>1, <4>2, <4>3 DEF Served
      <4>5. InForce(e)'
        <5>1. SUFFICES ASSUME e \in db, Kind[e] # "member"
                       PROVE  /\ n > LoadedAt(e) => e \in v[Part[e]]
                              /\ n > FilledAt(e) => e \in memory'[g][Home(e)]
          BY <2>1, <3>1, <4>1, <4>2 DEF InForce
        <5> QED BY <1>10, <3>1, <5>1
      <4> QED BY <4>4, <4>5
    <3>2. CASE thread[e].at # g
      <4>1. thread[e].at \in Gateways
        BY <1>3
      <4> QED BY <1>2, <1>10, <2>1, <3>2, <4>1, HomeKept
    <3> QED BY <3>1, <3>2
  <2> QED BY <2>2, <2>3
<1>11. CASE Invalidate(g) \/ Validate(g)
  <2>1. /\ Current(g).op \notin {"read", "swap", "begin"} /\ Advance(g)
        /\ UNCHANGED <<story, db, raced, stamp, last, memory>>
    BY <1>11 DEF Invalidate, Validate, AtOp
  <2>2. Moved(g, NextStep(g), view, thread[g].seen)
    BY <1>1, <2>1, AdvanceMoves DEF view
  <2>3. NextStep(g) = s + 1 /\ s + 1 \in Nat
    BY <1>5, <1>6, <2>1 DEF s
  <2>4. ASSUME NEW e \in Edits, e \in db, Kind[e] # "member", thread[e].at = g
        PROVE  /\ s + 1 > LoadedAt(e) => e \in view[Part[e]]
               /\ s + 1 > FilledAt(e) => e \in memory'[g][Home(e)]
    BY <1>5, <1>7, <1>8, <2>1, <2>4 DEF s
  <2> QED BY <1>10, <2>1, <2>2, <2>3, <2>4
<1>12. CASE Read(g)
  <2> DEFINE v == [view EXCEPT ![part] = Stored(part)]
  <2>1. /\ Current(g).op = "read"
        /\ UNCHANGED <<story, db, raced, stamp, last, memory>>
    BY <1>12 DEF Read, AtOp
  <2>2. Moved(g, NextStep(g), v, thread[g].seen)
    BY <1>1, <1>12, ReadMoves DEF view, part
  <2>3. NextStep(g) = s + 1 /\ s + 1 \in Nat
    BY <1>5, <1>6, <2>1 DEF s
  <2>4. ASSUME NEW e \in Edits, e \in db, Kind[e] # "member", thread[e].at = g
        PROVE  /\ s + 1 > LoadedAt(e) => e \in v[Part[e]]
               /\ s + 1 > FilledAt(e) => e \in memory'[g][Home(e)]
    <3>1. Part[e] \in Parts
      BY <2>4, QuietHandler
    <3>2. s + 1 > FilledAt(e) => s > FilledAt(e)
      BY <1>5, <1>7, <2>1, <2>4 DEF s
    <3>3. s + 1 > LoadedAt(e) => e \in v[Part[e]]
      <4>1. CASE part = Part[e]
        <5>1. e \in Stored(part)
          BY <2>4, <4>1 DEF Stored
        <5> QED BY <1>3, <3>1, <4>1, <5>1 DEF view
      <4>2. CASE part # Part[e]
        <5>1. s + 1 > LoadedAt(e) => s > LoadedAt(e)
          BY <1>5, <1>7, <2>4, <4>2 DEF s
        <5>2. v[Part[e]] = view[Part[e]]
          BY <1>3, <3>1, <4>2 DEF view
        <5> QED BY <1>8, <2>4, <5>1, <5>2
      <4> QED BY <4>1, <4>2
    <3> QED BY <1>8, <2>1, <2>4, <3>2, <3>3
  <2> HIDE DEF v
  <2> QED BY <1>10, <2>1, <2>2, <2>3, <2>4
<1>13. CASE Swap(g)
  <2>1. /\ Current(g).op = "swap" /\ Advance(g)
        /\ UNCHANGED <<story, db, raced, stamp, last>>
        /\ memory' = [memory EXCEPT ![g][part] = view[SourceOf(part)]]
    BY <1>1, <1>13 DEF Swap, AtOp, view, part
  <2>2. Moved(g, NextStep(g), view, thread[g].seen)
    BY <1>1, <2>1, AdvanceMoves DEF view
  <2>3. NextStep(g) = s + 1 /\ s + 1 \in Nat
    BY <1>5, <1>6, <2>1 DEF s
  <2>4. ASSUME NEW e \in Edits, e \in db, Kind[e] # "member", thread[e].at = g
        PROVE  /\ s + 1 > LoadedAt(e) => e \in view[Part[e]]
               /\ s + 1 > FilledAt(e) => e \in memory'[g][Home(e)]
    <3>1. s + 1 > LoadedAt(e) => s > LoadedAt(e)
      BY <1>5, <1>7, <2>1, <2>4 DEF s
    <3>2. Home(e) \in Caches
      BY DEF Home, Caches, Parts
    <3>3. s + 1 > FilledAt(e) => e \in memory'[g][Home(e)]
      <4>1. CASE part = Home(e)
        <5>1. s = FilledAt(e) /\ LoadedAt(e) < FilledAt(e)
          BY <1>7, <2>1, <2>4, <4>1
        <5>2. s > LoadedAt(e)
          BY <1>5, <1>7, <2>4, <5>1 DEF s
        <5>3. e \in view[Part[e]]
          BY <1>8, <2>4, <5>2
        <5>4. SourceOf(part) = Part[e]
          BY <2>4, <4>1, QuietHandler
        <5> QED BY <1>3, <2>1, <3>2, <4>1, <5>3, <5>4
      <4>2. CASE part # Home(e)
        <5>1. s + 1 > FilledAt(e) => s > FilledAt(e)
          BY <1>5, <1>7, <2>4, <4>2 DEF s
        <5>2. memory'[g][Home(e)] = memory[g][Home(e)]
          BY <1>3, <2>1, <3>2, <4>2
        <5> QED BY <1>8, <2>4, <5>1, <5>2
      <4> QED BY <4>1, <4>2
    <3> QED BY <1>8, <2>4, <3>1, <3>3
  <2>5. \A h \in Gateways : h # g => memory'[h] = memory[h]
    BY <1>3, <2>1
  <2> QED BY <1>10, <2>1, <2>2, <2>3, <2>4, <2>5
<1>14. CASE Begin(g)
  <2>1. /\ thread'[g] = Thread("poll", g) /\ s = 18
        /\ \A u \in Threads \ {g} : thread'[u] = thread[u]
    BY <1>1, <1>14, BeginMoves DEF s
  <2>2. /\ UNCHANGED <<story, db, raced, stamp, memory>>
        /\ last' = [last EXCEPT ![g] = stamp]
    BY <1>14 DEF Begin
  <2>3. thread'[g].prog = "poll" /\ thread'[g].step = 1
    BY <2>1 DEF Thread
  <2>4. /\ \A e \in Edits : thread'[e] = thread[e]
        /\ \A h \in Gateways : h # g => thread'[h] = thread[h]
    BY <1>1, <2>1 DEF Threads
  <2>5. Quiet'
    BY <1>2, <1>3, <2>2, <2>3, <2>4 DEF Quiet, Up
  <2>6. ASSUME NEW e \in Edits PROVE Served(e)' /\ InForce(e)'
    <3>1. CASE thread[e].at = g
      <4>1. Up(g)' /\ thread'[e].at = g /\ thread'[e] = thread[e]
        BY <2>3, <2>4, <3>1 DEF Up
      <4>2. Home(e)' = Home(e) /\ Kind'[e] = Kind[e]
        BY <2>2 DEF Home, Kind
      <4>3. Served(e)'
        BY <1>2, <2>2, <4>1 DEF Served
      <4>4. e \in db /\ Kind[e] # "member" => e \in memory[g][Home(e)]
        <5>1. SUFFICES ASSUME e \in db, Kind[e] # "member" PROVE e \in memory[g][Home(e)]
          OBVIOUS
        <5>2. 18 > FilledAt(e)
          BY <1>7, <5>1
        <5> QED BY <1>8, <2>1, <3>1, <5>1, <5>2
      <4>5. InForce(e)'
        BY <2>2, <4>1, <4>2, <4>4 DEF InForce
      <4> QED BY <4>3, <4>5
    <3>2. CASE thread[e].at # g
      <4>1. thread[e].at \in Gateways
        BY <1>3
      <4> QED BY <1>2, <2>2, <2>4, <3>2, <4>1, HomeKept
    <3> QED BY <3>1, <3>2
  <2> QED BY <2>5, <2>6
<1>15. CASE Fail(g)
  <2>1. Current(g).op = "read" /\ <<g, part>> \in story.faulty
    BY <1>6, <1>15 DEF Fail, AtOp, part
  <2>2. UNCHANGED <<story, db, raced, stamp, last, memory>>
    BY <1>15 DEF Fail
  <2>3. part # "settings"
    BY <1>1, <2>1 DEF Unannounced
  <2>4. CASE Moved(g, AfterError(g), view, thread[g].seen) /\ part \in RoutingParts
    <3>1. AfterError(g) = 1
      BY <1>5 DEF AfterError
    <3>2. ASSUME NEW e \in Edits, Kind[e] # "member"
          PROVE  ~(1 > LoadedAt(e)) /\ ~(1 > FilledAt(e))
      BY <1>7, <3>2
    <3> QED BY <1>10, <2>2, <2>4, <3>1, <3>2
  <2>5. CASE /\ Moved(g, NextStep(g), [view EXCEPT ![part] = Cleared], thread[g].seen)
             /\ part \in Parts \ RoutingParts
    <3> DEFINE v == [view EXCEPT ![part] = Cleared]
    <3>1. NextStep(g) = s + 1 /\ s + 1 \in Nat
      BY <1>5, <1>6, <2>1 DEF s
    <3>2. ASSUME NEW e \in Edits, e \in db, Kind[e] # "member", thread[e].at = g
          PROVE  /\ s + 1 > LoadedAt(e) => e \in v[Part[e]]
                 /\ s + 1 > FilledAt(e) => e \in memory'[g][Home(e)]
      <4>1. Part[e] \in {"channels", "settings"}
        BY <3>2, QuietHandler
      <4>2. part # Part[e] /\ Part[e] \in Parts
        BY <2>3, <2>5, <4>1 DEF RoutingParts, Parts
      <4>3. /\ s + 1 > FilledAt(e) => s > FilledAt(e)
            /\ s + 1 > LoadedAt(e) => s > LoadedAt(e)
        BY <1>5, <1>7, <2>1, <3>2, <4>2 DEF s
      <4>4. v[Part[e]] = view[Part[e]]
        BY <1>3, <4>2 DEF view
      <4> QED BY <1>8, <2>2, <3>2, <4>3, <4>4
    <3> HIDE DEF v
    <3> QED BY <1>10, <2>2, <2>5, <3>1, <3>2 DEF v
  <2>6. \/ Moved(g, AfterError(g), view, thread[g].seen) /\ part \in RoutingParts
        \/ /\ Moved(g, NextStep(g), [view EXCEPT ![part] = Cleared], thread[g].seen)
           /\ part \in Parts \ RoutingParts
    BY <1>1, <1>15, <2>1, FailMoves DEF view, part
  <2> QED BY <2>4, <2>5, <2>6
<1>16. ~(Commit(g) \/ Notify(g) \/ Apply(g) \/ Check(g) \/ Adopt(g))
  BY <1>6 DEF Commit, Notify, Apply, Check, Adopt, AtOp
<1> QED BY <1>11, <1>12, <1>13, <1>14, <1>15, <1>16 DEF Step

LEMMA HomeRestart ==
  ASSUME IInv, Unannounced, HomeInv, NEW g \in Gateways, Restart(g)
  PROVE  Quiet' /\ \A e \in Edits : Served(e)' /\ InForce(e)'
<1>1. Edits \cap Gateways = {} /\ Edits \subseteq Threads /\ Gateways \subseteq Threads
  BY ConfigAssumption DEF Threads
<1>2. Quiet /\ \A e \in Edits : Served(e) /\ InForce(e)
  BY DEF HomeInv
<1>3. /\ \A e \in Edits : thread[e].at \in Gateways /\ thread[e].step \in Nat
      /\ memory \in [Gateways -> [Caches -> SUBSET (Edits \cup Cleared)]]
  BY <1>1 DEF IInv, TypeOK, ThreadState
<1>4. UNCHANGED <<story, db, stamp, last>> /\ raced' = {e \in raced : thread[e].at # g}
      /\ \A h \in Gateways : h # g => memory'[h] = memory[h]
  BY <1>3 DEF Restart
<1>5. thread'[g].prog = "startup" /\ thread'[g].step = 1
  <2>1. thread'[g] = Thread("startup", g)
    BY RestartMoves
  <2> QED BY <2>1 DEF Thread
<1>6. \A h \in Gateways : h # g => thread'[h] = thread[h]
  BY <1>1, RestartMoves DEF CutOff
<1>7. Quiet'
  BY <1>2, <1>4, <1>5, <1>6 DEF Quiet, Up
<1>8. ASSUME NEW e \in Edits PROVE Served(e)' /\ InForce(e)'
  <2>1. e \in Threads \ {g}
    BY <1>1
  <2>2. CASE CutOff(g, e)
    <3>1. /\ thread'[e].step = Len(Program(thread[e].prog)) + 1
          /\ thread'[e].prog = thread[e].prog /\ thread'[e].at = g
      BY <2>1, <2>2, RestartMoves
    <3>2. Len(Program(thread[e].prog)) \in {1, 2}
      BY QuietHandler
    <3> DEFINE n == Len(Program(thread[e].prog))
    <3>3. n \in {1, 2} /\ thread'[e].step = n + 1
      BY <3>1, <3>2
    <3>4. Running(e)' <=> thread'[e].step \in 1..n
      BY <3>1 DEF Running
    <3> HIDE DEF n
    <3>5. ~Running(e)' /\ thread'[e].step > 1
      BY <3>3, <3>4
    <3>6. ~Up(g)' /\ LoadedAt(e)' >= 1 /\ FilledAt(e)' >= 1
      BY <1>5 DEF Up, LoadedAt, FilledAt
    <3>7. Served(e)'
      BY <3>5 DEF Served
    <3>8. InForce(e)'
      BY <1>5, <3>1, <3>6 DEF InForce, Up, LoadedAt, FilledAt
    <3> QED BY <3>7, <3>8
  <2>3. CASE ~CutOff(g, e) /\ thread[e].at = g
    <3>1. thread'[e] = thread[e] /\ thread[e].step = 0
      BY <1>3, <2>1, <2>3, RestartMoves DEF CutOff
    <3>2. ~Running(e)' /\ e \notin db'
      BY <1>2, <1>4, <3>1 DEF Running, Served
    <3> QED BY <3>2 DEF Served, InForce
  <2>4. CASE thread[e].at # g
    <3>1. thread'[e] = thread[e]
      BY <2>1, <2>4, RestartMoves DEF CutOff
    <3>2. thread[e].at \in Gateways
      BY <1>3
    <3> QED BY <1>2, <1>4, <1>6, <2>4, <3>1, <3>2, HomeKept
  <2> QED BY <2>2, <2>3, <2>4
<1> QED BY <1>7, <1>8

\* Whose step may put another edit of the row of e before its assignment, or store e.
LEMMA LastAppliedNext ==
  ASSUME IInv, Unannounced, HomeInv, [Next]_vars, NEW e \in Edits
  PROVE  LastApplied(e)'
<1>1. Edits \cap Gateways = {} /\ Edits \subseteq Threads /\ LastApplied(e)
  BY ConfigAssumption DEF Threads, HomeInv
<1>2. ASSUME NEW f \in Edits, f # e, SameRow(e, f), story' = story,
             thread'[f] = thread[f], thread'[e].at = thread[e].at, thread'[f].at = thread'[e].at,
             e \in db \ raced
      PROVE  ~AtOp(f, "apply")'
  <2>1. ~AtOp(f, "apply")
    BY <1>1, <1>2 DEF LastApplied
  <2> QED BY <1>2, <2>1 DEF AtOp, Running, Current
<1>3. ASSUME UNCHANGED <<story, db, raced>>, \A f \in Edits : thread'[f] = thread[f]
      PROVE  LastApplied(e)'
  <2>1. ASSUME NEW f \in Edits PROVE SameRow(e, f)' <=> SameRow(e, f)
    BY <1>3 DEF SameRow, Row, Kind, Part
  <2> QED BY <1>2, <1>3, <2>1 DEF LastApplied
<1>4. ASSUME NEW t \in Edits, Start(t) \/ Step(t) \/ Fail(t)
      PROVE  LastApplied(e)'
  <2>1. /\ story' = story
        /\ \A f \in Edits \ {t} : thread'[f] = thread[f]
        /\ thread'[t].at = thread[t].at /\ thread'[t].prog = thread[t].prog
        /\ \/ Start(t) /\ thread'[t].step = 1 /\ UNCHANGED <<db, raced>>
           \/ Commit(t) /\ thread'[t].step = 2
           \/ Apply(t) /\ thread'[t].step = 3 /\ UNCHANGED <<db, raced>>
    <3>1. CASE Start(t)
      <4>1. Moved(t, 1, thread[t].view, thread[t].seen)
        BY <3>1, StartMoves
      <4> QED BY <1>1, <3>1, <4>1 DEF Start, Moved
    <3>2. CASE Step(t) \/ Fail(t)
      <4>1. /\ Running(t) /\ NextStep(t) = thread[t].step + 1
            /\ \/ Commit(t) /\ thread[t].step = 1 /\ Current(t) = Op("commit")
               \/ /\ Apply(t) /\ thread[t].step = 2 /\ Current(t) = On("apply", Home(t))
                  /\ Kind[t] # "member"
        BY <3>2, QuietStep
      <4>2. Current(t).op # "begin"
        BY <4>1 DEF Op, On
      <4>3. Advance(t) /\ story' = story
        BY <4>1 DEF Commit, Apply
      <4>4. Moved(t, NextStep(t), thread[t].view, thread[t].seen)
        BY <1>1, <4>1, <4>2, <4>3, AdvanceMoves
      <4>5. Apply(t) => UNCHANGED <<db, raced>>
        BY DEF Apply
      <4> QED BY <1>1, <4>1, <4>3, <4>4, <4>5 DEF Moved
    <3> QED BY <1>4, <3>1, <3>2
  <2>2. ASSUME NEW f \in Edits PROVE SameRow(e, f)' <=> SameRow(e, f)
    BY <2>1 DEF SameRow, Row, Kind, Part
  <2>3. SUFFICES ASSUME NEW f \in Edits, f # e, SameRow(e, f), thread'[f].at = thread'[e].at,
                        e \in db' \ raced', AtOp(f, "apply")'
                 PROVE  FALSE
    BY <2>2 DEF LastApplied
  <2>4. thread'[e].at = thread[e].at /\ thread'[f].at = thread[f].at
    BY <2>1
  <2>5. CASE f = t
    <3>1. thread'[t].step = 2
      <4>1. Program(thread[t].prog)[1] = Op("commit") /\ Len(Program(thread[t].prog)) \in {1, 2}
        BY QuietHandler
      <4>2. Op("commit").op = "commit"
        BY DEF Op
      <4>3. /\ thread'[t].step \in 1..Len(Program(thread[t].prog))
            /\ Program(thread[t].prog)[thread'[t].step].op = "apply"
        BY <2>1, <2>3, <2>5 DEF AtOp, Running, Current
      <4> QED BY <2>1, <4>1, <4>2, <4>3
    <3>2. Commit(t)
      BY <2>1, <3>1
    <3>3. SameRow(t, e)
      BY <2>3, <2>5 DEF SameRow
    <3> QED BY <2>3, <2>5, <3>2, <3>3 DEF Commit, Overwrite
  <2>6. CASE f # t
    <3>1. thread'[f] = thread[f] /\ AtOp(f, "apply")
      BY <2>1, <2>3, <2>6 DEF AtOp, Running, Current
    <3>2. CASE Commit(t) /\ e = t
      <4>1. Overtakes(t)
        BY <2>3, <2>4, <2>6, <3>1, <3>2 DEF Overtakes
      <4>2. t \in raced'
        BY <3>2, <4>1 DEF Commit
      <4> QED BY <2>3, <3>2, <4>2
    <3>3. CASE ~(Commit(t) /\ e = t)
      <4>1. e \in db \ raced
        BY <2>1, <2>3, <3>3 DEF Commit, Overwrite
      <4> QED BY <1>1, <2>3, <2>4, <3>1, <4>1 DEF LastApplied
    <3> QED BY <3>2, <3>3
  <2> QED BY <2>5, <2>6
<1>5. ASSUME NEW g \in Gateways, Step(g) \/ Fail(g) PROVE LastApplied(e)'
  <2>1. g \in Threads /\ \A f \in Edits : f # g
    BY <1>1 DEF Threads
  <2>2. ~Commit(g)
    BY <2>1, RunningThread, GatewaySteps DEF Commit, AtOp, GatewayOps, Threads
  <2>3. UNCHANGED <<story, db, raced>>
    BY <1>5, <2>2 DEF Step, Fail, Notify, Apply, Invalidate, Read, Swap, Validate, Check,
                      Adopt, Begin
  <2>4. \A f \in Edits : thread'[f] = thread[f]
    BY <1>1, <1>5, <2>1, <2>2 DEF Step, Fail, Notify, Apply, Invalidate, Read, Swap, Validate,
                                  Check, Adopt, Begin, Advance, IInv, TypeOK
  <2> QED BY <1>3, <2>3, <2>4
<1>6. ASSUME NEW g \in Gateways, Restart(g) PROVE LastApplied(e)'
  <2>1. UNCHANGED <<story, db>> /\ raced' = {f \in raced : thread[f].at # g}
    BY <1>6 DEF Restart
  <2>2. ASSUME NEW f \in Edits
        PROVE  thread'[f].at = thread[f].at /\ (thread[f].at = g => ~Running(f)')
    <3>1. Len(Program(thread[f].prog)) \in {1, 2} /\ f \in Threads \ {g}
      BY <1>1, QuietHandler
    <3>2. thread[f].step \in Nat
      BY <1>1 DEF IInv, TypeOK, ThreadState
    <3> DEFINE n == Len(Program(thread[f].prog))
    <3>3. CASE CutOff(g, f)
      <4>1. thread'[f].step = n + 1 /\ thread'[f].prog = thread[f].prog /\ thread'[f].at = g
        BY <1>6, <3>1, <3>3, RestartMoves
      <4>2. Running(f)' <=> thread'[f].step \in 1..n
        BY <4>1 DEF Running
      <4> HIDE DEF n
      <4> QED BY <3>1, <3>3, <4>1, <4>2 DEF CutOff, n
    <3>4. CASE ~CutOff(g, f)
      <4>1. thread'[f] = thread[f]
        BY <1>6, <3>1, <3>4, RestartMoves
      <4>2. thread[f].at = g => thread'[f].step = 0
        BY <3>2, <3>4, <4>1 DEF CutOff
      <4> QED BY <4>1, <4>2 DEF Running
    <3> QED BY <3>3, <3>4
  <2>3. ASSUME NEW f \in Edits PROVE SameRow(e, f)' <=> SameRow(e, f)
    BY <2>1 DEF SameRow, Row, Kind, Part
  <2>4. SUFFICES ASSUME NEW f \in Edits, f # e, SameRow(e, f), thread'[f].at = thread'[e].at,
                        e \in db' \ raced'
                 PROVE  ~AtOp(f, "apply")'
    BY <2>3 DEF LastApplied
  <2>5. thread[f].at = thread[e].at
    BY <2>2, <2>4
  <2>6. CASE thread[f].at = g
    BY <2>2, <2>6 DEF AtOp
  <2>7. CASE thread[f].at # g
    <3>1. thread'[f] = thread[f]
      BY <1>1, <1>6, <2>7, RestartMoves DEF CutOff
    <3>2. e \in db \ raced
      BY <2>1, <2>4, <2>5, <2>7
    <3> QED BY <1>2, <2>1, <2>2, <2>4, <3>1, <3>2
  <2> QED BY <2>6, <2>7
<1>7. CASE UNCHANGED vars
  BY <1>3, <1>7 DEF vars
<1>8. ASSUME NEW t \in Threads, Step(t) \/ Fail(t) PROVE LastApplied(e)'
  BY <1>4, <1>5, <1>8 DEF Threads
<1> QED BY <1>4, <1>6, <1>7, <1>8 DEF Next

LEMMA HomeNext == ASSUME IInv, HomeInv, [Next]_vars PROVE HomeInv'
<1>1. SUFFICES ASSUME Unannounced
               PROVE  Quiet' /\ \A e \in Edits : Served(e)' /\ InForce(e)'
  <2>1. story' = story
    BY DEF vars, Next, Start, Step, Fail, Restart, Commit, Notify, Apply, Invalidate, Read,
           Swap, Validate, Check, Adopt, Begin
  <2>2. Unannounced' = Unannounced
    BY <2>1 DEF Unannounced, Kind
  <2> QED BY <2>2, LastAppliedNext DEF HomeInv
<1> DEFINE P == Quiet' /\ \A e \in Edits : Served(e)' /\ InForce(e)'
<1>2. ASSUME NEW e \in Edits, Start(e) PROVE P
  BY <1>1, <1>2, HomeHandler
<1>3. ASSUME NEW t \in Threads, Step(t) \/ Fail(t) PROVE P
  <2>1. CASE t \in Edits
    BY <1>1, <1>3, <2>1, HomeHandler
  <2>2. CASE t \in Gateways
    BY <1>1, <1>3, <2>2, HomeGateway
  <2> QED BY <2>1, <2>2 DEF Threads
<1>4. ASSUME NEW g \in Gateways, Restart(g) PROVE P
  BY <1>1, <1>4, HomeRestart
<1>5. CASE UNCHANGED vars
  <2>1. Quiet /\ \A e \in Edits : Served(e) /\ InForce(e) /\ thread[e].at \in Gateways
    BY <1>1 DEF HomeInv, IInv, TypeOK, ThreadState, Threads
  <2>2. Quiet'
    BY <1>5, <2>1 DEF vars, Quiet, Up
  <2> QED BY <1>5, <2>1, <2>2, HomeKept DEF vars
<1> QED BY <1>2, <1>3, <1>4, <1>5 DEF Next

LEMMA ServedAtHome ==
  ASSUME IInv, Unannounced, HomeInv PROVE AppliedAtHome
<1> SUFFICES ASSUME NEW e \in db \ raced, Kind[e] \in {"toggle", "settings"}, HandlersIdle,
                    CaughtUp(thread[e].at)
             PROVE  e \in memory[thread[e].at][Home(e)]
  BY DEF AppliedAtHome, Home
<1>1. e \in Edits /\ e \in Threads
  BY DEF IInv, TypeOK, Threads
<1>2. InForce(e) /\ Served(e) /\ thread[e].step \in Nat
  BY <1>1 DEF HomeInv, IInv, TypeOK, ThreadState
<1> DEFINE n == Len(Program(thread[e].prog))
<1>3. Kind[e] # "member" /\ n = 2
  BY <1>1, QuietHandler
<1>4. thread[e].step \notin 1..n
  BY <1>1 DEF HandlersIdle, Running
<1> HIDE DEF n
<1>5. thread[e].step > 2
  BY <1>2, <1>3, <1>4 DEF Served
<1>6. Up(thread[e].at)
  BY DEF CaughtUp, Up
<1> QED BY <1>2, <1>3, <1>5, <1>6 DEF InForce

\* A toggle of an endpoint and a new gateway_config, of which no instance is told, stay
\* in force on the instance that served the administrator until the row is written
\* again, through its restarts and whatever reads of the auth tables fail
\* (admin/channels.rs toggle_endpoint, admin/settings.rs, main.rs startup), unless the
\* request overtook another one for its row there.  With an announced change in between
\* they may not: a reload under way may put the old balancers back.
THEOREM AppliedAtHomeHolds == Spec => [](Unannounced => AppliedAtHome)
<1>1. Init => HomeInv
  BY HomeInit
<1>2. IInv /\ HomeInv /\ [Next]_vars => HomeInv'
  BY HomeNext
<1>3. IInv /\ HomeInv => (Unannounced => AppliedAtHome)
  BY ServedAtHome
<1> QED BY <1>1, <1>2, <1>3, Inductive, PTL DEF Spec
=============================================================================
