----------------------- MODULE SkillDeploymentProofs -----------------------
(***************************************************************************)
(* Proofs about SkillDeployment for any calls, instances and versions: a   *)
(* claimed task has one owner, and the outbox knows what the catalogue     *)
(* says.                                                                   *)
(***************************************************************************)
EXTENDS SkillDeployment, FiniteSetTheorems, TLAPS

USE DEF Statuses

-----------------------------------------------------------------------------
(* Types *)

LEMMA InitTypeOK == Init => TypeOK
<1> SUFFICES ASSUME Init PROVE TypeOK
  OBVIOUS
<1>1. status \in Statuses \cup {None} /\ current \in Versions \cup {None}
      /\ uploaded \subseteq Versions
  BY DEF Init
<1>2. NoTask \in TaskRow
  BY DEF NoTask, TaskRow
<1>3. NewCall \in CallState
  BY DEF NewCall, CallState
<1>4. Resting \in PollerState
  BY DEF Resting, PollerState
<1>5. [state |-> "none", at |-> 0] \in EndpointRow
  BY DEF EndpointRow
<1>6. crossed \in BOOLEAN /\ disturbed \in BOOLEAN
  BY DEF Init
<1>7. QED
  BY <1>1, <1>2, <1>3, <1>4, <1>5, <1>6 DEF Init, TypeOK

LEMMA CallTypeOK ==
  ASSUME TypeOK, CallStep
  PROVE  TypeOK'
<1> USE DEF TypeOK, catalogue, history
<1>1. ASSUME NEW c \in Calls, NEW s \in Statuses, SetStatusRead(c, s)
      PROVE  TypeOK'
  <2>1. call' \in [Calls -> CallState]
    BY <1>1 DEF SetStatusRead, Asked, TaskKind, CallState
  <2>2. QED
    BY <1>1, <2>1 DEF SetStatusRead
<1>2. ASSUME NEW c \in Calls, NEW v \in Versions, UploadRead(c, v)
      PROVE  TypeOK'
  <2>1. call' \in [Calls -> CallState]
    BY <1>2 DEF UploadRead, Asked, CallState
  <2>2. QED
    BY <1>2, <2>1 DEF UploadRead
<1>3. ASSUME NEW c \in Calls, BuildTask(c)
      PROVE  TypeOK'
  <2>1. clock' \in Nat
    BY <1>3 DEF BuildTask
  <2>2. call' = [call EXCEPT ![c].pc = "ready", ![c].at = clock']
    BY <1>3 DEF BuildTask
  <2>3. call' \in [Calls -> CallState]
    <3>1. call[c] \in CallState
      OBVIOUS
    <3>2. [call[c] EXCEPT !.pc = "ready", !.at = clock'] \in CallState
      BY <2>1, <3>1 DEF CallState
    <3>3. call' = [call EXCEPT ![c] = [call[c] EXCEPT !.pc = "ready", !.at = clock']]
      BY <2>2, <3>1 DEF CallState
    <3>4. QED
      BY <3>2, <3>3
  <2>4. QED
    BY <1>3, <2>1, <2>3 DEF BuildTask
<1>4. ASSUME NEW c \in Calls, Commit(c)
      PROVE  TypeOK'
  <2>1. status' \in Statuses \cup {None} /\ current' \in Versions \cup {None}
        /\ uploaded' \subseteq Versions
    BY <1>4 DEF Commit, SetStatus, Upload
  <2>2. task' \in [Calls -> TaskRow]
    BY <1>4 DEF Commit, NoTask, TaskRow, CallState
  <2>3. call' \in [Calls -> CallState]
    <3>1. call' = [call EXCEPT ![c].pc = "end"]
      BY <1>4 DEF Commit
    <3>2. QED
      BY <3>1 DEF CallState
  <2>4. crossed' \in BOOLEAN
    BY <1>4 DEF Commit
  <2>5. QED
    BY <1>4, <2>1, <2>2, <2>3, <2>4 DEF Commit
<1>5. ASSUME NEW c \in Calls, Abort(c)
      PROVE  TypeOK'
  <2>1. call' \in [Calls -> CallState]
    BY <1>5 DEF Abort, InFlight, CallState
  <2>2. faults' \in Nat
    BY <1>5 DEF Abort
  <2>3. QED
    BY <1>5, <2>1, <2>2 DEF Abort
<1>6. QED
  BY <1>1, <1>2, <1>3, <1>4, <1>5 DEF CallStep

LEMMA PollerTypeOK ==
  ASSUME TypeOK, NEW g \in Instances, PollerStep(g) \/ ClaimFails(g) \/ Crash(g)
  PROVE  TypeOK'
<1> USE DEF TypeOK, catalogue, history
<1>1. CASE Claim(g)
  <2>1. Oldest(Pending \ Locked, BatchMax) \subseteq Calls
    BY DEF Oldest, Pending
  <2>2. disturbed' \in BOOLEAN
    BY <1>1 DEF Claim
  <2>3. poller' \in [Instances -> PollerState]
    BY <1>1, <2>1 DEF Claim, Resting, PollerState
  <2>4. QED
    BY <1>1, <2>2, <2>3 DEF Claim
<1>10. ASSUME Taken(g) PROVE task' \in [Calls -> TaskRow]
  BY <1>10 DEF Taken, TaskRow
<1>11. CASE ClaimCommit(g)
  <2>1. poller' \in [Instances -> PollerState]
    <3>1. [poller[g] EXCEPT !.pc = "next"] \in PollerState
      BY DEF PollerState
    <3>2. poller' = [poller EXCEPT ![g] = [poller[g] EXCEPT !.pc = "next"]]
      BY <1>11 DEF ClaimCommit, PollerState
    <3>3. QED
      BY <3>1, <3>2
  <2>2. QED
    BY <1>10, <1>11, <2>1 DEF ClaimCommit
<1>12. CASE ClaimFails(g)
  <2>1. poller' \in [Instances -> PollerState]
    BY <1>12 DEF ClaimFails, Resting, PollerState
  <2>2. faults' \in Nat
    BY <1>12 DEF ClaimFails
  <2>3. task' \in [Calls -> TaskRow] /\ disturbed' \in BOOLEAN
    <3>1. CASE UNCHANGED <<task, disturbed>>
      BY <3>1
    <3>2. CASE Taken(g) /\ disturbed' = TRUE
      BY <1>10, <3>2
    <3>3. QED
      BY <1>12, <3>1, <3>2 DEF ClaimFails
  <2>4. QED
    BY <1>12, <2>1, <2>2, <2>3 DEF ClaimFails
<1>2. ASSUME NEW r \in {"done", "failed"}, Processed(g, r)
      PROVE  poller' \in [Instances -> PollerState] /\ disturbed' \in BOOLEAN
  <2>1. poller' \in [Instances -> PollerState]
    <3>1. poller[g] \in PollerState
      OBVIOUS
    <3>2. [poller[g] EXCEPT !.pc = "finish", !.result = r] \in PollerState
      BY <3>1 DEF PollerState
    <3>3. poller' = [poller EXCEPT ![g] = [poller[g] EXCEPT !.pc = "finish", !.result = r]]
      BY <1>2, <3>1 DEF Processed, PollerState
    <3>4. QED
      BY <3>2, <3>3
  <2>2. disturbed' \in BOOLEAN
    BY <1>2 DEF Processed
  <2>3. QED
    BY <2>1, <2>2
<1>3. CASE TaskFails(g)
  <2>1. faults' \in Nat
    BY <1>3 DEF TaskFails
  <2>2. QED
    BY <1>2, <1>3, <2>1 DEF TaskFails
<1>4. ASSUME NEW c \in Calls, Resolve(g, c)
      PROVE  TypeOK'
  <2>1. clock' \in Nat
    BY <1>4 DEF Resolve
  <2>2. poller' \in [Instances -> PollerState]
    <3>1. poller[g] \in PollerState
      OBVIOUS
    <3>2. [poller[g] EXCEPT !.pc = "deploy", !.at = clock'] \in PollerState
      BY <2>1, <3>1 DEF PollerState
    <3>3. poller' = [poller EXCEPT ![g] = [poller[g] EXCEPT !.pc = "deploy", !.at = clock']]
      BY <1>4, <3>1 DEF Resolve, PollerState
    <3>4. QED
      BY <3>2, <3>3
  <2>3. QED
    BY <1>4, <2>1, <2>2 DEF Resolve
<1>5. ASSUME NEW c \in Calls, Deploy(g, c)
      PROVE  TypeOK'
  <2>1. PICK state \in {"ready", "failed"} :
          /\ endpoint' = IF task[c].version \in Silent THEN endpoint
                         ELSE [endpoint EXCEPT ![task[c].version] =
                                 [state |-> state, at |-> poller[g].at]]
          /\ faults' = IF state = "failed" THEN faults + 1 ELSE faults
          /\ Processed(g, IF state = "failed" THEN "failed" ELSE "done")
    BY <1>5 DEF Deploy
  <2>2. poller[g].at \in Nat
    BY DEF PollerState
  <2>3. [state |-> state, at |-> poller[g].at] \in EndpointRow
    BY <2>2 DEF EndpointRow
  <2>4. endpoint' \in [Versions -> EndpointRow]
    BY <2>1, <2>3
  <2>5. faults' \in Nat
    BY <2>1
  <2>6. poller' \in [Instances -> PollerState] /\ disturbed' \in BOOLEAN
    BY <1>2, <2>1
  <2>7. QED
    BY <1>5, <2>4, <2>5, <2>6 DEF Deploy
<1>6. ASSUME NEW c \in Calls, Disable(g, c)
      PROVE  TypeOK'
  <2>1. \A v \in Versions : endpoint[v] \in EndpointRow
                            /\ [endpoint[v] EXCEPT !.state = "disabled"] \in EndpointRow
    BY DEF EndpointRow
  <2>2. endpoint' = [v \in Versions |-> IF endpoint[v].state = "none" THEN endpoint[v]
                                         ELSE [endpoint[v] EXCEPT !.state = "disabled"]]
    BY <1>6 DEF Disable
  <2>3. endpoint' \in [Versions -> EndpointRow]
    BY <2>1, <2>2
  <2>4. Processed(g, "done") /\ UNCHANGED <<status, current, uploaded, task, call, clock, faults, crossed>>
    BY <1>6 DEF Disable
  <2>5. poller' \in [Instances -> PollerState] /\ disturbed' \in BOOLEAN
    BY <1>2, <2>4
  <2>6. QED
    BY <2>3, <2>4, <2>5
<1>7. ASSUME NEW c \in Calls, Finish(g, c)
      PROVE  TypeOK'
  <2>1. poller' \in [Instances -> PollerState]
    BY <1>7 DEF Finish, Resting, PollerState
  <2>2. task' \in [Calls -> TaskRow]
    <3>1. poller[g].result \in {"done", "failed"}
      BY DEF PollerState
    <3>2. task' = [task EXCEPT ![c].state = poller[g].result] \/ task' = task
      BY <1>7 DEF Finish
    <3>3. QED
      BY <3>1, <3>2 DEF TaskRow
  <2>3. faults' \in Nat /\ disturbed' \in BOOLEAN /\ crossed' \in BOOLEAN
    <3>1. CASE UNCHANGED history
      BY <3>1
    <3>2. CASE faults' = faults + 1 /\ disturbed' = TRUE /\ crossed' = crossed
      BY <3>2
    <3>3. QED
      BY <1>7, <3>1, <3>2 DEF Finish
  <2>4. QED
    BY <1>7, <2>1, <2>2, <2>3 DEF Finish
<1>8. CASE Crash(g)
  <2>1. poller' \in [Instances -> PollerState]
    BY <1>8 DEF Crash, Resting, PollerState
  <2>2. faults' \in Nat /\ disturbed' \in BOOLEAN
    BY <1>8 DEF Crash
  <2>3. QED
    BY <1>8, <2>1, <2>2 DEF Crash
<1>9. QED
  BY <1>1, <1>3, <1>4, <1>5, <1>6, <1>7, <1>8, <1>11, <1>12 DEF PollerStep

LEMMA NextTypeOK == TypeOK /\ [Next]_vars => TypeOK'
<1> SUFFICES ASSUME TypeOK, [Next]_vars PROVE TypeOK'
  OBVIOUS
<1>1. CASE Delete
  BY <1>1 DEF Delete, TypeOK
<1>2. CASE UNCHANGED vars
  BY <1>2 DEF vars, catalogue, history, TypeOK
<1>3. QED
  BY <1>1, <1>2, CallTypeOK, PollerTypeOK DEF Next

\* Every reachable state is well typed.
THEOREM TypeCorrect == Spec => []TypeOK
BY InitTypeOK, NextTypeOK, PTL DEF Spec

-----------------------------------------------------------------------------
(* The owner of a task *)

LEMMA OwnerCall ==
  ASSUME TypeOK, OneOwner, \A c \in Calls : call[c].pc # "end" => task[c] = NoTask, CallStep
  PROVE  OneOwner'
<1>1. poller' = poller
  BY DEF CallStep, SetStatusRead, UploadRead, BuildTask, Commit, Abort
<1>2. \A g \in Instances : \A c \in poller[g].todo : task'[c] = task[c]
  <2>1. ASSUME NEW g \in Instances, NEW c \in poller[g].todo
        PROVE  c \in Calls /\ call[c].pc = "end"
    <3>1. c \in Calls /\ task[c].state # "none"
      BY <2>1 DEF OneOwner, TypeOK, PollerState
    <3>2. QED
      BY <3>1 DEF NoTask
  <2>2. \A c \in Calls : task'[c] # task[c] => call[c].pc = "ready"
    BY DEF CallStep, SetStatusRead, UploadRead, BuildTask, Commit, Abort, TypeOK
  <2>3. QED
    BY <2>1, <2>2
<1>3. QED
  BY <1>1, <1>2 DEF OneOwner

LEMMA OwnerPoller ==
  ASSUME TypeOK, OneOwner, NEW g \in Instances, PollerStep(g) \/ ClaimFails(g) \/ Crash(g)
  PROVE  OneOwner'
<1>0. \A h \in Instances : poller[h].todo \subseteq Calls
  BY DEF TypeOK, PollerState
<1>1. CASE Claim(g)
  <2> DEFINE todo == Oldest(Pending \ Locked, BatchMax)
  <2>1. \A c \in todo : c \in Calls /\ task[c].state = "pending" /\ c \notin Locked
    BY DEF Oldest, Pending
  <2>2. /\ poller'[g].todo = todo /\ poller'[g].pc = "claim"
        /\ \A h \in Instances \ {g} : poller'[h] = poller[h]
        /\ task' = task
    BY <1>1 DEF Claim, Resting, TypeOK
  <2> HIDE DEF todo
  <2>3. \A h \in Instances, c \in todo : c \notin poller[h].todo
    BY <2>1 DEF OneOwner, Locked
  <2>4. ASSUME NEW i \in Instances, NEW c \in poller'[i].todo
        PROVE  /\ task'[c].state = IF poller'[i].pc = "claim" THEN "pending" ELSE "processing"
               /\ \A h \in Instances \ {i} : c \notin poller'[h].todo
    <3>1. CASE i = g
      BY <2>1, <2>2, <2>3, <2>4, <3>1
    <3>2. CASE i # g
      BY <2>2, <2>3, <2>4, <3>2 DEF OneOwner
    <3>3. QED
      BY <3>1, <3>2
  <2>5. QED
    BY <2>4 DEF OneOwner
<1>6. CASE ClaimCommit(g)
  <2>1. /\ poller'[g].todo = poller[g].todo /\ poller'[g].pc = "next"
        /\ \A h \in Instances \ {g} : poller'[h] = poller[h]
    BY <1>6 DEF ClaimCommit, TypeOK, PollerState
  <2>2. /\ \A c \in poller[g].todo : task'[c] = [task[c] EXCEPT !.state = "processing"]
        /\ \A c \in Calls \ poller[g].todo : task'[c] = task[c]
    BY <1>0, <1>6 DEF ClaimCommit, Taken
  <2>3. ASSUME NEW i \in Instances, NEW c \in poller'[i].todo
        PROVE  /\ task'[c].state = IF poller'[i].pc = "claim" THEN "pending" ELSE "processing"
               /\ \A h \in Instances \ {i} : c \notin poller'[h].todo
    <3>1. c \in poller[i].todo /\ c \in Calls /\ task[c] \in TaskRow
      BY <1>0, <2>1, <2>3 DEF TypeOK
    <3>2. \A h \in Instances \ {i} : c \notin poller'[h].todo
      BY <2>1, <3>1 DEF OneOwner
    <3>3. CASE i = g
      BY <2>1, <2>2, <3>1, <3>2, <3>3 DEF TaskRow
    <3>4. CASE i # g
      <4>1. c \notin poller[g].todo
        BY <3>1, <3>4 DEF OneOwner
      <4>2. task'[c] = task[c] /\ poller'[i] = poller[i]
        BY <2>1, <2>2, <3>1, <3>4, <4>1
      <4>3. QED
        BY <3>1, <3>2, <4>2 DEF OneOwner
    <3>5. QED
      BY <3>3, <3>4
  <2>4. QED
    BY <2>3 DEF OneOwner
<1>2. ASSUME TaskFails(g) \/ \E c \in Calls : Resolve(g, c) \/ Deploy(g, c) \/ Disable(g, c)
      PROVE  OneOwner'
  <2>1. task' = task
    BY <1>2 DEF TaskFails, Resolve, Deploy, Disable
  <2>2. \A h \in Instances : /\ poller'[h].todo = poller[h].todo
                             /\ poller'[h].pc = "claim" <=> poller[h].pc = "claim"
    BY <1>2 DEF TaskFails, Resolve, Deploy, Disable, Processed, TypeOK, PollerState
  <2>3. QED
    BY <2>1, <2>2 DEF OneOwner
<1>3. ASSUME NEW c \in Calls, Finish(g, c)
      PROVE  OneOwner'
  <2>1. c \in poller[g].todo
    BY <1>3 DEF Finish, IsHead, Oldest
  <2>2. \A d \in Calls \ {c} : task'[d] = task[d]
    BY <1>3 DEF Finish, TypeOK
  <2>3. poller'[g].todo = poller[g].todo \ {c}
        /\ \A h \in Instances \ {g} : poller'[h] = poller[h]
    BY <1>3 DEF Finish, Resting, TypeOK
  <2> /\ poller[g].pc # "claim" /\ poller'[g].pc # "claim"
    BY <1>3 DEF Finish, Resting, TypeOK
  <2>4. ASSUME NEW i \in Instances, NEW d \in poller'[i].todo
        PROVE  /\ task'[d].state = IF poller'[i].pc = "claim" THEN "pending" ELSE "processing"
               /\ \A h \in Instances \ {i} : d \notin poller'[h].todo
    <3>1. d \in poller[i].todo /\ d \in Calls
      BY <1>0, <2>2, <2>3, <2>4
    <3>2. d # c
      BY <2>1, <2>3, <2>4, <3>1 DEF OneOwner
    <3>3. QED
      BY <2>2, <2>3, <3>1, <3>2 DEF OneOwner
  <2>5. QED
    BY <2>4 DEF OneOwner
<1>4. CASE ClaimFails(g) \/ Crash(g)
  <2>1. poller'[g].todo = {} /\ \A h \in Instances \ {g} : poller'[h] = poller[h]
    BY <1>4 DEF ClaimFails, Crash, Resting, TypeOK
  <2>2. \A c \in Calls \ poller[g].todo : task'[c] = task[c]
    BY <1>4 DEF ClaimFails, Crash, Taken
  <2>3. ASSUME NEW h \in Instances \ {g}, NEW c \in poller[h].todo
        PROVE  task'[c] = task[c]
    BY <1>0, <2>2 DEF OneOwner
  <2>4. QED
    BY <2>1, <2>3 DEF OneOwner
<1>5. QED
  BY <1>1, <1>2, <1>3, <1>4, <1>6 DEF PollerStep

-----------------------------------------------------------------------------
(* What the outbox knows *)

\* Stamps come from the clock, and a call makes its task at its end.
Stamps ==
  \A c \in Calls :
    /\ task[c].at <= clock /\ call[c].at <= clock
    /\ call[c].pc # "end" => task[c] = NoTask

\* As long as no two calls overlapped, what a call has read is still so ...
ReadHolds(c) ==
  /\ call[c].want \in Statuses =>
       /\ call[c].want # status /\ call[c].version = current
       /\ call[c].kind = TaskKind(call[c].want)
  /\ call[c].want \in Versions =>
       /\ call[c].version = call[c].want
       /\ call[c].kind = IF status = "published" THEN "deploy" ELSE "none"

\* ... and the stamp of its task is the newest.
Newest(c) ==
  call[c].pc = "ready" /\ call[c].kind # "none" => \A d \in Calls : task[d].at < call[c].at

Sequential ==
  ~crossed /\ status # None => \A c \in InFlight : ReadHolds(c) /\ Newest(c)

\* The inductive invariant.
IInv == TypeOK /\ OneOwner /\ Stamps /\ Sequential /\ OutboxComplete

\* Tasks change their state alone, and the catalogue and the calls stay: the outbox
\* goes on knowing what it knew.
LEMMA OutboxFrame ==
  ASSUME Stamps, Sequential, OutboxComplete,
         UNCHANGED <<status, current, call, crossed>>, clock' >= clock,
         clock \in Nat, clock' \in Nat,
         \A c \in Calls : task[c].at \in Nat /\ call[c].at \in Nat,
         \A c \in Calls :
           /\ task'[c].at = task[c].at /\ task'[c].kind = task[c].kind
           /\ task'[c].version = task[c].version
           /\ task'[c].state = "none" <=> task[c].state = "none"
           /\ task[c] = NoTask => task'[c] = NoTask
  PROVE  Stamps' /\ Sequential' /\ OutboxComplete'
<1>1. Stamps'
  BY DEF Stamps
<1>2. Sequential'
  BY DEF Sequential, InFlight, ReadHolds, Newest, TaskKind
<1>3. NewestTask' = NewestTask
  BY DEF NewestTask
<1>4. OutboxComplete'
  <2>1. \A c \in NewestTask : c \in Calls
    BY DEF NewestTask
  <2>2. QED
    BY <1>3, <2>1 DEF OutboxComplete
<1>5. QED
  BY <1>1, <1>2, <1>4

LEMMA InitIInv == Init => IInv
<1> SUFFICES ASSUME Init PROVE IInv
  OBVIOUS
<1>1. TypeOK
  BY InitTypeOK
<1>2. OneOwner /\ Stamps
  BY DEF Init, OneOwner, Stamps, NoTask, NewCall, Resting
<1>3. InFlight = {} /\ NewestTask = {}
  BY DEF Init, InFlight, NewestTask, NoTask, NewCall
<1>4. Sequential /\ OutboxComplete
  BY <1>3 DEF Init, Sequential, OutboxComplete
<1>5. QED
  BY <1>1, <1>2, <1>4 DEF IInv

LEMMA CommitIInv ==
  ASSUME IInv, NEW c \in Calls, Commit(c)
  PROVE  Stamps' /\ Sequential' /\ OutboxComplete'
<1> USE DEF IInv
<1>1. Stamps'
  BY DEF Stamps, Commit, TypeOK, NoTask
<1>2. ~crossed' => InFlight' = {} /\ ~crossed /\ c \in InFlight
  BY DEF Commit, InFlight, TypeOK, CallState
<1>3. Sequential'
  BY <1>2 DEF Sequential
<1>4. OutboxComplete'
  <2> SUFFICES ASSUME ~crossed', status' # None
               PROVE  OutboxComplete'
    BY DEF OutboxComplete
  <2>1. status # None /\ ReadHolds(c) /\ Newest(c)
    BY <1>2 DEF Commit, SetStatus, Upload, Sequential
  <2>2. ASSUME call[c].kind = "none"
        PROVE  OutboxComplete'
    <3>1. task' = task
      BY <2>2 DEF Commit, Stamps, TypeOK
    <3>2. status # "published" /\ status' # "published"
      BY <2>1, <2>2 DEF Commit, SetStatus, Upload, ReadHolds, TaskKind, TypeOK
    <3>3. \A d \in NewestTask : task[d].kind = "disable"
      BY <1>2, <2>1, <3>2 DEF OutboxComplete
    <3>4. QED
      BY <3>1, <3>2, <3>3 DEF OutboxComplete, NewestTask
  <2>3. ASSUME call[c].kind # "none"
        PROVE  OutboxComplete'
    <3>1. task'[c] = [state |-> "pending", kind |-> call[c].kind,
                      version |-> call[c].version, at |-> call[c].at]
          /\ \A d \in Calls \ {c} : task'[d] = task[d]
      BY <2>3 DEF Commit, TypeOK
    <3>2. \A d \in Calls : task[d].at < call[c].at
      BY <2>1, <2>3 DEF Newest, Commit
    <3>3. NewestTask' = {c}
      BY <3>1, <3>2 DEF NewestTask, TypeOK, TaskRow, CallState
    <3>4. CASE SetStatus(c)
      <4>1. status' = call[c].want /\ current' = current
        BY <2>1, <3>4 DEF SetStatus
      <4>2. call[c].kind = TaskKind(call[c].want) /\ call[c].version = current
        BY <2>1, <3>4 DEF ReadHolds, SetStatus
      <4>3. QED
        BY <3>1, <3>3, <4>1, <4>2, <2>3 DEF OutboxComplete, TaskKind
    <3>5. CASE Upload(c)
      <4>1. status' = status /\ current' = call[c].want
        BY <3>5 DEF Upload
      <4>2. call[c].version = call[c].want /\ status = "published" /\ call[c].kind = "deploy"
        BY <2>1, <2>3, <3>5 DEF ReadHolds, Upload
      <4>3. QED
        BY <3>1, <3>3, <4>1, <4>2 DEF OutboxComplete
    <3>6. QED
      BY <3>4, <3>5 DEF Commit
  <2>4. QED
    BY <2>2, <2>3
<1>5. QED
  BY <1>1, <1>3, <1>4

LEMMA CallIInv ==
  ASSUME IInv, CallStep
  PROVE  Stamps' /\ Sequential' /\ OutboxComplete'
<1> USE DEF IInv, catalogue, history
<1>1. ASSUME NEW c \in Calls, NEW s \in Statuses, SetStatusRead(c, s)
      PROVE  Stamps' /\ Sequential' /\ OutboxComplete'
  <2>1. UNCHANGED <<status, current, task, clock, crossed>>
    BY <1>1 DEF SetStatusRead
  <2>2. /\ call'[c] = [pc |-> IF TaskKind(s) = "none" THEN "ready" ELSE "read",
                       want |-> s, kind |-> TaskKind(s), version |-> current, at |-> 0]
        /\ \A d \in Calls \ {c} : call'[d] = call[d]
    BY <1>1 DEF SetStatusRead, Asked, TypeOK
  <2>3. Stamps'
    BY <1>1, <2>1, <2>2 DEF Stamps, TypeOK, SetStatusRead
  <2>4. (ReadHolds(c) /\ Newest(c))'
    <3>1. s # status /\ s \notin Versions
      BY <1>1, SkillAssumption DEF SetStatusRead, SkillAssumption
    <3>2. ReadHolds(c)'
      BY <2>1, <2>2, <3>1 DEF ReadHolds, TaskKind
    <3>3. Newest(c)'
      BY <2>2 DEF Newest
    <3>4. QED
      BY <3>2, <3>3
  <2>5. Sequential'
    BY <2>1, <2>2, <2>4 DEF Sequential, InFlight, ReadHolds, Newest, TaskKind
  <2>6. QED
    BY <2>1, <2>3, <2>5 DEF OutboxComplete, NewestTask
<1>2. ASSUME NEW c \in Calls, NEW v \in Versions, UploadRead(c, v)
      PROVE  Stamps' /\ Sequential' /\ OutboxComplete'
  <2>1. UNCHANGED <<status, current, task, clock, crossed>>
    BY <1>2 DEF UploadRead
  <2> DEFINE kind == IF status = "published" THEN "deploy" ELSE "none"
  <2>2. /\ call'[c] = [pc |-> IF kind = "none" THEN "ready" ELSE "read",
                       want |-> v, kind |-> kind, version |-> v, at |-> 0]
        /\ \A d \in Calls \ {c} : call'[d] = call[d]
    BY <1>2 DEF UploadRead, Asked, TypeOK
  <2>3. Stamps'
    BY <1>2, <2>1, <2>2 DEF Stamps, TypeOK, UploadRead
  <2>4. (ReadHolds(c) /\ Newest(c))'
    <3>1. v \notin Statuses
      BY SkillAssumption DEF SkillAssumption
    <3>2. ReadHolds(c)'
      BY <2>1, <2>2, <3>1 DEF ReadHolds
    <3>3. Newest(c)'
      BY <2>2 DEF Newest
    <3>4. QED
      BY <3>2, <3>3
  <2>5. Sequential'
    BY <2>1, <2>2, <2>4 DEF Sequential, InFlight, ReadHolds, Newest, TaskKind
  <2>6. QED
    BY <2>1, <2>3, <2>5 DEF OutboxComplete, NewestTask
<1>3. ASSUME NEW c \in Calls, BuildTask(c)
      PROVE  Stamps' /\ Sequential' /\ OutboxComplete'
  <2>1. UNCHANGED <<status, current, task, crossed>> /\ clock' = clock + 1
    BY <1>3 DEF BuildTask
  <2>2. /\ call'[c] = [call[c] EXCEPT !.pc = "ready", !.at = clock']
        /\ \A d \in Calls \ {c} : call'[d] = call[d]
    BY <1>3 DEF BuildTask, TypeOK
  <2>3. Stamps'
    BY <1>3, <2>1, <2>2 DEF Stamps, TypeOK, BuildTask, TaskRow, CallState
  <2>4. ReadHolds(c) => (ReadHolds(c) /\ Newest(c))'
    BY <2>1, <2>2 DEF ReadHolds, Newest, TaskKind, Stamps, TypeOK, TaskRow, CallState
  <2>5. c \in InFlight
    BY <1>3 DEF BuildTask, InFlight
  <2>6. ASSUME ~crossed', status' # None, NEW d \in InFlight'
        PROVE  ReadHolds(d)' /\ Newest(d)'
    <3>1. CASE d = c
      BY <2>1, <2>4, <2>5, <2>6, <3>1 DEF Sequential
    <3>2. CASE d # c
      <4>1. d \in Calls /\ call'[d] = call[d] /\ d \in InFlight
        BY <2>2, <2>6, <3>2 DEF InFlight
      <4>2. ReadHolds(d) /\ Newest(d)
        BY <2>1, <2>6, <4>1 DEF Sequential
      <4>3. QED
        BY <2>1, <4>1, <4>2 DEF ReadHolds, Newest, TaskKind
    <3>3. QED
      BY <3>1, <3>2
  <2>7. Sequential'
    BY <2>6 DEF Sequential
  <2>8. QED
    BY <2>1, <2>3, <2>7 DEF OutboxComplete, NewestTask
<1>4. ASSUME NEW c \in Calls, Abort(c)
      PROVE  Stamps' /\ Sequential' /\ OutboxComplete'
  <2>1. UNCHANGED <<status, current, task, clock, crossed>>
    BY <1>4 DEF Abort
  <2>2. /\ call'[c].pc = "end" /\ call'[c].at = call[c].at
        /\ \A d \in Calls \ {c} : call'[d] = call[d]
    BY <1>4 DEF Abort, TypeOK
  <2>3. Stamps'
    BY <2>1, <2>2 DEF Stamps
  <2>4. Sequential'
    BY <2>1, <2>2 DEF Sequential, InFlight, ReadHolds, Newest, TaskKind
  <2>5. QED
    BY <2>1, <2>3, <2>4 DEF OutboxComplete, NewestTask
<1>5. QED
  BY <1>1, <1>2, <1>3, <1>4, CommitIInv DEF CallStep

LEMMA PollerIInv ==
  ASSUME IInv, NEW g \in Instances, PollerStep(g) \/ ClaimFails(g) \/ Crash(g)
  PROVE  Stamps' /\ Sequential' /\ OutboxComplete'
<1> USE DEF IInv, catalogue, history
<1>1. \A c \in Calls : task[c].at \in Nat /\ call[c].at \in Nat
  BY DEF TypeOK, TaskRow, CallState
<1>2. UNCHANGED <<status, current, call, crossed>> /\ clock' >= clock
      /\ clock \in Nat /\ clock' \in Nat
  <2>1. UNCHANGED <<status, current, call, crossed>>
    BY DEF PollerStep, Claim, ClaimCommit, ClaimFails, TaskFails, Resolve, Deploy,
         Disable, Finish, Crash
  <2>2. clock' = clock \/ clock' = clock + 1
    BY DEF PollerStep, Claim, ClaimCommit, ClaimFails, TaskFails, Resolve, Deploy,
         Disable, Finish, Crash
  <2>3. QED
    BY <2>1, <2>2 DEF TypeOK
<1>3. ASSUME NEW c \in Calls
      PROVE  /\ task'[c].at = task[c].at /\ task'[c].kind = task[c].kind
             /\ task'[c].version = task[c].version
             /\ task'[c].state = "none" <=> task[c].state = "none"
             /\ task[c] = NoTask => task'[c] = NoTask
  <2>1. ASSUME Taken(g), poller[g].pc = "claim"
        PROVE  /\ task'[c].at = task[c].at /\ task'[c].kind = task[c].kind
               /\ task'[c].version = task[c].version
               /\ task'[c].state = "none" <=> task[c].state = "none"
               /\ task[c] = NoTask => task'[c] = NoTask
    <3>1. task[c].state = "pending" \/ c \notin poller[g].todo
      BY <2>1 DEF OneOwner
    <3>2. QED
      BY <2>1, <3>1 DEF Taken, TypeOK, NoTask, TaskRow
  <2>2. ASSUME NEW d \in Calls, Finish(g, d)
        PROVE  /\ task'[c].at = task[c].at /\ task'[c].kind = task[c].kind
               /\ task'[c].version = task[c].version
               /\ task'[c].state = "none" <=> task[c].state = "none"
               /\ task[c] = NoTask => task'[c] = NoTask
    <3>1. task[d].state = "processing"
      BY <2>2 DEF Finish, IsHead, Oldest, OneOwner
    <3>2. QED
      <4>1. poller[g].result \in {"done", "failed"}
        BY DEF TypeOK, PollerState
      <4>2. task' = [task EXCEPT ![d].state = poller[g].result] \/ task' = task
        BY <2>2 DEF Finish
      <4>3. QED
        BY <3>1, <4>1, <4>2 DEF TypeOK, NoTask, TaskRow
  <2>3. ASSUME task' = task
        PROVE  /\ task'[c].at = task[c].at /\ task'[c].kind = task[c].kind
               /\ task'[c].version = task[c].version
               /\ task'[c].state = "none" <=> task[c].state = "none"
               /\ task[c] = NoTask => task'[c] = NoTask
    BY <2>3
  <2>4. QED
    BY <2>1, <2>2, <2>3 DEF PollerStep, Claim, ClaimCommit, ClaimFails, TaskFails, Resolve,
                            Deploy, Disable, Crash
<1>4. QED
  BY <1>1, <1>2, <1>3, OutboxFrame

LEMMA NextIInv == IInv /\ [Next]_vars => IInv'
<1> SUFFICES ASSUME IInv, [Next]_vars PROVE IInv'
  OBVIOUS
<1>1. TypeOK'
  BY NextTypeOK DEF IInv
<1>2. CASE CallStep
  BY <1>1, <1>2, OwnerCall, CallIInv DEF IInv, Stamps
<1>3. CASE \E g \in Instances : PollerStep(g) \/ ClaimFails(g) \/ Crash(g)
  BY <1>1, <1>3, OwnerPoller, PollerIInv DEF IInv
<1>4. CASE Delete
  BY <1>1, <1>4 DEF Delete, IInv, OneOwner, Stamps, Sequential, OutboxComplete
<1>5. CASE UNCHANGED vars
  BY <1>1, <1>5 DEF vars, catalogue, history, IInv, OneOwner, Stamps, Sequential, InFlight,
                   ReadHolds, Newest, TaskKind, OutboxComplete, NewestTask
<1>6. QED
  BY <1>2, <1>3, <1>4, <1>5 DEF Next

\* A claimed task belongs to one instance, however many poll, crash and fail.
THEOREM OneOwnerHolds == Spec => []OneOwner
<1>1. Spec => []IInv
  BY InitIInv, NextIInv, PTL DEF Spec
<1>2. IInv => OneOwner
  BY DEF IInv
<1>3. QED
  BY <1>1, <1>2, PTL

\* Unless two calls overlapped, the newest task of the outbox says what the catalogue
\* says, however calls and tasks fail.
THEOREM OutboxCompleteHolds == Spec => []OutboxComplete
<1>1. Spec => []IInv
  BY InitIInv, NextIInv, PTL DEF Spec
<1>2. IInv => OutboxComplete
  BY DEF IInv
<1>3. QED
  BY <1>1, <1>2, PTL

-----------------------------------------------------------------------------
(* What the runtime serves *)

\* The histories CatalogueServed speaks of.
Calm == ~crossed /\ ~disturbed /\ status # None

\* One instance at a time has a batch, no task has failed, and none is lost.
OneBatch ==
  /\ \A g \in Instances : /\ poller[g].pc = "idle" => ~Busy(g)
                          /\ poller[g].result = "done"
                          /\ \A h \in Instances : Busy(g) /\ Busy(h) => g = h
  /\ \A c \in Calls : /\ task[c].state # "failed"
                      /\ task[c].state = "processing" => \E g \in Instances : c \in poller[g].todo

Behind(c, d) ==
  \/ task[c].state = "done" /\ task[d].state \in {"processing", "pending"}
  \/ task[c].state = "processing" /\ task[d].state = "pending"

\* Tasks are done in the order of their stamps.
InOrder ==
  \A c, d \in Calls :
    /\ task[c].state = "none" => task[c].at = 0
    /\ task[c].state # "none" /\ task[d].state # "none" /\ c # d => task[c].at # task[d].at
    /\ Behind(c, d) => task[c].at < task[d].at

\* An open claim holds the oldest of the pending tasks.
Front ==
  \A g \in Instances : poller[g].pc = "claim" =>
    \A c \in poller[g].todo, d \in Calls \ poller[g].todo :
      task[d].state = "pending" => task[c].at < task[d].at

\* The tasks whose endpoints are written.
Applied ==
  {c \in Calls : \/ task[c].state = "done"
                 \/ \E g \in Instances : poller[g].pc = "finish" /\ IsHead(g, c)}

\* The endpoints are as task c left them.
Shows(c) ==
  IF task[c].kind = "disable" THEN \A v \in Versions : endpoint[v].state # "ready"
  ELSE task[c].version \notin Silent =>
         /\ task[c].version \in Versions /\ endpoint[task[c].version].state = "ready"
         /\ \A w \in Versions \ {task[c].version} :
              endpoint[w].at < endpoint[task[c].version].at

\* The endpoints are as the newest applied task left them.
Runtime ==
  \/ Applied = {} /\ \A v \in Versions : endpoint[v].state = "none"
  \/ \E c \in Applied : (\A d \in Applied : task[d].at <= task[c].at) /\ Shows(c)

\* A deployment under way is newer than every endpoint.
Fresh ==
  /\ \A v \in Versions : endpoint[v].at <= clock
  /\ \A g \in Instances, c \in Calls : poller[g].pc = "deploy" /\ IsHead(g, c) =>
       /\ poller[g].at <= clock /\ \A v \in Versions : endpoint[v].at < poller[g].at
       /\ task[c].kind = "deploy" /\ task[c].version \in Versions

\* What CatalogueServed needs to be inductive, next to IInv.
ServedInv == Calm => OneBatch /\ InOrder /\ Front /\ Runtime /\ Fresh

LEMMA HeadIs ==
  ASSUME NEW T, NEW S \in SUBSET Calls, NEW c
  PROVE  Cardinality({d \in S : T[d].at < T[c].at}) < 1 <=> \A d \in S : ~(T[d].at < T[c].at)
<1> DEFINE Older == {d \in S : T[d].at < T[c].at}
<1>1. IsFiniteSet(Older)
  <2>1. Older \subseteq Calls
    OBVIOUS
  <2> QED
    BY <2>1, FS_Subset, SkillAssumption DEF SkillAssumption
<1>2. Cardinality(Older) \in Nat /\ (Cardinality(Older) = 0 <=> Older = {})
  BY <1>1, FS_CardinalityType, FS_EmptySet
<1>3. Cardinality(Older) < 1 <=> Older = {}
  <2> HIDE DEF Older
  <2> QED
    BY <1>2
<1>4. Older = {} <=> \A d \in S : ~(T[d].at < T[c].at)
  OBVIOUS
<1> QED
  BY <1>3, <1>4

\* The head of a batch is its oldest task, before a step and after it.
LEMMA Heads ==
  ASSUME TypeOK, TypeOK', NEW g \in Instances, NEW c \in Calls
  PROVE  /\ IsHead(g, c) <=> /\ c \in poller[g].todo
                             /\ \A d \in poller[g].todo : task[c].at <= task[d].at
         /\ IsHead(g, c)' <=> /\ c \in poller'[g].todo
                              /\ \A d \in poller'[g].todo : task'[c].at <= task'[d].at
<1>1. /\ poller[g].todo \in SUBSET Calls /\ poller'[g].todo \in SUBSET Calls
      /\ \A d \in Calls : task[d].at \in Nat /\ task'[d].at \in Nat
  BY DEF TypeOK, PollerState, TaskRow
<1>2. IsHead(g, c) <=> c \in poller[g].todo /\ \A d \in poller[g].todo : ~(task[d].at < task[c].at)
  BY <1>1, HeadIs DEF IsHead, Oldest
<1>3. IsHead(g, c)' <=> c \in poller'[g].todo
                       /\ \A d \in poller'[g].todo : ~(task'[d].at < task'[c].at)
  BY <1>1, HeadIs DEF IsHead, Oldest
<1> QED
  BY <1>1, <1>2, <1>3

\* What is left is newer than what is taken.
LEMMA OldestFirst ==
  ASSUME TypeOK, NEW S \in SUBSET Calls, NEW n \in Nat,
         NEW c \in Oldest(S, n), NEW d \in S, d \notin Oldest(S, n)
  PROVE  task[c].at < task[d].at
<1> SUFFICES ASSUME ~(task[c].at < task[d].at) PROVE FALSE
  OBVIOUS
<1> DEFINE OlderThan(x) == {e \in S : task[e].at < task[x].at}
<1>1. c \in S /\ Cardinality(OlderThan(c)) < n /\ ~(Cardinality(OlderThan(d)) < n)
  BY DEF Oldest
<1>2. task[c].at \in Nat /\ task[d].at \in Nat /\ \A e \in S : task[e].at \in Nat
  BY <1>1 DEF TypeOK, TaskRow
<1>3. OlderThan(d) \subseteq OlderThan(c)
  BY <1>2
<1>4. IsFiniteSet(OlderThan(c))
  <2>1. OlderThan(c) \subseteq Calls
    OBVIOUS
  <2> QED
    BY <2>1, FS_Subset, SkillAssumption DEF SkillAssumption
<1>5. /\ Cardinality(OlderThan(d)) <= Cardinality(OlderThan(c))
      /\ Cardinality(OlderThan(d)) \in Nat /\ Cardinality(OlderThan(c)) \in Nat
  BY <1>3, <1>4, FS_Subset, FS_CardinalityType
<1> HIDE DEF OlderThan
<1> QED
  BY <1>1, <1>5

LEMMA InitServed == ASSUME Init PROVE ServedInv
<1>1. /\ \A g \in Instances : poller[g].pc = "idle" /\ poller[g].todo = {} /\ poller[g].result = "done"
      /\ \A c \in Calls : task[c].state = "none" /\ task[c].at = 0
      /\ \A v \in Versions : endpoint[v].state = "none" /\ endpoint[v].at = 0
      /\ clock = 0
  BY DEF Init, Resting, NoTask
<1>2. Applied = {}
  BY <1>1 DEF Applied
<1> QED
  BY <1>1, <1>2 DEF ServedInv, OneBatch, Busy, InOrder, Behind, Front, Runtime, Fresh

\* Steps that leave the tasks, the batches and the endpoints alone.
LEMMA ServedFrame ==
  ASSUME IInv, ServedInv, UNCHANGED <<task, poller, endpoint>>,
         clock' = clock \/ clock' = clock + 1, Calm' => Calm
  PROVE  ServedInv'
<1> SUFFICES ASSUME Calm, OneBatch, InOrder, Front, Runtime, Fresh
             PROVE  OneBatch' /\ InOrder' /\ Front' /\ Runtime' /\ Fresh'
  BY DEF ServedInv
<1>0. /\ clock \in Nat /\ clock' \in Nat /\ clock <= clock'
      /\ \A v \in Versions : endpoint[v].at \in Nat
      /\ \A g \in Instances : poller[g].at \in Nat
  BY DEF IInv, TypeOK, EndpointRow, PollerState
<1>1. OneBatch' /\ InOrder' /\ Front'
  BY DEF OneBatch, Busy, InOrder, Behind, Front
<1>2. \A g, c : IsHead(g, c)' = IsHead(g, c)
  BY DEF IsHead, Oldest
<1>3. Runtime'
  BY <1>2 DEF Runtime, Applied, Shows
<1>4. Fresh'
  BY <1>0, <1>2 DEF Fresh
<1> QED
  BY <1>1, <1>3, <1>4

\* A new task is newer than all others, and joins those that are pending.
LEMMA CommitServed ==
  ASSUME IInv, IInv', ServedInv, NEW c \in Calls, Commit(c)
  PROVE  ServedInv'
<1>1. Calm' => Calm
  BY DEF Calm, Commit, SetStatus, Upload
<1> SUFFICES ASSUME Calm, Calm', OneBatch, InOrder, Front, Runtime, Fresh
             PROVE  OneBatch' /\ InOrder' /\ Front' /\ Runtime' /\ Fresh'
  BY <1>1 DEF ServedInv
<1>2. /\ TypeOK /\ TypeOK' /\ task[c] = NoTask
      /\ UNCHANGED <<poller, endpoint, clock>>
  BY DEF Commit, IInv, Stamps
<1>3. c \in InFlight
  BY DEF Commit, InFlight
<1>4. CASE call[c].kind = "none"
  <2>1. task' = task
    BY <1>2, <1>4 DEF Commit, TypeOK
  <2> QED
    BY <1>1, <1>2, <2>1, ServedFrame DEF ServedInv
<1>5. CASE call[c].kind # "none"
  <2>1. /\ task'[c].state = "pending" /\ task'[c].at = call[c].at
        /\ \A d \in Calls \ {c} : task'[d] = task[d]
    BY <1>2, <1>5 DEF Commit, TypeOK
  <2>2. \A d \in Calls : task[d].at < call[c].at
    BY <1>3, <1>5 DEF Commit, IInv, Sequential, Newest, Calm
  <2>3. \A d \in Calls : task[d].at \in Nat /\ task'[d].at \in Nat
    BY <1>2 DEF TypeOK, TaskRow
  <2>4. task[c].state = "none"
    BY <1>2 DEF NoTask
  <2>5. \A g \in Instances : c \notin poller[g].todo /\ poller[g].todo \subseteq Calls
    BY <1>2, <2>4 DEF IInv, OneOwner, TypeOK, PollerState
  <2>6. \A g \in Instances, d \in Calls : IsHead(g, d)' <=> IsHead(g, d)
    BY <1>2, <2>1, <2>5, Heads
  <2>7. OneBatch'
    BY <1>2, <2>1 DEF OneBatch, Busy
  <2>8. InOrder'
    <3> SUFFICES ASSUME NEW d \in Calls, NEW e \in Calls
                 PROVE  /\ task'[d].state = "none" => task'[d].at = 0
                        /\ task'[d].state # "none" /\ task'[e].state # "none" /\ d # e
                             => task'[d].at # task'[e].at
                        /\ Behind(d, e)' => task'[d].at < task'[e].at
      BY DEF InOrder
    <3>1. CASE d = c
      BY <2>1, <2>2, <2>3, <3>1 DEF Behind
    <3>2. CASE e = c
      BY <2>1, <2>2, <2>3, <3>2 DEF Behind, InOrder
    <3>3. CASE d # c /\ e # c
      BY <2>1, <3>3 DEF InOrder, Behind
    <3> QED
      BY <3>1, <3>2, <3>3
  <2>9. Applied' = Applied /\ c \notin Applied
    <3>1. \A d \in Calls : (task'[d].state = "done") <=> (task[d].state = "done")
      BY <2>1, <2>4
    <3>2. c \notin Applied
      BY <1>2, <2>4, <2>5, Heads DEF Applied
    <3> QED
      BY <1>2, <2>6, <3>1, <3>2 DEF Applied
  <2>10. Runtime'
    <3>1. \A d \in Applied : task'[d] = task[d] /\ d \in Calls
      BY <2>1, <2>9 DEF Applied
    <3> QED
      BY <1>2, <2>9, <3>1 DEF Runtime, Shows
  <2>11. Fresh'
    <3>1. \A g \in Instances, d \in Calls : IsHead(g, d) => task'[d] = task[d]
      BY <1>2, <2>1, <2>5, Heads
    <3> QED
      BY <1>2, <2>6, <3>1 DEF Fresh
  <2>12. Front'
    BY <1>2, <2>1, <2>2, <2>5 DEF Front
  <2> QED
    BY <2>7, <2>8, <2>10, <2>11, <2>12
<1> QED
  BY <1>4, <1>5

LEMMA CallServed == ASSUME IInv, IInv', ServedInv, CallStep PROVE ServedInv'
<1>1. ASSUME NEW c \in Calls,
             \/ \E s \in Statuses : SetStatusRead(c, s)
             \/ \E v \in Versions : UploadRead(c, v)
             \/ BuildTask(c) \/ Abort(c)
      PROVE  ServedInv'
  <2>1. UNCHANGED <<task, poller, endpoint>> /\ (clock' = clock \/ clock' = clock + 1)
    BY <1>1 DEF SetStatusRead, UploadRead, BuildTask, Abort
  <2>2. Calm' => Calm
    BY <1>1 DEF SetStatusRead, UploadRead, BuildTask, Abort, Calm, catalogue, history
  <2> QED
    BY <2>1, <2>2, ServedFrame
<1> QED
  BY <1>1, CommitServed DEF CallStep

\* A claim finds nobody busy, and takes the oldest of the pending tasks.
LEMMA ClaimServed ==
  ASSUME IInv, IInv', NEW g \in Instances, Claim(g), Calm',
         OneBatch, InOrder, Front, Runtime, Fresh
  PROVE  OneBatch' /\ InOrder' /\ Front' /\ Runtime' /\ Fresh'
<1> DEFINE todo == Oldest(Pending \ Locked, BatchMax)
<1>0. TypeOK /\ TypeOK' /\ UNCHANGED <<task, endpoint, clock>>
  BY DEF Claim, IInv
<1>1. \A h \in Instances : poller[h].todo = {}
  BY DEF Claim, Calm, Busy
<1>2. /\ poller'[g].pc = "claim" /\ poller'[g].todo = todo /\ poller'[g].result = "done"
      /\ \A h \in Instances \ {g} : poller'[h] = poller[h]
  BY <1>0 DEF Claim, Resting, TypeOK
<1>3. \A c \in todo, d \in Calls \ todo : task[d].state = "pending" => task[c].at < task[d].at
  <2> SUFFICES ASSUME NEW c \in todo, NEW d \in Calls \ todo, task[d].state = "pending"
               PROVE  task[c].at < task[d].at
    OBVIOUS
  <2>1. d \in Pending \ Locked
    BY <1>1 DEF Pending, Locked
  <2>2. Pending \ Locked \in SUBSET Calls /\ BatchMax \in Nat
    BY SkillAssumption DEF Pending, SkillAssumption
  <2> QED
    BY <1>0, <2>1, <2>2, OldestFirst
<1> HIDE DEF todo
<1>4. OneBatch'
  BY <1>0, <1>1, <1>2 DEF OneBatch, Busy
<1>5. InOrder'
  BY <1>0 DEF InOrder, Behind
<1>6. Front'
  BY <1>0, <1>1, <1>2, <1>3 DEF Front
<1>7. \A h \in Instances, c \in Calls :
        /\ ~IsHead(h, c)
        /\ poller'[h].pc \in {"finish", "deploy"} => ~IsHead(h, c)'
  BY <1>0, <1>1, <1>2, Heads
<1>8. Applied' = Applied
  BY <1>0, <1>7 DEF Applied
<1>9. Runtime'
  BY <1>0, <1>8 DEF Runtime, Shows
<1>10. Fresh'
  BY <1>0, <1>7 DEF Fresh
<1> QED
  BY <1>4, <1>5, <1>6, <1>9, <1>10

\* The tasks of a claim that commits are older than all that stay pending.
LEMMA ClaimCommitServed ==
  ASSUME IInv, IInv', NEW g \in Instances, ClaimCommit(g),
         OneBatch, InOrder, Front, Runtime, Fresh
  PROVE  OneBatch' /\ InOrder' /\ Front' /\ Runtime' /\ Fresh'
<1> DEFINE todo == poller[g].todo
<1>0. /\ TypeOK /\ TypeOK' /\ OneOwner /\ UNCHANGED <<endpoint, clock>>
      /\ poller[g].pc = "claim"
  BY DEF ClaimCommit, IInv
<1>1. todo \subseteq Calls /\ \A c \in todo : task[c].state = "pending"
  BY <1>0 DEF OneOwner, TypeOK, PollerState
<1>2. /\ poller'[g].pc = "next" /\ poller'[g].todo = todo /\ poller'[g].result = "done"
      /\ \A h \in Instances \ {g} : poller'[h] = poller[h]
  BY <1>0 DEF ClaimCommit, TypeOK, PollerState, OneBatch
<1>3. /\ \A c \in todo : task'[c] = [task[c] EXCEPT !.state = "processing"]
      /\ \A c \in Calls \ todo : task'[c] = task[c]
  BY <1>1 DEF ClaimCommit, Taken
<1>4. \A h \in Instances \ {g} : todo # {} => poller[h].todo = {}
  BY DEF OneBatch, Busy
<1>5. \A c \in Calls : todo # {} => task[c].state # "processing"
  <2> SUFFICES ASSUME NEW c \in Calls, todo # {}, task[c].state = "processing" PROVE FALSE
    OBVIOUS
  <2>1. PICK h \in Instances : c \in poller[h].todo
    BY DEF OneBatch
  <2> QED
    BY <1>1, <1>4, <2>1
<1>6. \A c \in todo, d \in Calls \ todo : task[d].state = "pending" => task[c].at < task[d].at
  BY <1>0 DEF Front
<1> HIDE DEF todo
<1>7. /\ \A c \in todo : task'[c].state = "processing" /\ task[c].state = "pending"
      /\ \A c \in Calls : /\ task'[c].at = task[c].at /\ task'[c].kind = task[c].kind
                          /\ task'[c].version = task[c].version
  <2>1. \A c \in Calls : task[c] \in TaskRow
    BY <1>0 DEF TypeOK
  <2>2. ASSUME NEW c \in todo
        PROVE  /\ task'[c].state = "processing" /\ task'[c].at = task[c].at
               /\ task'[c].kind = task[c].kind /\ task'[c].version = task[c].version
    <3>1. task[c] \in TaskRow /\ task'[c] = [task[c] EXCEPT !.state = "processing"]
      BY <1>1, <1>3, <2>1
    <3> QED BY <3>1 DEF TaskRow
  <2> QED BY <1>1, <1>3, <2>2
<1>8. OneBatch'
  <2>1. ASSUME NEW c \in Calls
        PROVE  /\ task'[c].state # "failed"
               /\ task'[c].state = "processing" => \E h \in Instances : c \in poller'[h].todo
    <3>1. CASE c \in todo
      BY <1>2, <1>7, <3>1
    <3>2. CASE c \notin todo
      <4>1. task'[c] = task[c] /\ poller[g].todo = todo
        BY <1>3, <3>2 DEF todo
      <4> QED
        BY <1>2, <3>2, <4>1 DEF OneBatch
    <3> QED
      BY <3>1, <3>2
  <2>2. \A h \in Instances : /\ poller'[h].todo = poller[h].todo /\ poller'[h].result = "done"
                             /\ poller'[h].pc = "idle" => poller[h].pc = "idle"
    BY <1>2 DEF OneBatch, todo
  <2> QED
    BY <2>1, <2>2 DEF OneBatch, Busy
<1>9. InOrder'
  <2> SUFFICES ASSUME NEW c \in Calls, NEW d \in Calls
               PROVE  /\ task'[c].state = "none" => task'[c].at = 0
                      /\ task'[c].state # "none" /\ task'[d].state # "none" /\ c # d
                           => task'[c].at # task'[d].at
                      /\ Behind(c, d)' => task'[c].at < task'[d].at
    BY DEF InOrder
  <2>1. \A e \in Calls : task'[e].state = "none" <=> task[e].state = "none"
    BY <1>3, <1>7
  <2>2. /\ task[c].state = "none" => task[c].at = 0
        /\ task[c].state # "none" /\ task[d].state # "none" /\ c # d => task[c].at # task[d].at
    BY DEF InOrder
  <2>3. ASSUME Behind(c, d)' PROVE task[c].at < task[d].at
    <3>1. CASE task'[c].state = "done"
      <4>1. task[c].state = "done"
        BY <1>3, <1>7, <3>1
      <4>2. task[d].state \in {"processing", "pending"}
        BY <1>3, <1>7, <2>3, <3>1 DEF Behind
      <4> QED
        BY <4>1, <4>2 DEF InOrder, Behind
    <3>2. CASE task'[c].state = "processing" /\ task'[d].state = "pending"
      <4>1. d \in Calls \ todo /\ task[d].state = "pending"
        BY <1>3, <1>7, <3>2
      <4>2. CASE c \in todo
        BY <1>6, <4>1, <4>2
      <4>3. CASE c \notin todo
        BY <1>3, <3>2, <4>1, <4>3 DEF InOrder, Behind
      <4> QED
        BY <4>2, <4>3
    <3> QED
      BY <2>3, <3>1, <3>2 DEF Behind
  <2> QED
    BY <1>7, <2>1, <2>2, <2>3
<1>10. \A h \in Instances, c \in Calls :
         /\ poller[h].pc \in {"finish", "deploy"} /\ IsHead(h, c) => h # g /\ c \notin todo
         /\ poller'[h].pc \in {"finish", "deploy"} /\ IsHead(h, c)' => h # g
         /\ h # g => (IsHead(h, c)' <=> IsHead(h, c))
  <2>1. \A h \in Instances \ {g} : poller[h].todo \subseteq Calls
    BY <1>0 DEF TypeOK, PollerState
  <2>2. \A h \in Instances \ {g}, c \in Calls : IsHead(h, c)' <=> IsHead(h, c)
    BY <1>0, <1>2, <1>7, <2>1, Heads
  <2>3. \A h \in Instances \ {g}, c \in Calls : IsHead(h, c) => c \notin todo
    BY <1>0, <1>4, Heads
  <2> QED
    BY <1>0, <1>2, <2>2, <2>3
<1>11. Applied' = Applied
  <2>1. \A c \in Calls : (task'[c].state = "done") <=> (task[c].state = "done")
    BY <1>3, <1>7
  <2> QED
    BY <1>0, <1>2, <1>10, <2>1 DEF Applied
<1>12. Runtime'
  <2>1. \A c \in Applied : c \in Calls
    BY DEF Applied
  <2> QED
    BY <1>0, <1>7, <1>11, <2>1 DEF Runtime, Shows
<1>13. Fresh'
  <2>1. \A h \in Instances : poller'[h].pc = "deploy" => poller'[h] = poller[h]
    BY <1>2
  <2> QED
    BY <1>0, <1>7, <1>10, <2>1 DEF Fresh
<1>14. Front'
  <2> SUFFICES ASSUME NEW h \in Instances, poller'[h].pc = "claim",
                      NEW c \in poller'[h].todo, NEW d \in Calls \ poller'[h].todo,
                      task'[d].state = "pending"
               PROVE  task'[c].at < task'[d].at
    BY DEF Front
  <2>1. h # g /\ poller'[h] = poller[h] /\ c \in Calls
    BY <1>0, <1>2 DEF TypeOK, PollerState
  <2>2. task[d].state = "pending"
    BY <1>3, <1>7
  <2> QED
    BY <1>7, <2>1, <2>2 DEF Front
<1> QED
  BY <1>8, <1>9, <1>12, <1>13, <1>14

\* The batch under way has one head, and nothing else is at work.
LEMMA OneHead ==
  ASSUME TypeOK, TypeOK', OneOwner, OneBatch, InOrder,
         NEW g \in Instances, NEW c \in Calls, IsHead(g, c), poller[g].pc # "claim"
  PROVE  /\ task[c].state = "processing" /\ c \in poller[g].todo
         /\ \A h \in Instances, d \in Calls : IsHead(h, d) => h = g /\ d = c
         /\ \A d \in Calls : task[d].state = "processing" => d \in poller[g].todo
         /\ \A d \in poller[g].todo : d # c => task[c].at < task[d].at
<1>1. c \in poller[g].todo /\ task[c].state = "processing"
  BY Heads DEF OneOwner
<1>2. \A h \in Instances : poller[h].todo # {} => h = g
  BY <1>1 DEF OneBatch, Busy
<1>3. \A d \in poller[g].todo : /\ d \in Calls /\ task[d].state = "processing"
                                /\ task[d].at \in Nat /\ task[c].at \in Nat
  BY DEF OneOwner, TypeOK, PollerState, TaskRow
<1>4. \A d \in poller[g].todo : task[c].at <= task[d].at
  BY Heads
<1>5. \A d \in poller[g].todo : d # c => task[c].at # task[d].at
  BY <1>1, <1>3 DEF InOrder
<1>6. ASSUME NEW h \in Instances, NEW d \in Calls, IsHead(h, d) PROVE h = g /\ d = c
  <2>1. d \in poller[h].todo /\ \A e \in poller[h].todo : task[d].at <= task[e].at
    BY <1>6, Heads
  <2>2. h = g
    BY <1>2, <2>1
  <2> QED
    BY <1>1, <1>3, <1>4, <1>5, <2>1, <2>2
<1>7. \A d \in Calls : task[d].state = "processing" => d \in poller[g].todo
  BY <1>2 DEF OneBatch
<1>8. \A d \in poller[g].todo : d # c => task[c].at < task[d].at
  BY <1>3, <1>4, <1>5
<1> QED
  BY <1>1, <1>6, <1>7, <1>8

LEMMA BatchFrame ==
  ASSUME OneBatch, task' = task,
         \A h \in Instances : /\ poller'[h].todo = poller[h].todo /\ poller'[h].result = "done"
                              /\ poller'[h].pc = "idle" => poller[h].pc = "idle"
  PROVE  OneBatch'
BY DEF OneBatch, Busy

LEMMA FrontFrame ==
  ASSUME Front, task' = task,
         \A h \in Instances : /\ poller'[h].todo = poller[h].todo
                              /\ poller'[h].pc = "claim" => poller[h].pc = "claim"
  PROVE  Front'
BY DEF Front

\* A deployment draws its stamp.
LEMMA ResolveServed ==
  ASSUME IInv, IInv', NEW g \in Instances, NEW c \in Calls, Resolve(g, c),
         OneBatch, InOrder, Front, Runtime, Fresh
  PROVE  OneBatch' /\ InOrder' /\ Front' /\ Runtime' /\ Fresh'
<1>0. /\ TypeOK /\ TypeOK' /\ OneOwner /\ UNCHANGED <<task, endpoint>> /\ clock' = clock + 1
      /\ poller[g].pc = "next" /\ IsHead(g, c) /\ task[c].kind = "deploy"
      /\ task[c].version \in Versions
  BY DEF Resolve, IInv, TypeOK
<1>1. /\ poller'[g] = [poller[g] EXCEPT !.pc = "deploy", !.at = clock']
      /\ \A h \in Instances \ {g} : poller'[h] = poller[h]
  BY <1>0 DEF Resolve, TypeOK
<1>2. poller[g] \in PollerState
  BY <1>0 DEF TypeOK
<1>3. /\ poller'[g].pc = "deploy" /\ poller'[g].at = clock' /\ poller'[g].todo = poller[g].todo
      /\ poller'[g].result = poller[g].result
  BY <1>1, <1>2 DEF PollerState
<1>4. \A h \in Instances, d \in Calls : IsHead(h, d)' <=> IsHead(h, d)
  BY <1>0, <1>1, <1>3, Heads
<1>5. OneBatch'
  <2>1. \A h \in Instances : poller[h].result = "done"
    BY DEF OneBatch
  <2>2. \A h \in Instances : /\ poller'[h].todo = poller[h].todo /\ poller'[h].result = "done"
                             /\ poller'[h].pc = "idle" => poller[h].pc = "idle"
    BY <1>1, <1>3, <2>1
  <2> QED
    BY <1>0, <2>2, BatchFrame
<1>6. InOrder' /\ Front'
  <2>1. InOrder'
    BY <1>0 DEF InOrder, Behind
  <2>2. \A h \in Instances : /\ poller'[h].todo = poller[h].todo
                             /\ poller'[h].pc = "claim" => poller[h].pc = "claim"
    BY <1>1, <1>3
  <2> QED
    BY <1>0, <2>1, <2>2, FrontFrame
<1>7. Applied' = Applied
  BY <1>0, <1>1, <1>3, <1>4 DEF Applied
<1>8. Runtime'
  BY <1>0, <1>7 DEF Runtime, Shows
<1>9. Fresh'
  <2>1. /\ clock \in Nat /\ clock' \in Nat /\ \A v \in Versions : endpoint[v].at \in Nat
    BY <1>0 DEF TypeOK, EndpointRow
  <2>2. \A v \in Versions : endpoint[v].at <= clock
    BY DEF Fresh
  <2>3. \A h \in Instances, d \in Calls : IsHead(h, d) => h = g /\ d = c
    BY <1>0, OneHead
  <2>4. \A v \in Versions : endpoint'[v].at <= clock' /\ endpoint'[v].at < poller'[g].at
    BY <1>0, <1>3, <2>1, <2>2
  <2> QED
    BY <1>0, <1>3, <1>4, <2>1, <2>3, <2>4 DEF Fresh
<1> QED
  BY <1>5, <1>6, <1>8, <1>9

\* The endpoints of the head are written: it is the newest task applied.
LEMMA HeadApplied ==
  ASSUME TypeOK, TypeOK', OneOwner, NEW g \in Instances, NEW c \in Calls, IsHead(g, c),
         poller[g].pc \in {"next", "deploy"}, Processed(g, "done"), task' = task,
         OneBatch, InOrder, Front
  PROVE  /\ OneBatch' /\ InOrder' /\ Front'
         /\ c \in Applied' /\ \A d \in Applied' : d \in Calls /\ task[d].at <= task[c].at
         /\ \A h \in Instances, d \in Calls : poller'[h].pc = "deploy" => ~IsHead(h, d)'
<1>1. /\ poller'[g] = [poller[g] EXCEPT !.pc = "finish", !.result = "done"]
      /\ \A h \in Instances \ {g} : poller'[h] = poller[h]
  BY DEF Processed, TypeOK
<1>2. poller[g] \in PollerState
  BY DEF TypeOK
<1>3. /\ poller'[g].pc = "finish" /\ poller'[g].todo = poller[g].todo /\ poller'[g].result = "done"
  BY <1>1, <1>2 DEF PollerState
<1>4. \A h \in Instances, d \in Calls : IsHead(h, d)' <=> IsHead(h, d)
  BY <1>1, <1>3, Heads
<1>5. \A h \in Instances, d \in Calls : IsHead(h, d) => h = g /\ d = c
  BY OneHead
<1>6. OneBatch'
  <2>1. \A h \in Instances : poller[h].result = "done"
    BY DEF OneBatch
  <2>2. ASSUME NEW h \in Instances
        PROVE  /\ poller'[h].todo = poller[h].todo /\ poller'[h].result = "done"
               /\ poller'[h].pc = "idle" => poller[h].pc = "idle"
    <3>1. CASE h = g
      BY <1>3, <3>1
    <3>2. CASE h # g
      BY <1>1, <2>1, <3>2
    <3> QED
      BY <3>1, <3>2
  <2> QED
    BY <2>2, BatchFrame
<1>7. InOrder' /\ Front'
  <2>1. InOrder'
    BY DEF InOrder, Behind
  <2>2. \A h \in Instances : /\ poller'[h].todo = poller[h].todo
                             /\ poller'[h].pc = "claim" => poller[h].pc = "claim"
    BY <1>1, <1>3
  <2> QED
    BY <2>1, <2>2, FrontFrame
<1>8. c \in Applied'
  BY <1>3, <1>4 DEF Applied
<1>9. ASSUME NEW d \in Applied' PROVE d \in Calls /\ task[d].at <= task[c].at
  <2>1. d \in Calls /\ task[d].at \in Nat /\ task[c].at \in Nat
    BY <1>9 DEF Applied, TypeOK, TaskRow
  <2>2. CASE task[d].state = "done"
    <3>1. task[c].state = "processing"
      BY OneHead
    <3> QED
      BY <2>1, <2>2, <3>1 DEF InOrder, Behind
  <2>3. CASE task[d].state # "done"
    <3>1. d = c
      BY <1>4, <1>5, <1>9, <2>3 DEF Applied
    <3> QED
      BY <2>1, <3>1
  <2> QED
    BY <2>1, <2>2, <2>3
<1>10. \A h \in Instances, d \in Calls : poller'[h].pc = "deploy" => ~IsHead(h, d)'
  BY <1>3, <1>4, <1>5
<1> QED
  BY <1>6, <1>7, <1>8, <1>9, <1>10

LEMMA DeployServed ==
  ASSUME IInv, IInv', NEW g \in Instances, NEW c \in Calls, Deploy(g, c), Calm',
         OneBatch, InOrder, Front, Runtime, Fresh
  PROVE  OneBatch' /\ InOrder' /\ Front' /\ Runtime' /\ Fresh'
<1>0. TypeOK /\ TypeOK' /\ OneOwner
  BY DEF IInv
<1>1. PICK state \in {"ready", "failed"} :
        /\ endpoint' = IF task[c].version \in Silent THEN endpoint
                       ELSE [endpoint EXCEPT ![task[c].version] =
                               [state |-> state, at |-> poller[g].at]]
        /\ Processed(g, IF state = "failed" THEN "failed" ELSE "done")
  BY DEF Deploy
<1>2. state = "ready"
  BY <1>1 DEF Processed, Calm
<1>3. Processed(g, "done")
  BY <1>1, <1>2
<1>4. poller[g].pc = "deploy" /\ IsHead(g, c) /\ UNCHANGED <<task, clock>>
  BY DEF Deploy
<1>5. /\ OneBatch' /\ InOrder' /\ Front'
      /\ c \in Applied' /\ \A d \in Applied' : d \in Calls /\ task[d].at <= task[c].at
      /\ \A h \in Instances, d \in Calls : poller'[h].pc = "deploy" => ~IsHead(h, d)'
  BY <1>0, <1>3, <1>4, HeadApplied
<1>6. /\ poller[g].at <= clock /\ \A v \in Versions : endpoint[v].at < poller[g].at
      /\ task[c].kind = "deploy" /\ task[c].version \in Versions
  BY <1>4 DEF Fresh
<1> DEFINE v == task[c].version
<1>7. CASE v \in Silent
  <2>1. UNCHANGED <<task, endpoint, clock>>
    BY <1>1, <1>4, <1>7
  <2>2. Shows(c)'
    BY <1>6, <1>7, <2>1 DEF Shows
  <2>3. Runtime'
    BY <1>5, <2>1, <2>2 DEF Runtime
  <2>4. Fresh'
    BY <1>5, <2>1 DEF Fresh
  <2> QED
    BY <1>5, <2>3, <2>4
<1>8. CASE v \notin Silent
  <2>1. endpoint' = [endpoint EXCEPT ![v] = [state |-> "ready", at |-> poller[g].at]]
    BY <1>1, <1>2, <1>8
  <2> HIDE DEF v
  <2>2. v \in Versions
    BY <1>6 DEF v
  <2>3. /\ endpoint'[v].state = "ready" /\ endpoint'[v].at = poller[g].at
        /\ \A w \in Versions \ {v} : endpoint'[w] = endpoint[w]
    BY <1>0, <2>1, <2>2 DEF TypeOK
  <2>4. \A w \in Versions \ {v} : endpoint'[w].at < endpoint'[v].at
    BY <1>6, <2>3
  <2>5. task'[c].kind = "deploy" /\ task'[c].version = v
    BY <1>4, <1>6 DEF v
  <2>6. Shows(c)'
    BY <2>2, <2>3, <2>4, <2>5 DEF Shows
  <2>7. Runtime'
    BY <1>4, <1>5, <2>6 DEF Runtime
  <2>8. \A w \in Versions : endpoint'[w].at <= clock'
    BY <1>4, <1>6, <2>3 DEF Fresh
  <2>9. Fresh'
    BY <1>5, <2>8 DEF Fresh
  <2> QED
    BY <1>5, <2>7, <2>9
<1> QED
  BY <1>7, <1>8

LEMMA DisableServed ==
  ASSUME IInv, IInv', NEW g \in Instances, NEW c \in Calls, Disable(g, c),
         OneBatch, InOrder, Front, Runtime, Fresh
  PROVE  OneBatch' /\ InOrder' /\ Front' /\ Runtime' /\ Fresh'
<1>0. /\ TypeOK /\ TypeOK' /\ OneOwner /\ task[c].kind = "disable"
      /\ poller[g].pc = "next" /\ IsHead(g, c) /\ Processed(g, "done") /\ UNCHANGED <<task, clock>>
  BY DEF Disable, IInv
<1>1. /\ OneBatch' /\ InOrder' /\ Front'
      /\ c \in Applied' /\ \A d \in Applied' : d \in Calls /\ task[d].at <= task[c].at
      /\ \A h \in Instances, d \in Calls : poller'[h].pc = "deploy" => ~IsHead(h, d)'
  BY <1>0, HeadApplied
<1>2. ASSUME NEW v \in Versions PROVE endpoint'[v].state # "ready" /\ endpoint'[v].at = endpoint[v].at
  <2>1. endpoint'[v] = IF endpoint[v].state = "none" THEN endpoint[v]
                         ELSE [endpoint[v] EXCEPT !.state = "disabled"]
    BY DEF Disable
  <2> QED
    BY <1>0, <2>1 DEF TypeOK, EndpointRow
<1>3. Shows(c)'
  BY <1>0, <1>2 DEF Shows
<1>4. Runtime'
  BY <1>0, <1>1, <1>3 DEF Runtime
<1>5. Fresh'
  BY <1>0, <1>1, <1>2 DEF Fresh
<1> QED
  BY <1>1, <1>4, <1>5

\* The head is done, and the next of its batch, if any, becomes the head.
LEMMA FinishServed ==
  ASSUME IInv, IInv', NEW g \in Instances, NEW c \in Calls, Finish(g, c), Calm',
         OneBatch, InOrder, Front, Runtime, Fresh
  PROVE  OneBatch' /\ InOrder' /\ Front' /\ Runtime' /\ Fresh'
<1>0. /\ TypeOK /\ TypeOK' /\ OneOwner /\ UNCHANGED <<endpoint, clock>>
      /\ poller[g].pc = "finish" /\ IsHead(g, c)
  BY DEF Finish, IInv
<1>1. task' = [task EXCEPT ![c].state = poller[g].result] /\ poller[g].result = "done"
  BY DEF Finish, Calm, OneBatch
<1>2. /\ task'[c] = [task[c] EXCEPT !.state = "done"]
      /\ \A d \in Calls \ {c} : task'[d] = task[d]
  BY <1>0, <1>1 DEF TypeOK
<1>3. /\ task'[c].state = "done"
      /\ \A d \in Calls : /\ task'[d].at = task[d].at /\ task'[d].kind = task[d].kind
                          /\ task'[d].version = task[d].version
  BY <1>0, <1>2 DEF TypeOK, TaskRow
<1>4. /\ poller'[g].todo = poller[g].todo \ {c} /\ poller'[g].pc \in {"next", "idle"}
      /\ poller'[g].pc = "idle" => poller'[g].todo = {}
      /\ poller'[g].result = "done"
      /\ \A h \in Instances \ {g} : poller'[h] = poller[h]
  BY <1>0 DEF Finish, Resting, TypeOK
<1>5. /\ task[c].state = "processing" /\ c \in poller[g].todo
      /\ \A h \in Instances, d \in Calls : IsHead(h, d) => h = g /\ d = c
      /\ \A d \in Calls : task[d].state = "processing" => d \in poller[g].todo
      /\ \A d \in poller[g].todo : d # c => task[c].at < task[d].at
  BY <1>0, OneHead
<1>6. OneBatch'
  <2>1. ASSUME NEW d \in Calls
        PROVE  /\ task'[d].state # "failed"
               /\ task'[d].state = "processing" => d \in poller'[g].todo
    <3>1. CASE d = c
      BY <1>3, <3>1
    <3>2. CASE d # c
      BY <1>2, <1>4, <1>5, <3>2 DEF OneBatch
    <3> QED
      BY <3>1, <3>2
  <2>2. \A h \in Instances : poller'[h].todo \subseteq poller[h].todo
    BY <1>4
  <2>3. \A h \in Instances : /\ poller'[h].pc = "idle" => poller'[h].todo = {}
                             /\ poller'[h].result = "done"
    BY <1>4 DEF OneBatch, Busy
  <2>4. ASSUME NEW h \in Instances, NEW i \in Instances, poller'[h].todo # {}, poller'[i].todo # {}
        PROVE  h = i
    BY <2>2, <2>4 DEF OneBatch, Busy
  <2> QED
    BY <2>1, <2>3, <2>4 DEF OneBatch, Busy
<1>7. InOrder'
  <2> SUFFICES ASSUME NEW d \in Calls, NEW e \in Calls
               PROVE  /\ task'[d].state = "none" => task[d].at = 0
                      /\ task'[d].state # "none" /\ task'[e].state # "none" /\ d # e
                           => task[d].at # task[e].at
                      /\ Behind(d, e)' => task[d].at < task[e].at
    BY <1>3 DEF InOrder
  <2>1. /\ task'[d].state = "none" => task[d].at = 0
        /\ task'[d].state # "none" /\ task'[e].state # "none" /\ d # e => task[d].at # task[e].at
    <3>1. /\ task[d].state = "none" => task[d].at = 0
          /\ task[d].state # "none" /\ task[e].state # "none" /\ d # e => task[d].at # task[e].at
      BY DEF InOrder
    <3>2. \A f \in Calls : task'[f].state = "none" <=> task[f].state = "none"
      BY <1>2, <1>3, <1>5
    <3> QED
      BY <3>1, <3>2
  <2>2. ASSUME Behind(d, e)', d = c PROVE task[d].at < task[e].at
    <3>1. e # c /\ task[e].state \in {"processing", "pending"}
      BY <1>2, <1>3, <2>2 DEF Behind
    <3>2. CASE task[e].state = "processing"
      BY <1>5, <2>2, <3>1, <3>2
    <3>3. CASE task[e].state = "pending"
      BY <1>5, <2>2, <3>3 DEF InOrder, Behind
    <3> QED
      BY <3>1, <3>2, <3>3
  <2>3. ASSUME Behind(d, e)', d # c PROVE task[d].at < task[e].at
    BY <1>2, <1>3, <2>3 DEF InOrder, Behind
  <2> QED
    BY <2>1, <2>2, <2>3
<1>8. \A h \in Instances, d \in Calls : poller'[h].pc \in {"finish", "deploy"} => ~IsHead(h, d)'
  <2>1. \A h \in Instances \ {g}, d \in Calls : IsHead(h, d)' => IsHead(h, d)
    <3>1. \A h \in Instances : poller[h].todo \subseteq Calls
      BY <1>0 DEF TypeOK, PollerState
    <3> QED
      BY <1>0, <1>3, <1>4, <3>1, Heads
  <2> QED
    BY <1>4, <1>5, <2>1
<1>9. Applied' = Applied
  <2>1. \A d \in Calls : d \in Applied <=> task[d].state = "done" \/ d = c
    BY <1>0, <1>5 DEF Applied
  <2>2. \A d \in Calls : d \in Applied' <=> task'[d].state = "done"
    BY <1>8 DEF Applied
  <2>3. \A d \in Calls : task'[d].state = "done" <=> task[d].state = "done" \/ d = c
    BY <1>2, <1>3
  <2>4. Applied \subseteq Calls /\ Applied' \subseteq Calls
    BY DEF Applied
  <2> QED
    BY <2>1, <2>2, <2>3, <2>4
<1>10. Runtime'
  <2>1. \A d \in Applied : d \in Calls
    BY DEF Applied
  <2> QED
    BY <1>0, <1>3, <1>9, <2>1 DEF Runtime, Shows
<1>11. Fresh'
  BY <1>0, <1>8 DEF Fresh
<1>12. Front'
  <2>1. \A h \in Instances : poller'[h].pc = "claim" => poller'[h].todo = {}
    BY <1>4, <1>5 DEF OneBatch, Busy
  <2> QED
    BY <2>1 DEF Front
<1> QED
  BY <1>6, <1>7, <1>10, <1>11, <1>12

\* In these histories an instance dies or rolls back before its tasks are "processing".
LEMMA RestServed ==
  ASSUME IInv, IInv', NEW g \in Instances, ClaimFails(g) \/ Crash(g), Calm',
         OneBatch, InOrder, Front, Runtime, Fresh
  PROVE  OneBatch' /\ InOrder' /\ Front' /\ Runtime' /\ Fresh'
<1>0. /\ TypeOK /\ TypeOK' /\ OneOwner /\ UNCHANGED <<task, endpoint, clock>>
      /\ poller[g].pc \in {"idle", "claim"}
  BY DEF ClaimFails, Crash, IInv, Calm
<1>1. /\ poller'[g].todo = {} /\ poller'[g].pc = "idle" /\ poller'[g].result = "done"
      /\ \A h \in Instances \ {g} : poller'[h] = poller[h]
  BY <1>0 DEF ClaimFails, Crash, Resting, TypeOK
<1>2. \A c \in poller[g].todo : task[c].state # "processing"
  BY <1>0 DEF OneOwner, OneBatch, Busy
<1>3. \A h \in Instances \ {g}, d \in Calls : IsHead(h, d)' <=> IsHead(h, d)
  BY <1>0, <1>1, Heads
<1>4. OneBatch'
  <2>1. \A c \in Calls : task'[c].state = "processing" => \E h \in Instances : c \in poller'[h].todo
    BY <1>0, <1>1, <1>2 DEF OneBatch
  <2> QED
    BY <1>0, <1>1, <2>1 DEF OneBatch, Busy
<1>5. InOrder' /\ Front'
  BY <1>0, <1>1 DEF InOrder, Behind, Front
<1>6. Applied' = Applied
  BY <1>0, <1>1, <1>3 DEF Applied
<1>7. Runtime'
  BY <1>0, <1>6 DEF Runtime, Shows
<1>8. Fresh'
  BY <1>0, <1>1, <1>3 DEF Fresh
<1> QED
  BY <1>4, <1>5, <1>7, <1>8

LEMMA PollerServed ==
  ASSUME IInv, IInv', ServedInv, NEW g \in Instances, PollerStep(g) \/ ClaimFails(g) \/ Crash(g)
  PROVE  ServedInv'
<1>1. Calm' => Calm
  BY DEF PollerStep, Claim, ClaimCommit, ClaimFails, TaskFails, Resolve, Deploy,
         Disable, Finish, Crash, Processed, Calm,
         catalogue, history
<1> SUFFICES ASSUME Calm, Calm', OneBatch, InOrder, Front, Runtime, Fresh
             PROVE  OneBatch' /\ InOrder' /\ Front' /\ Runtime' /\ Fresh'
  BY <1>1 DEF ServedInv
<1>2. ~TaskFails(g)
  BY DEF TaskFails, Processed, Calm
<1> QED
  BY <1>2, ClaimServed, ClaimCommitServed, ResolveServed, DeployServed, DisableServed,
     FinishServed, RestServed
  DEF PollerStep

\* When nothing is left to do, the newest task of the outbox is the newest applied.
LEMMA ServedInvSuffices == ASSUME IInv, ServedInv PROVE CatalogueServed
<1> SUFFICES ASSUME Quiet, Calm
             PROVE  IF status # "published" THEN Served = {}
                    ELSE current \notin Silent => Served = {current}
  BY DEF CatalogueServed, Calm
<1>0. OneBatch /\ InOrder /\ Runtime /\ TypeOK
  BY DEF ServedInv, IInv
<1>1. \A c \in Calls : /\ task[c].at \in Nat
                       /\ task[c].state = "done" \/ (task[c].state = "none" /\ task[c].at = 0)
  BY <1>0 DEF Quiet, OneBatch, InOrder, TypeOK, TaskRow
<1>2. OutboxComplete /\ ~crossed /\ status # None
  BY DEF IInv, Calm
<1>3. CASE Applied = {} /\ \A v \in Versions : endpoint[v].state = "none"
  <2>1. Served = {}
    BY <1>3 DEF Served
  <2>2. NewestTask = {}
    BY <1>1, <1>3 DEF NewestTask, Applied
  <2> QED
    BY <1>2, <2>1, <2>2 DEF OutboxComplete
<1>4. ASSUME NEW c \in Applied, \A d \in Applied : task[d].at <= task[c].at, Shows(c)
      PROVE  IF status # "published" THEN Served = {}
             ELSE current \notin Silent => Served = {current}
  <2>1. c \in Calls /\ task[c].state = "done"
    <3>1. c \in Calls
      BY <1>4 DEF Applied
    <3>2. ASSUME NEW g \in Instances, IsHead(g, c) PROVE FALSE
      <4>1. c \in poller[g].todo
        BY <3>2 DEF IsHead, Oldest
      <4> QED
        BY <1>1, <3>1, <4>1 DEF IInv, OneOwner
    <3> QED
      BY <1>4, <3>1, <3>2 DEF Applied
  <2>2. ASSUME NEW d \in Calls PROVE task[d].at <= task[c].at
    <3>1. CASE task[d].state = "done"
      BY <1>4, <3>1 DEF Applied
    <3>2. CASE task[d].at = 0
      BY <1>1, <2>1, <3>2
    <3> QED
      BY <1>1, <3>1, <3>2
  <2>3. c \in NewestTask
    BY <2>1, <2>2 DEF NewestTask
  <2>4. ASSUME NEW d \in NewestTask PROVE d = c
    <3>1. d \in Calls /\ task[d].state # "none" /\ task[c].at <= task[d].at
      BY <2>1 DEF NewestTask
    <3>2. task[d].at = task[c].at
      BY <1>1, <2>1, <2>2, <3>1
    <3> QED
      BY <1>0, <2>1, <3>1, <3>2 DEF InOrder
  <2>5. CASE status # "published"
    <3>1. task[c].kind = "disable"
      BY <1>2, <2>3, <2>5 DEF OutboxComplete
    <3> QED
      BY <1>4, <2>5, <3>1 DEF Shows, Served
  <2>6. CASE status = "published" /\ current \notin Silent
    <3>1. task[c].kind = "deploy" /\ task[c].version = current
      BY <1>2, <2>4, <2>6 DEF OutboxComplete
    <3>2. /\ current \in Versions /\ endpoint[current].state = "ready"
          /\ \A w \in Versions \ {current} : endpoint[w].at < endpoint[current].at
      BY <1>4, <2>6, <3>1 DEF Shows
    <3>3. \A w \in Versions : endpoint[w].at \in Nat
      BY <1>0 DEF TypeOK, EndpointRow
    <3>4. Served = {current}
      BY <3>2, <3>3 DEF Served
    <3> QED
      BY <2>6, <3>4
  <2> QED
    BY <2>5, <2>6
<1> QED
  BY <1>0, <1>3, <1>4 DEF Runtime

\* When the outbox is empty the runtime serves the current version of a published skill
\* and nothing of any other, in the histories without overlaps and failures.
THEOREM CatalogueServedHolds == Spec => []CatalogueServed
<1>1. Init => IInv /\ ServedInv
  BY InitIInv, InitServed
<1>2. IInv /\ ServedInv /\ [Next]_vars => IInv' /\ ServedInv'
  <2> SUFFICES ASSUME IInv, ServedInv, [Next]_vars PROVE IInv' /\ ServedInv'
    OBVIOUS
  <2>1. IInv'
    BY NextIInv
  <2>2. CASE CallStep
    BY <2>1, <2>2, CallServed
  <2>3. CASE \E g \in Instances : PollerStep(g) \/ ClaimFails(g) \/ Crash(g)
    BY <2>1, <2>3, PollerServed
  <2>4. CASE Delete
    BY <2>1, <2>4 DEF Delete, ServedInv, Calm
  <2>5. CASE UNCHANGED vars
    <3>1. UNCHANGED <<task, poller, endpoint, clock>> /\ (Calm' => Calm)
      BY <2>5 DEF vars, catalogue, history, Calm
    <3> QED
      BY <2>1, <3>1, ServedFrame
  <2> QED
    BY <2>1, <2>2, <2>3, <2>4, <2>5 DEF Next
<1>3. IInv /\ ServedInv => CatalogueServed
  BY ServedInvSuffices
<1> QED
  BY <1>1, <1>2, <1>3, PTL DEF Spec
=============================================================================
