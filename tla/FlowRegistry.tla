---------------------------- MODULE FlowRegistry ----------------------------
(***************************************************************************)
(* The registry of requests in flight.  Every gateway keeps the lifecycle  *)
(* of its own requests in memory                                           *)
(* (src/src/observability/flow_tracker.rs) and copies each transition to   *)
(* Redis in a task of its own; the scripts of src/src/cache/mod.rs keep    *)
(* the copies in order by a sequence number and a marker of completion.    *)
(* Tasks run in any order, fail, and die with their gateway.               *)
(*                                                                         *)
(* A request is its sequence of marks: the handlers that make them are     *)
(* RequestLifecycle's.  A sequence number starts at the time of            *)
(* acceptance; only numbers of one request are compared, so it starts at   *)
(* 1 here.  Time is not counted: what a TTL keeps may expire whenever      *)
(* nothing that ends within the hour is under way.                         *)
(***************************************************************************)
EXTENDS Naturals, FiniteSets

CONSTANTS
  Requests,     \* the request ids
  Gateways,     \* the instances
  Home,         \* Home[r]: the gateway that serves r
  Attempts,     \* Attempts[r]: the calls r may make, retries included
  MaxFailed,    \* bound on the requests whose tasks fail
  None          \* no entry

States == {"accepted", "generating", "outputting"}

\* u64::MAX, above every number that follows an acceptance
Latest == 7

Entries == [state : States, seq : 1 .. Latest]

ASSUME RegistryAssumption ==
  /\ Home \in [Requests -> Gateways]
  /\ Attempts \in [Requests -> 0 .. 3] /\ MaxFailed \in Nat
  /\ None \notin Entries

VARIABLES
  stage,   \* stage[r]: where request r is, known to its handler alone
  local,   \* local[r]: its entry in the memory of its gateway
  tasks,   \* tasks[r]: what is still to reach Redis
  key,     \* key[r]: flow:active:<instance>:<request>
  tomb,    \* tomb[r]: flow:completed:<instance>:<request>, 0 when absent
  index,   \* flow:active:index
  reader,  \* a snapshot under way
  gone,    \* history: requests removed from the registry, or expired in it
  failed   \* history: requests of which a task was lost

handlerVars == <<stage, local>>
redisVars   == <<key, tomb, index>>
vars == <<stage, local, tasks, key, tomb, index, reader, gone, failed>>

-----------------------------------------------------------------------------
(* The scripts that run in Redis, each in one step *)

\* a task older than the completion may write
MutantFresh(r, n) == key[r] = None \/ key[r].seq < n

\* a write is as good as another
MutantUnordered(r, n) == tomb[r] < n

\* flow_set writes only what is newer than the entry and than the completion
Fresh(r, n) == tomb[r] < n /\ (key[r] = None \/ key[r].seq < n)

\* the index is extended by the first write alone
MutantFlowSet(r, t) ==
  IF Fresh(r, t.seq)
    THEN /\ key' = [key EXCEPT ![r] = [state |-> t.state, seq |-> t.seq]]
         /\ index' = IF t.seq = 1 THEN index \cup {r} ELSE index
         /\ UNCHANGED <<tomb, gone>>
    ELSE UNCHANGED <<key, tomb, index, gone>>

FlowSet(r, t) ==
  IF Fresh(r, t.seq)
    THEN /\ key' = [key EXCEPT ![r] = [state |-> t.state, seq |-> t.seq]]
         /\ index' = index \cup {r}
         /\ UNCHANGED <<tomb, gone>>
    ELSE UNCHANGED <<key, tomb, index, gone>>

\* flow_remove leaves the marker that stops a write still under way.
FlowRemove(r, t) ==
  IF key[r] # None /\ key[r].seq > t.seq
    THEN UNCHANGED <<key, tomb, index, gone>>
    ELSE /\ tomb' = [tomb EXCEPT ![r] = t.seq]
         /\ key' = [key EXCEPT ![r] = None]
         /\ index' = index \ {r}
         /\ gone' = gone \cup {r}

\* a task that was spawned reaches Redis
Reach(r, t) ==
  /\ t \in tasks[r]
  /\ tasks' = [tasks EXCEPT ![r] = @ \ {t}]
  /\ IF t.op = "set" THEN FlowSet(r, t) ELSE FlowRemove(r, t)
  /\ UNCHANGED <<handlerVars, reader, failed>>

\* Redis does not answer: the task logs and ends.
Fail(r, t) ==
  /\ t \in tasks[r] /\ Cardinality(failed) < MaxFailed
  /\ tasks' = [tasks EXCEPT ![r] = @ \ {t}]
  /\ failed' = failed \cup {r}
  /\ UNCHANGED <<handlerVars, redisVars, reader, gone>>

-----------------------------------------------------------------------------
(* The marks *)

\* persist: a task for the new state and number
Persist(r, e) ==
  /\ local' = [local EXCEPT ![r] = e]
  /\ tasks' = [tasks EXCEPT ![r] = @ \cup {[op |-> "set", state |-> e.state, seq |-> e.seq]}]

MarkAccepted(r) ==
  /\ stage[r] = "none"
  /\ stage' = [stage EXCEPT ![r] = "accepted"]
  /\ Persist(r, [state |-> "accepted", seq |-> 1])
  /\ UNCHANGED <<redisVars, reader, gone, failed>>

\* the number stays, as a timestamp of acceptance would
MutantNextMark(r, s) ==
  IF local[r] = None THEN UNCHANGED <<local, tasks>>
  ELSE Persist(r, [state |-> s, seq |-> local[r].seq])

\* Nothing is marked when the entry is not in memory.
NextMark(r, s) ==
  IF local[r] = None THEN UNCHANGED <<local, tasks>>
  ELSE Persist(r, [state |-> s, seq |-> local[r].seq + 1])

\* every call of the handler, a retry too
MarkUpstreamStarted(r) ==
  /\ stage[r] \in {"accepted", "generating"}
  /\ local[r].seq <= Attempts[r]
  /\ stage' = [stage EXCEPT ![r] = "generating"]
  /\ NextMark(r, "generating")
  /\ UNCHANGED <<redisVars, reader, gone, failed>>

MarkFirstByte(r) ==
  /\ stage[r] = "generating"
  /\ stage' = [stage EXCEPT ![r] = "outputting"]
  /\ NextMark(r, "outputting")
  /\ UNCHANGED <<redisVars, reader, gone, failed>>

\* the number of the last mark is enough for its removal
MutantRemoval(r) == IF local[r] = None THEN 1 ELSE local[r].seq + 1

Removal(r) == IF local[r] = None THEN Latest ELSE local[r].seq + 1

\* The record of the request, its refusal or the handler's timeout; a timeout may
\* follow the record, which makes a second removal.
MarkCompleted(r) ==
  /\ stage[r] \in States \cup {"over"}
  /\ stage' = [stage EXCEPT ![r] = IF @ = "over" THEN "closed" ELSE "over"]
  /\ local' = [local EXCEPT ![r] = None]
  /\ tasks' = [tasks EXCEPT ![r] = @ \cup {[op |-> "remove", state |-> "over", seq |-> Removal(r)]}]
  /\ UNCHANGED <<redisVars, reader, gone, failed>>

\* The client leaves before the answer: the handler is dropped, nothing is marked.
ClientLeaves(r) ==
  /\ stage[r] \in {"accepted", "generating"}
  /\ stage' = [stage EXCEPT ![r] = "left"]
  /\ UNCHANGED <<local, tasks, redisVars, reader, gone, failed>>

\* A gateway dies with its memory, its handlers and its tasks.
Crash(g) ==
  LET lost == {r \in Requests : Home[r] = g /\ stage[r] # "none"} IN
  /\ \E r \in lost : stage[r] # "left" \/ tasks[r] # {}
  /\ stage' = [r \in Requests |-> IF r \in lost THEN "left" ELSE stage[r]]
  /\ local' = [r \in Requests |-> IF r \in lost THEN None ELSE local[r]]
  /\ tasks' = [r \in Requests |-> IF r \in lost THEN {} ELSE tasks[r]]
  /\ failed' = failed \cup {r \in lost : tasks[r] # {}}
  /\ UNCHANGED <<redisVars, reader, gone>>

-----------------------------------------------------------------------------
(* The hour.  A call of Redis, a wait for the first byte and a wait for the next *)
(* call of the handler all end within it. *)

Waiting(r) == tasks[r] # {} \/ stage[r] \in {"accepted", "generating"}

\* an entry is written without its expiry
MutantKeyExpires(r) ==
  /\ key[r] # None /\ ~Waiting(r) /\ stage[r] # "left"
  /\ key' = [key EXCEPT ![r] = None]
  /\ gone' = gone \cup {r}
  /\ UNCHANGED <<handlerVars, tasks, tomb, index, reader, failed>>

KeyExpires(r) ==
  /\ key[r] # None /\ ~Waiting(r)
  /\ key' = [key EXCEPT ![r] = None]
  /\ gone' = gone \cup {r}
  /\ UNCHANGED <<handlerVars, tasks, tomb, index, reader, failed>>

TombExpires(r) ==
  /\ tomb[r] # 0 /\ ~Waiting(r)
  /\ tomb' = [tomb EXCEPT ![r] = 0]
  /\ UNCHANGED <<handlerVars, tasks, key, index, reader, gone, failed>>

-----------------------------------------------------------------------------
(* A snapshot: three calls of Redis, between which the registry moves *)

Idle == [at |-> "idle", names |-> {}]

\* snapshot_local drops what was not marked for an hour; then SMEMBERS.
ReadIndex(old) ==
  /\ reader = Idle
  /\ \A r \in old : local[r] # None /\ ~Waiting(r)
  /\ local' = [r \in Requests |-> IF r \in old THEN None ELSE local[r]]
  /\ reader' = IF index = {} THEN Idle ELSE [at |-> "names", names |-> index]
  /\ UNCHANGED <<stage, tasks, redisVars, gone, failed>>

\* MGET: the names without a value are kept for the cleanup.
ReadKeys ==
  LET expired == {r \in reader.names : key[r] = None} IN
  /\ reader.at = "names"
  /\ reader' = IF expired = {} THEN Idle ELSE [at |-> "cleanup", names |-> expired]
  /\ UNCHANGED <<handlerVars, tasks, redisVars, gone, failed>>

\* SREM
Cleanup ==
  /\ reader.at = "cleanup"
  /\ index' = index \ reader.names
  /\ reader' = Idle
  /\ UNCHANGED <<handlerVars, tasks, key, tomb, gone, failed>>

ReadFails ==
  /\ reader # Idle
  /\ reader' = Idle
  /\ UNCHANGED <<handlerVars, tasks, redisVars, gone, failed>>

-----------------------------------------------------------------------------

Init ==
  /\ stage = [r \in Requests |-> "none"]
  /\ local = [r \in Requests |-> None]
  /\ tasks = [r \in Requests |-> {}]
  /\ key = [r \in Requests |-> None]
  /\ tomb = [r \in Requests |-> 0]
  /\ index = {} /\ reader = Idle /\ gone = {} /\ failed = {}

Deliver(r) == \E t \in tasks[r] : Reach(r, t) \/ Fail(r, t)

Next ==
  \/ \E r \in Requests :
       \/ MarkAccepted(r) \/ MarkUpstreamStarted(r) \/ MarkFirstByte(r)
       \/ MarkCompleted(r) \/ ClientLeaves(r)
       \/ Deliver(r) \/ KeyExpires(r) \/ TombExpires(r)
  \/ \E g \in Gateways : Crash(g)
  \/ \E old \in SUBSET Requests : ReadIndex(old)
  \/ ReadKeys \/ Cleanup \/ ReadFails

Spec == Init /\ [][Next]_vars

\* A call of Redis ends, and a TTL runs out.
FairSpec ==
  Spec /\ \A r \in Requests : WF_vars(Deliver(r)) /\ WF_vars(KeyExpires(r))

-----------------------------------------------------------------------------
(* Properties *)

Tasks ==
  [op : {"set"}, state : States, seq : 1 .. Latest]
    \cup [op : {"remove"}, state : {"over"}, seq : 1 .. Latest]

\* The shape of the state: the numbers of marks stay below that of a completion
\* without an entry, and a snapshot that still has a call to make has names for it
\* (SREM without a member is an error of Redis).
TypeOK ==
  /\ stage \in [Requests -> States \cup {"none", "over", "closed", "left"}]
  /\ local \in [Requests -> [state : States, seq : 1 .. 5] \cup {None}]
  /\ tasks \in [Requests -> SUBSET Tasks]
  /\ key \in [Requests -> Entries \cup {None}]
  /\ tomb \in [Requests -> 0 .. Latest]
  /\ index \in SUBSET Requests
  /\ \/ reader = Idle
     \/ reader \in [at : {"names", "cleanup"}, names : (SUBSET Requests) \ {{}}]
  /\ gone \in SUBSET Requests /\ failed \in SUBSET Requests

\* A request that was removed from the registry, or expired in it, never comes back,
\* whatever order its tasks run in: flow_remove's marker outlives the writes that
\* were under way.
NoResurrection == \A r \in gone : key[r] = None

\* Every request in the registry is in the index that the count starts from: the
\* cleanup of a snapshot, which works on an answer of the past, drops no request that
\* was entered meanwhile.
Indexed == \A r \in Requests : key[r] # None => r \in index

\* When everything has reached Redis, the registry shows a request where its handler
\* is: transitions that ran in another order than they were made do not leave an older
\* one behind.
RegistryMatches ==
  \A r \in Requests \ (gone \cup failed) :
    tasks[r] = {} /\ stage[r] # "left" =>
      IF stage[r] \in States THEN key[r] # None /\ key[r].state = stage[r]
      ELSE key[r] = None

\* A request that is over leaves the registry for good, also when its gateway crashed,
\* its client left or the removal failed: its key expires.
Vanishes ==
  \A r \in Requests :
    stage[r] \in {"over", "closed", "left"} ~> [](key[r] = None)

=============================================================================
