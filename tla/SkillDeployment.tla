-------------------------- MODULE SkillDeployment --------------------------
(***************************************************************************)
(* One skill between the catalogue of SkillHub                             *)
(* (src/crates/skillhub/src/lib.rs) and the endpoints of the Skill Runtime *)
(* (src/crates/skill-backing/src/runtime.rs).  Calls of administrators     *)
(* change the status and the version of the skill and leave a task in an   *)
(* outbox in the same transaction; the pollers of all instances claim      *)
(* tasks and deploy or disable endpoints.                                  *)
(*                                                                         *)
(* A version stands for its row, manifest and endpoint; where a manifest   *)
(* lists several endpoints they share its fate here.  Package files and    *)
(* the events table are left out.  Stamps are drawn from one clock: the    *)
(* clocks of the instances are taken to agree.                             *)
(***************************************************************************)
EXTENDS Naturals, FiniteSets

CONSTANTS
  Calls,       \* calls of set_status and upload_artifact
  Wants,       \* Wants[c]: the statuses and versions call c may ask for
  Instances,   \* the gateways, each with a poller
  Versions,    \* the versions there may be
  Silent,      \* versions without endpoints: no fluxeme.yaml
  BatchMax,    \* tasks claimed at once
  MaxFaults,   \* bound on failed statements, crashes and the deletion
  None         \* no version

\* "approved" stands for "reviewing" too: nothing tells them apart.
Statuses == {"draft", "approved", "published"}

ASSUME SkillAssumption ==
  /\ Silent \subseteq Versions /\ None \notin Versions /\ None \notin Statuses
  /\ Versions \cap Statuses = {}
  /\ Wants \in [Calls -> SUBSET (Statuses \cup Versions)]
  /\ IsFiniteSet(Calls) /\ BatchMax \in Nat \ {0} /\ MaxFaults \in Nat

VARIABLES
  status,     \* agent_skills.status, None once the row is deleted
  current,    \* agent_skills.version, None before the first package
  uploaded,   \* agent_skill_versions
  task,       \* task[c]: the row of agent_skill_runtime_tasks made by call c
  call,       \* call[c]: where call c is
  poller,     \* poller[g]: the batch of instance g and where it is in it
  endpoint,   \* endpoint[v]: the row of version v in agent_skill_endpoints
  clock,      \* the last stamp drawn
  faults,     \* what went wrong so far
  crossed,    \* history: two calls of administrators overlapped
  disturbed   \* history: a task failed, was lost, or was claimed beside an open batch

catalogue == <<status, current, uploaded>>
history   == <<faults, crossed, disturbed>>
vars == <<catalogue, task, call, poller, endpoint, clock, history>>

NoTask == [state |-> "none", kind |-> "deploy", version |-> None, at |-> 0]
NewCall == [pc |-> "new", want |-> None, kind |-> "none", version |-> None, at |-> 0]
Resting == [pc |-> "idle", todo |-> {}, at |-> 0, result |-> "done"]

Init ==
  /\ status = "draft"
  /\ current \in Versions \cup {None}
  /\ uploaded = {current} \ {None}
  /\ task = [c \in Calls |-> NoTask]
  /\ call = [c \in Calls |-> NewCall]
  /\ poller = [g \in Instances |-> Resting]
  /\ endpoint = [v \in Versions |-> [state |-> "none", at |-> 0]]
  /\ clock = 0 /\ faults = 0 /\ crossed = FALSE /\ disturbed = FALSE

-----------------------------------------------------------------------------
(* Calls of administrators *)

InFlight == {c \in Calls : call[c].pc \in {"read", "ready"}}

\* The task that goes with a change of status.
TaskKind(s) ==
  IF s = "published" THEN "deploy"
  ELSE IF status = "published" THEN "disable" ELSE "none"

\* A call that has read the skill: what it will write, and the task that goes with it.
Asked(c, want, kind, v) ==
  [call EXCEPT ![c] = [pc |-> IF kind = "none" THEN "ready" ELSE "read",
                       want |-> want, kind |-> kind, version |-> v, at |-> 0]]

\* set_status reads the skill and its current version, and is done when there is
\* nothing to change or nothing to publish.
SetStatusRead(c, s) ==
  /\ call[c].pc = "new"
  /\ status \notin {None, s}
  /\ s = "published" => current # None
  /\ call' = Asked(c, s, TaskKind(s), current)
  /\ UNCHANGED <<catalogue, task, poller, endpoint, clock, history>>

\* upload_artifact reads the skill and finds no row of the version; it stores the file.
UploadRead(c, v) ==
  /\ call[c].pc = "new"
  /\ status # None
  /\ v \notin uploaded
  /\ call' = Asked(c, v, IF status = "published" THEN "deploy" ELSE "none", v)
  /\ UNCHANGED <<catalogue, task, poller, endpoint, clock, history>>

\* build_task: created_at is taken before the transaction begins.
BuildTask(c) ==
  /\ call[c].pc = "read"
  /\ clock' = clock + 1
  /\ call' = [call EXCEPT ![c].pc = "ready", ![c].at = clock']
  /\ UNCHANGED <<catalogue, task, poller, endpoint, history>>

\* The transaction of set_status; a row that is gone is not updated, and the task is
\* inserted all the same.
SetStatus(c) ==
  /\ call[c].want \in Statuses
  /\ status' = IF status = None THEN None ELSE call[c].want
  /\ UNCHANGED <<current, uploaded>>

\* The transaction of upload_artifact: the version must be new and its skill must exist.
Upload(c) ==
  /\ call[c].want \in Versions \ uploaded
  /\ status # None
  /\ current' = call[c].want
  /\ uploaded' = uploaded \cup {call[c].want}
  /\ UNCHANGED status

\* the task is written by a statement of its own, which may not happen
MutantCommit(c) ==
  /\ call[c].pc = "ready"
  /\ SetStatus(c) \/ Upload(c)
  /\ \/ task' = [task EXCEPT ![c] = IF call[c].kind = "none" THEN NoTask
                                      ELSE [state |-> "pending", kind |-> call[c].kind,
                                            version |-> call[c].version, at |-> call[c].at]]
     \/ faults < MaxFaults /\ UNCHANGED task
  /\ call' = [call EXCEPT ![c].pc = "end"]
  /\ crossed' = (crossed \/ InFlight # {c})
  /\ UNCHANGED <<poller, endpoint, clock, faults, disturbed>>

\* The change and its task commit together.
Commit(c) ==
  /\ call[c].pc = "ready"
  /\ SetStatus(c) \/ Upload(c)
  /\ task' = [task EXCEPT ![c] = IF call[c].kind = "none" THEN NoTask
                                   ELSE [state |-> "pending", kind |-> call[c].kind,
                                         version |-> call[c].version, at |-> call[c].at]]
  /\ call' = [call EXCEPT ![c].pc = "end"]
  /\ crossed' = (crossed \/ InFlight # {c})
  /\ UNCHANGED <<poller, endpoint, clock, faults, disturbed>>

\* A statement fails, the version is there already or the skill is gone.
Abort(c) ==
  /\ c \in InFlight
  /\ \/ call[c].want \in uploaded /\ UNCHANGED faults
     \/ call[c].want \in Versions /\ status = None /\ UNCHANGED faults
     \/ faults < MaxFaults /\ faults' = faults + 1
  /\ call' = [call EXCEPT ![c].pc = "end"]
  /\ UNCHANGED <<catalogue, task, poller, endpoint, clock, crossed, disturbed>>

\* delete_skill: the versions go with the row, tasks and endpoints stay.
Delete ==
  /\ status # None
  /\ faults < MaxFaults
  /\ status' = None /\ current' = None /\ uploaded' = {}
  /\ faults' = faults + 1
  /\ UNCHANGED <<task, call, poller, endpoint, clock, crossed, disturbed>>

-----------------------------------------------------------------------------
(* The poller of an instance *)

Pending == {c \in Calls : task[c].state = "pending"}

\* the newest are taken first
MutantOldest(S, n) == {c \in S : Cardinality({d \in S : task[d].at > task[c].at}) < n}

\* The n oldest of a set of tasks, by created_at.
Oldest(S, n) == {c \in S : Cardinality({d \in S : task[d].at < task[c].at}) < n}

Busy(g) == poller[g].todo # {}

\* The rows under the lock of a claim that has not committed.
Locked == UNION {poller[g].todo : g \in {h \in Instances : poller[h].pc = "claim"}}

\* the rows another claim has locked are not skipped
MutantClaim(g) ==
  /\ poller[g].pc = "idle"
  /\ Pending # {}
  /\ poller' = [poller EXCEPT ![g] = [Resting EXCEPT !.pc = "claim",
                                                    !.todo = Oldest(Pending, BatchMax)]]
  /\ disturbed' = (disturbed \/ \E h \in Instances : Busy(h))
  /\ UNCHANGED <<catalogue, task, call, endpoint, clock, faults, crossed>>

\* claim_pending_tasks: SELECT ... FOR UPDATE SKIP LOCKED.  Rows of an open claim are
\* passed over, and newer ones taken in their place.
Claim(g) ==
  /\ poller[g].pc = "idle"
  /\ Pending \ Locked # {}
  /\ poller' = [poller EXCEPT ![g] = [Resting EXCEPT !.pc = "claim",
                                          !.todo = Oldest(Pending \ Locked, BatchMax)]]
  /\ disturbed' = (disturbed \/ \E h \in Instances : Busy(h))
  /\ UNCHANGED <<catalogue, task, call, endpoint, clock, faults, crossed>>

\* The tasks that were read are "processing".
Taken(g) ==
  task' = [c \in Calls |-> IF c \in poller[g].todo
                             THEN [task[c] EXCEPT !.state = "processing"] ELSE task[c]]

\* The updates of the claim, and its commit.
ClaimCommit(g) ==
  /\ poller[g].pc = "claim"
  /\ Taken(g)
  /\ poller' = [poller EXCEPT ![g].pc = "next"]
  /\ UNCHANGED <<catalogue, call, endpoint, clock, history>>

\* A statement of the claim fails and it is rolled back, or its commit is made and the
\* answer does not come: then the tasks are lost.
ClaimFails(g) ==
  /\ poller[g].pc = "claim"
  /\ faults < MaxFaults
  /\ faults' = faults + 1
  /\ poller' = [poller EXCEPT ![g] = Resting]
  /\ \/ UNCHANGED <<task, disturbed>>
     \/ Taken(g) /\ disturbed' = TRUE
  /\ UNCHANGED <<catalogue, call, endpoint, clock, crossed>>

\* The tasks of a batch are processed one after the other, oldest first.
IsHead(g, c) == c \in Oldest(poller[g].todo, 1)

\* The result of the head of the batch is known, and may be written next.
Processed(g, result) ==
  /\ poller' = [poller EXCEPT ![g].pc = "finish", ![g].result = result]
  /\ disturbed' = (disturbed \/ result = "failed")

\* deploy: the version is resolved and its manifest parsed; then created_at is taken.
Resolve(g, c) ==
  /\ poller[g].pc = "next" /\ IsHead(g, c) /\ task[c].kind = "deploy"
  /\ task[c].version \in uploaded
  /\ clock' = clock + 1
  /\ poller' = [poller EXCEPT ![g].pc = "deploy", ![g].at = clock']
  /\ UNCHANGED <<catalogue, task, call, endpoint, history>>

\* The rows of the version are replaced; a manifest without endpoints has no rows, and
\* nothing is replaced.  The upstream policy decides what the new row is.
Deploy(g, c) ==
  /\ poller[g].pc = "deploy" /\ IsHead(g, c)
  /\ \E state \in {"ready", "failed"} :
       /\ endpoint' = IF task[c].version \in Silent THEN endpoint
                      ELSE [endpoint EXCEPT ![task[c].version] =
                              [state |-> state, at |-> poller[g].at]]
       /\ state = "failed" => faults < MaxFaults
       /\ faults' = IF state = "failed" THEN faults + 1 ELSE faults
       /\ Processed(g, IF state = "failed" THEN "failed" ELSE "done")
  /\ UNCHANGED <<catalogue, task, call, clock, crossed>>

\* disable_endpoints
Disable(g, c) ==
  /\ poller[g].pc = "next" /\ IsHead(g, c) /\ task[c].kind = "disable"
  /\ endpoint' = [v \in Versions |-> IF endpoint[v].state = "none" THEN endpoint[v]
                                       ELSE [endpoint[v] EXCEPT !.state = "disabled"]]
  /\ Processed(g, "done")
  /\ UNCHANGED <<catalogue, task, call, clock, faults, crossed>>

\* Something on the way fails before the endpoints were written, or the event after it.
TaskFails(g) ==
  /\ \/ poller[g].pc \in {"next", "deploy"} /\ faults < MaxFaults /\ faults' = faults + 1
     \/ poller[g].pc = "finish" /\ poller[g].result = "done"
        /\ faults < MaxFaults /\ faults' = faults + 1
     \/ /\ poller[g].pc = "next"
        /\ \E c \in Calls : IsHead(g, c) /\ task[c].kind = "deploy" /\ task[c].version \notin uploaded
        /\ UNCHANGED faults
  /\ Processed(g, "failed")
  /\ UNCHANGED <<catalogue, task, call, endpoint, clock, crossed>>

\* a task that failed is tried again
MutantFinish(g, c) ==
  /\ poller[g].pc = "finish" /\ IsHead(g, c)
  /\ LET rest == IF poller[g].result = "done" THEN poller[g].todo \ {c} ELSE poller[g].todo
     IN poller' = [poller EXCEPT ![g] = IF rest = {} THEN Resting
                                          ELSE [Resting EXCEPT !.pc = "next", !.todo = rest]]
  /\ task' = IF poller[g].result = "done" THEN [task EXCEPT ![c].state = "done"] ELSE task
  /\ UNCHANGED <<catalogue, call, endpoint, clock, history>>

\* finish_task, whose own failure is only logged: the row stays "processing".
Finish(g, c) ==
  /\ poller[g].pc = "finish" /\ IsHead(g, c)
  /\ \/ /\ task' = [task EXCEPT ![c].state = poller[g].result]
        /\ UNCHANGED history
     \/ /\ faults < MaxFaults
        /\ faults' = faults + 1 /\ disturbed' = TRUE
        /\ UNCHANGED <<task, crossed>>
  /\ LET rest == poller[g].todo \ {c}
     IN poller' = [poller EXCEPT ![g] = IF rest = {} THEN Resting
                                          ELSE [Resting EXCEPT !.pc = "next", !.todo = rest]]
  /\ UNCHANGED <<catalogue, call, endpoint, clock>>

\* The process ends and is started again: an open claim is rolled back, and what was
\* claimed stays "processing".
Crash(g) ==
  /\ faults < MaxFaults
  /\ faults' = faults + 1
  /\ poller' = [poller EXCEPT ![g] = Resting]
  /\ disturbed' = (disturbed \/ poller[g].pc \notin {"idle", "claim"})
  /\ UNCHANGED <<catalogue, task, call, endpoint, clock, crossed>>

-----------------------------------------------------------------------------
CallStep ==
  \E c \in Calls :
    \/ \E s \in Statuses \cap Wants[c] : SetStatusRead(c, s)
    \/ \E v \in Versions \cap Wants[c] : UploadRead(c, v)
    \/ BuildTask(c) \/ Commit(c) \/ Abort(c)

PollerStep(g) ==
  \/ Claim(g) \/ ClaimCommit(g) \/ TaskFails(g)
  \/ \E c \in Calls : Resolve(g, c) \/ Deploy(g, c) \/ Disable(g, c) \/ Finish(g, c)

Next == CallStep \/ Delete \/ (\E g \in Instances : PollerStep(g) \/ ClaimFails(g) \/ Crash(g))

Spec == Init /\ [][Next]_vars

\* The poller is a task of its own that sleeps two seconds between passes.
Fairness == \A g \in Instances : WF_vars(PollerStep(g))

FairSpec == Spec /\ Fairness

-----------------------------------------------------------------------------
(* Properties *)

TaskRow == [state : {"none", "pending", "processing", "done", "failed"},
            kind : {"deploy", "disable"}, version : Versions \cup {None}, at : Nat]
CallState == [pc : {"new", "read", "ready", "end"}, want : Statuses \cup Versions \cup {None},
              kind : {"none", "deploy", "disable"}, version : Versions \cup {None}, at : Nat]
PollerState == [pc : {"idle", "claim", "next", "deploy", "finish"}, todo : SUBSET Calls,
                at : Nat, result : {"done", "failed"}]
EndpointRow == [state : {"none", "ready", "failed", "disabled"}, at : Nat]

TypeOK ==
  /\ status \in Statuses \cup {None}
  /\ current \in Versions \cup {None}
  /\ uploaded \subseteq Versions
  /\ task \in [Calls -> TaskRow]
  /\ call \in [Calls -> CallState]
  /\ poller \in [Instances -> PollerState]
  /\ endpoint \in [Versions -> EndpointRow]
  /\ clock \in Nat /\ faults \in Nat
  /\ crossed \in BOOLEAN /\ disturbed \in BOOLEAN

\* A claimed task belongs to one instance, however many poll at once, crash, fail or roll
\* back: its endpoints are never written by two of them, and a row stays "pending" until
\* the claim commits (FOR UPDATE SKIP LOCKED and the update in one transaction).
OneOwner ==
  \A g \in Instances : \A c \in poller[g].todo :
    /\ task[c].state = IF poller[g].pc = "claim" THEN "pending" ELSE "processing"
    /\ \A h \in Instances \ {g} : c \notin poller[h].todo

\* The tasks a call has left, newest first.
NewestTask ==
  {c \in Calls : task[c].state # "none" /\ \A d \in Calls : task[d].at <= task[c].at}

\* The outbox knows what the catalogue says: unless two calls overlapped, the newest
\* task deploys the current version of a published skill and disables any other
\* (the change and its task are one transaction).
OutboxComplete ==
  (~crossed /\ status # None) =>
    /\ status = "published" => \E c \in NewestTask : task[c].kind = "deploy" /\ task[c].version = current
    /\ status # "published" => \A c \in NewestTask : task[c].kind = "disable"

\* find_endpoint: the row of the version deployed last, when it is ready.
Served ==
  {v \in Versions : endpoint[v].state = "ready"
                      /\ \A w \in Versions : endpoint[w].at <= endpoint[v].at}

Quiet == InFlight = {} /\ \A c \in Calls : task[c].state \notin {"pending", "processing"}

\* When nothing is left to do the runtime serves what the catalogue says, unless calls
\* overlapped, tasks failed or were lost, or one instance claimed tasks while another had
\* some: the rows of an open claim are skipped and it may be rolled back, so the newer
\* tasks may end first.  Those are the cases the code leaves to chance.  A version without
\* endpoints changes nothing.
CatalogueServed ==
  (Quiet /\ ~crossed /\ ~disturbed /\ status # None) =>
    IF status # "published" THEN Served = {}
    ELSE current \notin Silent => Served = {current}

\* A task whose poller died or could not write its end.
Lost(c) == task[c].state = "processing" /\ \A g \in Instances : c \notin poller[g].todo

\* Every task ends, whatever its batch and its neighbours, unless it is lost.
TasksEnd ==
  \A c \in Calls : task[c].state = "pending" ~> (task[c].state \in {"done", "failed"} \/ Lost(c))
=============================================================================
