----------------------------- MODULE ConfigSync -----------------------------
(***************************************************************************)
(* How an administrative change of the configuration reaches the in-memory *)
(* caches of every gateway instance: the admin handlers (src/src/admin),   *)
(* RoutingService::reload and AuthService::reload (src/src/service), the   *)
(* stamp config_version in PostgreSQL and the loop in src/src/main.rs that *)
(* polls it.                                                               *)
(*                                                                         *)
(* Handlers and poll loops are threads.  Between any two of their database *)
(* calls and lock acquisitions another thread may run, so every such step  *)
(* is a step here; a thread follows a fixed program of them.               *)
(***************************************************************************)
EXTENDS Integers, Sequences

CONSTANTS
  Edits,        \* administrative changes, each made once
  Gateways,     \* gateway instances
  Stories,      \* what may be made and go wrong, one of which is chosen in Init
  MaxFaults     \* bound on the failures

RoutingParts == {"channels", "models", "rules"}
AuthParts == {"keys", "users", "members"}
Parts == RoutingParts \cup AuthParts \cup {"settings"}
Caches == Parts \cup {"balancers"}
Rows == Parts \cup {"stamp"}
Kinds == {"routing", "auth", "group", "toggle", "settings", "member"}
Threads == Edits \cup Gateways

\* The tables a handler of each kind may change: routing and auth handlers those
\* that the service they reload reads.
PartsOf(kind) ==
  CASE kind = "routing" -> RoutingParts
    [] kind = "auth" -> AuthParts
    [] kind = "group" -> {"keys"}
    [] kind = "toggle" -> {"channels"}
    [] kind = "settings" -> {"settings"}
    [] kind = "member" -> {"members"}

\* kind[e]: which handler makes the change; part[e], row[e]: the table and the row it
\* writes
\* faulty: pairs <<thread, part>> whose call for the part may fail
\* restarts: bound on the restarts of instances
ASSUME ConfigAssumption ==
  /\ \A s \in Stories :
       /\ DOMAIN s = {"kind", "part", "row", "faulty", "restarts"}
       /\ s.kind \in [Edits -> Kinds] /\ s.part \in [Edits -> Parts]
       /\ s.row \in [Edits -> Nat]
       /\ \A e \in Edits : s.part[e] \in PartsOf(s.kind[e])
       /\ s.faulty \subseteq Threads \X Rows
       /\ s.restarts \in Nat
  /\ Edits \cap Gateways = {}
  /\ MaxFaults \in Nat

VARIABLES
  story,
  db,        \* committed edits that no later edit of the same row has overwritten
  raced,     \* history: edits committed while another one of the same row, made on the
             \* same instance, was committed and not yet applied, and no restart there since
  stamp,     \* config_version
  memory,    \* memory[g][c]: the edits that cache c of instance g reflects
  valid,     \* valid[g]: public_snapshot_valid
  last,      \* last[g]: last_version of the poll loop
  thread,    \* thread[t]: program, next step, instance and local values
  faults, restarts

vars == <<story, db, raced, stamp, memory, valid, last, thread, faults, restarts>>

Kind == story.kind
Part == story.part

-----------------------------------------------------------------------------
(* Programs *)

(* A definition named Mutant... is a plausible bug of the definition that follows  *)
(* it.  No specification uses it: the properties are tested against it.            *)

Op(name) == [op |-> name, part |-> "channels"]
On(name, part) == [op |-> name, part |-> part]

\* RoutingService::reload
ReloadRouting ==
  << Op("invalidate"),
     On("read", "channels"), On("read", "models"), On("read", "rules"),
     On("swap", "channels"), On("swap", "balancers"),
     On("swap", "models"), On("swap", "rules"),
     Op("validate") >>

\* AuthService::reload
ReloadAuth ==
  << On("read", "keys"), On("swap", "keys"),
     On("read", "users"), On("swap", "users"),
     On("read", "members"), On("swap", "members") >>

\* What the handler of an edit does after its checks.
Handler(kind) ==
  CASE kind = "routing" -> << Op("commit") >> \o ReloadRouting \o << Op("notify") >>
    [] kind = "auth" -> << Op("commit") >> \o ReloadAuth \o << Op("notify") >>
    [] kind = "group" -> << Op("commit"), Op("notify") >> \o ReloadAuth
    [] kind = "toggle" -> << Op("commit"), On("apply", "balancers") >>
    [] kind = "settings" -> << Op("commit"), On("apply", "settings") >>
    [] kind = "member" -> << Op("commit") >>

\* the stamp is adopted before the reload that may fail
MutantPollLoop == << Op("check"), Op("adopt") >> \o ReloadRouting \o ReloadAuth

\* One turn of the poll loop.
PollLoop == << Op("check") >> \o ReloadRouting \o << Op("adopt") >> \o ReloadAuth

\* the stored gateway_config is not loaded
MutantStartup == ReloadAuth \o ReloadRouting \o << Op("begin") >>

\* main: gateway_config is read, the services load their caches, and much later
\* the poll task begins.
Startup ==
  << On("read", "settings"), On("swap", "settings") >>
    \o ReloadAuth \o ReloadRouting \o << Op("begin") >>

Program(prog) ==
  CASE prog = "startup" -> Startup
    [] prog = "poll" -> PollLoop
    [] OTHER -> Handler(prog)

-----------------------------------------------------------------------------
(* Threads *)

\* The committed edits of one table.
Stored(part) == {e \in db : Part[e] = part}

\* The gateway_config is one row.  Handlers of different kinds write different rows, or
\* different columns of one.
Row(e) == IF Kind[e] = "settings" THEN 0 ELSE story.row[e]

SameRow(e, f) == Kind[e] = Kind[f] /\ Part[e] = Part[f] /\ Row(e) = Row(f)

\* The edit replaces what was written to its row before.
Overwrite(rows, e) == {f \in rows \cap Edits : ~SameRow(e, f)} \cup {e}

\* What a cache holds after a failed read: nothing, not even what was there before
\* any edit.
Cleared == {"cleared"}

NoView == [p \in Parts |-> {}]

Thread(prog, g) == [prog |-> prog, step |-> 1, at |-> g, view |-> NoView, seen |-> 0]

\* A handler that has not begun is at step 0; one that ended is past its program.
Running(t) == thread[t].step \in 1..Len(Program(thread[t].prog))

Current(t) == Program(thread[t].prog)[thread[t].step]

AtOp(t, name) == Running(t) /\ Current(t).op = name

Up(g) == thread[g].prog = "poll"

\* the poll task ends after one turn
MutantNextStep(t) == thread[t].step + 1

\* The poll loop starts over, a handler ends.
NextStep(t) ==
  IF thread[t].prog = "poll" /\ thread[t].step = Len(PollLoop)
    THEN 1 ELSE thread[t].step + 1

Advance(t) == thread' = [thread EXCEPT ![t].step = NextStep(t)]

\* The table a cache is built from.
SourceOf(cache) == IF cache = "balancers" THEN "channels" ELSE cache

-----------------------------------------------------------------------------

\* The instances are up and their caches loaded; no edit has been made yet.
Init ==
  /\ story \in Stories
  /\ db = {} /\ raced = {} /\ stamp = 0
  /\ memory = [g \in Gateways |-> [c \in Caches |-> {}]]
  /\ valid = [g \in Gateways |-> TRUE]
  /\ last = [g \in Gateways |-> 0]
  /\ \E at \in [Edits -> Gateways] :
       thread = [t \in Threads |-> IF t \in Gateways THEN Thread("poll", t)
                                   ELSE [Thread(Kind[t], at[t]) EXCEPT !.step = 0]]
  /\ faults = 0 /\ restarts = 0

\* A request of an administrator reaches its handler.
Start(e) ==
  /\ thread[e].step = 0
  /\ Up(thread[e].at)
  /\ Advance(e)
  /\ UNCHANGED <<story, db, raced, stamp, memory, valid, last, faults, restarts>>

\* Another handler on the instance of e has committed the row of e and is about to
\* apply it.
Overtakes(e) ==
  \E f \in Edits \ {e} :
    SameRow(e, f) /\ thread[f].at = thread[e].at /\ AtOp(f, "apply")

Commit(e) ==
  /\ AtOp(e, "commit")
  /\ db' = Overwrite(db, e)
  /\ raced' = IF Overtakes(e) THEN raced \cup {e} ELSE raced
  /\ Advance(e)
  /\ UNCHANGED <<story, stamp, memory, valid, last, faults, restarts>>

\* notify_config_changed: the time in milliseconds, taken to be a new value.
Notify(e) ==
  /\ AtOp(e, "notify")
  /\ stamp' = stamp + 1
  /\ Advance(e)
  /\ UNCHANGED <<story, db, raced, memory, valid, last, faults, restarts>>

\* set_endpoint_enabled, or the assignment of the new gateway_config: this
\* instance's copy only, with the value of this request whatever was written since.
Apply(e) ==
  /\ AtOp(e, "apply")
  /\ memory' = [memory EXCEPT ![thread[e].at][Current(e).part] = Overwrite(@, e)]
  /\ Advance(e)
  /\ UNCHANGED <<story, db, raced, stamp, valid, last, faults, restarts>>

-----------------------------------------------------------------------------
(* The steps of a reload *)

Invalidate(t) ==
  /\ AtOp(t, "invalidate")
  /\ valid' = [valid EXCEPT ![thread[t].at] = FALSE]
  /\ Advance(t)
  /\ UNCHANGED <<story, db, raced, stamp, memory, last, faults, restarts>>

Read(t) ==
  LET part == Current(t).part IN
  /\ AtOp(t, "read")
  /\ thread' = [thread EXCEPT ![t].view[part] = Stored(part), ![t].step = NextStep(t)]
  /\ UNCHANGED <<story, db, raced, stamp, memory, valid, last, faults, restarts>>

\* The poll loop waits for its next tick, a process that cannot start is started
\* again, a handler answers with the error.
AfterError(t) ==
  IF thread[t].prog \in {"poll", "startup"} THEN 1 ELSE Len(Program(thread[t].prog)) + 1

\* A failed read of a routing table ends the reload.  After a failed read of an auth
\* table its cache is cleared and the reload goes on, as startup goes on with the
\* default gateway_config.  A bump of config_version that failed is logged.
Fail(t) ==
  LET part == IF AtOp(t, "notify") THEN "stamp" ELSE Current(t).part IN
  /\ Running(t)
  /\ Current(t).op \in {"read", "notify"}
  /\ <<t, part>> \in story.faulty
  /\ faults < MaxFaults
  /\ faults' = faults + 1
  /\ thread' =
       CASE part = "stamp" -> [thread EXCEPT ![t].step = NextStep(t)]
         [] part \in RoutingParts -> [thread EXCEPT ![t].step = AfterError(t)]
         [] OTHER -> [thread EXCEPT ![t].view[part] = Cleared, ![t].step = NextStep(t)]
  /\ UNCHANGED <<story, db, raced, stamp, memory, valid, last, restarts>>

Swap(t) ==
  LET cache == Current(t).part IN
  /\ AtOp(t, "swap")
  /\ memory' = [memory EXCEPT ![thread[t].at][cache] = thread[t].view[SourceOf(cache)]]
  /\ Advance(t)
  /\ UNCHANGED <<story, db, raced, stamp, valid, last, faults, restarts>>

Validate(t) ==
  /\ AtOp(t, "validate")
  /\ valid' = [valid EXCEPT ![thread[t].at] = TRUE]
  /\ Advance(t)
  /\ UNCHANGED <<story, db, raced, stamp, memory, last, faults, restarts>>

-----------------------------------------------------------------------------
(* The poll loop and the life of an instance *)

\* `current != last_version`; an unchanged stamp ends the turn.
Check(g) ==
  /\ AtOp(g, "check")
  /\ stamp # last[g]
  /\ thread' = [thread EXCEPT ![g].seen = stamp, ![g].step = NextStep(g)]
  /\ UNCHANGED <<story, db, raced, stamp, memory, valid, last, faults, restarts>>

\* the stamp is read again instead of the one the reload was started for
MutantAdopt(g) ==
  /\ AtOp(g, "adopt")
  /\ last' = [last EXCEPT ![g] = stamp]
  /\ Advance(g)
  /\ UNCHANGED <<story, db, raced, stamp, memory, valid, faults, restarts>>

\* last_version = current
Adopt(g) ==
  /\ AtOp(g, "adopt")
  /\ last' = [last EXCEPT ![g] = thread[g].seen]
  /\ Advance(g)
  /\ UNCHANGED <<story, db, raced, stamp, memory, valid, faults, restarts>>

\* "Initialize to current version so we don't reload on startup"
Begin(g) ==
  /\ AtOp(g, "begin")
  /\ last' = [last EXCEPT ![g] = stamp]
  /\ thread' = [thread EXCEPT ![g] = Thread("poll", g)]
  /\ UNCHANGED <<story, db, raced, stamp, memory, valid, faults, restarts>>

\* The process ends, and a new one begins; handlers running on it are cut off.
Restart(g) ==
  /\ restarts < story.restarts
  /\ Up(g)
  /\ restarts' = restarts + 1
  /\ raced' = {e \in raced : thread[e].at # g}
  /\ memory' = [memory EXCEPT ![g] = [c \in Caches |-> {}]]
  /\ valid' = [valid EXCEPT ![g] = FALSE]
  /\ thread' = [t \in Threads |->
                  IF t = g THEN Thread("startup", g)
                  ELSE IF thread[t].at = g /\ t \in Edits /\ thread[t].step > 0
                    THEN [thread[t] EXCEPT !.step = Len(Program(thread[t].prog)) + 1]
                  ELSE thread[t]]
  /\ UNCHANGED <<story, db, stamp, last, faults>>

-----------------------------------------------------------------------------
(* Specification *)

Step(t) ==
  \/ Commit(t) \/ Notify(t) \/ Apply(t)
  \/ Invalidate(t) \/ Read(t) \/ Swap(t) \/ Validate(t)
  \/ Check(t) \/ Adopt(t) \/ Begin(t)

Next ==
  \/ \E e \in Edits : Start(e)
  \/ \E t \in Threads : Step(t) \/ Fail(t)
  \/ \E g \in Gateways : Restart(g)

Spec == Init /\ [][Next]_vars

\* Tokio runs every task, and a call that fails only sometimes returns in the end.
FairSpec == Spec /\ \A t \in Threads : WF_vars(Step(t))

-----------------------------------------------------------------------------
(* Properties *)

ThreadState ==
  [prog: Kinds \cup {"poll", "startup"}, step: Nat, at: Gateways,
   view: [Parts -> SUBSET (Edits \cup Cleared)], seen: Nat]

\* Every thread is inside its program; the poll loop never runs off its end.
TypeOK ==
  /\ story \in Stories
  /\ db \subseteq Edits /\ raced \subseteq Edits
  /\ stamp \in Nat
  /\ memory \in [Gateways -> [Caches -> SUBSET (Edits \cup Cleared)]]
  /\ valid \in [Gateways -> BOOLEAN]
  /\ last \in [Gateways -> Nat]
  /\ thread \in [Threads -> ThreadState]
  /\ \A t \in Threads : thread[t].step <= Len(Program(thread[t].prog)) + 1
  /\ \A g \in Gateways : Running(g)
  /\ faults \in Nat /\ restarts \in Nat

\* The caches of g are what the database holds.  A toggle lives in the balancers;
\* the channel list next to them is not consulted for it.
Synced(g) ==
  /\ valid[g]
  /\ \A p \in Parts \ {"channels"} : memory[g][p] = Stored(p)
  /\ memory[g]["balancers"] = Stored("channels")
  /\ {e \in Stored("channels") : Kind[e] # "toggle"} \subseteq memory[g]["channels"]

\* The poll loop of g has nothing to do.
CaughtUp(g) == thread[g].prog = "poll" /\ thread[g].step = 1 /\ last[g] = stamp

HandlersIdle == \A e \in Edits : ~Running(e)

\* The changes are those of handlers that bump config_version; nobody is told of a
\* toggle, of settings and of members.
Announced == \A e \in Edits : Kind[e] \in {"routing", "auth", "group"}

\* What the poll loop can make good: handlers that bump config_version once they have
\* reloaded, instances that stay up, and no failure but in the loop's own reads of
\* the routing tables.
Orderly ==
  /\ \A e \in Edits : Kind[e] \in {"routing", "auth"}
  /\ story.restarts = 0
  /\ story.faulty \subseteq Gateways \X RoutingParts

\* Nobody is told of any change, and the stored settings can be read.
Unannounced ==
  /\ \A e \in Edits : Kind[e] \in {"toggle", "settings", "member"}
  /\ \A t \in Threads : <<t, "settings">> \notin story.faulty

\* "poll config_version; when it changes ... reload the in-memory caches so all
\* instances converge" (main.rs): when the handlers have returned and the poll loop
\* sees no new stamp, the caches are up to date.  Overlapping reloads may overwrite
\* newer contents with older ones; the stamp that follows a handler's reload makes the
\* instance read again.  The billing group handler bumps the stamp before its reload.
SyncedWhenQuiet ==
  Announced => \A g \in Gateways : HandlersIdle /\ CaughtUp(g) => Synced(g)

\* An endpoint toggle or a new gateway_config that is stored is in force on the instance
\* that served the administrator, also after a restart ("disabled_endpoint_is_never_
\* available", balancer/mod.rs), unless it was committed between the commit and the
\* assignment of another request for the same row there: the other value is then
\* assigned last and stays in memory until the instance restarts.
AppliedAtHome ==
  \A e \in db \ raced :
    LET g == thread[e].at IN
    Kind[e] \in {"toggle", "settings"} /\ HandlersIdle /\ CaughtUp(g)
      => e \in memory[g][IF Kind[e] = "toggle" THEN "balancers" ELSE "settings"]

\* After the last change every instance converges and stays so.
Converges == Announced => <>[](\A g \in Gateways : Synced(g))
=============================================================================
