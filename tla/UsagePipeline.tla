---------------------------- MODULE UsagePipeline ----------------------------
(***************************************************************************)
(* How the usage record of a finished request reaches PostgreSQL: the      *)
(* bounded channels and billing workers of every gateway instance          *)
(* (src/src/service/usage.rs), the Redis stream billing:backlog they fall  *)
(* back to, and the drain loop every instance runs on it                   *)
(* (src/src/cache/mod.rs).                                                 *)
(*                                                                         *)
(* The PostgreSQL transaction batch_insert_usage_with_billing is atomic;   *)
(* it is modelled in TokenBilling and seen here as: all records of the     *)
(* batch are written, those whose row is new take effect, or nothing is.   *)
(* Any call may fail, and it may fail after it took effect.                *)
(***************************************************************************)
EXTENDS Integers, Sequences, FiniteSets, Functions

CONSTANTS
  Records,      \* usage records, by request id
  Workers,      \* billing workers of all instances, N_BILLING_WORKERS each
  Gateways,     \* gateway instances
  GatewayOf,    \* GatewayOf[w]: the instance that runs worker w
  ShardOf,      \* ShardOf[r]: the worker of r's user on the instance serving r
  ChannelCap,   \* BILLING_CHANNEL_CAP
  BatchMax,     \* records of one batch, 100 in the code
  ReadCount,    \* entries of one read of the stream, 100 in the code
  Poison,       \* records PostgreSQL never accepts (an unfunded wallet)
  MaxUnclear,   \* bound on the calls that fail after they took effect
  MaxCrashes,   \* bound on the crashes
  MaxStops      \* bound on the orderly shutdowns

ASSUME PipelineAssumption ==
  /\ GatewayOf \in [Workers -> Gateways]
  /\ ShardOf \in [Records -> Workers]
  /\ ChannelCap \in Nat \ {0} /\ BatchMax \in Nat \ {0} /\ ReadCount \in Nat \ {0}
  /\ Poison \subseteq Records
  /\ MaxUnclear \in Nat /\ MaxCrashes \in Nat /\ MaxStops \in Nat

VARIABLES
  emitted,    \* records handed to record_with_endpoint
  channel,    \* channel[w]: the mpsc channel of worker w
  batch,      \* batch[w]: the records worker w has taken out
  pc,         \* pc[w]: where worker w is in its loop
  overflow,   \* records owned by the tasks spawned when a channel was full
  stream,     \* billing:backlog, a set of entries ordered by id
  nextId,     \* id of the next stream entry
  drain,      \* drain[g]: the drain loop of instance g
  writable,   \* records PostgreSQL accepts: settled, and the wallet can pay
  billed,     \* records with a committed billing row
  written,    \* written[r]: how often r took effect in PostgreSQL
  unclear,    \* calls that failed after they took effect
  crashes, stops

vars == <<emitted, channel, batch, pc, overflow, stream, nextId, drain,
          writable, billed, written, unclear, crashes, stops>>

-----------------------------------------------------------------------------
(* Helpers *)

(* A definition named Mutant... is a plausible bug of the definition that follows  *)
(* it.  No specification uses it: the properties are tested against it.            *)

Workplaces(g) == {w \in Workers : GatewayOf[w] = g}

IdleDrain == [pc |-> "idle", todo |-> {}, done |-> {}]

Entry == [id: Nat, rec: Records]

\* The first n entries of S, and the very first.
Oldest(S, n) == {e \in S : Cardinality({f \in S : f.id < e.id}) < n}
First(S) == {e \in S : \A f \in S : e.id <= f.id}

InStream(r) == \E e \in stream : e.rec = r

InMemory(r) ==
  \/ r \in overflow
  \/ \E w \in Workers : r \in Range(channel[w]) \cup Range(batch[w])

-----------------------------------------------------------------------------

Init ==
  /\ emitted = {} /\ overflow = {} /\ writable = {} /\ billed = {}
  /\ channel = [w \in Workers |-> <<>>]
  /\ batch = [w \in Workers |-> <<>>]
  /\ pc = [w \in Workers |-> "recv"]
  /\ stream = {} /\ nextId = 1
  /\ drain = [g \in Gateways |-> IdleDrain]
  /\ written = [r \in Records |-> 0]
  /\ unclear = 0 /\ crashes = 0 /\ stops = 0

\* The settlement of r commits, or its wallet is topped up.
BecomeWritable(r) ==
  /\ r \notin writable \cup Poison
  /\ writable' = writable \cup {r}
  /\ UNCHANGED <<emitted, channel, batch, pc, overflow, stream, nextId, drain,
                 billed, written, unclear, crashes, stops>>

-----------------------------------------------------------------------------
(* record_with_endpoint *)

\* a record that finds its channel full is dropped
MutantEmit(r) ==
  /\ r \notin emitted
  /\ emitted' = emitted \cup {r}
  /\ IF Len(channel[ShardOf[r]]) < ChannelCap
       THEN channel' = [channel EXCEPT ![ShardOf[r]] = Append(@, r)]
       ELSE UNCHANGED channel
  /\ UNCHANGED <<batch, pc, overflow, stream, nextId, drain, writable, billed, written,
                 unclear, crashes, stops>>

\* try_send; a full channel hands the record to a task of its own.
Emit(r) ==
  LET w == ShardOf[r] IN
  /\ r \notin emitted
  /\ emitted' = emitted \cup {r}
  /\ \/ Len(channel[w]) < ChannelCap
        /\ channel' = [channel EXCEPT ![w] = Append(@, r)]
        /\ UNCHANGED overflow
     \/ Len(channel[w]) = ChannelCap
        /\ overflow' = overflow \cup {r}
        /\ UNCHANGED channel
  /\ UNCHANGED <<batch, pc, stream, nextId, drain, writable, billed, written,
                 unclear, crashes, stops>>

-----------------------------------------------------------------------------
(* The two calls that may fail after they took effect *)

\* Outcomes of a call: it succeeds, it fails, or it fails but took effect.
Outcomes == {"ok", "failed", "unclear"}

Effective(outcome) == outcome \in {"ok", "unclear"}

Unclear(outcome) ==
  /\ outcome = "unclear" => unclear < MaxUnclear
  /\ unclear' = IF outcome = "unclear" THEN unclear + 1 ELSE unclear

\* the writer does not look for an existing row
MutantNewRows(rs) == rs

\* ON CONFLICT (request_id): only a new row takes effect.
NewRows(rs) == rs \ billed

\* batch_insert_usage_with_billing
WriteRows(rs, outcome) ==
  /\ Effective(outcome) => rs \subseteq writable
  /\ Unclear(outcome)
  /\ IF Effective(outcome)
       THEN /\ billed' = billed \cup rs
            /\ written' = [r \in Records |->
                             IF r \in NewRows(rs) THEN written[r] + 1 ELSE written[r]]
       ELSE UNCHANGED <<billed, written>>

\* One XADD of backlog_billing_record_reliably.
AddToStream(r, outcome) ==
  /\ Unclear(outcome)
  /\ IF Effective(outcome)
       THEN /\ stream' = stream \cup {[id |-> nextId, rec |-> r]}
            /\ nextId' = nextId + 1
       ELSE UNCHANGED <<stream, nextId>>

-----------------------------------------------------------------------------
(* billing_worker *)

\* The first record of a batch is waited for, the others are taken while they come.
Take(w) ==
  /\ pc[w] \in {"recv", "gather"}
  /\ channel[w] # <<>>
  /\ Len(batch[w]) < BatchMax
  /\ batch' = [batch EXCEPT ![w] = Append(@, Head(channel[w]))]
  /\ channel' = [channel EXCEPT ![w] = Tail(@)]
  /\ pc' = [pc EXCEPT ![w] = "gather"]
  /\ UNCHANGED <<emitted, overflow, stream, nextId, drain, writable, billed,
                 written, unclear, crashes, stops>>

\* The batch is full or ten milliseconds are over; then the billing switch is read.
\* Without it the batch goes to the backlog.
CloseBatch(w, configRead) ==
  /\ pc[w] = "gather"
  /\ pc' = [pc EXCEPT ![w] = IF configRead THEN "write" ELSE "backlog"]
  /\ UNCHANGED <<emitted, channel, batch, overflow, stream, nextId, drain,
                 writable, billed, written, unclear, crashes, stops>>

WriteBatch(w, outcome) ==
  /\ pc[w] = "write"
  /\ WriteRows(Range(batch[w]), outcome)
  /\ IF outcome = "ok"
       THEN batch' = [batch EXCEPT ![w] = <<>>] /\ pc' = [pc EXCEPT ![w] = "recv"]
       ELSE pc' = [pc EXCEPT ![w] = "backlog"] /\ UNCHANGED batch
  /\ UNCHANGED <<emitted, channel, overflow, stream, nextId, drain, writable,
                 crashes, stops>>

\* One by one, each again and again until an XADD is confirmed.
Backlog(w, outcome) ==
  /\ pc[w] = "backlog"
  /\ AddToStream(Head(batch[w]), outcome)
  /\ IF outcome = "ok"
       THEN /\ batch' = [batch EXCEPT ![w] = Tail(@)]
            /\ pc' = [pc EXCEPT ![w] = IF Len(batch[w]) = 1 THEN "recv" ELSE "backlog"]
       ELSE UNCHANGED <<batch, pc>>
  /\ UNCHANGED <<emitted, channel, overflow, drain, writable, billed, written,
                 crashes, stops>>

\* The task of a record whose channel was full.
BacklogOverflow(r, outcome) ==
  /\ r \in overflow
  /\ AddToStream(r, outcome)
  /\ overflow' = IF outcome = "ok" THEN overflow \ {r} ELSE overflow
  /\ UNCHANGED <<emitted, channel, batch, pc, drain, writable, billed, written,
                 crashes, stops>>

-----------------------------------------------------------------------------
(* start_billing_backlog_drain *)

\* XREAD COUNT n from the beginning of the stream.
DrainRead(g) ==
  /\ drain[g].pc = "idle"
  /\ stream # {}
  /\ drain' = [drain EXCEPT ![g] =
                 [pc |-> "write", todo |-> Oldest(stream, ReadCount), done |-> {}]]
  /\ UNCHANGED <<emitted, channel, batch, pc, overflow, stream, nextId, writable,
                 billed, written, unclear, crashes, stops>>

AfterWrite(todo, done) ==
  [pc |-> IF todo # {} THEN "write" ELSE IF done # {} THEN "ack" ELSE "idle",
   todo |-> todo, done |-> done]

\* the first entry that fails ends the pass
MutantBreakingDrainWrite(g, outcome) ==
  /\ drain[g].pc = "write"
  /\ \E entry \in First(drain[g].todo) :
       LET todo == drain[g].todo \ {entry}
           done == drain[g].done
       IN  /\ WriteRows({entry.rec}, outcome)
           /\ drain' = [drain EXCEPT ![g] =
                          IF outcome = "ok" THEN AfterWrite(todo, done \cup {entry})
                                            ELSE AfterWrite({}, done)]
  /\ UNCHANGED <<emitted, channel, batch, pc, overflow, stream, nextId, writable,
                 crashes, stops>>

\* One entry on its own; when the switch cannot be read or the write fails it is
\* left for the next pass.
DrainWrite(g, outcome) ==
  /\ drain[g].pc = "write"
  /\ \E entry \in First(drain[g].todo) :
       LET todo == drain[g].todo \ {entry}
           done == drain[g].done
       IN  /\ WriteRows({entry.rec}, outcome)
           /\ drain' = [drain EXCEPT ![g] =
                          AfterWrite(todo, IF outcome = "ok" THEN done \cup {entry} ELSE done)]
  /\ UNCHANGED <<emitted, channel, batch, pc, overflow, stream, nextId, writable,
                 crashes, stops>>

\* One XDEL of ack_billing_backlog.  The entry may be gone already: another
\* instance drains the same stream.  An error ends the acknowledgement.
DrainAck(g, outcome) ==
  /\ drain[g].pc = "ack"
  /\ Unclear(outcome)
  /\ \E entry \in First(drain[g].done) :
       LET rest == drain[g].done \ {entry}
       IN  /\ stream' = IF Effective(outcome) THEN stream \ {entry} ELSE stream
           /\ drain' = [drain EXCEPT ![g] =
                IF outcome = "ok" /\ rest # {} THEN [@ EXCEPT !.done = rest] ELSE IdleDrain]
  /\ UNCHANGED <<emitted, channel, batch, pc, overflow, nextId, writable, billed,
                 written, crashes, stops>>

-----------------------------------------------------------------------------
(* The end of an instance, and its restart *)

\* Channels, batches, tasks and the drain's list go with the process.  A task of
\* the overflow belongs to the instance of its record.
LoseMemory(g) ==
  /\ channel' = [w \in Workers |-> IF w \in Workplaces(g) THEN <<>> ELSE channel[w]]
  /\ batch' = [w \in Workers |-> IF w \in Workplaces(g) THEN <<>> ELSE batch[w]]
  /\ pc' = [w \in Workers |-> IF w \in Workplaces(g) THEN "recv" ELSE pc[w]]
  /\ overflow' = {r \in overflow : GatewayOf[ShardOf[r]] # g}
  /\ drain' = [drain EXCEPT ![g] = IdleDrain]
  /\ UNCHANGED <<emitted, stream, nextId, writable, billed, written, unclear>>

Crash(g) ==
  /\ crashes < MaxCrashes
  /\ crashes' = crashes + 1
  /\ LoseMemory(g)
  /\ UNCHANGED stops

\* SIGTERM: the server drains its connections, then main aborts the workers.
Stop(g) ==
  /\ stops < MaxStops
  /\ stops' = stops + 1
  /\ LoseMemory(g)
  /\ UNCHANGED crashes

-----------------------------------------------------------------------------
(* Specification *)

RecordStep == \E r \in Records : Emit(r) \/ BecomeWritable(r)

WorkerStep ==
  \E w \in Workers :
    \/ Take(w)
    \/ \E configRead \in BOOLEAN : CloseBatch(w, configRead)
    \/ \E outcome \in Outcomes : WriteBatch(w, outcome) \/ Backlog(w, outcome)

OverflowStep == \E r \in Records, outcome \in Outcomes : BacklogOverflow(r, outcome)

DrainStep ==
  \E g \in Gateways :
    \/ DrainRead(g)
    \/ \E outcome \in Outcomes : DrainWrite(g, outcome) \/ DrainAck(g, outcome)

EndStep == \E g \in Gateways : Crash(g) \/ Stop(g)

Next == RecordStep \/ WorkerStep \/ OverflowStep \/ DrainStep \/ EndStep

Spec == Init /\ [][Next]_vars

\* One drain pass tries every entry it read, and PostgreSQL does not refuse a
\* writable record for ever.
DrainsRecord(g, r) ==
  /\ drain[g].pc = "write"
  /\ \E entry \in First(drain[g].todo) : entry.rec = r
  /\ DrainWrite(g, "ok")

\* Tokio runs the tasks (WF); a call that is tried again and again succeeds in the
\* end, and so does a first XDEL after a pass (SF).
Fairness ==
  /\ \A r \in Records :
       /\ WF_vars(BecomeWritable(r))
       /\ SF_vars(BacklogOverflow(r, "ok"))
  /\ \A w \in Workers :
       /\ WF_vars(Take(w))
       /\ WF_vars(\E configRead \in BOOLEAN : CloseBatch(w, configRead))
       /\ WF_vars(\E outcome \in Outcomes : WriteBatch(w, outcome))
       /\ SF_vars(Backlog(w, "ok"))
  /\ \A g \in Gateways :
       /\ WF_vars(DrainRead(g))
       /\ WF_vars(\E outcome \in Outcomes : DrainWrite(g, outcome))
       /\ SF_vars(DrainAck(g, "ok"))
       /\ \A r \in Records : SF_vars(DrainsRecord(g, r))

FairSpec == Spec /\ Fairness

-----------------------------------------------------------------------------
(* Properties *)

DrainState == [pc: {"idle", "write", "ack"}, todo: SUBSET Entry, done: SUBSET Entry]

\* Channels and batches stay within their limits; ids and counters are numbers.
TypeOK ==
  /\ emitted \subseteq Records /\ overflow \subseteq Records
  /\ writable \subseteq Records /\ billed \subseteq Records
  /\ channel \in [Workers -> Seq(Records)]
  /\ batch \in [Workers -> Seq(Records)]
  /\ \A w \in Workers : Len(channel[w]) <= ChannelCap /\ Len(batch[w]) <= BatchMax
  /\ pc \in [Workers -> {"recv", "gather", "write", "backlog"}]
  /\ stream \subseteq Entry
  /\ nextId \in Nat
  /\ drain \in [Gateways -> DrainState]
  /\ written \in [Records -> Nat]
  /\ unclear \in Nat /\ crashes \in Nat /\ stops \in Nat

\* A record is charged at most once, and exactly once when its row is there: not
\* when an XADD timed out and was repeated, not when a commit was reported as
\* failed, not when two instances drain the same entry.
ChargedOnce == \A r \in Records : written[r] = (IF r \in billed THEN 1 ELSE 0)

\* "Records are removed only by ack_billing_backlog after the PG transaction has
\* committed": no entry leaves the stream before its record is billed, whichever
\* instance wrote it and whichever acknowledges.
OnlyBilledLeave == [][\A e \in stream \ stream' : e.rec \in billed]_vars

\* Where a record is, in the terms of UsageDelivery.
Place(r) ==
  IF r \notin emitted THEN "unsent"
  ELSE IF r \in billed THEN "billed"
  ELSE IF InStream(r) THEN "stream"
  ELSE IF InMemory(r) THEN "memory"
  ELSE "lost"

Delivery ==
  INSTANCE UsageDelivery
    WITH place <- [r \in Records |-> Place(r)], ends <- crashes + stops

\* The pipeline keeps the promise of UsageDelivery: at every moment of its life a
\* record is in a channel, in a batch, with a task, in the stream or written, and
\* it goes from one to the next without a gap; what the stream has is never lost.
DeliveryHolds == Delivery!Spec

\* A record that PostgreSQL can accept is billed in the end unless its instance
\* ended first, even when other records are refused for ever.
EventuallyBilled ==
  \A r \in Records \ Poison :
    r \in emitted ~> Place(r) \in {"billed", "lost"}

\* "Graceful shutdown: on SIGTERM/SIGINT, stop accepting new connections, drain
\* in-flight requests, then exit" (main.rs): without a crash nothing is lost.
OrderlyStopKeepsRecords ==
  crashes = 0 => \A r \in Records : Place(r) # "lost"
=============================================================================
