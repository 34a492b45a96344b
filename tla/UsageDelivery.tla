---------------------------- MODULE UsageDelivery ----------------------------
(***************************************************************************)
(* What the gateway promises about the usage record of a request (the doc  *)
(* comments of src/src/cache/mod.rs, "Billing backlog"): the record is in  *)
(* the memory of an instance until it is either written to PostgreSQL or   *)
(* stored in the Redis stream; what the stream holds stays there until it  *)
(* is written; nothing is written twice; and a record disappears only with *)
(* the memory of an instance that stops.                                   *)
(***************************************************************************)
EXTENDS Naturals

CONSTANT Records

VARIABLES
  place,     \* place[r]: where the record is
  written,   \* written[r]: how often it took effect in PostgreSQL
  ends       \* how often an instance crashed or was shut down

Places == {"unsent", "memory", "stream", "billed", "lost"}

Init ==
  /\ place = [r \in Records |-> "unsent"]
  /\ written = [r \in Records |-> 0]
  /\ ends = 0

\* All of S, found in one of the places `from`, goes to `to`.
Move(S, from, to) ==
  /\ \A r \in S : place[r] \in from
  /\ place' = [r \in Records |-> IF r \in S THEN to ELSE place[r]]

Emit(S) == Move(S, {"unsent"}, "memory") /\ UNCHANGED <<written, ends>>

Store(S) == Move(S, {"memory"}, "stream") /\ UNCHANGED <<written, ends>>

Bill(S) ==
  /\ Move(S, {"memory", "stream"}, "billed")
  /\ written' = [r \in Records |-> IF r \in S THEN written[r] + 1 ELSE written[r]]
  /\ UNCHANGED ends

End(S) == Move(S, {"memory"}, "lost") /\ ends' = ends + 1 /\ UNCHANGED written

Next == \E S \in SUBSET Records : Emit(S) \/ Store(S) \/ Bill(S) \/ End(S)

Spec == Init /\ [][Next]_<<place, written, ends>>
=============================================================================
