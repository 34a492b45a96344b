------------------------- MODULE FlowRegistryProofs -------------------------
(***************************************************************************)
(* Proofs about FlowRegistry for any requests, gateways and attempts: no   *)
(* request returns to the registry, none in it is missing from the index,  *)
(* and what it shows is where the request is once its tasks have run.      *)
(***************************************************************************)
EXTENDS FlowRegistry, TLAPS

\* Before its acceptance a request is nowhere.
Unborn(r) ==
  stage[r] = "none" =>
    /\ local[r] = None /\ tasks[r] = {} /\ key[r] = None /\ tomb[r] = 0
    /\ r \notin gone /\ r \notin failed

\* While a handler waits its entry is in memory, and its number counts its calls.
Held(r) ==
  /\ stage[r] \in {"accepted", "generating"} =>
       /\ local[r] # None
       /\ local[r].seq <= Attempts[r] + 1
  /\ stage[r] \in States /\ local[r] # None => local[r].state = stage[r]
  /\ stage[r] \in {"over", "closed"} => local[r] = None
  /\ stage[r] = "outputting" /\ local[r] = None => tasks[r] = {}

\* No write under way is newer than the entry in memory, and the one of its number is
\* its own.
Older(r) ==
  /\ key[r] # None => key[r].seq <= 5 /\ (local[r] # None => key[r].seq <= local[r].seq)
  /\ \A t \in tasks[r] : t.op = "set" =>
       /\ t.seq <= 5
       /\ local[r] # None =>
            t.seq <= local[r].seq /\ (t.seq = local[r].seq => t.state = local[r].state)

\* A removal is the newest of what its request sends.
Last(r) ==
  \A t \in tasks[r] : t.op = "remove" =>
    /\ stage[r] \in {"over", "closed"}
    /\ key[r] # None => key[r].seq < t.seq
    /\ \A s \in tasks[r] : s.op = "set" => s.seq < t.seq

\* What has left the registry is out of reach of every write still under way.
Barred(r) ==
  /\ tomb[r] # 0 => stage[r] \in {"over", "closed", "left"}
  /\ r \in gone =>
       /\ key[r] = None
       /\ stage[r] \notin {"none", "accepted", "generating"}
       /\ \A t \in tasks[r] : t.op = "set" => t.seq <= tomb[r]

\* The registry shows the present mark, or the task that will show it is under way.
Current(r) ==
  r \notin gone \cup failed =>
    /\ stage[r] \in States /\ local[r] # None =>
         \/ key[r] = local[r]
         \/ /\ [op |-> "set", state |-> local[r].state, seq |-> local[r].seq] \in tasks[r]
            /\ key[r] # None => key[r].seq < local[r].seq
    /\ stage[r] = "outputting" /\ local[r] = None =>
         key[r] # None /\ key[r].state = "outputting"
    /\ stage[r] \in {"over", "closed"} => \E t \in tasks[r] : t.op = "remove"

\* A name in the index or in a snapshot is of a request in the registry, or of one that
\* has left it; the cleanup has only the latter.
Named(r) ==
  /\ r \in index \cup reader.names => key[r] # None \/ r \in gone
  /\ r \in reader.names /\ reader.at = "cleanup" => r \in gone
  /\ key[r] # None => r \in index

Good(r) ==
  /\ Unborn(r) /\ Held(r) /\ Older(r) /\ Last(r)
  /\ Barred(r) /\ Current(r) /\ Named(r)

\* The inductive invariant.
IInv == TypeOK /\ \A r \in Requests : Good(r)

USE RegistryAssumption DEF Latest, States

-----------------------------------------------------------------------------
(* A step about one request leaves the others as they are *)

Untouched(q) ==
  /\ stage'[q] = stage[q] /\ local'[q] = local[q] /\ tasks'[q] = tasks[q]
  /\ key'[q] = key[q] /\ tomb'[q] = tomb[q]
  /\ q \in gone' <=> q \in gone
  /\ q \in failed' <=> q \in failed
  /\ q \in index' <=> q \in index
  /\ reader' = reader

LEMMA Frame ==
  ASSUME NEW q \in Requests, Good(q), Untouched(q)
  PROVE  Good(q)'
BY DEF Good, Untouched, Unborn, Held, Older, Last, Barred, Current, Named

LEMMA GoodParts ==
  ASSUME NEW q \in Requests, Good(q)
  PROVE  Unborn(q) /\ Held(q) /\ Older(q) /\ Last(q) /\ Barred(q) /\ Current(q) /\ Named(q)
BY DEF Good

LEMMA InitOK == Init => IInv
<1> SUFFICES ASSUME Init PROVE IInv
  OBVIOUS
<1>1. TypeOK
  BY DEF Init, TypeOK, Idle
<1>2. ASSUME NEW r \in Requests PROVE Good(r)
  BY DEF Init, Idle, Good, Unborn, Held, Older, Last, Barred, Current, Named
<1> QED
  BY <1>1, <1>2 DEF IInv

-----------------------------------------------------------------------------
(* The marks *)

\* what a mark writes
LEMMA PersistTypes ==
  ASSUME TypeOK, NEW r \in Requests, NEW st \in States, NEW n \in 1 .. 5,
         Persist(r, [state |-> st, seq |-> n])
  PROVE  /\ local' \in [Requests -> [state : States, seq : 1 .. 5] \cup {None}]
         /\ tasks' \in [Requests -> SUBSET Tasks]
         /\ local'[r] = [state |-> st, seq |-> n]
         /\ tasks'[r] = tasks[r] \cup {[op |-> "set", state |-> st, seq |-> n]}
         /\ \A q \in Requests \ {r} : local'[q] = local[q] /\ tasks'[q] = tasks[q]
<1>1. [op |-> "set", state |-> st, seq |-> n] \in Tasks
  BY DEF Tasks
<1>2. [state |-> st, seq |-> n] \in [state : States, seq : 1 .. 5]
  OBVIOUS
<1> QED
  BY <1>1, <1>2 DEF Persist, TypeOK

LEMMA EntryIsNotNone ==
  ASSUME NEW st \in States, NEW n \in 1 .. 5 PROVE [state |-> st, seq |-> n] # None
<1>1. [state |-> st, seq |-> n] \in Entries
  BY DEF Entries
<1> QED
  BY <1>1

LEMMA MarkAcceptedOK ==
  ASSUME IInv, NEW r \in Requests, MarkAccepted(r) PROVE IInv'
<1> DEFINE e == [state |-> "accepted", seq |-> 1]
<1>0. TypeOK /\ Good(r)
  BY DEF IInv
<1>1. Persist(r, [state |-> "accepted", seq |-> 1])
  BY DEF MarkAccepted
<1>2. /\ local' \in [Requests -> [state : States, seq : 1 .. 5] \cup {None}]
      /\ tasks' \in [Requests -> SUBSET Tasks]
      /\ local'[r] = [state |-> "accepted", seq |-> 1]
      /\ tasks'[r] = tasks[r] \cup {[op |-> "set", state |-> "accepted", seq |-> 1]}
      /\ \A q \in Requests \ {r} : local'[q] = local[q] /\ tasks'[q] = tasks[q]
  BY <1>0, <1>1, PersistTypes
<1>3. stage'[r] = "accepted" /\ \A q \in Requests \ {r} : stage'[q] = stage[q]
  BY <1>0 DEF MarkAccepted, TypeOK
<1>4. TypeOK'
  BY <1>0, <1>2 DEF MarkAccepted, TypeOK, redisVars
<1>5. stage[r] = "none" /\ Unborn(r) /\ Named(r) /\ Attempts[r] \in 0 .. 3
  BY <1>0, GoodParts DEF MarkAccepted
<1>6. UNCHANGED <<key, tomb, index, reader, gone, failed>>
  BY DEF MarkAccepted, redisVars
<1>7. e # None
  BY EntryIsNotNone
<1>8. Good(r)'
  BY <1>2, <1>3, <1>5, <1>6, <1>7
     DEF Good, Unborn, Held, Older, Last, Barred, Current, Named
<1>9. ASSUME NEW q \in Requests, q # r PROVE Good(q)'
  BY <1>2, <1>3, <1>6, <1>9, Frame DEF IInv, Untouched
<1> QED
  BY <1>4, <1>8, <1>9 DEF IInv

\* A later mark of a request whose entry is in memory.
LEMMA NextMarkOK ==
  ASSUME IInv, NEW r \in Requests, NEW st \in {"generating", "outputting"},
         stage[r] \in {"accepted", "generating"},
         st = "generating" => local[r].seq <= Attempts[r],
         stage' = [stage EXCEPT ![r] = st], NextMark(r, st),
         UNCHANGED <<redisVars, reader, gone, failed>>
  PROVE  IInv'
<1> DEFINE n == local[r].seq + 1
<1>0. TypeOK /\ Good(r)
  BY DEF IInv
<1>a. Unborn(r) /\ Held(r) /\ Older(r) /\ Last(r) /\ Barred(r) /\ Current(r) /\ Named(r)
  BY <1>0, GoodParts
<1>b. Attempts[r] \in 0 .. 3
  OBVIOUS
<1>c. /\ local[r] # None /\ local[r].seq <= Attempts[r] + 1
      /\ local[r] \in [state : States, seq : 1 .. 5]
  BY <1>0, <1>a DEF Held, TypeOK
<1>d. local[r].seq \in 1 .. 5
  BY <1>c
<1>e. n \in 1 .. 5 /\ n > local[r].seq /\ (st = "generating" => n <= Attempts[r] + 1)
  BY <1>b, <1>c, <1>d
<1>1. Persist(r, [state |-> st, seq |-> n])
  BY <1>c DEF NextMark
<1> HIDE DEF n
<1>2. /\ local' \in [Requests -> [state : States, seq : 1 .. 5] \cup {None}]
      /\ tasks' \in [Requests -> SUBSET Tasks]
      /\ local'[r] = [state |-> st, seq |-> n]
      /\ tasks'[r] = tasks[r] \cup {[op |-> "set", state |-> st, seq |-> n]}
      /\ \A q \in Requests \ {r} : local'[q] = local[q] /\ tasks'[q] = tasks[q]
  BY <1>0, <1>1, <1>e, PersistTypes
<1>3. stage'[r] = st /\ \A q \in Requests \ {r} : stage'[q] = stage[q]
  BY <1>0 DEF TypeOK
<1>4. TypeOK'
  BY <1>0, <1>2 DEF TypeOK, redisVars
<1>6. UNCHANGED <<key, tomb, index, reader, gone, failed>>
  BY DEF redisVars
<1>7. local'[r] # None /\ local'[r].state = st /\ local'[r].seq = n
  BY <1>2, <1>e, EntryIsNotNone
<1>8. Good(r)'
  <2>1. Unborn(r)' /\ Held(r)'
    BY <1>3, <1>7, <1>e DEF Unborn, Held
  <2>t. \A t \in tasks[r] : t.op = "set" => t.seq \in 1 .. 5 /\ t.seq < n
    BY <1>0, <1>a, <1>c, <1>d, <1>e DEF Older, TypeOK, Tasks
  <2>k. key[r] # None => key[r].seq \in 1 .. 5 /\ key[r].seq < n
    BY <1>0, <1>a, <1>c, <1>d, <1>e DEF Older, TypeOK, Entries
  <2>2. Older(r)'
    BY <1>2, <1>6, <1>7, <1>e, <2>t, <2>k DEF Older
  <2>3. Last(r)'
    BY <1>2, <1>a DEF Last
  <2>4. Barred(r)'
    BY <1>2, <1>3, <1>6, <1>a DEF Barred
  <2>5. Current(r)'
    BY <1>2, <1>3, <1>6, <1>7, <2>k DEF Current
  <2>6. Named(r)'
    BY <1>6, <1>a DEF Named
  <2> QED
    BY <2>1, <2>2, <2>3, <2>4, <2>5, <2>6 DEF Good
<1>9. ASSUME NEW q \in Requests, q # r PROVE Good(q)'
  BY <1>2, <1>3, <1>6, <1>9, Frame DEF IInv, Untouched
<1> QED
  BY <1>4, <1>8, <1>9 DEF IInv

LEMMA MarkCompletedOK ==
  ASSUME IInv, NEW r \in Requests, MarkCompleted(r) PROVE IInv'
<1> DEFINE t0 == [op |-> "remove", state |-> "over", seq |-> Removal(r)]
<1>0. TypeOK /\ Good(r)
  BY DEF IInv
<1>a. Unborn(r) /\ Held(r) /\ Older(r) /\ Last(r) /\ Barred(r) /\ Current(r) /\ Named(r)
  BY <1>0, GoodParts
<1>b. local[r] = None \/ local[r].seq \in 1 .. 5
  BY <1>0 DEF TypeOK
<1>c. /\ Removal(r) \in 1 .. 7
      /\ local[r] # None => Removal(r) = local[r].seq + 1
      /\ local[r] = None => Removal(r) = 7
  BY <1>b DEF Removal
<1>2. /\ local'[r] = None
      /\ tasks'[r] = tasks[r] \cup {t0}
      /\ stage'[r] \in {"over", "closed"}
      /\ \A q \in Requests \ {r} :
           local'[q] = local[q] /\ tasks'[q] = tasks[q] /\ stage'[q] = stage[q]
  BY <1>0 DEF MarkCompleted, TypeOK
<1>3. t0 \in Tasks
  BY <1>c DEF Tasks
<1>4. TypeOK'
  BY <1>0, <1>3 DEF TypeOK, redisVars, MarkCompleted
<1>6. UNCHANGED <<key, tomb, index, reader, gone, failed>>
  BY DEF redisVars, MarkCompleted
<1>8. Good(r)'
  <2>1. Unborn(r)' /\ Held(r)'
    BY <1>2 DEF Unborn, Held
  <2>t. \A t \in tasks[r] : t.op = "set" => t.seq \in 1 .. 5 /\ t.seq < Removal(r)
    BY <1>0, <1>a, <1>b, <1>c DEF Older, TypeOK, Tasks
  <2>k. key[r] # None => key[r].seq \in 1 .. 5 /\ key[r].seq < Removal(r)
    BY <1>0, <1>a, <1>b, <1>c DEF Older, TypeOK, Entries
  <2>2. Older(r)'
    BY <1>2, <1>6, <2>t, <2>k DEF Older
  <2>3. Last(r)'
    BY <1>2, <1>6, <1>a, <2>t, <2>k DEF Last
  <2>4. Barred(r)'
    BY <1>2, <1>6, <1>a DEF Barred
  <2>m. t0 \in tasks'[r] /\ t0.op = "remove"
    BY <1>2
  <2> HIDE DEF t0
  <2>5. Current(r)'
    BY <1>2, <2>m DEF Current
  <2>6. Named(r)'
    BY <1>6, <1>a DEF Named
  <2> QED
    BY <2>1, <2>2, <2>3, <2>4, <2>5, <2>6 DEF Good
<1>9. ASSUME NEW q \in Requests, q # r PROVE Good(q)'
  BY <1>2, <1>6, <1>9, Frame DEF IInv, Untouched
<1> QED
  BY <1>4, <1>8, <1>9 DEF IInv

LEMMA ClientLeavesOK ==
  ASSUME IInv, NEW r \in Requests, ClientLeaves(r) PROVE IInv'
<1>0. TypeOK /\ Good(r)
  BY DEF IInv
<1>a. Older(r) /\ Last(r) /\ Barred(r) /\ Named(r)
  BY <1>0, GoodParts
<1>2. stage'[r] = "left" /\ stage[r] \in {"accepted", "generating"}
      /\ \A q \in Requests \ {r} : stage'[q] = stage[q]
  BY <1>0 DEF ClientLeaves, TypeOK
<1>4. TypeOK'
  BY <1>0 DEF TypeOK, redisVars, ClientLeaves
<1>6. UNCHANGED <<local, tasks, key, tomb, index, reader, gone, failed>>
  BY DEF redisVars, ClientLeaves
<1>8. Good(r)'
  BY <1>2, <1>6, <1>a DEF Good, Unborn, Held, Older, Last, Barred, Current, Named
<1>9. ASSUME NEW q \in Requests, q # r PROVE Good(q)'
  BY <1>2, <1>6, <1>9, Frame DEF IInv, Untouched
<1> QED
  BY <1>4, <1>8, <1>9 DEF IInv

-----------------------------------------------------------------------------
(* The tasks *)

LEMMA SetReachesOK ==
  ASSUME IInv, NEW r \in Requests, NEW t \in tasks[r], t.op = "set", Reach(r, t)
  PROVE  IInv'
<1>0. TypeOK /\ Good(r)
  BY DEF IInv
<1>a. Unborn(r) /\ Held(r) /\ Older(r) /\ Last(r) /\ Barred(r) /\ Current(r) /\ Named(r)
  BY <1>0, GoodParts
<1>t. t \in Tasks /\ t.state \in States /\ t.seq \in 1 .. 5
  BY <1>0, <1>a DEF TypeOK, Tasks, Older
<1>e. [state |-> t.state, seq |-> t.seq] \in Entries
      /\ [state |-> t.state, seq |-> t.seq] # None
  BY <1>t, EntryIsNotNone DEF Entries
<1>1. /\ UNCHANGED <<stage, local, reader, failed, tomb, gone>>
      /\ tasks' = [tasks EXCEPT ![r] = @ \ {t}]
      /\ FlowSet(r, t)
  BY DEF Reach, FlowSet, handlerVars
<1>2. /\ tasks'[r] = tasks[r] \ {t}
      /\ \A q \in Requests \ {r} : tasks'[q] = tasks[q] /\ key'[q] = key[q]
                                  /\ (q \in index' <=> q \in index)
  BY <1>0, <1>1 DEF TypeOK, FlowSet
<1>3. \/ /\ Fresh(r, t.seq)
         /\ key'[r] = [state |-> t.state, seq |-> t.seq]
         /\ index' = index \cup {r}
      \/ /\ ~Fresh(r, t.seq)
         /\ key' = key /\ index' = index
  BY <1>0, <1>1 DEF TypeOK, FlowSet
<1>4. TypeOK'
  <2>1. key' \in [Requests -> Entries \cup {None}] /\ index' \in SUBSET Requests
    BY <1>0, <1>1, <1>e DEF FlowSet, TypeOK
  <2> QED
    BY <1>0, <1>1, <2>1 DEF TypeOK
<1>n. r \in gone => ~Fresh(r, t.seq)
  BY <1>0, <1>a, <1>t DEF Barred, Fresh, TypeOK
<1>z. tomb[r] # 0 => stage[r] \notin States
  BY <1>a DEF Barred
<1>8. Good(r)'
  <2>0. stage[r] # "none"
    BY <1>a DEF Unborn
  <2>1. Unborn(r)' /\ Held(r)'
    BY <1>1, <1>a, <2>0 DEF Unborn, Held
  <2>2. Older(r)'
    BY <1>1, <1>2, <1>3, <1>a, <1>t DEF Older
  <2>3. Last(r)'
    BY <1>1, <1>2, <1>3, <1>a DEF Last
  <2>4. Barred(r)'
    BY <1>1, <1>2, <1>3, <1>n, <1>a DEF Barred
  <2>5. Current(r)'
    <3> SUFFICES ASSUME r \notin gone, r \notin failed PROVE Current(r)'
      BY <1>1 DEF Current
    <3>1. ASSUME stage[r] \in States, local[r] # None
          PROVE  \/ key'[r] = local[r]
                 \/ /\ [op |-> "set", state |-> local[r].state, seq |-> local[r].seq] \in tasks'[r]
                    /\ key'[r] # None => key'[r].seq < local[r].seq
      <4>0. local[r] \in [state : States, seq : 1 .. 5] /\ tomb[r] = 0
        BY <1>0, <1>z, <3>1 DEF TypeOK
      <4>l. local[r] = [state |-> local[r].state, seq |-> local[r].seq]
        BY <4>0
      <4>i. t = [op |-> "set", state |-> t.state, seq |-> t.seq]
        BY <1>t DEF Tasks
      <4>1. CASE t.seq = local[r].seq
        <5>1. t.state = local[r].state
          BY <1>a, <3>1, <4>1 DEF Older
        <5>2. CASE Fresh(r, t.seq)
          BY <1>3, <4>1, <4>l, <5>1, <5>2
        <5>3. CASE ~Fresh(r, t.seq)
          <6>1. key[r] # None /\ ~(key[r].seq < local[r].seq)
            BY <4>0, <4>1, <5>3, <1>t DEF Fresh
          <6>2. key[r] = local[r]
            BY <6>1, <1>a, <3>1 DEF Current
          <6> QED
            BY <6>2, <1>3, <5>3
        <5> QED
          BY <5>2, <5>3
      <4>2. CASE t.seq # local[r].seq
        <5>0. t.seq < local[r].seq
          BY <1>a, <1>t, <3>1, <4>0, <4>2 DEF Older
        <5>1. CASE key[r] = local[r]
          <6>1. ~Fresh(r, t.seq)
            BY <5>0, <5>1, <4>0, <1>t, <3>1 DEF Fresh
          <6> QED
            BY <6>1, <5>1, <1>3
        <5>2. CASE key[r] # local[r]
          <6>1. /\ [op |-> "set", state |-> local[r].state, seq |-> local[r].seq] \in tasks[r]
                /\ key[r] # None => key[r].seq < local[r].seq
            BY <5>2, <1>a, <3>1 DEF Current
          <6>2. [op |-> "set", state |-> local[r].state, seq |-> local[r].seq] # t
            BY <4>2
          <6>3. key'[r] # None => key'[r].seq < local[r].seq
            BY <6>1, <5>0, <1>3
          <6> QED
            BY <6>1, <6>2, <6>3, <1>2
        <5> QED
          BY <5>1, <5>2
      <4> QED
        BY <4>1, <4>2
    <3>2. ASSUME stage[r] = "outputting", local[r] = None
          PROVE  key'[r] # None /\ key'[r].state = "outputting"
      <4>1. tasks[r] = {}
        BY <1>a, <3>2 DEF Held
      <4> QED
        BY <4>1
    <3>3. stage[r] \in {"over", "closed"} => \E u \in tasks'[r] : u.op = "remove"
      BY <1>a, <1>2 DEF Current
    <3> QED
      BY <1>1, <3>1, <3>2, <3>3 DEF Current
  <2>6. Named(r)'
    BY <1>1, <1>3, <1>e, <1>a DEF Named
  <2> QED
    BY <2>1, <2>2, <2>3, <2>4, <2>5, <2>6 DEF Good
<1>9. ASSUME NEW q \in Requests, q # r PROVE Good(q)'
  BY <1>1, <1>2, <1>9, Frame DEF IInv, Untouched
<1> QED
  BY <1>4, <1>8, <1>9 DEF IInv

LEMMA RemovalReachesOK ==
  ASSUME IInv, NEW r \in Requests, NEW t \in tasks[r], t.op # "set", Reach(r, t)
  PROVE  IInv'
<1>0. TypeOK /\ Good(r)
  BY DEF IInv
<1>a. Unborn(r) /\ Held(r) /\ Older(r) /\ Last(r) /\ Barred(r) /\ Current(r) /\ Named(r)
  BY <1>0, GoodParts
<1>t. t \in Tasks /\ t.op = "remove" /\ t.seq \in 1 .. 7
  BY <1>0 DEF TypeOK, Tasks
<1>k. key[r] # None => key[r].seq \in 1 .. 7 /\ key[r].seq < t.seq
  BY <1>0, <1>a, <1>t DEF Last, TypeOK, Entries
<1>1. /\ UNCHANGED <<stage, local, reader, failed>>
      /\ tasks' = [tasks EXCEPT ![r] = @ \ {t}]
      /\ tomb' = [tomb EXCEPT ![r] = t.seq]
      /\ key' = [key EXCEPT ![r] = None]
      /\ index' = index \ {r}
      /\ gone' = gone \cup {r}
  BY <1>k, <1>t DEF Reach, FlowRemove, handlerVars
<1>2. /\ tasks'[r] = tasks[r] \ {t} /\ key'[r] = None /\ tomb'[r] = t.seq
      /\ \A q \in Requests \ {r} :
           tasks'[q] = tasks[q] /\ key'[q] = key[q] /\ tomb'[q] = tomb[q]
  BY <1>0, <1>1 DEF TypeOK
<1>4. TypeOK'
  BY <1>0, <1>1, <1>t DEF TypeOK
<1>5. stage[r] \in {"over", "closed"}
      /\ \A s \in tasks[r] : s.op = "set" => s.seq \in 1 .. 7 /\ s.seq < t.seq
  BY <1>0, <1>a, <1>t DEF Last, TypeOK, Tasks
<1>8. Good(r)'
  <2>1. Unborn(r)' /\ Held(r)'
    BY <1>1, <1>5, <1>a DEF Unborn, Held
  <2>2. Older(r)' /\ Last(r)'
    BY <1>1, <1>2, <1>a DEF Older, Last
  <2>4. Barred(r)'
    BY <1>1, <1>2, <1>5, <1>t DEF Barred
  <2>6. Current(r)' /\ Named(r)'
    BY <1>1, <1>2 DEF Current, Named
  <2> QED
    BY <2>1, <2>2, <2>4, <2>6 DEF Good
<1>9. ASSUME NEW q \in Requests, q # r PROVE Good(q)'
  BY <1>1, <1>2, <1>9, Frame DEF IInv, Untouched
<1> QED
  BY <1>4, <1>8, <1>9 DEF IInv

LEMMA FailOK ==
  ASSUME IInv, NEW r \in Requests, NEW t \in tasks[r], Fail(r, t) PROVE IInv'
<1>0. TypeOK /\ Good(r)
  BY DEF IInv
<1>a. Unborn(r) /\ Held(r) /\ Older(r) /\ Last(r) /\ Barred(r) /\ Current(r) /\ Named(r)
  BY <1>0, GoodParts
<1>1. /\ UNCHANGED <<stage, local, key, tomb, index, reader, gone>>
      /\ tasks' = [tasks EXCEPT ![r] = @ \ {t}]
      /\ failed' = failed \cup {r}
  BY DEF Fail, handlerVars, redisVars
<1>2. /\ tasks'[r] = tasks[r] \ {t}
      /\ \A q \in Requests \ {r} : tasks'[q] = tasks[q]
  BY <1>0, <1>1 DEF TypeOK
<1>4. TypeOK'
  BY <1>0, <1>1 DEF TypeOK
<1>8. Good(r)'
  BY <1>1, <1>2, <1>a DEF Good, Unborn, Held, Older, Last, Barred, Current, Named
<1>9. ASSUME NEW q \in Requests, q # r PROVE Good(q)'
  BY <1>1, <1>2, <1>9, Frame DEF IInv, Untouched
<1> QED
  BY <1>4, <1>8, <1>9 DEF IInv

-----------------------------------------------------------------------------
(* The hour *)

LEMMA KeyExpiresOK ==
  ASSUME IInv, NEW r \in Requests, KeyExpires(r) PROVE IInv'
<1>0. TypeOK /\ Good(r)
  BY DEF IInv
<1>a. Unborn(r) /\ Held(r) /\ Older(r) /\ Last(r) /\ Barred(r) /\ Current(r) /\ Named(r)
  BY <1>0, GoodParts
<1>1. /\ UNCHANGED <<stage, local, tasks, tomb, index, reader, failed>>
      /\ key' = [key EXCEPT ![r] = None]
      /\ gone' = gone \cup {r}
      /\ tasks[r] = {} /\ stage[r] \notin {"accepted", "generating"} /\ key[r] # None
  BY DEF KeyExpires, Waiting, handlerVars
<1>2. key'[r] = None /\ \A q \in Requests \ {r} : key'[q] = key[q]
  BY <1>0, <1>1 DEF TypeOK
<1>4. TypeOK'
  BY <1>0, <1>1 DEF TypeOK
<1>8. Good(r)'
  BY <1>1, <1>2, <1>a DEF Good, Unborn, Held, Older, Last, Barred, Current, Named
<1>9. ASSUME NEW q \in Requests, q # r PROVE Good(q)'
  BY <1>1, <1>2, <1>9, Frame DEF IInv, Untouched
<1> QED
  BY <1>4, <1>8, <1>9 DEF IInv

LEMMA TombExpiresOK ==
  ASSUME IInv, NEW r \in Requests, TombExpires(r) PROVE IInv'
<1>0. TypeOK /\ Good(r)
  BY DEF IInv
<1>a. Unborn(r) /\ Held(r) /\ Older(r) /\ Last(r) /\ Barred(r) /\ Current(r) /\ Named(r)
  BY <1>0, GoodParts
<1>1. /\ UNCHANGED <<stage, local, tasks, key, index, reader, gone, failed>>
      /\ tomb' = [tomb EXCEPT ![r] = 0]
      /\ tasks[r] = {} /\ tomb[r] # 0
  BY DEF TombExpires, Waiting, handlerVars
<1>2. tomb'[r] = 0 /\ \A q \in Requests \ {r} : tomb'[q] = tomb[q]
  BY <1>0, <1>1 DEF TypeOK
<1>4. TypeOK'
  BY <1>0, <1>1 DEF TypeOK
<1>8. Good(r)'
  BY <1>1, <1>2, <1>a DEF Good, Unborn, Held, Older, Last, Barred, Current, Named
<1>9. ASSUME NEW q \in Requests, q # r PROVE Good(q)'
  BY <1>1, <1>2, <1>9, Frame DEF IInv, Untouched
<1> QED
  BY <1>4, <1>8, <1>9 DEF IInv

-----------------------------------------------------------------------------
(* A gateway, and a snapshot *)

LEMMA CrashOK ==
  ASSUME IInv, NEW g \in Gateways, Crash(g) PROVE IInv'
<1> DEFINE lost == {r \in Requests : Home[r] = g /\ stage[r] # "none"}
<1>0. TypeOK
  BY DEF IInv
<1>1. /\ stage' = [r \in Requests |-> IF r \in lost THEN "left" ELSE stage[r]]
      /\ local' = [r \in Requests |-> IF r \in lost THEN None ELSE local[r]]
      /\ tasks' = [r \in Requests |-> IF r \in lost THEN {} ELSE tasks[r]]
      /\ failed' = failed \cup {r \in lost : tasks[r] # {}}
      /\ UNCHANGED <<key, tomb, index, reader, gone>>
  BY DEF Crash, redisVars
<1>2. TypeOK'
  BY <1>0, <1>1 DEF TypeOK
<1>3. ASSUME NEW r \in Requests PROVE Good(r)'
  <2>0. Good(r) /\ Unborn(r) /\ Held(r) /\ Older(r) /\ Last(r) /\ Barred(r) /\ Current(r) /\ Named(r)
    BY GoodParts DEF IInv
  <2>1. CASE r \in lost
    <3>1. stage'[r] = "left" /\ local'[r] = None /\ tasks'[r] = {} /\ stage[r] # "none"
      BY <1>1, <2>1
    <3>2. r \in failed => r \in failed'
      BY <1>1
    <3> QED
      BY <1>1, <2>0, <3>1, <3>2
         DEF Good, Unborn, Held, Older, Last, Barred, Current, Named
  <2>2. CASE r \notin lost
    BY <1>1, <2>0, <2>2, Frame DEF Untouched
  <2> QED
    BY <2>1, <2>2
<1> QED
  BY <1>2, <1>3 DEF IInv

\* What the snapshot forgets in memory is of a request that no longer waits.
LEMMA ReadIndexOK ==
  ASSUME IInv, NEW old \in SUBSET Requests, ReadIndex(old) PROVE IInv'
<1>0. TypeOK
  BY DEF IInv
<1>1. /\ UNCHANGED <<stage, tasks, key, tomb, index, gone, failed>>
      /\ local' = [r \in Requests |-> IF r \in old THEN None ELSE local[r]]
      /\ reader' = Idle \/ reader' = [at |-> "names", names |-> index]
      /\ index # {} => reader' = [at |-> "names", names |-> index]
      /\ index = {} => reader' = Idle
  BY DEF ReadIndex, redisVars
<1>2. TypeOK'
  <2>1. local' \in [Requests -> [state : States, seq : 1 .. 5] \cup {None}]
    BY <1>0, <1>1 DEF TypeOK
  <2>2. \/ reader' = Idle
        \/ reader' \in [at : {"names", "cleanup"}, names : (SUBSET Requests) \ {{}}]
    <3>1. CASE index = {}
      BY <1>1, <3>1
    <3>2. CASE index # {}
      <4>1. index \in (SUBSET Requests) \ {{}}
        BY <1>0, <3>2 DEF TypeOK
      <4> QED
        BY <1>1, <3>2, <4>1
    <3> QED
      BY <3>1, <3>2
  <2> QED
    BY <1>0, <1>1, <2>1, <2>2 DEF TypeOK
<1>3. ASSUME NEW r \in Requests PROVE Good(r)'
  <2>0. Unborn(r) /\ Held(r) /\ Older(r) /\ Last(r) /\ Barred(r) /\ Current(r) /\ Named(r)
    BY GoodParts DEF IInv
  <2>1. Named(r)'
    BY <1>1, <2>0 DEF Named, Idle
  <2>2. CASE r \in old
    <3>1. /\ local'[r] = None /\ local[r] # None
          /\ tasks[r] = {} /\ stage[r] \notin {"accepted", "generating"}
      BY <1>1, <2>2 DEF ReadIndex, Waiting
    <3>2. r \notin gone \cup failed /\ stage[r] = "outputting"
            => key[r] # None /\ key[r].state = "outputting"
      BY <2>0, <3>1 DEF Current, Held
    <3>3. Unborn(r)' /\ Held(r)' /\ Older(r)' /\ Last(r)' /\ Barred(r)'
      BY <1>1, <2>0, <3>1 DEF Unborn, Held, Older, Last, Barred
    <3>4. Current(r)'
      BY <1>1, <2>0, <3>1, <3>2 DEF Current
    <3> QED
      BY <3>3, <3>4, <2>1 DEF Good
  <2>3. CASE r \notin old
    <3>1. local'[r] = local[r]
      BY <1>1, <2>3
    <3>2. Unborn(r)' /\ Held(r)' /\ Older(r)' /\ Last(r)' /\ Barred(r)' /\ Current(r)'
      BY <1>1, <2>0, <3>1 DEF Unborn, Held, Older, Last, Barred, Current
    <3> QED
      BY <3>2, <2>1 DEF Good
  <2> QED
    BY <2>2, <2>3
<1> QED
  BY <1>2, <1>3 DEF IInv

\* The other steps of a snapshot change only the snapshot and the index.
LEMMA SnapshotOK ==
  ASSUME IInv, ReadKeys \/ Cleanup \/ ReadFails PROVE IInv'
<1>0. TypeOK
  BY DEF IInv
<1>1. UNCHANGED <<stage, local, tasks, key, tomb, gone, failed>>
  BY DEF ReadKeys, Cleanup, ReadFails, handlerVars, redisVars
<1>r. reader = Idle \/ reader \in [at : {"names", "cleanup"}, names : (SUBSET Requests) \ {{}}]
  BY <1>0 DEF TypeOK
<1>2. TypeOK'
  <2>1. \/ reader' = Idle
        \/ reader' \in [at : {"names", "cleanup"}, names : (SUBSET Requests) \ {{}}]
    BY <1>r DEF ReadKeys, Cleanup, ReadFails, Idle
  <2>2. index' \in SUBSET Requests
    BY <1>0 DEF TypeOK, ReadKeys, Cleanup, ReadFails, redisVars
  <2> QED
    BY <1>0, <1>1, <2>1, <2>2 DEF TypeOK
<1>3. ASSUME NEW r \in Requests PROVE Good(r)'
  <2>0. Unborn(r) /\ Held(r) /\ Older(r) /\ Last(r) /\ Barred(r) /\ Current(r) /\ Named(r)
    BY GoodParts DEF IInv
  <2>1. Unborn(r)' /\ Held(r)' /\ Older(r)' /\ Last(r)' /\ Barred(r)' /\ Current(r)'
    BY <1>1, <2>0 DEF Unborn, Held, Older, Last, Barred, Current
  <2>2. Named(r)'
    <3>1. CASE ReadKeys
      BY <1>1, <2>0, <3>1, <1>r DEF Named, Idle, ReadKeys, redisVars
    <3>2. CASE Cleanup
      <4>1. r \in reader.names => r \in gone /\ key[r] = None
        BY <2>0, <3>2 DEF Named, Barred, Cleanup
      <4> QED
        BY <1>1, <2>0, <3>2, <4>1 DEF Named, Idle, Cleanup
    <3>3. CASE ReadFails
      BY <1>1, <2>0, <3>3 DEF Named, Idle, ReadFails, redisVars
    <3> QED
      BY <3>1, <3>2, <3>3
  <2> QED
    BY <2>1, <2>2 DEF Good
<1> QED
  BY <1>2, <1>3 DEF IInv

-----------------------------------------------------------------------------
(* The theorems *)

LEMMA NextOK == IInv /\ [Next]_vars => IInv'
<1> SUFFICES ASSUME IInv, [Next]_vars PROVE IInv'
  OBVIOUS
<1>1. ASSUME NEW r \in Requests, MarkAccepted(r) PROVE IInv'
  BY <1>1, MarkAcceptedOK
<1>2. ASSUME NEW r \in Requests, MarkUpstreamStarted(r) PROVE IInv'
  BY <1>2, NextMarkOK DEF MarkUpstreamStarted
<1>3. ASSUME NEW r \in Requests, MarkFirstByte(r) PROVE IInv'
  BY <1>3, NextMarkOK DEF MarkFirstByte
<1>4. ASSUME NEW r \in Requests, MarkCompleted(r) \/ ClientLeaves(r) PROVE IInv'
  BY <1>4, MarkCompletedOK, ClientLeavesOK
<1>5. ASSUME NEW r \in Requests, Deliver(r) PROVE IInv'
  <2>1. PICK t \in tasks[r] : Reach(r, t) \/ Fail(r, t)
    BY <1>5 DEF Deliver
  <2>2. CASE Reach(r, t) /\ t.op = "set"
    BY <2>2, SetReachesOK
  <2>3. CASE Reach(r, t) /\ t.op # "set"
    BY <2>3, RemovalReachesOK
  <2>4. CASE Fail(r, t)
    BY <2>4, FailOK
  <2> QED
    BY <2>1, <2>2, <2>3, <2>4
<1>6. ASSUME NEW r \in Requests, KeyExpires(r) \/ TombExpires(r) PROVE IInv'
  BY <1>6, KeyExpiresOK, TombExpiresOK
<1>7. CASE \E g \in Gateways : Crash(g)
  BY <1>7, CrashOK
<1>8. CASE \E old \in SUBSET Requests : ReadIndex(old)
  BY <1>8, ReadIndexOK
<1>9. CASE ReadKeys \/ Cleanup \/ ReadFails
  BY <1>9, SnapshotOK
<1>10. CASE UNCHANGED vars
  <2>1. ASSUME NEW r \in Requests PROVE Good(r)'
    BY <1>10, Frame DEF IInv, Untouched, vars
  <2>2. TypeOK'
    BY <1>10 DEF IInv, TypeOK, vars
  <2> QED
    BY <2>1, <2>2 DEF IInv
<1> QED
  <2>1. CASE \E r \in Requests :
               \/ MarkAccepted(r) \/ MarkUpstreamStarted(r) \/ MarkFirstByte(r)
               \/ MarkCompleted(r) \/ ClientLeaves(r)
               \/ Deliver(r) \/ KeyExpires(r) \/ TombExpires(r)
    BY <2>1, <1>1, <1>2, <1>3, <1>4, <1>5, <1>6
  <2> QED
    BY <2>1, <1>7, <1>8, <1>9, <1>10 DEF Next

LEMMA Inductive == Spec => []IInv
BY InitOK, NextOK, PTL DEF Spec

\* The state keeps its shape (flow_tracker.rs and the scripts of cache/mod.rs).
THEOREM RegistryTypeCorrect == Spec => []TypeOK
<1>1. IInv => TypeOK
  BY DEF IInv
<1> QED
  BY Inductive, <1>1, PTL

\* However its tasks are ordered, delayed or lost, a request that was removed from the
\* registry or expired in it never returns (flow_remove's marker of completion).
THEOREM NoResurrectionHolds == Spec => []NoResurrection
<1>1. IInv => NoResurrection
  <2> SUFFICES ASSUME IInv, NEW r \in gone PROVE key[r] = None
    BY DEF NoResurrection
  <2>1. r \in Requests
    BY DEF IInv, TypeOK
  <2> QED
    BY <2>1, GoodParts DEF IInv, Barred
<1> QED
  BY Inductive, <1>1, PTL

\* No request in the registry is missing from the index the count starts from, whatever
\* a snapshot cleans up meanwhile (flow_snapshot's SREM).
THEOREM IndexedHolds == Spec => []Indexed
<1>1. IInv => Indexed
  BY GoodParts DEF IInv, Named, Indexed
<1> QED
  BY Inductive, <1>1, PTL

\* Once its tasks have run, the registry shows a request where its handler is
\* (the order that flow_set's comparison of sequence numbers makes).
THEOREM RegistryMatchesHolds == Spec => []RegistryMatches
<1>1. IInv => RegistryMatches
  <2> SUFFICES ASSUME IInv, NEW r \in Requests \ (gone \cup failed),
                      tasks[r] = {}, stage[r] # "left"
               PROVE  IF stage[r] \in States THEN key[r] # None /\ key[r].state = stage[r]
                      ELSE key[r] = None
    BY DEF RegistryMatches
  <2>1. Unborn(r) /\ Held(r) /\ Current(r)
    BY GoodParts DEF IInv
  <2>2. stage[r] \in States \cup {"none", "over", "closed", "left"}
    BY DEF IInv, TypeOK
  <2>3. CASE stage[r] \in States
    BY <2>1, <2>3 DEF Held, Current
  <2>4. CASE stage[r] = "none"
    BY <2>1, <2>4 DEF Unborn
  <2>5. CASE stage[r] \in {"over", "closed"}
    BY <2>1, <2>5 DEF Current
  <2> QED
    BY <2>2, <2>3, <2>4, <2>5
<1> QED
  BY Inductive, <1>1, PTL

=============================================================================
