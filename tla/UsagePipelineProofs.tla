------------------------ MODULE UsagePipelineProofs ------------------------
(***************************************************************************)
(* Proofs about UsagePipeline for any number of records, workers and       *)
(* instances and any limits: a record is charged once, the stream gives up *)
(* only what is billed, and the pipeline implements UsageDelivery.         *)
(***************************************************************************)
EXTENDS UsagePipeline, TLAPS

\* A worker between two batches has none.
BatchHeld == \A w \in Workers : pc[w] = "recv" <=> batch[w] = <<>>

\* Only emitted records are anywhere.
OnlyEmitted ==
  /\ overflow \subseteq emitted /\ billed \subseteq emitted
  /\ \A w \in Workers : Range(channel[w]) \subseteq emitted /\ Range(batch[w]) \subseteq emitted
  /\ \A e \in stream : e.rec \in emitted

\* What a drain loop still has to write is in the stream, unless another instance
\* was faster; what it is about to acknowledge is billed.
DrainKnows ==
  \A g \in Gateways :
    /\ \A e \in drain[g].todo : e \in stream \/ e.rec \in billed
    /\ \A e \in drain[g].done : e.rec \in billed

\* The inductive invariant.
IInv == TypeOK /\ BatchHeld /\ OnlyEmitted /\ DrainKnows /\ ChargedOnce

USE PipelineAssumption

-----------------------------------------------------------------------------
(* Sequences *)

\* Appending adds one element to the range of a sequence, ...
LEMMA RangeOfAppend ==
  ASSUME NEW s \in Seq(Records), NEW r \in Records
  PROVE  Range(Append(s, r)) = Range(s) \cup {r}
<1> DEFINE t == Append(s, r)
<1>1. /\ Len(s) \in Nat /\ DOMAIN s = 1..Len(s)
      /\ DOMAIN t = 1..(Len(s) + 1)
      /\ \A i \in 1..Len(s) : t[i] = s[i]
      /\ t[Len(s) + 1] = r
  OBVIOUS
<1>2. 1..(Len(s) + 1) = 1..Len(s) \cup {Len(s) + 1}
  BY <1>1
<1> HIDE DEF t
<1>3. Range(t) = {t[i] : i \in 1..Len(s)} \cup {r}
  BY <1>1, <1>2 DEF Range
<1>4. Range(s) = {t[i] : i \in 1..Len(s)}
  BY <1>1 DEF Range
<1> QED
  BY <1>3, <1>4 DEF t

\* ... and taking the head away takes at most the head away.
LEMMA RangeOfTail ==
  ASSUME NEW s \in Seq(Records), s # <<>>
  PROVE  /\ Head(s) \in Records
         /\ Tail(s) \in Seq(Records)
         /\ Len(Tail(s)) = Len(s) - 1
         /\ Range(s) = {Head(s)} \cup Range(Tail(s))
<1>1. Head(s) \in Records /\ Tail(s) \in Seq(Records) /\ Len(Tail(s)) = Len(s) - 1
  OBVIOUS
<1>2. Range(s) \subseteq {Head(s)} \cup Range(Tail(s))
  <2> SUFFICES ASSUME NEW i \in 1..Len(s) PROVE s[i] \in {Head(s)} \cup Range(Tail(s))
    BY DEF Range
  <2>1. CASE i = 1
    BY <2>1
  <2>2. CASE i # 1
    <3>1. i - 1 \in DOMAIN Tail(s) /\ Tail(s)[i - 1] = s[i]
      BY <2>2
    <3> QED
      BY <3>1 DEF Range
  <2> QED
    BY <2>1, <2>2
<1>3. Head(s) \in Range(s)
  BY DEF Range
<1>4. Range(Tail(s)) \subseteq Range(s)
  <2> SUFFICES ASSUME NEW i \in 1..Len(Tail(s)) PROVE Tail(s)[i] \in Range(s)
    BY <1>1 DEF Range
  <2>1. i + 1 \in DOMAIN s /\ Tail(s)[i] = s[i + 1]
    BY <1>1
  <2> QED
    BY <2>1 DEF Range
<1> QED
  BY <1>1, <1>2, <1>3, <1>4

\* Only the empty sequence has length zero.
LEMMA OnlyEmptyHasNone ==
  ASSUME NEW s \in Seq(Records) PROVE s = <<>> <=> Len(s) = 0
OBVIOUS

\* Giving one worker another short sequence keeps all of them short.
LEMMA ShortSequences ==
  ASSUME NEW f \in [Workers -> Seq(Records)], NEW n \in Nat, \A v \in Workers : Len(f[v]) <= n,
         NEW w \in Workers, NEW s \in Seq(Records), Len(s) <= n
  PROVE  /\ [f EXCEPT ![w] = s] \in [Workers -> Seq(Records)]
         /\ \A v \in Workers : Len([f EXCEPT ![w] = s][v]) <= n
OBVIOUS

\* Giving one worker a sequence with fewer records leaves no worker with more.
LEMMA FewerRecords ==
  ASSUME NEW f \in [Workers -> Seq(Records)], NEW w \in Workers, NEW s,
         Range(s) \subseteq Range(f[w])
  PROVE  \A v \in Workers : Range([f EXCEPT ![w] = s][v]) \subseteq Range(f[v])
OBVIOUS

LEMMA RangeOfEmpty == Range(<<>>) = {}
BY DEF Range

\* The range of a sequence of records consists of records.
LEMMA RangeOfRecords ==
  ASSUME NEW s \in Seq(Records) PROVE Range(s) \subseteq Records
BY DEF Range

-----------------------------------------------------------------------------
(* The two calls *)

\* Whatever becomes of the transaction, what was billed stays billed, and a record
\* has been charged if and only if it is billed.
LEMMA WriteRowsCharges ==
  ASSUME IInv, NEW rs \in SUBSET Records, rs \subseteq emitted,
         NEW outcome \in Outcomes, WriteRows(rs, outcome)
  PROVE  /\ billed \subseteq billed' /\ billed' \subseteq Records
         /\ billed' \subseteq emitted
         /\ Effective(outcome) => rs \subseteq billed'
         /\ written' \in [Records -> Nat]
         /\ ChargedOnce'
         /\ unclear' \in Nat
<1>1. unclear' \in Nat
  BY DEF WriteRows, Unclear, IInv, TypeOK
<1>2. CASE Effective(outcome)
  <2>1. /\ billed' = billed \cup rs
        /\ written' = [r \in Records |-> IF r \in rs \ billed THEN written[r] + 1 ELSE written[r]]
    BY <1>2 DEF WriteRows, NewRows
  <2> QED
    BY <1>1, <2>1 DEF IInv, TypeOK, ChargedOnce, OnlyEmitted
<1>3. CASE ~Effective(outcome)
  <2>1. billed' = billed /\ written' = written
    BY <1>3 DEF WriteRows
  <2> QED
    BY <1>1, <1>3, <2>1 DEF IInv, TypeOK, ChargedOnce, OnlyEmitted
<1> QED
  BY <1>2, <1>3

\* The stream grows by an entry of the record, or stays as it is.
LEMMA AddToStreamGrows ==
  ASSUME IInv, NEW r \in Records, NEW outcome \in Outcomes, AddToStream(r, outcome)
  PROVE  /\ stream \subseteq stream' /\ stream' \subseteq Entry
         /\ \A e \in stream' : e \in stream \/ e.rec = r
         /\ Effective(outcome) => \E e \in stream' : e.rec = r
         /\ nextId' \in Nat
         /\ unclear' \in Nat
<1>1. unclear' \in Nat
  BY DEF AddToStream, Unclear, IInv, TypeOK
<1>2. [id |-> nextId, rec |-> r] \in Entry
  BY DEF Entry, IInv, TypeOK
<1> QED
  BY <1>1, <1>2 DEF AddToStream, IInv, TypeOK

-----------------------------------------------------------------------------
(* The invariant *)

LEMMA InitIInv == Init => IInv
<1> SUFFICES ASSUME Init PROVE IInv
  OBVIOUS
<1>1. TypeOK
  BY DEF Init, TypeOK, IdleDrain, DrainState, Entry
<1>2. BatchHeld
  BY DEF Init, BatchHeld
<1>3. OnlyEmitted
  BY RangeOfEmpty DEF Init, OnlyEmitted
<1>4. DrainKnows
  BY DEF Init, DrainKnows, IdleDrain
<1>5. ChargedOnce
  BY DEF Init, ChargedOnce
<1> QED
  BY <1>1, <1>2, <1>3, <1>4, <1>5 DEF IInv

\* Every step, also one whose call failed after it took effect, keeps the invariant.
LEMMA NextIInv == IInv /\ [Next]_vars => IInv'
<1> SUFFICES ASSUME IInv, [Next]_vars PROVE IInv'
  OBVIOUS
<1> USE DEF IInv
<1>1. ASSUME NEW r \in Records, Emit(r) PROVE IInv'
  <2> DEFINE w == ShardOf[r]
  <2>1. w \in Workers /\ channel[w] \in Seq(Records)
    BY DEF TypeOK
  <2>2. CASE Len(channel[w]) < ChannelCap /\ channel' = [channel EXCEPT ![w] = Append(@, r)]
             /\ UNCHANGED overflow
    <3>1. /\ Append(channel[w], r) \in Seq(Records)
          /\ Len(Append(channel[w], r)) <= ChannelCap
          /\ Range(Append(channel[w], r)) \subseteq Range(channel[w]) \cup {r}
      BY <2>1, <2>2, RangeOfAppend DEF TypeOK
    <3>2. channel' = [channel EXCEPT ![w] = Append(channel[w], r)]
      BY <2>2
    <3> HIDE DEF w
    <3>3. TypeOK'
      BY <1>1, <2>1, <2>2, <3>1, <3>2 DEF Emit, TypeOK
    <3>4. \A v \in Workers : Range(channel'[v]) \subseteq Range(channel[v]) \cup {r}
      BY <2>1, <3>1, <3>2 DEF TypeOK
    <3>5. OnlyEmitted'
      BY <1>1, <2>2, <3>4 DEF Emit, OnlyEmitted
    <3> QED
      BY <1>1, <3>3, <3>5 DEF Emit, BatchHeld, DrainKnows, ChargedOnce
  <2>3. CASE overflow' = overflow \cup {r} /\ UNCHANGED channel
    <3>1. TypeOK' /\ OnlyEmitted'
      BY <1>1, <2>3 DEF Emit, TypeOK, OnlyEmitted
    <3> QED
      BY <1>1, <3>1 DEF Emit, BatchHeld, DrainKnows, ChargedOnce
  <2> QED
    BY <1>1, <2>2, <2>3 DEF Emit
<1>2. ASSUME NEW r \in Records, BecomeWritable(r) PROVE IInv'
  BY <1>2 DEF BecomeWritable, TypeOK, BatchHeld, OnlyEmitted, DrainKnows, ChargedOnce
<1>3. ASSUME NEW w \in Workers, Take(w) PROVE IInv'
  <2>1. channel[w] \in Seq(Records) /\ channel[w] # <<>> /\ batch[w] \in Seq(Records)
    BY <1>3 DEF Take, TypeOK
  <2> DEFINE taken == Append(batch[w], Head(channel[w]))
             rest == Tail(channel[w])
  <2>2. /\ rest \in Seq(Records) /\ Len(rest) <= ChannelCap
        /\ Range(rest) \subseteq Range(channel[w])
    BY <2>1, RangeOfTail DEF TypeOK
  <2>3. /\ taken \in Seq(Records) /\ Len(taken) <= BatchMax /\ taken # <<>>
        /\ Range(taken) \subseteq Range(batch[w]) \cup Range(channel[w])
    <3>1. Head(channel[w]) \in Records /\ Head(channel[w]) \in Range(channel[w])
      BY <2>1, RangeOfTail
    <3>2. Len(batch[w]) < BatchMax
      BY <1>3 DEF Take
    <3>3. /\ taken \in Seq(Records) /\ taken # <<>>
          /\ Len(taken) = Len(batch[w]) + 1
      BY <2>1, <3>1
    <3>4. Len(taken) <= BatchMax
      BY <2>1, <3>2, <3>3
    <3>5. Range(taken) = Range(batch[w]) \cup {Head(channel[w])}
      BY <2>1, <3>1, RangeOfAppend
    <3> QED
      BY <3>1, <3>3, <3>4, <3>5
  <2>4. /\ channel' = [channel EXCEPT ![w] = rest]
        /\ batch' = [batch EXCEPT ![w] = taken]
        /\ pc' = [pc EXCEPT ![w] = "gather"]
    BY <1>3 DEF Take
  <2> HIDE DEF taken, rest
  <2>5. TypeOK'
    <3>1. /\ channel' \in [Workers -> Seq(Records)] /\ batch' \in [Workers -> Seq(Records)]
          /\ pc' \in [Workers -> {"recv", "gather", "write", "backlog"}]
      BY <2>2, <2>3, <2>4 DEF TypeOK
    <3>2. \A v \in Workers : Len(channel'[v]) <= ChannelCap /\ Len(batch'[v]) <= BatchMax
      BY <2>2, <2>3, <2>4 DEF TypeOK
    <3> QED
      BY <1>3, <3>1, <3>2 DEF Take, TypeOK
  <2>6. BatchHeld'
    BY <2>3, <2>4 DEF BatchHeld, TypeOK
  <2>7. OnlyEmitted'
    <3>1. Range(channel[w]) \subseteq emitted /\ Range(batch[w]) \subseteq emitted
      BY DEF OnlyEmitted
    <3>2. \A v \in Workers :
            Range(channel'[v]) \subseteq emitted /\ Range(batch'[v]) \subseteq emitted
      BY <2>2, <2>3, <2>4, <3>1 DEF OnlyEmitted, TypeOK
    <3> QED
      BY <1>3, <3>2 DEF Take, OnlyEmitted
  <2> QED
    BY <1>3, <2>5, <2>6, <2>7 DEF Take, DrainKnows, ChargedOnce
<1>4. ASSUME NEW w \in Workers, NEW configRead \in BOOLEAN, CloseBatch(w, configRead)
      PROVE  IInv'
  <2>1. TypeOK' /\ BatchHeld'
    BY <1>4 DEF CloseBatch, TypeOK, BatchHeld
  <2> QED
    BY <1>4, <2>1 DEF CloseBatch, OnlyEmitted, DrainKnows, ChargedOnce
<1>5. ASSUME NEW w \in Workers, NEW outcome \in Outcomes, WriteBatch(w, outcome)
      PROVE  IInv'
  <2>1. batch[w] \in Seq(Records) /\ Range(batch[w]) \subseteq emitted
    BY DEF TypeOK, OnlyEmitted
  <2>2. Range(batch[w]) \subseteq Records
    BY <2>1, RangeOfRecords
  <2>3. /\ billed \subseteq billed' /\ billed' \subseteq Records /\ billed' \subseteq emitted
        /\ written' \in [Records -> Nat] /\ ChargedOnce' /\ unclear' \in Nat
    BY <1>5, <2>1, <2>2, WriteRowsCharges DEF WriteBatch
  <2>4. \/ batch' = [batch EXCEPT ![w] = <<>>] /\ pc' = [pc EXCEPT ![w] = "recv"]
        \/ batch' = batch /\ pc' = [pc EXCEPT ![w] = "backlog"]
    BY <1>5 DEF WriteBatch
  <2>5. TypeOK'
    <3>1. pc' \in [Workers -> {"recv", "gather", "write", "backlog"}]
      BY <2>4 DEF TypeOK
    <3>2. /\ batch' \in [Workers -> Seq(Records)]
          /\ \A v \in Workers : Len(batch'[v]) <= BatchMax
      <4>1. CASE batch' = [batch EXCEPT ![w] = <<>>]
        <5>1. <<>> \in Seq(Records) /\ Len(<<>>) <= BatchMax
          OBVIOUS
        <5> QED
          BY <4>1, <5>1, ShortSequences DEF TypeOK
      <4>2. CASE batch' = batch
        BY <4>2 DEF TypeOK
      <4> QED
        BY <2>4, <4>1, <4>2
    <3> QED
      BY <1>5, <2>3, <3>1, <3>2 DEF WriteBatch, TypeOK
  <2>6. BatchHeld'
    BY <1>5, <2>4 DEF WriteBatch, BatchHeld, TypeOK
  <2>7. \A v \in Workers : Range(batch'[v]) \subseteq Range(batch[v])
    <3>1. Range(<<>>) \subseteq Range(batch[w])
      BY RangeOfEmpty
    <3> QED
      BY <2>4, <3>1, FewerRecords DEF TypeOK
  <2>8. OnlyEmitted'
    BY <1>5, <2>3, <2>7 DEF WriteBatch, OnlyEmitted
  <2>9. DrainKnows'
    BY <1>5, <2>3 DEF WriteBatch, DrainKnows
  <2> QED
    BY <2>3, <2>5, <2>6, <2>8, <2>9
<1>6. ASSUME NEW w \in Workers, NEW outcome \in Outcomes, Backlog(w, outcome) PROVE IInv'
  <2>1. batch[w] \in Seq(Records) /\ batch[w] # <<>>
    BY <1>6 DEF Backlog, TypeOK, BatchHeld
  <2> DEFINE r == Head(batch[w])
             rest == Tail(batch[w])
  <2>2. /\ r \in Records /\ r \in Range(batch[w]) /\ rest \in Seq(Records)
        /\ Len(rest) = Len(batch[w]) - 1 /\ Range(rest) \subseteq Range(batch[w])
    BY <2>1, RangeOfTail
  <2>3. /\ stream \subseteq stream' /\ stream' \subseteq Entry
        /\ \A e \in stream' : e \in stream \/ e.rec = r
        /\ nextId' \in Nat /\ unclear' \in Nat
    BY <1>6, <2>2, AddToStreamGrows DEF Backlog
  <2>4. \/ /\ batch' = [batch EXCEPT ![w] = rest]
           /\ pc' = [pc EXCEPT ![w] = IF Len(batch[w]) = 1 THEN "recv" ELSE "backlog"]
        \/ UNCHANGED <<batch, pc>>
    BY <1>6 DEF Backlog
  <2>5. rest = <<>> <=> Len(batch[w]) = 1
    <3>1. rest = <<>> <=> Len(rest) = 0
      BY <2>2, OnlyEmptyHasNone
    <3>2. Len(rest) = 0 <=> Len(batch[w]) = 1
      <4> DEFINE n == Len(batch[w])
                 m == Len(rest)
      <4>1. n \in Nat /\ m = n - 1
        BY <2>1, <2>2
      <4> HIDE DEF n, m
      <4>2. m = 0 <=> n = 1
        BY <4>1
      <4> QED
        BY <4>2 DEF n, m
    <3> HIDE DEF rest
    <3> QED
      BY <3>1, <3>2
  <2> HIDE DEF r, rest
  <2>6. TypeOK'
    <3>1. pc' \in [Workers -> {"recv", "gather", "write", "backlog"}]
      BY <2>4 DEF TypeOK
    <3>2. Len(rest) <= BatchMax
      BY <2>1, <2>2 DEF TypeOK
    <3>3. /\ batch' \in [Workers -> Seq(Records)]
          /\ \A v \in Workers : Len(batch'[v]) <= BatchMax
      <4>1. CASE batch' = [batch EXCEPT ![w] = rest]
        BY <2>2, <3>2, <4>1, ShortSequences DEF TypeOK
      <4>2. CASE batch' = batch
        BY <4>2 DEF TypeOK
      <4> QED
        BY <2>4, <4>1, <4>2
    <3> QED
      BY <1>6, <2>3, <3>1, <3>3 DEF Backlog, TypeOK
  <2>7. BatchHeld'
    BY <2>4, <2>5 DEF BatchHeld, TypeOK
  <2>8. \A v \in Workers : Range(batch'[v]) \subseteq Range(batch[v])
    BY <2>2, <2>4, FewerRecords DEF TypeOK
  <2>9. OnlyEmitted'
    BY <1>6, <2>2, <2>3, <2>8 DEF Backlog, OnlyEmitted
  <2>10. DrainKnows'
    BY <1>6, <2>3 DEF Backlog, DrainKnows
  <2> QED
    BY <1>6, <2>6, <2>7, <2>9, <2>10 DEF Backlog, ChargedOnce
<1>7. ASSUME NEW r \in Records, NEW outcome \in Outcomes, BacklogOverflow(r, outcome)
      PROVE  IInv'
  <2>1. /\ stream \subseteq stream' /\ stream' \subseteq Entry
        /\ \A e \in stream' : e \in stream \/ e.rec = r
        /\ nextId' \in Nat /\ unclear' \in Nat
    BY <1>7, AddToStreamGrows DEF BacklogOverflow
  <2>2. TypeOK'
    BY <1>7, <2>1 DEF BacklogOverflow, TypeOK
  <2>3. OnlyEmitted'
    BY <1>7, <2>1 DEF BacklogOverflow, OnlyEmitted
  <2>4. DrainKnows'
    BY <1>7, <2>1 DEF BacklogOverflow, DrainKnows
  <2> QED
    BY <1>7, <2>2, <2>3, <2>4 DEF BacklogOverflow, BatchHeld, ChargedOnce
<1>8. ASSUME NEW g \in Gateways, DrainRead(g) PROVE IInv'
  <2> DEFINE next == [pc |-> "write", todo |-> Oldest(stream, ReadCount), done |-> {}]
  <2>1. next \in DrainState /\ next.todo \subseteq stream /\ next.done = {}
    BY DEF Oldest, DrainState, TypeOK
  <2>2. drain' = [drain EXCEPT ![g] = next]
    BY <1>8 DEF DrainRead
  <2> HIDE DEF next
  <2>3. TypeOK'
    <3>1. drain' \in [Gateways -> DrainState]
      BY <2>1, <2>2 DEF TypeOK
    <3> QED
      BY <1>8, <3>1 DEF DrainRead, TypeOK
  <2>4. DrainKnows'
    <3>1. /\ drain'[g] = next
          /\ \A h \in Gateways \ {g} : drain'[h] = drain[h]
      BY <2>2 DEF TypeOK
    <3> QED
      BY <1>8, <2>1, <3>1 DEF DrainRead, DrainKnows
  <2> QED
    BY <1>8, <2>3, <2>4 DEF DrainRead, BatchHeld, OnlyEmitted, ChargedOnce
<1>9. ASSUME NEW g \in Gateways, NEW outcome \in Outcomes, DrainWrite(g, outcome)
      PROVE  IInv'
  <2>1. PICK entry \in First(drain[g].todo) :
          /\ WriteRows({entry.rec}, outcome)
          /\ drain' = [drain EXCEPT ![g] =
               AfterWrite(drain[g].todo \ {entry},
                          IF outcome = "ok" THEN drain[g].done \cup {entry} ELSE drain[g].done)]
    BY <1>9 DEF DrainWrite
  <2>2. drain[g] \in DrainState /\ entry \in drain[g].todo
    BY DEF TypeOK, First
  <2>3. entry \in Entry /\ entry.rec \in Records
    BY <2>2 DEF DrainState, Entry
  <2>4. entry.rec \in emitted
    BY <2>2 DEF DrainKnows, OnlyEmitted
  <2>5. /\ billed \subseteq billed' /\ billed' \subseteq Records /\ billed' \subseteq emitted
        /\ outcome = "ok" => entry.rec \in billed'
        /\ written' \in [Records -> Nat] /\ ChargedOnce' /\ unclear' \in Nat
    BY <2>1, <2>3, <2>4, WriteRowsCharges DEF Effective
  <2> DEFINE todo == drain[g].todo \ {entry}
             done == IF outcome = "ok" THEN drain[g].done \cup {entry} ELSE drain[g].done
             next == AfterWrite(todo, done)
  <2>6. /\ todo \subseteq drain[g].todo /\ todo \in SUBSET Entry /\ done \in SUBSET Entry
        /\ \A e \in done : e \in drain[g].done \/ e.rec \in billed'
    BY <2>2, <2>3, <2>5 DEF DrainState
  <2>7. drain' = [drain EXCEPT ![g] = next]
    BY <2>1
  <2> HIDE DEF todo, done
  <2>8. next \in DrainState /\ next.todo = todo /\ next.done = done
    BY <2>6 DEF AfterWrite, DrainState
  <2> HIDE DEF next
  <2>9. TypeOK'
    BY <1>9, <2>5, <2>7, <2>8 DEF DrainWrite, TypeOK
  <2>10. DrainKnows'
    BY <1>9, <2>5, <2>6, <2>7, <2>8 DEF DrainWrite, DrainKnows, TypeOK
  <2>11. OnlyEmitted'
    BY <1>9, <2>5 DEF DrainWrite, OnlyEmitted
  <2> QED
    BY <1>9, <2>5, <2>9, <2>10, <2>11 DEF DrainWrite, BatchHeld
<1>10. ASSUME NEW g \in Gateways, NEW outcome \in Outcomes, DrainAck(g, outcome)
       PROVE  IInv'
  <2>1. PICK entry \in First(drain[g].done) :
          /\ stream' = IF Effective(outcome) THEN stream \ {entry} ELSE stream
          /\ drain' = [drain EXCEPT ![g] =
               IF outcome = "ok" /\ drain[g].done \ {entry} # {}
                 THEN [drain[g] EXCEPT !.done = drain[g].done \ {entry}] ELSE IdleDrain]
    BY <1>10 DEF DrainAck
  <2>2. entry \in drain[g].done /\ entry.rec \in billed
    BY DEF First, DrainKnows
  <2> DEFINE next == IF outcome = "ok" /\ drain[g].done \ {entry} # {}
                       THEN [drain[g] EXCEPT !.done = drain[g].done \ {entry}] ELSE IdleDrain
  <2>3. drain[g] \in DrainState
    BY DEF TypeOK
  <2>4. /\ next \in DrainState
        /\ next.todo \subseteq drain[g].todo /\ next.done \subseteq drain[g].done
    BY <2>3 DEF DrainState, IdleDrain
  <2>5. drain' = [drain EXCEPT ![g] = next]
    BY <2>1
  <2> HIDE DEF next
  <2>6. stream' \subseteq stream /\ \A e \in stream \ stream' : e.rec \in billed
    BY <2>1, <2>2
  <2>7. unclear' \in Nat
    BY <1>10 DEF DrainAck, Unclear, TypeOK
  <2>8. TypeOK'
    BY <1>10, <2>4, <2>5, <2>6, <2>7 DEF DrainAck, TypeOK
  <2>9. DrainKnows'
    BY <1>10, <2>4, <2>5, <2>6 DEF DrainAck, DrainKnows, TypeOK
  <2>10. OnlyEmitted'
    BY <1>10, <2>6 DEF DrainAck, OnlyEmitted
  <2> QED
    BY <1>10, <2>8, <2>9, <2>10 DEF DrainAck, BatchHeld, ChargedOnce
<1>11. ASSUME NEW g \in Gateways, Crash(g) \/ Stop(g) PROVE IInv'
  <2>1. LoseMemory(g) /\ crashes' \in Nat /\ stops' \in Nat
    BY <1>11 DEF Crash, Stop, TypeOK
  <2>2. \A w \in Workers :
          \/ channel'[w] = <<>> /\ batch'[w] = <<>> /\ pc'[w] = "recv"
          \/ channel'[w] = channel[w] /\ batch'[w] = batch[w] /\ pc'[w] = pc[w]
    BY <2>1 DEF LoseMemory
  <2>3. /\ channel' \in [Workers -> Seq(Records)] /\ batch' \in [Workers -> Seq(Records)]
        /\ pc' \in [Workers -> {"recv", "gather", "write", "backlog"}]
        /\ \A w \in Workers : Len(channel'[w]) <= ChannelCap /\ Len(batch'[w]) <= BatchMax
    BY <2>1 DEF LoseMemory, TypeOK
  <2>4. drain' \in [Gateways -> DrainState] /\ drain' = [drain EXCEPT ![g] = IdleDrain]
    BY <2>1 DEF LoseMemory, TypeOK, IdleDrain, DrainState
  <2>5. overflow' \subseteq overflow
    BY <2>1 DEF LoseMemory
  <2>6. TypeOK'
    BY <2>1, <2>3, <2>4, <2>5 DEF LoseMemory, TypeOK
  <2>7. BatchHeld'
    BY <2>2 DEF BatchHeld
  <2>8. OnlyEmitted'
    BY <2>1, <2>2, <2>5, RangeOfEmpty DEF LoseMemory, OnlyEmitted
  <2>9. DrainKnows'
    BY <2>1, <2>4 DEF LoseMemory, DrainKnows, IdleDrain, TypeOK
  <2> QED
    BY <2>1, <2>6, <2>7, <2>8, <2>9 DEF LoseMemory, ChargedOnce
<1>12. CASE UNCHANGED vars
  BY <1>12 DEF vars, TypeOK, BatchHeld, OnlyEmitted, DrainKnows, ChargedOnce
<1> QED
  BY <1>1, <1>2, <1>3, <1>4, <1>5, <1>6, <1>7, <1>8, <1>9, <1>10, <1>11, <1>12
  DEF Next, RecordStep, WorkerStep, OverflowStep, DrainStep, EndStep

LEMMA IInvHolds == Spec => []IInv
BY InitIInv, NextIInv, PTL DEF Spec

\* Every reachable state is well typed and within the limits of channels and batches.
THEOREM PipelineTypeCorrect == Spec => []TypeOK
<1>1. IInv => TypeOK
  BY DEF IInv
<1> QED
  BY <1>1, IInvHolds, PTL

\* No record is charged twice and none is billed without a charge, for any number of
\* repeated XADDs, unclear commits and instances that drain the same stream.
THEOREM ChargedOnceHolds == Spec => []ChargedOnce
<1>1. IInv => ChargedOnce
  BY DEF IInv
<1> QED
  BY <1>1, IInvHolds, PTL

\* An entry that leaves the stream is billed: no instance acknowledges what it or
\* another one has not written.
THEOREM OnlyBilledLeaveHolds == Spec => OnlyBilledLeave
<1>1. IInv /\ [Next]_vars => [\A e \in stream \ stream' : e.rec \in billed]_vars
  <2> SUFFICES ASSUME IInv, [Next]_vars, NEW e \in stream, e \notin stream'
               PROVE  e.rec \in billed
    OBVIOUS
  <2>1. ASSUME NEW g \in Gateways, NEW outcome \in Outcomes, DrainAck(g, outcome)
        PROVE  e.rec \in billed
    BY <2>1 DEF DrainAck, First, IInv, DrainKnows
  <2>2. CASE RecordStep
    BY <2>2 DEF RecordStep, Emit, BecomeWritable
  <2>3. CASE WorkerStep
    BY <2>3 DEF WorkerStep, Take, CloseBatch, WriteBatch, Backlog, AddToStream
  <2>4. CASE OverflowStep
    BY <2>4 DEF OverflowStep, BacklogOverflow, AddToStream
  <2>5. CASE DrainStep
    BY <2>1, <2>5 DEF DrainStep, DrainRead, DrainWrite
  <2>6. CASE EndStep
    BY <2>6 DEF EndStep, Crash, Stop, LoseMemory
  <2>7. CASE UNCHANGED vars
    BY <2>7 DEF vars
  <2> QED
    BY <2>2, <2>3, <2>4, <2>5, <2>6, <2>7 DEF Next
<1> QED
  BY <1>1, IInvHolds, PTL DEF Spec, OnlyBilledLeave

-----------------------------------------------------------------------------
(* UsagePipeline implements UsageDelivery *)

PlaceOf == [r \in Records |-> Place(r)]
Ends == crashes + stops

\* A step that changes no place, writes nothing and ends no instance is a stutter.
LEMMA NothingMoves ==
  ASSUME \A r \in Records : Place(r)' = Place(r), written' = written, Ends' = Ends
  PROVE  UNCHANGED <<PlaceOf, written, Ends>>
BY DEF PlaceOf

\* A step that takes one record from one place to the next is one of UsageDelivery.
LEMMA OneMoves ==
  ASSUME NEW r \in Records, \A q \in Records \ {r} : Place(q)' = Place(q),
         written' = written, Ends' = Ends
  PROVE  /\ Place(r) = "unsent" /\ Place(r)' = "memory" => Delivery!Next
         /\ Place(r) = "memory" /\ Place(r)' = "stream" => Delivery!Next
<1>1. CASE Place(r) = "unsent" /\ Place(r)' = "memory"
  <2>1. Delivery!Emit({r})
    BY <1>1 DEF Delivery!Emit, Delivery!Move, Ends
  <2> QED
    BY <2>1 DEF Delivery!Next
<1>2. CASE Place(r) = "memory" /\ Place(r)' = "stream"
  <2>1. Delivery!Store({r})
    BY <1>2 DEF Delivery!Store, Delivery!Move, Ends
  <2> QED
    BY <2>1 DEF Delivery!Next
<1> QED
  BY <1>1, <1>2

\* A record whose whereabouts stay the same keeps its place.
LEMMA PlaceKept ==
  ASSUME NEW r \in Records, r \in emitted' <=> r \in emitted, r \in billed' <=> r \in billed,
         InStream(r)' <=> InStream(r), InStream(r) \/ (InMemory(r)' <=> InMemory(r))
  PROVE  Place(r)' = Place(r)
BY DEF Place

\* A transaction moves the records whose row is new to "billed" and adds one to what
\* is written of each of them.
LEMMA BillStep ==
  ASSUME IInv, NEW rs \in SUBSET Records, rs \subseteq emitted,
         \A r \in rs : r \in billed \/ InStream(r) \/ InMemory(r),
         NEW outcome \in Outcomes, WriteRows(rs, outcome),
         emitted' = emitted, stream' = stream, Ends' = Ends,
         \A q \in Records :
           (Effective(outcome) /\ q \in rs) \/ (InMemory(q)' <=> InMemory(q))
  PROVE  Delivery!Next \/ UNCHANGED <<PlaceOf, written, Ends>>
<1>1. \A q \in Records : InStream(q)' <=> InStream(q)
  BY DEF InStream
<1>2. CASE ~Effective(outcome)
  <2>1. billed' = billed /\ written' = written
    BY <1>2 DEF WriteRows
  <2>2. \A q \in Records : Place(q)' = Place(q)
    BY <1>1, <1>2, <2>1, PlaceKept
  <2> QED
    BY <2>1, <2>2, NothingMoves
<1>3. CASE Effective(outcome)
  <2> DEFINE S == rs \ billed
  <2>1. /\ billed' = billed \cup rs
        /\ written' = [r \in Records |-> IF r \in S THEN written[r] + 1 ELSE written[r]]
    BY <1>3 DEF WriteRows, NewRows
  <2>2. \A q \in S : Place(q) \in {"memory", "stream"} /\ Place(q)' = "billed"
    BY <2>1 DEF Place
  <2>3. \A q \in Records \ S : Place(q)' = Place(q)
    <3> SUFFICES ASSUME NEW q \in Records, q \notin S PROVE Place(q)' = Place(q)
      OBVIOUS
    <3>1. CASE q \in billed
      BY <2>1, <3>1 DEF Place
    <3>2. CASE q \notin rs
      BY <1>1, <2>1, <3>2, PlaceKept
    <3> QED
      BY <3>1, <3>2
  <2>4. S \in SUBSET Records
    OBVIOUS
  <2> HIDE DEF S
  <2>5. Delivery!Bill(S)
    BY <2>1, <2>2, <2>3, <2>4 DEF Delivery!Bill, Delivery!Move, Ends
  <2> QED
    BY <2>4, <2>5 DEF Delivery!Next
<1> QED
  BY <1>2, <1>3

\* An XADD that took effect moves its record to "stream", unless it is there already
\* or billed.
LEMMA StoreStep ==
  ASSUME IInv, NEW r \in Records, r \in emitted, InMemory(r),
         NEW outcome \in Outcomes, AddToStream(r, outcome),
         emitted' = emitted, billed' = billed, written' = written, Ends' = Ends,
         \A q \in Records :
           (Effective(outcome) /\ q = r) \/ (InMemory(q)' <=> InMemory(q))
  PROVE  Delivery!Next \/ UNCHANGED <<PlaceOf, written, Ends>>
<1>1. CASE ~Effective(outcome)
  <2>1. \A q \in Records : InStream(q)' <=> InStream(q)
    BY <1>1 DEF AddToStream, InStream
  <2> QED
    BY <1>1, <2>1, PlaceKept, NothingMoves
<1>2. CASE Effective(outcome)
  <2>1. InStream(r)' /\ \A q \in Records \ {r} : InStream(q)' <=> InStream(q)
    <3> DEFINE new == [id |-> nextId, rec |-> r]
    <3>1. stream' = stream \cup {new} /\ new.rec = r
      BY <1>2 DEF AddToStream
    <3> HIDE DEF new
    <3> QED
      BY <3>1 DEF InStream
  <2>2. \A q \in Records \ {r} : Place(q)' = Place(q)
    BY <2>1, PlaceKept
  <2>3. \/ Place(r)' = Place(r)
        \/ Place(r) = "memory" /\ Place(r)' = "stream"
    BY <2>1 DEF Place
  <2> QED
    BY <2>2, <2>3, OneMoves, NothingMoves
<1> QED
  BY <1>1, <1>2

\* Every step of the pipeline is a step of UsageDelivery or a stutter.
LEMMA DeliveryStep ==
  IInv /\ [Next]_vars => Delivery!Next \/ UNCHANGED <<PlaceOf, written, Ends>>
<1> SUFFICES ASSUME IInv, [Next]_vars
             PROVE  Delivery!Next \/ UNCHANGED <<PlaceOf, written, Ends>>
  OBVIOUS
<1> USE DEF IInv
<1>1. ASSUME NEW r \in Records, Emit(r)
      PROVE  Delivery!Next \/ UNCHANGED <<PlaceOf, written, Ends>>
  <2> DEFINE w == ShardOf[r]
  <2>1. w \in Workers /\ channel[w] \in Seq(Records)
    BY DEF TypeOK
  <2>2. \A q \in Records \ {r} : InMemory(q)' <=> InMemory(q)
    <3>1. CASE channel' = [channel EXCEPT ![w] = Append(@, r)] /\ UNCHANGED overflow
      <4>1. \A v \in Workers : Range(channel'[v]) \ {r} = Range(channel[v]) \ {r}
        BY <2>1, <3>1, RangeOfAppend DEF TypeOK
      <4> QED
        BY <1>1, <3>1, <4>1 DEF Emit, InMemory
    <3>2. CASE overflow' = overflow \cup {r} /\ UNCHANGED channel
      BY <1>1, <3>2 DEF Emit, InMemory
    <3> QED
      BY <1>1, <3>1, <3>2 DEF Emit
  <2>3. InMemory(r)'
    <3>1. CASE channel' = [channel EXCEPT ![w] = Append(@, r)]
      BY <2>1, <3>1, RangeOfAppend DEF InMemory, TypeOK
    <3>2. CASE overflow' = overflow \cup {r}
      BY <3>2 DEF InMemory
    <3> QED
      BY <1>1, <3>1, <3>2 DEF Emit
  <2>4. /\ emitted' = emitted \cup {r} /\ billed' = billed /\ stream' = stream
        /\ written' = written /\ Ends' = Ends /\ r \notin emitted
    BY <1>1 DEF Emit, Ends
  <2>5. \A q \in Records : InStream(q)' <=> InStream(q)
    BY <2>4 DEF InStream
  <2>6. \A q \in Records \ {r} : Place(q)' = Place(q)
    BY <2>2, <2>4, <2>5, PlaceKept
  <2>7. r \notin billed /\ ~InStream(r)
    BY <2>4 DEF OnlyEmitted, InStream
  <2>8. Place(r) = "unsent" /\ Place(r)' = "memory"
    BY <2>3, <2>4, <2>5, <2>7 DEF Place
  <2> QED
    BY <2>4, <2>6, <2>8, OneMoves
<1>2. ASSUME \/ \E r \in Records : BecomeWritable(r)
             \/ \E w \in Workers, configRead \in BOOLEAN : CloseBatch(w, configRead)
             \/ \E g \in Gateways : DrainRead(g)
             \/ UNCHANGED vars
      PROVE  UNCHANGED <<PlaceOf, written, Ends>>
  <2>1. UNCHANGED <<emitted, billed, stream, written, overflow, channel, batch, crashes, stops>>
    BY <1>2 DEF BecomeWritable, CloseBatch, DrainRead, vars
  <2>2. \A q \in Records : (InStream(q)' <=> InStream(q)) /\ (InMemory(q)' <=> InMemory(q))
    BY <2>1 DEF InStream, InMemory
  <2> QED
    BY <2>1, <2>2, PlaceKept, NothingMoves DEF Ends
<1>3. ASSUME NEW w \in Workers, Take(w) PROVE UNCHANGED <<PlaceOf, written, Ends>>
  <2>1. channel[w] \in Seq(Records) /\ channel[w] # <<>> /\ batch[w] \in Seq(Records)
    BY <1>3 DEF Take, TypeOK
  <2>2. Range(Append(batch[w], Head(channel[w]))) \cup Range(Tail(channel[w]))
          = Range(channel[w]) \cup Range(batch[w])
    BY <2>1, RangeOfTail, RangeOfAppend
  <2>3. \A v \in Workers :
          Range(channel'[v]) \cup Range(batch'[v]) = Range(channel[v]) \cup Range(batch[v])
    BY <1>3, <2>2 DEF Take, TypeOK
  <2>4. \A q \in Records : InMemory(q)' <=> InMemory(q)
    BY <1>3, <2>3 DEF Take, InMemory
  <2>5. \A q \in Records : InStream(q)' <=> InStream(q)
    BY <1>3 DEF Take, InStream
  <2> QED
    BY <1>3, <2>4, <2>5, PlaceKept, NothingMoves DEF Take, Ends
<1>4. ASSUME NEW w \in Workers, NEW outcome \in Outcomes, WriteBatch(w, outcome)
      PROVE  Delivery!Next \/ UNCHANGED <<PlaceOf, written, Ends>>
  <2> DEFINE rs == Range(batch[w])
  <2>1. /\ rs \in SUBSET Records /\ rs \subseteq emitted
        /\ \A r \in rs : r \in billed \/ InStream(r) \/ InMemory(r)
    BY RangeOfRecords DEF TypeOK, OnlyEmitted, InMemory
  <2>2. CASE batch' = batch
    <3>1. \A q \in Records : InMemory(q)' <=> InMemory(q)
      BY <1>4, <2>2 DEF WriteBatch, InMemory
    <3> QED
      BY <1>4, <2>1, <3>1, BillStep DEF WriteBatch, Ends
  <2>3. CASE outcome = "ok" /\ batch' = [batch EXCEPT ![w] = <<>>]
    <3>1. \A v \in Workers : Range(batch'[v]) = IF v = w THEN {} ELSE Range(batch[v])
      BY <2>3, RangeOfEmpty DEF TypeOK
    <3>2. \A q \in Records \ rs : InMemory(q)' <=> InMemory(q)
      BY <1>4, <3>1 DEF WriteBatch, InMemory
    <3>3. Effective(outcome)
      BY <2>3 DEF Effective
    <3> QED
      BY <1>4, <2>1, <3>2, <3>3, BillStep DEF WriteBatch, Ends
  <2> QED
    BY <1>4, <2>2, <2>3 DEF WriteBatch
<1>5. ASSUME NEW w \in Workers, NEW outcome \in Outcomes, Backlog(w, outcome)
      PROVE  Delivery!Next \/ UNCHANGED <<PlaceOf, written, Ends>>
  <2>1. batch[w] \in Seq(Records) /\ batch[w] # <<>>
    BY <1>5 DEF Backlog, TypeOK, BatchHeld
  <2> DEFINE r == Head(batch[w])
  <2>2. /\ r \in Records /\ r \in Range(batch[w])
        /\ Range(batch[w]) = {r} \cup Range(Tail(batch[w]))
    BY <2>1, RangeOfTail
  <2>3. r \in emitted /\ InMemory(r)
    BY <2>2 DEF OnlyEmitted, InMemory
  <2>4. CASE batch' = batch
    <3>1. \A q \in Records : InMemory(q)' <=> InMemory(q)
      BY <1>5, <2>4 DEF Backlog, InMemory
    <3> QED
      BY <1>5, <2>2, <2>3, <3>1, StoreStep DEF Backlog, Ends
  <2>5. CASE outcome = "ok" /\ batch' = [batch EXCEPT ![w] = Tail(@)]
    <3>1. \A v \in Workers : Range(batch'[v]) \ {r} = Range(batch[v]) \ {r}
      BY <2>2, <2>5 DEF TypeOK
    <3>2. \A q \in Records \ {r} : InMemory(q)' <=> InMemory(q)
      BY <1>5, <3>1 DEF Backlog, InMemory
    <3>3. Effective(outcome)
      BY <2>5 DEF Effective
    <3> QED
      BY <1>5, <2>2, <2>3, <3>2, <3>3, StoreStep DEF Backlog, Ends
  <2> QED
    BY <1>5, <2>4, <2>5 DEF Backlog
<1>6. ASSUME NEW r \in Records, NEW outcome \in Outcomes, BacklogOverflow(r, outcome)
      PROVE  Delivery!Next \/ UNCHANGED <<PlaceOf, written, Ends>>
  <2>1. r \in emitted /\ InMemory(r)
    BY <1>6 DEF BacklogOverflow, OnlyEmitted, InMemory
  <2>2. CASE overflow' = overflow
    <3>1. \A q \in Records : InMemory(q)' <=> InMemory(q)
      BY <1>6, <2>2 DEF BacklogOverflow, InMemory
    <3> QED
      BY <1>6, <2>1, <3>1, StoreStep DEF BacklogOverflow, Ends
  <2>3. CASE outcome = "ok" /\ overflow' = overflow \ {r}
    <3>1. \A q \in Records \ {r} : InMemory(q)' <=> InMemory(q)
      BY <1>6, <2>3 DEF BacklogOverflow, InMemory
    <3>2. Effective(outcome)
      BY <2>3 DEF Effective
    <3> QED
      BY <1>6, <2>1, <3>1, <3>2, StoreStep DEF BacklogOverflow, Ends
  <2> QED
    BY <1>6, <2>2, <2>3 DEF BacklogOverflow
<1>7. ASSUME NEW g \in Gateways, NEW outcome \in Outcomes, DrainWrite(g, outcome)
      PROVE  Delivery!Next \/ UNCHANGED <<PlaceOf, written, Ends>>
  <2>1. PICK entry \in First(drain[g].todo) : WriteRows({entry.rec}, outcome)
    BY <1>7 DEF DrainWrite
  <2>2. entry \in drain[g].todo /\ entry.rec \in Records
    BY DEF TypeOK, First, DrainState, Entry
  <2>3. entry.rec \in emitted /\ (entry.rec \in billed \/ InStream(entry.rec))
    BY <2>2 DEF DrainKnows, OnlyEmitted, InStream
  <2>4. \A q \in Records : InMemory(q)' <=> InMemory(q)
    BY <1>7 DEF DrainWrite, InMemory
  <2> QED
    BY <1>7, <2>1, <2>2, <2>3, <2>4, BillStep DEF DrainWrite, Ends
<1>8. ASSUME NEW g \in Gateways, NEW outcome \in Outcomes, DrainAck(g, outcome)
      PROVE  UNCHANGED <<PlaceOf, written, Ends>>
  <2>1. PICK entry \in First(drain[g].done) :
          stream' = IF Effective(outcome) THEN stream \ {entry} ELSE stream
    BY <1>8 DEF DrainAck
  <2>2. entry.rec \in billed
    BY DEF First, DrainKnows
  <2>3. \A q \in Records \ billed : InStream(q)' <=> InStream(q)
    BY <2>1, <2>2 DEF InStream
  <2>4. \A q \in Records : InMemory(q)' <=> InMemory(q)
    BY <1>8 DEF DrainAck, InMemory
  <2>5. emitted' = emitted /\ billed' = billed /\ written' = written /\ Ends' = Ends
    BY <1>8 DEF DrainAck, Ends
  <2>6. \A q \in Records : Place(q)' = Place(q)
    <3> SUFFICES ASSUME NEW q \in Records PROVE Place(q)' = Place(q)
      OBVIOUS
    <3>1. CASE q \in billed
      BY <2>5, <3>1 DEF Place
    <3>2. CASE q \notin billed
      BY <2>3, <2>4, <2>5, <3>2, PlaceKept
    <3> QED
      BY <3>1, <3>2
  <2> QED
    BY <2>5, <2>6, NothingMoves
<1>9. ASSUME NEW g \in Gateways, Crash(g) \/ Stop(g) PROVE Delivery!Next
  <2> DEFINE S == {r \in Records : Place(r) = "memory" /\ ~InMemory(r)'}
  <2>1. LoseMemory(g) /\ Ends' = Ends + 1
    BY <1>9 DEF Crash, Stop, Ends, TypeOK
  <2>2. emitted' = emitted /\ billed' = billed /\ stream' = stream /\ written' = written
    BY <2>1 DEF LoseMemory
  <2>3. \A q \in Records : InStream(q)' <=> InStream(q)
    BY <2>2 DEF InStream
  <2>4. \A v \in Workers : /\ Range(channel'[v]) \subseteq Range(channel[v])
                           /\ Range(batch'[v]) \subseteq Range(batch[v])
    BY <2>1, RangeOfEmpty DEF LoseMemory
  <2>5. \A q \in Records : InMemory(q)' => InMemory(q)
    BY <2>1, <2>4 DEF LoseMemory, InMemory
  <2>6. \A q \in S : Place(q) = "memory" /\ Place(q)' = "lost"
    BY <2>2, <2>3 DEF Place
  <2>7. \A q \in Records \ S : Place(q)' = Place(q)
    BY <2>2, <2>3, <2>5 DEF Place
  <2>8. S \in SUBSET Records
    OBVIOUS
  <2> HIDE DEF S
  <2>9. Delivery!End(S)
    BY <2>1, <2>2, <2>6, <2>7, <2>8 DEF Delivery!End, Delivery!Move, Ends
  <2> QED
    BY <2>8, <2>9 DEF Delivery!Next
<1> QED
  BY <1>1, <1>2, <1>3, <1>4, <1>5, <1>6, <1>7, <1>8, <1>9
  DEF Next, RecordStep, WorkerStep, OverflowStep, DrainStep, EndStep

\* The pipeline implements UsageDelivery: from the moment it is emitted a record is in
\* the memory of an instance, in the stream or billed, it goes from one to the next in
\* that order, it is written once, and only memory is lost, when an instance ends.
THEOREM DeliveryImplemented == Spec => DeliveryHolds
<1>1. Init => Delivery!Init
  BY DEF Init, Delivery!Init, Place
<1>2. IInv /\ [Next]_vars => [Delivery!Next]_<<PlaceOf, written, Ends>>
  BY DeliveryStep
<1> QED
  BY <1>1, <1>2, IInvHolds, PTL DEF Spec, DeliveryHolds, Delivery!Spec, PlaceOf, Ends
=============================================================================
