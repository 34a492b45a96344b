--------------------------- MODULE UiQueriesProofs ---------------------------
(***************************************************************************)
(* Proofs about UiQueries for any number of changes and errors: fetches,   *)
(* retries, invalidations and changes of page never leave an old answer on *)
(* the screen for a change that a key joins to the query.  The catalogue   *)
(* itself is not looked into.                                              *)
(***************************************************************************)
EXTENDS UiQueries, TLAPS

\* An edit whose refresh the hooks see to and nothing has swallowed.
Due(e) == edit[e] = "answered" /\ Covered(e) /\ e \notin missed

\* The answer in flight reflects it, and when none is in flight the entry does or is
\* marked; what is marked and on the screen is being fetched or has failed.
Fresh ==
  /\ fetch.at = "answered" => \A e \in Edits : Due(e) => e \in fetch.got
  /\ fetch.at = "none" /\ entry.has
       => \A e \in Edits : Due(e) => e \in entry.data \/ entry.invalid
  /\ fetch.at = "none" /\ mounted /\ entry.has => ~entry.invalid \/ entry.failed

\* Only a change made where the query is shown is answered there.
Heard == \A e \in Edits : edit[e] \in {"committed", "answered"} => Here(e)

Chosen == act \in [Edits -> Changes] /\ \A e \in Edits : act[e] \in Acts[e] /\ Touches(act[e], hook)

\* The inductive invariant.
IInv == TypeOK /\ Fresh /\ Heard /\ Chosen

USE QueriesAssumption

-----------------------------------------------------------------------------

LEMMA EntryFields ==
  ASSUME NEW x \in Entry
  PROVE  /\ \A m \in {[x EXCEPT !.invalid = TRUE]} :
              /\ m \in Entry /\ m.has = x.has /\ m.data = x.data /\ m.failed = x.failed
              /\ m.invalid = TRUE
         /\ \A m \in {[x EXCEPT !.aged = TRUE]} :
              /\ m \in Entry /\ m.has = x.has /\ m.data = x.data /\ m.failed = x.failed
              /\ m.invalid = x.invalid
         /\ \A m \in {[x EXCEPT !.failed = TRUE, !.invalid = TRUE]} :
              /\ m \in Entry /\ m.has = x.has /\ m.data = x.data /\ m.failed = TRUE
              /\ m.invalid = TRUE
BY DEF Entry

LEMMA NoEntryIs ==
  /\ NoEntry \in Entry /\ NoEntry.has = FALSE /\ NoEntry.data = {}
  /\ NoEntry.invalid = FALSE /\ NoEntry.failed = FALSE
BY DEF NoEntry, Entry

LEMMA NoFetchIs ==
  /\ NoFetch \in Fetch /\ NoFetch.at = "none" /\ NoFetch.got = {}
  /\ NewFetch \in Fetch /\ NewFetch.at = "asked" /\ NewFetch.got = {}
BY DEF NoFetch, NewFetch, Fetch

LEMMA InitIInv == Init => IInv
<1> SUFFICES ASSUME Init PROVE IInv
  OBVIOUS
<1>1. /\ hook \in Watched /\ act \in [Edits -> Changes]
      /\ \A e \in Edits : act[e] \in Acts[e] /\ Touches(act[e], hook)
      /\ edit = [e \in Edits |-> "idle"] /\ entry = NoEntry /\ fetch = NoFetch
      /\ mounted = FALSE /\ missed = {} /\ faults = 0
  BY DEF Init
<1>2. TypeOK
  BY <1>1, NoEntryIs, NoFetchIs DEF TypeOK, EditStates
<1> QED
  BY <1>1, <1>2, NoEntryIs, NoFetchIs DEF IInv, Fresh, Heard, Chosen, Due

-----------------------------------------------------------------------------
(* A step keeps the invariant *)

\* What the steps of the page and of the request have in common.
SameEdits == UNCHANGED <<hook, act, edit>>

LEMMA FetchKeeps ==
  ASSUME IInv, SameEdits, entry' \in Entry, fetch' \in Fetch, mounted' \in BOOLEAN,
         missed' \subseteq Edits, faults' \in Nat,
         entry'.data \subseteq Committed, fetch'.got \subseteq Committed,
         entry'.failed => entry'.invalid, mounted' => Cached', Fresh'
  PROVE  IInv'
<1>1. Committed' = Committed
  BY DEF SameEdits, Committed
<1>2. TypeOK'
  BY <1>1 DEF IInv, TypeOK, SameEdits
<1>3. Heard' /\ Chosen'
  BY DEF IInv, SameEdits, Heard, Chosen, Here, view
<1> QED
  BY <1>2, <1>3 DEF IInv

LEMMA DueSame == ASSUME SameEdits, NEW e \in Edits, missed' = missed PROVE Due(e)' <=> Due(e)
BY DEF SameEdits, Due, Covered

LEMMA PageKeeps == ASSUME IInv, PageStep PROVE IInv'
<1>0. /\ entry \in Entry /\ fetch \in Fetch /\ mounted \in BOOLEAN /\ missed \subseteq Edits
      /\ faults \in Nat /\ entry.data \subseteq Committed /\ fetch.got \subseteq Committed
      /\ (entry.failed => entry.invalid) /\ (mounted => Cached) /\ Fresh
  BY DEF IInv, TypeOK
<1>1. CASE Mount
  <2>1. /\ SameEdits /\ mounted' = TRUE /\ UNCHANGED <<entry, missed, faults>>
        /\ \/ fetch' = NewFetch
           \/ fetch' = fetch /\ (fetch.at # "none" \/ (entry.has /\ ~entry.invalid))
    <3> DEFINE old == ~entry.has \/ entry.invalid \/ entry.aged
    <3>1. /\ mounted' = TRUE /\ UNCHANGED <<hook, act, edit, entry, missed, faults>>
          /\ fetch' = IF fetch.at = "none" /\ old THEN NewFetch ELSE fetch
      BY <1>1 DEF Mount, Quiet
    <3>2. ~old => entry.has /\ ~entry.invalid
      BY <1>0 DEF Entry
    <3> HIDE DEF old
    <3>3. CASE fetch.at = "none" /\ old
      BY <3>1, <3>3 DEF SameEdits
    <3>4. CASE fetch.at # "none"
      BY <3>1, <3>4 DEF SameEdits
    <3>5. CASE ~old
      <4>1. entry.has /\ ~entry.invalid
        BY <3>2, <3>5
      <4>2. fetch' = fetch
        BY <3>1, <3>5
      <4> QED
        BY <3>1, <4>1, <4>2, Zenon DEF SameEdits
    <3> QED
      BY <3>3, <3>4, <3>5
  <2>2. fetch' \in Fetch /\ fetch'.got \subseteq Committed
    BY <1>0, <2>1, NoFetchIs
  <2>3. Cached'
    BY <2>1, NoEntryIs, NoFetchIs DEF Cached, Quiet
  <2>4. Fresh'
    BY <1>0, <2>1, DueSame, NoFetchIs DEF Fresh
  <2> QED
    BY <1>0, <2>1, <2>2, <2>3, <2>4, FetchKeeps
<1>2. CASE Unmount
  <2>1. SameEdits /\ mounted' = FALSE /\ UNCHANGED <<entry, fetch, missed, faults>>
    BY <1>2 DEF Unmount, SameEdits
  <2>2. Fresh'
    BY <1>0, <2>1, DueSame DEF Fresh
  <2> QED
    BY <1>0, <2>1, <2>2, FetchKeeps
<1>3. CASE Age
  <2>1. /\ SameEdits /\ entry' = [entry EXCEPT !.aged = TRUE]
        /\ UNCHANGED <<fetch, mounted, missed, faults>> /\ entry.has = TRUE
    BY <1>0, <1>3 DEF Age, SameEdits, Entry
  <2>2. /\ entry' \in Entry /\ entry'.has = entry.has /\ entry'.data = entry.data
        /\ entry'.failed = entry.failed /\ entry'.invalid = entry.invalid
    BY <1>0, <2>1, EntryFields
  <2>3. Fresh'
    BY <1>0, <2>1, <2>2, DueSame DEF Fresh
  <2>4. Cached'
    BY <2>1, <2>2, NoEntryIs DEF Cached
  <2> QED
    BY <1>0, <2>1, <2>2, <2>3, <2>4, FetchKeeps
<1>4. CASE Forget
  <2>1. /\ SameEdits /\ entry' = NoEntry /\ missed' = {} /\ UNCHANGED <<fetch, mounted, faults>>
        /\ fetch.at = "none" /\ ~mounted
    BY <1>4 DEF Forget, SameEdits, Quiet
  <2>2. Fresh'
    BY <2>1, NoEntryIs DEF Fresh
  <2> QED
    BY <1>0, <2>1, <2>2, NoEntryIs, FetchKeeps
<1>5. CASE Poll
  <2>1. SameEdits /\ fetch' = NewFetch /\ UNCHANGED <<entry, mounted, missed, faults>>
    BY <1>5 DEF Poll, SameEdits
  <2>2. Fresh' /\ Cached'
    BY <2>1, NoFetchIs DEF Fresh, Cached, Quiet
  <2> QED
    BY <1>0, <2>1, <2>2, NoFetchIs, FetchKeeps
<1> QED
  BY <1>1, <1>2, <1>3, <1>4, <1>5 DEF PageStep

LEMMA FetchStepKeeps == ASSUME IInv, FetchStep PROVE IInv'
<1>0. /\ entry \in Entry /\ fetch \in Fetch /\ mounted \in BOOLEAN /\ missed \subseteq Edits
      /\ faults \in Nat /\ entry.data \subseteq Committed /\ fetch.got \subseteq Committed
      /\ (entry.failed => entry.invalid) /\ (mounted => Cached) /\ Fresh
  BY DEF IInv, TypeOK
<1>1. CASE Read
  <2>1. /\ SameEdits /\ fetch.at = "asked"
        /\ fetch' = [fetch EXCEPT !.at = "answered", !.got = Committed]
        /\ UNCHANGED <<entry, mounted, missed, faults>>
    BY <1>1 DEF Read, SameEdits
  <2>2. fetch' \in Fetch /\ fetch'.at = "answered" /\ fetch'.got = Committed
    <3>1. Committed \subseteq Edits
      BY DEF Committed
    <3> QED
      BY <1>0, <2>1, <3>1 DEF Fetch
  <2>3. \A e \in Edits : Due(e) => e \in Committed
    BY DEF Due, Committed
  <2>4. Fresh'
    BY <2>1, <2>2, <2>3, DueSame DEF Fresh
  <2>5. Cached'
    BY <2>2 DEF Cached, Quiet
  <2> QED
    BY <1>0, <2>1, <2>2, <2>4, <2>5, FetchKeeps
<1>2. CASE Store
  <2>1. /\ SameEdits /\ fetch.at = "answered"
        /\ entry' = [NoEntry EXCEPT !.has = TRUE, !.data = fetch.got]
        /\ fetch' = NoFetch /\ missed' = missed \ fetch.got
        /\ UNCHANGED <<mounted, faults>>
    BY <1>2 DEF Store, SameEdits
  <2>2. /\ entry' \in Entry /\ entry'.has = TRUE /\ entry'.data = fetch.got
        /\ entry'.invalid = FALSE /\ entry'.failed = FALSE
    BY <1>0, <2>1 DEF NoEntry, Entry, Fetch
  <2>3. ASSUME NEW e \in Edits, Due(e)' PROVE e \in fetch.got
    <3>1. Due(e) \/ e \in fetch.got
      BY <2>1, <2>3 DEF Due, Covered, SameEdits
    <3> QED
      BY <1>0, <2>1, <3>1 DEF Fresh
  <2>4. Fresh'
    BY <2>1, <2>2, <2>3, NoFetchIs DEF Fresh
  <2>5. Cached'
    BY <2>2, NoEntryIs DEF Cached
  <2> QED
    BY <1>0, <2>1, <2>2, <2>4, <2>5, NoFetchIs, FetchKeeps
<1>3. CASE FetchFails
  <2>1. SameEdits /\ UNCHANGED <<mounted, missed>> /\ faults' \in Nat /\ fetch.at # "none"
    BY <1>0, <1>3 DEF FetchFails, SameEdits, Quiet
  <2>2. CASE fetch' = [NewFetch EXCEPT !.retried = TRUE] /\ UNCHANGED entry
    <3>1. fetch' \in Fetch /\ fetch'.at = "asked" /\ fetch'.got = {}
      BY <2>2 DEF NewFetch, NoFetch, Fetch
    <3>2. Fresh' /\ Cached'
      BY <3>1 DEF Fresh, Cached, Quiet
    <3> QED
      BY <1>0, <2>1, <2>2, <3>1, <3>2, FetchKeeps
  <2>3. CASE fetch' = NoFetch /\ entry' = [entry EXCEPT !.failed = TRUE, !.invalid = TRUE]
    <3>1. /\ entry' \in Entry /\ entry'.has = entry.has /\ entry'.data = entry.data
          /\ entry'.failed = TRUE /\ entry'.invalid = TRUE
      BY <1>0, <2>3, EntryFields
    <3>2. Fresh'
      BY <2>3, <3>1, NoFetchIs DEF Fresh
    <3>3. Cached'
      BY <3>1, NoEntryIs DEF Cached
    <3> QED
      BY <1>0, <2>1, <2>3, <3>1, <3>2, <3>3, NoFetchIs, FetchKeeps
  <2> QED
    BY <1>3, <2>2, <2>3 DEF FetchFails
<1> QED
  BY <1>1, <1>2, <1>3 DEF FetchStep

\* The answer of a change: the only step that makes an edit due.
LEMMA AnswerKeeps == ASSUME IInv, NEW e \in Edits, Answer(e) PROVE IInv'
<1>0. /\ entry \in Entry /\ fetch \in Fetch /\ mounted \in BOOLEAN /\ missed \subseteq Edits
      /\ edit \in [Edits -> EditStates]
      /\ faults \in Nat /\ entry.data \subseteq Committed /\ fetch.got \subseteq Committed
      /\ (entry.failed => entry.invalid) /\ (mounted => Cached) /\ Fresh
  BY DEF IInv, TypeOK
<1>1. /\ edit[e] = "committed" /\ edit' = [edit EXCEPT ![e] = "answered"]
      /\ UNCHANGED <<hook, act, mounted, faults>>
  BY DEF Answer
<1>2. edit' \in [Edits -> EditStates] /\ Committed' = Committed
  BY <1>0, <1>1 DEF Committed, EditStates
<1>3. Heard' /\ Chosen'
  BY <1>0, <1>1 DEF IInv, Heard, Chosen, Here, view
<1>4. ASSUME NEW d \in Edits, d # e, missed \subseteq missed', Due(d)' PROVE Due(d)
  BY <1>0, <1>1, <1>4 DEF Due, Covered
<1>5. Due(e)' <=> Covered(e) /\ e \notin missed'
  BY <1>0, <1>1 DEF Due, Covered
<1>6. SUFFICES /\ entry' \in Entry /\ fetch' \in Fetch /\ missed' \subseteq Edits
               /\ entry'.data \subseteq Committed /\ fetch'.got \subseteq Committed
               /\ (entry'.failed => entry'.invalid) /\ (mounted => Cached') /\ Fresh'
  BY <1>1, <1>2, <1>3 DEF IInv, TypeOK
<1>7. CASE ~Cached \/ ~Covered(e)
  <2>1. UNCHANGED <<entry, fetch, missed>>
    BY <1>7 DEF Answer
  <2>2. ~Cached => ~entry.has /\ fetch.at = "none" /\ ~mounted
    BY <1>0, NoEntryIs DEF Cached, Quiet
  <2>3. Fresh'
    BY <1>0, <1>1, <1>4, <1>5, <1>7, <2>1, <2>2 DEF Fresh
  <2>4. mounted => Cached'
    BY <1>0, <2>1 DEF Cached, Quiet
  <2> QED
    BY <1>0, <2>1, <2>3, <2>4
<1>8. CASE Cached /\ Covered(e)
  <2>1. /\ fetch' = IF mounted THEN Restarted ELSE fetch
        /\ \/ entry' = [entry EXCEPT !.invalid = TRUE]
           \/ entry' = entry
        /\ missed' = IF \/ fetch.at = "answered" /\ e \notin fetch.got /\ ~(mounted /\ entry.has)
                        \/ ~mounted /\ ~entry'.invalid
                       THEN missed \cup {e} ELSE missed
    BY <1>8 DEF Answer, Invalidate, Refetch
  <2>2. /\ entry' \in Entry /\ entry'.has = entry.has /\ entry'.data = entry.data
        /\ entry'.failed = entry.failed /\ (entry.invalid => entry'.invalid)
        /\ (entry' = entry \/ entry'.invalid = TRUE)
    BY <1>0, <2>1, EntryFields
  <2>3. fetch' = fetch \/ fetch' = NewFetch
    BY <2>1 DEF Restarted
  <2>4. fetch' \in Fetch /\ fetch'.got \subseteq Committed
    BY <1>0, <2>3, NoFetchIs
  <2>5. missed \subseteq missed' /\ missed' \subseteq Edits
    BY <1>0, <2>1
  <2>6. CASE mounted
    <3>1. \/ fetch' = NewFetch
          \/ fetch' = fetch /\ fetch.at # "none" /\ ~entry.has
      BY <1>0, <2>1, <2>6 DEF Restarted, Quiet, Entry
    <3>2. fetch'.at # "none"
      BY <3>1, NoFetchIs
    <3>3. ASSUME fetch'.at = "answered", NEW d \in Edits, Due(d)' PROVE d \in fetch'.got
      <4>1. fetch' = fetch /\ ~entry.has
        BY <3>1, <3>3, NoFetchIs
      <4>2. CASE d = e
        BY <1>5, <2>1, <3>3, <4>1, <4>2
      <4>3. CASE d # e
        BY <1>0, <1>4, <2>5, <3>3, <4>1, <4>3 DEF Fresh
      <4> QED
        BY <4>2, <4>3
    <3>4. Fresh'
      BY <3>2, <3>3 DEF Fresh
    <3>5. Cached'
      BY <3>2 DEF Cached, Quiet
    <3> QED
      BY <1>0, <2>2, <2>4, <2>5, <3>4, <3>5
  <2>7. CASE ~mounted
    <3>1. fetch' = fetch
      BY <2>1, <2>7
    <3>2. ASSUME fetch.at = "answered", NEW d \in Edits, Due(d)' PROVE d \in fetch.got
      <4>1. CASE d = e
        BY <1>5, <2>1, <2>7, <3>2, <4>1
      <4>2. CASE d # e
        BY <1>0, <1>4, <2>5, <3>2, <4>2 DEF Fresh
      <4> QED
        BY <4>1, <4>2
    <3>3. ASSUME fetch.at = "none", entry.has, NEW d \in Edits, Due(d)'
          PROVE  d \in entry.data \/ entry'.invalid
      <4>1. CASE d = e
        BY <1>5, <2>1, <2>7, <3>3, <4>1
      <4>2. CASE d # e
        BY <1>0, <1>4, <2>2, <2>5, <3>3, <4>2 DEF Fresh
      <4> QED
        BY <4>1, <4>2
    <3>4. Fresh'
      <4>1. mounted' = FALSE
        BY <1>0, <1>1, <2>7
      <4>2. fetch'.at = "answered" => \A d \in Edits : Due(d)' => d \in fetch'.got
        BY <3>1, <3>2
      <4>3. fetch'.at = "none" /\ entry'.has
              => \A d \in Edits : Due(d)' => d \in entry'.data \/ entry'.invalid
        BY <2>2, <3>1, <3>3
      <4> QED
        BY <4>1, <4>2, <4>3, Zenon DEF Fresh
    <3> QED
      BY <1>0, <2>2, <2>4, <2>5, <2>7, <3>4
  <2> QED
    BY <1>0, <2>6, <2>7
<1> QED
  BY <1>7, <1>8

LEMMA ChangeKeeps == ASSUME IInv, ChangeStep PROVE IInv'
<1>1. ASSUME NEW e \in Edits, Commit(e) PROVE IInv'
  <2>1. /\ edit \in [Edits -> EditStates] /\ edit[e] = "idle"
        /\ UNCHANGED <<hook, act, entry, fetch, mounted, missed, faults>>
        /\ \/ Here(e) /\ edit' = [edit EXCEPT ![e] = "committed"]
           \/ edit' = [edit EXCEPT ![e] = "unheard"]
    BY <1>1 DEF Commit, IInv, TypeOK
  <2>2. edit' \in [Edits -> EditStates] /\ Committed \subseteq Committed'
    BY <2>1 DEF EditStates, Committed
  <2>3. \A d \in Edits : Due(d)' => Due(d)
    BY <2>1 DEF Due, Covered
  <2>4. TypeOK'
    BY <2>1, <2>2 DEF IInv, TypeOK, Cached, Quiet
  <2>5. Fresh'
    BY <2>1, <2>3 DEF IInv, Fresh
  <2>6. Heard' /\ Chosen'
    BY <2>1 DEF IInv, Heard, Chosen, Here, view
  <2> QED
    BY <2>4, <2>5, <2>6 DEF IInv
<1>2. ASSUME NEW e \in Edits, LoseAnswer(e) PROVE IInv'
  <2>1. /\ edit \in [Edits -> EditStates] /\ edit[e] = "committed"
        /\ UNCHANGED <<hook, act, entry, fetch, mounted, missed, faults>>
        /\ edit' = [edit EXCEPT ![e] = "unheard"]
    BY <1>2 DEF LoseAnswer, IInv, TypeOK
  <2>2. edit' \in [Edits -> EditStates] /\ Committed \subseteq Committed'
    BY <2>1 DEF EditStates, Committed
  <2>3. \A d \in Edits : Due(d)' => Due(d)
    BY <2>1 DEF Due, Covered
  <2>4. TypeOK'
    BY <2>1, <2>2 DEF IInv, TypeOK, Cached, Quiet
  <2>5. Fresh'
    BY <2>1, <2>3 DEF IInv, Fresh
  <2>6. Heard' /\ Chosen'
    BY <2>1 DEF IInv, Heard, Chosen, Here, view
  <2> QED
    BY <2>4, <2>5, <2>6 DEF IInv
<1> QED
  BY <1>1, <1>2, AnswerKeeps DEF ChangeStep

LEMMA IInvHolds == Spec => []IInv
<1>1. IInv /\ UNCHANGED vars => IInv'
  <2> SUFFICES ASSUME IInv, UNCHANGED vars PROVE IInv'
    OBVIOUS
  <2>1. TypeOK'
    BY DEF vars, IInv, TypeOK, Committed, Cached, Quiet
  <2>2. Fresh' /\ Heard' /\ Chosen'
    BY DEF vars, IInv, Fresh, Due, Covered, Heard, Here, view, Chosen
  <2> QED
    BY <2>1, <2>2 DEF IInv
<1>2. IInv /\ [Next]_vars => IInv'
  BY <1>1, PageKeeps, FetchStepKeeps, ChangeKeeps DEF Next
<1> QED
  BY <1>2, InitIInv, PTL DEF Spec

-----------------------------------------------------------------------------
(* The properties *)

\* The cache never holds what the database does not, and a page that is shown has an
\* answer, an error or a request on its way.
THEOREM QueriesTypeCorrect == Spec => []TypeOK
BY IInvHolds, PTL DEF IInv

\* With keys that join the pairs of the catalogue, no order of fetches, errors, answers
\* and changes of page leaves a page silently with what was before a change.
THEOREM NoSilentStalenessHolds ==
  ASSUME CatalogueJoined PROVE Spec => []NoSilentStaleness
<1>1. IInv => NoSilentStaleness
  <2> SUFFICES ASSUME IInv, mounted, fetch.at = "none", entry.has, ~entry.failed,
                      NEW e \in Edits, e \notin entry.data, e \notin missed,
                      edit[e] = "answered"
               PROVE  <<hook, act[e]>> \in Unjoined
    BY DEF NoSilentStaleness, Quiet
  <2>1. ~entry.invalid /\ ~Due(e)
    BY DEF IInv, Fresh
  <2>2. ~Covered(e)
    BY <2>1 DEF Due
  <2>3. hook \in Watched /\ act[e] \in Acts[e] /\ Touches(act[e], hook) /\ Here(e)
    BY DEF IInv, TypeOK, Heard, Chosen
  <2> QED
    BY <2>2, <2>3 DEF CatalogueJoined, Covered, Here, view
<1> QED
  BY <1>1, IInvHolds, PTL
=============================================================================
