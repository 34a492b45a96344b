------------------------------ MODULE UiQueries ------------------------------
(***************************************************************************)
(* One query of the web applications and the changes to the data it shows: *)
(* the page that mounts it, the cache of TanStack Query with the options of *)
(* ui/packages/shared/src/lib/query.ts, the gateway that answers, and the  *)
(* mutations, of this application and of others, that change the data and  *)
(* invalidate queries by key.  Which query and which changes is chosen in  *)
(* Init from the hooks of UiCatalogue.                                     *)
(*                                                                         *)
(* The applications never write an answer into the cache themselves: what  *)
(* a page shows after a change depends on a key that matches, and on no    *)
(* fetch that is older than the change being taken for the refresh.        *)
(***************************************************************************)
EXTENDS UiCatalogue, Integers, FiniteSets

CONSTANTS
  Edits,       \* changes that are made, each once
  Watched,     \* the queries to choose from
  Acts,        \* Acts[e]: the changes to choose e from
  MaxFaults    \* bound on the fetches that fail

ASSUME QueriesAssumption ==
  /\ Watched \subseteq Views
  /\ Acts \in [Edits -> SUBSET Changes]
  /\ MaxFaults \in Nat

VARIABLES
  hook,       \* the query
  act,        \* act[e]: which change e is
  edit,       \* edit[e]: how far it is
  entry,      \* what the cache holds under the query's key
  fetch,      \* the request in flight
  mounted,    \* a page shows the query
  missed,     \* edits whose refresh an older fetch was taken for, or left with the page
  faults

vars == <<hook, act, edit, entry, fetch, mounted, missed, faults>>

view == View[hook]

\* data: the edits the answer reflects; invalid: isInvalidated; aged: older than
\* staleTime; failed: the last fetch ended with an error
NoEntry == [has |-> FALSE, data |-> {}, invalid |-> FALSE, aged |-> FALSE, failed |-> FALSE]

NoFetch == [at |-> "none", got |-> {}, retried |-> FALSE]
NewFetch == [NoFetch EXCEPT !.at = "asked"]

\* The edits the database holds.
Committed == {e \in Edits : edit[e] \in {"committed", "answered", "unheard"}}

\* The hook or the page of the change asks for this query again.
Covered(e) == Invalidates(act[e], hook) \/ Refetches(act[e], hook)

\* The change can be made in an application that shows the query.
Here(e) == Change[act[e]].apps \cap view.apps # {}

-----------------------------------------------------------------------------

Init ==
  /\ hook \in Watched
  /\ act \in [Edits -> {c \in Changes : Touches(c, hook)}]
  /\ \A e \in Edits : act[e] \in Acts[e]
  /\ edit = [e \in Edits |-> "idle"]
  /\ entry = NoEntry /\ fetch = NoFetch
  /\ mounted = FALSE
  /\ missed = {} /\ faults = 0

Quiet == fetch.at = "none"

-----------------------------------------------------------------------------
(* The page *)

\* A page with the hook is opened: an answer that is there and fresh is shown, any
\* other is asked for, unless that is already under way.
Mount ==
  /\ ~mounted
  /\ mounted' = TRUE
  /\ fetch' = IF Quiet /\ (~entry.has \/ entry.invalid \/ entry.aged) THEN NewFetch ELSE fetch
  /\ UNCHANGED <<hook, act, edit, entry, missed, faults>>

\* A request that is out goes on without the page.
Unmount ==
  /\ mounted
  /\ mounted' = FALSE
  /\ UNCHANGED <<hook, act, edit, entry, fetch, missed, faults>>

\* staleTime has passed; an invalid entry is stale already.
Age ==
  /\ entry.has /\ ~entry.aged /\ ~entry.invalid
  /\ entry' = [entry EXCEPT !.aged = TRUE]
  /\ UNCHANGED <<hook, act, edit, fetch, mounted, missed, faults>>

\* gcTime has passed without a page.
Forget ==
  /\ ~mounted /\ Quiet
  /\ entry # NoEntry
  /\ entry' = NoEntry
  /\ missed' = {}
  /\ UNCHANGED <<hook, act, edit, fetch, mounted, faults>>

\* the interval is taken for an age limit of the cache
MutantPoll ==
  /\ view.poll /\ mounted /\ Quiet /\ ~entry.has
  /\ fetch' = NewFetch
  /\ UNCHANGED <<hook, act, edit, entry, mounted, missed, faults>>

\* refetchInterval
Poll ==
  /\ view.poll /\ mounted /\ Quiet
  /\ fetch' = NewFetch
  /\ UNCHANGED <<hook, act, edit, entry, mounted, missed, faults>>

-----------------------------------------------------------------------------
(* The request *)

\* The gateway reads the database.
Read ==
  /\ fetch.at = "asked"
  /\ fetch' = [fetch EXCEPT !.at = "answered", !.got = Committed]
  /\ UNCHANGED <<hook, act, edit, entry, mounted, missed, faults>>

\* The answer arrives.
Store ==
  /\ fetch.at = "answered"
  /\ entry' = [NoEntry EXCEPT !.has = TRUE, !.data = fetch.got]
  /\ fetch' = NoFetch
  /\ missed' = missed \ fetch.got
  /\ UNCHANGED <<hook, act, edit, mounted, faults>>

\* It fails, which is tried again once as long as the page is there.  What the cache
\* holds stays, and is shown with the error.
FetchFails ==
  /\ ~Quiet
  /\ faults < MaxFaults
  /\ faults' = faults + 1
  /\ IF mounted /\ ~fetch.retried
       THEN fetch' = [NewFetch EXCEPT !.retried = TRUE] /\ UNCHANGED entry
       ELSE /\ fetch' = NoFetch
            /\ entry' = [entry EXCEPT !.failed = TRUE, !.invalid = TRUE]
  /\ UNCHANGED <<hook, act, edit, mounted, missed>>

-----------------------------------------------------------------------------
(* The changes *)

\* The handler of the gateway commits a change asked for by this application, by
\* another one, or by another user's.
Commit(e) ==
  /\ edit[e] = "idle"
  /\ \/ Here(e) /\ edit' = [edit EXCEPT ![e] = "committed"]
     \/ edit' = [edit EXCEPT ![e] = "unheard"]
  /\ UNCHANGED <<hook, act, entry, fetch, mounted, missed, faults>>

\* The answer is lost: the mutation ends with an error and nothing is refreshed.
LoseAnswer(e) ==
  /\ edit[e] = "committed"
  /\ edit' = [edit EXCEPT ![e] = "unheard"]
  /\ UNCHANGED <<hook, act, entry, fetch, mounted, missed, faults>>

\* An entry exists under the key.
Cached == entry # NoEntry \/ ~Quiet

\* the refresh does not give up the fetch in flight
MutantRestarted == IF Quiet THEN NewFetch ELSE fetch

\* What a refetch does: a fetch in flight is given up for a new one, but not the first
\* fetch of an entry.
Restarted == IF Quiet \/ entry.has THEN NewFetch ELSE fetch

\* onSuccess of the hook: invalidateQueries.  The entry is invalid, and asked for again
\* if a page shows it.
Invalidate(e) ==
  /\ entry' = [entry EXCEPT !.invalid = TRUE]
  /\ fetch' = IF mounted THEN Restarted ELSE fetch

\* onSuccess of the page, which is called only while the page is there.
Refetch(e) ==
  /\ fetch' = IF mounted THEN Restarted ELSE fetch
  /\ UNCHANGED entry

\* The answer arrives.  A fetch that goes on counts as fresh when it is done, also if
\* it read the database before the change.
Answer(e) ==
  /\ edit[e] = "committed"
  /\ edit' = [edit EXCEPT ![e] = "answered"]
  /\ IF ~Cached \/ ~Covered(e)
       THEN UNCHANGED <<entry, fetch, missed>>
       ELSE /\ IF Invalidates(act[e], hook) THEN Invalidate(e) ELSE Refetch(e)
            /\ missed' = IF \/ fetch.at = "answered" /\ e \notin fetch.got /\ ~(mounted /\ entry.has)
                            \/ ~mounted /\ ~entry'.invalid
                           THEN missed \cup {e} ELSE missed
  /\ UNCHANGED <<hook, act, mounted, faults>>

-----------------------------------------------------------------------------
(* Specification *)

PageStep == Mount \/ Unmount \/ Age \/ Forget \/ Poll

FetchStep == Read \/ Store \/ FetchFails

ChangeStep == \E e \in Edits : Commit(e) \/ LoseAnswer(e) \/ Answer(e)

Next == PageStep \/ FetchStep \/ ChangeStep

Spec == Init /\ [][Next]_vars

\* The timer of refetchInterval runs while the page is there, and requests end.
FairSpec == Spec /\ WF_vars(Poll) /\ WF_vars(Read) /\ WF_vars(Store)

-----------------------------------------------------------------------------
(* Properties *)

EditStates == {"idle", "committed", "answered", "unheard"}

Entry == [has: BOOLEAN, data: SUBSET Edits, invalid: BOOLEAN, aged: BOOLEAN, failed: BOOLEAN]

Fetch == [at: {"none", "asked", "answered"}, got: SUBSET Edits, retried: BOOLEAN]

\* The cache never holds what the database does not; an error makes the entry invalid;
\* a page that is shown has an answer, an error, or a request on its way.
TypeOK ==
  /\ hook \in Watched
  /\ act \in [Edits -> Changes]
  /\ edit \in [Edits -> EditStates]
  /\ entry \in Entry /\ fetch \in Fetch
  /\ mounted \in BOOLEAN
  /\ missed \subseteq Edits /\ faults \in Nat
  /\ entry.data \cup fetch.got \subseteq Committed
  /\ entry.failed => entry.invalid
  /\ mounted => Cached

\* Pages that show data which goes with a deleted user or team.
AdminTeamPages ==
  {"useAdminTeams", "useAdminTeamMembers", "useAdminTeamWallet", "useTeamWalletTransactions"}

AdminBilling ==
  {"useAdminUsageBilling", "useAdminBillingActivities", "useAdminBillingSummary",
   "useAdminScopedPeriodSummary", "useAdminBillingDailyTrend",
   "useAdminBillingUserSpendRanking", "useAdminDeductions", "useAdminBillingMonths",
   "useAdminBillingUserApiKeyCosts", "useAdminBillingApiKeyDetail"}

ChannelChanges == {"useCreateChannel", "useUpdateChannel", "useDeleteChannel", "toggleEnabled"}

\* Pairs of a query and a change made by the same application that no key joins: the
\* page goes on showing what was before, until it is old or polled again.
Unjoined ==
  ({"useTeamWallet", "useTeamWalletTransactions"} \X {"useRedeemKeyOfTeam"})
  \cup ({"grants", "detail"} \X {"usePermanentDeleteUser"})
  \cup (AdminTeamPages \X {"usePermanentDeleteUser"})
  \cup ({"useRechargeKeys", "useRules"} \X {"usePermanentDeleteUser", "useDeleteTeam"})
  \cup (AdminBilling \X {"usePermanentDeleteUser", "useDeleteTeam"})
  \cup ({"useModels", "usePublicModels"} \X {"useDeleteChannel"})
  \cup ({"useChannelHealth"} \X (ChannelChanges \cup {"useModelHealthCheck"}))
  \cup ({"useRoutingHealth"} \X (ChannelChanges \cup DOMAIN ModelHooks.changes \cup {"addSelected"}))
  \cup ({"useSkillRuntimeStatuses"} \X {"useDeleteSkill", "useSetSkillStatus", "useUploadSkillArtifact"})
  \cup ({"useSelfDashboard"} \X DOMAIN ApiKeyHooks.changes)
  \cup {<<"useMyUsageAnalytics", "useUpdateTimezone">>}

\* What NoSilentStaleness asks of the catalogue alone: a key joins every other pair.
CatalogueJoined ==
  \A v \in Watched : \A e \in Edits : \A c \in Acts[e] :
    Touches(c, v) /\ Change[c].apps \cap View[v].apps # {}
      => Invalidates(c, v) \/ Refetches(c, v) \/ <<v, c>> \in Unjoined

\* After a change was made and its answer came, a page shows it, is fetching it or says
\* that it could not, whichever fetches, errors and changes of page went on meanwhile.
\* The exceptions are Unjoined, a refresh an older fetch was taken for, which can only
\* be a first fetch or one no page waits for, and a refresh that left with the page.
NoSilentStaleness ==
  mounted /\ Quiet /\ entry.has /\ ~entry.failed
    => \A e \in Edits \ (entry.data \cup missed) :
         edit[e] = "answered" => <<hook, act[e]>> \in Unjoined

\* A change that a key joins to the query does not wait for a timer: it is shown as
\* soon as the fetches it caused are over.
RefreshEnds ==
  \A e \in Edits :
    edit[e] = "answered" /\ mounted /\ Covered(e)
      ~> e \in entry.data \cup missed \/ entry.failed \/ ~mounted

\* A polled query that stays on the screen comes to show every change, whoever made it
\* and however its answer was lost.
PolledViewsConverge ==
  view.poll /\ <>[]mounted => <>[](mounted => Committed \subseteq entry.data)
=============================================================================
