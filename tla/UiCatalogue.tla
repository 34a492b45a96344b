---------------------------- MODULE UiCatalogue ----------------------------
(***************************************************************************)
(* The queries and the mutations of the two web applications: for each hook *)
(* that a page mounts, the key its answer is cached under, the server's data *)
(* it shows, and whether it is polled; for each mutation, the data it      *)
(* changes and the keys it invalidates once its answer is in.  The id of a *)
(* user, team, channel or skill in a key stands for the one the page shows; *)
(* paging and filters, which follow it in a key, are left out.  The user and *)
(* the admin application are built separately and cache separately: `apps` *)
(* names the ones that mount the hook.  Hooks no page mounts are left out. *)
(***************************************************************************)
EXTENDS Sequences, SequencesExt

User == {"user"}
Admin == {"admin"}
Both == User \cup Admin

Polled(apps, key, shows) == [apps |-> apps, key |-> key, shows |-> shows, poll |-> TRUE]
Fetched(apps, key, shows) == [apps |-> apps, key |-> key, shows |-> shows, poll |-> FALSE]

\* A change.  Its hook invalidates the queries below `refreshes`; `refetches` are asked
\* for again by the page that made it, if it is still there.
Changing(apps, writes, refreshes) ==
  [apps |-> apps, writes |-> writes, refreshes |-> refreshes, refetches |-> {}]

-----------------------------------------------------------------------------
(* Accounts *)

(* A definition named Mutant... is a plausible bug of the definition that follows  *)
(* it.  No specification uses it: the properties are tested against it.            *)

\* the key of the users is misspelt in one hook
MutantUserHooks ==
  [views |-> [useUsers |-> Fetched(Admin, <<"users", "list">>, {"users"})],
   changes |->
     [useCreateUser |-> Changing(Admin, {"users"}, {<<"user">>}),
      useUpdateUser |-> Changing(Admin, {"users"}, {<<"users">>})]]

\* What the database deletes with a team: keys, memberships, wallet, transactions,
\* rules, recharge keys and the charges made to the team.
TeamRows ==
  {"teams", "teamKeys", "members", "teamBalance", "teamTxs", "teamRules", "rechargeKeys",
   "charges"}

\* With a user go the keys, the memberships, the grants and the teams the user owns.
UserHooks ==
  [views |-> [useUsers |-> Fetched(Admin, <<"users", "list">>, {"users"})],
   changes |->
     [useCreateUser |-> Changing(Admin, {"users"}, {<<"users">>}),
      useUpdateUser |-> Changing(Admin, {"users"}, {<<"users">>}),
      useSuspendUser |-> Changing(Admin, {"users"}, {<<"users">>}),
      useRestoreUser |-> Changing(Admin, {"users"}, {<<"users">>}),
      usePermanentDeleteUser |->
        Changing(Admin, {"users", "keys", "members", "grants", "grant"} \cup TeamRows,
                 {<<"users">>})]]

ApiKeyHooks ==
  [views |->
     [useActiveBillingGroups |-> Fetched(User, <<"billing-groups", "active">>, {"groups"}),
      useApiKeys |-> Fetched(User, <<"keys", "user">>, {"keys"})],
   changes |->
     [useCreateApiKey |-> Changing(User, {"keys"}, {<<"keys">>}),
      useUpdateApiKey |-> Changing(User, {"keys"}, {<<"keys">>}),
      useSaveApiKey |-> Changing(User, {"keys"}, {<<"keys">>}),
      useDeleteApiKey |-> Changing(User, {"keys"}, {<<"keys">>})]]

TimezoneHook ==
  [views |-> << >>,
   changes |->
     [useUpdateTimezone |->
        Changing(User, {"timezone"},
                 {<<"dashboard", "self">>, <<"usage", "aggregate", "self">>,
                  <<"usage", "funnel", "self">>, <<"usage", "model-activity", "self">>})]]

-----------------------------------------------------------------------------
(* Teams *)

TeamHooks ==
  [views |->
     [useMyTeams |-> Fetched(User, <<"teams", "my">>, {"teams", "members"}),
      useTeamMembers |-> Fetched(User, <<"teams", "members", "team">>, {"members"}),
      useTeamWallet |-> Fetched(User, <<"teams", "wallet", "team">>, {"teamBalance"}),
      useAdminTeams |-> Fetched(Admin, <<"teams", "admin">>, {"teams", "members"}),
      useAdminTeamMembers |-> Fetched(Admin, <<"teams", "admin", "members", "team">>, {"members"})],
   changes |->
     [useCreateTeam |-> Changing(Admin, {"teams", "members"}, {<<"teams">>}),
      useDeleteTeam |-> Changing(Admin, TeamRows, {<<"teams">>}),
      useAdminAddTeamMember |-> Changing(Admin, {"members"}, {<<"teams">>}),
      useAdminSetTeamMemberRole |-> Changing(Admin, {"members"}, {<<"teams">>}),
      useAdminRemoveTeamMember |-> Changing(Admin, {"members"}, {<<"teams">>})]]

TeamKeyHooks ==
  [views |-> [useTeamApiKeys |-> Fetched(User, <<"teams", "keys", "team">>, {"teamKeys"})],
   changes |->
     [useCreateTeamApiKey |-> Changing(User, {"teamKeys"}, {<<"teams">>}),
      useDeleteTeamApiKey |-> Changing(User, {"teamKeys"}, {<<"teams">>})]]

TeamSelfHooks ==
  [views |->
     [useTeamWalletTransactions |-> Fetched(Both, <<"teams", "wallet", "tx", "team">>, {"teamTxs"}),
      useAdminTeamWallet |-> Fetched(Admin, <<"teams", "admin", "wallet", "team">>, {"teamBalance"}),
      useTeamRules |-> Fetched(User, <<"teams", "rules", "team">>, {"teamRules"})],
   changes |->
     [useAddTeamMember |-> Changing(User, {"members"}, {<<"teams">>}),
      useRemoveTeamMember |-> Changing(User, {"members"}, {<<"teams">>}),
      useSetTeamMemberRole |-> Changing(User, {"members"}, {<<"teams">>}),
      useCreateTeamRule |-> Changing(User, {"teamRules"}, {<<"teams">>}),
      useDeleteTeamRule |-> Changing(User, {"teamRules"}, {<<"teams">>})]]

-----------------------------------------------------------------------------
(* Wallets and packages *)

\* A redeemed key credits the user or, when it was made for one, a team.
WalletHooks ==
  [views |->
     [useTokenPackageGrants |-> Polled(User, <<"token-packages", "mine">>, {"grants"}),
      useWalletOverview |-> Polled(User, <<"wallet", "overview">>, {"balance"}),
      useWalletTransactions |-> Fetched(User, <<"wallet", "transactions">>, {"txs"}),
      useRechargeKeys |-> Fetched(Admin, <<"wallet", "keys">>, {"rechargeKeys"}),
      useEstimatedDays |-> Fetched(User, <<"wallet", "estimated-days">>, {"balance", "charges"})],
   changes |->
     [useCreateRechargeKey |-> Changing(Admin, {"rechargeKeys"}, {<<"wallet", "keys">>}),
      useRevokeKey |-> Changing(Admin, {"rechargeKeys"}, {<<"wallet", "keys">>}),
      useRedeemKey |-> Changing(User, {"rechargeKeys", "balance", "txs"}, {<<"wallet">>}),
      useRedeemKeyOfTeam |->
        Changing(User, {"rechargeKeys", "teamBalance", "teamTxs"}, {<<"wallet">>})]]

\* The team pages ask for the wallet and its transactions after a redemption.
MyTeamsRedeem ==
  [views |-> << >>,
   changes |->
     [redeemForMyTeam |->
        [Changing(User, {"rechargeKeys", "teamBalance", "teamTxs"}, {<<"wallet">>})
           EXCEPT !.refetches = {<<"teams", "wallet", "team">>, <<"teams", "wallet", "tx", "team">>}]]]

AdminTeamsRedeem ==
  [views |-> << >>,
   changes |->
     [redeemForTeam |->
        [Changing(Admin, {"rechargeKeys", "teamBalance", "teamTxs"}, {<<"wallet">>})
           EXCEPT !.refetches =
             {<<"teams", "admin", "wallet", "team">>, <<"teams", "wallet", "tx", "team">>}]]]

TokenPackagesPage ==
  [views |->
     [plans |-> Fetched(Admin, <<"token-package-plans">>, {"plans"}),
      grants |-> Fetched(Admin, <<"token-package-grants">>, {"grants"}),
      detail |-> Fetched(Admin, <<"token-package-grant", "grant">>, {"grant"})],
   changes |->
     [createPlan |-> Changing(Admin, {"plans"}, {<<"token-package-plans">>}),
      createGrant |-> Changing(Admin, {"grants"}, {<<"token-package-grants">>}),
      deletePlan |-> Changing(Admin, {"plans"}, {<<"token-package-plans">>}),
      revokeGrant |->
        Changing(Admin, {"grants", "grant"},
                 {<<"token-package-grants">>, <<"token-package-grant", "grant">>})]]

BillingGroupsPage ==
  LET both == {<<"admin", "billing-groups">>, <<"billing-groups", "active">>} IN
  [views |-> [groups |-> Fetched(Admin, <<"admin", "billing-groups">>, {"groups"})],
   changes |->
     [createGroup |-> Changing(Admin, {"groups"}, both),
      removeGroup |-> Changing(Admin, {"groups", "keys", "teamKeys"}, both),
      toggleGroup |-> Changing(Admin, {"groups"}, both)]]

-----------------------------------------------------------------------------
(* Channels, models, rules, moderation *)

ChannelHooks ==
  [views |-> [useChannels |-> Fetched(Admin, <<"channels">>, {"channels"})],
   changes |->
     [useCreateChannel |-> Changing(Admin, {"channels"}, {<<"channels">>}),
      useUpdateChannel |-> Changing(Admin, {"channels"}, {<<"channels">>}),
      useDeleteChannel |-> Changing(Admin, {"channels", "models"}, {<<"channels">>})]]

ChannelHealthHook ==
  [views |-> [useChannelHealth |-> Polled(Admin, <<"channel-health", "channel">>, {"channels", "probes"})],
   changes |-> << >>]

ChannelsPage ==
  [views |-> << >>,
   changes |-> [toggleEnabled |-> Changing(Admin, {"channels"}, {<<"channels">>})]]

ModelHooks ==
  [views |->
     [useModels |-> Fetched(Admin, <<"models">>, {"models"}),
      usePublicModels |-> Fetched(Both, <<"models", "public">>, {"models"}),
      useMarketplaceModels |-> Fetched(User, <<"models", "marketplace">>, {"models", "channels"})],
   changes |->
     [usePublishModel |-> Changing(Admin, {"models"}, {<<"models">>, <<"models", "public">>}),
      useCreateModel |-> Changing(Admin, {"models"}, {<<"models">>}),
      useUpdateModel |-> Changing(Admin, {"models"}, {<<"models">>}),
      useDeleteModel |-> Changing(Admin, {"models"}, {<<"models">>}),
      useUpdateModelPricing |-> Changing(Admin, {"models"}, {<<"models">>}),
      useModelHealthCheck |-> Changing(Both, {"probes"}, {<<"probe-results">>})]]

ModelsPage ==
  [views |-> << >>,
   changes |-> [addSelected |-> Changing(Admin, {"models"}, {<<"models">>})]]

RuleHooks ==
  [views |->
     [useRules |-> Fetched(Admin, <<"rules">>, {"rules", "userRules", "teamRules"}),
      useMyRules |-> Fetched(User, <<"me", "rules">>, {"userRules"})],
   changes |->
     [useCreateRule |-> Changing(Admin, {"rules"}, {<<"rules">>}),
      useUpdateRule |-> Changing(Admin, {"rules"}, {<<"rules">>}),
      useDeleteRule |-> Changing(Admin, {"rules"}, {<<"rules">>}),
      useCreateMyRule |-> Changing(User, {"userRules"}, {<<"me", "rules">>}),
      useDeleteMyRule |-> Changing(User, {"userRules"}, {<<"me", "rules">>})]]

ModerationHooks ==
  [views |-> [useFilterRules |-> Fetched(Admin, <<"filter-rules">>, {"filters"})],
   changes |->
     [useCreateFilterRule |-> Changing(Admin, {"filters"}, {<<"filter-rules">>}),
      useUpdateFilterRule |-> Changing(Admin, {"filters"}, {<<"filter-rules">>}),
      useDeleteFilterRule |-> Changing(Admin, {"filters"}, {<<"filter-rules">>})]]

AnnouncementHooks ==
  LET both == {<<"announcements">>, <<"announcements", "published">>} IN
  [views |->
     [useAnnouncements |-> Fetched(Admin, <<"announcements">>, {"announcements"}),
      usePublishedAnnouncements |-> Polled(User, <<"announcements", "published">>, {"announcements"})],
   changes |->
     [useCreateAnnouncement |-> Changing(Admin, {"announcements"}, both),
      useUpdateAnnouncement |-> Changing(Admin, {"announcements"}, both),
      useDeleteAnnouncement |-> Changing(Admin, {"announcements"}, both)]]

-----------------------------------------------------------------------------
(* Skills *)

SkillHooks ==
  [views |-> [useAdminSkills |-> Fetched(Admin, <<"admin-skills">>, {"skills"})],
   changes |->
     [useCreateSkill |-> Changing(Admin, {"skills"}, {<<"admin-skills">>}),
      useUpdateSkill |-> Changing(Admin, {"skills"}, {<<"admin-skills">>, <<"admin-skill">>}),
      useDeleteSkill |-> Changing(Admin, {"skills", "runtime"}, {<<"admin-skills">>}),
      useSetSkillStatus |->
        Changing(Admin, {"skills", "runtime"}, {<<"admin-skills">>, <<"published-skills">>})]]

SkillVersionHooks ==
  [views |-> [useSkillVersions |-> Fetched(Admin, <<"skill-versions", "skill">>, {"versions"})],
   changes |->
     [useUploadSkillArtifact |->
        Changing(Admin, {"versions", "skills", "runtime"}, {<<"admin-skills">>, <<"skill-versions">>})]]

PublishedSkillHooks ==
  [views |->
     [usePublishedSkills |-> Fetched(User, <<"published-skills">>, {"skills"}),
      usePublishedSkill |-> Fetched(User, <<"published-skill", "skill">>, {"skills"}),
      usePublishedSkillVersions |->
        Fetched(User, <<"published-skill-versions", "skill">>, {"versions", "skills"})],
   changes |-> << >>]

SkillRuntimeHook ==
  [views |-> [useSkillRuntimeStatuses |-> Polled(Both, <<"skill-runtime-status">>, {"runtime"})],
   changes |-> << >>]

-----------------------------------------------------------------------------
(* What the gateway records about traffic *)

UsageHooks ==
  [views |->
     [useUsage |-> Polled(Admin, <<"usage", "all">>, {"usage"}),
      useMyUsage |-> Polled(User, <<"usage", "self">>, {"usage"}),
      useMyUsageAnalytics |-> Polled(User, <<"usage", "analytics", "self">>, {"usage", "timezone"}),
      useMyUsageBilling |-> Polled(User, <<"usage", "billing", "self">>, {"charges"}),
      useAdminUsageBilling |-> Fetched(Admin, <<"usage", "billing", "admin">>, {"charges"}),
      useUsageDetail |-> Fetched(Admin, <<"usage", "request">>, {"usage"})],
   changes |-> << >>]

UsageChartHooks ==
  [views |->
     [useMyUsageAggregate |-> Polled(User, <<"usage", "aggregate", "self">>, {"usage", "timezone"}),
      useMyModelActivity |-> Polled(User, <<"usage", "model-activity", "self">>, {"usage", "timezone"})],
   changes |-> << >>]

DashboardHooks ==
  [views |->
     [useSelfDashboard |-> Polled(User, <<"dashboard", "self", "user">>, {"keys", "usage"}),
      useSelfDashboardAggregations |->
        Polled(User, <<"dashboard", "self", "user", "aggregations">>, {"usage", "timezone"})],
   changes |-> << >>]

FlowMetricsHook ==
  [views |-> [useFlowMetrics |-> Polled(Admin, <<"flow-metrics">>, {"usage"})], changes |-> << >>]

ProbeHook ==
  [views |-> [useProbeResults |-> Polled(Admin, <<"probe-results", "all">>, {"probes"})],
   changes |-> << >>]

RoutingHealthHook ==
  [views |-> [useRoutingHealth |-> Polled(Admin, <<"routing", "health">>, {"models", "channels", "usage"})],
   changes |-> << >>]

BillHooks ==
  [views |->
     [useBillingActivities |-> Fetched(User, <<"billing", "activities">>, {"charges"}),
      useAdminBillingActivities |-> Fetched(Admin, <<"admin-billing", "activities">>, {"charges"}),
      useBillingSummary |-> Polled(User, <<"billing", "summary">>, {"charges"}),
      useAdminBillingSummary |-> Polled(Admin, <<"admin-billing", "summary">>, {"charges"})],
   changes |-> << >>]

PeriodHooks ==
  [views |->
     [usePeriodSummary |-> Fetched(User, <<"billing", "period">>, {"charges"}),
      useAdminScopedPeriodSummary |-> Fetched(Admin, <<"admin-billing", "scoped-period">>, {"charges"}),
      useAdminBillingDailyTrend |-> Fetched(Admin, <<"admin-billing", "daily-trend">>, {"charges"}),
      useAdminBillingUserSpendRanking |-> Fetched(Admin, <<"admin-billing", "user-ranking">>, {"charges"}),
      useDeductions |-> Fetched(User, <<"billing", "deductions">>, {"charges"}),
      useAdminDeductions |-> Fetched(Admin, <<"admin-billing", "deductions">>, {"charges"}),
      useBillingMonths |-> Fetched(User, <<"billing", "months">>, {"charges"}),
      useAdminBillingMonths |-> Fetched(Admin, <<"admin-billing", "months">>, {"charges"}),
      usePeriodSummaryAll |-> Fetched(User, <<"billing", "period-summary-all">>, {"charges"})],
   changes |-> << >>]

KeyCostHooks ==
  [views |->
     [useAdminBillingUserApiKeyCosts |->
        Fetched(Admin, <<"admin-billing", "user-api-key-costs">>, {"charges"}),
      useAdminBillingApiKeyDetail |->
        Fetched(Admin, <<"admin-billing", "api-key-detail">>, {"charges"})],
   changes |-> << >>]

\* What changes without an administrator: requests are served and billed, endpoints
\* are probed.
World ==
  [views |-> << >>,
   changes |->
     [traffic |-> Changing({}, {"usage", "charges", "balance", "teamBalance", "grants", "grant"}, {}),
      probe |-> Changing({}, {"probes"}, {})]]

-----------------------------------------------------------------------------
(* The whole *)

Sections ==
  {UserHooks, ApiKeyHooks, TimezoneHook, TeamHooks, TeamKeyHooks, TeamSelfHooks, WalletHooks,
   MyTeamsRedeem, AdminTeamsRedeem, TokenPackagesPage, BillingGroupsPage, ChannelHooks,
   ChannelHealthHook, ChannelsPage, ModelHooks, ModelsPage, RuleHooks, ModerationHooks,
   AnnouncementHooks, SkillHooks, SkillVersionHooks, PublishedSkillHooks, SkillRuntimeHook,
   UsageHooks, UsageChartHooks, DashboardHooks, FlowMetricsHook, ProbeHook, RoutingHealthHook,
   BillHooks, PeriodHooks, KeyCostHooks, World}

Views == UNION {DOMAIN s.views : s \in Sections}
Changes == UNION {DOMAIN s.changes : s \in Sections}

View == [v \in Views |-> (CHOOSE s \in Sections : v \in DOMAIN s.views).views[v]]
Change == [c \in Changes |-> (CHOOSE s \in Sections : c \in DOMAIN s.changes).changes[c]]

\* c changes something that v shows.
Touches(c, v) == Change[c].writes \cap View[v].shows # {}

\* invalidateQueries reaches the queries whose key begins with the given one.
Invalidates(c, v) == \E k \in Change[c].refreshes : IsPrefix(k, View[v].key)
Refetches(c, v) == View[v].key \in Change[c].refetches
=============================================================================
