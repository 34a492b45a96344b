---------------------------- MODULE TokenBilling ----------------------------
(***************************************************************************)
(* The monetary core of the gateway: the PostgreSQL tables of token        *)
(* packages, wallets, request reservations, settlement receivables,        *)
(* settlement payments and billing events, and every transaction of        *)
(* src/src/db/pg_backend/{token_billing,wallet}.rs that changes them.      *)
(*                                                                         *)
(* One action is one database transaction: the code takes its rows with    *)
(* SELECT ... FOR UPDATE before it reads them, so a committed transaction  *)
(* is atomic with respect to the others.  The one exception is             *)
(* redeem_recharge_key, which reads the wallet balance without a lock; it  *)
(* is two actions here.  A transaction that fails rolls back and leaves    *)
(* the tables alone, so an Err return is the action not being taken.       *)
(*                                                                         *)
(* The callers (request handlers, stream finalizers, the usage writer and  *)
(* the background workers of every gateway instance) may invoke these      *)
(* transactions in any order and any number of times.                      *)
(***************************************************************************)
EXTENDS Integers, FiniteSets, Sequences, Functions

CONSTANTS
  Requests,        \* request ids, one token_request_reservations row at most
  Accounts,        \* wallets: a users row or a team_wallets row
  Teams,           \* the accounts that are team wallets
  Grants,          \* token_package_grants ids
  RechargeKeys,    \* recharge_keys ids
  Gateways,        \* gateway instances, each with its own expiry reclaimer
  AccountOf,       \* AccountOf[r]: who pays for request r
  OwnerOf,         \* OwnerOf[g]: whose package g is
  TotalUnits,      \* TotalUnits[g]: grant.total_units
  Policy,          \* Policy[g]: grant.exhaustion_policy
  Rank,            \* Rank[g]: place of g in ORDER BY priority, expires_at, ...
  MaxUnits,        \* bound on the units of one request
  WalletAmount,    \* WalletAmount[u][p]: settle_usage's metered wallet_amount
                   \* of a usage of u units of which a package covers p
  UsageCosts,      \* cost_amount of a usage record without reservation
  InitialBalance,  \* balance of every wallet at the start
  Frozen,          \* Frozen[a]: the frozen column, which no code writes
  KeyAmount,       \* KeyAmount[k]: amount of a recharge key
  KeyAccounts,     \* KeyAccounts[k]: its team, or every user if it has none
  CreditAmount,    \* amount of one administrative team credit
  MaxCredited      \* bound on the credits of one team

Units == 0..MaxUnits
Policies == {"package_then_wallet", "package_only"}
PaymentModes == {"metered", "prepaid"}

ASSUME BillingAssumption ==
  /\ IsFiniteSet(Requests) /\ IsFiniteSet(RechargeKeys)
  /\ AccountOf \in [Requests -> Accounts]
  /\ OwnerOf \in [Grants -> Accounts]
  /\ Teams \subseteq Accounts
  /\ TotalUnits \in [Grants -> Nat]
  /\ Policy \in [Grants -> Policies]
  /\ Rank \in [Grants -> Nat]
  /\ \A g, h \in Grants : Rank[g] = Rank[h] => g = h
  /\ MaxUnits \in Nat
  /\ WalletAmount \in [Units -> [Units -> Nat]]
  /\ UsageCosts \subseteq Nat
  /\ InitialBalance \in [Accounts -> Nat]
  /\ Frozen \in [Accounts -> Nat]
  /\ \A a \in Accounts : Frozen[a] <= InitialBalance[a]
  /\ KeyAmount \in [RechargeKeys -> Nat]
  /\ KeyAccounts \in [RechargeKeys -> SUBSET Accounts]
  /\ CreditAmount \in Nat
  /\ MaxCredited \in Nat

VARIABLES
  grant,       \* token_package_grants
  wallet,      \* users / team_wallets: balance and token_wallet_reserved
  resv,        \* token_request_reservations with their allocation rows
  recv,        \* token_settlement_receivables
  payments,    \* payments[r]: amounts of token_settlement_payments, by sequence
  bill,        \* billing_events
  charged,     \* charged[r]: sum of wallet_transactions written for request r
  credited,    \* credited[a]: sum of the administrative credits of a team
  recharge,    \* recharge_keys, with the open transaction that redeems one
  overdue,     \* requests whose expires_at has passed
  candidates   \* candidates[w]: ids selected by instance w's reclaimer

vars == <<grant, wallet, resv, recv, payments, bill, charged, credited,
          recharge, overdue, candidates>>

-----------------------------------------------------------------------------
(* Helpers *)

(* A definition named Mutant... is a plausible bug of the definition that follows  *)
(* it.  No specification uses it: the properties are tested against it.            *)

NonNeg(x) == IF x > 0 THEN x ELSE 0           \* GREATEST(0, x), saturating_sub

\* the payment is not capped by the debt
MutantLeast(x, y) == y
Least(x, y) == IF x < y THEN x ELSE y

NoAllocation == [g \in Grants |-> 0]

NoReservation ==
  [state |-> "none", settlement |-> "none", mode |-> "metered",
   first |-> {}, alloc |-> NoAllocation, hold |-> 0,
   walletAmt |-> 0, shortfall |-> 0]

NoReceivable ==
  [state |-> "none", due |-> 0, settled |-> 0, outstanding |-> 0,
   waiting |-> FALSE]

NoBill == [present |-> FALSE, cost |-> 0, outstanding |-> 0]

\* total_units - consumed_units - reserved_units
FreeUnits(g) == TotalUnits[g] - grant[g].consumed - grant[g].reserved

\* the holds of other requests are spendable
MutantSpendable(a) == wallet[a].balance - Frozen[a]

\* balance - frozen - token_wallet_reserved
Spendable(a) == wallet[a].balance - Frozen[a] - wallet[a].held

\* The loops that spread units over grants in order: take as much of each as it
\* offers until nothing is wanted.  part[g] is taken from g, taken in total.
Spreads(part, taken, S, offer, wanted) ==
  /\ \A g \in Grants : part[g] <= (IF g \in S THEN offer[g] ELSE 0)
  /\ taken = SumFunction(part)
  /\ \A g \in S : part[g] < offer[g] =>
        /\ taken = wanted
        /\ \A h \in S : Rank[h] > Rank[g] => part[h] = 0

\* The grants a request may draw on: its owner's active grants with units left.
Eligible(r) ==
  {g \in Grants : /\ OwnerOf[g] = AccountOf[r]
                  /\ grant[g].status = "active"
                  /\ FreeUnits(g) > 0}

Foremost(S) == {g \in S : \A h \in S : Rank[g] <= Rank[h]}

Touched(part) == {g \in Grants : part[g] > 0}

\* exhaustion_policy of the first allocation, package_then_wallet without one
PackageOnly(part) == \E g \in Foremost(Touched(part)) : Policy[g] = "package_only"

IsReserved(r) == resv[r].state = "reserved"

-----------------------------------------------------------------------------
(* Initial state: funded wallets, nothing granted, nothing requested *)

Init ==
  /\ grant = [g \in Grants |-> [status |-> "none", consumed |-> 0, reserved |-> 0]]
  /\ wallet = [a \in Accounts |-> [balance |-> InitialBalance[a], held |-> 0]]
  /\ resv = [r \in Requests |-> NoReservation]
  /\ recv = [r \in Requests |-> NoReceivable]
  /\ payments = [r \in Requests |-> <<>>]
  /\ bill = [r \in Requests |-> NoBill]
  /\ charged = [r \in Requests |-> 0]
  /\ credited = [a \in Accounts |-> 0]
  /\ recharge = [k \in RechargeKeys |-> [state |-> "unused", account |-> {}, seen |-> 0]]
  /\ overdue = {}
  /\ candidates = [w \in Gateways |-> {}]

-----------------------------------------------------------------------------
(* Package grants *)

SetGrantStatus(g, from, to) ==
  /\ grant[g].status = from
  /\ grant' = [grant EXCEPT ![g].status = to]
  /\ UNCHANGED <<wallet, resv, recv, payments, bill, charged, credited,
                 recharge, overdue, candidates>>

CreateGrant(g) == SetGrantStatus(g, "none", "active")
RevokeGrant(g) == SetGrantStatus(g, "active", "revoked")
\* expires_at no longer lies after the expires_at of any new request
LapseGrant(g) == SetGrantStatus(g, "active", "lapsed")

-----------------------------------------------------------------------------
(* reserve_token_request *)

\* What a granted reservation writes: part[g] units and `hold` of money put aside.
Hold(r, mode, part, hold) ==
  /\ wallet' = [wallet EXCEPT ![AccountOf[r]].held = @ + hold]
  /\ grant' = [g \in Grants |-> [grant[g] EXCEPT !.reserved = @ + part[g]]]
  /\ resv' = [resv EXCEPT ![r] =
                [NoReservation EXCEPT
                   !.state = "reserved", !.settlement = "reserved", !.mode = mode,
                   !.first = Foremost(Eligible(r)), !.alloc = part, !.hold = hold]]

\* The metered price of what the packages leave uncovered.
WalletHold(mode, wanted, taken) ==
  IF mode = "metered" /\ taken < wanted THEN WalletAmount[wanted][taken] ELSE 0

\* A new request of `wanted` units: take what the eligible grants offer, hold the
\* wallet for the metered rest, and record both.  Refused when a package_only
\* grant does not cover the request or the wallet cannot carry the hold.  (A
\* request id that already has a row returns it or an error: no change.)
\* The handlers draw a fresh UUID for every request and reserve before anything
\* else is written about it.
Reserve(r, mode, wanted) ==
  /\ resv[r].state = "none"
  /\ ~bill[r].present
  /\ \E part \in [Grants -> Units], taken \in 0..wanted :
       LET hold == WalletHold(mode, wanted, taken)
       IN  /\ Spreads(part, taken, Eligible(r), [g \in Grants |-> FreeUnits(g)], wanted)
           /\ ~(taken < wanted /\ PackageOnly(part) /\ mode = "metered")
           /\ hold > 0 => hold <= Spendable(AccountOf[r])
           /\ Hold(r, mode, part, hold)
  /\ UNCHANGED <<recv, payments, bill, charged, credited, recharge, overdue,
                 candidates>>

-----------------------------------------------------------------------------
(* settle_token_request *)

\* The grants a settlement draws on: the allocation rows, or the reservation's
\* package_grant_id when it has none.
SettleGrants(r) ==
  IF Touched(resv[r].alloc) = {} THEN resv[r].first ELSE Touched(resv[r].alloc)

HeldUnits(r, g) == Least(resv[r].alloc[g], grant[g].reserved)

\* an overrun eats into the units held for other requests
MutantAvailableAfterHold(r, g) == NonNeg(TotalUnits[g] - grant[g].consumed)

\* available_after_hold: what g can give r once r's own hold on it is lifted
AvailableAfterHold(r, g) ==
  NonNeg(NonNeg(TotalUnits[g] - grant[g].consumed)
         - NonNeg(grant[g].reserved - HeldUnits(r, g)))

\* The metered wallet_amount of breakdown; a prepaid request owes the wallet nothing.
WalletDue(r, actual, taken) ==
  IF resv[r].mode = "prepaid" THEN 0 ELSE WalletAmount[actual][taken]

SettledState(actual, short) ==
  IF actual = 0 THEN "released" ELSE IF short = 0 THEN "settled" ELSE "settlement_pending"

SettlementState(actual, short) ==
  IF short > 0 THEN "settlement_pending" ELSE IF actual > 0 THEN "settled" ELSE "released"

HeldByOthers(r) == NonNeg(wallet[AccountOf[r]].held - resv[r].hold)

\* r's own hold is not lifted before it pays
MutantInitialPayment(r, due) == Least(due, NonNeg(Spendable(AccountOf[r])))

\* r's own hold is lifted first; what is due is then paid as far as the balance
\* goes without touching the holds of others.
InitialPayment(r, due) ==
  Least(due, NonNeg(wallet[AccountOf[r]].balance - Frozen[AccountOf[r]] - HeldByOthers(r)))

\* What a settlement writes: used[g] units consumed, `paid` of `due` debited.
Finalize(r, actual, used, due, paid) ==
  LET short == due - paid IN
  /\ grant' = [g \in Grants |->
                 IF g \in SettleGrants(r)
                   THEN [grant[g] EXCEPT !.consumed = @ + used[g],
                                         !.reserved = NonNeg(@ - HeldUnits(r, g))]
                   ELSE grant[g]]
  /\ wallet' = [wallet EXCEPT ![AccountOf[r]] =
                  [balance |-> @.balance - paid, held |-> HeldByOthers(r)]]
  /\ charged' = [charged EXCEPT ![r] = @ + paid]
  /\ recv' = [recv EXCEPT ![r] =
                [state |-> IF short > 0 THEN "partially_settled" ELSE "settled",
                 due |-> due, settled |-> paid, outstanding |-> short,
                 waiting |-> FALSE]]
  /\ payments' = [payments EXCEPT ![r] = IF @ = <<>> THEN <<paid>> ELSE @]
  /\ resv' = [resv EXCEPT ![r] =
                [@ EXCEPT !.state = SettledState(actual, short),
                          !.settlement = SettlementState(actual, short),
                          !.walletAmt = paid, !.shortfall = short]]
  /\ bill' = [bill EXCEPT ![r] = [present |-> TRUE, cost |-> paid, outstanding |-> short]]

\* Settle with `actual` units of usage.  A reservation that is not `reserved` any
\* more is left alone (Ok(()) at once).
Settle(r, actual) ==
  /\ IsReserved(r)
  /\ \E used \in [Grants -> Units], taken \in 0..actual :
       LET due == WalletDue(r, actual, taken)
       IN  /\ Spreads(used, taken, SettleGrants(r),
                      [g \in Grants |-> AvailableAfterHold(r, g)], actual)
           /\ Finalize(r, actual, used, due, InitialPayment(r, due))
  /\ UNCHANGED <<credited, recharge, overdue, candidates>>

-----------------------------------------------------------------------------
(* release_token_request and reclaim_expired_token_reservations *)

\* the hold is credited to the balance as well
MutantReleased(r) ==
  /\ wallet' = [wallet EXCEPT ![AccountOf[r]] =
                  [balance |-> @.balance + resv[r].hold, held |-> NonNeg(@.held - resv[r].hold)]]
  /\ grant' = [g \in Grants |->
                 [grant[g] EXCEPT !.reserved = NonNeg(@ - resv[r].alloc[g])]]
  /\ resv' = [resv EXCEPT ![r].state = "released"]

\* Give back both holds and finalize without usage; no receivable, no billing
\* event, and settlement_state stays `reserved`.
Released(r) ==
  /\ wallet' = [wallet EXCEPT ![AccountOf[r]].held = NonNeg(@ - resv[r].hold)]
  /\ grant' = [g \in Grants |->
                 [grant[g] EXCEPT !.reserved = NonNeg(@ - resv[r].alloc[g])]]
  /\ resv' = [resv EXCEPT ![r].state = "released"]

\* The clock passes a reservation's expires_at.
Expire(r) ==
  /\ IsReserved(r)
  /\ r \notin overdue
  /\ overdue' = overdue \cup {r}
  /\ UNCHANGED <<grant, wallet, resv, recv, payments, bill, charged, credited,
                 recharge, candidates>>

\* only reservations that hold money are looked for
MutantReclaimScan(w) ==
  LET found == {r \in overdue : IsReserved(r) /\ resv[r].hold > 0} IN
  /\ candidates[w] = {} /\ found # {}
  /\ candidates' = [candidates EXCEPT ![w] = found]
  /\ UNCHANGED <<grant, wallet, resv, recv, payments, bill, charged, credited,
                 recharge, overdue>>

\* The SELECT of the reclaimer, outside any transaction.
ReclaimScan(w) ==
  /\ candidates[w] = {}
  /\ \E r \in overdue : IsReserved(r)
  /\ candidates' = [candidates EXCEPT ![w] = {r \in overdue : IsReserved(r)}]
  /\ UNCHANGED <<grant, wallet, resv, recv, payments, bill, charged, credited,
                 recharge, overdue>>

\* the SELECT is trusted: the row's state is not read again under its lock
MutantReclaimRelease(w, r) ==
  /\ r \in candidates[w]
  /\ candidates' = [candidates EXCEPT ![w] = @ \ {r}]
  /\ Released(r)
  /\ UNCHANGED <<recv, payments, bill, charged, credited, recharge, overdue>>

\* One release_token_request of the reclaimer's loop.  The candidate may have been
\* settled, or reclaimed by another instance, since the SELECT: then a no-op.
ReclaimRelease(w, r) ==
  /\ r \in candidates[w]
  /\ candidates' = [candidates EXCEPT ![w] = @ \ {r}]
  /\ IF IsReserved(r) THEN Released(r) ELSE UNCHANGED <<grant, wallet, resv>>
  /\ UNCHANGED <<recv, payments, bill, charged, credited, recharge, overdue>>

\* A failing release ends the pass (the `?`), and so does a restart of the instance.
ReclaimAbort(w) ==
  /\ candidates[w] # {}
  /\ candidates' = [candidates EXCEPT ![w] = {}]
  /\ UNCHANGED <<grant, wallet, resv, recv, payments, bill, charged, credited,
                 recharge, overdue>>

-----------------------------------------------------------------------------
(* recover_token_settlement_receivables: one iteration of its loop *)

\* The receivables the SELECT ... SKIP LOCKED may return.
RecoveryDue(r) ==
  /\ recv[r].state = "partially_settled"
  /\ recv[r].outstanding > 0
  /\ ~recv[r].waiting

\* the idempotency key does not carry the sequence number: ON CONFLICT DO NOTHING
MutantWithPayment(r, amount) == payments[r]

\* The payments with one more of the next sequence number.
WithPayment(r, amount) == Append(payments[r], amount)

\* a receivable nothing can be taken for is closed
MutantRecoverDefer(r) ==
  /\ RecoveryDue(r) /\ Spendable(AccountOf[r]) <= 0
  /\ recv' = [recv EXCEPT ![r].state = "settled"]
  /\ UNCHANGED <<grant, wallet, resv, payments, bill, charged, credited,
                 recharge, overdue, candidates>>

\* Nothing spendable: try again in an hour.
RecoverDefer(r) ==
  /\ RecoveryDue(r)
  /\ Spendable(AccountOf[r]) <= 0
  /\ recv' = [recv EXCEPT ![r].waiting = TRUE]
  /\ UNCHANGED <<grant, wallet, resv, payments, bill, charged, credited,
                 recharge, overdue, candidates>>

\* Take what the wallet can spare, as the payment with the next sequence number,
\* and carry it into the receivable, the reservation and the billing event.
RecoverPay(r) ==
  LET a == AccountOf[r]
      payment == Least(recv[r].outstanding, Spendable(a))
      settled == recv[r].settled + payment
      left == recv[r].outstanding - payment
      state == IF left = 0 THEN "settled" ELSE "partially_settled"
  IN
  /\ RecoveryDue(r)
  /\ Spendable(a) > 0
  /\ payments' = [payments EXCEPT ![r] = WithPayment(r, payment)]
  /\ wallet' = [wallet EXCEPT ![a].balance = @ - payment]
  /\ charged' = [charged EXCEPT ![r] = @ + payment]
  /\ recv' = [recv EXCEPT ![r] = [@ EXCEPT !.state = state, !.settled = settled,
                                           !.outstanding = left,
                                           !.waiting = left > 0]]
  /\ resv' = [resv EXCEPT ![r] = [@ EXCEPT !.state = state, !.settlement = state,
                                           !.walletAmt = settled,
                                           !.shortfall = left]]
  /\ bill' = IF bill[r].present
               THEN [bill EXCEPT ![r] = [@ EXCEPT !.cost = settled, !.outstanding = left]]
               ELSE bill
  /\ UNCHANGED <<grant, credited, recharge, overdue, candidates>>

\* The clock passes next_attempt_at.
RetryDue(r) ==
  /\ recv[r].waiting
  /\ recv' = [recv EXCEPT ![r].waiting = FALSE]
  /\ UNCHANGED <<grant, wallet, resv, payments, bill, charged, credited,
                 recharge, overdue, candidates>>

-----------------------------------------------------------------------------
(* batch_insert_usage_with_billing, for a batch of one record (the batch is    *)
(* one transaction)                                                            *)

\* An unfinished settlement defers the record: Err, nothing written.
SettlementPending(r) == resv[r].state = "reserved" /\ resv[r].settlement = "reserved"

\* A record of a request with a reservation: the row takes the reservation's
\* amounts and the wallet is left alone.
WriteReservedUsage(r) ==
  /\ resv[r].state # "none"
  /\ ~SettlementPending(r)
  /\ bill' = [bill EXCEPT ![r] = [@ EXCEPT !.present = TRUE, !.cost = resv[r].walletAmt]]
  /\ UNCHANGED <<grant, wallet, resv, recv, payments, charged, credited,
                 recharge, overdue, candidates>>

\* the wallet is charged for every new billing event, reservation or not
MutantWriteDirectUsage(r, cost, billingEnabled) ==
  /\ ~SettlementPending(r) /\ ~bill[r].present /\ billingEnabled
  /\ cost > 0 /\ cost <= Spendable(AccountOf[r])
  /\ bill' = [bill EXCEPT ![r] = [@ EXCEPT !.present = TRUE, !.cost = cost]]
  /\ wallet' = [wallet EXCEPT ![AccountOf[r]].balance = @ - cost]
  /\ charged' = [charged EXCEPT ![r] = @ + cost]
  /\ UNCHANGED <<grant, resv, recv, payments, credited, recharge, overdue,
                 candidates>>

\* The first record of a request without a reservation (billing was switched on
\* after it was admitted) debits the wallet when billing is enabled, or fails as
\* a whole when the wallet cannot pay; a replayed record finds its row.
WriteDirectUsage(r, cost, billingEnabled) ==
  /\ resv[r].state = "none"
  /\ ~bill[r].present
  /\ bill' = [bill EXCEPT ![r] = [@ EXCEPT !.present = TRUE, !.cost = cost]]
  /\ IF billingEnabled /\ cost > 0
       THEN /\ cost <= Spendable(AccountOf[r])
            /\ wallet' = [wallet EXCEPT ![AccountOf[r]].balance = @ - cost]
            /\ charged' = [charged EXCEPT ![r] = @ + cost]
       ELSE UNCHANGED <<wallet, charged>>
  /\ UNCHANGED <<grant, resv, recv, payments, credited, recharge, overdue,
                 candidates>>

-----------------------------------------------------------------------------
(* redeem_recharge_key, revoke_recharge_key, add_team_wallet_balance *)

\* The transaction marks the key (holding its row) and reads the balance of the
\* redeeming account without locking the wallet row.
RedeemRead(k, a) ==
  /\ recharge[k].state = "unused"
  /\ a \in KeyAccounts[k]
  /\ recharge' = [recharge EXCEPT ![k] = [state |-> "redeeming", account |-> {a},
                                          seen |-> wallet[a].balance]]
  /\ UNCHANGED <<grant, wallet, resv, recv, payments, bill, charged, credited,
                 overdue, candidates>>

\* It writes the balance it saw plus the amount, and commits.
RedeemWrite(k, a) ==
  /\ recharge[k].state = "redeeming"
  /\ recharge[k].account = {a}
  /\ wallet' = [wallet EXCEPT ![a].balance = recharge[k].seen + KeyAmount[k]]
  /\ recharge' = [recharge EXCEPT ![k].state = "used"]
  /\ UNCHANGED <<grant, resv, recv, payments, bill, charged, credited, overdue,
                 candidates>>

\* The connection is lost: the transaction rolls back and frees the key.
RedeemRollback(k) ==
  /\ recharge[k].state = "redeeming"
  /\ recharge' = [recharge EXCEPT ![k] = [state |-> "unused", account |-> {},
                                          seen |-> 0]]
  /\ UNCHANGED <<grant, wallet, resv, recv, payments, bill, charged, credited,
                 overdue, candidates>>

RevokeKey(k) ==
  /\ recharge[k].state = "unused"
  /\ recharge' = [recharge EXCEPT ![k].state = "revoked"]
  /\ UNCHANGED <<grant, wallet, resv, recv, payments, bill, charged, credited,
                 overdue, candidates>>

\* balance = balance + amount, without a wallet_transactions row.
CreditTeam(a) ==
  /\ a \in Teams
  /\ credited[a] + CreditAmount <= MaxCredited
  /\ wallet' = [wallet EXCEPT ![a].balance = @ + CreditAmount]
  /\ credited' = [credited EXCEPT ![a] = @ + CreditAmount]
  /\ UNCHANGED <<grant, resv, recv, payments, bill, charged, recharge, overdue,
                 candidates>>

-----------------------------------------------------------------------------
(* Specification *)

GrantStep == \E g \in Grants : CreateGrant(g) \/ RevokeGrant(g) \/ LapseGrant(g)

RequestStep ==
  \E r \in Requests :
    \/ \E mode \in PaymentModes, wanted \in Units : Reserve(r, mode, wanted)
    \/ \E actual \in Units : Settle(r, actual)
    \/ Expire(r)

ReclaimStep ==
  \E w \in Gateways :
    ReclaimScan(w) \/ ReclaimAbort(w) \/ (\E r \in Requests : ReclaimRelease(w, r))

RecoveryStep == \E r \in Requests : RecoverDefer(r) \/ RecoverPay(r) \/ RetryDue(r)

UsageStep ==
  \E r \in Requests :
    \/ WriteReservedUsage(r)
    \/ \E cost \in UsageCosts, enabled \in BOOLEAN : WriteDirectUsage(r, cost, enabled)

RechargeStep ==
  \/ \E k \in RechargeKeys :
       \/ \E a \in Accounts : RedeemRead(k, a) \/ RedeemWrite(k, a)
       \/ RedeemRollback(k) \/ RevokeKey(k)
  \/ \E a \in Accounts : CreditTeam(a)

Next ==
  \/ GrantStep \/ RequestStep \/ ReclaimStep
  \/ RecoveryStep \/ UsageStep \/ RechargeStep

Spec == Init /\ [][Next]_vars

\* Time passes, and the loops run_expiry_reclaimer and run_receivable_recovery,
\* which every instance spawns at startup and which tick every ten seconds, keep
\* running.  A pass that fails is followed by another, so a release that is tried
\* again and again is not refused for ever (SF).
Fairness ==
  /\ \A r \in Requests :
       WF_vars(Expire(r)) /\ WF_vars(RetryDue(r)) /\ WF_vars(RecoverPay(r))
  /\ \A w \in Gateways : WF_vars(ReclaimScan(w))
  /\ \A w \in Gateways, r \in Requests : SF_vars(ReclaimRelease(w, r))

FairSpec == Spec /\ Fairness

-----------------------------------------------------------------------------
(* Properties *)

ReservationStates ==
  {"none", "reserved", "settled", "settlement_pending", "partially_settled", "released"}

Reservation ==
  [state: ReservationStates, settlement: ReservationStates, mode: PaymentModes,
   first: SUBSET Grants, alloc: [Grants -> Nat], hold: Nat,
   walletAmt: Nat, shortfall: Nat]

GrantRow ==
  [status: {"none", "active", "revoked", "lapsed"}, consumed: Nat, reserved: Nat]

WalletRow == [balance: Int, held: Nat]

Receivable ==
  [state: {"none", "settled", "partially_settled"},
   due: Nat, settled: Nat, outstanding: Nat, waiting: BOOLEAN]

Bill == [present: BOOLEAN, cost: Nat, outstanding: Nat]

RechargeKey ==
  [state: {"unused", "redeeming", "used", "revoked"},
   account: SUBSET Accounts, seen: Int]

\* The columns hold what they may hold; in particular no amount but a balance is
\* ever negative.
TypeOK ==
  /\ grant \in [Grants -> GrantRow]
  /\ wallet \in [Accounts -> WalletRow]
  /\ resv \in [Requests -> Reservation]
  /\ recv \in [Requests -> Receivable]
  /\ payments \in [Requests -> Seq(Nat)]
  /\ bill \in [Requests -> Bill]
  /\ charged \in [Requests -> Nat]
  /\ credited \in [Accounts -> Nat]
  /\ recharge \in [RechargeKeys -> RechargeKey]
  /\ overdue \subseteq Requests
  /\ candidates \in [Gateways -> SUBSET Requests]

\* No package ever hands out more than it holds: whatever mixture of concurrent
\* reservations, overruns, releases and reclaims happened, consumed and reserved
\* units together stay within total_units.
GrantCapacity ==
  \A g \in Grants : grant[g].consumed + grant[g].reserved <= TotalUnits[g]

\* Every unit and every cent on hold belongs to exactly one reservation that is
\* still open: no hold leaks when a request is settled, released or reclaimed,
\* and none is given back twice (GREATEST(0, ...) would hide it).
HoldsBacked ==
  /\ \A g \in Grants :
       grant[g].reserved =
         SumFunction([r \in Requests |-> IF IsReserved(r) THEN resv[r].alloc[g] ELSE 0])
  /\ \A a \in Accounts :
       wallet[a].held =
         SumFunction([r \in Requests |->
                        IF IsReserved(r) /\ AccountOf[r] = a THEN resv[r].hold ELSE 0])

\* The money on hold is always there: no settlement, recovery or usage charge
\* spends what another request was promised.
Solvent == \A a \in Accounts : wallet[a].held <= wallet[a].balance - Frozen[a]

\* An open redemption has not missed an increase of the balance it read.
NoLostCredit ==
  \A k \in RechargeKeys, a \in Accounts :
    recharge[k].state = "redeeming" /\ recharge[k].account = {a}
      => wallet[a].balance <= recharge[k].seen

\* Nor has it missed any other change of it.
NothingMissed ==
  \A k \in RechargeKeys, a \in Accounts :
    recharge[k].state = "redeeming" /\ recharge[k].account = {a}
      => wallet[a].balance = recharge[k].seen

\* A receivable accounts for its whole debt: due = settled + outstanding, and it
\* is open (for the recovery worker to find) exactly while something is outstanding.
DebtSplit ==
  \A r \in Requests :
    /\ recv[r].due = recv[r].settled + recv[r].outstanding
    /\ recv[r].state = "partially_settled" <=> recv[r].outstanding > 0

\* The payments of a receivable, the initial one and every partial recovery, each
\* with its own sequence number, add up to its settled_wallet_amount.
PaymentsAddUp == \A r \in Requests : recv[r].settled = SumFunction(payments[r])

\* The reservation, the receivable and the billing event of a request tell the
\* same story, and what was taken from the wallet for it is exactly that: a
\* usage record, however often it is replayed and whenever it arrives, never
\* charges a request that had a reservation again.
TablesAgree ==
  \A r \in Requests :
    resv[r].state # "none" =>
      /\ charged[r] = recv[r].settled
      /\ resv[r].walletAmt = recv[r].settled
      /\ resv[r].shortfall = recv[r].outstanding
      /\ bill[r].present => bill[r].cost = charged[r] /\ bill[r].outstanding = recv[r].outstanding

\* A reservation that prepays, or that was released or reclaimed, costs nothing.
NothingOwed ==
  \A r \in Requests :
    resv[r].state # "none" /\ (resv[r].mode = "prepaid" \/ recv[r].state = "none")
      => charged[r] = 0

\* The balance of a wallet is what its wallet_transactions (and the credits,
\* which have no row) say: every debit and every recharge counted once.
LedgerBalanced ==
  \A a \in Accounts :
    wallet[a].balance =
      InitialBalance[a] + credited[a]
      + SumFunction([k \in RechargeKeys |->
                       IF recharge[k].state = "used" /\ recharge[k].account = {a}
                         THEN KeyAmount[k] ELSE 0])
      - SumFunction([r \in Requests |-> IF AccountOf[r] = a THEN charged[r] ELSE 0])

\* Once a request is finalized its debt is fixed: no later step reopens the
\* reservation, changes what is due, takes back a payment or draws more money
\* than what is still outstanding.
FinalStep(r) ==
  resv[r].state \notin {"none", "reserved"} =>
    /\ resv'[r].state \notin {"none", "reserved"}
    /\ recv'[r].due = recv[r].due
    /\ charged'[r] - charged[r] = recv[r].outstanding - recv'[r].outstanding
    /\ charged'[r] >= charged[r]

FinalOnce == [][\A r \in Requests : FinalStep(r)]_vars

\* The deal of a request: its reservation while it is open, then what it was charged
\* and what its receivable leaves open.
DealOf(r) ==
  [phase |-> IF IsReserved(r) THEN "open"
             ELSE IF resv[r].state = "none" /\ charged[r] = 0 THEN "none" ELSE "closed",
   hold |-> IF IsReserved(r) THEN resv[r].hold ELSE 0,
   part |-> IF IsReserved(r) THEN resv[r].alloc ELSE NoAllocation,
   paid |-> charged[r], owed |-> recv[r].outstanding]

Escrowed ==
  INSTANCE Escrow WITH
    PayerOf <- AccountOf,
    money <- [a \in Accounts |-> Spendable(a)],
    units <- [g \in Grants |-> FreeUnits(g)],
    deal  <- [r \in Requests |-> DealOf(r)]

\* Every transaction moves money and units as Escrow allows: a wallet and a package
\* lose what a request holds, pays or uses and nothing else, only the payer's own are
\* touched, the free rest is never overdrawn, a request is closed once, and a debt
\* arises only from an empty wallet and falls by what is paid.
EscrowHolds == Escrowed!Spec

\* Every reservation is finalized in the end, by its request or by the reclaimer
\* of some instance: no hold stays for ever.
HoldsEventuallyReturn ==
  \A r \in Requests : IsReserved(r) ~> ~IsReserved(r)

\* A debt is collected as soon as there is something to collect: it is never the
\* case from some point on that a receivable is open while its wallet could pay.
DebtEventuallyCollected ==
  \A r \in Requests :
    []<>(recv[r].outstanding = 0 \/ Spendable(AccountOf[r]) <= 0)
=============================================================================
