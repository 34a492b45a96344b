------------------------------- MODULE Escrow -------------------------------
(***************************************************************************)
(* What token billing promises about money and package units, whoever      *)
(* reserves, settles, reclaims, recovers and recharges at the same time.   *)
(* A request makes one deal.  What the deal holds or was paid, its payer's *)
(* wallet and packages have lost, and nothing else moves; what is free is  *)
(* never overdrawn; a deal is closed once, and what it owes then is        *)
(* collected or stays owed.                                                *)
(***************************************************************************)
EXTENDS Integers

CONSTANTS
  Requests,
  Accounts,  \* wallets
  Grants,    \* packages
  PayerOf,   \* PayerOf[r]: the wallet request r draws on
  OwnerOf    \* OwnerOf[g]: the wallet package g belongs to

VARIABLES
  money,  \* money[a]: the money in wallet a that no deal holds
  units,  \* units[g]: the units of package g that are neither held nor used
  deal    \* deal[r]: what request r holds, has paid and owes

vars == <<money, units, deal>>

Nothing == [g \in Grants |-> 0]

NoDeal == [phase |-> "none", hold |-> 0, part |-> Nothing, paid |-> 0, owed |-> 0]

Deal == [phase : {"none", "open", "closed"}, hold : Nat, part : [Grants -> Nat],
         paid : Nat, owed : Nat]

\* Nothing is overdrawn.
Covered ==
  /\ money \in [Accounts -> Nat]
  /\ units \in [Grants -> Nat]
  /\ deal \in [Requests -> Deal]

Init == Covered /\ deal = [r \in Requests |-> NoDeal]

\* The deal of r, and no other, goes from one phase to another.
Turns(r, from, to) ==
  /\ deal[r].phase = from /\ deal'[r].phase = to
  /\ \A q \in Requests \ {r} : deal'[q] = deal[q]

\* What the deal gains its payer's wallet loses.
Exchanged(r) ==
  money' = [money EXCEPT ![PayerOf[r]] =
              @ + (deal[r].hold + deal[r].paid) - (deal'[r].hold + deal'[r].paid)]

\* Money and units are put aside, the units from packages of the payer.
Open(r) ==
  /\ Turns(r, "none", "open")
  /\ deal'[r].paid = 0 /\ deal'[r].owed = 0
  /\ Exchanged(r)
  /\ units' = [g \in Grants |-> units[g] - deal'[r].part[g]]
  /\ \A g \in Grants : deal'[r].part[g] > 0 => OwnerOf[g] = PayerOf[r]

\* All that was put aside is lifted; units of the payer are used, and money is paid.
\* Only when the wallet is empty something remains owed.
Close(r) ==
  /\ Turns(r, "open", "closed")
  /\ deal'[r].hold = 0 /\ deal'[r].part = Nothing
  /\ Exchanged(r)
  /\ deal'[r].owed > 0 => money'[PayerOf[r]] = 0
  /\ \A g \in Grants :
       /\ units'[g] <= units[g] + deal[r].part[g]
       /\ OwnerOf[g] # PayerOf[r] => units'[g] = units[g]

\* Part of what is owed is paid.
Collect(r) ==
  /\ Turns(r, "closed", "closed")
  /\ deal'[r].paid > deal[r].paid
  /\ deal'[r].paid + deal'[r].owed = deal[r].paid + deal[r].owed
  /\ deal'[r].hold = deal[r].hold /\ deal'[r].part = deal[r].part
  /\ Exchanged(r)
  /\ UNCHANGED units

\* A request that put nothing aside pays at once.
Charge(r) ==
  /\ Turns(r, "none", "closed")
  /\ deal'[r] = [phase |-> "closed", hold |-> 0, part |-> Nothing,
                 paid |-> deal'[r].paid, owed |-> 0]
  /\ Exchanged(r)
  /\ UNCHANGED units

Deposit(a) ==
  /\ money'[a] >= money[a]
  /\ \A b \in Accounts \ {a} : money'[b] = money[b]
  /\ UNCHANGED <<units, deal>>

Next ==
  /\ Covered'
  /\ \/ \E r \in Requests : Open(r) \/ Close(r) \/ Collect(r) \/ Charge(r)
     \/ \E a \in Accounts : Deposit(a)

Spec == Init /\ [][Next]_vars
=============================================================================
