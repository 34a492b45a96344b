------------------------- MODULE TokenBillingProofs -------------------------
(***************************************************************************)
(* What TokenBilling guarantees for every set of requests, accounts,       *)
(* grants, keys and gateway instances and every price.                     *)
(***************************************************************************)
EXTENDS TokenBilling, FiniteSetTheorems, WellFoundedInduction, TLAPS

-----------------------------------------------------------------------------
(* Sums.  SumFunction is a fold over the domain: its facts are proved from the  *)
(* equation of the fold, by a smallest counterexample.                          *)

\* A nonempty set of naturals has a least element, a nonempty family of subsets of
\* a finite set a minimal one.
LEMMA NatMin ==
  ASSUME NEW T \in SUBSET Nat, T # {}
  PROVE  \E n \in T : \A m \in T : n <= m
<1> DEFINE R == {p \in Nat \X Nat : p[1] < p[2]}
<1>1. IsWellFoundedOn(R, Nat)
  BY NatLessThanWellFounded, Zenon DEF OpToRel
<1>2. \E n \in T : \A m \in T : <<m, n>> \notin R
  <2> HIDE DEF R
  <2> QED BY <1>1, WFMin
<1>3. \A n \in T, m \in T : m < n => <<m, n>> \in R
  OBVIOUS
<1> HIDE DEF R
<1>4. PICK n \in T : \A m \in T : ~(m < n)
  BY <1>2, <1>3
<1>5. \A m \in T : n <= m
  <2> TAKE m \in T
  <2>1. n \in Nat /\ m \in Nat /\ ~(m < n)
    BY <1>4
  <2> QED BY <2>1
<1> QED BY <1>5

LEMMA SetMin ==
  ASSUME NEW S, IsFiniteSet(S), NEW T \in SUBSET (SUBSET S), T # {}
  PROVE  \E s \in T : \A t \in T : t \subseteq s => t = s
<1>1. T \subseteq FiniteSubsetsOf(S)
  BY FS_Subset DEF FiniteSubsetsOf
<1>2. \E s \in T : \A t \in T : ~(<<t, s>> \in StrictSubsetOrdering(S))
  BY <1>1, FS_StrictSubsetOrderingWellFounded, WFMin
<1> QED BY <1>2 DEF StrictSubsetOrdering

\* The element the fold takes out of s, and the equation of its iterations.
Pick(s) == CHOOSE x \in s : TRUE

Unfolds(it, f, S) ==
  it = [s \in SUBSET S |-> IF s = {} THEN 0 ELSE f[Pick(s)] + it[s \ {Pick(s)}]]

\* SumFunction chooses a solution of that equation on the subsets of the domain.
LEMMA SumUnfolded ==
  ASSUME NEW f
  PROVE  SumFunction(f) = (CHOOSE it : Unfolds(it, f, DOMAIN f))[DOMAIN f]
BY DEF SumFunction, SumFunctionOnSet, FoldFunctionOnSet, MapThenFoldSet, Unfolds, Pick

\* The recursion has a solution on the subsets of up to n elements.
Solves(g, f, S, n) ==
  /\ DOMAIN g = {s \in SUBSET S : Cardinality(s) <= n}
  /\ \A s \in DOMAIN g : g[s] = IF s = {} THEN 0 ELSE f[Pick(s)] + g[s \ {Pick(s)}]

\* There is one for every n, and so for all subsets.
LEMMA SolvedUpTo ==
  ASSUME NEW S, IsFiniteSet(S), NEW f
  PROVE  \A n \in Nat : \E g : Solves(g, f, S, n)
<1> DEFINE T == {n \in Nat : ~ \E g : Solves(g, f, S, n)}
<1>1. SUFFICES ASSUME T # {} PROVE FALSE
  OBVIOUS
<1>2. PICK m \in T : \A n \in T : m <= n
  BY <1>1, NatMin
<1>3. \A s \in SUBSET S : /\ IsFiniteSet(s) /\ Cardinality(s) \in Nat
                         /\ (Cardinality(s) = 0 <=> s = {})
  BY FS_Subset, FS_CardinalityType, FS_EmptySet
<1>4. m # 0
  <2> DEFINE g == [s \in {{}} |-> 0]
  <2>1. {s \in SUBSET S : Cardinality(s) <= 0} = {{}}
    <3>1. ASSUME NEW s \in SUBSET S PROVE Cardinality(s) <= 0 <=> s = {}
      <4>1. Cardinality(s) \in Nat /\ (Cardinality(s) = 0 <=> s = {})
        BY <1>3
      <4> QED BY <4>1
    <3> QED BY <3>1
  <2>2. Solves(g, f, S, 0)
    BY <2>1 DEF Solves
  <2> QED BY <2>2, <1>2
<1>5. PICK g : Solves(g, f, S, m - 1)
  BY <1>2, <1>4
<1> DEFINE D == {s \in SUBSET S : Cardinality(s) <= m}
           h == [s \in D |-> IF s = {} THEN 0 ELSE f[Pick(s)] + g[s \ {Pick(s)}]]
<1>6. \A s \in D : s # {} => /\ s \ {Pick(s)} \in D
                              /\ Cardinality(s \ {Pick(s)}) <= m - 1
  <2> SUFFICES ASSUME NEW s \in D, s # {}
               PROVE  s \ {Pick(s)} \in D /\ Cardinality(s \ {Pick(s)}) <= m - 1
    OBVIOUS
  <2>1. Pick(s) \in s
    BY DEF Pick
  <2>4. s \in SUBSET S /\ Cardinality(s) <= m
    OBVIOUS
  <2>2. IsFiniteSet(s) /\ Cardinality(s) \in Nat /\ s \in SUBSET S /\ Cardinality(s) <= m
    BY <1>3, <2>4
  <2>3. Cardinality(s \ {Pick(s)}) = Cardinality(s) - 1
    BY <2>1, <2>2, FS_RemoveElement
  <2> QED BY <2>2, <2>3
<1>7. \A s \in D : Cardinality(s) <= m - 1 => h[s] = g[s]
  BY <1>3, <1>5 DEF Solves
<1>8. Solves(h, f, S, m)
  BY <1>6, <1>7 DEF Solves
<1> QED BY <1>2, <1>8

LEMMA Unfolded ==
  ASSUME NEW S, IsFiniteSet(S), NEW f
  PROVE  \E it : Unfolds(it, f, S)
<1>1. Cardinality(S) \in Nat
  BY FS_CardinalityType
<1>2. PICK g : Solves(g, f, S, Cardinality(S))
  BY <1>1, SolvedUpTo
<1>3. {s \in SUBSET S : Cardinality(s) <= Cardinality(S)} = SUBSET S
  BY FS_Subset
<1>4. DOMAIN g = SUBSET S
  BY <1>2, <1>3 DEF Solves
<1> DEFINE h == [s \in SUBSET S |-> g[s]]
<1>5. Unfolds(h, f, S)
  <2>1. \A s \in SUBSET S : s \ {Pick(s)} \in SUBSET S
    OBVIOUS
  <2> QED BY <2>1, <1>2, <1>4 DEF Unfolds, Solves
<1> QED BY <1>5

\* it[s] is the sum of f over s, whichever element is taken out first.
IsSum(it, f, S) ==
  /\ it \in [SUBSET S -> Int]
  /\ it[{}] = 0
  /\ \A s \in SUBSET S : \A x \in s : it[s] = f[x] + it[s \ {x}]

LEMMA SumExists ==
  ASSUME NEW S, IsFiniteSet(S), NEW f \in [S -> Int]
  PROVE  \E it : IsSum(it, f, S) /\ SumFunction(f) = it[S]
<1> DEFINE it == CHOOSE it : Unfolds(it, f, S)
<1>1. Unfolds(it, f, S)
  BY Unfolded
<1>2. SumFunction(f) = it[S]
  BY SumUnfolded
<1> HIDE DEF it
<1>3. \A s \in SUBSET S : s # {} => Pick(s) \in s /\ Pick(s) \in S
  BY DEF Pick
<1>4. \A s \in SUBSET S : it[s] \in Int
  <2> DEFINE T == {s \in SUBSET S : it[s] \notin Int}
  <2>1. SUFFICES ASSUME T # {} PROVE FALSE
    OBVIOUS
  <2>2. PICK s \in T : \A t \in T : t \subseteq s => t = s
    <3>1. T \in SUBSET (SUBSET S)
      OBVIOUS
    <3> HIDE DEF T
    <3> QED BY <2>1, <3>1, SetMin
  <2>3. it[s] = IF s = {} THEN 0 ELSE f[Pick(s)] + it[s \ {Pick(s)}]
    BY <1>1 DEF Unfolds
  <2>4. s # {} => it[s \ {Pick(s)}] \in Int
    BY <1>3, <2>2
  <2> QED BY <1>3, <2>3, <2>4
<1>5. it \in [SUBSET S -> Int]
  BY <1>1, <1>4 DEF Unfolds
<1>6. it[{}] = 0
  BY <1>1 DEF Unfolds
<1>7. \A s \in SUBSET S : \A x \in s : it[s] = f[x] + it[s \ {x}]
  <2> DEFINE T == {s \in SUBSET S : \E x \in s : it[s] # f[x] + it[s \ {x}]}
  <2>1. SUFFICES ASSUME T # {} PROVE FALSE
    OBVIOUS
  <2>2. PICK s \in T : \A t \in T : t \subseteq s => t = s
    <3>1. T \in SUBSET (SUBSET S)
      OBVIOUS
    <3> HIDE DEF T
    <3> QED BY <2>1, <3>1, SetMin
  <2>3. PICK x \in s : it[s] # f[x] + it[s \ {x}]
    OBVIOUS
  <2> DEFINE y == Pick(s)
  <2>4. y \in s /\ y \in S /\ x \in S
    BY <1>3
  <2>5. it[s] = f[y] + it[s \ {y}]
    BY <1>1, <2>3 DEF Unfolds
  <2>6. x # y
    BY <2>3, <2>5
  <2>7. it[s \ {y}] = f[x] + it[(s \ {y}) \ {x}]
    <3>1. s \ {y} \notin T /\ s \ {y} \in SUBSET S /\ x \in s \ {y}
      BY <2>2, <2>4, <2>6
    <3> QED BY <3>1
  <2>8. it[s \ {x}] = f[y] + it[(s \ {x}) \ {y}]
    <3>1. s \ {x} \notin T /\ s \ {x} \in SUBSET S /\ y \in s \ {x}
      BY <2>2, <2>4, <2>6
    <3> QED BY <3>1
  <2>9. (s \ {x}) \ {y} = (s \ {y}) \ {x}
    OBVIOUS
  <2>10. it[(s \ {y}) \ {x}] \in Int /\ f[x] \in Int /\ f[y] \in Int
    BY <1>4, <2>4
  <2>11. it[s] = f[y] + (f[x] + it[(s \ {y}) \ {x}])
    BY <2>5, <2>7
  <2>12. it[s \ {x}] = f[y] + it[(s \ {y}) \ {x}]
    BY <2>8, <2>9
  <2> HIDE DEF y
  <2> QED BY <2>3, <2>10, <2>11, <2>12
<1> QED BY <1>2, <1>5, <1>6, <1>7 DEF IsSum

\* Functions that agree on D have the same sum over D.
LEMMA SumUnique ==
  ASSUME NEW S, NEW R, IsFiniteSet(S), NEW f, NEW g, NEW it, NEW jt,
         IsSum(it, f, S), IsSum(jt, g, R),
         NEW D, D \subseteq S, D \subseteq R, \A x \in D : f[x] = g[x]
  PROVE  it[D] = jt[D]
<1> DEFINE T == {s \in SUBSET D : it[s] # jt[s]}
<1>1. SUFFICES ASSUME T # {} PROVE FALSE
  OBVIOUS
<1>2. PICK s \in T : \A t \in T : t \subseteq s => t = s
  <2>1. T \in SUBSET (SUBSET S)
    OBVIOUS
  <2> HIDE DEF T
  <2> QED BY <1>1, <2>1, SetMin
<1>3. s # {}
  BY DEF IsSum
<1>4. PICK x \in s : TRUE
  BY <1>3
<1>5. it[s] = f[x] + it[s \ {x}] /\ jt[s] = g[x] + jt[s \ {x}]
  BY <1>4 DEF IsSum
<1>6. it[s \ {x}] = jt[s \ {x}]
  BY <1>2, <1>4
<1> QED BY <1>4, <1>5, <1>6

-----------------------------------------------------------------------------

\* The three facts of IsSum, one at a time.
LEMMA SumParts ==
  ASSUME NEW S, NEW f, NEW it, IsSum(it, f, S)
  PROVE  (\A s \in SUBSET S : it[s] \in Int) /\ it[{}] = 0
BY DEF IsSum

LEMMA SumStep ==
  ASSUME NEW S, NEW f, NEW it, IsSum(it, f, S), NEW s \in SUBSET S, NEW x \in s
  PROVE  it[s] = f[x] + it[s \ {x}]
BY DEF IsSum

\* What the proofs below use of sums.
LEMMA SumInt ==
  ASSUME NEW S, IsFiniteSet(S), NEW f \in [S -> Int]
  PROVE  SumFunction(f) \in Int
<1>1. PICK it : IsSum(it, f, S) /\ SumFunction(f) = it[S]
  BY SumExists
<1>2. it[S] \in Int
  BY <1>1, SumParts
<1> QED BY <1>1, <1>2

\* Changing one summand changes the sum by the difference.
LEMMA SumChanged ==
  ASSUME NEW S, IsFiniteSet(S), NEW f \in [S -> Int], NEW g \in [S -> Int],
         NEW x \in S, \A y \in S : y # x => f[y] = g[y]
  PROVE  SumFunction(g) = SumFunction(f) + g[x] - f[x]
<1>1. PICK it : IsSum(it, f, S) /\ SumFunction(f) = it[S]
  BY SumExists
<1>2. PICK jt : IsSum(jt, g, S) /\ SumFunction(g) = jt[S]
  BY SumExists
<1>3. it[S] = f[x] + it[S \ {x}] /\ jt[S] = g[x] + jt[S \ {x}]
  BY <1>1, <1>2 DEF IsSum
<1>4. it[S \ {x}] = jt[S \ {x}]
  <2> DEFINE D == S \ {x}
  <2>1. D \subseteq S /\ \A y \in D : f[y] = g[y]
    OBVIOUS
  <2> HIDE DEF D
  <2>2. it[D] = jt[D]
    BY <1>1, <1>2, <2>1, SumUnique
  <2> QED BY <2>2 DEF D
<1>5. it[S \ {x}] \in Int /\ jt[S \ {x}] \in Int /\ f[x] \in Int /\ g[x] \in Int
  BY <1>1, <1>2 DEF IsSum
<1> QED BY <1>1, <1>2, <1>3, <1>4, <1>5

\* A sum of naturals is a natural and at least each of its summands.
LEMMA SumNat ==
  ASSUME NEW S, IsFiniteSet(S), NEW f \in [S -> Nat]
  PROVE  SumFunction(f) \in Nat /\ \A x \in S : f[x] <= SumFunction(f)
<1>1. PICK it : IsSum(it, f, S) /\ SumFunction(f) = it[S]
  <2>1. f \in [S -> Int]
    OBVIOUS
  <2> QED BY <2>1, SumExists
<1>2. \A s \in SUBSET S : it[s] \in Nat
  <2> DEFINE T == {s \in SUBSET S : it[s] \notin Nat}
  <2>1. SUFFICES ASSUME T # {} PROVE FALSE
    OBVIOUS
  <2>2. PICK s \in T : \A t \in T : t \subseteq s => t = s
    <3>1. T \in SUBSET (SUBSET S)
      OBVIOUS
    <3> HIDE DEF T
    <3> QED BY <2>1, <3>1, SetMin
  <2>6. s \in SUBSET S /\ it[s] \notin Nat
    OBVIOUS
  <2>7. it[{}] = 0
    BY <1>1, SumParts
  <2>3. s # {}
    BY <2>6, <2>7
  <2>4. PICK x \in s : TRUE
    BY <2>3
  <2>5. it[s] = f[x] + it[s \ {x}]
    BY <1>1, <2>4, <2>6, SumStep
  <2>8. it[s \ {x}] \in Nat
    BY <2>2, <2>4, <2>6
  <2>9. f[x] \in Nat
    BY <2>4, <2>6
  <2> QED BY <2>5, <2>6, <2>8, <2>9
<1>3. \A x \in S : f[x] <= it[S]
  <2> TAKE x \in S
  <2>1. it[S] = f[x] + it[S \ {x}] /\ f[x] \in Nat /\ it[S \ {x}] \in Nat
    BY <1>1, <1>2 DEF IsSum
  <2> QED BY <2>1
<1> QED BY <1>1, <1>2, <1>3

LEMMA SumZero ==
  ASSUME NEW S, IsFiniteSet(S), NEW f \in [S -> Int], \A x \in S : f[x] = 0
  PROVE  SumFunction(f) = 0
<1>1. PICK it : IsSum(it, f, S) /\ SumFunction(f) = it[S]
  BY SumExists
<1> DEFINE T == {s \in SUBSET S : it[s] # 0}
<1>2. SUFFICES ASSUME T # {} PROVE FALSE
  BY <1>1
<1>3. PICK s \in T : \A t \in T : t \subseteq s => t = s
  <2>1. T \in SUBSET (SUBSET S)
    OBVIOUS
  <2> HIDE DEF T
  <2> QED BY <1>2, <2>1, SetMin
<1>4. s # {}
  BY <1>1 DEF IsSum
<1>5. PICK x \in s : TRUE
  BY <1>4
<1>6. it[s] = f[x] + it[s \ {x}] /\ f[x] = 0 /\ it[s \ {x}] = 0
  BY <1>1, <1>3, <1>5 DEF IsSum
<1> QED BY <1>6

\* Sums over sequences.
LEMMA SumOfNothing == SumFunction(<<>>) = 0
<1>1. IsFiniteSet({}) /\ <<>> \in [{} -> Int]
  BY FS_EmptySet
<1> QED BY <1>1, SumZero

LEMMA SumAppended ==
  ASSUME NEW s \in Seq(Nat), NEW x \in Nat
  PROVE  SumFunction(Append(s, x)) = SumFunction(s) + x
<1> DEFINE n == Len(s)
           f == Append(s, x)
<1>1. n \in Nat /\ s \in [1..n -> Int] /\ f \in [1..(n + 1) -> Int]
  <2>1. n \in Nat /\ s \in [1..n -> Nat] /\ f \in Seq(Nat) /\ Len(f) = n + 1
    OBVIOUS
  <2>3. f \in [1..Len(f) -> Nat]
    <3> HIDE DEF n, f
    <3> QED BY <2>1
  <2>2. f \in [1..(n + 1) -> Nat]
    <3> HIDE DEF n, f
    <3> QED BY <2>1, <2>3, Zenon
  <2> HIDE DEF n, f
  <2> QED BY <2>1, <2>2
<1>2. IsFiniteSet(1..n) /\ IsFiniteSet(1..(n + 1))
  BY <1>1, FS_Interval
<1>3. f[n + 1] = x /\ \A i \in 1..n : f[i] = s[i]
  OBVIOUS
<1> HIDE DEF n, f
<1>4. PICK it : IsSum(it, s, 1..n) /\ SumFunction(s) = it[1..n]
  BY <1>1, <1>2, SumExists
<1>5. PICK jt : IsSum(jt, f, 1..(n + 1)) /\ SumFunction(f) = jt[1..(n + 1)]
  BY <1>1, <1>2, SumExists
<1>6. (1..(n + 1)) \ {n + 1} = 1..n /\ n + 1 \in 1..(n + 1)
  BY <1>1
<1>7. jt[1..(n + 1)] = x + jt[1..n]
  <2>1. jt[1..(n + 1)] = f[n + 1] + jt[(1..(n + 1)) \ {n + 1}]
    <3> DEFINE R == 1..(n + 1)
    <3>1. IsSum(jt, f, R) /\ n + 1 \in R /\ R \in SUBSET R
      BY <1>5, <1>6
    <3> HIDE DEF R
    <3>2. jt[R] = f[n + 1] + jt[R \ {n + 1}]
      BY <3>1, SumStep
    <3> QED BY <3>2 DEF R
  <2> QED BY <1>3, <1>6, <2>1
<1>8. it[1..n] = jt[1..n]
  <2> DEFINE D == 1..n
             R == 1..(n + 1)
  <2>1. D \subseteq D /\ D \subseteq R /\ \A i \in D : s[i] = f[i]
    BY <1>1, <1>3
  <2>2. IsFiniteSet(D) /\ IsSum(it, s, D) /\ IsSum(jt, f, R)
    BY <1>2, <1>4, <1>5
  <2> HIDE DEF D, R
  <2>3. it[D] = jt[D]
    BY <2>1, <2>2, SumUnique
  <2> QED BY <2>3 DEF D
<1>9. it[1..n] \in Int
  BY <1>4 DEF IsSum
<1> QED BY <1>4, <1>5, <1>7, <1>8, <1>9 DEF f

-----------------------------------------------------------------------------
(* Rows *)

LEMMA NonNegNat == ASSUME NEW x \in Int PROVE NonNeg(x) \in Nat
BY DEF NonNeg

LEMMA LeastNat == ASSUME NEW x \in Nat, NEW y \in Nat
                  PROVE  Least(x, y) \in Nat /\ Least(x, y) <= x /\ Least(x, y) <= y
BY DEF Least

\* The columns of a row, and a row updated in one or two of them.
LEMMA GrantRowFields ==
  ASSUME NEW row \in GrantRow PROVE row.consumed \in Nat /\ row.reserved \in Nat
BY DEF GrantRow

LEMMA GrantRowUpdate ==
  ASSUME NEW row \in GrantRow, NEW n \in Nat, NEW c \in Nat
  PROVE  /\ [row EXCEPT !.reserved = n] \in GrantRow
         /\ [row EXCEPT !.consumed = c, !.reserved = n] \in GrantRow
BY DEF GrantRow

LEMMA WalletRowFields ==
  ASSUME NEW row \in WalletRow PROVE row.balance \in Int /\ row.held \in Nat
BY DEF WalletRow

LEMMA WalletRowUpdate ==
  ASSUME NEW row \in WalletRow, NEW n \in Nat, NEW b \in Int
  PROVE  /\ [row EXCEPT !.held = n] \in WalletRow
         /\ [row EXCEPT !.balance = b] \in WalletRow
         /\ [balance |-> b, held |-> n] \in WalletRow
BY DEF WalletRow

LEMMA ReservationUpdate ==
  ASSUME NEW row \in Reservation, NEW state \in ReservationStates,
         NEW settlement \in ReservationStates, NEW paid \in Nat, NEW short \in Nat
  PROVE  [row EXCEPT !.state = state, !.settlement = settlement, !.walletAmt = paid,
                     !.shortfall = short] \in Reservation
<1> HIDE DEF ReservationStates
<1> QED BY DEF Reservation

LEMMA ReceivableUpdate ==
  ASSUME NEW row \in Receivable, NEW state \in {"none", "settled", "partially_settled"},
         NEW settled \in Nat, NEW left \in Nat, NEW waiting \in BOOLEAN
  PROVE  [row EXCEPT !.state = state, !.settled = settled, !.outstanding = left,
                     !.waiting = waiting] \in Receivable
BY Zenon DEF Receivable

-----------------------------------------------------------------------------
(* Type correctness *)

LEMMA TypeInit == Init => TypeOK
BY BillingAssumption
   DEF Init, TypeOK, NoReservation, NoReceivable, NoBill, NoAllocation,
       Reservation, ReservationStates, PaymentModes, GrantRow, WalletRow, Receivable, Bill,
       RechargeKey

\* What a proof about Reserve starts from.
LEMMA ReserveParts ==
  ASSUME NEW r \in Requests, NEW mode \in PaymentModes, NEW wanted \in Units,
         Reserve(r, mode, wanted)
  PROVE  \E part \in [Grants -> Nat], hold \in Nat :
           /\ \A g \in Grants : part[g] > 0 => part[g] <= FreeUnits(g) /\ g \in Eligible(r)
           /\ hold > 0 => hold <= Spendable(AccountOf[r])
           /\ Hold(r, mode, part, hold)
<1>1. PICK part \in [Grants -> Units], taken \in 0..wanted :
        LET hold == WalletHold(mode, wanted, taken)
        IN  /\ Spreads(part, taken, Eligible(r), [g \in Grants |-> FreeUnits(g)], wanted)
            /\ hold > 0 => hold <= Spendable(AccountOf[r])
            /\ Hold(r, mode, part, hold)
  BY DEF Reserve
<1>2. WalletHold(mode, wanted, taken) \in Nat
  BY BillingAssumption DEF Units, WalletHold
<1>3. part \in [Grants -> Nat]
  BY BillingAssumption DEF Units
<1>4. \A g \in Grants : part[g] > 0 => part[g] <= FreeUnits(g) /\ g \in Eligible(r)
  BY <1>1, <1>3 DEF Spreads
<1> QED BY <1>1, <1>2, <1>3, <1>4

\* What a proof about Settle starts from.
LEMMA SettleParts ==
  ASSUME TypeOK, NEW r \in Requests, NEW actual \in Units, Settle(r, actual)
  PROVE  /\ HeldByOthers(r) \in Nat
         /\ \E used \in [Grants -> Nat], due \in Nat, paid \in Nat :
              /\ paid <= due
              /\ paid = InitialPayment(r, due)
              /\ resv[r].mode = "prepaid" => due = 0
              /\ \A g \in SettleGrants(r) : used[g] <= AvailableAfterHold(r, g)
              /\ Finalize(r, actual, used, due, paid)
<1>1. PICK used \in [Grants -> Units], taken \in 0..actual :
        LET due == WalletDue(r, actual, taken)
        IN  /\ Spreads(used, taken, SettleGrants(r),
                       [g \in Grants |-> AvailableAfterHold(r, g)], actual)
            /\ Finalize(r, actual, used, due, InitialPayment(r, due))
  BY DEF Settle
<1> DEFINE due == WalletDue(r, actual, taken)
           avail == NonNeg(wallet[AccountOf[r]].balance - Frozen[AccountOf[r]]
                           - HeldByOthers(r))
<1>2. /\ AccountOf[r] \in Accounts /\ wallet[AccountOf[r]] \in WalletRow
      /\ resv[r].hold \in Nat /\ Frozen[AccountOf[r]] \in Nat
  BY BillingAssumption DEF TypeOK, Reservation
<1>3. HeldByOthers(r) \in Nat
  BY <1>2, WalletRowFields, NonNegNat DEF HeldByOthers
<1>4. avail \in Nat
  <2>1. wallet[AccountOf[r]].balance \in Int
    BY <1>2, WalletRowFields
  <2> QED BY <1>2, <1>3, <2>1, NonNegNat
<1>5. due \in Nat
  <2>1. MaxUnits \in Nat /\ WalletAmount \in [Units -> [Units -> Nat]]
    BY BillingAssumption
  <2>2. taken \in Units
    BY <2>1 DEF Units
  <2>3. WalletAmount[actual][taken] \in Nat
    BY <2>1, <2>2
  <2> QED BY <2>3 DEF WalletDue
<1>6. Least(due, avail) \in Nat /\ Least(due, avail) <= due
  <2> HIDE DEF due, avail
  <2> QED BY <1>4, <1>5, LeastNat
<1>7. used \in [Grants -> Nat]
  BY BillingAssumption DEF Units
<1>8. SettleGrants(r) \subseteq Grants
  BY DEF SettleGrants, Touched, TypeOK, Reservation
<1>9. \A g \in SettleGrants(r) : used[g] <= AvailableAfterHold(r, g)
  BY <1>1, <1>8 DEF Spreads
<1>10. resv[r].mode = "prepaid" => due = 0
  BY DEF WalletDue
<1> QED BY <1>1, <1>3, <1>5, <1>6, <1>7, <1>9, <1>10 DEF InitialPayment

LEMMA TypeReserve ==
  ASSUME TypeOK, NEW r \in Requests, NEW mode \in PaymentModes, NEW wanted \in Units,
         Reserve(r, mode, wanted)
  PROVE  TypeOK'
<1>1. PICK part \in [Grants -> Nat], hold \in Nat : Hold(r, mode, part, hold)
  BY ReserveParts
<1>2. wallet' \in [Accounts -> WalletRow]
  <2>1. AccountOf[r] \in Accounts /\ wallet[AccountOf[r]] \in WalletRow
    BY BillingAssumption DEF TypeOK
  <2>2. wallet[AccountOf[r]].held + hold \in Nat
    BY <2>1, WalletRowFields
  <2>3. [wallet[AccountOf[r]] EXCEPT !.held = @ + hold] \in WalletRow
    BY <2>1, <2>2, 0 \in Int, WalletRowUpdate
  <2> QED BY <1>1, <2>3 DEF TypeOK, Hold
<1>3. grant' \in [Grants -> GrantRow]
  <2> SUFFICES ASSUME NEW g \in Grants
               PROVE  [grant[g] EXCEPT !.reserved = @ + part[g]] \in GrantRow
    BY <1>1 DEF Hold
  <2>1. grant[g] \in GrantRow
    BY DEF TypeOK
  <2>2. grant[g].reserved + part[g] \in Nat
    BY <2>1, GrantRowFields
  <2> QED BY <2>1, <2>2, 0 \in Nat, GrantRowUpdate
<1>4. resv' \in [Requests -> Reservation]
  <2>1. Foremost(Eligible(r)) \in SUBSET Grants
    BY DEF Foremost, Eligible
  <2>2. [NoReservation EXCEPT !.state = "reserved", !.settlement = "reserved",
                              !.mode = mode, !.first = Foremost(Eligible(r)),
                              !.alloc = part, !.hold = hold] \in Reservation
    BY <2>1 DEF NoReservation, Reservation, ReservationStates
  <2> QED BY <1>1, <2>2 DEF TypeOK, Hold
<1> QED BY <1>2, <1>3, <1>4 DEF TypeOK, Reserve

LEMMA TypeSettle ==
  ASSUME TypeOK, NEW r \in Requests, NEW actual \in Units, Settle(r, actual)
  PROVE  TypeOK'
<1>1. PICK used \in [Grants -> Nat], due \in Nat, paid \in Nat :
        /\ paid <= due
        /\ Finalize(r, actual, used, due, paid)
  BY SettleParts
<1>2. HeldByOthers(r) \in Nat
  BY SettleParts
<1>3. due - paid \in Nat
  BY <1>1
<1>4. AccountOf[r] \in Accounts /\ wallet[AccountOf[r]] \in WalletRow
  BY BillingAssumption DEF TypeOK
<1>5. wallet' \in [Accounts -> WalletRow]
  <2>1. wallet[AccountOf[r]].balance - paid \in Int
    BY <1>4, WalletRowFields
  <2>2. [balance |-> wallet[AccountOf[r]].balance - paid, held |-> HeldByOthers(r)]
          \in WalletRow
    BY <2>1, <1>2, <1>4, WalletRowUpdate
  <2> QED BY <1>1, <1>4, <2>2 DEF TypeOK, Finalize
<1>6. grant' \in [Grants -> GrantRow]
  <2> SUFFICES ASSUME NEW g \in Grants
               PROVE  [grant[g] EXCEPT !.consumed = @ + used[g],
                                       !.reserved = NonNeg(@ - HeldUnits(r, g))]
                        \in GrantRow
    BY <1>1 DEF Finalize, TypeOK
  <2>1. grant[g] \in GrantRow /\ resv[r].alloc[g] \in Nat
    BY DEF TypeOK, Reservation
  <2>2. HeldUnits(r, g) \in Nat
    BY <2>1, GrantRowFields, LeastNat DEF HeldUnits
  <2>3. NonNeg(grant[g].reserved - HeldUnits(r, g)) \in Nat
    BY <2>1, <2>2, GrantRowFields, NonNegNat
  <2>4. grant[g].consumed + used[g] \in Nat
    BY <2>1, GrantRowFields
  <2> QED BY <2>1, <2>3, <2>4, GrantRowUpdate
<1>7. resv' \in [Requests -> Reservation]
  <2>1. /\ SettledState(actual, due - paid) \in ReservationStates
        /\ SettlementState(actual, due - paid) \in ReservationStates
    BY DEF SettledState, SettlementState, ReservationStates
  <2>2. [resv[r] EXCEPT !.state = SettledState(actual, due - paid),
                        !.settlement = SettlementState(actual, due - paid),
                        !.walletAmt = paid, !.shortfall = due - paid] \in Reservation
    BY <1>3, <2>1, ReservationUpdate DEF TypeOK
  <2> QED BY <1>1, <2>2 DEF TypeOK, Finalize
<1>8. recv' \in [Requests -> Receivable]
  BY <1>1, <1>3 DEF TypeOK, Finalize, Receivable
<1>9. payments' \in [Requests -> Seq(Nat)]
  <2>1. payments' = [payments EXCEPT ![r] = IF @ = <<>> THEN <<paid>> ELSE @]
    BY <1>1 DEF Finalize
  <2>2. <<paid>> \in Seq(Nat)
    OBVIOUS
  <2> QED BY <2>1, <2>2 DEF TypeOK
<1>10. bill' \in [Requests -> Bill]
  BY <1>1, <1>3 DEF TypeOK, Finalize, Bill
<1>11. charged' \in [Requests -> Nat]
  <2>1. charged' = [charged EXCEPT ![r] = @ + paid]
    BY <1>1 DEF Finalize
  <2> QED BY <2>1 DEF TypeOK
<1> QED BY <1>5, <1>6, <1>7, <1>8, <1>9, <1>10, <1>11 DEF TypeOK, Settle

LEMMA TypeReclaim ==
  ASSUME TypeOK, NEW w \in Gateways, NEW r \in Requests, ReclaimRelease(w, r)
  PROVE  TypeOK'
<1>1. /\ AccountOf[r] \in Accounts /\ wallet[AccountOf[r]] \in WalletRow
      /\ resv[r] \in Reservation /\ resv[r].hold \in Nat /\ resv[r].alloc \in [Grants -> Nat]
  BY BillingAssumption DEF TypeOK, Reservation
<1>2. candidates' \in [Gateways -> SUBSET Requests]
  BY DEF ReclaimRelease, TypeOK
<1>3. CASE IsReserved(r)
  <2>1. Released(r)
    BY <1>3 DEF ReclaimRelease
  <2>2. wallet' \in [Accounts -> WalletRow]
    <3>1. NonNeg(wallet[AccountOf[r]].held - resv[r].hold) \in Nat
      BY <1>1, WalletRowFields, NonNegNat
    <3>2. [wallet[AccountOf[r]] EXCEPT !.held = NonNeg(@ - resv[r].hold)] \in WalletRow
      BY <1>1, <3>1, 0 \in Int, WalletRowUpdate
    <3> QED BY <2>1, <3>2 DEF Released, TypeOK
  <2>3. grant' \in [Grants -> GrantRow]
    <3> SUFFICES ASSUME NEW g \in Grants
                 PROVE  [grant[g] EXCEPT !.reserved = NonNeg(@ - resv[r].alloc[g])]
                          \in GrantRow
      BY <2>1 DEF Released
    <3>1. grant[g] \in GrantRow
      BY DEF TypeOK
    <3>2. NonNeg(grant[g].reserved - resv[r].alloc[g]) \in Nat
      BY <1>1, <3>1, GrantRowFields, NonNegNat
    <3> QED BY <3>1, <3>2, 0 \in Nat, GrantRowUpdate
  <2>4. resv' \in [Requests -> Reservation]
    BY <1>1, <2>1 DEF Released, TypeOK, Reservation, ReservationStates
  <2> QED BY <1>2, <2>2, <2>3, <2>4 DEF ReclaimRelease, TypeOK
<1>4. CASE ~IsReserved(r)
  BY <1>2, <1>4 DEF ReclaimRelease, TypeOK
<1> QED BY <1>3, <1>4

LEMMA TypeRecoverPay ==
  ASSUME TypeOK, NEW r \in Requests, RecoverPay(r)
  PROVE  TypeOK'
<1> DEFINE a == AccountOf[r]
           payment == Least(recv[r].outstanding, Spendable(a))
           settled == recv[r].settled + payment
           left == recv[r].outstanding - payment
           state == IF left = 0 THEN "settled" ELSE "partially_settled"
<1>1. /\ a \in Accounts /\ wallet[a] \in WalletRow /\ Frozen[a] \in Nat
      /\ recv[r] \in Receivable /\ resv[r] \in Reservation /\ bill[r] \in Bill
  BY BillingAssumption DEF TypeOK
<1>2. Spendable(a) \in Nat
  BY <1>1, WalletRowFields DEF RecoverPay, Spendable
<1>3. recv[r].outstanding \in Nat /\ recv[r].settled \in Nat /\ recv[r].due \in Nat
  BY <1>1 DEF Receivable
<1>4. payment \in Nat /\ left \in Nat /\ settled \in Nat
  <2>1. payment \in Nat /\ payment <= recv[r].outstanding
    BY <1>2, <1>3, LeastNat
  <2> HIDE DEF payment
  <2> QED BY <1>3, <2>1
<1>5. /\ payments' = [payments EXCEPT ![r] = WithPayment(r, payment)]
      /\ wallet' = [wallet EXCEPT ![a].balance = @ - payment]
      /\ charged' = [charged EXCEPT ![r] = @ + payment]
      /\ recv' = [recv EXCEPT ![r] = [@ EXCEPT !.state = state, !.settled = settled,
                                               !.outstanding = left,
                                               !.waiting = left > 0]]
      /\ resv' = [resv EXCEPT ![r] = [@ EXCEPT !.state = state, !.settlement = state,
                                               !.walletAmt = settled,
                                               !.shortfall = left]]
      /\ bill' = IF bill[r].present
                   THEN [bill EXCEPT ![r] = [@ EXCEPT !.cost = settled,
                                                      !.outstanding = left]]
                   ELSE bill
  BY DEF RecoverPay
<1>6. state \in {"settled", "partially_settled"}
  OBVIOUS
<1> HIDE DEF payment, left, settled, state, a
<1>7. wallet' \in [Accounts -> WalletRow]
  <2>1. wallet[a].balance - payment \in Int
    BY <1>1, <1>4, WalletRowFields
  <2>2. [wallet[a] EXCEPT !.balance = @ - payment] \in WalletRow
    BY <1>1, <2>1, 0 \in Nat, WalletRowUpdate
  <2> QED BY <1>5, <2>2 DEF TypeOK
<1>8. recv' \in [Requests -> Receivable]
  <2>1. [recv[r] EXCEPT !.state = state, !.settled = settled, !.outstanding = left,
                        !.waiting = left > 0] \in Receivable
    BY <1>1, <1>4, <1>6, (left > 0) \in BOOLEAN, ReceivableUpdate
  <2> QED BY <1>5, <2>1 DEF TypeOK
<1>9. resv' \in [Requests -> Reservation]
  <2>1. [resv[r] EXCEPT !.state = state, !.settlement = state, !.walletAmt = settled,
                        !.shortfall = left] \in Reservation
    BY <1>1, <1>4, <1>6, ReservationUpdate DEF ReservationStates
  <2> QED BY <1>5, <2>1 DEF TypeOK
<1>10. bill' \in [Requests -> Bill]
  <2>1. [bill[r] EXCEPT !.cost = settled, !.outstanding = left] \in Bill
    BY <1>1, <1>4 DEF Bill
  <2> QED BY <1>5, <2>1 DEF TypeOK
<1>11. payments' \in [Requests -> Seq(Nat)]
  BY <1>4, <1>5 DEF TypeOK, WithPayment
<1>12. charged' \in [Requests -> Nat]
  BY <1>4, <1>5 DEF TypeOK
<1> QED BY <1>7, <1>8, <1>9, <1>10, <1>11, <1>12 DEF TypeOK, RecoverPay

LEMMA TypeUsage == ASSUME TypeOK, UsageStep PROVE TypeOK'
<1>1. ASSUME NEW r \in Requests, WriteReservedUsage(r) PROVE TypeOK'
  <2>1. resv[r].walletAmt \in Nat /\ bill[r] \in Bill
    BY DEF TypeOK, Reservation
  <2>2. [bill[r] EXCEPT !.present = TRUE, !.cost = resv[r].walletAmt] \in Bill
    BY <2>1 DEF Bill
  <2> QED BY <1>1, <2>2 DEF TypeOK, WriteReservedUsage
<1>2. ASSUME NEW r \in Requests, NEW cost \in UsageCosts, NEW enabled \in BOOLEAN,
             WriteDirectUsage(r, cost, enabled)
      PROVE  TypeOK'
  <2>1. cost \in Nat /\ AccountOf[r] \in Accounts /\ wallet[AccountOf[r]] \in WalletRow
    BY BillingAssumption DEF TypeOK
  <2>2. bill' \in [Requests -> Bill]
    <3>1. bill[r] \in Bill
      BY DEF TypeOK
    <3>2. [bill[r] EXCEPT !.present = TRUE, !.cost = cost] \in Bill
      BY <2>1, <3>1 DEF Bill
    <3> QED BY <1>2, <3>2 DEF TypeOK, WriteDirectUsage
  <2>3. CASE enabled /\ cost > 0
    <3>1. [wallet[AccountOf[r]] EXCEPT !.balance = @ - cost] \in WalletRow
      <4>1. wallet[AccountOf[r]].balance - cost \in Int
        BY <2>1, WalletRowFields
      <4> QED BY <2>1, <4>1, 0 \in Nat, WalletRowUpdate
    <3>2. wallet' \in [Accounts -> WalletRow] /\ charged' \in [Requests -> Nat]
      BY <1>2, <2>1, <2>3, <3>1 DEF TypeOK, WriteDirectUsage
    <3> QED BY <1>2, <2>2, <3>2 DEF TypeOK, WriteDirectUsage
  <2>4. CASE ~(enabled /\ cost > 0)
    BY <1>2, <2>2, <2>4 DEF TypeOK, WriteDirectUsage
  <2> QED BY <2>3, <2>4
<1> QED BY <1>1, <1>2 DEF UsageStep

LEMMA TypeRecharge == ASSUME TypeOK, RechargeStep PROVE TypeOK'
<1>1. ASSUME NEW k \in RechargeKeys, NEW a \in Accounts, RedeemRead(k, a) PROVE TypeOK'
  <2>1. wallet[a].balance \in Int
    BY WalletRowFields DEF TypeOK
  <2>2. [state |-> "redeeming", account |-> {a}, seen |-> wallet[a].balance] \in RechargeKey
    BY <2>1 DEF RechargeKey
  <2> QED BY <1>1, <2>2 DEF TypeOK, RedeemRead
<1>2. ASSUME NEW k \in RechargeKeys, NEW a \in Accounts, RedeemWrite(k, a) PROVE TypeOK'
  <2>1. recharge[k].seen + KeyAmount[k] \in Int
    BY BillingAssumption DEF TypeOK, RechargeKey
  <2>2. [wallet[a] EXCEPT !.balance = recharge[k].seen + KeyAmount[k]] \in WalletRow
    BY <2>1, 0 \in Nat, WalletRowUpdate DEF TypeOK
  <2>3. [recharge[k] EXCEPT !.state = "used"] \in RechargeKey
    BY DEF TypeOK, RechargeKey
  <2> QED BY <1>2, <2>2, <2>3 DEF TypeOK, RedeemWrite
<1>3. ASSUME NEW k \in RechargeKeys, RedeemRollback(k) \/ RevokeKey(k) PROVE TypeOK'
  <2>1. [state |-> "unused", account |-> {}, seen |-> 0] \in RechargeKey
    BY DEF RechargeKey
  <2>2. [recharge[k] EXCEPT !.state = "revoked"] \in RechargeKey
    BY DEF TypeOK, RechargeKey
  <2>3. recharge' \in [RechargeKeys -> RechargeKey]
    BY <1>3, <2>1, <2>2 DEF TypeOK, RedeemRollback, RevokeKey
  <2> QED BY <1>3, <2>3 DEF TypeOK, RedeemRollback, RevokeKey
<1>4. ASSUME NEW a \in Accounts, CreditTeam(a) PROVE TypeOK'
  <2>1. wallet[a] \in WalletRow
    BY DEF TypeOK
  <2>2. wallet[a].balance + CreditAmount \in Int
    BY <2>1, BillingAssumption, WalletRowFields
  <2>3. [wallet[a] EXCEPT !.balance = @ + CreditAmount] \in WalletRow
    BY <2>1, <2>2, 0 \in Nat, WalletRowUpdate
  <2> QED BY <1>4, <2>3, BillingAssumption DEF TypeOK, CreditTeam
<1> QED BY <1>1, <1>2, <1>3, <1>4 DEF RechargeStep

LEMMA TypeGrantStatus ==
  ASSUME TypeOK, NEW g \in Grants, NEW from, NEW to \in {"active", "revoked", "lapsed"},
         SetGrantStatus(g, from, to)
  PROVE  TypeOK'
<1>1. grant[g] \in GrantRow
  BY DEF TypeOK
<1>2. [grant[g] EXCEPT !.status = to] \in GrantRow
  BY <1>1 DEF GrantRow
<1>3. grant' \in [Grants -> GrantRow]
  BY <1>2 DEF SetGrantStatus, TypeOK
<1> QED BY <1>3 DEF SetGrantStatus, TypeOK

LEMMA TypeNext == TypeOK /\ [Next]_vars => TypeOK'
<1> SUFFICES ASSUME TypeOK, [Next]_vars PROVE TypeOK'
  OBVIOUS
<1>1. CASE GrantStep
  <2>1. PICK g \in Grants : CreateGrant(g) \/ RevokeGrant(g) \/ LapseGrant(g)
    BY <1>1 DEF GrantStep
  <2>2. CASE CreateGrant(g)
    BY <2>2, TypeGrantStatus DEF CreateGrant
  <2>3. CASE RevokeGrant(g)
    BY <2>3, TypeGrantStatus DEF RevokeGrant
  <2>4. CASE LapseGrant(g)
    BY <2>4, TypeGrantStatus DEF LapseGrant
  <2> QED BY <2>1, <2>2, <2>3, <2>4
<1>2. CASE RequestStep
  BY <1>2, TypeReserve, TypeSettle DEF RequestStep, Expire, TypeOK
<1>3. CASE ReclaimStep
  <2>1. ASSUME NEW w \in Gateways, ReclaimScan(w) \/ ReclaimAbort(w) PROVE TypeOK'
    <3>1. {r \in overdue : IsReserved(r)} \in SUBSET Requests
      BY DEF TypeOK
    <3>2. candidates' \in [Gateways -> SUBSET Requests]
      BY <2>1, <3>1 DEF ReclaimScan, ReclaimAbort, TypeOK
    <3> QED BY <2>1, <3>2 DEF ReclaimScan, ReclaimAbort, TypeOK
  <2> QED BY <1>3, <2>1, TypeReclaim DEF ReclaimStep
<1>4. CASE RecoveryStep
  <2>1. ASSUME NEW r \in Requests, RecoverDefer(r) \/ RetryDue(r) PROVE TypeOK'
    <3>1. recv[r] \in Receivable
      BY DEF TypeOK
    <3>2. \A b \in BOOLEAN : [recv[r] EXCEPT !.waiting = b] \in Receivable
      BY <3>1 DEF Receivable
    <3>3. recv' \in [Requests -> Receivable]
      BY <2>1, <3>2 DEF RecoverDefer, RetryDue, TypeOK
    <3> QED BY <2>1, <3>3 DEF RecoverDefer, RetryDue, TypeOK
  <2> QED BY <1>4, <2>1, TypeRecoverPay DEF RecoveryStep
<1>5. CASE UNCHANGED vars
  BY <1>5 DEF vars, TypeOK
<1> QED BY <1>1, <1>2, <1>3, <1>4, <1>5, TypeUsage, TypeRecharge DEF Next

\* The billing tables stay well-typed: no interleaving of settlement, recovery,
\* release and usage writes drives a unit count or an amount on hold, due, settled
\* or outstanding below zero.
THEOREM TypeCorrect == Spec => []TypeOK
BY TypeInit, TypeNext, PTL DEF Spec

-----------------------------------------------------------------------------
(* Package capacity *)

\* What one settlement takes from a grant fits beside what the others hold on it.
LEMMA SettledUnitsFit ==
  ASSUME TypeOK, GrantCapacity, NEW r \in Requests, NEW g \in Grants, NEW u \in Nat,
         u <= AvailableAfterHold(r, g)
  PROVE  grant[g].consumed + u + NonNeg(grant[g].reserved - HeldUnits(r, g))
           <= TotalUnits[g]
<1> DEFINE c == grant[g].consumed
           v == grant[g].reserved
           h == HeldUnits(r, g)
           t == TotalUnits[g]
<1>1. c \in Nat /\ v \in Nat /\ t \in Nat /\ resv[r].alloc[g] \in Nat
  <2>1. grant[g] \in GrantRow /\ resv[r] \in Reservation /\ t \in Nat
    BY BillingAssumption DEF TypeOK
  <2> QED BY <2>1 DEF GrantRow, Reservation
<1>2. h \in Nat /\ h <= v
  BY <1>1, LeastNat DEF HeldUnits
<1>3. c + v <= t
  BY DEF GrantCapacity
<1>4. u <= NonNeg(NonNeg(t - c) - NonNeg(v - h))
  BY DEF AvailableAfterHold
<1> HIDE DEF c, v, h, t
<1>5. c + u + NonNeg(v - h) <= t
  BY <1>1, <1>2, <1>3, <1>4 DEF NonNeg
<1> QED BY <1>5 DEF c, v, h, t

LEMMA CapacityNext == TypeOK /\ GrantCapacity /\ [Next]_vars => GrantCapacity'
<1> SUFFICES ASSUME TypeOK, GrantCapacity, [Next]_vars, NEW g \in Grants
             PROVE  grant'[g].consumed + grant'[g].reserved <= TotalUnits[g]
  BY DEF GrantCapacity
<1>1. /\ grant[g] \in GrantRow /\ grant[g].consumed \in Nat /\ grant[g].reserved \in Nat
      /\ TotalUnits[g] \in Nat /\ grant[g].consumed + grant[g].reserved <= TotalUnits[g]
  BY BillingAssumption, GrantRowFields DEF TypeOK, GrantCapacity
<1>2. CASE UNCHANGED grant
  BY <1>1, <1>2
<1>3. CASE GrantStep
  <2>1. PICK h \in Grants, s \in {"active", "revoked", "lapsed"} :
          grant' = [grant EXCEPT ![h].status = s]
    BY <1>3 DEF GrantStep, CreateGrant, RevokeGrant, LapseGrant, SetGrantStatus
  <2>2. grant'[g].consumed = grant[g].consumed /\ grant'[g].reserved = grant[g].reserved
    BY <2>1 DEF TypeOK, GrantRow
  <2> QED BY <1>1, <2>2
<1>4. ASSUME NEW r \in Requests, NEW mode \in PaymentModes, NEW wanted \in Units,
             Reserve(r, mode, wanted)
      PROVE  grant'[g].consumed + grant'[g].reserved <= TotalUnits[g]
  <2>1. PICK part \in [Grants -> Nat], hold \in Nat :
          /\ part[g] > 0 => part[g] <= FreeUnits(g)
          /\ Hold(r, mode, part, hold)
    BY <1>4, ReserveParts
  <2>2. /\ grant'[g].consumed = grant[g].consumed
        /\ grant'[g].reserved = grant[g].reserved + part[g]
    BY <1>1, <2>1 DEF Hold, GrantRow
  <2>3. part[g] \in Nat
    OBVIOUS
  <2> QED BY <1>1, <2>1, <2>2, <2>3 DEF FreeUnits
<1>5. ASSUME NEW r \in Requests, NEW actual \in Units, Settle(r, actual)
      PROVE  grant'[g].consumed + grant'[g].reserved <= TotalUnits[g]
  <2>1. PICK used \in [Grants -> Nat], due \in Nat, paid \in Nat :
          /\ \A h \in SettleGrants(r) : used[h] <= AvailableAfterHold(r, h)
          /\ Finalize(r, actual, used, due, paid)
    BY <1>5, SettleParts
  <2>2. CASE g \in SettleGrants(r)
    <3>1. /\ grant'[g].consumed = grant[g].consumed + used[g]
          /\ grant'[g].reserved = NonNeg(grant[g].reserved - HeldUnits(r, g))
      BY <1>1, <2>1, <2>2 DEF Finalize, GrantRow
    <3> QED BY <2>1, <2>2, <3>1, SettledUnitsFit
  <2>3. CASE g \notin SettleGrants(r)
    BY <1>1, <2>1, <2>3 DEF Finalize
  <2> QED BY <2>2, <2>3
<1>6. ASSUME NEW r \in Requests, Released(r)
      PROVE  grant'[g].consumed + grant'[g].reserved <= TotalUnits[g]
  <2>1. resv[r].alloc[g] \in Nat
    BY DEF TypeOK, Reservation
  <2>2. /\ grant'[g].consumed = grant[g].consumed
        /\ grant'[g].reserved = NonNeg(grant[g].reserved - resv[r].alloc[g])
    BY <1>1, <1>6 DEF Released, GrantRow
  <2> QED BY <1>1, <2>1, <2>2 DEF NonNeg
<1>7. CASE RequestStep
  BY <1>2, <1>4, <1>5, <1>7 DEF RequestStep, Expire
<1>8. CASE ReclaimStep
  BY <1>2, <1>6, <1>8 DEF ReclaimStep, ReclaimScan, ReclaimAbort, ReclaimRelease
<1>9. CASE RecoveryStep \/ UsageStep \/ RechargeStep \/ UNCHANGED vars
  BY <1>2, <1>9 DEF RecoveryStep, RecoverDefer, RecoverPay, RetryDue, UsageStep,
     WriteReservedUsage, WriteDirectUsage, RechargeStep, RedeemRead, RedeemWrite,
     RedeemRollback, RevokeKey, CreditTeam, vars
<1> QED BY <1>3, <1>7, <1>8, <1>9 DEF Next

\* No package hands out more than its total_units, whatever the reservations,
\* overruns, releases and reclaims that compete for it do.
THEOREM CapacityHolds == Spec => []GrantCapacity
<1>1. Init => GrantCapacity
  BY BillingAssumption DEF Init, GrantCapacity
<1> QED BY <1>1, CapacityNext, TypeCorrect, PTL DEF Spec

-----------------------------------------------------------------------------
(* The life of a request, and the money that moves in it *)

\* What holds of the rows of one request.  A request that has not been settled
\* has no receivable and has cost nothing; one that has is billed; and the three
\* tables and the wallet tell the same amounts.
RequestInv(r) ==
  /\ recv[r].due = recv[r].settled + recv[r].outstanding
  /\ recv[r].state = "partially_settled" <=> recv[r].outstanding > 0
  /\ ~bill[r].present =>
       recv[r].state = "none" /\ bill[r].outstanding = 0 /\ charged[r] = 0
  /\ recv[r].state = "none" => recv[r].due = 0
  /\ resv[r].state = "none" => recv[r].state = "none" /\ bill[r].outstanding = 0
  /\ resv[r].state = "reserved" =>
       recv[r].state = "none" /\ ~bill[r].present /\ resv[r].settlement = "reserved"
  /\ resv[r].state # "none" =>
       /\ charged[r] = recv[r].settled
       /\ resv[r].walletAmt = recv[r].settled
       /\ resv[r].shortfall = recv[r].outstanding
       /\ bill[r].present =>
            bill[r].cost = charged[r] /\ bill[r].outstanding = recv[r].outstanding
       /\ resv[r].mode = "prepaid" => recv[r].due = 0

RequestsInv == \A r \in Requests : RequestInv(r)

LEMMA RequestsInit == Init => RequestsInv
BY DEF Init, RequestsInv, RequestInv, NoReservation, NoReceivable, NoBill

\* A step that leaves the rows of a request alone.
SameRows(r) ==
  /\ resv'[r] = resv[r] /\ recv'[r] = recv[r]
  /\ bill'[r] = bill[r] /\ charged'[r] = charged[r]

\* What every step has to keep: the invariant, and a finalized request final.
Kept(r) == RequestInv(r)' /\ FinalStep(r)

LEMMA RequestFrame ==
  ASSUME TypeOK, NEW r \in Requests, RequestInv(r), SameRows(r)
  PROVE  Kept(r)
<1>1. recv[r].outstanding \in Nat /\ charged[r] \in Nat
  BY DEF TypeOK, Receivable
<1>2. RequestInv(r)'
  BY DEF RequestInv, SameRows
<1>3. FinalStep(r)
  BY <1>1 DEF SameRows, FinalStep
<1> QED BY <1>2, <1>3 DEF Kept

\* The columns of r's rows, for the arithmetic.
LEMMA RequestColumns ==
  ASSUME TypeOK, NEW r \in Requests
  PROVE  /\ recv[r].due \in Nat /\ recv[r].settled \in Nat /\ recv[r].outstanding \in Nat
         /\ recv[r].waiting \in BOOLEAN
         /\ bill[r].present \in BOOLEAN /\ bill[r].cost \in Nat /\ bill[r].outstanding \in Nat
         /\ resv[r].walletAmt \in Nat /\ resv[r].shortfall \in Nat /\ charged[r] \in Nat
BY DEF TypeOK, Receivable, Bill, Reservation

LEMMA ReserveKeeps ==
  ASSUME TypeOK, RequestsInv, NEW r \in Requests, NEW mode \in PaymentModes,
         NEW wanted \in Units, Reserve(r, mode, wanted)
  PROVE  \A q \in Requests : Kept(q)
<1>1. PICK part \in [Grants -> Nat], hold \in Nat : Hold(r, mode, part, hold)
  BY ReserveParts
<1>2. ASSUME NEW q \in Requests, q # r PROVE SameRows(q)
  BY <1>1, <1>2 DEF Hold, Reserve, SameRows, TypeOK
<1>3. /\ resv'[r].state = "reserved" /\ resv'[r].settlement = "reserved"
      /\ resv'[r].walletAmt = 0 /\ resv'[r].shortfall = 0
      /\ recv'[r] = recv[r] /\ bill'[r] = bill[r] /\ charged'[r] = charged[r]
  BY <1>1 DEF Hold, Reserve, TypeOK, NoReservation
<1>4. resv[r].state = "none" /\ ~bill[r].present
  BY DEF Reserve
<1>5. Kept(r)
  <2>1. RequestInv(r)
    BY DEF RequestsInv
  <2>2. RequestInv(r)'
    BY <1>3, <1>4, <2>1, RequestColumns DEF RequestInv
  <2> QED BY <1>4, <2>2 DEF Kept, FinalStep
<1> QED BY <1>2, <1>5, RequestFrame DEF RequestsInv

LEMMA SettleKeeps ==
  ASSUME TypeOK, RequestsInv, NEW r \in Requests, NEW actual \in Units, Settle(r, actual)
  PROVE  \A q \in Requests : Kept(q)
<1>1. PICK used \in [Grants -> Nat], due \in Nat, paid \in Nat :
        /\ paid <= due
        /\ resv[r].mode = "prepaid" => due = 0
        /\ Finalize(r, actual, used, due, paid)
  BY SettleParts
<1>2. ASSUME NEW q \in Requests, q # r PROVE SameRows(q)
  BY <1>1, <1>2 DEF Finalize, SameRows, TypeOK
<1> DEFINE short == due - paid
<1>3. /\ resv'[r].state = SettledState(actual, short)
      /\ resv'[r].walletAmt = paid /\ resv'[r].shortfall = short
      /\ resv'[r].mode = resv[r].mode
  <2>1. resv \in [Requests -> Reservation] /\ resv[r] \in Reservation
    BY DEF TypeOK
  <2>2. resv' = [resv EXCEPT ![r] = [@ EXCEPT !.state = SettledState(actual, short),
                                              !.settlement = SettlementState(actual, short),
                                              !.walletAmt = paid, !.shortfall = short]]
    BY <1>1 DEF Finalize
  <2> QED BY <2>1, <2>2 DEF Reservation
<1>4. /\ recv'[r] = [state |-> IF short > 0 THEN "partially_settled" ELSE "settled",
                     due |-> due, settled |-> paid, outstanding |-> short,
                     waiting |-> FALSE]
      /\ bill'[r] = [present |-> TRUE, cost |-> paid, outstanding |-> short]
      /\ charged'[r] = charged[r] + paid
  BY <1>1 DEF Finalize, TypeOK
<1>5. short \in Nat /\ due = paid + short
  BY <1>1
<1>6. resv'[r].state \notin {"none", "reserved"}
  BY <1>3 DEF SettledState
<1>7. resv[r].state = "reserved"
  BY DEF Settle, IsReserved
<1> HIDE DEF short
<1>8. charged[r] = 0
  BY <1>7, RequestColumns DEF RequestsInv, RequestInv
<1>9. RequestInv(r)'
  BY <1>1, <1>3, <1>4, <1>5, <1>6, <1>8 DEF RequestInv
<1>10. Kept(r)
  BY <1>7, <1>9 DEF Kept, FinalStep
<1> QED BY <1>2, <1>10, RequestFrame DEF RequestsInv

LEMMA ReclaimKeeps ==
  ASSUME TypeOK, RequestsInv, NEW w \in Gateways, NEW r \in Requests, ReclaimRelease(w, r)
  PROVE  \A q \in Requests : Kept(q)
<1>1. ASSUME NEW q \in Requests, q # r \/ ~IsReserved(r) PROVE SameRows(q)
  BY <1>1 DEF ReclaimRelease, Released, SameRows, TypeOK
<1>2. CASE IsReserved(r)
  <2>1. /\ resv'[r] = [resv[r] EXCEPT !.state = "released"]
        /\ recv'[r] = recv[r] /\ bill'[r] = bill[r] /\ charged'[r] = charged[r]
    BY <1>2 DEF ReclaimRelease, Released, TypeOK
  <2>2. /\ resv'[r].state = "released" /\ resv'[r].walletAmt = resv[r].walletAmt
        /\ resv'[r].shortfall = resv[r].shortfall /\ resv'[r].mode = resv[r].mode
    BY <2>1 DEF TypeOK, Reservation
  <2>3. RequestInv(r) /\ resv[r].state = "reserved"
    BY <1>2 DEF RequestsInv, IsReserved
  <2>4. RequestInv(r)'
    BY <2>1, <2>2, <2>3 DEF RequestInv
  <2>5. Kept(r)
    BY <2>3, <2>4 DEF Kept, FinalStep
  <2> QED BY <1>1, <2>5, RequestFrame DEF RequestsInv
<1> QED BY <1>1, <1>2, RequestFrame DEF RequestsInv

LEMMA RecoverPayKeeps ==
  ASSUME TypeOK, RequestsInv, NEW r \in Requests, RecoverPay(r)
  PROVE  \A q \in Requests : Kept(q)
<1> DEFINE a == AccountOf[r]
           payment == Least(recv[r].outstanding, Spendable(a))
           settled == recv[r].settled + payment
           left == recv[r].outstanding - payment
           state == IF left = 0 THEN "settled" ELSE "partially_settled"
<1>1. ASSUME NEW q \in Requests, q # r PROVE SameRows(q)
  BY <1>1 DEF RecoverPay, SameRows, TypeOK
<1>2. /\ recv'[r].state = state /\ recv'[r].settled = settled
      /\ recv'[r].outstanding = left /\ recv'[r].due = recv[r].due
  BY DEF RecoverPay, TypeOK, Receivable
<1>3. /\ resv'[r].state = state /\ resv'[r].walletAmt = settled
      /\ resv'[r].shortfall = left /\ resv'[r].mode = resv[r].mode
  BY DEF RecoverPay, TypeOK, Reservation
<1>4. /\ charged'[r] = charged[r] + payment
      /\ bill'[r].present = bill[r].present
      /\ bill[r].present => bill'[r].cost = settled /\ bill'[r].outstanding = left
  BY DEF RecoverPay, TypeOK, Bill
<1>5. /\ recv[r].state = "partially_settled" /\ recv[r].outstanding > 0
      /\ RequestInv(r)
  BY DEF RecoverPay, RecoveryDue, RequestsInv
<1>6. payment \in Nat /\ payment <= recv[r].outstanding
  <2>1. AccountOf[r] \in Accounts /\ wallet[a] \in WalletRow /\ Frozen[a] \in Nat
    BY BillingAssumption DEF TypeOK
  <2>2. Spendable(a) \in Nat
    BY <2>1, WalletRowFields DEF RecoverPay, Spendable
  <2> QED BY <2>2, RequestColumns, LeastNat
<1>7. /\ left \in Nat /\ settled \in Nat /\ settled + left = recv[r].settled + recv[r].outstanding
      /\ state = "partially_settled" <=> left > 0
      /\ state \in {"settled", "partially_settled"}
  <2> HIDE DEF payment
  <2> QED BY <1>6, RequestColumns
<1>8. /\ bill[r].present /\ resv[r].state \notin {"none", "reserved"}
      /\ resv[r].mode # "prepaid" /\ charged[r] = recv[r].settled
  BY <1>5, RequestColumns DEF RequestInv
<1>9. charged'[r] = settled /\ left + payment = recv[r].outstanding
  <2> HIDE DEF payment
  <2> QED BY <1>4, <1>6, <1>8, RequestColumns
<1> HIDE DEF payment, settled, left, state
<1>10. RequestInv(r)'
  BY <1>2, <1>3, <1>4, <1>5, <1>7, <1>8, <1>9 DEF RequestInv
<1>11. FinalStep(r)
  BY <1>2, <1>3, <1>4, <1>6, <1>7, <1>9, RequestColumns DEF FinalStep
<1> QED BY <1>1, <1>10, <1>11, RequestFrame DEF RequestsInv, Kept

LEMMA UsageKeeps ==
  ASSUME TypeOK, RequestsInv, UsageStep
  PROVE  \A q \in Requests : Kept(q)
<1>1. ASSUME NEW r \in Requests, WriteReservedUsage(r)
      PROVE  \A q \in Requests : Kept(q)
  <2>1. ASSUME NEW q \in Requests, q # r PROVE SameRows(q)
    BY <1>1, <2>1 DEF WriteReservedUsage, SameRows, TypeOK
  <2>2. /\ bill'[r].present /\ bill'[r].cost = resv[r].walletAmt
        /\ bill'[r].outstanding = bill[r].outstanding
        /\ resv'[r] = resv[r] /\ recv'[r] = recv[r] /\ charged'[r] = charged[r]
    BY <1>1 DEF WriteReservedUsage, TypeOK, Bill
  <2>3. RequestInv(r) /\ resv[r].state \notin {"none", "reserved"}
    BY <1>1 DEF WriteReservedUsage, SettlementPending, RequestsInv, RequestInv
  <2>4. bill[r].outstanding = recv[r].outstanding
    <3>1. CASE bill[r].present
      BY <2>3, <3>1 DEF RequestInv
    <3>2. CASE ~bill[r].present
      <4>1. bill[r].outstanding = 0 /\ recv[r].due = 0
        BY <2>3, <3>2 DEF RequestInv
      <4>2. recv[r].due = recv[r].settled + recv[r].outstanding
        BY <2>3 DEF RequestInv
      <4> QED BY <4>1, <4>2, RequestColumns
    <3> QED BY <3>1, <3>2
  <2>5. RequestInv(r)'
    BY <2>2, <2>3, <2>4, RequestColumns DEF RequestInv
  <2>6. FinalStep(r)
    BY <2>2, <2>3, RequestColumns DEF FinalStep
  <2> QED BY <2>1, <2>5, <2>6, RequestFrame DEF RequestsInv, Kept
<1>2. ASSUME NEW r \in Requests, NEW cost \in UsageCosts, NEW enabled \in BOOLEAN,
             WriteDirectUsage(r, cost, enabled)
      PROVE  \A q \in Requests : Kept(q)
  <2>1. ASSUME NEW q \in Requests, q # r PROVE SameRows(q)
    BY <1>2, <2>1 DEF WriteDirectUsage, SameRows, TypeOK
  <2>2. /\ bill'[r].present /\ bill'[r].outstanding = bill[r].outstanding
        /\ resv'[r] = resv[r] /\ recv'[r] = recv[r] /\ resv[r].state = "none"
    BY <1>2 DEF WriteDirectUsage, TypeOK, Bill
  <2>3. RequestInv(r)'
    <3>1. RequestInv(r)
      BY DEF RequestsInv
    <3> QED BY <2>2, <3>1 DEF RequestInv
  <2>4. Kept(r)
    BY <2>2, <2>3 DEF Kept, FinalStep
  <2> QED BY <2>1, <2>4, RequestFrame DEF RequestsInv
<1> QED BY <1>1, <1>2 DEF UsageStep

LEMMA RequestsNext ==
  ASSUME TypeOK, RequestsInv, [Next]_vars
  PROVE  \A q \in Requests : Kept(q)
<1>1. ASSUME UNCHANGED <<resv, recv, bill, charged>> PROVE \A q \in Requests : Kept(q)
  <2>1. \A q \in Requests : SameRows(q)
    BY <1>1 DEF SameRows
  <2> QED BY <2>1, RequestFrame DEF RequestsInv
<1>2. ASSUME NEW r \in Requests, RecoverDefer(r) \/ RetryDue(r)
      PROVE  \A q \in Requests : Kept(q)
  <2>1. \A q \in Requests :
          /\ recv'[q].state = recv[q].state /\ recv'[q].due = recv[q].due
          /\ recv'[q].settled = recv[q].settled
          /\ recv'[q].outstanding = recv[q].outstanding
    <3>1. PICK b \in BOOLEAN : recv' = [recv EXCEPT ![r].waiting = b]
      BY <1>2 DEF RecoverDefer, RetryDue
    <3> QED BY <3>1 DEF TypeOK, Receivable
  <2>2. UNCHANGED <<resv, bill, charged>>
    BY <1>2 DEF RecoverDefer, RetryDue
  <2>3. \A q \in Requests : RequestInv(q)'
    BY <2>1, <2>2 DEF RequestsInv, RequestInv
  <2>4. \A q \in Requests : FinalStep(q)
    BY <2>1, <2>2, RequestColumns DEF FinalStep
  <2> QED BY <2>3, <2>4 DEF Kept
<1>3. CASE GrantStep
  BY <1>1, <1>3 DEF GrantStep, CreateGrant, RevokeGrant, LapseGrant, SetGrantStatus
<1>4. CASE RequestStep
  BY <1>1, <1>4, ReserveKeeps, SettleKeeps DEF RequestStep, Expire
<1>5. CASE ReclaimStep
  BY <1>1, <1>5, ReclaimKeeps DEF ReclaimStep, ReclaimScan, ReclaimAbort
<1>6. CASE RecoveryStep
  BY <1>2, <1>6, RecoverPayKeeps DEF RecoveryStep
<1>7. CASE RechargeStep \/ UNCHANGED vars
  BY <1>1, <1>7 DEF RechargeStep, RedeemRead, RedeemWrite, RedeemRollback, RevokeKey,
                    CreditTeam, vars
<1> QED BY <1>3, <1>4, <1>5, <1>6, <1>7, UsageKeeps DEF Next

\* The inductive invariant of the request tables.
THEOREM RequestsHold == Spec => []RequestsInv
<1>1. TypeOK /\ RequestsInv /\ [Next]_vars => RequestsInv'
  BY RequestsNext DEF Kept, RequestsInv
<1> QED BY <1>1, RequestsInit, TypeCorrect, PTL DEF Spec

\* Every receivable splits into what is settled and what is outstanding, and the
\* recovery worker can see it exactly as long as something is outstanding.
THEOREM DebtSplitHolds == Spec => []DebtSplit
<1>1. RequestsInv => DebtSplit
  BY DEF RequestsInv, RequestInv, DebtSplit
<1> QED BY <1>1, RequestsHold, PTL

\* What the wallet lost for a reserved request is what its reservation, its
\* receivable and its billing event say, however often its usage is recorded.
THEOREM TablesAgreeHolds == Spec => []TablesAgree
<1>1. RequestsInv => TablesAgree
  BY DEF RequestsInv, RequestInv, TablesAgree
<1> QED BY <1>1, RequestsHold, PTL

\* Prepaid, released and reclaimed requests never cost the wallet anything.
THEOREM NothingOwedHolds == Spec => []NothingOwed
<1>1. TypeOK /\ RequestsInv => NothingOwed
  BY RequestColumns DEF RequestsInv, RequestInv, NothingOwed
<1> QED BY <1>1, RequestsHold, TypeCorrect, PTL

\* A finalized request stays finalized, owes what it owed, and is charged only
\* what is outstanding.
THEOREM FinalOnceHolds == Spec => FinalOnce
<1>1. TypeOK /\ RequestsInv /\ [Next]_vars => [\A r \in Requests : FinalStep(r)]_vars
  BY RequestsNext DEF Kept
<1> QED BY <1>1, RequestsHold, TypeCorrect, PTL DEF Spec, FinalOnce

-----------------------------------------------------------------------------
(* Holds *)

\* What request r holds of grant g, and of account a.
UnitsHeldBy(r, g) == IF IsReserved(r) THEN resv[r].alloc[g] ELSE 0
MoneyHeldBy(r, a) == IF IsReserved(r) /\ AccountOf[r] = a THEN resv[r].hold ELSE 0

UnitsHeldOn(g) == [r \in Requests |-> UnitsHeldBy(r, g)]
MoneyHeldOn(a) == [r \in Requests |-> MoneyHeldBy(r, a)]

LEMMA HoldsBackedSums ==
  HoldsBacked <=> /\ \A g \in Grants : grant[g].reserved = SumFunction(UnitsHeldOn(g))
                  /\ \A a \in Accounts : wallet[a].held = SumFunction(MoneyHeldOn(a))
BY DEF HoldsBacked, UnitsHeldOn, MoneyHeldOn, UnitsHeldBy, MoneyHeldBy

LEMMA HoldTypes ==
  ASSUME TypeOK
  PROVE  /\ \A g \in Grants : UnitsHeldOn(g) \in [Requests -> Nat]
         /\ \A a \in Accounts : MoneyHeldOn(a) \in [Requests -> Nat]
<1>1. \A r \in Requests : resv[r].alloc \in [Grants -> Nat] /\ resv[r].hold \in Nat
  BY DEF TypeOK, Reservation
<1> QED BY <1>1 DEF UnitsHeldOn, MoneyHeldOn, UnitsHeldBy, MoneyHeldBy

\* A grant and a wallet hold at least what any one request holds of them.
LEMMA HoldsDominate ==
  ASSUME TypeOK, HoldsBacked, NEW r \in Requests
  PROVE  /\ \A g \in Grants : UnitsHeldBy(r, g) <= grant[g].reserved
         /\ \A a \in Accounts : MoneyHeldBy(r, a) <= wallet[a].held
<1>1. IsFiniteSet(Requests)
  BY BillingAssumption
<1>2. ASSUME NEW g \in Grants PROVE UnitsHeldBy(r, g) <= grant[g].reserved
  <2>1. UnitsHeldOn(g) \in [Requests -> Nat] /\ grant[g].reserved = SumFunction(UnitsHeldOn(g))
    BY HoldTypes, HoldsBackedSums
  <2>2. UnitsHeldOn(g)[r] <= SumFunction(UnitsHeldOn(g))
    BY <1>1, <2>1, SumNat
  <2> QED BY <2>1, <2>2 DEF UnitsHeldOn
<1>3. ASSUME NEW a \in Accounts PROVE MoneyHeldBy(r, a) <= wallet[a].held
  <2>1. MoneyHeldOn(a) \in [Requests -> Nat] /\ wallet[a].held = SumFunction(MoneyHeldOn(a))
    BY HoldTypes, HoldsBackedSums
  <2>2. MoneyHeldOn(a)[r] <= SumFunction(MoneyHeldOn(a))
    BY <1>1, <2>1, SumNat
  <2> QED BY <2>1, <2>2 DEF MoneyHeldOn
<1> QED BY <1>2, <1>3

\* A step that changes the holds of one request keeps them backed if it changes the
\* columns of the grants and of the wallets by the same amounts.
LEMMA HoldsStep ==
  ASSUME TypeOK, TypeOK', HoldsBacked, NEW r \in Requests,
         \A q \in Requests : q # r => resv'[q] = resv[q],
         \A g \in Grants :
           grant'[g].reserved = grant[g].reserved + UnitsHeldBy(r, g)' - UnitsHeldBy(r, g),
         \A a \in Accounts :
           wallet'[a].held = wallet[a].held + MoneyHeldBy(r, a)' - MoneyHeldBy(r, a)
  PROVE  HoldsBacked'
<1>1. IsFiniteSet(Requests)
  BY BillingAssumption
<1>2. \A q \in Requests : resv'[q].alloc \in [Grants -> Nat] /\ resv'[q].hold \in Nat
  BY DEF TypeOK, Reservation
<1>3. ASSUME NEW g \in Grants
      PROVE  grant'[g].reserved = SumFunction(UnitsHeldOn(g)')
  <2> DEFINE before == UnitsHeldOn(g)
             after == UnitsHeldOn(g)'
  <2>1. before \in [Requests -> Nat] /\ after \in [Requests -> Nat]
    BY <1>2, HoldTypes DEF UnitsHeldOn, UnitsHeldBy
  <2>2. \A q \in Requests : q # r => before[q] = after[q]
    BY DEF UnitsHeldOn, UnitsHeldBy, IsReserved
  <2>3. before[r] = UnitsHeldBy(r, g) /\ after[r] = UnitsHeldBy(r, g)'
    BY DEF UnitsHeldOn
  <2>4. grant[g].reserved = SumFunction(before)
    BY HoldsBackedSums
  <2> HIDE DEF before, after
  <2>5. before \in [Requests -> Int] /\ after \in [Requests -> Int]
    BY <2>1
  <2>6. SumFunction(after) = SumFunction(before) + after[r] - before[r]
    BY <1>1, <2>2, <2>5, SumChanged
  <2> QED BY <2>3, <2>4, <2>6 DEF after
<1>4. ASSUME NEW a \in Accounts
      PROVE  wallet'[a].held = SumFunction(MoneyHeldOn(a)')
  <2> DEFINE before == MoneyHeldOn(a)
             after == MoneyHeldOn(a)'
  <2>1. before \in [Requests -> Nat] /\ after \in [Requests -> Nat]
    BY <1>2, HoldTypes DEF MoneyHeldOn, MoneyHeldBy
  <2>2. \A q \in Requests : q # r => before[q] = after[q]
    BY DEF MoneyHeldOn, MoneyHeldBy, IsReserved
  <2>3. before[r] = MoneyHeldBy(r, a) /\ after[r] = MoneyHeldBy(r, a)'
    BY DEF MoneyHeldOn
  <2>4. wallet[a].held = SumFunction(before)
    BY HoldsBackedSums
  <2> HIDE DEF before, after
  <2>5. before \in [Requests -> Int] /\ after \in [Requests -> Int]
    BY <2>1
  <2>6. SumFunction(after) = SumFunction(before) + after[r] - before[r]
    BY <1>1, <2>2, <2>5, SumChanged
  <2> QED BY <2>3, <2>4, <2>6 DEF after
<1> QED BY <1>3, <1>4
        DEF HoldsBacked, UnitsHeldOn, MoneyHeldOn, UnitsHeldBy, MoneyHeldBy

\* A step that leaves the holds and both columns alone.
LEMMA HoldsFrame ==
  ASSUME HoldsBacked, UNCHANGED resv,
         \A g \in Grants : grant'[g].reserved = grant[g].reserved,
         \A a \in Accounts : wallet'[a].held = wallet[a].held
  PROVE  HoldsBacked'
BY DEF HoldsBacked, IsReserved

LEMMA HoldsReserve ==
  ASSUME TypeOK, TypeOK', HoldsBacked, NEW r \in Requests, NEW mode \in PaymentModes,
         NEW wanted \in Units, Reserve(r, mode, wanted)
  PROVE  HoldsBacked'
<1>1. PICK part \in [Grants -> Nat], hold \in Nat : Hold(r, mode, part, hold)
  BY ReserveParts
<1>2. \A q \in Requests : q # r => resv'[q] = resv[q]
  BY <1>1 DEF Hold, TypeOK
<1>3. ~IsReserved(r)
  BY DEF Reserve, IsReserved
<1>4. resv'[r].state = "reserved" /\ resv'[r].alloc = part /\ resv'[r].hold = hold
  BY <1>1 DEF Hold, TypeOK, NoReservation
<1>5. ASSUME NEW g \in Grants
      PROVE  grant'[g].reserved = grant[g].reserved + UnitsHeldBy(r, g)' - UnitsHeldBy(r, g)
  <2>1. grant[g] \in GrantRow /\ grant[g].reserved \in Nat
    BY GrantRowFields DEF TypeOK
  <2>2. grant'[g].reserved = grant[g].reserved + part[g]
    BY <1>1, <2>1 DEF Hold, GrantRow
  <2>3. UnitsHeldBy(r, g)' = part[g] /\ UnitsHeldBy(r, g) = 0
    BY <1>3, <1>4 DEF UnitsHeldBy, IsReserved
  <2> QED BY <2>1, <2>2, <2>3
<1>6. ASSUME NEW a \in Accounts
      PROVE  wallet'[a].held = wallet[a].held + MoneyHeldBy(r, a)' - MoneyHeldBy(r, a)
  <2>1. wallet[a] \in WalletRow /\ wallet[a].held \in Nat
    BY WalletRowFields DEF TypeOK
  <2>2. MoneyHeldBy(r, a) = 0 /\ MoneyHeldBy(r, a)' = IF AccountOf[r] = a THEN hold ELSE 0
    BY <1>3, <1>4 DEF MoneyHeldBy, IsReserved
  <2>3. wallet'[a].held = wallet[a].held + (IF AccountOf[r] = a THEN hold ELSE 0)
    <3>1. wallet \in [Accounts -> WalletRow]
      BY DEF TypeOK
    <3>2. wallet' = [wallet EXCEPT ![AccountOf[r]] =
                       [wallet[AccountOf[r]] EXCEPT !.held = @ + hold]]
      BY <1>1 DEF Hold
    <3>3. CASE AccountOf[r] = a
      <4>1. wallet'[a] = [wallet[a] EXCEPT !.held = @ + hold]
        BY <2>1, <3>1, <3>2, <3>3
      <4> QED BY <2>1, <3>3, <4>1 DEF WalletRow
    <3>4. CASE AccountOf[r] # a
      <4>1. wallet'[a] = wallet[a]
        BY <3>1, <3>2, <3>4
      <4> QED BY <2>1, <3>4, <4>1
    <3> QED BY <3>3, <3>4
  <2> QED BY <2>1, <2>2, <2>3
<1> QED BY <1>2, <1>5, <1>6, HoldsStep

LEMMA HoldsSettle ==
  ASSUME TypeOK, TypeOK', HoldsBacked, NEW r \in Requests, NEW actual \in Units,
         Settle(r, actual)
  PROVE  HoldsBacked'
<1>1. PICK used \in [Grants -> Nat], due \in Nat, paid \in Nat :
        Finalize(r, actual, used, due, paid)
  BY SettleParts
<1>2. \A q \in Requests : q # r => resv'[q] = resv[q]
  BY <1>1 DEF Finalize, TypeOK
<1>3. IsReserved(r)
  BY DEF Settle
<1>4. resv[r] \in Reservation /\ resv[r].alloc \in [Grants -> Nat] /\ resv[r].hold \in Nat
  BY DEF TypeOK, Reservation
<1>5. resv'[r].state # "reserved"
  BY <1>1, <1>4 DEF Finalize, TypeOK, SettledState, Reservation
<1>6. ASSUME NEW g \in Grants
      PROVE  grant'[g].reserved = grant[g].reserved + UnitsHeldBy(r, g)' - UnitsHeldBy(r, g)
  <2>1. grant[g] \in GrantRow /\ grant[g].reserved \in Nat /\ resv[r].alloc[g] \in Nat
    BY <1>4, GrantRowFields DEF TypeOK
  <2>2. UnitsHeldBy(r, g)' = 0 /\ UnitsHeldBy(r, g) = resv[r].alloc[g]
    BY <1>3, <1>5 DEF UnitsHeldBy, IsReserved
  <2>3. resv[r].alloc[g] <= grant[g].reserved
    BY <2>2, HoldsDominate
  <2>4. grant'[g].reserved = grant[g].reserved - resv[r].alloc[g]
    <3>1. CASE g \in SettleGrants(r)
      <4>1. grant'[g].reserved = NonNeg(grant[g].reserved - HeldUnits(r, g))
        BY <1>1, <2>1, <3>1 DEF Finalize, GrantRow
      <4>2. HeldUnits(r, g) = resv[r].alloc[g]
        BY <2>1, <2>3 DEF HeldUnits, Least
      <4> QED BY <2>1, <2>3, <4>1, <4>2 DEF NonNeg
    <3>2. CASE g \notin SettleGrants(r)
      <4>1. grant'[g].reserved = grant[g].reserved
        BY <1>1, <3>2 DEF Finalize
      <4>2. resv[r].alloc[g] = 0
        BY <2>1, <3>2 DEF SettleGrants, Touched
      <4> QED BY <2>1, <4>1, <4>2
    <3> QED BY <3>1, <3>2
  <2> QED BY <2>1, <2>2, <2>4
<1>7. ASSUME NEW a \in Accounts
      PROVE  wallet'[a].held = wallet[a].held + MoneyHeldBy(r, a)' - MoneyHeldBy(r, a)
  <2>1. wallet[a] \in WalletRow /\ wallet[a].held \in Nat
    BY WalletRowFields DEF TypeOK
  <2>2. /\ MoneyHeldBy(r, a)' = 0
        /\ MoneyHeldBy(r, a) = IF AccountOf[r] = a THEN resv[r].hold ELSE 0
    BY <1>3, <1>5 DEF MoneyHeldBy, IsReserved
  <2>3. CASE AccountOf[r] = a
    <3>1. wallet'[a].held = HeldByOthers(r)
      BY <1>1, <2>1, <2>3 DEF Finalize, TypeOK, WalletRow
    <3>2. resv[r].hold <= wallet[a].held
      BY <2>2, <2>3, HoldsDominate
    <3>3. HeldByOthers(r) = wallet[a].held - resv[r].hold
      BY <1>4, <2>1, <2>3, <3>2 DEF HeldByOthers, NonNeg
    <3> QED BY <1>4, <2>1, <2>2, <2>3, <3>1, <3>3
  <2>4. CASE AccountOf[r] # a
    <3>1. wallet'[a].held = wallet[a].held
      BY <1>1, <2>4 DEF Finalize, TypeOK
    <3> QED BY <2>1, <2>2, <2>4, <3>1
  <2> QED BY <2>3, <2>4
<1> QED BY <1>2, <1>6, <1>7, HoldsStep

LEMMA HoldsReleased ==
  ASSUME TypeOK, TypeOK', HoldsBacked, NEW r \in Requests, IsReserved(r), Released(r)
  PROVE  HoldsBacked'
<1>1. \A q \in Requests : q # r => resv'[q] = resv[q]
  BY DEF Released, TypeOK
<1>2. resv[r] \in Reservation /\ resv[r].alloc \in [Grants -> Nat] /\ resv[r].hold \in Nat
  BY DEF TypeOK, Reservation
<1>3. resv'[r].state # "reserved"
  BY <1>2 DEF Released, TypeOK, Reservation
<1>4. ASSUME NEW g \in Grants
      PROVE  grant'[g].reserved = grant[g].reserved + UnitsHeldBy(r, g)' - UnitsHeldBy(r, g)
  <2>1. grant[g] \in GrantRow /\ grant[g].reserved \in Nat /\ resv[r].alloc[g] \in Nat
    BY <1>2, GrantRowFields DEF TypeOK
  <2>2. UnitsHeldBy(r, g)' = 0 /\ UnitsHeldBy(r, g) = resv[r].alloc[g]
    BY <1>3 DEF UnitsHeldBy, IsReserved
  <2>3. resv[r].alloc[g] <= grant[g].reserved
    BY <2>2, HoldsDominate
  <2>4. grant'[g].reserved = NonNeg(grant[g].reserved - resv[r].alloc[g])
    BY <2>1 DEF Released, GrantRow
  <2> QED BY <2>1, <2>2, <2>3, <2>4 DEF NonNeg
<1>5. ASSUME NEW a \in Accounts
      PROVE  wallet'[a].held = wallet[a].held + MoneyHeldBy(r, a)' - MoneyHeldBy(r, a)
  <2>1. wallet[a] \in WalletRow /\ wallet[a].held \in Nat
    BY WalletRowFields DEF TypeOK
  <2>2. /\ MoneyHeldBy(r, a)' = 0
        /\ MoneyHeldBy(r, a) = IF AccountOf[r] = a THEN resv[r].hold ELSE 0
    BY <1>3 DEF MoneyHeldBy, IsReserved
  <2>3. CASE AccountOf[r] = a
    <3>1. wallet' = [wallet EXCEPT ![a].held = NonNeg(@ - resv[r].hold)]
      BY <2>3 DEF Released
    <3>2. wallet'[a].held = NonNeg(wallet[a].held - resv[r].hold)
      BY <2>1, <3>1 DEF TypeOK, WalletRow
    <3>3. resv[r].hold <= wallet[a].held
      BY <2>2, <2>3, HoldsDominate
    <3> QED BY <1>2, <2>1, <2>2, <2>3, <3>2, <3>3 DEF NonNeg
  <2>4. CASE AccountOf[r] # a
    <3>1. wallet'[a].held = wallet[a].held
      BY <2>4 DEF Released, TypeOK
    <3> QED BY <2>1, <2>2, <2>4, <3>1
  <2> QED BY <2>3, <2>4
<1> QED BY <1>1, <1>4, <1>5, HoldsStep

LEMMA HoldsRecoverPay ==
  ASSUME TypeOK, TypeOK', RequestsInv, HoldsBacked, NEW r \in Requests, RecoverPay(r)
  PROVE  HoldsBacked'
<1>1. \A q \in Requests : q # r => resv'[q] = resv[q]
  BY DEF RecoverPay, TypeOK
<1>2. ~IsReserved(r)
  BY DEF RecoverPay, RecoveryDue, RequestsInv, RequestInv, IsReserved
<1>3. resv'[r].state # "reserved"
  BY DEF RecoverPay, TypeOK, Reservation
<1>4. \A g \in Grants : UnitsHeldBy(r, g) = 0 /\ UnitsHeldBy(r, g)' = 0
  BY <1>2, <1>3 DEF UnitsHeldBy, IsReserved
<1>5. \A a \in Accounts : MoneyHeldBy(r, a) = 0 /\ MoneyHeldBy(r, a)' = 0
  BY <1>2, <1>3 DEF MoneyHeldBy, IsReserved
<1>6. \A g \in Grants : grant'[g].reserved = grant[g].reserved /\ grant[g].reserved \in Nat
  BY GrantRowFields DEF RecoverPay, TypeOK
<1>7. \A a \in Accounts : wallet'[a].held = wallet[a].held /\ wallet[a].held \in Nat
  BY WalletRowFields DEF RecoverPay, TypeOK, WalletRow
<1> QED BY <1>1, <1>4, <1>5, <1>6, <1>7, HoldsStep

\* Debits and credits of a wallet, and the status of a grant, leave the holds alone.
LEMMA HoldsOther ==
  ASSUME TypeOK, HoldsBacked, GrantStep \/ UsageStep \/ RechargeStep
  PROVE  HoldsBacked'
<1>1. UNCHANGED resv
  BY DEF GrantStep, CreateGrant, RevokeGrant, LapseGrant, SetGrantStatus, UsageStep,
         WriteReservedUsage, WriteDirectUsage, RechargeStep, RedeemRead, RedeemWrite,
         RedeemRollback, RevokeKey, CreditTeam
<1>2. UNCHANGED grant \/ \E h \in Grants, s \in {"active", "revoked", "lapsed"} :
                           grant' = [grant EXCEPT ![h].status = s]
  BY DEF GrantStep, CreateGrant, RevokeGrant, LapseGrant, SetGrantStatus, UsageStep,
         WriteReservedUsage, WriteDirectUsage, RechargeStep, RedeemRead, RedeemWrite,
         RedeemRollback, RevokeKey, CreditTeam
<1>3. \A g \in Grants : grant'[g].reserved = grant[g].reserved
  <2>1. ASSUME NEW h \in Grants, NEW s, grant' = [grant EXCEPT ![h].status = s]
        PROVE  \A g \in Grants : grant'[g].reserved = grant[g].reserved
    BY <2>1 DEF TypeOK, GrantRow
  <2> QED BY <1>2, <2>1
<1>4. UNCHANGED wallet \/ \E a \in Accounts, b \in Int :
                            wallet' = [wallet EXCEPT ![a].balance = b]
  <2>1. CASE GrantStep
    BY <2>1 DEF GrantStep, CreateGrant, RevokeGrant, LapseGrant, SetGrantStatus
  <2>2. CASE UsageStep
    <3>1. \A r \in Requests : AccountOf[r] \in Accounts
      BY BillingAssumption
    <3>2. \A a \in Accounts, n \in Nat : wallet[a].balance - n \in Int
      BY WalletRowFields DEF TypeOK
    <3> QED BY <2>2, <3>1, <3>2, BillingAssumption
            DEF UsageStep, WriteReservedUsage, WriteDirectUsage
  <2>3. CASE RechargeStep
    <3>1. \A k \in RechargeKeys : recharge[k].seen + KeyAmount[k] \in Int
      BY BillingAssumption DEF TypeOK, RechargeKey
    <3>2. \A a \in Accounts : wallet[a].balance + CreditAmount \in Int
      BY BillingAssumption, WalletRowFields DEF TypeOK
    <3> QED BY <2>3, <3>1, <3>2
            DEF RechargeStep, RedeemRead, RedeemWrite, RedeemRollback, RevokeKey, CreditTeam
  <2> QED BY <2>1, <2>2, <2>3
<1>5. \A a \in Accounts : wallet'[a].held = wallet[a].held
  <2>1. ASSUME NEW a \in Accounts, NEW b \in Int, wallet' = [wallet EXCEPT ![a].balance = b],
               NEW c \in Accounts
        PROVE  wallet'[c].held = wallet[c].held
    <3>1. wallet[c] \in WalletRow /\ wallet \in [Accounts -> WalletRow]
      BY DEF TypeOK
    <3>2. CASE c = a
      <4>1. wallet'[c] = [wallet[c] EXCEPT !.balance = b]
        BY <2>1, <3>1, <3>2
      <4> QED BY <3>1, <4>1 DEF WalletRow
    <3>3. CASE c # a
      BY <2>1, <3>1, <3>3
    <3> QED BY <3>2, <3>3
  <2> QED BY <1>4, <2>1
<1> QED BY <1>1, <1>3, <1>5, HoldsFrame

LEMMA HoldsInit == Init => HoldsBacked
<1> SUFFICES ASSUME Init PROVE HoldsBacked
  OBVIOUS
<1>1. IsFiniteSet(Requests)
  BY BillingAssumption
<1>2. \A r \in Requests : ~IsReserved(r)
  BY DEF Init, IsReserved, NoReservation
<1>3. \A g \in Grants : SumFunction(UnitsHeldOn(g)) = 0
  <2> TAKE g \in Grants
  <2> DEFINE f == UnitsHeldOn(g)
  <2>1. f \in [Requests -> Int] /\ \A r \in Requests : f[r] = 0
    BY <1>2 DEF UnitsHeldOn, UnitsHeldBy
  <2> HIDE DEF f
  <2>2. SumFunction(f) = 0
    BY <1>1, <2>1, SumZero
  <2> QED BY <2>2 DEF f
<1>4. \A a \in Accounts : SumFunction(MoneyHeldOn(a)) = 0
  <2> TAKE a \in Accounts
  <2> DEFINE f == MoneyHeldOn(a)
  <2>1. f \in [Requests -> Int] /\ \A r \in Requests : f[r] = 0
    BY <1>2 DEF MoneyHeldOn, MoneyHeldBy
  <2> HIDE DEF f
  <2>2. SumFunction(f) = 0
    BY <1>1, <2>1, SumZero
  <2> QED BY <2>2 DEF f
<1>5. /\ \A g \in Grants : grant[g].reserved = 0
      /\ \A a \in Accounts : wallet[a].held = 0
  BY DEF Init
<1> QED BY <1>3, <1>4, <1>5, HoldsBackedSums

LEMMA HoldsNext ==
  TypeOK /\ TypeOK' /\ RequestsInv /\ HoldsBacked /\ [Next]_vars => HoldsBacked'
<1> SUFFICES ASSUME TypeOK, TypeOK', RequestsInv, HoldsBacked, [Next]_vars
             PROVE  HoldsBacked'
  OBVIOUS
<1>1. ASSUME UNCHANGED <<grant, wallet, resv>> PROVE HoldsBacked'
  BY <1>1, HoldsFrame
<1>2. CASE GrantStep \/ UsageStep \/ RechargeStep
  BY <1>2, HoldsOther
<1>3. CASE RequestStep
  BY <1>1, <1>3, HoldsReserve, HoldsSettle DEF RequestStep, Expire
<1>4. CASE ReclaimStep
  BY <1>1, <1>4, HoldsReleased DEF ReclaimStep, ReclaimScan, ReclaimAbort, ReclaimRelease
<1>5. CASE RecoveryStep
  BY <1>1, <1>5, HoldsRecoverPay DEF RecoveryStep, RecoverDefer, RetryDue
<1>6. CASE UNCHANGED vars
  BY <1>1, <1>6 DEF vars
<1> QED BY <1>2, <1>3, <1>4, <1>5, <1>6 DEF Next

\* The reserved column of every grant and of every wallet is the sum of what the
\* open reservations hold: settlement, release and reclaim, in whatever order and
\* however often they are tried, give back each hold once, and GREATEST(0, ...)
\* never has to hide a second time.
THEOREM HoldsBackedHolds == Spec => []HoldsBacked
BY HoldsInit, HoldsNext, TypeCorrect, RequestsHold, PTL DEF Spec

-----------------------------------------------------------------------------
(* Payments *)

\* Nothing is paid on a receivable before there is one.
PaymentsInv ==
  \A r \in Requests : /\ recv[r].state = "none" => payments[r] = <<>>
                      /\ recv[r].settled = SumFunction(payments[r])

\* A request whose receivable and payments a step leaves alone.
LEMMA PaymentsFrame ==
  ASSUME PaymentsInv, NEW r \in Requests, payments'[r] = payments[r],
         recv'[r].state = recv[r].state, recv'[r].settled = recv[r].settled
  PROVE  /\ recv'[r].state = "none" => payments'[r] = <<>>
         /\ recv'[r].settled = SumFunction(payments'[r])
BY DEF PaymentsInv

LEMMA PaymentsNext ==
  TypeOK /\ RequestsInv /\ PaymentsInv /\ [Next]_vars => PaymentsInv'
<1> SUFFICES ASSUME TypeOK, RequestsInv, PaymentsInv, [Next]_vars, NEW r \in Requests
             PROVE  /\ recv'[r].state = "none" => payments'[r] = <<>>
                    /\ recv'[r].settled = SumFunction(payments'[r])
  BY DEF PaymentsInv
<1> DEFINE Paid == /\ recv'[r].state = "none" => payments'[r] = <<>>
                   /\ recv'[r].settled = SumFunction(payments'[r])
<1>1. ASSUME UNCHANGED <<recv, payments>> PROVE Paid
  BY <1>1, PaymentsFrame
<1>2. ASSUME NEW q \in Requests, NEW actual \in Units, Settle(q, actual) PROVE Paid
  <2>1. PICK used \in [Grants -> Nat], due \in Nat, paid \in Nat :
          Finalize(q, actual, used, due, paid)
    BY <1>2, SettleParts
  <2>2. CASE q # r
    BY <2>1, <2>2, PaymentsFrame DEF Finalize, TypeOK
  <2>3. CASE q = r
    <3>1. recv[r].state = "none"
      BY <1>2, <2>3 DEF Settle, IsReserved, RequestsInv, RequestInv
    <3>2. payments[r] = <<>>
      BY <3>1 DEF PaymentsInv
    <3>3. /\ recv'[r].settled = paid /\ recv'[r].state # "none"
          /\ payments'[r] = <<paid>>
      BY <2>1, <2>3, <3>2 DEF Finalize, TypeOK
    <3>4. SumFunction(<<paid>>) = paid
      <4>1. <<>> \in Seq(Nat) /\ <<paid>> = Append(<<>>, paid)
        OBVIOUS
      <4>2. SumFunction(Append(<<>>, paid)) = 0 + paid
        BY <4>1, SumAppended, SumOfNothing
      <4> QED BY <4>1, <4>2
    <3> QED BY <3>3, <3>4
  <2> QED BY <2>2, <2>3
<1>3. ASSUME NEW q \in Requests, RecoverPay(q) PROVE Paid
  <2> DEFINE payment == Least(recv[q].outstanding, Spendable(AccountOf[q]))
  <2>1. payment \in Nat
    <3>1. /\ AccountOf[q] \in Accounts /\ wallet[AccountOf[q]] \in WalletRow
          /\ Frozen[AccountOf[q]] \in Nat
      BY BillingAssumption DEF TypeOK
    <3>2. Spendable(AccountOf[q]) \in Nat
      BY <1>3, <3>1, WalletRowFields DEF RecoverPay, Spendable
    <3> QED BY <3>2, RequestColumns, LeastNat
  <2>2. CASE q # r
    BY <1>3, <2>2, PaymentsFrame DEF RecoverPay, TypeOK
  <2>3. CASE q = r
    <3>1. /\ recv'[r].state # "none" /\ recv'[r].settled = recv[r].settled + payment
          /\ payments'[r] = Append(payments[r], payment)
      BY <1>3, <2>3 DEF RecoverPay, WithPayment, TypeOK, Receivable
    <3>2. payments[r] \in Seq(Nat)
      BY DEF TypeOK
    <3> HIDE DEF payment
    <3>3. SumFunction(Append(payments[r], payment)) = SumFunction(payments[r]) + payment
      BY <2>1, <3>2, SumAppended
    <3>4. recv[r].settled = SumFunction(payments[r])
      BY DEF PaymentsInv
    <3> QED BY <3>1, <3>3, <3>4
  <2> QED BY <2>2, <2>3
<1>4. ASSUME NEW q \in Requests, RecoverDefer(q) \/ RetryDue(q) PROVE Paid
  <2>1. PICK b \in BOOLEAN : recv' = [recv EXCEPT ![q].waiting = b]
    BY <1>4 DEF RecoverDefer, RetryDue
  <2>2. recv'[r].state = recv[r].state /\ recv'[r].settled = recv[r].settled
    BY <2>1 DEF TypeOK, Receivable
  <2>3. UNCHANGED payments
    BY <1>4 DEF RecoverDefer, RetryDue
  <2> QED BY <2>2, <2>3, PaymentsFrame
<1>5. CASE RequestStep
  BY <1>1, <1>2, <1>5 DEF RequestStep, Reserve, Expire
<1>6. CASE RecoveryStep
  BY <1>3, <1>4, <1>6 DEF RecoveryStep
<1>7. CASE GrantStep \/ ReclaimStep
  BY <1>1, <1>7 DEF GrantStep, CreateGrant, RevokeGrant, LapseGrant, SetGrantStatus,
                    ReclaimStep, ReclaimScan, ReclaimAbort, ReclaimRelease
<1>8. CASE UsageStep \/ RechargeStep \/ UNCHANGED vars
  BY <1>1, <1>8 DEF UsageStep, WriteReservedUsage, WriteDirectUsage, RechargeStep,
                    RedeemRead, RedeemWrite, RedeemRollback, RevokeKey, CreditTeam, vars
<1> QED BY <1>5, <1>6, <1>7, <1>8 DEF Next

\* The payment rows of a receivable, the initial one and every recovery, always add
\* up to its settled_wallet_amount.
THEOREM PaymentsAddUpHolds == Spec => []PaymentsAddUp
<1>1. Init => PaymentsInv
  BY SumOfNothing DEF Init, PaymentsInv, NoReceivable
<1>2. PaymentsInv => PaymentsAddUp
  BY DEF PaymentsInv, PaymentsAddUp
<1> QED BY <1>1, <1>2, PaymentsNext, TypeCorrect, RequestsHold, PTL DEF Spec

-----------------------------------------------------------------------------
(* Solvency *)

\* RedeemWrite is the one step that writes a balance it read earlier.  As long as
\* no redemption has missed a credit, that balance is at least the current one.
LEMMA SolventNext ==
  TypeOK /\ NoLostCredit /\ Solvent /\ [Next]_vars => Solvent'
<1> SUFFICES ASSUME TypeOK, NoLostCredit, Solvent, [Next]_vars, NEW a \in Accounts
             PROVE  wallet'[a].held <= wallet'[a].balance - Frozen[a]
  BY DEF Solvent
<1> DEFINE Safe == wallet'[a].held <= wallet'[a].balance - Frozen[a]
<1>1. /\ wallet[a] \in WalletRow /\ wallet[a].balance \in Int /\ wallet[a].held \in Nat
      /\ Frozen[a] \in Nat /\ wallet[a].held <= wallet[a].balance - Frozen[a]
  BY BillingAssumption, WalletRowFields DEF TypeOK, Solvent
<1>2. ASSUME wallet'[a] = wallet[a] PROVE Safe
  BY <1>1, <1>2
<1>3. ASSUME NEW r \in Requests, NEW mode \in PaymentModes, NEW wanted \in Units,
             Reserve(r, mode, wanted)
      PROVE  Safe
  <2>1. PICK part \in [Grants -> Nat], hold \in Nat :
          /\ hold > 0 => hold <= Spendable(AccountOf[r])
          /\ Hold(r, mode, part, hold)
    BY <1>3, ReserveParts
  <2>2. CASE a = AccountOf[r]
    <3>1. /\ wallet'[a].held = wallet[a].held + hold
          /\ wallet'[a].balance = wallet[a].balance
      BY <1>1, <2>1, <2>2 DEF Hold, TypeOK, WalletRow
    <3> QED BY <1>1, <2>1, <2>2, <3>1 DEF Spendable
  <2>3. CASE a # AccountOf[r]
    BY <1>2, <2>1, <2>3 DEF Hold, TypeOK
  <2> QED BY <2>2, <2>3
<1>4. ASSUME NEW r \in Requests, NEW actual \in Units, Settle(r, actual) PROVE Safe
  <2>1. PICK used \in [Grants -> Nat], due \in Nat, paid \in Nat :
          /\ paid = InitialPayment(r, due)
          /\ Finalize(r, actual, used, due, paid)
    BY <1>4, SettleParts
  <2>2. HeldByOthers(r) \in Nat
    BY <1>4, SettleParts
  <2>3. CASE a = AccountOf[r]
    <3>1. /\ wallet'[a].held = HeldByOthers(r)
          /\ wallet'[a].balance = wallet[a].balance - paid
      BY <1>1, <2>1, <2>3 DEF Finalize, TypeOK, WalletRow
    <3>2. HeldByOthers(r) <= wallet[a].held
      BY <1>1, <2>3 DEF HeldByOthers, NonNeg, TypeOK, Reservation
    <3>3. paid <= NonNeg(wallet[a].balance - Frozen[a] - HeldByOthers(r))
      BY <1>1, <2>1, <2>2, <2>3 DEF InitialPayment, Least, NonNeg
    <3> QED BY <1>1, <2>2, <3>1, <3>2, <3>3 DEF NonNeg
  <2>4. CASE a # AccountOf[r]
    BY <1>2, <2>1, <2>4 DEF Finalize, TypeOK
  <2> QED BY <2>3, <2>4
<1>5. ASSUME NEW w \in Gateways, NEW r \in Requests, ReclaimRelease(w, r) PROVE Safe
  <2>1. CASE IsReserved(r) /\ a = AccountOf[r]
    <3>1. /\ wallet'[a].held = NonNeg(wallet[a].held - resv[r].hold)
          /\ wallet'[a].balance = wallet[a].balance
      <4>1. wallet' = [wallet EXCEPT ![a].held = NonNeg(@ - resv[r].hold)]
        BY <1>5, <2>1 DEF ReclaimRelease, Released
      <4> QED BY <1>1, <4>1 DEF TypeOK, WalletRow
    <3>2. resv[r].hold \in Nat
      BY DEF TypeOK, Reservation
    <3> QED BY <1>1, <3>1, <3>2 DEF NonNeg
  <2>2. CASE ~(IsReserved(r) /\ a = AccountOf[r])
    BY <1>2, <1>5, <2>2 DEF ReclaimRelease, Released, TypeOK
  <2> QED BY <2>1, <2>2
<1>6. ASSUME NEW r \in Requests, NEW amount \in Nat, a = AccountOf[r] =>
               amount <= Spendable(a),
             wallet' = [wallet EXCEPT ![AccountOf[r]].balance = @ - amount]
      PROVE  Safe
  <2>1. CASE a = AccountOf[r]
    <3>1. /\ wallet'[a].held = wallet[a].held
          /\ wallet'[a].balance = wallet[a].balance - amount
      BY <1>1, <1>6, <2>1 DEF TypeOK, WalletRow
    <3> QED BY <1>1, <1>6, <2>1, <3>1 DEF Spendable
  <2>2. CASE a # AccountOf[r]
    BY <1>2, <1>6, <2>2 DEF TypeOK
  <2> QED BY <2>1, <2>2
<1>7. ASSUME NEW r \in Requests, RecoverPay(r) PROVE Safe
  <2> DEFINE payment == Least(recv[r].outstanding, Spendable(AccountOf[r]))
  <2>1. /\ AccountOf[r] \in Accounts /\ wallet[AccountOf[r]] \in WalletRow
        /\ Frozen[AccountOf[r]] \in Nat
    BY BillingAssumption DEF TypeOK
  <2>2. Spendable(AccountOf[r]) \in Nat
    BY <1>7, <2>1, WalletRowFields DEF RecoverPay, Spendable
  <2>3. payment \in Nat /\ payment <= Spendable(AccountOf[r])
    BY <2>2, RequestColumns, LeastNat
  <2>4. wallet' = [wallet EXCEPT ![AccountOf[r]].balance = @ - payment]
    BY <1>7 DEF RecoverPay
  <2> HIDE DEF payment
  <2> QED BY <1>6, <2>3, <2>4
<1>8. CASE UsageStep
  BY <1>2, <1>6, <1>8, BillingAssumption
     DEF UsageStep, WriteReservedUsage, WriteDirectUsage
<1>9. ASSUME NEW k \in RechargeKeys, NEW b \in Accounts, RedeemWrite(k, b) PROVE Safe
  <2>1. CASE a = b
    <3>1. /\ wallet'[a].held = wallet[a].held
          /\ wallet'[a].balance = recharge[k].seen + KeyAmount[k]
      BY <1>1, <1>9, <2>1 DEF RedeemWrite, TypeOK, WalletRow
    <3>2. wallet[a].balance <= recharge[k].seen
      BY <1>9, <2>1 DEF RedeemWrite, NoLostCredit
    <3>3. recharge[k].seen \in Int /\ KeyAmount[k] \in Nat
      BY BillingAssumption DEF TypeOK, RechargeKey
    <3> QED BY <1>1, <3>1, <3>2, <3>3
  <2>2. CASE a # b
    BY <1>2, <1>9, <2>2 DEF RedeemWrite, TypeOK
  <2> QED BY <2>1, <2>2
<1>10. ASSUME NEW b \in Accounts, CreditTeam(b) PROVE Safe
  <2>1. CASE a = b
    <3>1. /\ wallet'[a].held = wallet[a].held
          /\ wallet'[a].balance = wallet[a].balance + CreditAmount
      BY <1>1, <1>10, <2>1 DEF CreditTeam, TypeOK, WalletRow
    <3> QED BY <1>1, <3>1, BillingAssumption
  <2>2. CASE a # b
    BY <1>2, <1>10, <2>2 DEF CreditTeam, TypeOK
  <2> QED BY <2>1, <2>2
<1>11. CASE RechargeStep
  BY <1>2, <1>9, <1>10, <1>11
     DEF RechargeStep, RedeemRead, RedeemRollback, RevokeKey
<1>12. CASE GrantStep \/ UNCHANGED vars
  BY <1>2, <1>12 DEF GrantStep, CreateGrant, RevokeGrant, LapseGrant, SetGrantStatus, vars
<1>13. CASE RequestStep
  BY <1>2, <1>3, <1>4, <1>13 DEF RequestStep, Expire
<1>14. CASE ReclaimStep
  BY <1>2, <1>5, <1>14 DEF ReclaimStep, ReclaimScan, ReclaimAbort
<1>15. CASE RecoveryStep
  BY <1>2, <1>7, <1>15 DEF RecoveryStep, RecoverDefer, RetryDue
<1> QED BY <1>8, <1>11, <1>12, <1>13, <1>14, <1>15 DEF Next

\* The money on hold is always there, provided no redemption of a recharge key
\* overwrites a credit that arrived between its read and its write.
THEOREM SolventHolds == Spec /\ []NoLostCredit => []Solvent
<1>1. Init => Solvent
  BY BillingAssumption DEF Init, Solvent
<1> QED BY <1>1, SolventNext, TypeCorrect, PTL DEF Spec

-----------------------------------------------------------------------------
(* Escrow *)

\* The packages a request draws on are its payer's.
Own ==
  \A r \in Requests, g \in Grants :
    g \in resv[r].first \/ resv[r].alloc[g] > 0 => OwnerOf[g] = AccountOf[r]

OwnAt(r) ==
  \A g \in Grants : g \in resv[r].first \/ resv[r].alloc[g] > 0 => OwnerOf[g] = AccountOf[r]

LEMMA OwnFrame ==
  ASSUME Own, NEW q \in Requests, resv'[q].first = resv[q].first,
         resv'[q].alloc = resv[q].alloc
  PROVE  OwnAt(q)'
BY DEF Own, OwnAt

LEMMA OwnInit == Init => Own
BY DEF Init, Own, NoReservation, NoAllocation

LEMMA OwnNext == TypeOK /\ Own /\ [Next]_vars => Own'
<1> SUFFICES ASSUME TypeOK, Own, [Next]_vars, NEW q \in Requests PROVE OwnAt(q)'
  BY DEF Own, OwnAt
<1>1. ASSUME UNCHANGED resv PROVE OwnAt(q)'
  BY <1>1, OwnFrame
<1>2. ASSUME NEW r \in Requests, NEW mode \in PaymentModes, NEW wanted \in Units,
             Reserve(r, mode, wanted)
      PROVE  OwnAt(q)'
  <2>1. PICK part \in [Grants -> Nat], hold \in Nat :
          /\ \A g \in Grants : part[g] > 0 => g \in Eligible(r)
          /\ Hold(r, mode, part, hold)
    BY <1>2, ReserveParts
  <2>2. CASE q = r
    <3>1. resv'[q].alloc = part /\ resv'[q].first = Foremost(Eligible(r))
      BY <2>1, <2>2 DEF Hold, TypeOK, NoReservation
    <3>2. Foremost(Eligible(r)) \subseteq Eligible(r)
      BY DEF Foremost
    <3>3. \A g \in Eligible(r) : OwnerOf[g] = AccountOf[r]
      BY DEF Eligible
    <3> QED BY <2>1, <2>2, <3>1, <3>2, <3>3 DEF OwnAt
  <2>3. CASE q # r
    <3>1. resv'[q] = resv[q]
      BY <2>1, <2>3 DEF Hold, TypeOK
    <3> QED BY <3>1, OwnFrame
  <2> QED BY <2>2, <2>3
<1>3. ASSUME NEW r \in Requests, NEW actual \in Units, Settle(r, actual) PROVE OwnAt(q)'
  <2>1. PICK used \in [Grants -> Nat], due \in Nat, paid \in Nat :
          Finalize(r, actual, used, due, paid)
    BY <1>3, SettleParts
  <2>2. CASE q # r
    <3>1. resv'[q] = resv[q]
      BY <2>1, <2>2 DEF Finalize, TypeOK
    <3> QED BY <3>1, OwnFrame
  <2>3. CASE q = r
    <3>1. \E s, t : resv' = [resv EXCEPT ![r] =
            [@ EXCEPT !.state = s, !.settlement = t, !.walletAmt = paid,
                      !.shortfall = due - paid]]
      BY <2>1 DEF Finalize
    <3>2. resv[r] \in Reservation /\ resv \in [Requests -> Reservation]
      BY DEF TypeOK
    <3>3. resv'[r].first = resv[r].first /\ resv'[r].alloc = resv[r].alloc
      BY <3>1, <3>2 DEF Reservation
    <3> QED BY <2>3, <3>3, OwnFrame
  <2> QED BY <2>2, <2>3
<1>4. ASSUME NEW r \in Requests, Released(r) PROVE OwnAt(q)'
  <2>1. resv'[q].first = resv[q].first /\ resv'[q].alloc = resv[q].alloc
    BY <1>4 DEF Released, TypeOK, Reservation
  <2> QED BY <2>1, OwnFrame
<1>5. ASSUME NEW r \in Requests, RecoverPay(r) PROVE OwnAt(q)'
  <2>1. PICK state, settled, left :
          resv' = [resv EXCEPT ![r] = [@ EXCEPT !.state = state, !.settlement = state,
                                                !.walletAmt = settled, !.shortfall = left]]
    BY <1>5 DEF RecoverPay
  <2>2. resv'[q].first = resv[q].first /\ resv'[q].alloc = resv[q].alloc
    BY <2>1 DEF TypeOK, Reservation
  <2> QED BY <2>2, OwnFrame
<1>6. CASE RequestStep
  BY <1>1, <1>2, <1>3, <1>6 DEF RequestStep, Expire
<1>7. CASE ReclaimStep
  BY <1>1, <1>4, <1>7 DEF ReclaimStep, ReclaimScan, ReclaimAbort, ReclaimRelease
<1>8. CASE RecoveryStep
  BY <1>1, <1>5, <1>8 DEF RecoveryStep, RecoverDefer, RetryDue
<1>9. CASE GrantStep \/ UsageStep \/ RechargeStep \/ UNCHANGED vars
  BY <1>1, <1>9 DEF GrantStep, CreateGrant, RevokeGrant, LapseGrant, SetGrantStatus,
     UsageStep, WriteReservedUsage, WriteDirectUsage, RechargeStep, RedeemRead, RedeemWrite,
     RedeemRollback, RevokeKey, CreditTeam, vars
<1> QED BY <1>6, <1>7, <1>8, <1>9 DEF Next

\* Nothing is overdrawn.
LEMMA EscrowCovered == TypeOK /\ GrantCapacity /\ Solvent => Escrowed!Covered
<1> SUFFICES ASSUME TypeOK, GrantCapacity, Solvent PROVE Escrowed!Covered
  OBVIOUS
<1>1. ASSUME NEW a \in Accounts PROVE Spendable(a) \in Nat
  <2>1. /\ wallet[a].balance \in Int /\ wallet[a].held \in Nat /\ Frozen[a] \in Nat
        /\ wallet[a].held <= wallet[a].balance - Frozen[a]
    BY BillingAssumption, WalletRowFields DEF TypeOK, Solvent
  <2> QED BY <2>1 DEF Spendable
<1>2. ASSUME NEW g \in Grants PROVE FreeUnits(g) \in Nat
  <2>1. /\ grant[g].consumed \in Nat /\ grant[g].reserved \in Nat /\ TotalUnits[g] \in Nat
        /\ grant[g].consumed + grant[g].reserved <= TotalUnits[g]
    BY BillingAssumption, GrantRowFields DEF TypeOK, GrantCapacity
  <2> QED BY <2>1 DEF FreeUnits
<1>3. ASSUME NEW r \in Requests PROVE DealOf(r) \in Escrowed!Deal
  <2>1. /\ resv[r].hold \in Nat /\ resv[r].alloc \in [Grants -> Nat]
        /\ charged[r] \in Nat /\ recv[r].outstanding \in Nat
    BY RequestColumns DEF TypeOK, Reservation
  <2> QED BY <2>1 DEF DealOf, Escrowed!Deal, NoAllocation
<1> QED BY <1>1, <1>2, <1>3 DEF Escrowed!Covered

LEMMA CoveredNext ==
  TypeOK' /\ GrantCapacity' /\ Solvent' => Escrowed!Covered'
BY EscrowCovered, PTL

\* The three changes Escrow speaks of, without its functions.
Turned(r, from, to) ==
  /\ DealOf(r).phase = from /\ DealOf(r)'.phase = to
  /\ \A q \in Requests \ {r} : DealOf(q)' = DealOf(q)

Swapped(r) ==
  \A a \in Accounts :
    Spendable(a)' =
      IF a = AccountOf[r]
        THEN Spendable(a) + (DealOf(r).hold + DealOf(r).paid)
             - (DealOf(r)'.hold + DealOf(r)'.paid)
        ELSE Spendable(a)

SameUnits == \A g \in Grants : FreeUnits(g)' = FreeUnits(g)

LEMMA EscrowTurns ==
  ASSUME NEW r \in Requests, NEW from, NEW to, Turned(r, from, to)
  PROVE  Escrowed!Turns(r, from, to)
BY DEF Turned, Escrowed!Turns

LEMMA EscrowExchanged ==
  ASSUME NEW r \in Requests, Swapped(r)
  PROVE  Escrowed!Exchanged(r)
<1>1. AccountOf[r] \in Accounts
  BY BillingAssumption
<1> QED BY <1>1 DEF Swapped, Escrowed!Exchanged

LEMMA EscrowOpen ==
  ASSUME NEW r \in Requests, Turned(r, "none", "open"), Swapped(r),
         DealOf(r)'.paid = 0, DealOf(r)'.owed = 0,
         \A g \in Grants : /\ FreeUnits(g)' = FreeUnits(g) - DealOf(r)'.part[g]
                           /\ DealOf(r)'.part[g] > 0 => OwnerOf[g] = AccountOf[r]
  PROVE  Escrowed!Open(r)
BY EscrowTurns, EscrowExchanged DEF Escrowed!Open

LEMMA EscrowClose ==
  ASSUME NEW r \in Requests, Turned(r, "open", "closed"), Swapped(r),
         DealOf(r)'.hold = 0, DealOf(r)'.part = NoAllocation,
         DealOf(r)'.owed > 0 => Spendable(AccountOf[r])' = 0,
         \A g \in Grants : /\ FreeUnits(g)' <= FreeUnits(g) + DealOf(r).part[g]
                           /\ OwnerOf[g] # AccountOf[r] => FreeUnits(g)' = FreeUnits(g)
  PROVE  Escrowed!Close(r)
<1>1. AccountOf[r] \in Accounts
  BY BillingAssumption
<1> QED BY <1>1, EscrowTurns, EscrowExchanged
        DEF Escrowed!Close, Escrowed!Nothing, NoAllocation

LEMMA EscrowCollect ==
  ASSUME NEW r \in Requests, Turned(r, "closed", "closed"), Swapped(r), SameUnits,
         DealOf(r)'.paid > DealOf(r).paid,
         DealOf(r)'.paid + DealOf(r)'.owed = DealOf(r).paid + DealOf(r).owed,
         DealOf(r)'.hold = DealOf(r).hold, DealOf(r)'.part = DealOf(r).part
  PROVE  Escrowed!Collect(r)
BY EscrowTurns, EscrowExchanged DEF Escrowed!Collect, SameUnits

LEMMA EscrowCharge ==
  ASSUME NEW r \in Requests, Turned(r, "none", "closed"), Swapped(r), SameUnits,
         NEW paid, DealOf(r)' = [phase |-> "closed", hold |-> 0, part |-> NoAllocation,
                                 paid |-> paid, owed |-> 0]
  PROVE  Escrowed!Charge(r)
<1>1. DealOf(r)'.paid = paid
  OBVIOUS
<1>2. Escrowed!Nothing = NoAllocation
  BY DEF Escrowed!Nothing, NoAllocation
<1>3. Escrowed!Turns(r, "none", "closed") /\ Escrowed!Exchanged(r)
  BY EscrowTurns, EscrowExchanged
<1> DEFINE deal == [q \in Requests |-> DealOf(q)]
<1>4. deal'[r] = [phase |-> "closed", hold |-> 0, part |-> Escrowed!Nothing,
                  paid |-> deal'[r].paid, owed |-> 0]
  BY <1>1, <1>2
<1>5. [g \in Grants |-> FreeUnits(g)]' = [g \in Grants |-> FreeUnits(g)]
  BY DEF SameUnits
<1> QED BY <1>3, <1>4, <1>5 DEF Escrowed!Charge

LEMMA EscrowDeposit ==
  ASSUME NEW a \in Accounts, Spendable(a)' >= Spendable(a), SameUnits,
         \A b \in Accounts \ {a} : Spendable(b)' = Spendable(b),
         \A q \in Requests : DealOf(q)' = DealOf(q)
  PROVE  Escrowed!Deposit(a)
BY DEF Escrowed!Deposit, SameUnits

LEMMA EscrowStutter ==
  ASSUME SameUnits, \A a \in Accounts : Spendable(a)' = Spendable(a),
         \A q \in Requests : DealOf(q)' = DealOf(q)
  PROVE  UNCHANGED Escrowed!vars
BY DEF Escrowed!vars, SameUnits

\* A deal is the same if its columns are; money and free units likewise.
LEMMA SameDeal ==
  ASSUME NEW q \in Requests, resv'[q] = resv[q], charged'[q] = charged[q],
         recv'[q].outstanding = recv[q].outstanding
  PROVE  DealOf(q)' = DealOf(q)
BY DEF DealOf, IsReserved

LEMMA SameMoney ==
  ASSUME NEW a \in Accounts, wallet'[a] = wallet[a]
  PROVE  Spendable(a)' = Spendable(a)
BY DEF Spendable

LEMMA UnitsFrame ==
  ASSUME UNCHANGED grant
  PROVE  SameUnits
BY DEF SameUnits, FreeUnits

\* The columns the arithmetic below is about.
LEMMA EscrowColumns ==
  ASSUME TypeOK, NEW r \in Requests
  PROVE  /\ AccountOf[r] \in Accounts
         /\ wallet[AccountOf[r]] \in WalletRow
         /\ wallet[AccountOf[r]].balance \in Int /\ wallet[AccountOf[r]].held \in Nat
         /\ Frozen[AccountOf[r]] \in Nat
         /\ resv[r] \in Reservation /\ resv[r].hold \in Nat /\ resv[r].alloc \in [Grants -> Nat]
         /\ charged[r] \in Nat /\ recv[r].outstanding \in Nat
<1>1. AccountOf[r] \in Accounts
  BY BillingAssumption
<1>2. wallet[AccountOf[r]] \in WalletRow /\ Frozen[AccountOf[r]] \in Nat
  BY <1>1, BillingAssumption DEF TypeOK
<1>3. resv[r] \in Reservation /\ resv[r].hold \in Nat /\ resv[r].alloc \in [Grants -> Nat]
  BY DEF TypeOK, Reservation
<1> QED BY <1>1, <1>2, <1>3, WalletRowFields, RequestColumns

\* A request that was never reserved nor billed has made no deal.
LEMMA NoDealYet ==
  ASSUME TypeOK, NEW r \in Requests, RequestInv(r), resv[r].state = "none", ~bill[r].present
  PROVE  /\ charged[r] = 0 /\ recv[r].outstanding = 0
         /\ DealOf(r) = [phase |-> "none", hold |-> 0, part |-> NoAllocation,
                         paid |-> 0, owed |-> 0]
<1>1. charged[r] = 0 /\ recv[r].outstanding = 0
  BY RequestColumns DEF RequestInv
<1> QED BY <1>1 DEF DealOf, IsReserved

\* Reserve opens a deal.
LEMMA ReserveOpens ==
  ASSUME TypeOK, NEW r \in Requests, RequestInv(r), NEW mode \in PaymentModes,
         NEW wanted \in Units, Reserve(r, mode, wanted)
  PROVE  Escrowed!Open(r)
<1>1. PICK part \in [Grants -> Nat], hold \in Nat :
        /\ \A g \in Grants : part[g] > 0 => g \in Eligible(r)
        /\ Hold(r, mode, part, hold)
  BY ReserveParts
<1>2. resv[r].state = "none" /\ ~bill[r].present /\ UNCHANGED <<recv, charged>>
  BY DEF Reserve
<1>3. DealOf(r) = [phase |-> "none", hold |-> 0, part |-> NoAllocation, paid |-> 0, owed |-> 0]
  BY <1>2, NoDealYet
<1>4. DealOf(r)' = [phase |-> "open", hold |-> hold, part |-> part, paid |-> 0, owed |-> 0]
  <2>1. resv'[r].state = "reserved" /\ resv'[r].alloc = part /\ resv'[r].hold = hold
    BY <1>1 DEF Hold, TypeOK, NoReservation
  <2>2. charged'[r] = 0 /\ recv'[r].outstanding = 0
    BY <1>2, NoDealYet
  <2> QED BY <2>1, <2>2 DEF DealOf, IsReserved
<1>5. Turned(r, "none", "open")
  <2>1. ASSUME NEW q \in Requests \ {r} PROVE DealOf(q)' = DealOf(q)
    <3>1. resv'[q] = resv[q]
      BY <1>1 DEF Hold, TypeOK
    <3> QED BY <1>2, <3>1, SameDeal
  <2> QED BY <1>3, <1>4, <2>1 DEF Turned
<1>6. Swapped(r)
  <2> SUFFICES ASSUME NEW a \in Accounts
               PROVE  Spendable(a)' = IF a = AccountOf[r] THEN Spendable(a) - hold
                                                          ELSE Spendable(a)
    <3>1. ASSUME NEW a \in Accounts PROVE Spendable(a) \in Int
      <4>1. wallet[a].balance \in Int /\ wallet[a].held \in Nat /\ Frozen[a] \in Nat
        BY BillingAssumption, WalletRowFields DEF TypeOK
      <4> QED BY <4>1 DEF Spendable
    <3> QED BY <1>3, <1>4, <3>1 DEF Swapped
  <2>1. wallet[a] \in WalletRow /\ wallet[a].balance \in Int /\ wallet[a].held \in Nat
        /\ Frozen[a] \in Nat
    BY BillingAssumption, WalletRowFields DEF TypeOK
  <2>2. CASE a = AccountOf[r]
    <3>1. wallet'[a].balance = wallet[a].balance /\ wallet'[a].held = wallet[a].held + hold
      BY <1>1, <2>1, <2>2 DEF Hold, TypeOK, WalletRow
    <3> QED BY <2>1, <2>2, <3>1 DEF Spendable
  <2>3. CASE a # AccountOf[r]
    <3>1. wallet'[a] = wallet[a]
      BY <1>1, <2>3 DEF Hold, TypeOK
    <3> QED BY <2>3, <3>1, SameMoney
  <2> QED BY <2>2, <2>3
<1>7. ASSUME NEW g \in Grants
      PROVE  /\ FreeUnits(g)' = FreeUnits(g) - DealOf(r)'.part[g]
             /\ DealOf(r)'.part[g] > 0 => OwnerOf[g] = AccountOf[r]
  <2>1. grant[g] \in GrantRow /\ grant[g].consumed \in Nat /\ grant[g].reserved \in Nat
        /\ TotalUnits[g] \in Nat
    BY BillingAssumption, GrantRowFields DEF TypeOK
  <2>2. /\ grant'[g].consumed = grant[g].consumed
        /\ grant'[g].reserved = grant[g].reserved + part[g]
    BY <1>1, <2>1 DEF Hold, GrantRow
  <2>3. DealOf(r)'.part[g] = part[g] /\ part[g] \in Nat
    BY <1>4
  <2>4. part[g] > 0 => OwnerOf[g] = AccountOf[r]
    BY <1>1 DEF Eligible
  <2> QED BY <2>1, <2>2, <2>3, <2>4 DEF FreeUnits
<1>8. DealOf(r)'.paid = 0 /\ DealOf(r)'.owed = 0
  BY <1>4
<1> QED BY <1>5, <1>6, <1>7, <1>8, EscrowOpen

\* The deal of an open reservation, and what it holds of its payer.
LEMMA OpenDeal ==
  ASSUME TypeOK, HoldsBacked, NEW r \in Requests, RequestInv(r), IsReserved(r)
  PROVE  /\ charged[r] = 0 /\ recv[r].outstanding = 0
         /\ DealOf(r) = [phase |-> "open", hold |-> resv[r].hold, part |-> resv[r].alloc,
                         paid |-> 0, owed |-> 0]
         /\ resv[r].hold <= wallet[AccountOf[r]].held
         /\ \A g \in Grants : resv[r].alloc[g] <= grant[g].reserved
<1>1. charged[r] = 0 /\ recv[r].outstanding = 0
  BY RequestColumns DEF RequestInv, IsReserved
<1>2. DealOf(r) = [phase |-> "open", hold |-> resv[r].hold, part |-> resv[r].alloc,
                   paid |-> 0, owed |-> 0]
  BY <1>1 DEF DealOf
<1>3. AccountOf[r] \in Accounts
  BY BillingAssumption
<1>4. resv[r].hold <= wallet[AccountOf[r]].held
  BY <1>3, HoldsDominate DEF MoneyHeldBy
<1>5. \A g \in Grants : resv[r].alloc[g] <= grant[g].reserved
  BY HoldsDominate DEF UnitsHeldBy
<1> QED BY <1>1, <1>2, <1>4, <1>5

\* Settle closes it.  The holds are exact, so GREATEST(0, ...) hides nothing.
LEMMA SettleCloses ==
  ASSUME TypeOK, HoldsBacked, Solvent, Own, NEW r \in Requests, RequestInv(r),
         NEW actual \in Units, Settle(r, actual)
  PROVE  Escrowed!Close(r)
<1>1. PICK used \in [Grants -> Nat], due \in Nat, paid \in Nat :
        /\ paid <= due
        /\ paid = InitialPayment(r, due)
        /\ Finalize(r, actual, used, due, paid)
  BY SettleParts
<1>2. IsReserved(r)
  BY DEF Settle
<1> DEFINE a == AccountOf[r]
           hold == resv[r].hold
<1>3. /\ a \in Accounts /\ wallet[a] \in WalletRow /\ wallet[a].balance \in Int
      /\ wallet[a].held \in Nat /\ Frozen[a] \in Nat /\ hold \in Nat
      /\ hold <= wallet[a].held /\ wallet[a].held <= wallet[a].balance - Frozen[a]
  BY <1>2, EscrowColumns, OpenDeal DEF Solvent
<1>4. HeldByOthers(r) = wallet[a].held - hold
  BY <1>3 DEF HeldByOthers, NonNeg
<1>5. DealOf(r) = [phase |-> "open", hold |-> hold, part |-> resv[r].alloc,
                   paid |-> 0, owed |-> 0]
  BY <1>2, OpenDeal
<1>6. DealOf(r)' = [phase |-> "closed", hold |-> 0, part |-> NoAllocation,
                    paid |-> paid, owed |-> due - paid]
  <2>1. resv'[r].state \notin {"none", "reserved"}
    BY <1>1, EscrowColumns DEF Finalize, TypeOK, SettledState, Reservation
  <2>2. charged'[r] = paid
    <3>1. charged[r] = 0
      BY <1>2, OpenDeal
    <3>2. charged'[r] = charged[r] + paid
      BY <1>1 DEF Finalize, TypeOK
    <3> QED BY <3>1, <3>2
  <2>3. recv'[r].outstanding = due - paid
    BY <1>1 DEF Finalize, TypeOK
  <2> QED BY <2>1, <2>2, <2>3 DEF DealOf, IsReserved
<1>7. Turned(r, "open", "closed")
  <2>1. ASSUME NEW q \in Requests \ {r} PROVE DealOf(q)' = DealOf(q)
    <3>1. resv'[q] = resv[q] /\ charged'[q] = charged[q] /\ recv'[q] = recv[q]
      BY <1>1 DEF Finalize, TypeOK
    <3> QED BY <3>1, SameDeal
  <2> QED BY <1>5, <1>6, <2>1 DEF Turned
<1>8. Spendable(a)' = Spendable(a) + hold - paid
  <2>1. /\ wallet'[a].balance = wallet[a].balance - paid
        /\ wallet'[a].held = wallet[a].held - hold
    BY <1>1, <1>3, <1>4 DEF Finalize, TypeOK, WalletRow
  <2> QED BY <1>3, <2>1 DEF Spendable
<1>9. ASSUME NEW b \in Accounts, b # a PROVE Spendable(b)' = Spendable(b)
  <2>1. wallet'[b] = wallet[b]
    BY <1>1, <1>9 DEF Finalize, TypeOK
  <2> QED BY <2>1, SameMoney
<1>10. Swapped(r)
  <2>1. Spendable(a) \in Int
    BY <1>3 DEF Spendable
  <2>2. /\ DealOf(r).hold = hold /\ DealOf(r).paid = 0
        /\ DealOf(r)'.hold = 0 /\ DealOf(r)'.paid = paid
    BY <1>5, <1>6
  <2>3. Spendable(a)' = Spendable(a) + (DealOf(r).hold + DealOf(r).paid)
                        - (DealOf(r)'.hold + DealOf(r)'.paid)
    BY <1>3, <1>8, <2>1, <2>2
  <2> QED BY <1>9, <2>3 DEF Swapped
<1>11. due - paid > 0 => Spendable(a)' = 0
  <2>1. Spendable(a) + hold = wallet[a].balance - Frozen[a] - HeldByOthers(r)
    BY <1>3, <1>4 DEF Spendable
  <2>2. Spendable(a) \in Nat
    BY <1>3 DEF Spendable
  <2>3. due - paid > 0 => paid = Spendable(a) + hold
    BY <1>1, <1>3, <2>1, <2>2 DEF InitialPayment, Least, NonNeg
  <2> QED BY <1>3, <1>8, <2>2, <2>3
<1>12. ASSUME NEW g \in Grants
       PROVE  /\ FreeUnits(g)' <= FreeUnits(g) + DealOf(r).part[g]
              /\ OwnerOf[g] # AccountOf[r] => FreeUnits(g)' = FreeUnits(g)
  <2>1. grant[g] \in GrantRow /\ grant[g].consumed \in Nat /\ grant[g].reserved \in Nat
        /\ TotalUnits[g] \in Nat
    BY BillingAssumption, GrantRowFields DEF TypeOK
  <2>2. resv[r].alloc[g] \in Nat /\ resv[r].alloc[g] <= grant[g].reserved
        /\ DealOf(r).part[g] = resv[r].alloc[g]
    BY <1>2, <1>5, EscrowColumns, OpenDeal
  <2>3. CASE g \in SettleGrants(r)
    <3>1. HeldUnits(r, g) = resv[r].alloc[g]
      BY <2>1, <2>2 DEF HeldUnits, Least
    <3>2. /\ grant'[g].consumed = grant[g].consumed + used[g]
          /\ grant'[g].reserved = NonNeg(grant[g].reserved - HeldUnits(r, g))
      BY <1>1, <2>1, <2>3 DEF Finalize, GrantRow
    <3>3. grant'[g].reserved = grant[g].reserved - resv[r].alloc[g]
      BY <2>1, <2>2, <3>1, <3>2 DEF NonNeg
    <3>4. OwnerOf[g] = AccountOf[r]
      BY <2>3 DEF Own, SettleGrants, Touched
    <3>5. used[g] \in Nat
      OBVIOUS
    <3> QED BY <2>1, <2>2, <3>2, <3>3, <3>4, <3>5 DEF FreeUnits
  <2>4. CASE g \notin SettleGrants(r)
    <3>1. grant'[g] = grant[g]
      BY <1>1, <2>4 DEF Finalize
    <3> QED BY <2>1, <2>2, <3>1 DEF FreeUnits
  <2> QED BY <2>3, <2>4
<1>13. /\ DealOf(r)'.hold = 0 /\ DealOf(r)'.part = NoAllocation
       /\ DealOf(r)'.owed > 0 => Spendable(AccountOf[r])' = 0
  BY <1>6, <1>11
<1> QED BY <1>7, <1>10, <1>12, <1>13, EscrowClose

\* A release closes it too, with nothing paid and nothing used.
LEMMA ReleaseCloses ==
  ASSUME TypeOK, HoldsBacked, Own, NEW r \in Requests, RequestInv(r), IsReserved(r),
         Released(r), UNCHANGED <<recv, charged>>
  PROVE  Escrowed!Close(r)
<1> DEFINE a == AccountOf[r]
           hold == resv[r].hold
<1>1. /\ a \in Accounts /\ wallet[a] \in WalletRow /\ wallet[a].balance \in Int
      /\ wallet[a].held \in Nat /\ Frozen[a] \in Nat /\ hold \in Nat
      /\ hold <= wallet[a].held
  BY EscrowColumns, OpenDeal
<1>2. DealOf(r) = [phase |-> "open", hold |-> hold, part |-> resv[r].alloc,
                   paid |-> 0, owed |-> 0]
  BY OpenDeal
<1>3. DealOf(r)' = [phase |-> "closed", hold |-> 0, part |-> NoAllocation,
                    paid |-> 0, owed |-> 0]
  <2>1. resv'[r].state = "released"
    BY EscrowColumns DEF Released, TypeOK, Reservation
  <2>2. charged'[r] = 0 /\ recv'[r].outstanding = 0
    BY OpenDeal
  <2> QED BY <2>1, <2>2 DEF DealOf, IsReserved
<1>4. Turned(r, "open", "closed")
  <2>1. ASSUME NEW q \in Requests \ {r} PROVE DealOf(q)' = DealOf(q)
    <3>1. resv'[q] = resv[q]
      BY DEF Released, TypeOK
    <3> QED BY <3>1, SameDeal
  <2> QED BY <1>2, <1>3, <2>1 DEF Turned
<1>5. Spendable(a)' = Spendable(a) + hold
  <2>1. wallet'[a].balance = wallet[a].balance /\ wallet'[a].held = NonNeg(wallet[a].held - hold)
    BY <1>1 DEF Released, TypeOK, WalletRow
  <2>2. wallet'[a].held = wallet[a].held - hold
    BY <1>1, <2>1 DEF NonNeg
  <2> QED BY <1>1, <2>1, <2>2 DEF Spendable
<1>6. ASSUME NEW b \in Accounts, b # a PROVE Spendable(b)' = Spendable(b)
  <2>1. wallet'[b] = wallet[b]
    BY <1>6 DEF Released, TypeOK
  <2> QED BY <2>1, SameMoney
<1>7. Swapped(r)
  <2>1. Spendable(a) \in Int
    BY <1>1 DEF Spendable
  <2>2. /\ DealOf(r).hold = hold /\ DealOf(r).paid = 0
        /\ DealOf(r)'.hold = 0 /\ DealOf(r)'.paid = 0
    BY <1>2, <1>3
  <2>3. Spendable(a)' = Spendable(a) + (DealOf(r).hold + DealOf(r).paid)
                        - (DealOf(r)'.hold + DealOf(r)'.paid)
    BY <1>1, <1>5, <2>1, <2>2
  <2> QED BY <1>6, <2>3 DEF Swapped
<1>8. ASSUME NEW g \in Grants
      PROVE  /\ FreeUnits(g)' <= FreeUnits(g) + DealOf(r).part[g]
             /\ OwnerOf[g] # AccountOf[r] => FreeUnits(g)' = FreeUnits(g)
  <2>1. grant[g] \in GrantRow /\ grant[g].consumed \in Nat /\ grant[g].reserved \in Nat
        /\ TotalUnits[g] \in Nat
    BY BillingAssumption, GrantRowFields DEF TypeOK
  <2>2. resv[r].alloc[g] \in Nat /\ resv[r].alloc[g] <= grant[g].reserved
        /\ DealOf(r).part[g] = resv[r].alloc[g]
    BY <1>2, EscrowColumns, OpenDeal
  <2>3. /\ grant'[g].consumed = grant[g].consumed
        /\ grant'[g].reserved = NonNeg(grant[g].reserved - resv[r].alloc[g])
    BY <2>1 DEF Released, GrantRow
  <2>4. FreeUnits(g)' = FreeUnits(g) + resv[r].alloc[g]
    BY <2>1, <2>2, <2>3 DEF FreeUnits, NonNeg
  <2>5. OwnerOf[g] # AccountOf[r] => resv[r].alloc[g] = 0
    BY <2>2 DEF Own
  <2>6. FreeUnits(g) \in Int
    BY <2>1 DEF FreeUnits
  <2> QED BY <2>2, <2>4, <2>5, <2>6
<1>9. /\ DealOf(r)'.hold = 0 /\ DealOf(r)'.part = NoAllocation /\ DealOf(r)'.owed = 0
  BY <1>3
<1> QED BY <1>4, <1>7, <1>8, <1>9, EscrowClose

\* A debit takes its amount from what the payer can spend.
LEMMA Debited ==
  ASSUME TypeOK, NEW r \in Requests, NEW amount \in Nat,
         wallet' = [wallet EXCEPT ![AccountOf[r]].balance = @ - amount],
         NEW a \in Accounts
  PROVE  /\ Spendable(a) \in Int
         /\ Spendable(a)' = IF a = AccountOf[r] THEN Spendable(a) - amount ELSE Spendable(a)
<1>1. /\ wallet[a] \in WalletRow /\ wallet[a].balance \in Int /\ wallet[a].held \in Nat
      /\ Frozen[a] \in Nat
  BY BillingAssumption, WalletRowFields DEF TypeOK
<1>2. CASE a = AccountOf[r]
  <2>1. wallet'[a].balance = wallet[a].balance - amount /\ wallet'[a].held = wallet[a].held
    BY <1>1, <1>2 DEF TypeOK, WalletRow
  <2> QED BY <1>1, <1>2, <2>1 DEF Spendable
<1>3. CASE a # AccountOf[r]
  <2>1. wallet'[a] = wallet[a]
    BY <1>3 DEF TypeOK
  <2> QED BY <1>1, <1>3, <2>1 DEF Spendable
<1> QED BY <1>2, <1>3

\* RecoverPay collects: what a closed deal owes turns into what it has paid.
LEMMA RecoverCollects ==
  ASSUME TypeOK, NEW r \in Requests, RequestInv(r), RecoverPay(r)
  PROVE  Escrowed!Collect(r)
<1> DEFINE payment == Least(recv[r].outstanding, Spendable(AccountOf[r]))
           left == recv[r].outstanding - payment
<1>1. payment \in Nat /\ payment > 0 /\ payment <= recv[r].outstanding
  <2>1. Spendable(AccountOf[r]) \in Int
    BY EscrowColumns DEF Spendable
  <2>2. Spendable(AccountOf[r]) > 0 /\ recv[r].outstanding > 0
    BY DEF RecoverPay, RecoveryDue
  <2>3. recv[r].outstanding \in Nat
    BY RequestColumns
  <2> QED BY <2>1, <2>2, <2>3 DEF Least
<1>2. /\ wallet' = [wallet EXCEPT ![AccountOf[r]].balance = @ - payment]
      /\ charged'[r] = charged[r] + payment /\ recv'[r].outstanding = left
      /\ UNCHANGED grant
  BY DEF RecoverPay, TypeOK, Receivable
<1>3. resv[r].state \notin {"none", "reserved"} /\ resv'[r].state \notin {"none", "reserved"}
  <2>1. resv[r].state \notin {"none", "reserved"}
    BY DEF RequestInv, RecoverPay, RecoveryDue
  <2>2. resv'[r].state = "settled" \/ resv'[r].state = "partially_settled"
    BY EscrowColumns DEF RecoverPay, TypeOK, Reservation
  <2> QED BY <2>1, <2>2
<1>4. \A q \in Requests \ {r} : resv'[q] = resv[q] /\ charged'[q] = charged[q] /\ recv'[q] = recv[q]
  BY DEF RecoverPay, TypeOK
<1> HIDE DEF payment, left
<1>5. DealOf(r) = [phase |-> "closed", hold |-> 0, part |-> NoAllocation,
                   paid |-> charged[r], owed |-> recv[r].outstanding]
  BY <1>3 DEF DealOf, IsReserved
<1>6. DealOf(r)' = [phase |-> "closed", hold |-> 0, part |-> NoAllocation,
                    paid |-> charged[r] + payment, owed |-> left]
  BY <1>2, <1>3 DEF DealOf, IsReserved
<1>7. charged[r] \in Nat /\ recv[r].outstanding \in Nat
  BY RequestColumns
<1>8. Turned(r, "closed", "closed")
  BY <1>4, <1>5, <1>6, SameDeal DEF Turned
<1>9. Swapped(r)
  <2>1. /\ DealOf(r).hold = 0 /\ DealOf(r).paid = charged[r]
        /\ DealOf(r)'.hold = 0 /\ DealOf(r)'.paid = charged[r] + payment
    BY <1>5, <1>6
  <2>2. ASSUME NEW a \in Accounts
        PROVE  /\ Spendable(a) \in Int
               /\ Spendable(a)' = IF a = AccountOf[r] THEN Spendable(a) - payment
                                                      ELSE Spendable(a)
    BY <1>1, <1>2, Debited
  <2> QED BY <1>1, <1>7, <2>1, <2>2 DEF Swapped
<1>10. SameUnits
  BY <1>2, UnitsFrame
<1>11. /\ DealOf(r).paid = charged[r] /\ DealOf(r).owed = recv[r].outstanding
       /\ DealOf(r)'.paid = charged[r] + payment /\ DealOf(r)'.owed = left
  BY <1>5, <1>6
<1>12. /\ DealOf(r)'.paid > DealOf(r).paid
       /\ DealOf(r)'.paid + DealOf(r)'.owed = DealOf(r).paid + DealOf(r).owed
  BY <1>1, <1>7, <1>11 DEF left
<1>13. DealOf(r)'.hold = DealOf(r).hold /\ DealOf(r)'.part = DealOf(r).part
  BY <1>5, <1>6
<1> QED BY <1>8, <1>9, <1>10, <1>12, <1>13, EscrowCollect

\* A usage record without a reservation is a deal of its own when it costs something.
LEMMA DirectUsageCharges ==
  ASSUME TypeOK, NEW r \in Requests, RequestInv(r), NEW cost \in UsageCosts,
         NEW enabled \in BOOLEAN, WriteDirectUsage(r, cost, enabled)
  PROVE  Escrowed!Charge(r) \/ UNCHANGED Escrowed!vars
<1>1. resv[r].state = "none" /\ ~bill[r].present /\ UNCHANGED <<grant, resv, recv>>
  BY DEF WriteDirectUsage
<1>2. cost \in Nat
  BY BillingAssumption
<1>3. /\ charged[r] = 0 /\ recv[r].outstanding = 0
      /\ DealOf(r) = [phase |-> "none", hold |-> 0, part |-> NoAllocation, paid |-> 0, owed |-> 0]
  BY <1>1, NoDealYet
<1>4. SameUnits
  BY <1>1, UnitsFrame
<1>5. CASE enabled /\ cost > 0
  <2>1. /\ wallet' = [wallet EXCEPT ![AccountOf[r]].balance = @ - cost]
        /\ charged' = [charged EXCEPT ![r] = @ + cost]
    BY <1>5 DEF WriteDirectUsage
  <2>2. charged'[r] = cost /\ \A q \in Requests \ {r} : charged'[q] = charged[q]
    BY <1>2, <1>3, <2>1 DEF TypeOK
  <2>3. DealOf(r)' = [phase |-> "closed", hold |-> 0, part |-> NoAllocation,
                      paid |-> cost, owed |-> 0]
    BY <1>1, <1>2, <1>3, <1>5, <2>2 DEF DealOf, IsReserved
  <2>4. Turned(r, "none", "closed")
    BY <1>1, <1>3, <2>2, <2>3, SameDeal DEF Turned
  <2>5. Swapped(r)
    <3>1. /\ DealOf(r).hold = 0 /\ DealOf(r).paid = 0
          /\ DealOf(r)'.hold = 0 /\ DealOf(r)'.paid = cost
      BY <1>3, <2>3
    <3>2. ASSUME NEW a \in Accounts
          PROVE  /\ Spendable(a) \in Int
                 /\ Spendable(a)' = IF a = AccountOf[r] THEN Spendable(a) - cost
                                                        ELSE Spendable(a)
      BY <1>2, <2>1, Debited
    <3> QED BY <1>2, <3>1, <3>2 DEF Swapped
  <2> QED BY <1>4, <2>3, <2>4, <2>5, EscrowCharge
<1>6. CASE ~(enabled /\ cost > 0)
  <2>1. UNCHANGED <<wallet, charged>>
    BY <1>6 DEF WriteDirectUsage
  <2>2. \A q \in Requests : DealOf(q)' = DealOf(q)
    BY <1>1, <2>1, SameDeal
  <2>3. \A a \in Accounts : Spendable(a)' = Spendable(a)
    BY <2>1, SameMoney
  <2> QED BY <1>4, <2>2, <2>3, EscrowStutter
<1> QED BY <1>5, <1>6

\* A step that raises one balance is a deposit.
LEMMA BalanceDeposits ==
  ASSUME TypeOK, NEW a \in Accounts, NEW b \in Int, b >= wallet[a].balance,
         wallet' = [wallet EXCEPT ![a].balance = b], UNCHANGED <<grant, resv, recv, charged>>
  PROVE  Escrowed!Deposit(a)
<1>1. /\ wallet[a] \in WalletRow /\ wallet[a].balance \in Int /\ wallet[a].held \in Nat
      /\ Frozen[a] \in Nat
  BY BillingAssumption, WalletRowFields DEF TypeOK
<1>2. wallet'[a].balance = b /\ wallet'[a].held = wallet[a].held
  BY <1>1 DEF TypeOK, WalletRow
<1>3. Spendable(a)' >= Spendable(a)
  BY <1>1, <1>2 DEF Spendable
<1>4. \A c \in Accounts \ {a} : Spendable(c)' = Spendable(c)
  <2> SUFFICES ASSUME NEW c \in Accounts \ {a} PROVE wallet'[c] = wallet[c]
    BY SameMoney
  <2> QED BY DEF TypeOK
<1>5. \A q \in Requests : DealOf(q)' = DealOf(q)
  BY SameDeal
<1> QED BY <1>3, <1>4, <1>5, UnitsFrame, EscrowDeposit

LEMMA RechargeDeposits ==
  ASSUME TypeOK, NoLostCredit, RechargeStep
  PROVE  (\E a \in Accounts : Escrowed!Deposit(a)) \/ UNCHANGED Escrowed!vars
<1>1. ASSUME NEW k \in RechargeKeys, NEW a \in Accounts, RedeemWrite(k, a)
      PROVE  Escrowed!Deposit(a)
  <2>1. wallet[a].balance <= recharge[k].seen
    BY <1>1 DEF RedeemWrite, NoLostCredit
  <2>2. recharge[k].seen \in Int /\ KeyAmount[k] \in Nat /\ wallet[a].balance \in Int
    BY BillingAssumption, WalletRowFields DEF TypeOK, RechargeKey
  <2>3. /\ recharge[k].seen + KeyAmount[k] \in Int
        /\ recharge[k].seen + KeyAmount[k] >= wallet[a].balance
    BY <2>1, <2>2
  <2>4. /\ wallet' = [wallet EXCEPT ![a].balance = recharge[k].seen + KeyAmount[k]]
        /\ UNCHANGED <<grant, resv, recv, charged>>
    BY <1>1 DEF RedeemWrite
  <2> QED BY <2>3, <2>4, BalanceDeposits
<1>2. ASSUME NEW a \in Accounts, CreditTeam(a) PROVE Escrowed!Deposit(a)
  <2>1. wallet[a].balance \in Int /\ CreditAmount \in Nat
    BY BillingAssumption, WalletRowFields DEF TypeOK
  <2>2. /\ wallet[a].balance + CreditAmount \in Int
        /\ wallet[a].balance + CreditAmount >= wallet[a].balance
    BY <2>1
  <2>3. /\ wallet' = [wallet EXCEPT ![a].balance = wallet[a].balance + CreditAmount]
        /\ UNCHANGED <<grant, resv, recv, charged>>
    BY <1>2 DEF CreditTeam
  <2> QED BY <2>2, <2>3, BalanceDeposits
<1>3. ASSUME UNCHANGED <<grant, wallet, resv, recv, charged>> PROVE UNCHANGED Escrowed!vars
  BY <1>3, SameDeal, SameMoney, UnitsFrame, EscrowStutter
<1> QED BY <1>1, <1>2, <1>3 DEF RechargeStep, RedeemRead, RedeemRollback, RevokeKey

\* The status of a grant, and the next attempt of a recovery, are no concern of Escrow.
LEMMA GrantStatusStutters ==
  ASSUME TypeOK, GrantStep
  PROVE  UNCHANGED Escrowed!vars
<1>1. PICK h \in Grants, s \in {"active", "revoked", "lapsed"} :
        /\ grant' = [grant EXCEPT ![h].status = s]
        /\ UNCHANGED <<wallet, resv, recv, charged>>
  BY DEF GrantStep, CreateGrant, RevokeGrant, LapseGrant, SetGrantStatus
<1>2. ASSUME NEW g \in Grants PROVE FreeUnits(g)' = FreeUnits(g)
  <2>1. grant'[g].consumed = grant[g].consumed /\ grant'[g].reserved = grant[g].reserved
    BY <1>1 DEF TypeOK, GrantRow
  <2> QED BY <2>1 DEF FreeUnits
<1>3. SameUnits
  BY <1>2 DEF SameUnits
<1> QED BY <1>1, <1>3, SameDeal, SameMoney, EscrowStutter

LEMMA RetryStutters ==
  ASSUME TypeOK, NEW r \in Requests, RecoverDefer(r) \/ RetryDue(r)
  PROVE  UNCHANGED Escrowed!vars
<1>1. PICK b \in BOOLEAN : /\ recv' = [recv EXCEPT ![r].waiting = b]
                           /\ UNCHANGED <<grant, wallet, resv, charged>>
  BY DEF RecoverDefer, RetryDue
<1>2. \A q \in Requests : recv'[q].outstanding = recv[q].outstanding
  BY <1>1 DEF TypeOK, Receivable
<1> QED BY <1>1, <1>2, SameDeal, SameMoney, UnitsFrame, EscrowStutter

\* All that a step relies on to be one of Escrow's.
EscrowInv == TypeOK /\ GrantCapacity /\ RequestsInv /\ HoldsBacked /\ Solvent /\ Own

LEMMA EscrowNext ==
  EscrowInv /\ EscrowInv' /\ NoLostCredit /\ [Next]_vars
    => [Escrowed!Next]_(Escrowed!vars)
<1> SUFFICES ASSUME EscrowInv, EscrowInv', NoLostCredit, [Next]_vars
             PROVE  Escrowed!Next \/ UNCHANGED Escrowed!vars
  OBVIOUS
<1>0. /\ TypeOK /\ TypeOK' /\ GrantCapacity /\ GrantCapacity' /\ RequestsInv /\ HoldsBacked
      /\ Solvent /\ Solvent' /\ Own
  BY DEF EscrowInv
<1>1. Escrowed!Covered'
  BY <1>0, CoveredNext
<1>2. ASSUME NEW r \in Requests,
             Escrowed!Open(r) \/ Escrowed!Close(r) \/ Escrowed!Collect(r) \/ Escrowed!Charge(r)
      PROVE  Escrowed!Next
  BY <1>1, <1>2 DEF Escrowed!Next
<1>3. ASSUME UNCHANGED <<grant, wallet, resv, recv, charged>> PROVE UNCHANGED Escrowed!vars
  BY <1>3, SameDeal, SameMoney, UnitsFrame, EscrowStutter
<1>4. \A r \in Requests : RequestInv(r)
  BY <1>0 DEF RequestsInv
<1>5. CASE GrantStep
  BY <1>0, <1>5, GrantStatusStutters
<1>6. CASE RequestStep
  BY <1>0, <1>2, <1>3, <1>4, <1>6, ReserveOpens, SettleCloses DEF RequestStep, Expire
<1>7. CASE ReclaimStep
  <2>1. ASSUME NEW w \in Gateways, NEW r \in Requests, ReclaimRelease(w, r)
        PROVE  Escrowed!Close(r) \/ UNCHANGED Escrowed!vars
    <3>1. CASE IsReserved(r)
      <4>1. Released(r) /\ UNCHANGED <<recv, charged>>
        BY <2>1, <3>1 DEF ReclaimRelease
      <4> QED BY <1>0, <1>4, <3>1, <4>1, ReleaseCloses
    <3>2. CASE ~IsReserved(r)
      BY <1>3, <2>1, <3>2 DEF ReclaimRelease
    <3> QED BY <3>1, <3>2
  <2> QED BY <1>2, <1>3, <1>7, <2>1 DEF ReclaimStep, ReclaimScan, ReclaimAbort
<1>8. CASE RecoveryStep
  BY <1>0, <1>2, <1>4, <1>8, RecoverCollects, RetryStutters DEF RecoveryStep
<1>9. CASE UsageStep
  BY <1>0, <1>2, <1>3, <1>4, <1>9, DirectUsageCharges DEF UsageStep, WriteReservedUsage
<1>10. CASE RechargeStep
  BY <1>0, <1>1, <1>10, RechargeDeposits DEF Escrowed!Next
<1>11. CASE UNCHANGED vars
  BY <1>3, <1>11 DEF vars
<1> QED BY <1>5, <1>6, <1>7, <1>8, <1>9, <1>10, <1>11 DEF Next

LEMMA EscrowInit == Init => Escrowed!Init
<1> SUFFICES ASSUME Init PROVE Escrowed!Init
  OBVIOUS
<1>1. Escrowed!Covered
  <2>1. GrantCapacity /\ Solvent
    BY BillingAssumption DEF Init, GrantCapacity, Solvent
  <2> QED BY <2>1, TypeInit, EscrowCovered
<1>2. ASSUME NEW r \in Requests PROVE DealOf(r) = Escrowed!NoDeal
  BY DEF Init, DealOf, IsReserved, NoReservation, NoReceivable, NoAllocation,
         Escrowed!NoDeal, Escrowed!Nothing
<1> QED BY <1>1, <1>2 DEF Escrowed!Init

\* Whatever reserves, settles, reclaims, recovers, records and recharges at the same
\* time, token billing moves money and units only as Escrow allows, provided no
\* redemption of a recharge key overwrites a credit that arrived meanwhile.
THEOREM EscrowImplemented == Spec /\ []NoLostCredit => EscrowHolds
<1>1. Spec => []Own
  BY OwnInit, OwnNext, TypeCorrect, PTL DEF Spec
<1>2. Spec /\ []NoLostCredit => []EscrowInv
  BY <1>1, TypeCorrect, CapacityHolds, RequestsHold, HoldsBackedHolds, SolventHolds, PTL
     DEF EscrowInv
<1> QED BY <1>2, EscrowInit, EscrowNext, PTL DEF Spec, EscrowHolds, Escrowed!Spec

-----------------------------------------------------------------------------
(* The ledger of a wallet *)

\* What each recharge key brought account a, and what each request cost it.
RedeemedTo(a) ==
  [k \in RechargeKeys |->
     IF recharge[k].state = "used" /\ recharge[k].account = {a} THEN KeyAmount[k] ELSE 0]
ChargedTo(a) == [r \in Requests |-> IF AccountOf[r] = a THEN charged[r] ELSE 0]

\* LedgerBalanced for one account.
Ledger(a) ==
  wallet[a].balance = InitialBalance[a] + credited[a] + SumFunction(RedeemedTo(a))
                      - SumFunction(ChargedTo(a))

LEMMA LedgerBalancedParts == LedgerBalanced <=> \A a \in Accounts : Ledger(a)
BY DEF LedgerBalanced, Ledger, RedeemedTo, ChargedTo

LEMMA LedgerTypes ==
  ASSUME TypeOK, NEW a \in Accounts
  PROVE  /\ IsFiniteSet(Requests) /\ IsFiniteSet(RechargeKeys)
         /\ RedeemedTo(a) \in [RechargeKeys -> Int] /\ ChargedTo(a) \in [Requests -> Int]
         /\ SumFunction(RedeemedTo(a)) \in Int /\ SumFunction(ChargedTo(a)) \in Int
         /\ wallet[a].balance \in Int /\ credited[a] \in Nat /\ InitialBalance[a] \in Nat
<1>1. IsFiniteSet(Requests) /\ IsFiniteSet(RechargeKeys)
  BY BillingAssumption
<1>2. \A k \in RechargeKeys : KeyAmount[k] \in Nat
  BY BillingAssumption
<1>3. \A r \in Requests : charged[r] \in Nat
  BY DEF TypeOK
<1>4. RedeemedTo(a) \in [RechargeKeys -> Int] /\ ChargedTo(a) \in [Requests -> Int]
  BY <1>2, <1>3 DEF RedeemedTo, ChargedTo
<1>5. SumFunction(RedeemedTo(a)) \in Int /\ SumFunction(ChargedTo(a)) \in Int
  BY <1>1, <1>4, SumInt
<1>6. wallet[a].balance \in Int /\ credited[a] \in Nat /\ InitialBalance[a] \in Nat
  BY BillingAssumption, WalletRowFields DEF TypeOK
<1> QED BY <1>1, <1>4, <1>5, <1>6

\* A step that leaves the four things the ledger of a reads alone.
LEMMA LedgerFrame ==
  ASSUME NEW a \in Accounts, Ledger(a), wallet'[a].balance = wallet[a].balance,
         UNCHANGED <<charged, credited>>, RedeemedTo(a)' = RedeemedTo(a)
  PROVE  Ledger(a)'
<1>1. ChargedTo(a)' = ChargedTo(a)
  BY DEF ChargedTo
<1> QED BY <1>1 DEF Ledger

\* A debit that is booked on the request it was made for.
LEMMA LedgerDebit ==
  ASSUME TypeOK, NEW a \in Accounts, Ledger(a), NEW r \in Requests, NEW amount \in Nat,
         wallet'[a].balance = wallet[a].balance - (IF AccountOf[r] = a THEN amount ELSE 0),
         charged' = [charged EXCEPT ![r] = @ + amount],
         UNCHANGED <<credited, recharge>>
  PROVE  Ledger(a)'
<1> DEFINE before == ChargedTo(a)
           after == ChargedTo(a)'
           debit == IF AccountOf[r] = a THEN amount ELSE 0
<1>1. RedeemedTo(a)' = RedeemedTo(a)
  BY DEF RedeemedTo
<1>2. \A q \in Requests : charged[q] \in Nat /\ charged'[q] \in Nat
  BY DEF TypeOK
<1>3. before \in [Requests -> Int] /\ after \in [Requests -> Int]
  BY <1>2 DEF ChargedTo
<1>4. \A q \in Requests : q # r => before[q] = after[q]
  BY DEF ChargedTo, TypeOK
<1>5. after[r] = before[r] + debit
  BY <1>2 DEF ChargedTo, TypeOK
<1>6. before[r] \in Int /\ debit \in Int
  BY <1>3
<1>7. wallet'[a].balance = wallet[a].balance - debit
  OBVIOUS
<1> HIDE DEF debit
<1>8. SumFunction(after) = SumFunction(before) + debit
  <2> HIDE DEF before, after
  <2>1. SumFunction(after) = SumFunction(before) + after[r] - before[r]
    BY <1>3, <1>4, LedgerTypes, SumChanged
  <2>2. SumFunction(before) \in Int
    BY <1>3, LedgerTypes, SumInt
  <2> QED BY <1>5, <1>6, <2>1, <2>2
<1>9. /\ wallet'[a].balance = InitialBalance[a] + credited'[a] + SumFunction(RedeemedTo(a)')
                              - SumFunction(after)
  BY <1>1, <1>6, <1>7, <1>8, LedgerTypes DEF Ledger
<1> QED BY <1>9 DEF Ledger

\* A redemption that writes the balance it read, which is still the balance.
LEMMA LedgerRedeem ==
  ASSUME TypeOK, NothingMissed, NEW a \in Accounts, Ledger(a),
         NEW k \in RechargeKeys, NEW b \in Accounts, RedeemWrite(k, b)
  PROVE  Ledger(a)'
<1> DEFINE before == RedeemedTo(a)
           after == RedeemedTo(a)'
           gain == IF b = a THEN KeyAmount[k] ELSE 0
<1>1. ChargedTo(a)' = ChargedTo(a) /\ credited' = credited
  BY DEF ChargedTo, RedeemWrite
<1>2. recharge[k].state = "redeeming" /\ recharge[k].account = {b}
  BY DEF RedeemWrite
<1>3. recharge'[k].state = "used" /\ recharge'[k].account = {b}
  BY <1>2 DEF RedeemWrite, TypeOK, RechargeKey
<1>4. \A j \in RechargeKeys : j # k => recharge'[j] = recharge[j]
  BY DEF RedeemWrite, TypeOK
<1>5. \A j \in RechargeKeys : KeyAmount[j] \in Nat
  BY BillingAssumption
<1>6. before \in [RechargeKeys -> Int] /\ after \in [RechargeKeys -> Int]
  BY <1>5 DEF RedeemedTo
<1>7. \A j \in RechargeKeys : j # k => before[j] = after[j]
  BY <1>4 DEF RedeemedTo
<1>8. before[k] = 0 /\ after[k] = gain
  BY <1>2, <1>3 DEF RedeemedTo
<1>9. gain \in Int
  BY <1>5
<1>10. wallet'[a].balance = wallet[a].balance + gain
  <2>1. CASE a = b
    <3>1. wallet'[a].balance = recharge[k].seen + KeyAmount[k]
      BY <2>1 DEF RedeemWrite, TypeOK, WalletRow
    <3>2. recharge[k].seen = wallet[a].balance
      BY <1>2, <2>1 DEF NothingMissed
    <3> QED BY <2>1, <3>1, <3>2
  <2>2. CASE a # b
    BY <2>2, LedgerTypes DEF RedeemWrite, TypeOK
  <2> QED BY <2>1, <2>2
<1> HIDE DEF gain
<1>11. SumFunction(after) = SumFunction(before) + gain
  <2> HIDE DEF before, after
  <2>1. SumFunction(after) = SumFunction(before) + after[k] - before[k]
    BY <1>6, <1>7, LedgerTypes, SumChanged
  <2>2. SumFunction(before) \in Int
    BY <1>6, LedgerTypes, SumInt
  <2> QED BY <1>8, <1>9, <2>1, <2>2
<1>12. wallet'[a].balance = InitialBalance[a] + credited'[a] + SumFunction(after)
                            - SumFunction(ChargedTo(a)')
  BY <1>1, <1>9, <1>10, <1>11, LedgerTypes DEF Ledger
<1> QED BY <1>12 DEF Ledger

LEMMA LedgerCredit ==
  ASSUME TypeOK, NEW a \in Accounts, Ledger(a), NEW b \in Accounts, CreditTeam(b)
  PROVE  Ledger(a)'
<1>1. ChargedTo(a)' = ChargedTo(a) /\ RedeemedTo(a)' = RedeemedTo(a)
  BY DEF ChargedTo, RedeemedTo, CreditTeam
<1>2. CreditAmount \in Nat
  BY BillingAssumption
<1>3. CASE a = b
  <2>1. /\ wallet'[a].balance = wallet[a].balance + CreditAmount
        /\ credited'[a] = credited[a] + CreditAmount
    BY <1>3 DEF CreditTeam, TypeOK, WalletRow
  <2> QED BY <1>1, <1>2, <2>1, LedgerTypes DEF Ledger
<1>4. CASE a # b
  <2>1. wallet'[a] = wallet[a] /\ credited'[a] = credited[a]
    BY <1>4 DEF CreditTeam, TypeOK
  <2> QED BY <1>1, <2>1 DEF Ledger
<1> QED BY <1>3, <1>4

\* A redemption that begins or is given up, and a key that is revoked: the key
\* brought nothing before and brings nothing after.
LEMMA LedgerKey ==
  ASSUME TypeOK, NEW a \in Accounts, Ledger(a), NEW k \in RechargeKeys,
         RedeemRollback(k) \/ RevokeKey(k) \/ \E b \in Accounts : RedeemRead(k, b)
  PROVE  Ledger(a)'
<1>1. recharge[k].state # "used" /\ recharge'[k].state # "used"
  BY DEF RedeemRollback, RevokeKey, RedeemRead, TypeOK, RechargeKey
<1>2. \A j \in RechargeKeys : j # k => recharge'[j] = recharge[j]
  BY DEF RedeemRollback, RevokeKey, RedeemRead, TypeOK
<1>3. RedeemedTo(a)' = RedeemedTo(a)
  BY <1>1, <1>2 DEF RedeemedTo
<1>4. UNCHANGED <<wallet, charged, credited>>
  BY DEF RedeemRollback, RevokeKey, RedeemRead
<1> QED BY <1>3, <1>4, LedgerFrame

LEMMA LedgerNext ==
  TypeOK /\ NothingMissed /\ LedgerBalanced /\ [Next]_vars => LedgerBalanced'
<1> SUFFICES ASSUME TypeOK, NothingMissed, [Next]_vars, NEW a \in Accounts, Ledger(a)
             PROVE  Ledger(a)'
  BY DEF LedgerBalanced, Ledger, RedeemedTo, ChargedTo
<1>1. wallet[a] \in WalletRow /\ wallet[a].balance \in Int
  BY LedgerTypes DEF TypeOK
<1>2. ASSUME wallet'[a].balance = wallet[a].balance, UNCHANGED <<charged, credited, recharge>>
      PROVE  Ledger(a)'
  BY <1>2, LedgerFrame DEF RedeemedTo
<1>3. CASE GrantStep
  BY <1>2, <1>3 DEF GrantStep, CreateGrant, RevokeGrant, LapseGrant, SetGrantStatus
<1>4. ASSUME NEW r \in Requests, NEW mode \in PaymentModes, NEW wanted \in Units,
             Reserve(r, mode, wanted)
      PROVE  Ledger(a)'
  <2>1. PICK part \in [Grants -> Nat], hold \in Nat : Hold(r, mode, part, hold)
    BY <1>4, ReserveParts
  <2>2. wallet'[a].balance = wallet[a].balance
    BY <1>1, <2>1 DEF Hold, TypeOK, WalletRow
  <2> QED BY <1>2, <1>4, <2>2 DEF Reserve
<1>5. ASSUME NEW r \in Requests, NEW actual \in Units, Settle(r, actual)
      PROVE  Ledger(a)'
  <2>1. PICK used \in [Grants -> Nat], due \in Nat, paid \in Nat :
          Finalize(r, actual, used, due, paid)
    BY <1>5, SettleParts
  <2>2. wallet'[a].balance = wallet[a].balance - (IF AccountOf[r] = a THEN paid ELSE 0)
    <3>1. wallet' = [wallet EXCEPT ![AccountOf[r]] =
                       [balance |-> @.balance - paid, held |-> HeldByOthers(r)]]
      BY <2>1 DEF Finalize
    <3>2. CASE AccountOf[r] = a
      BY <1>1, <3>1, <3>2 DEF TypeOK
    <3>3. CASE AccountOf[r] # a
      BY <1>1, <3>1, <3>3 DEF TypeOK
    <3> QED BY <3>2, <3>3
  <2> QED BY <1>5, <2>1, <2>2, LedgerDebit DEF Finalize, Settle
<1>6. CASE RequestStep
  BY <1>2, <1>4, <1>5, <1>6 DEF RequestStep, Expire
<1>7. ASSUME NEW r \in Requests, Released(r) PROVE wallet'[a].balance = wallet[a].balance
  BY <1>1, <1>7 DEF Released, TypeOK, WalletRow
<1>8. CASE ReclaimStep
  BY <1>2, <1>7, <1>8 DEF ReclaimStep, ReclaimScan, ReclaimAbort, ReclaimRelease
<1>9. ASSUME NEW r \in Requests, RecoverPay(r) PROVE Ledger(a)'
  <2> DEFINE payment == Least(recv[r].outstanding, Spendable(AccountOf[r]))
  <2>1. payment \in Nat
    <3>1. /\ AccountOf[r] \in Accounts /\ wallet[AccountOf[r]] \in WalletRow
          /\ Frozen[AccountOf[r]] \in Nat
      BY BillingAssumption DEF TypeOK
    <3>2. Spendable(AccountOf[r]) \in Nat
      BY <1>9, <3>1, WalletRowFields DEF RecoverPay, Spendable
    <3> QED BY <3>2, RequestColumns, LeastNat
  <2>2. /\ wallet' = [wallet EXCEPT ![AccountOf[r]].balance = @ - payment]
        /\ charged' = [charged EXCEPT ![r] = @ + payment]
        /\ UNCHANGED <<credited, recharge>>
    BY <1>9 DEF RecoverPay
  <2> HIDE DEF payment
  <2>3. wallet'[a].balance = wallet[a].balance - (IF AccountOf[r] = a THEN payment ELSE 0)
    BY <1>1, <2>1, <2>2 DEF TypeOK, WalletRow
  <2> QED BY <2>1, <2>2, <2>3, LedgerDebit
<1>10. CASE RecoveryStep
  BY <1>2, <1>9, <1>10 DEF RecoveryStep, RecoverDefer, RetryDue
<1>11. ASSUME NEW r \in Requests, NEW cost \in UsageCosts, NEW enabled \in BOOLEAN,
              WriteDirectUsage(r, cost, enabled)
       PROVE  Ledger(a)'
  <2>1. CASE enabled /\ cost > 0
    <3>1. cost \in Nat
      BY BillingAssumption
    <3>2. /\ wallet' = [wallet EXCEPT ![AccountOf[r]].balance = @ - cost]
          /\ charged' = [charged EXCEPT ![r] = @ + cost]
          /\ UNCHANGED <<credited, recharge>>
      BY <1>11, <2>1 DEF WriteDirectUsage
    <3>3. wallet'[a].balance = wallet[a].balance - (IF AccountOf[r] = a THEN cost ELSE 0)
      BY <1>1, <3>1, <3>2 DEF TypeOK, WalletRow
    <3> QED BY <3>1, <3>2, <3>3, LedgerDebit
  <2>2. CASE ~(enabled /\ cost > 0)
    BY <1>2, <1>11, <2>2 DEF WriteDirectUsage
  <2> QED BY <2>1, <2>2
<1>12. CASE UsageStep
  BY <1>2, <1>11, <1>12 DEF UsageStep, WriteReservedUsage
<1>13. CASE RechargeStep
  BY <1>13, LedgerRedeem, LedgerCredit, LedgerKey DEF RechargeStep
<1>14. CASE UNCHANGED vars
  BY <1>2, <1>14 DEF vars
<1> QED BY <1>3, <1>6, <1>8, <1>10, <1>12, <1>13, <1>14 DEF Next

LEMMA LedgerInit == Init => LedgerBalanced
<1> SUFFICES ASSUME Init, NEW a \in Accounts PROVE Ledger(a)
  BY LedgerBalancedParts
<1>1. TypeOK
  BY TypeInit
<1>2. \A k \in RechargeKeys : RedeemedTo(a)[k] = 0
  BY DEF Init, RedeemedTo
<1>3. \A r \in Requests : ChargedTo(a)[r] = 0
  BY DEF Init, ChargedTo
<1>4. SumFunction(RedeemedTo(a)) = 0
  BY <1>1, <1>2, LedgerTypes, SumZero
<1>5. SumFunction(ChargedTo(a)) = 0
  BY <1>1, <1>3, LedgerTypes, SumZero
<1>6. wallet[a].balance = InitialBalance[a] /\ credited[a] = 0 /\ InitialBalance[a] \in Nat
  BY BillingAssumption DEF Init
<1> QED BY <1>4, <1>5, <1>6 DEF Ledger

\* The balance of every wallet is what its transactions and credits say, provided
\* no debit or credit falls between the read and the write of a redemption: that
\* race is the only way in which the books can come apart.
THEOREM LedgerBalancedHolds == Spec /\ []NothingMissed => []LedgerBalanced
BY LedgerInit, LedgerNext, TypeCorrect, PTL DEF Spec

=============================================================================
