---------------------------- MODULE EscrowProofs ----------------------------
(***************************************************************************)
(* Proofs about the economical side of the liability pallet, for any       *)
(* accounts, terms, prices, balances and number of liabilities: reserves   *)
(* are the sums of open prices, finalizing pays the whole price, the       *)
(* pallet implements the escrow, and no currency is created.               *)
(***************************************************************************)
EXTENDS LiabilityProofs

\* A leaf is for Zenon unless it names another prover.
USE ZenonT(60)

-----------------------------------------------------------------------------
\* The reserves.

\* The units a liability at an index locks.
Units(i, n) == {i} \X (1 .. n)

\* There are as many of them as its price says.
LEMMA UnitsCount ==
    ASSUME NEW i, NEW n \in Nat
    PROVE  IsFiniteSet(Units(i, n)) /\ Cardinality(Units(i, n)) = n
<1> DEFINE S == {i}
<1> DEFINE T == 1 .. n
<1>1. IsFiniteSet(S) /\ Cardinality(S) = 1
  BY FS_Singleton
<1>2. IsFiniteSet(T) /\ Cardinality(T) = n
  BY SMTT(60), FS_Interval
<1>3. Units(i, n) = S \X T
  BY DEF Units
<1> HIDE DEF S, T
<1>4. IsFiniteSet(S \X T) /\ Cardinality(S \X T) = Cardinality(S) * Cardinality(T)
  BY <1>1, <1>2, FS_Product
<1> QED  BY SMTT(60), <1>1, <1>2, <1>3, <1>4

\* Disjoint finite sets add up.
LEMMA DisjointUnion ==
    ASSUME NEW S, NEW T, IsFiniteSet(S), IsFiniteSet(T), S \cap T = {}
    PROVE  /\ IsFiniteSet(S \cup T)
           /\ Cardinality(S \cup T) = Cardinality(S) + Cardinality(T)
           /\ Cardinality(S) \in Nat /\ Cardinality(T) \in Nat
<1>1. Cardinality(S) \in Nat /\ Cardinality(T) \in Nat /\ Cardinality(S \cap T) = 0
  BY FS_CardinalityType, FS_EmptySet
<1>2. /\ IsFiniteSet(S \cup T)
      /\ Cardinality(S \cup T) = Cardinality(S) + Cardinality(T) - Cardinality(S \cap T)
  BY FS_Union
<1> QED  BY SMTT(60), <1>1, <1>2

\* The sum of the prices of an account's open liabilities is finite, and it is
\* what the account has reserved.
Backed ==
    \A a \in Accounts : /\ IsFiniteSet(LockedUnits(a))
                        /\ bal[a].reserved = Cardinality(LockedUnits(a))

\* The price of a liability is a natural number.
LEMMA PriceType ==
    ASSUME NEW l \in Liabilities
    PROVE  Price(l) \in Nat
BY EconomicsAssumption DEF Price, Liabilities

\* An open liability's price is covered by what its promisee has reserved.
LEMMA OpenIsCovered ==
    ASSUME TypeOK, Backed, NEW a \in Accounts, NEW i \in OpenOf(a)
    PROVE  bal[a].reserved >= Price(liabilityOf[i])
<1>1. liabilityOf[i] \in Liabilities
  BY DEF OpenOf, Exist, TypeOK
<1> DEFINE n == Price(liabilityOf[i])
<1>2. n \in Nat
  BY <1>1, PriceType
<1>3. Units(i, n) \in SUBSET LockedUnits(a)
  BY DEF LockedUnits, Units
<1> HIDE DEF n
<1>4. Cardinality(Units(i, n)) <= Cardinality(LockedUnits(a))
  BY <1>3, FS_Subset DEF Backed
<1>5. Cardinality(LockedUnits(a)) \in Nat
  BY FS_CardinalityType DEF Backed
<1> QED  BY <1>2, <1>4, <1>5, UnitsCount DEF Backed, n

\* If prices cover the existential deposit, so does the sum of the prices of
\* any open liabilities of an account: the dust rule never takes a reserve.
LEMMA SumCoversDeposit ==
    ASSUME PricesCoverDeposit, TypeOK, NEW a \in Accounts, NEW S \in SUBSET OpenOf(a),
           NEW U, U = UNION {Units(i, Price(liabilityOf[i])) : i \in S}, IsFiniteSet(U)
    PROVE  Cardinality(U) = 0 \/ Cardinality(U) >= ExistentialDeposit
<1> SUFFICES ASSUME Cardinality(U) # 0
             PROVE  Cardinality(U) >= ExistentialDeposit
  OBVIOUS
<1>1. U # {}
  BY FS_EmptySet
<1>2. PICK i \in S : Units(i, Price(liabilityOf[i])) # {}
  BY <1>1
<1> DEFINE n == Price(liabilityOf[i])
<1>3. liabilityOf[i] \in Liabilities
  BY DEF OpenOf, Exist, TypeOK
<1>4. n \in Nat /\ n # 0
  BY SMTT(60), <1>2, <1>3, PriceType DEF Units
<1>5. n >= ExistentialDeposit
  BY <1>3, <1>4 DEF Price, PricesCoverDeposit, Liabilities
<1>6. Units(i, n) \in SUBSET U
  OBVIOUS
<1> HIDE DEF n
<1>7. Cardinality(Units(i, n)) <= Cardinality(U) /\ Cardinality(U) \in Nat
  BY <1>6, FS_Subset, FS_CardinalityType
<1> QED  BY SMTT(60), <1>4, <1>5, <1>7, UnitsCount, DepositAssumption

\* Nothing is locked and nothing is reserved at genesis.
LEMMA BackedInit == Init => Backed
<1> SUFFICES ASSUME Init, NEW a \in Accounts
             PROVE  IsFiniteSet(LockedUnits(a)) /\ bal[a].reserved = Cardinality(LockedUnits(a))
  BY DEF Backed
<1>1. LockedUnits(a) = {}
  BY DEF Init, LockedUnits, OpenOf, Exist
<1>2. bal[a].reserved = 0
  BY LiabilityAssumption DEF Init
<1> QED  BY <1>1, <1>2, FS_EmptySet

\* reserve moves the value from free to reserved.
LEMMA ReserveMoves ==
    ASSUME NEW b \in Balances, NEW who \in Accounts, NEW v \in Nat,
           reserve(b, who, v).ok, NEW a \in Accounts
    PROVE  reserve(b, who, v).bal[a].reserved =
               IF a = who THEN b[a].reserved + v ELSE b[a].reserved
BY DEF reserve, Balances

\* repatriate_reserved moves a value that is reserved from the one account to
\* the other, unless the dust rule would take the rest of the reserve.
LEMMA RepatriateMoves ==
    ASSUME NEW b \in Balances, NEW p \in Accounts, NEW q \in Accounts, NEW v \in Nat,
           repatriate_reserved(b, p, q, v).ok, b[p].reserved >= v,
           b[p].reserved - v = 0 \/ b[p].reserved - v >= ExistentialDeposit
    PROVE  /\ \A a \in Accounts : repatriate_reserved(b, p, q, v).bal[a].reserved =
                  IF a = p THEN b[a].reserved - v ELSE b[a].reserved
           /\ repatriate_reserved(b, p, q, v).bal[q].free = b[q].free + v
<1>1. Lesser(b[p].reserved, v) = v
  BY SMTT(60) DEF Lesser, Balances
<1>2. CASE v = 0
  BY SMTT(60), <1>2 DEF repatriate_reserved, Balances
<1>3. CASE v # 0 /\ p = q
  BY <1>1, <1>3 DEF repatriate_reserved, unreserve, Balances
<1>4. CASE v # 0 /\ p # q
  <2> DEFINE payer == Reap([free |-> b[p].free, reserved |-> b[p].reserved - v])
  <2> DEFINE payee == [free |-> b[q].free + v, reserved |-> b[q].reserved]
  <2>1. payer.reserved = b[p].reserved - v
    BY SMTT(60), DepositAssumption DEF Reap, Exists, Total, Balances
  <2>2. repatriate_reserved(b, p, q, v).bal = [b EXCEPT ![p] = payer, ![q] = payee]
    BY <1>1, <1>4 DEF repatriate_reserved
  <2> HIDE DEF payer
  <2> QED  BY SMTT(60), <1>4, <2>1, <2>2 DEF Balances
<1> QED  BY <1>2, <1>3, <1>4

\* on_start adds the price to what the promisee has reserved.
LEMMA OnStartReserves ==
    ASSUME NEW b \in Balances, NEW l \in Liabilities, on_start(b, l).ok, NEW a \in Accounts
    PROVE  on_start(b, l).bal[a].reserved =
               IF a = l.promisee THEN b[a].reserved + Price(l) ELSE b[a].reserved
<1>1. l.promisee \in Accounts /\ l.economics \in Nat
  BY EconomicsAssumption DEF Liabilities
<1>2. CASE OpenMarket
  BY SMTT(60), <1>1, <1>2, ReserveMoves DEF on_start, Price
<1>3. CASE ~OpenMarket
  BY SMTT(60), <1>3 DEF on_start, Price, Balances
<1> QED  BY <1>2, <1>3

\* on_finish moves a covered price from the promisee's reserve to the promisor's
\* free funds, unless the dust rule would take the rest of the reserve.
LEMMA OnFinishReserves ==
    ASSUME NEW b \in Balances, NEW l \in Liabilities, on_finish(b, l, TRUE).ok,
           b[l.promisee].reserved >= Price(l),
           \/ b[l.promisee].reserved - Price(l) = 0
           \/ b[l.promisee].reserved - Price(l) >= ExistentialDeposit
    PROVE  /\ \A a \in Accounts : on_finish(b, l, TRUE).bal[a].reserved =
                  IF a = l.promisee THEN b[a].reserved - Price(l) ELSE b[a].reserved
           /\ on_finish(b, l, TRUE).bal[l.promisor].free = b[l.promisor].free + Price(l)
<1>1. l.promisee \in Accounts /\ l.promisor \in Accounts /\ l.economics \in Nat
  BY EconomicsAssumption DEF Liabilities
<1>2. CASE OpenMarket
  BY SMTT(60), <1>1, <1>2, RepatriateMoves DEF on_finish, Price
<1>3. CASE ~OpenMarket
  BY SMTT(60), <1>1, <1>3 DEF on_finish, Price, Balances
<1> QED  BY <1>2, <1>3

\* A plain transfer leaves every reserve alone, unless the dust rule would take
\* the sender's.
LEMMA TransferReserves ==
    ASSUME NEW b \in Balances, NEW p \in Accounts, NEW q \in Accounts, NEW v \in Nat,
           CanTransfer(b, p, q, v),
           b[p].reserved = 0 \/ b[p].reserved >= ExistentialDeposit,
           NEW a \in Accounts
    PROVE  transfer(b, p, q, v)[a].reserved = b[a].reserved
BY SMTT(60), DepositAssumption DEF CanTransfer, transfer, Reap, Exists, Total, Balances

\* A created liability locks its price, next to what its promisee had locked.
LEMMA CreatedLocks ==
    ASSUME TypeOK, Slots, latestIndex < MaxIndex, NEW l \in Terms, Created(l),
           NEW a \in Accounts
    PROVE  LET fresh == Units(latestIndex, Price(l))
           IN  /\ LockedUnits(a)' = IF a = l.promisee THEN LockedUnits(a) \cup fresh
                                                      ELSE LockedUnits(a)
               /\ LockedUnits(a) \cap fresh = {}
<1>1. latestIndex \in Indices /\ ~Exist(latestIndex) /\ ~isFinalized[latestIndex]
  BY SMTT(60), LiabilityAssumption DEF Slots, TypeOK, Indices
<1>2. latestIndex \notin OpenOf(a)
  BY <1>1 DEF OpenOf
<1>3. l # NoBytes
  BY LiabilityAssumption
<1>4. liabilityOf' = [liabilityOf EXCEPT ![latestIndex] = l] /\ isFinalized' = isFinalized
  BY DEF Created
<1>5. liabilityOf'[latestIndex] = l
  BY <1>1, <1>4 DEF TypeOK
<1>6. \A i \in Indices \ {latestIndex} : liabilityOf'[i] = liabilityOf[i]
  BY <1>4 DEF TypeOK
<1>7. OpenOf(a)' = IF a = l.promisee THEN OpenOf(a) \cup {latestIndex} ELSE OpenOf(a)
  BY <1>1, <1>3, <1>4, <1>5, <1>6 DEF OpenOf, Exist
<1>8. OpenOf(a) \subseteq Indices \ {latestIndex}
  BY <1>2 DEF OpenOf
<1>9. LockedUnits(a)' = UNION {Units(i, Price(liabilityOf'[i])) : i \in OpenOf(a)'}
  BY DEF LockedUnits, Units, Price
<1>10. LockedUnits(a) = UNION {Units(i, Price(liabilityOf[i])) : i \in OpenOf(a)}
  BY DEF LockedUnits, Units
<1>11. UNION {Units(i, Price(liabilityOf'[i])) : i \in OpenOf(a)} = LockedUnits(a)
  BY <1>6, <1>8, <1>10
<1>12. LockedUnits(a) \cap Units(latestIndex, Price(l)) = {}
  BY SMTT(60), <1>2, <1>10 DEF Units
<1>13. CASE a = l.promisee
  BY SMTT(60), <1>5, <1>7, <1>9, <1>11, <1>12, <1>13
<1>14. CASE a # l.promisee
  BY <1>7, <1>9, <1>11, <1>12, <1>14
<1> QED  BY <1>13, <1>14

\* A finalized liability unlocks its price, and no more.
LEMMA FinalizedUnlocks ==
    ASSUME TypeOK, NEW i \in Indices, NEW r \in Reports, Finalized(i, r),
           NEW a \in Accounts
    PROVE  LET own == Units(i, Price(liabilityOf[i]))
               rest == UNION {Units(j, Price(liabilityOf[j])) : j \in OpenOf(a) \ {i}}
           IN  /\ LockedUnits(a)' = rest
               /\ LockedUnits(a) = IF a = liabilityOf[i].promisee THEN rest \cup own ELSE rest
               /\ rest \cap own = {}
<1> DEFINE own == Units(i, Price(liabilityOf[i]))
<1> DEFINE rest == UNION {Units(j, Price(liabilityOf[j])) : j \in OpenOf(a) \ {i}}
<1>1. liabilityOf' = liabilityOf /\ isFinalized' = [isFinalized EXCEPT ![i] = TRUE]
  BY DEF Finalized
<1>2. OpenOf(a)' = OpenOf(a) \ {i}
  BY <1>1 DEF OpenOf, Exist, TypeOK
<1>3. i \in OpenOf(a) <=> a = liabilityOf[i].promisee
  BY DEF OpenOf, Exist, Finalized
<1>4. LockedUnits(a)' = rest
  <2>1. LockedUnits(a)' = UNION {Units(j, Price(liabilityOf'[j])) : j \in OpenOf(a)'}
    BY DEF LockedUnits, Units, Price
  <2> QED  BY <1>1, <1>2, <2>1
<1>5. LockedUnits(a) = UNION {Units(j, Price(liabilityOf[j])) : j \in OpenOf(a)}
  BY DEF LockedUnits, Units
<1>6. rest \cap own = {}
  BY SMTT(60) DEF Units
<1>7. CASE a = liabilityOf[i].promisee
  BY SMTT(60), <1>3, <1>4, <1>5, <1>6, <1>7
<1>8. CASE a # liabilityOf[i].promisee
  BY <1>3, <1>4, <1>5, <1>6, <1>8
<1> QED  BY <1>7, <1>8

\* What finalizing a liability does to its promisee's reserve and its promisor's
\* free funds: the reserve covers the price, and the rest of it survives.
LEMMA FinalizedPays ==
    ASSUME PricesCoverDeposit, TypeOK, Backed,
           NEW i \in Indices, NEW r \in Reports, Finalized(i, r)
    PROVE  LET l == liabilityOf[i]
           IN  /\ \A a \in Accounts : bal'[a].reserved =
                      IF a = l.promisee THEN bal[a].reserved - Price(l) ELSE bal[a].reserved
               /\ bal'[l.promisor].free = bal[l.promisor].free + Price(l)
<1> DEFINE l == liabilityOf[i]
<1> DEFINE a == l.promisee
<1> DEFINE own == Units(i, Price(l))
<1> DEFINE rest == UNION {Units(j, Price(liabilityOf[j])) : j \in OpenOf(a) \ {i}}
<1>1. l \in Liabilities /\ a \in Accounts /\ i \in OpenOf(a)
  BY DEF Finalized, TypeOK, Liabilities, OpenOf, Exist
<1>2. Price(l) \in Nat /\ bal[a].reserved \in Nat /\ bal[a].reserved >= Price(l)
  BY <1>1, PriceType, OpenIsCovered DEF TypeOK, Balances
<1>3. LockedUnits(a) = rest \cup own /\ rest \cap own = {}
  BY <1>1, FinalizedUnlocks
<1>4. IsFiniteSet(LockedUnits(a)) /\ bal[a].reserved = Cardinality(LockedUnits(a))
  BY <1>1 DEF Backed
<1>5. IsFiniteSet(rest)
  BY <1>3, <1>4, FS_Subset
<1>6. Cardinality(rest) = bal[a].reserved - Price(l)
  <2>1. IsFiniteSet(own) /\ Cardinality(own) = Price(l)
    BY <1>2, UnitsCount
  <2> HIDE DEF own, rest
  <2>2. Cardinality(rest \cup own) = Cardinality(rest) + Cardinality(own)
    BY <1>3, <1>5, <2>1, DisjointUnion
  <2>3. Cardinality(rest) \in Nat
    BY <1>5, FS_CardinalityType
  <2>4. bal[a].reserved = Cardinality(rest) + Price(l)
    BY <1>3, <1>4, <2>1, <2>2
  <2> QED  BY SMTT(60), <1>2, <2>3, <2>4
<1>7. Cardinality(rest) = 0 \/ Cardinality(rest) >= ExistentialDeposit
  <2>1. OpenOf(a) \ {i} \in SUBSET OpenOf(a)
    OBVIOUS
  <2> QED  BY <1>1, <1>5, <2>1, SumCoversDeposit
<1>8. bal \in Balances /\ on_finish(bal, l, TRUE).ok /\ bal' = on_finish(bal, l, TRUE).bal
  BY DEF TypeOK, Finalized
<1> HIDE DEF l, rest
<1>9. \/ bal[l.promisee].reserved - Price(l) = 0
      \/ bal[l.promisee].reserved - Price(l) >= ExistentialDeposit
  BY <1>6, <1>7
<1> QED  BY <1>1, <1>2, <1>8, <1>9, OnFinishReserves DEF l

\* Every step keeps the reserves equal to the sums of the open prices.
LEMMA BackedStep ==
    PricesCoverDeposit /\ TypeOK /\ Slots /\ Backed /\ [Next]_vars => Backed'
<1> SUFFICES ASSUME PricesCoverDeposit, TypeOK, Slots, Backed, [Next]_vars, NEW a \in Accounts
             PROVE  IsFiniteSet(LockedUnits(a)') /\ bal'[a].reserved = Cardinality(LockedUnits(a)')
  BY DEF Backed
<1>0. /\ IsFiniteSet(LockedUnits(a))
      /\ bal[a].reserved = Cardinality(LockedUnits(a))
      /\ bal[a].reserved \in Nat
  BY DEF Backed, TypeOK, Balances
<1>1. ASSUME UNCHANGED <<liabilityOf, isFinalized>>, bal'[a].reserved = bal[a].reserved
      PROVE  IsFiniteSet(LockedUnits(a)') /\ bal'[a].reserved = Cardinality(LockedUnits(a)')
  <2>1. LockedUnits(a)' = LockedUnits(a)
    BY <1>1 DEF LockedUnits, OpenOf, Exist, Price
  <2> QED  BY <1>0, <1>1, <2>1
<1>2. CASE Failed \/ UNCHANGED vars \/ \E p \in Willing : Sign(p)
  BY <1>1, <1>2 DEF Failed, vars, Sign
<1>3. ASSUME NEW p \in Accounts, NEW q \in Accounts, NEW v \in TransferValues, Transfer(p, q, v)
      PROVE  IsFiniteSet(LockedUnits(a)') /\ bal'[a].reserved = Cardinality(LockedUnits(a)')
  <2>1. LockedUnits(p) = UNION {Units(i, Price(liabilityOf[i])) : i \in OpenOf(p)}
    BY DEF LockedUnits, Units
  <2>2. bal[p].reserved = 0 \/ bal[p].reserved >= ExistentialDeposit
    BY <2>1, SumCoversDeposit DEF Backed
  <2>3. bal'[a].reserved = bal[a].reserved
    BY SMTT(60), <1>3, <2>2, TransferReserves, LiabilityAssumption DEF Transfer, TypeOK
  <2> QED  BY <1>1, <1>3, <2>3 DEF Transfer
<1>4. ASSUME NEW l \in Terms, Created(l), latestIndex < MaxIndex
      PROVE  IsFiniteSet(LockedUnits(a)') /\ bal'[a].reserved = Cardinality(LockedUnits(a)')
  <2> DEFINE fresh == Units(latestIndex, Price(l))
  <2>1. l \in Liabilities /\ Price(l) \in Nat
    BY PriceType, LiabilityAssumption
  <2>2. bal'[a].reserved = IF a = l.promisee THEN bal[a].reserved + Price(l)
                                             ELSE bal[a].reserved
    BY SMTT(60), <1>4, <2>1, OnStartReserves DEF Created, TypeOK
  <2>3. /\ LockedUnits(a)' = IF a = l.promisee THEN LockedUnits(a) \cup fresh ELSE LockedUnits(a)
        /\ LockedUnits(a) \cap fresh = {}
    BY <1>4, CreatedLocks
  <2>4. IsFiniteSet(fresh) /\ Cardinality(fresh) = Price(l)
    BY <2>1, UnitsCount
  <2> HIDE DEF fresh
  <2>5. /\ IsFiniteSet(LockedUnits(a) \cup fresh)
        /\ Cardinality(LockedUnits(a) \cup fresh) = bal[a].reserved + Price(l)
    <3>1. LockedUnits(a) \cap fresh = {}
      BY <2>3
    <3>2. /\ IsFiniteSet(LockedUnits(a) \cup fresh)
          /\ Cardinality(LockedUnits(a) \cup fresh) =
                Cardinality(LockedUnits(a)) + Cardinality(fresh)
      BY <1>0, <2>4, <3>1, DisjointUnion
    <3> QED  BY <1>0, <2>4, <3>2
  <2> QED  BY <1>0, <2>2, <2>3, <2>5
<1>5. ASSUME NEW i \in Indices, NEW r \in Reports, Finalized(i, r)
      PROVE  IsFiniteSet(LockedUnits(a)') /\ bal'[a].reserved = Cardinality(LockedUnits(a)')
  <2> DEFINE l == liabilityOf[i]
  <2> DEFINE own == Units(i, Price(l))
  <2> DEFINE rest == UNION {Units(j, Price(liabilityOf[j])) : j \in OpenOf(a) \ {i}}
  <2>1. l \in Liabilities /\ Price(l) \in Nat
    BY <1>5, PriceType DEF Finalized, TypeOK
  <2>2. bal'[a].reserved = IF a = l.promisee THEN bal[a].reserved - Price(l)
                                             ELSE bal[a].reserved
    BY <1>5, FinalizedPays
  <2>3. /\ LockedUnits(a)' = rest
        /\ LockedUnits(a) = IF a = l.promisee THEN rest \cup own ELSE rest
        /\ rest \cap own = {}
    BY <1>5, FinalizedUnlocks
  <2>4. IsFiniteSet(own) /\ Cardinality(own) = Price(l)
    BY <2>1, UnitsCount
  <2> HIDE DEF l, own, rest
  <2>5. IsFiniteSet(rest)
    BY <1>0, <2>3, FS_Subset
  <2>6. Cardinality(rest) \in Nat
    BY <2>5, FS_CardinalityType
  <2>7. Cardinality(rest \cup own) = Cardinality(rest) + Price(l)
    BY <2>3, <2>4, <2>5, DisjointUnion
  <2>8. CASE a = l.promisee
    <3>1. bal[a].reserved = Cardinality(rest) + Price(l)
      BY <1>0, <2>3, <2>7, <2>8
    <3>2. bal'[a].reserved = bal[a].reserved - Price(l)
      BY <2>2, <2>8
    <3>3. bal'[a].reserved = Cardinality(rest)
      BY SMTT(60), <2>1, <2>6, <3>1, <3>2
    <3> QED  BY <2>3, <2>5, <3>3
  <2>9. CASE a # l.promisee
    BY <1>0, <2>2, <2>3, <2>5, <2>9
  <2> QED  BY <2>8, <2>9
<1> QED
  BY <1>2, <1>3, <1>4, <1>5, CreateOutcome, FinalizeOutcome DEF Next, Holders

\* When prices are zero or at least the existential deposit, what an account has
\* reserved is at every moment the sum of the prices of its open liabilities.
\* Without the condition the dust rule can take a reserve.
THEOREM EscrowIsBacked == PricesCoverDeposit => (Spec => []EscrowBacked)
<1> SUFFICES ASSUME PricesCoverDeposit PROVE Spec => []EscrowBacked
  OBVIOUS
<1>1. TypeOK /\ Slots /\ Backed /\ [Next]_vars => Backed'
  BY BackedStep
<1>2. Backed => EscrowBacked
  BY DEF Backed, EscrowBacked
<1> QED  BY <1>1, <1>2, BackedInit, SlotsInit, SlotsStep, TypeCorrect, PTL DEF Spec

\* Under the same condition finalizing pays the promisor the whole price, and
\* the remainder that on_finish drops is always zero.
THEOREM PromisorIsPaid == PricesCoverDeposit => (Spec => PaidOnFinish)
<1> SUFFICES ASSUME PricesCoverDeposit PROVE Spec => PaidOnFinish
  OBVIOUS
<1>1. TypeOK /\ Slots /\ Backed /\ [Next]_vars => Backed'
  BY BackedStep
<1>2. TypeOK /\ Backed /\ [Next]_vars =>
        [\A i \in Indices :
            ~isFinalized[i] /\ isFinalized'[i] =>
                LET l == liabilityOf[i]
                IN  bal'[l.promisor].free = bal[l.promisor].free + Price(l)]_vars
  <2> SUFFICES ASSUME TypeOK, Backed, [Next]_vars, NEW i \in Indices,
                      ~isFinalized[i], isFinalized'[i]
               PROVE  bal'[liabilityOf[i].promisor].free =
                          bal[liabilityOf[i].promisor].free + Price(liabilityOf[i])
    OBVIOUS
  <2>1. PICK j \in Indices, r \in Reports : Finalized(j, r)
    BY StepShape DEF storage, Created
  <2>2. j = i
    BY <2>1 DEF Finalized, TypeOK
  <2> QED  BY <2>1, <2>2, FinalizedPays
<1> QED
  BY <1>1, <1>2, BackedInit, SlotsInit, SlotsStep, TypeCorrect, PTL DEF Spec, PaidOnFinish

-----------------------------------------------------------------------------
\* The pallet implements the escrow.

\* The purses and the deals that the pallet's state stands for.
Purse == [a \in Accounts |-> bal[a].free]
Deals == [d \in 1 .. latestIndex |-> DealOf(d - 1)]

\* on_start takes the price from the promisee's free funds, which cover it.
LEMMA OnStartTakes ==
    ASSUME NEW b \in Balances, NEW l \in Liabilities, on_start(b, l).ok
    PROVE  /\ b[l.promisee].free >= Price(l)
           /\ \A a \in Accounts : on_start(b, l).bal[a].free =
                  IF a = l.promisee THEN b[a].free - Price(l) ELSE b[a].free
<1>1. l.promisee \in Accounts /\ l.economics \in Nat
  BY EconomicsAssumption DEF Liabilities
<1>2. CASE OpenMarket
  BY <1>1, <1>2 DEF on_start, reserve, Price, Balances
<1>3. CASE ~OpenMarket
  BY SMTT(60), <1>1, <1>3 DEF on_start, Price, Balances
<1> QED  BY <1>2, <1>3

\* The free funds of an account after a value was moved and the payer's account
\* may have been reaped.
Paid(b, p, q, given, received, c) ==
    LET moved == [a \in Accounts |-> (b[a].free + IF a = q THEN received ELSE 0)
                                        - IF a = p THEN given ELSE 0]
    IN  \/ \A a \in Accounts : c[a].free = moved[a]
        \/ /\ moved[p] < ExistentialDeposit
           /\ \A a \in Accounts : c[a].free = IF a = p THEN 0 ELSE moved[a]

\* A reaped account had less free funds than the existential deposit.
LEMMA ReapedIsDust ==
    ASSUME NEW a, a.free \in Nat, a.reserved \in Nat
    PROVE  \/ Reap(a).free = a.free
           \/ Reap(a).free = 0 /\ a.free < ExistentialDeposit
<1>1. CASE Exists(a)
  BY <1>1 DEF Reap
<1>2. CASE ~Exists(a)
  BY SMTT(60), <1>2, DepositAssumption DEF Reap, Exists, Total
<1> QED  BY <1>1, <1>2

\* repatriate_reserved adds a covered value to the payee's free funds; the
\* payer's, when reaped, are dust.
LEMMA RepatriatePays ==
    ASSUME NEW b \in Balances, NEW p \in Accounts, NEW q \in Accounts, NEW v \in Nat,
           repatriate_reserved(b, p, q, v).ok, b[p].reserved >= v
    PROVE  Paid(b, p, q, 0, v, repatriate_reserved(b, p, q, v).bal)
<1>1. Lesser(b[p].reserved, v) = v
  BY SMTT(60) DEF Lesser, Balances
<1>2. CASE v = 0
  BY SMTT(60), <1>2 DEF repatriate_reserved, Balances, Paid
<1>3. CASE v # 0 /\ p = q
  BY SMTT(60), <1>1, <1>3 DEF repatriate_reserved, unreserve, Balances, Paid
<1>4. CASE v # 0 /\ p # q
  <2> DEFINE rest == [free |-> b[p].free, reserved |-> b[p].reserved - v]
  <2> DEFINE payer == Reap(rest)
  <2> DEFINE payee == [free |-> b[q].free + v, reserved |-> b[q].reserved]
  <2>1. \/ payer.free = b[p].free
        \/ payer.free = 0 /\ b[p].free < ExistentialDeposit
    <3>1. rest.free = b[p].free /\ rest.free \in Nat /\ rest.reserved \in Nat
      BY SMTT(60) DEF Balances
    <3> HIDE DEF rest
    <3> QED  BY <3>1, ReapedIsDust
  <2>2. repatriate_reserved(b, p, q, v).bal = [b EXCEPT ![p] = payer, ![q] = payee]
    BY <1>1, <1>4 DEF repatriate_reserved
  <2>3. payee.free = b[q].free + v
    OBVIOUS
  <2> HIDE DEF payer, payee
  <2> DEFINE c == [b EXCEPT ![p] = payer, ![q] = payee]
  <2>4. \A a \in Accounts : c[a].free = IF a = p THEN payer.free
                                        ELSE IF a = q THEN b[q].free + v ELSE b[a].free
    BY <1>4, <2>3 DEF Balances
  <2> HIDE DEF c
  <2>5. \A a \in Accounts : b[a].free \in Nat
    BY DEF Balances
  <2>6. Paid(b, p, q, 0, v, c)
    BY SMTT(60), <1>4, <2>1, <2>4, <2>5 DEF Paid
  <2> QED  BY <2>2, <2>6 DEF c
<1> QED  BY <1>2, <1>3, <1>4

\* on_finish adds a covered price to the promisor's free funds; the promisee's,
\* when reaped, are dust.
LEMMA OnFinishPays ==
    ASSUME NEW b \in Balances, NEW l \in Liabilities, on_finish(b, l, TRUE).ok,
           b[l.promisee].reserved >= Price(l)
    PROVE  Paid(b, l.promisee, l.promisor, 0, Price(l), on_finish(b, l, TRUE).bal)
<1>1. l.promisee \in Accounts /\ l.promisor \in Accounts /\ l.economics \in Nat
  BY EconomicsAssumption DEF Liabilities
<1>2. CASE OpenMarket
  BY <1>1, <1>2, RepatriatePays DEF on_finish, Price
<1>3. CASE ~OpenMarket
  BY SMTT(60), <1>1, <1>3 DEF on_finish, Price, Balances, Paid
<1> QED  BY <1>2, <1>3

\* A transfer moves the value; the sender's remainder, when reaped, is dust.
LEMMA TransferPays ==
    ASSUME NEW b \in Balances, NEW p \in Accounts, NEW q \in Accounts, NEW v \in Nat,
           CanTransfer(b, p, q, v)
    PROVE  Paid(b, p, q, v, v, transfer(b, p, q, v))
<1> DEFINE rest == [free |-> b[p].free - v, reserved |-> b[p].reserved]
<1> DEFINE payer == Reap(rest)
<1> DEFINE payee == [free |-> b[q].free + v, reserved |-> b[q].reserved]
<1>0. p # q /\ b[p].free >= v
  BY DEF CanTransfer
<1>1. \A a \in Accounts : b[a].free \in Nat /\ b[a].reserved \in Nat
  BY DEF Balances
<1>2. \/ payer.free = b[p].free - v
      \/ payer.free = 0 /\ b[p].free - v < ExistentialDeposit
  <2>1. rest.free = b[p].free - v /\ rest.free \in Nat /\ rest.reserved \in Nat
    BY SMTT(60), <1>0, <1>1
  <2> HIDE DEF rest
  <2> QED  BY <2>1, ReapedIsDust
<1>3. transfer(b, p, q, v) = [b EXCEPT ![p] = payer, ![q] = payee]
  BY DEF transfer
<1>4. payee.free = b[q].free + v
  OBVIOUS
<1> HIDE DEF payer, payee
<1> DEFINE c == [b EXCEPT ![p] = payer, ![q] = payee]
<1>5. \A a \in Accounts : c[a].free = IF a = p THEN payer.free
                                      ELSE IF a = q THEN b[q].free + v ELSE b[a].free
  BY <1>0, <1>4 DEF Balances
<1> HIDE DEF c
<1>6. Paid(b, p, q, v, v, c)
  BY SMTT(60), <1>0, <1>1, <1>2, <1>5 DEF Paid
<1> QED  BY <1>3, <1>6 DEF c

\* The deals are a sequence with one deal for every liability.
LEMMA DealsAreSeq ==
    ASSUME TypeOK
    PROVE  /\ DOMAIN Deals = 1 .. latestIndex
           /\ Len(Deals) = latestIndex
           /\ \A d \in 1 .. latestIndex : d - 1 \in Indices /\ Deals[d] = DealOf(d - 1)
BY SMTT(60), LiabilityAssumption DEF Deals, TypeOK, Indices

\* The pallet starts as the escrow does.
LEMMA EscrowInit == Init => E!Init
<1> SUFFICES ASSUME Init PROVE E!Init
  OBVIOUS
<1>1. Purse = [a \in Accounts |-> Genesis[a].free]
  BY DEF Init, Purse
<1>2. Deals = <<>>
  BY SMTT(60) DEF Init, Deals
<1> QED  BY <1>1, <1>2 DEF E!Init, Purse, Deals

\* A step that keeps storage and free funds is a stuttering step of the escrow.
LEMMA EscrowStutters ==
    ASSUME UNCHANGED storage, UNCHANGED bal
    PROVE  UNCHANGED E!evars
BY DEF storage, E!evars, DealOf, Price

\* Creating a liability starts a deal.
LEMMA CreatedStarts ==
    ASSUME TypeOK, Slots, latestIndex < MaxIndex, NEW l \in Terms, Created(l)
    PROVE  E!Start(l.promisee, l.promisor, Price(l))
<1>1. l \in Liabilities /\ l.promisee \in Accounts /\ Price(l) \in Nat
  BY LiabilityAssumption, PriceType DEF Liabilities
<1>2. latestIndex \in Nat /\ latestIndex \in Indices /\ ~isFinalized[latestIndex]
  BY SMTT(60), LiabilityAssumption DEF TypeOK, Indices, Slots
<1>3. /\ bal[l.promisee].free >= Price(l)
      /\ \A a \in Accounts : bal'[a].free =
             IF a = l.promisee THEN bal[a].free - Price(l) ELSE bal[a].free
  BY <1>1, OnStartTakes DEF Created, TypeOK
<1>4. \A a \in Accounts : bal[a].free \in Nat
  BY DEF TypeOK, Balances
<1>5. /\ liabilityOf'[latestIndex] = l
      /\ \A i \in Indices \ {latestIndex} : liabilityOf'[i] = liabilityOf[i]
      /\ isFinalized' = isFinalized /\ latestIndex' = latestIndex + 1
  BY <1>2 DEF Created, TypeOK
<1> DEFINE deal == [from |-> l.promisee, to |-> l.promisor, price |-> Price(l),
                    box |-> Price(l), open |-> TRUE]
<1>n. PICK n : n = latestIndex
  OBVIOUS
<1>6. DealOf(n)' = deal
  BY <1>2, <1>5, <1>n DEF DealOf, Price
<1>7. \A i \in Indices \ {n} : DealOf(i)' = DealOf(i)
  BY <1>5, <1>n DEF DealOf, Price
<1> HIDE DEF deal
<1>8. Deals' = Append(Deals, deal)
  <2>1. Deals' = [d \in 1 .. latestIndex + 1 |-> DealOf(d - 1)']
    BY <1>5 DEF Deals
  <2>2. Append(Deals, deal) = [d \in 1 .. latestIndex + 1 |->
                                  IF d = latestIndex + 1 THEN deal ELSE Deals[d]]
    BY SMTT(60), <1>2, DealsAreSeq DEF Deals
  <2>3. ASSUME NEW d \in 1 .. latestIndex + 1
        PROVE  DealOf(d - 1)' = IF d = latestIndex + 1 THEN deal ELSE Deals[d]
    <3>1. CASE d = latestIndex + 1
      <4>1. d - 1 = n
        BY SMTT(60), <1>2, <1>n, <3>1
      <4> QED  BY <1>6, <3>1, <4>1
    <3>2. CASE d # latestIndex + 1
      <4>1. d \in 1 .. latestIndex /\ d - 1 \in Indices \ {n} /\ Deals[d] = DealOf(d - 1)
        BY SMTT(60), <1>2, <1>n, <3>2, DealsAreSeq DEF Indices
      <4> QED  BY <1>7, <3>2, <4>1
    <3> QED  BY <3>1, <3>2
  <2> QED  BY <2>1, <2>2, <2>3
<1>9. Purse' = [h \in Accounts |-> (Purse[h] + IF h = l.promisor THEN 0 ELSE 0)
                                      - IF h = l.promisee THEN Price(l) ELSE 0]
  BY SMTT(60), <1>1, <1>3, <1>4 DEF Purse
<1>10. Len(Deals) < MaxIndex /\ Purse[l.promisee] >= Price(l)
  BY <1>1, <1>3, DealsAreSeq DEF Purse
<1> QED  BY <1>8, <1>9, <1>10 DEF E!Start, E!Moved, Purse, Deals, deal

\* Finalizing a liability empties and closes its deal, and no other.
LEMMA FinalizedDeal ==
    ASSUME TypeOK, NEW i \in Indices, NEW r \in Reports, Finalized(i, r),
           NEW l, l = liabilityOf[i]
    PROVE  /\ DealOf(i) = [from |-> l.promisee, to |-> l.promisor, price |-> Price(l),
                           box |-> Price(l), open |-> TRUE]
           /\ DealOf(i)' = [from |-> l.promisee, to |-> l.promisor, price |-> Price(l),
                            box |-> 0, open |-> FALSE]
           /\ \A j \in Indices \ {i} : DealOf(j)' = DealOf(j)
<1>1. /\ ~isFinalized[i] /\ isFinalized'[i] /\ liabilityOf' = liabilityOf
      /\ \A j \in Indices \ {i} : isFinalized'[j] = isFinalized[j]
  BY DEF Finalized, TypeOK
<1>2. DealOf(i) = [from |-> l.promisee, to |-> l.promisor, price |-> Price(l),
                   box |-> Price(l), open |-> TRUE]
  BY <1>1 DEF DealOf
<1>3. DealOf(i)' = [from |-> l.promisee, to |-> l.promisor, price |-> Price(l),
                    box |-> 0, open |-> FALSE]
  BY <1>1 DEF DealOf, Price
<1>4. \A j \in Indices \ {i} : DealOf(j)' = DealOf(j)
  BY <1>1 DEF DealOf, Price
<1> QED  BY <1>2, <1>3, <1>4

\* So the list of the deals changes as finishing a deal changes it.
LEMMA FinalizedDeals ==
    ASSUME TypeOK, Slots, NEW i \in Indices, NEW r \in Reports, Finalized(i, r)
    PROVE  /\ i + 1 \in 1 .. latestIndex /\ Deals[i + 1] = DealOf(i)
           /\ Deals' = [Deals EXCEPT ![i + 1] = E!Emptied(@)]
<1>1. i \in Nat /\ latestIndex \in Nat /\ i < latestIndex /\ i + 1 \in 1 .. latestIndex
  BY SMTT(60) DEF TypeOK, Indices, Slots, Exist, Finalized
<1>2. Deals[i + 1] = DealOf(i)
  BY SMTT(60), <1>1, DealsAreSeq
<1>3. DealOf(i)' = E!Emptied(DealOf(i))
  BY SMTT(60), FinalizedDeal DEF E!Emptied
<1>4. \A j \in Indices \ {i} : DealOf(j)' = DealOf(j)
  BY FinalizedDeal
<1>5. Deals' = [d \in 1 .. latestIndex |-> DealOf(d - 1)']
  BY DEF Deals, Finalized
<1>6. ASSUME NEW d \in 1 .. latestIndex
      PROVE  DealOf(d - 1)' = IF d = i + 1 THEN E!Emptied(Deals[i + 1]) ELSE Deals[d]
  <2>1. CASE d = i + 1
    <3>1. d - 1 = i
      BY SMTT(60), <1>1, <2>1
    <3> QED  BY <1>2, <1>3, <2>1, <3>1
  <2>2. CASE d # i + 1
    <3>1. d - 1 \in Indices \ {i} /\ Deals[d] = DealOf(d - 1)
      BY SMTT(60), <1>1, <2>2, DealsAreSeq
    <3> QED  BY <1>4, <2>2, <3>1
  <2> QED  BY <2>1, <2>2
<1>7. Deals' = [Deals EXCEPT ![i + 1] = E!Emptied(@)]
  BY <1>1, <1>5, <1>6, DealsAreSeq DEF Deals
<1> QED  BY <1>1, <1>2, <1>7

\* Finalizing a liability finishes its deal.
LEMMA FinalizedFinishes ==
    ASSUME TypeOK, Slots, Backed, NEW i \in Indices, NEW r \in Reports, Finalized(i, r)
    PROVE  i + 1 \in DOMAIN Deals /\ E!Finish(i + 1)
<1>0. PICK l : l = liabilityOf[i]
  OBVIOUS
<1>1. l \in Liabilities /\ l.promisee \in Accounts /\ l.promisor \in Accounts /\ Price(l) \in Nat
  BY <1>0, PriceType DEF TypeOK, Finalized, Liabilities
<1>2. bal[l.promisee].reserved >= Price(l)
  BY <1>0, <1>1, OpenIsCovered DEF OpenOf, Exist, Finalized
<1>3. on_finish(bal, l, TRUE).ok /\ bal' = on_finish(bal, l, TRUE).bal /\ bal \in Balances
  BY <1>0 DEF Finalized, TypeOK
<1>4. Paid(bal, l.promisee, l.promisor, 0, Price(l), bal')
  BY <1>1, <1>2, <1>3, OnFinishPays
<1>5. /\ i + 1 \in 1 .. latestIndex /\ Deals[i + 1] = DealOf(i)
      /\ Deals' = [Deals EXCEPT ![i + 1] = E!Emptied(@)]
  BY FinalizedDeals
<1>6. /\ Deals[i + 1].open /\ Deals[i + 1].from = l.promisee
      /\ Deals[i + 1].to = l.promisor /\ Deals[i + 1].box = Price(l)
  BY SMTT(60), <1>0, <1>5, FinalizedDeal
<1> DEFINE moved == [h \in Accounts |-> (Purse[h] + IF h = l.promisor THEN Price(l) ELSE 0)
                                           - IF h = l.promisee THEN 0 ELSE 0]
<1>7. \/ Purse' = moved
      \/ /\ moved[l.promisee] < ExistentialDeposit
         /\ Purse' = [h \in Accounts |-> IF h = l.promisee THEN 0 ELSE moved[h]]
  BY <1>1, <1>4 DEF Paid, Purse
<1>8. E!Moved(Deals[i + 1].from, 0, Deals[i + 1].to, Deals[i + 1].box) = moved
  BY <1>6 DEF E!Moved, Purse
<1> HIDE DEF moved
<1>9. E!MaybeSwept(E!Moved(Deals[i + 1].from, 0, Deals[i + 1].to, Deals[i + 1].box),
                   Deals[i + 1].from)
  BY SMTT(60), <1>6, <1>7, <1>8 DEF E!MaybeSwept, E!Swept, Purse
<1>10. E!Finish(i + 1)
  BY <1>5, <1>6, <1>9 DEF E!Finish, Deals
<1> QED  BY <1>5, <1>10, DealsAreSeq

\* A transfer is a payment.
LEMMA TransferIsPayment ==
    ASSUME TypeOK, NEW p \in Accounts, NEW q \in Accounts, NEW v \in TransferValues,
           Transfer(p, q, v)
    PROVE  E!Pay(p, q, v)
<1>1. v \in Nat /\ p # q /\ bal[p].free >= v
  BY LiabilityAssumption DEF Transfer, CanTransfer
<1>2. Paid(bal, p, q, v, v, bal')
  BY <1>1, TransferPays DEF Transfer, TypeOK
<1> DEFINE moved == [h \in Accounts |-> (Purse[h] + IF h = q THEN v ELSE 0)
                                           - IF h = p THEN v ELSE 0]
<1>3. \/ Purse' = moved
      \/ /\ moved[p] < ExistentialDeposit
         /\ Purse' = [h \in Accounts |-> IF h = p THEN 0 ELSE moved[h]]
  BY <1>2 DEF Paid, Purse
<1>4. Deals' = Deals
  BY DEF Transfer, Deals, DealOf, Price
<1>5. Purse[p] >= v
  BY <1>1 DEF Purse
<1> QED  BY <1>1, <1>3, <1>4, <1>5 DEF E!Pay, E!MaybeSwept, E!Moved, E!Swept, Purse, Deals

\* The pallet implements the escrow when prices are zero or at least the
\* existential deposit: although the currency keeps one reserve per account,
\* every liability behaves as if its price lay in a box of its own, which
\* finalizing hands over whole and once.
THEOREM PalletIsEscrow == PricesCoverDeposit => (Spec => ImplementsEscrow)
<1> SUFFICES ASSUME PricesCoverDeposit PROVE Spec => ImplementsEscrow
  OBVIOUS
<1>1. TypeOK /\ Slots /\ Backed /\ [Next]_vars => Backed'
  BY BackedStep
<1>2. TypeOK /\ Slots /\ Backed /\ [Next]_vars => [E!Next]_(E!evars)
  <2> SUFFICES ASSUME TypeOK, Slots, Backed, [Next]_vars PROVE [E!Next]_(E!evars)
    OBVIOUS
  <2>1. CASE UNCHANGED vars \/ Failed \/ \E p \in Willing : Sign(p)
    <3>1. UNCHANGED storage /\ UNCHANGED bal
      BY <2>1 DEF vars, Failed, Sign, storage
    <3> QED  BY <3>1, EscrowStutters
  <2>2. ASSUME NEW l \in Terms, latestIndex < MaxIndex, Created(l) PROVE E!Next
    <3>1. l.promisee \in Accounts /\ l.promisor \in Accounts
          /\ Price(l) \in IF OpenMarket THEN Economics ELSE {0}
      BY LiabilityAssumption DEF Liabilities, Price
    <3> QED  BY <2>2, <3>1, CreatedStarts DEF E!Next
  <2>3. ASSUME NEW i \in Indices, NEW r \in Reports, Finalized(i, r) PROVE E!Next
    <3>1. i + 1 \in DOMAIN Deals /\ E!Finish(i + 1)
      BY <2>3, FinalizedFinishes
    <3> QED  BY <3>1 DEF E!Next, Deals
  <2>4. ASSUME NEW p \in Accounts, NEW q \in Accounts, NEW v \in TransferValues, Transfer(p, q, v)
        PROVE  E!Next
    BY <2>4, TransferIsPayment DEF E!Next
  <2> QED
    BY <2>1, <2>2, <2>3, <2>4, CreateOutcome, FinalizeOutcome DEF Next, Holders
<1> QED
  BY <1>1, <1>2, BackedInit, EscrowInit, SlotsInit, SlotsStep, TypeCorrect, PTL
  DEF Spec, ImplementsEscrow, E!Spec

-----------------------------------------------------------------------------
\* The issuance.

\* The units in the accounts of a set.
Coins(b, S) == UNION {Units(a, Total(b[a])) : a \in S}

\* The total of an account is a natural number.
LEMMA TotalType ==
    ASSUME NEW b \in Balances, NEW a \in Accounts
    PROVE  b[a].free \in Nat /\ b[a].reserved \in Nat /\ Total(b[a]) \in Nat
BY SMTT(60) DEF Balances, Total

\* The accounts of a set hold finitely many units.
LEMMA CoinsFinite ==
    ASSUME NEW b \in Balances, NEW S \in SUBSET Accounts
    PROVE  IsFiniteSet(Coins(b, S))
<1> DEFINE Heap == {Units(a, Total(b[a])) : a \in S}
<1>1. IsFiniteSet(S)
  BY LiabilityAssumption, FS_Subset
<1>2. IsFiniteSet(Heap)
  <2> DEFINE f == [a \in S |-> Units(a, Total(b[a]))]
  <2>1. f \in Surjection(S, Heap)
    BY DEF Surjection
  <2> HIDE DEF f, Heap
  <2> QED  BY <1>1, <2>1, FS_Surjection
<1>3. \A u \in Heap : IsFiniteSet(u)
  BY TotalType, UnitsCount
<1> HIDE DEF Heap
<1>4. IsFiniteSet(UNION Heap)
  BY <1>2, <1>3, FS_UNION
<1> QED  BY <1>4 DEF Coins, Heap

\* One account more holds its total more.
LEMMA CoinsAdd ==
    ASSUME NEW b \in Balances, NEW S \in SUBSET Accounts, NEW a \in Accounts, a \notin S
    PROVE  /\ Cardinality(Coins(b, S)) \in Nat
           /\ Cardinality(Coins(b, S \cup {a})) = Cardinality(Coins(b, S)) + Total(b[a])
<1> DEFINE own == Units(a, Total(b[a]))
<1> DEFINE old == Coins(b, S)
<1>1. Coins(b, S \cup {a}) = old \cup own
  BY DEF Coins
<1>2. old \cap own = {}
  BY SMTT(60) DEF Coins, Units
<1>3. IsFiniteSet(own) /\ Cardinality(own) = Total(b[a])
  BY TotalType, UnitsCount
<1>4. IsFiniteSet(old)
  BY CoinsFinite
<1> HIDE DEF old, own
<1>5. Cardinality(old) \in Nat /\ Cardinality(old \cup own) = Cardinality(old) + Cardinality(own)
  BY <1>2, <1>3, <1>4, DisjointUnion
<1> QED  BY <1>1, <1>3, <1>5 DEF old

\* Accounts with the same totals hold the same units.
LEMMA CoinsSame ==
    ASSUME NEW b, NEW c, NEW S, \A a \in S : Total(b[a]) = Total(c[a])
    PROVE  Coins(b, S) = Coins(c, S)
BY DEF Coins

\* The issuance is what two accounts hold and what the others hold.
LEMMA CoinsOfTwo ==
    ASSUME NEW b \in Balances, NEW p \in Accounts, NEW q \in Accounts, p # q
    PROVE  /\ Cardinality(Coins(b, Accounts \ {p, q})) \in Nat
           /\ Cardinality(Coins(b, Accounts)) =
                 Cardinality(Coins(b, Accounts \ {p, q})) + Total(b[p]) + Total(b[q])
<1> DEFINE S == Accounts \ {p, q}
<1>1. S \in SUBSET Accounts /\ p \notin S /\ S \cup {p} \in SUBSET Accounts /\ q \notin S \cup {p}
  OBVIOUS
<1>2. Accounts = (S \cup {p}) \cup {q}
  OBVIOUS
<1> HIDE DEF S
<1>3. /\ Cardinality(Coins(b, S)) \in Nat
      /\ Cardinality(Coins(b, S \cup {p})) = Cardinality(Coins(b, S)) + Total(b[p])
  BY <1>1, CoinsAdd
<1>4. Cardinality(Coins(b, (S \cup {p}) \cup {q})) =
          Cardinality(Coins(b, S \cup {p})) + Total(b[q])
  BY <1>1, CoinsAdd
<1> QED  BY <1>2, <1>3, <1>4 DEF S

\* Funds move from one account to another; what the payer keeps may be reaped.
Moves(b, c) ==
    \/ \A a \in Accounts : Total(c[a]) = Total(b[a])
    \/ \E p, q \in Accounts, v \in Nat :
          /\ p # q
          /\ v <= Total(b[p])
          /\ Total(c[q]) = Total(b[q]) + v
          /\ \/ Total(c[p]) = Total(b[p]) - v
             \/ Total(c[p]) = 0 /\ Total(b[p]) - v < ExistentialDeposit
          /\ \A a \in Accounts \ {p, q} : Total(c[a]) = Total(b[a])

\* Moving funds mints nothing and burns less than an existential deposit.
LEMMA MovesKeepIssuance ==
    ASSUME NEW b \in Balances, NEW c \in Balances, Moves(b, c)
    PROVE  LET before == Cardinality(Coins(b, Accounts))
               after  == Cardinality(Coins(c, Accounts))
           IN  after <= before /\ before - after < ExistentialDeposit
<1>1. CASE \A a \in Accounts : Total(c[a]) = Total(b[a])
  <2>1. Coins(b, Accounts) = Coins(c, Accounts)
    BY <1>1, CoinsSame
  <2>2. Cardinality(Coins(b, Accounts)) \in Nat
    BY CoinsFinite, FS_CardinalityType
  <2> QED  BY SMTT(60), <2>1, <2>2, DepositAssumption
<1>2. CASE ~\A a \in Accounts : Total(c[a]) = Total(b[a])
  <2>1. PICK p \in Accounts, q \in Accounts, v \in Nat :
          /\ p # q
          /\ v <= Total(b[p])
          /\ Total(c[q]) = Total(b[q]) + v
          /\ \/ Total(c[p]) = Total(b[p]) - v
             \/ Total(c[p]) = 0 /\ Total(b[p]) - v < ExistentialDeposit
          /\ \A a \in Accounts \ {p, q} : Total(c[a]) = Total(b[a])
    BY <1>2 DEF Moves
  <2>2. Coins(b, Accounts \ {p, q}) = Coins(c, Accounts \ {p, q})
    BY SMTT(60), <2>1, CoinsSame
  <2>3. /\ Total(b[p]) \in Nat /\ Total(b[q]) \in Nat
        /\ Total(c[p]) \in Nat /\ Total(c[q]) \in Nat
    BY TotalType
  <2> DEFINE others == Cardinality(Coins(b, Accounts \ {p, q}))
  <2>4. /\ others \in Nat
        /\ Cardinality(Coins(b, Accounts)) = others + Total(b[p]) + Total(b[q])
        /\ Cardinality(Coins(c, Accounts)) = others + Total(c[p]) + Total(c[q])
    BY <2>1, <2>2, CoinsOfTwo
  <2> HIDE DEF others
  <2> QED  BY SMTT(60), <2>1, <2>3, <2>4, DepositAssumption
<1> QED  BY <1>1, <1>2

\* What is left of a reaped account is nothing, and it was dust.
LEMMA ReapedTotal ==
    ASSUME NEW a, a.free \in Nat, a.reserved \in Nat
    PROVE  \/ Total(Reap(a)) = Total(a)
           \/ Total(Reap(a)) = 0 /\ Total(a) < ExistentialDeposit
<1>1. CASE Exists(a)
  BY <1>1 DEF Reap
<1>2. CASE ~Exists(a)
  BY SMTT(60), <1>2, DepositAssumption DEF Reap, Exists, Total
<1> QED  BY <1>1, <1>2

\* A value taken from one account and put into another moves funds.
LEMMA TwoWritesMove ==
    ASSUME NEW b \in Balances, NEW p \in Accounts, NEW q \in Accounts, p # q, NEW v \in Nat,
           NEW rest, rest.free \in Nat, rest.reserved \in Nat, v <= Total(b[p]),
           Total(rest) = Total(b[p]) - v,
           NEW payee, Total(payee) = Total(b[q]) + v
    PROVE  Moves(b, [b EXCEPT ![p] = Reap(rest), ![q] = payee])
<1> DEFINE payer == Reap(rest)
<1>1. \/ Total(payer) = Total(b[p]) - v
      \/ Total(payer) = 0 /\ Total(b[p]) - v < ExistentialDeposit
  BY ReapedTotal
<1> HIDE DEF payer
<1> DEFINE c == [b EXCEPT ![p] = payer, ![q] = payee]
<1>2. c[p] = payer /\ c[q] = payee /\ \A a \in Accounts \ {p, q} : c[a] = b[a]
  BY DEF Balances
<1> HIDE DEF c
<1>3. Moves(b, c)
  BY SMTT(60), <1>1, <1>2 DEF Moves
<1> QED  BY <1>3 DEF c, payer

\* reserve and unreserve keep every total.
LEMMA ReserveKeepsTotals ==
    ASSUME NEW b \in Balances, NEW who \in Accounts, NEW v \in Nat, NEW a \in Accounts
    PROVE  /\ Total(reserve(b, who, v).bal[a]) = Total(b[a])
           /\ Total(unreserve(b, who, v).bal[a]) = Total(b[a])
<1>1. reserve(b, who, v).bal[a].free + reserve(b, who, v).bal[a].reserved =
          b[a].free + b[a].reserved
  BY SMTT(60) DEF reserve, Balances
<1>2. unreserve(b, who, v).bal[a].free + unreserve(b, who, v).bal[a].reserved =
          b[a].free + b[a].reserved
  BY SMTT(60) DEF unreserve, Lesser, Balances
<1> QED  BY <1>1, <1>2 DEF Total

\* repatriate_reserved moves funds.
LEMMA RepatriateIsMove ==
    ASSUME NEW b \in Balances, NEW p \in Accounts, NEW q \in Accounts, NEW v \in Nat
    PROVE  Moves(b, repatriate_reserved(b, p, q, v).bal)
<1>1. CASE v = 0 \/ ~repatriate_reserved(b, p, q, v).ok
  <2>1. repatriate_reserved(b, p, q, v).bal = b
    BY <1>1 DEF repatriate_reserved
  <2> QED  BY <2>1 DEF Moves
<1>2. CASE v # 0 /\ p = q
  <2>1. repatriate_reserved(b, p, q, v).bal = unreserve(b, p, v).bal
    BY <1>2 DEF repatriate_reserved
  <2>2. \A a \in Accounts : Total(unreserve(b, p, v).bal[a]) = Total(b[a])
    BY ReserveKeepsTotals
  <2> QED  BY <2>1, <2>2 DEF Moves
<1>3. CASE v # 0 /\ p # q /\ repatriate_reserved(b, p, q, v).ok
  <2> DEFINE w == Lesser(b[p].reserved, v)
  <2> DEFINE rest == [free |-> b[p].free, reserved |-> b[p].reserved - w]
  <2> DEFINE payee == [free |-> b[q].free + w, reserved |-> b[q].reserved]
  <2>1. /\ b[p].free \in Nat /\ b[p].reserved \in Nat
        /\ b[q].free \in Nat /\ b[q].reserved \in Nat
        /\ w \in Nat /\ w <= b[p].reserved
    BY SMTT(60), TotalType DEF Lesser
  <2>2. repatriate_reserved(b, p, q, v).bal = [b EXCEPT ![p] = Reap(rest), ![q] = payee]
    BY <1>3 DEF repatriate_reserved
  <2>3. /\ rest.free = b[p].free /\ rest.reserved = b[p].reserved - w
        /\ payee.free = b[q].free + w /\ payee.reserved = b[q].reserved
    OBVIOUS
  <2> HIDE DEF w, rest, payee
  <2>4. /\ rest.free \in Nat /\ rest.reserved \in Nat /\ w <= Total(b[p])
        /\ Total(rest) = Total(b[p]) - w /\ Total(payee) = Total(b[q]) + w
    BY SMTT(60), <2>1, <2>3 DEF Total
  <2>5. Moves(b, [b EXCEPT ![p] = Reap(rest), ![q] = payee])
    BY <1>3, <2>1, <2>4, TwoWritesMove
  <2> QED  BY <2>2, <2>5
<1> QED  BY <1>1, <1>2, <1>3

\* A transfer moves funds.
LEMMA TransferIsMove ==
    ASSUME NEW b \in Balances, NEW p \in Accounts, NEW q \in Accounts, NEW v \in Nat,
           CanTransfer(b, p, q, v)
    PROVE  Moves(b, transfer(b, p, q, v))
<1> DEFINE rest == [free |-> b[p].free - v, reserved |-> b[p].reserved]
<1> DEFINE payee == [free |-> b[q].free + v, reserved |-> b[q].reserved]
<1>1. /\ b[p].free \in Nat /\ b[p].reserved \in Nat
      /\ b[q].free \in Nat /\ b[q].reserved \in Nat
      /\ p # q /\ b[p].free >= v
  BY TotalType DEF CanTransfer
<1>2. transfer(b, p, q, v) = [b EXCEPT ![p] = Reap(rest), ![q] = payee]
  BY DEF transfer
<1>3. /\ rest.free = b[p].free - v /\ rest.reserved = b[p].reserved
      /\ payee.free = b[q].free + v /\ payee.reserved = b[q].reserved
  OBVIOUS
<1> HIDE DEF rest, payee
<1>4. /\ rest.free \in Nat /\ rest.reserved \in Nat /\ v <= Total(b[p])
      /\ Total(rest) = Total(b[p]) - v /\ Total(payee) = Total(b[q]) + v
  BY SMTT(60), <1>1, <1>3 DEF Total
<1>5. Moves(b, [b EXCEPT ![p] = Reap(rest), ![q] = payee])
  BY <1>1, <1>4, TwoWritesMove
<1> QED  BY <1>2, <1>5

\* Reserving the price moves nothing between accounts.
LEMMA CreatedMoves ==
    ASSUME bal \in Balances, NEW l \in Terms, Created(l)
    PROVE  Moves(bal, bal')
<1>1. l.promisee \in Accounts /\ l.economics \in Nat
  BY EconomicsAssumption, LiabilityAssumption DEF Liabilities
<1>2. bal' = on_start(bal, l).bal
  BY DEF Created
<1>3. bal' = IF OpenMarket THEN reserve(bal, l.promisee, l.economics).bal ELSE bal
  BY <1>2 DEF on_start
<1>4. \A a \in Accounts : Total(reserve(bal, l.promisee, l.economics).bal[a]) = Total(bal[a])
  BY <1>1, ReserveKeepsTotals
<1> QED  BY <1>3, <1>4 DEF Moves

\* Paying the price moves it from the promisee to the promisor.
LEMMA FinalizedMoves ==
    ASSUME TypeOK, NEW i \in Indices, NEW r \in Reports, Finalized(i, r)
    PROVE  Moves(bal, bal')
<1>1. PICK l : l = liabilityOf[i]
  OBVIOUS
<1>2. l.promisee \in Accounts /\ l.promisor \in Accounts /\ l.economics \in Nat
  BY <1>1, EconomicsAssumption DEF Liabilities, TypeOK, Finalized
<1>3. bal' = on_finish(bal, l, TRUE).bal
  BY <1>1 DEF Finalized
<1>4. bal' = IF OpenMarket
             THEN repatriate_reserved(bal, l.promisee, l.promisor, l.economics).bal ELSE bal
  BY <1>3 DEF on_finish
<1>5. bal \in Balances /\ Moves(bal, bal)
  BY DEF TypeOK, Moves
<1> QED  BY <1>2, <1>4, <1>5, RepatriateIsMove

\* Every step moves funds, if it touches the balances at all.
LEMMA StepMovesFunds ==
    ASSUME TypeOK, [Next]_vars
    PROVE  Moves(bal, bal')
<1>1. bal \in Balances /\ Moves(bal, bal)
  BY DEF TypeOK, Moves
<1>2. ASSUME NEW l \in Terms, Created(l) PROVE Moves(bal, bal')
  BY <1>1, <1>2, CreatedMoves
<1>3. ASSUME NEW i \in Indices, NEW r \in Reports, Finalized(i, r) PROVE Moves(bal, bal')
  BY <1>3, FinalizedMoves
<1>4. ASSUME NEW p \in Accounts, NEW q \in Accounts, NEW v \in TransferValues, Transfer(p, q, v)
      PROVE  Moves(bal, bal')
  <2>1. v \in Nat /\ CanTransfer(bal, p, q, v) /\ bal' = transfer(bal, p, q, v)
    BY <1>4, LiabilityAssumption DEF Transfer
  <2> QED  BY <1>1, <2>1, TransferIsMove
<1>5. CASE UNCHANGED vars \/ Failed \/ \E p \in Willing : Sign(p)
  <2>1. bal' = bal
    BY <1>5 DEF vars, Failed, Sign
  <2> QED  BY <1>1, <2>1
<1> QED
  BY <1>2, <1>3, <1>4, <1>5, CreateOutcome, FinalizeOutcome DEF Next, Holders

\* No step of the pallet or of the account holders creates currency, and what
\* the dust rule takes in one step is less than an existential deposit; this
\* needs no condition on prices.
THEOREM CurrencyIsConserved == Spec => NothingMinted
<1>1. TypeOK /\ TypeOK' /\ [Next]_vars =>
        [/\ Issuance' <= Issuance
         /\ Issuance - Issuance' < ExistentialDeposit]_vars
  <2> SUFFICES ASSUME TypeOK, TypeOK', [Next]_vars
               PROVE  Issuance' <= Issuance /\ Issuance - Issuance' < ExistentialDeposit
    OBVIOUS
  <2>1. bal \in Balances /\ bal' \in Balances /\ Moves(bal, bal')
    BY StepMovesFunds DEF TypeOK
  <2>2. Issuance = Cardinality(Coins(bal, Accounts))
    BY DEF Issuance, Coins, Units
  <2>3. Issuance' = Cardinality(Coins(bal', Accounts))
    BY DEF Issuance, Coins, Units, Total
  <2> QED  BY <2>1, <2>2, <2>3, MovesKeepIssuance
<1> QED  BY <1>1, TypeCorrect, PTL DEF Spec, NothingMinted

=============================================================================
