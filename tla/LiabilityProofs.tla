--------------------------- MODULE LiabilityProofs ---------------------------
(***************************************************************************)
(* Proofs about the liability pallet, alone and behind the nodes'          *)
(* transaction pools, for any accounts, terms, prices, balances and number *)
(* of liabilities.                                                         *)
(***************************************************************************)
EXTENDS LiabilityPool, FiniteSetTheorems, TLAPS

\* A leaf is for Zenon unless it names another prover.
USE ZenonT(60)

-----------------------------------------------------------------------------
\* What the currency and the economical processing return.

\* unreserve returns a balance sheet.
LEMMA UnreserveType ==
    ASSUME NEW b \in Balances, NEW who \in Accounts, NEW v \in Nat
    PROVE  unreserve(b, who, v).bal \in Balances
BY SMTT(60) DEF unreserve, Balances, Lesser

\* reserve returns a balance sheet and whether it succeeded.
LEMMA ReserveType ==
    ASSUME NEW b \in Balances, NEW who \in Accounts, NEW v \in Nat
    PROVE  /\ reserve(b, who, v).ok \in BOOLEAN
           /\ reserve(b, who, v).bal \in Balances
BY SMTT(60) DEF reserve, Balances

\* repatriate_reserved returns a balance sheet and whether it succeeded.
LEMMA RepatriateType ==
    ASSUME NEW b \in Balances, NEW p \in Accounts, NEW q \in Accounts, NEW v \in Nat
    PROVE  /\ repatriate_reserved(b, p, q, v).ok \in BOOLEAN
           /\ repatriate_reserved(b, p, q, v).bal \in Balances
<1>1. CASE v = 0
  BY <1>1 DEF repatriate_reserved
<1>2. CASE v # 0 /\ p = q
  BY <1>2, UnreserveType DEF repatriate_reserved
<1>3. CASE v # 0 /\ p # q
  BY SMTT(60), <1>3, DepositAssumption DEF repatriate_reserved, Balances, Lesser, Reap
<1> QED  BY <1>1, <1>2, <1>3

\* on_start returns a balance sheet and whether it succeeded.
LEMMA OnStartType ==
    ASSUME NEW b \in Balances, NEW l \in Liabilities
    PROVE  /\ on_start(b, l).ok \in BOOLEAN
           /\ on_start(b, l).bal \in Balances
<1>1. l.promisee \in Accounts /\ l.economics \in Nat
  BY EconomicsAssumption DEF Liabilities
<1> QED  BY <1>1, ReserveType DEF on_start

\* on_finish, as the pallet calls it, returns a balance sheet and whether it
\* succeeded.
LEMMA OnFinishType ==
    ASSUME NEW b \in Balances, NEW l \in Liabilities
    PROVE  /\ on_finish(b, l, TRUE).ok \in BOOLEAN
           /\ on_finish(b, l, TRUE).bal \in Balances
<1>1. l.promisee \in Accounts /\ l.promisor \in Accounts /\ l.economics \in Nat
  BY EconomicsAssumption DEF Liabilities
<1> QED  BY <1>1, RepatriateType DEF on_finish

\* A transfer that may be made returns a balance sheet.
LEMMA TransferType ==
    ASSUME NEW b \in Balances, NEW p \in Accounts, NEW q \in Accounts, NEW v \in Nat,
           CanTransfer(b, p, q, v)
    PROVE  transfer(b, p, q, v) \in Balances
BY SMTT(60) DEF CanTransfer, transfer, Balances, Reap

-----------------------------------------------------------------------------
\* What a dispatch does, in two cases each.

\* Processing that fails returns the balance sheet it was given.
LEMMA FailedProcessing ==
    ASSUME NEW b, NEW l
    PROVE  /\ ~on_start(b, l).ok => on_start(b, l).bal = b
           /\ ~on_finish(b, l, TRUE).ok => on_finish(b, l, TRUE).bal = b
BY DEF on_start, on_finish, reserve, repatriate_reserved

Failed ==
    /\ result' \in Results \ {"Ok", "None"}
    /\ UNCHANGED <<latestIndex, liabilityOf, isFinalized, reportOf, events, bal, signed>>

Created(l) ==
    /\ proof_params(l.technics, l.economics, l.promisee) \in signed
    /\ proof_params(l.technics, l.economics, l.promisor) \in signed
    /\ on_start(bal, l).ok
    /\ bal' = on_start(bal, l).bal
    /\ liabilityOf' = [liabilityOf EXCEPT ![latestIndex] = l]
    /\ latestIndex' = latestIndex + 1
    /\ events' = Append(events, [ev |-> "NewLiability", index |-> latestIndex, what |-> l])
    /\ result' = "Ok"
    /\ UNCHANGED <<isFinalized, reportOf, signed>>

Finalized(i, r) ==
    /\ ~isFinalized[i]
    /\ liabilityOf[i] # NoBytes
    /\ proof_report(i, r, liabilityOf[i].promisor) \in signed
    /\ on_finish(bal, liabilityOf[i], TRUE).ok
    /\ bal' = on_finish(bal, liabilityOf[i], TRUE).bal
    /\ reportOf' = [reportOf EXCEPT ![i] = r]
    /\ isFinalized' = [isFinalized EXCEPT ![i] = TRUE]
    /\ events' = Append(events, [ev |-> "NewReport", index |-> i, what |-> r])
    /\ result' = "Ok"
    /\ UNCHANGED <<latestIndex, liabilityOf, signed>>

\* A create call fails without a trace or stores its liability.
LEMMA CreateOutcome ==
    ASSUME Create
    PROVE  latestIndex < MaxIndex /\ (Failed \/ \E l \in Terms : Created(l))
<1>1. PICK o \in Origins, l \in Terms, p \in signed, q \in signed :
          create(o, CreateCall(l, p, q))
  BY DEF Create
<1> DEFINE c == CreateCall(l, p, q)
<1>2. l = new(c.liability.technics, c.liability.economics,
              c.liability.promisee, c.liability.promisor)
  BY LiabilityAssumption DEF new, CreateCall, Liabilities
<1>3. c.promisee_proof \in signed /\ c.promisor_proof \in signed
  BY DEF CreateCall
<1>4. create(o, c)
  BY <1>1
<1> HIDE DEF c
<1>5. Failed \/ Created(l)
  BY <1>2, <1>3, <1>4, FailedProcessing
  DEF create, StoreLiability, check_params, Failed, Created, Results
<1> QED  BY <1>5 DEF Create

\* A finalize call fails without a trace or stores its report.
LEMMA FinalizeOutcome ==
    ASSUME Finalize
    PROVE  Failed \/ \E i \in Indices, r \in Reports : Finalized(i, r)
<1>1. PICK o \in Origins, i \in Indices, r \in Reports, p \in signed :
          finalize(o, FinalizeCall(i, r, p))
  BY DEF Finalize
<1> DEFINE c == FinalizeCall(i, r, p)
<1>2. c.index = i /\ c.report = r /\ c.proof \in signed
  BY DEF FinalizeCall
<1>3. finalize(o, c)
  BY <1>1
<1> HIDE DEF c
<1>4. Failed \/ Finalized(i, r)
  BY <1>2, <1>3, FailedProcessing
  DEF finalize, Publish, FailFinalize, StoreReport, check_report, Failed, Finalized, Results
<1> QED  BY <1>4

-----------------------------------------------------------------------------
\* Types, numbering and consent.

\* Everything has its type at genesis.
LEMMA TypeInit == Init => TypeOK
BY SMTT(60), LiabilityAssumption DEF Init, TypeOK, Results

\* Every step keeps the types.
LEMMA TypeStep == TypeOK /\ [Next]_vars => TypeOK'
<1> SUFFICES ASSUME TypeOK, [Next]_vars PROVE TypeOK'
  OBVIOUS
<1>1. CASE Failed
  BY <1>1 DEF Failed, TypeOK
<1>2. ASSUME NEW l \in Terms, Created(l), latestIndex < MaxIndex PROVE TypeOK'
  <2>1. l \in Liabilities /\ latestIndex \in Indices /\ latestIndex' \in 0 .. MaxIndex
    BY SMTT(60), <1>2, LiabilityAssumption DEF Created, TypeOK, Indices
  <2>2. bal' \in Balances
    BY <1>2, <2>1, OnStartType DEF Created, TypeOK
  <2>3. events' \in Seq(Events)
    BY SMTT(60), <1>2, <2>1 DEF Created, TypeOK, Events
  <2> QED  BY <1>2, <2>1, <2>2, <2>3 DEF Created, TypeOK, Results
<1>3. ASSUME NEW i \in Indices, NEW r \in Reports, Finalized(i, r) PROVE TypeOK'
  <2>1. liabilityOf[i] \in Liabilities
    BY <1>3 DEF Finalized, TypeOK
  <2>2. bal' \in Balances
    BY <1>3, <2>1, OnFinishType DEF Finalized, TypeOK
  <2>3. events' \in Seq(Events)
    BY SMTT(60), <1>3 DEF Finalized, TypeOK, Events
  <2> QED  BY <1>3, <2>2, <2>3 DEF Finalized, TypeOK, Results
<1>4. ASSUME NEW p \in Willing, Sign(p) PROVE TypeOK'
  BY <1>4, LiabilityAssumption DEF Sign, TypeOK, Results
<1>5. ASSUME NEW p \in Accounts, NEW q \in Accounts, NEW v \in TransferValues, Transfer(p, q, v)
      PROVE  TypeOK'
  <2>1. bal' \in Balances
    BY <1>5, TransferType, LiabilityAssumption DEF Transfer, TypeOK
  <2> QED  BY <1>5, <2>1 DEF Transfer, TypeOK, Results
<1>6. CASE UNCHANGED vars
  BY <1>6 DEF vars, TypeOK
<1> QED
  BY <1>1, <1>2, <1>3, <1>4, <1>5, <1>6, CreateOutcome, FinalizeOutcome DEF Next, Holders

\* The calls, the signatures and the transfers keep every storage item, event
\* and balance in its type, for any genesis and any terms; no balance is ever
\* negative.
THEOREM TypeCorrect == Spec => []TypeOK
BY TypeInit, TypeStep, PTL DEF Spec

\* A dispatch that fails writes nothing: every check, and the economical
\* processing with its own checks, comes before the first write.
THEOREM FailureIsClean == Spec => FailureWritesNothing
<1>1. [Next]_vars => [result' \notin {"Ok", "None"} => UNCHANGED <<storage, events, bal>>]_vars
  <2> SUFFICES ASSUME Next, result' \notin {"Ok", "None"}
               PROVE  UNCHANGED <<storage, events, bal>>
    OBVIOUS
  <2>1. Failed
    BY CreateOutcome, FinalizeOutcome DEF Next, Holders, Sign, Transfer, Created, Finalized
  <2> QED  BY <2>1 DEF Failed, storage
<1> QED  BY <1>1, PTL DEF Spec, FailureWritesNothing

\* LatestIndex is the number of liabilities stored, they occupy the indices
\* below it, and only a stored liability is finalized.
Slots ==
    \A i \in Indices : /\ Exist(i) <=> i < latestIndex
                       /\ isFinalized[i] => Exist(i)

\* A step either keeps the pallet's storage and its events, stores a liability
\* at LatestIndex or finalizes one; the proofs signed are never taken back.
LEMMA StepShape ==
    ASSUME TypeOK, [Next]_vars
    PROVE  /\ signed \subseteq signed'
           /\ \/ UNCHANGED <<storage, events>>
              \/ latestIndex < MaxIndex /\ \E l \in Terms : Created(l)
              \/ \E i \in Indices, r \in Reports : Finalized(i, r)
<1>1. CASE UNCHANGED vars
  BY <1>1 DEF vars, storage
<1>2. CASE Holders
  BY <1>2 DEF Holders, Sign, Transfer, storage
<1>3. CASE Create
  BY <1>3, CreateOutcome DEF Failed, Created, storage
<1>4. CASE Finalize
  BY <1>4, FinalizeOutcome DEF Failed, Finalized, storage
<1> QED  BY <1>1, <1>2, <1>3, <1>4 DEF Next

\* Numbering is preserved by every step.
LEMMA SlotsStep == TypeOK /\ Slots /\ [Next]_vars => Slots'
<1> SUFFICES ASSUME TypeOK, Slots, [Next]_vars PROVE Slots'
  OBVIOUS
<1>1. CASE UNCHANGED storage
  BY <1>1 DEF storage, Slots, Exist
<1>2. ASSUME NEW l \in Terms, Created(l), latestIndex < MaxIndex PROVE Slots'
  <2>1. l # NoBytes /\ latestIndex \in Nat /\ latestIndex \in Indices
    BY SMTT(60), <1>2, LiabilityAssumption DEF TypeOK, Indices
  <2>2. /\ \A i \in Indices : liabilityOf'[i] = IF i = latestIndex THEN l ELSE liabilityOf[i]
        /\ isFinalized' = isFinalized /\ latestIndex' = latestIndex + 1
    BY <1>2, <2>1 DEF Created, TypeOK
  <2>3. ASSUME NEW i \in Indices PROVE i < latestIndex' <=> i < latestIndex \/ i = latestIndex
    BY SMTT(60), <2>1, <2>2 DEF Indices
  <2> QED  BY <2>1, <2>2, <2>3 DEF Slots, Exist
<1>3. ASSUME NEW i \in Indices, NEW r \in Reports, Finalized(i, r) PROVE Slots'
  BY <1>3 DEF Finalized, Slots, Exist, TypeOK
<1> QED  BY <1>1, <1>2, <1>3, StepShape

\* The numbering holds initially.
LEMMA SlotsInit == Init => Slots
BY SMTT(60), LiabilityAssumption DEF Init, Slots, Exist, Indices

\* A step rewrites nothing that is stored: create writes at an index that was
\* free, finalize refuses a finalized liability.
LEMMA StoredStep ==
    ASSUME TypeOK, Slots, [Next]_vars, NEW i \in Indices
    PROVE  /\ Exist(i) => liabilityOf'[i] = liabilityOf[i]
           /\ isFinalized[i] => isFinalized'[i] /\ reportOf'[i] = reportOf[i]
<1>1. CASE UNCHANGED storage
  BY <1>1 DEF storage
<1>2. ASSUME NEW l \in Terms, Created(l), latestIndex < MaxIndex
      PROVE  /\ Exist(i) => liabilityOf'[i] = liabilityOf[i]
             /\ isFinalized[i] => isFinalized'[i] /\ reportOf'[i] = reportOf[i]
  BY SMTT(60), <1>2 DEF Created, Slots, TypeOK
<1>3. ASSUME NEW j \in Indices, NEW r \in Reports, Finalized(j, r)
      PROVE  /\ Exist(i) => liabilityOf'[i] = liabilityOf[i]
             /\ isFinalized[i] => isFinalized'[i] /\ reportOf'[i] = reportOf[i]
  BY <1>3 DEF Finalized, TypeOK
<1> QED  BY <1>1, <1>2, <1>3, StepShape

\* What create and finalize have stored never changes again, for any calls in
\* any order.
THEOREM StoredForGood == Spec => WrittenOnce
<1>1. TypeOK /\ Slots /\ [Next]_vars =>
        [\A i \in Indices :
            /\ Exist(i) => liabilityOf'[i] = liabilityOf[i]
            /\ isFinalized[i] => isFinalized'[i] /\ reportOf'[i] = reportOf[i]]_vars
  BY StoredStep
<1> QED  BY <1>1, SlotsInit, SlotsStep, TypeCorrect, PTL DEF Spec, WrittenOnce

\* No liability without both signatures, no report without the promisor's, for
\* any order of signing, creating and finalizing.
THEOREM ConsentGiven == Spec => []Consent
<1>1. Init => Consent
  BY DEF Init, Consent, Exist
<1>2. TypeOK /\ Slots /\ Consent /\ [Next]_vars => Consent'
  <2> SUFFICES ASSUME TypeOK, Slots, Consent, [Next]_vars PROVE Consent'
    OBVIOUS
  <2>1. CASE UNCHANGED storage
    BY <2>1, StepShape DEF storage, Consent, Exist
  <2>2. ASSUME NEW l \in Terms, Created(l), latestIndex < MaxIndex PROVE Consent'
    BY SMTT(60), <2>2 DEF Created, Consent, Exist, Slots, TypeOK, Indices
  <2>3. ASSUME NEW i \in Indices, NEW r \in Reports, Finalized(i, r) PROVE Consent'
    BY <2>3 DEF Finalized, Consent, Exist, TypeOK
  <2> QED  BY <2>1, <2>2, <2>3, StepShape
<1> QED  BY <1>1, <1>2, SlotsInit, SlotsStep, TypeCorrect, PTL DEF Spec

-----------------------------------------------------------------------------
\* The events.

\* An appended event comes last and moves none of the others.
LEMMA AppendedEvent ==
    ASSUME NEW s \in Seq(Events), NEW e \in Events, NEW t, t = Append(s, e)
    PROVE  /\ t \in Seq(Events)
           /\ Len(t) \in DOMAIN t /\ t[Len(t)] = e
           /\ DOMAIN t = DOMAIN s \cup {Len(t)}
           /\ \A n \in DOMAIN s : t[n] = s[n] /\ n \in Nat /\ n < Len(t)
BY SMTT(60)

\* The positions of the events of a kind.
Told(kind) == {n \in DOMAIN events : events[n].ev = kind}

\* Every event says what is stored, everything stored has its event, and the
\* events are in the order of the indices, the liability's before the report's.
EventsMatch ==
    /\ IsFiniteSet(Told("NewLiability"))
    /\ Cardinality(Told("NewLiability")) = latestIndex
    /\ \A n \in DOMAIN events :
          IF events[n].ev = "NewLiability"
          THEN /\ events[n].index < latestIndex
               /\ events[n].what = liabilityOf[events[n].index]
          ELSE /\ isFinalized[events[n].index]
               /\ events[n].what = reportOf[events[n].index]
    /\ \A i \in Indices : Exist(i) => \E n \in Told("NewLiability") : events[n].index = i
    /\ \A i \in Indices : isFinalized[i] => \E n \in Told("NewReport") : events[n].index = i
    /\ \A m, n \in DOMAIN events :
          m < n => /\ events[m].index = events[n].index =>
                        events[m].ev = "NewLiability" /\ events[n].ev = "NewReport"
                   /\ m \in Told("NewLiability") /\ n \in Told("NewLiability") =>
                        events[m].index < events[n].index

\* An event names its kind and an index.
LEMMA EventType ==
    ASSUME TypeOK, NEW n \in DOMAIN events
    PROVE  /\ events[n] \in Events
           /\ events[n].ev \in {"NewLiability", "NewReport"}
           /\ events[n].index \in Indices
<1>1. events[n] \in Events
  BY SMTT(60) DEF TypeOK
<1> QED  BY <1>1 DEF Events

\* The matching events tell the storage.
LEMMA MatchingTell == TypeOK /\ Slots /\ EventsMatch => EventsTellStorage
<1> SUFFICES ASSUME TypeOK, Slots, EventsMatch PROVE EventsTellStorage
  OBVIOUS
<1>1. ASSUME NEW i \in Indices
      PROVE  Exist(i) <=> \E n \in Told("NewLiability") :
                               events[n].index = i /\ events[n].what = liabilityOf[i]
  BY SMTT(60), EventType DEF EventsMatch, Told, Slots
<1>2. ASSUME NEW i \in Indices
      PROVE  isFinalized[i] <=> \E n \in Told("NewReport") :
                               events[n].index = i /\ events[n].what = reportOf[i]
  BY SMTT(60), EventType DEF EventsMatch, Told
<1> QED  BY <1>1, <1>2 DEF EventsTellStorage, EventsMatch, Told

\* A created liability's event is the last, with the greatest index.
LEMMA CreatedIsTold ==
    ASSUME TypeOK, Slots, EventsMatch, latestIndex < MaxIndex, NEW l \in Terms, Created(l)
    PROVE  EventsMatch'
<1> DEFINE e == [ev |-> "NewLiability", index |-> latestIndex, what |-> l]
<1> DEFINE k == Len(events')
<1>1. latestIndex \in Indices /\ latestIndex \in Nat /\ l \in Liabilities /\ l # NoBytes
  BY SMTT(60), LiabilityAssumption DEF TypeOK, Indices
<1>2. e \in Events
  BY <1>1 DEF Events
<1>3. /\ k \in DOMAIN events' /\ events'[k] = e
      /\ DOMAIN events' = DOMAIN events \cup {k}
      /\ \A n \in DOMAIN events : events'[n] = events[n] /\ n \in Nat /\ n < k
      /\ k \in Nat
  BY SMTT(60), <1>2, AppendedEvent DEF Created, TypeOK
<1>4. events'[k].ev = "NewLiability" /\ events'[k].index = latestIndex /\ events'[k].what = l
  BY SMTT(60), <1>3
<1> HIDE DEF e, k
<1>5. Told("NewLiability")' = Told("NewLiability") \cup {k} /\ k \notin Told("NewLiability")
  BY SMTT(60), <1>3, <1>4 DEF Told
<1>6. IsFiniteSet(Told("NewLiability"))' /\ Cardinality(Told("NewLiability"))' = latestIndex'
  <2>1. latestIndex' = latestIndex + 1
    BY DEF Created
  <2> QED  BY SMTT(60), <1>5, <2>1, FS_AddElement DEF EventsMatch
<1>7. Told("NewReport")' = Told("NewReport")
  BY <1>3, <1>4 DEF Told
<1>8. /\ liabilityOf'[latestIndex] = l
      /\ \A i \in Indices \ {latestIndex} : liabilityOf'[i] = liabilityOf[i]
      /\ isFinalized' = isFinalized /\ reportOf' = reportOf /\ latestIndex' = latestIndex + 1
  BY <1>1 DEF Created, TypeOK
<1>9. \A i \in Indices : Exist(i)' <=> Exist(i) \/ i = latestIndex
  BY <1>1, <1>8 DEF Exist, Slots
<1>10. ASSUME NEW n \in DOMAIN events
       PROVE  /\ events[n].index \in Indices /\ events[n].index \in Nat
              /\ events[n].index < latestIndex
  <2>1. events[n].index \in Indices /\ events[n].ev \in {"NewLiability", "NewReport"}
    BY EventType
  <2> QED  BY SMTT(60), <2>1 DEF EventsMatch, Slots, Indices
<1>11. ASSUME NEW n \in DOMAIN events'
       PROVE  IF events'[n].ev = "NewLiability"
              THEN /\ events'[n].index < latestIndex'
                   /\ events'[n].what = liabilityOf'[events'[n].index]
              ELSE /\ isFinalized'[events'[n].index]
                   /\ events'[n].what = reportOf'[events'[n].index]
  <2>1. CASE n = k
    BY SMTT(60), <1>1, <1>4, <1>8, <2>1
  <2>2. CASE n # k
    <3>1. n \in DOMAIN events /\ events'[n] = events[n]
      BY <1>3, <2>2
    <3>2. events[n].index \in Indices \ {latestIndex} /\ events[n].index < latestIndex + 1
      BY SMTT(60), <1>1, <1>10, <3>1
    <3> QED  BY SMTT(60), <1>8, <3>1, <3>2 DEF EventsMatch
  <2> QED  BY <2>1, <2>2
<1>12. ASSUME NEW i \in Indices, Exist(i)'
       PROVE  \E n \in Told("NewLiability")' : events'[n].index = i
  <2>1. CASE i = latestIndex
    BY <1>4, <1>5, <2>1
  <2>2. CASE i # latestIndex
    <3>1. PICK n \in Told("NewLiability") : events[n].index = i
      BY <1>9, <1>12, <2>2 DEF EventsMatch
    <3>2. n \in Told("NewLiability")' /\ events'[n].index = i
      BY <1>3, <1>5, <3>1 DEF Told
    <3> QED  BY <3>2
  <2> QED  BY <2>1, <2>2
<1>13. ASSUME NEW i \in Indices, isFinalized'[i]
       PROVE  \E n \in Told("NewReport")' : events'[n].index = i
  <2>1. PICK n \in Told("NewReport") : events[n].index = i
    BY <1>8, <1>13 DEF EventsMatch
  <2>2. n \in Told("NewReport")' /\ events'[n].index = i
    BY <1>3, <1>7, <2>1 DEF Told
  <2> QED  BY <2>2
<1>14. ASSUME NEW m \in DOMAIN events', NEW n \in DOMAIN events', m < n
       PROVE  /\ events'[m].index = events'[n].index =>
                   events'[m].ev = "NewLiability" /\ events'[n].ev = "NewReport"
              /\ m \in Told("NewLiability")' /\ n \in Told("NewLiability")' =>
                   events'[m].index < events'[n].index
  <2>1. m \in DOMAIN events /\ events'[m] = events[m] /\ m # k
    BY SMTT(60), <1>3, <1>14
  <2>2. m \in Told("NewLiability")' <=> m \in Told("NewLiability")
    BY <1>5, <2>1
  <2>3. CASE n = k
    BY SMTT(60), <1>4, <1>1, <1>10, <2>1, <2>3
  <2>4. CASE n # k
    <3>1. n \in DOMAIN events /\ events'[n] = events[n]
      BY <1>3, <2>4
    <3>2. n \in Told("NewLiability")' <=> n \in Told("NewLiability")
      BY <1>5, <2>4
    <3> QED  BY SMTT(60), <1>14, <2>1, <2>2, <3>1, <3>2 DEF EventsMatch
  <2> QED  BY <2>3, <2>4
<1> QED  BY <1>6, <1>11, <1>12, <1>13, <1>14 DEF EventsMatch

\* A report's event is the last, the first report for its index.
LEMMA FinalizedIsTold ==
    ASSUME TypeOK, Slots, EventsMatch, NEW j \in Indices, NEW r \in Reports, Finalized(j, r)
    PROVE  EventsMatch'
<1> DEFINE e == [ev |-> "NewReport", index |-> j, what |-> r]
<1> DEFINE k == Len(events')
<1>2. e \in Events
  BY DEF Events
<1>3. /\ k \in DOMAIN events' /\ events'[k] = e
      /\ DOMAIN events' = DOMAIN events \cup {k}
      /\ \A n \in DOMAIN events : events'[n] = events[n] /\ n \in Nat /\ n < k
      /\ k \in Nat
  BY SMTT(60), <1>2, AppendedEvent DEF Finalized, TypeOK
<1>4. events'[k].ev = "NewReport" /\ events'[k].index = j /\ events'[k].what = r
  BY SMTT(60), <1>3
<1> HIDE DEF e, k
<1>5. Told("NewLiability")' = Told("NewLiability")
  BY <1>3, <1>4 DEF Told
<1>7. Told("NewReport")' = Told("NewReport") \cup {k}
  BY <1>3, <1>4 DEF Told
<1>8. /\ reportOf'[j] = r /\ isFinalized'[j] /\ ~isFinalized[j]
      /\ \A i \in Indices \ {j} : reportOf'[i] = reportOf[i] /\ isFinalized'[i] = isFinalized[i]
      /\ liabilityOf' = liabilityOf /\ latestIndex' = latestIndex
  BY DEF Finalized, TypeOK
<1>11. ASSUME NEW n \in DOMAIN events'
       PROVE  IF events'[n].ev = "NewLiability"
              THEN /\ events'[n].index < latestIndex'
                   /\ events'[n].what = liabilityOf'[events'[n].index]
              ELSE /\ isFinalized'[events'[n].index]
                   /\ events'[n].what = reportOf'[events'[n].index]
  <2>1. CASE n = k
    BY <1>4, <1>8, <2>1
  <2>2. CASE n # k
    <3>1. n \in DOMAIN events /\ events'[n] = events[n]
      BY <1>3, <2>2
    <3>2. events[n].index \in Indices
      BY <3>1, EventType
    <3> QED  BY SMTT(60), <1>8, <3>1, <3>2 DEF EventsMatch
  <2> QED  BY <2>1, <2>2
<1>12. ASSUME NEW i \in Indices, Exist(i)'
       PROVE  \E n \in Told("NewLiability")' : events'[n].index = i
  <2>1. PICK n \in Told("NewLiability") : events[n].index = i
    BY <1>8, <1>12 DEF EventsMatch, Exist
  <2>2. n \in Told("NewLiability")' /\ events'[n].index = i
    BY <1>3, <1>5, <2>1 DEF Told
  <2> QED  BY <2>2
<1>13. ASSUME NEW i \in Indices, isFinalized'[i]
       PROVE  \E n \in Told("NewReport")' : events'[n].index = i
  <2>1. CASE i = j
    BY <1>4, <1>7, <2>1
  <2>2. CASE i # j
    <3>1. PICK n \in Told("NewReport") : events[n].index = i
      BY <1>8, <1>13, <2>2 DEF EventsMatch
    <3>2. n \in Told("NewReport")' /\ events'[n].index = i
      BY <1>3, <1>7, <3>1 DEF Told
    <3> QED  BY <3>2
  <2> QED  BY <2>1, <2>2
<1>14. ASSUME NEW m \in DOMAIN events', NEW n \in DOMAIN events', m < n
       PROVE  /\ events'[m].index = events'[n].index =>
                   events'[m].ev = "NewLiability" /\ events'[n].ev = "NewReport"
              /\ m \in Told("NewLiability")' /\ n \in Told("NewLiability")' =>
                   events'[m].index < events'[n].index
  <2>1. m \in DOMAIN events /\ events'[m] = events[m] /\ m # k
    BY SMTT(60), <1>3, <1>14
  <2>3. CASE n = k
    <3>1. events[m].index = j => events[m].ev = "NewLiability"
      BY SMTT(60), <1>8, <2>1, EventType DEF EventsMatch
    <3>2. n \notin Told("NewLiability")'
      BY <1>4, <2>3 DEF Told
    <3> QED  BY <1>4, <2>1, <2>3, <3>1, <3>2
  <2>4. CASE n # k
    <3>1. n \in DOMAIN events /\ events'[n] = events[n]
      BY <1>3, <2>4
    <3> QED  BY SMTT(60), <1>5, <1>14, <2>1, <3>1 DEF EventsMatch
  <2> QED  BY <2>3, <2>4
<1> QED  BY <1>5, <1>8, <1>11, <1>12, <1>13, <1>14 DEF EventsMatch

\* The events deposited are a complete and ordered account of the storage.
THEOREM EventsAreAccount == Spec => []EventsTellStorage
<1>1. Init => EventsMatch
  <2> SUFFICES ASSUME Init PROVE EventsMatch
    OBVIOUS
  <2>1. Told("NewLiability") = {} /\ DOMAIN events = {}
    BY SMTT(60) DEF Init, Told
  <2>2. IsFiniteSet({}) /\ Cardinality({}) = 0
    BY FS_EmptySet
  <2>3. \A i \in Indices : ~Exist(i) /\ ~isFinalized[i]
    BY DEF Init, Exist
  <2>4. latestIndex = 0
    BY DEF Init
  <2> QED  BY <2>1, <2>2, <2>3, <2>4 DEF EventsMatch
<1>2. TypeOK /\ Slots /\ EventsMatch /\ [Next]_vars => EventsMatch'
  <2> SUFFICES ASSUME TypeOK, Slots, EventsMatch, [Next]_vars PROVE EventsMatch'
    OBVIOUS
  <2>1. CASE UNCHANGED <<storage, events>>
    BY SMTT(60), <2>1 DEF storage, EventsMatch, Told, Exist
  <2> QED  BY <2>1, StepShape, CreatedIsTold, FinalizedIsTold
<1> QED  BY <1>1, <1>2, MatchingTell, SlotsInit, SlotsStep, TypeCorrect, PTL DEF Spec

-----------------------------------------------------------------------------
(* Behind the transaction pools, for any number of nodes and any longevity. *)

\* A pooled entry has its three fields, and its call is one a client can make.
Entry(e) ==
    /\ e = [call |-> e.call, tag |-> e.tag, age |-> e.age]
    /\ e.call \in CreateCalls \cup FinalizeCalls

\* The pools hold such entries, and their calls are valid.
PoolsOK ==
    /\ pools = [n \in Nodes |-> pools[n]]
    /\ \A n \in Nodes : \A e \in pools[n] : Entry(e) /\ validate_unsigned(e.call) = "Valid"

\* A call says which one it is.
LEMMA CallKinds ==
    /\ \A c \in CreateCalls : c.fn = "create"
    /\ \A c \in FinalizeCalls : c.fn = "finalize" /\ c.index \in Indices
BY SMTT(60) DEF CreateCalls, FinalizeCalls, CreateCall, FinalizeCall

\* To author a block with a pooled call is to dispatch the call; the other
\* steps leave the pallet alone or are the account holders'.
LEMMA PoolStepIsStep ==
    ASSUME PoolsOK, [PoolNext]_pvars
    PROVE  [Next]_vars
<1>1. ASSUME NEW n \in Nodes, NEW e \in pools[n], Author(n, e) PROVE Next
  <2>1. e.call \in CreateCalls \cup FinalizeCalls
    BY DEF PoolsOK, Entry
  <2>2. CASE e.call.fn = "create" /\ latestIndex < MaxIndex /\ create("None", e.call)
    <3>1. PICK l \in Terms, p \in signed, q \in signed : e.call = CreateCall(l, p, q)
      BY SMTT(60), <2>1, <2>2, CallKinds DEF CreateCalls
    <3> QED  BY <2>2, <3>1 DEF Create, Origins, Next
  <2>3. CASE e.call.fn = "finalize" /\ finalize("None", e.call)
    <3>1. PICK i \in Indices, r \in Reports, p \in signed : e.call = FinalizeCall(i, r, p)
      BY SMTT(60), <2>1, <2>3, CallKinds DEF FinalizeCalls
    <3> QED  BY <2>3, <3>1 DEF Finalize, Origins, Next
  <2> QED  BY <1>1, <2>2, <2>3 DEF Author
<1>2. CASE UNCHANGED vars
  BY <1>2
<1>3. ASSUME NEW n \in Nodes, NEW c, Submit(n, c) PROVE UNCHANGED vars
  BY <1>3 DEF Submit
<1>4. CASE NewBlock
  BY <1>4 DEF NewBlock
<1>5. CASE Holders
  BY <1>5 DEF Next
<1> QED  BY <1>1, <1>2, <1>3, <1>4, <1>5 DEF PoolNext, pvars

\* A call that is valid stays valid: proofs do not expire, and the liability a
\* report is for keeps its parameters.
LEMMA ValidForGood ==
    ASSUME TypeOK, Slots, [Next]_vars, NEW c \in CreateCalls \cup FinalizeCalls,
           validate_unsigned(c) = "Valid"
    PROVE  c \in (CreateCalls \cup FinalizeCalls)' /\ validate_unsigned(c)' = "Valid"
<1>1. signed \subseteq signed'
  BY StepShape
<1>2. c \in (CreateCalls \cup FinalizeCalls)'
  BY SMTT(60), <1>1 DEF CreateCalls, FinalizeCalls
<1>3. CASE c \in CreateCalls
  BY <1>2, <1>3, CallKinds DEF validate_unsigned, ValidateCreate, check_params
<1>4. CASE c \in FinalizeCalls
  <2>1. c.fn = "finalize" /\ c.index \in Indices
    BY <1>4, CallKinds
  <2>2. Exist(c.index)
    BY <2>1 DEF validate_unsigned, ValidateFinalize, Exist
  <2>3. liabilityOf'[c.index] = liabilityOf[c.index]
    BY <2>1, <2>2, StoredStep
  <2> QED  BY <1>2, <2>1, <2>3 DEF validate_unsigned, ValidateFinalize, check_report
<1> QED  BY <1>3, <1>4

\* Every step keeps the pools in order.
LEMMA PoolsStep == TypeOK /\ Slots /\ PoolsOK /\ [PoolNext]_pvars => PoolsOK'
<1> SUFFICES ASSUME TypeOK, Slots, PoolsOK, [PoolNext]_pvars PROVE PoolsOK'
  OBVIOUS
<1>0. [Next]_vars
  BY PoolStepIsStep
<1>1. ASSUME NEW n \in Nodes, NEW e \in pools[n]
      PROVE  /\ e = [call |-> e.call, tag |-> e.tag, age |-> e.age]
             /\ e.call \in (CreateCalls \cup FinalizeCalls)'
             /\ validate_unsigned(e.call)' = "Valid"
  BY <1>0, ValidForGood DEF PoolsOK, Entry
<1>2. ASSUME pools' = [n \in Nodes |-> pools'[n]],
             \A n \in Nodes : \A e \in pools'[n] :
                 /\ e = [call |-> e.call, tag |-> e.tag, age |-> e.age]
                 /\ e.call \in (CreateCalls \cup FinalizeCalls)'
                 /\ validate_unsigned(e.call)' = "Valid"
      PROVE  PoolsOK'
  BY <1>2 DEF PoolsOK, Entry
<1>3. CASE UNCHANGED pools
  BY <1>1, <1>2, <1>3 DEF PoolsOK
<1>4. ASSUME NEW n \in Nodes, NEW c \in CreateCalls \cup FinalizeCalls, Submit(n, c)
      PROVE  PoolsOK'
  <2> DEFINE e == [call |-> c, tag |-> provides(c), age |-> 0]
  <2>1. e.call = c /\ e = [call |-> e.call, tag |-> e.tag, age |-> e.age]
    OBVIOUS
  <2>2. c \in (CreateCalls \cup FinalizeCalls)' /\ validate_unsigned(c)' = "Valid"
    BY <1>0, <1>4, ValidForGood DEF Submit
  <2>3. pools' = [pools EXCEPT ![n] = @ \cup {e}]
    BY <1>4 DEF Submit
  <2> HIDE DEF e
  <2>4. /\ pools' = [m \in Nodes |-> pools'[m]]
        /\ \A m \in Nodes : pools'[m] \subseteq pools[m] \cup {e}
    BY <2>3 DEF PoolsOK
  <2> QED  BY <1>1, <1>2, <2>1, <2>2, <2>4
<1>5. ASSUME NEW n \in Nodes, NEW e \in pools[n], Author(n, e) PROVE PoolsOK'
  <2>1. pools' = [m \in Nodes |-> {f \in pools[m] : f.tag # e.tag}]
    BY <1>5 DEF Author
  <2> QED  BY <1>1, <1>2, <2>1
<1>6. CASE NewBlock
  <2>1. pools' = [m \in Nodes |->
                    {[e EXCEPT !.age = @ + 1] : e \in {f \in pools[m] : f.age + 1 < Longevity}}]
    BY <1>6 DEF NewBlock
  <2>2. ASSUME NEW m \in Nodes, NEW f \in pools'[m]
        PROVE  /\ f = [call |-> f.call, tag |-> f.tag, age |-> f.age]
               /\ f.call \in (CreateCalls \cup FinalizeCalls)'
               /\ validate_unsigned(f.call)' = "Valid"
    <3>1. PICK e \in pools[m] : f = [e EXCEPT !.age = @ + 1]
      BY <2>1
    <3>2. e = [call |-> e.call, tag |-> e.tag, age |-> e.age]
      BY <1>1
    <3>3. f = [call |-> e.call, tag |-> e.tag, age |-> e.age + 1]
      BY <3>1, <3>2
    <3>4. f.call = e.call /\ f.tag = e.tag /\ f.age = e.age + 1
      BY <3>3
    <3> QED  BY <1>1, <3>3, <3>4
  <2> QED  BY <1>2, <2>1, <2>2
<1> QED  BY <1>3, <1>4, <1>5, <1>6 DEF PoolNext, pvars

\* The pools only ever pass calls on: what the nodes do together is a behaviour
\* of the pallet, so everything proved of the pallet holds behind the pools.
THEOREM PoolsImplementPallet == PoolSpec => Spec
<1>1. PoolInit => Init /\ PoolsOK
  BY DEF PoolInit, PoolsOK
<1>2. PoolsOK /\ [PoolNext]_pvars => [Next]_vars
  BY PoolStepIsStep
<1>3. Init => TypeOK /\ Slots
  BY TypeInit, SlotsInit
<1>4. TypeOK /\ Slots /\ [Next]_vars => TypeOK' /\ Slots'
  BY TypeStep, SlotsStep
<1> QED  BY <1>1, <1>2, <1>3, <1>4, PoolsStep, PTL DEF PoolSpec, Spec

\* A call that validate_unsigned accepted is acceptable for as long as it is in
\* a pool, whatever the blocks of other nodes do.
THEOREM PooledCallsStayValid == PoolSpec => []PooledStaysValid
<1>1. PoolInit => PoolsOK
  BY DEF PoolInit, PoolsOK
<1>2. PoolsOK => PooledStaysValid
  BY DEF PoolsOK, PooledStaysValid
<1> QED
  BY <1>1, <1>2, PoolsImplementPallet, PoolsStep, TypeCorrect, SlotsStep, SlotsInit, PTL
  DEF PoolSpec, Spec

\* Behind the pools of any number of nodes, what is stored never changes again,
\* although the same report may wait in several pools at once.
THEOREM PoolsWriteOnce == PoolSpec => WrittenOnce
BY PoolsImplementPallet, StoredForGood, PTL

=============================================================================
