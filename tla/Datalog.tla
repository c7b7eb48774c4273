------------------------------- MODULE Datalog -------------------------------
(***************************************************************************)
(* The datalog pallet (frame/datalog/src/lib.rs): every account has a log  *)
(* of time-tagged records that it appends to and erases by signed calls.   *)
(* The time is that of the block a call is in; the timestamp pallet        *)
(* (external) sets it once per block, later than the block before.         *)
(***************************************************************************)
EXTENDS Naturals, Sequences, FiniteSets

CONSTANTS Accounts,     \* account identifiers
          Records,      \* record contents
          MaxTime,      \* bound on the time
          MaxEvents     \* bound on the calls made

ASSUME DatalogAssumption == MaxTime \in Nat /\ MaxEvents \in Nat

VARIABLES datalog,  \* Datalog: account -> (moment, record) pairs, oldest first
          now,      \* the time of the current block
          events    \* the events deposited so far, oldest first

vars == <<datalog, now, events>>

Init ==
    /\ datalog = [a \in Accounts |-> <<>>]
    /\ now = 0
    /\ events = <<>>

\* Faulty: the newest record is put in front.
RecordInFront(sender, r) ==
    /\ datalog' = [datalog EXCEPT ![sender] = <<<<now, r>>>> \o @]
    /\ events' = Append(events, [ev |-> "NewRecord", who |-> sender, entry |-> <<now, r>>])
    /\ UNCHANGED now

record(sender, r) ==
    /\ datalog' = [datalog EXCEPT ![sender] = Append(@, <<now, r>>)]
    /\ events' = Append(events, [ev |-> "NewRecord", who |-> sender, entry |-> <<now, r>>])
    /\ UNCHANGED now

\* Faulty: only the oldest record is removed.
EraseOldest(sender) ==
    /\ datalog' = [datalog EXCEPT ![sender] = IF @ = <<>> THEN @ ELSE Tail(@)]
    /\ events' = Append(events, [ev |-> "Erased", who |-> sender])
    /\ UNCHANGED now

erase(sender) ==
    /\ datalog' = [datalog EXCEPT ![sender] = <<>>]
    /\ events' = Append(events, [ev |-> "Erased", who |-> sender])
    /\ UNCHANGED now

NextBlock(time) ==
    /\ time > now
    /\ now' = time
    /\ UNCHANGED <<datalog, events>>

\* A call's origin: signed by an account, or not signed, and then refused.
Next ==
    \/ /\ Len(events) < MaxEvents
       /\ \E sender \in Accounts :
             \/ \E r \in Records : record(sender, r)
             \/ erase(sender)
    \/ \E time \in 0 .. MaxTime : NextBlock(time)

Spec == Init /\ [][Next]_vars

-----------------------------------------------------------------------------

\* The log of every account holds pairs of a moment and a record.
TypeOK ==
    /\ datalog \in [Accounts -> Seq((0 .. MaxTime) \X Records)]
    /\ now \in 0 .. MaxTime

\* The records announced for an account since it was last erased.
Standing(a) ==
    {n \in DOMAIN events : /\ events[n].who = a /\ events[n].ev = "NewRecord"
                           /\ \A m \in DOMAIN events :
                                  events[m].who = a /\ events[m].ev = "Erased" => m < n}

\* The place of a number in a set of numbers.
Rank(n, S) == Cardinality({m \in S : m <= n})

\* What an observer learns from the events is what the storage holds: the log of
\* an account is the records announced for it since it was last erased, with
\* their times, in the order of the events.
LogsReplayEvents ==
    \A a \in Accounts :
        /\ Len(datalog[a]) = Cardinality(Standing(a))
        /\ \A n \in Standing(a) : datalog[a][Rank(n, Standing(a))] = events[n].entry

\* Every log is in the order of time, and holds nothing from the future.
TimesOrdered ==
    \A a \in Accounts :
        /\ \A i, j \in DOMAIN datalog[a] : i <= j => datalog[a][i][1] <= datalog[a][j][1]
        /\ \A i \in DOMAIN datalog[a] : datalog[a][i][1] <= now

=============================================================================
