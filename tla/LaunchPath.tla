----------------------------- MODULE LaunchPath -----------------------------
(***************************************************************************)
(* From one command to another through the chain: commands of IoWrite      *)
(* submit launches and datalog records, the launch pallet turns a recorded *)
(* launch into a NewLaunch event, and a launch command of IoRead shows it. *)
(* A recorded item is the payload of its event.                            *)
(***************************************************************************)
EXTENDS IoWrite, IoRead

ASSUME LaunchPathAssumption ==
    Garbage \notin [by : Procs, ix : Nat, val : Lines \cup BOOLEAN]

lpvars == <<wvars, rvars>>

IsLaunch(item) == io[item.by].cmd = "launch"

\* Mutant: the subscription passes the events of every pallet.
NotifyAll(item) ==
    IF kind = "launch" /\ rst = "running" /\ task = "listening"
    THEN Arrive(item)
    ELSE UNCHANGED rvars

\* The launch call deposits NewLaunch, and launch::listen filters the events of a
\* new block for it.  A listener that is not connected yet misses the event.
Notify(item) ==
    IF kind = "launch" /\ rst = "running" /\ task = "listening" /\ IsLaunch(item)
    THEN Arrive(item)
    ELSE UNCHANGED rvars

Written   == (\E p \in Procs : Step(p)) /\ UNCHANGED rvars
Shown     == RStep /\ UNCHANGED wvars
Executed  == MakeBlock /\ Notify(log'[Len(log')])

\* Something else arrives: a NewLaunch of a runtime whose fields do not decode, a
\* lost connection, or a block with an event that the decoder, which knows those of
\* balances and launch, has no types for.
Disturbed == (\E e \in {Garbage, Broken} : Arrive(e)) /\ UNCHANGED wvars

LaunchNext == Written \/ Shown \/ Executed \/ Disturbed
LaunchSpec == WInit /\ RInit /\ [][LaunchNext]_lpvars

-----------------------------------------------------------------------------
\* The places of the launches in the record.
LaunchPlaces == {i \in DOMAIN log : IsLaunch(log[i])}

\* The lines are the launches at these places, in the order of the record, and no
\* launch between two of them is left out.
AreAt(lines, at) ==
    /\ \A k \in DOMAIN lines : at[k] \in LaunchPlaces /\ lines[k] = log[at[k]]
    /\ \A j, k \in DOMAIN lines : j < k => at[j] < at[k]
    /\ \A i \in LaunchPlaces : \A j, k \in DOMAIN lines :
           at[j] < i /\ i < at[k] => \E m \in DOMAIN lines : at[m] = i

\* From the typed line through SinkCmd::launch, the chain and launch::listen to the
\* line on another standard output: what a launch command shows is a contiguous
\* piece of the recorded launches.  None is shown twice, none is skipped between
\* two shown ones, none is shown before it is recorded and no other record is taken
\* for one.
LaunchesShownAsRecorded ==
    kind = "launch" =>
        LET lines == shown \o buffered
        IN  \E at \in [DOMAIN lines -> DOMAIN log] : AreAt(lines, at)

=============================================================================
