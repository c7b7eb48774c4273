------------------------------- MODULE IoRead -------------------------------
(***************************************************************************)
(* The commands of SourceCmd::run that wait for a device: a spawned task,  *)
(* the swarm's worker or a ROS callback puts what arrives into an unbounded*)
(* channel, and the command forwards the channel to standard output.       *)
(***************************************************************************)
EXTENDS Naturals, Sequences

CONSTANTS Kinds,        \* commands to consider
          Payloads,     \* readings, messages or launch events
          Garbage,      \* bytes that are no event, or no UTF-8 string
          Broken,       \* a failed query, or a subscription that ended
          NoString,     \* the line "<no string>"
          MaxArrivals   \* bound: arrivals in one run

ASSUME IoReadAssumption ==
    /\ Kinds \subseteq {"sds011", "pubsub", "launch", "ros"}
    /\ MaxArrivals \in Nat /\ Garbage \notin Payloads /\ Broken \notin Payloads

VARIABLES kind,     \* the command
          rst,      \* "new", "running", "ok", "err"
          task,     \* "off", "connecting", "listening", "dead"
          inbox,    \* the channel
          buffered, \* lines written to standard output and not flushed
          shown,    \* lines on standard output
          came      \* history: what arrived while the task was listening

rvars == <<kind, rst, task, inbox, buffered, shown, came>>

RInit ==
    /\ kind \in Kinds /\ rst = "new" /\ task = "off"
    /\ inbox = <<>> /\ buffered = <<>> /\ shown = <<>> /\ came = <<>>

\* The device is opened, the swarm or the subscriber created, or this fails.
\* launch() spawns its task before there is a connection.
ROpen ==
    /\ rst = "new"
    /\ \/ rst' = "running" /\ task' = IF kind = "launch" THEN "connecting" ELSE "listening"
       \/ kind # "launch" /\ rst' = "err" /\ UNCHANGED task
    /\ UNCHANGED <<kind, inbox, buffered, shown, came>>

\* launch::listen(remote).await.unwrap()
Listen ==
    /\ rst = "running" /\ task = "connecting"
    /\ task' \in {"listening", "dead"}
    /\ UNCHANGED <<kind, rst, inbox, buffered, shown, came>>

\* What may arrive at each command, and what of it is put into the channel.  The
\* ROS callback builds a sending future and drops it unpolled.
Arrivals ==
    Payloads \cup (IF kind \in {"pubsub", "launch"} THEN {Garbage} ELSE {})
             \cup (IF kind \in {"sds011", "launch"} THEN {Broken} ELSE {})

Queued(e) == \/ kind \in {"sds011", "pubsub"}
             \/ kind = "launch" /\ e \in Payloads

\* Mutant: a subscription that ended is asked for its next event for ever.
ArriveUnwatched(e) ==
    /\ rst = "running" /\ task = "listening" /\ Len(came) < MaxArrivals
    /\ e \in Arrivals
    /\ came' = Append(came, e)
    /\ inbox' = IF Queued(e) /\ e # Broken THEN Append(inbox, e) ELSE inbox
    /\ UNCHANGED <<kind, rst, task, buffered, shown>>

\* A query, an event or a message.  unwrap() of a subscription's end is a panic.
Arrive(e) ==
    /\ rst = "running" /\ task = "listening" /\ Len(came) < MaxArrivals
    /\ e \in Arrivals
    /\ came' = Append(came, e)
    /\ inbox' = IF Queued(e) THEN Append(inbox, e) ELSE inbox
    /\ task' = IF kind = "launch" /\ e = Broken THEN "dead" ELSE task
    /\ UNCHANGED <<kind, rst, buffered, shown>>

\* The line that a payload becomes: its encoding, or a stand-in for other bytes.
Rendered(e) == IF e = Garbage THEN NoString ELSE e

\* Mutant: bytes that are no string are skipped.
ForwardStringsOnly ==
    /\ rst = "running" /\ inbox # <<>>
    /\ inbox' = Tail(inbox)
    /\ IF Head(inbox) = Broken
       THEN rst' = "err" /\ UNCHANGED buffered
       ELSE /\ buffered' = IF Head(inbox) = Garbage THEN buffered
                           ELSE Append(buffered, Rendered(Head(inbox)))
            /\ UNCHANGED rst
    /\ UNCHANGED <<kind, task, shown, came>>

\* forward(stdout()): an item is written; the first error ends the command.
Forward ==
    /\ rst = "running" /\ inbox # <<>>
    /\ inbox' = Tail(inbox)
    /\ IF Head(inbox) = Broken
       THEN rst' = "err" /\ UNCHANGED buffered
       ELSE buffered' = Append(buffered, Rendered(Head(inbox))) /\ UNCHANGED rst
    /\ UNCHANGED <<kind, task, shown, came>>

\* ... and the output is flushed while the channel is empty, or that fails.
FlushShown ==
    /\ rst = "running" /\ inbox = <<>> /\ buffered # <<>>
    /\ \/ shown' = shown \o buffered /\ buffered' = <<>> /\ UNCHANGED rst
       \/ rst' = "err" /\ UNCHANGED <<shown, buffered>>
    /\ UNCHANGED <<kind, task, inbox, came>>

\* The task has panicked: the process is aborted, or only the task is gone and the
\* channel closes.
PanicEnds ==
    /\ rst = "running" /\ task = "dead"
    /\ \/ rst' = "err" /\ UNCHANGED <<shown, buffered>>
       \/ /\ inbox = <<>> /\ rst' = "ok"
          /\ shown' = shown \o buffered /\ buffered' = <<>>
    /\ UNCHANGED <<kind, task, inbox, came>>

RStep == ROpen \/ Listen \/ Forward \/ FlushShown \/ PanicEnds

RNext == RStep \/ \E e \in Payloads \cup {Garbage, Broken} : Arrive(e)

\* The runtime polls the command and the task it spawned; what arrives is up to the
\* world.
RFair == /\ WF_rvars(ROpen \/ Forward \/ FlushShown \/ PanicEnds)
         /\ WF_rvars(Listen)

RSpec == RInit /\ [][RNext]_rvars /\ RFair

-----------------------------------------------------------------------------
\* What should be shown for the arrivals: a reading or a string for each, and a line
\* for each decodable launch event; nothing after a failed query.
ShouldShow(s) ==
    LET Wanted(e) == e # Broken /\ (kind = "launch" => e # Garbage)
        lines == SelectSeq(s, Wanted)
    IN  [i \in DOMAIN lines |-> IF lines[i] = Garbage THEN NoString ELSE lines[i]]

\* Every arrival is shown while the command runs, rendered, at its place and once: an
\* idle forward() flushes, and nothing is lost or overtakes in channel and buffer.
ArrivalsShown ==
    \A n \in 1 .. MaxArrivals :
        (Len(ShouldShow(came)) >= n)
            ~> (\/ rst \in {"ok", "err"}
                \/ Len(shown) >= n /\ SubSeq(shown, 1, n) = SubSeq(ShouldShow(came), 1, n))

\* A failed query or an ended subscription ends the command: a dead task leaves
\* nobody waiting for an open channel.
BreakageEnds == (\E i \in DOMAIN came : came[i] = Broken) ~> (rst \in {"ok", "err"})

=============================================================================
