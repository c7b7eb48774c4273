------------------------------ MODULE IoWrite ------------------------------
(***************************************************************************)
(* The commands of the I/O crate that read standard input: the five of     *)
(* SinkCmd::run and the "ipfs" command of SourceCmd::run (called "cat").   *)
(* Each is one process.  pubsub and ros forward the lines into a channel   *)
(* that a spawned task drains; the others spawn the forwarding and forward *)
(* the answers of a remote node to standard output instead.                *)
(*                                                                         *)
(* A datalog or launch request goes to the transaction pool of a node.  All*)
(* processes sign with the same key, so the nonce of the account is the    *)
(* number of its recorded transactions; pool and chain are external.       *)
(***************************************************************************)
EXTENDS Naturals, Sequences, FiniteSets

CONSTANTS Procs,        \* running commands
          Cmds,         \* commands a process may be
          Lines,        \* what a line of input may be
          On,           \* the line "ON"
          MaxLines,     \* bound: lines on one standard input
          OutputFails,  \* fault: writing to standard output may fail
          NoCall        \* no call in flight

ASSUME IoWriteAssumption ==
    /\ Cmds \subseteq {"pubsub", "ros", "datalog", "launch", "ipfs", "cat"}
    /\ On \in Lines /\ MaxLines \in Nat /\ OutputFails \in BOOLEAN
    /\ NoCall \notin [item : [by : Procs, ix : Nat, val : Lines \cup BOOLEAN], nonce : Nat]

Feeding  == {"pubsub", "ros"}       \* block_on(stdin().forward(device))
OnChain  == {"datalog", "launch"}   \* answers come with receiver.then(submit)
Blocking == {"ipfs", "cat"}         \* answers come with receiver.map(block_on)

VARIABLES io,       \* process -> its tasks, channel and output
          device,   \* process -> lines its device has taken and answered, in order
          pool,     \* transactions of the account waiting at the node
          log       \* its recorded transactions, in block order

wvars == <<io, device, pool, log>>

Inputs == UNION {[1 .. n -> Lines] : n \in 0 .. MaxLines}

WInit ==
    /\ io \in [Procs -> [cmd : Cmds, st : {"new"}, stdin : Inputs,
                         ending : {"eof", "error"}, reader : {"off"}, chan : {<<>>}, call : {NoCall},
                         out : {<<>>}, printed : {<<>>}, read : {0}]]
    /\ device = [p \in Procs |-> <<>>]
    /\ pool = {}
    /\ log = <<>>

Running(p) == io[p].st = "running"
Exit(p, result) == io' = [io EXCEPT ![p].st = result]
Ended(p) == io[p].st \in {"ok", "err"}

-----------------------------------------------------------------------------
\* Setting a command up: keys are parsed, the swarm or the publisher is created,
\* and then the reading of standard input starts.
Setup(p) ==
    /\ io[p].st = "new"
    /\ \/ io' = [io EXCEPT ![p].st = "running", ![p].reader = "reading"]
       \/ Exit(p, "err")
    /\ UNCHANGED <<device, pool, log>>

\* What the command makes of a line before it enters the channel.
Item(p, line) == IF io[p].cmd = "launch" THEN line = On ELSE line

\* stdin(): the next line goes into the unbounded channel.
ReadLine(p) ==
    /\ Running(p) /\ io[p].reader = "reading" /\ io[p].stdin # <<>>
    /\ LET n == io[p].read + 1
       IN  io' = [io EXCEPT ![p].read = n, ![p].stdin = Tail(@),
                            ![p].chan = Append(@, [by |-> p, ix |-> n,
                                                   val |-> Item(p, Head(io[p].stdin))])]
    /\ UNCHANGED <<device, pool, log>>

\* Mutant: the task keeps a sender, so the channel never closes.
StopReadingHeldOpen(p) ==
    /\ Running(p) /\ io[p].reader = "reading" /\ io[p].stdin = <<>>
    /\ io[p].cmd \in Feeding
    /\ io' = [io EXCEPT ![p].reader = "done", ![p].st = "ok"]
    /\ UNCHANGED <<device, pool, log>>

\* The forwarding of standard input returns: at its end or at its first error.
\* It is the whole command of the feeding ones.  The result of the spawned task
\* of the others is dropped, and all that is left of it is a closed channel.
StopReading(p) ==
    /\ Running(p) /\ io[p].reader = "reading" /\ io[p].stdin = <<>>
    /\ io' = [io EXCEPT ![p].reader = "done",
                        ![p].st = IF io[p].cmd \notin Feeding THEN @
                                  ELSE IF io[p].ending = "eof" THEN "ok" ELSE "err"]
    /\ UNCHANGED <<device, pool, log>>

\* The spawned receiver.for_each hands the lines to the swarm or the topic, and
\* ignores the result.  It dies with the process.
Publish(p) ==
    /\ Running(p) /\ io[p].cmd \in Feeding /\ io[p].chan # <<>>
    /\ io' = [io EXCEPT ![p].chan = Tail(@)]
    /\ \/ device' = [device EXCEPT ![p] = Append(@, Head(io[p].chan))]
       \/ io[p].cmd = "ros" /\ UNCHANGED device
    /\ UNCHANGED <<pool, log>>

-----------------------------------------------------------------------------
\* Submitting one line: the client connects and reads the account's nonce, then
\* signs and sends.  A line is taken from the channel when the last one is answered.
Connect(p) ==
    /\ Running(p) /\ io[p].cmd \in OnChain /\ io[p].call = NoCall /\ io[p].chan # <<>>
    /\ io' = [io EXCEPT ![p].chan = Tail(@),
                        ![p].call = [item |-> Head(io[p].chan), nonce |-> Len(log)]]
    /\ UNCHANGED <<device, pool, log>>

Answered(p) == io' = [io EXCEPT ![p].call = NoCall,
                                ![p].out = Append(@, io[p].call.item.ix)]

\* The node's pool: a transaction with a used nonce is refused, one with the nonce
\* of another one is refused or, with a higher priority, takes its place.
Pooled(tx) ==
    /\ tx.nonce >= Len(log)
    /\ pool' = {t \in pool : t.nonce # tx.nonce} \cup {tx}

\* datalog::submit and launch::submit reach the node and answer with the hash ...
Submit(p) ==
    /\ Running(p) /\ io[p].call # NoCall
    /\ Pooled([item |-> io[p].call.item, nonce |-> io[p].call.nonce])
    /\ Answered(p)
    /\ UNCHANGED <<device, log>>

\* Mutant: a failed submission is tried again with the current nonce.
SubmitRetried(p) ==
    /\ Running(p) /\ io[p].call # NoCall
    /\ \/ UNCHANGED pool
       \/ Pooled([item |-> io[p].call.item, nonce |-> io[p].call.nonce])
    /\ io' = [io EXCEPT ![p].call = [@ EXCEPT !.nonce = Len(log)]]
    /\ UNCHANGED <<device, log>>

\* ... or fail: no connection, a robot address that does not parse, a transaction
\* that is refused, or an answer that is lost on the way back.  The first failure
\* ends the command, and what its output still buffers is lost.
SubmitFails(p) ==
    /\ Running(p) /\ io[p].call # NoCall
    /\ \/ UNCHANGED pool
       \/ Pooled([item |-> io[p].call.item, nonce |-> io[p].call.nonce])
    /\ Exit(p, "err")
    /\ UNCHANGED <<device, log>>

\* ipfs add and cat block the polling thread until the node has answered.
Transfer(p) ==
    /\ Running(p) /\ io[p].cmd \in Blocking /\ io[p].chan # <<>>
    /\ \/ /\ device' = [device EXCEPT ![p] = Append(@, Head(io[p].chan))]
          /\ io' = [io EXCEPT ![p].chan = Tail(@),
                              ![p].out = Append(@, Head(io[p].chan).ix)]
       \/ Exit(p, "err") /\ UNCHANGED device
    /\ UNCHANGED <<pool, log>>

\* forward(stdout()): the answers are flushed while the next one is not there yet.
Flush(p) ==
    /\ Running(p) /\ io[p].out # <<>>
    /\ io[p].call # NoCall \/ io[p].chan = <<>>
    /\ \/ io' = [io EXCEPT ![p].printed = @ \o io[p].out, ![p].out = <<>>]
       \/ OutputFails /\ Exit(p, "err")
    /\ UNCHANGED <<device, pool, log>>

\* Mutant: the output is dropped instead of closed.
FinishUnflushed(p) ==
    /\ Running(p) /\ io[p].cmd \notin Feeding
    /\ io[p].reader = "done" /\ io[p].chan = <<>> /\ io[p].call = NoCall
    /\ Exit(p, "ok")
    /\ UNCHANGED <<device, pool, log>>

\* The channel is closed and empty: the output is flushed and closed.
Finish(p) ==
    /\ Running(p) /\ io[p].cmd \notin Feeding
    /\ io[p].reader = "done" /\ io[p].chan = <<>> /\ io[p].call = NoCall
    /\ \/ io' = [io EXCEPT ![p].printed = @ \o io[p].out, ![p].out = <<>>, ![p].st = "ok"]
       \/ OutputFails /\ io[p].out # <<>> /\ Exit(p, "err")
    /\ UNCHANGED <<device, pool, log>>

\* The node puts the account's next transaction into a block.
MakeBlock ==
    \E tx \in pool :
        /\ tx.nonce = Len(log)
        /\ log' = Append(log, tx.item)
        /\ pool' = pool \ {tx}
        /\ UNCHANGED <<io, device>>

Step(p) == \/ Setup(p) \/ ReadLine(p) \/ StopReading(p) \/ Publish(p) \/ Connect(p)
           \/ Submit(p) \/ SubmitFails(p) \/ Transfer(p) \/ Flush(p) \/ Finish(p)

WNext == MakeBlock \/ \E p \in Procs : Step(p)

WSpec == WInit /\ [][WNext]_wvars

\* A running process has two tasks, one that reads standard input and one that empties
\* the channel.  Both are scheduled, and a remote call ends somehow.
WFair ==
    \A p \in Procs :
        /\ WF_wvars(ReadLine(p) \/ StopReading(p))
        /\ WF_wvars(\/ Publish(p) \/ Connect(p) \/ Submit(p) \/ SubmitFails(p)
                    \/ Transfer(p) \/ Flush(p) \/ Finish(p))

FairWSpec == WSpec /\ WFair

-----------------------------------------------------------------------------
\* Two processes write with one key, answers get lost and transactions replace each
\* other; still every line becomes at most one recorded transaction, and the lines
\* of one process are recorded in the order in which it read them.
RecordsFollowInput ==
    \A i, j \in DOMAIN log : i < j /\ log[i].by = log[j].by => log[i].ix < log[j].ix

\* A command that ends with success has printed one answer for every line that it
\* read, in the order of the lines: forward closes, and so flushes, its output.
SuccessAnswersAll ==
    \A p \in Procs : io[p].st = "ok" /\ io[p].cmd \notin Feeding =>
        io[p].printed = [i \in 1 .. io[p].read |-> i]

\* Standard input ends, so every command that was set up ends: closing the channel
\* ends the stream of answers, which ends the forwarding to standard output.
CommandEnds == \A p \in Procs : Running(p) ~> Ended(p)
=============================================================================
