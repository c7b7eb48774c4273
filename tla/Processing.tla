----------------------------- MODULE Processing -----------------------------
(***************************************************************************)
(* The economical processing of a signed liability on its own, called as   *)
(* the Processing trait lets a pallet call it: on_start once, then         *)
(* on_finish with the verdict of an oracle.  The pallet of this repository *)
(* passes the verdict TRUE only ("TODO: get parameter from oracle"); the   *)
(* trait promises an outcome for both.                                     *)
(***************************************************************************)
EXTENDS SignedLiability, Sequences, FiniteSets

CONSTANTS Terms,        \* the agreements that are processed
          Genesis,      \* the balance sheet at the beginning
          MaxStarted    \* bound on the number of agreements started

VARIABLES bal,      \* the balance sheet
          started,  \* the agreements started and not finished, oldest first
          count,    \* how many were started
          last      \* the call just made: its name, its success, the sheet before it

pvars == <<bal, started, count, last>>

Init ==
    /\ bal = Genesis
    /\ started = <<>>
    /\ count = 0
    /\ last = [call |-> "none"]

Start(l) ==
    LET r == on_start(bal, l)
    IN  /\ count < MaxStarted
        /\ bal' = r.bal
        /\ count' = count + 1
        /\ started' = IF r.ok THEN Append(started, l) ELSE started
        /\ last' = [call |-> "on_start", ok |-> r.ok, liability |-> l, before |-> bal]

\* A call that returns an error leaves the agreement unfinished.
Finish(k, success) ==
    LET l == started[k]
        r == on_finish(bal, l, success)
    IN  /\ bal' = r.bal
        /\ started' = IF r.ok
                      THEN SubSeq(started, 1, k - 1) \o SubSeq(started, k + 1, Len(started))
                      ELSE started
        /\ last' = [call |-> IF success THEN "pay" ELSE "refund", ok |-> r.ok,
                    liability |-> l, before |-> bal]
        /\ UNCHANGED count

Next ==
    \/ \E l \in Terms : Start(l)
    \/ \E k \in DOMAIN started, success \in BOOLEAN : Finish(k, success)

Spec == Init /\ [][Next]_pvars

\* A refund fails only when the promisee has less reserved than the price, as
\* its error message says (on_finish(false)).
RefundErrorIsTrue ==
    last.call = "refund" /\ ~last.ok =>
        last.before[last.liability.promisee].reserved < last.liability.economics

=============================================================================
