---------------------------- MODULE LiabilityPool ----------------------------
(***************************************************************************)
(* The liability pallet behind the transaction pools of a network of       *)
(* nodes.  Both calls of the pallet are unsigned, so validate_unsigned is  *)
(* all that stands between a submitted call and a block: a node runs it    *)
(* when a call reaches its pool, and every node runs it again, on the      *)
(* state of that later moment, before a block dispatches the call.         *)
(*                                                                         *)
(* The pool and the block author are the Substrate node's (external).  A   *)
(* pooled call occupies the tag it provides: another call with the same    *)
(* tag and, as here, the same priority is refused, and a block that        *)
(* contains a call prunes the tag from every pool.  A call that no block   *)
(* picked up is dropped after as many blocks as its longevity says.        *)
(***************************************************************************)
EXTENDS Liability

CONSTANTS Nodes,        \* nodes that pool calls and author blocks
          Longevity     \* blocks a pooled call lives (64 in the code)

ASSUME PoolAssumption == Longevity \in Nat \ {0}

VARIABLE pools      \* node -> the calls in its pool, with their tag and age

pvars == <<vars, pools>>

-----------------------------------------------------------------------------

ValidateCreate(c) ==
    IF /\ check_params(c.liability, c.promisee_proof, c.liability.promisee)
       /\ check_params(c.liability, c.promisor_proof, c.liability.promisor)
    THEN "Valid" ELSE "BadProof"

ValidateFinalize(c) ==
    IF liabilityOf[c.index] = NoBytes THEN "Call"
    ELSE IF check_report(liabilityOf[c.index], c.index, c.report, c.proof)
         THEN "Valid" ELSE "BadProof"

\* Faulty for a pooled call: its verdict depends on state that other calls change.
ValidateWhileOpen(c) ==
    IF c.fn = "create" THEN ValidateCreate(c)
    ELSE IF isFinalized[c.index] THEN "Stale" ELSE ValidateFinalize(c)

validate_unsigned(c) ==
    IF c.fn = "create" THEN ValidateCreate(c) ELSE ValidateFinalize(c)

\* The encoded parameters without the proofs.
provides(c) ==
    IF c.fn = "create"
    THEN <<c.liability.technics, c.liability.economics,
           c.liability.promisee, c.liability.promisor>>
    ELSE <<c.index, c.report>>

\* A client submits a call, or a peer propagates it, to a node.
Submit(n, c) ==
    /\ validate_unsigned(c) = "Valid"
    /\ \A e \in pools[n] : e.tag # provides(c)
    /\ pools' = [pools EXCEPT ![n] = @ \cup {[call |-> c, tag |-> provides(c), age |-> 0]}]
    /\ UNCHANGED vars

\* A node authors a block with a call of its pool, if the call is still valid;
\* every node executes it.
Author(n, e) ==
    /\ e \in pools[n]
    /\ validate_unsigned(e.call) = "Valid"
    /\ \/ e.call.fn = "create" /\ latestIndex < MaxIndex /\ create("None", e.call)
       \/ e.call.fn = "finalize" /\ finalize("None", e.call)
    /\ pools' = [m \in Nodes |-> {f \in pools[m] : f.tag # e.tag}]

\* Faulty: calls never expire.
NewBlockKeepsAll ==
    /\ pools' = [n \in Nodes |->
                   {[e EXCEPT !.age = Lesser(@ + 1, Longevity - 1)] : e \in pools[n]}]
    /\ UNCHANGED vars

\* A block is finished: the pooled calls grow older, the oldest are dropped.
NewBlock ==
    /\ pools' = [n \in Nodes |->
                   {[e EXCEPT !.age = @ + 1] : e \in {f \in pools[n] : f.age + 1 < Longevity}}]
    /\ UNCHANGED vars

CreateCalls == {CreateCall(l, p, q) : l \in Terms, p, q \in signed}
FinalizeCalls == {FinalizeCall(i, r, p) : i \in Indices, r \in Reports, p \in signed}

PoolInit == Init /\ pools = [n \in Nodes |-> {}]

PoolNext ==
    \/ \E n \in Nodes, c \in CreateCalls \cup FinalizeCalls : Submit(n, c)
    \/ \E n \in Nodes : \E e \in pools[n] : Author(n, e)
    \/ NewBlock
    \/ Holders /\ UNCHANGED pools

\* Blocks keep being made (the slots of block production never stop).
PoolSpec == PoolInit /\ [][PoolNext]_pvars /\ WF_pvars(NewBlock)

-----------------------------------------------------------------------------

Tags == {<<l.technics, l.economics, l.promisee, l.promisor>> : l \in Terms}
          \cup (Indices \X Reports)

\* What validate_unsigned accepted stays acceptable for as long as it is
\* pooled, whatever other nodes' blocks do to the state in the meantime: no
\* author ever has to drop a call before dispatching it.
PooledStaysValid ==
    \A n \in Nodes : \A e \in pools[n] : validate_unsigned(e.call) = "Valid"

\* A call does not occupy its tag for ever: it is executed, or it expires, and
\* the same terms or the same report can be submitted again.
PooledCallsLeave ==
    \A n \in Nodes, t \in Tags :
        (\E e \in pools[n] : e.tag = t) ~> (\A e \in pools[n] : e.tag # t)

=============================================================================
