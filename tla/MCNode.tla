------------------------------- MODULE MCNode -------------------------------
(***************************************************************************)
(* The node and what runs in it: its start, the publishers, services and   *)
(* author API of the ROS bridge, and of the runtime the datalog, votes,    *)
(* fees and the transactions of off-chain workers.  These share no state,  *)
(* so a behaviour is about one part, chosen at the start; the others rest  *)
(* in an initial state.                                                    *)
(***************************************************************************)
EXTENDS NodeStartup, RosChain, RosAuthor, Datalog, Votes, FeeFlow, TxEra

CONSTANTS Parts, t1, t2, t3

VARIABLE part

AllParts == {"startup", "publishers", "services", "author", "datalog", "votes",
             "fees", "era"}

ASSUME PartsAssumption == Parts \subseteq AllParts

-----------------------------------------------------------------------------
(* Constants.                                                              *)

\* Of three extrinsics the second needs the first and the third the second.
MCNeeds == (t1 :> {}) @@ (t2 :> {t1}) @@ (t3 :> {t2})

\* A user and the authority's stash; either may be emptied by a dispatch and be
\* the author afterwards.
MCHolders == {"bob", "alice_stash"}

\* Tables of five to twelve hashes, so that periods of four and of eight blocks
\* occur, on chains long enough for several of them.
MCHashCounts == {5, 6, 8, 9, 12}

-----------------------------------------------------------------------------
(* One part at a time.                                                     *)

\* Bound: the blocks that services read.
ServeBlocks == 3

\* A command line that stands for all of them.
OneConf ==
    /\ conf.cmd = "node" /\ conf.chain = "dev" /\ conf.file = "dev"
    /\ conf.role = "Full" /\ ~conf.parachain /\ ~conf.offchain /\ ~conf.grandpa

ThisNodeInit ==
    /\ part \in Parts
    /\ NodeInit /\ (part # "startup" => OneConf)
    /\ IF part = "services" THEN ServeInit ELSE RosInit
    /\ AuthorInit
    /\ Init
    /\ VInit
    /\ FInit /\ (part # "fees" => /\ network = CHOOSE r \in Runtimes : TRUE
                                 /\ author = CHOOSE a \in Holders : TRUE)
    /\ EInit /\ (part # "era" => count = Max(HashCounts))

\* No topic shows a justification, so in "publishers" none is kept.
ThisNodeNext ==
    /\ UNCHANGED part
    /\ \/ part = "startup" /\ NodeNext
          /\ UNCHANGED <<rcvars, avars, vars, vvars, fvars, evars>>
       \/ part = "publishers" /\ PublishNext /\ justified' = {}
          /\ UNCHANGED <<nvars, avars, vars, vvars, fvars, evars>>
       \/ part = "services" /\ ServeNext /\ Cardinality(known') <= ServeBlocks
          /\ UNCHANGED <<nvars, avars, vars, vvars, fvars, evars>>
       \/ part = "author" /\ AuthorNext
          /\ UNCHANGED <<nvars, rcvars, vars, vvars, fvars, evars>>
       \/ part = "datalog" /\ Next
          /\ UNCHANGED <<nvars, rcvars, avars, vvars, fvars, evars>>
       \/ part = "votes" /\ VNext
          /\ UNCHANGED <<nvars, rcvars, avars, vars, fvars, evars>>
       \/ part = "fees" /\ FNext
          /\ UNCHANGED <<nvars, rcvars, avars, vars, vvars, evars>>
       \/ part = "era" /\ ENext
          /\ UNCHANGED <<nvars, rcvars, avars, vars, vvars, fvars>>

Starting == part = "startup"

\* The fairness of NodeSpec and of PublishSpec, each where its part moves.
ThisNodeFair ==
    /\ WF_nvars(Starting /\ LoadSpec) /\ WF_nvars(Starting /\ Dispatch)
    /\ WF_nvars(Starting /\ Stage) /\ WF_nvars(Starting /\ Ready)
    /\ WF_nvars(Starting /\ Supervise)
    /\ \A t \in SystemTopics : WF_rcvars(part = "publishers" /\ PublishSystem(t))

ThisNodeSpec ==
    /\ ThisNodeInit
    /\ [][ThisNodeNext]_<<part, nvars, rcvars, avars, vars, vvars, fvars, evars>>
    /\ ThisNodeFair
=============================================================================
