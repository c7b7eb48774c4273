------------------------------ MODULE RosAuthor ------------------------------
(***************************************************************************)
(* The author services of the ROS bridge over the node's transaction pool, *)
(* which is external: it also takes transactions from other nodes, makes   *)
(* blocks, keeps a transaction aside until the one it needs is there, and  *)
(* bans hashes for a time.                                                 *)
(***************************************************************************)
EXTENDS FiniteSets, TLC

CONSTANTS Txs,          \* extrinsics that decode
          Junk,         \* bytes that do not
          Needs,        \* extrinsic -> the ones that must come before it
          Keys,         \* session keys that can still be generated
          Refused       \* the error answer

ASSUME RosAuthorAssumption == Needs \in [Txs -> SUBSET Txs] /\ Junk \notin Txs

VARIABLES pool,     \* extrinsics of the pool
          banned,   \* banned hashes
          done,     \* extrinsics in a block
          keystore, \* session keys
          answer,   \* answer of the last request
          gone      \* history: hashes a caller asked to remove, ban not yet over

avars == <<pool, banned, done, keystore, answer, gone>>

AuthorInit == /\ pool = {} /\ banned = {} /\ done = {} /\ keystore = {}
              /\ answer = {} /\ gone = {}

\* The pool takes a new extrinsic that is not banned and not stale.
Accepts(xt) == xt \notin pool \cup banned \cup done

\* Extrinsics of the pool that could go into the next block, in turn: the least set
\* that has every extrinsic of the pool with all it needs in a block or in the set.
ReadyTxs ==
    {xt \in pool : \A s \in SUBSET pool :
        (\A y \in pool : Needs[y] \subseteq done \cup s => y \in s) => xt \in s}

\* Some hashes and the extrinsics of the pool that need them, directly or not: the
\* least set with the hashes and all of the pool that needs one of the set.
Subtree(hashes) ==
    {xt \in pool \cup hashes : \A s \in SUBSET (pool \cup hashes) :
        hashes \subseteq s /\ (\A y \in pool : Needs[y] \cap s # {} => y \in s) => xt \in s}

SubmitExtrinsic(ext) ==
    /\ IF ext # Junk /\ Accepts(ext)
       THEN pool' = pool \cup {ext} /\ answer' = {ext}
       ELSE answer' = {Refused} /\ UNCHANGED pool
    /\ UNCHANGED <<banned, done, keystore, gone>>

\* The ready extrinsics; those that wait for another one are not listed.
PendingExtrinsics ==
    /\ answer' = ReadyTxs
    /\ UNCHANGED <<pool, banned, done, keystore, gone>>

\* Mutant: the extrinsics are removed and not banned.
RemoveUnbanned(hashes) ==
    /\ hashes # {}
    /\ LET removed == Subtree(hashes) \cap pool
       IN  pool' = pool \ removed /\ answer' = removed
    /\ gone' = gone \cup hashes
    /\ UNCHANGED <<banned, done, keystore>>

\* remove_invalid: the hashes are banned, known or not; they and what needs them
\* leave the pool, and the caller is told what did.
RemoveExtrinsics(hashes) ==
    /\ hashes # {}
    /\ LET removed == Subtree(hashes) \cap pool
       IN  pool' = pool \ removed /\ answer' = removed
    /\ banned' = banned \cup hashes
    /\ gone' = gone \cup hashes
    /\ UNCHANGED <<done, keystore>>

\* The runtime generates new keys and puts them into the keystore.
RotateKeys ==
    /\ \/ \E k \in Keys \ keystore : keystore' = keystore \cup {k} /\ answer' = {k}
       \/ answer' = {Refused} /\ UNCHANGED keystore
    /\ UNCHANGED <<pool, banned, done, gone>>

\* The pool on its own: another node's extrinsic, a block, the end of a ban.
Gossip(xt) == Accepts(xt) /\ pool' = pool \cup {xt}
              /\ UNCHANGED <<banned, done, keystore, answer, gone>>
MakeBlockFrom(xt) == /\ xt \in pool /\ Needs[xt] \subseteq done
                     /\ pool' = pool \ {xt} /\ done' = done \cup {xt}
                     /\ UNCHANGED <<banned, keystore, answer, gone>>
BanOver(xt) == /\ xt \in banned
               /\ banned' = banned \ {xt} /\ gone' = gone \ {xt}
               /\ UNCHANGED <<pool, done, keystore, answer>>

AuthorNext == \/ \E ext \in Txs \cup {Junk} : SubmitExtrinsic(ext)
              \/ PendingExtrinsics
              \/ \E hashes \in SUBSET Txs : RemoveExtrinsics(hashes)
              \/ RotateKeys
              \/ \E xt \in Txs : Gossip(xt) \/ MakeBlockFrom(xt) \/ BanOver(xt)

AuthorSpec == AuthorInit /\ [][AuthorNext]_avars

-----------------------------------------------------------------------------
\* "Remove given extrinsic from the pool and temporarily ban it to prevent
\* reimporting": until the ban is over, no submission and no gossip brings an
\* extrinsic back that a caller asked to remove, whether it was there or not.
RemovedStaysOut == gone \cap pool = {}

=============================================================================
