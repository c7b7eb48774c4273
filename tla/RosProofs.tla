----------------------------- MODULE RosProofs ------------------------------
(***************************************************************************)
(* Proofs about the ROS bridge: what is announced, what the services       *)
(* answer, and what stays out of the transaction pool.                     *)
(***************************************************************************)
EXTENDS RosChain, RosAuthor, FiniteSetTheorems, TLAPS

\* A leaf is for Zenon unless it names another prover.
USE ZenonT(60)

-----------------------------------------------------------------------------
(* The author services.                                                    *)

BannedOK == gone \subseteq banned /\ banned \cap pool = {}

\* Until its ban is over, nothing brings an extrinsic back that a caller asked to
\* remove, whatever it needs and whatever needs it.
THEOREM RemovedStays == AuthorSpec => []RemovedStaysOut
<1>1. AuthorInit => BannedOK
  BY DEF AuthorInit, BannedOK
<1>2. BannedOK /\ [AuthorNext]_avars => BannedOK'
  <2> SUFFICES ASSUME BannedOK, [AuthorNext]_avars  PROVE BannedOK'
    OBVIOUS
  <2> USE DEF BannedOK
  <2>1. CASE UNCHANGED avars
    BY <2>1 DEF avars
  <2>2. ASSUME NEW ext \in Txs \cup {Junk}, SubmitExtrinsic(ext)  PROVE BannedOK'
    BY <2>2 DEF SubmitExtrinsic, Accepts
  <2>3. CASE PendingExtrinsics
    BY <2>3 DEF PendingExtrinsics
  <2>4. ASSUME NEW hashes \in SUBSET Txs, RemoveExtrinsics(hashes)  PROVE BannedOK'
    <3>1. hashes \subseteq Subtree(hashes)
      BY DEF Subtree
    <3>2. pool' \cap hashes = {} /\ pool' \subseteq pool
      BY <2>4, <3>1 DEF RemoveExtrinsics
    <3> QED  BY <2>4, <3>2 DEF RemoveExtrinsics
  <2>5. CASE RotateKeys
    BY <2>5 DEF RotateKeys
  <2>6. ASSUME NEW xt \in Txs, Gossip(xt)  PROVE BannedOK'
    BY <2>6 DEF Gossip, Accepts
  <2>7. ASSUME NEW xt \in Txs, MakeBlockFrom(xt)  PROVE BannedOK'
    BY <2>7 DEF MakeBlockFrom
  <2>8. ASSUME NEW xt \in Txs, BanOver(xt)  PROVE BannedOK'
    BY <2>8 DEF BanOver
  <2> QED  BY <2>1, <2>2, <2>3, <2>4, <2>5, <2>6, <2>7, <2>8 DEF AuthorNext
<1>3. BannedOK => RemovedStaysOut
  BY DEF BannedOK, RemovedStaysOut
<1> QED  BY <1>1, <1>2, <1>3, PTL DEF AuthorSpec

-----------------------------------------------------------------------------
(* Sequences: prefixes, the first of a queue, and new best blocks.         *)

\* A prefix, element by element.
LEMMA PrefixAt ==
  ASSUME NEW S, NEW s \in Seq(S), NEW t \in Seq(S)
  PROVE  IsPrefix(s, t) <=> Len(s) <= Len(t) /\ \A i \in 1 .. Len(s) : s[i] = t[i]
<1>1. ASSUME NEW n \in 0 .. Len(s), NEW u \in Seq(S), Len(u) >= n
      PROVE  SubSeq(u, 1, n) = [i \in 1 .. n |-> u[i]]
  BY SMTT(60), <1>1
<1>2. Len(s) \in 0 .. Len(s)
  BY SMTT(60)
<1>3. SubSeq(s, 1, Len(s)) = [i \in 1 .. Len(s) |-> s[i]]
  BY SMTT(60), <1>1, <1>2
<1>4. ASSUME Len(s) <= Len(t)
      PROVE  SubSeq(t, 1, Len(s)) = [i \in 1 .. Len(s) |-> t[i]]
  BY <1>1, <1>2, <1>4
<1> QED  BY SMTT(60), <1>3, <1>4 DEF IsPrefix

\* A sequence is its own prefix.
LEMMA PrefixSelf ==
  ASSUME NEW S, NEW s \in Seq(S)
  PROVE  IsPrefix(s, s)
BY SMTT(60), PrefixAt

\* A prefix of a proper prefix is a proper prefix.
LEMMA StrictThrough ==
  ASSUME NEW S, NEW s \in Seq(S), NEW t \in Seq(S), NEW u \in Seq(S),
         IsPrefix(s, t), IsPrefix(t, u), t # u
  PROVE  IsPrefix(s, u) /\ IsStrictPrefix(s, u)
<1>1. Len(s) <= Len(t) /\ \A i \in 1 .. Len(s) : s[i] = t[i]
  BY SMTT(60), PrefixAt
<1>2. Len(t) <= Len(u) /\ \A i \in 1 .. Len(t) : t[i] = u[i]
  BY SMTT(60), PrefixAt
<1>3. Len(t) # Len(u)
  BY SMTT(60), <1>2
<1>4. Len(s) <= Len(u) /\ \A i \in 1 .. Len(s) : s[i] = u[i]
  BY SMTT(60), <1>1, <1>2
<1>5. IsPrefix(s, u)
  BY <1>4, PrefixAt
<1> QED  BY SMTT(60), <1>1, <1>2, <1>3, <1>5 DEF IsStrictPrefix

\* A prefix stays one when the sequence grows.
LEMMA PrefixAppend ==
  ASSUME NEW S, NEW s \in Seq(S), NEW t \in Seq(S), NEW x \in S, IsPrefix(s, t)
  PROVE  IsPrefix(s, Append(t, x))
<1>1. Len(s) <= Len(t) /\ \A i \in 1 .. Len(s) : s[i] = t[i]
  BY SMTT(60), PrefixAt
<1>2. /\ Append(t, x) \in Seq(S) /\ Len(s) <= Len(Append(t, x))
      /\ \A i \in 1 .. Len(s) : s[i] = Append(t, x)[i]
  BY SMTT(60), <1>1
<1> QED  BY <1>2, PrefixAt

\* A prefix may take the next element.
LEMMA PrefixGrows ==
  ASSUME NEW S, NEW s \in Seq(S), NEW t \in Seq(S), IsPrefix(s, t),
         Len(s) + 1 <= Len(t)
  PROVE  IsPrefix(Append(s, t[Len(s) + 1]), t)
<1> DEFINE r == Append(s, t[Len(s) + 1])
<1>1. Len(s) <= Len(t) /\ \A i \in 1 .. Len(s) : s[i] = t[i]
  BY SMTT(60), PrefixAt
<1>2. r \in Seq(S) /\ Len(r) = Len(s) + 1
  BY SMTT(60)
<1>3. \A i \in 1 .. Len(r) : r[i] = t[i]
  BY SMTT(60), <1>1
<1> HIDE DEF r
<1>4. IsPrefix(r, t)
  BY <1>2, <1>3, PrefixAt
<1> QED  BY <1>4 DEF r

\* The new best blocks among the first i notifications of s.
BestAt(s, i) == {j \in 1 .. i : s[j].isNewBest}

\* New best blocks among the first notifications can be counted.
LEMMA BestFinite ==
  ASSUME NEW s, NEW i \in Nat
  PROVE  IsFiniteSet(BestAt(s, i)) /\ Cardinality(BestAt(s, i)) \in Nat
<1>1. IsFiniteSet(1 .. i)
  BY SMTT(60), FS_Interval
<1>2. BestAt(s, i) \in SUBSET (1 .. i)
  BY DEF BestAt
<1>3. IsFiniteSet(BestAt(s, i))
  BY <1>1, <1>2, FS_Subset
<1> QED  BY <1>3, FS_CardinalityType

\* There are none among no notifications.
LEMMA BestNone ==
  ASSUME NEW s
  PROVE  Cardinality(BestAt(s, 0)) = 0
<1>1. BestAt(s, 0) = {}
  BY SMTT(60) DEF BestAt
<1> QED  BY <1>1, FS_EmptySet

\* More notifications hold no fewer new best blocks.
LEMMA BestMonotone ==
  ASSUME NEW s, NEW i \in Nat, NEW n \in Nat, i <= n
  PROVE  Cardinality(BestAt(s, i)) <= Cardinality(BestAt(s, n))
<1>1. BestAt(s, i) \in SUBSET BestAt(s, n)
  BY SMTT(60) DEF BestAt
<1> QED  BY <1>1, BestFinite, FS_Subset

\* One more notification counts if it is of a new best block.
LEMMA BestNext ==
  ASSUME NEW s, NEW i \in Nat
  PROVE  Cardinality(BestAt(s, i + 1)) =
         Cardinality(BestAt(s, i)) + (IF s[i + 1].isNewBest THEN 1 ELSE 0)
<1>1. i + 1 \notin BestAt(s, i)
  BY SMTT(60) DEF BestAt
<1>2. IsFiniteSet(BestAt(s, i))
  BY BestFinite
<1>3. CASE s[i + 1].isNewBest
  <2>1. BestAt(s, i + 1) = BestAt(s, i) \cup {i + 1}
    BY SMTT(60), <1>3 DEF BestAt
  <2>2. Cardinality(BestAt(s, i) \cup {i + 1}) = Cardinality(BestAt(s, i)) + 1
    BY <1>1, <1>2, FS_AddElement
  <2> QED  BY <1>3, <2>1, <2>2
<1>4. CASE ~s[i + 1].isNewBest
  <2>1. BestAt(s, i + 1) = BestAt(s, i)
    BY SMTT(60), <1>4 DEF BestAt
  <2> QED  BY SMTT(60), <1>4, <2>1, BestFinite
<1> QED  BY <1>3, <1>4

\* A later notification does not change the earlier ones.
LEMMA BestAppend ==
  ASSUME NEW S, NEW s \in Seq(S), NEW n \in S, NEW i \in 0 .. Len(s)
  PROVE  BestAt(Append(s, n), i) = BestAt(s, i)
BY SMTT(60) DEF BestAt

\* The first notification counts if it is of a new best block.
LEMMA BestTail ==
  ASSUME NEW S, NEW s \in Seq(S), s # <<>>, NEW i \in 0 .. Len(s) - 1
  PROVE  Cardinality(BestAt(s, i + 1)) =
         Cardinality(BestAt(Tail(s), i)) + (IF Head(s).isNewBest THEN 1 ELSE 0)
<1> DEFINE A == BestAt(Tail(s), i)
           B == {j \in 2 .. i + 1 : s[j].isNewBest}
           f == [j \in A |-> j + 1]
<1>1. IsFiniteSet(A)
  BY SMTT(60), BestFinite
<1>2. \A j \in 1 .. i : Tail(s)[j] = s[j + 1]
  BY SMTT(60)
<1>3. \A j \in A : j \in 1 .. i /\ s[j + 1].isNewBest
  BY <1>2 DEF BestAt
<1>4. \A j \in B : j - 1 \in A /\ (j - 1) + 1 = j
  BY SMTT(60), <1>2 DEF BestAt
<1>5. f \in [A -> B] /\ \A j, k \in A : f[j] = f[k] => j = k
  BY SMTT(60), <1>3
<1>6. \A j \in B : f[j - 1] = j
  BY <1>4
<1>7. f \in Bijection(A, B)
  BY <1>4, <1>5, <1>6 DEF Bijection, Injection, Surjection, IsInjective
<1>8. IsFiniteSet(B) /\ Cardinality(B) = Cardinality(A)
  BY <1>1, <1>7, FS_Bijection DEF ExistsBijection
<1>9. 1 \notin B /\ Head(s) = s[1]
  BY SMTT(60)
<1>10. CASE Head(s).isNewBest
  <2>1. BestAt(s, i + 1) = B \cup {1}
    BY SMTT(60), <1>9, <1>10 DEF BestAt
  <2> HIDE DEF A, B
  <2>2. Cardinality(B \cup {1}) = Cardinality(B) + 1
    BY <1>8, <1>9, FS_AddElement
  <2> QED  BY <1>8, <1>10, <2>1, <2>2 DEF A
<1>11. CASE ~Head(s).isNewBest
  <2>1. BestAt(s, i + 1) = B
    BY SMTT(60), <1>9, <1>11 DEF BestAt
  <2>2. Cardinality(A) \in Nat
    BY <1>1, FS_CardinalityType
  <2> HIDE DEF B
  <2> QED  BY SMTT(60), <1>8, <1>11, <2>1, <2>2
<1> QED  BY <1>10, <1>11

-----------------------------------------------------------------------------
(* The chain and state services.                                           *)

\* The JSON of block b when the blocks js have a justification, or earlier.
Shows(ans, b, js) == ans.block = b /\ (ans.justified => b \in js)

\* Everything an answer names is a block the client knows, and an answer to a
\* request with a hash is a function of the service and the hash, up to a block's
\* justification.
ServeOK ==
    /\ known \subseteq Seq(Entries) /\ best \in known /\ final \in known
    /\ \A b \in known : \A n \in 0 .. Len(b) : SubSeq(b, 1, n) \in known
    /\ asked.hash \in known \cup {Zero} /\ reply.hash \in known \cup {Zero}
    /\ reply.srv \in {"best_hash", "finalized_hash"} => reply.ans \in known
    /\ reply.hash # Zero /\ reply.ans # Error =>
           IF reply.srv = "block" THEN Shows(reply.ans, reply.hash, justified)
           ELSE reply.ans = IF reply.srv = "header" THEN reply.hash
                            ELSE StateAnswer(reply.srv, reply.hash)

\* What a service leaves in its answer.
LEMMA AnswerFields ==
  ASSUME NEW srv, NEW h, NEW a, Answer(srv, h, a)
  PROVE  reply'.srv = srv /\ reply'.hash = h /\ reply'.ans = a
BY DEF Answer

\* A caller's hash is of a known block, or the zero hash.
LEMMA HashesKnown ==
  ASSUME ServeOK, NEW h \in Hashes
  PROVE  h \in known \cup {Zero}
BY DEF ServeOK, Hashes

\* Every step of the services keeps their invariant.
LEMMA ServeStep == ServeOK /\ [ServeNext]_rcvars => ServeOK'
<1> SUFFICES ASSUME ServeOK, [ServeNext]_rcvars  PROVE ServeOK'
  OBVIOUS
<1>1. CASE UNCHANGED rcvars
  BY <1>1 DEF ServeOK, rcvars, client, calls
<1>2. ASSUME NEW p \in known, NEW e \in Entries, NEW nb \in BOOLEAN,
             Len(p) < MaxHeight, Import(Append(p, e), nb)
      PROVE  ServeOK'
  <2> DEFINE b == Append(p, e)
  <2>1. p \in Seq(Entries) /\ b \in Seq(Entries) /\ Len(b) = Len(p) + 1
    BY SMTT(60) DEF ServeOK
  <2>2. \A n \in 0 .. Len(p) : SubSeq(b, 1, n) = SubSeq(p, 1, n)
    BY SMTT(60), <2>1
  <2>3. SubSeq(b, 1, Len(b)) = b
    BY SMTT(60), <2>1
  <2>4. \A n \in 0 .. Len(p) : SubSeq(p, 1, n) \in known
    BY DEF ServeOK
  <2>5. /\ known' = known \cup {b} /\ best' \in known'
        /\ UNCHANGED <<final, justified, asked, reply>>
    BY <1>2 DEF Import, calls, ServeOK
  <2> HIDE DEF b
  <2>6. \A n \in 0 .. Len(b) : SubSeq(b, 1, n) \in known'
    <3> TAKE n \in 0 .. Len(b)
    <3>1. n \in 0 .. Len(p) \/ n = Len(b)
      BY SMTT(60), <2>1
    <3> QED  BY <2>2, <2>3, <2>4, <2>5, <3>1
  <2> QED  BY <2>1, <2>5, <2>6 DEF ServeOK
<1>3. ASSUME NEW b \in known, NEW kept \in BOOLEAN, Finalize(b, kept)  PROVE ServeOK'
  <2>1. /\ best' \in {best, b} /\ final' = b /\ justified \subseteq justified'
        /\ UNCHANGED <<known, asked, reply>>
    BY <1>3 DEF Finalize, calls
  <2> QED  BY <2>1 DEF ServeOK, Shows
<1>4. ASSUME NEW srv \in {"block", "header"}, NEW h \in Hashes, GetBlock(srv, h)
      PROVE  ServeOK'
  <2>1. h \in known \cup {Zero}
    BY HashesKnown
  <2>2. /\ reply'.srv = srv /\ reply'.hash = h
        /\ reply'.ans = IF UnwrapOrBest(h) \notin known THEN Null
                        ELSE IF srv = "block" THEN SignedBlock(UnwrapOrBest(h))
                        ELSE UnwrapOrBest(h)
    BY <1>4, AnswerFields DEF GetBlock
  <2>3. UNCHANGED <<known, best, final, justified, asked>>
    BY <1>4 DEF GetBlock, client
  <2>4. h # Zero => reply'.ans = IF srv = "block" THEN SignedBlock(h) ELSE h
    BY <2>1, <2>2 DEF UnwrapOrBest
  <2>5. Shows(SignedBlock(h), h, justified)
    BY DEF SignedBlock, Shows
  <2> QED  BY <2>1, <2>2, <2>3, <2>4, <2>5 DEF ServeOK
<1>5. ASSUME NEW n \in 0 .. MaxHeight, GetBlockHash(n)  PROVE ServeOK'
  <2> DEFINE h == IF n <= Len(best) THEN SubSeq(best, 1, n) ELSE Zero
  <2>1. h \in known \cup {Zero}
    BY SMTT(60), RosChainAssumption DEF ServeOK
  <2>2. asked' = [number |-> n, hash |-> h] /\ Answer("block_hash", Zero, h)
    BY <1>5 DEF GetBlockHash
  <2>3. asked'.hash = h
    BY <2>2
  <2>4. reply'.srv = "block_hash" /\ reply'.hash = Zero
    BY <2>2, AnswerFields
  <2>5. UNCHANGED <<known, best, final, justified>>
    BY <1>5 DEF GetBlockHash, client
  <2> HIDE DEF h
  <2> QED  BY <2>1, <2>3, <2>4, <2>5 DEF ServeOK
<1>6. ASSUME NEW srv \in {"best_hash", "finalized_hash"}, GetHead(srv)  PROVE ServeOK'
  <2>1. /\ reply'.srv = srv /\ reply'.hash = Zero
        /\ reply'.ans = IF srv = "best_hash" THEN best ELSE final
    BY <1>6, AnswerFields DEF GetHead
  <2>2. UNCHANGED <<known, best, final, justified, asked>>
    BY <1>6 DEF GetHead, client
  <2> QED  BY <2>1, <2>2 DEF ServeOK
<1>7. ASSUME NEW srv \in {"query", "hash", "size", "call", "keys", "version"},
             NEW h \in Hashes, QueryState(srv, h)
      PROVE  ServeOK'
  <2>1. h \in known \cup {Zero}
    BY HashesKnown
  <2>2. \/ Answer(srv, h, StateAnswer(srv, UnwrapOrBest(h)))
        \/ Answer(srv, h, Error)
    BY <1>7 DEF QueryState
  <2>3. /\ reply'.srv = srv /\ reply'.hash = h
        /\ reply'.ans \in {StateAnswer(srv, UnwrapOrBest(h)), Error}
    BY <2>2, AnswerFields
  <2>4. UNCHANGED <<known, best, final, justified, asked>>
    BY <1>7 DEF QueryState, client
  <2>5. h # Zero /\ reply'.ans # Error => reply'.ans = StateAnswer(srv, h)
    BY <2>3 DEF UnwrapOrBest
  <2> QED  BY <2>1, <2>3, <2>4, <2>5 DEF ServeOK
<1> QED  BY <1>1, <1>2, <1>3, <1>4, <1>5, <1>6, <1>7 DEF ServeNext, Chain, Services

\* A step leaves the last answer, or gives one with the justification stored now.
LEMMA BlockAnswer ==
  ASSUME ServeOK, [ServeNext]_rcvars, reply'.srv = "block", reply'.hash # Zero
  PROVE  reply' = reply \/ reply'.ans = SignedBlock(reply'.hash)
<1>1. CASE UNCHANGED rcvars \/ Chain
  BY <1>1 DEF rcvars, calls, Chain, Import, Finalize
<1>2. ASSUME NEW srv \in {"block", "header"}, NEW h \in Hashes, GetBlock(srv, h)
      PROVE  reply'.ans = SignedBlock(reply'.hash)
  <2>1. h \in known \cup {Zero}
    BY HashesKnown
  <2>2. /\ reply'.srv = srv /\ reply'.hash = h
        /\ reply'.ans = IF UnwrapOrBest(h) \notin known THEN Null
                        ELSE IF srv = "block" THEN SignedBlock(UnwrapOrBest(h))
                        ELSE UnwrapOrBest(h)
    BY <1>2, AnswerFields DEF GetBlock
  <2>3. srv = "block" /\ h # Zero /\ UnwrapOrBest(h) = h /\ h \in known
    BY <2>1, <2>2 DEF UnwrapOrBest
  <2>4. reply'.ans = SignedBlock(h)
    BY <2>2, <2>3
  <2> QED  BY <2>2, <2>4
<1>3. ASSUME NEW n, GetBlockHash(n)  PROVE FALSE
  BY <1>3 DEF GetBlockHash, Answer
<1>4. ASSUME NEW srv, GetHead(srv)  PROVE FALSE
  BY <1>4 DEF GetHead, Answer
<1>5. ASSUME NEW srv, NEW h, QueryState(srv, h)  PROVE FALSE
  <2>1. srv \in {"query", "hash", "size", "call", "keys", "version"} /\ reply'.srv = srv
    BY <1>5, AnswerFields DEF QueryState
  <2> QED  BY <2>1
<1> QED  BY <1>1, <1>2, <1>3, <1>4, <1>5 DEF ServeNext, Services

\* Two answers of one service for one block hash are the same, whatever the client
\* imports, reorganises or finalises between the requests, unless one is an error,
\* and up to a justification of the block that was stored in between: the hashes
\* that callers are given stay known, and a handler reads the client once.
THEOREM SameAnswer == ServeSpec => SameHashSameAnswer
<1>1. ServeInit => ServeOK
  <2> SUFFICES ASSUME ServeInit  PROVE ServeOK
    OBVIOUS
  <2>1. <<>> \in Seq(Entries) /\ Len(<<>>) = 0 /\ SubSeq(<<>>, 1, 0) = <<>>
    BY SMTT(60)
  <2> QED  BY SMTT(60), <2>1 DEF ServeInit, ServeOK
<1>2. ServeOK /\ [ServeNext]_rcvars => ServeOK'
  BY ServeStep
<1>3. ServeOK /\ ServeOK' /\ [ServeNext]_rcvars =>
      [ reply.srv = reply'.srv /\ reply.hash = reply'.hash /\ reply.hash # Zero
        /\ Error \notin {reply.ans, reply'.ans} =>
            IF reply.srv = "block" THEN SameBlock(reply.ans, reply'.ans)
            ELSE reply.ans = reply'.ans ]_rcvars
  <2> SUFFICES ASSUME ServeOK, ServeOK', [ServeNext]_rcvars, reply.srv = reply'.srv,
                      reply.hash = reply'.hash, reply.hash # Zero,
                      Error \notin {reply.ans, reply'.ans}
               PROVE  IF reply.srv = "block" THEN SameBlock(reply.ans, reply'.ans)
                      ELSE reply.ans = reply'.ans
    OBVIOUS
  <2>1. CASE reply.srv = "block"
    <3>1. Shows(reply.ans, reply.hash, justified)
      BY <2>1 DEF ServeOK
    <3>2. reply' = reply \/ reply'.ans = SignedBlock(reply.hash)
      BY <2>1, BlockAnswer
    <3>3. Shows(SignedBlock(reply.hash), reply.hash, justified)
          /\ (reply.hash \in justified => SignedBlock(reply.hash).justified)
      BY DEF SignedBlock, Shows
    <3>4. CASE reply' = reply
      BY <2>1, <3>4 DEF SameBlock
    <3>5. CASE reply'.ans = SignedBlock(reply.hash)
      <4>1. SameBlock(reply.ans, SignedBlock(reply.hash))
        BY <3>1, <3>3 DEF SameBlock, Shows
      <4> QED  BY <2>1, <3>5, <4>1
    <3> QED  BY <3>2, <3>4, <3>5
  <2>2. CASE reply.srv # "block"
    <3>1. reply.ans = IF reply.srv = "header" THEN reply.hash
                      ELSE StateAnswer(reply.srv, reply.hash)
      BY <2>2 DEF ServeOK
    <3>2. reply'.ans = IF reply'.srv = "header" THEN reply'.hash
                       ELSE StateAnswer(reply'.srv, reply'.hash)
      BY <2>2 DEF ServeOK
    <3> QED  BY <2>2, <3>1, <3>2
  <2> QED  BY <2>1, <2>2
<1> QED  BY <1>1, <1>2, <1>3, PTL DEF ServeSpec, SameHashSameAnswer

-----------------------------------------------------------------------------
(* The publishers.                                                         *)

Notification == [block : Seq(Entries), isNewBest : BOOLEAN]
Blocks == Seq(Entries)

ClientOK ==
    /\ known \subseteq Blocks /\ best \in Blocks /\ final \in Blocks
    /\ imports \in Seq(Notification) /\ finals \in Seq(Blocks)
    /\ bests \in Seq(Blocks)

\* A number for each hash, except of a publisher that died between the two.
Paired(numbers, hashes, s) ==
    /\ numbers \in Seq(Nat) /\ hashes \in Seq(Blocks)
    /\ Len(hashes) <= Len(numbers) /\ \A i \in 1 .. Len(hashes) : numbers[i] = Len(hashes[i])
    /\ \/ Len(numbers) = Len(hashes)
       \/ s = "dead" /\ Len(numbers) = Len(hashes) + 1

PairsOK ==
    /\ sent \in [Topics -> Seq(Nat) \cup Seq(Blocks)]
    /\ Paired(sent["best_number"], sent["best_hash"], st)
    /\ Paired(sent["finalized_number"], sent["finalized_hash"], st)

\* Each of the blocks s extends those before it, and the finalised one extends all.
Chained(s, f) ==
    /\ \A i \in 1 .. Len(s) : IsPrefix(s[i], f)
    /\ \A i, j \in 1 .. Len(s) : i < j => IsStrictPrefix(s[i], s[j])

\* The finalised blocks, announced or not, in the order of the chain.
FinalsOK ==
    /\ Chained(sent["finalized_hash"], final) /\ Chained(finals, final)
    /\ \A i \in 1 .. Len(sent["finalized_hash"]), j \in 1 .. Len(finals) :
           IsStrictPrefix(sent["finalized_hash"][i], finals[j])

PublishOK == ClientOK /\ PairsOK /\ FinalsOK /\ AnnouncedInOrder

\* Nothing was imported and nothing published at the start.
LEMMA PublishInit == RosInit => PublishOK
<1> SUFFICES ASSUME RosInit  PROVE PublishOK
  OBVIOUS
<1>1. /\ <<>> \in Blocks /\ <<>> \in Seq(Notification) /\ <<>> \in Seq(Blocks)
      /\ <<>> \in Seq(Nat) /\ Len(<<>>) = 0
  BY SMTT(60) DEF Blocks
<1>2. ClientOK
  BY <1>1 DEF RosInit, ClientOK
<1>3. /\ \A t \in Topics : sent[t] = <<>>
      /\ sent \in [Topics -> Seq(Nat) \cup Seq(Blocks)]
  BY <1>1 DEF RosInit
<1>4. /\ sent["best_number"] = <<>> /\ sent["best_hash"] = <<>>
      /\ sent["finalized_number"] = <<>> /\ sent["finalized_hash"] = <<>>
  BY <1>3 DEF Topics
<1>5. PairsOK
  BY SMTT(60), <1>1, <1>3, <1>4 DEF PairsOK, Paired
<1>6. FinalsOK
  BY SMTT(60), <1>1, <1>4 DEF RosInit, FinalsOK, Chained
<1>7. AnnouncedInOrder
  <2>1. IsPrefix(sent["best_hash"], bests)
    BY <1>1, <1>4, PrefixSelf DEF RosInit
  <2>2. NewBests(Len(imports)) = 0
    BY <1>1, BestNone DEF NewBests, BestAt, RosInit
  <2>3. DOMAIN imports = {}
    BY SMTT(60), <1>1 DEF RosInit
  <2>4. Len(bests) = 0 /\ Len(sent["best_hash"]) = 0
    BY <1>1, <1>4 DEF RosInit
  <2> QED  BY SMTT(60), <2>1, <2>2, <2>3, <2>4 DEF AnnouncedInOrder
<1> QED  BY <1>2, <1>5, <1>6, <1>7 DEF PublishOK

\* A step that sends nothing and keeps the streams or drops them.
LEMMA PublishRest ==
  ASSUME PublishOK, UNCHANGED <<client, sent, bests>>,
         \/ UNCHANGED <<imports, finals>> /\ st' \in {st, "started", "dead"}
            /\ (st' = "started" => st \in {"starting", "started"})
            /\ (st = "dead" => st' = "dead")
         \/ imports' = <<>> /\ finals' = <<>> /\ st' = "failed" /\ st # "dead"
  PROVE  PublishOK'
<1>1. <<>> \in Seq(Notification) /\ <<>> \in Seq(Blocks) /\ Len(<<>>) = 0
  BY SMTT(60)
<1>2. UNCHANGED <<known, best, final>>
  BY DEF client
<1>3. ClientOK'
  BY <1>1, <1>2 DEF PublishOK, ClientOK
<1>4. PairsOK'
  BY DEF PublishOK, PairsOK, Paired
<1>5. FinalsOK'
  BY SMTT(60), <1>1, <1>2 DEF PublishOK, FinalsOK, Chained
<1>6. AnnouncedInOrder'
  <2>1. CASE UNCHANGED <<imports, finals>>
    <3>1. NewBests(Len(imports))' = NewBests(Len(imports))
          /\ \A i : NewBests(i)' = NewBests(i)
      BY <2>1 DEF NewBests
    <3> QED  BY <2>1, <3>1 DEF PublishOK, AnnouncedInOrder
  <2>2. CASE st' = "failed"
    BY <2>2 DEF PublishOK, AnnouncedInOrder
  <2> QED  BY <2>1, <2>2
<1> QED  BY <1>3, <1>4, <1>5, <1>6 DEF PublishOK

\* Starting and shutting down the bridge publish nothing.
LEMMA PublishStart == PublishOK /\ (StartGroup \/ Started \/ RosShutdown) => PublishOK'
<1> SUFFICES ASSUME PublishOK, StartGroup \/ Started \/ RosShutdown  PROVE PublishOK'
  OBVIOUS
<1>1. CASE StartGroup
  BY <1>1, PublishRest DEF StartGroup
<1>2. CASE Started
  BY <1>2, PublishRest DEF Started
<1>3. CASE RosShutdown
  BY <1>3, PublishRest DEF RosShutdown
<1> QED  BY <1>1, <1>2, <1>3

\* The topics of the system API are not those of the chain.
LEMMA PublishSystemOK ==
  ASSUME PublishOK, NEW t \in SystemTopics, PublishSystem(t)
  PROVE  PublishOK'
BY PublishRest DEF PublishSystem

\* Of all the new best blocks those told are announced already and the others wait.
Announced(told, all, waiting) ==
    /\ IsPrefix(told, all)
    /\ Len(all) = Len(told) + Cardinality(BestAt(waiting, Len(waiting)))
    /\ \A i \in 1 .. Len(waiting) : waiting[i].isNewBest =>
           all[Len(told) + Cardinality(BestAt(waiting, i))] = waiting[i].block

\* AnnouncedInOrder, with the count of new best blocks named.
LEMMA AnnouncedIs ==
  ASSUME ClientOK
  PROVE  AnnouncedInOrder <=>
         /\ IsPrefix(sent["best_hash"], bests)
         /\ st \in {"starting", "started"} => Announced(sent["best_hash"], bests, imports)
<1>1. DOMAIN imports = 1 .. Len(imports)
  BY SMTT(60) DEF ClientOK
<1> QED  BY <1>1 DEF AnnouncedInOrder, Announced, NewBests, BestAt

\* A new best block is announced by the notification that waits for it.
LEMMA BestComes ==
  ASSUME NEW told \in Seq(Blocks), NEW all \in Seq(Blocks), NEW w \in Seq(Notification),
         NEW b \in Blocks, NEW nb \in BOOLEAN, Announced(told, all, w)
  PROVE  Announced(told, IF nb THEN Append(all, b) ELSE all,
                   Append(w, [block |-> b, isNewBest |-> nb]))
<1> DEFINE n == [block |-> b, isNewBest |-> nb]
           v == Append(w, n)
           all2 == IF nb THEN Append(all, b) ELSE all
           C(s, i) == Cardinality(BestAt(s, i))
<1>1. n \in Notification /\ n.block = b /\ (n.isNewBest <=> nb)
  BY DEF Notification, Blocks
<1> HIDE DEF n
<1>2. /\ v \in Seq(Notification) /\ Len(v) = Len(w) + 1 /\ v[Len(w) + 1] = n
      /\ \A i \in 1 .. Len(w) : v[i] = w[i]
  BY SMTT(60), <1>1
<1>3. \A i \in 0 .. Len(w) : C(v, i) = C(w, i)
  BY <1>1, BestAppend
<1>4. C(v, Len(w) + 1) = C(v, Len(w)) + (IF nb THEN 1 ELSE 0)
  <2>1. Len(w) \in Nat /\ (v[Len(w) + 1].isNewBest <=> nb)
    BY SMTT(60), <1>1, <1>2
  <2> HIDE DEF v
  <2>2. C(v, Len(w) + 1) = C(v, Len(w)) + (IF v[Len(w) + 1].isNewBest THEN 1 ELSE 0)
    BY <2>1, BestNext
  <2> QED  BY <2>1, <2>2
<1>5. Len(w) \in Nat /\ Len(all) \in Nat /\ Len(told) \in Nat /\ C(w, Len(w)) \in Nat
  BY SMTT(60), BestFinite
<1>6. C(v, Len(w) + 1) = C(w, Len(w)) + (IF nb THEN 1 ELSE 0)
  BY SMTT(60), <1>3, <1>4, <1>5
<1>7. /\ all2 \in Seq(Blocks) /\ Len(all2) = Len(all) + (IF nb THEN 1 ELSE 0)
      /\ \A i \in 1 .. Len(all) : all2[i] = all[i]
      /\ nb => all2[Len(all) + 1] = b
  BY SMTT(60)
<1>8. IsPrefix(told, all2)
  BY PrefixAppend DEF Announced
<1>9. Len(all) = Len(told) + C(w, Len(w))
  BY DEF Announced
<1> HIDE DEF v, all2
<1>10. Len(all2) = Len(told) + C(v, Len(v))
  BY SMTT(60), <1>2, <1>5, <1>6, <1>7, <1>9
<1>11. ASSUME NEW i \in 1 .. Len(v), v[i].isNewBest
       PROVE  all2[Len(told) + C(v, i)] = v[i].block
  <2>1. CASE i \in 1 .. Len(w)
    <3>1. w[i].isNewBest /\ all[Len(told) + C(w, i)] = w[i].block
      BY <1>2, <1>11, <2>1 DEF Announced
    <3>2. i - 1 \in Nat /\ (i - 1) + 1 = i /\ i \in Nat /\ i <= Len(w)
      BY SMTT(60), <1>5, <2>1
    <3>3. C(w, i) = C(w, i - 1) + 1 /\ C(w, i - 1) \in Nat
      BY <3>1, <3>2, BestNext, BestFinite
    <3>4. C(w, i) <= C(w, Len(w))
      BY <1>5, <3>2, BestMonotone
    <3>5. Len(told) + C(w, i) \in 1 .. Len(all)
      BY SMTT(60), <1>5, <1>9, <3>3, <3>4
    <3>6. C(v, i) = C(w, i)
      BY SMTT(60), <1>3, <1>5, <2>1
    <3> QED  BY <1>2, <1>7, <2>1, <3>1, <3>5, <3>6
  <2>2. CASE i = Len(w) + 1
    <3>1. nb
      BY <1>1, <1>2, <1>11, <2>2
    <3>2. Len(told) + C(v, i) = Len(all) + 1
      BY SMTT(60), <1>5, <1>6, <1>9, <2>2, <3>1
    <3> QED  BY <1>1, <1>2, <1>7, <2>2, <3>1, <3>2
  <2> QED  BY SMTT(60), <1>2, <1>5, <2>1, <2>2
<1>12. Announced(told, all2, v)
  BY <1>8, <1>10, <1>11 DEF Announced
<1> QED  BY <1>12 DEF v, all2, n

\* Taking a notification announces its block, if that was a new best one.
LEMMA BestGoes ==
  ASSUME NEW told \in Seq(Blocks), NEW all \in Seq(Blocks), NEW w \in Seq(Notification),
         w # <<>>, Announced(told, all, w)
  PROVE  /\ Head(w).isNewBest => /\ IsPrefix(Append(told, Head(w).block), all)
                                 /\ Announced(Append(told, Head(w).block), all, Tail(w))
         /\ ~Head(w).isNewBest => Announced(told, all, Tail(w))
<1> DEFINE v == Tail(w)
           n == Head(w)
           C(s, i) == Cardinality(BestAt(s, i))
<1>1. /\ v \in Seq(Notification) /\ Len(v) = Len(w) - 1 /\ Len(w) \in Nat \ {0}
      /\ \A i \in 1 .. Len(v) : v[i] = w[i + 1]
      /\ n = w[1] /\ n \in Notification
  BY SMTT(60)
<1>2. n.block \in Blocks /\ n.isNewBest \in BOOLEAN
  BY <1>1 DEF Notification, Blocks
<1>3. \A i \in 0 .. Len(v) : C(w, i + 1) = C(v, i) + (IF n.isNewBest THEN 1 ELSE 0)
  BY <1>1, BestTail
<1> HIDE DEF v, n
<1>4. Len(all) \in Nat /\ Len(told) \in Nat /\ \A i \in 0 .. Len(v) : C(v, i) \in Nat
  BY SMTT(60), <1>1, BestFinite
<1>5. IsPrefix(told, all) /\ Len(all) = Len(told) + C(w, Len(w))
  BY DEF Announced
<1>6. C(w, Len(w)) = C(v, Len(v)) + (IF n.isNewBest THEN 1 ELSE 0)
  <2>1. Len(v) \in 0 .. Len(v) /\ Len(v) + 1 = Len(w)
    BY SMTT(60), <1>1
  <2> QED  BY <1>3, <2>1
<1>7. Len(v) \in 0 .. Len(v) /\ C(v, Len(v)) \in Nat
  BY SMTT(60), <1>1, <1>4
<1>8. \A i \in 1 .. Len(v) : v[i].isNewBest =>
          all[Len(told) + C(w, i + 1)] = v[i].block
  <2> TAKE i \in 1 .. Len(v)
  <2>1. i + 1 \in 1 .. Len(w) /\ v[i] = w[i + 1]
    BY SMTT(60), <1>1
  <2> QED  BY <2>1 DEF Announced
<1>9. CASE n.isNewBest
  <2> DEFINE d == Append(told, n.block)
  <2>1. d \in Seq(Blocks) /\ Len(d) = Len(told) + 1
    BY SMTT(60), <1>2
  <2>2. C(w, 1) = 1
    <3>1. 0 + 1 = 1 /\ 0 \in Nat
      BY SMTT(60)
    <3>2. C(w, 0 + 1) = C(w, 0) + 1
      BY <1>1, <1>9, <3>1, BestNext
    <3> QED  BY <3>1, <3>2, BestNone
  <2>3. all[Len(told) + 1] = n.block
    <3>1. 1 \in 1 .. Len(w)
      BY SMTT(60), <1>1
    <3> QED  BY <1>1, <1>9, <2>2, <3>1 DEF Announced
  <2>4. Len(told) + 1 <= Len(all)
    BY SMTT(60), <1>4, <1>5, <1>6, <1>7, <1>9
  <2>5. IsPrefix(d, all)
    BY <1>5, <2>3, <2>4, PrefixGrows
  <2> HIDE DEF d
  <2>6. Len(all) = Len(d) + C(v, Len(v))
    BY SMTT(60), <1>4, <1>5, <1>6, <1>7, <1>9, <2>1
  <2>7. ASSUME NEW i \in 1 .. Len(v), v[i].isNewBest
        PROVE  all[Len(d) + C(v, i)] = v[i].block
    <3>1. i \in 0 .. Len(v)
      BY SMTT(60), <1>1
    <3>2. C(w, i + 1) = C(v, i) + 1 /\ C(v, i) \in Nat
      BY <1>3, <1>4, <1>9, <3>1
    <3>3. Len(d) + C(v, i) = Len(told) + C(w, i + 1)
      BY SMTT(60), <1>4, <2>1, <3>2
    <3> QED  BY <1>8, <2>7, <3>3
  <2>8. Announced(d, all, v)
    BY <2>5, <2>6, <2>7 DEF Announced
  <2> QED  BY <1>9, <2>5, <2>8 DEF d, v, n
<1>10. CASE ~n.isNewBest
  <2>1. Len(all) = Len(told) + C(v, Len(v))
    BY SMTT(60), <1>4, <1>5, <1>6, <1>7, <1>10
  <2>2. ASSUME NEW i \in 1 .. Len(v), v[i].isNewBest
        PROVE  all[Len(told) + C(v, i)] = v[i].block
    <3>1. i \in 0 .. Len(v)
      BY SMTT(60), <1>1
    <3>2. C(w, i + 1) = C(v, i)
      BY SMTT(60), <1>3, <1>4, <1>10, <3>1
    <3> QED  BY <1>8, <2>2, <3>2
  <2>3. Announced(told, all, v)
    BY <1>5, <2>1, <2>2 DEF Announced
  <2> QED  BY <1>10, <2>3 DEF v, n
<1> QED  BY <1>9, <1>10

\* The client imports a block or finalises one.
LEMMA PublishImport ==
  ASSUME PublishOK, NEW p \in known, NEW e \in Entries, NEW nb \in BOOLEAN,
         Import(Append(p, e), nb)
  PROVE  PublishOK'
<1> DEFINE b == Append(p, e)
           n == [block |-> b, isNewBest |-> nb]
<1>1. b \in Blocks
  BY SMTT(60) DEF PublishOK, ClientOK, Blocks
<1>2. n \in Notification
  BY <1>1 DEF Notification, Blocks
<1>3. /\ known' = known \cup {b} /\ best' \in {best, b}
      /\ UNCHANGED <<final, finals, up, st, ros, sent>>
  BY DEF Import
<1>4. \/ imports' = Append(imports, n) /\ bests' = IF nb THEN Append(bests, b) ELSE bests
      \/ UNCHANGED <<imports, bests>>
  BY DEF Import, Subscribed
<1> HIDE DEF b, n
<1>5. ClientOK'
  <2>1. imports \in Seq(Notification) /\ bests \in Seq(Blocks)
    BY DEF PublishOK, ClientOK
  <2>2. imports' \in Seq(Notification) /\ bests' \in Seq(Blocks)
    <3>1. Append(imports, n) \in Seq(Notification)
      BY SMTT(60), <1>2, <2>1
    <3>2. Append(bests, b) \in Seq(Blocks)
      BY SMTT(60), <1>1, <2>1
    <3> QED  BY <1>4, <2>1, <3>1, <3>2
  <2>3. known' \subseteq Blocks /\ best' \in Blocks
    BY <1>1, <1>3 DEF PublishOK, ClientOK
  <2> QED  BY <1>3, <2>2, <2>3 DEF PublishOK, ClientOK
<1>6. PairsOK'
  BY <1>3 DEF PublishOK, PairsOK, Paired
<1>7. FinalsOK'
  BY <1>3 DEF PublishOK, FinalsOK, Chained
<1>8. /\ IsPrefix(sent["best_hash"], bests)
      /\ st \in {"starting", "started"} => Announced(sent["best_hash"], bests, imports)
  BY AnnouncedIs DEF PublishOK
<1>9. /\ sent["best_hash"] \in Seq(Blocks) /\ bests \in Seq(Blocks)
      /\ imports \in Seq(Notification)
  BY DEF PublishOK, ClientOK, PairsOK, Paired
<1>10. /\ IsPrefix(sent["best_hash"], bests')
       /\ st \in {"starting", "started"} => Announced(sent["best_hash"], bests', imports')
  <2>1. CASE UNCHANGED <<imports, bests>>
    BY <1>8, <2>1
  <2>2. CASE imports' = Append(imports, n) /\ bests' = IF nb THEN Append(bests, b) ELSE bests
    <3>1. IsPrefix(sent["best_hash"], bests')
      BY <1>1, <1>8, <1>9, <2>2, PrefixAppend
    <3>2. Announced(sent["best_hash"], bests, imports) =>
              Announced(sent["best_hash"], IF nb THEN Append(bests, b) ELSE bests,
                        Append(imports, n))
      BY <1>1, <1>9, BestComes DEF n
    <3> QED  BY <1>8, <2>2, <3>1, <3>2
  <2> QED  BY <1>4, <2>1, <2>2
<1>11. AnnouncedInOrder' <=>
         /\ IsPrefix(sent["best_hash"], bests)'
         /\ (st \in {"starting", "started"} => Announced(sent["best_hash"], bests, imports))'
  BY <1>5, AnnouncedIs, PTL
<1>12. AnnouncedInOrder'
  BY <1>3, <1>10, <1>11
<1> QED  BY <1>5, <1>6, <1>7, <1>12 DEF PublishOK

\* A block joins the end of the chain of finalised ones.
LEMMA ChainedOn ==
  ASSUME NEW s \in Seq(Blocks), NEW f \in Blocks, NEW b \in Blocks, Chained(s, f),
         IsPrefix(f, b), f # b
  PROVE  /\ Chained(s, b) /\ Chained(Append(s, b), b)
         /\ \A i \in 1 .. Len(s) : IsStrictPrefix(s[i], b)
<1>1. \A i \in 1 .. Len(s) : s[i] \in Blocks /\ IsPrefix(s[i], f)
  BY SMTT(60) DEF Chained
<1>2. \A i \in 1 .. Len(s) : IsPrefix(s[i], b) /\ IsStrictPrefix(s[i], b)
  BY <1>1, StrictThrough DEF Blocks
<1>3. IsPrefix(b, b)
  BY PrefixSelf DEF Blocks
<1>4. /\ Len(Append(s, b)) = Len(s) + 1 /\ Append(s, b)[Len(s) + 1] = b
      /\ \A i \in 1 .. Len(s) : Append(s, b)[i] = s[i]
  BY SMTT(60)
<1>5. Chained(s, b)
  BY <1>2 DEF Chained
<1>6. Chained(Append(s, b), b)
  BY SMTT(60), <1>2, <1>3, <1>4, <1>5 DEF Chained
<1> QED  BY <1>2, <1>5, <1>6

\* The client finalises a block and notifies the publisher.
LEMMA PublishFinalize ==
  ASSUME PublishOK, NEW b \in known, NEW kept \in BOOLEAN, Finalize(b, kept)
  PROVE  PublishOK'
<1> DEFINE s == sent["finalized_hash"]
<1>1. /\ b \in Blocks /\ final \in Blocks /\ finals \in Seq(Blocks) /\ s \in Seq(Blocks)
  BY DEF PublishOK, ClientOK, PairsOK, Paired
<1>2. /\ final' = b /\ IsPrefix(final, b) /\ final # b /\ best' \in {best, b}
      /\ finals' \in {finals, Append(finals, b)}
      /\ UNCHANGED <<known, imports, st, sent, bests>>
  BY DEF Finalize, Extends
<1>3. ClientOK'
  <2>1. finals' \in Seq(Blocks)
    BY SMTT(60), <1>1, <1>2
  <2>2. best' \in Blocks /\ final' \in Blocks
    BY <1>1, <1>2 DEF PublishOK, ClientOK
  <2> QED  BY <1>2, <2>1, <2>2 DEF PublishOK, ClientOK
<1>4. PairsOK'
  BY <1>2 DEF PublishOK, PairsOK, Paired
<1>5. AnnouncedInOrder'
  <2>1. \A i : NewBests(i)' = NewBests(i)
    BY <1>2 DEF NewBests
  <2>2. NewBests(Len(imports))' = NewBests(Len(imports))
    BY <1>2 DEF NewBests
  <2> QED  BY <1>2, <2>1, <2>2 DEF PublishOK, AnnouncedInOrder
<1>6. FinalsOK'
  <2>1. /\ Chained(s, final) /\ Chained(finals, final)
        /\ \A i \in 1 .. Len(s), j \in 1 .. Len(finals) : IsStrictPrefix(s[i], finals[j])
    BY DEF PublishOK, FinalsOK
  <2>2. Chained(s, b) /\ \A i \in 1 .. Len(s) : IsStrictPrefix(s[i], b)
    BY <1>1, <1>2, <2>1, ChainedOn
  <2>3. Chained(finals, b) /\ Chained(Append(finals, b), b)
    BY <1>1, <1>2, <2>1, ChainedOn
  <2>4. Chained(finals', b)
    BY <1>2, <2>3
  <2>5. \A i \in 1 .. Len(s), j \in 1 .. Len(finals') : IsStrictPrefix(s[i], finals'[j])
    <3>1. /\ Len(Append(finals, b)) = Len(finals) + 1 /\ Append(finals, b)[Len(finals) + 1] = b
          /\ \A i \in 1 .. Len(finals) : Append(finals, b)[i] = finals[i]
      BY SMTT(60), <1>1
    <3>2. Len(finals) \in Nat
      BY SMTT(60), <1>1
    <3> HIDE DEF s
    <3> QED  BY SMTT(60), <1>2, <2>1, <2>2, <3>1, <3>2
  <2> QED  BY <1>2, <2>2, <2>4, <2>5 DEF FinalsOK
<1> QED  BY <1>3, <1>4, <1>5, <1>6 DEF PublishOK

\* What sending a block to its two topics does.
LEMMA SendShape ==
  ASSUME PairsOK, NEW number \in Topics, NEW hash \in Topics, number # hash,
         NEW b \in Blocks, sent[number] \in Seq(Nat), sent[hash] \in Seq(Blocks),
         Send(number, hash, b) \/ SendHalf(number, b)
  PROVE  /\ sent' \in [Topics -> Seq(Nat) \cup Seq(Blocks)]
         /\ \A t \in Topics \ {number, hash} : sent'[t] = sent[t]
         /\ \/ /\ sent'[number] = Append(sent[number], Len(b)) /\ st' = st
               /\ sent'[hash] = Append(sent[hash], b)
            \/ /\ sent'[number] \in {sent[number], Append(sent[number], Len(b))}
               /\ sent'[hash] = sent[hash] /\ st' = "dead"
<1>1. Append(sent[number], Len(b)) \in Seq(Nat) /\ Append(sent[hash], b) \in Seq(Blocks)
  <2>1. Len(b) \in Nat
    BY SMTT(60) DEF Blocks
  <2> QED  BY SMTT(60), <2>1
<1>2. sent \in [Topics -> Seq(Nat) \cup Seq(Blocks)]
  BY DEF PairsOK
<1>3. CASE Send(number, hash, b)
  <2>1. CASE ros = "up"
    <3>1. sent' = [sent EXCEPT ![number] = Append(@, Len(b)), ![hash] = Append(@, b)] /\ st' = st
      BY <1>3, <2>1 DEF Send
    <3> QED  BY <1>1, <1>2, <3>1
  <2>2. CASE ros # "up"
    BY <1>2, <1>3, <2>2 DEF Send
  <2> QED  BY <2>1, <2>2
<1>4. CASE SendHalf(number, b)
  <2>1. sent' = [sent EXCEPT ![number] = Append(@, Len(b))] /\ st' = "dead"
    BY <1>4 DEF SendHalf
  <2> QED  BY <1>1, <1>2, <2>1
<1> QED  BY <1>3, <1>4

\* Both topics of a living publisher get one message more, or it dies.
LEMMA PairSent ==
  ASSUME NEW numbers, NEW hashes, NEW b \in Blocks, NEW ns, NEW hs, NEW now, NEW then,
         Paired(numbers, hashes, now), now # "dead",
         \/ /\ ns = Append(numbers, Len(b)) /\ hs = Append(hashes, b) /\ then = now
         \/ /\ ns \in {numbers, Append(numbers, Len(b))} /\ hs = hashes /\ then = "dead"
  PROVE  Paired(ns, hs, then)
<1>1. /\ numbers \in Seq(Nat) /\ hashes \in Seq(Blocks) /\ Len(numbers) = Len(hashes)
      /\ \A i \in 1 .. Len(hashes) : numbers[i] = Len(hashes[i])
  BY DEF Paired
<1>2. Len(b) \in Nat
  BY SMTT(60) DEF Blocks
<1>3. /\ Append(numbers, Len(b)) \in Seq(Nat)
      /\ Len(Append(numbers, Len(b))) = Len(hashes) + 1
      /\ \A i \in 1 .. Len(hashes) : Append(numbers, Len(b))[i] = numbers[i]
      /\ Append(numbers, Len(b))[Len(hashes) + 1] = Len(b)
  BY SMTT(60), <1>1, <1>2
<1>4. /\ Append(hashes, b) \in Seq(Blocks) /\ Len(Append(hashes, b)) = Len(hashes) + 1
      /\ \A i \in 1 .. Len(hashes) : Append(hashes, b)[i] = hashes[i]
      /\ Append(hashes, b)[Len(hashes) + 1] = b
  BY SMTT(60), <1>1
<1>5. Len(hashes) \in Nat
  BY SMTT(60), <1>1
<1>6. CASE ns = Append(numbers, Len(b)) /\ hs = Append(hashes, b)
  <2>1. \A i \in 1 .. Len(hashes) + 1 : i \in 1 .. Len(hashes) \/ i = Len(hashes) + 1
    BY SMTT(60), <1>5
  <2>2. \A i \in 1 .. Len(hashes) : ns[i] = Len(hs[i])
    BY <1>1, <1>3, <1>4, <1>6
  <2>3. ns[Len(hashes) + 1] = Len(hs[Len(hashes) + 1])
    BY <1>3, <1>4, <1>6
  <2>4. /\ ns \in Seq(Nat) /\ hs \in Seq(Blocks)
        /\ Len(hs) = Len(hashes) + 1 /\ Len(ns) = Len(hashes) + 1
    BY <1>3, <1>4, <1>6
  <2> QED  BY SMTT(60), <1>5, <2>1, <2>2, <2>3, <2>4 DEF Paired
<1>7. CASE ns = numbers /\ hs = hashes
  BY <1>1, <1>5, <1>7 DEF Paired
<1>8. CASE ns = Append(numbers, Len(b)) /\ hs = hashes /\ then = "dead"
  <2>1. ns \in Seq(Nat) /\ Len(ns) = Len(hashes) + 1
    BY <1>3, <1>8
  <2>2. \A i \in 1 .. Len(hashes) : ns[i] = Len(hashes[i])
    BY <1>1, <1>3, <1>8
  <2> QED  BY SMTT(60), <1>1, <1>5, <1>8, <2>1, <2>2 DEF Paired
<1> QED  BY <1>6, <1>7, <1>8

\* The publisher takes an import notification and publishes its block.
LEMMA PublishBest == PublishOK /\ ImportNotification => PublishOK'
<1> SUFFICES ASSUME PublishOK, ImportNotification  PROVE PublishOK'
  OBVIOUS
<1> DEFINE n == Head(imports)
           s == sent["best_hash"]
<1>1. /\ imports \in Seq(Notification) /\ imports # <<>> /\ bests \in Seq(Blocks)
      /\ s \in Seq(Blocks) /\ sent["best_number"] \in Seq(Nat) /\ st = "started"
      /\ finals \in Seq(Blocks)
  BY DEF PublishOK, ClientOK, PairsOK, Paired, ImportNotification
<1>2. n \in Notification /\ Tail(imports) \in Seq(Notification)
  BY SMTT(60), <1>1
<1>3. n.block \in Blocks
  BY <1>2 DEF Notification, Blocks
<1>4. imports' = Tail(imports) /\ UNCHANGED <<known, best, final, finals, bests>>
  BY DEF ImportNotification, client
<1>5. ClientOK'
  BY <1>2, <1>4 DEF PublishOK, ClientOK
<1>6. Announced(s, bests, imports) /\ IsPrefix(s, bests)
  BY <1>1, AnnouncedIs DEF PublishOK
<1>7. /\ n.isNewBest => /\ IsPrefix(Append(s, n.block), bests)
                        /\ Announced(Append(s, n.block), bests, Tail(imports))
      /\ ~n.isNewBest => Announced(s, bests, Tail(imports))
  BY <1>1, <1>6, BestGoes
<1>8. AnnouncedInOrder' <=>
         /\ IsPrefix(sent["best_hash"], bests)'
         /\ (st \in {"starting", "started"} => Announced(sent["best_hash"], bests, imports))'
  BY <1>5, AnnouncedIs, PTL
<1>9. CASE ~n.isNewBest
  <2>1. UNCHANGED <<sent, st>>
    BY <1>9 DEF ImportNotification
  <2>2. PairsOK'
    BY <2>1 DEF PublishOK, PairsOK, Paired
  <2>3. FinalsOK'
    BY <1>4, <2>1 DEF PublishOK, FinalsOK, Chained
  <2>4. AnnouncedInOrder'
    BY <1>4, <1>6, <1>7, <1>8, <1>9, <2>1
  <2> QED  BY <1>5, <2>2, <2>3, <2>4 DEF PublishOK
<1>10. CASE n.isNewBest
  <2>1. Send("best_number", "best_hash", n.block) \/ SendHalf("best_number", n.block)
    BY <1>10 DEF ImportNotification
  <2>2. /\ sent' \in [Topics -> Seq(Nat) \cup Seq(Blocks)]
        /\ \A t \in Topics \ {"best_number", "best_hash"} : sent'[t] = sent[t]
        /\ \/ /\ sent'["best_number"] = Append(sent["best_number"], Len(n.block)) /\ st' = st
              /\ sent'["best_hash"] = Append(s, n.block)
           \/ /\ sent'["best_number"] \in {sent["best_number"],
                                          Append(sent["best_number"], Len(n.block))}
              /\ sent'["best_hash"] = s /\ st' = "dead"
    <3>1. "best_number" \in Topics /\ "best_hash" \in Topics /\ PairsOK
      BY DEF Topics, PublishOK
    <3> HIDE DEF n
    <3> QED  BY <1>1, <1>3, <2>1, <3>1, SendShape
  <2>3. /\ sent'["finalized_number"] = sent["finalized_number"]
        /\ sent'["finalized_hash"] = sent["finalized_hash"]
    BY <2>2 DEF Topics
  <2> HIDE DEF n
  <2>4. PairsOK'
    <3>1. Paired(sent["best_number"], s, st)
          /\ Paired(sent["finalized_number"], sent["finalized_hash"], st)
      BY DEF PublishOK, PairsOK
    <3>2. Paired(sent["best_number"], sent["best_hash"], st)'
      <4> DEFINE ns == sent'["best_number"]
                 hs == sent'["best_hash"]
      <4>1. \/ /\ ns = Append(sent["best_number"], Len(n.block)) /\ hs = Append(s, n.block)
               /\ st' = st
            \/ /\ ns \in {sent["best_number"], Append(sent["best_number"], Len(n.block))}
               /\ hs = s /\ st' = "dead"
        BY <2>2
      <4> HIDE DEF ns, hs, s
      <4>2. Paired(ns, hs, st')
        BY <1>1, <1>3, <3>1, <4>1, PairSent
      <4> QED  BY <4>2 DEF ns, hs
    <3>3. Paired(sent["finalized_number"], sent["finalized_hash"], st)'
      BY <1>1, <2>3, <3>1 DEF Paired
    <3> QED  BY <2>2, <3>2, <3>3 DEF PairsOK
  <2>5. FinalsOK'
    BY <1>4, <2>3 DEF PublishOK, FinalsOK, Chained
  <2>6. AnnouncedInOrder'
    BY <1>4, <1>6, <1>7, <1>8, <1>10, <2>2
  <2> QED  BY <1>5, <2>4, <2>5, <2>6 DEF PublishOK
<1> QED  BY <1>9, <1>10

\* The first of the waiting blocks is announced after all the others that were.
LEMMA ChainedMove ==
  ASSUME NEW s \in Seq(Blocks), NEW w \in Seq(Blocks), w # <<>>, NEW f,
         Chained(s, f), Chained(w, f),
         \A i \in 1 .. Len(s), j \in 1 .. Len(w) : IsStrictPrefix(s[i], w[j]),
         NEW t \in {s, Append(s, Head(w))}
  PROVE  /\ Chained(t, f) /\ Chained(Tail(w), f)
         /\ \A i \in 1 .. Len(t), j \in 1 .. Len(Tail(w)) : IsStrictPrefix(t[i], Tail(w)[j])
<1> DEFINE v == Tail(w)
           b == Head(w)
           u == Append(s, b)
<1>1. /\ Len(v) = Len(w) - 1 /\ \A i \in 1 .. Len(v) : v[i] = w[i + 1]
      /\ b = w[1] /\ b \in Blocks /\ Len(w) \in Nat \ {0} /\ Len(s) \in Nat
  BY SMTT(60)
<1>2. Len(u) = Len(s) + 1 /\ u[Len(s) + 1] = b /\ \A i \in 1 .. Len(s) : u[i] = s[i]
  BY SMTT(60)
<1> HIDE DEF v, b, u
<1>3. \A i \in 1 .. Len(v) : i + 1 \in 1 .. Len(w) /\ 1 < i + 1
  BY SMTT(60), <1>1
<1>4. Chained(v, f)
  <2>1. \A i \in 1 .. Len(v) : IsPrefix(v[i], f)
    BY <1>1, <1>3 DEF Chained
  <2>2. ASSUME NEW i \in 1 .. Len(v), NEW j \in 1 .. Len(v), i < j
        PROVE  IsStrictPrefix(v[i], v[j])
    <3>1. i + 1 \in 1 .. Len(w) /\ j + 1 \in 1 .. Len(w) /\ i + 1 < j + 1
      BY SMTT(60), <1>3, <2>2
    <3>2. IsStrictPrefix(w[i + 1], w[j + 1])
      BY <3>1 DEF Chained
    <3> QED  BY <1>1, <3>2
  <2> QED  BY <2>1, <2>2 DEF Chained
<1>5. \A j \in 1 .. Len(v) : IsStrictPrefix(b, v[j])
  <2> TAKE j \in 1 .. Len(v)
  <2>1. 1 \in 1 .. Len(w) /\ j + 1 \in 1 .. Len(w) /\ 1 < j + 1 /\ v[j] = w[j + 1]
    BY SMTT(60), <1>1, <1>3
  <2>2. IsStrictPrefix(w[1], w[j + 1])
    BY <2>1 DEF Chained
  <2> QED  BY <1>1, <2>1, <2>2
<1>6. \A i \in 1 .. Len(s), j \in 1 .. Len(v) : IsStrictPrefix(s[i], v[j])
  BY <1>1, <1>3
<1>7. IsPrefix(b, f) /\ \A i \in 1 .. Len(s) : IsStrictPrefix(s[i], b)
  <2>1. 1 \in 1 .. Len(w)
    BY SMTT(60), <1>1
  <2> QED  BY <1>1, <2>1 DEF Chained
<1>8. \A i \in 1 .. Len(u) : i \in 1 .. Len(s) \/ i = Len(s) + 1
  BY SMTT(60), <1>1, <1>2
<1>9. Chained(u, f)
  <2>1. \A i \in 1 .. Len(u) : IsPrefix(u[i], f)
    BY <1>2, <1>7, <1>8 DEF Chained
  <2>2. ASSUME NEW i \in 1 .. Len(u), NEW j \in 1 .. Len(u), i < j
        PROVE  IsStrictPrefix(u[i], u[j])
    <3>1. i \in 1 .. Len(s) /\ u[i] = s[i]
      BY SMTT(60), <1>1, <1>2, <2>2
    <3>2. CASE j = Len(s) + 1
      BY <1>2, <1>7, <3>1, <3>2
    <3>3. CASE j \in 1 .. Len(s)
      <4>1. IsStrictPrefix(s[i], s[j])
        BY <2>2, <3>1, <3>3 DEF Chained
      <4> QED  BY <1>2, <3>1, <3>3, <4>1
    <3> QED  BY <1>8, <3>2, <3>3
  <2> QED  BY <2>1, <2>2 DEF Chained
<1>10. \A i \in 1 .. Len(u), j \in 1 .. Len(v) : IsStrictPrefix(u[i], v[j])
  BY <1>2, <1>5, <1>6, <1>8
<1>11. t = s \/ t = u
  BY DEF u, b
<1> QED  BY <1>4, <1>6, <1>9, <1>10, <1>11 DEF v

\* The publisher takes a finality notification and publishes its block.
LEMMA PublishFinal == PublishOK /\ FinalityNotification => PublishOK'
<1> SUFFICES ASSUME PublishOK, FinalityNotification  PROVE PublishOK'
  OBVIOUS
<1> DEFINE b == Head(finals)
           s == sent["finalized_hash"]
           m == sent["finalized_number"]
<1>1. /\ finals \in Seq(Blocks) /\ finals # <<>> /\ s \in Seq(Blocks) /\ m \in Seq(Nat)
      /\ st = "started"
  BY DEF PublishOK, ClientOK, PairsOK, Paired, FinalityNotification
<1>2. b \in Blocks /\ Tail(finals) \in Seq(Blocks)
  BY SMTT(60), <1>1
<1>3. finals' = Tail(finals) /\ UNCHANGED <<known, best, final, imports, bests>>
  BY DEF FinalityNotification, client
<1>4. ClientOK'
  BY <1>2, <1>3 DEF PublishOK, ClientOK
<1>5. /\ sent' \in [Topics -> Seq(Nat) \cup Seq(Blocks)]
      /\ \A t \in Topics \ {"finalized_number", "finalized_hash"} : sent'[t] = sent[t]
      /\ \/ /\ sent'["finalized_number"] = Append(m, Len(b)) /\ st' = st
            /\ sent'["finalized_hash"] = Append(s, b)
         \/ /\ sent'["finalized_number"] \in {m, Append(m, Len(b))}
            /\ sent'["finalized_hash"] = s /\ st' = "dead"
  <2>1. /\ "finalized_number" \in Topics /\ "finalized_hash" \in Topics /\ PairsOK
    BY DEF Topics, PublishOK
  <2>2. \/ Send("finalized_number", "finalized_hash", b)
        \/ SendHalf("finalized_number", b)
    BY DEF FinalityNotification
  <2> HIDE DEF b
  <2> QED  BY <1>1, <1>2, <2>1, <2>2, SendShape
<1>6. sent'["best_number"] = sent["best_number"] /\ sent'["best_hash"] = sent["best_hash"]
  BY <1>5 DEF Topics
<1>7. PairsOK'
  <2>1. Paired(m, s, st) /\ Paired(sent["best_number"], sent["best_hash"], st)
    BY DEF PublishOK, PairsOK
  <2>2. Paired(sent["best_number"], sent["best_hash"], st)'
    BY <1>1, <1>6, <2>1 DEF Paired
  <2>3. Paired(sent["finalized_number"], sent["finalized_hash"], st)'
    <3> DEFINE ms == sent'["finalized_number"]
               hs == sent'["finalized_hash"]
    <3>1. \/ ms = Append(m, Len(b)) /\ hs = Append(s, b) /\ st' = st
          \/ ms \in {m, Append(m, Len(b))} /\ hs = s /\ st' = "dead"
      BY <1>5
    <3> HIDE DEF ms, hs, s, m, b
    <3>2. Paired(ms, hs, st')
      BY <1>1, <1>2, <2>1, <3>1, PairSent
    <3> QED  BY <3>2 DEF ms, hs
  <2> QED  BY <1>5, <2>2, <2>3 DEF PairsOK
<1>8. FinalsOK'
  <2>1. /\ Chained(s, final) /\ Chained(finals, final)
        /\ \A i \in 1 .. Len(s), j \in 1 .. Len(finals) : IsStrictPrefix(s[i], finals[j])
    BY DEF PublishOK, FinalsOK
  <2> DEFINE t == sent'["finalized_hash"]
  <2>2. t \in {s, Append(s, Head(finals))}
    BY <1>5
  <2> HIDE DEF t, s
  <2>3. /\ Chained(t, final) /\ Chained(Tail(finals), final)
        /\ \A i \in 1 .. Len(t), j \in 1 .. Len(Tail(finals)) :
               IsStrictPrefix(t[i], Tail(finals)[j])
    BY <1>1, <2>1, <2>2, ChainedMove
  <2> QED  BY <1>3, <2>3 DEF FinalsOK, t
<1>9. AnnouncedInOrder'
  <2>1. /\ IsPrefix(sent["best_hash"], bests)
        /\ st \in {"starting", "started"} => Announced(sent["best_hash"], bests, imports)
    BY AnnouncedIs DEF PublishOK
  <2>2. AnnouncedInOrder' <=>
         /\ IsPrefix(sent["best_hash"], bests)'
         /\ (st \in {"starting", "started"} => Announced(sent["best_hash"], bests, imports))'
    BY <1>4, AnnouncedIs, PTL
  <2> QED  BY <1>1, <1>3, <1>6, <2>1, <2>2
<1> QED  BY <1>4, <1>7, <1>8, <1>9 DEF PublishOK

\* Every step keeps the invariant of the publishers.
LEMMA PublishStep == PublishOK /\ [PublishNext]_rcvars => PublishOK'
<1> SUFFICES ASSUME PublishOK, [PublishNext]_rcvars  PROVE PublishOK'
  OBVIOUS
<1>1. CASE UNCHANGED rcvars
  BY <1>1, PublishRest DEF rcvars, bridge
<1>2. CASE StartGroup \/ Started \/ RosShutdown
  BY <1>2, PublishStart
<1>3. CASE Chain
  BY <1>3, PublishImport, PublishFinalize DEF Chain
<1>4. CASE Publishers
  BY <1>4, PublishBest, PublishFinal, PublishSystemOK DEF Publishers
<1> QED  BY <1>1, <1>2, <1>3, <1>4 DEF PublishNext

\* Blocks that are prefixes of each other are one block.
LEMMA PrefixBoth ==
  ASSUME NEW a \in Blocks, NEW b \in Blocks, IsPrefix(a, b), IsPrefix(b, a)
  PROVE  a = b
BY SMTT(60) DEF Blocks, IsPrefix

Alive == st \in {"starting", "started"}

\* A block joins the history only when the import topics are registered, and the
\* last of them is the best block unless finality made another one the best.
BestOK ==
    /\ up \in Nat
    /\ Alive /\ bests # <<>> =>
           Registered("import_topics") /\ best \in {bests[Len(bests)], final}

\* Registered groups are counted from the start of the list.
LEMMA GroupNumber == Group("import_topics") \in Nat
<1>1. 2 \in DOMAIN Groups /\ Groups[2] = "import_topics" /\ DOMAIN Groups \subseteq Nat
  BY SMTT(60) DEF Groups
<1> HIDE DEF Groups
<1> QED  BY <1>1 DEF Group

\* Starting, sending and shutting down leave the client and the history as they are.
LEMMA BestRest ==
  ASSUME BestOK, UNCHANGED <<client, bests>>,
         \/ up' = up /\ (Alive' => Alive)
         \/ up' = up + 1 /\ st' = st
         \/ up' = 0 /\ st' = "failed"
  PROVE  BestOK'
<1>1. UNCHANGED <<best, final>>
  BY DEF client
<1>2. up' \in Nat
  BY SMTT(60) DEF BestOK
<1>3. Alive' => Alive
  BY DEF Alive
<1>4. Alive' /\ Registered("import_topics") => Registered("import_topics")'
  <2>1. CASE up' = up
    BY <2>1 DEF Registered
  <2>2. CASE up' = up + 1
    <3>1. up \in Nat
      BY DEF BestOK
    <3> QED  BY SMTT(60), <2>2, <3>1, GroupNumber DEF Registered
  <2>3. CASE st' = "failed"
    BY <2>3 DEF Alive
  <2> QED  BY <2>1, <2>2, <2>3
<1> QED  BY <1>1, <1>2, <1>3, <1>4 DEF BestOK

\* An import that becomes the best block is the last of the history, or there is
\* none yet.
LEMMA BestImport ==
  ASSUME ClientOK, BestOK, NEW b \in Blocks, NEW nb \in BOOLEAN, Import(b, nb)
  PROVE  BestOK'
<1>1. /\ UNCHANGED <<final, up, st>>
      /\ best' = IF nb THEN b ELSE best
      /\ bests' = IF nb /\ Alive /\ Registered("import_topics") THEN Append(bests, b)
                  ELSE bests
  BY DEF Import, Alive
<1>2. Append(bests, b)[Len(Append(bests, b))] = b
  BY SMTT(60) DEF ClientOK
<1>3. CASE nb /\ Alive /\ Registered("import_topics")
  BY <1>1, <1>2, <1>3 DEF BestOK, Registered
<1>4. CASE ~(nb /\ Alive /\ Registered("import_topics"))
  BY <1>1, <1>4 DEF BestOK, Registered, Alive
<1> QED  BY <1>3, <1>4

\* Finality keeps the best block or makes the finalised block the best; a best block
\* that was the finalised one before is left behind.
LEMMA BestFinalize ==
  ASSUME ClientOK, BestOK, NEW b \in known, NEW kept \in BOOLEAN, Finalize(b, kept)
  PROVE  BestOK'
<1>1. /\ UNCHANGED <<up, st, bests>> /\ final' = b /\ b # final /\ IsPrefix(final, b)
      /\ best' = IF IsPrefix(b, best) THEN best ELSE b
  BY DEF Finalize, Extends
<1>2. b \in Blocks /\ final \in Blocks
  BY DEF ClientOK
<1>3. best = final => ~IsPrefix(b, best)
  BY <1>1, <1>2, PrefixBoth
<1> QED  BY <1>1, <1>3 DEF BestOK, Registered, Alive

\* Every step keeps the history next to the client's best block.
LEMMA BestStep == PublishOK /\ BestOK /\ [PublishNext]_rcvars => BestOK'
<1> SUFFICES ASSUME PublishOK, BestOK, [PublishNext]_rcvars  PROVE BestOK'
  OBVIOUS
<1>1. CASE UNCHANGED rcvars
  BY <1>1, BestRest DEF rcvars, bridge, Alive
<1>2. CASE StartGroup
  BY <1>2, BestRest DEF StartGroup
<1>3. CASE Started \/ RosShutdown
  BY <1>3, BestRest DEF Started, RosShutdown, Alive
<1>4. CASE Chain
  <2>1. ASSUME NEW p \in known, NEW e \in Entries, NEW nb \in BOOLEAN,
               Import(Append(p, e), nb)
        PROVE  BestOK'
    <3>1. Append(p, e) \in Blocks
      BY SMTT(60) DEF PublishOK, ClientOK, Blocks
    <3> QED  BY <2>1, <3>1, BestImport DEF PublishOK
  <2>2. ASSUME NEW b \in known, NEW kept \in BOOLEAN, Finalize(b, kept)
        PROVE  BestOK'
    BY <2>2, BestFinalize DEF PublishOK
  <2> QED  BY <1>4, <2>1, <2>2 DEF Chain
<1>5. CASE ImportNotification \/ FinalityNotification
  <2>1. UNCHANGED <<client, bests, up>> /\ st = "started"
    BY <1>5 DEF ImportNotification, FinalityNotification
  <2> QED  BY <2>1, BestRest DEF Alive
<1>6. ASSUME NEW t \in SystemTopics, PublishSystem(t)  PROVE BestOK'
  BY <1>6, BestRest DEF PublishSystem, Alive
<1> QED  BY <1>1, <1>2, <1>3, <1>4, <1>5, <1>6 DEF PublishNext, Publishers

\* From the moment its topics are registered the bridge announces every block that
\* is imported as the new best one once and in order, through reorganisations, a late
\* first poll of the publishers and a shutdown of ROS, which only cuts the
\* announcements short; and the last of them is the client's best block, unless
\* finality made the finalised block the best.
THEOREM BestsAnnounced == PublishSpec => []BestImportsAnnounced
<1>1. RosInit => PublishOK /\ BestOK
  <2>1. RosInit => up \in Nat /\ bests = <<>>
    BY SMTT(60) DEF RosInit
  <2> QED  BY <2>1, PublishInit DEF BestOK
<1>2. PublishOK /\ BestOK /\ [PublishNext]_rcvars => (PublishOK /\ BestOK)'
  BY PublishStep, BestStep
<1>3. PublishOK /\ BestOK => BestImportsAnnounced
  BY DEF PublishOK, BestOK, BestImportsAnnounced, Alive
<1> QED  BY <1>1, <1>2, <1>3, PTL DEF PublishSpec

\* Numbers and hashes on the topics belong together, one number more at most after
\* a publisher died between the two sends, and each finalised block that is announced
\* extends the one before it.
THEOREM TopicsTogether == PublishSpec => []TopicsAgree
<1>1. RosInit => PublishOK
  BY PublishInit
<1>2. PublishOK /\ [PublishNext]_rcvars => PublishOK'
  BY PublishStep
<1>3. PublishOK => TopicsAgree
  <2> SUFFICES ASSUME PublishOK  PROVE TopicsAgree
    OBVIOUS
  <2>1. ASSUME NEW numbers, NEW hashes, Paired(numbers, hashes, st)
        PROVE  /\ \A i \in DOMAIN hashes : numbers[i] = Len(hashes[i])
               /\ Len(numbers) \in {Len(hashes)} \cup (IF st = "dead" THEN {Len(hashes) + 1} ELSE {})
    <3>1. DOMAIN hashes = 1 .. Len(hashes)
      BY SMTT(60), <2>1 DEF Paired
    <3> QED  BY <2>1, <3>1 DEF Paired
  <2>2. /\ Paired(sent["best_number"], sent["best_hash"], st)
        /\ Paired(sent["finalized_number"], sent["finalized_hash"], st)
    BY DEF PublishOK, PairsOK
  <2>3. ASSUME NEW t \in {<<"best_number", "best_hash">>, <<"finalized_number", "finalized_hash">>}
        PROVE  Paired(sent[t[1]], sent[t[2]], st)
    BY SMTT(60), <2>2
  <2>4. \A i, j \in DOMAIN sent["finalized_hash"] :
            i < j => IsStrictPrefix(sent["finalized_hash"][i], sent["finalized_hash"][j])
    <3>1. DOMAIN sent["finalized_hash"] = 1 .. Len(sent["finalized_hash"])
      BY SMTT(60), <2>2 DEF Paired
    <3> QED  BY <3>1 DEF PublishOK, FinalsOK, Chained
  <2> QED  BY <2>1, <2>3, <2>4 DEF TopicsAgree
<1> QED  BY <1>1, <1>2, <1>3, PTL DEF PublishSpec

=============================================================================
