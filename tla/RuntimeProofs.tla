---------------------------- MODULE RuntimeProofs ---------------------------
(***************************************************************************)
(* Proofs about what the runtimes of the chains are given and keep: signed *)
(* extrinsics, where their fees go, and the datalog.                       *)
(***************************************************************************)
EXTENDS Subkey, FeeFlow, Datalog, FiniteSetTheorems, TLAPS

\* A leaf is for Zenon unless it names another prover.
USE ZenonT(60)

-----------------------------------------------------------------------------
(* Extrinsics.                                                             *)

\* What every session keeps true of printed and of applied extrinsics: the index
\* of an applied one is used up.
ExtrinsicsOK ==
    /\ \A x \in xts : /\ x.xt.version = NodeVersion
                      /\ x.xt.genesis = x.asked \/ x.xt.genesis = "ipci"
    /\ applied = [c \in Chains |-> applied[c]]
    /\ \A c \in Chains :
           /\ IsFiniteSet(applied[c])
           /\ \A x \in applied[c] :
                  /\ x.asked = c /\ x.xt.genesis = c
                  /\ x.xt.index \in Nat /\ x.xt.index < Nonce(c, x.xt.signer)
           /\ \A x, y \in applied[c] : x.xt = y.xt => x = y

\* Commands that touch neither keep it.
LEMMA ExtrinsicsRest ==
    ASSUME ExtrinsicsOK, UNCHANGED <<xts, applied>>
    PROVE  ExtrinsicsOK'
BY SMTT(60) DEF ExtrinsicsOK, Nonce

\* A new extrinsic is signed with the linked versions, and over the genesis that
\* was asked for or over ipci's.
LEMMA ExtrinsicsPrinted ==
    ASSUME ExtrinsicsOK, NEW x, xts' = xts \cup {x}, UNCHANGED applied,
           x.xt.version = NodeVersion, x.xt.genesis = x.asked \/ x.xt.genesis = "ipci"
    PROVE  ExtrinsicsOK'
BY SMTT(60) DEF ExtrinsicsOK, Nonce

\* Applying an extrinsic uses its index up.
LEMMA ExtrinsicsApplied ==
    ASSUME ExtrinsicsOK, NEW c \in Chains, NEW x \in xts, Apply(c, x)
    PROVE  ExtrinsicsOK'
<1> DEFINE A == applied[c]
           new == [xt |-> x.xt, at |-> Cardinality(A), asked |-> x.asked]
           B == A \cup {new}
           Of(S, s) == {y \in S : y.xt.signer = s}
           s0 == x.xt.signer
<1>1. /\ x.xt.version = Version[c] /\ x.xt.genesis = c /\ x.xt.index = Cardinality(Of(A, s0))
      /\ applied' = [applied EXCEPT ![c] = B] /\ xts' = xts
  BY DEF Apply, Accepts, Nonce
<1>2. new.xt = x.xt /\ new.asked = x.asked
  OBVIOUS
<1> HIDE DEF new
<1>3. x.asked = c
  BY <1>1, VersionAssumption DEF ExtrinsicsOK
<1>4. /\ IsFiniteSet(A)
      /\ \A y \in A : /\ y.asked = c /\ y.xt.genesis = c /\ y.xt.index \in Nat
                      /\ y.xt.index < Cardinality(Of(A, y.xt.signer))
      /\ \A y, z \in A : y.xt = z.xt => y = z
  BY DEF ExtrinsicsOK, Nonce
<1>5. \A s : IsFiniteSet(Of(A, s)) /\ Cardinality(Of(A, s)) \in Nat
  <2> SUFFICES ASSUME NEW s PROVE IsFiniteSet(Of(A, s)) /\ Cardinality(Of(A, s)) \in Nat
    OBVIOUS
  <2>1. Of(A, s) \subseteq A
    OBVIOUS
  <2>2. IsFiniteSet(Of(A, s))
    BY <1>4, <2>1, FS_Subset
  <2> QED
    BY <2>2, FS_CardinalityType
<1>6. \A y \in A : y.xt # x.xt
  <2> SUFFICES ASSUME NEW y \in A, y.xt = x.xt PROVE FALSE
    OBVIOUS
  <2> DEFINE n == Cardinality(Of(A, s0))
  <2>1. y.xt.index \in Nat /\ y.xt.index < n /\ y.xt.index = n
    BY SMTT(60), <1>1, <1>4
  <2> HIDE DEF n
  <2> QED
    BY SMTT(60), <2>1
<1>7. new \notin A
  BY <1>2, <1>6
<1>8. Of(B, s0) = Of(A, s0) \cup {new} /\ \A s : s # s0 => Of(B, s) = Of(A, s)
  BY <1>2
<1>9. /\ Cardinality(Of(B, s0)) = Cardinality(Of(A, s0)) + 1
      /\ \A s : s # s0 => Cardinality(Of(B, s)) = Cardinality(Of(A, s))
  <2>1. new \notin Of(A, s0)
    BY <1>7
  <2>2. Cardinality(Of(A, s0) \cup {new}) = Cardinality(Of(A, s0)) + 1
    <3> DEFINE D == Of(A, s0)
    <3>1. IsFiniteSet(D) /\ new \notin D
      BY <1>5, <2>1
    <3> HIDE DEF D
    <3>2. Cardinality(D \cup {new}) = Cardinality(D) + 1
      BY <3>1, FS_AddElement
    <3> QED
      BY <3>2 DEF D
  <2> QED
    BY <1>8, <2>2
<1>10. IsFiniteSet(B)
  BY <1>4, FS_AddElement
<1> HIDE DEF Of
<1>11. ASSUME NEW y \in B
       PROVE  /\ y.asked = c /\ y.xt.genesis = c /\ y.xt.index \in Nat
              /\ y.xt.index < Cardinality(Of(B, y.xt.signer))
  <2>1. CASE y = new
    <3>1. y.xt = x.xt /\ y.asked = c
      BY <1>2, <1>3, <2>1
    <3> DEFINE n == Cardinality(Of(A, s0))
    <3>2. n \in Nat /\ y.xt.index = n /\ Cardinality(Of(B, y.xt.signer)) = n + 1
      BY <1>1, <1>5, <1>9, <3>1
    <3> HIDE DEF n
    <3> QED
      BY SMTT(60), <1>1, <3>1, <3>2
  <2>2. CASE y \in A
    <3> DEFINE m == Cardinality(Of(A, y.xt.signer))
               k == Cardinality(Of(B, y.xt.signer))
               i == y.xt.index
    <3>1. y.asked = c /\ y.xt.genesis = c /\ i \in Nat /\ i < m /\ m \in Nat
      BY <1>4, <1>5, <2>2
    <3>2. k = m + 1 \/ k = m
      BY <1>9
    <3> HIDE DEF m, k, i
    <3>3. i < k
      BY SMTT(60), <3>1, <3>2
    <3> QED
      BY <3>1, <3>3 DEF i, k
  <2> QED
    BY <2>1, <2>2
<1>12. \A y, z \in B : y.xt = z.xt => y = z
  BY <1>2, <1>4, <1>6
<1>13. /\ applied' = [d \in Chains |-> applied'[d]] /\ applied'[c] = B
       /\ \A d \in Chains : d # c => applied'[d] = applied[d]
  <2>1. applied = [d \in Chains |-> applied[d]]
    BY DEF ExtrinsicsOK
  <2> HIDE DEF B
  <2> QED
    BY <1>1, <2>1
<1>14. ASSUME NEW d \in Chains
       PROVE  /\ IsFiniteSet(applied'[d])
              /\ \A y \in applied'[d] :
                     /\ y.asked = d /\ y.xt.genesis = d
                     /\ y.xt.index \in Nat /\ y.xt.index < Nonce(d, y.xt.signer)'
              /\ \A y, z \in applied'[d] : y.xt = z.xt => y = z
  <2>1. CASE d = c
    <3>1. \A s : Nonce(c, s)' = Cardinality(Of(B, s))
      BY <1>13 DEF Nonce, Of
    <3> HIDE DEF B
    <3> QED
      BY SMTT(60), <1>10, <1>11, <1>12, <1>13, <2>1, <3>1
  <2>2. CASE d # c
    <3>1. applied'[d] = applied[d]
      BY <1>13, <2>2
    <3>2. \A s : Nonce(d, s)' = Nonce(d, s)
      BY <3>1 DEF Nonce
    <3> QED
      BY SMTT(60), <3>1, <3>2 DEF ExtrinsicsOK
  <2> QED
    BY <2>1, <2>2
<1>15. \A y \in xts' : /\ y.xt.version = NodeVersion
                       /\ y.xt.genesis = y.asked \/ y.xt.genesis = "ipci"
  BY <1>1 DEF ExtrinsicsOK
<1> QED
  BY <1>13, <1>14, <1>15 DEF ExtrinsicsOK

\* An extrinsic takes effect on no chain but the one asked for, and once only, for
\* any chains, keys and length of a session (create_extrinsic signs the genesis
\* hash and the index).  It rests on the versions of the runtimes: what
\* sign-transaction prints is signed for ipci, whose versions are others.
THEOREM AppliedOnce == SSpec => []AppliedWhereAsked
<1>1. SInit => ExtrinsicsOK
  BY FS_EmptySet DEF SInit, ExtrinsicsOK
<1>2. ExtrinsicsOK /\ [SNext]_svars => ExtrinsicsOK'
  <2> SUFFICES ASSUME ExtrinsicsOK, [SNext]_svars PROVE ExtrinsicsOK'
    OBVIOUS
  <2>1. ASSUME NEW u, NEW pw, NEW g, TransferCmd(u, pw, g) PROVE ExtrinsicsOK'
    <3> DEFINE key == ReadPair(u, pw)
               hash == ReadGenesisHash(g)
               x == [asked |-> hash, id |-> ran,
                     xt |-> CreateExtrinsic("transfer", Nonce(hash, PublicBytes(key)), key, hash)]
    <3>1. xts' = xts \cup {x} /\ UNCHANGED applied
      BY <2>1 DEF TransferCmd
    <3>2. x.xt.version = NodeVersion /\ x.xt.genesis = x.asked
      BY DEF CreateExtrinsic
    <3> HIDE DEF x
    <3> QED
      BY <3>1, <3>2, ExtrinsicsPrinted
  <2>2. ASSUME NEW u, NEW pw, NEW p, SignTransaction(u, pw, p) PROVE ExtrinsicsOK'
    <3> DEFINE key == ReadPair(u, pw)
               x == [asked |-> p, id |-> ran,
                     xt |-> CreateExtrinsic("call", Nonce(p, PublicBytes(key)), key,
                                            ReadGenesisHash(None))]
    <3>1. xts' = xts \cup {x} /\ UNCHANGED applied
      BY <2>2 DEF SignTransaction
    <3>2. x.xt.version = NodeVersion /\ x.xt.genesis = "ipci"
      BY DEF CreateExtrinsic, ReadGenesisHash
    <3> HIDE DEF x
    <3> QED
      BY <3>1, <3>2, ExtrinsicsPrinted
  <2>3. ASSUME NEW c \in Chains, NEW x \in xts, Apply(c, x) PROVE ExtrinsicsOK'
    BY <2>3, ExtrinsicsApplied
  <2>4. CASE UNCHANGED <<xts, applied>>
    BY <2>4, ExtrinsicsRest
  <2>5. ASSUME NEW u, NEW pw, NEW n, Generate(u, pw, n) \/ Inspect(u, pw, n) \/ VanityKey(n)
                                     \/ ModuleIdAccount(pw, n)
        PROVE  UNCHANGED <<xts, applied>>
    BY <2>5 DEF Generate, Inspect, VanityKey, ModuleIdAccount
  <2>6. ASSUME NEW u, NEW v, NEW w, Sign(u, v, w) \/ VerifyCmd(u, v, w) \/ Insert(u, v)
                                    \/ GenerateNodeKey(u) \/ InspectNodeKey(u)
        PROVE  UNCHANGED <<xts, applied>>
    BY <2>6 DEF Sign, VerifyCmd, Insert, GenerateNodeKey, InspectNodeKey
  <2>7. CASE UNCHANGED svars
    BY <2>4, <2>7 DEF svars
  <2> QED
    BY <2>1, <2>2, <2>3, <2>4, <2>5, <2>6, <2>7 DEF SNext
<1>3. ExtrinsicsOK => AppliedWhereAsked
  BY SMTT(60) DEF ExtrinsicsOK, AppliedWhereAsked
<1> QED
  BY <1>1, <1>2, <1>3, PTL DEF SSpec

-----------------------------------------------------------------------------
(* Signatures.                                                             *)

\* An output shows the public key it was printed for; if it shows a seed as well,
\* that is the seed of the key that its URI and password give.
ShownAs(o, pub, net) ==
    /\ o.public = Hex(pub) /\ o.address = Ss58(AccountBytes(pub), net)
    /\ o.seed # None =>
           /\ IsSecret(o.uri) /\ pub = PublicBytes(FromString(o.uri, o.password))
           /\ o.seed = Hex(<<"seed", FromString(o.uri, o.password)>>)

\* What verify answers for a signature, a text and a message.
Answer(sig, uri, message) ==
    IF ReadPublicKey(uri) = None THEN "panic"
    ELSE IF ReadPublicKey(uri) = PublicBytes(sig.key) /\ message = sig.message
         THEN "valid" ELSE "invalid"

SignaturesOK ==
    /\ \A o \in outs : \E pub, net : ShownAs(o, pub, net)
    /\ \A s \in sigs : s.key = ReadPair(s.suri, s.password)
    /\ \A v \in verdicts : v.sig \in sigs /\ v.answer = Answer(v.sig, v.uri, v.message)

\* No command changes the cryptography, and so what texts stand for.
LEMMA SameTexts ==
    ASSUME scheme' = scheme
    PROVE  /\ \A o, pub, net : ShownAs(o, pub, net)' <=> ShownAs(o, pub, net)
           /\ \A u, pw : ReadPair(u, pw)' = ReadPair(u, pw)
           /\ \A s, u, m : Answer(s, u, m)' = Answer(s, u, m)
<1>1. /\ \A p : AccountBytes(p)' = AccountBytes(p)
      /\ \A u : IsSecret(u)' <=> IsSecret(u)
      /\ \A u : IsAddress(u)' <=> IsAddress(u)
      /\ \A b : PublicLength(b)' <=> PublicLength(b)
  BY DEF AccountBytes, IsSecret, IsSeed, IsAddress, PublicLength
<1>2. \A o, pub, net : ShownAs(o, pub, net)' <=> ShownAs(o, pub, net)
  BY <1>1 DEF ShownAs
<1>3. \A u, pw : ReadPair(u, pw)' = ReadPair(u, pw)
  BY <1>1 DEF ReadPair, PairFromSuri
<1>4. \A u : ReadPublicKey(u)' = ReadPublicKey(u)
  BY <1>1 DEF ReadPublicKey
<1>5. \A s, u, m : Answer(s, u, m)' = Answer(s, u, m)
  BY <1>4 DEF Answer
<1> QED
  BY <1>2, <1>3, <1>5

\* print_from_uri prints such outputs only.
LEMMA PrintsShown ==
    ASSUME NEW uri, NEW password, NEW override, PrintFromUri(uri, password, override)
    PROVE  \A o \in outs' : o \in outs \/ \E pub, net : ShownAs(o, pub, net)
<1>1. ASSUME NEW net, NEW sd, NEW pub,
             sd # None => /\ IsSecret(uri) /\ pub = PublicBytes(FromString(uri, password))
                            /\ sd = Hex(<<"seed", FromString(uri, password)>>)
      PROVE  ShownAs(Printed(uri, password, net, sd, pub), pub, net)
  <2> DEFINE o == Printed(uri, password, net, sd, pub)
  <2>1. /\ o.uri = uri /\ o.password = password /\ o.seed = sd /\ o.public = Hex(pub)
        /\ o.address = Ss58(AccountBytes(pub), net)
    BY DEF Printed
  <2> HIDE DEF o
  <2>2. ShownAs(o, pub, net)
    BY <1>1, <2>1 DEF ShownAs
  <2> QED
    BY <2>2 DEF o
<1>2. CASE IsSecret(uri)
  <2> DEFINE key == FromString(uri, password)
             net == NetworkOr(override, Default)
             sd == Hex(<<"seed", key>>)
             new == Printed(uri, password, net, sd, PublicBytes(key))
  <2>1. outs' = outs \cup {new}
    BY <1>2 DEF PrintFromUri
  <2>2. ShownAs(new, PublicBytes(key), net)
    BY <1>1, <1>2
  <2> HIDE DEF new
  <2> QED
    BY <2>1, <2>2
<1>3. CASE ~IsSecret(uri) /\ IsAddress(uri)
  <2> DEFINE net == NetworkOr(override, uri[3])
             new == Printed(uri, password, net, None, uri[2])
  <2>1. outs' = outs \cup {new}
    BY <1>3 DEF PrintFromUri
  <2>2. ShownAs(new, uri[2], net)
    BY <1>1
  <2> HIDE DEF new
  <2> QED
    BY <2>1, <2>2
<1>4. CASE ~IsSecret(uri) /\ ~IsAddress(uri)
  BY <1>4 DEF PrintFromUri
<1> QED
  BY <1>2, <1>3, <1>4

\* Printing a key keeps the invariant.
LEMMA SignaturesPrinted ==
    ASSUME SignaturesOK, NEW uri, NEW password, NEW override,
           PrintFromUri(uri, password, override), UNCHANGED <<scheme, sigs, verdicts>>
    PROVE  SignaturesOK'
<1>1. \A o \in outs' : \E pub, net : ShownAs(o, pub, net)
  BY PrintsShown DEF SignaturesOK
<1>2. \A o \in outs' : \E pub, net : ShownAs(o, pub, net)'
  BY <1>1, SameTexts
<1> QED
  BY SMTT(60), <1>2, SameTexts DEF SignaturesOK

\* Commands that neither print, sign nor verify keep the invariant.
LEMMA SignaturesRest ==
    ASSUME SignaturesOK, UNCHANGED <<scheme, outs, sigs, verdicts>>
    PROVE  SignaturesOK'
<1>1. \A o \in outs' : \E pub, net : ShownAs(o, pub, net)'
  BY SameTexts DEF SignaturesOK
<1> QED
  BY SMTT(60), <1>1, SameTexts DEF SignaturesOK

\* Every command keeps the invariant.
LEMMA SignaturesStep == SignaturesOK /\ [SNext]_svars => SignaturesOK'
<1> SUFFICES ASSUME SignaturesOK, [SNext]_svars PROVE SignaturesOK'
  OBVIOUS
<1>1. ASSUME NEW p, NEW pw, NEW n, Generate(p, pw, n) PROVE SignaturesOK'
  BY <1>1, SignaturesPrinted DEF Generate, Run
<1>2. ASSUME NEW u, NEW pw, NEW n, Inspect(u, pw, n) PROVE SignaturesOK'
  BY <1>2, SignaturesPrinted DEF Inspect, Run
<1>3. ASSUME NEW n, VanityKey(n) PROVE SignaturesOK'
  BY <1>3, SignaturesPrinted DEF VanityKey, Run
<1>4. ASSUME NEW pw, NEW n, ModuleIdAccount(pw, n) PROVE SignaturesOK'
  BY <1>4, SignaturesPrinted DEF ModuleIdAccount, Run
<1>5. ASSUME NEW u, NEW pw, NEW m, Sign(u, pw, m) PROVE SignaturesOK'
  <2> DEFINE new == [suri |-> u, password |-> pw, key |-> ReadPair(u, pw), message |-> m]
  <2>1. /\ sigs' = sigs \cup {new} /\ scheme' = scheme
        /\ outs' = outs /\ verdicts' = verdicts
    BY <1>5 DEF Sign, Run
  <2>2. new.key = ReadPair(new.suri, new.password)
    OBVIOUS
  <2> HIDE DEF new
  <2>3. \A o \in outs' : \E pub, net : ShownAs(o, pub, net)'
    BY <2>1, SameTexts DEF SignaturesOK
  <2>4. \A s \in sigs' : s.key = ReadPair(s.suri, s.password)'
    BY <2>1, <2>2, SameTexts DEF SignaturesOK
  <2>5. \A v \in verdicts' : v.sig \in sigs' /\ v.answer = Answer(v.sig, v.uri, v.message)'
    BY SMTT(60), <2>1, SameTexts DEF SignaturesOK
  <2> QED
    BY <2>3, <2>4, <2>5 DEF SignaturesOK
<1>6. ASSUME NEW s \in sigs, NEW u, NEW m, VerifyCmd(s, u, m) PROVE SignaturesOK'
  <2> DEFINE new == [sig |-> s, uri |-> u, message |-> m, answer |-> Answer(s, u, m)]
  <2>1. verdicts' = verdicts \cup {new} /\ scheme' = scheme /\ outs' = outs /\ sigs' = sigs
    BY <1>6 DEF VerifyCmd, Run, Answer
  <2>2. new.sig = s /\ new.answer = Answer(new.sig, new.uri, new.message)
    OBVIOUS
  <2> HIDE DEF new
  <2>3. \A o \in outs' : \E pub, net : ShownAs(o, pub, net)'
    BY <2>1, SameTexts DEF SignaturesOK
  <2>4. \A x \in sigs' : x.key = ReadPair(x.suri, x.password)'
    BY <2>1, SameTexts DEF SignaturesOK
  <2>5. \A v \in verdicts' : v.sig \in sigs' /\ v.answer = Answer(v.sig, v.uri, v.message)'
    BY SMTT(60), <2>1, <2>2, SameTexts DEF SignaturesOK
  <2> QED
    BY <2>3, <2>4, <2>5 DEF SignaturesOK
<1>7. ASSUME NEW u, NEW pw, NEW g, TransferCmd(u, pw, g) \/ SignTransaction(u, pw, g)
                                   \/ Apply(u, pw) \/ Insert(u, pw)
                                   \/ GenerateNodeKey(u) \/ InspectNodeKey(u)
      PROVE  UNCHANGED <<scheme, outs, sigs, verdicts>>
  BY <1>7 DEF TransferCmd, SignTransaction, Apply, Insert, GenerateNodeKey,
     InspectNodeKey, Run
<1>8. CASE UNCHANGED <<scheme, outs, sigs, verdicts>>
  BY <1>8, SignaturesRest
<1>9. CASE UNCHANGED svars
  BY <1>8, <1>9 DEF svars
<1> QED
  BY <1>1, <1>2, <1>3, <1>4, <1>5, <1>6, <1>7, <1>8, <1>9 DEF SNext

\* The key of a secret that an output stands for is the key the output shows.
LEMMA SecretsGiveKey ==
    ASSUME NEW q, NEW pub, NEW net, ShownAs(q, pub, net), NEW suri, NEW pw,
           <<suri, pw>> \in Secrets(q)
    PROVE  PublicBytes(ReadPair(suri, pw)) = pub
<1> DEFINE key == FromString(q.uri, q.password)
<1>1. q.seed # None /\ ((suri = q.uri /\ pw = q.password) \/ suri = q.seed)
  BY DEF Secrets
<1>2. IsSecret(q.uri) /\ pub = PublicBytes(key) /\ q.seed = Hex(<<"seed", key>>)
  BY <1>1 DEF ShownAs
<1> HIDE DEF key
<1>3. CASE suri = q.uri /\ pw = q.password
  BY <1>2, <1>3 DEF ReadPair, PairFromSuri, key
<1>4. CASE suri = q.seed
  <2>1. suri = <<"hex", <<"seed", key>>>>
    BY <1>2, <1>4 DEF Hex
  <2>2. suri[1] = "hex" /\ suri[2] = <<"seed", key>>
    BY <2>1
  <2>3. suri[2][1] = "seed" /\ suri[2][2] = key
    BY SMTT(60), <2>2
  <2>4. IsSecret(suri)
    BY <2>2, <2>3 DEF IsSecret, IsSeed
  <2>5. FromString(suri, pw) = key
    BY <2>2, <2>3 DEF FromString, FromSeed
  <2> QED
    BY <1>2, <2>4, <2>5 DEF ReadPair, PairFromSuri
<1> QED
  BY <1>1, <1>3, <1>4

\* The texts printed for a key are read back as that key, or not at all.
LEMMA TextsAreRead ==
    ASSUME NEW o, NEW pub, NEW net, ShownAs(o, pub, net), NEW u \in {o.public, o.address},
           ReadPublicKey(u) # None
    PROVE  ReadPublicKey(u) = pub
<1>1. CASE u = o.public
  <2>1. u[1] = "hex" /\ u[2] = pub
    BY SMTT(60), <1>1 DEF ShownAs, Hex
  <2> QED
    BY <2>1 DEF ReadPublicKey
<1>2. CASE u = o.address
  <2>1. u[1] = "ss58" /\ u[2] = AccountBytes(pub)
    BY SMTT(60), <1>2 DEF ShownAs, Ss58
  <2>2. ReadPublicKey(u) = IF IsAddress(u) THEN u[2] ELSE None
    BY <2>1 DEF ReadPublicKey
  <2>3. scheme # "ecdsa"
    BY <2>2 DEF IsAddress
  <2> QED
    BY <2>1, <2>2, <2>3 DEF AccountBytes
<1> QED
  BY <1>1, <1>2

\* verify says "valid" exactly for the signed message and the key printed for the
\* secret that signed it, in every session, for any phrases, passwords, networks
\* and messages (do_sign, do_verify, read_pair and read_public_key).
THEOREM VerifyIsRight == SSpec => []VerifyTellsSigner
<1>1. SInit => SignaturesOK
  BY DEF SInit, SignaturesOK
<1>2. SignaturesOK => VerifyTellsSigner
  <2> SUFFICES ASSUME SignaturesOK, NEW v \in verdicts, NEW o \in outs, NEW q \in outs,
                      v.uri \in {o.public, o.address}, v.answer # "panic",
                      <<v.sig.suri, v.sig.password>> \in Secrets(q)
               PROVE  v.answer = "valid" <=> v.message = v.sig.message /\ q.public = o.public
    BY DEF VerifyTellsSigner
  <2>1. PICK po, no : ShownAs(o, po, no)
    BY DEF SignaturesOK
  <2>2. PICK pq, nq : ShownAs(q, pq, nq)
    BY DEF SignaturesOK
  <2>3. v.sig \in sigs /\ v.answer = Answer(v.sig, v.uri, v.message)
    BY DEF SignaturesOK
  <2>4. v.sig.key = ReadPair(v.sig.suri, v.sig.password)
    BY <2>3 DEF SignaturesOK
  <2>5. PublicBytes(v.sig.key) = pq
    BY SMTT(60), <2>2, <2>4, SecretsGiveKey
  <2>6. ReadPublicKey(v.uri) # None
    BY <2>3 DEF Answer
  <2>7. ReadPublicKey(v.uri) = po
    BY <2>1, <2>6, TextsAreRead
  <2>8. v.answer = IF po = pq /\ v.message = v.sig.message THEN "valid" ELSE "invalid"
    BY <2>3, <2>5, <2>6, <2>7 DEF Answer
  <2>9. q.public = o.public <=> pq = po
    BY SMTT(60), <2>1, <2>2 DEF ShownAs, Hex
  <2> QED
    BY <2>8, <2>9
<1> QED
  BY <1>1, <1>2, SignaturesStep, PTL DEF SSpec

-----------------------------------------------------------------------------
(* Where fees go.                                                          *)

Balances == [All -> Nat]

\* The units held by some of the accounts.
Coins(b, S) == UNION {{a} \X (1 .. b[a]) : a \in S}

\* A balance is as many units.
LEMMA OwnCoins ==
    ASSUME NEW a, NEW n \in Nat
    PROVE  IsFiniteSet({a} \X (1 .. n)) /\ Cardinality({a} \X (1 .. n)) = n
<1> DEFINE S == {a}
           T == 1 .. n
<1>1. IsFiniteSet(S) /\ Cardinality(S) = 1
  BY FS_Singleton
<1>2. IsFiniteSet(T) /\ Cardinality(T) = n
  BY SMTT(60), FS_Interval
<1> HIDE DEF S, T
<1>3. IsFiniteSet(S \X T) /\ Cardinality(S \X T) = Cardinality(S) * Cardinality(T)
  BY <1>1, <1>2, FS_Product
<1>4. IsFiniteSet(S \X T) /\ Cardinality(S \X T) = n
  BY SMTT(60), <1>1, <1>2, <1>3
<1> QED
  BY <1>4 DEF S, T

\* The units of some accounts can be counted.
LEMMA CoinsFinite ==
    ASSUME NEW b \in Balances, NEW S \in SUBSET All
    PROVE  IsFiniteSet(Coins(b, S)) /\ Cardinality(Coins(b, S)) \in Nat
<1> DEFINE Heap == {{a} \X (1 .. b[a]) : a \in S}
<1>1. IsFiniteSet(S)
  <2>1. IsFiniteSet(All)
    BY FeeAssumption, FS_AddElement DEF All
  <2> QED
    BY <2>1, FS_Subset
<1>2. IsFiniteSet(Heap)
  <2> DEFINE f == [a \in S |-> {a} \X (1 .. b[a])]
  <2>1. f \in Surjection(S, Heap)
    BY DEF Surjection
  <2> HIDE DEF f, Heap
  <2> QED
    BY <1>1, <2>1, FS_Surjection
<1>3. \A u \in Heap : IsFiniteSet(u)
  <2> SUFFICES ASSUME NEW u \in Heap PROVE IsFiniteSet(u)
    OBVIOUS
  <2>1. PICK a \in S : u = {a} \X (1 .. b[a])
    OBVIOUS
  <2>2. b[a] \in Nat
    BY DEF Balances
  <2>3. IsFiniteSet({a} \X (1 .. b[a]))
    BY <2>2, OwnCoins
  <2> QED
    BY <2>1, <2>3
<1> HIDE DEF Heap
<1>4. IsFiniteSet(UNION Heap)
  BY <1>2, <1>3, FS_UNION
<1> QED
  BY <1>4, FS_CardinalityType DEF Coins, Heap

\* What an account holds and what the others hold is all that is held.
LEMMA HeldSplits ==
    ASSUME NEW b \in Balances, NEW who \in All
    PROVE  Held(b) = Cardinality(Coins(b, All \ {who})) + b[who]
<1> DEFINE own == {who} \X (1 .. b[who])
           rest == Coins(b, All \ {who})
<1>1. Held(b) = Cardinality(rest \cup own) /\ rest \cap own = {}
  <2>1. Coins(b, All) = rest \cup own
    BY DEF Coins
  <2>2. rest \cap own = {}
    BY SMTT(60) DEF Coins
  <2> QED
    BY <2>1, <2>2 DEF Held, Coins
<1>2. b[who] \in Nat /\ IsFiniteSet(own) /\ Cardinality(own) = b[who]
  BY OwnCoins DEF Balances
<1>3. IsFiniteSet(rest) /\ Cardinality(rest) \in Nat
  BY CoinsFinite
<1> HIDE DEF own, rest
<1>4. Cardinality(rest \cap own) = 0
  BY <1>1, FS_EmptySet
<1>5. Cardinality(rest \cup own) = Cardinality(rest) + Cardinality(own) - Cardinality(rest \cap own)
  BY <1>2, <1>3, FS_Union
<1>6. Cardinality(rest \cup own) = Cardinality(rest) + b[who]
  BY SMTT(60), <1>2, <1>3, <1>4, <1>5
<1> QED
  BY <1>1, <1>6 DEF rest

\* Writing one balance changes what is held by as much.
LEMMA HeldAfterWrite ==
    ASSUME NEW b \in Balances, NEW who \in All, NEW n \in Nat
    PROVE  LET c == [b EXCEPT ![who] = n]
           IN  /\ c \in Balances /\ c[who] = n /\ \A a \in All \ {who} : c[a] = b[a]
               /\ Held(b) \in Nat /\ Held(c) \in Nat
               /\ Held(c) + b[who] = Held(b) + n
<1> DEFINE c == [b EXCEPT ![who] = n]
<1>1. c \in Balances /\ c[who] = n /\ \A a \in All \ {who} : c[a] = b[a]
  BY DEF Balances
<1> HIDE DEF c
<1>2. Coins(c, All \ {who}) = Coins(b, All \ {who})
  BY <1>1 DEF Coins
<1> DEFINE m == Cardinality(Coins(b, All \ {who}))
<1>3. Held(b) = m + b[who] /\ Held(c) = m + n
  BY <1>1, <1>2, HeldSplits
<1>4. m \in Nat
  BY CoinsFinite
<1> HIDE DEF m
<1>5. b[who] \in Nat
  BY DEF Balances
<1>6. Held(b) \in Nat /\ Held(c) \in Nat /\ Held(c) + b[who] = Held(b) + n
  BY SMTT(60), <1>3, <1>4, <1>5
<1> QED
  BY <1>1, <1>6 DEF c

\* No account lies below the existential deposit.
Alive(b) == \A a \in All : b[a] = 0 \/ b[a] >= ExistentialDeposit

\* An outcome of resolving an imbalance: what it does not deposit, it drops.
Resolved(b, amount, r) ==
    /\ r.bal \in Balances /\ Alive(r.bal) /\ r.dropped \in Nat
    /\ Held(r.bal) \in Nat /\ Held(r.bal) + r.dropped = Held(b) + amount

\* resolve_creating pays in the amount, or drops it where it cannot open an account.
LEMMA ResolveResolves ==
    ASSUME NEW b \in Balances, Alive(b), NEW who \in All, NEW amount \in Nat
    PROVE  Resolved(b, amount, ResolveCreating(b, who, amount))
<1> DEFINE r == ResolveCreating(b, who, amount)
<1>0. b[who] \in Nat /\ b[who] + amount \in Nat
  BY SMTT(60) DEF Balances
<1>1. CASE b[who] = 0 /\ amount < ExistentialDeposit
  <2>1. r.bal = b /\ r.dropped = amount
    BY <1>1 DEF ResolveCreating
  <2>2. Held(b) \in Nat
    BY <1>0, HeldAfterWrite
  <2> HIDE DEF r
  <2>3. Resolved(b, amount, r)
    BY <2>1, <2>2 DEF Resolved
  <2> QED
    BY <2>3 DEF r
<1>2. CASE ~(b[who] = 0 /\ amount < ExistentialDeposit)
  <2> DEFINE n == b[who] + amount
             c == [b EXCEPT ![who] = n]
  <2>1. r.bal = c /\ r.dropped = 0
    BY <1>2 DEF ResolveCreating
  <2>2. /\ c \in Balances /\ c[who] = n /\ \A a \in All \ {who} : c[a] = b[a]
        /\ Held(b) \in Nat /\ Held(c) \in Nat /\ Held(c) + b[who] = Held(b) + n
    BY SMTT(60), <1>0, HeldAfterWrite
  <2> HIDE DEF c, r
  <2>3. Held(c) + 0 = Held(b) + amount
    BY SMTT(60), <1>0, <2>2
  <2>4. n >= ExistentialDeposit
    BY SMTT(60), <1>0, <1>2, FeeAssumption DEF Alive
  <2>5. Alive(c)
    BY <2>2, <2>4 DEF Alive
  <2>6. Resolved(b, amount, r)
    BY SMTT(60), <2>1, <2>2, <2>3, <2>5 DEF Resolved
  <2> QED
    BY <2>6 DEF r
<1> QED
  BY <1>1, <1>2

\* The treasury's share is a part of the amount.
LEMMA RationIsPart ==
    ASSUME NEW amount \in Nat
    PROVE  Ration(amount, 80, 20) \in Nat /\ Ration(amount, 80, 20) <= amount
<1>1. amount * 80 \in Nat /\ 100 \in Nat /\ 100 > 0
  BY SMTT(60)
<1> DEFINE x == amount * 80
           q == x \div 100
<1>2. q \in Nat /\ q * 100 <= x
  BY SMTT(60), <1>1
<1>3. Ration(amount, 80, 20) = q
  BY SMTT(60) DEF Ration
<1> HIDE DEF q
<1>4. q <= amount
  BY SMTT(60), <1>2
<1> QED
  BY <1>2, <1>3, <1>4

\* Whatever the runtime does with fee and tip, nothing of them is lost or made.
LEMMA PaymentResolves ==
    ASSUME author \in Holders, NEW b \in Balances, Alive(b), NEW fee \in Nat, NEW tip \in Nat
    PROVE  Resolved(b, fee + tip, OnTransactionPayment(b, fee, tip))
<1>0. Treasury \in All /\ author \in All /\ fee + tip \in Nat
  BY SMTT(60) DEF All
<1>1. CASE network = "robonomics"
  <2> DEFINE t == Ration(fee, 80, 20) + Ration(tip, 80, 20)
             paid == ResolveCreating(b, Treasury, t)
             u == (fee + tip) - t
             rest == ResolveCreating(paid.bal, author, u)
             r == DealWithFees(b, fee, tip)
  <2>1. t \in Nat /\ u \in Nat /\ t + u = fee + tip
    <3> DEFINE p == Ration(fee, 80, 20)
               q == Ration(tip, 80, 20)
    <3>1. p \in Nat /\ p <= fee /\ q \in Nat /\ q <= tip
      BY RationIsPart
    <3> HIDE DEF p, q
    <3>2. /\ p + q \in Nat /\ (fee + tip) - (p + q) \in Nat
          /\ (p + q) + ((fee + tip) - (p + q)) = fee + tip
      BY SMTT(60), <3>1
    <3> QED
      BY <3>2 DEF p, q
  <2>2. r.bal = rest.bal /\ r.dropped = paid.dropped + rest.dropped
    BY DEF DealWithFees, AuthorOnUnbalanced
  <2> HIDE DEF t, u
  <2>3. Resolved(b, t, paid)
    BY <1>0, <2>1, ResolveResolves
  <2>4. Resolved(paid.bal, u, rest)
    BY <1>0, <2>1, <2>3, ResolveResolves DEF Resolved
  <2> HIDE DEF paid, rest, r
  <2>5. /\ r.bal \in Balances /\ Alive(r.bal) /\ Held(r.bal) \in Nat
        /\ paid.dropped \in Nat /\ rest.dropped \in Nat /\ Held(paid.bal) \in Nat
        /\ Held(paid.bal) + paid.dropped = Held(b) + t
        /\ Held(r.bal) + rest.dropped = Held(paid.bal) + u
    BY <2>2, <2>3, <2>4 DEF Resolved
  <2>6. Held(b) \in Nat
    <3>1. b[Treasury] \in Nat
      BY <1>0 DEF Balances
    <3> QED
      BY <1>0, <3>1, HeldAfterWrite
  <2>7. Held(r.bal) + r.dropped = Held(b) + (fee + tip) /\ r.dropped \in Nat
    BY SMTT(60), <2>1, <2>2, <2>5, <2>6
  <2>8. Resolved(b, fee + tip, r)
    BY <2>5, <2>7 DEF Resolved
  <2> QED
    BY <1>1, <2>8 DEF OnTransactionPayment, r
<1>2. CASE network = "parachain"
  <2>1. OnTransactionPayment(b, fee, tip) = ResolveCreating(b, Treasury, fee + tip)
    BY <1>2 DEF OnTransactionPayment, TreasuryTakes
  <2> QED
    BY <1>0, <2>1, ResolveResolves
<1>3. CASE network # "robonomics" /\ network # "parachain"
  <2> DEFINE r == OnTransactionPayment(b, fee, tip)
  <2>1. r.bal = b /\ r.dropped = fee + tip
    BY <1>3 DEF OnTransactionPayment, Burnt
  <2>2. Held(b) \in Nat
    <3>1. b[Treasury] \in Nat
      BY <1>0 DEF Balances
    <3> QED
      BY <1>0, <3>1, HeldAfterWrite
  <2> HIDE DEF r
  <2>3. Resolved(b, fee + tip, r)
    BY <1>0, <2>1, <2>2 DEF Resolved
  <2> QED
    BY <2>3 DEF r
<1> QED
  BY <1>1, <1>2, <1>3

\* What every reachable state satisfies: FundsAreAccounted, and the types it needs.
FeesOK ==
    /\ bal \in Balances /\ Alive(bal) /\ author \in Holders /\ GenesisGap \in Nat
    /\ inFlight.payer \in All /\ inFlight.fee \in Nat /\ inFlight.tip \in Nat
    /\ issued \in Int
    /\ issued = Held(bal) + inFlight.fee + inFlight.tip + GenesisGap

\* The genesis balances satisfy the invariant.
LEMMA FeesInit == FInit => FeesOK
<1> SUFFICES ASSUME FInit PROVE FeesOK
  OBVIOUS
<1>1. bal \in Balances /\ Alive(bal)
  BY SMTT(60), FeeAssumption DEF FInit, Balances, Alive, GenesisBalance, All
<1>2. GenesisGap \in Nat
  <2>1. Cardinality(Stashes) \in Nat
    BY FeeAssumption, FS_Subset, FS_CardinalityType
  <2>2. Cardinality(Stashes) * Endowment \in Nat
    BY SMTT(60), <2>1, FeeAssumption
  <2> QED
    BY <2>2 DEF GenesisGap
<1>3. inFlight.payer = Treasury /\ inFlight.fee = 0 /\ inFlight.tip = 0
  BY DEF FInit, NoneInFlight
<1>4. Held(bal) \in Nat
  <2>1. Treasury \in All /\ bal[Treasury] \in Nat
    BY <1>1 DEF Balances, All
  <2> QED
    BY <1>1, <2>1, HeldAfterWrite
<1>5. issued = Held(bal) + GenesisGap
  BY DEF FInit, GenesisIssuance
<1>6. issued \in Int /\ issued = Held(bal) + inFlight.fee + inFlight.tip + GenesisGap
  BY SMTT(60), <1>2, <1>3, <1>4, <1>5
<1> QED
  BY SMTT(60), <1>1, <1>2, <1>3, <1>6 DEF FeesOK, FInit, All

\* Withdrawing the fee keeps the invariant.
LEMMA FeesWithdraw ==
    ASSUME FeesOK, NEW a \in Holders, NEW f \in Fees, NEW t \in Tips, Withdraw(a, f, t)
    PROVE  FeesOK'
<1>1. f \in Nat /\ t \in Nat /\ a \in All /\ ExistentialDeposit \in Nat
  BY FeeAssumption DEF All
<1> DEFINE n == bal[a] - (f + t)
<1>2. /\ inFlight.fee = 0 /\ inFlight.tip = 0 /\ bal' = [bal EXCEPT ![a] = n]
      /\ inFlight' = [payer |-> a, fee |-> f, tip |-> t]
      /\ bal[a] >= f + t + ExistentialDeposit
      /\ network' = network /\ issued' = issued /\ author' = author
  BY DEF Withdraw, NoneInFlight
<1>3. bal[a] \in Nat /\ bal \in Balances
  BY <1>1 DEF FeesOK, Balances
<1>4. n \in Nat /\ n >= ExistentialDeposit
  BY SMTT(60), <1>1, <1>2, <1>3
<1>5. /\ bal' \in Balances /\ bal'[a] = n /\ \A x \in All \ {a} : bal'[x] = bal[x]
      /\ Held(bal) \in Nat /\ Held(bal') \in Nat /\ Held(bal') + bal[a] = Held(bal) + n
  <2> DEFINE c == [bal EXCEPT ![a] = n]
  <2> HIDE DEF n
  <2>1. /\ c \in Balances /\ c[a] = n /\ \A x \in All \ {a} : c[x] = bal[x]
        /\ Held(bal) \in Nat /\ Held(c) \in Nat /\ Held(c) + bal[a] = Held(bal) + n
    BY SMTT(60), <1>1, <1>3, <1>4, HeldAfterWrite
  <2>2. bal' = c
    BY <1>2
  <2> HIDE DEF c
  <2> QED
    BY <2>1, <2>2
<1>6. Alive(bal')
  BY <1>4, <1>5 DEF Alive, FeesOK
<1>7. inFlight'.payer = a /\ inFlight'.fee = f /\ inFlight'.tip = t /\ GenesisGap' = GenesisGap
  BY <1>2 DEF GenesisGap
<1>8. issued' = Held(bal') + f + t + GenesisGap
  <2>1. issued = Held(bal) + GenesisGap /\ GenesisGap \in Nat
    <3>1. issued = Held(bal) + inFlight.fee + inFlight.tip + GenesisGap /\ GenesisGap \in Nat
      BY DEF FeesOK
    <3> QED
      BY SMTT(60), <1>2, <1>5, <3>1
  <2> QED
    BY SMTT(60), <1>1, <1>2, <1>3, <1>5, <2>1
<1>9. issued' = Held(bal)' + inFlight'.fee + inFlight'.tip + GenesisGap'
  <2>1. Held(bal)' = Held(bal')
    BY DEF Held
  <2> QED
    BY <1>7, <1>8, <2>1
<1>10. Alive(bal)'
  BY <1>6 DEF Alive
<1> QED
  BY <1>1, <1>2, <1>5, <1>7, <1>9, <1>10 DEF FeesOK

\* The transfer of the dispatched call keeps the invariant.
LEMMA FeesDispatch ==
    ASSUME FeesOK, NEW to \in Holders, DispatchCall(to)
    PROVE  FeesOK'
<1> DEFINE p == inFlight.payer
           n == bal[to] + bal[p]
           b == [bal EXCEPT ![to] = n]
<1>1. /\ to # p /\ bal[p] >= ExistentialDeposit /\ bal' = [b EXCEPT ![p] = 0]
      /\ network' = network /\ issued' = issued /\ author' = author /\ inFlight' = inFlight
  BY DEF DispatchCall
<1>2. to \in All /\ p \in All /\ bal \in Balances /\ bal[to] \in Nat /\ bal[p] \in Nat
  BY DEF FeesOK, Balances, All
<1>3. n \in Nat /\ n >= ExistentialDeposit
  BY SMTT(60), <1>1, <1>2, FeeAssumption
<1>4. /\ b \in Balances /\ b[to] = n /\ \A x \in All \ {to} : b[x] = bal[x]
      /\ Held(bal) \in Nat /\ Held(b) \in Nat /\ Held(b) + bal[to] = Held(bal) + n
  BY SMTT(60), <1>2, <1>3, HeldAfterWrite
<1> HIDE DEF b
<1>5. /\ bal' \in Balances /\ bal'[p] = 0 /\ \A x \in All \ {p} : bal'[x] = b[x]
      /\ Held(bal') \in Nat /\ Held(bal') + b[p] = Held(b) + 0
  <2> DEFINE c == [b EXCEPT ![p] = 0]
  <2> HIDE DEF p
  <2>1. /\ c \in Balances /\ c[p] = 0 /\ \A x \in All \ {p} : c[x] = b[x]
        /\ Held(c) \in Nat /\ Held(c) + b[p] = Held(b) + 0
    BY SMTT(60), <1>2, <1>4, HeldAfterWrite
  <2>2. bal' = c
    BY <1>1
  <2> HIDE DEF c
  <2> QED
    BY <2>1, <2>2
<1>6. b[p] = bal[p]
  BY <1>1, <1>2, <1>4
<1>7. Held(bal') = Held(bal)
  BY SMTT(60), <1>2, <1>4, <1>5, <1>6
<1>8. Alive(bal')
  <2> SUFFICES ASSUME NEW x \in All PROVE bal'[x] = 0 \/ bal'[x] >= ExistentialDeposit
    BY DEF Alive
  <2>1. CASE x = p
    BY <1>5, <2>1
  <2>2. CASE x = to
    BY <1>1, <1>3, <1>4, <1>5, <2>2
  <2>3. CASE x # p /\ x # to
    <3>1. bal'[x] = bal[x]
      BY <1>4, <1>5, <2>3
    <3> QED
      BY <3>1 DEF FeesOK, Alive
  <2> QED
    BY <2>1, <2>2, <2>3
<1>9. GenesisGap' = GenesisGap /\ Held(bal)' = Held(bal') /\ (Alive(bal') => Alive(bal)')
  BY <1>1 DEF GenesisGap, Held, Alive
<1> QED
  BY <1>1, <1>5, <1>7, <1>8, <1>9 DEF FeesOK

\* Refunding and sharing out the fee keeps the invariant.
LEMMA FeesSettle ==
    ASSUME FeesOK, NEW unused \in Fees, Settle(unused)
    PROVE  FeesOK'
<1> DEFINE p == inFlight.payer
           fee == inFlight.fee
           tip == inFlight.tip
           refund == IF bal[p] = 0 THEN 0 ELSE unused
           n == bal[p] + refund
           back == [bal EXCEPT ![p] = n]
           r == OnTransactionPayment(back, fee - refund, tip)
<1>1. /\ unused <= fee /\ bal' = r.bal /\ issued' = issued - r.dropped
      /\ inFlight' = NoneInFlight /\ network' = network /\ author' = author
  BY DEF Settle
<1>2. /\ p \in All /\ bal \in Balances /\ bal[p] \in Nat /\ fee \in Nat /\ tip \in Nat
      /\ unused \in Nat /\ author \in Holders /\ Alive(bal)
  BY FeeAssumption DEF FeesOK, Balances
<1>3. refund \in Nat /\ fee - refund \in Nat /\ n \in Nat
  BY SMTT(60), <1>1, <1>2
<1>4. n = 0 \/ n >= ExistentialDeposit
  <2>1. CASE bal[p] = 0
    BY SMTT(60), <2>1
  <2>2. CASE bal[p] # 0
    BY SMTT(60), <1>2, <1>3, <2>2, FeeAssumption DEF Alive
  <2> QED
    BY <2>1, <2>2
<1>5. /\ back \in Balances /\ back[p] = n /\ \A x \in All \ {p} : back[x] = bal[x]
      /\ Held(bal) \in Nat /\ Held(back) \in Nat /\ Held(back) + bal[p] = Held(bal) + n
  BY SMTT(60), <1>2, <1>3, HeldAfterWrite
<1> HIDE DEF back
<1>6. Alive(back)
  BY <1>2, <1>4, <1>5 DEF Alive
<1>7. Resolved(back, (fee - refund) + tip, r)
  BY <1>2, <1>3, <1>5, <1>6, PaymentResolves
<1> HIDE DEF r
<1>8. /\ bal' \in Balances /\ Alive(bal') /\ r.dropped \in Nat /\ Held(bal') \in Nat
      /\ Held(bal') + r.dropped = Held(back) + ((fee - refund) + tip)
  BY <1>1, <1>7 DEF Resolved
<1>9. issued = Held(bal) + fee + tip + GenesisGap /\ GenesisGap \in Nat
  BY DEF FeesOK
<1>10. Held(back) = Held(bal) + refund
  BY SMTT(60), <1>2, <1>3, <1>5
<1> HIDE DEF refund, fee, tip, p, n
<1>11. issued' = Held(bal') + 0 + 0 + GenesisGap /\ issued' \in Int
  BY SMTT(60), <1>1, <1>2, <1>3, <1>5, <1>8, <1>9, <1>10
<1>12. inFlight'.payer = Treasury /\ inFlight'.fee = 0 /\ inFlight'.tip = 0 /\ Treasury \in All
  BY <1>1 DEF NoneInFlight, All
<1>13. GenesisGap' = GenesisGap /\ Held(bal)' = Held(bal') /\ (Alive(bal') => Alive(bal)')
  BY <1>1 DEF GenesisGap, Held, Alive
<1> QED
  BY SMTT(60), <1>1, <1>2, <1>8, <1>9, <1>11, <1>12, <1>13 DEF FeesOK

\* The treasury's account was opened at genesis and never pays, and Shares holds of
\* the sums.
SharesOK ==
    /\ charged \in Nat /\ settled \in Nat /\ bal[Treasury] >= ExistentialDeposit
    /\ inFlight = NoneInFlight \/ inFlight.payer \in Holders
    /\ GenesisIssuance \in Int
    /\ Shares(bal[Treasury] - ExistentialDeposit, charged, settled,
              GenesisIssuance - issued)

\* One payment more keeps the shares of the sums.
LEMMA SharesAdd ==
    ASSUME NEW g \in Int, NEW c \in Int, NEW n \in Int, NEW d \in Int,
           NEW h \in Int, NEW e \in Int, NEW f \in Int,
           Shares(g, c, n, d), Shares(h, e, 1, f)
    PROVE  Shares(g + h, c + e, n + 1, d + f)
<1>1. ExistentialDeposit \in Nat
  BY FeeAssumption
<1>2. (n + 1) * (ExistentialDeposit - 1) = n * (ExistentialDeposit - 1) + (ExistentialDeposit - 1)
  BY SMTT(60), <1>1
<1>3. 1 * (ExistentialDeposit - 1) = ExistentialDeposit - 1
  BY SMTT(60), <1>1
<1> DEFINE x == n * (ExistentialDeposit - 1)
           y == ExistentialDeposit - 1
<1>4. x \in Int /\ y \in Int
  BY SMTT(60), <1>1
<1>5. CASE network = "robonomics"
  <2>1. /\ 5 * g <= 4 * c /\ 4 * c <= 5 * g + 8 * n /\ 0 <= d /\ d <= x
        /\ 5 * h <= 4 * e /\ 4 * e <= 5 * h + 8 * 1 /\ 0 <= f /\ f <= y
    BY <1>3, <1>5 DEF Shares
  <2> HIDE DEF x, y
  <2>2. /\ 5 * (g + h) <= 4 * (c + e) /\ 4 * (c + e) <= 5 * (g + h) + 8 * (n + 1)
        /\ 0 <= d + f /\ d + f <= x + y
    BY SMTT(60), <1>4, <2>1
  <2>3. d + f <= (n + 1) * (ExistentialDeposit - 1)
    BY <1>2, <2>2 DEF x, y
  <2> QED
    BY <1>5, <2>2, <2>3 DEF Shares
<1>6. CASE network # "robonomics"
  BY SMTT(60), <1>6 DEF Shares
<1> QED
  BY <1>5, <1>6

\* What a deposit into one account does to the treasury's, which is never too small.
LEMMA ResolveTreasury ==
    ASSUME NEW b \in Balances, b[Treasury] >= ExistentialDeposit, NEW who \in All,
           NEW amount \in Nat
    PROVE  LET r == ResolveCreating(b, who, amount)
           IN  /\ who = Treasury => r.bal[Treasury] = b[Treasury] + amount /\ r.dropped = 0
               /\ who # Treasury => r.bal[Treasury] = b[Treasury]
               /\ r.dropped \in 0 .. ExistentialDeposit - 1
<1>1. Treasury \in All /\ b[Treasury] \in Nat /\ b[Treasury] # 0 /\ ExistentialDeposit \in Nat
      /\ 0 \in 0 .. ExistentialDeposit - 1
  BY SMTT(60), FeeAssumption DEF All, Balances
<1>2. CASE b[who] = 0 /\ amount < ExistentialDeposit
  <2>1. who # Treasury
    BY <1>1, <1>2
  <2>2. amount \in 0 .. ExistentialDeposit - 1
    BY SMTT(60), <1>1, <1>2
  <2> QED
    BY <1>2, <2>1, <2>2 DEF ResolveCreating
<1>3. CASE ~(b[who] = 0 /\ amount < ExistentialDeposit)
  BY <1>1, <1>3 DEF ResolveCreating, Balances
<1> QED
  BY <1>2, <1>3

\* A share of 80%, rounded down.
LEMMA RationRounds ==
    ASSUME NEW amount \in Nat
    PROVE  /\ 5 * Ration(amount, 80, 20) <= 4 * amount
           /\ 4 * amount <= 5 * Ration(amount, 80, 20) + 4
<1> DEFINE x == amount * 80
           q == x \div 100
<1>1. x \in Nat /\ q \in Nat /\ q * 100 <= x /\ x <= q * 100 + 99
  BY SMTT(60)
<1>2. Ration(amount, 80, 20) = q
  BY SMTT(60) DEF Ration
<1> HIDE DEF q
<1>3. 5 * q <= 4 * amount /\ 4 * amount <= 5 * q + 4
  BY SMTT(60), <1>1
<1> QED
  BY <1>2, <1>3

\* One fee and tip, shared out.
LEMMA PaymentShares ==
    ASSUME author \in Holders, NEW b \in Balances, b[Treasury] >= ExistentialDeposit,
           Alive(b), NEW fee \in Nat, NEW tip \in Nat
    PROVE  LET r == OnTransactionPayment(b, fee, tip)
           IN  /\ Shares(r.bal[Treasury] - b[Treasury], fee + tip, 1, r.dropped)
               /\ r.bal[Treasury] >= b[Treasury]
<1>0. /\ Treasury \in All /\ author \in All /\ author # Treasury
      /\ b[Treasury] \in Nat /\ ExistentialDeposit \in Nat
  BY FeeAssumption DEF All, Balances
<1>1. CASE network = "robonomics"
  <2> DEFINE p == Ration(fee, 80, 20)
             q == Ration(tip, 80, 20)
             paid == ResolveCreating(b, Treasury, p + q)
             u == (fee + tip) - (p + q)
             rest == ResolveCreating(paid.bal, author, u)
             r == DealWithFees(b, fee, tip)
  <2>1. /\ p \in Nat /\ p <= fee /\ 5 * p <= 4 * fee /\ 4 * fee <= 5 * p + 4
        /\ q \in Nat /\ q <= tip /\ 5 * q <= 4 * tip /\ 4 * tip <= 5 * q + 4
    BY RationIsPart, RationRounds
  <2>2. r.bal = rest.bal /\ r.dropped = paid.dropped + rest.dropped
    BY DEF DealWithFees, AuthorOnUnbalanced
  <2> HIDE DEF p, q
  <2>3. p + q \in Nat /\ u \in Nat
    BY SMTT(60), <2>1
  <2>4. /\ paid.bal[Treasury] = b[Treasury] + (p + q) /\ paid.dropped = 0
        /\ paid.bal \in Balances
    BY <1>0, <2>3, ResolveTreasury, ResolveResolves DEF Resolved
  <2>5. paid.bal[Treasury] >= ExistentialDeposit
    BY SMTT(60), <1>0, <2>3, <2>4
  <2> HIDE DEF paid, u
  <2>6. rest.bal[Treasury] = paid.bal[Treasury] /\ rest.dropped \in 0 .. ExistentialDeposit - 1
    BY <1>0, <2>3, <2>4, <2>5, ResolveTreasury
  <2> HIDE DEF rest, r
  <2>7. /\ r.bal[Treasury] - b[Treasury] = p + q
        /\ 0 <= r.dropped /\ r.dropped <= 1 * (ExistentialDeposit - 1)
    BY SMTT(60), <1>0, <2>2, <2>3, <2>4, <2>6
  <2>8. 5 * (p + q) <= 4 * (fee + tip) /\ 4 * (fee + tip) <= 5 * (p + q) + 8 * 1
    BY SMTT(60), <2>1
  <2>9. Shares(r.bal[Treasury] - b[Treasury], fee + tip, 1, r.dropped)
    BY <1>1, <2>7, <2>8 DEF Shares
  <2>10. r.bal[Treasury] >= b[Treasury]
    BY SMTT(60), <1>0, <2>2, <2>3, <2>4, <2>6
  <2> QED
    BY <1>1, <2>9, <2>10 DEF OnTransactionPayment, r
<1>2. CASE network = "parachain"
  <2> DEFINE r == ResolveCreating(b, Treasury, fee + tip)
  <2>1. OnTransactionPayment(b, fee, tip) = r
    BY <1>2 DEF OnTransactionPayment, TreasuryTakes
  <2>2. fee + tip \in Nat
    BY SMTT(60)
  <2>3. r.bal[Treasury] = b[Treasury] + (fee + tip) /\ r.dropped = 0
    BY <1>0, <2>2, ResolveTreasury
  <2> HIDE DEF r
  <2>4. r.bal[Treasury] - b[Treasury] = fee + tip /\ r.bal[Treasury] >= b[Treasury]
    BY SMTT(60), <1>0, <2>2, <2>3
  <2> QED
    BY <1>2, <2>1, <2>3, <2>4 DEF Shares
<1>3. CASE network # "robonomics" /\ network # "parachain"
  <2> DEFINE r == OnTransactionPayment(b, fee, tip)
  <2>1. r.bal = b /\ r.dropped = fee + tip
    BY <1>3 DEF OnTransactionPayment, Burnt
  <2> HIDE DEF r
  <2>2. r.bal[Treasury] - b[Treasury] = 0 /\ r.bal[Treasury] >= b[Treasury]
    BY SMTT(60), <1>0, <2>1
  <2>3. Shares(r.bal[Treasury] - b[Treasury], fee + tip, 1, r.dropped)
    BY <1>3, <2>1, <2>2 DEF Shares
  <2> QED
    BY <2>2, <2>3 DEF r
<1> QED
  BY <1>1, <1>2, <1>3

\* Nothing was charged at genesis.
LEMMA SharesInit == FInit => SharesOK
<1> SUFFICES ASSUME FInit PROVE SharesOK
  OBVIOUS
<1>1. issued \in Int /\ bal \in Balances
  BY FeesInit DEF FeesOK
<1>2. /\ bal[Treasury] = ExistentialDeposit /\ issued = GenesisIssuance
      /\ charged = 0 /\ settled = 0 /\ inFlight = NoneInFlight
  BY DEF FInit, GenesisBalance, All
<1>3. ExistentialDeposit \in Nat
  BY FeeAssumption
<1>4. bal[Treasury] - ExistentialDeposit = 0 /\ GenesisIssuance - issued = 0
  BY SMTT(60), <1>1, <1>2, <1>3
<1>5. 0 * (ExistentialDeposit - 1) = 0
  BY SMTT(60), <1>3
<1>6. Shares(0, 0, 0, 0)
  BY SMTT(60), <1>5 DEF Shares
<1>7. charged \in Nat /\ settled \in Nat /\ bal[Treasury] >= ExistentialDeposit
  BY SMTT(60), <1>2, <1>3
<1> QED
  BY <1>1, <1>2, <1>4, <1>6, <1>7 DEF SharesOK

\* A step that leaves the treasury, the issuance and the history alone.
LEMMA SharesRest ==
    ASSUME SharesOK, UNCHANGED <<network, issued, charged, settled>>,
           bal'[Treasury] = bal[Treasury],
           inFlight' = inFlight \/ inFlight'.payer \in Holders
    PROVE  SharesOK'
<1>1. GenesisIssuance' = GenesisIssuance
  BY DEF GenesisIssuance, GenesisGap
<1> QED
  BY <1>1 DEF SharesOK, Shares, NoneInFlight

\* Settling a transaction adds its shares to the sums.
LEMMA SharesSettle ==
    ASSUME FeesOK, SharesOK, NEW unused \in Fees, Settle(unused)
    PROVE  SharesOK'
<1> DEFINE p == inFlight.payer
           fee == inFlight.fee
           tip == inFlight.tip
           refund == IF bal[p] = 0 THEN 0 ELSE unused
           n == bal[p] + refund
           back == [bal EXCEPT ![p] = n]
           r == OnTransactionPayment(back, fee - refund, tip)
           e == (fee - refund) + tip
           g == bal[Treasury] - ExistentialDeposit
           h == r.bal[Treasury] - bal[Treasury]
           d == GenesisIssuance - issued
<1>1. /\ unused <= fee /\ bal' = r.bal /\ issued' = issued - r.dropped
      /\ inFlight' = NoneInFlight /\ network' = network /\ p \in Holders
      /\ charged' = charged + e /\ settled' = settled + 1
  BY DEF Settle, SharesOK
<1>2. /\ p \in All /\ bal \in Balances /\ bal[p] \in Nat /\ fee \in Nat /\ tip \in Nat
      /\ unused \in Nat /\ author \in Holders /\ Alive(bal) /\ issued \in Int
      /\ Treasury \in All /\ bal[Treasury] \in Nat /\ p # Treasury
      /\ ExistentialDeposit \in Nat
  BY <1>1, FeeAssumption DEF FeesOK, Balances, All
<1>3. refund \in Nat /\ fee - refund \in Nat /\ n \in Nat
  BY SMTT(60), <1>1, <1>2
<1>4. n = 0 \/ n >= ExistentialDeposit
  <2>1. CASE bal[p] = 0
    BY SMTT(60), <2>1
  <2>2. CASE bal[p] # 0
    BY SMTT(60), <1>2, <1>3, <2>2, FeeAssumption DEF Alive
  <2> QED
    BY <2>1, <2>2
<1>5. /\ back \in Balances /\ back[p] = n /\ \A x \in All \ {p} : back[x] = bal[x]
  BY <1>2, <1>3 DEF Balances
<1> HIDE DEF back
<1>6. Alive(back) /\ back[Treasury] = bal[Treasury] /\ back[Treasury] >= ExistentialDeposit
  BY <1>2, <1>4, <1>5 DEF Alive, SharesOK
<1>7. Shares(h, e, 1, r.dropped) /\ r.bal[Treasury] >= bal[Treasury]
  <2>1. /\ Shares(r.bal[Treasury] - back[Treasury], (fee - refund) + tip, 1, r.dropped)
        /\ r.bal[Treasury] >= back[Treasury]
    BY <1>2, <1>3, <1>5, <1>6, PaymentShares
  <2> QED
    BY <1>6, <2>1
<1>8. r.dropped \in Nat /\ r.bal[Treasury] \in Nat
  <2>1. Resolved(back, (fee - refund) + tip, r)
    BY <1>2, <1>3, <1>5, <1>6, PaymentResolves
  <2> QED
    BY <1>2, <2>1 DEF Resolved, Balances
<1> HIDE DEF r, refund, fee, tip, n
<1>9. /\ g \in Int /\ d \in Int /\ h \in Int /\ e \in Nat /\ g + h = bal'[Treasury] - ExistentialDeposit
      /\ d + r.dropped = GenesisIssuance - issued' /\ charged \in Nat /\ settled \in Nat
      /\ r.dropped \in Int /\ e \in Int /\ charged \in Int /\ settled \in Int
      /\ charged' \in Nat /\ settled' \in Nat
  BY SMTT(60), <1>1, <1>2, <1>3, <1>8 DEF SharesOK
<1>10. Shares(g, charged, settled, d)
  BY DEF SharesOK
<1> HIDE DEF g, h, e, d
<1>11. Shares(g + h, charged + e, settled + 1, d + r.dropped)
  BY <1>7, <1>9, <1>10, SharesAdd
<1>12. GenesisIssuance' = GenesisIssuance /\ GenesisIssuance \in Int
  BY <1>1 DEF GenesisIssuance, GenesisGap, SharesOK
<1>13. Shares(bal'[Treasury] - ExistentialDeposit, charged', settled',
              GenesisIssuance - issued')
  BY <1>1, <1>9, <1>11
<1>14. (Shares(bal[Treasury] - ExistentialDeposit, charged, settled,
               GenesisIssuance - issued))'
  BY <1>1, <1>12, <1>13 DEF Shares
<1>15. bal'[Treasury] >= ExistentialDeposit
  BY SMTT(60), <1>1, <1>2, <1>6, <1>7, <1>8
<1> QED
  BY <1>1, <1>9, <1>12, <1>14, <1>15 DEF SharesOK

\* For every set of accounts, fees and tips, and in every runtime, however many
\* transactions were charged: the treasury's gain and the loss of issuance are what
\* the runtime's OnTransactionPayment says, up to less than a unit for each rounding;
\* what is issued lies in an account, is being charged, or was never in an account
\* at genesis; and no account lies below the existential deposit.
THEOREM FeesAreAccounted == FSpec => []FundsAreAccounted
<1>1. FeesOK /\ [FNext]_fvars => FeesOK'
  <2> SUFFICES ASSUME FeesOK, [FNext]_fvars PROVE FeesOK'
    OBVIOUS
  <2>1. ASSUME NEW a \in Holders, NextAuthor(a) PROVE FeesOK'
    <3>1. GenesisGap' = GenesisGap
      BY <2>1 DEF NextAuthor, GenesisGap
    <3> QED
      BY <2>1, <3>1 DEF NextAuthor, FeesOK, Held, Alive
  <2>2. CASE UNCHANGED fvars
    <3>1. GenesisGap' = GenesisGap
      BY <2>2 DEF fvars, GenesisGap
    <3> QED
      BY <2>2, <3>1 DEF fvars, FeesOK, Held, Alive
  <2> QED
    BY <2>1, <2>2, FeesWithdraw, FeesDispatch, FeesSettle DEF FNext
<1>2. FeesOK /\ SharesOK /\ [FNext]_fvars => SharesOK'
  <2> SUFFICES ASSUME FeesOK, SharesOK, [FNext]_fvars PROVE SharesOK'
    OBVIOUS
  <2>1. ASSUME NEW a \in Holders, NextAuthor(a) PROVE SharesOK'
    BY <2>1, SharesRest DEF NextAuthor, history
  <2>2. CASE UNCHANGED fvars
    BY <2>2, SharesRest DEF fvars, history
  <2>3. bal \in [All -> Nat] /\ Treasury \in All /\ Treasury \notin Holders
    BY FeeAssumption DEF FeesOK, Balances, All
  <2>4. ASSUME NEW a \in Holders, NEW f \in Fees, NEW t \in Tips, Withdraw(a, f, t)
        PROVE  SharesOK'
    <3>1. /\ bal' = [bal EXCEPT ![a] = @ - (f + t)]
          /\ inFlight' = [payer |-> a, fee |-> f, tip |-> t]
          /\ UNCHANGED <<network, issued, charged, settled>>
      BY <2>4 DEF Withdraw, history
    <3>2. bal'[Treasury] = bal[Treasury] /\ inFlight'.payer \in Holders
      BY <2>3, <3>1
    <3> QED
      BY <3>1, <3>2, SharesRest
  <2>5. ASSUME NEW a \in Holders, DispatchCall(a) PROVE SharesOK'
    <3>1. /\ bal' = [bal EXCEPT ![a] = @ + bal[inFlight.payer], ![inFlight.payer] = 0]
          /\ UNCHANGED <<network, issued, inFlight, charged, settled>>
          /\ inFlight.payer \in Holders
      BY <2>5 DEF DispatchCall, history, SharesOK
    <3>2. bal'[Treasury] = bal[Treasury]
      BY <2>3, <3>1
    <3> QED
      BY <3>1, <3>2, SharesRest
  <2> QED
    BY <2>1, <2>2, <2>4, <2>5, SharesSettle DEF FNext
<1>3. FeesOK /\ SharesOK => FundsAreAccounted
  BY DEF FeesOK, SharesOK, FundsAreAccounted, Alive
<1> QED
  BY <1>1, <1>2, <1>3, FeesInit, SharesInit, PTL DEF FSpec

-----------------------------------------------------------------------------
(* The datalog.                                                            *)

\* Every step keeps the logs well typed.
LEMMA TypeStep == TypeOK /\ [Next]_vars => TypeOK'
<1> SUFFICES ASSUME TypeOK, [Next]_vars PROVE TypeOK'
  OBVIOUS
<1>1. ASSUME NEW a \in Accounts, NEW r \in Records, record(a, r) PROVE TypeOK'
  <2>1. Append(datalog[a], <<now, r>>) \in Seq((0 .. MaxTime) \X Records)
    BY SMTT(60) DEF TypeOK
  <2> QED  BY <1>1, <2>1 DEF record, TypeOK
<1>2. ASSUME NEW a \in Accounts, erase(a) PROVE TypeOK'
  BY SMTT(60), <1>2 DEF erase, TypeOK
<1>3. ASSUME NEW t \in 0 .. MaxTime, NextBlock(t) PROVE TypeOK'
  BY <1>3 DEF NextBlock, TypeOK
<1>4. CASE UNCHANGED vars
  BY <1>4 DEF vars, TypeOK
<1> QED  BY <1>1, <1>2, <1>3, <1>4 DEF Next

\* Appending keeps the logs in the order of time, because nothing in them is
\* later than now; a block only moves now forward.
THEOREM DatalogOrdered == Spec => []TimesOrdered
<1>1. Init => TypeOK /\ TimesOrdered
  BY SMTT(60), DatalogAssumption DEF Init, TypeOK, TimesOrdered
<1>2. TypeOK /\ TimesOrdered /\ [Next]_vars => TimesOrdered'
  <2> SUFFICES ASSUME TypeOK, TimesOrdered, [Next]_vars PROVE TimesOrdered'
    OBVIOUS
  <2>1. ASSUME NEW s \in Accounts, NEW r \in Records, record(s, r) PROVE TimesOrdered'
    <3> SUFFICES ASSUME NEW a \in Accounts
                 PROVE  /\ \A i, j \in DOMAIN datalog'[a] :
                               i <= j => datalog'[a][i][1] <= datalog'[a][j][1]
                        /\ \A i \in DOMAIN datalog'[a] : datalog'[a][i][1] <= now'
      BY DEF TimesOrdered
    <3>1. CASE a # s
      BY <2>1, <3>1 DEF record, TypeOK, TimesOrdered
    <3>2. CASE a = s
      <4> DEFINE old == datalog[a]
      <4> DEFINE nu == datalog'[a]
      <4>1. old \in Seq((0 .. MaxTime) \X Records) /\ nu = Append(old, <<now, r>>) /\ now' = now
        BY <2>1, <3>2 DEF record, TypeOK
      <4>2. /\ Len(nu) = Len(old) + 1 /\ Len(old) \in Nat
            /\ DOMAIN nu = 1 .. Len(old) + 1 /\ DOMAIN old = 1 .. Len(old)
            /\ nu[Len(old) + 1] = <<now, r>>
            /\ \A i \in 1 .. Len(old) : nu[i] = old[i] /\ old[i] \in (0 .. MaxTime) \X Records
        BY SMTT(60), <4>1
      <4>3. /\ \A i, j \in DOMAIN old : i <= j => old[i][1] <= old[j][1]
            /\ \A i \in DOMAIN old : old[i][1] <= now
        BY DEF TimesOrdered
      <4>4. now \in Nat
        BY SMTT(60), DatalogAssumption DEF TypeOK
      <4> HIDE DEF old, nu
      <4>5. \A i \in DOMAIN nu : nu[i][1] <= now
        BY SMTT(60), <4>2, <4>3, <4>4
      <4>6. \A i, j \in DOMAIN nu : i <= j => nu[i][1] <= nu[j][1]
        BY SMTT(60), <4>2, <4>3, <4>4
      <4> QED  BY <4>1, <4>5, <4>6 DEF nu
    <3> QED  BY <3>1, <3>2
  <2>2. ASSUME NEW s \in Accounts, erase(s) PROVE TimesOrdered'
    BY SMTT(60), <2>2 DEF erase, TypeOK, TimesOrdered
  <2>3. ASSUME NEW t \in 0 .. MaxTime, NextBlock(t) PROVE TimesOrdered'
    <3>1. datalog' = datalog /\ now' = t /\ t > now
      BY <2>3 DEF NextBlock
    <3>2. \A a \in Accounts : \A i \in DOMAIN datalog[a] : datalog[a][i][1] \in Nat
      BY SMTT(60), DatalogAssumption DEF TypeOK
    <3>3. \A a \in Accounts : \A i \in DOMAIN datalog[a] : datalog[a][i][1] <= t
      BY SMTT(60), <3>1, <3>2, DatalogAssumption DEF TimesOrdered, TypeOK
    <3> QED  BY <3>1, <3>3 DEF TimesOrdered
  <2>4. CASE UNCHANGED vars
    BY <2>4 DEF vars, TimesOrdered
  <2> QED  BY <2>1, <2>2, <2>3, <2>4 DEF Next
<1> QED  BY <1>1, <1>2, TypeStep, PTL DEF Spec

\* The types of what happened to the logs: an erasure carries no entry.
EventsOK ==
    events \in Seq([ev : {"NewRecord"}, who : Accounts, entry : (0 .. MaxTime) \X Records]
                       \cup [ev : {"Erased"}, who : Accounts])

\* The place of an element in a finite set of numbers is between one and the
\* size of the set.
LEMMA RankInRange ==
    ASSUME NEW S, IsFiniteSet(S), S \subseteq Nat, NEW n \in S
    PROVE  Rank(n, S) \in 1 .. Cardinality(S)
<1> DEFINE T == {m \in S : m <= n}
<1>1. IsFiniteSet(T) /\ Cardinality(T) <= Cardinality(S) /\ T \subseteq S
  BY FS_Subset
<1>2. n \in T
  BY SMTT(60)
<1>3. Cardinality(T) \in Nat /\ Cardinality(S) \in Nat /\ Cardinality(T) # 0
  BY <1>1, <1>2, FS_CardinalityType, FS_EmptySet
<1> HIDE DEF T
<1>4. Cardinality(T) \in 1 .. Cardinality(S)
  BY SMTT(60), <1>1, <1>3
<1> QED
  BY <1>4 DEF T, Rank

\* A larger number comes last and moves no other.
LEMMA RankOfLast ==
    ASSUME NEW S, IsFiniteSet(S), S \subseteq Nat, NEW j \in Nat, \A m \in S : m < j
    PROVE  /\ Cardinality(S \cup {j}) = Cardinality(S) + 1
           /\ Rank(j, S \cup {j}) = Cardinality(S) + 1
           /\ \A n \in S : Rank(n, S \cup {j}) = Rank(n, S)
<1> DEFINE T == S \cup {j}
<1>1. j \notin S /\ (\A m \in T : m <= j) /\ \A n \in S : ~(j <= n)
  BY SMTT(60)
<1>2. Cardinality(T) = Cardinality(S) + 1 /\ Cardinality(S) \in Nat
  BY <1>1, FS_AddElement, FS_CardinalityType
<1>3. ASSUME NEW n \in S PROVE {m \in T : m <= n} = {m \in S : m <= n}
  BY <1>1
<1>4. {m \in T : m <= j} = T
  BY <1>1
<1> QED
  BY <1>2, <1>3, <1>4 DEF Rank

\* The log holds, in the order of the events in S, what g says of each.
Replays(log, S, g) == Len(log) = Cardinality(S) /\ \A n \in S : log[Rank(n, S)] = g[n]

\* Appending the entry of the latest event keeps a log that holds, in order, the
\* entries of the events that stand.
LEMMA LogGrows ==
    ASSUME NEW E, NEW log \in Seq(E), NEW y \in E,
           NEW S, IsFiniteSet(S), S \subseteq Nat, NEW j \in Nat, \A m \in S : m < j,
           NEW g, g[j] = y, Replays(log, S, g)
    PROVE  Replays(Append(log, y), S \cup {j}, g)
<1>0. Len(log) = Cardinality(S) /\ \A n \in S : log[Rank(n, S)] = g[n]
  BY DEF Replays
<1> DEFINE nu == Append(log, y)
<1>1. /\ Len(nu) = Len(log) + 1 /\ nu[Len(log) + 1] = y
      /\ \A i \in 1 .. Len(log) : nu[i] = log[i]
  BY SMTT(60)
<1> HIDE DEF nu
<1>2. \A n \in S : Rank(n, S) \in 1 .. Cardinality(S)
  BY RankInRange
<1>3. \A n \in S : Rank(n, S) \in 1 .. Len(log)
  BY <1>0, <1>2
<1>4. /\ Cardinality(S \cup {j}) = Cardinality(S) + 1
      /\ Rank(j, S \cup {j}) = Cardinality(S) + 1
      /\ \A n \in S : Rank(n, S \cup {j}) = Rank(n, S)
  BY RankOfLast
<1>5. Len(nu) = Cardinality(S \cup {j})
  BY <1>0, <1>1, <1>4
<1>6. \A n \in S \cup {j} : nu[Rank(n, S \cup {j})] = g[n]
  BY <1>0, <1>1, <1>3, <1>4
<1> QED
  BY <1>5, <1>6 DEF nu, Replays

\* The log of every account can be rebuilt from the events: record announces
\* exactly what it appends, and erase announces that everything is gone.
THEOREM EventsRebuildLogs == Spec => []LogsReplayEvents
<1> DEFINE Inv == TypeOK /\ EventsOK /\ LogsReplayEvents
           Entry == (0 .. MaxTime) \X Records
           Event == [ev : {"NewRecord"}, who : Accounts, entry : Entry]
                        \cup [ev : {"Erased"}, who : Accounts]
<1>1. Init => Inv
  <2> SUFFICES ASSUME Init PROVE Inv
    OBVIOUS
  <2>1. TypeOK /\ EventsOK
    BY SMTT(60), DatalogAssumption DEF Init, TypeOK, EventsOK
  <2>2. \A a \in Accounts : Standing(a) = {}
    BY SMTT(60) DEF Init, Standing
  <2>3. \A a \in Accounts : Len(datalog[a]) = 0
    BY DEF Init
  <2> QED
    BY <2>1, <2>2, <2>3, FS_EmptySet DEF LogsReplayEvents
<1>2. Inv /\ [Next]_vars => Inv'
  <2> SUFFICES ASSUME Inv, [Next]_vars PROVE Inv'
    OBVIOUS
  <2>0. TypeOK'
    BY TypeStep
  <2> DEFINE L == Len(events)
  <2>1. L \in Nat /\ DOMAIN events = 1 .. L /\ events \in Seq(Event)
    BY SMTT(60) DEF EventsOK
  <2>2. ASSUME NEW s \in Accounts, NEW r \in Records, record(s, r)
        PROVE  EventsOK' /\ LogsReplayEvents'
    <3> DEFINE x == [ev |-> "NewRecord", who |-> s, entry |-> <<now, r>>]
    <3>1. events' = Append(events, x) /\ datalog' = [datalog EXCEPT ![s] = Append(@, <<now, r>>)]
      BY <2>2 DEF record
    <3>2. x \in Event /\ <<now, r>> \in Entry
      BY DEF TypeOK
    <3>3. events' \in Seq(Event)
      BY SMTT(60), <2>1, <3>1, <3>2
    <3>4. /\ DOMAIN events' = 1 .. (L + 1) /\ events'[L + 1] = x
          /\ \A n \in 1 .. L : events'[n] = events[n]
      BY SMTT(60), <2>1, <3>1, <3>2
    <3>5. x.ev = "NewRecord" /\ x.who = s /\ x.entry = <<now, r>>
      OBVIOUS
    <3> HIDE DEF x, L
    <3>6. ASSUME NEW a \in Accounts, a # s PROVE Standing(a)' = Standing(a)
      BY SMTT(60), <2>1, <3>4, <3>5, <3>6 DEF Standing
    <3>7. Standing(s)' = Standing(s) \cup {L + 1}
      <4>1. ASSUME NEW n \in Standing(s)' PROVE n \in Standing(s) \cup {L + 1}
        BY SMTT(60), <2>1, <3>4, <3>5, <4>1 DEF Standing
      <4>2. ASSUME NEW n \in Standing(s) PROVE n \in Standing(s)'
        <5>1. n \in 1 .. L /\ n \in DOMAIN events'
          BY SMTT(60), <2>1, <3>4 DEF Standing
        <5>2. \A m \in DOMAIN events' :
                  events'[m].who = s /\ events'[m].ev = "Erased" => m < n
          BY SMTT(60), <2>1, <3>4, <3>5 DEF Standing
        <5> QED
          BY <3>4, <5>1, <5>2 DEF Standing
      <4>3. L + 1 \in Standing(s)'
        BY SMTT(60), <2>1, <3>4, <3>5 DEF Standing
      <4> QED
        BY <4>1, <4>2, <4>3
    <3>8. ASSUME NEW a \in Accounts, a # s
          PROVE  /\ Len(datalog'[a]) = Cardinality(Standing(a)')
                 /\ \A n \in Standing(a)' :
                        datalog'[a][Rank(n, Standing(a)')] = events'[n].entry
      <4>1. datalog'[a] = datalog[a]
        BY <3>1, <3>8 DEF TypeOK
      <4>2. \A n \in Standing(a) : events'[n] = events[n]
        BY <2>1, <3>4 DEF Standing
      <4> QED
        BY <3>6, <3>8, <4>1, <4>2 DEF LogsReplayEvents
    <3>9. /\ Len(datalog'[s]) = Cardinality(Standing(s)')
          /\ \A n \in Standing(s)' :
                 datalog'[s][Rank(n, Standing(s)')] = events'[n].entry
      <4> DEFINE S == Standing(s)
                 g == [n \in 1 .. (L + 1) |-> events'[n].entry]
      <4>1. S \subseteq 1 .. L /\ IsFiniteSet(S)
        <5>1. S \subseteq 1 .. L
          BY <2>1 DEF Standing
        <5>2. IsFiniteSet(1 .. L)
          BY SMTT(60), <2>1, FS_Interval
        <5> QED
          BY <5>1, <5>2, FS_Subset
      <4>2. /\ datalog[s] \in Seq(Entry) /\ Len(datalog[s]) = Cardinality(S)
            /\ \A n \in S : datalog[s][Rank(n, S)] = events[n].entry
        BY DEF TypeOK, LogsReplayEvents
      <4>3. datalog'[s] = Append(datalog[s], <<now, r>>)
        BY <3>1 DEF TypeOK
      <4>4. L + 1 \in 1 .. (L + 1) /\ \A n \in 1 .. L : n \in 1 .. (L + 1)
        BY SMTT(60), <2>1
      <4>5. g[L + 1] = <<now, r>> /\ \A n \in 1 .. L : g[n] = events[n].entry
        BY <3>4, <3>5, <4>4
      <4>6. \A n \in S \cup {L + 1} : g[n] = events'[n].entry
        BY <4>1, <4>4
      <4> HIDE DEF S, g
      <4>7. \A n \in S : datalog[s][Rank(n, S)] = g[n]
        BY <4>1, <4>2, <4>5
      <4>9. /\ Len(Append(datalog[s], <<now, r>>)) = Cardinality(S \cup {L + 1})
            /\ \A n \in S \cup {L + 1} :
                   Append(datalog[s], <<now, r>>)[Rank(n, S \cup {L + 1})] = g[n]
        <5>1. PICK E, old, y, j : /\ E = Entry /\ old = datalog[s]
                                  /\ y = <<now, r>> /\ j = L + 1
          OBVIOUS
        <5>2. y \in E /\ g[j] = y
          BY <3>2, <4>5, <5>1
        <5>3. j \in Nat /\ S \subseteq Nat /\ \A m \in S : m < j
          BY SMTT(60), <2>1, <4>1, <5>1
        <5>4. old \in Seq(E) /\ Replays(old, S, g)
          BY <4>2, <4>7, <5>1 DEF Replays
        <5>5. Replays(Append(old, y), S \cup {j}, g)
          BY <4>1, <5>2, <5>3, <5>4, LogGrows
        <5> QED
          BY <5>1, <5>5 DEF Replays
      <4>10. Standing(s)' = S \cup {L + 1}
        BY <3>7 DEF S
      <4> QED
        BY <4>3, <4>6, <4>9, <4>10
    <3> QED
      BY <3>3, <3>8, <3>9 DEF EventsOK, LogsReplayEvents
  <2>3. ASSUME NEW s \in Accounts, erase(s) PROVE EventsOK' /\ LogsReplayEvents'
    <3> DEFINE x == [ev |-> "Erased", who |-> s]
    <3>1. events' = Append(events, x) /\ datalog' = [datalog EXCEPT ![s] = <<>>]
      BY <2>3 DEF erase
    <3>2. x \in Event
      OBVIOUS
    <3>3. events' \in Seq(Event)
      BY SMTT(60), <2>1, <3>1, <3>2
    <3>4. /\ DOMAIN events' = 1 .. (L + 1) /\ events'[L + 1] = x
          /\ \A n \in 1 .. L : events'[n] = events[n]
      BY SMTT(60), <2>1, <3>1, <3>2
    <3>5. x.ev = "Erased" /\ x.who = s
      OBVIOUS
    <3> HIDE DEF x, L
    <3>6. ASSUME NEW a \in Accounts, a # s PROVE Standing(a)' = Standing(a)
      BY SMTT(60), <2>1, <3>4, <3>5, <3>6 DEF Standing
    <3>7. Standing(s)' = {}
      <4>1. \A n \in Standing(s)' : n \in 1 .. (L + 1) /\ L + 1 < n
        BY SMTT(60), <2>1, <3>4, <3>5 DEF Standing
      <4> QED
        BY SMTT(60), <2>1, <4>1
    <3>8. ASSUME NEW a \in Accounts, a # s
          PROVE  /\ Len(datalog'[a]) = Cardinality(Standing(a)')
                 /\ \A n \in Standing(a)' :
                        datalog'[a][Rank(n, Standing(a)')] = events'[n].entry
      <4>1. datalog'[a] = datalog[a]
        BY <3>1, <3>8 DEF TypeOK
      <4>2. \A n \in Standing(a) : events'[n] = events[n]
        BY <2>1, <3>4 DEF Standing
      <4> QED
        BY <3>6, <3>8, <4>1, <4>2 DEF LogsReplayEvents
    <3>9. Len(datalog'[s]) = 0
      BY <3>1 DEF TypeOK
    <3> QED
      BY <3>3, <3>7, <3>8, <3>9, FS_EmptySet DEF EventsOK, LogsReplayEvents
  <2>4. ASSUME UNCHANGED <<datalog, events>> PROVE EventsOK' /\ LogsReplayEvents'
    <3>1. \A a \in Accounts : Standing(a)' = Standing(a)
      BY <2>4 DEF Standing
    <3> QED
      BY <2>4, <3>1 DEF EventsOK, LogsReplayEvents
  <2> QED
    BY <2>0, <2>2, <2>3, <2>4 DEF Next, NextBlock, vars
<1> QED
  BY <1>1, <1>2, PTL DEF Spec

=============================================================================
