------------------------------- MODULE Subkey -------------------------------
(***************************************************************************)
(* The `subkey` tool (bin/subkey): a session of its commands, run one      *)
(* after the other by a user who feeds what one command printed to the     *)
(* next, together with the chains that receive the extrinsics it signs and *)
(* the node whose keystore it fills.                                       *)
(*                                                                         *)
(* Text is abstracted to what the parsers tell apart: a mnemonic phrase, a *)
(* hexadecimal string (the bytes it spells), an SS58 address (an account   *)
(* and a network), anything else.  Bytes are terms: the seed or the public *)
(* bytes of a key, so that "the same bytes read as something else" is      *)
(* visible.  A key is a term over the secret it was made from.             *)
(***************************************************************************)
EXTENDS Naturals, FiniteSets

CONSTANTS
    Schemes,      \* the cryptography flags a session may use
    Phrases,      \* the mnemonics that may be generated
    Passwords,    \* the values of --password
    Networks,     \* the SS58 networks
    Default,      \* the default network, a member of Networks
    Messages,     \* what is signed
    Targets,      \* what --genesis may name: chain identifiers and hashes
    Chains,       \* the chains reached by the extrinsics
    Version,      \* [Chains -> runtime versions of those chains]
    NodeVersion,  \* the VERSION of node_runtime linked into subkey
    Files,        \* names of node key files
    Commands,     \* the subcommands the session uses
    MaxCommands,  \* bound: commands in a session
    RpcFails,     \* whether the call to the node may fail
    None          \* an absent option

ASSUME DefaultAssumption == Default \in Networks

\* The ipci runtime has other versions than the one linked into subkey.
ASSUME VersionAssumption == Version["ipci"] # NodeVersion

VARIABLES
    scheme,    \* the cryptography of the session
    ran,       \* number of commands run
    outs,      \* what print_from_uri printed
    rejected,  \* URIs for which it printed "Invalid phrase/URI given"
    sigs,      \* signatures printed by `sign`
    verdicts,  \* what `verify` answered: BOOLEAN, or "panic"
    xts,       \* extrinsics printed by `transfer` and `sign-transaction`
    applied,   \* [Chains -> the extrinsics applied there]
    keystore,  \* [type, public, suri] entries on the node's disk
    files,     \* [Files -> the node key stored there]
    peers      \* [Files -> the last peer ID printed for the file]

svars == <<scheme, ran, outs, rejected, sigs, verdicts, xts, applied, keystore, files, peers>>

SInit ==
    /\ scheme \in Schemes
    /\ ran = 0
    /\ outs = {} /\ rejected = {} /\ sigs = {} /\ verdicts = {} /\ xts = {}
    /\ applied = [c \in Chains |-> {}]
    /\ keystore = {}
    /\ files = [f \in Files |-> 0]
    /\ peers = [f \in Files |-> 0]

-----------------------------------------------------------------------------
(* Strings, bytes and keys.                                                *)

Phrase(p) == <<"phrase", p>>

Hex(bytes) == <<"hex", bytes>>

Ss58(acct, net) == <<"ss58", acct, net>>

Junk == <<"junk", "junk">>

\* The public bytes of a key.
PublicBytes(key) == <<"pub", key>>

\* into_runtime().into_account(): ecdsa hashes its 33 bytes, the others are
\* the account themselves.
AccountBytes(pub) == IF scheme = "ecdsa" THEN <<"acct", pub>> ELSE pub

\* Pair::from_seed_slice on a hexadecimal string: any 32 bytes are a seed.
IsSeed(bytes) == ~(scheme = "ecdsa" /\ bytes[1] = "pub")

FromSeed(bytes) == IF bytes[1] = "seed" THEN bytes[2] ELSE <<"raw", bytes>>

\* Pair::from_string: a phrase with its password, or a seed, which has none.
IsSecret(uri) ==
    uri[1] = "phrase" \/ (uri[1] = "hex" /\ IsSeed(uri[2]))

FromString(uri, password) ==
    IF uri[1] = "phrase"
    THEN <<"mnemonic", uri[2], password>>
    ELSE FromSeed(uri[2])

\* pair_from_suri: ed25519 falls back to the text itself, padded, as a seed;
\* the other schemes panic on what is not a secret.
Readable(suri) == IsSecret(suri) \/ scheme = "ed25519"

PairFromSuri(suri, password) ==
    IF IsSecret(suri) THEN FromString(suri, password) ELSE <<"legacy", suri>>

\* read_pair hands the suri and the password on.
ReadPair(suri, password) == PairFromSuri(suri, password)

\* Public::from_string: an SS58 text of the public key's length.  An ecdsa
\* key is longer than the account its address holds.
IsAddress(uri) == uri[1] = "ss58" /\ scheme # "ecdsa"

\* A public key is read from hexadecimal if the length fits.
PublicLength(bytes) ==
    IF scheme = "ecdsa" THEN bytes[1] = "pub" ELSE TRUE

NetworkOr(network, other) == IF network = None THEN other ELSE network

-----------------------------------------------------------------------------
(* print_from_uri.                                                         *)

Printed(uri, password, net, seed, pub) ==
    [uri |-> uri, password |-> password, network |-> net, seed |-> seed,
     public |-> Hex(pub), account |-> Hex(AccountBytes(pub)),
     address |-> Ss58(AccountBytes(pub), net)]

\* The three readings of a URI, in the order they are tried.
PrintFromUri(uri, password, network) ==
    IF IsSecret(uri)
    THEN LET key == FromString(uri, password)
         IN  /\ outs' = outs \cup
                    {Printed(uri, password, NetworkOr(network, Default),
                             Hex(<<"seed", key>>), PublicBytes(key))}
             /\ UNCHANGED rejected
    ELSE IF IsAddress(uri)
    THEN /\ outs' = outs \cup {Printed(uri, password, NetworkOr(network, uri[3]),
                                       None, uri[2])}
         /\ UNCHANGED rejected
    ELSE rejected' = rejected \cup {uri} /\ UNCHANGED outs

-----------------------------------------------------------------------------
(* The commands.  Known is what the user can paste: what was printed, and  *)
(* a text that is none of it.                                              *)

Known ==
    {o.uri : o \in outs} \cup {o.seed : o \in {q \in outs : q.seed # None}}
    \cup {o.public : o \in outs} \cup {o.address : o \in outs} \cup {Junk}

Run(command) ==
    /\ command \in Commands
    /\ ran < MaxCommands
    /\ ran' = ran + 1
    /\ UNCHANGED scheme

\* generate: a new phrase, printed with the password of the session.
Generate(phrase, password, network) ==
    /\ Run("generate")
    /\ PrintFromUri(Phrase(phrase), password, network)
    /\ UNCHANGED <<sigs, verdicts, xts, applied, keystore, files, peers>>

\* inspect: the URI is whatever the user has.
Inspect(uri, password, network) ==
    /\ Run("inspect")
    /\ PrintFromUri(uri, password, network)
    /\ UNCHANGED <<sigs, verdicts, xts, applied, keystore, files, peers>>

\* vanity: the seed that was found is printed as a seed, without a password.
VanityKey(network) ==
    /\ Run("vanity")
    /\ PrintFromUri(Hex(<<"seed", <<"found", "found">>>>), None, network)
    /\ UNCHANGED <<sigs, verdicts, xts, applied, keystore, files, peers>>

\* moduleid: the module's account as an address; the account has no key.
ModuleIdAccount(password, network) ==
    /\ Run("moduleid")
    /\ PrintFromUri(Ss58(<<"module", "module">>, NetworkOr(network, Default)),
                    password, network)
    /\ UNCHANGED <<sigs, verdicts, xts, applied, keystore, files, peers>>

\* Mutant: the password of the session never reaches the key.
SignBare(suri, password, message) ==
    /\ Run("sign")
    /\ Readable(suri)
    /\ sigs' = sigs \cup {[suri |-> suri, password |-> password,
                           key |-> ReadPair(suri, None), message |-> message]}
    /\ UNCHANGED <<outs, rejected, verdicts, xts, applied, keystore,
                   files, peers>>

\* sign: the message on standard input under the pair of the secret URI.
Sign(suri, password, message) ==
    /\ Run("sign")
    /\ Readable(suri)
    /\ sigs' = sigs \cup {[suri |-> suri, password |-> password,
                           key |-> ReadPair(suri, password), message |-> message]}
    /\ UNCHANGED <<outs, rejected, verdicts, xts, applied, keystore,
                   files, peers>>

\* read_public_key: hexadecimal is the public key itself, other text an
\* address; what is neither ends in a panic.
ReadPublicKey(uri) ==
    IF uri[1] = "hex"
    THEN IF PublicLength(uri[2]) THEN uri[2] ELSE None
    ELSE IF IsAddress(uri) THEN uri[2] ELSE None

\* verify: the signature, the message on standard input and a key.
VerifyCmd(sig, uri, message) ==
    /\ Run("verify")
    /\ LET pub == ReadPublicKey(uri)
       IN  verdicts' = verdicts \cup
               {[sig |-> sig, uri |-> uri, message |-> message,
                 answer |-> IF pub = None THEN "panic"
                            ELSE IF pub = PublicBytes(sig.key) /\ message = sig.message
                            THEN "valid" ELSE "invalid"]}
    /\ UNCHANGED <<outs, rejected, sigs, xts, applied, keystore, files,
                   peers>>

-----------------------------------------------------------------------------
(* Extrinsics.                                                             *)

\* read_genesis_hash: a chain identifier or the hash itself; "ipci" when the
\* option is absent.
ReadGenesisHash(genesis) == IF genesis = None THEN "ipci" ELSE genesis

\* Mutant: the default chain is used whatever was asked for.
CreateExtrinsicDefault(function, index, key, genesis) ==
    [function |-> function, index |-> index, signer |-> PublicBytes(key),
     genesis |-> "robonomics", version |-> NodeVersion]

\* create_extrinsic: an immortal extrinsic, signed together with the linked
\* runtime's versions and the genesis hash.
CreateExtrinsic(function, index, key, genesis) ==
    [function |-> function, index |-> index, signer |-> PublicBytes(key),
     genesis |-> genesis, version |-> NodeVersion]

\* The signer's transaction index on a chain.
Nonce(chain, signer) == Cardinality({x \in applied[chain] : x.xt.signer = signer})

\* transfer: from is taken as it stands, the index is what the user gives;
\* here the signer's own index on the chain that is meant.
TransferCmd(from, password, genesis) ==
    /\ Run("transfer")
    /\ Readable(from)
    /\ LET key == ReadPair(from, password)
           hash == ReadGenesisHash(genesis)
           index == Nonce(hash, PublicBytes(key))
       IN  xts' = xts \cup {[asked |-> hash, id |-> ran,
                             xt |-> CreateExtrinsic("transfer", index, key, hash)]}
    /\ UNCHANGED <<outs, rejected, sigs, verdicts, applied, keystore,
                   files, peers>>

\* sign-transaction: the option --genesis is not one of this subcommand's, and its
\* own --prior-block-hash and --password are required and read by nobody: password
\* is the one given before the subcommand.
SignTransaction(suri, password, prior) ==
    /\ Run("sign-transaction")
    /\ Readable(suri)
    /\ LET key == ReadPair(suri, password)
           index == Nonce(prior, PublicBytes(key))
       IN  xts' = xts \cup {[asked |-> prior, id |-> ran,
                             xt |-> CreateExtrinsic("call", index, key,
                                                    ReadGenesisHash(None))]}
    /\ UNCHANGED <<outs, rejected, sigs, verdicts, applied, keystore,
                   files, peers>>

\* A chain checks the versions, the genesis and the index that were signed.
Accepts(chain, xt) ==
    /\ xt.version = Version[chain]
    /\ xt.genesis = chain
    /\ xt.index = Nonce(chain, xt.signer)

\* A printed extrinsic reaches a chain, any chain, any number of times.
Apply(chain, x) ==
    /\ Accepts(chain, x.xt)
    /\ applied' = [applied EXCEPT ![chain] =
                       @ \cup {[xt |-> x.xt, at |-> Cardinality(@), asked |-> x.asked]}]
    /\ UNCHANGED <<scheme, ran, outs, rejected, sigs, verdicts, xts, keystore, files, peers>>

-----------------------------------------------------------------------------
(* Keys of a node.                                                         *)

\* RpcClient::insert_key: an error of the call is printed and dropped.
InsertKey(entry) == \/ keystore' = keystore \cup {entry}
                    \/ RpcFails /\ UNCHANGED keystore

\* insert: the public key is the pair's, password included; the suri goes to
\* the node as it was given, and the command succeeds whatever becomes of it.
Insert(suri, password) ==
    /\ Run("insert")
    /\ Readable(suri)
    /\ LET entry == [public |-> PublicBytes(ReadPair(suri, password)), suri |-> suri]
       IN  InsertKey(entry)
    /\ UNCHANGED <<outs, rejected, sigs, verdicts, xts, applied, files, peers>>

\* generate-node-key: the new secret is written, then its peer ID printed; a
\* failed write ends the command.
GenerateNodeKey(f) ==
    /\ Run("generate-node-key")
    /\ \/ /\ files' = [files EXCEPT ![f] = ran + 1]
          /\ peers' = [peers EXCEPT ![f] = ran + 1]
       \/ UNCHANGED <<files, peers>>
    /\ UNCHANGED <<outs, rejected, sigs, verdicts, xts, applied, keystore>>

\* inspect-node-key: the peer ID of the secret in the file, if there is one.
InspectNodeKey(f) ==
    /\ Run("inspect-node-key")
    /\ files[f] # 0
    /\ peers' = [peers EXCEPT ![f] = files[f]]
    /\ UNCHANGED <<outs, rejected, sigs, verdicts, xts, applied, keystore,
                   files>>

-----------------------------------------------------------------------------
SNext ==
    \/ \E p \in Phrases, pw \in Passwords, n \in Networks \cup {None} :
           Generate(p, pw, n)
    \/ \E u \in Known, pw \in Passwords, n \in Networks \cup {None} :
           Inspect(u, pw, n)
    \/ \E n \in Networks \cup {None} : VanityKey(n)
    \/ \E pw \in Passwords, n \in Networks \cup {None} : ModuleIdAccount(pw, n)
    \/ \E u \in Known, pw \in Passwords, m \in Messages : Sign(u, pw, m)
    \/ \E s \in sigs, u \in Known, m \in Messages : VerifyCmd(s, u, m)
    \/ \E u \in Known, pw \in Passwords, g \in Targets : TransferCmd(u, pw, g)
    \/ \E u \in Known, pw \in Passwords, c \in Chains : SignTransaction(u, pw, c)
    \/ \E c \in Chains, x \in xts : Apply(c, x)
    \/ \E u \in Known, pw \in Passwords : Insert(u, pw)
    \/ \E f \in Files : GenerateNodeKey(f) \/ InspectNodeKey(f)

SSpec == SInit /\ [][SNext]_svars

-----------------------------------------------------------------------------
(* Properties.                                                             *)

\* The secrets an output stands for: its URI with its password if that is a
\* secret, and its seed with any password.
Secrets(o) ==
    {<<o.uri, o.password>> : q \in {r \in {o} : r.seed # None}}
    \cup {<<o.seed, pw>> : pw \in IF o.seed = None THEN {} ELSE Passwords}

\* verify says "valid" exactly for the message that was signed and for the
\* public key or address printed for the secret that signed it (do_sign,
\* do_verify, read_pair and read_public_key over a whole session).
VerifyTellsSigner ==
    \A v \in verdicts, o, q \in outs :
        (/\ v.uri \in {o.public, o.address}
         /\ v.answer # "panic"
         /\ <<v.sig.suri, v.sig.password>> \in Secrets(q)) =>
            (v.answer = "valid" <=> v.message = v.sig.message /\ q.public = o.public)

\* An extrinsic takes effect on no chain but the one the user asked for, and
\* once only, however often and wherever the printed text is submitted
\* (create_extrinsic signs the genesis hash and the index).
AppliedWhereAsked ==
    \A c \in Chains : \A x \in applied[c] :
        /\ x.asked = c
        /\ \A d \in Chains : \A y \in applied[d] : y.xt = x.xt => d = c /\ y = x

=============================================================================
