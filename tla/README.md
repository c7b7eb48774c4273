# Robonomics in TLA+

A verification development kept beside the Robonomics code: TLA+ modules translated from the source, TLC
runs on small instances, and TLAPS proofs for all instances. `PROJECT.json` maps each definition to the
lines it models and lists components, runs, mutants, findings, hazards and theorems.

## The system

| Part | Code | Model |
|---|---|---|
| Liability pallet: agreements between a promisee and a promisor, created and finalized by unsigned calls | `robonomics/frame/liability/src/lib.rs` | `Liability`, `Escrow` |
| Agreement type: parameters, proofs, economical processing | `.../liability/src/{signed,traits,economics,technics}.rs` | `SignedLiability`, `Currency`, `Processing` |
| Validation of unsigned calls, in pools and before dispatch | `.../liability/src/lib.rs` (`validate_unsigned`) | `LiabilityPool` |
| Datalog pallet: a time-tagged log per account | `robonomics/frame/datalog/src/lib.rs` | `Datalog` |
| Launch pallet: one call, one event, no storage | `robonomics/frame/launch/src/lib.rs` | `LaunchPath` |
| Publisher/subscriber over libp2p Gossipsub | `robonomics/protocol/src/pubsub.rs`, `pubsub/gossipsub.rs` | `PubSub`, `PubSubClients` |
| Peer discovery over it | `robonomics/protocol/src/pubsub/discovery.rs` | `Discovery` |
| Remote calls for launch and datalog | `robonomics/protocol/src/{launch,datalog,runtime}.rs` | `IoWrite`, `IoRead`, `LaunchPath` |
| Sources and sinks (pubsub, IPFS, ROS, serial, chain), and their command line | `robonomics/io`, `robonomics/cli` | `IoWrite`, `IoRead`; start-up of pubsub in `Discovery` |
| ROS bridge of a node: topics and services over its client and pool | `substrate-ros/api` | `RosChain`, `RosAuthor` |
| Node: service, commands, chain specifications, collator | `bin/node/cli` | `NodeStartup` |
| Runtimes: Robonomics, IPCI, parachain | `bin/node/*-runtime` | `Votes`, `FeeFlow`, `TxEra` (parts) |
| Key tool | `bin/subkey` | `Subkey`, `Vanity` |

The parts meet as follows. A runtime includes the pallets; a node pools and executes their calls. The
liability pallet works on a currency through the `Processing` of its agreement type. Independently of the
chain, sources and sinks of the I/O crate start a publisher/subscriber and discovery, which finds peers by
announcements on a topic of its own. The same crate's commands write standard input to a device, a topic or a
chain and show what comes from there; a launch written by one command reaches another through the launch
pallet's event. The node executable picks runtime and service by the chain's family and builds the service
stage by stage. The ROS bridge gives robots topics and services on a node's client. `subkey` makes and inspects
keys and transactions.

## Modules

**`Currency`** (external: the balances pallet, as `signed.rs` uses it). A balance sheet maps accounts to free
and reserved funds. `reserve`, `unreserve` and `repatriate_reserved` are functions from a sheet to a result.
An account below the existential deposit is removed, its reserve included.

**`SignedLiability`**. An agreement, its proofs (a signature is its signer and what was signed) and
`on_start` and `on_finish` for both kinds of economics. A result holds success and the sheet afterwards, since
a failed dispatch is not rolled back.

**`Liability`**. The four storage items, the events, the sheet, the proofs that exist so far and the result of the last
dispatch. `create` and `finalize` are whole dispatches, one disjunct per outcome, in the order of the code; a call with
a signed origin is refused first of all. Account holders sign (`Sign`) and make plain transfers (`Transfer`) in between.
Anybody may submit any combination of existing proofs. The index of a liability is below `MaxIndex`.

**`Escrow`**. The abstract promise: a deal takes its price into a box of its own, finishing empties the box
to the payee, nothing else touches it. `Liability` implements it under the mapping in `Liability!E`.

**`LiabilityPool`** composes `Liability` with a pool per node. A call enters a pool (`Submit`) if
`validate_unsigned` accepts it and its tag is free, is validated again and dispatched on all nodes (`Author`),
or expires (`NewBlock`). The pool is external; validity and tags are the pallet's.

**`Processing`** calls `on_start` and `on_finish` alone, with both verdicts, which the pallet does not yet do.

**`Datalog`**. `record` and `erase`, over blocks whose time grows (the timestamp pallet is external).

**`PubSub`**. Per node the channel of requests, the worker's inboxes and the swarm; channels of answers and
messages by ticket; connections and messages in flight. `PollRequest` serves the oldest request by its
handler; `PollSwarm` handles an arriving message. Binding, dialling, loss of connections and the gossip itself
(flooding to subscribed neighbours, duplicates ignored by message id) are external. A node has an address on each of
its `Interfaces`. Listening on one of them binds it, listening on the unspecified address (`Wildcard`, the default of
the command line) binds all of them one by one, and listening on another node's answers true and never binds;
`BadAddresses` are those no transport supports.

**`PubSubClients`**. Clients that call without waiting, read, and drop streams.

**`Discovery`**. The two tasks of every node and its start-up. Announcements of a node differ only in their
timestamp; a new one makes its payload unknown again.

**`IoWrite`**. The commands that read standard input, each a process with a channel, a spawned task and a
buffered output. `ReadLine` and `StopReading` are the forwarding of the input; `Publish`, `Transfer` or `Connect`
and `Submit`/`SubmitFails` are the device's side; `Flush` and `Finish` the forwarding of the answers. `Exit` ends
the process and all its tasks. All processes sign with one account, whose pool and blocks are external.

**`IoRead`**. The commands that wait for a device: a task, a callback or the swarm puts arrivals into a channel
(`Arrive`), and `Forward` and `FlushShown` bring them to the output. `Broken` is a failed query or an ended
subscription.

**`LaunchPath`** composes both: when a launch of `IoWrite` is recorded, its event arrives at the listener of
`IoRead` in the same step (`Executed`), unless the listener is not connected. `Disturbed` is whatever else may reach it: an
event that does not decode, or the end of its connection.

**`RosChain`**. `start` registers seven groups of topics and services, each of which may fail; publishers follow the
client's notifications; services read the client at any moment. The client is external: a block is the sequence of the
values one storage entry had in it and in its ancestors; its `Parent` is the sequence without the last one. A block may
be stored with a justification when it is finalised, which the `block` service shows from then on. A block that finality
makes the best one comes with no import notification, so it is not announced as best.

**`RosAuthor`**. The author services over a pool (external) with dependencies between extrinsics and bans.

**`NodeStartup`**. A run of the executable: `LoadSpec`, `Dispatch` to a subcommand or a service, and then the stages of
that service from a list (`NewFull`, `NewLight`, `Collator`), each of which may fail where the code has a `?`. `run` and
`native_runtime_version` match on the chain's family each for itself, as in the code: the second is called first by
`run_node_until_exit` and panics for an unknown family. Tasks are in `tasks` from the moment they are spawned and may
end from then on; `Supervise` is the task manager.

**`Subkey`**. Each command as an action on what was printed so far; texts are tagged tuples, so that a public key
in hexadecimal and a seed in hexadecimal can be told apart by their reader only where the code does so.
**`Vanity`** is its search for addresses; a letter outside ASCII passes the validation and is cut in two by the
first truncation, which panics (`SplitWide`).

**`Votes`** (balances to votes and back), **`FeeFlow`** (fees and tips, from withdrawal to settlement, in the three
runtimes, with two history variables: what was paid in all and by how many transactions) and **`TxEra`** (the era
`create_transaction` gives to transactions, against the table of block hashes) model the arithmetic that the runtimes
add to Substrate's pallets; these pallets are external.

`MC*` modules give constants their values. `MCNode` and `MCTools` put together modules that share no state: a variable
`part`, chosen at the start, says which of them moves, and the others rest in an initial state, so that one run covers
them without their product. Fairness is the modules' own, each where its part moves. `*Proofs` modules hold the
theorems. Definitions commented "Faulty" or "Mutant" are mutations of the next definition, with which the property named
in `PROJECT.json` must fail.

## Runs

| Run | Instance | Shows |
|---|---|---|
| `liability_market` | 2 accounts, prices 0 and 2, existential deposit 2, 2 liabilities, both origins | `EscrowBacked`, `Consent`, `EventsTellStorage`, `FailureWritesNothing`, `PaidOnFinish`, `NothingMinted`, `ImplementsEscrow` |
| `liability_pool` | 2 nodes, 2 liabilities, 2 contradicting reports, longevity 2 | `PooledStaysValid`, `WrittenOnce`, `PooledCallsLeave` |
| `pubsub_readers` | 2 linked nodes, 5 calls, 1 lost connection | `FirstReaderKeepsTopic`, `ReadersGetTheirTopic`, `AnswersFollowCallOrder` |
| `pubsub_addresses` | 2 nodes of 2 interfaces, 1 unsupported address, 4 calls | `ReportedWereAskedFor`, `AnswersArrive` |
| `discovery` | 3 nodes, two with the third as boot node, 1 lost connection | `EveryoneConnects`, `TasksGoOn` |
| `node`, startup | all commands, chains, roles and options | `RoleDecidesTasks`, `StartSettles`, `ConsensusFailureEndsNode` |
| `node`, publishers and services | publishers 4 blocks, services 3; height 3, 2 values of an entry | `BestImportsAnnounced`, `TopicsAgree`, `ShutdownStopsPublishers`, `SameHashSameAnswer` |
| `node`, author | 3 extrinsics in a chain of needs | `RemovedStaysOut` |
| `node`, datalog | 2 accounts, 2 records, 3 times, 4 calls | `LogsReplayEvents`, `TimesOrdered` |
| `node`, votes | largest vote 3, issuance up to 16 | `VotesFollowStakes` |
| `node`, fees | 3 runtimes, existential deposit 2, 5 transactions | `FundsAreAccounted` |
| `node`, era | hash tables of 5, 6, 8, 9 and 12 entries, 26 blocks | `ValidThroughPeriod` |
| `tools`, chain and streams | 2 datalog commands with one key and up to 2 lines each; or a pubsub, ros, ipfs or cat command with up to 3 lines | `RecordsFollowInput`, `SuccessAnswersAll`, `CommandEnds` |
| `tools`, read | sds011 or pubsub, up to 3 arrivals | `ArrivalsShown`, `BreakageEnds` |
| `tools`, path | a launch and a datalog command with 2 lines between them, and a listener | `LaunchesShownAsRecorded`, and those of writing and reading |
| `tools`, keys and subkey | 3 schemes, 1 password, 2 networks, 3 chains; 4 commands that only make, sign with and verify keys, or 3 of all | `VerifyTellsSigner`, `AppliedWhereAsked` |
| `tools`, vanity | seeds of 2 digits to base 3, addresses of up to 5 characters, a letter outside ASCII, 13 tries | `FoundShowsPattern` |

Five runs end in a violation, each a disagreement between code and its own words:

- `processing_refund`: `on_finish(false)` reports "reserved less than expected" for a full refund, because
  `unreserve` returns what it could *not* move. The pallet never passes `false` today.
- `liability_dust`: with a price below the existential deposit, a transfer can take a promisee's account below
  it; the reserve goes as dust, and the liability is finalized without payment. The runtime in this repository
  is configured with `Communism`, where no funds move.
- `pubsub_connect`: `connect` answers true when a dial has started, its documentation says when connected.
- `pubsub_resubscribe`: after a reader dropped its stream without unsubscribing, a new subscription is ignored
  as a double one, and its stream ends at once.
- `io_ros_lost`: the ROS source drops its sending future unpolled; no message is shown.

Other disagreements are in the models, as the code has them, without a run of their own. The pubsub command ends with
its input while lines wait to be published (`IoWrite`, `Finish`). A failed upload ends the ipfs command with hashes
still buffered. A block number that does not exist gives the zero hash, which other services read as "the best block"
(`RosChain`, `GetBlockHash`). `subkey inspect` takes a public key in hexadecimal for a seed, `verify` does not take the
secret URI its help offers, `sign-transaction` does not read the `--password` it accepts, and transactions for `ipci`
carry another runtime's version.

**Bounds.** Two liabilities are what it takes to confuse reserves, indices or events; two accounts let either
be promisee. One of them holds nothing at genesis: a transfer creates its account, another lets it die, and
a liability may have to be paid to it in either state.
`liability_pool` has free liabilities: validation does not look at funds. Five calls are enough for
subscribe, subscribe, unsubscribe, subscribe, publish. Two nodes that know only a third are the smallest network that
needs forwarding. `MaxInFlight` is 1: only one node's announcement is on its way at a time, so announcements
that overlap are not explored (with 2 TLC did not finish). `AskListeners` waits until the node's last announcement was
dealt with, which stands for the minute's sleep.

Two processes with two lines each are enough for a nonce to be read, used up and replaced by the other. In `path` two
launches, or a launch and another record, are what it takes to show them out of order, twice or in each other's place.
Four blocks of the publishers allow a fork, a reorganisation to it and its finalisation. Four commands on keys make two
of them, sign with one and verify against the other; three of all commands (`MaxMixed`) make a key and two transactions.
Two interfaces are what it takes for one call to bind more than it names. Five transactions let an author's dropped
shares and the treasury's rounding add up, and the author change in between. `Digits = 3` and `SeedLen = 2` make the
carry happen twice in a batch; `AddressLen` stands for the 48 characters of an address. `MaxVote = 3` with issuance up
to 16 has factors from 1 to 5 and the range between `MaxVote` and its double where the cast cuts. The existential
deposit of 2 is above the author's share of the small fee, which is then dropped, and below that of the large one.

**Deadlock** is checked where the system goes on for ever. The client runs stop at their bound on calls,
`processing_refund` at its bound on agreements. In `tools` and `node` the commands of the I/O crate, of `subkey` and of the
node end, and the bridge's client, `datalog` and eras stop at their bounds on blocks and calls.

**Fairness.** A worker is polled again and again, for requests and messages alike (the heartbeat wakes it; both loops of
`poll` run until nothing is left). A bind or dial that was started ends. Discovery's tasks run when they can;
`AskListeners` has strong fairness, because the bound `MaxInFlight`, not the code, disables it time and again. Blocks
keep being made, for `PooledCallsLeave` only. The two tasks of an I/O command, one that fills its channel and one that
empties it, are polled by its executor, which is weak fairness of each task and not of each of its steps, and a remote
call ends somehow (an answer or an error); what arrives from a device is never assumed. Publishers of the system API
wake after their delay. The node's main thread goes on; the end of a task is never assumed. `EveryoneConnects` assumes
that the network gets into one piece and that a lost connection does not split it: boot nodes are dialled once.

## Proofs

Every safety property that a passing run checks is proved for all values of the constants.

| Module | Theorem | States | Inductive invariant |
|---|---|---|---|
| `LiabilityProofs` | `TypeCorrect` | `TypeOK` | itself |
| | `FailureIsClean` | `FailureWritesNothing` | none: a fact about one step |
| | `StoredForGood`, `ConsentGiven` | `WrittenOnce`, `Consent` | `TypeOK`, `Slots` |
| | `EventsAreAccount` | `EventsTellStorage` | `TypeOK`, `Slots`, `EventsMatch` |
| | `PoolsImplementPallet` | `PoolSpec => Spec` | none |
| | `PooledCallsStayValid`, `PoolsWriteOnce` | `PooledStaysValid`, `WrittenOnce` behind pools | `TypeOK`, `Slots`, `PoolsOK` |
| `EscrowProofs` | `EscrowIsBacked`, `PromisorIsPaid`, `PalletIsEscrow` | `EscrowBacked`, `PaidOnFinish`, `ImplementsEscrow` | `TypeOK`, `Slots`, `Backed` |
| | `CurrencyIsConserved` | `NothingMinted` | `TypeOK` |
| `PubSubBaseProofs` | lemmas only | types, queue and answers | `BaseOK` |
| `PubSubProofs` | `FirstReaderKeeps` | `FirstReaderKeepsTopic` | `BaseOK`, `TopicsOK` |
| | `AnswersInOrder` | `AnswersFollowCallOrder` | `BaseOK`, `TopicsOK`, `AnswersOK` |
| | `ReportedAddresses` | `ReportedWereAskedFor` | `BaseOK`, `AddrsOK`, `ReportsOK` |
| | `ReadersTopic` | `ReadersGetTheirTopic` | `BaseOK`, `WireOK`, `InboxOK`, `ReadersOK` |
| `IoWriteProofs` | `RecordsInOrder` | `RecordsFollowInput` | `WInv` |
| | `LaunchesShown` | `LaunchesShownAsRecorded` | `LaunchInv` |
| | `SuccessAnswered` | `SuccessAnswersAll` | `WInv`, `AnswersOK` |
| `RosProofs` | `RemovedStays` | `RemovedStaysOut` | `BannedOK` |
| | `SameAnswer` | `SameHashSameAnswer` | `ServeOK` |
| | `BestsAnnounced` | `BestImportsAnnounced` | `PublishOK`, `BestOK` |
| | `TopicsTogether` | `TopicsAgree` | `PublishOK` |
| `NodeProofs` | `RolesDecide` | `RoleDecidesTasks` | `StartOK` |
| | `SearchIsRight` | `FoundShowsPattern` | `VanityOK` |
| | `VotesAreFaithful` | `VotesFollowStakes` | `VoteTypes` |
| | `ErasFitTheTable` | `ValidThroughPeriod` | `EraOK` |
| `RuntimeProofs` | `AppliedOnce` | `AppliedWhereAsked` | `ExtrinsicsOK` |
| | `VerifyIsRight` | `VerifyTellsSigner` | `SignaturesOK` |
| | `FeesAreAccounted` | `FundsAreAccounted` | `FeesOK`, `SharesOK` |
| | `DatalogOrdered`, `EventsRebuildLogs` | `TimesOrdered`, `LogsReplayEvents` | `TypeOK`, `EventsOK` |

A proof module gathers parts that need the same facts: `NodeProofs` those that do without finite sets, `RuntimeProofs`
those that count. The prover repeats what is in scope for each step, so definitions and lemmas are kept few and small,
and `RosChain` has its own two operators on prefixes instead of a library of sequences. A leaf goes to Zenon (`USE
ZenonT(60)`) unless it names the SMT solver: arithmetic, sequences and records with updates go there, and a module stays
quick to check when these are few, because the preparation of an SMT leaf grows with the number of those before it.

**The liability pallet.** `WrittenOnce` needs that `create` writes to an unused index, hence `Slots`: an index is used
exactly if it is below `latestIndex`, and only used ones are finalized. `EventsMatch` adds that there are as many
`NewLiability` events as indices, in their order, and for each finalized one a report after it. A pool changes no state
of the pallet, so `PoolSpec` implements `Spec` with the pallet's variables as they are, and what holds of the pallet
holds behind the pools; `PoolsOK` says that pooled calls are well formed and valid: all that `validate_unsigned` looks
at is signed or written once.

`EscrowIsBacked`, `PromisorIsPaid` and `PalletIsEscrow` assume `PricesCoverDeposit` (a price is zero or at least the
existential deposit). `Backed` is `EscrowBacked` with the finiteness of the locked units. A new liability adds a
disjoint block of units, finalizing removes one; the assumption is what keeps an account with an open, priced liability
from being reaped. `liability_dust` shows that it cannot be dropped. `PalletIsEscrow` is the refinement, step by step
under the mapping of `Liability!E`: `create` is a deal, `finalize` empties the box of its deal, a plain transfer moves
purses, and a signature or a failed call stutters. `CurrencyIsConserved` counts units of all accounts and needs no
condition on prices: a transfer or a payment changes two accounts, one of which may be reaped.

**Publisher/subscriber.** `BaseOK` says that served calls and waiting requests of a node, in this order, are its calls
in the order they were made, and which of them have answers. `TopicsOK` reads subscription and inbox of a topic off the
served calls alone, which gives both theorems on topics. `ReportedAddresses` assumes `Linked = {}`: nodes begin
unconnected, so no address is bound before somebody asks; `AddrsOK` then says that whatever a node is binding or has
bound is among the addresses that its `listen` calls so far, answered with true, resolve to. For `ReadersTopic` a
message in flight is known to its sender (`WireOK`) and what a reader got is known to its node (`ReadersOK`), so that a
payload that comes back is ignored.

**Commands that write.** `RecordsFollowInput` alone says nothing of what is still under way, so `WInv` follows a line
from the channel over the call and the pool to the log: numbers grow along the channel, what is called is below what
waits there, and what was sent is below both (`ChanOrdered`, `CallOrdered`, `SentOrdered`). `OneWaits` carries the
argument: a nonce is read from the chain and never ahead of it, so a call whose nonce the pool accepts has the next one,
and replaces the only transaction that can wait. `AnswersOK` numbers answers printed, buffered, in flight and waiting
without a gap.

`Becomes` states once per step what it does to its command's record, for the two arguments above and the next one.

**From the record to another output.** `LaunchesShownAsRecorded` gives every shown line its place in the record. Lines
in the listener's channel have such places too, so `ReaderOK` is about the whole `Stream` of shown, buffered and waiting
lines, and while the task listens the stream is also `Complete`: no launch recorded after its first line is missing.
That is what makes the next event continue the piece (`TraceGrows`); once the listener has ended, only a beginning of
the stream can still be shown (`TracePrefix`). An event that does not decode never enters the stream, which needs that
it is no recorded item (`LaunchPathAssumption`). `Payloads` are meant to hold the items that can be recorded, as
`MCPayloads` does: an item outside could not arrive.

**The ROS bridge.** `BannedOK`: whatever a caller asked to remove is banned, and what is banned is not in the pool.
`ServeOK`: blocks are closed under ancestors, a hash that callers hold is of a known block, and an answer for a hash is
a function of that hash and, for a block, of the justifications stored so far, which only grow. `PublishOK` relates the
blocks imported as new best ones, the notifications that wait and what was sent: the blocks announced are a prefix of
those, and the waiting notifications hold exactly the rest, in order (`AnnouncedInOrder`). `BestOK` adds that the
client's best block is the last of them or the finalised one: a finalisation that leaves the best block's fork makes
both the same.

**The node.** `PlanOK` keeps the stages left to build in an order in which the network is started last, and `WorkOK`
says that a stage that is no longer left has spawned its tasks.

**The runtime**, its votes and eras in `NodeProofs`. `EventsRebuildLogs` is about `Rank`, the place of an event among
those of its account since its last erase. `VotesAreFaithful` rests on lemmas on division (`Quotient`, `QuotientOrder`).
`EraOK` says which hashes the table holds at each height; the theorem then needs that half the next power of two is
below `BlockHashCount`, shown for counts from 2 to 4096, the range of the powers that `TxEra` lists (the runtimes have
2400). `FeesOK` is the balance of issued units; each imbalance is resolved once, by `ResolveResolves`, whoever is paid.
`SharesOK` is the split of what was paid so far. One payment keeps to the split up to less than a unit each of fee and
tip and a dropped share (`PaymentShares`, from `RationRounds`), and such bounds add (`SharesAdd`).

**Subkey**, in `RuntimeProofs`, its vanity search in `NodeProofs`. `SignaturesOK`: an output shows the public key it was
printed for and, if it shows a seed, the one of its URI and password; a verdict is what the signature's key answers.
`ExtrinsicsOK`: an applied extrinsic has a used index. `AppliedOnce` rests on `VersionAssumption`: `sign-transaction`
signs for `ipci` whatever it is asked, and what keeps this from applying there is that the version signed is the
Robonomics runtime's (1, the IPCI runtime has 15). The vanity search compares one number with a mark; `ScoreDecides`
shows, from the greatest matching length and the least position, that this number reaches the mark exactly if the whole
pattern occurs at one of the first three places.

**Assumptions.** The named `ASSUME`s give constants their types, and: genesis has no reserves and finitely many accounts
(`LiabilityAssumption`, `FeeAssumption`); endowments are at least the existential deposit and the treasury is not among
the other accounts (`FeeAssumption`); calls of clients are of the service's methods, one ticket each
(`ClientsAssumption`); "no call", "no ticket" and "no bytes" are none of what they stand beside; `BlockHashCount` is
between 2 and 4096 (`EraAssumption`); texts are sequences and an address has at least three characters
(`VanityAssumption`). TLC evaluates all of them on the runs.

**Only model-checked.** All liveness properties (`PooledCallsLeave`, `AnswersArrive`, `EveryoneConnects`, `TasksGoOn`,
`ConsensusFailureEndsNode`, `StartSettles`, `ShutdownStopsPublishers`, `CommandEnds`, `ArrivalsShown`, `BreakageEnds`):
liveness under fairness is out of the prover's reach.

## Not modelled

- Encoding, weights, logging and cryptography (a signature verifies exactly if it was made by this signer over
  this payload; the derivation of addresses is an arbitrary function). The oracle, which has no code. libp2p, ROS and
  Substrate, except as the code uses them.
- The runtimes' configuration of Substrate's pallets and their runtime APIs, which pass calls on; `WeightToFee`. Lengths of
  sessions and eras and the election window, which are constants handed to those pallets. Genesis
  data other than the development balances, and the tables of stakeholders. Primitives, which are type synonyms.
- `bin/node/rpc`, a list of RPC handlers. Export of the parachain's genesis state, parachain ids and the extensions of
  a specification, and `RelayChainCli`'s getters, which pass on to the relay chain's command line. The `benchmark`
  subcommand, whose feature no manifest declares.
- Gossipsub's memory of messages is finite in time and holds for ever in the model; a payload that comes back later than that
  would be read again. Transactions that a reorganisation takes out of the chain and the pool offers again: the chain of
  `IoWrite` does not reorganise. Stakes that do not fit in a vote are in `Votes`, outside of its property.
- The getters of the ROS bridge's system API and its calls for reserved peers, which pass on to the network; the
  generated ROS messages.
- The Ethereum and identity helpers of the protocol crate, which only format.
- Delivery promises the code does not make: equal payloads on two topics, and boot nodes that are late. `PROJECT.json` lists them among the hazards, with the reason.

## Next

Lemmas on what `on_start` and `on_finish` return for both kinds of economics; which connections `Discovery` may make.
