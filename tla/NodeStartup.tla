----------------------------- MODULE NodeStartup -----------------------------
(***************************************************************************)
(* The node executable: run() loads a chain specification, picks the       *)
(* runtime by the chain's family and the service by the role, and the      *)
(* service builds its components one after the other, each of which may    *)
(* fail.  Tasks run from the moment they are spawned, while the rest is    *)
(* still being built; the task manager is watched once the service exists. *)
(***************************************************************************)
EXTENDS Naturals, Sequences, FiniteSets

CONSTANTS Commands,     \* entry points to consider
          Chains,       \* values of --chain; "file" stands for a path
          FileIds,      \* ids of specifications in files; "bad" does not parse
          Builds        \* whether the build has the feature "parachain"

ASSUME NodeAssumption ==
    /\ Commands \subseteq {"node", "base", "io", "browser"}
    /\ Chains \subseteq {"", "dev", "ipci", "parachain", "file"}
    /\ FileIds \subseteq {"dev", "ipci", "robonomics", "other", "bad"}
    /\ Builds \subseteq BOOLEAN

VARIABLES conf,     \* command line and configuration, fixed
          spec,     \* id of the loaded specification
          todo,     \* stages still to be built
          result,   \* "new", "starting", "running", "done", "err", "panic", "stopped"
          runtime,  \* runtime the service was instantiated with
          net,      \* "none", "built", "started"
          tasks,    \* running tasks
          essential,\* tasks whose end the task manager reports
          dead      \* tasks that ended

nvars == <<conf, spec, todo, result, runtime, net, tasks, essential, dead>>

\* The validator flag makes the role an authority, as --dev and --alice do.
NodeInit ==
    /\ conf \in [parachain : Builds, cmd : Commands, chain : Chains,
                 file : FileIds, role : {"Full", "Light", "Authority", "Sentry"},
                 validator : BOOLEAN, offchain : BOOLEAN, grandpa : BOOLEAN]
    /\ conf.validator => conf.role = "Authority"
    /\ conf.cmd = "browser" => conf.chain = "file" /\ conf.role = "Light"
    /\ spec = "none" /\ todo = <<>> /\ result = "new" /\ runtime = "none" /\ net = "none"
    /\ tasks = {} /\ essential = {} /\ dead = {}

-----------------------------------------------------------------------------
\* load_spec: what is no known name is the path of a file, the default chain
\* included in a build without parachains.
Loaded(chain, file) ==
    IF chain \in {"dev", "ipci"} THEN chain
    ELSE IF chain = "file" THEN file
    ELSE IF conf.parachain THEN "robonomics" ELSE "bad"

LoadSpec ==
    /\ result = "new" /\ spec = "none"
    /\ LET s == Loaded(conf.chain, conf.file)
       IN  IF s = "bad"
           THEN result' = "err" /\ UNCHANGED spec
           ELSE spec' = s /\ UNCHANGED result
    /\ UNCHANGED <<conf, todo, runtime, net, tasks, essential, dead>>

Family(id) == IF id = "ipci" THEN "DaoIpci"
              ELSE IF id = "robonomics" /\ conf.parachain THEN "Parachain"
              ELSE IF id = "dev" THEN "Development"
              ELSE "Unknown"

PartialStages == <<"parts", "pool", "grandpa_import", "babe_import", "import_queue", "rpc">>

\* Mutant: the network starts as soon as it is built, as in new_light_base.
NewFullEager == PartialStages \o <<"network", "start", "offchain", "spawn", "babe",
                                   "discovery", "voter">>

NewFull == PartialStages \o <<"network", "offchain", "spawn", "babe", "discovery",
                              "voter", "start">>

NewLight == <<"parts", "pool", "grandpa_import", "babe_import", "import_queue", "network",
              "start", "offchain", "rpc", "spawn">>
Collator == <<"relay", "parts", "pool", "import_queue", "network", "spawn", "collate",
              "start">>
ParachainPartial == <<"parts", "pool", "import_queue">>

\* native_runtime_version, which panics for an unknown family.
NativeRuntimeVersion(family) ==
    IF family = "DaoIpci" THEN "ipci_runtime"
    ELSE IF family = "Development" THEN "robonomics_runtime"
    ELSE IF family = "Parachain" THEN "parachain_runtime"
    ELSE "panic"

\* The runtime of the service that run() names for a family.
Runtime(family) == IF family = "DaoIpci" THEN "ipci_runtime"
                   ELSE IF family = "Parachain" THEN "parachain_runtime"
                   ELSE "robonomics_runtime"

Begin(plan, rt) == todo' = plan /\ runtime' = rt /\ result' = "starting"
Conclude(how) == result' = how /\ UNCHANGED <<todo, runtime>>

\* run_node_until_exit prints the native version before the service is built.
RunUntilExit(family, plan) ==
    IF NativeRuntimeVersion(family) = "panic"
    THEN Conclude("panic")
    ELSE Begin(plan, Runtime(family))

\* Mutant: what is no other family is taken for the development chain.
RunNodeOther(family) ==
    IF family = "Parachain" /\ conf.role = "Light"
    THEN Conclude("err")
    ELSE RunUntilExit(family, IF family = "Parachain" THEN Collator
                              ELSE IF conf.role = "Light" THEN NewLight ELSE NewFull)

\* No subcommand.
RunNode(family) ==
    IF family = "Unknown" \/ (family = "Parachain" /\ conf.role = "Light")
    THEN Conclude("err")
    ELSE RunUntilExit(family, IF family = "Parachain" THEN Collator
                              ELSE IF conf.role = "Light" THEN NewLight ELSE NewFull)

\* Subcommands of sc_cli work on the partial components.
RunBase(family) ==
    IF family = "Unknown"
    THEN Conclude("err")
    ELSE Begin(IF family = "Parachain" THEN ParachainPartial ELSE PartialStages,
               Runtime(family))

\* The I/O commands need no service.
RunSync ==
    /\ result' \in {"done", "err"}
    /\ UNCHANGED <<todo, runtime>>

\* start_inner of the browser bundle: a light client of the IPCI chain.
RunBrowser(family) ==
    IF family = "DaoIpci" THEN Begin(NewLight, Runtime(family)) ELSE Conclude("panic")

Dispatch ==
    /\ result = "new" /\ spec # "none"
    /\ LET family == Family(spec)
       IN  \/ conf.cmd = "node" /\ RunNode(family)
           \/ conf.cmd = "base" /\ RunBase(family)
           \/ conf.cmd = "io" /\ RunSync
           \/ conf.cmd = "browser" /\ RunBrowser(family)
    /\ UNCHANGED <<conf, spec, net, tasks, essential, dead>>

-----------------------------------------------------------------------------
At(stage) == result = "starting" /\ todo # <<>> /\ Head(todo) = stage

\* A stage that fails with "?": the task manager is dropped, and its tasks with it.
Fails == /\ result' = "err" /\ todo' = <<>> /\ tasks' = {} /\ net' = "none"
         /\ UNCHANGED <<conf, spec, runtime, essential, dead>>

Built(spawned) == /\ todo' = Tail(todo) /\ tasks' = tasks \cup spawned
                  /\ UNCHANGED <<conf, spec, result, runtime, dead>>

Authority == conf.role = "Authority"

\* new_full_parts or new_light_parts, the pool, the block imports, the import queue
\* and the extensions of the RPC: new_partial and the beginning of new_light_base.
NewPartial ==
    \E stage \in {"parts", "pool", "grandpa_import", "babe_import", "import_queue", "rpc"} :
        /\ At(stage)
        /\ \/ /\ Built(IF stage = "import_queue" THEN {"import-queue"} ELSE {})
              /\ UNCHANGED <<net, essential>>
           \/ stage \notin {"pool", "rpc"} /\ Fails

BuildNetwork ==
    /\ At("network")
    /\ \/ Built({"network-worker"}) /\ net' = "built" /\ UNCHANGED essential
       \/ Fails

OffchainWorkers ==
    /\ At("offchain")
    /\ Built(IF conf.offchain THEN {"offchain-worker"} ELSE {})
    /\ UNCHANGED <<net, essential>>

SpawnTasks ==
    /\ At("spawn")
    /\ \/ Built({"rpc-server"}) /\ UNCHANGED <<net, essential>>
       \/ Fails

\* Mutant: the proposer is an ordinary task.
StartBabePlain ==
    /\ At("babe")
    /\ \/ /\ Built(IF Authority THEN {"babe-proposer"} ELSE {})
          /\ UNCHANGED <<net, essential>>
       \/ Authority /\ Fails

StartBabe ==
    /\ At("babe")
    /\ LET babe == IF Authority THEN {"babe-proposer"} ELSE {}
       IN  \/ /\ Built(babe) /\ essential' = essential \cup babe
              /\ UNCHANGED net
           \/ Authority /\ Fails

\* An authority publishes its addresses and a sentry looks them up.
AuthorityDiscovery ==
    /\ At("discovery")
    /\ LET task == IF conf.role \in {"Authority", "Sentry"} THEN {"authority-discovery"}
                   ELSE {}
       IN  Built(task)
    /\ UNCHANGED <<net, essential>>

\* The full voter, which without keys observes only, or GRANDPA disabled.
GrandpaVoter ==
    /\ At("voter")
    /\ LET voter == IF conf.grandpa THEN {"grandpa-voter"} ELSE {}
       IN  \/ /\ Built(voter) /\ essential' = essential \cup voter
              /\ UNCHANGED net
           \/ Fails

StartNetwork ==
    /\ At("start")
    /\ Built({}) /\ net' = "started"
    /\ UNCHANGED essential

\* parachain::command::run: the relay chain's command line is parsed and its
\* configuration made; which relay chain and parachain these are is left out.
RelayConfig ==
    /\ At("relay")
    /\ \/ Built({}) /\ UNCHANGED <<net, essential>>
       \/ Fails

\* start_collator with the validator flag, start_full_node without.
Collate ==
    /\ At("collate")
    /\ LET relay == {IF conf.validator THEN "collator" ELSE "relay-full-node"}
       IN  \/ /\ Built(relay) /\ essential' = essential \cup relay
              /\ UNCHANGED net
           \/ Fails

\* The service is complete.  A base subcommand then runs to its end.
Ready ==
    /\ result = "starting" /\ todo = <<>>
    /\ IF conf.cmd = "base"
       THEN result' = "done" /\ tasks' = {}
       ELSE result' = "running" /\ UNCHANGED tasks
    /\ UNCHANGED <<conf, spec, todo, runtime, net, essential, dead>>

\* A task ends, at any time after it was spawned.
TaskEnds(t) ==
    /\ t \in tasks
    /\ tasks' = tasks \ {t} /\ dead' = dead \cup {t}
    /\ UNCHANGED <<conf, spec, todo, result, runtime, net, essential>>

\* run_node_until_exit: the end of an essential task ends the node.
Supervise ==
    /\ result = "running" /\ dead \cap essential # {}
    /\ result' = "stopped" /\ tasks' = {} /\ net' = "none"
    /\ UNCHANGED <<conf, spec, todo, runtime, essential, dead>>

Stage == \/ NewPartial \/ BuildNetwork \/ OffchainWorkers \/ SpawnTasks \/ StartBabe
         \/ AuthorityDiscovery \/ GrandpaVoter \/ StartNetwork \/ RelayConfig \/ Collate

Consensus == {"babe-proposer", "grandpa-voter", "collator", "relay-full-node"}

NodeNext == LoadSpec \/ Dispatch \/ Stage \/ Ready \/ Supervise
            \/ \E t \in Consensus \cup {"authority-discovery"} : TaskEnds(t)

\* The main thread goes on.
NodeSpec == /\ NodeInit /\ [][NodeNext]_nvars
            /\ WF_nvars(LoadSpec) /\ WF_nvars(Dispatch) /\ WF_nvars(Stage)
            /\ WF_nvars(Ready) /\ WF_nvars(Supervise)

-----------------------------------------------------------------------------
\* The role decides what runs.  When the network of a full node or a collator starts,
\* the tasks that its role and options call for have all been spawned, so that peers
\* meet a complete node (new_full_base and run_node start it last); a light node, whose
\* network starts early, spawns no consensus task at all.
RoleDecidesTasks ==
    /\ net = "started" /\ conf.role # "Light" =>
        LET expected == IF runtime = "parachain_runtime"
                        THEN {IF conf.validator THEN "collator" ELSE "relay-full-node"}
                        ELSE (IF Authority THEN {"babe-proposer"} ELSE {})
                             \cup (IF conf.grandpa THEN {"grandpa-voter"} ELSE {})
                             \cup (IF conf.offchain THEN {"offchain-worker"} ELSE {})
                             \cup (IF conf.role \in {"Authority", "Sentry"}
                                   THEN {"authority-discovery"} ELSE {})
        IN  {"rpc-server", "import-queue"} \cup expected \subseteq tasks \cup dead
    /\ conf.role = "Light" => tasks \cap Consensus = {}

\* "If it fails we take down the service with it": the end of a consensus task, also
\* of one that ends while the service is still being built, ends the node.
ConsensusFailureEndsNode ==
    \A t \in Consensus : (t \in dead) ~> (result \in {"stopped", "err"})

\* Every combination of build, command, chain, role and options for which there is a
\* chain specification comes to an answer, whatever fails on the way: an error, the
\* end of the command, or a node that runs, on the runtime native_runtime_version
\* names (it and run match on the family each for itself).  A panic is left to the
\* browser bundle.
StartSettles ==
    (result = "new" /\ spec # "none") ~>
        \/ result = "err"
        \/ result = "done" /\ conf.cmd = "io"
        \/ result \in {"running", "done"} /\ runtime = NativeRuntimeVersion(Family(spec))
        \/ result = "panic" /\ conf.cmd = "browser"

=============================================================================
