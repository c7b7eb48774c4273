----------------------------- MODULE NodeProofs -----------------------------
(***************************************************************************)
(* Proofs about the node's process and the computations around it: which   *)
(* tasks a command line leads to, the vanity search, the weights of an     *)
(* election and the lifetime of a worker's transaction.                    *)
(***************************************************************************)
EXTENDS NodeStartup, Vanity, Votes, TxEra, WellFoundedInduction, TLAPS

\* A leaf is for Zenon unless it names another prover.
USE ZenonT(60)

-----------------------------------------------------------------------------
(* The start of the node.                                                  *)

\* A stage of the plan that is still to be built.
Left(s) == \E i \in DOMAIN todo : todo[i] = s

StageNames == {"parts", "pool", "grandpa_import", "babe_import", "import_queue", "rpc", "network",
               "offchain", "spawn", "babe", "discovery", "voter", "start", "relay", "collate"}

\* The elements of a plan that is put together from two.
LEMMA JoinedPlan ==
    ASSUME NEW S, NEW s \in Seq(S), NEW t \in Seq(S)
    PROVE  /\ s \o t \in Seq(S) /\ Len(s \o t) = Len(s) + Len(t)
           /\ \A i \in 1 .. Len(s) + Len(t) : (s \o t)[i] =
                  IF i <= Len(s) THEN s[i] ELSE t[i - Len(s)]
BY SMTT(60)

\* The stages of the plans.
LEMMA Plans ==
    /\ \A p \in {NewFull, NewLight, Collator, PartialStages, ParachainPartial} : p \in Seq(StageNames)
    /\ \A i \in DOMAIN NewFull : /\ NewFull[i] \notin {"relay", "collate"}
                                 /\ NewFull[i] = "start" => i = Len(NewFull)
    /\ \A s \in {"import_queue", "offchain", "spawn", "babe", "discovery", "voter"} :
           \E i \in DOMAIN NewFull : NewFull[i] = s
    /\ \A i \in DOMAIN NewLight : NewLight[i] \notin {"relay", "babe", "voter", "collate"}
    /\ \A i \in DOMAIN Collator : Collator[i] = "start" => i = Len(Collator)
    /\ \A s \in {"import_queue", "spawn", "collate"} : \E i \in DOMAIN Collator : Collator[i] = s
    /\ \A i \in DOMAIN PartialStages :
           PartialStages[i] \notin {"relay", "babe", "voter", "collate", "start"}
    /\ \A i \in DOMAIN ParachainPartial :
           ParachainPartial[i] \notin {"relay", "babe", "voter", "collate", "start"}
<1> DEFINE Rest == <<"network", "offchain", "spawn", "babe", "discovery", "voter", "start">>
<1>1. /\ PartialStages \in Seq(StageNames) /\ Len(PartialStages) = 6
      /\ PartialStages[1] = "parts" /\ PartialStages[2] = "pool"
      /\ PartialStages[3] = "grandpa_import" /\ PartialStages[4] = "babe_import"
      /\ PartialStages[5] = "import_queue" /\ PartialStages[6] = "rpc"
  BY SMTT(60) DEF PartialStages, StageNames
<1>2. /\ Rest \in Seq(StageNames) /\ Len(Rest) = 7
      /\ Rest[1] = "network" /\ Rest[2] = "offchain" /\ Rest[3] = "spawn" /\ Rest[4] = "babe"
      /\ Rest[5] = "discovery" /\ Rest[6] = "voter" /\ Rest[7] = "start"
  BY SMTT(60) DEF StageNames
<1>3. NewFull = PartialStages \o Rest
  BY DEF NewFull
<1> HIDE DEF Rest
<1>4. /\ NewFull \in Seq(StageNames) /\ Len(NewFull) = 13
      /\ \A i \in 1 .. 13 : NewFull[i] = IF i <= 6 THEN PartialStages[i] ELSE Rest[i - 6]
  <2>1. PartialStages \in Seq(StageNames) /\ Rest \in Seq(StageNames)
    BY <1>1, <1>2
  <2>2. /\ PartialStages \o Rest \in Seq(StageNames)
        /\ Len(PartialStages \o Rest) = Len(PartialStages) + Len(Rest)
        /\ \A i \in 1 .. Len(PartialStages) + Len(Rest) : (PartialStages \o Rest)[i] =
               IF i <= Len(PartialStages) THEN PartialStages[i] ELSE Rest[i - Len(PartialStages)]
    BY <2>1, JoinedPlan
  <2>3. Len(PartialStages) = 6 /\ Len(Rest) = 7
    BY <1>1, <1>2
  <2>4. NewFull \in Seq(StageNames) /\ Len(NewFull) = 13
    BY SMTT(60), <1>3, <2>2, <2>3
  <2>5. ASSUME NEW i \in 1 .. 13
        PROVE  NewFull[i] = IF i <= 6 THEN PartialStages[i] ELSE Rest[i - 6]
    <3>1. i \in 1 .. Len(PartialStages) + Len(Rest)
      BY SMTT(60), <2>3
    <3>2. NewFull[i] = IF i <= Len(PartialStages) THEN PartialStages[i]
                       ELSE Rest[i - Len(PartialStages)]
      BY <1>3, <2>2, <3>1
    <3> QED  BY <2>3, <3>2
  <2> QED  BY <2>4, <2>5
<1>5. /\ \A i \in 1 .. 6 : NewFull[i] = PartialStages[i]
      /\ NewFull[7] = "network" /\ NewFull[8] = "offchain" /\ NewFull[9] = "spawn"
      /\ NewFull[10] = "babe" /\ NewFull[11] = "discovery" /\ NewFull[12] = "voter"
      /\ NewFull[13] = "start"
  BY SMTT(60), <1>2, <1>4
<1>6. DOMAIN NewFull = 1 .. 13 /\ DOMAIN PartialStages = 1 .. 6
  BY SMTT(60), <1>1, <1>4
<1>7. \A i \in DOMAIN NewFull : /\ NewFull[i] \notin {"relay", "collate"}
                                /\ NewFull[i] = "start" => i = Len(NewFull)
  <2> SUFFICES ASSUME NEW i \in 1 .. 13
               PROVE  /\ NewFull[i] \notin {"relay", "collate"}
                      /\ NewFull[i] = "start" => i = 13
    BY <1>4, <1>6
  <2> QED  BY SMTT(60), <1>1, <1>5
<1>8. \A s \in {"import_queue", "offchain", "spawn", "babe", "discovery", "voter"} :
          \E i \in DOMAIN NewFull : NewFull[i] = s
  <2>1. \A i \in {5, 8, 9, 10, 11, 12} : i \in DOMAIN NewFull
    BY SMTT(60), <1>6
  <2>2. NewFull[5] = "import_queue"
    BY SMTT(60), <1>1, <1>5
  <2> QED  BY <1>5, <2>1, <2>2
<1>9. \A i \in DOMAIN PartialStages :
          PartialStages[i] \notin {"relay", "babe", "voter", "collate", "start"}
  BY SMTT(60), <1>1, <1>6
<1>10. /\ NewLight \in Seq(StageNames)
       /\ \A i \in DOMAIN NewLight : NewLight[i] \notin {"relay", "babe", "voter", "collate"}
  BY SMTT(60) DEF NewLight, StageNames
<1>11. /\ Collator \in Seq(StageNames) /\ Len(Collator) = 8 /\ DOMAIN Collator = 1 .. 8
       /\ \A i \in DOMAIN Collator : Collator[i] = "start" => i = Len(Collator)
       /\ Collator[4] = "import_queue" /\ Collator[6] = "spawn" /\ Collator[7] = "collate"
  BY SMTT(60) DEF Collator, StageNames
<1>12. \A s \in {"import_queue", "spawn", "collate"} : \E i \in DOMAIN Collator : Collator[i] = s
  BY SMTT(60), <1>11
<1>13. /\ ParachainPartial \in Seq(StageNames)
       /\ \A i \in DOMAIN ParachainPartial :
              ParachainPartial[i] \notin {"relay", "babe", "voter", "collate", "start"}
  BY SMTT(60) DEF ParachainPartial, StageNames
<1> QED  BY <1>1, <1>4, <1>7, <1>8, <1>9, <1>10, <1>11, <1>12, <1>13

StartLast == \A i \in DOMAIN todo : todo[i] = "start" => i = Len(todo)

\* A stage is taken off the plan.
LEMMA StageTaken ==
    ASSUME todo \in Seq(StageNames), todo # <<>>, todo' = Tail(todo)
    PROVE  /\ todo' \in Seq(StageNames)
           /\ \A s : Left(s)' => Left(s)
           /\ \A s : Left(s) /\ s # Head(todo) => Left(s)'
           /\ StartLast => StartLast'
           /\ StartLast /\ Head(todo) = "start" => todo' = <<>>
           /\ Left(Head(todo))
<1>1. /\ Len(todo) \in Nat \ {0} /\ DOMAIN todo = 1 .. Len(todo) /\ Head(todo) = todo[1]
      /\ Len(todo') = Len(todo) - 1 /\ DOMAIN todo' = 1 .. Len(todo) - 1
      /\ \A i \in 1 .. Len(todo) - 1 : todo'[i] = todo[i + 1]
      /\ todo' \in Seq(StageNames)
  BY SMTT(60)
<1>2. ASSUME NEW i \in DOMAIN todo'  PROVE i + 1 \in DOMAIN todo /\ todo'[i] = todo[i + 1]
  BY SMTT(60), <1>1
<1>3. ASSUME NEW i \in DOMAIN todo, i # 1
      PROVE  i - 1 \in DOMAIN todo' /\ todo'[i - 1] = todo[i]
  BY SMTT(60), <1>1, <1>3
<1>4. \A s : Left(s)' => Left(s)
  BY <1>2 DEF Left
<1>5. ASSUME NEW s, Left(s), s # Head(todo)  PROVE Left(s)'
  <2>1. PICK i \in DOMAIN todo : todo[i] = s
    BY <1>5 DEF Left
  <2>2. i # 1
    BY <1>1, <1>5, <2>1
  <2> QED  BY <1>3, <2>1, <2>2 DEF Left
<1>6. StartLast => StartLast'
  BY SMTT(60), <1>1, <1>2 DEF StartLast
<1>7. StartLast /\ Head(todo) = "start" => todo' = <<>>
  <2> SUFFICES ASSUME StartLast, Head(todo) = "start"  PROVE todo' = <<>>
    OBVIOUS
  <2>1. Len(todo) = 1
    BY SMTT(60), <1>1 DEF StartLast
  <2> QED  BY SMTT(60), <1>1, <2>1
<1>8. Left(Head(todo))
  BY SMTT(60), <1>1 DEF Left
<1> QED  BY <1>1, <1>4, <1>5, <1>6, <1>7, <1>8

\* What a stage that is built does: the tasks it spawns, and what it leaves alone.
StageBuilt(s) ==
    /\ At(s)
    /\ todo' = Tail(todo)
    /\ UNCHANGED <<conf, spec, result, runtime, dead>>
    /\ tasks \subseteq tasks'
    /\ s = "import_queue" => "import-queue" \in tasks'
    /\ s = "spawn" => "rpc-server" \in tasks'
    /\ s = "offchain" /\ conf.offchain => "offchain-worker" \in tasks'
    /\ s = "discovery" /\ conf.role \in {"Authority", "Sentry"} => "authority-discovery" \in tasks'
    /\ s = "babe" /\ Authority => "babe-proposer" \in tasks'
    /\ s = "voter" /\ conf.grandpa => "grandpa-voter" \in tasks'
    /\ s = "collate" => (IF conf.validator THEN "collator" ELSE "relay-full-node") \in tasks'
    /\ tasks' \cap Consensus # tasks \cap Consensus =>
         (s = "babe" /\ Authority) \/ s = "voter" \/ s = "collate"
    /\ net' = "started" => s = "start" \/ net = "started"

\* A stage of the construction fails, or one of the named parts is built.
LEMMA StageShape ==
    ASSUME Stage
    PROVE  Fails \/ \E s \in StageNames : StageBuilt(s)
<1> USE DEF StageBuilt, Built, StageNames, Consensus
<1>1. CASE NewPartial
  BY <1>1 DEF NewPartial
<1>2. CASE BuildNetwork
  BY <1>2 DEF BuildNetwork
<1>3. CASE OffchainWorkers
  BY <1>3 DEF OffchainWorkers
<1>4. CASE SpawnTasks
  BY <1>4 DEF SpawnTasks
<1>5. CASE StartBabe
  BY <1>5 DEF StartBabe
<1>6. CASE AuthorityDiscovery
  BY <1>6 DEF AuthorityDiscovery
<1>7. CASE GrandpaVoter
  BY <1>7 DEF GrandpaVoter
<1>8. CASE StartNetwork
  BY <1>8 DEF StartNetwork
<1>9. CASE RelayConfig
  BY <1>9 DEF RelayConfig
<1>10. CASE Collate
  BY <1>10 DEF Collate
<1> QED
  BY <1>1, <1>2, <1>3, <1>4, <1>5, <1>6, <1>7, <1>8, <1>9, <1>10 DEF Stage

\* Where the start is: what is left of the plan fits the command, the role and what
\* has happened to the network.
PlanOK ==
    /\ todo \in Seq(StageNames)
    /\ result = "new" => net = "none" /\ tasks = {}
    /\ result # "starting" => todo = <<>>
    /\ net = "started" => result \in {"starting", "running"}
    /\ conf.cmd = "base" => net # "started" /\ ~Left("start")
    /\ conf.cmd = "browser" => conf.role = "Light"
    /\ result \in {"starting", "running"} => conf.cmd \notin {"io"}
    /\ conf.role # "Light" => StartLast /\ (net = "started" => todo = <<>>)
    /\ conf.role = "Light" => /\ ~Left("voter") /\ ~Left("collate")
                              /\ tasks \cap Consensus = {}

\* A stage that is no longer left has been built, and its tasks were spawned.
Spawned(t) == t \in tasks \cup dead

WorkOK ==
    result \in {"starting", "running"} /\ conf.cmd = "node" /\ conf.role # "Light" =>
        /\ Left("import_queue") \/ Spawned("import-queue")
        /\ Left("spawn") \/ Spawned("rpc-server")
        /\ runtime = "parachain_runtime" =>
             Left("collate") \/ Spawned(IF conf.validator THEN "collator" ELSE "relay-full-node")
        /\ runtime # "parachain_runtime" =>
             /\ conf.offchain => Left("offchain") \/ Spawned("offchain-worker")
             /\ conf.role \in {"Authority", "Sentry"} =>
                  Left("discovery") \/ Spawned("authority-discovery")
             /\ Authority => Left("babe") \/ Spawned("babe-proposer")
             /\ conf.grandpa => Left("voter") \/ Spawned("grandpa-voter")

StartOK == /\ PlanOK /\ WorkOK
           /\ conf.cmd \in {"node", "base", "io", "browser"}

\* Nothing is built at the start.
LEMMA StartInit ==
    ASSUME NodeInit
    PROVE  StartOK
<1>1. /\ todo = <<>> /\ result = "new" /\ net = "none" /\ tasks = {}
      /\ (conf.cmd = "browser" => conf.role = "Light")
      /\ conf.cmd \in {"node", "base", "io", "browser"}
  BY NodeAssumption DEF NodeInit
<1>2. \A s : ~Left(s)
  BY SMTT(60), <1>1 DEF Left
<1> QED  BY SMTT(60), <1>1, <1>2 DEF StartOK, PlanOK, WorkOK, StartLast

\* The plan a service begins with.
LEMMA Begun ==
    ASSUME NEW p, todo' = p
    PROVE  \A s : Left(s)' <=> \E i \in DOMAIN p : p[i] = s
BY DEF Left

\* A command line that is dispatched finds nothing built.
Dispatched ==
    /\ result = "new" /\ todo = <<>> /\ net = "none" /\ tasks = {}
    /\ (conf.cmd = "browser" => conf.role = "Light")
    /\ UNCHANGED <<conf, net, tasks, dead>>
    /\ conf.cmd \in {"node", "base", "io", "browser"}

\* A command that is refused, or that runs to its end, builds nothing.
LEMMA DispatchEnds ==
    ASSUME Dispatched, NEW how \in {"err", "panic", "done"}, result' = how, todo' = todo
    PROVE  StartOK'
<1>1. \A s : ~Left(s)'
  BY SMTT(60) DEF Left, Dispatched
<1>2. PlanOK'
  BY SMTT(60), <1>1 DEF PlanOK, StartLast, Dispatched
<1>3. WorkOK'
  BY SMTT(60) DEF WorkOK
<1> QED  BY <1>2, <1>3 DEF StartOK, Dispatched

\* A stage of a plan.
In(s, p) == \E i \in DOMAIN p : p[i] = s

\* A service begins with a plan that fits the command, the role and the chain.
LEMMA DispatchBegins ==
    ASSUME Dispatched, NEW family, family # "Unknown",
           NEW p \in Seq(StageNames), Begin(p, Runtime(family)),
           conf.cmd \in {"node", "base", "browser"},
           conf.cmd = "base" => ~In("start", p),
           conf.role # "Light" => \A i \in DOMAIN p : p[i] = "start" => i = Len(p),
           conf.role = "Light" => ~In("voter", p) /\ ~In("collate", p),
           conf.cmd = "node" /\ conf.role # "Light" =>
               /\ In("import_queue", p) /\ In("spawn", p)
               /\ family = "Parachain" => In("collate", p)
               /\ family # "Parachain" => In("offchain", p) /\ In("babe", p) /\ In("discovery", p) /\ In("voter", p)
    PROVE  StartOK'
<1>1. todo' = p /\ runtime' = Runtime(family) /\ result' = "starting"
  BY DEF Begin
<1>2. \A s : Left(s)' <=> In(s, p)
  BY <1>1, Begun DEF In
<1>3. conf.role # "Light" => StartLast'
  BY <1>1 DEF StartLast, Dispatched
<1>4. PlanOK'
  BY <1>1, <1>2, <1>3 DEF PlanOK, Dispatched
<1>5. runtime' = "parachain_runtime" <=> family = "Parachain"
  BY <1>1 DEF Runtime
<1>6. WorkOK'
  BY <1>2, <1>5 DEF WorkOK, Dispatched
<1> QED  BY <1>4, <1>6 DEF StartOK, Dispatched

\* The command line chooses a chain and a kind of service.
LEMMA StartDispatch ==
    ASSUME StartOK, Dispatch
    PROVE  StartOK'
<1> DEFINE family == Family(spec)
<1>1. Dispatched
  BY DEF StartOK, PlanOK, Dispatch, Dispatched
<1>2. conf.cmd = "browser" => conf.role = "Light"
  BY <1>1 DEF Dispatched
<1>3. ASSUME NEW how \in {"err", "panic", "done"}, result' = how, todo' = todo
      PROVE  StartOK'
  BY <1>1, <1>3, DispatchEnds
<1>4. ASSUME NEW p \in Seq(StageNames), Begin(p, Runtime(family)), family # "Unknown",
             conf.cmd \in {"node", "base", "browser"},
             conf.cmd = "base" => ~In("start", p),
             conf.role # "Light" => \A i \in DOMAIN p : p[i] = "start" => i = Len(p),
             conf.role = "Light" => ~In("voter", p) /\ ~In("collate", p),
               conf.cmd = "node" /\ conf.role # "Light" =>
                 /\ In("import_queue", p) /\ In("spawn", p)
                 /\ family = "Parachain" => In("collate", p)
                 /\ family # "Parachain" => In("offchain", p) /\ In("babe", p) /\ In("discovery", p) /\ In("voter", p)
      PROVE  StartOK'
  BY <1>1, <1>4, DispatchBegins
<1> USE DEF Conclude, In
<1>5. CASE conf.cmd = "node" /\ RunNode(family)
  <2>1. CASE family = "Unknown" \/ (family = "Parachain" /\ conf.role = "Light")
    BY <1>3, <1>5, <2>1 DEF RunNode
  <2>2. CASE family = "Parachain" /\ conf.role # "Light"
    <3>1. Begin(Collator, Runtime(family))
      BY <1>5, <2>2 DEF RunNode, RunUntilExit, NativeRuntimeVersion, Family
    <3> QED  BY <1>4, <1>5, <2>2, <3>1, Plans
  <2>3. CASE family \notin {"Unknown", "Parachain"} /\ conf.role = "Light"
    <3>1. Begin(NewLight, Runtime(family))
      BY <1>5, <2>3 DEF RunNode, RunUntilExit, NativeRuntimeVersion, Family
    <3> QED  BY <1>4, <1>5, <2>3, <3>1, Plans
  <2>4. CASE family \notin {"Unknown", "Parachain"} /\ conf.role # "Light"
    <3>1. Begin(NewFull, Runtime(family))
      BY <1>5, <2>4 DEF RunNode, RunUntilExit, NativeRuntimeVersion, Family
    <3> QED  BY <1>4, <1>5, <2>4, <3>1, Plans
  <2> QED  BY <2>1, <2>2, <2>3, <2>4
<1>6. CASE conf.cmd = "base" /\ RunBase(family)
  <2>1. CASE family = "Unknown"
    BY <1>3, <1>6, <2>1 DEF RunBase
  <2>2. CASE family = "Parachain"
    <3>1. Begin(ParachainPartial, Runtime(family))
      BY <1>6, <2>2 DEF RunBase
    <3> QED  BY <1>4, <1>6, <2>2, <3>1, Plans
  <2>3. CASE family \notin {"Unknown", "Parachain"}
    <3>1. Begin(PartialStages, Runtime(family))
      BY <1>6, <2>3 DEF RunBase
    <3> QED  BY <1>4, <1>6, <2>3, <3>1, Plans
  <2> QED  BY <2>1, <2>2, <2>3
<1>7. CASE conf.cmd = "io" /\ RunSync
  BY <1>3, <1>7 DEF RunSync
<1>8. CASE conf.cmd = "browser" /\ RunBrowser(family)
  <2>1. CASE family # "DaoIpci"
    BY <1>3, <1>8, <2>1 DEF RunBrowser
  <2>2. CASE family = "DaoIpci"
    <3>1. Begin(NewLight, Runtime(family))
      BY <1>8, <2>2 DEF RunBrowser
    <3> QED  BY <1>2, <1>4, <1>8, <2>2, <3>1, Plans
  <2> QED  BY <2>1, <2>2
<1> QED  BY <1>5, <1>6, <1>7, <1>8 DEF Dispatch

\* What a built part changes of the plan.
LEMMA StagePlanned ==
    ASSUME PlanOK, NEW s \in StageNames, StageBuilt(s)
    PROVE  /\ result = "starting" /\ UNCHANGED <<conf, spec, result, runtime, dead>>
           /\ todo' \in Seq(StageNames)
           /\ \A x : Left(x)' => Left(x)
           /\ \A x : Left(x) /\ x # s => Left(x)'
           /\ StartLast => StartLast'
           /\ StartLast /\ s = "start" => todo' = <<>>
           /\ Left(s)
<1>1. /\ result = "starting" /\ todo # <<>> /\ Head(todo) = s /\ todo' = Tail(todo)
      /\ todo \in Seq(StageNames)
      /\ UNCHANGED <<conf, spec, result, runtime, dead>>
  BY DEF StageBuilt, At, PlanOK
<1> QED  BY <1>1, StageTaken

\* A built part keeps the order of the plan.
LEMMA StagePlan ==
    ASSUME PlanOK, NEW s \in StageNames, StageBuilt(s)
    PROVE  PlanOK'
<1>1. /\ result = "starting" /\ UNCHANGED <<conf, spec, result, runtime, dead>>
      /\ todo' \in Seq(StageNames)
      /\ \A x : Left(x)' => Left(x)
      /\ StartLast => StartLast'
      /\ StartLast /\ s = "start" => todo' = <<>>
      /\ Left(s)
  BY StagePlanned
<1>2. todo = <<>> => todo' = <<>>
  BY SMTT(60), <1>1 DEF Left
<1>3. conf.cmd = "base" => net' # "started" /\ ~Left("start")'
  BY <1>1 DEF PlanOK, StageBuilt
<1>4. conf.role # "Light" => StartLast' /\ (net' = "started" => todo' = <<>>)
  BY <1>1, <1>2 DEF PlanOK, StageBuilt
<1>5. conf.role = "Light" => ~Left("voter")' /\ ~Left("collate")'
  BY <1>1 DEF PlanOK
<1>6. conf.role = "Light" => tasks' \cap Consensus = {}
  BY <1>1 DEF PlanOK, StageBuilt, Authority
<1> QED  BY <1>1, <1>3, <1>4, <1>5, <1>6 DEF PlanOK

\* A built part that leaves the plan has spawned its task.
LEMMA StageWork ==
    ASSUME PlanOK, WorkOK, NEW s \in StageNames, StageBuilt(s)
    PROVE  WorkOK'
<1>1. /\ result = "starting" /\ UNCHANGED <<conf, spec, result, runtime, dead>>
      /\ \A x : Left(x) => x = s \/ Left(x)'
  BY StagePlanned
<1>2. \A t : Spawned(t) => Spawned(t)'
  BY <1>1 DEF Spawned, StageBuilt
<1>3. /\ s = "import_queue" => Spawned("import-queue")'
      /\ s = "spawn" => Spawned("rpc-server")'
      /\ s = "offchain" /\ conf.offchain => Spawned("offchain-worker")'
      /\ s = "discovery" /\ conf.role \in {"Authority", "Sentry"} => Spawned("authority-discovery")'
      /\ s = "babe" /\ Authority => Spawned("babe-proposer")'
      /\ s = "voter" /\ conf.grandpa => Spawned("grandpa-voter")'
      /\ s = "collate" =>
           Spawned(IF conf.validator THEN "collator" ELSE "relay-full-node")'
  BY <1>1 DEF Spawned, StageBuilt
<1>4. /\ Left("import_queue") => s = "import_queue" \/ Left("import_queue")'
      /\ Left("spawn") => s = "spawn" \/ Left("spawn")'
      /\ Left("offchain") => s = "offchain" \/ Left("offchain")'
      /\ Left("discovery") => s = "discovery" \/ Left("discovery")'
      /\ Left("babe") => s = "babe" \/ Left("babe")'
      /\ Left("voter") => s = "voter" \/ Left("voter")'
      /\ Left("collate") => s = "collate" \/ Left("collate")'
  BY <1>1
<1>5. \A t : t = (IF conf.validator THEN "collator" ELSE "relay-full-node") =>
          (Spawned(t)' <=> Spawned(IF conf.validator THEN "collator" ELSE "relay-full-node")')
  BY <1>1
<1> QED  BY <1>1, <1>2, <1>3, <1>4, <1>5 DEF WorkOK, Authority

\* A built part keeps the order of construction.
LEMMA StartStage ==
    ASSUME StartOK, NEW s \in StageNames, StageBuilt(s)
    PROVE  StartOK'
BY StagePlan, StageWork DEF StartOK, StageBuilt

\* Every step keeps the order of construction.
LEMMA StartStep ==
    ASSUME StartOK, [NodeNext]_nvars
    PROVE  StartOK'
<1>1. conf' = conf => Authority' = Authority
  BY DEF Authority
<1>2. CASE UNCHANGED nvars
  <2>1. UNCHANGED <<conf, todo, result, runtime, net, tasks, dead>>
    BY <1>2 DEF nvars
  <2>2. \A x : (Left(x)' <=> Left(x)) /\ (Spawned(x)' <=> Spawned(x))
    BY <2>1 DEF Left, Spawned
  <2>3. PlanOK'
    BY <2>1, <2>2 DEF StartOK, PlanOK, StartLast
  <2>4. WorkOK'
    BY <1>1, <2>1, <2>2 DEF StartOK, WorkOK
  <2> QED  BY <2>1, <2>3, <2>4 DEF StartOK
<1>3. CASE LoadSpec
  <2>1. /\ result = "new" /\ UNCHANGED <<conf, todo, runtime, net, tasks, dead>>
        /\ result' = "err" \/ result' = result
    BY <1>3 DEF LoadSpec
  <2>2. todo = <<>> /\ net = "none"
    BY <2>1 DEF StartOK, PlanOK
  <2>3. \A x : ~Left(x)'
    BY SMTT(60), <2>1, <2>2 DEF Left
  <2>5. PlanOK'
    BY <2>1, <2>2, <2>3 DEF StartOK, PlanOK, StartLast
  <2>6. WorkOK'
    BY <2>1 DEF WorkOK
  <2> QED  BY <2>1, <2>5, <2>6 DEF StartOK
<1>4. CASE Stage
  <2>1. CASE Fails
    <3>1. \A x : ~Left(x)'
      BY SMTT(60), <2>1 DEF Left, Fails
    <3>2. conf' = conf /\ result' = "err" /\ todo' = <<>> /\ tasks' = {} /\ net' = "none"
      BY <2>1 DEF Fails
    <3>3. PlanOK'
      BY SMTT(60), <3>1, <3>2 DEF StartOK, PlanOK, StartLast
    <3>4. WorkOK'
      BY <3>2 DEF WorkOK
    <3> QED  BY <3>2, <3>3, <3>4 DEF StartOK
  <2> QED  BY <1>4, <2>1, StageShape, StartStage
<1>5. CASE Ready
  <2>1. /\ result = "starting" /\ todo = <<>>
        /\ UNCHANGED <<conf, todo, runtime, net, dead>>
        /\ \/ conf.cmd = "base" /\ result' = "done" /\ tasks' = {}
           \/ conf.cmd # "base" /\ result' = "running" /\ tasks' = tasks
    BY <1>5 DEF Ready
  <2>2. \A x : ~Left(x)' /\ ~Left(x)
    BY SMTT(60), <2>1 DEF Left
  <2>3. PlanOK'
    BY <2>1, <2>2 DEF StartOK, PlanOK, StartLast
  <2>4. WorkOK'
    BY <1>1, <2>1, <2>2 DEF StartOK, WorkOK, Spawned
  <2> QED  BY <2>1, <2>3, <2>4 DEF StartOK
<1>6. CASE Supervise
  <2>1. \A x : Left(x)' <=> Left(x)
    BY <1>6 DEF Left, Supervise
  <2> QED
    BY <1>6, <2>1 DEF Supervise, StartOK, PlanOK, WorkOK, StartLast
<1>7. ASSUME NEW t, TaskEnds(t)  PROVE StartOK'
  <2>1. \A x : (Left(x)' <=> Left(x)) /\ (Spawned(x) => Spawned(x)')
    BY <1>7 DEF Left, Spawned, TaskEnds
  <2>2. /\ UNCHANGED <<conf, todo, result, runtime, net>>
        /\ tasks' \subseteq tasks
    BY <1>7 DEF TaskEnds
  <2>3. PlanOK'
    BY <2>1, <2>2 DEF StartOK, PlanOK, StartLast
  <2>4. WorkOK'
    BY <1>1, <2>1, <2>2 DEF StartOK, WorkOK
  <2> QED  BY <2>2, <2>3, <2>4 DEF StartOK
<1> QED  BY <1>2, <1>3, <1>4, <1>5, <1>6, <1>7, StartDispatch DEF NodeNext

\* When the network of a full node or a collator starts, all tasks its role and its
\* options call for have been spawned, and a light node spawns no consensus task, for
\* every command line and whatever fails or ends in between (new_full_base,
\* new_light_base and run_node).
THEOREM RolesDecide == NodeSpec => []RoleDecidesTasks
<1>1. NodeInit => StartOK
  BY StartInit
<1>2. StartOK /\ [NodeNext]_nvars => StartOK'
  BY StartStep
<1>3. StartOK => RoleDecidesTasks
  <2> SUFFICES ASSUME StartOK  PROVE RoleDecidesTasks
    OBVIOUS
  <2>1. ASSUME net = "started", conf.role # "Light"
        PROVE  /\ Spawned("rpc-server") /\ Spawned("import-queue")
               /\ runtime = "parachain_runtime" =>
                    Spawned(IF conf.validator THEN "collator" ELSE "relay-full-node")
               /\ runtime # "parachain_runtime" =>
                    /\ Authority => Spawned("babe-proposer")
                    /\ conf.grandpa => Spawned("grandpa-voter")
                    /\ conf.offchain => Spawned("offchain-worker")
                    /\ conf.role \in {"Authority", "Sentry"} => Spawned("authority-discovery")
    <3>1. todo = <<>> /\ result \in {"starting", "running"} /\ conf.cmd \notin {"base", "browser"}
      BY <2>1 DEF StartOK, PlanOK
    <3>2. \A x : ~Left(x)
      BY SMTT(60), <3>1 DEF Left
    <3>3. conf.cmd = "node"
      BY <3>1 DEF StartOK, PlanOK
    <3> QED  BY <2>1, <3>1, <3>2, <3>3 DEF StartOK, WorkOK
  <2>2. conf.role = "Light" => tasks \cap Consensus = {}
    BY DEF StartOK, PlanOK
  <2> QED  BY <2>1, <2>2 DEF RoleDecidesTasks, Spawned
<1> QED  BY <1>1, <1>2, <1>3, PTL DEF NodeSpec

-----------------------------------------------------------------------------
(* The vanity search.                                                      *)

\* Every set of natural numbers that is not empty has a least one.
LEMMA LeastNatural ==
    ASSUME NEW S, S \subseteq Nat, S # {}
    PROVE  \E x \in S : \A y \in S : x <= y
<1> DEFINE R == {ss \in Nat \X Nat : ss[1] < ss[2]}
<1>1. IsWellFoundedOn(R, Nat)
  BY NatLessThanWellFounded DEF OpToRel
<1>2. \A x, y \in Nat : y < x => <<y, x>> \in R
  OBVIOUS
<1> HIDE DEF R
<1>3. PICK x \in S : \A y \in S : ~(<<y, x>> \in R)
  BY <1>1, WFMin
<1>4. ASSUME NEW y \in S PROVE x <= y
  <2>1. x \in Nat /\ y \in Nat /\ ~(y < x)
    BY <1>2, <1>3
  <2> QED
    BY SMTT(60), <2>1
<1> QED
  BY <1>4

\* Every set of natural numbers that has an upper bound and is not empty has a
\* greatest one.
LEMMA GreatestNatural ==
    ASSUME NEW S, S \subseteq Nat, S # {}, NEW b \in Nat, \A x \in S : x <= b
    PROVE  \E x \in S : \A y \in S : x >= y
<1> DEFINE T == {n \in Nat : n <= b /\ b - n \in S}
<1>1. T \subseteq Nat
  OBVIOUS
<1>2. \A x \in S : b - x \in T
  <2> SUFFICES ASSUME NEW x \in S PROVE b - x \in T
    OBVIOUS
  <2>1. x \in Nat /\ x <= b
    OBVIOUS
  <2>2. b - x \in Nat /\ b - x <= b /\ b - (b - x) = x
    BY SMTT(60), <2>1
  <2> QED
    BY <2>2
<1>3. T # {}
  BY <1>2
<1>4. PICK n \in T : \A m \in T : n <= m
  BY <1>1, <1>3, LeastNatural
<1>5. n \in Nat /\ n <= b /\ b - n \in S
  OBVIOUS
<1> HIDE DEF T
<1>6. ASSUME NEW y \in S PROVE b - n >= y
  <2>1. y \in Nat /\ n <= b - y
    BY <1>2, <1>4
  <2> QED
    BY SMTT(60), <1>5, <2>1
<1> QED
  BY <1>5, <1>6

\* Max is the greatest element of a bounded set of natural numbers.
LEMMA MaxIsGreatest ==
    ASSUME NEW S, S \subseteq Nat, S # {}, NEW b \in Nat, \A x \in S : x <= b
    PROVE  Max(S) \in S /\ \A y \in S : Max(S) >= y
BY GreatestNatural DEF Max

\* Min is the least element of a set of natural numbers.
LEMMA MinIsLeast ==
    ASSUME NEW S, S \subseteq Nat, S # {}
    PROVE  Min(S) \in S /\ \A y \in S : Min(S) <= y
BY LeastNatural DEF Min

\* A shorter match is worth a whole address less.
LEMMA ShorterIsLess ==
    ASSUME NEW n \in Nat, NEW len \in Nat, NEW w \in Nat, n < len
    PROVE  n * w \in Nat /\ len * w \in Nat /\ n * w + w <= len * w
<1>1. len >= n + 1
  BY SMTT(60)
<1>2. len * w >= (n + 1) * w
  BY SMTT(60), <1>1
<1>3. (n + 1) * w = n * w + w
  BY SMTT(60)
<1>4. n * w \in Nat /\ len * w \in Nat
  BY SMTT(60)
<1> QED
  BY <1>2, <1>3, <1>4

\* A text is its own longest truncation.
LEMMA WholeText ==
    ASSUME NEW t, IsText(t)
    PROVE  SubSeq(t, 1, Len(t)) = t
<1> DEFINE S == {t[i] : i \in 1 .. Len(t)}
<1>1. Len(t) \in Nat /\ t = [i \in 1 .. Len(t) |-> t[i]]
  BY DEF IsText
<1>2. t \in [1 .. Len(t) -> S]
  BY <1>1
<1>3. t \in Seq(S)
  BY SMTT(60), <1>1, <1>2
<1> HIDE DEF S
<1>4. SubSeq(t, 1, Len(t)) \in Seq(S) /\ Len(SubSeq(t, 1, Len(t))) = Len(t)
  BY SMTT(60), <1>1, <1>3
<1>5. \A i \in 1 .. Len(t) : SubSeq(t, 1, Len(t))[i] = t[i]
  BY SMTT(60), <1>1, <1>3
<1> QED
  BY SMTT(60), <1>3, <1>4, <1>5

\* The one number decides: the score reaches the mark exactly if the whole pattern
\* occurs and begins at one of the first three places.
LEMMA ScoreDecides ==
    ASSUME NEW pat, IsText(pat), Len(pat) >= 1, NEW key, IsText(key)
    PROVE  /\ CalculateScore(pat, key) \in Int
           /\ CalculateScore(pat, key) >= (AddressLen - 3) + Len(pat) * AddressLen
                  <=> \E i \in 0 .. 2 : i \in Occurrences(pat, key)
<1> DEFINE L == Len(pat)
           W == AddressLen
           M == Matched(pat, key)
           O(n) == Occurrences(SubSeq(pat, 1, n), key)
           goal == (W - 3) + L * W
           shows == \E i \in 0 .. 2 : i \in Occurrences(pat, key)
           score == CalculateScore(pat, key)
<1>1. L \in Nat /\ L >= 1 /\ W \in Nat /\ W >= 3
  BY VanityAssumption DEF IsText
<1>2. O(L) = Occurrences(pat, key)
  BY WholeText
<1>3. M = {n \in 1 .. L : O(n) # {}}
  BY DEF Matched
<1>4. \A n : \A i \in O(n) : i \in Nat
  BY SMTT(60) DEF Occurrences
<1>5. /\ M = {} => score = 0
      /\ M # {} => score = (W - 1 - Min(O(Max(M)))) + Max(M) * W
  BY DEF CalculateScore
<1> HIDE DEF L, W, M, O, score
<1>6. L * W \in Nat /\ W <= L * W
  <2>1. 0 * W \in Nat /\ L * W \in Nat /\ 0 * W + W <= L * W
    BY SMTT(60), <1>1, ShorterIsLess
  <2>2. 0 * W = 0
    BY SMTT(60), <1>1
  <2> QED
    BY SMTT(60), <1>1, <2>1, <2>2
<1>7. CASE M = {}
  <2>1. O(L) = {}
    BY SMTT(60), <1>1, <1>3, <1>7
  <2>2. ~shows
    BY <1>2, <2>1
  <2>3. score = 0
    BY <1>5, <1>7
  <2>4. score \in Int /\ ~(score >= goal)
    BY SMTT(60), <1>1, <1>6, <2>3
  <2> QED
    BY <2>2, <2>4 DEF L, W, score
<1>8. CASE M # {}
  <2> DEFINE n == Max(M)
             i0 == Min(O(n))
  <2>1. M \subseteq Nat /\ \A x \in M : x <= L
    BY SMTT(60), <1>1, <1>3
  <2>2. n \in M /\ \A y \in M : n >= y
    BY <1>1, <1>8, <2>1, MaxIsGreatest
  <2>3. n \in Nat /\ n >= 1 /\ n <= L /\ O(n) # {}
    BY SMTT(60), <1>1, <1>3, <2>2
  <2>4. i0 \in O(n) /\ \A y \in O(n) : i0 <= y
    BY <1>4, <2>3, MinIsLeast
  <2>5. i0 \in Nat
    BY <1>4, <2>4
  <2>6. score = (W - 1 - i0) + n * W
    BY <1>5, <1>8
  <2>7. n # L => L \notin M
    BY SMTT(60), <1>1, <2>2, <2>3
  <2> HIDE DEF n, i0
  <2>8. CASE n # L
    <3>1. n * W \in Nat /\ n * W + W <= L * W
      BY SMTT(60), <1>1, <2>3, <2>8, ShorterIsLess
    <3>2. score \in Int /\ ~(score >= goal)
      BY SMTT(60), <1>1, <1>6, <2>5, <2>6, <3>1
    <3>3. O(L) = {}
      BY SMTT(60), <1>1, <1>3, <2>7, <2>8
    <3>4. ~shows
      BY <1>2, <3>3
    <3> QED
      BY <3>2, <3>4 DEF L, W, score
  <2>9. CASE n = L
    <3>1. score \in Int /\ (score >= goal <=> i0 <= 2)
      BY SMTT(60), <1>1, <1>6, <2>5, <2>6, <2>9
    <3>2. i0 <= 2 => shows
      BY SMTT(60), <1>2, <2>4, <2>5, <2>9
    <3>3. ASSUME shows PROVE i0 <= 2
      <4>1. PICK i \in 0 .. 2 : i \in O(n)
        BY <1>2, <2>9, <3>3
      <4> QED
        BY SMTT(60), <2>4, <2>5, <4>1
    <3> QED
      BY <3>1, <3>2, <3>3 DEF L, W, score
  <2> QED
    BY <2>8, <2>9
<1> QED
  BY <1>7, <1>8

\* What a search keeps true: the best score so far is below the mark.
VanityOK ==
    /\ desired \in Patterns /\ tried \in Seq(Seeds)
    /\ state = "start" => tried = <<>> /\ best = 0
    /\ state = "search" => /\ Len(desired) >= 1 /\ best \in Int /\ best < Top
                           /\ \A i \in 1 .. Len(tried) : ~Shows(tried[i])
    /\ state = "found" => Shows(seed)

\* A tried seed ends the search exactly if its address shows the pattern.
LEMMA VanityTry ==
    ASSUME VanityOK, NEW s \in Seeds, Try(s)
    PROVE  VanityOK'
<1> DEFINE score == CalculateScore(desired, Address[s])
           taken == score > best \/ Len(desired) < 2
<1>1. /\ state = "search" /\ seed' = s /\ desired' = desired
      /\ best' = IF taken THEN score ELSE best
      /\ state' = IF taken /\ score >= Top THEN "found" ELSE "search"
      /\ tried' = <<s>> \/ tried' = Append(tried, s)
  BY DEF Try
<1>2. /\ IsText(desired) /\ IsText(Address[s]) /\ Len(desired) \in Nat /\ Len(desired) >= 1
      /\ best \in Int /\ best < Top /\ tried \in Seq(Seeds) /\ desired \in Patterns
      /\ \A i \in 1 .. Len(tried) : ~Shows(tried[i])
  BY <1>1, VanityAssumption DEF VanityOK, IsText
<1>3. score \in Int /\ (score >= Top <=> Shows(s))
  BY <1>2, ScoreDecides DEF Top, Shows
<1>4. Top \in Int
  <2>1. AddressLen \in Nat /\ Len(desired) * AddressLen \in Nat
    BY SMTT(60), <1>2, VanityAssumption
  <2> QED
    BY SMTT(60), <2>1 DEF Top
<1>5. Top' = Top
  BY <1>1 DEF Top
<1>6. tried' \in Seq(Seeds)
  <2>1. <<s>> \in Seq(Seeds)
    BY SMTT(60)
  <2>2. Append(tried, s) \in Seq(Seeds)
    BY SMTT(60), <1>2
  <2> QED
    BY <1>1, <2>1, <2>2
<1> HIDE DEF score
<1>7. CASE Shows(s)
  <2>1. score >= Top /\ score > best
    BY SMTT(60), <1>2, <1>3, <1>4, <1>7
  <2>2. state' = "found"
    BY <1>1, <2>1
  <2> QED
    BY <1>1, <1>2, <1>6, <1>7, <2>2 DEF VanityOK, Shows
<1>8. CASE ~Shows(s)
  <2>1. score < Top
    BY SMTT(60), <1>3, <1>4, <1>8
  <2>2. state' = "search" /\ best' \in Int /\ best' < Top
    BY <1>1, <1>2, <1>3, <1>8, <2>1
  <2>3. \A i \in 1 .. Len(tried') : ~Shows(tried'[i])
    <3>1. CASE tried' = <<s>>
      BY SMTT(60), <1>8, <3>1
    <3>2. CASE tried' = Append(tried, s)
      BY SMTT(60), <1>2, <1>8, <3>2
    <3> QED
      BY <1>1, <3>1, <3>2
  <2>4. (\A i \in 1 .. Len(tried) : ~Shows(tried[i]))'
    BY <1>1, <2>3 DEF Shows
  <2> QED
    BY <1>1, <1>2, <1>5, <1>6, <2>2, <2>4 DEF VanityOK
<1> QED
  BY <1>7, <1>8

\* The search ends at the first seed whose address shows the whole pattern at its
\* start and at no other, for any patterns, addresses and order of random seeds
\* (generate_key compares one number with `top`).
THEOREM SearchIsRight == VanitySpec => []FoundShowsPattern
<1>1. VanityInit => VanityOK
  BY SMTT(60) DEF VanityInit, VanityOK
<1>2. VanityOK /\ [VanityNext]_yvars => VanityOK'
  <2> SUFFICES ASSUME VanityOK, [VanityNext]_yvars PROVE VanityOK'
    OBVIOUS
  <2>1. CASE Refuse
    BY <2>1 DEF Refuse, VanityOK
  <2>2. CASE Accept
    <3>1. /\ state = "start" /\ state' = "search" /\ desired' = desired /\ best' = best
          /\ tried' = tried /\ tried = <<>> /\ best = 0 /\ desired \in Patterns /\ desired # <<>>
      BY <2>2 DEF Accept, VanityOK
    <3>2. IsText(desired) /\ Len(desired) \in Nat /\ AddressLen \in Nat /\ AddressLen >= 3
      BY <3>1, VanityAssumption DEF IsText
    <3>3. Len(desired) # 0
      <4> SUFFICES ASSUME Len(desired) = 0 PROVE FALSE
        OBVIOUS
      <4>1. desired = [i \in 1 .. 0 |-> desired[i]]
        BY <3>2 DEF IsText
      <4>2. desired \in Seq({})
        BY SMTT(60), <4>1
      <4> QED
        BY SMTT(60), <3>1, <4>2
    <3>4. Len(desired) >= 1
      BY SMTT(60), <3>2, <3>3
    <3>5. 0 < Top
      <4> DEFINE len == Len(desired)
                 w == AddressLen
      <4>1. 0 * w \in Nat /\ len * w \in Nat /\ 0 * w + w <= len * w
        BY SMTT(60), <3>2, <3>4, ShorterIsLess
      <4>2. 0 * w = 0 /\ w \in Nat /\ w >= 3
        BY SMTT(60), <3>2
      <4> HIDE DEF len, w
      <4>3. 0 < (w - 3) + len * w
        BY SMTT(60), <4>1, <4>2
      <4> QED
        BY <4>3 DEF Top, len, w
    <3>6. Top' = Top
      BY <3>1 DEF Top
    <3> QED
      BY SMTT(60), <3>1, <3>4, <3>5, <3>6 DEF VanityOK
  <2>3. ASSUME NEW s \in Seeds, Try(s) PROVE VanityOK'
    BY <2>3, VanityTry
  <2>4. CASE UNCHANGED yvars
    BY <2>4 DEF yvars, VanityOK, Top, Shows
  <2>5. CASE SplitWide
    BY <2>5 DEF SplitWide, VanityOK
  <2> QED
    BY <2>1, <2>2, <2>3, <2>4, <2>5 DEF VanityNext
<1>3. VanityOK => FoundShowsPattern
  BY DEF VanityOK, FoundShowsPattern
<1> QED
  BY <1>1, <1>2, <1>3, PTL DEF VanitySpec

-----------------------------------------------------------------------------
(* The weights of an election.                                             *)

\* Division by a positive number, as two inequalities.
LEMMA Quotient ==
    ASSUME NEW x \in Nat, NEW f \in Nat, f > 0
    PROVE  /\ x \div f \in Nat
           /\ (x \div f) * f <= x
           /\ x < (x \div f) * f + f
BY SMTT(60)

\* A factor is a positive number.
LEMMA FactorPositive ==
    ASSUME NEW t \in Int
    PROVE  Factor(t) \in Nat /\ Factor(t) > 0
BY SMTT(60), VoteAssumption DEF Factor, MaxOf

\* Products by a positive number keep a strict order.
LEMMA ProductOrder ==
    ASSUME NEW p \in Nat, NEW q \in Nat, NEW f \in Nat, f > 0, p > q
    PROVE  q * f + f <= p * f
<1>1. p >= q + 1
  BY SMTT(60)
<1>2. p * f >= (q + 1) * f
  BY SMTT(60), <1>1
<1> QED
  BY SMTT(60), <1>2

\* A quotient keeps the order of what is divided.
LEMMA QuotientOrder ==
    ASSUME NEW x \in Nat, NEW y \in Nat, NEW f \in Nat, f > 0, x <= y
    PROVE  x \div f <= y \div f
<1> SUFFICES ASSUME x \div f > y \div f PROVE FALSE
  BY SMTT(60), Quotient
<1>1. (y \div f) * f + f <= (x \div f) * f
  BY Quotient, ProductOrder
<1>2. (x \div f) * f <= x /\ y < (y \div f) * f + f
  BY Quotient
<1>3. (x \div f) * f \in Int /\ (y \div f) * f \in Int
  BY SMTT(60), Quotient
<1> QED
  BY SMTT(60), <1>1, <1>2, <1>3

\* A quotient that fits in a vote survives the cast.
LEMMA CastKeeps ==
    ASSUME NEW x \in Nat, NEW f \in Nat, f > 0, x < (MaxVote + 1) * f
    PROVE  (x \div f) % (MaxVote + 1) = x \div f
<1>1. x \div f <= MaxVote
  <2> SUFFICES ASSUME x \div f > MaxVote PROVE FALSE
    BY SMTT(60), Quotient, VoteAssumption
  <2>1. x \div f >= MaxVote + 1
    BY SMTT(60), Quotient, VoteAssumption
  <2>2. (x \div f) * f >= (MaxVote + 1) * f
    BY SMTT(60), <2>1, Quotient, VoteAssumption
  <2> QED
    BY SMTT(60), <2>2, Quotient, VoteAssumption
<1> QED
  BY SMTT(60), <1>1, Quotient, VoteAssumption

\* What the conversions keep of stakes that fit, whatever the issuance.
LEMMA ConversionKeeps ==
    ASSUME NEW t \in Int, NEW x \in Nat, NEW y \in Nat,
           x < (MaxVote + 1) * Factor(t), y < (MaxVote + 1) * Factor(t)
    PROVE  /\ x <= y => ToVote(t, x) <= ToVote(t, y)
           /\ ToBalance(t, ToVote(t, x)) <= x
           /\ x < ToBalance(t, ToVote(t, x)) + Factor(t)
<1>1. Factor(t) \in Nat /\ Factor(t) > 0
  BY FactorPositive
<1>2. ToVote(t, x) = x \div Factor(t) /\ ToVote(t, y) = y \div Factor(t)
  BY <1>1, CastKeeps DEF ToVote
<1>3. x <= y => x \div Factor(t) <= y \div Factor(t)
  BY <1>1, QuotientOrder
<1>4. /\ (x \div Factor(t)) * Factor(t) <= x
      /\ x < (x \div Factor(t)) * Factor(t) + Factor(t)
  BY <1>1, Quotient
<1> QED
  BY <1>2, <1>3, <1>4 DEF ToBalance

\* The types the conversions need; the issuance may be any integer for them.
VoteTypes == issuance \in Int /\ stake \in [Voters -> Nat]

\* Every block's changes keep stakes natural numbers.
LEMMA VoteTypesInvariant == VSpec => []VoteTypes
<1>1. VInit => VoteTypes
  BY SMTT(60) DEF VInit, VoteTypes
<1>2. VoteTypes /\ [VNext]_vvars => VoteTypes'
  <2> SUFFICES ASSUME VoteTypes, [VNext]_vvars PROVE VoteTypes'
    OBVIOUS
  <2>1. CASE Dilute
    BY SMTT(60), <2>1 DEF Dilute, VoteTypes
  <2>2. CASE Concentrate
    BY SMTT(60), <2>2 DEF Concentrate, VoteTypes
  <2>3. ASSUME NEW a \in Voters, Mint(a) PROVE VoteTypes'
    BY SMTT(60), <2>3 DEF Mint, VoteTypes
  <2>4. ASSUME NEW a \in Voters, Burn(a) PROVE VoteTypes'
    BY SMTT(60), <2>4 DEF Burn, VoteTypes
  <2>5. CASE UNCHANGED vvars
    BY <2>5 DEF vvars, VoteTypes
  <2> QED
    BY <2>1, <2>2, <2>3, <2>4, <2>5 DEF VNext
<1> QED
  BY <1>1, <1>2, PTL DEF VSpec

\* CurrencyToVoteHandler keeps the order of the stakes that fit and loses less
\* than one factor of each, for every set of voters, every width of a vote and
\* every history of the total issuance.
THEOREM VotesAreFaithful == VSpec => []VotesFollowStakes
<1>1. VoteTypes => VotesFollowStakes
  <2> SUFFICES ASSUME VoteTypes, NEW a \in Voters, NEW b \in Voters, Fits(a), Fits(b)
               PROVE  /\ stake[a] <= stake[b] =>
                             ToVote(issuance, stake[a]) <= ToVote(issuance, stake[b])
                      /\ ToBalance(issuance, ToVote(issuance, stake[a])) <= stake[a]
                      /\ stake[a] < ToBalance(issuance, ToVote(issuance, stake[a]))
                                        + Factor(issuance)
    BY DEF VotesFollowStakes
  <2>1. issuance \in Int /\ stake[a] \in Nat /\ stake[b] \in Nat
    BY DEF VoteTypes
  <2>2. /\ stake[a] < (MaxVote + 1) * Factor(issuance)
        /\ stake[b] < (MaxVote + 1) * Factor(issuance)
    BY DEF Fits
  <2> QED
    BY <2>1, <2>2, ConversionKeeps
<1> QED
  BY <1>1, VoteTypesInvariant, PTL

-----------------------------------------------------------------------------
(* The lifetime of a transaction.                                          *)

\* The larger of two numbers.
LEMMA MaxOfTwo ==
    ASSUME NEW a \in Int, NEW b \in Int
    PROVE  Max({a, b}) = IF a >= b THEN a ELSE b
<1>1. \E x \in {a, b} : \A y \in {a, b} : x >= y
  BY SMTT(60)
<1>2. Max({a, b}) \in {a, b} /\ \A y \in {a, b} : Max({a, b}) >= y
  BY <1>1 DEF Max
<1> QED
  BY SMTT(60), <1>2

\* next_power_of_two is the least power of two that is not smaller.
LEMMA PowerAbove ==
    ASSUME NEW n \in Nat, n <= 4096
    PROVE  /\ NextPowerOfTwo(n) \in PowersOfTwo /\ NextPowerOfTwo(n) >= n
           /\ \A q \in PowersOfTwo : q >= n => NextPowerOfTwo(n) <= q
<1> DEFINE S == {p \in PowersOfTwo : p >= n}
<1>1. \E x \in S : \A y \in S : x <= y
  <2>1. CASE n <= 16
    BY SMTT(60), <2>1 DEF PowersOfTwo
  <2>2. CASE n > 16 /\ n <= 256
    BY SMTT(60), <2>2 DEF PowersOfTwo
  <2>3. CASE n > 256 /\ n <= 1024
    BY SMTT(60), <2>3 DEF PowersOfTwo
  <2>4. CASE n > 1024
    BY SMTT(60), <2>4 DEF PowersOfTwo
  <2> QED
    BY SMTT(60), <2>1, <2>2, <2>3, <2>4
<1>2. Min(S) \in S /\ \A y \in S : Min(S) <= y
  BY SMTT(60), <1>1 DEF Min
<1> QED
  BY SMTT(60), <1>2 DEF NextPowerOfTwo

\* The period is no longer than what the table remembers: two hashes more than it
\* has entries, the block being executed and the one before it.
LEMMA PeriodFits ==
    ASSUME NEW c \in Nat, 2 <= c, c <= 4096, NEW n \in Nat
    PROVE  LET e == Mortal(NextPowerOfTwo(c) \div 2, n)
           IN  /\ e.period \in Nat /\ e.period >= 4 /\ e.period <= c + 2
               /\ e.phase = n % e.period
<1> DEFINE P == NextPowerOfTwo(c)
           h == P \div 2
<1>2. P \in PowersOfTwo /\ P >= c /\ \A q \in PowersOfTwo : q >= c => P <= q
  BY SMTT(60), PowerAbove
<1>3. P # 1 /\ P \in Nat /\ P > 0
  BY SMTT(60), <1>2 DEF PowersOfTwo
<1> HIDE DEF P
<1>4. h \in PowersOfTwo /\ h < P
  BY SMTT(60), <1>2, <1>3 DEF PowersOfTwo
<1>5. h \in Nat /\ h <= 4096
  BY SMTT(60), <1>4 DEF PowersOfTwo
<1>6. h < c
  BY SMTT(60), <1>2, <1>3, <1>4, <1>5
<1> HIDE DEF h
<1>7. NextPowerOfTwo(h) = h
  <2>1. /\ NextPowerOfTwo(h) \in PowersOfTwo /\ NextPowerOfTwo(h) >= h
        /\ NextPowerOfTwo(h) <= h
    BY SMTT(60), <1>4, <1>5, PowerAbove
  <2>2. NextPowerOfTwo(h) \in Int
    BY SMTT(60), <2>1 DEF PowersOfTwo
  <2> QED
    BY SMTT(60), <1>5, <2>1, <2>2
<1> DEFINE p == Max({4, NextPowerOfTwo(h)})
<1>8. p = IF 4 >= h THEN 4 ELSE h
  BY SMTT(60), <1>5, <1>7, MaxOfTwo
<1>9. p \in Nat /\ p >= 4 /\ p <= c + 2
  BY SMTT(60), <1>5, <1>6, <1>8
<1>10. Mortal(h, n) = [period |-> p, phase |-> n % p]
  BY SMTT(60) DEF Mortal
<1> HIDE DEF p
<1>11. Mortal(h, n).period = p /\ Mortal(h, n).phase = n % p
  BY SMTT(60), <1>10
<1> QED
  BY SMTT(60), <1>9, <1>11 DEF h, P

\* An era seen from one of its blocks begins where it began; seen from a later
\* block it begins later.
LEMMA BirthInEra ==
    ASSUME NEW p \in Nat, p > 0, NEW from \in Nat, NEW n \in Nat, n >= from,
           NEW e, e.period = p, e.phase = from % p
    PROVE  /\ n < from + p => Birth(e, n) = from
           /\ n >= from + p => Birth(e, n) # from
<1> DEFINE r == from % p
           q == from \div p
           d == (n - r) \div p
<1>1. q \in Nat /\ r \in Nat /\ r < p /\ from = q * p + r
  BY SMTT(60)
<1>2. q * p \in Nat /\ r <= from
  <2>1. q * p \in Nat
    BY SMTT(60), <1>1
  <2> QED
    BY SMTT(60), <1>1, <2>1
<1>3. n - r \in Nat
  BY SMTT(60), <1>1, <1>2
<1>4. d \in Nat /\ d * p <= n - r /\ n - r < d * p + p /\ d * p \in Nat
  <2>1. d \in Nat /\ d * p <= n - r /\ n - r < d * p + p
    BY <1>3, Quotient
  <2> QED
    BY SMTT(60), <2>1
<1>5. Birth(e, n) = d * p + r
  <2>1. Max({n, r}) = n
    BY SMTT(60), <1>1, <1>2, MaxOfTwo
  <2> QED
    BY <2>1 DEF Birth
<1> HIDE DEF r, q, d
<1>6. d > q => q * p + p <= d * p
  BY <1>1, <1>4, ProductOrder
<1>7. q > d => d * p + p <= q * p
  BY <1>1, <1>4, ProductOrder
<1>8. ASSUME n < from + p PROVE d = q
  <2>1. ~(d > q)
    BY SMTT(60), <1>1, <1>2, <1>4, <1>6, <1>8
  <2>2. ~(q > d)
    BY SMTT(60), <1>1, <1>2, <1>4, <1>7
  <2> QED
    BY SMTT(60), <1>1, <1>4, <2>1, <2>2
<1>9. ASSUME n >= from + p PROVE d > q
  <2> SUFFICES ASSUME d <= q PROVE FALSE
    BY SMTT(60), <1>1, <1>4
  <2>1. d * p <= q * p
    BY SMTT(60), <1>1, <1>4, <1>7
  <2> QED
    BY SMTT(60), <1>1, <1>2, <1>4, <1>9, <2>1
<1>10. n >= from + p => Birth(e, n) # from
  BY SMTT(60), <1>1, <1>2, <1>4, <1>5, <1>6, <1>9
<1> QED
  BY <1>1, <1>5, <1>8, <1>10

\* What every reachable state of the era model satisfies: the table holds the
\* genesis and the last BlockHashCount + 1 complete blocks, and a transaction was
\* signed over the block that was current when it was made.
EraOK ==
    /\ count \in HashCounts /\ number \in Nat /\ number >= 1 /\ ~missed
    /\ hashes = {n \in 0 .. (number - 1) : n = 0 \/ n + count >= number - 1}
    /\ \A tx \in made : /\ tx.from \in Nat /\ tx.from <= number - 1
                        /\ tx.over = tx.from /\ tx.era = Mortal(Period, tx.from)

\* The era made at a block, seen from that block or a later one.
LEMMA EraSeen ==
    ASSUME EraOK, NEW from \in Nat, from <= number - 1
    PROVE  LET e == Mortal(Period, from)
           IN  /\ e.period \in Nat /\ e.period >= 4
               /\ number < from + e.period => Birth(e, number) = from /\ from \in hashes
               /\ number >= from + e.period => Birth(e, number) # from
<1> DEFINE e == Mortal(Period, from)
           p == e.period
<1>1. count \in Nat /\ 2 <= count /\ count <= 4096 /\ number \in Nat /\ number >= 1
  BY SMTT(60), EraAssumption DEF EraOK
<1>2. p \in Nat /\ p >= 4 /\ p <= count + 2 /\ e.phase = from % p
  BY SMTT(60), <1>1, PeriodFits DEF Period
<1> HIDE DEF e
<1>3. p > 0 /\ number >= from
  BY SMTT(60), <1>1, <1>2
<1>4. /\ number < from + p => Birth(e, number) = from
      /\ number >= from + p => Birth(e, number) # from
  BY SMTT(60), <1>1, <1>2, <1>3, BirthInEra
<1>5. ASSUME number < from + p PROVE from \in hashes
  <2> HIDE DEF p
  <2>1. from + count >= number - 1
    BY SMTT(60), <1>1, <1>2, <1>5
  <2>2. from \in 0 .. (number - 1)
    BY SMTT(60), <1>1
  <2> QED
    BY <2>1, <2>2 DEF EraOK
<1> QED
  BY <1>2, <1>4, <1>5 DEF e

\* A worker's transaction can always be made, and a block accepts it exactly until
\* its period has passed, for every BlockHashCount up to 4096 and every height of
\* the chain (create_transaction of the runtimes).
THEOREM ErasFitTheTable == ESpec => []ValidThroughPeriod
<1>1. EInit => EraOK
  <2> SUFFICES ASSUME EInit PROVE EraOK
    OBVIOUS
  <2>1. count \in Nat /\ number = 1 /\ hashes = {0} /\ made = {} /\ ~missed /\ count \in HashCounts
    BY SMTT(60), EraAssumption DEF EInit
  <2>2. {0} = {n \in 0 .. (number - 1) : n = 0 \/ n + count >= number - 1}
    BY SMTT(60), <2>1
  <2> QED
    BY SMTT(60), <2>1, <2>2 DEF EraOK
<1>2. EraOK /\ [ENext]_evars => EraOK'
  <2> SUFFICES ASSUME EraOK, [ENext]_evars PROVE EraOK'
    OBVIOUS
  <2>0. count \in Nat /\ 2 <= count /\ count <= 4096 /\ number \in Nat /\ number >= 1
    BY SMTT(60), EraAssumption DEF EraOK
  <2>1. CASE BeginBlock
    <3>1. /\ number' = number + 1 /\ count' = count /\ made' = made /\ missed' = missed
          /\ hashes' = {n \in hashes \cup {number} : n = 0 \/ n + count >= number}
      BY <2>1 DEF BeginBlock
    <3>2. hashes' = {n \in 0 .. (number' - 1) : n = 0 \/ n + count' >= number' - 1}
      <4>1. hashes = {n \in 0 .. (number - 1) : n = 0 \/ n + count >= number - 1}
        BY DEF EraOK
      <4> QED
        BY SMTT(60), <2>0, <3>1, <4>1
    <3>3. Period' = Period
      BY <3>1 DEF Period
    <3>4. \A tx \in made' : /\ tx.from \in Nat /\ tx.from <= number' - 1
                            /\ tx.over = tx.from /\ tx.era = Mortal(Period', tx.from)
      <4>1. \A tx \in made : /\ tx.from \in Nat /\ tx.from <= number - 1
                             /\ tx.over = tx.from /\ tx.era = Mortal(Period, tx.from)
        BY DEF EraOK
      <4>2. \A k \in Nat : k <= number - 1 => k <= number' - 1
        BY SMTT(60), <2>0, <3>1
      <4> QED
        BY <3>1, <3>3, <4>1, <4>2
    <3> QED
      BY SMTT(60), <2>0, <3>1, <3>2, <3>4 DEF EraOK
  <2>2. CASE CreateTransaction
    <3> DEFINE from == number - 1
               era == Mortal(Period, from)
               tx == [era |-> era, over |-> from, from |-> from]
    <3>1. CurrentBlock = from /\ from \in Nat /\ from <= number - 1
      BY SMTT(60), <2>0 DEF CurrentBlock
    <3>2. number < from + era.period
      <4>1. era.period \in Nat /\ era.period >= 4
        BY <3>1, EraSeen
      <4> HIDE DEF era
      <4> QED
        BY SMTT(60), <2>0, <4>1
    <3>3. Birth(era, number) = from /\ from \in hashes
      BY <3>1, <3>2, EraSeen
    <3>4. /\ made' = made \cup {tx} /\ missed' = missed
          /\ count' = count /\ number' = number /\ hashes' = hashes
      BY <2>2, <3>1, <3>3 DEF CreateTransaction
    <3>5. Period' = Period
      BY <3>4 DEF Period
    <3>6. tx.from = from /\ tx.over = from /\ tx.era = Mortal(Period, from)
      OBVIOUS
    <3>7. \A t \in made' : /\ t.from \in Nat /\ t.from <= number' - 1
                           /\ t.over = t.from /\ t.era = Mortal(Period', t.from)
      <4> HIDE DEF tx, from
      <4> QED
        BY <3>1, <3>4, <3>5, <3>6 DEF EraOK
    <3> QED
      BY <3>4, <3>7 DEF EraOK
  <2>3. ASSUME NEW tx \in made, Include(tx) PROVE EraOK'
    <3>1. Period' = Period
      BY <2>3 DEF Include, Period
    <3> QED
      BY <2>3, <3>1 DEF Include, EraOK
  <2>4. CASE UNCHANGED evars
    <3>1. Period' = Period
      BY <2>4 DEF evars, Period
    <3> QED
      BY <2>4, <3>1 DEF evars, EraOK
  <2> QED
    BY <2>1, <2>2, <2>3, <2>4 DEF ENext
<1>3. EraOK => ValidThroughPeriod
  <2> SUFFICES ASSUME EraOK, NEW tx \in made
               PROVE  number < tx.from + tx.era.period <=> Valid(tx)
    BY DEF EraOK, ValidThroughPeriod
  <2> DEFINE from == tx.from
             e == tx.era
  <2>1. from \in Nat /\ from <= number - 1 /\ tx.over = from /\ e = Mortal(Period, from)
    BY DEF EraOK
  <2>2. /\ e.period \in Nat /\ number \in Nat
        /\ number < from + e.period => Birth(e, number) = from /\ from \in hashes
        /\ number >= from + e.period => Birth(e, number) # from
    BY <2>1, EraSeen DEF EraOK
  <2>3. Valid(tx) <=> Birth(e, number) \in hashes /\ Birth(e, number) = from
    BY <2>1 DEF Valid
  <2> HIDE DEF from, e
  <2>4. number < from + e.period \/ number >= from + e.period
    BY SMTT(60), <2>1, <2>2
  <2>5. ~(number < from + e.period /\ number >= from + e.period)
    BY <2>1, <2>2
  <2>6. number < from + e.period <=> Valid(tx)
    BY <2>2, <2>3, <2>4, <2>5
  <2> QED
    BY <2>6 DEF from, e
<1> QED
  BY <1>1, <1>2, <1>3, PTL DEF ESpec

=============================================================================
