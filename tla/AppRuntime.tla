----------------------------- MODULE AppRuntime -----------------------------
(***************************************************************************)
(* The worker: tasks of the queue become controllers that start, stop,     *)
(* restart and upgrade a service in the Kubernetes cluster, next to a      *)
(* cache of the service that informers keep up to date                     *)
(* (worker/discover, worker/handle, worker/appm/controller,                *)
(* worker/appm/store, worker/appm/types/v1).                               *)
(*                                                                         *)
(* One service is modelled: controllers of different services share only   *)
(* the limit on their number.  Its resources are config maps ("config"),   *)
(* claims, the workload itself (a deployment, or a stateful set, which is  *)
(* handled the same way) with one replica, services, secrets and ingresses *)
(* ("svc"), the secrets of its environment variables ("env"), autoscalers  *)
(* ("hpa"), service monitors, and the pods.  A flag says that some of that *)
(* kind exist.  An AppService object has the name of the task that made    *)
(* it, 0 for the one the informers make.  The informers deliver what       *)
(* happened to workload and pods later and independently of each other;    *)
(* the other resources are known at once.                                  *)
(*                                                                         *)
(* External: the cluster (its workload controller and its garbage          *)
(* collection), the informers' transport, the queue, the database.         *)
(***************************************************************************)
EXTENDS Naturals, Sequences, FiniteSets, SequencesExt

CONSTANTS N,          \* bound: tasks 1..N are submitted, in this order
          HastyTasks, \* bound: how many when a user does not let the service settle
          MaxLag,     \* bound: events the informers are behind before the cluster
                      \* goes on by itself, when operations overlap
          Kinds,      \* the kinds of tasks: subset of the four below
          MaxTasks,   \* the worker's limit on controllers
          HasClaims,  \* whether the service has volumes that need claims
          MaxFaults   \* bound: calls to the cluster, the database or the queue
                      \* that fail, and crashes of the worker

ASSUME RuntimeAssumption ==
  /\ N \in Nat \ {0} /\ HastyTasks \in Nat /\ MaxLag \in Nat
  /\ Kinds \subseteq {"start", "stop", "restart", "upgrade"}
  /\ MaxTasks \in Nat /\ MaxFaults \in Nat /\ HasClaims \in BOOLEAN

Tasks == 1..N
Apps == 0..N
NoApp == N + 1

\* A workload as the code sees it: its creator, the version of its pod template,
\* whether the cluster has given it a ResourceVersion and whether its replica is
\* ready.  Version 0: there is none.
Workload == [uid : Apps, ver : Nat, rv : BOOLEAN, ready : BOOLEAN]
Nil == [uid |-> 0, ver |-> 0, rv |-> FALSE, ready |-> FALSE]

VARIABLES
  mode,         \* how operations follow each other, see Submit
  kind, result, \* of a task; result "none" until its event is answered
  dbVersion,    \* DeployVersion of the service in the database
  queue,        \* tasks in the topic of the worker
  synced,       \* store.Ready: the informers have listed the cluster
  entry, app,   \* appServices: the object of the service, and all objects
  controllers,  \* Manager.controllers
  job,          \* the goroutine of a task's controller
  cluster,      \* what exists in Kubernetes
  deployEvents, podEvents,  \* what the informers have not delivered yet
  faults        \* how many there were

taskVars == <<mode, kind, dbVersion, queue>>
storeVars == <<synced, entry, app>>
eventVars == <<deployEvents, podEvents>>
vars == <<mode, kind, result, dbVersion, queue, synced, entry, app, controllers,
          job, cluster, deployEvents, podEvents, faults>>

-----------------------------------------------------------------------------
(***************************************************************************)
(* AppService objects                                                      *)
(***************************************************************************)

NewApp(ver) == [deployment |-> [Nil EXCEPT !.ver = ver], pods |-> {}, ver |-> ver]

\* IsClosed; IsEmpty is app[a].pods = {} (no node is lost)
IsClosed(a) == app[a].pods = {} /\ ~app[a].deployment.rv

\* Ready as soon as the workload exists
Ready_Exists(a) == app[a].deployment.rv

\* Ready: ReadyReplicas >= Replicas
Ready(a) == app[a].deployment.ready

\* UpgradeComlete with the version of the pods ignored
UpgradeComlete_AnyVersion(a) == Ready(a)

\* UpgradeComlete
UpgradeComlete(a) == Ready(a) /\ \A p \in app[a].pods : p.ver = app[a].ver

\* SetDeployment, DeleteDeployment
SetDeployment(a, d) ==
  [app EXCEPT ![a].deployment = d, ![a].ver = IF d = Nil THEN @ ELSE d.ver]

\* UpdateGetAppService: the object is brought to what the listers know, which
\* after the first polls of a wait is the state of the cluster
Refreshed(a) ==
  [app EXCEPT
     ![a].deployment = IF @ = Nil THEN Nil ELSE cluster.deploy,
     ![a].ver = IF app[a].deployment = Nil \/ cluster.deploy = Nil THEN @
                ELSE cluster.deploy.ver,
     ![a].pods = @ \cap cluster.pods]

-----------------------------------------------------------------------------
(***************************************************************************)
(* The API and the queue                                                   *)
(***************************************************************************)

\* What the goroutine of a controller holds: the operation it carries out, its
\* next step, the version of its copy of the AppService, whether the copy has a
\* workload (an upgrade: a patch) and which pods, and the object it polls
NoJob == [role |-> "none", pc |-> "none", ver |-> 0, deploy |-> FALSE, pods |-> {},
          watch |-> NoApp]

Init ==
  /\ mode \in {"free", "serial", "settled"}
  /\ kind = [t \in Tasks |-> "none"]
  /\ result = [t \in Tasks |-> "none"]
  /\ dbVersion = 1
  /\ queue = <<>>
  /\ synced = TRUE
  /\ controllers = {}
  /\ job = [t \in Tasks |-> NoJob]
  /\ deployEvents = <<>> /\ podEvents = <<>>
  /\ faults = 0
  \* the service was never deployed, or it runs
  /\ \/ /\ entry = NoApp
        /\ app = [a \in Apps |-> [NewApp(0) EXCEPT !.deployment = Nil]]
        /\ cluster = [config |-> FALSE, claims |-> FALSE, deploy |-> Nil, svc |-> FALSE,
                      env |-> FALSE, hpa |-> FALSE, monitors |-> FALSE, pods |-> {}]
     \/ LET d == [uid |-> 0, ver |-> 1, rv |-> TRUE, ready |-> TRUE]
            p == [uid |-> 0, ver |-> 1]
        IN  /\ entry = 0
            /\ app = [a \in Apps |-> IF a = 0
                        THEN [deployment |-> d, pods |-> {p}, ver |-> 1]
                        ELSE [NewApp(0) EXCEPT !.deployment = Nil]]
            /\ cluster = [config |-> TRUE, claims |-> HasClaims, deploy |-> d, svc |-> TRUE,
                          env |-> TRUE, hpa |-> TRUE, monitors |-> TRUE, pods |-> {p}]

\* Nothing more will happen to the task: its event was answered, or the task was
\* lost and nobody will answer it (after three minutes CanDoEvent stops waiting)
Over(t) == result[t] # "none"

\* The service is at rest: the informers have delivered everything, and a
\* workload has its one pod, ready
Quiet == synced /\ deployEvents = <<>> /\ podEvents = <<>>
Settled ==
  /\ Quiet
  /\ cluster.pods = IF cluster.deploy = Nil THEN {}
                    ELSE {[uid |-> cluster.deploy.uid, ver |-> cluster.deploy.ver]}
  /\ cluster.deploy # Nil => cluster.deploy.ready

\* StartStopService, upgrade: a request becomes a task.  The API as it is lets
\* operations of a service overlap ("free"): a batch request is never held back
\* (checkEvents), nor is a stop, two others that come together both pass
\* CanDoEvent, and after three minutes every one does.  In the other modes a
\* user waits for the answer to the last request and until the informers are
\* quiet ("serial") or the service has settled ("settled").
Submit(t, k) ==
  /\ kind[t] = "none"
  /\ \A u \in 1..(t - 1) : kind[u] # "none"
  /\ mode # "settled" => t <= HastyTasks
  /\ mode # "free" => Quiet /\ \A u \in 1..(t - 1) : Over(u) /\ job[u] = NoJob
  /\ mode = "settled" => Settled
  /\ kind' = [kind EXCEPT ![t] = k]
  /\ dbVersion' = IF k = "upgrade" THEN dbVersion + 1 ELSE dbVersion
  /\ queue' = Append(queue, t)
  /\ UNCHANGED <<mode, result, storeVars, controllers, job, cluster, eventVars,
                 faults>>

-----------------------------------------------------------------------------
(***************************************************************************)
(* The loop of the worker: TaskManager.Do and Manager.AnalystToExec        *)
(***************************************************************************)

Copy(role, a) ==
  [role |-> role, pc |-> "begin", ver |-> app[a].ver,
   deploy |-> app[a].deployment # Nil, pods |-> app[a].pods, watch |-> NoApp]

\* checkCount
checkCount == Cardinality(controllers) > MaxTasks

\* The answer that ends the event of a task without a controller.  "refused" is a
\* last message with status success (GetLastLoggerOption), see Status.
Answer(t, r) ==
  /\ result' = [result EXCEPT ![t] = r]
  /\ UNCHANGED <<entry, app, controllers, job>>

\* StartController
StartController(t, j) ==
  /\ controllers' = controllers \cup {t}
  /\ job' = [job EXCEPT ![t] = j]

\* InitAppService, RegistAppService and a start controller
StartNew(t) ==
  /\ app' = [app EXCEPT ![t] = NewApp(dbVersion)]
  /\ entry' = t
  /\ StartController(t, [role |-> "start", pc |-> "begin", ver |-> dbVersion,
                         deploy |-> TRUE, pods |-> {}, watch |-> NoApp])
  /\ UNCHANGED result

\* startExec
startExec(t) ==
  IF entry # NoApp /\ ~IsClosed(entry) THEN Answer(t, "refused") ELSE StartNew(t)

\* stopExec that refuses a service without workload and pods
stopExec_Closed(t) ==
  IF entry = NoApp \/ (kind[t] = "stop" /\ IsClosed(entry)) THEN Answer(t, "refused")
  ELSE StartController(t, Copy(kind[t], entry)) /\ UNCHANGED <<entry, app, result>>

\* stopExec, restartExec
stopExec(t) ==
  IF entry = NoApp THEN Answer(t, "refused")
  ELSE StartController(t, Copy(kind[t], entry)) /\ UNCHANGED <<entry, app, result>>

\* rollingUpgradeExec.  SetUpgradePatch compares the new AppService with the
\* cached one: it makes a patch if that has a workload, clears the status of the
\* cached workload and gives the cached object the new version.  ("no upgrade" is
\* never returned: a patch without a change is encoded as null.)
rollingUpgradeExec(t) ==
  IF entry = NoApp \/ IsClosed(entry) THEN StartNew(t)
  ELSE /\ app' = [app EXCEPT ![entry].ver = dbVersion, ![entry].deployment.ready = FALSE]
       /\ StartController(t, [Copy("upgrade", entry) EXCEPT !.ver = dbVersion, !.pods = {}])
       /\ UNCHANGED <<entry, result>>

\* A task is taken from the queue and carried out
Exec ==
  /\ queue # <<>> /\ synced
  /\ ~checkCount
  /\ LET t == Head(queue)
     IN  CASE kind[t] = "start"   -> startExec(t)
           [] kind[t] = "upgrade" -> rollingUpgradeExec(t)
           [] OTHER               -> stopExec(t)
  /\ queue' = Tail(queue)
  /\ UNCHANGED <<mode, kind, dbVersion, synced, cluster, eventVars, faults>>

\* InitAppService fails on the database: the task is answered and dropped
ExecFails ==
  /\ queue # <<>> /\ synced
  /\ ~checkCount
  /\ faults < MaxFaults /\ faults' = faults + 1
  /\ kind[Head(queue)] \in {"start", "upgrade"}
  /\ (kind[Head(queue)] = "start" /\ entry # NoApp) => IsClosed(entry)
  /\ Answer(Head(queue), "failure")
  /\ queue' = Tail(queue)
  /\ UNCHANGED <<mode, kind, dbVersion, synced, cluster, eventVars>>

\* SetUpgradePatch fails: the status of the cached workload is cleared already
PatchFails ==
  /\ queue # <<>> /\ synced
  /\ ~checkCount
  /\ faults < MaxFaults /\ faults' = faults + 1
  /\ kind[Head(queue)] = "upgrade"
  /\ entry # NoApp /\ ~IsClosed(entry)
  /\ app' = [app EXCEPT ![entry].deployment.ready = FALSE]
  /\ result' = [result EXCEPT ![Head(queue)] = "failure"]
  /\ queue' = Tail(queue)
  /\ UNCHANGED <<mode, kind, dbVersion, synced, entry, controllers, job, cluster, eventVars>>

\* ErrCallback handled like any other error
Requeue_Drop ==
  /\ queue # <<>>
  /\ checkCount
  /\ queue' = Tail(queue)
  /\ UNCHANGED <<mode, kind, result, dbVersion, storeVars, controllers, job, cluster,
                 eventVars, faults>>

\* ErrCallback: the task goes back to the queue.  (The loop starts after Store.Start
\* has waited for the informers, so store.Ready holds.)
Requeue ==
  /\ queue # <<>>
  /\ checkCount
  /\ queue' = Append(Tail(queue), Head(queue))
  /\ UNCHANGED <<mode, kind, result, dbVersion, storeVars, controllers, job, cluster,
                 eventVars, faults>>

\* ... or, when Enqueue fails, is lost
RequeueFails ==
  /\ queue # <<>>
  /\ checkCount
  /\ faults < MaxFaults /\ faults' = faults + 1
  /\ queue' = Tail(queue)
  /\ Answer(Head(queue), "lost")
  /\ UNCHANGED <<mode, kind, dbVersion, synced, cluster, eventVars>>

-----------------------------------------------------------------------------
(***************************************************************************)
(* The controllers                                                         *)
(***************************************************************************)

At(t, pc) == job[t].pc = pc

\* The first step of an operation
Entry(role) == CASE role = "start"   -> "create config"
                 [] role = "upgrade" -> "upgrade config"
                 [] OTHER            -> "delete svc"

\* Begin: the goroutine of the service runs
Begin(t) ==
  /\ At(t, "begin")
  /\ job' = [job EXCEPT ![t].pc = Entry(job[t].role)]
  /\ UNCHANGED <<taskVars, result, storeVars, controllers, cluster, eventVars, faults>>

\* wait.Add is called by the goroutine itself, after wait.Wait may have
\* returned: the controller is taken off the list before its work begins.
\* restart adds first.
EarlyCallback(t) ==
  /\ At(t, "begin") /\ t \in controllers
  /\ job[t].role # "restart"
  /\ controllers' = controllers \ {t}
  /\ UNCHANGED <<taskVars, result, storeVars, job, cluster, eventVars, faults>>

\* The goroutine ends, with or without a message that ends the event, and the
\* controller is taken off the list
Finish(t, r) ==
  /\ job' = [job EXCEPT ![t] = NoJob]
  /\ controllers' = controllers \ {t}
  /\ result' = IF job[t].role = "cleanup" THEN result ELSE [result EXCEPT ![t] = r]

Goto(t, pc) ==
  /\ job' = [job EXCEPT ![t].pc = pc]
  /\ UNCHANGED <<result, controllers>>

\* A failed start that only reports
CreateFails_NoCleanup(t) == Finish(t, "failure")

\* A step of startOne that returns an error: a start reports the failure and
\* runs errorCallback, which is stopOne on its copy of the AppService
CreateFails(t) ==
  IF job[t].role = "start"
  THEN /\ job' = [job EXCEPT ![t].role = "cleanup", ![t].pc = "delete svc"]
       /\ result' = [result EXCEPT ![t] = "failure"]
       /\ UNCHANGED controllers
  ELSE Finish(t, "failure")

\* startOne: config maps and claims; AlreadyExists is no error
CreateConfig(t) ==
  /\ At(t, "create config")
  /\ cluster' = [cluster EXCEPT !.config = TRUE, !.claims = cluster.claims \/ HasClaims]
  /\ Goto(t, "create deploy")
  /\ UNCHANGED <<taskVars, storeVars, eventVars, faults>>

\* startOne: the workload; AlreadyExists is an error
CreateDeploy(t) ==
  /\ At(t, "create deploy")
  /\ \/ /\ cluster.deploy = Nil
        /\ LET d == [uid |-> t, ver |-> job[t].ver, rv |-> TRUE, ready |-> FALSE]
           IN  /\ cluster' = [cluster EXCEPT !.deploy = d]
               /\ deployEvents' = Append(deployEvents, d)
        /\ Goto(t, "create svc")
     \/ /\ cluster.deploy # Nil
        /\ CreateFails(t)
        /\ UNCHANGED <<cluster, deployEvents>>
  /\ UNCHANGED <<taskVars, storeVars, podEvents, faults>>

\* startOne: services, secrets with those of the environment variables, ingresses
CreateSvc(t) ==
  /\ At(t, "create svc")
  /\ cluster' = [cluster EXCEPT !.svc = TRUE, !.env = TRUE]
  /\ Goto(t, "create hpa")
  /\ UNCHANGED <<taskVars, storeVars, eventVars, faults>>

\* startOne: autoscalers and monitors (m: whether there are any then);
\* WaitingReady reads the object it will poll
CreateRest(t, m) ==
  /\ At(t, "create hpa")
  /\ cluster' = [cluster EXCEPT !.hpa = TRUE, !.monitors = m]
  /\ job' = [job EXCEPT ![t].pc = "ready", ![t].watch = entry]
  /\ UNCHANGED <<taskVars, result, controllers, storeVars, eventVars>>
CreateHpa(t) == CreateRest(t, TRUE) /\ UNCHANGED faults

\* What a step has created when one of its calls fails half-way
Halfway(t) ==
  CASE At(t, "create config") -> [cluster EXCEPT !.config = TRUE]
    [] At(t, "create svc")    -> [cluster EXCEPT !.svc = TRUE]
    [] At(t, "create hpa")    -> [cluster EXCEPT !.hpa = TRUE]
    [] OTHER                  -> cluster

\* A call of startOne fails; one for a monitor is only logged, see LoggedError
CreateError(t) ==
  /\ job[t].pc \in {"create config", "create deploy", "create svc", "create hpa"}
  /\ faults < MaxFaults /\ faults' = faults + 1
  /\ cluster' \in {cluster, Halfway(t)}
  /\ CreateFails(t)
  /\ UNCHANGED <<taskVars, storeVars, eventVars>>

\* stopOne: services, secrets and ingresses; not the secrets of the environment
\* variables, which no stop removes
DeleteSvc(t) ==
  /\ At(t, "delete svc")
  /\ cluster' = [cluster EXCEPT !.svc = FALSE]
  /\ Goto(t, "delete config")
  /\ UNCHANGED <<taskVars, storeVars, eventVars, faults>>

\* stopOne: config maps; not the claims, which no stop removes
DeleteConfig(t) ==
  /\ At(t, "delete config")
  /\ cluster' = [cluster EXCEPT !.config = FALSE]
  /\ Goto(t, "delete deploy")
  /\ UNCHANGED <<taskVars, storeVars, eventVars, faults>>

\* stopOne: the workload, by name, if the copy has one; OnDeletes then takes it
\* out of the cached object
DeleteDeploy(t) ==
  /\ At(t, "delete deploy")
  /\ IF job[t].deploy
     THEN /\ cluster' = [cluster EXCEPT !.deploy = Nil]
          /\ deployEvents' = IF cluster.deploy = Nil THEN deployEvents
                             ELSE Append(deployEvents, Nil)
          /\ app' = IF entry = NoApp THEN app ELSE SetDeployment(entry, Nil)
     ELSE UNCHANGED <<cluster, deployEvents, app>>
  /\ Goto(t, "delete pods")
  /\ UNCHANGED <<taskVars, synced, entry, podEvents, faults>>

\* stopOne: the pods of the copy
DeletePods(t) ==
  /\ At(t, "delete pods")
  /\ LET gone == job[t].pods \cap cluster.pods
     IN  /\ cluster' = [cluster EXCEPT !.pods = @ \ gone]
         /\ podEvents' = podEvents \o SetToSeq({[add |-> FALSE, pod |-> p] : p \in gone})
  /\ Goto(t, "delete hpa")
  /\ UNCHANGED <<taskVars, storeVars, deployEvents, faults>>

\* stopOne: autoscalers and monitors; WaitingReady reads the object it will poll,
\* and WaitStop returns at once when there is none
DeleteRest(t, m) ==
  /\ At(t, "delete hpa")
  /\ cluster' = [cluster EXCEPT !.hpa = FALSE, !.monitors = m]
  /\ job' = [job EXCEPT ![t].pc = "closed", ![t].watch = entry]
  /\ UNCHANGED <<taskVars, result, controllers, storeVars, eventVars>>
DeleteHpa(t) == DeleteRest(t, FALSE) /\ UNCHANGED faults

\* A call of stopOne fails, or InitAppService after it in a restart
DeleteError(t) ==
  /\ job[t].pc \in {"delete svc", "delete config", "delete deploy", "delete pods",
                    "delete hpa", "regist"}
  /\ faults < MaxFaults /\ faults' = faults + 1
  /\ Finish(t, "failure")
  /\ UNCHANGED <<taskVars, storeVars, cluster, eventVars>>

\* upgradeOne: config maps
UpgradeConfig(t) ==
  /\ At(t, "upgrade config")
  /\ cluster' = [cluster EXCEPT !.config = TRUE]
  /\ Goto(t, "patch")
  /\ UNCHANGED <<taskVars, storeVars, eventVars, faults>>

\* upgradeOne: the patch gives the workload the new version, and claims are made.
\* Without a workload, or with an empty patch, the call fails.
Patch(t) ==
  /\ At(t, "patch")
  /\ \/ /\ cluster.deploy # Nil /\ job[t].deploy
        /\ cluster' = [cluster EXCEPT !.deploy.ver = job[t].ver,
                                      !.claims = cluster.claims \/ HasClaims]
        /\ deployEvents' = Append(deployEvents, cluster'.deploy)
        /\ Goto(t, "upgrade svc")
     \/ /\ cluster.deploy = Nil \/ ~job[t].deploy
        /\ Finish(t, "failure")
        /\ UNCHANGED <<cluster, deployEvents>>
  /\ UNCHANGED <<taskVars, storeVars, podEvents, faults>>

\* upgradeOne: services, secrets and ingresses (s), the secrets of the environment
\* variables, and monitors (m); no autoscalers
UpgradeRest(t, s, m) ==
  /\ At(t, "upgrade svc")
  /\ cluster' = [cluster EXCEPT !.svc = s, !.env = TRUE, !.monitors = m]
  /\ job' = [job EXCEPT ![t].pc = "upgraded", ![t].watch = entry]
  /\ UNCHANGED <<taskVars, result, controllers, storeVars, eventVars>>
UpgradeSvc(t) == UpgradeRest(t, TRUE, TRUE) /\ UNCHANGED faults

\* A call of upgradeOne fails that it returns for: one for the namespace, the patch,
\* a claim or a secret of the environment variables
UpgradeError(t) ==
  /\ job[t].pc \in {"upgrade config", "patch", "upgrade svc"}
  /\ faults < MaxFaults /\ faults' = faults + 1
  /\ Finish(t, "failure")
  /\ UNCHANGED <<taskVars, storeVars, cluster, eventVars>>

\* A call fails and the operation goes on: one for a monitor, and in an upgrade one
\* for a config map, a service, a secret or an ingress
LoggedError(t) ==
  /\ faults < MaxFaults /\ faults' = faults + 1
  /\ \/ CreateRest(t, cluster.monitors) \/ DeleteRest(t, cluster.monitors)
     \/ UpgradeRest(t, TRUE, cluster.monitors) \/ UpgradeRest(t, cluster.svc, TRUE)
     \/ /\ At(t, "upgrade config") /\ Goto(t, "patch")
        /\ UNCHANGED <<taskVars, storeVars, cluster, eventVars>>

Waiting == {"ready", "closed", "upgraded"}

\* The condition a wait polls for on its object
Reached(t) ==
  LET a == job[t].watch
  IN  CASE At(t, "ready")    -> a # NoApp /\ Ready(a)
        [] At(t, "closed")   -> IF a = NoApp THEN TRUE ELSE IsClosed(a)
        [] At(t, "upgraded") -> IF a = NoApp THEN TRUE ELSE UpgradeComlete(a)
        [] OTHER             -> FALSE

\* WaitReady, WaitStop and WaitUpgradeReady return nil.  A restart goes on with
\* a new AppService.
PollDone(t) ==
  /\ Reached(t)
  /\ IF job[t].role = "restart" /\ At(t, "closed") THEN Goto(t, "regist")
     ELSE Finish(t, "success")
  /\ UNCHANGED <<taskVars, storeVars, cluster, eventVars, faults>>

\* A poll after the first ones: UpdateGetAppService.  An upgrade never does it.
PollRefresh(t) ==
  /\ job[t].pc \in {"ready", "closed"}
  /\ ~Reached(t)
  /\ entry # NoApp
  /\ app' = Refreshed(entry)
  /\ job' = [job EXCEPT ![t].watch = entry]
  /\ UNCHANGED <<taskVars, result, controllers, synced, entry, cluster, eventVars, faults>>

\* ErrWaitTimeOut: a start, stop or upgrade reports it; a restart gives the
\* service another while to stop and goes on, and takes a start that timed out
\* for a success
PollTimeout(t) ==
  /\ job[t].pc \in Waiting /\ ~Reached(t)
  /\ IF job[t].role # "restart" THEN Finish(t, "timeout")
     ELSE IF At(t, "closed") THEN Goto(t, "regist") ELSE Finish(t, "success")
  /\ UNCHANGED <<taskVars, storeVars, cluster, eventVars, faults>>

\* restartOne: a new AppService is registered and started
RestartRegist(t) ==
  /\ At(t, "regist")
  /\ app' = [app EXCEPT ![t] = NewApp(dbVersion)]
  /\ entry' = t
  /\ job' = [job EXCEPT ![t] = [@ EXCEPT !.pc = "create config", !.ver = dbVersion,
                                         !.deploy = TRUE, !.pods = {}]]
  /\ UNCHANGED <<taskVars, result, controllers, synced, cluster, eventVars, faults>>

Controller(t) ==
  \/ Begin(t) \/ CreateConfig(t) \/ CreateDeploy(t) \/ CreateSvc(t) \/ CreateHpa(t)
  \/ DeleteSvc(t) \/ DeleteConfig(t) \/ DeleteDeploy(t) \/ DeletePods(t) \/ DeleteHpa(t)
  \/ UpgradeConfig(t) \/ Patch(t) \/ UpgradeSvc(t)
  \/ PollDone(t) \/ PollTimeout(t) \/ RestartRegist(t)

-----------------------------------------------------------------------------
(***************************************************************************)
(* The cluster and the informers                                           *)
(***************************************************************************)

\* The bound on how far the informers are behind
InTime(events) == mode = "free" => Len(events) < MaxLag

\* The workload gets the pod of its version
PodStarts ==
  /\ cluster.deploy # Nil /\ InTime(podEvents)
  /\ LET p == [uid |-> cluster.deploy.uid, ver |-> cluster.deploy.ver]
     IN  /\ p \notin cluster.pods
         /\ cluster' = [cluster EXCEPT !.pods = @ \cup {p}]
         /\ podEvents' = Append(podEvents, [add |-> TRUE, pod |-> p])
  /\ UNCHANGED <<taskVars, result, storeVars, controllers, job, deployEvents, faults>>

\* ... the pod becomes ready
PodReady ==
  /\ ~cluster.deploy.ready /\ InTime(deployEvents)
  /\ [uid |-> cluster.deploy.uid, ver |-> cluster.deploy.ver] \in cluster.pods
  /\ cluster' = [cluster EXCEPT !.deploy.ready = TRUE]
  /\ deployEvents' = Append(deployEvents, cluster'.deploy)
  /\ UNCHANGED <<taskVars, result, storeVars, controllers, job, podEvents, faults>>

\* ... a pod whose workload is gone, or that the rolling upgrade has replaced,
\* is removed
PodEnds(p) ==
  /\ p \in cluster.pods /\ InTime(podEvents)
  /\ \/ p.uid # cluster.deploy.uid \/ cluster.deploy = Nil
     \/ p.ver # cluster.deploy.ver
        /\ [uid |-> p.uid, ver |-> cluster.deploy.ver] \in cluster.pods
  /\ cluster' = [cluster EXCEPT !.pods = @ \ {p}]
  /\ podEvents' = Append(podEvents, [add |-> FALSE, pod |-> p])
  /\ UNCHANGED <<taskVars, result, storeVars, controllers, job, deployEvents, faults>>

\* getAppService: the cached object is made when there is none
CacheApp == [NewApp(dbVersion) EXCEPT !.deployment = Nil]

\* OnDelete with a DeleteAppService that deletes the object of a closed service
OnDeploy_DeleteObject ==
  /\ synced /\ deployEvents # <<>>
  /\ LET d == Head(deployEvents)
     IN  IF entry # NoApp
         THEN /\ app' = SetDeployment(entry, d)
              /\ entry' = IF d = Nil /\ app[entry].pods = {} THEN NoApp ELSE entry
         ELSE IF d = Nil THEN UNCHANGED <<app, entry>>
         ELSE /\ entry' = 0
              /\ app' = [app EXCEPT ![0] = [CacheApp EXCEPT !.deployment = d, !.ver = d.ver]]
  /\ deployEvents' = Tail(deployEvents)
  /\ UNCHANGED <<taskVars, result, synced, controllers, job, cluster, podEvents, faults>>

\* OnAdd, OnUpdate and OnDelete of workloads.  DeleteAppService does nothing.
OnDeploy ==
  /\ synced /\ deployEvents # <<>>
  /\ LET d == Head(deployEvents)
     IN  IF entry # NoApp THEN app' = SetDeployment(entry, d) /\ UNCHANGED entry
         ELSE IF d = Nil THEN UNCHANGED <<app, entry>>
         ELSE /\ entry' = 0
              /\ app' = [app EXCEPT ![0] = [CacheApp EXCEPT !.deployment = d, !.ver = d.ver]]
  /\ deployEvents' = Tail(deployEvents)
  /\ UNCHANGED <<taskVars, result, synced, controllers, job, cluster, podEvents, faults>>

\* podEventHandler
OnPod ==
  /\ synced /\ podEvents # <<>>
  /\ LET e == Head(podEvents)
     IN  IF e.add
         THEN IF entry = NoApp
              THEN entry' = 0 /\ app' = [app EXCEPT ![0] = [CacheApp EXCEPT !.pods = {e.pod}]]
              ELSE app' = [app EXCEPT ![entry].pods = @ \cup {e.pod}] /\ UNCHANGED entry
         ELSE /\ app' = IF entry = NoApp THEN app
                        ELSE [app EXCEPT ![entry].pods = @ \ {e.pod}]
              /\ UNCHANGED entry
  /\ podEvents' = Tail(podEvents)
  /\ UNCHANGED <<taskVars, result, synced, controllers, job, cluster, deployEvents, faults>>

\* The worker crashes: its objects and controllers are gone, and nobody answers
\* the tasks they worked on, nor the one it may just have taken from the queue.
\* (When operations do not overlap, no task waits across a crash, see the README.)
Crash ==
  /\ faults < MaxFaults /\ faults' = faults + 1
  /\ queue' = queue \/ (queue # <<>> /\ queue' = Tail(queue))
  /\ mode # "free" => queue' = <<>>
  /\ result' = [t \in Tasks |->
       IF ~Over(t) /\ (job[t] # NoJob \/ (queue' # queue /\ t = Head(queue)))
       THEN "lost" ELSE result[t]]
  /\ synced' = FALSE
  /\ entry' = NoApp
  /\ app' = [a \in Apps |-> [NewApp(0) EXCEPT !.deployment = Nil]]
  /\ controllers' = {}
  /\ job' = [t \in Tasks |-> NoJob]
  /\ deployEvents' = <<>> /\ podEvents' = <<>>
  /\ UNCHANGED <<mode, kind, dbVersion, cluster>>

\* Store.Start: the informers list the cluster; their handlers follow.  A service
\* gets its object at once from a resource other than workload and pods (the
\* secrets of the environment variables do not name the service).
Sync ==
  /\ ~synced /\ synced' = TRUE
  /\ deployEvents' = IF cluster.deploy = Nil THEN <<>> ELSE <<cluster.deploy>>
  /\ podEvents' = SetToSeq({[add |-> TRUE, pod |-> p] : p \in cluster.pods})
  /\ IF cluster.config \/ cluster.claims \/ cluster.svc \/ cluster.hpa \/ cluster.monitors
     THEN entry' = 0 /\ app' = [app EXCEPT ![0] = CacheApp]
     ELSE UNCHANGED <<entry, app>>
  /\ UNCHANGED <<taskVars, result, controllers, job, cluster, faults>>

Next ==
  \/ \E t \in Tasks, k \in Kinds : Submit(t, k)
  \/ Exec \/ ExecFails \/ PatchFails \/ Requeue \/ RequeueFails
  \/ \E t \in Tasks : \/ Controller(t) \/ EarlyCallback(t) \/ PollRefresh(t)
                       \/ CreateError(t) \/ DeleteError(t) \/ UpgradeError(t) \/ LoggedError(t)
  \/ PodStarts \/ PodReady \/ \E p \in cluster.pods : PodEnds(p)
  \/ OnDeploy \/ OnPod
  \/ Crash \/ Sync

Spec == Init /\ [][Next]_vars

-----------------------------------------------------------------------------
(***************************************************************************)
(* Properties                                                              *)
(***************************************************************************)

Pod == [uid : Apps, ver : Nat]
AppObject == [deployment : Workload, pods : SUBSET Pod, ver : Nat]
Roles == {"none", "start", "stop", "restart", "upgrade", "cleanup"}
PCs == {"none", "begin", "create config", "create deploy", "create svc", "create hpa", "ready",
        "delete svc", "delete config", "delete deploy", "delete pods", "delete hpa", "closed",
        "upgrade config", "patch", "upgrade svc", "upgraded", "regist"}
Job == [role : Roles, pc : PCs, ver : Nat, deploy : BOOLEAN, pods : SUBSET Pod, watch : Apps \cup {NoApp}]

TypeOK ==
  /\ mode \in {"free", "serial", "settled"} /\ synced \in BOOLEAN
  /\ kind \in [Tasks -> Kinds \cup {"none"}]
  /\ result \in [Tasks -> {"none", "success", "failure", "timeout", "refused", "lost"}]
  /\ dbVersion \in Nat /\ faults \in 0..MaxFaults
  /\ queue \in Seq(Tasks)
  /\ entry \in Apps \cup {NoApp}
  /\ app \in [Apps -> AppObject]
  /\ controllers \subseteq Tasks
  /\ job \in [Tasks -> Job]
  /\ cluster \in [config : BOOLEAN, claims : BOOLEAN, deploy : Workload, svc : BOOLEAN,
                  env : BOOLEAN, hpa : BOOLEAN, monitors : BOOLEAN, pods : SUBSET Pod]
  /\ deployEvents \in Seq(Workload)
  /\ podEvents \in Seq([add : BOOLEAN, pod : Pod])

\* WaitReady and upgradeOne use the object of the service without a test for
\* nil: whatever runs at the same time, there is one from the moment the task is
\* taken until its controller ends.
ObjectStays ==
  \A t \in Tasks :
    /\ job[t].role \in {"start", "upgrade", "cleanup"} => entry # NoApp
    /\ At(t, "ready") => job[t].watch # NoApp

\* t is the last request so far, and users do not let operations overlap
Alone(t) == mode # "free" /\ kind[t] # "none" /\ \A u \in Tasks : u > t => kind[u] = "none"

\* The status a user sees: a task that was refused ends its event with success
Status(t) == IF result[t] = "refused" THEN "success" ELSE result[t]

\* No workload, config maps, services, secrets, ingresses and autoscalers.  Claims and
\* the secrets of environment variables are left: stopOne never removes them.
Nothing == cluster.deploy = Nil /\ ~cluster.config /\ ~cluster.svc /\ ~cluster.hpa

\* ... nor monitors, unless more calls than n failed: that the removal of a monitor
\* failed is only logged
Gone(n) == Nothing /\ (faults <= n => ~cluster.monitors)

\* When operations do not overlap, a stop that reports success, one that was refused
\* for want of an object too, leaves no workload and no other resource but claims and
\* secrets of environment variables, and they stay away: no informer event and no
\* controller of an earlier operation brings them back.
StopMeansGone ==
  \A t \in Tasks : Alone(t) /\ kind[t] = "stop" /\ Status(t) = "success" => Gone(0)

\* ... a start or restart that reports success has made the workload that is there,
\* and a start has seen its replica ready: it is never taken in by what the informers
\* still deliver of an earlier workload.  One that was refused reports success too: a
\* start, if the service had settled before, because a ready workload is there; a
\* restart because the service has nothing, and it is not started.
StartMeansOwn ==
  \A t \in Tasks : Alone(t) /\ Status(t) = "success" =>
    IF result[t] # "refused"
    THEN /\ kind[t] \in {"start", "restart"} => cluster.deploy.uid = t
         /\ kind[t] = "start" => cluster.deploy.ready
    ELSE /\ kind[t] = "start" /\ mode = "settled" => cluster.deploy # Nil /\ cluster.deploy.ready
         /\ kind[t] = "restart" => Nothing

\* ... a start that failed half-way removes what it made but claims and the secrets of
\* environment variables: it is gone when its cleanup begins to wait for the pods, and,
\* unless another call failed meanwhile, it stays away when the cleanup is over.
\* (entry = t: the start got past InitAppService.)
FailedStartMeansGone ==
  \A t \in Tasks : Alone(t) /\ kind[t] = "start" =>
    /\ job[t].role = "cleanup" /\ At(t, "closed") => Gone(1)
    /\ (/\ result[t] = "failure" /\ job[t] = NoJob
        /\ entry = t /\ faults <= 1) => Gone(1)

\* ... and when the service had settled before, an upgrade that reports success
\* has left no pod of an older version.
UpgradeMeansNew ==
  \A t \in Tasks : (/\ Alone(t) /\ mode = "settled"
                   /\ kind[t] = "upgrade" /\ result[t] = "success")
    => \A p \in cluster.pods : p.ver = cluster.deploy.ver

\* A task that was submitted is in the queue, at work, answered, or lost, and only
\* one of these: no interleaving of the loop, the controllers and other tasks forgets
\* it or carries it out twice.  Only a failed Enqueue or a crash loses one, and a lost
\* task does not come back.
NoTaskForgotten ==
  /\ \A t \in Tasks : kind[t] # "none" /\ ~Over(t) =>
       (t \in ToSet(queue)) # (job[t] # NoJob)
  /\ \A i, j \in DOMAIN queue : queue[i] = queue[j] => i = j
  /\ \A i \in DOMAIN queue : ~Over(queue[i])
  /\ \A t \in Tasks : result[t] = "lost" => job[t] = NoJob /\ faults > 0

\* errorCallback announces "Begin clean resources that have been created": the
\* workload it is about to delete is the one its start created.
CleanupIsOwn ==
  \A t \in Tasks : (job[t].role = "cleanup" /\ At(t, "delete deploy") /\ job[t].deploy)
    => cluster.deploy = Nil \/ cluster.deploy.uid = t

\* MaxTasks is "the max tasks for per node": no more operations are at work.
TasksBounded == Cardinality({t \in Tasks : job[t] # NoJob}) <= MaxTasks

\* The store is ready when the informers have synced, and tasks are taken from then
\* on: a stop that no other operation disturbed finds the workload and removes it.
ReadyMeansKnown ==
  \A t \in Tasks :
    (/\ kind[t] = "stop" /\ result[t] = "success"
     /\ \A u \in Tasks : u # t => kind[u] = "none")
    => cluster.deploy = Nil

=============================================================================
