----------------------------- MODULE BatchStart -----------------------------
(***************************************************************************)
(* Starting a batch of services in the order of their dependencies         *)
(* (api/handler/service_batch_operation.go, Start).  The API works out     *)
(* for every service of the batch which of its dependencies it has to wait *)
(* for, takes the memory of the batch from what is allocatable, and sends  *)
(* one start task per admitted request.  In the cluster the init container *)
(* of a service (cmd/init-probe) holds its start back until the services   *)
(* named in its task are ready; a service that is not in a built-in mesh   *)
(* has no such container and starts at once.                               *)
(*                                                                         *)
(* The dependencies of a service come from the database and may point      *)
(* outside the batch.  A list of the code is a sequence; the order of the  *)
(* dependencies of one service has no influence on the result and is left  *)
(* out.  External: the database, the cluster (an admitted container whose  *)
(* init container ended becomes ready) and the discovery server an init    *)
(* container asks for clusters and endpoints.                              *)
(***************************************************************************)
EXTENDS Integers, Sequences, SequencesExt

CONSTANTS Services,     \* the services of the tenant
          Batches,      \* the orders in which a request may list services
          Memory,       \* ContainerMemory * Replicas of every service
          Allocatable,  \* the amounts of memory that may be free
          Running,      \* the sets of services that may run when the request comes
          Domains,      \* third-party services reached by a domain name
          Modes         \* the governance modes of the applications

BuildInServiceMesh == "BUILD_IN_SERVICE_MESH"

ASSUME BatchAssumption ==
  /\ Batches \subseteq Seq(Services)
  /\ Memory \in [Services -> Nat]
  \* a tenant may use more than its limit, which leaves less than nothing
  /\ Allocatable \subseteq Int
  /\ Running \subseteq SUBSET Services /\ Domains \subseteq Services

VARIABLES
  deps,       \* the relations of the database: service -> what it depends on
  serviceIDs, \* the services of the request, in its order
  pc,         \* of the handler: "start", "search", "memory", "send" or "failed"
  lists,      \* the lists buildLinkListByHead has still to continue
  ended,      \* the lists it has returned
  allcm,      \* AllocMemory.allcm: the memory still allocatable
  checked,    \* how many requests NewAllocMemory has checked
  validRequestes, \* the requests it has admitted
  sent,       \* how many of them the loop of Start has dealt with
  bootSeq,    \* boot_seq_dep_service_ids of the task of a service
  status,     \* of a service: "off", "waiting" (its task was taken) or "ready"
  needProxy,  \* the services started by the batch with NeedProxy
  early       \* history: services whose init container looked at no endpoint

searchVars == <<lists, ended>>
memoryVars == <<allcm, checked, validRequestes>>
taskVars   == <<sent, bootSeq, status, needProxy, early>>
vars == <<deps, serviceIDs, pc, searchVars, memoryVars, taskVars>>

Batch == ToSet(serviceIDs)

-----------------------------------------------------------------------------
(***************************************************************************)
(* The startup sequence                                                    *)
(***************************************************************************)

\* NewServiceDependency: only the relations of the batch are read
sid2depsids(s) == IF s \in Batch THEN deps[s] ELSE {}

depsid2sids(d) == {s \in Batch : d \in deps[s]}

\* The first service of the request that has dependencies, if there is one
firstWithDeps ==
  {serviceIDs[i] : i \in {j \in DOMAIN serviceIDs :
                            /\ sid2depsids(serviceIDs[j]) # {}
                            /\ \A k \in 1..(j - 1) : sid2depsids(serviceIDs[k]) = {}}}

\* headNodes of a graph taken for one ring: only the first service
headNodes_FirstOnly == firstWithDeps

\* headNodes: the services of the batch nobody depends on, and in any case
\* the first service that has dependencies
headNodes == {s \in Batch : depsid2sids(s) = {}} \cup firstWithDeps

alreadyInLinkedList(l, d) == d \in ToSet(l)

childInLinkedList(l, d) == sid2depsids(d) \cap ToSet(l) # {}

\* follows without the look at the child's own dependencies
follows_NoChild(l) ==
  {d \in sid2depsids(Last(l)) : ~alreadyInLinkedList(l, d)}

\* buildLinkListByHead: the dependencies that continue the list l.  One that is
\* on the list, or that has one of its own dependencies on it, ends it.
follows(l) ==
  {d \in sid2depsids(Last(l)) : ~alreadyInLinkedList(l, d) /\ ~childInLinkedList(l, d)}

\* ... and whether l itself is among the lists it returns
ends(l) == sid2depsids(Last(l)) = {} \/ follows(l) # sid2depsids(Last(l))

\* serviceStartupSequence: a service waits for what comes after it on a list
serviceStartupSequence(s) ==
  {d \in Services : \E l \in ended : \E i \in 1..(Len(l) - 1) : l[i] = s /\ l[i + 1] = d}

-----------------------------------------------------------------------------
(***************************************************************************)
(* The handler                                                             *)
(***************************************************************************)

Init ==
  /\ serviceIDs \in Batches
  /\ deps \in [Services -> SUBSET Services]
  /\ \A s \in Services : s \notin deps[s] /\ (s \notin Batch => deps[s] = {})
  /\ pc = "start" /\ lists = {} /\ ended = {}
  /\ allcm \in Allocatable
  /\ checked = 0 /\ validRequestes = <<>> /\ sent = 0
  /\ bootSeq = [s \in Services |-> {}]
  \* a service, of the batch or not, is running already or not
  /\ \E run \in Running : status = [s \in Services |-> IF s \in run THEN "ready" ELSE "off"]
  /\ needProxy = {} /\ early = {}

\* The relations are read; a list is begun for every head
NewServiceDependency ==
  /\ pc = "start"
  /\ pc' = "search"
  /\ lists' = {<<h>> : h \in headNodes}
  /\ UNCHANGED <<deps, serviceIDs, ended, memoryVars, taskVars>>

\* The recursion of buildLinkListByHead, one level of all its lists at a time:
\* a call changes nothing but what it returns, so their order has no influence
buildLinkListByHead ==
  /\ pc = "search" /\ lists # {}
  /\ lists' = UNION {{Append(l, d) : d \in follows(l)} : l \in lists}
  /\ ended' = ended \cup {l \in lists : ends(l)}
  /\ UNCHANGED <<deps, serviceIDs, pc, memoryVars, taskVars>>

\* The sequence is known: NewAllocMemory reads the memory and the services
NewAllocMemory ==
  /\ pc = "search" /\ lists = {}
  /\ pc' = "memory"
  /\ UNCHANGED <<deps, serviceIDs, searchVars, memoryVars, taskVars>>

\* check without the subtraction of what was granted
check_NoSubtract(s) ==
  \/ UNCHANGED <<allcm, validRequestes>>
  \/ Memory[s] <= allcm /\ validRequestes' = Append(validRequestes, s) /\ UNCHANGED allcm

\* AllocMemory.check, and what NewAllocMemory does with its answer.  A request is
\* refused for want of memory, or because the database has no such component.
check(s) ==
  \/ UNCHANGED <<allcm, validRequestes>>
  \/ /\ Memory[s] <= allcm
     /\ allcm' = allcm - Memory[s]
     /\ validRequestes' = Append(validRequestes, s)

\* The next request in the loop of NewAllocMemory
Check ==
  /\ pc = "memory" /\ checked < Len(serviceIDs)
  /\ checked' = checked + 1
  /\ check(serviceIDs[checked + 1])
  /\ UNCHANGED <<deps, serviceIDs, pc, searchVars, taskVars>>

\* The events are written, in one transaction.  checkEvents, before, asks for
\* SYNEVENTTYPE, for which CanDoEvent always agrees, so it refuses nothing.
createEvents ==
  /\ pc = "memory" /\ checked = Len(serviceIDs)
  /\ pc' = "send"
  /\ UNCHANGED <<deps, serviceIDs, searchVars, memoryVars, taskVars>>

\* The request fails: the memory cannot be read or the events not be written, or
\* the relations cannot (NewServiceDependency is only said to have failed and
\* returns nil, which the next call uses)
Fail ==
  /\ \/ pc = "start"
     \/ pc = "search" /\ lists = {}
     \/ pc = "memory" /\ checked = Len(serviceIDs)
  /\ pc' = "failed"
  /\ UNCHANGED <<deps, serviceIDs, searchVars, memoryVars, taskVars>>

\* createEnv: with dependencies and a built-in mesh the service gets a proxy
NeedProxy(s, mode) == IF deps[s] # {} /\ mode = BuildInServiceMesh THEN {s} ELSE {}

\* startExec of the worker: a service that is not closed is not started again
startExec(s) ==
  \/ /\ status[s] = "off"
     /\ status' = [status EXCEPT ![s] = "waiting"]
     /\ bootSeq' = [bootSeq EXCEPT ![s] = serviceStartupSequence(s)]
     /\ \E mode \in Modes : needProxy' = needProxy \cup NeedProxy(s, mode)
  \/ status[s] # "off" /\ UNCHANGED <<status, bootSeq, needProxy>>

\* The loop of Start sends the task of the next admitted request
Send ==
  /\ pc = "send" /\ sent < Len(validRequestes)
  /\ sent' = sent + 1
  /\ startExec(validRequestes[sent + 1])
  /\ UNCHANGED <<deps, serviceIDs, pc, searchVars, memoryVars, early>>

\* ... or the queue refuses it, and the loop goes on with the next one
SendFails ==
  /\ pc = "send" /\ sent < Len(validRequestes)
  /\ sent' = sent + 1
  /\ UNCHANGED <<deps, serviceIDs, pc, searchVars, memoryVars, bootSeq, status, needProxy, early>>

-----------------------------------------------------------------------------
(***************************************************************************)
(* The services                                                            *)
(***************************************************************************)

\* createEnv with every dependency of the service
startupSequenceDependencies_All(s) == deps[s]

\* createEnv: the names in STARTUP_SEQUENCE_DEPENDENCIES
startupSequenceDependencies(s) == bootSeq[s] \cap deps[s]

\* conversionServicePlugin: whether the pods of a service have the init container
initContainer(s) == s \in needProxy /\ bootSeq[s] # {}

\* checkEDS, last part: every named service has a ready endpoint or is a domain
checkEDS(s) ==
  \A d \in startupSequenceDependencies(s) : d \in Domains \/ status[d] = "ready"

Becomes(s) ==
  /\ status[s] = "waiting"
  /\ status' = [status EXCEPT ![s] = "ready"]
  /\ UNCHANGED <<deps, serviceIDs, pc, searchVars, memoryVars, sent, bootSeq, needProxy>>

\* A service without init container does not wait
Boot(s) ==
  /\ ~initContainer(s)
  /\ Becomes(s) /\ UNCHANGED early

\* Check of the init container passes and the service becomes ready
CheckPasses(s) ==
  /\ initContainer(s) /\ checkEDS(s)
  /\ Becomes(s) /\ UNCHANGED early

\* ... or checkEDS returns at its beginning: as many clusters are known as domains
\* among them.  That is so when all known ones are domains, and also when the
\* discovery server knows no cluster of a dependency yet.
CheckPassesEarly(s) ==
  /\ initContainer(s)
  /\ Becomes(s) /\ early' = early \cup {s}

Handler ==
  \/ NewServiceDependency \/ buildLinkListByHead
  \/ NewAllocMemory \/ Check \/ createEvents \/ Fail
  \/ Send \/ SendFails

Next ==
  \/ Handler
  \/ \E s \in Services : Boot(s) \/ CheckPasses(s) \/ CheckPassesEarly(s)

\* The handler runs to its end, and an init container checks again every five
\* seconds.  Nothing makes the discovery server be late.
Spec ==
  /\ Init /\ [][Next]_vars
  /\ WF_vars(Handler) /\ \A s \in Services : WF_vars(Boot(s) \/ CheckPasses(s))

-----------------------------------------------------------------------------
(***************************************************************************)
(* Properties                                                              *)
(***************************************************************************)

TypeOK ==
  /\ deps \in [Services -> SUBSET Services]
  /\ serviceIDs \in Seq(Services)
  /\ pc \in {"start", "search", "memory", "send", "failed"}
  /\ lists \subseteq Seq(Services) \ {<<>>} /\ ended \subseteq Seq(Services) \ {<<>>}
  /\ allcm \in Int
  /\ checked \in 0..Len(serviceIDs)
  /\ validRequestes \in Seq(Services) /\ sent \in 0..Len(validRequestes)
  /\ bootSeq \in [Services -> SUBSET Services]
  /\ status \in [Services -> {"off", "waiting", "ready"}]
  /\ needProxy \subseteq Services /\ early \subseteq Services

\* The relation r has no cycle among the services of a set: any of its parts
\* has a service that no other of the part leads to.
NoCycle(set, r) ==
  \A part \in SUBSET set : part # {} => \E s \in part : \A t \in part : s \notin r[t]

\* "The order in which services are started is determined by their
\* dependencies": when the dependencies have no cycle, the search loses none of
\* them, so a service the batch started in a mesh is ready only after all it
\* depends on, whichever order the request lists them in.  Nothing is said of a
\* service without proxy, which does not wait, of one that ran before, and of one
\* whose init container returned early.
BootOrder ==
  (\E s \in needProxy \ early : /\ status[s] = "ready"
                              /\ \E d \in deps[s] \ Domains : status[d] # "ready")
    => ~NoCycle(Services, deps)

\* "Health based conditions ... every service has at least one Ready instance": a
\* service with an init container is ready only after the services named to it.
EveryNamedIsReady ==
  \A s \in Services : initContainer(s) /\ status[s] = "ready" => checkEDS(s)

\* Two services of a batch that depend on each other never both wait for the
\* other (in fact neither does: the list ends before either of them).
NoMutualWait ==
  \A s, t \in Batch : ~(t \in bootSeq[s] /\ s \in bootSeq[t])

\* The search never leaves services waiting in a circle
NoBootCycle == NoCycle(Services, bootSeq)

\* What the admitted requests take and what is left make up what was
\* allocatable when the request came, and a batch is granted no more than there
\* is: nothing at all when the tenant is over its limit.  A service named twice is
\* charged twice.
MemoryFits ==
  LET taken[i \in 0..Len(validRequestes)] ==
        IF i = 0 THEN 0 ELSE taken[i - 1] + Memory[validRequestes[i]]
  IN  /\ allcm + taken[Len(validRequestes)] \in Allocatable
      /\ validRequestes # <<>> => allcm >= 0

\* A service whose task was sent becomes ready as long as everything it waits
\* for, directly or not, was running or sent too, or is a domain, and the waiting
\* is no circle.  A service that waits for one that was refused or not sent may
\* wait forever.
Supported(s) ==
  \E set \in SUBSET {d \in Services : d \in Domains \/ status[d] \in {"waiting", "ready"}} :
    s \in set /\ (\A d \in set : bootSeq[d] \subseteq set) /\ NoCycle(set, bootSeq)

SentBoots ==
  \A s \in Services : (status[s] = "waiting" /\ Supported(s)) ~> status[s] = "ready"

=============================================================================
