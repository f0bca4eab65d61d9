-------------------------- MODULE AppRuntimeProofs --------------------------
(***************************************************************************)
(* Proofs about AppRuntime, for any number of tasks, failures and crashes, *)
(* any limit on controllers and however operations overlap.                *)
(***************************************************************************)
EXTENDS AppRuntime, FiniteSetTheorems, TLAPS

Role(t) == job[t].role
Results == {"none", "success", "failure", "timeout", "refused", "lost"}
Creating == {"create config", "create deploy", "create svc", "create hpa"}
InQueue(t) == \E i \in DOMAIN queue : queue[i] = t

\* A task waits once.
Distinct == \A i, j \in DOMAIN queue : queue[i] = queue[j] => i = j

\* A task that waits has no controller and no answer, one at work has no answer
\* unless it cleans up after its failure, and a task is never in neither place
\* without an answer.
TasksOK ==
  \A t \in Tasks :
    /\ Role(t) = "none" => job[t] = NoJob
    /\ InQueue(t) => kind[t] # "none" /\ ~Over(t) /\ Role(t) = "none"
    /\ Role(t) # "none" => kind[t] # "none" /\ (Over(t) <=> Role(t) = "cleanup")
    /\ kind[t] # "none" /\ ~Over(t) => InQueue(t) \/ Role(t) # "none"
    /\ kind[t] = "none" => ~Over(t)

\* The service has its object as soon as a controller is there that needs it.
ObjectOK ==
  \A t \in Tasks :
    /\ Role(t) \in {"start", "upgrade", "cleanup"} \/ job[t].pc \in Creating => entry # NoApp
    /\ job[t].pc = "ready" => job[t].watch # NoApp

FinitePods == IsFiniteSet(cluster.pods)

IInv == TypeOK /\ FinitePods /\ Distinct /\ TasksOK /\ ObjectOK

-----------------------------------------------------------------------------
\* Facts about sequences and numbers

\* Appending a task that does not wait.
LEMMA PutTask ==
  ASSUME NEW x \in Tasks, queue \in Seq(Tasks), Distinct, ~InQueue(x),
         queue' = Append(queue, x)
  PROVE  /\ queue' \in Seq(Tasks)
         /\ Distinct'
         /\ \A t \in Tasks : InQueue(t)' <=> InQueue(t) \/ t = x
<1>1. queue' \in Seq(Tasks)
  OBVIOUS
<1>2. /\ DOMAIN queue = 1 .. Len(queue) /\ Len(queue) \in Nat
      /\ DOMAIN queue' = 1 .. Len(queue) + 1
      /\ queue'[Len(queue) + 1] = x
      /\ \A i \in DOMAIN queue : queue'[i] = queue[i]
  OBVIOUS
<1>3. \A i \in DOMAIN queue' : i \in DOMAIN queue \/ i = Len(queue) + 1
  BY <1>2
<1>4. \A i \in DOMAIN queue : i \in DOMAIN queue' /\ queue[i] # x
  BY <1>2 DEF InQueue
<1>5. Distinct'
  BY <1>2, <1>3, <1>4 DEF Distinct
<1>6. Len(queue) + 1 \in DOMAIN queue'
  BY <1>2
<1>7. ASSUME NEW t \in Tasks PROVE InQueue(t)' <=> InQueue(t) \/ t = x
  BY <1>2, <1>3, <1>4, <1>6 DEF InQueue
<1> QED BY <1>1, <1>5, <1>7

\* Taking the first task.
LEMMA TakeTask ==
  ASSUME queue \in Seq(Tasks), Distinct, queue # <<>>, queue' = Tail(queue)
  PROVE  /\ queue' \in Seq(Tasks)
         /\ Distinct'
         /\ Head(queue) \in Tasks
         /\ InQueue(Head(queue))
         /\ \A t \in Tasks : InQueue(t)' <=> InQueue(t) /\ t # Head(queue)
<1>1. queue' \in Seq(Tasks)
  OBVIOUS
<1>2. /\ DOMAIN queue = 1 .. Len(queue) /\ Len(queue) \in Nat /\ Len(queue) > 0
      /\ Head(queue) = queue[1] /\ 1 \in DOMAIN queue
      /\ DOMAIN queue' = 1 .. Len(queue) - 1
      /\ \A i \in DOMAIN queue' : queue'[i] = queue[i + 1]
  OBVIOUS
<1>3. Head(queue) \in Tasks /\ InQueue(Head(queue))
  BY <1>2 DEF InQueue
<1>4. \A i \in DOMAIN queue' : i + 1 \in DOMAIN queue /\ i + 1 # 1
  BY <1>2
<1>5. Distinct'
  <2> SUFFICES ASSUME NEW i \in DOMAIN queue', NEW j \in DOMAIN queue', queue'[i] = queue'[j]
               PROVE  i = j
    BY DEF Distinct
  <2>1. i + 1 = j + 1
    BY <1>2, <1>4 DEF Distinct
  <2> QED BY <1>2, <2>1
<1>6. ASSUME NEW t \in Tasks PROVE InQueue(t)' <=> InQueue(t) /\ t # Head(queue)
  <2>1. ASSUME InQueue(t)' PROVE InQueue(t) /\ t # Head(queue)
    BY <1>2, <1>4, <2>1 DEF InQueue, Distinct
  <2>2. ASSUME InQueue(t), t # Head(queue) PROVE InQueue(t)'
    <3>1. PICK i \in DOMAIN queue : queue[i] = t
      BY <2>2 DEF InQueue
    <3>2. i - 1 \in DOMAIN queue' /\ (i - 1) + 1 = i
      BY <1>2, <2>2, <3>1
    <3>3. queue'[i - 1] = t
      BY <1>2, <3>1, <3>2
    <3> QED BY <3>2, <3>3 DEF InQueue
  <2> QED BY <2>1, <2>2
<1> QED BY <1>1, <1>3, <1>5, <1>6

LEMMA SameQueue ==
  ASSUME UNCHANGED queue
  PROVE  /\ Distinct <=> Distinct'
         /\ \A t \in Tasks : InQueue(t)' <=> InQueue(t)
BY DEF Distinct, InQueue

\* A finite set can be listed.
LEMMA ListOf ==
  ASSUME NEW T, NEW S \in SUBSET T, IsFiniteSet(S)
  PROVE  SetToSeq(S) \in Seq(T)
<1>1. Cardinality(S) \in Nat
  BY FS_CardinalityType
<1>2. ExistsBijection(1 .. Cardinality(S), S)
  BY FS_CardinalityType
<1>3. \E f \in [1 .. Cardinality(S) -> S] : IsInjective(f)
  <2>1. PICK f : f \in Bijection(1 .. Cardinality(S), S)
    BY <1>2 DEF ExistsBijection
  <2>2. f \in [1 .. Cardinality(S) -> S] /\ IsInjective(f)
    BY <2>1 DEF Bijection, Injection, IsInjective
  <2> QED BY <2>2
<1>4. SetToSeq(S) \in [1 .. Cardinality(S) -> S]
  BY <1>3 DEF SetToSeq
<1> QED BY <1>1, <1>4

\* The events about a finite set of pods.
PodEvent == [add : BOOLEAN, pod : Pod]
LEMMA EventsOf ==
  ASSUME NEW S \in SUBSET Pod, IsFiniteSet(S), NEW b \in BOOLEAN
  PROVE  /\ SetToSeq({[add |-> b, pod |-> x] : x \in S}) \in Seq(PodEvent)
         /\ LET E == {[add |-> b, pod |-> x] : x \in S} IN SetToSeq(E) \in Seq(E)
<1> DEFINE E == {[add |-> b, pod |-> x] : x \in S}
           f == [x \in S |-> [add |-> b, pod |-> x]]
<1>1. f \in Surjection(S, E)
  <2>1. f \in [S -> E]
    OBVIOUS
  <2>2. \A e \in E : \E x \in S : f[x] = e
    OBVIOUS
  <2> QED BY <2>1, <2>2, Zenon DEF Surjection
<1>2. E \in SUBSET PodEvent
  <2> SUFFICES ASSUME NEW e \in E PROVE e \in PodEvent
    OBVIOUS
  <2>1. PICK x \in S : e = [add |-> b, pod |-> x]
    OBVIOUS
  <2> QED BY <2>1 DEF PodEvent
<1> HIDE DEF E, f
<1>3. IsFiniteSet(E)
  BY <1>1, FS_Surjection
<1>4. SetToSeq(E) \in Seq(PodEvent) /\ SetToSeq(E) \in Seq(E)
  BY <1>2, <1>3, ListOf
<1> QED BY <1>4 DEF E

\* One event more.
LEMMA Appended ==
  ASSUME NEW T, NEW s \in Seq(T), NEW e \in T
  PROVE  Append(s, e) \in Seq(T)
OBVIOUS

LEMMA Names ==
  /\ Tasks \subseteq Apps /\ 0 \in Apps /\ NoApp \notin Apps
  /\ IsFiniteSet(Tasks)
<1>1. Tasks \subseteq Apps /\ 0 \in Apps /\ NoApp \notin Apps
  BY RuntimeAssumption DEF Tasks, Apps, NoApp
<1>2. IsFiniteSet(Tasks)
  BY FS_Interval, RuntimeAssumption DEF Tasks
<1> QED BY <1>1, <1>2

LEMMA NilWorkload == Nil \in Workload
BY Names DEF Nil, Workload

-----------------------------------------------------------------------------
\* What a step does to tasks, controllers and the object of the service

\* The cluster and the informers: no controller is concerned.
LEMMA OutsideStep ==
  ASSUME IInv, UNCHANGED <<kind, result, queue, controllers, job>>,
         entry # NoApp => entry' # NoApp
  PROVE  Distinct' /\ TasksOK' /\ ObjectOK'
<1> USE DEF IInv
<1>1. Distinct' /\ \A t \in Tasks : InQueue(t)' <=> InQueue(t)
  BY SameQueue
<1>2. TasksOK'
  BY <1>1 DEF TasksOK, Role, Over
<1>3. ObjectOK'
  BY DEF ObjectOK, Role
<1> QED BY <1>1, <1>2, <1>3

\* A controller goes on in its role.
LEMMA WorkStep ==
  ASSUME IInv, NEW t \in Tasks, NEW j \in Job, Role(t) # "none", j.role = Role(t),
         job' = [job EXCEPT ![t] = j],
         UNCHANGED <<kind, result, queue>>, controllers' \subseteq controllers,
         entry # NoApp => entry' # NoApp,
         j.pc \in Creating => entry' # NoApp,
         j.pc = "ready" => j.watch # NoApp
  PROVE  /\ job' \in [Tasks -> Job] /\ controllers' \subseteq Tasks
         /\ Distinct' /\ TasksOK' /\ ObjectOK'
<1> USE DEF IInv
<1>1. /\ job' \in [Tasks -> Job] /\ job'[t] = j
      /\ \A u \in Tasks : u # t => job'[u] = job[u]
  BY DEF TypeOK
<1>2. controllers' \subseteq Tasks
  BY DEF TypeOK
<1>3. Distinct' /\ \A u \in Tasks : InQueue(u)' <=> InQueue(u)
  BY SameQueue
<1>4. \A u \in Tasks : Role(u)' = Role(u) /\ (Role(u) = "none" => job'[u] = job[u])
  BY <1>1 DEF Role
<1>5. TasksOK'
  BY <1>3, <1>4 DEF TasksOK, Over
<1>6. ObjectOK'
  <2> SUFFICES ASSUME NEW u \in Tasks
               PROVE  /\ Role(u)' \in {"start", "upgrade", "cleanup"} \/ job'[u].pc \in Creating
                           => entry' # NoApp
                      /\ job'[u].pc = "ready" => job'[u].watch # NoApp
    BY DEF ObjectOK
  <2>1. CASE u = t
    BY <1>1, <1>4, <2>1 DEF ObjectOK
  <2>2. CASE u # t
    BY <1>1, <1>4, <2>2 DEF ObjectOK
  <2> QED BY <2>1, <2>2
<1> QED BY <1>1, <1>2, <1>3, <1>5, <1>6

LEMMA GotoStep ==
  ASSUME IInv, NEW t \in Tasks, NEW p \in PCs, Goto(t, p), Role(t) # "none",
         UNCHANGED <<kind, queue>>,
         entry # NoApp => entry' # NoApp,
         p \in Creating => entry' # NoApp, p # "ready"
  PROVE  /\ job' \in [Tasks -> Job] /\ controllers' \subseteq Tasks /\ result' = result
         /\ Distinct' /\ TasksOK' /\ ObjectOK'
<1> DEFINE j == [job[t] EXCEPT !.pc = p]
<1>1. job[t] \in Job
  BY DEF IInv, TypeOK
<1>2. j \in Job /\ j.role = Role(t) /\ j.pc = p
  BY <1>1 DEF Job, Role
<1>3. job' = [job EXCEPT ![t] = j] /\ UNCHANGED <<result, controllers>>
  BY DEF Goto
<1> HIDE DEF j
<1> QED BY <1>2, <1>3, WorkStep

\* A controller ends.
LEMMA FinishStep ==
  ASSUME IInv, NEW t \in Tasks, NEW r \in Results \ {"none"}, Role(t) # "none", Finish(t, r),
         UNCHANGED <<kind, queue, entry>>
  PROVE  /\ job' \in [Tasks -> Job] /\ controllers' \subseteq Tasks /\ result' \in [Tasks -> Results]
         /\ Distinct' /\ TasksOK' /\ ObjectOK'
<1> USE DEF IInv
<1>1. NoJob \in Job /\ NoJob.role = "none" /\ NoJob.pc = "none"
  BY RuntimeAssumption DEF NoJob, Job, Roles, PCs
<1>2. /\ job' \in [Tasks -> Job] /\ job'[t] = NoJob
      /\ \A u \in Tasks : u # t => job'[u] = job[u]
  BY <1>1 DEF Finish, TypeOK
<1>3. /\ result' \in [Tasks -> Results]
      /\ \A u \in Tasks : u # t => result'[u] = result[u]
      /\ Role(t) # "cleanup" => result'[t] = r
      /\ Role(t) = "cleanup" => result'[t] = result[t]
  BY DEF Finish, TypeOK, Results, Role
<1>4. controllers' \subseteq Tasks /\ controllers' \subseteq controllers
  BY DEF Finish, TypeOK
<1>5. Distinct' /\ \A u \in Tasks : InQueue(u)' <=> InQueue(u)
  BY SameQueue
<1>6. TasksOK'
  <2> SUFFICES ASSUME NEW u \in Tasks
               PROVE  /\ Role(u)' = "none" => job'[u] = NoJob
                      /\ InQueue(u)' => kind'[u] # "none" /\ ~Over(u)' /\ Role(u)' = "none"
                      /\ Role(u)' # "none" => kind'[u] # "none" /\ (Over(u)' <=> Role(u)' = "cleanup")
                      /\ kind'[u] # "none" /\ ~Over(u)' => InQueue(u)' \/ Role(u)' # "none"
                      /\ kind'[u] = "none" => ~Over(u)'
    BY DEF TasksOK
  <2>1. CASE u = t
    <3>1. Over(t)' /\ Role(t)' = "none" /\ ~InQueue(t) /\ kind[t] # "none"
      BY <1>1, <1>2, <1>3 DEF TasksOK, Over, Role
    <3> QED BY <1>2, <1>5, <2>1, <3>1
  <2>2. CASE u # t
    BY <1>2, <1>3, <1>5, <2>2 DEF TasksOK, Over, Role
  <2> QED BY <2>1, <2>2
<1>7. ObjectOK'
  <2> SUFFICES ASSUME NEW u \in Tasks
               PROVE  /\ Role(u)' \in {"start", "upgrade", "cleanup"} \/ job'[u].pc \in Creating
                           => entry' # NoApp
                      /\ job'[u].pc = "ready" => job'[u].watch # NoApp
    BY DEF ObjectOK
  <2>1. CASE u = t
    BY <1>1, <1>2, <2>1 DEF Role, Creating
  <2>2. CASE u # t
    BY <1>2, <2>2 DEF ObjectOK, Role
  <2> QED BY <2>1, <2>2
<1> QED BY <1>2, <1>3, <1>4, <1>5, <1>6, <1>7

\* A start that fails begins to clean up; a restart or an upgrade ends.
LEMMA FailStep ==
  ASSUME IInv, NEW t \in Tasks, Role(t) # "none", job[t].pc \in Creating, CreateFails(t),
         UNCHANGED <<kind, queue, entry>>
  PROVE  /\ job' \in [Tasks -> Job] /\ controllers' \subseteq Tasks /\ result' \in [Tasks -> Results]
         /\ Distinct' /\ TasksOK' /\ ObjectOK'
<1> USE DEF IInv
<1>1. CASE Role(t) # "start"
  <2>1. Finish(t, "failure")
    BY <1>1 DEF CreateFails, Role
  <2> QED BY <2>1, FinishStep DEF Results
<1>2. CASE Role(t) = "start"
  <2>1. /\ job' = [job EXCEPT ![t].role = "cleanup", ![t].pc = "delete svc"]
        /\ result' = [result EXCEPT ![t] = "failure"]
        /\ controllers' = controllers
    BY <1>2 DEF CreateFails, Role
  <2>2. job[t] \in Job
    BY DEF TypeOK
  <2>3. /\ job'[t] \in Job /\ job'[t].role = "cleanup" /\ job'[t].pc = "delete svc"
        /\ \A u \in Tasks : u # t => job'[u] = job[u]
    BY <2>1, <2>2 DEF TypeOK, Job, Roles, PCs
  <2>4. job' \in [Tasks -> Job]
    BY <2>1, <2>3 DEF TypeOK
  <2>5. /\ result' \in [Tasks -> Results] /\ result'[t] = "failure"
        /\ \A u \in Tasks : u # t => result'[u] = result[u]
    BY <2>1 DEF TypeOK, Results
  <2>6. Distinct' /\ \A u \in Tasks : InQueue(u)' <=> InQueue(u)
    BY SameQueue
  <2>7. TasksOK'
    <3> SUFFICES ASSUME NEW u \in Tasks
                 PROVE  /\ Role(u)' = "none" => job'[u] = NoJob
                        /\ InQueue(u)' => kind'[u] # "none" /\ ~Over(u)' /\ Role(u)' = "none"
                        /\ Role(u)' # "none" => kind'[u] # "none" /\ (Over(u)' <=> Role(u)' = "cleanup")
                        /\ kind'[u] # "none" /\ ~Over(u)' => InQueue(u)' \/ Role(u)' # "none"
                        /\ kind'[u] = "none" => ~Over(u)'
      BY DEF TasksOK
    <3>1. CASE u = t
      <4>1. Over(t)' /\ Role(t)' = "cleanup" /\ ~InQueue(t) /\ kind[t] # "none"
        BY <2>3, <2>5 DEF TasksOK, Over, Role
      <4> QED BY <2>6, <3>1, <4>1
    <3>2. CASE u # t
      BY <2>3, <2>5, <2>6, <3>2 DEF TasksOK, Over, Role
    <3> QED BY <3>1, <3>2
  <2>8. ObjectOK'
    <3>1. entry # NoApp
      BY <1>2 DEF ObjectOK
    <3> QED BY <2>3, <3>1 DEF ObjectOK, Role
  <2>9. controllers' \subseteq Tasks
    BY <2>1 DEF TypeOK
  <2> QED BY <2>4, <2>5, <2>6, <2>7, <2>8, <2>9
<1> QED BY <1>1, <1>2

\* The first task is answered without a controller.
LEMMA AnswerStep ==
  ASSUME IInv, queue # <<>>, queue' = Tail(queue), NEW r \in Results \ {"none"},
         Answer(Head(queue), r), UNCHANGED kind
  PROVE  /\ queue' \in Seq(Tasks) /\ result' \in [Tasks -> Results]
         /\ Distinct' /\ TasksOK' /\ ObjectOK'
<1> USE DEF IInv
<1>0. PICK t \in Tasks : t = Head(queue)
  BY TakeTask DEF TypeOK
<1>1. /\ queue' \in Seq(Tasks) /\ Distinct' /\ InQueue(t)
      /\ \A u \in Tasks : InQueue(u)' <=> InQueue(u) /\ u # t
  BY <1>0, TakeTask DEF TypeOK
<1>2. result' = [result EXCEPT ![t] = r] /\ UNCHANGED <<entry, app, controllers, job>>
  BY <1>0 DEF Answer
<1>3. /\ result' \in [Tasks -> Results] /\ result'[t] = r
      /\ \A u \in Tasks : u # t => result'[u] = result[u]
  BY <1>1, <1>2 DEF TypeOK, Results
<1>4. TasksOK'
  BY <1>1, <1>2, <1>3 DEF TasksOK, Over, Role
<1>5. ObjectOK'
  BY <1>2 DEF ObjectOK, Role
<1> QED BY <1>1, <1>3, <1>4, <1>5

\* The first task gets a controller.
LEMMA TakenStep ==
  ASSUME IInv, queue # <<>>, queue' = Tail(queue),
         NEW j \in Job, StartController(Head(queue), j),
         j.role \in {"start", "stop", "restart", "upgrade"}, j.pc = "begin",
         entry # NoApp \/ j.role \in {"start", "upgrade"} => entry' # NoApp,
         UNCHANGED <<kind, result>>
  PROVE  /\ queue' \in Seq(Tasks) /\ job' \in [Tasks -> Job] /\ controllers' \subseteq Tasks
         /\ Distinct' /\ TasksOK' /\ ObjectOK'
<1> USE DEF IInv
<1>0. PICK t \in Tasks : t = Head(queue)
  BY TakeTask DEF TypeOK
<1>1. /\ queue' \in Seq(Tasks) /\ Distinct' /\ InQueue(t)
      /\ \A u \in Tasks : InQueue(u)' <=> InQueue(u) /\ u # t
  BY <1>0, TakeTask DEF TypeOK
<1>2. controllers' = controllers \cup {t} /\ job' = [job EXCEPT ![t] = j]
  BY <1>0 DEF StartController
<1>3. /\ job' \in [Tasks -> Job] /\ job'[t] = j
      /\ \A u \in Tasks : u # t => job'[u] = job[u]
  BY <1>1, <1>2 DEF TypeOK
<1>4. TasksOK'
  <2> SUFFICES ASSUME NEW u \in Tasks
               PROVE  /\ Role(u)' = "none" => job'[u] = NoJob
                      /\ InQueue(u)' => kind'[u] # "none" /\ ~Over(u)' /\ Role(u)' = "none"
                      /\ Role(u)' # "none" => kind'[u] # "none" /\ (Over(u)' <=> Role(u)' = "cleanup")
                      /\ kind'[u] # "none" /\ ~Over(u)' => InQueue(u)' \/ Role(u)' # "none"
                      /\ kind'[u] = "none" => ~Over(u)'
    BY DEF TasksOK
  <2>1. CASE u = t
    <3>1. ~Over(t)' /\ Role(t)' \notin {"none", "cleanup"} /\ ~InQueue(t)' /\ kind[t] # "none"
      BY <1>1, <1>3 DEF TasksOK, Over, Role
    <3> QED BY <2>1, <3>1
  <2>2. CASE u # t
    BY <1>1, <1>3, <2>2 DEF TasksOK, Over, Role
  <2> QED BY <2>1, <2>2
<1>5. ObjectOK'
  <2> SUFFICES ASSUME NEW u \in Tasks
               PROVE  /\ Role(u)' \in {"start", "upgrade", "cleanup"} \/ job'[u].pc \in Creating
                           => entry' # NoApp
                      /\ job'[u].pc = "ready" => job'[u].watch # NoApp
    BY DEF ObjectOK
  <2>1. CASE u = t
    BY <1>3, <2>1 DEF Role, Creating
  <2>2. CASE u # t
    BY <1>3, <2>2 DEF ObjectOK, Role
  <2> QED BY <2>1, <2>2
<1>7. controllers' \subseteq Tasks
  BY <1>1, <1>2 DEF TypeOK
<1> QED BY <1>1, <1>3, <1>4, <1>5, <1>7

-----------------------------------------------------------------------------
\* The API, the queue and the worker's loop

LEMMA SubmitStep ==
  ASSUME IInv, NEW t \in Tasks, NEW k \in Kinds, Submit(t, k)
  PROVE  IInv'
<1> USE DEF IInv
<1>1. /\ kind[t] = "none" /\ kind' = [kind EXCEPT ![t] = k] /\ k # "none"
      /\ queue' = Append(queue, t)
      /\ UNCHANGED <<mode, result, storeVars, controllers, job, cluster, eventVars, faults>>
  BY RuntimeAssumption DEF Submit
<1>2. ~InQueue(t) /\ ~Over(t) /\ Role(t) = "none"
  BY <1>1 DEF TasksOK
<1>3. /\ queue' \in Seq(Tasks) /\ Distinct'
      /\ \A u \in Tasks : InQueue(u)' <=> InQueue(u) \/ u = t
  BY <1>1, <1>2, PutTask DEF TypeOK
<1>4. kind' \in [Tasks -> Kinds \cup {"none"}] /\ dbVersion' \in Nat
  BY <1>1 DEF TypeOK, Submit
<1>5. TypeOK'
  BY <1>1, <1>3, <1>4 DEF TypeOK, storeVars, eventVars
<1>6. TasksOK'
  <2>1. \A u \in Tasks : kind'[u] = IF u = t THEN k ELSE kind[u]
    BY <1>1 DEF TypeOK
  <2> QED BY <1>1, <1>2, <1>3, <2>1 DEF TasksOK, Over, Role
<1>7. FinitePods' /\ ObjectOK'
  BY <1>1 DEF FinitePods, ObjectOK, Role, storeVars
<1> QED BY <1>3, <1>5, <1>6, <1>7

LEMMA NewAppType == ASSUME NEW v \in Nat PROVE NewApp(v) \in AppObject
<1>1. [Nil EXCEPT !.ver = v] \in Workload
  BY Names DEF Nil, Workload
<1> QED BY <1>1 DEF NewApp, AppObject

LEMMA CopyType ==
  ASSUME TypeOK, NEW a \in Apps, NEW role \in Roles
  PROVE  Copy(role, a) \in Job /\ Copy(role, a).role = role /\ Copy(role, a).pc = "begin"
<1>1. app[a] \in AppObject
  BY DEF TypeOK
<1> QED BY <1>1 DEF Copy, Job, AppObject, PCs

\* A start, also as the answer to an upgrade of a service that is closed.
LEMMA StartNewStep ==
  ASSUME IInv, queue # <<>>, queue' = Tail(queue), StartNew(Head(queue)),
         UNCHANGED <<mode, kind, dbVersion, synced, cluster, eventVars, faults>>
  PROVE  IInv'
<1> USE DEF IInv
<1> DEFINE t == Head(queue)
           j == [role |-> "start", pc |-> "begin", ver |-> dbVersion,
                 deploy |-> TRUE, pods |-> {}, watch |-> NoApp]
<1>1. t \in Tasks
  BY TakeTask DEF TypeOK
<1>2. t \in Apps /\ t # NoApp
  BY <1>1, Names
<1>3. j \in Job /\ j.role = "start" /\ j.pc = "begin"
  BY DEF Job, Roles, PCs, TypeOK
<1>4. /\ app' = [app EXCEPT ![t] = NewApp(dbVersion)] /\ entry' = t
      /\ StartController(t, j) /\ UNCHANGED result
  BY DEF StartNew
<1>5. NewApp(dbVersion) \in AppObject
  BY NewAppType DEF TypeOK
<1>6. app' \in [Apps -> AppObject] /\ entry' \in Apps \cup {NoApp} /\ entry' # NoApp
  BY <1>2, <1>4, <1>5 DEF TypeOK
<1> HIDE DEF j
<1>7. /\ queue' \in Seq(Tasks) /\ job' \in [Tasks -> Job] /\ controllers' \subseteq Tasks
      /\ Distinct' /\ TasksOK' /\ ObjectOK'
  BY <1>3, <1>4, <1>6, TakenStep
<1>8. TypeOK'
  BY <1>4, <1>6, <1>7 DEF TypeOK, eventVars
<1> QED BY <1>7, <1>8 DEF FinitePods

\* The first task is refused, fails or is lost.
LEMMA AnsweredStep ==
  ASSUME IInv, queue # <<>>, queue' = Tail(queue), NEW r \in Results \ {"none"},
         Answer(Head(queue), r),
         UNCHANGED <<mode, kind, dbVersion, synced, cluster, eventVars>>, faults' \in 0..MaxFaults
  PROVE  IInv'
<1> USE DEF IInv
<1>1. /\ queue' \in Seq(Tasks) /\ result' \in [Tasks -> Results]
      /\ Distinct' /\ TasksOK' /\ ObjectOK'
  BY AnswerStep
<1>2. UNCHANGED <<entry, app, controllers, job>>
  BY DEF Answer
<1>3. TypeOK'
  BY <1>1, <1>2 DEF TypeOK, Results, eventVars
<1> QED BY <1>1, <1>3 DEF FinitePods

LEMMA ExecStep == ASSUME IInv, Exec PROVE IInv'
<1> USE DEF IInv
<1> DEFINE t == Head(queue)
<1>1. /\ queue # <<>> /\ ~checkCount /\ queue' = Tail(queue)
      /\ UNCHANGED <<mode, kind, dbVersion, synced, cluster, eventVars, faults>>
  BY DEF Exec
<1>2. t \in Tasks /\ InQueue(t)
  BY <1>1, TakeTask DEF TypeOK
<1>3. kind[t] \in {"start", "stop", "restart", "upgrade"}
  BY <1>2, RuntimeAssumption DEF TasksOK, TypeOK
<1>4. faults' \in 0..MaxFaults
  BY <1>1 DEF TypeOK
<1>5. CASE StartNew(t)
  BY <1>1, <1>5, StartNewStep
<1>6. CASE Answer(t, "refused")
  BY <1>1, <1>4, <1>6, AnsweredStep DEF Results
<1>7. CASE /\ entry # NoApp /\ kind[t] \in {"stop", "restart"}
           /\ StartController(t, Copy(kind[t], entry)) /\ UNCHANGED <<entry, app, result>>
  <2>1. entry \in Apps /\ kind[t] \in Roles
    BY <1>7 DEF TypeOK, Roles
  <2>2. /\ Copy(kind[t], entry) \in Job
        /\ Copy(kind[t], entry).role \in {"stop", "restart"} /\ Copy(kind[t], entry).pc = "begin"
    BY <1>7, <2>1, CopyType
  <2>3. /\ queue' \in Seq(Tasks) /\ job' \in [Tasks -> Job] /\ controllers' \subseteq Tasks
        /\ Distinct' /\ TasksOK' /\ ObjectOK'
    BY <1>1, <1>7, <2>2, TakenStep
  <2>4. TypeOK'
    BY <1>1, <1>7, <2>3 DEF TypeOK, eventVars
  <2> QED BY <1>1, <2>3, <2>4 DEF FinitePods
<1>8. CASE /\ entry # NoApp
           /\ app' = [app EXCEPT ![entry].ver = dbVersion, ![entry].deployment.ready = FALSE]
           /\ StartController(t, [Copy("upgrade", entry) EXCEPT !.ver = dbVersion, !.pods = {}])
           /\ UNCHANGED <<entry, result>>
  <2> DEFINE j == [Copy("upgrade", entry) EXCEPT !.ver = dbVersion, !.pods = {}]
  <2>1. entry \in Apps /\ dbVersion \in Nat
    BY <1>8 DEF TypeOK
  <2>2. Copy("upgrade", entry) \in Job /\ Copy("upgrade", entry).role = "upgrade"
          /\ Copy("upgrade", entry).pc = "begin"
    BY <2>1, CopyType DEF Roles
  <2>3. j \in Job /\ j.role = "upgrade" /\ j.pc = "begin"
    BY <2>1, <2>2 DEF Job
  <2>4. StartController(t, j)
    BY <1>8
  <2> HIDE DEF j
  <2>5. /\ queue' \in Seq(Tasks) /\ job' \in [Tasks -> Job] /\ controllers' \subseteq Tasks
        /\ Distinct' /\ TasksOK' /\ ObjectOK'
    BY <1>1, <1>8, <2>3, <2>4, TakenStep
  <2>6. app' \in [Apps -> AppObject]
    <3> DEFINE o == [app[entry] EXCEPT !.ver = dbVersion, !.deployment.ready = FALSE]
    <3>1. app[entry] \in AppObject /\ app[entry].deployment \in Workload
      BY <2>1 DEF TypeOK, AppObject
    <3>2. [app[entry].deployment EXCEPT !.ready = FALSE] \in Workload
      BY <3>1 DEF Workload
    <3>3. o \in AppObject
      BY <2>1, <3>1, <3>2 DEF AppObject
    <3>4. app' = [app EXCEPT ![entry] = o]
      BY <1>8
    <3> HIDE DEF o
    <3> QED BY <2>1, <3>3, <3>4 DEF TypeOK
  <2>7. TypeOK'
    BY <1>1, <1>8, <2>5, <2>6 DEF TypeOK, eventVars
  <2> QED BY <1>1, <2>5, <2>7 DEF FinitePods
<1> QED BY <1>3, <1>5, <1>6, <1>7, <1>8 DEF Exec, startExec, stopExec, rollingUpgradeExec

LEMMA OneMoreFault ==
  ASSUME TypeOK, faults < MaxFaults, faults' = faults + 1
  PROVE  faults' \in 0..MaxFaults
BY RuntimeAssumption DEF TypeOK

LEMMA LoopFailsStep == ASSUME IInv, ExecFails \/ RequeueFails PROVE IInv'
<1>1. TypeOK
  BY DEF IInv
<1>2. faults' \in 0..MaxFaults
  BY <1>1, OneMoreFault DEF ExecFails, RequeueFails
<1>3. CASE ExecFails
  BY <1>2, <1>3, AnsweredStep DEF ExecFails, Results
<1>4. CASE RequeueFails
  BY <1>2, <1>4, AnsweredStep DEF RequeueFails, Results
<1> QED BY <1>3, <1>4

LEMMA PatchFailsStep == ASSUME IInv, PatchFails PROVE IInv'
<1> USE DEF IInv
<1>0. PICK t \in Tasks : t = Head(queue)
  BY TakeTask DEF PatchFails, TypeOK
<1>1. /\ queue # <<>> /\ queue' = Tail(queue) /\ entry # NoApp
      /\ result' = [result EXCEPT ![t] = "failure"]
      /\ app' = [app EXCEPT ![entry].deployment.ready = FALSE]
      /\ UNCHANGED <<mode, kind, dbVersion, synced, entry, controllers, job, cluster, eventVars>>
  BY <1>0 DEF PatchFails
<1>2. faults' \in 0..MaxFaults
  BY OneMoreFault DEF PatchFails
<1>3. /\ queue' \in Seq(Tasks) /\ Distinct' /\ InQueue(t)
      /\ \A u \in Tasks : InQueue(u)' <=> InQueue(u) /\ u # t
  BY <1>0, <1>1, TakeTask DEF TypeOK
<1>4. /\ result' \in [Tasks -> Results] /\ result'[t] = "failure"
      /\ \A u \in Tasks : u # t => result'[u] = result[u]
  BY <1>1 DEF TypeOK, Results
<1>5. TasksOK'
  BY <1>1, <1>3, <1>4 DEF TasksOK, Over, Role
<1>6. ObjectOK'
  BY <1>1 DEF ObjectOK, Role
<1>7. app' \in [Apps -> AppObject]
  <2> DEFINE o == [app[entry] EXCEPT !.deployment.ready = FALSE]
  <2>1. entry \in Apps /\ app[entry] \in AppObject /\ app[entry].deployment \in Workload
    BY <1>1 DEF TypeOK, AppObject
  <2>2. [app[entry].deployment EXCEPT !.ready = FALSE] \in Workload
    BY <2>1 DEF Workload
  <2>3. o \in AppObject
    BY <2>1, <2>2 DEF AppObject
  <2>4. app' = [app EXCEPT ![entry] = o]
    BY <1>1
  <2> HIDE DEF o
  <2> QED BY <2>1, <2>3, <2>4 DEF TypeOK
<1>8. TypeOK'
  BY <1>1, <1>2, <1>3, <1>4, <1>7 DEF TypeOK, Results, eventVars
<1> QED BY <1>1, <1>3, <1>5, <1>6, <1>8 DEF FinitePods

LEMMA RequeueStep == ASSUME IInv, Requeue PROVE IInv'
<1> USE DEF IInv
<1>1. /\ queue # <<>> /\ queue \in Seq(Tasks)
      /\ queue' = Append(Tail(queue), Head(queue))
      /\ UNCHANGED <<mode, kind, result, dbVersion, storeVars, controllers, job, cluster,
                     eventVars, faults>>
  BY DEF Requeue, TypeOK
<1>2. PICK n \in Nat : n = Len(queue) /\ n > 0 /\ DOMAIN queue = 1 .. n
  BY <1>1
<1> DEFINE next(i) == IF i = n THEN 1 ELSE i + 1
<1>3. /\ Tail(queue) \in Seq(Tasks) /\ Head(queue) \in Tasks /\ Len(Tail(queue)) = n - 1
      /\ Head(queue) = queue[1]
      /\ \A i \in 1 .. n - 1 : Tail(queue)[i] = queue[i + 1]
  BY <1>1, <1>2
<1>4. /\ queue' \in Seq(Tasks) /\ DOMAIN queue' = 1 .. n
      /\ queue'[n] = queue[1]
      /\ \A i \in 1 .. n - 1 : queue'[i] = queue[i + 1]
  BY <1>1, <1>2, <1>3
<1>5. ASSUME NEW i \in 1 .. n PROVE next(i) \in 1 .. n /\ queue'[i] = queue[next(i)]
  <2>1. CASE i = n
    BY <1>2, <1>4, <2>1
  <2>2. CASE i # n
    <3>1. i \in 1 .. n - 1 /\ i + 1 \in 1 .. n
      BY <1>2, <2>2
    <3> QED BY <1>4, <2>2, <3>1
  <2> QED BY <2>1, <2>2
<1>6. ASSUME NEW i \in 1 .. n, NEW j \in 1 .. n, next(i) = next(j) PROVE i = j
  BY <1>2, <1>6
<1>7. ASSUME NEW k \in 1 .. n PROVE \E i \in 1 .. n : next(i) = k
  <2>1. CASE k = 1
    <3>1. n \in 1 .. n /\ next(n) = 1
      BY <1>2
    <3> QED BY <2>1, <3>1
  <2>2. CASE k # 1
    <3>1. k - 1 \in 1 .. n /\ next(k - 1) = k
      BY <1>2, <2>2
    <3> QED BY <3>1
  <2> QED BY <2>1, <2>2
<1> HIDE DEF next
<1>8. Distinct'
  BY <1>2, <1>4, <1>5, <1>6 DEF Distinct
<1>9. ASSUME NEW t \in Tasks PROVE InQueue(t)' <=> InQueue(t)
  <2>1. ASSUME InQueue(t)' PROVE InQueue(t)
    BY <1>2, <1>4, <1>5, <2>1 DEF InQueue
  <2>2. ASSUME InQueue(t) PROVE InQueue(t)'
    <3>1. PICK k \in 1 .. n : queue[k] = t
      BY <1>2, <2>2 DEF InQueue
    <3>2. PICK i \in 1 .. n : next(i) = k
      BY <1>7
    <3>3. queue'[i] = t /\ i \in DOMAIN queue'
      BY <1>4, <1>5, <3>1, <3>2
    <3> QED BY <3>3 DEF InQueue
  <2> QED BY <2>1, <2>2
<1>10. TypeOK'
  BY <1>1, <1>4 DEF TypeOK, storeVars, eventVars
<1>11. TasksOK'
  BY <1>1, <1>9 DEF TasksOK, Over, Role
<1>12. ObjectOK' /\ FinitePods'
  BY <1>1 DEF ObjectOK, FinitePods, Role, storeVars
<1> QED BY <1>8, <1>10, <1>11, <1>12

-----------------------------------------------------------------------------
\* The controllers

ClusterType == [config : BOOLEAN, claims : BOOLEAN, deploy : Workload, svc : BOOLEAN,
                env : BOOLEAN, hpa : BOOLEAN, monitors : BOOLEAN, pods : SUBSET Pod]

\* A goroutine somewhere in its work has a role.
LEMMA AtWork ==
  ASSUME IInv, NEW t \in Tasks, job[t].pc # "none"
  PROVE  Role(t) # "none" /\ job[t] \in Job
<1>1. NoJob.pc = "none"
  BY DEF NoJob
<1> QED BY <1>1 DEF IInv, TasksOK, TypeOK

\* What the steps of a controller leave alone, besides the cluster.
LEMMA WorkType ==
  ASSUME IInv, job' \in [Tasks -> Job], controllers' \subseteq Tasks,
         result' \in [Tasks -> Results], UNCHANGED <<taskVars, synced>>,
         entry' \in Apps \cup {NoApp}, app' \in [Apps -> AppObject],
         cluster' \in ClusterType, deployEvents' \in Seq(Workload),
         podEvents' \in Seq([add : BOOLEAN, pod : Pod]), faults' \in 0..MaxFaults
  PROVE  TypeOK'
BY DEF IInv, TypeOK, Results, ClusterType, taskVars

LEMMA Unpack ==
  ASSUME IInv
  PROVE  /\ job \in [Tasks -> Job] /\ controllers \subseteq Tasks /\ result \in [Tasks -> Results]
         /\ entry \in Apps \cup {NoApp} /\ app \in [Apps -> AppObject]
         /\ cluster \in ClusterType /\ deployEvents \in Seq(Workload)
         /\ podEvents \in Seq([add : BOOLEAN, pod : Pod]) /\ faults \in 0..MaxFaults
         /\ IsFiniteSet(cluster.pods)
BY DEF IInv, TypeOK, Results, ClusterType, FinitePods

\* The steps that only change resources other than workload and pods.
LEMMA ResourceStep ==
  ASSUME IInv, NEW t \in Tasks,
         CreateConfig(t) \/ CreateSvc(t) \/ DeleteSvc(t) \/ DeleteConfig(t) \/ UpgradeConfig(t)
  PROVE  IInv'
<1>1. job[t].pc # "none"
  BY DEF CreateConfig, CreateSvc, DeleteSvc, DeleteConfig, UpgradeConfig, At
<1>2. Role(t) # "none"
  BY <1>1, AtWork
<1>3. PICK p \in PCs : Goto(t, p) /\ p # "ready" /\ (p \in Creating => job[t].pc \in Creating)
  BY DEF CreateConfig, CreateSvc, DeleteSvc, DeleteConfig, UpgradeConfig, At, PCs, Creating
<1>4. UNCHANGED <<taskVars, storeVars, eventVars, faults>>
  BY DEF CreateConfig, CreateSvc, DeleteSvc, DeleteConfig, UpgradeConfig
<1>5. p \in Creating => entry # NoApp
  BY <1>3 DEF IInv, ObjectOK
<1>6. /\ job' \in [Tasks -> Job] /\ controllers' \subseteq Tasks /\ result' = result
      /\ Distinct' /\ TasksOK' /\ ObjectOK'
  BY <1>2, <1>3, <1>4, <1>5, GotoStep DEF taskVars, storeVars
<1>7. cluster' \in ClusterType /\ cluster'.pods = cluster.pods
  <2>1. (cluster.claims \/ HasClaims) \in BOOLEAN
    OBVIOUS
  <2>2. CASE CreateConfig(t)
    BY <2>1, <2>2, Unpack DEF CreateConfig, ClusterType
  <2>3. CASE CreateSvc(t) \/ DeleteSvc(t) \/ DeleteConfig(t) \/ UpgradeConfig(t)
    BY <2>3, Unpack DEF CreateSvc, DeleteSvc, DeleteConfig, UpgradeConfig, ClusterType
  <2> QED BY <2>2, <2>3
<1>8. TypeOK'
  BY <1>4, <1>6, <1>7, Unpack, WorkType DEF storeVars, eventVars
<1>9. FinitePods'
  BY <1>7, Unpack DEF FinitePods
<1> QED BY <1>6, <1>8, <1>9 DEF IInv

\* Begin enters the operation's first step.
LEMMA BeginStep ==
  ASSUME IInv, NEW t \in Tasks, Begin(t) \/ EarlyCallback(t)
  PROVE  IInv'
<1>1. job[t].pc = "begin" /\ Role(t) # "none" /\ job[t] \in Job
  BY AtWork DEF Begin, EarlyCallback, At
<1>2. /\ UNCHANGED <<taskVars, result, storeVars, cluster, eventVars, faults>>
      /\ controllers' \subseteq controllers
  BY DEF Begin, EarlyCallback
<1>3. PICK j \in Job : /\ job' = [job EXCEPT ![t] = j] /\ j.role = Role(t) /\ j.pc # "ready"
                       /\ j.pc \in Creating => Role(t) = "start"
  <2>1. CASE Begin(t)
    <3> DEFINE j == [job[t] EXCEPT !.pc = Entry(job[t].role)]
    <3>1. Entry(job[t].role) \in PCs /\ Entry(job[t].role) # "ready"
            /\ (Entry(job[t].role) \in Creating => Role(t) = "start")
      BY DEF Entry, PCs, Creating, Role
    <3>2. j \in Job /\ j.role = Role(t) /\ j.pc = Entry(job[t].role)
      BY <1>1, <3>1 DEF Job, Role
    <3>3. job' = [job EXCEPT ![t] = j]
      BY <2>1 DEF Begin
    <3> QED BY <3>1, <3>2, <3>3
  <2>2. CASE EarlyCallback(t)
    <3>1. job' = [job EXCEPT ![t] = job[t]]
      BY <2>2, Unpack DEF EarlyCallback
    <3> QED BY <1>1, <3>1 DEF Role, Creating
  <2> QED BY <2>1, <2>2
<1>4. j.pc \in Creating => entry # NoApp
  BY <1>3 DEF IInv, ObjectOK
<1>5. /\ job' \in [Tasks -> Job] /\ controllers' \subseteq Tasks
      /\ Distinct' /\ TasksOK' /\ ObjectOK'
  BY <1>1, <1>2, <1>3, <1>4, WorkStep DEF taskVars, storeVars
<1>6. TypeOK'
  BY <1>2, <1>5, Unpack, WorkType DEF storeVars, eventVars
<1>7. FinitePods'
  BY <1>2, Unpack DEF FinitePods
<1> QED BY <1>5, <1>6, <1>7 DEF IInv

LEMMA CreateDeployStep == ASSUME IInv, NEW t \in Tasks, CreateDeploy(t) PROVE IInv'
<1>1. job[t].pc = "create deploy" /\ Role(t) # "none" /\ job[t] \in Job
  BY AtWork DEF CreateDeploy, At
<1>2. UNCHANGED <<taskVars, storeVars, podEvents, faults>>
  BY DEF CreateDeploy
<1>3. job[t].pc \in Creating /\ entry # NoApp
  BY <1>1 DEF Creating, IInv, ObjectOK
<1>4. CASE cluster.deploy = Nil
  <2> DEFINE d == [uid |-> t, ver |-> job[t].ver, rv |-> TRUE, ready |-> FALSE]
  <2>1. /\ Goto(t, "create svc")
        /\ cluster' = [cluster EXCEPT !.deploy = d] /\ deployEvents' = Append(deployEvents, d)
    BY <1>4 DEF CreateDeploy
  <2>2. d \in Workload
    BY <1>1, Names DEF Workload, Job
  <2> HIDE DEF d
  <2>3. /\ cluster' \in ClusterType /\ cluster'.pods = cluster.pods
        /\ deployEvents' \in Seq(Workload)
    <3>1. cluster' \in ClusterType /\ cluster'.pods = cluster.pods
      BY <2>1, <2>2, Unpack DEF ClusterType
    <3>2. deployEvents' \in Seq(Workload)
      BY <2>1, <2>2, Unpack, Appended
    <3> QED BY <3>1, <3>2
  <2>4. /\ job' \in [Tasks -> Job] /\ controllers' \subseteq Tasks /\ result' = result
        /\ Distinct' /\ TasksOK' /\ ObjectOK'
    BY <1>1, <1>2, <1>3, <2>1, GotoStep DEF taskVars, storeVars, PCs
  <2>5. TypeOK'
    BY <1>2, <2>3, <2>4, Unpack, WorkType DEF storeVars
  <2>6. FinitePods'
    BY <2>3, Unpack DEF FinitePods
  <2> QED BY <2>4, <2>5, <2>6 DEF IInv
<1>5. CASE cluster.deploy # Nil
  <2>1. CreateFails(t) /\ UNCHANGED <<cluster, deployEvents>>
    BY <1>5 DEF CreateDeploy
  <2>2. /\ job' \in [Tasks -> Job] /\ controllers' \subseteq Tasks /\ result' \in [Tasks -> Results]
        /\ Distinct' /\ TasksOK' /\ ObjectOK'
    BY <1>1, <1>2, <1>3, <2>1, FailStep DEF taskVars, storeVars
  <2>3. TypeOK'
    BY <1>2, <2>1, <2>2, Unpack, WorkType DEF storeVars
  <2>4. FinitePods'
    BY <2>1, Unpack DEF FinitePods
  <2> QED BY <2>2, <2>3, <2>4 DEF IInv
<1> QED BY <1>4, <1>5

\* The last calls of startOne, upgradeOne and stopOne, m the monitors and s the services
\* after them; the controller then reads the object it polls.
LastCalls(t, s, m) == CreateRest(t, m) \/ UpgradeRest(t, s, m) \/ DeleteRest(t, m)
LEMMA WatchStep ==
  ASSUME IInv, NEW t \in Tasks, NEW s \in BOOLEAN, NEW m \in BOOLEAN, LastCalls(t, s, m),
         faults' \in 0..MaxFaults
  PROVE  IInv'
<1> USE DEF LastCalls
<1>1. job[t].pc \in {"create hpa", "upgrade svc", "delete hpa"}
  BY DEF CreateRest, UpgradeRest, DeleteRest, At
<1>2. Role(t) # "none" /\ job[t] \in Job
  BY <1>1, AtWork
<1>3. UNCHANGED <<taskVars, result, controllers, storeVars, eventVars>>
  BY DEF CreateRest, UpgradeRest, DeleteRest
<1>4. PICK p \in {"ready", "upgraded", "closed"} :
        /\ job' = [job EXCEPT ![t].pc = p, ![t].watch = entry]
        /\ p = "ready" => job[t].pc = "create hpa"
  BY DEF CreateRest, UpgradeRest, DeleteRest, At
<1> DEFINE j == [job[t] EXCEPT !.pc = p, !.watch = entry]
<1>5. j \in Job /\ j.role = Role(t) /\ j.pc = p /\ j.watch = entry
  BY <1>2, <1>4, Unpack DEF Job, Role, PCs
<1>6. job' = [job EXCEPT ![t] = j]
  BY <1>4, Unpack
<1>7. p = "ready" => entry # NoApp
  BY <1>4 DEF IInv, ObjectOK, Creating
<1>8. p \notin Creating
  BY <1>4 DEF Creating
<1> HIDE DEF j
<1>9. /\ job' \in [Tasks -> Job] /\ controllers' \subseteq Tasks
      /\ Distinct' /\ TasksOK' /\ ObjectOK'
  BY <1>2, <1>3, <1>5, <1>6, <1>7, <1>8, WorkStep DEF taskVars, storeVars
<1>10. cluster' \in ClusterType /\ cluster'.pods = cluster.pods
  BY Unpack DEF CreateRest, UpgradeRest, DeleteRest, ClusterType
<1>11. TypeOK'
  BY <1>3, <1>9, <1>10, Unpack, WorkType DEF storeVars, eventVars
<1> QED BY <1>9, <1>10, <1>11, Unpack DEF IInv, FinitePods

LEMMA LastStep ==
  ASSUME IInv, NEW t \in Tasks, CreateHpa(t) \/ UpgradeSvc(t) \/ DeleteHpa(t)
  PROVE  IInv'
<1>1. faults' \in 0..MaxFaults
  BY Unpack DEF CreateHpa, UpgradeSvc, DeleteHpa
<1>2. \E m \in BOOLEAN : LastCalls(t, TRUE, m)
  BY DEF LastCalls, CreateHpa, UpgradeSvc, DeleteHpa
<1> QED BY <1>1, <1>2, WatchStep

LEMMA DeletePodsStep == ASSUME IInv, NEW t \in Tasks, DeletePods(t) PROVE IInv'
<1>1. Role(t) # "none"
  BY AtWork DEF DeletePods, At
<1>2. UNCHANGED <<taskVars, storeVars, deployEvents, faults>> /\ Goto(t, "delete hpa")
  BY DEF DeletePods
<1>3. /\ job' \in [Tasks -> Job] /\ controllers' \subseteq Tasks /\ result' = result
      /\ Distinct' /\ TasksOK' /\ ObjectOK'
  BY <1>1, <1>2, GotoStep DEF taskVars, storeVars, PCs, Creating
<1> DEFINE gone == job[t].pods \cap cluster.pods
           events == {[add |-> FALSE, pod |-> x] : x \in gone}
<1>4. /\ cluster' = [cluster EXCEPT !.pods = @ \ gone]
      /\ podEvents' = podEvents \o SetToSeq(events)
  BY DEF DeletePods
<1>5. cluster.pods \subseteq Pod /\ IsFiniteSet(cluster.pods)
  BY Unpack DEF ClusterType
<1>6. cluster' \in ClusterType /\ cluster'.pods = cluster.pods \ gone
  BY <1>4, Unpack DEF ClusterType
<1>7. IsFiniteSet(gone) /\ IsFiniteSet(cluster.pods \ gone)
  BY <1>5, FS_Subset
<1>8. SetToSeq(events) \in Seq(PodEvent)
  BY <1>5, <1>7, EventsOf
<1>9. podEvents \in Seq(PodEvent)
  BY Unpack DEF PodEvent
<1> HIDE DEF gone, events
<1>10. podEvents' \in Seq(PodEvent)
  BY <1>4, <1>8, <1>9
<1>11. TypeOK'
  BY <1>2, <1>3, <1>6, <1>10, Unpack, WorkType DEF storeVars, PodEvent
<1> QED BY <1>3, <1>6, <1>7, <1>11 DEF IInv, FinitePods

LEMMA SetDeploymentType ==
  ASSUME app \in [Apps -> AppObject], NEW a \in Apps, NEW d \in Workload
  PROVE  SetDeployment(a, d) \in [Apps -> AppObject]
<1>1. app[a] \in AppObject /\ d.ver \in Nat
  BY DEF Workload
<1> DEFINE o == [app[a] EXCEPT !.deployment = d, !.ver = IF d = Nil THEN @ ELSE d.ver]
<1>2. o \in AppObject
  BY <1>1 DEF AppObject
<1>3. SetDeployment(a, d) = [app EXCEPT ![a] = o]
  BY <1>1 DEF SetDeployment
<1> HIDE DEF o
<1> QED BY <1>2, <1>3

LEMMA DeleteDeployStep == ASSUME IInv, NEW t \in Tasks, DeleteDeploy(t) PROVE IInv'
<1>1. Role(t) # "none"
  BY AtWork DEF DeleteDeploy, At
<1>2. /\ UNCHANGED <<taskVars, synced, entry, podEvents, faults>>
      /\ Goto(t, "delete pods")
  BY DEF DeleteDeploy
<1>3. /\ job' \in [Tasks -> Job] /\ controllers' \subseteq Tasks /\ result' = result
      /\ Distinct' /\ TasksOK' /\ ObjectOK'
  BY <1>1, <1>2, GotoStep DEF taskVars, PCs, Creating
<1>4. /\ cluster' \in ClusterType /\ cluster'.pods = cluster.pods
      /\ deployEvents' \in Seq(Workload) /\ app' \in [Apps -> AppObject]
  <2>1. CASE job[t].deploy
    <3>1. /\ cluster' = [cluster EXCEPT !.deploy = Nil]
          /\ deployEvents' = IF cluster.deploy = Nil THEN deployEvents ELSE Append(deployEvents, Nil)
          /\ app' = IF entry = NoApp THEN app ELSE SetDeployment(entry, Nil)
      BY <2>1 DEF DeleteDeploy
    <3>2. cluster' \in ClusterType /\ cluster'.pods = cluster.pods
      BY <3>1, NilWorkload, Unpack DEF ClusterType
    <3>3. deployEvents' \in Seq(Workload)
      BY <3>1, NilWorkload, Unpack
    <3>4. app' \in [Apps -> AppObject]
      BY <3>1, NilWorkload, Unpack, SetDeploymentType
    <3> QED BY <3>2, <3>3, <3>4
  <2>2. CASE ~job[t].deploy
    BY <2>2, Unpack DEF DeleteDeploy
  <2> QED BY <2>1, <2>2
<1>5. TypeOK'
  BY <1>2, <1>3, <1>4, Unpack, WorkType
<1>6. FinitePods'
  BY <1>4, Unpack DEF FinitePods
<1> QED BY <1>3, <1>5, <1>6 DEF IInv

LEMMA PatchStep == ASSUME IInv, NEW t \in Tasks, Patch(t) PROVE IInv'
<1>1. Role(t) # "none" /\ job[t] \in Job
  BY AtWork DEF Patch, At
<1>2. UNCHANGED <<taskVars, storeVars, podEvents, faults>>
  BY DEF Patch
<1>3. CASE cluster.deploy # Nil /\ job[t].deploy
  <2>1. /\ Goto(t, "upgrade svc")
        /\ cluster' = [cluster EXCEPT !.deploy.ver = job[t].ver,
                                      !.claims = cluster.claims \/ HasClaims]
        /\ deployEvents' = Append(deployEvents, cluster'.deploy)
    BY <1>3 DEF Patch
  <2>0. (cluster.claims \/ HasClaims) \in BOOLEAN
    OBVIOUS
  <2>2. cluster.deploy \in Workload /\ job[t].ver \in Nat
    BY <1>1, Unpack DEF ClusterType, Job
  <2>3. [cluster.deploy EXCEPT !.ver = job[t].ver] \in Workload
    BY <2>2 DEF Workload
  <2>4. /\ cluster' \in ClusterType /\ cluster'.pods = cluster.pods
        /\ cluster'.deploy \in Workload
    BY <2>0, <2>1, <2>3, Unpack DEF ClusterType
  <2>5. deployEvents' \in Seq(Workload)
    BY <2>1, <2>4, Unpack, Appended
  <2>6. /\ job' \in [Tasks -> Job] /\ controllers' \subseteq Tasks /\ result' = result
        /\ Distinct' /\ TasksOK' /\ ObjectOK'
    BY <1>1, <1>2, <2>1, GotoStep DEF taskVars, storeVars, PCs, Creating
  <2>7. TypeOK'
    BY <1>2, <2>4, <2>5, <2>6, Unpack, WorkType DEF storeVars
  <2>8. FinitePods'
    BY <2>4, Unpack DEF FinitePods
  <2> QED BY <2>6, <2>7, <2>8 DEF IInv
<1>4. CASE cluster.deploy = Nil \/ ~job[t].deploy
  <2>1. Finish(t, "failure") /\ UNCHANGED <<cluster, deployEvents>>
    BY <1>4 DEF Patch
  <2>2. /\ job' \in [Tasks -> Job] /\ controllers' \subseteq Tasks /\ result' \in [Tasks -> Results]
        /\ Distinct' /\ TasksOK' /\ ObjectOK'
    BY <1>1, <1>2, <2>1, FinishStep DEF taskVars, storeVars, Results
  <2>3. TypeOK'
    BY <1>2, <2>1, <2>2, Unpack, WorkType DEF storeVars
  <2>4. FinitePods'
    BY <2>1, Unpack DEF FinitePods
  <2> QED BY <2>2, <2>3, <2>4 DEF IInv
<1> QED BY <1>3, <1>4

\* A call to the cluster fails.
LEMMA ErrorStep ==
  ASSUME IInv, NEW t \in Tasks, CreateError(t) \/ DeleteError(t) \/ UpgradeError(t)
  PROVE  IInv'
<1>1. job[t].pc # "none"
  BY DEF CreateError, DeleteError, UpgradeError
<1>2. Role(t) # "none"
  BY <1>1, AtWork
<1>3. UNCHANGED <<taskVars, storeVars, eventVars>>
  BY DEF CreateError, DeleteError, UpgradeError
<1>4. faults' \in 0..MaxFaults
  BY OneMoreFault DEF IInv, CreateError, DeleteError, UpgradeError
<1>5. /\ job' \in [Tasks -> Job] /\ controllers' \subseteq Tasks /\ result' \in [Tasks -> Results]
      /\ Distinct' /\ TasksOK' /\ ObjectOK'
  <2>1. CASE CreateError(t)
    <3>1. job[t].pc \in Creating /\ CreateFails(t)
      BY <2>1 DEF CreateError, Creating
    <3> QED BY <1>2, <1>3, <3>1, FailStep DEF taskVars, storeVars
  <2>2. CASE DeleteError(t) \/ UpgradeError(t)
    <3>1. Finish(t, "failure")
      BY <2>2 DEF DeleteError, UpgradeError
    <3> QED BY <1>2, <1>3, <3>1, FinishStep DEF taskVars, storeVars, Results
  <2> QED BY <2>1, <2>2
<1>6. cluster' \in ClusterType /\ cluster'.pods = cluster.pods
  <2>1. Halfway(t) \in ClusterType /\ Halfway(t).pods = cluster.pods
    BY Unpack DEF Halfway, ClusterType
  <2>2. cluster' \in {cluster, Halfway(t)}
    BY DEF CreateError, DeleteError, UpgradeError
  <2> QED BY <2>1, <2>2, Unpack
<1>7. TypeOK'
  BY <1>3, <1>4, <1>5, <1>6, Unpack, WorkType DEF storeVars, eventVars
<1>8. FinitePods'
  BY <1>6, Unpack DEF FinitePods
<1> QED BY <1>5, <1>7, <1>8 DEF IInv

\* A call fails and the operation goes on.
LEMMA LoggedStep == ASSUME IInv, NEW t \in Tasks, LoggedError(t) PROVE IInv'
<1>1. faults' \in 0..MaxFaults
  BY OneMoreFault DEF IInv, LoggedError
<1>2. cluster.monitors \in BOOLEAN /\ cluster.svc \in BOOLEAN
  BY Unpack DEF ClusterType
<1>3. CASE \E s \in BOOLEAN, m \in BOOLEAN : LastCalls(t, s, m)
  BY <1>1, <1>3, WatchStep
<1>4. CASE /\ At(t, "upgrade config") /\ Goto(t, "patch")
           /\ UNCHANGED <<taskVars, storeVars, cluster, eventVars>>
  <2>1. Role(t) # "none"
    BY <1>4, AtWork DEF At
  <2>2. /\ job' \in [Tasks -> Job] /\ controllers' \subseteq Tasks /\ result' = result
        /\ Distinct' /\ TasksOK' /\ ObjectOK'
    BY <1>4, <2>1, GotoStep DEF taskVars, storeVars, PCs, Creating
  <2>3. TypeOK'
    BY <1>1, <1>4, <2>2, Unpack, WorkType DEF storeVars, eventVars
  <2> QED BY <1>4, <2>2, <2>3, Unpack DEF IInv, FinitePods
<1>5. \/ \E s \in BOOLEAN, m \in BOOLEAN : LastCalls(t, s, m)
      \/ /\ At(t, "upgrade config") /\ Goto(t, "patch")
         /\ UNCHANGED <<taskVars, storeVars, cluster, eventVars>>
  <2>1. \/ CreateRest(t, cluster.monitors) \/ DeleteRest(t, cluster.monitors)
        \/ UpgradeRest(t, TRUE, cluster.monitors) \/ UpgradeRest(t, cluster.svc, TRUE)
        \/ /\ At(t, "upgrade config") /\ Goto(t, "patch")
           /\ UNCHANGED <<taskVars, storeVars, cluster, eventVars>>
    BY DEF LoggedError
  <2>2. CASE \/ CreateRest(t, cluster.monitors) \/ DeleteRest(t, cluster.monitors)
             \/ UpgradeRest(t, TRUE, cluster.monitors)
    BY <1>2, <2>2 DEF LastCalls
  <2>3. CASE UpgradeRest(t, cluster.svc, TRUE)
    BY <1>2, <2>3 DEF LastCalls
  <2> QED BY <2>1, <2>2, <2>3
<1> QED BY <1>3, <1>4, <1>5

\* A wait ends, with what it waited for or without it.
LEMMA PollStep ==
  ASSUME IInv, NEW t \in Tasks, PollDone(t) \/ PollTimeout(t)
  PROVE  IInv'
<1>1. job[t].pc # "none"
  BY DEF PollDone, PollTimeout, Reached, At, Waiting
<1>2. Role(t) # "none"
  BY <1>1, AtWork
<1>3. UNCHANGED <<taskVars, storeVars, cluster, eventVars, faults>>
  BY DEF PollDone, PollTimeout
<1>4. Goto(t, "regist") \/ \E r \in {"success", "timeout"} : Finish(t, r)
  BY DEF PollDone, PollTimeout
<1>5. /\ job' \in [Tasks -> Job] /\ controllers' \subseteq Tasks /\ result' \in [Tasks -> Results]
      /\ Distinct' /\ TasksOK' /\ ObjectOK'
  <2>1. CASE Goto(t, "regist")
    <3>1. /\ job' \in [Tasks -> Job] /\ controllers' \subseteq Tasks /\ result' = result
          /\ Distinct' /\ TasksOK' /\ ObjectOK'
      BY <1>2, <1>3, <2>1, GotoStep DEF taskVars, storeVars, PCs, Creating
    <3> QED BY <3>1, Unpack
  <2>2. ASSUME NEW r \in {"success", "timeout"}, Finish(t, r)
        PROVE  /\ job' \in [Tasks -> Job] /\ controllers' \subseteq Tasks
               /\ result' \in [Tasks -> Results]
               /\ Distinct' /\ TasksOK' /\ ObjectOK'
    BY <1>2, <1>3, <2>2, FinishStep DEF taskVars, storeVars, Results
  <2> QED BY <1>4, <2>1, <2>2
<1>6. TypeOK'
  BY <1>3, <1>5, Unpack, WorkType DEF storeVars, eventVars
<1>7. FinitePods'
  BY <1>3, Unpack DEF FinitePods
<1> QED BY <1>5, <1>6, <1>7 DEF IInv

LEMMA RefreshedType ==
  ASSUME IInv, NEW a \in Apps
  PROVE  Refreshed(a) \in [Apps -> AppObject]
<1>1. app[a] \in AppObject /\ cluster.deploy \in Workload /\ app \in [Apps -> AppObject]
  BY Unpack DEF ClusterType
<1>2. cluster.deploy.ver \in Nat
  BY <1>1 DEF Workload
<1> DEFINE o == [app[a] EXCEPT
                   !.deployment = IF @ = Nil THEN Nil ELSE cluster.deploy,
                   !.ver = IF app[a].deployment = Nil \/ cluster.deploy = Nil THEN @
                           ELSE cluster.deploy.ver,
                   !.pods = @ \cap cluster.pods]
<1>3. o \in AppObject
  BY <1>1, <1>2, NilWorkload DEF AppObject
<1>4. Refreshed(a) = [app EXCEPT ![a] = o]
  BY <1>1 DEF Refreshed
<1> HIDE DEF o
<1> QED BY <1>1, <1>3, <1>4

\* A poll that first reads what the listers know.
LEMMA PollRefreshStep == ASSUME IInv, NEW t \in Tasks, PollRefresh(t) PROVE IInv'
<1>1. job[t].pc \in {"ready", "closed"} /\ entry # NoApp
  BY DEF PollRefresh
<1>2. Role(t) # "none" /\ job[t] \in Job
  BY <1>1, AtWork
<1>3. /\ UNCHANGED <<taskVars, result, controllers, synced, entry, cluster, eventVars, faults>>
      /\ app' = Refreshed(entry) /\ job' = [job EXCEPT ![t].watch = entry]
  BY DEF PollRefresh
<1> DEFINE j == [job[t] EXCEPT !.watch = entry]
<1>4. j \in Job /\ j.role = Role(t) /\ j.pc = job[t].pc /\ j.watch = entry
  BY <1>2, Unpack DEF Job, Role
<1>5. job' = [job EXCEPT ![t] = j]
  BY <1>3, Unpack
<1>6. app' \in [Apps -> AppObject]
  BY <1>1, <1>3, Unpack, RefreshedType
<1> HIDE DEF j
<1>7. /\ job' \in [Tasks -> Job] /\ controllers' \subseteq Tasks
      /\ Distinct' /\ TasksOK' /\ ObjectOK'
  BY <1>1, <1>2, <1>3, <1>4, <1>5, WorkStep DEF taskVars, Creating
<1>8. TypeOK'
  BY <1>3, <1>6, <1>7, Unpack, WorkType DEF eventVars
<1>9. FinitePods'
  BY <1>3, Unpack DEF FinitePods
<1> QED BY <1>7, <1>8, <1>9 DEF IInv

\* A restart registers a new object and starts it.
LEMMA RestartRegistStep == ASSUME IInv, NEW t \in Tasks, RestartRegist(t) PROVE IInv'
<1>1. Role(t) # "none" /\ job[t] \in Job
  BY AtWork DEF RestartRegist, At
<1>2. /\ UNCHANGED <<taskVars, result, controllers, synced, cluster, eventVars, faults>>
      /\ entry' = t /\ app' = [app EXCEPT ![t] = NewApp(dbVersion)]
  BY DEF RestartRegist
<1> DEFINE j == [job[t] EXCEPT !.pc = "create config", !.ver = dbVersion,
                               !.deploy = TRUE, !.pods = {}]
<1>3. dbVersion \in Nat
  BY DEF IInv, TypeOK
<1>4. j \in Job /\ j.role = Role(t) /\ j.pc = "create config"
  BY <1>1, <1>3 DEF Job, Role, PCs
<1>5. job' = [job EXCEPT ![t] = j]
  BY DEF RestartRegist
<1>6. entry' \in Apps /\ entry' # NoApp /\ app' \in [Apps -> AppObject]
  BY <1>2, <1>3, Names, NewAppType, Unpack
<1> HIDE DEF j
<1>7. /\ job' \in [Tasks -> Job] /\ controllers' \subseteq Tasks
      /\ Distinct' /\ TasksOK' /\ ObjectOK'
  BY <1>1, <1>2, <1>4, <1>5, <1>6, WorkStep DEF taskVars
<1>8. TypeOK'
  BY <1>2, <1>6, <1>7, Unpack, WorkType DEF eventVars
<1>9. FinitePods'
  BY <1>2, Unpack DEF FinitePods
<1> QED BY <1>7, <1>8, <1>9 DEF IInv

-----------------------------------------------------------------------------
\* The cluster and the informers

\* What the steps outside the controllers change.
LEMMA OutsideType ==
  ASSUME IInv, UNCHANGED <<taskVars, result, controllers, job, faults>>,
         synced' \in BOOLEAN, entry' \in Apps \cup {NoApp}, app' \in [Apps -> AppObject],
         entry # NoApp => entry' # NoApp,
         cluster' \in ClusterType, IsFiniteSet(cluster'.pods),
         deployEvents' \in Seq(Workload), podEvents' \in Seq(PodEvent)
  PROVE  IInv'
<1>1. Distinct' /\ TasksOK' /\ ObjectOK'
  BY OutsideStep DEF taskVars
<1>2. TypeOK'
  BY DEF IInv, TypeOK, taskVars, ClusterType, PodEvent
<1> QED BY <1>1, <1>2 DEF IInv, FinitePods

LEMMA Outside ==
  ASSUME IInv
  PROVE  /\ synced \in BOOLEAN /\ dbVersion \in Nat /\ entry \in Apps \cup {NoApp}
         /\ app \in [Apps -> AppObject]
         /\ cluster \in ClusterType /\ IsFiniteSet(cluster.pods)
         /\ cluster.deploy \in Workload /\ cluster.pods \in SUBSET Pod
         /\ deployEvents \in Seq(Workload) /\ podEvents \in Seq(PodEvent)
BY DEF IInv, TypeOK, ClusterType, FinitePods, PodEvent

LEMMA PodStartsStep == ASSUME IInv, PodStarts PROVE IInv'
<1> DEFINE p == [uid |-> cluster.deploy.uid, ver |-> cluster.deploy.ver]
<1>1. /\ UNCHANGED <<taskVars, result, storeVars, controllers, job, deployEvents, faults>>
      /\ cluster' = [cluster EXCEPT !.pods = @ \cup {p}]
      /\ podEvents' = Append(podEvents, [add |-> TRUE, pod |-> p])
  BY DEF PodStarts
<1>2. p \in Pod
  BY Outside DEF Workload, Pod
<1> HIDE DEF p
<1>3. [add |-> TRUE, pod |-> p] \in PodEvent
  BY <1>2 DEF PodEvent
<1>4. podEvents' \in Seq(PodEvent)
  BY <1>1, <1>3, Appended, Outside
<1>5. cluster' \in ClusterType /\ cluster'.pods = cluster.pods \cup {p}
  BY <1>1, <1>2, Outside DEF ClusterType
<1>6. IsFiniteSet(cluster.pods \cup {p})
  BY FS_AddElement, Outside
<1> QED BY <1>1, <1>4, <1>5, <1>6, Outside, OutsideType DEF storeVars

LEMMA PodReadyStep == ASSUME IInv, PodReady PROVE IInv'
<1>1. /\ UNCHANGED <<taskVars, result, storeVars, controllers, job, podEvents, faults>>
      /\ cluster' = [cluster EXCEPT !.deploy.ready = TRUE]
      /\ deployEvents' = Append(deployEvents, cluster'.deploy)
  BY DEF PodReady
<1>2. [cluster.deploy EXCEPT !.ready = TRUE] \in Workload
  BY Outside DEF Workload
<1>3. /\ cluster' \in ClusterType /\ cluster'.pods = cluster.pods
      /\ cluster'.deploy \in Workload
  BY <1>1, <1>2, Outside DEF ClusterType
<1>4. deployEvents' \in Seq(Workload)
  BY <1>1, <1>3, Appended, Outside
<1> QED BY <1>1, <1>3, <1>4, Outside, OutsideType DEF storeVars

LEMMA PodEndsStep == ASSUME IInv, NEW p \in cluster.pods, PodEnds(p) PROVE IInv'
<1>1. /\ UNCHANGED <<taskVars, result, storeVars, controllers, job, deployEvents, faults>>
      /\ cluster' = [cluster EXCEPT !.pods = @ \ {p}]
      /\ podEvents' = Append(podEvents, [add |-> FALSE, pod |-> p])
  BY DEF PodEnds
<1>2. p \in Pod
  BY Outside
<1>3. [add |-> FALSE, pod |-> p] \in PodEvent
  BY <1>2 DEF PodEvent
<1>4. podEvents' \in Seq(PodEvent)
  BY <1>1, <1>3, Appended, Outside
<1>5. cluster' \in ClusterType /\ cluster'.pods = cluster.pods \ {p}
  BY <1>1, Outside DEF ClusterType
<1>6. IsFiniteSet(cluster'.pods)
  BY <1>5, FS_RemoveElement, Outside
<1> QED BY <1>1, <1>4, <1>5, <1>6, Outside, OutsideType DEF storeVars

LEMMA CacheAppType ==
  ASSUME IInv
  PROVE  /\ CacheApp \in AppObject
         /\ \A d \in Workload : [CacheApp EXCEPT !.deployment = d, !.ver = d.ver] \in AppObject
         /\ \A x \in Pod : [CacheApp EXCEPT !.pods = {x}] \in AppObject
<1>0. NewApp(dbVersion) \in AppObject
  BY NewAppType, Outside
<1>1. CacheApp \in AppObject
  BY <1>0, NilWorkload DEF CacheApp, AppObject
<1>2. \A d \in Workload : d.ver \in Nat
  BY DEF Workload
<1> QED BY <1>1, <1>2 DEF AppObject

LEMMA OnDeployStep == ASSUME IInv, OnDeploy PROVE IInv'
<1>1. /\ UNCHANGED <<taskVars, result, synced, controllers, job, cluster, podEvents, faults>>
      /\ deployEvents # <<>> /\ deployEvents' = Tail(deployEvents)
  BY DEF OnDeploy
<1>2. deployEvents \in Seq(Workload)
  BY Outside
<1>3. Head(deployEvents) \in Workload /\ deployEvents' \in Seq(Workload)
  BY <1>1, <1>2
<1>4. PICK d \in Workload : d = Head(deployEvents)
  BY <1>3
<1>5. /\ entry' \in Apps \cup {NoApp} /\ app' \in [Apps -> AppObject]
      /\ entry # NoApp => entry' # NoApp
  <2>1. CASE entry # NoApp
    <3>1. app' = SetDeployment(entry, d) /\ entry' = entry
      BY <1>4, <2>1 DEF OnDeploy
    <3> QED BY <2>1, <3>1, Outside, SetDeploymentType
  <2>2. CASE entry = NoApp /\ d = Nil
    BY <1>4, <2>2, Outside DEF OnDeploy
  <2>3. CASE entry = NoApp /\ d # Nil
    <3>1. /\ entry' = 0
          /\ app' = [app EXCEPT ![0] = [CacheApp EXCEPT !.deployment = d, !.ver = d.ver]]
      BY <1>4, <2>3 DEF OnDeploy
    <3> QED BY <2>3, <3>1, CacheAppType, Names, Outside
  <2> QED BY <2>1, <2>2, <2>3
<1> QED BY <1>1, <1>3, <1>5, Outside, OutsideType

LEMMA OnPodStep == ASSUME IInv, OnPod PROVE IInv'
<1>1. /\ UNCHANGED <<taskVars, result, synced, controllers, job, cluster, deployEvents, faults>>
      /\ podEvents # <<>> /\ podEvents' = Tail(podEvents)
  BY DEF OnPod
<1>2. podEvents \in Seq(PodEvent)
  BY Outside
<1>3. Head(podEvents) \in PodEvent /\ podEvents' \in Seq(PodEvent)
  BY <1>1, <1>2
<1>4. PICK e \in PodEvent : e = Head(podEvents)
  BY <1>3
<1>5. e.pod \in Pod
  BY DEF PodEvent
<1>6. /\ entry' \in Apps \cup {NoApp} /\ app' \in [Apps -> AppObject]
      /\ entry # NoApp => entry' # NoApp
  <2>1. CASE entry = NoApp /\ e.add
    <3>1. entry' = 0 /\ app' = [app EXCEPT ![0] = [CacheApp EXCEPT !.pods = {e.pod}]]
      BY <1>4, <2>1 DEF OnPod
    <3> QED BY <1>5, <2>1, <3>1, CacheAppType, Names, Outside
  <2>2. CASE entry = NoApp /\ ~e.add
    BY <1>4, <2>2, Outside DEF OnPod
  <2>3. CASE entry # NoApp
    <3>1. entry \in Apps /\ app[entry] \in AppObject
      BY <2>3, Outside
    <3>2. /\ [app[entry] EXCEPT !.pods = @ \cup {e.pod}] \in AppObject
          /\ [app[entry] EXCEPT !.pods = @ \ {e.pod}] \in AppObject
      BY <1>5, <3>1 DEF AppObject
    <3>3. /\ entry' = entry
          /\ \/ app' = [app EXCEPT ![entry].pods = @ \cup {e.pod}]
             \/ app' = [app EXCEPT ![entry].pods = @ \ {e.pod}]
      BY <1>4, <2>3 DEF OnPod
    <3>4. app' \in [Apps -> AppObject]
      BY <3>1, <3>2, <3>3, Outside
    <3> QED BY <2>3, <3>3, <3>4, Outside
  <2> QED BY <2>1, <2>2, <2>3
<1> QED BY <1>1, <1>3, <1>6, Outside, OutsideType

LEMMA SyncStep == ASSUME IInv, Sync PROVE IInv'
<1>1. /\ UNCHANGED <<taskVars, result, controllers, job, cluster, faults>>
      /\ synced' = TRUE
      /\ deployEvents' = IF cluster.deploy = Nil THEN <<>> ELSE <<cluster.deploy>>
      /\ podEvents' = SetToSeq({[add |-> TRUE, pod |-> p] : p \in cluster.pods})
  BY DEF Sync
<1>2. deployEvents' \in Seq(Workload)
  BY <1>1, Outside
<1>3. podEvents' \in Seq(PodEvent)
  BY <1>1, EventsOf, Outside
<1>4. /\ entry' \in Apps \cup {NoApp} /\ app' \in [Apps -> AppObject]
      /\ entry # NoApp => entry' # NoApp
  BY CacheAppType, Names, Outside DEF Sync
<1> QED BY <1>1, <1>2, <1>3, <1>4, Outside, OutsideType

\* The object of a service that has none
LEMMA BlankType == [NewApp(0) EXCEPT !.deployment = Nil] \in AppObject
BY NewAppType, NilWorkload DEF AppObject

LEMMA IdleType == NoJob \in Job /\ NoJob.role = "none" /\ NoJob.pc = "none"
BY RuntimeAssumption DEF NoJob, Job, Roles, PCs

\* The queue after a crash: the task just taken is missing in it.
LEMMA CrashQueue ==
  ASSUME IInv, Crash
  PROVE  /\ queue' \in Seq(Tasks) /\ Distinct'
         /\ \A t \in Tasks : InQueue(t)' <=> InQueue(t) /\ ~(queue' # queue /\ t = Head(queue))
         /\ queue' # queue => Head(queue) \in Tasks /\ InQueue(Head(queue))
<1>1. queue' = queue \/ (queue # <<>> /\ queue' = Tail(queue))
  BY DEF Crash
<1>2. CASE queue' = queue
  BY <1>2, SameQueue DEF IInv, TypeOK
<1>3. CASE queue # <<>> /\ queue' = Tail(queue)
  <2>1. queue' # queue
    <3>1. Len(Tail(queue)) # Len(queue)
      BY <1>3 DEF IInv, TypeOK
    <3> QED BY <1>3, <3>1
  <2> QED BY <1>3, <2>1, TakeTask DEF IInv, TypeOK
<1> QED BY <1>1, <1>2, <1>3

LEMMA CrashStep == ASSUME IInv, Crash PROVE IInv'
<1>1. /\ UNCHANGED <<mode, kind, dbVersion, cluster>> /\ synced' = FALSE /\ entry' = NoApp
      /\ controllers' = {} /\ deployEvents' = <<>> /\ podEvents' = <<>>
      /\ job' = [t \in Tasks |-> NoJob]
  BY DEF Crash
<1>2. app' \in [Apps -> AppObject]
  BY BlankType DEF Crash
<1>3. faults' \in 0..MaxFaults
  BY OneMoreFault DEF Crash, IInv
<1>4. result' = [t \in Tasks |->
        IF ~Over(t) /\ (job[t] # NoJob \/ (queue' # queue /\ t = Head(queue)))
        THEN "lost" ELSE result[t]]
  BY DEF Crash
<1>5. result' \in [Tasks -> Results]
  BY <1>4, Unpack DEF Results
<1>6. job' \in [Tasks -> Job] /\ \A t \in Tasks : job'[t] = NoJob /\ Role(t)' = "none"
  BY <1>1, IdleType DEF Role
<1>7. /\ queue' \in Seq(Tasks) /\ Distinct'
      /\ \A t \in Tasks : InQueue(t)' <=> InQueue(t) /\ ~(queue' # queue /\ t = Head(queue))
      /\ queue' # queue => Head(queue) \in Tasks /\ InQueue(Head(queue))
  BY CrashQueue
<1>8. ASSUME NEW t \in Tasks
      PROVE  /\ Over(t) => Over(t)'
             /\ Role(t) # "none" => Over(t)'
             /\ InQueue(t) /\ ~InQueue(t)' => Over(t)'
             /\ Role(t) = "none" /\ ~Over(t) /\ (InQueue(t) => InQueue(t)') => ~Over(t)'
  <2>1. result'[t] = IF ~Over(t) /\ (job[t] # NoJob \/ (queue' # queue /\ t = Head(queue)))
                     THEN "lost" ELSE result[t]
    BY <1>4
  <2>2. job[t] # NoJob <=> Role(t) # "none"
    BY IdleType DEF Role, IInv, TasksOK
  <2> QED BY <1>7, <2>1, <2>2 DEF Over
<1>9. TasksOK'
  <2> SUFFICES ASSUME NEW t \in Tasks
               PROVE  /\ InQueue(t)' => kind'[t] # "none" /\ ~Over(t)'
                      /\ kind'[t] # "none" /\ ~Over(t)' => InQueue(t)'
                      /\ kind'[t] = "none" => ~Over(t)'
    BY <1>6 DEF TasksOK
  <2> QED BY <1>1, <1>7, <1>8 DEF IInv, TasksOK
<1>10. ObjectOK'
  BY <1>6, IdleType DEF ObjectOK, Creating
<1>12. TypeOK'
  <2>2. controllers' \subseteq Tasks /\ synced' \in BOOLEAN /\ entry' \in Apps \cup {NoApp}
    BY <1>1
  <2>3. deployEvents' \in Seq(Workload)
    BY <1>1
  <2>4. podEvents' \in Seq([add : BOOLEAN, pod : Pod])
    BY <1>1
  <2> QED BY <1>1, <1>2, <1>3, <1>5, <1>6, <1>7, <2>2, <2>3, <2>4 DEF IInv, TypeOK, Results
<1>13. FinitePods'
  BY <1>1 DEF IInv, FinitePods
<1> QED BY <1>7, <1>9, <1>10, <1>12, <1>13 DEF IInv

-----------------------------------------------------------------------------
\* The invariant

LEMMA InitIInv == Init => IInv
<1> SUFFICES ASSUME Init PROVE IInv
  OBVIOUS
<1>1. /\ \A t \in Tasks : kind[t] = "none" /\ result[t] = "none" /\ job[t] = NoJob
      /\ queue = <<>> /\ controllers = {}
  BY DEF Init
<1>2. app \in [Apps -> AppObject] /\ entry \in Apps \cup {NoApp} /\ cluster \in ClusterType
        /\ IsFiniteSet(cluster.pods)
  <2> DEFINE d == [uid |-> 0, ver |-> 1, rv |-> TRUE, ready |-> TRUE]
             p == [uid |-> 0, ver |-> 1]
  <2>1. d \in Workload /\ p \in Pod
    BY Names DEF Workload, Pod
  <2>2. [deployment |-> d, pods |-> {p}, ver |-> 1] \in AppObject
    BY <2>1 DEF AppObject
  <2>3. CASE entry = NoApp
    <3>1. /\ app = [a \in Apps |-> [NewApp(0) EXCEPT !.deployment = Nil]]
          /\ cluster = [config |-> FALSE, claims |-> FALSE, deploy |-> Nil, svc |-> FALSE,
                        env |-> FALSE, hpa |-> FALSE, monitors |-> FALSE, pods |-> {}]
      BY <2>3, Names DEF Init
    <3> QED BY <2>3, <3>1, BlankType, NilWorkload, FS_EmptySet DEF ClusterType
  <2>4. CASE entry # NoApp
    <3>1. /\ entry = 0
          /\ app = [a \in Apps |-> IF a = 0 THEN [deployment |-> d, pods |-> {p}, ver |-> 1]
                                   ELSE [NewApp(0) EXCEPT !.deployment = Nil]]
          /\ cluster = [config |-> TRUE, claims |-> HasClaims, deploy |-> d, svc |-> TRUE,
                        env |-> TRUE, hpa |-> TRUE, monitors |-> TRUE, pods |-> {p}]
      BY <2>4 DEF Init
    <3> HIDE DEF d, p
    <3>2. app \in [Apps -> AppObject]
      BY <2>2, <3>1, BlankType
    <3>3. cluster \in ClusterType
      BY <2>1, <3>1, RuntimeAssumption DEF ClusterType
    <3>4. IsFiniteSet(cluster.pods)
      BY <3>1, FS_Singleton
    <3> QED BY <3>1, <3>2, <3>3, <3>4, Names
  <2> QED BY <2>3, <2>4
<1>3. TypeOK
  <2>1. queue \in Seq(Tasks) /\ deployEvents \in Seq(Workload)
          /\ podEvents \in Seq([add : BOOLEAN, pod : Pod])
    BY DEF Init
  <2>2. /\ kind \in [Tasks -> Kinds \cup {"none"}] /\ job \in [Tasks -> Job]
        /\ result \in [Tasks -> {"none", "success", "failure", "timeout", "refused", "lost"}]
    BY IdleType DEF Init
  <2>3. faults \in 0..MaxFaults /\ dbVersion \in Nat /\ synced \in BOOLEAN
    BY RuntimeAssumption DEF Init
  <2> QED BY <1>1, <1>2, <2>1, <2>2, <2>3 DEF TypeOK, Init, ClusterType
<1>4. Distinct /\ \A t \in Tasks : ~InQueue(t)
  BY <1>1 DEF Distinct, InQueue
<1>5. TasksOK
  BY <1>1, <1>4, IdleType DEF TasksOK, Role, Over
<1>6. ObjectOK
  BY <1>1, IdleType DEF ObjectOK, Role, Creating
<1> QED BY <1>2, <1>3, <1>4, <1>5, <1>6 DEF IInv, FinitePods

LEMMA NextIInv == IInv /\ [Next]_vars => IInv'
<1> SUFFICES ASSUME IInv, [Next]_vars PROVE IInv'
  OBVIOUS
<1>1. ASSUME NEW t \in Tasks, NEW k \in Kinds, Submit(t, k) PROVE IInv'
  BY <1>1, SubmitStep
<1>2. CASE Exec
  BY <1>2, ExecStep
<1>3. CASE ExecFails \/ RequeueFails \/ PatchFails
  BY <1>3, LoopFailsStep, PatchFailsStep
<1>4. CASE Requeue
  BY <1>4, RequeueStep
<1>5. ASSUME NEW t \in Tasks, Controller(t) PROVE IInv'
  <2>1. CASE Begin(t)
    BY <2>1, BeginStep
  <2>2. CASE CreateConfig(t) \/ CreateSvc(t) \/ DeleteSvc(t) \/ DeleteConfig(t) \/ UpgradeConfig(t)
    BY <2>2, ResourceStep
  <2>3. CASE CreateDeploy(t)
    BY <2>3, CreateDeployStep
  <2>4. CASE CreateHpa(t) \/ UpgradeSvc(t) \/ DeleteHpa(t) \/ DeletePods(t)
    BY <2>4, LastStep, DeletePodsStep
  <2>5. CASE DeleteDeploy(t)
    BY <2>5, DeleteDeployStep
  <2>6. CASE Patch(t)
    BY <2>6, PatchStep
  <2>7. CASE PollDone(t) \/ PollTimeout(t)
    BY <2>7, PollStep
  <2>8. CASE RestartRegist(t)
    BY <2>8, RestartRegistStep
  <2> QED BY <1>5, <2>1, <2>2, <2>3, <2>4, <2>5, <2>6, <2>7, <2>8 DEF Controller
<1>6. ASSUME NEW t \in Tasks,
             \/ EarlyCallback(t) \/ PollRefresh(t) \/ CreateError(t) \/ DeleteError(t)
             \/ UpgradeError(t) \/ LoggedError(t)
      PROVE  IInv'
  BY <1>6, BeginStep, PollRefreshStep, ErrorStep, LoggedStep
<1>7. CASE PodStarts \/ PodReady \/ \E p \in cluster.pods : PodEnds(p)
  BY <1>7, PodStartsStep, PodReadyStep, PodEndsStep
<1>8. CASE OnDeploy \/ OnPod \/ Crash \/ Sync
  BY <1>8, OnDeployStep, OnPodStep, CrashStep, SyncStep
<1>9. CASE UNCHANGED vars
  BY <1>9 DEF vars, IInv, TypeOK, FinitePods, Distinct, TasksOK, ObjectOK,
              InQueue, Role, Over
<1> QED BY <1>1, <1>2, <1>3, <1>4, <1>5, <1>6, <1>7, <1>8, <1>9 DEF Next

LEMMA Invariant == Spec => []IInv
BY InitIInv, NextIInv, PTL DEF Spec

\* Type correctness of the worker: every variable keeps its type, whatever
\* operations, failures and crashes there are.
THEOREM TypeCorrect == Spec => []TypeOK
<1>1. IInv => TypeOK
  BY DEF IInv
<1> QED BY <1>1, Invariant, PTL

\* The object WaitReady and upgradeOne use without a test for nil is there: from
\* the moment a start or an upgrade is taken from the queue until its controller
\* ends, however many operations of the service overlap.
THEOREM ObjectIsThere == Spec => []ObjectStays
<1>1. IInv => ObjectStays
  BY DEF IInv, ObjectOK, ObjectStays, Role, At
<1> QED BY <1>1, Invariant, PTL

\* Only a failed call or a crash loses a task, and one that cleans up has reported its
\* failure.
LostOK ==
  \A t \in Tasks :
    /\ result[t] = "lost" => faults > 0
    /\ Role(t) = "cleanup" => result[t] = "failure"

\* A step that loses no task.
LEMMA LostKept ==
  ASSUME IInv, LostOK, faults' \in {faults, faults + 1},
         \A t \in Tasks :
           /\ result'[t] = "lost" => result[t] = "lost"
           /\ Role(t)' = "cleanup" => result'[t] = "failure"
  PROVE  LostOK'
<1>1. faults \in Nat
  BY Unpack, RuntimeAssumption
<1> QED BY <1>1 DEF LostOK

\* A step of the controller of t.
LEMMA WorkLost ==
  ASSUME IInv, LostOK, NEW t \in Tasks, faults' \in {faults, faults + 1},
         \/ result' = result /\ \E j : j.role # "cleanup" /\ job' = [job EXCEPT ![t] = j]
         \/ result' = result /\ job' = job
         \/ result' = result /\ \E j : j.role = Role(t) /\ job' = [job EXCEPT ![t] = j]
         \/ \E r \in Results \ {"lost"} : Finish(t, r)
         \/ CreateFails(t)
  PROVE  LostOK'
<1>1. job \in [Tasks -> Job] /\ result \in [Tasks -> Results]
  BY Unpack
<1>2. CASE result' = result /\ \E j : (j.role # "cleanup" \/ j.role = Role(t)) /\ job' = [job EXCEPT ![t] = j]
  BY <1>1, <1>2, LostKept DEF LostOK, Role
<1>3. CASE result' = result /\ job' = job
  BY <1>3, LostKept DEF LostOK, Role
<1>4. CASE \E r \in Results \ {"lost"} : Finish(t, r)
  <2>1. PICK r \in Results \ {"lost"} : Finish(t, r)
    BY <1>4
  <2>2. /\ job' = [job EXCEPT ![t] = NoJob]
        /\ result' = IF Role(t) = "cleanup" THEN result ELSE [result EXCEPT ![t] = r]
    BY <2>1 DEF Finish, Role
  <2>3. \A u \in Tasks : Role(u)' = IF u = t THEN "none" ELSE Role(u)
    BY <1>1, <2>2, IdleType DEF Role
  <2> QED BY <1>1, <2>1, <2>2, <2>3, LostKept DEF LostOK
<1>5. CASE CreateFails(t) /\ Role(t) = "start"
  <2>1. /\ job' = [job EXCEPT ![t].role = "cleanup", ![t].pc = "delete svc"]
        /\ result' = [result EXCEPT ![t] = "failure"]
    BY <1>5 DEF CreateFails, Role
  <2>2. \A u \in Tasks : u # t => Role(u)' = Role(u)
    BY <1>1, <2>1 DEF Role
  <2> QED BY <1>1, <2>1, <2>2, LostKept DEF LostOK
<1>6. CreateFails(t) /\ Role(t) # "start" => Finish(t, "failure")
  BY DEF CreateFails, Role
<1> QED BY <1>2, <1>3, <1>4, <1>5, <1>6 DEF Results

\* The loop answers the first task.
LEMMA AnswerLost ==
  ASSUME IInv, LostOK, NEW r, result' = [result EXCEPT ![Head(queue)] = r], UNCHANGED job,
         queue # <<>>,
         faults' \in {faults, faults + 1}, r = "lost" => faults' = faults + 1
  PROVE  LostOK'
<1>1. job \in [Tasks -> Job] /\ result \in [Tasks -> Results] /\ faults \in Nat
  BY Unpack, RuntimeAssumption
<1>2. Head(queue) \in Tasks /\ Role(Head(queue)) = "none"
  <2>1. Head(queue) \in Tasks /\ InQueue(Head(queue))
    <3>1. queue \in Seq(Tasks) /\ 1 \in DOMAIN queue /\ Head(queue) = queue[1]
      BY DEF IInv, TypeOK
    <3> QED BY <3>1 DEF InQueue
  <2> QED BY <2>1 DEF IInv, TasksOK
<1> QED BY <1>1, <1>2 DEF LostOK, Role

LEMMA NextLost == IInv /\ LostOK /\ [Next]_vars => LostOK'
<1> SUFFICES ASSUME IInv, LostOK, [Next]_vars PROVE LostOK'
  OBVIOUS
<1>0. job \in [Tasks -> Job] /\ result \in [Tasks -> Results] /\ faults \in Nat
  BY Unpack, RuntimeAssumption
<1>1. CASE \/ \E t \in Tasks, k \in Kinds : Submit(t, k)
           \/ Requeue \/ PodStarts \/ PodReady \/ \E p \in cluster.pods : PodEnds(p)
           \/ OnDeploy \/ OnPod \/ Sync \/ UNCHANGED vars
  <2>1. UNCHANGED <<result, job, faults>>
    BY <1>1 DEF Submit, Requeue, PodStarts, PodReady, PodEnds, OnDeploy, OnPod, Sync, vars
  <2> QED BY <2>1 DEF LostOK, Role
<1>2. CASE Exec
  <2>1. queue # <<>> /\ faults' = faults
    BY <1>2 DEF Exec
  <2>2. \/ result' = [result EXCEPT ![Head(queue)] = "refused"] /\ UNCHANGED job
        \/ /\ result' = result
           /\ \E j : j.role # "cleanup" /\ job' = [job EXCEPT ![Head(queue)] = j]
    <3>1. Head(queue) \in Tasks /\ kind[Head(queue)] # "cleanup"
      BY <2>1, RuntimeAssumption DEF IInv, TypeOK
    <3>2. \A a : Copy(kind[Head(queue)], a).role # "cleanup"
      BY <3>1 DEF Copy
    <3>3. \A a : [Copy("upgrade", a) EXCEPT !.ver = dbVersion, !.pods = {}].role # "cleanup"
      BY DEF Copy
    <3> QED BY <1>2, <3>2, <3>3 DEF Exec, startExec, stopExec, rollingUpgradeExec, StartNew,
                                    StartController, Answer
  <2>3. Head(queue) \in Tasks
    BY <2>1 DEF IInv, TypeOK
  <2> QED BY <2>1, <2>2, <2>3, AnswerLost, WorkLost
<1>3. CASE ExecFails \/ PatchFails \/ RequeueFails
  BY <1>3, AnswerLost DEF ExecFails, PatchFails, RequeueFails, Answer
<1>4. ASSUME NEW t \in Tasks,
             \/ Controller(t) \/ EarlyCallback(t) \/ PollRefresh(t)
             \/ CreateError(t) \/ DeleteError(t) \/ UpgradeError(t) \/ LoggedError(t)
      PROVE  LostOK'
  <2>0. /\ \A p : Goto(t, p) => \E j : j.role = Role(t) /\ job' = [job EXCEPT ![t] = j]
        /\ \A p, w : job' = [job EXCEPT ![t].pc = p, ![t].watch = w] =>
             \E j : j.role = Role(t) /\ job' = [job EXCEPT ![t] = j]
    <3>1. \A p, w : /\ [job[t] EXCEPT !.pc = p].role = Role(t)
                    /\ [job[t] EXCEPT !.pc = p, !.watch = w].role = Role(t)
      BY <1>0 DEF Job, Role
    <3> QED BY <1>0, <3>1 DEF Goto
  <2>1. faults' \in {faults, faults + 1}
    BY <1>4 DEF Controller, Begin, EarlyCallback, CreateConfig, CreateDeploy, CreateSvc, CreateHpa,
                DeleteSvc, DeleteConfig, DeleteDeploy, DeletePods, DeleteHpa, UpgradeConfig, Patch,
                UpgradeSvc, PollDone, PollTimeout, RestartRegist, PollRefresh, CreateError,
                DeleteError, UpgradeError, LoggedError
  <2>2. CASE Begin(t) \/ EarlyCallback(t) \/ PollRefresh(t) \/ RestartRegist(t)
    <3>1. \A p, w, v : /\ [job[t] EXCEPT !.pc = p].role = Role(t)
                       /\ [job[t] EXCEPT !.watch = w].role = Role(t)
                       /\ [job[t] EXCEPT !.pc = p, !.ver = v, !.deploy = TRUE, !.pods = {}].role = Role(t)
      BY <1>0 DEF Job, Role
    <3>2. \/ result' = result /\ job' = job
          \/ result' = result /\ \E j : j.role = Role(t) /\ job' = [job EXCEPT ![t] = j]
      BY <1>0, <2>2, <3>1 DEF Begin, EarlyCallback, PollRefresh, RestartRegist
    <3> QED BY <2>1, <3>2, WorkLost
  <2>3. CASE \/ CreateConfig(t) \/ CreateSvc(t) \/ DeleteSvc(t) \/ DeleteConfig(t)
             \/ DeleteDeploy(t) \/ DeletePods(t) \/ UpgradeConfig(t)
    <3>1. (\E p : Goto(t, p)) /\ result' = result
      BY <2>3 DEF CreateConfig, CreateSvc, DeleteSvc, DeleteConfig, DeleteDeploy, DeletePods,
                  UpgradeConfig, Goto
    <3> QED BY <2>0, <2>1, <3>1, WorkLost
  <2>4. CASE \/ (\E m : CreateRest(t, m) \/ DeleteRest(t, m)) \/ (\E x, m : UpgradeRest(t, x, m))
             \/ \E p : Goto(t, p)
    <3>1. /\ result' = result
          /\ \E j : j.role = Role(t) /\ job' = [job EXCEPT ![t] = j]
      BY <2>0, <2>4 DEF CreateRest, DeleteRest, UpgradeRest, Goto
    <3> QED BY <2>1, <3>1, WorkLost
  <2>5. CASE CreateHpa(t) \/ DeleteHpa(t) \/ UpgradeSvc(t) \/ LoggedError(t)
    BY <2>4, <2>5 DEF CreateHpa, DeleteHpa, UpgradeSvc, LoggedError
  <2>6. CASE \/ CreateDeploy(t) \/ Patch(t) \/ PollDone(t) \/ PollTimeout(t)
             \/ CreateError(t) \/ DeleteError(t) \/ UpgradeError(t)
    <3>1. \/ \E p : Goto(t, p)
          \/ \E r \in {"success", "failure", "timeout"} : Finish(t, r)
          \/ CreateFails(t)
      BY <2>6 DEF CreateDeploy, Patch, PollDone, PollTimeout, CreateError, DeleteError, UpgradeError
    <3> QED BY <2>1, <2>4, <3>1, WorkLost DEF Results
  <2> QED BY <1>4, <2>2, <2>3, <2>5, <2>6 DEF Controller
<1>5. CASE Crash
  <2>1. /\ faults' = faults + 1 /\ job' = [t \in Tasks |-> NoJob]
        /\ \A t \in Tasks : Role(t)' = "none"
    BY <1>5, IdleType DEF Crash, Role
  <2> QED BY <1>0, <2>1 DEF LostOK
<1> QED BY <1>1, <1>2, <1>3, <1>4, <1>5 DEF Next

LEMMA LostInvariant == Spec => [](IInv /\ LostOK)
<1>1. Init => LostOK
  BY IdleType DEF Init, LostOK, Role
<1> QED BY <1>1, InitIInv, NextIInv, NextLost, PTL DEF Spec

\* A task that nobody answered is in the queue, once, or has a controller, and never
\* both, unless it was lost, which takes a failed call or a crash; a lost task has no
\* controller and does not come back: neither the loop nor the controllers forget a task
\* of their own accord or carry one out twice.
THEOREM TasksAreNotForgotten == Spec => []NoTaskForgotten
<1>1. IInv /\ LostOK => NoTaskForgotten
  <2> SUFFICES ASSUME IInv, LostOK PROVE NoTaskForgotten
    OBVIOUS
  <2>1. \A t \in Tasks : (t \in ToSet(queue) <=> InQueue(t))
    BY DEF ToSet, InQueue
  <2>2. \A t \in Tasks : (job[t] # NoJob <=> Role(t) # "none")
    BY IdleType DEF IInv, TasksOK, Role
  <2>3. \A t \in Tasks : kind[t] # "none" /\ ~Over(t) =>
          (t \in ToSet(queue)) # (job[t] # NoJob)
    <3> SUFFICES ASSUME NEW t \in Tasks, kind[t] # "none", ~Over(t)
                 PROVE  (t \in ToSet(queue)) # (job[t] # NoJob)
      OBVIOUS
    <3>1. \/ InQueue(t) /\ ~(Role(t) # "none")
          \/ ~InQueue(t) /\ Role(t) # "none"
      BY DEF IInv, TasksOK
    <3> QED BY <2>1, <2>2, <3>1
  <2>4. \A i \in DOMAIN queue : queue[i] \in Tasks /\ ~Over(queue[i])
    BY DEF IInv, TypeOK, TasksOK, InQueue
  <2>5. \A t \in Tasks : result[t] = "lost" => job[t] = NoJob /\ faults > 0
    BY <2>2 DEF IInv, TasksOK, LostOK, Over
  <2> QED BY <2>3, <2>4, <2>5 DEF NoTaskForgotten, IInv, Distinct
<1> QED BY <1>1, LostInvariant, PTL

-----------------------------------------------------------------------------
(***************************************************************************)
(* A user who waits for an answer before the next request (modes "serial"  *)
(* and "settled"): what an answer says about the cluster, for any number   *)
(* of tasks, failures and crashes.                                         *)
(***************************************************************************)

Starting == {"create config", "create deploy", "create svc", "create hpa", "ready"}
Deleting == {"delete svc", "delete config", "delete deploy", "delete pods", "delete hpa", "closed"}
Upgrading == {"upgrade config", "patch", "upgrade svc", "upgraded"}

\* Only the last task can be without an answer or at work.
SerialOK ==
  \A t, u \in Tasks : u < t /\ kind[t] # "none" =>
    kind[u] # "none" /\ Over(u) /\ job[u] = NoJob

\* Whatever exists has a version, and a workload was given its ResourceVersion.
Made(d) == d = Nil \/ (d.ver >= 1 /\ d.rv)
VersionsOK ==
  /\ dbVersion >= 1
  /\ \A p \in cluster.pods : p.ver >= 1
  /\ Made(cluster.deploy)
  /\ \A i \in DOMAIN deployEvents : Made(deployEvents[i])

\* A task that has not created a workload yet owns none, and no pod.
Own == {"create svc", "create hpa", "ready"}
Unborn(t) ==
  \/ kind[t] = "none" \/ InQueue(t)
  \/ Role(t) \in {"start", "restart"} /\ job[t].pc \notin Own
Childless(t) == cluster.deploy.uid # t /\ \A p \in cluster.pods : p.uid # t
OwnOK == \A t \in Tasks : Unborn(t) => Childless(t)

\* The informers' last word about the workload is what it is: the cached object
\* has it, or the last event does.
Cached == entry # NoApp /\ app[entry].deployment.rv
CacheOK ==
  synced => IF deployEvents = <<>> THEN cluster.deploy # Nil <=> Cached
            ELSE deployEvents[Len(deployEvents)] = cluster.deploy

\* The same for the pods of the workload.
NoEvent(p) == \A i \in DOMAIN podEvents : podEvents[i].pod # p
Pending(b, p) ==
  \E i \in DOMAIN podEvents :
    /\ podEvents[i] = [add |-> b, pod |-> p]
    /\ \A j \in DOMAIN podEvents : j > i => podEvents[j].pod # p
PodSeen(p) == Pending(TRUE, p) \/ (NoEvent(p) /\ entry # NoApp /\ p \in app[entry].pods)
PodsOK ==
  synced /\ cluster.deploy # Nil =>
    \A p \in cluster.pods : p.uid = cluster.deploy.uid => PodSeen(p)

\* ... and the cached object has no other pods, or will lose them.
Unseen(p) == Pending(FALSE, p) \/ (NoEvent(p) /\ (entry = NoApp \/ p \notin app[entry].pods))
GhostsOK == synced => \A p \in Pod : p \notin cluster.pods => Unseen(p)

\* The service has settled and the cached object has its pod, or is closed.
OwnPod == [uid |-> cluster.deploy.uid, ver |-> cluster.deploy.ver]
Rest ==
  /\ Settled
  /\ cluster.deploy # Nil => entry # NoApp /\ OwnPod \in app[entry].pods
  /\ cluster.deploy = Nil => entry = NoApp \/ IsClosed(entry)

\* As long as a request waits, the cached object tells whether there is a workload.
QueuedOK ==
  queue # <<>> =>
    /\ synced
    /\ cluster.deploy # Nil => Cached /\ \A i \in DOMAIN deployEvents : deployEvents[i] # Nil
    /\ cluster.deploy = Nil => deployEvents = <<>>
    /\ mode = "settled" => Rest

\* The steps of a role, and the roles a task can have.
RoleOK(t) ==
  /\ job[t].pc = "begin" => Role(t) # "cleanup"
  /\ job[t].pc \in Starting => Role(t) \in {"start", "restart"}
  /\ job[t].pc \in Deleting => Role(t) \in {"stop", "restart", "cleanup"}
  /\ job[t].pc \in Upgrading => Role(t) = "upgrade"
  /\ job[t].pc = "regist" => Role(t) = "restart"
  /\ Role(t) = "upgrade" => job[t].pc = "begin" \/ job[t].pc \in Upgrading
  /\ Role(t) \in {"stop", "restart", "upgrade"} => kind[t] = Role(t)
  /\ Role(t) \in {"start", "cleanup"} => kind[t] \in {"start", "upgrade"} /\ job[t].deploy
  /\ Role(t) = "cleanup" => result[t] = "failure" /\ faults >= 1
  /\ Role(t) \in {"start", "upgrade"} \/ job[t].pc \in Starting => job[t].ver >= 1

\* The removal of a monitor may have failed: a cleanup follows a failure already.
Excused(t) == faults > 0 /\ (Role(t) = "cleanup" => faults > 1)

\* stopOne: a workload will be deleted, and what was deleted stays away.
DeleteOK(t) ==
  /\ (/\ Role(t) \in {"stop", "restart"} /\ cluster.deploy # Nil
      /\ job[t].pc \in {"begin", "delete svc", "delete config", "delete deploy"})
       => job[t].deploy
  /\ job[t].pc \in Deleting \ {"delete svc"} => ~cluster.svc
  /\ job[t].pc \in Deleting \ {"delete svc", "delete config"} => ~cluster.config
  /\ job[t].pc \in {"delete pods", "delete hpa", "closed", "regist"} => cluster.deploy = Nil
  /\ job[t].pc = "closed" => ~cluster.hpa
  /\ job[t].pc = "closed" /\ cluster.monitors => Excused(t)

\* startOne: there is no workload until it creates its own.
CreateOK(t) ==
  /\ job[t].pc \in {"create config", "create deploy"} => cluster.deploy = Nil
  /\ Role(t) = "start" /\ job[t].pc = "begin" => cluster.deploy = Nil
  /\ job[t].pc \in Own => cluster.deploy.uid = t

\* What a start may be told about readiness is true.
ReadySeen(t) ==
  /\ app[t].deployment.ready => cluster.deploy.ready
  /\ \A i \in DOMAIN deployEvents : deployEvents[i].ready => cluster.deploy.ready
ReadyOK(t) ==
  Role(t) = "start" =>
    entry = t /\ (job[t].pc = "ready" => job[t].watch = t) /\ ReadySeen(t)

\* An upgrade of a settled service: once the workload has its version, the cached
\* object has every pod of another version that is still there.
Patched(t) ==
  /\ cluster.deploy # Nil /\ cluster.deploy.ver = job[t].ver
  /\ \A i \in DOMAIN deployEvents : deployEvents[i] # Nil /\ deployEvents[i].ver = job[t].ver
  /\ \A p \in cluster.pods : p.ver # job[t].ver => NoEvent(p) /\ p \in app[entry].pods
OnlyNew ==
  /\ cluster.deploy = Nil => cluster.pods = {}
  /\ \A p \in cluster.pods : p.ver = cluster.deploy.ver
UpgradeOK(t) ==
  mode = "settled" =>
    /\ Role(t) = "start" => OnlyNew
    /\ Role(t) = "upgrade" => entry # NoApp /\ app[entry].ver = job[t].ver
    /\ Role(t) = "upgrade" /\ job[t].pc \in {"begin", "upgrade config", "patch"} => Rest
    /\ job[t].pc \in {"upgrade svc", "upgraded"} => Patched(t)
    /\ job[t].pc = "upgraded" => job[t].watch = entry

JobOK(t) == RoleOK(t) /\ DeleteOK(t) /\ CreateOK(t) /\ ReadyOK(t) /\ UpgradeOK(t)

\* What the answer to a task says, also when the task was refused.
AnswerOK(t) ==
  /\ kind[t] = "stop" /\ result[t] \in {"success", "refused"} => Gone(0)
  /\ kind[t] \in {"start", "restart"} /\ result[t] = "success" => cluster.deploy.uid = t
  /\ kind[t] = "start" /\ result[t] = "success" => cluster.deploy.ready
  /\ mode = "settled" /\ kind[t] = "start" /\ result[t] = "refused" =>
       cluster.deploy # Nil /\ cluster.deploy.ready
  /\ kind[t] = "restart" /\ result[t] = "refused" => Nothing
  /\ (/\ kind[t] = "start" /\ result[t] = "failure" /\ job[t] = NoJob
      /\ entry = t /\ faults <= 1) => Gone(1)
  /\ mode = "settled" /\ kind[t] = "upgrade" /\ result[t] = "success" =>
       \A p \in cluster.pods : p.ver = cluster.deploy.ver

SInv ==
  /\ SerialOK /\ VersionsOK /\ OwnOK /\ CacheOK /\ PodsOK /\ GhostsOK /\ QueuedOK
  /\ \A t \in Tasks : JobOK(t)
  /\ \A t \in Tasks : Alone(t) => AnswerOK(t)

\* An object is named after a task only when the task was taken from the queue; before
\* the informers have listed the cluster there is none; and without one no controller is
\* at work and the cluster has nothing the informers would have made one for.
FreshOK ==
  /\ \A t \in Tasks : kind[t] = "none" \/ InQueue(t) => entry # t
  /\ ~synced => entry = NoApp
  /\ entry = NoApp =>
       /\ \A t \in Tasks : job[t] = NoJob
       /\ synced => ~cluster.config /\ ~cluster.svc /\ ~cluster.hpa /\ ~cluster.monitors

Serial == IInv /\ SInv /\ mode # "free"

-----------------------------------------------------------------------------
\* Who is at work

\* Nothing is said about a task without a controller.
LEMMA Idle ==
  ASSUME NEW t \in Tasks
  PROVE  (job[t] = NoJob => JobOK(t)) /\ (job'[t] = NoJob => JobOK(t)')
<1>1. NoJob.pc = "none" /\ NoJob.role = "none"
  BY DEF NoJob
<1> QED BY <1>1 DEF JobOK, RoleOK, DeleteOK, CreateOK, ReadyOK, UpgradeOK, Role,
                    Starting, Deleting, Upgrading, Own

LEMMA FaultsNat == (IInv => faults \in Nat) /\ (IInv' => faults' \in Nat)
<1>1. IInv => faults \in 0..MaxFaults
  BY DEF IInv, TypeOK
<1>2. IInv' => faults' \in 0..MaxFaults
  BY DEF IInv, TypeOK
<1> QED BY <1>1, <1>2, RuntimeAssumption

LEMMA Numbered == \A t \in Tasks : t \in Nat /\ t >= 1 /\ t # 0 /\ t # NoApp
BY RuntimeAssumption DEF Tasks, NoApp

\* At most one task is at work, and then none waits.
LEMMA OnlyOne ==
  ASSUME Serial, NEW t \in Tasks, Role(t) # "none"
  PROVE  /\ queue = <<>> /\ kind[t] # "none" /\ Alone(t)
         /\ \A u \in Tasks : u # t => job[u] = NoJob /\ ~Alone(u)
         /\ \A u \in Tasks : u > t => kind[u] = "none"
<1> USE DEF Serial, SInv
<1>0. TasksOK /\ TypeOK /\ SerialOK
  BY DEF IInv
<1>1. kind[t] # "none" /\ job[t] # NoJob
  BY <1>0, IdleType DEF TasksOK, Role
<1>2. ASSUME NEW u \in Tasks, u > t PROVE kind[u] = "none"
  BY <1>0, <1>1, <1>2, Numbered DEF SerialOK
<1>3. ASSUME NEW u \in Tasks, u # t PROVE job[u] = NoJob /\ ~Alone(u)
  <2>1. CASE u < t
    BY <1>0, <1>1, <2>1 DEF SerialOK, Alone
  <2>2. CASE u > t
    <3>1. kind[u] = "none"
      BY <1>2, <2>2
    <3> QED BY <1>0, <3>1 DEF TasksOK, Alone
  <2> QED BY <1>3, <2>1, <2>2, Numbered
<1>4. Alone(t)
  BY <1>1, <1>2 DEF Alone
<1>5. queue = <<>>
  <2> SUFFICES ASSUME queue # <<>> PROVE FALSE
    OBVIOUS
  <2>1. queue \in Seq(Tasks) /\ 1 \in DOMAIN queue
    BY <1>0 DEF TypeOK
  <2>2. PICK u \in Tasks : u = queue[1] /\ InQueue(u)
    BY <2>1 DEF InQueue
  <2>3. kind[u] # "none" /\ ~Over(u) /\ Role(u) = "none"
    BY <1>0, <2>2 DEF TasksOK
  <2>4. u < t
    BY <1>2, <2>3, Numbered
  <2> QED BY <1>0, <1>1, <2>3, <2>4 DEF SerialOK
<1> QED BY <1>1, <1>2, <1>3, <1>4, <1>5

-----------------------------------------------------------------------------
\* Steps of the controller at work

\* What does not depend on config, svc and the controllers.
LEMMA Still ==
  ASSUME UNCHANGED <<synced, entry, app, deployEvents, podEvents>>,
         cluster'.deploy = cluster.deploy, cluster'.pods = cluster.pods
  PROVE  /\ dbVersion' = dbVersion => VersionsOK' = VersionsOK
         /\ CacheOK' = CacheOK /\ PodsOK' = PodsOK /\ GhostsOK' = GhostsOK /\ Rest' = Rest
         /\ OnlyNew' = OnlyNew
         /\ \A t : Childless(t)' = Childless(t) /\ ReadySeen(t)' = ReadySeen(t)
         /\ \A t : job'[t].ver = job[t].ver => Patched(t)' = Patched(t)
<1>1. VersionsOK' = VersionsOK \/ dbVersion' # dbVersion
  BY DEF VersionsOK
<1>2. CacheOK' = CacheOK
  BY DEF CacheOK, Cached
<1>3. PodsOK' = PodsOK /\ GhostsOK' = GhostsOK
  <2>1. \A p : PodSeen(p)' = PodSeen(p) /\ Unseen(p)' = Unseen(p)
    BY DEF PodSeen, Unseen, Pending, NoEvent
  <2> QED BY <2>1 DEF PodsOK, GhostsOK
<1>4. Rest' = Rest
  BY DEF Rest, Settled, Quiet, OwnPod, IsClosed
<1>5. OnlyNew' = OnlyNew
  BY DEF OnlyNew
<1>6. \A t : Childless(t)' = Childless(t) /\ ReadySeen(t)' = ReadySeen(t)
  BY DEF Childless, ReadySeen
<1>7. \A t : job'[t].ver = job[t].ver => Patched(t)' = Patched(t)
  BY DEF Patched, NoEvent
<1> QED BY <1>1, <1>2, <1>3, <1>4, <1>5, <1>6, <1>7

\* The cached object has no pods but those it had and those that are there.
LEMMA GhostsKept ==
  ASSUME GhostsOK, synced' => synced, podEvents' = podEvents,
         cluster.pods \subseteq cluster'.pods,
         \/ entry' = NoApp
         \/ \A p \in app'[entry'].pods :
              p \in cluster'.pods \/ (entry # NoApp /\ p \in app[entry].pods)
  PROVE  GhostsOK'
<1> SUFFICES ASSUME synced, NEW p \in Pod, p \notin cluster'.pods PROVE Unseen(p)'
  BY DEF GhostsOK
<1>1. Unseen(p)
  BY DEF GhostsOK
<1>2. NoEvent(p)' = NoEvent(p) /\ Pending(FALSE, p)' = Pending(FALSE, p)
  BY DEF NoEvent, Pending
<1> QED BY <1>1, <1>2 DEF Unseen

\* The others do nothing meanwhile: what is left to show concerns the controller
\* and the cluster.
LEMMA OneWorks ==
  ASSUME Serial, IInv', NEW t \in Tasks, Role(t) # "none",
         UNCHANGED <<mode, kind, queue>>,
         \A u \in Tasks : u # t => job'[u] = job[u] /\ result'[u] = result[u],
         JobOK(t)', AnswerOK(t)'
  PROVE  /\ SerialOK' /\ QueuedOK'
         /\ \A u \in Tasks : JobOK(u)'
         /\ \A u \in Tasks : Alone(u)' => AnswerOK(u)'
<1>1. /\ queue = <<>> /\ kind[t] # "none"
      /\ \A u \in Tasks : u # t => job[u] = NoJob /\ ~Alone(u)
      /\ \A u \in Tasks : u > t => kind[u] = "none"
  BY OnlyOne
<1>2. SerialOK'
  <2> SUFFICES ASSUME NEW v \in Tasks, NEW u \in Tasks, u < v, kind[v] # "none"
               PROVE  kind[u] # "none" /\ Over(u)' /\ job'[u] = NoJob
    BY DEF SerialOK
  <2>1. u # t
    BY <1>1, Numbered
  <2> QED BY <1>1, <2>1 DEF Serial, SInv, SerialOK, Over
<1>3. QueuedOK'
  BY <1>1 DEF QueuedOK
<1>4. ASSUME NEW u \in Tasks PROVE JobOK(u)'
  <2>1. CASE u = t
    BY <2>1
  <2>2. CASE u # t
    <3>1. job'[u] = NoJob
      BY <1>1, <2>2
    <3> QED BY <3>1, Idle
  <2> QED BY <2>1, <2>2
<1>5. ASSUME NEW u \in Tasks, Alone(u)' PROVE AnswerOK(u)'
  BY <1>1, <1>5 DEF Alone
<1> QED BY <1>2, <1>3, <1>4, <1>5

\* A step that leaves workload, pods, cache and events alone.
LEMMA StillStep ==
  ASSUME Serial, IInv', NEW t \in Tasks, Role(t) # "none",
         UNCHANGED <<mode, kind, queue, dbVersion, synced, entry, app, deployEvents, podEvents>>,
         cluster'.deploy = cluster.deploy, cluster'.pods = cluster.pods,
         \A u \in Tasks : u # t => job'[u] = job[u] /\ result'[u] = result[u],
         Unborn(t)' => Unborn(t),
         JobOK(t)', AnswerOK(t)'
  PROVE  SInv'
<1>1. /\ SerialOK' /\ QueuedOK'
      /\ \A u \in Tasks : JobOK(u)'
      /\ \A u \in Tasks : Alone(u)' => AnswerOK(u)'
  BY OneWorks
<1>2. VersionsOK' /\ CacheOK' /\ PodsOK' /\ GhostsOK' /\ \A u : Childless(u)' = Childless(u)
  BY Still DEF Serial, SInv
<1>3. \A u \in Tasks : Unborn(u)' => Unborn(u)
  <2> SUFFICES ASSUME NEW u \in Tasks, u # t PROVE Unborn(u)' => Unborn(u)
    OBVIOUS
  <2> QED BY DEF Unborn, InQueue, Role
<1>4. OwnOK'
  BY <1>2, <1>3 DEF Serial, SInv, OwnOK
<1> QED BY <1>1, <1>2, <1>4 DEF SInv

\* A task at work has no answer yet, or reports a failure and cleans up.
LEMMA Unanswered ==
  ASSUME IInv', NEW t \in Tasks, Role(t)' # "none", RoleOK(t)'
  PROVE  AnswerOK(t)'
<1>1. job'[t] # NoJob
  BY IdleType DEF Role
<1>2. result'[t] = "none" \/ result'[t] = "failure"
  BY DEF IInv, TasksOK, Over, RoleOK
<1> QED BY <1>1, <1>2 DEF AnswerOK

LEMMA Facts ==
  ASSUME Serial, NEW t \in Tasks
  PROVE  /\ job[t] \in Job /\ job \in [Tasks -> Job] /\ result \in [Tasks -> Results]
         /\ cluster \in ClusterType /\ entry \in Apps \cup {NoApp} /\ app \in [Apps -> AppObject]
         /\ job[t].pc # "none" => Role(t) # "none"
         /\ JobOK(t)
BY Unpack, AtWork DEF Serial, SInv

\* A controller goes on to its next step and leaves the cache and the workload alone.
LEMMA StepOn ==
  ASSUME Serial, IInv', NEW t \in Tasks, NEW j \in Job, Role(t) # "none", j.role = Role(t),
         job' = [job EXCEPT ![t] = j], result' = result,
         UNCHANGED <<mode, kind, queue, dbVersion, synced, entry, app, deployEvents, podEvents>>,
         cluster'.deploy = cluster.deploy, cluster'.pods = cluster.pods,
         j.pc \notin Own => job[t].pc \notin Own,
         JobOK(t)'
  PROVE  SInv'
<1>1. /\ job'[t] = j
      /\ \A u \in Tasks : u # t => job'[u] = job[u] /\ result'[u] = result[u]
  BY Facts
<1>2. Unborn(t)' => Unborn(t)
  BY <1>1 DEF Unborn, InQueue, Role
<1>3. AnswerOK(t)'
  BY <1>1, Unanswered DEF JobOK, Role
<1> QED BY <1>1, <1>2, <1>3, StillStep

LEMMA BeginSerial ==
  ASSUME Serial, IInv', NEW t \in Tasks, Begin(t) \/ EarlyCallback(t)
  PROVE  SInv'
<1>1. /\ job[t].pc = "begin" /\ Role(t) # "none"
      /\ UNCHANGED <<taskVars, result, storeVars, cluster, eventVars, faults>>
  BY Facts DEF Begin, EarlyCallback, At
<1>2. /\ UNCHANGED <<mode, kind, queue, dbVersion, synced, entry, app, deployEvents, podEvents>>
      /\ cluster' = cluster /\ result' = result /\ faults' = faults
  BY <1>1 DEF taskVars, storeVars, eventVars
<1>3. PICK j \in Job : /\ j = [job[t] EXCEPT !.pc = j.pc] /\ job' = [job EXCEPT ![t] = j]
                       /\ j.pc \in {"begin", Entry(Role(t))}
  <2>1. CASE Begin(t)
    <3> DEFINE j == [job[t] EXCEPT !.pc = Entry(job[t].role)]
    <3>1. j \in Job /\ j.pc = Entry(Role(t))
      BY Facts DEF Job, Entry, PCs, Role
    <3>2. job' = [job EXCEPT ![t] = j] /\ j = [job[t] EXCEPT !.pc = j.pc]
      BY <2>1, <3>1, Facts DEF Begin, Job, Role
    <3> QED BY <3>1, <3>2
  <2>2. CASE EarlyCallback(t)
    BY <1>1, <2>2, Facts DEF EarlyCallback, Job
  <2> QED BY <2>1, <2>2
<1>4. /\ j.role = Role(t) /\ j.ver = job[t].ver /\ j.deploy = job[t].deploy
      /\ j.pc \in {"begin", "create config", "upgrade config", "delete svc"}
      /\ j.pc = "create config" => Role(t) = "start"
      /\ j.pc = "upgrade config" => Role(t) = "upgrade"
      /\ j.pc = "delete svc" => Role(t) \in {"stop", "restart"}
  BY <1>1, <1>3, Facts DEF Entry, Role, Job, JobOK, RoleOK, Roles
<1>5. job'[t] = j /\ Role(t)' = Role(t)
  BY <1>3, <1>4, Facts DEF Role
<1>6. RoleOK(t)'
  BY <1>1, <1>2, <1>4, <1>5, Facts DEF JobOK, RoleOK, Starting, Deleting, Upgrading
<1>7. DeleteOK(t)' /\ CreateOK(t)'
  BY <1>1, <1>2, <1>4, <1>5, Facts DEF JobOK, DeleteOK, CreateOK, Deleting, Own
<1>8. ReadyOK(t)'
  BY <1>2, <1>4, <1>5, Facts, Still DEF JobOK, ReadyOK
<1>9. UpgradeOK(t)'
  <2>1. Rest' = Rest /\ OnlyNew' = OnlyNew /\ Patched(t)' = Patched(t)
    BY <1>2, <1>4, <1>5, Still
  <2>2. UpgradeOK(t)
    BY Facts DEF JobOK
  <2> QED BY <1>1, <1>2, <1>4, <1>5, <2>1, <2>2 DEF UpgradeOK
<1> QED BY <1>1, <1>2, <1>3, <1>4, <1>6, <1>7, <1>8, <1>9, StepOn DEF JobOK, Own

\* A step of startOne, stopOne or upgradeOne about resources other than workload and
\* pods, with the call that failed and was only logged.
Resource(t) ==
  \/ CreateConfig(t) \/ CreateSvc(t) \/ DeleteSvc(t) \/ DeleteConfig(t) \/ UpgradeConfig(t)
  \/ /\ At(t, "upgrade config") /\ Goto(t, "patch")
     /\ UNCHANGED <<taskVars, storeVars, cluster, eventVars>>
After(t) ==
  CASE At(t, "create config") -> "create deploy"
    [] At(t, "create svc") -> "create hpa"
    [] At(t, "create hpa") -> "ready"
    [] At(t, "delete svc") -> "delete config"
    [] At(t, "delete config") -> "delete deploy"
    [] At(t, "delete hpa") -> "closed"
    [] At(t, "upgrade config") -> "patch"
    [] OTHER -> "upgraded"
ResourcePCs == {"create config", "create svc", "create hpa", "delete svc", "delete config",
                "delete hpa", "upgrade config", "upgrade svc"}

\* Where such a step takes its controller.
LEMMA AfterResource ==
  ASSUME Serial, NEW t \in Tasks,
         \/ Resource(t)
         \/ \E s \in BOOLEAN, m \in BOOLEAN : LastCalls(t, s, m)
  PROVE  /\ job[t].pc \in ResourcePCs
         /\ \E j \in Job : /\ j.role = Role(t) /\ j.ver = job[t].ver /\ j.deploy = job[t].deploy
                           /\ job' = [job EXCEPT ![t] = j] /\ j.pc = After(t)
                           /\ j.pc \in Waiting => j.watch = entry
<1>1. CASE Resource(t)
  <2>1. /\ job[t].pc \in {"create config", "create svc", "delete svc", "delete config", "upgrade config"}
        /\ Goto(t, After(t)) /\ After(t) \notin Waiting
    BY <1>1 DEF Resource, After, CreateConfig, CreateSvc, DeleteSvc, DeleteConfig, UpgradeConfig, At,
                Waiting
  <2> DEFINE j == [job[t] EXCEPT !.pc = After(t)]
  <2>2. After(t) \in PCs
    BY <2>1 DEF After, PCs, At
  <2>3. /\ j \in Job /\ j.role = Role(t) /\ j.ver = job[t].ver /\ j.deploy = job[t].deploy
        /\ j.pc = After(t) /\ job' = [job EXCEPT ![t] = j]
    BY <2>1, <2>2, Facts DEF Job, Role, Goto
  <2> QED BY <2>1, <2>3 DEF ResourcePCs
<1>2. CASE \E s \in BOOLEAN, m \in BOOLEAN : LastCalls(t, s, m)
  <2>1. /\ job[t].pc \in {"create hpa", "delete hpa", "upgrade svc"}
        /\ job' = [job EXCEPT ![t].pc = After(t), ![t].watch = entry]
    BY <1>2 DEF LastCalls, CreateRest, DeleteRest, UpgradeRest, After, At
  <2> DEFINE j == [job[t] EXCEPT !.pc = After(t), !.watch = entry]
  <2>2. After(t) \in PCs
    BY <2>1 DEF After, PCs, At
  <2>3. /\ j \in Job /\ j.role = Role(t) /\ j.ver = job[t].ver /\ j.deploy = job[t].deploy
        /\ j.pc = After(t) /\ j.watch = entry /\ job' = [job EXCEPT ![t] = j]
    BY <2>1, <2>2, Facts DEF Job, Role
  <2> QED BY <2>1, <2>3 DEF ResourcePCs
<1> QED BY <1>1, <1>2

LEMMA ResourceSerial ==
  ASSUME Serial, IInv', NEW t \in Tasks,
         \/ Resource(t)
         \/ \E s \in BOOLEAN, m \in BOOLEAN :
              /\ LastCalls(t, s, m)
              /\ m /\ At(t, "delete hpa") => Excused(t)',
         faults >= 1 => faults' >= 1
  PROVE  SInv'
<1>1. /\ UNCHANGED <<mode, kind, queue, dbVersion, synced, entry, app, deployEvents, podEvents>>
      /\ result' = result
  BY DEF Resource, CreateConfig, CreateSvc, DeleteSvc, DeleteConfig, UpgradeConfig, LastCalls,
         CreateRest, DeleteRest, UpgradeRest, Goto, taskVars, storeVars, eventVars
<1>2. job[t].pc \in ResourcePCs
  BY AfterResource
<1>3. PICK j \in Job : /\ j.role = Role(t) /\ j.ver = job[t].ver /\ j.deploy = job[t].deploy
                       /\ job' = [job EXCEPT ![t] = j] /\ j.pc = After(t)
                       /\ j.pc \in Waiting => j.watch = entry
  BY AfterResource
<1>4. job'[t] = j /\ Role(t)' = Role(t) /\ Role(t) # "none"
  BY <1>2, <1>3, Facts DEF Role, ResourcePCs
<1>5. /\ cluster'.deploy = cluster.deploy /\ cluster'.pods = cluster.pods
      /\ job[t].pc = "delete svc" => ~cluster'.svc /\ cluster'.config = cluster.config
      /\ job[t].pc = "delete config" => ~cluster'.config /\ cluster'.svc = cluster.svc
      /\ job[t].pc = "delete hpa" =>
           /\ ~cluster'.hpa /\ cluster'.config = cluster.config /\ cluster'.svc = cluster.svc
           /\ cluster'.monitors => Excused(t)'
  <2>1. cluster \in ClusterType
    BY Facts
  <2>2. CASE Resource(t)
    BY <2>1, <2>2 DEF Resource, CreateConfig, CreateSvc, DeleteSvc, DeleteConfig, UpgradeConfig,
                      At, ClusterType
  <2>3. CASE \E s \in BOOLEAN, m \in BOOLEAN :
               /\ LastCalls(t, s, m)
               /\ m /\ At(t, "delete hpa") => Excused(t)'
    <3>1. PICK s \in BOOLEAN, m \in BOOLEAN :
                 /\ LastCalls(t, s, m)
                 /\ m /\ At(t, "delete hpa") => Excused(t)'
      BY <2>3
    <3>2. CASE DeleteRest(t, m)
      <4>1. /\ cluster'.deploy = cluster.deploy /\ cluster'.pods = cluster.pods
            /\ ~cluster'.hpa /\ cluster'.config = cluster.config /\ cluster'.svc = cluster.svc
            /\ cluster'.monitors = m /\ job[t].pc = "delete hpa"
        BY <2>1, <3>2 DEF DeleteRest, At, ClusterType
      <4> QED BY <3>1, <4>1 DEF At
    <3>3. CASE CreateRest(t, m) \/ UpgradeRest(t, s, m)
      BY <2>1, <3>3 DEF CreateRest, UpgradeRest, At, ClusterType
    <3> QED BY <3>1, <3>2, <3>3 DEF LastCalls
  <2> QED BY <2>2, <2>3
<1>6. /\ job[t].pc = "create config" => j.pc = "create deploy"
      /\ job[t].pc = "create svc" => j.pc = "create hpa"
      /\ job[t].pc = "create hpa" => j.pc = "ready"
      /\ job[t].pc = "delete svc" => j.pc = "delete config"
      /\ job[t].pc = "delete config" => j.pc = "delete deploy"
      /\ job[t].pc = "delete hpa" => j.pc = "closed"
      /\ job[t].pc = "upgrade config" => j.pc = "patch"
      /\ job[t].pc = "upgrade svc" => j.pc = "upgraded"
  BY <1>3 DEF After, At
<1>7. RoleOK(t)'
  <2>1. RoleOK(t) /\ (faults >= 1 => faults' >= 1)
    BY Facts DEF JobOK
  <2>2. /\ job[t].pc \in Starting <=> j.pc \in Starting
        /\ job[t].pc \in Deleting <=> j.pc \in Deleting
        /\ job[t].pc \in Upgrading <=> j.pc \in Upgrading
        /\ j.pc \notin {"begin", "regist"}
    BY <1>2, <1>6 DEF Starting, Deleting, Upgrading, ResourcePCs
  <2> QED BY <1>1, <1>2, <1>3, <1>4, <2>1, <2>2 DEF RoleOK, ResourcePCs
<1>8. DeleteOK(t)' /\ CreateOK(t)'
  <2>1. DeleteOK(t) /\ CreateOK(t)
    BY Facts DEF JobOK
  <2>3. CreateOK(t)'
    BY <1>2, <1>3, <1>4, <1>5, <1>6, <2>1 DEF CreateOK, Own, ResourcePCs
  <2>2. /\ j.pc = "delete config" => ~cluster'.svc
        /\ j.pc = "delete deploy" => ~cluster'.svc /\ ~cluster'.config
        /\ j.pc = "closed" =>
             ~cluster'.svc /\ ~cluster'.config /\ ~cluster'.hpa /\ cluster'.deploy = Nil
        /\ cluster.deploy = cluster'.deploy
    BY <1>2, <1>5, <1>6, <2>1 DEF DeleteOK, Deleting, ResourcePCs
  <2>4. j.pc = "closed" /\ cluster'.monitors => Excused(t)'
    BY <1>2, <1>5, <1>6 DEF ResourcePCs
  <2>5. j.pc \notin {"begin", "delete svc", "delete pods", "delete hpa", "regist"}
    BY <1>2, <1>6 DEF ResourcePCs
  <2>6. (/\ Role(t) \in {"stop", "restart"} /\ cluster.deploy # Nil
         /\ j.pc \in {"delete config", "delete deploy"}) => j.deploy
    BY <1>2, <1>3, <1>6, <2>1 DEF DeleteOK, ResourcePCs
  <2>7. DeleteOK(t)'
    BY <1>4, <2>2, <2>4, <2>5, <2>6 DEF DeleteOK, Deleting
  <2> QED BY <2>3, <2>7
<1>9. ReadyOK(t)'
  BY <1>1, <1>2, <1>3, <1>4, <1>5, <1>6, Facts, Still DEF JobOK, ReadyOK, ResourcePCs, Waiting
<1>10. UpgradeOK(t)'
  <2>1. Rest' = Rest /\ OnlyNew' = OnlyNew /\ Patched(t)' = Patched(t)
    BY <1>1, <1>3, <1>4, <1>5, Still
  <2>2. UpgradeOK(t) /\ RoleOK(t)
    BY Facts DEF JobOK
  <2> QED BY <1>1, <1>2, <1>3, <1>4, <1>6, <2>1, <2>2
          DEF UpgradeOK, RoleOK, Upgrading, Starting, Deleting, Waiting, ResourcePCs
<1> QED BY <1>1, <1>2, <1>3, <1>4, <1>5, <1>6, <1>7, <1>8, <1>9, <1>10, StepOn
        DEF JobOK, Own, ResourcePCs

\* The last calls, and those that fail and are only logged.
LEMMA LastSerial ==
  ASSUME Serial, IInv', NEW t \in Tasks,
         CreateHpa(t) \/ DeleteHpa(t) \/ UpgradeSvc(t) \/ LoggedError(t)
  PROVE  SInv'
<1>0. cluster.monitors \in BOOLEAN /\ cluster.svc \in BOOLEAN
  <2>1. cluster \in ClusterType
    BY Facts
  <2> QED BY <2>1 DEF ClusterType
<1>1. CASE CreateHpa(t) \/ DeleteHpa(t) \/ UpgradeSvc(t)
  <2>1. faults' = faults
    BY <1>1 DEF CreateHpa, DeleteHpa, UpgradeSvc
  <2>2. \E m \in BOOLEAN : LastCalls(t, TRUE, m) /\ ~(m /\ At(t, "delete hpa"))
    BY <1>1 DEF CreateHpa, DeleteHpa, UpgradeSvc, LastCalls, CreateRest, UpgradeRest, At
  <2> QED BY <2>1, <2>2, ResourceSerial
<1>2. CASE LoggedError(t)
  <2>1. faults' = faults + 1 /\ faults \in Nat
    BY <1>2, FaultsNat DEF LoggedError, Serial
  <2>2. faults' >= 1 /\ faults' > 0 /\ (faults >= 1 => faults' > 1)
    BY <2>1
  <2>3. job[t].pc = "delete hpa" => Excused(t)'
    <3> SUFFICES ASSUME job[t].pc = "delete hpa" PROVE Excused(t)'
      OBVIOUS
    <3>1. job' = [job EXCEPT ![t].pc = "closed", ![t].watch = entry]
      BY <1>2 DEF LoggedError, CreateRest, DeleteRest, UpgradeRest, At
    <3>2. Role(t)' = Role(t)
      BY <3>1, Facts DEF Job, Role
    <3>3. Role(t) = "cleanup" => faults >= 1
      BY Facts DEF JobOK, RoleOK
    <3> QED BY <2>2, <3>2, <3>3 DEF Excused
  <2>4. \/ Resource(t)
        \/ \E s \in BOOLEAN, m \in BOOLEAN : LastCalls(t, s, m)
    <3>1. \/ CreateRest(t, cluster.monitors) \/ DeleteRest(t, cluster.monitors)
          \/ UpgradeRest(t, TRUE, cluster.monitors) \/ UpgradeRest(t, cluster.svc, TRUE)
          \/ Resource(t)
      BY <1>2 DEF LoggedError, Resource
    <3>2. CASE \/ CreateRest(t, cluster.monitors) \/ DeleteRest(t, cluster.monitors)
               \/ UpgradeRest(t, TRUE, cluster.monitors)
      BY <1>0, <3>2 DEF LastCalls
    <3>3. CASE UpgradeRest(t, cluster.svc, TRUE)
      BY <1>0, <3>3 DEF LastCalls
    <3> QED BY <3>1, <3>2, <3>3
  <2> QED BY <2>2, <2>3, <2>4, ResourceSerial DEF At
<1> QED BY <1>1, <1>2

LEMMA Born ==
  ASSUME Serial, NEW t \in Tasks, Role(t) # "none", UNCHANGED <<kind, queue>>,
         job'[t].role \in {"start", "restart"} => job'[t].pc \in Own
  PROVE  ~Unborn(t)'
<1>1. queue = <<>> /\ kind[t] # "none"
  BY OnlyOne
<1>2. ~InQueue(t)'
  BY SameQueue DEF Serial, IInv, TasksOK
<1> QED BY <1>1, <1>2 DEF Unborn, Role

\* A controller ends: what is left to show is that its answer is true.
LEMMA FinishSerial ==
  ASSUME Serial, IInv', NEW t \in Tasks, NEW r, Role(t) # "none", Finish(t, r),
         UNCHANGED <<mode, kind, queue, dbVersion, synced, entry, app, deployEvents, podEvents>>,
         cluster'.deploy = cluster.deploy, cluster'.pods = cluster.pods,
         AnswerOK(t)'
  PROVE  SInv'
<1>1. /\ job'[t] = NoJob
      /\ \A u \in Tasks : u # t => job'[u] = job[u] /\ result'[u] = result[u]
  BY Facts DEF Finish
<1>2. JobOK(t)'
  BY <1>1, Idle
<1>3. ~Unborn(t)'
  BY <1>1, Born, IdleType
<1> QED BY <1>1, <1>2, <1>3, StillStep

\* A wait ends: its answer is true, or a restart goes on.
LEMMA PollSerial ==
  ASSUME Serial, IInv', NEW t \in Tasks, PollDone(t) \/ PollTimeout(t)
  PROVE  SInv'
<1>1. /\ UNCHANGED <<mode, kind, queue, dbVersion, synced, entry, app, deployEvents, podEvents>>
      /\ cluster' = cluster /\ faults' = faults
  BY DEF PollDone, PollTimeout, taskVars, storeVars, eventVars
<1>2. job[t].pc \in Waiting /\ Role(t) # "none"
  BY Facts DEF PollDone, PollTimeout, Reached, Waiting, At
<1>3. CASE Goto(t, "regist") /\ Role(t) = "restart" /\ job[t].pc = "closed"
  <2> DEFINE j == [job[t] EXCEPT !.pc = "regist"]
  <2>1. j \in Job /\ j.role = Role(t) /\ j.pc = "regist"
    BY Facts DEF Job, PCs, Role
  <2>2. job' = [job EXCEPT ![t] = j] /\ result' = result
    BY <1>3 DEF Goto
  <2> HIDE DEF j
  <2>3. job'[t] = j /\ Role(t)' = "restart"
    BY <1>3, <2>1, <2>2, Facts DEF Role
  <2>4. RoleOK(t)'
    BY <1>1, <1>3, <2>1, <2>3, Facts DEF JobOK, RoleOK, Starting, Deleting, Upgrading
  <2>5. DeleteOK(t)' /\ CreateOK(t)' /\ ReadyOK(t)' /\ UpgradeOK(t)'
    BY <1>1, <1>3, <2>1, <2>3, Facts DEF JobOK, DeleteOK, CreateOK, ReadyOK, UpgradeOK, Deleting, Own
  <2> QED BY <1>1, <1>2, <1>3, <2>1, <2>2, <2>4, <2>5, StepOn DEF JobOK, Own
<1>4. CASE \E r \in {"success", "timeout"} :
             /\ Finish(t, r)
             /\ Role(t) = "restart" => job[t].pc # "closed"
             /\ r = "success" => Reached(t) \/ Role(t) = "restart"
  <2>1. PICK r \in {"success", "timeout"} :
               /\ Finish(t, r)
               /\ Role(t) = "restart" => job[t].pc # "closed"
               /\ r = "success" => Reached(t) \/ Role(t) = "restart"
    BY <1>4
  <2>2. /\ job'[t] = NoJob
        /\ result'[t] = IF Role(t) = "cleanup" THEN result[t] ELSE r
    BY <2>1, Facts DEF Finish, Role
  <2>3. CASE job[t].pc = "closed"
    <3>1. Nothing' /\ (cluster'.monitors => faults' > 0 /\ (Role(t) = "cleanup" => faults' > 1))
      BY <1>1, <2>3, Facts DEF JobOK, DeleteOK, Nothing, Deleting, Excused
    <3>2. Role(t) \in {"stop", "cleanup"}
      BY <2>1, <2>3, Facts DEF JobOK, RoleOK, Deleting
    <3>3. CASE Role(t) = "stop"
      <4>1. kind'[t] = "stop"
        BY <1>1, <3>3, Facts DEF JobOK, RoleOK
      <4>2. AnswerOK(t)'
        BY <3>1, <3>3, <4>1, FaultsNat DEF AnswerOK, Gone
      <4> QED BY <1>1, <1>2, <2>1, <4>2, FinishSerial
    <3>4. CASE Role(t) = "cleanup"
      <4>1. result'[t] = "failure"
        BY <2>2, <3>4, Facts DEF JobOK, RoleOK
      <4>2. AnswerOK(t)'
        BY <3>1, <3>4, <4>1, FaultsNat DEF AnswerOK, Gone
      <4> QED BY <1>1, <1>2, <2>1, <4>2, FinishSerial
    <3> QED BY <3>2, <3>3, <3>4
  <2>4. CASE job[t].pc = "ready"
    <3>1. Role(t) \in {"start", "restart"} /\ cluster.deploy.uid = t /\ result'[t] = r
      BY <2>2, <2>4, Facts DEF JobOK, RoleOK, CreateOK, Starting, Own
    <3>2. CASE Role(t) = "start"
      <4>1. /\ job[t].watch = t /\ ReadySeen(t)
            /\ kind[t] \in {"start", "upgrade"}
            /\ mode = "settled" => OnlyNew
        BY <2>4, <3>2, Facts DEF JobOK, RoleOK, ReadyOK, UpgradeOK
      <4>2. r = "success" => cluster.deploy.ready
        BY <2>1, <2>4, <3>2, <4>1 DEF Reached, Ready, ReadySeen, At
      <4>3. AnswerOK(t)'
        BY <1>1, <3>1, <4>1, <4>2 DEF AnswerOK, OnlyNew
      <4> QED BY <1>1, <1>2, <2>1, <4>3, FinishSerial
    <3>3. CASE Role(t) = "restart"
      <4>1. kind[t] = "restart"
        BY <3>3, Facts DEF JobOK, RoleOK
      <4>2. AnswerOK(t)'
        BY <1>1, <3>1, <4>1 DEF AnswerOK
      <4> QED BY <1>1, <1>2, <2>1, <4>2, FinishSerial
    <3> QED BY <3>1, <3>2, <3>3
  <2>5. CASE job[t].pc = "upgraded"
    <3>1. Role(t) = "upgrade" /\ kind[t] = "upgrade" /\ result'[t] = r
      BY <2>2, <2>5, Facts DEF JobOK, RoleOK, Upgrading
    <3>2. ASSUME mode = "settled", r = "success", NEW p \in cluster.pods
          PROVE  p.ver = cluster.deploy.ver
      <4>1. /\ job[t].watch = entry /\ entry # NoApp /\ app[entry].ver = job[t].ver
            /\ Patched(t)
        BY <2>5, <3>1, <3>2, Facts DEF JobOK, UpgradeOK
      <4>2. UpgradeComlete(entry)
        BY <2>1, <2>5, <3>1, <3>2, <4>1 DEF Reached, At
      <4> QED BY <4>1, <4>2 DEF UpgradeComlete, Patched
    <3>3. AnswerOK(t)'
      BY <1>1, <2>1, <3>1, <3>2 DEF AnswerOK
    <3> QED BY <1>1, <1>2, <2>1, <3>3, FinishSerial
  <2> QED BY <1>2, <2>3, <2>4, <2>5 DEF Waiting
<1> QED BY <1>2, <1>3, <1>4 DEF PollDone, PollTimeout, Role, At, Waiting

\* A start that fails begins to clean up.
LEMMA CleanupSerial ==
  ASSUME Serial, IInv', NEW t \in Tasks, Role(t) = "start", CreateFails(t), faults' >= 1,
         UNCHANGED <<mode, kind, queue, dbVersion, synced, entry, app, deployEvents, podEvents>>,
         cluster'.deploy = cluster.deploy, cluster'.pods = cluster.pods
  PROVE  SInv'
<1>1. /\ job' = [job EXCEPT ![t].role = "cleanup", ![t].pc = "delete svc"]
      /\ result' = [result EXCEPT ![t] = "failure"]
  BY DEF CreateFails, Role
<1>2. /\ Role(t)' = "cleanup" /\ job'[t].pc = "delete svc" /\ job'[t].deploy = job[t].deploy
      /\ result'[t] = "failure"
      /\ \A u \in Tasks : u # t => job'[u] = job[u] /\ result'[u] = result[u]
  BY <1>1, Facts DEF Job, Role
<1>3. RoleOK(t)'
  BY <1>2, Facts DEF JobOK, RoleOK, Starting, Deleting, Upgrading
<1>4. DeleteOK(t)' /\ CreateOK(t)' /\ ReadyOK(t)' /\ UpgradeOK(t)'
  BY <1>2 DEF DeleteOK, CreateOK, ReadyOK, UpgradeOK, Deleting, Own
<1>5. AnswerOK(t)'
  BY <1>2, <1>3, Unanswered
<1>6. ~Unborn(t)'
  BY <1>2, Born DEF Role
<1> QED BY <1>2, <1>3, <1>4, <1>5, <1>6, StillStep DEF JobOK

LEMMA ErrorSerial ==
  ASSUME Serial, IInv', NEW t \in Tasks, CreateError(t) \/ DeleteError(t) \/ UpgradeError(t)
  PROVE  SInv'
<1>1. /\ UNCHANGED <<mode, kind, queue, dbVersion, synced, entry, app, deployEvents, podEvents>>
      /\ cluster'.deploy = cluster.deploy /\ cluster'.pods = cluster.pods
      /\ faults' = faults + 1 /\ faults \in Nat /\ faults' >= 1
  <2>1. faults \in Nat
    BY Unpack, RuntimeAssumption DEF Serial
  <2>2. /\ UNCHANGED <<taskVars, storeVars, eventVars>>
        /\ cluster' \in {cluster, Halfway(t)} /\ faults' = faults + 1
    BY DEF CreateError, DeleteError, UpgradeError
  <2>3. faults' >= 1
    BY <2>1, <2>2
  <2>4. Halfway(t).deploy = cluster.deploy /\ Halfway(t).pods = cluster.pods
    BY Facts DEF Halfway, ClusterType
  <2> QED BY <2>1, <2>2, <2>3, <2>4 DEF taskVars, storeVars, eventVars
<1>2. Role(t) # "none"
  BY Facts DEF CreateError, DeleteError, UpgradeError
<1>3. CASE CreateError(t) /\ Role(t) = "start"
  BY <1>1, <1>3, CleanupSerial DEF CreateError
<1>4. CASE CreateError(t) /\ Role(t) # "start"
  <2>1. Finish(t, "failure") /\ Role(t) = "restart" /\ kind[t] = "restart"
    BY <1>4, Facts DEF CreateError, CreateFails, Role, JobOK, RoleOK, Starting
  <2>2. result'[t] = "failure"
    BY <2>1, Facts DEF Finish, Role
  <2>3. AnswerOK(t)'
    BY <1>1, <2>1, <2>2 DEF AnswerOK
  <2> QED BY <1>1, <1>2, <2>1, <2>3, FinishSerial
<1>5. CASE DeleteError(t)
  <2>1. Finish(t, "failure") /\ Role(t) \in {"stop", "restart", "cleanup"}
    BY <1>5, Facts DEF DeleteError, JobOK, RoleOK, Deleting
  <2>2. result'[t] = "failure"
    BY <2>1, Facts DEF Finish, Role, JobOK, RoleOK
  <2>3. \/ kind[t] # "start"
        \/ faults' >= 2
    BY <1>1, <2>1, Facts DEF JobOK, RoleOK
  <2>4. AnswerOK(t)'
    BY <1>1, <2>2, <2>3 DEF AnswerOK
  <2> QED BY <1>1, <1>2, <2>1, <2>4, FinishSerial
<1>6. CASE UpgradeError(t)
  <2>1. Finish(t, "failure") /\ Role(t) = "upgrade" /\ kind[t] = "upgrade"
    BY <1>6, Facts DEF UpgradeError, JobOK, RoleOK, Upgrading
  <2>2. result'[t] = "failure"
    BY <2>1, Facts DEF Finish, Role
  <2>3. AnswerOK(t)'
    BY <1>1, <2>1, <2>2 DEF AnswerOK
  <2> QED BY <1>1, <1>2, <2>1, <2>3, FinishSerial
<1> QED BY <1>3, <1>4, <1>5, <1>6

\* A step of the controller at work that also changes the cluster or the cache.
LEMMA WorkSerial ==
  ASSUME Serial, IInv', NEW t \in Tasks, NEW j \in Job, Role(t) # "none", j.role # "none",
         job' = [job EXCEPT ![t] = j], UNCHANGED <<mode, kind, queue, result>>,
         VersionsOK', OwnOK', CacheOK', PodsOK', GhostsOK', JobOK(t)'
  PROVE  SInv'
<1>1. /\ job'[t] = j
      /\ \A u \in Tasks : u # t => job'[u] = job[u] /\ result'[u] = result[u]
  BY Facts
<1>2. AnswerOK(t)'
  BY <1>1, Unanswered DEF JobOK, Role
<1>3. /\ SerialOK' /\ QueuedOK'
      /\ \A u \in Tasks : JobOK(u)'
      /\ \A u \in Tasks : Alone(u)' => AnswerOK(u)'
  BY <1>1, <1>2, OneWorks
<1> QED BY <1>3 DEF SInv

\* The others are born or not as before.
LEMMA OthersUnborn ==
  ASSUME NEW t \in Tasks, UNCHANGED <<kind, queue>>,
         \A u \in Tasks : u # t => job'[u] = job[u]
  PROVE  \A u \in Tasks : u # t /\ Unborn(u)' => Unborn(u)
BY DEF Unborn, InQueue, Role

\* One event more: it is the last, the others are there as before.
LEMMA LastEvent ==
  ASSUME deployEvents \in Seq(Workload), NEW d \in Workload,
         deployEvents' = Append(deployEvents, d)
  PROVE  /\ deployEvents' # <<>> /\ deployEvents'[Len(deployEvents')] = d
         /\ \A i \in DOMAIN deployEvents' :
              \/ deployEvents'[i] = d
              \/ i \in DOMAIN deployEvents /\ deployEvents'[i] = deployEvents[i]
<1>1. /\ Len(deployEvents) \in Nat /\ DOMAIN deployEvents = 1 .. Len(deployEvents)
      /\ Len(deployEvents') = Len(deployEvents) + 1
      /\ DOMAIN deployEvents' = 1 .. Len(deployEvents) + 1
      /\ deployEvents'[Len(deployEvents) + 1] = d
      /\ \A i \in DOMAIN deployEvents : deployEvents'[i] = deployEvents[i]
  OBVIOUS
<1>2. \A i \in DOMAIN deployEvents' : i \in DOMAIN deployEvents \/ i = Len(deployEvents) + 1
  BY <1>1
<1>3. deployEvents' # <<>>
  BY <1>1
<1> QED BY <1>1, <1>2, <1>3

LEMMA NilFields == Nil.uid = 0 /\ Nil.ver = 0 /\ Nil.rv = FALSE /\ Nil.ready = FALSE
BY DEF Nil

LEMMA CreateDeploySerial ==
  ASSUME Serial, IInv', NEW t \in Tasks, CreateDeploy(t)
  PROVE  SInv'
<1> DEFINE d == [uid |-> t, ver |-> job[t].ver, rv |-> TRUE, ready |-> FALSE]
           j == [job[t] EXCEPT !.pc = "create svc"]
<1>1. /\ job[t].pc = "create deploy" /\ Role(t) \in {"start", "restart"}
      /\ cluster.deploy = Nil /\ job[t].ver >= 1
  BY Facts DEF CreateDeploy, At, JobOK, RoleOK, CreateOK, Starting
<1>2. /\ cluster' = [cluster EXCEPT !.deploy = d] /\ deployEvents' = Append(deployEvents, d)
      /\ Goto(t, "create svc") /\ UNCHANGED <<taskVars, storeVars, podEvents, faults>>
  BY <1>1 DEF CreateDeploy
<1>3. /\ d \in Workload /\ d.uid = t /\ d.ver = job[t].ver /\ d.rv /\ ~d.ready /\ d # Nil
  <2>1. job[t].ver \in Nat /\ t \in Apps
    BY Facts, Names DEF Job
  <2>2. d \in Workload /\ d.uid = t /\ d.ver = job[t].ver /\ d.rv /\ ~d.ready
    BY <2>1 DEF Workload
  <2> QED BY <2>2, NilFields
<1>4. /\ j \in Job /\ j.role = Role(t) /\ j.pc = "create svc" /\ j.ver = job[t].ver
      /\ j.deploy = job[t].deploy
  BY Facts DEF Job, PCs, Role
<1>5. /\ job' = [job EXCEPT ![t] = j] /\ UNCHANGED result
      /\ UNCHANGED <<mode, kind, queue, dbVersion, synced, entry, app, podEvents>>
      /\ faults' = faults
  BY <1>2 DEF Goto, taskVars, storeVars
<1>6. cluster'.deploy = d /\ cluster'.pods = cluster.pods
  BY <1>2, Facts DEF ClusterType
<1> HIDE DEF d, j
<1>7. /\ deployEvents' # <<>> /\ deployEvents'[Len(deployEvents')] = d
      /\ \A i \in DOMAIN deployEvents' :
           \/ deployEvents'[i] = d
           \/ i \in DOMAIN deployEvents /\ deployEvents'[i] = deployEvents[i]
  BY <1>2, <1>3, LastEvent, Unpack DEF Serial
<1>8. /\ job'[t] = j /\ Role(t)' = Role(t) /\ job'[t].pc = "create svc"
      /\ \A u \in Tasks : u # t => job'[u] = job[u]
  BY <1>4, <1>5, Facts DEF Role
<1>9. Childless(t)
  BY <1>1 DEF Serial, SInv, OwnOK, Unborn, Own
<1>10. VersionsOK'
  BY <1>1, <1>3, <1>5, <1>6, <1>7 DEF Serial, SInv, VersionsOK, Made
<1>11. OwnOK'
  <2> SUFFICES ASSUME NEW u \in Tasks, Unborn(u)' PROVE Childless(u)'
    BY DEF OwnOK
  <2>1. ~Unborn(t)'
    BY <1>1, <1>5, <1>8, Born DEF Own
  <2>2. u # t /\ Unborn(u)
    BY <1>5, <1>8, <2>1, OthersUnborn
  <2> QED BY <1>3, <1>6, <2>2 DEF Serial, SInv, OwnOK, Childless
<1>12. CacheOK'
  BY <1>6, <1>7 DEF CacheOK
<1>13. PodsOK' /\ GhostsOK'
  <2>1. GhostsOK'
    BY <1>5, <1>6, GhostsKept DEF Serial, SInv
  <2> QED BY <1>3, <1>6, <1>9, <2>1 DEF PodsOK, Childless
<1>14. RoleOK(t)'
  BY <1>1, <1>4, <1>5, <1>8, Facts DEF JobOK, RoleOK, Starting, Deleting, Upgrading
<1>15. DeleteOK(t)' /\ CreateOK(t)'
  BY <1>3, <1>6, <1>8 DEF DeleteOK, CreateOK, Deleting, Own
<1>16. ReadyOK(t)'
  <2> SUFFICES ASSUME Role(t) = "start" PROVE entry' = t /\ ReadySeen(t)'
    BY <1>8 DEF ReadyOK
  <2>1. entry = t /\ ReadySeen(t)
    BY Facts DEF JobOK, ReadyOK
  <2> QED BY <1>1, <1>3, <1>5, <1>6, <1>7, <2>1, NilFields DEF ReadySeen
<1>17. UpgradeOK(t)'
  <2>1. Role(t) = "start" /\ mode = "settled" => cluster.pods = {}
    BY <1>1, Facts DEF JobOK, UpgradeOK, OnlyNew
  <2> QED BY <1>1, <1>5, <1>6, <1>8, <2>1 DEF UpgradeOK, OnlyNew
<1> QED BY <1>1, <1>4, <1>5, <1>10, <1>11, <1>12, <1>13, <1>14, <1>15, <1>16, <1>17, WorkSerial DEF JobOK

LEMMA DeleteDeploySerial ==
  ASSUME Serial, IInv', NEW t \in Tasks, DeleteDeploy(t)
  PROVE  SInv'
<1> DEFINE j == [job[t] EXCEPT !.pc = "delete pods"]
<1>1. /\ job[t].pc = "delete deploy" /\ Role(t) \in {"stop", "restart", "cleanup"}
      /\ cluster.deploy # Nil => job[t].deploy
      /\ ~cluster.svc /\ ~cluster.config
  BY Facts DEF DeleteDeploy, At, JobOK, RoleOK, DeleteOK, Deleting
<1>2. Goto(t, "delete pods") /\ UNCHANGED <<taskVars, synced, entry, podEvents, faults>>
  BY DEF DeleteDeploy
<1>3. /\ j \in Job /\ j.role = Role(t) /\ j.pc = "delete pods" /\ j.ver = job[t].ver
      /\ j.deploy = job[t].deploy
  BY Facts DEF Job, PCs, Role
<1>4. /\ job' = [job EXCEPT ![t] = j] /\ UNCHANGED result
      /\ UNCHANGED <<mode, kind, queue, dbVersion, synced, entry, podEvents>> /\ faults' = faults
  BY <1>2 DEF Goto, taskVars
<1>5. /\ cluster'.deploy = Nil /\ cluster'.pods = cluster.pods
      /\ cluster'.svc = cluster.svc /\ cluster'.config = cluster.config
  BY <1>1, Facts DEF DeleteDeploy, ClusterType
<1> HIDE DEF j
<1>6. \/ deployEvents' = deployEvents /\ cluster.deploy = Nil
      \/ deployEvents' = Append(deployEvents, Nil)
  BY <1>1 DEF DeleteDeploy
<1>7. deployEvents' = Append(deployEvents, Nil) =>
        /\ deployEvents' # <<>> /\ deployEvents'[Len(deployEvents')] = Nil
        /\ \A i \in DOMAIN deployEvents' :
             \/ deployEvents'[i] = Nil
             \/ i \in DOMAIN deployEvents /\ deployEvents'[i] = deployEvents[i]
  BY LastEvent, NilWorkload, Unpack DEF Serial
<1>8. /\ job'[t] = j /\ Role(t)' = Role(t)
      /\ \A u \in Tasks : u # t => job'[u] = job[u]
  BY <1>3, <1>4, Facts DEF Role
<1>9. VersionsOK'
  BY <1>4, <1>5, <1>6, <1>7 DEF Serial, SInv, VersionsOK, Made
<1>10. OwnOK'
  <2> SUFFICES ASSUME NEW u \in Tasks, Unborn(u)' PROVE Childless(u)'
    BY DEF OwnOK
  <2>1. Unborn(t)' => Unborn(t)
    BY <1>1, <1>4, <1>8 DEF Unborn, InQueue, Own
  <2>2. Unborn(u)
    BY <1>4, <1>8, <2>1, OthersUnborn
  <2> QED BY <1>5, <2>2, NilFields, Numbered DEF Serial, SInv, OwnOK, Childless
<1>11. CacheOK' /\ GhostsOK'
  <2>1. entry # NoApp => /\ app'[entry].deployment \in {app[entry].deployment, Nil}
                         /\ app'[entry].pods = app[entry].pods
    <3> SUFFICES ASSUME entry # NoApp
                 PROVE  /\ app'[entry].deployment \in {app[entry].deployment, Nil}
                        /\ app'[entry].pods = app[entry].pods
      OBVIOUS
    <3>1. entry \in Apps /\ app \in [Apps -> AppObject] /\ app[entry] \in AppObject
      BY Facts
    <3>2. CASE app' = app
      BY <3>2
    <3>3. CASE app' = SetDeployment(entry, Nil)
      BY <3>1, <3>3 DEF SetDeployment, AppObject
    <3> QED BY <3>2, <3>3 DEF DeleteDeploy
  <2>2. Cached' => Cached
    BY <1>4, <2>1, NilFields DEF Cached
  <2>3. CacheOK'
    BY <1>4, <1>5, <1>6, <1>7, <2>2 DEF Serial, SInv, CacheOK
  <2> QED BY <1>4, <1>5, <2>1, <2>3, GhostsKept DEF Serial, SInv
<1>12. PodsOK'
  BY <1>5 DEF PodsOK
<1>13. RoleOK(t)'
  BY <1>1, <1>3, <1>4, <1>8, Facts DEF JobOK, RoleOK, Starting, Deleting, Upgrading
<1>14. DeleteOK(t)' /\ CreateOK(t)' /\ ReadyOK(t)' /\ UpgradeOK(t)'
  BY <1>1, <1>3, <1>5, <1>8 DEF DeleteOK, CreateOK, ReadyOK, UpgradeOK, Deleting, Own
<1> QED BY <1>1, <1>3, <1>4, <1>9, <1>10, <1>11, <1>12, <1>13, <1>14, WorkSerial DEF JobOK

\* The list of a finite set of events has each of them once.
LEMMA EachListed ==
  ASSUME NEW S, IsFiniteSet(S), NEW x \in S, NEW s, s = SetToSeq(S)
  PROVE  /\ \E i \in DOMAIN s : s[i] = x
         /\ \A i, k \in DOMAIN s : s[i] = s[k] => i = k
         /\ \A i \in DOMAIN s : s[i] \in S
<1>1. Cardinality(S) \in Nat /\ ExistsBijection(1 .. Cardinality(S), S)
  BY FS_CardinalityType
<1>2. \E f \in [1 .. Cardinality(S) -> S] : IsInjective(f)
  <2>1. PICK f : f \in Bijection(1 .. Cardinality(S), S)
    BY <1>1 DEF ExistsBijection
  <2>2. f \in [1 .. Cardinality(S) -> S] /\ IsInjective(f)
    BY <2>1 DEF Bijection, Injection, IsInjective
  <2> QED BY <2>2
<1>3. s \in [1 .. Cardinality(S) -> S] /\ IsInjective(s)
  BY <1>2 DEF SetToSeq
<1>4. s \in Injection(1 .. Cardinality(S), S)
  BY <1>3 DEF Injection, IsInjective
<1>5. Cardinality(1 .. Cardinality(S)) = Cardinality(S)
  BY <1>1, FS_Interval
<1>6. s \in Surjection(1 .. Cardinality(S), S)
  BY <1>4, <1>5, FS_Injection
<1> QED BY <1>3, <1>6 DEF Surjection, IsInjective

\* The events about pods that were deleted.
LEMMA DeletedPods ==
  ASSUME podEvents \in Seq(PodEvent), NEW G \in SUBSET Pod, IsFiniteSet(G),
         podEvents' = podEvents \o SetToSeq({[add |-> FALSE, pod |-> x] : x \in G})
  PROVE  /\ \A p : p \notin G /\ NoEvent(p) => NoEvent(p)'
         /\ \A p : p \notin G /\ Pending(FALSE, p) => Pending(FALSE, p)'
         /\ \A p \in G : Pending(FALSE, p)'
<1> DEFINE ev(x) == [add |-> FALSE, pod |-> x]
           E == {ev(x) : x \in G}
           f == [x \in G |-> ev(x)]
           s == SetToSeq(E)
<1>1. f \in Surjection(G, E)
  <2>1. f \in [G -> E] /\ \A e \in E : \E x \in G : f[x] = e
    OBVIOUS
  <2> QED BY <2>1, Zenon DEF Surjection
<1>0. \A x : ev(x).pod = x /\ ev(x).add = FALSE
  OBVIOUS
<1>2. \A e \in E : e.pod \in G /\ e = ev(e.pod)
  <2> SUFFICES ASSUME NEW x \in G PROVE ev(x).pod \in G /\ ev(x) = ev(ev(x).pod)
    OBVIOUS
  <2> QED BY <1>0
<1>3. \A x \in G : ev(x) \in E /\ ev(x).pod = x
  BY <1>0
<1>4. E \in SUBSET PodEvent
  <2>1. \A x \in Pod : ev(x) \in PodEvent
    BY DEF PodEvent
  <2> SUFFICES ASSUME NEW x \in G PROVE ev(x) \in PodEvent
    OBVIOUS
  <2> QED BY <2>1
<1>5. podEvents' = podEvents \o s
  OBVIOUS
<1> HIDE DEF E, f
<1>6. IsFiniteSet(E)
  BY <1>1, FS_Surjection
<1>7. /\ \A x \in E : \E i \in DOMAIN s : s[i] = x
      /\ \A i, k \in DOMAIN s : s[i] = s[k] => i = k
      /\ \A i \in DOMAIN s : s[i] \in E
  <2>1. CASE E = {}
    <3>1. s \in Seq({})
      BY <1>6, <2>1, ListOf
    <3> QED BY <2>1, <3>1
  <2>2. CASE E # {}
    BY <1>6, <2>2, EachListed
  <2> QED BY <2>1, <2>2
<1>8. s \in Seq(PodEvent)
  BY <1>4, <1>6, ListOf
<1> HIDE DEF s
<1>9. PICK n \in Nat, m \in Nat : n = Len(podEvents) /\ m = Len(s)
  BY <1>8
<1>10. /\ DOMAIN podEvents = 1 .. n /\ DOMAIN s = 1 .. m /\ DOMAIN podEvents' = 1 .. n + m
       /\ \A i \in 1 .. n : podEvents'[i] = podEvents[i]
       /\ \A i \in 1 .. n + m : i > n => podEvents'[i] = s[i - n]
  <2>1. DOMAIN podEvents = 1 .. n /\ DOMAIN s = 1 .. m
    BY <1>8, <1>9
  <2>2. Len(podEvents \o s) = n + m /\ podEvents \o s \in Seq(PodEvent)
    BY <1>8, <1>9
  <2>3. \A i \in 1 .. n + m : (podEvents \o s)[i] = IF i <= n THEN podEvents[i] ELSE s[i - n]
    BY <1>8, <1>9
  <2>4. DOMAIN podEvents' = 1 .. n + m
    BY <1>5, <2>2
  <2>5. \A i \in 1 .. n : i \in 1 .. n + m /\ i <= n
    BY <1>9
  <2>6. \A i \in 1 .. n + m : i > n => ~(i <= n)
    BY <1>9
  <2> QED BY <1>5, <2>1, <2>3, <2>4, <2>5, <2>6
<1>11. \A i \in 1 .. n + m : i \in 1 .. n \/ (i > n /\ i - n \in 1 .. m)
  BY <1>9
<1>12. \A i \in 1 .. n + m : i \in 1 .. n \/ podEvents'[i].pod \in G
  <2> SUFFICES ASSUME NEW i \in 1 .. n + m, i \notin 1 .. n PROVE podEvents'[i].pod \in G
    OBVIOUS
  <2>1. i > n /\ i - n \in 1 .. m
    BY <1>11
  <2>2. podEvents'[i] = s[i - n]
    BY <1>10, <2>1
  <2>3. s[i - n] \in E
    BY <1>7, <1>10, <2>1
  <2> QED BY <1>2, <2>2, <2>3
<1>13. ASSUME NEW p, p \notin G, NoEvent(p) PROVE NoEvent(p)'
  BY <1>10, <1>12, <1>13 DEF NoEvent
<1>14. ASSUME NEW p, p \notin G, Pending(FALSE, p) PROVE Pending(FALSE, p)'
  <2>1. PICK i \in 1 .. n : /\ podEvents[i] = [add |-> FALSE, pod |-> p]
                            /\ \A k \in 1 .. n : k > i => podEvents[k].pod # p
    BY <1>10, <1>14 DEF Pending
  <2>2. i \in 1 .. n + m /\ podEvents'[i] = [add |-> FALSE, pod |-> p]
    BY <1>9, <1>10, <2>1
  <2>3. \A k \in 1 .. n + m : k > i => podEvents'[k].pod # p
    BY <1>10, <1>12, <1>14, <2>1
  <2> QED BY <1>10, <2>2, <2>3 DEF Pending
<1>15. ASSUME NEW p \in G PROVE Pending(FALSE, p)'
  <2>1. PICK i \in 1 .. m : s[i] = ev(p)
    BY <1>3, <1>7, <1>10
  <2>2. n + i \in 1 .. n + m /\ n + i > n /\ (n + i) - n = i
    BY <1>9, <2>1
  <2>3. podEvents'[n + i] = [add |-> FALSE, pod |-> p]
    BY <1>10, <2>1, <2>2
  <2>4. ASSUME NEW k \in 1 .. n + m, k > n + i PROVE podEvents'[k].pod # p
    <3>1. k > n /\ k - n \in 1 .. m /\ k - n # i
      BY <1>9, <2>1, <2>4
    <3>2. podEvents'[k] = s[k - n] /\ s[k - n] \in E /\ s[k - n] # ev(p)
      BY <1>7, <1>10, <2>1, <3>1
    <3> QED BY <1>2, <3>2
  <2> QED BY <1>10, <2>2, <2>3, <2>4 DEF Pending
<1> QED BY <1>13, <1>14, <1>15

LEMMA DeletePodsSerial ==
  ASSUME Serial, IInv', NEW t \in Tasks, DeletePods(t)
  PROVE  SInv'
<1> DEFINE j == [job[t] EXCEPT !.pc = "delete hpa"]
           gone == job[t].pods \cap cluster.pods
<1>1. /\ job[t].pc = "delete pods" /\ Role(t) \in {"stop", "restart", "cleanup"}
      /\ cluster.deploy = Nil /\ ~cluster.svc /\ ~cluster.config
  BY Facts DEF DeletePods, At, JobOK, RoleOK, DeleteOK, Deleting
<1>2. /\ j \in Job /\ j.role = Role(t) /\ j.pc = "delete hpa" /\ j.ver = job[t].ver
      /\ j.deploy = job[t].deploy
  BY Facts DEF Job, PCs, Role
<1>3. /\ job' = [job EXCEPT ![t] = j]
      /\ UNCHANGED <<taskVars, result, controllers, storeVars, deployEvents, faults>>
  BY DEF DeletePods, Goto
<1>4. UNCHANGED <<mode, kind, queue, result, dbVersion, synced, entry, app, deployEvents>>
  BY <1>3 DEF taskVars, storeVars
<1>5. /\ cluster'.deploy = Nil /\ cluster'.pods = cluster.pods \ gone
      /\ cluster'.svc = cluster.svc /\ cluster'.config = cluster.config
  BY <1>1, Facts DEF DeletePods, ClusterType
<1>13. GhostsOK'
  <2>1. podEvents' = podEvents \o SetToSeq({[add |-> FALSE, pod |-> x] : x \in gone})
    BY DEF DeletePods
  <2>2. /\ podEvents \in Seq(PodEvent) /\ gone \in SUBSET Pod /\ IsFiniteSet(gone)
    BY Outside, FS_Subset DEF Serial
  <2> HIDE DEF gone
  <2>3. /\ \A p : p \notin gone /\ NoEvent(p) => NoEvent(p)'
        /\ \A p : p \notin gone /\ Pending(FALSE, p) => Pending(FALSE, p)'
        /\ \A p \in gone : Pending(FALSE, p)'
    BY <2>1, <2>2, DeletedPods
  <2>4. \A p : p \notin gone /\ Unseen(p) => Unseen(p)'
    BY <1>4, <2>3 DEF Unseen
  <2>5. \A p \in gone : Unseen(p)'
    BY <2>3 DEF Unseen
  <2> QED BY <1>4, <1>5, <2>4, <2>5 DEF Serial, SInv, GhostsOK
<1> HIDE DEF j, gone
<1>6. /\ job'[t] = j /\ Role(t)' = Role(t)
      /\ \A u \in Tasks : u # t => job'[u] = job[u]
  BY <1>2, <1>3, Facts DEF Role
<1>7. VersionsOK'
  BY <1>1, <1>4, <1>5 DEF Serial, SInv, VersionsOK
<1>8. OwnOK'
  <2> SUFFICES ASSUME NEW u \in Tasks, Unborn(u)' PROVE Childless(u)'
    BY DEF OwnOK
  <2>1. Unborn(t)' => Unborn(t)
    BY <1>1, <1>2, <1>4, <1>6 DEF Unborn, InQueue, Own
  <2>2. Unborn(u)
    BY <1>4, <1>6, <2>1, OthersUnborn
  <2> QED BY <1>1, <1>5, <2>2 DEF Serial, SInv, OwnOK, Childless
<1>9. CacheOK'
  BY <1>1, <1>4, <1>5 DEF Serial, SInv, CacheOK, Cached
<1>10. PodsOK'
  BY <1>5 DEF PodsOK
<1>11. RoleOK(t)'
  BY <1>1, <1>2, <1>3, <1>4, <1>6, Facts DEF JobOK, RoleOK, Starting, Deleting, Upgrading
<1>12. DeleteOK(t)' /\ CreateOK(t)' /\ ReadyOK(t)' /\ UpgradeOK(t)'
  BY <1>1, <1>2, <1>5, <1>6 DEF DeleteOK, CreateOK, ReadyOK, UpgradeOK, Deleting, Own
<1> QED BY <1>1, <1>2, <1>3, <1>4, <1>7, <1>8, <1>9, <1>10, <1>11, <1>12, <1>13, WorkSerial DEF JobOK

\* The workload gets the version of the upgrade.  What the cached object had of a
\* settled service, it still has.
LEMMA PatchSerial ==
  ASSUME Serial, IInv', NEW t \in Tasks, Patch(t)
  PROVE  SInv'
<1>1. job[t].pc = "patch" /\ Role(t) = "upgrade" /\ kind[t] = "upgrade" /\ job[t].ver >= 1
  BY Facts DEF Patch, At, JobOK, RoleOK, Upgrading
<1>2. /\ UNCHANGED <<mode, kind, queue, dbVersion, synced, entry, app>>
      /\ UNCHANGED <<podEvents, faults>>
  BY DEF Patch, taskVars, storeVars
<1>3. CASE Finish(t, "failure") /\ cluster' = cluster /\ deployEvents' = deployEvents
  <2>1. result'[t] = "failure"
    BY <1>1, <1>3, Facts DEF Finish, Role
  <2>2. AnswerOK(t)'
    BY <1>1, <1>2, <2>1 DEF AnswerOK
  <2> QED BY <1>1, <1>2, <1>3, <2>2, FinishSerial
<1>4. CASE /\ cluster.deploy # Nil /\ job[t].deploy
           /\ cluster' = [cluster EXCEPT !.deploy.ver = job[t].ver,
                                         !.claims = cluster.claims \/ HasClaims]
           /\ deployEvents' = Append(deployEvents, cluster'.deploy)
           /\ Goto(t, "upgrade svc")
  <2> DEFINE j == [job[t] EXCEPT !.pc = "upgrade svc"]
             d == [cluster.deploy EXCEPT !.ver = job[t].ver]
  <2>1. /\ j \in Job /\ j.role = "upgrade" /\ j.pc = "upgrade svc" /\ j.ver = job[t].ver
        /\ j.deploy = job[t].deploy
    BY <1>1, Facts DEF Job, PCs, Role
  <2>2. job' = [job EXCEPT ![t] = j] /\ result' = result
    BY <1>4 DEF Goto
  <2>3. cluster.deploy \in Workload /\ job[t].ver \in Nat /\ Made(cluster.deploy)
    BY Facts DEF ClusterType, Job, Serial, SInv, VersionsOK
  <2>4. /\ d \in Workload /\ d.ver = job[t].ver /\ d.uid = cluster.deploy.uid /\ d.rv
        /\ d.ready = cluster.deploy.ready
    BY <1>4, <2>3 DEF Workload, Made
  <2>5. d # Nil
    BY <1>1, <2>4, NilFields
  <2>6. cluster'.deploy = d /\ cluster'.pods = cluster.pods
    BY <1>4, Facts DEF ClusterType
  <2> HIDE DEF j, d
  <2>7. /\ deployEvents' # <<>> /\ deployEvents'[Len(deployEvents')] = d
        /\ \A i \in DOMAIN deployEvents' :
             \/ deployEvents'[i] = d
             \/ i \in DOMAIN deployEvents /\ deployEvents'[i] = deployEvents[i]
    BY <1>4, <2>4, <2>6, LastEvent, Unpack DEF Serial
  <2>8. /\ job'[t] = j /\ Role(t)' = "upgrade"
        /\ \A u \in Tasks : u # t => job'[u] = job[u]
    BY <2>1, <2>2, Facts DEF Role
  <2>9. VersionsOK'
    BY <1>1, <1>2, <2>4, <2>6, <2>7 DEF Serial, SInv, VersionsOK, Made
  <2>10. OwnOK'
    <3> SUFFICES ASSUME NEW u \in Tasks, Unborn(u)' PROVE Childless(u)'
      BY DEF OwnOK
    <3>1. ~Unborn(t)'
      BY <1>1, <1>2, <2>8, Born DEF Role
    <3>2. Unborn(u)
      BY <1>2, <2>8, <3>1, OthersUnborn
    <3> QED BY <2>4, <2>6, <3>2 DEF Serial, SInv, OwnOK, Childless
  <2>11. CacheOK'
    BY <2>6, <2>7 DEF CacheOK
  <2>12. PodsOK' /\ GhostsOK'
    <3>1. \A p : PodSeen(p)' = PodSeen(p)
      BY <1>2 DEF PodSeen, Pending, NoEvent
    <3>2. GhostsOK'
      BY <1>2, <2>6, GhostsKept DEF Serial, SInv
    <3> QED BY <1>2, <1>4, <2>4, <2>6, <3>1, <3>2 DEF Serial, SInv, PodsOK
  <2>13. RoleOK(t)'
    BY <1>1, <1>2, <2>1, <2>8, Facts DEF JobOK, RoleOK, Starting, Deleting, Upgrading
  <2>14. DeleteOK(t)' /\ CreateOK(t)' /\ ReadyOK(t)'
    BY <2>1, <2>8 DEF DeleteOK, CreateOK, ReadyOK, Deleting, Own
  <2>15. UpgradeOK(t)'
    <3> SUFFICES ASSUME mode = "settled"
                 PROVE  entry' # NoApp /\ app'[entry'].ver = job'[t].ver /\ Patched(t)'
      BY <1>2, <2>1, <2>8 DEF UpgradeOK
    <3>1. entry # NoApp /\ app[entry].ver = job[t].ver /\ Rest
      BY <1>1, Facts DEF JobOK, UpgradeOK
    <3>2. /\ deployEvents = <<>> /\ podEvents = <<>> /\ cluster.pods = {OwnPod}
          /\ OwnPod \in app[entry].pods
      BY <1>4, <3>1 DEF Rest, Settled, Quiet, OwnPod
    <3>3. \A i \in DOMAIN deployEvents' : deployEvents'[i] = d
      BY <2>7, <3>2
    <3>4. \A p : NoEvent(p)'
      BY <1>2, <3>2 DEF NoEvent
    <3>5. Patched(t)'
      BY <1>2, <2>1, <2>4, <2>5, <2>6, <2>8, <3>2, <3>3, <3>4 DEF Patched
    <3> QED BY <1>2, <2>1, <2>8, <3>1, <3>5
  <2> QED BY <1>1, <1>2, <2>1, <2>2, <2>9, <2>10, <2>11, <2>12, <2>13, <2>14, <2>15, WorkSerial
          DEF JobOK
<1> QED BY <1>3, <1>4 DEF Patch

LEMMA RestartRegistSerial ==
  ASSUME Serial, IInv', NEW t \in Tasks, RestartRegist(t)
  PROVE  SInv'
<1> DEFINE j == [job[t] EXCEPT !.pc = "create config", !.ver = dbVersion,
                               !.deploy = TRUE, !.pods = {}]
<1>1. /\ job[t].pc = "regist" /\ Role(t) = "restart" /\ cluster.deploy = Nil
  BY Facts DEF RestartRegist, At, JobOK, RoleOK, DeleteOK
<1>2. /\ UNCHANGED <<mode, kind, queue, result, dbVersion, synced, cluster>>
      /\ UNCHANGED <<deployEvents, podEvents, faults>>
      /\ job' = [job EXCEPT ![t] = j]
  BY DEF RestartRegist, taskVars, eventVars
<1>3. dbVersion \in Nat /\ dbVersion >= 1
  BY Outside DEF Serial, SInv, VersionsOK
<1>4. j \in Job /\ j.role = "restart" /\ j.pc = "create config" /\ j.ver = dbVersion /\ j.deploy
  BY <1>1, <1>3, Facts DEF Job, PCs, Role
<1> HIDE DEF j
<1>5. /\ job'[t] = j /\ Role(t)' = "restart"
      /\ \A u \in Tasks : u # t => job'[u] = job[u]
  BY <1>2, <1>4, Facts DEF Role
<1>6. VersionsOK'
  BY <1>2 DEF Serial, SInv, VersionsOK
<1>7. OwnOK'
  <2> SUFFICES ASSUME NEW u \in Tasks, Unborn(u)' PROVE Childless(u)'
    BY DEF OwnOK
  <2>1. Unborn(t)
    BY <1>1 DEF Unborn, Own
  <2>2. Unborn(u)
    BY <1>2, <1>5, <2>1, OthersUnborn
  <2> QED BY <1>2, <2>2 DEF Serial, SInv, OwnOK, Childless
<1>8. CacheOK' /\ GhostsOK'
  <2>1. entry' = t /\ app' = [app EXCEPT ![t] = NewApp(dbVersion)]
    BY DEF RestartRegist
  <2>2. t \in Apps /\ app \in [Apps -> AppObject]
    BY Facts, Names
  <2>3. app'[t] = NewApp(dbVersion)
    BY <2>1, <2>2
  <2>4. NewApp(dbVersion).pods = {} /\ NewApp(dbVersion).deployment.rv = FALSE
    BY DEF NewApp, Nil
  <2>5. ~Cached'
    BY <2>1, <2>3, <2>4 DEF Cached
  <2>6. GhostsOK'
    BY <1>2, <2>1, <2>3, <2>4, GhostsKept DEF Serial, SInv
  <2> QED BY <1>1, <1>2, <2>5, <2>6 DEF Serial, SInv, CacheOK
<1>9. PodsOK'
  BY <1>1, <1>2 DEF PodsOK
<1>10. RoleOK(t)'
  BY <1>1, <1>2, <1>3, <1>4, <1>5, Facts DEF JobOK, RoleOK, Starting, Deleting, Upgrading
<1>11. DeleteOK(t)' /\ CreateOK(t)' /\ ReadyOK(t)' /\ UpgradeOK(t)'
  BY <1>1, <1>2, <1>4, <1>5 DEF DeleteOK, CreateOK, ReadyOK, UpgradeOK, Deleting, Own
<1> QED BY <1>1, <1>2, <1>4, <1>6, <1>7, <1>8, <1>9, <1>10, <1>11, WorkSerial DEF JobOK

\* UpdateGetAppService tells nothing but the truth.
LEMMA PollRefreshSerial ==
  ASSUME Serial, IInv', NEW t \in Tasks, PollRefresh(t)
  PROVE  SInv'
<1> DEFINE j == [job[t] EXCEPT !.watch = entry]
<1>1. /\ job[t].pc \in {"ready", "closed"} /\ Role(t) # "none" /\ entry # NoApp
      /\ Role(t) \in {"start", "restart", "stop", "cleanup"}
  BY Facts DEF PollRefresh, JobOK, RoleOK, Starting, Deleting
<1>2. /\ UNCHANGED <<mode, kind, queue, result, dbVersion, synced, cluster, entry>>
      /\ UNCHANGED <<deployEvents, podEvents, faults>>
      /\ job' = [job EXCEPT ![t] = j] /\ app' = Refreshed(entry)
  BY DEF PollRefresh, taskVars, eventVars
<1>3. /\ j \in Job /\ j.role = Role(t) /\ j.pc = job[t].pc /\ j.ver = job[t].ver
      /\ j.deploy = job[t].deploy /\ j.watch = entry
  BY Facts DEF Job, Role
<1> HIDE DEF j
<1>4. /\ job'[t] = j /\ Role(t)' = Role(t)
      /\ \A u \in Tasks : u # t => job'[u] = job[u]
  BY <1>2, <1>3, Facts DEF Role
<1>5. entry \in Apps /\ app[entry] \in AppObject
  BY <1>1, Facts
<1>6. /\ app'[entry].deployment = IF app[entry].deployment = Nil THEN Nil ELSE cluster.deploy
      /\ app'[entry].pods = app[entry].pods \cap cluster.pods
  BY <1>2, <1>5, Facts DEF Refreshed, AppObject
<1>7. VersionsOK'
  BY <1>2 DEF Serial, SInv, VersionsOK
<1>8. OwnOK'
  <2> SUFFICES ASSUME NEW u \in Tasks, Unborn(u)' PROVE Childless(u)'
    BY DEF OwnOK
  <2>1. Unborn(t)' => Unborn(t)
    BY <1>2, <1>3, <1>4 DEF Unborn, InQueue
  <2>2. Unborn(u)
    BY <1>2, <1>4, <2>1, OthersUnborn
  <2> QED BY <1>2, <2>2 DEF Serial, SInv, OwnOK, Childless
<1>9. CacheOK'
  <2>1. cluster.deploy # Nil => cluster.deploy.rv
    BY DEF Serial, SInv, VersionsOK, Made
  <2>2. /\ Cached /\ cluster.deploy # Nil => Cached'
        /\ cluster.deploy = Nil => ~Cached'
    BY <1>2, <1>6, <2>1, NilFields DEF Cached
  <2> QED BY <1>2, <2>2 DEF Serial, SInv, CacheOK
<1>10. PodsOK' /\ GhostsOK'
  <2>1. \A p \in cluster.pods : PodSeen(p) => PodSeen(p)'
    BY <1>2, <1>6 DEF PodSeen, Pending, NoEvent
  <2>2. GhostsOK'
    BY <1>2, <1>6, GhostsKept DEF Serial, SInv
  <2> QED BY <1>2, <2>1, <2>2 DEF Serial, SInv, PodsOK
<1>11. RoleOK(t)'
  BY <1>1, <1>2, <1>3, <1>4, Facts DEF JobOK, RoleOK, Starting, Deleting, Upgrading
<1>12. DeleteOK(t)' /\ CreateOK(t)'
  BY <1>1, <1>2, <1>3, <1>4, Facts DEF JobOK, DeleteOK, CreateOK, Deleting, Excused
<1>13. ReadyOK(t)'
  <2> SUFFICES ASSUME Role(t) = "start" PROVE entry' = t /\ job'[t].watch = t /\ ReadySeen(t)'
    BY <1>4 DEF ReadyOK
  <2>1. entry = t /\ ReadySeen(t)
    BY Facts DEF JobOK, ReadyOK
  <2> QED BY <1>2, <1>3, <1>4, <1>6, <2>1, NilFields DEF ReadySeen
<1>14. UpgradeOK(t)'
  <2>1. Role(t) = "start" /\ mode = "settled" => OnlyNew /\ OnlyNew'
    BY <1>2, Facts DEF JobOK, UpgradeOK, OnlyNew
  <2> QED BY <1>1, <1>2, <1>3, <1>4, <2>1 DEF UpgradeOK
<1> QED BY <1>1, <1>2, <1>3, <1>7, <1>8, <1>9, <1>10, <1>11, <1>12, <1>13, <1>14, WorkSerial DEF JobOK

-----------------------------------------------------------------------------
\* The cluster and the informers

\* What they do to requests, controllers and answers.
LEMMA OutsideSerial ==
  ASSUME Serial, IInv', UNCHANGED <<mode, kind, result, queue, synced, job, faults>>,
         cluster'.config = cluster.config, cluster'.svc = cluster.svc,
         cluster'.hpa = cluster.hpa, cluster'.monitors = cluster.monitors,
         cluster'.deploy.uid = cluster.deploy.uid, cluster'.deploy.ver = cluster.deploy.ver,
         cluster'.deploy = Nil <=> cluster.deploy = Nil,
         cluster.deploy.ready => cluster'.deploy.ready,
         \A p \in cluster'.pods : p \in cluster.pods \/ p = OwnPod,
         entry # NoApp => entry' = entry, entry = NoApp => entry' \in {NoApp, 0},
         VersionsOK', CacheOK', PodsOK', GhostsOK', QueuedOK',
         \A t \in Tasks : Role(t) = "start" => ReadySeen(t)',
         \A t \in Tasks : UpgradeOK(t)'
  PROVE  SInv'
<1>1. SerialOK'
  BY DEF Serial, SInv, SerialOK, Over
<1>2. OwnPod.uid = cluster.deploy.uid /\ OwnPod.ver = cluster.deploy.ver
  BY DEF OwnPod
<1>3. OwnOK'
  <2>1. \A t \in Tasks : Unborn(t)' => Unborn(t)
    BY DEF Unborn, InQueue, Role
  <2>2. \A t \in Tasks : Childless(t) => Childless(t)'
    BY <1>2 DEF Childless
  <2> QED BY <2>1, <2>2 DEF Serial, SInv, OwnOK
<1>4. ASSUME NEW t \in Tasks PROVE JobOK(t)'
  <2>1. JobOK(t) /\ Role(t)' = Role(t)
    BY DEF Serial, SInv, Role
  <2>2. RoleOK(t)'
    BY <2>1 DEF JobOK, RoleOK
  <2>3. DeleteOK(t)' /\ CreateOK(t)'
    <3>1. Excused(t)' = Excused(t)
      BY <2>1 DEF Excused
    <3> QED BY <2>1, <3>1 DEF JobOK, DeleteOK, CreateOK
  <2>4. ReadyOK(t)'
    BY <2>1, Numbered DEF JobOK, ReadyOK
  <2> QED BY <2>2, <2>3, <2>4 DEF JobOK
<1>5. ASSUME NEW t \in Tasks, Alone(t)' PROVE AnswerOK(t)'
  <2>1. AnswerOK(t)
    BY <1>5 DEF Serial, SInv, Alone
  <2>2. (Nothing => Nothing') /\ (Gone(0) => Gone(0)') /\ (Gone(1) => Gone(1)')
    BY DEF Nothing, Gone
  <2>3. entry' = t => entry = t
    BY Numbered
  <2>4. /\ kind[t] = "stop" /\ result[t] \in {"success", "refused"} => Gone(0)'
        /\ kind[t] = "restart" /\ result[t] = "refused" => Nothing'
        /\ (/\ kind[t] = "start" /\ result[t] = "failure" /\ job[t] = NoJob
            /\ entry' = t /\ faults <= 1) => Gone(1)'
    BY <2>1, <2>2, <2>3 DEF AnswerOK
  <2>5. /\ kind[t] \in {"start", "restart"} /\ result[t] = "success" => cluster'.deploy.uid = t
        /\ kind[t] = "start" /\ result[t] = "success" => cluster'.deploy.ready
        /\ mode = "settled" /\ kind[t] = "start" /\ result[t] = "refused" =>
             cluster'.deploy # Nil /\ cluster'.deploy.ready
    BY <2>1 DEF AnswerOK
  <2>6. mode = "settled" /\ kind[t] = "upgrade" /\ result[t] = "success" =>
          \A p \in cluster'.pods : p.ver = cluster'.deploy.ver
    BY <1>2, <2>1 DEF AnswerOK
  <2> QED BY <2>4, <2>5, <2>6 DEF AnswerOK
<1> QED BY <1>1, <1>3, <1>4, <1>5 DEF SInv

\* One event about a pod more.
LEMMA AddedPodEvent ==
  ASSUME podEvents \in Seq(PodEvent), NEW e \in PodEvent, podEvents' = Append(podEvents, e)
  PROVE  /\ \A p : p # e.pod /\ NoEvent(p) => NoEvent(p)'
         /\ \A b, p : p # e.pod /\ Pending(b, p) => Pending(b, p)'
         /\ Pending(e.add, e.pod)'
<1>1. PICK n \in Nat : n = Len(podEvents)
  OBVIOUS
<1>2. /\ DOMAIN podEvents = 1 .. n /\ DOMAIN podEvents' = 1 .. n + 1 /\ podEvents'[n + 1] = e
      /\ \A i \in 1 .. n : podEvents'[i] = podEvents[i]
  BY <1>1
<1>3. \A i \in 1 .. n + 1 : i \in 1 .. n \/ i = n + 1
  BY <1>1
<1>4. ASSUME NEW p, p # e.pod, NoEvent(p) PROVE NoEvent(p)'
  BY <1>2, <1>3, <1>4 DEF NoEvent
<1>5. ASSUME NEW b, NEW p, p # e.pod, Pending(b, p) PROVE Pending(b, p)'
  <2>1. PICK i \in 1 .. n : /\ podEvents[i] = [add |-> b, pod |-> p]
                            /\ \A k \in 1 .. n : k > i => podEvents[k].pod # p
    BY <1>2, <1>5 DEF Pending
  <2>2. i \in 1 .. n + 1
    BY <1>1, <2>1
  <2>3. i \in DOMAIN podEvents' /\ podEvents'[i] = [add |-> b, pod |-> p]
    BY <1>2, <2>1, <2>2
  <2>4. \A k \in DOMAIN podEvents' : k > i => podEvents'[k].pod # p
    BY <1>2, <1>3, <1>5, <2>1
  <2> QED BY <2>3, <2>4 DEF Pending
<1>6. Pending(e.add, e.pod)'
  <2>1. e = [add |-> e.add, pod |-> e.pod]
    BY DEF PodEvent
  <2>2. n + 1 \in DOMAIN podEvents' /\ \A k \in DOMAIN podEvents' : ~(k > n + 1)
    BY <1>2
  <2>3. \E i \in DOMAIN podEvents' :
          /\ podEvents'[i] = [add |-> e.add, pod |-> e.pod]
          /\ \A k \in DOMAIN podEvents' : k > i => podEvents'[k].pod # e.pod
    BY <1>2, <2>1, <2>2
  <2> QED BY <2>3 DEF Pending
<1> QED BY <1>4, <1>5, <1>6

\* The first event about a pod is delivered.
LEMMA TakenPodEvent ==
  ASSUME podEvents \in Seq(PodEvent), podEvents # <<>>, podEvents' = Tail(podEvents),
         NEW e, e = Head(podEvents)
  PROVE  /\ \A p : NoEvent(p) => NoEvent(p)' /\ e.pod # p
         /\ \A b, p : Pending(b, p) => Pending(b, p)' \/ (e = [add |-> b, pod |-> p] /\ NoEvent(p)')
<1>1. PICK n \in Nat : n = Len(podEvents) /\ n > 0
  OBVIOUS
<1>2. /\ DOMAIN podEvents = 1 .. n /\ DOMAIN podEvents' = 1 .. n - 1 /\ podEvents[1] = e
      /\ \A i \in 1 .. n - 1 : podEvents'[i] = podEvents[i + 1]
  BY <1>1
<1>3. ASSUME NEW p, NoEvent(p) PROVE NoEvent(p)' /\ e.pod # p
  <2>1. e.pod # p
    BY <1>1, <1>2, <1>3 DEF NoEvent
  <2>2. \A i \in 1 .. n - 1 : i + 1 \in 1 .. n
    BY <1>1
  <2> QED BY <1>2, <1>3, <2>1, <2>2 DEF NoEvent
<1>4. ASSUME NEW b, NEW p, Pending(b, p)
      PROVE  Pending(b, p)' \/ (e = [add |-> b, pod |-> p] /\ NoEvent(p)')
  <2>1. PICK i \in 1 .. n : /\ podEvents[i] = [add |-> b, pod |-> p]
                            /\ \A k \in 1 .. n : k > i => podEvents[k].pod # p
    BY <1>2, <1>4 DEF Pending
  <2>2. CASE i = 1
    <3>1. \A k \in 1 .. n - 1 : k + 1 \in 1 .. n /\ k + 1 > i
      BY <1>1, <2>2
    <3>2. NoEvent(p)'
      BY <1>2, <2>1, <3>1 DEF NoEvent
    <3> QED BY <1>2, <2>1, <2>2, <3>2
  <2>3. CASE i # 1
    <3>1. i - 1 \in 1 .. n - 1 /\ (i - 1) + 1 = i
      BY <1>1, <2>3
    <3>2. podEvents'[i - 1] = [add |-> b, pod |-> p]
      BY <1>2, <2>1, <3>1
    <3>3. \A k \in 1 .. n - 1 : k > i - 1 => k + 1 \in 1 .. n /\ k + 1 > i
      BY <1>1, <2>3
    <3>4. \A k \in 1 .. n - 1 : k > i - 1 => podEvents'[k].pod # p
      BY <1>2, <2>1, <3>3
    <3>5. Pending(b, p)'
      BY <1>2, <3>1, <3>2, <3>4 DEF Pending
    <3> QED BY <3>5
  <2> QED BY <2>2, <2>3
<1> QED BY <1>3, <1>4

\* The first event about the workload is delivered.
LEMMA TakenDeployEvent ==
  ASSUME deployEvents \in Seq(Workload), deployEvents # <<>>, deployEvents' = Tail(deployEvents),
         NEW d, d = Head(deployEvents)
  PROVE  /\ \E i \in DOMAIN deployEvents : deployEvents[i] = d
         /\ \A i \in DOMAIN deployEvents' : \E k \in DOMAIN deployEvents : deployEvents'[i] = deployEvents[k]
         /\ deployEvents' = <<>> => d = deployEvents[Len(deployEvents)]
         /\ deployEvents' # <<>> =>
              deployEvents'[Len(deployEvents')] = deployEvents[Len(deployEvents)]
<1>1. PICK n \in Nat : n = Len(deployEvents) /\ n > 0
  OBVIOUS
<1>2. /\ DOMAIN deployEvents = 1 .. n /\ Len(deployEvents') = n - 1
      /\ DOMAIN deployEvents' = 1 .. n - 1 /\ deployEvents[1] = d
      /\ \A i \in 1 .. n - 1 : deployEvents'[i] = deployEvents[i + 1]
  BY <1>1
<1>3. \E i \in DOMAIN deployEvents : deployEvents[i] = d
  BY <1>1, <1>2
<1>4. ASSUME NEW i \in DOMAIN deployEvents'
      PROVE  \E k \in DOMAIN deployEvents : deployEvents'[i] = deployEvents[k]
  <2>1. i + 1 \in DOMAIN deployEvents
    BY <1>1, <1>2
  <2> QED BY <1>2, <2>1
<1>5. ASSUME deployEvents' = <<>> PROVE d = deployEvents[Len(deployEvents)]
  <2>1. Len(deployEvents') = Len(<<>>) /\ Len(<<>>) = 0
    <3>1. Len(deployEvents') = Len(<<>>)
      BY <1>5, Zenon
    <3> QED BY <3>1
  <2>2. n = 1
    BY <1>1, <1>2, <2>1
  <2> QED BY <1>1, <1>2, <2>2
<1>6. ASSUME deployEvents' # <<>>
      PROVE  deployEvents'[Len(deployEvents')] = deployEvents[Len(deployEvents)]
  <2>1. deployEvents' \in Seq(Workload)
    OBVIOUS
  <2>2. Len(deployEvents') > 0
    BY <1>6, <2>1
  <2>3. n - 1 \in 1 .. n - 1 /\ (n - 1) + 1 = n
    BY <1>1, <1>2, <2>2
  <2> QED BY <1>1, <1>2, <2>3
<1> QED BY <1>3, <1>4, <1>5, <1>6

LEMMA PodStartsSerial == ASSUME Serial, IInv', PodStarts PROVE SInv'
<1>0. PICK q : q = OwnPod
  OBVIOUS
<1> DEFINE e == [add |-> TRUE, pod |-> q]
<1>1. /\ cluster.deploy # Nil /\ q \notin cluster.pods
      /\ cluster' = [cluster EXCEPT !.pods = @ \cup {q}]
      /\ podEvents' = Append(podEvents, e)
      /\ UNCHANGED <<taskVars, result, storeVars, controllers, job, deployEvents, faults>>
  BY <1>0 DEF PodStarts, OwnPod
<1>2. /\ UNCHANGED <<mode, kind, result, queue, synced, job, faults>>
      /\ UNCHANGED <<dbVersion, entry, app, deployEvents>>
  BY <1>1 DEF taskVars, storeVars
<1>3. IInv
  BY DEF Serial
<1>4. /\ cluster'.config = cluster.config /\ cluster'.svc = cluster.svc
      /\ cluster'.hpa = cluster.hpa /\ cluster'.monitors = cluster.monitors
      /\ cluster'.deploy = cluster.deploy /\ cluster'.pods = cluster.pods \cup {q}
  BY <1>1, <1>3, Outside DEF ClusterType
<1>5. /\ q \in Pod /\ q.ver = cluster.deploy.ver
  BY <1>0, <1>3, Outside DEF OwnPod, Pod, Workload
<1>6. e \in PodEvent /\ e.add /\ e.pod = q
  BY <1>5 DEF PodEvent
<1> HIDE DEF e
<1>7. /\ \A p : p # q /\ NoEvent(p) => NoEvent(p)'
      /\ \A b, p : p # q /\ Pending(b, p) => Pending(b, p)'
      /\ Pending(TRUE, q)'
  BY <1>1, <1>3, <1>6, AddedPodEvent, Outside
<1>8. ~Rest
  BY <1>0, <1>1 DEF Rest, Settled, OwnPod
<1>9. VersionsOK'
  BY <1>1, <1>2, <1>4, <1>5 DEF Serial, SInv, VersionsOK, Made
<1>10. CacheOK'
  BY <1>2, <1>4 DEF Serial, SInv, CacheOK, Cached
<1>15. GhostsOK'
  <2>1. \A p : p # q /\ Unseen(p) => Unseen(p)'
    BY <1>2, <1>7 DEF Unseen
  <2> QED BY <1>2, <1>4, <2>1 DEF Serial, SInv, GhostsOK
<1>11. PodsOK'
  <2>1. \A p : p # q /\ PodSeen(p) => PodSeen(p)'
    BY <1>2, <1>7 DEF PodSeen
  <2>2. PodSeen(q)'
    BY <1>7 DEF PodSeen
  <2>3. PodsOK
    BY DEF Serial, SInv
  <2> SUFFICES ASSUME NEW p \in cluster'.pods, synced, p.uid = cluster.deploy.uid
               PROVE  PodSeen(p)'
    BY <1>2, <1>4 DEF PodsOK
  <2> QED BY <1>1, <1>4, <2>1, <2>2, <2>3 DEF PodsOK
<1>12. QueuedOK'
  BY <1>2, <1>4, <1>8 DEF Serial, SInv, QueuedOK, Cached
<1>13. ASSUME NEW t \in Tasks, Role(t) = "start" PROVE ReadySeen(t)'
  BY <1>2, <1>4, <1>13, Facts DEF JobOK, ReadyOK, ReadySeen
<1>14. ASSUME NEW t \in Tasks PROVE UpgradeOK(t)'
  <2>1. UpgradeOK(t) /\ Role(t)' = Role(t)
    BY <1>2, Facts DEF JobOK, Role
  <2>2. OnlyNew => OnlyNew'
    BY <1>1, <1>4, <1>5 DEF OnlyNew
  <2>3. Patched(t) => Patched(t)'
    BY <1>2, <1>4, <1>5, <1>7 DEF Patched
  <2> QED BY <1>2, <1>8, <2>1, <2>2, <2>3 DEF UpgradeOK
<1> QED BY <1>0, <1>2, <1>4, <1>9, <1>10, <1>11, <1>12, <1>13, <1>14, <1>15, OutsideSerial

LEMMA PodReadySerial == ASSUME Serial, IInv', PodReady PROVE SInv'
<1> DEFINE d == [cluster.deploy EXCEPT !.ready = TRUE]
<1>1. /\ ~cluster.deploy.ready /\ OwnPod \in cluster.pods
      /\ cluster' = [cluster EXCEPT !.deploy.ready = TRUE]
      /\ deployEvents' = Append(deployEvents, cluster'.deploy)
      /\ UNCHANGED <<taskVars, result, storeVars, controllers, job, podEvents, faults>>
  BY DEF PodReady, OwnPod
<1>2. /\ UNCHANGED <<mode, kind, result, queue, synced, job, faults>>
      /\ UNCHANGED <<dbVersion, entry, app, podEvents>>
  BY <1>1 DEF taskVars, storeVars
<1>3. IInv
  BY DEF Serial
<1>4. /\ cluster'.config = cluster.config /\ cluster'.svc = cluster.svc
      /\ cluster'.hpa = cluster.hpa /\ cluster'.monitors = cluster.monitors
      /\ cluster'.deploy = d /\ cluster'.pods = cluster.pods
  BY <1>1, <1>3, Outside DEF ClusterType
<1>5. cluster.deploy # Nil /\ cluster.deploy.ver >= 1 /\ cluster.deploy.rv
  <2>1. OwnPod.ver = cluster.deploy.ver /\ OwnPod.ver >= 1
    BY <1>1 DEF OwnPod, Serial, SInv, VersionsOK
  <2> QED BY <2>1, NilFields DEF Serial, SInv, VersionsOK, Made
<1>6. /\ d \in Workload /\ d.uid = cluster.deploy.uid /\ d.ver = cluster.deploy.ver
      /\ d.rv /\ d.ready
  BY <1>3, <1>5, Outside DEF Workload
<1>7. d # Nil
  BY <1>5, <1>6, NilFields
<1> HIDE DEF d
<1>8. /\ deployEvents' # <<>> /\ deployEvents'[Len(deployEvents')] = d
      /\ \A i \in DOMAIN deployEvents' :
           \/ deployEvents'[i] = d
           \/ i \in DOMAIN deployEvents /\ deployEvents'[i] = deployEvents[i]
  BY <1>1, <1>3, <1>4, <1>6, LastEvent, Outside
<1>9. ~Rest
  BY <1>1, <1>5 DEF Rest, Settled
<1>10. VersionsOK'
  BY <1>2, <1>4, <1>5, <1>6, <1>8 DEF Serial, SInv, VersionsOK, Made
<1>11. CacheOK'
  BY <1>4, <1>8 DEF CacheOK
<1>12. PodsOK' /\ GhostsOK'
  <2>1. \A p : PodSeen(p)' = PodSeen(p)
    BY <1>2 DEF PodSeen, Pending, NoEvent
  <2>2. GhostsOK'
    BY <1>2, <1>4, GhostsKept DEF Serial, SInv
  <2> QED BY <1>2, <1>4, <1>5, <1>6, <2>1, <2>2 DEF Serial, SInv, PodsOK
<1>13. QueuedOK'
  BY <1>2, <1>4, <1>5, <1>7, <1>8, <1>9 DEF Serial, SInv, QueuedOK, Cached
<1>14. \A t \in Tasks : ReadySeen(t)'
  BY <1>4, <1>6 DEF ReadySeen
<1>15. ASSUME NEW t \in Tasks PROVE UpgradeOK(t)'
  <2>1. UpgradeOK(t) /\ Role(t)' = Role(t)
    BY <1>2, Facts DEF JobOK, Role
  <2>2. OnlyNew => OnlyNew'
    BY <1>4, <1>6, <1>7 DEF OnlyNew
  <2>3. Patched(t) => Patched(t)'
    BY <1>2, <1>4, <1>6, <1>7, <1>8 DEF Patched, NoEvent
  <2> QED BY <1>2, <1>9, <2>1, <2>2, <2>3 DEF UpgradeOK
<1> QED BY <1>2, <1>4, <1>5, <1>6, <1>7, <1>10, <1>11, <1>12, <1>13, <1>14, <1>15, OutsideSerial

LEMMA PodEndsSerial ==
  ASSUME Serial, IInv', NEW p \in cluster.pods, PodEnds(p)
  PROVE  SInv'
<1> DEFINE e == [add |-> FALSE, pod |-> p]
<1>1. /\ cluster' = [cluster EXCEPT !.pods = @ \ {p}]
      /\ podEvents' = Append(podEvents, e)
      /\ UNCHANGED <<taskVars, result, storeVars, controllers, job, deployEvents, faults>>
      /\ cluster.deploy = Nil \/ p.uid # cluster.deploy.uid \/ p.ver # cluster.deploy.ver
  BY DEF PodEnds
<1>2. /\ UNCHANGED <<mode, kind, result, queue, synced, job, faults>>
      /\ UNCHANGED <<dbVersion, entry, app, deployEvents>>
  BY <1>1 DEF taskVars, storeVars
<1>3. IInv
  BY DEF Serial
<1>4. /\ cluster'.config = cluster.config /\ cluster'.svc = cluster.svc
      /\ cluster'.hpa = cluster.hpa /\ cluster'.monitors = cluster.monitors
      /\ cluster'.deploy = cluster.deploy /\ cluster'.pods = cluster.pods \ {p}
  BY <1>1, <1>3, Outside DEF ClusterType
<1>5. e \in PodEvent /\ e.pod = p /\ e.add = FALSE
  BY <1>3, Outside DEF PodEvent
<1> HIDE DEF e
<1>6. /\ \A q : q # p /\ NoEvent(q) => NoEvent(q)'
      /\ \A b, q : q # p /\ Pending(b, q) => Pending(b, q)'
      /\ Pending(FALSE, p)'
  BY <1>1, <1>3, <1>5, AddedPodEvent, Outside
<1>7. ~Rest
  <2> SUFFICES ASSUME Rest PROVE FALSE
    OBVIOUS
  <2>1. cluster.deploy # Nil /\ p = OwnPod
    BY DEF Rest, Settled, OwnPod
  <2> QED BY <1>1, <2>1 DEF OwnPod
<1>8. VersionsOK'
  BY <1>2, <1>4 DEF Serial, SInv, VersionsOK
<1>9. CacheOK'
  BY <1>2, <1>4 DEF Serial, SInv, CacheOK, Cached
<1>14. GhostsOK'
  <2>1. \A q : q # p /\ Unseen(q) => Unseen(q)'
    BY <1>2, <1>6 DEF Unseen
  <2>2. Unseen(p)'
    BY <1>6 DEF Unseen
  <2> QED BY <1>2, <1>4, <2>1, <2>2 DEF Serial, SInv, GhostsOK
<1>10. PodsOK'
  <2>1. \A q : q # p /\ PodSeen(q) => PodSeen(q)'
    BY <1>2, <1>6 DEF PodSeen
  <2> QED BY <1>2, <1>4, <2>1 DEF Serial, SInv, PodsOK
<1>11. QueuedOK'
  BY <1>2, <1>4, <1>7 DEF Serial, SInv, QueuedOK, Cached
<1>12. ASSUME NEW t \in Tasks, Role(t) = "start" PROVE ReadySeen(t)'
  BY <1>2, <1>4, <1>12, Facts DEF JobOK, ReadyOK, ReadySeen
<1>13. ASSUME NEW t \in Tasks PROVE UpgradeOK(t)'
  <2>1. UpgradeOK(t) /\ Role(t)' = Role(t)
    BY <1>2, Facts DEF JobOK, Role
  <2>2. OnlyNew => OnlyNew'
    BY <1>4 DEF OnlyNew
  <2>3. Patched(t) => Patched(t)'
    BY <1>2, <1>4, <1>6 DEF Patched
  <2> QED BY <1>2, <1>7, <2>1, <2>2, <2>3 DEF UpgradeOK
<1> QED BY <1>2, <1>4, <1>8, <1>9, <1>10, <1>11, <1>12, <1>13, <1>14, OutsideSerial

\* The informers deliver an event about the workload.
LEMMA OnDeploySerial == ASSUME Serial, IInv', OnDeploy PROVE SInv'
<1>1. /\ UNCHANGED <<taskVars, result, synced, controllers, job, cluster, podEvents, faults>>
      /\ deployEvents # <<>> /\ deployEvents' = Tail(deployEvents)
  BY DEF OnDeploy
<1>2. /\ UNCHANGED <<mode, kind, result, queue, synced, job, faults>>
      /\ UNCHANGED <<dbVersion, cluster, podEvents>>
  BY <1>1 DEF taskVars
<1>3. IInv /\ deployEvents \in Seq(Workload)
  BY Outside DEF Serial
<1>4. PICK d \in Workload : d = Head(deployEvents)
  BY <1>1, <1>3
<1>5. /\ \E i \in DOMAIN deployEvents : deployEvents[i] = d
      /\ \A i \in DOMAIN deployEvents' :
           \E k \in DOMAIN deployEvents : deployEvents'[i] = deployEvents[k]
      /\ deployEvents' = <<>> => d = deployEvents[Len(deployEvents)]
      /\ deployEvents' # <<>> =>
           deployEvents'[Len(deployEvents')] = deployEvents[Len(deployEvents)]
  BY <1>1, <1>3, <1>4, TakenDeployEvent
<1>6. /\ entry # NoApp => /\ entry' = entry /\ app'[entry].deployment = d
                          /\ app'[entry].pods = app[entry].pods
                          /\ d # Nil => app'[entry].ver = d.ver
      /\ entry = NoApp /\ d = Nil => entry' = NoApp
      /\ entry = NoApp /\ d # Nil => entry' = 0 /\ app'[0].deployment = d /\ app'[0].pods = {}
  <2>1. CASE entry # NoApp
    <3>1. entry \in Apps /\ app[entry] \in AppObject /\ app \in [Apps -> AppObject]
      BY <1>3, <2>1, Outside
    <3>2. app' = SetDeployment(entry, d) /\ entry' = entry
      BY <1>4, <2>1 DEF OnDeploy
    <3> QED BY <2>1, <3>1, <3>2 DEF SetDeployment, AppObject
  <2>2. CASE entry = NoApp /\ d = Nil
    BY <1>4, <2>2 DEF OnDeploy
  <2>3. CASE entry = NoApp /\ d # Nil
    <3>1. /\ entry' = 0
          /\ app' = [app EXCEPT ![0] = [CacheApp EXCEPT !.deployment = d, !.ver = d.ver]]
      BY <1>4, <2>3 DEF OnDeploy
    <3>2. CacheApp \in AppObject /\ 0 \in Apps /\ app \in [Apps -> AppObject]
      BY <1>3, CacheAppType, Names, Outside
    <3>3. app'[0].deployment = d /\ app'[0].pods = {}
      <4>1. CacheApp.pods = {}
        BY DEF CacheApp, NewApp
      <4> QED BY <3>1, <3>2, <4>1 DEF AppObject
    <3> QED BY <2>3, <3>1, <3>3
  <2> QED BY <2>1, <2>2, <2>3
<1>7. Made(d) /\ ~Rest
  BY <1>1, <1>5 DEF Serial, SInv, VersionsOK, Rest, Settled, Quiet
<1>8. d # Nil <=> Cached'
  <2>1. 0 # NoApp
    BY RuntimeAssumption DEF NoApp
  <2> QED BY <1>6, <1>7, <2>1, NilFields DEF Made, Cached
<1>15. GhostsOK'
  BY <1>2, <1>6, GhostsKept DEF Serial, SInv
<1>9. VersionsOK'
  BY <1>2, <1>5 DEF Serial, SInv, VersionsOK
<1>10. CacheOK'
  BY <1>1, <1>2, <1>5, <1>8 DEF Serial, SInv, CacheOK
<1>11. PodsOK'
  <2>1. \A p : PodSeen(p) => PodSeen(p)'
    BY <1>2, <1>6 DEF PodSeen, Pending, NoEvent
  <2> QED BY <1>2, <2>1 DEF Serial, SInv, PodsOK
<1>12. QueuedOK'
  BY <1>1, <1>2, <1>5, <1>7, <1>8 DEF Serial, SInv, QueuedOK
<1>13. ASSUME NEW t \in Tasks, Role(t) = "start" PROVE ReadySeen(t)'
  <2>1. entry = t /\ ReadySeen(t) /\ entry # NoApp
    BY <1>13, Facts, Numbered DEF JobOK, ReadyOK
  <2> QED BY <1>2, <1>5, <1>6, <2>1 DEF ReadySeen
<1>14. ASSUME NEW t \in Tasks PROVE UpgradeOK(t)'
  <2>1. UpgradeOK(t) /\ RoleOK(t) /\ Role(t)' = Role(t) /\ OnlyNew' = OnlyNew
    BY <1>2, Facts DEF JobOK, Role, OnlyNew
  <2>2. entry # NoApp /\ Patched(t) => Patched(t)' /\ app'[entry].ver = job[t].ver
    BY <1>2, <1>5, <1>6 DEF Patched, NoEvent
  <2>3. job[t].pc \in {"upgrade svc", "upgraded"} => Role(t) = "upgrade"
    BY <2>1 DEF RoleOK, Upgrading
  <2>4. mode = "settled" /\ Role(t) = "upgrade" => job[t].pc \in {"upgrade svc", "upgraded"}
    BY <1>7, <2>1 DEF UpgradeOK, RoleOK, Upgrading
  <2> QED BY <1>2, <1>6, <1>7, <2>1, <2>2, <2>3, <2>4 DEF UpgradeOK
<1> QED BY <1>2, <1>6, <1>9, <1>10, <1>11, <1>12, <1>13, <1>14, <1>15, OutsideSerial

\* The informers deliver an event about a pod.
LEMMA OnPodSerial == ASSUME Serial, IInv', OnPod PROVE SInv'
<1>1. /\ UNCHANGED <<taskVars, result, synced, controllers, job, cluster, deployEvents, faults>>
      /\ podEvents # <<>> /\ podEvents' = Tail(podEvents)
  BY DEF OnPod
<1>2. /\ UNCHANGED <<mode, kind, result, queue, synced, job, faults>>
      /\ UNCHANGED <<dbVersion, cluster, deployEvents>>
  BY <1>1 DEF taskVars
<1>3. IInv /\ podEvents \in Seq(PodEvent)
  BY Outside DEF Serial
<1>4. PICK e \in PodEvent : e = Head(podEvents)
  BY <1>1, <1>3
<1>5. /\ \A p : NoEvent(p) => NoEvent(p)' /\ e.pod # p
      /\ \A b, p : Pending(b, p) => Pending(b, p)' \/ (e = [add |-> b, pod |-> p] /\ NoEvent(p)')
  BY <1>1, <1>3, <1>4, TakenPodEvent
<1>6. /\ entry # NoApp =>
           /\ entry' = entry /\ app'[entry].deployment = app[entry].deployment
           /\ app'[entry].ver = app[entry].ver
           /\ e.add => app'[entry].pods = app[entry].pods \cup {e.pod}
           /\ ~e.add => app'[entry].pods = app[entry].pods \ {e.pod}
      /\ entry = NoApp /\ ~e.add => entry' = NoApp
      /\ entry = NoApp /\ e.add =>
           entry' = 0 /\ app'[0].pods = {e.pod} /\ app'[0].deployment = Nil
  <2>1. CASE entry # NoApp
    <3>1. entry \in Apps /\ app[entry] \in AppObject /\ app \in [Apps -> AppObject]
      BY <1>3, <2>1, Outside
    <3>2. /\ entry' = entry
          /\ e.add => app' = [app EXCEPT ![entry].pods = @ \cup {e.pod}]
          /\ ~e.add => app' = [app EXCEPT ![entry].pods = @ \ {e.pod}]
      BY <1>4, <2>1 DEF OnPod
    <3> QED BY <2>1, <3>1, <3>2 DEF AppObject
  <2>2. CASE entry = NoApp /\ ~e.add
    BY <1>4, <2>2 DEF OnPod
  <2>3. CASE entry = NoApp /\ e.add
    <3>1. entry' = 0 /\ app' = [app EXCEPT ![0] = [CacheApp EXCEPT !.pods = {e.pod}]]
      BY <1>4, <2>3 DEF OnPod
    <3>2. CacheApp \in AppObject /\ 0 \in Apps /\ app \in [Apps -> AppObject]
      BY <1>3, CacheAppType, Names, Outside
    <3>3. app'[0].pods = {e.pod} /\ app'[0].deployment = Nil
      <4>1. CacheApp.deployment = Nil
        BY DEF CacheApp, NewApp
      <4> QED BY <3>1, <3>2, <4>1 DEF AppObject
    <3> QED BY <2>3, <3>1, <3>3
  <2> QED BY <2>1, <2>2, <2>3
<1>7. ~Rest
  BY <1>1 DEF Rest, Settled, Quiet
<1>8. Cached' <=> Cached
  BY <1>6, NilFields DEF Cached
<1>15. GhostsOK'
  <2>1. ASSUME NEW p, e = [add |-> FALSE, pod |-> p]
        PROVE  entry' = NoApp \/ p \notin app'[entry'].pods
    <3>1. e.add = FALSE /\ e.pod = p
      BY <2>1
    <3> QED BY <1>6, <3>1
  <2>2. ASSUME NEW p, e.pod # p, entry = NoApp \/ p \notin app[entry].pods
        PROVE  entry' = NoApp \/ p \notin app'[entry'].pods
    BY <1>6, <2>2 DEF PodEvent
  <2>3. \A p : Unseen(p) => Unseen(p)'
    BY <1>5, <2>1, <2>2 DEF Unseen
  <2> QED BY <1>2, <2>3 DEF Serial, SInv, GhostsOK
<1>9. VersionsOK'
  BY <1>2 DEF Serial, SInv, VersionsOK
<1>10. CacheOK'
  BY <1>2, <1>8 DEF Serial, SInv, CacheOK
<1>11. PodsOK'
  <2>1. \A p : NoEvent(p) /\ entry # NoApp /\ p \in app[entry].pods =>
               p \in app'[entry].pods /\ NoEvent(p)'
    BY <1>5, <1>6
  <2>2. ASSUME NEW p, e = [add |-> TRUE, pod |-> p]
        PROVE  entry' # NoApp /\ p \in app'[entry'].pods
    <3>1. e.add /\ e.pod = p
      BY <2>2
    <3> QED BY <1>6, <3>1, RuntimeAssumption DEF NoApp
  <2>3. \A p : PodSeen(p) => PodSeen(p)'
    BY <1>5, <1>6, <2>1, <2>2 DEF PodSeen
  <2> QED BY <1>2, <2>3 DEF Serial, SInv, PodsOK
<1>12. QueuedOK'
  BY <1>2, <1>7, <1>8 DEF Serial, SInv, QueuedOK
<1>13. ASSUME NEW t \in Tasks, Role(t) = "start" PROVE ReadySeen(t)'
  <2>1. entry = t /\ ReadySeen(t) /\ entry # NoApp
    BY <1>13, Facts, Numbered DEF JobOK, ReadyOK
  <2> QED BY <1>2, <1>6, <2>1 DEF ReadySeen
<1>14. ASSUME NEW t \in Tasks PROVE UpgradeOK(t)'
  <2>1. UpgradeOK(t) /\ RoleOK(t) /\ Role(t)' = Role(t) /\ OnlyNew' = OnlyNew
    BY <1>2, Facts DEF JobOK, Role, OnlyNew
  <2>2. entry # NoApp /\ Patched(t) => Patched(t)'
    BY <1>2, <1>5, <1>6 DEF Patched
  <2>3. job[t].pc \in {"upgrade svc", "upgraded"} => Role(t) = "upgrade"
    BY <2>1 DEF RoleOK, Upgrading
  <2> QED BY <1>2, <1>6, <1>7, <2>1, <2>2, <2>3 DEF UpgradeOK
<1> QED BY <1>2, <1>6, <1>9, <1>10, <1>11, <1>12, <1>13, <1>14, <1>15, OutsideSerial

-----------------------------------------------------------------------------
\* Requests and the loop

\* The service is at rest when a request comes: the cached object is right.
LEMMA SubmitSerial ==
  ASSUME Serial, IInv', NEW t \in Tasks, NEW k \in Kinds, Submit(t, k)
  PROVE  SInv'
<1>0. IInv /\ SInv /\ mode # "free" /\ TasksOK /\ TypeOK
  BY DEF Serial, IInv
<1>1. /\ kind[t] = "none" /\ kind' = [kind EXCEPT ![t] = k] /\ k # "none"
      /\ queue' = Append(queue, t) /\ dbVersion' \in {dbVersion, dbVersion + 1}
      /\ UNCHANGED <<mode, result, storeVars, controllers, job, cluster, eventVars, faults>>
  BY RuntimeAssumption DEF Submit
<1>2. UNCHANGED <<mode, result, synced, entry, app, job, cluster, deployEvents, podEvents>>
  BY <1>1 DEF storeVars, eventVars
<1>3. /\ Quiet
      /\ mode = "settled" => Settled
      /\ \A u \in 1..(t - 1) : kind[u] # "none" /\ Over(u) /\ job[u] = NoJob
  BY <1>0 DEF Submit
<1>4. \A u \in Tasks : kind'[u] = IF u = t THEN k ELSE kind[u]
  BY <1>0, <1>1 DEF TypeOK
<1>5. ASSUME NEW u \in Tasks, u > t PROVE kind[u] = "none"
  BY <1>0, <1>1, <1>5 DEF SInv, SerialOK
<1>6. ASSUME NEW u \in Tasks, u < t
      PROVE  kind[u] # "none" /\ Over(u) /\ job[u] = NoJob
  <2>1. u \in 1..(t - 1)
    BY <1>6 DEF Tasks
  <2> QED BY <1>3, <2>1
<1>7. ASSUME NEW u \in Tasks PROVE job[u] = NoJob
  <2>1. CASE u < t
    BY <1>6, <2>1
  <2>2. CASE u >= t
    <3>1. kind[u] = "none"
      BY <1>1, <1>5, <2>2, Numbered
    <3> QED BY <1>0, <3>1 DEF TasksOK
  <2> QED BY <2>1, <2>2, Numbered
<1>8. result[t] = "none"
  BY <1>0, <1>1 DEF TasksOK, Over
<1>9. SerialOK'
  <2> SUFFICES ASSUME NEW v \in Tasks, NEW u \in Tasks, u < v, kind'[v] # "none"
               PROVE  kind'[u] # "none" /\ Over(u)' /\ job'[u] = NoJob
    BY DEF SerialOK
  <2>1. v <= t
    BY <1>4, <1>5, Numbered
  <2>2. u < t /\ u # t
    BY <2>1, Numbered
  <2> QED BY <1>2, <1>4, <1>6, <2>2 DEF Over
<1>10. VersionsOK'
  <2>1. dbVersion' >= 1
    BY <1>0, <1>1, Outside DEF SInv, VersionsOK
  <2> QED BY <1>0, <1>2, <2>1 DEF SInv, VersionsOK
<1>11. OwnOK'
  <2> SUFFICES ASSUME NEW u \in Tasks, Unborn(u)' PROVE Unborn(u) /\ Childless(u)' = Childless(u)
    BY <1>0 DEF SInv, OwnOK
  <2>1. InQueue(u)' => InQueue(u) \/ u = t
    <3>1. queue \in Seq(Tasks) /\ ~InQueue(t) /\ Distinct
      BY <1>0, <1>1 DEF TypeOK, TasksOK, IInv
    <3> QED BY <1>1, <3>1, PutTask
  <2> QED BY <1>1, <1>2, <1>4, <2>1 DEF Unborn, Childless, Role
<1>12. CacheOK' /\ PodsOK' /\ GhostsOK' /\ Rest' = Rest
  BY <1>0, <1>2, Still DEF SInv
<1>13. Rest \/ mode # "settled"
  <2> SUFFICES ASSUME mode = "settled" PROVE Rest
    OBVIOUS
  <2>1. synced /\ podEvents = <<>> /\ deployEvents = <<>> /\ Settled
    BY <1>3 DEF Quiet
  <2>2. \A b, p : ~Pending(b, p)
    BY <2>1 DEF Pending
  <2>3. ASSUME cluster.deploy # Nil PROVE entry # NoApp /\ OwnPod \in app[entry].pods
    <3>1. OwnPod \in cluster.pods /\ OwnPod.uid = cluster.deploy.uid
      BY <2>1, <2>3 DEF Settled, OwnPod
    <3>2. PodSeen(OwnPod)
      BY <1>0, <2>1, <2>3, <3>1 DEF SInv, PodsOK
    <3> QED BY <2>2, <3>2 DEF PodSeen
  <2>4. ASSUME cluster.deploy = Nil, entry # NoApp PROVE IsClosed(entry)
    <3>1. cluster.pods = {}
      BY <2>1, <2>4 DEF Settled
    <3>2. ~app[entry].deployment.rv
      BY <1>0, <2>1, <2>4 DEF SInv, CacheOK, Cached
    <3>3. app[entry].pods \subseteq Pod
      BY <2>4, Facts DEF AppObject
    <3>4. \A p \in Pod : p \notin app[entry].pods
      BY <1>0, <2>1, <2>2, <2>4, <3>1 DEF SInv, GhostsOK, Unseen
    <3>5. app[entry].pods = {}
      BY <3>3, <3>4
    <3> QED BY <3>2, <3>5 DEF IsClosed
  <2> QED BY <2>1, <2>3, <2>4 DEF Rest
<1>14. QueuedOK'
  <2>1. synced /\ deployEvents = <<>> /\ (cluster.deploy # Nil => Cached)
    BY <1>0, <1>3 DEF Quiet, SInv, CacheOK
  <2>2. \A i \in DOMAIN deployEvents' : deployEvents'[i] # Nil
    BY <1>2, <2>1
  <2>3. Cached' = Cached
    BY <1>2 DEF Cached
  <2> QED BY <1>2, <1>12, <1>13, <2>1, <2>2, <2>3 DEF QueuedOK
<1>15. \A u \in Tasks : JobOK(u)'
  BY <1>2, <1>7, Idle
<1>16. ASSUME NEW u \in Tasks, Alone(u)' PROVE AnswerOK(u)'
  <2>1. u = t
    BY <1>1, <1>4, <1>5, <1>16, Numbered DEF Alone
  <2>2. result'[u] = "none"
    BY <1>2, <1>8, <2>1
  <2> QED BY <2>2 DEF AnswerOK
<1> QED BY <1>9, <1>10, <1>11, <1>12, <1>14, <1>15, <1>16 DEF SInv

\* The task the loop takes is the last one and waits alone.
LEMMA FirstWaits ==
  ASSUME Serial, queue # <<>>, queue' = Tail(queue), NEW t, t = Head(queue)
  PROVE  /\ t \in Tasks /\ InQueue(t) /\ kind[t] # "none" /\ ~Over(t) /\ queue' = <<>>
         /\ \A u \in Tasks : /\ job[u] = NoJob /\ ~InQueue(u)'
                             /\ u # t => ~Alone(u)
<1>0. IInv /\ SerialOK /\ TasksOK /\ queue \in Seq(Tasks) /\ Distinct
  BY DEF Serial, IInv, TypeOK, SInv
<1>1. /\ t \in Tasks /\ InQueue(t) /\ queue' \in Seq(Tasks)
      /\ \A u \in Tasks : InQueue(u)' <=> InQueue(u) /\ u # t
  BY <1>0, TakeTask
<1>2. kind[t] # "none" /\ ~Over(t) /\ job[t] = NoJob
  BY <1>0, <1>1 DEF TasksOK
<1>3. ASSUME NEW u \in Tasks, u # t
      PROVE  job[u] = NoJob /\ ~Alone(u) /\ ~InQueue(u)
  <2>1. CASE u < t
    BY <1>0, <1>1, <1>2, <2>1 DEF SerialOK, Alone, TasksOK
  <2>2. CASE u > t
    <3>1. kind[u] = "none"
      BY <1>0, <1>1, <1>2, <2>2 DEF SerialOK
    <3> QED BY <1>0, <3>1 DEF TasksOK, Alone
  <2> QED BY <1>1, <1>3, <2>1, <2>2, Numbered
<1>4. \A u \in Tasks : ~InQueue(u)'
  BY <1>1, <1>3
<1>5. queue' = <<>>
  <2> SUFFICES ASSUME queue' # <<>> PROVE FALSE
    OBVIOUS
  <2>1. 1 \in DOMAIN queue' /\ queue'[1] \in Tasks
    BY <1>1
  <2> QED BY <1>4, <2>1 DEF InQueue
<1> QED BY <1>1, <1>2, <1>3, <1>4, <1>5

\* What the loop does to the task it takes is all that is left to show.
LEMMA TakenSerial ==
  ASSUME Serial, IInv', queue # <<>>, queue' = Tail(queue), NEW t, t = Head(queue),
         UNCHANGED <<mode, kind, dbVersion, synced, cluster, deployEvents>>,
         \A u \in Tasks : u # t => job'[u] = job[u] /\ result'[u] = result[u],
         CacheOK', PodsOK', GhostsOK', JobOK(t)', AnswerOK(t)'
  PROVE  SInv'
<1>1. /\ t \in Tasks /\ InQueue(t) /\ ~Over(t) /\ queue' = <<>>
      /\ \A u \in Tasks : /\ job[u] = NoJob /\ ~InQueue(u)'
                          /\ u # t => ~Alone(u)
  BY FirstWaits
<1>2. SerialOK'
  <2> SUFFICES ASSUME NEW v \in Tasks, NEW u \in Tasks, u < v, kind[v] # "none"
               PROVE  kind[u] # "none" /\ Over(u)' /\ job'[u] = NoJob
    BY DEF SerialOK
  <2>1. kind[u] # "none" /\ Over(u) /\ job[u] = NoJob
    BY DEF Serial, SInv, SerialOK
  <2>2. u # t
    BY <1>1, <2>1
  <2> QED BY <2>1, <2>2 DEF Over
<1>3. VersionsOK' /\ QueuedOK'
  BY <1>1 DEF Serial, SInv, VersionsOK, QueuedOK
<1>4. OwnOK'
  <2> SUFFICES ASSUME NEW u \in Tasks, Unborn(u)' PROVE Unborn(u) /\ Childless(u)' = Childless(u)
    BY DEF Serial, SInv, OwnOK
  <2>1. Childless(u)' = Childless(u)
    BY DEF Childless
  <2>2. CASE u = t
    BY <1>1, <2>1, <2>2 DEF Unborn
  <2>3. CASE u # t
    BY <1>1, <2>1, <2>3 DEF Unborn, Role
  <2> QED BY <2>2, <2>3
<1>5. ASSUME NEW u \in Tasks PROVE JobOK(u)'
  <2>1. CASE u # t
    <3>1. job'[u] = NoJob
      BY <1>1, <2>1
    <3> QED BY <3>1, Idle
  <2> QED BY <2>1
<1>6. ASSUME NEW u \in Tasks, Alone(u)' PROVE AnswerOK(u)'
  BY <1>1, <1>6 DEF Alone
<1> QED BY <1>2, <1>3, <1>4, <1>5, <1>6 DEF SInv

\* A task ends without a controller: what is left to show is that its answer is true.
LEMMA AnswerSerial ==
  ASSUME Serial, IInv', queue # <<>>, queue' = Tail(queue), NEW t, t = Head(queue),
         UNCHANGED <<mode, kind, dbVersion, synced, cluster, deployEvents, podEvents>>,
         NEW r, Answer(t, r), result'[t] = r => AnswerOK(t)'
  PROVE  SInv'
<1>1. t \in Tasks /\ \A u \in Tasks : job[u] = NoJob
  BY FirstWaits
<1>2. result' = [result EXCEPT ![t] = r] /\ UNCHANGED <<entry, app, job>>
  BY DEF Answer
<1>3. result \in [Tasks -> Results]
  BY <1>1, Facts
<1>4. result'[t] = r /\ \A u \in Tasks : u # t => job'[u] = job[u] /\ result'[u] = result[u]
  BY <1>1, <1>2, <1>3
<1>5. CacheOK' /\ PodsOK' /\ GhostsOK'
  BY <1>2, Still DEF Serial, SInv
<1>6. JobOK(t)'
  BY <1>1, <1>2, Idle
<1> QED BY <1>4, <1>5, <1>6, TakenSerial

\* A refused start has a settled service with a workload, a refused stop or restart one
\* with nothing.
LEMMA RefusedSerial ==
  ASSUME Serial, FreshOK, IInv', queue # <<>>, queue' = Tail(queue), NEW t, t = Head(queue),
         UNCHANGED <<mode, kind, dbVersion, synced, cluster, deployEvents, podEvents, faults>>,
         Answer(t, "refused"),
         \/ kind[t] = "start" /\ entry # NoApp /\ ~IsClosed(entry)
         \/ kind[t] \in {"stop", "restart"} /\ entry = NoApp
  PROVE  SInv'
<1>1. QueuedOK
  BY DEF Serial, SInv
<1>2. CASE kind[t] = "start" /\ entry # NoApp /\ ~IsClosed(entry)
  <2>1. mode = "settled" => cluster.deploy # Nil /\ cluster.deploy.ready
    BY <1>1, <1>2 DEF QueuedOK, Rest, Settled
  <2>2. result'[t] = "refused" => AnswerOK(t)'
    BY <1>2, <2>1 DEF AnswerOK
  <2> QED BY <2>2, AnswerSerial
<1>3. CASE kind[t] \in {"stop", "restart"} /\ entry = NoApp
  <2>1. cluster.deploy = Nil /\ synced
    BY <1>1, <1>3 DEF QueuedOK, Cached
  <2>2. Nothing' /\ ~cluster'.monitors
    BY <1>3, <2>1 DEF FreshOK, Nothing
  <2>3. result'[t] = "refused" => AnswerOK(t)'
    BY <1>3, <2>2 DEF AnswerOK, Gone
  <2> QED BY <2>3, AnswerSerial
<1> QED BY <1>2, <1>3

\* A start gets its object and its controller; there is no workload then.
LEMMA StartNewSerial ==
  ASSUME Serial, IInv', queue # <<>>, queue' = Tail(queue), NEW t, t = Head(queue),
         UNCHANGED <<mode, kind, dbVersion, synced, cluster, deployEvents, podEvents>>,
         kind[t] \in {"start", "upgrade"}, entry = NoApp \/ IsClosed(entry), StartNew(t)
  PROVE  SInv'
<1> DEFINE j == [role |-> "start", pc |-> "begin", ver |-> dbVersion,
                 deploy |-> TRUE, pods |-> {}, watch |-> NoApp]
<1>1. t \in Tasks /\ \A u \in Tasks : job[u] = NoJob
  BY FirstWaits
<1>2. /\ app' = [app EXCEPT ![t] = NewApp(dbVersion)] /\ entry' = t
      /\ job' = [job EXCEPT ![t] = j] /\ UNCHANGED result
  BY DEF StartNew, StartController
<1>3. /\ j.role = "start" /\ j.pc = "begin" /\ j.deploy /\ j.ver = dbVersion
  OBVIOUS
<1> HIDE DEF j
<1>4. /\ job'[t] = j /\ Role(t)' = "start"
      /\ \A u \in Tasks : u # t => job'[u] = job[u] /\ result'[u] = result[u]
  BY <1>1, <1>2, <1>3, Facts DEF Role
<1>5. t \in Apps /\ app \in [Apps -> AppObject]
  BY <1>1, Facts, Names
<1>6. app'[t] = NewApp(dbVersion)
  BY <1>2, <1>5
<1>7. /\ NewApp(dbVersion).deployment.ready = FALSE /\ NewApp(dbVersion).deployment.rv = FALSE
      /\ NewApp(dbVersion).pods = {}
  BY DEF NewApp, Nil
<1>8. QueuedOK /\ VersionsOK
  BY DEF Serial, SInv
<1>9. /\ cluster.deploy = Nil /\ deployEvents = <<>>
      /\ mode = "settled" => cluster.pods = {}
  <2>1. cluster.deploy = Nil
    BY <1>8 DEF QueuedOK, Cached, IsClosed
  <2> QED BY <1>8, <2>1 DEF QueuedOK, Rest, Settled
<1>10. CacheOK' /\ PodsOK' /\ GhostsOK'
  <2>1. ~Cached'
    BY <1>2, <1>6, <1>7 DEF Cached
  <2>2. GhostsOK'
    BY <1>2, <1>6, <1>7, GhostsKept DEF Serial, SInv
  <2> QED BY <1>9, <2>1, <2>2 DEF CacheOK, PodsOK
<1>11. RoleOK(t)'
  BY <1>3, <1>4, <1>8 DEF RoleOK, Starting, Deleting, Upgrading, VersionsOK
<1>12. DeleteOK(t)' /\ CreateOK(t)'
  BY <1>3, <1>4, <1>9 DEF DeleteOK, CreateOK, Deleting, Own
<1>13. ReadyOK(t)'
  <2>1. \A i \in DOMAIN deployEvents' : FALSE
    BY <1>9
  <2>2. ReadySeen(t)'
    BY <1>6, <1>7, <2>1 DEF ReadySeen
  <2> QED BY <1>2, <1>3, <1>4, <2>2 DEF ReadyOK
<1>14. UpgradeOK(t)'
  BY <1>3, <1>4, <1>9 DEF UpgradeOK, OnlyNew
<1>15. AnswerOK(t)'
  BY <1>1, <1>4, <1>11, Unanswered
<1> QED BY <1>4, <1>10, <1>11, <1>12, <1>13, <1>14, <1>15, TakenSerial DEF JobOK

\* A stop or restart gets a controller with a copy that has the workload.
LEMMA StopSerial ==
  ASSUME Serial, IInv', queue # <<>>, queue' = Tail(queue), NEW t, t = Head(queue),
         UNCHANGED <<mode, kind, dbVersion, synced, cluster, deployEvents, podEvents>>,
         kind[t] \in {"stop", "restart"}, entry # NoApp,
         StartController(t, Copy(kind[t], entry)), UNCHANGED <<entry, app, result>>
  PROVE  SInv'
<1> DEFINE j == Copy(kind[t], entry)
<1>1. t \in Tasks /\ \A u \in Tasks : job[u] = NoJob
  BY FirstWaits
<1>2. job' = [job EXCEPT ![t] = j]
  BY DEF StartController
<1>3. /\ j.role = kind[t] /\ j.pc = "begin"
      /\ j.deploy <=> app[entry].deployment # Nil
  BY DEF Copy
<1> HIDE DEF j
<1>4. /\ job'[t] = j /\ Role(t)' = kind[t]
      /\ \A u \in Tasks : u # t => job'[u] = job[u] /\ result'[u] = result[u]
  BY <1>1, <1>2, <1>3, Facts DEF Role
<1>5. CacheOK' /\ PodsOK' /\ GhostsOK'
  BY Still DEF Serial, SInv
<1>6. RoleOK(t)'
  BY <1>3, <1>4 DEF RoleOK, Starting, Deleting, Upgrading
<1>7. DeleteOK(t)'
  <2>1. cluster.deploy # Nil => j.deploy
    BY <1>3, NilFields DEF Serial, SInv, QueuedOK, Cached
  <2> QED BY <1>3, <1>4, <2>1 DEF DeleteOK, Deleting
<1>8. CreateOK(t)' /\ ReadyOK(t)' /\ UpgradeOK(t)'
  BY <1>3, <1>4 DEF CreateOK, ReadyOK, UpgradeOK, Own
<1>9. AnswerOK(t)'
  BY <1>1, <1>4, <1>6, Unanswered
<1> QED BY <1>4, <1>5, <1>6, <1>7, <1>8, <1>9, TakenSerial DEF JobOK

\* An upgrade gives the cached object its version and keeps what it knows of the pods.
LEMMA UpgradeSerial ==
  ASSUME Serial, IInv', queue # <<>>, queue' = Tail(queue), NEW t, t = Head(queue),
         UNCHANGED <<mode, kind, dbVersion, synced, cluster, deployEvents, podEvents>>,
         kind[t] = "upgrade", entry # NoApp,
         app' = [app EXCEPT ![entry].ver = dbVersion, ![entry].deployment.ready = FALSE],
         StartController(t, [Copy("upgrade", entry) EXCEPT !.ver = dbVersion, !.pods = {}]),
         UNCHANGED <<entry, result>>
  PROVE  SInv'
<1> DEFINE j == [Copy("upgrade", entry) EXCEPT !.ver = dbVersion, !.pods = {}]
<1>1. t \in Tasks /\ \A u \in Tasks : job[u] = NoJob
  BY FirstWaits
<1>2. job' = [job EXCEPT ![t] = j]
  BY DEF StartController
<1>3. j.role = "upgrade" /\ j.pc = "begin" /\ j.ver = dbVersion
  BY DEF Copy
<1> HIDE DEF j
<1>4. /\ job'[t] = j /\ Role(t)' = "upgrade"
      /\ \A u \in Tasks : u # t => job'[u] = job[u] /\ result'[u] = result[u]
  BY <1>1, <1>2, <1>3, Facts DEF Role
<1>5. entry \in Apps /\ app \in [Apps -> AppObject] /\ app[entry] \in AppObject
  BY <1>1, Facts
<1>6. /\ app'[entry].ver = dbVersion /\ app'[entry].pods = app[entry].pods
      /\ app'[entry].deployment.rv = app[entry].deployment.rv
  BY <1>5 DEF AppObject, Workload
<1>7. CacheOK'
  BY <1>6 DEF Serial, SInv, CacheOK, Cached
<1>8. PodsOK' /\ GhostsOK'
  <2>1. \A p : PodSeen(p)' = PodSeen(p)
    BY <1>6 DEF PodSeen, Pending, NoEvent
  <2>2. GhostsOK'
    BY <1>6, GhostsKept DEF Serial, SInv
  <2> QED BY <2>1, <2>2 DEF Serial, SInv, PodsOK
<1>9. RoleOK(t)'
  BY <1>3, <1>4 DEF RoleOK, Starting, Deleting, Upgrading, Serial, SInv, VersionsOK
<1>10. DeleteOK(t)' /\ CreateOK(t)' /\ ReadyOK(t)'
  BY <1>3, <1>4 DEF DeleteOK, CreateOK, ReadyOK, Deleting, Own
<1>11. UpgradeOK(t)'
  <2>1. Rest' = Rest
    BY <1>6 DEF Rest, Settled, Quiet, OwnPod, IsClosed
  <2> QED BY <1>3, <1>4, <1>6, <2>1 DEF UpgradeOK, Serial, SInv, QueuedOK
<1>12. AnswerOK(t)'
  BY <1>1, <1>4, <1>9, Unanswered
<1> QED BY <1>4, <1>7, <1>8, <1>9, <1>10, <1>11, <1>12, TakenSerial DEF JobOK

LEMMA ExecSerial == ASSUME Serial, FreshOK, IInv', Exec PROVE SInv'
<1>0. PICK t : t = Head(queue)
  OBVIOUS
<1>1. /\ queue # <<>> /\ queue' = Tail(queue)
      /\ UNCHANGED <<mode, kind, dbVersion, synced, cluster, deployEvents, podEvents, faults>>
  BY DEF Exec, eventVars
<1>2. kind[t] \in {"start", "stop", "restart", "upgrade"}
  BY <1>0, <1>1, FirstWaits, RuntimeAssumption DEF Serial, IInv, TypeOK
<1>3. CASE /\ Answer(t, "refused")
           /\ \/ kind[t] = "start" /\ entry # NoApp /\ ~IsClosed(entry)
              \/ kind[t] \in {"stop", "restart"} /\ entry = NoApp
  BY <1>0, <1>1, <1>3, RefusedSerial
<1>4. CASE /\ kind[t] \in {"start", "upgrade"} /\ StartNew(t)
           /\ entry = NoApp \/ IsClosed(entry)
  BY <1>0, <1>1, <1>4, StartNewSerial
<1>5. CASE /\ entry # NoApp /\ kind[t] \in {"stop", "restart"}
           /\ StartController(t, Copy(kind[t], entry)) /\ UNCHANGED <<entry, app, result>>
  BY <1>0, <1>1, <1>5, StopSerial
<1>6. CASE /\ entry # NoApp /\ kind[t] = "upgrade"
           /\ app' = [app EXCEPT ![entry].ver = dbVersion, ![entry].deployment.ready = FALSE]
           /\ StartController(t, [Copy("upgrade", entry) EXCEPT !.ver = dbVersion, !.pods = {}])
           /\ UNCHANGED <<entry, result>>
  BY <1>0, <1>1, <1>6, UpgradeSerial
<1>7. CASE startExec(t) /\ kind[t] = "start"
  BY <1>3, <1>4, <1>7 DEF startExec
<1>8. CASE rollingUpgradeExec(t) /\ kind[t] = "upgrade"
  BY <1>4, <1>6, <1>8 DEF rollingUpgradeExec
<1>9. CASE stopExec(t) /\ kind[t] \in {"stop", "restart"}
  BY <1>3, <1>5, <1>9 DEF stopExec
<1> QED BY <1>0, <1>2, <1>7, <1>8, <1>9 DEF Exec

\* The task fails without an object of its own, or is lost.
LEMMA LoopFailsSerial ==
  ASSUME Serial, FreshOK, IInv', ExecFails \/ RequeueFails
  PROVE  SInv'
<1>0. PICK t : t = Head(queue)
  OBVIOUS
<1>1. /\ queue # <<>> /\ queue' = Tail(queue)
      /\ UNCHANGED <<mode, kind, dbVersion, synced, cluster, deployEvents, podEvents>>
      /\ Answer(t, "failure") \/ Answer(t, "lost")
  BY <1>0 DEF ExecFails, RequeueFails, eventVars
<1>2. entry # t
  BY <1>0, <1>1, FirstWaits DEF FreshOK
<1>3. entry' # t
  BY <1>1, <1>2 DEF Answer
<1>4. result'[t] \in {"failure", "lost"} => AnswerOK(t)'
  BY <1>3 DEF AnswerOK
<1> QED BY <1>0, <1>1, <1>4, AnswerSerial

\* An upgrade fails: the cached object keeps its workload and its pods.
LEMMA PatchFailsSerial == ASSUME Serial, IInv', PatchFails PROVE SInv'
<1>0. PICK t : t = Head(queue)
  OBVIOUS
<1>1. /\ queue # <<>> /\ queue' = Tail(queue) /\ kind[t] = "upgrade" /\ entry # NoApp
      /\ UNCHANGED <<mode, kind, dbVersion, synced, cluster, deployEvents, podEvents, entry, job>>
      /\ app' = [app EXCEPT ![entry].deployment.ready = FALSE]
      /\ result' = [result EXCEPT ![t] = "failure"]
  BY <1>0 DEF PatchFails, eventVars
<1>2. t \in Tasks /\ \A u \in Tasks : job[u] = NoJob
  BY <1>0, <1>1, FirstWaits
<1>3. result'[t] = "failure" /\ \A u \in Tasks : u # t => job'[u] = job[u] /\ result'[u] = result[u]
  BY <1>1, <1>2, Facts
<1>4. entry \in Apps /\ app \in [Apps -> AppObject] /\ app[entry] \in AppObject
  BY <1>1, <1>2, Facts
<1>5. /\ app'[entry].pods = app[entry].pods
      /\ app'[entry].deployment.rv = app[entry].deployment.rv
  BY <1>1, <1>4 DEF AppObject, Workload
<1>6. CacheOK'
  BY <1>1, <1>5 DEF Serial, SInv, CacheOK, Cached
<1>7. PodsOK' /\ GhostsOK'
  <2>1. \A p : PodSeen(p)' = PodSeen(p)
    BY <1>1, <1>5 DEF PodSeen, Pending, NoEvent
  <2>2. GhostsOK'
    BY <1>1, <1>5, GhostsKept DEF Serial, SInv
  <2> QED BY <1>1, <2>1, <2>2 DEF Serial, SInv, PodsOK
<1>8. JobOK(t)'
  BY <1>1, <1>2, Idle
<1>9. AnswerOK(t)'
  BY <1>1, <1>3 DEF AnswerOK
<1> QED BY <1>0, <1>1, <1>3, <1>6, <1>7, <1>8, <1>9, TakenSerial

\* A task is put back to the queue.
LEMMA Requeued ==
  ASSUME IInv, IInv', Requeue
  PROVE  \A t \in Tasks : InQueue(t)' => InQueue(t)
<1>1. UNCHANGED <<kind, result, job>>
  BY DEF Requeue
<1> QED BY <1>1 DEF IInv, TasksOK, Over, Role

LEMMA RequeueSerial == ASSUME Serial, IInv', Requeue PROVE SInv'
<1>1. /\ UNCHANGED <<mode, kind, result, dbVersion, storeVars, controllers, job, cluster,
                     eventVars, faults>>
      /\ queue # <<>>
  BY DEF Requeue
<1>2. /\ UNCHANGED <<mode, kind, result, dbVersion, synced, entry, app, job>>
      /\ UNCHANGED <<cluster, deployEvents, podEvents, faults>>
  BY <1>1 DEF storeVars, eventVars
<1>3. \A t \in Tasks : InQueue(t)' => InQueue(t)
  BY Requeued DEF Serial
<1>4. VersionsOK' /\ CacheOK' /\ PodsOK' /\ GhostsOK' /\ Rest' = Rest /\ OnlyNew' = OnlyNew
  BY <1>2, Still DEF Serial, SInv
<1>5. \A t \in Tasks : /\ Childless(t)' = Childless(t) /\ ReadySeen(t)' = ReadySeen(t)
                       /\ Patched(t)' = Patched(t)
  BY <1>2, Still
<1>6. SerialOK'
  BY <1>2 DEF Serial, SInv, SerialOK, Over
<1>7. OwnOK'
  BY <1>2, <1>3, <1>5 DEF Serial, SInv, OwnOK, Unborn, Role
<1>8. QueuedOK'
  BY <1>1, <1>2, <1>4 DEF Serial, SInv, QueuedOK, Cached
<1>9. ASSUME NEW t \in Tasks PROVE JobOK(t)'
  <2>1. JobOK(t) /\ Role(t)' = Role(t)
    BY <1>2, Facts DEF Role
  <2>2. RoleOK(t)'
    BY <1>2, <2>1 DEF JobOK, RoleOK
  <2>3. DeleteOK(t)' /\ CreateOK(t)' /\ ReadyOK(t)'
    <3>1. Excused(t)' = Excused(t)
      BY <1>2, <2>1 DEF Excused
    <3> QED BY <1>2, <1>5, <2>1, <3>1 DEF JobOK, DeleteOK, CreateOK, ReadyOK
  <2>4. UpgradeOK(t)'
    BY <1>2, <1>4, <1>5, <2>1 DEF JobOK, UpgradeOK
  <2> QED BY <2>2, <2>3, <2>4 DEF JobOK
<1>10. ASSUME NEW t \in Tasks, Alone(t)' PROVE AnswerOK(t)'
  <2>1. AnswerOK(t) /\ Nothing' = Nothing /\ Gone(0)' = Gone(0) /\ Gone(1)' = Gone(1)
    BY <1>2, <1>10 DEF Serial, SInv, Alone, Nothing, Gone
  <2> QED BY <1>2, <2>1 DEF AnswerOK
<1> QED BY <1>4, <1>6, <1>7, <1>8, <1>9, <1>10 DEF SInv

\* A crash ends all controllers and answers nothing that was not answered.
LEMMA CrashSerial == ASSUME Serial, IInv', Crash PROVE SInv'
<1>1. /\ UNCHANGED <<mode, kind, dbVersion, cluster>> /\ queue' = <<>>
      /\ synced' = FALSE /\ entry' = NoApp /\ deployEvents' = <<>>
      /\ job' = [t \in Tasks |-> NoJob] /\ faults' = faults + 1
      /\ result' = [t \in Tasks |->
           IF ~Over(t) /\ (job[t] # NoJob \/ (queue' # queue /\ t = Head(queue)))
           THEN "lost" ELSE result[t]]
  BY DEF Crash, Serial
<1>2. \A t \in Tasks :
        /\ job'[t] = NoJob /\ Role(t)' = "none" /\ ~InQueue(t)'
        /\ result'[t] \in {"lost", result[t]} /\ (Over(t) => Over(t)')
  <2>1. \A t \in Tasks : ~InQueue(t)'
    BY <1>1 DEF InQueue
  <2> QED BY <1>1, <2>1, IdleType DEF Role, Over
<1>3. SerialOK'
  BY <1>1, <1>2 DEF Serial, SInv, SerialOK
<1>4. VersionsOK'
  <2>1. \A i \in DOMAIN deployEvents' : FALSE
    BY <1>1
  <2> QED BY <1>1, <2>1 DEF Serial, SInv, VersionsOK
<1>5. OwnOK'
  BY <1>1, <1>2 DEF Serial, SInv, OwnOK, Unborn, Childless
<1>6. CacheOK' /\ PodsOK' /\ GhostsOK' /\ QueuedOK'
  BY <1>1 DEF CacheOK, PodsOK, GhostsOK, QueuedOK
<1>7. \A t \in Tasks : JobOK(t)'
  BY <1>2, Idle
<1>8. ASSUME NEW t \in Tasks, Alone(t)' PROVE AnswerOK(t)'
  <2>1. AnswerOK(t) /\ Nothing' = Nothing
    BY <1>1, <1>8 DEF Serial, SInv, Alone, Nothing
  <2>2. entry' # t
    BY <1>1, Numbered
  <2>3. /\ result'[t] = "success" => result[t] = "success"
        /\ result'[t] = "refused" => result[t] = "refused"
    BY <1>2
  <2>4. Gone(0) => Gone(0)'
    <3>1. ~(faults' <= 0)
      BY <1>1, FaultsNat DEF Serial
    <3> QED BY <2>1, <3>1 DEF Gone
  <2>5. kind[t] = "stop" /\ result'[t] \in {"success", "refused"} => Gone(0)'
    BY <2>1, <2>3, <2>4 DEF AnswerOK
  <2> QED BY <1>1, <2>1, <2>2, <2>3, <2>5 DEF AnswerOK
<1> QED BY <1>3, <1>4, <1>5, <1>6, <1>7, <1>8 DEF SInv

LEMMA SyncSerial == ASSUME Serial, FreshOK, IInv', Sync PROVE SInv'
<1>1. /\ UNCHANGED <<mode, kind, dbVersion, queue, result, job, cluster, faults>> /\ ~synced
      /\ deployEvents' = IF cluster.deploy = Nil THEN <<>> ELSE <<cluster.deploy>>
      /\ podEvents' = SetToSeq({[add |-> TRUE, pod |-> p] : p \in cluster.pods})
      /\ entry' = entry \/ (entry' = 0 /\ app' = [app EXCEPT ![0] = CacheApp])
  BY DEF Sync, taskVars
<1>2. queue = <<>> /\ entry = NoApp /\ \A t \in Tasks : job[t] = NoJob
  BY <1>1 DEF Serial, SInv, QueuedOK, FreshOK
<1>3. IInv
  BY DEF Serial
<1>13. entry' = NoApp \/ (entry' = 0 /\ app'[entry'].pods = {} /\ ~app'[entry'].deployment.rv)
  <2>1. CacheApp.pods = {} /\ CacheApp.deployment = Nil
    BY DEF CacheApp, NewApp
  <2>2. 0 \in Apps /\ app \in [Apps -> AppObject]
    BY <1>3, Names, Outside
  <2> QED BY <1>1, <1>2, <2>1, <2>2, NilFields
<1>4. SerialOK'
  BY <1>1 DEF Serial, SInv, SerialOK, Over
<1>5. cluster.deploy # Nil =>
        /\ deployEvents' # <<>> /\ deployEvents'[Len(deployEvents')] = cluster.deploy
        /\ \A i \in DOMAIN deployEvents' : deployEvents'[i] = cluster.deploy
  BY <1>1
<1>6. cluster.deploy = Nil => deployEvents' = <<>> /\ \A i \in DOMAIN deployEvents' : FALSE
  BY <1>1
<1>7. VersionsOK'
  BY <1>1, <1>5, <1>6 DEF Serial, SInv, VersionsOK
<1>8. OwnOK'
  <2>1. \A t \in Tasks : InQueue(t)' <=> InQueue(t)
    BY <1>1, SameQueue
  <2> QED BY <1>1, <2>1 DEF Serial, SInv, OwnOK, Unborn, Childless, Role
<1>9. CacheOK'
  BY <1>1, <1>5, <1>6, <1>13 DEF CacheOK, Cached
<1>10. ASSUME NEW p \in cluster.pods PROVE Pending(TRUE, p)'
  <2> DEFINE ev(x) == [add |-> TRUE, pod |-> x]
             E == {ev(x) : x \in cluster.pods}
             f == [x \in cluster.pods |-> ev(x)]
  <2>1. f \in Surjection(cluster.pods, E)
    <3>1. f \in [cluster.pods -> E] /\ \A e \in E : \E x \in cluster.pods : f[x] = e
      OBVIOUS
    <3> QED BY <3>1, Zenon DEF Surjection
  <2>2. ev(p) \in E /\ podEvents' = SetToSeq(E)
    BY <1>1
  <2>3. \A e \in E : e.pod = p => e = ev(p)
    OBVIOUS
  <2> HIDE DEF E, f
  <2>4. IsFiniteSet(E)
    BY <1>3, <2>1, FS_Surjection, Outside
  <2>5. /\ \E i \in DOMAIN podEvents' : podEvents'[i] = ev(p)
        /\ \A i, k \in DOMAIN podEvents' : podEvents'[i] = podEvents'[k] => i = k
        /\ \A i \in DOMAIN podEvents' : podEvents'[i] \in E
    BY <2>2, <2>4, EachListed
  <2>6. PICK i \in DOMAIN podEvents' : podEvents'[i] = ev(p)
    BY <2>5
  <2>7. DOMAIN podEvents' = 1 .. Len(podEvents')
    <3>1. podEvents' \in Seq([add : BOOLEAN, pod : Pod])
      BY DEF IInv, TypeOK
    <3> QED BY <3>1
  <2>8. \A k \in DOMAIN podEvents' : k > i => k # i
    BY <2>7
  <2>9. \A k \in DOMAIN podEvents' : k > i => podEvents'[k].pod # p
    BY <2>3, <2>5, <2>6, <2>8
  <2> QED BY <2>6, <2>9 DEF Pending
<1>14. PodsOK'
  BY <1>1, <1>10 DEF PodsOK, PodSeen
<1>15. GhostsOK'
  <2> SUFFICES ASSUME NEW p, p \notin cluster.pods PROVE NoEvent(p)'
    BY <1>1, <1>13 DEF GhostsOK, Unseen
  <2> DEFINE E == {[add |-> TRUE, pod |-> x] : x \in cluster.pods}
  <2>1. \A e \in E : e.pod \in cluster.pods
    OBVIOUS
  <2>2. podEvents' \in Seq(E)
    BY <1>1, <1>3, EventsOf, Outside
  <2> HIDE DEF E
  <2>3. \A i \in DOMAIN podEvents' : podEvents'[i] \in E
    BY <2>2
  <2> QED BY <2>1, <2>3 DEF NoEvent
<1>11. QueuedOK' /\ \A t \in Tasks : JobOK(t)'
  BY <1>1, <1>2, Idle DEF QueuedOK
<1>12. ASSUME NEW t \in Tasks, Alone(t)' PROVE AnswerOK(t)'
  <2>1. AnswerOK(t) /\ Nothing' = Nothing /\ Gone(0)' = Gone(0) /\ Gone(1)' = Gone(1)
    BY <1>1, <1>12 DEF Serial, SInv, Alone, Nothing, Gone
  <2>2. entry' = t => entry = t
    BY <1>1, Numbered
  <2> QED BY <1>1, <2>1, <2>2 DEF AnswerOK
<1> QED BY <1>4, <1>7, <1>8, <1>9, <1>11, <1>12, <1>14, <1>15 DEF SInv

-----------------------------------------------------------------------------
\* The invariant

Flags == <<cluster.config, cluster.svc, cluster.hpa, cluster.monitors>>

\* A step of the cluster or the informers.
LEMMA FreshOutside ==
  ASSUME FreshOK, UNCHANGED <<kind, queue, synced, job, Flags>>,
         entry' = entry \/ (entry' = 0 /\ synced)
  PROVE  FreshOK'
<1>1. /\ cluster'.config = cluster.config /\ cluster'.svc = cluster.svc
      /\ cluster'.hpa = cluster.hpa /\ cluster'.monitors = cluster.monitors
  BY DEF Flags
<1>2. \A t \in Tasks : InQueue(t)' <=> InQueue(t)
  BY SameQueue
<1>3. 0 # NoApp /\ \A t \in Tasks : t # 0
  BY Numbered, RuntimeAssumption DEF NoApp
<1> QED BY <1>1, <1>2, <1>3 DEF FreshOK

\* A step of a controller.
LEMMA FreshWork ==
  ASSUME IInv, FreshOK, NEW t \in Tasks, Role(t) # "none", UNCHANGED <<kind, queue, synced>>,
         entry' \in {entry, t}
  PROVE  FreshOK'
<1>1. job[t] # NoJob /\ kind[t] # "none" /\ ~InQueue(t)
  BY IdleType DEF Role, IInv, TasksOK
<1>2. entry # NoApp /\ entry' # NoApp /\ synced
  BY <1>1, Numbered DEF FreshOK
<1>3. \A u \in Tasks : InQueue(u)' <=> InQueue(u)
  BY SameQueue
<1> QED BY <1>1, <1>2, <1>3 DEF FreshOK

\* The first task is taken.
LEMMA FreshTaken ==
  ASSUME IInv, FreshOK, queue # <<>>, queue' = Tail(queue), UNCHANGED <<kind, synced, cluster>>,
         \/ entry' = entry /\ UNCHANGED job
         \/ entry' = entry /\ entry # NoApp
         \/ entry' = Head(queue) /\ synced
  PROVE  FreshOK'
<1>1. \A t \in Tasks : InQueue(t)' <=> InQueue(t) /\ t # Head(queue)
  BY TakeTask DEF IInv, TypeOK
<1>2. Head(queue) \in Tasks /\ kind[Head(queue)] # "none" /\ Head(queue) # NoApp
  <2>1. Head(queue) \in Tasks /\ InQueue(Head(queue))
    BY TakeTask DEF IInv, TypeOK
  <2> QED BY <2>1, Numbered DEF IInv, TasksOK
<1> QED BY <1>1, <1>2 DEF FreshOK

LEMMA NextFresh == IInv /\ FreshOK /\ [Next]_vars => FreshOK'
<1> SUFFICES ASSUME IInv, FreshOK, [Next]_vars PROVE FreshOK'
  OBVIOUS
<1>0. IInv'
  BY NextIInv
<1>1. ASSUME NEW t \in Tasks, NEW k \in Kinds, Submit(t, k) PROVE FreshOK'
  <2>1. /\ kind[t] = "none" /\ kind' = [kind EXCEPT ![t] = k]
        /\ queue' = Append(queue, t) /\ UNCHANGED <<synced, entry, job, cluster>>
    BY <1>1 DEF Submit, storeVars
  <2>2. \A u \in Tasks : u # t => kind'[u] = kind[u]
    BY <2>1 DEF IInv, TypeOK
  <2>3. queue \in Seq(Tasks) /\ ~InQueue(t) /\ Distinct
    BY <2>1 DEF IInv, TypeOK, TasksOK
  <2>4. \A u \in Tasks : InQueue(u)' <=> InQueue(u) \/ u = t
    BY <2>1, <2>3, PutTask
  <2> QED BY <2>1, <2>2, <2>4 DEF FreshOK
<1>2. CASE Exec \/ ExecFails \/ PatchFails \/ RequeueFails
  <2>1. /\ queue # <<>> /\ queue' = Tail(queue) /\ UNCHANGED <<kind, synced, cluster>>
    BY <1>2 DEF Exec, ExecFails, PatchFails, RequeueFails
  <2>2. CASE ExecFails \/ PatchFails \/ RequeueFails
    BY <2>1, <2>2, FreshTaken DEF ExecFails, PatchFails, RequeueFails, Answer
  <2>3. CASE Exec
    <3>1. \/ entry' = entry /\ UNCHANGED job
          \/ entry' = entry /\ entry # NoApp
          \/ entry' = Head(queue)
      BY <2>3 DEF Exec, Answer, startExec, stopExec, rollingUpgradeExec, StartNew
    <3> QED BY <2>1, <2>3, <3>1, FreshTaken DEF Exec
  <2> QED BY <1>2, <2>2, <2>3
<1>3. CASE Requeue
  <2>1. UNCHANGED <<kind, synced, entry, job, cluster>>
    BY <1>3 DEF Requeue, storeVars
  <2> QED BY <1>0, <1>3, <2>1, Requeued DEF FreshOK
<1>4. ASSUME NEW t \in Tasks,
             \/ Controller(t) \/ EarlyCallback(t) \/ PollRefresh(t)
             \/ CreateError(t) \/ DeleteError(t) \/ UpgradeError(t) \/ LoggedError(t)
      PROVE  FreshOK'
  <2>1. job[t].pc # "none"
    BY <1>4 DEF Controller, Begin, EarlyCallback, CreateConfig, CreateDeploy, CreateSvc, CreateHpa, CreateRest,
                DeleteSvc, DeleteConfig, DeleteDeploy, DeletePods, DeleteHpa, DeleteRest, UpgradeConfig,
                Patch, UpgradeSvc, UpgradeRest, PollDone, PollTimeout, RestartRegist, PollRefresh,
                CreateError, DeleteError, UpgradeError, LoggedError, At, Reached, Waiting
  <2>2. Role(t) # "none"
    BY <2>1, AtWork
  <2>3. UNCHANGED <<kind, queue, synced>>
    BY <1>4 DEF Controller, Begin, EarlyCallback, CreateConfig, CreateDeploy, CreateSvc, CreateHpa, CreateRest,
                DeleteSvc, DeleteConfig, DeleteDeploy, DeletePods, DeleteHpa, DeleteRest, UpgradeConfig,
                Patch, UpgradeSvc, UpgradeRest, PollDone, PollTimeout, RestartRegist, PollRefresh,
                CreateError, DeleteError, UpgradeError, LoggedError, taskVars, storeVars
  <2>4. entry' \in {entry, t}
    BY <1>4 DEF Controller, Begin, EarlyCallback, CreateConfig, CreateDeploy, CreateSvc, CreateHpa, CreateRest,
                DeleteSvc, DeleteConfig, DeleteDeploy, DeletePods, DeleteHpa, DeleteRest, UpgradeConfig,
                Patch, UpgradeSvc, UpgradeRest, PollDone, PollTimeout, RestartRegist, PollRefresh,
                CreateError, DeleteError, UpgradeError, LoggedError, storeVars
  <2> QED BY <2>2, <2>3, <2>4, FreshWork
<1>5. CASE \/ PodStarts \/ PodReady \/ \E p \in cluster.pods : PodEnds(p)
           \/ OnDeploy \/ OnPod
  <2>1. /\ UNCHANGED <<kind, queue, synced, job>>
        /\ entry' = entry \/ (entry' = 0 /\ synced)
    BY <1>5 DEF PodStarts, PodReady, PodEnds, OnDeploy, OnPod, taskVars, storeVars
  <2>2. cluster \in ClusterType
    BY Outside
  <2>3. UNCHANGED Flags
    BY <1>5, <2>2 DEF PodStarts, PodReady, PodEnds, OnDeploy, OnPod, ClusterType, Flags
  <2> QED BY <2>1, <2>3, FreshOutside
<1>6. CASE Crash
  <2>1. UNCHANGED kind /\ entry' = NoApp /\ job' = [t \in Tasks |-> NoJob] /\ ~synced'
    BY <1>6 DEF Crash
  <2> QED BY <2>1, Numbered DEF FreshOK
<1>7. CASE Sync
  <2>1. UNCHANGED <<kind, queue, job, cluster>> /\ synced' = TRUE /\ ~synced
    BY <1>7 DEF Sync, taskVars
  <2>2. \A t \in Tasks : InQueue(t)' <=> InQueue(t)
    BY <2>1, SameQueue
  <2>3. 0 # NoApp /\ \A t \in Tasks : t # 0 /\ t # NoApp
    BY Numbered, RuntimeAssumption DEF NoApp
  <2>4. entry = NoApp /\ \A t \in Tasks : job[t] = NoJob
    BY <2>1 DEF FreshOK
  <2>5. /\ entry' \in {NoApp, 0}
        /\ entry' = NoApp => ~cluster.config /\ ~cluster.svc /\ ~cluster.hpa /\ ~cluster.monitors
    BY <1>7, <2>3, <2>4 DEF Sync
  <2> QED BY <2>1, <2>2, <2>3, <2>4, <2>5 DEF FreshOK
<1>8. CASE UNCHANGED vars
  <2>1. UNCHANGED <<kind, queue, synced, entry, job, Flags>>
    BY <1>8 DEF vars, Flags
  <2> QED BY <2>1, FreshOutside
<1> QED BY <1>1, <1>2, <1>3, <1>4, <1>5, <1>6, <1>7, <1>8 DEF Next

LEMMA NextSerial == Serial /\ FreshOK /\ [Next]_vars => SInv'
<1> SUFFICES ASSUME Serial, FreshOK, [Next]_vars PROVE SInv'
  OBVIOUS
<1>0. IInv'
  BY NextIInv DEF Serial
<1>1. ASSUME NEW t \in Tasks, NEW k \in Kinds, Submit(t, k) PROVE SInv'
  BY <1>0, <1>1, SubmitSerial
<1>2. CASE Exec
  BY <1>0, <1>2, ExecSerial
<1>3. CASE ExecFails \/ PatchFails \/ RequeueFails
  BY <1>0, <1>3, LoopFailsSerial, PatchFailsSerial
<1>4. CASE Requeue
  BY <1>0, <1>4, RequeueSerial
<1>5. ASSUME NEW t \in Tasks, Controller(t) PROVE SInv'
  <2>1. CASE Begin(t)
    BY <1>0, <2>1, BeginSerial
  <2>2. CASE CreateConfig(t) \/ DeleteSvc(t) \/ DeleteConfig(t) \/ UpgradeConfig(t) \/ CreateSvc(t)
    <3>1. faults' = faults
      BY <2>2 DEF CreateConfig, DeleteSvc, DeleteConfig, UpgradeConfig, CreateSvc
    <3> QED BY <1>0, <2>2, <3>1, ResourceSerial DEF Resource
  <2>9. CASE CreateHpa(t) \/ DeleteHpa(t) \/ UpgradeSvc(t)
    BY <1>0, <2>9, LastSerial
  <2>3. CASE CreateDeploy(t)
    BY <1>0, <2>3, CreateDeploySerial
  <2>4. CASE DeleteDeploy(t)
    BY <1>0, <2>4, DeleteDeploySerial
  <2>5. CASE DeletePods(t)
    BY <1>0, <2>5, DeletePodsSerial
  <2>6. CASE Patch(t)
    BY <1>0, <2>6, PatchSerial
  <2>7. CASE PollDone(t) \/ PollTimeout(t)
    BY <1>0, <2>7, PollSerial
  <2>8. CASE RestartRegist(t)
    BY <1>0, <2>8, RestartRegistSerial
  <2> QED BY <1>5, <2>1, <2>2, <2>3, <2>4, <2>5, <2>6, <2>7, <2>8, <2>9 DEF Controller
<1>6. ASSUME NEW t \in Tasks,
             \/ EarlyCallback(t) \/ PollRefresh(t)
             \/ CreateError(t) \/ DeleteError(t) \/ UpgradeError(t) \/ LoggedError(t)
      PROVE  SInv'
  BY <1>0, <1>6, BeginSerial, PollRefreshSerial, ErrorSerial, LastSerial
<1>7. CASE PodStarts \/ PodReady \/ \E p \in cluster.pods : PodEnds(p)
  BY <1>0, <1>7, PodStartsSerial, PodReadySerial, PodEndsSerial
<1>8. CASE OnDeploy \/ OnPod
  BY <1>0, <1>8, OnDeploySerial, OnPodSerial
<1>9. CASE Crash \/ Sync
  BY <1>0, <1>9, CrashSerial, SyncSerial
<1>10. CASE UNCHANGED vars
  <2>1. /\ UNCHANGED <<mode, kind, result, dbVersion, queue, synced, entry, app>>
        /\ UNCHANGED <<job, cluster, deployEvents, podEvents, faults>>
    BY <1>10 DEF vars
  <2>2. VersionsOK' /\ CacheOK' /\ PodsOK' /\ GhostsOK' /\ Rest' = Rest /\ OnlyNew' = OnlyNew
    BY <2>1, Still DEF Serial, SInv
  <2>3. \A t \in Tasks : /\ Childless(t)' = Childless(t) /\ ReadySeen(t)' = ReadySeen(t)
                         /\ Patched(t)' = Patched(t)
    BY <2>1, Still
  <2>4. QueuedOK'
    BY <2>1, <2>2 DEF Serial, SInv, QueuedOK, Cached
  <2>5. \A t \in Tasks : UpgradeOK(t)'
    BY <2>1, <2>2, <2>3, Facts DEF JobOK, UpgradeOK, Role
  <2>6. \A t \in Tasks : Role(t) = "start" => ReadySeen(t)'
    BY <2>3, Facts DEF JobOK, ReadyOK
  <2> QED BY <1>0, <2>1, <2>2, <2>4, <2>5, <2>6, OutsideSerial
<1> QED BY <1>1, <1>2, <1>3, <1>4, <1>5, <1>6, <1>7, <1>8, <1>9, <1>10 DEF Next

LEMMA InitSerial == Init => FreshOK /\ SInv
<1> SUFFICES ASSUME Init PROVE FreshOK /\ SInv
  OBVIOUS
<1>1. /\ \A t \in Tasks : kind[t] = "none" /\ job[t] = NoJob
      /\ queue = <<>> /\ deployEvents = <<>> /\ podEvents = <<>> /\ dbVersion = 1 /\ synced = TRUE
  BY DEF Init
<1>2. /\ \A i \in DOMAIN deployEvents : FALSE
      /\ \A i \in DOMAIN podEvents : FALSE
  BY <1>1
<1>3. SerialOK /\ QueuedOK
  BY <1>1 DEF SerialOK, QueuedOK
<1>4. /\ \A t \in Tasks : JobOK(t)
      /\ \A t \in Tasks : Alone(t) => AnswerOK(t)
  BY <1>1, Idle DEF Alone
<1>5. /\ entry \in {0, NoApp} /\ VersionsOK /\ CacheOK /\ PodsOK /\ GhostsOK
      /\ entry = NoApp => ~cluster.config /\ ~cluster.svc /\ ~cluster.hpa /\ ~cluster.monitors
      /\ cluster.deploy.uid = 0 /\ \A p \in cluster.pods : p.uid = 0
  <2> DEFINE d == [uid |-> 0, ver |-> 1, rv |-> TRUE, ready |-> TRUE]
             p == [uid |-> 0, ver |-> 1]
  <2>0. 0 # NoApp /\ 0 \in Apps
    BY Names
  <2>1. CASE entry = NoApp
    <3>1. cluster = [config |-> FALSE, claims |-> FALSE, deploy |-> Nil, svc |-> FALSE,
                        env |-> FALSE, hpa |-> FALSE, monitors |-> FALSE, pods |-> {}]
      BY <2>0, <2>1 DEF Init
    <3>2. /\ cluster.deploy = Nil /\ cluster.pods = {}
          /\ ~cluster.config /\ ~cluster.svc /\ ~cluster.hpa /\ ~cluster.monitors
      BY <3>1
    <3>3. CacheOK /\ GhostsOK
      BY <1>1, <1>2, <2>1, <3>2 DEF CacheOK, Cached, GhostsOK, Unseen, NoEvent
    <3> QED BY <1>1, <1>2, <2>1, <3>2, <3>3, NilFields DEF VersionsOK, Made, PodsOK
  <2>2. CASE entry # NoApp
    <3>1. /\ entry = 0
          /\ app = [a \in Apps |-> IF a = 0 THEN [deployment |-> d, pods |-> {p}, ver |-> 1]
                                   ELSE [NewApp(0) EXCEPT !.deployment = Nil]]
          /\ cluster = [config |-> TRUE, claims |-> HasClaims, deploy |-> d, svc |-> TRUE,
                        env |-> TRUE, hpa |-> TRUE, monitors |-> TRUE, pods |-> {p}]
      BY <2>2 DEF Init
    <3>2. /\ d.uid = 0 /\ d.ver = 1 /\ d.rv /\ p.uid = 0 /\ p.ver = 1
      OBVIOUS
    <3> HIDE DEF d, p
    <3>3. /\ cluster.deploy = d /\ cluster.pods = {p}
          /\ app[0].deployment = d /\ app[0].pods = {p}
      BY <2>0, <3>1
    <3>4. PodSeen(p)
      BY <1>2, <2>2, <3>1, <3>3 DEF PodSeen, NoEvent
    <3>5. CacheOK
      BY <1>1, <2>2, <3>1, <3>2, <3>3, NilFields DEF CacheOK, Cached
    <3>6. GhostsOK
      BY <1>1, <1>2, <2>2, <3>1, <3>3 DEF GhostsOK, Unseen, NoEvent
    <3> QED BY <1>1, <1>2, <2>2, <3>1, <3>2, <3>3, <3>4, <3>5, <3>6 DEF VersionsOK, Made, PodsOK
  <2> QED BY <2>1, <2>2
<1>6. OwnOK
  BY <1>5, Numbered DEF OwnOK, Childless
<1>7. FreshOK
  BY <1>1, <1>5, Numbered DEF FreshOK
<1> QED BY <1>3, <1>4, <1>5, <1>6, <1>7 DEF SInv

LEMMA ModeStays == [Next]_vars => mode' = mode
<1> SUFFICES ASSUME [Next]_vars PROVE mode' = mode
  OBVIOUS
<1> USE DEF taskVars
<1>1. CASE \/ \E t \in Tasks, k \in Kinds : Submit(t, k)
           \/ Exec \/ ExecFails \/ PatchFails \/ Requeue \/ RequeueFails
           \/ PodStarts \/ PodReady \/ \E p \in cluster.pods : PodEnds(p)
           \/ OnDeploy \/ OnPod \/ Crash \/ Sync
  BY <1>1 DEF Submit, Exec, ExecFails, PatchFails, Requeue, RequeueFails, PodStarts, PodReady, PodEnds,
              OnDeploy, OnPod, Crash, Sync
<1>2. ASSUME NEW t \in Tasks,
             \/ Controller(t) \/ EarlyCallback(t) \/ PollRefresh(t)
             \/ CreateError(t) \/ DeleteError(t) \/ UpgradeError(t) \/ LoggedError(t)
      PROVE  mode' = mode
  <2>1. CASE Begin(t) \/ CreateConfig(t) \/ CreateDeploy(t) \/ CreateSvc(t) \/ CreateHpa(t)
    BY <2>1 DEF Begin, CreateConfig, CreateDeploy, CreateSvc, CreateHpa, CreateRest
  <2>2. CASE DeleteSvc(t) \/ DeleteConfig(t) \/ DeleteDeploy(t) \/ DeletePods(t) \/ DeleteHpa(t)
    BY <2>2 DEF DeleteSvc, DeleteConfig, DeleteDeploy, DeletePods, DeleteHpa, DeleteRest
  <2>3. CASE UpgradeConfig(t) \/ Patch(t) \/ UpgradeSvc(t)
    BY <2>3 DEF UpgradeConfig, Patch, UpgradeSvc, UpgradeRest
  <2>4. CASE PollDone(t) \/ PollTimeout(t) \/ RestartRegist(t) \/ EarlyCallback(t) \/ PollRefresh(t)
    BY <2>4 DEF PollDone, PollTimeout, RestartRegist, EarlyCallback, PollRefresh
  <2>5. CASE CreateError(t) \/ DeleteError(t) \/ UpgradeError(t)
    BY <2>5 DEF CreateError, DeleteError, UpgradeError
  <2>6. CASE LoggedError(t)
    BY <2>6 DEF LoggedError, CreateRest, DeleteRest, UpgradeRest
  <2> QED BY <1>2, <2>1, <2>2, <2>3, <2>4, <2>5, <2>6 DEF Controller
<1>3. CASE UNCHANGED vars
  BY <1>3 DEF vars
<1> QED BY <1>1, <1>2, <1>3 DEF Next

LEMMA SerialInvariant == Spec => [](mode # "free" => SInv)
<1> DEFINE J == IInv /\ FreshOK /\ (mode # "free" => SInv)
<1>1. Init => J
  BY InitIInv, InitSerial
<1>2. J /\ [Next]_vars => J'
  BY NextIInv, NextFresh, NextSerial, ModeStays DEF Serial
<1> QED BY <1>1, <1>2, PTL DEF Spec

-----------------------------------------------------------------------------
\* What the answers mean

\* When operations do not overlap, a stop that reports success, one that is refused too,
\* leaves no workload, config maps, services, secrets, ingresses and autoscalers, and
\* without a failed call no monitors; neither an informer nor the rest of an earlier
\* operation brings them back.  Claims and the secrets of environment variables are not
\* part of the statement: stopOne leaves them.
THEOREM StopIsTrue == Spec => []StopMeansGone
<1>1. (mode # "free" => SInv) => StopMeansGone
  <2> SUFFICES ASSUME SInv, NEW t \in Tasks, Alone(t), kind[t] = "stop", Status(t) = "success"
               PROVE  Gone(0)
    BY DEF StopMeansGone, Alone
  <2> QED BY DEF SInv, AnswerOK, Status
<1> QED BY <1>1, SerialInvariant, PTL

\* A start or restart that carried out its work and reports success has made the workload
\* that is there, and a start has seen it ready: what WaitReady polls for is never the
\* ready replica of a workload before it.  A start that was refused, which reports
\* success too, has a ready workload when the service had settled; a refused restart
\* has nothing.
THEOREM StartIsTrue == Spec => []StartMeansOwn
<1>1. (mode # "free" => SInv) => StartMeansOwn
  <2> SUFFICES ASSUME SInv, NEW t \in Tasks, Alone(t), Status(t) = "success"
               PROVE  IF result[t] # "refused"
                      THEN /\ kind[t] \in {"start", "restart"} => cluster.deploy.uid = t
                           /\ kind[t] = "start" => cluster.deploy.ready
                      ELSE /\ kind[t] = "start" /\ mode = "settled"
                                => cluster.deploy # Nil /\ cluster.deploy.ready
                           /\ kind[t] = "restart" => Nothing
    BY DEF StartMeansOwn, Alone
  <2>1. AnswerOK(t)
    BY DEF SInv
  <2>2. CASE result[t] = "refused"
    BY <2>1, <2>2 DEF AnswerOK
  <2>3. CASE result[t] # "refused"
    BY <2>1, <2>3 DEF AnswerOK, Status
  <2> QED BY <2>2, <2>3
<1> QED BY <1>1, SerialInvariant, PTL

\* A start that failed has removed what it made, but for claims and the secrets of
\* environment variables, when errorCallback waits for the pods, and with no other
\* failure nothing of it is left when it is over.
THEOREM FailedStartIsTrue == Spec => []FailedStartMeansGone
<1>1. IInv /\ (mode # "free" => SInv) => FailedStartMeansGone
  <2> SUFFICES ASSUME IInv, SInv, NEW t \in Tasks, Alone(t), kind[t] = "start"
               PROVE  /\ Role(t) = "cleanup" /\ job[t].pc = "closed" => Gone(1)
                      /\ (/\ result[t] = "failure" /\ job[t] = NoJob
                          /\ entry = t /\ faults <= 1) => Gone(1)
    BY DEF FailedStartMeansGone, Alone, At, Role
  <2>1. JobOK(t) /\ AnswerOK(t)
    BY DEF SInv
  <2>2. ASSUME Role(t) = "cleanup", job[t].pc = "closed" PROVE Gone(1)
    <3>1. Nothing /\ (cluster.monitors => Excused(t))
      BY <2>1, <2>2 DEF JobOK, DeleteOK, Deleting, Nothing
    <3>2. Excused(t) => ~(faults <= 1)
      BY <2>2, FaultsNat DEF Excused
    <3> QED BY <3>1, <3>2 DEF Gone
  <2> QED BY <2>1, <2>2 DEF AnswerOK
<1> QED BY <1>1, SerialInvariant, Invariant, PTL

\* An upgrade of a settled service that reported success has left no pod of another
\* version: UpgradeComlete, which looks at the cached pods only, is not fooled by
\* events that are still to come.
THEOREM UpgradeIsTrue == Spec => []UpgradeMeansNew
<1>1. (mode # "free" => SInv) => UpgradeMeansNew
  BY DEF SInv, AnswerOK, UpgradeMeansNew, Alone
<1> QED BY <1>1, SerialInvariant, PTL

=============================================================================
