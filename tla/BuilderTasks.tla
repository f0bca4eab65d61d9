---------------------------- MODULE BuilderTasks ----------------------------
(***************************************************************************)
(* How the builders take build tasks out of the message queue and run them *)
(* (src/builder/discover/discover.go and the exectorManager of             *)
(* src/builder/exector/exector.go).                                        *)
(*                                                                         *)
(* A builder's loop (TaskManager.Do) takes one task after the other and    *)
(* offers it to the executor.  The channel e.tasks counts the tasks that   *)
(* may still be added; a task that finds no room is returned to the queue. *)
(* Every accepted task gets a goroutine (runTask).  A builder that stops   *)
(* returns the tasks it finds in runningTask.                              *)
(*                                                                         *)
(* The queue is the one FifoQueue promises: first in, first out, each      *)
(* message to one consumer, and a failing call can lose one.  A task       *)
(* returned to it is a new message with the same task id.                  *)
(***************************************************************************)
EXTENDS Integers, Sequences, FiniteSets

CONSTANTS
  Builders,   \* builder processes
  Tasks,      \* task ids
  Inbox,      \* the tasks in the order in which the api sends them
  TopicOf,    \* TopicOf[t]: the topic the api sends a task to
  Topic,      \* Topic[b]: the topic a builder is started for
  Limited,    \* tasks that run with concurrencyControl
  MaxConcurrentTask,
  Stoppable,  \* the builders that may be told to stop
  MaxFaults   \* bound on the calls of the queue that fail

\* The topics of builders (mq/client).
BuilderTopic == "builder"
WindowsBuilderTopic == "windows_builder"
Topics == {BuilderTopic, WindowsBuilderTopic}

ASSUME TasksAssumption ==
  /\ Inbox \in Seq(Tasks)
  /\ \A i, j \in DOMAIN Inbox : Inbox[i] = Inbox[j] => i = j
  /\ TopicOf \in [Tasks -> Topics]
  /\ Topic \in [Builders -> Topics]
  /\ Limited \subseteq Tasks
  /\ Stoppable \subseteq Builders

ASSUME BoundsAssumption == MaxConcurrentTask \in Nat \ {0} /\ MaxFaults \in Nat

None == "none"
ASSUME NoneAssumption == None \notin Tasks

VARIABLES
  sent,       \* how many tasks of Inbox the api has sent
  queue,      \* per topic: the tasks that wait
  pc,         \* per builder: place in TaskManager.Do
  task,       \* per builder: the task Do works on
  tasks,      \* per builder: len(e.tasks)
  run,        \* per builder and task: place of its goroutine in runTask
  spc,        \* per builder: place in TaskManager.Stop
  snapshot,   \* per builder: runningTask when Stop began to range over it
  visited,    \* per builder: tasks Range has met
  built,      \* tasks whose build came to its end somewhere
  lost,       \* tasks lost with a failed call of the queue
  dropped,    \* per builder: tasks its process took with it
  faults

vars == <<sent, queue, pc, task, tasks, run, spc, snapshot, visited,
          built, lost, dropped, faults>>

Places == {"loop", "add", "callback", "wait", "returned"}
RunPlaces == {None, "spawned", "stored", "building", "finished", "deferred"}
StopPlaces == {"run", "range", "closing", "exited"}

Alive(b) == spc[b] # "exited"

\* The keys of the sync.Map e.runningTask.
Running(b) == {t \in Tasks : run[b][t] \in {"stored", "building", "finished"}}

Sent == {Inbox[i] : i \in 1 .. sent}

Put(topic, t) == queue' = [queue EXCEPT ![topic] = Append(@, t)]

-----------------------------------------------------------------------------
\* The queue

\* The api sends a task, which the server of the queue gives its id.
Submit ==
  /\ sent < Len(Inbox)
  /\ sent' = sent + 1
  /\ Put(TopicOf[Inbox[sent']], Inbox[sent'])
  /\ UNCHANGED <<pc, task, tasks, run, spc, snapshot, visited, built, lost,
                 dropped, faults>>

\* TaskManager.callback: the task goes into the queue of the topic "builder",
\* whatever the topic it came from, or the call fails, which is only logged.
\* Once t.ctx is cancelled it always fails.
CallbackWorks(b, t) ==
  /\ spc[b] \notin {"closing", "exited"}
  /\ Put(BuilderTopic, t)
  /\ UNCHANGED <<lost, faults>>

CallbackFails(b, t) ==
  /\ lost' = lost \cup {t}
  /\ UNCHANGED queue
  /\ \/ spc[b] = "closing" /\ UNCHANGED faults
     \/ spc[b] # "closing" /\ faults < MaxFaults /\ faults' = faults + 1

Callback(b, t) == CallbackWorks(b, t) \/ CallbackFails(b, t)

-----------------------------------------------------------------------------
\* TaskManager.Do

\* Dequeue answers with the oldest task.
Dequeue(b) ==
  /\ pc[b] = "loop"
  /\ spc[b] = "run"
  /\ queue[Topic[b]] # <<>>
  /\ queue' = [queue EXCEPT ![Topic[b]] = Tail(@)]
  /\ task' = [task EXCEPT ![b] = Head(queue[Topic[b]])]
  /\ pc' = [pc EXCEPT ![b] = "add"]
  /\ UNCHANGED <<sent, tasks, run, spc, snapshot, visited, built, lost,
                 dropped, faults>>

\* Dequeue finds no task until its time is over; Do tries again.
DequeueTimeout(b) ==
  /\ pc[b] = "loop"
  /\ spc[b] = "run"
  /\ queue[Topic[b]] = <<>>
  /\ UNCHANGED vars

\* Dequeue fails after the queue has given the task away, also because Stop
\* cancels it; Do tries again.
DequeueLost(b) ==
  /\ pc[b] = "loop"
  /\ spc[b] \in {"run", "range"}
  /\ queue[Topic[b]] # <<>>
  /\ faults < MaxFaults
  /\ faults' = faults + 1
  /\ queue' = [queue EXCEPT ![Topic[b]] = Tail(@)]
  /\ lost' = lost \cup {Head(queue[Topic[b]])}
  /\ UNCHANGED <<sent, pc, task, tasks, run, spc, snapshot, visited, built,
                 dropped>>

\* Do ends: its context is cancelled, or Dequeue fails with "context canceled"
\* or without a connection (which also stops the server through errChan).
DoReturn(b) ==
  /\ pc[b] = "loop"
  /\ b \in Stoppable
  /\ Alive(b)
  /\ pc' = [pc EXCEPT ![b] = "returned"]
  /\ UNCHANGED <<sent, queue, task, tasks, run, spc, snapshot, visited,
                 built, lost, dropped, faults>>

\* AddTask finds room in e.tasks: RunTask starts a goroutine.
AddTask(b) ==
  /\ pc[b] = "add"
  /\ Alive(b)
  /\ tasks[b] < MaxConcurrentTask
  /\ tasks' = [tasks EXCEPT ![b] = @ + 1]
  /\ run' = [run EXCEPT ![b][task[b]] = "spawned"]
  /\ task' = [task EXCEPT ![b] = None]
  /\ pc' = [pc EXCEPT ![b] = "loop"]
  /\ UNCHANGED <<sent, queue, spc, snapshot, visited, built, lost, dropped,
                 faults>>

\* Fault: the task is returned and run.
AddTaskFull_RunsToo(b) ==
  /\ pc[b] = "add"
  /\ Alive(b)
  /\ tasks[b] >= MaxConcurrentTask
  /\ Callback(b, task[b])
  /\ run' = [run EXCEPT ![b][task[b]] = "spawned"]
  /\ task' = [task EXCEPT ![b] = None]
  /\ pc' = [pc EXCEPT ![b] = "wait"]
  /\ UNCHANGED <<sent, tasks, spc, snapshot, visited, built, dropped>>

\* Fault: the task is not returned.
AddTaskFull_Forgets(b) ==
  /\ pc[b] = "add"
  /\ Alive(b)
  /\ tasks[b] >= MaxConcurrentTask
  /\ task' = [task EXCEPT ![b] = None]
  /\ pc' = [pc EXCEPT ![b] = "wait"]
  /\ UNCHANGED <<sent, queue, tasks, run, spc, snapshot, visited, built,
                 lost, dropped, faults>>

\* AddTask finds no room and returns the task to the queue.
AddTaskFull(b) ==
  /\ pc[b] = "add"
  /\ Alive(b)
  /\ tasks[b] >= MaxConcurrentTask
  /\ Callback(b, task[b])
  /\ task' = [task EXCEPT ![b] = None]
  /\ pc' = [pc EXCEPT ![b] = "wait"]
  /\ UNCHANGED <<sent, tasks, run, spc, snapshot, visited, built, dropped>>

\* Then it waits for room.
AddTaskWait(b) ==
  /\ pc[b] = "wait"
  /\ Alive(b)
  /\ tasks[b] < MaxConcurrentTask
  /\ pc' = [pc EXCEPT ![b] = "loop"]
  /\ UNCHANGED <<sent, queue, task, tasks, run, spc, snapshot, visited,
                 built, lost, dropped, faults>>

-----------------------------------------------------------------------------
\* The goroutine of a task: runTask and runTaskWithErr

Move(b, t, from, to) ==
  /\ Alive(b)
  /\ run[b][t] = from
  /\ run' = [run EXCEPT ![b][t] = to]

LeaveTasks(b) == tasks' = [tasks EXCEPT ![b] = @ - 1]

RunTask(b, t) ==
  /\ Move(b, t, "spawned", "stored")
  /\ UNCHANGED <<sent, queue, pc, task, tasks, spc, snapshot, visited,
                 built, lost, dropped, faults>>

\* Without concurrencyControl the room is given back before the build.
BuildStart(b, t) ==
  /\ Move(b, t, "stored", "building")
  /\ IF t \in Limited THEN UNCHANGED tasks ELSE LeaveTasks(b)
  /\ UNCHANGED <<sent, queue, pc, task, spc, snapshot, visited, built, lost,
                 dropped, faults>>

\* f(task) returns, with the build done or given up.
BuildEnd(b, t) ==
  /\ Move(b, t, "building", "finished")
  /\ built' = built \cup {t}
  /\ UNCHANGED <<sent, queue, pc, task, tasks, spc, snapshot, visited, lost,
                 dropped, faults>>

DeleteRunning(b, t) ==
  /\ Move(b, t, "finished", IF t \in Limited THEN "deferred" ELSE None)
  /\ UNCHANGED <<sent, queue, pc, task, tasks, spc, snapshot, visited,
                 built, lost, dropped, faults>>

\* Fault: the room is never given back.
DeferredLeave_Never(b, t) ==
  /\ Move(b, t, "deferred", None)
  /\ UNCHANGED <<sent, queue, pc, task, tasks, spc, snapshot, visited,
                 built, lost, dropped, faults>>

\* The deferred <-e.tasks of a task with concurrencyControl.
DeferredLeave(b, t) ==
  /\ Move(b, t, "deferred", None)
  /\ LeaveTasks(b)
  /\ UNCHANGED <<sent, queue, pc, task, spc, snapshot, visited, built, lost,
                 dropped, faults>>

-----------------------------------------------------------------------------
\* TaskManager.Stop

\* discoverCancel, then exec.Stop begins to range over runningTask.
Stop(b) ==
  /\ b \in Stoppable
  /\ spc[b] = "run"
  /\ spc' = [spc EXCEPT ![b] = "range"]
  /\ snapshot' = [snapshot EXCEPT ![b] = Running(b)]
  /\ UNCHANGED <<sent, queue, pc, task, tasks, run, visited, built, lost,
                 dropped, faults>>

\* Range meets a task and returns it to the queue; its goroutine runs on.
Recycle(b, t) ==
  /\ spc[b] = "range"
  /\ t \in Running(b) \ visited[b]
  /\ Callback(b, t)
  /\ visited' = [visited EXCEPT ![b] = @ \cup {t}]
  /\ UNCHANGED <<sent, pc, task, tasks, run, spc, snapshot, built, dropped>>

\* Fault: the function given to Range returns false.
RangeEnd_First(b) ==
  /\ spc[b] = "range"
  /\ snapshot[b] \cap Running(b) = {} \/ visited[b] # {}
  /\ spc' = [spc EXCEPT ![b] = "closing"]
  /\ UNCHANGED <<sent, queue, pc, task, tasks, run, snapshot, visited,
                 built, lost, dropped, faults>>

\* Range has met every task that was in the map all the time; it may have met
\* tasks that were stored meanwhile.  callbackChan is empty, because AddTask
\* only fails without a callback; t.cancel follows.
RangeEnd(b) ==
  /\ spc[b] = "range"
  /\ snapshot[b] \cap Running(b) \subseteq visited[b]
  /\ spc' = [spc EXCEPT ![b] = "closing"]
  /\ UNCHANGED <<sent, queue, pc, task, tasks, run, snapshot, visited,
                 built, lost, dropped, faults>>

\* The tasks a builder has in hand and has neither built nor returned.
Held(b) ==
  {t \in Tasks : task[b] = t \/ run[b][t] \in {"spawned", "stored", "building"}}
    \ visited[b]

\* The process ends, and all its goroutines with it.
Exit(b) ==
  /\ spc[b] = "closing"
  /\ spc' = [spc EXCEPT ![b] = "exited"]
  /\ dropped' = [dropped EXCEPT ![b] = Held(b)]
  /\ run' = [run EXCEPT ![b] = [t \in Tasks |-> None]]
  /\ task' = [task EXCEPT ![b] = None]
  /\ pc' = [pc EXCEPT ![b] = "returned"]
  /\ tasks' = [tasks EXCEPT ![b] = 0]
  /\ UNCHANGED <<sent, queue, snapshot, visited, built, lost, faults>>

-----------------------------------------------------------------------------
Init ==
  /\ sent = 0
  /\ queue = [p \in Topics |-> <<>>]
  /\ pc = [b \in Builders |-> "loop"]
  /\ task = [b \in Builders |-> None]
  /\ tasks = [b \in Builders |-> 0]
  /\ run = [b \in Builders |-> [t \in Tasks |-> None]]
  /\ spc = [b \in Builders |-> "run"]
  /\ snapshot = [b \in Builders |-> {}]
  /\ visited = [b \in Builders |-> {}]
  /\ built = {}
  /\ lost = {}
  /\ dropped = [b \in Builders |-> {}]
  /\ faults = 0

DoStep(b) == Dequeue(b) \/ AddTask(b) \/ AddTaskFull(b) \/ AddTaskWait(b)

RunStep(b, t) ==
  \/ RunTask(b, t)
  \/ BuildStart(b, t)
  \/ BuildEnd(b, t)
  \/ DeleteRunning(b, t)
  \/ DeferredLeave(b, t)

StopStep(b) == RangeEnd(b) \/ Exit(b) \/ \E t \in Tasks : Recycle(b, t)

Next ==
  \/ Submit
  \/ \E b \in Builders :
       \/ DoStep(b)
       \/ DequeueTimeout(b)
       \/ DequeueLost(b)
       \/ DoReturn(b)
       \/ Stop(b)
       \/ StopStep(b)
       \/ \E t \in Tasks : RunStep(b, t)

Fairness ==
  \A b \in Builders :
    /\ WF_vars(DoStep(b))
    /\ WF_vars(StopStep(b))
    /\ \A t \in Tasks : WF_vars(RunStep(b, t))

Spec == Init /\ [][Next]_vars
FairSpec == Spec /\ Fairness

-----------------------------------------------------------------------------
\* Properties

TypeOK ==
  /\ sent \in 0 .. Len(Inbox)
  /\ queue \in [Topics -> Seq(Tasks)]
  /\ pc \in [Builders -> Places]
  /\ task \in [Builders -> Tasks \cup {None}]
  /\ tasks \in [Builders -> 0 .. MaxConcurrentTask]
  /\ run \in [Builders -> [Tasks -> RunPlaces]]
  /\ spc \in [Builders -> StopPlaces]
  /\ snapshot \in [Builders -> SUBSET Tasks]
  /\ visited \in [Builders -> SUBSET Tasks]
  /\ built \subseteq Tasks
  /\ lost \subseteq Tasks
  /\ dropped \in [Builders -> SUBSET Tasks]
  /\ faults \in 0 .. MaxFaults

Building(b) == {t \in Tasks : run[b][t] = "building"}

\* "The maximum number of concurrent build tasks": although a goroutine takes
\* any element out of e.tasks, not its own, no more builds with
\* concurrencyControl run at a time.
BoundedBuilds ==
  \A b \in Builders : Cardinality(Building(b) \cap Limited) <= MaxConcurrentTask

\* Two builders build a task at the same time only when one of them returned it
\* on its way to the end.
BuiltByOne ==
  \A b, c \in Builders : \A t \in Building(b) \cap Building(c) :
    b = c \/ t \in visited[b] \cup visited[c]

InQueue(t) == \E p \in Topics : \E i \in DOMAIN queue[p] : queue[p][i] = t

\* A task that was sent waits, is in the hands of a builder or was built, unless
\* a call of the queue failed or a process took it along.
NoTaskVanishes ==
  \A t \in Sent :
    \/ InQueue(t)
    \/ t \in built \cup lost
    \/ \E b \in Builders : t \in Held(b) \cup dropped[b]

\* "Recycle all ongoing tasks": a builder that ends takes only tasks along that
\* had not reached runningTask when it began to stop.
StopRecycles == \A b \in Builders : dropped[b] \cap snapshot[b] = {}

\* A task that was sent is built in the end: waiting for room does not last
\* forever and a returned task is not returned again and again.
EventuallyBuilt ==
  \A t \in Tasks :
    t \in Sent ~> (t \in built \cup lost \/ \E b \in Builders : t \in dropped[b])
=============================================================================
