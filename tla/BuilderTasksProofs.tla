------------------------- MODULE BuilderTasksProofs -------------------------
(***************************************************************************)
(* Proofs about BuilderTasks, for any number of builders, tasks and        *)
(* failures, any room for builds and any assignment of topics.             *)
(***************************************************************************)
EXTENDS BuilderTasks, FiniteSetTheorems, TLAPS

\* A task waits at most once, in one topic.
Distinct ==
  \A p, q \in Topics : \A i \in DOMAIN queue[p], j \in DOMAIN queue[q] :
    queue[p][i] = queue[q][j] => p = q /\ i = j

\* Only builders that returned the task still have a goroutine for it.
Free(t) == \A b \in Builders : run[b][t] # None => t \in visited[b]

\* A task that waits is in nobody's hands.
QueueOK ==
  \A t \in Tasks : InQueue(t) => Free(t) /\ \A b \in Builders : task[b] # t

\* A task in the hands of a builder's loop is in no other hands.
HandOK ==
  \A b \in Builders :
    /\ pc[b] = "add" <=> task[b] # None
    /\ task[b] # None =>
         /\ Free(task[b])
         /\ run[b][task[b]] = None
         /\ task[b] \notin visited[b]
         /\ \A c \in Builders : task[c] = task[b] => c = b

\* Of two goroutines for a task one belongs to a builder that returned it.
RunOK ==
  \A b, c \in Builders : \A t \in Tasks :
    run[b][t] # None /\ run[c][t] # None => b = c \/ t \in visited[b] \cup visited[c]

\* Only tasks that were sent are anywhere.
SentOK ==
  \A t \in Tasks :
    InQueue(t) \/ (\E b \in Builders : task[b] = t \/ run[b][t] # None) => t \in Sent

\* A builder that does not stop has returned nothing on the way out.  One that
\* stops keeps no task of the snapshot that it could still take along.
StopOK ==
  \A b \in Builders :
    /\ spc[b] = "run" => visited[b] = {} /\ snapshot[b] = {}
    /\ spc[b] # "exited" => dropped[b] = {}
    /\ \A t \in snapshot[b] : task[b] # t /\ run[b][t] # "spawned"
    /\ spc[b] \in {"closing", "exited"} => snapshot[b] \cap Running(b) \subseteq visited[b]

\* The tasks that have put an element into e.tasks and not taken one out.
Room(b) ==
  {t \in Tasks : \/ run[b][t] \in {"spawned", "stored"}
                 \/ t \in Limited /\ run[b][t] # None}

\* The length of e.tasks, and who defers taking an element out.
RoomOK ==
  \A b \in Builders :
    /\ IsFiniteSet(Room(b)) /\ tasks[b] = Cardinality(Room(b))
    /\ \A t \in Tasks : run[b][t] = "deferred" => t \in Limited

IInv ==
  /\ TypeOK
  /\ Distinct
  /\ QueueOK
  /\ HandOK
  /\ RunOK
  /\ SentOK
  /\ StopOK
  /\ RoomOK
  /\ NoTaskVanishes
  /\ StopRecycles

-----------------------------------------------------------------------------
\* The queue

\* A task that does not wait yet can be put behind the others.
LEMMA PutTask ==
  ASSUME NEW p \in Topics, NEW x \in Tasks,
         queue \in [Topics -> Seq(Tasks)], Distinct, ~InQueue(x), Put(p, x)
  PROVE  /\ queue' \in [Topics -> Seq(Tasks)]
         /\ Distinct'
         /\ \A t \in Tasks : InQueue(t)' <=> InQueue(t) \/ t = x
<1>1. queue' = [queue EXCEPT ![p] = Append(@, x)]
  BY DEF Put
<1>2. queue' \in [Topics -> Seq(Tasks)]
  BY <1>1
<1>3. /\ DOMAIN queue'[p] = 1 .. Len(queue[p]) + 1
      /\ queue'[p][Len(queue[p]) + 1] = x
      /\ \A i \in DOMAIN queue[p] : queue'[p][i] = queue[p][i]
      /\ DOMAIN queue[p] = 1 .. Len(queue[p])
      /\ Len(queue[p]) \in Nat
  BY <1>1
<1>4. \A q \in Topics : q # p => queue'[q] = queue[q]
  BY <1>1
<1>5. \A q \in Topics : \A i \in DOMAIN queue[q] : queue[q][i] # x
  BY DEF InQueue
<1>6. ASSUME NEW q \in Topics, NEW i \in DOMAIN queue'[q],
             ~(q = p /\ i = Len(queue[p]) + 1)
      PROVE  i \in DOMAIN queue[q] /\ queue'[q][i] = queue[q][i]
  <2>1. CASE q # p
    BY <2>1, <1>4
  <2>2. CASE q = p
    <3>1. i \in 1 .. Len(queue[p]) + 1 /\ i # Len(queue[p]) + 1
      BY <2>2, <1>3, <1>6
    <3>2. i \in DOMAIN queue[p]
      BY <3>1, <1>3
    <3> QED
      BY <3>2, <2>2, <1>3
  <2> QED
    BY <2>1, <2>2
<1>7. Distinct'
  <2> SUFFICES ASSUME NEW q \in Topics, NEW r \in Topics,
                      NEW i \in DOMAIN queue'[q], NEW j \in DOMAIN queue'[r],
                      queue'[q][i] = queue'[r][j]
               PROVE  q = r /\ i = j
    BY DEF Distinct
  <2>1. CASE q = p /\ i = Len(queue[p]) + 1
    BY <2>1, <1>3, <1>4, <1>5
  <2>2. CASE r = p /\ j = Len(queue[p]) + 1
    BY <2>2, <1>3, <1>4, <1>5
  <2>3. CASE ~(q = p /\ i = Len(queue[p]) + 1) /\ ~(r = p /\ j = Len(queue[p]) + 1)
    <3>1. i \in DOMAIN queue[q] /\ queue'[q][i] = queue[q][i]
      BY <2>3, <1>6
    <3>2. j \in DOMAIN queue[r] /\ queue'[r][j] = queue[r][j]
      BY <2>3, <1>6
    <3>3. queue[q][i] = queue[r][j]
      BY <3>1, <3>2
    <3> QED
      BY <3>1, <3>2, <3>3 DEF Distinct
  <2> QED
    BY <2>1, <2>2, <2>3
<1>8. ASSUME NEW t \in Tasks PROVE InQueue(t)' <=> InQueue(t) \/ t = x
  <2>1. ASSUME InQueue(t) PROVE InQueue(t)'
    <3>1. PICK q \in Topics : \E i \in DOMAIN queue[q] : queue[q][i] = t
      BY <2>1 DEF InQueue
    <3>2. PICK i \in DOMAIN queue[q] : queue[q][i] = t
      BY <3>1
    <3>3. i \in DOMAIN queue'[q] /\ queue'[q][i] = t
      <4>1. CASE q # p
        BY <4>1, <3>2, <1>4
      <4>2. CASE q = p
        BY <4>2, <3>2, <1>3
      <4> QED
        BY <4>1, <4>2
    <3> QED
      BY <3>3 DEF InQueue
  <2>2. InQueue(x)'
    BY <1>3 DEF InQueue
  <2>3. ASSUME InQueue(t)' PROVE InQueue(t) \/ t = x
    <3>1. PICK q \in Topics : \E i \in DOMAIN queue'[q] : queue'[q][i] = t
      BY <2>3 DEF InQueue
    <3>2. PICK i \in DOMAIN queue'[q] : queue'[q][i] = t
      BY <3>1
    <3>3. CASE q = p /\ i = Len(queue[p]) + 1
      BY <3>3, <3>2, <1>3
    <3>4. CASE ~(q = p /\ i = Len(queue[p]) + 1)
      BY <3>4, <3>2, <1>6 DEF InQueue
    <3> QED
      BY <3>3, <3>4
  <2> QED
    BY <2>1, <2>2, <2>3
<1> QED
  BY <1>2, <1>7, <1>8

\* The first task of a topic leaves the queue, and with it its only place.
LEMMA TakeTask ==
  ASSUME NEW p \in Topics,
         queue \in [Topics -> Seq(Tasks)], Distinct, queue[p] # <<>>,
         queue' = [queue EXCEPT ![p] = Tail(@)]
  PROVE  /\ queue' \in [Topics -> Seq(Tasks)]
         /\ Distinct'
         /\ Head(queue[p]) \in Tasks
         /\ InQueue(Head(queue[p]))
         /\ \A t \in Tasks : InQueue(t)' <=> InQueue(t) /\ t # Head(queue[p])
<1>1. queue' \in [Topics -> Seq(Tasks)]
  OBVIOUS
<1>2. /\ DOMAIN queue[p] = 1 .. Len(queue[p])
      /\ Len(queue[p]) \in Nat /\ Len(queue[p]) > 0
      /\ Head(queue[p]) = queue[p][1]
      /\ DOMAIN queue'[p] = 1 .. Len(queue[p]) - 1
      /\ \A i \in DOMAIN queue'[p] : queue'[p][i] = queue[p][i + 1]
  OBVIOUS
<1>3. \A q \in Topics : q # p => queue'[q] = queue[q]
  OBVIOUS
<1>4. Head(queue[p]) \in Tasks
  BY <1>2
<1>5. InQueue(Head(queue[p]))
  BY <1>2 DEF InQueue
<1>6. Distinct'
  <2> SUFFICES ASSUME NEW q \in Topics, NEW r \in Topics,
                      NEW i \in DOMAIN queue'[q], NEW j \in DOMAIN queue'[r],
                      queue'[q][i] = queue'[r][j]
               PROVE  q = r /\ i = j
    BY DEF Distinct
  <2> DEFINE k(s, n) == IF s = p THEN n + 1 ELSE n
  <2>1. k(q, i) \in DOMAIN queue[q] /\ queue[q][k(q, i)] = queue'[q][i]
    BY <1>2, <1>3
  <2>2. k(r, j) \in DOMAIN queue[r] /\ queue[r][k(r, j)] = queue'[r][j]
    BY <1>2, <1>3
  <2>3. q = r /\ k(q, i) = k(r, j)
    BY <2>1, <2>2 DEF Distinct
  <2> QED
    BY <2>3, <1>2
<1>7. ASSUME NEW t \in Tasks
      PROVE  InQueue(t)' <=> InQueue(t) /\ t # Head(queue[p])
  <2>1. ASSUME InQueue(t)' PROVE InQueue(t) /\ t # Head(queue[p])
    <3>1. PICK q \in Topics : \E i \in DOMAIN queue'[q] : queue'[q][i] = t
      BY <2>1 DEF InQueue
    <3>2. PICK i \in DOMAIN queue'[q] : queue'[q][i] = t
      BY <3>1
    <3>3. PICK k \in DOMAIN queue[q] : queue[q][k] = t /\ (q = p => k # 1)
      <4>1. CASE q # p
        BY <4>1, <3>2, <1>3
      <4>2. CASE q = p
        <5>1. i + 1 \in DOMAIN queue[p] /\ i + 1 # 1
          BY <4>2, <1>2
        <5>2. queue[p][i + 1] = t
          BY <4>2, <3>2, <1>2
        <5> QED
          BY <5>1, <5>2, <4>2
      <4> QED
        BY <4>1, <4>2
    <3>4. t # queue[p][1]
      BY <3>3, <1>2 DEF Distinct
    <3> QED
      BY <3>3, <3>4, <1>2 DEF InQueue
  <2>2. ASSUME InQueue(t), t # Head(queue[p]) PROVE InQueue(t)'
    <3>1. PICK q \in Topics : \E i \in DOMAIN queue[q] : queue[q][i] = t
      BY <2>2 DEF InQueue
    <3>2. PICK i \in DOMAIN queue[q] : queue[q][i] = t
      BY <3>1
    <3>3. \E k \in DOMAIN queue'[q] : queue'[q][k] = t
      <4>1. CASE q = p
        <5>1. i # 1 /\ i - 1 \in DOMAIN queue'[p]
          BY <4>1, <3>2, <2>2, <1>2
        <5>2. queue'[p][i - 1] = queue[p][i]
          BY <5>1, <4>1, <1>2
        <5> QED
          BY <5>1, <5>2, <4>1, <3>2
      <4>2. CASE q # p
        BY <4>2, <3>2, <1>3
      <4> QED
        BY <4>1, <4>2
    <3> QED
      BY <3>3 DEF InQueue
  <2> QED
    BY <2>1, <2>2
<1> QED
  BY <1>1, <1>4, <1>5, <1>6, <1>7

\* The queue stays as it is.
LEMMA SameQueue ==
  ASSUME UNCHANGED queue
  PROVE  /\ Distinct <=> Distinct'
         /\ \A t \in Tasks : InQueue(t)' <=> InQueue(t)
BY DEF Distinct, InQueue

\* The topic tasks are returned to is one of the queue's.
LEMMA BuilderTopicIsTopic == BuilderTopic \in Topics
BY DEF Topics

\* A returned task waits again or is lost.
LEMMA CallbackQueue ==
  ASSUME NEW b \in Builders, NEW x \in Tasks,
         TypeOK, Distinct, ~InQueue(x), Callback(b, x)
  PROVE  /\ queue' \in [Topics -> Seq(Tasks)]
         /\ Distinct'
         /\ \A t \in Tasks : InQueue(t) => InQueue(t)'
         /\ \A t \in Tasks : InQueue(t)' => InQueue(t) \/ t = x
         /\ lost \subseteq lost' /\ lost' \subseteq Tasks /\ faults' \in 0 .. MaxFaults
         /\ InQueue(x)' \/ x \in lost'
<1>1. CASE CallbackWorks(b, x)
  <2>1. Put(BuilderTopic, x) /\ UNCHANGED <<lost, faults>>
    BY <1>1 DEF CallbackWorks
  <2> QED
    BY <2>1, PutTask, BuilderTopicIsTopic DEF TypeOK
<1>2. CASE CallbackFails(b, x)
  <2>1. UNCHANGED queue /\ lost' = lost \cup {x}
    BY <1>2 DEF CallbackFails
  <2>2. faults' \in 0 .. MaxFaults
    BY <1>2, BoundsAssumption DEF CallbackFails, TypeOK
  <2> QED
    BY <2>1, <2>2, SameQueue DEF TypeOK
<1> QED
  BY <1>1, <1>2 DEF Callback

\* What was sent are tasks.
LEMMA SentIsTasks == TypeOK => Sent \subseteq Tasks
<1> SUFFICES ASSUME TypeOK, NEW i \in 1 .. sent PROVE Inbox[i] \in Tasks
  BY DEF Sent
<1>1. sent \in 0 .. Len(Inbox) /\ Len(Inbox) \in Nat
  BY TasksAssumption DEF TypeOK
<1> QED
  BY <1>1, TasksAssumption

\* Only Submit sends.
LEMMA SameSent == ASSUME UNCHANGED sent PROVE Sent' = Sent
BY DEF Sent

-----------------------------------------------------------------------------
\* The initial state satisfies every part of the invariant.
LEMMA InitInv == Init => IInv
<1> SUFFICES ASSUME Init PROVE IInv
  OBVIOUS
<1> USE TasksAssumption, BoundsAssumption, NoneAssumption DEF Init
<1>1. TypeOK
  BY DEF TypeOK, Places, RunPlaces, StopPlaces
<1>2. Distinct /\ \A t \in Tasks : ~InQueue(t)
  BY DEF Distinct, InQueue
<1>3. QueueOK
  BY <1>2 DEF QueueOK
<1>4. HandOK
  BY DEF HandOK, Free
<1>5. RunOK
  BY DEF RunOK
<1>6. SentOK
  BY <1>2 DEF SentOK
<1>7. StopOK
  BY DEF StopOK, Running
<1>8. RoomOK
  <2>1. \A b \in Builders : Room(b) = {}
    BY DEF Room, None
  <2> QED
    BY <2>1, FS_EmptySet DEF RoomOK, None
<1>9. NoTaskVanishes
  BY DEF NoTaskVanishes, Sent
<1>10. StopRecycles
  BY DEF StopRecycles
<1> QED
  BY <1>1, <1>2, <1>3, <1>4, <1>5, <1>6, <1>7, <1>8, <1>9, <1>10 DEF IInv

-----------------------------------------------------------------------------
\* A task that is sent is new: it was nowhere before.
LEMMA SubmitInv == IInv /\ Submit => IInv'
<1> SUFFICES ASSUME IInv, Submit PROVE IInv'
  OBVIOUS
<1> USE TasksAssumption, BoundsAssumption, NoneAssumption
<1> DEFINE x == Inbox[sent + 1]
<1>1. /\ sent \in Nat /\ sent < Len(Inbox) /\ sent' = sent + 1
      /\ Len(Inbox) \in Nat /\ DOMAIN Inbox = 1 .. Len(Inbox)
  BY DEF IInv, TypeOK, Submit
<1>2. x \in Tasks /\ x \notin Sent /\ Sent' = Sent \cup {x}
  <2>1. x \in Tasks
    BY <1>1
  <2>2. \A i \in 1 .. sent : Inbox[i] # x
    BY <1>1
  <2>3. x \notin Sent
    BY <2>2 DEF Sent
  <2>4. 1 .. sent' = 1 .. sent \cup {sent + 1}
    BY <1>1
  <2> QED
    BY <2>1, <2>3, <2>4 DEF Sent
<1>3. ~InQueue(x) /\ \A b \in Builders : task[b] # x /\ run[b][x] = None
  BY <1>2 DEF IInv, SentOK
<1>4. TopicOf[x] \in Topics /\ Put(TopicOf[x], x)
  BY <1>1, <1>2 DEF Submit
<1> HIDE DEF x
<1>5. /\ queue' \in [Topics -> Seq(Tasks)]
      /\ Distinct'
      /\ \A t \in Tasks : InQueue(t)' <=> InQueue(t) \/ t = x
  BY <1>2, <1>3, <1>4, PutTask DEF IInv, TypeOK
<1>6. UNCHANGED <<pc, task, tasks, run, spc, snapshot, visited, built, lost, dropped, faults>>
  BY DEF Submit
<1>7. TypeOK'
  BY <1>1, <1>5, <1>6 DEF IInv, TypeOK
<1>8. QueueOK'
  BY <1>3, <1>5, <1>6 DEF IInv, QueueOK, Free
<1>9. HandOK'
  BY <1>6 DEF IInv, HandOK, Free
<1>10. RunOK'
  BY <1>6 DEF IInv, RunOK
<1>11. SentOK'
  BY <1>2, <1>5, <1>6 DEF IInv, SentOK
<1>12. StopOK' /\ StopRecycles'
  BY <1>6 DEF IInv, StopOK, Running, StopRecycles
<1>13. RoomOK'
  BY <1>6 DEF IInv, RoomOK, Room
<1>14. NoTaskVanishes'
  <2>1. \A b \in Builders : Held(b)' = Held(b)
    BY <1>6 DEF Held
  <2> QED
    BY <1>2, <1>5, <1>6, <2>1, SentIsTasks DEF IInv, NoTaskVanishes
<1> QED
  BY <1>5, <1>7, <1>8, <1>9, <1>10, <1>11, <1>12, <1>13, <1>14 DEF IInv

\* The oldest task goes from the queue into the hands of a loop, or is lost.
LEMMA DequeueInv ==
  ASSUME NEW b \in Builders, IInv, Dequeue(b) \/ DequeueLost(b)
  PROVE  IInv'
<1> USE TasksAssumption, BoundsAssumption, NoneAssumption
<1> DEFINE x == Head(queue[Topic[b]])
<1>1. /\ Topic[b] \in Topics
      /\ queue[Topic[b]] # <<>>
      /\ queue' = [queue EXCEPT ![Topic[b]] = Tail(@)]
      /\ pc[b] = "loop"
  BY DEF Dequeue, DequeueLost
<1>2. /\ queue' \in [Topics -> Seq(Tasks)]
      /\ Distinct'
      /\ x \in Tasks
      /\ InQueue(x)
      /\ \A t \in Tasks : InQueue(t)' <=> InQueue(t) /\ t # x
  BY <1>1, TakeTask DEF IInv, TypeOK
<1>3. Free(x) /\ \A c \in Builders : task[c] # x
  BY <1>2 DEF IInv, QueueOK
<1>4. UNCHANGED <<sent, tasks, run, spc, snapshot, visited, built, dropped>>
  BY DEF Dequeue, DequeueLost
<1>5. RunOK' /\ RoomOK'
  BY <1>4 DEF IInv, RunOK, RoomOK, Room
<1>6. StopRecycles'
  BY <1>4 DEF IInv, StopRecycles
<1>7. CASE Dequeue(b)
  <2>1. /\ task' = [task EXCEPT ![b] = x]
        /\ pc' = [pc EXCEPT ![b] = "add"]
        /\ spc[b] = "run"
        /\ UNCHANGED <<lost, faults>>
    BY <1>7 DEF Dequeue
  <2> HIDE DEF x
  <2>2. visited[b] = {} /\ snapshot[b] = {}
    BY <2>1 DEF IInv, StopOK
  <2>3. TypeOK'
    BY <1>2, <1>4, <2>1 DEF IInv, TypeOK, Places
  <2>4. QueueOK'
    BY <1>2, <1>4, <2>1 DEF IInv, TypeOK, QueueOK, Free
  <2>5. run[b][x] = None
    BY <1>3, <2>2 DEF Free
  <2>6. HandOK'
    BY <1>2, <1>3, <1>4, <2>1, <2>2, <2>5 DEF IInv, TypeOK, HandOK, Free
  <2>7. SentOK'
    BY <1>2, <1>4, <2>1 DEF IInv, TypeOK, SentOK, Sent
  <2>8. StopOK'
    BY <1>4, <2>1, <2>2 DEF IInv, TypeOK, StopOK, Running
  <2>9. NoTaskVanishes'
    <3>1. x \in Held(b)'
      BY <1>2, <1>4, <2>1, <2>2 DEF IInv, TypeOK, Held
    <3>2. \A c \in Builders : Held(c) \subseteq Held(c)'
      BY <1>1, <1>4, <2>1 DEF IInv, TypeOK, HandOK, Held
    <3> QED
      BY <1>2, <1>4, <2>1, <3>1, <3>2, SameSent, SentIsTasks DEF IInv, NoTaskVanishes
  <2> QED
    BY <1>2, <1>5, <1>6, <2>3, <2>4, <2>6, <2>7, <2>8, <2>9 DEF IInv
<1>8. CASE DequeueLost(b)
  <2>1. /\ lost' = lost \cup {x}
        /\ faults < MaxFaults /\ faults' = faults + 1
        /\ UNCHANGED <<task, pc>>
    BY <1>8 DEF DequeueLost
  <2> HIDE DEF x
  <2>2. TypeOK'
    BY <1>2, <1>4, <2>1 DEF IInv, TypeOK
  <2>3. QueueOK' /\ HandOK'
    BY <1>2, <1>4, <2>1 DEF IInv, QueueOK, HandOK, Free
  <2>4. SentOK'
    BY <1>2, <1>4, <2>1 DEF IInv, SentOK, Sent
  <2>5. StopOK'
    BY <1>4, <2>1 DEF IInv, StopOK, Running
  <2>6. NoTaskVanishes'
    <3>1. \A c \in Builders : Held(c)' = Held(c)
      BY <1>4, <2>1 DEF Held
    <3> QED
      BY <1>2, <1>4, <2>1, <3>1, SameSent, SentIsTasks DEF IInv, NoTaskVanishes
  <2> QED
    BY <1>2, <1>5, <1>6, <2>2, <2>3, <2>4, <2>5, <2>6 DEF IInv
<1> QED
  BY <1>7, <1>8

\* The loop goes on, or ends, with nothing in its hands; or nothing happens.
LEMMA LoopInv ==
  ASSUME IInv,
         \/ \E b \in Builders : AddTaskWait(b) \/ DoReturn(b) \/ DequeueTimeout(b)
         \/ UNCHANGED vars
  PROVE  IInv'
<1> USE TasksAssumption, BoundsAssumption, NoneAssumption
<1>1. UNCHANGED <<sent, queue, task, tasks, run, spc, snapshot, visited, built,
                  lost, dropped, faults>>
  BY DEF AddTaskWait, DoReturn, DequeueTimeout, vars
<1>2. /\ pc' \in [Builders -> Places]
      /\ \A c \in Builders : pc'[c] = "add" <=> pc[c] = "add"
  BY DEF AddTaskWait, DoReturn, DequeueTimeout, vars, IInv, TypeOK, Places
<1>3. Distinct' /\ \A t \in Tasks : InQueue(t)' <=> InQueue(t)
  BY <1>1, SameQueue DEF IInv
<1>4. TypeOK'
  BY <1>1, <1>2 DEF IInv, TypeOK
<1>5. QueueOK' /\ HandOK' /\ RunOK'
  BY <1>1, <1>2, <1>3 DEF IInv, QueueOK, HandOK, RunOK, Free
<1>6. SentOK'
  BY <1>1, <1>3, SameSent DEF IInv, SentOK
<1>7. StopOK' /\ StopRecycles' /\ RoomOK'
  BY <1>1 DEF IInv, StopOK, Running, StopRecycles, RoomOK, Room
<1>8. NoTaskVanishes'
  <2>1. \A c \in Builders : Held(c)' = Held(c)
    BY <1>1 DEF Held
  <2> QED
    BY <1>1, <1>3, <2>1, SameSent, SentIsTasks DEF IInv, NoTaskVanishes
<1> QED
  BY <1>3, <1>4, <1>5, <1>6, <1>7, <1>8 DEF IInv

\* The task in hand gets a goroutine and a place in e.tasks.
LEMMA AddTaskInv ==
  ASSUME NEW b \in Builders, IInv, AddTask(b)
  PROVE  IInv'
<1> USE TasksAssumption, BoundsAssumption, NoneAssumption
<1> DEFINE x == task[b]
<1>1. /\ tasks[b] < MaxConcurrentTask
      /\ tasks' = [tasks EXCEPT ![b] = @ + 1]
      /\ run' = [run EXCEPT ![b][x] = "spawned"]
      /\ task' = [task EXCEPT ![b] = None]
      /\ pc' = [pc EXCEPT ![b] = "loop"]
      /\ UNCHANGED <<sent, queue, spc, snapshot, visited, built, lost, dropped, faults>>
  BY DEF AddTask
<1>2. /\ x \in Tasks
      /\ Free(x)
      /\ run[b][x] = None
      /\ x \notin visited[b]
      /\ \A c \in Builders : task[c] = x => c = b
  BY DEF AddTask, IInv, TypeOK, HandOK
<1>3. ~InQueue(x) /\ Distinct' /\ \A t \in Tasks : InQueue(t)' <=> InQueue(t)
  BY <1>1, <1>2, SameQueue DEF IInv, QueueOK
<1>4. x \notin snapshot[b]
  BY DEF IInv, StopOK
<1> HIDE DEF x
<1>5. TypeOK'
  BY <1>1, <1>2 DEF IInv, TypeOK, Places, RunPlaces
<1>6. QueueOK'
  BY <1>1, <1>2, <1>3 DEF IInv, TypeOK, QueueOK, Free, None
<1>7. HandOK'
  BY <1>1, <1>2 DEF IInv, TypeOK, HandOK, Free, None, x
<1>8. RunOK'
  BY <1>1, <1>2 DEF IInv, TypeOK, RunOK, Free, None
<1>9. SentOK'
  BY <1>1, <1>2, <1>3, SameSent DEF IInv, TypeOK, SentOK, x
<1>10. StopOK' /\ StopRecycles'
  BY <1>1, <1>2, <1>4 DEF IInv, TypeOK, StopOK, Running, StopRecycles, None
<1>11. RoomOK'
  <2>1. x \notin Room(b) /\ Room(b)' = Room(b) \cup {x}
    BY <1>1, <1>2 DEF IInv, TypeOK, Room, None
  <2>2. \A c \in Builders : c # b => Room(c)' = Room(c) /\ tasks'[c] = tasks[c]
    BY <1>1 DEF IInv, TypeOK, Room
  <2>3. IsFiniteSet(Room(b)') /\ Cardinality(Room(b)') = Cardinality(Room(b)) + 1
    BY <2>1, FS_AddElement DEF IInv, RoomOK
  <2>4. tasks'[b] = tasks[b] + 1
    BY <1>1 DEF IInv, TypeOK
  <2>5. \A c \in Builders, t \in Tasks : run'[c][t] = "deferred" => run[c][t] = "deferred"
    BY <1>1 DEF IInv, TypeOK
  <2> QED
    BY <2>2, <2>3, <2>4, <2>5 DEF IInv, RoomOK
<1>12. NoTaskVanishes'
  <2>1. \A c \in Builders : Held(c) \subseteq Held(c)'
    BY <1>1, <1>2 DEF IInv, TypeOK, Held, None, x
  <2> QED
    BY <1>1, <1>3, <2>1, SameSent, SentIsTasks DEF IInv, NoTaskVanishes
<1> QED
  BY <1>3, <1>5, <1>6, <1>7, <1>8, <1>9, <1>10, <1>11, <1>12 DEF IInv

\* The task in hand goes back into the queue or is lost.
LEMMA AddTaskFullInv ==
  ASSUME NEW b \in Builders, IInv, AddTaskFull(b)
  PROVE  IInv'
<1> USE TasksAssumption, BoundsAssumption, NoneAssumption
<1>0. PICK x \in Tasks : x = task[b]
  BY DEF AddTaskFull, IInv, TypeOK, HandOK
<1>1. /\ Callback(b, x)
      /\ task' = [task EXCEPT ![b] = None]
      /\ pc' = [pc EXCEPT ![b] = "wait"]
      /\ UNCHANGED <<sent, tasks, run, spc, snapshot, visited, built, dropped>>
  BY <1>0 DEF AddTaskFull
<1>2. /\ x \in Tasks
      /\ Free(x)
      /\ \A c \in Builders : task[c] = x => c = b
  BY <1>0 DEF AddTaskFull, IInv, TypeOK, HandOK
<1>3. ~InQueue(x)
  BY <1>0 DEF IInv, QueueOK
<1>4. /\ queue' \in [Topics -> Seq(Tasks)]
      /\ Distinct'
      /\ \A t \in Tasks : InQueue(t) => InQueue(t)'
      /\ \A t \in Tasks : InQueue(t)' => InQueue(t) \/ t = x
      /\ lost \subseteq lost' /\ lost' \subseteq Tasks /\ faults' \in 0 .. MaxFaults
      /\ InQueue(x)' \/ x \in lost'
  BY <1>1, <1>2, <1>3, CallbackQueue DEF IInv
<1>5. TypeOK'
  BY <1>1, <1>4 DEF IInv, TypeOK, Places
<1>6. QueueOK'
  <2>1. \A t \in Tasks : Free(t)' <=> Free(t)
    BY <1>1 DEF Free
  <2>2. \A c \in Builders : task'[c] = IF c = b THEN None ELSE task[c]
    BY <1>1 DEF IInv, TypeOK
  <2>3. \A c \in Builders : task'[c] # x
    BY <1>2, <2>2
  <2> QED
    BY <1>2, <1>4, <2>1, <2>2, <2>3 DEF IInv, QueueOK
<1>7. HandOK'
  BY <1>0, <1>1, <1>2 DEF IInv, TypeOK, HandOK, Free
<1>8. RunOK' /\ RoomOK'
  BY <1>1 DEF IInv, RunOK, RoomOK, Room
<1>9. SentOK'
  BY <1>0, <1>1, <1>2, <1>4, SameSent DEF IInv, TypeOK, SentOK
<1>10. StopOK' /\ StopRecycles'
  BY <1>1, <1>2 DEF IInv, TypeOK, StopOK, Running, StopRecycles
<1>11. NoTaskVanishes'
  <2>1. \A c \in Builders : Held(c) \ {x} \subseteq Held(c)'
    BY <1>0, <1>1, <1>2 DEF IInv, TypeOK, Held
  <2> QED
    BY <1>1, <1>2, <1>4, <2>1, SameSent, SentIsTasks DEF IInv, NoTaskVanishes
<1> QED
  BY <1>4, <1>5, <1>6, <1>7, <1>8, <1>9, <1>10, <1>11 DEF IInv

\* A goroutine goes on.  Its task stays where it is until it is built; room is
\* given back once.
LEMMA RunInv ==
  ASSUME NEW b \in Builders, NEW x \in Tasks, IInv, RunStep(b, x)
  PROVE  IInv'
<1> USE TasksAssumption, BoundsAssumption, NoneAssumption
<1>1. PICK to \in RunPlaces :
        /\ Move(b, x, run[b][x], to)
        /\ run[b][x] # None /\ to # "spawned"
        /\ to \in {"stored", "building", "finished"} /\ run[b][x] # "spawned" =>
             run[b][x] \in {"stored", "building", "finished"}
        /\ run[b][x] \in {"spawned", "stored", "building"} =>
             to \in {"stored", "building"} \/ x \in built'
  BY DEF RunStep, RunTask, BuildStart, BuildEnd, DeleteRunning, DeferredLeave, Move,
         RunPlaces, None
<1>2. run' = [run EXCEPT ![b][x] = to]
  BY <1>1 DEF Move
<1>3. /\ UNCHANGED <<sent, queue, pc, task, spc, snapshot, visited, lost, dropped, faults>>
      /\ built \subseteq built' /\ built' \subseteq Tasks
  BY DEF RunStep, RunTask, BuildStart, BuildEnd, DeleteRunning, DeferredLeave, IInv, TypeOK
<1>4. Distinct' /\ \A t \in Tasks : InQueue(t)' <=> InQueue(t)
  BY <1>3, SameQueue DEF IInv
<1>5. /\ run' \in [Builders -> [Tasks -> RunPlaces]]
      /\ \A c \in Builders, t \in Tasks :
           run'[c][t] = IF c = b /\ t = x THEN to ELSE run[c][t]
  BY <1>2 DEF IInv, TypeOK
<1>6. \A c \in Builders, t \in Tasks : run'[c][t] # None => run[c][t] # None
  BY <1>1, <1>5
<1>7. \A t \in Tasks : Free(t) => Free(t)'
  BY <1>3, <1>6 DEF Free
<1>8. QueueOK'
  BY <1>3, <1>4, <1>7 DEF IInv, QueueOK
<1>9. HandOK'
  BY <1>1, <1>3, <1>5, <1>6, <1>7 DEF IInv, TypeOK, HandOK
<1>10. RunOK'
  BY <1>3, <1>6 DEF IInv, RunOK
<1>11. SentOK'
  BY <1>3, <1>4, <1>6, SameSent DEF IInv, SentOK
<1>12. StopOK' /\ StopRecycles'
  <2>1. \A c \in Builders : \A t \in snapshot[c] : run'[c][t] # "spawned"
    BY <1>1, <1>5 DEF IInv, TypeOK, StopOK
  <2>2. \A c \in Builders : snapshot[c] \cap Running(c)' \subseteq Running(c)
    BY <1>1, <1>5 DEF IInv, TypeOK, StopOK, Running
  <2> QED
    BY <1>3, <2>1, <2>2 DEF IInv, StopOK, StopRecycles
<1>13. RoomOK' /\ tasks' \in [Builders -> 0 .. MaxConcurrentTask]
  <2>1. \A c \in Builders : c # b => Room(c)' = Room(c)
    BY <1>5 DEF Room
  <2>0. \A c \in Builders, t \in Tasks : run'[c][t] = "deferred" => t \in Limited
    <3>1. to = "deferred" => x \in Limited
      BY <1>1, <1>5 DEF RunStep, RunTask, BuildStart, BuildEnd, DeleteRunning,
                        DeferredLeave, Move, None, IInv, TypeOK
    <3> QED
      BY <1>5, <3>1 DEF IInv, RoomOK
  <2>2. CASE UNCHANGED tasks /\ Room(b)' = Room(b)
    <3>1. \A c \in Builders : Room(c)' = Room(c) /\ tasks'[c] = tasks[c]
      BY <2>1, <2>2
    <3>2. RoomOK'
      BY <2>0, <3>1 DEF IInv, RoomOK
    <3> QED
      BY <2>2, <3>2 DEF IInv, TypeOK
  <2>3. CASE LeaveTasks(b) /\ x \in Room(b) /\ Room(b)' = Room(b) \ {x}
    <3>1. /\ IsFiniteSet(Room(b)')
          /\ Cardinality(Room(b)') = Cardinality(Room(b)) - 1
          /\ Cardinality(Room(b)') \in Nat
      BY <2>3, FS_RemoveElement, FS_CardinalityType DEF IInv, RoomOK
    <3>2. /\ tasks'[b] = tasks[b] - 1
          /\ \A c \in Builders : c # b => tasks'[c] = tasks[c]
      BY <2>3 DEF LeaveTasks, IInv, TypeOK
    <3>3. RoomOK'
      BY <2>0, <2>1, <3>1, <3>2 DEF IInv, RoomOK
    <3>4. tasks[b] - 1 \in 0 .. MaxConcurrentTask
      BY <3>1 DEF IInv, TypeOK, RoomOK
    <3> QED
      BY <2>3, <3>3, <3>4 DEF LeaveTasks, IInv, TypeOK
  <2>4. \/ UNCHANGED tasks /\ Room(b)' = Room(b)
        \/ LeaveTasks(b) /\ x \in Room(b) /\ Room(b)' = Room(b) \ {x}
    <3>1. CASE RunTask(b, x)
      BY <3>1 DEF RunTask, Move, Room, IInv, TypeOK, None
    <3>2. CASE BuildStart(b, x)
      BY <3>2 DEF BuildStart, Move, Room, IInv, TypeOK, None
    <3>3. CASE BuildEnd(b, x)
      BY <3>3 DEF BuildEnd, Move, Room, IInv, TypeOK, None
    <3>4. CASE DeleteRunning(b, x)
      BY <3>4 DEF DeleteRunning, Move, Room, IInv, TypeOK, None
    <3>5. CASE DeferredLeave(b, x)
      <4>1. x \in Limited
        BY <3>5 DEF DeferredLeave, Move, IInv, RoomOK
      <4> QED
        BY <3>5, <4>1 DEF DeferredLeave, Move, Room, IInv, TypeOK, None
    <3> QED
      BY <3>1, <3>2, <3>3, <3>4, <3>5 DEF RunStep
  <2> QED
    BY <2>2, <2>3, <2>4
<1>14. TypeOK'
  BY <1>3, <1>4, <1>5, <1>13 DEF IInv, TypeOK
<1>15. NoTaskVanishes'
  <2>1. \A c \in Builders : Held(c) \subseteq Held(c)' \cup built'
    BY <1>1, <1>3, <1>5 DEF Held
  <2> QED
    BY <1>3, <1>4, <2>1, SameSent, SentIsTasks DEF IInv, NoTaskVanishes
<1> QED
  BY <1>4, <1>8, <1>9, <1>10, <1>11, <1>12, <1>13, <1>14, <1>15 DEF IInv

\* Stop looks into runningTask: what it finds there has left the loop's hands.
LEMMA StopInv ==
  ASSUME NEW b \in Builders, IInv, Stop(b)
  PROVE  IInv'
<1> USE TasksAssumption, BoundsAssumption, NoneAssumption
<1>1. /\ spc[b] = "run"
      /\ spc' = [spc EXCEPT ![b] = "range"]
      /\ snapshot' = [snapshot EXCEPT ![b] = Running(b)]
      /\ UNCHANGED <<sent, queue, pc, task, tasks, run, visited, built, lost, dropped, faults>>
  BY DEF Stop
<1>2. Distinct' /\ \A t \in Tasks : InQueue(t)' <=> InQueue(t)
  BY <1>1, SameQueue DEF IInv
<1>3. TypeOK'
  BY <1>1 DEF IInv, TypeOK, StopPlaces, Running
<1>4. QueueOK' /\ HandOK' /\ RunOK'
  BY <1>1, <1>2 DEF IInv, QueueOK, HandOK, RunOK, Free
<1>5. SentOK'
  BY <1>1, <1>2, SameSent DEF IInv, SentOK
<1>6. RoomOK'
  BY <1>1 DEF IInv, RoomOK, Room
<1>7. \A t \in Running(b) : t \in Tasks /\ task[b] # t /\ run[b][t] # "spawned"
  <2> SUFFICES ASSUME NEW t \in Running(b)
               PROVE  t \in Tasks /\ task[b] # t /\ run[b][t] # "spawned"
    OBVIOUS
  <2>1. t \in Tasks /\ run[b][t] \in {"stored", "building", "finished"}
    BY DEF Running
  <2>2. run[b][t] # None
    BY <2>1 DEF None
  <2>3. task[b] # t
    BY <2>1, <2>2 DEF IInv, HandOK
  <2> QED
    BY <2>1, <2>3
<1>8. StopOK'
  <2>1. \A c \in Builders : Running(c)' = Running(c)
    BY <1>1 DEF Running
  <2>2. ASSUME NEW c \in Builders, c # b
        PROVE  spc'[c] = spc[c] /\ snapshot'[c] = snapshot[c]
    BY <1>1, <2>2 DEF IInv, TypeOK
  <2>3. spc'[b] = "range" /\ snapshot'[b] = Running(b)
    BY <1>1 DEF IInv, TypeOK
  <2> QED
    BY <1>1, <1>7, <2>1, <2>2, <2>3 DEF IInv, StopOK
<1>9. StopRecycles'
  <2>1. dropped[b] = {}
    BY <1>1 DEF IInv, StopOK
  <2> QED
    BY <1>1, <2>1 DEF IInv, TypeOK, StopRecycles
<1>10. NoTaskVanishes'
  <2>1. \A c \in Builders : Held(c)' = Held(c)
    BY <1>1 DEF Held
  <2> QED
    BY <1>1, <1>2, <2>1, SameSent, SentIsTasks DEF IInv, NoTaskVanishes
<1> QED
  BY <1>2, <1>3, <1>4, <1>5, <1>6, <1>8, <1>9, <1>10 DEF IInv

\* Range returns a task nobody else works on.
LEMMA RecycleInv ==
  ASSUME NEW b \in Builders, NEW x \in Tasks, IInv, Recycle(b, x)
  PROVE  IInv'
<1> USE TasksAssumption, BoundsAssumption, NoneAssumption
<1>1. /\ spc[b] = "range"
      /\ Callback(b, x)
      /\ visited' = [visited EXCEPT ![b] = @ \cup {x}]
      /\ UNCHANGED <<sent, pc, task, tasks, run, spc, snapshot, built, dropped>>
  BY DEF Recycle
<1>2. run[b][x] # None /\ x \notin visited[b]
  BY DEF Recycle, Running, None
<1>3. ~InQueue(x) /\ \A c \in Builders : task[c] # x
  <2>1. ~Free(x)
    BY <1>2 DEF Free
  <2> QED
    BY <2>1 DEF IInv, QueueOK, HandOK
<1>4. /\ queue' \in [Topics -> Seq(Tasks)]
      /\ Distinct'
      /\ \A t \in Tasks : InQueue(t) => InQueue(t)'
      /\ \A t \in Tasks : InQueue(t)' => InQueue(t) \/ t = x
      /\ lost \subseteq lost' /\ lost' \subseteq Tasks /\ faults' \in 0 .. MaxFaults
      /\ InQueue(x)' \/ x \in lost'
  BY <1>1, <1>3, CallbackQueue DEF IInv
<1>5. /\ visited' \in [Builders -> SUBSET Tasks]
      /\ \A c \in Builders : visited'[c] = IF c = b THEN visited[c] \cup {x} ELSE visited[c]
  BY <1>1 DEF IInv, TypeOK
<1>6. TypeOK'
  BY <1>1, <1>4, <1>5 DEF IInv, TypeOK
<1>7. \A t \in Tasks : Free(t) => Free(t)'
  BY <1>1, <1>5 DEF Free
<1>8. Free(x)'
  BY <1>1, <1>2, <1>5 DEF IInv, RunOK, Free
<1>9. QueueOK'
  BY <1>1, <1>3, <1>4, <1>7, <1>8 DEF IInv, QueueOK
<1>10. HandOK'
  BY <1>1, <1>3, <1>5, <1>7 DEF IInv, TypeOK, HandOK
<1>11. RunOK'
  BY <1>1, <1>5 DEF IInv, RunOK
<1>12. SentOK'
  BY <1>1, <1>2, <1>4, SameSent DEF IInv, SentOK
<1>13. RoomOK'
  BY <1>1 DEF IInv, RoomOK, Room
<1>14. StopOK' /\ StopRecycles'
  <2>1. \A c \in Builders : Running(c)' = Running(c) /\ visited[c] \subseteq visited'[c]
    BY <1>1, <1>5 DEF Running
  <2> QED
    BY <1>1, <1>5, <2>1 DEF IInv, StopOK, StopRecycles
<1>15. NoTaskVanishes'
  <2>1. \A c \in Builders : Held(c) \ {x} \subseteq Held(c)'
    BY <1>1, <1>5 DEF Held
  <2> QED
    BY <1>1, <1>4, <2>1, SameSent, SentIsTasks DEF IInv, NoTaskVanishes
<1> QED
  BY <1>4, <1>6, <1>9, <1>10, <1>11, <1>12, <1>13, <1>14, <1>15 DEF IInv

\* Range ends once it has met the whole snapshot.
LEMMA RangeEndInv ==
  ASSUME NEW b \in Builders, IInv, RangeEnd(b)
  PROVE  IInv'
<1> USE TasksAssumption, BoundsAssumption, NoneAssumption
<1>1. /\ spc[b] = "range"
      /\ snapshot[b] \cap Running(b) \subseteq visited[b]
      /\ spc' = [spc EXCEPT ![b] = "closing"]
      /\ UNCHANGED <<sent, queue, pc, task, tasks, run, snapshot, visited, built, lost,
                     dropped, faults>>
  BY DEF RangeEnd
<1>2. Distinct' /\ \A t \in Tasks : InQueue(t)' <=> InQueue(t)
  BY <1>1, SameQueue DEF IInv
<1>3. TypeOK'
  BY <1>1 DEF IInv, TypeOK, StopPlaces
<1>4. QueueOK' /\ HandOK' /\ RunOK'
  BY <1>1, <1>2 DEF IInv, QueueOK, HandOK, RunOK, Free
<1>5. SentOK'
  BY <1>1, <1>2, SameSent DEF IInv, SentOK
<1>6. RoomOK' /\ StopRecycles'
  BY <1>1 DEF IInv, RoomOK, Room, StopRecycles
<1>7. StopOK'
  BY <1>1 DEF IInv, TypeOK, StopOK, Running
<1>8. NoTaskVanishes'
  <2>1. \A c \in Builders : Held(c)' = Held(c)
    BY <1>1 DEF Held
  <2> QED
    BY <1>1, <1>2, <2>1, SameSent, SentIsTasks DEF IInv, NoTaskVanishes
<1> QED
  BY <1>2, <1>3, <1>4, <1>5, <1>6, <1>7, <1>8 DEF IInv

\* The process takes along what it holds; of the snapshot that is nothing.
LEMMA ExitInv ==
  ASSUME NEW b \in Builders, IInv, Exit(b)
  PROVE  IInv'
<1> USE TasksAssumption, BoundsAssumption, NoneAssumption
<1>1. /\ spc[b] = "closing"
      /\ spc' = [spc EXCEPT ![b] = "exited"]
      /\ dropped' = [dropped EXCEPT ![b] = Held(b)]
      /\ run' = [run EXCEPT ![b] = [t \in Tasks |-> None]]
      /\ task' = [task EXCEPT ![b] = None]
      /\ pc' = [pc EXCEPT ![b] = "returned"]
      /\ tasks' = [tasks EXCEPT ![b] = 0]
      /\ UNCHANGED <<sent, queue, snapshot, visited, built, lost, faults>>
  BY DEF Exit
<1>2. Distinct' /\ \A t \in Tasks : InQueue(t)' <=> InQueue(t)
  BY <1>1, SameQueue DEF IInv
<1>3. /\ run' \in [Builders -> [Tasks -> RunPlaces]]
      /\ \A c \in Builders, t \in Tasks : run'[c][t] = IF c = b THEN None ELSE run[c][t]
      /\ \A c \in Builders : task'[c] = IF c = b THEN None ELSE task[c]
  BY <1>1 DEF IInv, TypeOK, RunPlaces
<1>4. Held(b) \subseteq Tasks /\ Held(b) \cap snapshot[b] = {}
  BY <1>1 DEF IInv, TypeOK, StopOK, Held, Running
<1>5. TypeOK'
  BY <1>1, <1>3, <1>4 DEF IInv, TypeOK, Places, StopPlaces
<1>6. \A t \in Tasks : Free(t) => Free(t)'
  BY <1>1, <1>3 DEF Free
<1>7. QueueOK'
  BY <1>2, <1>3, <1>6 DEF IInv, QueueOK
<1>8. HandOK'
  BY <1>1, <1>3, <1>6 DEF IInv, TypeOK, HandOK
<1>9. RunOK'
  BY <1>1, <1>3 DEF IInv, RunOK
<1>10. SentOK'
  BY <1>1, <1>2, <1>3, SameSent DEF IInv, SentOK
<1>11. StopOK'
  BY <1>1, <1>3 DEF IInv, TypeOK, StopOK, Running, None
<1>12. StopRecycles'
  BY <1>1, <1>4 DEF IInv, TypeOK, StopRecycles
<1>13. RoomOK'
  <2>1. Room(b)' = {} /\ \A c \in Builders : c # b => Room(c)' = Room(c)
    BY <1>3 DEF Room, None
  <2>2. tasks'[b] = 0 /\ \A c \in Builders : c # b => tasks'[c] = tasks[c]
    BY <1>1 DEF IInv, TypeOK
  <2>3. \A c \in Builders, t \in Tasks : run'[c][t] = "deferred" => run[c][t] = "deferred"
    BY <1>3 DEF None
  <2> QED
    BY <2>1, <2>2, <2>3, FS_EmptySet DEF IInv, RoomOK
<1>14. NoTaskVanishes'
  <2>1. \A c \in Builders : Held(c) \subseteq Held(c)' \cup dropped'[c]
    BY <1>1, <1>3 DEF IInv, TypeOK, Held
  <2>2. \A c \in Builders : dropped[c] \subseteq dropped'[c]
    BY <1>1 DEF IInv, TypeOK, StopOK
  <2> QED
    BY <1>1, <1>2, <2>1, <2>2, SameSent, SentIsTasks DEF IInv, NoTaskVanishes
<1> QED
  BY <1>2, <1>5, <1>7, <1>8, <1>9, <1>10, <1>11, <1>12, <1>13, <1>14 DEF IInv

-----------------------------------------------------------------------------
\* Theorems

\* Every step preserves the invariant.
LEMMA NextInv == IInv /\ [Next]_vars => IInv'
<1> SUFFICES ASSUME IInv, [Next]_vars PROVE IInv'
  OBVIOUS
<1>1. CASE Submit
  BY <1>1, SubmitInv
<1>2. ASSUME NEW b \in Builders, DoStep(b) PROVE IInv'
  BY <1>2, DequeueInv, AddTaskInv, AddTaskFullInv, LoopInv DEF DoStep
<1>3. ASSUME NEW b \in Builders, DequeueTimeout(b) \/ DequeueLost(b) \/ DoReturn(b)
      PROVE  IInv'
  BY <1>3, DequeueInv, LoopInv
<1>4. ASSUME NEW b \in Builders, Stop(b) \/ StopStep(b) PROVE IInv'
  BY <1>4, StopInv, RecycleInv, RangeEndInv, ExitInv DEF StopStep
<1>5. ASSUME NEW b \in Builders, NEW t \in Tasks, RunStep(b, t) PROVE IInv'
  BY <1>5, RunInv
<1>6. CASE UNCHANGED vars
  BY <1>6, LoopInv
<1> QED
  BY <1>1, <1>2, <1>3, <1>4, <1>5, <1>6 DEF Next

\* The invariant holds in every reachable state.
THEOREM Invariance == Spec => []IInv
BY InitInv, NextInv, PTL DEF Spec

\* Type correctness; in particular e.tasks never holds more than its capacity
\* and no goroutine waits to take an element out of it when it is empty.
THEOREM TypeCorrect == Spec => []TypeOK
<1>1. IInv => TypeOK
  BY DEF IInv
<1> QED
  BY <1>1, Invariance, PTL

\* A builder never runs more builds with concurrencyControl than it has room
\* for: each of them has its element in e.tasks.
THEOREM BuildsAreBounded == Spec => []BoundedBuilds
<1>1. IInv => BoundedBuilds
  <2> SUFFICES ASSUME IInv, NEW b \in Builders
               PROVE  Cardinality(Building(b) \cap Limited) <= MaxConcurrentTask
    BY DEF BoundedBuilds
  <2>1. Building(b) \cap Limited \subseteq Room(b)
    BY DEF Building, Room, None
  <2>2. /\ Cardinality(Building(b) \cap Limited) \in Nat
        /\ Cardinality(Room(b)) \in Nat
        /\ Cardinality(Building(b) \cap Limited) <= Cardinality(Room(b))
    BY <2>1, FS_Subset, FS_CardinalityType DEF IInv, RoomOK
  <2>3. Cardinality(Room(b)) = tasks[b] /\ tasks[b] \in 0 .. MaxConcurrentTask
    BY DEF IInv, RoomOK, TypeOK
  <2> QED
    BY <2>2, <2>3, BoundsAssumption
<1> QED
  BY <1>1, Invariance, PTL

\* Two builders have a build of one task going at the same time only when one
\* of them returned the task to the queue while it stopped.
THEOREM OneBuilderPerTask == Spec => []BuiltByOne
<1>1. IInv => BuiltByOne
  BY DEF IInv, RunOK, BuiltByOne, Building, None
<1> QED
  BY <1>1, Invariance, PTL

\* A task that was sent waits, is in the hands of a builder, was built, or went
\* with a failed call or a process.
THEOREM TasksDoNotVanish == Spec => []NoTaskVanishes
<1>1. IInv => NoTaskVanishes
  BY DEF IInv
<1> QED
  BY <1>1, Invariance, PTL

\* A builder that ends takes no task along that was in runningTask when it
\* began to stop.
THEOREM StopReturnsRunningTasks == Spec => []StopRecycles
<1>1. IInv => StopRecycles
  BY DEF IInv
<1> QED
  BY <1>1, Invariance, PTL
=============================================================================
