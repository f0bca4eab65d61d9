---------------------------- MODULE HandleStore ----------------------------
(***************************************************************************)
(* The store that keeps the operation logs the platform's services send to *)
(* the eventlog server (src/eventlog/store: handleMessageStore and its     *)
(* EventBarrel).  Receiving goroutines put every message into the barrel   *)
(* of its event; a barrel moves full batches to its persistence queue and  *)
(* announces that on the channel barrelEvent; handler goroutines save the  *)
(* queues and record final statuses; a collector saves and removes idle    *)
(* barrels; stop saves what is left.                                       *)
(*                                                                         *)
(* One step is what a goroutine does between two points where another one  *)
(* can interfere: taking a lock, a channel operation, a call of the        *)
(* database.  Appending to a barrel is two steps, because goroutines that  *)
(* hold the store's lock for reading append without mutual exclusion.      *)
(***************************************************************************)
EXTENDS Integers, Sequences, FiniteSets, RWMutex

CONSTANTS
  Events,       \* event ids
  Messages,     \* messages
  Inbox,        \* the messages in the order of receiveChan
  EventOf,      \* EventOf[m]: event_id of a message
  StepOf,       \* StepOf[m]: its step
  Unparsable,   \* messages that parsingMessage refuses
  Inserters,    \* goroutines of handleReceiveMessage
  Handlers,     \* goroutines of handleBarrelEvent
  MaxNumber,    \* PeerEventMaxLogNumber
  CacheNumber,  \* PeerEventMaxCacheLogNumber
  ChanCap       \* capacity of barrelEvent (100 in the code)

Steps == {"info", "progress", "last", "callback", "code-version"}

ASSUME MessagesAssumption ==
  /\ Inbox \in Seq(Messages)
  /\ \A i, j \in DOMAIN Inbox : Inbox[i] = Inbox[j] => i = j
  /\ EventOf \in [Messages -> Events]
  /\ StepOf \in [Messages -> Steps]
  /\ Unparsable \subseteq Messages

ASSUME BoundsAssumption ==
  /\ MaxNumber \in Nat
  /\ CacheNumber \in Nat \ {0}
  /\ ChanCap \in Nat \ {0}

Gc == "gc"
Stopper == "stop"
Threads == Inserters \cup Handlers \cup {Gc, Stopper}

\* Goroutines are told apart by their names.
ASSUME NamesAssumption ==
  /\ Inserters \cap Handlers = {}
  /\ (Inserters \cup Handlers) \cap {Gc, Stopper, None} = {}

\* An EventBarrel.  The pool hands out emptied barrels, which cannot be told
\* from new ones.
Barrel == [buf : Seq(Messages), pbuf : Seq(Messages), need : BOOLEAN, size : Nat]
EmptyBarrel == [buf |-> <<>>, pbuf |-> <<>>, need |-> FALSE, size |-> 0]
NoBarrel == [size |-> -1]

NoEvent == [kind |-> None]

\* Unordered collections of messages in which a message can occur twice.
Copies(s, m) == Cardinality({i \in DOMAIN s : s[i] = m})
Bag == [Messages -> Nat]
NoMessages == [m \in Messages |-> 0]
AddAll(bag, s) == [m \in Messages |-> bag[m] + Copies(s, m)]
Merge(b1, b2) == [m \in Messages |-> b1[m] + b2[m]]

VARIABLES
  barrels,    \* event -> barrel (h.barrels)
  plock,      \* event -> holder of the barrel's persistencelock
  barrelEvent,  \* the channel, a sequence of [kind, event, msg]
  next,       \* messages of Inbox received so far
  ipc, imsg, icopy,   \* per receiving goroutine: place, message, slice read
  hpc, hevent,        \* per handler: place, event being handled
  gpc, spc,   \* place of the collector and of storeManager.Stop
  garbage,    \* h.garbageMessage: how often a message is in it
  garbageFile,  \* the same for the garbage file
  garbageLost,  \* messages dropped because the garbage file was not writable
  saved,      \* event -> messages in the database, in order
  called,     \* messages whose final status is recorded in the database
  uncalled,   \* messages whose final status the database refused
  handled,    \* messages whose InsertMessage has returned
  early,      \* those among them that came before stop
  raced       \* events of which two receivers had messages at the same time

insVars == <<next, ipc, imsg, icopy>>
handVars == <<hpc, hevent>>
ctlVars == <<gpc, spc>>
garbageVars == <<garbage, garbageFile, garbageLost>>
dbVars == <<saved, called, uncalled>>
histVars == <<handled, early, raced>>
vars == <<barrels, plock, lockVars, barrelEvent, insVars, handVars, ctlVars,
          garbageVars, dbVars, histVars>>

Running == spc # "exited"

-----------------------------------------------------------------------------
\* EventBarrel

\* Fault: the cache is not emptied.
Persisted_KeepsCache(b) == [b EXCEPT !.need = TRUE, !.pbuf = b.pbuf \o b.buf]

\* EventBarrel.persistence, between its Lock and Unlock.
Persisted(b) == [b EXCEPT !.need = TRUE, !.pbuf = b.pbuf \o b.buf, !.buf = <<>>]

\* A select with default: the command is dropped when the channel is full.
OfferPersistence(e) ==
  barrelEvent' = IF Len(barrelEvent) < ChanCap
                   THEN Append(barrelEvent, [kind |-> "persistence", event |-> e])
                   ELSE barrelEvent

Persistence(e) ==
  /\ plock[e] = None
  /\ barrels' = [barrels EXCEPT ![e] = Persisted(@)]
  /\ OfferPersistence(e)

-----------------------------------------------------------------------------
\* handleReceiveMessage and InsertMessage

IGoto(i, l) == ipc' = [ipc EXCEPT ![i] = l]

\* Receivers that have a message of the same event as m in hand.
Sharing(m) == {j \in Inserters : ipc[j] # "receive" /\ EventOf[imsg[j]] = EventOf[m]}

\* A message is received; one that cannot be parsed goes to the garbage.
Receive(i) ==
  LET m == Inbox[next + 1] IN
  /\ Running
  /\ ipc[i] = "receive"
  /\ next < Len(Inbox)
  /\ next' = next + 1
  /\ IF m \in Unparsable
       THEN /\ garbage' = AddAll(garbage, <<m>>)
            /\ handled' = handled \cup {m}
            /\ UNCHANGED <<ipc, imsg, raced>>
       ELSE /\ IGoto(i, "lookup")
            /\ imsg' = [imsg EXCEPT ![i] = m]
            /\ raced' = raced \cup {EventOf[imsg[j]] : j \in Sharing(m)}
            /\ UNCHANGED <<garbage, handled>>
  /\ UNCHANGED <<barrels, plock, lockVars, barrelEvent, icopy, handVars, ctlVars,
                 garbageFile, garbageLost, dbVars, early>>

\* insertMessage looks the barrel up under the read lock.  When there is
\* none it gives the lock back ...
Lookup(i) ==
  LET e == EventOf[imsg[i]] IN
  /\ Running
  /\ ipc[i] = "lookup"
  /\ IF barrels[e] # NoBarrel
       THEN RLock(i) /\ IGoto(i, "insert")
       ELSE RLockUnlock /\ IGoto(i, "ask")
  /\ UNCHANGED <<barrels, plock, barrelEvent, next, imsg, icopy, handVars, ctlVars,
                 garbageVars, dbVars, histVars>>

\* ... and InsertMessage asks for the write lock.
Ask(i) ==
  /\ Running
  /\ ipc[i] = "ask"
  /\ AskLock(i)
  /\ IGoto(i, "lock")
  /\ UNCHANGED <<barrels, plock, readers, writer, barrelEvent, next, imsg, icopy,
                 handVars, ctlVars, garbageVars, dbVars, histVars>>

\* With the write lock, a barrel from the pool is put into the map without
\* looking again.  The map entry is made at the end of InsertMessage; until
\* then nobody else can look.
NewBarrel(i) ==
  LET e == EventOf[imsg[i]] IN
  /\ Running
  /\ ipc[i] = "lock"
  /\ Lock(i)
  /\ barrels' = [barrels EXCEPT ![e] = EmptyBarrel]
  /\ IGoto(i, "insert")
  /\ UNCHANGED <<plock, barrelEvent, next, imsg, icopy, handVars, ctlVars,
                 garbageVars, dbVars, histVars>>

\* EventBarrel.insert: too many messages go to the garbage, progress is not
\* kept, everything else is appended: the slice header is read ...
Full(b) == b.size > MaxNumber

InsertBegin(i) ==
  LET m == imsg[i]
      b == barrels[EventOf[m]] IN
  /\ Running
  /\ ipc[i] = "insert"
  /\ \/ /\ Full(b)
        /\ garbage' = AddAll(garbage, <<m>>)
        /\ IGoto(i, "return")
        /\ UNCHANGED icopy
     \/ /\ ~Full(b)
        /\ StepOf[m] = "progress"
        /\ IGoto(i, "return")
        /\ UNCHANGED <<garbage, icopy>>
     \/ /\ ~Full(b)
        /\ StepOf[m] # "progress"
        /\ icopy' = [icopy EXCEPT ![i] = b]
        /\ IGoto(i, "append")
        /\ UNCHANGED garbage
  /\ UNCHANGED <<barrels, plock, lockVars, barrelEvent, next, imsg, handVars, ctlVars,
                 garbageFile, garbageLost, dbVars, histVars>>

\* ... and written back with the message behind it.
InsertAppend(i) ==
  LET m == imsg[i]
      e == EventOf[m] IN
  /\ Running
  /\ ipc[i] = "append"
  /\ barrels' = [barrels EXCEPT ![e].buf = Append(icopy[i].buf, m),
                                ![e].size = icopy[i].size + 1]
  /\ icopy' = [icopy EXCEPT ![i] = EmptyBarrel]
  /\ IGoto(i, CASE StepOf[m] \in {"last", "callback"} -> "flush"
                [] StepOf[m] = "code-version" -> "send"
                [] OTHER -> "cache")
  /\ UNCHANGED <<plock, lockVars, barrelEvent, next, imsg, handVars, ctlVars,
                 garbageVars, dbVars, histVars>>

\* analysis: the last message of an event is persisted at once ...
AnalysisFlush(i) ==
  /\ Running
  /\ ipc[i] = "flush"
  /\ Persistence(EventOf[imsg[i]])
  /\ IGoto(i, "send")
  /\ UNCHANGED <<plock, lockVars, next, imsg, icopy, handVars, ctlVars,
                 garbageVars, dbVars, histVars>>

\* ... and announced with a send that blocks while the channel is full.
AnalysisSend(i) ==
  LET m == imsg[i] IN
  /\ Running
  /\ ipc[i] = "send"
  /\ Len(barrelEvent) < ChanCap
  /\ barrelEvent' =
       Append(barrelEvent,
              [kind |-> IF StepOf[m] = "code-version" THEN "code-version" ELSE "callback",
               event |-> EventOf[m], msg |-> m])
  /\ IGoto(i, "cache")
  /\ UNCHANGED <<barrels, plock, lockVars, next, imsg, icopy, handVars, ctlVars,
                 garbageVars, dbVars, histVars>>

\* A barrel with cacheNumber messages is persisted.
CacheCheck(i) ==
  LET e == EventOf[imsg[i]] IN
  /\ Running
  /\ ipc[i] = "cache"
  /\ IF Len(barrels[e].buf) >= CacheNumber
       THEN Persistence(e)
       ELSE UNCHANGED <<barrels, barrelEvent>>
  /\ IGoto(i, "return")
  /\ UNCHANGED <<plock, lockVars, next, imsg, icopy, handVars, ctlVars,
                 garbageVars, dbVars, histVars>>

\* The deferred unlock.
Return(i) ==
  /\ Running
  /\ ipc[i] = "return"
  /\ Unlock(i)
  /\ handled' = handled \cup {imsg[i]}
  /\ imsg' = [imsg EXCEPT ![i] = None]
  /\ IGoto(i, "receive")
  /\ UNCHANGED <<barrels, plock, barrelEvent, next, icopy, handVars, ctlVars,
                 garbageVars, dbVars, early, raced>>

-----------------------------------------------------------------------------
\* handleBarrelEvent

HGoto(h, l) == hpc' = [hpc EXCEPT ![h] = l]
HDone(h) == HGoto(h, "idle") /\ hevent' = [hevent EXCEPT ![h] = NoEvent]

\* Fault: a command without a case is not skipped.
TakeEvent_NoDefault(h) ==
  LET ev == Head(barrelEvent) IN
  /\ Running
  /\ hpc[h] = "idle"
  /\ barrelEvent # <<>>
  /\ barrelEvent' = Tail(barrelEvent)
  /\ HGoto(h, ev.kind)
  /\ hevent' = [hevent EXCEPT ![h] = ev]
  /\ UNCHANGED <<barrels, plock, lockVars, insVars, ctlVars, garbageVars, dbVars,
                 histVars>>

\* Fault: the callback command is not handled.
TakeEvent_NoCallback(h) ==
  LET ev == Head(barrelEvent) IN
  /\ Running
  /\ hpc[h] = "idle"
  /\ barrelEvent # <<>>
  /\ barrelEvent' = Tail(barrelEvent)
  /\ IF ev.kind # "persistence"
       THEN UNCHANGED handVars
       ELSE /\ HGoto(h, ev.kind)
            /\ hevent' = [hevent EXCEPT ![h] = ev]
  /\ UNCHANGED <<barrels, plock, lockVars, insVars, ctlVars, garbageVars, dbVars,
                 histVars>>

\* A handler takes an event from the channel; it does nothing with a
\* code-version.  After cancel it takes another event or returns.
TakeEvent(h) ==
  LET ev == Head(barrelEvent) IN
  /\ Running
  /\ hpc[h] = "idle"
  /\ barrelEvent # <<>>
  /\ barrelEvent' = Tail(barrelEvent)
  /\ IF ev.kind = "code-version"
       THEN UNCHANGED handVars
       ELSE /\ HGoto(h, ev.kind)
            /\ hevent' = [hevent EXCEPT ![h] = ev]
  /\ UNCHANGED <<barrels, plock, lockVars, insVars, ctlVars, garbageVars, dbVars,
                 histVars>>

HandlerExit(h) ==
  /\ Running
  /\ hpc[h] = "idle"
  /\ spc # "run"
  /\ HGoto(h, "exited")
  /\ UNCHANGED <<barrels, plock, lockVars, barrelEvent, insVars, hevent, ctlVars,
                 garbageVars, dbVars, histVars>>

\* persistence: the barrel is looked up under the read lock ...
PersistLookup(h) ==
  LET e == hevent[h].event IN
  /\ Running
  /\ hpc[h] = "persistence"
  /\ IF barrels[e] # NoBarrel
       THEN RLock(h) /\ HGoto(h, "plock") /\ UNCHANGED hevent
       ELSE RLockUnlock /\ HDone(h)
  /\ UNCHANGED <<barrels, plock, barrelEvent, insVars, ctlVars, garbageVars, dbVars,
                 histVars>>

\* ... its persistencelock is taken, and unless another handler has saved
\* the queue already ...
PersistLock(h) ==
  LET e == hevent[h].event IN
  /\ Running
  /\ hpc[h] = "plock"
  /\ plock[e] = None
  /\ IF barrels[e].need
       THEN /\ plock' = [plock EXCEPT ![e] = h]
            /\ HGoto(h, "save")
            /\ UNCHANGED <<lockVars, hevent>>
       ELSE /\ HDone(h)
            /\ Unlock(h)
            /\ UNCHANGED plock
  /\ UNCHANGED <<barrels, barrelEvent, insVars, ctlVars, garbageVars, dbVars, histVars>>

\* SaveMessage stores the messages or returns an error.
Save(content, e, ok) ==
  IF ok THEN saved' = [saved EXCEPT ![e] = @ \o content] /\ UNCHANGED garbage
        ELSE garbage' = AddAll(garbage, content) /\ UNCHANGED saved

\* ... it is saved, or goes to the garbage when the database refuses it.
PersistSave(h) ==
  LET e == hevent[h].event IN
  /\ Running
  /\ hpc[h] = "save"
  /\ \E ok \in BOOLEAN : Save(barrels[e].pbuf, e, ok)
  /\ barrels' = [barrels EXCEPT ![e].pbuf = <<>>, ![e].need = FALSE]
  /\ plock' = [plock EXCEPT ![e] = None]
  /\ Unlock(h)
  /\ HDone(h)
  /\ UNCHANGED <<barrelEvent, insVars, ctlVars, garbageFile, garbageLost, called,
                 uncalled, histVars>>

\* callback: the event's final status is written to the database, which may
\* refuse it; that is only logged.
Callback(h) ==
  LET m == hevent[h].msg IN
  /\ Running
  /\ hpc[h] = "callback"
  /\ \/ called' = called \cup {m} /\ UNCHANGED uncalled
     \/ uncalled' = uncalled \cup {m} /\ UNCHANGED called
  /\ HDone(h)
  /\ UNCHANGED <<barrels, plock, lockVars, barrelEvent, insVars, ctlVars, garbageVars,
                 saved, histVars>>

-----------------------------------------------------------------------------
\* Garbage, collector, stop

\* handleGarbageMessage writes the garbage to a file on every tick; the list
\* is cleared also when the file cannot be written.
SaveGarbage ==
  /\ Running
  /\ garbage # NoMessages
  /\ \/ garbageFile' = Merge(garbageFile, garbage) /\ UNCHANGED garbageLost
     \/ garbageLost' = Merge(garbageLost, garbage) /\ UNCHANGED garbageFile
  /\ garbage' = NoMessages
  /\ UNCHANGED <<barrels, plock, lockVars, barrelEvent, insVars, handVars, ctlVars,
                 dbVars, histVars>>

\* Fault: the cache is put before the older messages of the queue.
Content_NewestFirst(b) == b.buf \o b.pbuf

\* gcPersistence: everything in a barrel, oldest first.
Content(b) == b.pbuf \o b.buf

\* saveBeforeGc of the barrels in S, those in F being refused.
SaveBeforeGc(S, F) ==
  /\ saved' = [e \in Events |-> IF e \in S \ F THEN saved[e] \o Content(barrels[e])
                                               ELSE saved[e]]
  /\ garbage' = [m \in Messages |->
                   IF EventOf[m] \in F
                     THEN garbage[m] + Copies(Content(barrels[EventOf[m]]), m)
                     ELSE garbage[m]]

Mapped == {e \in Events : barrels[e] # NoBarrel}

\* The ticker fires and gcRun asks for the write lock.
GcTick ==
  /\ Running
  /\ gpc = "idle"
  /\ spc = "run"
  /\ AskLock(Gc)
  /\ gpc' = "lock"
  /\ UNCHANGED <<barrels, plock, readers, writer, barrelEvent, insVars, handVars, spc,
                 garbageVars, dbVars, histVars>>

\* Fault: idle barrels are removed without being saved.
GcRun_NoSave(S) ==
  /\ Running
  /\ gpc = "lock"
  /\ LockUnlock(Gc)
  /\ barrels' = [e \in Events |-> IF e \in S THEN NoBarrel ELSE barrels[e]]
  /\ gpc' = "idle"
  /\ UNCHANGED <<plock, barrelEvent, insVars, handVars, spc, garbageVars, dbVars,
                 histVars>>

\* gcRun, under the write lock: the barrels in S have not been written to
\* for 30 seconds.
GcRun(S) ==
  /\ Running
  /\ gpc = "lock"
  /\ LockUnlock(Gc)
  /\ \E F \in SUBSET S : SaveBeforeGc(S, F)
  /\ barrels' = [e \in Events |-> IF e \in S THEN NoBarrel ELSE barrels[e]]
  /\ gpc' = "idle"
  /\ UNCHANGED <<plock, barrelEvent, insVars, handVars, spc,
                 garbageFile, garbageLost, called, uncalled, histVars>>

\* storeManager.Stop: stop cancels the context and asks for the lock ...
Stop ==
  /\ spc = "run"
  /\ AskLock(Stopper)
  /\ spc' = "lock"
  /\ early' = handled
  /\ UNCHANGED <<barrels, plock, readers, writer, barrelEvent, insVars, handVars, gpc,
                 garbageVars, dbVars, handled, raced>>

\* Fault: only barrels with a pending persistence are saved.
StopSave_PendingOnly ==
  LET pending == {e \in Mapped : barrels[e].need} IN
  /\ spc = "lock"
  /\ LockUnlock(Stopper)
  /\ SaveBeforeGc(pending, {})
  /\ barrels' = [e \in Events |->
                   IF e \in pending THEN [barrels[e] EXCEPT !.buf = <<>>, !.pbuf = <<>>]
                                   ELSE barrels[e]]
  /\ spc' = "saved"
  /\ UNCHANGED <<plock, barrelEvent, insVars, handVars, gpc,
                 garbageFile, garbageLost, called, uncalled, histVars>>

\* ... saves every barrel, which stays in the map ...
StopSave ==
  /\ spc = "lock"
  /\ LockUnlock(Stopper)
  /\ \E F \in SUBSET Mapped : SaveBeforeGc(Mapped, F)
  /\ barrels' = [e \in Events |->
                   IF e \in Mapped
                     THEN [barrels[e] EXCEPT !.buf = <<>>, !.pbuf = <<>>, !.need = TRUE]
                     ELSE NoBarrel]
  /\ spc' = "saved"
  /\ UNCHANGED <<plock, barrelEvent, insVars, handVars, gpc,
                 garbageFile, garbageLost, called, uncalled, histVars>>

\* ... and the process ends once the other stores have stopped.
Exit ==
  /\ spc = "saved"
  /\ spc' = "exited"
  /\ UNCHANGED <<barrels, plock, lockVars, barrelEvent, insVars, handVars, gpc,
                 garbageVars, dbVars, histVars>>

-----------------------------------------------------------------------------
Init ==
  /\ barrels = [e \in Events |-> NoBarrel]
  /\ plock = [e \in Events |-> None]
  /\ LockInit
  /\ barrelEvent = <<>>
  /\ next = 0
  /\ ipc = [i \in Inserters |-> "receive"]
  /\ imsg = [i \in Inserters |-> None]
  /\ icopy = [i \in Inserters |-> EmptyBarrel]
  /\ hpc = [h \in Handlers |-> "idle"]
  /\ hevent = [h \in Handlers |-> NoEvent]
  /\ gpc = "idle"
  /\ spc = "run"
  /\ garbage = NoMessages
  /\ garbageFile = NoMessages
  /\ garbageLost = NoMessages
  /\ saved = [e \in Events |-> <<>>]
  /\ called = {}
  /\ uncalled = {}
  /\ handled = {}
  /\ early = {}
  /\ raced = {}

Insert(i) ==
  \/ Lookup(i)
  \/ Ask(i)
  \/ NewBarrel(i)
  \/ InsertBegin(i)
  \/ InsertAppend(i)
  \/ AnalysisFlush(i)
  \/ AnalysisSend(i)
  \/ CacheCheck(i)
  \/ Return(i)

Handle(h) ==
  \/ TakeEvent(h)
  \/ PersistLookup(h)
  \/ PersistLock(h)
  \/ PersistSave(h)
  \/ Callback(h)

Next ==
  \/ \E i \in Inserters : Receive(i) \/ Insert(i)
  \/ \E h \in Handlers : Handle(h) \/ HandlerExit(h)
  \/ SaveGarbage
  \/ GcTick
  \/ \E S \in SUBSET Mapped : GcRun(S)
  \/ Stop \/ StopSave \/ Exit
  \/ spc = "exited" /\ UNCHANGED vars

Spec == Init /\ [][Next]_vars

\* Goroutines that can go on do.  Readers get the RWMutex after a writer that
\* was before them, and sooner or later a barrel nobody writes to is older
\* than 30 seconds when the ticker fires: strong fairness.  Nothing forces a
\* message to arrive or the server to stop.
Fairness ==
  /\ \A i \in Inserters : SF_vars(Insert(i))
  /\ \A h \in Handlers : SF_vars(Handle(h))
  /\ WF_vars(GcTick)
  /\ SF_vars(GcRun(Mapped))
  /\ WF_vars(SaveGarbage)

FairSpec == Spec /\ Fairness

-----------------------------------------------------------------------------
\* Properties

TypeOK ==
  /\ barrels \in [Events -> Barrel \cup {NoBarrel}]
  /\ plock \in [Events -> Handlers \cup {None}]
  /\ readers \subseteq Threads
  /\ writer \in Threads \cup {None}
  /\ writersWaiting \subseteq Threads
  /\ Len(barrelEvent) <= ChanCap
  /\ next \in 0..Len(Inbox)
  /\ hpc \in [Handlers -> {"idle", "persistence", "plock", "save", "callback", "exited"}]
  /\ garbage \in Bag /\ garbageFile \in Bag /\ garbageLost \in Bag
  /\ saved \in [Events -> Seq(Messages)]
  /\ called \cup uncalled \subseteq Messages
  /\ handled \subseteq Messages /\ early \subseteq Messages
  /\ raced \subseteq Events

InBarrels(m) ==
  IF barrels[EventOf[m]] = NoBarrel THEN 0 ELSE Copies(Content(barrels[EventOf[m]]), m)

Kept(m) == Copies(saved[EventOf[m]], m) + garbage[m] + garbageFile[m] + garbageLost[m]

\* A message whose InsertMessage has returned is in exactly one place: its
\* barrel, the database or the garbage.  Progress is in none.  Of an event two
\* receivers had messages of at the same time nothing is promised: they share
\* the read lock and may both create its barrel or append to the same slice
\* (BarrelAlone).
StoredOnce ==
  \A m \in handled :
    EventOf[m] \notin raced =>
      InBarrels(m) + Kept(m) =
        IF StepOf[m] = "progress" /\ m \notin Unparsable THEN Kept(m) ELSE 1

\* The database has the messages of an event in the order in which they were
\* received, whoever saved them: a handler, the collector or stop; unless two
\* receivers had messages of the event at the same time.
SavedInOrder ==
  \A e \in Events \ raced : \A i, j \in DOMAIN saved[e] :
    i < j => \E k, l \in DOMAIN Inbox :
               k < l /\ Inbox[k] = saved[e][i] /\ Inbox[l] = saved[e][j]

\* stop leaves nothing behind of what was inserted before it.
StopSavesAll ==
  spc \in {"saved", "exited"} => \A m \in early : InBarrels(m) = 0

\* No receiver hangs for ever in the blocking send of analysis.  One that holds
\* the store's lock does, once the channel is full and every handler waits for
\* that lock (SendsGoOn).
NoHang == \A i \in Inserters : []<>(ipc[i] # "send")

\* A message never stays in memory only: it is saved or given up as garbage,
\* even when the persistence command for its barrel was dropped because the
\* channel was full.
EventuallyKept ==
  NoHang =>
    \A m \in Messages :
      (m \in handled /\ StepOf[m] # "progress")
        ~> (Kept(m) > 0 \/ spc # "run" \/ EventOf[m] \in raced)

\* The final status an event's last message carries reaches the database
\* unless the database refuses it.
EventuallyCalledBack ==
  NoHang =>
    \A m \in Messages :
      (m \in handled /\ StepOf[m] \in {"last", "callback"} /\ m \notin Unparsable
         /\ Kept(m) + InBarrels(m) > 0)
        ~> (m \in called \cup uncalled \/ spc # "run"
              \/ garbage[m] + garbageFile[m] + garbageLost[m] > 0)

\* barrel.go says of EventBarrel that no coroutines can be started on it: no
\* two goroutines insert into a barrel at the same time.
BarrelAlone ==
  \A i, j \in Inserters :
    /\ i # j
    /\ {ipc[i], ipc[j]} \subseteq {"insert", "append", "flush", "send", "cache"}
    => EventOf[imsg[i]] # EventOf[imsg[j]]

\* store.go names the remedy for receivers that block on a full barrelEvent,
\* a persistence command that does not block, which persistence follows: a
\* receiver that sends goes on.
SendsGoOn == \A i \in Inserters : ipc[i] = "send" ~> (ipc[i] # "send" \/ spc # "run")
=============================================================================
