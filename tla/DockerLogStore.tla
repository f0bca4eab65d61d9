--------------------------- MODULE DockerLogStore ---------------------------
(***************************************************************************)
(* The store of container logs (src/eventlog/store: dockerLogStore and     *)
(* dockerLogEventBarrel).  Barrels are pooled objects; the map says which  *)
(* one a service uses now.  Receiving goroutines append, web sockets       *)
(* subscribe to a barrel and are sent each new log, one handler writes     *)
(* full barrels to the service's log file, the collector writes, empties   *)
(* and pools idle barrels, stop writes what is left.                       *)
(*                                                                         *)
(* Unlike HandleStore the handler works without the barrel's               *)
(* persistencelock, the collector holds the store's lock only for reading  *)
(* while it saves, and a subscription is registered by a goroutine of its  *)
(* own that holds no store lock at all.                                    *)
(***************************************************************************)
EXTENDS Integers, Sequences, FiniteSets, RWMutex

CONSTANTS
  Services,   \* service ids
  Messages,   \* container logs
  Inbox,      \* the logs in the order of dockerLogChan
  ServiceOf,  \* ServiceOf[m]: the service a log is from
  Inserters,  \* goroutines of handleDockerLog
  Subs,       \* web socket sessions; each has a SubID and a channel
  SubService, \* SubService[s]: the service a session asks for
  Barrels,    \* barrel objects the pool can make
  CacheSize,  \* PeerDockerMaxCacheLogNumber
  ChanCap     \* capacity of barrelEvent (100 in the code)

ASSUME LogsAssumption ==
  /\ Inbox \in Seq(Messages)
  /\ \A i, j \in DOMAIN Inbox : Inbox[i] = Inbox[j] => i = j
  /\ ServiceOf \in [Messages -> Services]
  /\ SubService \in [Subs -> Services]

ASSUME SizesAssumption == CacheSize \in Nat \ {0} /\ ChanCap \in Nat \ {0}

Handler == "handler"
Gc == "gc"
Stopper == "stop"
Savers == {Gc, Stopper}   \* callers of saveBeforeGc

\* Goroutines are told apart by their names.
ASSUME NamesAssumption ==
  /\ Inserters \cap Subs = {}
  /\ (Inserters \cup Subs) \cap {Handler, Gc, Stopper, None} = {}
  /\ None \notin Barrels

Barrel == [buf : Seq(Messages), pbuf : Seq(Messages), need : BOOLEAN, subs : SUBSET Subs]
EmptyBarrel == [buf |-> <<>>, pbuf |-> <<>>, need |-> FALSE, subs |-> {}]

VARIABLES
  barrels,    \* h.barrels: service -> barrel object or None
  pool,       \* barrel objects the pool may hand out
  bar,        \* contents of the barrel objects
  subLock,    \* barrel -> holder of subLock
  plock,      \* barrel -> holder of persistencelock
  barrelEvent,         \* services with a persistence command
  next, ipc, imsg, ibar, icopy,  \* receiving goroutines
  wpc, pending, chan, got,       \* sessions: place, barrel that is still to
                                 \* register them, channel, logs sent to it
  hpc, hbar,           \* the handler
  spc, todo, vbar,     \* collector and stop: place, services still to visit,
                       \* barrel being saved
  gcEvent,    \* services whose barrels the collector will remove
  file,       \* service -> the logs in its log file
  refused     \* logs given up because the file could not be written

subVars == <<wpc, pending, chan, got>>
insVars == <<next, ipc, imsg, ibar, icopy>>
handVars == <<hpc, hbar>>
saveVars == <<spc, todo, vbar, gcEvent>>
fileVars == <<file, refused>>
vars == <<barrels, pool, bar, subLock, plock, lockVars, barrelEvent, insVars, subVars,
          handVars, saveVars, fileVars>>

Elems(s) == {s[k] : k \in DOMAIN s}

Running == spc[Stopper] # "stopped"
Mapped == {e \in Services : barrels[e] # None}
Named(b) == CHOOSE e \in Services : barrels[e] = b

-----------------------------------------------------------------------------
\* dockerLogEventBarrel

\* persistence, between Lock and Unlock; the command is dropped when the
\* channel is full.
Persistence(b, content) ==
  /\ bar' = [bar EXCEPT ![b].need = TRUE, ![b].pbuf = @ \o content, ![b].buf = <<>>]
  /\ barrelEvent' = IF Len(barrelEvent) < ChanCap
                      THEN Append(barrelEvent, Named(b))
                      ELSE barrelEvent

\* filePlugin.SaveMessage: everything is appended to the file of the service
\* the first message is from, or the error is only logged.
SaveMessage(content) ==
  \/ content = <<>> /\ UNCHANGED fileVars
  \/ /\ content # <<>>
     /\ file' = [file EXCEPT ![ServiceOf[content[1]]] = @ \cup Elems(content)]
     /\ UNCHANGED refused
  \/ /\ content # <<>>
     /\ refused' = refused \cup Elems(content)
     /\ UNCHANGED file

-----------------------------------------------------------------------------
\* handleDockerLog and InsertMessage

IGoto(i, l) == ipc' = [ipc EXCEPT ![i] = l]

Receive(i) ==
  /\ Running
  /\ ipc[i] = "receive"
  /\ next < Len(Inbox)
  /\ next' = next + 1
  /\ imsg' = [imsg EXCEPT ![i] = Inbox[next + 1]]
  /\ IGoto(i, "lookup")
  /\ UNCHANGED <<barrels, pool, bar, subLock, plock, lockVars, barrelEvent, ibar, icopy,
                 subVars, handVars, saveVars, fileVars>>

\* The barrel is looked up under the read lock.
Lookup(i) ==
  LET b == barrels[ServiceOf[imsg[i]]] IN
  /\ Running
  /\ ipc[i] = "lookup"
  /\ IF b # None
       THEN RLock(i) /\ ibar' = [ibar EXCEPT ![i] = b] /\ IGoto(i, "insert")
       ELSE RLockUnlock /\ IGoto(i, "ask") /\ UNCHANGED ibar
  /\ UNCHANGED <<barrels, pool, bar, subLock, plock, barrelEvent, next, imsg, icopy,
                 subVars, handVars, saveVars, fileVars>>

Ask(i) ==
  /\ Running
  /\ ipc[i] = "ask"
  /\ AskLock(i)
  /\ IGoto(i, "lock")
  /\ UNCHANGED <<barrels, pool, bar, subLock, plock, readers, writer, barrelEvent, next,
                 imsg, ibar, icopy, subVars, handVars, saveVars, fileVars>>

\* pool.Get under the write lock; the map is not looked at again.
NewBarrel(i) ==
  /\ Running
  /\ ipc[i] = "lock"
  /\ Lock(i)
  /\ \E b \in pool :
       /\ pool' = pool \ {b}
       /\ barrels' = [barrels EXCEPT ![ServiceOf[imsg[i]]] = b]
       /\ ibar' = [ibar EXCEPT ![i] = b]
  /\ IGoto(i, "insert")
  /\ UNCHANGED <<bar, subLock, plock, barrelEvent, next, imsg, icopy, subVars, handVars,
                 saveVars, fileVars>>

\* insertMessage takes subLock and reads the slice; gcPersistence does not
\* take subLock ...
InsertBegin(i) ==
  LET b == ibar[i] IN
  /\ Running
  /\ ipc[i] = "insert"
  /\ subLock[b] = None
  /\ subLock' = [subLock EXCEPT ![b] = i]
  /\ icopy' = [icopy EXCEPT ![i] = bar[b].buf]
  /\ IGoto(i, "append")
  /\ UNCHANGED <<barrels, pool, bar, plock, lockVars, barrelEvent, next, imsg, ibar,
                 subVars, handVars, saveVars, fileVars>>

\* The deferred unlocks.
InsertEnd(i) ==
  /\ subLock' = [subLock EXCEPT ![ibar[i]] = None]
  /\ Unlock(i)
  /\ imsg' = [imsg EXCEPT ![i] = None]
  /\ ibar' = [ibar EXCEPT ![i] = None]
  /\ IGoto(i, "receive")

\* ... writes it back with the log appended, and offers the log to every
\* registered channel; those in drop are full.
InsertAppend(i) ==
  LET b == ibar[i]
      buf == Append(icopy[i], imsg[i]) IN
  /\ Running
  /\ ipc[i] = "append"
  /\ bar' = [bar EXCEPT ![b].buf = buf]
  /\ icopy' = [icopy EXCEPT ![i] = <<>>]
  /\ \E drop \in SUBSET bar[b].subs :
       got' = [s \in Subs |-> IF s \in bar[b].subs \ drop THEN got[s] \cup {imsg[i]}
                                                          ELSE got[s]]
  /\ IF Len(buf) >= CacheSize
       THEN IGoto(i, "persist") /\ UNCHANGED <<subLock, lockVars, imsg, ibar>>
       ELSE InsertEnd(i)
  /\ UNCHANGED <<barrels, pool, plock, barrelEvent, next, wpc, pending, chan, handVars,
                 saveVars, fileVars>>

\* Fault: subLock is not released on this path.
InsertPersist_KeepsSubLock(i) ==
  /\ Running
  /\ ipc[i] = "persist"
  /\ plock[ibar[i]] = None
  /\ Persistence(ibar[i], bar[ibar[i]].buf)
  /\ Unlock(i)
  /\ imsg' = [imsg EXCEPT ![i] = None]
  /\ ibar' = [ibar EXCEPT ![i] = None]
  /\ IGoto(i, "receive")
  /\ UNCHANGED <<barrels, pool, subLock, plock, next, icopy, subVars, handVars, saveVars,
                 fileVars>>

\* A barrel with cacheSize logs is queued for the file.
InsertPersist(i) ==
  /\ Running
  /\ ipc[i] = "persist"
  /\ plock[ibar[i]] = None
  /\ Persistence(ibar[i], bar[ibar[i]].buf)
  /\ InsertEnd(i)
  /\ UNCHANGED <<barrels, pool, plock, next, icopy, subVars, handVars, saveVars, fileVars>>

Insert(i) ==
  \/ Lookup(i) \/ Ask(i) \/ NewBarrel(i)
  \/ InsertBegin(i) \/ InsertAppend(i) \/ InsertPersist(i)

-----------------------------------------------------------------------------
\* pushDockerLog: SubChan and RealseSubChan

WGoto(s, l) == wpc' = [wpc EXCEPT ![s] = l]

\* addSubChan returns the channel that is registered under the SubID, or makes
\* one and starts the goroutine that registers it.
AddSubChan(s, b) ==
  /\ subLock[b] = None
  /\ IF s \in bar[b].subs
       THEN UNCHANGED <<chan, pending>>
       ELSE /\ chan' = [chan EXCEPT ![s] = "open"]
            /\ pending' = [pending EXCEPT ![s] = b]
  /\ WGoto(s, "reading")

SubChan(s) ==
  LET b == barrels[SubService[s]] IN
  /\ Running
  /\ wpc[s] = "start"
  /\ RLockUnlock
  /\ IF b # None
       THEN AddSubChan(s, b)
       ELSE WGoto(s, "ask") /\ UNCHANGED <<chan, pending>>
  /\ UNCHANGED <<barrels, pool, bar, subLock, plock, barrelEvent, insVars, got, handVars,
                 saveVars, fileVars>>

SubAsk(s) ==
  /\ Running
  /\ wpc[s] = "ask"
  /\ AskLock(s)
  /\ WGoto(s, "lock")
  /\ UNCHANGED <<barrels, pool, bar, subLock, plock, readers, writer, barrelEvent,
                 insVars, pending, chan, got, handVars, saveVars, fileVars>>

\* Again the map entry is made without looking at it.
SubNewBarrel(s) ==
  /\ Running
  /\ wpc[s] = "lock"
  /\ LockUnlock(s)
  /\ \E b \in pool :
       /\ pool' = pool \ {b}
       /\ barrels' = [barrels EXCEPT ![SubService[s]] = b]
       /\ AddSubChan(s, b)
  /\ UNCHANGED <<bar, subLock, plock, barrelEvent, insVars, got, handVars, saveVars,
                 fileVars>>

\* The goroutine pushCashMessage registers the channel at the barrel object
\* it was started for, whatever has become of that object.
Register(s) ==
  LET b == pending[s] IN
  /\ Running
  /\ b # None
  /\ subLock[b] = None
  /\ bar' = [bar EXCEPT ![b].subs = @ \cup {s}]
  /\ pending' = [pending EXCEPT ![s] = None]
  /\ UNCHANGED <<barrels, pool, subLock, plock, lockVars, barrelEvent, insVars, wpc, chan,
                 got, handVars, saveVars, fileVars>>

\* The session ends, because the client leaves or the channel was closed:
\* delSubChan closes a channel that is registered at the service's barrel.
RealseSubChan(s) ==
  LET b == barrels[SubService[s]]
      found == b # None /\ s \in bar[b].subs IN
  /\ Running
  /\ wpc[s] = "reading"
  /\ RLockUnlock
  /\ b # None => subLock[b] = None
  /\ IF found
       THEN /\ bar' = [bar EXCEPT ![b].subs = @ \ {s}]
            /\ chan' = [chan EXCEPT ![s] = "closed"]
       ELSE UNCHANGED <<bar, chan>>
  /\ WGoto(s, "done")
  /\ UNCHANGED <<barrels, pool, subLock, plock, barrelEvent, insVars, pending, got,
                 handVars, saveVars, fileVars>>

-----------------------------------------------------------------------------
\* handleBarrelEvent

\* A command is taken; its barrel is looked up under the read lock.
HTake ==
  /\ Running
  /\ hpc = "idle"
  /\ barrelEvent # <<>>
  /\ hpc' = "lookup"
  /\ hbar' = Head(barrelEvent)
  /\ barrelEvent' = Tail(barrelEvent)
  /\ UNCHANGED <<barrels, pool, bar, subLock, plock, lockVars, insVars, subVars, saveVars,
                 fileVars>>

HLookup ==
  LET b == barrels[hbar] IN
  /\ Running
  /\ hpc = "lookup"
  /\ IF b # None /\ bar[b].need
       THEN RLock(Handler) /\ hpc' = "save" /\ hbar' = b
       ELSE RLockUnlock /\ hpc' = "idle" /\ hbar' = None
  /\ UNCHANGED <<barrels, pool, bar, subLock, plock, barrelEvent, insVars, subVars,
                 saveVars, fileVars>>

\* The queue is written ...
HSave ==
  /\ Running
  /\ hpc = "save"
  /\ SaveMessage(bar[hbar].pbuf)
  /\ hpc' = "reset"
  /\ UNCHANGED <<barrels, pool, bar, subLock, plock, lockVars, barrelEvent, insVars,
                 subVars, hbar, saveVars>>

\* ... and then truncated.
HReset ==
  /\ Running
  /\ hpc = "reset"
  /\ bar' = [bar EXCEPT ![hbar].pbuf = <<>>, ![hbar].need = FALSE]
  /\ Unlock(Handler)
  /\ hpc' = "idle"
  /\ hbar' = None
  /\ UNCHANGED <<barrels, pool, subLock, plock, barrelEvent, insVars, subVars, saveVars,
                 fileVars>>

\* After cancel the handler leaves its loop.
HExit ==
  /\ Running
  /\ hpc = "idle"
  /\ spc[Stopper] # "idle"
  /\ hpc' = "exited"
  /\ UNCHANGED <<barrels, pool, bar, subLock, plock, lockVars, barrelEvent, insVars,
                 subVars, hbar, saveVars, fileVars>>

-----------------------------------------------------------------------------
\* saveBeforeGc, called by the collector and by stop

SGoto(t, l) == spc' = [spc EXCEPT ![t] = l]

\* persistencelock is taken and the cache is copied behind the queue ...
SaveCopy(t, e) ==
  LET b == barrels[e] IN
  /\ Running
  /\ spc[t] = "visit"
  /\ e \in todo[t]
  /\ plock[b] = None
  /\ plock' = [plock EXCEPT ![b] = t]
  /\ bar' = [bar EXCEPT ![b].need = TRUE, ![b].pbuf = @ \o bar[b].buf]
  /\ vbar' = [vbar EXCEPT ![t] = b]
  /\ todo' = [todo EXCEPT ![t] = @ \ {e}]
  /\ SGoto(t, "clear")
  /\ UNCHANGED <<barrels, pool, subLock, lockVars, barrelEvent, insVars, subVars,
                 handVars, fileVars>>

\* Fault: persistencelock is not released.
SaveClear_KeepsLock(t) ==
  LET b == vbar[t] IN
  /\ Running
  /\ spc[t] = "clear"
  /\ SaveMessage(bar[b].pbuf)
  /\ bar' = [bar EXCEPT ![b].buf = <<>>, ![b].pbuf = <<>>]
  /\ vbar' = [vbar EXCEPT ![t] = None]
  /\ SGoto(t, "visit")
  /\ UNCHANGED <<barrels, pool, subLock, plock, lockVars, barrelEvent, insVars, subVars,
                 handVars, todo, gcEvent>>

\* ... the cache is dropped, and the queue is written and dropped.
SaveClear(t) ==
  LET b == vbar[t] IN
  /\ Running
  /\ spc[t] = "clear"
  /\ SaveMessage(bar[b].pbuf)
  /\ bar' = [bar EXCEPT ![b].buf = <<>>, ![b].pbuf = <<>>]
  /\ plock' = [plock EXCEPT ![b] = None]
  /\ vbar' = [vbar EXCEPT ![t] = None]
  /\ SGoto(t, "visit")
  /\ UNCHANGED <<barrels, pool, subLock, lockVars, barrelEvent, insVars, subVars,
                 handVars, todo, gcEvent>>

-----------------------------------------------------------------------------
\* The collector

\* gcRun calls handle, which holds the read lock until it has visited every
\* barrel.  A tick that came with the cancel may still be taken: select chooses.
GcTick ==
  /\ Running
  /\ spc[Gc] = "idle"
  /\ RLock(Gc)
  /\ todo' = [todo EXCEPT ![Gc] = Mapped]
  /\ SGoto(Gc, "visit")
  /\ UNCHANGED <<barrels, pool, bar, subLock, plock, barrelEvent, insVars, subVars,
                 handVars, vbar, gcEvent, fileVars>>

\* A barrel that had no log for a minute and has no subscriber is saved and
\* will be removed.
GcIdle(e) ==
  /\ e \in todo[Gc]
  /\ subLock[barrels[e]] = None
  /\ bar[barrels[e]].subs = {}
  /\ SaveCopy(Gc, e)
  /\ gcEvent' = gcEvent \cup {e}

\* One that was not persisted for a minute is persisted.
GcPersist(e) ==
  LET b == barrels[e] IN
  /\ Running
  /\ spc[Gc] = "visit"
  /\ e \in todo[Gc]
  /\ bar[b].buf # <<>>
  /\ plock[b] = None
  /\ Persistence(b, bar[b].buf)
  /\ todo' = [todo EXCEPT ![Gc] = @ \ {e}]
  /\ UNCHANGED <<barrels, pool, subLock, plock, lockVars, insVars, subVars, handVars, spc,
                 vbar, gcEvent, fileVars>>

\* Any other is passed over.
GcSkip(e) ==
  /\ Running
  /\ spc[Gc] = "visit"
  /\ e \in todo[Gc]
  /\ todo' = [todo EXCEPT ![Gc] = @ \ {e}]
  /\ UNCHANGED <<barrels, pool, bar, subLock, plock, lockVars, barrelEvent, insVars,
                 subVars, handVars, spc, vbar, gcEvent, fileVars>>

\* handle returns; when there is something to remove gcRun asks for the
\* write lock ...
GcVisited ==
  /\ Running
  /\ spc[Gc] = "visit"
  /\ todo[Gc] = {}
  /\ readers' = readers \ {Gc}
  /\ UNCHANGED writer
  /\ IF gcEvent # {}
       THEN AskLock(Gc) /\ SGoto(Gc, "lock")
       ELSE UNCHANGED writersWaiting /\ SGoto(Gc, "idle")
  /\ UNCHANGED <<barrels, pool, bar, subLock, plock, barrelEvent, insVars, subVars,
                 handVars, todo, vbar, gcEvent, fileVars>>

\* Fault: the list of services to remove survives.
GcRemove_KeepsList ==
  LET gone == {barrels[e] : e \in gcEvent} IN
  /\ Running
  /\ spc[Gc] = "lock"
  /\ LockUnlock(Gc)
  /\ chan' = [s \in Subs |-> IF \E b \in gone : s \in bar[b].subs THEN "closed"
                                                                  ELSE chan[s]]
  /\ bar' = [b \in Barrels |-> IF b \in gone THEN EmptyBarrel ELSE bar[b]]
  /\ pool' = pool \cup gone
  /\ barrels' = [e \in Services |-> IF e \in gcEvent THEN None ELSE barrels[e]]
  /\ gcEvent' = gcEvent
  /\ SGoto(Gc, "idle")
  /\ UNCHANGED <<subLock, plock, barrelEvent, insVars, wpc, pending, got, handVars, todo,
                 vbar, fileVars>>

\* Fault: channels are closed but stay registered.
GcRemove_KeepsSubs ==
  LET gone == {barrels[e] : e \in gcEvent} IN
  /\ Running
  /\ spc[Gc] = "lock"
  /\ LockUnlock(Gc)
  /\ chan' = [s \in Subs |-> IF \E b \in gone : s \in bar[b].subs THEN "closed"
                                                                  ELSE chan[s]]
  /\ bar' = [b \in Barrels |->
                 IF b \in gone THEN [EmptyBarrel EXCEPT !.subs = bar[b].subs] ELSE bar[b]]
  /\ pool' = pool \cup gone
  /\ barrels' = [e \in Services |-> IF e \in gcEvent THEN None ELSE barrels[e]]
  /\ gcEvent' = {}
  /\ SGoto(Gc, "idle")
  /\ UNCHANGED <<subLock, plock, barrelEvent, insVars, wpc, pending, got, handVars, todo,
                 vbar, fileVars>>

\* Fault: the map entry stays.
GcRemove_NoDelete ==
  LET gone == {barrels[e] : e \in gcEvent} IN
  /\ Running
  /\ spc[Gc] = "lock"
  /\ LockUnlock(Gc)
  /\ chan' = [s \in Subs |-> IF \E b \in gone : s \in bar[b].subs THEN "closed"
                                                                  ELSE chan[s]]
  /\ bar' = [b \in Barrels |-> IF b \in gone THEN EmptyBarrel ELSE bar[b]]
  /\ pool' = pool \cup gone
  /\ barrels' = barrels
  /\ gcEvent' = {}
  /\ SGoto(Gc, "idle")
  /\ UNCHANGED <<subLock, plock, barrelEvent, insVars, wpc, pending, got, handVars, todo,
                 vbar, fileVars>>

\* Fault: the barrel is pooled with what it holds.
GcRemove_NotEmptied ==
  LET gone == {barrels[e] : e \in gcEvent} IN
  /\ Running
  /\ spc[Gc] = "lock"
  /\ LockUnlock(Gc)
  /\ chan' = chan
  /\ bar' = bar
  /\ pool' = pool \cup gone
  /\ barrels' = [e \in Services |-> IF e \in gcEvent THEN None ELSE barrels[e]]
  /\ gcEvent' = {}
  /\ SGoto(Gc, "idle")
  /\ UNCHANGED <<subLock, plock, barrelEvent, insVars, wpc, pending, got, handVars, todo,
                 vbar, fileVars>>

\* ... and with it empties the barrels, which closes their channels, gives
\* them back to the pool and removes them from the map.
GcRemove ==
  LET gone == {barrels[e] : e \in gcEvent} IN
  /\ Running
  /\ spc[Gc] = "lock"
  /\ LockUnlock(Gc)
  /\ chan' = [s \in Subs |-> IF \E b \in gone : s \in bar[b].subs THEN "closed"
                                                                  ELSE chan[s]]
  /\ bar' = [b \in Barrels |-> IF b \in gone THEN EmptyBarrel ELSE bar[b]]
  /\ pool' = pool \cup gone
  /\ barrels' = [e \in Services |-> IF e \in gcEvent THEN None ELSE barrels[e]]
  /\ gcEvent' = {}
  /\ SGoto(Gc, "idle")
  /\ UNCHANGED <<subLock, plock, barrelEvent, insVars, wpc, pending, got, handVars, todo,
                 vbar, fileVars>>

Collect ==
  \/ \E e \in Services : GcIdle(e) \/ GcPersist(e) \/ GcSkip(e)
  \/ SaveClear(Gc)
  \/ GcVisited
  \/ GcRemove

-----------------------------------------------------------------------------
\* stop

StopBegin ==
  /\ spc[Stopper] = "idle"
  /\ SGoto(Stopper, "cancelled")
  /\ UNCHANGED <<barrels, pool, bar, subLock, plock, lockVars, barrelEvent, insVars,
                 subVars, handVars, todo, vbar, gcEvent, fileVars>>

StopRLock ==
  /\ spc[Stopper] = "cancelled"
  /\ RLock(Stopper)
  /\ todo' = [todo EXCEPT ![Stopper] = Mapped]
  /\ SGoto(Stopper, "visit")
  /\ UNCHANGED <<barrels, pool, bar, subLock, plock, barrelEvent, insVars, subVars,
                 handVars, vbar, gcEvent, fileVars>>

StopEnd ==
  /\ spc[Stopper] = "visit"
  /\ todo[Stopper] = {}
  /\ Unlock(Stopper)
  /\ SGoto(Stopper, "stopped")
  /\ UNCHANGED <<barrels, pool, bar, subLock, plock, barrelEvent, insVars, subVars,
                 handVars, todo, vbar, gcEvent, fileVars>>

StopSave(e) == SaveCopy(Stopper, e) /\ UNCHANGED gcEvent

StopStep ==
  \/ StopRLock
  \/ \E e \in Services : StopSave(e)
  \/ SaveClear(Stopper)
  \/ StopEnd

-----------------------------------------------------------------------------
Init ==
  /\ barrels = [e \in Services |-> None]
  /\ pool = Barrels
  /\ bar = [b \in Barrels |-> EmptyBarrel]
  /\ subLock = [b \in Barrels |-> None]
  /\ plock = [b \in Barrels |-> None]
  /\ LockInit
  /\ barrelEvent = <<>>
  /\ next = 0
  /\ ipc = [i \in Inserters |-> "receive"]
  /\ imsg = [i \in Inserters |-> None]
  /\ ibar = [i \in Inserters |-> None]
  /\ icopy = [i \in Inserters |-> <<>>]
  /\ wpc = [s \in Subs |-> "start"]
  /\ pending = [s \in Subs |-> None]
  /\ chan = [s \in Subs |-> "none"]
  /\ got = [s \in Subs |-> {}]
  /\ hpc = "idle"
  /\ hbar = None
  /\ spc = [t \in Savers |-> "idle"]
  /\ todo = [t \in Savers |-> {}]
  /\ vbar = [t \in Savers |-> None]
  /\ gcEvent = {}
  /\ file = [e \in Services |-> {}]
  /\ refused = {}

Subscribe(s) == SubAsk(s) \/ SubNewBarrel(s) \/ Register(s)

Handle == HTake \/ HLookup \/ HSave \/ HReset \/ HExit

Next ==
  \/ \E i \in Inserters : Receive(i) \/ Insert(i)
  \/ \E s \in Subs : SubChan(s) \/ Subscribe(s) \/ RealseSubChan(s)
  \/ Handle
  \/ GcTick \/ Collect
  \/ StopBegin \/ StopStep
  \/ ~Running /\ UNCHANGED vars

Spec == Init /\ [][Next]_vars

\* Every goroutine that can go on does; those that wait for the RWMutex get it
\* in turn.  No session has to start or end, the collector's ticker need not
\* fire and nothing forces a log to arrive.
Fairness ==
  /\ \A i \in Inserters : SF_vars(Insert(i))
  /\ \A s \in Subs : SF_vars(Subscribe(s))
  /\ SF_vars(Handle)
  /\ SF_vars(Collect)
  /\ SF_vars(StopStep)

FairSpec == Spec /\ Fairness

-----------------------------------------------------------------------------
\* Properties

Places == {"idle", "cancelled", "visit", "clear", "lock", "stopped"}

TypeOK ==
  /\ barrels \in [Services -> Barrels \cup {None}]
  /\ pool \subseteq Barrels
  /\ bar \in [Barrels -> Barrel]
  /\ Len(barrelEvent) <= ChanCap
  /\ next \in 0..Len(Inbox)
  /\ chan \in [Subs -> {"none", "open", "closed"}]
  /\ hpc \in {"idle", "lookup", "save", "reset", "exited"}
  /\ spc \in [Savers -> Places]
  /\ gcEvent \subseteq Mapped
  /\ file \in [Services -> SUBSET Messages]

\* No send to and no close of a closed channel, which would end the server: a
\* channel that is registered anywhere is open.  The collector, a session that
\* ends and a late registration all close or add channels on their own.
RegisteredIsOpen ==
  \A b \in Barrels : \A s \in bar[b].subs : chan[s] = "open"

\* A barrel object serves one service: no two services share it, and it is not
\* handed out by the pool while a service still uses it.
BarrelHasOneOwner ==
  \A e \in Mapped :
    /\ barrels[e] \notin pool
    /\ \A f \in Mapped : barrels[e] = barrels[f] => e = f

\* The log file of a service has logs of that service only, although barrels
\* are reused and the file is chosen by the first log of a batch.
FileIsPure ==
  \A e \in Services : \A m \in file[e] : ServiceOf[m] = e

\* A session that asked for a service is sent that service's logs only
\* ("Send messages to subscribed channels").
SubscriberIsPure ==
  \A s \in Subs : \A m \in got[s] : ServiceOf[m] = SubService[s]

Written(m) == m \in refused \/ \E e \in Services : m \in file[e]

\* "gc persists data before deleting": a barrel is removed when all it holds has
\* been written.
GcPersistsFirst ==
  [][GcRemove => \A e \in gcEvent : bar[barrels[e]].buf \o bar[barrels[e]].pbuf = <<>>]_vars

\* "Data goes to the persistent waiting queue": the handler drops logs from that
\* queue only once they were written.
QueueIsWritten ==
  [][HReset => \A k \in DOMAIN bar[hbar].pbuf : Written(bar[hbar].pbuf[k])]_vars

\* stop comes to its end, whatever the handler, the collector, receivers and
\* sessions hold or wait for at that moment.
StopReturns == spc[Stopper] = "cancelled" ~> spc[Stopper] = "stopped"

\* A log that was received gets into its barrel: nobody waits for the locks of
\* the store forever.
EveryLogInserted == \A i \in Inserters : ipc[i] = "lookup" ~> (ipc[i] = "receive" \/ ~Running)
=============================================================================
