----------------------------- MODULE EventClient -----------------------------
(***************************************************************************)
(* The client of the event log (event/manager.go) that builder, worker and *)
(* API write their operation logs through: loggers put messages into the   *)
(* channels of handles, one per event server, whose goroutines (HandleLog) *)
(* send them over gRPC.  When a server fails, the loggers that use its     *)
(* channel are switched to another.                                        *)
(*                                                                         *)
(* A handle and its channel are known by their server and a number.  The   *)
(* messages are left out: the model follows which channel each logger      *)
(* writes to and who reads it.                                             *)
(* A logger without a channel, or whose channel is full, drops messages,   *)
(* and a send that fails loses one.  getLBChan goes round a list whose     *)
(* order is that of a Go map, so any server it accepts may be next.        *)
(* External: gRPC, the service discovery that calls UpdateEndpoints, the   *)
(* users of the loggers, the clock.                                        *)
(***************************************************************************)
EXTENDS Naturals, FiniteSets

CONSTANTS Servers, Events,
          NoChan,                          \* a nil channel
          MaxHandles,                      \* bound: handles made for a server
          MaxLoggers,                      \* bound: loggers made
          MaxFaults, MaxUpdates            \* bounds: failures, updates

Handles == Servers \X (1..MaxHandles)
Loggers == 1..MaxLoggers

ASSUME EventClientAssumption ==
  /\ MaxHandles \in Nat \ {0} /\ MaxLoggers \in Nat
  /\ MaxFaults \in Nat /\ MaxUpdates \in Nat
  /\ NoChan \notin Handles

VARIABLES
  eventServer, abnormalServer,  \* the servers, and those that failed
  handles,                      \* server -> number of its handle, 0: none
  made,                         \* server -> how many handles it has had
  core,                         \* a handle: where its HandleLog is
  loggers,                      \* event -> its logger, 0: none
  logger,                       \* a logger: whether it is in use, its sendChan
  count,                        \* failures and updates so far
  done,                         \* the manager's context is cancelled
  excused                       \* history: handles that may end with loggers on
                                \* their channels, see OrphanIsExcused

managerVars == <<eventServer, abnormalServer, handles, core, made>>
vars == <<managerVars, loggers, logger, count, done, excused>>

-----------------------------------------------------------------------------
(***************************************************************************)
(* Handles and the choice between them                                     *)
(***************************************************************************)

Missing(S) == {s \in S : handles[s] = 0}
Registered == {<<s, handles[s]>> : s \in {t \in Servers : handles[t] # 0}}

\* Room for new handles for the servers of S
Room(S) == \A s \in S : made[s] < MaxHandles

\* New handles for the servers of S, each with its goroutine
NewHandles(S) == [s \in Servers |-> IF s \in S THEN made[s] + 1 ELSE handles[s]]
NewMade(S) == [s \in Servers |-> IF s \in S THEN made[s] + 1 ELSE made[s]]
NewCore(S) == [h \in Handles |-> IF h[1] \in S /\ h[2] = made[h[1]] + 1 THEN "connect"
                                 ELSE core[h]]

\* getLBChan for every logger of ls: a server that is not abnormal, whose handle
\* is made when there is none ("new"); failing that any handle ("last"), or nil
getLBChan(ls, abnormal) ==
  LET usable == eventServer \ abnormal
  IN  IF usable # {}
      THEN {[new |-> Missing({to[l] : l \in ls}), last |-> {},
             ch |-> [l \in ls |-> <<to[l], NewHandles(Missing({to[l]}))[to[l]]>>]] :
              to \in [ls -> usable]}
      ELSE {[new |-> {}, last |-> {ch[l] : l \in ls} \ {NoChan}, ch |-> ch] :
              ch \in [ls -> IF Registered = {} THEN {NoChan} ELSE Registered]}

Switched(ch) ==
  [l \in Loggers |-> IF l \in DOMAIN ch THEN [logger[l] EXCEPT !.ch = ch[l]] ELSE logger[l]]

-----------------------------------------------------------------------------
(***************************************************************************)
(* The manager: every operation has its lock                               *)
(***************************************************************************)

\* Start: a handle for every configured server
Init ==
  /\ eventServer \in SUBSET Servers
  /\ abnormalServer = {}
  /\ handles = [s \in Servers |-> IF s \in eventServer THEN 1 ELSE 0]
  /\ made = handles
  /\ core = [h \in Handles |-> IF h[1] \in eventServer /\ h[2] = 1 THEN "connect" ELSE "none"]
  /\ loggers = [e \in Events |-> 0]
  /\ logger = [l \in Loggers |-> [event |-> "none", used |-> FALSE, ch |-> NoChan]]
  /\ count = [faults |-> 0, updates |-> 0]
  /\ done = FALSE
  /\ excused = {}

Fault == count.faults < MaxFaults /\ count' = [count EXCEPT !.faults = @ + 1]

\* UpdateEndpoints that keeps the handles of servers that are gone
UpdateEndpoints_KeepOld(S) ==
  /\ S # {} /\ ~done
  /\ count.updates < MaxUpdates /\ count' = [count EXCEPT !.updates = @ + 1]
  /\ Room(Missing(S))
  /\ handles' = NewHandles(Missing(S))
  /\ core' = NewCore(Missing(S)) /\ made' = NewMade(Missing(S))
  /\ eventServer' = S
  /\ abnormalServer' = {}
  /\ excused' = excused \cup {h \in Handles : core[h] = "leave"}
  /\ UNCHANGED <<loggers, logger, done>>

\* UpdateEndpoints: an empty list is ignored.  The handle of a server that is
\* gone is taken out of the map; its goroutine and its loggers stay as they are.
UpdateEndpoints(S) ==
  /\ S # {} /\ ~done
  /\ count.updates < MaxUpdates /\ count' = [count EXCEPT !.updates = @ + 1]
  /\ Room(Missing(S))
  /\ handles' = [s \in Servers |-> IF s \in S THEN NewHandles(Missing(S))[s] ELSE 0]
  /\ core' = NewCore(Missing(S)) /\ made' = NewMade(Missing(S))
  /\ eventServer' = S
  /\ abnormalServer' = {}
  /\ excused' = excused \cup {h \in Handles : core[h] = "leave"}
  /\ UNCHANGED <<loggers, logger, done>>

\* GetLogger for an event that has none (else its logger is shared)
GetLogger(l, e) ==
  /\ loggers[e] = 0
  /\ logger[l].event = "none" /\ \A k \in 1..(l - 1) : logger[k].event # "none"
  /\ \E r \in getLBChan({l}, abnormalServer) :
       /\ Room(r.new)
       /\ handles' = NewHandles(r.new) /\ core' = NewCore(r.new) /\ made' = NewMade(r.new)
       /\ logger' = [logger EXCEPT ![l] = [event |-> e, used |-> TRUE, ch |-> r.ch[l]]]
       /\ excused' = excused \cup r.last
  /\ loggers' = [loggers EXCEPT ![e] = l]
  /\ UNCHANGED <<eventServer, abnormalServer, count, done>>

\* ReleaseLogger: whichever logger the event has leaves the map
ReleaseLogger(l) ==
  /\ logger[l].used
  /\ logger' = [logger EXCEPT ![l].used = FALSE]
  /\ loggers' = [loggers EXCEPT ![logger[l].event] = 0]
  /\ UNCHANGED <<managerVars, count, done, excused>>

\* GC: a logger of more than a minute leaves the map; its user keeps it
GC(e) ==
  /\ loggers[e] # 0
  /\ loggers' = [loggers EXCEPT ![e] = 0]
  /\ UNCHANGED <<managerVars, logger, count, done, excused>>

\* Close
Close ==
  /\ ~done /\ done' = TRUE
  /\ UNCHANGED <<managerVars, loggers, logger, count, excused>>

-----------------------------------------------------------------------------
(***************************************************************************)
(* HandleLog                                                               *)
(***************************************************************************)

Goto(h, pc) == core' = [core EXCEPT ![h] = pc]
SameManager == UNCHANGED <<eventServer, abnormalServer, handles, made>>

\* The client is made and the stream opened
Connect(h) ==
  /\ core[h] = "connect"
  /\ Goto(h, "stream")
  /\ SameManager /\ UNCHANGED <<loggers, logger, count, done, excused>>

\* NewEventClient fails: the goroutine ends without a word to the loggers
ConnectFails(h) ==
  /\ core[h] = "connect" /\ Fault
  /\ Goto(h, "end")
  /\ excused' = excused \cup {h}
  /\ SameManager /\ UNCHANGED <<loggers, logger, done>>

\* client.Log fails: the goroutine will end
LogFails(h) ==
  /\ core[h] = "connect" /\ Fault
  /\ Goto(h, "discard")
  /\ SameManager /\ UNCHANGED <<loggers, logger, done, excused>>

\* A Send fails: the stream will be opened again
SendFails(h) ==
  /\ core[h] = "stream" /\ Fault
  /\ Goto(h, "discard and retry")
  /\ SameManager /\ UNCHANGED <<loggers, logger, done, excused>>

\* DiscardedLoggerChan that does not mark the server
DiscardedLoggerChan_NoMark(h) ==
  /\ core[h] \in {"discard", "discard and retry"}
  /\ LET users == {loggers[e] : e \in Events} \cap {l \in Loggers : logger[l].ch = h}
     IN  \E r \in getLBChan(users, abnormalServer) :
           /\ Room(r.new)
           /\ handles' = NewHandles(r.new) /\ made' = NewMade(r.new)
           /\ core' = [NewCore(r.new) EXCEPT ![h] = IF @ = "discard" THEN "leave" ELSE "wait"]
           /\ logger' = Switched(r.ch)
           /\ excused' = excused \cup r.last
  /\ UNCHANGED <<eventServer, abnormalServer, loggers, count, done>>

\* DiscardedLoggerChan: the server, if this is still its handle, is abnormal, and
\* the loggers in the map that use the channel are given others
DiscardedLoggerChan(h) ==
  /\ core[h] \in {"discard", "discard and retry"}
  /\ abnormalServer' = abnormalServer \cup {s \in Servers : <<s, handles[s]>> = h}
  /\ LET users == {loggers[e] : e \in Events} \cap {l \in Loggers : logger[l].ch = h}
     IN  \E r \in getLBChan(users, abnormalServer') :
           /\ Room(r.new)
           /\ handles' = NewHandles(r.new) /\ made' = NewMade(r.new)
           /\ core' = [NewCore(r.new) EXCEPT ![h] = IF @ = "discard" THEN "leave" ELSE "wait"]
           /\ logger' = Switched(r.ch)
           /\ excused' = excused \cup r.last
  /\ UNCHANGED <<eventServer, loggers, count, done>>

\* Exec: three seconds later the stream is opened again
Retry(h) ==
  /\ core[h] = "wait" /\ ~done
  /\ Goto(h, "connect")
  /\ SameManager /\ UNCHANGED <<loggers, logger, count, done, excused>>

\* ... unless the manager was closed
CtxDone(h) ==
  /\ core[h] \in {"stream", "wait"} /\ done
  /\ Goto(h, "end")
  /\ excused' = excused \cup {h}
  /\ SameManager /\ UNCHANGED <<loggers, logger, count, done>>

\* The end of HandleLog without its deferred RemoveHandle
RemoveHandle_Skip(h) ==
  /\ core[h] \in {"leave", "end"}
  /\ Goto(h, "gone")
  /\ SameManager /\ UNCHANGED <<loggers, logger, count, done, excused>>

\* RemoveHandle, deferred: whichever handle the server has leaves the map
RemoveHandle(h) ==
  /\ core[h] \in {"leave", "end"}
  /\ Goto(h, "gone")
  /\ handles' = [handles EXCEPT ![h[1]] = 0]
  /\ UNCHANGED <<eventServer, abnormalServer, made, loggers, logger, count, done,
                 excused>>

HandleLog(h) ==
  \/ Connect(h) \/ DiscardedLoggerChan(h) \/ Retry(h) \/ CtxDone(h)
  \/ RemoveHandle(h)

Next ==
  \/ \E S \in SUBSET Servers : UpdateEndpoints(S)
  \/ \E l \in Loggers : ReleaseLogger(l) \/ \E e \in Events : GetLogger(l, e)
  \/ \E e \in Events : GC(e)
  \/ Close
  \/ \E h \in Handles : HandleLog(h) \/ ConnectFails(h) \/ LogFails(h) \/ SendFails(h)

Spec == Init /\ [][Next]_vars

-----------------------------------------------------------------------------
(***************************************************************************)
(* Properties                                                              *)
(***************************************************************************)

\* Places of a goroutine that has not ended
Running == {"connect", "stream", "discard", "discard and retry", "wait", "leave", "end"}

TypeOK ==
  /\ eventServer \subseteq Servers /\ abnormalServer \subseteq Servers
  /\ handles \in [Servers -> 0..MaxHandles] /\ made \in [Servers -> 0..MaxHandles]
  /\ core \in [Handles -> Running \cup {"none", "gone"}]
  /\ loggers \in [Events -> 0..MaxLoggers]
  /\ logger \in [Loggers -> [event : Events \cup {"none"}, used : BOOLEAN,
                              ch : Handles \cup {NoChan}]]
  /\ count \in [faults : 0..MaxFaults, updates : 0..MaxUpdates]
  /\ done \in BOOLEAN /\ excused \subseteq Handles

Serving == {"connect", "stream", "discard", "discard and retry", "wait"}

\* A channel that getLBChan offers to new loggers, that of a named server without
\* a mark, is read by a goroutine or will be switched away from by one before it
\* ends, although handles of one server come and go and the goroutine of an
\* earlier one may remove a later.  Excused are a goroutine whose mark an update
\* cleared while it was ending, and one that ends because NewEventClient failed or
\* the manager was closed: they read nothing more and are still offered.
OfferedAreServed ==
  \A s \in eventServer \ abnormalServer : handles[s] # 0 =>
    \/ core[<<s, handles[s]>>] \in Serving
    \/ <<s, handles[s]>> \in excused /\ core[<<s, handles[s]>>] \in {"leave", "end"}

\* Only servers the discovery named last have a handle that new loggers may be
\* given: goroutines that end, fail and make handles again bring none back.
OnlyNamedServers ==
  \A s \in Servers : handles[s] # 0 => s \in eventServer

\* A logger in the map is left with a channel that nobody reads only when
\* getLBChan had nothing but that channel to give, when an update cleared the
\* mark of the server while its goroutine was ending, when NewEventClient failed
\* or the manager was closed.
OrphanIsExcused ==
  \A e \in Events : loggers[e] # 0 =>
    LET h == logger[loggers[e]].ch
    IN  h # NoChan /\ core[h] = "gone" => h \in excused

\* "Switch the logger using this chan to other chan": a goroutine that has
\* discarded its channel and is about to end leaves no logger of the map on it.
LoggersAreSwitched ==
  \A e \in Events, h \in Handles :
    loggers[e] # 0 /\ logger[loggers[e]].ch = h => core[h] # "leave"

=============================================================================
