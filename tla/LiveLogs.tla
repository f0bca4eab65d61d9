------------------------------ MODULE LiveLogs ------------------------------
(***************************************************************************)
(* The operation logs that are watched while they are written: the store   *)
(* of the live messages (eventlog/store/read_message_store.go, the         *)
(* readEventBarrel of barrel.go) together with the web socket sessions     *)
(* that subscribe to it (eventlog/exit/web/pusher.go, manager.go).         *)
(*                                                                         *)
(* A message is the event it belongs to and its number in the order in     *)
(* which the goroutines that receive messages got the store's lock; they   *)
(* hold it during the whole of InsertMessage, so one of them is enough.    *)
(* A connection is a subscription of a session to an event (a Chan of      *)
(* pusher.go; a request of the older pushEventMessage is a session with    *)
(* one of them).  It has the name of the channel made for it.              *)
(*                                                                         *)
(* The collector changes the map of barrels without the lock.  Go may stop *)
(* the process when it notices; the model has the runs in which it does    *)
(* not.  External: sync.Pool, the request that ends, the clock.            *)
(***************************************************************************)
EXTENDS Naturals, Sequences, FiniteSets, SequencesExt

CONSTANTS Events, Sessions, Barrels,
          MaxConns,     \* bound: connections in a behaviour
          MaxMessages,  \* bound: messages
          MaxCollections, \* bound: barrels that grow old
          Cap,          \* capacity of a subscription channel, 10 in the code
          None          \* no barrel, no event, no session

ASSUME LiveLogsAssumption ==
  /\ MaxConns \in Nat /\ MaxMessages \in Nat /\ MaxCollections \in Nat
  /\ Cap \in Nat \ {0}
  /\ None \notin Events \cup Sessions \cup Barrels

Conns == 1..MaxConns
Message == Events \X (1..MaxMessages)

\* Who holds the lock of the store
Free == <<0, "free">>
Inserter == <<0, "insert">>

VARIABLES
  barrels,  \* barrels: event -> its barrel
  pool,     \* the barrels the pool may hand out
  barrel,   \* msgs (barrel), subs (subSocketChan), old (updateTime is past)
  lock,     \* who holds the lock of the store ...
  busy,     \* ... the barrel and event it works on; new: not in the map yet
  subLock,  \* subLock of a barrel: 0, or the channel that is being filled
  numbered, \* the messages so far
  chan,     \* of a channel: whether it is open, what was put in, how much of
            \* that was read, and what insertMessage dropped
  push,     \* the goroutine pushCashMessage of a channel
  conn,     \* a connection: its session, event, channel and where it is
  closer,   \* where the close of a connection is; "done": Chan.closed is set
  chans,    \* PubContext.chans
  gc        \* the collector

storeVars == <<barrels, pool, barrel, lock, busy, subLock, numbered>>
subVars == <<chan, push>>
sessionVars == <<conn, closer, chans>>
vars == <<storeVars, subVars, sessionVars, gc>>

Init ==
  /\ barrels = [e \in Events |-> None]
  /\ pool = Barrels
  /\ barrel = [b \in Barrels |-> [msgs |-> <<>>, subs |-> [s \in Sessions |-> 0],
                                  old |-> FALSE]]
  /\ lock = Free
  /\ busy = [b |-> None, new |-> FALSE, e |-> None]
  /\ subLock = [b \in Barrels |-> 0]
  /\ numbered = 0
  /\ chan = [c \in Conns |-> [open |-> TRUE, put |-> <<>>, read |-> 0, dropped |-> {}]]
  /\ push = [c \in Conns |-> [pc |-> "none", todo |-> <<>>]]
  /\ conn = [c \in Conns |-> [pc |-> "none", s |-> None, e |-> None,
                              b |-> None, ch |-> 0]]
  /\ closer = [c \in Conns |-> "none"]
  /\ chans = [s \in Sessions |-> [e \in Events |-> 0]]
  /\ gc = [pc |-> "idle", n |-> 0, ids |-> {}, e |-> None, b |-> None]

-----------------------------------------------------------------------------
(***************************************************************************)
(* Channels                                                                *)
(***************************************************************************)

Full(c) == Len(chan[c].put) - chan[c].read >= Cap
Unread(c) == Len(chan[c].put) > chan[c].read
Put(c, m) == [chan[c] EXCEPT !.put = Append(@, m)]

\* The barrel of e under the lock, taken from the pool when there is none
GetBarrel(e, b) ==
  IF barrels[e] # None
  THEN b = barrels[e] /\ UNCHANGED pool
  ELSE b \in pool /\ pool' = pool \ {b}

Locked(who, b, e) ==
  /\ lock = Free
  /\ lock' = who
  /\ busy' = [b |-> b, new |-> barrels[e] = None, e |-> e]

\* The lock is given back
Unlock ==
  /\ lock' = Free
  /\ busy' = [b |-> None, new |-> FALSE, e |-> None]

-----------------------------------------------------------------------------
(***************************************************************************)
(* readMessageStore and readEventBarrel                                    *)
(***************************************************************************)

\* InsertMessage, insertMessage: the message is in the barrel before subLock is
\* asked for
InsertMessage(e) ==
  /\ numbered < MaxMessages
  /\ \E b \in Barrels :
       /\ GetBarrel(e, b)
       /\ Locked(Inserter, b, e)
       /\ barrel' = [barrel EXCEPT ![b].msgs = Append(@, <<e, numbered + 1>>),
                                   ![b].old = FALSE]
  /\ numbered' = numbered + 1
  /\ UNCHANGED <<barrels, subLock, subVars, sessionVars, gc>>

\* insertMessage with a plain send
insertMessage_Blocking ==
  /\ lock = Inserter
  /\ subLock[busy.b] = 0
  /\ LET subs == {barrel[busy.b].subs[s] : s \in Sessions} \ {0}
         m == <<busy.e, numbered>>
     IN  /\ \A c \in subs : ~Full(c)
         /\ chan' = [c \in Conns |-> IF c \in subs THEN Put(c, m) ELSE chan[c]]
  /\ barrels' = IF busy.new THEN [barrels EXCEPT ![busy.e] = busy.b] ELSE barrels
  /\ Unlock
  /\ UNCHANGED <<pool, barrel, subLock, numbered, push, sessionVars, gc>>

\* ... and is then offered to every subscription
insertMessage ==
  /\ lock = Inserter
  /\ subLock[busy.b] = 0
  /\ LET subs == {barrel[busy.b].subs[s] : s \in Sessions} \ {0}
         m == <<busy.e, numbered>>
     IN  chan' = [c \in Conns |->
                    CASE c \in subs /\ ~Full(c) -> Put(c, m)
                      [] c \in subs /\ Full(c)  -> [chan[c] EXCEPT !.dropped = @ \cup {m}]
                      [] OTHER                  -> chan[c]]
  /\ barrels' = IF busy.new THEN [barrels EXCEPT ![busy.e] = busy.b] ELSE barrels
  /\ Unlock
  /\ UNCHANGED <<pool, barrel, subLock, numbered, push, sessionVars, gc>>

\* createChan, WebSocketMessageChan, SubChan: the next connection of a session
\* that has no channel for this event.  A barrel that was there keeps its
\* updateTime.
SubChan(c, s, e) ==
  /\ chans[s][e] = 0
  /\ conn[c].pc = "none" /\ \A d \in 1..(c - 1) : conn[d].pc # "none"
  /\ \E b \in Barrels :
       /\ GetBarrel(e, b)
       /\ Locked(<<c, "subscribe">>, b, e)
       /\ barrels' = [barrels EXCEPT ![e] = b]
       /\ barrel' = IF barrels[e] = None THEN [barrel EXCEPT ![b].old = FALSE]
                    ELSE barrel
       /\ conn' = [conn EXCEPT ![c] = [pc |-> "subscribing", s |-> s, e |-> e,
                                       b |-> b, ch |-> 0]]
  /\ UNCHANGED <<subLock, numbered, subVars, closer, chans, gc>>

\* addSubChan: the channel of the subscription that is there, or a new one that
\* a goroutine fills
addSubChan(c) ==
  /\ lock = <<c, "subscribe">>
  /\ subLock[busy.b] = 0
  /\ LET old == barrel[busy.b].subs[conn[c].s]
     IN  /\ conn' = [conn EXCEPT ![c].pc = "open", ![c].ch = IF old = 0 THEN c ELSE old]
         /\ push' = IF old = 0 THEN [push EXCEPT ![c].pc = "start"] ELSE push
  /\ chans' = [chans EXCEPT ![conn[c].s][conn[c].e] = c]
  /\ Unlock
  /\ UNCHANGED <<barrels, pool, barrel, subLock, numbered, chan, closer, gc>>

\* pushCashMessage that copies the cache without the lock
pushBegin_NoLock(c) ==
  /\ push[c].pc = "start"
  /\ push' = [push EXCEPT ![c] = [pc |-> "push", todo |-> barrel[conn[c].b].msgs]]
  /\ UNCHANGED <<storeVars, chan, sessionVars, gc>>

\* pushCashMessage takes subLock; the range statement reads the slice once
pushBegin(c) ==
  /\ push[c].pc = "start"
  /\ subLock[conn[c].b] = 0
  /\ subLock' = [subLock EXCEPT ![conn[c].b] = c]
  /\ push' = [push EXCEPT ![c] = [pc |-> "push", todo |-> barrel[conn[c].b].msgs]]
  /\ UNCHANGED <<barrels, pool, barrel, lock, busy, numbered, chan, sessionVars, gc>>

\* ... sends the newest message first
pushOne_Newest(c) ==
  /\ push[c].pc = "push" /\ push[c].todo # <<>>
  /\ ~Full(c)
  /\ chan' = [chan EXCEPT ![c] = Put(c, Last(push[c].todo))]
  /\ push' = [push EXCEPT ![c].todo = Front(@)]
  /\ UNCHANGED <<storeVars, sessionVars, gc>>

\* ... sends a cached message, waiting for room
pushOne(c) ==
  /\ push[c].pc = "push" /\ push[c].todo # <<>>
  /\ ~Full(c)
  /\ chan' = [chan EXCEPT ![c] = Put(c, Head(push[c].todo))]
  /\ push' = [push EXCEPT ![c].todo = Tail(@)]
  /\ UNCHANGED <<storeVars, sessionVars, gc>>

\* ... and enters the subscription
pushEnd(c) ==
  /\ push[c].pc = "push" /\ push[c].todo = <<>>
  /\ barrel' = [barrel EXCEPT ![conn[c].b].subs[conn[c].s] = c]
  /\ subLock' = [subLock EXCEPT ![conn[c].b] = 0]
  /\ push' = [push EXCEPT ![c].pc = "done"]
  /\ UNCHANGED <<barrels, pool, lock, busy, numbered, chan, sessionVars, gc>>

\* RealseSubChan takes the lock; an event without a barrel has nothing to release
RealseSubChan(c) ==
  /\ closer[c] = "release"
  /\ lock = Free
  /\ IF barrels[conn[c].e] = None
     THEN closer' = [closer EXCEPT ![c] = "done"] /\ UNCHANGED <<lock, busy>>
     ELSE /\ closer' = [closer EXCEPT ![c] = "delete"]
          /\ Locked(<<c, "release">>, barrels[conn[c].e], conn[c].e)
  /\ UNCHANGED <<barrels, pool, barrel, subLock, numbered, subVars, conn, chans, gc>>

\* delSubChan without the delete
Deleted_Keep(b, s) ==
  LET ch == barrel[b].subs[s]
  IN  /\ chan' = IF ch = 0 THEN chan ELSE [chan EXCEPT ![ch].open = FALSE]
      /\ UNCHANGED barrel

\* delSubChan: whichever channel the session has there is closed
Deleted(b, s) ==
  LET ch == barrel[b].subs[s]
  IN  /\ chan' = IF ch = 0 THEN chan ELSE [chan EXCEPT ![ch].open = FALSE]
      /\ barrel' = [barrel EXCEPT ![b].subs[s] = 0]

\* ... under subLock
delSubChan(c) ==
  /\ lock = <<c, "release">>
  /\ subLock[busy.b] = 0
  /\ Deleted(busy.b, conn[c].s)
  /\ closer' = [closer EXCEPT ![c] = "done"]
  /\ Unlock
  /\ UNCHANGED <<barrels, pool, subLock, numbered, push, conn, chans, gc>>

-----------------------------------------------------------------------------
(***************************************************************************)
(* The collector                                                           *)
(***************************************************************************)

\* Two minutes without a message
Expire(e) ==
  /\ barrels[e] # None /\ ~barrel[barrels[e]].old
  /\ gc.n < MaxCollections /\ gc' = [gc EXCEPT !.n = @ + 1]
  /\ barrel' = [barrel EXCEPT ![barrels[e]].old = TRUE]
  /\ UNCHANGED <<barrels, pool, lock, busy, subLock, numbered, subVars, sessionVars>>

\* Gc: the events whose barrel is old
GcScan ==
  /\ gc.pc = "idle"
  /\ LET ids == {e \in Events : barrels[e] # None /\ barrel[barrels[e]].old}
     IN  ids # {} /\ gc' = [gc EXCEPT !.pc = "empty", !.ids = ids]
  /\ UNCHANGED <<storeVars, subVars, sessionVars>>

\* ... empty: under subLock alone
GcEmpty(e) ==
  /\ gc.pc = "empty" /\ e \in gc.ids
  /\ LET b == barrels[e]
         subs == {barrel[b].subs[s] : s \in Sessions} \ {0}
     IN  /\ subLock[b] = 0
         /\ chan' = [c \in Conns |-> IF c \in subs THEN [chan[c] EXCEPT !.open = FALSE]
                                     ELSE chan[c]]
         /\ barrel' = [barrel EXCEPT ![b].msgs = <<>>, ![b].subs = [s \in Sessions |-> 0]]
         /\ gc' = [gc EXCEPT !.pc = "put", !.ids = @ \ {e}, !.e = e, !.b = b]
  /\ UNCHANGED <<barrels, pool, lock, busy, subLock, numbered, push, sessionVars>>

\* ... the barrel goes to the pool
GcPut ==
  /\ gc.pc = "put"
  /\ pool' = pool \cup {gc.b}
  /\ gc' = [gc EXCEPT !.pc = "delete"]
  /\ UNCHANGED <<barrels, barrel, lock, busy, subLock, numbered, subVars, sessionVars>>

\* ... and leaves the map
GcDelete ==
  /\ gc.pc = "delete"
  /\ barrels' = [barrels EXCEPT ![gc.e] = None]
  /\ gc' = [gc EXCEPT !.pc = IF gc.ids = {} THEN "idle" ELSE "empty",
                      !.e = None, !.b = None]
  /\ UNCHANGED <<pool, barrel, lock, busy, subLock, numbered, subVars, sessionVars>>

-----------------------------------------------------------------------------
(***************************************************************************)
(* The sessions                                                            *)
(***************************************************************************)

\* handleChan takes a message and passes it to the session's socket.  The queue
\* of the socket is always drained: a write that fails is only logged.
handleChan(c) ==
  /\ conn[c].pc = "open" /\ Unread(conn[c].ch)
  /\ chan' = [chan EXCEPT ![conn[c].ch].read = @ + 1]
  /\ UNCHANGED <<storeVars, push, sessionVars, gc>>

\* createChan has the lock of the session while it subscribes
Subscribing(s) == \E d \in Conns : conn[d].s = s /\ conn[d].pc = "subscribing"

\* handleChan ends: its channel is closed, a message of step last or callback
\* came, the request has ended, or (pushEventMessage) a write failed or the peer
\* went away.  close: a connection that is not closed yet takes out whatever its
\* session has for the event (removeChan) and goes on to release.
handleChanEnds(c) ==
  /\ conn[c].pc = "open" /\ ~Subscribing(conn[c].s)
  /\ conn' = [conn EXCEPT ![c].pc = "left"]
  /\ IF closer[c] = "done" THEN UNCHANGED <<closer, chans>>
     ELSE /\ closer' = [closer EXCEPT ![c] = "release"]
          /\ chans' = [chans EXCEPT ![conn[c].s][conn[c].e] = 0]
  /\ UNCHANGED <<storeVars, subVars, gc>>

\* RealseWebSocketMessageChan while handleChan still reads, in one step: how it
\* interleaves, and waits for subLock with the lock, is shown by RealseSubChan
\* and delSubChan
Released(c) ==
  /\ conn[c].pc = "open" /\ chans[conn[c].s][conn[c].e] = c
  /\ lock = Free
  /\ LET b == barrels[conn[c].e]
     IN  IF b = None THEN UNCHANGED <<chan, barrel>>
         ELSE subLock[b] = 0 /\ Deleted(b, conn[c].s)
  /\ UNCHANGED <<barrels, pool, lock, busy, subLock, numbered, push, conn, gc>>

\* closeChan (a message cancel:subscribe) and close
closeChan(c) ==
  /\ Released(c) /\ ~Subscribing(conn[c].s)
  /\ closer' = [closer EXCEPT ![c] = "done"]
  /\ chans' = [chans EXCEPT ![conn[c].s][conn[c].e] = 0]

\* Stop: the socket is closed and each subscription of the session released; the
\* session keeps its channels until their goroutines end
Stop(c) == Released(c) /\ UNCHANGED <<closer, chans>>

-----------------------------------------------------------------------------
Push(c) == pushBegin(c) \/ pushOne(c) \/ pushEnd(c)

Next ==
  \/ insertMessage
  \/ \E e \in Events : InsertMessage(e) \/ Expire(e) \/ GcEmpty(e)
  \/ GcScan \/ GcPut \/ GcDelete
  \/ \E c \in Conns :
       \/ \E s \in Sessions, e \in Events : SubChan(c, s, e)
       \/ addSubChan(c) \/ Push(c)
       \/ handleChan(c) \/ handleChanEnds(c) \/ closeChan(c) \/ Stop(c)
       \/ RealseSubChan(c) \/ delSubChan(c)

\* Goroutines that can go on do; no request is ever made to come or to end
Spec ==
  /\ Init /\ [][Next]_vars
  /\ WF_vars(insertMessage)
  /\ \A c \in Conns : /\ WF_vars(addSubChan(c)) /\ WF_vars(Push(c))
                      /\ WF_vars(handleChan(c)) /\ WF_vars(delSubChan(c))

-----------------------------------------------------------------------------
(***************************************************************************)
(* Properties                                                              *)
(***************************************************************************)

Some(S) == S \cup {None}

TypeOK ==
  /\ barrels \in [Events -> Some(Barrels)]
  /\ pool \subseteq Barrels
  /\ barrel \in [Barrels -> [msgs : Seq(Message), subs : [Sessions -> 0..MaxConns],
                             old : BOOLEAN]]
  /\ lock \in {Free, Inserter} \cup (Conns \X {"subscribe", "release"})
  /\ busy \in [b : Some(Barrels), new : BOOLEAN, e : Some(Events)]
  /\ (lock = Free) = (busy.b = None)
  /\ subLock \in [Barrels -> 0..MaxConns]
  /\ numbered \in 0..MaxMessages
  /\ chan \in [Conns -> [open : BOOLEAN, put : Seq(Message), read : Nat,
                         dropped : SUBSET Message]]
  /\ push \in [Conns -> [pc : {"none", "start", "push", "done"}, todo : Seq(Message)]]
  /\ conn \in [Conns -> [pc : {"none", "subscribing", "open", "left"},
                         s : Some(Sessions), e : Some(Events), b : Some(Barrels),
                         ch : 0..MaxConns]]
  /\ closer \in [Conns -> {"none", "release", "delete", "done"}]
  /\ chans \in [Sessions -> [Events -> 0..MaxConns]]
  /\ gc \in [pc : {"idle", "empty", "put", "delete"}, n : 0..MaxCollections,
             ids : SUBSET Events, e : Some(Events), b : Some(Barrels)]

\* A channel that a barrel offers messages to, or that is being filled, is open:
\* whichever of the session, its cancellation and the collector closes it, and
\* even when the collector has meanwhile put the barrel back to use, no send
\* and no second close meets a closed channel and ends the process.
SendsAreOpen ==
  /\ \A b \in Barrels, s \in Sessions :
       barrel[b].subs[s] # 0 => chan[barrel[b].subs[s]].open
  /\ \A c \in Conns : push[c].pc \in {"start", "push"} => chan[c].open

\* A subscriber reads messages in the order they came in: the ones that arrive
\* while the cached ones are still being sent to it come after them.
InOrder ==
  \A c \in Conns : \A i, j \in DOMAIN chan[c].put :
    i < j => chan[c].put[i][2] <= chan[c].put[j][2]

\* Between the copy of the cache and the subscription no message slips through:
\* a subscription was given every message of its barrel, except those that came
\* when its channel was full and the one insertMessage is about to offer.
NoGap ==
  \A b \in Barrels, s \in Sessions :
    LET c == barrel[b].subs[s]
    IN  c # 0 => ToSet(barrel[b].msgs) \ (ToSet(chan[c].put) \cup chan[c].dropped)
                   \subseteq IF lock = Inserter /\ busy.b = b
                             THEN {<<busy.e, numbered>>} ELSE {}

\* A channel that is being filled and full has nobody who reads it
Abandoned ==
  \E c \in Conns : /\ push[c].pc = "push" /\ push[c].todo # <<>> /\ Full(c)
                   /\ \A d \in Conns : ~(conn[d].pc = "open" /\ conn[d].ch = c)

\* The lock of the store always comes free again, so that the messages of all
\* events go on, unless a subscriber has left while more cached messages than
\* its channel holds were on their way to it.
StoreGoesOn == lock # Free ~> (lock = Free \/ Abandoned)

=============================================================================
