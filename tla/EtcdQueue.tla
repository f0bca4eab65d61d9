----------------------------- MODULE EtcdQueue -----------------------------
(***************************************************************************)
(* The message queue of the platform (src/mq on top of src/util/etcd).     *)
(* A queue is the set of etcd keys below the topic's prefix.  Enqueue      *)
(* creates a key named after the wall clock, Dequeue reads the key that    *)
(* was created first, deletes it in a transaction that compares its        *)
(* ModRevision, and waits on a watch when there is nothing to take.  Any   *)
(* number of mq servers and consumers work on the same keys, so every      *)
(* etcd call below is a step of its own.                                   *)
(*                                                                         *)
(* etcd itself is not part of the repository.  Modelled from its use: a    *)
(* store with one revision counter, linearizable reads and transactions,   *)
(* and watches that replay every PUT from a given revision on.             *)
(***************************************************************************)
EXTENDS Integers, FiniteSets

CONSTANTS
  Topics,      \* topics registered by etcdQueue.Start
  Covers,      \* Covers[t]: topics whose keys have the prefix of t
  Consumers,   \* concurrent callers of Dequeue, each in its own loop
  TopicOf,     \* the topic a consumer asks for
  Messages,    \* messages that are sent
  Stamps,      \* values of time.Now().UnixNano() on the mq servers
  MaxFaults    \* bound on failing etcd or gRPC calls

ASSUME CoversAssumption ==
  /\ Covers \in [Topics -> SUBSET Topics]
  /\ \A t \in Topics : t \in Covers[t]

ASSUME TopicOfAssumption == TopicOf \in [Consumers -> Topics]

ASSUME MaxFaultsAssumption == MaxFaults \in Nat

Keys == Topics \X Stamps

\* A key with its ModRevision and value, as etcd answers it.
KV == [key : Keys, rev : Nat, val : Messages]

NoKV == [rev |-> 0]

VARIABLES
  revision,   \* etcd: revision of the store
  store,      \* etcd: the keys that exist
  puts,       \* etcd: the PUT events a watch can replay
  sent,       \* messages whose Enqueue has stored them
  pc,         \* where in Dequeue a consumer is
  cand,       \* the key-value it is trying to claim
  more,       \* resp.More of its last Get
  header,     \* resp.Header.Revision of its last Get
  delivered,  \* number of times a message was handed over
  lost,       \* messages deleted whose answer was lost
  faults      \* failures so far

etcdVars == <<revision, store, puts>>
consVars == <<pc, cand, more, header>>
histVars == <<sent, delivered, lost>>
vars == <<etcdVars, consVars, histVars, faults>>

-----------------------------------------------------------------------------
\* The etcd store

Live(k) == \E e \in store : e.key = k

\* What a Get or a Watch with the prefix of topic t sees of a set of keys.
Prefixed(S, t) == {e \in S : e.key[1] \in Covers[t]}

\* Fault: sorted the other way round.
First_Newest(S) == {e \in S : \A f \in S : e.rev >= f.rev}

\* WithFirstRev: sorted by ModRevision, ascending, limit 1.
First(S) == {e \in S : \A f \in S : e.rev <= f.rev}

\* Fault: only the existence of the key is compared.
RevMatches_AnyRevision(kv) == Live(kv.key)

\* Fault: the comparison has the wrong sign.
RevMatches_Older(kv) == \E e \in store : e.key = kv.key /\ e.rev < kv.rev

\* The comparison of deleteRevKey's transaction: the key still has the
\* revision that was read.
RevMatches(kv) == \E e \in store : e.key = kv.key /\ e.rev = kv.rev

\* The transaction's Then branch.
DeleteKey(k) ==
  /\ revision' = revision + 1
  /\ store' = {e \in store : e.key # k}
  /\ UNCHANGED puts

-----------------------------------------------------------------------------
\* Enqueue

\* putNewKV succeeds: the key did not exist.  When it does exist the caller
\* tries again with another stamp, which changes nothing here.  A caller that
\* gets an error may send the task again: that is another message.
Enqueue(t, m, s) ==
  LET kv == [key |-> <<t, s>>, rev |-> revision + 1, val |-> m] IN
  /\ m \notin sent
  /\ ~Live(kv.key)
  /\ revision' = revision + 1
  /\ store' = store \cup {kv}
  /\ puts' = puts \cup {kv}
  /\ sent' = sent \cup {m}
  /\ UNCHANGED <<consVars, delivered, lost, faults>>

-----------------------------------------------------------------------------
\* Dequeue

Goto(c, l) == pc' = [pc EXCEPT ![c] = l]

\* Dequeue returns, or its loop starts over: the variables of the iteration
\* are gone.
Leave(c, l) ==
  /\ Goto(c, l)
  /\ cand' = [cand EXCEPT ![c] = NoKV]
  /\ more' = [more EXCEPT ![c] = FALSE]
  /\ header' = [header EXCEPT ![c] = 0]

\* A consumer calls Dequeue for its (registered) topic.
Request(c) ==
  /\ pc[c] = "idle"
  /\ Goto(c, "get")
  /\ UNCHANGED <<etcdVars, cand, more, header, histVars, faults>>

\* Get with the topic's prefix.  With no key, claimFirstKey has nothing to
\* do and the consumer goes on to the watch.
Get(c) ==
  LET found == Prefixed(store, TopicOf[c]) IN
  /\ pc[c] = "get"
  /\ header' = [header EXCEPT ![c] = revision]
  /\ \/ /\ found = {}
        /\ Goto(c, "wait")
        /\ UNCHANGED <<cand, more>>
     \/ \E kv \in First(found) :
          /\ cand' = [cand EXCEPT ![c] = kv]
          /\ more' = [more EXCEPT ![c] = found # {kv}]
          /\ Goto(c, "claim")
  /\ UNCHANGED <<etcdVars, histVars, faults>>

\* The comparison fails: another consumer was faster.  When the Get had seen
\* more keys, or the key came from the watch, Dequeue starts over; otherwise
\* it waits for a new key.
ClaimMissed(c) ==
  /\ pc[c] \in {"claim", "claimEvent"}
  /\ ~RevMatches(cand[c])
  /\ IF pc[c] = "claimEvent" \/ more[c]
       THEN Leave(c, "get")
       ELSE /\ Goto(c, "wait")
            /\ cand' = [cand EXCEPT ![c] = NoKV]
            /\ UNCHANGED <<more, header>>
  /\ UNCHANGED <<etcdVars, histVars, faults>>

\* The key is deleted and the consumer is told so.
Claim(c) ==
  /\ pc[c] \in {"claim", "claimEvent"}
  /\ RevMatches(cand[c])
  /\ DeleteKey(cand[c].key)
  /\ Goto(c, "reply")
  /\ UNCHANGED <<cand, more, header, histVars, faults>>

\* waitEvents returns the first PUT the watch delivers; the watch starts at
\* the revision of the Get.
WatchEvent(c) ==
  /\ pc[c] = "wait"
  /\ \E e \in First({f \in Prefixed(puts, TopicOf[c]) : f.rev >= header[c]}) :
       cand' = [cand EXCEPT ![c] = e]
  /\ Goto(c, "claimEvent")
  /\ UNCHANGED <<etcdVars, more, header, histVars, faults>>

\* The 30 second timer, an error of the watch or an empty watch response:
\* ErrNoUpdateForLongTime, and the loop starts over.
WatchTimeout(c) ==
  /\ pc[c] = "wait"
  /\ Leave(c, "get")
  /\ UNCHANGED <<etcdVars, histVars, faults>>

\* mqServer.Dequeue answers.
Reply(c) ==
  /\ pc[c] = "reply"
  /\ delivered' = [delivered EXCEPT ![cand[c].val] = @ + 1]
  /\ Leave(c, "idle")
  /\ UNCHANGED <<etcdVars, sent, lost, faults>>

-----------------------------------------------------------------------------
\* Failures.  Every error ends Dequeue; the consumer's loop calls it again.

Fault ==
  /\ faults < MaxFaults
  /\ faults' = faults + 1

\* Get, the making of the watch, or a transaction that was not executed,
\* returns an error.
CallFails(c) ==
  /\ Fault
  /\ pc[c] \in {"get", "claim", "wait", "claimEvent"}
  /\ Leave(c, "idle")
  /\ UNCHANGED <<etcdVars, histVars>>

\* The transaction is executed but its answer is lost (or the context ends):
\* Dequeue returns the error and the message is gone.
ClaimAnswerLost(c) ==
  /\ Fault
  /\ pc[c] \in {"claim", "claimEvent"}
  /\ RevMatches(cand[c])
  /\ DeleteKey(cand[c].key)
  /\ lost' = lost \cup {cand[c].val}
  /\ Leave(c, "idle")
  /\ UNCHANGED <<sent, delivered>>

\* The answer of mqServer.Dequeue does not reach its caller.
ReplyLost(c) ==
  /\ Fault
  /\ pc[c] = "reply"
  /\ lost' = lost \cup {cand[c].val}
  /\ Leave(c, "idle")
  /\ UNCHANGED <<etcdVars, sent, delivered>>

-----------------------------------------------------------------------------
Locations == {"idle", "get", "claim", "wait", "claimEvent", "reply"}

TypeOK ==
  /\ revision \in Nat
  /\ store \in SUBSET KV
  /\ puts \in SUBSET KV
  /\ sent \in SUBSET Messages
  /\ pc \in [Consumers -> Locations]
  /\ cand \in [Consumers -> KV \cup {NoKV}]
  /\ more \in [Consumers -> BOOLEAN]
  /\ header \in [Consumers -> Nat]
  /\ delivered \in [Messages -> Nat]
  /\ lost \in SUBSET Messages
  /\ faults \in Nat

Init ==
  /\ revision = 0
  /\ store = {}
  /\ puts = {}
  /\ sent = {}
  /\ pc = [c \in Consumers |-> "idle"]
  /\ cand = [c \in Consumers |-> NoKV]
  /\ more = [c \in Consumers |-> FALSE]
  /\ header = [c \in Consumers |-> 0]
  /\ delivered = [m \in Messages |-> 0]
  /\ lost = {}
  /\ faults = 0

Step(c) ==
  \/ Request(c)
  \/ Get(c)
  \/ ClaimMissed(c)
  \/ Claim(c)
  \/ WatchEvent(c)
  \/ WatchTimeout(c)
  \/ Reply(c)

Failure(c) == CallFails(c) \/ ClaimAnswerLost(c) \/ ReplyLost(c)

Next ==
  \/ \E t \in Topics, m \in Messages, s \in Stamps : Enqueue(t, m, s)
  \/ \E c \in Consumers : Step(c) \/ Failure(c)

Spec == Init /\ [][Next]_vars

\* The consumers (TaskManager.Do of the worker, exec of the builder) call
\* Dequeue in an endless loop, the watch has a timer, and etcd answers but
\* for the MaxFaults failures: no consumer stays in one place forever.
FairSpec == Spec /\ \A c \in Consumers : WF_vars(Step(c))

-----------------------------------------------------------------------------
\* Properties

\* Messages that a consumer has taken out of the store and not yet answered.
InHand == {cand[c].val : c \in {d \in Consumers : pc[d] = "reply"}}

\* Dequeue hands a message to at most one consumer, once: two consumers that
\* read the same key, or a consumer whose key was deleted and created again
\* with the same stamp, do not both get it.
AtMostOnce == \A m \in Messages : delivered[m] <= 1

\* Every message that was stored is still stored, on its way to a consumer,
\* delivered, or was lost with the answer of a call; and each such failure
\* costs at most one message.
NothingVanishes ==
  /\ \A m \in sent :
       \/ \E e \in store : e.val = m
       \/ m \in InHand
       \/ delivered[m] > 0
       \/ m \in lost
  /\ Cardinality(lost) <= faults

\* As long as no registered topic is a prefix of another one, a consumer only
\* gets messages that were sent to its own topic.
PrefixFree == \A t \in Topics : Covers[t] = {t}

OwnTopicOnly ==
  PrefixFree => \A c \in Consumers :
                  pc[c] = "reply" => \E e \in puts :
                                       /\ e.val = cand[c].val
                                       /\ e.key[1] = TopicOf[c]

Queue == INSTANCE FifoQueue WITH
  waiting <- {[ord |-> e.rev, topic |-> e.key[1], msg |-> e.val] : e \in store},
  inhand <- InHand,
  delivered <- {m \in Messages : delivered[m] > 0}

\* The keys in etcd and the claims of concurrent consumers implement a first
\* in, first out queue per topic ("Dequeue returns Enqueue()'d elements in
\* FIFO order"), also when topics overlap.
ImplementsFifo == Queue!FifoSpec

\* "Dequeue blocks until elements are available" and no longer: a stored
\* message reaches a consumer unless a failing call loses it.
EventuallyDelivered ==
  \A m \in Messages : m \in sent ~> (delivered[m] > 0 \/ m \in lost)
=============================================================================
