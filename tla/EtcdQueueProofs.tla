-------------------------- MODULE EtcdQueueProofs --------------------------
(***************************************************************************)
(* Proofs about EtcdQueue, for any number of topics, consumers, messages   *)
(* and failures, and for any overlap of the topics' prefixes.              *)
(***************************************************************************)
EXTENDS EtcdQueue, FiniteSetTheorems, TLAPS

Claiming(c) == pc[c] \in {"claim", "claimEvent"}

\* The store only holds keys some Enqueue put; a revision and a message
\* belong to one put.
PutsOK ==
  /\ store \subseteq puts
  /\ \A e \in puts : e.rev > 0 /\ e.rev <= revision /\ e.val \in sent
  /\ \A e, f \in puts : e.rev = f.rev \/ e.val = f.val => e = f

StoreOK == \A e, f \in store : e.key = f.key => e = f

\* What a consumer tries to claim, or has claimed, was put under a key with
\* the prefix of its topic.
CandOK ==
  \A c \in Consumers :
    Claiming(c) \/ pc[c] = "reply" => cand[c] \in Prefixed(puts, TopicOf[c])

\* Nothing older than the candidate waits below the prefix: what was there at
\* the Get is younger, and so is all that came later.
FirstOK ==
  \A c \in Consumers : Claiming(c) =>
    \A e \in Prefixed(store, TopicOf[c]) : cand[c].rev <= e.rev

\* A consumer that goes to the watch has seen the queue empty at revision
\* header: whatever is there now was put at header or later.
WaitOK ==
  \A c \in Consumers :
    /\ header[c] <= revision
    /\ pc[c] = "wait" =>
         \A e \in Prefixed(store, TopicOf[c]) : e.rev >= header[c]
    /\ pc[c] = "claim" /\ ~more[c] =>
         \A e \in Prefixed(store, TopicOf[c]) : e = cand[c] \/ e.rev >= header[c]

\* A message is in one place only.
PlaceOK ==
  /\ \A e \in store : delivered[e.val] = 0 /\ e.val \notin lost
  /\ \A m \in Messages : m \notin sent => delivered[m] = 0 /\ m \notin lost
  /\ \A m \in Messages : delivered[m] > 0 => m \notin lost
  /\ \A c \in Consumers : pc[c] = "reply" =>
       /\ cand[c] \notin store
       /\ delivered[cand[c].val] = 0
       /\ cand[c].val \notin lost
       /\ \A d \in Consumers : pc[d] = "reply" /\ cand[c] = cand[d] => c = d

\* Every sent message is in some place.
SomewhereOK ==
  \A m \in sent :
    \/ \E e \in store : e.val = m
    \/ \E c \in Consumers : pc[c] = "reply" /\ cand[c].val = m
    \/ delivered[m] > 0
    \/ m \in lost

LostOK == IsFiniteSet(lost) /\ Cardinality(lost) <= faults

IInv ==
  /\ TypeOK
  /\ PutsOK
  /\ StoreOK
  /\ CandOK
  /\ FirstOK
  /\ WaitOK
  /\ PlaceOK
  /\ AtMostOnce
  /\ SomewhereOK
  /\ LostOK

-----------------------------------------------------------------------------
\* The initial state satisfies every part of the invariant.
LEMMA InitInv == Init => IInv
<1> SUFFICES ASSUME Init PROVE IInv
  OBVIOUS
<1> USE DEF Init
<1>1. TypeOK
  BY MaxFaultsAssumption DEF TypeOK, Locations
<1>2. PutsOK /\ StoreOK
  BY DEF PutsOK, StoreOK
<1>3. CandOK /\ FirstOK /\ WaitOK
  BY DEF CandOK, FirstOK, WaitOK, Claiming, Prefixed
<1>4. PlaceOK /\ AtMostOnce /\ SomewhereOK
  BY DEF PlaceOK, AtMostOnce, SomewhereOK
<1>5. LostOK
  BY FS_EmptySet DEF LostOK
<1> QED
  BY <1>1, <1>2, <1>3, <1>4, <1>5 DEF IInv

\* A claim whose comparison succeeds deletes exactly the key-value that was
\* read, not a later one with the same name.
LEMMA ClaimDeletesCandidate ==
  ASSUME IInv, NEW c \in Consumers, Claiming(c), RevMatches(cand[c]),
         DeleteKey(cand[c].key)
  PROVE  /\ cand[c] \in store
         /\ store' = store \ {cand[c]}
         /\ revision' = revision + 1
         /\ puts' = puts
<1>1. cand[c] \in puts
  BY DEF IInv, CandOK, Prefixed
<1>2. PICK e \in store : e.key = cand[c].key /\ e.rev = cand[c].rev
  BY DEF RevMatches
<1>3. e = cand[c]
  BY <1>1, <1>2 DEF IInv, PutsOK
<1>4. \A f \in store : f.key = cand[c].key => f = cand[c]
  BY <1>3 DEF IInv, StoreOK
<1> QED
  BY <1>3, <1>4 DEF DeleteKey

-----------------------------------------------------------------------------
\* Enqueue puts a key that is younger than everything in the store.
LEMMA EnqueueInv ==
  ASSUME IInv, NEW t \in Topics, NEW m \in Messages, NEW s \in Stamps,
         Enqueue(t, m, s)
  PROVE  IInv'
<1> DEFINE kv == [key |-> <<t, s>>, rev |-> revision + 1, val |-> m]
<1>0. /\ m \notin sent /\ ~Live(kv.key)
      /\ revision' = revision + 1
      /\ store' = store \cup {kv} /\ puts' = puts \cup {kv}
      /\ sent' = sent \cup {m}
      /\ pc' = pc /\ cand' = cand /\ more' = more /\ header' = header
      /\ delivered' = delivered /\ lost' = lost /\ faults' = faults
  BY DEF Enqueue, consVars
<1>t. TypeOK /\ revision \in Nat /\ store \subseteq KV /\ puts \subseteq KV
  BY DEF IInv, TypeOK
<1>k. kv \in KV /\ kv.rev = revision + 1 /\ kv.val = m /\ kv.key = <<t, s>>
  BY <1>t DEF KV, Keys
<1> HIDE DEF kv
<1>1. TypeOK'
  BY <1>0, <1>t, <1>k DEF TypeOK
<1>2. PutsOK'
  BY <1>0, <1>t, <1>k DEF IInv, PutsOK, KV
<1>3. StoreOK'
  BY <1>0, <1>k DEF IInv, StoreOK, Live
<1>4. CandOK'
  BY <1>0 DEF IInv, CandOK, Claiming, Prefixed
<1>5. FirstOK'
  <2> SUFFICES ASSUME NEW c \in Consumers, Claiming(c),
                      NEW e \in Prefixed(store, TopicOf[c]) \cup {kv}
               PROVE  cand[c].rev <= e.rev
    BY <1>0 DEF FirstOK, Claiming, Prefixed
  <2>1. cand[c] \in puts /\ cand[c].rev <= revision /\ cand[c].rev \in Nat
    BY <1>t DEF IInv, CandOK, PutsOK, Prefixed, KV
  <2> QED
    BY <2>1, <1>k, <1>t DEF IInv, FirstOK
<1>6. WaitOK'
  BY <1>0, <1>t, <1>k DEF IInv, WaitOK, TypeOK, Prefixed
<1>7. PlaceOK'
  <2>1. \A c \in Consumers : pc[c] = "reply" => cand[c].val # m
    BY <1>0 DEF IInv, CandOK, Prefixed, PutsOK
  <2> QED
    BY <1>0, <1>k, <2>1 DEF IInv, PlaceOK
<1>8. AtMostOnce' /\ LostOK'
  BY <1>0 DEF IInv, AtMostOnce, LostOK
<1>9. SomewhereOK'
  BY <1>0, <1>k DEF IInv, SomewhereOK
<1> QED
  BY <1>1, <1>2, <1>3, <1>4, <1>5, <1>6, <1>7, <1>8, <1>9 DEF IInv

\* What the steps of a single consumer c have in common.
Moves(c) ==
  /\ pc' \in [Consumers -> Locations]
  /\ cand' \in [Consumers -> KV \cup {NoKV}]
  /\ more' \in [Consumers -> BOOLEAN]
  /\ header' \in [Consumers -> Nat]
  /\ header'[c] <= revision
  /\ \A d \in Consumers \ {c} :
       /\ pc'[d] = pc[d]
       /\ cand'[d] = cand[d]
       /\ more'[d] = more[d]
       /\ header'[d] = header[d]

\* A step that leaves etcd and the messages alone and puts one consumer in a
\* place where it claims and answers nothing keeps the invariant.
LEMMA QuietInv ==
  ASSUME IInv, NEW c \in Consumers, NEW l \in {"idle", "get", "wait"},
         UNCHANGED <<etcdVars, histVars>>,
         pc[c] # "reply",
         Moves(c), pc'[c] = l,
         faults' \in Nat, faults' >= faults,
         l = "wait" => \A e \in Prefixed(store, TopicOf[c]) : e.rev >= header'[c]
  PROVE  IInv'
<1> USE DEF etcdVars, histVars
<1>t. TypeOK
  BY DEF IInv
<1>1. TypeOK'
  BY <1>t DEF TypeOK, Moves
<1>2. PutsOK' /\ StoreOK'
  BY DEF IInv, PutsOK, StoreOK
<1>3. CandOK'
  BY DEF Moves, IInv, CandOK, Claiming, Prefixed
<1>4. FirstOK'
  BY DEF Moves, IInv, FirstOK, Claiming, Prefixed
<1>5. WaitOK'
  BY DEF Moves, IInv, WaitOK, Prefixed
<1>6. PlaceOK'
  BY DEF Moves, IInv, PlaceOK
<1>7. AtMostOnce'
  BY DEF IInv, AtMostOnce
<1>8. SomewhereOK'
  BY DEF Moves, IInv, SomewhereOK
<1>9. LostOK'
  <2>1. Cardinality(lost) \in Nat /\ faults \in Nat
    BY <1>t, FS_CardinalityType DEF IInv, LostOK, TypeOK
  <2> QED
    BY <2>1 DEF IInv, LostOK
<1> QED
  BY <1>1, <1>2, <1>3, <1>4, <1>5, <1>6, <1>7, <1>8, <1>9 DEF IInv

\* Steps that only move one consumer.
LEMMA MoveInv ==
  ASSUME IInv, NEW c \in Consumers,
         Request(c) \/ ClaimMissed(c) \/ WatchTimeout(c) \/ CallFails(c)
  PROVE  IInv'
<1>t. /\ TypeOK /\ revision \in Nat /\ faults \in Nat
      /\ header[c] <= revision
  BY DEF IInv, TypeOK, WaitOK
<1>1. CASE Request(c)
  <2>1. Moves(c) /\ pc'[c] = "get"
    BY <1>1, <1>t DEF Request, Goto, Moves, TypeOK, Locations
  <2> QED
    BY <1>1, <2>1, <1>t, QuietInv DEF Request
<1>l. ASSUME NEW l \in {"get", "idle"}, Leave(c, l)
      PROVE  Moves(c) /\ pc'[c] = l
  BY <1>l, <1>t DEF Leave, Goto, Moves, TypeOK, Locations
<1>2. CASE ClaimMissed(c)
  <2>1. CASE pc[c] = "claimEvent" \/ more[c]
    BY <1>2, <2>1, <1>t, <1>l, QuietInv DEF ClaimMissed
  <2>2. CASE ~(pc[c] = "claimEvent" \/ more[c])
    <3>1. /\ UNCHANGED <<etcdVars, histVars>>
          /\ pc[c] = "claim" /\ ~more[c] /\ ~RevMatches(cand[c])
          /\ pc' = [pc EXCEPT ![c] = "wait"]
          /\ cand' = [cand EXCEPT ![c] = NoKV]
          /\ more' = more /\ header' = header /\ faults' = faults
      BY <1>2, <2>2 DEF ClaimMissed, Goto
    <3>2. \A e \in Prefixed(store, TopicOf[c]) : e.rev >= header'[c]
      BY <3>1 DEF IInv, WaitOK, RevMatches, Prefixed
    <3>3. Moves(c) /\ pc'[c] = "wait"
      BY <3>1, <1>t DEF Moves, TypeOK, Locations
    <3> QED
      BY <3>1, <3>2, <3>3, <1>t, QuietInv
  <2> QED
    BY <2>1, <2>2
<1>3. CASE WatchTimeout(c)
  BY <1>3, <1>t, <1>l, QuietInv DEF WatchTimeout
<1>4. CASE CallFails(c)
  BY <1>4, <1>t, <1>l, QuietInv DEF CallFails, Fault
<1> QED
  BY <1>1, <1>2, <1>3, <1>4

\* A consumer gets a candidate that is the oldest of what it may take.
LEMMA CandidateInv ==
  ASSUME IInv, NEW c \in Consumers, NEW kv \in Prefixed(puts, TopicOf[c]),
         NEW l \in {"claim", "claimEvent"},
         UNCHANGED <<etcdVars, histVars>>, faults' = faults,
         pc[c] # "reply",
         Moves(c), pc'[c] = l, cand'[c] = kv,
         \A e \in Prefixed(store, TopicOf[c]) : kv.rev <= e.rev,
         l = "claim" /\ ~more'[c] => Prefixed(store, TopicOf[c]) \subseteq {kv}
  PROVE  IInv'
<1> USE DEF etcdVars, histVars
<1>t. TypeOK /\ kv \in KV
  BY DEF IInv, TypeOK, Prefixed
<1>1. TypeOK'
  BY <1>t DEF TypeOK, Moves
<1>2. PutsOK' /\ StoreOK'
  BY DEF IInv, PutsOK, StoreOK
<1>3. CandOK'
  BY DEF Moves, IInv, CandOK, Claiming, Prefixed
<1>4. FirstOK'
  BY DEF Moves, IInv, FirstOK, Claiming, Prefixed
<1>5. WaitOK'
  BY DEF Moves, IInv, WaitOK, Prefixed
<1>6. PlaceOK'
  BY DEF Moves, IInv, PlaceOK
<1>7. AtMostOnce' /\ LostOK'
  BY DEF IInv, AtMostOnce, LostOK
<1>8. SomewhereOK'
  BY DEF Moves, IInv, SomewhereOK
<1> QED
  BY <1>1, <1>2, <1>3, <1>4, <1>5, <1>6, <1>7, <1>8 DEF IInv

\* Get returns the oldest key, or finds the queue empty.
LEMMA GetInv ==
  ASSUME IInv, NEW c \in Consumers, Get(c)
  PROVE  IInv'
<1> DEFINE found == Prefixed(store, TopicOf[c])
<1>t. /\ TypeOK /\ revision \in Nat /\ faults \in Nat
      /\ UNCHANGED <<etcdVars, histVars>> /\ faults' = faults
      /\ pc[c] = "get"
      /\ header' = [header EXCEPT ![c] = revision]
  BY DEF IInv, TypeOK, Get
<1>1. CASE found = {} /\ Goto(c, "wait") /\ UNCHANGED <<cand, more>>
  <2>1. Moves(c) /\ pc'[c] = "wait"
    BY <1>1, <1>t DEF Moves, Goto, TypeOK, Locations
  <2> QED
    BY <1>1, <2>1, <1>t, QuietInv
<1>2. CASE \E kv \in First(found) :
             /\ cand' = [cand EXCEPT ![c] = kv]
             /\ more' = [more EXCEPT ![c] = found # {kv}]
             /\ Goto(c, "claim")
  <2>1. PICK kv \in First(found) :
             /\ cand' = [cand EXCEPT ![c] = kv]
             /\ more' = [more EXCEPT ![c] = found # {kv}]
             /\ pc' = [pc EXCEPT ![c] = "claim"]
    BY <1>2 DEF Goto
  <2>2. kv \in Prefixed(puts, TopicOf[c]) /\ kv \in KV
    BY DEF IInv, PutsOK, First, Prefixed, TypeOK
  <2>3. \A e \in Prefixed(store, TopicOf[c]) : kv.rev <= e.rev
    BY DEF First
  <2>4. Moves(c) /\ pc'[c] = "claim" /\ cand'[c] = kv
    BY <2>1, <2>2, <1>t DEF Moves, TypeOK, Locations
  <2>5. ~more'[c] => found \subseteq {kv}
    BY <2>1, <1>t DEF TypeOK
  <2> QED
    BY <2>2, <2>3, <2>4, <2>5, <1>t, CandidateInv
<1> QED
  BY <1>1, <1>2 DEF Get

\* The watch returns the oldest put since the Get.
LEMMA WatchEventInv ==
  ASSUME IInv, NEW c \in Consumers, WatchEvent(c)
  PROVE  IInv'
<1> DEFINE seen == {f \in Prefixed(puts, TopicOf[c]) : f.rev >= header[c]}
<1>1. PICK kv \in First(seen) : cand' = [cand EXCEPT ![c] = kv]
  BY DEF WatchEvent
<1>2. /\ UNCHANGED <<etcdVars, histVars>> /\ faults' = faults
      /\ pc[c] = "wait"
      /\ pc' = [pc EXCEPT ![c] = "claimEvent"]
      /\ more' = more /\ header' = header
  BY DEF WatchEvent, Goto
<1>3. Prefixed(store, TopicOf[c]) \subseteq seen
  BY <1>2 DEF IInv, WaitOK, PutsOK, Prefixed
<1>4. kv \in Prefixed(puts, TopicOf[c])
     /\ \A e \in Prefixed(store, TopicOf[c]) : kv.rev <= e.rev
  BY <1>3 DEF First
<1>5. Moves(c) /\ pc'[c] = "claimEvent" /\ cand'[c] = kv
  BY <1>1, <1>2, <1>4 DEF Moves, IInv, TypeOK, Locations, WaitOK, Prefixed
<1> QED
  BY <1>2, <1>4, <1>5, CandidateInv

\* A claim takes the candidate out of the store and keeps it for the answer.
LEMMA ClaimInv ==
  ASSUME IInv, NEW c \in Consumers, Claim(c)
  PROVE  IInv'
<1>0. /\ cand[c] \in store /\ store' = store \ {cand[c]}
      /\ revision' = revision + 1 /\ puts' = puts
      /\ Claiming(c)
  BY ClaimDeletesCandidate DEF Claim, Claiming
<1>p. /\ pc' = [pc EXCEPT ![c] = "reply"]
      /\ UNCHANGED <<cand, more, header, sent, delivered, lost, faults>>
  BY DEF Claim, Goto, histVars
<1>t. TypeOK
  BY DEF IInv
<1>1. TypeOK'
  BY <1>0, <1>p, <1>t DEF TypeOK, Locations
<1>q. /\ pc'[c] = "reply"
      /\ \A d \in Consumers \ {c} : pc'[d] = pc[d]
      /\ \A d \in Consumers : pc[d] = "reply" => cand[d] # cand[c] /\ d # c
  BY <1>0, <1>p, <1>t DEF TypeOK, IInv, PlaceOK, Claiming
<1>2. PutsOK' /\ StoreOK'
  BY <1>0, <1>p, <1>t DEF IInv, PutsOK, StoreOK, TypeOK, KV
<1>3. CandOK'
  BY <1>0, <1>p, <1>q DEF IInv, CandOK, Claiming, Prefixed
<1>4. FirstOK'
  BY <1>0, <1>p, <1>q DEF IInv, FirstOK, Claiming, Prefixed
<1>5. WaitOK'
  BY <1>0, <1>p, <1>q, <1>t DEF IInv, WaitOK, Prefixed, TypeOK
<1>6. PlaceOK'
  <2>1. cand[c] \in store /\ delivered[cand[c].val] = 0 /\ cand[c].val \notin lost
    BY <1>0 DEF IInv, PlaceOK
  <2> QED
    BY <1>0, <1>p, <1>q, <2>1 DEF IInv, PlaceOK
<1>7. AtMostOnce' /\ LostOK'
  BY <1>p DEF IInv, AtMostOnce, LostOK
<1>8. SomewhereOK'
  BY <1>0, <1>p, <1>q DEF IInv, SomewhereOK
<1> QED
  BY <1>1, <1>2, <1>3, <1>4, <1>5, <1>6, <1>7, <1>8 DEF IInv

\* Losing one more message with one more failure keeps the balance.
LEMMA LoseOne ==
  ASSUME IInv, NEW m, faults' = faults + 1, lost' = lost \cup {m}
  PROVE  LostOK'
<1>1. IsFiniteSet(lost) /\ Cardinality(lost) <= faults /\ faults \in Nat
  BY DEF IInv, LostOK, TypeOK
<1>2. /\ IsFiniteSet(lost \cup {m})
      /\ Cardinality(lost \cup {m}) = Cardinality(lost)
           \/ Cardinality(lost \cup {m}) = Cardinality(lost) + 1
  BY <1>1, FS_AddElement
<1>3. Cardinality(lost) \in Nat
  BY <1>1, FS_CardinalityType
<1> QED
  BY <1>1, <1>2, <1>3 DEF LostOK

\* A claim whose answer is lost takes the candidate out of the store.
LEMMA ClaimAnswerLostInv ==
  ASSUME IInv, NEW c \in Consumers, ClaimAnswerLost(c)
  PROVE  IInv'
<1>0. /\ cand[c] \in store /\ store' = store \ {cand[c]}
      /\ revision' = revision + 1 /\ puts' = puts
      /\ Claiming(c)
  BY ClaimDeletesCandidate DEF ClaimAnswerLost, Claiming
<1>t. TypeOK
  BY DEF IInv
<1>k. cand[c] \in KV /\ cand[c].val \in Messages
  BY <1>0, <1>t DEF TypeOK, KV
<1>p. /\ pc' = [pc EXCEPT ![c] = "idle"]
      /\ cand' = [cand EXCEPT ![c] = NoKV]
      /\ more' = [more EXCEPT ![c] = FALSE]
      /\ header' = [header EXCEPT ![c] = 0]
      /\ lost' = lost \cup {cand[c].val}
      /\ faults' = faults + 1
      /\ sent' = sent /\ delivered' = delivered
  BY DEF ClaimAnswerLost, Leave, Goto, Fault
<1>1. TypeOK'
  BY <1>0, <1>p, <1>t, <1>k DEF TypeOK, Locations
<1>q. /\ pc'[c] = "idle" /\ header'[c] = 0
      /\ \A d \in Consumers \ {c} :
           /\ pc'[d] = pc[d]
           /\ cand'[d] = cand[d]
           /\ more'[d] = more[d]
           /\ header'[d] = header[d]
      /\ \A d \in Consumers : pc[d] = "reply" => cand[d] # cand[c] /\ d # c
  BY <1>0, <1>p, <1>t DEF TypeOK, IInv, PlaceOK, Claiming
<1>2. PutsOK' /\ StoreOK'
  BY <1>0, <1>p, <1>t DEF IInv, PutsOK, StoreOK, TypeOK, KV
<1>3. CandOK'
  BY <1>0, <1>q DEF IInv, CandOK, Claiming, Prefixed
<1>4. FirstOK'
  BY <1>0, <1>q DEF IInv, FirstOK, Claiming, Prefixed
<1>5. WaitOK'
  BY <1>0, <1>q, <1>t DEF IInv, WaitOK, Prefixed, TypeOK
<1>6. PlaceOK'
  <2>1. \A e \in puts : e.val = cand[c].val => e = cand[c]
    BY <1>0 DEF IInv, PutsOK
  <2>2. cand[c].val \in sent /\ delivered[cand[c].val] = 0
    BY <1>0 DEF IInv, PutsOK, PlaceOK
  <2>3. \A e \in store' : delivered'[e.val] = 0 /\ e.val \notin lost'
    BY <1>0, <1>p, <2>1 DEF IInv, PlaceOK, PutsOK
  <2>4. \A d \in Consumers : pc'[d] = "reply" =>
          cand[d].val # cand[c].val /\ d # c /\ cand'[d] = cand[d] /\ pc[d] = "reply"
    BY <1>q, <2>1 DEF IInv, CandOK, Prefixed
  <2> QED
    BY <1>0, <1>p, <2>2, <2>3, <2>4, <1>t DEF IInv, PlaceOK, TypeOK
<1>7. AtMostOnce'
  BY <1>p DEF IInv, AtMostOnce
<1>8. SomewhereOK'
  BY <1>0, <1>p, <1>q DEF IInv, SomewhereOK
<1>9. LostOK'
  BY <1>p, LoseOne
<1> QED
  BY <1>1, <1>2, <1>3, <1>4, <1>5, <1>6, <1>7, <1>8, <1>9 DEF IInv

\* The answer reaches its consumer or is lost: the message was in hand.
LEMMA AnswerInv ==
  ASSUME IInv, NEW c \in Consumers, Reply(c) \/ ReplyLost(c)
  PROVE  IInv'
<1> DEFINE m == cand[c].val
<1>t. TypeOK
  BY DEF IInv
<1>0. /\ pc[c] = "reply" /\ cand[c] \in puts /\ cand[c] \notin store
      /\ m \in Messages /\ m \in sent
      /\ delivered[m] = 0 /\ m \notin lost
      /\ \A e \in puts : e.val = m => e = cand[c]
  BY <1>t DEF Reply, ReplyLost, IInv, CandOK, Prefixed, PutsOK, PlaceOK, TypeOK, KV
<1>p. /\ pc' = [pc EXCEPT ![c] = "idle"]
      /\ cand' = [cand EXCEPT ![c] = NoKV]
      /\ more' = [more EXCEPT ![c] = FALSE]
      /\ header' = [header EXCEPT ![c] = 0]
      /\ sent' = sent /\ revision' = revision /\ store' = store /\ puts' = puts
  BY DEF Reply, ReplyLost, Leave, Goto, etcdVars
<1>a. \/ /\ delivered' = [delivered EXCEPT ![m] = 1]
         /\ lost' = lost /\ faults' = faults
      \/ /\ lost' = lost \cup {m} /\ faults' = faults + 1
         /\ delivered' = delivered
  BY <1>0, <1>t DEF Reply, ReplyLost, Fault, TypeOK
<1>q. /\ pc'[c] = "idle" /\ header'[c] = 0
      /\ \A d \in Consumers \ {c} :
           /\ pc'[d] = pc[d]
           /\ cand'[d] = cand[d]
           /\ more'[d] = more[d]
           /\ header'[d] = header[d]
      /\ \A d \in Consumers \ {c} : pc[d] = "reply" => cand[d].val # m
  BY <1>0, <1>p, <1>t DEF TypeOK, IInv, PlaceOK, CandOK, Prefixed
<1>b. /\ delivered'[m] > 0 \/ m \in lost'
      /\ delivered'[m] \in {0, 1} /\ (delivered'[m] > 0 => m \notin lost')
      /\ \A n \in Messages \ {m} :
           delivered'[n] = delivered[n] /\ (n \in lost' <=> n \in lost)
  BY <1>0, <1>a, <1>t DEF TypeOK
<1>1. TypeOK'
  BY <1>0, <1>p, <1>a, <1>t DEF TypeOK, Locations
<1> HIDE DEF m
<1>2. PutsOK' /\ StoreOK'
  BY <1>p DEF IInv, PutsOK, StoreOK
<1>3. CandOK'
  BY <1>p, <1>q DEF IInv, CandOK, Claiming, Prefixed
<1>4. FirstOK'
  BY <1>p, <1>q DEF IInv, FirstOK, Claiming, Prefixed
<1>5. WaitOK'
  BY <1>p, <1>q, <1>t DEF IInv, WaitOK, Prefixed, TypeOK
<1>6. PlaceOK'
  <2>1. \A e \in store : e.val # m /\ e.val \in Messages
    BY <1>0, <1>t DEF IInv, PutsOK, TypeOK, KV
  <2>2. \A d \in Consumers : pc'[d] = "reply" =>
          /\ cand[d].val # m /\ cand[d].val \in Messages
          /\ d # c /\ cand'[d] = cand[d] /\ pc[d] = "reply"
    BY <1>q, <1>t DEF IInv, CandOK, Prefixed, TypeOK, KV
  <2> QED
    BY <1>0, <1>p, <1>b, <2>1, <2>2 DEF IInv, PlaceOK
<1>7. AtMostOnce'
  BY <1>b DEF IInv, AtMostOnce
<1>8. SomewhereOK'
  BY <1>p, <1>q, <1>b, <1>t DEF IInv, SomewhereOK, m, TypeOK
<1>9. LostOK'
  BY <1>a, LoseOne DEF IInv, LostOK
<1> QED
  BY <1>1, <1>2, <1>3, <1>4, <1>5, <1>6, <1>7, <1>8, <1>9 DEF IInv

-----------------------------------------------------------------------------
\* Every step of the queue preserves the invariant.
LEMMA StepInv == IInv /\ [Next]_vars => IInv'
<1> SUFFICES ASSUME IInv, [Next]_vars PROVE IInv'
  OBVIOUS
<1>1. CASE UNCHANGED vars
  BY <1>1 DEF vars, etcdVars, consVars, histVars, IInv, TypeOK, PutsOK, StoreOK,
              CandOK, FirstOK, WaitOK, PlaceOK, AtMostOnce, SomewhereOK, LostOK,
              Claiming, Prefixed
<1>2. ASSUME NEW t \in Topics, NEW m \in Messages, NEW s \in Stamps, Enqueue(t, m, s)
      PROVE  IInv'
  BY <1>2, EnqueueInv
<1>3. ASSUME NEW c \in Consumers, Step(c)
      PROVE  IInv'
  BY <1>3, MoveInv, GetInv, ClaimInv, WatchEventInv, AnswerInv DEF Step
<1>4. ASSUME NEW c \in Consumers, Failure(c)
      PROVE  IInv'
  BY <1>4, MoveInv, ClaimAnswerLostInv, AnswerInv DEF Failure
<1> QED
  BY <1>1, <1>2, <1>3, <1>4 DEF Next

\* The invariant holds in every reachable state.
THEOREM Invariance == Spec => []IInv
  BY InitInv, StepInv, PTL DEF Spec

\* Type correctness of the queue, for any number of topics, consumers and
\* messages.
THEOREM TypeCorrect == Spec => []TypeOK
<1>1. IInv => TypeOK
  BY DEF IInv
<1> QED
  BY <1>1, Invariance, PTL

\* No message is handed over twice, whatever the interleaving of consumers
\* and however often a key name is used again.
THEOREM DeliversAtMostOnce == Spec => []AtMostOnce
<1>1. IInv => AtMostOnce
  BY DEF IInv
<1> QED
  BY <1>1, Invariance, PTL

\* No message disappears but for those whose answer was lost, and these are
\* no more than the failures.
THEOREM NoMessageVanishes == Spec => []NothingVanishes
<1>1. IInv => NothingVanishes
  BY DEF IInv, NothingVanishes, SomewhereOK, LostOK, InHand
<1> QED
  BY <1>1, Invariance, PTL

\* With topics none of which is a prefix of another, messages stay in their
\* topic.
THEOREM TopicsAreSeparate == Spec => []OwnTopicOnly
<1>1. IInv => OwnTopicOnly
  BY TopicOfAssumption DEF IInv, OwnTopicOnly, PrefixFree, CandOK, Prefixed
<1> QED
  BY <1>1, Invariance, PTL

-----------------------------------------------------------------------------
\* The refinement mapping.
Item(e) == [ord |-> e.rev, topic |-> e.key[1], msg |-> e.val]
Waiting == {Item(e) : e \in store}
Delivered == {m \in Messages : delivered[m] > 0}

\* A consumer that neither claims nor answers does not change the queue.
LEMMA QuietStep ==
  ASSUME IInv, NEW c \in Consumers,
         Request(c) \/ ClaimMissed(c) \/ WatchTimeout(c) \/ CallFails(c)
           \/ Get(c) \/ WatchEvent(c)
  PROVE  UNCHANGED <<Waiting, InHand, Delivered, lost>>
<1>1. /\ store' = store /\ delivered' = delivered /\ lost' = lost
      /\ pc[c] # "reply" /\ pc'[c] # "reply"
      /\ \A d \in Consumers \ {c} : pc'[d] = pc[d] /\ cand'[d] = cand[d]
  BY DEF Request, ClaimMissed, WatchTimeout, CallFails, Get, WatchEvent, Goto,
         Leave, etcdVars, histVars, IInv, TypeOK
<1> QED
  BY <1>1 DEF Waiting, InHand, Delivered

\* Enqueue is Put: the message is not known to the queue yet, and its revision
\* is greater than that of every stored key.
LEMMA EnqueueRefines ==
  ASSUME IInv, NEW t \in Topics, NEW m \in Messages, NEW s \in Stamps,
         Enqueue(t, m, s)
  PROVE  Queue!Put(t, m)
<1> DEFINE kv == [key |-> <<t, s>>, rev |-> revision + 1, val |-> m]
<1>0. /\ m \notin sent
      /\ store' = store \cup {kv}
      /\ pc' = pc /\ cand' = cand /\ delivered' = delivered /\ lost' = lost
  BY DEF Enqueue, consVars
<1>k. /\ kv.rev = revision + 1 /\ kv.val = m /\ kv.key[1] = t
      /\ revision \in Nat
  BY DEF IInv, TypeOK
<1> HIDE DEF kv
<1>1. Waiting' = Waiting \cup {Item(kv)}
  BY <1>0 DEF Waiting
<1>2. InHand' = InHand /\ Delivered' = Delivered
  BY <1>0 DEF InHand, Delivered
<1>3. m \notin InHand \cup Delivered \cup lost
  BY <1>0 DEF IInv, InHand, Delivered, CandOK, Prefixed, PutsOK, PlaceOK
<1>4. \A e \in store : e.val # m /\ e.rev < kv.rev
  BY <1>0, <1>k DEF IInv, PutsOK, TypeOK, KV
<1>5. \A i \in Waiting : i.msg # m /\ i.ord < Item(kv).ord
  BY <1>4 DEF Waiting, Item
<1>6. Item(kv).topic = t /\ Item(kv).msg = m
  BY <1>k DEF Item
<1>7. Item(kv) \in Waiting'
  BY <1>1
<1> QED
  BY <1>0, <1>1, <1>2, <1>3, <1>5, <1>6, <1>7
     DEF Queue!Put, Queue!Known, Waiting, Item, Delivered

\* The candidate of a successful claim is the oldest message of its topic.
LEMMA ClaimTakesOldest ==
  ASSUME IInv, NEW c \in Consumers, Claiming(c), cand[c] \in store
  PROVE  Queue!Oldest(Item(cand[c]))
<1>1. \A e \in store : e.key[1] = cand[c].key[1] => cand[c].rev <= e.rev
  BY DEF IInv, FirstOK, CandOK, Prefixed
<1> QED
  BY <1>1 DEF Queue!Oldest, Item

\* Removing a key-value removes its item: revisions are unique.
LEMMA RemoveItem ==
  ASSUME IInv, NEW kv \in store, store' = store \ {kv}
  PROVE  Waiting' = Waiting \ {Item(kv)}
<1>1. \A e \in store : Item(e) = Item(kv) => e = kv
  BY DEF IInv, PutsOK, Item
<1> QED
  BY <1>1 DEF Waiting

\* A claim, answered or not, is Take of the oldest message of a topic.
LEMMA ClaimRefines ==
  ASSUME IInv, NEW c \in Consumers, Claim(c) \/ ClaimAnswerLost(c)
  PROVE  \E i \in Waiting : Queue!Take(i)
<1> DEFINE i == Item(cand[c])
<1>0. /\ Claiming(c) /\ cand[c] \in store /\ store' = store \ {cand[c]}
      /\ delivered' = delivered
  BY ClaimDeletesCandidate DEF Claim, ClaimAnswerLost, Claiming, histVars
<1>1. i \in Waiting /\ i.msg = cand[c].val
  BY <1>0 DEF Waiting, Item
<1>2. Waiting' = Waiting \ {i}
  BY <1>0, RemoveItem
<1>3. Queue!Oldest(i)
  BY <1>0, ClaimTakesOldest
<1>4. \/ InHand' = InHand \cup {i.msg} /\ lost' = lost
      \/ lost' = lost \cup {i.msg} /\ InHand' = InHand
  <2>1. CASE Claim(c)
    <3>1. /\ pc' = [pc EXCEPT ![c] = "reply"] /\ cand' = cand /\ lost' = lost
      BY <2>1 DEF Claim, Goto, histVars
    <3>2. /\ pc'[c] = "reply"
          /\ \A d \in Consumers \ {c} : pc'[d] = pc[d]
          /\ pc[c] # "reply"
      BY <3>1, <1>0 DEF IInv, TypeOK, Claiming
    <3> QED
      BY <3>1, <3>2, <1>1 DEF InHand
  <2>2. CASE ClaimAnswerLost(c)
    <3>1. /\ lost' = lost \cup {cand[c].val}
          /\ pc' = [pc EXCEPT ![c] = "idle"]
          /\ cand' = [cand EXCEPT ![c] = NoKV]
      BY <2>2 DEF ClaimAnswerLost, Leave, Goto
    <3>2. /\ pc'[c] # "reply" /\ pc[c] # "reply"
          /\ \A d \in Consumers \ {c} : pc'[d] = pc[d] /\ cand'[d] = cand[d]
      BY <3>1, <1>0 DEF IInv, TypeOK, Claiming
    <3> QED
      BY <3>1, <3>2, <1>1 DEF InHand
  <2> QED
    BY <2>1, <2>2
<1>5. Delivered' = Delivered
  BY <1>0 DEF Delivered
<1> HIDE DEF i
<1>6. PICK j : j = i
  OBVIOUS
<1>7. Queue!Take(j)
  BY <1>2, <1>3, <1>4, <1>5, <1>6
     DEF Queue!Take, Queue!Oldest, Waiting, Item, Delivered
<1> QED
  BY <1>1, <1>6, <1>7

\* An answer, or its loss, is Deliver or Lose of a message that was taken.
LEMMA AnswerRefines ==
  ASSUME IInv, NEW c \in Consumers, Reply(c) \/ ReplyLost(c)
  PROVE  \E m \in InHand : Queue!Deliver(m) \/ Queue!Lose(m)
<1> DEFINE m == cand[c].val
<1>0. /\ pc[c] = "reply" /\ m \in Messages /\ delivered[m] = 0
      /\ store' = store
      /\ pc' = [pc EXCEPT ![c] = "idle"]
      /\ cand' = [cand EXCEPT ![c] = NoKV]
  BY DEF Reply, ReplyLost, Leave, Goto, etcdVars, IInv, PlaceOK, CandOK, Prefixed,
         TypeOK, KV
<1>1. \A d \in Consumers \ {c} :
        /\ pc'[d] = pc[d] /\ cand'[d] = cand[d]
        /\ pc[d] = "reply" => cand[d].val # m
  BY <1>0 DEF IInv, TypeOK, PlaceOK, CandOK, Prefixed, PutsOK
<1>2. m \in InHand /\ InHand' = InHand \ {m}
  BY <1>0, <1>1 DEF InHand, IInv, TypeOK
<1>3. Waiting' = Waiting
  BY <1>0 DEF Waiting
<1>n. PICK n : n = m
  OBVIOUS
<1>4. CASE Reply(c)
  <2>1. Delivered' = Delivered \cup {m} /\ lost' = lost
    BY <1>4, <1>0 DEF Reply, Delivered, IInv, TypeOK
  <2>2. Queue!Deliver(n)
    BY <2>1, <1>2, <1>3, <1>n DEF Queue!Deliver, Waiting, Item, Delivered
  <2> QED
    BY <2>2, <1>2, <1>n
<1>5. CASE ReplyLost(c)
  <2>1. Delivered' = Delivered /\ lost' = lost \cup {m}
    BY <1>5 DEF ReplyLost, Delivered
  <2>2. Queue!Lose(n)
    BY <2>1, <1>2, <1>3, <1>n DEF Queue!Lose, Waiting, Item, Delivered
  <2> QED
    BY <2>2, <1>2, <1>n
<1> QED
  BY <1>4, <1>5

\* The queue built from etcd keys implements the FIFO queue: no consumer,
\* whatever it has read before, removes a message before an older one of the
\* same topic, and no message is handed over that was not taken.
THEOREM Refinement == Spec => ImplementsFifo
<1>1. Init => Queue!FifoInit
  BY DEF Init, Queue!FifoInit, InHand
<1>2. IInv /\ [Next]_vars => [Queue!FifoNext]_(Queue!fifoVars)
  <2> SUFFICES ASSUME IInv, [Next]_vars
               PROVE  Queue!FifoNext \/ UNCHANGED Queue!fifoVars
    OBVIOUS
  <2>1. CASE UNCHANGED vars
    BY <2>1 DEF vars, etcdVars, consVars, histVars, Queue!fifoVars, InHand
  <2>2. ASSUME NEW t \in Topics, NEW m \in Messages, NEW s \in Stamps,
               Enqueue(t, m, s)
        PROVE  Queue!FifoNext
    BY <2>2, EnqueueRefines DEF Queue!FifoNext
  <2>3. ASSUME NEW c \in Consumers, Claim(c) \/ ClaimAnswerLost(c)
        PROVE  Queue!FifoNext
    BY <2>3, ClaimRefines DEF Queue!FifoNext, Waiting, Item
  <2>4. ASSUME NEW c \in Consumers, Reply(c) \/ ReplyLost(c)
        PROVE  Queue!FifoNext
    BY <2>4, AnswerRefines DEF Queue!FifoNext
  <2>5. ASSUME NEW c \in Consumers,
               Request(c) \/ ClaimMissed(c) \/ WatchTimeout(c) \/ CallFails(c)
                 \/ Get(c) \/ WatchEvent(c)
        PROVE  UNCHANGED Queue!fifoVars
    BY <2>5, QuietStep DEF Queue!fifoVars, Waiting, Item, Delivered
  <2> QED
    BY <2>1, <2>2, <2>3, <2>4, <2>5 DEF Next, Step, Failure
<1> QED
  BY <1>1, <1>2, Invariance, PTL DEF Spec, ImplementsFifo, Queue!FifoSpec
=============================================================================
