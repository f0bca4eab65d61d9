------------------------- MODULE HandleStoreProofs -------------------------
(***************************************************************************)
(* Proofs about HandleStore, for any number of events, messages, receivers *)
(* and handlers, and any sizes.                                            *)
(***************************************************************************)
EXTENDS HandleStore, FiniteSetTheorems, TLAPS

Command ==
  [kind : {"persistence"}, event : Events]
    \cup [kind : {"callback", "code-version"}, event : Events, msg : Messages]

Inside(i) == ipc[i] \in {"insert", "append", "flush", "send", "cache", "return"}
Saving(h) == hpc[h] \in {"plock", "save"}

\* Types TypeOK does not give: of the channel and of what the goroutines remember.
LocalsOK ==
  /\ barrelEvent \in Seq(Command)
  /\ ipc \in [Inserters -> {"receive", "lookup", "ask", "lock", "insert", "append", "flush",
                             "send", "cache", "return"}]
  /\ imsg \in [Inserters -> Messages \cup {None}]
  /\ \A i \in Inserters : ipc[i] # "receive" => imsg[i] \in Messages
  /\ icopy \in [Inserters -> Barrel]
  /\ hevent \in [Handlers -> Command \cup {NoEvent}]
  /\ \A h \in Handlers : hpc[h] \in {"persistence", "plock", "save", "callback"} =>
       hevent[h] \in Command /\ (hpc[h] = "callback" <=> hevent[h].kind = "callback")
  /\ gpc \in {"idle", "lock"}
  /\ spc \in {"run", "lock", "saved", "exited"}

\* Whoever works on a barrel holds the store's lock, so that the barrel stays in
\* the map meanwhile.
InserterOK(i) ==
  Inside(i) => /\ i \in readers \/ writer = i
               /\ barrels[EventOf[imsg[i]]] # NoBarrel

HandlerOK(h) ==
  Saving(h) => /\ h \in readers
               /\ barrels[hevent[h].event] # NoBarrel

WorkersOK ==
  /\ \A i \in Inserters : InserterOK(i)
  /\ \A h \in Handlers : HandlerOK(h)

Seen == {Inbox[k] : k \in 1 .. next}
Busy(i) == ipc[i] # "receive"

\* A message that is being inserted was received, by one receiver, and its
\* InsertMessage has not returned.
FlightOK ==
  /\ \A i \in Inserters : Busy(i) => imsg[i] \in Seen \ handled
  /\ \A i, j \in Inserters : Busy(i) /\ Busy(j) /\ imsg[i] = imsg[j] => i = j
  /\ handled \subseteq Seen /\ early \subseteq handled

Fresh(s) == \A k \in DOMAIN s : s[k] \notin early

\* Once stop has saved, neither a barrel nor a receiver has a message from before.
StopOK ==
  spc \in {"saved", "exited"} =>
    /\ \A e \in Mapped : Fresh(barrels[e].buf) /\ Fresh(barrels[e].pbuf)
    /\ \A i \in Inserters : ipc[i] = "append" => Fresh(icopy[i].buf)

IInv == TypeOK /\ LocalsOK /\ WorkersOK /\ FlightOK /\ StopOK

-----------------------------------------------------------------------------
\* A receiver has a message that is not stored yet.
Storing(i) == ipc[i] \in {"lookup", "ask", "lock", "insert", "append"}
EventAt(i) == EventOf[imsg[i]]

\* Only one receiver has a message of an event that is not raced; the barrel it
\* creates is not there yet, and nobody changes the cache while it appends.
OneOK ==
  /\ \A i, j \in Inserters : Busy(i) /\ Busy(j) /\ EventAt(i) = EventAt(j) => i = j \/ EventAt(i) \in raced
  /\ \A i \in Inserters :
       /\ ipc[i] \in {"ask", "lock"} => barrels[EventAt(i)] = NoBarrel \/ EventAt(i) \in raced
       /\ ipc[i] = "append" => icopy[i].buf = barrels[EventAt(i)].buf \/ EventAt(i) \in raced

Older(a, b) == \E k, l \in DOMAIN Inbox : k < l /\ Inbox[k] = a /\ Inbox[l] = b
Chain(s) == \A i, j \in DOMAIN s : i < j => Older(s[i], s[j])
Before(s, t) == \A i \in DOMAIN s, j \in DOMAIN t : Older(s[i], t[j])
UpTo(s, n) == \A i \in DOMAIN s : \E k \in 1 .. n : Inbox[k] = s[i]
OfEvent(s, e) == \A i \in DOMAIN s : EventOf[s[i]] = e

\* The database, the queue and the cache of an event follow each other, in the
\* order of the inbox and not beyond its n-th message.
Ordered(db, p, q, n) ==
  /\ Chain(db) /\ Chain(p) /\ Chain(q)
  /\ UpTo(db, n) /\ UpTo(p, n) /\ UpTo(q, n)
  /\ Before(db, p) /\ Before(db, q) /\ Before(p, q)

\* The first n messages are received, and none of event e waits among them.
Bounded(e, n) ==
  /\ n \in Nat /\ n <= next
  /\ \A i \in Inserters : Storing(i) /\ EventAt(i) = e => \A k \in 1 .. n : Inbox[k] # imsg[i]

InOrder(e, n) ==
  /\ Chain(saved[e]) /\ UpTo(saved[e], n)
  /\ e \in Mapped => Ordered(saved[e], barrels[e].pbuf, barrels[e].buf, n)

OrderOK == \A e \in Events \ raced : \E n : Bounded(e, n) /\ InOrder(e, n)

\* A barrel has messages of its event, whoever races for it.
HomeOK ==
  /\ \A e \in Mapped : OfEvent(barrels[e].pbuf, e) /\ OfEvent(barrels[e].buf, e)
  /\ \A i \in Inserters : ipc[i] = "append" => OfEvent(icopy[i].buf, EventAt(i))

Total(m) == InBarrels(m) + Kept(m)
Progress(m) == StepOf[m] = "progress" /\ m \notin Unparsable
Placed(m) == m \in Seen /\ \A i \in Inserters : Storing(i) => imsg[i] # m

\* A message of an event that is not raced is stored once when it is, and not before.
CountOK ==
  /\ \A m \in Messages :
       EventOf[m] \notin raced =>
         IF Placed(m) THEN IF Progress(m) THEN InBarrels(m) = 0 ELSE Total(m) = 1
                      ELSE Total(m) = 0
  /\ \A i \in Inserters : /\ Busy(i) => imsg[i] \notin Unparsable
                          /\ ipc[i] = "append" => StepOf[imsg[i]] # "progress"

OInv == OneOK /\ OrderOK /\ HomeOK /\ CountOK

-----------------------------------------------------------------------------
\* How often a message occurs in a sequence

LEMMA CopiesNat ==
  ASSUME NEW s \in Seq(Messages), NEW m
  PROVE  Copies(s, m) \in Nat /\ IsFiniteSet({i \in DOMAIN s : s[i] = m})
<1>1. Len(s) \in Nat /\ DOMAIN s = 1 .. Len(s)
  OBVIOUS
<1>2. IsFiniteSet(DOMAIN s)
  BY <1>1, FS_Interval
<1>3. {i \in DOMAIN s : s[i] = m} \in SUBSET DOMAIN s
  OBVIOUS
<1>4. IsFiniteSet({i \in DOMAIN s : s[i] = m})
  BY <1>2, <1>3, FS_Subset
<1> QED BY <1>4, FS_CardinalityType DEF Copies

LEMMA CopiesZero ==
  ASSUME NEW s, NEW m, \A k \in DOMAIN s : s[k] # m
  PROVE  Copies(s, m) = 0
<1>1. {i \in DOMAIN s : s[i] = m} = {}
  OBVIOUS
<1> QED BY <1>1, FS_EmptySet DEF Copies

LEMMA CopiesAppend ==
  ASSUME NEW s \in Seq(Messages), NEW x \in Messages, NEW m
  PROVE  Copies(Append(s, x), m) = Copies(s, m) + (IF x = m THEN 1 ELSE 0)
<1> DEFINE A == {i \in DOMAIN s : s[i] = m}
           B == {i \in DOMAIN Append(s, x) : Append(s, x)[i] = m}
<1>0. Copies(s, m) = Cardinality(A) /\ Copies(Append(s, x), m) = Cardinality(B)
  BY DEF Copies
<1>1. /\ Len(s) \in Nat /\ DOMAIN s = 1 .. Len(s) /\ DOMAIN Append(s, x) = 1 .. Len(s) + 1
      /\ Append(s, x)[Len(s) + 1] = x /\ \A i \in DOMAIN s : Append(s, x)[i] = s[i]
  OBVIOUS
<1>2. IsFiniteSet(A) /\ Cardinality(A) \in Nat
  BY CopiesNat, FS_CardinalityType
<1>3. \A i \in DOMAIN Append(s, x) : i \in DOMAIN s \/ i = Len(s) + 1
  BY <1>1
<1>4. DOMAIN s \subseteq DOMAIN Append(s, x) /\ Len(s) + 1 \in DOMAIN Append(s, x) /\ Len(s) + 1 \notin A
  BY <1>1
<1>5. CASE x = m
  <2>1. B = A \cup {Len(s) + 1}
    BY <1>1, <1>3, <1>4, <1>5
  <2>2. Cardinality(A \cup {Len(s) + 1}) = Cardinality(A) + 1
    BY <1>2, <1>4, FS_AddElement
  <2> HIDE DEF A, B
  <2> QED BY <1>0, <1>2, <1>5, <2>1, <2>2
<1>6. CASE x # m
  <2>1. B = A
    BY <1>1, <1>3, <1>4, <1>6
  <2> HIDE DEF A, B
  <2> QED BY <1>0, <1>2, <1>6, <2>1
<1> QED BY <1>5, <1>6

LEMMA CopiesConcat ==
  ASSUME NEW s \in Seq(Messages), NEW t \in Seq(Messages), NEW m
  PROVE  Copies(s \o t, m) = Copies(s, m) + Copies(t, m)
<1> DEFINE n == Len(s)
           A == {i \in DOMAIN s : s[i] = m}
           B == {i \in DOMAIN t : t[i] = m}
           C == {i \in DOMAIN (s \o t) : i > n /\ (s \o t)[i] = m}
           U == {i \in DOMAIN (s \o t) : (s \o t)[i] = m}
           f == [i \in B |-> i + n]
<1>1. /\ n \in Nat /\ Len(t) \in Nat /\ DOMAIN s = 1 .. n /\ DOMAIN t = 1 .. Len(t)
      /\ DOMAIN (s \o t) = 1 .. n + Len(t)
      /\ \A i \in 1 .. n + Len(t) : (s \o t)[i] = IF i <= n THEN s[i] ELSE t[i - n]
  OBVIOUS
<1>2. /\ IsFiniteSet(A) /\ Cardinality(A) \in Nat /\ IsFiniteSet(B) /\ Cardinality(B) \in Nat
  BY CopiesNat, FS_CardinalityType
<1>3. \A i \in B : i \in Nat /\ i + n \in C
  <2> TAKE i \in B
  <2>1. i \in 1 .. Len(t) /\ t[i] = m
    BY <1>1
  <2>2. i + n \in 1 .. n + Len(t) /\ i + n > n /\ ~(i + n <= n) /\ (i + n) - n = i
    BY <1>1, <2>1
  <2>3. (s \o t)[i + n] = t[i]
    BY <1>1, <2>2
  <2> QED BY <1>1, <2>1, <2>2, <2>3
<1>4. \A j \in C : j - n \in B /\ (j - n) + n = j
  <2> TAKE j \in C
  <2>1. j \in 1 .. n + Len(t) /\ j > n /\ (s \o t)[j] = m
    BY <1>1
  <2>2. j - n \in 1 .. Len(t) /\ ~(j <= n) /\ (j - n) + n = j
    BY <1>1, <2>1
  <2>3. t[j - n] = m
    BY <1>1, <2>1, <2>2
  <2> QED BY <1>1, <2>2, <2>3
<1>5. IsFiniteSet(C) /\ Cardinality(C) = Cardinality(B)
  <2> HIDE DEF B, C, n
  <2>1. f \in [B -> C]
    BY <1>3
  <2>2. \A a, b \in B : f[a] = f[b] => a = b
    BY <1>1, <1>3
  <2>3. \A j \in C : \E i \in B : f[i] = j
    BY <1>4
  <2> HIDE DEF f
  <2>4. f \in Bijection(B, C)
    BY <2>1, <2>2, <2>3 DEF Bijection, Injection, Surjection, IsInjective
  <2> QED BY <1>2, <2>4, FS_Bijection DEF ExistsBijection
<1>6. U = A \cup C /\ A \cap C = {}
  <2>1. \A i \in A : i \in DOMAIN (s \o t) /\ i <= n /\ ~(i > n) /\ (s \o t)[i] = m
    BY <1>1
  <2>2. \A i \in U : i \in Nat /\ (i <= n \/ i > n)
    BY <1>1
  <2>3. \A i \in U : i <= n => i \in A
    BY <1>1
  <2> QED BY <2>1, <2>2, <2>3
<1>7. Cardinality(U) = Cardinality(A) + Cardinality(C) - Cardinality(A \cap C)
  BY <1>2, <1>5, <1>6, FS_Union
<1>8. Cardinality(A \cap C) = 0
  BY <1>6, FS_EmptySet
<1>9. Copies(s \o t, m) = Cardinality(U) /\ Copies(s, m) = Cardinality(A) /\ Copies(t, m) = Cardinality(B)
  BY DEF Copies
<1> HIDE DEF A, B, C, U
<1> QED BY <1>2, <1>5, <1>7, <1>8, <1>9

LEMMA CopiesOne ==
  ASSUME NEW x \in Messages, NEW m
  PROVE  Copies(<<x>>, m) = IF x = m THEN 1 ELSE 0
<1>1. <<x>> = Append(<<>>, x) /\ <<>> \in Seq(Messages)
  OBVIOUS
<1>2. Copies(<<>>, m) = 0
  BY CopiesZero
<1>3. Copies(Append(<<>>, x), m) = Copies(<<>>, m) + (IF x = m THEN 1 ELSE 0)
  BY <1>1, CopiesAppend
<1> DEFINE a == Copies(<<>>, m)
           b == Copies(Append(<<>>, x), m)
<1>4. a = 0 /\ b = a + (IF x = m THEN 1 ELSE 0) /\ Copies(<<x>>, m) = b
  BY <1>1, <1>2, <1>3
<1> HIDE DEF a, b
<1> QED BY <1>4

LEMMA AddedAll ==
  ASSUME NEW bag \in Bag, NEW s \in Seq(Messages)
  PROVE  /\ AddAll(bag, s) \in Bag
         /\ \A m \in Messages : AddAll(bag, s)[m] = bag[m] + Copies(s, m)
<1>1. \A m \in Messages : bag[m] \in Nat /\ Copies(s, m) \in Nat
  BY CopiesNat DEF Bag
<1>2. \A m \in Messages : bag[m] + Copies(s, m) \in Nat
  BY <1>1
<1> QED BY <1>2 DEF AddAll, Bag

\* What a barrel holds.
LEMMA Contents ==
  ASSUME NEW b \in Barrel
  PROVE  /\ b.buf \in Seq(Messages) /\ b.pbuf \in Seq(Messages) /\ Content(b) \in Seq(Messages)
         /\ \A m : Copies(Content(b), m) = Copies(b.pbuf, m) + Copies(b.buf, m)
<1>1. b.buf \in Seq(Messages) /\ b.pbuf \in Seq(Messages)
  BY DEF Barrel
<1>2. Content(b) \in Seq(Messages)
  BY <1>1 DEF Content
<1> QED BY <1>1, <1>2, CopiesConcat DEF Content

LEMMA EmptyOK ==
  /\ EmptyBarrel \in Barrel /\ EmptyBarrel # NoBarrel /\ NoBarrel \notin Barrel
  /\ EmptyBarrel.buf = <<>> /\ EmptyBarrel.pbuf = <<>>
  /\ <<>> \in Seq(Messages) /\ NoMessages \in Bag
<1>1. EmptyBarrel \in Barrel /\ EmptyBarrel.buf = <<>> /\ EmptyBarrel.pbuf = <<>>
  BY DEF EmptyBarrel, Barrel
<1>2. NoBarrel \notin Barrel
  <2>1. \A b \in Barrel : b.size \in Nat
    BY DEF Barrel
  <2>2. NoBarrel.size \notin Nat
    BY DEF NoBarrel
  <2> QED BY <2>1, <2>2
<1> QED BY <1>1, <1>2 DEF NoMessages, Bag
LEMMA PersistedOK ==
  ASSUME NEW b \in Barrel
  PROVE  /\ Persisted(b) \in Barrel /\ Persisted(b).buf = <<>>
         /\ Persisted(b).pbuf = Content(b)
<1> DEFINE q == b.pbuf \o b.buf
<1>1. b.buf \in Seq(Messages) /\ b.pbuf \in Seq(Messages)
  BY Contents
<1>2. q \in Seq(Messages) /\ <<>> \in Seq(Messages)
  BY <1>1
<1>3. Persisted(b) = [b EXCEPT !.need = TRUE, !.pbuf = q, !.buf = <<>>] /\ Content(b) = q
  BY DEF Persisted, Content
<1> HIDE DEF q
<1> QED BY <1>2, <1>3 DEF Barrel

LEMMA FreshConcat ==
  ASSUME NEW s \in Seq(Messages), NEW t \in Seq(Messages), Fresh(s), Fresh(t)
  PROVE  Fresh(s \o t)
<1>1. /\ Len(s) \in Nat /\ Len(t) \in Nat /\ DOMAIN s = 1 .. Len(s) /\ DOMAIN t = 1 .. Len(t)
      /\ DOMAIN (s \o t) = 1 .. Len(s) + Len(t)
      /\ \A i \in 1 .. Len(s) + Len(t) : (s \o t)[i] = IF i <= Len(s) THEN s[i] ELSE t[i - Len(s)]
  OBVIOUS
<1>2. ASSUME NEW i \in DOMAIN (s \o t) PROVE (s \o t)[i] \notin early
  <2>1. CASE i <= Len(s)
    BY <1>1, <1>2, <2>1 DEF Fresh
  <2>2. CASE ~(i <= Len(s))
    <3>1. i - Len(s) \in DOMAIN t
      BY <1>1, <1>2, <2>2
    <3> QED BY <1>1, <1>2, <2>2, <3>1 DEF Fresh
  <2> QED BY <2>1, <2>2
<1> QED BY <1>2 DEF Fresh

LEMMA FreshAppend ==
  ASSUME NEW s \in Seq(Messages), NEW m \in Messages, Fresh(s), m \notin early
  PROVE  Append(s, m) \in Seq(Messages) /\ Fresh(Append(s, m))
<1>1. /\ Len(s) \in Nat /\ DOMAIN s = 1 .. Len(s) /\ DOMAIN Append(s, m) = 1 .. Len(s) + 1
      /\ Append(s, m)[Len(s) + 1] = m /\ \A i \in DOMAIN s : Append(s, m)[i] = s[i]
      /\ Append(s, m) \in Seq(Messages)
  OBVIOUS
<1>2. \A i \in DOMAIN Append(s, m) : i \in DOMAIN s \/ i = Len(s) + 1
  BY <1>1
<1> QED BY <1>1, <1>2 DEF Fresh

LEMMA FreshEmpty == Fresh(<<>>)
BY DEF Fresh

LEMMA Names ==
  /\ \A i \in Inserters : i \notin Handlers /\ i # Gc /\ i # Stopper /\ i # None
  /\ \A h \in Handlers : h \notin Inserters /\ h # Gc /\ h # Stopper /\ h # None
  /\ Gc # Stopper /\ Gc # None /\ Stopper # None
  /\ Inserters \subseteq Threads /\ Handlers \subseteq Threads /\ Gc \in Threads /\ Stopper \in Threads
BY NamesAssumption DEF Gc, Stopper, None, Threads

-----------------------------------------------------------------------------
\* The store's lock

\* Nobody but t loses the lock.
OthersKeep(t) ==
  \A u : u # t => /\ u \in readers => u \in readers'
                  /\ (writer = u /\ u # None) => writer' = u

LockTypes ==
  readers \subseteq Threads /\ writer \in Threads \cup {None} /\ writersWaiting \subseteq Threads

LEMMA LockOps ==
  ASSUME NEW t \in Threads, t # None, LockTypes
  PROVE  /\ RLock(t) => OthersKeep(t) /\ t \in readers' /\ LockTypes'
         /\ RLockUnlock => OthersKeep(t) /\ LockTypes'
         /\ (AskLock(t) /\ UNCHANGED <<readers, writer>>) => OthersKeep(t) /\ LockTypes'
         /\ Lock(t) => OthersKeep(t) /\ writer' = t /\ LockTypes'
         /\ LockUnlock(t) => OthersKeep(t) /\ LockTypes'
         /\ Unlock(t) => OthersKeep(t) /\ LockTypes'
         /\ UNCHANGED lockVars => OthersKeep(t) /\ LockTypes'
<1> USE DEF OthersKeep, LockTypes
<1>1. RLock(t) => OthersKeep(t) /\ t \in readers' /\ LockTypes'
  BY DEF RLock
<1>2. RLockUnlock => OthersKeep(t) /\ LockTypes'
  BY DEF RLockUnlock, lockVars
<1>3. (AskLock(t) /\ UNCHANGED <<readers, writer>>) => OthersKeep(t) /\ LockTypes'
  BY DEF AskLock
<1>4. Lock(t) => OthersKeep(t) /\ writer' = t /\ LockTypes'
  BY DEF Lock, MayLock
<1>5. LockUnlock(t) => OthersKeep(t) /\ LockTypes'
  BY DEF LockUnlock, MayLock
<1>6. Unlock(t) => OthersKeep(t) /\ LockTypes'
  BY DEF Unlock
<1>7. UNCHANGED lockVars => OthersKeep(t) /\ LockTypes'
  BY DEF lockVars
<1> QED BY <1>1, <1>2, <1>3, <1>4, <1>5, <1>6, <1>7

LEMMA Locks == IInv => LockTypes
BY DEF IInv, TypeOK, LockTypes

\* Whoever may lock for writing finds nobody at work on a barrel.
LEMMA NobodyAtWork ==
  ASSUME IInv, NEW t, MayLock(t)
  PROVE  (\A i \in Inserters : ~Inside(i)) /\ (\A h \in Handlers : ~Saving(h))
BY Names DEF MayLock, IInv, WorkersOK, InserterOK, HandlerOK

LEMMA NobodyStarts ==
  ASSUME IInv, NEW t, MayLock(t), UNCHANGED <<ipc, hpc>>
  PROVE  WorkersOK'
BY NobodyAtWork DEF WorkersOK, InserterOK, HandlerOK, Inside, Saving

\* Workers that do not move while t does; no barrel leaves the map.
BarrelsStay == \A e \in Events : barrels[e] # NoBarrel => barrels'[e] # NoBarrel

LEMMA OtherInserters ==
  ASSUME IInv, BarrelsStay, NEW t, OthersKeep(t), NEW i \in Inserters, i # t,
         ipc'[i] = ipc[i], imsg'[i] = imsg[i]
  PROVE  InserterOK(i)'
<1>1. InserterOK(i) /\ i # None
  BY Names DEF IInv, WorkersOK
<1>2. (i \in readers => i \in readers') /\ (writer = i => writer' = i)
  BY <1>1 DEF OthersKeep
<1>3. Inside(i) => EventOf[imsg[i]] \in Events
  BY MessagesAssumption DEF IInv, LocalsOK, Inside
<1> QED BY <1>1, <1>2, <1>3 DEF InserterOK, Inside, BarrelsStay

LEMMA OtherHandlers ==
  ASSUME IInv, BarrelsStay, NEW t, OthersKeep(t), NEW h \in Handlers, h # t,
         hpc'[h] = hpc[h], hevent'[h] = hevent[h]
  PROVE  HandlerOK(h)'
<1>1. HandlerOK(h) /\ h # None
  BY Names DEF IInv, WorkersOK
<1>2. h \in readers => h \in readers'
  BY <1>1 DEF OthersKeep
<1>3. Saving(h) => hevent[h].event \in Events
  BY DEF IInv, LocalsOK, Saving, Command
<1> QED BY <1>1, <1>2, <1>3 DEF HandlerOK, Saving, BarrelsStay

LEMMA InserterMoves ==
  ASSUME IInv, NEW i \in Inserters, BarrelsStay, UNCHANGED handVars, OthersKeep(i),
         \A j \in Inserters : j # i => ipc'[j] = ipc[j] /\ imsg'[j] = imsg[j],
         InserterOK(i)'
  PROVE  WorkersOK'
<1>1. \A j \in Inserters : j # i => InserterOK(j)'
  BY OtherInserters
<1>2. \A h \in Handlers : h # i /\ hpc'[h] = hpc[h] /\ hevent'[h] = hevent[h]
  BY Names DEF handVars
<1>3. \A h \in Handlers : HandlerOK(h)'
  BY <1>2, OtherHandlers
<1> QED BY <1>1, <1>3 DEF WorkersOK

LEMMA HandlerMoves ==
  ASSUME IInv, NEW h \in Handlers, BarrelsStay, UNCHANGED insVars, OthersKeep(h),
         \A j \in Handlers : j # h => hpc'[j] = hpc[j] /\ hevent'[j] = hevent[j],
         HandlerOK(h)'
  PROVE  WorkersOK'
<1>1. \A j \in Handlers : j # h => HandlerOK(j)'
  BY OtherHandlers
<1>2. \A i \in Inserters : i # h /\ ipc'[i] = ipc[i] /\ imsg'[i] = imsg[i]
  BY Names DEF insVars
<1>3. \A i \in Inserters : InserterOK(i)'
  BY <1>2, OtherInserters
<1> QED BY <1>1, <1>3 DEF WorkersOK

LEMMA NobodyMoves ==
  ASSUME IInv, BarrelsStay, UNCHANGED <<insVars, handVars>>, NEW t, t \notin Inserters, t \notin Handlers,
         OthersKeep(t)
  PROVE  WorkersOK'
<1>1. \A i \in Inserters : i # t /\ ipc'[i] = ipc[i] /\ imsg'[i] = imsg[i]
  BY DEF insVars
<1>2. \A h \in Handlers : h # t /\ hpc'[h] = hpc[h] /\ hevent'[h] = hevent[h]
  BY DEF handVars
<1> QED BY <1>1, <1>2, OtherInserters, OtherHandlers DEF WorkersOK

-----------------------------------------------------------------------------
\* Messages on their way, and what stop leaves

LEMMA FlightStays ==
  ASSUME IInv, UNCHANGED <<next, imsg, handled>>, \A i \in Inserters : Busy(i)' => Busy(i),
         early' = early \/ early' = handled
  PROVE  FlightOK'
<1>1. Seen' = Seen
  BY DEF Seen
<1> QED BY <1>1 DEF IInv, FlightOK

LEMMA SameBarrels ==
  ASSUME IInv, UNCHANGED <<barrels, early>>, spc' \in {"saved", "exited"} => spc \in {"saved", "exited"},
         \A i \in Inserters : ipc'[i] = "append" =>
           \/ ipc[i] = "append" /\ icopy'[i] = icopy[i]
           \/ \E e \in Mapped : icopy'[i] = barrels[e]
  PROVE  StopOK' /\ Mapped' = Mapped /\ BarrelsStay
<1>1. Mapped' = Mapped /\ BarrelsStay
  BY DEF Mapped, BarrelsStay
<1> SUFFICES ASSUME spc' \in {"saved", "exited"} PROVE StopOK'
  BY <1>1 DEF StopOK
<1>2. StopOK /\ spc \in {"saved", "exited"}
  BY DEF IInv
<1>3. \A e \in Mapped : Fresh(barrels[e].buf) /\ Fresh(barrels[e].pbuf)
  BY <1>2 DEF StopOK
<1>4. \A i \in Inserters : ipc'[i] = "append" => Fresh(icopy'[i].buf)
  BY <1>2, <1>3 DEF StopOK
<1> QED BY <1>1, <1>3, <1>4 DEF StopOK, Fresh

\* One barrel of the map changes.
LEMMA OneBarrel ==
  ASSUME IInv, UNCHANGED <<spc, early>>, NEW e \in Mapped, NEW r \in Barrel,
         barrels' = [barrels EXCEPT ![e] = r],
         spc \in {"saved", "exited"} => Fresh(r.buf) /\ Fresh(r.pbuf),
         \A i \in Inserters : ipc'[i] = "append" => ipc[i] = "append" /\ icopy'[i] = icopy[i]
  PROVE  /\ StopOK' /\ Mapped' = Mapped /\ BarrelsStay /\ barrels' \in [Events -> Barrel \cup {NoBarrel}]
         /\ barrels'[e] = r /\ \A f \in Events : f # e => barrels'[f] = barrels[f]
<1>1. /\ barrels \in [Events -> Barrel \cup {NoBarrel}] /\ e \in Events /\ r # NoBarrel
      /\ barrels[e] # NoBarrel
  BY EmptyOK DEF IInv, TypeOK, Mapped
<1>2. /\ barrels' \in [Events -> Barrel \cup {NoBarrel}] /\ barrels'[e] = r
      /\ \A f \in Events : f # e => barrels'[f] = barrels[f]
  BY <1>1
<1>3. Mapped' = Mapped /\ BarrelsStay
  BY <1>1, <1>2 DEF Mapped, BarrelsStay
<1>4. ASSUME spc \in {"saved", "exited"} PROVE StopOK'
  <2>1. \A f \in Mapped : Fresh(barrels'[f].buf) /\ Fresh(barrels'[f].pbuf)
    BY <1>2, <1>4 DEF IInv, StopOK, Mapped
  <2>2. \A i \in Inserters : ipc'[i] = "append" => Fresh(icopy'[i].buf)
    BY <1>4 DEF IInv, StopOK
  <2> QED BY <1>3, <2>1, <2>2 DEF StopOK, Fresh
<1> QED BY <1>2, <1>3, <1>4 DEF StopOK

LEMMA MappedBarrel ==
  ASSUME IInv, NEW e \in Events, barrels[e] # NoBarrel
  PROVE  /\ e \in Mapped /\ barrels[e] \in Barrel
         /\ barrels[e].buf \in Seq(Messages) /\ barrels[e].pbuf \in Seq(Messages)
         /\ spc \in {"saved", "exited"} => Fresh(barrels[e].buf) /\ Fresh(barrels[e].pbuf)
<1>1. e \in Mapped /\ barrels[e] \in Barrel
  BY DEF IInv, TypeOK, Mapped
<1> QED BY <1>1, Contents DEF IInv, StopOK

LEMMA InitIInv == Init => IInv
<1> SUFFICES ASSUME Init PROVE IInv
  OBVIOUS
<1> USE DEF Init
<1>1. Len(Inbox) \in Nat /\ ChanCap \in Nat
  BY MessagesAssumption, BoundsAssumption
<1>2. TypeOK
  BY <1>1, EmptyOK DEF TypeOK, LockInit
<1>3. LocalsOK
  BY EmptyOK DEF LocalsOK
<1>4. WorkersOK
  BY DEF WorkersOK, InserterOK, HandlerOK, Inside, Saving
<1>5. FlightOK /\ StopOK
  BY DEF FlightOK, StopOK, Busy
<1> QED BY <1>2, <1>3, <1>4, <1>5 DEF IInv
-----------------------------------------------------------------------------
\* The receivers

LEMMA NextMessage ==
  ASSUME IInv, next < Len(Inbox)
  PROVE  /\ Len(Inbox) \in Nat /\ next \in Nat /\ next + 1 \in 1 .. Len(Inbox)
         /\ Inbox[next + 1] \in Messages /\ Inbox[next + 1] \notin Seen
         /\ \A k \in 1 .. next + 1 : k \in 1 .. next \/ k = next + 1
<1>1. Len(Inbox) \in Nat /\ next \in 0 .. Len(Inbox) /\ DOMAIN Inbox = 1 .. Len(Inbox)
  BY MessagesAssumption DEF IInv, TypeOK
<1>2. next + 1 \in 1 .. Len(Inbox) /\ next \in Nat /\ \A k \in 1 .. next + 1 : k \in 1 .. next \/ k = next + 1
  BY <1>1
<1>3. Inbox[next + 1] \in Messages
  BY <1>2, MessagesAssumption
<1>4. \A k \in 1 .. next : k \in DOMAIN Inbox /\ k # next + 1
  BY <1>1
<1>5. Inbox[next + 1] \notin Seen
  BY <1>1, <1>2, <1>4, MessagesAssumption DEF Seen
<1> QED BY <1>1, <1>2, <1>3, <1>5

LEMMA ReceiveStep ==
  ASSUME IInv, NEW i \in Inserters, Receive(i)
  PROVE  IInv'
<1> DEFINE m == Inbox[next + 1]
<1>1. /\ ipc[i] = "receive" /\ next < Len(Inbox) /\ next' = next + 1
      /\ UNCHANGED <<barrels, plock, lockVars, barrelEvent, icopy, hpc, hevent, gpc, spc,
                     garbageFile, garbageLost, saved, called, uncalled, early>>
  BY DEF Receive, handVars, ctlVars, dbVars
<1>2. \/ /\ garbage' = AddAll(garbage, <<m>>) /\ handled' = handled \cup {m}
         /\ UNCHANGED <<ipc, imsg>>
      \/ /\ ipc' = [ipc EXCEPT ![i] = "lookup"] /\ imsg' = [imsg EXCEPT ![i] = m]
         /\ UNCHANGED <<garbage, handled>>
  BY DEF Receive, IGoto
<1>3. /\ next' \in 0 .. Len(Inbox) /\ m \in Messages /\ m \notin Seen
  BY <1>1, NextMessage
<1>4. Seen' = Seen \cup {m}
  BY <1>1, NextMessage DEF Seen
<1> HIDE DEF m
<1>5. garbage' \in Bag /\ handled' \subseteq Messages /\ raced' \subseteq Events
  <2>0. raced' \subseteq Events
    <3>1. \A j \in Sharing(m) : EventOf[imsg[j]] \in Events
      BY MessagesAssumption DEF Sharing, IInv, LocalsOK
    <3>2. raced' = raced \/ raced' = raced \cup {EventOf[imsg[j]] : j \in Sharing(m)}
      BY DEF Receive, m
    <3> QED BY <3>1, <3>2 DEF IInv, TypeOK
  <2>1. <<m>> \in Seq(Messages)
    BY <1>3
  <2>2. garbage \in Bag /\ handled \subseteq Messages
    BY DEF IInv, TypeOK
  <2>3. AddAll(garbage, <<m>>) \in Bag
    BY <2>1, <2>2, AddedAll
  <2> QED BY <1>2, <1>3, <2>0, <2>2, <2>3
<1>6. TypeOK'
  BY <1>1, <1>3, <1>5 DEF IInv, TypeOK, lockVars
<1>7. LocalsOK'
  BY <1>1, <1>2, <1>3 DEF IInv, LocalsOK
<1>8. StopOK' /\ BarrelsStay
  BY <1>1, <1>2, SameBarrels DEF IInv, LocalsOK
<1>9. WorkersOK'
  <2>1. OthersKeep(i) /\ UNCHANGED handVars
    BY <1>1 DEF OthersKeep, handVars, lockVars
  <2>2. InserterOK(i)'
    BY <1>1, <1>2 DEF InserterOK, Inside, IInv, LocalsOK
  <2>3. \A j \in Inserters : j # i => ipc'[j] = ipc[j] /\ imsg'[j] = imsg[j]
    BY <1>2 DEF IInv, LocalsOK
  <2> QED BY <1>8, <2>1, <2>2, <2>3, InserterMoves
<1>10. FlightOK'
  <2>0. FlightOK /\ ipc \in [Inserters -> {"receive", "lookup", "ask", "lock", "insert", "append", "flush",
                             "send", "cache", "return"}] /\ imsg \in [Inserters -> Messages \cup {None}]
    BY DEF IInv, LocalsOK
  <2>1. CASE /\ garbage' = AddAll(garbage, <<m>>) /\ handled' = handled \cup {m} /\ UNCHANGED <<ipc, imsg>>
    BY <1>1, <1>3, <1>4, <2>0, <2>1 DEF FlightOK, Busy
  <2>2. CASE /\ ipc' = [ipc EXCEPT ![i] = "lookup"] /\ imsg' = [imsg EXCEPT ![i] = m] /\ UNCHANGED handled
    <3>1. imsg'[i] = m /\ m \notin handled /\ \A j \in Inserters : j # i => ipc'[j] = ipc[j] /\ imsg'[j] = imsg[j]
      BY <1>3, <2>0, <2>2 DEF FlightOK
    <3>2. \A j \in Inserters : j # i /\ Busy(j)' => Busy(j) /\ imsg[j] \in Seen
      BY <2>0, <3>1 DEF Busy, FlightOK
    <3> QED BY <1>1, <1>3, <1>4, <2>0, <2>2, <3>1, <3>2 DEF FlightOK
  <2> QED BY <1>2, <2>1, <2>2
<1> QED BY <1>6, <1>7, <1>8, <1>9, <1>10 DEF IInv

\* The message a receiver has, and the barrel it works on.
LEMMA Inserting ==
  ASSUME IInv, NEW i \in Inserters, ipc[i] # "receive"
  PROVE  /\ imsg[i] \in Messages /\ EventOf[imsg[i]] \in Events /\ StepOf[imsg[i]] \in Steps
         /\ Busy(i) /\ imsg[i] \in Seen \ handled /\ imsg[i] \notin early
         /\ Inside(i) => /\ EventOf[imsg[i]] \in Mapped /\ barrels[EventOf[imsg[i]]] # NoBarrel
                         /\ barrels[EventOf[imsg[i]]] \in Barrel
                         /\ i \in readers \/ writer = i
<1>1. imsg[i] \in Messages /\ EventOf[imsg[i]] \in Events /\ StepOf[imsg[i]] \in Steps
  BY MessagesAssumption DEF IInv, LocalsOK
<1>2. Busy(i) /\ imsg[i] \in Seen \ handled /\ imsg[i] \notin early
  BY DEF Busy, IInv, FlightOK
<1>3. Inside(i) => barrels[EventOf[imsg[i]]] # NoBarrel /\ (i \in readers \/ writer = i)
  BY DEF IInv, WorkersOK, InserterOK
<1> QED BY <1>1, <1>2, <1>3, MappedBarrel

\* A receiver goes on with its message.
LEMMA InserterGoes ==
  ASSUME IInv, NEW i \in Inserters, ipc[i] # "receive", BarrelsStay, OthersKeep(i),
         NEW l \in {"lookup", "ask", "lock", "insert", "append", "flush", "send", "cache", "return"},
         ipc' = [ipc EXCEPT ![i] = l],
         UNCHANGED <<next, imsg, hpc, hevent, gpc, spc, handled, early>>,
         icopy' \in [Inserters -> Barrel], barrelEvent' \in Seq(Command),
         l \in {"insert", "append", "flush", "send", "cache", "return"} =>
           /\ i \in readers' \/ writer' = i
           /\ barrels'[EventOf[imsg[i]]] # NoBarrel
  PROVE  /\ WorkersOK' /\ FlightOK' /\ LocalsOK'
         /\ ipc'[i] = l /\ \A j \in Inserters : j # i => ipc'[j] = ipc[j]
<1>1. ipc'[i] = l /\ \A j \in Inserters : j # i => ipc'[j] = ipc[j]
  BY DEF IInv, LocalsOK
<1>2. InserterOK(i)' /\ UNCHANGED handVars
  BY <1>1 DEF InserterOK, Inside, handVars
<1>3. WorkersOK'
  BY <1>1, <1>2, InserterMoves
<1>4. FlightOK'
  <2>1. \A j \in Inserters : Busy(j)' => Busy(j)
    BY <1>1 DEF Busy
  <2> QED BY <2>1, FlightStays
<1>5. LocalsOK'
  BY <1>1, Inserting DEF IInv, LocalsOK
<1> QED BY <1>1, <1>3, <1>4, <1>5

LEMMA LookupStep ==
  ASSUME IInv, NEW i \in Inserters, Lookup(i)
  PROVE  IInv'
<1>1. /\ ipc[i] = "lookup"
      /\ UNCHANGED <<barrels, plock, barrelEvent, next, imsg, icopy, hpc, hevent, gpc, spc, garbage,
                     garbageFile, garbageLost, saved, called, uncalled, handled, early, raced>>
  BY DEF Lookup, handVars, ctlVars, garbageVars, dbVars, histVars
<1>2. \/ barrels[EventOf[imsg[i]]] # NoBarrel /\ RLock(i) /\ ipc' = [ipc EXCEPT ![i] = "insert"]
      \/ barrels[EventOf[imsg[i]]] = NoBarrel /\ RLockUnlock /\ ipc' = [ipc EXCEPT ![i] = "ask"]
  BY DEF Lookup, IGoto
<1>3. OthersKeep(i) /\ LockTypes' /\ (ipc'[i] = "insert" => i \in readers')
  BY <1>2, LockOps, Locks, Names DEF IInv, LocalsOK
<1>4. StopOK' /\ BarrelsStay
  BY <1>1, <1>2, SameBarrels DEF IInv, LocalsOK
<1>5. WorkersOK' /\ FlightOK' /\ LocalsOK'
  <2>1. icopy' \in [Inserters -> Barrel] /\ barrelEvent' \in Seq(Command) /\ ipc[i] # "receive"
    BY <1>1 DEF IInv, LocalsOK
  <2>2. CASE barrels[EventOf[imsg[i]]] # NoBarrel /\ RLock(i) /\ ipc' = [ipc EXCEPT ![i] = "insert"]
    <3>1. i \in readers'
      BY <1>3, <2>2 DEF IInv, LocalsOK
    <3> QED BY <1>1, <1>3, <1>4, <2>1, <2>2, <3>1, InserterGoes
  <2>3. CASE ipc' = [ipc EXCEPT ![i] = "ask"]
    BY <1>1, <1>3, <1>4, <2>1, <2>3, InserterGoes
  <2> QED BY <1>2, <2>2, <2>3
<1>6. TypeOK'
  BY <1>1, <1>3 DEF IInv, TypeOK, LockTypes
<1> QED BY <1>4, <1>5, <1>6 DEF IInv

LEMMA AskStep ==
  ASSUME IInv, NEW i \in Inserters, Ask(i)
  PROVE  IInv'
<1>1. /\ ipc[i] = "ask" /\ ipc' = [ipc EXCEPT ![i] = "lock"] /\ AskLock(i)
      /\ UNCHANGED <<barrels, plock, readers, writer, barrelEvent, next, imsg, icopy, hpc, hevent, gpc, spc,
                     garbage, garbageFile, garbageLost, saved, called, uncalled, handled, early, raced>>
  BY DEF Ask, IGoto, handVars, ctlVars, garbageVars, dbVars, histVars
<1>2. OthersKeep(i) /\ LockTypes'
  BY <1>1, LockOps, Locks, Names
<1>3. StopOK' /\ BarrelsStay
  BY <1>1, SameBarrels DEF IInv, LocalsOK
<1>4. WorkersOK' /\ FlightOK' /\ LocalsOK'
  <2>1. icopy' \in [Inserters -> Barrel] /\ barrelEvent' \in Seq(Command) /\ ipc[i] # "receive"
    BY <1>1 DEF IInv, LocalsOK
  <2> QED BY <1>1, <1>2, <1>3, <2>1, InserterGoes
<1>5. TypeOK'
  BY <1>1, <1>2 DEF IInv, TypeOK, LockTypes
<1> QED BY <1>3, <1>4, <1>5 DEF IInv

LEMMA NewBarrelStep ==
  ASSUME IInv, NEW i \in Inserters, NewBarrel(i)
  PROVE  IInv'
<1> DEFINE e == EventOf[imsg[i]]
<1>1. /\ ipc[i] = "lock" /\ Lock(i) /\ ipc' = [ipc EXCEPT ![i] = "insert"]
      /\ barrels' = [barrels EXCEPT ![e] = EmptyBarrel]
      /\ UNCHANGED <<plock, barrelEvent, next, imsg, icopy, hpc, hevent, gpc, spc, garbage,
                     garbageFile, garbageLost, saved, called, uncalled, handled, early, raced>>
  BY DEF NewBarrel, IGoto, handVars, ctlVars, garbageVars, dbVars, histVars
<1>2. e \in Events /\ barrels \in [Events -> Barrel \cup {NoBarrel}]
  BY <1>1, Inserting DEF IInv, TypeOK
<1>3. OthersKeep(i) /\ LockTypes' /\ writer' = i
  BY <1>1, LockOps, Locks, Names
<1>4. /\ barrels' \in [Events -> Barrel \cup {NoBarrel}] /\ barrels'[e] = EmptyBarrel
      /\ \A f \in Events : f # e => barrels'[f] = barrels[f]
  BY <1>1, <1>2, EmptyOK
<1>5. BarrelsStay /\ barrels'[e] # NoBarrel
  BY <1>4, EmptyOK DEF BarrelsStay
<1>6. StopOK'
  <2> SUFFICES ASSUME spc \in {"saved", "exited"} PROVE StopOK'
    BY <1>1 DEF StopOK
  <2>1. \A f \in Mapped' : Fresh(barrels'[f].buf) /\ Fresh(barrels'[f].pbuf)
    BY <1>4, EmptyOK, FreshEmpty DEF IInv, StopOK, Mapped
  <2>2. \A j \in Inserters : ipc'[j] = "append" => Fresh(icopy'[j].buf)
    BY <1>1 DEF IInv, StopOK, LocalsOK
  <2> QED BY <1>1, <2>1, <2>2 DEF StopOK, Fresh
<1>7. WorkersOK' /\ FlightOK' /\ LocalsOK'
  <2>1. icopy' \in [Inserters -> Barrel] /\ barrelEvent' \in Seq(Command) /\ ipc[i] # "receive"
    BY <1>1 DEF IInv, LocalsOK
  <2> QED BY <1>1, <1>3, <1>5, <2>1, InserterGoes
<1>8. TypeOK'
  BY <1>1, <1>3, <1>4 DEF IInv, TypeOK, LockTypes
<1> QED BY <1>6, <1>7, <1>8 DEF IInv

LEMMA InsertBeginStep ==
  ASSUME IInv, NEW i \in Inserters, InsertBegin(i)
  PROVE  IInv'
<1> DEFINE m == imsg[i]
           b == barrels[EventOf[m]]
<1>1. /\ ipc[i] = "insert"
      /\ UNCHANGED <<barrels, plock, lockVars, barrelEvent, next, imsg, hpc, hevent, gpc, spc,
                     garbageFile, garbageLost, saved, called, uncalled, handled, early, raced>>
  BY DEF InsertBegin, handVars, ctlVars, dbVars, histVars
<1>2. \/ /\ garbage' = AddAll(garbage, <<m>>) /\ ipc' = [ipc EXCEPT ![i] = "return"] /\ UNCHANGED icopy
      \/ /\ ipc' = [ipc EXCEPT ![i] = "return"] /\ UNCHANGED <<garbage, icopy>>
      \/ /\ icopy' = [icopy EXCEPT ![i] = b] /\ ipc' = [ipc EXCEPT ![i] = "append"] /\ UNCHANGED garbage
  BY DEF InsertBegin, IGoto
<1>3. /\ m \in Messages /\ b \in Barrel /\ b # NoBarrel /\ EventOf[m] \in Mapped
      /\ i \in readers \/ writer = i
  BY <1>1, Inserting DEF Inside
<1>4. garbage' \in Bag
  <2>1. <<m>> \in Seq(Messages)
    BY <1>3
  <2>2. garbage \in Bag
    BY DEF IInv, TypeOK
  <2>3. AddAll(garbage, <<m>>) \in Bag
    BY <2>1, <2>2, AddedAll
  <2> QED BY <1>2, <2>2, <2>3
<1>5. TypeOK'
  BY <1>1, <1>4 DEF IInv, TypeOK, lockVars
<1>6. /\ icopy' \in [Inserters -> Barrel] /\ barrelEvent' \in Seq(Command) /\ ipc[i] # "receive"
      /\ OthersKeep(i) /\ (i \in readers' \/ writer' = i)
  BY <1>1, <1>2, <1>3 DEF IInv, LocalsOK, OthersKeep, lockVars
<1>7. StopOK' /\ BarrelsStay
  <2>1. \A j \in Inserters : ipc'[j] = "append" =>
           \/ ipc[j] = "append" /\ icopy'[j] = icopy[j]
           \/ \E e \in Mapped : icopy'[j] = barrels[e]
    BY <1>1, <1>2, <1>3 DEF IInv, LocalsOK
  <2> QED BY <1>1, <2>1, SameBarrels
<1>8. WorkersOK' /\ FlightOK' /\ LocalsOK'
  <2>1. barrels'[EventOf[imsg[i]]] # NoBarrel
    BY <1>1, <1>3
  <2>2. CASE ipc' = [ipc EXCEPT ![i] = "return"]
    BY <1>1, <1>6, <1>7, <2>1, <2>2, InserterGoes
  <2>3. CASE ipc' = [ipc EXCEPT ![i] = "append"]
    BY <1>1, <1>6, <1>7, <2>1, <2>3, InserterGoes
  <2> QED BY <1>2, <2>2, <2>3
<1> QED BY <1>5, <1>7, <1>8 DEF IInv
LEMMA InsertAppendStep ==
  ASSUME IInv, NEW i \in Inserters, InsertAppend(i)
  PROVE  IInv'
<1> DEFINE m == imsg[i]
           e == EventOf[m]
           buf == Append(icopy[i].buf, m)
           size == icopy[i].size + 1
           r == [barrels[e] EXCEPT !.buf = buf, !.size = size]
           l == CASE StepOf[m] \in {"last", "callback"} -> "flush"
                  [] StepOf[m] = "code-version" -> "send"
                  [] OTHER -> "cache"
<1>1. /\ ipc[i] = "append" /\ ipc' = [ipc EXCEPT ![i] = l]
      /\ barrels' = [barrels EXCEPT ![e].buf = buf, ![e].size = size]
      /\ icopy' = [icopy EXCEPT ![i] = EmptyBarrel]
      /\ UNCHANGED <<plock, lockVars, barrelEvent, next, imsg, hpc, hevent, gpc, spc, garbage,
                     garbageFile, garbageLost, saved, called, uncalled, handled, early, raced>>
  BY DEF InsertAppend, IGoto, handVars, ctlVars, garbageVars, dbVars, histVars
<1>2. /\ m \in Messages /\ e \in Mapped /\ e \in Events /\ barrels[e] # NoBarrel /\ barrels[e] \in Barrel
      /\ m \notin early /\ (i \in readers \/ writer = i)
  BY <1>1, Inserting DEF Inside
<1>3. icopy[i].buf \in Seq(Messages) /\ size \in Nat /\ (spc \in {"saved", "exited"} => Fresh(icopy[i].buf))
  <2>1. icopy[i] \in Barrel
    BY DEF IInv, LocalsOK
  <2>2. icopy[i].buf \in Seq(Messages) /\ icopy[i].size \in Nat
    BY <2>1 DEF Barrel
  <2> QED BY <1>1, <2>2 DEF IInv, StopOK
<1>4. buf \in Seq(Messages) /\ (spc \in {"saved", "exited"} => Fresh(buf))
  BY <1>2, <1>3, FreshAppend
<1>5. l \in {"flush", "send", "cache"}
  OBVIOUS
<1> HIDE DEF buf, size, l, m, e
<1>6. barrels' = [barrels EXCEPT ![e] = r]
  BY <1>1, <1>2 DEF IInv, TypeOK
<1>7. r \in Barrel /\ r.buf = buf /\ r.pbuf = barrels[e].pbuf
  BY <1>2, <1>3, <1>4 DEF Barrel
<1>8. spc \in {"saved", "exited"} => Fresh(r.pbuf)
  BY <1>2, <1>7, MappedBarrel
<1> HIDE DEF r
<1>9. \A j \in Inserters : ipc'[j] = "append" => ipc[j] = "append" /\ icopy'[j] = icopy[j]
  BY <1>1, <1>5 DEF IInv, LocalsOK
<1>10. StopOK' /\ BarrelsStay /\ barrels' \in [Events -> Barrel \cup {NoBarrel}]
  BY <1>1, <1>2, <1>4, <1>6, <1>7, <1>8, <1>9, OneBarrel
<1>11. WorkersOK' /\ FlightOK' /\ LocalsOK'
  <2>1. /\ icopy' \in [Inserters -> Barrel] /\ barrelEvent' \in Seq(Command) /\ ipc[i] # "receive"
        /\ OthersKeep(i) /\ (i \in readers' \/ writer' = i)
    BY <1>1, <1>2, EmptyOK DEF IInv, LocalsOK, OthersKeep, lockVars
  <2>2. barrels'[EventOf[imsg[i]]] # NoBarrel
    BY <1>2, <1>10 DEF BarrelsStay, e, m
  <2> QED BY <1>1, <1>5, <1>10, <2>1, <2>2, InserterGoes
<1>12. TypeOK'
  BY <1>1, <1>10 DEF IInv, TypeOK, lockVars
<1> QED BY <1>10, <1>11, <1>12 DEF IInv

\* persistence moves the cache to the queue and may announce it.
LEMMA PersistenceOK ==
  ASSUME IInv, UNCHANGED <<spc, early>>, NEW e \in Mapped, Persistence(e),
         \A i \in Inserters : ipc'[i] = "append" => ipc[i] = "append" /\ icopy'[i] = icopy[i]
  PROVE  /\ StopOK' /\ Mapped' = Mapped /\ BarrelsStay /\ barrels' \in [Events -> Barrel \cup {NoBarrel}]
         /\ barrels' = [barrels EXCEPT ![e] = Persisted(barrels[e])]
         /\ barrelEvent' \in Seq(Command) /\ Len(barrelEvent') <= ChanCap
<1> DEFINE r == Persisted(barrels[e])
<1>1. barrels' = [barrels EXCEPT ![e] = r]
  BY DEF Persistence
<1>2. /\ barrels[e] \in Barrel /\ barrels[e].buf \in Seq(Messages) /\ barrels[e].pbuf \in Seq(Messages)
      /\ spc \in {"saved", "exited"} => Fresh(barrels[e].buf) /\ Fresh(barrels[e].pbuf)
  BY MappedBarrel DEF Mapped
<1>3. r \in Barrel /\ r.buf = <<>> /\ r.pbuf = barrels[e].pbuf \o barrels[e].buf
  BY <1>2, PersistedOK DEF Content
<1>4. spc \in {"saved", "exited"} => Fresh(r.buf) /\ Fresh(r.pbuf)
  BY <1>2, <1>3, FreshConcat, FreshEmpty
<1> HIDE DEF r
<1>5. StopOK' /\ Mapped' = Mapped /\ BarrelsStay /\ barrels' \in [Events -> Barrel \cup {NoBarrel}]
  BY <1>1, <1>3, <1>4, OneBarrel
<1>6. barrelEvent' \in Seq(Command) /\ Len(barrelEvent') <= ChanCap
  <2> DEFINE c == [kind |-> "persistence", event |-> e]
  <2>1. c \in Command
    BY DEF Command, Mapped
  <2>2. barrelEvent \in Seq(Command) /\ Len(barrelEvent) <= ChanCap /\ ChanCap \in Nat
    BY BoundsAssumption DEF IInv, TypeOK, LocalsOK
  <2>3. barrelEvent' = IF Len(barrelEvent) < ChanCap THEN Append(barrelEvent, c) ELSE barrelEvent
    BY DEF Persistence, OfferPersistence
  <2> HIDE DEF c
  <2>4. CASE Len(barrelEvent) < ChanCap
    BY <2>1, <2>2, <2>3, <2>4
  <2>5. CASE ~(Len(barrelEvent) < ChanCap)
    BY <2>2, <2>3, <2>5
  <2> QED BY <2>4, <2>5
<1> QED BY <1>1, <1>5, <1>6 DEF r

\* A receiver persists its barrel and goes on.
LEMMA FlushStep ==
  ASSUME IInv, NEW i \in Inserters, ipc[i] \in {"flush", "cache"}, Persistence(EventOf[imsg[i]]),
         NEW l \in {"send", "return"}, ipc' = [ipc EXCEPT ![i] = l],
         UNCHANGED <<plock, lockVars, next, imsg, icopy, handVars, ctlVars, garbageVars, dbVars, histVars>>
  PROVE  IInv'
<1> DEFINE e == EventOf[imsg[i]]
<1>1. UNCHANGED <<plock, lockVars, next, imsg, icopy, hpc, hevent, gpc, spc, garbage,
                  garbageFile, garbageLost, saved, called, uncalled, handled, early, raced>>
  BY DEF handVars, ctlVars, garbageVars, dbVars, histVars
<1>2. e \in Mapped /\ e \in Events /\ barrels[e] # NoBarrel /\ (i \in readers \/ writer = i)
  BY Inserting DEF Inside
<1>3. \A j \in Inserters : ipc'[j] = "append" => ipc[j] = "append" /\ icopy'[j] = icopy[j]
  BY <1>1 DEF IInv, LocalsOK
<1>4. /\ StopOK' /\ BarrelsStay /\ barrels' \in [Events -> Barrel \cup {NoBarrel}]
      /\ barrelEvent' \in Seq(Command) /\ Len(barrelEvent') <= ChanCap
  BY <1>1, <1>2, <1>3, PersistenceOK
<1>5. WorkersOK' /\ FlightOK' /\ LocalsOK'
  <2>1. /\ icopy' \in [Inserters -> Barrel] /\ ipc[i] # "receive"
        /\ OthersKeep(i) /\ (i \in readers' \/ writer' = i) /\ barrels'[EventOf[imsg[i]]] # NoBarrel
    BY <1>1, <1>2, <1>4 DEF IInv, LocalsOK, OthersKeep, lockVars, BarrelsStay
  <2> QED BY <1>1, <1>4, <2>1, InserterGoes
<1>6. TypeOK'
  BY <1>1, <1>4 DEF IInv, TypeOK, lockVars
<1> QED BY <1>4, <1>5, <1>6 DEF IInv

LEMMA AnalysisFlushStep ==
  ASSUME IInv, NEW i \in Inserters, AnalysisFlush(i)
  PROVE  IInv'
BY FlushStep DEF AnalysisFlush, IGoto

LEMMA CacheCheckStep ==
  ASSUME IInv, NEW i \in Inserters, CacheCheck(i)
  PROVE  IInv'
<1> DEFINE e == EventOf[imsg[i]]
<1>1. /\ ipc[i] = "cache" /\ ipc' = [ipc EXCEPT ![i] = "return"]
      /\ UNCHANGED <<plock, lockVars, next, imsg, icopy, handVars, ctlVars, garbageVars, dbVars, histVars>>
  BY DEF CacheCheck, IGoto
<1>2. CASE Persistence(e)
  BY <1>1, <1>2, FlushStep
<1>3. CASE UNCHANGED <<barrels, barrelEvent>>
  <2>1. UNCHANGED <<barrels, barrelEvent, plock, lockVars, next, imsg, icopy, hpc, hevent, gpc, spc, garbage,
                    garbageFile, garbageLost, saved, called, uncalled, handled, early, raced>>
    BY <1>1, <1>3 DEF handVars, ctlVars, garbageVars, dbVars, histVars
  <2>2. e \in Mapped /\ e \in Events /\ barrels[e] # NoBarrel /\ (i \in readers \/ writer = i)
    BY <1>1, Inserting DEF Inside
  <2>3. StopOK' /\ BarrelsStay
    BY <1>1, <2>1, SameBarrels DEF IInv, LocalsOK
  <2>4. /\ icopy' \in [Inserters -> Barrel] /\ ipc[i] # "receive" /\ barrelEvent' \in Seq(Command)
        /\ OthersKeep(i) /\ (i \in readers' \/ writer' = i) /\ barrels'[EventOf[imsg[i]]] # NoBarrel
    BY <1>1, <2>1, <2>2 DEF IInv, LocalsOK, OthersKeep, lockVars
  <2>5. WorkersOK' /\ FlightOK' /\ LocalsOK'
    BY <1>1, <2>1, <2>3, <2>4, InserterGoes
  <2>6. TypeOK'
    BY <2>1 DEF IInv, TypeOK, lockVars
  <2> QED BY <2>3, <2>5, <2>6 DEF IInv
<1> QED BY <1>2, <1>3 DEF CacheCheck

LEMMA AnalysisSendStep ==
  ASSUME IInv, NEW i \in Inserters, AnalysisSend(i)
  PROVE  IInv'
<1> DEFINE m == imsg[i]
           k == IF StepOf[m] = "code-version" THEN "code-version" ELSE "callback"
           c == [kind |-> k, event |-> EventOf[m], msg |-> m]
<1>1. /\ ipc[i] = "send" /\ ipc' = [ipc EXCEPT ![i] = "cache"] /\ Len(barrelEvent) < ChanCap
      /\ barrelEvent' = Append(barrelEvent, c)
      /\ UNCHANGED <<barrels, plock, lockVars, next, imsg, icopy, hpc, hevent, gpc, spc, garbage,
                    garbageFile, garbageLost, saved, called, uncalled, handled, early, raced>>
  BY DEF AnalysisSend, IGoto, handVars, ctlVars, garbageVars, dbVars, histVars
<1>2. /\ m \in Messages /\ EventOf[m] \in Events /\ barrels[EventOf[m]] # NoBarrel
      /\ (i \in readers \/ writer = i)
  BY <1>1, Inserting DEF Inside
<1>3. k \in {"callback", "code-version"}
  OBVIOUS
<1> HIDE DEF m, k
<1>4. c \in Command
  BY <1>2, <1>3 DEF Command
<1> HIDE DEF c
<1>5. barrelEvent' \in Seq(Command) /\ Len(barrelEvent') <= ChanCap
  <2>1. barrelEvent \in Seq(Command) /\ ChanCap \in Nat
    BY BoundsAssumption DEF IInv, LocalsOK
  <2> QED BY <1>1, <1>4, <2>1
<1>6. StopOK' /\ BarrelsStay
  BY <1>1, SameBarrels DEF IInv, LocalsOK
<1>7. WorkersOK' /\ FlightOK' /\ LocalsOK'
  <2>1. /\ icopy' \in [Inserters -> Barrel] /\ ipc[i] # "receive"
        /\ OthersKeep(i) /\ (i \in readers' \/ writer' = i) /\ barrels'[EventOf[imsg[i]]] # NoBarrel
    BY <1>1, <1>2 DEF IInv, LocalsOK, OthersKeep, lockVars, m
  <2> QED BY <1>1, <1>5, <1>6, <2>1, InserterGoes
<1>8. TypeOK'
  BY <1>1, <1>5 DEF IInv, TypeOK, lockVars
<1> QED BY <1>6, <1>7, <1>8 DEF IInv

LEMMA ReturnStep ==
  ASSUME IInv, NEW i \in Inserters, Return(i)
  PROVE  IInv'
<1>1. /\ ipc[i] = "return" /\ Unlock(i) /\ handled' = handled \cup {imsg[i]}
      /\ imsg' = [imsg EXCEPT ![i] = None] /\ ipc' = [ipc EXCEPT ![i] = "receive"]
      /\ UNCHANGED <<barrels, plock, barrelEvent, next, icopy, hpc, hevent, gpc, spc, garbage,
                     garbageFile, garbageLost, saved, called, uncalled, early, raced>>
  BY DEF Return, IGoto, handVars, ctlVars, garbageVars, dbVars
<1>2. imsg[i] \in Messages /\ imsg[i] \in Seen \ handled /\ Busy(i)
  BY <1>1, Inserting
<1>3. OthersKeep(i) /\ LockTypes'
  BY <1>1, LockOps, Locks, Names
<1>4. StopOK' /\ BarrelsStay
  BY <1>1, SameBarrels DEF IInv, LocalsOK
<1>5. /\ ipc'[i] = "receive" /\ \A j \in Inserters : j # i => ipc'[j] = ipc[j] /\ imsg'[j] = imsg[j]
  BY <1>1 DEF IInv, LocalsOK
<1>6. WorkersOK'
  <2>1. InserterOK(i)' /\ UNCHANGED handVars
    BY <1>1, <1>5 DEF InserterOK, Inside, handVars
  <2> QED BY <1>3, <1>4, <1>5, <2>1, InserterMoves
<1>7. LocalsOK'
  BY <1>1, <1>5 DEF IInv, LocalsOK
<1>8. FlightOK'
  <2>1. Seen' = Seen
    BY <1>1 DEF Seen
  <2>2. \A j \in Inserters : Busy(j)' => j # i /\ Busy(j) /\ imsg'[j] = imsg[j] /\ imsg[j] # imsg[i]
    BY <1>2, <1>5 DEF Busy, IInv, FlightOK
  <2> QED BY <1>1, <1>2, <2>1, <2>2 DEF IInv, FlightOK
<1>9. TypeOK'
  BY <1>1, <1>2, <1>3 DEF IInv, TypeOK, LockTypes
<1> QED BY <1>4, <1>6, <1>7, <1>8, <1>9 DEF IInv
-----------------------------------------------------------------------------
\* The handlers

\* A handler moves, the receivers and the barrels do not.
LEMMA HandlerGoes ==
  ASSUME IInv, NEW h \in Handlers, OthersKeep(h), HandlerOK(h)',
         UNCHANGED <<barrels, next, ipc, imsg, icopy, spc, handled, early>>,
         NEW l \in {"idle", "persistence", "plock", "save", "callback", "exited"}, NEW ev,
         hpc' = [hpc EXCEPT ![h] = l], hevent' = [hevent EXCEPT ![h] = ev]
  PROVE  WorkersOK' /\ FlightOK' /\ StopOK'
<1>1. StopOK' /\ BarrelsStay
  BY SameBarrels
<1>2. \A j \in Handlers : j # h => hpc'[j] = hpc[j] /\ hevent'[j] = hevent[j]
  BY DEF IInv, TypeOK, LocalsOK
<1>3. WorkersOK'
  BY <1>1, <1>2, HandlerMoves DEF insVars
<1>4. FlightOK'
  BY FlightStays DEF Busy
<1> QED BY <1>1, <1>3, <1>4

\* What a handler that is at work has to do.
LEMMA Handling ==
  ASSUME IInv, NEW h \in Handlers, hpc[h] \in {"persistence", "plock", "save", "callback"}
  PROVE  /\ hevent[h] \in Command /\ hevent[h].event \in Events
         /\ hpc[h] = "callback" => hevent[h].msg \in Messages
         /\ Saving(h) => /\ hevent[h].event \in Mapped /\ barrels[hevent[h].event] # NoBarrel
                         /\ barrels[hevent[h].event] \in Barrel
                         /\ h \in readers
<1>1. hevent[h] \in Command /\ (hpc[h] = "callback" <=> hevent[h].kind = "callback")
  BY DEF IInv, LocalsOK
<1>2. hevent[h].event \in Events /\ (hpc[h] = "callback" => hevent[h].msg \in Messages)
  BY <1>1 DEF Command
<1>3. Saving(h) => barrels[hevent[h].event] # NoBarrel /\ h \in readers
  BY DEF IInv, WorkersOK, HandlerOK
<1> QED BY <1>1, <1>2, <1>3, MappedBarrel

LEMMA TakeEventStep ==
  ASSUME IInv, NEW h \in Handlers, TakeEvent(h)
  PROVE  IInv'
<1> DEFINE ev == Head(barrelEvent)
<1>1. /\ hpc[h] = "idle" /\ barrelEvent # <<>> /\ barrelEvent' = Tail(barrelEvent)
      /\ UNCHANGED <<barrels, plock, lockVars, next, ipc, imsg, icopy, gpc, spc, garbage,
                     garbageFile, garbageLost, saved, called, uncalled, handled, early, raced>>
  BY DEF TakeEvent, insVars, ctlVars, garbageVars, dbVars, histVars
<1>2. \/ ev.kind = "code-version" /\ UNCHANGED <<hpc, hevent>>
      \/ /\ ev.kind # "code-version" /\ hpc' = [hpc EXCEPT ![h] = ev.kind]
         /\ hevent' = [hevent EXCEPT ![h] = ev]
  BY DEF TakeEvent, HGoto, handVars
<1>3. ev \in Command /\ barrelEvent' \in Seq(Command) /\ Len(barrelEvent') <= ChanCap
  <2>1. barrelEvent \in Seq(Command) /\ Len(barrelEvent) <= ChanCap /\ ChanCap \in Nat
    BY BoundsAssumption DEF IInv, LocalsOK, TypeOK
  <2> QED BY <1>1, <2>1
<1>4. ev.kind \in {"persistence", "callback", "code-version"}
  BY <1>3 DEF Command
<1> HIDE DEF ev
<1>5. hpc \in [Handlers -> {"idle", "persistence", "plock", "save", "callback", "exited"}]
      /\ hevent \in [Handlers -> Command \cup {NoEvent}]
  BY DEF IInv, TypeOK, LocalsOK
<1>6. hpc' \in [Handlers -> {"idle", "persistence", "plock", "save", "callback", "exited"}]
      /\ hevent' \in [Handlers -> Command \cup {NoEvent}]
  BY <1>2, <1>3, <1>4, <1>5
<1>7. TypeOK'
  BY <1>1, <1>3, <1>6 DEF IInv, TypeOK, lockVars
<1>8. LocalsOK'
  BY <1>1, <1>2, <1>3, <1>4, <1>5, <1>6 DEF IInv, LocalsOK
<1>9. WorkersOK' /\ FlightOK' /\ StopOK'
  <2>1. OthersKeep(h)
    BY <1>1 DEF OthersKeep, lockVars
  <2>2. CASE UNCHANGED <<hpc, hevent>>
    <3>1. HandlerOK(h)' /\ hpc' = [hpc EXCEPT ![h] = "idle"] /\ hevent' = [hevent EXCEPT ![h] = hevent[h]]
      BY <1>1, <1>5, <2>2 DEF HandlerOK, Saving
    <3> QED BY <1>1, <2>1, <3>1, HandlerGoes
  <2>3. CASE /\ ev.kind # "code-version" /\ hpc' = [hpc EXCEPT ![h] = ev.kind]
             /\ hevent' = [hevent EXCEPT ![h] = ev]
    <3>1. HandlerOK(h)'
      BY <1>4, <1>5, <2>3 DEF HandlerOK, Saving
    <3> QED BY <1>1, <1>4, <2>1, <2>3, <3>1, HandlerGoes
  <2> QED BY <1>2, <2>2, <2>3
<1> QED BY <1>7, <1>8, <1>9 DEF IInv

LEMMA HandlerExitStep ==
  ASSUME IInv, NEW h \in Handlers, HandlerExit(h)
  PROVE  IInv'
<1>1. /\ hpc[h] = "idle" /\ hpc' = [hpc EXCEPT ![h] = "exited"]
      /\ UNCHANGED <<barrels, plock, lockVars, barrelEvent, next, ipc, imsg, icopy, hevent, gpc, spc, garbage,
                     garbageFile, garbageLost, saved, called, uncalled, handled, early, raced>>
  BY DEF HandlerExit, HGoto, insVars, ctlVars, garbageVars, dbVars, histVars
<1>2. TypeOK'
  BY <1>1 DEF IInv, TypeOK, lockVars
<1>3. LocalsOK'
  BY <1>1 DEF IInv, LocalsOK, TypeOK
<1>4. WorkersOK' /\ FlightOK' /\ StopOK'
  <2>1. OthersKeep(h) /\ HandlerOK(h)' /\ hevent' = [hevent EXCEPT ![h] = hevent[h]]
    BY <1>1 DEF OthersKeep, lockVars, HandlerOK, Saving, IInv, TypeOK, LocalsOK
  <2> QED BY <1>1, <2>1, HandlerGoes
<1> QED BY <1>2, <1>3, <1>4 DEF IInv

\* A handler is done.
LEMMA HandlerDone ==
  ASSUME IInv, NEW h \in Handlers, HDone(h), UNCHANGED <<barrelEvent, ipc, imsg, icopy, gpc, spc>>
  PROVE  /\ hpc' = [hpc EXCEPT ![h] = "idle"] /\ hevent' = [hevent EXCEPT ![h] = NoEvent]
         /\ hpc' \in [Handlers -> {"idle", "persistence", "plock", "save", "callback", "exited"}]
         /\ LocalsOK' /\ HandlerOK(h)'
<1>1. hpc' = [hpc EXCEPT ![h] = "idle"] /\ hevent' = [hevent EXCEPT ![h] = NoEvent]
  BY DEF HDone, HGoto
<1>2. hpc' \in [Handlers -> {"idle", "persistence", "plock", "save", "callback", "exited"}] /\ hpc'[h] = "idle"
  BY <1>1 DEF IInv, TypeOK
<1>3. LocalsOK'
  BY <1>1, <1>2 DEF IInv, LocalsOK, TypeOK
<1> QED BY <1>1, <1>2, <1>3 DEF HandlerOK, Saving

LEMMA PersistLookupStep ==
  ASSUME IInv, NEW h \in Handlers, PersistLookup(h)
  PROVE  IInv'
<1> DEFINE e == hevent[h].event
<1>1. /\ hpc[h] = "persistence"
      /\ UNCHANGED <<barrels, plock, barrelEvent, next, ipc, imsg, icopy, gpc, spc, garbage,
                     garbageFile, garbageLost, saved, called, uncalled, handled, early, raced>>
  BY DEF PersistLookup, insVars, ctlVars, garbageVars, dbVars, histVars
<1>2. \/ /\ barrels[e] # NoBarrel /\ RLock(h) /\ hpc' = [hpc EXCEPT ![h] = "plock"] /\ UNCHANGED hevent
      \/ RLockUnlock /\ HDone(h)
  BY DEF PersistLookup, HGoto
<1>3. CASE RLockUnlock /\ HDone(h)
  <2>1. /\ hpc' = [hpc EXCEPT ![h] = "idle"] /\ hevent' = [hevent EXCEPT ![h] = NoEvent]
        /\ hpc' \in [Handlers -> {"idle", "persistence", "plock", "save", "callback", "exited"}]
        /\ LocalsOK' /\ HandlerOK(h)'
    BY <1>1, <1>3, HandlerDone
  <2>2. OthersKeep(h) /\ LockTypes'
    BY <1>3, LockOps, Locks, Names
  <2>3. WorkersOK' /\ FlightOK' /\ StopOK'
    BY <1>1, <2>1, <2>2, HandlerGoes
  <2>4. TypeOK'
    BY <1>1, <2>1, <2>2 DEF IInv, TypeOK, LockTypes
  <2> QED BY <2>1, <2>3, <2>4 DEF IInv
<1>4. CASE barrels[e] # NoBarrel /\ RLock(h) /\ hpc' = [hpc EXCEPT ![h] = "plock"] /\ UNCHANGED hevent
  <2>1. /\ hpc'[h] = "plock" /\ \A j \in Handlers : j # h => hpc'[j] = hpc[j]
        /\ hpc' \in [Handlers -> {"idle", "persistence", "plock", "save", "callback", "exited"}]
        /\ hevent' = [hevent EXCEPT ![h] = hevent[h]]
    BY <1>4 DEF IInv, TypeOK, LocalsOK
  <2>2. OthersKeep(h) /\ LockTypes' /\ h \in readers'
    BY <1>4, LockOps, Locks, Names
  <2>3. HandlerOK(h)'
    BY <1>1, <1>4, <2>2 DEF HandlerOK
  <2>4. WorkersOK' /\ FlightOK' /\ StopOK'
    BY <1>1, <1>4, <2>1, <2>2, <2>3, HandlerGoes
  <2>5. TypeOK'
    BY <1>1, <2>1, <2>2 DEF IInv, TypeOK, LockTypes
  <2>6. LocalsOK'
    BY <1>1, <1>4, <2>1 DEF IInv, LocalsOK
  <2> QED BY <2>4, <2>5, <2>6 DEF IInv
<1> QED BY <1>2, <1>3, <1>4

LEMMA PersistLockStep ==
  ASSUME IInv, NEW h \in Handlers, PersistLock(h)
  PROVE  IInv'
<1> DEFINE e == hevent[h].event
<1>1. /\ hpc[h] = "plock"
      /\ UNCHANGED <<barrels, barrelEvent, next, ipc, imsg, icopy, gpc, spc, garbage,
                     garbageFile, garbageLost, saved, called, uncalled, handled, early, raced>>
  BY DEF PersistLock, insVars, ctlVars, garbageVars, dbVars, histVars
<1>2. \/ /\ plock' = [plock EXCEPT ![e] = h] /\ hpc' = [hpc EXCEPT ![h] = "save"]
         /\ UNCHANGED <<lockVars, hevent>>
      \/ HDone(h) /\ Unlock(h) /\ UNCHANGED plock
  BY DEF PersistLock, HGoto
<1>3. CASE HDone(h) /\ Unlock(h) /\ UNCHANGED plock
  <2>1. /\ hpc' = [hpc EXCEPT ![h] = "idle"] /\ hevent' = [hevent EXCEPT ![h] = NoEvent]
        /\ hpc' \in [Handlers -> {"idle", "persistence", "plock", "save", "callback", "exited"}]
        /\ LocalsOK' /\ HandlerOK(h)'
    BY <1>1, <1>3, HandlerDone
  <2>2. OthersKeep(h) /\ LockTypes'
    BY <1>3, LockOps, Locks, Names
  <2>3. WorkersOK' /\ FlightOK' /\ StopOK'
    BY <1>1, <2>1, <2>2, HandlerGoes
  <2>4. TypeOK'
    BY <1>1, <1>3, <2>1, <2>2 DEF IInv, TypeOK, LockTypes
  <2> QED BY <2>1, <2>3, <2>4 DEF IInv
<1>4. CASE /\ plock' = [plock EXCEPT ![e] = h] /\ hpc' = [hpc EXCEPT ![h] = "save"]
           /\ UNCHANGED <<lockVars, hevent>>
  <2>1. /\ hpc'[h] = "save" /\ \A j \in Handlers : j # h => hpc'[j] = hpc[j]
        /\ hpc' \in [Handlers -> {"idle", "persistence", "plock", "save", "callback", "exited"}]
        /\ hevent' = [hevent EXCEPT ![h] = hevent[h]]
    BY <1>4 DEF IInv, TypeOK, LocalsOK
  <2>2. e \in Events /\ barrels[e] # NoBarrel /\ h \in readers
    BY <1>1, Handling DEF Saving
  <2>3. OthersKeep(h) /\ HandlerOK(h)'
    BY <1>1, <1>4, <2>2 DEF HandlerOK, OthersKeep, lockVars
  <2>4. WorkersOK' /\ FlightOK' /\ StopOK'
    BY <1>1, <1>4, <2>1, <2>3, HandlerGoes
  <2> HIDE DEF e
  <2>5. TypeOK'
    BY <1>1, <1>4, <2>1, <2>2 DEF IInv, TypeOK, lockVars
  <2>6. LocalsOK'
    BY <1>1, <1>4, <2>1 DEF IInv, LocalsOK
  <2> QED BY <2>4, <2>5, <2>6 DEF IInv
<1> QED BY <1>2, <1>3, <1>4

LEMMA CallbackStep ==
  ASSUME IInv, NEW h \in Handlers, Callback(h)
  PROVE  IInv'
<1> DEFINE m == hevent[h].msg
<1>1. /\ hpc[h] = "callback" /\ HDone(h)
      /\ UNCHANGED <<barrels, plock, lockVars, barrelEvent, next, ipc, imsg, icopy, gpc, spc, garbage,
                     garbageFile, garbageLost, saved, handled, early, raced>>
  BY DEF Callback, insVars, ctlVars, garbageVars, histVars
<1>2. \/ called' = called \cup {m} /\ UNCHANGED uncalled
      \/ uncalled' = uncalled \cup {m} /\ UNCHANGED called
  BY DEF Callback
<1>3. m \in Messages
  BY <1>1, Handling
<1> HIDE DEF m
<1>4. /\ hpc' = [hpc EXCEPT ![h] = "idle"] /\ hevent' = [hevent EXCEPT ![h] = NoEvent]
      /\ hpc' \in [Handlers -> {"idle", "persistence", "plock", "save", "callback", "exited"}]
      /\ LocalsOK' /\ HandlerOK(h)'
  BY <1>1, HandlerDone
<1>5. OthersKeep(h)
  BY <1>1 DEF OthersKeep, lockVars
<1>6. WorkersOK' /\ FlightOK' /\ StopOK'
  BY <1>1, <1>4, <1>5, HandlerGoes
<1>7. TypeOK'
  BY <1>1, <1>2, <1>3, <1>4 DEF IInv, TypeOK, lockVars
<1> QED BY <1>4, <1>6, <1>7 DEF IInv
\* The database and the garbage after a save.
LEMMA SaveOK ==
  ASSUME IInv, NEW content \in Seq(Messages), NEW e \in Events, NEW ok \in BOOLEAN, Save(content, e, ok)
  PROVE  garbage' \in Bag /\ saved' \in [Events -> Seq(Messages)]
<1>1. garbage \in Bag /\ saved \in [Events -> Seq(Messages)]
  BY DEF IInv, TypeOK
<1>2. CASE garbage' = AddAll(garbage, content) /\ UNCHANGED saved
  BY <1>1, <1>2, AddedAll
<1>3. CASE saved' = [saved EXCEPT ![e] = @ \o content] /\ UNCHANGED garbage
  <2> DEFINE q == saved[e] \o content
  <2>1. q \in Seq(Messages) /\ saved' = [saved EXCEPT ![e] = q]
    BY <1>1, <1>3
  <2> HIDE DEF q
  <2> QED BY <1>1, <1>3, <2>1
<1> QED BY <1>2, <1>3 DEF Save

LEMMA PersistSaveStep ==
  ASSUME IInv, NEW h \in Handlers, PersistSave(h)
  PROVE  IInv'
<1> DEFINE e == hevent[h].event
           r == [barrels[e] EXCEPT !.pbuf = <<>>, !.need = FALSE]
<1>1. /\ hpc[h] = "save" /\ HDone(h) /\ Unlock(h)
      /\ barrels' = [barrels EXCEPT ![e].pbuf = <<>>, ![e].need = FALSE]
      /\ plock' = [plock EXCEPT ![e] = None]
      /\ UNCHANGED <<barrelEvent, next, ipc, imsg, icopy, gpc, spc,
                     garbageFile, garbageLost, called, uncalled, handled, early, raced>>
  BY DEF PersistSave, insVars, ctlVars, histVars
<1>2. /\ e \in Mapped /\ e \in Events /\ barrels[e] # NoBarrel /\ barrels[e] \in Barrel
      /\ barrels[e].buf \in Seq(Messages) /\ barrels[e].pbuf \in Seq(Messages)
      /\ spc \in {"saved", "exited"} => Fresh(barrels[e].buf)
  BY <1>1, Handling, MappedBarrel DEF Saving
<1>3. garbage' \in Bag /\ saved' \in [Events -> Seq(Messages)]
  BY <1>2, SaveOK DEF PersistSave
<1> HIDE DEF e
<1>4. barrels' = [barrels EXCEPT ![e] = r]
  BY <1>1, <1>2 DEF IInv, TypeOK
<1>5. r \in Barrel /\ r.buf = barrels[e].buf /\ r.pbuf = <<>>
  BY <1>2, EmptyOK DEF Barrel
<1> HIDE DEF r
<1>6. StopOK' /\ BarrelsStay /\ barrels' \in [Events -> Barrel \cup {NoBarrel}]
  BY <1>1, <1>2, <1>4, <1>5, FreshEmpty, OneBarrel
<1>7. /\ hpc' = [hpc EXCEPT ![h] = "idle"] /\ hevent' = [hevent EXCEPT ![h] = NoEvent]
      /\ hpc' \in [Handlers -> {"idle", "persistence", "plock", "save", "callback", "exited"}]
      /\ LocalsOK' /\ HandlerOK(h)'
  BY <1>1, HandlerDone
<1>8. OthersKeep(h) /\ LockTypes'
  BY <1>1, LockOps, Locks, Names
<1>9. WorkersOK'
  <2>1. \A j \in Handlers : j # h => hpc'[j] = hpc[j] /\ hevent'[j] = hevent[j]
    BY <1>7 DEF IInv, TypeOK, LocalsOK
  <2>2. UNCHANGED insVars
    BY <1>1 DEF insVars
  <2> QED BY <1>6, <1>7, <1>8, <2>1, <2>2, HandlerMoves
<1>10. FlightOK'
  BY <1>1, FlightStays DEF Busy
<1>11. TypeOK'
  BY <1>1, <1>2, <1>3, <1>6, <1>7, <1>8 DEF IInv, TypeOK, LockTypes
<1> QED BY <1>6, <1>7, <1>9, <1>10, <1>11 DEF IInv

-----------------------------------------------------------------------------
\* Garbage, collector, stop

LEMMA Merged ==
  ASSUME NEW b1 \in Bag, NEW b2 \in Bag
  PROVE  Merge(b1, b2) \in Bag /\ \A m \in Messages : Merge(b1, b2)[m] = b1[m] + b2[m]
<1>1. \A m \in Messages : b1[m] \in Nat /\ b2[m] \in Nat
  BY DEF Bag
<1>2. \A m \in Messages : b1[m] + b2[m] \in Nat
  BY <1>1
<1> QED BY <1>2 DEF Merge, Bag

\* Nobody moves and no barrel changes.
LEMMA Aside ==
  ASSUME IInv, NEW t, t \notin Inserters, t \notin Handlers, OthersKeep(t),
         UNCHANGED <<barrels, next, ipc, imsg, icopy, hpc, hevent, handled>>,
         early' = early \/ early' = handled,
         spc' \in {"saved", "exited"} => early' = early /\ spc \in {"saved", "exited"}
  PROVE  WorkersOK' /\ FlightOK' /\ StopOK'
<1>1. BarrelsStay /\ UNCHANGED <<insVars, handVars>>
  BY DEF BarrelsStay, insVars, handVars
<1>2. StopOK'
  <2>1. CASE spc' \in {"saved", "exited"}
    BY <2>1, SameBarrels
  <2>2. CASE spc' \notin {"saved", "exited"}
    BY <2>2 DEF StopOK
  <2> QED BY <2>1, <2>2
<1>3. FlightOK'
  BY FlightStays DEF Busy
<1> QED BY <1>1, <1>2, <1>3, NobodyMoves

LEMMA SaveGarbageStep ==
  ASSUME IInv, SaveGarbage
  PROVE  IInv'
<1>1. /\ garbage' = NoMessages
      /\ UNCHANGED <<barrels, plock, lockVars, barrelEvent, next, ipc, imsg, icopy, hpc, hevent, gpc, spc,
                     saved, called, uncalled, handled, early, raced>>
  BY DEF SaveGarbage, insVars, handVars, ctlVars, dbVars, histVars
<1>2. \/ garbageFile' = Merge(garbageFile, garbage) /\ UNCHANGED garbageLost
      \/ garbageLost' = Merge(garbageLost, garbage) /\ UNCHANGED garbageFile
  BY DEF SaveGarbage
<1>3. garbage' \in Bag /\ garbageFile' \in Bag /\ garbageLost' \in Bag
  BY <1>1, <1>2, Merged, EmptyOK DEF IInv, TypeOK
<1>4. TypeOK' /\ LocalsOK'
  BY <1>1, <1>3 DEF IInv, TypeOK, LocalsOK, lockVars
<1>5. OthersKeep(Gc) /\ Gc \notin Inserters /\ Gc \notin Handlers
  BY <1>1, Names DEF OthersKeep, lockVars
<1>6. WorkersOK' /\ FlightOK' /\ StopOK'
  BY <1>1, <1>5, Aside
<1> QED BY <1>4, <1>6 DEF IInv

LEMMA GcTickStep ==
  ASSUME IInv, GcTick
  PROVE  IInv'
<1>1. /\ AskLock(Gc) /\ gpc' = "lock"
      /\ UNCHANGED <<barrels, plock, readers, writer, barrelEvent, next, ipc, imsg, icopy, hpc, hevent, spc,
                     garbage, garbageFile, garbageLost, saved, called, uncalled, handled, early, raced>>
  BY DEF GcTick, insVars, handVars, garbageVars, dbVars, histVars
<1>2. OthersKeep(Gc) /\ LockTypes' /\ Gc \notin Inserters /\ Gc \notin Handlers
  BY <1>1, LockOps, Locks, Names
<1>3. TypeOK' /\ LocalsOK'
  BY <1>1, <1>2 DEF IInv, TypeOK, LocalsOK, LockTypes
<1>4. WorkersOK' /\ FlightOK' /\ StopOK'
  BY <1>1, <1>2, Aside
<1> QED BY <1>3, <1>4 DEF IInv

LEMMA StopStep ==
  ASSUME IInv, Stop
  PROVE  IInv'
<1>1. /\ AskLock(Stopper) /\ spc' = "lock" /\ early' = handled
      /\ UNCHANGED <<barrels, plock, readers, writer, barrelEvent, next, ipc, imsg, icopy, hpc, hevent, gpc,
                     garbage, garbageFile, garbageLost, saved, called, uncalled, handled, raced>>
  BY DEF Stop, insVars, handVars, garbageVars, dbVars
<1>2. OthersKeep(Stopper) /\ LockTypes' /\ Stopper \notin Inserters /\ Stopper \notin Handlers
  BY <1>1, LockOps, Locks, Names
<1>3. TypeOK' /\ LocalsOK'
  BY <1>1, <1>2 DEF IInv, TypeOK, LocalsOK, LockTypes
<1>4. WorkersOK' /\ FlightOK' /\ StopOK'
  BY <1>1, <1>2, Aside
<1> QED BY <1>3, <1>4 DEF IInv

LEMMA ExitStep ==
  ASSUME IInv, Exit
  PROVE  IInv'
<1>1. /\ spc = "saved" /\ spc' = "exited"
      /\ UNCHANGED <<barrels, plock, lockVars, barrelEvent, next, ipc, imsg, icopy, hpc, hevent, gpc,
                     garbage, garbageFile, garbageLost, saved, called, uncalled, handled, early, raced>>
  BY DEF Exit, insVars, handVars, garbageVars, dbVars, histVars
<1>2. OthersKeep(Stopper) /\ Stopper \notin Inserters /\ Stopper \notin Handlers
  BY <1>1, Names DEF OthersKeep, lockVars
<1>3. TypeOK' /\ LocalsOK'
  BY <1>1 DEF IInv, TypeOK, LocalsOK, lockVars
<1>4. WorkersOK' /\ FlightOK' /\ StopOK'
  BY <1>1, <1>2, Aside
<1> QED BY <1>3, <1>4 DEF IInv

LEMMA StutterStep ==
  ASSUME IInv, UNCHANGED vars
  PROVE  IInv'
<1>1. UNCHANGED <<barrels, plock, lockVars, barrelEvent, next, ipc, imsg, icopy, hpc, hevent, gpc, spc,
                  garbage, garbageFile, garbageLost, saved, called, uncalled, handled, early, raced>>
  BY DEF vars, insVars, handVars, ctlVars, garbageVars, dbVars, histVars
<1>2. OthersKeep(Stopper) /\ Stopper \notin Inserters /\ Stopper \notin Handlers
  BY <1>1, Names DEF OthersKeep, lockVars
<1>3. TypeOK' /\ LocalsOK'
  BY <1>1 DEF IInv, TypeOK, LocalsOK, lockVars
<1>4. WorkersOK' /\ FlightOK' /\ StopOK'
  BY <1>1, <1>2, Aside
<1> QED BY <1>3, <1>4 DEF IInv

\* The database and the garbage after barrels of the map are saved.
LEMMA SaveBeforeGcOK ==
  ASSUME IInv, NEW S \in SUBSET Mapped, NEW F \in SUBSET S, SaveBeforeGc(S, F)
  PROVE  /\ garbage' \in Bag /\ saved' \in [Events -> Seq(Messages)]
         /\ \A e \in Events : saved'[e] = IF e \in S \ F THEN saved[e] \o Content(barrels[e]) ELSE saved[e]
         /\ \A m \in Messages : garbage'[m] = IF EventOf[m] \in F
                                  THEN garbage[m] + Copies(Content(barrels[EventOf[m]]), m) ELSE garbage[m]
<1>1. \A e \in Mapped : e \in Events /\ Content(barrels[e]) \in Seq(Messages)
  BY MappedBarrel, Contents DEF Mapped
<1>2. garbage \in Bag /\ saved \in [Events -> Seq(Messages)]
  BY DEF IInv, TypeOK
<1>3. \A e \in Events : (IF e \in S \ F THEN saved[e] \o Content(barrels[e]) ELSE saved[e]) \in Seq(Messages)
  BY <1>1, <1>2
<1>4. ASSUME NEW m \in Messages
      PROVE  (IF EventOf[m] \in F THEN garbage[m] + Copies(Content(barrels[EventOf[m]]), m)
                                  ELSE garbage[m]) \in Nat
  <2>1. garbage[m] \in Nat
    BY <1>2 DEF Bag
  <2>2. EventOf[m] \in F => Copies(Content(barrels[EventOf[m]]), m) \in Nat
    BY <1>1, CopiesNat
  <2> QED BY <2>1, <2>2
<1> QED BY <1>3, <1>4 DEF SaveBeforeGc, Bag

LEMMA GcRunStep ==
  ASSUME IInv, NEW S \in SUBSET Mapped, GcRun(S)
  PROVE  IInv'
<1>1. /\ LockUnlock(Gc) /\ gpc' = "idle"
      /\ barrels' = [e \in Events |-> IF e \in S THEN NoBarrel ELSE barrels[e]]
      /\ UNCHANGED <<plock, barrelEvent, next, ipc, imsg, icopy, hpc, hevent, spc,
                     garbageFile, garbageLost, called, uncalled, handled, early, raced>>
  BY DEF GcRun, insVars, handVars, histVars
<1>2. garbage' \in Bag /\ saved' \in [Events -> Seq(Messages)]
  BY SaveBeforeGcOK DEF GcRun
<1>3. OthersKeep(Gc) /\ LockTypes'
  BY <1>1, LockOps, Locks, Names
<1>4. barrels' \in [Events -> Barrel \cup {NoBarrel}] /\ \A e \in Mapped' : e \in Mapped /\ barrels'[e] = barrels[e]
  BY <1>1 DEF IInv, TypeOK, Mapped
<1>5. TypeOK' /\ LocalsOK'
  BY <1>1, <1>2, <1>3, <1>4 DEF IInv, TypeOK, LocalsOK, LockTypes
<1>6. WorkersOK'
  BY <1>1, NobodyStarts DEF LockUnlock
<1>7. FlightOK'
  BY <1>1, FlightStays DEF Busy
<1>8. StopOK'
  BY <1>1, <1>4 DEF IInv, StopOK, Fresh
<1> QED BY <1>5, <1>6, <1>7, <1>8 DEF IInv

\* What stop leaves of a barrel.
Emptied(b) == [b EXCEPT !.buf = <<>>, !.pbuf = <<>>, !.need = TRUE]

LEMMA EmptiedOK ==
  ASSUME NEW b \in Barrel
  PROVE  Emptied(b) \in Barrel /\ Emptied(b).buf = <<>> /\ Emptied(b).pbuf = <<>>
BY EmptyOK DEF Emptied, Barrel

LEMMA StopSaveStep ==
  ASSUME IInv, StopSave
  PROVE  IInv'
<1>1. /\ LockUnlock(Stopper) /\ spc' = "saved"
      /\ barrels' = [e \in Events |-> IF e \in Mapped THEN Emptied(barrels[e]) ELSE NoBarrel]
      /\ UNCHANGED <<plock, barrelEvent, next, ipc, imsg, icopy, hpc, hevent, gpc,
                     garbageFile, garbageLost, called, uncalled, handled, early, raced>>
  BY DEF StopSave, insVars, handVars, histVars, Emptied
<1>2. garbage' \in Bag /\ saved' \in [Events -> Seq(Messages)]
  BY SaveBeforeGcOK DEF StopSave
<1>3. OthersKeep(Stopper) /\ LockTypes'
  BY <1>1, LockOps, Locks, Names
<1>4. \A e \in Mapped : e \in Events /\ barrels[e] \in Barrel
  BY DEF IInv, TypeOK, Mapped
<1>5. /\ barrels' \in [Events -> Barrel \cup {NoBarrel}]
      /\ \A e \in Mapped' : e \in Mapped /\ barrels'[e].buf = <<>> /\ barrels'[e].pbuf = <<>>
  BY <1>1, <1>4, EmptiedOK DEF Mapped
<1>6. TypeOK' /\ LocalsOK'
  BY <1>1, <1>2, <1>3, <1>5 DEF IInv, TypeOK, LocalsOK, LockTypes
<1>7. WorkersOK'
  BY <1>1, NobodyStarts DEF LockUnlock
<1>8. FlightOK'
  BY <1>1, FlightStays DEF Busy
<1>9. StopOK'
  <2>1. \A i \in Inserters : ipc'[i] # "append"
    BY <1>1, NobodyAtWork DEF LockUnlock, Inside
  <2> QED BY <1>1, <1>5, <2>1 DEF StopOK, Fresh
<1> QED BY <1>6, <1>7, <1>8, <1>9 DEF IInv

LEMMA NextIInv == IInv /\ [Next]_vars => IInv'
<1> SUFFICES ASSUME IInv, [Next]_vars PROVE IInv'
  OBVIOUS
<1>1. CASE \E i \in Inserters : Receive(i) \/ Insert(i)
  BY <1>1, ReceiveStep, LookupStep, AskStep, NewBarrelStep, InsertBeginStep, InsertAppendStep,
     AnalysisFlushStep, AnalysisSendStep, CacheCheckStep, ReturnStep DEF Insert
<1>2. CASE \E h \in Handlers : Handle(h) \/ HandlerExit(h)
  BY <1>2, TakeEventStep, HandlerExitStep, PersistLookupStep, PersistLockStep, PersistSaveStep,
     CallbackStep DEF Handle
<1>3. CASE SaveGarbage \/ GcTick \/ Stop \/ StopSave \/ Exit
  BY <1>3, SaveGarbageStep, GcTickStep, StopStep, StopSaveStep, ExitStep
<1>4. CASE \E S \in SUBSET Mapped : GcRun(S)
  BY <1>4, GcRunStep
<1>5. CASE UNCHANGED vars
  BY <1>5, StutterStep
<1> QED BY <1>1, <1>2, <1>3, <1>4, <1>5 DEF Next

\* The types hold: whatever the goroutines do, barrels, channel, lock, database and
\* garbage stay what the code takes them for.
THEOREM TypeCorrect == Spec => []TypeOK
<1>1. IInv => TypeOK
  BY DEF IInv
<1> QED BY <1>1, InitIInv, NextIInv, PTL DEF Spec

\* After stop of handleMessageStore has saved the barrels none of them holds a
\* message whose InsertMessage had returned before, however many receivers and
\* handlers go on working meanwhile.
THEOREM StopLosesNothing == Spec => []StopSavesAll
<1>1. ASSUME IInv PROVE StopSavesAll
  <2> SUFFICES ASSUME spc \in {"saved", "exited"}, NEW m \in early PROVE InBarrels(m) = 0
    BY DEF StopSavesAll
  <2> DEFINE e == EventOf[m]
  <2>1. e \in Events
    BY <1>1, MessagesAssumption DEF IInv, TypeOK
  <2>2. CASE barrels[e] = NoBarrel
    BY <2>2 DEF InBarrels
  <2>3. CASE barrels[e] # NoBarrel
    <3>1. /\ barrels[e] \in Barrel /\ barrels[e].buf \in Seq(Messages) /\ barrels[e].pbuf \in Seq(Messages)
          /\ Fresh(barrels[e].buf) /\ Fresh(barrels[e].pbuf)
      BY <1>1, <2>1, <2>3, MappedBarrel
    <3>2. Fresh(Content(barrels[e]))
      BY <3>1, FreshConcat DEF Content
    <3>3. Copies(Content(barrels[e]), m) = 0
      BY <3>2, CopiesZero DEF Fresh
    <3> QED BY <2>3, <3>3 DEF InBarrels
  <2> QED BY <2>2, <2>3
<1> QED BY <1>1, InitIInv, NextIInv, PTL DEF Spec
-----------------------------------------------------------------------------
\* The order of the inbox

LEMMA ConcatAt ==
  ASSUME NEW s \in Seq(Messages), NEW t \in Seq(Messages), NEW i \in DOMAIN (s \o t)
  PROVE  \/ i \in DOMAIN s /\ (s \o t)[i] = s[i]
         \/ i - Len(s) \in DOMAIN t /\ (s \o t)[i] = t[i - Len(s)] /\ \A j \in DOMAIN s : j < i
<1>1. /\ Len(s) \in Nat /\ Len(t) \in Nat /\ DOMAIN s = 1 .. Len(s) /\ DOMAIN t = 1 .. Len(t)
      /\ DOMAIN (s \o t) = 1 .. Len(s) + Len(t)
      /\ \A j \in 1 .. Len(s) + Len(t) : (s \o t)[j] = IF j <= Len(s) THEN s[j] ELSE t[j - Len(s)]
  OBVIOUS
<1>2. CASE i <= Len(s)
  BY <1>1, <1>2
<1>3. CASE ~(i <= Len(s))
  <2>1. i - Len(s) \in DOMAIN t /\ \A j \in DOMAIN s : j < i
    BY <1>1, <1>3
  <2> QED BY <1>1, <1>3, <2>1
<1> QED BY <1>2, <1>3

LEMMA ConcatOrder ==
  ASSUME NEW s \in Seq(Messages), NEW t \in Seq(Messages)
  PROVE  /\ Chain(s) /\ Chain(t) /\ Before(s, t) => Chain(s \o t)
         /\ \A n : UpTo(s, n) /\ UpTo(t, n) => UpTo(s \o t, n)
         /\ \A e : OfEvent(s, e) /\ OfEvent(t, e) => OfEvent(s \o t, e)
         /\ \A u : Before(s, u) /\ Before(t, u) => Before(s \o t, u)
         /\ \A u : Before(u, s) /\ Before(u, t) => Before(u, s \o t)
<1> DEFINE q == s \o t
           n == Len(s)
<1>1. \A i \in DOMAIN q : \/ i \in DOMAIN s /\ q[i] = s[i]
                          \/ i - n \in DOMAIN t /\ q[i] = t[i - n] /\ \A j \in DOMAIN s : j < i
  BY ConcatAt
<1>2. n \in Nat /\ DOMAIN q \subseteq Int /\ DOMAIN s \subseteq Int /\ DOMAIN t \subseteq Int
  <2>1. q \in Seq(Messages)
    OBVIOUS
  <2>2. DOMAIN q = 1 .. Len(q) /\ DOMAIN s = 1 .. Len(s) /\ DOMAIN t = 1 .. Len(t)
    BY <2>1
  <2> QED BY <2>2
<1> HIDE DEF q, n
<1>3. ASSUME Chain(s), Chain(t), Before(s, t), NEW i \in DOMAIN q, NEW j \in DOMAIN q, i < j
      PROVE  Older(q[i], q[j])
  <2>1. CASE i \in DOMAIN s /\ q[i] = s[i] /\ j \in DOMAIN s /\ q[j] = s[j]
    BY <1>3, <2>1 DEF Chain
  <2>2. CASE i \in DOMAIN s /\ q[i] = s[i] /\ j - n \in DOMAIN t /\ q[j] = t[j - n]
    BY <1>3, <2>2 DEF Before
  <2>3. CASE i - n \in DOMAIN t /\ q[i] = t[i - n] /\ j - n \in DOMAIN t /\ q[j] = t[j - n]
    <3>1. i - n < j - n
      BY <1>2, <1>3
    <3> QED BY <1>3, <2>3, <3>1 DEF Chain
  <2>4. CASE (\A k \in DOMAIN s : k < i) /\ j \in DOMAIN s
    BY <1>2, <1>3, <2>4
  <2> QED BY <1>1, <2>1, <2>2, <2>3, <2>4
<1>4. ASSUME NEW k, UpTo(s, k), UpTo(t, k) PROVE UpTo(q, k)
  BY <1>1, <1>4 DEF UpTo
<1>5. ASSUME NEW e, OfEvent(s, e), OfEvent(t, e) PROVE OfEvent(q, e)
  BY <1>1, <1>5 DEF OfEvent
<1>6. ASSUME NEW u, Before(s, u), Before(t, u) PROVE Before(q, u)
  BY <1>1, <1>6 DEF Before
<1>7. ASSUME NEW u, Before(u, s), Before(u, t) PROVE Before(u, q)
  BY <1>1, <1>7 DEF Before
<1>8. Chain(s) /\ Chain(t) /\ Before(s, t) => Chain(q)
  BY <1>3 DEF Chain
<1> QED BY <1>4, <1>5, <1>6, <1>7, <1>8 DEF q

LEMMA EmptyOrder ==
  /\ Chain(<<>>) /\ (\A n : UpTo(<<>>, n)) /\ (\A e : OfEvent(<<>>, e))
  /\ \A u : Before(<<>>, u) /\ Before(u, <<>>)
BY DEF Chain, UpTo, OfEvent, Before

\* Messages up to the n-th are older than the next one.
LEMMA OlderNext ==
  ASSUME NEW n \in Int, n + 1 \in DOMAIN Inbox, NEW s, UpTo(s, n)
  PROVE  \A i \in DOMAIN s : Older(s[i], Inbox[n + 1])
<1>1. DOMAIN Inbox = 1 .. Len(Inbox) /\ Len(Inbox) \in Nat
  BY MessagesAssumption
<1>2. ASSUME NEW i \in DOMAIN s PROVE Older(s[i], Inbox[n + 1])
  <2>1. PICK k \in 1 .. n : Inbox[k] = s[i]
    BY DEF UpTo
  <2>2. k \in DOMAIN Inbox /\ k < n + 1
    BY <1>1
  <2> QED BY <2>1, <2>2 DEF Older
<1> QED BY <1>2

LEMMA AppendOrder ==
  ASSUME NEW n \in Nat, n + 1 \in DOMAIN Inbox, NEW s \in Seq(Messages), UpTo(s, n), Chain(s)
  PROVE  /\ Chain(Append(s, Inbox[n + 1])) /\ UpTo(Append(s, Inbox[n + 1]), n + 1)
         /\ \A e : OfEvent(s, e) /\ EventOf[Inbox[n + 1]] = e => OfEvent(Append(s, Inbox[n + 1]), e)
         /\ \A u : UpTo(u, n) /\ Before(u, s) => Before(u, Append(s, Inbox[n + 1]))
<1> DEFINE x == Inbox[n + 1]
           q == Append(s, x)
           l == Len(s)
<1>0. x \in Messages
  BY MessagesAssumption
<1>1. /\ l \in Nat /\ DOMAIN s = 1 .. l /\ DOMAIN q = 1 .. l + 1
      /\ q[l + 1] = x /\ \A i \in DOMAIN s : q[i] = s[i]
  BY <1>0
<1>2. \A i \in DOMAIN q : i \in DOMAIN s \/ i = l + 1
  BY <1>1
<1>3. \A i \in DOMAIN s : Older(s[i], x) /\ i < l + 1
  <2>1. \A i \in DOMAIN s : Older(s[i], x)
    BY OlderNext
  <2>2. \A i \in DOMAIN s : i < l + 1
    BY <1>1
  <2> QED BY <2>1, <2>2
<1> HIDE DEF q, l
<1>4. Chain(q)
  <2> SUFFICES ASSUME NEW i \in DOMAIN q, NEW j \in DOMAIN q, i < j PROVE Older(q[i], q[j])
    BY DEF Chain
  <2>1. i \in DOMAIN s
    BY <1>1
  <2>2. CASE j \in DOMAIN s
    BY <1>1, <2>1, <2>2 DEF Chain
  <2>3. CASE j = l + 1
    BY <1>1, <1>3, <2>1, <2>3
  <2> QED BY <1>2, <2>2, <2>3
<1>5. UpTo(q, n + 1)
  <2> SUFFICES ASSUME NEW i \in DOMAIN q PROVE \E k \in 1 .. n + 1 : Inbox[k] = q[i]
    BY DEF UpTo
  <2>1. CASE i \in DOMAIN s
    <3>1. PICK k \in 1 .. n : Inbox[k] = s[i]
      BY <2>1 DEF UpTo
    <3> QED BY <1>1, <2>1, <3>1
  <2>2. CASE i = l + 1
    <3>1. n + 1 \in 1 .. n + 1
      OBVIOUS
    <3> QED BY <1>1, <2>2, <3>1
  <2> QED BY <1>2, <2>1, <2>2
<1>6. ASSUME NEW e, OfEvent(s, e), EventOf[x] = e PROVE OfEvent(q, e)
  BY <1>1, <1>2, <1>6 DEF OfEvent
<1>7. ASSUME NEW u, UpTo(u, n), Before(u, s) PROVE Before(u, q)
  <2>1. \A i \in DOMAIN u : Older(u[i], x)
    BY <1>7, OlderNext
  <2> QED BY <1>1, <1>2, <1>7, <2>1 DEF Before
<1> QED BY <1>4, <1>5, <1>6, <1>7 DEF q

LEMMA UpToMore ==
  ASSUME NEW n \in Int, NEW k \in Int, n <= k, NEW s, UpTo(s, n)
  PROVE  UpTo(s, k)
BY DEF UpTo

\* What the operations do to the order.
LEMMA OrderedOps ==
  ASSUME NEW db \in Seq(Messages), NEW p \in Seq(Messages), NEW q \in Seq(Messages), NEW n,
         Ordered(db, p, q, n)
  PROVE  /\ Ordered(db, p \o q, <<>>, n)
         /\ Ordered(db \o p, <<>>, q, n)
         /\ Ordered(db, <<>>, q, n)
         /\ Ordered(db, <<>>, <<>>, n)
         /\ Ordered(db \o (p \o q), <<>>, <<>>, n)
<1>1. /\ Chain(db) /\ Chain(p) /\ Chain(q) /\ UpTo(db, n) /\ UpTo(p, n) /\ UpTo(q, n)
      /\ Before(db, p) /\ Before(db, q) /\ Before(p, q)
  BY DEF Ordered
<1> DEFINE pq == p \o q
           dp == db \o p
           all == db \o pq
<1>2. pq \in Seq(Messages) /\ Chain(pq) /\ UpTo(pq, n) /\ Before(db, pq)
  BY <1>1, ConcatOrder
<1>3. Chain(dp) /\ UpTo(dp, n) /\ Before(dp, q)
  BY <1>1, ConcatOrder
<1> HIDE DEF pq, dp
<1>4. Chain(all) /\ UpTo(all, n)
  BY <1>1, <1>2, ConcatOrder
<1> HIDE DEF all
<1>5. /\ Ordered(db, pq, <<>>, n) /\ Ordered(dp, <<>>, q, n) /\ Ordered(db, <<>>, q, n)
      /\ Ordered(db, <<>>, <<>>, n) /\ Ordered(all, <<>>, <<>>, n)
  BY <1>1, <1>2, <1>3, <1>4, EmptyOrder DEF Ordered
<1> QED BY <1>5 DEF pq, dp, all
LEMMA OrderedMore ==
  ASSUME NEW db, NEW p, NEW q, NEW n \in Int, NEW k \in Int, n <= k, Ordered(db, p, q, n)
  PROVE  Ordered(db, p, q, k)
BY UpToMore DEF Ordered

\* No receiver gets hold of a message that was received before.
LEMMA BoundStays ==
  ASSUME IInv, next' \in Int, next <= next',
         \A i \in Inserters : Storing(i)' => \/ Storing(i) /\ imsg'[i] = imsg[i]
                                             \/ imsg'[i] \notin Seen
  PROVE  \A e, n : Bounded(e, n) => Bounded(e, n)'
<1>1. next \in Int
  BY MessagesAssumption DEF IInv, TypeOK
<1>2. ASSUME NEW e, NEW n, Bounded(e, n) PROVE Bounded(e, n)'
  <2>1. n \in Nat /\ n <= next' /\ \A k \in 1 .. n : k \in 1 .. next
    BY <1>1, <1>2 DEF Bounded
  <2>2. ASSUME NEW i \in Inserters, Storing(i)', EventAt(i)' = e, NEW k \in 1 .. n PROVE Inbox[k] # imsg'[i]
    <3>1. CASE Storing(i) /\ imsg'[i] = imsg[i]
      BY <1>2, <2>2, <3>1 DEF Bounded, EventAt
    <3>2. CASE imsg'[i] \notin Seen
      BY <2>1, <2>2, <3>2 DEF Seen
    <3> QED BY <2>2, <3>1, <3>2
  <2> QED BY <2>1, <2>2 DEF Bounded
<1> QED BY <1>2

LEMMA SameNext ==
  ASSUME IInv, UNCHANGED next PROVE next' \in Int /\ next <= next'
BY MessagesAssumption DEF IInv, TypeOK

\* The events the step does not touch.
LEMMA OrderSame ==
  ASSUME OrderOK, UNCHANGED <<saved, barrels>>, raced \subseteq raced',
         \A e, n : Bounded(e, n) => Bounded(e, n)'
  PROVE  OrderOK'
<1>1. \A e, n : InOrder(e, n)' <=> InOrder(e, n)
  BY DEF InOrder, Mapped
<1> QED BY <1>1 DEF OrderOK

\* One event gets other messages.
LEMMA OrderOne ==
  ASSUME OrderOK, UNCHANGED raced, \A f, n : Bounded(f, n) => Bounded(f, n)', NEW e \in Events, NEW r,
         barrels'[e] = r, \A f \in Events : f # e => barrels'[f] = barrels[f] /\ saved'[f] = saved[f],
         \/ e \in raced
         \/ \E n : Bounded(e, n)' /\ Ordered(saved'[e], r.pbuf, r.buf, n)
  PROVE  OrderOK'
<1> SUFFICES ASSUME NEW f \in Events \ raced PROVE \E n : Bounded(f, n)' /\ InOrder(f, n)'
  BY DEF OrderOK
<1>1. CASE f = e
  <2>1. PICK n : Bounded(e, n)' /\ Ordered(saved'[e], r.pbuf, r.buf, n)
    BY <1>1
  <2>2. InOrder(e, n)'
    BY <2>1 DEF InOrder, Ordered
  <2> QED BY <1>1, <2>1, <2>2
<1>2. CASE f # e
  <2>1. PICK n : Bounded(f, n) /\ InOrder(f, n)
    BY DEF OrderOK
  <2>2. f \in Mapped' <=> f \in Mapped
    BY <1>2 DEF Mapped
  <2>3. InOrder(f, n)'
    BY <1>2, <2>1, <2>2 DEF InOrder
  <2> QED BY <2>1, <2>3
<1> QED BY <1>1, <1>2

\* What the step leaves in the barrels is of their events.
LEMMA HomeSame ==
  ASSUME HomeOK, UNCHANGED barrels,
         \A i \in Inserters : ipc'[i] = "append" => ipc[i] = "append" /\ imsg'[i] = imsg[i] /\ icopy'[i] = icopy[i]
  PROVE  HomeOK'
<1>1. Mapped' = Mapped
  BY DEF Mapped
<1> QED BY <1>1 DEF HomeOK, EventAt

LEMMA HomeOne ==
  ASSUME HomeOK, NEW e \in Events, NEW r, barrels'[e] = r, OfEvent(r.pbuf, e), OfEvent(r.buf, e),
         \A f \in Events : f # e => barrels'[f] = barrels[f],
         \A i \in Inserters : ipc'[i] = "append" => ipc[i] = "append" /\ imsg'[i] = imsg[i] /\ icopy'[i] = icopy[i]
  PROVE  HomeOK'
<1>1. \A f \in Mapped' : f \in Events /\ (f # e => f \in Mapped)
  BY DEF Mapped
<1>2. ASSUME NEW f \in Mapped' PROVE OfEvent(barrels'[f].pbuf, f) /\ OfEvent(barrels'[f].buf, f)
  BY <1>1 DEF HomeOK
<1> QED BY <1>2 DEF HomeOK, EventAt

-----------------------------------------------------------------------------
\* How often a message is stored

LEMMA Counts ==
  ASSUME IInv, NEW m \in Messages
  PROVE  /\ EventOf[m] \in Events /\ InBarrels(m) \in Nat /\ Kept(m) \in Nat /\ Total(m) \in Nat
         /\ Copies(saved[EventOf[m]], m) \in Nat
         /\ garbage[m] \in Nat /\ garbageFile[m] \in Nat /\ garbageLost[m] \in Nat
<1>1. EventOf[m] \in Events
  BY MessagesAssumption
<1>2. Copies(saved[EventOf[m]], m) \in Nat
  BY <1>1, CopiesNat DEF IInv, TypeOK
<1>3. garbage[m] \in Nat /\ garbageFile[m] \in Nat /\ garbageLost[m] \in Nat
  BY DEF IInv, TypeOK, Bag
<1>4. Kept(m) \in Nat
  BY <1>2, <1>3 DEF Kept
<1>5. InBarrels(m) \in Nat
  <2>1. CASE barrels[EventOf[m]] = NoBarrel
    BY <2>1 DEF InBarrels
  <2>2. CASE barrels[EventOf[m]] # NoBarrel
    <3>1. barrels[EventOf[m]] \in Barrel
      BY <1>1, <2>2, MappedBarrel
    <3> QED BY <2>2, <3>1, Contents, CopiesNat DEF InBarrels
  <2> QED BY <2>1, <2>2
<1>6. InBarrels(m) + Kept(m) \in Nat
  BY <1>4, <1>5
<1> QED BY <1>1, <1>2, <1>3, <1>4, <1>5, <1>6 DEF Total

LEMMA InBarrel ==
  ASSUME NEW m \in Messages, NEW b \in Barrel
  PROVE  /\ Copies(b.pbuf, m) \in Nat /\ Copies(b.buf, m) \in Nat
         /\ barrels[EventOf[m]] = b => InBarrels(m) = Copies(b.pbuf, m) + Copies(b.buf, m)
         /\ barrels'[EventOf[m]] = b => InBarrels(m)' = Copies(b.pbuf, m) + Copies(b.buf, m)
BY Contents, CopiesNat, EmptyOK DEF InBarrels

\* No message is stored by the step.
LEMMA CountKept ==
  ASSUME IInv, CountOK, UNCHANGED <<next, raced>>,
         \A m \in Messages : EventOf[m] \notin raced =>
                               Total(m)' = Total(m) /\ (InBarrels(m) = 0 => InBarrels(m)' = 0),
         \A i \in Inserters : /\ Storing(i)' <=> Storing(i)
                              /\ Storing(i) => imsg'[i] = imsg[i]
                              /\ Busy(i)' => Busy(i) /\ imsg'[i] = imsg[i]
                              /\ ipc'[i] = "append" => ipc[i] = "append" /\ imsg'[i] = imsg[i]
  PROVE  CountOK'
<1>1. \A m : Placed(m)' <=> Placed(m)
  BY DEF Placed, Seen
<1>2. ASSUME NEW m \in Messages, EventOf[m] \notin raced'
      PROVE  IF Placed(m)' THEN IF Progress(m) THEN InBarrels(m)' = 0 ELSE Total(m)' = 1 ELSE Total(m)' = 0
  BY <1>1, <1>2 DEF CountOK
<1>3. \A i \in Inserters : /\ Busy(i)' => imsg'[i] \notin Unparsable
                           /\ ipc'[i] = "append" => StepOf[imsg'[i]] # "progress"
  BY DEF CountOK
<1> QED BY <1>2, <1>3 DEF CountOK, Progress

\* The step stores message x, which nobody had stored.
LEMMA CountStored ==
  ASSUME IInv, CountOK, UNCHANGED raced, NEW x \in Messages,
         \A m \in Messages : Placed(m)' <=> Placed(m) \/ m = x,
         \A m \in Messages : m # x /\ EventOf[m] \notin raced =>
                               Total(m)' = Total(m) /\ (InBarrels(m) = 0 => InBarrels(m)' = 0),
         EventOf[x] \notin raced => /\ Progress(x) => InBarrels(x)' = 0
                                    /\ ~Progress(x) => Total(x)' = 1,
         \A i \in Inserters : /\ Busy(i)' => Busy(i) /\ imsg'[i] = imsg[i]
                              /\ ipc'[i] = "append" => ipc[i] = "append" /\ imsg'[i] = imsg[i]
  PROVE  CountOK'
<1>1. ASSUME NEW m \in Messages, EventOf[m] \notin raced'
      PROVE  IF Placed(m)' THEN IF Progress(m) THEN InBarrels(m)' = 0 ELSE Total(m)' = 1 ELSE Total(m)' = 0
  <2>1. CASE m = x
    BY <1>1, <2>1 DEF Progress
  <2>2. CASE m # x
    BY <1>1, <2>2 DEF CountOK
  <2> QED BY <2>1, <2>2
<1>2. \A i \in Inserters : /\ Busy(i)' => imsg'[i] \notin Unparsable
                           /\ ipc'[i] = "append" => StepOf[imsg'[i]] # "progress"
  BY DEF CountOK
<1> QED BY <1>1, <1>2 DEF CountOK, Progress
-----------------------------------------------------------------------------
\* The steps

LEMMA InitOInv == Init => OInv
<1> SUFFICES ASSUME Init PROVE OInv
  OBVIOUS
<1>1. OneOK /\ HomeOK
  BY DEF Init, OneOK, HomeOK, Mapped, Busy
<1>2. OrderOK
  <2>1. ASSUME NEW e \in Events PROVE Bounded(e, 0) /\ InOrder(e, 0)
    BY EmptyOrder DEF Init, Bounded, InOrder, Mapped, Storing
  <2> QED BY <2>1 DEF OrderOK
<1>3. CountOK
  <2>1. Seen = {}
    BY DEF Init, Seen
  <2>2. ASSUME NEW m \in Messages PROVE Total(m) = 0
    <3>1. EventOf[m] \in Events
      BY MessagesAssumption
    <3>2. Copies(<<>>, m) = 0
      BY CopiesZero
    <3>3. Kept(m) = 0 /\ InBarrels(m) = 0
      BY <3>1, <3>2 DEF Init, Kept, InBarrels, NoMessages
    <3> QED BY <3>3 DEF Total
  <2> QED BY <2>1, <2>2 DEF CountOK, Placed, Init, Busy
<1> QED BY <1>1, <1>2, <1>3 DEF OInv

\* What the places of a receiver mean.
LEMMA Places ==
  ASSUME IInv, NEW i \in Inserters
  PROVE  /\ ipc[i] = "receive" => ~Busy(i) /\ ~Storing(i)
         /\ ipc[i] \in {"lookup", "ask", "lock", "insert", "append"} => Busy(i) /\ Storing(i)
         /\ ipc[i] \in {"flush", "send", "cache", "return"} => Busy(i) /\ ~Storing(i)
         /\ ipc'[i] = "receive" => ~Busy(i)' /\ ~Storing(i)'
         /\ ipc'[i] \in {"lookup", "ask", "lock", "insert", "append"} => Busy(i)' /\ Storing(i)'
         /\ ipc'[i] \in {"flush", "send", "cache", "return"} => Busy(i)' /\ ~Storing(i)'
BY DEF Busy, Storing

\* Nothing that is stored changes and the receivers go on.
LEMMA Quiet ==
  ASSUME IInv, OInv,
         UNCHANGED <<barrels, next, icopy, saved, garbage, garbageFile, garbageLost, raced>>,
         \A i \in Inserters : /\ Storing(i)' <=> Storing(i)
                              /\ Storing(i) => imsg'[i] = imsg[i]
                              /\ Busy(i)' => Busy(i) /\ imsg'[i] = imsg[i]
                              /\ ipc'[i] = "append" => ipc[i] = "append" /\ imsg'[i] = imsg[i]
                              /\ ipc'[i] \in {"ask", "lock"} =>
                                   /\ barrels[EventAt(i)] = NoBarrel \/ EventAt(i) \in raced
                                   /\ imsg'[i] = imsg[i]
  PROVE  OInv'
<1>1. OneOK'
  BY DEF OInv, OneOK, EventAt
<1>2. OrderOK'
  <2>1. \A e, n : Bounded(e, n) => Bounded(e, n)'
    BY SameNext, BoundStays
  <2> QED BY <2>1, OrderSame DEF OInv
<1>3. CountOK'
  <2>1. \A m \in Messages : Total(m)' = Total(m) /\ InBarrels(m)' = InBarrels(m)
    BY DEF Total, InBarrels, Kept
  <2> QED BY <2>1, CountKept DEF OInv
<1>4. HomeOK'
  BY HomeSame DEF OInv
<1> QED BY <1>1, <1>2, <1>3, <1>4 DEF OInv

LEMMA QuietStep ==
  ASSUME IInv, OInv,
         UNCHANGED <<barrels, next, ipc, imsg, icopy, saved, garbage, garbageFile, garbageLost, raced>>
  PROVE  OInv'
<1>1. \A i \in Inserters : ipc[i] \in {"ask", "lock"} => barrels[EventAt(i)] = NoBarrel \/ EventAt(i) \in raced
  BY DEF OInv, OneOK
<1> QED BY <1>1, Quiet DEF Storing, Busy

LEMMA HandlersQuiet ==
  ASSUME IInv, OInv, NEW h \in Handlers,
         TakeEvent(h) \/ HandlerExit(h) \/ PersistLookup(h) \/ PersistLock(h) \/ Callback(h)
  PROVE  OInv'
<1>1. UNCHANGED <<barrels, next, ipc, imsg, icopy, saved, garbage, garbageFile, garbageLost, raced>>
  BY DEF TakeEvent, HandlerExit, PersistLookup, PersistLock, Callback, insVars, garbageVars, dbVars, histVars
<1> QED BY <1>1, QuietStep

LEMMA OthersQuiet ==
  ASSUME IInv, OInv, GcTick \/ Stop \/ Exit \/ UNCHANGED vars
  PROVE  OInv'
<1>1. UNCHANGED <<barrels, next, ipc, imsg, icopy, saved, garbage, garbageFile, garbageLost, raced>>
  BY DEF GcTick, Stop, Exit, vars, insVars, garbageVars, dbVars, histVars
<1> QED BY <1>1, QuietStep

\* The receivers that do not move.
LEMMA OthersSame ==
  ASSUME NEW j \in Inserters, ipc'[j] = ipc[j], imsg'[j] = imsg[j]
  PROVE  (Storing(j)' <=> Storing(j)) /\ (Busy(j)' <=> Busy(j)) /\ EventAt(j)' = EventAt(j)
BY DEF Storing, Busy, EventAt

LEMMA ReceiverQuiet ==
  ASSUME IInv, OInv, NEW i \in Inserters, Lookup(i) \/ Ask(i) \/ AnalysisSend(i) \/ Return(i)
  PROVE  OInv'
<1>1. UNCHANGED <<barrels, next, icopy, saved, garbage, garbageFile, garbageLost, raced>>
  BY DEF Lookup, Ask, AnalysisSend, Return, garbageVars, dbVars, histVars
<1>2. /\ ipc \in [Inserters -> {"receive", "lookup", "ask", "lock", "insert", "append", "flush",
                                "send", "cache", "return"}]
      /\ imsg \in [Inserters -> Messages \cup {None}]
  BY DEF IInv, LocalsOK
<1>3. \/ ipc[i] = "lookup" /\ ipc'[i] = "insert" /\ imsg' = imsg
      \/ ipc[i] = "lookup" /\ ipc'[i] = "ask" /\ barrels[EventOf[imsg[i]]] = NoBarrel /\ imsg' = imsg
      \/ ipc[i] = "ask" /\ ipc'[i] = "lock" /\ imsg' = imsg
      \/ ipc[i] = "send" /\ ipc'[i] = "cache" /\ imsg' = imsg
      \/ ipc[i] = "return" /\ ipc'[i] = "receive"
  BY <1>2 DEF Lookup, Ask, AnalysisSend, Return, IGoto
<1>4. /\ Storing(i)' <=> Storing(i)
      /\ Storing(i) => imsg'[i] = imsg[i]
      /\ Busy(i)' => Busy(i) /\ imsg'[i] = imsg[i]
      /\ ipc'[i] = "append" => ipc[i] = "append" /\ imsg'[i] = imsg[i]
      /\ ipc'[i] \in {"ask", "lock"} => /\ barrels[EventAt(i)] = NoBarrel \/ EventAt(i) \in raced
                                        /\ imsg'[i] = imsg[i]
  BY <1>3, Places DEF OInv, OneOK, EventAt
<1>5. \A j \in Inserters : j # i => ipc'[j] = ipc[j] /\ imsg'[j] = imsg[j]
  BY <1>2 DEF Lookup, Ask, AnalysisSend, Return, IGoto
<1>6. \A j \in Inserters : j # i => /\ (Storing(j)' <=> Storing(j)) /\ (Busy(j)' <=> Busy(j))
                                    /\ ipc[j] \in {"ask", "lock"} => barrels[EventAt(j)] = NoBarrel \/ EventAt(j) \in raced
  BY <1>5, OthersSame DEF OInv, OneOK
<1> QED BY <1>1, <1>4, <1>5, <1>6, Quiet

\* A message that is stored nowhere goes to the garbage.
LEMMA ToGarbage ==
  ASSUME IInv, NEW x \in Messages, garbage' = AddAll(garbage, <<x>>),
         UNCHANGED <<barrels, saved, garbageFile, garbageLost>>
  PROVE  /\ \A m : InBarrels(m)' = InBarrels(m)
         /\ \A m \in Messages : m # x => Total(m)' = Total(m)
         /\ Total(x) = 0 => Total(x)' = 1 /\ InBarrels(x)' = 0
<1>1. \A m : InBarrels(m)' = InBarrels(m)
  BY DEF InBarrels
<1>2. <<x>> \in Seq(Messages) /\ garbage \in Bag
  BY DEF IInv, TypeOK
<1>3. \A m \in Messages : garbage'[m] = garbage[m] + Copies(<<x>>, m)
  BY <1>2, AddedAll
<1>4. ASSUME NEW m \in Messages PROVE Kept(m)' = Kept(m) + Copies(<<x>>, m) /\ Copies(<<x>>, m) \in Nat
  <2> DEFINE s == Copies(saved[EventOf[m]], m)
             c == Copies(<<x>>, m)
  <2>1. s \in Nat /\ garbage[m] \in Nat /\ garbageFile[m] \in Nat /\ garbageLost[m] \in Nat /\ c \in Nat
    BY <1>2, Counts, CopiesNat
  <2>2. Kept(m) = s + garbage[m] + garbageFile[m] + garbageLost[m]
    BY DEF Kept
  <2>3. Kept(m)' = s + garbage'[m] + garbageFile[m] + garbageLost[m] /\ garbage'[m] = garbage[m] + c
    BY <1>3 DEF Kept
  <2> HIDE DEF s, c
  <2>4. Kept(m)' = Kept(m) + c /\ c \in Nat
    BY <2>1, <2>2, <2>3
  <2> QED BY <2>4 DEF c
<1>5. Copies(<<x>>, x) = 1 /\ \A m : m # x => Copies(<<x>>, m) = 0
  BY CopiesOne
<1>6. ASSUME NEW m \in Messages, m # x PROVE Total(m)' = Total(m)
  <2>1. Kept(m)' = Kept(m)
    BY <1>4, <1>5, <1>6, Counts
  <2> QED BY <1>1, <2>1 DEF Total
<1>7. ASSUME Total(x) = 0 PROVE Total(x)' = 1 /\ InBarrels(x)' = 0
  <2>1. InBarrels(x) \in Nat /\ Kept(x) \in Nat /\ InBarrels(x) + Kept(x) = 0
    BY <1>7, Counts DEF Total
  <2>2. InBarrels(x)' = InBarrels(x) /\ Kept(x)' = Kept(x) + 1 /\ Total(x)' = InBarrels(x)' + Kept(x)'
    BY <1>1, <1>4, <1>5 DEF Total
  <2> QED BY <2>1, <2>2
<1> QED BY <1>1, <1>6, <1>7

LEMMA ReceiveOrder ==
  ASSUME IInv, OInv, NEW i \in Inserters, Receive(i)
  PROVE  OInv'
<1>0. PICK x : x = Inbox[next + 1]
  OBVIOUS
<1>1. /\ ipc[i] = "receive" /\ next < Len(Inbox) /\ next' = next + 1
      /\ UNCHANGED <<barrels, icopy, garbageFile, garbageLost, saved>>
  BY DEF Receive, dbVars
<1>2. \/ /\ x \in Unparsable /\ garbage' = AddAll(garbage, <<x>>) /\ UNCHANGED <<ipc, imsg, raced>>
      \/ /\ x \notin Unparsable /\ ipc' = [ipc EXCEPT ![i] = "lookup"] /\ imsg' = [imsg EXCEPT ![i] = x]
         /\ raced' = raced \cup {EventOf[imsg[j]] : j \in Sharing(x)} /\ UNCHANGED garbage
  BY <1>0 DEF Receive, IGoto
<1>3. /\ next \in Nat /\ x \in Messages /\ x \notin Seen
  BY <1>0, <1>1, NextMessage
<1>4. Seen' = Seen \cup {x}
  BY <1>0, <1>1, NextMessage DEF Seen
<1>5. next' \in Int /\ next <= next'
  BY <1>1, <1>3
<1>6. ~Placed(x) /\ \A j \in Inserters : Storing(j) => imsg[j] # x
  <2>1. \A j \in Inserters : Storing(j) => imsg[j] \in Seen
    BY Inserting DEF Storing
  <2> QED BY <1>3, <2>1 DEF Placed
<1>7. CASE x \in Unparsable /\ garbage' = AddAll(garbage, <<x>>) /\ UNCHANGED <<ipc, imsg, raced>>
  <2>1. \A j \in Inserters : (Storing(j)' <=> Storing(j)) /\ (Busy(j)' <=> Busy(j)) /\ EventAt(j)' = EventAt(j)
    BY <1>7, OthersSame
  <2>2. OneOK' /\ HomeOK'
    BY <1>1, <1>7, <2>1, HomeSame DEF OInv, OneOK
  <2>3. OrderOK'
    <3>1. \A e, n : Bounded(e, n) => Bounded(e, n)'
      BY <1>5, <1>7, <2>1, BoundStays
    <3> QED BY <1>1, <1>7, <3>1, OrderSame DEF OInv
  <2>4. CountOK'
    <3>1. \A m \in Messages : Placed(m)' <=> Placed(m) \/ m = x
      BY <1>4, <1>6, <1>7, <2>1 DEF Placed
    <3>3. EventOf[x] \notin raced => Total(x) = 0
      BY <1>3, <1>6 DEF OInv, CountOK
    <3>4. /\ \A m : InBarrels(m)' = InBarrels(m)
          /\ \A m \in Messages : m # x => Total(m)' = Total(m)
          /\ Total(x) = 0 => Total(x)' = 1 /\ InBarrels(x)' = 0
      BY <1>1, <1>3, <1>7, ToGarbage
    <3>5. CountOK /\ UNCHANGED raced
      BY <1>7 DEF OInv
    <3>6. \A j \in Inserters : /\ Busy(j)' => Busy(j) /\ imsg'[j] = imsg[j]
                               /\ ipc'[j] = "append" => ipc[j] = "append" /\ imsg'[j] = imsg[j]
      BY <1>7, <2>1
    <3> QED BY <1>3, <3>1, <3>3, <3>4, <3>5, <3>6, CountStored
  <2> QED BY <2>2, <2>3, <2>4 DEF OInv
<1>8. CASE /\ x \notin Unparsable /\ ipc' = [ipc EXCEPT ![i] = "lookup"] /\ imsg' = [imsg EXCEPT ![i] = x]
           /\ raced' = raced \cup {EventOf[imsg[j]] : j \in Sharing(x)} /\ UNCHANGED garbage
  <2>1. /\ ipc'[i] = "lookup" /\ imsg'[i] = x
        /\ \A j \in Inserters : j # i => ipc'[j] = ipc[j] /\ imsg'[j] = imsg[j]
    BY <1>8 DEF IInv, LocalsOK
  <2>2. ~Storing(i) /\ Storing(i)' /\ ~Busy(i) /\ Busy(i)' /\ EventAt(i)' = EventOf[x]
    BY <1>1, <2>1, Places DEF EventAt
  <2>3. \A j \in Inserters : j # i => (Storing(j)' <=> Storing(j)) /\ (Busy(j)' <=> Busy(j)) /\ EventAt(j)' = EventAt(j)
    BY <2>1, OthersSame
  <2>4. OneOK' /\ HomeOK'
    <3>1. \A j \in Inserters : Busy(j) /\ EventAt(j) = EventOf[x] => EventOf[x] \in raced'
      BY <1>8 DEF Sharing, Busy, EventAt
    <3>2. raced \subseteq raced'
      BY <1>8
    <3>3. ASSUME NEW j \in Inserters, NEW k \in Inserters, Busy(j)', Busy(k)', EventAt(j)' = EventAt(k)'
          PROVE  j = k \/ EventAt(j)' \in raced'
      BY <2>2, <2>3, <3>1, <3>2, <3>3 DEF OInv, OneOK
    <3>4. ASSUME NEW j \in Inserters
          PROVE  /\ ipc'[j] \in {"ask", "lock"} => barrels'[EventAt(j)'] = NoBarrel \/ EventAt(j)' \in raced'
                 /\ ipc'[j] = "append" => icopy'[j].buf = barrels'[EventAt(j)'].buf \/ EventAt(j)' \in raced'
      <4>1. CASE j = i
        BY <2>1, <4>1
      <4>2. CASE j # i
        BY <1>1, <2>1, <2>3, <3>2, <4>2 DEF OInv, OneOK
      <4> QED BY <4>1, <4>2
    <3>5. HomeOK'
      BY <1>1, <2>1, HomeSame DEF OInv
    <3> QED BY <3>3, <3>4, <3>5 DEF OneOK
  <2>5. OrderOK'
    <3>1. \A e, n : Bounded(e, n) => Bounded(e, n)'
      BY <1>3, <1>5, <2>1, <2>3, BoundStays
    <3>2. raced \subseteq raced'
      BY <1>8
    <3> QED BY <1>1, <3>1, <3>2, OrderSame DEF OInv
  <2>6. CountOK'
    <3>1. \A m \in Messages : Placed(m)' <=> Placed(m)
      BY <1>3, <1>4, <1>6, <2>1, <2>2, <2>3 DEF Placed
    <3>2. \A m : InBarrels(m)' = InBarrels(m) /\ Total(m)' = Total(m)
      BY <1>1, <1>8 DEF InBarrels, Kept, Total
    <3>3. raced \subseteq raced'
      BY <1>8
    <3>4. \A j \in Inserters : /\ Busy(j)' => imsg'[j] \notin Unparsable
                               /\ ipc'[j] = "append" => StepOf[imsg'[j]] # "progress"
      BY <1>8, <2>1, <2>3 DEF OInv, CountOK
    <3> QED BY <3>1, <3>2, <3>3, <3>4 DEF OInv, CountOK, Progress
  <2> QED BY <2>4, <2>5, <2>6 DEF OInv
<1> QED BY <1>2, <1>7, <1>8

\* Receiver i changes the barrel of its event.
LEMMA OneGoes ==
  ASSUME IInv, OInv, NEW i \in Inserters, Busy(i), UNCHANGED <<imsg, raced>>,
         \A j \in Inserters : j # i => ipc'[j] = ipc[j] /\ icopy'[j] = icopy[j],
         \A f \in Events : f # EventAt(i) => barrels'[f] = barrels[f],
         ipc'[i] \in {"ask", "lock"} => barrels'[EventAt(i)] = NoBarrel \/ EventAt(i) \in raced,
         ipc'[i] = "append" => icopy'[i].buf = barrels'[EventAt(i)].buf \/ EventAt(i) \in raced
  PROVE  OneOK'
<1>1. \A j \in Inserters : EventAt(j)' = EventAt(j)
  BY DEF EventAt
<1>2. \A j \in Inserters : j # i => (Busy(j)' <=> Busy(j))
  BY DEF Busy
<1>3. ASSUME NEW j \in Inserters, NEW k \in Inserters, Busy(j)', Busy(k)', EventAt(j)' = EventAt(k)'
      PROVE  j = k \/ EventAt(j)' \in raced'
  BY <1>1, <1>2, <1>3 DEF OInv, OneOK
<1>4. ASSUME NEW j \in Inserters
      PROVE  /\ ipc'[j] \in {"ask", "lock"} => barrels'[EventAt(j)'] = NoBarrel \/ EventAt(j)' \in raced'
             /\ ipc'[j] = "append" => icopy'[j].buf = barrels'[EventAt(j)'].buf \/ EventAt(j)' \in raced'
  <2>1. CASE j = i
    BY <1>1, <2>1
  <2>2. CASE j # i /\ ipc[j] \in {"ask", "lock", "append"} /\ EventAt(j) \notin raced
    <3>1. Busy(j) /\ EventAt(j) \in Events
      BY <2>2, Inserting DEF Busy, EventAt
    <3>2. EventAt(j) # EventAt(i)
      BY <2>2, <3>1 DEF OInv, OneOK
    <3> QED BY <1>1, <2>2, <3>1, <3>2 DEF OInv, OneOK
  <2>3. CASE j # i /\ (ipc[j] \notin {"ask", "lock", "append"} \/ EventAt(j) \in raced)
    BY <1>1, <2>3
  <2> QED BY <2>1, <2>2, <2>3
<1> QED BY <1>3, <1>4 DEF OneOK

\* A receiver creates the barrel of an event that is not raced once.
LEMMA NewBarrelOrder ==
  ASSUME IInv, OInv, NEW i \in Inserters, NewBarrel(i)
  PROVE  OInv'
<1>0. PICK e : e = EventAt(i)
  OBVIOUS
<1>1. /\ ipc[i] = "lock" /\ ipc' = [ipc EXCEPT ![i] = "insert"]
      /\ barrels' = [barrels EXCEPT ![e] = EmptyBarrel]
      /\ UNCHANGED <<next, imsg, icopy, garbage, garbageFile, garbageLost, saved, raced>>
  BY <1>0 DEF NewBarrel, IGoto, garbageVars, dbVars, histVars, EventAt
<1>2. /\ e \in Events /\ barrels \in [Events -> Barrel \cup {NoBarrel}]
      /\ barrels[e] = NoBarrel \/ e \in raced
  BY <1>0, <1>1, Inserting DEF IInv, TypeOK, OInv, OneOK, EventAt
<1>3. /\ barrels'[e] = EmptyBarrel /\ \A f \in Events : f # e => barrels'[f] = barrels[f]
  BY <1>1, <1>2
<1>4. ipc'[i] = "insert" /\ \A j \in Inserters : j # i => ipc'[j] = ipc[j] /\ imsg'[j] = imsg[j]
  BY <1>1 DEF IInv, LocalsOK
<1>5. Busy(i) /\ Storing(i) /\ Storing(i)' /\ Busy(i)'
  BY <1>1, <1>4, Places
<1>6. \A j \in Inserters : (Storing(j)' <=> Storing(j)) /\ (Busy(j)' <=> Busy(j)) /\ imsg'[j] = imsg[j]
                             /\ (ipc'[j] = "append" => ipc[j] = "append")
  BY <1>1, <1>4, <1>5, OthersSame
<1>7. OneOK'
  BY <1>0, <1>1, <1>3, <1>4, <1>5, OneGoes
<1>8. OrderOK'
  <2>1. \A f, n : Bounded(f, n) => Bounded(f, n)'
    BY <1>1, <1>6, SameNext, BoundStays
  <2>2. CASE e \notin raced
    <3>1. PICK n : Bounded(e, n) /\ InOrder(e, n)
      BY <1>2, <2>2 DEF OInv, OrderOK
    <3>2. Ordered(saved'[e], <<>>, <<>>, n) /\ Bounded(e, n)'
      BY <1>1, <2>1, <3>1, EmptyOrder DEF InOrder, Ordered
    <3> QED BY <1>1, <1>2, <1>3, <2>1, <3>2, EmptyOK, OrderOne DEF OInv
  <2>3. CASE e \in raced
    BY <1>1, <1>2, <1>3, <2>1, <2>3, OrderOne DEF OInv
  <2> QED BY <2>2, <2>3
<1>9. HomeOK'
  BY <1>1, <1>2, <1>3, <1>6, EmptyOK, EmptyOrder, HomeOne DEF OInv
<1>10. CountOK'
  <2>1. ASSUME NEW m \in Messages, EventOf[m] \notin raced PROVE InBarrels(m)' = InBarrels(m)
    <3>1. EventOf[m] \in Events
      BY MessagesAssumption
    <3>2. CASE EventOf[m] # e
      BY <1>3, <3>1, <3>2 DEF InBarrels
    <3>3. CASE EventOf[m] = e
      <4>1. InBarrels(m) = 0
        BY <1>2, <2>1, <3>3 DEF InBarrels
      <4>2. InBarrels(m)' = Copies(<<>>, m) + Copies(<<>>, m)
        BY <1>3, <3>3, EmptyOK, InBarrel
      <4>3. Copies(<<>>, m) = 0
        BY CopiesZero
      <4> QED BY <4>1, <4>2, <4>3
    <3> QED BY <3>2, <3>3
  <2>2. \A m \in Messages : EventOf[m] \notin raced => Total(m)' = Total(m)
    BY <1>1, <2>1 DEF Total, Kept
  <2> QED BY <1>1, <1>6, <2>1, <2>2, CountKept DEF OInv
<1> QED BY <1>7, <1>8, <1>9, <1>10 DEF OInv

\* The receiver's message counts as stored from here on.
LEMMA NowStored ==
  ASSUME IInv, OInv, NEW i \in Inserters, NEW x, x = imsg[i], Storing(i), ~Storing(i)',
         UNCHANGED <<next, imsg>>, \A j \in Inserters : j # i => ipc'[j] = ipc[j]
  PROVE  /\ x \in Messages /\ x \in Seen /\ ~Placed(x) /\ x \notin Unparsable
         /\ EventOf[x] \notin raced => Total(x) = 0
         /\ \A m : Placed(m)' <=> Placed(m) \/ m = x
         /\ \A e, n : Bounded(e, n) => Bounded(e, n)'
<1>1. Busy(i) /\ ipc[i] # "receive"
  BY DEF Storing, Busy
<1>2. x \in Messages /\ x \in Seen
  BY <1>1, Inserting
<1>3. \A j \in Inserters : Storing(j)' <=> Storing(j) /\ j # i
  BY DEF Storing
<1>4. \A j \in Inserters : Storing(j) /\ j # i => imsg[j] # x
  BY <1>1 DEF IInv, FlightOK, Busy, Storing
<1>5. ~Placed(x) /\ (\A m : Placed(m)' <=> Placed(m) \/ m = x)
  BY <1>2, <1>3, <1>4 DEF Placed, Seen
<1>6. (EventOf[x] \notin raced => Total(x) = 0) /\ x \notin Unparsable
  BY <1>1, <1>2, <1>5 DEF OInv, CountOK
<1>7. \A e, n : Bounded(e, n) => Bounded(e, n)'
  BY <1>3, SameNext, BoundStays
<1> QED BY <1>2, <1>5, <1>6, <1>7

LEMMA InsertBeginOrder ==
  ASSUME IInv, OInv, NEW i \in Inserters, InsertBegin(i)
  PROVE  OInv'
<1>0. PICK x : x = imsg[i]
  OBVIOUS
<1>1. /\ ipc[i] = "insert" /\ UNCHANGED <<barrels, next, imsg, garbageFile, garbageLost, saved, raced>>
  BY DEF InsertBegin, dbVars, histVars
<1>2. \/ /\ garbage' = AddAll(garbage, <<x>>) /\ ipc' = [ipc EXCEPT ![i] = "return"] /\ UNCHANGED icopy
      \/ /\ StepOf[x] = "progress" /\ ipc' = [ipc EXCEPT ![i] = "return"] /\ UNCHANGED <<garbage, icopy>>
      \/ /\ StepOf[x] # "progress" /\ icopy' = [icopy EXCEPT ![i] = barrels[EventOf[x]]]
         /\ ipc' = [ipc EXCEPT ![i] = "append"] /\ UNCHANGED garbage
  BY <1>0 DEF InsertBegin, IGoto
<1>3. Storing(i) /\ Busy(i) /\ EventAt(i) = EventOf[x] /\ EventOf[x] \in Mapped
  BY <1>0, <1>1, Places, Inserting DEF EventAt, Inside
<1>4. ASSUME ipc' = [ipc EXCEPT ![i] = "return"], UNCHANGED icopy,
             \/ garbage' = AddAll(garbage, <<x>>)
             \/ StepOf[x] = "progress" /\ UNCHANGED garbage
      PROVE  OInv'
  <2>1. ipc'[i] = "return" /\ ~Storing(i)' /\ Busy(i)' /\ \A j \in Inserters : j # i => ipc'[j] = ipc[j]
    BY <1>4, Places DEF IInv, LocalsOK
  <2>2. /\ x \in Messages /\ x \in Seen /\ ~Placed(x) /\ x \notin Unparsable
        /\ EventOf[x] \notin raced => Total(x) = 0
        /\ \A m : Placed(m)' <=> Placed(m) \/ m = x
        /\ \A e, n : Bounded(e, n) => Bounded(e, n)'
    BY <1>0, <1>1, <1>3, <2>1, NowStored
  <2>3. OneOK'
    BY <1>1, <1>3, <1>4, <2>1, OneGoes
  <2>4. OrderOK'
    BY <1>1, <2>2, OrderSame DEF OInv
  <2>5. HomeOK'
    BY <1>1, <1>4, <2>1, HomeSame DEF OInv
  <2>6. CountOK'
    <3>1. \A j \in Inserters : /\ Busy(j)' => Busy(j) /\ imsg'[j] = imsg[j]
                               /\ ipc'[j] = "append" => ipc[j] = "append" /\ imsg'[j] = imsg[j]
      BY <1>1, <1>3, <2>1 DEF Busy
    <3>2. CASE garbage' = AddAll(garbage, <<x>>)
      <4>1. /\ \A m : InBarrels(m)' = InBarrels(m)
            /\ \A m \in Messages : m # x => Total(m)' = Total(m)
            /\ Total(x) = 0 => Total(x)' = 1 /\ InBarrels(x)' = 0
        BY <1>1, <2>2, <3>2, ToGarbage
      <4> QED BY <1>1, <2>2, <3>1, <4>1, CountStored DEF OInv
    <3>3. CASE StepOf[x] = "progress" /\ UNCHANGED garbage
      <4>1. \A m : InBarrels(m)' = InBarrels(m) /\ Total(m)' = Total(m)
        BY <1>1, <3>3 DEF InBarrels, Kept, Total
      <4>2. Progress(x)
        BY <2>2, <3>3 DEF Progress
      <4>3. EventOf[x] \notin raced => InBarrels(x) = 0
        BY <2>2, Counts DEF Total
      <4> QED BY <1>1, <2>2, <3>1, <4>1, <4>2, <4>3, CountStored DEF OInv
    <3> QED BY <1>4, <3>2, <3>3
  <2> QED BY <2>3, <2>4, <2>5, <2>6 DEF OInv
<1>5. ASSUME StepOf[x] # "progress", icopy' = [icopy EXCEPT ![i] = barrels[EventOf[x]]],
             ipc' = [ipc EXCEPT ![i] = "append"], UNCHANGED garbage
      PROVE  OInv'
  <2>1. /\ ipc'[i] = "append" /\ icopy'[i] = barrels[EventOf[x]]
        /\ \A j \in Inserters : j # i => ipc'[j] = ipc[j] /\ icopy'[j] = icopy[j]
    BY <1>5 DEF IInv, LocalsOK
  <2>2. Storing(i)' /\ Busy(i)'
    BY <2>1, Places
  <2>3. \A j \in Inserters : (Storing(j)' <=> Storing(j)) /\ (Busy(j)' <=> Busy(j)) /\ imsg'[j] = imsg[j]
    BY <1>1, <1>3, <2>1, <2>2, OthersSame
  <2>4. OneOK'
    BY <1>0, <1>1, <1>3, <2>1, OneGoes
  <2>5. OrderOK'
    <3>1. \A e, n : Bounded(e, n) => Bounded(e, n)'
      BY <1>1, <2>3, SameNext, BoundStays
    <3> QED BY <1>1, <3>1, OrderSame DEF OInv
  <2>6. HomeOK'
    <3>1. Mapped' = Mapped /\ \A j \in Inserters : EventAt(j)' = EventAt(j)
      BY <1>1 DEF Mapped, EventAt
    <3>2. OfEvent(icopy'[i].buf, EventAt(i))
      BY <1>3, <2>1 DEF OInv, HomeOK
    <3> QED BY <1>1, <2>1, <3>1, <3>2 DEF OInv, HomeOK
  <2>7. CountOK'
    <3>1. \A m : InBarrels(m)' = InBarrels(m) /\ Total(m)' = Total(m)
      BY <1>1, <1>5 DEF InBarrels, Kept, Total
    <3>2. \A m \in Messages : Placed(m)' <=> Placed(m)
      BY <1>1, <2>3 DEF Placed, Seen
    <3>3. \A j \in Inserters : /\ Busy(j)' => imsg'[j] \notin Unparsable
                               /\ ipc'[j] = "append" => StepOf[imsg'[j]] # "progress"
      BY <1>0, <1>1, <1>5, <2>1, <2>3 DEF OInv, CountOK
    <3> QED BY <1>1, <3>1, <3>2, <3>3 DEF OInv, CountOK, Progress
  <2> QED BY <2>4, <2>5, <2>6, <2>7 DEF OInv
<1> QED BY <1>2, <1>4, <1>5

LEMMA OrderedAppend ==
  ASSUME NEW db \in Seq(Messages), NEW p \in Seq(Messages), NEW q \in Seq(Messages), NEW n \in Nat,
         n + 1 \in DOMAIN Inbox, Ordered(db, p, q, n)
  PROVE  Ordered(db, p, Append(q, Inbox[n + 1]), n + 1)
<1>1. /\ Chain(db) /\ Chain(p) /\ Chain(q) /\ UpTo(db, n) /\ UpTo(p, n) /\ UpTo(q, n)
      /\ Before(db, p) /\ Before(db, q) /\ Before(p, q)
  BY DEF Ordered
<1> DEFINE s == Append(q, Inbox[n + 1])
<1>2. Chain(s) /\ UpTo(s, n + 1) /\ Before(db, s) /\ Before(p, s)
  BY <1>1, AppendOrder
<1>3. n \in Int /\ n + 1 \in Int /\ n <= n + 1
  OBVIOUS
<1>4. UpTo(db, n + 1) /\ UpTo(p, n + 1)
  BY <1>1, <1>3, UpToMore
<1> HIDE DEF s
<1>5. Ordered(db, p, s, n + 1)
  BY <1>1, <1>2, <1>4 DEF Ordered
<1> QED BY <1>5 DEF s

LEMMA AppendEvent ==
  ASSUME NEW q \in Seq(Messages), NEW x \in Messages, NEW e, OfEvent(q, e), EventOf[x] = e
  PROVE  OfEvent(Append(q, x), e)
<1> DEFINE t == Append(q, x)
<1>1. /\ Len(q) \in Nat /\ DOMAIN q = 1 .. Len(q) /\ DOMAIN t = 1 .. Len(q) + 1
      /\ t[Len(q) + 1] = x /\ \A k \in DOMAIN q : t[k] = q[k]
  OBVIOUS
<1>2. \A k \in DOMAIN t : k \in DOMAIN q \/ k = Len(q) + 1
  BY <1>1
<1> HIDE DEF t
<1>3. OfEvent(t, e)
  BY <1>1, <1>2 DEF OfEvent
<1> QED BY <1>3 DEF t

LEMMA InsertAppendOrder ==
  ASSUME IInv, OInv, NEW i \in Inserters, InsertAppend(i)
  PROVE  OInv'
<1>0. PICK x : x = imsg[i]
  OBVIOUS
<1>1. PICK e : e = EventOf[x]
  OBVIOUS
<1>2. PICK b : b = barrels[e]
  OBVIOUS
<1>3. PICK s, n : s = Append(icopy[i].buf, x) /\ n = icopy[i].size + 1
  OBVIOUS
<1> DEFINE l == CASE StepOf[x] \in {"last", "callback"} -> "flush"
                  [] StepOf[x] = "code-version" -> "send"
                  [] OTHER -> "cache"
           r == [b EXCEPT !.buf = s, !.size = n]
<1>4. /\ ipc[i] = "append" /\ ipc' = [ipc EXCEPT ![i] = l]
      /\ barrels' = [barrels EXCEPT ![e].buf = s, ![e].size = n]
      /\ icopy' = [icopy EXCEPT ![i] = EmptyBarrel]
      /\ UNCHANGED <<next, imsg, garbage, garbageFile, garbageLost, saved, raced>>
  BY <1>0, <1>1, <1>3 DEF InsertAppend, IGoto, garbageVars, dbVars, histVars
<1>5. /\ x \in Messages /\ e \in Mapped /\ e \in Events /\ b # NoBarrel /\ b \in Barrel
      /\ b.buf \in Seq(Messages) /\ b.pbuf \in Seq(Messages)
  BY <1>0, <1>1, <1>2, <1>4, Inserting, Contents DEF Inside
<1>6. /\ e \notin raced => s = Append(b.buf, x)
      /\ n \in Nat /\ s \in Seq(Messages) /\ OfEvent(s, e)
  <2>1. e \notin raced => icopy[i].buf = b.buf
    BY <1>0, <1>1, <1>2, <1>4 DEF OInv, OneOK, EventAt
  <2>2. icopy[i].size \in Nat /\ icopy[i].buf \in Seq(Messages)
    BY DEF IInv, LocalsOK, Barrel
  <2>3. OfEvent(icopy[i].buf, e)
    BY <1>0, <1>1, <1>4 DEF OInv, HomeOK, EventAt
  <2>4. OfEvent(s, e) /\ s \in Seq(Messages)
    BY <1>1, <1>3, <1>5, <2>2, <2>3, AppendEvent
  <2> QED BY <1>3, <2>1, <2>2, <2>4
<1>8. l \in {"flush", "send", "cache"}
  OBVIOUS
<1> HIDE DEF l
<1>9. barrels \in [Events -> Barrel \cup {NoBarrel}]
  BY DEF IInv, TypeOK
<1>10. barrels'[e] = r /\ \A f \in Events : f # e => barrels'[f] = barrels[f]
  BY <1>2, <1>4, <1>5, <1>9
<1>11. r \in Barrel /\ r.buf = s /\ r.pbuf = b.pbuf
  BY <1>5, <1>6 DEF Barrel
<1> HIDE DEF r
<1>12. ipc'[i] = l /\ \A j \in Inserters : j # i => ipc'[j] = ipc[j] /\ icopy'[j] = icopy[j]
  BY <1>4 DEF IInv, LocalsOK
<1>13. Storing(i) /\ Busy(i) /\ ~Storing(i)' /\ Busy(i)' /\ EventAt(i) = e
  BY <1>0, <1>1, <1>4, <1>8, <1>12, Places DEF EventAt
<1>14. /\ x \in Seen /\ ~Placed(x) /\ x \notin Unparsable
       /\ EventOf[x] \notin raced => Total(x) = 0
       /\ \A m : Placed(m)' <=> Placed(m) \/ m = x
       /\ \A f, k : Bounded(f, k) => Bounded(f, k)'
  BY <1>0, <1>4, <1>12, <1>13, NowStored
<1>15. OneOK' /\ HomeOK'
  <2>1. OneOK'
    BY <1>4, <1>8, <1>10, <1>12, <1>13, OneGoes
  <2>2. OfEvent(r.pbuf, e) /\ OfEvent(r.buf, e)
    BY <1>2, <1>5, <1>6, <1>11 DEF OInv, HomeOK
  <2>3. \A j \in Inserters : ipc'[j] = "append" => ipc[j] = "append" /\ imsg'[j] = imsg[j] /\ icopy'[j] = icopy[j]
    BY <1>4, <1>8, <1>12
  <2>4. HomeOK
    BY DEF OInv
  <2>5. HomeOK'
    BY <1>5, <1>10, <2>2, <2>3, <2>4, HomeOne
  <2> QED BY <2>1, <2>5
<1>16. OrderOK'
  <2>1. CASE e \in raced
    BY <1>4, <1>5, <1>10, <1>14, <2>1, OrderOne DEF OInv
  <2>2. CASE e \notin raced
    <3>1. PICK d : Bounded(e, d) /\ InOrder(e, d)
      BY <1>5, <2>2 DEF OInv, OrderOK
    <3>2. PICK k \in 1 .. next : Inbox[k] = x
      BY <1>14 DEF Seen
    <3>3. Len(Inbox) \in Nat /\ next \in 0 .. Len(Inbox) /\ DOMAIN Inbox = 1 .. Len(Inbox)
      BY MessagesAssumption DEF IInv, TypeOK
    <3>4. d \in Nat /\ ~(k \in 1 .. d)
      BY <1>0, <1>13, <3>1, <3>2 DEF Bounded
    <3>5. PICK c \in Nat : c + 1 = k
      <4>1. k - 1 \in Nat /\ (k - 1) + 1 = k
        BY <3>2, <3>3
      <4> QED BY <4>1
    <3>6. d \in Int /\ c \in Int /\ d <= c /\ c + 1 \in DOMAIN Inbox /\ Inbox[c + 1] = x
      BY <3>2, <3>3, <3>4, <3>5
    <3>7. Ordered(saved[e], b.pbuf, b.buf, d) /\ saved[e] \in Seq(Messages)
      BY <1>2, <1>5, <3>1 DEF InOrder, IInv, TypeOK
    <3>8. Ordered(saved[e], b.pbuf, b.buf, c)
      BY <3>6, <3>7, OrderedMore
    <3>9. Ordered(saved[e], b.pbuf, s, k)
      BY <1>5, <1>6, <2>2, <3>5, <3>6, <3>7, <3>8, OrderedAppend
    <3>10. Bounded(e, k)'
      <4>1. ASSUME NEW j \in Inserters, Storing(j)', EventAt(j)' = e PROVE FALSE
        <5>1. j # i
          BY <1>13, <4>1
        <5>2. Storing(j) /\ Busy(j) /\ EventAt(j) = e
          BY <1>4, <1>12, <4>1, <5>1 DEF Storing, Busy, EventAt
        <5> QED BY <1>13, <2>2, <5>1, <5>2 DEF OInv, OneOK
      <4>2. k \in Nat /\ k <= next'
        BY <1>4, <3>2, <3>3
      <4> QED BY <4>1, <4>2 DEF Bounded
    <3>11. Ordered(saved'[e], r.pbuf, r.buf, k)
      BY <1>4, <1>11, <3>9
    <3>12. \A f \in Events : f # e => barrels'[f] = barrels[f] /\ saved'[f] = saved[f]
      BY <1>4, <1>10
    <3>13. OrderOK /\ UNCHANGED raced
      BY <1>4 DEF OInv
    <3> QED BY <1>5, <1>10, <1>14, <3>10, <3>11, <3>12, <3>13, OrderOne
  <2> QED BY <2>1, <2>2
<1>17. CountOK'
  <2>1. ASSUME NEW m \in Messages PROVE Kept(m)' = Kept(m) /\ Kept(m) \in Nat /\ InBarrels(m) \in Nat
    BY <1>4, Counts DEF Kept
  <2>2. ASSUME NEW m \in Messages, EventOf[m] # e PROVE InBarrels(m)' = InBarrels(m)
    BY <1>10, <2>2, MessagesAssumption DEF InBarrels
  <2>3. ASSUME NEW m \in Messages, EventOf[m] = e, e \notin raced
        PROVE  InBarrels(m)' = InBarrels(m) + (IF x = m THEN 1 ELSE 0)
    <3>1. PICK cp, cq, cs : cp = Copies(b.pbuf, m) /\ cq = Copies(b.buf, m) /\ cs = Copies(s, m)
      OBVIOUS
    <3>2. cp \in Nat /\ cq \in Nat /\ InBarrels(m) = cp + cq
      BY <1>2, <1>5, <2>3, <3>1, InBarrel
    <3>3. InBarrels(m)' = cp + cs
      BY <1>10, <1>11, <2>3, <3>1, InBarrel
    <3>4. cs = cq + (IF x = m THEN 1 ELSE 0)
      <4>1. s = Append(b.buf, x) /\ b.buf \in Seq(Messages) /\ x \in Messages
        BY <1>5, <1>6, <2>3
      <4>2. Copies(Append(b.buf, x), m) = Copies(b.buf, m) + (IF x = m THEN 1 ELSE 0)
        BY <4>1, CopiesAppend
      <4> QED BY <3>1, <4>1, <4>2
    <3> QED BY <3>2, <3>3, <3>4
  <2>4. ASSUME NEW m \in Messages, m # x, EventOf[m] \notin raced PROVE InBarrels(m)' = InBarrels(m)
    <3>1. CASE EventOf[m] = e
      BY <2>1, <2>3, <2>4, <3>1
    <3> QED BY <2>2, <3>1
  <2>5. e \notin raced => InBarrels(x)' = InBarrels(x) + 1
    BY <1>1, <1>5, <2>3
  <2>6. e \notin raced => Total(x)' = 1
    <3>1. Total(x) = InBarrels(x) + Kept(x) /\ Total(x)' = InBarrels(x)' + Kept(x)'
      BY DEF Total
    <3> QED BY <1>1, <1>5, <1>14, <2>1, <2>5, <3>1
  <2>7. \A m \in Messages : m # x /\ EventOf[m] \notin raced =>
          Total(m)' = Total(m) /\ (InBarrels(m) = 0 => InBarrels(m)' = 0)
    BY <2>1, <2>4 DEF Total
  <2>8. ~Progress(x)
    BY <1>0, <1>4 DEF Progress, OInv, CountOK
  <2>9. \A j \in Inserters : /\ Busy(j)' => Busy(j) /\ imsg'[j] = imsg[j]
                             /\ ipc'[j] = "append" => ipc[j] = "append" /\ imsg'[j] = imsg[j]
    BY <1>4, <1>8, <1>12, <1>13 DEF Busy
  <2>10. CountOK /\ UNCHANGED raced
    BY <1>4 DEF OInv
  <2> QED BY <1>1, <1>5, <1>14, <2>6, <2>7, <2>8, <2>9, <2>10, CountStored
<1> QED BY <1>15, <1>16, <1>17 DEF OInv

\* The receiver persists its barrel.
LEMMA FlushOrder ==
  ASSUME IInv, OInv, NEW i \in Inserters, ipc[i] \in {"flush", "cache"},
         Persistence(EventOf[imsg[i]]), NEW l \in {"send", "return"}, ipc' = [ipc EXCEPT ![i] = l],
         UNCHANGED <<next, imsg, icopy, garbageVars, dbVars, raced>>
  PROVE  OInv'
<1>0. PICK e : e = EventAt(i)
  OBVIOUS
<1>1. PICK b : b = barrels[e]
  OBVIOUS
<1> DEFINE r == Persisted(b)
<1>2. UNCHANGED <<next, imsg, icopy, garbage, garbageFile, garbageLost, saved, raced>>
  BY DEF garbageVars, dbVars
<1>3. /\ e \in Mapped /\ e \in Events /\ b # NoBarrel /\ b \in Barrel
      /\ b.buf \in Seq(Messages) /\ b.pbuf \in Seq(Messages)
  BY <1>0, <1>1, Inserting, Contents DEF Inside, EventAt
<1>4. barrels' = [barrels EXCEPT ![e] = r] /\ barrels \in [Events -> Barrel \cup {NoBarrel}]
  BY <1>0, <1>1 DEF Persistence, IInv, TypeOK, EventAt
<1>5. r \in Barrel /\ r.buf = <<>> /\ r.pbuf = b.pbuf \o b.buf
  BY <1>3, PersistedOK DEF Content
<1> HIDE DEF r
<1>6. barrels'[e] = r /\ \A f \in Events : f # e => barrels'[f] = barrels[f]
  BY <1>3, <1>4
<1>7. ipc'[i] = l /\ \A j \in Inserters : j # i => ipc'[j] = ipc[j]
  BY DEF IInv, LocalsOK
<1>8. ~Storing(i) /\ Busy(i) /\ ~Storing(i)' /\ Busy(i)'
  BY <1>7, Places
<1>81. \A j \in Inserters : (Storing(j)' <=> Storing(j)) /\ (Busy(j)' <=> Busy(j)) /\ imsg'[j] = imsg[j]
                              /\ (ipc'[j] = "append" => ipc[j] = "append" /\ icopy'[j] = icopy[j])
  BY <1>2, <1>7, <1>8, OthersSame
<1>9. OneOK' /\ HomeOK'
  <2>1. OneOK'
    BY <1>0, <1>2, <1>6, <1>7, <1>8, OneGoes
  <2>2. OfEvent(r.pbuf, e) /\ OfEvent(r.buf, e) /\ HomeOK
    BY <1>1, <1>3, <1>5, ConcatOrder, EmptyOrder DEF OInv, HomeOK
  <2>3. HomeOK'
    BY <1>3, <1>6, <1>81, <2>2, HomeOne
  <2> QED BY <2>1, <2>3
<1>10. OrderOK'
  <2>1. \A f, n : Bounded(f, n) => Bounded(f, n)'
    BY <1>2, <1>81, SameNext, BoundStays
  <2>2. \A f \in Events : f # e => barrels'[f] = barrels[f] /\ saved'[f] = saved[f]
    BY <1>2, <1>6
  <2>3. CASE e \in raced
    BY <1>2, <1>3, <1>6, <2>1, <2>2, <2>3, OrderOne DEF OInv
  <2>4. CASE e \notin raced
    <3>1. PICK n : Bounded(e, n) /\ InOrder(e, n)
      BY <1>3, <2>4 DEF OInv, OrderOK
    <3>2. Ordered(saved[e], b.pbuf, b.buf, n) /\ saved[e] \in Seq(Messages)
      BY <1>1, <1>3, <3>1 DEF InOrder, IInv, TypeOK
    <3>3. Ordered(saved'[e], r.pbuf, r.buf, n) /\ Bounded(e, n)'
      BY <1>2, <1>3, <1>5, <2>1, <3>1, <3>2, OrderedOps
    <3>4. OrderOK /\ UNCHANGED raced
      BY <1>2 DEF OInv
    <3> QED BY <1>3, <1>6, <2>1, <2>2, <3>3, <3>4, OrderOne
  <2> QED BY <2>3, <2>4
<1>11. CountOK'
  <2>1. ASSUME NEW m \in Messages PROVE InBarrels(m)' = InBarrels(m)
    <3>1. CASE EventOf[m] # e
      BY <1>6, <3>1, MessagesAssumption DEF InBarrels
    <3>2. CASE EventOf[m] = e
      <4>1. PICK cp, cq, cs : cp = Copies(b.pbuf, m) /\ cq = Copies(b.buf, m) /\ cs = Copies(r.pbuf, m)
        OBVIOUS
      <4>2. cp \in Nat /\ cq \in Nat /\ InBarrels(m) = cp + cq
        BY <1>1, <1>3, <3>2, <4>1, InBarrel
      <4>3. InBarrels(m)' = cs + Copies(<<>>, m)
        BY <1>5, <1>6, <3>2, <4>1, InBarrel
      <4>4. cs = cp + cq
        BY <1>3, <1>5, <4>1, CopiesConcat
      <4>5. Copies(<<>>, m) = 0
        BY CopiesZero
      <4> QED BY <4>2, <4>3, <4>4, <4>5
    <3> QED BY <3>1, <3>2
  <2>2. \A m \in Messages : Total(m)' = Total(m)
    BY <1>2, <2>1 DEF Total, Kept
  <2> QED BY <1>2, <1>81, <2>1, <2>2, CountKept DEF OInv
<1> QED BY <1>9, <1>10, <1>11 DEF OInv

LEMMA PersistOrder ==
  ASSUME IInv, OInv, NEW i \in Inserters, AnalysisFlush(i) \/ CacheCheck(i)
  PROVE  OInv'
<1>1. UNCHANGED <<next, imsg, icopy, garbageVars, dbVars, raced>>
  BY DEF AnalysisFlush, CacheCheck, histVars
<1>2. CASE AnalysisFlush(i)
  BY <1>1, <1>2, FlushOrder DEF AnalysisFlush, IGoto
<1>3. CASE CacheCheck(i)
  <2>1. ipc[i] = "cache" /\ ipc' = [ipc EXCEPT ![i] = "return"]
    BY <1>3 DEF CacheCheck, IGoto
  <2>2. CASE Persistence(EventOf[imsg[i]])
    BY <1>1, <2>1, <2>2, FlushOrder
  <2>3. CASE UNCHANGED <<barrels, barrelEvent>>
    <3>1. ipc'[i] = "return" /\ \A j \in Inserters : j # i => ipc'[j] = ipc[j]
      BY <2>1 DEF IInv, LocalsOK
    <3>2. ~Storing(i) /\ Busy(i) /\ ~Storing(i)' /\ Busy(i)'
      BY <2>1, <3>1, Places
    <3>3. UNCHANGED <<barrels, next, icopy, saved, garbage, garbageFile, garbageLost, raced>>
      BY <1>1, <2>3 DEF garbageVars, dbVars
    <3>4. \A j \in Inserters : j # i => /\ (Storing(j)' <=> Storing(j)) /\ (Busy(j)' <=> Busy(j))
                                        /\ ipc[j] \in {"ask", "lock"} => barrels[EventAt(j)] = NoBarrel \/ EventAt(j) \in raced
      BY <1>1, <3>1, OthersSame DEF OInv, OneOK
    <3> QED BY <1>1, <3>1, <3>2, <3>3, <3>4, Quiet
  <2> QED BY <1>3, <2>2, <2>3 DEF CacheCheck
<1> QED BY <1>2, <1>3

\* A handler saves a queue; what the database refuses goes to the garbage.
LEMMA PersistSaveOrder ==
  ASSUME IInv, OInv, NEW h \in Handlers, PersistSave(h)
  PROVE  OInv'
<1>0. PICK e : e = hevent[h].event
  OBVIOUS
<1>1. PICK b : b = barrels[e]
  OBVIOUS
<1> DEFINE r == [b EXCEPT !.pbuf = <<>>, !.need = FALSE]
<1>2. /\ hpc[h] = "save" /\ barrels' = [barrels EXCEPT ![e].pbuf = <<>>, ![e].need = FALSE]
      /\ UNCHANGED <<next, ipc, imsg, icopy, garbageFile, garbageLost, raced>>
  BY <1>0 DEF PersistSave, insVars, histVars
<1>3. /\ e \in Mapped /\ e \in Events /\ b # NoBarrel /\ b \in Barrel
      /\ b.buf \in Seq(Messages) /\ b.pbuf \in Seq(Messages)
  BY <1>0, <1>1, <1>2, Handling, Contents DEF Saving
<1>4. \/ garbage' = AddAll(garbage, b.pbuf) /\ UNCHANGED saved
      \/ saved' = [saved EXCEPT ![e] = saved[e] \o b.pbuf] /\ UNCHANGED garbage
  BY <1>0, <1>1 DEF PersistSave, Save
<1>5. /\ saved \in [Events -> Seq(Messages)] /\ garbage \in Bag
      /\ barrels \in [Events -> Barrel \cup {NoBarrel}]
  BY DEF IInv, TypeOK
<1>6. barrels'[e] = r /\ \A f \in Events : f # e => barrels'[f] = barrels[f]
  BY <1>1, <1>2, <1>3, <1>5
<1>7. r \in Barrel /\ r.buf = b.buf /\ r.pbuf = <<>>
  BY <1>3, EmptyOK DEF Barrel
<1> HIDE DEF r
<1>8. OneOK' /\ HomeOK'
  <2>1. ASSUME NEW i \in Inserters, Busy(i) PROVE EventAt(i) \in Events
    BY <2>1, Inserting DEF Busy, EventAt
  <2>2. \A f \in Events : barrels[f] = NoBarrel => barrels'[f] = NoBarrel
    BY <1>1, <1>3, <1>6
  <2>3. \A f \in Events : barrels'[f].buf = barrels[f].buf
    BY <1>1, <1>6, <1>7
  <2>4. \A i \in Inserters : /\ (ipc[i] \in {"ask", "lock", "append"} => Busy(i)) /\ (Busy(i)' <=> Busy(i))
                             /\ EventAt(i)' = EventAt(i)
    BY <1>2 DEF Busy, EventAt
  <2>5. OneOK'
    BY <1>2, <2>1, <2>2, <2>3, <2>4 DEF OInv, OneOK
  <2>6. OfEvent(r.pbuf, e) /\ OfEvent(r.buf, e) /\ HomeOK
    BY <1>1, <1>3, <1>7, EmptyOrder DEF OInv, HomeOK
  <2>7. HomeOK'
    BY <1>2, <1>3, <1>6, <2>6, HomeOne
  <2> QED BY <2>5, <2>7
<1>9. OrderOK'
  <2>1. \A f, n : Bounded(f, n) => Bounded(f, n)'
    <3>1. \A i \in Inserters : Storing(i)' <=> Storing(i)
      BY <1>2 DEF Storing
    <3> QED BY <1>2, <3>1, SameNext, BoundStays
  <2>2. \A f \in Events : f # e => barrels'[f] = barrels[f] /\ saved'[f] = saved[f]
    BY <1>4, <1>5, <1>6
  <2>3. CASE e \in raced
    BY <1>2, <1>3, <1>6, <2>1, <2>2, <2>3, OrderOne DEF OInv
  <2>4. CASE e \notin raced
    <3>1. PICK n : Bounded(e, n) /\ InOrder(e, n)
      BY <1>3, <2>4 DEF OInv, OrderOK
    <3>2. Ordered(saved[e], b.pbuf, b.buf, n) /\ saved[e] \in Seq(Messages)
      BY <1>1, <1>3, <1>5, <3>1 DEF InOrder
    <3>3. Ordered(saved[e] \o b.pbuf, <<>>, b.buf, n) /\ Ordered(saved[e], <<>>, b.buf, n)
      BY <1>3, <3>2, OrderedOps
    <3>4. saved'[e] = saved[e] \o b.pbuf \/ saved'[e] = saved[e]
      BY <1>3, <1>4, <1>5
    <3>5. Ordered(saved'[e], r.pbuf, r.buf, n) /\ Bounded(e, n)'
      BY <1>7, <2>1, <3>1, <3>3, <3>4
    <3>6. OrderOK /\ UNCHANGED raced
      BY <1>2 DEF OInv
    <3> QED BY <1>3, <1>6, <2>1, <2>2, <3>5, <3>6, OrderOne
  <2> QED BY <2>3, <2>4
<1>10. CountOK'
  <2>1. ASSUME NEW m \in Messages
        PROVE  Total(m)' = Total(m) /\ (InBarrels(m) = 0 => InBarrels(m)' = 0)
    <3>1. PICK cp, cq, cs : cp = Copies(b.pbuf, m) /\ cq = Copies(b.buf, m) /\ cs = Copies(saved[EventOf[m]], m)
      OBVIOUS
    <3>2. PICK g, gf, gl : g = garbage[m] /\ gf = garbageFile[m] /\ gl = garbageLost[m]
      OBVIOUS
    <3>3. /\ cp \in Nat /\ cq \in Nat /\ cs \in Nat /\ g \in Nat /\ gf \in Nat /\ gl \in Nat
          /\ InBarrels(m) \in Nat /\ EventOf[m] \in Events
      BY <1>3, <3>1, <3>2, Counts, CopiesNat
    <3>4. /\ Kept(m) = cs + g + gf + gl
          /\ Kept(m)' = Copies(saved'[EventOf[m]], m) + garbage'[m] + gf + gl
      BY <1>2, <3>1, <3>2 DEF Kept
    <3>5. Total(m) = InBarrels(m) + Kept(m) /\ Total(m)' = InBarrels(m)' + Kept(m)'
      BY DEF Total
    <3>6. CASE EventOf[m] # e
      <4>1. InBarrels(m)' = InBarrels(m) /\ saved'[EventOf[m]] = saved[EventOf[m]]
        BY <1>4, <1>5, <1>6, <3>3, <3>6 DEF InBarrels
      <4>2. cp = 0
        <5>1. OfEvent(b.pbuf, e)
          BY <1>1, <1>3 DEF OInv, HomeOK
        <5>2. \A k \in DOMAIN b.pbuf : b.pbuf[k] # m
          BY <3>6, <5>1 DEF OfEvent
        <5> QED BY <3>1, <5>2, CopiesZero
      <4>3. garbage'[m] = g \/ garbage'[m] = g + cp
        <5>1. CASE garbage' = AddAll(garbage, b.pbuf)
          <6>1. AddAll(garbage, b.pbuf)[m] = garbage[m] + Copies(b.pbuf, m)
            BY <1>3, <1>5, AddedAll
          <6> QED BY <3>1, <3>2, <5>1, <6>1
        <5>2. CASE UNCHANGED garbage
          BY <3>2, <5>2
        <5> QED BY <1>4, <5>1, <5>2
      <4>4. garbage'[m] = g
        BY <3>3, <4>2, <4>3
      <4>5. Kept(m)' = Kept(m)
        BY <3>1, <3>4, <4>1, <4>4
      <4> QED BY <3>5, <4>1, <4>5
    <3>7. CASE EventOf[m] = e
      <4>1. InBarrels(m) = cp + cq
        BY <1>1, <1>3, <3>1, <3>7, InBarrel
      <4>2. InBarrels(m)' = Copies(<<>>, m) + cq
        BY <1>6, <1>7, <3>1, <3>7, InBarrel
      <4>3. Copies(<<>>, m) = 0
        BY CopiesZero
      <4>4. Kept(m)' = cs + cp + g + gf + gl
        <5>1. CASE garbage' = AddAll(garbage, b.pbuf) /\ UNCHANGED saved
          <6>1. garbage'[m] = g + cp /\ Copies(saved'[EventOf[m]], m) = cs
            BY <1>3, <1>5, <3>1, <3>2, <5>1, AddedAll
          <6> QED BY <3>3, <3>4, <6>1
        <5>2. CASE saved' = [saved EXCEPT ![e] = saved[e] \o b.pbuf] /\ UNCHANGED garbage
          <6>1. saved'[EventOf[m]] = saved[EventOf[m]] \o b.pbuf /\ saved[EventOf[m]] \in Seq(Messages)
            BY <1>3, <1>5, <3>7, <5>2
          <6>2. Copies(saved'[EventOf[m]], m) = cs + cp
            BY <1>3, <3>1, <6>1, CopiesConcat
          <6>3. garbage'[m] = g
            BY <3>2, <5>2
          <6> QED BY <3>3, <3>4, <6>2, <6>3
        <5> QED BY <1>4, <5>1, <5>2
      <4>5. InBarrels(m)' = cq
        BY <3>3, <4>2, <4>3
      <4> QED BY <3>3, <3>4, <3>5, <4>1, <4>4, <4>5
    <3> QED BY <3>6, <3>7
  <2>2. \A i \in Inserters : /\ Storing(i)' <=> Storing(i)
                             /\ Busy(i)' <=> Busy(i)
    BY <1>2 DEF Storing, Busy
  <2> QED BY <1>2, <2>1, <2>2, CountKept DEF OInv
<1> QED BY <1>8, <1>9, <1>10 DEF OInv

LEMMA SaveGarbageOrder ==
  ASSUME IInv, OInv, SaveGarbage
  PROVE  OInv'
<1>1. /\ garbage' = NoMessages /\ UNCHANGED <<barrels, next, ipc, imsg, icopy, saved, raced>>
  BY DEF SaveGarbage, insVars, dbVars, histVars
<1>2. \/ garbageFile' = Merge(garbageFile, garbage) /\ UNCHANGED garbageLost
      \/ garbageLost' = Merge(garbageLost, garbage) /\ UNCHANGED garbageFile
  BY DEF SaveGarbage
<1>3. OneOK' /\ HomeOK'
  BY <1>1, HomeSame DEF OInv, OneOK, Busy, EventAt
<1>4. OrderOK'
  <2>1. \A i \in Inserters : Storing(i)' <=> Storing(i)
    BY <1>1 DEF Storing
  <2>2. \A f, n : Bounded(f, n) => Bounded(f, n)'
    BY <1>1, <2>1, SameNext, BoundStays
  <2> QED BY <1>1, <2>2, OrderSame DEF OInv
<1>5. CountOK'
  <2>1. ASSUME NEW m \in Messages PROVE Total(m)' = Total(m) /\ InBarrels(m)' = InBarrels(m)
    <3>1. PICK cs, g, gf, gl : /\ cs = Copies(saved[EventOf[m]], m)
                               /\ g = garbage[m] /\ gf = garbageFile[m] /\ gl = garbageLost[m]
      OBVIOUS
    <3>2. cs \in Nat /\ g \in Nat /\ gf \in Nat /\ gl \in Nat
      BY <3>1, Counts
    <3>3. Kept(m) = cs + g + gf + gl /\ Kept(m)' = cs + garbage'[m] + garbageFile'[m] + garbageLost'[m]
      BY <1>1, <3>1 DEF Kept
    <3>4. \/ garbageFile'[m] = gf + g /\ garbageLost'[m] = gl
          \/ garbageLost'[m] = gl + g /\ garbageFile'[m] = gf
      BY <1>2, <3>1, Merged DEF IInv, TypeOK
    <3>5. garbage'[m] = 0
      BY <1>1 DEF NoMessages
    <3>6. Kept(m)' = Kept(m)
      BY <3>2, <3>3, <3>4, <3>5
    <3> QED BY <1>1, <3>6 DEF Total, InBarrels
  <2>2. \A i \in Inserters : /\ Storing(i)' <=> Storing(i)
                             /\ Busy(i)' <=> Busy(i)
    BY <1>1 DEF Storing, Busy
  <2> QED BY <1>1, <2>1, <2>2, CountKept DEF OInv
<1> QED BY <1>3, <1>4, <1>5 DEF OInv

\* Barrels of the map are saved under the write lock and leave it or stay empty.
LEMMA SavedBarrels ==
  ASSUME IInv, OInv, NEW t, MayLock(t), UNCHANGED <<next, ipc, imsg, icopy, garbageFile, garbageLost, raced>>,
         NEW S \in SUBSET Mapped, NEW F \in SUBSET S, SaveBeforeGc(S, F),
         \A e \in Events : e \notin S => barrels'[e] = barrels[e],
         \A e \in S : \/ barrels'[e] = NoBarrel
                      \/ barrels'[e] \in Barrel /\ barrels'[e].buf = <<>> /\ barrels'[e].pbuf = <<>>
  PROVE  OInv'
<1>1. /\ \A e \in Events : saved'[e] = IF e \in S \ F THEN saved[e] \o Content(barrels[e]) ELSE saved[e]
      /\ \A m \in Messages : garbage'[m] = IF EventOf[m] \in F
                               THEN garbage[m] + Copies(Content(barrels[EventOf[m]]), m) ELSE garbage[m]
  BY SaveBeforeGcOK
<1>2. /\ saved \in [Events -> Seq(Messages)]
      /\ \A e \in S : /\ e \in Events /\ e \in Mapped /\ barrels[e] # NoBarrel /\ barrels[e] \in Barrel
                      /\ barrels[e].buf \in Seq(Messages) /\ barrels[e].pbuf \in Seq(Messages)
                      /\ Content(barrels[e]) \in Seq(Messages)
  BY Contents DEF IInv, TypeOK, Mapped
<1>3. OneOK' /\ HomeOK'
  <2>1. \A i \in Inserters : ipc[i] # "append"
    BY NobodyAtWork DEF Inside
  <2>2. ASSUME NEW i \in Inserters, ipc[i] \in {"ask", "lock"}, EventAt(i) \notin raced
        PROVE  barrels'[EventAt(i)] = NoBarrel
    <3>1. barrels[EventAt(i)] = NoBarrel /\ EventAt(i) \in Events
      BY <2>2, Inserting DEF OInv, OneOK, EventAt
    <3>2. EventAt(i) \notin S
      BY <1>2, <3>1
    <3> QED BY <3>1, <3>2
  <2>3. OneOK'
    BY <2>1, <2>2 DEF OInv, OneOK, Busy, EventAt
  <2>4. ASSUME NEW e \in Mapped' PROVE OfEvent(barrels'[e].pbuf, e) /\ OfEvent(barrels'[e].buf, e)
    <3>1. e \in Events /\ barrels'[e] # NoBarrel
      BY DEF Mapped
    <3>2. CASE e \in S
      BY <3>1, <3>2, EmptyOrder
    <3>3. CASE e \notin S
      <4>1. e \in Mapped /\ barrels'[e] = barrels[e]
        BY <3>1, <3>3 DEF Mapped
      <4> QED BY <4>1 DEF OInv, HomeOK
    <3> QED BY <3>2, <3>3
  <2> QED BY <2>1, <2>3, <2>4 DEF HomeOK
<1>4. OrderOK'
  <2>1. \A f, n : Bounded(f, n) => Bounded(f, n)'
    <3>1. \A i \in Inserters : Storing(i)' <=> Storing(i)
      BY DEF Storing
    <3> QED BY <3>1, SameNext, BoundStays
  <2> SUFFICES ASSUME NEW e \in Events \ raced PROVE \E n : Bounded(e, n)' /\ InOrder(e, n)'
    BY DEF OrderOK
  <2>2. PICK n : Bounded(e, n) /\ InOrder(e, n)
    BY DEF OInv, OrderOK
  <2>3. CASE e \in S
    <3>1. Ordered(saved[e], barrels[e].pbuf, barrels[e].buf, n) /\ saved[e] \in Seq(Messages)
      BY <1>2, <2>2, <2>3 DEF InOrder
    <3>2. Ordered(saved[e] \o (barrels[e].pbuf \o barrels[e].buf), <<>>, <<>>, n)
          /\ Ordered(saved[e], <<>>, <<>>, n)
      BY <1>2, <2>3, <3>1, OrderedOps
    <3>3. saved'[e] = saved[e] \o (barrels[e].pbuf \o barrels[e].buf) \/ saved'[e] = saved[e]
      BY <1>1, <1>2, <2>3 DEF Content
    <3>4. Ordered(saved'[e], <<>>, <<>>, n)
      BY <3>2, <3>3
    <3>5. e \in Mapped' => barrels'[e].pbuf = <<>> /\ barrels'[e].buf = <<>>
      BY <2>3 DEF Mapped
    <3>6. InOrder(e, n)'
      BY <3>4, <3>5 DEF InOrder, Ordered
    <3> QED BY <2>1, <2>2, <3>6
  <2>4. CASE e \notin S
    <3>1. barrels'[e] = barrels[e] /\ saved'[e] = saved[e] /\ (e \in Mapped' <=> e \in Mapped)
      BY <1>1, <2>4 DEF Mapped
    <3>2. InOrder(e, n)'
      BY <2>2, <3>1 DEF InOrder
    <3> QED BY <2>1, <2>2, <3>2
  <2> QED BY <2>3, <2>4
<1>5. CountOK'
  <2>1. ASSUME NEW m \in Messages
        PROVE  Total(m)' = Total(m) /\ (InBarrels(m) = 0 => InBarrels(m)' = 0)
    <3>1. PICK e : e = EventOf[m]
      OBVIOUS
    <3>2. PICK cs, g, gf, gl, c : /\ cs = Copies(saved[e], m)
                                  /\ g = garbage[m] /\ gf = garbageFile[m] /\ gl = garbageLost[m]
                                  /\ c = Copies(Content(barrels[e]), m)
      OBVIOUS
    <3>3. cs \in Nat /\ g \in Nat /\ gf \in Nat /\ gl \in Nat /\ e \in Events
      BY <3>1, <3>2, Counts
    <3>4. Kept(m) = cs + g + gf + gl /\ Kept(m)' = Copies(saved'[e], m) + garbage'[m] + gf + gl
      BY <3>1, <3>2 DEF Kept
    <3>5. Total(m) = InBarrels(m) + Kept(m) /\ Total(m)' = InBarrels(m)' + Kept(m)'
      BY DEF Total
    <3>6. CASE e \notin S
      <4>1. InBarrels(m)' = InBarrels(m)
        BY <3>1, <3>3, <3>6 DEF InBarrels
      <4>2. saved'[e] = saved[e] /\ garbage'[m] = garbage[m]
        BY <1>1, <3>1, <3>3, <3>6
      <4>3. Kept(m)' = Kept(m)
        BY <3>2, <3>4, <4>2
      <4> QED BY <3>5, <4>1, <4>3
    <3>7. CASE e \in S
      <4>1. InBarrels(m) = c /\ c \in Nat
        BY <1>2, <3>1, <3>2, <3>7, CopiesNat DEF InBarrels
      <4>2. InBarrels(m)' = 0
        <5>1. CASE barrels'[e] = NoBarrel
          BY <3>1, <5>1 DEF InBarrels
        <5>2. CASE barrels'[e] \in Barrel /\ barrels'[e].buf = <<>> /\ barrels'[e].pbuf = <<>>
          <6>1. InBarrels(m)' = Copies(<<>>, m) + Copies(<<>>, m)
            BY <3>1, <5>2, InBarrel
          <6>2. Copies(<<>>, m) = 0
            BY CopiesZero
          <6> QED BY <6>1, <6>2
        <5> QED BY <3>7, <5>1, <5>2
      <4>3. Kept(m)' = cs + c + g + gf + gl
        <5>1. CASE e \in F
          <6>1. saved'[e] = saved[e] /\ garbage'[m] = g + c
            BY <1>1, <3>1, <3>2, <3>3, <5>1
          <6> QED BY <3>2, <3>3, <3>4, <4>1, <6>1
        <5>2. CASE e \notin F
          <6>1. saved'[e] = saved[e] \o Content(barrels[e]) /\ garbage'[m] = g
            BY <1>1, <3>1, <3>2, <3>3, <3>7, <5>2
          <6>2. Copies(saved'[e], m) = cs + c
            BY <1>2, <3>2, <3>3, <3>7, <6>1, CopiesConcat
          <6> QED BY <3>3, <3>4, <4>1, <6>1, <6>2
        <5> QED BY <5>1, <5>2
      <4> QED BY <3>3, <3>4, <3>5, <4>1, <4>2, <4>3
    <3> QED BY <3>6, <3>7
  <2>2. \A i \in Inserters : /\ Storing(i)' <=> Storing(i)
                             /\ Busy(i)' <=> Busy(i)
    BY DEF Storing, Busy
  <2> QED BY <2>1, <2>2, CountKept DEF OInv
<1> QED BY <1>3, <1>4, <1>5 DEF OInv

LEMMA GcRunOrder ==
  ASSUME IInv, OInv, NEW S \in SUBSET Mapped, GcRun(S)
  PROVE  OInv'
<1>1. /\ MayLock(Gc) /\ barrels' = [e \in Events |-> IF e \in S THEN NoBarrel ELSE barrels[e]]
      /\ UNCHANGED <<next, ipc, imsg, icopy, garbageFile, garbageLost, raced>>
  BY DEF GcRun, LockUnlock, insVars, histVars
<1>2. PICK F \in SUBSET S : SaveBeforeGc(S, F)
  BY DEF GcRun
<1>3. (\A e \in Events : e \notin S => barrels'[e] = barrels[e]) /\ \A e \in S : barrels'[e] = NoBarrel
  BY <1>1 DEF Mapped
<1> QED BY <1>1, <1>2, <1>3, SavedBarrels

LEMMA StopSaveOrder ==
  ASSUME IInv, OInv, StopSave
  PROVE  OInv'
<1>0. PICK S : S = Mapped
  OBVIOUS
<1>1. /\ MayLock(Stopper)
      /\ barrels' = [e \in Events |-> IF e \in S THEN Emptied(barrels[e]) ELSE NoBarrel]
      /\ UNCHANGED <<next, ipc, imsg, icopy, garbageFile, garbageLost, raced>>
  BY <1>0 DEF StopSave, LockUnlock, insVars, histVars, Emptied
<1>2. PICK F \in SUBSET S : SaveBeforeGc(S, F)
  BY <1>0 DEF StopSave
<1>3. \A e \in Events : e \notin S => barrels'[e] = barrels[e]
  BY <1>0, <1>1 DEF Mapped
<1>4. ASSUME NEW e \in S PROVE barrels'[e] \in Barrel /\ barrels'[e].buf = <<>> /\ barrels'[e].pbuf = <<>>
  <2>1. e \in Events /\ barrels[e] \in Barrel
    BY <1>0 DEF Mapped, IInv, TypeOK
  <2>2. barrels'[e] = Emptied(barrels[e])
    BY <1>1, <2>1
  <2> QED BY <2>1, <2>2, EmptiedOK
<1> QED BY <1>0, <1>1, <1>2, <1>3, <1>4, SavedBarrels

LEMMA NextOInv == IInv /\ OInv /\ [Next]_vars => OInv'
<1> SUFFICES ASSUME IInv, OInv, [Next]_vars PROVE OInv'
  OBVIOUS
<1>1. CASE \E i \in Inserters : Receive(i) \/ Insert(i)
  BY <1>1, ReceiveOrder, ReceiverQuiet, NewBarrelOrder, InsertBeginOrder, InsertAppendOrder,
     PersistOrder DEF Insert
<1>2. CASE \E h \in Handlers : Handle(h) \/ HandlerExit(h)
  BY <1>2, HandlersQuiet, PersistSaveOrder DEF Handle
<1>3. CASE SaveGarbage \/ StopSave
  BY <1>3, SaveGarbageOrder, StopSaveOrder
<1>4. CASE GcTick \/ Stop \/ Exit \/ UNCHANGED vars
  BY <1>4, OthersQuiet
<1>5. CASE \E S \in SUBSET Mapped : GcRun(S)
  BY <1>5, GcRunOrder
<1> QED BY <1>1, <1>2, <1>3, <1>4, <1>5 DEF Next

\* The database gets the messages of an event in the order in which they came in,
\* whoever of any number of handlers, the collector and stop saves them, and whatever
\* saves the database refuses; unless two goroutines of handleReceiveMessage had
\* messages of that event at the same time.
THEOREM SavesInOrder == Spec => []SavedInOrder
<1>1. OInv => SavedInOrder
  BY DEF OInv, OrderOK, InOrder, Chain, Older, SavedInOrder
<1> QED BY <1>1, NextOInv, InitIInv, NextIInv, InitOInv, PTL DEF Spec

\* A message whose InsertMessage has returned is in one place, its barrel, the database
\* or the garbage, and there once, for any number of receivers and handlers and any
\* sizes; unless two receivers had messages of its event at the same time: then
\* BarrelAlone is violated and both may create the barrel.
THEOREM StoresOnce == Spec => []StoredOnce
<1>1. ASSUME IInv, OInv PROVE StoredOnce
  <2> SUFFICES ASSUME NEW m \in handled, EventOf[m] \notin raced
               PROVE  InBarrels(m) + Kept(m) =
                        IF StepOf[m] = "progress" /\ m \notin Unparsable THEN Kept(m) ELSE 1
    BY DEF StoredOnce
  <2>1. m \in Messages /\ m \in Seen
    BY <1>1 DEF IInv, TypeOK, FlightOK
  <2>2. Placed(m)
    <3>1. \A i \in Inserters : Storing(i) => Busy(i)
      BY DEF Storing, Busy
    <3> QED BY <1>1, <2>1, <3>1 DEF Placed, IInv, FlightOK
  <2>3. IF Progress(m) THEN InBarrels(m) = 0 ELSE Total(m) = 1
    BY <1>1, <2>1, <2>2 DEF OInv, CountOK
  <2>4. Kept(m) \in Nat
    BY <1>1, <2>1, Counts
  <2> QED BY <2>3, <2>4 DEF Progress, Total
<1> QED BY <1>1, NextOInv, InitIInv, NextIInv, InitOInv, PTL DEF Spec

=============================================================================
