--------------------------- MODULE LiveLogsProofs ---------------------------
(***************************************************************************)
(* Proofs about LiveLogs, for any number of events, sessions, barrels,     *)
(* connections and messages and any capacity of the channels.              *)
(***************************************************************************)
EXTENDS LiveLogs, TLAPS

\* The holder of the lock works on a barrel and an event; a message that is
\* inserted has a number.
BusyOK ==
  /\ lock # Free => busy.b \in Barrels /\ busy.e \in Events
  /\ lock = Inserter => numbered # 0

\* A connection that was made has its session, event and barrel, and an open one
\* its channel; only such a connection fills a channel or is released.
ConnOK ==
  \A c \in Conns :
    /\ conn[c].pc # "none" =>
         conn[c].s \in Sessions /\ conn[c].e \in Events /\ conn[c].b \in Barrels
    /\ conn[c].pc = "open" => conn[c].ch \in Conns
    /\ closer[c] # "none" => conn[c].pc # "none"
    /\ closer[c] \in {"release", "delete"} => conn[c].pc = "left"
    /\ push[c].pc # "none" => conn[c].pc \in {"open", "left"}
    /\ lock = <<c, "subscribe">> => conn[c].pc = "subscribing"
    /\ lock = <<c, "release">> => closer[c] = "delete"

\* The collector has a barrel for every event it still has to visit; the one it
\* is at is not one of them.
GcOK ==
  /\ \A e \in gc.ids : barrels[e] # None
  /\ gc.e \notin gc.ids
  /\ gc.pc = "idle" => gc.e = None
  /\ gc.pc \in {"put", "delete"} => gc.e \in Events /\ gc.b \in Barrels

\* A channel is registered once, at the barrel and for the session of the
\* connection it was made for, after it was filled; it is open until then and
\* as long as it is registered.
SubsOK ==
  /\ \A b \in Barrels, s \in Sessions :
       LET c == barrel[b].subs[s]
       IN  c # 0 => /\ push[c].pc = "done" /\ chan[c].open
                    /\ conn[c].b = b /\ conn[c].s = s
  /\ \A c \in Conns : push[c].pc # "done" => chan[c].open

\* The channel that is being filled holds the lock of its barrel.
FillOK ==
  \A c \in Conns :
    /\ push[c].pc = "push" => subLock[conn[c].b] = c
    /\ push[c].pc \in {"none", "start"} => chan[c].put = <<>>

Sorted(s) == \A i, j \in DOMAIN s : i < j => s[i][2] <= s[j][2]
UpTo(s, n) == \A i \in DOMAIN s : s[i][2] <= n
Before(s, t) == \A i \in DOMAIN s, j \in DOMAIN t : s[i][2] <= t[j][2]

\* Barrels and channels have their messages in order, and what is still to be
\* sent to a channel comes after what was.
OrderOK ==
  /\ \A b \in Barrels : Sorted(barrel[b].msgs) /\ UpTo(barrel[b].msgs, numbered)
  /\ \A c \in Conns :
       /\ Sorted(chan[c].put) /\ UpTo(chan[c].put, numbered)
       /\ push[c].pc = "push" =>
            /\ Sorted(push[c].todo) /\ UpTo(push[c].todo, numbered)
            /\ Before(chan[c].put, push[c].todo)

\* The message of a barrel that is about to be offered
Offer(b) == IF lock = Inserter /\ busy.b = b THEN {<<busy.e, numbered>>} ELSE {}

\* While a channel is being filled, the messages of its barrel are in it or on
\* their way to it.
GapOK ==
  \A c \in Conns : push[c].pc = "push" =>
    ToSet(barrel[conn[c].b].msgs) \subseteq
      ToSet(chan[c].put) \cup ToSet(push[c].todo) \cup Offer(conn[c].b)

IInv == TypeOK /\ BusyOK /\ ConnOK /\ GcOK /\ SubsOK /\ FillOK /\ OrderOK /\ GapOK /\ NoGap

BarrelRec == [msgs : Seq(Message), subs : [Sessions -> 0 .. MaxConns], old : BOOLEAN]
ChanRec == [open : BOOLEAN, put : Seq(Message), read : Nat, dropped : SUBSET Message]
ConnRec == [pc : {"none", "subscribing", "open", "left"}, s : Some(Sessions), e : Some(Events),
            b : Some(Barrels), ch : 0 .. MaxConns]
PushRec == [pc : {"none", "start", "push", "done"}, todo : Seq(Message)]

-----------------------------------------------------------------------------
\* Messages and sequences of messages

LEMMA Numbers ==
  /\ \A m \in Message : m[1] \in Events /\ m[2] \in Nat
  /\ \A e \in Events, n \in 1 .. MaxMessages : <<e, n>> \in Message /\ <<e, n>>[2] = n
BY LiveLogsAssumption DEF Message

\* What a barrel has for a session is a connection, or nothing.
LEMMA SubsAreConns ==
  ASSUME TypeOK
  PROVE  \A a \in Barrels, s \in Sessions : barrel[a].subs[s] # 0 => barrel[a].subs[s] \in Conns
<1> SUFFICES ASSUME NEW a \in Barrels, NEW s \in Sessions, barrel[a].subs[s] # 0
             PROVE  barrel[a].subs[s] \in Conns
  OBVIOUS
<1>1. barrel[a].subs \in [Sessions -> 0 .. MaxConns]
  BY DEF TypeOK
<1>2. barrel[a].subs[s] \in 0 .. MaxConns
  BY <1>1
<1> QED BY <1>2, LiveLogsAssumption DEF Conns

\* SubsOK and NoGap, one subscription at a time.
LEMMA SubsFacts ==
  ASSUME IInv, NEW a \in Barrels, NEW s \in Sessions, barrel[a].subs[s] # 0
  PROVE  /\ barrel[a].subs[s] \in Conns
         /\ push[barrel[a].subs[s]].pc = "done" /\ chan[barrel[a].subs[s]].open
         /\ conn[barrel[a].subs[s]].b = a /\ conn[barrel[a].subs[s]].s = s
         /\ ToSet(barrel[a].msgs) \ (ToSet(chan[barrel[a].subs[s]].put) \cup chan[barrel[a].subs[s]].dropped)
              \subseteq Offer(a)
<1>1. barrel[a].subs[s] \in Conns
  BY SubsAreConns DEF IInv
<1>2. /\ push[barrel[a].subs[s]].pc = "done" /\ chan[barrel[a].subs[s]].open
      /\ conn[barrel[a].subs[s]].b = a /\ conn[barrel[a].subs[s]].s = s
  BY DEF IInv, SubsOK
<1>3. ToSet(barrel[a].msgs) \ (ToSet(chan[barrel[a].subs[s]].put) \cup chan[barrel[a].subs[s]].dropped)
        \subseteq Offer(a)
  BY Zenon DEF IInv, NoGap, Offer
<1> QED BY <1>1, <1>2, <1>3

LEMMA EmptyInOrder ==
  ASSUME NEW n \in Nat
  PROVE  /\ Sorted(<<>>) /\ UpTo(<<>>, n)
         /\ \A s : Before(s, <<>>) /\ Before(<<>>, s)
BY DEF Sorted, UpTo, Before

\* A message that is not older than the others goes to the end.
LEMMA AppendInOrder ==
  ASSUME NEW s \in Seq(Message), NEW m \in Message, NEW n \in Nat,
         Sorted(s), UpTo(s, m[2]), m[2] <= n
  PROVE  Append(s, m) \in Seq(Message) /\ Sorted(Append(s, m)) /\ UpTo(Append(s, m), n)
<1> DEFINE t == Append(s, m)
<1>1. /\ Len(s) \in Nat /\ DOMAIN s = 1 .. Len(s) /\ DOMAIN t = 1 .. Len(s) + 1
      /\ t[Len(s) + 1] = m /\ \A i \in DOMAIN s : t[i] = s[i]
      /\ t \in Seq(Message)
  OBVIOUS
<1>2. \A i \in DOMAIN s : s[i] \in Message /\ s[i][2] \in Nat
  BY <1>1, Numbers
<1>3. m[2] \in Nat
  BY Numbers
<1>4. \A i \in DOMAIN t : i \in DOMAIN s \/ i = Len(s) + 1
  BY <1>1
<1> HIDE DEF t
<1>5. Sorted(t)
  <2> SUFFICES ASSUME NEW i \in DOMAIN t, NEW j \in DOMAIN t, i < j PROVE t[i][2] <= t[j][2]
    BY DEF Sorted
  <2>1. i \in DOMAIN s
    BY <1>1, <1>4
  <2>2. CASE j \in DOMAIN s
    BY <1>1, <2>1, <2>2 DEF Sorted
  <2>3. CASE j = Len(s) + 1
    BY <1>1, <2>1, <2>3 DEF UpTo
  <2> QED BY <1>4, <2>2, <2>3
<1>6. UpTo(t, n)
  <2> SUFFICES ASSUME NEW i \in DOMAIN t PROVE t[i][2] <= n
    BY DEF UpTo
  <2>1. CASE i \in DOMAIN s
    <3>1. t[i] = s[i] /\ s[i][2] <= m[2]
      BY <1>1, <2>1 DEF UpTo
    <3> QED BY <1>2, <1>3, <2>1, <3>1
  <2>2. CASE i = Len(s) + 1
    BY <1>1, <2>2
  <2> QED BY <1>4, <2>1, <2>2
<1> QED BY <1>1, <1>5, <1>6 DEF t

LEMMA UpToMore ==
  ASSUME NEW s \in Seq(Message), NEW n \in Nat, NEW k \in Nat, n <= k, UpTo(s, n)
  PROVE  UpTo(s, k)
<1>1. \A i \in DOMAIN s : s[i] \in Message
  OBVIOUS
<1> QED BY <1>1, Numbers DEF UpTo

\* The first message of t goes to the end of s.
LEMMA MoveInOrder ==
  ASSUME NEW s \in Seq(Message), NEW t \in Seq(Message), NEW n \in Nat, t # <<>>,
         Sorted(s), Sorted(t), UpTo(t, n), Before(s, t)
  PROVE  /\ Head(t) \in Message /\ Tail(t) \in Seq(Message)
         /\ Append(s, Head(t)) \in Seq(Message)
         /\ Sorted(Append(s, Head(t))) /\ UpTo(Append(s, Head(t)), n)
         /\ Sorted(Tail(t)) /\ UpTo(Tail(t), n) /\ Before(Append(s, Head(t)), Tail(t))
<1> DEFINE r == Tail(t)
           p == Append(s, Head(t))
<1>1. /\ Len(t) \in Nat /\ DOMAIN t = 1 .. Len(t) /\ 1 \in DOMAIN t /\ Head(t) = t[1]
      /\ Head(t) \in Message /\ r \in Seq(Message)
      /\ DOMAIN r = 1 .. Len(t) - 1 /\ \A i \in DOMAIN r : r[i] = t[i + 1]
  OBVIOUS
<1>2. \A i \in DOMAIN r : i + 1 \in DOMAIN t /\ 1 < i + 1 /\ i \in Nat
  BY <1>1
<1>3. UpTo(s, Head(t)[2]) /\ Head(t)[2] <= n
  BY <1>1 DEF Before, UpTo
<1>4. p \in Seq(Message) /\ Sorted(p) /\ UpTo(p, n) /\ UpTo(p, Head(t)[2])
  <2>1. Head(t)[2] \in Nat
    BY <1>1, Numbers
  <2> QED BY <1>1, <1>3, <2>1, AppendInOrder
<1> HIDE DEF r, p
<1>5. Sorted(r)
  <2> SUFFICES ASSUME NEW i \in DOMAIN r, NEW j \in DOMAIN r, i < j PROVE r[i][2] <= r[j][2]
    BY DEF Sorted
  <2>1. t[i + 1][2] <= t[j + 1][2]
    BY <1>2 DEF Sorted
  <2> QED BY <1>1, <2>1
<1>6. UpTo(r, n)
  BY <1>1, <1>2 DEF UpTo
<1>7. \A j \in DOMAIN r : Head(t)[2] <= r[j][2]
  BY <1>1, <1>2 DEF Sorted
<1>8. \A i \in DOMAIN p : p[i] \in Message
  BY <1>4
<1>9. Before(p, r)
  <2> SUFFICES ASSUME NEW i \in DOMAIN p, NEW j \in DOMAIN r PROVE p[i][2] <= r[j][2]
    BY DEF Before
  <2>1. p[i][2] \in Nat /\ Head(t)[2] \in Nat /\ r[j][2] \in Nat
    BY <1>1, <1>8, Numbers
  <2>2. p[i][2] <= Head(t)[2] /\ Head(t)[2] <= r[j][2]
    BY <1>4, <1>7 DEF UpTo
  <2> QED BY <2>1, <2>2
<1> QED BY <1>1, <1>4, <1>5, <1>6, <1>9 DEF r, p

\* What a sequence holds after its ends were changed.
LEMMA Held ==
  ASSUME NEW s \in Seq(Message), NEW m \in Message
  PROVE  /\ ToSet(Append(s, m)) = ToSet(s) \cup {m}
         /\ s # <<>> => ToSet(s) = {Head(s)} \cup ToSet(Tail(s))
         /\ ToSet(<<>>) = {}
<1>1. ToSet(Append(s, m)) = ToSet(s) \cup {m}
  <2>1. /\ Len(s) \in Nat /\ DOMAIN s = 1 .. Len(s) /\ DOMAIN Append(s, m) = 1 .. Len(s) + 1
        /\ Append(s, m)[Len(s) + 1] = m /\ \A i \in DOMAIN s : Append(s, m)[i] = s[i]
    OBVIOUS
  <2>2. \A i \in DOMAIN Append(s, m) : i \in DOMAIN s \/ i = Len(s) + 1
    BY <2>1
  <2>3. DOMAIN s \subseteq DOMAIN Append(s, m) /\ Len(s) + 1 \in DOMAIN Append(s, m)
    BY <2>1
  <2> QED BY <2>1, <2>2, <2>3 DEF ToSet
<1>2. ASSUME s # <<>> PROVE ToSet(s) = {Head(s)} \cup ToSet(Tail(s))
  <2>1. /\ Len(s) \in Nat /\ DOMAIN s = 1 .. Len(s) /\ 1 \in DOMAIN s /\ Head(s) = s[1]
        /\ DOMAIN Tail(s) = 1 .. Len(s) - 1 /\ \A i \in DOMAIN Tail(s) : Tail(s)[i] = s[i + 1]
    BY <1>2
  <2>2. \A i \in DOMAIN Tail(s) : i + 1 \in DOMAIN s
    BY <2>1
  <2>3. \A i \in DOMAIN s : i # 1 => i - 1 \in DOMAIN Tail(s) /\ Tail(s)[i - 1] = s[i]
    BY <2>1
  <2> QED BY <2>1, <2>2, <2>3 DEF ToSet
<1>3. ToSet(<<>>) = {}
  BY DEF ToSet
<1> QED BY <1>1, <1>2, <1>3

-----------------------------------------------------------------------------
\* The steps.  Each lemma shows that the whole invariant is preserved.

LEMMA InitOK == Init => IInv
<1> SUFFICES ASSUME Init PROVE IInv
  OBVIOUS
<1> USE LiveLogsAssumption DEF Init
<1>1. TypeOK
  BY DEF TypeOK, Some, Free, Inserter, Conns
<1>2. BusyOK /\ ConnOK /\ GcOK
  BY DEF BusyOK, ConnOK, GcOK, Free, Inserter, Conns
<1>3. SubsOK /\ FillOK /\ GapOK
  BY DEF SubsOK, FillOK, GapOK, Conns
<1>4. OrderOK
  BY EmptyInOrder DEF OrderOK
<1>5. NoGap
  BY DEF NoGap
<1> QED BY <1>1, <1>2, <1>3, <1>4, <1>5 DEF IInv

\* A barrel that was not in the map comes from the pool.
LEMMA BarrelGot ==
  ASSUME TypeOK, NEW e \in Events, NEW b \in Barrels, GetBarrel(e, b)
  PROVE  pool' \subseteq Barrels
BY DEF GetBarrel, TypeOK

LEMMA InsertMessageStep ==
  ASSUME IInv, NEW e \in Events, InsertMessage(e)
  PROVE  IInv'
<1> DEFINE m == <<e, numbered + 1>>
<1>1. PICK b \in Barrels :
        /\ GetBarrel(e, b) /\ Locked(Inserter, b, e)
        /\ barrel' = [barrel EXCEPT ![b].msgs = Append(@, <<e, numbered + 1>>), ![b].old = FALSE]
  BY DEF InsertMessage
<1>2. /\ numbered \in Nat /\ numbered' = numbered + 1 /\ numbered + 1 \in 1 .. MaxMessages
      /\ m \in Message /\ m[2] = numbered + 1
  <2>1. numbered \in 0 .. MaxMessages /\ numbered < MaxMessages /\ numbered' = numbered + 1
    BY DEF IInv, TypeOK, InsertMessage
  <2>2. numbered \in Nat /\ numbered + 1 \in 1 .. MaxMessages
    BY <2>1, LiveLogsAssumption
  <2> QED BY <2>1, <2>2, Numbers
<1> HIDE DEF m
<1>3. /\ lock = Free /\ lock' = Inserter /\ busy'.b = b /\ busy'.e = e
      /\ busy' \in [b : Some(Barrels), new : BOOLEAN, e : Some(Events)]
      /\ Free # Inserter /\ \A c \in Conns, x \in {"subscribe", "release"} : <<c, x>> # Inserter
      /\ b # None
  BY <1>1, LiveLogsAssumption DEF Locked, Some, Free, Inserter, Conns
<1>4. /\ barrel' \in [Barrels -> BarrelRec]
      /\ barrel'[b].msgs = Append(barrel[b].msgs, m) /\ barrel[b].msgs \in Seq(Message)
      /\ \A a \in Barrels : barrel'[a].subs = barrel[a].subs
      /\ \A a \in Barrels : a # b => barrel'[a] = barrel[a]
  <2>1. barrel \in [Barrels -> BarrelRec] /\ barrel[b] \in BarrelRec
    BY DEF IInv, TypeOK, BarrelRec
  <2>2. /\ barrel' = [barrel EXCEPT ![b] = barrel'[b]]
        /\ barrel'[b] = [barrel[b] EXCEPT !.msgs = Append(barrel[b].msgs, m), !.old = FALSE]
    BY <1>1, <2>1 DEF m
  <2>3. barrel[b].msgs \in Seq(Message) /\ Append(barrel[b].msgs, m) \in Seq(Message)
    BY <1>2, <2>1 DEF BarrelRec
  <2>4. /\ barrel'[b] \in BarrelRec /\ barrel'[b].msgs = Append(barrel[b].msgs, m)
        /\ barrel'[b].subs = barrel[b].subs
    BY <2>1, <2>2, <2>3 DEF BarrelRec
  <2> QED BY <2>1, <2>2, <2>3, <2>4
<1>5. UNCHANGED <<barrels, subLock, chan, push, conn, closer, chans, gc>>
  BY DEF InsertMessage, subVars, sessionVars
<1>6. pool' \subseteq Barrels
  BY <1>1, BarrelGot DEF IInv
<1>7. TypeOK'
  BY <1>2, <1>3, <1>4, <1>5, <1>6 DEF IInv, TypeOK, BarrelRec
<1>8. BusyOK' /\ ConnOK' /\ GcOK' /\ FillOK'
  BY <1>2, <1>3, <1>5 DEF IInv, BusyOK, ConnOK, GcOK, FillOK
<1>9. SubsOK'
  BY <1>4, <1>5 DEF IInv, SubsOK
<1>10. OrderOK'
  <2>1. \A a \in Barrels : Sorted(barrel'[a].msgs) /\ UpTo(barrel'[a].msgs, numbered')
    <3> TAKE a \in Barrels
    <3>1. /\ barrel[a].msgs \in Seq(Message) /\ Sorted(barrel[a].msgs)
          /\ UpTo(barrel[a].msgs, numbered)
      BY DEF IInv, TypeOK, OrderOK
    <3>2. UpTo(barrel[a].msgs, numbered + 1)
      BY <1>2, <3>1, UpToMore
    <3>3. CASE a = b
      <4>1. UpTo(barrel[a].msgs, m[2]) /\ m[2] <= numbered + 1 /\ numbered + 1 \in Nat
        BY <1>2, <3>2
      <4>2. Sorted(Append(barrel[a].msgs, m)) /\ UpTo(Append(barrel[a].msgs, m), numbered + 1)
        BY <1>2, <3>1, <4>1, AppendInOrder
      <4> QED BY <1>2, <1>4, <3>3, <4>2
    <3>4. CASE a # b
      BY <1>2, <1>4, <3>1, <3>2, <3>4
    <3> QED BY <3>3, <3>4
  <2>2. ASSUME NEW c \in Conns
        PROVE  /\ Sorted(chan'[c].put) /\ UpTo(chan'[c].put, numbered')
               /\ push'[c].pc = "push" =>
                    /\ Sorted(push'[c].todo) /\ UpTo(push'[c].todo, numbered')
                    /\ Before(chan'[c].put, push'[c].todo)
    <3>1. chan[c].put \in Seq(Message) /\ push[c].todo \in Seq(Message)
      BY DEF IInv, TypeOK
    <3>2. UpTo(chan[c].put, numbered + 1)
      BY <1>2, <3>1, UpToMore DEF IInv, OrderOK
    <3>3. push[c].pc = "push" => UpTo(push[c].todo, numbered + 1)
      BY <1>2, <3>1, UpToMore DEF IInv, OrderOK
    <3> QED BY <1>2, <1>5, <3>2, <3>3 DEF IInv, OrderOK
  <2> QED BY <2>1, <2>2 DEF OrderOK
<1>11. /\ ToSet(barrel'[b].msgs) = ToSet(barrel[b].msgs) \cup {m} /\ Offer(b)' = {m} /\ Offer(b) = {}
       /\ \A a \in Barrels : a # b => Offer(a)' = {} /\ Offer(a) = {}
  <2>1. ToSet(barrel'[b].msgs) = ToSet(barrel[b].msgs) \cup {m}
    BY <1>2, <1>4, Held
  <2>2. <<busy'.e, numbered'>> = m
    BY <1>2, <1>3 DEF m
  <2> QED BY <1>3, <2>1, <2>2 DEF Offer
<1>12. GapOK'
  <2> SUFFICES ASSUME NEW c \in Conns, push[c].pc = "push", NEW a \in Barrels, a = conn[c].b
               PROVE  ToSet(barrel'[a].msgs) \subseteq
                        ToSet(chan[c].put) \cup ToSet(push[c].todo) \cup Offer(a)'
    BY <1>5 DEF GapOK, IInv, ConnOK, Offer
  <2>2. ToSet(barrel[a].msgs) \subseteq
          ToSet(chan[c].put) \cup ToSet(push[c].todo) \cup Offer(a)
    BY DEF IInv, GapOK
  <2> QED BY <1>4, <1>11, <2>2
<1>13. NoGap'
  <2> SUFFICES ASSUME NEW a \in Barrels, NEW s \in Sessions, barrel[a].subs[s] # 0
               PROVE  ToSet(barrel'[a].msgs) \ (ToSet(chan[barrel[a].subs[s]].put)
                                                \cup chan[barrel[a].subs[s]].dropped) \subseteq Offer(a)'
    BY <1>4, <1>5 DEF NoGap, Offer
  <2>1. ToSet(barrel[a].msgs) \ (ToSet(chan[barrel[a].subs[s]].put)
                                 \cup chan[barrel[a].subs[s]].dropped) \subseteq Offer(a)
    BY DEF IInv, NoGap, Offer
  <2> QED BY <1>4, <1>11, <2>1
<1> QED BY <1>7, <1>8, <1>9, <1>10, <1>12, <1>13 DEF IInv

\* The message that was inserted is offered to the subscriptions of its barrel.
LEMMA insertMessageStep ==
  ASSUME IInv, insertMessage
  PROVE  IInv'
<1> DEFINE b == busy.b
           m == <<busy.e, numbered>>
           subs == {barrel[b].subs[s] : s \in Sessions} \ {0}
<1>1. /\ lock = Inserter /\ subLock[b] = 0 /\ b \in Barrels /\ busy.e \in Events
      /\ numbered \in Nat /\ numbered \in 1 .. MaxMessages /\ m \in Message /\ m[2] = numbered
  <2>1. lock = Inserter /\ subLock[b] = 0 /\ Inserter # Free
    BY DEF insertMessage, Free, Inserter
  <2>2. b \in Barrels /\ busy.e \in Events /\ numbered # 0 /\ numbered \in 0 .. MaxMessages
    BY <2>1 DEF IInv, BusyOK, TypeOK
  <2>3. numbered \in Nat /\ numbered \in 1 .. MaxMessages
    BY <2>2, LiveLogsAssumption
  <2> QED BY <2>1, <2>2, <2>3, Numbers
<1>2. /\ chan' = [c \in Conns |-> CASE c \in subs /\ ~Full(c) -> Put(c, m)
                                   [] c \in subs /\ Full(c)  -> [chan[c] EXCEPT !.dropped = @ \cup {m}]
                                   [] OTHER                  -> chan[c]]
      /\ barrels' = IF busy.new THEN [barrels EXCEPT ![busy.e] = b] ELSE barrels
      /\ lock' = Free /\ busy' = [b |-> None, new |-> FALSE, e |-> None]
      /\ UNCHANGED <<pool, barrel, subLock, numbered, push, conn, closer, chans, gc>>
  BY DEF insertMessage, Unlock, sessionVars
<1>0. UNCHANGED <<pool, barrel, subLock, numbered, push, conn, closer, chans, gc>>
  BY <1>2
<1>3. \A c \in subs : c \in Conns /\ \E s \in Sessions : c = barrel[b].subs[s]
  BY <1>1 DEF IInv, TypeOK, Conns
<1> HIDE DEF b, m, subs
<1>4. ASSUME NEW c \in Conns
      PROVE  /\ chan'[c] \in ChanRec /\ chan'[c].open = chan[c].open
             /\ chan'[c] = chan[c] \/ c \in subs
             /\ chan'[c].put = chan[c].put \/ chan'[c].put = Append(chan[c].put, m)
             /\ ToSet(chan[c].put) \subseteq ToSet(chan'[c].put) /\ chan[c].dropped \subseteq chan'[c].dropped
             /\ c \in subs => m \in ToSet(chan'[c].put) \cup chan'[c].dropped
  <2>1. chan[c] \in ChanRec /\ chan[c].put \in Seq(Message)
    BY DEF IInv, TypeOK, ChanRec
  <2>2. CASE c \in subs /\ ~Full(c)
    <3>1. chan'[c] = [chan[c] EXCEPT !.put = Append(@, m)]
      BY <1>2, <2>2 DEF Put
    <3>2. Append(chan[c].put, m) \in Seq(Message) /\ ToSet(Append(chan[c].put, m)) = ToSet(chan[c].put) \cup {m}
      BY <1>1, <2>1, Held
    <3>3. /\ chan'[c] \in ChanRec /\ chan'[c].open = chan[c].open /\ chan'[c].dropped = chan[c].dropped
          /\ chan'[c].put = Append(chan[c].put, m)
      BY <2>1, <3>1, <3>2 DEF ChanRec
    <3> QED BY <2>2, <3>2, <3>3
  <2>3. CASE c \in subs /\ Full(c)
    <3>1. chan'[c] = [chan[c] EXCEPT !.dropped = @ \cup {m}]
      BY <1>2, <2>3
    <3>2. /\ chan'[c] \in ChanRec /\ chan'[c].open = chan[c].open /\ chan'[c].put = chan[c].put
          /\ chan'[c].dropped = chan[c].dropped \cup {m}
      BY <1>1, <2>1, <3>1 DEF ChanRec
    <3> QED BY <2>3, <3>2
  <2>4. CASE c \notin subs
    <3>1. chan'[c] = chan[c]
      BY <1>2, <2>4
    <3> QED BY <2>1, <2>4, <3>1
  <2> QED BY <2>2, <2>3, <2>4
<1>5. chan' \in [Conns -> ChanRec]
  BY <1>2, <1>4
<1>6. barrels' \in [Events -> Some(Barrels)] /\ \A e \in Events : barrels[e] # None => barrels'[e] # None
  BY <1>1, <1>2, LiveLogsAssumption DEF IInv, TypeOK, Some, b
<1>7. Free # Inserter /\ \A c \in Conns, x \in {"subscribe", "release"} : <<c, x>> # Free
  BY DEF Free, Inserter, Conns
<1>8. TypeOK'
  BY <1>2, <1>5, <1>6 DEF IInv, TypeOK, Some, ChanRec
<1>9. BusyOK' /\ ConnOK' /\ GcOK'
  <2>1. BusyOK' /\ ConnOK'
    BY <1>2, <1>7 DEF IInv, BusyOK, ConnOK
  <2>2. GcOK'
    BY <1>2, <1>6 DEF IInv, GcOK, TypeOK
  <2> QED BY <2>1, <2>2
<1>10. ASSUME NEW c \in subs
       PROVE  c \in Conns /\ push[c].pc = "done" /\ conn[c].b = b
  <2>1. PICK s \in Sessions : c = barrel[b].subs[s]
    BY <1>3
  <2>2. c # 0
    BY DEF subs
  <2> QED BY <1>1, <1>3, <2>1, <2>2 DEF IInv, SubsOK
<1>11. SubsOK' /\ FillOK'
  <2>1. \A a \in Barrels, s \in Sessions : barrel[a].subs[s] # 0 => barrel[a].subs[s] \in Conns
    BY DEF IInv, TypeOK, Conns
  <2>2. SubsOK'
    <3>1. \A c \in Conns : chan'[c].open = chan[c].open
      BY <1>4
    <3> QED BY <1>0, <2>1, <3>1 DEF IInv, SubsOK
  <2>3. FillOK'
    <3> SUFFICES ASSUME NEW c \in Conns
                 PROVE  /\ push[c].pc = "push" => subLock[conn[c].b] = c
                        /\ push[c].pc \in {"none", "start"} => chan'[c].put = <<>>
      BY <1>2 DEF FillOK
    <3>1. push[c].pc \in {"none", "start"} => chan'[c] = chan[c]
      BY <1>4, <1>10
    <3> QED BY <3>1 DEF IInv, FillOK
  <2> QED BY <2>2, <2>3
<1>12. OrderOK'
  <2>1. ASSUME NEW c \in Conns
        PROVE  /\ Sorted(chan'[c].put) /\ UpTo(chan'[c].put, numbered)
               /\ push[c].pc = "push" =>
                    /\ Sorted(push[c].todo) /\ UpTo(push[c].todo, numbered)
                    /\ Before(chan'[c].put, push[c].todo)
    <3>1. chan[c].put \in Seq(Message) /\ Sorted(chan[c].put) /\ UpTo(chan[c].put, numbered)
      BY DEF IInv, TypeOK, OrderOK
    <3>2. Sorted(Append(chan[c].put, m)) /\ UpTo(Append(chan[c].put, m), numbered)
      <4>1. UpTo(chan[c].put, m[2]) /\ m[2] <= numbered
        BY <1>1, <3>1
      <4> QED BY <1>1, <3>1, <4>1, AppendInOrder
    <3>3. Sorted(chan'[c].put) /\ UpTo(chan'[c].put, numbered)
      BY <1>4, <3>1, <3>2
    <3>4. push[c].pc = "push" => chan'[c] = chan[c]
      BY <1>4, <1>10
    <3> QED BY <3>3, <3>4 DEF IInv, OrderOK
  <2> QED BY <1>2, <2>1 DEF IInv, OrderOK
<1>13. \A a \in Barrels : (a # b => Offer(a) = {}) /\ Offer(a)' = {} /\ Offer(b) = {m}
  BY <1>1, <1>2, <1>7 DEF Offer, b, m
<1>14. GapOK'
  <2> SUFFICES ASSUME NEW c \in Conns, push[c].pc = "push", NEW a \in Barrels, a = conn[c].b
               PROVE  ToSet(barrel[a].msgs) \subseteq ToSet(chan'[c].put) \cup ToSet(push[c].todo) \cup Offer(a)'
    BY <1>0 DEF GapOK, IInv, ConnOK, Offer
  <2>1. ToSet(barrel[a].msgs) \subseteq ToSet(chan[c].put) \cup ToSet(push[c].todo) \cup Offer(a)
    BY DEF IInv, GapOK
  <2>2. subLock[a] = c /\ c # 0
    BY DEF IInv, FillOK, Conns
  <2>3. a # b
    BY <1>1, <2>2
  <2> QED BY <1>4, <1>13, <2>1, <2>3
<1>15. NoGap'
  <2> SUFFICES ASSUME NEW a \in Barrels, NEW s \in Sessions, NEW c \in Conns, c = barrel[a].subs[s]
               PROVE  ToSet(barrel[a].msgs) \ (ToSet(chan'[c].put) \cup chan'[c].dropped) \subseteq Offer(a)'
    <3>1. \A a \in Barrels, s \in Sessions : barrel[a].subs[s] # 0 => barrel[a].subs[s] \in Conns
      BY DEF IInv, TypeOK, Conns
    <3> QED BY <1>0, <3>1 DEF NoGap, Offer
  <2>1. c # 0
    BY DEF Conns
  <2>2. ToSet(barrel[a].msgs) \ (ToSet(chan[c].put) \cup chan[c].dropped) \subseteq Offer(a)
    BY <2>1 DEF IInv, NoGap, Offer
  <2>3. CASE a = b
    <3>1. c \in subs
      BY <2>1, <2>3 DEF subs
    <3> QED BY <1>4, <1>13, <2>2, <2>3, <3>1
  <2>4. CASE a # b
    BY <1>4, <1>13, <2>2, <2>4
  <2> QED BY <2>3, <2>4
<1> QED BY <1>8, <1>9, <1>11, <1>12, <1>14, <1>15 DEF IInv

\* Everything else that the store, the collector and the sessions do leaves the
\* messages where they are: subscriptions only go away, and a channel that is
\* closed is not registered any more.
LEMMA SameMessages ==
  ASSUME IInv, UNCHANGED <<numbered, subLock>>,
         \A b \in Barrels :
           /\ barrel'[b].msgs \in {<<>>, barrel[b].msgs}
           /\ \A s \in Sessions : barrel'[b].subs[s] \in {0, barrel[b].subs[s]},
         \A c \in Conns :
           /\ chan'[c].put = chan[c].put /\ chan'[c].dropped = chan[c].dropped
           /\ \/ chan'[c].open = chan[c].open
              \/ push[c].pc = "done" /\ \A b \in Barrels, s \in Sessions : barrel'[b].subs[s] # c
           /\ push'[c] = push[c] \/ (push[c].pc = "none" /\ push'[c].pc = "start")
           /\ push[c].pc # "none" => conn'[c].b = conn[c].b /\ conn'[c].s = conn[c].s,
         (lock = Inserter) <=> (lock' = Inserter), lock = Inserter => UNCHANGED busy
  PROVE  SubsOK' /\ FillOK' /\ OrderOK' /\ GapOK' /\ NoGap'
<1>1. \A b \in Barrels, s \in Sessions :
        barrel'[b].subs[s] # 0 => /\ barrel'[b].subs[s] = barrel[b].subs[s]
                                  /\ barrel[b].subs[s] \in Conns
  BY DEF IInv, TypeOK, Conns
<1>2. SubsOK'
  BY <1>1 DEF IInv, SubsOK
<1>3. FillOK'
  BY DEF IInv, FillOK
<1>4. OrderOK'
  <2>1. numbered \in Nat
    BY LiveLogsAssumption DEF IInv, TypeOK
  <2> QED BY <2>1, EmptyInOrder DEF IInv, OrderOK
<1>5. \A a : Offer(a)' = Offer(a)
  BY DEF Offer
<1>6. \A b \in Barrels : ToSet(barrel'[b].msgs) \subseteq ToSet(barrel[b].msgs)
  BY DEF ToSet
<1>7. GapOK'
  <2> SUFFICES ASSUME NEW c \in Conns, push'[c].pc = "push"
               PROVE  ToSet(barrel'[conn'[c].b].msgs) \subseteq
                        ToSet(chan'[c].put) \cup ToSet(push'[c].todo) \cup
                        IF lock' = Inserter /\ busy'.b = conn'[c].b
                        THEN {<<busy'.e, numbered'>>} ELSE {}
    BY Zenon DEF GapOK, Offer
  <2>1. /\ push[c].pc = "push" /\ push'[c] = push[c]
        /\ conn'[c].b = conn[c].b /\ chan'[c].put = chan[c].put
    OBVIOUS
  <2>2. conn[c].b \in Barrels
    BY <2>1 DEF IInv, ConnOK
  <2> DEFINE a == conn[c].b
  <2>3. ToSet(barrel'[a].msgs) \subseteq ToSet(chan[c].put) \cup ToSet(push[c].todo) \cup Offer(a)
    BY <1>6, <2>1, <2>2 DEF IInv, GapOK
  <2>4. (IF lock' = Inserter /\ busy'.b = a THEN {<<busy'.e, numbered'>>} ELSE {}) = Offer(a)
    BY DEF Offer
  <2> HIDE DEF a
  <2> QED BY <2>1, <2>3, <2>4 DEF a
<1>8. NoGap'
  <2> SUFFICES ASSUME NEW a \in Barrels, NEW s \in Sessions, NEW c \in Conns, c = barrel[a].subs[s]
               PROVE  ToSet(barrel'[a].msgs) \ (ToSet(chan[c].put) \cup chan[c].dropped) \subseteq Offer(a)
    BY <1>1, <1>5 DEF NoGap, Offer
  <2>1. c # 0
    BY DEF Conns
  <2>2. ToSet(barrel[a].msgs) \ (ToSet(chan[c].put) \cup chan[c].dropped) \subseteq Offer(a)
    BY <2>1 DEF IInv, NoGap, Offer
  <2> QED BY <1>6, <2>2
<1> QED BY <1>2, <1>3, <1>4, <1>7, <1>8

\* Who holds the lock is told by its name.
LEMMA Holders ==
  /\ Free # Inserter
  /\ \A c \in Conns, x \in {"subscribe", "release"} : <<c, x>> # Free /\ <<c, x>> # Inserter
  /\ \A c, d \in Conns, x, y \in {"subscribe", "release"} : <<c, x>> = <<d, y>> => c = d /\ x = y
  /\ \A c \in Conns : c # 0 /\ c \in 0 .. MaxConns
BY LiveLogsAssumption DEF Free, Inserter, Conns

LEMMA SubChanStep ==
  ASSUME IInv, NEW c \in Conns, NEW s \in Sessions, NEW e \in Events, SubChan(c, s, e)
  PROVE  IInv'
<1>1. PICK b \in Barrels :
        /\ GetBarrel(e, b) /\ Locked(<<c, "subscribe">>, b, e)
        /\ barrels' = [barrels EXCEPT ![e] = b]
        /\ barrel' = IF barrels[e] = None THEN [barrel EXCEPT ![b].old = FALSE] ELSE barrel
        /\ conn' = [conn EXCEPT ![c] = [pc |-> "subscribing", s |-> s, e |-> e, b |-> b, ch |-> 0]]
  BY DEF SubChan
<1>2. UNCHANGED <<subLock, numbered, chan, push, closer, chans, gc>> /\ conn[c].pc = "none"
  BY DEF SubChan, subVars
<1>3. /\ lock = Free /\ lock' = <<c, "subscribe">> /\ busy'.b = b /\ busy'.e = e /\ b # None
      /\ busy' \in [b : Some(Barrels), new : BOOLEAN, e : Some(Events)]
  BY <1>1, LiveLogsAssumption DEF Locked, Some
<1>4. /\ conn' \in [Conns -> ConnRec] /\ \A d \in Conns : d # c => conn'[d] = conn[d]
      /\ conn'[c].pc = "subscribing" /\ conn'[c].s = s /\ conn'[c].e = e /\ conn'[c].b = b
  <2>1. [pc |-> "subscribing", s |-> s, e |-> e, b |-> b, ch |-> 0] \in ConnRec
    BY LiveLogsAssumption DEF ConnRec, Some
  <2>2. conn \in [Conns -> ConnRec]
    BY DEF IInv, TypeOK, ConnRec
  <2> QED BY <1>1, <2>1, <2>2
<1>5. /\ barrel' \in [Barrels -> BarrelRec]
      /\ \A a \in Barrels : barrel'[a].msgs = barrel[a].msgs /\ barrel'[a].subs = barrel[a].subs
  <2>1. barrel \in [Barrels -> BarrelRec] /\ barrel[b] \in BarrelRec
    BY DEF IInv, TypeOK, BarrelRec
  <2> QED BY <1>1, <2>1 DEF BarrelRec
<1>6. barrels' \in [Events -> Some(Barrels)] /\ \A f \in Events : barrels[f] # None => barrels'[f] # None
  BY <1>1, <1>3 DEF IInv, TypeOK, Some
<1>7. TypeOK'
  <2>1. pool' \subseteq Barrels
    BY <1>1, BarrelGot DEF IInv
  <2> QED BY <1>2, <1>3, <1>4, <1>5, <1>6, <2>1, Holders DEF IInv, TypeOK, BarrelRec, ConnRec
<1>8. BusyOK' /\ GcOK'
  <2>1. BusyOK'
    BY <1>3, Holders DEF BusyOK
  <2>2. GcOK'
    BY <1>2, <1>6 DEF IInv, GcOK, TypeOK
  <2> QED BY <2>1, <2>2
<1>9. push[c].pc = "none" /\ closer[c] = "none"
  BY <1>2 DEF IInv, ConnOK
<1>10. ConnOK'
  <2> SUFFICES ASSUME NEW d \in Conns
               PROVE  /\ conn'[d].pc # "none" =>
                           conn'[d].s \in Sessions /\ conn'[d].e \in Events /\ conn'[d].b \in Barrels
                      /\ conn'[d].pc = "open" => conn'[d].ch \in Conns
                      /\ closer[d] # "none" => conn'[d].pc # "none"
                      /\ closer[d] \in {"release", "delete"} => conn'[d].pc = "left"
                      /\ push[d].pc # "none" => conn'[d].pc \in {"open", "left"}
                      /\ lock' = <<d, "subscribe">> => conn'[d].pc = "subscribing"
                      /\ lock' = <<d, "release">> => closer[d] = "delete"
    BY <1>2 DEF ConnOK
  <2>1. CASE d = c
    BY <1>3, <1>4, <1>9, <2>1, Holders
  <2>2. CASE d # c
    BY <1>3, <1>4, <2>2, Holders DEF IInv, ConnOK
  <2> QED BY <2>1, <2>2
<1>11. SubsOK' /\ FillOK' /\ OrderOK' /\ GapOK' /\ NoGap'
  BY <1>2, <1>3, <1>4, <1>5, <1>9, SameMessages, Holders
<1> QED BY <1>7, <1>8, <1>10, <1>11 DEF IInv

LEMMA addSubChanStep ==
  ASSUME IInv, NEW c \in Conns, addSubChan(c)
  PROVE  IInv'
<1> DEFINE old == barrel[busy.b].subs[conn[c].s]
           ch == IF old = 0 THEN c ELSE old
<1>1. /\ lock = <<c, "subscribe">> /\ lock # Free /\ conn[c].pc = "subscribing"
      /\ busy.b \in Barrels /\ conn[c].s \in Sessions /\ conn[c].e \in Events
  BY Holders DEF addSubChan, IInv, ConnOK, BusyOK
<1>2. /\ conn' = [conn EXCEPT ![c].pc = "open", ![c].ch = ch]
      /\ push' = IF old = 0 THEN [push EXCEPT ![c].pc = "start"] ELSE push
      /\ chans' = [chans EXCEPT ![conn[c].s][conn[c].e] = c]
      /\ lock' = Free /\ busy' = [b |-> None, new |-> FALSE, e |-> None]
      /\ UNCHANGED <<barrels, pool, barrel, subLock, numbered, chan, closer, gc>>
  BY DEF addSubChan, Unlock
<1>3. ch \in Conns
  BY <1>1 DEF IInv, TypeOK, Conns
<1> HIDE DEF old, ch
<1>4. /\ conn' \in [Conns -> ConnRec] /\ \A d \in Conns : d # c => conn'[d] = conn[d]
      /\ conn'[c].pc = "open" /\ conn'[c].ch = ch
      /\ conn'[c].s = conn[c].s /\ conn'[c].e = conn[c].e /\ conn'[c].b = conn[c].b
  <2>1. conn \in [Conns -> ConnRec] /\ conn[c] \in ConnRec /\ ch \in 0 .. MaxConns
    BY <1>3, Holders DEF IInv, TypeOK, ConnRec
  <2>2. conn' = [conn EXCEPT ![c] = conn'[c]] /\ conn'[c] = [conn[c] EXCEPT !.pc = "open", !.ch = ch]
    BY <1>2, <2>1
  <2>3. /\ conn'[c] \in ConnRec /\ conn'[c].pc = "open" /\ conn'[c].ch = ch
        /\ conn'[c].s = conn[c].s /\ conn'[c].e = conn[c].e /\ conn'[c].b = conn[c].b
    BY <2>1, <2>2 DEF ConnRec
  <2> QED BY <2>1, <2>2, <2>3
<1>5. push[c].pc = "none"
  BY <1>1 DEF IInv, ConnOK, TypeOK
<1>6. /\ push' \in [Conns -> PushRec] /\ \A d \in Conns : d # c => push'[d] = push[d]
      /\ push'[c] = push[c] \/ push'[c].pc = "start"
  <2>1. push \in [Conns -> PushRec] /\ push[c] \in PushRec
    BY DEF IInv, TypeOK, PushRec
  <2>2. [push[c] EXCEPT !.pc = "start"] \in PushRec /\ [push[c] EXCEPT !.pc = "start"].pc = "start"
    BY <2>1 DEF PushRec
  <2>3. push' = push \/ push' = [push EXCEPT ![c] = [push[c] EXCEPT !.pc = "start"]]
    BY <1>2, <2>1
  <2> QED BY <2>1, <2>2, <2>3
<1>7. chans' \in [Sessions -> [Events -> 0 .. MaxConns]]
  BY <1>1, <1>2, Holders DEF IInv, TypeOK
<1>8. TypeOK'
  BY <1>2, <1>4, <1>6, <1>7 DEF IInv, TypeOK, ConnRec, PushRec, Some
<1>9. BusyOK' /\ GcOK'
  BY <1>2, Holders DEF IInv, BusyOK, GcOK
<1>10. ConnOK'
  <2> SUFFICES ASSUME NEW d \in Conns
               PROVE  /\ conn'[d].pc # "none" =>
                           conn'[d].s \in Sessions /\ conn'[d].e \in Events /\ conn'[d].b \in Barrels
                      /\ conn'[d].pc = "open" => conn'[d].ch \in Conns
                      /\ closer[d] # "none" => conn'[d].pc # "none"
                      /\ closer[d] \in {"release", "delete"} => conn'[d].pc = "left"
                      /\ push'[d].pc # "none" => conn'[d].pc \in {"open", "left"}
    BY <1>2, Holders DEF ConnOK
  <2>1. CASE d = c
    BY <1>1, <1>3, <1>4, <2>1 DEF IInv, ConnOK
  <2>2. CASE d # c
    BY <1>4, <1>6, <2>2 DEF IInv, ConnOK
  <2> QED BY <2>1, <2>2
<1>11. SubsOK' /\ FillOK' /\ OrderOK' /\ GapOK' /\ NoGap'
  BY <1>1, <1>2, <1>4, <1>5, <1>6, SameMessages, Holders
<1> QED BY <1>8, <1>9, <1>10, <1>11 DEF IInv

\* The goroutine that fills a channel copies the cache of its barrel ...
LEMMA pushBeginStep ==
  ASSUME IInv, NEW c \in Conns, pushBegin(c)
  PROVE  IInv'
<1> DEFINE b == conn[c].b
<1>1. /\ push[c].pc = "start" /\ subLock[b] = 0 /\ subLock' = [subLock EXCEPT ![b] = c]
      /\ push' = [push EXCEPT ![c] = [pc |-> "push", todo |-> barrel[b].msgs]]
      /\ UNCHANGED <<barrels, pool, barrel, lock, busy, numbered, chan, conn, closer, chans, gc>>
  BY DEF pushBegin, sessionVars
<1>2. /\ conn[c].pc \in {"open", "left"} /\ b \in Barrels /\ barrel[b].msgs \in Seq(Message)
      /\ chan[c].put = <<>>
  <2>1. conn[c].pc \in {"open", "left"} /\ b \in Barrels /\ chan[c].put = <<>>
    BY <1>1 DEF IInv, ConnOK, FillOK
  <2> QED BY <2>1 DEF IInv, TypeOK
<1> HIDE DEF b
<1>3. /\ push' \in [Conns -> PushRec] /\ push'[c].pc = "push" /\ push'[c].todo = barrel[b].msgs
      /\ \A d \in Conns : d # c => push'[d] = push[d]
  <2>1. [pc |-> "push", todo |-> barrel[b].msgs] \in PushRec
    BY <1>2 DEF PushRec
  <2> QED BY <1>1, <2>1 DEF IInv, TypeOK, PushRec
<1>4. /\ subLock' \in [Barrels -> 0 .. MaxConns] /\ subLock'[b] = c
      /\ \A a \in Barrels : a # b => subLock'[a] = subLock[a]
  BY <1>1, <1>2, Holders DEF IInv, TypeOK
<1>5. TypeOK'
  BY <1>1, <1>3, <1>4 DEF IInv, TypeOK, PushRec
<1>6. BusyOK' /\ GcOK' /\ ConnOK'
  <2>1. BusyOK' /\ GcOK'
    BY <1>1 DEF IInv, BusyOK, GcOK
  <2>2. \A d \in Conns : push'[d].pc # "none" => conn[d].pc \in {"open", "left"}
    BY <1>2, <1>3 DEF IInv, ConnOK
  <2> QED BY <1>1, <2>1, <2>2 DEF IInv, ConnOK
<1>7. SubsOK'
  <2>1. barrel' = barrel /\ chan' = chan /\ conn' = conn /\ push[c].pc # "done" /\ chan[c].open
    BY <1>1 DEF IInv, SubsOK
  <2>2. ASSUME NEW a \in Barrels, NEW s \in Sessions, barrel[a].subs[s] # 0
        PROVE  /\ push'[barrel[a].subs[s]].pc = "done" /\ chan[barrel[a].subs[s]].open
               /\ conn[barrel[a].subs[s]].b = a /\ conn[barrel[a].subs[s]].s = s
    <3>1. barrel[a].subs[s] \in Conns
      BY <2>2, SubsAreConns DEF IInv
    <3>2. /\ push[barrel[a].subs[s]].pc = "done" /\ chan[barrel[a].subs[s]].open
          /\ conn[barrel[a].subs[s]].b = a /\ conn[barrel[a].subs[s]].s = s
      BY <2>2 DEF IInv, SubsOK
    <3> QED BY <1>3, <2>1, <3>1, <3>2
  <2>3. \A d \in Conns : push'[d].pc # "done" => chan[d].open
    BY <1>3, <2>1 DEF IInv, SubsOK
  <2>4. /\ \A a \in Barrels, s \in Sessions : barrel'[a].subs[s] # 0 =>
             /\ push'[barrel'[a].subs[s]].pc = "done" /\ chan'[barrel'[a].subs[s]].open
             /\ conn'[barrel'[a].subs[s]].b = a /\ conn'[barrel'[a].subs[s]].s = s
        /\ \A d \in Conns : push'[d].pc # "done" => chan'[d].open
    BY <2>1, <2>2, <2>3
  <2> QED BY <2>4, Zenon DEF SubsOK
<1>8. FillOK'
  <2> SUFFICES ASSUME NEW d \in Conns
               PROVE  /\ push'[d].pc = "push" => subLock'[conn[d].b] = d
                      /\ push'[d].pc \in {"none", "start"} => chan[d].put = <<>>
    BY <1>1 DEF FillOK
  <2>1. CASE d = c
    BY <1>3, <1>4, <2>1 DEF b
  <2>2. CASE d # c
    <3>1. push[d].pc = "push" => subLock[conn[d].b] = d /\ conn[d].b \in Barrels /\ d # 0
      BY Holders DEF IInv, FillOK, ConnOK
    <3>2. push[d].pc = "push" => conn[d].b # b
      BY <1>1, <3>1
    <3> QED BY <1>3, <1>4, <2>2, <3>1, <3>2 DEF IInv, FillOK
  <2> QED BY <2>1, <2>2
<1>9. OrderOK'
  <2>1. Sorted(barrel[b].msgs) /\ UpTo(barrel[b].msgs, numbered) /\ numbered \in Nat
    BY <1>2, LiveLogsAssumption DEF IInv, OrderOK, TypeOK
  <2>2. Before(chan[c].put, barrel[b].msgs)
    BY <1>2, <2>1, EmptyInOrder
  <2>3. \A d \in Conns : push'[d].pc = "push" =>
          /\ Sorted(push'[d].todo) /\ UpTo(push'[d].todo, numbered)
          /\ Before(chan[d].put, push'[d].todo)
    BY <1>3, <2>1, <2>2 DEF IInv, OrderOK
  <2> QED BY <1>1, <2>3 DEF IInv, OrderOK
<1>10. GapOK'
  <2> SUFFICES ASSUME NEW d \in Conns, push'[d].pc = "push"
               PROVE  ToSet(barrel[conn[d].b].msgs) \subseteq
                        ToSet(chan[d].put) \cup ToSet(push'[d].todo) \cup Offer(conn[d].b)
    BY <1>1 DEF GapOK, Offer
  <2>1. CASE d = c
    BY <1>3, <2>1 DEF b
  <2>2. CASE d # c
    BY <1>3, <2>2 DEF IInv, GapOK
  <2> QED BY <2>1, <2>2
<1>11. NoGap'
  BY <1>1 DEF IInv, NoGap
<1> QED BY <1>5, <1>6, <1>7, <1>8, <1>9, <1>10, <1>11 DEF IInv

\* ... sends a message of it ...
LEMMA pushOneStep ==
  ASSUME IInv, NEW c \in Conns, pushOne(c)
  PROVE  IInv'
<1> DEFINE m == Head(push[c].todo)
           put == Append(chan[c].put, m)
           todo == Tail(push[c].todo)
<1>1. /\ push[c].pc = "push" /\ push[c].todo # <<>>
      /\ chan' = [chan EXCEPT ![c] = [chan[c] EXCEPT !.put = put]]
      /\ push' = [push EXCEPT ![c].todo = todo]
      /\ UNCHANGED <<barrels, pool, barrel, lock, busy, subLock, numbered, conn, closer, chans, gc>>
  BY DEF pushOne, Put, storeVars, sessionVars
<1>2. /\ chan \in [Conns -> ChanRec] /\ chan[c] \in ChanRec /\ chan[c].put \in Seq(Message)
      /\ push \in [Conns -> PushRec] /\ push[c] \in PushRec /\ push[c].todo \in Seq(Message)
      /\ numbered \in Nat
  BY LiveLogsAssumption DEF IInv, TypeOK, ChanRec, PushRec
<1>3. /\ m \in Message /\ todo \in Seq(Message) /\ put \in Seq(Message)
      /\ Sorted(put) /\ UpTo(put, numbered)
      /\ Sorted(todo) /\ UpTo(todo, numbered) /\ Before(put, todo)
  <2>1. /\ Sorted(chan[c].put) /\ Sorted(push[c].todo) /\ UpTo(push[c].todo, numbered)
        /\ Before(chan[c].put, push[c].todo)
    BY <1>1 DEF IInv, OrderOK
  <2> QED BY <1>1, <1>2, <2>1, MoveInOrder
<1>4. /\ ToSet(put) = ToSet(chan[c].put) \cup {m}
      /\ ToSet(push[c].todo) = {m} \cup ToSet(todo)
  BY <1>1, <1>2, <1>3, Held
<1> HIDE DEF m, put, todo
<1>5. /\ chan' \in [Conns -> ChanRec] /\ chan'[c].put = put /\ chan'[c].open = chan[c].open
      /\ chan'[c].dropped = chan[c].dropped
      /\ \A d \in Conns : d # c => chan'[d] = chan[d]
  <2>1. /\ [chan[c] EXCEPT !.put = put] \in ChanRec /\ [chan[c] EXCEPT !.put = put].put = put
        /\ [chan[c] EXCEPT !.put = put].open = chan[c].open
        /\ [chan[c] EXCEPT !.put = put].dropped = chan[c].dropped
    BY <1>2, <1>3 DEF ChanRec
  <2> QED BY <1>1, <1>2, <2>1
<1>6. /\ push' \in [Conns -> PushRec] /\ push'[c].pc = "push" /\ push'[c].todo = todo
      /\ \A d \in Conns : d # c => push'[d] = push[d]
  <2>1. push'[c] = [push[c] EXCEPT !.todo = todo] /\ push' = [push EXCEPT ![c] = push'[c]]
    BY <1>1, <1>2
  <2>2. push'[c] \in PushRec /\ push'[c].pc = "push" /\ push'[c].todo = todo
    BY <1>1, <1>2, <1>3, <2>1 DEF PushRec
  <2> QED BY <1>2, <2>1, <2>2
<1>7. \A d \in Conns : push'[d].pc = push[d].pc /\ chan'[d].open = chan[d].open
  BY <1>1, <1>5, <1>6
<1>8. TypeOK'
  BY <1>1, <1>5, <1>6 DEF IInv, TypeOK, ChanRec, PushRec
<1>9. BusyOK' /\ GcOK' /\ ConnOK'
  BY <1>1, <1>7 DEF IInv, BusyOK, GcOK, ConnOK
<1>10. \A a \in Barrels, s \in Sessions :
         barrel[a].subs[s] # 0 => barrel[a].subs[s] \in Conns /\ barrel[a].subs[s] # c
  <2>1. push[c].pc # "done"
    BY <1>1
  <2> QED BY <2>1, SubsFacts
<1>11. SubsOK'
  <2>1. barrel' = barrel /\ conn' = conn
    BY <1>1
  <2>2. \A d \in Conns : push[d].pc # "done" => chan[d].open
    BY DEF IInv, SubsOK
  <2>3. /\ \A a \in Barrels, s \in Sessions : barrel'[a].subs[s] # 0 =>
             /\ push'[barrel'[a].subs[s]].pc = "done" /\ chan'[barrel'[a].subs[s]].open
             /\ conn'[barrel'[a].subs[s]].b = a /\ conn'[barrel'[a].subs[s]].s = s
        /\ \A d \in Conns : push'[d].pc # "done" => chan'[d].open
    <3>1. ASSUME NEW a \in Barrels, NEW s \in Sessions, barrel[a].subs[s] # 0
          PROVE  /\ push'[barrel[a].subs[s]].pc = "done" /\ chan'[barrel[a].subs[s]].open
                 /\ conn[barrel[a].subs[s]].b = a /\ conn[barrel[a].subs[s]].s = s
      <4>1. /\ barrel[a].subs[s] \in Conns
            /\ push[barrel[a].subs[s]].pc = "done" /\ chan[barrel[a].subs[s]].open
            /\ conn[barrel[a].subs[s]].b = a /\ conn[barrel[a].subs[s]].s = s
        BY <3>1, SubsFacts
      <4> QED BY <1>7, <4>1
    <3>2. \A d \in Conns : push'[d].pc # "done" => chan'[d].open
      BY <1>7, <2>2
    <3> QED BY <2>1, <3>1, <3>2
  <2> QED BY <2>3, Zenon DEF SubsOK
<1>12. FillOK'
  BY <1>1, <1>5, <1>7 DEF IInv, FillOK
<1>13. OrderOK'
  <2> SUFFICES ASSUME NEW d \in Conns
               PROVE  /\ Sorted(chan'[d].put) /\ UpTo(chan'[d].put, numbered)
                      /\ push'[d].pc = "push" =>
                           /\ Sorted(push'[d].todo) /\ UpTo(push'[d].todo, numbered)
                           /\ Before(chan'[d].put, push'[d].todo)
    BY <1>1 DEF IInv, OrderOK
  <2>1. CASE d = c
    BY <1>3, <1>5, <1>6, <2>1
  <2>2. CASE d # c
    BY <1>5, <1>6, <2>2 DEF IInv, OrderOK
  <2> QED BY <2>1, <2>2
<1>14. GapOK'
  <2> SUFFICES ASSUME NEW d \in Conns, push[d].pc = "push"
               PROVE  ToSet(barrel[conn[d].b].msgs) \subseteq
                        ToSet(chan'[d].put) \cup ToSet(push'[d].todo) \cup Offer(conn[d].b)
    BY <1>1, <1>7 DEF GapOK, Offer
  <2>1. ToSet(barrel[conn[d].b].msgs) \subseteq
          ToSet(chan[d].put) \cup ToSet(push[d].todo) \cup Offer(conn[d].b)
    BY DEF IInv, GapOK
  <2>2. CASE d = c
    BY <1>4, <1>5, <1>6, <2>1, <2>2
  <2>3. CASE d # c
    BY <1>5, <1>6, <2>1, <2>3
  <2> QED BY <2>2, <2>3
<1>15. NoGap'
  <2>1. barrel' = barrel /\ \A a : Offer(a)' = Offer(a)
    BY <1>1 DEF Offer
  <2>2. \A a \in Barrels, s \in Sessions : barrel'[a].subs[s] # 0 =>
          ToSet(barrel'[a].msgs) \ (ToSet(chan'[barrel'[a].subs[s]].put) \cup chan'[barrel'[a].subs[s]].dropped)
            \subseteq Offer(a)'
    <3> SUFFICES ASSUME NEW a \in Barrels, NEW s \in Sessions, barrel[a].subs[s] # 0
                 PROVE  ToSet(barrel[a].msgs) \ (ToSet(chan'[barrel[a].subs[s]].put)
                                                   \cup chan'[barrel[a].subs[s]].dropped) \subseteq Offer(a)
      BY <2>1
    <3>1. chan'[barrel[a].subs[s]] = chan[barrel[a].subs[s]]
      BY <1>5, <1>10
    <3> QED BY <3>1, SubsFacts
  <2> QED BY <2>2, Zenon DEF NoGap, Offer
<1> QED BY <1>8, <1>9, <1>11, <1>12, <1>13, <1>14, <1>15 DEF IInv

\* ... and registers the channel when everything was sent.
LEMMA pushEndStep ==
  ASSUME IInv, NEW c \in Conns, pushEnd(c)
  PROVE  IInv'
<1> DEFINE b == conn[c].b
           s == conn[c].s
<1>1. /\ push[c].pc = "push" /\ push[c].todo = <<>>
      /\ barrel' = [barrel EXCEPT ![b].subs[s] = c]
      /\ subLock' = [subLock EXCEPT ![b] = 0]
      /\ push' = [push EXCEPT ![c].pc = "done"]
      /\ UNCHANGED <<barrels, pool, lock, busy, numbered, chan, conn, closer, chans, gc>>
  BY DEF pushEnd, sessionVars
<1>2. /\ conn[c].pc \in {"open", "left"} /\ b \in Barrels /\ s \in Sessions /\ subLock[b] = c
      /\ c # 0 /\ chan[c].open
  BY <1>1, Holders DEF IInv, ConnOK, FillOK, SubsOK
<1> HIDE DEF b, s
<1>3. /\ push' \in [Conns -> PushRec] /\ push'[c].pc = "done"
      /\ \A d \in Conns : d # c => push'[d] = push[d]
  <2>1. push \in [Conns -> PushRec] /\ push[c] \in PushRec
    BY DEF IInv, TypeOK, PushRec
  <2>2. push'[c] = [push[c] EXCEPT !.pc = "done"] /\ push' = [push EXCEPT ![c] = push'[c]]
    BY <1>1, <2>1
  <2>3. push'[c] \in PushRec /\ push'[c].pc = "done"
    BY <2>1, <2>2 DEF PushRec
  <2> QED BY <2>1, <2>2, <2>3
<1>4. /\ subLock' \in [Barrels -> 0 .. MaxConns]
      /\ \A a \in Barrels : a # b => subLock'[a] = subLock[a]
  BY <1>1, <1>2, LiveLogsAssumption DEF IInv, TypeOK
<1>5. /\ barrel' \in [Barrels -> BarrelRec] /\ barrel'[b].subs[s] = c
      /\ \A a \in Barrels : barrel'[a].msgs = barrel[a].msgs
      /\ \A a \in Barrels, r \in Sessions : a # b \/ r # s => barrel'[a].subs[r] = barrel[a].subs[r]
  <2>1. /\ barrel \in [Barrels -> BarrelRec] /\ barrel[b] \in BarrelRec
        /\ barrel[b].subs \in [Sessions -> 0 .. MaxConns] /\ c \in 0 .. MaxConns
    BY <1>2, Holders DEF IInv, TypeOK, BarrelRec
  <2>2. /\ barrel'[b] = [barrel[b] EXCEPT !.subs = [barrel[b].subs EXCEPT ![s] = c]]
        /\ barrel' = [barrel EXCEPT ![b] = barrel'[b]]
    BY <1>1, <1>2, <2>1
  <2>3. [barrel[b].subs EXCEPT ![s] = c] \in [Sessions -> 0 .. MaxConns]
    BY <1>2, <2>1
  <2>4. /\ barrel'[b] \in BarrelRec /\ barrel'[b].msgs = barrel[b].msgs
        /\ barrel'[b].subs = [barrel[b].subs EXCEPT ![s] = c]
    BY <2>1, <2>2, <2>3 DEF BarrelRec
  <2>5. barrel' \in [Barrels -> BarrelRec] /\ \A a \in Barrels : a # b => barrel'[a] = barrel[a]
    BY <2>1, <2>2, <2>4
  <2>6. barrel'[b].subs[s] = c /\ \A r \in Sessions : r # s => barrel'[b].subs[r] = barrel[b].subs[r]
    BY <1>2, <2>1, <2>4
  <2> QED BY <2>4, <2>5, <2>6
<1>6. TypeOK'
  BY <1>1, <1>3, <1>4, <1>5 DEF IInv, TypeOK, BarrelRec, PushRec
<1>7. BusyOK' /\ GcOK' /\ ConnOK'
  <2>1. BusyOK' /\ GcOK'
    BY <1>1 DEF IInv, BusyOK, GcOK
  <2>2. \A d \in Conns : push'[d].pc # "none" => conn[d].pc \in {"open", "left"}
    BY <1>2, <1>3 DEF IInv, ConnOK
  <2> QED BY <1>1, <2>1, <2>2 DEF IInv, ConnOK
<1>8. SubsOK'
  <2>1. ASSUME NEW a \in Barrels, NEW r \in Sessions, barrel'[a].subs[r] # 0
        PROVE  /\ push'[barrel'[a].subs[r]].pc = "done" /\ chan[barrel'[a].subs[r]].open
               /\ conn[barrel'[a].subs[r]].b = a /\ conn[barrel'[a].subs[r]].s = r
    <3>1. CASE a = b /\ r = s
      BY <1>2, <1>3, <1>5, <3>1 DEF b, s
    <3>2. CASE a # b \/ r # s
      <4>1. barrel'[a].subs[r] = barrel[a].subs[r] /\ barrel[a].subs[r] \in Conns
        BY <1>5, <2>1, <3>2 DEF IInv, TypeOK, Conns
      <4> QED BY <1>3, <2>1, <4>1 DEF IInv, SubsOK
    <3> QED BY <3>1, <3>2
  <2>2. \A d \in Conns : push'[d].pc # "done" => chan[d].open
    BY <1>2, <1>3 DEF IInv, SubsOK
  <2>3. chan' = chan /\ conn' = conn
    BY <1>1
  <2>4. /\ \A a \in Barrels, r \in Sessions : barrel'[a].subs[r] # 0 =>
             /\ push'[barrel'[a].subs[r]].pc = "done" /\ chan'[barrel'[a].subs[r]].open
             /\ conn'[barrel'[a].subs[r]].b = a /\ conn'[barrel'[a].subs[r]].s = r
        /\ \A d \in Conns : push'[d].pc # "done" => chan'[d].open
    BY <2>1, <2>2, <2>3
  <2> QED BY <2>4, Zenon DEF SubsOK
<1>9. FillOK'
  <2> SUFFICES ASSUME NEW d \in Conns, d # c
               PROVE  /\ push[d].pc = "push" => subLock'[conn[d].b] = d
                      /\ push[d].pc \in {"none", "start"} => chan[d].put = <<>>
    BY <1>1, <1>3 DEF FillOK
  <2>1. push[d].pc = "push" => subLock[conn[d].b] = d /\ conn[d].b \in Barrels
    BY DEF IInv, FillOK, ConnOK
  <2>2. push[d].pc = "push" => conn[d].b # b
    BY <1>2, <2>1
  <2> QED BY <1>4, <2>1, <2>2 DEF IInv, FillOK
<1>10. OrderOK'
  <2>1. \A d \in Conns : push'[d].pc = "push" => push'[d] = push[d] /\ push[d].pc = "push"
    BY <1>3
  <2> QED BY <1>1, <1>5, <2>1 DEF IInv, OrderOK
<1>11. GapOK'
  <2> SUFFICES ASSUME NEW d \in Conns, d # c, push[d].pc = "push"
               PROVE  ToSet(barrel[conn[d].b].msgs) \subseteq
                        ToSet(chan[d].put) \cup ToSet(push[d].todo) \cup Offer(conn[d].b)
    BY <1>1, <1>3, <1>5 DEF GapOK, Offer, IInv, ConnOK
  <2> QED BY DEF IInv, GapOK
<1>12. NoGap'
  <2> SUFFICES ASSUME NEW a \in Barrels, NEW r \in Sessions, NEW d \in Conns, d = barrel'[a].subs[r]
               PROVE  ToSet(barrel[a].msgs) \ (ToSet(chan[d].put) \cup chan[d].dropped) \subseteq Offer(a)
    <3>1. \A a \in Barrels, r \in Sessions : barrel'[a].subs[r] # 0 => barrel'[a].subs[r] \in Conns
      BY <1>5 DEF BarrelRec, Conns
    <3>2. chan' = chan /\ \A a : Offer(a)' = Offer(a)
      BY <1>1 DEF Offer
    <3>3. \A a \in Barrels, r \in Sessions : barrel'[a].subs[r] # 0 =>
            ToSet(barrel'[a].msgs) \ (ToSet(chan'[barrel'[a].subs[r]].put) \cup chan'[barrel'[a].subs[r]].dropped)
              \subseteq Offer(a)'
      BY <1>5, <3>1, <3>2
    <3> QED BY <3>3, Zenon DEF NoGap, Offer
  <2>1. d # 0
    BY Holders
  <2>2. CASE a = b /\ r = s
    <3>1. d = c
      BY <1>5, <2>2
    <3>2. ToSet(barrel[b].msgs) \subseteq ToSet(chan[c].put) \cup ToSet(push[c].todo) \cup Offer(b)
      BY <1>1 DEF IInv, GapOK, b
    <3>3. ToSet(push[c].todo) = {}
      BY <1>1 DEF ToSet
    <3> QED BY <2>2, <3>1, <3>2, <3>3
  <2>3. CASE a # b \/ r # s
    <3>1. d = barrel[a].subs[r]
      BY <1>5, <2>3
    <3> QED BY <2>1, <3>1 DEF IInv, NoGap, Offer
  <2> QED BY <2>2, <2>3
<1> QED BY <1>6, <1>7, <1>8, <1>9, <1>10, <1>11, <1>12 DEF IInv

\* A subscription is deleted: its channel was registered nowhere else.
LEMMA DeletedOK ==
  ASSUME IInv, NEW b \in Barrels, NEW s \in Sessions, Deleted(b, s)
  PROVE  /\ chan' \in [Conns -> ChanRec] /\ barrel' \in [Barrels -> BarrelRec]
         /\ \A a \in Barrels :
              /\ barrel'[a].msgs \in {<<>>, barrel[a].msgs}
              /\ \A r \in Sessions : barrel'[a].subs[r] \in {0, barrel[a].subs[r]}
         /\ \A c \in Conns :
              /\ chan'[c].put = chan[c].put /\ chan'[c].dropped = chan[c].dropped
              /\ \/ chan'[c].open = chan[c].open
                 \/ push[c].pc = "done" /\ \A a \in Barrels, r \in Sessions : barrel'[a].subs[r] # c
<1> DEFINE ch == barrel[b].subs[s]
<1>1. /\ chan' = IF ch = 0 THEN chan ELSE [chan EXCEPT ![ch].open = FALSE]
      /\ barrel' = [barrel EXCEPT ![b].subs[s] = 0]
  BY DEF Deleted
<1>2. /\ barrel \in [Barrels -> BarrelRec] /\ barrel[b] \in BarrelRec
      /\ barrel[b].subs \in [Sessions -> 0 .. MaxConns]
      /\ chan \in [Conns -> ChanRec]
  BY DEF IInv, TypeOK, BarrelRec, ChanRec
<1>3. ch # 0 => ch \in Conns /\ push[ch].pc = "done" /\ conn[ch].b = b /\ conn[ch].s = s
  BY <1>2 DEF IInv, SubsOK, Conns
<1>4. /\ barrel' \in [Barrels -> BarrelRec] /\ barrel'[b].subs[s] = 0
      /\ \A a \in Barrels : barrel'[a].msgs = barrel[a].msgs
      /\ \A a \in Barrels, r \in Sessions : a # b \/ r # s => barrel'[a].subs[r] = barrel[a].subs[r]
  <2>1. /\ barrel'[b] = [barrel[b] EXCEPT !.subs = [barrel[b].subs EXCEPT ![s] = 0]]
        /\ barrel' = [barrel EXCEPT ![b] = barrel'[b]]
    BY <1>1, <1>2
  <2>2. [barrel[b].subs EXCEPT ![s] = 0] \in [Sessions -> 0 .. MaxConns]
    BY <1>2, LiveLogsAssumption
  <2>3. /\ barrel'[b] \in BarrelRec /\ barrel'[b].msgs = barrel[b].msgs
        /\ barrel'[b].subs = [barrel[b].subs EXCEPT ![s] = 0]
    BY <1>2, <2>1, <2>2 DEF BarrelRec
  <2>4. barrel' \in [Barrels -> BarrelRec] /\ \A a \in Barrels : a # b => barrel'[a] = barrel[a]
    BY <1>2, <2>1, <2>3
  <2>5. barrel'[b].subs[s] = 0 /\ \A r \in Sessions : r # s => barrel'[b].subs[r] = barrel[b].subs[r]
    BY <1>2, <2>3
  <2> QED BY <2>3, <2>4, <2>5
<1> HIDE DEF ch
<1>5. ASSUME NEW c \in Conns
      PROVE  /\ chan'[c] \in ChanRec /\ chan'[c].put = chan[c].put /\ chan'[c].dropped = chan[c].dropped
             /\ chan'[c].open = chan[c].open \/ c = ch
  <2>1. chan[c] \in ChanRec
    BY <1>2
  <2>2. CASE ch # 0 /\ c = ch
    <3>1. chan'[c] = [chan[c] EXCEPT !.open = FALSE]
      BY <1>1, <1>2, <2>2
    <3> QED BY <2>1, <2>2, <3>1 DEF ChanRec
  <2>3. CASE ch = 0 \/ c # ch
    <3>1. chan'[c] = chan[c]
      BY <1>1, <1>2, <1>3, <2>3
    <3> QED BY <2>1, <3>1
  <2> QED BY <2>2, <2>3
<1>6. chan' \in [Conns -> ChanRec]
  <2>1. DOMAIN chan' = Conns /\ chan' = [c \in Conns |-> chan'[c]]
    BY <1>1, <1>2
  <2> QED BY <1>5, <2>1
<1>7. ASSUME NEW a \in Barrels, NEW r \in Sessions, barrel'[a].subs[r] = ch PROVE ch = 0
  <2>1. CASE a = b /\ r = s
    BY <1>4, <1>7, <2>1
  <2>2. CASE a # b \/ r # s
    <3>1. barrel[a].subs[r] = ch
      BY <1>4, <1>7, <2>2
    <3> QED BY <1>3, <2>2, <3>1 DEF IInv, SubsOK
  <2> QED BY <2>1, <2>2
<1>8. \A c \in Conns : c # 0
  BY Holders
<1>9. \A c \in Conns : c = ch => push[c].pc = "done" /\ \A a \in Barrels, r \in Sessions : barrel'[a].subs[r] # c
  BY <1>3, <1>7, <1>8
<1>10. \A a \in Barrels :
         /\ barrel'[a].msgs \in {<<>>, barrel[a].msgs}
         /\ \A r \in Sessions : barrel'[a].subs[r] \in {0, barrel[a].subs[r]}
  BY <1>4
<1> QED BY <1>4, <1>5, <1>6, <1>9, <1>10

LEMMA RealseSubChanStep ==
  ASSUME IInv, NEW c \in Conns, RealseSubChan(c)
  PROVE  IInv'
<1>1. /\ closer[c] = "release" /\ lock = Free /\ conn[c].pc # "none" /\ conn[c].e \in Events
      /\ UNCHANGED <<barrels, pool, barrel, subLock, numbered, chan, push, conn, chans, gc>>
  BY DEF RealseSubChan, subVars, IInv, ConnOK
<1>2. /\ closer' \in [Conns -> {"none", "release", "delete", "done"}]
      /\ \A d \in Conns : d # c => closer'[d] = closer[d]
      /\ busy' \in [b : Some(Barrels), new : BOOLEAN, e : Some(Events)]
      /\ \/ lock' = Free /\ busy' = busy
         \/ /\ lock' = <<c, "release">> /\ closer'[c] = "delete"
            /\ busy'.b \in Barrels /\ busy'.e \in Events
  <2>1. CASE barrels[conn[c].e] = None
    <3>1. closer' = [closer EXCEPT ![c] = "done"] /\ lock' = lock /\ busy' = busy
      BY <2>1 DEF RealseSubChan
    <3>2. /\ closer \in [Conns -> {"none", "release", "delete", "done"}]
          /\ busy \in [b : Some(Barrels), new : BOOLEAN, e : Some(Events)]
      BY DEF IInv, TypeOK
    <3> QED BY <1>1, <3>1, <3>2
  <2>2. CASE barrels[conn[c].e] # None
    <3>1. barrels[conn[c].e] \in Barrels
      BY <1>1, <2>2 DEF IInv, TypeOK, Some
    <3>2. /\ closer' = [closer EXCEPT ![c] = "delete"] /\ lock' = <<c, "release">>
          /\ busy' = [b |-> barrels[conn[c].e], new |-> FALSE, e |-> conn[c].e]
      BY <2>2 DEF RealseSubChan, Locked
    <3> QED BY <1>1, <3>1, <3>2 DEF IInv, TypeOK, Some
  <2> QED BY <2>1, <2>2
<1>3. TypeOK'
  BY <1>1, <1>2, Holders, LiveLogsAssumption DEF IInv, TypeOK
<1>4. BusyOK' /\ GcOK'
  BY <1>1, <1>2, Holders DEF IInv, BusyOK, GcOK
<1>5. ConnOK'
  <2> SUFFICES ASSUME NEW d \in Conns
               PROVE  /\ closer'[d] # "none" => conn[d].pc # "none"
                      /\ closer'[d] \in {"release", "delete"} => conn[d].pc = "left"
                      /\ lock' = <<d, "subscribe">> => conn[d].pc = "subscribing"
                      /\ lock' = <<d, "release">> => closer'[d] = "delete"
    BY <1>1 DEF IInv, ConnOK
  <2>1. CASE d = c
    BY <1>1, <1>2, <2>1, Holders DEF IInv, ConnOK
  <2>2. CASE d # c
    BY <1>1, <1>2, <2>2, Holders DEF IInv, ConnOK
  <2> QED BY <2>1, <2>2
<1>6. SubsOK' /\ FillOK' /\ OrderOK' /\ GapOK' /\ NoGap'
  BY <1>1, <1>2, SameMessages, Holders
<1> QED BY <1>3, <1>4, <1>5, <1>6 DEF IInv

LEMMA delSubChanStep ==
  ASSUME IInv, NEW c \in Conns, delSubChan(c)
  PROVE  IInv'
<1>1. /\ lock = <<c, "release">> /\ Deleted(busy.b, conn[c].s)
      /\ closer' = [closer EXCEPT ![c] = "done"]
      /\ lock' = Free /\ busy' = [b |-> None, new |-> FALSE, e |-> None]
      /\ UNCHANGED <<barrels, pool, subLock, numbered, push, conn, chans, gc>>
  BY DEF delSubChan, Unlock
<1>2. busy.b \in Barrels /\ closer[c] = "delete" /\ conn[c].pc # "none" /\ conn[c].s \in Sessions
  BY <1>1, Holders DEF IInv, BusyOK, ConnOK
<1>3. SubsOK' /\ FillOK' /\ OrderOK' /\ GapOK' /\ NoGap'
  BY <1>1, <1>2, DeletedOK, SameMessages, Holders
<1>4. chan' \in [Conns -> ChanRec] /\ barrel' \in [Barrels -> BarrelRec]
  BY <1>1, <1>2, DeletedOK
<1>5. TypeOK'
  BY <1>1, <1>4 DEF IInv, TypeOK, ChanRec, BarrelRec, Some
<1>6. BusyOK' /\ GcOK'
  BY <1>1, Holders DEF IInv, BusyOK, GcOK
<1>7. ConnOK'
  <2>1. closer'[c] = "done" /\ \A d \in Conns : d # c => closer'[d] = closer[d]
    BY <1>1 DEF IInv, TypeOK
  <2>2. \A d \in Conns : /\ d # c => lock # <<d, "release">>
                        /\ lock' # <<d, "subscribe">> /\ lock' # <<d, "release">>
    BY <1>1, Holders
  <2>3. UNCHANGED <<conn, push>> /\ conn[c].pc # "none"
    BY <1>1, <1>2
  <2> QED BY <2>1, <2>2, <2>3 DEF IInv, ConnOK
<1> QED BY <1>3, <1>5, <1>6, <1>7 DEF IInv

\* The collector.
LEMMA ExpireStep ==
  ASSUME IInv, NEW e \in Events, Expire(e)
  PROVE  IInv'
<1>1. /\ barrels[e] \in Barrels /\ gc.n < MaxCollections
      /\ gc' = [gc EXCEPT !.n = @ + 1]
      /\ barrel' = [barrel EXCEPT ![barrels[e]].old = TRUE]
      /\ UNCHANGED <<barrels, pool, lock, busy, subLock, numbered, chan, push, conn, closer, chans>>
  BY DEF Expire, IInv, TypeOK, Some, subVars, sessionVars
<1>2. /\ barrel' \in [Barrels -> BarrelRec]
      /\ \A a \in Barrels : barrel'[a].msgs = barrel[a].msgs /\ barrel'[a].subs = barrel[a].subs
  <2>1. barrel \in [Barrels -> BarrelRec] /\ barrel[barrels[e]] \in BarrelRec
    BY <1>1 DEF IInv, TypeOK, BarrelRec
  <2> QED BY <1>1, <2>1 DEF BarrelRec
<1>3. TypeOK' /\ GcOK'
  <2>1. gc.n + 1 \in 0 .. MaxCollections
    BY <1>1, LiveLogsAssumption DEF IInv, TypeOK
  <2>2. /\ gc' \in [pc : {"idle", "empty", "put", "delete"}, n : 0 .. MaxCollections,
                    ids : SUBSET Events, e : Some(Events), b : Some(Barrels)]
        /\ gc'.pc = gc.pc /\ gc'.ids = gc.ids /\ gc'.e = gc.e /\ gc'.b = gc.b
    BY <1>1, <2>1 DEF IInv, TypeOK
  <2>3. TypeOK'
    BY <1>1, <1>2, <2>2 DEF IInv, TypeOK, BarrelRec
  <2> QED BY <1>1, <2>2, <2>3 DEF IInv, GcOK
<1>4. BusyOK' /\ ConnOK'
  BY <1>1 DEF IInv, BusyOK, ConnOK
<1>5. SubsOK' /\ FillOK' /\ OrderOK' /\ GapOK' /\ NoGap'
  BY <1>1, <1>2, SameMessages
<1> QED BY <1>3, <1>4, <1>5 DEF IInv

GcRec == [pc : {"idle", "empty", "put", "delete"}, n : 0 .. MaxCollections,
          ids : SUBSET Events, e : Some(Events), b : Some(Barrels)]

LEMMA GcScanStep ==
  ASSUME IInv, GcScan
  PROVE  IInv'
<1> DEFINE ids == {e \in Events : barrels[e] # None /\ barrel[barrels[e]].old}
<1>1. gc.pc = "idle" /\ gc' = [gc EXCEPT !.pc = "empty", !.ids = ids]
  BY DEF GcScan
<1>2. UNCHANGED <<barrels, pool, barrel, lock, busy, subLock, numbered, chan, push, conn, closer, chans>>
  BY DEF GcScan, storeVars, subVars, sessionVars
<1>3. gc \in GcRec /\ ids \subseteq Events
  BY DEF IInv, TypeOK, GcRec
<1>4. \A e \in ids : barrels[e] # None
  OBVIOUS
<1> HIDE DEF ids
<1>5. gc' \in GcRec /\ gc'.pc = "empty" /\ gc'.ids = ids /\ gc'.e = gc.e
  BY <1>1, <1>3 DEF GcRec
<1>6. gc.e = None /\ None \notin Events
  BY <1>1, LiveLogsAssumption DEF IInv, GcOK
<1>7. GcOK'
  BY <1>2, <1>3, <1>4, <1>5, <1>6 DEF GcOK
<1>8. TypeOK' /\ BusyOK' /\ ConnOK'
  BY <1>2, <1>5 DEF IInv, TypeOK, BusyOK, ConnOK, GcRec
<1>9. SubsOK' /\ FillOK' /\ OrderOK' /\ GapOK' /\ NoGap'
  BY <1>2, SameMessages
<1> QED BY <1>7, <1>8, <1>9 DEF IInv

\* A barrel is emptied: its channels were registered nowhere else.
LEMMA GcEmptyStep ==
  ASSUME IInv, NEW e \in Events, GcEmpty(e)
  PROVE  IInv'
<1> DEFINE b == barrels[e]
           subs == {barrel[b].subs[s] : s \in Sessions} \ {0}
<1>1. /\ gc.pc = "empty" /\ e \in gc.ids /\ b \in Barrels
      /\ chan' = [c \in Conns |-> IF c \in subs THEN [chan[c] EXCEPT !.open = FALSE] ELSE chan[c]]
      /\ barrel' = [barrel EXCEPT ![b].msgs = <<>>, ![b].subs = [s \in Sessions |-> 0]]
      /\ gc' = [gc EXCEPT !.pc = "put", !.ids = gc.ids \ {e}, !.e = e, !.b = b]
  BY DEF GcEmpty, IInv, GcOK, TypeOK, Some
<1>2. UNCHANGED <<barrels, pool, lock, busy, subLock, numbered, push, conn, closer, chans>>
  BY DEF GcEmpty, sessionVars
<1>3. \A c \in subs : /\ c \in Conns /\ push[c].pc = "done" /\ conn[c].b = b
  <2> SUFFICES ASSUME NEW s \in Sessions, barrel[b].subs[s] # 0
               PROVE  /\ barrel[b].subs[s] \in Conns /\ push[barrel[b].subs[s]].pc = "done"
                      /\ conn[barrel[b].subs[s]].b = b
    BY DEF subs
  <2>1. b \in Barrels
    BY <1>1
  <2> HIDE DEF b
  <2> QED BY <2>1, SubsFacts
<1> HIDE DEF subs, b
<1>4. /\ barrel' \in [Barrels -> BarrelRec] /\ barrel'[b].msgs = <<>>
      /\ \A s \in Sessions : barrel'[b].subs[s] = 0
      /\ \A a \in Barrels : a # b => barrel'[a] = barrel[a]
  <2>1. barrel \in [Barrels -> BarrelRec] /\ barrel[b] \in BarrelRec
    BY <1>1 DEF IInv, TypeOK, BarrelRec
  <2>2. /\ barrel'[b] = [barrel[b] EXCEPT !.msgs = <<>>, !.subs = [s \in Sessions |-> 0]]
        /\ barrel' = [barrel EXCEPT ![b] = barrel'[b]]
    BY <1>1, <2>1
  <2>3. [s \in Sessions |-> 0] \in [Sessions -> 0 .. MaxConns] /\ <<>> \in Seq(Message)
    BY LiveLogsAssumption
  <2>4. /\ barrel'[b] \in BarrelRec /\ barrel'[b].msgs = <<>>
        /\ barrel'[b].subs = [s \in Sessions |-> 0]
    BY <2>1, <2>2, <2>3 DEF BarrelRec
  <2> QED BY <2>1, <2>2, <2>4
<1>5. ASSUME NEW c \in Conns
      PROVE  /\ chan'[c] \in ChanRec /\ chan'[c].put = chan[c].put /\ chan'[c].dropped = chan[c].dropped
             /\ chan'[c].open = chan[c].open \/ c \in subs
  <2>1. chan[c] \in ChanRec
    BY DEF IInv, TypeOK, ChanRec
  <2>2. chan'[c] = IF c \in subs THEN [chan[c] EXCEPT !.open = FALSE] ELSE chan[c]
    BY <1>1
  <2>3. CASE c \in subs
    BY <2>1, <2>2, <2>3 DEF ChanRec
  <2>4. CASE c \notin subs
    BY <2>1, <2>2, <2>4
  <2> QED BY <2>3, <2>4
<1>6. chan' \in [Conns -> ChanRec]
  BY <1>1, <1>5
<1>7. \A c \in Conns : c \in subs =>
        push[c].pc = "done" /\ \A a \in Barrels, s \in Sessions : barrel'[a].subs[s] # c
  <2> SUFFICES ASSUME NEW c \in Conns, c \in subs, NEW a \in Barrels, NEW s \in Sessions
               PROVE  barrel'[a].subs[s] # c
    BY <1>3
  <2>1. push[c].pc = "done" /\ conn[c].b = b /\ c # 0
    BY <1>3, Holders
  <2>2. CASE a = b
    BY <1>4, <2>1, <2>2
  <2>3. CASE a # b
    BY <1>4, <2>1, <2>3 DEF IInv, SubsOK
  <2> QED BY <2>2, <2>3
<1>8. \A a \in Barrels :
        /\ barrel'[a].msgs \in {<<>>, barrel[a].msgs}
        /\ \A s \in Sessions : barrel'[a].subs[s] \in {0, barrel[a].subs[s]}
  BY <1>4
<1>9. SubsOK' /\ FillOK' /\ OrderOK' /\ GapOK' /\ NoGap'
  BY <1>2, <1>5, <1>7, <1>8, SameMessages
<1>10. /\ gc' \in GcRec /\ gc'.pc = "put" /\ gc'.ids = gc.ids \ {e} /\ gc'.e = e /\ gc'.b = b
  BY <1>1 DEF IInv, TypeOK, GcRec, Some
<1>11. TypeOK'
  BY <1>2, <1>4, <1>6, <1>10 DEF IInv, TypeOK, GcRec, ChanRec, BarrelRec
<1>12. GcOK'
  BY <1>1, <1>2, <1>10 DEF IInv, GcOK
<1>13. BusyOK' /\ ConnOK'
  BY <1>2 DEF IInv, BusyOK, ConnOK
<1> QED BY <1>9, <1>11, <1>12, <1>13 DEF IInv

LEMMA GcPutStep ==
  ASSUME IInv, GcPut
  PROVE  IInv'
<1>1. gc.pc = "put" /\ pool' = pool \cup {gc.b} /\ gc' = [gc EXCEPT !.pc = "delete"]
  BY DEF GcPut
<1>2. UNCHANGED <<barrels, barrel, lock, busy, subLock, numbered, chan, push, conn, closer, chans>>
  BY DEF GcPut, subVars, sessionVars
<1>3. /\ gc' \in GcRec /\ gc'.pc = "delete" /\ gc'.ids = gc.ids /\ gc'.e = gc.e /\ gc'.b = gc.b
  BY <1>1 DEF IInv, TypeOK, GcRec
<1>4. GcOK' /\ gc.b \in Barrels
  BY <1>1, <1>2, <1>3 DEF IInv, GcOK
<1>5. TypeOK' /\ BusyOK' /\ ConnOK'
  BY <1>1, <1>2, <1>3, <1>4 DEF IInv, TypeOK, BusyOK, ConnOK, GcRec
<1>6. SubsOK' /\ FillOK' /\ OrderOK' /\ GapOK' /\ NoGap'
  BY <1>2, SameMessages
<1> QED BY <1>4, <1>5, <1>6 DEF IInv

LEMMA GcDeleteStep ==
  ASSUME IInv, GcDelete
  PROVE  IInv'
<1>1. /\ gc.pc = "delete" /\ barrels' = [barrels EXCEPT ![gc.e] = None]
      /\ gc' = [gc EXCEPT !.pc = IF gc.ids = {} THEN "idle" ELSE "empty", !.e = None, !.b = None]
  BY DEF GcDelete
<1>2. UNCHANGED <<pool, barrel, lock, busy, subLock, numbered, chan, push, conn, closer, chans>>
  BY DEF GcDelete, subVars, sessionVars
<1>3. /\ gc' \in GcRec /\ gc'.pc \in {"idle", "empty"} /\ gc'.ids = gc.ids /\ gc'.e = None
      /\ gc.ids \subseteq Events
  BY <1>1 DEF IInv, TypeOK, GcRec, Some
<1>4. /\ barrels' \in [Events -> Some(Barrels)]
      /\ \A e \in Events : e # gc.e => barrels'[e] = barrels[e]
  BY <1>1 DEF IInv, TypeOK, Some
<1>5. GcOK'
  BY <1>3, <1>4, LiveLogsAssumption DEF IInv, GcOK
<1>6. TypeOK' /\ BusyOK' /\ ConnOK'
  BY <1>2, <1>3, <1>4 DEF IInv, TypeOK, BusyOK, ConnOK, GcRec
<1>7. SubsOK' /\ FillOK' /\ OrderOK' /\ GapOK' /\ NoGap'
  BY <1>2, SameMessages
<1> QED BY <1>5, <1>6, <1>7 DEF IInv

\* The sessions.
LEMMA handleChanStep ==
  ASSUME IInv, NEW c \in Conns, handleChan(c)
  PROVE  IInv'
<1> DEFINE d == conn[c].ch
<1>1. conn[c].pc = "open" /\ chan' = [chan EXCEPT ![d].read = @ + 1] /\ d \in Conns
  BY DEF handleChan, IInv, ConnOK
<1>2. UNCHANGED <<barrels, pool, barrel, lock, busy, subLock, numbered, push, conn, closer, chans, gc>>
  BY DEF handleChan, storeVars, sessionVars
<1> HIDE DEF d
<1>3. /\ chan' \in [Conns -> ChanRec]
      /\ \A a \in Conns : /\ chan'[a].put = chan[a].put /\ chan'[a].dropped = chan[a].dropped
                           /\ chan'[a].open = chan[a].open
  <2>1. chan \in [Conns -> ChanRec] /\ chan[d] \in ChanRec
    BY <1>1 DEF IInv, TypeOK, ChanRec
  <2>2. chan'[d] = [chan[d] EXCEPT !.read = chan[d].read + 1] /\ chan' = [chan EXCEPT ![d] = chan'[d]]
    BY <1>1, <2>1
  <2>3. chan[d].read + 1 \in Nat
    BY <2>1 DEF ChanRec
  <2>4. /\ chan'[d] \in ChanRec /\ chan'[d].put = chan[d].put /\ chan'[d].dropped = chan[d].dropped
        /\ chan'[d].open = chan[d].open
    BY <2>1, <2>2, <2>3 DEF ChanRec
  <2> QED BY <2>1, <2>2, <2>4
<1>4. TypeOK' /\ BusyOK' /\ ConnOK' /\ GcOK'
  BY <1>2, <1>3 DEF IInv, TypeOK, BusyOK, ConnOK, GcOK, ChanRec
<1>5. SubsOK' /\ FillOK' /\ OrderOK' /\ GapOK' /\ NoGap'
  BY <1>2, <1>3, SameMessages
<1> QED BY <1>4, <1>5 DEF IInv

LEMMA ChansCleared ==
  ASSUME IInv, NEW s \in Sessions, NEW e \in Events, chans' = [chans EXCEPT ![s][e] = 0]
  PROVE  chans' \in [Sessions -> [Events -> 0 .. MaxConns]]
<1>1. chans[s] \in [Events -> 0 .. MaxConns] /\ chans \in [Sessions -> [Events -> 0 .. MaxConns]]
  BY DEF IInv, TypeOK
<1>2. chans' = [chans EXCEPT ![s] = [chans[s] EXCEPT ![e] = 0]]
  BY <1>1
<1>3. [chans[s] EXCEPT ![e] = 0] \in [Events -> 0 .. MaxConns]
  BY <1>1, LiveLogsAssumption
<1> QED BY <1>1, <1>2, <1>3

LEMMA handleChanEndsStep ==
  ASSUME IInv, NEW c \in Conns, handleChanEnds(c)
  PROVE  IInv'
<1>1. /\ conn[c].pc = "open" /\ conn' = [conn EXCEPT ![c].pc = "left"]
      /\ \/ UNCHANGED <<closer, chans>>
         \/ /\ closer' = [closer EXCEPT ![c] = "release"]
            /\ chans' = [chans EXCEPT ![conn[c].s][conn[c].e] = 0]
      /\ closer'[c] # closer[c] => closer[c] # "done"
  BY DEF handleChanEnds
<1>2. UNCHANGED <<barrels, pool, barrel, lock, busy, subLock, numbered, chan, push, gc>>
  BY DEF handleChanEnds, storeVars, subVars
<1>3. conn[c].s \in Sessions /\ conn[c].e \in Events
  BY <1>1 DEF IInv, ConnOK
<1>4. /\ conn' \in [Conns -> ConnRec] /\ conn'[c].pc = "left"
      /\ \A d \in Conns :  /\ conn'[d].s = conn[d].s /\ conn'[d].e = conn[d].e /\ conn'[d].b = conn[d].b
                           /\ conn'[d].ch = conn[d].ch
                           /\ d # c => conn'[d].pc = conn[d].pc
  <2>1. conn \in [Conns -> ConnRec] /\ conn[c] \in ConnRec
    BY DEF IInv, TypeOK, ConnRec
  <2>2. conn'[c] = [conn[c] EXCEPT !.pc = "left"] /\ conn' = [conn EXCEPT ![c] = conn'[c]]
    BY <1>1, <2>1
  <2>3. /\ conn'[c] \in ConnRec /\ conn'[c].pc = "left" /\ conn'[c].s = conn[c].s
        /\ conn'[c].e = conn[c].e /\ conn'[c].b = conn[c].b /\ conn'[c].ch = conn[c].ch
    BY <2>1, <2>2 DEF ConnRec
  <2> QED BY <2>1, <2>2, <2>3
<1>5. /\ chans' \in [Sessions -> [Events -> 0 .. MaxConns]]
      /\ closer' \in [Conns -> {"none", "release", "delete", "done"}]
      /\ \A d \in Conns : d # c => closer'[d] = closer[d]
  BY <1>1, <1>3, ChansCleared DEF IInv, TypeOK
<1>6. TypeOK' /\ BusyOK' /\ GcOK'
  BY <1>2, <1>4, <1>5 DEF IInv, TypeOK, BusyOK, GcOK, ConnRec
<1>7. ConnOK'
  BY <1>1, <1>2, <1>4, <1>5 DEF IInv, ConnOK
<1>8. SubsOK' /\ FillOK' /\ OrderOK' /\ GapOK' /\ NoGap'
  BY <1>2, <1>4, SameMessages
<1> QED BY <1>6, <1>7, <1>8 DEF IInv

\* RealseWebSocketMessageChan in one step, whatever becomes of the session's map.
LEMMA ReleasedStep ==
  ASSUME IInv, NEW c \in Conns, Released(c),
         closer' \in {closer, [closer EXCEPT ![c] = "done"]},
         chans' \in {chans, [chans EXCEPT ![conn[c].s][conn[c].e] = 0]}
  PROVE  IInv'
<1>1. /\ conn[c].pc = "open" /\ lock = Free
      /\ \/ UNCHANGED <<chan, barrel>>
         \/ barrels[conn[c].e] # None /\ Deleted(barrels[conn[c].e], conn[c].s)
      /\ UNCHANGED <<barrels, pool, lock, busy, subLock, numbered, push, conn, gc>>
  BY DEF Released
<1>2. conn[c].s \in Sessions /\ conn[c].e \in Events
  BY <1>1 DEF IInv, ConnOK
<1>3. /\ SubsOK' /\ FillOK' /\ OrderOK' /\ GapOK' /\ NoGap'
      /\ chan' \in [Conns -> ChanRec] /\ barrel' \in [Barrels -> BarrelRec]
  <2>1. CASE UNCHANGED <<chan, barrel>>
    <3>1. SubsOK' /\ FillOK' /\ OrderOK' /\ GapOK' /\ NoGap'
      BY <1>1, <2>1, SameMessages
    <3> QED BY <2>1, <3>1 DEF IInv, TypeOK, ChanRec, BarrelRec
  <2>2. CASE barrels[conn[c].e] # None /\ Deleted(barrels[conn[c].e], conn[c].s)
    <3>1. barrels[conn[c].e] \in Barrels
      BY <1>2, <2>2 DEF IInv, TypeOK, Some
    <3>2. /\ chan' \in [Conns -> ChanRec] /\ barrel' \in [Barrels -> BarrelRec]
          /\ \A a \in Barrels :
               /\ barrel'[a].msgs \in {<<>>, barrel[a].msgs}
               /\ \A r \in Sessions : barrel'[a].subs[r] \in {0, barrel[a].subs[r]}
          /\ \A d \in Conns :
               /\ chan'[d].put = chan[d].put /\ chan'[d].dropped = chan[d].dropped
               /\ \/ chan'[d].open = chan[d].open
                  \/ push[d].pc = "done" /\ \A a \in Barrels, r \in Sessions : barrel'[a].subs[r] # d
      BY <1>2, <2>2, <3>1, DeletedOK
    <3>3. UNCHANGED <<numbered, subLock, lock, busy, push, conn>>
      BY <1>1
    <3>4. SubsOK' /\ FillOK' /\ OrderOK' /\ GapOK' /\ NoGap'
      BY <3>2, <3>3, SameMessages
    <3> QED BY <3>2, <3>4
  <2> QED BY <1>1, <2>1, <2>2
<1>4. /\ chans' \in [Sessions -> [Events -> 0 .. MaxConns]]
      /\ closer' \in [Conns -> {"none", "release", "delete", "done"}]
      /\ \A d \in Conns : d # c => closer'[d] = closer[d]
  <2>1. /\ chans \in [Sessions -> [Events -> 0 .. MaxConns]]
        /\ closer \in [Conns -> {"none", "release", "delete", "done"}]
    BY DEF IInv, TypeOK
  <2>2. chans' \in [Sessions -> [Events -> 0 .. MaxConns]]
    BY <1>2, <2>1, ChansCleared
  <2>3. /\ closer' \in [Conns -> {"none", "release", "delete", "done"}]
        /\ \A d \in Conns : d # c => closer'[d] = closer[d]
    BY <2>1
  <2> QED BY <2>2, <2>3
<1>5. TypeOK' /\ BusyOK' /\ GcOK'
  BY <1>1, <1>3, <1>4 DEF IInv, TypeOK, BusyOK, GcOK, ChanRec, BarrelRec
<1>6. ConnOK'
  BY <1>1, <1>4, Holders DEF IInv, ConnOK
<1> QED BY <1>3, <1>5, <1>6 DEF IInv

-----------------------------------------------------------------------------
LEMMA NextStep == IInv /\ [Next]_vars => IInv'
<1> SUFFICES ASSUME IInv, [Next]_vars PROVE IInv'
  OBVIOUS
<1>1. CASE UNCHANGED vars
  <2>1. UNCHANGED <<barrels, pool, barrel, lock, busy, subLock, numbered, chan, push, conn, closer, chans, gc>>
    BY <1>1 DEF vars, storeVars, subVars, sessionVars
  <2>2. TypeOK' /\ BusyOK' /\ ConnOK' /\ GcOK'
    BY <2>1 DEF IInv, TypeOK, BusyOK, ConnOK, GcOK
  <2>3. SubsOK' /\ FillOK' /\ OrderOK' /\ GapOK' /\ NoGap'
    BY <2>1, SameMessages
  <2> QED BY <2>2, <2>3 DEF IInv
<1>2. ASSUME NEW e \in Events, InsertMessage(e) \/ Expire(e) \/ GcEmpty(e) PROVE IInv'
  BY <1>2, InsertMessageStep, ExpireStep, GcEmptyStep
<1>3. CASE insertMessage \/ GcScan \/ GcPut \/ GcDelete
  BY <1>3, insertMessageStep, GcScanStep, GcPutStep, GcDeleteStep
<1>4. ASSUME NEW c \in Conns, NEW s \in Sessions, NEW e \in Events, SubChan(c, s, e) PROVE IInv'
  BY <1>4, SubChanStep
<1>5. ASSUME NEW c \in Conns, addSubChan(c) \/ Push(c) PROVE IInv'
  BY <1>5, addSubChanStep, pushBeginStep, pushOneStep, pushEndStep DEF Push
<1>6. ASSUME NEW c \in Conns, handleChan(c) \/ handleChanEnds(c) PROVE IInv'
  BY <1>6, handleChanStep, handleChanEndsStep
<1>7. ASSUME NEW c \in Conns, closeChan(c) \/ Stop(c) PROVE IInv'
  BY <1>7, ReleasedStep DEF closeChan, Stop
<1>8. ASSUME NEW c \in Conns, RealseSubChan(c) \/ delSubChan(c) PROVE IInv'
  BY <1>8, RealseSubChanStep, delSubChanStep
<1> QED BY <1>1, <1>2, <1>3, <1>4, <1>5, <1>6, <1>7, <1>8 DEF Next

LEMMA Invariant == Spec => []IInv
BY InitOK, NextStep, PTL DEF Spec

-----------------------------------------------------------------------------
\* The variables keep their types, and the lock of the store is held exactly
\* while somebody works on a barrel.
THEOREM TypeCorrect == Spec => []TypeOK
<1>1. IInv => TypeOK
  BY DEF IInv
<1> QED BY <1>1, Invariant, PTL

\* No goroutine sends on, or closes, a channel that is closed, whichever of the
\* session, its cancellation and the collector was there first.
THEOREM NoSendOnClosed == Spec => []SendsAreOpen
<1>1. IInv => SendsAreOpen
  <2> SUFFICES ASSUME IInv PROVE SendsAreOpen
    OBVIOUS
  <2>1. SubsOK
    BY DEF IInv
  <2>2. \A c \in Conns : push[c].pc \in {"start", "push"} => push[c].pc # "done"
    OBVIOUS
  <2> QED BY <2>1, <2>2 DEF SubsOK, SendsAreOpen
<1> QED BY <1>1, Invariant, PTL

\* The messages of a subscription are in the order they came in.
THEOREM ReadInOrder == Spec => []InOrder
<1>1. IInv => InOrder
  BY DEF IInv, OrderOK, InOrder, Sorted
<1> QED BY <1>1, Invariant, PTL

\* A subscription misses no message of its barrel but the ones that came when its
\* channel was full and the one insertMessage is about to offer.
THEOREM NothingSlipsThrough == Spec => []NoGap
<1>1. IInv => NoGap
  BY DEF IInv
<1> QED BY <1>1, Invariant, PTL

=============================================================================
