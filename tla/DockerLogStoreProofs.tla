------------------------ MODULE DockerLogStoreProofs ------------------------
(***************************************************************************)
(* Proofs about DockerLogStore, for any number of services, receiving      *)
(* goroutines, sessions and barrels and any sizes.                         *)
(***************************************************************************)
EXTENDS DockerLogStore, TLAPS

Inside(i) == ipc[i] \in {"insert", "append", "persist"}
Saving == hpc \in {"save", "reset"}
Visiting(t) == spc[t] \in {"visit", "clear"}

\* Types TypeOK does not give: of the queue and of what the goroutines remember.
LocalsOK ==
  /\ barrelEvent \in Seq(Services)
  /\ hpc = "lookup" => hbar \in Services
  /\ ipc \in [Inserters -> {"receive", "lookup", "ask", "lock", "insert", "append", "persist"}]
  /\ imsg \in [Inserters -> Messages \cup {None}]
  /\ \A i \in Inserters : ipc[i] # "receive" => imsg[i] \in Messages
  /\ ibar \in [Inserters -> Barrels \cup {None}]
  /\ icopy \in [Inserters -> Seq(Messages)]
  /\ wpc \in [Subs -> {"start", "ask", "lock", "reading", "done"}]
  /\ pending \in [Subs -> Barrels \cup {None}]
  /\ todo \in [Savers -> SUBSET Services]
  /\ vbar \in [Savers -> Barrels \cup {None}]

Pure(s, e) == \A k \in DOMAIN s : ServiceOf[s[k]] = e

\* Whoever works on a barrel holds the store's lock, so that the barrel stays in
\* the map meanwhile.  A receiver has copied logs of its service only.
InserterOK(i) ==
  Inside(i) => /\ i \in readers \/ writer = i
               /\ ibar[i] \in Barrels /\ ibar[i] = barrels[ServiceOf[imsg[i]]]
               /\ ipc[i] = "append" => Pure(icopy[i], ServiceOf[imsg[i]])

HandlerOK ==
  Saving => /\ Handler \in readers
            /\ hbar \in Barrels /\ \E e \in Services : barrels[e] = hbar

SaverOK(t) ==
  Visiting(t) => /\ t \in readers /\ todo[t] \subseteq Mapped
                 /\ spc[t] = "clear" => /\ vbar[t] \in Barrels
                                        /\ \E e \in Services : barrels[e] = vbar[t]

WorkersOK ==
  /\ \A i \in Inserters : InserterOK(i)
  /\ HandlerOK
  /\ \A t \in Savers : SaverOK(t)

\* A barrel in the map has logs of its service only, one in the pool none.
PureOK ==
  /\ \A e \in Mapped : Pure(bar[barrels[e]].buf, e) /\ Pure(bar[barrels[e]].pbuf, e)
  /\ \A b \in pool : bar[b].buf = <<>> /\ bar[b].pbuf = <<>>

\* A channel that is registered, or still to be, is open; it is registered once,
\* and not before the session has asked for it.
SubsOK ==
  /\ \A b \in Barrels : \A s \in bar[b].subs :
       /\ chan[s] = "open" /\ pending[s] = None
       /\ wpc[s] \in {"reading", "done"}
       /\ \A c \in Barrels : s \in bar[c].subs => c = b
  /\ \A s \in Subs : pending[s] # None => chan[s] = "open" /\ wpc[s] \in {"reading", "done"}

IInv ==
  /\ TypeOK /\ LocalsOK /\ WorkersOK
  /\ BarrelHasOneOwner /\ PureOK /\ FileIsPure /\ SubsOK

-----------------------------------------------------------------------------
\* Sequences of logs of one service

LEMMA PureAppend ==
  ASSUME NEW s \in Seq(Messages), NEW m \in Messages, Pure(s, ServiceOf[m])
  PROVE  Append(s, m) \in Seq(Messages) /\ Pure(Append(s, m), ServiceOf[m])
<1>1. /\ Len(s) \in Nat /\ DOMAIN s = 1 .. Len(s) /\ DOMAIN Append(s, m) = 1 .. Len(s) + 1
      /\ Append(s, m)[Len(s) + 1] = m /\ \A i \in DOMAIN s : Append(s, m)[i] = s[i]
      /\ Append(s, m) \in Seq(Messages)
  OBVIOUS
<1>2. \A i \in DOMAIN Append(s, m) : i \in DOMAIN s \/ i = Len(s) + 1
  BY <1>1
<1> QED BY <1>1, <1>2 DEF Pure

LEMMA PureConcat ==
  ASSUME NEW s \in Seq(Messages), NEW r \in Seq(Messages), NEW e, Pure(s, e), Pure(r, e)
  PROVE  s \o r \in Seq(Messages) /\ Pure(s \o r, e)
<1>1. /\ Len(s) \in Nat /\ Len(r) \in Nat /\ DOMAIN s = 1 .. Len(s) /\ DOMAIN r = 1 .. Len(r)
      /\ DOMAIN (s \o r) = 1 .. Len(s) + Len(r) /\ s \o r \in Seq(Messages)
      /\ \A i \in 1 .. Len(s) + Len(r) : (s \o r)[i] = IF i <= Len(s) THEN s[i] ELSE r[i - Len(s)]
  OBVIOUS
<1>2. ASSUME NEW i \in DOMAIN (s \o r) PROVE ServiceOf[(s \o r)[i]] = e
  <2>1. CASE i <= Len(s)
    BY <1>1, <1>2, <2>1 DEF Pure
  <2>2. CASE ~(i <= Len(s))
    <3>1. i - Len(s) \in DOMAIN r
      BY <1>1, <1>2, <2>2
    <3> QED BY <1>1, <1>2, <2>2, <3>1 DEF Pure
  <2> QED BY <2>1, <2>2
<1> QED BY <1>1, <1>2 DEF Pure

LEMMA PureEmpty == \A e : Pure(<<>>, e) /\ <<>> \in Seq(Messages)
BY DEF Pure

\* Writing logs of one service leaves the files pure.
LEMMA SaveMessageOK ==
  ASSUME IInv, NEW content \in Seq(Messages), NEW e \in Services, Pure(content, e),
         SaveMessage(content)
  PROVE  file' \in [Services -> SUBSET Messages] /\ FileIsPure'
<1>1. file \in [Services -> SUBSET Messages] /\ FileIsPure
  BY DEF IInv, TypeOK
<1>2. CASE UNCHANGED file
  BY <1>1, <1>2 DEF FileIsPure
<1>3. CASE /\ content # <<>>
           /\ file' = [file EXCEPT ![ServiceOf[content[1]]] = @ \cup Elems(content)]
  <2>1. 1 \in DOMAIN content
    BY <1>3
  <2>2. ServiceOf[content[1]] = e
    BY <2>1 DEF Pure
  <2>3. Elems(content) \subseteq Messages /\ \A m \in Elems(content) : ServiceOf[m] = e
    BY DEF Pure, Elems
  <2>4. file' = [file EXCEPT ![e] = file[e] \cup Elems(content)]
    BY <1>3, <2>2
  <2> QED BY <1>1, <2>3, <2>4 DEF FileIsPure
<1> QED BY <1>2, <1>3 DEF SaveMessage, fileVars

-----------------------------------------------------------------------------
\* Changes of the barrels

\* The map, the pool and the sessions stay as they are.
LEMMA SameMap ==
  ASSUME IInv, UNCHANGED <<barrels, pool, chan, wpc, pending>>,
         \A b \in Barrels : bar'[b].subs = bar[b].subs,
         \A e \in Mapped : Pure(bar'[barrels[e]].buf, e) /\ Pure(bar'[barrels[e]].pbuf, e),
         \A b \in pool : bar'[b].buf = bar[b].buf /\ bar'[b].pbuf = bar[b].pbuf
  PROVE  BarrelHasOneOwner' /\ PureOK' /\ SubsOK' /\ Mapped' = Mapped
<1>1. Mapped' = Mapped
  BY DEF Mapped
<1>2. BarrelHasOneOwner'
  BY <1>1 DEF IInv, BarrelHasOneOwner
<1>3. PureOK'
  BY <1>1 DEF IInv, PureOK
<1>4. SubsOK'
  BY DEF IInv, SubsOK
<1> QED BY <1>1, <1>2, <1>3, <1>4

\* One barrel of the map gets other logs of its service.
LEMMA OneBarrel ==
  ASSUME IInv, UNCHANGED <<barrels, pool, chan, wpc, pending>>,
         NEW e \in Services, NEW b \in Barrels, b = barrels[e], NEW r \in Barrel,
         r.subs = bar[b].subs, Pure(r.buf, e), Pure(r.pbuf, e),
         bar' = [bar EXCEPT ![b] = r]
  PROVE  /\ BarrelHasOneOwner' /\ PureOK' /\ SubsOK' /\ Mapped' = Mapped
         /\ bar' \in [Barrels -> Barrel]
<1>1. bar \in [Barrels -> Barrel] /\ e \in Mapped
  BY NamesAssumption DEF IInv, TypeOK, Mapped
<1>2. bar' \in [Barrels -> Barrel] /\ bar'[b] = r /\ \A c \in Barrels : c # b => bar'[c] = bar[c]
  BY <1>1
<1>3. \A c \in Barrels : bar'[c].subs = bar[c].subs
  BY <1>2
<1>4. ASSUME NEW f \in Mapped PROVE Pure(bar'[barrels[f]].buf, f) /\ Pure(bar'[barrels[f]].pbuf, f)
  <2>1. barrels[f] \in Barrels
    BY <1>4 DEF IInv, TypeOK, Mapped
  <2>2. CASE barrels[f] = b
    <3>1. f = e
      BY <1>1, <2>2 DEF IInv, BarrelHasOneOwner
    <3> QED BY <1>2, <3>1
  <2>3. CASE barrels[f] # b
    BY <1>2, <2>1, <2>3 DEF IInv, PureOK
  <2> QED BY <2>2, <2>3
<1>5. \A c \in pool : bar'[c].buf = bar[c].buf /\ bar'[c].pbuf = bar[c].pbuf
  BY <1>1, <1>2 DEF IInv, BarrelHasOneOwner, TypeOK
<1> QED BY <1>2, <1>3, <1>4, <1>5, SameMap

\* What a barrel of the map holds.
LEMMA MappedBarrel ==
  ASSUME IInv, NEW e \in Services, NEW b \in Barrels, b = barrels[e]
  PROVE  /\ bar[b] \in Barrel /\ bar \in [Barrels -> Barrel]
         /\ bar[b].buf \in Seq(Messages) /\ bar[b].pbuf \in Seq(Messages)
         /\ Pure(bar[b].buf, e) /\ Pure(bar[b].pbuf, e)
<1>1. e \in Mapped
  BY NamesAssumption DEF Mapped
<1> QED BY <1>1 DEF IInv, TypeOK, PureOK, Barrel

-----------------------------------------------------------------------------
\* The store's lock

\* Nobody but t loses the lock.
OthersKeep(t) ==
  \A u : u # t => /\ u \in readers => u \in readers'
                  /\ (writer = u /\ u # None) => writer' = u

LEMMA LockOps ==
  ASSUME NEW t, t # None
  PROVE  /\ RLock(t) => OthersKeep(t) /\ t \in readers'
         /\ RLockUnlock => OthersKeep(t)
         /\ Lock(t) => OthersKeep(t) /\ writer' = t
         /\ LockUnlock(t) => OthersKeep(t)
         /\ Unlock(t) => OthersKeep(t)
         /\ UNCHANGED <<readers, writer>> => OthersKeep(t)
BY DEF RLock, RLockUnlock, Lock, LockUnlock, Unlock, MayLock, OthersKeep, lockVars

LEMMA Names ==
  /\ \A i \in Inserters \cup Subs : i \notin {Handler, Gc, Stopper, None}
  /\ Handler # Gc /\ Handler # Stopper /\ Gc # Stopper
  /\ None \notin {Handler, Gc, Stopper} /\ None \notin Barrels
  /\ \A i \in Inserters, s \in Subs : i # s
  /\ Savers = {Gc, Stopper} /\ Handler \notin Savers
BY NamesAssumption DEF Handler, Gc, Stopper, None, Savers

\* Whoever may lock for writing finds nobody at work on a barrel.
LEMMA NobodyAtWork ==
  ASSUME IInv, NEW t, MayLock(t)
  PROVE  /\ \A i \in Inserters : ~Inside(i)
         /\ ~Saving
         /\ \A s \in Savers : ~Visiting(s)
BY Names DEF MayLock, IInv, WorkersOK, InserterOK, HandlerOK, SaverOK

\* A step of a receiver, and one of somebody who is no worker.
LEMMA InserterMoves ==
  ASSUME IInv, NEW i \in Inserters, UNCHANGED <<barrels, handVars, saveVars>>, OthersKeep(i),
         \A j \in Inserters : j # i => /\ ipc'[j] = ipc[j] /\ imsg'[j] = imsg[j]
                                       /\ ibar'[j] = ibar[j] /\ icopy'[j] = icopy[j],
         InserterOK(i)'
  PROVE  WorkersOK'
<1>1. \A j \in Inserters : j # i => InserterOK(j)'
  <2> SUFFICES ASSUME NEW j \in Inserters, j # i PROVE InserterOK(j)'
    OBVIOUS
  <2>1. InserterOK(j) /\ j # None
    BY Names DEF IInv, WorkersOK
  <2>2. (j \in readers => j \in readers') /\ (writer = j => writer' = j)
    BY <2>1 DEF OthersKeep
  <2> QED BY <2>1, <2>2 DEF InserterOK, Inside
<1>2. HandlerOK'
  BY Names DEF IInv, WorkersOK, HandlerOK, Saving, OthersKeep, handVars
<1>3. \A t \in Savers : SaverOK(t)'
  BY Names DEF IInv, WorkersOK, SaverOK, Visiting, OthersKeep, saveVars, Mapped
<1> QED BY <1>1, <1>2, <1>3 DEF WorkersOK

LEMMA InitIInv == Init => IInv
<1> SUFFICES ASSUME Init PROVE IInv
  OBVIOUS
<1> USE DEF Init
<1>1. Mapped = {}
  BY DEF Mapped
<1>2. EmptyBarrel \in Barrel
  BY DEF EmptyBarrel, Barrel
<1>3. Len(Inbox) \in Nat
  BY LogsAssumption
<1>4. TypeOK
  BY <1>1, <1>2, <1>3, SizesAssumption DEF TypeOK, Places
<1>5. LocalsOK
  BY DEF LocalsOK
<1>6. WorkersOK
  BY DEF WorkersOK, InserterOK, HandlerOK, SaverOK, Inside, Saving, Visiting
<1>7. BarrelHasOneOwner /\ FileIsPure
  BY <1>1 DEF BarrelHasOneOwner, FileIsPure
<1>8. PureOK /\ SubsOK
  BY <1>1 DEF PureOK, SubsOK, EmptyBarrel
<1> QED BY <1>4, <1>5, <1>6, <1>7, <1>8 DEF IInv

-----------------------------------------------------------------------------
\* The receivers

LEMMA ReceiveStep ==
  ASSUME IInv, NEW i \in Inserters, Receive(i)
  PROVE  IInv'
<1>1. /\ ipc[i] = "receive" /\ next < Len(Inbox) /\ next' = next + 1
      /\ imsg' = [imsg EXCEPT ![i] = Inbox[next + 1]] /\ ipc' = [ipc EXCEPT ![i] = "lookup"]
      /\ UNCHANGED <<barrels, pool, bar, readers, writer, barrelEvent, ibar, icopy, wpc, pending, chan,
                     hpc, hbar, spc, todo, vbar, gcEvent, file>>
  BY DEF Receive, IGoto, lockVars, subVars, handVars, saveVars, fileVars
<1>2. next + 1 \in 1 .. Len(Inbox) /\ next' \in 0 .. Len(Inbox) /\ Inbox[next + 1] \in Messages
  <2>1. Len(Inbox) \in Nat /\ next \in 0 .. Len(Inbox)
    BY LogsAssumption DEF IInv, TypeOK
  <2>2. next + 1 \in 1 .. Len(Inbox)
    BY <1>1, <2>1
  <2> QED BY <1>1, <2>1, <2>2, LogsAssumption
<1>3. BarrelHasOneOwner' /\ PureOK' /\ SubsOK' /\ Mapped' = Mapped
  BY <1>1, SameMap DEF IInv, PureOK
<1>4. TypeOK' /\ FileIsPure'
  BY <1>1, <1>2, <1>3 DEF IInv, TypeOK, FileIsPure
<1>5. LocalsOK'
  BY <1>1, <1>2 DEF IInv, LocalsOK
<1>6. WorkersOK'
  <2>1. OthersKeep(i)
    BY <1>1 DEF OthersKeep
  <2>2. InserterOK(i)' /\ UNCHANGED <<handVars, saveVars>>
    BY <1>1 DEF InserterOK, Inside, IInv, LocalsOK, handVars, saveVars
  <2> QED BY <1>1, <2>1, <2>2, InserterMoves DEF IInv, LocalsOK
<1> QED BY <1>3, <1>4, <1>5, <1>6 DEF IInv

LEMMA LookupStep ==
  ASSUME IInv, NEW i \in Inserters, Lookup(i)
  PROVE  IInv'
<1> DEFINE b == barrels[ServiceOf[imsg[i]]]
<1>1. /\ ipc[i] = "lookup"
      /\ UNCHANGED <<barrels, pool, bar, barrelEvent, next, imsg, icopy, wpc, pending, chan,
                     hpc, hbar, spc, todo, vbar, gcEvent, file>>
  BY DEF Lookup, subVars, handVars, saveVars, fileVars
<1>2. \/ b # None /\ RLock(i) /\ ibar' = [ibar EXCEPT ![i] = b] /\ ipc' = [ipc EXCEPT ![i] = "insert"]
      \/ RLockUnlock /\ ipc' = [ipc EXCEPT ![i] = "ask"] /\ UNCHANGED ibar
  BY DEF Lookup, IGoto
<1>3. imsg[i] \in Messages /\ ServiceOf[imsg[i]] \in Services
  BY <1>1, LogsAssumption DEF IInv, LocalsOK
<1>4. b # None => b \in Barrels
  BY <1>3 DEF IInv, TypeOK
<1> HIDE DEF b
<1>5. BarrelHasOneOwner' /\ PureOK' /\ SubsOK' /\ Mapped' = Mapped
  BY <1>1, SameMap DEF IInv, PureOK
<1>6. TypeOK' /\ FileIsPure'
  <2>1. TypeOK'
    BY <1>1, <1>5 DEF IInv, TypeOK
  <2>2. FileIsPure'
    BY <1>1 DEF IInv, FileIsPure
  <2> QED BY <2>1, <2>2
<1>7. LocalsOK'
  <2>1. /\ ipc' \in [Inserters -> {"receive", "lookup", "ask", "lock", "insert", "append", "persist"}]
        /\ \A j \in Inserters : ipc'[j] # "receive" => imsg[j] \in Messages
    BY <1>2, <1>3 DEF IInv, LocalsOK
  <2>2. ibar' \in [Inserters -> Barrels \cup {None}]
    BY <1>2, <1>4 DEF IInv, LocalsOK
  <2> QED BY <1>1, <2>1, <2>2 DEF IInv, LocalsOK
<1>8. WorkersOK'
  <2>1. OthersKeep(i)
    BY <1>2, LockOps, Names
  <2>2. InserterOK(i)'
    <3>1. CASE b # None /\ RLock(i) /\ ibar' = [ibar EXCEPT ![i] = b] /\ ipc' = [ipc EXCEPT ![i] = "insert"]
      <4>1. i \in readers' /\ ibar'[i] = b /\ ipc'[i] = "insert"
        BY <3>1, LockOps, Names DEF IInv, LocalsOK
      <4> QED BY <1>1, <1>4, <3>1, <4>1 DEF InserterOK, b
    <3>2. CASE ipc' = [ipc EXCEPT ![i] = "ask"]
      BY <3>2 DEF InserterOK, Inside, IInv, LocalsOK
    <3> QED BY <1>2, <3>1, <3>2
  <2>3. UNCHANGED <<barrels, handVars, saveVars>>
    BY <1>1 DEF handVars, saveVars
  <2> QED BY <1>1, <1>2, <2>1, <2>2, <2>3, InserterMoves DEF IInv, LocalsOK
<1> QED BY <1>5, <1>6, <1>7, <1>8 DEF IInv

LEMMA AskStep ==
  ASSUME IInv, NEW i \in Inserters, Ask(i)
  PROVE  IInv'
<1>1. /\ ipc[i] = "ask" /\ ipc' = [ipc EXCEPT ![i] = "lock"]
      /\ UNCHANGED <<barrels, pool, bar, readers, writer, barrelEvent, next, imsg, ibar, icopy, wpc,
                     pending, chan, hpc, hbar, spc, todo, vbar, gcEvent, file>>
  BY DEF Ask, IGoto, subVars, handVars, saveVars, fileVars
<1>2. BarrelHasOneOwner' /\ PureOK' /\ SubsOK' /\ Mapped' = Mapped
  BY <1>1, SameMap DEF IInv, PureOK
<1>3. TypeOK' /\ FileIsPure'
  BY <1>1, <1>2 DEF IInv, TypeOK, FileIsPure
<1>4. LocalsOK'
  BY <1>1 DEF IInv, LocalsOK
<1>5. WorkersOK'
  <2>1. OthersKeep(i)
    BY <1>1 DEF OthersKeep
  <2>2. InserterOK(i)' /\ UNCHANGED <<handVars, saveVars>>
    BY <1>1 DEF InserterOK, Inside, IInv, LocalsOK, handVars, saveVars
  <2> QED BY <1>1, <2>1, <2>2, InserterMoves DEF IInv, LocalsOK
<1> QED BY <1>2, <1>3, <1>4, <1>5 DEF IInv

LEMMA InsertBeginStep ==
  ASSUME IInv, NEW i \in Inserters, InsertBegin(i)
  PROVE  IInv'
<1> DEFINE e == ServiceOf[imsg[i]]
           b == ibar[i]
<1>1. /\ ipc[i] = "insert" /\ ipc' = [ipc EXCEPT ![i] = "append"]
      /\ icopy' = [icopy EXCEPT ![i] = bar[b].buf]
      /\ UNCHANGED <<barrels, pool, bar, readers, writer, barrelEvent, next, imsg, ibar, wpc,
                     pending, chan, hpc, hbar, spc, todo, vbar, gcEvent, file>>
  BY DEF InsertBegin, IGoto, lockVars, subVars, handVars, saveVars, fileVars
<1>2. InserterOK(i) /\ Inside(i) /\ b \in Barrels /\ b = barrels[e] /\ e \in Services
  BY <1>1, LogsAssumption DEF IInv, WorkersOK, InserterOK, Inside, LocalsOK
<1>3. bar[b].buf \in Seq(Messages) /\ Pure(bar[b].buf, e)
  BY <1>2, MappedBarrel
<1>4. icopy'[i] = bar[b].buf /\ ipc'[i] = "append" /\ imsg'[i] = imsg[i] /\ ibar'[i] = ibar[i]
  BY <1>1 DEF IInv, LocalsOK
<1> HIDE DEF b, e
<1>5. BarrelHasOneOwner' /\ PureOK' /\ SubsOK' /\ Mapped' = Mapped
  BY <1>1, SameMap DEF IInv, PureOK
<1>6. TypeOK' /\ FileIsPure'
  BY <1>1, <1>5 DEF IInv, TypeOK, FileIsPure
<1>7. LocalsOK'
  BY <1>1, <1>3 DEF IInv, LocalsOK
<1>8. WorkersOK'
  <2>1. OthersKeep(i)
    BY <1>1 DEF OthersKeep
  <2>2. InserterOK(i)'
    BY <1>1, <1>2, <1>3, <1>4 DEF InserterOK, e
  <2>3. UNCHANGED <<handVars, saveVars>>
    BY <1>1 DEF handVars, saveVars
  <2> QED BY <1>1, <2>1, <2>2, <2>3, InserterMoves DEF IInv, LocalsOK
<1> QED BY <1>5, <1>6, <1>7, <1>8 DEF IInv

\* A barrel of the pool is put into the map, whatever was there before.
LEMMA TakeBarrel ==
  ASSUME IInv, NEW e \in Services, NEW b \in pool, pool' = pool \ {b},
         barrels' = [barrels EXCEPT ![e] = b], UNCHANGED bar
  PROVE  /\ BarrelHasOneOwner' /\ PureOK' /\ Mapped' = Mapped \cup {e}
         /\ barrels' \in [Services -> Barrels \cup {None}] /\ pool' \subseteq Barrels
         /\ b \in Barrels /\ barrels'[e] = b
<1>1. /\ barrels \in [Services -> Barrels \cup {None}] /\ pool \subseteq Barrels /\ b \in Barrels
      /\ b # None
  BY Names DEF IInv, TypeOK
<1>2. /\ barrels'[e] = b /\ barrels' \in [Services -> Barrels \cup {None}]
      /\ \A f \in Services : f # e => barrels'[f] = barrels[f]
  BY <1>1
<1>3. Mapped' = Mapped \cup {e}
  BY <1>1, <1>2 DEF Mapped
<1>4. \A f \in Mapped : barrels[f] # b
  BY DEF IInv, BarrelHasOneOwner
<1>5. BarrelHasOneOwner'
  <2> SUFFICES ASSUME NEW f \in Mapped'
               PROVE  /\ barrels'[f] \notin pool'
                      /\ \A g \in Mapped' : barrels'[f] = barrels'[g] => f = g
    BY DEF BarrelHasOneOwner
  <2>1. f \in Services /\ \A g \in Mapped' : g = e \/ (g # e /\ g \in Mapped /\ g \in Services)
    BY <1>3 DEF Mapped
  <2>2. \A g \in Mapped : g # e => barrels'[g] = barrels[g]
    BY <1>2 DEF Mapped
  <2>3. CASE f = e
    BY <1>2, <1>4, <2>1, <2>2, <2>3
  <2>4. CASE f # e
    BY <1>2, <1>4, <2>1, <2>2, <2>4 DEF IInv, BarrelHasOneOwner
  <2> QED BY <2>3, <2>4
<1>6. PureOK'
  <2>1. ASSUME NEW f \in Mapped' PROVE Pure(bar[barrels'[f]].buf, f) /\ Pure(bar[barrels'[f]].pbuf, f)
    <3>1. CASE f = e
      BY <1>2, <3>1, PureEmpty DEF IInv, PureOK
    <3>2. CASE f # e
      <4>1. f \in Mapped /\ barrels'[f] = barrels[f]
        BY <1>2, <1>3, <3>2 DEF Mapped
      <4> QED BY <4>1 DEF IInv, PureOK
    <3> QED BY <3>1, <3>2
  <2>2. \A c \in pool' : bar[c].buf = <<>> /\ bar[c].pbuf = <<>>
    BY DEF IInv, PureOK
  <2> QED BY <2>1, <2>2 DEF PureOK
<1> QED BY <1>1, <1>2, <1>3, <1>5, <1>6

LEMMA NewBarrelStep ==
  ASSUME IInv, NEW i \in Inserters, NewBarrel(i)
  PROVE  IInv'
<1> DEFINE e == ServiceOf[imsg[i]]
<1>1. /\ ipc[i] = "lock" /\ Lock(i) /\ ipc' = [ipc EXCEPT ![i] = "insert"]
      /\ UNCHANGED <<bar, barrelEvent, next, imsg, icopy, wpc, pending, chan,
                     hpc, hbar, spc, todo, vbar, gcEvent, file>>
  BY DEF NewBarrel, IGoto, subVars, handVars, saveVars, fileVars
<1>2. PICK b \in pool : /\ pool' = pool \ {b} /\ barrels' = [barrels EXCEPT ![e] = b]
                        /\ ibar' = [ibar EXCEPT ![i] = b]
  BY DEF NewBarrel
<1>3. imsg[i] \in Messages /\ e \in Services
  BY <1>1, LogsAssumption DEF IInv, LocalsOK
<1> HIDE DEF e
<1>4. /\ BarrelHasOneOwner' /\ PureOK' /\ Mapped' = Mapped \cup {e}
      /\ barrels' \in [Services -> Barrels \cup {None}] /\ pool' \subseteq Barrels
      /\ b \in Barrels /\ barrels'[e] = b
  BY <1>1, <1>2, <1>3, TakeBarrel
<1>5. TypeOK' /\ FileIsPure' /\ SubsOK'
  BY <1>1, <1>4 DEF IInv, TypeOK, FileIsPure, SubsOK
<1>6. LocalsOK'
  BY <1>1, <1>2, <1>3, <1>4 DEF IInv, LocalsOK
<1>7. WorkersOK'
  <2>1. /\ \A j \in Inserters : ~Inside(j)
        /\ ~Saving
        /\ \A s \in Savers : ~Visiting(s)
    BY <1>1, NobodyAtWork DEF Lock
  <2>2. writer' = i /\ ipc'[i] = "insert" /\ ibar'[i] = b /\ \A j \in Inserters : j # i => ipc'[j] = ipc[j]
    BY <1>1, <1>2, <1>4 DEF Lock, IInv, LocalsOK
  <2>3. InserterOK(i)'
    BY <1>1, <1>4, <2>2 DEF InserterOK, e
  <2>4. \A j \in Inserters : j # i => InserterOK(j)'
    BY <2>1, <2>2 DEF InserterOK, Inside
  <2>5. HandlerOK' /\ \A t \in Savers : SaverOK(t)'
    BY <1>1, <2>1 DEF HandlerOK, SaverOK, Saving, Visiting
  <2> QED BY <2>3, <2>4, <2>5 DEF WorkersOK
<1> QED BY <1>4, <1>5, <1>6, <1>7 DEF IInv

\* The command of a barrel in the map.
LEMMA Announced ==
  ASSUME IInv, NEW e \in Services, NEW b \in Barrels, b = barrels[e], NEW content,
         Persistence(b, content)
  PROVE  barrelEvent' \in Seq(Services) /\ Len(barrelEvent') <= ChanCap
<1>1. Named(b) \in Services
  BY DEF Named
<1>2. barrelEvent \in Seq(Services) /\ Len(barrelEvent) <= ChanCap /\ ChanCap \in Nat
  BY SizesAssumption DEF IInv, TypeOK, LocalsOK
<1>3. CASE Len(barrelEvent) < ChanCap
  <2>1. barrelEvent' = Append(barrelEvent, Named(b))
    BY <1>3 DEF Persistence
  <2> QED BY <1>1, <1>2, <1>3, <2>1
<1>4. CASE ~(Len(barrelEvent) < ChanCap)
  BY <1>2, <1>4 DEF Persistence
<1> QED BY <1>3, <1>4

\* The logs of a barrel go to its queue.
LEMMA QueuedBarrel ==
  ASSUME IInv, UNCHANGED <<barrels, pool, chan, wpc, pending>>,
         NEW e \in Services, NEW b \in Barrels, b = barrels[e],
         Persistence(b, bar[b].buf)
  PROVE  /\ BarrelHasOneOwner' /\ PureOK' /\ SubsOK' /\ Mapped' = Mapped
         /\ bar' \in [Barrels -> Barrel]
<1> DEFINE q == bar[b].pbuf \o bar[b].buf
           r == [bar[b] EXCEPT !.need = TRUE, !.pbuf = q, !.buf = <<>>]
<1>1. /\ bar[b] \in Barrel /\ bar \in [Barrels -> Barrel]
      /\ bar[b].buf \in Seq(Messages) /\ bar[b].pbuf \in Seq(Messages)
      /\ Pure(bar[b].buf, e) /\ Pure(bar[b].pbuf, e)
  BY MappedBarrel
<1>2. q \in Seq(Messages) /\ Pure(q, e)
  BY <1>1, PureConcat
<1>3. bar' = [bar EXCEPT ![b] = r]
  BY <1>1 DEF Persistence
<1> HIDE DEF q
<1>4. r \in Barrel /\ r.subs = bar[b].subs /\ r.buf = <<>> /\ r.pbuf = q
  BY <1>1, <1>2, PureEmpty DEF Barrel
<1> HIDE DEF r
<1> QED BY <1>2, <1>3, <1>4, PureEmpty, OneBarrel

\* A receiver is done with its log.
LEMMA InserterLeaves ==
  ASSUME IInv, NEW i \in Inserters, UNCHANGED <<barrels, handVars, saveVars>>, InsertEnd(i),
         \A j \in Inserters : j # i => icopy'[j] = icopy[j]
  PROVE  /\ WorkersOK' /\ ipc' \in [Inserters -> {"receive", "lookup", "ask", "lock", "insert", "append", "persist"}]
         /\ imsg' \in [Inserters -> Messages \cup {None}]
         /\ \A j \in Inserters : ipc'[j] # "receive" => imsg'[j] \in Messages
         /\ ibar' \in [Inserters -> Barrels \cup {None}]
<1>1. /\ Unlock(i) /\ imsg' = [imsg EXCEPT ![i] = None] /\ ibar' = [ibar EXCEPT ![i] = None]
      /\ ipc' = [ipc EXCEPT ![i] = "receive"]
  BY DEF InsertEnd, IGoto
<1>2. /\ ipc'[i] = "receive"
      /\ \A j \in Inserters : j # i => ipc'[j] = ipc[j] /\ imsg'[j] = imsg[j] /\ ibar'[j] = ibar[j]
  BY <1>1 DEF IInv, LocalsOK
<1>3. OthersKeep(i)
  BY <1>1, LockOps, Names
<1>4. InserterOK(i)'
  BY <1>2 DEF InserterOK, Inside
<1>5. WorkersOK'
  BY <1>2, <1>3, <1>4, InserterMoves
<1> QED BY <1>1, <1>2, <1>5 DEF IInv, LocalsOK

LEMMA InsertAppendStep ==
  ASSUME IInv, NEW i \in Inserters, InsertAppend(i)
  PROVE  IInv'
<1> DEFINE e == ServiceOf[imsg[i]]
           b == ibar[i]
           buf == Append(icopy[i], imsg[i])
           r == [bar[b] EXCEPT !.buf = buf]
<1>1. /\ ipc[i] = "append" /\ bar' = [bar EXCEPT ![b].buf = buf] /\ icopy' = [icopy EXCEPT ![i] = <<>>]
      /\ UNCHANGED <<barrels, pool, barrelEvent, next, wpc, pending, chan, hpc, hbar, spc, todo, vbar,
                     gcEvent, file>>
  BY DEF InsertAppend, handVars, saveVars, fileVars
<1>2. \/ ipc' = [ipc EXCEPT ![i] = "persist"] /\ UNCHANGED <<readers, writer, imsg, ibar>>
      \/ InsertEnd(i)
  BY DEF InsertAppend, IGoto, lockVars
<1>3. /\ InserterOK(i) /\ Inside(i) /\ b \in Barrels /\ b = barrels[e] /\ e \in Services
      /\ imsg[i] \in Messages /\ icopy[i] \in Seq(Messages) /\ Pure(icopy[i], e)
  BY <1>1, LogsAssumption DEF IInv, WorkersOK, InserterOK, Inside, LocalsOK
<1>4. buf \in Seq(Messages) /\ Pure(buf, e)
  BY <1>3, PureAppend
<1>5. /\ bar[b] \in Barrel /\ bar \in [Barrels -> Barrel] /\ Pure(bar[b].pbuf, e)
  BY <1>3, MappedBarrel
<1> HIDE DEF b, e, buf
<1>6. bar' = [bar EXCEPT ![b] = r]
  BY <1>1, <1>3, <1>5
<1>7. r \in Barrel /\ r.subs = bar[b].subs /\ r.buf = buf /\ r.pbuf = bar[b].pbuf
  BY <1>4, <1>5 DEF Barrel
<1> HIDE DEF r
<1>8. /\ BarrelHasOneOwner' /\ PureOK' /\ SubsOK' /\ Mapped' = Mapped
      /\ bar' \in [Barrels -> Barrel]
  BY <1>1, <1>3, <1>4, <1>5, <1>6, <1>7, OneBarrel
<1>9. TypeOK' /\ FileIsPure'
  BY <1>1, <1>8 DEF IInv, TypeOK, FileIsPure
<1>10. /\ icopy' \in [Inserters -> Seq(Messages)] /\ \A j \in Inserters : j # i => icopy'[j] = icopy[j]
       /\ UNCHANGED <<handVars, saveVars>>
  BY <1>1 DEF IInv, LocalsOK, handVars, saveVars
<1>11. CASE InsertEnd(i)
  <2>1. /\ WorkersOK' /\ ipc' \in [Inserters -> {"receive", "lookup", "ask", "lock", "insert", "append", "persist"}]
        /\ imsg' \in [Inserters -> Messages \cup {None}]
        /\ \A j \in Inserters : ipc'[j] # "receive" => imsg'[j] \in Messages
        /\ ibar' \in [Inserters -> Barrels \cup {None}]
    BY <1>1, <1>10, <1>11, InserterLeaves
  <2>2. LocalsOK'
    BY <1>1, <1>10, <2>1 DEF IInv, LocalsOK
  <2> QED BY <1>8, <1>9, <2>1, <2>2 DEF IInv
<1>12. CASE ipc' = [ipc EXCEPT ![i] = "persist"] /\ UNCHANGED <<readers, writer, imsg, ibar>>
  <2>1. ipc'[i] = "persist" /\ \A j \in Inserters : j # i => ipc'[j] = ipc[j]
    BY <1>12 DEF IInv, LocalsOK
  <2>2. LocalsOK'
    BY <1>1, <1>3, <1>10, <1>12 DEF IInv, LocalsOK
  <2>3. InserterOK(i)'
    BY <1>1, <1>3, <1>12, <2>1 DEF InserterOK
  <2>4. OthersKeep(i)
    BY <1>12 DEF OthersKeep
  <2>5. WorkersOK'
    BY <1>1, <1>10, <1>12, <2>1, <2>3, <2>4, InserterMoves
  <2> QED BY <1>8, <1>9, <2>2, <2>5 DEF IInv
<1> QED BY <1>2, <1>11, <1>12

LEMMA InsertPersistStep ==
  ASSUME IInv, NEW i \in Inserters, InsertPersist(i)
  PROVE  IInv'
<1> DEFINE e == ServiceOf[imsg[i]]
           b == ibar[i]
<1>1. /\ ipc[i] = "persist" /\ Persistence(b, bar[b].buf) /\ InsertEnd(i)
      /\ UNCHANGED <<barrels, pool, next, icopy, wpc, pending, chan, hpc, hbar, spc, todo, vbar,
                     gcEvent, file>>
  BY DEF InsertPersist, subVars, handVars, saveVars, fileVars
<1>2. b \in Barrels /\ b = barrels[e] /\ e \in Services
  BY <1>1, LogsAssumption DEF IInv, WorkersOK, InserterOK, Inside, LocalsOK
<1> HIDE DEF b, e
<1>3. /\ BarrelHasOneOwner' /\ PureOK' /\ SubsOK' /\ Mapped' = Mapped
      /\ bar' \in [Barrels -> Barrel]
  BY <1>1, <1>2, QueuedBarrel
<1>4. barrelEvent' \in Seq(Services) /\ Len(barrelEvent') <= ChanCap
  BY <1>1, <1>2, Announced
<1>5. TypeOK' /\ FileIsPure'
  BY <1>1, <1>3, <1>4 DEF IInv, TypeOK, FileIsPure
<1>6. /\ WorkersOK' /\ ipc' \in [Inserters -> {"receive", "lookup", "ask", "lock", "insert", "append", "persist"}]
      /\ imsg' \in [Inserters -> Messages \cup {None}]
      /\ \A j \in Inserters : ipc'[j] # "receive" => imsg'[j] \in Messages
      /\ ibar' \in [Inserters -> Barrels \cup {None}]
  <2>1. UNCHANGED <<handVars, saveVars>>
    BY <1>1 DEF handVars, saveVars
  <2> QED BY <1>1, <2>1, InserterLeaves
<1>7. LocalsOK'
  BY <1>1, <1>4, <1>6 DEF IInv, LocalsOK
<1> QED BY <1>3, <1>5, <1>6, <1>7 DEF IInv

-----------------------------------------------------------------------------
\* Workers that do not move while t does

LEMMA InsertersStay ==
  ASSUME IInv, UNCHANGED <<barrels, ipc, imsg, ibar, icopy>>, NEW t, t \notin Inserters, OthersKeep(t)
  PROVE  \A i \in Inserters : InserterOK(i)'
<1> SUFFICES ASSUME NEW i \in Inserters PROVE InserterOK(i)'
  OBVIOUS
<1>1. InserterOK(i) /\ i # None /\ i # t
  BY Names DEF IInv, WorkersOK
<1>2. (i \in readers => i \in readers') /\ (writer = i => writer' = i)
  BY <1>1 DEF OthersKeep
<1> QED BY <1>1, <1>2 DEF InserterOK, Inside

LEMMA HandlerStays ==
  ASSUME IInv, UNCHANGED <<barrels, hpc, hbar>>, NEW t, t # Handler, OthersKeep(t)
  PROVE  HandlerOK'
BY Names DEF IInv, WorkersOK, HandlerOK, Saving, OthersKeep

LEMMA SaverStays ==
  ASSUME IInv, UNCHANGED barrels, NEW t, NEW u \in Savers, t # u, OthersKeep(t),
         spc'[u] = spc[u], todo'[u] = todo[u], vbar'[u] = vbar[u]
  PROVE  SaverOK(u)'
BY Names DEF IInv, WorkersOK, SaverOK, Visiting, OthersKeep, Mapped

\* ... and when nobody was at work they need not be looked at.
LEMMA NobodyStarts ==
  ASSUME IInv, NEW t, MayLock(t), UNCHANGED <<ipc, hpc>>,
         \A u \in Savers : spc'[u] = spc[u] \/ ~Visiting(u)'
  PROVE  WorkersOK'
BY NobodyAtWork DEF WorkersOK, InserterOK, HandlerOK, SaverOK, Inside, Saving, Visiting

-----------------------------------------------------------------------------
\* The sessions

\* A session gets its channel, which is still to be registered.
LEMMA AddSubChanOK ==
  ASSUME IInv, NEW s \in Subs, NEW b \in Barrels, wpc[s] \in {"start", "lock"},
         AddSubChan(s, b), UNCHANGED bar
  PROVE  /\ SubsOK' /\ chan' \in [Subs -> {"none", "open", "closed"}]
         /\ wpc' \in [Subs -> {"start", "ask", "lock", "reading", "done"}]
         /\ pending' \in [Subs -> Barrels \cup {None}]
<1>1. \A c \in Barrels : bar[c].subs \subseteq Subs /\ s \notin bar[c].subs
  BY DEF IInv, TypeOK, Barrel, SubsOK
<1>2. /\ chan' = [chan EXCEPT ![s] = "open"] /\ pending' = [pending EXCEPT ![s] = b]
      /\ wpc' = [wpc EXCEPT ![s] = "reading"]
  BY <1>1 DEF AddSubChan, WGoto
<1>3. /\ chan \in [Subs -> {"none", "open", "closed"}]
      /\ wpc \in [Subs -> {"start", "ask", "lock", "reading", "done"}]
      /\ pending \in [Subs -> Barrels \cup {None}]
  BY DEF IInv, TypeOK, LocalsOK
<1>4. /\ chan'[s] = "open" /\ wpc'[s] = "reading"
      /\ \A r \in Subs : r # s => chan'[r] = chan[r] /\ pending'[r] = pending[r] /\ wpc'[r] = wpc[r]
  BY <1>2, <1>3
<1>5. SubsOK'
  BY <1>4, <1>1 DEF IInv, SubsOK
<1> QED BY <1>2, <1>3, <1>5

LEMMA SubChanStep ==
  ASSUME IInv, NEW s \in Subs, SubChan(s)
  PROVE  IInv'
<1> DEFINE b == barrels[SubService[s]]
<1>1. /\ wpc[s] = "start" /\ RLockUnlock
      /\ UNCHANGED <<barrels, pool, bar, barrelEvent, next, ipc, imsg, ibar, icopy, hpc, hbar, spc,
                     todo, vbar, gcEvent, file>>
  BY DEF SubChan, insVars, handVars, saveVars, fileVars
<1>2. \/ b # None /\ AddSubChan(s, b)
      \/ wpc' = [wpc EXCEPT ![s] = "ask"] /\ UNCHANGED <<chan, pending>>
  BY DEF SubChan, WGoto
<1>3. b # None => b \in Barrels
  BY LogsAssumption DEF IInv, TypeOK
<1> HIDE DEF b
<1>4. /\ SubsOK' /\ chan' \in [Subs -> {"none", "open", "closed"}]
      /\ wpc' \in [Subs -> {"start", "ask", "lock", "reading", "done"}]
      /\ pending' \in [Subs -> Barrels \cup {None}]
  <2>1. CASE b # None /\ AddSubChan(s, b)
    BY <1>1, <1>3, <2>1, AddSubChanOK
  <2>2. CASE wpc' = [wpc EXCEPT ![s] = "ask"] /\ UNCHANGED <<chan, pending>>
    BY <1>1, <2>2 DEF IInv, TypeOK, LocalsOK, SubsOK
  <2> QED BY <1>2, <2>1, <2>2
<1>5. Mapped' = Mapped
  BY <1>1 DEF Mapped
<1>6. TypeOK' /\ FileIsPure' /\ LocalsOK'
  BY <1>1, <1>4, <1>5 DEF IInv, TypeOK, FileIsPure, LocalsOK
<1>7. BarrelHasOneOwner' /\ PureOK'
  BY <1>1, <1>5 DEF IInv, BarrelHasOneOwner, PureOK
<1>8. WorkersOK'
  <2>1. OthersKeep(s) /\ s # None /\ s \notin Inserters /\ s # Handler /\ s \notin Savers
    BY <1>1, LockOps, Names
  <2> QED BY <1>1, <2>1, InsertersStay, HandlerStays, SaverStays DEF WorkersOK
<1> QED BY <1>4, <1>6, <1>7, <1>8 DEF IInv

LEMMA SubAskStep ==
  ASSUME IInv, NEW s \in Subs, SubAsk(s)
  PROVE  IInv'
<1>1. /\ wpc[s] = "ask" /\ wpc' = [wpc EXCEPT ![s] = "lock"]
      /\ UNCHANGED <<barrels, pool, bar, readers, writer, barrelEvent, next, ipc, imsg, ibar, icopy,
                     pending, chan, hpc, hbar, spc, todo, vbar, gcEvent, file>>
  BY DEF SubAsk, WGoto, insVars, handVars, saveVars, fileVars
<1>2. Mapped' = Mapped
  BY <1>1 DEF Mapped
<1>3. TypeOK' /\ FileIsPure' /\ BarrelHasOneOwner' /\ PureOK'
  BY <1>1, <1>2 DEF IInv, TypeOK, FileIsPure, BarrelHasOneOwner, PureOK
<1>4. LocalsOK' /\ SubsOK'
  BY <1>1 DEF IInv, LocalsOK, SubsOK
<1>5. WorkersOK'
  <2>1. OthersKeep(s) /\ s # None /\ s \notin Inserters /\ s # Handler /\ s \notin Savers
    BY <1>1, LockOps, Names
  <2> QED BY <1>1, <2>1, InsertersStay, HandlerStays, SaverStays DEF WorkersOK
<1> QED BY <1>3, <1>4, <1>5 DEF IInv

LEMMA SubNewBarrelStep ==
  ASSUME IInv, NEW s \in Subs, SubNewBarrel(s)
  PROVE  IInv'
<1> DEFINE e == SubService[s]
<1>1. /\ wpc[s] = "lock" /\ LockUnlock(s) /\ e \in Services
      /\ UNCHANGED <<bar, barrelEvent, next, ipc, imsg, ibar, icopy, hpc, hbar, spc, todo, vbar, gcEvent,
                     file>>
  BY LogsAssumption DEF SubNewBarrel, insVars, handVars, saveVars, fileVars
<1>2. PICK b \in pool : /\ pool' = pool \ {b} /\ barrels' = [barrels EXCEPT ![e] = b]
                        /\ AddSubChan(s, b)
  BY DEF SubNewBarrel
<1> HIDE DEF e
<1>3. /\ BarrelHasOneOwner' /\ PureOK' /\ Mapped' = Mapped \cup {e}
      /\ barrels' \in [Services -> Barrels \cup {None}] /\ pool' \subseteq Barrels
      /\ b \in Barrels
  BY <1>1, <1>2, TakeBarrel
<1>4. /\ SubsOK' /\ chan' \in [Subs -> {"none", "open", "closed"}]
      /\ wpc' \in [Subs -> {"start", "ask", "lock", "reading", "done"}]
      /\ pending' \in [Subs -> Barrels \cup {None}]
  BY <1>1, <1>2, <1>3, AddSubChanOK
<1>5. TypeOK' /\ FileIsPure' /\ LocalsOK'
  BY <1>1, <1>3, <1>4 DEF IInv, TypeOK, FileIsPure, LocalsOK
<1>6. WorkersOK'
  BY <1>1, NobodyStarts DEF LockUnlock
<1> QED BY <1>3, <1>4, <1>5, <1>6 DEF IInv

LEMMA RegisterStep ==
  ASSUME IInv, NEW s \in Subs, Register(s)
  PROVE  IInv'
<1> DEFINE b == pending[s]
           r == [bar[b] EXCEPT !.subs = bar[b].subs \cup {s}]
<1>1. /\ b # None /\ bar' = [bar EXCEPT ![b].subs = @ \cup {s}]
      /\ pending' = [pending EXCEPT ![s] = None]
      /\ UNCHANGED <<barrels, pool, readers, writer, barrelEvent, next, ipc, imsg, ibar, icopy,
                     wpc, chan, hpc, hbar, spc, todo, vbar, gcEvent, file>>
  BY DEF Register, lockVars, insVars, handVars, saveVars, fileVars
<1>2. b \in Barrels /\ bar \in [Barrels -> Barrel] /\ bar[b] \in Barrel
  BY <1>1 DEF IInv, LocalsOK, TypeOK
<1>3. chan[s] = "open" /\ wpc[s] \in {"reading", "done"} /\ \A c \in Barrels : s \notin bar[c].subs
  BY <1>1 DEF IInv, SubsOK
<1>4. pending' \in [Subs -> Barrels \cup {None}] /\ pending'[s] = None
      /\ \A u \in Subs : u # s => pending'[u] = pending[u]
  BY <1>1 DEF IInv, LocalsOK
<1> HIDE DEF b
<1>5. bar' = [bar EXCEPT ![b] = r]
  BY <1>1, <1>2
<1>6. r \in Barrel /\ r.subs = bar[b].subs \cup {s} /\ r.buf = bar[b].buf /\ r.pbuf = bar[b].pbuf
  BY <1>2 DEF Barrel
<1> HIDE DEF r
<1>7. /\ bar' \in [Barrels -> Barrel] /\ bar'[b].subs = bar[b].subs \cup {s}
      /\ \A c \in Barrels : /\ bar'[c].buf = bar[c].buf /\ bar'[c].pbuf = bar[c].pbuf
                            /\ c # b => bar'[c].subs = bar[c].subs
      /\ \A c \in Barrels : bar[c].subs \subseteq Subs
  <2>1. \A c \in Barrels : bar[c].subs \subseteq Subs
    BY <1>2 DEF Barrel
  <2> QED BY <1>2, <1>5, <1>6, <2>1
<1>8. Mapped' = Mapped /\ \A e \in Mapped : barrels[e] \in Barrels
  BY <1>1 DEF Mapped, IInv, TypeOK
<1>9. TypeOK' /\ FileIsPure' /\ BarrelHasOneOwner' /\ PureOK' /\ LocalsOK'
  <2>1. TypeOK' /\ FileIsPure' /\ BarrelHasOneOwner' /\ LocalsOK'
    BY <1>1, <1>4, <1>7, <1>8 DEF IInv, TypeOK, FileIsPure, BarrelHasOneOwner, LocalsOK
  <2>2. PureOK'
    BY <1>1, <1>7, <1>8 DEF IInv, PureOK, TypeOK
  <2> QED BY <2>1, <2>2
<1>10. SubsOK'
  <2>1. ASSUME NEW c \in Barrels, NEW u \in bar'[c].subs
        PROVE  /\ chan[u] = "open" /\ pending'[u] = None /\ wpc[u] \in {"reading", "done"}
               /\ \A d \in Barrels : u \in bar'[d].subs => d = c
    <3>1. CASE u = s
      <4>1. \A d \in Barrels : s \in bar'[d].subs => d = b
        BY <1>3, <1>7
      <4> QED BY <1>3, <1>4, <2>1, <3>1, <4>1
    <3>2. CASE u # s
      <4>1. \A d \in Barrels : u \in bar'[d].subs => u \in bar[d].subs
        BY <1>7, <3>2
      <4>2. u \in bar[c].subs /\ u \in Subs
        BY <1>7, <2>1, <4>1
      <4> QED BY <1>4, <3>2, <4>1, <4>2 DEF IInv, SubsOK
    <3> QED BY <3>1, <3>2
  <2>2. \A u \in Subs : pending'[u] # None => chan[u] = "open" /\ wpc[u] \in {"reading", "done"}
    BY <1>4 DEF IInv, SubsOK
  <2> QED BY <1>1, <2>1, <2>2 DEF SubsOK
<1>11. WorkersOK'
  <2>1. OthersKeep(s) /\ s # None /\ s \notin Inserters /\ s # Handler /\ s \notin Savers
    BY <1>1, LockOps, Names
  <2> QED BY <1>1, <2>1, InsertersStay, HandlerStays, SaverStays DEF WorkersOK
<1> QED BY <1>9, <1>10, <1>11 DEF IInv

LEMMA RealseSubChanStep ==
  ASSUME IInv, NEW s \in Subs, RealseSubChan(s)
  PROVE  IInv'
<1> DEFINE b == barrels[SubService[s]]
           r == [bar[b] EXCEPT !.subs = bar[b].subs \ {s}]
<1>1. /\ wpc[s] = "reading" /\ RLockUnlock /\ wpc' = [wpc EXCEPT ![s] = "done"]
      /\ UNCHANGED <<barrels, pool, barrelEvent, next, ipc, imsg, ibar, icopy, pending,
                     hpc, hbar, spc, todo, vbar, gcEvent, file>>
  BY DEF RealseSubChan, WGoto, insVars, handVars, saveVars, fileVars
<1>2. \/ /\ b # None /\ s \in bar[b].subs /\ bar' = [bar EXCEPT ![b].subs = @ \ {s}]
         /\ chan' = [chan EXCEPT ![s] = "closed"]
      \/ UNCHANGED <<bar, chan>>
  BY DEF RealseSubChan
<1>3. (b # None => b \in Barrels) /\ bar \in [Barrels -> Barrel] /\ \A c \in Barrels : bar[c].subs \subseteq Subs
  <2>1. bar \in [Barrels -> Barrel]
    BY DEF IInv, TypeOK
  <2> QED BY <2>1, LogsAssumption DEF IInv, TypeOK, Barrel
<1>4. /\ wpc' \in [Subs -> {"start", "ask", "lock", "reading", "done"}] /\ wpc'[s] = "done"
      /\ \A u \in Subs : u # s => wpc'[u] = wpc[u]
  BY <1>1 DEF IInv, LocalsOK
<1> HIDE DEF b
<1>5. /\ chan' \in [Subs -> {"none", "open", "closed"}] /\ bar' \in [Barrels -> Barrel]
      /\ \A c \in Barrels : bar'[c].buf = bar[c].buf /\ bar'[c].pbuf = bar[c].pbuf
      /\ SubsOK'
  <2>1. CASE UNCHANGED <<bar, chan>>
    BY <1>1, <1>3, <1>4, <2>1 DEF IInv, TypeOK, SubsOK
  <2>2. CASE /\ b # None /\ s \in bar[b].subs /\ bar' = [bar EXCEPT ![b].subs = @ \ {s}]
             /\ chan' = [chan EXCEPT ![s] = "closed"]
    <3>1. b \in Barrels /\ bar[b] \in Barrel
      BY <1>3, <2>2
    <3>2. bar' = [bar EXCEPT ![b] = r]
      BY <1>3, <2>2, <3>1
    <3>3. r \in Barrel /\ r.subs = bar[b].subs \ {s} /\ r.buf = bar[b].buf /\ r.pbuf = bar[b].pbuf
      BY <3>1 DEF Barrel
    <3> HIDE DEF r
    <3>4. /\ bar' \in [Barrels -> Barrel] /\ bar'[b].subs = bar[b].subs \ {s}
          /\ \A c \in Barrels : /\ bar'[c].buf = bar[c].buf /\ bar'[c].pbuf = bar[c].pbuf
                                /\ c # b => bar'[c].subs = bar[c].subs
      BY <1>3, <3>1, <3>2, <3>3
    <3>5. /\ chan' \in [Subs -> {"none", "open", "closed"}] /\ \A u \in Subs : u # s => chan'[u] = chan[u]
      BY <2>2 DEF IInv, TypeOK
    <3>6. pending[s] = None /\ \A c \in Barrels : s \in bar[c].subs => c = b
      BY <2>2, <3>1 DEF IInv, SubsOK
    <3>7. \A c \in Barrels : s \notin bar'[c].subs /\ bar'[c].subs \subseteq bar[c].subs
      BY <3>4, <3>6
    <3>8. SubsOK'
      BY <1>1, <1>3, <1>4, <3>5, <3>6, <3>7 DEF IInv, SubsOK
    <3> QED BY <3>4, <3>5, <3>8
  <2> QED BY <1>2, <2>1, <2>2
<1>6. Mapped' = Mapped /\ \A e \in Mapped : barrels[e] \in Barrels
  BY <1>1 DEF Mapped, IInv, TypeOK
<1>7. TypeOK' /\ FileIsPure' /\ BarrelHasOneOwner' /\ LocalsOK'
  BY <1>1, <1>4, <1>5, <1>6 DEF IInv, TypeOK, FileIsPure, BarrelHasOneOwner, LocalsOK
<1>8. PureOK'
  BY <1>1, <1>5, <1>6 DEF IInv, PureOK, TypeOK
<1>9. WorkersOK'
  <2>1. OthersKeep(s) /\ s # None /\ s \notin Inserters /\ s # Handler /\ s \notin Savers
    BY <1>1, LockOps, Names
  <2> QED BY <1>1, <2>1, InsertersStay, HandlerStays, SaverStays DEF WorkersOK
<1> QED BY <1>5, <1>7, <1>8, <1>9 DEF IInv

-----------------------------------------------------------------------------
\* The handler

LEMMA HandlerLocalStep ==
  ASSUME IInv, HTake \/ HLookup \/ HExit
  PROVE  IInv'
<1>1. UNCHANGED <<barrels, pool, bar, next, ipc, imsg, ibar, icopy, wpc, pending, chan, spc, todo, vbar,
                  gcEvent, file>>
  BY DEF HTake, HLookup, HExit, insVars, subVars, saveVars, fileVars
<1>2. BarrelHasOneOwner' /\ PureOK' /\ SubsOK' /\ Mapped' = Mapped
  BY <1>1, SameMap DEF IInv, PureOK
<1>3. OthersKeep(Handler)
  <2>1. CASE HTake \/ HExit
    BY <2>1, LockOps, Names DEF HTake, HExit, lockVars
  <2>2. CASE HLookup
    BY <2>2, LockOps, Names DEF HLookup
  <2> QED BY <2>1, <2>2
<1>4. /\ barrelEvent' \in Seq(Services) /\ Len(barrelEvent') <= ChanCap
      /\ hpc' \in {"idle", "lookup", "save", "reset", "exited"}
      /\ hpc' = "lookup" => hbar' \in Services
      /\ HandlerOK'
  <2>1. barrelEvent \in Seq(Services) /\ Len(barrelEvent) <= ChanCap /\ ChanCap \in Nat
    BY SizesAssumption DEF IInv, TypeOK, LocalsOK
  <2>2. CASE HTake
    BY <2>1, <2>2 DEF HTake, HandlerOK, Saving
  <2>3. CASE HLookup
    <3>1. hbar \in Services /\ UNCHANGED barrelEvent
      BY <2>3 DEF HLookup, IInv, LocalsOK
    <3>2. CASE RLock(Handler) /\ barrels[hbar] # None /\ hpc' = "save" /\ hbar' = barrels[hbar]
      <4>1. barrels[hbar] \in Barrels
        BY <3>1, <3>2 DEF IInv, TypeOK
      <4>2. Handler \in readers'
        BY <3>2, LockOps, Names
      <4> QED BY <1>1, <2>1, <3>1, <3>2, <4>1, <4>2 DEF HandlerOK
    <3>3. CASE hpc' = "idle"
      BY <2>1, <3>1, <3>3 DEF HandlerOK, Saving
    <3> QED BY <2>3, <3>2, <3>3 DEF HLookup
  <2>4. CASE HExit
    BY <2>1, <2>4 DEF HExit, HandlerOK, Saving
  <2> QED BY <2>2, <2>3, <2>4
<1>5. TypeOK' /\ FileIsPure' /\ LocalsOK'
  BY <1>1, <1>2, <1>4 DEF IInv, TypeOK, FileIsPure, LocalsOK
<1>6. WorkersOK'
  BY <1>1, <1>3, <1>4, Names, InsertersStay, SaverStays DEF WorkersOK
<1> QED BY <1>2, <1>5, <1>6 DEF IInv

LEMMA HSaveStep ==
  ASSUME IInv, HSave
  PROVE  IInv'
<1>1. /\ hpc = "save" /\ hpc' = "reset" /\ SaveMessage(bar[hbar].pbuf)
      /\ UNCHANGED <<barrels, pool, bar, readers, writer, barrelEvent, next, ipc, imsg, ibar, icopy, wpc,
                     pending, chan, hbar, spc, todo, vbar, gcEvent>>
  BY DEF HSave, lockVars, insVars, subVars, saveVars
<1>2. PICK e \in Services : hbar \in Barrels /\ barrels[e] = hbar
  BY <1>1 DEF IInv, WorkersOK, HandlerOK, Saving
<1>3. bar[hbar].pbuf \in Seq(Messages) /\ Pure(bar[hbar].pbuf, e)
  BY <1>2, MappedBarrel
<1>4. file' \in [Services -> SUBSET Messages] /\ FileIsPure'
  BY <1>1, <1>3, SaveMessageOK
<1>5. BarrelHasOneOwner' /\ PureOK' /\ SubsOK' /\ Mapped' = Mapped
  BY <1>1, SameMap DEF IInv, PureOK
<1>6. TypeOK' /\ LocalsOK'
  BY <1>1, <1>4, <1>5 DEF IInv, TypeOK, LocalsOK
<1>7. WorkersOK'
  <2>1. HandlerOK'
    BY <1>1 DEF IInv, WorkersOK, HandlerOK, Saving
  <2>2. OthersKeep(Handler)
    BY <1>1 DEF OthersKeep
  <2> QED BY <1>1, <2>1, <2>2, Names, InsertersStay, SaverStays DEF WorkersOK
<1> QED BY <1>4, <1>5, <1>6, <1>7 DEF IInv

LEMMA HResetStep ==
  ASSUME IInv, HReset
  PROVE  IInv'
<1> DEFINE r == [bar[hbar] EXCEPT !.pbuf = <<>>, !.need = FALSE]
<1>1. /\ hpc = "reset" /\ hpc' = "idle" /\ bar' = [bar EXCEPT ![hbar].pbuf = <<>>, ![hbar].need = FALSE]
      /\ Unlock(Handler)
      /\ UNCHANGED <<barrels, pool, barrelEvent, next, ipc, imsg, ibar, icopy, wpc, pending, chan,
                     spc, todo, vbar, gcEvent, file>>
  BY DEF HReset, insVars, subVars, saveVars, fileVars
<1>2. PICK e \in Services : hbar \in Barrels /\ barrels[e] = hbar
  BY <1>1 DEF IInv, WorkersOK, HandlerOK, Saving
<1>3. bar[hbar] \in Barrel /\ bar \in [Barrels -> Barrel] /\ Pure(bar[hbar].buf, e)
  BY <1>2, MappedBarrel
<1>4. bar' = [bar EXCEPT ![hbar] = r]
  BY <1>1, <1>2, <1>3
<1>5. r \in Barrel /\ r.subs = bar[hbar].subs /\ r.buf = bar[hbar].buf /\ r.pbuf = <<>>
  BY <1>3, PureEmpty DEF Barrel
<1> HIDE DEF r
<1>6. /\ BarrelHasOneOwner' /\ PureOK' /\ SubsOK' /\ Mapped' = Mapped
      /\ bar' \in [Barrels -> Barrel]
  <2>1. UNCHANGED <<barrels, pool, chan, wpc, pending>>
    BY <1>1
  <2>2. Pure(r.buf, e) /\ Pure(r.pbuf, e)
    BY <1>3, <1>5, PureEmpty
  <2> QED BY <1>2, <1>4, <1>5, <2>1, <2>2, OneBarrel
<1>7. TypeOK' /\ LocalsOK' /\ FileIsPure'
  BY <1>1, <1>6 DEF IInv, TypeOK, LocalsOK, FileIsPure
<1>8. WorkersOK'
  <2>1. HandlerOK' /\ OthersKeep(Handler)
    BY <1>1, LockOps, Names DEF HandlerOK, Saving
  <2> QED BY <1>1, <2>1, Names, InsertersStay, SaverStays DEF WorkersOK
<1> QED BY <1>6, <1>7, <1>8 DEF IInv

-----------------------------------------------------------------------------
\* The collector and stop

\* A barrel of the map is copied behind its queue ...
LEMMA SaveCopyStep ==
  ASSUME IInv, NEW t \in Savers, NEW e \in Services, SaveCopy(t, e),
         gcEvent' \in {gcEvent, gcEvent \cup {e}}
  PROVE  IInv'
<1> DEFINE b == barrels[e]
           q == bar[b].pbuf \o bar[b].buf
           r == [bar[b] EXCEPT !.need = TRUE, !.pbuf = q]
<1>1. /\ spc[t] = "visit" /\ e \in todo[t]
      /\ bar' = [bar EXCEPT ![b].need = TRUE, ![b].pbuf = @ \o bar[b].buf]
      /\ vbar' = [vbar EXCEPT ![t] = b] /\ todo' = [todo EXCEPT ![t] = @ \ {e}]
      /\ spc' = [spc EXCEPT ![t] = "clear"]
      /\ UNCHANGED <<barrels, pool, readers, writer, barrelEvent, next, ipc, imsg, ibar, icopy, wpc,
                     pending, chan, hpc, hbar, file>>
  BY DEF SaveCopy, SGoto, lockVars, insVars, subVars, handVars, fileVars
<1>2. t \in readers /\ todo[t] \subseteq Mapped /\ e \in Mapped /\ b \in Barrels /\ b = barrels[e]
  BY <1>1 DEF IInv, WorkersOK, SaverOK, Visiting, Mapped, TypeOK
<1>3. /\ bar[b] \in Barrel /\ bar \in [Barrels -> Barrel]
      /\ bar[b].buf \in Seq(Messages) /\ bar[b].pbuf \in Seq(Messages)
      /\ Pure(bar[b].buf, e) /\ Pure(bar[b].pbuf, e)
  BY <1>2, MappedBarrel
<1>4. q \in Seq(Messages) /\ Pure(q, e)
  BY <1>3, PureConcat
<1>5. bar' = [bar EXCEPT ![b] = r]
  BY <1>1, <1>2, <1>3
<1> HIDE DEF q
<1>6. r \in Barrel /\ r.subs = bar[b].subs /\ r.buf = bar[b].buf /\ r.pbuf = q
  BY <1>3, <1>4 DEF Barrel
<1> HIDE DEF r, b
<1>7. /\ BarrelHasOneOwner' /\ PureOK' /\ SubsOK' /\ Mapped' = Mapped
      /\ bar' \in [Barrels -> Barrel]
  BY <1>1, <1>2, <1>3, <1>4, <1>5, <1>6, OneBarrel
<1>8. /\ spc' \in [Savers -> Places] /\ todo' \in [Savers -> SUBSET Services]
      /\ vbar' \in [Savers -> Barrels \cup {None}]
      /\ spc'[t] = "clear" /\ vbar'[t] = b /\ todo'[t] \subseteq todo[t]
      /\ \A u \in Savers : u # t => spc'[u] = spc[u] /\ todo'[u] = todo[u] /\ vbar'[u] = vbar[u]
  BY <1>1, <1>2 DEF IInv, TypeOK, LocalsOK, Places
<1>9. TypeOK' /\ LocalsOK' /\ FileIsPure'
  BY <1>1, <1>2, <1>7, <1>8 DEF IInv, TypeOK, LocalsOK, FileIsPure
<1>10. WorkersOK'
  <2>1. OthersKeep(t) /\ t \notin Inserters /\ t # Handler
    BY <1>1, Names DEF OthersKeep
  <2>2. SaverOK(t)'
    BY <1>1, <1>2, <1>7, <1>8 DEF SaverOK
  <2> QED BY <1>1, <1>8, <2>1, <2>2, InsertersStay, HandlerStays, SaverStays DEF WorkersOK
<1> QED BY <1>7, <1>9, <1>10 DEF IInv

\* ... and what it holds is written and dropped.
LEMMA SaveClearStep ==
  ASSUME IInv, NEW t \in Savers, SaveClear(t)
  PROVE  IInv'
<1> DEFINE b == vbar[t]
           r == [bar[b] EXCEPT !.buf = <<>>, !.pbuf = <<>>]
<1>1. /\ spc[t] = "clear" /\ SaveMessage(bar[b].pbuf)
      /\ bar' = [bar EXCEPT ![b].buf = <<>>, ![b].pbuf = <<>>]
      /\ vbar' = [vbar EXCEPT ![t] = None] /\ spc' = [spc EXCEPT ![t] = "visit"]
      /\ UNCHANGED <<barrels, pool, readers, writer, barrelEvent, next, ipc, imsg, ibar, icopy, wpc,
                     pending, chan, hpc, hbar, todo, gcEvent>>
  BY DEF SaveClear, SGoto, lockVars, insVars, subVars, handVars
<1>2. t \in readers /\ todo[t] \subseteq Mapped /\ b \in Barrels /\ \E e \in Services : barrels[e] = b
  BY <1>1 DEF IInv, WorkersOK, SaverOK, Visiting
<1>3. PICK e \in Services : barrels[e] = b
  BY <1>2
<1>4. /\ bar[b] \in Barrel /\ bar \in [Barrels -> Barrel] /\ bar[b].pbuf \in Seq(Messages)
      /\ Pure(bar[b].pbuf, e)
  BY <1>2, <1>3, MappedBarrel
<1>5. file' \in [Services -> SUBSET Messages] /\ FileIsPure'
  BY <1>1, <1>4, SaveMessageOK
<1>6. bar' = [bar EXCEPT ![b] = r]
  BY <1>1, <1>2, <1>4
<1>7. r \in Barrel /\ r.subs = bar[b].subs /\ r.buf = <<>> /\ r.pbuf = <<>>
  BY <1>4, PureEmpty DEF Barrel
<1> HIDE DEF r, b
<1>8. /\ BarrelHasOneOwner' /\ PureOK' /\ SubsOK' /\ Mapped' = Mapped
      /\ bar' \in [Barrels -> Barrel]
  <2>1. UNCHANGED <<barrels, pool, chan, wpc, pending>>
    BY <1>1
  <2>2. Pure(r.buf, e) /\ Pure(r.pbuf, e)
    BY <1>7, PureEmpty
  <2> QED BY <1>2, <1>3, <1>6, <1>7, <2>1, <2>2, OneBarrel
<1>9. /\ spc' \in [Savers -> Places] /\ vbar' \in [Savers -> Barrels \cup {None}] /\ spc'[t] = "visit"
      /\ \A u \in Savers : u # t => spc'[u] = spc[u] /\ vbar'[u] = vbar[u]
  BY <1>1 DEF IInv, TypeOK, LocalsOK, Places
<1>10. TypeOK' /\ LocalsOK'
  BY <1>1, <1>5, <1>8, <1>9 DEF IInv, TypeOK, LocalsOK
<1>11. WorkersOK'
  <2>1. OthersKeep(t) /\ t \notin Inserters /\ t # Handler
    BY <1>1, Names DEF OthersKeep
  <2>2. SaverOK(t)'
    BY <1>1, <1>2, <1>8, <1>9 DEF SaverOK
  <2> QED BY <1>1, <1>9, <2>1, <2>2, InsertersStay, HandlerStays, SaverStays DEF WorkersOK
<1> QED BY <1>5, <1>8, <1>10, <1>11 DEF IInv

LEMMA GcPersistStep ==
  ASSUME IInv, NEW e \in Services, GcPersist(e)
  PROVE  IInv'
<1> DEFINE b == barrels[e]
<1>1. /\ spc[Gc] = "visit" /\ e \in todo[Gc] /\ Persistence(b, bar[b].buf)
      /\ todo' = [todo EXCEPT ![Gc] = @ \ {e}]
      /\ UNCHANGED <<barrels, pool, readers, writer, next, ipc, imsg, ibar, icopy, wpc,
                     pending, chan, hpc, hbar, spc, vbar, gcEvent, file>>
  BY DEF GcPersist, lockVars, insVars, subVars, handVars, fileVars
<1>2. SaverOK(Gc) /\ b \in Barrels /\ b = barrels[e]
  BY <1>1, Names DEF IInv, WorkersOK, SaverOK, Visiting, Mapped, TypeOK
<1> HIDE DEF b
<1>3. /\ BarrelHasOneOwner' /\ PureOK' /\ SubsOK' /\ Mapped' = Mapped
      /\ bar' \in [Barrels -> Barrel]
  BY <1>1, <1>2, QueuedBarrel
<1>4. barrelEvent' \in Seq(Services) /\ Len(barrelEvent') <= ChanCap
  BY <1>1, <1>2, Announced
<1>5. /\ todo' \in [Savers -> SUBSET Services] /\ todo'[Gc] \subseteq todo[Gc]
      /\ \A u \in Savers : u # Gc => todo'[u] = todo[u]
  BY <1>1, Names DEF IInv, LocalsOK
<1>6. TypeOK' /\ LocalsOK' /\ FileIsPure'
  BY <1>1, <1>3, <1>4, <1>5 DEF IInv, TypeOK, LocalsOK, FileIsPure
<1>7. WorkersOK'
  <2>1. OthersKeep(Gc) /\ Gc \notin Inserters /\ Gc # Handler
    BY <1>1, Names DEF OthersKeep
  <2>2. SaverOK(Gc)'
    BY <1>1, <1>2, <1>3, <1>5 DEF SaverOK, Visiting
  <2> QED BY <1>1, <1>5, <2>1, <2>2, InsertersStay, HandlerStays, SaverStays DEF WorkersOK
<1> QED BY <1>3, <1>6, <1>7 DEF IInv

\* The collector or stop takes or gives back the lock or passes a barrel over.
LEMMA SaverLocalStep ==
  ASSUME IInv, NEW t \in Savers, OthersKeep(t),
         UNCHANGED <<barrels, pool, bar, barrelEvent, next, ipc, imsg, ibar, icopy, wpc, pending, chan,
                     hpc, hbar, vbar, gcEvent, file>>,
         NEW place \in Places \ {"clear"}, spc' = [spc EXCEPT ![t] = place],
         NEW S, S \subseteq Mapped, todo' \in {todo, [todo EXCEPT ![t] = S]},
         place = "visit" => t \in readers' /\ todo'[t] = S
  PROVE  IInv'
<1>1. BarrelHasOneOwner' /\ PureOK' /\ SubsOK' /\ Mapped' = Mapped
  BY SameMap DEF IInv, PureOK
<1>2. /\ spc' \in [Savers -> Places] /\ spc'[t] = place /\ todo' \in [Savers -> SUBSET Services]
      /\ \A u \in Savers : u # t => spc'[u] = spc[u] /\ todo'[u] = todo[u]
  BY DEF IInv, TypeOK, LocalsOK, Mapped
<1>3. TypeOK' /\ LocalsOK' /\ FileIsPure'
  BY <1>1, <1>2 DEF IInv, TypeOK, LocalsOK, FileIsPure
<1>4. WorkersOK'
  <2>1. t \notin Inserters /\ t # Handler
    BY Names
  <2>2. SaverOK(t)'
    BY <1>1, <1>2 DEF SaverOK, Visiting
  <2> QED BY <1>2, <2>1, <2>2, InsertersStay, HandlerStays, SaverStays DEF WorkersOK
<1> QED BY <1>1, <1>3, <1>4 DEF IInv

LEMMA GcLocalStep ==
  ASSUME IInv, GcTick \/ GcVisited \/ \E e \in Services : GcSkip(e)
  PROVE  IInv'
<1>1. UNCHANGED <<barrels, pool, bar, barrelEvent, next, ipc, imsg, ibar, icopy, wpc, pending, chan,
                  hpc, hbar, vbar, gcEvent, file>>
  BY DEF GcTick, GcVisited, GcSkip, insVars, subVars, handVars, fileVars
<1>2. Gc \in Savers /\ Gc # None /\ spc \in [Savers -> Places]
  BY Names DEF IInv, TypeOK
<1>3. CASE GcTick
  <2>1. RLock(Gc) /\ spc' = [spc EXCEPT ![Gc] = "visit"] /\ todo' = [todo EXCEPT ![Gc] = Mapped]
    BY <1>3 DEF GcTick, SGoto
  <2>2. OthersKeep(Gc) /\ Gc \in readers' /\ todo'[Gc] = Mapped /\ "visit" \in Places \ {"clear"}
    BY <1>2, <2>1, LockOps DEF IInv, LocalsOK, Places
  <2> QED BY <1>1, <1>2, <2>1, <2>2, SaverLocalStep
<1>4. CASE GcVisited
  <2>1. /\ readers' = readers \ {Gc} /\ UNCHANGED <<writer, todo>>
        /\ \E place \in {"lock", "idle"} : spc' = [spc EXCEPT ![Gc] = place]
    BY <1>4 DEF GcVisited, SGoto
  <2>2. OthersKeep(Gc)
    BY <2>1 DEF OthersKeep
  <2>3. PICK place \in {"lock", "idle"} : spc' = [spc EXCEPT ![Gc] = place]
    BY <2>1
  <2>4. place \in Places \ {"clear"} /\ place # "visit" /\ {} \subseteq Mapped
    BY DEF Places
  <2> QED BY <1>1, <1>2, <2>1, <2>2, <2>3, <2>4, SaverLocalStep
<1>5. ASSUME NEW e \in Services, GcSkip(e) PROVE IInv'
  <2>1. /\ spc[Gc] = "visit" /\ todo' = [todo EXCEPT ![Gc] = @ \ {e}]
        /\ UNCHANGED <<readers, writer, spc>>
    BY <1>5 DEF GcSkip, lockVars
  <2>2. Gc \in readers /\ todo[Gc] \ {e} \subseteq Mapped
    BY <1>2, <2>1 DEF IInv, WorkersOK, SaverOK, Visiting
  <2>3. spc' = [spc EXCEPT ![Gc] = "visit"] /\ "visit" \in Places \ {"clear"} /\ OthersKeep(Gc)
    BY <1>2, <2>1 DEF Places, OthersKeep
  <2>4. todo' = [todo EXCEPT ![Gc] = todo[Gc] \ {e}] /\ todo'[Gc] = todo[Gc] \ {e}
    BY <1>2, <2>1 DEF IInv, LocalsOK
  <2> QED BY <1>1, <1>2, <2>1, <2>2, <2>3, <2>4, SaverLocalStep
<1> QED BY <1>3, <1>4, <1>5

LEMMA StopLocalStep ==
  ASSUME IInv, StopBegin \/ StopRLock \/ StopEnd
  PROVE  IInv'
<1>1. UNCHANGED <<barrels, pool, bar, barrelEvent, next, ipc, imsg, ibar, icopy, wpc, pending, chan,
                  hpc, hbar, vbar, gcEvent, file>>
  BY DEF StopBegin, StopRLock, StopEnd, insVars, subVars, handVars, fileVars
<1>2. Stopper \in Savers /\ Stopper # None /\ spc \in [Savers -> Places]
  BY Names DEF IInv, TypeOK
<1>3. CASE StopRLock
  <2>1. /\ RLock(Stopper) /\ spc' = [spc EXCEPT ![Stopper] = "visit"]
        /\ todo' = [todo EXCEPT ![Stopper] = Mapped]
    BY <1>3 DEF StopRLock, SGoto
  <2>2. /\ OthersKeep(Stopper) /\ Stopper \in readers' /\ todo'[Stopper] = Mapped
        /\ "visit" \in Places \ {"clear"}
    BY <1>2, <2>1, LockOps DEF IInv, LocalsOK, Places
  <2> QED BY <1>1, <1>2, <2>1, <2>2, SaverLocalStep
<1>4. CASE StopBegin \/ StopEnd
  <2>1. UNCHANGED <<readers, writer>> \/ Unlock(Stopper)
    BY <1>4 DEF StopBegin, StopEnd, lockVars
  <2>2. OthersKeep(Stopper)
    BY <1>2, <2>1, LockOps
  <2>3. PICK place \in {"cancelled", "stopped"} : spc' = [spc EXCEPT ![Stopper] = place]
    BY <1>4 DEF StopBegin, StopEnd, SGoto
  <2>4. place \in Places \ {"clear"} /\ place # "visit" /\ {} \subseteq Mapped /\ UNCHANGED todo
    BY <1>4 DEF Places, StopBegin, StopEnd
  <2> QED BY <1>1, <1>2, <2>2, <2>3, <2>4, SaverLocalStep
<1> QED BY <1>3, <1>4

\* Idle barrels are emptied and leave the map for the pool.
LEMMA GcRemoveStep ==
  ASSUME IInv, GcRemove
  PROVE  IInv'
<1> DEFINE gone == {barrels[e] : e \in gcEvent}
<1>1. /\ LockUnlock(Gc)
      /\ chan' = [s \in Subs |-> IF \E b \in gone : s \in bar[b].subs THEN "closed" ELSE chan[s]]
      /\ bar' = [b \in Barrels |-> IF b \in gone THEN EmptyBarrel ELSE bar[b]]
      /\ pool' = pool \cup gone
      /\ barrels' = [e \in Services |-> IF e \in gcEvent THEN None ELSE barrels[e]]
      /\ gcEvent' = {} /\ spc' = [spc EXCEPT ![Gc] = "idle"]
  BY DEF GcRemove, SGoto
<1>2. UNCHANGED <<barrelEvent, next, ipc, imsg, ibar, icopy, wpc, pending, hpc, hbar, todo, vbar, file>>
  BY DEF GcRemove, insVars, handVars, fileVars
<1>3. gcEvent \subseteq Mapped /\ gone \subseteq Barrels
  BY DEF IInv, TypeOK, Mapped
<1>4. \A e \in Mapped : e \in gcEvent <=> barrels[e] \in gone
  BY <1>3 DEF IInv, BarrelHasOneOwner
<1> HIDE DEF gone
<1>5. /\ EmptyBarrel \in Barrel /\ EmptyBarrel.buf = <<>> /\ EmptyBarrel.pbuf = <<>> /\ EmptyBarrel.subs = {}
  BY DEF EmptyBarrel, Barrel
<1>6. \A e \in Mapped' : e \in Mapped /\ barrels'[e] = barrels[e] /\ barrels[e] \notin gone /\ barrels[e] \in Barrels
  <2>1. \A e \in Mapped' : e \in Services /\ e \notin gcEvent /\ barrels'[e] = barrels[e] /\ barrels[e] # None
    BY <1>1 DEF Mapped
  <2>2. \A e \in Services : barrels[e] # None => e \in Mapped /\ barrels[e] \in Barrels
    BY DEF IInv, TypeOK, Mapped
  <2> QED BY <1>4, <2>1, <2>2
<1>7. /\ barrels' \in [Services -> Barrels \cup {None}] /\ pool' \subseteq Barrels
      /\ bar' \in [Barrels -> Barrel] /\ chan' \in [Subs -> {"none", "open", "closed"}]
      /\ spc' \in [Savers -> Places]
  <2>1. bar' \in [Barrels -> Barrel]
    BY <1>1, <1>5 DEF IInv, TypeOK
  <2>2. spc' \in [Savers -> Places]
    BY <1>1 DEF IInv, TypeOK, Places
  <2> QED BY <1>1, <1>3, <2>1, <2>2 DEF IInv, TypeOK
<1>8. TypeOK' /\ LocalsOK' /\ FileIsPure'
  BY <1>1, <1>2, <1>7 DEF IInv, TypeOK, LocalsOK, FileIsPure
<1>9. BarrelHasOneOwner'
  BY <1>1, <1>6 DEF IInv, BarrelHasOneOwner
<1>10. PureOK'
  <2>1. ASSUME NEW e \in Mapped' PROVE Pure(bar'[barrels'[e]].buf, e) /\ Pure(bar'[barrels'[e]].pbuf, e)
    <3>1. bar'[barrels'[e]] = bar[barrels[e]] /\ e \in Mapped
      BY <1>1, <1>6, <2>1
    <3> QED BY <3>1 DEF IInv, PureOK
  <2>2. ASSUME NEW b \in pool' PROVE bar'[b].buf = <<>> /\ bar'[b].pbuf = <<>>
    <3>1. b \in Barrels /\ bar'[b] = IF b \in gone THEN EmptyBarrel ELSE bar[b]
      BY <1>1, <1>7, <2>2
    <3>2. b \notin gone => b \in pool
      BY <1>1, <2>2
    <3> QED BY <1>5, <3>1, <3>2 DEF IInv, PureOK
  <2> QED BY <2>1, <2>2 DEF PureOK
<1>11. SubsOK'
  <2>1. \A b \in Barrels : bar'[b].subs \subseteq bar[b].subs /\ (b \in gone => bar'[b].subs = {})
    BY <1>1, <1>5
  <2>2. \A b \in Barrels : bar[b].subs \subseteq Subs
    <3>1. bar \in [Barrels -> Barrel]
      BY DEF IInv, TypeOK
    <3> QED BY <3>1 DEF Barrel
  <2>3. ASSUME NEW b \in Barrels, NEW s \in bar'[b].subs
        PROVE  /\ chan'[s] = "open" /\ pending[s] = None /\ wpc[s] \in {"reading", "done"}
               /\ \A c \in Barrels : s \in bar'[c].subs => c = b
    <3>1. s \in bar[b].subs /\ s \in Subs /\ b \notin gone
      BY <2>1, <2>2, <2>3
    <3>2. /\ chan[s] = "open" /\ pending[s] = None /\ wpc[s] \in {"reading", "done"}
          /\ \A c \in Barrels : s \in bar[c].subs => c = b
      BY <3>1 DEF IInv, SubsOK
    <3>3. ~\E c \in gone : s \in bar[c].subs
      BY <1>3, <3>1, <3>2
    <3>4. chan'[s] = chan[s]
      BY <1>1, <3>1, <3>3
    <3> QED BY <2>1, <3>2, <3>4
  <2>4. ASSUME NEW s \in Subs, pending[s] # None
        PROVE  chan'[s] = "open" /\ wpc[s] \in {"reading", "done"}
    <3>1. \A b \in Barrels : s \notin bar[b].subs
      BY <2>4 DEF IInv, SubsOK
    <3>2. chan'[s] = chan[s]
      BY <1>1, <1>3, <3>1
    <3> QED BY <2>4, <3>2 DEF IInv, SubsOK
  <2> QED BY <1>2, <2>3, <2>4 DEF SubsOK
<1>12. WorkersOK'
  <2>1. \A u \in Savers : spc'[u] = spc[u] \/ ~Visiting(u)'
    BY <1>1 DEF IInv, TypeOK, Visiting
  <2> QED BY <1>1, <1>2, <2>1, NobodyStarts DEF LockUnlock
<1> QED BY <1>8, <1>9, <1>10, <1>11, <1>12 DEF IInv

-----------------------------------------------------------------------------
LEMMA NextIInv == IInv /\ [Next]_vars => IInv'
<1> SUFFICES ASSUME IInv, [Next]_vars PROVE IInv'
  OBVIOUS
<1>1. CASE UNCHANGED vars
  <2>1. UNCHANGED <<barrels, pool, bar, readers, writer, barrelEvent, next, ipc, imsg, ibar, icopy, wpc,
                    pending, chan, hpc, hbar, spc, todo, vbar, gcEvent, file>>
    BY <1>1 DEF vars, lockVars, insVars, subVars, handVars, saveVars, fileVars
  <2>2. BarrelHasOneOwner' /\ PureOK' /\ SubsOK' /\ Mapped' = Mapped
    BY <2>1, SameMap DEF IInv, PureOK
  <2>3. TypeOK' /\ LocalsOK' /\ FileIsPure'
    BY <2>1, <2>2 DEF IInv, TypeOK, LocalsOK, FileIsPure
  <2>4. WorkersOK'
    BY <2>1, <2>2 DEF IInv, WorkersOK, InserterOK, HandlerOK, SaverOK, Inside, Saving, Visiting
  <2> QED BY <2>2, <2>3, <2>4 DEF IInv
<1>2. ASSUME NEW i \in Inserters, Receive(i) \/ Insert(i) PROVE IInv'
  BY <1>2, ReceiveStep, LookupStep, AskStep, NewBarrelStep, InsertBeginStep, InsertAppendStep,
     InsertPersistStep DEF Insert
<1>3. ASSUME NEW s \in Subs, SubChan(s) \/ Subscribe(s) \/ RealseSubChan(s) PROVE IInv'
  BY <1>3, SubChanStep, SubAskStep, SubNewBarrelStep, RegisterStep, RealseSubChanStep DEF Subscribe
<1>4. CASE Handle
  BY <1>4, HandlerLocalStep, HSaveStep, HResetStep DEF Handle
<1>5. CASE GcTick \/ Collect
  <2>1. ASSUME NEW e \in Services, GcIdle(e) PROVE IInv'
    BY <2>1, SaveCopyStep, Names DEF GcIdle
  <2>2. CASE SaveClear(Gc)
    BY <2>2, SaveClearStep, Names
  <2> QED BY <1>5, <2>1, <2>2, GcPersistStep, GcLocalStep, GcRemoveStep DEF Collect
<1>6. CASE StopBegin \/ StopStep
  <2>1. ASSUME NEW e \in Services, StopSave(e) PROVE IInv'
    BY <2>1, SaveCopyStep, Names DEF StopSave
  <2>2. CASE SaveClear(Stopper)
    BY <2>2, SaveClearStep, Names
  <2> QED BY <1>6, <2>1, <2>2, StopLocalStep DEF StopStep
<1> QED BY <1>1, <1>2, <1>3, <1>4, <1>5, <1>6 DEF Next

LEMMA Invariant == Spec => []IInv
BY InitIInv, NextIInv, PTL DEF Spec

\* Every variable keeps its type, the queue stays within its capacity and the
\* collector only ever plans to remove barrels that are in the map.
THEOREM TypeCorrect == Spec => []TypeOK
<1>1. IInv => TypeOK
  BY DEF IInv
<1> QED BY <1>1, Invariant, PTL

\* No log is sent to, and nobody closes, a channel that was closed before.
THEOREM NoSendOnClosed == Spec => []RegisteredIsOpen
<1>1. IInv => RegisteredIsOpen
  BY DEF IInv, SubsOK, RegisteredIsOpen
<1> QED BY <1>1, Invariant, PTL

\* However barrels are pooled and handed out, no two services have the same one
\* and none that is in use is in the pool.
THEOREM OneOwner == Spec => []BarrelHasOneOwner
<1>1. IInv => BarrelHasOneOwner
  BY DEF IInv
<1> QED BY <1>1, Invariant, PTL

\* The log file of a service has no logs of another one.
THEOREM FilesArePure == Spec => []FileIsPure
<1>1. IInv => FileIsPure
  BY DEF IInv
<1> QED BY <1>1, Invariant, PTL

=============================================================================
