------------------------- MODULE EventClientProofs -------------------------
(***************************************************************************)
(* Proofs about EventClient, for any number of servers, events, handles,   *)
(* loggers, failures and updates.                                          *)
(***************************************************************************)
EXTENDS EventClient, TLAPS

\* The goroutine of a handle in the map has not ended.
RegisteredRuns ==
  \A s \in Servers : handles[s] # 0 => core[<<s, handles[s]>>] \in Running

\* The handles of a server are numbered as they are made; one that is not made
\* yet has no goroutine.
Numbered ==
  \A s \in Servers :
    /\ handles[s] <= made[s]
    /\ \A n \in 1..MaxHandles : n > made[s] => core[<<s, n>>] = "none"

\* A goroutine that ends without a switch of its loggers is excused.
EndExcused == \A h \in Handles : core[h] = "end" => h \in excused

\* getLBChan does not choose a handle that has switched its loggers and is about
\* to end: its server is marked, or an update has cleared the mark.
LeaveMarked ==
  \A s \in Servers :
    handles[s] # 0 /\ core[<<s, handles[s]>>] = "leave"
      => s \in abnormalServer \/ <<s, handles[s]>> \in excused

\* OrphanIsExcused, already when the goroutine is about to end.
OrphanOK ==
  \A e \in Events : loggers[e] # 0 =>
    LET h == logger[loggers[e]].ch
    IN  h # NoChan /\ core[h] \in {"leave", "gone"} => h \in excused

IInv == TypeOK /\ RegisteredRuns /\ OnlyNamedServers /\ Numbered /\ EndExcused
          /\ LeaveMarked /\ OrphanOK

LoggerRec == [event : Events \cup {"none"}, used : BOOLEAN, ch : Handles \cup {NoChan}]

-----------------------------------------------------------------------------
\* What the operators of the manager return

LEMMA NewFacts ==
  ASSUME TypeOK, Numbered, NEW S \in SUBSET Servers, Room(S)
  PROVE  /\ NewHandles(S) \in [Servers -> 0..MaxHandles]
         /\ NewMade(S) \in [Servers -> 0..MaxHandles]
         /\ NewCore(S) \in [Handles -> Running \cup {"none", "gone"}]
         /\ \A s \in Servers : NewHandles(S)[s] <= NewMade(S)[s]
         /\ \A s \in Servers, n \in 1..MaxHandles :
              /\ s \in S /\ n = made[s] + 1 => NewCore(S)[<<s, n>>] = "connect"
              /\ ~(s \in S /\ n = made[s] + 1) => NewCore(S)[<<s, n>>] = core[<<s, n>>]
<1>1. \A s \in S : made[s] + 1 \in 1..MaxHandles
  BY EventClientAssumption DEF Room, TypeOK
<1>2. /\ NewHandles(S) \in [Servers -> 0..MaxHandles]
      /\ NewMade(S) \in [Servers -> 0..MaxHandles]
  BY <1>1 DEF NewHandles, NewMade, TypeOK
<1>3. NewCore(S) \in [Handles -> Running \cup {"none", "gone"}]
  BY DEF NewCore, TypeOK, Running
<1>4. \A s \in Servers : NewHandles(S)[s] <= NewMade(S)[s]
  BY <1>1 DEF NewHandles, NewMade, TypeOK, Numbered
<1>5. \A s \in Servers, n \in 1..MaxHandles :
        /\ s \in S /\ n = made[s] + 1 => NewCore(S)[<<s, n>>] = "connect"
        /\ ~(s \in S /\ n = made[s] + 1) => NewCore(S)[<<s, n>>] = core[<<s, n>>]
  BY DEF NewCore, Handles
<1> QED BY <1>2, <1>3, <1>4, <1>5

LEMMA NewRegistered ==
  ASSUME TypeOK, Numbered, RegisteredRuns, NEW S \in SUBSET Servers, Room(S),
         \A s \in S : handles[s] = 0
  PROVE  \A s \in Servers : NewHandles(S)[s] # 0 =>
           /\ NewCore(S)[<<s, NewHandles(S)[s]>>] \in Running
           /\ s \in S \/ (NewHandles(S)[s] = handles[s]
                            /\ NewCore(S)[<<s, handles[s]>>] = core[<<s, handles[s]>>])
           /\ s \in S => NewCore(S)[<<s, NewHandles(S)[s]>>] = "connect"
<1> TAKE s \in Servers
<1> HAVE NewHandles(S)[s] # 0
<1>1. NewHandles(S)[s] \in 1..MaxHandles
  <2>1. NewHandles(S) \in [Servers -> 0..MaxHandles]
    BY NewFacts
  <2> QED BY <2>1, EventClientAssumption
<1>2. CASE s \in S
  <2>1. NewHandles(S)[s] = made[s] + 1
    BY <1>2 DEF NewHandles
  <2>2. NewCore(S)[<<s, NewHandles(S)[s]>>] = "connect"
    BY <1>1, <1>2, <2>1, NewFacts
  <2> QED BY <1>2, <2>2 DEF Running
<1>3. CASE s \notin S
  <2>1. NewHandles(S)[s] = handles[s]
    BY <1>3 DEF NewHandles
  <2>2. NewCore(S)[<<s, handles[s]>>] = core[<<s, handles[s]>>]
    BY <1>1, <1>3, <2>1, NewFacts
  <2> QED BY <1>1, <1>3, <2>1, <2>2 DEF RegisteredRuns
<1> QED BY <1>2, <1>3

\* getLBChan makes handles for usable servers that have none, and gives every
\* logger nil, a last resort or the handle its server has then.
Chosen(r, ls, A) ==
  /\ r.new \in SUBSET (eventServer \ A)
  /\ \A s \in r.new : handles[s] = 0
  /\ r.last \in SUBSET Handles
  /\ DOMAIN r.ch = ls
  /\ \A l \in ls :
       \/ r.ch[l] = NoChan
       \/ r.ch[l] \in r.last
       \/ \E s \in eventServer \ A : /\ r.ch[l] = <<s, NewHandles(r.new)[s]>>
                                     /\ NewHandles(r.new)[s] # 0

LEMMA Choice ==
  ASSUME TypeOK, NEW ls \in SUBSET Loggers, NEW A \in SUBSET Servers,
         NEW r \in getLBChan(ls, A)
  PROVE  Chosen(r, ls, A)
<1> DEFINE usable == eventServer \ A
<1>1. CASE usable # {}
  <2>1. PICK to \in [ls -> usable] :
          r = [new |-> Missing({to[l] : l \in ls}), last |-> {},
               ch |-> [l \in ls |-> <<to[l], NewHandles(Missing({to[l]}))[to[l]]>>]]
    BY <1>1 DEF getLBChan
  <2>2. r.new \in SUBSET usable /\ \A s \in r.new : handles[s] = 0
    BY <2>1 DEF Missing
  <2>3. \A l \in ls : /\ to[l] \in usable
                      /\ r.ch[l] = <<to[l], NewHandles(r.new)[to[l]]>>
                      /\ NewHandles(r.new)[to[l]] # 0
    <3> TAKE l \in ls
    <3>1. to[l] \in usable /\ to[l] \in Servers
      BY DEF TypeOK
    <3>2. r.ch[l] = <<to[l], NewHandles(Missing({to[l]}))[to[l]]>>
      BY <2>1
    <3>3. to[l] \in r.new <=> handles[to[l]] = 0
      BY <2>1 DEF Missing
    <3>4. to[l] \in Missing({to[l]}) <=> handles[to[l]] = 0
      BY DEF Missing
    <3>5. NewHandles(Missing({to[l]}))[to[l]] = NewHandles(r.new)[to[l]]
      BY <3>1, <3>3, <3>4 DEF NewHandles
    <3>6. made[to[l]] + 1 # 0
      BY <3>1 DEF TypeOK
    <3>7. NewHandles(r.new)[to[l]] # 0
      BY <3>1, <3>3, <3>6 DEF NewHandles
    <3> QED BY <3>1, <3>2, <3>5, <3>7
  <2>4. r.last = {} /\ DOMAIN r.ch = ls
    BY <2>1
  <2> QED BY <2>2, <2>3, <2>4 DEF Chosen
<1>2. CASE usable = {}
  <2>1. PICK ch \in [ls -> IF Registered = {} THEN {NoChan} ELSE Registered] :
          r = [new |-> {}, last |-> {ch[l] : l \in ls} \ {NoChan}, ch |-> ch]
    BY <1>2 DEF getLBChan
  <2>2. Registered \subseteq Handles
    BY DEF Registered, Handles, TypeOK
  <2>3. \A l \in ls : r.ch[l] = NoChan \/ r.ch[l] \in r.last
    BY <2>1
  <2>4. r.last \subseteq Handles
    BY <2>1, <2>2
  <2> QED BY <2>1, <2>3, <2>4 DEF Chosen
<1> QED BY <1>1, <1>2

-----------------------------------------------------------------------------
\* The steps that give handles to servers

\* What a step that makes handles for S leaves of the invariant.
LEMMA NewStep ==
  ASSUME IInv, NEW S \in SUBSET Servers, Room(S), \A s \in S : handles[s] = 0,
         handles' = NewHandles(S), made' = NewMade(S),
         core' = NewCore(S)
  PROVE  /\ RegisteredRuns' /\ Numbered'
         /\ \A h \in Handles : core'[h] \in {"end", "leave", "gone"} => core'[h] = core[h]
<1> USE DEF IInv
<1>1. RegisteredRuns'
  BY NewRegistered DEF RegisteredRuns
<1>2. Numbered'
  <2> SUFFICES ASSUME NEW s \in Servers
               PROVE  /\ handles'[s] <= made'[s]
                      /\ \A n \in 1..MaxHandles : n > made'[s] => core'[<<s, n>>] = "none"
    BY DEF Numbered
  <2>1. handles'[s] <= made'[s]
    BY NewFacts
  <2>2. ASSUME NEW n \in 1..MaxHandles, n > made'[s]
        PROVE  core'[<<s, n>>] = "none"
    <3>1. made[s] \in 0..MaxHandles /\ made'[s] = IF s \in S THEN made[s] + 1 ELSE made[s]
      BY DEF TypeOK, NewMade
    <3>2. n > made[s] /\ ~(s \in S /\ n = made[s] + 1)
      BY <2>2, <3>1, EventClientAssumption
    <3>3. core[<<s, n>>] = "none"
      BY <3>2 DEF Numbered
    <3> QED BY <3>2, <3>3, NewFacts
  <2> QED BY <2>1, <2>2
<1>3. ASSUME NEW h \in Handles, core'[h] \in {"end", "leave", "gone"}
      PROVE  core'[h] = core[h]
  BY <1>3 DEF NewCore
<1> QED BY <1>1, <1>2, <1>3

LEMMA UpdateStep ==
  ASSUME IInv, NEW S \in SUBSET Servers, UpdateEndpoints(S)
  PROVE  IInv'
<1> USE DEF IInv
<1> DEFINE M == Missing(S)
<1>1. M \in SUBSET Servers /\ M \subseteq S /\ Room(M) /\ \A s \in M : handles[s] = 0
  BY DEF UpdateEndpoints, Missing
<1>2. /\ core' = NewCore(M) /\ made' = NewMade(M)
      /\ handles' = [s \in Servers |-> IF s \in S THEN NewHandles(M)[s] ELSE 0]
      /\ excused' = excused \cup {h \in Handles : core[h] = "leave"}
  BY DEF UpdateEndpoints
<1>3. /\ NewHandles(M) \in [Servers -> 0..MaxHandles]
      /\ NewMade(M) \in [Servers -> 0..MaxHandles]
      /\ NewCore(M) \in [Handles -> Running \cup {"none", "gone"}]
      /\ \A s \in Servers : NewHandles(M)[s] <= NewMade(M)[s]
  BY <1>1, NewFacts
<1>4. TypeOK'
  <2>1. count' \in [faults : 0..MaxFaults, updates : 0..MaxUpdates]
    BY EventClientAssumption DEF UpdateEndpoints, TypeOK
  <2>2. handles' \in [Servers -> 0..MaxHandles]
    BY <1>2, <1>3, EventClientAssumption
  <2> QED BY <1>2, <1>3, <2>1, <2>2 DEF UpdateEndpoints, TypeOK
<1>5. \A h \in Handles : core'[h] \in {"end", "leave", "gone"} => core'[h] = core[h]
  BY <1>2 DEF NewCore
<1>6. RegisteredRuns'
  <2> SUFFICES ASSUME NEW s \in Servers, handles'[s] # 0
               PROVE  core'[<<s, handles'[s]>>] \in Running
    BY DEF RegisteredRuns
  <2>1. handles'[s] = NewHandles(M)[s]
    BY <1>2
  <2> QED BY <1>1, <1>2, <2>1, NewRegistered
<1>7. OnlyNamedServers'
  BY <1>2 DEF OnlyNamedServers, UpdateEndpoints
<1>8. Numbered'
  <2> SUFFICES ASSUME NEW s \in Servers
               PROVE  /\ handles'[s] <= made'[s]
                      /\ \A n \in 1..MaxHandles : n > made'[s] => core'[<<s, n>>] = "none"
    BY DEF Numbered
  <2>1. handles'[s] <= made'[s]
    BY <1>2, <1>3, EventClientAssumption
  <2>2. ASSUME NEW n \in 1..MaxHandles, n > made'[s]
        PROVE  core'[<<s, n>>] = "none"
    <3>1. made[s] \in 0..MaxHandles /\ made'[s] = IF s \in M THEN made[s] + 1 ELSE made[s]
      BY <1>2 DEF TypeOK, NewMade
    <3>2. n > made[s] /\ ~(s \in M /\ n = made[s] + 1)
      BY <2>2, <3>1, EventClientAssumption
    <3>3. core[<<s, n>>] = "none"
      BY <3>2 DEF Numbered
    <3> QED BY <1>1, <1>2, <3>2, <3>3, NewFacts
  <2> QED BY <2>1, <2>2
<1>9. EndExcused'
  BY <1>2, <1>5 DEF EndExcused
<1>10. LeaveMarked'
  <2> SUFFICES ASSUME NEW s \in Servers, handles'[s] # 0, core'[<<s, handles'[s]>>] = "leave"
               PROVE  <<s, handles'[s]>> \in excused'
    BY DEF LeaveMarked
  <2>1. <<s, handles'[s]>> \in Handles
    BY <1>4, EventClientAssumption DEF TypeOK, Handles
  <2> QED BY <1>2, <1>5, <2>1
<1>11. OrphanOK'
  <2>1. loggers' = loggers /\ logger' = logger
    BY DEF UpdateEndpoints
  <2> SUFFICES ASSUME NEW e \in Events, loggers[e] # 0, NEW h, h = logger[loggers[e]].ch,
                      h # NoChan, core'[h] \in {"leave", "gone"}
               PROVE  h \in excused'
    BY <2>1 DEF OrphanOK
  <2>2. h \in Handles
    BY DEF TypeOK, Loggers
  <2> QED BY <1>2, <1>5, <2>2 DEF OrphanOK
<1> QED BY <1>4, <1>6, <1>7, <1>8, <1>9, <1>10, <1>11

LEMMA GetLoggerStep ==
  ASSUME IInv, NEW l \in Loggers, NEW e \in Events, GetLogger(l, e)
  PROVE  IInv'
<1> USE DEF IInv
<1>1. PICK r \in getLBChan({l}, abnormalServer) :
        /\ Room(r.new)
        /\ handles' = NewHandles(r.new) /\ core' = NewCore(r.new) /\ made' = NewMade(r.new)
        /\ logger' = [logger EXCEPT ![l] = [event |-> e, used |-> TRUE, ch |-> r.ch[l]]]
        /\ excused' = excused \cup r.last
  BY DEF GetLogger
<1>2. /\ loggers' = [loggers EXCEPT ![e] = l]
      /\ UNCHANGED <<eventServer, abnormalServer, count, done>>
  BY DEF GetLogger
<1>3. abnormalServer \in SUBSET Servers /\ {l} \in SUBSET Loggers
  BY DEF TypeOK
<1>4. /\ r.new \in SUBSET (eventServer \ abnormalServer)
      /\ \A s \in r.new : handles[s] = 0
      /\ r.last \in SUBSET Handles
      /\ \/ r.ch[l] = NoChan
         \/ r.ch[l] \in r.last
         \/ \E s \in eventServer \ abnormalServer :
              /\ r.ch[l] = <<s, NewHandles(r.new)[s]>>
              /\ NewHandles(r.new)[s] # 0
  <2>1. TypeOK
    OBVIOUS
  <2>2. Chosen(r, {l}, abnormalServer)
    BY <1>1, <1>3, <2>1, Choice, Zenon
  <2> QED BY <2>2 DEF Chosen
<1>5. r.new \in SUBSET Servers
  BY <1>4 DEF TypeOK
<1>6. /\ handles' \in [Servers -> 0..MaxHandles]
      /\ made' \in [Servers -> 0..MaxHandles]
      /\ core' \in [Handles -> Running \cup {"none", "gone"}]
  BY <1>1, <1>5, NewFacts
<1>7. r.ch[l] \in Handles \cup {NoChan}
  <2>1. \A s \in Servers : NewHandles(r.new)[s] # 0 => <<s, NewHandles(r.new)[s]>> \in Handles
    BY <1>1, <1>6, EventClientAssumption DEF Handles
  <2> QED BY <1>4, <2>1 DEF TypeOK
<1>8. TypeOK'
  <2>1. logger' \in [Loggers -> [event : Events \cup {"none"}, used : BOOLEAN,
                                 ch : Handles \cup {NoChan}]]
    BY <1>1, <1>7 DEF TypeOK
  <2>2. loggers' \in [Events -> 0..MaxLoggers]
    BY <1>2, EventClientAssumption DEF TypeOK, Loggers
  <2> QED BY <1>1, <1>2, <1>4, <1>6, <2>1, <2>2 DEF TypeOK
<1>9. /\ RegisteredRuns' /\ Numbered'
      /\ \A h \in Handles : core'[h] \in {"end", "leave", "gone"} => core'[h] = core[h]
  BY <1>1, <1>4, <1>5, NewStep
<1>10. OnlyNamedServers'
  BY <1>1, <1>2, <1>4 DEF OnlyNamedServers, NewHandles
<1>11. EndExcused'
  BY <1>1, <1>9 DEF EndExcused
<1>12. LeaveMarked'
  <2> SUFFICES ASSUME NEW s \in Servers, handles'[s] # 0, core'[<<s, handles'[s]>>] = "leave"
               PROVE  s \in abnormalServer' \/ <<s, handles'[s]>> \in excused'
    BY DEF LeaveMarked
  <2>1. handles'[s] = handles[s] /\ core'[<<s, handles[s]>>] = core[<<s, handles[s]>>]
    BY <1>1, <1>4, <1>5, NewRegistered
  <2> QED BY <1>1, <1>2, <2>1 DEF LeaveMarked
<1>13. OrphanOK'
  <2> SUFFICES ASSUME NEW f \in Events, loggers'[f] # 0, NEW h, h = logger'[loggers'[f]].ch,
                      h # NoChan, core'[h] \in {"leave", "gone"}
               PROVE  h \in excused'
    BY DEF OrphanOK
  <2>1. loggers'[f] \in Loggers /\ h \in Handles
    BY <1>8, EventClientAssumption DEF TypeOK, Loggers
  <2>2. core[h] = core'[h]
    BY <1>9, <2>1
  <2>3. CASE loggers'[f] = l
    <3>1. h = r.ch[l]
      BY <1>1, <2>1, <2>3 DEF TypeOK
    <3>2. CASE h \in r.last
      BY <1>1, <3>2
    <3>3. CASE \E s \in eventServer \ abnormalServer :
                 h = <<s, NewHandles(r.new)[s]>> /\ NewHandles(r.new)[s] # 0
      <4>1. PICK s \in eventServer \ abnormalServer :
              h = <<s, NewHandles(r.new)[s]>> /\ NewHandles(r.new)[s] # 0
        BY <3>3
      <4>2. s \in Servers /\ handles'[s] = NewHandles(r.new)[s]
        BY <1>1, <4>1 DEF TypeOK
      <4>3. core'[h] \in Running
        BY <1>9, <4>1, <4>2 DEF RegisteredRuns
      <4>4. core'[h] = "leave"
        BY <4>3 DEF Running
      <4> QED BY <1>2, <1>12, <4>1, <4>2, <4>4 DEF LeaveMarked
    <3> QED BY <1>4, <3>1, <3>2, <3>3
  <2>4. CASE loggers'[f] # l
    <3>1. loggers'[f] = loggers[f] /\ logger'[loggers[f]] = logger[loggers[f]]
      BY <1>1, <1>2, <2>1, <2>4 DEF TypeOK
    <3> QED BY <1>1, <2>2, <3>1 DEF OrphanOK
  <2> QED BY <2>3, <2>4
<1> QED BY <1>8, <1>9, <1>10, <1>11, <1>12, <1>13

LEMMA DiscardStep ==
  ASSUME IInv, NEW g \in Handles, DiscardedLoggerChan(g)
  PROVE  IInv'
<1> USE DEF IInv
<1> DEFINE users == {loggers[e] : e \in Events} \cap {l \in Loggers : logger[l].ch = g}
<1>1. PICK r \in getLBChan(users, abnormalServer') :
        /\ Room(r.new)
        /\ handles' = NewHandles(r.new) /\ made' = NewMade(r.new)
        /\ core' = [NewCore(r.new) EXCEPT ![g] = IF @ = "discard" THEN "leave" ELSE "wait"]
        /\ logger' = Switched(r.ch)
        /\ excused' = excused \cup r.last
  BY DEF DiscardedLoggerChan
<1>2. /\ core[g] \in {"discard", "discard and retry"}
      /\ abnormalServer' = abnormalServer \cup {s \in Servers : <<s, handles[s]>> = g}
      /\ UNCHANGED <<eventServer, loggers, count, done>>
  BY DEF DiscardedLoggerChan
<1>3. abnormalServer' \in SUBSET Servers /\ users \in SUBSET Loggers
  BY <1>2 DEF TypeOK
<1>4. /\ r.new \in SUBSET (eventServer \ abnormalServer')
      /\ \A s \in r.new : handles[s] = 0
      /\ r.last \in SUBSET Handles
      /\ DOMAIN r.ch = users
      /\ \A l \in users :
           \/ r.ch[l] = NoChan
           \/ r.ch[l] \in r.last
           \/ \E s \in eventServer \ abnormalServer' :
                /\ r.ch[l] = <<s, NewHandles(r.new)[s]>>
                /\ NewHandles(r.new)[s] # 0
  <2> HIDE DEF users
  <2>1. TypeOK
    OBVIOUS
  <2>2. Chosen(r, users, abnormalServer')
    BY <1>1, <1>3, <2>1, Choice, Zenon
  <2> QED BY <2>2 DEF Chosen
<1>5. r.new \in SUBSET Servers
  BY <1>4 DEF TypeOK
<1>6. /\ handles' \in [Servers -> 0..MaxHandles]
      /\ made' \in [Servers -> 0..MaxHandles]
      /\ NewCore(r.new) \in [Handles -> Running \cup {"none", "gone"}]
      /\ \A s \in Servers : handles'[s] <= made'[s]
  BY <1>1, <1>5, NewFacts
\* The failed handle is an old one: no server is given it now.
<1>7. /\ core'[g] \in {"leave", "wait"}
      /\ \A h \in Handles : h # g => core'[h] = NewCore(r.new)[h]
      /\ core' \in [Handles -> Running \cup {"none", "gone"}]
  BY <1>1, <1>6 DEF Running
<1>8. \A s \in Servers : <<s, handles'[s]>> = g => s \in abnormalServer' /\ handles'[s] = handles[s]
  <2> SUFFICES ASSUME NEW s \in Servers, <<s, handles'[s]>> = g
               PROVE  s \in abnormalServer' /\ handles'[s] = handles[s]
    OBVIOUS
  <2>1. CASE s \in r.new
    <3>1. handles'[s] = made[s] + 1
      BY <1>1, <2>1 DEF NewHandles
    <3>2. made[s] + 1 > made[s] /\ made[s] + 1 \in 1..MaxHandles
      BY <1>1, <2>1, EventClientAssumption DEF Room, TypeOK
    <3>3. core[<<s, made[s] + 1>>] = "none"
      BY <3>2 DEF Numbered
    <3> QED BY <1>2, <3>1, <3>3
  <2>2. CASE s \notin r.new
    BY <1>1, <1>2, <2>2 DEF NewHandles
  <2> QED BY <2>1, <2>2
<1>9. \A h \in Handles : h # g /\ core'[h] \in {"end", "leave", "gone"} => core'[h] = core[h]
  BY <1>7 DEF NewCore
<1>10. \A l \in users : r.ch[l] \in Handles \cup {NoChan}
  BY <1>1, <1>4, <1>6, EventClientAssumption DEF Handles, TypeOK
<1>11. TypeOK'
  <2>1. logger' \in [Loggers -> [event : Events \cup {"none"}, used : BOOLEAN,
                                 ch : Handles \cup {NoChan}]]
    BY <1>1, <1>4, <1>10 DEF TypeOK, Switched
  <2> QED BY <1>1, <1>2, <1>3, <1>4, <1>6, <1>7, <2>1 DEF TypeOK
<1>12. RegisteredRuns'
  <2> SUFFICES ASSUME NEW s \in Servers, handles'[s] # 0
               PROVE  core'[<<s, handles'[s]>>] \in Running
    BY DEF RegisteredRuns
  <2>1. <<s, handles'[s]>> \in Handles
    BY <1>6, EventClientAssumption DEF Handles
  <2>2. NewCore(r.new)[<<s, handles'[s]>>] \in Running
    BY <1>1, <1>4, <1>5, NewRegistered
  <2> QED BY <1>7, <2>1, <2>2 DEF Running
<1>13. OnlyNamedServers'
  BY <1>1, <1>2, <1>4 DEF OnlyNamedServers, NewHandles
<1>14. Numbered'
  <2> SUFFICES ASSUME NEW s \in Servers, NEW n \in 1..MaxHandles, n > made'[s]
               PROVE  core'[<<s, n>>] = "none"
    BY <1>6 DEF Numbered
  <2>1. made[s] \in 0..MaxHandles /\ made'[s] = IF s \in r.new THEN made[s] + 1 ELSE made[s]
    BY <1>1 DEF TypeOK, NewMade
  <2>2. n > made[s] /\ ~(s \in r.new /\ n = made[s] + 1)
    BY <2>1, EventClientAssumption
  <2>3. core[<<s, n>>] = "none" /\ <<s, n>> \in Handles
    BY <2>2 DEF Numbered, Handles
  <2>4. <<s, n>> # g
    BY <1>2, <2>3
  <2> QED BY <1>1, <1>5, <1>7, <2>2, <2>3, <2>4, NewFacts
<1>15. EndExcused'
  BY <1>1, <1>7, <1>9 DEF EndExcused
<1>16. LeaveMarked'
  <2> SUFFICES ASSUME NEW s \in Servers, handles'[s] # 0, core'[<<s, handles'[s]>>] = "leave"
               PROVE  s \in abnormalServer' \/ <<s, handles'[s]>> \in excused'
    BY DEF LeaveMarked
  <2>1. CASE <<s, handles'[s]>> = g
    BY <1>8, <2>1
  <2>2. CASE <<s, handles'[s]>> # g
    <3>1. <<s, handles'[s]>> \in Handles
      BY <1>6, EventClientAssumption DEF Handles
    <3>2. NewCore(r.new)[<<s, handles'[s]>>] = "leave"
      BY <1>7, <2>2, <3>1
    <3>3. handles'[s] = handles[s] /\ core[<<s, handles[s]>>] = "leave"
      BY <1>1, <1>4, <1>5, <3>2, NewRegistered
    <3> QED BY <1>1, <1>2, <3>3 DEF LeaveMarked
  <2> QED BY <2>1, <2>2
<1>17. OrphanOK'
  <2> SUFFICES ASSUME NEW f \in Events, loggers[f] # 0, NEW h, h = logger'[loggers[f]].ch,
                      h # NoChan, core'[h] \in {"leave", "gone"}
               PROVE  h \in excused'
    BY <1>2 DEF OrphanOK
  <2>1. loggers[f] \in Loggers /\ h \in Handles
    BY <1>11, EventClientAssumption DEF TypeOK, Loggers
  <2>2. CASE loggers[f] \in users
    <3>1. h = r.ch[loggers[f]]
      <4>1. logger[loggers[f]] \in LoggerRec
        BY <2>1 DEF TypeOK, LoggerRec
      <4>2. logger'[loggers[f]] = [logger[loggers[f]] EXCEPT !.ch = r.ch[loggers[f]]]
        BY <1>1, <1>4, <2>1, <2>2 DEF Switched
      <4> QED BY <4>1, <4>2 DEF LoggerRec
    <3>2. CASE h \in r.last
      BY <1>1, <3>2
    <3>3. CASE \E s \in eventServer \ abnormalServer' :
                 h = <<s, NewHandles(r.new)[s]>> /\ NewHandles(r.new)[s] # 0
      <4>1. PICK s \in eventServer \ abnormalServer' :
              h = <<s, NewHandles(r.new)[s]>> /\ NewHandles(r.new)[s] # 0
        BY <3>3
      <4>2. s \in Servers /\ handles'[s] = NewHandles(r.new)[s]
        BY <1>1, <4>1 DEF TypeOK
      <4>3. core'[h] \in Running
        BY <1>12, <4>1, <4>2 DEF RegisteredRuns
      <4>4. core'[h] = "leave"
        BY <4>3 DEF Running
      <4> QED BY <1>16, <4>1, <4>2, <4>4 DEF LeaveMarked
    <3> QED BY <1>4, <2>2, <3>1, <3>2, <3>3
  <2>3. CASE loggers[f] \notin users
    <3>1. logger'[loggers[f]] = logger[loggers[f]]
      BY <1>1, <1>4, <2>1, <2>3 DEF Switched
    <3>2. h # g
      BY <2>1, <2>3, <3>1
    <3> QED BY <1>1, <1>9, <2>1, <3>1, <3>2 DEF OrphanOK
  <2> QED BY <2>2, <2>3
<1> QED BY <1>11, <1>12, <1>13, <1>14, <1>15, <1>16, <1>17

-----------------------------------------------------------------------------
\* The other steps

\* A logger that its user gives back stays the logger of its event.
LEMMA UsedCleared ==
  ASSUME NEW f \in [Loggers -> LoggerRec], NEW l \in Loggers
  PROVE  [f EXCEPT ![l].used = FALSE] \in [Loggers -> LoggerRec]
<1>1. [f[l] EXCEPT !.used = FALSE] \in LoggerRec
  BY DEF LoggerRec
<1> QED BY <1>1

\* An event may have no logger.
LEMMA NoLoggers == 0 \in 0..MaxLoggers
BY EventClientAssumption

\* Users of loggers, the collector and Close do not touch handles.
LEMMA LoggerStep ==
  ASSUME IInv,
         \/ \E l \in Loggers : ReleaseLogger(l)
         \/ \E e \in Events : GC(e)
         \/ Close
  PROVE  IInv'
<1> USE DEF IInv
<1>1. UNCHANGED <<managerVars, excused>>
  BY DEF ReleaseLogger, GC, Close
<1>2. TypeOK'
  <2>1. CASE \E l \in Loggers : ReleaseLogger(l)
    <3>1. PICK l \in Loggers : ReleaseLogger(l)
      BY <2>1
    <3>2. logger' \in [Loggers -> [event : Events \cup {"none"}, used : BOOLEAN,
                                   ch : Handles \cup {NoChan}]]
      BY <3>1, UsedCleared DEF ReleaseLogger, TypeOK, LoggerRec
    <3>3. loggers' \in [Events -> 0..MaxLoggers]
      BY <3>1, NoLoggers DEF ReleaseLogger, TypeOK
    <3> QED BY <1>1, <3>1, <3>2, <3>3 DEF ReleaseLogger, TypeOK, managerVars
  <2>2. CASE \E e \in Events : GC(e)
    BY <1>1, <2>2, EventClientAssumption DEF GC, TypeOK, managerVars
  <2>3. CASE Close
    BY <1>1, <2>3 DEF Close, TypeOK, managerVars
  <2> QED BY <2>1, <2>2, <2>3
<1>3. (RegisteredRuns /\ OnlyNamedServers /\ Numbered /\ EndExcused /\ LeaveMarked)'
  BY <1>1 DEF managerVars, RegisteredRuns, OnlyNamedServers, Numbered, EndExcused, LeaveMarked
<1>4. \A e \in Events : loggers'[e] # 0 =>
        loggers'[e] = loggers[e] /\ logger'[loggers[e]].ch = logger[loggers[e]].ch
  <2>1. CASE \E l \in Loggers : ReleaseLogger(l)
    <3>1. PICK l \in Loggers : ReleaseLogger(l)
      BY <2>1
    <3>2. \A k \in Loggers : logger'[k].ch = logger[k].ch
      BY <3>1 DEF ReleaseLogger, TypeOK
    <3>3. \A e \in Events : loggers'[e] # 0 => loggers'[e] = loggers[e] /\ loggers[e] \in Loggers
      BY <3>1, EventClientAssumption DEF ReleaseLogger, TypeOK, Loggers
    <3> QED BY <3>2, <3>3
  <2>2. CASE \E e \in Events : GC(e)
    BY <2>2 DEF GC, TypeOK
  <2>3. CASE Close
    BY <2>3 DEF Close
  <2> QED BY <2>1, <2>2, <2>3
<1>5. OrphanOK'
  BY <1>1, <1>4 DEF OrphanOK, managerVars
<1> QED BY <1>2, <1>3, <1>5

\* A goroutine that goes on, or that will end after it has been excused.
LEMMA GotoStep ==
  ASSUME IInv, NEW g \in Handles, NEW p \in Running, p # "leave",
         core[g] \in Running, Goto(g, p), SameManager,
         UNCHANGED <<loggers, logger, done>>,
         count' \in [faults : 0..MaxFaults, updates : 0..MaxUpdates],
         excused' \in SUBSET Handles, excused \subseteq excused',
         p = "end" => g \in excused'
  PROVE  IInv'
<1> USE DEF IInv
<1>1. UNCHANGED <<eventServer, abnormalServer, handles, made>>
  BY DEF SameManager
<1>2. /\ core' \in [Handles -> Running \cup {"none", "gone"}]
      /\ core'[g] = p
      /\ \A h \in Handles : h # g => core'[h] = core[h]
  BY DEF Goto, TypeOK
<1>3. TypeOK'
  BY <1>1, <1>2 DEF TypeOK
<1>4. \A s \in Servers : handles[s] # 0 => <<s, handles[s]>> \in Handles
  BY EventClientAssumption DEF TypeOK, Handles
<1>5. RegisteredRuns' /\ OnlyNamedServers'
  BY <1>1, <1>2, <1>4 DEF RegisteredRuns, OnlyNamedServers
<1>6. Numbered'
  <2>1. \A s \in Servers, n \in 1..MaxHandles : <<s, n>> \in Handles
    BY DEF Handles
  <2>2. core[g] # "none"
    BY DEF Running
  <2> QED BY <1>1, <1>2, <2>1, <2>2 DEF Numbered
<1>7. EndExcused'
  BY <1>2 DEF EndExcused
<1>8. LeaveMarked'
  BY <1>1, <1>2, <1>4 DEF LeaveMarked
<1>9. OrphanOK'
  <2> SUFFICES ASSUME NEW e \in Events, loggers[e] # 0, NEW h, h = logger[loggers[e]].ch,
                      h # NoChan, core'[h] \in {"leave", "gone"}
               PROVE  h \in excused'
    BY DEF OrphanOK
  <2>1. h \in Handles
    BY EventClientAssumption DEF TypeOK, Loggers
  <2>2. h # g
    BY <1>2 DEF Running
  <2> QED BY <1>2, <2>1, <2>2 DEF OrphanOK
<1> QED BY <1>3, <1>5, <1>6, <1>7, <1>8, <1>9

LEMMA HandleLogStep ==
  ASSUME IInv, NEW g \in Handles,
         Connect(g) \/ Retry(g) \/ CtxDone(g) \/ ConnectFails(g) \/ LogFails(g) \/ SendFails(g)
  PROVE  IInv'
<1>1. /\ count \in [faults : 0..MaxFaults, updates : 0..MaxUpdates]
      /\ excused \in SUBSET Handles
  BY DEF IInv, TypeOK
<1>2. ASSUME Fault PROVE count' \in [faults : 0..MaxFaults, updates : 0..MaxUpdates]
  BY <1>1, <1>2, EventClientAssumption DEF Fault
<1> USE DEF Running
<1>3. CASE Connect(g)
  BY <1>1, <1>3, GotoStep DEF Connect
<1>4. CASE Retry(g)
  BY <1>1, <1>4, GotoStep DEF Retry
<1>5. CASE CtxDone(g)
  <2>1. excused' \in SUBSET Handles /\ excused \subseteq excused' /\ g \in excused'
    BY <1>1, <1>5 DEF CtxDone
  <2> QED BY <1>1, <1>5, <2>1, GotoStep DEF CtxDone
<1>6. CASE ConnectFails(g)
  <2>1. excused' \in SUBSET Handles /\ excused \subseteq excused' /\ g \in excused'
    BY <1>1, <1>6 DEF ConnectFails
  <2> QED BY <1>2, <1>6, <2>1, GotoStep DEF ConnectFails
<1>7. CASE LogFails(g)
  BY <1>1, <1>2, <1>7, GotoStep DEF LogFails
<1>8. CASE SendFails(g)
  BY <1>1, <1>2, <1>8, GotoStep DEF SendFails
<1> QED BY <1>3, <1>4, <1>5, <1>6, <1>7, <1>8

LEMMA RemoveStep ==
  ASSUME IInv, NEW g \in Handles, RemoveHandle(g)
  PROVE  IInv'
<1> USE DEF IInv
<1>1. /\ UNCHANGED <<eventServer, abnormalServer, made, loggers, logger, count, done, excused>>
      /\ core[g] \in {"leave", "end"}
      /\ handles' = [handles EXCEPT ![g[1]] = 0]
  BY DEF RemoveHandle
<1>2. /\ core' \in [Handles -> Running \cup {"none", "gone"}]
      /\ core'[g] = "gone"
      /\ \A h \in Handles : h # g => core'[h] = core[h]
  BY DEF RemoveHandle, Goto, TypeOK
<1>3. handles' \in [Servers -> 0..MaxHandles]
  <2>1. 0 \in 0..MaxHandles
    BY EventClientAssumption
  <2> QED BY <1>1, <2>1 DEF TypeOK
<1>4. TypeOK'
  BY <1>1, <1>2, <1>3 DEF TypeOK
\* A server that keeps a handle is another one than that of g.
<1>5. \A s \in Servers : handles'[s] # 0 =>
        /\ handles'[s] = handles[s]
        /\ <<s, handles[s]>> \in Handles
        /\ core'[<<s, handles[s]>>] = core[<<s, handles[s]>>]
  <2> SUFFICES ASSUME NEW s \in Servers, handles'[s] # 0
               PROVE  /\ handles'[s] = handles[s]
                      /\ <<s, handles[s]>> \in Handles
                      /\ core'[<<s, handles[s]>>] = core[<<s, handles[s]>>]
    OBVIOUS
  <2>1. s # g[1] /\ handles'[s] = handles[s]
    BY <1>1 DEF TypeOK
  <2>2. <<s, handles[s]>> \in Handles
    BY <2>1, EventClientAssumption DEF TypeOK, Handles
  <2>3. <<s, handles[s]>> # g
    BY <2>1 DEF Handles
  <2> QED BY <1>2, <2>1, <2>2, <2>3
<1>6. RegisteredRuns' /\ OnlyNamedServers' /\ LeaveMarked'
  BY <1>1, <1>5 DEF RegisteredRuns, OnlyNamedServers, LeaveMarked
<1>7. Numbered'
  <2> SUFFICES ASSUME NEW s \in Servers
               PROVE  /\ handles'[s] <= made[s]
                      /\ \A n \in 1..MaxHandles : n > made[s] => core'[<<s, n>>] = "none"
    BY <1>1 DEF Numbered
  <2>1. handles'[s] <= made[s]
    BY <1>1, EventClientAssumption DEF Numbered, TypeOK
  <2>2. ASSUME NEW n \in 1..MaxHandles, n > made[s]
        PROVE  core'[<<s, n>>] = "none"
    <3>1. core[<<s, n>>] = "none" /\ <<s, n>> \in Handles
      BY <2>2 DEF Numbered, Handles
    <3> QED BY <1>1, <1>2, <3>1
  <2> QED BY <2>1, <2>2
<1>8. EndExcused'
  BY <1>1, <1>2 DEF EndExcused
<1>9. OrphanOK'
  <2> SUFFICES ASSUME NEW e \in Events, loggers[e] # 0, NEW h, h = logger[loggers[e]].ch,
                      h # NoChan, core'[h] \in {"leave", "gone"}
               PROVE  h \in excused
    BY <1>1 DEF OrphanOK
  <2>1. h \in Handles
    BY EventClientAssumption DEF TypeOK, Loggers
  <2>2. CASE h # g
    BY <1>2, <2>1, <2>2 DEF OrphanOK
  <2>3. CASE h = g
    BY <1>1, <2>1, <2>3 DEF OrphanOK, EndExcused
  <2> QED BY <2>2, <2>3
<1> QED BY <1>4, <1>6, <1>7, <1>8, <1>9

-----------------------------------------------------------------------------
\* Theorems

LEMMA InitIInv == Init => IInv
<1> SUFFICES ASSUME Init PROVE IInv
  OBVIOUS
<1>1. TypeOK
  <2>1. handles \in [Servers -> 0..MaxHandles] /\ made = handles
    BY EventClientAssumption DEF Init
  <2>2. core \in [Handles -> Running \cup {"none", "gone"}]
    BY DEF Init, Running
  <2>3. loggers \in [Events -> 0..MaxLoggers]
    BY EventClientAssumption DEF Init
  <2>4. count \in [faults : 0..MaxFaults, updates : 0..MaxUpdates]
    BY EventClientAssumption DEF Init
  <2> QED BY <2>1, <2>2, <2>3, <2>4 DEF Init, TypeOK
<1>2. \A s \in Servers, n \in 1..MaxHandles :
        core[<<s, n>>] = IF s \in eventServer /\ n = 1 THEN "connect" ELSE "none"
  BY DEF Init, Handles
<1>3. \A s \in Servers : handles[s] = IF s \in eventServer THEN 1 ELSE 0
  BY DEF Init
<1>4. 1 \in 1..MaxHandles
  BY EventClientAssumption
<1>5. RegisteredRuns /\ OnlyNamedServers /\ LeaveMarked
  BY <1>2, <1>3, <1>4 DEF RegisteredRuns, OnlyNamedServers, LeaveMarked, Running
<1>6. Numbered
  <2>1. made = handles
    BY DEF Init
  <2> QED BY <1>2, <1>3, <1>4, <2>1 DEF Numbered
<1>7. EndExcused
  BY DEF Init, EndExcused
<1>8. OrphanOK
  BY DEF Init, OrphanOK
<1> QED BY <1>1, <1>5, <1>6, <1>7, <1>8 DEF IInv

LEMMA NextIInv == IInv /\ [Next]_vars => IInv'
<1> SUFFICES ASSUME IInv, [Next]_vars PROVE IInv'
  OBVIOUS
<1>1. CASE \E S \in SUBSET Servers : UpdateEndpoints(S)
  BY <1>1, UpdateStep
<1>2. CASE \E l \in Loggers : ReleaseLogger(l) \/ \E e \in Events : GetLogger(l, e)
  BY <1>2, LoggerStep, GetLoggerStep
<1>3. CASE (\E e \in Events : GC(e)) \/ Close
  BY <1>3, LoggerStep
<1>4. CASE \E h \in Handles : HandleLog(h) \/ ConnectFails(h) \/ LogFails(h) \/ SendFails(h)
  BY <1>4, DiscardStep, HandleLogStep, RemoveStep DEF HandleLog
<1>5. CASE UNCHANGED vars
  BY <1>5 DEF vars, managerVars, IInv, TypeOK, RegisteredRuns, OnlyNamedServers, Numbered,
              EndExcused, LeaveMarked, OrphanOK
<1> QED BY <1>1, <1>2, <1>3, <1>4, <1>5 DEF Next

LEMMA Invariant == Spec => []IInv
BY InitIInv, NextIInv, PTL DEF Spec

\* Every variable keeps its type, the bounds on handles and loggers included.
THEOREM TypeCorrect == Spec => []TypeOK
<1>1. IInv => TypeOK
  BY DEF IInv
<1> QED BY <1>1, Invariant, PTL

\* A channel offered to new loggers is read or will be switched away from, but for
\* the goroutines that are excused: the handle of a server without a mark runs
\* (RegisteredRuns), and one that is about to end is excused (LeaveMarked,
\* EndExcused).
THEOREM OffersAreServed == Spec => []OfferedAreServed
<1>1. IInv => OfferedAreServed
  <2> SUFFICES ASSUME IInv, NEW s \in eventServer \ abnormalServer, handles[s] # 0
               PROVE  \/ core[<<s, handles[s]>>] \in Serving
                      \/ /\ <<s, handles[s]>> \in excused
                         /\ core[<<s, handles[s]>>] \in {"leave", "end"}
    BY DEF OfferedAreServed
  <2>1. s \in Servers /\ <<s, handles[s]>> \in Handles
    BY DEF IInv, TypeOK, Handles
  <2>2. core[<<s, handles[s]>>] \in Running
    BY <2>1 DEF IInv, RegisteredRuns
  <2>3. CASE core[<<s, handles[s]>>] = "leave"
    BY <2>1, <2>3 DEF IInv, LeaveMarked
  <2>4. CASE core[<<s, handles[s]>>] = "end"
    BY <2>1, <2>4 DEF IInv, EndExcused
  <2>5. CASE core[<<s, handles[s]>>] \in Serving
    BY <2>5
  <2> QED BY <2>2, <2>3, <2>4, <2>5 DEF Running, Serving
<1> QED BY <1>1, Invariant, PTL

\* Only servers the discovery named last have a handle.
THEOREM HandlesAreNamed == Spec => []OnlyNamedServers
<1>1. IInv => OnlyNamedServers
  BY DEF IInv
<1> QED BY <1>1, Invariant, PTL

\* A logger of the map is left on a channel nobody reads only in the cases that
\* EventClient names, for any number of servers that fail and come back.
THEOREM OrphansAreExcused == Spec => []OrphanIsExcused
<1>1. IInv => OrphanIsExcused
  BY DEF IInv, OrphanOK, OrphanIsExcused
<1> QED BY <1>1, Invariant, PTL
=============================================================================
