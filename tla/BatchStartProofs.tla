-------------------------- MODULE BatchStartProofs --------------------------
(***************************************************************************)
(* Proofs about BatchStart, for any set of services, any dependencies, any *)
(* request and any amount of memory: with no cycle among the dependencies  *)
(* the services that wait boot in their order, and with cycles no two      *)
(* services wait for each other.                                           *)
(***************************************************************************)
EXTENDS BatchStart, TLAPS

Lists == lists \cup ended
Acyclic == NoCycle(Services, deps)

\* d comes after s on a list, and s is on a list.
After(s, d) == \E l \in Lists : \E i \in 1 .. (Len(l) - 1) : l[i] = s /\ l[i + 1] = d
OnList(s) == \E l \in Lists : \E i \in 1 .. Len(l) : l[i] = s

\* Lists exist from the search on, and it leaves none unfinished.
StagesOK ==
  /\ pc = "start" => lists = {} /\ ended = {}
  /\ pc \in {"memory", "send"} => lists = {}

\* A list follows the dependencies, and never one that leads back at once.
EdgesOK ==
  \A l \in Lists : \A i \in 1 .. (Len(l) - 1) :
    l[i + 1] \in sid2depsids(l[i]) /\ l[i] \notin sid2depsids(l[i + 1])

\* Without a cycle no head gets lost, and every dependency of a service that a
\* list has passed is on some list right after it.
HeadsOK == Acyclic /\ pc \in {"search", "memory", "send"} => \A h \in headNodes : OnList(h)
ClosedOK ==
  Acyclic => \A l \in Lists : \A i \in 1 .. Len(l) :
    l \in ended \/ i < Len(l) => \A d \in sid2depsids(l[i]) : After(l[i], d)

\* A service waits for what comes after it on a list, without a cycle for all
\* that it depends on.
WaitOK ==
  \A s \in Services : \A d \in bootSeq[s] : d \in sid2depsids(s) /\ s \notin sid2depsids(d)
SentOK ==
  Acyclic => \A s \in needProxy : deps[s] \subseteq bootSeq[s]

\* Only requests of the batch are granted and started.
RequestsOK ==
  /\ \A i \in 1 .. Len(validRequestes) : validRequestes[i] \in Batch
  /\ needProxy \subseteq Batch

IInv == TypeOK /\ StagesOK /\ EdgesOK /\ HeadsOK /\ ClosedOK /\ WaitOK /\ SentOK /\ RequestsOK
          /\ BootOrder

-----------------------------------------------------------------------------
\* Sequences and relations

LEMMA Lengthened ==
  ASSUME NEW l \in Seq(Services) \ {<<>>}, NEW d \in Services
  PROVE  /\ Len(l) \in Nat \ {0} /\ Last(l) = l[Len(l)] /\ Last(l) \in Services
         /\ Append(l, d) \in Seq(Services) \ {<<>>} /\ Len(Append(l, d)) = Len(l) + 1
         /\ \A i \in 1 .. Len(l) : Append(l, d)[i] = l[i]
         /\ Append(l, d)[Len(l) + 1] = d
<1>1. Len(l) \in Nat \ {0} /\ Last(l) = l[Len(l)]
  BY DEF Last
<1>2. Last(l) \in Services
  BY <1>1
<1>3. Append(l, d) # <<>>
  OBVIOUS
<1> QED BY <1>1, <1>2, <1>3

\* Only services of the request are read, and their dependencies are services.
LEMMA Relations ==
  ASSUME TypeOK
  PROVE  /\ Batch \subseteq Services
         /\ \A s \in Services : sid2depsids(s) \subseteq Services /\ sid2depsids(s) \subseteq deps[s]
         /\ \A s \in Batch : sid2depsids(s) = deps[s]
         /\ headNodes \subseteq Batch
<1>1. Batch \subseteq Services
  BY DEF TypeOK, Batch, ToSet
<1>2. \A s \in Services : sid2depsids(s) \subseteq Services /\ sid2depsids(s) \subseteq deps[s]
  BY DEF TypeOK, sid2depsids
<1>3. \A s \in Batch : sid2depsids(s) = deps[s]
  BY DEF sid2depsids
<1>4. firstWithDeps \subseteq Batch
  BY DEF firstWithDeps, Batch, ToSet
<1> QED BY <1>1, <1>2, <1>3, <1>4 DEF headNodes

\* Without a cycle nothing ends a list before a service without dependencies: a
\* dependency on the list, or with a dependency on it, would close a circle.
LEMMA NothingBlocks ==
  ASSUME TypeOK, EdgesOK, Acyclic, NEW l \in lists
  PROVE  follows(l) = sid2depsids(Last(l))
<1>0. /\ l \in Seq(Services) \ {<<>>} /\ Len(l) \in Nat \ {0} /\ Last(l) = l[Len(l)]
      /\ \A i \in 1 .. Len(l) : l[i] \in Services
  BY DEF TypeOK, Last
<1>1. \A i \in 1 .. (Len(l) - 1) : l[i + 1] \in deps[l[i]]
  BY <1>0, Relations DEF EdgesOK, Lists
<1> SUFFICES ASSUME NEW d \in sid2depsids(Last(l))
             PROVE  ~alreadyInLinkedList(l, d) /\ ~childInLinkedList(l, d)
  BY DEF follows
<1>2. d \in Services /\ d \in deps[l[Len(l)]]
  BY <1>0, Relations
<1>3. ASSUME NEW j \in 1 .. Len(l), NEW part \in SUBSET Services,
             part = {l[i] : i \in j .. Len(l)} \cup {d},
             d = l[j] \/ l[j] \in deps[d]
      PROVE  FALSE
  <2>1. PICK s \in part : \A t \in part : s \notin deps[t]
    <3>1. part # {}
      BY <1>3
    <3> QED BY <3>1 DEF Acyclic, NoCycle
  <2>2. d \in part /\ \A i \in j .. Len(l) : l[i] \in part
    BY <1>3
  <2>3. Len(l) \in j .. Len(l) /\ s # d
    BY <1>0, <1>2, <2>1, <2>2
  <2>4. PICK i \in j .. Len(l) : s = l[i]
    BY <1>3, <2>3
  <2>5. CASE i = j
    BY <1>3, <2>1, <2>2, <2>3, <2>4, <2>5
  <2>6. CASE i # j
    <3>1. i - 1 \in j .. Len(l) /\ i - 1 \in 1 .. (Len(l) - 1) /\ (i - 1) + 1 = i
      BY <1>0, <2>6
    <3>2. l[i] \in deps[l[i - 1]]
      BY <1>1, <3>1
    <3> QED BY <2>1, <2>2, <2>4, <3>1, <3>2
  <2> QED BY <2>5, <2>6
<1>4. ASSUME NEW j \in 1 .. Len(l), d = l[j] \/ l[j] \in deps[d] PROVE FALSE
  <2>1. {l[i] : i \in j .. Len(l)} \cup {d} \in SUBSET Services
    BY <1>0, <1>2
  <2> QED BY <1>3, <1>4, <2>1
<1>5. ~alreadyInLinkedList(l, d)
  BY <1>0, <1>4 DEF alreadyInLinkedList, ToSet
<1>6. ~childInLinkedList(l, d)
  <2> SUFFICES ASSUME NEW e \in sid2depsids(d), e \in ToSet(l) PROVE FALSE
    BY DEF childInLinkedList
  <2>1. PICK j \in 1 .. Len(l) : e = l[j]
    BY <1>0 DEF ToSet
  <2>2. e \in deps[d]
    BY <1>2, Relations
  <2> QED BY <1>4, <2>1, <2>2
<1> QED BY <1>5, <1>6

-----------------------------------------------------------------------------
\* When the search is over every service of the batch is on a list, and with it
\* all that it depends on: the services on no list would have one that nobody
\* of them depends on, which is a head or a dependency of one that is on a list.
LEMMA AllOnLists ==
  ASSUME IInv, Acyclic, lists = {}, pc \in {"search", "memory", "send"},
         NEW s \in Batch
  PROVE  deps[s] \subseteq serviceStartupSequence(s)
<1>1. TypeOK /\ Batch \subseteq Services /\ Lists = ended
  BY Relations DEF IInv, Lists
<1>2. \A t \in Batch : OnList(t) => \A d \in deps[t] : After(t, d)
  <2> SUFFICES ASSUME NEW t \in Batch, NEW l \in Lists, NEW i \in 1 .. Len(l), l[i] = t
               PROVE  \A d \in deps[t] : After(t, d)
    BY DEF OnList
  <2>1. \A d \in sid2depsids(l[i]) : After(l[i], d)
    BY <1>1 DEF IInv, ClosedOK
  <2> QED BY <1>1, <2>1, Relations
<1>3. \A t \in Services, d \in Services : After(t, d) => OnList(d) /\ d \in serviceStartupSequence(t)
  <2> SUFFICES ASSUME NEW t \in Services, NEW d \in Services, NEW l \in Lists,
                      NEW i \in 1 .. (Len(l) - 1), l[i] = t, l[i + 1] = d
               PROVE  OnList(d) /\ d \in serviceStartupSequence(t)
    BY DEF After
  <2>1. Len(l) \in Nat /\ i + 1 \in 1 .. Len(l)
    BY <1>1 DEF TypeOK
  <2> QED BY <1>1, <2>1 DEF OnList, serviceStartupSequence
<1>4. OnList(s)
  <2> DEFINE part == {t \in Batch : ~OnList(t)}
  <2> SUFFICES ASSUME s \in part PROVE FALSE
    OBVIOUS
  <2>1. PICK t \in part : \A u \in part : t \notin deps[u]
    <3>1. part \in SUBSET Services /\ part # {}
      BY <1>1
    <3> HIDE DEF part
    <3> QED BY <3>1 DEF Acyclic, NoCycle
  <2>2. t \notin headNodes
    BY <2>1 DEF IInv, HeadsOK
  <2>3. PICK u \in Batch : t \in deps[u]
    BY <2>1, <2>2 DEF headNodes, depsid2sids
  <2>4. OnList(u)
    BY <2>1, <2>3
  <2> QED BY <1>1, <1>2, <1>3, <2>1, <2>3, <2>4
<1>5. deps[s] \subseteq Services
  BY <1>1 DEF TypeOK
<1> QED BY <1>1, <1>2, <1>3, <1>4, <1>5
-----------------------------------------------------------------------------
\* Steps that leave parts of the state alone

LEMMA SameRelations ==
  ASSUME UNCHANGED <<deps, serviceIDs>>
  PROVE  /\ Batch' = Batch /\ Acyclic' = Acyclic /\ headNodes' = headNodes
         /\ \A s : sid2depsids(s)' = sid2depsids(s)
<1>1. Batch' = Batch
  BY DEF Batch
<1>2. \A s : sid2depsids(s)' = sid2depsids(s)
  BY <1>1 DEF sid2depsids
<1>3. Acyclic' = Acyclic
  BY DEF Acyclic, NoCycle
<1>4. firstWithDeps' = firstWithDeps
  BY <1>1 DEF firstWithDeps, sid2depsids
<1>5. \A s : depsid2sids(s)' = depsid2sids(s)
  BY <1>1 DEF depsid2sids
<1>6. headNodes' = headNodes
  BY <1>1, <1>4, <1>5 DEF headNodes
<1> QED BY <1>1, <1>2, <1>3, <1>6

LEMMA SameLists ==
  ASSUME IInv, UNCHANGED <<deps, serviceIDs, lists, ended>>,
         pc' = "start" => pc = "start",
         pc' \in {"memory", "send"} => lists = {},
         pc' \in {"search", "memory", "send"} => pc \in {"search", "memory", "send"}
  PROVE  StagesOK' /\ EdgesOK' /\ HeadsOK' /\ ClosedOK'
<1>1. Lists' = Lists
  BY DEF Lists
<1>2. \A s : sid2depsids(s)' = sid2depsids(s)
  BY SameRelations
<1>3. Acyclic' = Acyclic /\ headNodes' = headNodes
  BY SameRelations
<1>4. StagesOK'
  BY DEF IInv, StagesOK
<1>5. EdgesOK'
  <2>1. \A l \in Lists' : \A i \in 1 .. (Len(l) - 1) :
          l[i + 1] \in sid2depsids(l[i])' /\ l[i] \notin sid2depsids(l[i + 1])'
    BY <1>1, <1>2 DEF IInv, EdgesOK
  <2> QED BY <2>1 DEF EdgesOK
<1>6. \A s, d : After(s, d)' = After(s, d)
  BY <1>1 DEF After
<1>7. \A s : OnList(s)' = OnList(s)
  BY <1>1 DEF OnList
<1>8. HeadsOK'
  BY <1>3, <1>7 DEF IInv, HeadsOK
<1>9. ClosedOK'
  <2>1. Acyclic' => \A l \in Lists' : \A i \in 1 .. Len(l) :
          l \in ended' \/ i < Len(l) => \A d \in sid2depsids(l[i])' : After(l[i], d)'
    BY <1>1, <1>2, <1>3, <1>6 DEF IInv, ClosedOK
  <2> QED BY <2>1 DEF ClosedOK
<1> QED BY <1>4, <1>5, <1>8, <1>9

LEMMA SameTasks ==
  ASSUME IInv, UNCHANGED <<deps, serviceIDs, bootSeq, status, needProxy, early>>
  PROVE  WaitOK' /\ SentOK' /\ BootOrder'
<1>1. /\ Batch' = Batch /\ Acyclic' = Acyclic
      /\ \A s : sid2depsids(s)' = sid2depsids(s)
  BY SameRelations
<1>2. WaitOK'
  <2>1. \A s \in Services : \A d \in bootSeq'[s] : d \in sid2depsids(s)' /\ s \notin sid2depsids(d)'
    BY <1>1 DEF IInv, WaitOK
  <2> QED BY <2>1 DEF WaitOK
<1>3. SentOK'
  BY <1>1 DEF IInv, SentOK
<1>4. BootOrder'
  BY <1>1 DEF IInv, BootOrder, Acyclic
<1> QED BY <1>2, <1>3, <1>4

LEMMA SameRequests ==
  ASSUME IInv, UNCHANGED <<serviceIDs, validRequestes, needProxy>>
  PROVE  RequestsOK'
BY DEF IInv, RequestsOK, Batch

-----------------------------------------------------------------------------
\* The search

LEMMA NewServiceDependencyStep ==
  ASSUME IInv, NewServiceDependency
  PROVE  IInv'
<1>1. /\ pc = "start" /\ pc' = "search" /\ lists' = {<<h>> : h \in headNodes} /\ ended' = ended
      /\ UNCHANGED <<deps, serviceIDs, allcm, checked, validRequestes, sent, bootSeq, status>>
      /\ UNCHANGED <<needProxy, early>>
  BY DEF NewServiceDependency, memoryVars, taskVars
<1>2. ended' = {} /\ Lists' = {<<h>> : h \in headNodes}
  BY <1>1 DEF IInv, StagesOK, Lists
<1>3. headNodes \subseteq Services
  BY Relations DEF IInv
<1>4. TypeOK'
  <2>1. lists' \subseteq Seq(Services) \ {<<>>}
    <3>1. \A h \in Services : <<h>> \in Seq(Services) \ {<<>>}
      OBVIOUS
    <3> QED BY <1>1, <1>3, <3>1
  <2> QED BY <1>1, <1>2, <2>1 DEF IInv, TypeOK
<1>5. \A l \in Lists' : l # <<>> /\ Len(l) = 1
  BY <1>2
<1>6. StagesOK' /\ EdgesOK' /\ ClosedOK'
  <2>1. StagesOK'
    BY <1>1 DEF StagesOK
  <2>2. EdgesOK'
    <3>1. ASSUME NEW l \in Lists', NEW i \in 1 .. (Len(l) - 1) PROVE FALSE
      <4>1. Len(l) - 1 = 0
        BY <1>5
      <4>2. i \in 1 .. 0
        BY <4>1, Zenon
      <4> QED BY <4>2
    <3> QED BY <3>1 DEF EdgesOK
  <2>3. ClosedOK'
    <3>1. \A l \in Lists' : \A i \in 1 .. Len(l) : ~(l \in ended' \/ i < Len(l))
      BY <1>2, <1>5
    <3> QED BY <3>1 DEF ClosedOK
  <2> QED BY <2>1, <2>2, <2>3
<1>7. HeadsOK'
  <2> SUFFICES ASSUME NEW h \in headNodes PROVE OnList(h)'
    BY <1>1, SameRelations DEF HeadsOK
  <2>1. <<h>> \in Lists' /\ 1 \in 1 .. Len(<<h>>) /\ <<h>>[1] = h
    BY <1>2
  <2> QED BY <2>1 DEF OnList
<1>8. WaitOK' /\ SentOK' /\ BootOrder' /\ RequestsOK'
  BY <1>1, SameTasks, SameRequests
<1> QED BY <1>4, <1>6, <1>7, <1>8 DEF IInv

LEMMA buildLinkListByHeadStep ==
  ASSUME IInv, buildLinkListByHead
  PROVE  IInv'
<1>1. /\ pc = "search" /\ lists' = UNION {{Append(l, d) : d \in follows(l)} : l \in lists}
      /\ ended' = ended \cup {l \in lists : ends(l)}
      /\ UNCHANGED <<deps, serviceIDs, pc, allcm, checked, validRequestes, sent, bootSeq, status>>
      /\ UNCHANGED <<needProxy, early>>
  BY DEF buildLinkListByHead, memoryVars, taskVars
<1>2. /\ TypeOK /\ EdgesOK /\ Batch \subseteq Services
      /\ \A s \in Services : sid2depsids(s) \subseteq Services
      /\ \A s : sid2depsids(s)' = sid2depsids(s)
      /\ Acyclic' = Acyclic /\ headNodes' = headNodes
  BY <1>1, Relations, SameRelations DEF IInv
<1>3. \A l \in lists : l \in Seq(Services) \ {<<>>} /\ Last(l) \in Services /\ follows(l) \subseteq Services
  <2> SUFFICES ASSUME NEW l \in lists
               PROVE  l \in Seq(Services) \ {<<>>} /\ Last(l) \in Services /\ follows(l) \subseteq Services
    OBVIOUS
  <2>1. l \in Seq(Services) \ {<<>>}
    BY <1>2 DEF TypeOK
  <2>2. Last(l) \in Services
    BY <2>1 DEF Last
  <2> QED BY <1>2, <2>1, <2>2 DEF follows
<1>4. \A m \in lists' : \E l \in lists : \E d \in follows(l) : m = Append(l, d)
  BY <1>1
<1>5. \A l \in lists : \A d \in follows(l) : Append(l, d) \in lists'
  BY <1>1
<1>6. TypeOK'
  <2>1. lists' \subseteq Seq(Services) \ {<<>>}
    BY <1>3, <1>4, Lengthened
  <2>2. ended' \subseteq Seq(Services) \ {<<>>}
    BY <1>1, <1>2 DEF TypeOK
  <2> QED BY <1>1, <1>2, <2>1, <2>2 DEF TypeOK
<1>7. StagesOK'
  BY <1>1 DEF StagesOK
<1>8. EdgesOK'
  <2>1. ASSUME NEW l \in lists, NEW d \in follows(l), NEW i \in 1 .. (Len(Append(l, d)) - 1)
        PROVE  /\ Append(l, d)[i + 1] \in sid2depsids(Append(l, d)[i])
               /\ Append(l, d)[i] \notin sid2depsids(Append(l, d)[i + 1])
    <3>1. /\ Len(l) \in Nat \ {0} /\ Last(l) = l[Len(l)] /\ Len(Append(l, d)) = Len(l) + 1
          /\ \A j \in 1 .. Len(l) : Append(l, d)[j] = l[j]
          /\ Append(l, d)[Len(l) + 1] = d
      BY <1>3, Lengthened
    <3>2. CASE i = Len(l)
      <4>1. d \in sid2depsids(Last(l)) /\ sid2depsids(d) \cap ToSet(l) = {}
        BY DEF follows, childInLinkedList
      <4>2. l[Len(l)] \in ToSet(l) /\ Append(l, d)[i] = l[Len(l)] /\ Append(l, d)[i + 1] = d
        BY <3>1, <3>2, <1>3 DEF ToSet
      <4> QED BY <3>1, <4>1, <4>2
    <3>3. CASE i # Len(l)
      <4>1. i \in 1 .. (Len(l) - 1) /\ i \in 1 .. Len(l) /\ i + 1 \in 1 .. Len(l)
        BY <3>1, <3>3
      <4>2. Append(l, d)[i] = l[i] /\ Append(l, d)[i + 1] = l[i + 1]
        BY <3>1, <4>1
      <4> QED BY <1>2, <4>1, <4>2 DEF EdgesOK, Lists
    <3> QED BY <3>2, <3>3
  <2>2. \A l \in Lists' : \A i \in 1 .. (Len(l) - 1) :
          l[i + 1] \in sid2depsids(l[i])' /\ l[i] \notin sid2depsids(l[i + 1])'
    <3> SUFFICES ASSUME NEW m \in Lists', NEW i \in 1 .. (Len(m) - 1)
                 PROVE  m[i + 1] \in sid2depsids(m[i]) /\ m[i] \notin sid2depsids(m[i + 1])
      BY <1>2
    <3>1. CASE m \in lists'
      BY <1>4, <2>1, <3>1
    <3>2. CASE m \in Lists
      BY <1>2, <3>2 DEF EdgesOK
    <3> QED BY <1>1, <3>1, <3>2 DEF Lists
  <2> QED BY <2>2 DEF EdgesOK
<1>9. ASSUME Acyclic, NEW l \in Lists
      PROVE  l \in ended' \/ \E d \in Services : d \in follows(l) /\ Append(l, d) \in lists'
  <2>1. CASE l \in ended
    BY <1>1, <2>1
  <2>2. CASE l \in lists
    <3>1. follows(l) = sid2depsids(Last(l))
      BY <1>2, <1>9, <2>2, NothingBlocks
    <3>2. CASE sid2depsids(Last(l)) = {}
      BY <1>1, <2>2, <3>2 DEF ends
    <3>3. CASE sid2depsids(Last(l)) # {}
      BY <1>3, <1>5, <2>2, <3>1, <3>3
    <3> QED BY <3>2, <3>3
  <2> QED BY <2>1, <2>2 DEF Lists
<1>10. \A l \in Lists : l \in Seq(Services) \ {<<>>}
  BY <1>2 DEF TypeOK, Lists
<1>11. ASSUME Acyclic, NEW s, NEW d, After(s, d) PROVE After(s, d)'
  <2>1. PICK l \in Lists : \E i \in 1 .. (Len(l) - 1) : l[i] = s /\ l[i + 1] = d
    BY <1>11 DEF After
  <2>2. PICK i \in 1 .. (Len(l) - 1) : l[i] = s /\ l[i + 1] = d
    BY <2>1
  <2>3. CASE l \in ended'
    BY <2>2, <2>3 DEF After, Lists
  <2>4. CASE \E e \in Services : Append(l, e) \in lists'
    <3>1. PICK e \in Services : Append(l, e) \in lists'
      BY <2>4
    <3>2. /\ Len(l) \in Nat /\ Len(Append(l, e)) = Len(l) + 1
          /\ \A j \in 1 .. Len(l) : Append(l, e)[j] = l[j]
      BY <1>10, Lengthened
    <3>3. i \in 1 .. Len(l) /\ i + 1 \in 1 .. Len(l) /\ i \in 1 .. (Len(Append(l, e)) - 1)
      BY <3>2
    <3>4. Append(l, e)[i] = s /\ Append(l, e)[i + 1] = d
      BY <2>2, <3>2, <3>3
    <3> QED BY <3>1, <3>3, <3>4 DEF After, Lists
  <2> QED BY <1>9, <1>11, <2>3, <2>4
<1>12. ASSUME Acyclic, NEW s, OnList(s) PROVE OnList(s)'
  <2>1. PICK l \in Lists : \E i \in 1 .. Len(l) : l[i] = s
    BY <1>12 DEF OnList
  <2>2. PICK i \in 1 .. Len(l) : l[i] = s
    BY <2>1
  <2>3. CASE l \in ended'
    BY <2>2, <2>3 DEF OnList, Lists
  <2>4. CASE \E e \in Services : Append(l, e) \in lists'
    <3>1. PICK e \in Services : Append(l, e) \in lists'
      BY <2>4
    <3>2. /\ Len(l) \in Nat /\ Len(Append(l, e)) = Len(l) + 1
          /\ \A j \in 1 .. Len(l) : Append(l, e)[j] = l[j]
      BY <1>10, Lengthened
    <3>3. i \in 1 .. Len(Append(l, e)) /\ Append(l, e)[i] = s
      BY <2>2, <3>2
    <3> QED BY <3>1, <3>3 DEF OnList, Lists
  <2> QED BY <1>9, <1>12, <2>3, <2>4
<1>13. HeadsOK'
  BY <1>1, <1>2, <1>12 DEF IInv, HeadsOK
<1>14. ClosedOK'
  <2> SUFFICES ASSUME Acyclic, NEW m \in Lists', NEW i \in 1 .. Len(m), m \in ended' \/ i < Len(m),
                      NEW d \in sid2depsids(m[i])
               PROVE  After(m[i], d)'
    <3>1. Acyclic' => \A l \in Lists' : \A i \in 1 .. Len(l) :
            l \in ended' \/ i < Len(l) => \A d \in sid2depsids(l[i])' : After(l[i], d)'
      BY <1>2
    <3> QED BY <3>1 DEF ClosedOK
  <2>1. ASSUME NEW l \in Lists, NEW j \in 1 .. Len(l), l[j] = m[i], l \in ended \/ j < Len(l)
        PROVE  After(m[i], d)'
    <3>1. After(m[i], d)
      BY <2>1 DEF IInv, ClosedOK
    <3> QED BY <1>11, <3>1
  <2>2. ASSUME NEW l \in lists, l[Len(l)] = m[i]
        PROVE  After(m[i], d)'
    <3>1. Last(l) = m[i] /\ l \in Seq(Services) \ {<<>>} /\ Len(l) \in Nat \ {0}
      BY <1>3, <2>2 DEF Last
    <3>2. d \in follows(l)
      BY <1>2, <3>1, NothingBlocks
    <3>3. Append(l, d) \in lists' /\ d \in Services
      BY <1>3, <1>5, <3>2
    <3>4. /\ Len(Append(l, d)) = Len(l) + 1 /\ Append(l, d)[Len(l) + 1] = d
          /\ Append(l, d)[Len(l)] = l[Len(l)]
      BY <3>1, <3>3, Lengthened
    <3>5. Len(l) \in 1 .. (Len(Append(l, d)) - 1)
      BY <3>1, <3>4
    <3> QED BY <2>2, <3>3, <3>4, <3>5 DEF After, Lists
  <2>3. CASE m \in Lists
    <3>1. Len(m) \in Nat \ {0}
      BY <1>10, <2>3
    <3>2. CASE m \in ended \/ i < Len(m)
      BY <2>1, <2>3, <3>2
    <3>3. CASE m \notin ended /\ ~(i < Len(m))
      <4>1. m \in lists /\ i = Len(m)
        BY <2>3, <3>1, <3>3 DEF Lists
      <4> QED BY <2>2, <4>1
    <3> QED BY <3>2, <3>3
  <2>4. CASE m \notin Lists
    <3>1. m \in lists' /\ m \notin ended'
      BY <1>1, <2>4 DEF Lists
    <3>2. PICK l \in lists : \E e \in follows(l) : m = Append(l, e)
      BY <1>4, <3>1
    <3>3. /\ Len(l) \in Nat \ {0} /\ Len(m) = Len(l) + 1
          /\ \A j \in 1 .. Len(l) : m[j] = l[j]
      BY <1>3, <3>2, Lengthened
    <3>4. i \in 1 .. Len(l) /\ l[i] = m[i] /\ (i < Len(l) \/ i = Len(l))
      BY <3>1, <3>3
    <3>5. CASE i < Len(l)
      BY <2>1, <3>4, <3>5 DEF Lists
    <3>6. CASE i = Len(l)
      BY <2>2, <3>4, <3>6
    <3> QED BY <3>4, <3>5, <3>6
  <2> QED BY <2>3, <2>4
<1>15. WaitOK' /\ SentOK' /\ BootOrder' /\ RequestsOK'
  BY <1>1, SameTasks, SameRequests
<1> QED BY <1>6, <1>7, <1>8, <1>13, <1>14, <1>15 DEF IInv
-----------------------------------------------------------------------------
\* The memory, the events and the failures

LEMMA CheckStep ==
  ASSUME IInv, Check
  PROVE  IInv'
<1>1. /\ pc = "memory" /\ checked < Len(serviceIDs) /\ checked' = checked + 1
      /\ check(serviceIDs[checked + 1])
      /\ UNCHANGED <<deps, serviceIDs, pc, lists, ended, sent, bootSeq, status>>
      /\ UNCHANGED <<needProxy, early>>
  BY DEF Check, searchVars, taskVars
<1> DEFINE s == serviceIDs[checked + 1]
<1>2. serviceIDs \in Seq(Services) /\ checked \in Nat /\ allcm \in Int /\ validRequestes \in Seq(Services)
  BY DEF IInv, TypeOK
<1>3. s \in Services /\ checked' \in 0 .. Len(serviceIDs) /\ s \in Batch
  BY <1>1, <1>2 DEF Batch, ToSet
<1>4. Memory[s] \in Nat
  BY <1>3, BatchAssumption
<1>5. \/ allcm' = allcm /\ validRequestes' = validRequestes
      \/ Memory[s] <= allcm /\ allcm' = allcm - Memory[s] /\ validRequestes' = Append(validRequestes, s)
  BY <1>1, <1>2, <1>4 DEF check
<1> HIDE DEF s
<1>6. allcm' \in Int /\ validRequestes' \in Seq(Services) /\ Len(validRequestes) <= Len(validRequestes')
  <2>1. CASE allcm' = allcm /\ validRequestes' = validRequestes
    BY <1>2, <2>1
  <2>2. CASE Memory[s] <= allcm /\ allcm' = allcm - Memory[s] /\ validRequestes' = Append(validRequestes, s)
    <3>1. allcm - Memory[s] \in Int
      BY <1>2, <1>4, <2>2
    <3>2. Append(validRequestes, s) \in Seq(Services) /\ Len(validRequestes) <= Len(Append(validRequestes, s))
      BY <1>2, <1>3
    <3> QED BY <2>2, <3>1, <3>2
  <2> QED BY <1>5, <2>1, <2>2
<1>7. TypeOK'
  <2>1. sent \in 0 .. Len(validRequestes')
    BY <1>2, <1>6 DEF IInv, TypeOK
  <2> QED BY <1>1, <1>3, <1>6, <2>1 DEF IInv, TypeOK
<1>8. StagesOK' /\ EdgesOK' /\ HeadsOK' /\ ClosedOK'
  BY <1>1, SameLists DEF IInv, StagesOK
<1>9. WaitOK' /\ SentOK' /\ BootOrder'
  BY <1>1, SameTasks
<1>10. RequestsOK'
  <2>1. Batch' = Batch /\ needProxy' \subseteq Batch
    BY <1>1 DEF IInv, RequestsOK, Batch
  <2>2. ASSUME NEW i \in 1 .. Len(validRequestes') PROVE validRequestes'[i] \in Batch
    BY <1>2, <1>3, <1>5 DEF IInv, RequestsOK
  <2> QED BY <2>1, <2>2 DEF RequestsOK
<1> QED BY <1>7, <1>8, <1>9, <1>10 DEF IInv

LEMMA HandlerStep ==
  ASSUME IInv, NewAllocMemory \/ createEvents \/ Fail
  PROVE  IInv'
<1>1. UNCHANGED <<deps, serviceIDs, lists, ended>>
  BY DEF NewAllocMemory, createEvents, Fail, searchVars
<1>2. UNCHANGED <<allcm, checked, validRequestes, sent, bootSeq, status, needProxy, early>>
  BY DEF NewAllocMemory, createEvents, Fail, memoryVars, taskVars
<1>3. \/ pc = "search" /\ lists = {} /\ pc' = "memory"
      \/ pc = "memory" /\ pc' = "send"
      \/ pc' = "failed"
  BY DEF NewAllocMemory, createEvents, Fail
<1>4. TypeOK'
  BY <1>1, <1>2, <1>3 DEF IInv, TypeOK
<1>5. StagesOK' /\ EdgesOK' /\ HeadsOK' /\ ClosedOK'
  BY <1>1, <1>3, SameLists DEF IInv, StagesOK
<1>6. WaitOK' /\ SentOK' /\ BootOrder' /\ RequestsOK'
  BY <1>1, <1>2, SameTasks, SameRequests
<1> QED BY <1>4, <1>5, <1>6 DEF IInv

-----------------------------------------------------------------------------
\* Tasks and services

LEMMA SendStep ==
  ASSUME IInv, Send
  PROVE  IInv'
<1>1. /\ pc = "send" /\ sent < Len(validRequestes) /\ sent' = sent + 1
      /\ startExec(validRequestes[sent + 1])
      /\ UNCHANGED <<deps, serviceIDs, pc, lists, ended, allcm, checked, validRequestes, early>>
  BY DEF Send, searchVars, memoryVars
<1> DEFINE r == validRequestes[sent + 1]
<1>2. TypeOK /\ lists = {}
  BY <1>1 DEF IInv, StagesOK
<1>3. r \in Services /\ sent' \in 0 .. Len(validRequestes) /\ r \in Batch
  BY <1>1, <1>2 DEF IInv, TypeOK, RequestsOK
<1>4. /\ \A s \in Services : s # r \/ status[s] # "off" => status'[s] = status[s] /\ bootSeq'[s] = bootSeq[s]
      /\ status[r] = "off" => status'[r] = "waiting" /\ bootSeq'[r] = serviceStartupSequence(r)
      /\ status' \in [Services -> {"off", "waiting", "ready"}]
  <2>1. /\ status \in [Services -> {"off", "waiting", "ready"}]
        /\ bootSeq \in [Services -> SUBSET Services]
    BY <1>2 DEF TypeOK
  <2>2. \/ /\ status[r] = "off" /\ status' = [status EXCEPT ![r] = "waiting"]
           /\ bootSeq' = [bootSeq EXCEPT ![r] = serviceStartupSequence(r)]
        \/ status[r] # "off" /\ UNCHANGED <<status, bootSeq>>
    BY <1>1 DEF startExec
  <2> HIDE DEF r
  <2> QED BY <1>3, <2>1, <2>2
<1>5. bootSeq' \in [Services -> SUBSET Services]
  <2>1. serviceStartupSequence(r) \subseteq Services
    BY DEF serviceStartupSequence
  <2> QED BY <1>1, <1>2, <2>1 DEF startExec, TypeOK
<1>12. \/ status[r] = "off" /\ needProxy' \in SUBSET (needProxy \cup {r}) /\ needProxy \subseteq needProxy'
       \/ status[r] # "off" /\ needProxy' = needProxy
  BY <1>1 DEF startExec, NeedProxy
<1>6. TypeOK'
  BY <1>1, <1>2, <1>3, <1>4, <1>5, <1>12 DEF TypeOK
<1>7. StagesOK' /\ EdgesOK' /\ HeadsOK' /\ ClosedOK'
  BY <1>1, <1>2, SameLists
<1>8. /\ Batch' = Batch /\ Acyclic' = Acyclic /\ \A s : sid2depsids(s)' = sid2depsids(s)
      /\ Batch \subseteq Services
  BY <1>1, <1>2, SameRelations, Relations
<1> HIDE DEF r
<1>9. WaitOK'
  <2> SUFFICES ASSUME NEW s \in Services, NEW d \in bootSeq'[s]
               PROVE  d \in sid2depsids(s) /\ s \notin sid2depsids(d)
    <3>1. WaitOK' <=> \A s \in Services : \A d \in bootSeq'[s] :
                        d \in sid2depsids(s)' /\ s \notin sid2depsids(d)'
      BY DEF WaitOK
    <3> QED BY <1>8, <3>1
  <2>1. CASE s = r /\ status[r] = "off"
    <3>1. PICK l \in ended : \E i \in 1 .. (Len(l) - 1) : l[i] = s /\ l[i + 1] = d
      BY <1>4, <2>1 DEF serviceStartupSequence
    <3> QED BY <3>1 DEF IInv, EdgesOK, Lists
  <2>2. CASE s # r \/ status[r] # "off"
    BY <1>4, <2>2 DEF IInv, WaitOK
  <2> QED BY <2>1, <2>2
<1>10. SentOK'
  <2> SUFFICES ASSUME Acyclic, NEW s \in needProxy'
               PROVE  deps[s] \subseteq bootSeq'[s]
    BY <1>1, <1>8 DEF SentOK
  <2>0. s \in Services /\ s \in Batch
    BY <1>3, <1>8, <1>12 DEF IInv, RequestsOK
  <2>1. CASE s = r /\ status[r] = "off"
    <3>1. deps[s] \subseteq serviceStartupSequence(s)
      BY <1>1, <1>2, <2>0, AllOnLists
    <3> QED BY <1>4, <2>1, <3>1
  <2>2. CASE s # r \/ status[r] # "off"
    BY <1>4, <1>12, <2>0, <2>2 DEF IInv, SentOK
  <2> QED BY <2>1, <2>2
<1>11. BootOrder'
  <2> SUFFICES ASSUME Acyclic, NEW s \in needProxy' \ early, status'[s] = "ready",
                      NEW d \in deps[s] \ Domains
               PROVE  status'[d] = "ready"
    BY <1>1, <1>8 DEF BootOrder, Acyclic
  <2>0. s \in Services /\ d \in Services
    BY <1>2, <1>3, <1>8, <1>12 DEF IInv, RequestsOK, TypeOK
  <2>1. status[s] = "ready" /\ s \in needProxy
    BY <1>4, <1>12, <2>0
  <2>2. status[d] = "ready"
    BY <2>1 DEF IInv, BootOrder, Acyclic
  <2> QED BY <1>4, <2>0, <2>2
<1>13. RequestsOK'
  BY <1>1, <1>3, <1>8, <1>12 DEF IInv, RequestsOK
<1> QED BY <1>6, <1>7, <1>9, <1>10, <1>11, <1>13 DEF IInv

LEMMA SendFailsStep ==
  ASSUME IInv, SendFails
  PROVE  IInv'
<1>1. /\ pc = "send" /\ sent < Len(validRequestes) /\ sent' = sent + 1
      /\ UNCHANGED <<deps, serviceIDs, pc, lists, ended, allcm, checked, validRequestes>>
      /\ UNCHANGED <<bootSeq, status, needProxy, early>>
  BY DEF SendFails, searchVars, memoryVars
<1>2. sent' \in 0 .. Len(validRequestes)
  BY <1>1 DEF IInv, TypeOK
<1>3. TypeOK'
  BY <1>1, <1>2 DEF IInv, TypeOK
<1>4. StagesOK' /\ EdgesOK' /\ HeadsOK' /\ ClosedOK'
  BY <1>1, SameLists DEF IInv, StagesOK
<1>5. WaitOK' /\ SentOK' /\ BootOrder' /\ RequestsOK'
  BY <1>1, SameTasks, SameRequests
<1> QED BY <1>3, <1>4, <1>5 DEF IInv

LEMMA BootStep ==
  ASSUME IInv, NEW b \in Services, Boot(b) \/ CheckPasses(b) \/ CheckPassesEarly(b)
  PROVE  IInv'
<1>1. /\ status[b] = "waiting" /\ status' = [status EXCEPT ![b] = "ready"]
      /\ UNCHANGED <<deps, serviceIDs, pc, lists, ended, bootSeq, needProxy>>
      /\ UNCHANGED <<allcm, checked, validRequestes, sent>>
  BY DEF Boot, CheckPasses, CheckPassesEarly, Becomes, searchVars, memoryVars
<1>2. /\ status'[b] = "ready" /\ \A s \in Services : s # b => status'[s] = status[s]
      /\ status' \in [Services -> {"off", "waiting", "ready"}]
  BY <1>1 DEF IInv, TypeOK
<1>9. \/ early' = early /\ (bootSeq[b] = {} \/ checkEDS(b) \/ b \notin needProxy)
      \/ early' = early \cup {b}
  BY DEF Boot, CheckPasses, CheckPassesEarly, initContainer
<1>3. TypeOK'
  BY <1>1, <1>2, <1>9 DEF IInv, TypeOK
<1>4. StagesOK' /\ EdgesOK' /\ HeadsOK' /\ ClosedOK'
  BY <1>1, SameLists DEF IInv, StagesOK
<1>5. /\ Batch' = Batch /\ Acyclic' = Acyclic /\ \A s : sid2depsids(s)' = sid2depsids(s)
      /\ Batch \subseteq Services
  BY <1>1, SameRelations, Relations DEF IInv
<1>6. WaitOK'
  <2>1. \A s \in Services : \A d \in bootSeq'[s] : d \in sid2depsids(s)' /\ s \notin sid2depsids(d)'
    BY <1>1, <1>5 DEF IInv, WaitOK
  <2> QED BY <2>1 DEF WaitOK
<1>7. SentOK' /\ RequestsOK'
  BY <1>1, <1>5, SameRequests DEF IInv, SentOK
<1>8. BootOrder'
  <2> SUFFICES ASSUME Acyclic, NEW s \in needProxy \ early', status'[s] = "ready",
                      NEW d \in deps[s] \ Domains
               PROVE  status'[d] = "ready"
    BY <1>1, <1>5 DEF BootOrder, Acyclic
  <2>1. s \in Services /\ d \in Services /\ s \notin early
    BY <1>5, <1>9 DEF IInv, TypeOK, RequestsOK
  <2>2. status[d] = "ready"
    <3>1. CASE s = b
      <4>1. d \in bootSeq[b]
        BY <3>1 DEF IInv, SentOK
      <4>2. checkEDS(b)
        BY <1>9, <3>1, <4>1
      <4> QED BY <3>1, <4>1, <4>2 DEF checkEDS, startupSequenceDependencies
    <3>2. CASE s # b
      BY <1>2, <2>1, <3>2 DEF IInv, BootOrder, Acyclic
    <3> QED BY <3>1, <3>2
  <2> QED BY <1>2, <2>1, <2>2
<1> QED BY <1>3, <1>4, <1>6, <1>7, <1>8 DEF IInv

-----------------------------------------------------------------------------
LEMMA InitStep == Init => IInv
<1> SUFFICES ASSUME Init PROVE IInv
  OBVIOUS
<1>1. /\ lists = {} /\ ended = {} /\ pc = "start" /\ Lists = {}
      /\ \A s \in Services : bootSeq[s] = {}
      /\ needProxy = {} /\ early = {} /\ validRequestes = <<>>
  BY DEF Init, Lists
<1>2. TypeOK
  BY BatchAssumption DEF Init, TypeOK
<1>3. StagesOK /\ EdgesOK /\ HeadsOK /\ ClosedOK
  BY <1>1 DEF StagesOK, EdgesOK, HeadsOK, ClosedOK
<1>4. WaitOK /\ SentOK /\ BootOrder /\ RequestsOK
  BY <1>1 DEF WaitOK, SentOK, BootOrder, RequestsOK
<1> QED BY <1>2, <1>3, <1>4 DEF IInv

LEMMA NextStep == IInv /\ [Next]_vars => IInv'
<1> SUFFICES ASSUME IInv, [Next]_vars PROVE IInv'
  OBVIOUS
<1>1. CASE UNCHANGED vars
  <2>1. /\ UNCHANGED <<deps, serviceIDs, pc, lists, ended, bootSeq, status>>
        /\ UNCHANGED <<allcm, checked, validRequestes, sent, needProxy, early>>
    BY <1>1 DEF vars, searchVars, memoryVars, taskVars
  <2>2. TypeOK'
    BY <2>1 DEF IInv, TypeOK
  <2>3. StagesOK' /\ EdgesOK' /\ HeadsOK' /\ ClosedOK'
    BY <2>1, SameLists DEF IInv, StagesOK
  <2>4. WaitOK' /\ SentOK' /\ BootOrder' /\ RequestsOK'
    BY <2>1, SameTasks, SameRequests
  <2> QED BY <2>2, <2>3, <2>4 DEF IInv
<1>2. CASE NewServiceDependency
  BY <1>2, NewServiceDependencyStep
<1>3. CASE buildLinkListByHead
  BY <1>3, buildLinkListByHeadStep
<1>4. CASE NewAllocMemory \/ createEvents \/ Fail
  BY <1>4, HandlerStep
<1>5. CASE Check
  BY <1>5, CheckStep
<1>6. CASE Send
  BY <1>6, SendStep
<1>7. CASE SendFails
  BY <1>7, SendFailsStep
<1>8. CASE \E s \in Services : Boot(s) \/ CheckPasses(s) \/ CheckPassesEarly(s)
  BY <1>8, BootStep
<1> QED BY <1>1, <1>2, <1>3, <1>4, <1>5, <1>6, <1>7, <1>8 DEF Next, Handler

LEMMA Always == Spec => []IInv
BY InitStep, NextStep, PTL DEF Spec

\* The request, the lists of the search, the memory and the tasks keep their
\* types, and no list is empty.
THEOREM TypeCorrect == Spec => []TypeOK
<1>1. IInv => TypeOK
  BY DEF IInv
<1> QED BY <1>1, Always, PTL

\* When the dependencies have no cycle, a service that the batch started in a mesh
\* and whose init container looked at the endpoints is ready only after all it
\* depends on: headNodes finds a beginning for every service, and
\* buildLinkListByHead cuts no dependency off, for any graph and any request.
THEOREM BootInOrder == Spec => []BootOrder
<1>1. IInv => BootOrder
  BY DEF IInv
<1> QED BY <1>1, Always, PTL

\* Whatever the dependencies, no two services of a batch wait for each other:
\* childInLinkedList keeps a service off a list on which it would wait back.
THEOREM NeverMutualWait == Spec => []NoMutualWait
<1>1. IInv => NoMutualWait
  BY Relations DEF IInv, WaitOK, NoMutualWait
<1> QED BY <1>1, Always, PTL
-----------------------------------------------------------------------------
\* The memory.  A running total of the granted requests, as MemoryFits adds them
\* up; that there is one, and that all of them agree with allcm, is kept by every
\* grant.
IsTotal(f, v) == f = [i \in 0 .. Len(v) |-> IF i = 0 THEN 0 ELSE f[i - 1] + Memory[v[i]]]

TotalOK ==
  /\ \E f : IsTotal(f, validRequestes)
  /\ \A f : IsTotal(f, validRequestes) =>
       f[Len(validRequestes)] \in Nat /\ allcm + f[Len(validRequestes)] \in Allocatable
  /\ validRequestes # <<>> => allcm >= 0

\* A request more makes a running total longer, and without it a total is left.
LEMMA TotalAppended ==
  ASSUME NEW v \in Seq(Services), NEW s \in Services, NEW f, IsTotal(f, v)
  PROVE  \E g : IsTotal(g, Append(v, s))
<1> DEFINE n == Len(v)
           w == Append(v, s)
           g == [i \in 0 .. (n + 1) |-> IF i = n + 1 THEN f[n] + Memory[s] ELSE f[i]]
           h == [i \in 0 .. (n + 1) |-> IF i = 0 THEN 0 ELSE g[i - 1] + Memory[w[i]]]
<1>1. n \in Nat /\ Len(w) = n + 1 /\ w[n + 1] = s /\ \A i \in 1 .. n : w[i] = v[i]
  OBVIOUS
<1>2. \A i \in 0 .. n : f[i] = IF i = 0 THEN 0 ELSE f[i - 1] + Memory[v[i]]
  BY Zenon DEF IsTotal
<1>3. ASSUME NEW i \in 0 .. (n + 1) PROVE g[i] = h[i]
  <2>1. CASE i = 0
    BY <1>1, <1>2, <2>1
  <2>2. CASE i = n + 1
    <3>1. g[i] = f[n] + Memory[s] /\ i # 0 /\ i - 1 = n /\ n \in 0 .. (n + 1) /\ n # n + 1
      BY <1>1, <2>2
    <3>2. h[i] = g[n] + Memory[s] /\ g[n] = f[n]
      BY <1>1, <2>2, <3>1
    <3> QED BY <3>1, <3>2
  <2>3. CASE i # 0 /\ i # n + 1
    <3>1. i \in 1 .. n /\ i \in 0 .. n /\ i - 1 \in 0 .. (n + 1) /\ i - 1 # n + 1
      BY <1>1, <2>3
    <3>2. g[i] = f[i] /\ f[i] = f[i - 1] + Memory[v[i]]
      BY <1>2, <2>3, <3>1
    <3>3. g[i - 1] = f[i - 1] /\ w[i] = v[i]
      BY <1>1, <3>1
    <3>4. h[i] = g[i - 1] + Memory[w[i]]
      BY <2>3
    <3> QED BY <3>2, <3>3, <3>4
  <2> QED BY <2>1, <2>2, <2>3
<1>4. g = h
  BY <1>3
<1>5. h = [i \in 0 .. Len(w) |-> IF i = 0 THEN 0 ELSE g[i - 1] + Memory[w[i]]]
  BY <1>1
<1> HIDE DEF g, h, w
<1>6. IsTotal(g, w)
  BY <1>4, <1>5 DEF IsTotal
<1> QED BY <1>6 DEF w

LEMMA TotalRestricted ==
  ASSUME NEW v \in Seq(Services), NEW s \in Services, NEW g, IsTotal(g, Append(v, s))
  PROVE  /\ \E f : IsTotal(f, v) /\ f[Len(v)] = g[Len(v)]
         /\ g[Len(v) + 1] = g[Len(v)] + Memory[s]
<1> DEFINE n == Len(v)
           w == Append(v, s)
           f == [i \in 0 .. n |-> g[i]]
           h == [i \in 0 .. n |-> IF i = 0 THEN 0 ELSE f[i - 1] + Memory[v[i]]]
<1>1. n \in Nat /\ Len(w) = n + 1 /\ w[n + 1] = s /\ \A i \in 1 .. n : w[i] = v[i]
  OBVIOUS
<1>2. \A i \in 0 .. (n + 1) : g[i] = IF i = 0 THEN 0 ELSE g[i - 1] + Memory[w[i]]
  <2>1. g = [i \in 0 .. (n + 1) |-> IF i = 0 THEN 0 ELSE g[i - 1] + Memory[w[i]]]
    BY <1>1 DEF IsTotal
  <2> QED BY <2>1, Zenon
<1>3. ASSUME NEW i \in 0 .. n PROVE f[i] = h[i]
  <2>1. i \in 0 .. (n + 1)
    BY <1>1
  <2>2. CASE i = 0
    BY <1>2, <2>1, <2>2
  <2>3. CASE i # 0
    <3>1. i \in 1 .. n /\ i - 1 \in 0 .. n
      BY <1>1, <2>3
    <3>2. f[i] = g[i - 1] + Memory[v[i]]
      BY <1>1, <1>2, <2>1, <2>3, <3>1
    <3>3. h[i] = g[i - 1] + Memory[v[i]]
      BY <2>3, <3>1
    <3> QED BY <3>2, <3>3
  <2> QED BY <2>2, <2>3
<1>4. f = h
  BY <1>3
<1>5. n \in 0 .. n /\ f[n] = g[n]
  BY <1>1
<1>6. g[n + 1] = g[n] + Memory[s]
  <2>1. n + 1 \in 0 .. (n + 1) /\ n + 1 # 0 /\ (n + 1) - 1 = n
    BY <1>1
  <2> QED BY <1>1, <1>2, <2>1
<1> HIDE DEF f
<1>7. IsTotal(f, v)
  BY <1>4 DEF IsTotal
<1> QED BY <1>5, <1>6, <1>7

LEMMA TotalInit == Init => TotalOK
<1> SUFFICES ASSUME Init PROVE TotalOK
  OBVIOUS
<1>1. validRequestes = <<>> /\ Len(validRequestes) = 0 /\ allcm \in Allocatable /\ allcm \in Int
  BY BatchAssumption DEF Init
<1> DEFINE f == [i \in {0} |-> 0]
<1>2. 0 .. 0 = {0}
  OBVIOUS
<1>3. IsTotal(f, validRequestes)
  <2>1. f = [i \in {0} |-> IF i = 0 THEN 0 ELSE f[i - 1] + Memory[validRequestes[i]]]
    OBVIOUS
  <2> HIDE DEF f
  <2> QED BY <1>1, <1>2, <2>1 DEF IsTotal
<1>4. ASSUME NEW g, IsTotal(g, validRequestes)
      PROVE  g[Len(validRequestes)] \in Nat /\ allcm + g[Len(validRequestes)] \in Allocatable
  <2>1. g = [i \in {0} |-> IF i = 0 THEN 0 ELSE g[i - 1] + Memory[validRequestes[i]]]
    BY <1>1, <1>2, <1>4 DEF IsTotal
  <2>2. g[0] = 0
    BY <2>1
  <2> QED BY <1>1, <2>2
<1> QED BY <1>1, <1>3, <1>4 DEF TotalOK

LEMMA TotalStep == IInv /\ TotalOK /\ [Next]_vars => TotalOK'
<1> SUFFICES ASSUME IInv, TotalOK, [Next]_vars PROVE TotalOK'
  OBVIOUS
<1>1. CASE UNCHANGED <<allcm, validRequestes>>
  BY <1>1 DEF TotalOK, IsTotal
<1>2. CASE Check /\ ~UNCHANGED <<allcm, validRequestes>>
  <2> DEFINE s == serviceIDs[checked + 1]
             n == Len(validRequestes)
  <2>1. /\ s \in Services /\ allcm \in Int /\ validRequestes \in Seq(Services) /\ n \in Nat
    <3>1. serviceIDs \in Seq(Services) /\ checked \in Nat /\ checked < Len(serviceIDs)
      BY <1>2 DEF IInv, TypeOK, Check
    <3>2. s \in Services
      BY <3>1
    <3> QED BY <3>2 DEF IInv, TypeOK
  <2>2. validRequestes' = Append(validRequestes, s) /\ allcm' = allcm - Memory[s] /\ Memory[s] <= allcm
    BY <1>2 DEF Check, check
  <2>3. Memory[s] \in Nat /\ Len(validRequestes') = n + 1
    BY <2>1, <2>2, BatchAssumption
  <2> HIDE DEF s
  <2>4. \E f : IsTotal(f, validRequestes')
    BY <2>1, <2>2, TotalAppended DEF TotalOK
  <2>5. ASSUME NEW g, IsTotal(g, validRequestes')
        PROVE  g[Len(validRequestes')] \in Nat /\ allcm' + g[Len(validRequestes')] \in Allocatable
    <3>1. g[n + 1] = g[n] + Memory[s] /\ \E f : IsTotal(f, validRequestes) /\ f[n] = g[n]
      BY <2>1, <2>2, <2>5, TotalRestricted
    <3>2. g[n] \in Nat /\ allcm + g[n] \in Allocatable
      BY <3>1 DEF TotalOK
    <3>3. (allcm - Memory[s]) + (g[n] + Memory[s]) = allcm + g[n] /\ g[n] + Memory[s] \in Nat
      BY <2>1, <2>3, <3>2
    <3> QED BY <2>2, <2>3, <3>1, <3>2, <3>3
  <2>6. TotalOK' <=> /\ \E f : IsTotal(f, validRequestes')
                     /\ \A f : IsTotal(f, validRequestes') =>
                          /\ f[Len(validRequestes')] \in Nat
                          /\ allcm' + f[Len(validRequestes')] \in Allocatable
                     /\ validRequestes' # <<>> => allcm' >= 0
    BY DEF TotalOK, IsTotal
  <2>7. allcm' >= 0
    BY <2>1, <2>2, <2>3
  <2> QED BY <2>4, <2>5, <2>6, <2>7
<1>3. UNCHANGED <<allcm, validRequestes>> \/ Check
  BY DEF Next, NewServiceDependency, buildLinkListByHead, NewAllocMemory, createEvents, Fail,
         Send, SendFails, Handler, Boot, CheckPasses, CheckPassesEarly, Becomes, vars, memoryVars
<1> QED BY <1>1, <1>2, <1>3

\* What the admitted requests take and what is left always make up what was
\* allocatable: whatever requests check refuses in between, it takes the memory of
\* each admitted request exactly once, and none when there is less than nothing.
THEOREM MemoryIsShared == Spec => []MemoryFits
<1>1. IInv /\ TotalOK => MemoryFits
  <2> SUFFICES ASSUME IInv, TotalOK PROVE MemoryFits
    OBVIOUS
  <2> DEFINE t == CHOOSE f : IsTotal(f, validRequestes)
  <2>1. IsTotal(t, validRequestes)
    BY DEF TotalOK
  <2>2. allcm + t[Len(validRequestes)] \in Allocatable
    BY <2>1 DEF TotalOK
  <2>3. validRequestes # <<>> => allcm >= 0
    BY DEF TotalOK
  <2> QED BY <2>2, <2>3 DEF MemoryFits, IsTotal
<1> QED BY <1>1, Always, TotalInit, TotalStep, PTL DEF Spec

-----------------------------------------------------------------------------
\* A batch waits in a circle only when its dependencies have a cycle already: the
\* search adds no waiting of its own.
THEOREM CircleNeedsCycle == Spec => [](NoCycle(Services, deps) => NoBootCycle)
<1>1. IInv => (NoCycle(Services, deps) => NoBootCycle)
  <2> SUFFICES ASSUME IInv, NoCycle(Services, deps), NEW part \in SUBSET Services, part # {}
               PROVE  \E s \in part : \A t \in part : s \notin bootSeq[t]
    BY DEF NoBootCycle, NoCycle
  <2>1. \A t \in Services : bootSeq[t] \subseteq deps[t]
    BY Relations DEF IInv, WaitOK
  <2> QED BY <2>1 DEF NoCycle
<1> QED BY <1>1, Always, PTL

=============================================================================
