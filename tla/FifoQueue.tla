----------------------------- MODULE FifoQueue -----------------------------
(***************************************************************************)
(* What the message queue of the platform promises to the services that    *)
(* call Enqueue and Dequeue: per topic first in, first out, and every      *)
(* message is handed to at most one consumer, at most once.  A message     *)
(* that was taken but whose answer never reached its consumer is lost.     *)
(***************************************************************************)
EXTENDS Integers

CONSTANTS Topics, Messages

VARIABLES
  waiting,    \* messages in the queues: records [ord, topic, msg]
  inhand,     \* messages taken out of a queue, not yet handed over
  delivered,  \* messages handed to a consumer
  lost        \* messages taken whose hand-over failed

fifoVars == <<waiting, inhand, delivered, lost>>

Known(m) ==
  m \in inhand \cup delivered \cup lost \/ \E i \in waiting : i.msg = m

FifoInit ==
  /\ waiting = {}
  /\ inhand = {}
  /\ delivered = {}
  /\ lost = {}

\* A new message goes behind every message that waits.
Put(t, m) ==
  /\ ~Known(m)
  /\ \E i \in waiting' :
       /\ i.topic = t
       /\ i.msg = m
       /\ \A j \in waiting : j.ord < i.ord
       /\ waiting' = waiting \cup {i}
  /\ UNCHANGED <<inhand, delivered, lost>>

\* Only the oldest message of a topic can be taken.
Oldest(i) == \A j \in waiting : j.topic = i.topic => i.ord <= j.ord

Take(i) ==
  /\ Oldest(i)
  /\ waiting' = waiting \ {i}
  /\ \/ inhand' = inhand \cup {i.msg} /\ UNCHANGED lost
     \/ lost' = lost \cup {i.msg} /\ UNCHANGED inhand
  /\ UNCHANGED delivered

Deliver(m) ==
  /\ inhand' = inhand \ {m}
  /\ delivered' = delivered \cup {m}
  /\ UNCHANGED <<waiting, lost>>

Lose(m) ==
  /\ inhand' = inhand \ {m}
  /\ lost' = lost \cup {m}
  /\ UNCHANGED <<waiting, delivered>>

FifoNext ==
  \/ \E t \in Topics, m \in Messages : Put(t, m)
  \/ \E i \in waiting : Take(i)
  \/ \E m \in inhand : Deliver(m) \/ Lose(m)

FifoSpec == FifoInit /\ [][FifoNext]_fifoVars
=============================================================================
