------------------------------ MODULE RWMutex ------------------------------
(***************************************************************************)
(* Go's sync.RWMutex as the stores of src/eventlog/store use it: any       *)
(* number of readers or one writer, and a writer that waits keeps new      *)
(* readers out.                                                            *)
(***************************************************************************)
EXTENDS FiniteSets

None == "none"

VARIABLES
  readers,         \* goroutines that hold the lock for reading
  writer,          \* the goroutine that holds it for writing, or None
  writersWaiting   \* goroutines that have called Lock and wait

lockVars == <<readers, writer, writersWaiting>>

LockInit ==
  /\ readers = {}
  /\ writer = None
  /\ writersWaiting = {}

RLock(t) ==
  /\ writer = None
  /\ writersWaiting = {}
  /\ readers' = readers \cup {t}
  /\ UNCHANGED <<writer, writersWaiting>>

\* RLock and RUnlock with nothing in between that others could see.
RLockUnlock ==
  /\ writer = None
  /\ writersWaiting = {}
  /\ UNCHANGED lockVars

\* Lock is called: it waits ...
AskLock(t) == writersWaiting' = writersWaiting \cup {t}

\* ... until everybody else has left ...
MayLock(t) ==
  /\ t \in writersWaiting
  /\ readers = {}
  /\ writer = None

\* ... and holds the lock over the next steps ...
Lock(t) ==
  /\ MayLock(t)
  /\ writer' = t
  /\ writersWaiting' = writersWaiting \ {t}
  /\ UNCHANGED readers

\* ... or gives it back within the same step.
LockUnlock(t) ==
  /\ MayLock(t)
  /\ writersWaiting' = writersWaiting \ {t}
  /\ UNCHANGED <<readers, writer>>

\* RUnlock or Unlock, whichever t holds.
Unlock(t) ==
  /\ readers' = readers \ {t}
  /\ writer' = IF writer = t THEN None ELSE writer
  /\ UNCHANGED writersWaiting
=============================================================================
