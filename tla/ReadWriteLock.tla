--------------------------- MODULE ReadWriteLock ---------------------------
(***************************************************************************)
(* What a read-write lock promises its callers: any number of readers or a *)
(* single writer.  WRLock is shown to implement it.                        *)
(***************************************************************************)
CONSTANT Threads

VARIABLES
  readers,    \* the threads that hold the lock for reading
  writers     \* the threads that hold it for writing: at most one

vars == <<readers, writers>>

Init == readers = {} /\ writers = {}

AcquireRead(t) ==
  /\ t \notin readers
  /\ writers = {}
  /\ readers' = readers \cup {t}
  /\ UNCHANGED writers

ReleaseRead(t) ==
  /\ t \in readers
  /\ readers' = readers \ {t}
  /\ UNCHANGED writers

AcquireWrite(t) ==
  /\ readers = {}
  /\ writers = {}
  /\ writers' = {t}
  /\ UNCHANGED readers

ReleaseWrite(t) ==
  /\ t \in writers
  /\ writers' = writers \ {t}
  /\ UNCHANGED readers

Next ==
  \E t \in Threads :
    AcquireRead(t) \/ ReleaseRead(t) \/ AcquireWrite(t) \/ ReleaseWrite(t)

Spec == Init /\ [][Next]_vars
=============================================================================
