------------------------------ MODULE WRLock ------------------------------
(***************************************************************************)
(* The writer-preferring read-write lock of util/sync.h, in the variant    *)
(* Apple platforms compile: a mutex `state`, two condition variables       *)
(* `readers` and `writers`, the counter `waiting_writers` and the value    *)
(* `val` (0 unlocked, -1 write-locked, n > 0 read-locked n times).         *)
(*                                                                         *)
(* All the fields are accessed with `state` held, so one action stands for *)
(* what a thread does between acquiring that mutex and releasing it, by    *)
(* unlocking it or by waiting on a condition variable.                     *)
(***************************************************************************)
EXTENDS Integers, FiniteSets

CONSTANT Threads            \* the host threads that share the lock
ASSUME ThreadsFinite == IsFiniteSet(Threads)

VARIABLES
  val,               \* lock->val
  waiting_writers,   \* lock->waiting_writers
  pc                 \* where each thread is (see States)

vars == <<val, waiting_writers, pc>>

(* "rd_wait" and "wr_wait": asleep on the condition variable; "rd_woken"   *)
(* and "wr_woken": pthread_cond_wait has been woken but has not yet got    *)
(* `state` back, so the predicate is still to be tested again.             *)
States == {"idle", "rd_wait", "rd_woken", "reading",
           "wr_wait", "wr_woken", "writing"}

In(s) == {t \in Threads : pc[t] = s}
WaitingWriters == {t \in Threads : pc[t] \in {"wr_wait", "wr_woken"}}

Init ==                                             \* wrlock_init
  /\ val = 0
  /\ waiting_writers = 0
  /\ pc = [t \in Threads |-> "idle"]

---------------------------------------------------------------------------
(* Mutant: the reader looks only at the holder, not at the queue.          *)
ReaderIgnoresQueue == val < 0

(* read_wrlock: the loop's test, then either sleep or take the lock.       *)
ReaderMustWait == val < 0 \/ waiting_writers # 0

ReadEnter(t) ==
  /\ pc[t] \in {"idle", "rd_woken"}
  /\ \/ /\ ReaderMustWait
        /\ pc' = [pc EXCEPT ![t] = "rd_wait"]
        /\ UNCHANGED val
     \/ /\ ~ReaderMustWait
        /\ pc' = [pc EXCEPT ![t] = "reading"]
        /\ val' = val + 1
  /\ UNCHANGED waiting_writers

(* pthread_cond_signal: one sleeping writer, if there is one.              *)
SignalWriter(next) ==
  IF In("wr_wait") = {} THEN pc' = next
  ELSE \E w \in In("wr_wait") : pc' = [next EXCEPT ![w] = "wr_woken"]

(* pthread_cond_broadcast on `readers`.                                    *)
BroadcastReaders(next) ==
  pc' = [t \in Threads |-> IF pc[t] = "rd_wait" THEN "rd_woken" ELSE next[t]]

ReadUnlock(t) ==
  /\ pc[t] = "reading"
  /\ val' = val - 1
  /\ LET next == [pc EXCEPT ![t] = "idle"]
     IN  IF val' = 0 /\ waiting_writers # 0 THEN SignalWriter(next)
                                             ELSE pc' = next
  /\ UNCHANGED waiting_writers

(* The count with t in it: an arriving writer adds itself before the loop, *)
(* a woken one is already counted.                                         *)
Counted(t) ==
  IF pc[t] = "idle" THEN waiting_writers + 1 ELSE waiting_writers

(* Mutant: the writer waits only for another writer.                       *)
WriterIgnoresReaders == val < 0

(* The test of __write_wrlock's loop.                                      *)
WriterMustWait == val # 0

WriteEnter(t) ==
  /\ pc[t] \in {"idle", "wr_woken"}
  /\ \/ /\ WriterMustWait
        /\ waiting_writers' = Counted(t)
        /\ pc' = [pc EXCEPT ![t] = "wr_wait"]
        /\ UNCHANGED val
     \/ /\ ~WriterMustWait
        /\ waiting_writers' = Counted(t) - 1
        /\ pc' = [pc EXCEPT ![t] = "writing"]
        /\ val' = -1

(* Mutant: the leaving writer only ever thinks of writers.                 *)
HandOverToWriter(next) == SignalWriter(next)

(* Whom a leaving writer wakes: a waiting writer first, else every reader. *)
HandOver(next) ==
  IF waiting_writers # 0 THEN SignalWriter(next) ELSE BroadcastReaders(next)

WriteUnlock(t) ==
  /\ pc[t] = "writing"
  /\ val' = 0
  /\ HandOver([pc EXCEPT ![t] = "idle"])
  /\ UNCHANGED waiting_writers

(* pthread_cond_wait may return without having been signalled.             *)
SpuriousWakeup(t) ==
  /\ \/ pc[t] = "rd_wait" /\ pc' = [pc EXCEPT ![t] = "rd_woken"]
     \/ pc[t] = "wr_wait" /\ pc' = [pc EXCEPT ![t] = "wr_woken"]
  /\ UNCHANGED <<val, waiting_writers>>

Next ==
  \E t \in Threads :
    \/ ReadEnter(t)  \/ ReadUnlock(t)
    \/ WriteEnter(t) \/ WriteUnlock(t)
    \/ SpuriousWakeup(t)

(* A holder eventually releases the lock and a woken thread eventually     *)
(* gets the mutex back; nothing makes a thread ask for the lock.           *)
Fairness ==
  \A t \in Threads :
    /\ WF_vars(pc[t] = "rd_woken" /\ ReadEnter(t))
    /\ WF_vars(pc[t] = "wr_woken" /\ WriteEnter(t))
    /\ WF_vars(ReadUnlock(t) \/ WriteUnlock(t))

Spec == Init /\ [][Next]_vars
FairSpec == Spec /\ Fairness

---------------------------------------------------------------------------
(* The variables have their types; the counters stay within the number of  *)
(* threads.                                                                *)
TypeOK ==
  /\ val \in -1 .. Cardinality(Threads)
  /\ waiting_writers \in 0 .. Cardinality(Threads)
  /\ pc \in [Threads -> States]

(* `val` is what its comment says it is (0: unlocked, -1: write-locked,    *)
(* > 0: read-locked with this many readers) and `waiting_writers` counts   *)
(* exactly the threads inside __write_wrlock's loop, so none of the        *)
(* asserts in the four operations and in wrlock_destroy can fail; a writer *)
(* excludes every other holder.                                            *)
ValCountsHolders ==
  val = IF In("writing") # {} THEN -1 ELSE Cardinality(In("reading"))
Exclusive == \A w \in In("writing") : In("writing") = {w} /\ In("reading") = {}
WaitingWritersCounted == waiting_writers = Cardinality(WaitingWriters)
Accounting == Exclusive /\ ValCountsHolders /\ WaitingWritersCounted

(* No wakeup is lost.  A free lock with writers in the queue has a writer  *)
(* on its way, and no reader sleeps once neither a writer holds the lock   *)
(* nor one waits for it: rwlock-stress hangs when either fails.            *)
WriterOnItsWay == val = 0 /\ WaitingWriters # {} => In("wr_woken") # {}
NoReaderForgotten == val >= 0 /\ WaitingWriters = {} => In("rd_wait") = {}
NoLostWakeup == WriterOnItsWay /\ NoReaderForgotten

(* "prefers writers, i.e. if there are any writers waiting a read lock     *)
(* will block": no thread becomes a reader while a writer is waiting.      *)
ReaderYields ==
  \A t \in Threads :
    pc[t] # "reading" /\ pc'[t] = "reading" => WaitingWriters = {}
WriterPreference == [][ReaderYields]_vars

(* The lock is a read-write lock: its holders change only as the abstract  *)
(* specification lets them.                                                *)
RW == INSTANCE ReadWriteLock
        WITH readers <- In("reading"), writers <- In("writing")
ImplementsReadWriteLock == RW!Spec

(* Progress: whoever waits, some thread eventually holds the lock, the     *)
(* progress rwlock-stress saw Darwin's own lock lose; and a queue of       *)
(* writers is eventually served by a writer, however many readers come.    *)
Waiting == {t \in Threads : pc[t] \notin {"idle", "reading", "writing"}}
WritersServed == WaitingWriters # {} ~> In("writing") # {}
WaitersServed == Waiting # {} ~> In("reading") \cup In("writing") # {}
Progress == WritersServed /\ WaitersServed
=============================================================================
