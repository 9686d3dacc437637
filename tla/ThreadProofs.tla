---------------------------- MODULE ThreadProofs ----------------------------
(***************************************************************************)
(* What threads of the emulator wait for, for any number of them: the      *)
(* read-write lock of util/sync.h, timers and signals.                     *)
(***************************************************************************)
EXTENDS WRLock, Timer, Signals, FiniteSetTheorems, SequenceTheorems,
        WellFoundedInduction, TLAPS

---------------------------------------------------------------------------
(***************************************************************************)
(* WRLock for any finite set of threads: the accounting that the asserts   *)
(* of util/sync.h rely on, the absence of lost wakeups, writer preference, *)
(* and the refinement of ReadWriteLock.                                    *)
(***************************************************************************)

(* The inductive invariant: exclusion and the two counters are mutually    *)
(* dependent (a writer enters when val = 0, which must mean "no holder"),  *)
(* and a wakeup is not lost because the counter the unlocker tests counts  *)
(* the sleepers.                                                           *)
LockInv ==
  /\ pc \in [Threads -> States]
  /\ Accounting
  /\ NoLostWakeup

(* The sets of threads that the counters count are finite.                 *)
LEMMA Counts ==
  /\ \A s : /\ IsFiniteSet(In(s))
            /\ Cardinality(In(s)) \in Nat
            /\ Cardinality(In(s)) <= Cardinality(Threads)
            /\ Cardinality(In(s)) = 0 <=> In(s) = {}
  /\ IsFiniteSet(WaitingWriters)
  /\ Cardinality(WaitingWriters) \in Nat
  /\ Cardinality(WaitingWriters) <= Cardinality(Threads)
  /\ Cardinality(WaitingWriters) = 0 <=> WaitingWriters = {}
<1>1. \A S \in SUBSET Threads :
        /\ IsFiniteSet(S)
        /\ Cardinality(S) \in Nat
        /\ Cardinality(S) <= Cardinality(Threads)
        /\ Cardinality(S) = 0 <=> S = {}
  BY ThreadsFinite, FS_Subset, FS_CardinalityType, FS_EmptySet
<1>2. (\A s : In(s) \in SUBSET Threads) /\ WaitingWriters \in SUBSET Threads
  BY DEF In, WaitingWriters
<1> QED  BY <1>1, <1>2

(* The inductive invariant implies the type invariant.                     *)
LEMMA IInvType == LockInv => TypeOK
<1> SUFFICES ASSUME LockInv PROVE TypeOK
  OBVIOUS
<1>1. Cardinality(Threads) \in Nat
  BY ThreadsFinite, FS_CardinalityType
<1>2. val \in -1 .. Cardinality(Threads)
  BY <1>1, Counts DEF LockInv, Accounting, ValCountsHolders
<1>3. waiting_writers \in 0 .. Cardinality(Threads)
  BY <1>1, Counts DEF LockInv, Accounting, WaitingWritersCounted
<1> QED  BY <1>2, <1>3 DEF LockInv, TypeOK

(* The lock starts free.                                                   *)
LEMMA LockInitInv == Init => LockInv
<1> SUFFICES ASSUME Init PROVE LockInv
  OBVIOUS
<1>1. /\ In("reading") = {} /\ In("writing") = {} /\ In("rd_wait") = {}
      /\ WaitingWriters = {}
  BY DEF Init, In, WaitingWriters
<1>2. pc \in [Threads -> States]
  BY DEF Init, States
<1> QED
  BY <1>1, <1>2, FS_EmptySet
  DEF Init, LockInv, Accounting, Exclusive, ValCountsHolders,
      WaitingWritersCounted, NoLostWakeup, WriterOnItsWay, NoReaderForgotten

(* A read lock is taken, or the reader goes to sleep.                      *)
LEMMA ReadEnterIInv ==
  ASSUME LockInv, NEW t \in Threads, ReadEnter(t)
  PROVE  LockInv'
<1> USE DEF LockInv
<1>t. TypeOK
  BY IInvType
<1>1. pc' \in [Threads -> States]
  BY DEF ReadEnter, States
<1>2. /\ WaitingWriters' = WaitingWriters
      /\ In("writing")' = In("writing")
      /\ In("wr_woken")' = In("wr_woken")
  BY DEF ReadEnter, WaitingWriters, In
<1>3. CASE ReaderMustWait
  <2>1. In("reading")' = In("reading") /\ val' = val
        /\ waiting_writers' = waiting_writers
    BY <1>3 DEF ReadEnter, In
  <2>2. ~(val >= 0 /\ WaitingWriters = {})
    BY <1>3, <1>t, Counts
    DEF ReaderMustWait, TypeOK, Accounting, WaitingWritersCounted
  <2> QED
    BY <1>1, <1>2, <2>1, <2>2
    DEF Accounting, Exclusive, ValCountsHolders, WaitingWritersCounted,
        NoLostWakeup, WriterOnItsWay, NoReaderForgotten
<1>4. CASE ~ReaderMustWait
  <2>1. In("reading")' = In("reading") \cup {t} /\ val' = val + 1
        /\ waiting_writers' = waiting_writers /\ t \notin In("reading")
    BY <1>4 DEF ReadEnter, In
  <2>2. In("writing") = {} /\ WaitingWriters = {}
    BY <1>4, <1>t, Counts
    DEF ReaderMustWait, TypeOK, Accounting, ValCountsHolders,
        WaitingWritersCounted
  <2>3. Cardinality(In("reading")') = Cardinality(In("reading")) + 1
    BY <2>1, Counts, FS_AddElement
  <2>4. In("rd_wait") = {}
    BY <1>4, <1>t, <2>2 DEF ReaderMustWait, TypeOK, NoLostWakeup,
        NoReaderForgotten
  <2>5. In("rd_wait")' = {}
    BY <2>4, <1>4 DEF ReadEnter, In
  <2> QED
    BY <1>1, <1>2, <2>1, <2>2, <2>3, <2>5, Counts
    DEF Accounting, Exclusive, ValCountsHolders, WaitingWritersCounted,
        NoLostWakeup, WriterOnItsWay, NoReaderForgotten
<1> QED  BY <1>3, <1>4

(* Signalling moves at most one writer from asleep to woken, and leaves    *)
(* one woken when any was asleep.                                          *)
LEMMA SignalWriterFacts ==
  ASSUME pc \in [Threads -> States], NEW next \in [Threads -> States],
         \A u \in Threads : pc[u] = "wr_wait" => next[u] = "wr_wait",
         SignalWriter(next)
  PROVE  /\ pc' \in [Threads -> States]
         /\ \A u \in Threads :
              \/ pc'[u] = next[u]
              \/ next[u] = "wr_wait" /\ pc'[u] = "wr_woken"
         /\ In("wr_wait") # {} => In("wr_woken")' # {}
<1>1. CASE In("wr_wait") = {}
  BY <1>1 DEF SignalWriter
<1>2. CASE In("wr_wait") # {}
  <2>1. PICK w \in In("wr_wait") : pc' = [next EXCEPT ![w] = "wr_woken"]
    BY <1>2 DEF SignalWriter
  <2>2. w \in Threads /\ next[w] = "wr_wait" /\ pc'[w] = "wr_woken"
    BY <2>1 DEF In
  <2>3. w \in In("wr_woken")'
    BY <2>2 DEF In
  <2> QED  BY <2>1, <2>2, <2>3 DEF States
<1> QED  BY <1>1, <1>2

(* A reader leaves; the last one hands the lock to a waiting writer.       *)
LEMMA ReadUnlockIInv ==
  ASSUME LockInv, NEW t \in Threads, ReadUnlock(t)
  PROVE  LockInv'
<1> DEFINE next == [pc EXCEPT ![t] = "idle"]
<1> USE DEF LockInv
<1>t. TypeOK
  BY IInvType
<1>n. /\ next \in [Threads -> States]
      /\ \A u \in Threads : pc[u] = "wr_wait" => next[u] = "wr_wait"
  BY DEF ReadUnlock, States
<1>1. /\ pc' \in [Threads -> States]
      /\ \A u \in Threads :
           pc'[u] = next[u] \/ (next[u] = "wr_wait" /\ pc'[u] = "wr_woken")
  <2>1. CASE val' = 0 /\ waiting_writers # 0
    BY <2>1, <1>n, SignalWriterFacts DEF ReadUnlock
  <2>2. CASE ~(val' = 0 /\ waiting_writers # 0)
    BY <2>2, <1>n DEF ReadUnlock
  <2> QED  BY <2>1, <2>2
<1>2. /\ In("reading")' = In("reading") \ {t} /\ t \in In("reading")
      /\ In("writing")' = In("writing")
      /\ In("rd_wait")' = In("rd_wait")
      /\ WaitingWriters' = WaitingWriters
  BY <1>1 DEF ReadUnlock, In, WaitingWriters
<1>3. In("writing") = {}
  BY <1>2 DEF Accounting, Exclusive
<1>4. Cardinality(In("reading")') = Cardinality(In("reading")) - 1
  BY <1>2, Counts, FS_RemoveElement
<1>5. val' = val - 1 /\ waiting_writers' = waiting_writers
  BY DEF ReadUnlock
<1>6. Accounting'
  BY <1>2, <1>3, <1>4, <1>5
  DEF Accounting, Exclusive, ValCountsHolders, WaitingWritersCounted
<1>7. WriterOnItsWay'
  <2> SUFFICES ASSUME val' = 0, WaitingWriters # {} PROVE In("wr_woken")' # {}
    BY <1>2 DEF WriterOnItsWay
  <2>1. waiting_writers # 0
    BY Counts DEF Accounting, WaitingWritersCounted
  <2>2. SignalWriter(next)
    BY <2>1 DEF ReadUnlock
  <2>3. CASE In("wr_wait") # {}
    BY <2>2, <2>3, <1>n, SignalWriterFacts
  <2>4. CASE In("wr_wait") = {}
    <3>1. PICK w \in Threads : pc[w] = "wr_woken"
      BY <2>4 DEF WaitingWriters, In
    <3>2. pc'[w] = "wr_woken"
      BY <3>1, <1>1 DEF ReadUnlock
    <3> QED  BY <3>1, <3>2 DEF In
  <2> QED  BY <2>3, <2>4
<1>8. NoReaderForgotten'
  BY <1>2, <1>3, <1>5, <1>t, Counts
  DEF NoReaderForgotten, NoLostWakeup, Accounting, ValCountsHolders
<1> QED  BY <1>1, <1>6, <1>7, <1>8 DEF NoLostWakeup

(* A writer takes the free lock, or counts itself and goes to sleep.       *)
LEMMA WriteEnterIInv ==
  ASSUME LockInv, NEW t \in Threads, WriteEnter(t)
  PROVE  LockInv'
<1> USE DEF LockInv
<1>t. TypeOK
  BY IInvType
<1>1. pc' \in [Threads -> States]
  BY DEF WriteEnter, States
<1>2. /\ In("reading")' = In("reading")
      /\ In("rd_wait")' = In("rd_wait")
  BY DEF WriteEnter, In
<1>3. Counted(t) = Cardinality(WaitingWriters \cup {t})
  <2>1. pc[t] = "idle" <=> t \notin WaitingWriters
    BY DEF WriteEnter, WaitingWriters
  <2> QED
    BY <2>1, Counts, FS_AddElement
    DEF Counted, Accounting, WaitingWritersCounted
<1>4. CASE WriterMustWait
  <2>1. /\ WaitingWriters' = WaitingWriters \cup {t}
        /\ In("writing")' = In("writing")
    BY <1>4 DEF WriteEnter, WaitingWriters, In
  <2>2. val' = val /\ waiting_writers' = Counted(t) /\ val # 0
    BY <1>4 DEF WriteEnter, WriterMustWait
  <2>3. Accounting'
    BY <1>2, <1>3, <2>1, <2>2
    DEF Accounting, Exclusive, ValCountsHolders, WaitingWritersCounted
  <2>4. NoLostWakeup'
    BY <2>1, <2>2 DEF NoLostWakeup, WriterOnItsWay, NoReaderForgotten
  <2> QED  BY <1>1, <2>3, <2>4
<1>5. CASE ~WriterMustWait
  <2>1. /\ WaitingWriters' = (WaitingWriters \cup {t}) \ {t}
        /\ In("writing")' = In("writing") \cup {t}
    BY <1>5 DEF WriteEnter, WaitingWriters, In
  <2>2. val' = -1 /\ waiting_writers' = Counted(t) - 1 /\ val = 0
    BY <1>5 DEF WriteEnter, WriterMustWait
  <2>3. Cardinality(WaitingWriters') = Counted(t) - 1
    <3>1. IsFiniteSet(WaitingWriters \cup {t})
      BY Counts, FS_AddElement
    <3> QED  BY <3>1, <2>1, <1>3, FS_RemoveElement
  <2>4. In("writing") = {} /\ In("reading") = {}
    BY <2>2, Counts DEF Accounting, ValCountsHolders
  <2>5. Accounting'
    BY <1>2, <2>1, <2>2, <2>3, <2>4
    DEF Accounting, Exclusive, ValCountsHolders, WaitingWritersCounted
  <2>6. NoLostWakeup'
    BY <2>2 DEF NoLostWakeup, WriterOnItsWay, NoReaderForgotten
  <2> QED  BY <1>1, <2>5, <2>6
<1> QED  BY <1>4, <1>5

(* A writer leaves: to a waiting writer first, else to all the readers.    *)
LEMMA WriteUnlockIInv ==
  ASSUME LockInv, NEW t \in Threads, WriteUnlock(t)
  PROVE  LockInv'
<1> DEFINE next == [pc EXCEPT ![t] = "idle"]
<1> USE DEF LockInv
<1>t. TypeOK
  BY IInvType
<1>n. /\ next \in [Threads -> States]
      /\ \A u \in Threads : pc[u] = "wr_wait" => next[u] = "wr_wait"
  BY DEF WriteUnlock, States
<1>h. In("writing") = {t} /\ In("reading") = {}
  BY DEF WriteUnlock, In, Accounting, Exclusive
<1>v. val' = 0 /\ waiting_writers' = waiting_writers
  BY DEF WriteUnlock
<1>1. CASE waiting_writers # 0
  <2>1. SignalWriter(next)
    BY <1>1 DEF WriteUnlock, HandOver
  <2>2. /\ pc' \in [Threads -> States]
        /\ \A u \in Threads :
             pc'[u] = next[u] \/ (next[u] = "wr_wait" /\ pc'[u] = "wr_woken")
        /\ In("wr_wait") # {} => In("wr_woken")' # {}
    BY <2>1, <1>n, SignalWriterFacts
  <2>3. /\ In("reading")' = {} /\ In("writing")' = {}
        /\ WaitingWriters' = WaitingWriters
    BY <2>2, <1>h DEF WriteUnlock, In, WaitingWriters
  <2>4. In("wr_woken")' # {} /\ WaitingWriters # {}
    <3>1. WaitingWriters # {}
      BY <1>1, Counts DEF Accounting, WaitingWritersCounted
    <3>2. CASE In("wr_wait") = {}
      <4>1. PICK w \in Threads : pc[w] = "wr_woken"
        BY <3>1, <3>2 DEF WaitingWriters, In
      <4>2. pc'[w] = "wr_woken"
        BY <4>1, <2>2 DEF WriteUnlock
      <4> QED  BY <3>1, <4>1, <4>2 DEF In
    <3> QED  BY <3>1, <3>2, <2>2
  <2> QED
    BY <1>v, <2>2, <2>3, <2>4, FS_EmptySet
    DEF Accounting, Exclusive, ValCountsHolders, WaitingWritersCounted,
        NoLostWakeup, WriterOnItsWay, NoReaderForgotten
<1>2. CASE waiting_writers = 0
  <2>1. BroadcastReaders(next)
    BY <1>2 DEF WriteUnlock, HandOver
  <2>2. pc' \in [Threads -> States]
    BY <2>1, <1>n DEF BroadcastReaders, States
  <2>3. /\ In("reading")' = {} /\ In("writing")' = {} /\ In("rd_wait")' = {}
        /\ WaitingWriters' = WaitingWriters
    BY <2>1, <1>h DEF WriteUnlock, BroadcastReaders, In, WaitingWriters
  <2>4. WaitingWriters = {}
    BY <1>2, Counts DEF Accounting, WaitingWritersCounted
  <2> QED
    BY <1>v, <2>2, <2>3, <2>4, FS_EmptySet
    DEF Accounting, Exclusive, ValCountsHolders, WaitingWritersCounted,
        NoLostWakeup, WriterOnItsWay, NoReaderForgotten
<1> QED  BY <1>1, <1>2

(* A spurious wakeup changes neither counter nor who waits.                *)
LEMMA SpuriousIInv ==
  ASSUME LockInv, NEW t \in Threads, SpuriousWakeup(t)
  PROVE  LockInv'
<1> USE DEF LockInv
<1>1. pc' \in [Threads -> States]
  BY DEF SpuriousWakeup, States
<1>2. /\ In("reading")' = In("reading") /\ In("writing")' = In("writing")
      /\ WaitingWriters' = WaitingWriters
      /\ In("wr_woken") \subseteq In("wr_woken")'
      /\ In("rd_wait")' \subseteq In("rd_wait")
  BY DEF SpuriousWakeup, In, WaitingWriters
<1>3. val' = val /\ waiting_writers' = waiting_writers
  BY DEF SpuriousWakeup
<1> QED
  BY <1>1, <1>2, <1>3
  DEF Accounting, Exclusive, ValCountsHolders, WaitingWritersCounted,
      NoLostWakeup, WriterOnItsWay, NoReaderForgotten

(* The invariant is inductive.                                             *)
LEMMA LockNextInv == LockInv /\ [Next]_vars => LockInv'
<1> SUFFICES ASSUME LockInv, [Next]_vars PROVE LockInv'
  OBVIOUS
<1>1. CASE UNCHANGED vars
  BY <1>1
  DEF vars, LockInv, Accounting, Exclusive, ValCountsHolders, In,
      WaitingWritersCounted, WaitingWriters, NoLostWakeup, WriterOnItsWay,
      NoReaderForgotten
<1>2. CASE Next
  BY <1>2, ReadEnterIInv, ReadUnlockIInv, WriteEnterIInv, WriteUnlockIInv,
     SpuriousIInv
  DEF Next
<1> QED  BY <1>1, <1>2

(* In every execution, with any number of threads: the types, the          *)
(* accounting the asserts of util/sync.h rest on, and no lost wakeup.      *)
THEOREM LockIsSafe == Spec => [](TypeOK /\ Accounting /\ NoLostWakeup)
<1>1. LockInv => TypeOK /\ Accounting /\ NoLostWakeup
  BY IInvType DEF LockInv
<1> QED  BY <1>1, LockInitInv, LockNextInv, PTL DEF Spec

(* No thread takes a read lock while a writer waits.                       *)
THEOREM WritersFirst == Spec => WriterPreference
<1>1. LockInv /\ [Next]_vars => [ReaderYields]_vars
  <2> SUFFICES ASSUME LockInv, Next, NEW t \in Threads,
                      pc[t] # "reading", pc'[t] = "reading"
               PROVE  WaitingWriters = {}
    BY DEF ReaderYields
  <2>1. pc \in [Threads -> States]
    BY DEF LockInv
  <2>2. PICK u \in Threads : \/ ReadEnter(u) \/ ReadUnlock(u) \/ WriteEnter(u)
                             \/ WriteUnlock(u) \/ SpuriousWakeup(u)
    BY DEF Next
  <2>3. CASE ReadEnter(u)
    <3>1. u = t /\ ~ReaderMustWait
      BY <2>1, <2>3 DEF ReadEnter
    <3> QED
      BY <3>1, Counts DEF ReaderMustWait, LockInv, Accounting, WaitingWritersCounted
  <2>4. CASE ReadUnlock(u)
    BY <2>1, <2>4 DEF ReadUnlock, SignalWriter, In
  <2>5. CASE WriteEnter(u)
    BY <2>1, <2>5 DEF WriteEnter
  <2>6. CASE WriteUnlock(u)
    BY <2>1, <2>6 DEF WriteUnlock, HandOver, SignalWriter, BroadcastReaders, In
  <2>7. CASE SpuriousWakeup(u)
    BY <2>1, <2>7 DEF SpuriousWakeup
  <2> QED  BY <2>2, <2>3, <2>4, <2>5, <2>6, <2>7
<1> QED  BY <1>1, LockInitInv, LockNextInv, PTL DEF Spec, WriterPreference

(* Exclusion as its callers see it: the set of holders changes only as a   *)
(* read-write lock's may.                                                  *)
THEOREM Refinement == Spec => ImplementsReadWriteLock
<1>1. Init => RW!Init
  BY DEF Init, RW!Init, In
<1>2. LockInv /\ LockInv' /\ [Next]_vars => [RW!Next]_RW!vars
  <2> SUFFICES ASSUME LockInv, LockInv', [Next]_vars PROVE [RW!Next]_RW!vars
    OBVIOUS
  <2>t. pc \in [Threads -> States] /\ Accounting
    BY DEF LockInv
  <2>1. ASSUME NEW t \in Threads, ReadEnter(t) PROVE [RW!Next]_RW!vars
    <3>1. In("writing")' = In("writing")
      BY <2>t, <2>1 DEF ReadEnter, In
    <3>2. CASE ReaderMustWait
      <4>1. In("reading")' = In("reading")
        BY <2>t, <2>1, <3>2 DEF ReadEnter, In
      <4> QED  BY <3>1, <4>1 DEF RW!vars
    <3>3. CASE ~ReaderMustWait
      <4>1. /\ In("reading")' = In("reading") \cup {t}
            /\ t \notin In("reading")
        BY <2>t, <2>1, <3>3 DEF ReadEnter, In
      <4>2. In("writing") = {}
        BY <2>t, <3>3 DEF Accounting, ValCountsHolders, ReaderMustWait
      <4>3. RW!AcquireRead(t)
        BY <3>1, <4>1, <4>2 DEF RW!AcquireRead
      <4> QED  BY <4>3 DEF RW!Next
    <3> QED  BY <3>2, <3>3
  <2>2. ASSUME NEW t \in Threads, ReadUnlock(t) PROVE [RW!Next]_RW!vars
    <3>1. /\ In("reading")' = In("reading") \ {t}
          /\ In("writing")' = In("writing")
          /\ t \in In("reading")
      BY <2>t, <2>2 DEF ReadUnlock, SignalWriter, In
    <3>2. RW!ReleaseRead(t)
      BY <3>1 DEF RW!ReleaseRead
    <3> QED  BY <3>2 DEF RW!Next
  <2>3. ASSUME NEW t \in Threads, WriteEnter(t) PROVE [RW!Next]_RW!vars
    <3>1. In("reading")' = In("reading")
      BY <2>t, <2>3 DEF WriteEnter, In
    <3>2. CASE WriterMustWait
      <4>1. In("writing")' = In("writing")
        BY <2>t, <2>3, <3>2 DEF WriteEnter, In
      <4> QED  BY <3>1, <4>1 DEF RW!vars
    <3>3. CASE ~WriterMustWait
      <4>1. In("writing")' = In("writing") \cup {t}
        BY <2>t, <2>3, <3>3 DEF WriteEnter, In
      <4>2. In("writing") = {} /\ In("reading") = {}
        BY <2>t, <3>3, Counts DEF Accounting, ValCountsHolders, WriterMustWait
      <4>3. RW!AcquireWrite(t)
        BY <3>1, <4>1, <4>2 DEF RW!AcquireWrite
      <4> QED  BY <4>3 DEF RW!Next
    <3> QED  BY <3>2, <3>3
  <2>4. ASSUME NEW t \in Threads, WriteUnlock(t) PROVE [RW!Next]_RW!vars
    <3>1. /\ In("writing")' = In("writing") \ {t}
          /\ In("reading")' = In("reading")
          /\ t \in In("writing")
      BY <2>t, <2>4 DEF WriteUnlock, HandOver, SignalWriter, BroadcastReaders, In
    <3>2. RW!ReleaseWrite(t)
      BY <3>1 DEF RW!ReleaseWrite
    <3> QED  BY <3>2 DEF RW!Next
  <2>5. ASSUME NEW t \in Threads, SpuriousWakeup(t) PROVE [RW!Next]_RW!vars
    <3>1. In("reading")' = In("reading") /\ In("writing")' = In("writing")
      BY <2>t, <2>5 DEF SpuriousWakeup, In
    <3> QED  BY <3>1 DEF RW!vars
  <2>6. ASSUME UNCHANGED vars PROVE [RW!Next]_RW!vars
    BY <2>6 DEF vars, RW!vars, In
  <2> QED  BY <2>1, <2>2, <2>3, <2>4, <2>5, <2>6 DEF Next
<1> QED
  BY <1>1, <1>2, LockInitInv, LockNextInv, PTL
  DEF Spec, ImplementsReadWriteLock, RW!Spec

---------------------------------------------------------------------------
(***************************************************************************)
(* A timer for any clock, spans and intervals: whoever sets and frees it,  *)
(* an armed timer has a thread, fires on time and in phase, and is freed   *)
(* by the last who uses it.                                                *)
(***************************************************************************)

TimerRec == [mem : {"live", "freed"}, active : BOOLEAN, end : Int, interval : Nat,
             running : BOOLEAN, dead : BOOLEAN, lock : {"free", "thread"}]
ThreadRec == [at : {"none", "entering", "looking", "drowsy", "asleep", "firing"},
              span : Int, until : Int]
CallRec == [at : {"idle", "setting", "freeing", "closed"}, value : Int, interval : Nat]
NapRec == [at : {"idle", "checking", "waiting", "slept", "interrupted"}, deadline : Int,
           left : Int, signal : BOOLEAN, err : {"ok", "EINTR", "ETIMEDOUT"}]

TimerType ==
  /\ clock \in 0..MaxNow
  /\ timer \in TimerRec
  /\ tthread \in ThreadRec
  /\ tcall \in CallRec
  /\ expirations \in Nat
  /\ reader \in {"idle", "waiting", "woken"}
  /\ nap \in NapRec
  /\ tghost \in [first : Int, fires : Nat, sets : Nat]

(* The thread that looks at the timer or fires it has timer->lock; what it *)
(* fires is armed and due.                                                 *)
ThreadHolds ==
  /\ timer.lock = "thread" <=> tthread.at \in {"looking", "firing"}
  /\ tthread.at = "firing" => timer.active /\ timer.end <= clock

(* A timer that is free, or left to the thread, is never armed again.      *)
Disarmed == timer.dead \/ tcall.at = "closed" => tcall.at = "closed" /\ ~timer.active

(* The next expiry is counted from the time the timer was armed for; a     *)
(* thread that runs for a timer without interval has not fired it.         *)
NextDue == tghost.first + tghost.fires * timer.interval
Phase ==
  timer.active /\ (timer.running \/ timer.interval > 0) =>
    /\ timer.end = NextDue
    /\ timer.interval = 0 => tghost.fires = 0

NapSound ==
  /\ nap.deadline <= MaxNow
  /\ nap.err = "EINTR" => nap.signal
  /\ reader # "idle" => owner = "timerfd"

Kept == TimerSafe /\ ThreadHolds /\ Disarmed /\ Phase /\ NapSound
TimerInv == TimerType /\ Kept

(* The smaller of two integers.                                            *)
LEMMA MinOfTwo == ASSUME NEW a \in Int, NEW b \in Int
                  PROVE  Min({a, b}) \in Int /\ Min({a, b}) <= a /\ Min({a, b}) <= b
<1> DEFINE m == IF a <= b THEN a ELSE b
<1>1. m \in {a, b} /\ \A y \in {a, b} : m =< y
  OBVIOUS
<1> QED  BY <1>1 DEF Min

(* The literal that the records are reset to has their type.               *)
LEMMA ZeroIsInt == 0 \in Int /\ 0 \in Nat
OBVIOUS

(* What the operators on a timer and its thread return.                    *)
LEMMA TimerResults ==
  ASSUME NEW t \in TimerRec, NEW value \in Int, NEW every \in Nat, NEW t0 \in Int
  PROVE  /\ Finished(t) \in TimerRec /\ Freed(t) \in TimerRec
         /\ Armed(t, value, every, t0) \in TimerRec
         /\ \A held \in {"free", "thread"} : [t EXCEPT !.lock = held] \in TimerRec
<1>1. Finished(t) \in TimerRec     BY DEF Finished, TimerRec
<1>2. Freed(t) \in TimerRec        BY DEF Freed, TimerRec
<1>3. Armed(t, value, every, t0) \in TimerRec
  <2> DEFINE end == t0 + value  active == (value # 0)  running == (t.running \/ value # 0)
  <2>1. end \in Int /\ active \in BOOLEAN /\ running \in BOOLEAN
    OBVIOUS
  <2>2. Armed(t, value, every, t0) =
          [t EXCEPT !.end = end, !.interval = every, !.active = active, !.running = running]
    BY DEF Armed
  <2> HIDE DEF end, active, running
  <2> QED  BY <2>1, <2>2 DEF TimerRec
<1>4. \A held \in {"free", "thread"} : [t EXCEPT !.lock = held] \in TimerRec
  BY DEF TimerRec
<1> QED  BY <1>1, <1>2, <1>3, <1>4

(* What the steps write into the record of the thread is such a record.   *)
LEMMA ThreadResults ==
  ASSUME NEW th \in ThreadRec
  PROVE  /\ Kicked(th) \in ThreadRec
         /\ \A step \in {"none", "entering", "looking", "drowsy", "asleep", "firing"}, span, until \in Int :
              /\ [th EXCEPT !.at = step] \in ThreadRec
              /\ [th EXCEPT !.at = step, !.span = span] \in ThreadRec
              /\ [th EXCEPT !.at = step, !.span = span, !.until = until] \in ThreadRec
<1>1. \A until \in Int : [th EXCEPT !.at = "entering", !.until = until] \in ThreadRec
  BY DEF ThreadRec
<1>2. Kicked(th) \in ThreadRec  BY <1>1, ZeroIsInt DEF Kicked
<1>3. \A step \in {"none", "entering", "looking", "drowsy", "asleep", "firing"}, span, until \in Int :
        /\ [th EXCEPT !.at = step] \in ThreadRec
        /\ [th EXCEPT !.at = step, !.span = span] \in ThreadRec
        /\ [th EXCEPT !.at = step, !.span = span, !.until = until] \in ThreadRec
  BY DEF ThreadRec
<1> QED  BY <1>2, <1>3

(* clock_nanosleep asks for a deadline the clock can reach.                *)
LEMMA NapDeadline ==
  ASSUME TimerType, Nap
  PROVE  \E deadline \in Int :
           /\ deadline <= MaxNow
           /\ nap' = [nap EXCEPT !.at = "checking", !.err = "ok", !.deadline = deadline]
<1> USE TimerAssumption
<1>1. PICK span \in Spans, abs \in BOOLEAN :
        nap' = [nap EXCEPT !.at = "checking", !.err = "ok",
                  !.deadline = Min({(IF abs THEN 0 ELSE clock) + span, MaxNow})]
  BY DEF Nap
<1> DEFINE asked == (IF abs THEN 0 ELSE clock) + span
<1>2. asked \in Int
  BY DEF TimerType
<1>3. nap' = [nap EXCEPT !.at = "checking", !.err = "ok", !.deadline = Min({asked, MaxNow})]
  BY <1>1
<1> HIDE DEF asked
<1>4. MaxNow \in Int
  OBVIOUS
<1>5. Min({asked, MaxNow}) \in Int /\ Min({asked, MaxNow}) <= MaxNow
  BY <1>2, <1>4, MinOfTwo
<1> QED  BY <1>3, <1>5

(* No timer is set at first.                                               *)
LEMMA TimerInitInv == TimerInit => TimerInv
<1> SUFFICES ASSUME TimerInit PROVE TimerInv
  OBVIOUS
<1> USE TimerAssumption DEF TimerInit, NoCall
<1>1. TimerType
  BY DEF TimerType, TimerRec, ThreadRec, CallRec, NapRec
<1>2. TimerSafe
  BY DEF TimerSafe, Attended, Punctual, SleepHonest
<1>3. ThreadHolds /\ Disarmed /\ Phase /\ NapSound
  BY DEF ThreadHolds, Disarmed, Phase, NapSound
<1> QED  BY <1>1, <1>2, <1>3 DEF TimerInv, Kept

---------------------------------------------------------------------------
(* Every step keeps the types: first those of the timer's thread.          *)
LEMMA ThreadTypes == ASSUME TimerType, Thread PROVE TimerType'
<1> USE TimerAssumption DEF TimerType
<1>0. clock \in Int /\ timer.end \in Int /\ timer.interval \in Nat /\ tthread.span \in Int
  BY DEF TimerRec, ThreadRec
<1>1. CASE ThreadLocks
  <2>1. timer' \in TimerRec
    BY <1>1 DEF ThreadLocks, TimerRec
  <2>2. tthread' \in ThreadRec
    BY <1>1 DEF ThreadLocks, ThreadRec
  <2> QED  BY <1>1, <2>1, <2>2 DEF ThreadLocks
<1>2. CASE ThreadLooks
  <2>1. timer' \in TimerRec
    BY <1>2, TimerResults, ZeroIsInt DEF ThreadLooks
  <2>2. tthread' \in ThreadRec
    <3>1. CASE tthread' = [tthread EXCEPT !.at = "drowsy", !.span = timer.end - clock]
      <4>1. timer.end - clock \in Int
        BY <1>0
      <4> QED  BY <3>1, <4>1, ThreadResults, ZeroIsInt
    <3>2. CASE \E step \in {"firing", "none"} : tthread' = [tthread EXCEPT !.at = step]
      BY <3>2 DEF ThreadRec
    <3> QED  BY <1>2, <3>1, <3>2 DEF ThreadLooks
  <2> QED  BY <1>2, <2>1, <2>2 DEF ThreadLooks
<1>3. CASE ThreadSleeps
  <2> DEFINE wake == clock + tthread.span
             until == Min({wake, MaxNow})
  <2>1. wake \in Int
    BY <1>0
  <2>2. tthread' = [tthread EXCEPT !.at = "asleep", !.span = 0, !.until = until]
    BY <1>3 DEF ThreadSleeps
  <2> HIDE DEF wake
  <2>m. MaxNow \in Int
    OBVIOUS
  <2>3. until \in Int
    BY ONLY <2>1, <2>m, MinOfTwo DEF until
  <2> HIDE DEF until
  <2>4. tthread' \in ThreadRec
    <3>1. tthread \in ThreadRec
      OBVIOUS
    <3>2. [tthread EXCEPT !.at = "asleep", !.span = 0, !.until = until] \in ThreadRec
      BY ONLY <3>1, <2>3, ThreadResults, ZeroIsInt
    <3> QED  BY ONLY <2>2, <3>2
  <2> QED  BY <1>3, <2>4 DEF ThreadSleeps
<1>4. CASE ThreadWakes
  BY <1>4, ThreadResults DEF ThreadWakes
<1>5. CASE ThreadFires
  <2>1. timer' \in TimerRec
    <3>1. CASE timer' = [timer EXCEPT !.end = @ + timer.interval]
      <4> DEFINE end == timer.end + timer.interval
      <4>1. end \in Int /\ timer' = [timer EXCEPT !.end = end]
        BY <1>0, <3>1
      <4> HIDE DEF end
      <4> QED  BY <4>1 DEF TimerRec
    <3> QED  BY <1>5, <3>1, TimerResults, ZeroIsInt DEF ThreadFires
  <2>2. tthread' \in ThreadRec
    BY <1>5 DEF ThreadFires, ThreadRec
  <2>3. expirations' \in Nat /\ reader' \in {"idle", "waiting", "woken"}
    BY <1>5 DEF ThreadFires, TimerfdCallback, ItimerNotify, PosixTimerCallback
  <2> QED  BY <1>5, <2>1, <2>2, <2>3 DEF ThreadFires
<1> QED  BY <1>1, <1>2, <1>3, <1>4, <1>5 DEF Thread

(* A value that is asked for, made relative to now, is some number.        *)
LEMMA Asked ==
  ASSUME TimerType, Settings
  PROVE  \E value \in Int, every \in Nat : SetTime(value, every)
<1> USE TimerAssumption
<1>1. \A span \in Askable, abs \in BOOLEAN : Relative(span, abs) \in Int /\ span \in Int
  BY DEF Askable, Relative, TimerType
<1>2. CASE SysTimerfdSettime  BY <1>1, <1>2 DEF SysTimerfdSettime
<1>3. CASE SysTimerSettime    BY <1>1, <1>3 DEF SysTimerSettime
<1>4. CASE SysSetitimer       BY <1>1, <1>4 DEF SysSetitimer
<1>5. CASE SysAlarm           BY <1>1, <1>5, ZeroIsInt DEF SysAlarm
<1> QED  BY <1>2, <1>3, <1>4, <1>5 DEF Settings

(* The types of the calls that set and free the timer.                     *)
LEMMA CallTypes == ASSUME TimerType, Settings \/ Closings \/ Caller PROVE TimerType'
<1> USE TimerAssumption DEF TimerType
<1>1. CASE Settings
  <2>1. PICK value \in Int, every \in Nat : SetTime(value, every)
    BY <1>1, Asked
  <2> QED  BY <2>1 DEF SetTime, CallRec
<1>2. CASE Closings
  BY <1>2 DEF Closings, TimerfdClose, SysTimerDelete, ExitTgroup, Close, CallRec
<1>3. CASE TimerSet
  <2>1. clock \in Int /\ tcall.value \in Int /\ tcall.interval \in Nat
    BY DEF CallRec
  <2>2. timer' \in TimerRec
    BY <1>3, <2>1, TimerResults DEF TimerSet
  <2>3. tthread' \in ThreadRec
    BY <1>3, ThreadResults, ZeroIsInt DEF TimerSet
  <2>4. tcall' \in CallRec
    BY <1>3 DEF TimerSet, NoCall, CallRec
  <2> QED  BY <1>3, <2>1, <2>2, <2>3, <2>4 DEF TimerSet
<1>4. CASE TimerFree
  <2>1. timer' \in TimerRec
    BY <1>4, TimerResults, ZeroIsInt DEF TimerFree
  <2>2. tthread' \in ThreadRec
    BY <1>4, ThreadResults DEF TimerFree
  <2> QED  BY <1>4, <2>1, <2>2 DEF TimerFree, CallRec
<1> QED  BY <1>1, <1>2, <1>3, <1>4 DEF Caller

(* The types of the reader, the sleeping call and the clock.               *)
LEMMA OtherTypes ==
  ASSUME TimerType, TimerfdRead \/ TargetExits \/ Nap \/ Sleeper \/ NapSignal \/ Tick
  PROVE  TimerType'
<1> USE TimerAssumption DEF TimerType
<1>1. CASE TimerfdRead  BY <1>1 DEF TimerfdRead
<1>2. CASE TargetExits  BY <1>2 DEF TargetExits
<1>3. CASE Nap
  <2>1. PICK deadline \in Int :
          nap' = [nap EXCEPT !.at = "checking", !.err = "ok", !.deadline = deadline]
    BY <1>3, NapDeadline
  <2>2. nap' \in NapRec
    BY <2>1 DEF NapRec
  <2> QED  BY <1>3, <2>2 DEF Nap
<1>4. CASE NapChecks
  <2> DEFINE left == nap.deadline - clock
  <2>1. left \in Int
    BY DEF NapRec
  <2>2. \/ nap' = [nap EXCEPT !.at = "slept"]
        \/ \E step \in {"interrupted", "waiting"} : nap' = [nap EXCEPT !.at = step, !.left = left]
    BY <1>4 DEF NapChecks
  <2> HIDE DEF left
  <2>3. nap' \in NapRec
    BY <2>1, <2>2 DEF NapRec
  <2> QED  BY <1>4, <2>3 DEF NapChecks
<1>5. CASE NapWakes
  <2>1. PICK err \in {"ok", "EINTR", "ETIMEDOUT"} : nap' = [nap EXCEPT !.at = "checking", !.err = err]
    BY <1>5 DEF NapWakes
  <2>2. nap' \in NapRec
    BY <2>1 DEF NapRec
  <2> QED  BY <1>5, <2>2 DEF NapWakes
<1>6. CASE NapSignal
  <2>1. nap' \in NapRec
    BY <1>6 DEF NapSignal, NapRec
  <2> QED  BY <1>6, <2>1 DEF NapSignal
<1>7. CASE Tick         BY <1>7 DEF Tick
<1> QED  BY <1>1, <1>2, <1>3, <1>4, <1>5, <1>6, <1>7 DEF Sleeper

---------------------------------------------------------------------------
(* What the thread that looks at the timer does next.                      *)
Drowses == /\ timer'.lock = "free" /\ tthread'.at = "drowsy"
           /\ timer'.running = timer.running /\ timer'.mem = timer.mem
WillFire == /\ timer'.lock = timer.lock /\ tthread'.at = "firing"
            /\ timer'.running = timer.running /\ timer'.mem = timer.mem
            /\ timer.active /\ timer.end <= clock
Ends == /\ timer'.lock = "free" /\ tthread'.at = "none"
        /\ timer'.running = FALSE /\ ~timer.active
        /\ timer'.mem = IF timer.dead THEN "freed" ELSE timer.mem

(* It leaves alone what the timer is armed for.                            *)
LEMMA Looking ==
  ASSUME timer \in TimerRec, tthread \in ThreadRec, ThreadLooks
  PROVE  /\ UNCHANGED <<timer.active, timer.end, timer.interval, timer.dead>>
         /\ Drowses \/ WillFire \/ Ends
<1> USE DEF TimerRec, ThreadRec
<1>1. CASE /\ timer' = [timer EXCEPT !.lock = "free"]
           /\ tthread' = [tthread EXCEPT !.at = "drowsy", !.span = timer.end - clock]
  BY <1>1 DEF Drowses
<1>2. CASE /\ timer' = timer /\ tthread' = [tthread EXCEPT !.at = "firing"]
           /\ timer.active /\ Due(timer, clock)
  BY <1>2 DEF WillFire, Due
<1>3. CASE /\ timer' = Finished(timer) /\ tthread' = [tthread EXCEPT !.at = "none"]
           /\ ~timer.active
  BY <1>3 DEF Ends, Finished
<1> HIDE DEF TimerRec, ThreadRec
<1> QED  BY <1>1, <1>2, <1>3 DEF ThreadLooks

(* The rest of the invariant: the thread takes the lock, looks, sleeps and *)
(* wakes.                                                                  *)
LEMMA ThreadStep ==
  ASSUME TimerInv, ThreadLocks \/ ThreadLooks \/ ThreadSleeps \/ ThreadWakes PROVE Kept'
<1> USE TimerAssumption DEF TimerInv, TimerType, TimerRec, ThreadRec, CallRec, NapRec,
        Kept, TimerSafe, Attended, Punctual, SleepHonest, ThreadHolds, Disarmed, Phase, NapSound, NextDue
<1>1. CASE ThreadLocks   BY <1>1 DEF ThreadLocks
<1>2. CASE ThreadLooks
  <2>0. tthread.at = "looking" /\ timer.running
    BY <1>2 DEF ThreadLooks
  <2>1. UNCHANGED <<clock, owner, tcall, expirations, reader, nap, tghost>>
    BY <1>2 DEF ThreadLooks
  <2>2. /\ UNCHANGED <<timer.active, timer.end, timer.interval, timer.dead>>
        /\ Drowses \/ WillFire \/ Ends
    BY <1>2, Looking
  <2>3. Attended'
    BY <2>0, <2>1, <2>2 DEF Drowses, WillFire, Ends
  <2>4. Punctual' /\ SleepHonest'
    BY <2>1, <2>2
  <2>5. ThreadHolds' /\ Disarmed'
    BY <2>0, <2>1, <2>2 DEF Drowses, WillFire, Ends
  <2>6. Phase' /\ NapSound'
    BY <2>0, <2>1, <2>2 DEF Drowses, WillFire, Ends
  <2> HIDE DEF Attended, Punctual, SleepHonest, ThreadHolds, Disarmed, Phase, NapSound
  <2> QED  BY <2>3, <2>4, <2>5, <2>6
<1>3. CASE ThreadSleeps  BY <1>3 DEF ThreadSleeps
<1>4. CASE ThreadWakes   BY <1>4 DEF ThreadWakes, Kicked
<1> QED  BY <1>1, <1>2, <1>3, <1>4

(* The thread fires: an expiry that was due, and the next one an interval  *)
(* later.                                                                  *)
LEMMA FireStep == ASSUME TimerInv, ThreadFires PROVE Kept'
<1> USE TimerAssumption DEF TimerInv, Kept, TimerType, TimerRec, ThreadRec, CallRec, NapRec
<1>1. timer.active /\ timer.end <= clock /\ timer.end = NextDue /\ timer.running
  BY DEF TimerSafe, Attended, ThreadHolds, Phase, ThreadFires
<1>2. /\ reader' = "waiting" => expirations' = 0
      /\ reader' # "idle" => owner = "timerfd"
  BY DEF TimerSafe, SleepHonest, NapSound, ThreadFires, TimerfdCallback,
         ItimerNotify, PosixTimerCallback, SigevMethods
<1>3. /\ tghost' = [tghost EXCEPT !.fires = @ + 1]
      /\ UNCHANGED <<clock, owner, tcall, nap>>
  BY DEF ThreadFires
<1>4. tghost.fires * timer.interval \in Int
      /\ (tghost.fires + 1) * timer.interval = tghost.fires * timer.interval + timer.interval
  OBVIOUS
<1>5. SleepHonest' /\ NapSound'
  BY <1>2, <1>3 DEF TimerSafe, SleepHonest, NapSound
<1>6. CASE timer.interval > 0
  <2>1. /\ timer' = [timer EXCEPT !.end = @ + timer.interval]
        /\ tthread' = [tthread EXCEPT !.at = "looking"]
    BY <1>1, <1>6 DEF ThreadFires
  <2>2. timer'.end = NextDue'
    BY <1>1, <1>3, <1>4, <2>1 DEF NextDue
  <2>3. clock >= tghost.first + tghost.fires * timer.interval
    BY <1>1 DEF NextDue
  <2>4. Punctual'
    BY <1>1, <1>3, <1>4, <1>6, <2>1, <2>2, <2>3 DEF Punctual, NextDue
  <2>5. Attended'
    BY <1>1, <1>3, <1>6, <2>1 DEF TimerSafe, Attended, ThreadFires
  <2>6. ThreadHolds' /\ Disarmed' /\ Phase'
    BY <1>1, <1>3, <1>6, <2>1, <2>2 DEF ThreadHolds, Disarmed, Phase, ThreadFires
  <2> QED  BY <1>5, <2>4, <2>5, <2>6 DEF TimerSafe
<1>7. CASE timer.interval = 0
  <2>1. timer' = Finished(timer) /\ tthread' = [tthread EXCEPT !.at = "none"]
    BY <1>7 DEF ThreadFires
  <2>2. tghost.fires = 0 /\ tghost.first <= clock
    BY <1>1, <1>7 DEF Phase, NextDue
  <2>3. Punctual'
    BY <1>3, <1>7, <2>1, <2>2 DEF Punctual, Finished
  <2>4. Attended'
    BY <1>1, <1>3, <1>7, <2>1, <2>2 DEF TimerSafe, Attended, Finished, Disarmed, ThreadHolds
  <2>5. ThreadHolds' /\ Disarmed' /\ Phase'
    BY <1>1, <1>3, <1>7, <2>1, <2>2 DEF ThreadHolds, Disarmed, Phase, ThreadFires, Finished
  <2> QED  BY <1>5, <2>3, <2>4, <2>5 DEF TimerSafe
<1> QED  BY <1>6, <1>7

(* The guest's thread sets the timer or frees it, with both locks.         *)
LEMMA CallerStep == ASSUME TimerInv, Caller PROVE Kept'
<1> USE TimerAssumption DEF TimerInv, TimerType, TimerRec, ThreadRec, CallRec, NapRec,
        Kept, TimerSafe, Attended, Punctual, SleepHonest, ThreadHolds, Disarmed, Phase, NapSound, NextDue
<1>1. CASE TimerSet
  <2>1. Attended'     BY <1>1 DEF TimerSet, Armed, Kicked, NoCall
  <2>2. Punctual'     BY <1>1 DEF TimerSet, Armed
  <2>3. SleepHonest'  BY <1>1 DEF TimerSet
  <2>4. ThreadHolds' /\ Disarmed' /\ NapSound'
    BY <1>1 DEF TimerSet, Armed, Kicked, NoCall
  <2>5. Phase'        BY <1>1 DEF TimerSet, Armed
  <2> QED  BY <2>1, <2>2, <2>3, <2>4, <2>5
<1>2. CASE TimerFree
  <2>1. Attended'     BY <1>2 DEF TimerFree, Freed, Kicked
  <2>2. Punctual'     BY <1>2 DEF TimerFree, Freed
  <2>3. SleepHonest'  BY <1>2 DEF TimerFree
  <2>4. ThreadHolds' /\ Disarmed' /\ NapSound'
    BY <1>2 DEF TimerFree, Freed, Kicked
  <2>5. Phase'        BY <1>2 DEF TimerFree, Freed
  <2> QED  BY <2>1, <2>2, <2>3, <2>4, <2>5
<1> QED  BY <1>1, <1>2 DEF Caller

(* The guest's thread begins to set or to free it.                         *)
LEMMA BeginStep == ASSUME TimerInv, Settings \/ Closings PROVE Kept'
<1> USE TimerAssumption
<1>1. CASE Settings
  <2>1. PICK value \in Int, every \in Nat : SetTime(value, every)
    BY <1>1, Asked DEF TimerInv
  <2> QED
    BY <2>1 DEF SetTime, TimerInv, TimerType, TimerRec, ThreadRec, CallRec, NapRec,
        Kept, TimerSafe, Attended, Punctual, SleepHonest, ThreadHolds, Disarmed, Phase, NapSound, NextDue
<1>2. CASE Closings
  <2>1. PICK held \in {"free", "call"} : Close(held)
    BY <1>2 DEF Closings, TimerfdClose, SysTimerDelete, ExitTgroup
  <2> QED
    BY <2>1 DEF Close, TimerInv, TimerType, TimerRec, ThreadRec, CallRec, NapRec,
        Kept, TimerSafe, Attended, Punctual, SleepHonest, ThreadHolds, Disarmed, Phase, NapSound, NextDue
<1> QED  BY <1>1, <1>2

(* A reader of a timerfd, a call that sleeps, and the clock.               *)
LEMMA OtherStep ==
  ASSUME TimerInv, TimerfdRead \/ TargetExits \/ Nap \/ Sleeper \/ NapSignal \/ Tick PROVE Kept'
<1> USE TimerAssumption DEF TimerInv, TimerType, TimerRec, ThreadRec, CallRec, NapRec,
        Kept, TimerSafe, Attended, Punctual, SleepHonest, ThreadHolds, Disarmed, Phase, NapSound, NextDue
<1>1. CASE TimerfdRead  BY <1>1 DEF TimerfdRead
<1>2. CASE TargetExits  BY <1>2 DEF TargetExits
<1>3. CASE Nap
  <2>1. PICK deadline \in Int :
          /\ deadline <= MaxNow
          /\ nap' = [nap EXCEPT !.at = "checking", !.err = "ok", !.deadline = deadline]
    BY <1>3, NapDeadline
  <2> QED  BY <1>3, <2>1 DEF Nap
<1>4. CASE NapChecks
  <2>1. SleepHonest' /\ NapSound'
    BY <1>4 DEF NapChecks
  <2>2. Attended' /\ Punctual' /\ ThreadHolds' /\ Disarmed' /\ Phase'
    BY <1>4 DEF NapChecks
  <2> QED  BY <2>1, <2>2
<1>5. CASE NapWakes     BY <1>5 DEF NapWakes
<1>6. CASE NapSignal    BY <1>6 DEF NapSignal
<1>7. CASE Tick         BY <1>7 DEF Tick
<1> QED  BY <1>1, <1>2, <1>3, <1>4, <1>5, <1>6, <1>7 DEF Sleeper

(* The invariant is inductive.                                             *)
LEMMA TimerNextInv == TimerInv /\ [TimerNext]_timerVars => TimerInv'
<1> SUFFICES ASSUME TimerInv, [TimerNext]_timerVars PROVE TimerInv'
  OBVIOUS
<1>1. CASE UNCHANGED timerVars
  BY <1>1 DEF timerVars, TimerInv, TimerType, TimerRec, ThreadRec, CallRec, NapRec,
        Kept, TimerSafe, Attended, Punctual, SleepHonest, ThreadHolds, Disarmed, Phase, NapSound, NextDue
<1>2. CASE TimerNext
  <2>1. TimerType'
    BY <1>2, ThreadTypes, CallTypes, OtherTypes DEF TimerNext, TimerInv
  <2>2. Kept'
    BY <1>2, ThreadStep, FireStep, CallerStep, BeginStep, OtherStep DEF TimerNext, Thread
  <2> QED  BY <2>1, <2>2 DEF TimerInv
<1> QED  BY <1>1, <1>2

(* Whatever is asked for and whenever: armed timers are attended, none     *)
(* fires early or out of phase, and what sleeps is told the truth.         *)
THEOREM TimersSafe == TimerSpec => []TimerSafe
<1>1. TimerInv => TimerSafe
  BY DEF TimerInv, Kept
<1> QED  BY <1>1, TimerInitInv, TimerNextInv, PTL DEF TimerSpec

---------------------------------------------------------------------------
(***************************************************************************)
(* How a task blocks, waits for and handles signals, for any signals,      *)
(* masks and handlers and any depth of handlers: no signal is lost or      *)
(* doubled, no mask is forgotten, and what ended a wait is received.       *)
(***************************************************************************)

(* A set of numbers that is not empty has a least one.                     *)
LEMMA Least ==
  ASSUME NEW T, T \subseteq Nat, T # {}
  PROVE  \E i \in T : \A j \in T : i <= j
<1>1. PICK i \in T : \A j \in T : ~ (<<j, i>> \in OpToRel(<, Nat))
  BY NatLessThanWellFounded, WFMin
<1>2. \A j \in T : ~ (j < i)
  BY <1>1 DEF OpToRel
<1> QED  BY <1>2

(* RemoveAt takes one entry out.                                           *)
LEMMA RemoveAtProperties ==
  ASSUME NEW S, NEW s \in Seq(S), NEW i \in 1..Len(s)
  PROVE  /\ RemoveAt(s, i) \in Seq(S) /\ Len(RemoveAt(s, i)) = Len(s) - 1
         /\ \A k \in 1..Len(s) - 1 : RemoveAt(s, i)[k] = IF k < i THEN s[k] ELSE s[k + 1]
<1> DEFINE a == SubSeq(s, 1, i - 1)  b == SubSeq(s, i + 1, Len(s))
<1>0. Len(s) \in Nat /\ i \in Nat /\ 1 <= i /\ i <= Len(s)
  OBVIOUS
<1>1. \A k \in 1..Len(s) : s[k] \in S
  BY ElementOfSeq
<1>2. /\ a \in Seq(S) /\ Len(a) = i - 1 /\ \A k \in 1..i - 1 : a[k] = s[k]
  <2>1. \A k \in 1..i - 1 : s[k] \in S
    BY <1>0, <1>1
  <2>2. /\ a \in Seq(S) /\ Len(a) = IF 1 <= i - 1 THEN i - 1 - 1 + 1 ELSE 0
        /\ \A k \in 1..i - 1 - 1 + 1 : a[k] = s[1 + k - 1]
    BY <1>0, <2>1, SubSeqProperties
  <2> HIDE DEF a
  <2> QED  BY <1>0, <2>2
<1>3. /\ b \in Seq(S) /\ Len(b) = Len(s) - i /\ \A k \in 1..Len(s) - i : b[k] = s[i + k]
  <2>1. \A k \in i + 1..Len(s) : s[k] \in S
    BY <1>0, <1>1
  <2>2. /\ b \in Seq(S) /\ Len(b) = IF i + 1 <= Len(s) THEN Len(s) - (i + 1) + 1 ELSE 0
        /\ \A k \in 1..Len(s) - (i + 1) + 1 : b[k] = s[i + 1 + k - 1]
    BY <1>0, <2>1, SubSeqProperties
  <2> HIDE DEF b
  <2> QED  BY <1>0, <2>2
<1>4. RemoveAt(s, i) = a \o b
  BY DEF RemoveAt
<1> HIDE DEF a, b
<1>5. /\ a \o b \in Seq(S) /\ Len(a \o b) = Len(a) + Len(b)
      /\ \A k \in 1..Len(a) + Len(b) : (a \o b)[k] = IF k <= Len(a) THEN a[k] ELSE b[k - Len(a)]
  BY <1>2, <1>3, ConcatProperties
<1>6. ASSUME NEW k \in 1..Len(s) - 1
      PROVE  (a \o b)[k] = IF k < i THEN s[k] ELSE s[k + 1]
  <2>1. CASE k < i
    BY <1>0, <1>2, <1>3, <1>5, <2>1
  <2>2. CASE ~(k < i)
    <3>1. (a \o b)[k] = b[k - (i - 1)]
      BY <1>0, <1>2, <1>3, <1>5, <2>2
    <3>2. b[k - (i - 1)] = s[i + (k - (i - 1))]
      BY <1>0, <1>3, <2>2
    <3>3. i + (k - (i - 1)) = k + 1
      BY <1>0
    <3> QED  BY <2>2, <3>1, <3>2, <3>3
  <2> QED  BY <2>1, <2>2
<1> QED  BY <1>0, <1>2, <1>3, <1>4, <1>5, <1>6

(* Of entries that differ, it takes out one element.                       *)
LEMMA Removal ==
  ASSUME NEW S, NEW s \in Seq(S), NEW i \in 1..Len(s),
         \A j, k \in DOMAIN s : s[j] = s[k] => j = k
  PROVE  /\ ToSet(RemoveAt(s, i)) = ToSet(s) \ {s[i]}
         /\ \A j, k \in DOMAIN RemoveAt(s, i) : RemoveAt(s, i)[j] = RemoveAt(s, i)[k] => j = k
<1> DEFINE r == RemoveAt(s, i)  n == Len(s)
<1>1. /\ DOMAIN s = 1..n /\ n \in Nat /\ i \in 1..n /\ DOMAIN r = 1..n - 1
      /\ \A k \in 1..n - 1 : r[k] = IF k < i THEN s[k] ELSE s[k + 1]
  BY RemoveAtProperties, LenProperties
<1> HIDE DEF r, n
<1>2. \A j, k \in 1..n : s[j] = s[k] => j = k
  BY <1>1
<1>3. \A j, k \in 1..n - 1 : r[j] = r[k] => j = k
  <2> SUFFICES ASSUME NEW j \in 1..n - 1, NEW k \in 1..n - 1, r[j] = r[k] PROVE j = k
    OBVIOUS
  <2>1. CASE j < i /\ k < i
    BY <1>1, <1>2, <2>1
  <2>2. CASE j < i /\ ~(k < i)
    <3>1. s[j] = s[k + 1] /\ j \in 1..n /\ k + 1 \in 1..n
      BY <1>1, <2>2
    <3> QED  BY <1>1, <1>2, <2>2, <3>1
  <2>3. CASE ~(j < i) /\ k < i
    <3>1. s[j + 1] = s[k] /\ k \in 1..n /\ j + 1 \in 1..n
      BY <1>1, <2>3
    <3> QED  BY <1>1, <1>2, <2>3, <3>1
  <2>4. CASE ~(j < i) /\ ~(k < i)
    <3>1. s[j + 1] = s[k + 1] /\ k + 1 \in 1..n /\ j + 1 \in 1..n
      BY <1>1, <2>4
    <3> QED  BY <1>1, <1>2, <3>1
  <2> QED  BY <2>1, <2>2, <2>3, <2>4
<1>4. ASSUME NEW k \in 1..n - 1 PROVE r[k] \in ToSet(s) /\ r[k] # s[i]
  <2>1. CASE k < i
    BY <1>1, <1>2, <2>1 DEF ToSet
  <2>2. CASE ~(k < i)
    <3>1. r[k] = s[k + 1] /\ k + 1 \in 1..n /\ k + 1 # i
      BY <1>1, <2>2
    <3> QED  BY <1>1, <1>2, <3>1 DEF ToSet
  <2> QED  BY <2>1, <2>2
<1>5. ASSUME NEW k \in 1..n, k # i PROVE s[k] \in ToSet(r)
  <2>1. CASE k < i
    <3>1. k \in 1..n - 1 /\ r[k] = s[k]
      BY <1>1, <2>1
    <3> QED  BY <1>1, <3>1 DEF ToSet
  <2>2. CASE ~(k < i)
    <3>1. k - 1 \in 1..n - 1 /\ r[k - 1] = s[(k - 1) + 1] /\ (k - 1) + 1 = k
      BY <1>1, <1>5, <2>2
    <3> QED  BY <1>1, <3>1 DEF ToSet
  <2> QED  BY <2>1, <2>2
<1>6. ToSet(r) = ToSet(s) \ {s[i]}
  BY <1>1, <1>4, <1>5 DEF ToSet
<1> QED  BY <1>1, <1>3, <1>6 DEF r

---------------------------------------------------------------------------
(* No handler is installed with SIGKILL in its mask: the code would block  *)
(* it while the handler runs (do_sigaction takes sa_mask as it is).        *)
MasksWithoutKill == \A act \in Handlers : act.mask \cap Unblockable = {}

Guest == Sigs \ Unblockable
FrameRec == [sig : Sigs, mask : SUBSET Sigs]

(* Entries of the queue, and the bits.                                     *)
QueueInv == queue \in Seq(Sigs) /\ PendingQueued

(* A frame holds the mask of the level below; the mask of this level is in *)
(* force, or saved while a call borrows it.                                *)
MasksInv ==
  /\ frames \in Seq(FrameRec) /\ wanted \in Seq(SUBSET Guest)
  /\ Len(wanted) = Len(frames) + 1
  /\ \A i \in 1..Len(frames) : frames[i].mask = wanted[i]
  /\ IF saved = {} THEN blocked = Last(wanted) ELSE saved = {Last(wanted)}

(* What ended a wait is not blocked until it has been received.            *)
DueInv ==
  /\ at = "kernel" => due \cap blocked = {}
  /\ at = "receive" => due \cap now = {}
  /\ at \notin {"kernel", "receive", "dead"} => due = {}

SignalsInv == MasksWithoutKill /\ SigTypeOK /\ QueueInv /\ MasksInv /\ DueInv

(* The invariant says what SignalsSafe says.                               *)
LEMMA InvSafe == SignalsInv => SignalsSafe
<1> SUFFICES ASSUME SignalsInv PROVE SignalsSafe
  OBVIOUS
<1> USE DEF SignalsInv
<1>1. MaskKept
  BY DEF MaskKept, MasksInv, SigTypeOK, InPoll
<1>2. SuspendDelivers
  BY DEF SuspendDelivers, DueInv, Receivable, Queued, ToSet
<1> QED  BY <1>1, <1>2 DEF SignalsSafe, QueueInv

(* At first nothing is queued, blocked or handled.                         *)
LEMMA InitInv == MasksWithoutKill /\ SigInit => SignalsInv
<1> SUFFICES ASSUME MasksWithoutKill, SigInit PROVE SignalsInv
  OBVIOUS
<1> USE SignalsAssumption DEF SigInit
<1>1. /\ queue = <<>> /\ frames = <<>> /\ wanted = <<{}>> /\ Len(queue) = 0 /\ Len(frames) = 0
      /\ Len(wanted) = 1 /\ wanted[1] = {} /\ Last(wanted) = {}
  BY DEF Last
<1>2. SigTypeOK
  BY <1>1 DEF SigTypeOK
<1>3. QueueInv
  BY <1>1 DEF QueueInv, PendingQueued, Queued, ToSet
<1>4. MasksInv
  <2>1. frames \in Seq(FrameRec) /\ wanted \in Seq(SUBSET Guest)
    BY <1>1
  <2> QED  BY <1>1, <2>1 DEF MasksInv
<1> QED  BY <1>2, <1>3, <1>4 DEF SignalsInv, DueInv

---------------------------------------------------------------------------
(* A signal that is not pending is queued: one entry more, and its bit.    *)
LEMMA Enqueue ==
  ASSUME QueueInv, NEW s \in Sigs, ~AlreadyPending(s),
         sigPending' = sigPending \cup {s}, queue' = Append(queue, s), taken' = taken
  PROVE  QueueInv' /\ Len(queue') = Len(queue) + 1
<1>1. /\ queue' \in Seq(Sigs) /\ Len(queue') = Len(queue) + 1 /\ Len(queue) \in Nat
      /\ DOMAIN queue = 1..Len(queue) /\ DOMAIN queue' = 1..Len(queue) + 1
      /\ \A i \in 1..Len(queue) : queue'[i] = queue[i]
      /\ queue'[Len(queue) + 1] = s
  BY AppendProperties, LenProperties DEF QueueInv
<1>2. \A i \in 1..Len(queue) : queue[i] \in sigPending /\ queue[i] # s
  BY <1>1 DEF QueueInv, PendingQueued, Queued, ToSet, AlreadyPending
<1>3. \A i \in DOMAIN queue' : i \in 1..Len(queue) \/ i = Len(queue) + 1
  BY <1>1
<1>4. \A i, j \in DOMAIN queue' : queue'[i] = queue'[j] => i = j
  BY <1>1, <1>2, <1>3 DEF QueueInv, PendingQueued
<1>5. Queued' = Queued \cup {s}
  BY <1>1, <1>3 DEF Queued, ToSet
<1> QED  BY <1>1, <1>4, <1>5 DEF QueueInv, PendingQueued

(* Steps that leave a part of the state alone leave its invariant alone.   *)
LEMMA Untouched ==
  /\ QueueInv /\ UNCHANGED <<queue, sigPending, taken>> => QueueInv'
  /\ MasksInv /\ UNCHANGED <<frames, wanted, saved, blocked>> => MasksInv'
<1>1. QueueInv /\ UNCHANGED <<queue, sigPending, taken>> => QueueInv'
  BY DEF QueueInv, PendingQueued, Queued
<1>2. MasksInv /\ UNCHANGED <<frames, wanted, saved, blocked>> => MasksInv'
  BY DEF MasksInv
<1> QED  BY <1>1, <1>2

(* The lengths that the types bound are numbers.                           *)
LEMMA Lengths == SignalsInv => Len(queue) \in Nat /\ Len(frames) \in Nat /\ MaxFrames \in Nat
BY LenProperties, SignalsAssumption DEF SignalsInv, QueueInv, MasksInv

(* send_signal and deliver_signal queue a signal.                          *)
LEMMA SendKeeps ==
  ASSUME SignalsInv, NEW s \in Sigs, Send(s) \/ Fault(s)
  PROVE  SignalsInv'
<1> USE DEF SignalsInv
<1>1. /\ ~AlreadyPending(s) /\ sigPending' = sigPending \cup {s} /\ queue' = Append(queue, s)
      /\ UNCHANGED <<action, blocked, waiting, saved, now, frames, wanted, taken, due>>
      /\ Len(queue) + Len(frames) < MaxFrames
      /\ \/ at' = at /\ at \notin {"receive", "dead"}
         \/ at = "user" /\ at' = "kernel"
         \/ at = "asleep" /\ at' = "woken"
  BY DEF Send, Fault, Call
<1>2. QueueInv' /\ Len(queue') = Len(queue) + 1
  BY <1>1, Enqueue
<1>3. SigTypeOK'
  BY <1>1, <1>2, Lengths DEF SigTypeOK, InPoll
<1>4. MasksInv'
  BY <1>1, Untouched
<1>5. DueInv'
  BY <1>1 DEF DueInv
<1> QED  BY <1>2, <1>3, <1>4, <1>5 DEF MasksWithoutKill

(* sigaction and execve change what the signals do.                        *)
LEMMA SigactionKeeps ==
  ASSUME SignalsInv, NEW s \in Sigs, NEW act \in Handlers \cup {Dfl, Ign}, Sigaction(s, act)
  PROVE  SignalsInv'
<1> USE DEF SignalsInv
<1>1. /\ at = "user" /\ at' = "kernel" /\ action' = [action EXCEPT ![s] = act]
      /\ UNCHANGED <<sigPending, queue, blocked, waiting, saved, now, frames, wanted, taken, due>>
  BY DEF Sigaction, Call
<1>2. action' \in [Sigs -> Handlers \cup {Dfl, Ign}]
  BY <1>1 DEF SigTypeOK
<1>3. SigTypeOK'
  BY <1>1, <1>2 DEF SigTypeOK
<1>4. QueueInv' /\ MasksInv'
  BY <1>1, Untouched
<1>5. DueInv'
  BY <1>1 DEF DueInv
<1> QED  BY <1>3, <1>4, <1>5 DEF MasksWithoutKill

(* A mask without SIGKILL, as sigmask_set makes it.                        *)
LEMMA SettableMask == \A mask \in SUBSET Sigs : Settable(mask) \in SUBSET Guest
BY DEF Settable, Guest

(* sigprocmask sets the mask of this level.                                *)
LEMMA SigprocmaskKeeps ==
  ASSUME SignalsInv, NEW mask \in Masks, Sigprocmask(mask)
  PROVE  SignalsInv'
<1> USE DEF SignalsInv
<1> DEFINE m == Settable(mask)
<1>1. /\ at = "user" /\ at' = "kernel" /\ blocked' = m
      /\ wanted' = [wanted EXCEPT ![Len(wanted)] = m]
      /\ UNCHANGED <<action, sigPending, queue, waiting, saved, now, frames, taken, due>>
  BY DEF Sigprocmask, Call, Settable
<1>2. m \in SUBSET Guest /\ m \subseteq Sigs
  BY SettableMask, SignalsAssumption DEF Guest
<1> HIDE DEF m
<1>3. /\ Len(wanted) \in 1..Len(wanted) /\ Len(wanted) = Len(frames) + 1 /\ Len(frames) \in Nat
      /\ wanted \in Seq(SUBSET Guest)
  BY Lengths DEF MasksInv
<1>4. /\ wanted' \in Seq(SUBSET Guest) /\ Len(wanted') = Len(wanted)
      /\ \A j \in 1..Len(wanted) : wanted'[j] = IF j = Len(wanted) THEN m ELSE wanted[j]
  BY <1>1, <1>2, <1>3, ExceptSeq
<1>5. SigTypeOK'
  BY <1>1, <1>2, <1>4 DEF SigTypeOK
<1>6. QueueInv'
  BY <1>1, Untouched
<1>7. MasksInv'
  <2>1. saved' = {}
    BY <1>1 DEF SigTypeOK, InPoll
  <2>2. Last(wanted') = m
    BY <1>3, <1>4 DEF Last
  <2>3. \A i \in 1..Len(frames) : frames[i].mask = wanted'[i]
    BY <1>3, <1>4 DEF MasksInv
  <2> QED  BY <1>1, <1>3, <1>4, <2>1, <2>2, <2>3 DEF MasksInv
<1>8. DueInv'
  BY <1>1 DEF DueInv
<1> QED  BY <1>5, <1>6, <1>7, <1>8 DEF MasksWithoutKill

(* sigmask_set_temp saves the mask of this level and borrows another.      *)
LEMMA SleepKeeps ==
  ASSUME SignalsInv, NEW mask \in Masks, NEW call \in {"suspend", "poll"},
         SleepWithMask(mask, call)
  PROVE  SignalsInv'
<1> USE DEF SignalsInv
<1>1. /\ at = "user" /\ at' = call /\ blocked' = Settable(mask) /\ saved' = {blocked}
      /\ UNCHANGED <<action, sigPending, queue, waiting, now, frames, wanted, taken, due>>
  BY DEF SleepWithMask
<1>2. blocked' \subseteq Sigs
  BY <1>1, SettableMask, SignalsAssumption DEF Guest
<1>3. SigTypeOK'
  BY <1>1, <1>2 DEF SigTypeOK, InPoll
<1>4. QueueInv'
  BY <1>1, Untouched
<1>5. MasksInv'
  <2>1. saved = {}
    BY <1>1 DEF SigTypeOK, InPoll
  <2> QED  BY <1>1, <2>1 DEF MasksInv
<1>6. DueInv'
  BY <1>1 DEF DueInv
<1> QED  BY <1>3, <1>4, <1>5, <1>6 DEF MasksWithoutKill

(* pause, sigtimedwait, its timeout, the other calls and the turns of      *)
(* poll_wait leave the queue and the masks alone.                          *)
LEMMA CallKeeps ==
  ASSUME SignalsInv,
         \/ \E call \in {"pause", "poll"} : Pause(call)
         \/ Interrupt \/ SigtimedwaitTimesOut
         \/ \E set \in WaitSets : Sigtimedwait(set)
  PROVE  SignalsInv'
<1> USE DEF SignalsInv
<1>1. /\ at \in {"user", "timedwait"} /\ at' \in {"kernel", "pause", "poll", "timedwait"}
      /\ (waiting' \in WaitSets /\ at' = "timedwait") \/ waiting' = {}
      /\ UNCHANGED <<action, sigPending, queue, blocked, saved, now, frames, wanted, taken, due>>
      /\ saved # {} => at' = "kernel"
  BY DEF Pause, Interrupt, SigtimedwaitTimesOut, Sigtimedwait, Call, SigTypeOK, InPoll
<1>2. SigTypeOK'
  BY <1>1, SignalsAssumption DEF SigTypeOK, InPoll
<1>3. QueueInv' /\ MasksInv'
  BY <1>1, Untouched
<1>4. DueInv'
  BY <1>1 DEF DueInv
<1> QED  BY <1>2, <1>3, <1>4 DEF MasksWithoutKill

LEMMA PollKeeps ==
  ASSUME SignalsInv, PollTested \/ PollSleeps \/ PollAgain
  PROVE  SignalsInv'
<1> USE DEF SignalsInv
<1>1. /\ at \in InPoll /\ at' \in InPoll
      /\ UNCHANGED <<action, sigPending, queue, blocked, waiting, saved, now, frames, wanted,
                     taken, due>>
  BY DEF PollTested, PollSleeps, PollAgain, OtherThanAt, InPoll
<1>2. SigTypeOK'
  BY <1>1 DEF SigTypeOK, InPoll
<1>3. QueueInv' /\ MasksInv'
  BY <1>1, Untouched
<1>4. DueInv'
  BY <1>1 DEF DueInv, InPoll
<1> QED  BY <1>2, <1>3, <1>4 DEF MasksWithoutKill

(* A wait ends, with what is due.                                          *)
LEMMA WakesKeeps ==
  ASSUME SignalsInv, Wakes \/ PollReady
  PROVE  SignalsInv'
<1> USE DEF SignalsInv
<1>1. /\ at \in {"suspend", "pause"} \cup InPoll /\ at' = "kernel" /\ due' = Queued \ blocked
      /\ UNCHANGED <<action, sigPending, queue, blocked, waiting, saved, now, frames, wanted, taken>>
  BY DEF Wakes, PollReady, WaitEnds, InPoll
<1>2. Queued \subseteq Sigs
  BY DEF QueueInv, PendingQueued, SigTypeOK
<1>3. SigTypeOK'
  BY <1>1, <1>2 DEF SigTypeOK, InPoll
<1>4. QueueInv' /\ MasksInv'
  BY <1>1, Untouched
<1>5. DueInv'
  BY <1>1 DEF DueInv
<1> QED  BY <1>2, <1>3, <1>4, <1>5 DEF MasksWithoutKill

(* Taking an entry off the queue: with its bit it is received, without it  *)
(* sigtimedwait took it.                                                   *)
LEMMA Dequeue ==
  ASSUME QueueInv, NEW i \in DOMAIN queue, queue' = RemoveAt(queue, i),
         \/ sigPending' = sigPending /\ taken' = taken \cup {queue[i]}
         \/ sigPending' = sigPending \ {queue[i]} /\ taken' = taken \ {queue[i]}
  PROVE  QueueInv' /\ Len(queue') = Len(queue) - 1 /\ queue[i] \in Sigs
<1>1. queue \in Seq(Sigs) /\ i \in 1..Len(queue) /\ queue[i] \in Sigs
  BY LenProperties DEF QueueInv
<1>2. queue' \in Seq(Sigs) /\ Len(queue') = Len(queue) - 1
  BY <1>1, RemoveAtProperties
<1>3. /\ Queued' = Queued \ {queue[i]}
      /\ \A j, k \in DOMAIN queue' : queue'[j] = queue'[k] => j = k
  BY <1>1, Removal DEF QueueInv, PendingQueued, Queued
<1>4. queue[i] \in Queued
  BY DEF Queued, ToSet
<1> QED  BY <1>1, <1>2, <1>3, <1>4 DEF QueueInv, PendingQueued

(* The first of some entries of the queue is one of them.                  *)
LEMMA FirstOf ==
  ASSUME QueueInv, NEW T, T \subseteq DOMAIN queue, T # {}
  PROVE  (CHOOSE i \in T : \A j \in T : i <= j) \in T
<1>1. T \subseteq Nat
  BY LenProperties DEF QueueInv
<1>2. \E i \in T : \A j \in T : i <= j
  BY <1>1, Least
<1> QED  BY <1>2

(* sigtimedwait returns with a signal of its set, or without one.          *)
LEMMA TimedwaitKeeps ==
  ASSUME SignalsInv, SigtimedwaitReturns
  PROVE  SignalsInv'
<1> USE DEF SignalsInv
<1> DEFINE found == {i \in DOMAIN queue : queue[i] \in waiting}
           first == CHOOSE i \in found : \A j \in found : i <= j
<1>1. /\ at = "timedwait" /\ at' = "kernel" /\ waiting' = {}
      /\ IF found = {} THEN UNCHANGED <<queue, taken>>
         ELSE queue' = RemoveAt(queue, first) /\ taken' = taken \cup {queue[first]}
      /\ UNCHANGED <<action, sigPending, blocked, saved, now, frames, wanted, due>>
  BY DEF SigtimedwaitReturns
<1>2. /\ QueueInv' /\ taken' \subseteq Sigs
      /\ Len(queue') = Len(queue) \/ Len(queue') = Len(queue) - 1
  <2>1. CASE found = {}
    BY <1>1, <2>1, Untouched DEF SigTypeOK
  <2>2. CASE found # {}
    <3>1. first \in found /\ first \in DOMAIN queue
      BY <2>2, FirstOf
    <3> HIDE DEF first
    <3>2. /\ queue' = RemoveAt(queue, first) /\ taken' = taken \cup {queue[first]}
          /\ sigPending' = sigPending
      BY <1>1, <2>2
    <3>3. QueueInv' /\ Len(queue') = Len(queue) - 1 /\ queue[first] \in Sigs
      BY <3>1, <3>2, Dequeue
    <3> QED  BY <3>2, <3>3 DEF SigTypeOK
  <2> QED  BY <2>1, <2>2
<1> HIDE DEF first, found
<1>3. SigTypeOK'
  BY <1>1, <1>2, Lengths DEF SigTypeOK
<1>4. MasksInv'
  BY <1>1, Untouched
<1>5. DueInv'
  BY <1>1 DEF DueInv
<1> QED  BY <1>2, <1>3, <1>4, <1>5 DEF MasksWithoutKill

(* A sequence without its last element.                                    *)
LEMMA FrontProperties ==
  ASSUME NEW S, NEW s \in Seq(S), s # <<>>
  PROVE  /\ Front(s) \in Seq(S) /\ Len(Front(s)) = Len(s) - 1 /\ Len(s) \in Nat /\ Len(s) > 0
         /\ \A i \in 1..Len(s) - 1 : Front(s)[i] = s[i]
<1>1. Len(s) \in Nat /\ Len(s) > 0
  BY EmptySeq, LenProperties
<1>2. \A i \in 1..Len(s) - 1 : s[i] \in S
  BY <1>1, ElementOfSeq
<1> DEFINE n == Len(s) - 1  f == SubSeq(s, 1, n)
<1>3. /\ f \in Seq(S) /\ Len(f) = IF 1 <= n THEN n - 1 + 1 ELSE 0
      /\ \A i \in 1..n - 1 + 1 : f[i] = s[1 + i - 1]
  BY <1>1, <1>2, SubSeqProperties
<1>4. Front(s) = f /\ n \in Nat
  BY <1>1 DEF Front
<1> HIDE DEF f, n
<1>5. f \in Seq(S) /\ Len(f) = n /\ \A i \in 1..n : f[i] = s[i]
  BY <1>3, <1>4
<1> QED  BY <1>1, <1>4, <1>5 DEF n

(* sigreturn goes back to the level below, with the mask of its frame.     *)
LEMMA SigreturnKeeps ==
  ASSUME SignalsInv, Sigreturn
  PROVE  SignalsInv'
<1> USE DEF SignalsInv
<1>1. /\ at = "user" /\ at' = "kernel" /\ frames # <<>>
      /\ blocked' = Settable(Last(frames).mask)
      /\ frames' = Front(frames) /\ wanted' = Front(wanted)
      /\ UNCHANGED <<action, sigPending, queue, waiting, saved, now, taken, due>>
  BY DEF Sigreturn, Call, Restored
<1>2. /\ frames' \in Seq(FrameRec) /\ Len(frames') = Len(frames) - 1 /\ Len(frames) \in Nat
      /\ Len(frames) > 0 /\ \A i \in 1..Len(frames) - 1 : frames'[i] = frames[i]
  BY <1>1, FrontProperties DEF MasksInv
<1>3. /\ wanted' \in Seq(SUBSET Guest) /\ Len(wanted') = Len(wanted) - 1
      /\ Len(wanted) = Len(frames) + 1
      /\ \A i \in 1..Len(wanted) - 1 : wanted'[i] = wanted[i]
  <2>1. wanted # <<>>
    BY <1>2, EmptySeq DEF MasksInv
  <2> QED  BY <1>1, <2>1, FrontProperties DEF MasksInv
<1>4. Last(wanted') = wanted[Len(frames)] /\ Last(frames).mask = wanted[Len(frames)]
  BY <1>2, <1>3 DEF MasksInv, Last
<1>5. wanted[Len(frames)] \in SUBSET Guest
  BY <1>2, <1>3, ElementOfSeq DEF MasksInv
<1>6. blocked' = Last(wanted')
  BY <1>1, <1>4, <1>5 DEF Settable, Guest
<1>7. SigTypeOK'
  <2>1. blocked' \subseteq Sigs
    BY <1>4, <1>5, <1>6 DEF Guest
  <2>2. Len(queue') + Len(frames') <= MaxFrames /\ Len(wanted') = Len(frames') + 1
    BY <1>1, <1>2, <1>3, Lengths DEF SigTypeOK
  <2> QED  BY <1>1, <2>1, <2>2 DEF SigTypeOK
<1>8. QueueInv'
  BY <1>1, Untouched
<1>9. MasksInv'
  <2>1. saved' = {}
    BY <1>1 DEF SigTypeOK, InPoll
  <2>2. ASSUME NEW i \in 1..Len(frames') PROVE frames'[i].mask = wanted'[i]
    <3>1. frames'[i] = frames[i] /\ wanted'[i] = wanted[i] /\ i \in 1..Len(frames)
      BY <1>2, <1>3
    <3> QED  BY <3>1 DEF MasksInv
  <2>3. Len(wanted') = Len(frames') + 1
    BY <1>2, <1>3
  <2> QED  BY <1>2, <1>3, <1>6, <2>1, <2>2, <2>3 DEF MasksInv
<1>10. DueInv'
  BY <1>1 DEF DueInv
<1> QED  BY <1>7, <1>8, <1>9, <1>10 DEF MasksWithoutKill

(* execve forgets the frames and keeps the mask.                           *)
LEMMA ExecKeeps ==
  ASSUME SignalsInv, Exec
  PROVE  SignalsInv'
<1> USE DEF SignalsInv
<1>1. /\ at = "user" /\ at' = "kernel" /\ frames' = <<>> /\ wanted' = <<Last(wanted)>>
      /\ action' = [s \in Sigs |-> IF action[s] = Ign THEN Ign ELSE Dfl]
      /\ UNCHANGED <<sigPending, queue, blocked, waiting, saved, now, taken, due>>
  BY DEF Exec, Call
<1>2. action' \in [Sigs -> Handlers \cup {Dfl, Ign}]
  BY <1>1
<1> DEFINE last == Last(wanted)
<1>3. last \in SUBSET Guest
  <2>1. Len(wanted) \in 1..Len(wanted) /\ wanted \in Seq(SUBSET Guest)
    BY Lengths DEF MasksInv
  <2> QED  BY <2>1, ElementOfSeq DEF Last
<1> HIDE DEF last
<1>4. /\ Len(frames') = 0 /\ Len(wanted') = 1 /\ wanted' \in Seq(SUBSET Guest)
      /\ frames' \in Seq(FrameRec) /\ Last(wanted') = last
  BY <1>1, <1>3 DEF last, Last
<1>5. SigTypeOK'
  BY <1>1, <1>2, <1>4, Lengths DEF SigTypeOK
<1>6. QueueInv'
  BY <1>1, Untouched
<1>7. MasksInv'
  BY <1>1, <1>4 DEF MasksInv, last
<1>8. DueInv'
  BY <1>1 DEF DueInv
<1> QED  BY <1>5, <1>6, <1>7, <1>8 DEF MasksWithoutKill

---------------------------------------------------------------------------
(* receive_signals first takes the saved mask back.                        *)
LEMMA StartsKeeps ==
  ASSUME SignalsInv, ReceiveStarts
  PROVE  SignalsInv'
<1> USE DEF SignalsInv
<1>1. /\ at = "kernel" /\ at' = "receive" /\ now' = BlockedNow /\ saved' = {}
      /\ blocked' = BackToSaved
      /\ UNCHANGED <<action, sigPending, queue, waiting, frames, wanted, taken, due>>
  BY DEF ReceiveStarts, NoSaved
<1>2. now' \subseteq blocked
  BY <1>1 DEF BlockedNow
<1>3. blocked' = Last(wanted)
  <2>1. CASE saved = {}
    BY <1>1, <2>1 DEF BackToSaved, MasksInv
  <2>2. CASE saved # {}
    BY <1>1, <2>2 DEF BackToSaved, MasksInv
  <2> QED  BY <2>1, <2>2
<1>4. Last(wanted) \in SUBSET Guest
  <2>1. Len(wanted) \in 1..Len(wanted) /\ wanted \in Seq(SUBSET Guest)
    BY Lengths DEF MasksInv
  <2> QED  BY <2>1, ElementOfSeq DEF Last
<1>5. SigTypeOK'
  BY <1>1, <1>2, <1>3, <1>4 DEF SigTypeOK, Guest
<1>6. QueueInv'
  BY <1>1, Untouched
<1>7. MasksInv'
  BY <1>1, <1>3 DEF MasksInv
<1>8. DueInv'
  BY <1>1, <1>2 DEF DueInv
<1> QED  BY <1>5, <1>6, <1>7, <1>8 DEF MasksWithoutKill

(* A handler is entered: a frame with the mask so far, and a level more.   *)
LEMMA HandlerEntered ==
  ASSUME MasksInv, saved = {}, saved' = {}, NEW s \in Sigs, NEW added \in SUBSET Guest,
         blocked \subseteq Sigs,
         frames' = Append(frames, [sig |-> s, mask |-> blocked]),
         blocked' = blocked \cup added,
         wanted' = Append(wanted, Last(wanted) \cup added)
  PROVE  /\ MasksInv' /\ blocked' \subseteq Sigs
         /\ Len(frames') = Len(frames) + 1 /\ Len(wanted') = Len(frames') + 1
<1> DEFINE frame == [sig |-> s, mask |-> blocked]  top == Last(wanted) \cup added
<1>1. frame \in FrameRec /\ frame.mask = blocked
  BY DEF FrameRec
<1>2. Len(frames) \in Nat /\ Len(wanted) = Len(frames) + 1 /\ blocked = Last(wanted)
  BY LenProperties DEF MasksInv
<1>3. Last(wanted) \in SUBSET Guest /\ Last(wanted) = wanted[Len(frames) + 1]
  BY <1>2, ElementOfSeq DEF MasksInv, Last
<1>4. top \in SUBSET Guest /\ blocked' = top
  BY <1>2, <1>3
<1> HIDE DEF frame, top
<1>5. /\ frames' \in Seq(FrameRec) /\ Len(frames') = Len(frames) + 1
      /\ \A i \in 1..Len(frames) : frames'[i] = frames[i]
      /\ frames'[Len(frames) + 1] = frame
  BY <1>1, AppendProperties DEF MasksInv, frame
<1>6. /\ wanted' \in Seq(SUBSET Guest) /\ Len(wanted') = Len(wanted) + 1
      /\ \A i \in 1..Len(wanted) : wanted'[i] = wanted[i]
      /\ wanted'[Len(wanted) + 1] = top
  BY <1>4, AppendProperties DEF MasksInv, top
<1>7. ASSUME NEW i \in 1..Len(frames') PROVE frames'[i].mask = wanted'[i]
  <2>1. wanted'[i] = wanted[i]
    BY <1>2, <1>5, <1>6
  <2>2. CASE i \in 1..Len(frames)
    BY <1>5, <2>1, <2>2 DEF MasksInv
  <2>3. CASE i = Len(frames) + 1
    <3>1. frames'[i].mask = blocked
      BY <1>1, <1>5, <2>3
    <3> QED  BY <1>2, <1>3, <2>1, <2>3, <3>1
  <2> QED  BY <1>2, <1>5, <2>2, <2>3
<1>8. Last(wanted') = top
  BY <1>6 DEF Last
<1>9. Len(wanted') = Len(frames') + 1
  BY <1>2, <1>5, <1>6
<1>10. MasksInv'
  BY <1>4, <1>5, <1>6, <1>7, <1>8, <1>9 DEF MasksInv
<1> QED  BY <1>4, <1>5, <1>9, <1>10 DEF Guest

(* One turn of its loop: the signal leaves the queue, and its handler, if  *)
(* it has one, is entered.                                                 *)
LEMMA ReceiveKeeps ==
  ASSUME SignalsInv, ReceiveOne
  PROVE  SignalsInv'
<1> USE DEF SignalsInv
<1> DEFINE first == CHOOSE i \in Receivable : \A j \in Receivable : i <= j
           s == queue[first]
           act == action[s]
           added == act.mask \cup (IF act.nodefer THEN {} ELSE {s})
<1>1. /\ at = "receive" /\ Receivable # {} /\ at' \in {"dead", "receive"}
      /\ queue' = RemoveAt(queue, first)
      /\ sigPending' = sigPending \ {s} /\ taken' = taken \ {s}
      /\ IF Disposition(s) # "function"
           THEN UNCHANGED <<action, blocked, frames, wanted>>
           ELSE /\ frames' = Append(frames, [sig |-> s, mask |-> blocked])
                /\ blocked' = blocked \cup added
                /\ wanted' = Append(wanted, Last(wanted) \cup added)
                /\ action' = IF act.reset THEN [action EXCEPT ![s] = Dfl] ELSE action
      /\ UNCHANGED <<waiting, saved, now, due>>
  BY DEF ReceiveOne
<1>2. first \in DOMAIN queue
  BY <1>1, FirstOf DEF Receivable
<1> HIDE DEF first
<1>3. QueueInv' /\ Len(queue') = Len(queue) - 1 /\ s \in Sigs
  BY <1>1, <1>2, Dequeue
<1> HIDE DEF s, act, added
<1>4. saved = {} /\ saved' = {} /\ waiting' = {}
  BY <1>1 DEF SigTypeOK, InPoll
<1>5. /\ MasksInv' /\ action' \in [Sigs -> Handlers \cup {Dfl, Ign}] /\ blocked' \subseteq Sigs
      /\ Len(frames') = Len(frames) \/ Len(frames') = Len(frames) + 1
      /\ Len(wanted') = Len(frames') + 1
  <2>1. CASE Disposition(s) # "function"
    <3>1. UNCHANGED <<action, blocked, frames, wanted, saved>>
      BY <1>1, <2>1
    <3> QED  BY <3>1, Untouched DEF SigTypeOK
  <2>2. CASE Disposition(s) = "function"
    <3>1. /\ frames' = Append(frames, [sig |-> s, mask |-> blocked])
          /\ blocked' = blocked \cup added
          /\ wanted' = Append(wanted, Last(wanted) \cup added)
          /\ action' = IF act.reset THEN [action EXCEPT ![s] = Dfl] ELSE action
      BY <1>1, <2>2
    <3>2. s \in Guest
      BY <1>3, <2>2 DEF Disposition, Guest
    <3>3. act \in Handlers \cup {Dfl, Ign}
      BY <1>3 DEF act, SigTypeOK
    <3>4. act.mask \in SUBSET Guest
      <4>1. CASE act \in Handlers
        <5>1. act.mask \in SUBSET Sigs
          BY <4>1, SignalsAssumption
        <5> QED  BY <4>1, <5>1 DEF MasksWithoutKill, Guest
      <4>2. CASE act \in {Dfl, Ign}
        BY <4>2 DEF Dfl, Ign, Plain
      <4> QED  BY <3>3, <4>1, <4>2
    <3>5. added \in SUBSET Guest
      BY <3>2, <3>4 DEF added
    <3>6. /\ MasksInv' /\ blocked' \subseteq Sigs
          /\ Len(frames') = Len(frames) + 1 /\ Len(wanted') = Len(frames') + 1
      BY <1>3, <1>4, <3>1, <3>5, HandlerEntered DEF SigTypeOK
    <3>7. action' \in [Sigs -> Handlers \cup {Dfl, Ign}]
      BY <1>3, <3>1 DEF SigTypeOK
    <3> QED  BY <3>6, <3>7
  <2> QED  BY <2>1, <2>2
<1>6. SigTypeOK'
  <2>1. Len(queue') + Len(frames') <= MaxFrames
    BY <1>3, <1>5, Lengths DEF SigTypeOK
  <2> QED  BY <1>1, <1>4, <1>5, <2>1 DEF SigTypeOK
<1>7. DueInv'
  BY <1>1 DEF DueInv
<1> QED  BY <1>3, <1>5, <1>6, <1>7 DEF MasksWithoutKill

(* The loop ends when nothing is left that is not blocked.                 *)
LEMMA EndsKeeps ==
  ASSUME SignalsInv, ReceiveEnds
  PROVE  SignalsInv'
<1> USE DEF SignalsInv
<1>1. /\ at = "receive" /\ at' = "user" /\ now' = {} /\ due' = {}
      /\ UNCHANGED <<action, sigPending, queue, blocked, waiting, saved, frames, wanted, taken>>
  BY DEF ReceiveEnds
<1>2. SigTypeOK'
  BY <1>1 DEF SigTypeOK, InPoll
<1>3. QueueInv' /\ MasksInv'
  BY <1>1, Untouched
<1>4. DueInv'
  BY <1>1 DEF DueInv
<1> QED  BY <1>2, <1>3, <1>4 DEF MasksWithoutKill

(* Every step keeps the invariant.                                         *)
LEMMA NextInv == SignalsInv /\ [SigNext]_sigVars => SignalsInv'
<1> SUFFICES ASSUME SignalsInv, [SigNext]_sigVars PROVE SignalsInv'
  OBVIOUS
<1>1. ASSUME NEW s \in Sigs, Send(s) \/ Fault(s) PROVE SignalsInv'
  BY <1>1, SendKeeps
<1>2. ASSUME NEW s \in Sigs, NEW act \in Handlers \cup {Dfl, Ign}, Sigaction(s, act)
      PROVE  SignalsInv'
  BY <1>2, SigactionKeeps
<1>3. ASSUME NEW mask \in Masks, Sigprocmask(mask) PROVE SignalsInv'
  BY <1>3, SigprocmaskKeeps
<1>4. ASSUME NEW mask \in Masks, NEW call \in {"suspend", "poll"}, SleepWithMask(mask, call)
      PROVE  SignalsInv'
  BY <1>4, SleepKeeps
<1>5. CASE \/ \E call \in {"pause", "poll"} : Pause(call)
           \/ Interrupt \/ SigtimedwaitTimesOut
           \/ \E set \in WaitSets : Sigtimedwait(set)
  BY <1>5, CallKeeps
<1>6. CASE Wakes \/ PollReady
  BY <1>6, WakesKeeps
<1>12. CASE PollTested \/ PollSleeps \/ PollAgain
  BY <1>12, PollKeeps
<1>7. CASE SigtimedwaitReturns
  BY <1>7, TimedwaitKeeps
<1>8. CASE Sigreturn
  BY <1>8, SigreturnKeeps
<1>9. CASE Exec
  BY <1>9, ExecKeeps
<1>10. CASE Receive
  BY <1>10, StartsKeeps, ReceiveKeeps, EndsKeeps DEF Receive
<1>11. CASE UNCHANGED sigVars
  <2>1. QueueInv' /\ MasksInv'
    BY <1>11, Untouched DEF sigVars, SignalsInv
  <2>2. SigTypeOK' /\ DueInv'
    BY <1>11 DEF sigVars, SignalsInv, SigTypeOK, DueInv
  <2> QED  BY <2>1, <2>2 DEF SignalsInv, MasksWithoutKill
<1> QED
  BY <1>1, <1>2, <1>3, <1>4, <1>5, <1>6, <1>7, <1>8, <1>9, <1>10, <1>11, <1>12 DEF SigNext

(* For any signals, masks and handlers whose masks leave SIGKILL alone,    *)
(* and any number of signals queued and handlers entered: a signal is      *)
(* queued once and only while it is pending, whenever the guest runs its   *)
(* mask is the one it chose at that level of handlers, and receive_signals *)
(* does not end before it received what was pending, and not blocked, when *)
(* a sigsuspend, a pause or a poll ended.                                  *)
THEOREM SignalsAreSafe == MasksWithoutKill /\ SigSpec => []SignalsSafe
BY InitInv, NextInv, InvSafe, PTL DEF SigSpec
=============================================================================
