---------------------------- MODULE SleepProofs ----------------------------
(***************************************************************************)
(* How threads sleep and are woken.                                        *)
(*                                                                         *)
(* The handshake of WaitFor for any number of senders and both kinds of    *)
(* lock: the locks are held where the code holds them and no notification  *)
(* is lost; and when the task waits under its own sighand lock, no signal  *)
(* is lost either.                                                         *)
(*                                                                         *)
(* Futexes, for any finite set of threads, any keys and any bitsets: what  *)
(* refers to a futex is counted, sleepers can be found by wakes, no wake   *)
(* is missed, and waiters are served in the order they came.               *)
(***************************************************************************)
EXTENDS WaitFor, Futex, Induction, SequenceTheorems, FiniteSetTheorems, TLAPS

(* Under the sighand lock no signal can become pending between the check   *)
(* that found none and the sleep.                                          *)
NoneInTheWindow ==
  kind = "sighand" /\ pc \in {"checked", "published"} => ~pending

IInv ==
  /\ TypeOK
  /\ NoLostNotify
  /\ pc \in {"checked", "published"} => ~ready
  /\ NoneInTheWindow
  /\ SignalWakesWaiter

(* Everything starts idle.                                                 *)
LEMMA InitIInv == Init => IInv
BY SendersAreOthers, SomeLocks
DEF Init, IInv, TypeOK, LocksHeld, WaiterHolds, NoLostNotify,
    NoneInTheWindow, SignalWakesWaiter, Awakened, Nobody, Waiter

(* The waiting task's own steps.                                           *)
LEMMA WaiterStep == ASSUME IInv, WaiterNext PROVE IInv'
<1> USE SendersAreOthers, SomeLocks
    DEF IInv, TypeOK, LocksHeld, WaiterHolds, NoLostNotify, NoneInTheWindow,
        SignalWakesWaiter, Awakened, Nobody, Waiter, Goto,
        Unlock, SighandFree
<1>1. CASE EnterCall     BY <1>1 DEF EnterCall
<1>2. CASE ConditionMet  BY <1>2 DEF ConditionMet
<1>3. CASE FirstCheck    BY <1>3 DEF FirstCheck
<1>4. CASE Publish       BY <1>4 DEF Publish
<1>5. CASE Sleep         BY <1>5 DEF Sleep
<1>6. CASE Timeout       BY <1>6 DEF Timeout
<1>7. CASE SpuriousWakeup  BY <1>7 DEF SpuriousWakeup
<1>8. CASE Relock        BY <1>8 DEF Relock
<1>9. CASE Unpublish     BY <1>9 DEF Unpublish
<1>10. CASE SecondCheck  BY <1>10 DEF SecondCheck
<1>11. CASE TakeSignal   BY <1>11 DEF TakeSignal
<1> QED
  BY <1>1, <1>2, <1>3, <1>4, <1>5, <1>6, <1>7, <1>8, <1>9, <1>10, <1>11
  DEF WaiterNext

(* The task that makes the condition true.                                 *)
LEMMA ReadyStep == ASSUME IInv, MakeReady PROVE IInv'
BY SendersAreOthers, SomeLocks
DEF MakeReady, Notified, IInv, TypeOK, LocksHeld, WaiterHolds, NoLostNotify,
    NoneInTheWindow, SignalWakesWaiter, Awakened, Nobody, Waiter

(* A sender's steps.                                                       *)
LEMMA SenderStep ==
  ASSUME IInv, NEW s \in Senders, SenderNext(s) PROVE IInv'
<1> USE SendersAreOthers, SomeLocks, HoldersAreSenders
    DEF IInv, TypeOK, LocksHeld, WaiterHolds, NoLostNotify, NoneInTheWindow,
        SignalWakesWaiter, Awakened, Nobody, Waiter, Step,
        SighandFree
<1>1. CASE TakeWaitingLock(s)
  BY <1>1 DEF TakeWaitingLock
<1>2. CASE SetPending(s)
  BY <1>2 DEF SetPending
<1>3. CASE LockCond(s)
  BY <1>3 DEF LockCond
<1>4. CASE Retry(s)
  BY <1>4 DEF Retry
<1>5. CASE Look(s)
  BY <1>5 DEF Look, Notified
<1>6. CASE Return(s)
  BY <1>6 DEF Return
<1> QED
  BY <1>1, <1>2, <1>3, <1>4, <1>5, <1>6 DEF SenderNext

(* The invariant is inductive.                                             *)
LEMMA NextIInv == IInv /\ [Next]_vars => IInv'
<1> SUFFICES ASSUME IInv, [Next]_vars PROVE IInv'
  OBVIOUS
<1>1. CASE UNCHANGED vars
  BY <1>1
  DEF vars, IInv, TypeOK, LocksHeld, NoLostNotify, NoneInTheWindow,
      SignalWakesWaiter, Awakened
<1>2. CASE Next
  BY <1>2, WaiterStep, ReadyStep, SenderStep DEF Next
<1> QED  BY <1>1, <1>2

(* For any senders and either kind of lock: the types and the locking      *)
(* discipline hold, and no notification of the condition is lost.          *)
THEOREM NotifySafe == Spec => [](TypeOK /\ NoLostNotify)
<1>1. IInv => TypeOK /\ NoLostNotify
  BY DEF IInv
<1> QED  BY <1>1, InitIInv, NextIInv, PTL DEF Spec

(* A task that waits under its own sighand lock (sigsuspend, pause,        *)
(* sigtimedwait) never sleeps through a signal, whoever sends it.          *)
THEOREM SignalSafe == Spec => []SignalWakesWaiter
<1>1. IInv => SignalWakesWaiter
  BY DEF IInv
<1> QED  BY <1>1, InitIInv, NextIInv, PTL DEF Spec

-----------------------------------------------------------------------------
(* Queues are sequences.  What Without computes is shown by induction over *)
(* the length of the part it has looked at.                                *)

(* A function that defines the list without S up to its i-th element.      *)
Keeps(g, q, S, n) ==
  g = [i \in 0 .. n |->
         IF i = 0 THEN <<>>
         ELSE IF q[i] \in S THEN g[i - 1] ELSE Append(g[i - 1], q[i])]

(* The recursive function of Without exists.                               *)
LEMMA KeepsExists ==
  ASSUME NEW q, NEW S, NEW m \in Nat
  PROVE  \E g : Keeps(g, q, S, m)
<1> DEFINE I == {n \in Nat : \E g : Keeps(g, q, S, n)}
<1>1. 0 \in I
  <2>1. Keeps([i \in 0 .. 0 |-> <<>>], q, S, 0)
    BY DEF Keeps
  <2> QED BY <2>1
<1>2. ASSUME NEW n \in Nat, n \in I PROVE n + 1 \in I
  <2>1. PICK g : Keeps(g, q, S, n)
    BY <1>2
  <2> DEFINE h == [i \in 0 .. n + 1 |->
                     IF i <= n THEN g[i]
                     ELSE IF q[i] \in S THEN g[i - 1] ELSE Append(g[i - 1], q[i])]
  <2>2. Keeps(h, q, S, n + 1)
    <3>1. \A i \in 0 .. n : g[i] = IF i = 0 THEN <<>>
              ELSE IF q[i] \in S THEN g[i - 1] ELSE Append(g[i - 1], q[i])
      BY <2>1 DEF Keeps
    <3>2. ASSUME NEW i \in 0 .. n + 1
          PROVE  h[i] = IF i = 0 THEN <<>>
              ELSE IF q[i] \in S THEN h[i - 1] ELSE Append(h[i - 1], q[i])
      BY <3>1
    <3> HIDE DEF h
    <3>3. h = [i \in 0 .. n + 1 |-> h[i]]
      BY DEF h
    <3> QED BY <3>2, <3>3 DEF Keeps
  <2> QED BY <2>2
<1>3. \A n \in Nat : n \in I
  <2> HIDE DEF I
  <2> QED BY <1>1, <1>2, SetInduction
<1> QED BY <1>3

(* Without(q, S) is the last value of that function.                       *)
LEMMA WithoutIsKept ==
  ASSUME NEW A, NEW q \in Seq(A), NEW S
  PROVE  \E g : Keeps(g, q, S, Len(q)) /\ Without(q, S) = g[Len(q)]
<1> DEFINE g == CHOOSE f : Keeps(f, q, S, Len(q))
<1>1. Keeps(g, q, S, Len(q))
  BY KeepsExists, LenProperties
<1>2. Without(q, S) = g[Len(q)]
  BY DEF Without, Keeps
<1> QED BY <1>1, <1>2

(* w has elements of q[1..n] in their order.                               *)
Ordered(w, q, n) ==
  \A a, b \in 1 .. Len(w) : a < b =>
    \E i, j \in 1 .. n : i < j /\ q[i] = w[a] /\ q[j] = w[b]

(* Taking elements out keeps the others, in their order.                   *)
LEMMA WithoutProperties ==
  ASSUME NEW A, NEW q \in Seq(A), NEW S
  PROVE  /\ Without(q, S) \in Seq(A)
         /\ Range(Without(q, S)) = Range(q) \ S
         /\ Ordered(Without(q, S), q, Len(q))
<1>1. PICK g : Keeps(g, q, S, Len(q)) /\ Without(q, S) = g[Len(q)]
  BY WithoutIsKept
<1>2. Len(q) \in Nat /\ DOMAIN q = 1 .. Len(q) /\ \A i \in 1 .. Len(q) : q[i] \in A
  BY LenProperties, ElementOfSeq
<1>3. \A i \in 0 .. Len(q) :
        g[i] = IF i = 0 THEN <<>>
               ELSE IF q[i] \in S THEN g[i - 1] ELSE Append(g[i - 1], q[i])
  BY <1>1 DEF Keeps
<1> DEFINE P(n) == /\ g[n] \in Seq(A)
                   /\ \A a \in 1 .. Len(g[n]) : \E j \in 1 .. n : q[j] \notin S /\ q[j] = g[n][a]
                   /\ \A j \in 1 .. n : q[j] \notin S => \E a \in 1 .. Len(g[n]) : q[j] = g[n][a]
                   /\ Ordered(g[n], q, n)
           I == {n \in Nat : P(n)}
<1>4. 0 \in I
  <2>1. g[0] = <<>>
    BY <1>2, <1>3
  <2>2. g[0] \in Seq(A) /\ Len(g[0]) = 0 /\ 1 .. 0 = {}
    BY <2>1, EmptySeq
  <2>3. P(0)
    BY <2>2 DEF Ordered
  <2> QED BY <2>3
<1>5. ASSUME NEW n \in Nat, n < Len(q), n \in I PROVE n + 1 \in I
  <2>1. P(n)
    BY <1>5
  <2>2. n + 1 \in 1 .. Len(q) /\ (n + 1) - 1 = n
    BY <1>2, <1>5
  <2>3. CASE q[n + 1] \in S
    <3>1. g[n + 1] = g[n]
      BY <1>3, <2>2, <2>3
    <3>2. P(n + 1)
      BY <2>1, <2>3, <3>1 DEF Ordered
    <3> QED BY <3>2
  <2>4. CASE q[n + 1] \notin S
    <3> DEFINE w == g[n]
               v == Append(w, q[n + 1])
    <3>1. g[n + 1] = v
      <4>1. n + 1 \in 0 .. Len(q) /\ n + 1 # 0
        BY <2>2
      <4>2. g[n + 1] = IF n + 1 = 0 THEN <<>>
              ELSE IF q[n + 1] \in S THEN g[(n + 1) - 1] ELSE Append(g[(n + 1) - 1], q[n + 1])
        BY <1>3, <4>1
      <4> QED BY <2>2, <2>4, <4>1, <4>2
    <3>2. /\ v \in Seq(A) /\ Len(v) = Len(w) + 1 /\ Len(w) \in Nat
          /\ \A a \in 1 .. Len(w) : v[a] = w[a]
          /\ v[Len(w) + 1] = q[n + 1]
      BY <1>2, <2>1, <2>2, AppendProperties, LenProperties
    <3> HIDE DEF v
    <3>3. \A a \in 1 .. Len(v) : \E j \in 1 .. n + 1 : q[j] \notin S /\ q[j] = v[a]
      <4> SUFFICES ASSUME NEW a \in 1 .. Len(v)
                   PROVE  \E j \in 1 .. n + 1 : q[j] \notin S /\ q[j] = v[a]
        OBVIOUS
      <4>1. CASE a \in 1 .. Len(w)
        <5>1. PICK j \in 1 .. n : q[j] \notin S /\ q[j] = w[a]
          BY <2>1, <4>1
        <5> QED BY <3>2, <4>1, <5>1
      <4>2. CASE a = Len(w) + 1
        BY <2>4, <3>2, <4>2
      <4>3. a \in 1 .. Len(w) \/ a = Len(w) + 1
        BY <3>2
      <4> QED BY <4>1, <4>2, <4>3
    <3>4. \A j \in 1 .. n + 1 : q[j] \notin S => \E a \in 1 .. Len(v) : q[j] = v[a]
      <4> SUFFICES ASSUME NEW j \in 1 .. n + 1, q[j] \notin S
                   PROVE  \E a \in 1 .. Len(v) : q[j] = v[a]
        OBVIOUS
      <4>1. CASE j \in 1 .. n
        <5>1. PICK a \in 1 .. Len(w) : q[j] = w[a]
          BY <2>1, <4>1
        <5> QED BY <3>2, <5>1
      <4>2. CASE j = n + 1
        BY <3>2, <4>2
      <4> QED BY <4>1, <4>2
    <3>5. Ordered(v, q, n + 1)
      <4> SUFFICES ASSUME NEW a \in 1 .. Len(v), NEW b \in 1 .. Len(v), a < b
                   PROVE  \E i, j \in 1 .. n + 1 : i < j /\ q[i] = v[a] /\ q[j] = v[b]
        BY DEF Ordered
      <4>1. CASE b <= Len(w)
        <5>1. a \in 1 .. Len(w) /\ b \in 1 .. Len(w) /\ v[a] = w[a] /\ v[b] = w[b]
          BY <3>2, <4>1
        <5>2. PICK i \in 1 .. n, j \in 1 .. n : i < j /\ q[i] = w[a] /\ q[j] = w[b]
          BY <2>1, <5>1 DEF Ordered
        <5>3. i \in 1 .. n + 1 /\ j \in 1 .. n + 1
          OBVIOUS
        <5> QED BY <5>1, <5>2, <5>3
      <4>2. CASE b = Len(w) + 1
        <5>1. a \in 1 .. Len(w) /\ v[a] = w[a]
          BY <3>2, <4>2
        <5>2. PICK i \in 1 .. n : q[i] = w[a]
          BY <2>1, <5>1
        <5>3. i < n + 1 /\ i \in 1 .. n + 1 /\ n + 1 \in 1 .. n + 1
          OBVIOUS
        <5>4. q[i] = v[a] /\ q[n + 1] = v[b]
          BY <3>2, <4>2, <5>1, <5>2
        <5> QED BY <5>3, <5>4
      <4>3. b <= Len(w) \/ b = Len(w) + 1
        BY <3>2
      <4> QED BY <4>1, <4>2, <4>3
    <3>6. P(n + 1)
      BY <3>1, <3>2, <3>3, <3>4, <3>5
    <3> QED BY <3>6
  <2> QED BY <2>3, <2>4
<1>6. Len(q) \in I
  <2> HIDE DEF I
  <2>1. \A n \in 0 .. Len(q) : n \in I
    BY <1>2, <1>4, <1>5, BoundedInduction
  <2> QED BY <1>2, <2>1
<1>7. P(Len(q))
  BY <1>6
<1>8. Range(Without(q, S)) = Range(q) \ S
  <2>1. DOMAIN Without(q, S) = 1 .. Len(Without(q, S))
    BY <1>1, <1>7, LenProperties
  <2> QED BY <1>1, <1>2, <1>7, <2>1 DEF Range
<1> QED BY <1>1, <1>7, <1>8

(* What is left of a sequence without repetitions has none.                *)
LEMMA WithoutInjective ==
  ASSUME NEW A, NEW q \in Seq(A), NEW S, IsInjective(q)
  PROVE  IsInjective(Without(q, S))
<1> DEFINE w == Without(q, S)
<1>1. w \in Seq(A) /\ Ordered(w, q, Len(q))
  BY WithoutProperties
<1>2. DOMAIN w = 1 .. Len(w) /\ Len(w) \in Nat /\ DOMAIN q = 1 .. Len(q) /\ Len(q) \in Nat
  BY <1>1, LenProperties
<1> HIDE DEF w
<1>3. ASSUME NEW a \in 1 .. Len(w), NEW b \in 1 .. Len(w), a < b PROVE w[a] # w[b]
  <2>1. PICK i \in 1 .. Len(q), j \in 1 .. Len(q) : i < j /\ q[i] = w[a] /\ q[j] = w[b]
    BY <1>1, <1>3 DEF Ordered
  <2> QED BY <1>2, <2>1 DEF IsInjective
<1>4. IsInjective(w)
  <2> SUFFICES ASSUME NEW a \in 1 .. Len(w), NEW b \in 1 .. Len(w), w[a] = w[b], a # b
               PROVE  FALSE
    BY <1>2 DEF IsInjective
  <2>1. a < b \/ b < a
    BY <1>2
  <2> QED BY <1>3, <2>1
<1> QED BY <1>4 DEF w

(* A sequence without repetitions has as many elements as its length.      *)
LEMMA RangeSize ==
  ASSUME NEW A, NEW q \in Seq(A), IsInjective(q)
  PROVE  IsFiniteSet(Range(q)) /\ Cardinality(Range(q)) = Len(q)
<1>1. Len(q) \in Nat /\ DOMAIN q = 1 .. Len(q) /\ q \in [1 .. Len(q) -> A]
  BY LenProperties
<1>2. q \in Bijection(1 .. Len(q), Range(q))
  BY <1>1 DEF Bijection, Injection, Surjection, Range
<1>3. ExistsBijection(1 .. Len(q), Range(q))
  BY <1>2 DEF ExistsBijection
<1>4. Cardinality(Range(q)) = Len(q)
  BY <1>1, <1>3, FS_CountingElements
<1>5. IsFiniteSet(Range(q))
  BY <1>1, <1>3, FS_NatBijection
<1> QED BY <1>4, <1>5

(* A sequence cut in two.                                                  *)
LEMMA Split ==
  ASSUME NEW A, NEW q \in Seq(A), IsInjective(q), NEW n \in 0 .. Len(q)
  PROVE  LET a == SubSeq(q, 1, n)
             b == SubSeq(q, n + 1, Len(q))
         IN  /\ a \in Seq(A) /\ b \in Seq(A) /\ Len(a) = n /\ Len(b) = Len(q) - n
             /\ \A i \in 1 .. n : a[i] = q[i]
             /\ \A i \in 1 .. Len(q) - n : b[i] = q[n + i]
             /\ IsInjective(a) /\ IsInjective(b)
             /\ Range(a) \cup Range(b) = Range(q) /\ Range(a) \cap Range(b) = {}
<1> DEFINE a == SubSeq(q, 1, n)
           b == SubSeq(q, n + 1, Len(q))
<1>1. Len(q) \in Nat /\ DOMAIN q = 1 .. Len(q) /\ \A i \in 1 .. Len(q) : q[i] \in A
  BY LenProperties, ElementOfSeq
<1>2. a \in Seq(A) /\ Len(a) = n /\ \A i \in 1 .. n : a[i] = q[i]
  <2>1. \A i \in 1 .. n : q[i] \in A
    BY <1>1
  <2>2. /\ a \in Seq(A)
        /\ Len(a) = IF 1 <= n THEN (n - 1) + 1 ELSE 0
        /\ \A i \in 1 .. (n - 1) + 1 : a[i] = q[(1 + i) - 1]
    BY <2>1, <1>1, SubSeqProperties
  <2> QED BY <1>1, <2>2
<1>3. b \in Seq(A) /\ Len(b) = Len(q) - n /\ \A i \in 1 .. Len(q) - n : b[i] = q[n + i]
  <2>1. \A i \in n + 1 .. Len(q) : q[i] \in A
    BY <1>1
  <2>2. /\ b \in Seq(A)
        /\ Len(b) = IF n + 1 <= Len(q) THEN (Len(q) - (n + 1)) + 1 ELSE 0
        /\ \A i \in 1 .. (Len(q) - (n + 1)) + 1 : b[i] = q[((n + 1) + i) - 1]
    BY <2>1, <1>1, SubSeqProperties
  <2> HIDE DEF b
  <2>3. n \in Nat /\ Len(q) \in Nat /\ n <= Len(q)
    BY <1>1
  <2>4. Len(b) = Len(q) - n
    BY <2>2, <2>3
  <2>5. ASSUME NEW i \in 1 .. Len(q) - n PROVE b[i] = q[n + i]
    <3>1. i \in 1 .. (Len(q) - (n + 1)) + 1 /\ ((n + 1) + i) - 1 = n + i
      BY <2>3
    <3> QED BY <2>2, <3>1
  <2> QED BY <2>2, <2>4, <2>5
<1>4. DOMAIN a = 1 .. n /\ DOMAIN b = 1 .. Len(q) - n
  BY <1>2, <1>3, LenProperties
<1> HIDE DEF a, b
<1>5. IsInjective(a)
  BY <1>1, <1>2, <1>4 DEF IsInjective
<1>6. IsInjective(b)
  <2> SUFFICES ASSUME NEW i \in 1 .. Len(q) - n, NEW j \in 1 .. Len(q) - n, b[i] = b[j]
               PROVE  i = j
    BY <1>4 DEF IsInjective
  <2>1. q[n + i] = q[n + j] /\ n + i \in 1 .. Len(q) /\ n + j \in 1 .. Len(q)
    BY <1>1, <1>3
  <2>2. n + i = n + j
    BY <1>1, <2>1 DEF IsInjective
  <2> QED BY <1>1, <2>2
<1>7. Range(a) \cap Range(b) = {}
  <2> SUFFICES ASSUME NEW i \in 1 .. n, NEW j \in 1 .. Len(q) - n, a[i] = b[j]
               PROVE  FALSE
    BY <1>4 DEF Range
  <2>1. q[i] = q[n + j] /\ i \in 1 .. Len(q) /\ n + j \in 1 .. Len(q)
    BY <1>1, <1>2, <1>3
  <2>2. i = n + j
    BY <1>1, <2>1 DEF IsInjective
  <2> QED BY <1>1, <2>2
<1>8. Range(a) \cup Range(b) = Range(q)
  <2>1. ASSUME NEW i \in 1 .. Len(q) PROVE q[i] \in Range(a) \cup Range(b)
    <3>1. CASE i <= n
      BY <1>1, <1>2, <1>4, <3>1 DEF Range
    <3>2. CASE i > n
      <4>1. i - n \in 1 .. Len(q) - n /\ n + (i - n) = i
        BY <1>1, <3>2
      <4>2. b[i - n] = q[i]
        BY <1>3, <4>1
      <4> QED BY <1>4, <4>1, <4>2 DEF Range
    <3> QED BY <1>1, <3>1, <3>2
  <2>2. ASSUME NEW i \in 1 .. n PROVE a[i] \in Range(q)
    BY <1>1, <1>2 DEF Range
  <2>3. ASSUME NEW i \in 1 .. Len(q) - n PROVE b[i] \in Range(q)
    <3>1. n + i \in 1 .. Len(q) /\ b[i] = q[n + i]
      BY <1>1, <1>3
    <3> QED BY <1>1, <3>1 DEF Range
  <2> QED BY <1>1, <1>4, <2>1, <2>2, <2>3 DEF Range
<1> QED BY <1>2, <1>3, <1>5, <1>6, <1>7, <1>8 DEF a, b

(* One sequence after another.                                             *)
LEMMA Joined ==
  ASSUME NEW A, NEW p \in Seq(A), NEW q \in Seq(A), IsInjective(p), IsInjective(q),
         Range(p) \cap Range(q) = {}
  PROVE  /\ p \o q \in Seq(A) /\ IsInjective(p \o q)
         /\ Range(p \o q) = Range(p) \cup Range(q)
         /\ \A x, y : Before(p \o q, x, y) =>
              Before(p, x, y) \/ Before(q, x, y) \/ (x \in Range(p) /\ y \in Range(q))
<1> DEFINE r == p \o q
           m == Len(p)
           n == Len(q)
<1>1. /\ m \in Nat /\ n \in Nat /\ DOMAIN p = 1 .. m /\ DOMAIN q = 1 .. n
  BY LenProperties
<1>2. /\ r \in Seq(A) /\ Len(r) = m + n
      /\ \A i \in 1 .. m + n : r[i] = IF i <= m THEN p[i] ELSE q[i - m]
  BY ConcatProperties
<1>3. DOMAIN r = 1 .. m + n
  BY <1>2, LenProperties
<1>4. Range(r) = Range(p) \cup Range(q)
  BY RangeConcatenation
<1> HIDE DEF r, m, n
<1>5. ASSUME NEW i \in 1 .. m PROVE r[i] = p[i] /\ p[i] \in Range(p)
  <2>1. i \in 1 .. m + n /\ i <= m
    BY <1>1
  <2>2. r[i] = p[i]
    BY <1>2, <2>1
  <2> QED BY <1>1, <2>2 DEF Range
<1>6. ASSUME NEW i \in 1 .. m + n, i > m
      PROVE  i - m \in 1 .. n /\ r[i] = q[i - m] /\ q[i - m] \in Range(q)
  <2>1. i - m \in 1 .. n /\ ~(i <= m)
    BY <1>1, <1>6
  <2>2. r[i] = q[i - m]
    BY <1>2, <2>1
  <2> QED BY <1>1, <2>1, <2>2 DEF Range
<1>7. IsInjective(r)
  <2> SUFFICES ASSUME NEW i \in 1 .. m + n, NEW j \in 1 .. m + n, r[i] = r[j]
               PROVE  i = j
    BY <1>3 DEF IsInjective
  <2>1. CASE i <= m /\ j <= m
    BY <1>1, <1>5, <2>1 DEF IsInjective
  <2>2. CASE i > m /\ j > m
    <3>1. i - m = j - m
      BY <1>1, <1>6, <2>2 DEF IsInjective
    <3> QED BY <1>1, <3>1
  <2>3. CASE i <= m /\ j > m
    BY <1>1, <1>5, <1>6, <2>3
  <2>4. CASE i > m /\ j <= m
    BY <1>1, <1>5, <1>6, <2>4
  <2> QED BY <1>1, <2>1, <2>2, <2>3, <2>4
<1>8. ASSUME NEW x, NEW y, Before(r, x, y)
      PROVE  Before(p, x, y) \/ Before(q, x, y) \/ (x \in Range(p) /\ y \in Range(q))
  <2>1. PICK i \in 1 .. m + n, j \in 1 .. m + n : i < j /\ r[i] = x /\ r[j] = y
    BY <1>3, <1>8 DEF Before
  <2>2. CASE j <= m
    <3>1. i \in 1 .. m /\ j \in 1 .. m
      BY <1>1, <2>1, <2>2
    <3> QED BY <1>1, <1>5, <2>1, <3>1 DEF Before
  <2>3. CASE i > m
    <3>1. i - m \in 1 .. n /\ j - m \in 1 .. n /\ i - m < j - m
      BY <1>1, <1>6, <2>1, <2>3
    <3>2. q[i - m] = x /\ q[j - m] = y
      BY <1>1, <1>6, <2>1, <2>3
    <3> QED BY <1>1, <3>1, <3>2 DEF Before
  <2>4. CASE i <= m /\ j > m
    BY <1>1, <1>5, <1>6, <2>1, <2>4
  <2> QED BY <1>1, <2>2, <2>3, <2>4
<1> QED BY <1>2, <1>4, <1>7, <1>8 DEF r

(* One more at the end.                                                    *)
LEMMA Appended ==
  ASSUME NEW A, NEW q \in Seq(A), IsInjective(q), NEW t \in A, t \notin Range(q)
  PROVE  /\ Append(q, t) \in Seq(A) /\ IsInjective(Append(q, t))
         /\ Range(Append(q, t)) = Range(q) \cup {t}
         /\ \A x, y : Before(Append(q, t), x, y) => Before(q, x, y) \/ y = t
<1>1. <<t>> \in Seq(A) /\ DOMAIN <<t>> = {1} /\ <<t>>[1] = t
  OBVIOUS
<1>2. Range(<<t>>) = {t} /\ IsInjective(<<t>>)
  BY <1>1 DEF Range, IsInjective
<1>3. \A x, y : ~Before(<<t>>, x, y)
  BY <1>1 DEF Before
<1>4. Append(q, t) = q \o <<t>>
  BY AppendIsConcat
<1>5. Range(q) \cap Range(<<t>>) = {}
  BY <1>2
<1>6. /\ q \o <<t>> \in Seq(A) /\ IsInjective(q \o <<t>>)
      /\ Range(q \o <<t>>) = Range(q) \cup Range(<<t>>)
      /\ \A x, y : Before(q \o <<t>>, x, y) =>
           Before(q, x, y) \/ Before(<<t>>, x, y) \/ (x \in Range(q) /\ y \in Range(<<t>>))
  BY <1>1, <1>2, <1>5, Joined
<1> QED BY <1>2, <1>3, <1>4, <1>6

(* Without repetitions Before is an order of the elements.                 *)
LEMMA BeforeIsOrder ==
  ASSUME NEW A, NEW q \in Seq(A), IsInjective(q)
  PROVE  /\ \A x, y : Before(q, x, y) => ~Before(q, y, x) /\ x \in Range(q) /\ y \in Range(q) /\ x # y
         /\ \A x, y \in Range(q) : x # y => Before(q, x, y) \/ Before(q, y, x)
<1>1. Len(q) \in Nat /\ DOMAIN q = 1 .. Len(q)
  BY LenProperties
<1>2. ASSUME NEW x, NEW y, Before(q, x, y)
      PROVE  ~Before(q, y, x) /\ x \in Range(q) /\ y \in Range(q) /\ x # y
  <2>1. PICK i \in 1 .. Len(q), j \in 1 .. Len(q) : i < j /\ q[i] = x /\ q[j] = y
    BY <1>1, <1>2 DEF Before
  <2>2. x # y
    BY <1>1, <2>1 DEF IsInjective
  <2>3. ASSUME Before(q, y, x) PROVE FALSE
    <3>1. PICK a \in 1 .. Len(q), b \in 1 .. Len(q) : a < b /\ q[a] = y /\ q[b] = x
      BY <1>1, <2>3 DEF Before
    <3>2. a = j /\ b = i
      BY <1>1, <2>1, <3>1 DEF IsInjective
    <3> QED BY <1>1, <2>1, <3>1, <3>2
  <2>4. x \in Range(q) /\ y \in Range(q)
    BY <1>1, <2>1 DEF Range
  <2> QED BY <2>2, <2>3, <2>4
<1>3. ASSUME NEW x \in Range(q), NEW y \in Range(q), x # y
      PROVE  Before(q, x, y) \/ Before(q, y, x)
  <2>1. PICK i \in 1 .. Len(q), j \in 1 .. Len(q) : q[i] = x /\ q[j] = y
    BY <1>1 DEF Range
  <2>2. i < j \/ j < i
    BY <1>1, <1>3, <2>1
  <2> QED BY <1>1, <2>1, <2>2 DEF Before
<1> QED BY <1>2, <1>3

(* Taking elements out changes no order, and what is left of two elements  *)
(* that stay is in the order they had.                                     *)
LEMMA WithoutBefore ==
  ASSUME NEW A, NEW q \in Seq(A), IsInjective(q), NEW S
  PROVE  /\ \A x, y : Before(Without(q, S), x, y) => Before(q, x, y)
         /\ \A x, y : Before(q, x, y) /\ x \notin S /\ y \notin S => Before(Without(q, S), x, y)
<1> DEFINE w == Without(q, S)
<1>1. w \in Seq(A) /\ Ordered(w, q, Len(q)) /\ Range(w) = Range(q) \ S /\ IsInjective(w)
  BY WithoutProperties, WithoutInjective
<1>2. DOMAIN w = 1 .. Len(w) /\ Len(w) \in Nat /\ DOMAIN q = 1 .. Len(q) /\ Len(q) \in Nat
  BY <1>1, LenProperties
<1> HIDE DEF w
<1>3. ASSUME NEW x, NEW y, Before(w, x, y) PROVE Before(q, x, y)
  <2>1. PICK i \in 1 .. Len(w), j \in 1 .. Len(w) : i < j /\ w[i] = x /\ w[j] = y
    BY <1>2, <1>3 DEF Before
  <2>2. \E a, b \in 1 .. Len(q) : a < b /\ q[a] = w[i] /\ q[b] = w[j]
    BY <1>1, <2>1 DEF Ordered
  <2> QED BY <1>2, <2>1, <2>2 DEF Before
<1>4. ASSUME NEW x, NEW y, Before(q, x, y), x \notin S, y \notin S PROVE Before(w, x, y)
  <2>1. x \in Range(q) /\ y \in Range(q) /\ x # y /\ ~Before(q, y, x)
    BY <1>4, BeforeIsOrder
  <2>2. x \in Range(w) /\ y \in Range(w)
    BY <1>1, <1>4, <2>1
  <2>3. Before(w, x, y) \/ Before(w, y, x)
    BY <1>1, <2>1, <2>2, BeforeIsOrder
  <2> QED BY <1>3, <2>1, <2>3
<1> QED BY <1>3, <1>4 DEF w

(* The front of a sequence has all that comes before any of it.            *)
LEMMA SplitBefore ==
  ASSUME NEW A, NEW q \in Seq(A), IsInjective(q), NEW n \in 0 .. Len(q)
  PROVE  LET a == SubSeq(q, 1, n)
             b == SubSeq(q, n + 1, Len(q))
         IN  /\ \A x, y : Before(a, x, y) \/ Before(b, x, y) => Before(q, x, y)
             /\ \A x, y : Before(q, x, y) /\ y \in Range(a) => x \in Range(a)
<1> DEFINE a == SubSeq(q, 1, n)
           b == SubSeq(q, n + 1, Len(q))
<1>1. Len(q) \in Nat /\ DOMAIN q = 1 .. Len(q)
  BY LenProperties
<1>2. /\ a \in Seq(A) /\ b \in Seq(A) /\ Len(a) = n /\ Len(b) = Len(q) - n
      /\ \A i \in 1 .. n : a[i] = q[i]
      /\ \A i \in 1 .. Len(q) - n : b[i] = q[n + i]
  BY Split
<1>3. DOMAIN a = 1 .. n /\ DOMAIN b = 1 .. Len(q) - n
  BY <1>2, LenProperties
<1> HIDE DEF a, b
<1>4. ASSUME NEW x, NEW y, Before(a, x, y) PROVE Before(q, x, y)
  BY <1>1, <1>2, <1>3, <1>4 DEF Before
<1>5. ASSUME NEW x, NEW y, Before(b, x, y) PROVE Before(q, x, y)
  <2>1. PICK i \in 1 .. Len(q) - n, j \in 1 .. Len(q) - n : i < j /\ b[i] = x /\ b[j] = y
    BY <1>3, <1>5 DEF Before
  <2>2. n + i \in 1 .. Len(q) /\ n + j \in 1 .. Len(q) /\ n + i < n + j
    BY <1>1, <2>1
  <2>3. q[n + i] = x /\ q[n + j] = y
    BY <1>2, <2>1
  <2> QED BY <1>1, <2>2, <2>3 DEF Before
<1>6. ASSUME NEW x, NEW y, Before(q, x, y), y \in Range(a) PROVE x \in Range(a)
  <2>1. PICK i \in 1 .. Len(q), j \in 1 .. Len(q) : i < j /\ q[i] = x /\ q[j] = y
    BY <1>1, <1>6 DEF Before
  <2>2. PICK c \in 1 .. n : a[c] = y
    BY <1>3, <1>6 DEF Range
  <2>3. c = j
    <3>1. c \in 1 .. Len(q) /\ q[c] = q[j]
      BY <1>1, <1>2, <2>1, <2>2
    <3> QED BY <1>1, <3>1 DEF IsInjective
  <2>4. i \in 1 .. n
    BY <1>1, <2>1, <2>3
  <2> QED BY <1>2, <1>3, <2>1, <2>4 DEF Range
<1> QED BY <1>4, <1>5, <1>6 DEF a, b

(* The first n of a sequence, with all that comes before one of them.      *)
LEMMA FirstOfProperties ==
  ASSUME NEW A, NEW q \in Seq(A), IsInjective(q), NEW n \in Nat
  PROVE  /\ FirstOf(q, n) \subseteq Range(q)
         /\ \A x, y : Before(q, x, y) /\ y \in FirstOf(q, n) => x \in FirstOf(q, n)
<1> DEFINE m == IF n < Len(q) THEN n ELSE Len(q)
<1>1. m \in 0 .. Len(q)
  BY LenProperties
<1>2. FirstOf(q, n) = Range(SubSeq(q, 1, m))
  BY DEF FirstOf
<1> HIDE DEF m
<1> QED BY <1>1, <1>2, Split, SplitBefore

-----------------------------------------------------------------------------
(* The futexes.  FutexSafe is inductive together with the types that       *)
(* FutexTypeOK leaves out.                                                 *)
WaitTypes ==
  /\ wait \in [FutexThreads -> [futex : Keys \cup {NoKey}, bitset : Bitsets \cup {{}}]]
  /\ expected \in [FutexThreads -> {0, 1, Anything}]
  /\ owed \in [Keys -> BOOLEAN]

FutexInv == FutexSafe /\ WaitTypes

(* No futex exists at the start.                                           *)
LEMMA FutexInitInv == FutexInit => FutexInv
<1> SUFFICES ASSUME FutexInit PROVE FutexInv
  OBVIOUS
<1>1. FutexTypeOK /\ WaitTypes
  BY EmptySeq DEF FutexInit, FutexTypeOK, WaitTypes, NoWait, Anything
<1>2. \A k \in Keys : Referring(k) = {}
  BY FutexAssumption DEF FutexInit, Referring, NoWait
<1>3. FutexRefcount
  BY <1>2, FS_EmptySet DEF FutexInit, FutexRefcount
<1>4. SleeperIsQueued
  BY DEF FutexInit, SleeperIsQueued, IsInjective, Range
<1>5. NoMissedWake
  BY DEF FutexInit, NoMissedWake
<1> QED BY <1>1, <1>3, <1>4, <1>5 DEF FutexInv, FutexSafe

(* The waiters of a futex are finitely many, and one waits at one futex.   *)
LEMMA ReferringFinite ==
  ASSUME NEW k
  PROVE  IsFiniteSet(Referring(k)) /\ Cardinality(Referring(k)) \in Nat
BY FutexAssumption, FS_Subset, FS_CardinalityType DEF Referring

(* A wake takes any of the queue's threads off it.                         *)
Wakes(k, S) ==
  /\ Awaken(S)
  /\ queue' = [queue EXCEPT ![k] = Without(@, S)]
  /\ Settle(k, S)
  /\ UNCHANGED <<word, refcount, wait, expected>>

(* Wakes keep the invariant: who is taken off a queue does not sleep.      *)
LEMMA WakesInv ==
  ASSUME FutexInv, NEW k \in Keys, NEW S, Wakes(k, S)
  PROVE  FutexInv'
<1> USE DEF FutexInv, FutexSafe
<1> DEFINE w == Without(queue[k], S)
<1>0. queue[k] \in Seq(FutexThreads) /\ IsInjective(queue[k])
  BY DEF FutexTypeOK, SleeperIsQueued
<1>1. w \in Seq(FutexThreads) /\ Range(w) = Range(queue[k]) \ S /\ IsInjective(w)
  BY <1>0, WithoutProperties, WithoutInjective
<1> HIDE DEF w
<1>2. queue' = [queue EXCEPT ![k] = w]
  BY DEF Wakes, w
<1>3. \A t \in FutexThreads : at'[t] = IF t \in S /\ at[t] = "asleep" THEN "woken" ELSE at[t]
  BY DEF Wakes, Awaken
<1>4. \A j \in Keys : queue'[j] = IF j = k THEN w ELSE queue[j]
  BY <1>2 DEF FutexTypeOK
<1>5. FutexTypeOK' /\ WaitTypes'
  BY <1>1, <1>2 DEF Wakes, Awaken, Settle, FutexTypeOK, WaitTypes
<1>6. FutexRefcount'
  BY DEF Wakes, FutexRefcount, Referring
<1>7. SleeperIsQueued'
  <2>1. ASSUME NEW t \in FutexThreads, at'[t] = "asleep"
        PROVE  t \in Range(queue'[wait'[t].futex])
    <3>1. at[t] = "asleep" /\ t \notin S /\ wait'[t] = wait[t]
      BY <1>3, <2>1 DEF Wakes
    <3>2. t \in Range(queue[wait[t].futex]) /\ wait[t].futex \in Keys
      BY <3>1 DEF SleeperIsQueued, FutexTypeOK
    <3> QED BY <1>1, <1>4, <3>1, <3>2
  <2>2. ASSUME NEW j \in Keys
        PROVE  IsInjective(queue'[j]) /\ Range(queue'[j]) \subseteq Referring(j)'
    <3>1. Referring(j)' = Referring(j)
      BY DEF Wakes, Referring
    <3> QED BY <1>1, <1>4, <3>1 DEF SleeperIsQueued
  <2> QED BY <2>1, <2>2 DEF SleeperIsQueued
<1>8. NoMissedWake'
  <2> SUFFICES ASSUME NEW j \in Keys, NEW t \in FutexThreads, at'[t] = "asleep",
                      wait'[t].futex = j, expected'[t] \notin {Anything, word'[j]}
               PROVE  owed'[j]
    BY DEF NoMissedWake
  <2>1. at[t] = "asleep" /\ t \notin S
    BY <1>3
  <2>2. owed[j]
    BY <2>1 DEF Wakes, NoMissedWake
  <2>3. t \in Range(queue[j])
    BY <2>1 DEF Wakes, SleeperIsQueued
  <2> QED BY <2>1, <2>2, <2>3 DEF Wakes, Settle, WaitTypes
<1> QED BY <1>5, <1>6, <1>7, <1>8

(* A thread queues itself.                                                 *)
LEMMA WaitBeginsInv ==
  ASSUME FutexInv, NEW t \in FutexThreads, NEW k \in Keys, NEW val \in {0, 1},
         NEW bitset \in Bitsets, WaitBegins(t, k, val, bitset)
  PROVE  FutexInv'
<1> USE DEF FutexInv, FutexSafe
<1> DEFINE q == Append(queue[k], t)
<1>0. queue[k] \in Seq(FutexThreads) /\ IsInjective(queue[k])
  BY DEF FutexTypeOK, SleeperIsQueued
<1>1. wait[t].futex = NoKey /\ \A j \in Keys : t \notin Range(queue[j]) /\ t \notin Referring(j)
  BY FutexAssumption DEF WaitBegins, FutexTypeOK, SleeperIsQueued, Referring
<1>2. q \in Seq(FutexThreads) /\ IsInjective(q) /\ Range(q) = Range(queue[k]) \cup {t}
  BY <1>0, <1>1, Appended
<1> HIDE DEF q
<1>3. \A j \in Keys : queue'[j] = IF j = k THEN q ELSE queue[j]
  BY DEF WaitBegins, FutexTypeOK, q
<1>4. \A u \in FutexThreads : wait'[u] = IF u = t THEN [futex |-> k, bitset |-> bitset] ELSE wait[u]
  BY DEF WaitBegins, WaitTypes
<1>5. \A u \in FutexThreads : at'[u] = IF u = t THEN "asleep" ELSE at[u]
  BY DEF WaitBegins, FutexTypeOK
<1>6. FutexTypeOK' /\ WaitTypes'
  <2>1. queue' \in [Keys -> Seq(FutexThreads)]
    <3>1. queue' = [queue EXCEPT ![k] = q] /\ queue \in [Keys -> Seq(FutexThreads)]
      BY DEF WaitBegins, FutexTypeOK, q
    <3> QED BY <1>2, <3>1
  <2>2. word' = word /\ refcount' \in [Keys -> Nat]
    BY DEF WaitBegins, FutexTypeOK
  <2>3. at' \in [FutexThreads -> {"user", "asleep", "woken"}]
    BY DEF WaitBegins, FutexTypeOK
  <2>4. \A u \in FutexThreads : wait'[u].futex \in IF at'[u] = "user" THEN {NoKey} ELSE Keys
    BY <1>4, <1>5 DEF FutexTypeOK
  <2>5. WaitTypes'
    BY DEF WaitBegins, WaitTypes
  <2> QED BY <2>1, <2>2, <2>3, <2>4, <2>5 DEF FutexTypeOK
<1>7. \A j \in Keys : Referring(j)' = IF j = k THEN Referring(j) \cup {t} ELSE Referring(j)
  BY <1>1, <1>4 DEF Referring
<1>8. FutexRefcount'
  <2> SUFFICES ASSUME NEW j \in Keys PROVE refcount'[j] = Cardinality(Referring(j)')
    BY DEF FutexRefcount
  <2>1. CASE j = k
    <3>1. refcount'[k] = refcount[k] + 1 /\ refcount[k] = Cardinality(Referring(k))
      BY DEF WaitBegins, FutexTypeOK, FutexRefcount
    <3>2. Cardinality(Referring(k) \cup {t}) = Cardinality(Referring(k)) + 1
      BY <1>1, ReferringFinite, FS_AddElement
    <3> QED BY <1>7, <2>1, <3>1, <3>2
  <2>2. CASE j # k
    BY <1>7, <2>2 DEF WaitBegins, FutexTypeOK, FutexRefcount
  <2> QED BY <2>1, <2>2
<1>9. SleeperIsQueued'
  <2>1. ASSUME NEW u \in FutexThreads, at'[u] = "asleep"
        PROVE  u \in Range(queue'[wait'[u].futex])
    <3>1. CASE u = t
      BY <1>2, <1>3, <1>4, <3>1
    <3>2. CASE u # t
      <4>1. u \in Range(queue[wait[u].futex]) /\ wait[u].futex \in Keys /\ wait'[u] = wait[u]
        BY <1>4, <1>5, <2>1, <3>2 DEF SleeperIsQueued, FutexTypeOK
      <4> QED BY <1>2, <1>3, <4>1
    <3> QED BY <3>1, <3>2
  <2>2. ASSUME NEW j \in Keys
        PROVE  IsInjective(queue'[j]) /\ Range(queue'[j]) \subseteq Referring(j)'
    BY <1>2, <1>3, <1>7 DEF SleeperIsQueued
  <2> QED BY <2>1, <2>2 DEF SleeperIsQueued
<1>10. NoMissedWake'
  BY <1>4, <1>5 DEF NoMissedWake, WaitBegins, WordMatches, WaitTypes
<1> QED BY <1>6, <1>8, <1>9, <1>10

(* A thread that was woken leaves its queue and its futex.                 *)
LEMMA WaitEndsInv ==
  ASSUME FutexInv, NEW t \in FutexThreads, WaitEnds(t)
  PROVE  FutexInv'
<1> USE DEF FutexInv, FutexSafe
<1>k. PICK k \in Keys : k = wait[t].futex
  BY DEF WaitEnds, FutexTypeOK
<1> DEFINE q == Without(queue[k], {t})
<1>0. queue[k] \in Seq(FutexThreads) /\ IsInjective(queue[k]) /\ t \in Referring(k)
  BY <1>k DEF FutexTypeOK, SleeperIsQueued, Referring
<1>1. q \in Seq(FutexThreads) /\ IsInjective(q) /\ Range(q) = Range(queue[k]) \ {t}
  BY <1>0, WithoutProperties, WithoutInjective
<1>2. /\ queue' = [queue EXCEPT ![k] = q]
      /\ refcount' = [refcount EXCEPT ![k] = @ - 1]
  BY <1>k DEF WaitEnds, Release
<1> HIDE DEF q
<1>3. \A j \in Keys : queue'[j] = IF j = k THEN q ELSE queue[j]
  BY <1>2 DEF FutexTypeOK
<1>4. \A u \in FutexThreads : wait'[u] = IF u = t THEN NoWait ELSE wait[u]
  BY DEF WaitEnds, WaitTypes
<1>5. \A u \in FutexThreads : at'[u] = IF u = t THEN "user" ELSE at[u]
  BY DEF WaitEnds, FutexTypeOK
<1>7. \A j \in Keys : Referring(j)' = IF j = k THEN Referring(j) \ {t} ELSE Referring(j)
  <2>1. NoWait.futex \notin Keys
    BY FutexAssumption DEF NoWait
  <2>2. \A u \in FutexThreads : u = t => wait[u].futex = k
    BY <1>k
  <2> QED BY <1>4, <2>1, <2>2 DEF Referring
<1>8. refcount'[k] = Cardinality(Referring(k)') /\ refcount'[k] \in Nat
  <2>1. refcount'[k] = refcount[k] - 1 /\ refcount[k] = Cardinality(Referring(k))
    BY <1>0, <1>2 DEF FutexTypeOK, FutexRefcount
  <2>2. Cardinality(Referring(k) \ {t}) = Cardinality(Referring(k)) - 1
    BY <1>0, ReferringFinite, FS_RemoveElement
  <2>3. IsFiniteSet(Referring(k) \ {t})
    BY ReferringFinite, FS_RemoveElement, <1>0
  <2>4. Cardinality(Referring(k) \ {t}) \in Nat
    BY <2>3, FS_CardinalityType
  <2> QED BY <1>0, <1>7, <2>1, <2>2, <2>4
<1>9. FutexRefcount'
  <2> SUFFICES ASSUME NEW j \in Keys PROVE refcount'[j] = Cardinality(Referring(j)')
    BY DEF FutexRefcount
  <2>2. CASE j # k
    BY <1>2, <1>7, <2>2 DEF FutexTypeOK, FutexRefcount
  <2> QED BY <1>8, <2>2
<1>10. FutexTypeOK' /\ WaitTypes'
  <2>1. queue' \in [Keys -> Seq(FutexThreads)]
    BY <1>1, <1>2 DEF FutexTypeOK
  <2>2. word' = word /\ refcount' \in [Keys -> Nat]
    BY <1>2, <1>8 DEF WaitEnds, FutexTypeOK
  <2>3. at' \in [FutexThreads -> {"user", "asleep", "woken"}]
    BY DEF WaitEnds, FutexTypeOK
  <2>4. \A u \in FutexThreads : wait'[u].futex \in IF at'[u] = "user" THEN {NoKey} ELSE Keys
    <3>1. \A u \in FutexThreads : wait[u].futex \in IF at[u] = "user" THEN {NoKey} ELSE Keys
      BY DEF FutexTypeOK
    <3>2. NoWait.futex = NoKey
      BY DEF NoWait
    <3> QED BY <1>4, <1>5, <3>1, <3>2
  <2>5. WaitTypes'
    BY DEF WaitEnds, WaitTypes, NoWait
  <2> QED BY <2>1, <2>2, <2>3, <2>4, <2>5 DEF FutexTypeOK
<1>11. SleeperIsQueued'
  <2>1. ASSUME NEW u \in FutexThreads, at'[u] = "asleep"
        PROVE  u \in Range(queue'[wait'[u].futex])
    <3>1. u # t /\ u \in Range(queue[wait[u].futex]) /\ wait[u].futex \in Keys /\ wait'[u] = wait[u]
      BY <1>4, <1>5, <2>1 DEF SleeperIsQueued, FutexTypeOK
    <3> QED BY <1>1, <1>3, <3>1
  <2>2. ASSUME NEW j \in Keys
        PROVE  IsInjective(queue'[j]) /\ Range(queue'[j]) \subseteq Referring(j)'
    BY <1>1, <1>3, <1>7 DEF SleeperIsQueued
  <2> QED BY <2>1, <2>2 DEF SleeperIsQueued
<1>12. NoMissedWake'
  BY <1>4, <1>5 DEF NoMissedWake, WaitEnds, WaitTypes
<1> QED BY <1>9, <1>10, <1>11, <1>12

(* FUTEX_REQUEUE: some are woken, the next go to the end of another queue. *)
LEMMA RequeueInv ==
  ASSUME FutexInv, NEW k \in Keys, NEW to \in Keys, NEW n \in Nat, NEW r \in Nat,
         Requeue(k, to, n, r)
  PROVE  FutexInv'
<1> USE DEF FutexInv, FutexSafe
<1>1. PICK S : S = FirstOf(queue[k], n)
  OBVIOUS
<1>2. PICK rest : rest = Without(queue[k], S)
  OBVIOUS
<1>3. PICK m : m = IF r < Len(rest) THEN r ELSE Len(rest)
  OBVIOUS
<1>4. PICK moved : moved = SubSeq(rest, 1, m)
  OBVIOUS
<1>5. PICK left : left = SubSeq(rest, m + 1, Len(rest))
  OBVIOUS
<1>6. /\ k # to /\ Awaken(S)
      /\ queue' = [queue EXCEPT ![k] = left, ![to] = MoveToTail(@, moved)]
      /\ MoveReferences(k, to, moved)
      /\ expected' = [t \in FutexThreads |-> IF t \in Range(moved) THEN Anything ELSE expected[t]]
      /\ Settle(k, S) /\ word' = word
  BY <1>1, <1>2, <1>3, <1>4, <1>5 DEF Requeue
<1>7. queue[k] \in Seq(FutexThreads) /\ IsInjective(queue[k]) /\ Range(queue[k]) \subseteq Referring(k)
  BY DEF FutexTypeOK, SleeperIsQueued
<1>8. queue[to] \in Seq(FutexThreads) /\ IsInjective(queue[to]) /\ Range(queue[to]) \subseteq Referring(to)
  BY DEF FutexTypeOK, SleeperIsQueued
<1>9. rest \in Seq(FutexThreads) /\ IsInjective(rest) /\ Range(rest) = Range(queue[k]) \ S
  BY <1>2, <1>7, WithoutProperties, WithoutInjective
<1>10. m \in 0 .. Len(rest)
  BY <1>3, <1>9, LenProperties
<1>11. /\ moved \in Seq(FutexThreads) /\ left \in Seq(FutexThreads) /\ Len(moved) = m
       /\ IsInjective(moved) /\ IsInjective(left)
       /\ Range(moved) \cup Range(left) = Range(rest) /\ Range(moved) \cap Range(left) = {}
  BY <1>4, <1>5, <1>9, <1>10, Split
<1>12. Range(moved) \subseteq Referring(k) /\ Range(moved) \cap Referring(to) = {}
  BY <1>6, <1>7, <1>9, <1>11 DEF Referring
<1>13. PICK q : q = queue[to] \o moved
  OBVIOUS
<1>14. q \in Seq(FutexThreads) /\ IsInjective(q) /\ Range(q) = Range(queue[to]) \cup Range(moved)
  <2>1. Range(queue[to]) \cap Range(moved) = {}
    BY <1>8, <1>12
  <2> QED BY <1>8, <1>11, <1>13, <2>1, Joined
<1>15. /\ queue' = [queue EXCEPT ![k] = left, ![to] = q]
       /\ \A j \in Keys : queue'[j] = IF j = k THEN left ELSE IF j = to THEN q ELSE queue[j]
  BY <1>6, <1>13 DEF FutexTypeOK, MoveToTail
<1>16. \A t \in FutexThreads :
         /\ wait'[t].futex = IF t \in Range(moved) THEN to ELSE wait[t].futex
         /\ wait'[t].bitset = wait[t].bitset
  BY <1>6 DEF MoveReferences, WaitTypes
<1>17. \A t \in FutexThreads : at'[t] = IF t \in S /\ at[t] = "asleep" THEN "woken" ELSE at[t]
  BY <1>6 DEF Awaken
<1>18. \A t \in Range(moved) : t \in FutexThreads /\ wait[t].futex = k
  BY <1>12 DEF Referring
<1>19. \A j \in Keys : Referring(j)' = IF j = k THEN Referring(j) \ Range(moved)
                                       ELSE IF j = to THEN Referring(j) \cup Range(moved)
                                       ELSE Referring(j)
  BY <1>6, <1>16, <1>18 DEF Referring
<1>20. IsFiniteSet(Range(moved)) /\ Cardinality(Range(moved)) = m /\ m \in Nat
  BY <1>9, <1>10, <1>11, RangeSize, LenProperties
<1>21. /\ refcount'[k] = refcount[k] - m /\ refcount'[to] = refcount[to] + m
       /\ \A j \in Keys \ {k, to} : refcount'[j] = refcount[j]
       /\ refcount' = [refcount EXCEPT ![k] = @ - m, ![to] = @ + m]
  BY <1>6, <1>11 DEF MoveReferences, FutexTypeOK
<1>22. refcount'[k] = Cardinality(Referring(k)') /\ refcount'[k] \in Nat
  <2>1. Referring(k) \cap Range(moved) = Range(moved)
    BY <1>12
  <2>2. /\ IsFiniteSet(Referring(k) \ Range(moved))
        /\ Cardinality(Referring(k) \ Range(moved)) = Cardinality(Referring(k)) - m
    BY <1>20, <2>1, ReferringFinite, FS_Difference
  <2>3. Cardinality(Referring(k) \ Range(moved)) \in Nat
    BY <2>2, FS_CardinalityType
  <2> QED BY <1>19, <1>21, <2>2, <2>3 DEF FutexRefcount
<1>23. refcount'[to] = Cardinality(Referring(to)') /\ refcount'[to] \in Nat
  <2>1. Referring(to) \cap Range(moved) = {}
    BY <1>12
  <2>2. Cardinality(Referring(to) \cup Range(moved)) = Cardinality(Referring(to)) + m
    <3>1. Cardinality(Referring(to) \cup Range(moved))
            = Cardinality(Referring(to)) + Cardinality(Range(moved))
                - Cardinality(Referring(to) \cap Range(moved))
      <4>1. IsFiniteSet(Referring(to))
        BY ReferringFinite
      <4> QED BY <1>20, <4>1, FS_Union
    <3>2. Cardinality(Referring(to) \cap Range(moved)) = 0
      BY <2>1, FS_EmptySet
    <3> QED BY <1>20, <3>1, <3>2, ReferringFinite
  <2>3. refcount[to] = Cardinality(Referring(to)) /\ refcount[to] \in Nat
    BY DEF FutexRefcount, FutexTypeOK
  <2>4. Referring(to)' = Referring(to) \cup Range(moved)
    BY <1>6, <1>19
  <2>5. refcount'[to] = refcount[to] + m
    BY <1>21
  <2> QED BY <1>20, <2>2, <2>3, <2>4, <2>5
<1>24. FutexRefcount'
  <2> SUFFICES ASSUME NEW j \in Keys PROVE refcount'[j] = Cardinality(Referring(j)')
    BY DEF FutexRefcount
  <2>1. CASE j \notin {k, to}
    BY <1>19, <1>21, <2>1 DEF FutexRefcount
  <2> QED BY <1>22, <1>23, <2>1
<1>25. FutexTypeOK' /\ WaitTypes'
  <2>1. queue' \in [Keys -> Seq(FutexThreads)]
    BY <1>11, <1>14, <1>15 DEF FutexTypeOK
  <2>2. word' = word /\ refcount' \in [Keys -> Nat]
    BY <1>6, <1>21, <1>22, <1>23 DEF FutexTypeOK
  <2>3. at' \in [FutexThreads -> {"user", "asleep", "woken"}]
    BY <1>6 DEF Awaken, FutexTypeOK
  <2>4. \A u \in FutexThreads : wait'[u].futex \in IF at'[u] = "user" THEN {NoKey} ELSE Keys
    <3>1. \A u \in FutexThreads : wait[u].futex \in IF at[u] = "user" THEN {NoKey} ELSE Keys
      BY DEF FutexTypeOK
    <3>2. \A u \in Range(moved) : at[u] # "user"
      BY <1>18, <3>1, FutexAssumption
    <3> QED BY <1>16, <1>17, <3>1, <3>2
  <2>5. WaitTypes'
    BY <1>6 DEF MoveReferences, Settle, WaitTypes, Anything
  <2> QED BY <2>1, <2>2, <2>3, <2>4, <2>5 DEF FutexTypeOK
<1>26. SleeperIsQueued'
  <2>1. ASSUME NEW t \in FutexThreads, at'[t] = "asleep"
        PROVE  t \in Range(queue'[wait'[t].futex])
    <3>1. at[t] = "asleep" /\ t \notin S
      BY <1>17, <2>1
    <3>2. t \in Range(queue[wait[t].futex]) /\ wait[t].futex \in Keys
      BY <3>1 DEF SleeperIsQueued, FutexTypeOK
    <3>3. CASE t \in Range(moved)
      BY <1>6, <1>14, <1>15, <1>16, <3>3
    <3>4. CASE t \notin Range(moved)
      <4>1. wait'[t].futex = wait[t].futex
        BY <1>16, <3>4
      <4>2. wait[t].futex = k => t \in Range(left)
        BY <1>9, <1>11, <3>1, <3>2, <3>4
      <4> QED BY <1>14, <1>15, <3>2, <4>1, <4>2
    <3> QED BY <3>3, <3>4
  <2>2. ASSUME NEW j \in Keys
        PROVE  IsInjective(queue'[j]) /\ Range(queue'[j]) \subseteq Referring(j)'
    <3>1. CASE j = k
      BY <1>7, <1>9, <1>11, <1>15, <1>19, <3>1
    <3>2. CASE j = to
      BY <1>6, <1>8, <1>14, <1>15, <1>19, <3>2
    <3>3. CASE j \notin {k, to}
      BY <1>15, <1>19, <3>3 DEF SleeperIsQueued
    <3> QED BY <3>1, <3>2, <3>3
  <2> QED BY <2>1, <2>2 DEF SleeperIsQueued
<1>27. NoMissedWake'
  <2> SUFFICES ASSUME NEW j \in Keys, NEW t \in FutexThreads, at'[t] = "asleep",
                      wait'[t].futex = j, expected'[t] \notin {Anything, word'[j]}
               PROVE  owed'[j]
    BY DEF NoMissedWake
  <2>1. at[t] = "asleep" /\ t \notin S /\ t \notin Range(moved)
    BY <1>6, <1>17
  <2>2. wait[t].futex = j /\ expected'[t] = expected[t] /\ word' = word
    BY <1>6, <1>16, <2>1
  <2>3. owed[j]
    BY <2>1, <2>2 DEF NoMissedWake
  <2>4. t \in Range(queue[j])
    BY <2>1, <2>2 DEF SleeperIsQueued
  <2>5. owed' = [owed EXCEPT ![k] = @ /\ ~(Range(queue[k]) \subseteq S)]
    BY <1>6 DEF Settle
  <2> QED BY <2>1, <2>3, <2>4, <2>5 DEF WaitTypes
<1> QED BY <1>24, <1>25, <1>26, <1>27

(* Every step keeps the invariant.                                         *)
LEMMA FutexStep == FutexInv /\ [FutexNext]_futexVars => FutexInv'
<1> SUFFICES ASSUME FutexInv, [FutexNext]_futexVars PROVE FutexInv'
  OBVIOUS
<1>0. 0 .. MaxCount \subseteq Nat
  BY FutexAssumption
<1>1. CASE UNCHANGED futexVars
  BY <1>1 DEF futexVars, FutexInv, FutexSafe, FutexTypeOK, WaitTypes, FutexRefcount,
     Referring, SleeperIsQueued, NoMissedWake
<1>2. ASSUME NEW t \in FutexThreads, WaitFails(t) PROVE FutexInv'
  BY <1>1, <1>2 DEF WaitFails
<1>3. ASSUME NEW t \in FutexThreads, WaitExpires(t) PROVE FutexInv'
  <2>1. \A u \in FutexThreads : at'[u] = IF u = t THEN "woken" ELSE at[u]
    BY <1>3 DEF WaitExpires, FutexInv, FutexSafe, FutexTypeOK
  <2>2. at[t] = "asleep" /\ UNCHANGED <<word, queue, refcount, wait, expected, owed>>
    BY <1>3 DEF WaitExpires
  <2>3. FutexTypeOK' /\ WaitTypes'
    BY <1>3 DEF WaitExpires, FutexInv, FutexSafe, FutexTypeOK, WaitTypes
  <2>4. FutexRefcount' /\ SleeperIsQueued' /\ NoMissedWake'
    BY <2>1, <2>2 DEF FutexInv, FutexSafe, FutexRefcount, Referring, SleeperIsQueued, NoMissedWake
  <2> QED BY <2>3, <2>4 DEF FutexInv, FutexSafe
<1>4. ASSUME NEW k \in Keys, StoreWord(k) PROVE FutexInv'
  <2>1. \A j \in Keys : owed'[j] = IF j = k THEN TRUE ELSE owed[j]
    BY <1>4 DEF StoreWord, FutexInv, WaitTypes
  <2>2. \A j \in Keys : word'[j] = IF j = k THEN 1 - word[j] ELSE word[j]
    BY <1>4 DEF StoreWord, FutexInv, FutexSafe, FutexTypeOK
  <2>3. FutexTypeOK' /\ WaitTypes'
    <3>1. \A j \in Keys : word[j] \in {0, 1} /\ 1 - word[j] \in {0, 1}
      BY DEF FutexInv, FutexSafe, FutexTypeOK
    <3>2. word' \in [Keys -> {0, 1}]
      BY <1>4, <3>1 DEF StoreWord, FutexInv, FutexSafe, FutexTypeOK
    <3>3. owed' \in [Keys -> BOOLEAN]
      BY <1>4 DEF StoreWord, FutexInv, WaitTypes
    <3> QED BY <1>4, <3>2, <3>3 DEF StoreWord, FutexInv, FutexSafe, FutexTypeOK, WaitTypes
  <2>4. FutexRefcount' /\ SleeperIsQueued'
    BY <1>4 DEF StoreWord, FutexInv, FutexSafe, FutexRefcount, Referring, SleeperIsQueued
  <2>5. NoMissedWake'
    <3> SUFFICES ASSUME NEW j \in Keys, NEW t \in FutexThreads, at'[t] = "asleep",
                        wait'[t].futex = j, expected'[t] \notin {Anything, word'[j]}
                 PROVE  owed'[j]
      BY DEF NoMissedWake
    <3>1. CASE j = k
      BY <2>1, <3>1
    <3>2. CASE j # k
      BY <1>4, <2>1, <2>2, <3>2 DEF StoreWord, FutexInv, FutexSafe, NoMissedWake
    <3> QED BY <3>1, <3>2
  <2> QED BY <2>3, <2>4, <2>5 DEF FutexInv, FutexSafe
<1>5. ASSUME NEW k \in Keys, NEW n \in 0 .. MaxCount, NEW bitset \in Bitsets, Wake(k, n, bitset)
      PROVE  FutexInv'
  <2>1. Wakes(k, FirstOf(Matching(k, bitset), n))
    BY <1>5 DEF Wake, Wakes
  <2> QED BY <2>1, WakesInv
<1>6. ASSUME NEW k \in Keys, NEW to \in Keys, NEW n \in 0 .. MaxCount, RequeueFails(k, to, n)
      PROVE  FutexInv'
  <2>1. Wakes(k, FirstOf(queue[k], n))
    BY <1>6 DEF RequeueFails, Wakes
  <2> QED BY <2>1, WakesInv
<1>7. ASSUME NEW k \in Keys, NEW to \in Keys, NEW n \in 0 .. MaxCount, NEW r \in 0 .. MaxCount,
             Requeue(k, to, n, r)
      PROVE  FutexInv'
  BY <1>0, <1>7, RequeueInv
<1> QED BY <1>1, <1>2, <1>3, <1>4, <1>5, <1>6, <1>7, WaitBeginsInv, WaitEndsInv DEF FutexNext

(* Futexes of kernel/futex.c: the count of a futex is the number of calls  *)
(* that refer to it, a sleeper is on the queue of its futex and nowhere    *)
(* else, and nobody sleeps on a word that has changed without a wake still *)
(* to come.                                                                *)
THEOREM FutexesAreSafe == FutexSpec => []FutexSafe
<1>1. FutexInv => FutexSafe
  BY DEF FutexInv
<1> QED BY <1>1, FutexInitInv, FutexStep, PTL DEF FutexSpec

-----------------------------------------------------------------------------
(* First come, first served.  A waiter t that comes before u in a queue is *)
(* in no other queue, and u is neither.                                    *)
LEMMA OneQueue ==
  ASSUME FutexInv, NEW k \in Keys, NEW t \in Range(queue[k])
  PROVE  t \in FutexThreads /\ \A j \in Keys : j # k => t \notin Range(queue[j])
BY DEF FutexInv, FutexSafe, SleeperIsQueued, Referring

(* A step that changes no order between two threads that both stay in the  *)
(* queue k, adds none of its threads to another queue in another order,    *)
(* and takes out a later one only with the earlier one.                    *)
LEMMA InOrder ==
  ASSUME FutexInv, NEW k \in Keys, NEW t, NEW u, Before(queue[k], t, u)
  PROVE  /\ ~Before(queue[k], u, t) /\ t # u
         /\ t \in Range(queue[k]) /\ u \in Range(queue[k])
         /\ \A j \in Keys : ~Before(queue[j], u, t)
<1>1. \A j \in Keys : queue[j] \in Seq(FutexThreads) /\ IsInjective(queue[j])
  BY DEF FutexInv, FutexSafe, FutexTypeOK, SleeperIsQueued
<1>2. ~Before(queue[k], u, t) /\ t # u /\ t \in Range(queue[k]) /\ u \in Range(queue[k])
  BY <1>1, BeforeIsOrder
<1>3. ASSUME NEW j \in Keys, Before(queue[j], u, t) PROVE FALSE
  <2>1. t \in Range(queue[j])
    BY <1>1, <1>3, BeforeIsOrder
  <2>2. j = k
    BY <1>2, <2>1, OneQueue
  <2> QED BY <1>2, <1>3, <2>2
<1> QED BY <1>2, <1>3

(* A wake of S, when S has all that comes before one of its sleepers with  *)
(* the same bitset.                                                        *)
LEMMA WakesInOrder ==
  ASSUME FutexInv, NEW i \in Keys, NEW S, Wakes(i, S),
         \A x, y \in FutexThreads :
           Before(queue[i], x, y) /\ wait[x].bitset = wait[y].bitset /\ y \in S => x \in S,
         NEW k \in Keys, NEW t \in FutexThreads, NEW u \in FutexThreads
  PROVE  ~Overtakes(k, t, u)
<1> SUFFICES ASSUME Overtakes(k, t, u) PROVE FALSE
  OBVIOUS
<1>1. \A j \in Keys : queue[j] \in Seq(FutexThreads) /\ IsInjective(queue[j])
  BY DEF FutexInv, FutexSafe, FutexTypeOK, SleeperIsQueued
<1>2. Before(queue[k], t, u) /\ wait[t].bitset = wait[u].bitset
  BY DEF Overtakes
<1>3. \A j \in Keys : queue'[j] = IF j = i THEN Without(queue[i], S) ELSE queue[j]
  BY DEF Wakes, FutexInv, FutexSafe, FutexTypeOK
<1>4. ASSUME NEW j \in Keys, Before(queue'[j], u, t) PROVE FALSE
  <2>1. Before(queue[j], u, t)
    BY <1>1, <1>3, <1>4, WithoutBefore
  <2> QED BY <1>2, <2>1, InOrder
<1>5. ASSUME t \in Range(queue'[k]), u \notin Range(queue'[k]) PROVE FALSE
  <2>1. t \in Range(queue[k]) /\ u \in Range(queue[k])
    BY <1>2, InOrder
  <2>2. k = i
    BY <1>3, <1>5, <2>1
  <2>3. Range(queue'[k]) = Range(queue[k]) \ S
    BY <1>1, <1>3, <2>2, WithoutProperties
  <2>4. u \in S /\ t \notin S
    BY <1>5, <2>1, <2>3
  <2> QED BY <1>2, <2>2, <2>4
<1> QED BY <1>4, <1>5 DEF Overtakes

(* FUTEX_WAKE: the first of those whose bitset meets the caller's.         *)
LEMMA WakeInOrder ==
  ASSUME FutexInv, NEW i \in Keys, NEW n \in Nat, NEW bitset, Wake(i, n, bitset),
         NEW k \in Keys, NEW t \in FutexThreads, NEW u \in FutexThreads
  PROVE  ~Overtakes(k, t, u)
<1>1. queue[i] \in Seq(FutexThreads) /\ IsInjective(queue[i])
  BY DEF FutexInv, FutexSafe, FutexTypeOK, SleeperIsQueued
<1>2. PICK D : D = {x \in FutexThreads : wait[x].bitset \cap bitset = {}}
  OBVIOUS
<1>3. PICK w : w = Without(queue[i], D)
  OBVIOUS
<1>4. w \in Seq(FutexThreads) /\ IsInjective(w) /\ Range(w) = Range(queue[i]) \ D
  BY <1>1, <1>3, WithoutProperties, WithoutInjective
<1>5. PICK S : S = FirstOf(w, n)
  OBVIOUS
<1>6. Wakes(i, S)
  BY <1>2, <1>3, <1>5 DEF Wake, Wakes, Matching
<1>7. ASSUME NEW x \in FutexThreads, NEW y \in FutexThreads,
             Before(queue[i], x, y), wait[x].bitset = wait[y].bitset, y \in S
      PROVE  x \in S
  <2>1. y \in Range(w)
    BY <1>4, <1>5, <1>7, FirstOfProperties
  <2>2. y \notin D /\ x \notin D
    BY <1>2, <1>4, <1>7, <2>1
  <2>3. Before(w, x, y)
    BY <1>1, <1>3, <1>7, <2>2, WithoutBefore
  <2> QED BY <1>4, <1>5, <1>7, <2>3, FirstOfProperties
<1> QED BY <1>6, <1>7, WakesInOrder

(* FUTEX_REQUEUE without memory for the second futex.                      *)
LEMMA RequeueFailsInOrder ==
  ASSUME FutexInv, NEW i \in Keys, NEW to \in Keys, NEW n \in Nat, RequeueFails(i, to, n),
         NEW k \in Keys, NEW t \in FutexThreads, NEW u \in FutexThreads
  PROVE  ~Overtakes(k, t, u)
<1>1. queue[i] \in Seq(FutexThreads) /\ IsInjective(queue[i])
  BY DEF FutexInv, FutexSafe, FutexTypeOK, SleeperIsQueued
<1>2. PICK S : S = FirstOf(queue[i], n)
  OBVIOUS
<1>3. Wakes(i, S)
  BY <1>2 DEF RequeueFails, Wakes
<1>4. \A x, y : Before(queue[i], x, y) /\ y \in S => x \in S
  BY <1>1, <1>2, FirstOfProperties
<1> QED BY <1>3, <1>4, WakesInOrder

(* FUTEX_REQUEUE: those it moves are the next after those it wakes.        *)
LEMMA RequeueInOrder ==
  ASSUME FutexInv, NEW i \in Keys, NEW to \in Keys, NEW n \in Nat, NEW r \in Nat,
         Requeue(i, to, n, r),
         NEW k \in Keys, NEW t \in FutexThreads, NEW u \in FutexThreads
  PROVE  ~Overtakes(k, t, u)
<1> SUFFICES ASSUME Overtakes(k, t, u) PROVE FALSE
  OBVIOUS
<1>1. \A j \in Keys : queue[j] \in Seq(FutexThreads) /\ IsInjective(queue[j])
  BY DEF FutexInv, FutexSafe, FutexTypeOK, SleeperIsQueued
<1>2. Before(queue[k], t, u)
  BY DEF Overtakes
<1>3. PICK S : S = FirstOf(queue[i], n)
  OBVIOUS
<1>4. PICK rest : rest = Without(queue[i], S)
  OBVIOUS
<1>5. PICK m : m = IF r < Len(rest) THEN r ELSE Len(rest)
  OBVIOUS
<1>6. PICK moved : moved = SubSeq(rest, 1, m)
  OBVIOUS
<1>7. PICK left : left = SubSeq(rest, m + 1, Len(rest))
  OBVIOUS
<1>8. i # to /\ queue' = [queue EXCEPT ![i] = left, ![to] = queue[to] \o moved]
  BY <1>3, <1>4, <1>5, <1>6, <1>7 DEF Requeue, MoveToTail
<1>9. rest \in Seq(FutexThreads) /\ IsInjective(rest) /\ Range(rest) = Range(queue[i]) \ S
  BY <1>1, <1>4, WithoutProperties, WithoutInjective
<1>10. m \in 0 .. Len(rest)
  BY <1>5, <1>9, LenProperties
<1>11. /\ moved \in Seq(FutexThreads) /\ IsInjective(moved)
       /\ left \in Seq(FutexThreads) /\ IsInjective(left)
       /\ Range(moved) \cup Range(left) = Range(rest) /\ Range(moved) \cap Range(left) = {}
  BY <1>6, <1>7, <1>9, <1>10, Split
<1>12. /\ \A x, y : Before(moved, x, y) \/ Before(left, x, y) => Before(rest, x, y)
       /\ \A x, y : Before(rest, x, y) /\ y \in Range(moved) => x \in Range(moved)
  BY <1>6, <1>7, <1>9, <1>10, SplitBefore
<1>13. \A x, y : Before(rest, x, y) => Before(queue[i], x, y)
  BY <1>1, <1>4, WithoutBefore
<1>14. \A x \in Range(moved) : x \in Range(queue[i]) /\ x \notin Range(queue[to])
  BY <1>8, <1>9, <1>11, OneQueue
<1>15. \A j \in Keys : queue'[j] = IF j = i THEN left
                                   ELSE IF j = to THEN queue[to] \o moved ELSE queue[j]
  BY <1>8 DEF FutexInv, FutexSafe, FutexTypeOK
<1>16. Range(queue[to]) \cap Range(moved) = {}
  BY <1>14
<1>17. /\ Range(queue[to] \o moved) = Range(queue[to]) \cup Range(moved)
       /\ \A x, y : Before(queue[to] \o moved, x, y) =>
            \/ Before(queue[to], x, y) \/ Before(moved, x, y)
            \/ x \in Range(queue[to]) /\ y \in Range(moved)
  BY <1>1, <1>11, <1>16, Joined
<1>18. t \in Range(queue[k]) /\ u \in Range(queue[k]) /\ \A j \in Keys : ~Before(queue[j], u, t)
  BY <1>2, InOrder
<1>19. ASSUME NEW j \in Keys, Before(queue'[j], u, t) PROVE FALSE
  <2>1. CASE j = i
    BY <1>12, <1>13, <1>15, <1>18, <1>19, <2>1
  <2>2. CASE j # i /\ j = to
    <3>1. u \in Range(queue[to]) /\ t \in Range(moved)
      BY <1>12, <1>13, <1>15, <1>17, <1>18, <1>19, <2>2
    <3>2. k = to
      BY <1>18, <3>1, OneQueue
    <3> QED BY <1>14, <1>18, <3>1, <3>2
  <2>3. CASE j # i /\ j # to
    BY <1>15, <1>18, <1>19, <2>3
  <2> QED BY <2>1, <2>2, <2>3
<1>20. ASSUME t \in Range(queue'[k]), u \notin Range(queue'[k]) PROVE FALSE
  <2>1. k = i
    BY <1>15, <1>17, <1>18, <1>20
  <2>2. t \in Range(left) /\ u \notin Range(left)
    BY <1>15, <1>20, <2>1
  <2>3. t \notin S /\ t \notin Range(moved)
    BY <1>9, <1>11, <2>2
  <2>4. u \in S \/ u \in Range(moved)
    BY <1>9, <1>11, <1>18, <2>1, <2>2
  <2>5. u \notin S
    BY <1>1, <1>2, <1>3, <2>1, <2>3, FirstOfProperties
  <2>6. Before(rest, t, u)
    BY <1>1, <1>2, <1>4, <2>1, <2>3, <2>5, WithoutBefore
  <2> QED BY <1>12, <2>3, <2>4, <2>5, <2>6
<1> QED BY <1>19, <1>20 DEF Overtakes

(* A thread that queues is last, one that leaves is awake.                 *)
LEMMA WaitsInOrder ==
  ASSUME FutexInv, NEW x \in FutexThreads,
         WaitEnds(x) \/ \E i \in Keys, val \in {0, 1}, bitset \in Bitsets : WaitBegins(x, i, val, bitset),
         NEW k \in Keys, NEW t \in FutexThreads, NEW u \in FutexThreads
  PROVE  ~Overtakes(k, t, u)
<1> SUFFICES ASSUME Overtakes(k, t, u) PROVE FALSE
  OBVIOUS
<1>1. \A j \in Keys : queue[j] \in Seq(FutexThreads) /\ IsInjective(queue[j])
  BY DEF FutexInv, FutexSafe, FutexTypeOK, SleeperIsQueued
<1>2. Before(queue[k], t, u) /\ at[u] = "asleep" /\ at[t] = "asleep"
  BY DEF Overtakes
<1>3. t \in Range(queue[k]) /\ u \in Range(queue[k]) /\ \A j \in Keys : ~Before(queue[j], u, t)
  BY <1>2, InOrder
<1>4. CASE WaitEnds(x)
  <2>1. PICK i \in Keys : i = wait[x].futex
    BY <1>4 DEF WaitEnds, FutexInv, FutexSafe, FutexTypeOK
  <2>2. \A j \in Keys : queue'[j] = IF j = i THEN Without(queue[i], {x}) ELSE queue[j]
    BY <1>4, <2>1 DEF WaitEnds, Release, FutexInv, FutexSafe, FutexTypeOK
  <2>3. u # x
    BY <1>2, <1>4 DEF WaitEnds
  <2>4. Range(Without(queue[i], {x})) = Range(queue[i]) \ {x}
    BY <1>1, WithoutProperties
  <2>5. \A j \in Keys : ~Before(queue'[j], u, t)
    BY <1>1, <1>3, <2>2, WithoutBefore
  <2> QED BY <1>3, <2>2, <2>3, <2>4, <2>5 DEF Overtakes
<1>5. ASSUME NEW i \in Keys, NEW val \in {0, 1}, NEW bitset \in Bitsets, WaitBegins(x, i, val, bitset)
      PROVE  FALSE
  <2>1. \A j \in Keys : queue'[j] = IF j = i THEN Append(queue[i], x) ELSE queue[j]
    BY <1>5 DEF WaitBegins, FutexInv, FutexSafe, FutexTypeOK
  <2>2. t # x
    BY <1>2, <1>5 DEF WaitBegins
  <2>3. x \notin Range(queue[i])
    <3>1. wait[x].futex = NoKey
      BY <1>5 DEF WaitBegins, FutexInv, FutexSafe, FutexTypeOK
    <3>2. \A y \in Range(queue[i]) : wait[y].futex = i
      BY DEF FutexInv, FutexSafe, SleeperIsQueued, Referring
    <3> QED BY <3>1, <3>2, FutexAssumption
  <2>4. /\ Range(Append(queue[i], x)) = Range(queue[i]) \cup {x}
        /\ \A a, b : Before(Append(queue[i], x), a, b) => Before(queue[i], a, b) \/ b = x
    BY <1>1, <2>3, Appended
  <2>5. \A j \in Keys : ~Before(queue'[j], u, t)
    BY <1>3, <2>1, <2>2, <2>4
  <2> QED BY <1>3, <2>1, <2>4, <2>5 DEF Overtakes
<1> QED BY <1>4, <1>5

(* No step lets a waiter overtake another.                                 *)
LEMMA NobodyOvertakes ==
  ASSUME FutexInv, [FutexNext]_futexVars, NEW k \in Keys, NEW t \in FutexThreads, NEW u \in FutexThreads
  PROVE  ~Overtakes(k, t, u)
<1>0. 0 .. MaxCount \subseteq Nat
  BY FutexAssumption
<1>1. CASE queue' = queue
  <2> SUFFICES ASSUME Overtakes(k, t, u) PROVE FALSE
    OBVIOUS
  <2>1. u \in Range(queue[k]) /\ \A j \in Keys : ~Before(queue[j], u, t)
    BY InOrder DEF Overtakes
  <2> QED BY <1>1, <2>1 DEF Overtakes
<1>2. CASE queue' # queue
  <2>1. /\ ~UNCHANGED futexVars
        /\ \A x \in FutexThreads : ~WaitFails(x) /\ ~WaitExpires(x)
        /\ \A i \in Keys : ~StoreWord(i)
    BY <1>2 DEF futexVars, WaitFails, WaitExpires, StoreWord
  <2> QED BY <1>0, <2>1, WaitsInOrder, WakeInOrder, RequeueFailsInOrder, RequeueInOrder DEF FutexNext
<1> QED BY <1>1, <1>2

(* Waiters of a futex are woken and moved in the order they came           *)
(* (list_add_tail and the loops of futex_wakelike).                        *)
THEOREM ServedInOrder == FutexSpec => FirstComeFirstServed
<1>1. FutexInv /\ [FutexNext]_futexVars =>
        [\A k \in Keys, t, u \in FutexThreads : ~Overtakes(k, t, u)]_futexVars
  BY NobodyOvertakes
<1> QED BY <1>1, FutexInitInv, FutexStep, PTL DEF FutexSpec, FirstComeFirstServed
=============================================================================
