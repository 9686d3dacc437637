------------------------------- MODULE Futex -------------------------------
(***************************************************************************)
(* kernel/futex.c: waiting for a guest word to change.  A futex object     *)
(* exists while something refers to it; its queue holds the waiters in the *)
(* order they came.  futex_lock is held from futex_get to futex_put, and   *)
(* released only inside wait_for, so a call is one action up to the sleep  *)
(* and one from the wakeup on.                                             *)
(*                                                                         *)
(* A futex is found by its key, the pair (mem, addr).  Words take the      *)
(* values 0 and 1; a bitset is a non-empty set of bits.                    *)
(***************************************************************************)
EXTENDS Naturals, Sequences, FiniteSets, FiniteSetsExt, SequencesExt

CONSTANTS
  FutexThreads,
  Keys,        \* futex keys
  Bitsets,     \* the bitsets callers use, each a non-empty set of bits
  MaxCount     \* bound on wake_max and requeue_max

NoKey == "none"

ASSUME FutexAssumption ==
  /\ IsFiniteSet(FutexThreads) /\ MaxCount \in Nat /\ {} \notin Bitsets
  /\ NoKey \notin Keys

VARIABLES
  word,        \* the guest word at each key
  queue,       \* futex->queue: threads in FIFO order
  refcount,    \* futex->refcount; 0: no object for this key in futex_hash
  at,          \* where each thread is
  wait,        \* each thread's struct futex_wait: futex, bitset
  expected,    \* ghost: the value the thread compared the word with
  owed         \* ghost: the word changed and no full wake has followed

futexVars == <<word, queue, refcount, at, wait, expected, owed>>

NoWait == [futex |-> NoKey, bitset |-> {}]
Anything == 2     \* a requeued thread expects no value at its new key

FutexInit ==
  /\ word = [k \in Keys |-> 0]
  /\ queue = [k \in Keys |-> <<>>]
  /\ refcount = [k \in Keys |-> 0]
  /\ at = [t \in FutexThreads |-> "user"]
  /\ wait = [t \in FutexThreads |-> NoWait]
  /\ expected = [t \in FutexThreads |-> Anything]
  /\ owed = [k \in Keys |-> FALSE]

(* A list after list_remove of every element that is in S.                 *)
Without(seq, S) ==
  LET kept[i \in 0 .. Len(seq)] ==
        IF i = 0 THEN <<>>
        ELSE IF seq[i] \in S THEN kept[i - 1] ELSE Append(kept[i - 1], seq[i])
  IN  kept[Len(seq)]

---------------------------------------------------------------------------
(* futex_wait *)

(* Mutant: the word is not compared before the thread queues.              *)
CompareNothing(k, val) == TRUE

(* futex_load and the comparison, under futex_lock.                        *)
WordMatches(k, val) == word[k] = val

(* futex_get fails only when it must allocate a new object.                *)
CannotAllocate(k) == refcount[k] = 0

(* futex_wait returns at once: _ENOMEM, an unreadable word (_EFAULT), a    *)
(* word that differs (_EAGAIN), or a signal pending when wait_for looks    *)
(* (_EINTR, possible at any time).  What futex_get and the queue got is    *)
(* given back, so that nothing changes.                                    *)
WaitFails(t) ==
  /\ at[t] = "user"
  /\ UNCHANGED futexVars

(* The thread takes a reference, queues itself and sleeps in wait_for.     *)
WaitBegins(t, k, val, bitset) ==
  /\ at[t] = "user"
  /\ WordMatches(k, val)
  /\ refcount' = [refcount EXCEPT ![k] = @ + 1]
  /\ queue' = [queue EXCEPT ![k] = Append(@, t)]
  /\ wait' = [wait EXCEPT ![t] = [futex |-> k, bitset |-> bitset]]
  /\ expected' = [expected EXCEPT ![t] = val]
  /\ at' = [at EXCEPT ![t] = "asleep"]
  /\ UNCHANGED <<word, owed>>

(* The sleep ends without a wake: the deadline of a timed wait passed, a   *)
(* signal came (see WaitFor) or pthread_cond_wait returned for no reason.  *)
(* The thread is still on its queue.                                       *)
WaitExpires(t) ==
  /\ at[t] = "asleep"
  /\ at' = [at EXCEPT ![t] = "woken"]
  /\ UNCHANGED <<word, queue, refcount, wait, expected, owed>>

(* Mutant: list_remove_safe is missing: the waiter's record, which lives   *)
(* on its stack, stays linked.                                             *)
StayQueued(k, t) ==
  /\ queue' = queue
  /\ refcount' = [refcount EXCEPT ![k] = @ - 1]

(* futex = wait.futex; list_remove_safe; futex_put: the thread leaves the  *)
(* queue it is on, if it is still on one, and drops its reference.         *)
Release(k, t) ==
  /\ queue' = [queue EXCEPT ![k] = Without(@, {t})]
  /\ refcount' = [refcount EXCEPT ![k] = @ - 1]

(* The thread has futex_lock again and returns.  wait_for's result is      *)
(* _ETIMEDOUT, _EINTR or 0, even when a wake has taken it off the queue.   *)
WaitEnds(t) ==
  /\ at[t] = "woken"
  /\ Release(wait[t].futex, t)
  /\ at' = [at EXCEPT ![t] = "user"]
  /\ wait' = [wait EXCEPT ![t] = NoWait]
  /\ expected' = [expected EXCEPT ![t] = Anything]
  /\ UNCHANGED <<word, owed>>

---------------------------------------------------------------------------
(* futex_wakelike *)

(* The waiters at k that the first loop wakes: the first wake_max whose    *)
(* bitset meets the caller's.                                              *)
Matching(k, bitset) ==
  Without(queue[k], {t \in FutexThreads : wait[t].bitset \cap bitset = {}})
FirstOf(seq, n) == Range(SubSeq(seq, 1, IF n < Len(seq) THEN n ELSE Len(seq)))

(* notify(&wait->cond) for each of them.                                   *)
Awaken(S) ==
  at' = [t \in FutexThreads |-> IF t \in S /\ at[t] = "asleep" THEN "woken" ELSE at[t]]

(* A wake of every waiter settles what a store to the word owes.           *)
Settle(k, S) ==
  owed' = [owed EXCEPT ![k] = @ /\ ~(Range(queue[k]) \subseteq S)]

Wake(k, wake_max, bitset) ==
  LET S == FirstOf(Matching(k, bitset), wake_max) IN
  /\ Awaken(S)
  /\ queue' = [queue EXCEPT ![k] = Without(@, S)]
  /\ Settle(k, S)
  /\ UNCHANGED <<word, refcount, wait, expected>>

(* Mutant: list_add in place of list_add_tail.                             *)
MoveToHead(q, moved) == Reverse(moved) \o q

(* The moved waiters go, one by one, to the tail of the other queue.       *)
MoveToTail(q, moved) == q \o moved

(* Mutant: the moved waiters keep pointing at the futex they came from.    *)
MoveQueueOnly(from, to, moved) ==
  /\ refcount' = [refcount EXCEPT ![from] = @ - Len(moved), ![to] = @ + Len(moved)]
  /\ UNCHANGED wait

(* The bookkeeping of the second loop for each waiter it moves: its        *)
(* reference goes with it, and wait->futex is changed.                     *)
MoveReferences(from, to, moved) ==
  /\ refcount' = [refcount EXCEPT ![from] = @ - Len(moved), ![to] = @ + Len(moved)]
  /\ wait' = [t \in FutexThreads |-> IF t \in Range(moved)
                                  THEN [wait[t] EXCEPT !.futex = to] ELSE wait[t]]

(* FUTEX_REQUEUE: wake wake_max, then move requeue_max of the rest to the  *)
(* tail of another futex.  (Requeuing a futex to itself only rotates its   *)
(* queue and is left out.)                                                 *)
Requeue(k, to, wake_max, requeue_max) ==
  LET S == FirstOf(queue[k], wake_max)
      rest == Without(queue[k], S)
      n == IF requeue_max < Len(rest) THEN requeue_max ELSE Len(rest)
      moved == SubSeq(rest, 1, n)
  IN
  /\ k # to
  /\ Awaken(S)
  /\ queue' = [queue EXCEPT ![k] = SubSeq(rest, n + 1, Len(rest)),
                            ![to] = MoveToTail(@, moved)]
  /\ MoveReferences(k, to, moved)
  /\ expected' = [t \in FutexThreads |-> IF t \in Range(moved) THEN Anything
                                                         ELSE expected[t]]
  /\ Settle(k, S)
  /\ UNCHANGED word

(* The second futex cannot be allocated: _ENOMEM after the wakes, which    *)
(* stand.                                                                  *)
RequeueFails(k, to, wake_max) ==
  LET S == FirstOf(queue[k], wake_max) IN
  /\ k # to /\ CannotAllocate(to)
  /\ Awaken(S)
  /\ queue' = [queue EXCEPT ![k] = Without(@, S)]
  /\ Settle(k, S)
  /\ UNCHANGED <<word, refcount, wait, expected>>

---------------------------------------------------------------------------
(* The rest of the guest. *)

(* Another thread stores to the word without any kernel lock.              *)
StoreWord(k) ==
  /\ word' = [word EXCEPT ![k] = 1 - @]
  /\ owed' = [owed EXCEPT ![k] = TRUE]
  /\ UNCHANGED <<queue, refcount, at, wait, expected>>

FutexNext ==
  \/ \E t \in FutexThreads :
       \/ \E k \in Keys, val \in {0, 1} :
            \E bitset \in Bitsets : WaitBegins(t, k, val, bitset)
       \/ WaitFails(t) \/ WaitExpires(t) \/ WaitEnds(t)
  \/ \E k \in Keys :
       \/ StoreWord(k)
       \/ \E n \in 0 .. MaxCount :
            \/ \E bitset \in Bitsets : Wake(k, n, bitset)
            \/ \E to \in Keys :
                 \/ RequeueFails(k, to, n)
                 \/ \E r \in 0 .. MaxCount : Requeue(k, to, n, r)

FutexSpec == FutexInit /\ [][FutexNext]_futexVars

---------------------------------------------------------------------------
Waiting == {t \in FutexThreads : at[t] # "user"}
Referring(k) == {t \in FutexThreads : wait[t].futex = k}

(* The variables have their types.                                         *)
FutexTypeOK ==
  /\ word \in [Keys -> {0, 1}]
  /\ queue \in [Keys -> Seq(FutexThreads)]
  /\ refcount \in [Keys -> Nat]
  /\ at \in [FutexThreads -> {"user", "asleep", "woken"}]
  /\ \A t \in FutexThreads :
       wait[t].futex \in IF at[t] = "user" THEN {NoKey} ELSE Keys

(* A futex object lives exactly as long as some call refers to it: its     *)
(* count is the number of waiters whose wait->futex it is, whether they    *)
(* are still queued or not, through every requeue.  So futex_put frees no  *)
(* futex in use (the assert in futex_put_unlocked) and leaks none, and the *)
(* requeue loop's assert(refcount > 1) holds.                              *)
FutexRefcount == \A k \in Keys : refcount[k] = Cardinality(Referring(k))

(* A thread that sleeps is on exactly one queue, once, and that is the     *)
(* queue of wait->futex: one that a wake took off a queue has been woken,  *)
(* and a requeued one can be found by wakes at its new key.                *)
SleeperIsQueued ==
  /\ \A t \in FutexThreads : at[t] = "asleep" => t \in Range(queue[wait[t].futex])
  /\ \A k \in Keys : /\ IsInjective(queue[k])
                     /\ Range(queue[k]) \subseteq Referring(k)

(* The promise futexes exist for: a thread that still sleeps on a word     *)
(* which no longer has the value it expected will be woken by a wake that  *)
(* is still owed; it cannot have gone to sleep after the wake it needs.    *)
NoMissedWake ==
  \A k \in Keys, t \in FutexThreads :
    /\ at[t] = "asleep" /\ wait[t].futex = k
    /\ expected[t] \notin {Anything, word[k]}
    => owed[k]

(* What kernel/futex.c keeps through every interleaving of waits, wakes,   *)
(* requeues, timeouts and stores: FutexRefcount, SleeperIsQueued and       *)
(* NoMissedWake.                                                           *)
FutexSafe == FutexTypeOK /\ FutexRefcount /\ SleeperIsQueued /\ NoMissedWake

(* Waiters are served in the order they came, through requeues too: of two *)
(* in one queue with equal bitsets the later one is neither woken nor      *)
(* moved while the earlier one stays, and moving keeps their order.        *)
Before(q, t, u) == \E i, j \in DOMAIN q : i < j /\ q[i] = t /\ q[j] = u
Overtakes(k, t, u) ==
  /\ Before(queue[k], t, u) /\ wait[t].bitset = wait[u].bitset
  /\ at[t] = "asleep" /\ at[u] = "asleep"
  /\ \/ t \in Range(queue'[k]) /\ u \notin Range(queue'[k])
     \/ \E j \in Keys : Before(queue'[j], u, t)
FirstComeFirstServed ==
  [][\A k \in Keys, t, u \in FutexThreads : ~Overtakes(k, t, u)]_futexVars
=============================================================================
