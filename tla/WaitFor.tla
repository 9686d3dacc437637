------------------------------ MODULE WaitFor ------------------------------
(***************************************************************************)
(* The handshake between a guest task that sleeps in wait_for (util/sync.c)*)
(* and the tasks that deliver signals to it (deliver_signal_unlocked in    *)
(* kernel/signal.c).  The task waits for `ready` on a condition variable   *)
(* under a lock; a signal must end the wait with EINTR.                    *)
(*                                                                         *)
(* The lock is one of two kinds.  For sigsuspend, pause and sigtimedwait   *)
(* it is the task's own sighand lock, which is_signal_pending then does    *)
(* not take again; for all the other waits (futexes, pipes, terminals,     *)
(* eventfds, wait4...) it is some other lock.                              *)
(***************************************************************************)
EXTENDS Naturals

CONSTANTS
  Senders,  \* tasks that send the waiting task a signal
  Holders,  \* those of them that hold the "other" lock while they send
  Locks,    \* the kinds of lock the task waits under
  Timed     \* whether the waits have a timeout

Nobody == "nobody"
Waiter == "waiter"

ASSUME HoldersAreSenders == Holders \subseteq Senders
ASSUME SendersAreOthers == Nobody \notin Senders /\ Waiter \notin Senders
ASSUME SomeLocks == Locks # {} /\ Locks \subseteq {"sighand", "other"}

VARIABLES
  ready,           \* what the task waits for, protected by waiting_lock
  pending,         \* current->pending & ~current->blocked is not empty
  published,       \* current->waiting_cond # NULL
  kind,            \* which lock is waiting_lock in the task's last call
  lock,            \* who holds each lock
  cond_lock,       \* who holds current->waiting_cond_lock
  pc,              \* where the waiting task is
  sender           \* where each sender is

vars == <<ready, pending, published, kind, lock, cond_lock, pc, sender>>

Init ==
  /\ ready = FALSE /\ pending = FALSE /\ published = FALSE
  /\ kind \in Locks
  /\ lock = [l \in {"sighand", "other"} |-> Nobody] /\ cond_lock = Nobody
  /\ pc = "user"
  /\ sender = [s \in Senders |-> "idle"]

(* `pending` is protected by the sighand lock, which only the waiting task *)
(* holds for longer than a step.                                           *)
SighandFree == lock["sighand"] = Nobody

Unlock == lock' = [lock EXCEPT ![kind] = Nobody]

---------------------------------------------------------------------------
(* The waiting task.                                                       *)

Goto(from, to) == pc = from /\ pc' = to

(* A system call takes the lock and tests its condition in a loop, the way *)
(* every caller of wait_for does.                                          *)
EnterCall ==
  /\ Goto("user", "test")
  /\ kind' \in Locks
  /\ lock[kind'] = Nobody
  /\ lock' = [lock EXCEPT ![kind'] = Waiter]
  /\ UNCHANGED <<ready, pending, published, cond_lock, sender>>

(* The condition holds: the call succeeds and consumes it.                 *)
ConditionMet ==
  /\ Goto("test", "user")
  /\ ready
  /\ ready' = FALSE
  /\ Unlock
  /\ UNCHANGED <<pending, published, kind, cond_lock, sender>>

(* It does not: wait_for looks for a signal first (is_signal_pending).     *)
FirstCheck ==
  /\ pc = "test" /\ ~ready
  /\ IF pending THEN pc' = "user" /\ Unlock      \* _EINTR
                ELSE pc' = "checked" /\ UNCHANGED lock
  /\ UNCHANGED <<ready, pending, published, kind, cond_lock, sender>>

(* Mutant: the condition is never published.                               *)
PublishNothing ==
  /\ Goto("checked", "published")
  /\ UNCHANGED <<ready, pending, published, kind, lock, cond_lock, sender>>

(* wait_for_ignore_signals publishes the condition variable and the lock.  *)
Publish ==
  /\ Goto("checked", "published")
  /\ cond_lock = Nobody
  /\ published' = TRUE
  /\ UNCHANGED <<ready, pending, kind, lock, cond_lock, sender>>

(* pthread_cond_wait: release the lock and sleep, atomically.              *)
Sleep ==
  /\ Goto("published", "asleep")
  /\ Unlock
  /\ UNCHANGED <<ready, pending, published, kind, cond_lock, sender>>

(* A broadcast; nothing happens when nobody sleeps on the condition.       *)
Notified == pc' = IF pc = "asleep" THEN "woken" ELSE pc

(* The timeout of pthread_cond_timedwait, or a spurious wakeup.            *)
Timeout ==
  /\ Timed
  /\ Goto("asleep", "timed_out")
  /\ UNCHANGED <<ready, pending, published, kind, lock, cond_lock, sender>>
SpuriousWakeup ==
  /\ Goto("asleep", "woken")
  /\ UNCHANGED <<ready, pending, published, kind, lock, cond_lock, sender>>

(* pthread_cond_wait takes the lock back before it returns.                *)
Relock ==
  /\ \/ Goto("woken", "relocked")
     \/ Goto("timed_out", "relocked_late")
  /\ lock[kind] = Nobody
  /\ lock' = [lock EXCEPT ![kind] = Waiter]
  /\ UNCHANGED <<ready, pending, published, kind, cond_lock, sender>>

(* waiting_cond is cleared; a timeout is reported without looking for a    *)
(* signal (_ETIMEDOUT), otherwise the second is_signal_pending decides.    *)
Unpublish ==
  /\ cond_lock = Nobody
  /\ published' = FALSE
  /\ \/ Goto("relocked", "second_check") /\ UNCHANGED lock
     \/ Goto("relocked_late", "user") /\ Unlock
  /\ UNCHANGED <<ready, pending, kind, cond_lock, sender>>

SecondCheck ==
  /\ pc = "second_check"
  /\ IF pending THEN pc' = "user" /\ Unlock      \* _EINTR
                ELSE pc' = "test" /\ UNCHANGED lock
  /\ UNCHANGED <<ready, pending, published, kind, cond_lock, sender>>

(* Back in handle_interrupt, receive_signals takes the signal.             *)
TakeSignal ==
  /\ pc = "user" /\ pending
  /\ SighandFree
  /\ pending' = FALSE
  /\ UNCHANGED <<ready, published, kind, lock, cond_lock, pc, sender>>

---------------------------------------------------------------------------
(* Everyone else.                                                          *)

(* Mutant: the flag is set without telling the sleeper.                    *)
SetQuietly ==
  /\ lock[kind] = Nobody /\ ~ready
  /\ ready' = TRUE
  /\ UNCHANGED <<pending, published, kind, lock, cond_lock, pc, sender>>

(* The condition becomes true: lock, assign, notify, unlock.               *)
MakeReady ==
  /\ lock[kind] = Nobody /\ ~ready
  /\ ready' = TRUE
  /\ Notified
  /\ UNCHANGED <<pending, published, kind, lock, cond_lock, sender>>

Step(s, from, to) ==
  /\ sender[s] = from
  /\ sender' = [sender EXCEPT ![s] = to]

(* A sender that works under waiting_lock takes it first: an exiting child *)
(* sends SIGCHLD with pids_lock held, the lock its parent waits under.     *)
TakeWaitingLock(s) ==
  /\ s \in Holders
  /\ Step(s, "idle", "holding")
  /\ lock["other"] = Nobody
  /\ lock' = [lock EXCEPT !["other"] = s]
  /\ UNCHANGED <<ready, pending, published, kind, cond_lock, pc>>

(* deliver_signal_unlocked under the sighand lock: a signal that is        *)
(* already pending needs nothing more; otherwise the bit is set and the    *)
(* sighand lock is dropped.                                                *)
SetPending(s) ==
  /\ sender[s] = IF s \in Holders THEN "holding" ELSE "idle"
  /\ SighandFree
  /\ pending' = TRUE
  /\ sender' = [sender EXCEPT ![s] = IF pending THEN "done" ELSE "retry"]
  /\ UNCHANGED <<ready, published, kind, lock, cond_lock, pc>>

LockCond(s) ==
  /\ Step(s, "retry", "look")
  /\ cond_lock = Nobody
  /\ cond_lock' = s
  /\ UNCHANGED <<ready, pending, published, kind, lock, pc>>

(* Mutant: lock(task->waiting_lock) instead of trylock: no way back.       *)
WaitForTheLock(s) == FALSE

(* trylock fails on a lock somebody else holds: drop waiting_cond_lock and *)
(* start over, because the task may need it to make progress.              *)
Retry(s) ==
  /\ Step(s, "look", "retry")
  /\ published
  /\ lock[kind] \notin {Nobody, s}
  /\ cond_lock' = Nobody
  /\ UNCHANGED <<ready, pending, published, kind, lock, pc>>

(* The lock was free (taken, and released again) or is the sender's own:   *)
(* notify.  With no condition published there is nobody to notify.         *)
Look(s) ==
  /\ Step(s, "look", "done")
  /\ published => lock[kind] \in {Nobody, s}
  /\ IF published THEN Notified ELSE UNCHANGED pc
  /\ cond_lock' = Nobody
  /\ UNCHANGED <<ready, pending, published, kind, lock>>

(* The sender takes the sighand lock again and returns; a Holder lets go   *)
(* of its lock.                                                            *)
Return(s) ==
  /\ Step(s, "done", "idle")
  /\ SighandFree
  /\ lock' = [l \in DOMAIN lock |-> IF lock[l] = s THEN Nobody ELSE lock[l]]
  /\ UNCHANGED <<ready, pending, published, kind, cond_lock, pc>>

WaiterNext ==
  \/ EnterCall \/ ConditionMet \/ FirstCheck \/ Publish \/ Sleep
  \/ Timeout \/ SpuriousWakeup \/ Relock \/ Unpublish \/ SecondCheck
  \/ TakeSignal

SenderNext(s) ==
  \/ TakeWaitingLock(s) \/ SetPending(s) \/ LockCond(s) \/ Retry(s)
  \/ Look(s) \/ Return(s)

Next == WaiterNext \/ MakeReady \/ \E s \in Senders : SenderNext(s)

(* A thread that is not blocked keeps running, and one that asks for a     *)
(* mutex which is free again and again eventually gets it.  A sleeper has  *)
(* no fairness: only a wakeup ends the sleep.  Nor has a sender a right to *)
(* find the lock free whenever it tries: Look is fair, its guard is not.   *)
Fairness ==
  /\ SF_vars(ConditionMet \/ FirstCheck \/ Publish \/ Sleep \/ Relock
             \/ Unpublish \/ SecondCheck)
  /\ SF_vars(TakeSignal)
  /\ \A s \in Senders :
       /\ SF_vars(LockCond(s))
       /\ SF_vars(Look(s))
       /\ WF_vars(Retry(s))
       /\ WF_vars(s \in Holders /\ SetPending(s))
       /\ SF_vars(Return(s))

Spec == Init /\ [][Next]_vars
FairSpec == Spec /\ Fairness

---------------------------------------------------------------------------
(* The two locks are held, and the condition is published, exactly where   *)
(* the code does so.                                                       *)
WaiterHolds == {"test", "checked", "published", "relocked", "relocked_late",
                "second_check"}
LocksHeld ==
  /\ lock[kind] = Waiter <=> pc \in WaiterHolds
  /\ \A l \in DOMAIN lock : l # kind => lock[l] # Waiter
  /\ lock["sighand"] \in {Nobody, Waiter}
  /\ \A s \in Senders : cond_lock = s <=> sender[s] = "look"
  /\ published <=> pc \in {"published", "asleep", "woken", "timed_out",
                           "relocked", "relocked_late"}

(* The types of the variables, and who holds what where.                   *)
TypeOK ==
  /\ LocksHeld
  /\ ready \in BOOLEAN /\ pending \in BOOLEAN /\ published \in BOOLEAN
  /\ kind \in Locks
  /\ lock \in [{"sighand", "other"} -> Senders \cup {Nobody, Waiter}]
  /\ cond_lock \in Senders \cup {Nobody}
  /\ pc \in {"user", "test", "checked", "published", "asleep", "woken",
             "timed_out", "relocked", "relocked_late", "second_check"}
  /\ sender \in [Senders -> {"idle", "holding", "retry", "look", "done"}]

(* The condition variable itself never loses a wakeup: the task does not   *)
(* sleep once what it waits for has happened.                              *)
NoLostNotify == ~(pc = "asleep" /\ ready)

(* A task that waits under its own sighand lock does not stay asleep with  *)
(* a signal pending unless a sender is still on its way to wake it.        *)
Awakened == pending => \E s \in Senders : sender[s] \in {"retry", "look"}
SignalWakesWaiter == pc = "asleep" /\ kind = "sighand" => Awakened

(* The same whatever the lock: what the comment at the end of util/sync.c  *)
(* expects of wait_for ("*should* be safe from this race").                *)
SignalWakesEveryWaiter == pc = "asleep" => Awakened

(* A signal ends the wait: one that is pending when the task waits under   *)
(* its sighand lock, or before the call, is eventually taken in user mode, *)
(* so the task cannot be stuck in the call.                                *)
SignalIsTaken == pending /\ (kind = "sighand" \/ pc = "user") ~> ~pending
=============================================================================
