------------------------------- MODULE Timer -------------------------------
(***************************************************************************)
(* util/timer.c and its users in kernel/time.c: a timer is a record shared *)
(* by the caller that arms or frees it and by the host thread that sleeps  *)
(* and fires it.  The same code serves a timerfd, the interval timer of a  *)
(* thread group and a POSIX timer; they differ in the lock the caller      *)
(* holds around timer_set and in what the callback does.  A timespec is a  *)
(* number of units; nanosleep may sleep late, never early.                 *)
(* sys_clock_nanosleep, which has no timer, is here too.                   *)
(***************************************************************************)
EXTENDS Integers, FiniteSetsExt

CONSTANTS MaxNow,       \* the clock stops here (bound)
          Spans,        \* lengths a caller may ask for, 0 to disarm
          Intervals,    \* intervals a caller may ask for
          MaxSets       \* how often the timer is set (bound)

ASSUME TimerAssumption ==
  MaxNow \in Nat /\ Spans \subseteq Nat /\ Intervals \subseteq Nat /\ MaxSets \in Nat

VARIABLES
  clock,        \* timespec_now
  owner,        \* which user the timer belongs to
  timer,        \* struct timer, with lock: who holds timer->lock
  tthread,      \* timer_thread: where it is, and the sleep it asked for
  tcall,        \* the thread of the guest that sets and frees the timer
  ownerLock,    \* fd->lock or group->lock: held by the caller or free
  target,       \* the task an interval timer remembered is still there
  expirations,  \* fd->timerfd.expirations, or 1 once a signal is sent
  reader,       \* a thread in timerfd_read
  nap,          \* a thread in sys_clock_nanosleep
  tghost        \* when the timer was armed for and how often it has fired

timerVars == <<clock, owner, timer, tthread, tcall, ownerLock, target,
               expirations, reader, nap, tghost>>

\* What sys_timer_create accepts.
SigevMethods == {"sigev_signal", "sigev_none", "sigev_thread"}
\* "sleep" is a guest that has no timer and calls sys_clock_nanosleep.
Owners == {"timerfd", "itimer", "sleep"} \cup SigevMethods

NoCall == [at |-> "idle", value |-> 0, interval |-> 0]

\* timer_new: nothing runs and nothing is armed.
TimerInit ==
  /\ clock = 0
  /\ owner \in Owners
  /\ timer = [mem |-> "live", active |-> FALSE, end |-> 0, interval |-> 0,
              running |-> FALSE, dead |-> FALSE, lock |-> "free"]
  /\ tthread = [at |-> "none", span |-> 0, until |-> 0]
  /\ tcall = NoCall
  /\ ownerLock = "free"
  /\ target = TRUE
  /\ expirations = 0
  /\ reader = "idle"
  /\ nap = [at |-> "idle", deadline |-> 0, left |-> 0, signal |-> FALSE, err |-> "ok"]
  /\ tghost = [first |-> 0, fires |-> 0, sets |-> 0]

-----------------------------------------------------------------------------
(* timer_thread.  Look is one turn of the outer loop up to the point where *)
(* the thread must give up the lock or call the callback.                  *)

\* pthread_kill ends a sleep; a thread that has not begun to sleep ignores it.
Kicked(th) == IF th.at = "asleep" THEN [th EXCEPT !.at = "entering", !.until = 0] ELSE th

StillRunning(t) == [t EXCEPT !.lock = "free", !.mem = IF t.dead THEN "freed" ELSE t.mem]

\* The end of timer_thread: thread_running is cleared under the lock, and the
\* thread frees the timer that timer_free left to it.
Finished(t) == [t EXCEPT !.running = FALSE, !.lock = "free",
                         !.mem = IF t.dead THEN "freed" ELSE t.mem]

ThreadLocks ==
  /\ tthread.at = "entering" /\ timer.lock = "free"
  /\ timer' = [timer EXCEPT !.lock = "thread"]
  /\ tthread' = [tthread EXCEPT !.at = "looking"]
  /\ UNCHANGED <<clock, owner, tcall, ownerLock, target, expirations, reader, nap, tghost>>

DueEarly(t, now) == t.end <= now + 1
Due(t, now) == t.end <= now

ThreadLooks ==
  /\ tthread.at = "looking"
  /\ \/ /\ timer.active /\ ~Due(timer, clock)
        /\ timer' = [timer EXCEPT !.lock = "free"]
        /\ tthread' = [tthread EXCEPT !.at = "drowsy", !.span = timer.end - clock]
     \/ /\ timer.active /\ Due(timer, clock)
        /\ tthread' = [tthread EXCEPT !.at = "firing"]
        /\ UNCHANGED timer
     \/ /\ ~timer.active
        /\ timer' = Finished(timer)
        /\ tthread' = [tthread EXCEPT !.at = "none"]
  /\ UNCHANGED <<clock, owner, tcall, ownerLock, target, expirations, reader, nap, tghost>>

ThreadSleeps ==
  /\ tthread.at = "drowsy"
  /\ tthread' = [tthread EXCEPT !.at = "asleep", !.span = 0,
                                 !.until = Min({clock + tthread.span, MaxNow})]
  /\ UNCHANGED <<clock, owner, timer, tcall, ownerLock, target, expirations, reader, nap, tghost>>

ThreadWakes ==
  /\ tthread.at = "asleep" /\ tthread.until <= clock
  /\ tthread' = Kicked(tthread)
  /\ UNCHANGED <<clock, owner, timer, tcall, ownerLock, target, expirations, reader, nap, tghost>>

\* timerfd_callback counts and notifies under fd->lock.
TimerfdCallback ==
  /\ owner = "timerfd" /\ ownerLock = "free"
  /\ expirations' = expirations + 1
  /\ reader' = IF reader = "waiting" THEN "woken" ELSE reader

\* itimer_notify signals the task that armed the timer first.
ItimerNotify ==
  /\ owner = "itimer"
  /\ expirations' = IF target THEN 1 ELSE expirations
  /\ UNCHANGED reader

\* posix_timer_callback: no group for SIGEV_NONE; pid 0, which is no task, for
\* SIGEV_SIGNAL; the leader for SIGEV_THREAD_ID.
PosixTimerCallback ==
  /\ owner \in SigevMethods
  /\ expirations' = IF owner = "sigev_thread" THEN 1 ELSE expirations
  /\ UNCHANGED reader

\* The callback runs with timer->lock held; then the thread rearms or ends.
ThreadFires ==
  /\ tthread.at = "firing"
  /\ TimerfdCallback \/ ItimerNotify \/ PosixTimerCallback
  /\ tghost' = [tghost EXCEPT !.fires = @ + 1]
  /\ IF timer.active /\ timer.interval > 0
       THEN /\ timer' = [timer EXCEPT !.end = @ + timer.interval]
            /\ tthread' = [tthread EXCEPT !.at = "looking"]
       ELSE /\ timer' = Finished(timer)
            /\ tthread' = [tthread EXCEPT !.at = "none"]
  /\ UNCHANGED <<clock, owner, tcall, ownerLock, target, nap>>

-----------------------------------------------------------------------------
(* The guest's thread: timer_set under the owner's lock.  TIMER_ABSTIME,   *)
(* which the interval timer lacks, makes the value relative first.         *)

SetTime(value, every) ==
  /\ tcall.at = "idle" /\ ownerLock = "free"
  /\ tghost.sets < MaxSets
  /\ tcall' = [at |-> "setting", value |-> value, interval |-> every]
  /\ ownerLock' = "call"
  /\ UNCHANGED <<clock, owner, timer, tthread, target, expirations, reader, nap, tghost>>

Askable == {span \in Spans : clock + span <= MaxNow}
Relative(span, abs) == IF abs THEN span - clock ELSE span

SysTimerfdSettime == owner = "timerfd" /\ \E span \in Askable, every \in Intervals, abs \in BOOLEAN :
                                            SetTime(Relative(span, abs), every)
SysTimerSettime == owner \in SigevMethods /\ \E span \in Askable, every \in Intervals, abs \in BOOLEAN :
                                               SetTime(Relative(span, abs), every)
SysSetitimer == owner = "itimer" /\ \E span \in Askable, every \in Intervals : SetTime(span, every)
SysAlarm == owner = "itimer" /\ \E span \in Askable : SetTime(span, 0)

\* timer_set: a running thread is told, and else one is started.
Armed(t, value, every, now) ==
  [t EXCEPT !.end = now + value, !.interval = every, !.active = (value # 0),
            !.running = @ \/ value # 0]

TimerSet ==
  /\ tcall.at = "setting" /\ timer.lock = "free"
  /\ timer' = Armed(timer, tcall.value, tcall.interval, clock)
  /\ tthread' = IF timer.running THEN Kicked(tthread)
                ELSE IF tcall.value # 0 THEN [tthread EXCEPT !.at = "entering"]
                ELSE tthread
  /\ tghost' = [first |-> clock + tcall.value, fires |-> 0, sets |-> tghost.sets + 1]
  /\ tcall' = NoCall
  /\ ownerLock' = "free"
  /\ UNCHANGED <<clock, owner, target, expirations, reader, nap>>

\* timerfd_close runs without fd->lock, once no call uses the descriptor;
\* sys_timer_delete holds group->lock; exit_tgroup needs no lock.
Close(held) ==
  /\ tcall.at = "idle" /\ ownerLock = "free"
  /\ tcall' = [tcall EXCEPT !.at = "freeing"]
  /\ ownerLock' = held
  /\ UNCHANGED <<clock, owner, timer, tthread, target, expirations, reader, nap, tghost>>

TimerfdClose == owner = "timerfd" /\ reader = "idle" /\ Close("free")
SysTimerDelete == owner \in SigevMethods /\ Close("call")
ExitTgroup == owner = "itimer" /\ Close("free")

Freed(t) == IF t.running THEN [t EXCEPT !.active = FALSE, !.dead = TRUE]
            ELSE [t EXCEPT !.active = FALSE, !.mem = "freed"]

TimerFree ==
  /\ tcall.at = "freeing" /\ timer.lock = "free"
  /\ timer' = Freed(timer)
  /\ tthread' = Kicked(tthread)
  /\ tcall' = [tcall EXCEPT !.at = "closed"]
  /\ ownerLock' = "free"
  /\ UNCHANGED <<clock, owner, target, expirations, reader, nap, tghost>>

\* timerfd_read: count, or sleep on fd->cond, which gives up fd->lock.
TimerfdRead ==
  /\ owner = "timerfd" /\ ownerLock = "free" /\ tcall.at # "closed"
  /\ reader = "woken" \/ (reader = "idle" /\ tcall.at # "freeing")
  /\ IF expirations = 0 THEN reader' = "waiting" /\ UNCHANGED expirations
                        ELSE reader' = "idle" /\ expirations' = 0
  /\ UNCHANGED <<clock, owner, timer, tthread, tcall, ownerLock, target, nap, tghost>>

\* The thread that armed the interval timer exits; the group lives on.
TargetExits ==
  /\ owner = "itimer" /\ target
  /\ target' = FALSE
  /\ UNCHANGED <<clock, owner, timer, tthread, tcall, ownerLock, expirations, reader, nap, tghost>>

-----------------------------------------------------------------------------
(* sys_clock_nanosleep: the deadline is looked at before the result.       *)

Nap ==
  /\ owner = "sleep" /\ nap.at = "idle"
  /\ \E span \in Spans, abs \in BOOLEAN :
       nap' = [nap EXCEPT !.at = "checking", !.err = "ok",
                 !.deadline = Min({(IF abs THEN 0 ELSE clock) + span, MaxNow})]
  /\ UNCHANGED <<clock, owner, timer, tthread, tcall, ownerLock, target, expirations, reader, tghost>>

NapChecks ==
  /\ nap.at = "checking"
  /\ nap' = IF nap.deadline <= clock THEN [nap EXCEPT !.at = "slept"]
            ELSE IF nap.err = "EINTR" THEN [nap EXCEPT !.at = "interrupted",
                                                       !.left = nap.deadline - clock]
            ELSE [nap EXCEPT !.at = "waiting", !.left = nap.deadline - clock]
  /\ UNCHANGED <<clock, owner, timer, tthread, tcall, ownerLock, target, expirations, reader, tghost>>

\* wait_for: a signal, the time, or neither.
NapWakes ==
  /\ nap.at = "waiting"
  /\ \E err \in {"ok"} \cup (IF nap.signal THEN {"EINTR"} ELSE {})
                       \cup (IF nap.deadline <= clock THEN {"ETIMEDOUT"} ELSE {}) :
       nap' = [nap EXCEPT !.at = "checking", !.err = err]
  /\ UNCHANGED <<clock, owner, timer, tthread, tcall, ownerLock, target, expirations, reader, tghost>>

NapSignal ==
  /\ nap.at \in {"checking", "waiting"} /\ ~nap.signal
  /\ nap' = [nap EXCEPT !.signal = TRUE]
  /\ UNCHANGED <<clock, owner, timer, tthread, tcall, ownerLock, target, expirations, reader, tghost>>

Tick ==
  /\ clock < MaxNow
  /\ clock' = clock + 1
  /\ UNCHANGED <<owner, timer, tthread, tcall, ownerLock, target, expirations, reader, nap, tghost>>

Thread == ThreadLocks \/ ThreadLooks \/ ThreadSleeps \/ ThreadWakes \/ ThreadFires
Caller == TimerSet \/ TimerFree
Sleeper == NapChecks \/ NapWakes

Settings == SysTimerfdSettime \/ SysTimerSettime \/ SysSetitimer \/ SysAlarm
Closings == TimerfdClose \/ SysTimerDelete \/ ExitTgroup

TimerNext == Thread \/ Caller \/ Settings \/ Closings \/ TimerfdRead \/ TargetExits
             \/ Nap \/ Sleeper \/ NapSignal \/ Tick

(* The clock moves on, the timer thread runs when it can and a call that   *)
(* holds a lock goes on; nobody need set a timer.                          *)
TimerFairness ==
  /\ WF_timerVars(Thread)
  /\ WF_timerVars(Tick)
  /\ WF_timerVars(Caller)

TimerSpec == TimerInit /\ [][TimerNext]_timerVars /\ TimerFairness

-----------------------------------------------------------------------------
(* Properties.                                                             *)

\* Every timer that is armed and has something left to fire has a thread that
\* will fire it, and a thread that was left to free the timer still runs: the
\* flag thread_running and the end of the thread agree however timer_set,
\* timer_free and the loop interleave (util/timer.c timer_thread).
Attended ==
  /\ (timer.mem = "live" /\ timer.active /\ (tghost.fires = 0 \/ timer.interval > 0))
       => timer.running
  /\ timer.running <=> tthread.at # "none"
  /\ timer.mem = "freed" => tthread.at = "none" /\ tcall.at = "closed"
  /\ tcall.at = "closed" => timer.mem = "freed" \/ timer.dead

\* A timer never fires before it is due, fires once when it has no interval,
\* and keeps its phase: however late the thread wakes, the k-th expiry is
\* counted from the time the timer was armed for, so no period is lost.
Punctual ==
  /\ tghost.fires > 0 => clock >= tghost.first + (tghost.fires - 1) * timer.interval
  /\ (timer.active /\ timer.interval > 0) => timer.end = tghost.first + tghost.fires * timer.interval
  /\ (timer.interval = 0) => tghost.fires <= 1

\* clock_nanosleep reports success exactly when the deadline has passed, and an
\* interruption only for a signal and with time left; a reader of a timerfd is
\* not left waiting with expirations to read.
SleepHonest ==
  /\ nap.at = "slept" => nap.deadline <= clock
  /\ nap.at = "interrupted" => nap.signal /\ nap.left > 0 /\ nap.left <= MaxNow
  /\ reader = "waiting" => expirations = 0

TimerSafe == Attended /\ Punctual /\ SleepHonest

\* The caller of timerfd_settime holds fd->lock and wants timer->lock, the
\* callback holds timer->lock and wants fd->lock: neither goes on.
Inverted == tthread.at = "firing" /\ owner = "timerfd" /\ tcall.at = "setting"

\* An armed timer fires or is set again or freed, whatever wakeup is lost
\* between the unlock and the sleep; the only thing that can stop it is the
\* lock order inversion of kernel/time.c:441.  (WF of the thread: the host
\* schedules it; of the clock.)
TimerFires ==
  \A n \in 0..1, s \in 1..MaxSets :
    (timer.active /\ tghost.fires = n /\ tghost.sets = s /\ timer.end <= MaxNow /\ timer.running)
      ~> (tghost.fires # n \/ tghost.sets # s \/ ~timer.active \/ Inverted)
=============================================================================
