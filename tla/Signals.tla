------------------------------ MODULE Signals ------------------------------
(***************************************************************************)
(* How one task blocks, waits for and handles signals (kernel/signal.c):   *)
(* sigaction, sigprocmask, sigsuspend, pause, sigtimedwait, the calls that *)
(* change the mask while they wait (ppoll, pselect, epoll_pwait), delivery *)
(* by receive_signals at the end of every system call and interrupt, the   *)
(* frames of handlers and sigreturn; and how poll_wait (fs/poll.c) looks   *)
(* for a signal and then sleeps in the host.                               *)
(*                                                                         *)
(* One action is one section under the sighand lock; receive_signals keeps *)
(* that lock over all its steps ("receive").  WaitFor models how a sender  *)
(* wakes a sleeper, Process what stopping and dying do to the others.      *)
(* Left out: ptrace's signal-delivery stop, the alternate stack, frames    *)
(* that cannot be written, and signals sent while receive_signals runs.    *)
(***************************************************************************)
EXTENDS Naturals, Sequences, SequencesExt

CONSTANTS
  Sigs,       \* the signals, "KILL" among them
  Harmless,   \* those whose default is to be ignored
  Masks,      \* the masks the guest passes to its calls
  WaitSets,   \* the sets it passes to sigtimedwait
  Handlers,   \* the handlers it installs
  MaxFrames   \* bound on the signals that are queued or being handled

ASSUME SignalsAssumption ==
  /\ "KILL" \in Sigs /\ Harmless \subseteq Sigs \ {"KILL"}
  /\ Masks \subseteq SUBSET Sigs /\ WaitSets \subseteq SUBSET Sigs
  /\ Handlers \subseteq [handler : {"function"}, mask : SUBSET Sigs,
                         nodefer : BOOLEAN, reset : BOOLEAN]
  /\ MaxFrames \in Nat

(* struct sigaction_ with SIG_DFL_ and SIG_IGN_                            *)
Plain(handler) ==
  [handler |-> handler, mask |-> {}, nodefer |-> FALSE, reset |-> FALSE]
Dfl == Plain("default")
Ign == Plain("ignore")

VARIABLES
  at,       \* "user", "kernel" (before receive_signals), "receive", "dead";
            \* "suspend", "pause", "timedwait": the call the task sleeps in;
            \* in poll_wait "poll" (head of its loop), "tested" (no signal
            \* seen), "asleep" (in real_poll_wait), "woken" (by SIGUSR1)
  action,   \* sighand->action
  sigPending,  \* task->pending
  queue,    \* task->queue
  blocked,  \* task->blocked
  waiting,  \* task->waiting
  saved,    \* {task->saved_mask}, or {} without has_saved_mask
  now,      \* the local `blocked` of receive_signals
  frames,   \* the signal frames on the guest's stack
  wanted,   \* history: the mask the guest expects, per level of handlers
  taken,    \* history: signals that sigtimedwait took off the queue
  due       \* history: the signals that ended sigsuspend, pause or poll

sigVars == <<at, action, sigPending, queue, blocked, waiting, saved, now, frames,
             wanted, taken, due>>

SigInit ==
  /\ at = "user"
  /\ action = [s \in Sigs |-> Dfl]
  /\ sigPending = {} /\ queue = <<>> /\ blocked = {} /\ waiting = {}
  /\ saved = {} /\ now = {} /\ frames = <<>> /\ wanted = <<{}>>
  /\ taken = {} /\ due = {}

---------------------------------------------------------------------------
Queued == ToSet(queue)
Unblockable == {"KILL"}

(* Mutant: SIGKILL can be blocked.                                         *)
MaskAsIs(mask) == mask

(* sigmask_set                                                             *)
Settable(mask) == mask \ Unblockable

(* signal_action                                                           *)
Disposition(s) ==
  IF s \notin Unblockable /\ action[s] # Dfl
    THEN action[s].handler
    ELSE IF s \in Harmless THEN "ignore" ELSE "kill"

(* Mutant: sigsuspend wakes for what the old mask lets through.            *)
PendingBefore == sigPending \ (blocked \cup UNION saved) # {}

(* is_signal_pending                                                       *)
SignalPending == sigPending \ blocked # {}

AlreadyPending(s) == s \in sigPending

(* send_signal: an ignored signal is dropped, and so is one that is        *)
(* pending already.  The host's SIGUSR1 ends a real_poll_wait that has     *)
(* begun, and nothing else: one that is about to begin is not ended.       *)
Send(s) ==
  /\ at \notin {"receive", "dead"}
  /\ Disposition(s) # "ignore" /\ ~AlreadyPending(s)
  /\ Len(queue) + Len(frames) < MaxFrames
  /\ sigPending' = sigPending \cup {s}
  /\ queue' = Append(queue, s)
  /\ at' = IF at = "asleep" /\ (s \notin blocked \/ s \in Unblockable)
             THEN "woken" ELSE at
  /\ UNCHANGED <<action, blocked, waiting, saved, now, frames, wanted,
                 taken, due>>

---------------------------------------------------------------------------
(* System calls; all of them end in receive_signals.                       *)
Call == at = "user" /\ at' = "kernel"

(* do_sigaction                                                            *)
Sigaction(s, act) ==
  /\ Call /\ s \notin Unblockable
  /\ action' = [action EXCEPT ![s] = act]
  /\ UNCHANGED <<sigPending, queue, blocked, waiting, saved, now, frames, wanted,
                 taken, due>>

(* sigprocmask: the three `how`s come to setting some mask.                *)
Sigprocmask(mask) ==
  /\ Call
  /\ blocked' = Settable(mask)
  /\ wanted' = [wanted EXCEPT ![Len(wanted)] = mask \ Unblockable]
  /\ UNCHANGED <<action, sigPending, queue, waiting, saved, now, frames, taken,
                 due>>

(* sigmask_set_temp, by sigsuspend ("suspend") or by ppoll, pselect and    *)
(* epoll_pwait ("poll").                                                   *)
SleepWithMask(mask, call) ==
  /\ at = "user" /\ at' = call
  /\ saved' = {blocked}
  /\ blocked' = Settable(mask)
  /\ UNCHANGED <<action, sigPending, queue, waiting, now, frames, wanted, taken,
                 due>>

(* pause ("pause"); poll, select and epoll_wait without a mask ("poll").   *)
Pause(call) ==
  /\ at = "user" /\ at' = call
  /\ UNCHANGED <<action, sigPending, queue, blocked, waiting, saved, now, frames,
                 wanted, taken, due>>

Sigtimedwait(set) ==
  /\ at = "user" /\ at' = "timedwait"
  /\ waiting' = set
  /\ UNCHANGED <<action, sigPending, queue, blocked, saved, now, frames, wanted,
                 taken, due>>

(* A wait ends with what is pending and not blocked.                       *)
WaitEnds ==
  /\ at' = "kernel"
  /\ due' = Queued \ blocked
  /\ UNCHANGED <<action, sigPending, queue, blocked, waiting, saved, now, frames,
                 wanted, taken>>

(* wait_for returns _EINTR; poll_wait sees a signal at the head of its     *)
(* loop; or real_poll_wait failed with EINTR.                              *)
Wakes ==
  /\ \/ at \in {"suspend", "pause", "poll"} /\ SignalPending
     \/ at = "woken"
  /\ WaitEnds

(* A descriptor is ready, or the timeout of real_poll_wait is over.        *)
PollReady == at \in {"poll", "asleep"} /\ WaitEnds

OtherThanAt == <<action, sigPending, queue, blocked, waiting, saved, now, frames,
                 wanted, taken, due>>

(* No signal is seen under the sighand lock, which is then given up ...    *)
PollTested == at = "poll" /\ ~SignalPending /\ at' = "tested" /\ UNCHANGED OtherThanAt

(* ... before the host's wait begins: whoever sends in between is not      *)
(* noticed.                                                                *)
PollSleeps == at = "tested" /\ at' = "asleep" /\ UNCHANGED OtherThanAt

(* A notification that turns out to be none starts the loop again, and     *)
(* sockrestart, when the app comes back, the wait that SIGUSR1 ended.      *)
PollAgain ==
  /\ \/ at = "asleep" /\ at' = "poll"
     \/ at = "woken" /\ at' = "asleep"
  /\ UNCHANGED OtherThanAt

(* The first signal of the set is taken off the queue; its bit in pending  *)
(* stays.  wait_for only returns for signals that are not blocked.         *)
SigtimedwaitReturns ==
  LET found == {i \in DOMAIN queue : queue[i] \in waiting}
      first == CHOOSE i \in found : \A j \in found : i <= j IN
  /\ at = "timedwait" /\ at' = "kernel"
  /\ SignalPending
  /\ waiting' = {}
  /\ IF found = {} THEN UNCHANGED <<queue, taken>>
     ELSE queue' = RemoveAt(queue, first) /\ taken' = taken \cup {queue[first]}
  /\ UNCHANGED <<action, sigPending, blocked, saved, now, frames, wanted, due>>

SigtimedwaitTimesOut ==
  /\ at = "timedwait" /\ at' = "kernel"
  /\ waiting' = {}
  /\ UNCHANGED <<action, sigPending, queue, blocked, saved, now, frames, wanted,
                 taken, due>>

(* Mutant: the mask of the handler stays.                                  *)
KeepMask(mask) == blocked

(* sys_sigreturn, sys_rt_sigreturn                                         *)
Restored(mask) == Settable(mask)
Sigreturn ==
  /\ Call /\ frames # <<>>
  /\ blocked' = Restored(Last(frames).mask)
  /\ frames' = Front(frames) /\ wanted' = Front(wanted)
  /\ UNCHANGED <<action, sigPending, queue, waiting, saved, now, taken, due>>

(* execve resets the handlers and leaves the masks; the stack is new.      *)
Exec ==
  /\ Call
  /\ action' = [s \in Sigs |-> IF action[s] = Ign THEN Ign ELSE Dfl]
  /\ frames' = <<>> /\ wanted' = <<Last(wanted)>>
  /\ UNCHANGED <<sigPending, queue, blocked, waiting, saved, now, taken, due>>

(* Any other system call, or a timer interrupt.                            *)
Interrupt ==
  /\ Call
  /\ UNCHANGED <<action, sigPending, queue, blocked, waiting, saved, now, frames,
                 wanted, taken, due>>

(* A page fault or an illegal instruction in the guest:                   *)
(* deliver_signal, which does not ask whether the signal is ignored.       *)
Fault(s) ==
  /\ Call /\ s \notin Unblockable /\ ~AlreadyPending(s)
  /\ Len(queue) + Len(frames) < MaxFrames
  /\ sigPending' = sigPending \cup {s}
  /\ queue' = Append(queue, s)
  /\ UNCHANGED <<action, blocked, waiting, saved, now, frames, wanted, taken,
                 due>>

---------------------------------------------------------------------------
(* Mutant: only the mask after the call counts.                            *)
MaskAfter == IF saved = {} THEN blocked ELSE UNION saved

(* receive_signals: a signal is left alone if it was blocked during the    *)
(* call and is to be blocked after it.                                     *)
BlockedNow == blocked \cap UNION (IF saved = {} THEN {Sigs} ELSE saved)

NoSaved == {}
BackToSaved == IF saved = {} THEN blocked ELSE UNION saved

ReceiveStarts ==
  /\ at = "kernel" /\ at' = "receive"
  /\ now' = BlockedNow
  /\ blocked' = BackToSaved
  /\ saved' = NoSaved
  /\ UNCHANGED <<action, sigPending, queue, waiting, frames, wanted, taken, due>>

Receivable == {i \in DOMAIN queue : queue[i] \notin now}

(* One turn of the loop in receive_signals: the first signal that `now`    *)
(* does not block, whatever the handlers of this loop added to the mask.   *)
ReceiveOne ==
  LET first == CHOOSE i \in Receivable : \A j \in Receivable : i <= j
      s == queue[first]
      act == action[s]
      added == act.mask \cup (IF act.nodefer THEN {} ELSE {s}) IN
  /\ at = "receive" /\ Receivable # {}
  /\ queue' = RemoveAt(queue, first)
  /\ sigPending' = sigPending \ {s}
  /\ taken' = taken \ {s}
  /\ at' = IF Disposition(s) = "kill" THEN "dead" ELSE "receive"
  /\ IF Disposition(s) # "function"
       THEN UNCHANGED <<action, blocked, frames, wanted>>
       ELSE /\ frames' = Append(frames, [sig |-> s, mask |-> blocked])
            /\ blocked' = blocked \cup added
            /\ wanted' = Append(wanted, Last(wanted) \cup added)
            /\ action' = IF act.reset THEN [action EXCEPT ![s] = Dfl]
                         ELSE action
  /\ UNCHANGED <<waiting, saved, now, due>>

ReceiveEnds ==
  /\ at = "receive" /\ Receivable = {}
  /\ at' = "user" /\ now' = {} /\ due' = {}
  /\ UNCHANGED <<action, sigPending, queue, blocked, waiting, saved, frames,
                 wanted, taken>>

Receive == ReceiveStarts \/ ReceiveOne \/ ReceiveEnds

SigNext ==
  \/ \E s \in Sigs :
       \/ Send(s) \/ Fault(s)
       \/ \E act \in Handlers \cup {Dfl, Ign} : Sigaction(s, act)
  \/ \E mask \in Masks :
       \/ Sigprocmask(mask)
       \/ \E call \in {"suspend", "poll"} : SleepWithMask(mask, call)
  \/ \E set \in WaitSets : Sigtimedwait(set)
  \/ \E call \in {"pause", "poll"} : Pause(call)
  \/ Wakes \/ PollReady \/ PollTested \/ PollSleeps \/ PollAgain
  \/ SigtimedwaitReturns \/ SigtimedwaitTimesOut
  \/ Sigreturn \/ Exec \/ Interrupt \/ Receive

(* What a task in a call does by itself: wait_for returns when a signal is *)
(* there (the part of it that WaitFor shows), and poll_wait runs until the *)
(* host's wait, and from there once SIGUSR1 has ended it.                  *)
GoesOn == Wakes \/ PollTested \/ PollSleeps \/ SigtimedwaitReturns

(* The task runs when it can: in the kernel it goes on, and from user mode *)
(* it comes back by the timer interrupt.  Handlers need not return, nobody *)
(* need send anything, no descriptor need become ready, timeouts may be    *)
(* far.                                                                    *)
SigFairness ==
  /\ WF_sigVars(Receive)
  /\ WF_sigVars(Interrupt)
  /\ WF_sigVars(GoesOn)

SigSpec == SigInit /\ [][SigNext]_sigVars
SigFairSpec == SigSpec /\ SigFairness

---------------------------------------------------------------------------
InPoll == {"poll", "tested", "asleep", "woken"}

(* The types of the variables.                                             *)
SigTypeOK ==
  /\ at \in {"user", "kernel", "receive", "dead", "suspend", "pause", "timedwait"}
           \cup InPoll
  /\ action \in [Sigs -> Handlers \cup {Dfl, Ign}]
  /\ sigPending \subseteq Sigs /\ blocked \subseteq Sigs /\ now \subseteq Sigs
  /\ waiting \subseteq Sigs /\ (waiting # {} => at = "timedwait")
  /\ saved \subseteq SUBSET Sigs
  /\ saved # {} => at \in {"suspend", "kernel"} \cup InPoll
  /\ Len(queue) + Len(frames) <= MaxFrames
  /\ Len(wanted) = Len(frames) + 1 /\ taken \subseteq Sigs
  /\ due \subseteq Sigs

(* A signal is pending once, and it is pending as long as it is queued; a  *)
(* bit without an entry is one that sigtimedwait left behind.              *)
PendingQueued ==
  /\ \A i, j \in DOMAIN queue : queue[i] = queue[j] => i = j
  /\ Queued \subseteq sigPending
  /\ sigPending \ Queued \subseteq taken

(* "set the signal mask, restore it to what it was before on the next      *)
(* receive_signals call" (sigmask_set_temp) and the masks that sigreturn   *)
(* restores: whenever the guest runs, at any depth of handlers, its mask   *)
(* is the one it chose at that depth, whatever calls and handlers came in  *)
(* between.                                                                *)
MaskKept == at = "user" => blocked = Last(wanted)

(* "Only ignore a signal right now if it was both blocked during the call  *)
(* and should still be blocked after the call" (receive_signals): when     *)
(* sigsuspend, pause or poll ends, a signal that its mask let through has  *)
(* been received before the guest runs again.                              *)
SuspendDelivers == at = "receive" /\ Receivable = {} => due \cap Queued = {}

(* Between the calls of a task and its handlers no signal is lost, doubled *)
(* or late and no mask forgotten (kernel/signal.c, receive_signals and the *)
(* calls that change or borrow the mask).                                  *)
SignalsSafe == SigTypeOK /\ PendingQueued /\ MaskKept /\ SuspendDelivers

(* The lost wake-up of poll_wait: the signal came between its test of      *)
(* pending and the host's wait (fs/poll.c, after the unlock of the sighand *)
(* lock), or sockrestart began the wait again.                             *)
SleptThrough == at = "asleep" /\ SignalPending

(* A signal that is queued and not blocked is received, or the guest       *)
(* blocks it first, or the task sleeps through it in poll_wait, which only *)
(* an event, the timeout or another signal ends (is_signal_pending and     *)
(* receive_signals).  No other call and no other moment keeps a signal     *)
(* from its task.                                                          *)
SignalReceived ==
  \A s \in Sigs :
    s \in Queued \ blocked ~>
      s \notin Queued \ blocked \/ at = "dead" \/ SleptThrough

(* SIGKILL cannot be blocked (UNBLOCKABLE_MASK): the task dies of it       *)
(* whatever it blocks or handles and whatever call it is in, unless it     *)
(* sleeps through it in poll_wait.                                         *)
KillIsFatal == "KILL" \in Queued ~> at = "dead" \/ SleptThrough
=============================================================================
