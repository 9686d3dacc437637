------------------------------- MODULE Ptrace -------------------------------
(***************************************************************************)
(* Tracing: a child that stops for a signal (signal_delivery_stop in       *)
(* kernel/signal.c), its tracer in do_wait (kernel/exit.c) and sys_ptrace  *)
(* (kernel/ptrace.c), and somebody who sends the child SIGKILL.            *)
(* child->ptrace.lock is a variable; the child holds the lock of its       *)
(* signal handlers until it sleeps, so no signal arrives before that.      *)
(***************************************************************************)
EXTENDS Integers

CONSTANTS MaxStops,   \* signals the child stops for (bound)
          BadRequests \* TRUE: requests with a bad address are made

VARIABLES
  ptChild,   \* where the child is
  ptTracer,  \* where the tracer is
  ptKiller,  \* where the sender of SIGKILL is
  ptStopped, \* child->ptrace.stopped
  ptSignal,  \* child->ptrace.signal # 0: a stop that wait has not reported
  ptLock,    \* holder of child->ptrace.lock; "leaked" once a call returned with it
  ptWaiting, \* child->waiting_cond is set
  ptWoken,   \* sleepers (child, tracer) whose condition was notified
  ptKilled,  \* SIGKILL is pending for the child
  ptChld,    \* SIGCHLD is pending for the tracer
  ptIgnores, \* the tracer leaves SIGCHLD at its default, ignored
  ptStops,   \* stops so far
  ptOdd      \* history: "early" if SIGKILL came before the child was registered
             \* as a sleeper, "touched" if a request reached a child that exited

ptVars == <<ptChild, ptTracer, ptKiller, ptStopped, ptSignal, ptLock, ptWaiting, ptWoken,
            ptKilled, ptChld, ptIgnores, ptStops, ptOdd>>

PtInit ==
  /\ ptChild = "run" /\ ptTracer = "idle" /\ ptKiller = "idle"
  /\ ptStopped = FALSE /\ ptSignal = FALSE /\ ptLock = "free" /\ ptWaiting = FALSE
  /\ ptWoken = {} /\ ptKilled = FALSE /\ ptChld = FALSE /\ ptIgnores \in BOOLEAN
  /\ ptStops = 0 /\ ptOdd = {}

ChildGoes(a, b) == ptChild = a /\ ptChild' = b
TracerGoes(a, b) == ptTracer = a /\ ptTracer' = b
TracerSame == UNCHANGED <<ptTracer, ptKiller, ptIgnores>>
ChildSame == UNCHANGED <<ptChild, ptKiller, ptWaiting, ptIgnores, ptStops>>

-----------------------------------------------------------------------------
(* The child: receive_signals takes a signal and calls                     *)
(* signal_delivery_stop.                                                   *)

StopSet ==
  /\ ptStops < MaxStops /\ ptLock = "free" /\ ChildGoes("run", "notify")
  /\ ptStopped' = TRUE /\ ptSignal' = TRUE /\ ptStops' = ptStops + 1
  /\ TracerSame /\ UNCHANGED <<ptLock, ptWaiting, ptWoken, ptKilled, ptChld, ptOdd>>

\* notify(&current->parent->group->child_exit), without pids_lock.
NotifyParent == ptWoken \cup (IF ptTracer = "asleep" THEN {"tracer"} ELSE {})
StopNotify ==
  /\ ChildGoes("notify", "signal")
  /\ ptWoken' = NotifyParent
  /\ TracerSame /\ UNCHANGED <<ptStopped, ptSignal, ptLock, ptWaiting, ptKilled, ptChld, ptStops, ptOdd>>

\* send_signal(current->parent, exit_signal): unless ignored it wakes the parent.
StopSignal ==
  /\ ChildGoes("signal", "lock")
  /\ ptChld' = (ptChld \/ ~ptIgnores)
  /\ ptWoken' = IF ptIgnores \/ ptChld THEN ptWoken ELSE NotifyParent
  /\ TracerSame /\ UNCHANGED <<ptStopped, ptSignal, ptLock, ptWaiting, ptKilled, ptStops, ptOdd>>

\* The lock of the handlers is released and ptrace.lock taken; while stopped, the
\* child registers as a sleeper and sleeps.
StopLock ==
  /\ ptLock = "free" /\ ChildGoes("lock", "test") /\ ptLock' = "child"
  /\ TracerSame /\ UNCHANGED <<ptStopped, ptSignal, ptWaiting, ptWoken, ptKilled, ptChld, ptStops, ptOdd>>

StopTest ==
  /\ IF ptStopped THEN ChildGoes("test", "sleep") /\ ptWaiting' = TRUE /\ UNCHANGED ptLock
     ELSE ChildGoes("test", "run") /\ ptLock' = "free" /\ UNCHANGED ptWaiting
  /\ TracerSame /\ UNCHANGED <<ptStopped, ptSignal, ptWoken, ptKilled, ptChld, ptStops, ptOdd>>

StopSleep ==
  /\ ChildGoes("sleep", "asleep") /\ ptLock' = "free" /\ ptWoken' = ptWoken \ {"child"}
  /\ TracerSame /\ UNCHANGED <<ptStopped, ptSignal, ptWaiting, ptKilled, ptChld, ptStops, ptOdd>>

\* Awake with the lock: SIGKILL ends the group, with ptrace.stopped as it is.
StopWake ==
  /\ ptChild = "asleep" /\ "child" \in ptWoken /\ ptLock = "free"
  /\ ptWoken' = ptWoken \ {"child"} /\ ptWaiting' = FALSE
  /\ IF ptKilled THEN ptChild' = "gone" /\ UNCHANGED ptLock
     ELSE ptChild' = "test" /\ ptLock' = "child"
  /\ TracerSame /\ UNCHANGED <<ptStopped, ptSignal, ptKilled, ptChld, ptStops, ptOdd>>

\* Outside a stop SIGKILL ends the child at the next interrupt.
Die ==
  /\ ptKilled /\ ChildGoes("run", "gone")
  /\ TracerSame /\ UNCHANGED <<ptStopped, ptSignal, ptLock, ptWaiting, ptWoken, ptKilled, ptChld, ptStops, ptOdd>>

Child == StopSet \/ StopNotify \/ StopSignal \/ StopLock \/ StopTest \/ StopSleep \/ StopWake \/ Die

-----------------------------------------------------------------------------
(* The tracer.                                                             *)

\* reap_if_needed, for a child that stopped or exited.
WaitChecks ==
  /\ ptTracer = "idle" /\ ptLock = "free"
  /\ IF ptChild = "gone" \/ (ptStopped /\ ptSignal)
     THEN ptSignal' = FALSE /\ UNCHANGED ptTracer
     ELSE TracerGoes("idle", "wait") /\ UNCHANGED ptSignal
  /\ ChildSame /\ UNCHANGED <<ptStopped, ptLock, ptWoken, ptKilled, ptChld, ptOdd>>

\* wait_for: a pending signal ends the call, else the tracer sleeps.
TracerSleeps ==
  /\ IF ptChld THEN TracerGoes("wait", "idle") /\ ptChld' = FALSE
     ELSE TracerGoes("wait", "asleep") /\ UNCHANGED ptChld
  /\ ptWoken' = ptWoken \ {"tracer"}
  /\ ChildSame /\ UNCHANGED <<ptStopped, ptSignal, ptLock, ptKilled, ptOdd>>

\* do_wait looks once more after the wait, whether or not a signal came.
WaitWakes ==
  /\ "tracer" \in ptWoken /\ TracerGoes("asleep", "idle")
  /\ ptWoken' = ptWoken \ {"tracer"} /\ ptChld' = FALSE
  /\ ChildSame /\ UNCHANGED <<ptStopped, ptSignal, ptLock, ptKilled, ptOdd>>

\* find_child: the child is taken to be stopped when ptrace.stopped is set.
FindAny == ptLock = "free"
FindChild == ptLock = "free" /\ ptStopped

\* The requests that look at or change the memory and the registers of the child.
Inspect ==
  /\ ptTracer = "idle" /\ FindChild
  /\ ptOdd' = ptOdd \cup (IF ptChild = "gone" THEN {"touched"} ELSE {})
                    \cup (IF ptChild = "run" THEN {"running"} ELSE {})
  /\ ChildSame /\ UNCHANGED <<ptTracer, ptStopped, ptSignal, ptLock, ptWoken, ptKilled, ptChld>>

PeekData == Inspect
PeekUser == Inspect
PokeData == Inspect
GetRegs == Inspect
SetRegs == Inspect
FpuRegs == Inspect
Inspects == PeekData \/ PeekUser \/ PokeData \/ GetRegs \/ SetRegs \/ FpuRegs

\* PEEKUSER at a bad offset, and SETREGS, SETFPREGS and GETSIGINFO with a bad
\* address, return with the lock held.
BadRequest ==
  /\ BadRequests /\ ptTracer = "idle" /\ FindChild
  /\ ptLock' = "leaked"
  /\ ChildSame /\ UNCHANGED <<ptTracer, ptStopped, ptSignal, ptWoken, ptKilled, ptChld, ptOdd>>

WakeChild == ptWoken \cup (IF ptChild = "asleep" THEN {"child"} ELSE {})

Resume ==
  /\ ptTracer = "idle" /\ FindChild
  /\ ptStopped' = FALSE /\ ptWoken' = WakeChild
  /\ ChildSame /\ UNCHANGED <<ptTracer, ptSignal, ptLock, ptKilled, ptChld, ptOdd>>

TracerContinues == Resume
SingleStep == Resume

\* PTRACE_KILL does not notify: the signal does, if the child is registered.
KillRequest ==
  /\ ptTracer = "idle" /\ FindChild /\ ptChild \notin {"notify", "signal"}
  /\ ptStopped' = FALSE
  /\ ptKilled' = (ptKilled \/ ptChild # "gone")
  /\ ptWoken' = IF ptWaiting /\ ~ptKilled THEN WakeChild ELSE ptWoken
  /\ ptOdd' = IF ptWaiting THEN ptOdd ELSE ptOdd \cup {"early"}
  /\ ChildSame /\ UNCHANGED <<ptTracer, ptSignal, ptLock, ptChld>>

Tracer ==
  \/ WaitChecks \/ TracerSleeps \/ WaitWakes
  \/ Inspects \/ BadRequest \/ TracerContinues \/ SingleStep \/ KillRequest

-----------------------------------------------------------------------------
(* kill(child, SIGKILL): deliver_signal_unlocked adds the signal under the *)
(* lock of the handlers, then looks for a registered sleeper and notifies  *)
(* it under its lock.                                                      *)

KillAdds ==
  /\ ptKiller = "idle" /\ ptKiller' = "wake" /\ ~ptKilled
  /\ ptChild \in {"run", "lock", "test", "sleep", "asleep"}
  /\ ptKilled' = TRUE
  /\ UNCHANGED <<ptChild, ptTracer, ptStopped, ptSignal, ptLock, ptWaiting, ptWoken, ptChld,
                 ptIgnores, ptStops, ptOdd>>

KillWakes ==
  /\ ptKiller = "wake" /\ ptKiller' = "done"
  /\ ptWaiting => ptLock = "free"
  /\ ptWoken' = IF ptWaiting THEN WakeChild ELSE ptWoken
  /\ ptOdd' = IF ptWaiting THEN ptOdd ELSE ptOdd \cup {"early"}
  /\ UNCHANGED <<ptChild, ptTracer, ptStopped, ptSignal, ptLock, ptWaiting, ptKilled, ptChld,
                 ptIgnores, ptStops>>

Killer == KillAdds \/ KillWakes
PtNext == Child \/ Tracer \/ Killer
PtSpec == PtInit /\ [][PtNext]_ptVars

-----------------------------------------------------------------------------
(* Properties.                                                             *)

PtTypeOK ==
  /\ ptChild \in {"run", "notify", "signal", "lock", "test", "sleep", "asleep", "gone"}
  /\ ptTracer \in {"idle", "wait", "asleep"} /\ ptKiller \in {"idle", "wake", "done"}
  /\ ptLock \in {"free", "child", "leaked"} /\ ptWoken \subseteq {"child", "tracer"}

\* A request never reads or changes a child that runs guest code: ptrace.stopped
\* is only seen set from the stop on, until a request clears it or the child exits.
NeverRunning == "running" \notin ptOdd /\ (ptChild = "run" => ~ptStopped)

\* A child that was continued does not sleep on, though the request and the
\* child's decision to sleep interleave; a SIGKILL on its way wakes it too, and
\* one that came too early leaves PTRACE_KILL nothing to do.
ContinueWakes ==
  ptChild = "asleep" /\ ~ptStopped => "child" \in ptWoken \/ ptKiller = "wake" \/ "early" \in ptOdd

\* The tracer does not sleep in wait on a stop it has not been told of.  A
\* tracer that leaves SIGCHLD ignored may: the notification without pids_lock
\* falls between its check and its sleep.
NoMissedStop ==
  ptTracer = "asleep" /\ ptSignal /\ ptStopped /\ ptChild \in {"lock", "test", "sleep", "asleep"}
    => "tracer" \in ptWoken \/ ptIgnores

\* Stops are reported, requests find the child at rest, and a continued child
\* wakes, in every interleaving of child, tracer and killer.
PtraceSafe == PtTypeOK /\ NeverRunning /\ ContinueWakes /\ NoMissedStop

\* "Any signals received while waiting are left on the queue, except for
\* SIGKILL_, which causes an immediate exit" (receive_signals): once SIGKILL has
\* been sent, the child does not sleep in its stop.
KillEndsStop == ptKiller = "done" /\ ptChild = "asleep" => "child" \in ptWoken
=============================================================================
