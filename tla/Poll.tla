-------------------------------- MODULE Poll --------------------------------
(***************************************************************************)
(* fs/poll.c and kernel/epoll.c: one struct poll, the descriptors          *)
(* registered with it, the threads that wait on it and the pipe that wakes *)
(* them.  A real descriptor (fs/real.c) is registered with the host's poll *)
(* too, which wakes the sleeper itself; for the others the code that made  *)
(* them ready calls poll_wakeup afterwards.  One kind of event, POLL_READ, *)
(* stands for each bit: the bits do not interact.                          *)
(***************************************************************************)
EXTENDS Naturals, FiniteSets, FiniteSetsExt

CONSTANTS Fds,          \* descriptors
          RealFds,      \* those whose poll operation is realfs_poll
          Slots,        \* memory for struct poll_fd (bound)
          PollThreads,  \* threads that may call epoll_wait
          MaxEvents,    \* size of the caller's buffer
          PipeRoom,     \* bytes the pipe takes; more are dropped (O_NONBLOCK)
          MaxRaises     \* how often a descriptor becomes ready (bound)

ASSUME PollAssumption ==
  /\ "free" \notin Fds
  /\ MaxEvents \in Nat \ {0} /\ PipeRoom \in Nat \ {0} /\ MaxRaises \in Nat

VARIABLES
  pollFds,   \* slot -> struct poll_fd; fd = "free" on the freelist
  readyFds,  \* descriptors that are readable
  due,       \* descriptors made ready whose poll_wakeup is still to come
  hostEdge,  \* slots of real edge-triggered descriptors the host will report
  pipe,      \* bytes in notify_pipe
  waiter,    \* thread -> "out", "asleep", or "woken" with events in hand
  inHand,    \* thread -> slots the events of real_poll_wait point to
  told,      \* history: registrations reported since they were last raised
  quiet,     \* history: registered, changed or left over by a full buffer
             \* while a thread was asleep
  shots,     \* history: slot -> reports since it was last armed
  raises     \* how often a descriptor became ready

pollVars == <<pollFds, readyFds, due, hostEdge, pipe, waiter, inHand, told, quiet,
              shots, raises>>

FreeSlot == [fd |-> "free", et |-> FALSE, oneshot |-> FALSE, triggered |-> FALSE,
             disabled |-> FALSE]

PollInit ==
  /\ pollFds = [s \in Slots |-> FreeSlot]
  /\ readyFds = {} /\ due = {} /\ hostEdge = {} /\ pipe = 0
  /\ waiter = [t \in PollThreads |-> "out"]
  /\ inHand = [t \in PollThreads |-> {}]
  /\ told = {} /\ quiet = {} /\ shots = [s \in Slots |-> 0] /\ raises = 0

Waiters == {t \in PollThreads : waiter[t] # "out"}
SlotsOf(fd) == {s \in Slots : pollFds[s].fd = fd}        \* poll_find_fd
IsReal(s) == pollFds[s].fd \in RealFds                   \* poll_fd_is_real

-----------------------------------------------------------------------------
\* Registering a descriptor arms it with the host if it is real.
Arm(s, fd, et, oneshot) ==
  /\ pollFds' = [pollFds EXCEPT ![s] = [fd |-> fd, et |-> et, oneshot |-> oneshot,
                                        triggered |-> FALSE, disabled |-> FALSE]]
  /\ hostEdge' = IF fd \in RealFds /\ et /\ fd \in readyFds THEN hostEdge \cup {s}
                 ELSE hostEdge \ {s}
  /\ told' = told \ {s}
  /\ quiet' = IF Waiters # {} THEN quiet \cup {s} ELSE quiet \ {s}
  /\ shots' = [shots EXCEPT ![s] = 0]
  /\ UNCHANGED <<readyFds, due, pipe, waiter, inHand, raises>>

\* poll_add_fd, from EPOLL_CTL_ADD (poll_has_fd comes first): the head of the
\* freelist, so any free slot.
PollAddFd(fd, et, oneshot) ==
  /\ SlotsOf(fd) = {}
  /\ \E s \in SlotsOf("free") : Arm(s, fd, et, oneshot)

\* poll_mod_fd rechecks readiness and rearms a delivered one-shot event.
PollModFd(fd, et, oneshot) == \E s \in SlotsOf(fd) : Arm(s, fd, et, oneshot)

\* poll_del_fd and poll_cleanup_fd: the slot goes to the freelist.
PollDelFd(fd) ==
  /\ \E s \in SlotsOf(fd) :
       /\ pollFds' = [pollFds EXCEPT ![s] = FreeSlot]
       /\ hostEdge' = hostEdge \ {s}
       /\ told' = told \ {s} /\ quiet' = quiet \ {s}
       /\ shots' = [shots EXCEPT ![s] = 0]
  /\ UNCHANGED <<readyFds, due, pipe, waiter, inHand, raises>>

-----------------------------------------------------------------------------
\* Someone makes a descriptor readable (eventfd_write, a terminal, a timer,
\* the host); the wakeup of one that is not real follows.
Raise(fd) ==
  /\ raises < MaxRaises
  /\ raises' = raises + 1
  /\ readyFds' = readyFds \cup {fd}
  /\ IF fd \in RealFds
       THEN /\ hostEdge' = hostEdge \cup {s \in SlotsOf(fd) : pollFds[s].et /\ ~pollFds[s].disabled}
            /\ UNCHANGED due
       ELSE due' = due \cup {fd} /\ UNCHANGED hostEdge
  /\ told' = told \ SlotsOf(fd) /\ quiet' = quiet \ SlotsOf(fd)
  /\ UNCHANGED <<pollFds, pipe, waiter, inHand, shots>>

\* The guest reads what there was.
Drain(fd) ==
  /\ fd \in readyFds
  /\ readyFds' = readyFds \ {fd}
  /\ hostEdge' = hostEdge \ SlotsOf(fd)
  /\ UNCHANGED <<pollFds, due, pipe, waiter, inHand, told, quiet, shots, raises>>

\* poll_wakeup: an edge-triggered registration reports again, and a byte goes
\* down the pipe while there is one.
Untrigger(p) == IF p.et THEN [p EXCEPT !.triggered = FALSE] ELSE p

PollWakeup(fd) ==
  /\ fd \in due
  /\ due' = due \ {fd}
  /\ pollFds' = [s \in Slots |-> IF s \in SlotsOf(fd) THEN Untrigger(pollFds[s]) ELSE pollFds[s]]
  /\ pipe' = IF Waiters # {} /\ SlotsOf(fd) # {} THEN Min({pipe + 1, PipeRoom}) ELSE pipe
  /\ told' = told \ SlotsOf(fd) /\ quiet' = quiet \ SlotsOf(fd)
  /\ UNCHANGED <<readyFds, hostEdge, waiter, inHand, shots, raises>>

-----------------------------------------------------------------------------
(* poll_wait.  Everything between lock and unlock of poll->lock is one      *)
(* step: the look at every descriptor, and either the return or the sleep. *)

Reportable(fds, s) ==
  /\ fds[s].fd \in readyFds
  /\ ~fds[s].disabled
  /\ ~(fds[s].et /\ fds[s].triggered)

\* A one-shot registration that stays armed.
ReportedArmed(p) == [p EXCEPT !.triggered = p.et]

\* The callback took the event: the one-shot is disabled, the edge is marked.
Reported(p) == [p EXCEPT !.disabled = p.oneshot, !.triggered = p.et]

\* poll_wait leaves; the last waiter closes the pipe.
LeavePoll(t) == IF Waiters = {t} THEN 0 ELSE pipe

Look(t, fds, bytes) ==
  LET found == {s \in Slots : Reportable(fds, s)}
  IN  \/ /\ found = {}
         /\ waiter' = [waiter EXCEPT ![t] = "asleep"]
         /\ pollFds' = fds /\ pipe' = bytes
         /\ UNCHANGED <<hostEdge, told, quiet, shots>>
      \/ \E taken \in SUBSET found :
         /\ found # {} /\ Cardinality(taken) = Min({Cardinality(found), MaxEvents})
         /\ pollFds' = [s \in Slots |-> IF s \in taken THEN Reported(fds[s]) ELSE fds[s]]
         /\ hostEdge' = hostEdge \ {s \in taken : fds[s].oneshot}
         /\ told' = told \cup taken
         /\ quiet' = IF Waiters \subseteq {t} THEN {} ELSE (quiet \cup found) \ taken
         /\ shots' = [s \in Slots |-> IF s \in taken THEN Min({shots[s] + 1, 2}) ELSE shots[s]]
         /\ waiter' = [waiter EXCEPT ![t] = "out"]
         /\ pipe' = IF Waiters \subseteq {t} THEN 0 ELSE bytes

\* sys_epoll_wait enters.
PollWait(t) ==
  /\ waiter[t] = "out"
  /\ Look(t, pollFds, pipe)
  /\ UNCHANGED <<readyFds, due, inHand, raises>>

\* What the host reports: level-triggered real descriptors that are ready, and
\* edges, which it reports once.
HostEvents ==
  {s \in Slots : IsReal(s) /\ ~pollFds[s].disabled /\ ~pollFds[s].et /\ pollFds[s].fd \in readyFds}
    \cup hostEdge

\* real_poll_wait returns, with the events in hand and no lock held.
RealPollWait(t) ==
  /\ waiter[t] = "asleep"
  /\ pipe > 0 \/ HostEvents # {}
  /\ waiter' = [waiter EXCEPT ![t] = "woken"]
  /\ inHand' = [inHand EXCEPT ![t] = HostEvents]
  /\ hostEdge' = {}
  /\ UNCHANGED <<pollFds, readyFds, due, pipe, told, quiet, shots, raises>>

\* The lock again: edges are untriggered by slot, whatever the slot holds by
\* now, one byte is read, and the loop looks again.
Relook(t) ==
  /\ waiter[t] = "woken"
  /\ Look(t, [s \in Slots |-> IF s \in inHand[t] /\ pollFds[s].fd # "free"
                              THEN Untrigger(pollFds[s]) ELSE pollFds[s]],
          IF pipe > 0 THEN pipe - 1 ELSE 0)
  /\ inHand' = [inHand EXCEPT ![t] = {}]
  /\ UNCHANGED <<readyFds, due, raises>>

\* The timeout, or a signal: nothing is reported.
GiveUp(t) ==
  /\ waiter[t] = "asleep"
  /\ waiter' = [waiter EXCEPT ![t] = "out"]
  /\ pipe' = LeavePoll(t)
  /\ UNCHANGED <<pollFds, readyFds, due, hostEdge, inHand, told, quiet, shots, raises>>

PollNext ==
  \/ \E fd \in Fds :
       \/ \E et, oneshot \in BOOLEAN : PollAddFd(fd, et, oneshot) \/ PollModFd(fd, et, oneshot)
       \/ PollDelFd(fd) \/ Raise(fd) \/ Drain(fd) \/ PollWakeup(fd)
  \/ \E t \in PollThreads : PollWait(t) \/ RealPollWait(t) \/ Relook(t) \/ GiveUp(t)

PollSpec == PollInit /\ [][PollNext]_pollVars

-----------------------------------------------------------------------------
\* No event is slept over: when a thread sleeps while a registration has an event
\* nobody was told of, something is on its way to wake it (the writer's
\* poll_wakeup, a byte in the pipe, the host, or a thread that is about to look),
\* or the descriptor was registered or changed while a thread slept, which in
\* this code wakes nobody (fs/poll.c poll_add_fd, poll_mod_fd), or a thread with
\* a full buffer left the event to its next call.
NoEventSleptOver ==
  \A s \in Slots :
    ((\E t \in PollThreads : waiter[t] = "asleep") /\ Reportable(pollFds, s) /\ s \notin told)
      => \/ pollFds[s].fd \in due \/ pipe > 0 \/ s \in HostEvents
         \/ \E t \in PollThreads : waiter[t] = "woken"
         \/ s \in quiet

\* "only one thread can get each oneshot event" (fs/poll.c:260): between two
\* armings a one-shot registration is reported at most once, by whichever thread.
OneShotOnce == \A s \in Slots : pollFds[s].oneshot => shots[s] <= 1

PollSafe == NoEventSleptOver /\ OneShotOnce
=============================================================================
