# CodexPad in TLA+

CodexPad runs the Codex agent on an iPad. One process holds three layers: a
SwiftUI workspace (`app/CodexPad`), the Codex app-server (a Linux program that
is not part of the repository), and iSH: a user-mode x86 emulator with a Linux
kernel of its own (`kernel`, `fs`, `emu`, `asbestos`, `util`). The workspace
talks JSON-RPC over a WebSocket to the server, the server makes Linux system
calls, and iSH answers them with one host thread per guest thread.

This directory models the parts of that system whose correctness depends on the
order in which things happen: locks, sleeping and waking, timers, processes,
signals, memory and translated code, files of every kind, terminals, sockets, the
RPC client and the workspace model on top of it; and the functions whose results
are easy to get wrong at an edge (paths, program headers, record locks, floating
point). Every action is translated from the code; the file `PROJECT.json` gives,
for every definition, the lines it stands for.

- [Inventory](#inventory)
- [What is modelled](#what-is-modelled)
- [Runs](#runs), [bounds](#bounds), [fairness](#fairness)
- [Proofs](#proofs)
- [Deviations found](#deviations-found)
- [Plan](#plan)
- [Not modelled](#not-modelled)

## Inventory

| Component | State | Operations | Talks to | What is hard | What makes it correct |
| --- | --- | --- | --- | --- | --- |
| Read-write lock (`util/sync.h`) | holders, waiting writers, two conditions | read/write lock and unlock | memory, translator | lost wakeups, starvation | exclusion, writers first, whoever waits is served |
| `wait_for` (`util/sync.c`, `kernel/signal.c`) | `waiting_cond`, `waiting_lock`, their lock | sleep, notify, wake by signal, time out | every blocking call | the signal arrives while the task is about to sleep | no notification and no signal is slept through |
| Futexes (`kernel/futex.c`) | a queue and a reference count per key | wait, wake, requeue | guest locks, thread exit | requeue and timeout of a sleeper | counts exact, no missed wake, first come first served |
| Tasks and groups (`kernel/fork.c`, `exit.c`, `task.c`) | pid table, families, groups, exit codes | clone, vfork, exec, exit, exit_group, wait, stop | signals, futexes, memory | threads that exit, fork and wait at once | no dangling parent or group, one zombie per group, no exit missed |
| Signals (`kernel/signal.c`) | dispositions, masks, queue, frames | sigaction, sigprocmask, sigsuspend, sigtimedwait, delivery, sigreturn | everything that sleeps | temporary masks, nested handlers | each level keeps its mask, what wakes a call is delivered, SIGKILL kills |
| Memory (`kernel/memory.c`, `mmap.c`, `emu/tlb.c`) | page tables, host mappings, translation caches | map, unmap, protect, fork, fault | lock, translator | faults that give up the lock, cached translations | exact counts, no stale translation, isolation of processes |
| RPC client (`CodexRPC.swift`) | connection state, socket, generation, continuations, deadlines | connect, request, notify, disconnect, receive | workspace model, server | awaits between check and use, late answers | each request resumes exactly once, old sockets do not hurt new ones |
| Timers (`util/timer.c`, `kernel/time.c`) | a thread per timer, deadline, interval | set, free, fire | signals, timerfd | callback against set and free | no deadlock, no callback after free |
| Process groups (`kernel/group.c`) | membership lists | setpgid, setsid, kill of groups | signals, terminals | members that exit | a group's signal reaches its members |
| Descriptors (`fs/fd.c`) | tables, reference counts | open, dup, close, close-on-exec | all files | close during use | a descriptor lives while it is used |
| Record locks (`fs/lock.c`) | ranges per inode | lock, unlock, wait | descriptors | splitting at the edges, blocked waiters | the bytes locked are the bytes asked for |
| Poll (`fs/poll.c`, `kernel/poll.c`, `epoll.c`) | interest lists, notify pipe, edge and one-shot state | add, modify, delete, wait, wake | all files | sleeping without the lock | no event is lost, none reported twice |
| Eventfd, pipes | a counter, host pipes | read, write | poll | the limits of the counter | no lost wakeup |
| Terminals (`fs/tty.c`, `pty.c`) | line buffer, sessions, two sides | input, read, write, hangup | signals, front end | locks dropped halfway | no input lost, both sides close |
| Sockets (`fs/sock.c`, `sockrestart.c`) | host sockets, unix peers, passed descriptors | connect, accept, send, restart | host, poll | peers that vanish, suspension | no dangling peer |
| Paths and mounts (`fs/path.c`, `mount.c`) | mount list, reference counts | normalise, mount, unmount | filesystems | unmount during use | the longest mount point wins, busy mounts stay |
| fakefs (`fs/fake*.c`) | a host directory and a database | create, link, unlink, rename | SQLite, host | a crash between the two | the two agree |
| tmpfs (`fs/tmp.c`) | a tree, arrays of bytes, offsets | file operations | descriptors, mounts | shared offsets, listings that go on while names come | bytes and offsets are those POSIX gives |
| realfs, procfs, devices | host descriptors | file operations | paths | | |
| Loader (`kernel/exec.c`) | the new image | execve | memory, signals | page edges, "#!" lines, failure after the point of no return | each byte of a segment is where the file says |
| Translator (`asbestos`) | block cache, chains, jetsam | compile, chain, invalidate, free | memory, lock | invalidation while others run | no thread runs freed code |
| CPU, FPU (`emu`, gadgets) | registers | instructions | translator | rounding, denormals, destination aliased with source | results are those the instruction means |
| Ptrace (`kernel/ptrace.c`) | tracer, stops | trace, wait, continue | signals | stop against kill | a tracer sees each stop once, a killed child goes |
| Workspace model (`CodexWorkspaceModel.swift`) | threads, turns, timelines, approvals | user intents, notifications | RPC client | answers older than notifications | newer state is not overwritten |
| Front ends (`app`) | views, terminal buffer | | | main thread against guest threads | |

## What is modelled

Components that do not share state are checked in one run where they belong
together: `MCThreads`, `MCProcess`, `MCMemory` and `MCFiles` choose a `part` in
the initial state and let only that component move. Most parts are modules the
MC module extends, with variables of their own that stay in their initial state
while another part runs; the invariants of such a part are those its proof is
about. Terminals, sockets and the functions without state are instances
(`INSTANCE ... WITH`) over variables `v1`, `v2`, ... that they share. A property
of a run speaks of the parts it names; where it joins statements about different
code, PROJECT.json lists several mutants for it.

A few modules define, next to their properties, a statement that a comment or a
manual page makes and the code does not satisfy. These are named under
[Deviations found](#deviations-found) and are in no passing run.

### ReadWriteLock, WRLock

`wrlock_t` as built for Apple platforms: a mutex, two conditions and counters.
A critical section under the mutex is one action; a thread is idle, asleep on a
condition, woken and about to re-test, or holds the lock. `ReadWriteLock` says
what a lock promises: holders exclude each other, waiting means asking first.
`ImplementsReadWriteLock` maps the counters to the holders. Mutants are changes
such as a reader that ignores waiting writers.

### WaitFor

One task that calls `wait_for` again and again, now under its own sighand lock,
now under another lock (`kind`), and any number of senders of signals. The steps
are those between two lock operations: test for a signal, publish
`waiting_cond`, sleep, relock, unpublish, test again; the sender sets the
pending bit, takes `waiting_cond_lock`, tries the waiting lock and retries.
A sender in `Holders` may itself hold the lock the task waits on (the `mine`
case). Timeouts and spurious wakeups may happen at any time.

### Futex

The table of futexes under `futex_lock`: reference counts, queues, waits that
are woken, requeued, time out or are interrupted. The guest's word is a set of
stores (`Store`), so the comparison in `futex_wait` can race with it.

### Process

Tasks by pid: families, thread groups, zombies. A system call is split where the
code gives up `pids_lock`: `Clone`/`CloneJoin` (the task is on its parent's list
before it is in its group), `DoExitGroup`/`DoExit`, `WaitPass`/`WaitSleeps`.
Pids are reused. `guest` is chosen once from `Guests`: how many pids, which
signals and which features (vfork, exit_group, parent-death signals, shutdown)
that guest uses. One run thus covers several small programs instead of one
product of everything; the actions are the same for all of them.

### Signals

One task in detail: dispositions, the mask, the mask saved for the length of a
call, the queue and the frames on the guest's stack. `receive_signals` is three
actions (start, one signal, end) and holds the sighand lock throughout, so no
signal is sent in between. `wanted` is a history of the mask the guest expects
at each level of handlers; `taken` records what `sigtimedwait` took off the
queue without clearing its pending bit; `due` what was pending and let
through when a sleeping call ended. `poll_wait` sleeps in the host and has its own
steps: it looks for a signal under the sighand lock (`PollTested`), gives the lock
up, and begins the host's wait (`PollSleeps`). The sender's one SIGUSR1 ends a wait
that has begun (`Send`); one that comes before is lost, and the task then sleeps
through its signal (`SleptThrough`) until an event, the timeout or another signal.

Process and Signals split the signal code: Process keeps only the queue of each
task and what stop, continue and kill do to groups; Signals keeps masks and
handlers of one task. `WaitFor` is the step "a sleeper notices" of both.

### Memory

Address spaces, page tables, reference-counted host mappings, and each thread's
translation cache. Running guest code holds the read lock of the address space
(`at = "user"`), changes need it free (`NoReaders`), and a fault gives up one
lock before it takes the other (`FaultUnlocks`, `Resolve...`). Contents are
real: `cell` and `val` give the value each process expects to read, which is
what `Isolation` compares. Guests are chosen as in Process.

### Asbestos

The translated blocks of one address space: found in a thread's own cache or in
the table, compiled, chained by patching jumps, thrown out when their page changes
(`Invalidate`) and freed when no thread holds `jetsam_lock` (`FreeJetsam`, which
looks first and waits after). `AsbSafe` says that nothing a thread can reach, by
its own pointers or along patched jumps, is freed, that blocks in the table lead
only to blocks in the table, and that the back links are exact: they are what
invalidation relies on. `WRLock` is the lock it waits for.

### Fpu, Float80, Vec

`Fpu` is the x87 register stack as instructions move it, compared with the list a
program sees, over fsave and frstor; and the rounding mode, which the arithmetic
reads from a variable of the host thread. `Float80` has the arithmetic of
`emu/float80.c` with `SigBits` for 64 and `ExpBits` for 15, each operation against
the exact result: always one of its two neighbours, and correctly rounded except on
the inputs that `MulExact`, `DivExact` and `AddExact` name (listed under deviations
below). `Vec` has shifts, saturating arithmetic, comparisons, shuffles, unpacking and
packing on registers of small bytes, with source and destination the same or not,
against lane-by-lane definitions that take a shift count as a whole. Two differences
are named and everything beside them is required: `CountCut`, a count in a register
that needs more than a byte, and `PackedTwice`, six bytes of a register packed into
itself.

### Timer

A timer, the host thread that fires it, and the one guest thread that sets and
frees it, each taking `timer->lock` and the owner's lock where the code does.
`owner` is chosen once: a timerfd with a reader, the interval timer of a group, or
a POSIX timer of each kind. `tghost` remembers what the timer was armed for.
`clock_nanosleep` has no timer and is a small machine beside it.

### Groups, Kill, Ptrace

`Groups` has the lists of `struct pid`, which say who is in a session and in a
process group, and the controlling terminal: fork, setpgid, setsid, terminal
ioctls, exit, reaping. `Kill` splits kill, tgkill and tkill where `pids_lock` is
released between the members of a group, so that members die and are reaped in
between. `Ptrace` is a child that stops, its tracer and a third process that kills
it, on `ptrace.lock` and the two conditions. All see a signal as delivered; what
it does then is in Signals.

### Exec

The second half of execve as functions: `load_entry` over page edges and biases,
the arguments of `#!` lines against the rule Linux documents, and the layout of
the stack.

### Pty, TtyLine, Devpts

`Pty` is the pair of terminals with their locks in the order the code takes and
drops them: input from one side is delivered under the other side's lock, a poll
wakeup drops the lock halfway, the sides are freed separately. `TtyLine` is the
line discipline next to an editor as a user has it in mind: what is read is what
was typed and not erased, the screen shows it. `Devpts` is the table of numbers:
reserve, create, look up, open, list.

### FdTable, RecordLocks

`FdTable` follows reference counts through shared and copied tables, with the
calls that look a file up and use it later; `fdRaced` marks the calls that the
code leaves unprotected (`f_get` gives no reference), and the property covers all
others. `RecordLocks` edits the ordered list as `fs/lock.c` does, byte for byte
against a map from bytes to modes. Offsets are two's complement numbers of which
`FileEnd` is the last, and a request may have any start and length the guest can
pass. Ranges below zero, which POSIX refuses, are bytes like all others; after one
that does not fit, which the code takes too, `lockOdd` is set and nothing more is said.

### Poll, PollCalls

`Poll` has one `struct poll` with its two locks, virtual descriptors that call
`poll_wakeup` and real ones the host watches, edge-triggered and one-shot
registrations, slots used again after close, the pipe, and any number of waiters.
`due` and `told` remember what was raised and what was reported. `PollCalls` has
what poll and select do with their arguments as functions.

### Sockets, SockNames

`Sockets` puts the emulator's half of a local connection (peer pointers, queues of
passed descriptors) beside the host's half (streams, backlog), with a step for
each time the emulator gives up its locks. `SockNames` has the numbers behind
paths and abstract names.

### FakeFS, TmpFS, Mounts, Paths

`FakeFS` keeps the host directory and the two tables of the database apart. Every
call is a host half and a database half; the program may stop in between and
start again, which loses what was not committed and runs the repair at mount.
`torn` remembers the names at which a stop, a race or a rename between two links of one
file (`OneFile`: the host leaves both names, the database moves the row) left the halves
apart, and the property covers the rest. `TmpFS` takes calls of threads that share
descriptors apart at every load and store of an offset or a position, with the locks the
code takes: read and write that of the inode, lseek, pread and pwrite that of the
descriptor, getdents none from one entry to the next. It is compared with a reference of
bytes, offsets and listings; while calls under different locks are at work on one
descriptor they are `mixed`, and the reference takes over what they leave when all have
ended (`Leaves`). `Mounts` counts the references that calls, descriptors, inodes and
working directories hold; `Paths` compares `path_normalize` and `mount_find` with
a walk from directory to directory.

### RPCClient

The client actor: a step is what runs between two awaits. Continuations,
deadline tasks, send tasks and cancellation handlers are sets of request ids;
each socket has a receive loop; the server may answer, answer twice, answer
late, close or never answer.

### Workspace

`CodexWorkspaceModel` over an abstract RPC client and app-server. A task of the
app is suspended on one request at a time (`task`); what it does before and after
each await is an action of its own (`SendComposer`, `CreateDone`, `TurnDone`,
`TurnFailed`, ...), and a task goes on to the next request in the same step where
the code does not await in between. The counters `selectionGeneration`,
`turnRevisions` and `timelineRevisions` are only ever compared with an earlier
reading, so each task keeps the outcome of that comparison (`sel`, `tn`, `tl`)
instead. Text is a sequence of pieces the user typed, timelines are sets of
prompts and answers; the order of the thread list is left out. The server reads
requests in any order, may refuse them, and its answers and its notifications are
two independent streams. A request that misses its deadline stays in the server's
inbox. The RPC client is what `RPCClient` shows: every request resumes once, and
a lost connection resumes all of them with an error; the tasks run later, possibly
after the next connection is up.

## Runs

| Run | Parts | Shows |
| --- | --- | --- |
| `threads` | WRLock, Signals, Timer | No wakeup of the lock lost, writers first, refinement of the abstract lock, everyone who waits is served; queue and pending set agree, masks are kept per level, what ends a call is delivered first, unblocked signals are received and SIGKILL is fatal except where poll_wait sleeps through them; armed timers have a thread, fire when due, never early, keep their phase, and are freed once |
| `wait_for` | WaitFor | No notification lost; under the sighand lock no signal slept through; a signal is eventually taken (the trylock and retry of the sender is what keeps the two lock orders from deadlocking) |
| `wait_for_race` (violated) | WaitFor | Under any other lock a signal can be slept through |
| `futex` | Futex | Reference counts exact, every sleeper findable, none sleeps past its wake, first come first served |
| `process` | Process, Groups, Kill, Ptrace, FdTable, Exec, Pty, TtyLine, Devpts | Families sound, zombies exact, exits and ends of vfork noticed; the lists of groups and sessions agree with what each process believes; kill reaches every member that stays and touches no freed one; stops are reported once; references of open files exact, whoever shares or copies a table; both ends of a terminal close and wake; lines are what was typed; programs are laid out as their files say |
| `exit_group_status` (violated) | Process | A queued stop signal overwrites the status of exit_group |
| `memory` | Memory, Asbestos, Fpu, Float80, Vec | Reference counts exact, no stale translation, isolation; no freed block reachable, links exact; the FPU stack is the program's; arithmetic exact but for named inputs |
| `memory_mprotect` (violated) | Memory | mprotect after fork breaks isolation |
| `files` | RecordLocks, Poll, Sockets, SockNames, FakeFS, TmpFS, Mounts, Paths, PollCalls | References of mounts and inodes exact; events neither lost nor repeated; locked bytes exact; peers and passed descriptors agree with the host; database and directory agree across stops; tmpfs holds what was written; paths, poll and select meet their references |
| `rpc` | RPCClient | Exactly one resumption, no poisoning by old sockets, requests and connect end |
| `rpc_stale` (violated) | RPCClient | `connected` without a socket |
| `workspace` | Workspace | Typed text is neither lost nor in two places, a completed turn does not come back, a failed prompt does not stay, live items are not erased |

Each property of a passing run has at least one mutant: a definition changed as a
plausible bug would change it, under which TLC finds the property violated.

### Bounds

- `threads`: five threads on the lock, so that two writers, a reader that holds and
  readers that wait can coexist with a release (no symmetry: it checks liveness);
  two ordinary signals (one ignored by default) and SIGKILL, a plain handler and
  one that masks both and resets itself, at most two signals queued or being
  handled (`MaxFrames`), which is what nesting needs; time runs to 3 and the timer
  is set twice: once, and again while its thread sleeps, fires or ends.
- `wait_for`: two senders, one of which may hold the lock. The proofs remove the
  bound.
- `futex`: three threads, two keys, two bitsets, wake counts up to two: a sleeper
  can be requeued behind another and both can expire.
- `process`: four pids for a family without extras, three with features: a parent,
  a child and a thread of either, or init and an orphan. Three processes for
  groups; six tasks in four thread groups for kill, so that the leader, a thread
  and a process of another user die in the middle; two numbers and two threads that share a table of two files, or have
  a copy each while one file is open (`FewFiles`); one master and two slaves with
  two opens and buffers of two; lines of three characters and five keys: a line
  that is erased, one that is full and one typed ahead; two pty numbers; all
  program headers around the edges of pages of four bytes, and all first lines of
  six characters after "#!".
- `memory`: two address spaces, two threads, two pages, three host mappings, two
  values, three changes of a page table (`MaxChanges`): map, fork, copy. Two
  blocks at two addresses that jump to each other, one of which ends in a call;
  the FPU with two registers; every pair of finite numbers with significands and
  exponents of three bits, in four rounding modes; bytes of three bits, so that a
  count of one byte can be more than a lane of two: all pairs of lanes of one and two
  bytes, lanes of four bytes near every limit.
- `files`: two threads wherever a call can be overtaken. Two owners on three bytes;
  one virtual and one real descriptor with two slots and two raises; three sockets,
  one file passed in two messages; four socket numbers; a thread of fakefs with four
  names, a directory's with something in it among them, and another that comes in
  between at one of these, over two host files and two rows, with a stop or a torn name
  (`MaxTorn`); in tmpfs files of two bytes, three entries, and one descriptor that two
  threads share, one with sixteen calls, the other with one of each kind, files of a tree
  with all its entries being empty (`SmallOrEmpty`); three mounts, one of them over another;
  paths of three components over four trees; poll arrays of three.
- `rpc`: two concurrent callers of connect, two requests, three generations (a
  connection, its replacement, and the one after a disconnect).
- `workspace`: a new installation, two threads, two suspended tasks, two pieces of
  text, one turn, three things the user starts (`MaxActs`) and one lost connection
  or missed deadline (`MaxFaults`). That is a send that creates a thread, a
  selection away and back, and a failure anywhere among them; refusals are not
  bounded. Threads and tasks are symmetric: no property names one.

The composed runs keep each part small. Larger instances of the parts, checked
apart without a change of result: three blocks (Asbestos), two files in two tables
(FdTable), four names with two threads (FakeFS), two open files (Mounts), six keys
(TtyLine).

Deadlock is checked in `wait_for` and `futex`. The others may stop: their bounds
run out, everybody may have exited, a function has been computed, or the task is
dead. For the lock `Progress` says more than the absence of deadlock.

### Fairness

- The lock (`threads`): a woken thread gets to run and a holder releases the lock.
  Nobody need ask for it. The wakeups are conditions under a mutex, and all users
  of the lock in `kernel/memory.c` and `asbestos.c` release it.
- The timer (`threads`): the clock moves on, the timer thread runs when it can, and
  a call that holds a lock goes on. Nobody need set a timer. `TimerFires` excepts
  the state `Inverted`, in which both threads wait for ever (see below).
- `wait_for`: strong fairness for steps that take a mutex (a mutex that is free
  again and again is eventually obtained), weak fairness for the retry loop and
  for a lock holder to go on. Nobody need notify.
- The signals (`threads`): a task in the kernel goes on; guest code is interrupted
  by the timer (every 1024 blocks, `asbestos.c`) and so reaches `receive_signals`; a
  sleeping call returns when a signal is pending and not blocked, which `wait_for` shows
  for waits under the sighand lock. `poll_wait` is only assumed to reach the host's
  wait, and to leave it once SIGUSR1 has interrupted it (`GoesOn`): no event and no
  timeout need come, so a wait that missed its signal stays. Handlers need not
  return.
- `rpc`: deadlines elapse, their tasks run, and a connect whose await has ended
  goes on. The server, the socket and the user may do nothing at all.

## Proofs

All for every value of the constants; tlapm checks them to the last leaf. Each
proof module has one section per component, in the order: types, lemmas about the
operators, one lemma per action, the theorem.

**Induction.** The provers cannot instantiate a theorem that has an operator as a
parameter, which induction usually is. `SetInduction` and `BoundedInduction` state
it for a set of numbers instead of a predicate, and are proved from the least
element of a set. With them the proofs below show what a recursive function, a loop
over a list or a filter of a sequence computes: the existence of the function is
one induction, what it returns another.

**ThreadProofs.** Three components. For the read-write lock the inductive
invariant is typing, `Accounting` (the counters equal the numbers of threads in
each state) and `NoLostWakeup` (if the lock is free and somebody waits, somebody
is on the way). Accounting is needed because the tests in the code read counters
and the property speaks of threads. The set of threads is assumed finite;
cardinality facts are in the lemma `Counts`. `LockIsSafe` follows;
`WritersFirst` from the guard of readers and accounting; `Refinement` maps every
step to a step of `ReadWriteLock` or a stutter.

`TimersSafe`: an armed timer has a thread, is not fired early and
keeps its phase, a timer is freed by the last who uses it, and a sleeper is not
woken early. The invariant adds that the timer thread has `timer->lock` while it
looks or fires (`ThreadHolds`), that a freed timer is never armed again
(`Disarmed`), that the next expiry is the first one plus the number of expiries
times the interval (`Phase`, without which the step that adds the interval proves
nothing), and the deadline of `clock_nanosleep` (`NapSound`). The times are assumed
to be natural numbers (`TimerAssumption`), and nothing about how many there are.

`SignalsAreSafe`: what is queued is pending, once; a mask comes back
as it was whatever handlers nest; what is pending and not blocked when a sigsuspend,
a pause or a poll ends is received before the guest runs again. (It does not say
that nothing blocked is delivered: `receive_signals` decides by the mask at its
start, and delivers what a handler of the same loop has just blocked.) The invariant adds what each frame on the guest's stack will restore
(`MasksInv`: the masks saved in the frames are the masks that were wanted at that
depth, and the one in force is the mask wanted now or it is saved), and which signal
a woken wait still owes (`DueInv`). Its hypothesis `MasksWithoutKill` is that no
handler's mask contains SIGKILL: `kernel/signal.c:280` does not filter `sa_mask`,
and the theorem does not speak of a guest that puts it there. The masks of
sigprocmask and sigsuspend are filtered by the code and may be anything.

**SleepProofs.** Two components. For `wait_for` the invariant is typing with the
ownership of the locks, and `NoneInTheWindow`: under the sighand lock no signal
becomes pending between the test and the sleep, because the sender needs that very
lock. `NotifySafe` and `SignalSafe` follow, for any set of senders and any mixture of
locks. That the window is open under another lock is the run `wait_for_race`.

`FutexesAreSafe`: a futex has as many references as threads refer to it, whoever
sleeps is in the queue it can be woken from and there only once, and none sleeps
past a wake. `FutexSafe` is inductive with the types of what a thread waits for
(`WaitTypes`). What removing some waiters leaves of a queue (`Without`, the loop of
`futex_wakelike`) is an induction over its length: nobody else disappears, nobody
appears twice (`Keeps`). `ServedInOrder` is the action property of the run: of two
sleepers with the same bitset in one queue no wake takes the later one alone, and no
requeue puts it in front. For it the same induction is done once more with the order
in the queue (`Ordered`).
`FutexAssumption`: threads are finite, since they are counted, no bitset is empty
(futex(2) refuses it), and NoKey is not a key.

**CodexProofs.** Two components. `ExactlyOnce`: a request has a continuation in `pending`
exactly as long as it was not resumed, ids not yet used are fresh, and nothing is
pending without a socket. `NotPoisoned` rests on `SocketIsGeneration`: the
current socket belongs to the current generation, so the comparison in the
receive loop recognises an old one.

`TextIsKept`, `NoTurnIsAGhost` and `TimelinesAreTrue`, from one
invariant `WSInv`; none of the three is inductive. A text may be in the editor of a
thread or in a task, and every step leaves each place alone, moves the whole of one
place into another (`Moving`) or drops what the server took (`Staying`). That a first
send may carry the unsent text into the new thread needs that the draft there is empty
(`NewThreadInv`), which needs that the server makes only threads the app has never
heard of (`KnownInv`), and that one thread is created at a time (`CreateInv`). A turn
shown is one whose end the app will hear: it runs on a thread this connection hears of,
or the notice is on the wire behind the place in question (`EndComes`); an answer that
a task has not yet applied is covered as long as `turnRevisions` has not moved, which
is what the counter is for. A snapshot holds everything its timeline got by
notification as long as `timelineRevisions` has not moved (`TimelineInv`). A request
in the inbox is that of the task that waits for it, or of nobody (`InboxInv`). Steps
are grouped by who takes them: the app (`AppSteps`), the server (`ServerSteps`), a
notification (`NotedSteps`), the connection (`ConnectionSteps`); each action is shown
to be such a step. Nothing is assumed but `WorkspaceAssumption`: the server had some
of the threads, and nil is neither a thread nor a task.

**ProcessProofs.** Four components. `FamiliesAreSafe` (types, `FamilySound`, `ZombieExact`) and
`EndsAreSeen` (`NoMissedExit`, `VforkEnds`), for any number of pids and guests with any
features. The invariant ranges over the whole process tree. `FamilySound` is not
inductive: a fork that failed would take a parent away if a task under construction
could have children, so `Creating` says whose child it is and that it leads nothing;
a reaped leader would leave threads pointing at it, so `Remains` says that only
init's group leaves dead threads behind; and init is never a zombie (`Root`).
`NoMissedExit` needs `Generations`: the parent of a leader is in another group and
that of a thread in its own, so the group that `exit` wakes is not the one that has
just died, and a zombie found through a thread's pid cannot be the caller's own
group. `VforkEnds` needs that the child of a waiting vfork parent has joined its
group, or else its failure could be missed. What `exit` does is stated pid by pid
(`Leaves`, `Left`) before anything is concluded from it. Only the range of
`MaxPid` and the shape of guests (`ProcessAssumption`) is assumed.

`TracingSafe`: requests never reach a child that runs, a child
that was continued wakes, and a tracer that handles SIGCHLD does not sleep through
a stop. The invariant adds who has `ptrace.lock` and who is registered as a sleeper
(`AtTheLock`), and why nobody sleeps for nothing: a child that was killed is still
to be woken, was woken, or was killed too early (`KillAttended`), and a tracer on
its way to sleep has SIGCHLD pending when there is a stop (`StopAttended`). Nothing
is assumed of the constants: there may be any number of stops.

`GroupsAreSafe`: every process is on the list of its session and on
exactly one group list, its own group's unless setpgid led it astray; a session's
leader leads its own session; the terminal's references are its files and the
processes that have it, all of its session. The invariant `GroupsInv` says the same
without counting (`SessionsExact`, `OneList`, `OwnList`) and adds that nobody is on a
list, or has the terminal open, who does not exist: without that a number that
`fork` reuses could be on a list already. The table of pids is assumed finite.

`KillsAreSafe`: kill signals only those it may, returns 0 exactly when it has
signalled somebody and EPERM for a group only if nobody in it could be signalled, and
`pids_lock` has one holder. `KillInv` says who is past `pids_lock`, that
nothing is sent before the body, and which group a call that passed the test names;
what the loop over a group answers is an induction over the list (`Loops`).
`LastingGroups` is its hypothesis: the groups named by the calls have a member that
does not die. For any other group kill_group releases `pids_lock` twice
(`kernel/signal.c:715`) and `PidsLockHeld` is false.

**MemoryProofs.** Two components. `MemoryIsSafe`: every host mapping has as many
references as page table entries name it, and a running thread uses no translation
that its page table does not give. The references of one address space are counted
apart from those of the others (`SplitRefs`), so that each call is a change of one
summand; a copy of a page table adds a summand (`pt_copy_on_write`), a last exit
removes one. For the translations, a thread has never seen more changes than there
were (`SeenInv`), and one that has seen all of them caches only what the table says
(`TlbSound`), because every call that takes a right away counts a change. Its
hypothesis `LockedGuests` excludes mremap with a second thread, where the property
is false (`kernel/mmap.c:151` takes no lock). `MemoryIsIsolated` is about the
contents, on top of that invariant: two pages are the same page of the host only if
the guest expects it (MAP_SHARED) or neither can be written without a copy
(`Aliases`); pages expected to be one memory are one page of the host (`OwnCells`);
and what nobody maps is blank (`Contents`), so that a mapping that is used again
shows nothing of its past. The pages a fork shares, and the page a fault copies, are
shown either to stay as they were or to be the only ones of their host page. Its
hypothesis `UnprotectedForks` excludes mprotect in guests that fork: it drops the
copy-on-write flag, which is the run `memory_mprotect`. Address spaces and pages are
assumed finite, since they are counted.

`BlocksAreSafe` is about the translator: no thread and no patched jump reaches a
freed block, blocks that can be found lead only to such blocks and are listed there,
and an address has one block. A block that was thrown out keeps its jumps, and what it
jumps to may be thrown out after it, so the invariant has two halves. `LinkedUp` says
of all blocks that a jump leads to a block that is not freed (`JumpsKept`), and of
those that can be found that their jumps and the back links agree (`JumpsFound`,
`FromFound`) and that each has an address of its own (`OneBlock`). `ThreadSound` says
of a thread that what it points at is not freed, and that outside of the loop, where
it has given up `jetsam_lock`, it points at nothing: this, not the state of the
blocks, is why freeing is sound. Disconnecting one block keeps `LinkedUp`
(`DisconnectedIs`); that disconnecting all of a page does, in whatever order the list
has them, is by induction over the list (`AllDisconnectedIs`). `AsbAssumption` says
that blocks are finite in number, since they are counted, and that NULL is none.

**FileProofs.** Four components. `FilesAreExact`: the references of a file are the descriptors that
name it and the calls that keep one, a close-on-exec bit has a descriptor, and nobody
uses a file that is gone or overwrites a descriptor unless two threads share a table.
`f_get` hands out no reference, so the last part is no local fact: it needs that a
thread alone at its table finds its borrowed file where it was, and the number it has
chosen still free (`Alone`), that a table nobody uses is empty, since clone and exec
fill it again (`Tables`), and what a call has in hand at each of its stops (`Calls`).
The counting is done once: a step changes one table and one call, so both sides of
`Counted` change by the same number (`SplitNamed` splits off a table's row). Once the
race has happened the invariant says only that a table was shared; those states are
the deviation described below. The hypothesis `FdSizes` says that numbers are natural,
that what is counted is finite and that "none" is not an object.

`RecordLocksAreExact`: the list of an inode's locks is grouped by owner, merged and
free of overlaps, shows of every byte exactly what its owners asked for last, no two
owners conflict, and F_GETLK finds a lock exactly when a byte is taken, until the code
has taken a range that does not fit. The invariant `ListExact` relates the list to the
map of bytes in both directions; `AskedFits` shows that the sums of
`file_lock_from_flock`, which may wrap on the way, end at the range that was asked
for whenever it fits. The work is in `file_lock_acquire`: `Placed` is the invariant of its
loop (the request grown so far and the locks kept cover what the locks passed so far
covered, lock by lock), `AcquiredAs` what the loop leaves when it ends, wherever in
the list the new lock was put. Nothing is bounded: requests may have any offset, start and length, and
`FileEnd` is any number.

`PollingIsSafe`: while a thread sleeps, an event nobody was told of has a wakeup on
its way, unless it was registered under a sleeper (a deviation below), and a one-shot
registration reports once. `PollInv` is the property with the types and `ShotIsOff`:
a one-shot registration that has reported is off until it is set again. There may be
any number of waiters, descriptors and slots.

`MountsAreSafe`: a mount has as many references as descriptors, inodes and calls hold
it, an inode as many as descriptors of its file, nobody holds a mount that was freed,
and a path goes to the longest point above it. `MountInv` adds that what holds a mount
holds one on the list (`HoldersMounted`) and that the root is held for ever
(`RootHeld`), without which a look-up could find no mount. What each kind of holder
adds is counted apart (`FdsOn`, `KeysOn`, `CallsOn`), so that a call changes one
summand.

**FileSystemProofs.** Two components. `FakeFilesAreSafe`: host directory and
database agree about every name that no call is at work on and that no stop, no race
of an open and no rename between two links of one file has torn, and an open file keeps
its row. Between the host call and the
commit they do not agree, so the invariant speaks of the future as well: a
transaction that is under way already determines what will match once it is
committed (`MatchedThen`), every name it does not touch matches now (`MatchedNow`),
and a file that open has just made is excused until its row is there (`Unrowed`).
That two transactions cannot invalidate each other's promise is `OneTransaction`.

`TmpFilesAreSafe`: names are unique in a directory; a file that nobody writes holds the
bytes POSIX gives it, and a descriptor that no call is at work on the offset; getdents
returns an entry at most once, in order, and misses none before its position. All this as
long as calls do not overlap on one descriptor under different locks, whatever calls on
other descriptors of the same file do between their steps, and again once those that did
have ended. `TmpInv` adds that every entry but the root has a parent (`TreeGrows`), that
one call at a time has an inode locked (`OneInode`), what a write has made of the bytes
between resize and memcpy (`DataSound`), and for every step of a call that is alone on its
descriptor where the offset is, where the reference has it (`Right`), and what has been
listed (`ListRight`); together `FdSound`. Of mixed calls it says only that they are there.
`WrittenIs` shows that growing the buffer and copying into it gives the reference's bytes;
the recursive function of the lookup is shown to compute the entry the path leads to
(`Walked`).

The guests of the `memory` run, and the handlers of `threads`, satisfy these
hypotheses, and TLC has checked the invariants on those runs before they were
proved.

Only model-checked: liveness (`Progress`, `SignalIsTaken`, `SignalReceived`,
`KillIsFatal`, `TimerFires`, `OrdinaryRequestEnds`, `ConnectReturns`), which is out
of the prover's reach, as is `ENABLED`; what RECURSIVE operators compute
(`ProgramStarts`, `ArithmeticExact`, `CallsExact`, the line of `TerminalsSafe`: Exec,
Float80, Vec, Paths, TtyLine); and the FPU stack in `ArithmeticExact`,
`SocketsSound` and the rest of `TerminalsSafe`, whose modules have no proofs.

## Deviations found

Runs that are violated, with the lines that say otherwise, are in
`PROJECT.json`. The following were met while modelling and are kept out of the
passing runs, by the guests chosen or by an action that stops before them:

- `kernel/exit.c:144`: exit_group signals the threads on the group's list; a task
  that clone has made and not yet added to it escapes.
- `CodexWorkspaceModel.swift:908`: when a turn completes before its turn/start is
  answered, a second send may start; the first one's `defer` then removes the
  second one's mark from `startingTurns`, and a third send is let through while
  the second is under way.
- `CodexWorkspaceModel.swift:347`: after a reconnection the selected thread is not
  resumed, although the message at line 172 says "Reconnect to reload thread
  state"; it is resumed when it is selected again.
- `kernel/mmap.c:151`: mremap changes the page table without the write lock; with
  a second thread `NoStaleTranslation` fails. The guest with mremap has one
  thread.
- `kernel/mmap.c:163`: `entry == NULL && entry->flags` reads through NULL when a
  mapping with a hole grows; `MremapGrows` requires no hole.
- `kernel/mmap.c:60`: mmap with a hint that is in use maps over what is there;
  modelled as written.
- `kernel/fork.c:110-126`: clone that fails on a bad address leaves a freed task
  on its group's list; `CloneFails` stops before it.
- `kernel/fork.c:190`: after vfork the parent uses the child's task, which may
  have been reaped.
- `kernel/task.c:73`: a new task is visible before its pending set is cleared; a
  signal sent in between is lost.
- `kernel/exit.c:93`: nothing notifies a parent that inherits a zombie;
  `NoMissedExit` excludes inherited ones.
- `util/sync.c:25`: sigtimedwait on a blocked signal is not woken by it, and
  `signal.c:677` leaves the pending bit of what it takes.
- `kernel/signal.c:280`: sa_mask is not filtered, so it can block SIGKILL, and
  sigtimedwait can take SIGKILL; the checked guests do neither.
- `kernel/signal.c:293`, `:611`, `:715`: the sighand lock is taken twice, kept, or
  `pids_lock` released twice on error paths.

Timers:
- `kernel/time.c:441`: timerfd_settime holds `fd->lock` and wants `timer->lock`,
  the callback the other way round (`Inverted`). `time.c:118`: an interval timer
  keeps the task of the thread that set it. `time.c:316` returns with `pids_lock`.
  SIGEV_SIGNAL signals pid 0, SIGEV_THREAD_ID the leader; POSIX timers are never
  freed when the group exits; `timer_new` leaves `end` and `interval` unset; an
  absolute time of 0 arms and one equal to now disarms. A kick between the unlock
  and the sleep of the timer thread is lost: the timer is late, not dead.

Groups, kill and tracing:
- `kernel/group.c:49`: setpgid puts a process on the list of its own pid, so that a
  kill of the group misses it and the number may be used again. The terminal of a
  session stays set when the last member without it leaves; TIOCSPGRP accepts any
  number; TIOCSCTTY asks for no leader.
- `kernel/signal.c:715`: kill of an unknown group releases `pids_lock` twice
  (`PidsLockHeld`; the assertion of `util/sync.h:60`). An empty group gives EPERM.
- `kernel/signal.c:313`: SIGKILL that comes before a stopping child has registered
  as a sleeper is missed (`KillEndsStop`), against the comment at 355. A stop is
  lost for a tracer that ignores SIGCHLD; `stopped` outlives a killed child; four
  failing requests return with `ptrace.lock`.

Terminals:
- A canonical line longer than the buffer blocks writer and reader; a slave's reader
  asleep when the master closes, and a master's when the slave hangs up, sleep for
  ever; `pty_slave_close` assumes one group in the session; a write may reach a
  freed master; `tty_set_winsize` takes `pids_lock` inside the lock of the terminal
  (`NoLockCycle`). An end of file typed after a line is swallowed, a newline is
  echoed before it is refused, flags of raw mode are stale (`FlagsMarkLineEnds`).
- `pty_reserve_next` uses entry `MAX_PTYS` when the table is full and
  `devpts_pty_exists` accepts it (`NumIsTerminal`); stat of a reserved number reads
  through a pointer that marks it.

Files:
- `fs/fd.c:369`: F_SETLKW never blocks; `fs/lock.c:245`: closing a file wakes no
  waiter. `fs/lock.c:165`: a range with a negative start is taken (POSIX: EINVAL), and
  one that passes the last offset wraps or is turned round (POSIX: EOVERFLOW); a lock
  at the lowest offset counts as next to one at the last; F_GETLK cannot tell the
  length of a lock of half of all offsets or more. F_DUPFD uses the table without its lock, dup3 stores outside it, `f_get`
  hands out no reference, a failing F_DUPFD_CLOEXEC sets a bit at a negative index.
- Registering a virtual descriptor that is ready wakes nobody who sleeps already; a
  signal between the check and the host's sleep is lost. select sets the bits of
  descriptors that were not asked for on an error and counts descriptors, not bits;
  ppoll rounds its timeout down.
- `path_normalize`: dots are allowed after names that do not exist, a slash after a
  last link is ignored, ".." and absolute links escape a chroot, `fs->pwd` is used
  after its lock is dropped. `fs/mount.c:117`: a loop that never ends on a second
  option; `contains_mount_point` reads the list without the lock.
- tmpfs: O_CREAT at a mount's root makes an entry without a name; O_TRUNC, O_APPEND
  and the mode are ignored; a directory empty when opened never lists what comes
  later, rewinddir does not go back; a short getdents buffer says "end";
  `tmp.c:365` does not advance; two listings of one descriptor at a time repeat or skip
  entries, and read and write race with lseek, pread and pwrite over its offset (`mixed`).
  Left out: a seek between `tmpfs_file_resize` and memcpy that moves the write past the
  buffer, reads and writes at negative offsets, the assertion of a pread that starts at
  one, a listing whose buffer faults. `sys_lseek` zero-extends, a negative pread leaves a negative
  offset, `kernel/fs.c:881` passes no directory, readv copies bytes that were not
  read, `access_check` accepts one bit of several.
- fakefs: an O_CREAT open that races unlink or link kills the program; a rename that
  races leaves host and row apart; a stop between the halves of unlink gives the
  next file of that name the old metadata (`OpenKeepsInode`); a rename over a file
  leaves its row until the next mount; a rebuild forgets hard links. A file renamed to
  another of its own names keeps both on the host (`fs/real.c:305` is renameat, which
  then does nothing) while `path_rename` (`fs/fake.c:119`, `fs/fake-db.c:134`) drops the
  row of the first: a file without a row, in the model a torn name.

Sockets:
- connect waits for accept and ignores signals. sendmsg queues the descriptors before
  the host sends: a failing send frees them twice, and overlapping calls pair
  messages with wrong descriptors; MSG_PEEK takes them off (`ScmNotEmpty`,
  `sock.c:1056`); a receiver without room leaves them to the next message. accept
  leaks the host's descriptor on errors. connect leaks the reference of an abstract
  name, a failed bind leaves the name pointing at nothing, a bind of a path loses
  the reference `fs/fd.h:47` speaks of (`InodeKeptForListener`); abstract names are
  compared by hash.

Programs, CPU:
- `kernel/exec.c`: an error after `mm_release` returns to a program without memory;
  a script started with no arguments underflows a count; an aligned segment of file
  size 0 reads through NULL; the rest of the last page of a read-only segment is not
  cleared; the environment ends at the first empty string.
- `asbestos.c`: a thread keeps running invalidated code from its own cache until its
  next interrupt.
- `fpu.c`: the rounding mode of the host thread is not set by fldenv, frstor, exec
  and clone. `float80.c`: results between denormal and normal, exact powers of two
  at overflow, double rounding in the nearest mode of sums whose operands are more
  than a significand apart and of denormal products, quotients that lie just above the
  middle of two numbers (`LooksHalfway`), a denormal that counts half beside a normal
  number (`Contributes`), conversions of 2^63 and above and of overflowing doubles, and
  scaling of denormals differ from IEEE 754. `vec.c:499`: packing a register into
  itself reads what it has written (`PackedTwice`; the comments at 415 and 427 say of
  two other instructions that source and destination may be one register). `vec.c:92`,
  `mmx.c:52`: shift counts in a register are read from its first byte (`CountCut`).

Others: `util/fifo.c:52`: the size of the first copy.

## Plan

What remains, in this order:

1. Theorems about the modules without any: `PtySafe`, `SocketsSafe`, `FpuSafe`.
2. Composition: Poll with Pty and Sockets as its files; Kill with Groups, so that
   membership changes while a signal goes round; FdTable with Poll, so that a
   registered file is closed in mid-call.
3. The rest of `Workspace`: approvals, earlier history, the directory pane, the
   linked folder and the liveness of sends; inbound requests of `RPCClient`.
4. The counter of eventfd, resource limits, `util/fifo.c` and the terminal's output
   buffer; stat, readdir and attributes of fakefs.
5. The socket restart after a suspension, once the code calls it.

## Not modelled

- Decoding of instructions and generation of code (`emu/decode.h`,
  `asbestos/gen.c`, the assembly gadgets): tables whose only specification is the
  processor's manual; the repository compares them with hardware. Of the vector
  unit: quadword lanes, floating point (the host's), multiply-add, sums of absolute
  differences and conversions.
- `linux/`: the port to a real Linux kernel, which the app does not build;
  `fs/sockrestart.c`: nothing in the repository calls its suspend and resume.
- realfs, procfs and devices: host calls and formatting. Small system calls:
  getters, setters, tables and copies.
- SwiftUI and UIKit code, JSON values and the method catalogue, the file provider:
  layout and framework callbacks.
- Host platform code, build scripts, tests, tools and vendored code.

The reasons are with each component in `PROJECT.json`.
