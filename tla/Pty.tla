-------------------------------- MODULE Pty --------------------------------
(***************************************************************************)
(* A pseudoterminal: fs/pty.c on the two struct tty of fs/tty.c, with the  *)
(* locks taken where the code takes them.  "M" is the master side, in raw  *)
(* mode; "S" is the slave, in canonical mode with echo.  "P" is pids_lock  *)
(* and "T" is ttys_lock.  A character is a line end, the one that wakes a  *)
(* canonical reader.  Several programs share one open master; each slave   *)
(* program opens the slave for itself and the first is a session leader.   *)
(* A program does not close a file while it is in another call on it.      *)
(***************************************************************************)
EXTENDS Integers, FiniteSets

CONSTANTS Masters,      \* programs with the master open
          Slaves,       \* programs that open the slave
          Leader,       \* the slave program that leads a session
          BufSize,      \* TTY_BUF_SIZE (bound)
          MaxOpens      \* opens of the slave that are followed (bound)

Sides == {"M", "S"}
PtyLocks == {"P", "T", "M", "S"}
PtyThreads == Masters \cup Slaves
Nobody == "nobody"

VARIABLES
  ptyAt,       \* program -> where it is in its call
  ptyHeld,     \* lock -> the program that holds it
  ptyTty,      \* side -> refs, hung (hung_up), buf (bufsize), alive (not freed)
  ptyBond,     \* slave: unlocked, ever (ever_opened), other (pty.other is set)
  ptyFd,       \* programs whose file is open
  ptySession,  \* the session leader has the slave as its controlling terminal
  ptyWoken,    \* sleepers that have been notified
  ptyOpens,    \* opens so far
  ptyOdd       \* history: "wild" once a slave call used the master after it was
               \* freed, "refused" once an open of the slave was refused

ptyVars == <<ptyAt, ptyHeld, ptyTty, ptyBond, ptyFd, ptySession, ptyWoken, ptyOpens, ptyOdd>>

Side(t) == IF t \in Masters THEN "M" ELSE "S"
Far(x) == IF x = "M" THEN "S" ELSE "M"

\* ptmx_open: tty_get makes the master, pty_master_init the slave, of which the
\* master has the first reference; the slave is locked until TIOCSPTLCK.
PtyInit ==
  /\ ptyAt = [t \in PtyThreads |-> "idle"]
  /\ ptyHeld = [l \in PtyLocks |-> Nobody]
  /\ ptyTty = [x \in Sides |-> [refs |-> 1, hung |-> FALSE, buf |-> 0, alive |-> TRUE]]
  /\ ptyBond = [unlocked |-> FALSE, ever |-> FALSE, other |-> TRUE]
  /\ ptyFd = Masters
  /\ ptySession = FALSE /\ ptyWoken = {} /\ ptyOpens = 0 /\ ptyOdd = {}

-----------------------------------------------------------------------------
(* Steps.  A label names the place after the last lock operation.          *)
Goto(t, a, b) == ptyAt[t] = a /\ ptyAt' = [ptyAt EXCEPT ![t] = b]
Free(l) == ptyHeld[l] = Nobody
Takes(t, ls) == [l \in PtyLocks |-> IF l \in ls THEN t ELSE ptyHeld[l]]
Drops(ls) == [l \in PtyLocks |-> IF l \in ls THEN Nobody ELSE ptyHeld[l]]

Quiet == UNCHANGED <<ptyTty, ptyBond, ptyFd, ptySession, ptyWoken, ptyOpens, ptyOdd>>

\* A step that only takes the lock l, or only releases locks.
Lock(t, a, b, l) == Goto(t, a, b) /\ Free(l) /\ ptyHeld' = Takes(t, {l}) /\ Quiet
Unlock(t, a, b, ls) == Goto(t, a, b) /\ ptyHeld' = Drops(ls) /\ Quiet

SleepersIn(x) == {t \in PtyThreads : ptyAt[t] = "readwait" /\ Side(t) = x}
FullOn(x) == {t \in PtyThreads : ptyAt[t] = "writewait" /\ Far(Side(t)) = x}

\* notify(&tty->produced) and notify(&tty->consumed) wake every waiter.
Produced(x) == ptyWoken \cup SleepersIn(x)
Consumed(x) == ptyWoken \cup FullOn(x)

\* pty_is_half_closed_master, once it has the lock of the slave.
HalfClosed == ptyBond.ever /\ (ptyTty["S"].refs = 1 \/ ptyTty["S"].hung)

\* tty_read: pids_lock, the terminal, and for a master the slave inside it.
ReadStart(t) ==
  LET x == Side(t) IN
  \/ t \in ptyFd /\ Lock(t, "idle", "read1", "P")
  \/ Lock(t, "read1", "read2", x)
  \/ ptyTty[x].hung /\ Unlock(t, "read2", "idle", {"P", x})
  \/ ~ptyTty[x].hung /\ x = "M" /\ Lock(t, "read2", "read3", "S")
  \/ ~ptyTty[x].hung /\ x = "S" /\ Unlock(t, "read2", "read4", {"P"})
  \/ HalfClosed /\ Unlock(t, "read3", "idle", {"S", "P", x})
  \/ ~HalfClosed /\ Unlock(t, "read3", "read4", {"S", "P"})

\* The wait loop.  It looks at the half-closed master again, and never at
\* hung_up again.  A signal ends the sleep (_EINTR).
ReadLoop(t) ==
  LET x == Side(t) IN
  \/ ptyTty[x].buf = 0 /\ x = "M" /\ Lock(t, "read4", "read5", "S")
  \/ HalfClosed /\ Unlock(t, "read5", "idle", {"S", x})
  \/ ~HalfClosed /\ Unlock(t, "read5", "readwait", {"S", x})
  \/ ptyTty[x].buf = 0 /\ x = "S" /\ Unlock(t, "read4", "readwait", {x})
  \/ /\ t \in ptyWoken /\ Goto(t, "readwait", "read4")
     /\ Free(x) /\ ptyHeld' = Takes(t, {x}) /\ ptyWoken' = ptyWoken \ {t}
     /\ UNCHANGED <<ptyTty, ptyBond, ptyFd, ptySession, ptyOpens, ptyOdd>>
  \/ /\ Goto(t, "readwait", "idle") /\ ptyWoken' = ptyWoken \ {t}
     /\ UNCHANGED <<ptyHeld, ptyTty, ptyBond, ptyFd, ptySession, ptyOpens, ptyOdd>>

\* tty_read_into_buf: the reader takes some, and tells the writers.
ReadData(t) ==
  LET x == Side(t) IN
  /\ Goto(t, "read4", "idle") /\ ptyTty[x].buf > 0
  /\ \E n \in 1..ptyTty[x].buf : ptyTty' = [ptyTty EXCEPT ![x].buf = @ - n]
  /\ ptyWoken' = Consumed(x)
  /\ ptyHeld' = Drops({x})
  /\ UNCHANGED <<ptyBond, ptyFd, ptySession, ptyOpens, ptyOdd>>

\* tty_write: the checks under its own lock, which it then gives up.
WriteStart(t) ==
  LET x == Side(t) IN
  \/ t \in ptyFd /\ Lock(t, "idle", "write1", x)
  \/ ptyTty[x].hung /\ Unlock(t, "write1", "idle", {x})
  \/ ~ptyTty[x].hung /\ x = "M" /\ Lock(t, "write1", "write2", "S")
  \/ HalfClosed /\ Unlock(t, "write2", "idle", {"S", x})
  \/ ~HalfClosed /\ Unlock(t, "write2", "write3", {"S", x})
  \/ ~ptyTty[x].hung /\ x = "S" /\ Unlock(t, "write1", "write3", {x})

\* pty_write on the other side.  A slave may find the master gone.
WriteAcross(t) ==
  LET y == Far(Side(t)) IN
  \/ /\ ptyTty[y].alive
     /\ Lock(t, "write3", IF y = "S" THEN "echo1" ELSE "input", y)
  \/ /\ ~ptyTty[y].alive /\ Goto(t, "write3", "crashed") /\ ptyOdd' = ptyOdd \cup {"wild"}
     /\ UNCHANGED <<ptyHeld, ptyTty, ptyBond, ptyFd, ptySession, ptyWoken, ptyOpens>>

Least(a, b) == IF a < b THEN a ELSE b

\* tty_echo of a line end on the slave: "\r\n" goes to the input of the master,
\* under the locks of both, and what does not fit is dropped.
Echo(t) ==
  \/ Lock(t, "echo1", "echo2", "M")
  \/ /\ Goto(t, "echo2", "echo3")
     /\ ptyTty' = [ptyTty EXCEPT !["M"].buf = Least(@ + 2, BufSize)]
     /\ ptyWoken' = Produced("M")
     /\ ptyHeld' = Drops({"M"})                             \* tty_poll_wakeup
     /\ UNCHANGED <<ptyBond, ptyFd, ptySession, ptyOpens, ptyOdd>>
  \/ Lock(t, "echo3", "echo4", "M")
  \/ Unlock(t, "echo4", "input", {"M"})

\* tty_push_char and tty_input_wakeup, which gives the lock up and takes it
\* again.  A full buffer makes the writer wait, or fail when it may not block.
Input(t) ==
  LET y == Far(Side(t)) IN
  \/ /\ Goto(t, "input", "wakeup") /\ ptyTty[y].buf < BufSize
     /\ ptyTty' = [ptyTty EXCEPT ![y].buf = @ + 1]
     /\ ptyWoken' = Produced(y)
     /\ ptyHeld' = Drops({y})
     /\ UNCHANGED <<ptyBond, ptyFd, ptySession, ptyOpens, ptyOdd>>
  \/ Lock(t, "wakeup", "input2", y)
  \/ Unlock(t, "input2", "idle", {y})
  \/ ptyTty[y].buf = BufSize /\ \E to \in {"writewait", "idle"} : Unlock(t, "input", to, {y})
  \/ /\ t \in ptyWoken /\ Goto(t, "writewait", "input")
     /\ Free(y) /\ ptyHeld' = Takes(t, {y}) /\ ptyWoken' = ptyWoken \ {t}
     /\ UNCHANGED <<ptyTty, ptyBond, ptyFd, ptySession, ptyOpens, ptyOdd>>
  \/ /\ Goto(t, "writewait", "idle") /\ ptyWoken' = ptyWoken \ {t}
     /\ UNCHANGED <<ptyHeld, ptyTty, ptyBond, ptyFd, ptySession, ptyOpens, ptyOdd>>

-----------------------------------------------------------------------------
\* tty_ioctl: TIOCSPTLCK of the master; TCSETSF, which empties the input of the
\* slave; TIOCSWINSZ, which sends SIGWINCH (pids_lock) inside the lock.
Ioctl(t) ==
  LET x == Side(t) IN
  \/ t \in ptyFd /\ Lock(t, "idle", "ioctl1", x)
  \/ ptyTty[x].hung /\ Unlock(t, "ioctl1", "idle", {x})
  \/ /\ ~ptyTty[x].hung /\ x = "M" /\ Goto(t, "ioctl1", "idle")
     /\ \E arg \in BOOLEAN : ptyBond' = [ptyBond EXCEPT !.unlocked = arg]
     /\ ptyHeld' = Drops({x})
     /\ UNCHANGED <<ptyTty, ptyFd, ptySession, ptyWoken, ptyOpens, ptyOdd>>
  \/ ~ptyTty[x].hung /\ x = "M" /\ Lock(t, "ioctl1", "ioctl2", "S")
  \/ /\ Goto(t, IF x = "M" THEN "ioctl2" ELSE "ioctl1", "idle") /\ ~ptyTty[x].hung
     /\ ptyTty' = [ptyTty EXCEPT !["S"].buf = 0]
     /\ ptyWoken' = Consumed("S")
     /\ ptyHeld' = Drops({"S", x})
     /\ UNCHANGED <<ptyBond, ptyFd, ptySession, ptyOpens, ptyOdd>>
  \/ ~ptyTty[x].hung /\ Lock(t, IF x = "M" THEN "ioctl2" ELSE "ioctl1", "ioctl3", "P")
  \/ Unlock(t, "ioctl3", "idle", {"P", "S", x})

\* tty_device_open of the slave: tty_get, pty_slave_open (which may refuse and
\* give the reference back), and tty_open with the controlling terminal.
OpenSlave(t) ==
  \/ ptyOpens < MaxOpens /\ t \notin ptyFd /\ Lock(t, "idle", "open1", "T")
  \/ /\ Goto(t, "open1", "open2")
     /\ ptyTty["S"].alive /\ Free("S") /\ ptyHeld' = Drops({"T"})
     /\ ptyTty' = [ptyTty EXCEPT !["S"].refs = @ + 1]
     /\ ptyBond' = [ptyBond EXCEPT !.ever = TRUE]
     /\ ptyOpens' = ptyOpens + 1
     /\ UNCHANGED <<ptyFd, ptySession, ptyWoken, ptyOdd>>
  \/ /\ Goto(t, "open1", "idle") /\ ~ptyTty["S"].alive      \* pty_return_eio
     /\ ptyHeld' = Drops({"T"}) /\ Quiet
  \/ ptyBond.other /\ ptyBond.unlocked /\ Unlock(t, "open2", "open3", {})
  \/ /\ ~(ptyBond.other /\ ptyBond.unlocked) /\ Goto(t, "open2", "refused")
     /\ ptyOdd' = ptyOdd \cup {"refused"}
     /\ UNCHANGED <<ptyHeld, ptyTty, ptyBond, ptyFd, ptySession, ptyWoken, ptyOpens>>
  \/ Lock(t, "refused", "release", "T")
  \/ Lock(t, "open3", "open4", "P")
  \/ /\ Goto(t, "open4", "idle") /\ Free("S") /\ ptyHeld' = Drops({"P"})
     /\ ptyFd' = ptyFd \cup {t}
     /\ LET ctty == t = Leader /\ ~ptySession IN           \* tty_set_controlling
        /\ ptySession' = (ptySession \/ ctty)
        /\ ptyTty' = [ptyTty EXCEPT !["S"].refs = IF ctty THEN @ + 1 ELSE @]
     /\ UNCHANGED <<ptyBond, ptyWoken, ptyOpens, ptyOdd>>

\* pty_slave_close hangs up the master when the last file of the slave goes.
AlwaysOneLeft == ptyTty["S"].refs - 1 = 1
LastClose == ptyTty["S"].refs - 1 = IF ptySession THEN 2 ELSE 1

\* tty_close of the slave and task_leave_session, both under ttys_lock.
CloseSlave(t) ==
  \/ /\ Goto(t, "idle", "close1") /\ t \in ptyFd
     /\ Free("T") /\ ptyHeld' = Takes(t, {"T"})
     /\ ptyFd' = ptyFd \ {t}
     /\ UNCHANGED <<ptyTty, ptyBond, ptySession, ptyWoken, ptyOpens, ptyOdd>>
  \/ LastClose /\ ptyBond.other /\ Lock(t, "close1", "hang1", "M")
  \/ ~(LastClose /\ ptyBond.other) /\ Unlock(t, "close1", "release", {})
  \/ /\ Goto(t, "hang1", "hang2")                          \* tty_hangup of the master
     /\ ptyTty' = [ptyTty EXCEPT !["M"].hung = TRUE]
     /\ ptyWoken' = Produced("M") /\ ptyHeld' = Drops({"M"})
     /\ UNCHANGED <<ptyBond, ptyFd, ptySession, ptyOpens, ptyOdd>>
  \/ Lock(t, "hang2", "hang3", "M")
  \/ Unlock(t, "hang3", "release", {"M"})
  \/ /\ t = Leader /\ t \notin ptyFd /\ ptySession          \* reaped after it exits
     /\ Goto(t, "idle", "leave") /\ \A l \in {"P", "T"} : Free(l)
     /\ ptyHeld' = Takes(t, {"P", "T"}) /\ Quiet
  \/ /\ Goto(t, "leave", "release") /\ Free("S")
     /\ ptySession' = FALSE
     /\ UNCHANGED <<ptyHeld, ptyTty, ptyBond, ptyFd, ptyWoken, ptyOpens, ptyOdd>>

\* A reference of side x is given up; the last one frees it.
Released(tty, x) == [tty EXCEPT ![x].refs = @ - 1, ![x].alive = tty[x].refs > 1]

\* tty_release of the slave at the end of close, of a refused open or of leaving
\* the session; the caller holds ttys_lock.
ReleaseSlave(t) ==
  /\ t \in Slaves /\ Goto(t, "release", "idle") /\ Free("S")
  /\ ptyTty' = Released(ptyTty, "S")
  /\ ptyHeld' = Drops({l \in {"T", "P"} : ptyHeld[l] = t})
  /\ UNCHANGED <<ptyBond, ptyFd, ptySession, ptyWoken, ptyOpens, ptyOdd>>

\* The last close of the master: pty_master_cleanup hangs up the slave, cuts it
\* off and gives up its reference, all inside the lock of the master.
CloseMaster(t) ==
  \/ /\ Goto(t, "idle", "mclose1") /\ t \in ptyFd
     /\ \A u \in Masters : ptyAt[u] = "idle"
     /\ Free("T") /\ ptyHeld' = Takes(t, {"T"})
     /\ ptyFd' = ptyFd \ Masters
     /\ UNCHANGED <<ptyTty, ptyBond, ptySession, ptyWoken, ptyOpens, ptyOdd>>
  \/ Lock(t, "mclose1", "mclose2", "M")
  \/ Lock(t, "mclose2", "mclose3", "S")
  \/ /\ Goto(t, "mclose3", "mclose4")
     /\ ptyTty' = [ptyTty EXCEPT !["S"].hung = TRUE]
     /\ ptyWoken' = Produced("S") /\ ptyHeld' = Drops({"S"})
     /\ UNCHANGED <<ptyBond, ptyFd, ptySession, ptyOpens, ptyOdd>>
  \/ Lock(t, "mclose4", "mclose5", "S")
  \/ /\ Goto(t, "mclose5", "mclose6")
     /\ ptyBond' = [ptyBond EXCEPT !.other = FALSE]
     /\ ptyHeld' = Drops({"S"})
     /\ UNCHANGED <<ptyTty, ptyFd, ptySession, ptyWoken, ptyOpens, ptyOdd>>
  \/ /\ Goto(t, "mclose6", "idle") /\ Free("S")
     /\ ptyTty' = Released(Released(ptyTty, "S"), "M")
     /\ ptyHeld' = Drops({"M", "T"})
     /\ UNCHANGED <<ptyBond, ptyFd, ptySession, ptyWoken, ptyOpens, ptyOdd>>

PtyNext ==
  \/ \E t \in PtyThreads :
       ReadStart(t) \/ ReadLoop(t) \/ ReadData(t) \/ WriteStart(t) \/ WriteAcross(t)
         \/ Echo(t) \/ Input(t) \/ Ioctl(t)
  \/ \E t \in Slaves : OpenSlave(t) \/ CloseSlave(t) \/ ReleaseSlave(t)
  \/ \E t \in Masters : CloseMaster(t)

PtySpec == PtyInit /\ [][PtyNext]_ptyVars

-----------------------------------------------------------------------------
(* Properties.                                                             *)
PtyTypeOK ==
  /\ ptyHeld \in [PtyLocks -> PtyThreads \cup {Nobody}]
  /\ ptyTty \in [Sides -> [refs: Nat, hung: BOOLEAN, buf: 0..BufSize, alive: BOOLEAN]]
  /\ ptyFd \subseteq PtyThreads /\ ptyWoken \subseteq PtyThreads

\* References a program owns beyond its open file, in the middle of a call.
InFlight == {t \in Slaves : ptyAt[t] \in {"open2", "refused", "open3", "open4", "release",
                                          "close1", "hang1", "hang2", "hang3"}}

\* The references of the slave are the master's, one for each open file, one
\* for the session, and what calls in progress hold; it is freed with the last.
RefsExact ==
  /\ ptyTty["S"].refs = Cardinality(ptyFd \cap Slaves) + Cardinality(InFlight)
                          + (IF ptySession THEN 1 ELSE 0) + (IF ptyTty["M"].alive THEN 1 ELSE 0)
  /\ ptyTty["S"].alive = (ptyTty["S"].refs > 0)
  /\ ptyTty["M"].alive => ptyTty["S"].alive

\* Nobody sleeps on a condition that already holds without being told.
NoneForgotten ==
  \A x \in Sides :
    /\ ptyTty[x].buf > 0 => SleepersIn(x) \subseteq ptyWoken
    /\ ptyTty[x].buf < BufSize => FullOn(x) \subseteq ptyWoken

\* Once every program has closed the slave the master is hung up, although the
\* session may keep a reference.  (A refused open holds a reference for a while,
\* and a last close inside that while does not count as the last.)
HangsUp ==
  ptyBond.ever /\ ptyFd \cap Slaves = {} /\ InFlight = {}
    /\ ptyTty["M"].alive /\ "refused" \notin ptyOdd
    => ptyTty["M"].hung \/ HalfClosed

\* fs/pty.c and fs/tty.c under every interleaving of readers, writers, opens
\* and closes of both sides: references are exact and the slave is freed second,
\* no reader or writer sleeps through the event it waits for although
\* tty_poll_wakeup gives the lock up, and the last close hangs up the master.
PtySafe == PtyTypeOK /\ RefsExact /\ NoneForgotten /\ HangsUp

\* The lock a program needs for its next step, if it needs one.
Wants(t) ==
  LET x == Side(t)  y == Far(x) IN
  CASE ptyAt[t] = "read1" -> {x}
    [] ptyAt[t] = "read2" /\ ~ptyTty[x].hung /\ x = "M" -> {"S"}
    [] ptyAt[t] = "echo1" -> {"M"}
    [] ptyAt[t] = "echo3" -> {"M"}
    [] ptyAt[t] = "mclose2" -> {"S"}
    [] OTHER -> {}

\* A comment of pty_is_half_closed_master says it is the "only time one tty lock
\* is nested in another"; then a program that has one terminal's lock and wants
\* the other's is never waited for by the one that has it.
NoLockCycle ==
  \A t, u \in PtyThreads : t # u =>
    ~ \E k, l \in Sides : ptyHeld[k] = t /\ ptyHeld[l] = u /\ l \in Wants(t) /\ k \in Wants(u)
=============================================================================
