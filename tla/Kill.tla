-------------------------------- MODULE Kill --------------------------------
(***************************************************************************)
(* kill, tgkill and tkill and the signals of a terminal to a group (the    *)
(* end of kernel/signal.c), with pids_lock taken and released where the    *)
(* code does it.  Every guest thread is a task of the process table; the   *)
(* leader of a process may be reaped while other threads are in a call.    *)
(* What a signal does to the task that gets it is module Signals.          *)
(***************************************************************************)
EXTENDS Integers, Sequences, FiniteSets, SequencesExt

CONSTANTS KillTasks,     \* tid -> uid, suid, euid, tgid and pgid of the process
          KillCallers,   \* the tasks that make calls
          KillMortal,    \* the processes that may be reaped
          KillArgs       \* what is given as pid: a number, 0, -1 or minus a group

ASSUME KillAssumption ==
  /\ IsFiniteSet(DOMAIN KillTasks) /\ DOMAIN KillTasks \subseteq Nat \ {0}
  /\ \A p \in DOMAIN KillTasks : KillTasks[p].pgid \in Nat \ {0}
  /\ KillCallers \subseteq DOMAIN KillTasks /\ KillArgs \subseteq Int

VARIABLES
  killAt,      \* caller -> idle, want (at the lock), in (holds it), out (about to release it)
  killCall,    \* caller -> pid and tgid of its call, and whether it asks for permission
  killHolders, \* the callers between lock and their unlock
  killLocked,  \* pids_lock is taken
  killLive,    \* the tasks that are in the table
  killSent,    \* caller -> tasks its call sent the signal to
  killErr      \* caller -> what its call returns

killVars == <<killAt, killCall, killHolders, killLocked, killLive, killSent, killErr>>

Leaders == {p \in killLive : KillTasks[p].tgid = p}

\* pid_get of a group: an entry of the table is in use by a task or by lists.
GroupMembers(g) == {p \in Leaders : KillTasks[p].pgid = g}
GroupKnown(g) == g \in killLive \/ GroupMembers(g) # {}

\* kill_task: the superuser may signal anybody, others their own.
Permitted(c, p) ==
  LET me == KillTasks[c]
      it == KillTasks[p] IN
  me.euid = 0 \/ {me.uid, me.euid} \cap {it.uid, it.suid} # {}

NoKill == [pid |-> 0, tgid |-> 0, asks |-> TRUE]
KillInit ==
  /\ killAt = [c \in KillCallers |-> "idle"]
  /\ killCall = [c \in KillCallers |-> NoKill]
  /\ killHolders = {} /\ killLocked = FALSE
  /\ killLive = DOMAIN KillTasks
  /\ killSent = [c \in KillCallers |-> {}]
  /\ killErr = [c \in KillCallers |-> "none"]

-----------------------------------------------------------------------------
KillGoes(c, a, b) == killAt[c] = a /\ killAt' = [killAt EXCEPT ![c] = b]

\* sys_kill, sys_tkill and sys_tgkill; pid 0 is the group of the caller.
KillEnter(c, pid, tgid) ==
  /\ c \in killLive /\ KillGoes(c, "idle", "want")
  /\ tgid # 0 => pid > 0
  /\ killCall' = [killCall EXCEPT ![c] = [pid |-> IF pid = 0 THEN -KillTasks[c].pgid ELSE pid,
                                         tgid |-> tgid, asks |-> TRUE]]
  /\ UNCHANGED <<killHolders, killLocked, killLive, killSent, killErr>>

\* send_group_signal(g), for the terminal: no permission is asked for.
GroupSignal(c, g) ==
  /\ c \in killLive /\ KillGoes(c, "idle", "want")
  /\ killCall' = [killCall EXCEPT ![c] = [pid |-> -g, tgid |-> 0, asks |-> FALSE]]
  /\ UNCHANGED <<killHolders, killLocked, killLive, killSent, killErr>>

KillLock(c) ==
  /\ ~killLocked /\ KillGoes(c, "want", "in")
  /\ killLocked' = TRUE /\ killHolders' = killHolders \cup {c}
  /\ UNCHANGED <<killCall, killLive, killSent, killErr>>

\* The loops of kill_group and kill_everything: the error is that of the first
\* task until one could be signalled.
Answer(c, p) == IF Permitted(c, p) THEN "ok" ELSE "EPERM"
LastError(c, tasks) == FoldLeft(LAMBDA e, p : Answer(c, p), "EPERM", tasks)
LoopError(c, tasks) ==
  LET err[i \in 0 .. Len(tasks)] ==
        IF i = 0 THEN "EPERM"
        ELSE IF err[i - 1] = "EPERM" THEN Answer(c, tasks[i]) ELSE err[i - 1]
  IN  err[Len(tasks)]

KillSome(c, tasks) ==
  /\ killSent' = [killSent EXCEPT ![c] = {p \in tasks : Permitted(c, p)}]
  /\ killErr' = [killErr EXCEPT ![c] = LoopError(c, SetToSeq(tasks))]
  /\ UNCHANGED killLocked

\* Between lock and unlock.  kill_group releases the lock itself when the group is
\* unknown, and its caller once more.
KillBody(c) ==
  LET pid == killCall[c].pid
      found == pid \in killLive /\ killCall[c].tgid \in {0, KillTasks[pid].tgid} IN
  /\ KillGoes(c, "in", "out")
  /\ IF ~killCall[c].asks
     THEN /\ killSent' = [killSent EXCEPT ![c] = GroupMembers(-pid)]
          /\ killErr' = [killErr EXCEPT ![c] = IF GroupKnown(-pid) THEN "ok" ELSE "ESRCH"]
          /\ UNCHANGED killLocked
     ELSE IF pid = -1 THEN KillSome(c, {p \in Leaders : p >= 2} \ {c})
     ELSE IF pid < 0 /\ GroupKnown(-pid) THEN KillSome(c, GroupMembers(-pid))
     ELSE IF pid > 0 /\ found THEN KillSome(c, {pid})
     ELSE /\ killErr' = [killErr EXCEPT ![c] = "ESRCH"]
          /\ killLocked' = (pid > 0)
          /\ UNCHANGED killSent
  /\ UNCHANGED <<killCall, killHolders, killLive>>

\* The unlock at the end, whoever holds the lock now.
KillUnlock(c) ==
  /\ KillGoes(c, "out", "idle")
  /\ killLocked' = FALSE /\ killHolders' = killHolders \ {c}
  /\ killCall' = [killCall EXCEPT ![c] = NoKill]
  /\ killSent' = [killSent EXCEPT ![c] = {}]
  /\ killErr' = [killErr EXCEPT ![c] = "none"]
  /\ UNCHANGED killLive

\* A process is reaped under pids_lock: it leaves the table.
KillReaped(p) ==
  /\ ~killLocked /\ p \in killLive \ KillCallers
  /\ killLive' = killLive \ {p}
  /\ UNCHANGED <<killAt, killCall, killHolders, killLocked, killSent, killErr>>

KillNext ==
  \/ \E c \in KillCallers :
       \/ \E pid \in KillArgs, tgid \in {0} \cup DOMAIN KillTasks : KillEnter(c, pid, tgid)
       \/ KillLock(c) \/ KillBody(c) \/ KillUnlock(c)
       \/ \E g \in {KillTasks[p].pgid : p \in DOMAIN KillTasks} : GroupSignal(c, g)
  \/ \E p \in KillMortal : KillReaped(p)

KillSpec == KillInit /\ [][KillNext]_killVars

-----------------------------------------------------------------------------
(* Properties.                                                             *)

\* "Killing a group should return an error only if no process can be signaled":
\* a call of kill that returns 0 has signalled somebody, and only those it may
\* signal; when it returns an error nobody was, and nobody of a group could be.
KillAnswers ==
  \A c \in KillCallers : killAt[c] = "out" /\ killCall[c].asks =>
    /\ killErr[c] = "ok" <=> killSent[c] # {}
    /\ \A p \in killSent[c] : Permitted(c, p)
    /\ killErr[c] = "EPERM" /\ killCall[c].pid < -1 =>
         \A p \in GroupMembers(-killCall[c].pid) : ~Permitted(c, p)

\* pids_lock has one holder: it is locked while a call is between its lock and
\* its last unlock, and no other call is.
PidsLockHeld == (\A c, e \in killHolders : c = e) /\ (killHolders # {} => killLocked)

\* kill, tgkill and tkill in kernel/signal.c answer as their comments say, and
\* keep pids_lock, for groups that exist.
KillSafe == KillAnswers /\ PidsLockHeld
=============================================================================
