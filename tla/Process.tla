------------------------------ MODULE Process ------------------------------
(***************************************************************************)
(* The life of tasks and thread groups: clone (kernel/fork.c, task.c),     *)
(* exit, exit_group, wait and the shutdown when init dies (kernel/exit.c), *)
(* and the signals that decide about life: SIGKILL, SIGTSTP, SIGCONT and   *)
(* the parent-death signal (kernel/signal.c, misc.c).                      *)
(*                                                                         *)
(* A task is named by its pid and a thread group by the pid of its leader, *)
(* whose task lives as long as the group.  One action is one section under *)
(* pids_lock.  The children of a task are the tasks whose parent it is:    *)
(* the code changes the list and the pointer together.  Which free pid     *)
(* task_create_ comes to next depends on all that ran before: any one.     *)
(***************************************************************************)
EXTENDS Naturals, Sequences, FiniteSets

CONSTANTS
  MaxPid,  \* the largest MAX_PID
  Guests   \* what guests do: the pids there are, the signals that kill
           \* sends, and which of exit_group, "vfork", "pdeath" and "halt"
           \* (init exits) they use

ASSUME ProcessAssumption ==
  /\ MaxPid \in Nat \ {0}
  /\ Guests \subseteq [pids : 1 .. MaxPid,
                       signals : SUBSET {"KILL", "TSTP", "CONT"},
                       features : SUBSET {"exit_group", "vfork",
                                          "pdeath", "halt"}]

Pid == 1 .. MaxPid
NoTask == 0

VARIABLES
  guest,      \* the guest that runs; it never changes
  at,         \* where each task is, see TypeOK
  leader,     \* task->group->leader
  parent,     \* task->parent
  new,        \* the clone a task is in: its child and the flags
  want,       \* the pid a task waits for, 0 for any child
  asleep,     \* tasks blocked in wait_for inside do_wait
  sigs,       \* each task's queue of signals
  stopped,    \* groups with `stopped` set
  doing,      \* groups with `doing_group_exit` set
  code,       \* each group's group_exit_code
  meant,      \* history: the status of the first exit_group of each group
  zombie,     \* leaders with `zombie` set
  inherited,  \* history: zombies that got a new parent after they died
  released,   \* parents whose vfork_info is done
  pdeath,     \* tasks with a parent-death signal
  halt        \* halt_system: 0 not running, its round, 4 when it is over

vars == <<guest, at, leader, parent, new, want, asleep, sigs, stopped, doing,
          code, meant, zombie, inherited, released, pdeath, halt>>

NoClone == [child |-> NoTask, thread |-> FALSE, vfork |-> FALSE]

(* become_first_process: init is its own group and has no parent.          *)
Init ==
  /\ guest \in Guests
  /\ at = [p \in Pid |-> IF p = 1 THEN "user" ELSE "none"]
  /\ leader = [p \in Pid |-> IF p = 1 THEN 1 ELSE NoTask]
  /\ parent = [p \in Pid |-> NoTask]
  /\ new = [p \in Pid |-> NoClone]
  /\ want = [p \in Pid |-> 0]
  /\ sigs = [p \in Pid |-> <<>>]
  /\ code = [p \in Pid |-> "none"] /\ meant = [p \in Pid |-> "none"]
  /\ asleep = {} /\ stopped = {} /\ doing = {} /\ zombie = {}
  /\ inherited = {} /\ released = {}
  /\ pdeath = {} /\ halt = 0

---------------------------------------------------------------------------
Exists(p) == at[p] # "none"
Exiting(p) == at[p] = "dead"
Up == halt # 4

(* group->threads: from the end of copy_task until exit_tgroup.            *)
Threads(g) == {p \in Pid : leader[p] = g /\ at[p] \notin {"none", "new", "dead"}}

Children(p) == {c \in Pid : Exists(c) /\ parent[c] = p}

Has(p, sig) == \E i \in DOMAIN sigs[p] : sigs[p][i] = sig

(* deliver_signal: a signal that is pending is not queued again.           *)
Queue(p, sig) == IF Has(p, sig) THEN sigs[p] ELSE Append(sigs[p], sig)

Deliver(to, sig) ==
  sigs' = [p \in Pid |-> IF p \in to THEN Queue(p, sig) ELSE sigs[p]]

(* The parents in vfork that wait for q.                                   *)
VforkParents(q) == {v \in Pid : at[v] = "vfork" /\ new[v].child = q}

---------------------------------------------------------------------------
(* sys_clone up to copy_task: the task exists, on its parent's list, with  *)
(* its parent's group but not in it, and with no signals.                  *)
Clone(p, q, thread, vfork) ==
  /\ Up /\ at[p] = "user" /\ ~Exists(q) /\ q <= guest.pids
  /\ vfork => "vfork" \in guest.features
  /\ at' = [at EXCEPT ![p] = "clone", ![q] = "new"]
  /\ leader' = [leader EXCEPT ![q] = leader[p]]
  /\ parent' = [parent EXCEPT ![q] = p]
  /\ new' = [new EXCEPT ![p] = [child |-> q, thread |-> thread, vfork |-> vfork]]
  /\ UNCHANGED <<want, asleep, sigs, stopped, doing, code, meant, zombie,
                 inherited, released, pdeath, halt>>

(* The rest of copy_task and task_start: the task joins its parent's group *)
(* or its own, a copy of the parent's, and runs.                           *)
CloneJoin(p) ==
  LET q == new[p].child
      g == leader[p] IN
  /\ Up /\ at[p] = "clone"
  /\ at' = [at EXCEPT ![p] = IF new[p].vfork THEN "vfork" ELSE "user",
                      ![q] = "user"]
  /\ IF new[p].thread
       THEN UNCHANGED <<leader, stopped, code, meant>>
       ELSE /\ leader' = [leader EXCEPT ![q] = q]
            /\ stopped' = IF g \in stopped THEN stopped \cup {q} ELSE stopped
            /\ code' = [code EXCEPT ![q] = code[g]]
            /\ meant' = [meant EXCEPT ![q] = "none"]
  /\ new' = IF new[p].vfork THEN new ELSE [new EXCEPT ![p] = NoClone]
  /\ UNCHANGED <<parent, want, asleep, sigs, doing, zombie, inherited,
                 released, pdeath, halt>>

(* copy_task fails before the task joins a group: only the task itself is  *)
(* undone.  (Failures after that, with addresses clone cannot write, leave *)
(* a freed task on a list and are not modelled.)                           *)
CloneFails(p) ==
  LET q == new[p].child IN
  /\ Up /\ at[p] = "clone"
  /\ at' = [at EXCEPT ![p] = "user", ![q] = "none"]
  /\ leader' = [leader EXCEPT ![q] = NoTask]
  /\ parent' = [parent EXCEPT ![q] = NoTask]
  /\ sigs' = [sigs EXCEPT ![q] = <<>>]
  /\ new' = [new EXCEPT ![p] = NoClone]
  /\ UNCHANGED <<want, asleep, stopped, doing, code, meant, zombie,
                 inherited, released, pdeath, halt>>

(* The end of sys_clone with CLONE_VFORK: the parent goes on when its      *)
(* vfork_info is done, and locks the child's general_lock on the way out.  *)
VforkReturns(p) ==
  /\ Up /\ at[p] = "vfork" /\ p \in released
  /\ at' = [at EXCEPT ![p] = "user"]
  /\ new' = [new EXCEPT ![p] = NoClone]
  /\ released' = released \ {p}
  /\ UNCHANGED <<leader, parent, want, asleep, sigs, stopped, doing, code,
                 meant, zombie, inherited, pdeath, halt>>

(* Mutant: nobody tells the parent.                                        *)
SilentVfork(p) == released

(* vfork_notify                                                            *)
VforkNotify(p) == released \cup VforkParents(p)

(* execve: releases a vfork parent; setuid images clear the parent-death   *)
(* signal.                                                                 *)
Exec(p, setuid) ==
  /\ Up /\ at[p] = "user"
  /\ released' = VforkNotify(p)
  /\ pdeath' = IF setuid THEN pdeath \ {p} ELSE pdeath
  /\ UNCHANGED <<at, leader, parent, new, want, asleep, sigs, stopped, doing,
                 code, meant, zombie, inherited, halt>>

(* prctl(PR_SET_PDEATHSIG)                                                 *)
SetPdeath(p) ==
  /\ "pdeath" \in guest.features
  /\ Up /\ at[p] = "user"
  /\ pdeath' = pdeath \cup {p}
  /\ UNCHANGED <<at, leader, parent, new, want, asleep, sigs, stopped, doing,
                 code, meant, zombie, inherited, released, halt>>

---------------------------------------------------------------------------
(* sys_kill with SIGKILL, SIGTSTP or SIGCONT: send_signal drops it when    *)
(* the task is exiting, even if its group has threads left, and a task     *)
(* that is being created may yet clear its queue (end of task_create_).    *)
Kill(q, sig) ==
  /\ Up /\ Exists(q) /\ ~Exiting(q)
  /\ IF sig = "CONT" THEN UNCHANGED <<sigs, asleep>>
     ELSE /\ Deliver({q}, sig) \/ (at[q] = "new" /\ UNCHANGED sigs)
          /\ asleep' = asleep \ {q}
  /\ stopped' = IF sig \in {"CONT", "KILL"} THEN stopped \ {leader[q]} ELSE stopped
  /\ UNCHANGED <<at, leader, parent, new, want, doing, code, meant, zombie,
                 inherited, released, pdeath, halt>>

(* receive_signals takes a SIGTSTP: the group is stopped and its exit code *)
(* says so; when nothing else is queued the parent hears of it.            *)
ReceiveStop(p) ==
  LET g == leader[p] IN
  /\ Up /\ at[p] = "user" /\ sigs[p] # <<>> /\ Head(sigs[p]) = "TSTP"
  /\ sigs' = [sigs EXCEPT ![p] = Tail(@)]
  /\ stopped' = stopped \cup {g}
  /\ code' = [code EXCEPT ![g] = "stop"]
  /\ at' = [at EXCEPT ![p] = IF Tail(sigs[p]) = <<>> THEN "stopped"
                                                     ELSE "signals"]
  /\ asleep' = IF Tail(sigs[p]) = <<>> /\ g \notin stopped /\ parent[p] # NoTask
                 THEN asleep \ Threads(leader[parent[p]]) ELSE asleep
  /\ UNCHANGED <<leader, parent, new, want, doing, meant, zombie, inherited,
                 released, pdeath, halt>>

(* The end of handle_interrupt: a task of a stopped group waits.           *)
Stop(p) ==
  /\ Up /\ at[p] = "user" /\ leader[p] \in stopped
  /\ at' = [at EXCEPT ![p] = "stopped"]
  /\ UNCHANGED <<leader, parent, new, want, asleep, sigs, stopped, doing,
                 code, meant, zombie, inherited, released, pdeath,
                 halt>>

Continue(p) ==
  /\ Up /\ at[p] = "stopped" /\ leader[p] \notin stopped
  /\ at' = [at EXCEPT ![p] = "user"]
  /\ UNCHANGED <<leader, parent, new, want, asleep, sigs, stopped, doing,
                 code, meant, zombie, inherited, released, pdeath,
                 halt>>

(* do_exit_group: the first status counts, every thread of the group gets  *)
(* SIGKILL, and do_exit follows.                                           *)
DoExitGroup(p, status) ==
  LET g == leader[p] IN
  /\ at' = [at EXCEPT ![p] = "exit"]
  /\ doing' = doing \cup {g}
  /\ code' = IF g \in doing THEN code ELSE [code EXCEPT ![g] = status]
  /\ meant' = IF g \in doing THEN meant ELSE [meant EXCEPT ![g] = status]
  /\ Deliver(Threads(g), "KILL")
  /\ asleep' = asleep \ Threads(g)
  /\ stopped' = stopped \ {g}
  /\ UNCHANGED <<leader, parent, new, want, zombie, inherited, released, pdeath, halt>>

ExitGroup(p) ==
  /\ "exit_group" \in guest.features
  /\ Up /\ at[p] = "user" /\ DoExitGroup(p, "exit")

(* receive_signals takes a SIGKILL.  do_exit_group queues another for the  *)
(* task itself; nothing reads its queue any more.                          *)
ReceiveKill(p) ==
  /\ Up /\ at[p] \in {"user", "signals"}
  /\ sigs[p] # <<>> /\ Head(sigs[p]) = "KILL"
  /\ DoExitGroup(p, "kill")

(* Mutant: the children go to the group's leader, dead or alive.           *)
LeaderInherits(p) == {leader[p]}

(* find_new_parent: a thread of the group that is not exiting, or init.    *)
NewParent(p) ==
  LET others == Threads(leader[p]) \ {p} IN
  IF others # {} THEN others ELSE {1}

(* Mutant: the group is taken for dead when its leader exits.              *)
LeaderLeft(p) == leader[p] = p

(* exit_tgroup: whether p is the last thread of its group.                 *)
GroupDead(p) == Threads(leader[p]) = {p}

(* Mutant: only the thread that made the child is told.                    *)
WakeParentOnly(q) == asleep \ {parent[q]}

(* notify(&parent->group->child_exit): every thread of the parent's group  *)
(* looks again.                                                            *)
WakeParentGroup(q) == asleep \ {w \in Pid : leader[w] = leader[parent[q]]}

(* do_exit from the point where it holds pids_lock.                        *)
DoExit(p) ==
  LET g == leader[p]
      last == GroupDead(p)
      initDied == last /\ parent[g] = NoTask
      gone == p # g /\ ~initDied
      told == {c \in Children(p) \cap pdeath : ~Exiting(c)} IN
  /\ g = 1 => "halt" \in guest.features
  /\ at' = [at EXCEPT ![p] = IF gone THEN "none" ELSE "dead"]
  /\ leader' = IF gone THEN [leader EXCEPT ![p] = NoTask] ELSE leader
  /\ \E np \in NewParent(p) :
       parent' = [c \in Pid |-> IF c = p /\ gone THEN NoTask
                                ELSE IF c \in Children(p) THEN np ELSE parent[c]]
  /\ inherited' = inherited \cup (Children(p) \cap zombie)
  /\ sigs' = [t \in Pid |-> IF t = p THEN <<>>
                            ELSE IF t \in told THEN Queue(t, "KILL")
                            ELSE sigs[t]]
  /\ stopped' = stopped \ {leader[c] : c \in told}
  /\ zombie' = IF last /\ ~initDied THEN zombie \cup {g} ELSE zombie
  /\ asleep' = (IF last /\ ~initDied THEN WakeParentGroup(g) ELSE asleep) \ told
  /\ halt' = IF initDied THEN 1 ELSE halt
  /\ released' = VforkNotify(p)
  /\ pdeath' = pdeath \ {p}
  /\ UNCHANGED <<new, want, doing, code, meant>>

(* sys_exit, and the end of exit_group.                                    *)
ExitThread(p) == Up /\ at[p] = "user" /\ DoExit(p)
ExitEnds(p) == Up /\ at[p] = "exit" /\ DoExit(p)

---------------------------------------------------------------------------
(* The leaders do_wait looks at: the children the caller itself made or    *)
(* inherited; or one pid, if its parent is in the caller's group.          *)
Candidates(p, id) ==
  IF id = 0 THEN {q \in Children(p) : leader[q] = q}
  ELSE IF Exists(id) /\ parent[id] # NoTask /\ leader[parent[id]] = leader[p]
    THEN {leader[id]} ELSE {}

(* reap_if_zombie: the group and its leader's task are freed.              *)
Reap(p, q) ==
  /\ q \in zombie
  /\ at' = [at EXCEPT ![q] = "none", ![p] = "user"]
  /\ leader' = [leader EXCEPT ![q] = NoTask]
  /\ parent' = [parent EXCEPT ![q] = NoTask]
  /\ zombie' = zombie \ {q} /\ inherited' = inherited \ {q}
  /\ doing' = doing \ {q} /\ stopped' = stopped \ {q}
  /\ code' = [code EXCEPT ![q] = "none"] /\ meant' = [meant EXCEPT ![q] = "none"]
  /\ want' = [want EXCEPT ![p] = 0]
  /\ UNCHANGED <<new, asleep, sigs, released, pdeath, halt>>

(* notify_if_stopped, for a caller that passed WUNTRACED.                  *)
ReportStop(p, q) ==
  /\ q \in stopped /\ code[q] # "none"
  /\ code' = [code EXCEPT ![q] = "none"]
  /\ at' = [at EXCEPT ![p] = "user"] /\ want' = [want EXCEPT ![p] = 0]
  /\ UNCHANGED <<leader, parent, new, asleep, sigs, stopped, doing, meant,
                 zombie, inherited, released, pdeath, halt>>

(* _ECHILD, _EINTR, or nothing yet with WNOHANG.                           *)
WaitReturns(p) ==
  /\ at' = [at EXCEPT ![p] = "user"] /\ want' = [want EXCEPT ![p] = 0]
  /\ UNCHANGED <<leader, parent, new, asleep, sigs, stopped, doing, code,
                 meant, zombie, inherited, released, pdeath, halt>>

WaitSleeps(p, id) ==
  /\ at' = [at EXCEPT ![p] = "wait"] /\ want' = [want EXCEPT ![p] = id]
  /\ asleep' = asleep \cup {p}
  /\ UNCHANGED <<leader, parent, new, sigs, stopped, doing, code, meant,
                 zombie, inherited, released, pdeath, halt>>

(* One pass through do_wait, from its start or after it was woken.         *)
WaitPass(p, id, nohang) ==
  LET found == Candidates(p, id) IN
  \/ \E q \in found : Reap(p, q) \/ ReportStop(p, q)
  \/ /\ found \cap zombie = {}
     /\ found = {} \/ nohang \/ sigs[p] # <<>>
     /\ WaitReturns(p)
  \/ /\ found \cap zombie = {} /\ found # {} /\ ~nohang /\ sigs[p] = <<>>
     /\ WaitSleeps(p, id)

Wait(p, id, nohang) == Up /\ at[p] = "user" /\ WaitPass(p, id, nohang)
WaitRetries(p) ==
  Up /\ at[p] = "wait" /\ p \notin asleep /\ WaitPass(p, want[p], FALSE)

---------------------------------------------------------------------------
(* One round of halt_system, with pids_lock released after it: SIGTERM to  *)
(* everyone (fatal to those without a handler), then SIGKILL, then the     *)
(* host thread.  The loop ends before MAX_PID.                             *)
HaltRound ==
  LET found == {q \in 2 .. guest.pids - 1 : Exists(q) /\ ~Exiting(q)} IN
  /\ halt \in 1 .. 3
  /\ \/ /\ found = {} \/ halt = 3
        /\ halt' = 4
        /\ UNCHANGED <<sigs, asleep>>
     \/ /\ found # {} /\ halt < 3
        /\ halt' = halt + 1
        /\ \E hit \in IF halt = 1 THEN SUBSET found ELSE {found} :
             Deliver(hit, "KILL") /\ asleep' = asleep \ hit
  /\ UNCHANGED <<at, leader, parent, new, want, stopped, doing, code, meant,
                 zombie, inherited, released, pdeath>>

TaskNext ==
  \/ \E p \in Pid :
       \/ \E q \in Pid, thread, vfork \in BOOLEAN : Clone(p, q, thread, vfork)
       \/ CloneJoin(p) \/ CloneFails(p)
       \/ VforkReturns(p)
       \/ \E setuid \in BOOLEAN : Exec(p, setuid)
       \/ SetPdeath(p)
       \/ \E sig \in guest.signals : Kill(p, sig)
       \/ ReceiveStop(p) \/ Stop(p) \/ Continue(p)
       \/ ExitGroup(p) \/ ReceiveKill(p) \/ ExitThread(p) \/ ExitEnds(p)
       \/ \E id \in 0 .. guest.pids, nohang \in BOOLEAN : Wait(p, id, nohang)
       \/ WaitRetries(p)
  \/ HaltRound

Next == TaskNext /\ UNCHANGED guest

Spec == Init /\ [][Next]_vars

---------------------------------------------------------------------------
Codes == {"none", "exit", "kill", "stop"}

(* The types of the variables; a signal is queued once.                     *)
TypeOK ==
  /\ guest \in Guests
  /\ at \in [Pid -> {"none", "new", "user", "signals", "stopped", "clone", "vfork",
                     "wait", "exit", "dead"}]
  /\ leader \in [Pid -> 0 .. MaxPid] /\ parent \in [Pid -> 0 .. MaxPid]
  /\ new \in [Pid -> [child : 0 .. MaxPid, thread : BOOLEAN, vfork : BOOLEAN]]
  /\ want \in [Pid -> 0 .. MaxPid]
  /\ sigs \in [Pid -> Seq({"KILL", "TSTP"})]
  /\ \A p \in Pid : \A i, j \in DOMAIN sigs[p] :
       sigs[p][i] = sigs[p][j] => i = j
  /\ code \in [Pid -> Codes] /\ meant \in [Pid -> Codes]
  /\ {asleep, stopped, doing, zombie, inherited, released,
      pdeath} \subseteq SUBSET Pid
  /\ halt \in 0 .. 4

(* No pointer outlives what it points to: every task has a group whose     *)
(* leader's task exists and, unless it is init, a parent whose task exists *)
(* and who can still wait for it (exit moves children before it frees).    *)
(* Only init's leader may be a parent and be gone.                         *)
FamilySound ==
  \A p \in Pid : Exists(p) =>
    /\ Exists(leader[p]) /\ leader[leader[p]] = leader[p]
    /\ parent[p] = NoTask => p = 1
    /\ parent[p] # NoTask =>
         Exists(parent[p]) /\ (Exiting(parent[p]) => parent[p] = 1)

(* A leader is a zombie exactly when its group has no thread left, so wait *)
(* frees a group only when no thread can reach it.                         *)
ZombieExact ==
  \A g \in Pid : Exists(g) /\ leader[g] = g =>
    (g \in zombie <=> Threads(g) = {} /\ ~(g = 1 /\ halt > 0))

(* No exit is missed: while a task sleeps in wait, no child it waits for   *)
(* is a zombie that died as its group's child.                             *)
NoMissedExit ==
  \A p \in asleep : Candidates(p, want[p]) \cap zombie \subseteq inherited

(* A parent in vfork is let go when its child dies, however it dies.       *)
VforkEnds ==
  \A p \in Pid : at[p] = "vfork" /\ p \notin released =>
    Exists(new[p].child) /\ ~Exiting(new[p].child)

(* FamilySound and ZombieExact together: whoever reaches a task, a group   *)
(* or a parent through a pointer finds it there (kernel/exit.c do_exit,    *)
(* reap_if_zombie).                                                        *)
FamilySafe == TypeOK /\ FamilySound /\ ZombieExact

(* NoMissedExit and VforkEnds together: nobody sleeps for the end of a     *)
(* child that has ended (kernel/exit.c do_wait, kernel/fork.c              *)
(* vfork_notify).                                                          *)
EndIsSeen == NoMissedExit /\ VforkEnds

(* "any thread calls exit_group: ... wait will return the status passed to *)
(* exit_group" (kernel/task.h).                                            *)
ExitGroupStatus == \A g \in zombie \cap doing : code[g] = meant[g]
=============================================================================
