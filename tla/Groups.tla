------------------------------- MODULE Groups -------------------------------
(***************************************************************************)
(* Process groups, sessions and the controlling terminal: kernel/group.c,  *)
(* the pid table of kernel/task.c, tgroup_copy of kernel/fork.c, the end of *)
(* reap_if_zombie of kernel/exit.c, and tty_open, tiocsctty and TIOCSPGRP  *)
(* of fs/tty.c.  All of them run under pids_lock.  A process is the number *)
(* of its leader; its struct tgroup is on one list of processes of a       *)
(* session and one of a process group, whose heads are in the pid table.   *)
(***************************************************************************)
EXTENDS Integers, FiniteSets

CONSTANTS Pids,      \* 1..MAX_PID (bound)
          FirstPid   \* init

ASSUME GroupsAssumption ==
  IsFiniteSet(Pids) /\ FirstPid \in Pids /\ 0 \notin Pids

VARIABLES
  grpOf,       \* process -> sid, pgid, parent, tty (group->tty is the terminal)
  grpSession,  \* pid -> processes on its session list
  grpGroup,    \* pid -> processes on its pgroup list
  grpTty,      \* the terminal: refs, session, fg (fg_group), fds (processes with it open)
  grpAstray    \* history: processes on the list of a group that is not theirs

grpVars == <<grpOf, grpSession, grpGroup, grpTty, grpAstray>>

Live == DOMAIN grpOf
PidEmpty(i) == i \notin Live /\ grpSession[i] = {} /\ grpGroup[i] = {}

\* construct_task and task_setsid for init.
GroupsInit ==
  /\ grpOf = [p \in {FirstPid} |-> [sid |-> p, pgid |-> p, parent |-> 0, tty |-> FALSE]]
  /\ grpSession = [i \in Pids |-> IF i = FirstPid THEN {i} ELSE {}]
  /\ grpGroup = grpSession
  /\ grpTty = [refs |-> 0, session |-> 0, fg |-> 0, fds |-> {}]
  /\ grpAstray = {}

-----------------------------------------------------------------------------
Put(lists, i, p) == [lists EXCEPT ![i] = @ \cup {p}]
Take(lists, p) == [i \in Pids |-> lists[i] \ {p}]
SameList(lists, p, q) == [i \in Pids |-> IF p \in lists[i] THEN lists[i] \cup {q} ELSE lists[i]]

\* sys_clone of a new process: tgroup_copy puts it on its parent's lists and
\* counts the terminal once more.  (A file of the terminal that both share is
\* closed once: it stays with the parent here.)
Fork(p, q) ==
  /\ p \in Live /\ PidEmpty(q)
  /\ grpOf' = [r \in Live \cup {q} |-> IF r = q THEN [grpOf[p] EXCEPT !.parent = p] ELSE grpOf[r]]
  /\ grpSession' = SameList(grpSession, p, q)
  /\ grpGroup' = SameList(grpGroup, p, q)
  /\ grpTty' = [grpTty EXCEPT !.refs = IF grpOf[p].tty THEN @ + 1 ELSE @]
  /\ grpAstray' = IF p \in grpAstray THEN grpAstray \cup {q} ELSE grpAstray

LeftUncounted(p, tty) ==
  IF ~grpOf[p].tty THEN tty
  ELSE [tty EXCEPT !.session = IF Take(grpSession, p)[grpOf[p].sid] = {} THEN 0 ELSE @]
\* task_leave_session: the terminal loses its session when the list is empty
\* (and its reference when the process has it).
LeftSession(p, tty) ==
  IF ~grpOf[p].tty THEN tty
  ELSE [tty EXCEPT !.refs = @ - 1,
                   !.session = IF Take(grpSession, p)[grpOf[p].sid] = {} THEN 0 ELSE @]

\* The process is reaped after it closed its files; its children go to init.
ReapMember(p) ==
  /\ p \in Live \ {FirstPid} /\ p \notin grpTty.fds
  /\ grpOf' = [q \in Live \ {p} |->
                 IF grpOf[q].parent = p THEN [grpOf[q] EXCEPT !.parent = FirstPid] ELSE grpOf[q]]
  /\ grpSession' = Take(grpSession, p)
  /\ grpGroup' = Take(grpGroup, p)
  /\ grpTty' = LeftSession(p, grpTty)
  /\ grpAstray' = grpAstray \ {p}

\* sys_setpgid.  When p joins a group other than its own it lands on the list of
\* its own number.  The session is that of the first process on the list.
Setpgid(me, p, pgid) ==
  /\ {me, p} \subseteq Live
  /\ p # pgid => grpGroup[pgid] # {} /\ \E q \in grpGroup[pgid] : grpOf[q].sid = grpOf[p].sid
  /\ p = me \/ grpOf[p].parent = me
  /\ grpOf[p].sid # p
  /\ grpOf[p].pgid # pgid
  /\ grpOf' = [grpOf EXCEPT ![p].pgid = pgid]
  /\ grpGroup' = Put(Take(grpGroup, p), p, p)
  /\ grpAstray' = IF p = pgid THEN grpAstray \ {p} ELSE grpAstray \cup {p}
  /\ UNCHANGED <<grpSession, grpTty>>

KeepsTty(p) == [grpOf EXCEPT ![p].sid = p, ![p].pgid = p]
\* task_setsid.
NewSession(p) == [grpOf EXCEPT ![p].sid = p, ![p].pgid = p, ![p].tty = FALSE]
Setsid(p) ==
  /\ p \in Live /\ grpOf[p].pgid # p /\ grpOf[p].sid # p
  /\ grpOf' = NewSession(p)
  /\ grpSession' = Put(Take(grpSession, p), p, p)
  /\ grpGroup' = Put(Take(grpGroup, p), p, p)
  /\ grpTty' = LeftSession(p, grpTty)
  /\ grpAstray' = grpAstray \ {p}

-----------------------------------------------------------------------------
\* tty_set_controlling.
Controlled(p, tty) ==
  IF grpOf[p].tty THEN tty
  ELSE [tty EXCEPT !.refs = @ + 1, !.session = grpOf[p].sid, !.fg = grpOf[p].pgid]

\* tty_get, tty_open: a session leader gets a free terminal as its own unless it
\* asks not to; tty_close gives the reference of the file up.
OpenTty(p, noctty) ==
  /\ p \in Live \ grpTty.fds
  /\ LET tty == [grpTty EXCEPT !.refs = @ + 1, !.fds = @ \cup {p}]
         ctty == ~noctty /\ grpTty.session = 0 /\ grpOf[p].sid = p
     IN  /\ grpTty' = IF ctty THEN Controlled(p, tty) ELSE tty
         /\ grpOf' = IF ctty THEN [grpOf EXCEPT ![p].tty = TRUE] ELSE grpOf
  /\ UNCHANGED <<grpSession, grpGroup, grpAstray>>

CloseTty(p) ==
  /\ p \in grpTty.fds
  /\ grpTty' = [grpTty EXCEPT !.refs = @ - 1, !.fds = @ \ {p}]
  /\ UNCHANGED <<grpOf, grpSession, grpGroup, grpAstray>>

\* tiocsctty; with force the superuser takes the terminal from its session.
Robbed == {q \in grpSession[grpTty.session] : grpOf[q].tty}
Tiocsctty(p, force) ==
  /\ p \in grpTty.fds
  /\ ~(grpOf[p].sid = p /\ p = grpTty.session) /\ ~grpOf[p].tty
  /\ grpTty.session # 0 => force /\ ~PidEmpty(grpTty.session)
  /\ LET robbed == IF grpTty.session = 0 THEN {} ELSE Robbed
         tty == [grpTty EXCEPT !.refs = @ - Cardinality(robbed)]
     IN  /\ grpTty' = Controlled(p, tty)
         /\ grpOf' = [q \in Live |-> [grpOf[q] EXCEPT !.tty = q = p \/ (@ /\ q \notin robbed)]]
  /\ UNCHANGED <<grpSession, grpGroup, grpAstray>>

\* TIOCSPGRP: any number is accepted as the foreground group.
Tiocspgrp(p, g) ==
  /\ p \in grpTty.fds /\ grpOf[p].tty /\ grpOf[p].sid = grpTty.session
  /\ grpTty' = [grpTty EXCEPT !.fg = g]
  /\ UNCHANGED <<grpOf, grpSession, grpGroup, grpAstray>>

GroupsNext ==
  \E p, q \in Pids :
    \/ Fork(p, q) \/ (\E r \in Pids : Setpgid(p, q, r)) \/ Tiocspgrp(p, q)
    \/ p = q /\ \/ ReapMember(p) \/ Setsid(p) \/ CloseTty(p)
                \/ \E b \in BOOLEAN : OpenTty(p, b) \/ Tiocsctty(p, b)

GroupsSpec == GroupsInit /\ [][GroupsNext]_grpVars

-----------------------------------------------------------------------------
(* Properties.                                                             *)
\* Each process is on one list of each kind: the list of its session and, unless
\* it went astray in setpgid, the list of its group.
ListsExact ==
  /\ \A i \in Pids : grpSession[i] = {p \in Live : grpOf[p].sid = i}
  /\ \A p \in Live : Cardinality({i \in Pids : p \in grpGroup[i]}) = 1
  /\ \A p \in Live \ grpAstray : p \in grpGroup[grpOf[p].pgid]

\* A number that is a session's is not given to a new process, so a leader that
\* leads a session leads its own.
SessionLed == \A p \in Live : grpSession[p] # {} => grpOf[p].sid = p

\* The references of the terminal are its files and the processes that have it,
\* and all of those are of its session.
TtyExact ==
  LET holders == {p \in Live : grpOf[p].tty}
  IN  /\ grpTty.refs = Cardinality(grpTty.fds) + Cardinality(holders)
      /\ \A p \in holders : grpOf[p].sid = grpTty.session

\* kernel/group.c and the controlling terminal of fs/tty.c over every sequence
\* of fork, exit, setsid, setpgid, open, close and the terminal's ioctls: lists,
\* numbers and references agree.
GroupsSafe == ListsExact /\ SessionLed /\ TtyExact
=============================================================================
