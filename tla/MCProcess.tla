----------------------------- MODULE MCProcess -----------------------------
(* Processes: their families, groups and sessions, their terminals, kill,  *)
(* ptrace, the tables of open files that clone shares or copies, and the   *)
(* starting of programs.  One part runs per behaviour; the others stay in  *)
(* their initial states.                                                   *)
EXTENDS Process, Groups, Kill, Ptrace, FdTable, Exec, TLC

CONSTANTS
  Parts,
  Masters, Slaves, Leader, BufSize, MaxOpens,
  LineSize, MaxKeys,
  MaxPtys, PtsThreads, MaxSlaveFds

VARIABLES
  part,
  start,   \* input of the functions of exec.c
  v1, v2, v3, v4, v5, v6, v7, v8, v9   \* shared by the parts of terminals

Py == INSTANCE Pty WITH
  ptyAt <- v1, ptyHeld <- v2, ptyTty <- v3, ptyBond <- v4, ptyFd <- v5,
  ptySession <- v6, ptyWoken <- v7, ptyOpens <- v8, ptyOdd <- v9
Tl == INSTANCE TtyLine WITH
  lineBuf <- v1, lineFlags <- v2, lineCanon <- v3, lineWant <- v4,
  lineScreen <- v5, lineShown <- v6, lineOdd <- v7, lineKeys <- v8
Dp == INSTANCE Devpts WITH
  ptsSlot <- v1, ptsMaster <- v2, ptsFiles <- v3, ptsRefs <- v4, ptsAt <- v5,
  ptsDir <- v6, ptsListed <- v7, ptsFailed <- v8

Guest(pids, signals, features) ==
  [pids |-> pids, signals |-> signals, features |-> features]

(* A large family; one that is killed, forks with vfork and outlives init; *)
(* one with exit_group and parent-death signals; one that stops and        *)
(* continues.                                                              *)
AllGuests == {Guest(4, {}, {}),
              Guest(3, {"KILL"}, {"vfork", "halt"}),
              Guest(3, {}, {"exit_group", "pdeath"}),
              Guest(3, {"TSTP", "CONT"}, {})}
Stopping == {Guest(3, {"TSTP"}, {"exit_group"})}

(* Init; a process with two threads, one that gave up its user and one of *)
(* another user, all in group 2; one more of that user in group 6.         *)
Ids(uid, suid, euid, tgid, pgid) ==
  [uid |-> uid, suid |-> suid, euid |-> euid, tgid |-> tgid, pgid |-> pgid]
SomeTasks == 1 :> Ids(0, 0, 0, 1, 1) @@ 2 :> Ids(5, 5, 5, 2, 2) @@ 3 :> Ids(5, 5, 5, 2, 2)
          @@ 4 :> Ids(6, 5, 6, 4, 2) @@ 5 :> Ids(7, 7, 7, 5, 2) @@ 6 :> Ids(7, 7, 7, 6, 6)
KnownArgs == {-2, -1, 0, 3, 4, 5}
UnknownGroup == {-9, 4}

(* Program headers around page boundaries, one segment or two; first lines *)
(* of scripts; lengths of arguments and environment strings.               *)
Segments(vaddrs, offsets, filesizes, memsizes) ==
  {ph \in [vaddr : vaddrs, offset : offsets, filesize : filesizes,
           memsize : memsizes, w : BOOLEAN] : WellFormed(<<ph>>)}
Firsts == Segments(4..7, 0..3, {0, 1, 4, 5}, {1, 4, 5, 8, 9})
Seconds == Segments({13, 16, 17}, 4..7, {0, 1, 3}, {1, 3, 5})
Headers == {<<p>> : p \in Firsts}
             \cup {phs \in {<<p, q>> : p \in Firsts, q \in Seconds} : WellFormed(phs)}
Lines == {<<>>} \cup {<<c>> : c \in {"#", "!", " ", "a"}}
           \cup {<<"#", "!">> \o s : s \in UNION {[1..n -> {" ", "a", "b"}] : n \in 0..6}}
Argvs == {<<<<"s">>>>, <<<<"s">>, <<"t">>>>}
Lengths == UNION {[1..n -> {0, 1, 5}] : n \in 0..3}

Starts ==
  {<<"load", phs, bias>> : phs \in Headers, bias \in {0, 8}}
    \cup {<<"script", line, argv>> : line \in Lines, argv \in Argvs}
    \cup {<<"stack", file, env, argv>> : file \in {3, 4}, env, argv \in Lengths}

(* Two files while there is one table, one file while there are two.       *)
FewFiles == \/ Cardinality({Table(p) : p \in FdThreads} \ {"none"}) <= 1
            \/ Cardinality({x \in FileObjs : fileRefs[x] # 0}) <= 1

NoTerminal == /\ v1 = 0 /\ v2 = 0 /\ v3 = 0 /\ v4 = 0 /\ v5 = 0
              /\ v6 = 0 /\ v7 = 0 /\ v8 = 0 /\ v9 = 0

MCInit ==
  /\ part \in Parts /\ Init /\ GroupsInit /\ KillInit /\ PtInit /\ FdInit
  /\ IF part = "exec" THEN start \in Starts ELSE start = <<>>
  /\ part # "process" => guest = CHOOSE g \in Guests : TRUE
  /\ part # "ptrace" => ptIgnores = FALSE
  /\ CASE part = "pty" -> Py!PtyInit
       [] part = "line" -> Tl!LineInit /\ v9 = 0
       [] part = "devpts" -> Dp!PtsInit /\ v9 = 0
       [] OTHER -> NoTerminal

Terminals == <<v1, v2, v3, v4, v5, v6, v7, v8, v9>>

MCNext ==
  /\ UNCHANGED <<part, start>>
  /\ \/ part = "process" /\ Next /\ UNCHANGED <<fdVars, grpVars, killVars, ptVars, Terminals>>
     \/ part = "groups" /\ GroupsNext /\ UNCHANGED <<fdVars, vars, killVars, ptVars, Terminals>>
     \/ part = "kill" /\ KillNext /\ UNCHANGED <<fdVars, vars, grpVars, ptVars, Terminals>>
     \/ part = "ptrace" /\ PtNext /\ UNCHANGED <<fdVars, vars, grpVars, killVars, Terminals>>
     \/ part = "fd" /\ FdNext /\ FewFiles' /\ UNCHANGED <<vars, grpVars, killVars, ptVars, Terminals>>
     \/ part = "pty" /\ Py!PtyNext /\ UNCHANGED <<fdVars, vars, grpVars, killVars, ptVars>>
     \/ part = "line" /\ Tl!LineNext /\ UNCHANGED <<fdVars, vars, grpVars, killVars, ptVars, v9>>
     \/ part = "devpts" /\ Dp!PtsNext /\ UNCHANGED <<fdVars, vars, grpVars, killVars, ptVars, v9>>

(* Terminals: the two ends of a pseudoterminal and their locks (fs/tty.c,  *)
(* fs/pty.c), the line that is edited (tty_input) and the numbers of       *)
(* /dev/pts.                                                               *)
TerminalsSafe == /\ part = "pty" => Py!PtySafe
                 /\ part = "line" => Tl!LineSafe
                 /\ part = "devpts" => Dp!PtsSafe

(* What kernel/exec.c makes of a program: the bytes of every segment where *)
(* the file says, zeroes after them and brk above them (load_entry); the   *)
(* arguments of a "#!" line as Linux splits it (shebang_exec); a stack     *)
(* whose strings and vectors do not overlap (elf_exec).                    *)
ProgramStarts ==
  part = "exec" =>
    CASE start[1] = "load" -> LoadExact(start[2], start[3])
      [] start[1] = "script" -> ShebangExact(start[2], <<"f">>, start[3])
      [] start[1] = "stack" -> StackExact(start[2], start[3], start[4])
=============================================================================
