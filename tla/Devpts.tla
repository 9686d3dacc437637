------------------------------- MODULE Devpts -------------------------------
(***************************************************************************)
(* The numbers of pseudoterminals: pty_reserve_next, ptmx_open and the     *)
(* devpts filesystem of fs/pty.c, with tty_get and tty_release of fs/tty.c *)
(* on the table of the slaves.  ttys_lock makes each step atomic; between  *)
(* the reservation of a number and the terminal, and between looking a     *)
(* name up and using the number, the lock is free.                         *)
(***************************************************************************)
EXTENDS Integers, Sequences, FiniteSets

CONSTANTS MaxPtys,       \* MAX_PTYS (bound)
          PtsThreads,    \* guest threads
          MaxSlaveFds    \* open files of one slave that are followed (bound)

Numbers == 0..MaxPtys - 1
NoNum == -1

VARIABLES
  ptsSlot,    \* number, and the word after the table -> "none", "reserved" (1), "tty"
  ptsMaster,  \* the numbers whose master is open
  ptsFiles,   \* number -> open files of the slave
  ptsRefs,    \* number -> refcount of the slave
  ptsAt,      \* thread -> the step of its call and the number it works on
  ptsDir,     \* thread -> file of devpts it has open: its number, or the root's offset
  ptsListed,  \* thread -> numbers the root's file has listed, and those that stayed since it began
  ptsFailed   \* an assertion failed or a reserved entry was used: the emulator is gone

ptsVars == <<ptsSlot, ptsMaster, ptsFiles, ptsRefs, ptsAt, ptsDir, ptsListed, ptsFailed>>

PtsIdle == [step |-> "idle", num |-> NoNum]
NoDir == [kind |-> "none", at |-> 0]

PtsInit ==
  /\ ptsSlot = [n \in 0..MaxPtys |-> "none"]
  /\ ptsMaster = {} /\ ptsFiles = [n \in Numbers |-> 0] /\ ptsRefs = [n \in Numbers |-> 0]
  /\ ptsAt = [t \in PtsThreads |-> PtsIdle] /\ ptsDir = [t \in PtsThreads |-> NoDir]
  /\ ptsListed = [t \in PtsThreads |-> [seen |-> <<>>, stay |-> {}]]
  /\ ptsFailed = FALSE

PtsGoes(t, step, num) == ptsAt' = [ptsAt EXCEPT ![t] = [step |-> step, num |-> num]]
PtsSame == UNCHANGED <<ptsSlot, ptsMaster, ptsFiles, ptsRefs>>
Exists(n) == ptsSlot[n] # "none"

\* A number that leaves the table no longer counts as there all along.
Leaves(n) == ptsListed' = [t \in PtsThreads |-> [ptsListed[t] EXCEPT !.stay = @ \ {n}]]

-----------------------------------------------------------------------------
(* Terminals.                                                              *)

\* pty_reserve_next: the first free number; when there is none the loop ends one
\* past the table, which is written all the same, and ptmx_open gives ENOSPC.
FirstFree == IF \E n \in Numbers : ~Exists(n)
             THEN CHOOSE n \in Numbers : ~Exists(n) /\ \A m \in 0..n - 1 : Exists(m)
             ELSE MaxPtys
MarkNothing(n) == ptsSlot
Mark(n) == [ptsSlot EXCEPT ![n] = "reserved"]

Reserve(t) ==
  /\ ptsAt[t] = PtsIdle
  /\ ptsSlot' = Mark(FirstFree)
  /\ IF FirstFree = MaxPtys THEN UNCHANGED ptsAt ELSE PtsGoes(t, "make", FirstFree)
  /\ UNCHANGED <<ptsMaster, ptsFiles, ptsRefs, ptsDir, ptsListed, ptsFailed>>

\* tty_get of the master: pty_master_init makes the slave, with one reference.
Make(t) ==
  LET n == ptsAt[t].num IN
  /\ ptsAt[t].step = "make" /\ PtsGoes(t, "idle", NoNum)
  /\ ptsSlot' = [ptsSlot EXCEPT ![n] = "tty"]
  /\ ptsMaster' = ptsMaster \cup {n} /\ ptsRefs' = [ptsRefs EXCEPT ![n] = 1]
  /\ UNCHANGED <<ptsFiles, ptsDir, ptsListed, ptsFailed>>

\* tty_release of the slave: the last reference empties the entry.
PtsReleaseSlave(n) ==
  /\ ptsRefs' = [ptsRefs EXCEPT ![n] = @ - 1]
  /\ IF ptsRefs[n] = 1 THEN ptsSlot' = [ptsSlot EXCEPT ![n] = "none"] /\ Leaves(n)
     ELSE UNCHANGED <<ptsSlot, ptsListed>>

PtsCloseMaster(n) ==
  /\ n \in ptsMaster /\ ptsMaster' = ptsMaster \ {n}
  /\ PtsReleaseSlave(n)
  /\ UNCHANGED <<ptsFiles, ptsAt, ptsDir, ptsFailed>>

\* tty_device_open of a slave: an entry that is no terminal cannot be made one
\* (init fails), and a slave without its master is refused and released again.
PtsOpenSlave(n) ==
  /\ ptsSlot[n] = "tty" /\ n \in ptsMaster /\ ptsFiles[n] < MaxSlaveFds
  /\ ptsFiles' = [ptsFiles EXCEPT ![n] = @ + 1] /\ ptsRefs' = [ptsRefs EXCEPT ![n] = @ + 1]
  /\ UNCHANGED <<ptsSlot, ptsMaster, ptsAt, ptsDir, ptsListed, ptsFailed>>

PtsCloseSlave(n) ==
  /\ ptsFiles[n] > 0 /\ ptsFiles' = [ptsFiles EXCEPT ![n] = @ - 1]
  /\ PtsReleaseSlave(n)
  /\ UNCHANGED <<ptsMaster, ptsAt, ptsDir, ptsFailed>>

-----------------------------------------------------------------------------
(* The filesystem.                                                         *)

\* devpts_get_pty_num for a path, then devpts_open, devpts_stat or devpts_setattr.
Lookup(t, n, call) ==
  /\ ptsAt[t] = PtsIdle /\ Exists(n) /\ (call = "open" => ptsDir[t] = NoDir)
  /\ PtsGoes(t, call, n)
  /\ PtsSame /\ UNCHANGED <<ptsDir, ptsListed, ptsFailed>>

DevptsOpen(t) ==
  /\ ptsAt[t].step = "open" /\ PtsGoes(t, "idle", NoNum)
  /\ ptsDir' = [ptsDir EXCEPT ![t] = [kind |-> "pty", at |-> ptsAt[t].num]]
  /\ PtsSame /\ UNCHANGED <<ptsListed, ptsFailed>>

OpenRoot(t) ==
  /\ ptsAt[t] = PtsIdle /\ ptsDir[t] = NoDir
  /\ ptsDir' = [ptsDir EXCEPT ![t] = [kind |-> "root", at |-> 0]]
  /\ ptsListed' = [ptsListed EXCEPT ![t] = [seen |-> <<>>, stay |-> {n \in Numbers : Exists(n)}]]
  /\ PtsSame /\ UNCHANGED <<ptsAt, ptsFailed>>

\* devpts_stat_num and devpts_setattr_num: assert(tty != NULL), then the terminal's
\* lock, owner and permissions.
UseNum(n) == ptsFailed' = (ptsFailed \/ ptsSlot[n] # "tty")

StatNum(t) ==
  /\ ptsAt[t].step = "stat" /\ PtsGoes(t, "idle", NoNum)
  /\ UseNum(ptsAt[t].num)
  /\ PtsSame /\ UNCHANGED <<ptsDir, ptsListed>>

Fstat(t) ==
  /\ ptsAt[t] = PtsIdle /\ ptsDir[t].kind = "pty"
  /\ UseNum(ptsDir[t].at) /\ ptsFailed' # ptsFailed
  /\ PtsSame /\ UNCHANGED <<ptsAt, ptsDir, ptsListed>>

\* devpts_readdir: from the file's offset, each number under the lock.
SkipOne(n) == n + 2
NextOffset(n) == n + 1
Readdir(t) ==
  /\ ptsAt[t] = PtsIdle /\ ptsDir[t].kind = "root"
  /\ \E n \in Numbers :
       /\ n >= ptsDir[t].at /\ Exists(n) /\ \A m \in ptsDir[t].at..n - 1 : ~Exists(m)
       /\ ptsDir' = [ptsDir EXCEPT ![t].at = NextOffset(n)]
       /\ ptsListed' = [ptsListed EXCEPT ![t].seen = Append(@, n)]
  /\ PtsSame /\ UNCHANGED <<ptsAt, ptsFailed>>

PtsClose(t) ==
  /\ ptsDir[t] # NoDir /\ ptsAt[t] = PtsIdle
  /\ ptsDir' = [ptsDir EXCEPT ![t] = NoDir]
  /\ ptsListed' = [ptsListed EXCEPT ![t] = [seen |-> <<>>, stay |-> {}]]
  /\ PtsSame /\ UNCHANGED <<ptsAt, ptsFailed>>

PtsNext ==
  /\ ~ptsFailed
  /\ \/ \E t \in PtsThreads :
          \/ Reserve(t) \/ Make(t) \/ OpenRoot(t) \/ DevptsOpen(t) \/ StatNum(t)
          \/ Fstat(t) \/ Readdir(t) \/ PtsClose(t)
          \/ \E n \in Numbers, call \in {"open", "stat"} : Lookup(t, n, call)
     \/ \E n \in Numbers : PtsCloseMaster(n) \/ PtsOpenSlave(n) \/ PtsCloseSlave(n)

PtsSpec == PtsInit /\ [][PtsNext]_ptsVars

-----------------------------------------------------------------------------
(* Properties.                                                             *)

\* A number has one owner: the thread that reserved it or the terminal that is
\* made of it, whose references are its master and its files.
NumbersOwned ==
  \A n \in Numbers :
    LET makers == {t \in PtsThreads : ptsAt[t] = [step |-> "make", num |-> n]} IN
    /\ ptsSlot[n] = "reserved" <=> makers # {}
    /\ Cardinality(makers) <= 1
    /\ ptsRefs[n] = ptsFiles[n] + IF n \in ptsMaster THEN 1 ELSE 0
    /\ ptsSlot[n] = "tty" <=> ptsRefs[n] > 0

\* A listing that has come past a number which was there all along has it, and
\* has no number twice.
ListingExact ==
  \A t \in PtsThreads : ptsDir[t].kind = "root" =>
    /\ \A n \in ptsListed[t].stay : n < ptsDir[t].at => \E i \in DOMAIN ptsListed[t].seen : ptsListed[t].seen[i] = n
    /\ \A i, j \in DOMAIN ptsListed[t].seen : ptsListed[t].seen[i] = ptsListed[t].seen[j] => i = j

\* fs/pty.c over every interleaving of opening and closing terminals and listing
\* them.
PtsSafe == NumbersOwned /\ ListingExact

\* assert(tty != NULL) in devpts_stat_num and devpts_setattr_num: a number that
\* was looked up is a terminal's when it is used.
NumIsTerminal == ~ptsFailed
=============================================================================
