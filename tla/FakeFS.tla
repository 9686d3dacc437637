------------------------------ MODULE FakeFS ------------------------------
(***************************************************************************)
(* fs/fake.c, fs/fake-db.c, fs/fake-rebuild.c and fs/inode.c: a guest file *)
(* is a host file plus a row of metadata in a database.  Names and their   *)
(* inode numbers are in the table paths, the metadata in stats.  A change  *)
(* of names runs under the mutex of the database, the host half first and  *)
(* the transaction committed after it; open does its host half before it   *)
(* takes the mutex.  The program may stop at any point.                    *)
(***************************************************************************)
EXTENDS Naturals, Sequences, SequencesExt, FiniteSets, FiniteSetsExt, Functions

CONSTANTS FakePaths,    \* the names of the directory tree, sequences (bound)
          FakeThreads,
          Reach,        \* thread -> the names its calls are about (bound)
          HostFiles,    \* identities of host files, numbers (bound)
          MaxRows,      \* rows of stats (bound)
          MaxStops      \* crashes (bound)

ASSUME FakeAssumption ==
  /\ FakePaths \subseteq Seq(STRING) /\ IsFiniteSet(FakeThreads)
  /\ Reach \in [FakeThreads -> SUBSET FakePaths]
  /\ HostFiles \subseteq Nat /\ MaxRows \in Nat

VARIABLES
  hostNames,   \* the host's directory: path -> [id, kind]
  fakePaths,   \* table paths: path -> inode number
  fakeStats,   \* table stats: inode number -> [of]; of: the host file
               \* the row was made for (history variable)
  fakeThread,  \* thread -> what it is doing
  fakeInodes,  \* inodes_hash: inode number -> refcount
  torn,        \* names that a crash, a race or a rename between two links of
               \* one file left half changed (history)
  stops        \* crashes so far

fakeVars == <<hostNames, fakePaths, fakeStats, fakeThread, fakeInodes, torn, stops>>

Idle == [pc |-> "idle"]
Making(op) == op \in {"mkdir", "mknod"}

FakeTypeOK ==
  /\ \A p \in DOMAIN hostNames : p \in FakePaths /\ hostNames[p].id \in HostFiles
  /\ \A p \in DOMAIN fakePaths : p \in FakePaths /\ fakePaths[p] \in 1..MaxRows
  /\ DOMAIN fakeStats \subseteq 1..MaxRows
  /\ DOMAIN fakeThread = FakeThreads
  /\ torn \subseteq FakePaths

-----------------------------------------------------------------------------
Parent(p) == Front(p)
IsDir(p) == p = <<>> \/ (p \in DOMAIN hostNames /\ hostNames[p].kind = "dir")
Under(p, names) == {q \in names : IsStrictPrefix(p, q)}
Without(f, S) == Restrict(f, DOMAIN f \ S)
NoRows == [x \in {} |-> 0]
With(f, x, v) == [y \in DOMAIN f \cup {x} |-> IF y = x THEN v ELSE f[y]]

\* The host removes a file with no name once its last descriptor is closed; its
\* identity may then be that of a new one.
UsedFiles == {hostNames[p].id : p \in DOMAIN hostNames}
             \cup {fakeStats[i].of : i \in DOMAIN fakeStats}
             \cup {fakeThread[t].id : t \in {u \in FakeThreads :
                                       fakeThread[u].pc \in {"host", "opened", "rowed", "fd"}}}
FreshFile == CHOOSE i \in HostFiles \ UsedFiles : \A j \in HostFiles \ UsedFiles : i <= j

\* sqlite numbers a new row one above the highest there is.
NextRow == IF DOMAIN fakeStats = {} THEN 1 ELSE Max(DOMAIN fakeStats) + 1

\* change_prefix: a name at or below src, moved to dst.
Moved(src, dst, p) == IF IsPrefix(src, p) THEN dst \o SubSeq(p, Len(src) + 1, Len(p)) ELSE p

Homes(id) == {p \in DOMAIN hostNames : hostNames[p].id = id}

\* The host's verdict on a change, and its effect.
HostAccepts(c) ==
  CASE Making(c.op) ->
         c.p \notin DOMAIN hostNames /\ IsDir(Parent(c.p))
    [] c.op = "link"   -> /\ c.p \in DOMAIN hostNames /\ ~IsDir(c.p)
                          /\ c.q \notin DOMAIN hostNames /\ IsDir(Parent(c.q))
    [] c.op = "unlink" -> c.p \in DOMAIN hostNames /\ ~IsDir(c.p)
    [] c.op = "rmdir"  -> IsDir(c.p) /\ Under(c.p, DOMAIN hostNames) = {}
    [] c.op = "rename" -> /\ c.p \in DOMAIN hostNames /\ IsDir(Parent(c.q))
                          /\ ~IsPrefix(c.p, c.q)
                          /\ c.q \in DOMAIN hostNames =>
                               IsDir(c.q) = IsDir(c.p) /\ Under(c.q, DOMAIN hostNames) = {}
                          /\ \A p \in Under(c.p, DOMAIN hostNames \cup DOMAIN fakePaths) :
                               Moved(c.p, c.q, p) \in FakePaths   \* the bound

RenameKeys(f, src, dst) ==
  LET moved == {p \in DOMAIN f : IsPrefix(src, p)}
      kept == DOMAIN f \ (moved \cup {Moved(src, dst, p) : p \in moved})
  IN  [p \in kept \cup {Moved(src, dst, q) : q \in moved} |->
         IF p \in kept THEN f[p] ELSE f[CHOOSE q \in moved : Moved(src, dst, q) = p]]

\* Two names of one file, which has nothing below it: renameat returns 0 and
\* leaves both.
OneFile(op, p, q) ==
  /\ op = "rename" /\ {p, q} \subseteq DOMAIN hostNames
  /\ hostNames[p].id = hostNames[q].id /\ Under(p, DOMAIN hostNames) = {}

HostAfter(c) ==
  CASE c.op = "mkdir" -> With(hostNames, c.p, [id |-> c.id, kind |-> "dir"])
    [] c.op = "mknod" -> With(hostNames, c.p, [id |-> c.id, kind |-> "file"])
    [] c.op = "link" -> With(hostNames, c.q, hostNames[c.p])
    [] c.op \in {"unlink", "rmdir"} -> Without(hostNames, {c.p})
    [] c.op = "rename" -> IF c.same THEN hostNames ELSE RenameKeys(hostNames, c.p, c.q)

\* A rename that forgets the rows below the directory.
RenameOneRow(src, dst) ==
  IF src \in DOMAIN fakePaths THEN With(Without(fakePaths, {src}), dst, fakePaths[src]) ELSE fakePaths

\* path_rename: "update or replace paths" on src and everything below it.
PathRename(src, dst) == RenameKeys(fakePaths, src, dst)

\* path_create, path_link, path_unlink and path_rename.
PathsAfter(c) ==
  CASE Making(c.op) -> With(fakePaths, c.p, NextRow)
    [] c.op = "link" -> With(fakePaths, c.q, fakePaths[c.p])
    [] c.op \in {"unlink", "rmdir"} -> Without(fakePaths, {c.p})
    [] c.op = "rename" -> PathRename(c.p, c.q)

StatsAfter(c) ==
  IF Making(c.op)
  THEN With(fakeStats, NextRow, [of |-> c.id]) ELSE fakeStats

-----------------------------------------------------------------------------
\* db_begin_write and the host half of mkdir, mknod (symlink does the same), link,
\* unlink, rmdir and rename.  A refusal of the host rolls the transaction back.
NoTransaction == \A t \in FakeThreads : fakeThread[t].pc # "host"

Touched(c) == IF c.op = "rename"
              THEN {c.p, c.q} \cup Under(c.p, FakePaths) \cup Under(c.q, FakePaths)
              ELSE IF c.op = "link" THEN {c.q} ELSE {c.p}

Change(t) ==
  /\ fakeThread[t].pc = "idle" /\ NoTransaction
  /\ \E op \in {"mkdir", "mknod", "link", "unlink", "rmdir", "rename"},
        p \in Reach[t], q \in Reach[t] :
       /\ op \notin {"link", "rename"} => q = p
       /\ Making(op) => HostFiles \ UsedFiles # {} /\ NextRow <= MaxRows   \* the bounds
       /\ LET c == [pc |-> "host", op |-> op, p |-> p, q |-> q, same |-> OneFile(op, p, q),
                    id |-> IF Making(op) THEN FreshFile ELSE 0]
          IN  /\ HostAccepts(c)
              /\ hostNames' = HostAfter(c)
              /\ fakeThread' = [fakeThread EXCEPT ![t] = c]
  /\ UNCHANGED <<fakePaths, fakeStats, fakeInodes, torn, stops>>

\* The rows are changed and committed.  unlink and rmdir go on to
\* inode_check_orphaned; a missing row is a die.
Dies(c) == c.op \in {"link", "unlink", "rmdir"} /\ c.p \notin DOMAIN fakePaths

CleanupAlways(stats, paths, ino) == Without(stats, {ino})

\* try_cleanup_inode: the row goes when no name has it.
TryCleanup(stats, paths, ino) ==
  IF ino \in DOMAIN stats /\ ino \notin Range(paths) THEN Without(stats, {ino}) ELSE stats

\* Host files that an open has created and given no row yet.
Rowless == UNION {Homes(c.id) : c \in {fakeThread[t] : t \in {u \in FakeThreads :
                                            fakeThread[u].pc = "opened" /\ fakeThread[u].new}}}

\* A link or a rename of what was half changed takes the damage along; one of
\* two links of one file to the other drops the row of a name that stays.
TornAfter(c) ==
  torn \cup (IF c.same THEN {c.p} ELSE {})
       \cup (IF c.op \in {"link", "rename"} /\ (Touched(c) \cup {c.p}) \cap (torn \cup Rowless) # {}
             THEN Touched(c) ELSE {})

Commit(t) ==
  LET c == fakeThread[t] IN
  /\ c.pc = "host" /\ ~Dies(c)
  /\ fakePaths' = PathsAfter(c) /\ fakeStats' = StatsAfter(c)
  /\ torn' = TornAfter(c)
  /\ fakeThread' = [fakeThread EXCEPT ![t] =
       IF c.op \in {"unlink", "rmdir"} THEN [pc |-> "check", ino |-> fakePaths[c.p]] ELSE Idle]
  /\ UNCHANGED <<hostNames, fakeInodes, stops>>

\* inode_check_orphaned, under inodes_lock: no inode_data, nobody has it open.
CheckOrphaned(t) ==
  /\ fakeThread[t].pc = "check" /\ NoTransaction
  /\ LET ino == fakeThread[t].ino IN
     fakeStats' = IF ino \in DOMAIN fakeInodes THEN fakeStats
                  ELSE TryCleanup(fakeStats, fakePaths, ino)
  /\ fakeThread' = [fakeThread EXCEPT ![t] = Idle]
  /\ UNCHANGED <<hostNames, fakePaths, fakeInodes, torn, stops>>

-----------------------------------------------------------------------------
\* fakefs_open: realfs.open, which may create the host file.
OpenHost(t) ==
  /\ fakeThread[t].pc = "idle"
  /\ \E p \in Reach[t], creat \in BOOLEAN :
       LET new == p \notin DOMAIN hostNames
           id  == IF new THEN FreshFile ELSE hostNames[p].id IN
       /\ new => creat /\ IsDir(Parent(p)) /\ HostFiles \ UsedFiles # {}
       /\ creat => ~IsDir(p)
       /\ hostNames' = IF new THEN With(hostNames, p, [id |-> id, kind |-> "file"]) ELSE hostNames
       /\ fakeThread' = [fakeThread EXCEPT ![t] =
            [pc |-> "opened", p |-> p, id |-> id, creat |-> creat, new |-> new]]
  /\ UNCHANGED <<fakePaths, fakeStats, fakeInodes, torn, stops>>

\* Its transaction: the inode number of the name, a new row for a new file.
OpenRow(t) ==
  LET c == fakeThread[t] IN
  /\ c.pc = "opened" /\ NoTransaction
  /\ IF c.p \in DOMAIN fakePaths
     THEN /\ fakeThread' = [fakeThread EXCEPT ![t] = [pc |-> "rowed", id |-> c.id, ino |-> fakePaths[c.p]]]
          /\ UNCHANGED <<fakePaths, fakeStats, torn>>
     ELSE IF ~c.creat
     THEN fakeThread' = [fakeThread EXCEPT ![t] = Idle] /\ UNCHANGED <<fakePaths, fakeStats, torn>>
     ELSE /\ NextRow <= MaxRows
          /\ fakePaths' = With(fakePaths, c.p, NextRow)
          /\ fakeStats' = With(fakeStats, NextRow, [of |-> c.id])
          /\ fakeThread' = [fakeThread EXCEPT ![t] = [pc |-> "rowed", id |-> c.id, ino |-> NextRow]]
          \* a rename took the new file away before it had a row
          /\ torn' = IF c.p \in DOMAIN hostNames /\ hostNames[c.p].id = c.id
                     THEN torn ELSE torn \cup {c.p} \cup Homes(c.id)
  /\ UNCHANGED <<hostNames, fakeInodes, stops>>

\* generic_openat: inodes_lock, fakefs_fstat, inode_get_unlocked.
FakeOpenInode(t) ==
  LET c == fakeThread[t] IN
  /\ c.pc = "rowed" /\ NoTransaction
  /\ IF c.ino \in DOMAIN fakeStats
     THEN /\ fakeInodes' = With(fakeInodes, c.ino, IF c.ino \in DOMAIN fakeInodes
                                                   THEN fakeInodes[c.ino] + 1 ELSE 1)
          /\ fakeThread' = [fakeThread EXCEPT ![t] = [pc |-> "fd", id |-> c.id, ino |-> c.ino]]
     ELSE fakeThread' = [fakeThread EXCEPT ![t] = Idle] /\ UNCHANGED fakeInodes
  /\ UNCHANGED <<hostNames, fakePaths, fakeStats, torn, stops>>

\* fd_close, inode_release: the last reference takes the inode_data away and
\* calls fakefs_inode_orphaned.
FakeReleased(ino) == IF fakeInodes[ino] = 1 THEN Without(fakeInodes, {ino})
                     ELSE [fakeInodes EXCEPT ![ino] = @ - 1]

FakeClose(t) ==
  LET ino == fakeThread[t].ino IN
  /\ fakeThread[t].pc = "fd" /\ NoTransaction
  /\ fakeInodes' = FakeReleased(ino)
  /\ fakeStats' = IF ino \in DOMAIN fakeInodes' THEN fakeStats
                  ELSE TryCleanup(fakeStats, fakePaths, ino)
  /\ fakeThread' = [fakeThread EXCEPT ![t] = Idle]
  /\ UNCHANGED <<hostNames, fakePaths, torn, stops>>

-----------------------------------------------------------------------------
\* The program stops: a die, or the system ends it.  The transaction is lost,
\* what the host did stays.  fake_db_init then deletes the rows without a name.
Pending == {c \in {fakeThread[t] : t \in FakeThreads} : c.pc = "host"}

Crash ==
  /\ stops < MaxStops
  /\ stops' = stops + 1
  /\ torn' = torn \cup (UNION {Touched(c) : c \in Pending})
                  \cup Rowless
  /\ fakeThread' = [t \in FakeThreads |-> Idle]
  /\ fakeInodes' = NoRows
  /\ fakeStats' = Restrict(fakeStats, Range(fakePaths))
  /\ UNCHANGED <<hostNames, fakePaths>>

FakeInit ==
  /\ hostNames = NoRows /\ fakePaths = NoRows /\ fakeStats = NoRows
  /\ fakeThread = [t \in FakeThreads |-> Idle]
  /\ fakeInodes = NoRows /\ torn = {} /\ stops = 0

FakeNext ==
  \/ \E t \in FakeThreads : \/ Change(t) \/ Commit(t) \/ CheckOrphaned(t)
                            \/ OpenHost(t) \/ OpenRow(t) \/ FakeOpenInode(t) \/ FakeClose(t)
  \/ Crash

FakeSpec == FakeInit /\ [][FakeNext]_fakeVars

-----------------------------------------------------------------------------
\* A name is on both sides, with the row that was made for its file, or on none.
Agrees(p) ==
  /\ p \in DOMAIN hostNames <=> p \in DOMAIN fakePaths
  /\ p \in DOMAIN hostNames => /\ fakePaths[p] \in DOMAIN fakeStats
                               /\ fakeStats[fakePaths[p]].of = hostNames[p].id

\* A transaction is on its way to the name, or the file it creates has no row yet.
Underway(p) == \/ \E c \in Pending : p \in Touched(c)
               \/ p \in Rowless

Agreement == \A p \in FakePaths \ torn : Agrees(p) \/ Underway(p)

\* An open file keeps its row: fchmod on it finds it (inode_read_stat_or_die).
OpenHasRow == \A t \in FakeThreads : fakeThread[t].pc = "fd" =>
                /\ fakeThread[t].ino \in DOMAIN fakeStats
                /\ fakeThread[t].ino \in DOMAIN fakeInodes

\* FakeSafe: host and database agree on every name that no crash, no race of an
\* open and no rename between two links of one file has torn, and the metadata
\* of an open file stays until it is closed, unlinked or not (fakefs_unlink,
\* fakefs_inode_orphaned, inode_release).
FakeSafe == FakeTypeOK /\ Agreement /\ OpenHasRow

\* OpenKeepsInode: "generic_open must lock out anything trying to destroy an
\* inode between opening the file and acquiring a reference to its inode"
\* (fs/inode.h).
OpenKeepsInode == \A t \in FakeThreads :
  fakeThread[t].pc = "rowed" => fakeThread[t].ino \in DOMAIN fakeStats
=============================================================================
