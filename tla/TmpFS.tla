------------------------------- MODULE TmpFS -------------------------------
(***************************************************************************)
(* fs/tmp.c under the calls of kernel/fs.c and fs/dir.c: a tree of entries *)
(* that only grows, files that are arrays of bytes, and descriptors that   *)
(* threads share.  read and write move the offset of the descriptor under  *)
(* the lock of the inode; lseek, and pread and pwrite, which tmpfs does    *)
(* not have and which are made of lseek, read and lseek, hold the lock of  *)
(* the descriptor; getdents goes from entry to entry and holds no lock     *)
(* between them.  A load and a store of an offset or a position are steps  *)
(* of their own where another lock lets somebody in between.               *)
(*                                                                         *)
(* The reference keeps what POSIX says the bytes, offsets and listings are *)
(* of calls one of which ends before the next begins, or that wait for     *)
(* each other's lock.  Two calls at work on one descriptor under different *)
(* locks are mixed: when they have all ended it starts anew.               *)
(***************************************************************************)
EXTENDS Integers, Sequences, SequencesExt, Functions

CONSTANTS TmpNames,    \* file names
          TmpFds,      \* descriptors
          TmpThreads,  \* threads, which share them
          TmpBytes,    \* bytes a guest writes
          TmpAsks,     \* thread -> the calls it makes on descriptors
          MaxSize,     \* length of a file (bound)
          MaxEntries   \* entries of the tree (bound)

\* A read or write (of no bytes: a read of n), a seek, a pread or pwrite, a listing
\* with room for that many entries.
ASSUME TmpAsksAssumption == \A t \in TmpThreads : \A ask \in TmpAsks[t] :
  \/ ask \in [call : {"readwrite"}, bytes : Seq(TmpBytes), n : Nat]
  \/ ask \in [call : {"lseek"}, off : Int, whence : {"set", "cur", "end"}]
  \/ ask \in [call : {"preadwrite"}, off : Int, bytes : Seq(TmpBytes)]
  \/ ask \in [call : {"getdents"}, room : Nat]

VARIABLES
  tmpTree,    \* the entries in the order of their creation: [name, parent, kind]
  tmpData,    \* entry -> the bytes of its inode
  tmpFd,      \* fd -> [entry, offset, pos], or Closed; pos is dir_pos, 0 for NULL
  tmpThread,  \* thread -> the call it is in the middle of, or TmpIdle
  refData,    \* reference: entry -> bytes
  refOffset,  \* reference: fd -> offset
  listed,     \* fd -> the entries getdents has returned (history)
  again,      \* fd -> it has returned one that is not after those (history)
  mixed       \* fd -> calls under different locks are at work on it (history)

callVars == <<tmpThread, mixed, refOffset>>
listVars == <<listed, again>>
tmpVars == <<tmpTree, tmpData, tmpFd, refData, callVars, listVars>>

Closed == [entry |-> 0]
TmpIdle == [pc |-> "idle"]
Root == 1

\* tmp_dirent's children, in order; the index of an entry is its number.
Children(dir) == {e \in DOMAIN tmpTree : tmpTree[e].parent = dir}
IsDirectory(e) == tmpTree[e].kind = "dir"
Smallest(S) == IF S = {} THEN 0 ELSE CHOOSE x \in S : \A y \in S : x <= y

\* tmpfs_dir_lookup: an entry, or an error as a negative number.
ENOENT == -1
ENOTDIR == -2
TmpLookup(dir, name) ==
  IF ~IsDirectory(dir) THEN ENOTDIR
  ELSE LET found == {e \in Children(dir) : tmpTree[e].name = name}
       IN  IF found = {} THEN ENOENT ELSE Smallest(found)

\* __tmpfs_lookup: the components one after the other.
LookupPath(path) ==
  LET at[n \in 0 .. Len(path)] ==
        IF n = 0 THEN Root
        ELSE IF at[n - 1] < 0 THEN at[n - 1] ELSE TmpLookup(at[n - 1], path[n])
  IN  at[Len(path)]

\* With parent set: the directory, and the last name; the root of the mount is
\* the empty path, whose last name is the empty string.
ParentOf(path) == IF path = <<>> THEN Root ELSE LookupPath(Front(path))
FileName(path) == IF path = <<>> THEN "" ELSE Last(path)

\* tmp_inode_new and tmpfs_dir_link.
Link(name, dir, kind) ==
  /\ tmpTree' = Append(tmpTree, [name |-> name, parent |-> dir, kind |-> kind])
  /\ tmpData' = Append(tmpData, <<>>) /\ refData' = Append(refData, <<>>)

Mkdir(path) ==
  /\ Len(tmpTree) < MaxEntries
  /\ ParentOf(path) > 0 /\ TmpLookup(ParentOf(path), FileName(path)) = ENOENT
  /\ Link(FileName(path), ParentOf(path), "dir")
  /\ UNCHANGED <<tmpFd, callVars, listVars>>

\* tmpfs_open and the checks of generic_openat: a directory is not opened for
\* writing, O_DIRECTORY asks for one.  dir_pos is the first child there is.
TmpOpen(f, path, creat, excl, writing, directory) ==
  LET parent == ParentOf(path)
      old    == IF creat THEN (IF parent < 0 THEN parent ELSE TmpLookup(parent, FileName(path)))
                ELSE LookupPath(path)
      new    == creat /\ old = ENOENT /\ parent > 0
      entry  == IF new THEN Len(tmpTree) + 1 ELSE old
      kind   == IF new THEN "file" ELSE tmpTree[old].kind
      opens  == /\ ~(kind = "dir" /\ writing)
                /\ ~(kind # "dir" /\ directory)
  IN /\ tmpFd[f] = Closed
     /\ entry > 0
     /\ excl => creat
     /\ ~(excl /\ ~new)
     /\ IF new THEN Len(tmpTree) < MaxEntries /\ Link(FileName(path), parent, "file")
        ELSE opens /\ UNCHANGED <<tmpTree, tmpData, refData>>
     /\ tmpFd' = IF opens THEN [tmpFd EXCEPT ![f] = [entry |-> entry, offset |-> 0,
                                                     pos |-> Smallest(Children(entry))]]
                 ELSE tmpFd
     /\ refOffset' = [refOffset EXCEPT ![f] = 0]
     /\ listed' = [listed EXCEPT ![f] = {}] /\ again' = [again EXCEPT ![f] = FALSE]
     /\ UNCHANGED <<tmpThread, mixed>>

-----------------------------------------------------------------------------
\* The calls at work on a descriptor, and what they have locked.
AtWork(f) == {t \in TmpThreads : tmpThread[t].pc # "idle" /\ tmpThread[t].f = f}
FdLocked(f) == \E t \in AtWork(f) : tmpThread[t].call \in {"lseek", "preadwrite"}
InodeLocked(e) == \E t \in TmpThreads :
  tmpThread[t].pc \in {"sized", "copied", "moving"} /\ tmpFd[tmpThread[t].f].entry = e

\* A call goes to its next step, its first one included, and the reference moves
\* the offset, which it does not know while calls are mixed.
Goes(t, c, ref) ==
  LET overlaps == mixed[c.f] \/ AtWork(c.f) \ {t} # {} IN
  /\ tmpThread' = [tmpThread EXCEPT ![t] = c]
  /\ mixed' = [mixed EXCEPT ![c.f] = overlaps]
  /\ refOffset' = [refOffset EXCEPT ![c.f] = IF overlaps THEN 0 ELSE ref]
GoesOn(t, c) == Goes(t, c, refOffset[c.f])

\* A call ends.  After the last of mixed calls the reference takes over what is
\* there.
Before(dir, pos) == {e \in Children(dir) : pos = 0 \/ e < pos}
Leaves(t, f) ==
  LET anew == mixed[f] /\ AtWork(f) = {t} IN
  /\ tmpThread' = [tmpThread EXCEPT ![t] = TmpIdle]
  /\ mixed' = [mixed EXCEPT ![f] = @ /\ ~anew]
  /\ refOffset' = IF anew THEN [refOffset EXCEPT ![f] = tmpFd'[f].offset] ELSE refOffset
  /\ listed' = IF anew THEN [listed EXCEPT ![f] = Before(tmpFd[f].entry, tmpFd'[f].pos)] ELSE listed
  /\ again' = [again EXCEPT ![f] = @ /\ ~anew]

\* (A close in the middle of a call, which f_get does not prevent, is FdTable's.)
TmpClose(f) ==
  /\ tmpFd[f] # Closed /\ AtWork(f) = {}
  /\ tmpFd' = [tmpFd EXCEPT ![f] = Closed]
  /\ UNCHANGED <<tmpTree, tmpData, refData, callVars, listVars>>

-----------------------------------------------------------------------------
\* tmpfs_write's effect on the bytes: tmpfs_file_resize fills the gap with zeros.
Zeros(n) == [i \in 1..n |-> 0]
ResizedAfresh(data, size) == IF size <= Len(data) THEN data ELSE Zeros(size)
Resized(data, size) == IF size <= Len(data) THEN data ELSE data \o Zeros(size - Len(data))
Copied(data, offset, bytes) ==
  [i \in DOMAIN data |-> IF i - offset \in DOMAIN bytes THEN bytes[i - offset] ELSE data[i]]

\* tmpfs_read: what is there, up to the size asked for.
ReadSize(data, offset, size) ==
  IF size > Len(data) - offset THEN (IF offset >= Len(data) THEN 0 ELSE Len(data) - offset) ELSE size

\* The reference for the same.
ByteAt(data, i) == IF i \in DOMAIN data THEN data[i] ELSE 0
RefWritten(data, offset, bytes) ==
  IF bytes = <<>> THEN data
  ELSE LET end == IF Len(data) > offset + Len(bytes) THEN Len(data) ELSE offset + Len(bytes)
       IN  [i \in 1..end |-> IF i > offset /\ i <= offset + Len(bytes)
                             THEN bytes[i - offset] ELSE ByteAt(data, i)]

IsFile(f) == tmpFd[f] # Closed /\ ~IsDirectory(tmpFd[f].entry)

\* A call on a file: to read if there are no bytes to write.  n is how many it
\* asks for and then how many it moves, val an offset that is to be stored.
FileCall(call, f, off, bytes, n, val) ==
  [pc |-> "seek", call |-> call, f |-> f, off |-> off, bytes |-> bytes, n |-> n,
   val |-> val, saved |-> 0]

\* tmpfs_read and tmpfs_write lock the inode, look at the offset and find how much
\* there is, or make the file as long as it will be.  (At a negative offset they
\* would leave the buffer: that is left out.)
Transfer(t, c, ref) ==
  LET entry == tmpFd[c.f].entry
      offset == tmpFd[c.f].offset IN
  /\ ~InodeLocked(entry) /\ offset >= 0
  /\ \/ /\ c.bytes = <<>>
        /\ Goes(t, [c EXCEPT !.pc = "copied", !.n = ReadSize(tmpData[entry], offset, c.n)], ref)
        /\ UNCHANGED tmpData
     \/ /\ c.bytes # <<>> /\ offset + Len(c.bytes) <= MaxSize
        /\ Goes(t, [c EXCEPT !.pc = "sized", !.n = Len(c.bytes)], ref)
        /\ tmpData' = [tmpData EXCEPT ![entry] = Resized(@, offset + Len(c.bytes))]

\* sys_read and sys_write, sys_readv and sys_writev: no lock of the descriptor.
ReadWrite(t, f, bytes, n) ==
  LET ref == refOffset[f]
      end == Len(refData[tmpFd[f].entry]) IN
  /\ tmpThread[t] = TmpIdle /\ IsFile(f)
  /\ Transfer(t, FileCall("readwrite", f, 0, bytes, n, 0),
              IF bytes # <<>> THEN ref
              ELSE IF ref + n <= end THEN ref + n ELSE IF ref > end THEN ref ELSE end)
  /\ UNCHANGED <<tmpTree, tmpFd, refData, listVars>>

\* The bytes go to where the offset is now.  (If a seek has moved it since, and
\* past the end, they go past the buffer: that is left out.)
Copy(t) ==
  LET c == tmpThread[t]
      entry == tmpFd[c.f].entry
      offset == tmpFd[c.f].offset IN
  /\ c.pc = "sized" /\ 0 <= offset /\ offset + Len(c.bytes) <= Len(tmpData[entry])
  /\ tmpData' = [tmpData EXCEPT ![entry] = Copied(@, offset, c.bytes)]
  /\ refData' = [refData EXCEPT ![entry] =
       IF mixed[c.f] THEN tmpData'[entry]
       ELSE RefWritten(@, IF c.call = "readwrite" THEN refOffset[c.f] ELSE c.off, c.bytes)]
  /\ Goes(t, [c EXCEPT !.pc = "copied"],
          IF c.call = "readwrite" THEN refOffset[c.f] + Len(c.bytes) ELSE refOffset[c.f])
  /\ UNCHANGED <<tmpTree, tmpFd, listVars>>

\* fd->offset += bufsize: a load, then a store and the release of the inode.
MoveLoad(t) ==
  LET c == tmpThread[t] IN
  /\ c.pc = "copied"
  /\ GoesOn(t, [c EXCEPT !.pc = "moving", !.n = 0, !.val = tmpFd[c.f].offset + c.n])
  /\ UNCHANGED <<tmpTree, tmpData, tmpFd, refData, listVars>>

MoveStore(t) ==
  LET c == tmpThread[t] IN
  /\ c.pc = "moving"
  /\ tmpFd' = [tmpFd EXCEPT ![c.f].offset = c.val]
  /\ IF c.call = "readwrite" THEN Leaves(t, c.f)
     ELSE GoesOn(t, [c EXCEPT !.pc = "done", !.val = 0]) /\ UNCHANGED listVars
  /\ UNCHANGED <<tmpTree, tmpData, refData>>

\* sys__llseek and sys_lseek lock the descriptor; tmpfs_lseek takes the length
\* under the lock of the inode; generic_seek loads the offset and refuses one that
\* comes out negative, but not a start.  POSIX refuses that too: the reference
\* follows the code there.
LSeek(t, f, off, whence) ==
  LET entry == tmpFd[f].entry
      Sum(offset, data) == off + CASE whence = "set" -> 0 [] whence = "cur" -> offset
                                   [] whence = "end" -> Len(data[entry])
      new == Sum(tmpFd[f].offset, tmpData) IN
  /\ tmpThread[t] = TmpIdle /\ IsFile(f) /\ ~FdLocked(f) /\ new <= MaxSize
  /\ whence = "end" => ~InodeLocked(entry)
  /\ whence # "set" => new >= 0
  /\ LET ref == Sum(refOffset[f], refData) IN
     Goes(t, FileCall("lseek", f, 0, <<>>, 0, new),
          IF whence # "set" /\ ref < 0 THEN refOffset[f] ELSE ref)
  /\ UNCHANGED <<tmpTree, tmpData, tmpFd, refData, listVars>>

\* sys_pread and sys_pwrite: fd->lock, and the offset loaded to be saved by an
\* lseek that moves it by 0.  (At a negative offset that fails, and so does the
\* assertion at the end of the call.)  A start below 0 is set too, and the call
\* then returns without restoring the old one.
PStart(t, f, off, bytes) ==
  /\ tmpThread[t] = TmpIdle /\ IsFile(f) /\ ~FdLocked(f)
  /\ tmpFd[f].offset >= 0 /\ off + Len(bytes) <= MaxSize
  /\ Goes(t, FileCall("preadwrite", f, off, bytes, 1, tmpFd[f].offset),
          IF off < 0 THEN off ELSE refOffset[f])
  /\ UNCHANGED <<tmpTree, tmpData, tmpFd, refData, listVars>>

\* generic_seek stores; lseek releases the lock.
SeekStore(t) ==
  LET c == tmpThread[t] IN
  /\ c.pc = "seek"
  /\ tmpFd' = [tmpFd EXCEPT ![c.f].offset = c.val]
  /\ IF c.call = "lseek" THEN Leaves(t, c.f)
     ELSE GoesOn(t, [c EXCEPT !.pc = "sought", !.val = 0]) /\ UNCHANGED listVars
  /\ UNCHANGED <<tmpTree, tmpData, refData>>

\* tmpfs_lseek returns the offset it finds then: saved_off.
PSave(t) ==
  LET c == tmpThread[t] IN
  /\ c.pc = "sought" /\ tmpFd[c.f].offset <= MaxSize   \* the bound
  /\ GoesOn(t, [c EXCEPT !.pc = "saved", !.saved = tmpFd[c.f].offset])
  /\ UNCHANGED <<tmpTree, tmpData, tmpFd, refData, listVars>>

PMove(t) ==
  LET c == tmpThread[t] IN
  /\ c.pc = "saved"
  /\ tmpFd' = [tmpFd EXCEPT ![c.f].offset = c.off]
  /\ IF c.off < 0 THEN Leaves(t, c.f)
     ELSE GoesOn(t, [c EXCEPT !.pc = "moved"]) /\ UNCHANGED listVars
  /\ UNCHANGED <<tmpTree, tmpData, refData>>

PTransfer(t) ==
  /\ tmpThread[t].pc = "moved"
  /\ Transfer(t, tmpThread[t], refOffset[tmpThread[t].f])
  /\ UNCHANGED <<tmpTree, tmpFd, refData, listVars>>

\* The offset restored, the lock released; the assertion that it is not negative.
NotRestored(t) == tmpFd[tmpThread[t].f].offset
Restored(t) == tmpThread[t].saved
PFinish(t) ==
  LET f == tmpThread[t].f IN
  /\ tmpThread[t].pc = "done" /\ tmpThread[t].saved >= 0
  /\ tmpFd' = [tmpFd EXCEPT ![f].offset = Restored(t)]
  /\ Leaves(t, f)
  /\ UNCHANGED <<tmpTree, tmpData, refData>>

-----------------------------------------------------------------------------
\* sys_getdents_common with room for that many entries: telldir, which takes no
\* lock, before each readdir, and at the end seekdir back to the entry that was
\* not taken, or to the end.
GetDents(t, f, room) ==
  /\ tmpThread[t] = TmpIdle /\ tmpFd[f] # Closed /\ IsDirectory(tmpFd[f].entry)
  /\ GoesOn(t, [pc |-> "readdir", call |-> "getdents", f |-> f, room |-> room, ptr |-> tmpFd[f].pos])
  /\ UNCHANGED <<tmpTree, tmpData, tmpFd, refData, listVars>>

TellDir(t) ==
  LET c == tmpThread[t] IN
  /\ c.pc = "telldir"
  /\ GoesOn(t, [c EXCEPT !.pc = "readdir", !.ptr = tmpFd[c.f].pos])
  /\ UNCHANGED <<tmpTree, tmpData, tmpFd, refData, listVars>>

\* tmpfs_readdir under the locks of the descriptor and of the directory; then the
\* entry goes to the guest, unless there was none or there is no room for it.
ReadDir(t) ==
  LET c == tmpThread[t]
      pos == tmpFd[c.f].pos
      taken == pos # 0 /\ c.room > 0 IN
  /\ c.pc = "readdir" /\ ~FdLocked(c.f)
  /\ tmpFd' = IF pos = 0 THEN tmpFd
              ELSE [tmpFd EXCEPT ![c.f].pos = Smallest({e \in Children(tmpFd[c.f].entry) : e > pos})]
  /\ listed' = IF taken THEN [listed EXCEPT ![c.f] = @ \cup {pos}] ELSE listed
  /\ again' = IF taken THEN [again EXCEPT ![c.f] = @ \/ \E e \in listed[c.f] : e >= pos] ELSE again
  /\ GoesOn(t, IF taken THEN [c EXCEPT !.pc = "telldir", !.room = @ - 1]
               ELSE [c EXCEPT !.pc = "seekdir"])
  /\ UNCHANGED <<tmpTree, tmpData, refData>>

\* tmpfs_seekdir looks for the first index that is not smaller.
SeekDirPast(dir, ptr) == IF ptr = 0 THEN 0 ELSE Smallest({c \in Children(dir) : c > ptr})
SeekDir(dir, ptr) == IF ptr = 0 THEN 0 ELSE Smallest({c \in Children(dir) : c >= ptr})

\* fd_seekdir.  (fd->offset is stored too, which tmpfs never reads of a directory;
\* a buffer that faults ends the call before this: that is left out.)
SeekBack(t) ==
  LET c == tmpThread[t] IN
  /\ c.pc = "seekdir"
  /\ tmpFd' = [tmpFd EXCEPT ![c.f].pos = SeekDir(tmpFd[c.f].entry, c.ptr)]
  /\ Leaves(t, c.f)
  /\ UNCHANGED <<tmpTree, tmpData, refData>>

-----------------------------------------------------------------------------
TmpPaths == {<<>>} \cup {<<n>> : n \in TmpNames} \cup {<<m, n>> : m \in TmpNames, n \in TmpNames}

\* tmpfs_mount: the root.
TmpInit ==
  /\ tmpTree = <<[name |-> "", parent |-> 0, kind |-> "dir"]>>
  /\ tmpData = <<<<>>>> /\ refData = <<<<>>>>
  /\ tmpFd = [f \in TmpFds |-> Closed] /\ tmpThread = [t \in TmpThreads |-> TmpIdle]
  /\ refOffset = [f \in TmpFds |-> 0] /\ listed = [f \in TmpFds |-> {}]
  /\ again = [f \in TmpFds |-> FALSE] /\ mixed = [f \in TmpFds |-> FALSE]

TmpNext ==
  \/ \E path \in TmpPaths : Mkdir(path)
  \/ \E f \in TmpFds :
       \/ \E path \in TmpPaths, c, x, w, d \in BOOLEAN : TmpOpen(f, path, c, x, w, d)
       \/ TmpClose(f)
  \/ \E t \in TmpThreads, f \in TmpFds : \E ask \in TmpAsks[t] :
       \/ ask.call = "readwrite" /\ ReadWrite(t, f, ask.bytes, ask.n)
       \/ ask.call = "lseek" /\ LSeek(t, f, ask.off, ask.whence)
       \/ ask.call = "preadwrite" /\ PStart(t, f, ask.off, ask.bytes)
       \/ ask.call = "getdents" /\ GetDents(t, f, ask.room)
  \/ \E t \in TmpThreads :
       \/ Copy(t) \/ MoveLoad(t) \/ MoveStore(t) \/ SeekStore(t)
       \/ PSave(t) \/ PMove(t) \/ PTransfer(t) \/ PFinish(t)
       \/ TellDir(t) \/ ReadDir(t) \/ SeekBack(t)

TmpSpec == TmpInit /\ [][TmpNext]_tmpVars

-----------------------------------------------------------------------------
\* One entry for a name.
NamesUnique == \A d, e \in DOMAIN tmpTree :
  tmpTree[d].parent = tmpTree[e].parent /\ tmpTree[d].name = tmpTree[e].name => d = e

\* The bytes of a file that nobody is writing, and the offset of a descriptor
\* between calls.
BytesKept == \A e \in DOMAIN tmpTree :
  (\E t \in TmpThreads : tmpThread[t].pc = "sized" /\ tmpFd[tmpThread[t].f].entry = e)
    \/ tmpData[e] = refData[e]
OffsetKept == \A f \in TmpFds :
  tmpFd[f] # Closed /\ AtWork(f) = {} => tmpFd[f].offset = refOffset[f]

\* getdents returns an entry at most once and in order, unless two of them list
\* one descriptor, and between calls it has missed none before its position.
ListedOnce == \A f \in TmpFds : tmpFd[f] # Closed /\ IsDirectory(tmpFd[f].entry) =>
  /\ ~mixed[f] => ~again[f]
  /\ AtWork(f) = {} => \A e \in Children(tmpFd[f].entry) :
       tmpFd[f].pos # 0 /\ e < tmpFd[f].pos => e \in listed[f]

\* TmpSafe: the tree, the bytes, the offsets and the directory positions of
\* tmpfs are what a file system promises for calls on one descriptor that do not
\* overlap under different locks, and again after those that did (tmpfs_write,
\* tmpfs_read, sys_pread, sys_pwrite, generic_seek, sys_getdents_common).
TmpSafe == NamesUnique /\ BytesKept /\ OffsetKept /\ ListedOnce
=============================================================================
