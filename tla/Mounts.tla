------------------------------- MODULE Mounts -------------------------------
(***************************************************************************)
(* fs/mount.c, fs/inode.c and fs/generic.c: the list of mounts, and who    *)
(* holds one.  A call finds the mount of its path and holds it until the   *)
(* file system has answered; an open file holds it through its descriptor  *)
(* and once more through the inode_data that all descriptors of the file   *)
(* share.  A mount nobody holds may be removed and freed.                  *)
(***************************************************************************)
EXTENDS Naturals, Sequences, SequencesExt, FiniteSets, Functions

CONSTANTS Points,        \* mount points and paths, sequences of names
          MountIds,      \* struct mounts there can be (bound)
          MountThreads,
          MountFds,      \* descriptors that can be open (bound)
          Inodes         \* inode numbers

\* Paths are sequences of names; the struct fd 0 is the one fs->root names.
ASSUME MountAssumption ==
  /\ Points \subseteq Seq(STRING) /\ IsFiniteSet(MountThreads)
  /\ 1 \in MountIds /\ 0 \notin MountFds

VARIABLES
  mountList,    \* mounts: [id, point], in list order
  mountRefs,    \* id -> refcount
  inodeRefs,    \* inodes_hash: <<id, ino>> -> refcount
  mountFd,      \* struct fd -> [mount, ino, slot: whether the table (or fs->root) names it]
  mountPwd,     \* fs->pwd, the struct fd
  mountCall     \* thread -> the call it is in

mountVars == <<mountList, mountRefs, inodeRefs, mountFd, mountPwd, mountCall>>

NoMountCall == [pc |-> "none"]
Mounted == {mountList[i].id : i \in DOMAIN mountList}

\* mount_find: the first that is the path or above it.
Find(path) ==
  mountList[CHOOSE i \in DOMAIN mountList :
              /\ IsPrefix(mountList[i].point, path)
              /\ \A j \in 1..(i - 1) : ~IsPrefix(mountList[j].point, path)].id

\* contains_mount_point, without mounts_lock.
ContainsMountPoint(path) == \E i \in DOMAIN mountList : IsPrefix(path, mountList[i].point)

Retain(refs, m) == [refs EXCEPT ![m] = @ + 1]
Release(refs, m) == [refs EXCEPT ![m] = @ - 1]

-----------------------------------------------------------------------------
\* find_mount_and_trim_path: the call holds the mount while the file system
\* works.
Hold(t, op, path) ==
  /\ mountCall[t] = NoMountCall
  /\ LET m == Find(path) IN
     /\ mountRefs' = Retain(mountRefs, m)
     /\ mountCall' = [mountCall EXCEPT ![t] = [pc |-> op, held |-> <<m>>]]
  /\ UNCHANGED <<mountList, inodeRefs, mountFd, mountPwd>>

\* generic_accessat and generic_statat; generic_unlinkat; generic_symlinkat,
\* mknodat, setattrat, utime, readlinkat and mkdirat: one mount each.
Accessat(t, path) == Hold(t, "one", path)
Unlinkat(t, path) == Hold(t, "one", path)
Changeat(t, path) == Hold(t, "one", path)
Rmdirat(t, path) == ~ContainsMountPoint(path) /\ Hold(t, "one", path)
Linkat(t, path) == Hold(t, "two", path)
Renameat(t, path) == ~ContainsMountPoint(path) /\ Hold(t, "two", path)
Openat(t, path) == Hold(t, "open", path)

\* The system calls that take names: they copy the path in and call these.
NameCalls(t, path) == Unlinkat(t, path) \/ Changeat(t, path) \/ Linkat(t, path) \/ Renameat(t, path)
AttrCalls(t, path) == Changeat(t, path)
DirCalls(t, path) == Changeat(t, path) \/ Rmdirat(t, path)

SecondPath(t, path) ==
  /\ mountCall[t].pc = "two" /\ Len(mountCall[t].held) = 1
  /\ LET m == Find(path) IN
     /\ mountRefs' = Retain(mountRefs, m)
     /\ mountCall' = [mountCall EXCEPT ![t].held = Append(@, m)]
  /\ UNCHANGED <<mountList, inodeRefs, mountFd, mountPwd>>

\* The file system has answered, or the mounts differ (EXDEV): one release each.
Answered(t) ==
  /\ \/ mountCall[t].pc \in {"one", "open", "release"}
     \/ mountCall[t].pc = "two" /\ Len(mountCall[t].held) = 2
  /\ LET m == Head(mountCall[t].held)
         rest == Tail(mountCall[t].held) IN
     /\ mountRefs' = Release(mountRefs, m)
     /\ mountCall' = [mountCall EXCEPT ![t] = IF rest = <<>> THEN NoMountCall
                                              ELSE [pc |-> "release", held |-> rest]]
  /\ UNCHANGED <<mountList, inodeRefs, mountFd, mountPwd>>

\* An inode_data that holds nothing.
InodeGetBare(key) ==
  IF key \in DOMAIN inodeRefs
  THEN [inodes |-> [inodeRefs EXCEPT ![key] = @ + 1], refs |-> mountRefs]
  ELSE [inodes |-> [k \in DOMAIN inodeRefs \cup {key} |-> IF k = key THEN 1 ELSE inodeRefs[k]],
        refs |-> mountRefs]

\* inode_get_unlocked: a new inode_data holds its mount.
InodeGet(key) ==
  IF key \in DOMAIN inodeRefs
  THEN [inodes |-> [inodeRefs EXCEPT ![key] = @ + 1], refs |-> mountRefs]
  ELSE [inodes |-> [k \in DOMAIN inodeRefs \cup {key} |-> IF k = key THEN 1 ELSE inodeRefs[k]],
        refs |-> Retain(mountRefs, key[1])]

\* generic_openat after fs->open: fstat and the inode, under inodes_lock.  The
\* descriptor takes the hold of the call over.  What is refused after that (the
\* permission, a directory opened for writing, a socket) is closed again.
OpenInode(t, f, ino) ==
  /\ mountCall[t].pc = "open" /\ f \notin DOMAIN mountFd
  /\ LET m == Head(mountCall[t].held)
         got == InodeGet(<<m, ino>>) IN
     /\ inodeRefs' = got.inodes /\ mountRefs' = got.refs
     /\ mountFd' = [g \in DOMAIN mountFd \cup {f} |->
                      IF g = f THEN [mount |-> m, ino |-> ino, slot |-> TRUE] ELSE mountFd[g]]
  /\ mountCall' = [mountCall EXCEPT ![t] = NoMountCall]
  /\ UNCHANGED <<mountList, mountPwd>>

\* fd_close on the last reference: inode_release under inodes_lock; after the
\* unlock the inode_data lets go of its mount, then the descriptor does.
LastInodeClose(t, f, fds) ==
  /\ LET m == fds[f].mount
         key == <<m, fds[f].ino>> IN
     IF inodeRefs[key] = 1
     THEN /\ inodeRefs' = Restrict(inodeRefs, DOMAIN inodeRefs \ {key})
          /\ mountCall' = [mountCall EXCEPT ![t] = [pc |-> "release", held |-> <<m, m>>]]
     ELSE /\ inodeRefs' = [inodeRefs EXCEPT ![key] = @ - 1]
          /\ mountCall' = [mountCall EXCEPT ![t] = [pc |-> "release", held |-> <<m>>]]
  /\ mountFd' = Restrict(fds, DOMAIN fds \ {f})

CloseFd(t, f) ==
  /\ mountCall[t] = NoMountCall /\ f \in DOMAIN mountFd /\ mountFd[f].slot
  /\ IF f = mountPwd
     THEN mountFd' = [mountFd EXCEPT ![f].slot = FALSE] /\ UNCHANGED <<inodeRefs, mountCall>>
     ELSE LastInodeClose(t, f, mountFd)
  /\ UNCHANGED <<mountList, mountRefs, mountPwd>>

\* fs_chdir closes the old directory.  sys_fchdir shares the descriptor with the
\* table; sys_chdir opens one of its own, as here with slot FALSE.
Chdir(t, f, shared) ==
  /\ mountCall[t] = NoMountCall /\ f \in DOMAIN mountFd /\ mountFd[f].slot /\ f # mountPwd
  /\ LET fds == [mountFd EXCEPT ![f].slot = shared] IN
     IF fds[mountPwd].slot
     THEN mountFd' = fds /\ UNCHANGED <<inodeRefs, mountCall>>
     ELSE LastInodeClose(t, mountPwd, fds)
  /\ mountPwd' = f
  /\ UNCHANGED <<mountList, mountRefs>>

-----------------------------------------------------------------------------
\* sys_mount, after it has looked the point up, and do_mount: descending order of length, newest first.
Longer(point) == {i \in DOMAIN mountList : \A j \in 1..i : Len(mountList[j].point) > Len(point)}
DoMount(m, point) ==
  /\ m \notin Mounted
  /\ mountList' = InsertAt(mountList, Cardinality(Longer(point)) + 1, [id |-> m, point |-> point])
  /\ mountRefs' = [n \in DOMAIN mountRefs \cup {m} |-> IF n = m THEN 0 ELSE mountRefs[n]]
  /\ UNCHANGED <<inodeRefs, mountFd, mountPwd, mountCall>>

\* sys_umount2, do_umount and mount_remove: the first at the point; not if held.
MayRemoveAny(m) == \A t \in MountThreads : mountCall[t] = NoMountCall
MayRemove(m) == mountRefs[m] = 0
DoUmount(point) ==
  \E i \in DOMAIN mountList :
    /\ mountList[i].point = point
    /\ \A j \in 1..(i - 1) : mountList[j].point # point
    /\ MayRemove(mountList[i].id)
    /\ mountList' = RemoveAt(mountList, i)
    /\ mountRefs' = Restrict(mountRefs, DOMAIN mountRefs \ {mountList[i].id})
    /\ UNCHANGED <<inodeRefs, mountFd, mountPwd, mountCall>>

\* The root file system, and the root directory of init, which fs->root keeps.
MountsInit ==
  /\ mountList = <<[id |-> 1, point |-> <<>>]>>
  /\ mountRefs = [m \in {1} |-> 2]
  /\ mountFd = [f \in {0} |-> [mount |-> 1, ino |-> 0, slot |-> TRUE]]
  /\ mountPwd = 0
  /\ inodeRefs = [k \in {<<1, 0>>} |-> 1]
  /\ mountCall = [t \in MountThreads |-> NoMountCall]

MountsNext ==
  \/ \E t \in MountThreads :
       \/ \E path \in Points :
            Accessat(t, path) \/ NameCalls(t, path) \/ AttrCalls(t, path) \/ DirCalls(t, path)
            \/ Openat(t, path) \/ SecondPath(t, path)
       \/ Answered(t)
       \/ \E f \in MountFds, ino \in Inodes : OpenInode(t, f, ino)
       \/ \E f \in MountFds : CloseFd(t, f) \/ \E shared \in BOOLEAN : Chdir(t, f, shared)
  \/ \E m \in MountIds, point \in Points : DoMount(m, point)
  \/ \E point \in Points : DoUmount(point)

MountsSpec == MountsInit /\ [][MountsNext]_mountVars

-----------------------------------------------------------------------------
Holds(m) ==
    Cardinality({f \in DOMAIN mountFd : mountFd[f].mount = m})
  + Cardinality({k \in DOMAIN inodeRefs : k[1] = m})
  + Cardinality({h \in MountThreads \X (1..2) :
                   /\ mountCall[h[1]] # NoMountCall /\ h[2] \in DOMAIN mountCall[h[1]].held
                   /\ mountCall[h[1]].held[h[2]] = m})

\* MountsSafe: a mount's count is the number of its holders, nobody holds one
\* that was freed, an inode_data lives exactly as long as a descriptor of its
\* file, and a path goes to the longest point above it (mount_find, mount_remove,
\* inode_get_unlocked, inode_release, fd_close).
MountsSafe ==
  /\ \A m \in Mounted : mountRefs[m] = Holds(m)
  /\ \A m \in MountIds \ Mounted : Holds(m) = 0
  /\ DOMAIN inodeRefs = {<<mountFd[f].mount, mountFd[f].ino>> : f \in DOMAIN mountFd}
  /\ \A k \in DOMAIN inodeRefs :
       inodeRefs[k] = Cardinality({f \in DOMAIN mountFd : <<mountFd[f].mount, mountFd[f].ino>> = k})
  /\ \A path \in Points, i \in DOMAIN mountList :
       IsPrefix(mountList[i].point, path) =>
         \E j \in DOMAIN mountList : /\ mountList[j].id = Find(path)
                                     /\ Len(mountList[j].point) >= Len(mountList[i].point)
=============================================================================
