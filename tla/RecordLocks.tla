---------------------------- MODULE RecordLocks ----------------------------
(***************************************************************************)
(* fs/lock.c: the fcntl record locks of one inode.  The list posix_locks   *)
(* is kept in order, grouped by owner; a request is merged with the locks  *)
(* of its owner that it touches and subtracted from those of another type. *)
(* The reference is what POSIX promises: each byte of the file has, for    *)
(* each owner, no lock, a read lock or a write lock.                       *)
(*                                                                         *)
(* Offsets are two's complement numbers.  The code takes ranges that POSIX *)
(* refuses: below zero (here bytes like all others) and, with EOVERFLOW,   *)
(* those that do not fit, which wrap (lockOdd).                            *)
(***************************************************************************)
EXTENDS Integers, Sequences, Functions

CONSTANTS LockOwners,   \* file tables (current->files) that use the inode
          FileEnd,      \* OFF_T_MAX, the last byte there is (bound)
          Flocks        \* the struct flock_ a guest passes, with the offset of
                        \* its whence and the mode of its file

Lowest == -(FileEnd + 1)
Bytes == Lowest..FileEnd

ASSUME LocksAssumption ==
  /\ FileEnd \in Nat
  /\ Flocks \subseteq [type : {"read", "write", "unlock"}, offset : 0..FileEnd, start : Bytes,
                       len : Bytes, mode : {"rdonly", "wronly", "rdwr"}]

VARIABLES
  posixLocks,   \* inode->posix_locks, a sequence of locks
  byteLocks,    \* reference: owner, byte -> type
  lockOdd       \* history: the code took a range that does not fit

lockVars == <<posixLocks, byteLocks, lockOdd>>

-----------------------------------------------------------------------------
\* The sum or difference of two offsets, as off_t_ keeps it.
Wrap(x) == IF x > FileEnd THEN x - 2 * (FileEnd + 1)
           ELSE IF x < Lowest THEN x + 2 * (FileEnd + 1) ELSE x

\* file_lock_from_flock: a length of zero reaches the end, a negative one ends
\* just before the start.  offset is that of whence.
FromFlock(owner, type, offset, start, len) ==
  LET s == Wrap(start + offset)
      e == IF len > 0 THEN Wrap(s + len - 1) ELSE IF len < 0 THEN Wrap(s - 1) ELSE FileEnd
  IN  [owner |-> owner, type |-> type, end |-> e,
       start |-> IF len < 0 THEN Wrap(e + len + 1) ELSE s]

\* flock_from_file_lock, for F_GETLK.
ToFlock(lock) ==
  [type |-> lock.type, start |-> lock.start,
   len |-> IF lock.end # FileEnd THEN Wrap(lock.end - lock.start + 1) ELSE 0]

Overlap(a, b) == a.end >= b.start /\ b.end >= a.start
Adjacent(a, b) == a.end = Wrap(b.start - 1) \/ b.end = Wrap(a.start - 1)
Conflict(a, b) == /\ a.owner # b.owner /\ Overlap(a, b)
                  /\ a.type = "write" \/ b.type = "write"

\* file_lock_test: the locks in the way; it returns the first, if there is one.
InTheWay(locks, request) == {i \in DOMAIN locks : Conflict(locks[i], request)}

\* What is left of a lock that a request of another type cuts; FrontPiece loses
\* what lies behind the request.
Piece(lock) == IF lock.start <= lock.end THEN <<lock>> ELSE <<>>
FrontPiece(lock, request) == Piece([lock EXCEPT !.end = request.start - 1])
Pieces(lock, request) ==
  FrontPiece(lock, request) \o Piece([lock EXCEPT !.start = request.end + 1])

\* One turn of the second loop of file_lock_acquire: the lock is swallowed by a
\* request of its type that it touches, and cut by one of another type.
Place(acc, lock) ==
  IF lock.type = acc.request.type
  THEN IF Overlap(lock, acc.request) \/ Adjacent(acc.request, lock)
       THEN [acc EXCEPT !.request.start = IF lock.start < @ THEN lock.start ELSE @,
                        !.request.end = IF lock.end > @ THEN lock.end ELSE @]
       ELSE [acc EXCEPT !.kept = Append(@, lock)]
  ELSE IF Overlap(lock, acc.request)
       THEN [acc EXCEPT !.kept = @ \o Pieces(lock, acc.request)]
       ELSE [acc EXCEPT !.kept = Append(@, lock)]

\* file_lock_acquire once nothing is in the way: the run of the owner's locks
\* is rewritten and the new lock goes after it, or at the end of the list.
FirstOf(locks, owner) ==
  IF \E i \in DOMAIN locks : locks[i].owner = owner
  THEN CHOOSE i \in DOMAIN locks :
         locks[i].owner = owner /\ \A j \in 1..(i - 1) : locks[j].owner # owner
  ELSE Len(locks) + 1
PastRun(locks, first, owner) ==
  CHOOSE k \in first..(Len(locks) + 1) :
    /\ \A j \in first..(k - 1) : locks[j].owner = owner
    /\ k > Len(locks) \/ locks[k].owner # owner

Acquire(locks, request) ==
  LET first == FirstOf(locks, request.owner)
      past == PastRun(locks, first, request.owner)
      acc[i \in first - 1 .. past - 1] ==
        IF i < first THEN [request |-> request, kept |-> <<>>]
        ELSE Place(acc[i - 1], locks[i])
      done == acc[past - 1]
  IN  SubSeq(locks, 1, first - 1) \o done.kept
      \o (IF request.type = "unlock" THEN <<>> ELSE <<done.request>>)
      \o SubSeq(locks, past, Len(locks))

-----------------------------------------------------------------------------
\* Reference: the range that is asked for; one that does not fit, or reaches
\* the lowest offset, which Adjacent takes for the neighbour of the highest.
Asked(f) ==
  LET s == f.offset + f.start
  IN  [start |-> IF f.len < 0 THEN s + f.len ELSE s,
       end   |-> IF f.len > 0 THEN s + f.len - 1 ELSE IF f.len < 0 THEN s - 1 ELSE FileEnd]
Odd(f) == Asked(f).start \notin Bytes \ {Lowest} \/ Asked(f).end \notin Bytes

\* A request gives its bytes its type, and the owner's others stay.
SetBytes(held, owner, f) ==
  [held EXCEPT ![owner] =
     [b \in Bytes |-> IF b \in Asked(f).start..Asked(f).end THEN f.type ELSE @[b]]]

LocksInit ==
  /\ posixLocks = <<>>
  /\ byteLocks = [o \in LockOwners |-> [b \in Bytes |-> "unlock"]]
  /\ lockOdd = FALSE

\* fcntl_setlk.  An O_WRONLY file takes no read lock and an O_RDONLY file no
\* write lock; with a lock in the way nothing changes; any range is taken.
\* (sys_fcntl compares the command of each form with the other form's F_SETLKW,
\* so no request of a guest is blocking and the loop around wait_for is never
\* entered.)
SetLk(owner, f) ==
  LET request == FromFlock(owner, f.type, f.offset, f.start, f.len)
  IN  /\ ~(f.type = "read" /\ f.mode = "wronly") /\ ~(f.type = "write" /\ f.mode = "rdonly")
      /\ f.type = "unlock" \/ InTheWay(posixLocks, request) = {}
      /\ posixLocks' = Acquire(posixLocks, request)
      /\ byteLocks' = SetBytes(byteLocks, owner, f)
      /\ lockOdd' = Odd(f)

\* file_lock_remove_owned_by, when a descriptor of the owner is closed.
Removed(locks, owner) ==
  LET kept[i \in 0 .. Len(locks)] ==
        IF i = 0 THEN <<>>
        ELSE IF locks[i].owner = owner THEN kept[i - 1] ELSE Append(kept[i - 1], locks[i])
  IN  kept[Len(locks)]

RemoveOwnedBy(owner) ==
  /\ posixLocks' = Removed(posixLocks, owner)
  /\ byteLocks' = [byteLocks EXCEPT ![owner] = [b \in Bytes |-> "unlock"]]
  /\ UNCHANGED lockOdd

\* Nothing is said of a list after a range that does not fit.
LocksNext ==
  /\ ~lockOdd
  /\ \E o \in LockOwners : (\E f \in Flocks : SetLk(o, f)) \/ RemoveOwnedBy(o)

LocksSpec == LocksInit /\ [][LocksNext]_lockVars

-----------------------------------------------------------------------------
\* What the list says of each byte.
HeldBytes ==
  [o \in LockOwners |-> [b \in Bytes |->
     IF \E i \in DOMAIN posixLocks :
          posixLocks[i].owner = o /\ b \in posixLocks[i].start..posixLocks[i].end
     THEN (CHOOSE l \in Range(posixLocks) : l.owner = o /\ b \in l.start..l.end).type
     ELSE "unlock"]]

\* The byte b that o asks for is taken by p.
Taken(p, b, o, f) ==
  /\ p # o /\ b \in Asked(f).start..Asked(f).end
  /\ byteLocks[p][b] # "unlock" /\ "write" \in {f.type, byteLocks[p][b]}

\* A length that F_GETLK can tell.
Tellable(lock) == lock.end = FileEnd \/ lock.end - lock.start < FileEnd

\* The merging, overriding and splitting of file_lock_acquire leave exactly the
\* locks POSIX promises, no two owners conflict on a byte, the list stays grouped
\* by owner with no two locks of one owner overlapping or left unmerged, what
\* F_GETLK answers reads back as a lock, and F_GETLK (fcntl_getlk) finds one
\* exactly when a byte is taken: until the code takes a range that does not fit.
LocksExact == lockOdd \/
  /\ HeldBytes = byteLocks
  /\ \A o, p \in LockOwners, b \in Bytes :
       o # p /\ byteLocks[o][b] = "write" => byteLocks[p][b] = "unlock"
  /\ \A i, j \in DOMAIN posixLocks :
       /\ i < j /\ posixLocks[i].owner = posixLocks[j].owner
          => /\ \A k \in i..j : posixLocks[k].owner = posixLocks[i].owner
             /\ ~Overlap(posixLocks[i], posixLocks[j])
             /\ posixLocks[i].type = posixLocks[j].type => ~Adjacent(posixLocks[i], posixLocks[j])
  /\ \A i \in DOMAIN posixLocks :
       LET f == ToFlock(posixLocks[i])
       IN  Tellable(posixLocks[i]) =>
             FromFlock(posixLocks[i].owner, f.type, 0, f.start, f.len) = posixLocks[i]
  /\ posixLocks # <<>> => \A o \in LockOwners, f \in Flocks :
       LET r == FromFlock(o, f.type, f.offset, f.start, f.len)
       IN  ~Odd(f) =>
             /\ \A i \in InTheWay(posixLocks, r) :
                  \E b \in Bytes : Taken(posixLocks[i].owner, b, o, f)
             /\ f.type # "unlock" /\ (\E p \in LockOwners, b \in Bytes : Taken(p, b, o, f))
                  => InTheWay(posixLocks, r) # {}
=============================================================================
