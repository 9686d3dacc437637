------------------------------ MODULE FdTable ------------------------------
(***************************************************************************)
(* fs/fd.c: open files with their reference counts, the tables that name   *)
(* them, and the threads that use a table, alone or together after clone   *)
(* with CLONE_FILES.  f_get gives out a file without a reference, so a     *)
(* call is two or three steps: the lookup under table->lock, and what it   *)
(* does with the file later.                                               *)
(***************************************************************************)
EXTENDS Integers, FiniteSets, FiniteSetsExt

CONSTANTS FileObjs,     \* memory for struct fd (bound)
          FdNums,       \* 0..rlimit(RLIMIT_NOFILE_) - 1
          FdTables,     \* memory for struct fdtable (bound)
          FdThreads     \* threads of the guest

VARIABLES
  fileRefs,    \* file -> refcount; a file with no reference is free memory
  fdSlots,     \* table -> number -> file or "none"
  cloexec,     \* table -> numbers closed by exec
  fdThread,    \* thread -> table, and the call it is in with what it holds
  fdRaced,     \* history: a file was used after another thread closed it, or
               \* a slot was overwritten or marked behind its owner's back
  fdShared     \* history: two threads have shared a table

fdVars == <<fileRefs, fdSlots, cloexec, fdThread, fdRaced, fdShared>>

NoFdCall(t) == [table |-> t, at |-> "user", f |-> 0, fd |-> "none", to |-> 0]
Gone == NoFdCall("none")

UsersOf(t) == {p \in FdThreads : fdThread[p].table = t}      \* table->refcount

FdInit ==
  /\ fileRefs = [x \in FileObjs |-> 0]
  /\ fdSlots = [t \in FdTables |-> [f \in FdNums |-> "none"]]
  /\ cloexec = [t \in FdTables |-> {}]
  /\ LET first == CHOOSE p \in FdThreads : TRUE
     IN  fdThread = [p \in FdThreads |->
                       IF p = first THEN NoFdCall(CHOOSE t \in FdTables : TRUE) ELSE Gone]
  /\ fdRaced = FALSE /\ fdShared = FALSE

-----------------------------------------------------------------------------
\* f_install_start: the lowest free number from start on, or none.
FreeFrom(slots, start) == {f \in FdNums : f >= start /\ slots[f] = "none"}

\* Closes a file once, however many of the descriptors are it.
ClosedOnce(refs, slots, fs) ==
  [x \in FileObjs |-> IF \E f \in fs : slots[f] = x THEN refs[x] - 1 ELSE refs[x]]

\* Closing the descriptors fs of a table (fdtable_close, fd_close).
FdClosed(refs, slots, fs) ==
  [x \in FileObjs |-> refs[x] - Cardinality({f \in fs : slots[f] = x})]
Emptied(slots, fs) == [f \in FdNums |-> IF f \in fs THEN "none" ELSE slots[f]]

FdInCall(p, at) == fdThread[p].table # "none" /\ fdThread[p].at = at
Table(p) == fdThread[p].table
Return(p) == fdThread' = [fdThread EXCEPT ![p] = NoFdCall(Table(p))]

\* sys_openat and every other call that ends in f_install with a new file: its
\* one reference goes to the table, or fd_close frees it (EMFILE).
FdOpen(p, exec) ==
  /\ FdInCall(p, "user") /\ FreeFrom(fdSlots[Table(p)], 0) # {}
  /\ \E x \in FileObjs :
       LET f == Min(FreeFrom(fdSlots[Table(p)], 0))
       IN  /\ fileRefs[x] = 0
           /\ \A q \in FdThreads : fdThread[q].fd # x
           /\ fileRefs' = [fileRefs EXCEPT ![x] = 1]
           /\ fdSlots' = [fdSlots EXCEPT ![Table(p)][f] = x]
           /\ cloexec' = [cloexec EXCEPT ![Table(p)] = IF exec THEN @ \cup {f} ELSE @ \ {f}]
  /\ UNCHANGED <<fdThread, fdRaced, fdShared>>

\* sys_close: under the lock from lookup to end.
FdClose(p, f) ==
  /\ FdInCall(p, "user") /\ fdSlots[Table(p)][f] # "none"
  /\ fileRefs' = FdClosed(fileRefs, fdSlots[Table(p)], {f})
  /\ fdSlots' = [fdSlots EXCEPT ![Table(p)] = Emptied(@, {f})]
  /\ cloexec' = [cloexec EXCEPT ![Table(p)] = @ \ {f}]
  /\ UNCHANGED <<fdThread, fdRaced, fdShared>>

\* fdtable_do_cloexec, from execve.
DoCloexec(p) ==
  /\ FdInCall(p, "user")
  /\ fileRefs' = FdClosed(fileRefs, fdSlots[Table(p)], cloexec[Table(p)])
  /\ fdSlots' = [fdSlots EXCEPT ![Table(p)] = Emptied(@, cloexec[Table(p)])]
  /\ cloexec' = [cloexec EXCEPT ![Table(p)] = {}]
  /\ UNCHANGED <<fdThread, fdRaced, fdShared>>

\* f_get, the first step of a call: a pointer and no reference.
Get(p, op, f, to) ==
  /\ FdInCall(p, "user") /\ fdSlots[Table(p)][f] # "none"
  /\ fdThread' = [fdThread EXCEPT ![p] = [@ EXCEPT !.at = op, !.f = f, !.to = to,
                                                   !.fd = fdSlots[Table(p)][f]]]
  /\ UNCHANGED <<fileRefs, fdSlots, cloexec, fdRaced, fdShared>>

Borrowed(p) == fdThread[p].fd
Stale(p) == fileRefs[Borrowed(p)] = 0

\* sys_read, sys_write, sys_lseek, sys_ioctl and the rest use the file.
Use(p) ==
  /\ FdInCall(p, "use")
  /\ fdRaced' = (fdRaced \/ Stale(p))
  /\ Return(p)
  /\ UNCHANGED <<fileRefs, fdSlots, cloexec, fdShared>>

\* sys_dup: a reference, and f_install.  With no number left fd_close takes the
\* reference back.
Dup(p) ==
  LET free == FreeFrom(fdSlots[Table(p)], 0)
  IN  /\ FdInCall(p, "dup")
      /\ fdRaced' = (fdRaced \/ Stale(p))
      /\ fileRefs' = [fileRefs EXCEPT ![Borrowed(p)] = @ + (IF free = {} THEN 0 ELSE 1)]
      /\ fdSlots' = IF free = {} THEN fdSlots
                    ELSE [fdSlots EXCEPT ![Table(p)][Min(free)] = Borrowed(p)]
      /\ cloexec' = [cloexec EXCEPT ![Table(p)] = IF free = {} THEN @ ELSE @ \ {Min(free)}]
      /\ Return(p)
      /\ UNCHANGED fdShared

\* sys_dup3: a reference, then f_close(new_f) under the lock ...
Dup3Close(p) ==
  LET slots == fdSlots[Table(p)] to == fdThread[p].to
      kept == [fileRefs EXCEPT ![Borrowed(p)] = @ + 1]
  IN  /\ FdInCall(p, "dup3")
      /\ fdRaced' = (fdRaced \/ Stale(p))
      /\ fileRefs' = FdClosed(kept, slots, {to})
      /\ fdSlots' = [fdSlots EXCEPT ![Table(p)] = Emptied(@, {to})]
      /\ cloexec' = [cloexec EXCEPT ![Table(p)] = @ \ {to}]
      /\ fdThread' = [fdThread EXCEPT ![p].at = "dup3_store"]
      /\ UNCHANGED fdShared

\* ... and the store, outside of it.
Dup3Store(p, exec) ==
  LET to == fdThread[p].to
  IN  /\ FdInCall(p, "dup3_store")
      /\ fdRaced' = (fdRaced \/ fdSlots[Table(p)][to] # "none")
      /\ fdSlots' = [fdSlots EXCEPT ![Table(p)][to] = Borrowed(p)]
      /\ cloexec' = [cloexec EXCEPT ![Table(p)] = IF exec THEN @ \cup {to} ELSE @]
      /\ Return(p)
      /\ UNCHANGED <<fileRefs, fdShared>>

\* F_DUPFD and F_DUPFD_CLOEXEC: f_install_start without the lock, so another
\* thread may take the number between the search and the store.
DupfdSearch(p) ==
  LET free == FreeFrom(fdSlots[Table(p)], fdThread[p].to)
  IN  /\ FdInCall(p, "dupfd")
      /\ fdRaced' = (fdRaced \/ Stale(p))
      /\ IF free = {} THEN Return(p) /\ UNCHANGED fileRefs
         ELSE /\ fileRefs' = [fileRefs EXCEPT ![Borrowed(p)] = @ + 1]
              /\ fdThread' = [fdThread EXCEPT ![p].at = "dupfd_store", ![p].to = Min(free)]
      /\ UNCHANGED <<fdSlots, cloexec, fdShared>>

DupfdStore(p, exec) ==
  LET to == fdThread[p].to
  IN  /\ FdInCall(p, "dupfd_store")
      /\ fdRaced' = (fdRaced \/ fdSlots[Table(p)][to] # "none")
      /\ fdSlots' = [fdSlots EXCEPT ![Table(p)][to] = Borrowed(p)]
      /\ cloexec' = [cloexec EXCEPT ![Table(p)] = IF exec THEN @ \cup {to} ELSE @ \ {to}]
      /\ Return(p)
      /\ UNCHANGED <<fileRefs, fdShared>>

\* F_SETFD and FIOCLEX: the bit of a number that may have been closed since.
SetFd(p) ==
  /\ FdInCall(p, "setfd")
  /\ cloexec' = [cloexec EXCEPT ![Table(p)] = @ \cup {fdThread[p].f}]
  /\ fdRaced' = (fdRaced \/ fdSlots[Table(p)][fdThread[p].f] = "none")
  /\ Return(p)
  /\ UNCHANGED <<fileRefs, fdSlots, fdShared>>

\* sys_poll takes its references under the lock and gives them back at the end.
PollRetain(p, f) ==
  /\ FdInCall(p, "user") /\ fdSlots[Table(p)][f] # "none"
  /\ fileRefs' = [fileRefs EXCEPT ![fdSlots[Table(p)][f]] = @ + 1]
  /\ fdThread' = [fdThread EXCEPT ![p] = [@ EXCEPT !.at = "poll", !.fd = fdSlots[Table(p)][f]]]
  /\ UNCHANGED <<fdSlots, cloexec, fdRaced, fdShared>>

PollRelease(p) ==
  /\ FdInCall(p, "poll")
  /\ fileRefs' = [fileRefs EXCEPT ![Borrowed(p)] = @ - 1]
  /\ Return(p)
  /\ UNCHANGED <<fdSlots, cloexec, fdRaced, fdShared>>

-----------------------------------------------------------------------------
\* clone with CLONE_FILES shares the table, without it fdtable_copy takes a
\* reference for every entry.
CloneFiles(p, q) ==
  /\ FdInCall(p, "user") /\ fdThread[q] = Gone
  /\ fdThread' = [fdThread EXCEPT ![q] = NoFdCall(Table(p))]
  /\ fdShared' = TRUE
  /\ UNCHANGED <<fileRefs, fdSlots, cloexec, fdRaced>>

FdtableCopy(p, q, t) ==
  /\ FdInCall(p, "user") /\ fdThread[q] = Gone /\ UsersOf(t) = {}
  /\ fileRefs' = [x \in FileObjs |->
                    fileRefs[x] + Cardinality({f \in FdNums : fdSlots[Table(p)][f] = x})]
  /\ fdSlots' = [fdSlots EXCEPT ![t] = fdSlots[Table(p)]]
  /\ cloexec' = [cloexec EXCEPT ![t] = cloexec[Table(p)]]
  /\ fdThread' = [fdThread EXCEPT ![q] = NoFdCall(t)]
  /\ UNCHANGED <<fdRaced, fdShared>>

\* fdtable_release, from do_exit: the last user closes everything.
FdtableRelease(p) ==
  LET t == Table(p) last == UsersOf(Table(p)) = {p}
      fs == IF last THEN FdNums ELSE {}
  IN  /\ FdInCall(p, "user")
      /\ fileRefs' = FdClosed(fileRefs, fdSlots[t], fs)
      /\ fdSlots' = [fdSlots EXCEPT ![t] = Emptied(@, fs)]
      /\ cloexec' = [cloexec EXCEPT ![t] = @ \ fs]
      /\ fdThread' = [fdThread EXCEPT ![p] = Gone]
      /\ UNCHANGED <<fdRaced, fdShared>>

FdNext ==
  /\ ~fdRaced
  /\ \E p \in FdThreads :
       \/ \E exec \in BOOLEAN : FdOpen(p, exec) \/ Dup3Store(p, exec) \/ DupfdStore(p, exec)
       \/ \E f \in FdNums : \/ FdClose(p, f) \/ PollRetain(p, f)
                            \/ \E to \in FdNums : Get(p, "dup3", f, to) \/ Get(p, "dupfd", f, to)
                            \/ \E op \in {"use", "dup", "setfd"} : Get(p, op, f, 0)
       \/ DoCloexec(p) \/ Use(p) \/ Dup(p) \/ Dup3Close(p) \/ DupfdSearch(p) \/ SetFd(p)
       \/ PollRelease(p) \/ FdtableRelease(p)
       \/ \E q \in FdThreads : CloneFiles(p, q) \/ \E t \in FdTables : FdtableCopy(p, q, t)

FdSpec == FdInit /\ [][FdNext]_fdVars

-----------------------------------------------------------------------------
\* References a thread holds for itself in the middle of a call.
HeldBy(x) == Cardinality({p \in FdThreads :
               fdThread[p].fd = x /\ fdThread[p].at \in {"dup3_store", "dupfd_store", "poll"}})
NamedBy(x) == Cardinality({e \in FdTables \X FdNums : fdSlots[e[1]][e[2]] = x})

\* Every open file is counted exactly once for each table entry and each call
\* that keeps it, however dup, dup3, close, exec, fork and exit interleave, no
\* close-on-exec bit outlives its descriptor, and the one way out of this is a
\* table that two threads share: with a table of its own a thread never uses a
\* file that is gone and never overwrites an entry (fs/fd.c f_get, sys_dup3,
\* F_DUPFD).
FilesExact ==
  /\ fdRaced => fdShared
  /\ ~fdRaced =>
       /\ \A x \in FileObjs : fileRefs[x] = NamedBy(x) + HeldBy(x)
       /\ \A t \in FdTables : \A f \in cloexec[t] : fdSlots[t][f] # "none"
       /\ \A p \in FdThreads : ~fdShared /\ Borrowed(p) # "none" => ~Stale(p)
=============================================================================
