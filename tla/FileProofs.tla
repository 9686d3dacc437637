----------------------------- MODULE FileProofs -----------------------------
(***************************************************************************)
(* Files.  The table of open files for any finite number of tables,        *)
(* numbers and threads and any files: every file counts its descriptors    *)
(* and the calls that keep it, and only threads that share a table can use *)
(* a file that is gone or overwrite a descriptor.  The record locks of an  *)
(* inode for any owners, requests and size of file: the list says of every *)
(* byte what POSIX promises.  Poll sets for any descriptors and threads;   *)
(* the mount table for any points, mounts and threads.                     *)
(***************************************************************************)
EXTENDS FdTable, RecordLocks, Poll, Mounts, Induction, SequenceTheorems, FiniteSetTheorems, TLAPS

(* What is counted is finite (limits and memory), and "none" is no object. *)
FdSizes ==
  /\ FdNums \subseteq Nat /\ IsFiniteSet(FdNums)
  /\ IsFiniteSet(FdTables) /\ FdTables # {} /\ "none" \notin FdTables
  /\ IsFiniteSet(FdThreads) /\ FdThreads # {}
  /\ "none" \notin FileObjs

Borrowing == {"use", "dup", "setfd", "dup3", "dupfd"}
Keeping == {"dup3_store", "dupfd_store", "poll"}
Storing == {"dup3_store", "dupfd_store"}

ThreadRec == [table : FdTables \cup {"none"}, at : {"user"} \cup Borrowing \cup Keeping,
              f : Nat, fd : FileObjs \cup {"none"}, to : Nat]

FdTypes ==
  /\ fileRefs \in [FileObjs -> Nat]
  /\ fdSlots \in [FdTables -> [FdNums -> FileObjs \cup {"none"}]]
  /\ cloexec \in [FdTables -> SUBSET FdNums]
  /\ fdThread \in [FdThreads -> ThreadRec]
  /\ fdShared \in BOOLEAN

(* A thread of the guest is in no call and has no file; one in a call has  *)
(* a file and the numbers that the call needs.                             *)
Calls ==
  \A p \in FdThreads :
    /\ fdThread[p].at = "user" => fdThread[p] = NoFdCall(Table(p))
    /\ fdThread[p].at # "user" => Table(p) # "none" /\ Borrowed(p) # "none"
    /\ fdThread[p].at \in Borrowing => fdThread[p].f \in FdNums
    /\ fdThread[p].at \in {"dup3", "dupfd"} \cup Storing => fdThread[p].to \in FdNums

(* References: one for each entry and one for each call that keeps one.    *)
Counted == \A x \in FileObjs : fileRefs[x] = NamedBy(x) + HeldBy(x)

(* No close-on-exec bit outlives its descriptor, and a table that nobody   *)
(* uses is empty.                                                          *)
Tables ==
  \A t \in FdTables :
    /\ \A f \in cloexec[t] : fdSlots[t][f] # "none"
    /\ UsersOf(t) = {} => \A f \in FdNums : fdSlots[t][f] = "none"

(* As long as no two threads have shared a table, a borrowed file is still *)
(* where it was found, and the number chosen for a store is still free.    *)
Alone ==
  ~fdShared =>
    /\ \A p, q \in FdThreads : p # q /\ Table(p) = Table(q) => Table(p) = "none"
    /\ \A p \in FdThreads :
         /\ fdThread[p].at \in Borrowing => fdSlots[Table(p)][fdThread[p].f] = Borrowed(p)
         /\ fdThread[p].at \in Storing => fdSlots[Table(p)][fdThread[p].to] = "none"

Sound == FdTypes /\ Calls /\ Counted /\ Tables /\ Alone

(* A race ends the behaviour, and only sharing allows one.                 *)
FdInv ==
  /\ fdRaced => fdShared
  /\ ~fdRaced => Sound

(* What a step may rely on.                                                *)
FdState == FdSizes /\ FdTypes /\ Calls /\ Counted /\ Tables /\ Alone

---------------------------------------------------------------------------
(* Counting.  The descriptors of one table that name x, those of the other *)
(* tables, and the calls that keep x.                                      *)
Row(row, x) == {f \in FdNums : row[f] = x}
Others(slots, t, x) == {e \in (FdTables \ {t}) \X FdNums : slots[e[1]][e[2]] = x}
Named(slots, x) == {e \in FdTables \X FdNums : slots[e[1]][e[2]] = x}
Keeps(call, x) == call.fd = x /\ call.at \in Keeping
Holders(calls, x) == {p \in FdThreads : Keeps(calls[p], x)}
One(b) == IF b THEN 1 ELSE 0

(* A set of numbers that is not empty has a least one, which Min finds.    *)
LEMMA LeastFree ==
  ASSUME NEW T, T \subseteq Nat, T # {}
  PROVE  Min(T) \in T
<1>1. PICK i \in T : \A j \in T : ~ (<<j, i>> \in OpToRel(<, Nat))
  BY Zenon, NatLessThanWellFounded, WFMin
<1>2. \A j \in T : ~ (j < i)
  BY <1>1 DEF OpToRel
<1>3. \E x \in T : \A y \in T : x <= y
  BY <1>2
<1> QED  BY <1>3 DEF Min

(* The sets that are counted are finite.                                   *)
LEMMA FiniteCounts ==
  ASSUME FdSizes, NEW slots, NEW row, NEW calls, NEW t \in FdTables, NEW x
  PROVE  /\ IsFiniteSet(Row(row, x)) /\ Cardinality(Row(row, x)) \in Nat
         /\ IsFiniteSet(Others(slots, t, x)) /\ Cardinality(Others(slots, t, x)) \in Nat
         /\ IsFiniteSet(Named(slots, x)) /\ Cardinality(Named(slots, x)) \in Nat
         /\ IsFiniteSet(Holders(calls, x)) /\ Cardinality(Holders(calls, x)) \in Nat
<1>1. IsFiniteSet(FdTables \X FdNums)
  BY FS_Product DEF FdSizes
<1>2. /\ Row(row, x) \in SUBSET FdNums /\ Holders(calls, x) \in SUBSET FdThreads
      /\ Others(slots, t, x) \in SUBSET (FdTables \X FdNums)
      /\ Named(slots, x) \in SUBSET (FdTables \X FdNums)
  BY DEF Row, Others, Named, Holders
<1>3. /\ IsFiniteSet(Row(row, x)) /\ IsFiniteSet(Holders(calls, x))
      /\ IsFiniteSet(Others(slots, t, x)) /\ IsFiniteSet(Named(slots, x))
  BY <1>1, <1>2, FS_Subset DEF FdSizes
<1> QED  BY <1>3, FS_CardinalityType

(* What names x is in one table or in the others.                          *)
LEMMA SplitNamed ==
  ASSUME FdSizes, NEW slots, NEW t \in FdTables, NEW x
  PROVE  Cardinality(Named(slots, x)) =
           Cardinality(Row(slots[t], x)) + Cardinality(Others(slots, t, x))
<1> DEFINE fs == Row(slots[t], x)
           mine == {<<t, f>> : f \in fs}
           b == [f \in fs |-> <<t, f>>]
<1>1. /\ IsFiniteSet(fs) /\ Cardinality(fs) \in Nat
      /\ IsFiniteSet(Others(slots, t, x)) /\ Cardinality(Others(slots, t, x)) \in Nat
  BY FiniteCounts
<1>2. b \in Bijection(fs, mine)
  BY DEF Bijection, Injection, Surjection, IsInjective
<1>3. IsFiniteSet(mine) /\ Cardinality(mine) = Cardinality(fs)
  BY <1>1, <1>2, FS_Bijection DEF ExistsBijection
<1>4. Named(slots, x) = mine \cup Others(slots, t, x)
  BY DEF Named, Others, Row
<1>5. mine \cap Others(slots, t, x) = {}
  BY DEF Others
<1>6. Cardinality(mine \cap Others(slots, t, x)) = 0
  BY <1>5, FS_EmptySet
<1> HIDE DEF mine, fs
<1>7. Cardinality(mine \cup Others(slots, t, x)) =
        Cardinality(mine) + Cardinality(Others(slots, t, x))
          - Cardinality(mine \cap Others(slots, t, x))
  BY <1>1, <1>3, FS_Union
<1> QED  BY <1>1, <1>3, <1>4, <1>6, <1>7 DEF fs

(* An entry that changes is one less and one more.                         *)
LEMMA RowSet ==
  ASSUME FdSizes, NEW row \in [FdNums -> FileObjs \cup {"none"}], NEW f \in FdNums,
         NEW new, \A g \in FdNums \ {f} : new[g] = row[g], NEW x
  PROVE  Cardinality(Row(new, x)) =
           Cardinality(Row(row, x)) - One(row[f] = x) + One(new[f] = x)
<1> DEFINE rest == {g \in FdNums \ {f} : row[g] = x}
<1>1. Row(row, x) = IF row[f] = x THEN rest \cup {f} ELSE rest
  BY DEF Row
<1>2. Row(new, x) = IF new[f] = x THEN rest \cup {f} ELSE rest
  BY DEF Row
<1>3. IsFiniteSet(rest) /\ f \notin rest
  BY FS_Subset DEF FdSizes
<1>4. Cardinality(rest) \in Nat /\ Cardinality(rest \cup {f}) = Cardinality(rest) + 1
  BY <1>3, FS_CardinalityType, FS_AddElement
<1> HIDE DEF rest
<1> QED  BY <1>1, <1>2, <1>4 DEF One

(* Entries that are emptied are taken from the count.                      *)
LEMMA RowEmptied ==
  ASSUME FdSizes, NEW row \in [FdNums -> FileObjs \cup {"none"}], NEW fs \in SUBSET FdNums,
         NEW x \in FileObjs
  PROVE  /\ Cardinality({f \in fs : row[f] = x}) \in Nat
         /\ Cardinality(Row(Emptied(row, fs), x)) =
              Cardinality(Row(row, x)) - Cardinality({f \in fs : row[f] = x})
<1> DEFINE out == {f \in fs : row[f] = x}
           left == Row(Emptied(row, fs), x)
<1>1. Row(row, x) = left \cup out /\ left \cap out = {}
  BY DEF Row, Emptied, FdSizes
<1>2. IsFiniteSet(left) /\ IsFiniteSet(out)
  BY FS_Subset DEF FdSizes, Row
<1>3. Cardinality(left) \in Nat /\ Cardinality(out) \in Nat /\ Cardinality(left \cap out) = 0
  BY <1>1, <1>2, FS_CardinalityType, FS_EmptySet
<1> HIDE DEF left, out
<1>4. Cardinality(left \cup out) =
        Cardinality(left) + Cardinality(out) - Cardinality(left \cap out)
  BY <1>2, FS_Union
<1> QED  BY <1>1, <1>3, <1>4 DEF left, out

(* A call that changes is one keeper less and one more.                    *)
LEMMA HolderSet ==
  ASSUME FdSizes, NEW calls \in [FdThreads -> ThreadRec], NEW p \in FdThreads,
         NEW new, \A q \in FdThreads \ {p} : new[q] = calls[q], NEW x
  PROVE  Cardinality(Holders(new, x)) =
           Cardinality(Holders(calls, x)) - One(Keeps(calls[p], x)) + One(Keeps(new[p], x))
<1> DEFINE rest == {q \in FdThreads \ {p} : Keeps(calls[q], x)}
<1>1. Holders(calls, x) = IF Keeps(calls[p], x) THEN rest \cup {p} ELSE rest
  BY DEF Holders
<1>2. Holders(new, x) = IF Keeps(new[p], x) THEN rest \cup {p} ELSE rest
  BY DEF Holders
<1>3. IsFiniteSet(rest) /\ p \notin rest
  BY FS_Subset DEF FdSizes
<1>4. Cardinality(rest) \in Nat /\ Cardinality(rest \cup {p}) = Cardinality(rest) + 1
  BY <1>3, FS_CardinalityType, FS_AddElement
<1> HIDE DEF rest
<1> QED  BY <1>1, <1>2, <1>4 DEF One

(* The counts of a state.                                                  *)
LEMMA CountedMeans ==
  Counted <=> \A x \in FileObjs : fileRefs[x] = Cardinality(Named(fdSlots, x))
                                                  + Cardinality(Holders(fdThread, x))
BY DEF Counted, NamedBy, HeldBy, Named, Holders, Keeps, Keeping

(* What x counts after a step in which table t gets the entries row and    *)
(* thread p goes on with the call c.                                       *)
Balance(x, t, p, refs, row, c) ==
  refs = fileRefs[x] - Cardinality(Row(fdSlots[t], x)) + Cardinality(Row(row, x))
           - One(Keeps(fdThread[p], x)) + One(Keeps(c, x))

(* One table and one call change, and the references with them.            *)
LEMMA Recounted ==
  ASSUME FdSizes, FdTypes, Counted, NEW t \in FdTables, NEW p \in FdThreads,
         \A u \in FdTables \ {t} : fdSlots'[u] = fdSlots[u],
         \A q \in FdThreads \ {p} : fdThread'[q] = fdThread[q],
         fileRefs' = [x \in FileObjs |-> fileRefs'[x]],
         \A x \in FileObjs : Balance(x, t, p, fileRefs'[x], fdSlots'[t], fdThread'[p])
  PROVE  Counted' /\ fileRefs' \in [FileObjs -> Nat]
<1>1. ASSUME NEW x \in FileObjs
      PROVE  /\ fileRefs'[x] \in Nat
             /\ fileRefs'[x] = Cardinality(Named(fdSlots', x)) + Cardinality(Holders(fdThread', x))
  <2>1. Others(fdSlots', t, x) = Others(fdSlots, t, x)
    BY DEF Others
  <2>2. /\ Cardinality(Named(fdSlots, x)) =
             Cardinality(Row(fdSlots[t], x)) + Cardinality(Others(fdSlots, t, x))
        /\ Cardinality(Named(fdSlots', x)) =
             Cardinality(Row(fdSlots'[t], x)) + Cardinality(Others(fdSlots, t, x))
    BY <2>1, SplitNamed
  <2>3. fdThread \in [FdThreads -> ThreadRec]
    BY DEF FdTypes
  <2>4. Cardinality(Holders(fdThread', x)) =
          Cardinality(Holders(fdThread, x)) - One(Keeps(fdThread[p], x)) + One(Keeps(fdThread'[p], x))
    BY <2>3, HolderSet
  <2>5. /\ Cardinality(Row(fdSlots[t], x)) \in Nat /\ Cardinality(Row(fdSlots'[t], x)) \in Nat
        /\ Cardinality(Others(fdSlots, t, x)) \in Nat
        /\ Cardinality(Holders(fdThread, x)) \in Nat /\ Cardinality(Holders(fdThread', x)) \in Nat
        /\ Cardinality(Named(fdSlots', x)) \in Nat
    BY FiniteCounts
  <2>6. One(Keeps(fdThread[p], x)) \in Nat /\ One(Keeps(fdThread'[p], x)) \in Nat
    BY DEF One
  <2>7. fileRefs[x] = Cardinality(Named(fdSlots, x)) + Cardinality(Holders(fdThread, x))
    BY CountedMeans
  <2>8. Balance(x, t, p, fileRefs'[x], fdSlots'[t], fdThread'[p])
    OBVIOUS
  <2> QED  BY <2>2, <2>4, <2>5, <2>6, <2>7, <2>8 DEF Balance
<1>2. Counted' <=> \A x \in FileObjs : fileRefs'[x] = Cardinality(Named(fdSlots', x))
                                                  + Cardinality(Holders(fdThread', x))
  BY DEF Counted, NamedBy, HeldBy, Named, Holders, Keeps, Keeping
<1>3. DOMAIN fileRefs' = FileObjs
  OBVIOUS
<1> QED  BY <1>1, <1>2, <1>3

---------------------------------------------------------------------------
(* What a step of thread p keeps when it stays at its table: the table t   *)
(* gets the entries row and the bits bits, and the thread goes on with c.  *)
LEMMA CallStep ==
  ASSUME FdState, NEW p \in FdThreads, NEW t \in FdTables, t = Table(p),
         NEW row \in [FdNums -> FileObjs \cup {"none"}], NEW bits \in SUBSET FdNums,
         NEW c \in ThreadRec,
         fdSlots' = [fdSlots EXCEPT ![t] = row], cloexec' = [cloexec EXCEPT ![t] = bits],
         fdThread' = [fdThread EXCEPT ![p] = c], fdShared' = fdShared,
         \A f \in bits : row[f] # "none",
         c.table = t,
         c.at = "user" => c = NoFdCall(t),
         c.at # "user" => c.fd # "none",
         c.at \in Borrowing => c.f \in FdNums,
         c.at \in {"dup3", "dupfd"} \cup Storing => c.to \in FdNums,
         ~fdShared => /\ c.at \in Borrowing => row[c.f] = c.fd
                      /\ c.at \in Storing => row[c.to] = "none",
         fileRefs' = [x \in FileObjs |-> fileRefs'[x]],
         \A x \in FileObjs : Balance(x, t, p, fileRefs'[x], row, c)
  PROVE  Sound'
<1>0. FdSizes /\ FdTypes /\ Calls /\ Counted /\ Tables /\ Alone
  BY DEF FdState
<1> USE <1>0
<1>1. /\ fdSlots \in [FdTables -> [FdNums -> FileObjs \cup {"none"}]]
      /\ cloexec \in [FdTables -> SUBSET FdNums]
      /\ fdThread \in [FdThreads -> ThreadRec]
      /\ fdShared \in BOOLEAN
  BY DEF FdTypes
<1>2. /\ fdSlots'[t] = row /\ \A u \in FdTables \ {t} : fdSlots'[u] = fdSlots[u]
      /\ cloexec'[t] = bits /\ \A u \in FdTables \ {t} : cloexec'[u] = cloexec[u]
      /\ fdThread'[p] = c /\ \A q \in FdThreads \ {p} : fdThread'[q] = fdThread[q]
  BY <1>1
<1>3. Counted' /\ fileRefs' \in [FileObjs -> Nat]
  <2>1. \A x \in FileObjs : Balance(x, t, p, fileRefs'[x], fdSlots'[t], fdThread'[p])
    BY <1>2
  <2> QED  BY <1>2, <2>1, Recounted
<1>4. FdTypes'
  BY <1>1, <1>3 DEF FdTypes
<1>5. \A q \in FdThreads : Table(q)' = Table(q)
  BY <1>2 DEF Table
<1>6. Calls'
  <2> SUFFICES ASSUME NEW q \in FdThreads
               PROVE  /\ fdThread'[q].at = "user" => fdThread'[q] = NoFdCall(fdThread'[q].table)
                      /\ fdThread'[q].at # "user" =>
                           fdThread'[q].table # "none" /\ fdThread'[q].fd # "none"
                      /\ fdThread'[q].at \in Borrowing => fdThread'[q].f \in FdNums
                      /\ fdThread'[q].at \in {"dup3", "dupfd"} \cup Storing =>
                           fdThread'[q].to \in FdNums
    BY DEF Calls, Table, Borrowed, NoFdCall
  <2>1. CASE q = p
    BY <1>2, <2>1 DEF FdSizes
  <2>2. CASE q # p
    BY <1>2, <2>2 DEF Calls, Table, Borrowed
  <2> QED  BY <2>1, <2>2
<1>7. Tables'
  <2>1. ASSUME NEW u \in FdTables PROVE UsersOf(u)' = UsersOf(u)
    BY <1>5 DEF UsersOf, Table
  <2>2. p \in UsersOf(t)
    BY DEF UsersOf, Table
  <2> QED  BY <1>2, <2>1, <2>2 DEF Tables
<1>8. Alone'
  <2> SUFFICES ASSUME ~fdShared
               PROVE  /\ \A q, r \in FdThreads : q # r /\ Table(q)' = Table(r)' => Table(q)' = "none"
                      /\ \A q \in FdThreads :
                           /\ fdThread'[q].at \in Borrowing =>
                                fdSlots'[Table(q)'][fdThread'[q].f] = fdThread'[q].fd
                           /\ fdThread'[q].at \in Storing =>
                                fdSlots'[Table(q)'][fdThread'[q].to] = "none"
    BY DEF Alone, Borrowed
  <2>1. \A q, r \in FdThreads : q # r /\ Table(q)' = Table(r)' => Table(q)' = "none"
    BY <1>5 DEF Alone
  <2>2. ASSUME NEW q \in FdThreads
        PROVE  /\ fdThread'[q].at \in Borrowing =>
                    fdSlots'[Table(q)'][fdThread'[q].f] = fdThread'[q].fd
               /\ fdThread'[q].at \in Storing => fdSlots'[Table(q)'][fdThread'[q].to] = "none"
    <3>1. CASE q = p
      BY <1>2, <1>5, <3>1
    <3>2. CASE q # p /\ fdThread[q].at = "user"
      BY <1>2, <3>2 DEF Borrowing, Storing
    <3>3. CASE q # p /\ fdThread[q].at # "user"
      <4>1. Table(q) # "none" /\ Table(q) # t
        BY <3>3 DEF Calls, Alone
      <4>2. Table(q) \in FdTables
        BY <1>1, <4>1 DEF Table, ThreadRec
      <4>3. fdSlots'[Table(q)'] = fdSlots[Table(q)] /\ fdThread'[q] = fdThread[q]
        BY <1>2, <1>5, <3>3, <4>1, <4>2
      <4> QED  BY <4>3 DEF Alone, Borrowed
    <3> QED  BY <3>1, <3>2, <3>3
  <2> QED  BY <2>1, <2>2
<1> QED  BY <1>3, <1>4, <1>6, <1>7, <1>8 DEF Sound

---------------------------------------------------------------------------
(* A thread in a call has a table, and in the guest no file.               *)
LEMMA InCall ==
  ASSUME FdState, NEW p \in FdThreads, NEW at, FdInCall(p, at)
  PROVE  /\ Table(p) \in FdTables /\ fdThread[p].at = at /\ fdThread[p] \in ThreadRec
         /\ fdThread[p].table = Table(p)
         /\ fdSlots[Table(p)] \in [FdNums -> FileObjs \cup {"none"}]
         /\ cloexec[Table(p)] \in SUBSET FdNums
         /\ at = "user" => fdThread[p] = NoFdCall(Table(p))
         /\ at # "user" => Borrowed(p) \in FileObjs
BY DEF FdState, FdTypes, Calls, FdInCall, Table, Borrowed, ThreadRec

(* What the balance adds and subtracts are numbers.                        *)
LEMMA Numbers ==
  ASSUME FdState, NEW t \in FdTables, NEW x \in FileObjs, NEW row
  PROVE  /\ Cardinality(Row(fdSlots[t], x)) \in Nat /\ Cardinality(Row(row, x)) \in Nat
         /\ fileRefs[x] \in Nat
BY FiniteCounts DEF FdState, FdTypes

(* A call that returns is no call.                                         *)
LEMMA Returned ==
  ASSUME FdState, NEW t \in FdTables
  PROVE  /\ NoFdCall(t) \in ThreadRec /\ NoFdCall(t).at = "user" /\ NoFdCall(t).table = t
         /\ NoFdCall(t).fd = "none" /\ "user" \notin Keeping \cup Borrowing \cup Storing
         /\ NoFdCall(t).at \notin {"dup3", "dupfd"} \cup Storing \cup Borrowing
         /\ \A x : ~Keeps(NoFdCall(t), x)
BY DEF NoFdCall, ThreadRec, Borrowing, Keeping, Storing, Keeps

(* The first free number.                                                  *)
LEMMA FirstFree ==
  ASSUME FdState, NEW row \in [FdNums -> FileObjs \cup {"none"}], NEW n,
         FreeFrom(row, n) # {}
  PROVE  Min(FreeFrom(row, n)) \in FdNums /\ row[Min(FreeFrom(row, n))] = "none"
<1>1. FreeFrom(row, n) \subseteq Nat
  BY DEF FreeFrom, FdState, FdSizes
<1>2. Min(FreeFrom(row, n)) \in FreeFrom(row, n)
  BY <1>1, LeastFree
<1> QED  BY <1>2 DEF FreeFrom

(* open: the first free number, and the reference that the file is made    *)
(* with.                                                                   *)
LEMMA OpenKeeps ==
  ASSUME FdState, NEW p \in FdThreads, NEW exec \in BOOLEAN, FdOpen(p, exec)
  PROVE  Sound'
<1> DEFINE t == Table(p)  f == Min(FreeFrom(fdSlots[t], 0))
<1>1. /\ t \in FdTables /\ fdThread[p] \in ThreadRec /\ fdThread[p].table = t
      /\ fdSlots[t] \in [FdNums -> FileObjs \cup {"none"}] /\ cloexec[t] \in SUBSET FdNums
      /\ fdThread[p] = NoFdCall(t)
  BY InCall DEF FdOpen
<1>2. f \in FdNums /\ fdSlots[t][f] = "none"
  BY <1>1, FirstFree DEF FdOpen
<1>3. PICK x \in FileObjs :
        /\ fileRefs[x] = 0
        /\ fileRefs' = [fileRefs EXCEPT ![x] = 1]
        /\ fdSlots' = [fdSlots EXCEPT ![t][f] = x]
        /\ cloexec' = [cloexec EXCEPT ![t] = IF exec THEN @ \cup {f} ELSE @ \ {f}]
  BY DEF FdOpen
<1> DEFINE row == [fdSlots[t] EXCEPT ![f] = x]
           bits == IF exec THEN cloexec[t] \cup {f} ELSE cloexec[t] \ {f}
           c == fdThread[p]
<1>4. /\ row \in [FdNums -> FileObjs \cup {"none"}] /\ bits \in SUBSET FdNums
      /\ fdSlots' = [fdSlots EXCEPT ![t] = row] /\ cloexec' = [cloexec EXCEPT ![t] = bits]
  BY <1>1, <1>2, <1>3
<1>5. fdThread' = [fdThread EXCEPT ![p] = c] /\ fdShared' = fdShared
  BY DEF FdOpen, FdState, FdTypes
<1>6. \A g \in bits : row[g] # "none"
  <2>1. x # "none"
    BY DEF FdState, FdSizes
  <2>2. \A g \in cloexec[t] : fdSlots[t][g] # "none"
    BY <1>1 DEF FdState, Tables
  <2> QED  BY <1>1, <1>2, <2>1, <2>2
<1>7. fileRefs' = [y \in FileObjs |-> fileRefs'[y]]
  BY <1>3 DEF FdState, FdTypes
<1>8. ASSUME NEW y \in FileObjs PROVE Balance(y, t, p, fileRefs'[y], row, c)
  <2>1. fileRefs'[y] = fileRefs[y] + One(x = y)
    BY <1>3 DEF FdState, FdTypes, One
  <2>2. Cardinality(Row(row, y)) =
          Cardinality(Row(fdSlots[t], y)) - One(fdSlots[t][f] = y) + One(x = y)
    <3>1. row[f] = x /\ \A g \in FdNums \ {f} : row[g] = fdSlots[t][g]
      BY <1>1, <1>2
    <3> HIDE DEF row
    <3> QED  BY <1>1, <1>2, <3>1, RowSet DEF FdState
  <2>3. One(fdSlots[t][f] = y) = 0
    BY <1>2 DEF One, FdState, FdSizes
  <2>4. Cardinality(Row(fdSlots[t], y)) \in Nat /\ Cardinality(Row(row, y)) \in Nat /\ fileRefs[y] \in Nat
    BY <1>1, Numbers
  <2>5. One(x = y) \in Nat /\ One(Keeps(c, y)) \in Nat
    BY DEF One
  <2> HIDE DEF row, c
  <2> QED  BY <2>1, <2>2, <2>3, <2>4, <2>5 DEF Balance, c
<1>9. c.at \notin Borrowing \cup Keeping \cup Storing \cup {"dup3", "dupfd"} /\ c.at = "user"
  BY <1>1, Returned DEF NoFdCall, Borrowing, Keeping, Storing
<1> HIDE DEF row, bits, c, t, f
<1>10. c = NoFdCall(t) /\ c.table = t /\ c \in ThreadRec
  BY <1>1 DEF c
<1> QED  BY <1>1, <1>4, <1>5, <1>6, <1>7, <1>8, <1>9, <1>10, CallStep DEF t

(* An action that empties the entries fs of the caller's table.            *)
LEMMA ClosingKeeps ==
  ASSUME FdState, NEW p \in FdThreads, FdInCall(p, "user"), NEW fs \in SUBSET FdNums,
         fileRefs' = FdClosed(fileRefs, fdSlots[Table(p)], fs),
         fdSlots' = [fdSlots EXCEPT ![Table(p)] = Emptied(@, fs)],
         cloexec' = [cloexec EXCEPT ![Table(p)] = @ \ fs],
         UNCHANGED <<fdThread, fdShared>>
  PROVE  Sound'
<1> DEFINE t == Table(p)  row == Emptied(fdSlots[t], fs)  c == fdThread[p]
           bits == cloexec[t] \ fs
<1>1. /\ t \in FdTables /\ fdThread[p] \in ThreadRec /\ fdThread[p].table = t
      /\ fdSlots[t] \in [FdNums -> FileObjs \cup {"none"}] /\ cloexec[t] \in SUBSET FdNums
      /\ fdThread[p] = NoFdCall(t)
  BY InCall
<1>2. /\ row \in [FdNums -> FileObjs \cup {"none"}] /\ bits \in SUBSET FdNums
      /\ fdSlots' = [fdSlots EXCEPT ![t] = row] /\ cloexec' = [cloexec EXCEPT ![t] = bits]
  BY <1>1 DEF Emptied
<1>3. fdThread' = [fdThread EXCEPT ![p] = c] /\ fdShared' = fdShared
  BY DEF FdState, FdTypes
<1>4. \A g \in bits : row[g] # "none"
  <2>1. \A g \in cloexec[t] : fdSlots[t][g] # "none"
    BY <1>1 DEF FdState, Tables
  <2> QED  BY <1>1, <2>1 DEF Emptied
<1>5. fileRefs' = [y \in FileObjs |-> fileRefs'[y]]
  BY DEF FdClosed
<1>6. ASSUME NEW y \in FileObjs PROVE Balance(y, t, p, fileRefs'[y], row, c)
  <2>1. fileRefs'[y] = fileRefs[y] - Cardinality({f \in fs : fdSlots[t][f] = y})
    BY DEF FdClosed
  <2>2. /\ Cardinality({f \in fs : fdSlots[t][f] = y}) \in Nat
        /\ Cardinality(Row(row, y)) =
             Cardinality(Row(fdSlots[t], y)) - Cardinality({f \in fs : fdSlots[t][f] = y})
    BY <1>1, RowEmptied DEF FdState
  <2>3. /\ Cardinality(Row(fdSlots[t], y)) \in Nat /\ Cardinality(Row(row, y)) \in Nat
        /\ fileRefs[y] \in Nat
    BY <1>1, Numbers
  <2>4. One(Keeps(c, y)) \in Nat
    BY DEF One
  <2> HIDE DEF row, c
  <2> QED  BY <2>1, <2>2, <2>3, <2>4 DEF Balance, c
<1>7. c.at \notin Borrowing \cup Keeping \cup Storing \cup {"dup3", "dupfd"} /\ c.at = "user"
  BY <1>1, Returned DEF NoFdCall, Borrowing, Keeping, Storing
<1> HIDE DEF row, bits, c, t
<1>8. c = NoFdCall(t) /\ c.table = t /\ c \in ThreadRec
  BY <1>1 DEF c
<1> QED  BY <1>1, <1>2, <1>3, <1>4, <1>5, <1>6, <1>7, <1>8, CallStep DEF t

(* close: one entry.                                                       *)
LEMMA CloseKeeps ==
  ASSUME FdState, NEW p \in FdThreads, NEW f \in FdNums, FdClose(p, f)
  PROVE  Sound'
BY ClosingKeeps DEF FdClose

(* execve: the entries marked close-on-exec.                               *)
LEMMA ExecKeeps ==
  ASSUME FdState, NEW p \in FdThreads, DoCloexec(p)
  PROVE  Sound'
<1>1. cloexec[Table(p)] \in SUBSET FdNums
  BY InCall DEF DoCloexec
<1>2. cloexec' = [cloexec EXCEPT ![Table(p)] = @ \ cloexec[Table(p)]]
  BY DEF DoCloexec
<1> QED  BY <1>1, <1>2, ClosingKeeps DEF DoCloexec

(* The table stays, and the call goes on with c, which keeps a file as     *)
(* before.                                                                 *)
LEMMA GoingOn ==
  ASSUME FdState, NEW p \in FdThreads, NEW at, FdInCall(p, at), NEW c \in ThreadRec,
         fdThread' = [fdThread EXCEPT ![p] = c],
         UNCHANGED <<fdSlots, cloexec, fdShared>>,
         c.table = Table(p),
         c.at = "user" => c = NoFdCall(Table(p)),
         c.at # "user" => c.fd # "none",
         c.at \in Borrowing => c.f \in FdNums,
         c.at \in {"dup3", "dupfd"} \cup Storing => c.to \in FdNums,
         ~fdShared => /\ c.at \in Borrowing => fdSlots[Table(p)][c.f] = c.fd
                      /\ c.at \in Storing => fdSlots[Table(p)][c.to] = "none",
         fileRefs' = [x \in FileObjs |-> fileRefs'[x]],
         \A x \in FileObjs :
           fileRefs'[x] = fileRefs[x] - One(Keeps(fdThread[p], x)) + One(Keeps(c, x))
  PROVE  Sound'
<1> DEFINE t == Table(p)  row == fdSlots[t]  bits == cloexec[t]
<1>1. /\ t \in FdTables /\ row \in [FdNums -> FileObjs \cup {"none"}] /\ bits \in SUBSET FdNums
  BY InCall
<1>2. fdSlots' = [fdSlots EXCEPT ![t] = row] /\ cloexec' = [cloexec EXCEPT ![t] = bits]
  BY DEF FdState, FdTypes
<1>3. \A g \in bits : row[g] # "none"
  BY <1>1 DEF FdState, Tables
<1>4. ASSUME NEW y \in FileObjs PROVE Balance(y, t, p, fileRefs'[y], row, c)
  <2>1. Cardinality(Row(row, y)) \in Nat /\ fileRefs[y] \in Nat
    BY <1>1, Numbers
  <2>2. One(Keeps(fdThread[p], y)) \in Nat /\ One(Keeps(c, y)) \in Nat
    BY DEF One
  <2> QED  BY <2>1, <2>2 DEF Balance
<1> HIDE DEF row, bits, t
<1>5. /\ c.table = t /\ c.at = "user" => c = NoFdCall(t)
      /\ ~fdShared => /\ c.at \in Borrowing => row[c.f] = c.fd
                      /\ c.at \in Storing => row[c.to] = "none"
  BY DEF t, row
<1> QED  BY <1>1, <1>2, <1>3, <1>4, <1>5, CallStep DEF t

(* A file that an entry names, or that a call keeps, has references.       *)
LEMMA Referenced ==
  ASSUME FdState, NEW x \in FileObjs,
         \/ \E t \in FdTables : \E f \in FdNums : fdSlots[t][f] = x
         \/ \E p \in FdThreads : Keeps(fdThread[p], x)
  PROVE  fileRefs[x] # 0
<1>1. fileRefs[x] = Cardinality(Named(fdSlots, x)) + Cardinality(Holders(fdThread, x))
  BY CountedMeans DEF FdState
<1>2. PICK u \in FdTables : TRUE
  BY DEF FdState, FdSizes
<1>3. /\ IsFiniteSet(Named(fdSlots, x)) /\ Cardinality(Named(fdSlots, x)) \in Nat
      /\ IsFiniteSet(Holders(fdThread, x)) /\ Cardinality(Holders(fdThread, x)) \in Nat
  BY <1>2, FiniteCounts DEF FdState
<1>4. Named(fdSlots, x) # {} \/ Holders(fdThread, x) # {}
  <2>1. CASE \E t \in FdTables : \E f \in FdNums : fdSlots[t][f] = x
    <3>1. PICK t \in FdTables, f \in FdNums : fdSlots[t][f] = x
      BY <2>1
    <3>2. <<t, f>> \in Named(fdSlots, x)
      BY <3>1 DEF Named
    <3> QED  BY <3>2
  <2>2. CASE \E p \in FdThreads : Keeps(fdThread[p], x)
    BY <2>2 DEF Holders
  <2> QED  BY <2>1, <2>2
<1>5. Cardinality(Named(fdSlots, x)) # 0 \/ Cardinality(Holders(fdThread, x)) # 0
  BY <1>3, <1>4, FS_EmptySet
<1> QED  BY <1>1, <1>3, <1>5

(* With a table of its own a thread borrows no file that is gone.          *)
LEMMA NotStale ==
  ASSUME FdState, NEW p \in FdThreads, fdThread[p].at # "user", ~fdShared
  PROVE  ~Stale(p)
<1>1. FdInCall(p, fdThread[p].at)
  BY DEF FdState, Calls, FdInCall, Table
<1>2. Table(p) \in FdTables /\ Borrowed(p) \in FileObjs /\ fdThread[p] \in ThreadRec
  BY <1>1, InCall
<1>3. CASE fdThread[p].at \in Borrowing
  <2>1. fdThread[p].f \in FdNums /\ fdSlots[Table(p)][fdThread[p].f] = Borrowed(p)
    BY <1>3 DEF FdState, Calls, Alone
  <2> QED  BY <1>2, <2>1, Referenced DEF Stale
<1>4. CASE fdThread[p].at \in Keeping
  <2>1. Keeps(fdThread[p], Borrowed(p))
    BY <1>4 DEF Keeps, Borrowed
  <2> QED  BY <1>2, <2>1, Referenced DEF Stale
<1> QED  BY <1>2, <1>3, <1>4 DEF ThreadRec

(* The first step of a call: the file is where it was found.               *)
LEMMA GetKeeps ==
  ASSUME FdState, NEW p \in FdThreads, NEW op \in Borrowing, NEW f \in FdNums, NEW to \in Nat,
         op \in {"dup3", "dupfd"} => to \in FdNums, Get(p, op, f, to)
  PROVE  Sound'
<1> DEFINE t == Table(p)
           c == [fdThread[p] EXCEPT !.at = op, !.f = f, !.to = to, !.fd = fdSlots[t][f]]
<1>1. /\ FdInCall(p, "user") /\ fdSlots[t][f] # "none" /\ fdThread' = [fdThread EXCEPT ![p] = c]
      /\ UNCHANGED <<fileRefs, fdSlots, cloexec, fdShared>>
  BY DEF Get
<1>2. /\ t \in FdTables /\ fdThread[p] \in ThreadRec /\ fdThread[p].table = t
      /\ fdSlots[t] \in [FdNums -> FileObjs \cup {"none"}] /\ fdThread[p].at = "user"
      /\ fdThread[p].fd = "none"
  <2>1. /\ t \in FdTables /\ fdThread[p] \in ThreadRec /\ fdThread[p].table = t
        /\ fdSlots[t] \in [FdNums -> FileObjs \cup {"none"}] /\ fdThread[p].at = "user"
        /\ fdThread[p] = NoFdCall(t)
    BY <1>1, InCall
  <2> QED  BY <2>1, Returned
<1>3. f \in Nat
  BY DEF FdState, FdSizes
<1>4. /\ c \in ThreadRec /\ c.table = t /\ c.at = op /\ c.f = f /\ c.to = to /\ c.fd = fdSlots[t][f]
  BY <1>2, <1>3 DEF ThreadRec
<1>5. op \notin Keeping /\ op \notin Storing /\ op # "user"
  BY DEF Borrowing, Keeping, Storing
<1> HIDE DEF c
<1>6. \A x \in FileObjs : fileRefs'[x] = fileRefs[x] - One(Keeps(fdThread[p], x)) + One(Keeps(c, x))
  <2> TAKE x \in FileObjs
  <2>1. ~Keeps(fdThread[p], x) /\ ~Keeps(c, x)
    BY <1>2, <1>4, <1>5 DEF Keeps, Keeping
  <2>2. fileRefs[x] \in Nat
    BY DEF FdState, FdTypes
  <2> QED  BY <1>1, <2>1, <2>2 DEF One
<1>7. fileRefs' = [x \in FileObjs |-> fileRefs'[x]]
  BY <1>1 DEF FdState, FdTypes
<1> QED  BY <1>1, <1>2, <1>4, <1>5, <1>6, <1>7, GoingOn

(* A call that returns without a reference of its own.                     *)
LEMMA ReturnKeeps ==
  ASSUME FdState, NEW p \in FdThreads, NEW at \in Borrowing, FdInCall(p, at), Return(p),
         UNCHANGED <<fileRefs, fdSlots, cloexec, fdShared>>
  PROVE  Sound'
<1> DEFINE t == Table(p)  c == NoFdCall(t)
<1>1. t \in FdTables /\ fdThread[p].at = at /\ fdThread' = [fdThread EXCEPT ![p] = c]
  BY InCall DEF Return
<1>2. /\ c \in ThreadRec /\ c.at = "user" /\ c.table = t /\ c.fd = "none"
      /\ c.at \notin {"dup3", "dupfd"} \cup Storing \cup Borrowing
      /\ \A x : ~Keeps(c, x)
  BY <1>1, Returned
<1>3. \A x : ~Keeps(fdThread[p], x)
  BY <1>1 DEF Keeps, Keeping, Borrowing
<1> HIDE DEF c
<1>4. \A x \in FileObjs : fileRefs'[x] = fileRefs[x] - One(Keeps(fdThread[p], x)) + One(Keeps(c, x))
  BY <1>2, <1>3 DEF One, FdState, FdTypes
<1>5. fileRefs' = [x \in FileObjs |-> fileRefs'[x]]
  BY DEF FdState, FdTypes
<1> QED  BY <1>1, <1>2, <1>4, <1>5, GoingOn DEF c

(* use: a race or nothing.                                                 *)
LEMMA UseKeeps ==
  ASSUME FdState, NEW p \in FdThreads, Use(p)
  PROVE  Sound' /\ (fdRaced' => fdRaced \/ fdShared')
<1>1. Sound'
  BY ReturnKeeps DEF Use, Borrowing
<1>2. fdThread[p].at # "user"
  BY DEF Use, FdInCall
<1> QED  BY <1>1, <1>2, NotStale DEF Use

(* The file that a call has goes into the entry to, which is free.  The    *)
(* call kept the reference before.                                         *)
LEMMA StoreKeeps ==
  ASSUME FdState, NEW p \in FdThreads, NEW at \in Storing, FdInCall(p, at), Return(p),
         NEW to, to = fdThread[p].to, fdSlots[Table(p)][to] = "none",
         fdSlots' = [fdSlots EXCEPT ![Table(p)][to] = Borrowed(p)],
         NEW bits, bits \subseteq cloexec[Table(p)] \cup {to},
         cloexec' = [cloexec EXCEPT ![Table(p)] = bits],
         UNCHANGED <<fileRefs, fdShared>>
  PROVE  Sound'
<1> DEFINE t == Table(p)  y == Borrowed(p)
           row == [fdSlots[t] EXCEPT ![to] = y]  c == NoFdCall(t)
<1>1. /\ t \in FdTables /\ fdThread[p].at = at /\ y \in FileObjs
      /\ fdSlots[t] \in [FdNums -> FileObjs \cup {"none"}] /\ cloexec[t] \in SUBSET FdNums
  BY InCall DEF Storing
<1>2. to \in FdNums
  BY <1>1 DEF FdState, Calls
<1>3. /\ row \in [FdNums -> FileObjs \cup {"none"}] /\ bits \in SUBSET FdNums
      /\ fdSlots' = [fdSlots EXCEPT ![t] = row] /\ fdThread' = [fdThread EXCEPT ![p] = c]
  BY <1>1, <1>2 DEF Return
<1>4. \A g \in bits : row[g] # "none"
  <2>1. y # "none"
    BY <1>1 DEF FdState, FdSizes
  <2>2. \A g \in cloexec[t] : fdSlots[t][g] # "none"
    BY <1>1 DEF FdState, Tables
  <2> QED  BY <1>1, <1>2, <2>1, <2>2
<1>5. /\ c \in ThreadRec /\ c.at = "user" /\ c.table = t
      /\ c.at \notin {"dup3", "dupfd"} \cup Storing \cup Borrowing
      /\ \A x : ~Keeps(c, x)
  BY <1>1, Returned
<1>6. fileRefs' = [x \in FileObjs |-> fileRefs'[x]]
  BY DEF FdState, FdTypes
<1>7. ASSUME NEW x \in FileObjs PROVE Balance(x, t, p, fileRefs'[x], row, c)
  <2>1. Cardinality(Row(row, x)) =
          Cardinality(Row(fdSlots[t], x)) - One(fdSlots[t][to] = x) + One(y = x)
    <3>1. row[to] = y /\ \A g \in FdNums \ {to} : row[g] = fdSlots[t][g]
      BY <1>1, <1>2
    <3> HIDE DEF row
    <3> QED  BY <1>1, <1>2, <3>1, RowSet DEF FdState
  <2>2. One(fdSlots[t][to] = x) = 0 /\ One(Keeps(c, x)) = 0
    BY <1>5 DEF One, FdState, FdSizes
  <2>3. One(Keeps(fdThread[p], x)) = One(y = x) /\ One(y = x) \in Nat
    BY <1>1 DEF One, Keeps, Keeping, Storing, Borrowed
  <2>4. /\ Cardinality(Row(fdSlots[t], x)) \in Nat /\ Cardinality(Row(row, x)) \in Nat
        /\ fileRefs[x] \in Nat
    BY <1>1, Numbers
  <2> HIDE DEF row, c, y
  <2> QED  BY <2>1, <2>2, <2>3, <2>4 DEF Balance
<1> HIDE DEF row, c, t
<1>8. c = NoFdCall(t) /\ cloexec' = [cloexec EXCEPT ![t] = bits]
  BY DEF c, t
<1> QED  BY <1>1, <1>3, <1>4, <1>5, <1>6, <1>7, <1>8, CallStep DEF t

(* The store of dup3 and that of F_DUPFD: a race when the entry has been   *)
(* taken meanwhile.                                                        *)
LEMMA StoresKeep ==
  ASSUME FdState, NEW p \in FdThreads, NEW exec \in BOOLEAN,
         Dup3Store(p, exec) \/ DupfdStore(p, exec)
  PROVE  (~fdRaced' => Sound') /\ (fdRaced' => fdRaced \/ fdShared')
<1> DEFINE to == fdThread[p].to
<1>1. PICK at \in Storing : FdInCall(p, at)
  BY DEF Dup3Store, DupfdStore, Storing
<1>2. Return(p) /\ UNCHANGED <<fileRefs, fdShared>>
  BY DEF Dup3Store, DupfdStore
<1>3. /\ fdRaced' = (fdRaced \/ fdSlots[Table(p)][to] # "none")
      /\ fdSlots' = [fdSlots EXCEPT ![Table(p)][to] = Borrowed(p)]
  BY DEF Dup3Store, DupfdStore
<1>4. \E bits : /\ bits \subseteq cloexec[Table(p)] \cup {to}
                /\ cloexec' = [cloexec EXCEPT ![Table(p)] = bits]
  <2> DEFINE same == cloexec[Table(p)]
  <2>1. CASE exec
    <3>1. cloexec' = [cloexec EXCEPT ![Table(p)] = same \cup {to}]
      BY <2>1 DEF Dup3Store, DupfdStore
    <3> QED  BY <3>1
  <2>2. CASE ~exec /\ Dup3Store(p, exec)
    <3>1. cloexec' = [cloexec EXCEPT ![Table(p)] = same]
      BY <2>2 DEF Dup3Store
    <3> QED  BY <3>1
  <2>3. CASE ~exec /\ DupfdStore(p, exec)
    <3>1. cloexec' = [cloexec EXCEPT ![Table(p)] = same \ {to}]
      BY <2>3 DEF DupfdStore
    <3> QED  BY <3>1
  <2> QED  BY <2>1, <2>2, <2>3
<1>5. ASSUME ~fdRaced' PROVE Sound'
  <2>1. fdSlots[Table(p)][to] = "none"
    BY <1>3, <1>5
  <2> QED  BY <1>1, <1>2, <1>3, <1>4, <2>1, StoreKeeps
<1>6. ASSUME ~fdShared PROVE fdSlots[Table(p)][to] = "none"
  BY <1>1, <1>6 DEF FdState, Alone, FdInCall
<1> QED  BY <1>2, <1>3, <1>5, <1>6

(* dup: one more entry and one more reference, when a number is free.      *)
LEMMA DupKeeps ==
  ASSUME FdState, NEW p \in FdThreads, Dup(p)
  PROVE  Sound' /\ (fdRaced' => fdRaced \/ fdShared')
<1> DEFINE t == Table(p)  free == FreeFrom(fdSlots[t], 0)  y == Borrowed(p)  f == Min(free)
           row == [fdSlots[t] EXCEPT ![f] = y]  c == NoFdCall(t)  bits == cloexec[t] \ {f}
<1>1. /\ FdInCall(p, "dup") /\ Return(p) /\ UNCHANGED fdShared
      /\ fdRaced' = (fdRaced \/ Stale(p))
  BY DEF Dup
<1>2. /\ t \in FdTables /\ fdThread[p].at = "dup" /\ y \in FileObjs
      /\ fdSlots[t] \in [FdNums -> FileObjs \cup {"none"}] /\ cloexec[t] \in SUBSET FdNums
      /\ y # "none"
  BY <1>1, InCall DEF FdState, FdSizes
<1>3. fdRaced' => fdRaced \/ fdShared'
  BY <1>1, <1>2, NotStale
<1>4. CASE free = {}
  <2>1. /\ fileRefs' = [fileRefs EXCEPT ![y] = @ + 0] /\ fdSlots' = fdSlots
        /\ cloexec' = [cloexec EXCEPT ![t] = @]
    BY <1>4 DEF Dup
  <2>2. fileRefs' = fileRefs /\ cloexec' = cloexec
    BY <1>2, <2>1 DEF FdState, FdTypes
  <2>3. "dup" \in Borrowing
    BY DEF Borrowing
  <2> QED  BY <1>1, <1>3, <2>1, <2>2, <2>3, ReturnKeeps
<1>5. CASE free # {}
  <2>1. f \in FdNums /\ fdSlots[t][f] = "none"
    BY <1>2, <1>5, FirstFree
  <2>2. /\ fileRefs' = [fileRefs EXCEPT ![y] = @ + 1]
        /\ fdSlots' = [fdSlots EXCEPT ![t][f] = y]
        /\ cloexec' = [cloexec EXCEPT ![t] = @ \ {f}]
    BY <1>5 DEF Dup
  <2>3. /\ row \in [FdNums -> FileObjs \cup {"none"}] /\ bits \in SUBSET FdNums
        /\ fdSlots' = [fdSlots EXCEPT ![t] = row] /\ fdThread' = [fdThread EXCEPT ![p] = c]
        /\ cloexec' = [cloexec EXCEPT ![t] = bits]
    BY <1>1, <1>2, <2>1, <2>2 DEF Return
  <2>4. \A g \in bits : row[g] # "none"
    <3>1. \A g \in cloexec[t] : fdSlots[t][g] # "none"
      BY <1>2 DEF FdState, Tables
    <3> QED  BY <1>2, <2>1, <3>1
  <2>5. /\ c \in ThreadRec /\ c.at = "user" /\ c.table = t
        /\ c.at \notin {"dup3", "dupfd"} \cup Storing \cup Borrowing
        /\ \A x : ~Keeps(c, x)
    BY <1>2, Returned
  <2>6. fileRefs' = [x \in FileObjs |-> fileRefs'[x]]
    BY <2>2 DEF FdState, FdTypes
  <2>7. ASSUME NEW x \in FileObjs PROVE Balance(x, t, p, fileRefs'[x], row, c)
    <3>1. Cardinality(Row(row, x)) =
            Cardinality(Row(fdSlots[t], x)) - One(fdSlots[t][f] = x) + One(y = x)
      <4>1. row[f] = y /\ \A g \in FdNums \ {f} : row[g] = fdSlots[t][g]
        BY <1>2, <2>1
      <4> HIDE DEF row, f
      <4> QED  BY <1>2, <2>1, <4>1, RowSet DEF FdState
    <3>2. /\ One(fdSlots[t][f] = x) = 0 /\ One(Keeps(c, x)) = 0 /\ One(Keeps(fdThread[p], x)) = 0
          /\ One(y = x) \in Nat
      BY <1>2, <2>1, <2>5 DEF One, FdState, FdSizes, Keeps, Keeping
    <3>3. fileRefs'[x] = fileRefs[x] + One(y = x)
      BY <1>2, <2>2 DEF One, FdState, FdTypes
    <3>4. /\ Cardinality(Row(fdSlots[t], x)) \in Nat /\ Cardinality(Row(row, x)) \in Nat
          /\ fileRefs[x] \in Nat
      BY <1>2, Numbers
    <3> HIDE DEF row, c, y
    <3> QED  BY <3>1, <3>2, <3>3, <3>4 DEF Balance
  <2> HIDE DEF row, c, t, bits
  <2>8. c = NoFdCall(t)
    BY DEF c
  <2>9. Sound'
    BY <1>1, <1>2, <2>3, <2>4, <2>5, <2>6, <2>7, <2>8, CallStep DEF t
  <2> QED  BY <1>3, <2>9
<1> QED  BY <1>4, <1>5

(* dup3 takes a reference and closes the entry to; the call keeps the      *)
(* reference.                                                              *)
LEMMA Dup3CloseKeeps ==
  ASSUME FdState, NEW p \in FdThreads, Dup3Close(p)
  PROVE  Sound' /\ (fdRaced' => fdRaced \/ fdShared')
<1> DEFINE t == Table(p)  to == fdThread[p].to  y == Borrowed(p)
           row == Emptied(fdSlots[t], {to})  bits == cloexec[t] \ {to}
           c == [fdThread[p] EXCEPT !.at = "dup3_store"]
           kept == [fileRefs EXCEPT ![y] = @ + 1]
<1>1. /\ FdInCall(p, "dup3") /\ fdRaced' = (fdRaced \/ Stale(p)) /\ UNCHANGED fdShared
      /\ fileRefs' = FdClosed(kept, fdSlots[t], {to})
      /\ fdSlots' = [fdSlots EXCEPT ![t] = Emptied(@, {to})]
      /\ cloexec' = [cloexec EXCEPT ![t] = @ \ {to}]
      /\ fdThread' = [fdThread EXCEPT ![p].at = "dup3_store"]
  BY DEF Dup3Close
<1>2. /\ t \in FdTables /\ fdThread[p].at = "dup3" /\ y \in FileObjs
      /\ fdSlots[t] \in [FdNums -> FileObjs \cup {"none"}] /\ cloexec[t] \in SUBSET FdNums
      /\ fdThread[p] \in ThreadRec /\ fdThread[p].table = t
  BY <1>1, InCall
<1>3. y # "none" /\ to \in FdNums
  BY <1>2 DEF FdState, FdSizes, Calls
<1>4. fdRaced' => fdRaced \/ fdShared'
  BY <1>1, <1>2, NotStale
<1>5. /\ row \in [FdNums -> FileObjs \cup {"none"}] /\ bits \in SUBSET FdNums
      /\ fdSlots' = [fdSlots EXCEPT ![t] = row] /\ cloexec' = [cloexec EXCEPT ![t] = bits]
      /\ row[to] = "none"
  BY <1>1, <1>2, <1>3 DEF Emptied
<1>6. \A g \in bits : row[g] # "none"
  <2>1. \A g \in cloexec[t] : fdSlots[t][g] # "none"
    BY <1>2 DEF FdState, Tables
  <2> QED  BY <1>2, <2>1 DEF Emptied
<1>7. fdThread' = [fdThread EXCEPT ![p] = c]
  BY <1>1 DEF FdState, FdTypes
<1>8. /\ c \in ThreadRec /\ c.at = "dup3_store" /\ c.table = t /\ c.fd = y /\ c.to = to
  BY <1>2 DEF ThreadRec, Keeping, Borrowed
<1> HIDE DEF c
<1>9. ASSUME NEW x \in FileObjs PROVE Balance(x, t, p, fileRefs'[x], row, c)
  <2>1. /\ Cardinality({f \in {to} : fdSlots[t][f] = x}) \in Nat
        /\ Cardinality(Row(row, x)) =
             Cardinality(Row(fdSlots[t], x)) - Cardinality({f \in {to} : fdSlots[t][f] = x})
    <3>1. FdSizes /\ {to} \in SUBSET FdNums /\ fdSlots[t] \in [FdNums -> FileObjs \cup {"none"}]
      BY <1>2, <1>3 DEF FdState
    <3> HIDE DEF t, to, y, kept
    <3> QED  BY <3>1, RowEmptied
  <2>2. kept[x] = fileRefs[x] + One(y = x)
    BY <1>2 DEF One, FdState, FdTypes
  <2>3. fileRefs'[x] = kept[x] - Cardinality({f \in {to} : fdSlots[t][f] = x})
    BY <1>1 DEF FdClosed
  <2>4. One(Keeps(fdThread[p], x)) = 0 /\ One(Keeps(c, x)) = One(y = x) /\ One(y = x) \in Nat
    BY <1>2, <1>8 DEF One, Keeps, Keeping
  <2>5. /\ Cardinality(Row(fdSlots[t], x)) \in Nat /\ Cardinality(Row(row, x)) \in Nat
        /\ fileRefs[x] \in Nat
    BY <1>2, Numbers
  <2> HIDE DEF row, y, kept, t, to
  <2> QED  BY <2>1, <2>2, <2>3, <2>4, <2>5 DEF Balance
<1>10. fileRefs' = [x \in FileObjs |-> fileRefs'[x]]
  BY <1>1 DEF FdClosed
<1>11. /\ c.at = "user" => c = NoFdCall(t)
       /\ c.at # "user" => c.fd # "none"
       /\ c.at \in Borrowing => c.f \in FdNums
       /\ c.at \in {"dup3", "dupfd"} \cup Storing => c.to \in FdNums
       /\ ~fdShared => /\ c.at \in Borrowing => row[c.f] = c.fd
                       /\ c.at \in Storing => row[c.to] = "none"
  BY <1>3, <1>5, <1>8 DEF Borrowing
<1>12. fdShared' = fdShared
  BY <1>1
<1> HIDE DEF row, t, bits, y, to
<1>13. Sound'
  BY <1>2, <1>5, <1>6, <1>7, <1>8, <1>9, <1>10, <1>11, <1>12, CallStep DEF t
<1> QED  BY <1>4, <1>13

(* F_DUPFD looks for a number, and takes the reference when there is one.  *)
LEMMA DupfdSearchKeeps ==
  ASSUME FdState, NEW p \in FdThreads, DupfdSearch(p)
  PROVE  Sound' /\ (fdRaced' => fdRaced \/ fdShared')
<1> DEFINE t == Table(p)  free == FreeFrom(fdSlots[t], fdThread[p].to)  y == Borrowed(p)
           f == Min(free)
           c == [fdThread[p] EXCEPT !.at = "dupfd_store", !.to = f]
<1>1. /\ FdInCall(p, "dupfd") /\ fdRaced' = (fdRaced \/ Stale(p))
      /\ UNCHANGED <<fdSlots, cloexec, fdShared>>
  BY DEF DupfdSearch
<1>2. /\ t \in FdTables /\ fdThread[p].at = "dupfd" /\ y \in FileObjs
      /\ fdSlots[t] \in [FdNums -> FileObjs \cup {"none"}]
      /\ fdThread[p] \in ThreadRec /\ fdThread[p].table = t
  BY <1>1, InCall
<1>3. fdRaced' => fdRaced \/ fdShared'
  BY <1>1, <1>2, NotStale
<1>4. CASE free = {}
  <2>1. Return(p) /\ UNCHANGED fileRefs
    BY <1>4 DEF DupfdSearch
  <2>2. "dupfd" \in Borrowing
    BY DEF Borrowing
  <2> QED  BY <1>1, <1>3, <2>1, <2>2, ReturnKeeps
<1>5. CASE free # {}
  <2>1. f \in FdNums /\ fdSlots[t][f] = "none"
    BY <1>2, <1>5, FirstFree
  <2>2. /\ fileRefs' = [fileRefs EXCEPT ![y] = @ + 1]
        /\ fdThread' = [fdThread EXCEPT ![p].at = "dupfd_store", ![p].to = f]
    BY <1>5 DEF DupfdSearch
  <2>3. fdThread' = [fdThread EXCEPT ![p] = c]
    BY <2>2 DEF FdState, FdTypes
  <2>4. f \in Nat /\ y # "none"
    BY <1>2, <2>1 DEF FdState, FdSizes
  <2>5. /\ c \in ThreadRec /\ c.at = "dupfd_store" /\ c.table = t /\ c.fd = y /\ c.to = f
    BY <1>2, <2>4 DEF ThreadRec, Keeping, Borrowed
  <2>6. fileRefs' = [x \in FileObjs |-> fileRefs'[x]]
    BY <2>2 DEF FdState, FdTypes
  <2> HIDE DEF c
  <2>7. \A x \in FileObjs : fileRefs'[x] = fileRefs[x] - One(Keeps(fdThread[p], x)) + One(Keeps(c, x))
    <3> TAKE x \in FileObjs
    <3>1. One(Keeps(fdThread[p], x)) = 0 /\ One(Keeps(c, x)) = One(y = x) /\ One(y = x) \in Nat
      BY <1>2, <2>5 DEF One, Keeps, Keeping
    <3>2. fileRefs'[x] = fileRefs[x] + One(y = x) /\ fileRefs[x] \in Nat
      BY <1>2, <2>2 DEF One, FdState, FdTypes
    <3> QED  BY <3>1, <3>2
  <2>8. "dupfd_store" \notin Borrowing
    BY DEF Borrowing
  <2> HIDE DEF y, f
  <2>9. Sound'
    BY <1>1, <1>2, <2>1, <2>3, <2>4, <2>5, <2>6, <2>7, <2>8, GoingOn
  <2> QED  BY <1>3, <2>9
<1> QED  BY <1>4, <1>5

(* F_SETFD: a race when the number has been closed meanwhile.              *)
LEMMA SetFdKeeps ==
  ASSUME FdState, NEW p \in FdThreads, SetFd(p)
  PROVE  (~fdRaced' => Sound') /\ (fdRaced' => fdRaced \/ fdShared')
<1> DEFINE t == Table(p)  f == fdThread[p].f  row == fdSlots[t]  c == NoFdCall(t)
           bits == cloexec[t] \cup {f}
<1>1. /\ FdInCall(p, "setfd") /\ Return(p) /\ UNCHANGED <<fileRefs, fdSlots, fdShared>>
      /\ cloexec' = [cloexec EXCEPT ![t] = bits]
      /\ fdRaced' = (fdRaced \/ row[f] = "none")
  BY DEF SetFd
<1>2. /\ t \in FdTables /\ fdThread[p].at = "setfd" /\ Borrowed(p) \in FileObjs
      /\ row \in [FdNums -> FileObjs \cup {"none"}] /\ cloexec[t] \in SUBSET FdNums
  BY <1>1, InCall
<1>3. f \in FdNums /\ (~fdShared => row[f] # "none")
  BY <1>2 DEF FdState, FdSizes, Calls, Alone, Borrowing
<1>4. ASSUME row[f] # "none" PROVE Sound'
  <2>1. \A g \in bits : row[g] # "none"
    BY <1>2, <1>4 DEF FdState, Tables
  <2>2. fdSlots' = [fdSlots EXCEPT ![t] = row] /\ fdThread' = [fdThread EXCEPT ![p] = c]
    BY <1>1 DEF Return, FdState, FdTypes
  <2>3. /\ c \in ThreadRec /\ c.at = "user" /\ c.table = t
        /\ c.at \notin {"dup3", "dupfd"} \cup Storing \cup Borrowing
        /\ \A x : ~Keeps(c, x)
    BY <1>2, Returned
  <2>4. fileRefs' = [x \in FileObjs |-> fileRefs'[x]]
    BY <1>1 DEF FdState, FdTypes
  <2>5. ASSUME NEW x \in FileObjs PROVE Balance(x, t, p, fileRefs'[x], row, c)
    <3>1. Cardinality(Row(row, x)) \in Nat /\ fileRefs[x] \in Nat
      BY <1>2, Numbers
    <3>2. One(Keeps(fdThread[p], x)) = 0 /\ One(Keeps(c, x)) = 0
      BY <1>2, <2>3 DEF One, Keeps, Keeping
    <3> HIDE DEF c
    <3> QED  BY <1>1, <3>1, <3>2 DEF Balance
  <2>6. bits \in SUBSET FdNums /\ c = NoFdCall(t)
    BY <1>2, <1>3
  <2> HIDE DEF c, row, bits, t
  <2> QED  BY <1>1, <1>2, <2>1, <2>2, <2>3, <2>4, <2>5, <2>6, CallStep DEF t
<1> QED  BY <1>1, <1>3, <1>4

(* poll takes a reference for as long as it waits.                         *)
LEMMA PollRetainKeeps ==
  ASSUME FdState, NEW p \in FdThreads, NEW f \in FdNums, PollRetain(p, f)
  PROVE  Sound'
<1> DEFINE t == Table(p)  y == fdSlots[t][f]
           c == [fdThread[p] EXCEPT !.at = "poll", !.fd = y]
<1>1. /\ FdInCall(p, "user") /\ y # "none" /\ UNCHANGED <<fdSlots, cloexec, fdShared>>
      /\ fileRefs' = [fileRefs EXCEPT ![y] = @ + 1]
      /\ fdThread' = [fdThread EXCEPT ![p] = c]
  BY DEF PollRetain
<1>2. /\ t \in FdTables /\ fdThread[p] \in ThreadRec /\ fdThread[p].table = t
      /\ fdSlots[t] \in [FdNums -> FileObjs \cup {"none"}] /\ fdThread[p] = NoFdCall(t)
  BY <1>1, InCall
<1>3. y \in FileObjs
  BY <1>1, <1>2
<1>4. c \in ThreadRec /\ c.at = "poll" /\ c.table = t /\ c.fd = y
  BY <1>2, <1>3 DEF ThreadRec, Keeping
<1>5. fileRefs' = [x \in FileObjs |-> fileRefs'[x]]
  BY <1>1 DEF FdState, FdTypes
<1> HIDE DEF c
<1>6. \A x \in FileObjs : fileRefs'[x] = fileRefs[x] - One(Keeps(fdThread[p], x)) + One(Keeps(c, x))
  <2> TAKE x \in FileObjs
  <2>1. ~Keeps(fdThread[p], x)
    BY <1>2, Returned
  <2>2. fileRefs'[x] = fileRefs[x] + One(y = x) /\ fileRefs[x] \in Nat
    BY <1>1, <1>3 DEF One, FdState, FdTypes
  <2>3. One(Keeps(fdThread[p], x)) = 0 /\ One(Keeps(c, x)) = One(y = x) /\ One(y = x) \in Nat
    BY <1>4, <2>1 DEF One, Keeps, Keeping
  <2> HIDE DEF y
  <2> QED  BY <2>2, <2>3
<1>7. /\ c \in ThreadRec /\ c.at # "user" /\ c.fd # "none" /\ c.table = Table(p)
      /\ c.at \notin Borrowing /\ c.at \notin Storing /\ c.at \notin {"dup3", "dupfd"} \cup Storing
  BY <1>1, <1>4 DEF Borrowing, Storing
<1>8. /\ FdInCall(p, "user") /\ UNCHANGED <<fdSlots, cloexec, fdShared>>
      /\ fdThread' = [fdThread EXCEPT ![p] = c]
  BY <1>1
<1> HIDE DEF y, t
<1> QED  BY <1>5, <1>6, <1>7, <1>8, GoingOn

(* ... and gives it back.                                                  *)
LEMMA PollReleaseKeeps ==
  ASSUME FdState, NEW p \in FdThreads, PollRelease(p)
  PROVE  Sound'
<1> DEFINE t == Table(p)  y == Borrowed(p)  c == NoFdCall(t)
<1>1. /\ FdInCall(p, "poll") /\ UNCHANGED <<fdSlots, cloexec, fdShared>>
      /\ fileRefs' = [fileRefs EXCEPT ![y] = @ - 1]
      /\ fdThread' = [fdThread EXCEPT ![p] = c]
  BY DEF PollRelease, Return
<1>2. /\ t \in FdTables /\ fdThread[p].at = "poll" /\ y \in FileObjs
  BY <1>1, InCall
<1>3. /\ c \in ThreadRec /\ c.at = "user" /\ c.table = t
      /\ c.at \notin {"dup3", "dupfd"} \cup Storing \cup Borrowing
      /\ \A x : ~Keeps(c, x)
  BY <1>2, Returned
<1>4. fileRefs' = [x \in FileObjs |-> fileRefs'[x]]
  BY <1>1 DEF FdState, FdTypes
<1>5. \A x \in FileObjs : fileRefs'[x] = fileRefs[x] - One(Keeps(fdThread[p], x)) + One(Keeps(c, x))
  <2> TAKE x \in FileObjs
  <2>1. fileRefs'[x] = fileRefs[x] - One(y = x) /\ fileRefs[x] \in Nat
    BY <1>1, <1>2 DEF One, FdState, FdTypes
  <2>2. One(Keeps(fdThread[p], x)) = One(y = x) /\ One(Keeps(c, x)) = 0 /\ One(y = x) \in Nat
    BY <1>2, <1>3 DEF One, Keeps, Keeping, Borrowed
  <2> HIDE DEF y, c
  <2> QED  BY <2>1, <2>2
<1>6. /\ FdInCall(p, "poll") /\ UNCHANGED <<fdSlots, cloexec, fdShared>>
      /\ fdThread' = [fdThread EXCEPT ![p] = c]
      /\ c.table = Table(p) /\ c = NoFdCall(Table(p))
  BY <1>1, <1>3
<1>7. /\ c \in ThreadRec /\ c.at = "user"
      /\ c.at \notin Borrowing /\ c.at \notin Storing /\ c.at \notin {"dup3", "dupfd"} \cup Storing
  BY <1>3
<1> HIDE DEF y, c, t
<1> QED  BY <1>4, <1>5, <1>6, <1>7, GoingOn

---------------------------------------------------------------------------
(* A thread that does not exist is in no call.                             *)
LEMMA NoThread ==
  /\ Gone \in ThreadRec /\ Gone.at = "user" /\ Gone.table = "none" /\ Gone.fd = "none"
  /\ Gone = NoFdCall("none") /\ \A x : ~Keeps(Gone, x)
BY DEF Gone, NoFdCall, ThreadRec, Keeps, Keeping

(* clone with CLONE_FILES: a second user, and from now on anything goes.   *)
LEMMA CloneFilesKeeps ==
  ASSUME FdState, NEW p \in FdThreads, NEW q \in FdThreads, CloneFiles(p, q)
  PROVE  Sound'
<1> DEFINE t == Table(p)  c == NoFdCall(t)
<1>1. /\ FdInCall(p, "user") /\ fdThread[q] = Gone /\ fdThread' = [fdThread EXCEPT ![q] = c]
      /\ fdShared' = TRUE /\ UNCHANGED <<fileRefs, fdSlots, cloexec>>
  BY DEF CloneFiles
<1>2. t \in FdTables
  BY <1>1, InCall
<1>3. /\ c \in ThreadRec /\ c.at = "user" /\ c.table = t /\ c.fd = "none" /\ c = NoFdCall(c.table)
      /\ c.at \notin {"dup3", "dupfd"} \cup Storing /\ c.at \notin Borrowing
      /\ \A x : ~Keeps(c, x)
  BY <1>2, Returned
<1> HIDE DEF c
<1>4. /\ fdThread \in [FdThreads -> ThreadRec] /\ fdThread'[q] = c
      /\ \A r \in FdThreads \ {q} : fdThread'[r] = fdThread[r]
  BY <1>1 DEF FdState, FdTypes
<1>5. ASSUME NEW x \in FileObjs PROVE Balance(x, t, q, fileRefs'[x], fdSlots'[t], fdThread'[q])
  <2>1. Cardinality(Row(fdSlots[t], x)) \in Nat /\ fileRefs[x] \in Nat
    BY <1>2, Numbers
  <2>2. One(Keeps(fdThread[q], x)) = 0 /\ One(Keeps(c, x)) = 0
    BY <1>1, <1>3, NoThread DEF One
  <2> QED  BY <1>1, <1>4, <2>1, <2>2 DEF Balance
<1>6. Counted' /\ fileRefs' \in [FileObjs -> Nat]
  <2>1. FdSizes /\ FdTypes /\ Counted
    BY DEF FdState
  <2>2. fileRefs' = [x \in FileObjs |-> fileRefs'[x]] /\ \A u \in FdTables \ {t} : fdSlots'[u] = fdSlots[u]
    BY <1>1 DEF FdState, FdTypes
  <2> HIDE DEF t
  <2> QED  BY <1>2, <1>4, <1>5, <2>1, <2>2, Recounted
<1>7. FdTypes'
  BY <1>1, <1>3, <1>6 DEF FdState, FdTypes
<1>8. Calls'
  <2> SUFFICES ASSUME NEW r \in FdThreads
               PROVE  /\ fdThread'[r].at = "user" => fdThread'[r] = NoFdCall(fdThread'[r].table)
                      /\ fdThread'[r].at # "user" =>
                           fdThread'[r].table # "none" /\ fdThread'[r].fd # "none"
                      /\ fdThread'[r].at \in Borrowing => fdThread'[r].f \in FdNums
                      /\ fdThread'[r].at \in {"dup3", "dupfd"} \cup Storing =>
                           fdThread'[r].to \in FdNums
    BY DEF Calls, Table, Borrowed, NoFdCall
  <2>1. CASE r = q
    BY <1>3, <1>4, <2>1
  <2>2. CASE r # q
    BY <1>4, <2>2 DEF FdState, Calls, Table, Borrowed
  <2> QED  BY <2>1, <2>2
<1>9. Tables'
  <2>1. ASSUME NEW u \in FdTables, UsersOf(u)' = {} PROVE UsersOf(u) = {}
    <3>1. ASSUME NEW r \in UsersOf(u) PROVE r \in UsersOf(u)'
      <4>1. fdThread[r].table = u /\ r \in FdThreads /\ u # "none"
        BY DEF UsersOf, FdState, FdSizes
      <4>2. r # q
        BY <1>1, <4>1, NoThread
      <4> QED  BY <1>4, <4>1, <4>2 DEF UsersOf
    <3> QED  BY <2>1, <3>1
  <2> QED  BY <1>1, <2>1 DEF FdState, Tables
<1>10. Alone'
  BY <1>1 DEF Alone
<1> QED  BY <1>6, <1>7, <1>8, <1>9, <1>10 DEF Sound

(* fork: the new thread has a table with the same entries, and each counts. *)
LEMMA FdtableCopyKeeps ==
  ASSUME FdState, NEW p \in FdThreads, NEW q \in FdThreads, NEW t \in FdTables, FdtableCopy(p, q, t)
  PROVE  Sound'
<1> DEFINE c == NoFdCall(t)  row == fdSlots[Table(p)]  bits == cloexec[Table(p)]
<1>1. /\ FdInCall(p, "user") /\ fdThread[q] = Gone /\ UsersOf(t) = {}
      /\ fdThread' = [fdThread EXCEPT ![q] = c]
      /\ fdSlots' = [fdSlots EXCEPT ![t] = row] /\ cloexec' = [cloexec EXCEPT ![t] = bits]
      /\ fdShared' = fdShared
  BY DEF FdtableCopy
<1>2. /\ Table(p) \in FdTables /\ row \in [FdNums -> FileObjs \cup {"none"}]
      /\ bits \in SUBSET FdNums
  BY <1>1, InCall
<1>3. /\ c \in ThreadRec /\ c.at = "user" /\ c.table = t /\ c.fd = "none" /\ c = NoFdCall(c.table)
      /\ c.at \notin {"dup3", "dupfd"} \cup Storing /\ c.at \notin Borrowing
      /\ \A x : ~Keeps(c, x)
  BY Returned
<1>4. \A x \in FileObjs : fileRefs'[x] = fileRefs[x] + Cardinality(Row(row, x))
  BY DEF FdtableCopy, Row
<1>5. fileRefs' = [x \in FileObjs |-> fileRefs'[x]]
  BY DEF FdtableCopy
<1>6. \A g \in bits : row[g] # "none"
  BY <1>2 DEF FdState, Tables
<1> HIDE DEF c, row, bits
<1>7. /\ fdThread \in [FdThreads -> ThreadRec]
      /\ fdThread'[q] = c /\ \A r \in FdThreads \ {q} : fdThread'[r] = fdThread[r]
      /\ fdSlots'[t] = row /\ \A u \in FdTables \ {t} : fdSlots'[u] = fdSlots[u]
      /\ cloexec'[t] = bits /\ \A u \in FdTables \ {t} : cloexec'[u] = cloexec[u]
  BY <1>1 DEF FdState, FdTypes
<1>8. ASSUME NEW x \in FileObjs PROVE Balance(x, t, q, fileRefs'[x], fdSlots'[t], fdThread'[q])
  <2>1. /\ Cardinality(Row(fdSlots[t], x)) \in Nat /\ fileRefs[x] \in Nat
        /\ Cardinality(Row(row, x)) \in Nat
    BY Numbers
  <2>2. One(Keeps(fdThread[q], x)) = 0 /\ One(Keeps(c, x)) = 0
    BY <1>1, <1>3, NoThread DEF One
  <2>3. Row(fdSlots[t], x) = {}
    BY <1>1 DEF Row, FdState, FdSizes, Tables
  <2>4. Cardinality(Row(fdSlots[t], x)) = 0
    BY <2>3, FS_EmptySet
  <2> QED  BY <1>4, <1>7, <2>1, <2>2, <2>4 DEF Balance
<1>9. Counted' /\ fileRefs' \in [FileObjs -> Nat]
  <2>1. FdSizes /\ FdTypes /\ Counted
    BY DEF FdState
  <2> QED  BY <1>5, <1>7, <1>8, <2>1, Recounted
<1>10. FdTypes'
  BY <1>1, <1>2, <1>3, <1>9 DEF FdState, FdTypes
<1>11. Calls'
  <2> SUFFICES ASSUME NEW r \in FdThreads
               PROVE  /\ fdThread'[r].at = "user" => fdThread'[r] = NoFdCall(fdThread'[r].table)
                      /\ fdThread'[r].at # "user" =>
                           fdThread'[r].table # "none" /\ fdThread'[r].fd # "none"
                      /\ fdThread'[r].at \in Borrowing => fdThread'[r].f \in FdNums
                      /\ fdThread'[r].at \in {"dup3", "dupfd"} \cup Storing =>
                           fdThread'[r].to \in FdNums
    BY DEF Calls, Table, Borrowed, NoFdCall
  <2>1. CASE r = q
    BY <1>3, <1>7, <2>1
  <2>2. CASE r # q
    BY <1>7, <2>2 DEF FdState, Calls, Table, Borrowed
  <2> QED  BY <2>1, <2>2
<1>12. \A r \in FdThreads \ {q} : fdThread[r].table # t
  BY <1>1 DEF UsersOf
<1>13. Tables'
  <2> SUFFICES ASSUME NEW u \in FdTables
               PROVE  /\ \A f \in cloexec'[u] : fdSlots'[u][f] # "none"
                      /\ UsersOf(u)' = {} => \A f \in FdNums : fdSlots'[u][f] = "none"
    BY DEF Tables
  <2>1. CASE u = t
    <3>1. q \in UsersOf(t)'
      BY <1>3, <1>7 DEF UsersOf
    <3> QED  BY <1>6, <1>7, <2>1, <3>1
  <2>2. CASE u # t
    <3>1. UsersOf(u)' = UsersOf(u)
      <4>1. fdThread[q].table # u /\ fdThread'[q].table # u
        BY <1>1, <1>3, <1>7, <2>2, NoThread DEF FdState, FdSizes
      <4> QED  BY <1>7, <4>1 DEF UsersOf
    <3> QED  BY <1>7, <2>2, <3>1 DEF FdState, Tables
  <2> QED  BY <2>1, <2>2
<1>14. Alone'
  <2> SUFFICES ASSUME ~fdShared
               PROVE  /\ \A r, s \in FdThreads : r # s /\ fdThread'[r].table = fdThread'[s].table
                                                   => fdThread'[r].table = "none"
                      /\ \A r \in FdThreads :
                           /\ fdThread'[r].at \in Borrowing =>
                                fdSlots'[fdThread'[r].table][fdThread'[r].f] = fdThread'[r].fd
                           /\ fdThread'[r].at \in Storing =>
                                fdSlots'[fdThread'[r].table][fdThread'[r].to] = "none"
    BY <1>1 DEF Alone, Borrowed, Table
  <2>1. \A r, s \in FdThreads : r # s /\ fdThread'[r].table = fdThread'[s].table
                                  => fdThread'[r].table = "none"
    <3>1. \A r, s \in FdThreads : r # s /\ fdThread[r].table = fdThread[s].table
                                    => fdThread[r].table = "none"
      BY DEF FdState, Alone, Table
    <3> QED  BY <1>3, <1>7, <1>12, <3>1
  <2>2. ASSUME NEW r \in FdThreads
        PROVE  /\ fdThread'[r].at \in Borrowing =>
                    fdSlots'[fdThread'[r].table][fdThread'[r].f] = fdThread'[r].fd
               /\ fdThread'[r].at \in Storing =>
                    fdSlots'[fdThread'[r].table][fdThread'[r].to] = "none"
    <3>1. CASE r = q
      BY <1>3, <1>7, <3>1
    <3>2. CASE r # q /\ fdThread[r].at = "user"
      BY <1>7, <3>2 DEF Borrowing, Storing
    <3>3. CASE r # q /\ fdThread[r].at # "user"
      <4>1. fdThread[r].table \in FdTables \ {t}
        BY <1>7, <1>12, <3>3 DEF FdState, Calls, Table, ThreadRec
      <4>2. fdSlots'[fdThread'[r].table] = fdSlots[fdThread[r].table] /\ fdThread'[r] = fdThread[r]
        BY <1>7, <3>3, <4>1
      <4> QED  BY <4>2 DEF FdState, Alone, Borrowed, Table
    <3> QED  BY <3>1, <3>2, <3>3
  <2> QED  BY <2>1, <2>2
<1> QED  BY <1>9, <1>10, <1>11, <1>13, <1>14 DEF Sound

(* A thread exits; the last user of a table closes what is in it.          *)
LEMMA ReleaseKeeps ==
  ASSUME FdState, NEW p \in FdThreads, FdtableRelease(p)
  PROVE  Sound'
<1> DEFINE t == Table(p)  fs == IF UsersOf(t) = {p} THEN FdNums ELSE {}
           row == Emptied(fdSlots[t], fs)  bits == cloexec[t] \ fs
<1>1. /\ FdInCall(p, "user") /\ fdThread' = [fdThread EXCEPT ![p] = Gone]
      /\ fdSlots' = [fdSlots EXCEPT ![t] = row] /\ cloexec' = [cloexec EXCEPT ![t] = bits]
      /\ fileRefs' = FdClosed(fileRefs, fdSlots[t], fs)
      /\ fdShared' = fdShared
  BY DEF FdtableRelease
<1>2. /\ t \in FdTables /\ fdSlots[t] \in [FdNums -> FileObjs \cup {"none"}]
      /\ cloexec[t] \in SUBSET FdNums /\ fdThread[p] = NoFdCall(t) /\ fdThread[p].table = t
  BY <1>1, InCall
<1>3. fs \in SUBSET FdNums
  OBVIOUS
<1>4. row \in [FdNums -> FileObjs \cup {"none"}] /\ bits \in SUBSET FdNums
  BY <1>2 DEF Emptied
<1>5. \A g \in bits : row[g] # "none"
  <2>1. \A g \in cloexec[t] : fdSlots[t][g] # "none"
    BY <1>2 DEF FdState, Tables
  <2> QED  BY <1>2, <2>1 DEF Emptied
<1>6. UsersOf(t) = {p} => \A g \in FdNums : row[g] = "none"
  BY DEF Emptied
<1>7. ASSUME NEW x \in FileObjs
      PROVE  /\ Cardinality({f \in fs : fdSlots[t][f] = x}) \in Nat
             /\ Cardinality(Row(row, x)) =
                  Cardinality(Row(fdSlots[t], x)) - Cardinality({f \in fs : fdSlots[t][f] = x})
             /\ fileRefs'[x] = fileRefs[x] - Cardinality({f \in fs : fdSlots[t][f] = x})
  <2> HIDE DEF fs, t
  <2>1. fileRefs'[x] = fileRefs[x] - Cardinality({f \in fs : fdSlots[t][f] = x})
    BY <1>1 DEF FdClosed
  <2> QED  BY <1>2, <1>3, <2>1, RowEmptied DEF FdState
<1>8. fileRefs' = [x \in FileObjs |-> fileRefs'[x]]
  BY <1>1 DEF FdClosed
<1> HIDE DEF row, bits, fs
<1>9. /\ fdThread \in [FdThreads -> ThreadRec]
      /\ fdThread'[p] = Gone /\ \A r \in FdThreads \ {p} : fdThread'[r] = fdThread[r]
      /\ fdSlots'[t] = row /\ \A u \in FdTables \ {t} : fdSlots'[u] = fdSlots[u]
      /\ cloexec'[t] = bits /\ \A u \in FdTables \ {t} : cloexec'[u] = cloexec[u]
  BY <1>1, <1>2 DEF FdState, FdTypes
<1>10. ASSUME NEW x \in FileObjs PROVE Balance(x, t, p, fileRefs'[x], fdSlots'[t], fdThread'[p])
  <2>1. /\ Cardinality(Row(fdSlots[t], x)) \in Nat /\ fileRefs[x] \in Nat
        /\ Cardinality(Row(row, x)) \in Nat
    BY <1>2, Numbers
  <2>2. ~Keeps(fdThread[p], x) /\ ~Keeps(Gone, x)
    BY <1>2, NoThread, Returned
  <2>3. One(Keeps(fdThread[p], x)) = 0 /\ One(Keeps(Gone, x)) = 0
    BY <2>2 DEF One
  <2>4. /\ fileRefs'[x] = fileRefs[x] - Cardinality(Row(fdSlots[t], x)) + Cardinality(Row(row, x))
        /\ fdSlots'[t] = row /\ fdThread'[p] = Gone
    <3> DEFINE n == Cardinality({f \in fs : fdSlots[t][f] = x})
    <3>1. /\ n \in Nat /\ fileRefs'[x] = fileRefs[x] - n
          /\ Cardinality(Row(row, x)) = Cardinality(Row(fdSlots[t], x)) - n
      BY <1>7
    <3>2. fdSlots'[t] = row /\ fdThread'[p] = Gone
      BY <1>9
    <3> HIDE DEF n, t
    <3> QED  BY <2>1, <3>1, <3>2
  <2> QED  BY <2>1, <2>3, <2>4 DEF Balance
<1>11. Counted' /\ fileRefs' \in [FileObjs -> Nat]
  <2>1. FdSizes /\ FdTypes /\ Counted
    BY DEF FdState
  <2> HIDE DEF t
  <2> QED  BY <1>2, <1>8, <1>9, <1>10, <2>1, Recounted
<1>12. FdTypes'
  BY <1>1, <1>4, <1>11, NoThread DEF FdState, FdTypes
<1>13. Calls'
  <2> SUFFICES ASSUME NEW r \in FdThreads
               PROVE  /\ fdThread'[r].at = "user" => fdThread'[r] = NoFdCall(fdThread'[r].table)
                      /\ fdThread'[r].at # "user" =>
                           fdThread'[r].table # "none" /\ fdThread'[r].fd # "none"
                      /\ fdThread'[r].at \in Borrowing => fdThread'[r].f \in FdNums
                      /\ fdThread'[r].at \in {"dup3", "dupfd"} \cup Storing =>
                           fdThread'[r].to \in FdNums
    BY DEF Calls, Table, Borrowed, NoFdCall
  <2>1. CASE r = p
    BY <1>9, <2>1, NoThread DEF Borrowing, Storing
  <2>2. CASE r # p
    BY <1>9, <2>2 DEF FdState, Calls, Table, Borrowed
  <2> QED  BY <2>1, <2>2
<1>14. Tables'
  <2> SUFFICES ASSUME NEW u \in FdTables
               PROVE  /\ \A f \in cloexec'[u] : fdSlots'[u][f] # "none"
                      /\ UsersOf(u)' = {} => \A f \in FdNums : fdSlots'[u][f] = "none"
    BY DEF Tables
  <2>1. CASE u = t
    <3>1. p \in UsersOf(t)
      BY <1>2 DEF UsersOf
    <3>2. UsersOf(t) # {p} => UsersOf(u)' # {}
      <4> SUFFICES ASSUME UsersOf(t) # {p} PROVE UsersOf(u)' # {}
        OBVIOUS
      <4>1. PICK r \in UsersOf(t) : r # p
        BY <3>1
      <4>2. r \in FdThreads /\ fdThread'[r].table = t
        BY <1>9, <4>1 DEF UsersOf
      <4> QED  BY <2>1, <4>2 DEF UsersOf
    <3> QED  BY <1>5, <1>6, <1>9, <2>1, <3>2
  <2>2. CASE u # t
    <3>1. UsersOf(u)' = UsersOf(u)
      <4>1. fdThread[p].table # u /\ fdThread'[p].table # u
        BY <1>2, <1>9, <2>2, NoThread DEF FdState, FdSizes
      <4> QED  BY <1>9, <4>1 DEF UsersOf
    <3> QED  BY <1>9, <2>2, <3>1 DEF FdState, Tables
  <2> QED  BY <2>1, <2>2
<1>15. Alone'
  <2> SUFFICES ASSUME ~fdShared
               PROVE  /\ \A r, s \in FdThreads : r # s /\ fdThread'[r].table = fdThread'[s].table
                                                   => fdThread'[r].table = "none"
                      /\ \A r \in FdThreads :
                           /\ fdThread'[r].at \in Borrowing =>
                                fdSlots'[fdThread'[r].table][fdThread'[r].f] = fdThread'[r].fd
                           /\ fdThread'[r].at \in Storing =>
                                fdSlots'[fdThread'[r].table][fdThread'[r].to] = "none"
    BY <1>1 DEF Alone, Borrowed, Table
  <2>1. \A r, s \in FdThreads : r # s /\ fdThread[r].table = fdThread[s].table
                                  => fdThread[r].table = "none"
    BY DEF FdState, Alone, Table
  <2>2. \A r, s \in FdThreads : r # s /\ fdThread'[r].table = fdThread'[s].table
                                  => fdThread'[r].table = "none"
    BY <1>9, <2>1, NoThread
  <2>3. ASSUME NEW r \in FdThreads
        PROVE  /\ fdThread'[r].at \in Borrowing =>
                    fdSlots'[fdThread'[r].table][fdThread'[r].f] = fdThread'[r].fd
               /\ fdThread'[r].at \in Storing =>
                    fdSlots'[fdThread'[r].table][fdThread'[r].to] = "none"
    <3>1. CASE r = p
      BY <1>9, <3>1, NoThread DEF Borrowing, Storing
    <3>2. CASE r # p /\ fdThread[r].at = "user"
      BY <1>9, <3>2 DEF Borrowing, Storing
    <3>3. CASE r # p /\ fdThread[r].at # "user"
      <4>1. fdThread[r].table \in FdTables \ {t}
        BY <1>2, <1>9, <2>1, <3>3 DEF FdState, FdSizes, Calls, Table, ThreadRec
      <4>2. fdSlots'[fdThread'[r].table] = fdSlots[fdThread[r].table] /\ fdThread'[r] = fdThread[r]
        BY <1>9, <3>3, <4>1
      <4> QED  BY <4>2 DEF FdState, Alone, Borrowed, Table
    <3> QED  BY <3>1, <3>2, <3>3
  <2> QED  BY <2>2, <2>3
<1> QED  BY <1>11, <1>12, <1>13, <1>14, <1>15 DEF Sound

---------------------------------------------------------------------------
(* At first one thread has an empty table.                                 *)
LEMMA FdInitInv == FdSizes /\ FdInit => FdInv
<1> SUFFICES ASSUME FdSizes, FdInit PROVE FdInv
  OBVIOUS
<1> DEFINE first == CHOOSE p \in FdThreads : TRUE  t == CHOOSE u \in FdTables : TRUE
<1>1. first \in FdThreads /\ t \in FdTables
  BY DEF FdSizes
<1>2. /\ \A p \in FdThreads : fdThread[p] = IF p = first THEN NoFdCall(t) ELSE Gone
      /\ fdThread = [p \in FdThreads |-> IF p = first THEN NoFdCall(t) ELSE Gone]
  BY DEF FdInit
<1> HIDE DEF first, t
<1>3. /\ NoFdCall(t) \in ThreadRec /\ NoFdCall(t).at = "user" /\ NoFdCall(t).table = t
      /\ NoFdCall(t).fd = "none" /\ \A x : ~Keeps(NoFdCall(t), x)
  BY <1>1 DEF NoFdCall, ThreadRec, Keeping, Keeps
<1>4. FdTypes
  BY <1>2, <1>3, NoThread DEF FdTypes, FdInit
<1>5. \A p \in FdThreads : /\ fdThread[p].at = "user" /\ fdThread[p] = NoFdCall(fdThread[p].table)
                           /\ \A x : ~Keeps(fdThread[p], x)
  BY <1>2, <1>3, NoThread
<1>6. Calls
  BY <1>5 DEF Calls, Table, Borrowing, Storing
<1>7. Counted
  <2> SUFFICES ASSUME NEW x \in FileObjs
               PROVE  fileRefs[x] = Cardinality(Named(fdSlots, x)) + Cardinality(Holders(fdThread, x))
    BY CountedMeans
  <2>1. Named(fdSlots, x) = {} /\ Holders(fdThread, x) = {}
    BY <1>5 DEF Named, Holders, FdInit, FdSizes
  <2>2. Cardinality(Named(fdSlots, x)) = 0 /\ Cardinality(Holders(fdThread, x)) = 0
    BY <2>1, FS_EmptySet
  <2> QED  BY <2>2 DEF FdInit
<1>8. Tables
  BY DEF Tables, FdInit
<1>9. Alone
  BY <1>2, <1>5, NoThread DEF Alone, Table, Borrowing, Storing
<1> QED  BY <1>4, <1>6, <1>7, <1>8, <1>9 DEF FdInv, Sound, FdInit

(* Every step keeps the invariant.                                         *)
LEMMA FdNextInv == FdSizes /\ FdInv /\ [FdNext]_fdVars => FdInv'
<1> SUFFICES ASSUME FdSizes, FdInv, [FdNext]_fdVars PROVE FdInv'
  OBVIOUS
<1>1. CASE UNCHANGED fdVars
  BY <1>1 DEF fdVars, FdInv, Sound, FdTypes, Calls, Counted, Tables, Alone, NamedBy, HeldBy,
              Table, Borrowed, UsersOf
<1>2. CASE FdNext
  <2>1. ~fdRaced /\ FdState
    BY <1>2 DEF FdNext, FdInv, Sound, FdState
  <2>2. PICK p \in FdThreads :
          \/ \E exec \in BOOLEAN : FdOpen(p, exec) \/ Dup3Store(p, exec) \/ DupfdStore(p, exec)
          \/ \E f \in FdNums : \/ FdClose(p, f) \/ PollRetain(p, f)
                               \/ \E to \in FdNums : Get(p, "dup3", f, to) \/ Get(p, "dupfd", f, to)
                               \/ \E op \in {"use", "dup", "setfd"} : Get(p, op, f, 0)
          \/ DoCloexec(p) \/ Use(p) \/ Dup(p) \/ Dup3Close(p) \/ DupfdSearch(p) \/ SetFd(p)
          \/ PollRelease(p) \/ FdtableRelease(p)
          \/ \E q \in FdThreads : CloneFiles(p, q) \/ \E t \in FdTables : FdtableCopy(p, q, t)
    BY <1>2 DEF FdNext
  <2> DEFINE Good == (~fdRaced' => Sound') /\ (fdRaced' => fdRaced \/ fdShared')
  <2>3. ASSUME NEW exec \in BOOLEAN, FdOpen(p, exec) PROVE Good
    BY <2>1, <2>3, OpenKeeps DEF FdOpen
  <2>4. ASSUME NEW exec \in BOOLEAN, Dup3Store(p, exec) \/ DupfdStore(p, exec) PROVE Good
    BY <2>1, <2>4, StoresKeep
  <2>5. ASSUME NEW f \in FdNums, FdClose(p, f) PROVE Good
    BY <2>1, <2>5, CloseKeeps DEF FdClose
  <2>6. ASSUME NEW f \in FdNums, PollRetain(p, f) PROVE Good
    BY <2>1, <2>6, PollRetainKeeps DEF PollRetain
  <2>7. ASSUME NEW f \in FdNums, NEW to \in FdNums, NEW op \in {"dup3", "dupfd"}, Get(p, op, f, to)
        PROVE  Good
    <3>1. op \in Borrowing /\ to \in Nat
      BY DEF Borrowing, FdSizes
    <3> QED  BY <2>1, <2>7, <3>1, GetKeeps DEF Get
  <2>8. ASSUME NEW f \in FdNums, NEW op \in {"use", "dup", "setfd"}, Get(p, op, f, 0) PROVE Good
    <3>1. op \in Borrowing /\ op \notin {"dup3", "dupfd"} /\ 0 \in Nat
      BY DEF Borrowing
    <3> QED  BY <2>1, <2>8, <3>1, GetKeeps DEF Get
  <2>9. ASSUME DoCloexec(p) PROVE Good
    BY <2>1, <2>9, ExecKeeps DEF DoCloexec
  <2>10. ASSUME Use(p) PROVE Good
    BY <2>1, <2>10, UseKeeps
  <2>11. ASSUME Dup(p) PROVE Good
    BY <2>1, <2>11, DupKeeps
  <2>12. ASSUME Dup3Close(p) PROVE Good
    BY <2>1, <2>12, Dup3CloseKeeps
  <2>13. ASSUME DupfdSearch(p) PROVE Good
    BY <2>1, <2>13, DupfdSearchKeeps
  <2>14. ASSUME SetFd(p) PROVE Good
    BY <2>1, <2>14, SetFdKeeps
  <2>15. ASSUME PollRelease(p) PROVE Good
    BY <2>1, <2>15, PollReleaseKeeps DEF PollRelease
  <2>16. ASSUME FdtableRelease(p) PROVE Good
    BY <2>1, <2>16, ReleaseKeeps DEF FdtableRelease
  <2>17. ASSUME NEW q \in FdThreads, CloneFiles(p, q) PROVE Good
    BY <2>1, <2>17, CloneFilesKeeps DEF CloneFiles
  <2>18. ASSUME NEW q \in FdThreads, NEW t \in FdTables, FdtableCopy(p, q, t) PROVE Good
    BY <2>1, <2>18, FdtableCopyKeeps DEF FdtableCopy
  <2> HIDE DEF Good
  <2>19. Good
    BY <2>2, <2>3, <2>4, <2>5, <2>6, <2>7, <2>8, <2>9, <2>10, <2>11, <2>12, <2>13, <2>14, <2>15,
       <2>16, <2>17, <2>18
  <2> QED  BY <2>1, <2>19 DEF Good, FdInv
<1> QED  BY <1>1, <1>2 DEF fdVars

(* The invariant says what FilesExact says.                                *)
LEMMA FdInvExact == FdSizes /\ FdInv => FilesExact
<1> SUFFICES ASSUME FdSizes, FdInv PROVE FilesExact
  OBVIOUS
<1>1. ASSUME ~fdRaced, NEW p \in FdThreads, ~fdShared, Borrowed(p) # "none" PROVE ~Stale(p)
  <2>1. FdState
    BY <1>1 DEF FdInv, Sound, FdState
  <2>2. fdThread[p].at # "user"
    <3>1. fdThread[p].at = "user" => fdThread[p] = NoFdCall(Table(p))
      BY <2>1 DEF FdState, Calls
    <3>2. NoFdCall(Table(p)).fd = "none"
      BY DEF NoFdCall
    <3> QED  BY <1>1, <3>1, <3>2 DEF Borrowed
  <2> QED  BY <1>1, <2>1, <2>2, NotStale
<1> QED  BY <1>1 DEF FdInv, Sound, Counted, Tables, FilesExact

(* Every open file counts its descriptors and the calls that keep it, and  *)
(* only threads that have shared a table can use a file that is gone or    *)
(* overwrite a descriptor (fs/fd.c).                                       *)
THEOREM FilesAreExact == FdSizes /\ FdSpec => []FilesExact
<1>1. FdSizes /\ FdInit => FdInv
  BY FdInitInv
<1>2. FdSizes /\ FdInv /\ [FdNext]_fdVars => FdInv'
  BY FdNextInv
<1>3. FdSizes /\ FdInv => FilesExact
  BY FdInvExact
<1>4. ASSUME FdSizes PROVE FdSpec => []FilesExact
  <2>1. FdInit => FdInv
    BY <1>1, <1>4
  <2>2. FdInv /\ [FdNext]_fdVars => FdInv'
    BY <1>2, <1>4
  <2>3. FdInv => FilesExact
    BY <1>3, <1>4
  <2> QED  BY <2>1, <2>2, <2>3, PTL DEF FdSpec
<1> QED  BY <1>4

-----------------------------------------------------------------------------
(* Locks on the list, and requests: ranges of bytes of the file.           *)
Ranges(types) ==
  {l \in [owner : LockOwners, type : types, start : Int, end : Int] :
     Lowest < l.start /\ l.start <= l.end /\ l.end <= FileEnd}
Locks == Ranges({"read", "write"})
Requests == Ranges({"read", "write", "unlock"})

(* Two locks of one owner: they share no byte, and would have been merged. *)
Apart(a, b) == ~Overlap(a, b) /\ (a.type = b.type => ~Adjacent(a, b))
Within(a, b) == a.type = b.type /\ b.start <= a.start /\ a.end <= b.end
Has(l, b) == b \in l.start .. l.end

Grouped(L) ==
  \A i, j \in 1 .. Len(L) : i < j /\ L[i].owner = L[j].owner =>
    Apart(L[i], L[j]) /\ \A k \in i .. j : L[k].owner = L[i].owner

LEMMA Offsets == FileEnd \in Nat /\ Lowest \in Int /\ Lowest < 0
BY LocksAssumption DEF Lowest

(* Above the lowest offset, Adjacent is what its name says.                *)
LEMMA AdjacentIs ==
  ASSUME NEW a, NEW b, a.start \in Int, b.start \in Int, Lowest < a.start, Lowest < b.start,
         a.start <= FileEnd + 1, b.start <= FileEnd + 1
  PROVE  Adjacent(a, b) <=> a.end = b.start - 1 \/ b.end = a.start - 1
BY Offsets DEF Adjacent, Wrap, Lowest

LEMMA RangeFields ==
  ASSUME NEW types, NEW l \in Ranges(types)
  PROVE  /\ l = [owner |-> l.owner, type |-> l.type, start |-> l.start, end |-> l.end]
         /\ l.owner \in LockOwners /\ l.type \in types /\ l.start \in Int /\ l.end \in Int
         /\ Lowest < l.start /\ l.start <= l.end /\ l.end <= FileEnd
BY DEF Ranges

LEMMA LockFields ==
  ASSUME NEW l \in Locks
  PROVE  l.owner \in LockOwners /\ l.start \in Int /\ l.end \in Int
         /\ Lowest < l.start /\ l.start <= l.end /\ l.end <= FileEnd /\ l.type \in {"read", "write"} /\ l \in Requests
BY DEF Ranges, Locks, Requests

LEMMA RequestFields ==
  ASSUME NEW l \in Requests
  PROVE  l.owner \in LockOwners /\ l.start \in Int /\ l.end \in Int
         /\ Lowest < l.start /\ l.start <= l.end /\ l.end <= FileEnd /\ l.type \in {"read", "write", "unlock"}
BY DEF Ranges, Requests

LEMMA RequestsTouch ==
  ASSUME NEW a \in Requests, NEW b \in Requests
  PROVE  Adjacent(a, b) <=> a.end = b.start - 1 \/ b.end = a.start - 1
<1>1. /\ a.start \in Int /\ a.end \in Int /\ b.start \in Int /\ b.end \in Int
      /\ Lowest < a.start /\ a.start <= FileEnd + 1 /\ Lowest < b.start /\ b.start <= FileEnd + 1
  BY RequestFields, Offsets
<1> QED BY <1>1, AdjacentIs

(* Parts of locks that are apart are apart.                                *)
LEMMA ApartWithin ==
  ASSUME NEW a \in Locks, NEW b \in Locks, NEW c \in Locks, Within(a, c), Apart(c, b)
  PROVE  Apart(a, b) /\ Apart(b, a)
<1>1. a \in Requests /\ b \in Requests /\ c \in Requests
  BY LockFields
<1>2. /\ Adjacent(a, b) <=> a.end = b.start - 1 \/ b.end = a.start - 1
      /\ Adjacent(b, a) <=> b.end = a.start - 1 \/ a.end = b.start - 1
      /\ Adjacent(c, b) <=> c.end = b.start - 1 \/ b.end = c.start - 1
  BY <1>1, RequestsTouch
<1> QED BY <1>1, <1>2, RequestFields DEF Apart, Within, Overlap

(* What is apart from two that touch is apart from both together.          *)
LEMMA MergeApart ==
  ASSUME NEW x \in Requests, NEW r \in Requests, NEW l \in Requests, NEW m \in Requests,
         Apart(x, r), Apart(x, l), l.type = r.type, m.type = r.type,
         Overlap(l, r) \/ Adjacent(r, l),
         m.start = IF l.start < r.start THEN l.start ELSE r.start,
         m.end = IF l.end > r.end THEN l.end ELSE r.end
  PROVE  Apart(x, m)
<1>1. /\ Adjacent(x, r) <=> x.end = r.start - 1 \/ r.end = x.start - 1
      /\ Adjacent(x, l) <=> x.end = l.start - 1 \/ l.end = x.start - 1
      /\ Adjacent(x, m) <=> x.end = m.start - 1 \/ m.end = x.start - 1
      /\ Adjacent(r, l) <=> r.end = l.start - 1 \/ l.end = r.start - 1
  BY RequestsTouch
<1> QED BY <1>1, RequestFields DEF Apart, Overlap

(* The request and a lock that it swallows.                                *)
Merged(r, l) == [r EXCEPT !.start = IF l.start < @ THEN l.start ELSE @,
                          !.end = IF l.end > @ THEN l.end ELSE @]

LEMMA MergeIs ==
  ASSUME NEW r \in Requests, NEW l \in Requests
  PROVE  LET m == Merged(r, l) IN
         /\ m \in Requests /\ m.owner = r.owner /\ m.type = r.type
         /\ m.start = IF l.start < r.start THEN l.start ELSE r.start
         /\ m.end = IF l.end > r.end THEN l.end ELSE r.end
<1> DEFINE m == Merged(r, l)
           a == IF l.start < r.start THEN l.start ELSE r.start
           e == IF l.end > r.end THEN l.end ELSE r.end
<1>1. r = [owner |-> r.owner, type |-> r.type, start |-> r.start, end |-> r.end]
  BY RangeFields DEF Requests
<1>2. m = [r EXCEPT !.start = a, !.end = e]
  BY DEF Merged
<1>3. a \in Int /\ e \in Int /\ Lowest < a /\ a <= e /\ e <= FileEnd
  BY RequestFields, Offsets
<1> HIDE DEF m, a, e
<1>4. m = [owner |-> r.owner, type |-> r.type, start |-> a, end |-> e]
  BY <1>1, <1>2
<1>5. m \in Requests
  BY <1>3, <1>4, RequestFields DEF Requests, Ranges
<1> QED BY <1>4, <1>5 DEF m, a, e

LEMMA MergeCovers ==
  ASSUME NEW r \in Requests, NEW l \in Requests, NEW m \in Requests,
         Overlap(l, r) \/ Adjacent(r, l),
         m.start = IF l.start < r.start THEN l.start ELSE r.start,
         m.end = IF l.end > r.end THEN l.end ELSE r.end,
         NEW b \in Int
  PROVE  Has(m, b) <=> Has(r, b) \/ Has(l, b)
<1>1. Adjacent(r, l) <=> r.end = l.start - 1 \/ l.end = r.start - 1
  BY RequestsTouch
<1> QED BY <1>1, RequestFields DEF Has, Overlap

(* The two pieces of a lock that a request cuts.                           *)
FrontCut(l, r) == [l EXCEPT !.end = r.start - 1]
Back(l, r) == [l EXCEPT !.start = r.end + 1]

LEMMA PiecesAre ==
  ASSUME NEW l \in Locks, NEW r \in Requests, Overlap(l, r),
         NEW f, f = FrontCut(l, r), NEW t, t = Back(l, r)
  PROVE  /\ f.owner = l.owner /\ f.type = l.type /\ f.start = l.start /\ f.end = r.start - 1
         /\ t.owner = l.owner /\ t.type = l.type /\ t.start = r.end + 1 /\ t.end = l.end
         /\ (f.start <= f.end => f \in Locks) /\ (t.start <= t.end => t \in Locks)
<1>1. l = [owner |-> l.owner, type |-> l.type, start |-> l.start, end |-> l.end]
  BY RangeFields DEF Locks
<1>2. /\ f = [owner |-> l.owner, type |-> l.type, start |-> l.start, end |-> r.start - 1]
      /\ t = [owner |-> l.owner, type |-> l.type, start |-> r.end + 1, end |-> l.end]
  BY <1>1 DEF FrontCut, Back
<1>3. /\ l.start \in Int /\ l.end \in Int /\ r.start \in Int /\ r.end \in Int /\ FileEnd \in Nat
      /\ l.end <= FileEnd /\ r.end <= FileEnd /\ r.start <= r.end
      /\ Lowest < l.start /\ Lowest < r.start /\ Lowest \in Int
      /\ l.owner \in LockOwners /\ l.type \in {"read", "write"}
  BY LockFields, RequestFields, Offsets
<1>4. l.start <= r.start - 1 => f \in Locks
  <2> SUFFICES ASSUME l.start <= r.start - 1 PROVE f \in Locks
    OBVIOUS
  <2>1. r.start - 1 \in Int /\ r.start - 1 <= FileEnd /\ Lowest < l.start
    BY <1>3
  <2> QED BY <1>2, <1>3, <2>1 DEF Locks, Ranges
<1>5. r.end + 1 <= l.end => t \in Locks
  <2> SUFFICES ASSUME r.end + 1 <= l.end PROVE t \in Locks
    OBVIOUS
  <2>1. r.end + 1 \in Int /\ Lowest < r.end + 1
    BY <1>3
  <2> QED BY <1>2, <1>3, <2>1 DEF Locks, Ranges
<1> QED BY <1>2, <1>4, <1>5

LEMMA PiecesApart ==
  ASSUME NEW l \in Locks, NEW r \in Requests, Overlap(l, r), l.type # r.type,
         NEW f, f = FrontCut(l, r), NEW t, t = Back(l, r)
  PROVE  /\ f.start <= f.end => Within(f, l) /\ Apart(f, r)
         /\ t.start <= t.end => Within(t, l) /\ Apart(t, r)
         /\ Apart(f, t)
         /\ \A b \in Int : Has(l, b) /\ ~Has(r, b) =>
              (f.start <= f.end /\ Has(f, b)) \/ (t.start <= t.end /\ Has(t, b))
<1>1. /\ f.type = l.type /\ f.start = l.start /\ f.end = r.start - 1
      /\ t.type = l.type /\ t.start = r.end + 1 /\ t.end = l.end
  BY PiecesAre
<1>2. /\ l.start \in Int /\ l.end \in Int /\ r.start \in Int /\ r.end \in Int
      /\ Lowest < l.start /\ l.start <= l.end /\ l.end <= FileEnd
      /\ Lowest < r.start /\ r.start <= r.end /\ r.end <= FileEnd
  BY LockFields, RequestFields
<1>a. /\ Adjacent(f, t) <=> f.end = t.start - 1 \/ t.end = f.start - 1
      /\ Adjacent(f, r) <=> f.end = r.start - 1 \/ r.end = f.start - 1
      /\ Adjacent(t, r) <=> t.end = r.start - 1 \/ r.end = t.start - 1
  BY <1>1, <1>2, Offsets, AdjacentIs
<1>3. \A b \in Int : Has(l, b) /\ ~Has(r, b) =>
              (f.start <= f.end /\ Has(f, b)) \/ (t.start <= t.end /\ Has(t, b))
  BY <1>1, <1>2 DEF Has
<1>4. Apart(f, t)
  BY <1>1, <1>2, <1>a DEF Apart, Overlap
<1>5. /\ f.start <= f.end => Within(f, l) /\ Apart(f, r)
      /\ t.start <= t.end => Within(t, l) /\ Apart(t, r)
  BY <1>1, <1>2 DEF Within, Apart, Overlap
<1> QED BY <1>3, <1>4, <1>5

(* After the locks of the run up to i: the request covers what it did and  *)
(* what it swallowed, the kept locks are parts of those that were there,   *)
(* and no byte is lost.                                                    *)
Placed(L, r, first, i, acc) ==
  /\ acc \in [request : Requests, kept : Seq(Locks)]
  /\ acc.request.owner = r.owner /\ acc.request.type = r.type
  /\ acc.request.start <= r.start /\ r.end <= acc.request.end
  /\ \A b \in Int : Has(acc.request, b) =>
       Has(r, b) \/ \E j \in first .. i : L[j].type = r.type /\ Has(L[j], b)
  /\ \A k \in 1 .. Len(acc.kept) :
       /\ acc.kept[k].owner = r.owner /\ Apart(acc.kept[k], acc.request)
       /\ \E j \in first .. i : Within(acc.kept[k], L[j])
  /\ \A k, m \in 1 .. Len(acc.kept) : k < m => Apart(acc.kept[k], acc.kept[m])
  /\ \A j \in first .. i, b \in Int : Has(L[j], b) =>
       \/ Has(acc.request, b)
       \/ \E k \in 1 .. Len(acc.kept) : acc.kept[k].type = L[j].type /\ Has(acc.kept[k], b)

(* The lock at i, or what is left of it, is kept.                          *)
LEMMA KeptMore ==
  ASSUME NEW L \in Seq(Locks), NEW r \in Requests, NEW first \in 1 .. Len(L),
         NEW i \in first .. Len(L), NEW acc, Placed(L, r, first, i - 1, acc),
         \A j \in first .. i - 1 : Apart(L[j], L[i]),
         NEW s \in Seq(Locks),
         \A k \in 1 .. Len(s) : /\ s[k].owner = r.owner /\ Within(s[k], L[i])
                                /\ Apart(s[k], acc.request),
         \A k, m \in 1 .. Len(s) : k < m => Apart(s[k], s[m]),
         \A b \in Int : Has(L[i], b) =>
           Has(acc.request, b) \/ \E k \in 1 .. Len(s) : s[k].type = L[i].type /\ Has(s[k], b)
  PROVE  Placed(L, r, first, i, [acc EXCEPT !.kept = @ \o s])
<1> DEFINE q == acc.request
           old == acc.kept
           new == old \o s
<1>1. acc \in [request : Requests, kept : Seq(Locks)] /\ q \in Requests /\ old \in Seq(Locks)
  BY DEF Placed
<1>2. [acc EXCEPT !.kept = @ \o s] = [request |-> q, kept |-> new]
  <2>1. acc = [request |-> acc.request, kept |-> acc.kept]
    BY <1>1
  <2> HIDE DEF q, old, new
  <2>2. [acc EXCEPT !.kept = new] = [request |-> acc.request, kept |-> new]
    BY <2>1
  <2> QED BY <2>2 DEF q, old, new
<1>3. /\ new \in Seq(Locks) /\ Len(new) = Len(old) + Len(s) /\ Len(old) \in Nat /\ Len(s) \in Nat
      /\ \A k \in 1 .. Len(new) : new[k] = IF k <= Len(old) THEN old[k] ELSE s[k - Len(old)]
  BY <1>1, ConcatProperties, LenProperties
<1> HIDE DEF new
<1>4. /\ q.owner = r.owner /\ q.type = r.type /\ q.start <= r.start /\ r.end <= q.end
      /\ \A b \in Int : Has(q, b) =>
           Has(r, b) \/ \E j \in first .. i - 1 : L[j].type = r.type /\ Has(L[j], b)
      /\ \A k \in 1 .. Len(old) :
           /\ old[k].owner = r.owner /\ Apart(old[k], q)
           /\ \E j \in first .. i - 1 : Within(old[k], L[j])
      /\ \A k, m \in 1 .. Len(old) : k < m => Apart(old[k], old[m])
      /\ \A j \in first .. i - 1, b \in Int : Has(L[j], b) =>
           Has(q, b) \/ \E k \in 1 .. Len(old) : old[k].type = L[j].type /\ Has(old[k], b)
  BY DEF Placed
<1>5. Len(L) \in Nat /\ i \in Nat /\ first \in Nat /\ \A j \in first .. i : L[j] \in Locks
  BY LenProperties, ElementOfSeq
<1>6. /\ \A k \in 1 .. Len(old) : old[k] \in Locks
      /\ \A k \in 1 .. Len(s) : s[k] \in Locks
  BY <1>1, ElementOfSeq
<1> HIDE DEF q, old
<1>7. \A b \in Int : Has(q, b) =>
           Has(r, b) \/ \E j \in first .. i : L[j].type = r.type /\ Has(L[j], b)
  BY <1>4, <1>5
<1>8. ASSUME NEW k \in 1 .. Len(new)
      PROVE  /\ new[k].owner = r.owner /\ Apart(new[k], q)
             /\ \E j \in first .. i : Within(new[k], L[j])
  <2>1. CASE k <= Len(old)
    <3>1. k \in 1 .. Len(old) /\ new[k] = old[k]
      BY <1>3, <2>1
    <3>2. PICK j \in first .. i - 1 : Within(old[k], L[j])
      BY <1>4, <3>1
    <3>3. j \in first .. i
      BY <1>5
    <3> QED BY <1>4, <3>1, <3>2, <3>3
  <2>2. CASE k > Len(old)
    <3>1. PICK h \in 1 .. Len(s) : new[k] = s[h]
      BY <1>3, <2>2
    <3>2. i \in first .. i
      BY <1>5
    <3> QED BY <3>1, <3>2 DEF q
  <2> QED BY <1>3, <2>1, <2>2
<1>9. ASSUME NEW k \in 1 .. Len(new), NEW m \in 1 .. Len(new), k < m
      PROVE  Apart(new[k], new[m])
  <2>1. CASE m <= Len(old)
    <3>1. /\ k \in 1 .. Len(old) /\ m \in 1 .. Len(old)
          /\ new[k] = old[k] /\ new[m] = old[m]
      BY <1>3, <1>9, <2>1
    <3> QED BY <1>4, <1>9, <3>1
  <2>2. CASE k <= Len(old) /\ m > Len(old)
    <3>1. PICK h \in 1 .. Len(s) : new[m] = s[h]
      BY <1>3, <2>2
    <3>2. k \in 1 .. Len(old) /\ new[k] = old[k]
      BY <1>3, <2>2
    <3>3. PICK j \in first .. i - 1 : Within(old[k], L[j])
      BY <1>4, <3>2
    <3>4. Within(s[h], L[i]) /\ Apart(L[j], L[i])
      OBVIOUS
    <3>5. old[k] \in Locks /\ s[h] \in Locks /\ L[i] \in Locks /\ L[j] \in Locks
      BY <1>5, <1>6, <3>2
    <3>6. Apart(L[i], old[k])
      BY <3>3, <3>4, <3>5, ApartWithin
    <3>7. Apart(old[k], s[h])
      BY <3>4, <3>5, <3>6, ApartWithin
    <3> QED BY <3>1, <3>2, <3>7
  <2>3. CASE k > Len(old)
    <3>1. /\ k - Len(old) \in 1 .. Len(s) /\ m - Len(old) \in 1 .. Len(s)
          /\ k - Len(old) < m - Len(old)
          /\ new[k] = s[k - Len(old)] /\ new[m] = s[m - Len(old)]
      BY <1>3, <1>9, <2>3
    <3> QED BY <3>1
  <2> QED BY <1>3, <1>9, <2>1, <2>2, <2>3
<1>10. ASSUME NEW j \in first .. i, NEW b \in Int, Has(L[j], b)
       PROVE  Has(q, b) \/ \E k \in 1 .. Len(new) : new[k].type = L[j].type /\ Has(new[k], b)
  <2>1. CASE j = i
    <3>1. CASE \E h \in 1 .. Len(s) : s[h].type = L[i].type /\ Has(s[h], b)
      <4>1. PICK h \in 1 .. Len(s) : s[h].type = L[i].type /\ Has(s[h], b)
        BY <3>1
      <4>2. Len(old) + h \in 1 .. Len(new) /\ new[Len(old) + h] = s[h]
        <5>1. Len(old) + h \in 1 .. Len(new) /\ ~(Len(old) + h <= Len(old))
              /\ (Len(old) + h) - Len(old) = h
          BY <1>3
        <5> QED BY <1>3, <5>1
      <4> QED BY <2>1, <4>1, <4>2
    <3> QED BY <1>10, <2>1, <3>1 DEF q
  <2>2. CASE j # i
    <3>1. j \in first .. i - 1
      BY <1>5, <2>2
    <3>2. CASE \E k \in 1 .. Len(old) : old[k].type = L[j].type /\ Has(old[k], b)
      <4>1. PICK k \in 1 .. Len(old) : old[k].type = L[j].type /\ Has(old[k], b)
        BY <3>2
      <4>2. k \in 1 .. Len(new) /\ new[k] = old[k]
        BY <1>3
      <4> QED BY <4>1, <4>2
    <3> QED BY <1>4, <1>10, <3>1, <3>2
  <2> QED BY <2>1, <2>2
<1>11. [request |-> q, kept |-> new] \in [request : Requests, kept : Seq(Locks)]
  BY <1>1, <1>3 DEF q
<1> DEFINE next == [request |-> q, kept |-> new]
<1>12. next.request = q /\ next.kept = new /\ next \in [request : Requests, kept : Seq(Locks)]
  BY <1>11
<1> HIDE DEF next
<1>13. Placed(L, r, first, i, next)
  BY <1>4, <1>7, <1>8, <1>9, <1>10, <1>12 DEF Placed
<1> QED BY <1>2, <1>13 DEF next

(* One turn of the loop, for each way that it goes.                        *)
LEMMA PlaceOne ==
  ASSUME NEW L \in Seq(Locks), NEW r \in Requests, NEW first \in 1 .. Len(L),
         NEW i \in first .. Len(L), NEW acc, Placed(L, r, first, i - 1, acc),
         \A j \in first .. i - 1 : Apart(L[j], L[i]), L[i].owner = r.owner
  PROVE  Placed(L, r, first, i, Place(acc, L[i]))
<1> DEFINE q == acc.request
           l == L[i]
<1>1. /\ acc \in [request : Requests, kept : Seq(Locks)] /\ q \in Requests
      /\ q.owner = r.owner /\ q.type = r.type /\ acc.kept \in Seq(Locks)
  BY DEF Placed
<1>2. l \in Locks /\ l \in Requests /\ Len(L) \in Nat
  BY LenProperties, ElementOfSeq, LockFields
<1>3. /\ l.start \in Int /\ l.end \in Int /\ l.start <= l.end /\ l.end <= FileEnd
      /\ q.start \in Int /\ q.end \in Int /\ q.start <= q.end /\ q.end <= FileEnd
  BY <1>1, <1>2, LockFields, RequestFields
<1>4. Len(acc.kept) \in Nat /\ \A k \in 1 .. Len(acc.kept) : acc.kept[k] \in Locks
  BY <1>1, LenProperties, ElementOfSeq
<1>5. CASE l.type = q.type /\ (Overlap(l, q) \/ Adjacent(q, l))
  <2> DEFINE m == Merged(q, l)
             next == [request |-> m, kept |-> acc.kept]
  <2>1. /\ m.start = IF l.start < q.start THEN l.start ELSE q.start
        /\ m.end = IF l.end > q.end THEN l.end ELSE q.end
        /\ m.owner = q.owner /\ m.type = q.type /\ m \in Requests
    BY <1>1, <1>2, MergeIs
  <2>2. Place(acc, l) = next
    <3>1. Place(acc, l) = [acc EXCEPT !.request.start = IF l.start < @ THEN l.start ELSE @,
                                      !.request.end = IF l.end > @ THEN l.end ELSE @]
      BY <1>5 DEF Place
    <3>2. acc = [request |-> acc.request, kept |-> acc.kept]
      BY <1>1
    <3> QED BY <1>1, <3>1, <3>2 DEF Merged
  <2>3. next.request = m /\ next.kept = acc.kept /\ next \in [request : Requests, kept : Seq(Locks)]
    BY <1>1, <2>1
  <2> HIDE DEF m, next
  <2>4. \A b \in Int : Has(m, b) <=> Has(q, b) \/ Has(l, b)
    BY <1>1, <1>2, <1>5, <2>1, MergeCovers
  <2>5. \A b \in Int : Has(m, b) =>
          Has(r, b) \/ \E j \in first .. i : L[j].type = r.type /\ Has(L[j], b)
    <3> SUFFICES ASSUME NEW b \in Int, Has(m, b)
                 PROVE  Has(r, b) \/ \E j \in first .. i : L[j].type = r.type /\ Has(L[j], b)
      OBVIOUS
    <3>1. CASE Has(l, b)
      <4>1. i \in first .. i
        BY <1>2
      <4> QED BY <1>1, <1>5, <3>1, <4>1
    <3>2. CASE Has(q, b)
      <4>1. Has(r, b) \/ \E j \in first .. i - 1 : L[j].type = r.type /\ Has(L[j], b)
        BY <3>2 DEF Placed
      <4>2. first .. i - 1 \subseteq first .. i
        BY <1>2
      <4> QED BY <4>1, <4>2
    <3> QED BY <2>4, <3>1, <3>2
  <2>6. ASSUME NEW k \in 1 .. Len(acc.kept)
        PROVE  /\ acc.kept[k].owner = r.owner /\ Apart(acc.kept[k], m)
               /\ \E j \in first .. i : Within(acc.kept[k], L[j])
    <3>1. acc.kept[k].owner = r.owner /\ Apart(acc.kept[k], q)
      BY DEF Placed
    <3>2. PICK j \in first .. i - 1 : Within(acc.kept[k], L[j])
      BY DEF Placed
    <3>3. L[j] \in Locks /\ acc.kept[k] \in Locks /\ j \in first .. i
      BY <1>2, <1>4, ElementOfSeq
    <3>4. Apart(acc.kept[k], l)
      BY <1>2, <3>2, <3>3, ApartWithin
    <3>5. Apart(acc.kept[k], m)
      BY <1>1, <1>2, <1>5, <2>1, <3>1, <3>3, <3>4, LockFields, MergeApart
    <3> QED BY <3>1, <3>2, <3>3, <3>5
  <2>7. ASSUME NEW j \in first .. i, NEW b \in Int, Has(L[j], b)
        PROVE  \/ Has(m, b)
               \/ \E k \in 1 .. Len(acc.kept) : acc.kept[k].type = L[j].type /\ Has(acc.kept[k], b)
    <3>1. CASE j = i
      BY <2>4, <2>7, <3>1
    <3>2. CASE j # i
      <4>1. j \in first .. i - 1
        BY <1>2, <3>2
      <4> QED BY <2>4, <2>7, <4>1 DEF Placed
    <3> QED BY <3>1, <3>2
  <2>8. m.start <= r.start /\ r.end <= m.end
    <3>1. q.start <= r.start /\ r.end <= q.end /\ r.start \in Int /\ r.end \in Int
      BY RequestFields DEF Placed
    <3>2. m.start <= q.start /\ q.end <= m.end /\ m.start \in Int /\ m.end \in Int
      BY <1>3, <2>1
    <3> HIDE DEF q
    <3> QED BY <1>3, <3>1, <3>2
  <2>9. \A k, h \in 1 .. Len(acc.kept) : k < h => Apart(acc.kept[k], acc.kept[h])
    BY DEF Placed
  <2>10. Placed(L, r, first, i, next)
    BY <1>1, <2>1, <2>3, <2>5, <2>6, <2>7, <2>8, <2>9 DEF Placed
  <2> QED BY <2>2, <2>10
<1>6. \A s \in Seq(Locks) :
        /\ \A k \in 1 .. Len(s) : s[k].owner = r.owner /\ Within(s[k], l) /\ Apart(s[k], q)
        /\ \A k, m \in 1 .. Len(s) : k < m => Apart(s[k], s[m])
        /\ \A b \in Int : Has(l, b) =>
             Has(q, b) \/ \E k \in 1 .. Len(s) : s[k].type = l.type /\ Has(s[k], b)
        => Placed(L, r, first, i, [acc EXCEPT !.kept = @ \o s])
  BY KeptMore
<1>7. CASE ~Overlap(l, q) /\ (l.type = q.type => ~Adjacent(q, l))
  <2>1. Place(acc, l) = [acc EXCEPT !.kept = Append(@, l)]
    BY <1>7 DEF Place
  <2>2. Append(acc.kept, l) = acc.kept \o <<l>>
    BY <1>1, <1>2, AppendIsConcat
  <2>3. <<l>> \in Seq(Locks) /\ Len(<<l>>) = 1 /\ <<l>>[1] = l
    BY <1>2
  <2>4. Within(l, l) /\ Apart(l, q)
    BY <1>3, <1>7 DEF Within, Apart, Adjacent
  <2>5. Placed(L, r, first, i, [acc EXCEPT !.kept = @ \o <<l>>])
    <3> DEFINE s == <<l>>
    <3>1. s \in Seq(Locks) /\ Len(s) = 1 /\ \A k \in 1 .. Len(s) : s[k] = l
      BY <2>3
    <3>2. 1 \in 1 .. Len(s)
      BY <3>1
    <3> HIDE DEF s
    <3>3. \A k \in 1 .. Len(s) : s[k].owner = r.owner /\ Within(s[k], l) /\ Apart(s[k], q)
      BY <2>4, <3>1
    <3>4. \A k, m \in 1 .. Len(s) : k < m => Apart(s[k], s[m])
      BY <3>1
    <3>5. \A b \in Int : Has(l, b) =>
             Has(q, b) \/ \E k \in 1 .. Len(s) : s[k].type = l.type /\ Has(s[k], b)
      BY <3>1, <3>2
    <3>6. Placed(L, r, first, i, [acc EXCEPT !.kept = @ \o s])
      BY <1>6, <3>1, <3>3, <3>4, <3>5
    <3> QED BY <3>6 DEF s
  <2> QED BY <2>1, <2>2, <2>5
<1>8. CASE l.type # q.type /\ Overlap(l, q)
  <2> DEFINE f == FrontCut(l, q)
             t == Back(l, q)
             s == Pieces(l, q)
  <2>1. Place(acc, l) = [acc EXCEPT !.kept = @ \o s]
    BY <1>8 DEF Place
  <2>2. /\ f.owner = l.owner /\ f.type = l.type /\ f.start = l.start /\ f.end = q.start - 1
        /\ t.owner = l.owner /\ t.type = l.type /\ t.start = q.end + 1 /\ t.end = l.end
        /\ (f.start <= f.end => f \in Locks) /\ (t.start <= t.end => t \in Locks)
    BY <1>1, <1>2, <1>8, PiecesAre
  <2>3. s = (IF f.start <= f.end THEN <<f>> ELSE <<>>) \o (IF t.start <= t.end THEN <<t>> ELSE <<>>)
    BY DEF Pieces, FrontPiece, Piece, FrontCut, Back
  <2>a. /\ f.start <= f.end => Within(f, l) /\ Apart(f, q)
        /\ t.start <= t.end => Within(t, l) /\ Apart(t, q)
        /\ Apart(f, t)
        /\ \A b \in Int : Has(l, b) /\ ~Has(q, b) =>
             (f.start <= f.end /\ Has(f, b)) \/ (t.start <= t.end /\ Has(t, b))
    BY <1>1, <1>2, <1>8, PiecesApart
  <2> HIDE DEF f, t, s
  <2>4. /\ s \in Seq(Locks)
        /\ \A k \in 1 .. Len(s) : (s[k] = f /\ f.start <= f.end) \/ (s[k] = t /\ t.start <= t.end)
        /\ \A k, m \in 1 .. Len(s) : k < m => s[k] = f /\ s[m] = t /\ f \in Locks /\ t \in Locks
        /\ f.start <= f.end => \E k \in 1 .. Len(s) : s[k] = f
        /\ t.start <= t.end => \E k \in 1 .. Len(s) : s[k] = t
    <3>1. CASE f.start <= f.end /\ t.start <= t.end
      <4>1. s = <<f>> \o <<t>> /\ <<f>> \in Seq(Locks) /\ <<t>> \in Seq(Locks) /\ f \in Locks /\ t \in Locks
        BY <2>2, <2>3, <3>1
      <4> DEFINE u == <<f>>
                 w == <<t>>
      <4>2. /\ u \in Seq(Locks) /\ w \in Seq(Locks) /\ Len(u) = 1 /\ Len(w) = 1
            /\ u[1] = f /\ w[1] = t /\ s = u \o w
        BY <4>1
      <4> HIDE DEF u, w
      <4>3. /\ s \in Seq(Locks) /\ Len(s) = 2
            /\ \A k \in 1 .. 2 : s[k] = IF k <= 1 THEN u[k] ELSE w[k - 1]
        <5>1. /\ u \o w \in Seq(Locks) /\ Len(u \o w) = Len(u) + Len(w)
              /\ \A k \in 1 .. Len(u) + Len(w) :
                   (u \o w)[k] = IF k <= Len(u) THEN u[k] ELSE w[k - Len(u)]
          BY <4>2, ConcatProperties, Zenon
        <5>2. Len(u) + Len(w) = 2
          BY <4>2
        <5> QED BY <4>2, <5>1, <5>2
      <4>4. s[1] = f /\ s[2] = t
        BY <4>2, <4>3
      <4>5. /\ \A k \in 1 .. Len(s) : s[k] = f \/ s[k] = t
            /\ \A k, m \in 1 .. Len(s) : k < m => k = 1 /\ m = 2
            /\ 1 \in 1 .. Len(s) /\ 2 \in 1 .. Len(s)
        BY <4>3, <4>4
      <4> QED BY <3>1, <4>1, <4>3, <4>4, <4>5
    <3>2. CASE f.start <= f.end /\ ~(t.start <= t.end)
      <4>1. s = <<f>> /\ f \in Locks
        BY <2>2, <2>3, <3>2
      <4> QED BY <3>2, <4>1
    <3>3. CASE ~(f.start <= f.end) /\ t.start <= t.end
      <4>1. s = <<t>> /\ t \in Locks
        BY <2>2, <2>3, <3>3
      <4> QED BY <3>3, <4>1
    <3>4. CASE ~(f.start <= f.end) /\ ~(t.start <= t.end)
      <4>1. s = <<>>
        BY <2>2, <2>3, <3>4
      <4> QED BY <3>4, <4>1
    <3> QED BY <3>1, <3>2, <3>3, <3>4
  <2>7. \A k \in 1 .. Len(s) : s[k].owner = r.owner /\ Within(s[k], l) /\ Apart(s[k], q)
    BY <2>2, <2>4, <2>a
  <2>8. \A k, m \in 1 .. Len(s) : k < m => Apart(s[k], s[m])
    BY <2>4, <2>a
  <2>9. ASSUME NEW b \in Int, Has(l, b), ~Has(q, b)
        PROVE  \E k \in 1 .. Len(s) : s[k].type = l.type /\ Has(s[k], b)
    <3>1. (f.start <= f.end /\ Has(f, b)) \/ (t.start <= t.end /\ Has(t, b))
      BY <2>9, <2>a
    <3> QED BY <2>2, <2>4, <3>1
  <2>10. Placed(L, r, first, i, [acc EXCEPT !.kept = @ \o s])
    BY <1>6, <2>4, <2>7, <2>8, <2>9
  <2> QED BY <2>1, <2>10
<1> QED BY <1>5, <1>7, <1>8

-----------------------------------------------------------------------------
(* The loop.  A function that computes what it has after each lock.        *)
Turns(g, L, r, first, n) ==
  g = [i \in first - 1 .. first - 1 + n |->
         IF i < first THEN [request |-> r, kept |-> <<>>] ELSE Place(g[i - 1], L[i])]

LEMMA TurnsExists ==
  ASSUME NEW L, NEW r, NEW first \in Nat, NEW m \in Nat
  PROVE  \E g : Turns(g, L, r, first, m)
<1> DEFINE I == {n \in Nat : \E g : Turns(g, L, r, first, n)}
           start == [request |-> r, kept |-> <<>>]
<1>1. 0 \in I
  <2>1. Turns([i \in first - 1 .. first - 1 + 0 |-> start], L, r, first, 0)
    BY DEF Turns
  <2> QED BY <2>1
<1>2. ASSUME NEW n \in Nat, n \in I PROVE n + 1 \in I
  <2>1. PICK g : Turns(g, L, r, first, n)
    BY <1>2
  <2> DEFINE h == [i \in first - 1 .. first - 1 + (n + 1) |->
                     IF i <= first - 1 + n THEN g[i] ELSE Place(g[i - 1], L[i])]
  <2>2. Turns(h, L, r, first, n + 1)
    <3> HIDE DEF start
    <3>1. \A i \in first - 1 .. first - 1 + n :
            g[i] = IF i < first THEN start ELSE Place(g[i - 1], L[i])
      BY <2>1 DEF Turns, start
    <3>2. ASSUME NEW i \in first - 1 .. first - 1 + (n + 1)
          PROVE  h[i] = IF i < first THEN start ELSE Place(h[i - 1], L[i])
      <4>1. CASE i <= first - 1 + n
        <5>1. i \in first - 1 .. first - 1 + n /\ h[i] = g[i]
          BY <4>1
        <5>2. CASE i < first
          BY <3>1, <5>1, <5>2
        <5>3. CASE ~(i < first)
          <6>1. i - 1 \in first - 1 .. first - 1 + (n + 1) /\ i - 1 <= first - 1 + n
            BY <5>1, <5>3
          <6>2. h[i - 1] = g[i - 1]
            BY <6>1
          <6> QED BY <3>1, <5>1, <5>3, <6>2
        <5> QED BY <5>2, <5>3
      <4>2. CASE ~(i <= first - 1 + n)
        <5>1. i - 1 \in first - 1 .. first - 1 + (n + 1) /\ i - 1 <= first - 1 + n /\ ~(i < first)
          BY <4>2
        <5>2. h[i - 1] = g[i - 1] /\ h[i] = Place(g[i - 1], L[i])
          BY <4>2, <5>1
        <5> QED BY <5>1, <5>2
      <4> QED BY <4>1, <4>2
    <3>3. h = [i \in first - 1 .. first - 1 + (n + 1) |-> h[i]]
      OBVIOUS
    <3> HIDE DEF h
    <3>4. h = [i \in first - 1 .. first - 1 + (n + 1) |->
                 IF i < first THEN start ELSE Place(h[i - 1], L[i])]
      BY <3>2, <3>3, Zenon
    <3> QED BY <3>4 DEF Turns, start
  <2> QED BY <2>2
<1>3. \A n \in Nat : n \in I
  <2> HIDE DEF I
  <2> QED BY <1>1, <1>2, SetInduction
<1> QED BY <1>3

(* The run of the owner's locks.                                           *)
LEMMA TheRun ==
  ASSUME NEW L \in Seq(Locks), Grouped(L), NEW o
  PROVE  LET first == FirstOf(L, o)
             past == PastRun(L, first, o) IN
         /\ first \in 1 .. Len(L) + 1 /\ past \in first .. Len(L) + 1
         /\ \A i \in 1 .. Len(L) : L[i].owner = o <=> i \in first .. past - 1
         /\ past <= Len(L) => first < past
<1> DEFINE first == FirstOf(L, o)
           past == PastRun(L, first, o)
           n == Len(L)
           Ours == {i \in 1 .. n : L[i].owner = o}
<1>1. n \in Nat /\ DOMAIN L = 1 .. n
  BY LenProperties
<1>2. /\ first \in 1 .. n + 1 /\ \A j \in 1 .. first - 1 : L[j].owner # o
      /\ first <= n => L[first].owner = o
  <2>1. CASE \E i \in DOMAIN L : L[i].owner = o
    <3>1. Ours \in SUBSET Nat /\ Ours # {}
      BY <1>1, <2>1
    <3>2. PICK x \in Ours : \A y \in Ours : x <= y
      BY <3>1, LeastNatural, Zenon
    <3>3. x \in DOMAIN L /\ L[x].owner = o /\ \A j \in 1 .. (x - 1) : L[j].owner # o
      BY <1>1, <3>2
    <3>4. first = CHOOSE i \in DOMAIN L : L[i].owner = o /\ \A j \in 1 .. (i - 1) : L[j].owner # o
      BY <2>1 DEF FirstOf
    <3>5. first \in DOMAIN L /\ L[first].owner = o /\ \A j \in 1 .. (first - 1) : L[j].owner # o
      <4> HIDE DEF first
      <4> QED BY <3>3, <3>4
    <3> HIDE DEF first
    <3> QED BY <1>1, <3>5
  <2>2. CASE ~\E i \in DOMAIN L : L[i].owner = o
    <3>1. first = n + 1
      BY <2>2 DEF FirstOf
    <3> QED BY <1>1, <2>2, <3>1
  <2> QED BY <2>1, <2>2
<1> HIDE DEF first
<1>3. /\ past \in first .. n + 1 /\ \A j \in first .. past - 1 : L[j].owner = o
      /\ past > n \/ L[past].owner # o
  <2> DEFINE Ends == {k \in first .. n + 1 : k > n \/ L[k].owner # o}
  <2>1. Ends \in SUBSET Nat /\ n + 1 \in Ends
    BY <1>1, <1>2
  <2>2. PICK x \in Ends : \A y \in Ends : x <= y
    BY <2>1, LeastNatural
  <2>3. /\ x \in first .. (n + 1) /\ \A j \in first .. (x - 1) : L[j].owner = o
        /\ x > n \/ L[x].owner # o
    BY <1>1, <1>2, <2>2
  <2>4. past = CHOOSE k \in first .. (n + 1) :
                 /\ \A j \in first .. (k - 1) : L[j].owner = o
                 /\ k > n \/ L[k].owner # o
    BY DEF PastRun
  <2> HIDE DEF past, Ends
  <2> QED BY <2>3, <2>4
<1> HIDE DEF past
<1>4. past <= n => first < past
  BY <1>1, <1>2, <1>3
<1>5. ASSUME NEW i \in 1 .. n, L[i].owner = o PROVE i \in first .. past - 1
  <2>1. i >= first
    BY <1>1, <1>2, <1>5
  <2>2. CASE i >= past
    <3>1. first < i /\ first \in 1 .. n /\ past \in first .. i /\ L[first].owner = o
      BY <1>1, <1>2, <1>3, <1>4, <2>2
    <3>2. L[past].owner = o
      BY <1>5, <3>1 DEF Grouped
    <3> QED BY <1>1, <1>3, <2>2, <3>2
  <2> QED BY <1>1, <1>2, <1>3, <2>1, <2>2
<1>6. \A i \in 1 .. n : i \in first .. past - 1 => L[i].owner = o
  BY <1>3
<1> QED BY <1>2, <1>3, <1>4, <1>5, <1>6 DEF first, past

LEMMA AcquireIs ==
  ASSUME NEW L \in Seq(Locks), Grouped(L), NEW r \in Requests
  PROVE  \E first \in 1 .. Len(L) + 1 : \E past \in first .. Len(L) + 1 : \E acc :
           /\ \A i \in 1 .. Len(L) : L[i].owner = r.owner <=> i \in first .. past - 1
           /\ past <= Len(L) => first < past
           /\ Placed(L, r, first, past - 1, acc)
           /\ Acquire(L, r) = SubSeq(L, 1, first - 1) \o acc.kept
                              \o (IF r.type = "unlock" THEN <<>> ELSE <<acc.request>>)
                              \o SubSeq(L, past, Len(L))
<1> DEFINE first == FirstOf(L, r.owner)
           past == PastRun(L, first, r.owner)
           m == past - first
           start == [request |-> r, kept |-> <<>>]
           g == CHOOSE f : Turns(f, L, r, first, m)
           h == CHOOSE f : f = [i \in first - 1 .. past - 1 |->
                                  IF i < first THEN [request |-> r, kept |-> <<>>]
                                  ELSE Place(f[i - 1], L[i])]
           acc == h[past - 1]
<1>1. /\ first \in 1 .. Len(L) + 1 /\ past \in first .. Len(L) + 1
      /\ \A i \in 1 .. Len(L) : L[i].owner = r.owner <=> i \in first .. past - 1
      /\ past <= Len(L) => first < past
  BY TheRun
<1>2. Acquire(L, r) = SubSeq(L, 1, first - 1) \o acc.kept
                              \o (IF r.type = "unlock" THEN <<>> ELSE <<acc.request>>)
                              \o SubSeq(L, past, Len(L))
  BY DEF Acquire
<1> HIDE DEF first, past
<1>3. Len(L) \in Nat /\ first \in Nat /\ past \in Nat /\ m \in Nat /\ first - 1 + m = past - 1
  <2>1. Len(L) \in Nat
    BY LenProperties
  <2> QED BY <1>1, <2>1
<1>4. h = [i \in first - 1 .. past - 1 |-> IF i < first THEN start ELSE Place(h[i - 1], L[i])]
  <2>1. \E f : Turns(f, L, r, first, m)
    BY <1>3, TurnsExists
  <2>2. \E f : f = [i \in first - 1 .. past - 1 |->
                      IF i < first THEN [request |-> r, kept |-> <<>>] ELSE Place(f[i - 1], L[i])]
    BY <1>3, <2>1 DEF Turns
  <2> QED BY <2>2
<1> HIDE DEF h, m
<1>5. \A i \in first - 1 .. past - 1 : h[i] = IF i < first THEN start ELSE Place(h[i - 1], L[i])
  BY <1>4
<1> DEFINE I == {n \in Nat : Placed(L, r, first, first - 1 + n, h[first - 1 + n])}
<1>6. 0 \in I
  <2>1. h[first - 1] = start
    BY <1>3, <1>5 DEF m
  <2>2. start \in [request : Requests, kept : Seq(Locks)] /\ start.request = r /\ start.kept = <<>>
        /\ Len(start.kept) = 0
    OBVIOUS
  <2>3. /\ \A j \in first .. first - 1 : FALSE
        /\ \A k \in 1 .. 0 : FALSE
    BY <1>3
  <2>4. r.start <= r.start /\ r.end <= r.end
    BY RequestFields
  <2> HIDE DEF start
  <2>5. Placed(L, r, first, first - 1, start)
    BY <2>2, <2>3, <2>4 DEF Placed
  <2>6. first - 1 + 0 = first - 1
    BY <1>3
  <2> QED BY <2>1, <2>5, <2>6
<1>7. ASSUME NEW n \in Nat, n < m, n \in I PROVE n + 1 \in I
  <2> DEFINE i == first + n
  <2>1. /\ first \in 1 .. Len(L) /\ i \in first .. Len(L) /\ i \in first - 1 .. past - 1
        /\ ~(i < first) /\ first - 1 + n = i - 1 /\ first - 1 + (n + 1) = i
        /\ i \in 1 .. Len(L) /\ i \in first .. past - 1
    BY <1>1, <1>3, <1>7 DEF m
  <2> HIDE DEF i
  <2>2. Placed(L, r, first, i - 1, h[i - 1])
    BY <1>7, <2>1
  <2>3. L[i].owner = r.owner
    BY <1>1, <2>1
  <2>4. ASSUME NEW j \in first .. i - 1 PROVE Apart(L[j], L[i])
    <3>1. j \in 1 .. Len(L) /\ j \in first .. past - 1 /\ j < i
      BY <1>1, <1>3, <2>1
    <3>2. L[j].owner = r.owner
      BY <1>1, <3>1
    <3> QED BY <2>1, <2>3, <3>1, <3>2 DEF Grouped
  <2>5. Placed(L, r, first, i, Place(h[i - 1], L[i]))
    BY <2>1, <2>2, <2>3, <2>4, PlaceOne
  <2>6. h[i] = Place(h[i - 1], L[i])
    BY <1>5, <2>1
  <2> QED BY <2>1, <2>5, <2>6
<1>8. m \in I
  <2> HIDE DEF I
  <2>1. \A n \in 0 .. m : n \in I
    BY <1>3, <1>6, <1>7, BoundedInduction
  <2> QED BY <1>3, <2>1
<1>9. Placed(L, r, first, past - 1, acc)
  BY <1>3, <1>8
<1> QED BY <1>1, <1>2, <1>9

(* A list of four parts.                                                   *)
JoinOf(S, s, a, b, c, d) ==
  /\ s \in Seq(S) /\ Len(s) = Len(a) + Len(b) + Len(c) + Len(d)
  /\ \A i \in 1 .. Len(a) : s[i] = a[i]
  /\ \A i \in 1 .. Len(b) : s[Len(a) + i] = b[i]
  /\ \A i \in 1 .. Len(c) : s[Len(a) + Len(b) + i] = c[i]
  /\ \A i \in 1 .. Len(d) : s[Len(a) + Len(b) + Len(c) + i] = d[i]

LEMMA FourParts ==
  ASSUME NEW S, NEW a \in Seq(S), NEW b \in Seq(S), NEW c \in Seq(S), NEW d \in Seq(S),
         NEW s, s = a \o b \o c \o d
  PROVE  JoinOf(S, s, a, b, c, d)
<1>1. /\ Len(a) \in Nat /\ Len(b) \in Nat /\ Len(c) \in Nat /\ Len(d) \in Nat
  BY LenProperties
<1>2. \A x, y \in Seq(S) :
        /\ x \o y \in Seq(S) /\ Len(x \o y) = Len(x) + Len(y)
        /\ \A i \in 1 .. Len(x) + Len(y) : (x \o y)[i] = IF i <= Len(x) THEN x[i] ELSE y[i - Len(x)]
  BY ConcatProperties
<1>3. \A x, y \in Seq(S) :
        /\ x \o y \in Seq(S) /\ Len(x \o y) = Len(x) + Len(y) /\ Len(x) \in Nat /\ Len(y) \in Nat
        /\ \A i \in 1 .. Len(x) : (x \o y)[i] = x[i]
        /\ \A i \in 1 .. Len(y) : (x \o y)[Len(x) + i] = y[i]
  <2> SUFFICES ASSUME NEW x \in Seq(S), NEW y \in Seq(S)
               PROVE  /\ x \o y \in Seq(S) /\ Len(x \o y) = Len(x) + Len(y) /\ Len(x) \in Nat /\ Len(y) \in Nat
                      /\ \A i \in 1 .. Len(x) : (x \o y)[i] = x[i]
                      /\ \A i \in 1 .. Len(y) : (x \o y)[Len(x) + i] = y[i]
    OBVIOUS
  <2>1. Len(x) \in Nat /\ Len(y) \in Nat
    BY LenProperties
  <2>2. ASSUME NEW i \in 1 .. Len(x) PROVE (x \o y)[i] = x[i]
    BY <1>2, <2>1
  <2>3. ASSUME NEW i \in 1 .. Len(y) PROVE (x \o y)[Len(x) + i] = y[i]
    <3>1. /\ Len(x) + i \in 1 .. Len(x) + Len(y) /\ ~(Len(x) + i <= Len(x))
          /\ (Len(x) + i) - Len(x) = i
      BY <2>1
    <3> QED BY <1>2, <3>1
  <2> QED BY <1>2, <2>1, <2>2, <2>3
<1> DEFINE ab == a \o b
           abc == ab \o c
<1>s. s = abc \o d
  OBVIOUS
<1>4. /\ ab \in Seq(S) /\ Len(ab) = Len(a) + Len(b)
      /\ \A i \in 1 .. Len(a) : ab[i] = a[i]
      /\ \A i \in 1 .. Len(b) : ab[Len(a) + i] = b[i]
  BY <1>3
<1> HIDE DEF ab
<1>5. /\ abc \in Seq(S) /\ Len(abc) = Len(ab) + Len(c)
      /\ \A i \in 1 .. Len(ab) : abc[i] = ab[i]
      /\ \A i \in 1 .. Len(c) : abc[Len(ab) + i] = c[i]
  BY <1>3, <1>4
<1> HIDE DEF abc
<1>6. /\ s \in Seq(S) /\ Len(s) = Len(abc) + Len(d)
      /\ \A i \in 1 .. Len(abc) : s[i] = abc[i]
      /\ \A i \in 1 .. Len(d) : s[Len(abc) + i] = d[i]
  <2>1. /\ abc \o d \in Seq(S) /\ Len(abc \o d) = Len(abc) + Len(d)
        /\ \A i \in 1 .. Len(abc) : (abc \o d)[i] = abc[i]
        /\ \A i \in 1 .. Len(d) : (abc \o d)[Len(abc) + i] = d[i]
    BY <1>3, <1>5
  <2> QED BY <1>s, <2>1
<1>7. \A i \in 1 .. Len(a) : s[i] = a[i]
  BY <1>1, <1>4, <1>5, <1>6
<1>8. ASSUME NEW i \in 1 .. Len(b) PROVE s[Len(a) + i] = b[i]
  <2>1. Len(a) + i \in 1 .. Len(ab) /\ Len(a) + i \in 1 .. Len(abc)
    BY <1>1, <1>4, <1>5
  <2> QED BY <1>4, <1>5, <1>6, <2>1
<1>9. \A i \in 1 .. Len(c) : s[Len(a) + Len(b) + i] = c[i]
  BY <1>1, <1>4, <1>5, <1>6
<1>10. Len(s) = Len(a) + Len(b) + Len(c) + Len(d) /\ Len(abc) = Len(a) + Len(b) + Len(c)
  BY <1>1, <1>4, <1>5, <1>6
<1> QED BY <1>6, <1>7, <1>8, <1>9, <1>10 DEF JoinOf

(* What file_lock_acquire leaves: a list of the same kind, with the locks  *)
(* of the others as they were; the owner has the bytes of the request in   *)
(* its type, and its other bytes as before.                                *)
AcquiredAs(L, r, A) ==
  /\ A \in Seq(Locks) /\ Grouped(A)
  /\ \A i \in 1 .. Len(A) : A[i].owner # r.owner => \E j \in 1 .. Len(L) : A[i] = L[j]
  /\ \A j \in 1 .. Len(L) : L[j].owner # r.owner => \E i \in 1 .. Len(A) : A[i] = L[j]
  /\ \A i \in 1 .. Len(A), b \in Int : A[i].owner = r.owner /\ Has(A[i], b) =>
       IF Has(r, b) THEN A[i].type = r.type
       ELSE \E j \in 1 .. Len(L) : L[j].owner = r.owner /\ L[j].type = A[i].type /\ Has(L[j], b)
  /\ \A b \in Int : Has(r, b) /\ r.type # "unlock" =>
       \E i \in 1 .. Len(A) : A[i].owner = r.owner /\ Has(A[i], b)
  /\ \A j \in 1 .. Len(L), b \in Int : L[j].owner = r.owner /\ Has(L[j], b) /\ ~Has(r, b) =>
       \E i \in 1 .. Len(A) : A[i].owner = r.owner /\ Has(A[i], b)

LEMMA Acquired ==
  ASSUME NEW L \in Seq(Locks), Grouped(L), NEW r \in Requests
  PROVE  AcquiredAs(L, r, Acquire(L, r))
<1>1. PICK first \in 1 .. Len(L) + 1 : \E past \in first .. Len(L) + 1 : \E acc :
           /\ \A i \in 1 .. Len(L) : L[i].owner = r.owner <=> i \in first .. past - 1
           /\ past <= Len(L) => first < past
           /\ Placed(L, r, first, past - 1, acc)
           /\ Acquire(L, r) = SubSeq(L, 1, first - 1) \o acc.kept
                              \o (IF r.type = "unlock" THEN <<>> ELSE <<acc.request>>)
                              \o SubSeq(L, past, Len(L))
  BY AcquireIs
<1>2a. PICK past \in first .. Len(L) + 1 : \E acc :
           /\ \A i \in 1 .. Len(L) : L[i].owner = r.owner <=> i \in first .. past - 1
           /\ past <= Len(L) => first < past
           /\ Placed(L, r, first, past - 1, acc)
           /\ Acquire(L, r) = SubSeq(L, 1, first - 1) \o acc.kept
                              \o (IF r.type = "unlock" THEN <<>> ELSE <<acc.request>>)
                              \o SubSeq(L, past, Len(L))
  BY <1>1
<1>2. PICK acc :
           /\ \A i \in 1 .. Len(L) : L[i].owner = r.owner <=> i \in first .. past - 1
           /\ past <= Len(L) => first < past
           /\ Placed(L, r, first, past - 1, acc)
           /\ Acquire(L, r) = SubSeq(L, 1, first - 1) \o acc.kept
                              \o (IF r.type = "unlock" THEN <<>> ELSE <<acc.request>>)
                              \o SubSeq(L, past, Len(L))
  BY <1>2a
<1> DEFINE q == acc.request
           kept == acc.kept
           new == IF r.type = "unlock" THEN <<>> ELSE <<q>>
           pre == SubSeq(L, 1, first - 1)
           post == SubSeq(L, past, Len(L))
           A == pre \o kept \o new \o post
           n == Len(L)
           p == first - 1
           K == Len(kept)
           e == Len(new)
<1>3. /\ n \in Nat /\ first \in 1 .. n + 1 /\ past \in first .. n + 1 /\ p \in Nat
      /\ \A i \in 1 .. n : L[i] \in Locks
  <2>1. n \in Nat
    BY LenProperties
  <2> QED BY <2>1, ElementOfSeq
<1>4. /\ kept \in Seq(Locks) /\ K \in Nat /\ q \in Requests /\ q.owner = r.owner /\ q.type = r.type
      /\ q.start <= r.start /\ r.end <= q.end
      /\ \A k \in 1 .. K : kept[k] \in Locks /\ kept[k].owner = r.owner /\ Apart(kept[k], q)
      /\ \A k \in 1 .. K : \E j \in first .. past - 1 : Within(kept[k], L[j])
      /\ \A k, m \in 1 .. K : k < m => Apart(kept[k], kept[m])
      /\ \A b \in Int : Has(q, b) =>
           Has(r, b) \/ \E j \in first .. past - 1 : L[j].type = r.type /\ Has(L[j], b)
      /\ \A j \in first .. past - 1, b \in Int : Has(L[j], b) =>
           Has(q, b) \/ \E k \in 1 .. K : kept[k].type = L[j].type /\ Has(kept[k], b)
  <2>1. kept \in Seq(Locks) /\ q \in Requests
    BY <1>2 DEF Placed
  <2>2. K \in Nat /\ \A k \in 1 .. K : kept[k] \in Locks
    BY <2>1, LenProperties, ElementOfSeq
  <2> QED BY <1>2, <2>1, <2>2 DEF Placed
<1>5. /\ new \in Seq(Locks) /\ e = (IF r.type = "unlock" THEN 0 ELSE 1)
      /\ \A i \in 1 .. e : r.type # "unlock" /\ new[i] = q
  <2>1. CASE r.type = "unlock"
    BY <2>1
  <2>2. CASE r.type # "unlock"
    <3>1. q \in Locks
      BY <1>4, <2>2 DEF Requests, Locks, Ranges
    <3> QED BY <2>2, <3>1
  <2> QED BY <2>1, <2>2
<1>6. /\ pre \in Seq(Locks) /\ Len(pre) = p /\ \A i \in 1 .. p : pre[i] = L[i]
      /\ post \in Seq(Locks) /\ Len(post) = n - past + 1
      /\ \A i \in 1 .. n - past + 1 : post[i] = L[past + i - 1]
  <2>1. 1 \in 1 .. n + 1 /\ first - 1 \in 1 - 1 .. n /\ past \in 1 .. n + 1 /\ n \in past - 1 .. n
    BY <1>3
  <2>2. /\ pre \in Seq(Locks) /\ Len(pre) = (first - 1) - 1 + 1
        /\ \A i \in 1 .. (first - 1) - 1 + 1 : pre[i] = L[1 + i - 1]
    BY <2>1, SubSeqProperties
  <2>3. /\ post \in Seq(Locks) /\ Len(post) = n - past + 1
        /\ \A i \in 1 .. n - past + 1 : post[i] = L[past + i - 1]
    BY <2>1, SubSeqProperties
  <2>4. (first - 1) - 1 + 1 = p /\ \A i \in 1 .. p : 1 + i - 1 = i
    BY <1>3
  <2> QED BY <2>2, <2>3, <2>4
<1>7. /\ A \in Seq(Locks) /\ Len(A) = p + K + e + (n - past + 1)
      /\ \A i \in 1 .. p : A[i] = L[i]
      /\ \A i \in 1 .. K : A[p + i] = kept[i]
      /\ \A i \in 1 .. e : A[p + K + i] = new[i]
      /\ \A i \in 1 .. n - past + 1 : A[p + K + e + i] = L[past + i - 1]
  <2> HIDE DEF pre, kept, new, post
  <2>1. /\ A \in Seq(Locks) /\ Len(A) = Len(pre) + Len(kept) + Len(new) + Len(post)
        /\ \A i \in 1 .. Len(pre) : A[i] = pre[i]
        /\ \A i \in 1 .. Len(kept) : A[Len(pre) + i] = kept[i]
        /\ \A i \in 1 .. Len(new) : A[Len(pre) + Len(kept) + i] = new[i]
        /\ \A i \in 1 .. Len(post) : A[Len(pre) + Len(kept) + Len(new) + i] = post[i]
    <3>1. pre \in Seq(Locks) /\ kept \in Seq(Locks) /\ new \in Seq(Locks) /\ post \in Seq(Locks)
      BY <1>4, <1>5, <1>6
    <3>2. A = pre \o kept \o new \o post
      OBVIOUS
    <3> HIDE DEF A, q, n, p, K, e
    <3>3. JoinOf(Locks, A, pre, kept, new, post)
      BY <3>1, <3>2, FourParts
    <3> QED BY <3>3 DEF JoinOf
  <2> HIDE DEF A
  <2>2. Len(pre) = p /\ Len(kept) = K /\ Len(new) = e /\ Len(post) = n - past + 1
    BY <1>6
  <2> HIDE DEF p, K, e, n
  <2> QED BY <1>6, <2>1, <2>2
<1>8. Acquire(L, r) = A
  BY <1>2
<1> HIDE DEF A, pre, post, new, kept, q, p, K, e, n
<1>9. \A i \in 1 .. n : L[i].owner = r.owner <=> i \in first .. past - 1
  BY <1>2 DEF n
<1>10. /\ e \in Nat /\ (e = 0 \/ e = 1) /\ n \in Nat /\ K \in Nat /\ p \in Nat /\ p = first - 1
       /\ first \in Nat /\ past \in Nat /\ first <= past /\ past <= n + 1
       /\ Len(A) = p + K + e + (n - past + 1) /\ Len(A) \in Nat
  BY <1>3, <1>4, <1>5, <1>7 DEF p
(* Where an entry of the new list comes from.                              *)
<1>11. ASSUME NEW i \in 1 .. Len(A)
       PROVE  \/ i <= p /\ i \in 1 .. n /\ A[i] = L[i] /\ A[i].owner # r.owner
              \/ /\ p < i /\ i <= p + K + e /\ A[i].owner = r.owner
                 /\ \/ i <= p + K /\ i - p \in 1 .. K /\ A[i] = kept[i - p]
                    \/ i = p + K + 1 /\ e = 1 /\ A[i] = q
              \/ /\ i > p + K + e /\ A[i].owner # r.owner
                 /\ past - 1 + (i - (p + K + e)) \in past .. n
                 /\ A[i] = L[past - 1 + (i - (p + K + e))]
  <2>1. CASE i <= p
    <3>1. i \in 1 .. p /\ i \in 1 .. n /\ i \notin first .. past - 1
      BY <1>10, <2>1
    <3> QED BY <1>7, <1>9, <2>1, <3>1
  <2>2. CASE p < i /\ i <= p + K
    <3>1. i - p \in 1 .. K /\ p + (i - p) = i /\ i <= p + K + e
      BY <1>10, <2>2
    <3> QED BY <1>4, <1>7, <2>2, <3>1
  <2>3. CASE p + K < i /\ i <= p + K + e
    <3>1. e = 1 /\ i = p + K + 1 /\ 1 \in 1 .. e /\ p < i
      BY <1>10, <2>3
    <3>2. A[i] = q
      BY <1>5, <1>7, <3>1
    <3> QED BY <1>4, <2>3, <3>1, <3>2
  <2>4. CASE i > p + K + e
    <3> DEFINE k == i - (p + K + e)
    <3>1. /\ k \in 1 .. n - past + 1 /\ p + K + e + k = i
          /\ past + k - 1 = past - 1 + k /\ past - 1 + k \in past .. n
          /\ past - 1 + k \in 1 .. n /\ past - 1 + k \notin first .. past - 1
      BY <1>10, <2>4
    <3> HIDE DEF k
    <3>2. A[i] = L[past - 1 + k]
      BY <1>7, <3>1
    <3> QED BY <1>9, <2>4, <3>1, <3>2 DEF k
  <2> QED BY <1>10, <2>1, <2>2, <2>3, <2>4
<1>12. ASSUME NEW i \in 1 .. Len(A), NEW j \in 1 .. Len(A), i < j, A[i].owner = A[j].owner
       PROVE  Apart(A[i], A[j]) /\ \A k \in i .. j : A[k].owner = A[i].owner
  <2>1. CASE A[i].owner = r.owner
    <3>1. /\ p < i /\ j <= p + K + e
          /\ \/ i <= p + K /\ i - p \in 1 .. K /\ A[i] = kept[i - p]
             \/ i = p + K + 1 /\ e = 1 /\ A[i] = q
          /\ \/ j <= p + K /\ j - p \in 1 .. K /\ A[j] = kept[j - p]
             \/ j = p + K + 1 /\ e = 1 /\ A[j] = q
      BY <1>11, <1>12, <2>1
    <3>2. Apart(A[i], A[j])
      <4>1. i <= p + K /\ i - p \in 1 .. K /\ A[i] = kept[i - p]
        BY <1>10, <1>12, <3>1
      <4>2. CASE j <= p + K /\ j - p \in 1 .. K /\ A[j] = kept[j - p]
        <5>1. i - p < j - p
          BY <1>3, <1>12
        <5> QED BY <1>4, <4>1, <4>2, <5>1
      <4>3. CASE A[j] = q
        BY <1>4, <4>1, <4>3
      <4> QED BY <3>1, <4>2, <4>3
    <3>3. ASSUME NEW k \in i .. j PROVE A[k].owner = A[i].owner
      <4>1. k \in 1 .. Len(A) /\ p < k /\ k <= p + K + e
        <5>1. p < i /\ j <= p + K + e
          BY <3>1
        <5> QED BY <1>10, <5>1
      <4>2. ~(k <= p) /\ ~(k > p + K + e)
        BY <1>10, <4>1
      <4> QED BY <1>11, <2>1, <4>1, <4>2
    <3> QED BY <3>2, <3>3
  <2>2. CASE A[i].owner # r.owner /\ j <= p
    <3>1. /\ \A k \in i .. j : k \in 1 .. Len(A) /\ k \in 1 .. p
          /\ i \in 1 .. n /\ j \in 1 .. n /\ i \in i .. j /\ j \in i .. j
      BY <1>10, <1>12, <2>2
    <3>2. \A k \in i .. j : A[k] = L[k]
      BY <1>7, <3>1
    <3>3. L[i].owner = L[j].owner
      BY <1>12, <3>1, <3>2
    <3>4. Apart(L[i], L[j]) /\ \A k \in i .. j : L[k].owner = L[i].owner
      BY <1>12, <3>1, <3>3 DEF Grouped, n
    <3> QED BY <3>1, <3>2, <3>4
  <2>3. CASE A[i].owner # r.owner /\ i <= p /\ j > p
    <3>1. PICK h \in past .. n : A[j] = L[h]
      <4>1. ~(j <= p) /\ A[j].owner # r.owner
        BY <1>10, <1>12, <2>3
      <4> QED BY <1>11, <4>1
    <3>2. A[i] = L[i] /\ i \in 1 .. n /\ i < first /\ first < past /\ h \in 1 .. n /\ i < h
      BY <1>2, <1>3, <1>7, <1>10, <2>3, <3>1 DEF n
    <3>3. first \in i .. h /\ first \in 1 .. n /\ first \in first .. past - 1
      BY <1>3, <3>1, <3>2
    <3>4. L[first].owner = L[i].owner
      BY <1>12, <3>1, <3>2, <3>3 DEF Grouped, n
    <3> QED BY <1>9, <2>3, <3>2, <3>3, <3>4
  <2>4. CASE A[i].owner # r.owner /\ i > p
    <3> DEFINE d == past - 1 - (p + K + e)
    <3>1. i > p + K + e /\ d \in Int
      BY <1>10, <1>11, <2>4
    <3>2. \A k \in i .. j : k \in 1 .. Len(A) /\ k > p + K + e /\ past - 1 + (k - (p + K + e)) = d + k
      BY <1>10, <3>1
    <3> HIDE DEF d
    <3>3. \A k \in i .. j : d + k \in past .. n /\ A[k] = L[d + k]
      <4> TAKE k \in i .. j
      <4>1. k \in 1 .. Len(A) /\ k > p + K + e /\ past - 1 + (k - (p + K + e)) = d + k
        BY <3>2
      <4>2. ~(k <= p) /\ ~(k <= p + K + e)
        BY <1>10, <4>1
      <4> QED BY <1>11, <4>1, <4>2
    <3>4. /\ i \in i .. j /\ j \in i .. j /\ d + i < d + j
          /\ d + i \in 1 .. n /\ d + j \in 1 .. n
      <4>1. i \in i .. j /\ j \in i .. j
        BY <1>12
      <4>2. d + i \in past .. n /\ d + j \in past .. n
        BY <3>3, <4>1
      <4>3. past .. n \subseteq 1 .. n
        BY <1>10, <1>3
      <4>4. d + i < d + j
        BY <1>12, <3>1
      <4> QED BY <4>1, <4>2, <4>3, <4>4
    <3>5. L[d + i].owner = L[d + j].owner
      BY <1>12, <3>3, <3>4
    <3>6. Apart(L[d + i], L[d + j]) /\ \A k \in d + i .. d + j : L[k].owner = L[d + i].owner
      BY <3>4, <3>5 DEF Grouped, n
    <3>7. \A k \in i .. j : d + k \in d + i .. d + j
      BY <3>1
    <3> QED BY <3>3, <3>4, <3>6, <3>7
  <2> QED BY <1>10, <2>1, <2>2, <2>3, <2>4
<1>13. Grouped(A)
  BY <1>12 DEF Grouped
<1>14. ASSUME NEW i \in 1 .. Len(A), A[i].owner # r.owner PROVE \E j \in 1 .. n : A[i] = L[j]
  <2>1. past .. n \subseteq 1 .. n
    BY <1>3
  <2> QED BY <1>11, <1>14, <2>1
<1>15. ASSUME NEW j \in 1 .. n, L[j].owner # r.owner PROVE \E i \in 1 .. Len(A) : A[i] = L[j]
  <2>1. CASE j <= p
    <3>1. j \in 1 .. p /\ j \in 1 .. Len(A)
      BY <1>10, <2>1
    <3> QED BY <1>7, <3>1
  <2>2. CASE j > p
    <3> DEFINE k == j - past + 1
    <3>1. j \notin first .. past - 1
      BY <1>9, <1>15
    <3>2. k \in 1 .. n - past + 1 /\ past + k - 1 = j /\ p + K + e + k \in 1 .. Len(A)
      <4>1. j >= past /\ j <= n
        BY <1>10, <2>2, <3>1
      <4>2. k \in 1 .. n - past + 1 /\ past + k - 1 = j
        BY <1>10, <4>1
      <4> HIDE DEF k
      <4> QED BY <1>10, <4>2
    <3> HIDE DEF k
    <3>3. A[p + K + e + k] = L[past + k - 1]
      BY <1>7, <3>2
    <3> QED BY <3>2, <3>3
  <2>3. j <= p \/ j > p
    BY <1>10
  <2> QED BY <2>1, <2>2, <2>3
<1>16. \A b \in Int : Has(r, b) => Has(q, b)
  BY <1>4, RequestFields DEF Has
<1>17. first .. past - 1 \subseteq 1 .. n /\ \A j \in first .. past - 1 : L[j].owner = r.owner
  <2>1. first .. past - 1 \subseteq 1 .. n
    BY <1>3
  <2> QED BY <1>9, <2>1
<1>18. \A k \in 1 .. K, b \in Int : ~(Has(kept[k], b) /\ Has(q, b))
  <2>1. \A x \in Requests, y \in Requests, b \in Int : ~Overlap(x, y) => ~(Has(x, b) /\ Has(y, b))
    BY RequestFields DEF Overlap, Has
  <2>2. \A k \in 1 .. K : kept[k] \in Requests /\ ~Overlap(kept[k], q)
    BY <1>4, LockFields DEF Apart
  <2> QED BY <1>4, <2>1, <2>2
<1>19. ASSUME NEW i \in 1 .. Len(A), NEW b \in Int, A[i].owner = r.owner, Has(A[i], b)
       PROVE  IF Has(r, b) THEN A[i].type = r.type
              ELSE \E j \in 1 .. n : L[j].owner = r.owner /\ L[j].type = A[i].type /\ Has(L[j], b)
  <2>1. CASE i - p \in 1 .. K /\ A[i] = kept[i - p]
    <3>1. PICK j \in first .. past - 1 : Within(kept[i - p], L[j])
      BY <1>4, <2>1
    <3>2. kept[i - p] \in Locks /\ L[j] \in Locks /\ j \in 1 .. n
      BY <1>3, <1>4, <1>17, <2>1
    <3>3. Has(L[j], b) /\ L[j].type = A[i].type
      <4> DEFINE x == kept[i - p]
                 y == L[j]
      <4>1. x \in Locks /\ y \in Locks /\ Within(x, y) /\ Has(x, b) /\ x.type = A[i].type
        BY <1>19, <2>1, <3>1, <3>2
      <4> HIDE DEF x, y
      <4>2. Has(y, b) /\ y.type = x.type
        BY <4>1, LockFields DEF Within, Has
      <4> QED BY <4>1, <4>2 DEF y
    <3>4. ~Has(r, b)
      BY <1>16, <1>18, <1>19, <2>1
    <3> QED BY <1>17, <3>2, <3>3, <3>4
  <2>2. CASE A[i] = q
    BY <1>4, <1>17, <1>19, <2>2
  <2> QED BY <1>11, <1>19, <2>1, <2>2
<1>20. ASSUME NEW b \in Int, Has(q, b), r.type # "unlock"
       PROVE  \E i \in 1 .. Len(A) : A[i].owner = r.owner /\ Has(A[i], b)
  <2>1. e = 1
    BY <1>5, <1>20
  <2>2. 1 \in 1 .. e /\ p + K + 1 \in 1 .. Len(A)
    BY <1>10, <2>1
  <2>3. A[p + K + 1] = q
    BY <1>5, <1>7, <2>2
  <2> QED BY <1>4, <1>20, <2>2, <2>3
<1>21. ASSUME NEW j \in 1 .. n, NEW b \in Int, L[j].owner = r.owner, Has(L[j], b), ~Has(r, b)
       PROVE  \E i \in 1 .. Len(A) : A[i].owner = r.owner /\ Has(A[i], b)
  <2>1. j \in first .. past - 1
    BY <1>9, <1>21
  <2>2. CASE Has(q, b)
    <3>1. r.type # "unlock"
      <4>1. PICK h \in first .. past - 1 : L[h].type = r.type
        BY <1>4, <1>21, <2>2
      <4>2. h \in 1 .. n /\ L[h] \in Locks
        BY <1>3, <1>17
      <4> QED BY <4>1, <4>2, LockFields
    <3> QED BY <1>20, <2>2, <3>1
  <2>3. CASE \E k \in 1 .. K : Has(kept[k], b)
    <3>1. PICK k \in 1 .. K : Has(kept[k], b)
      BY <2>3
    <3>2. p + k \in 1 .. Len(A) /\ A[p + k] = kept[k]
      BY <1>7, <1>10
    <3>3. kept[k].owner = r.owner
      BY <1>4
    <3> QED BY <3>1, <3>2, <3>3
  <2> QED BY <1>4, <1>21, <2>1, <2>2, <2>3
<1> QED BY <1>7, <1>8, <1>13, <1>14, <1>15, <1>16, <1>19, <1>20, <1>21 DEF AcquiredAs, n

-----------------------------------------------------------------------------
(* The loop of file_lock_remove_owned_by.                                  *)
Stays(g, L, o, n) ==
  g = [i \in 0 .. n |->
         IF i = 0 THEN <<>>
         ELSE IF L[i].owner = o THEN g[i - 1] ELSE Append(g[i - 1], L[i])]

LEMMA StaysExists ==
  ASSUME NEW L, NEW o, NEW m \in Nat
  PROVE  \E g : Stays(g, L, o, m)
<1> DEFINE I == {n \in Nat : \E g : Stays(g, L, o, n)}
<1>1. 0 \in I
  <2>1. Stays([i \in 0 .. 0 |-> <<>>], L, o, 0)
    BY DEF Stays
  <2> QED BY <2>1
<1>2. ASSUME NEW n \in Nat, n \in I PROVE n + 1 \in I
  <2>1. PICK g : Stays(g, L, o, n)
    BY <1>2
  <2> DEFINE h == [i \in 0 .. n + 1 |->
                     IF i <= n THEN g[i]
                     ELSE IF L[i].owner = o THEN g[i - 1] ELSE Append(g[i - 1], L[i])]
  <2>2. Stays(h, L, o, n + 1)
    <3>1. \A i \in 0 .. n : g[i] = IF i = 0 THEN <<>>
              ELSE IF L[i].owner = o THEN g[i - 1] ELSE Append(g[i - 1], L[i])
      BY <2>1 DEF Stays
    <3>2. ASSUME NEW i \in 0 .. n + 1
          PROVE  h[i] = IF i = 0 THEN <<>>
              ELSE IF L[i].owner = o THEN h[i - 1] ELSE Append(h[i - 1], L[i])
      <4>1. CASE i = 0
        BY <3>1, <4>1
      <4>2. CASE i # 0
        <5>1. i - 1 \in 0 .. n /\ h[i - 1] = g[i - 1]
          BY <4>2
        <5>2. CASE i <= n
          <6>1. i \in 0 .. n /\ h[i] = g[i]
            BY <5>2
          <6> QED BY <3>1, <4>2, <5>1, <6>1
        <5>3. CASE ~(i <= n)
          <6>1. h[i] = IF L[i].owner = o THEN g[i - 1] ELSE Append(g[i - 1], L[i])
            BY <5>3
          <6> QED BY <4>2, <5>1, <6>1
        <5> QED BY <5>2, <5>3
      <4> QED BY <4>1, <4>2
    <3>3. h = [i \in 0 .. n + 1 |-> h[i]]
      OBVIOUS
    <3> HIDE DEF h
    <3>4. h = [i \in 0 .. n + 1 |-> IF i = 0 THEN <<>>
              ELSE IF L[i].owner = o THEN h[i - 1] ELSE Append(h[i - 1], L[i])]
      BY <3>2, <3>3, Zenon
    <3> QED BY <3>4 DEF Stays
  <2> QED BY <2>2
<1>3. \A n \in Nat : n \in I
  <2> HIDE DEF I
  <2> QED BY <1>1, <1>2, SetInduction
<1> QED BY <1>3

(* s is what the first n locks leave: f says where its entries were.       *)
LeftOf(L, o, n, s, f) ==
  /\ s \in Seq(Locks) /\ f \in [1 .. Len(s) -> 1 .. n]
  /\ \A i \in 1 .. Len(s) : s[i] = L[f[i]] /\ L[f[i]].owner # o
  /\ \A i, j \in 1 .. Len(s) : i < j => f[i] < f[j]
  /\ \A k \in 1 .. n : L[k].owner # o => \E i \in 1 .. Len(s) : f[i] = k

LEMMA RemovedIs ==
  ASSUME NEW L \in Seq(Locks), NEW o
  PROVE  \E f : LeftOf(L, o, Len(L), Removed(L, o), f)
<1> DEFINE g == CHOOSE f : Stays(f, L, o, Len(L))
<1>1. Len(L) \in Nat /\ \A i \in 1 .. Len(L) : L[i] \in Locks
  BY LenProperties, ElementOfSeq
<1>2. Stays(g, L, o, Len(L))
  BY <1>1, StaysExists
<1>3. Removed(L, o) = g[Len(L)]
  BY DEF Removed, Stays
<1> HIDE DEF g
<1>4. \A i \in 0 .. Len(L) :
        g[i] = IF i = 0 THEN <<>> ELSE IF L[i].owner = o THEN g[i - 1] ELSE Append(g[i - 1], L[i])
  BY <1>2 DEF Stays
<1> DEFINE I == {n \in Nat : \E f : LeftOf(L, o, n, g[n], f)}
<1>5. 0 \in I
  <2> DEFINE s == <<>>
             f == [i \in 1 .. 0 |-> 0]
  <2>1. g[0] = s
    BY <1>1, <1>4
  <2>2. s \in Seq(Locks) /\ Len(s) = 0 /\ f \in [1 .. Len(s) -> 1 .. 0]
    OBVIOUS
  <2>3. \A i \in 1 .. 0 : FALSE
    OBVIOUS
  <2> HIDE DEF s, f
  <2>4. LeftOf(L, o, 0, s, f)
    BY <2>2, <2>3 DEF LeftOf
  <2> QED BY <2>1, <2>4
<1>6. ASSUME NEW n \in Nat, n < Len(L), n \in I PROVE n + 1 \in I
  <2>1. PICK f : LeftOf(L, o, n, g[n], f)
    BY <1>6
  <2> DEFINE s == g[n]
             m == Len(s)
  <2>2. /\ s \in Seq(Locks) /\ m \in Nat /\ f \in [1 .. m -> 1 .. n]
        /\ \A i \in 1 .. m : s[i] = L[f[i]] /\ L[f[i]].owner # o
        /\ \A i, j \in 1 .. m : i < j => f[i] < f[j]
        /\ \A k \in 1 .. n : L[k].owner # o => \E i \in 1 .. m : f[i] = k
    <3>1. s \in Seq(Locks)
      BY <2>1 DEF LeftOf
    <3> QED BY <2>1, <3>1, LenProperties DEF LeftOf
  <2>3. n + 1 \in 0 .. Len(L) /\ n + 1 \in 1 .. Len(L) /\ n + 1 # 0 /\ (n + 1) - 1 = n
    BY <1>1, <1>6
  <2>4. g[n + 1] = IF L[n + 1].owner = o THEN s ELSE Append(s, L[n + 1])
    BY <1>4, <2>3
  <2> HIDE DEF s, m
  <2>5. CASE L[n + 1].owner = o
    <3>1. f \in [1 .. m -> 1 .. n + 1]
      BY <2>2
    <3>2. \A k \in 1 .. n + 1 : L[k].owner # o => k \in 1 .. n
      BY <2>5
    <3>3. LeftOf(L, o, n + 1, s, f)
      BY <2>2, <3>1, <3>2 DEF LeftOf, m
    <3> QED BY <2>4, <2>5, <3>3
  <2>6. CASE L[n + 1].owner # o
    <3> DEFINE t == Append(s, L[n + 1])
               h == [i \in 1 .. m + 1 |-> IF i = m + 1 THEN n + 1 ELSE f[i]]
    <3>1. L[n + 1] \in Locks
      BY <1>1, <2>3
    <3>2. /\ t \in Seq(Locks) /\ Len(t) = m + 1 /\ t[m + 1] = L[n + 1]
          /\ \A i \in 1 .. m : t[i] = s[i]
      BY <2>2, <3>1, AppendProperties DEF m
    <3>3. /\ h \in [1 .. m + 1 -> 1 .. n + 1] /\ h[m + 1] = n + 1 /\ \A i \in 1 .. m : h[i] = f[i]
      BY <2>2
    <3> HIDE DEF t, h
    <3>4. \A i \in 1 .. m + 1 : i = m + 1 \/ i \in 1 .. m
      BY <2>2
    <3>5. \A i \in 1 .. m + 1 : t[i] = L[h[i]] /\ L[h[i]].owner # o
      BY <2>2, <2>6, <3>2, <3>3, <3>4
    <3>6. ASSUME NEW i \in 1 .. m + 1, NEW j \in 1 .. m + 1, i < j PROVE h[i] < h[j]
      <4>1. i \in 1 .. m /\ f[i] \in 1 .. n
        BY <2>2, <3>6
      <4>2. CASE j = m + 1
        BY <2>2, <3>3, <4>1, <4>2
      <4>3. CASE j \in 1 .. m
        BY <2>2, <3>3, <3>6, <4>1, <4>3
      <4> QED BY <3>4, <4>2, <4>3
    <3>7. ASSUME NEW k \in 1 .. n + 1, L[k].owner # o PROVE \E i \in 1 .. m + 1 : h[i] = k
      <4>1. CASE k = n + 1
        <5>1. m + 1 \in 1 .. m + 1
          BY <2>2
        <5> QED BY <3>3, <4>1, <5>1
      <4>2. CASE k \in 1 .. n
        <5>1. PICK i \in 1 .. m : f[i] = k
          BY <2>2, <3>7, <4>2
        <5>2. i \in 1 .. m + 1
          BY <2>2
        <5> QED BY <3>3, <5>1, <5>2
      <4> QED BY <4>1, <4>2
    <3>8. LeftOf(L, o, n + 1, t, h)
      BY <3>2, <3>3, <3>5, <3>6, <3>7 DEF LeftOf
    <3>9. g[n + 1] = t /\ n + 1 \in Nat
      BY <2>4, <2>6 DEF t
    <3> QED BY <3>8, <3>9
  <2> QED BY <2>5, <2>6
<1>7. Len(L) \in I
  <2> HIDE DEF I
  <2>1. \A n \in 0 .. Len(L) : n \in I
    BY <1>1, <1>5, <1>6, BoundedInduction
  <2> QED BY <1>1, <2>1
<1> QED BY <1>3, <1>7

-----------------------------------------------------------------------------
(* The invariant: the list is grouped by owner and merged, it shows of     *)
(* each byte what was asked for last, and owners do not conflict.          *)
ByteTypes == {"read", "write", "unlock"}
ListExact ==
  /\ posixLocks \in Seq(Locks) /\ Grouped(posixLocks)
  /\ byteLocks \in [LockOwners -> [Bytes -> ByteTypes]]
  /\ \A i \in 1 .. Len(posixLocks), b \in Bytes :
       Has(posixLocks[i], b) => byteLocks[posixLocks[i].owner][b] = posixLocks[i].type
  /\ \A o \in LockOwners, b \in Bytes : byteLocks[o][b] # "unlock" =>
       \E i \in 1 .. Len(posixLocks) : posixLocks[i].owner = o /\ Has(posixLocks[i], b)
  /\ \A o, p \in LockOwners, b \in Bytes :
       o # p /\ byteLocks[o][b] = "write" => byteLocks[p][b] = "unlock"
LocksInv == lockOdd \/ ListExact

LEMMA LocksInitInv == LocksInit => ListExact
<1> SUFFICES ASSUME LocksInit PROVE ListExact
  OBVIOUS
<1>1. /\ posixLocks \in Seq(Locks) /\ Len(posixLocks) = 0
      /\ \A o \in LockOwners, b \in Bytes : byteLocks[o][b] = "unlock"
      /\ byteLocks \in [LockOwners -> [Bytes -> ByteTypes]]
  BY DEF LocksInit, ByteTypes
<1>2. \A i \in 1 .. Len(posixLocks) : FALSE
  BY <1>1
<1> QED BY <1>1, <1>2 DEF ListExact, Grouped

(* The range of fcntl_setlk: the one that is asked for, if it fits.       *)
LEMMA AskedFits ==
  ASSUME NEW f \in Flocks, ~Odd(f)
  PROVE  LET a == Asked(f)
             s == Wrap(f.start + f.offset)
             e == IF f.len > 0 THEN Wrap(s + f.len - 1) ELSE IF f.len < 0 THEN Wrap(s - 1) ELSE FileEnd
         IN  /\ a.start \in Int /\ a.end \in Int /\ Lowest < a.start /\ a.start <= a.end /\ a.end <= FileEnd
             /\ e = a.end /\ (IF f.len < 0 THEN Wrap(e + f.len + 1) ELSE s) = a.start
<1> DEFINE n == FileEnd + 1
           x == f.start + f.offset
           s == Wrap(x)
           a == Asked(f)
<1>1. /\ f.offset \in 0 .. n - 1 /\ f.start \in -n .. n - 1 /\ f.len \in -n .. n - 1
      /\ FileEnd \in Nat /\ n \in Int /\ n > 0 /\ x \in Int /\ FileEnd = n - 1 /\ Lowest = -n
  BY LocksAssumption DEF Bytes, Lowest
<1>2. /\ a.start = IF f.len < 0 THEN x + f.len ELSE x
      /\ a.end = IF f.len > 0 THEN x + f.len - 1 ELSE IF f.len < 0 THEN x - 1 ELSE n - 1
  BY <1>1 DEF Asked
<1>3. a.start \in -n + 1 .. n - 1 /\ a.end \in -n .. n - 1
  <2>1. a.start \in Bytes \ {Lowest} /\ a.end \in Bytes
    BY DEF Odd
  <2> QED BY <1>1, <2>1 DEF Bytes
<1>4. \A y \in Int : Wrap(y) = IF y > n - 1 THEN y - 2 * n ELSE IF y < -n THEN y + 2 * n ELSE y
  BY <1>1 DEF Wrap
<1> HIDE DEF n, x, a
<1>5. CASE f.len >= 0
  <2>1. x \in -n + 1 .. n - 1 /\ a.start = x
    BY <1>1, <1>2, <1>3, <1>5
  <2>2. s = x
    BY <1>1, <1>4, <2>1
  <2>3. f.len > 0 => Wrap(x + f.len - 1) = x + f.len - 1
    BY <1>1, <1>2, <1>3, <1>4
  <2> HIDE DEF s
  <2> QED BY <1>1, <1>2, <1>3, <1>5, <2>1, <2>2, <2>3 DEF s, x, a
<1>6. CASE f.len < 0
  <2>1. a.start = x + f.len /\ a.end = x - 1 /\ x \in -n + 1 .. n
    BY <1>1, <1>2, <1>3, <1>6
  <2>2. s = IF x = n THEN -n ELSE x
    BY <1>1, <1>4, <2>1
  <2>3. Wrap(s - 1) = x - 1
    BY <1>1, <1>4, <2>1, <2>2
  <2>4. Wrap((x - 1) + f.len + 1) = x + f.len
    BY <1>1, <1>3, <1>4, <2>1
  <2> HIDE DEF s
  <2> QED BY <1>1, <1>3, <1>6, <2>1, <2>3, <2>4 DEF s, x, a
<1> QED BY <1>1, <1>5, <1>6

LEMMA FlockIs ==
  ASSUME NEW o \in LockOwners, NEW f \in Flocks, ~Odd(f),
         NEW r, r = FromFlock(o, f.type, f.offset, f.start, f.len)
  PROVE  /\ r \in Requests /\ r.owner = o /\ r.type = f.type /\ r.type \in ByteTypes
         /\ r.start = Asked(f).start /\ r.end = Asked(f).end
<1> DEFINE a == Asked(f).start
           e == Asked(f).end
<1>1. f.type \in ByteTypes
  BY LocksAssumption DEF ByteTypes
<1>2. a \in Int /\ e \in Int /\ Lowest < a /\ a <= e /\ e <= FileEnd
  BY AskedFits
<1>3. r = [owner |-> o, type |-> f.type, end |-> e, start |-> a]
  BY AskedFits DEF FromFlock
<1> HIDE DEF a, e
<1>4. r \in Requests
  BY <1>1, <1>2, <1>3 DEF Requests, Ranges, ByteTypes
<1> QED BY <1>1, <1>3, <1>4 DEF a, e

LEMMA SetLkInv ==
  ASSUME ListExact, NEW o \in LockOwners, NEW f \in Flocks, SetLk(o, f), ~Odd(f)
  PROVE  ListExact'
<1> DEFINE r == FromFlock(o, f.type, f.offset, f.start, f.len)
           L == posixLocks
           A == posixLocks'
<1>1. r.owner = o /\ r.type = f.type /\ r.type \in ByteTypes /\ r \in Requests
      /\ Asked(f).start = r.start /\ Asked(f).end = r.end
  BY FlockIs
<1>2. /\ r.type # "unlock" => InTheWay(L, r) = {}
      /\ A = Acquire(L, r)
      /\ byteLocks' = [byteLocks EXCEPT ![o] =
                          [b \in Bytes |-> IF b \in r.start .. r.end THEN r.type ELSE @[b]]]
  BY <1>1 DEF SetLk, SetBytes
<1> HIDE DEF r
<1>3. r \in Requests
  BY <1>1
<1>4. AcquiredAs(L, r, A)
  BY <1>2, <1>3, Acquired DEF ListExact
<1> HIDE DEF A
<1>5. /\ byteLocks' \in [LockOwners -> [Bytes -> ByteTypes]]
      /\ \A p \in LockOwners, b \in Bytes :
           byteLocks'[p][b] = IF p = o /\ Has(r, b) THEN r.type ELSE byteLocks[p][b]
  BY <1>1, <1>2 DEF ListExact, Has
<1>6. Bytes \subseteq Int /\ Len(L) \in Nat /\ \A j \in 1 .. Len(L) : L[j] \in Locks
  BY Offsets, LenProperties, ElementOfSeq DEF Bytes, ListExact
<1>7. Len(A) \in Nat /\ \A j \in 1 .. Len(A) : A[j] \in Locks
  BY <1>4, LenProperties, ElementOfSeq DEF AcquiredAs
<1>8. ASSUME NEW i \in 1 .. Len(A), NEW b \in Bytes, Has(A[i], b)
      PROVE  byteLocks'[A[i].owner][b] = A[i].type
  <2>0. b \in Int /\ A[i].owner \in LockOwners
    BY <1>6, <1>7, LockFields
  <2>1. CASE A[i].owner # o
    <3>1. PICK j \in 1 .. Len(L) : A[i] = L[j]
      BY <1>1, <1>4, <2>1 DEF AcquiredAs
    <3>2. byteLocks[L[j].owner][b] = L[j].type
      BY <1>8, <3>1 DEF ListExact
    <3> QED BY <1>5, <2>0, <2>1, <3>1, <3>2
  <2>2. CASE A[i].owner = o
    <3>1. IF Has(r, b) THEN A[i].type = r.type
          ELSE \E j \in 1 .. Len(L) : L[j].owner = r.owner /\ L[j].type = A[i].type /\ Has(L[j], b)
      BY <1>1, <1>4, <1>8, <2>0, <2>2 DEF AcquiredAs
    <3>2. CASE Has(r, b)
      BY <1>5, <2>2, <3>1, <3>2
    <3>3. CASE ~Has(r, b)
      <4>1. PICK j \in 1 .. Len(L) : L[j].owner = o /\ L[j].type = A[i].type /\ Has(L[j], b)
        BY <1>1, <3>1, <3>3
      <4>2. byteLocks[L[j].owner][b] = L[j].type
        BY <4>1 DEF ListExact
      <4> QED BY <1>5, <2>2, <3>3, <4>1, <4>2
    <3> QED BY <3>2, <3>3
  <2> QED BY <2>1, <2>2
<1>9. ASSUME NEW p \in LockOwners, NEW b \in Bytes, byteLocks'[p][b] # "unlock"
      PROVE  \E i \in 1 .. Len(A) : A[i].owner = p /\ Has(A[i], b)
  <2>0. b \in Int
    BY <1>6
  <2>1. CASE p = o /\ Has(r, b)
    BY <1>1, <1>4, <1>5, <1>9, <2>0, <2>1 DEF AcquiredAs
  <2>2. CASE ~(p = o /\ Has(r, b))
    <3>1. PICK j \in 1 .. Len(L) : L[j].owner = p /\ Has(L[j], b)
      BY <1>5, <1>9, <2>2 DEF ListExact
    <3> QED BY <1>1, <1>4, <2>0, <2>2, <3>1 DEF AcquiredAs
  <2> QED BY <2>1, <2>2
<1>10. ASSUME NEW p \in LockOwners, NEW b \in Bytes, p # o, Has(r, b), byteLocks[p][b] # "unlock",
              r.type # "unlock"
       PROVE  r.type = "read" /\ byteLocks[p][b] # "write"
  <2>1. PICK j \in 1 .. Len(L) : L[j].owner = p /\ Has(L[j], b)
    BY <1>10 DEF ListExact
  <2>2. L[j].type = byteLocks[p][b]
    BY <2>1 DEF ListExact
  <2>3. DOMAIN L = 1 .. Len(L)
    BY <1>6, LenProperties DEF ListExact
  <2>4. ~Conflict(L[j], r)
    BY <1>2, <1>10, <2>3 DEF InTheWay
  <2> DEFINE l == L[j]
  <2>5. l \in Locks /\ Has(l, b) /\ b \in Int
    BY <1>6, <2>1
  <2>6. Overlap(l, r)
    <3> HIDE DEF l
    <3> QED BY <1>3, <1>10, <2>5, LockFields, RequestFields DEF Overlap, Has
  <2> QED BY <1>1, <1>10, <2>1, <2>2, <2>4, <2>6 DEF Conflict, ByteTypes
<1>11. ASSUME NEW p \in LockOwners, NEW e \in LockOwners, NEW b \in Bytes, p # e,
              byteLocks'[p][b] = "write"
       PROVE  byteLocks'[e][b] = "unlock"
  <2>1. CASE p = o /\ Has(r, b)
    <3>1. r.type = "write" /\ byteLocks'[e][b] = byteLocks[e][b]
      BY <1>5, <1>11, <2>1
    <3> QED BY <1>10, <1>11, <2>1, <3>1
  <2>2. CASE e = o /\ Has(r, b)
    <3>1. byteLocks[p][b] = "write" /\ byteLocks'[e][b] = r.type
      BY <1>5, <1>11, <2>2
    <3> QED BY <1>10, <1>11, <2>2, <3>1
  <2>3. CASE ~(p = o /\ Has(r, b)) /\ ~(e = o /\ Has(r, b))
    BY <1>5, <1>11, <2>3 DEF ListExact
  <2> QED BY <2>1, <2>2, <2>3
<1> QED BY <1>4, <1>5, <1>8, <1>9, <1>11 DEF ListExact, AcquiredAs, A

LEMMA RemoveOwnedByInv ==
  ASSUME ListExact, NEW o \in LockOwners, RemoveOwnedBy(o)
  PROVE  ListExact'
<1> DEFINE L == posixLocks
           A == posixLocks'
<1>1. PICK f : LeftOf(L, o, Len(L), A, f)
  BY RemovedIs DEF ListExact, RemoveOwnedBy
<1>2. /\ byteLocks' \in [LockOwners -> [Bytes -> ByteTypes]]
      /\ \A p \in LockOwners, b \in Bytes :
           byteLocks'[p][b] = IF p = o THEN "unlock" ELSE byteLocks[p][b]
  BY DEF ListExact, RemoveOwnedBy, ByteTypes
<1> HIDE DEF A
<1>3. /\ A \in Seq(Locks) /\ Len(A) \in Nat /\ f \in [1 .. Len(A) -> 1 .. Len(L)]
      /\ \A i \in 1 .. Len(A) : A[i] = L[f[i]] /\ L[f[i]].owner # o
      /\ \A i, j \in 1 .. Len(A) : i < j => f[i] < f[j]
      /\ \A k \in 1 .. Len(L) : L[k].owner # o => \E i \in 1 .. Len(A) : f[i] = k
  <2>1. A \in Seq(Locks)
    BY <1>1 DEF LeftOf
  <2> QED BY <1>1, <2>1, LenProperties DEF LeftOf
<1>4. Len(L) \in Nat /\ \A j \in 1 .. Len(L) : L[j] \in Locks
  BY LenProperties, ElementOfSeq DEF ListExact
<1>5. ASSUME NEW i \in 1 .. Len(A), NEW j \in 1 .. Len(A), i < j, A[i].owner = A[j].owner
      PROVE  Apart(A[i], A[j]) /\ \A k \in i .. j : A[k].owner = A[i].owner
  <2>1. /\ f[i] \in 1 .. Len(L) /\ f[j] \in 1 .. Len(L) /\ f[i] < f[j]
        /\ A[i] = L[f[i]] /\ A[j] = L[f[j]]
    BY <1>3, <1>5
  <2>2. Apart(L[f[i]], L[f[j]]) /\ \A k \in f[i] .. f[j] : L[k].owner = L[f[i]].owner
    <3> DEFINE x == f[i]
               y == f[j]
    <3>1. \A v, w \in 1 .. Len(L) : v < w /\ L[v].owner = L[w].owner =>
            Apart(L[v], L[w]) /\ \A k \in v .. w : L[k].owner = L[v].owner
      BY DEF ListExact, Grouped
    <3>2. x \in 1 .. Len(L) /\ y \in 1 .. Len(L) /\ x < y /\ L[x].owner = L[y].owner
      BY <1>5, <2>1
    <3> HIDE DEF x, y
    <3>3. Apart(L[x], L[y]) /\ \A k \in x .. y : L[k].owner = L[x].owner
      BY <3>1, <3>2
    <3> QED BY <3>3 DEF x, y
  <2>3. ASSUME NEW k \in i .. j PROVE f[k] \in f[i] .. f[j] /\ A[k] = L[f[k]]
    <3>1. k \in 1 .. Len(A) /\ (k = i \/ i < k) /\ (k = j \/ k < j)
      BY <1>3
    <3>2. f[k] \in 1 .. Len(L) /\ (f[i] = f[k] \/ f[i] < f[k]) /\ (f[k] = f[j] \/ f[k] < f[j])
      BY <1>3, <3>1
    <3> QED BY <1>3, <2>1, <3>1, <3>2
  <2> QED BY <2>1, <2>2, <2>3
<1>6. Grouped(A)
  BY <1>5 DEF Grouped
<1>7. ASSUME NEW i \in 1 .. Len(A), NEW b \in Bytes, Has(A[i], b)
      PROVE  byteLocks'[A[i].owner][b] = A[i].type
  <2>1. f[i] \in 1 .. Len(L) /\ A[i] = L[f[i]] /\ A[i].owner # o
    BY <1>3
  <2>2. A[i].owner \in LockOwners
    BY <1>4, <2>1, LockFields
  <2>3. byteLocks[A[i].owner][b] = A[i].type
    BY <1>7, <2>1 DEF ListExact
  <2> QED BY <1>2, <2>1, <2>2, <2>3
<1>8. ASSUME NEW p \in LockOwners, NEW b \in Bytes, byteLocks'[p][b] # "unlock"
      PROVE  \E i \in 1 .. Len(A) : A[i].owner = p /\ Has(A[i], b)
  <2>1. p # o
    BY <1>2, <1>8
  <2>2. PICK k \in 1 .. Len(L) : L[k].owner = p /\ Has(L[k], b)
    BY <1>2, <1>8, <2>1 DEF ListExact
  <2>3. PICK i \in 1 .. Len(A) : f[i] = k
    BY <1>3, <2>1, <2>2
  <2> QED BY <1>3, <2>2, <2>3
<1>9. \A p, e \in LockOwners, b \in Bytes :
        p # e /\ byteLocks'[p][b] = "write" => byteLocks'[e][b] = "unlock"
  BY <1>2 DEF ListExact
<1> QED BY <1>2, <1>3, <1>6, <1>7, <1>8, <1>9 DEF ListExact, A

(* What the list says of a byte is what was asked for.                     *)
LEMMA LocksInvExact == LocksInv => LocksExact
<1> SUFFICES ASSUME ListExact PROVE LocksExact
  BY DEF LocksInv, LocksExact
<1> DEFINE L == posixLocks
<1>1. /\ Len(L) \in Nat /\ DOMAIN L = 1 .. Len(L) /\ \A j \in 1 .. Len(L) : L[j] \in Locks
      /\ Bytes \subseteq Int /\ FileEnd \in Nat
  BY Offsets, LenProperties, ElementOfSeq DEF ListExact, Bytes
<1>2. \A o \in LockOwners, b \in Bytes : HeldBytes[o][b] = byteLocks[o][b]
  <2> SUFFICES ASSUME NEW o \in LockOwners, NEW b \in Bytes
               PROVE  HeldBytes[o][b] = byteLocks[o][b]
    OBVIOUS
  <2>1. HeldBytes[o][b] =
          IF \E i \in DOMAIN L : L[i].owner = o /\ b \in L[i].start .. L[i].end
          THEN (CHOOSE l \in Range(L) : l.owner = o /\ b \in l.start .. l.end).type
          ELSE "unlock"
    BY DEF HeldBytes
  <2>2. CASE \E i \in 1 .. Len(L) : L[i].owner = o /\ Has(L[i], b)
    <3> DEFINE l == CHOOSE l \in Range(L) : l.owner = o /\ b \in l.start .. l.end
    <3>1. \E k \in Range(L) : k.owner = o /\ b \in k.start .. k.end
      BY <1>1, <2>2 DEF Has, Range
    <3>2. l \in Range(L) /\ l.owner = o /\ b \in l.start .. l.end
      BY <3>1
    <3> HIDE DEF l
    <3>3. PICK i \in 1 .. Len(L) : l = L[i]
      BY <1>1, <3>2 DEF Range
    <3>4. byteLocks[o][b] = l.type
      BY <3>2, <3>3 DEF ListExact, Has
    <3> QED BY <1>1, <2>1, <2>2, <3>4 DEF Has, l
  <2>3. CASE ~\E i \in 1 .. Len(L) : L[i].owner = o /\ Has(L[i], b)
    <3>1. byteLocks[o][b] = "unlock"
      BY <2>3 DEF ListExact
    <3> QED BY <1>1, <2>1, <2>3, <3>1 DEF Has
  <2> QED BY <2>2, <2>3
<1>3. HeldBytes = byteLocks
  <2>1. byteLocks = [o \in LockOwners |-> [b \in Bytes |-> byteLocks[o][b]]]
    BY DEF ListExact
  <2>2. HeldBytes = [o \in LockOwners |-> [b \in Bytes |-> HeldBytes[o][b]]]
    BY DEF HeldBytes
  <2> QED BY <1>2, <2>1, <2>2
<1>4. \A i, j \in DOMAIN L : i < j /\ L[i].owner = L[j].owner
          => /\ \A k \in i .. j : L[k].owner = L[i].owner
             /\ ~Overlap(L[i], L[j])
             /\ L[i].type = L[j].type => ~Adjacent(L[i], L[j])
  BY <1>1 DEF ListExact, Grouped, Apart
<1>5. ASSUME NEW l \in Locks, Tellable(l)
      PROVE  FromFlock(l.owner, ToFlock(l).type, 0, ToFlock(l).start, ToFlock(l).len) = l
  <2>1. /\ l = [owner |-> l.owner, type |-> l.type, start |-> l.start, end |-> l.end]
        /\ l.start \in Int /\ l.end \in Int /\ Lowest < l.start /\ l.start <= l.end /\ l.end <= FileEnd
    BY RangeFields DEF Locks
  <2> DEFINE n == IF l.end # FileEnd THEN l.end - l.start + 1 ELSE 0
  <2>2. ToFlock(l).type = l.type /\ ToFlock(l).start = l.start /\ ToFlock(l).len = n
    <3>1. l.end # FileEnd => Wrap(l.end - l.start + 1) = l.end - l.start + 1
      BY <1>5, <2>1, Offsets DEF Tellable, Wrap
    <3> QED BY <3>1 DEF ToFlock
  <2>3. n \in Nat /\ (l.end # FileEnd => n > 0) /\ (l.end = FileEnd => n = 0)
        /\ (n > 0 => l.end = l.start + n - 1)
    BY <2>1
  <2> HIDE DEF n
  <2>4. FromFlock(l.owner, l.type, 0, l.start, n) =
          [owner |-> l.owner, type |-> l.type, start |-> l.start, end |-> l.end]
    <3>1. ~(n < 0) /\ l.start + 0 = l.start /\ Wrap(l.start) = l.start
      BY <2>1, <2>3, Offsets DEF Wrap
    <3>2. FromFlock(l.owner, l.type, 0, l.start, n) =
            [owner |-> l.owner, type |-> l.type,
             end |-> IF n > 0 THEN Wrap(l.start + n - 1) ELSE FileEnd, start |-> l.start]
      BY <3>1 DEF FromFlock
    <3>3. (IF n > 0 THEN Wrap(l.start + n - 1) ELSE FileEnd) = l.end
      BY <2>1, <2>3, Offsets DEF Wrap
    <3> QED BY <3>2, <3>3
  <2> QED BY <2>1, <2>2, <2>4
<1>6. ASSUME NEW i \in DOMAIN L, NEW o \in LockOwners, NEW f \in Flocks, ~Odd(f),
             NEW r, r = FromFlock(o, f.type, f.offset, f.start, f.len), i \in InTheWay(L, r)
      PROVE  \E b \in Bytes : Taken(L[i].owner, b, o, f)
  <2> DEFINE l == L[i]
             b == IF l.start < r.start THEN r.start ELSE l.start
  <2>1. l \in Locks /\ Conflict(l, r)
    BY <1>1, <1>6 DEF InTheWay
  <2>2. /\ r.owner = o /\ r.type = f.type /\ r.start = Asked(f).start /\ r.end = Asked(f).end
        /\ r.start \in Int /\ r.end \in Int /\ r.start <= r.end /\ r.end <= FileEnd
    BY <1>6, FlockIs, RequestFields
  <2>3. /\ l.start \in Int /\ l.end \in Int /\ l.start <= l.end /\ l.end <= FileEnd
        /\ l.type \in {"read", "write"} /\ Lowest < l.start /\ Lowest \in Int
    BY <2>1, LockFields, Offsets
  <2>4. /\ l.owner # r.owner /\ l.end >= r.start /\ r.end >= l.start
        /\ l.type = "write" \/ r.type = "write"
    BY <2>1 DEF Conflict, Overlap
  <2> HIDE DEF l
  <2>5. b \in Int /\ b \in Lowest .. FileEnd /\ b \in l.start .. l.end /\ b \in r.start .. r.end
    BY <1>1, <2>2, <2>3, <2>4
  <2> HIDE DEF b
  <2>6. byteLocks[l.owner][b] = l.type
    BY <1>1, <2>5 DEF ListExact, Has, Bytes, l
  <2>7. Taken(l.owner, b, o, f)
    BY <2>2, <2>3, <2>4, <2>5, <2>6 DEF Taken
  <2> QED BY <2>5, <2>7 DEF Bytes, l
<1>7. ASSUME NEW p \in LockOwners, NEW b \in Bytes, NEW o \in LockOwners, NEW f \in Flocks, ~Odd(f),
             NEW r, r = FromFlock(o, f.type, f.offset, f.start, f.len), Taken(p, b, o, f)
      PROVE  InTheWay(L, r) # {}
  <2>1. PICK i \in 1 .. Len(L) : L[i].owner = p /\ Has(L[i], b)
    BY <1>7 DEF ListExact, Taken
  <2>2. byteLocks[p][b] = L[i].type
    BY <2>1 DEF ListExact
  <2>3. /\ r.owner = o /\ r.type = f.type /\ r.start = Asked(f).start /\ r.end = Asked(f).end
        /\ r.start \in Int /\ r.end \in Int
    BY <1>7, FlockIs, RequestFields
  <2>4. L[i] \in Locks /\ b \in Int
    BY <1>1
  <2>5. L[i].start \in Int /\ L[i].end \in Int
    BY <2>4, LockFields
  <2>6. L[i].end >= r.start /\ r.end >= L[i].start
    BY <1>7, <2>1, <2>3, <2>4, <2>5 DEF Taken, Has
  <2>7. Conflict(L[i], r)
    BY <1>7, <2>1, <2>2, <2>3, <2>6 DEF Taken, Conflict, Overlap
  <2> QED BY <1>1, <2>7 DEF InTheWay
<1>8. \A o, p \in LockOwners, b \in Bytes :
        o # p /\ byteLocks[o][b] = "write" => byteLocks[p][b] = "unlock"
  BY DEF ListExact
<1>9. \A i \in DOMAIN L :
        LET f == ToFlock(L[i])
        IN  Tellable(L[i]) => FromFlock(L[i].owner, f.type, 0, f.start, f.len) = L[i]
  BY <1>1, <1>5
<1>10. ASSUME NEW o \in LockOwners, NEW f \in Flocks,
              NEW r, r = FromFlock(o, f.type, f.offset, f.start, f.len), ~Odd(f)
       PROVE  /\ \A i \in InTheWay(L, r) : \E b \in Bytes : Taken(L[i].owner, b, o, f)
              /\ f.type # "unlock" /\ (\E p \in LockOwners, b \in Bytes : Taken(p, b, o, f))
                   => InTheWay(L, r) # {}
  <2>1. InTheWay(L, r) \subseteq DOMAIN L
    BY DEF InTheWay
  <2> QED BY <1>6, <1>7, <1>10, <2>1
<1> HIDE DEF L
<1> QED BY <1>3, <1>4, <1>8, <1>9, <1>10 DEF LocksExact, L

(* Record locks, for files of any size and any number of owners and        *)
(* requests, those below zero and those that do not fit among them: until  *)
(* the code takes one that does not fit, the list of file_lock_acquire and *)
(* file_lock_remove_owned_by says of every byte what POSIX promises, and   *)
(* F_GETLK finds a lock exactly when a byte is taken.                      *)
THEOREM RecordLocksAreExact == LocksSpec => []LocksExact
<1>1. LocksInit => LocksInv
  BY LocksInitInv DEF LocksInv
<1>2. LocksInv /\ [LocksNext]_lockVars => LocksInv'
  <2>1. ASSUME LocksInv, LocksNext PROVE LocksInv'
    <3>1. ListExact
      BY <2>1 DEF LocksInv, LocksNext
    <3>2. ASSUME NEW o \in LockOwners, NEW f \in Flocks, SetLk(o, f) PROVE LocksInv'
      <4>1. CASE ~Odd(f)
        BY <3>1, <3>2, <4>1, SetLkInv DEF LocksInv
      <4>2. CASE Odd(f)
        <5>1. lockOdd' = Odd(f)
          BY <3>2, Zenon DEF SetLk
        <5>2. lockOdd'
          BY <4>2, <5>1, Zenon
        <5> QED BY <5>2, Zenon DEF LocksInv
      <4> QED BY <4>1, <4>2
    <3>3. ASSUME NEW o \in LockOwners, RemoveOwnedBy(o) PROVE LocksInv'
      BY <3>1, <3>3, RemoveOwnedByInv DEF LocksInv
    <3> QED BY <2>1, <3>2, <3>3 DEF LocksNext
  <2>2. ASSUME LocksInv, UNCHANGED lockVars PROVE LocksInv'
    BY <2>2 DEF LocksInv, ListExact, lockVars
  <2> QED BY <2>1, <2>2
<1> QED BY <1>1, <1>2, LocksInvExact, PTL DEF LocksSpec

-----------------------------------------------------------------------------
(* Polling (Poll).  The invariant adds to PollSafe the types and what a    *)
(* one-shot registration that has been reported is: disabled.              *)

PollFdRecords == [fd : Fds \cup {"free"}, et : BOOLEAN, oneshot : BOOLEAN, triggered : BOOLEAN,
                  disabled : BOOLEAN]

PollTypes ==
  /\ pollFds \in [Slots -> PollFdRecords]
  /\ readyFds \subseteq Fds /\ due \subseteq Fds /\ hostEdge \subseteq Slots /\ pipe \in Nat
  /\ waiter \in [PollThreads -> {"out", "asleep", "woken"}]
  /\ inHand \in [PollThreads -> SUBSET Slots]
  /\ told \subseteq Slots /\ quiet \subseteq Slots
  /\ shots \in [Slots -> Nat] /\ raises \in Nat

(* A one-shot registration was reported at most once, and then it is       *)
(* disabled until it is armed again.                                       *)
ShotIsOff == \A s \in Slots : pollFds[s].oneshot =>
               shots[s] = 0 \/ (shots[s] = 1 /\ pollFds[s].disabled)

PollInv == PollTypes /\ NoEventSleptOver /\ ShotIsOff

(* The smaller of two numbers, as FiniteSetsExt defines it.                *)
LEMMA MinOfTwo ==
  ASSUME NEW a \in Nat, NEW b \in Nat
  PROVE  Min({a, b}) = IF a <= b THEN a ELSE b
<1> DEFINE m == IF a <= b THEN a ELSE b
<1>1. m \in {a, b} /\ \A y \in {a, b} : m <= y
  OBVIOUS
<1>2. \A x \in {a, b} : (\A y \in {a, b} : x <= y) => x = m
  OBVIOUS
<1> QED BY <1>1, <1>2 DEF Min

LEMMA PollInitInv == PollInit => PollInv
<1> SUFFICES ASSUME PollInit PROVE PollInv
  OBVIOUS
<1>1. FreeSlot \in PollFdRecords /\ ~FreeSlot.oneshot
  BY DEF FreeSlot, PollFdRecords
<1>2. PollTypes
  BY <1>1 DEF PollInit, PollTypes
<1>3. NoEventSleptOver
  BY DEF PollInit, NoEventSleptOver
<1>4. ShotIsOff
  BY DEF PollInit, ShotIsOff
<1> QED BY <1>2, <1>3, <1>4 DEF PollInv

(* What NoEventSleptOver says of one slot.                                 *)
Watched(s) ==
  \/ pollFds[s].fd \in due \/ pipe > 0 \/ s \in HostEvents
  \/ \E t \in PollThreads : waiter[t] = "woken"
  \/ s \in quiet

LEMMA ArmInv ==
  ASSUME PollInv, NEW s \in Slots, NEW fd \in Fds, NEW et \in BOOLEAN, NEW oneshot \in BOOLEAN,
         Arm(s, fd, et, oneshot)
  PROVE  PollInv'
<1> USE DEF Arm
<1> DEFINE new == [fd |-> fd, et |-> et, oneshot |-> oneshot, triggered |-> FALSE, disabled |-> FALSE]
<1>1. new \in PollFdRecords
  BY DEF PollFdRecords
<1>2. PollTypes'
  BY <1>1 DEF PollInv, PollTypes
<1>3. \A z \in Slots : z # s => pollFds'[z] = pollFds[z] /\ shots'[z] = shots[z]
  BY DEF PollInv, PollTypes
<1>4. pollFds'[s] = new /\ shots'[s] = 0
  BY DEF PollInv, PollTypes
<1>5. ShotIsOff'
  BY <1>3, <1>4 DEF PollInv, ShotIsOff
<1>6. ASSUME NEW z \in Slots, NEW u \in PollThreads, waiter'[u] = "asleep",
             Reportable(pollFds, z)', z \notin told'
      PROVE  Watched(z)'
  <2>1. u \in Waiters
    BY <1>6 DEF Waiters
  <2>2. CASE z = s
    BY <2>1, <2>2 DEF Watched
  <2>3. CASE z # s
    <3>1. Reportable(pollFds, z) /\ z \notin told
      BY <1>3, <1>6, <2>3 DEF Reportable
    <3>2. Watched(z)
      BY <1>6, <3>1 DEF PollInv, NoEventSleptOver, Watched
    <3>3. z \in HostEvents => z \in HostEvents'
      BY <1>3, <2>3 DEF HostEvents, IsReal
    <3>4. z \in quiet => z \in quiet'
      BY <2>3
    <3> QED BY <1>3, <2>3, <3>2, <3>3, <3>4 DEF Watched
  <2> QED BY <2>2, <2>3
<1>7. NoEventSleptOver'
  BY <1>6 DEF NoEventSleptOver, Watched
<1> QED BY <1>2, <1>5, <1>7 DEF PollInv

LEMMA DelInv ==
  ASSUME PollInv, NEW fd \in Fds, PollDelFd(fd)
  PROVE  PollInv'
<1>1. PICK s \in SlotsOf(fd) :
       /\ pollFds' = [pollFds EXCEPT ![s] = FreeSlot]
       /\ hostEdge' = hostEdge \ {s}
       /\ told' = told \ {s} /\ quiet' = quiet \ {s}
       /\ shots' = [shots EXCEPT ![s] = 0]
  BY DEF PollDelFd
<1>2. s \in Slots
  BY DEF SlotsOf
<1>3. UNCHANGED <<readyFds, due, pipe, waiter, inHand, raises>>
  BY DEF PollDelFd
<1>4. FreeSlot \in PollFdRecords /\ ~FreeSlot.oneshot /\ FreeSlot.fd = "free"
  BY DEF FreeSlot, PollFdRecords
<1>5. PollTypes'
  BY <1>1, <1>2, <1>3, <1>4 DEF PollInv, PollTypes
<1>6. /\ pollFds'[s] = FreeSlot
      /\ \A z \in Slots : z # s => pollFds'[z] = pollFds[z] /\ shots'[z] = shots[z]
  BY <1>1, <1>2 DEF PollInv, PollTypes
<1>7. ShotIsOff'
  BY <1>2, <1>4, <1>6 DEF PollInv, ShotIsOff
<1>8. ASSUME NEW z \in Slots, NEW u \in PollThreads, waiter'[u] = "asleep",
             Reportable(pollFds, z)', z \notin told'
      PROVE  Watched(z)'
  <2>1. z # s
    <3>1. "free" \notin readyFds'
      BY <1>3, PollAssumption DEF PollInv, PollTypes
    <3> QED BY <1>4, <1>6, <1>8, <3>1 DEF Reportable
  <2>2. Reportable(pollFds, z) /\ z \notin told
    BY <1>1, <1>3, <1>6, <1>8, <2>1 DEF Reportable
  <2>3. Watched(z)
    BY <1>3, <1>8, <2>2 DEF PollInv, NoEventSleptOver, Watched
  <2>4. (z \in HostEvents => z \in HostEvents') /\ (z \in quiet => z \in quiet')
    BY <1>1, <1>3, <1>6, <2>1 DEF HostEvents, IsReal
  <2> QED BY <1>3, <1>6, <2>1, <2>3, <2>4 DEF Watched
<1>9. NoEventSleptOver'
  BY <1>8 DEF NoEventSleptOver, Watched
<1> QED BY <1>5, <1>7, <1>9 DEF PollInv

LEMMA RaiseInv ==
  ASSUME PollInv, NEW fd \in Fds, Raise(fd)
  PROVE  PollInv'
<1> USE DEF Raise
<1>1. SlotsOf(fd) \subseteq Slots
  BY DEF SlotsOf
<1>2. PollTypes'
  BY <1>1 DEF PollInv, PollTypes
<1>3. ShotIsOff'
  BY DEF PollInv, ShotIsOff
<1>4. ASSUME NEW z \in Slots, NEW u \in PollThreads, waiter'[u] = "asleep",
             Reportable(pollFds, z)', z \notin told'
      PROVE  Watched(z)'
  <2>1. CASE pollFds[z].fd = fd
    <3>1. z \in SlotsOf(fd) /\ ~pollFds[z].disabled
      BY <1>4, <2>1 DEF SlotsOf, Reportable
    <3>2. CASE fd \notin RealFds
      BY <2>1, <3>2 DEF Watched
    <3>3. CASE fd \in RealFds
      <4>1. z \in HostEvents'
        BY <2>1, <3>1, <3>3 DEF HostEvents, IsReal
      <4> QED BY <4>1 DEF Watched
    <3> QED BY <3>2, <3>3
  <2>2. CASE pollFds[z].fd # fd
    <3>1. Reportable(pollFds, z) /\ z \notin told /\ z \notin SlotsOf(fd)
      BY <1>4, <2>2 DEF SlotsOf, Reportable
    <3>2. Watched(z)
      BY <1>4, <3>1 DEF PollInv, NoEventSleptOver, Watched
    <3>3. z \in HostEvents => z \in HostEvents'
      BY <2>2 DEF HostEvents, IsReal
    <3> QED BY <3>1, <3>2, <3>3 DEF Watched
  <2> QED BY <2>1, <2>2
<1>5. NoEventSleptOver'
  BY <1>4 DEF NoEventSleptOver, Watched
<1> QED BY <1>2, <1>3, <1>5 DEF PollInv

LEMMA DrainInv ==
  ASSUME PollInv, NEW fd \in Fds, Drain(fd)
  PROVE  PollInv'
<1> USE DEF Drain
<1>1. PollTypes'
  BY DEF PollInv, PollTypes
<1>2. ShotIsOff'
  BY DEF PollInv, ShotIsOff
<1>3. ASSUME NEW z \in Slots, NEW u \in PollThreads, waiter'[u] = "asleep",
             Reportable(pollFds, z)', z \notin told'
      PROVE  Watched(z)'
  <2>1. Reportable(pollFds, z) /\ z \notin told /\ pollFds[z].fd # fd /\ z \notin SlotsOf(fd)
    BY <1>3 DEF SlotsOf, Reportable
  <2>2. Watched(z)
    BY <1>3, <2>1 DEF PollInv, NoEventSleptOver, Watched
  <2>3. z \in HostEvents => z \in HostEvents'
    BY <2>1 DEF HostEvents, IsReal
  <2> QED BY <2>2, <2>3 DEF Watched
<1>4. NoEventSleptOver'
  BY <1>3 DEF NoEventSleptOver, Watched
<1> QED BY <1>1, <1>2, <1>4 DEF PollInv

(* Marking an edge as not reported changes nothing else of a registration. *)
LEMMA Untriggered ==
  ASSUME NEW p \in PollFdRecords
  PROVE  /\ Untrigger(p) \in PollFdRecords
         /\ Untrigger(p).fd = p.fd /\ Untrigger(p).et = p.et
         /\ Untrigger(p).oneshot = p.oneshot /\ Untrigger(p).disabled = p.disabled
BY DEF Untrigger, PollFdRecords

LEMMA WakeupInv ==
  ASSUME PollInv, NEW fd \in Fds, PollWakeup(fd)
  PROVE  PollInv'
<1> USE DEF PollWakeup
<1>1. /\ pollFds' \in [Slots -> PollFdRecords]
      /\ \A z \in Slots :
           /\ pollFds'[z].fd = pollFds[z].fd /\ pollFds'[z].et = pollFds[z].et
           /\ pollFds'[z].oneshot = pollFds[z].oneshot /\ pollFds'[z].disabled = pollFds[z].disabled
           /\ z \notin SlotsOf(fd) => pollFds'[z] = pollFds[z]
  BY Untriggered DEF PollInv, PollTypes
<1>2. /\ pipe' \in Nat
      /\ Waiters # {} /\ SlotsOf(fd) # {} => pipe' > 0
      /\ pipe > 0 => pipe' > 0
  <2>1. pipe \in Nat /\ PipeRoom \in Nat /\ PipeRoom > 0
    BY PollAssumption DEF PollInv, PollTypes
  <2>2. Min({pipe + 1, PipeRoom}) = IF pipe + 1 <= PipeRoom THEN pipe + 1 ELSE PipeRoom
    BY <2>1, MinOfTwo
  <2> QED BY <2>1, <2>2
<1>3. PollTypes'
  BY <1>1, <1>2 DEF PollInv, PollTypes
<1>4. ShotIsOff'
  BY <1>1 DEF PollInv, ShotIsOff
<1>5. ASSUME NEW z \in Slots, NEW u \in PollThreads, waiter'[u] = "asleep",
             Reportable(pollFds, z)', z \notin told'
      PROVE  Watched(z)'
  <2>1. u \in Waiters
    BY <1>5 DEF Waiters
  <2>2. CASE z \in SlotsOf(fd)
    BY <1>2, <2>1, <2>2 DEF Watched
  <2>3. CASE z \notin SlotsOf(fd)
    <3>1. Reportable(pollFds, z) /\ z \notin told /\ pollFds[z].fd # fd
      BY <1>1, <1>5, <2>3 DEF SlotsOf, Reportable
    <3>2. Watched(z)
      BY <1>5, <3>1 DEF PollInv, NoEventSleptOver, Watched
    <3>3. z \in HostEvents => z \in HostEvents'
      BY <1>1 DEF HostEvents, IsReal
    <3> QED BY <1>1, <1>2, <2>3, <3>1, <3>2, <3>3 DEF Watched
  <2> QED BY <2>2, <2>3
<1>6. NoEventSleptOver'
  BY <1>5 DEF NoEventSleptOver, Watched
<1> QED BY <1>3, <1>4, <1>6 DEF PollInv

LEMMA RealPollWaitInv ==
  ASSUME PollInv, NEW t \in PollThreads, RealPollWait(t)
  PROVE  PollInv'
<1> USE DEF RealPollWait
<1>1. HostEvents \subseteq Slots
  BY DEF HostEvents, PollInv, PollTypes
<1>2. PollTypes'
  BY <1>1 DEF PollInv, PollTypes
<1>3. ShotIsOff'
  BY DEF PollInv, ShotIsOff
<1>4. waiter'[t] = "woken"
  BY DEF PollInv, PollTypes
<1>5. NoEventSleptOver'
  BY <1>4 DEF NoEventSleptOver
<1> QED BY <1>2, <1>3, <1>5 DEF PollInv

LEMMA GiveUpInv ==
  ASSUME PollInv, NEW t \in PollThreads, GiveUp(t)
  PROVE  PollInv'
<1> USE DEF GiveUp
<1>1. PollTypes'
  BY DEF PollInv, PollTypes, LeavePoll
<1>2. ShotIsOff'
  BY DEF PollInv, ShotIsOff
<1>3. ASSUME NEW z \in Slots, NEW u \in PollThreads, waiter'[u] = "asleep",
             Reportable(pollFds, z)', z \notin told'
      PROVE  Watched(z)'
  <2>1. u # t /\ waiter[u] = "asleep"
    BY <1>3 DEF PollInv, PollTypes
  <2>2. pipe' = pipe
    BY <2>1 DEF LeavePoll, Waiters
  <2>3. Reportable(pollFds, z) /\ z \notin told
    BY <1>3 DEF Reportable
  <2>4. Watched(z)
    BY <2>1, <2>3 DEF PollInv, NoEventSleptOver, Watched
  <2>5. HostEvents' = HostEvents
    BY DEF HostEvents, IsReal
  <2>6. \A v \in PollThreads : waiter[v] = "woken" => waiter'[v] = "woken"
    BY DEF PollInv, PollTypes
  <2> QED BY <2>2, <2>4, <2>5, <2>6 DEF Watched
<1>4. NoEventSleptOver'
  BY <1>3 DEF NoEventSleptOver, Watched
<1> QED BY <1>1, <1>2, <1>4 DEF PollInv

(* The look at every descriptor, of a thread that enters and of one that   *)
(* was woken.                                                              *)
LEMMA LookInv ==
  ASSUME PollInv, NEW t \in PollThreads, NEW fds \in [Slots -> PollFdRecords], NEW bytes \in Nat,
         \A s \in Slots : fds[s].oneshot = pollFds[s].oneshot /\ fds[s].disabled = pollFds[s].disabled,
         Look(t, fds, bytes), inHand' \in [PollThreads -> SUBSET Slots],
         UNCHANGED <<readyFds, due, raises>>
  PROVE  PollInv'
<1> DEFINE found == {s \in Slots : Reportable(fds, s)}
<1>1. CASE /\ found = {}
           /\ waiter' = [waiter EXCEPT ![t] = "asleep"]
           /\ pollFds' = fds /\ pipe' = bytes
           /\ UNCHANGED <<hostEdge, told, quiet, shots>>
  <2>1. PollTypes'
    BY <1>1 DEF PollInv, PollTypes
  <2>2. ShotIsOff'
    BY <1>1 DEF PollInv, ShotIsOff
  <2>3. NoEventSleptOver'
    BY <1>1 DEF NoEventSleptOver, Reportable
  <2> QED BY <2>1, <2>2, <2>3 DEF PollInv
<1>2. ASSUME NEW taken \in SUBSET found,
         /\ pollFds' = [s \in Slots |-> IF s \in taken THEN Reported(fds[s]) ELSE fds[s]]
         /\ hostEdge' = hostEdge \ {s \in taken : fds[s].oneshot}
         /\ told' = told \cup taken
         /\ quiet' = IF Waiters \subseteq {t} THEN {} ELSE (quiet \cup found) \ taken
         /\ shots' = [s \in Slots |-> IF s \in taken THEN Min({shots[s] + 1, 2}) ELSE shots[s]]
         /\ waiter' = [waiter EXCEPT ![t] = "out"]
         /\ pipe' = IF Waiters \subseteq {t} THEN 0 ELSE bytes
      PROVE PollInv'
  <2>1. \A p \in PollFdRecords : /\ Reported(p) \in PollFdRecords
                                 /\ Reported(p).oneshot = p.oneshot
                                 /\ Reported(p).disabled = p.oneshot
    BY DEF Reported, PollFdRecords
  <2>2. \A s \in Slots : /\ shots[s] \in Nat
                         /\ Min({shots[s] + 1, 2}) = IF shots[s] + 1 <= 2 THEN shots[s] + 1 ELSE 2
    BY MinOfTwo DEF PollInv, PollTypes
  <2>3. taken \subseteq Slots /\ found \subseteq Slots
    OBVIOUS
  <2>4. PollTypes'
    <3>1. pollFds' \in [Slots -> PollFdRecords]
      BY <1>2, <2>1
    <3>2. \A s \in Slots : Min({shots[s] + 1, 2}) \in Nat
      BY <2>2
    <3>3. shots' \in [Slots -> Nat]
      BY <1>2, <2>2, <3>2
    <3> QED BY <1>2, <2>3, <3>1, <3>3 DEF PollInv, PollTypes
  <2>5. ShotIsOff'
    <3> SUFFICES ASSUME NEW s \in Slots, pollFds'[s].oneshot
                 PROVE  shots'[s] = 0 \/ (shots'[s] = 1 /\ pollFds'[s].disabled)
      BY DEF ShotIsOff
    <3>1. CASE s \in taken
      <4>1. fds[s].oneshot /\ ~fds[s].disabled
        BY <1>2, <2>1, <3>1 DEF Reportable
      <4>2. shots[s] = 0
        BY <4>1 DEF PollInv, ShotIsOff
      <4>3. shots'[s] = 1
        BY <1>2, <2>2, <3>1, <4>2
      <4>4. pollFds'[s].disabled
        BY <1>2, <2>1, <3>1, <4>1
      <4> QED BY <4>3, <4>4
    <3>2. CASE s \notin taken
      BY <1>2, <3>2 DEF PollInv, ShotIsOff
    <3> QED BY <3>1, <3>2
  <2>6. ASSUME NEW z \in Slots, NEW u \in PollThreads, waiter'[u] = "asleep",
               Reportable(pollFds, z)', z \notin told'
        PROVE  z \in quiet'
    <3>1. u # t /\ u \in Waiters
      BY <1>2, <2>6 DEF PollInv, PollTypes, Waiters
    <3>2. z \notin taken
      BY <1>2, <2>6
    <3>3. z \in found
      BY <1>2, <2>6, <3>2 DEF Reportable
    <3> QED BY <1>2, <3>1, <3>2, <3>3
  <2>7. NoEventSleptOver'
    BY <2>6 DEF NoEventSleptOver
  <2> QED BY <2>4, <2>5, <2>7 DEF PollInv
<1> QED BY <1>1, <1>2 DEF Look

LEMMA PollStep == PollInv /\ [PollNext]_pollVars => PollInv'
<1> SUFFICES ASSUME PollInv, [PollNext]_pollVars PROVE PollInv'
  OBVIOUS
<1>1. ASSUME NEW fd \in Fds, NEW et \in BOOLEAN, NEW oneshot \in BOOLEAN,
             PollAddFd(fd, et, oneshot) \/ PollModFd(fd, et, oneshot)
      PROVE  PollInv'
  BY <1>1, ArmInv DEF PollAddFd, PollModFd, SlotsOf
<1>2. ASSUME NEW t \in PollThreads, PollWait(t) PROVE PollInv'
  <2>1. pollFds \in [Slots -> PollFdRecords] /\ pipe \in Nat /\ inHand' \in [PollThreads -> SUBSET Slots]
    BY <1>2 DEF PollWait, PollInv, PollTypes
  <2> QED BY <1>2, <2>1, LookInv DEF PollWait
<1>3. ASSUME NEW t \in PollThreads, Relook(t) PROVE PollInv'
  <2> DEFINE fds == [s \in Slots |-> IF s \in inHand[t] /\ pollFds[s].fd # "free"
                                     THEN Untrigger(pollFds[s]) ELSE pollFds[s]]
             bytes == IF pipe > 0 THEN pipe - 1 ELSE 0
  <2>1. /\ fds \in [Slots -> PollFdRecords]
        /\ \A s \in Slots : fds[s].oneshot = pollFds[s].oneshot /\ fds[s].disabled = pollFds[s].disabled
    BY Untriggered DEF PollInv, PollTypes
  <2>2. bytes \in Nat /\ inHand' \in [PollThreads -> SUBSET Slots]
    BY <1>3 DEF Relook, PollInv, PollTypes
  <2>3. Look(t, fds, bytes) /\ UNCHANGED <<readyFds, due, raises>>
    BY <1>3 DEF Relook
  <2> HIDE DEF fds, bytes
  <2> QED BY <2>1, <2>2, <2>3, LookInv
<1>4. CASE UNCHANGED pollVars
  <2>1. PollTypes'
    BY <1>4 DEF pollVars, PollInv, PollTypes
  <2>2. ShotIsOff'
    BY <1>4 DEF pollVars, PollInv, ShotIsOff
  <2>3. NoEventSleptOver'
    BY <1>4 DEF pollVars, PollInv, NoEventSleptOver, Reportable, HostEvents, IsReal
  <2> QED BY <2>1, <2>2, <2>3 DEF PollInv
<1> QED BY <1>1, <1>2, <1>3, <1>4, DelInv, RaiseInv, DrainInv, WakeupInv, RealPollWaitInv, GiveUpInv
        DEF PollNext

(* No thread sleeps through an event that nobody was told of, unless the   *)
(* code leaves it without a wakeup (a registration made or changed while a *)
(* thread sleeps, a full buffer), and a one-shot registration is reported  *)
(* at most once between two armings, for any number of descriptors,        *)
(* threads and events (fs/poll.c poll_wait, poll_wakeup, poll_mod_fd).     *)
THEOREM PollingIsSafe == PollSpec => []PollSafe
<1>1. PollInit => PollInv
  BY PollInitInv
<1>2. PollInv /\ [PollNext]_pollVars => PollInv'
  BY PollStep
<1>3. PollInv => PollSafe
  BY DEF PollInv, PollSafe, OneShotOnce, ShotIsOff
<1> QED BY <1>1, <1>2, <1>3, PTL DEF PollSpec

-----------------------------------------------------------------------------
(* Mounts (Mounts).  The invariant adds to MountsSafe the types, that the  *)
(* list is sorted and names a mount once, that the root is mounted because *)
(* init's root directory holds it, and that every holder holds a mount of  *)
(* the list.                                                               *)

MountRecs == [id : MountIds, point : Seq(STRING)]
MountFdRecs == [mount : MountIds, ino : Inodes \cup {0}, slot : BOOLEAN]
HeldCalls ==
  {c \in [pc : {"one", "two", "open", "release"}, held : Seq(MountIds)] :
     Len(c.held) \in 1 .. 2 /\ (c.pc \in {"one", "open"} => Len(c.held) = 1)}
MountCallRecs == {NoMountCall} \cup HeldCalls

MountTypes ==
  /\ mountList \in Seq(MountRecs)
  /\ mountRefs \in [Mounted -> Nat]
  /\ IsFiniteSet(DOMAIN mountFd) /\ mountFd \in [DOMAIN mountFd -> MountFdRecs]
  /\ IsFiniteSet(DOMAIN inodeRefs) /\ inodeRefs \in [DOMAIN inodeRefs -> Nat]
  /\ mountPwd \in DOMAIN mountFd
  /\ mountCall \in [MountThreads -> MountCallRecs]

(* The list by length of the point, each mount once, the root in it.       *)
Ordered(L) ==
  /\ \A i, j \in 1 .. Len(L) : L[i].id = L[j].id => i = j
  /\ \A i, j \in 1 .. Len(L) : i < j => Len(L[i].point) >= Len(L[j].point)
  /\ \E i \in 1 .. Len(L) : L[i].id = 1 /\ L[i].point = <<>>

RootHeld == 0 \in DOMAIN mountFd /\ mountFd[0].mount = 1 /\ mountFd[0].slot

HoldersMounted ==
  /\ \A f \in DOMAIN mountFd : mountFd[f].mount \in Mounted
  /\ \A t \in MountThreads : mountCall[t] # NoMountCall =>
       \A i \in 1 .. Len(mountCall[t].held) : mountCall[t].held[i] \in Mounted

InodeOf(r) == <<r.mount, r.ino>>
InodeKeys(fds) == {InodeOf(fds[f]) : f \in DOMAIN fds}
FdsOf(fds, k) == {f \in DOMAIN fds : InodeOf(fds[f]) = k}

InodesCounted ==
  /\ DOMAIN inodeRefs = InodeKeys(mountFd)
  /\ \A k \in DOMAIN inodeRefs : inodeRefs[k] = Cardinality(FdsOf(mountFd, k))

RefsCounted == \A m \in Mounted : mountRefs[m] = Holds(m)

MountInv ==
  /\ MountTypes /\ Ordered(mountList) /\ RootHeld /\ HoldersMounted
  /\ InodesCounted /\ RefsCounted

-----------------------------------------------------------------------------
(* Counting the holders.                                                   *)

FdsOn(fds, m) == {f \in DOMAIN fds : fds[f].mount = m}
KeysOn(keys, m) == {k \in keys : k[1] = m}
CallsOn(calls, m) ==
  {h \in MountThreads \X (1..2) :
     /\ calls[h[1]] # NoMountCall /\ h[2] \in DOMAIN calls[h[1]].held
     /\ calls[h[1]].held[h[2]] = m}
RestOn(calls, t, m) == {h \in CallsOn(calls, m) : h[1] # t}
HeldTwice(c, m) ==
  IF c = NoMountCall THEN 0
  ELSE One(c.held[1] = m) + One(Len(c.held) = 2 /\ c.held[2] = m)

LEMMA HoldsIs ==
  ASSUME NEW m
  PROVE  Holds(m) = Cardinality(FdsOn(mountFd, m)) + Cardinality(KeysOn(DOMAIN inodeRefs, m))
                    + Cardinality(CallsOn(mountCall, m))
BY DEF Holds, FdsOn, KeysOn, CallsOn

LEMMA HoldsIsNext ==
  ASSUME NEW CONSTANT m
  PROVE  Holds(m)' = Cardinality(FdsOn(mountFd', m)) + Cardinality(KeysOn(DOMAIN inodeRefs', m))
                     + Cardinality(CallsOn(mountCall', m))
BY DEF Holds, FdsOn, KeysOn, CallsOn

LEMMA OneMore ==
  ASSUME NEW S, IsFiniteSet(S), NEW x, x \notin S, NEW T, T = S \/ T = S \cup {x}
  PROVE  IsFiniteSet(T) /\ Cardinality(T) = Cardinality(S) + (IF x \in T THEN 1 ELSE 0)
<1>1. Cardinality(S) \in Nat
  BY FS_CardinalityType
<1>2. CASE T = S
  BY <1>1, <1>2
<1>3. CASE T = S \cup {x}
  BY <1>1, <1>3, FS_AddElement
<1> QED BY <1>2, <1>3

LEMMA OneLess ==
  ASSUME NEW S, IsFiniteSet(S), NEW x
  PROVE  /\ IsFiniteSet(S \ {x})
         /\ Cardinality(S \ {x}) = Cardinality(S) - (IF x \in S THEN 1 ELSE 0)
<1>1. Cardinality(S) \in Nat
  BY FS_CardinalityType
<1>2. CASE x \in S
  BY <1>1, <1>2, FS_RemoveElement
<1>3. CASE x \notin S
  BY <1>1, <1>3, FS_RemoveElement
<1> QED BY <1>2, <1>3

LEMMA CallsFinite ==
  ASSUME NEW calls, NEW m
  PROVE  IsFiniteSet(CallsOn(calls, m)) /\ Cardinality(CallsOn(calls, m)) \in Nat
<1>1. IsFiniteSet(1 .. 2)
  <2>1. 1 \in Int /\ 2 \in Int
    OBVIOUS
  <2> QED BY <2>1, FS_Interval
<1>2. IsFiniteSet(MountThreads \X (1 .. 2))
  BY <1>1, FS_Product, MountAssumption
<1>3. CallsOn(calls, m) \subseteq MountThreads \X (1 .. 2)
  BY DEF CallsOn
<1> QED BY <1>2, <1>3, FS_Subset, FS_CardinalityType

(* What one thread holds, and the others.                                  *)
LEMMA CallsSplit ==
  ASSUME NEW calls \in [MountThreads -> MountCallRecs], NEW t \in MountThreads, NEW m
  PROVE  /\ Cardinality(RestOn(calls, t, m)) \in Nat
         /\ Cardinality(CallsOn(calls, m)) = Cardinality(RestOn(calls, t, m)) + HeldTwice(calls[t], m)
<1> DEFINE rest == RestOn(calls, t, m)
           c == calls[t]
<1> USE DEF RestOn
<1>1. IsFiniteSet(rest) /\ Cardinality(rest) \in Nat
  BY CallsFinite, FS_Subset, FS_CardinalityType
<1>2. \A h \in CallsOn(calls, m) : h = <<h[1], h[2]>> /\ h[2] \in {1, 2}
  BY DEF CallsOn
<1>3. CASE c = NoMountCall
  <2>1. CallsOn(calls, m) = rest
    BY <1>3 DEF CallsOn
  <2>2. HeldTwice(c, m) = 0
    BY <1>3 DEF HeldTwice
  <2>3. Cardinality(CallsOn(calls, m)) = Cardinality(rest) + HeldTwice(c, m)
    <3> HIDE DEF rest
    <3> QED BY <1>1, <2>1, <2>2
  <2> QED BY <1>1, <2>3
<1>4. CASE c # NoMountCall
  <2>1. c \in HeldCalls
    BY <1>4 DEF MountCallRecs
  <2>2. DOMAIN c.held = 1 .. Len(c.held) /\ Len(c.held) \in {1, 2}
    BY <2>1, LenProperties DEF HeldCalls
  <2> DEFINE first == IF c.held[1] = m THEN rest \cup {<<t, 1>>} ELSE rest
  <2>3. /\ <<t, 1>> \notin rest /\ <<t, 2>> \notin first
        /\ <<t, 1>> \in CallsOn(calls, m) <=> c.held[1] = m
        /\ <<t, 2>> \in CallsOn(calls, m) <=> (Len(c.held) = 2 /\ c.held[2] = m)
    BY <1>4, <2>2 DEF CallsOn
  <2>4. /\ IsFiniteSet(first)
        /\ Cardinality(first) = Cardinality(rest) + One(c.held[1] = m)
    <3>1. (first = rest \/ first = rest \cup {<<t, 1>>}) /\ (<<t, 1>> \in first <=> c.held[1] = m)
      BY <2>3
    <3> HIDE DEF rest, first
    <3>2. Cardinality(first) = Cardinality(rest) + (IF <<t, 1>> \in first THEN 1 ELSE 0)
      BY <1>1, <2>3, <3>1, OneMore
    <3> QED BY <1>1, <2>3, <3>1, <3>2, OneMore DEF One
  <2>5. CallsOn(calls, m) = IF Len(c.held) = 2 /\ c.held[2] = m THEN first \cup {<<t, 2>>} ELSE first
    <3>1. \A h \in CallsOn(calls, m) : h \in rest \/ h = <<t, 1>> \/ h = <<t, 2>>
      BY <1>2
    <3>2. rest \subseteq CallsOn(calls, m)
      OBVIOUS
    <3> HIDE DEF rest
    <3> QED BY <2>3, <3>1, <3>2
  <2>6. Cardinality(CallsOn(calls, m)) =
          Cardinality(first) + One(Len(c.held) = 2 /\ c.held[2] = m)
    <3> HIDE DEF first
    <3>1. Cardinality(CallsOn(calls, m)) =
            Cardinality(first) + (IF <<t, 2>> \in CallsOn(calls, m) THEN 1 ELSE 0)
      BY <2>3, <2>4, <2>5, OneMore
    <3> QED BY <2>3, <3>1 DEF One
  <2>7. One(c.held[1] = m) \in Nat /\ One(Len(c.held) = 2 /\ c.held[2] = m) \in Nat
    BY DEF One
  <2>8. HeldTwice(c, m) = One(c.held[1] = m) + One(Len(c.held) = 2 /\ c.held[2] = m)
    BY <1>4 DEF HeldTwice
  <2> HIDE DEF rest, first, c
  <2> QED BY <1>1, <2>4, <2>6, <2>7, <2>8 DEF c, rest
<1> QED BY <1>3, <1>4

LEMMA HeldTwiceType ==
  ASSUME NEW c, NEW m
  PROVE  HeldTwice(c, m) \in Nat
BY DEF HeldTwice, One

LEMMA CallsChange ==
  ASSUME NEW calls \in [MountThreads -> MountCallRecs], NEW t \in MountThreads,
         NEW c \in MountCallRecs, NEW m
  PROVE  Cardinality(CallsOn([calls EXCEPT ![t] = c], m)) =
           Cardinality(CallsOn(calls, m)) - HeldTwice(calls[t], m) + HeldTwice(c, m)
<1> DEFINE new == [calls EXCEPT ![t] = c]
           rest == RestOn(calls, t, m)
           newRest == RestOn(new, t, m)
<1>1. new \in [MountThreads -> MountCallRecs] /\ new[t] = c
  OBVIOUS
<1>2. newRest = rest
  BY DEF CallsOn, RestOn
<1>3. /\ Cardinality(rest) \in Nat
      /\ Cardinality(CallsOn(calls, m)) = Cardinality(rest) + HeldTwice(calls[t], m)
  BY CallsSplit
<1>4. Cardinality(CallsOn(new, m)) = Cardinality(newRest) + HeldTwice(c, m)
  <2> HIDE DEF new
  <2> QED BY <1>1, CallsSplit
<1>5. HeldTwice(calls[t], m) \in Nat /\ HeldTwice(c, m) \in Nat
  BY HeldTwiceType
<1> HIDE DEF new, rest, newRest
<1> QED BY <1>2, <1>3, <1>4, <1>5 DEF new

(* The sets of descriptors and of inodes are finite.                       *)
LEMMA SetsFinite ==
  ASSUME NEW fds, IsFiniteSet(DOMAIN fds), NEW keys, IsFiniteSet(keys), NEW m
  PROVE  /\ IsFiniteSet(FdsOn(fds, m)) /\ Cardinality(FdsOn(fds, m)) \in Nat
         /\ IsFiniteSet(FdsOf(fds, m)) /\ Cardinality(FdsOf(fds, m)) \in Nat
         /\ IsFiniteSet(KeysOn(keys, m)) /\ Cardinality(KeysOn(keys, m)) \in Nat
<1>1. FdsOn(fds, m) \subseteq DOMAIN fds /\ FdsOf(fds, m) \subseteq DOMAIN fds /\ KeysOn(keys, m) \subseteq keys
  BY DEF FdsOn, FdsOf, KeysOn
<1>2. IsFiniteSet(FdsOn(fds, m)) /\ IsFiniteSet(FdsOf(fds, m)) /\ IsFiniteSet(KeysOn(keys, m))
  BY <1>1, FS_Subset
<1> QED BY <1>2, FS_CardinalityType

(* What is added to or taken from a set is counted once.                   *)
LEMMA KeyAdded ==
  ASSUME NEW keys, IsFiniteSet(keys), NEW k, k \notin keys, NEW m
  PROVE  /\ IsFiniteSet(keys \cup {k})
         /\ Cardinality(KeysOn(keys \cup {k}, m)) = Cardinality(KeysOn(keys, m)) + One(k[1] = m)
<1>1. IsFiniteSet(keys \cup {k})
  BY FS_AddElement
<1>2. IsFiniteSet(KeysOn(keys, m)) /\ Cardinality(KeysOn(keys, m)) \in Nat /\ k \notin KeysOn(keys, m)
  <2>1. KeysOn(keys, m) \subseteq keys
    BY DEF KeysOn
  <2> QED BY <2>1, FS_Subset, FS_CardinalityType
<1>3. CASE k[1] = m
  <2>1. KeysOn(keys \cup {k}, m) = KeysOn(keys, m) \cup {k}
    BY <1>3 DEF KeysOn
  <2> QED BY <1>1, <1>2, <1>3, <2>1, FS_AddElement DEF One
<1>4. CASE k[1] # m
  <2>1. KeysOn(keys \cup {k}, m) = KeysOn(keys, m)
    BY <1>4 DEF KeysOn
  <2> QED BY <1>1, <1>2, <1>4, <2>1 DEF One
<1> QED BY <1>3, <1>4

LEMMA KeyRemoved ==
  ASSUME NEW keys, IsFiniteSet(keys), NEW k \in keys, NEW m
  PROVE  /\ IsFiniteSet(keys \ {k})
         /\ Cardinality(KeysOn(keys \ {k}, m)) = Cardinality(KeysOn(keys, m)) - One(k[1] = m)
<1>1. IsFiniteSet(keys \ {k})
  BY FS_RemoveElement
<1>2. IsFiniteSet(KeysOn(keys, m)) /\ Cardinality(KeysOn(keys, m)) \in Nat
  <2>1. KeysOn(keys, m) \subseteq keys
    BY DEF KeysOn
  <2> QED BY <2>1, FS_Subset, FS_CardinalityType
<1>3. CASE k[1] = m
  <2>1. KeysOn(keys \ {k}, m) = KeysOn(keys, m) \ {k} /\ k \in KeysOn(keys, m)
    BY <1>3 DEF KeysOn
  <2> QED BY <1>1, <1>2, <1>3, <2>1, FS_RemoveElement DEF One
<1>4. CASE k[1] # m
  <2>1. KeysOn(keys \ {k}, m) = KeysOn(keys, m)
    BY <1>4 DEF KeysOn
  <2> QED BY <1>1, <1>2, <1>4, <2>1 DEF One
<1> QED BY <1>3, <1>4

LEMMA FdAdded ==
  ASSUME NEW fds, IsFiniteSet(DOMAIN fds), NEW f, f \notin DOMAIN fds, NEW r, NEW new,
         new = [g \in DOMAIN fds \cup {f} |-> IF g = f THEN r ELSE fds[g]], NEW m, NEW k
  PROVE  /\ IsFiniteSet(DOMAIN new)
         /\ Cardinality(FdsOn(new, m)) = Cardinality(FdsOn(fds, m)) + One(r.mount = m)
         /\ Cardinality(FdsOf(new, k)) = Cardinality(FdsOf(fds, k)) + One(InodeOf(r) = k)
         /\ InodeKeys(new) = InodeKeys(fds) \cup {InodeOf(r)}
<1>1. IsFiniteSet(DOMAIN fds \cup {f}) /\ DOMAIN new = DOMAIN fds \cup {f}
  BY FS_AddElement
<1>2. new[f] = r /\ \A g \in DOMAIN fds : g # f /\ new[g] = fds[g]
  OBVIOUS
<1>3. /\ IsFiniteSet(FdsOn(fds, m)) /\ Cardinality(FdsOn(fds, m)) \in Nat /\ f \notin FdsOn(fds, m)
      /\ IsFiniteSet(FdsOf(fds, k)) /\ Cardinality(FdsOf(fds, k)) \in Nat /\ f \notin FdsOf(fds, k)
  <2>1. FdsOn(fds, m) \subseteq DOMAIN fds /\ FdsOf(fds, k) \subseteq DOMAIN fds
    BY DEF FdsOn, FdsOf
  <2> QED BY <2>1, FS_Subset, FS_CardinalityType
<1>4. FdsOn(new, m) = IF r.mount = m THEN FdsOn(fds, m) \cup {f} ELSE FdsOn(fds, m)
  BY <1>1, <1>2 DEF FdsOn
<1>5. FdsOf(new, k) = IF InodeOf(r) = k THEN FdsOf(fds, k) \cup {f} ELSE FdsOf(fds, k)
  BY <1>1, <1>2 DEF FdsOf
<1>6. Cardinality(FdsOn(new, m)) = Cardinality(FdsOn(fds, m)) + One(r.mount = m)
  <2>1. f \in FdsOn(new, m) <=> r.mount = m
    BY <1>3, <1>4
  <2>2. Cardinality(FdsOn(new, m)) = Cardinality(FdsOn(fds, m)) + (IF f \in FdsOn(new, m) THEN 1 ELSE 0)
    BY <1>3, <1>4, OneMore
  <2> QED BY <2>1, <2>2 DEF One
<1>7. Cardinality(FdsOf(new, k)) = Cardinality(FdsOf(fds, k)) + One(InodeOf(r) = k)
  <2>1. f \in FdsOf(new, k) <=> InodeOf(r) = k
    BY <1>3, <1>5
  <2>2. Cardinality(FdsOf(new, k)) = Cardinality(FdsOf(fds, k)) + (IF f \in FdsOf(new, k) THEN 1 ELSE 0)
    BY <1>3, <1>5, OneMore
  <2> QED BY <2>1, <2>2 DEF One
<1>8. InodeKeys(new) = InodeKeys(fds) \cup {InodeOf(r)}
  BY <1>1, <1>2 DEF InodeKeys
<1> QED BY <1>1, <1>6, <1>7, <1>8

LEMMA FdRemoved ==
  ASSUME NEW fds, IsFiniteSet(DOMAIN fds), NEW f \in DOMAIN fds, NEW new,
         new = Restrict(fds, DOMAIN fds \ {f}), NEW m, NEW k
  PROVE  /\ IsFiniteSet(DOMAIN new)
         /\ Cardinality(FdsOn(new, m)) = Cardinality(FdsOn(fds, m)) - One(fds[f].mount = m)
         /\ Cardinality(FdsOf(new, k)) = Cardinality(FdsOf(fds, k)) - One(InodeOf(fds[f]) = k)
         /\ InodeKeys(new) = {x \in InodeKeys(fds) : x = InodeOf(fds[f]) => FdsOf(fds, x) # {f}}
<1>1. IsFiniteSet(DOMAIN fds \ {f}) /\ DOMAIN new = DOMAIN fds \ {f}
  BY FS_RemoveElement DEF Restrict
<1>2. \A g \in DOMAIN new : g # f /\ new[g] = fds[g]
  BY DEF Restrict
<1>3. /\ IsFiniteSet(FdsOn(fds, m)) /\ Cardinality(FdsOn(fds, m)) \in Nat
      /\ IsFiniteSet(FdsOf(fds, k)) /\ Cardinality(FdsOf(fds, k)) \in Nat
  <2>1. FdsOn(fds, m) \subseteq DOMAIN fds /\ FdsOf(fds, k) \subseteq DOMAIN fds
    BY DEF FdsOn, FdsOf
  <2> QED BY <2>1, FS_Subset, FS_CardinalityType
<1>4. /\ FdsOn(new, m) = FdsOn(fds, m) \ {f}
      /\ f \in FdsOn(fds, m) <=> fds[f].mount = m
  BY <1>1, <1>2 DEF FdsOn
<1>5. /\ FdsOf(new, k) = FdsOf(fds, k) \ {f}
      /\ f \in FdsOf(fds, k) <=> InodeOf(fds[f]) = k
  BY <1>1, <1>2 DEF FdsOf
<1>6. Cardinality(FdsOn(new, m)) = Cardinality(FdsOn(fds, m)) - One(fds[f].mount = m)
  <2>1. Cardinality(FdsOn(new, m)) = Cardinality(FdsOn(fds, m)) - (IF f \in FdsOn(fds, m) THEN 1 ELSE 0)
    BY <1>3, <1>4, OneLess
  <2> QED BY <1>4, <2>1 DEF One
<1>7. Cardinality(FdsOf(new, k)) = Cardinality(FdsOf(fds, k)) - One(InodeOf(fds[f]) = k)
  <2>1. Cardinality(FdsOf(new, k)) = Cardinality(FdsOf(fds, k)) - (IF f \in FdsOf(fds, k) THEN 1 ELSE 0)
    BY <1>3, <1>5, OneLess
  <2> QED BY <1>5, <2>1 DEF One
<1>8. InodeKeys(new) = {x \in InodeKeys(fds) : x = InodeOf(fds[f]) => FdsOf(fds, x) # {f}}
  <2>1. ASSUME NEW x \in InodeKeys(new)
        PROVE  x \in InodeKeys(fds) /\ (x = InodeOf(fds[f]) => FdsOf(fds, x) # {f})
    <3>1. PICK g \in DOMAIN new : x = InodeOf(new[g])
      BY DEF InodeKeys
    <3>2. g \in DOMAIN fds /\ g # f /\ x = InodeOf(fds[g])
      BY <1>1, <1>2, <3>1
    <3> QED BY <3>2 DEF InodeKeys, FdsOf
  <2>2. ASSUME NEW x \in InodeKeys(fds), x = InodeOf(fds[f]) => FdsOf(fds, x) # {f}
        PROVE  x \in InodeKeys(new)
    <3>1. PICK g \in DOMAIN fds : x = InodeOf(fds[g])
      BY DEF InodeKeys
    <3>2. CASE g # f
      BY <1>1, <1>2, <3>1, <3>2 DEF InodeKeys
    <3>3. CASE g = f
      <4>1. f \in FdsOf(fds, x)
        BY <3>1, <3>3 DEF FdsOf
      <4>2. PICK h \in FdsOf(fds, x) : h # f
        BY <2>2, <3>1, <3>3, <4>1
      <4>3. h \in DOMAIN new /\ x = InodeOf(new[h])
        BY <1>1, <1>2, <4>2 DEF FdsOf
      <4> QED BY <4>3 DEF InodeKeys
    <3> QED BY <3>2, <3>3
  <2> QED BY <2>1, <2>2
<1> QED BY <1>1, <1>6, <1>7, <1>8

-----------------------------------------------------------------------------
(* The list of mounts.                                                     *)

(* mount_find finds a mount: the first whose point is the path or above.   *)
LEMMA FindIs ==
  ASSUME MountTypes, Ordered(mountList), NEW path \in Points
  PROVE  \E i \in 1 .. Len(mountList) :
           /\ Find(path) = mountList[i].id /\ IsPrefix(mountList[i].point, path)
           /\ \A j \in 1 .. (i - 1) : ~IsPrefix(mountList[j].point, path)
<1>1. Len(mountList) \in Nat /\ DOMAIN mountList = 1 .. Len(mountList)
  BY LenProperties DEF MountTypes
<1> DEFINE T == {i \in 1 .. Len(mountList) : IsPrefix(mountList[i].point, path)}
<1>2. IsPrefix(<<>>, path)
  <2>1. path \in Seq(STRING) /\ Len(path) \in Nat
    BY MountAssumption, LenProperties
  <2>2. SubSeq(<<>>, 1, 0) = <<>> /\ SubSeq(path, 1, 0) = <<>>
    BY SubSeqEmpty
  <2>3. Len(<<>>) = 0
    OBVIOUS
  <2> QED BY <2>1, <2>2, <2>3 DEF IsPrefix
<1>3. T # {} /\ T \subseteq Nat
  BY <1>1, <1>2 DEF Ordered
<1>4. PICK x \in T : \A y \in T : x <= y
  <2> HIDE DEF T
  <2> QED BY <1>3, LeastNatural
<1>5. /\ x \in DOMAIN mountList /\ IsPrefix(mountList[x].point, path)
      /\ \A j \in 1 .. (x - 1) : ~IsPrefix(mountList[j].point, path)
  BY <1>1, <1>4
<1> QED BY <1>1, <1>5 DEF Find

LEMMA MountedIs ==
  ASSUME mountList \in Seq(MountRecs)
  PROVE  Mounted = {mountList[i].id : i \in 1 .. Len(mountList)} /\ Mounted \subseteq MountIds
<1>1. DOMAIN mountList = 1 .. Len(mountList)
  BY LenProperties
<1>2. \A i \in 1 .. Len(mountList) : mountList[i] \in MountRecs
  BY ElementOfSeq
<1> QED BY <1>1, <1>2 DEF Mounted, MountRecs

LEMMA FindMounted ==
  ASSUME MountTypes, Ordered(mountList), NEW path \in Points
  PROVE  Find(path) \in Mounted /\ Find(path) \in MountIds
BY FindIs, MountedIs DEF MountTypes

PutAt(S, N, L, k, e) ==
  /\ N \in Seq(S) /\ Len(N) = Len(L) + 1
  /\ \A i \in 1 .. Len(L) + 1 : N[i] = IF i <= k THEN L[i] ELSE IF i = k + 1 THEN e ELSE L[i - 1]

LEMMA ListInsert ==
  ASSUME NEW S, NEW L \in Seq(S), NEW k \in 0 .. Len(L), NEW e \in S
  PROVE  PutAt(S, InsertAt(L, k + 1, e), L, k, e)
<1> DEFINE a == SubSeq(L, 1, k)
           b == SubSeq(L, k + 1, Len(L))
           n == Len(L)
<1>1. n \in Nat /\ k \in Nat /\ \A i \in 1 .. n : L[i] \in S
  BY LenProperties, ElementOfSeq
<1>2. a \in Seq(S) /\ Len(a) = k /\ \A i \in 1 .. k : a[i] = L[i]
  <2>1. 1 \in Int /\ k \in Int /\ \A i \in 1 .. k : L[i] \in S
    BY <1>1
  <2>2. /\ a \in Seq(S) /\ Len(a) = IF 1 <= k THEN k - 1 + 1 ELSE 0
        /\ \A i \in 1 .. k - 1 + 1 : a[i] = L[1 + i - 1]
    BY <2>1, SubSeqProperties
  <2> HIDE DEF a
  <2> QED BY <1>1, <2>2
<1>3. b \in Seq(S) /\ Len(b) = n - k /\ \A i \in 1 .. n - k : b[i] = L[k + i]
  <2>1. k + 1 \in Int /\ n \in Int /\ \A i \in k + 1 .. n : L[i] \in S
    BY <1>1
  <2>2. /\ b \in Seq(S) /\ Len(b) = IF k + 1 <= n THEN n - (k + 1) + 1 ELSE 0
        /\ \A i \in 1 .. n - (k + 1) + 1 : b[i] = L[(k + 1) + i - 1]
    BY <2>1, SubSeqProperties
  <2> HIDE DEF b
  <2> QED BY <1>1, <2>2
<1>4. InsertAt(L, k + 1, e) = (a \o <<e>>) \o b
  <2>1. (k + 1) - 1 = k
    BY <1>1
  <2> QED BY <2>1 DEF InsertAt
<1>5. <<e>> \in Seq(S) /\ Len(<<e>>) = 1 /\ <<e>>[1] = e
  OBVIOUS
<1> HIDE DEF a, b
<1>6. /\ a \o <<e>> \in Seq(S) /\ Len(a \o <<e>>) = k + 1
      /\ \A i \in 1 .. k + 1 : (a \o <<e>>)[i] = IF i <= k THEN a[i] ELSE <<e>>[i - k]
  BY <1>2, <1>5, ConcatProperties
<1> DEFINE c == a \o <<e>>
<1>7. c \in Seq(S) /\ Len(c) = k + 1 /\ Len(c) + Len(b) = n + 1
  <2>1. c \in Seq(S) /\ Len(c) = k + 1
    BY <1>6
  <2> HIDE DEF c, n
  <2> QED BY <1>1, <1>3, <2>1
<1> HIDE DEF c, n
<1> DEFINE new == InsertAt(L, k + 1, e)
<1>8. /\ new \in Seq(S) /\ Len(new) = n + 1
      /\ \A i \in 1 .. n + 1 : new[i] = IF i <= k + 1 THEN c[i] ELSE b[i - (k + 1)]
  <2>1. /\ c \o b \in Seq(S) /\ Len(c \o b) = Len(c) + Len(b)
        /\ \A i \in 1 .. Len(c) + Len(b) : (c \o b)[i] = IF i <= Len(c) THEN c[i] ELSE b[i - Len(c)]
    BY <1>3, <1>7, ConcatProperties
  <2>2. new = c \o b
    BY <1>4 DEF c
  <2> HIDE DEF new
  <2> QED BY <1>7, <2>1, <2>2
<1> HIDE DEF new
<1>9. ASSUME NEW i \in 1 .. n + 1
      PROVE  new[i] = IF i <= k THEN L[i] ELSE IF i = k + 1 THEN e ELSE L[i - 1]
  <2>1. CASE i <= k
    <3>1. i \in 1 .. k /\ i \in 1 .. k + 1
      BY <1>1, <2>1
    <3> QED BY <1>1, <1>2, <1>6, <1>8, <2>1, <3>1 DEF c
  <2>2. CASE i = k + 1
    <3>1. c[i] = <<e>>[i - k] /\ i - k = 1
      BY <1>1, <1>6, <2>2 DEF c
    <3>2. new[i] = c[i]
      BY <1>1, <1>8, <2>2
    <3> QED BY <1>1, <1>5, <2>2, <3>1, <3>2
  <2>3. CASE i > k + 1
    <3>1. i - (k + 1) \in 1 .. n - k /\ k + (i - (k + 1)) = i - 1
      BY <1>1, <2>3
    <3>2. new[i] = b[i - (k + 1)]
      BY <1>1, <1>8, <2>3
    <3>3. b[i - (k + 1)] = L[k + (i - (k + 1))]
      BY <1>3, <3>1
    <3>4. ~(i <= k) /\ i # k + 1
      BY <1>1, <2>3
    <3> QED BY <3>1, <3>2, <3>3, <3>4
  <2>4. i <= k \/ i = k + 1 \/ i > k + 1
    BY <1>1
  <2> QED BY <2>1, <2>2, <2>3, <2>4
<1>11. n = Len(L)
  BY DEF n
<1> QED BY <1>8, <1>9, <1>11 DEF new, PutAt

LEMMA ListRemove ==
  ASSUME NEW S, NEW L \in Seq(S), NEW k \in 1 .. Len(L)
  PROVE  /\ RemoveAt(L, k) \in Seq(S) /\ Len(RemoveAt(L, k)) = Len(L) - 1
         /\ \A i \in 1 .. Len(L) - 1 : RemoveAt(L, k)[i] = IF i < k THEN L[i] ELSE L[i + 1]
<1> DEFINE a == SubSeq(L, 1, k - 1)
           b == SubSeq(L, k + 1, Len(L))
           n == Len(L)
<1>1. n \in Nat /\ k \in 1 .. n /\ \A i \in 1 .. n : L[i] \in S
  BY LenProperties, ElementOfSeq
<1>2. a \in Seq(S) /\ Len(a) = k - 1 /\ \A i \in 1 .. k - 1 : a[i] = L[i]
  <2>1. 1 \in Int /\ k - 1 \in Int /\ \A i \in 1 .. k - 1 : L[i] \in S
    BY <1>1
  <2>2. /\ a \in Seq(S) /\ Len(a) = IF 1 <= k - 1 THEN (k - 1) - 1 + 1 ELSE 0
        /\ \A i \in 1 .. (k - 1) - 1 + 1 : a[i] = L[1 + i - 1]
    BY <2>1, SubSeqProperties
  <2> HIDE DEF a
  <2> QED BY <1>1, <2>2
<1>3. b \in Seq(S) /\ Len(b) = n - k /\ \A i \in 1 .. n - k : b[i] = L[k + i]
  <2>1. k + 1 \in Int /\ n \in Int /\ \A i \in k + 1 .. n : L[i] \in S
    BY <1>1
  <2>2. /\ b \in Seq(S) /\ Len(b) = IF k + 1 <= n THEN n - (k + 1) + 1 ELSE 0
        /\ \A i \in 1 .. n - (k + 1) + 1 : b[i] = L[(k + 1) + i - 1]
    BY <2>1, SubSeqProperties
  <2> HIDE DEF b
  <2> QED BY <1>1, <2>2
<1>4. RemoveAt(L, k) = a \o b
  BY DEF RemoveAt
<1> HIDE DEF a, b
<1>5. Len(a) + Len(b) = n - 1
  BY <1>1, <1>2, <1>3
<1> DEFINE new == RemoveAt(L, k)
<1>6. /\ new \in Seq(S) /\ Len(new) = n - 1
      /\ \A i \in 1 .. n - 1 : new[i] = IF i <= k - 1 THEN a[i] ELSE b[i - (k - 1)]
  <2>1. /\ a \o b \in Seq(S) /\ Len(a \o b) = Len(a) + Len(b)
        /\ \A i \in 1 .. Len(a) + Len(b) : (a \o b)[i] = IF i <= Len(a) THEN a[i] ELSE b[i - Len(a)]
    BY <1>2, <1>3, ConcatProperties
  <2> HIDE DEF n
  <2>2. new = a \o b
    BY <1>4
  <2> HIDE DEF new
  <2> QED BY <1>2, <1>5, <2>1, <2>2
<1> HIDE DEF new, n
<1>7. ASSUME NEW i \in 1 .. n - 1
      PROVE  new[i] = IF i < k THEN L[i] ELSE L[i + 1]
  <2>1. CASE i < k
    <3>1. i \in 1 .. k - 1 /\ i <= k - 1
      BY <1>1, <2>1
    <3> QED BY <1>2, <1>6, <2>1, <3>1
  <2>2. CASE i >= k
    <3>1. i - (k - 1) \in 1 .. n - k /\ k + (i - (k - 1)) = i + 1
      BY <1>1, <2>2
    <3>2. new[i] = b[i - (k - 1)]
      BY <1>1, <1>6, <2>2
    <3>3. b[i - (k - 1)] = L[k + (i - (k - 1))]
      BY <1>3, <3>1
    <3>4. ~(i < k)
      BY <1>1, <2>2
    <3> QED BY <3>1, <3>2, <3>3, <3>4
  <2>3. i < k \/ i >= k
    BY <1>1
  <2> QED BY <2>1, <2>2, <2>3
<1>8. n = Len(L)
  BY DEF n
<1> QED BY <1>6, <1>7, <1>8 DEF new

(* do_mount goes behind the points that are longer.                        *)
LEMMA LongerIs ==
  ASSUME MountTypes, Ordered(mountList), NEW point \in Seq(STRING)
  PROVE  /\ Cardinality(Longer(point)) \in 0 .. Len(mountList)
         /\ \A j \in 1 .. Cardinality(Longer(point)) : Len(mountList[j].point) > Len(point)
         /\ \A j \in Cardinality(Longer(point)) + 1 .. Len(mountList) :
              Len(mountList[j].point) <= Len(point)
<1> DEFINE n == Len(mountList)
           T == {i \in 1 .. n : Len(mountList[i].point) <= Len(point)}
<1>1. n \in Nat /\ DOMAIN mountList = 1 .. n
  BY LenProperties DEF MountTypes
<1>2. Len(point) \in Nat /\ \A i \in 1 .. n : Len(mountList[i].point) \in Nat
  <2>1. \A i \in 1 .. n : mountList[i] \in MountRecs
    BY ElementOfSeq DEF MountTypes
  <2> QED BY <2>1, LenProperties DEF MountRecs
<1>3. \E k \in 0 .. n : /\ \A j \in 1 .. k : Len(mountList[j].point) > Len(point)
                        /\ \A j \in k + 1 .. n : Len(mountList[j].point) <= Len(point)
  <2>1. CASE T = {}
    <3>1. \A j \in 1 .. n : Len(mountList[j].point) > Len(point)
      BY <1>2, <2>1
    <3>2. n \in 0 .. n /\ n + 1 .. n = {}
      BY <1>1
    <3> HIDE DEF T
    <3> QED BY <3>1, <3>2
  <2>2. CASE T # {}
    <3>1. T \subseteq Nat
      BY <1>1
    <3>2. PICK x \in T : \A y \in T : x <= y
      <4> HIDE DEF T
      <4> QED BY <2>2, <3>1, LeastNatural
    <3>3. x \in 1 .. n /\ x - 1 \in 0 .. n /\ Len(mountList[x].point) <= Len(point)
      BY <1>1, <3>2
    <3>4. \A j \in 1 .. x - 1 : Len(mountList[j].point) > Len(point)
      BY <1>1, <1>2, <3>2, <3>3
    <3>5. ASSUME NEW j \in (x - 1) + 1 .. n PROVE Len(mountList[j].point) <= Len(point)
      <4>1. j \in 1 .. n /\ (x < j \/ x = j)
        BY <1>1, <3>3
      <4>2. x < j => Len(mountList[x].point) >= Len(mountList[j].point)
        BY <3>3, <4>1 DEF Ordered
      <4> QED BY <1>2, <3>3, <4>1, <4>2
    <3> QED BY <3>3, <3>4, <3>5
  <2> QED BY <2>1, <2>2
<1>4. PICK k \in 0 .. n : /\ \A j \in 1 .. k : Len(mountList[j].point) > Len(point)
                          /\ \A j \in k + 1 .. n : Len(mountList[j].point) <= Len(point)
  BY <1>3
<1>5. Longer(point) = 1 .. k
  <2>1. ASSUME NEW i \in Longer(point) PROVE i \in 1 .. k
    <3>1. i \in 1 .. n /\ Len(mountList[i].point) > Len(point)
      BY <1>1 DEF Longer
    <3> QED BY <1>1, <1>2, <1>4, <3>1
  <2>2. ASSUME NEW i \in 1 .. k PROVE i \in Longer(point)
    BY <1>1, <1>4 DEF Longer
  <2> QED BY <2>1, <2>2
<1>6. Cardinality(1 .. k) = k
  <2>1. 1 \in Int /\ k \in Int
    OBVIOUS
  <2>2. Cardinality(1 .. k) = IF 1 > k THEN 0 ELSE k - 1 + 1
    BY <2>1, FS_Interval
  <2> QED BY <1>1, <2>2
<1> QED BY <1>4, <1>5, <1>6

-----------------------------------------------------------------------------
(* The steps.                                                              *)

LEMMA RefsChange ==
  ASSUME NEW S, NEW refs \in [S -> Nat], NEW m \in S
  PROVE  /\ DOMAIN Retain(refs, m) = S /\ Retain(refs, m) = [x \in S |-> Retain(refs, m)[x]]
         /\ DOMAIN Release(refs, m) = S /\ Release(refs, m) = [x \in S |-> Release(refs, m)[x]]
         /\ \A x \in S :
              /\ refs[x] \in Nat
              /\ Retain(refs, m)[x] = refs[x] + (IF x = m THEN 1 ELSE 0)
              /\ Release(refs, m)[x] = refs[x] - (IF x = m THEN 1 ELSE 0)
<1>1. Retain(refs, m) \in [S -> Int] /\ Release(refs, m) \in [S -> Int]
  BY DEF Retain, Release
<1>2. \A x \in S : /\ refs[x] \in Nat
                   /\ Retain(refs, m)[x] = IF x = m THEN refs[x] + 1 ELSE refs[x]
                   /\ Release(refs, m)[x] = IF x = m THEN refs[x] - 1 ELSE refs[x]
  BY DEF Retain, Release
<1> QED BY <1>1, <1>2

(* A step that leaves the list, the descriptors and the inodes alone.      *)
LEMMA HeldStep ==
  ASSUME MountInv, NEW t \in MountThreads, NEW c \in MountCallRecs,
         mountCall' = [mountCall EXCEPT ![t] = c],
         UNCHANGED <<mountList, inodeRefs, mountFd, mountPwd>>,
         c # NoMountCall => \A i \in 1 .. Len(c.held) : c.held[i] \in Mounted,
         DOMAIN mountRefs' = Mounted, mountRefs' = [m \in Mounted |-> mountRefs'[m]],
         \A m \in Mounted :
           mountRefs'[m] = mountRefs[m] - HeldTwice(mountCall[t], m) + HeldTwice(c, m)
  PROVE  MountInv'
<1>1. Mounted' = Mounted
  BY DEF Mounted
<1>2. ASSUME NEW m \in Mounted
      PROVE  mountRefs'[m] = Holds(m)' /\ mountRefs'[m] \in Nat
  <2>1. Cardinality(CallsOn(mountCall', m)) =
          Cardinality(CallsOn(mountCall, m)) - HeldTwice(mountCall[t], m) + HeldTwice(c, m)
    BY CallsChange DEF MountInv, MountTypes
  <2>2. Holds(m) = Cardinality(FdsOn(mountFd, m)) + Cardinality(KeysOn(DOMAIN inodeRefs, m))
                    + Cardinality(CallsOn(mountCall, m))
    BY HoldsIs
  <2>3. Holds(m)' = Cardinality(FdsOn(mountFd, m)) + Cardinality(KeysOn(DOMAIN inodeRefs, m))
                     + Cardinality(CallsOn(mountCall', m))
    BY HoldsIsNext
  <2>4. /\ Cardinality(FdsOn(mountFd, m)) \in Nat /\ Cardinality(KeysOn(DOMAIN inodeRefs, m)) \in Nat
        /\ Cardinality(CallsOn(mountCall, m)) \in Nat /\ Cardinality(CallsOn(mountCall', m)) \in Nat
    BY SetsFinite, CallsFinite DEF MountInv, MountTypes
  <2>5. HeldTwice(mountCall[t], m) \in Nat /\ HeldTwice(c, m) \in Nat
    BY HeldTwiceType
  <2>6. mountRefs[m] = Holds(m)
    BY DEF MountInv, RefsCounted
  <2>7. mountRefs'[m] = mountRefs[m] - HeldTwice(mountCall[t], m) + HeldTwice(c, m)
    OBVIOUS
  <2> QED BY <2>1, <2>2, <2>3, <2>4, <2>5, <2>6, <2>7
<1>3. mountRefs' \in [Mounted' -> Nat]
  BY <1>1, <1>2
<1>4. MountTypes'
  BY <1>3 DEF MountInv, MountTypes
<1>5. HoldersMounted'
  BY <1>1 DEF MountInv, MountTypes, HoldersMounted
<1>6. RefsCounted'
  BY <1>1, <1>2 DEF RefsCounted
<1>7. InodesCounted' /\ RootHeld' /\ Ordered(mountList')
  BY DEF MountInv, InodesCounted, RootHeld
<1> QED BY <1>4, <1>5, <1>6, <1>7 DEF MountInv

LEMMA HoldInv ==
  ASSUME MountInv, NEW t \in MountThreads, NEW op \in {"one", "two", "open"}, NEW path \in Points,
         Hold(t, op, path)
  PROVE  MountInv'
<1> DEFINE m == Find(path)
           c == [pc |-> op, held |-> <<m>>]
<1>1. m \in Mounted /\ m \in MountIds
  BY FindMounted DEF MountInv
<1>2. /\ mountCall[t] = NoMountCall /\ mountRefs' = Retain(mountRefs, m)
      /\ mountCall' = [mountCall EXCEPT ![t] = c]
      /\ UNCHANGED <<mountList, inodeRefs, mountFd, mountPwd>>
  BY DEF Hold
<1> HIDE DEF m
<1>3. Len(<<m>>) = 1 /\ <<m>>[1] = m /\ <<m>> \in Seq(MountIds)
  BY <1>1
<1>4. c \in HeldCalls /\ c # NoMountCall
  BY <1>3 DEF HeldCalls, NoMountCall
<1>5. \A i \in 1 .. Len(c.held) : c.held[i] \in Mounted
  BY <1>1, <1>3
<1>6. \A x : HeldTwice(mountCall[t], x) = 0 /\ HeldTwice(c, x) = IF x = m THEN 1 ELSE 0
  BY <1>2, <1>3, <1>4 DEF HeldTwice, One
<1>7. /\ DOMAIN mountRefs' = Mounted /\ mountRefs' = [x \in Mounted |-> mountRefs'[x]]
      /\ \A x \in Mounted : mountRefs'[x] = mountRefs[x] + (IF x = m THEN 1 ELSE 0)
  <2>1. mountRefs \in [Mounted -> Nat]
    BY DEF MountInv, MountTypes
  <2> QED BY <1>1, <1>2, <2>1, RefsChange
<1>8. \A x \in Mounted :
           mountRefs'[x] = mountRefs[x] - HeldTwice(mountCall[t], x) + HeldTwice(c, x)
  <2>1. \A x \in Mounted : mountRefs[x] \in Nat
    BY DEF MountInv, MountTypes
  <2> HIDE DEF c
  <2> QED BY <1>6, <1>7, <2>1
<1>9. c \in MountCallRecs
  BY <1>4 DEF MountCallRecs
<1> HIDE DEF c
<1> QED BY <1>2, <1>5, <1>7, <1>8, <1>9, HeldStep

LEMMA SecondPathInv ==
  ASSUME MountInv, NEW t \in MountThreads, NEW path \in Points, SecondPath(t, path)
  PROVE  MountInv'
<1> DEFINE m == Find(path)
           old == mountCall[t]
           c == [old EXCEPT !.held = Append(@, m)]
<1>1. m \in Mounted /\ m \in MountIds
  BY FindMounted DEF MountInv
<1>2. /\ old.pc = "two" /\ Len(old.held) = 1 /\ mountRefs' = Retain(mountRefs, m)
      /\ mountCall' = [mountCall EXCEPT ![t] = c]
      /\ UNCHANGED <<mountList, inodeRefs, mountFd, mountPwd>>
  BY DEF SecondPath
<1> HIDE DEF m
<1>3. old \in HeldCalls /\ old # NoMountCall
  BY <1>2 DEF MountInv, MountTypes, MountCallRecs, NoMountCall
<1>4. old.held \in Seq(MountIds)
  BY <1>3 DEF HeldCalls
<1>5. c.pc = "two" /\ c.held = Append(old.held, m) /\ c \in [pc : {"one", "two", "open", "release"}, held : Seq(MountIds)]
  BY <1>1, <1>2, <1>3, <1>4, AppendProperties DEF HeldCalls
<1>6. Len(c.held) = 2 /\ c.held[1] = old.held[1] /\ c.held[2] = m
  BY <1>1, <1>2, <1>4, <1>5, AppendProperties
<1>7. c \in HeldCalls /\ c # NoMountCall
  <2>1. c.pc # "none" /\ Len(c.held) \in 1 .. 2 /\ ~(c.pc \in {"one", "open"})
    BY <1>5, <1>6
  <2>2. c \in HeldCalls
    <3> HIDE DEF c
    <3> QED BY <1>5, <2>1 DEF HeldCalls
  <2> HIDE DEF c
  <2> QED BY <2>1, <2>2 DEF NoMountCall
<1>8. old.held[1] \in Mounted
  BY <1>2, <1>3 DEF MountInv, HoldersMounted
<1> HIDE DEF c, old
<1>9. \A i \in 1 .. Len(c.held) : c.held[i] \in Mounted
  BY <1>1, <1>6, <1>8
<1>10. \A x : HeldTwice(old, x) \in Nat /\ HeldTwice(c, x) = HeldTwice(old, x) + (IF x = m THEN 1 ELSE 0)
  BY <1>2, <1>3, <1>6, <1>7 DEF HeldTwice, One
<1>11. /\ DOMAIN mountRefs' = Mounted /\ mountRefs' = [x \in Mounted |-> mountRefs'[x]]
       /\ \A x \in Mounted : mountRefs'[x] = mountRefs[x] + (IF x = m THEN 1 ELSE 0)
  <2>1. mountRefs \in [Mounted -> Nat]
    BY DEF MountInv, MountTypes
  <2> QED BY <1>1, <1>2, <2>1, RefsChange
<1>12. \A x \in Mounted : mountRefs'[x] = mountRefs[x] - HeldTwice(old, x) + HeldTwice(c, x)
  <2>1. \A x \in Mounted : mountRefs[x] \in Nat
    BY DEF MountInv, MountTypes
  <2> QED BY <1>10, <1>11, <2>1
<1>13. c \in MountCallRecs
  BY <1>7 DEF MountCallRecs
<1> QED BY <1>2, <1>9, <1>11, <1>12, <1>13, HeldStep DEF old

(* The first release of a call: the mount is counted, so it is there.      *)
LEMMA AnsweredInv ==
  ASSUME MountInv, NEW t \in MountThreads, Answered(t)
  PROVE  MountInv'
<1> DEFINE old == mountCall[t]
           m == Head(old.held)
           rest == Tail(old.held)
           c == IF rest = <<>> THEN NoMountCall ELSE [pc |-> "release", held |-> rest]
<1>1. /\ mountRefs' = Release(mountRefs, m)
      /\ mountCall' = [mountCall EXCEPT ![t] = c]
      /\ UNCHANGED <<mountList, inodeRefs, mountFd, mountPwd>>
  BY DEF Answered
<1>2. old \in HeldCalls /\ old # NoMountCall
  BY DEF Answered, MountInv, MountTypes, MountCallRecs, NoMountCall
<1>3. old.held \in Seq(MountIds) /\ Len(old.held) \in {1, 2} /\ old.held # <<>>
  BY <1>2 DEF HeldCalls
<1>4. m = old.held[1] /\ m \in Mounted
  <2>1. \A i \in 1 .. Len(old.held) : old.held[i] \in Mounted
    BY <1>2 DEF MountInv, HoldersMounted
  <2> QED BY <1>3, <2>1
<1>5. /\ rest \in Seq(MountIds) /\ Len(rest) = Len(old.held) - 1
      /\ \A i \in 1 .. Len(rest) : rest[i] = old.held[i + 1]
  BY <1>3, HeadTailProperties
<1>6. CASE Len(old.held) = 1
  <2>1. rest = <<>>
    <3> HIDE DEF rest
    <3>1. Len(rest) = 0
      BY <1>5, <1>6
    <3> QED BY <1>5, <3>1, EmptySeq
  <2>2. c = NoMountCall
    BY <2>1
  <2>3. \A x : HeldTwice(old, x) = (IF x = m THEN 1 ELSE 0) /\ HeldTwice(c, x) = 0
    <3> HIDE DEF old, m
    <3> QED BY <1>2, <1>4, <1>6, <2>2 DEF HeldTwice, One
  <2> HIDE DEF old, c
  <2>4. \A x \in Mounted : mountRefs[x] \in Nat
    BY DEF MountInv, MountTypes
  <2>5. /\ DOMAIN mountRefs' = Mounted /\ mountRefs' = [x \in Mounted |-> mountRefs'[x]]
        /\ \A x \in Mounted : mountRefs'[x] = mountRefs[x] - (IF x = m THEN 1 ELSE 0)
    <3> HIDE DEF m
    <3>1. mountRefs \in [Mounted -> Nat]
      BY DEF MountInv, MountTypes
    <3> QED BY <1>1, <1>4, <3>1, RefsChange
  <2>6. \A x \in Mounted : mountRefs'[x] = mountRefs[x] - HeldTwice(old, x) + HeldTwice(c, x)
    BY <2>3, <2>4, <2>5
  <2>7. c \in MountCallRecs
    BY <2>2 DEF MountCallRecs
  <2> QED BY <1>1, <2>2, <2>5, <2>6, <2>7, HeldStep DEF old
<1>7. CASE Len(old.held) = 2
  <2>1. Len(rest) = 1 /\ rest # <<>> /\ rest[1] = old.held[2]
    <3> HIDE DEF rest, old
    <3>1. Len(rest) = 1
      BY <1>5, <1>7
    <3>2. rest[1] = old.held[2]
      <4>1. 1 \in 1 .. Len(rest) /\ 1 + 1 = 2
        BY <3>1
      <4>2. rest[1] = old.held[1 + 1]
        BY <1>5, <4>1
      <4> QED BY <4>1, <4>2
    <3> QED BY <3>1, <3>2, EmptySeq
  <2>2. c = [pc |-> "release", held |-> rest]
    BY <2>1
  <2>3. c \in HeldCalls /\ c # NoMountCall /\ c.held = rest
    <3> HIDE DEF rest, c
    <3> QED BY <1>5, <2>1, <2>2 DEF HeldCalls, NoMountCall
  <2>4. \A x : /\ HeldTwice(c, x) = One(rest[1] = x) /\ HeldTwice(c, x) \in Nat
               /\ HeldTwice(old, x) = (IF x = m THEN 1 ELSE 0) + One(rest[1] = x)
    <3> HIDE DEF old, c, m, rest
    <3> QED BY <1>2, <1>4, <1>7, <2>1, <2>3 DEF HeldTwice, One
  <2>5. \A i \in 1 .. Len(c.held) : c.held[i] \in Mounted
    <3>1. old.held[2] \in Mounted
      BY <1>2, <1>7 DEF MountInv, HoldersMounted
    <3> HIDE DEF old, c, m, rest
    <3>2. Len(c.held) = 1 /\ c.held[1] \in Mounted
      BY <2>1, <2>3, <3>1
    <3> QED BY <3>2
  <2> HIDE DEF old, c, rest
  <2>6. \A x \in Mounted : mountRefs[x] \in Nat
    BY DEF MountInv, MountTypes
  <2>7. /\ DOMAIN mountRefs' = Mounted /\ mountRefs' = [x \in Mounted |-> mountRefs'[x]]
        /\ \A x \in Mounted : mountRefs'[x] = mountRefs[x] - (IF x = m THEN 1 ELSE 0)
    <3> HIDE DEF m
    <3>1. mountRefs \in [Mounted -> Nat]
      BY DEF MountInv, MountTypes
    <3> QED BY <1>1, <1>4, <3>1, RefsChange
  <2>8. \A x \in Mounted : mountRefs'[x] = mountRefs[x] - HeldTwice(old, x) + HeldTwice(c, x)
    <3> HIDE DEF m
    <3>1. ASSUME NEW x \in Mounted
          PROVE  mountRefs'[x] = mountRefs[x] - HeldTwice(old, x) + HeldTwice(c, x)
      <4>1. HeldTwice(old, x) = (IF x = m THEN 1 ELSE 0) + HeldTwice(c, x) /\ HeldTwice(c, x) \in Nat
        BY <2>4
      <4> QED BY <2>6, <2>7, <4>1
    <3> QED BY <3>1
  <2>9. c \in MountCallRecs
    BY <2>3 DEF MountCallRecs
  <2> QED BY <1>1, <2>5, <2>7, <2>8, <2>9, HeldStep DEF old
<1> QED BY <1>3, <1>6, <1>7

(* A step that leaves the list alone keeps the invariant if every count    *)
(* changes by as much as the holders do.                                   *)
LEMMA BalancedStep ==
  ASSUME MountInv, UNCHANGED mountList, MountTypes', RootHeld', HoldersMounted', InodesCounted',
         \A m \in Mounted : mountRefs'[m] = mountRefs[m] + (Holds(m)' - Holds(m))
  PROVE  MountInv'
<1>1. Mounted' = Mounted
  BY DEF Mounted
<1>2. ASSUME NEW m \in Mounted PROVE mountRefs'[m] = Holds(m)'
  <2>1. mountRefs[m] = Holds(m) /\ mountRefs[m] \in Nat
    BY DEF MountInv, RefsCounted, MountTypes
  <2>2. Holds(m)' \in Nat
    <3>1. Holds(m)' = Cardinality(FdsOn(mountFd', m)) + Cardinality(KeysOn(DOMAIN inodeRefs', m))
                       + Cardinality(CallsOn(mountCall', m))
      BY HoldsIsNext
    <3>2. IsFiniteSet(DOMAIN mountFd') /\ IsFiniteSet(DOMAIN inodeRefs')
      BY DEF MountTypes
    <3>3. /\ Cardinality(FdsOn(mountFd', m)) \in Nat /\ Cardinality(KeysOn(DOMAIN inodeRefs', m)) \in Nat
          /\ Cardinality(CallsOn(mountCall', m)) \in Nat
      BY <3>2, SetsFinite, CallsFinite
    <3> QED BY <3>1, <3>3
  <2> QED BY <2>1, <2>2
<1>3. RefsCounted'
  BY <1>1, <1>2 DEF RefsCounted
<1>4. Ordered(mountList')
  BY DEF MountInv
<1> QED BY <1>3, <1>4 DEF MountInv

(* What a step that changes the call of one thread does to a count.        *)
LEMMA HoldsChange ==
  ASSUME MountTypes, NEW t \in MountThreads, NEW CONSTANT c \in MountCallRecs,
         mountCall' = [mountCall EXCEPT ![t] = c], NEW m, NEW a \in Int, NEW b \in Int,
         Cardinality(FdsOn(mountFd', m)) = Cardinality(FdsOn(mountFd, m)) + a,
         Cardinality(KeysOn(DOMAIN inodeRefs', m)) = Cardinality(KeysOn(DOMAIN inodeRefs, m)) + b
  PROVE  Holds(m)' - Holds(m) = a + b - HeldTwice(mountCall[t], m) + HeldTwice(c, m)
<1>1. Cardinality(CallsOn(mountCall', m)) =
        Cardinality(CallsOn(mountCall, m)) - HeldTwice(mountCall[t], m) + HeldTwice(c, m)
  BY CallsChange DEF MountTypes
<1>2. Holds(m) = Cardinality(FdsOn(mountFd, m)) + Cardinality(KeysOn(DOMAIN inodeRefs, m))
                  + Cardinality(CallsOn(mountCall, m))
  BY HoldsIs
<1>3. Holds(m)' = Cardinality(FdsOn(mountFd', m)) + Cardinality(KeysOn(DOMAIN inodeRefs', m))
                   + Cardinality(CallsOn(mountCall', m))
  BY HoldsIsNext
<1>4. /\ Cardinality(FdsOn(mountFd, m)) \in Nat /\ Cardinality(KeysOn(DOMAIN inodeRefs, m)) \in Nat
      /\ Cardinality(CallsOn(mountCall, m)) \in Nat
  BY SetsFinite, CallsFinite DEF MountTypes
<1>5. HeldTwice(mountCall[t], m) \in Nat /\ HeldTwice(c, m) \in Nat
  BY HeldTwiceType
<1> QED BY <1>1, <1>2, <1>3, <1>4, <1>5

(* The descriptor takes the hold of the call over, and a new inode_data    *)
(* takes one more.                                                         *)
LEMMA OpenInodeInv ==
  ASSUME MountInv, NEW t \in MountThreads, NEW f \in MountFds, NEW ino \in Inodes, OpenInode(t, f, ino)
  PROVE  MountInv'
<1> DEFINE old == mountCall[t]
           m == Head(old.held)
           k == <<m, ino>>
           r == [mount |-> m, ino |-> ino, slot |-> TRUE]
<1>1. /\ old.pc = "open" /\ f \notin DOMAIN mountFd
      /\ inodeRefs' = InodeGet(k).inodes /\ mountRefs' = InodeGet(k).refs
      /\ mountFd' = [g \in DOMAIN mountFd \cup {f} |-> IF g = f THEN r ELSE mountFd[g]]
      /\ mountCall' = [mountCall EXCEPT ![t] = NoMountCall]
      /\ UNCHANGED <<mountList, mountPwd>>
  BY DEF OpenInode
<1>2. old \in HeldCalls /\ old # NoMountCall
  BY <1>1 DEF MountInv, MountTypes, MountCallRecs, NoMountCall
<1>3. old.held \in Seq(MountIds) /\ Len(old.held) = 1 /\ old.held # <<>>
  BY <1>1, <1>2 DEF HeldCalls
<1>4. m = old.held[1] /\ m \in Mounted /\ m \in MountIds
  <2>1. \A i \in 1 .. Len(old.held) : old.held[i] \in Mounted
    BY <1>2 DEF MountInv, HoldersMounted
  <2>2. old.held[1] \in MountIds
    BY <1>3, ElementOfSeq
  <2> QED BY <1>3, <2>1, <2>2
<1>5. \A x : HeldTwice(old, x) = (IF x = m THEN 1 ELSE 0) /\ HeldTwice(NoMountCall, x) = 0
  <2> HIDE DEF old, m
  <2> QED BY <1>2, <1>3, <1>4 DEF HeldTwice, One
<1> HIDE DEF old, m
<1>6. Mounted' = Mounted
  BY <1>1 DEF Mounted
<1>7. r.mount = m /\ InodeOf(r) = k /\ r \in MountFdRecs
  BY <1>4 DEF InodeOf, MountFdRecs
<1>8. IsFiniteSet(DOMAIN mountFd) /\ IsFiniteSet(DOMAIN inodeRefs)
  BY DEF MountInv, MountTypes
<1> HIDE DEF r
<1>9. /\ IsFiniteSet(DOMAIN mountFd')
      /\ \A x, y : /\ Cardinality(FdsOn(mountFd', x)) = Cardinality(FdsOn(mountFd, x)) + One(r.mount = x)
                   /\ Cardinality(FdsOf(mountFd', y)) = Cardinality(FdsOf(mountFd, y)) + One(InodeOf(r) = y)
      /\ InodeKeys(mountFd') = InodeKeys(mountFd) \cup {InodeOf(r)}
  <2>1. mountFd' = [g \in DOMAIN mountFd \cup {f} |-> IF g = f THEN r ELSE mountFd[g]]
        /\ f \notin DOMAIN mountFd
    BY <1>1
  <2>2. ASSUME NEW x, NEW y
        PROVE  /\ IsFiniteSet(DOMAIN mountFd')
               /\ Cardinality(FdsOn(mountFd', x)) = Cardinality(FdsOn(mountFd, x)) + One(r.mount = x)
               /\ Cardinality(FdsOf(mountFd', y)) = Cardinality(FdsOf(mountFd, y)) + One(InodeOf(r) = y)
               /\ InodeKeys(mountFd') = InodeKeys(mountFd) \cup {InodeOf(r)}
    BY <1>8, <2>1, FdAdded
  <2> QED BY <2>2
<1>10. /\ DOMAIN mountFd' = DOMAIN mountFd \cup {f} /\ mountFd'[f] = r
       /\ \A g \in DOMAIN mountFd : mountFd'[g] = mountFd[g]
  BY <1>1
<1>11. mountFd' \in [DOMAIN mountFd' -> MountFdRecs] /\ mountPwd' \in DOMAIN mountFd'
       /\ mountCall' \in [MountThreads -> MountCallRecs] /\ mountList' \in Seq(MountRecs)
  <2>1. NoMountCall \in MountCallRecs
    BY DEF MountCallRecs
  <2>2. mountCall' \in [MountThreads -> MountCallRecs]
    BY <1>1, <2>1 DEF MountInv, MountTypes
  <2> QED BY <1>1, <1>7, <1>10, <2>2 DEF MountInv, MountTypes
<1>12. RootHeld'
  BY <1>10 DEF MountInv, RootHeld
<1>13. HoldersMounted'
  BY <1>1, <1>4, <1>6, <1>7, <1>10 DEF MountInv, HoldersMounted, MountTypes
<1>14. DOMAIN inodeRefs = InodeKeys(mountFd) /\ \A y \in DOMAIN inodeRefs : inodeRefs[y] = Cardinality(FdsOf(mountFd, y)) /\ inodeRefs[y] \in Nat
  BY DEF MountInv, InodesCounted, MountTypes
<1>15. CASE k \in DOMAIN inodeRefs
  <2>1. inodeRefs' = [inodeRefs EXCEPT ![k] = @ + 1] /\ mountRefs' = mountRefs
    BY <1>1, <1>15 DEF InodeGet
  <2> HIDE DEF k
  <2>2. DOMAIN inodeRefs' = DOMAIN inodeRefs /\ \A y \in DOMAIN inodeRefs : inodeRefs'[y] = inodeRefs[y] + (IF y = k THEN 1 ELSE 0)
    BY <1>14, <1>15, <2>1
  <2>3. InodesCounted'
    BY <1>7, <1>9, <1>14, <1>15, <2>2 DEF InodesCounted, One
  <2>4. MountTypes'
    <3>1. mountRefs' \in [Mounted' -> Nat]
      BY <1>6, <2>1 DEF MountInv, MountTypes
    <3>2. inodeRefs' \in [DOMAIN inodeRefs' -> Nat]
      <4>1. inodeRefs \in [DOMAIN inodeRefs -> Nat]
        BY DEF MountInv, MountTypes
      <4>2. inodeRefs' \in [DOMAIN inodeRefs -> Nat]
        BY <1>15, <2>1, <4>1
      <4> QED BY <2>2, <4>2
    <3> QED BY <1>8, <1>9, <1>11, <2>2, <3>1, <3>2 DEF MountTypes
  <2>5. ASSUME NEW x \in Mounted PROVE mountRefs'[x] = mountRefs[x] + (Holds(x)' - Holds(x))
    <3>1. One(m = x) \in Int /\ 0 \in Int /\ NoMountCall \in MountCallRecs
      BY DEF One, MountCallRecs
    <3>2. Cardinality(KeysOn(DOMAIN inodeRefs', x)) = Cardinality(KeysOn(DOMAIN inodeRefs, x)) + 0
      <4>1. Cardinality(KeysOn(DOMAIN inodeRefs, x)) \in Nat
        BY <1>8, SetsFinite
      <4> QED BY <2>2, <4>1
    <3>3. Cardinality(FdsOn(mountFd', x)) = Cardinality(FdsOn(mountFd, x)) + One(m = x)
      BY <1>7, <1>9
    <3>4. Holds(x)' - Holds(x) = One(m = x) + 0 - HeldTwice(mountCall[t], x) + HeldTwice(NoMountCall, x)
      BY <1>1, <3>1, <3>2, <3>3, HoldsChange DEF MountInv
    <3>5. mountRefs[x] \in Nat
      BY DEF MountInv, MountTypes
    <3>6. HeldTwice(mountCall[t], x) = (IF x = m THEN 1 ELSE 0) /\ HeldTwice(NoMountCall, x) = 0
      BY <1>5 DEF old
    <3> QED BY <2>1, <3>4, <3>5, <3>6 DEF One
  <2> QED BY <1>1, <1>12, <1>13, <2>3, <2>4, <2>5, BalancedStep
<1>16. CASE k \notin DOMAIN inodeRefs
  <2>1. /\ inodeRefs' = [y \in DOMAIN inodeRefs \cup {k} |-> IF y = k THEN 1 ELSE inodeRefs[y]]
        /\ mountRefs' = Retain(mountRefs, m)
    BY <1>1, <1>16 DEF InodeGet
  <2>2. k[1] = m
    OBVIOUS
  <2> HIDE DEF k
  <2>3. /\ DOMAIN inodeRefs' = DOMAIN inodeRefs \cup {k} /\ inodeRefs'[k] = 1
        /\ \A y \in DOMAIN inodeRefs : inodeRefs'[y] = inodeRefs[y] /\ y # k
    BY <1>16, <2>1
  <2>4. Cardinality(FdsOf(mountFd, k)) = 0
    <3>1. FdsOf(mountFd, k) = {}
      BY <1>14, <1>16 DEF FdsOf, InodeKeys
    <3> QED BY <3>1, FS_EmptySet
  <2>5. InodesCounted'
    BY <1>7, <1>9, <1>14, <2>3, <2>4 DEF InodesCounted, One
  <2>6. IsFiniteSet(DOMAIN inodeRefs')
    BY <1>8, <2>3, FS_AddElement
  <2>7. /\ mountRefs' \in [Mounted -> Int]
        /\ \A x \in Mounted : mountRefs[x] \in Nat /\ mountRefs'[x] = mountRefs[x] + (IF x = m THEN 1 ELSE 0)
    <3>1. mountRefs \in [Mounted -> Nat]
      BY DEF MountInv, MountTypes
    <3> QED BY <1>4, <2>1, <3>1, RefsChange
  <2>8. MountTypes'
    <3>1. mountRefs' \in [Mounted' -> Nat]
      BY <1>6, <2>7
    <3>2. inodeRefs' \in [DOMAIN inodeRefs' -> Nat]
      BY <1>14, <2>1
    <3> QED BY <1>9, <1>11, <2>6, <3>1, <3>2 DEF MountTypes
  <2>9. ASSUME NEW x \in Mounted PROVE mountRefs'[x] = mountRefs[x] + (Holds(x)' - Holds(x))
    <3>1. One(m = x) \in Int /\ NoMountCall \in MountCallRecs
      BY DEF One, MountCallRecs
    <3>2. Cardinality(KeysOn(DOMAIN inodeRefs', x)) = Cardinality(KeysOn(DOMAIN inodeRefs, x)) + One(m = x)
      BY <1>8, <1>16, <2>2, <2>3, KeyAdded
    <3>3. Cardinality(FdsOn(mountFd', x)) = Cardinality(FdsOn(mountFd, x)) + One(m = x)
      BY <1>7, <1>9
    <3>4. Holds(x)' - Holds(x) = One(m = x) + One(m = x) - HeldTwice(mountCall[t], x) + HeldTwice(NoMountCall, x)
      BY <1>1, <3>1, <3>2, <3>3, HoldsChange DEF MountInv
    <3>5. HeldTwice(mountCall[t], x) = (IF x = m THEN 1 ELSE 0) /\ HeldTwice(NoMountCall, x) = 0
      BY <1>5 DEF old
    <3> QED BY <2>7, <3>4, <3>5 DEF One
  <2> QED BY <1>1, <1>12, <1>13, <2>5, <2>8, <2>9, BalancedStep
<1> QED BY <1>15, <1>16

(* A descriptor whose slot changes stays where it is.                      *)
SameFiles(fds) ==
  /\ DOMAIN fds = DOMAIN mountFd /\ fds \in [DOMAIN mountFd -> MountFdRecs]
  /\ \A g \in DOMAIN mountFd : fds[g].mount = mountFd[g].mount /\ fds[g].ino = mountFd[g].ino

LEMMA SameCounts ==
  ASSUME NEW fds, SameFiles(fds)
  PROVE  /\ InodeKeys(fds) = InodeKeys(mountFd)
         /\ \A x : FdsOn(fds, x) = FdsOn(mountFd, x) /\ FdsOf(fds, x) = FdsOf(mountFd, x)
<1>1. \A g \in DOMAIN mountFd : InodeOf(fds[g]) = InodeOf(mountFd[g]) /\ fds[g].mount = mountFd[g].mount
  BY DEF SameFiles, InodeOf
<1>2. DOMAIN fds = DOMAIN mountFd
  BY DEF SameFiles
<1>3. InodeKeys(fds) = InodeKeys(mountFd)
  BY <1>1, <1>2 DEF InodeKeys
<1>4. \A x : FdsOn(fds, x) = FdsOn(mountFd, x) /\ FdsOf(fds, x) = FdsOf(mountFd, x)
  BY <1>1, <1>2 DEF FdsOn, FdsOf
<1> QED BY <1>3, <1>4

LEMMA SlotStep ==
  ASSUME MountInv, SameFiles(mountFd'), mountFd'[0].slot, mountPwd' \in DOMAIN mountFd,
         UNCHANGED <<mountList, mountRefs, inodeRefs, mountCall>>
  PROVE  MountInv'
<1>1. Mounted' = Mounted
  BY DEF Mounted
<1>2. MountTypes'
  BY <1>1 DEF MountInv, MountTypes, SameFiles
<1>3. RootHeld'
  BY DEF MountInv, RootHeld, SameFiles
<1>4. HoldersMounted'
  BY <1>1 DEF MountInv, HoldersMounted, SameFiles
<1>5. /\ InodeKeys(mountFd') = InodeKeys(mountFd)
      /\ \A x : FdsOn(mountFd', x) = FdsOn(mountFd, x) /\ FdsOf(mountFd', x) = FdsOf(mountFd, x)
  BY SameCounts
<1>6. InodesCounted'
  BY <1>5 DEF MountInv, InodesCounted
<1>7. \A m \in Mounted : Holds(m)' = Holds(m)
  BY <1>5, HoldsIs, HoldsIsNext
<1>8. RefsCounted'
  BY <1>1, <1>7 DEF MountInv, RefsCounted
<1> QED BY <1>2, <1>3, <1>4, <1>6, <1>8 DEF MountInv

(* The hold of a closed descriptor, and of its inode_data if that was the  *)
(* last, go to the call that will release them.                            *)
LEMMA LastCloseInv ==
  ASSUME MountInv, NEW t \in MountThreads, mountCall[t] = NoMountCall, NEW fds, SameFiles(fds),
         NEW f \in DOMAIN mountFd, f # 0, fds[0].slot, mountPwd' \in DOMAIN mountFd, f # mountPwd',
         LastInodeClose(t, f, fds), UNCHANGED <<mountList, mountRefs>>
  PROVE  MountInv'
<1> DEFINE m == fds[f].mount
           k == <<m, fds[f].ino>>
           one == [pc |-> "release", held |-> <<m>>]
           two == [pc |-> "release", held |-> <<m, m>>]
<1>1. m = mountFd[f].mount /\ m \in MountIds /\ m \in Mounted /\ k = InodeOf(fds[f]) /\ k[1] = m
  BY DEF SameFiles, MountFdRecs, InodeOf, MountInv, HoldersMounted
<1>2. mountFd' = Restrict(fds, DOMAIN fds \ {f})
  BY DEF LastInodeClose
<1>3. \/ /\ inodeRefs[k] = 1
         /\ inodeRefs' = Restrict(inodeRefs, DOMAIN inodeRefs \ {k})
         /\ mountCall' = [mountCall EXCEPT ![t] = two]
      \/ /\ inodeRefs[k] # 1
         /\ inodeRefs' = [inodeRefs EXCEPT ![k] = @ - 1]
         /\ mountCall' = [mountCall EXCEPT ![t] = one]
  BY DEF LastInodeClose
<1> HIDE DEF m
<1>4. <<m>> \in Seq(MountIds) /\ <<m, m>> \in Seq(MountIds)
  BY <1>1
<1>5. /\ one \in HeldCalls /\ one # NoMountCall /\ one \in MountCallRecs
      /\ two \in HeldCalls /\ two # NoMountCall /\ two \in MountCallRecs
  BY <1>4 DEF HeldCalls, NoMountCall, MountCallRecs
<1>6. /\ Len(one.held) = 1 /\ one.held[1] = m
      /\ Len(two.held) = 2 /\ two.held[1] = m /\ two.held[2] = m
  OBVIOUS
<1> HIDE DEF one, two
<1>7. \A x : /\ HeldTwice(one, x) = (IF x = m THEN 1 ELSE 0)
             /\ HeldTwice(two, x) = (IF x = m THEN 2 ELSE 0)
             /\ HeldTwice(mountCall[t], x) = 0
  BY <1>5, <1>6 DEF HeldTwice, One
<1>8. Mounted' = Mounted
  BY DEF Mounted
<1>9. IsFiniteSet(DOMAIN mountFd) /\ IsFiniteSet(DOMAIN inodeRefs)
  BY DEF MountInv, MountTypes
<1> HIDE DEF k
<1>10. /\ InodeKeys(fds) = InodeKeys(mountFd) /\ DOMAIN fds = DOMAIN mountFd
       /\ \A x : FdsOn(fds, x) = FdsOn(mountFd, x) /\ FdsOf(fds, x) = FdsOf(mountFd, x)
  BY SameCounts DEF SameFiles
<1>11. ASSUME NEW x, NEW y
       PROVE  /\ IsFiniteSet(DOMAIN mountFd')
              /\ Cardinality(FdsOn(mountFd', x)) = Cardinality(FdsOn(mountFd, x)) - One(m = x)
              /\ Cardinality(FdsOf(mountFd', y)) = Cardinality(FdsOf(mountFd, y)) - One(k = y)
              /\ InodeKeys(mountFd') = {z \in InodeKeys(mountFd) : z = k => FdsOf(mountFd, z) # {f}}
  <2>1. f \in DOMAIN fds /\ IsFiniteSet(DOMAIN fds)
    BY <1>9, <1>10
  <2>2. /\ IsFiniteSet(DOMAIN mountFd')
        /\ Cardinality(FdsOn(mountFd', x)) = Cardinality(FdsOn(fds, x)) - One(fds[f].mount = x)
        /\ Cardinality(FdsOf(mountFd', y)) = Cardinality(FdsOf(fds, y)) - One(InodeOf(fds[f]) = y)
        /\ InodeKeys(mountFd') = {z \in InodeKeys(fds) : z = InodeOf(fds[f]) => FdsOf(fds, z) # {f}}
    BY <1>2, <2>1, FdRemoved
  <2> QED BY <1>1, <1>10, <2>2 DEF m
<1>12. /\ DOMAIN mountFd' = DOMAIN mountFd \ {f}
       /\ \A g \in DOMAIN mountFd' : mountFd'[g] = fds[g] /\ g \in DOMAIN mountFd
  BY <1>2, <1>10 DEF Restrict
<1>13. mountFd' \in [DOMAIN mountFd' -> MountFdRecs] /\ mountPwd' \in DOMAIN mountFd'
  <2>1. mountFd' \in [DOMAIN mountFd' -> MountFdRecs]
    <3>1. \A g \in DOMAIN mountFd' : fds[g] \in MountFdRecs
      BY <1>12 DEF SameFiles
    <3> QED BY <1>2, <1>10, <1>12, <3>1 DEF Restrict
  <2> QED BY <1>12, <2>1
<1>14. RootHeld'
  BY <1>12 DEF MountInv, RootHeld, SameFiles
<1>15. /\ DOMAIN inodeRefs = InodeKeys(mountFd)
       /\ \A y \in DOMAIN inodeRefs : inodeRefs[y] = Cardinality(FdsOf(mountFd, y)) /\ inodeRefs[y] \in Nat
  BY DEF MountInv, InodesCounted, MountTypes
<1>16. /\ k \in DOMAIN inodeRefs /\ f \in FdsOf(mountFd, k)
       /\ IsFiniteSet(FdsOf(mountFd, k)) /\ Cardinality(FdsOf(mountFd, k)) \in Nat
  <2>1. f \in FdsOf(fds, k)
    BY <1>1, <1>10 DEF FdsOf
  <2>2. k \in InodeKeys(mountFd)
    BY <1>1, <1>10 DEF InodeKeys
  <2> QED BY <1>9, <1>10, <1>15, <2>1, <2>2, SetsFinite
<1>17. \A g \in DOMAIN mountFd' : mountFd'[g].mount \in Mounted'
  BY <1>8, <1>12 DEF MountInv, HoldersMounted, SameFiles
<1>18. CASE inodeRefs[k] = 1
  <2>1. inodeRefs' = Restrict(inodeRefs, DOMAIN inodeRefs \ {k}) /\ mountCall' = [mountCall EXCEPT ![t] = two]
    BY <1>3, <1>18
  <2>2. FdsOf(mountFd, k) = {f}
    <3>1. /\ IsFiniteSet(FdsOf(mountFd, k) \ {f})
          /\ Cardinality(FdsOf(mountFd, k) \ {f}) = Cardinality(FdsOf(mountFd, k)) - 1
      BY <1>16, FS_RemoveElement
    <3>2. Cardinality(FdsOf(mountFd, k) \ {f}) = 0
      BY <1>15, <1>16, <1>18, <3>1
    <3>3. FdsOf(mountFd, k) \ {f} = {}
      BY <3>1, <3>2, FS_EmptySet
    <3> QED BY <1>16, <3>3
  <2>3. /\ DOMAIN inodeRefs' = DOMAIN inodeRefs \ {k}
        /\ \A y \in DOMAIN inodeRefs' : inodeRefs'[y] = inodeRefs[y] /\ y \in DOMAIN inodeRefs /\ y # k
    BY <2>1 DEF Restrict
  <2>4. InodesCounted'
    <3>1. InodeKeys(mountFd') = InodeKeys(mountFd) \ {k}
      BY <1>11, <2>2
    <3>2. ASSUME NEW y \in DOMAIN inodeRefs' PROVE inodeRefs'[y] = Cardinality(FdsOf(mountFd', y))
      <4>1. Cardinality(FdsOf(mountFd', y)) = Cardinality(FdsOf(mountFd, y)) - One(k = y)
        BY <1>11
      <4> QED BY <1>15, <2>3, <4>1 DEF One
    <3> QED BY <1>15, <2>3, <3>1, <3>2 DEF InodesCounted
  <2>5. MountTypes'
    <3>1. mountRefs' \in [Mounted' -> Nat] /\ mountList' \in Seq(MountRecs)
      BY <1>8 DEF MountInv, MountTypes
    <3>2. inodeRefs' \in [DOMAIN inodeRefs' -> Nat]
      BY <1>15, <2>1, <2>3 DEF Restrict
    <3>3. IsFiniteSet(DOMAIN inodeRefs')
      BY <1>9, <2>3, FS_RemoveElement
    <3>4. mountCall' \in [MountThreads -> MountCallRecs]
      BY <1>5, <2>1 DEF MountInv, MountTypes
    <3>5. IsFiniteSet(DOMAIN mountFd')
      BY <1>11
    <3> QED BY <1>13, <3>1, <3>2, <3>3, <3>4, <3>5 DEF MountTypes
  <2>6. HoldersMounted'
    <3>1. \A i \in 1 .. Len(two.held) : two.held[i] \in Mounted
      BY <1>1, <1>6
    <3>2. ASSUME NEW u \in MountThreads, mountCall'[u] # NoMountCall, NEW i \in 1 .. Len(mountCall'[u].held)
          PROVE  mountCall'[u].held[i] \in Mounted'
      <4>1. CASE u = t
        BY <1>8, <2>1, <3>1, <3>2, <4>1 DEF MountInv, MountTypes
      <4>2. CASE u # t
        BY <1>8, <2>1, <3>2, <4>2 DEF MountInv, MountTypes, HoldersMounted
      <4> QED BY <4>1, <4>2
    <3> QED BY <1>17, <3>2 DEF HoldersMounted
  <2>7. ASSUME NEW x \in Mounted PROVE mountRefs'[x] = mountRefs[x] + (Holds(x)' - Holds(x))
    <3>1. One(m = x) \in Int /\ 0 - One(m = x) \in Int
      BY DEF One
    <3>2. Cardinality(KeysOn(DOMAIN inodeRefs', x)) = Cardinality(KeysOn(DOMAIN inodeRefs, x)) + (0 - One(m = x))
      <4>1. Cardinality(KeysOn(DOMAIN inodeRefs', x)) = Cardinality(KeysOn(DOMAIN inodeRefs, x)) - One(k[1] = x)
        <5>1. Cardinality(KeysOn(DOMAIN inodeRefs \ {k}, x)) = Cardinality(KeysOn(DOMAIN inodeRefs, x)) - One(k[1] = x)
          BY <1>9, <1>16, KeyRemoved
        <5> QED BY <2>3, <5>1
      <4>2. Cardinality(KeysOn(DOMAIN inodeRefs, x)) \in Nat
        BY <1>9, SetsFinite
      <4> QED BY <1>1, <3>1, <4>1, <4>2
    <3>3. Cardinality(FdsOn(mountFd', x)) = Cardinality(FdsOn(mountFd, x)) + (0 - One(m = x))
      <4>1. Cardinality(FdsOn(mountFd, x)) \in Nat
        BY <1>9, SetsFinite
      <4>2. Cardinality(FdsOn(mountFd', x)) = Cardinality(FdsOn(mountFd, x)) - One(m = x)
        BY <1>11
      <4> QED BY <3>1, <4>1, <4>2
    <3>4. Holds(x)' - Holds(x) =
            (0 - One(m = x)) + (0 - One(m = x)) - HeldTwice(mountCall[t], x) + HeldTwice(two, x)
      <4> DEFINE a == 0 - One(m = x)
      <4> SUFFICES Holds(x)' - Holds(x) = a + a - HeldTwice(mountCall[t], x) + HeldTwice(two, x)
        OBVIOUS
      <4>1. /\ a \in Int
            /\ Cardinality(FdsOn(mountFd', x)) = Cardinality(FdsOn(mountFd, x)) + a
            /\ Cardinality(KeysOn(DOMAIN inodeRefs', x)) = Cardinality(KeysOn(DOMAIN inodeRefs, x)) + a
        BY <3>1, <3>2, <3>3
      <4> HIDE DEF a
      <4> QED BY <1>5, <2>1, <4>1, HoldsChange DEF MountInv
    <3>5. mountRefs[x] \in Nat /\ mountRefs'[x] = mountRefs[x]
      BY DEF MountInv, MountTypes
    <3> QED BY <1>7, <3>4, <3>5 DEF One
  <2> QED BY <1>14, <2>4, <2>5, <2>6, <2>7, BalancedStep
<1>19. CASE inodeRefs[k] # 1
  <2>1. inodeRefs' = [inodeRefs EXCEPT ![k] = @ - 1] /\ mountCall' = [mountCall EXCEPT ![t] = one]
    BY <1>3, <1>19
  <2>2. FdsOf(mountFd, k) # {f}
    BY <1>15, <1>16, <1>19, FS_Singleton
  <2>3. Cardinality(FdsOf(mountFd, k)) >= 1
    BY <1>16, FS_EmptySet
  <2>4. /\ DOMAIN inodeRefs' = DOMAIN inodeRefs
        /\ \A y \in DOMAIN inodeRefs : inodeRefs'[y] = inodeRefs[y] - (IF y = k THEN 1 ELSE 0)
    BY <1>15, <1>16, <2>1
  <2>5. InodesCounted'
    <3>1. InodeKeys(mountFd') = InodeKeys(mountFd)
      BY <1>11, <2>2
    <3>2. ASSUME NEW y \in DOMAIN inodeRefs' PROVE inodeRefs'[y] = Cardinality(FdsOf(mountFd', y))
      <4>1. Cardinality(FdsOf(mountFd', y)) = Cardinality(FdsOf(mountFd, y)) - One(k = y)
        BY <1>11
      <4> QED BY <1>15, <2>4, <4>1 DEF One
    <3> QED BY <1>15, <2>4, <3>1, <3>2 DEF InodesCounted
  <2>6. MountTypes'
    <3>1. mountRefs' \in [Mounted' -> Nat] /\ mountList' \in Seq(MountRecs)
      BY <1>8 DEF MountInv, MountTypes
    <3>2. inodeRefs' \in [DOMAIN inodeRefs' -> Nat]
      <4>1. inodeRefs \in [DOMAIN inodeRefs -> Nat] /\ inodeRefs[k] - 1 \in Nat
        BY <1>15, <1>16, <2>3 DEF MountInv, MountTypes
      <4>2. inodeRefs' \in [DOMAIN inodeRefs -> Nat]
        BY <1>16, <2>1, <4>1
      <4> QED BY <2>4, <4>2
    <3>3. IsFiniteSet(DOMAIN inodeRefs')
      BY <1>9, <2>4
    <3>4. mountCall' \in [MountThreads -> MountCallRecs]
      BY <1>5, <2>1 DEF MountInv, MountTypes
    <3>5. IsFiniteSet(DOMAIN mountFd')
      BY <1>11
    <3> QED BY <1>13, <3>1, <3>2, <3>3, <3>4, <3>5 DEF MountTypes
  <2>7. HoldersMounted'
    <3>1. \A i \in 1 .. Len(one.held) : one.held[i] \in Mounted
      BY <1>1, <1>6
    <3>2. ASSUME NEW u \in MountThreads, mountCall'[u] # NoMountCall, NEW i \in 1 .. Len(mountCall'[u].held)
          PROVE  mountCall'[u].held[i] \in Mounted'
      <4>1. CASE u = t
        BY <1>8, <2>1, <3>1, <3>2, <4>1 DEF MountInv, MountTypes
      <4>2. CASE u # t
        BY <1>8, <2>1, <3>2, <4>2 DEF MountInv, MountTypes, HoldersMounted
      <4> QED BY <4>1, <4>2
    <3> QED BY <1>17, <3>2 DEF HoldersMounted
  <2>8. ASSUME NEW x \in Mounted PROVE mountRefs'[x] = mountRefs[x] + (Holds(x)' - Holds(x))
    <3>1. One(m = x) \in Int /\ 0 - One(m = x) \in Int /\ 0 \in Int
      BY DEF One
    <3>2. Cardinality(KeysOn(DOMAIN inodeRefs', x)) = Cardinality(KeysOn(DOMAIN inodeRefs, x)) + 0
      <4>1. Cardinality(KeysOn(DOMAIN inodeRefs, x)) \in Nat
        BY <1>9, SetsFinite
      <4> QED BY <2>4, <4>1
    <3>3. Cardinality(FdsOn(mountFd', x)) = Cardinality(FdsOn(mountFd, x)) + (0 - One(m = x))
      <4>1. Cardinality(FdsOn(mountFd, x)) \in Nat
        BY <1>9, SetsFinite
      <4>2. Cardinality(FdsOn(mountFd', x)) = Cardinality(FdsOn(mountFd, x)) - One(m = x)
        BY <1>11
      <4> QED BY <3>1, <4>1, <4>2
    <3>4. Holds(x)' - Holds(x) =
            (0 - One(m = x)) + 0 - HeldTwice(mountCall[t], x) + HeldTwice(one, x)
      <4> DEFINE a == 0 - One(m = x)
                 b == 0
      <4> SUFFICES Holds(x)' - Holds(x) = a + b - HeldTwice(mountCall[t], x) + HeldTwice(one, x)
        OBVIOUS
      <4>1. /\ a \in Int
            /\ Cardinality(FdsOn(mountFd', x)) = Cardinality(FdsOn(mountFd, x)) + a
            /\ b \in Int
            /\ Cardinality(KeysOn(DOMAIN inodeRefs', x)) = Cardinality(KeysOn(DOMAIN inodeRefs, x)) + b
        BY <3>1, <3>2, <3>3
      <4> HIDE DEF a, b
      <4> QED BY <1>5, <2>1, <4>1, HoldsChange DEF MountInv
    <3>5. mountRefs[x] \in Nat /\ mountRefs'[x] = mountRefs[x]
      BY DEF MountInv, MountTypes
    <3> QED BY <1>7, <3>4, <3>5 DEF One
  <2> QED BY <1>14, <2>5, <2>6, <2>7, <2>8, BalancedStep
<1> QED BY <1>18, <1>19

LEMMA CloseFdInv ==
  ASSUME MountInv, NEW t \in MountThreads, NEW f \in MountFds, CloseFd(t, f)
  PROVE  MountInv'
<1>1. mountCall[t] = NoMountCall /\ f \in DOMAIN mountFd /\ f # 0
  BY MountAssumption DEF CloseFd
<1>2. UNCHANGED <<mountList, mountRefs, mountPwd>>
  BY DEF CloseFd
<1>3. mountFd \in [DOMAIN mountFd -> MountFdRecs] /\ mountPwd \in DOMAIN mountFd
  BY DEF MountInv, MountTypes
<1>4. 0 \in DOMAIN mountFd /\ mountFd[0].slot
  BY DEF MountInv, RootHeld
<1>5. CASE f = mountPwd
  <2>1. mountFd' = [mountFd EXCEPT ![f].slot = FALSE] /\ UNCHANGED <<inodeRefs, mountCall>>
    BY <1>5 DEF CloseFd
  <2>2. SameFiles(mountFd') /\ mountFd'[0].slot
    BY <1>1, <1>3, <1>4, <2>1 DEF SameFiles, MountFdRecs
  <2> QED BY <1>2, <1>3, <2>1, <2>2, SlotStep
<1>6. CASE f # mountPwd
  <2>1. LastInodeClose(t, f, mountFd)
    BY <1>6 DEF CloseFd
  <2>2. SameFiles(mountFd)
    BY <1>3 DEF SameFiles
  <2> QED BY <1>1, <1>2, <1>3, <1>4, <1>6, <2>1, <2>2, LastCloseInv
<1> QED BY <1>5, <1>6

LEMMA ChdirInv ==
  ASSUME MountInv, NEW t \in MountThreads, NEW f \in MountFds, NEW shared \in BOOLEAN, Chdir(t, f, shared)
  PROVE  MountInv'
<1> DEFINE fds == [mountFd EXCEPT ![f].slot = shared]
<1>1. /\ mountCall[t] = NoMountCall /\ f \in DOMAIN mountFd /\ f # 0 /\ f # mountPwd
      /\ mountPwd' = f /\ UNCHANGED <<mountList, mountRefs>>
  BY MountAssumption DEF Chdir
<1>2. mountFd \in [DOMAIN mountFd -> MountFdRecs] /\ mountPwd \in DOMAIN mountFd
  BY DEF MountInv, MountTypes
<1>3. 0 \in DOMAIN mountFd /\ mountFd[0].slot
  BY DEF MountInv, RootHeld
<1>4. SameFiles(fds) /\ fds[0].slot
  BY <1>1, <1>2, <1>3 DEF SameFiles, MountFdRecs
<1>5. IF fds[mountPwd].slot
      THEN mountFd' = fds /\ UNCHANGED <<inodeRefs, mountCall>>
      ELSE LastInodeClose(t, mountPwd, fds)
  BY DEF Chdir
<1> HIDE DEF fds
<1>6. CASE fds[mountPwd].slot
  <2>1. mountFd' = fds /\ UNCHANGED <<inodeRefs, mountCall>>
    BY <1>5, <1>6
  <2>2. SameFiles(mountFd') /\ mountFd'[0].slot
    BY <1>4, <2>1
  <2> QED BY <1>1, <2>1, <2>2, SlotStep
<1>7. CASE ~fds[mountPwd].slot
  <2>1. LastInodeClose(t, mountPwd, fds)
    BY <1>5, <1>7
  <2>2. mountPwd # 0
    BY <1>4, <1>7
  <2>3. mountPwd # mountPwd'
    BY <1>1
  <2> QED BY <1>1, <1>2, <1>4, <2>1, <2>2, <2>3, LastCloseInv
<1> QED BY <1>6, <1>7

(* Nobody holds a mount exactly if its three sets of holders are empty.    *)
LEMMA HoldsNobody ==
  ASSUME MountTypes, NEW m
  PROVE  Holds(m) = 0 <=> /\ FdsOn(mountFd, m) = {} /\ KeysOn(DOMAIN inodeRefs, m) = {}
                          /\ CallsOn(mountCall, m) = {}
<1> DEFINE a == FdsOn(mountFd, m)
           b == KeysOn(DOMAIN inodeRefs, m)
           c == CallsOn(mountCall, m)
<1>1. /\ IsFiniteSet(a) /\ IsFiniteSet(b) /\ IsFiniteSet(c)
      /\ Cardinality(a) \in Nat /\ Cardinality(b) \in Nat /\ Cardinality(c) \in Nat
  BY SetsFinite, CallsFinite DEF MountTypes
<1>2. Holds(m) = Cardinality(a) + Cardinality(b) + Cardinality(c)
  BY HoldsIs
<1> HIDE DEF a, b, c
<1>3. (Cardinality(a) = 0 <=> a = {}) /\ (Cardinality(b) = 0 <=> b = {}) /\ (Cardinality(c) = 0 <=> c = {})
  BY <1>1, FS_EmptySet
<1>4. Holds(m) = 0 <=> a = {} /\ b = {} /\ c = {}
  BY <1>1, <1>2, <1>3
<1> QED BY <1>4 DEF a, b, c

LEMMA NotHeld ==
  ASSUME MountTypes, HoldersMounted, InodesCounted, NEW m, m \notin Mounted
  PROVE  Holds(m) = 0
<1>1. FdsOn(mountFd, m) = {}
  BY DEF HoldersMounted, FdsOn
<1>2. KeysOn(DOMAIN inodeRefs, m) = {}
  BY DEF HoldersMounted, InodesCounted, KeysOn, InodeKeys, InodeOf
<1>3. CallsOn(mountCall, m) = {}
  <2>1. SUFFICES ASSUME NEW h \in CallsOn(mountCall, m) PROVE FALSE
    OBVIOUS
  <2>2. h[1] \in MountThreads /\ mountCall[h[1]] # NoMountCall /\ h[2] \in DOMAIN mountCall[h[1]].held
        /\ mountCall[h[1]].held[h[2]] = m
    BY DEF CallsOn
  <2>3. mountCall[h[1]].held \in Seq(MountIds)
    BY <2>2 DEF MountTypes, MountCallRecs, HeldCalls
  <2>4. h[2] \in 1 .. Len(mountCall[h[1]].held)
    BY <2>2, <2>3, LenProperties
  <2> QED BY <2>2, <2>4 DEF HoldersMounted
<1> QED BY <1>1, <1>2, <1>3, HoldsNobody

(* A mount that was not in the list has no holders.                        *)
LEMMA DoMountInv ==
  ASSUME MountInv, NEW m \in MountIds, NEW point \in Points, DoMount(m, point)
  PROVE  MountInv'
<1> DEFINE L == mountList
           n == Len(L)
           k == Cardinality(Longer(point))
           e == [id |-> m, point |-> point]
<1>1. point \in Seq(STRING) /\ e \in MountRecs
  BY MountAssumption DEF MountRecs
<1>2. L \in Seq(MountRecs) /\ n \in Nat /\ Ordered(L)
  BY LenProperties DEF MountInv, MountTypes
<1>3. /\ k \in 0 .. n /\ \A j \in 1 .. k : Len(L[j].point) > Len(point)
      /\ \A j \in k + 1 .. n : Len(L[j].point) <= Len(point)
  BY <1>1, <1>2, LongerIs DEF MountInv
<1>4. /\ m \notin Mounted /\ mountList' = InsertAt(L, k + 1, e)
      /\ mountRefs' = [x \in DOMAIN mountRefs \cup {m} |-> IF x = m THEN 0 ELSE mountRefs[x]]
      /\ UNCHANGED <<inodeRefs, mountFd, mountPwd, mountCall>>
  BY DEF DoMount
<1> HIDE DEF k
<1>5. /\ mountList' \in Seq(MountRecs) /\ Len(mountList') = n + 1
      /\ \A i \in 1 .. n + 1 :
           mountList'[i] = IF i <= k THEN L[i] ELSE IF i = k + 1 THEN e ELSE L[i - 1]
  <2> HIDE DEF e
  <2>1. L \in Seq(MountRecs) /\ k \in 0 .. Len(L) /\ e \in MountRecs
    BY <1>1, <1>2, <1>3 DEF e
  <2>2. PutAt(MountRecs, InsertAt(L, k + 1, e), L, k, e)
    <3> HIDE DEF L
    <3> QED BY <2>1, ListInsert
  <2>3. PutAt(MountRecs, mountList', L, k, e)
    BY <1>4, <2>2
  <2> QED BY <2>3 DEF PutAt
<1>6. /\ e.id = m /\ e.point = point /\ Len(point) \in Nat
      /\ \A i \in 1 .. n : Len(L[i].point) \in Nat /\ L[i].id \in Mounted
  <2>1. \A i \in 1 .. n : L[i] \in MountRecs
    BY <1>2, ElementOfSeq
  <2> QED BY <1>1, <1>2, <2>1, LenProperties, MountedIs DEF MountRecs
<1> HIDE DEF e
<1>7. ASSUME NEW i \in 1 .. n + 1
      PROVE  \/ i <= k /\ i \in 1 .. n /\ mountList'[i] = L[i]
             \/ i = k + 1 /\ mountList'[i] = e
             \/ i > k + 1 /\ i - 1 \in 1 .. n /\ i - 1 > k /\ mountList'[i] = L[i - 1]
  BY <1>2, <1>3, <1>5
<1>8. ASSUME NEW i \in 1 .. n
      PROVE  \E j \in 1 .. n + 1 : mountList'[j] = L[i]
  <2>1. CASE i <= k
    <3>1. i \in 1 .. n + 1 /\ mountList'[i] = L[i]
      BY <1>2, <1>3, <1>5, <2>1
    <3> QED BY <3>1
  <2>2. CASE i > k
    <3>1. i + 1 \in 1 .. n + 1 /\ ~(i + 1 <= k) /\ i + 1 # k + 1 /\ (i + 1) - 1 = i
      BY <1>2, <1>3, <2>2
    <3>2. mountList'[i + 1] = L[(i + 1) - 1]
      BY <1>5, <3>1
    <3> QED BY <3>1, <3>2
  <2> QED BY <1>3, <2>1, <2>2
<1>9. Ordered(mountList')
  <2>1. ASSUME NEW i \in 1 .. n + 1, NEW j \in 1 .. n + 1, mountList'[i].id = mountList'[j].id PROVE i = j
    <3>1. \A a, b \in 1 .. n : L[a].id = L[b].id => a = b
      BY <1>2 DEF Ordered
    <3>2. \A a \in 1 .. n : L[a].id # m
      BY <1>4, <1>6
    <3> DEFINE From(x) == IF x <= k THEN x ELSE x - 1
    <3>3. \A x \in 1 .. n + 1 : x # k + 1 => From(x) \in 1 .. n /\ mountList'[x] = L[From(x)]
      BY <1>2, <1>3, <1>7
    <3>4. mountList'[k + 1].id = m /\ k + 1 \in 1 .. n + 1
      BY <1>2, <1>3, <1>5, <1>6
    <3>5. CASE i = k + 1 \/ j = k + 1
      BY <2>1, <3>2, <3>3, <3>4, <3>5
    <3>6. CASE i # k + 1 /\ j # k + 1
      <4>1. L[From(i)].id = L[From(j)].id /\ From(i) \in 1 .. n /\ From(j) \in 1 .. n
        BY <2>1, <3>3, <3>6
      <4>2. From(i) = From(j)
        <5> HIDE DEF From
        <5> QED BY <3>1, <4>1
      <4> QED BY <1>2, <1>3, <3>6, <4>2
    <3> QED BY <3>5, <3>6
  <2>2. ASSUME NEW i \in 1 .. n + 1, NEW j \in 1 .. n + 1, i < j
        PROVE  Len(mountList'[i].point) >= Len(mountList'[j].point)
    <3>1. \A a, b \in 1 .. n : a < b => Len(L[a].point) >= Len(L[b].point)
      BY <1>2 DEF Ordered
    <3>2. CASE i <= k
      <4>1. i \in 1 .. n /\ mountList'[i] = L[i]
        BY <1>3, <1>7, <3>2
      <4>2. CASE j <= k
        BY <1>3, <1>7, <2>2, <3>1, <4>1, <4>2
      <4>3. CASE j = k + 1
        <5>1. Len(L[i].point) > Len(point) /\ mountList'[j].point = point
          BY <1>3, <1>6, <1>7, <3>2, <4>3
        <5> QED BY <1>6, <4>1, <5>1
      <4>4. CASE j > k + 1
        <5>1. j - 1 \in 1 .. n /\ i < j - 1 /\ mountList'[j] = L[j - 1]
          BY <1>3, <1>7, <3>2, <4>4
        <5> QED BY <3>1, <4>1, <5>1
      <4> QED BY <1>3, <4>2, <4>3, <4>4
    <3>3. CASE i = k + 1
      <4>1. j > k + 1 /\ j - 1 \in k + 1 .. n /\ mountList'[j] = L[j - 1] /\ j - 1 \in 1 .. n
        BY <1>2, <1>3, <1>7, <2>2, <3>3
      <4>2. mountList'[i].point = point
        BY <1>3, <1>6, <1>7, <3>3
      <4> QED BY <1>3, <1>6, <4>1, <4>2
    <3>4. CASE i > k + 1
      <4>1. i - 1 \in 1 .. n /\ mountList'[i] = L[i - 1] /\ j - 1 \in 1 .. n /\ mountList'[j] = L[j - 1]
            /\ i - 1 < j - 1
        BY <1>3, <1>7, <2>2, <3>4
      <4> QED BY <3>1, <4>1
    <3> QED BY <1>3, <3>2, <3>3, <3>4
  <2>3. \E i \in 1 .. n + 1 : mountList'[i].id = 1 /\ mountList'[i].point = <<>>
    <3>1. PICK i \in 1 .. n : L[i].id = 1 /\ L[i].point = <<>>
      BY <1>2 DEF Ordered
    <3>2. PICK j \in 1 .. n + 1 : mountList'[j] = L[i]
      BY <1>8
    <3> QED BY <3>1, <3>2
  <2> QED BY <1>5, <2>1, <2>2, <2>3 DEF Ordered
<1>10. Mounted' = Mounted \cup {m}
  <2>1. Mounted' = {mountList'[i].id : i \in 1 .. n + 1}
    <3>1. DOMAIN mountList' = 1 .. n + 1
      BY <1>5, LenProperties
    <3> QED BY <3>1 DEF Mounted
  <2>2. Mounted = {L[i].id : i \in 1 .. n}
    BY <1>2, MountedIs
  <2>3. ASSUME NEW x \in Mounted' PROVE x \in Mounted \cup {m}
    <3>1. PICK i \in 1 .. n + 1 : x = mountList'[i].id
      BY <2>1
    <3> QED BY <1>6, <1>7, <2>2, <3>1
  <2>4. ASSUME NEW x \in Mounted PROVE x \in Mounted'
    <3>1. PICK i \in 1 .. n : x = L[i].id
      BY <2>2
    <3>2. PICK j \in 1 .. n + 1 : mountList'[j] = L[i]
      BY <1>8
    <3> QED BY <2>1, <3>1, <3>2
  <2>5. m \in Mounted'
    <3>1. k + 1 \in 1 .. n + 1 /\ mountList'[k + 1].id = m
      BY <1>3, <1>5, <1>6
    <3> QED BY <2>1, <3>1
  <2> QED BY <2>3, <2>4, <2>5
<1>11. /\ mountRefs' \in [Mounted' -> Nat] /\ mountRefs'[m] = 0
       /\ \A x \in Mounted : mountRefs'[x] = mountRefs[x]
  BY <1>4, <1>10 DEF MountInv, MountTypes
<1>12. MountTypes'
  BY <1>4, <1>5, <1>11 DEF MountInv, MountTypes
<1>13. RootHeld' /\ InodesCounted'
  BY <1>4 DEF MountInv, RootHeld, InodesCounted
<1>14. HoldersMounted'
  BY <1>4, <1>10 DEF MountInv, HoldersMounted
<1>15. \A x : Holds(x)' = Holds(x)
  BY <1>4, HoldsIs, HoldsIsNext
<1>16. Holds(m) = 0
  BY <1>4, NotHeld DEF MountInv
<1>17. RefsCounted'
  BY <1>10, <1>11, <1>15, <1>16 DEF MountInv, RefsCounted
<1> QED BY <1>9, <1>12, <1>13, <1>14, <1>17 DEF MountInv

(* What is removed was held by nobody.                                     *)
LEMMA DoUmountInv ==
  ASSUME MountInv, NEW point \in Points, DoUmount(point)
  PROVE  MountInv'
<1> DEFINE L == mountList
           n == Len(L)
<1>1. PICK k \in DOMAIN L :
        /\ mountRefs[L[k].id] = 0 /\ mountList' = RemoveAt(L, k)
        /\ mountRefs' = Restrict(mountRefs, DOMAIN mountRefs \ {L[k].id})
        /\ UNCHANGED <<inodeRefs, mountFd, mountPwd, mountCall>>
  BY DEF DoUmount, MayRemove
<1> DEFINE m == L[k].id
<1>2. L \in Seq(MountRecs) /\ n \in Nat /\ Ordered(L) /\ k \in 1 .. n
  BY LenProperties DEF MountInv, MountTypes
<1>3. /\ mountList' \in Seq(MountRecs) /\ Len(mountList') = n - 1
      /\ \A i \in 1 .. n - 1 : mountList'[i] = IF i < k THEN L[i] ELSE L[i + 1]
  BY <1>1, <1>2, ListRemove
<1>4. Mounted = {L[i].id : i \in 1 .. n} /\ m \in Mounted
  BY <1>2, MountedIs
<1>5. ASSUME NEW i \in 1 .. n - 1
      PROVE  \/ i < k /\ i \in 1 .. n /\ mountList'[i] = L[i]
             \/ i >= k /\ i + 1 \in 1 .. n /\ mountList'[i] = L[i + 1]
  BY <1>2, <1>3
<1>6. ASSUME NEW i \in 1 .. n, i # k
      PROVE  \E j \in 1 .. n - 1 : mountList'[j] = L[i]
  <2>1. CASE i < k
    <3>1. i \in 1 .. n - 1 /\ mountList'[i] = L[i]
      BY <1>2, <1>3, <2>1
    <3> QED BY <3>1
  <2>2. CASE i > k
    <3>1. i - 1 \in 1 .. n - 1 /\ ~(i - 1 < k) /\ (i - 1) + 1 = i
      BY <1>2, <2>2
    <3>2. mountList'[i - 1] = L[(i - 1) + 1]
      BY <1>3, <3>1
    <3> QED BY <3>1, <3>2
  <2> QED BY <1>2, <1>6, <2>1, <2>2
<1>7. Holds(m) = 0
  BY <1>1, <1>4 DEF MountInv, RefsCounted
<1>8. /\ FdsOn(mountFd, m) = {} /\ KeysOn(DOMAIN inodeRefs, m) = {} /\ CallsOn(mountCall, m) = {}
  BY <1>7, HoldsNobody DEF MountInv
<1>9. m # 1
  BY <1>8 DEF MountInv, RootHeld, FdsOn
<1>10. Mounted' = Mounted \ {m}
  <2>1. Mounted' = {mountList'[i].id : i \in 1 .. n - 1}
    <3>1. DOMAIN mountList' = 1 .. n - 1
      BY <1>3, LenProperties
    <3> QED BY <3>1 DEF Mounted
  <2>2. \A a, b \in 1 .. n : L[a].id = L[b].id => a = b
    BY <1>2 DEF Ordered
  <2>3. ASSUME NEW x \in Mounted' PROVE x \in Mounted \ {m}
    <3>1. PICK i \in 1 .. n - 1 : x = mountList'[i].id
      BY <2>1
    <3>2. \E j \in 1 .. n : j # k /\ x = L[j].id
      BY <1>2, <1>5, <3>1
    <3> QED BY <1>2, <1>4, <2>2, <3>2
  <2>4. ASSUME NEW x \in Mounted \ {m} PROVE x \in Mounted'
    <3>1. PICK i \in 1 .. n : x = L[i].id
      BY <1>4
    <3>2. PICK j \in 1 .. n - 1 : mountList'[j] = L[i]
      BY <1>6, <3>1
    <3> QED BY <2>1, <3>1, <3>2
  <2> QED BY <2>3, <2>4
<1>11. Ordered(mountList')
  <2>1. ASSUME NEW i \in 1 .. n - 1, NEW j \in 1 .. n - 1, mountList'[i].id = mountList'[j].id PROVE i = j
    <3>1. \A a, b \in 1 .. n : L[a].id = L[b].id => a = b
      BY <1>2 DEF Ordered
    <3> QED BY <1>2, <1>5, <2>1, <3>1
  <2>2. ASSUME NEW i \in 1 .. n - 1, NEW j \in 1 .. n - 1, i < j
        PROVE  Len(mountList'[i].point) >= Len(mountList'[j].point)
    <3>1. \A a, b \in 1 .. n : a < b => Len(L[a].point) >= Len(L[b].point)
      BY <1>2 DEF Ordered
    <3> DEFINE From(x) == IF x < k THEN x ELSE x + 1
    <3>2. \A x \in 1 .. n - 1 : From(x) \in 1 .. n /\ mountList'[x] = L[From(x)]
      BY <1>2, <1>5
    <3>3. From(i) < From(j)
      BY <1>2, <2>2
    <3> HIDE DEF From
    <3> QED BY <3>1, <3>2, <3>3
  <2>3. \E i \in 1 .. n - 1 : mountList'[i].id = 1 /\ mountList'[i].point = <<>>
    <3>1. PICK i \in 1 .. n : L[i].id = 1 /\ L[i].point = <<>>
      BY <1>2 DEF Ordered
    <3>2. PICK j \in 1 .. n - 1 : mountList'[j] = L[i]
      BY <1>6, <1>9, <3>1
    <3> QED BY <3>1, <3>2
  <2> QED BY <1>3, <2>1, <2>2, <2>3 DEF Ordered
<1>12. /\ mountRefs' \in [Mounted' -> Nat]
       /\ \A x \in Mounted' : mountRefs'[x] = mountRefs[x]
  BY <1>1, <1>10 DEF MountInv, MountTypes, Restrict
<1>13. MountTypes'
  BY <1>1, <1>3, <1>12 DEF MountInv, MountTypes
<1>14. RootHeld' /\ InodesCounted'
  BY <1>1 DEF MountInv, RootHeld, InodesCounted
<1>15. HoldersMounted'
  <2>1. \A f \in DOMAIN mountFd' : mountFd'[f].mount \in Mounted'
    BY <1>1, <1>8, <1>10 DEF MountInv, HoldersMounted, FdsOn
  <2>2. ASSUME NEW t \in MountThreads, mountCall[t] # NoMountCall, NEW i \in 1 .. Len(mountCall[t].held)
        PROVE  mountCall[t].held[i] \in Mounted'
    <3>1. mountCall[t].held[i] \in Mounted
      BY <2>2 DEF MountInv, HoldersMounted
    <3>2. mountCall[t] \in HeldCalls
      BY <2>2 DEF MountInv, MountTypes, MountCallRecs
    <3>3. i \in DOMAIN mountCall[t].held /\ i \in 1 .. 2
      <4>1. mountCall[t].held \in Seq(MountIds) /\ Len(mountCall[t].held) \in 1 .. 2
        BY <3>2 DEF HeldCalls
      <4> DEFINE h == mountCall[t].held
      <4>2. DOMAIN h = 1 .. Len(h) /\ Len(h) \in 1 .. 2 /\ i \in 1 .. Len(h)
        BY <4>1, LenProperties
      <4> HIDE DEF h
      <4>3. i \in DOMAIN h /\ i \in 1 .. 2
        BY <4>2
      <4> QED BY <4>3 DEF h
    <3>4. mountCall[t].held[i] # m
      <4>1. <<t, i>> \notin CallsOn(mountCall, m)
        BY <1>8
      <4> QED BY <2>2, <3>3, <4>1 DEF CallsOn
    <3> QED BY <1>10, <3>1, <3>4
  <2> QED BY <1>1, <2>1, <2>2 DEF HoldersMounted
<1>16. \A x : Holds(x)' = Holds(x)
  BY <1>1, HoldsIs, HoldsIsNext
<1>17. RefsCounted'
  BY <1>10, <1>12, <1>16 DEF MountInv, RefsCounted
<1> QED BY <1>11, <1>13, <1>14, <1>15, <1>17 DEF MountInv

LEMMA MountInitInv == MountsInit => MountInv
<1> SUFFICES ASSUME MountsInit PROVE MountInv
  OBVIOUS
<1> USE DEF MountsInit
<1> DEFINE e == [id |-> 1, point |-> <<>>]
           r == [mount |-> 1, ino |-> 0, slot |-> TRUE]
<1>1. e \in MountRecs /\ r \in MountFdRecs /\ NoMountCall \in MountCallRecs
  BY MountAssumption DEF MountRecs, MountFdRecs, MountCallRecs
<1>2. mountList \in Seq(MountRecs) /\ Len(mountList) = 1 /\ mountList[1] = e
  BY <1>1
<1>3. Mounted = {1}
  BY <1>2, MountedIs
<1>4. DOMAIN mountFd = {0} /\ mountFd[0] = r /\ DOMAIN inodeRefs = {<<1, 0>>} /\ inodeRefs[<<1, 0>>] = 1
  OBVIOUS
<1>5. IsFiniteSet({0}) /\ Cardinality({0}) = 1 /\ IsFiniteSet({<<1, 0>>}) /\ Cardinality({<<1, 0>>}) = 1
  BY FS_Singleton
<1>6. MountTypes
  <2>1. mountFd \in [{0} -> MountFdRecs] /\ inodeRefs \in [{<<1, 0>>} -> Nat] /\ mountRefs \in [{1} -> Nat]
    BY <1>1
  <2> QED BY <1>1, <1>2, <1>3, <1>4, <1>5, <2>1 DEF MountTypes
<1>7. Ordered(mountList)
  BY <1>2 DEF Ordered
<1>8. RootHeld
  BY <1>4 DEF RootHeld
<1>9. HoldersMounted
  BY <1>3, <1>4 DEF HoldersMounted
<1>10. InodeOf(r) = <<1, 0>>
  BY DEF InodeOf
<1>11. InodesCounted
  <2>1. InodeKeys(mountFd) = {<<1, 0>>}
    BY <1>4, <1>10 DEF InodeKeys
  <2>2. FdsOf(mountFd, <<1, 0>>) = {0}
    BY <1>4, <1>10 DEF FdsOf
  <2> QED BY <1>4, <1>5, <2>1, <2>2 DEF InodesCounted
<1>12. RefsCounted
  <2>1. FdsOn(mountFd, 1) = {0}
    BY <1>4 DEF FdsOn
  <2>2. KeysOn(DOMAIN inodeRefs, 1) = {<<1, 0>>}
    BY <1>4 DEF KeysOn
  <2>3. CallsOn(mountCall, 1) = {}
    BY DEF CallsOn
  <2>4. Cardinality(CallsOn(mountCall, 1)) = 0
    BY <2>3, FS_EmptySet
  <2>5. Holds(1) = 1 + 1 + 0
    BY <1>5, <2>1, <2>2, <2>4, HoldsIs
  <2> QED BY <1>3, <2>5 DEF RefsCounted
<1> QED BY <1>6, <1>7, <1>8, <1>9, <1>11, <1>12 DEF MountInv

LEMMA MountStep == MountInv /\ [MountsNext]_mountVars => MountInv'
<1> SUFFICES ASSUME MountInv, [MountsNext]_mountVars PROVE MountInv'
  OBVIOUS
<1>1. ASSUME NEW t \in MountThreads, NEW path \in Points,
             Accessat(t, path) \/ NameCalls(t, path) \/ AttrCalls(t, path) \/ DirCalls(t, path)
             \/ Openat(t, path)
      PROVE  MountInv'
  <2>1. \E op \in {"one", "two", "open"} : Hold(t, op, path)
    BY <1>1 DEF Accessat, NameCalls, AttrCalls, DirCalls, Openat, Unlinkat, Changeat, Linkat,
                Renameat, Rmdirat
  <2> QED BY <2>1, HoldInv
<1>2. ASSUME NEW t \in MountThreads, NEW path \in Points, SecondPath(t, path) PROVE MountInv'
  BY <1>2, SecondPathInv
<1>3. ASSUME NEW t \in MountThreads, Answered(t) PROVE MountInv'
  BY <1>3, AnsweredInv
<1>4. ASSUME NEW t \in MountThreads, NEW f \in MountFds, NEW ino \in Inodes, OpenInode(t, f, ino) PROVE MountInv'
  BY <1>4, OpenInodeInv
<1>5. ASSUME NEW t \in MountThreads, NEW f \in MountFds, CloseFd(t, f) PROVE MountInv'
  BY <1>5, CloseFdInv
<1>6. ASSUME NEW t \in MountThreads, NEW f \in MountFds, NEW shared \in BOOLEAN, Chdir(t, f, shared)
      PROVE  MountInv'
  BY <1>6, ChdirInv
<1>7. ASSUME NEW m \in MountIds, NEW point \in Points, DoMount(m, point) PROVE MountInv'
  BY <1>7, DoMountInv
<1>8. ASSUME NEW point \in Points, DoUmount(point) PROVE MountInv'
  BY <1>8, DoUmountInv
<1>9. CASE UNCHANGED mountVars
  <2>1. SameFiles(mountFd')
    BY <1>9 DEF mountVars, SameFiles, MountInv, MountTypes
  <2>2. mountFd'[0].slot /\ mountPwd' \in DOMAIN mountFd
    BY <1>9 DEF mountVars, MountInv, MountTypes, RootHeld
  <2> QED BY <1>9, <2>1, <2>2, SlotStep DEF mountVars
<1> QED BY <1>1, <1>2, <1>3, <1>4, <1>5, <1>6, <1>7, <1>8, <1>9 DEF MountsNext

(* A mount's count is the number of its holders, nobody holds one that was *)
(* freed, an inode_data lives exactly as long as a descriptor of its file  *)
(* and counts them, and a path goes to the longest point above it, for any *)
(* number of mounts, descriptors, inodes and threads (fs/mount.c           *)
(* mount_find, do_mount, mount_remove; fs/inode.c; fs/generic.c).          *)
THEOREM MountsAreSafe == MountsSpec => []MountsSafe
<1>1. MountsInit => MountInv
  BY MountInitInv
<1>2. MountInv /\ [MountsNext]_mountVars => MountInv'
  BY MountStep
<1>3. MountInv => MountsSafe
  <2> SUFFICES ASSUME MountInv PROVE MountsSafe
    OBVIOUS
  <2>1. \A m \in Mounted : mountRefs[m] = Holds(m)
    BY DEF MountInv, RefsCounted
  <2>2. \A m \in MountIds \ Mounted : Holds(m) = 0
    BY NotHeld DEF MountInv
  <2>3. /\ DOMAIN inodeRefs = {<<mountFd[f].mount, mountFd[f].ino>> : f \in DOMAIN mountFd}
        /\ \A k \in DOMAIN inodeRefs :
             inodeRefs[k] = Cardinality({f \in DOMAIN mountFd : <<mountFd[f].mount, mountFd[f].ino>> = k})
    BY DEF MountInv, InodesCounted, InodeKeys, FdsOf, InodeOf
  <2>4. ASSUME NEW path \in Points, NEW i \in DOMAIN mountList, IsPrefix(mountList[i].point, path)
        PROVE  \E j \in DOMAIN mountList : /\ mountList[j].id = Find(path)
                                           /\ Len(mountList[j].point) >= Len(mountList[i].point)
    <3>1. Len(mountList) \in Nat /\ DOMAIN mountList = 1 .. Len(mountList)
      BY LenProperties DEF MountInv, MountTypes
    <3>2. PICK j \in 1 .. Len(mountList) :
            /\ Find(path) = mountList[j].id /\ IsPrefix(mountList[j].point, path)
            /\ \A h \in 1 .. (j - 1) : ~IsPrefix(mountList[h].point, path)
      BY FindIs DEF MountInv
    <3>3. j = i \/ j < i
      BY <2>4, <3>1, <3>2
    <3>4. j < i => Len(mountList[j].point) >= Len(mountList[i].point)
      BY <3>1 DEF MountInv, Ordered
    <3>5. Len(mountList[i].point) \in Nat
      <4>1. mountList[i] \in MountRecs
        BY <3>1, ElementOfSeq DEF MountInv, MountTypes
      <4> QED BY <4>1, LenProperties DEF MountRecs
    <3> QED BY <3>1, <3>2, <3>3, <3>4, <3>5
  <2> QED BY <2>1, <2>2, <2>3, <2>4 DEF MountsSafe
<1> QED BY <1>1, <1>2, <1>3, PTL DEF MountsSpec
=============================================================================
