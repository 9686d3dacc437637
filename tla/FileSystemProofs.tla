-------------------------- MODULE FileSystemProofs --------------------------
(***************************************************************************)
(* File systems.  The database and the host tree of fakefs, for any names, *)
(* files and threads and any number of stops: they agree on every name     *)
(* that no stop, no race of an open and no rename between two links of one *)
(* file has torn, and an open file keeps its row.  tmpfs, for any names,   *)
(* threads, descriptors, calls and bytes: the tree, the bytes, the offsets *)
(* and the listings are what a file system promises, those of a descriptor *)
(* whenever no calls under different locks are at work on it.              *)
(***************************************************************************)
EXTENDS FakeFS, TmpFS, Induction, SequenceTheorems, FiniteSetTheorems, TLAPS

-----------------------------------------------------------------------------
(* Tables: functions on part of a set.                                     *)
IsTable(f, X, Y) == f \in [DOMAIN f -> Y] /\ DOMAIN f \subseteq X

LEMMA WithIs ==
  ASSUME NEW f, NEW x, NEW v
  PROVE  /\ DOMAIN With(f, x, v) = DOMAIN f \cup {x} /\ With(f, x, v)[x] = v
         /\ \A y \in DOMAIN f : y # x => With(f, x, v)[y] = f[y]
BY DEF With

LEMMA WithTable ==
  ASSUME NEW X, NEW Y, NEW f, IsTable(f, X, Y), NEW x \in X, NEW v \in Y
  PROVE  IsTable(With(f, x, v), X, Y)
BY DEF With, IsTable

LEMMA RestrictTable ==
  ASSUME NEW X, NEW Y, NEW f, IsTable(f, X, Y), NEW D \in SUBSET DOMAIN f
  PROVE  /\ IsTable(Restrict(f, D), X, Y) /\ DOMAIN Restrict(f, D) = D
         /\ \A x \in D : Restrict(f, D)[x] = f[x]
BY DEF Restrict, IsTable

LEMMA WithoutTable ==
  ASSUME NEW X, NEW Y, NEW f, IsTable(f, X, Y), NEW D
  PROVE  /\ IsTable(Without(f, D), X, Y) /\ DOMAIN Without(f, D) = DOMAIN f \ D
         /\ \A x \in DOMAIN f \ D : Without(f, D)[x] = f[x]
BY RestrictTable DEF Without

(* A set of numbers with a bound has a largest one.                        *)
LEMMA LargestIs ==
  ASSUME NEW n \in Nat, NEW D \in SUBSET (1 .. n), D # {}
  PROVE  Max(D) \in D /\ \A y \in D : Max(D) >= y
<1> DEFINE T == {n - x : x \in D}
<1>1. T \in SUBSET Nat /\ T # {}
  <2>1. \A x \in D : n - x \in Nat /\ n - x \in T
    OBVIOUS
  <2>2. \A z \in T : \E x \in D : z = n - x
    OBVIOUS
  <2> HIDE DEF T
  <2>3. \A z \in T : z \in Nat
    BY <2>1, <2>2
  <2>4. PICK x \in D : TRUE
    OBVIOUS
  <2> QED BY <2>1, <2>3, <2>4
<1>2. PICK z \in T : \A w \in T : z <= w
  BY <1>1, LeastNatural
<1>3. PICK x \in D : z = n - x
  BY <1>2
<1>4. \A y \in D : x >= y
  <2> TAKE y \in D
  <2>1. n - x <= n - y
    BY <1>2, <1>3
  <2> QED BY <2>1
<1>5. \E m \in D : \A y \in D : m >= y
  BY <1>4
<1> QED BY <1>5 DEF Max

-----------------------------------------------------------------------------
(* change_prefix: the names at and below src get names below dst, each its *)
(* own.                                                                    *)
LEMMA PrefixIs ==
  ASSUME NEW s \in Seq(STRING), NEW t \in Seq(STRING)
  PROVE  /\ Len(s) \in Nat /\ Len(t) \in Nat
         /\ IsPrefix(s, t) <=> Len(s) <= Len(t) /\ \A i \in 1 .. Len(s) : s[i] = t[i]
<1>1. /\ Len(s) \in Nat /\ Len(t) \in Nat
      /\ s \in [1 .. Len(s) -> STRING] /\ t \in [1 .. Len(t) -> STRING]
  BY LenProperties
<1>2. SubSeq(s, 1, Len(s)) = [i \in 1 .. Len(s) |-> s[i]]
  BY <1>1
<1>3. ASSUME Len(s) <= Len(t) PROVE SubSeq(t, 1, Len(s)) = [i \in 1 .. Len(s) |-> t[i]]
  BY <1>1, <1>3
<1> QED BY <1>1, <1>2, <1>3 DEF IsPrefix

LEMMA MovedIs ==
  ASSUME NEW src \in Seq(STRING), NEW dst \in Seq(STRING), NEW z \in Seq(STRING), IsPrefix(src, z)
  PROVE  LET m == Moved(src, dst, z)
         IN  /\ m \in Seq(STRING) /\ Len(m) = Len(dst) + (Len(z) - Len(src))
             /\ Len(src) <= Len(z) /\ IsPrefix(dst, m)
             /\ \A i \in 1 .. Len(z) - Len(src) : m[Len(dst) + i] = z[Len(src) + i]
<1> DEFINE r == SubSeq(z, Len(src) + 1, Len(z))
           m == dst \o r
<1>1. Moved(src, dst, z) = m
  BY DEF Moved
<1>2. Len(src) \in Nat /\ Len(dst) \in Nat /\ Len(z) \in Nat /\ Len(src) <= Len(z)
  BY PrefixIs
<1>3. /\ r \in Seq(STRING) /\ Len(r) = Len(z) - Len(src)
      /\ \A i \in 1 .. Len(z) - Len(src) : r[i] = z[Len(src) + i]
  <2>1. CASE Len(src) = Len(z)
    BY <1>2, <2>1, SubSeqProperties
  <2>2. CASE Len(src) < Len(z)
    BY <1>2, <2>2, SubSeqProperties
  <2> QED BY <1>2, <2>1, <2>2
<1> HIDE DEF r
<1>4. /\ m \in Seq(STRING) /\ Len(m) = Len(dst) + Len(r)
      /\ \A i \in 1 .. Len(dst) + Len(r) : m[i] = IF i <= Len(dst) THEN dst[i] ELSE r[i - Len(dst)]
  BY <1>3, ConcatProperties
<1> HIDE DEF m
<1>5. IsPrefix(dst, m)
  <2>1. Len(dst) <= Len(m) /\ \A i \in 1 .. Len(dst) : dst[i] = m[i]
    <3>1. Len(r) \in Nat
      BY <1>2, <1>3
    <3>2. ASSUME NEW i \in 1 .. Len(dst) PROVE dst[i] = m[i]
      <4>1. i \in 1 .. Len(dst) + Len(r) /\ i <= Len(dst)
        BY <1>2, <3>1
      <4> QED BY <1>4, <4>1
    <3> QED BY <1>2, <1>4, <3>1, <3>2
  <2> QED BY <1>4, <2>1, PrefixIs
<1>6. ASSUME NEW i \in 1 .. Len(z) - Len(src) PROVE m[Len(dst) + i] = z[Len(src) + i]
  BY <1>2, <1>3, <1>4
<1> QED BY <1>1, <1>2, <1>3, <1>4, <1>5, <1>6

LEMMA MovedApart ==
  ASSUME NEW src \in Seq(STRING), NEW dst \in Seq(STRING), NEW y \in Seq(STRING), NEW z \in Seq(STRING),
         IsPrefix(src, y), IsPrefix(src, z), Moved(src, dst, y) = Moved(src, dst, z)
  PROVE  y = z
<1> DEFINE m == Moved(src, dst, y)
<1>1. /\ Len(src) \in Nat /\ Len(dst) \in Nat /\ Len(y) \in Nat /\ Len(z) \in Nat
      /\ Len(src) <= Len(y) /\ Len(src) <= Len(z)
      /\ \A i \in 1 .. Len(src) : src[i] = y[i] /\ src[i] = z[i]
  BY PrefixIs
<1>2. /\ Len(m) = Len(dst) + (Len(y) - Len(src))
      /\ \A i \in 1 .. Len(y) - Len(src) : m[Len(dst) + i] = y[Len(src) + i]
  BY MovedIs
<1>3. /\ Len(m) = Len(dst) + (Len(z) - Len(src))
      /\ \A i \in 1 .. Len(z) - Len(src) : m[Len(dst) + i] = z[Len(src) + i]
  <2> DEFINE k == Moved(src, dst, z)
  <2>1. /\ Len(k) = Len(dst) + (Len(z) - Len(src))
        /\ \A i \in 1 .. Len(z) - Len(src) : k[Len(dst) + i] = z[Len(src) + i]
    BY MovedIs
  <2>2. k = m
    OBVIOUS
  <2> HIDE DEF k, m
  <2> QED BY <2>1, <2>2
<1> HIDE DEF m
<1>4. Len(y) = Len(z)
  BY <1>1, <1>2, <1>3
<1>5. ASSUME NEW i \in 1 .. Len(y) PROVE y[i] = z[i]
  <2>1. CASE i <= Len(src)
    BY <1>1, <2>1
  <2>2. CASE i > Len(src)
    <3> DEFINE j == i - Len(src)
    <3>1. j \in 1 .. Len(y) - Len(src) /\ i = Len(src) + j
      BY <1>1, <2>2
    <3> HIDE DEF j
    <3> QED BY <1>2, <1>3, <1>4, <3>1
  <2> QED BY <1>1, <2>1, <2>2
<1> QED BY <1>4, <1>5, SeqEqual

LEMMA RenameIs ==
  ASSUME NEW f, DOMAIN f \subseteq Seq(STRING), NEW src \in Seq(STRING), NEW dst \in Seq(STRING)
  PROVE  LET g == RenameKeys(f, src, dst)
         IN  /\ \A x : x \in DOMAIN g <=>
                  \/ x \in DOMAIN f /\ ~IsPrefix(src, x)
                  \/ \E z \in DOMAIN f : IsPrefix(src, z) /\ x = Moved(src, dst, z)
             /\ \A z \in DOMAIN f : IsPrefix(src, z) => g[Moved(src, dst, z)] = f[z]
             /\ \A x \in DOMAIN f :
                  ~IsPrefix(src, x) /\ (\A z \in DOMAIN f : IsPrefix(src, z) => x # Moved(src, dst, z))
                    => g[x] = f[x]
             /\ \A x \in DOMAIN g : \E z \in DOMAIN f : g[x] = f[z]
<1> DEFINE moved == {p \in DOMAIN f : IsPrefix(src, p)}
           kept == DOMAIN f \ (moved \cup {Moved(src, dst, p) : p \in moved})
           g == [p \in kept \cup {Moved(src, dst, q) : q \in moved} |->
                   IF p \in kept THEN f[p] ELSE f[CHOOSE q \in moved : Moved(src, dst, q) = p]]
<1>1. RenameKeys(f, src, dst) = g
  BY DEF RenameKeys
<1>2. DOMAIN g = kept \cup {Moved(src, dst, q) : q \in moved}
  OBVIOUS
<1>3. ASSUME NEW z \in moved
      PROVE  Moved(src, dst, z) \notin kept /\ Moved(src, dst, z) \in DOMAIN g /\ g[Moved(src, dst, z)] = f[z]
  <2> DEFINE x == Moved(src, dst, z)
             q == CHOOSE q \in moved : Moved(src, dst, q) = x
  <2>1. x \notin kept /\ x \in DOMAIN g
    BY <1>3
  <2>2. q \in moved /\ Moved(src, dst, q) = x
    BY <1>3
  <2>3. q = z
    <3> HIDE DEF q
    <3> QED BY <1>3, <2>2, MovedApart
  <2>4. g[x] = f[q]
    BY <2>1
  <2> QED BY <2>1, <2>3, <2>4
<1>4. ASSUME NEW x \in kept PROVE x \in DOMAIN g /\ g[x] = f[x]
  OBVIOUS
<1>5. ASSUME NEW x
      PROVE  x \in DOMAIN g <=> \/ x \in DOMAIN f /\ ~IsPrefix(src, x)
                                \/ \E z \in DOMAIN f : IsPrefix(src, z) /\ x = Moved(src, dst, z)
  <2> HIDE DEF g
  <2> QED BY <1>2
<1>6. ASSUME NEW x \in DOMAIN g PROVE \E z \in DOMAIN f : g[x] = f[z]
  <2>1. CASE x \in kept
    BY <1>4, <2>1
  <2>2. CASE x \notin kept
    <3>1. PICK z \in moved : x = Moved(src, dst, z)
      BY <1>2, <2>2
    <3> QED BY <1>3, <3>1
  <2> QED BY <2>1, <2>2
<1> HIDE DEF g
<1> QED BY <1>1, <1>3, <1>4, <1>5, <1>6
-----------------------------------------------------------------------------
(* The invariant.  A name is matched when host and tables agree on it, or  *)
(* its file is new and the open that made it has yet to give it a row.     *)
AgreeOn(h, paths, stats, x) ==
  /\ x \in DOMAIN h <=> x \in DOMAIN paths
  /\ x \in DOMAIN h => paths[x] \in DOMAIN stats /\ stats[paths[x]].of = h[x].id

Unrowed(h, th, paths, x) ==
  /\ x \in DOMAIN h /\ x \notin DOMAIN paths
  /\ \E t \in FakeThreads : th[t].pc = "opened" /\ th[t].new /\ th[t].p = x /\ th[t].id = h[x].id

Matched(h, th, paths, stats, x) == AgreeOn(h, paths, stats, x) \/ Unrowed(h, th, paths, x)

FakeOps == {"mkdir", "mknod", "link", "unlink", "rmdir", "rename"}
HostFacts == [id : HostFiles, kind : {"dir", "file"}]
RowFacts == [of : HostFiles]
HostStates == [pc : {"host"}, op : FakeOps, p : FakePaths, q : FakePaths, same : BOOLEAN,
               id : HostFiles \cup {0}]
OpenStates == [pc : {"opened"}, p : FakePaths, id : HostFiles, creat : BOOLEAN, new : BOOLEAN]
FdStates == [pc : {"rowed", "fd"}, id : HostFiles, ino : 1 .. MaxRows]
CheckStates == [pc : {"check"}, ino : 1 .. MaxRows]

FakeTypes ==
  /\ IsTable(hostNames, FakePaths, HostFacts)
  /\ IsTable(fakePaths, FakePaths, 1 .. MaxRows)
  /\ IsTable(fakeStats, 1 .. MaxRows, RowFacts)
  /\ fakeThread \in [FakeThreads -> {Idle} \cup HostStates \cup OpenStates \cup FdStates \cup CheckStates]
  /\ \A t \in FakeThreads :
       /\ fakeThread[t].pc = "host" /\ Making(fakeThread[t].op) => fakeThread[t].id \in HostFiles
       /\ fakeThread[t].pc = "opened" /\ fakeThread[t].new => fakeThread[t].creat
  /\ IsTable(fakeInodes, 1 .. MaxRows, Nat)
  /\ torn \subseteq FakePaths

OneTransaction ==
  \A t, u \in FakeThreads : fakeThread[t].pc = "host" /\ fakeThread[u].pc = "host" => t = u

RowsKept == \A x \in DOMAIN fakePaths : fakePaths[x] \in DOMAIN fakeStats

FakeUsers(i) == {t \in FakeThreads : fakeThread[t].pc = "fd" /\ fakeThread[t].ino = i}
FakeInodesCounted ==
  \A i \in 1 .. MaxRows :
    /\ i \in DOMAIN fakeInodes <=> FakeUsers(i) # {}
    /\ i \in DOMAIN fakeInodes => fakeInodes[i] = Cardinality(FakeUsers(i)) /\ i \in DOMAIN fakeStats

(* What no transaction touches is matched; what one does will be when it   *)
(* is committed.                                                           *)
MatchedNow ==
  \A x \in FakePaths \ torn :
    \/ \E t \in FakeThreads : fakeThread[t].pc = "host" /\ x \in Touched(fakeThread[t])
    \/ Matched(hostNames, fakeThread, fakePaths, fakeStats, x)

Settles(c) ==
  /\ IsTable(PathsAfter(c), FakePaths, 1 .. MaxRows) /\ IsTable(StatsAfter(c), 1 .. MaxRows, RowFacts)
  /\ \A i \in DOMAIN fakeStats : i \in DOMAIN StatsAfter(c)
  /\ \A x \in DOMAIN PathsAfter(c) : PathsAfter(c)[x] \in DOMAIN StatsAfter(c)
  /\ \A x \in FakePaths \ TornAfter(c) :
       Matched(hostNames, fakeThread, PathsAfter(c), StatsAfter(c), x)

MatchedThen ==
  \A t \in FakeThreads : fakeThread[t].pc = "host" /\ ~Dies(fakeThread[t]) => Settles(fakeThread[t])

FakeInv == FakeTypes /\ OneTransaction /\ RowsKept /\ FakeInodesCounted /\ MatchedNow /\ MatchedThen

-----------------------------------------------------------------------------
LEMMA ThreadIs ==
  ASSUME FakeTypes, NEW t \in FakeThreads
  PROVE  /\ fakeThread[t].pc \in {"idle", "host", "opened", "rowed", "fd", "check"}
         /\ fakeThread[t].pc = "idle" => fakeThread[t] = Idle
         /\ fakeThread[t].pc = "host" => fakeThread[t] \in HostStates
         /\ fakeThread[t].pc = "opened" => fakeThread[t] \in OpenStates
         /\ fakeThread[t].pc \in {"rowed", "fd"} => fakeThread[t] \in FdStates
         /\ fakeThread[t].pc = "check" => fakeThread[t] \in CheckStates
<1>1. fakeThread[t] \in {Idle} \cup HostStates \cup OpenStates \cup FdStates \cup CheckStates
  BY DEF FakeTypes
<1> QED BY <1>1 DEF Idle, HostStates, OpenStates, FdStates, CheckStates

LEMMA RowlessIs ==
  ASSUME NEW x
  PROVE  x \in Rowless <=>
           /\ x \in DOMAIN hostNames
           /\ \E t \in FakeThreads : /\ fakeThread[t].pc = "opened" /\ fakeThread[t].new
                                     /\ hostNames[x].id = fakeThread[t].id
BY DEF Rowless, Homes

LEMMA RowlessIsNext ==
  ASSUME NEW x
  PROVE  x \in Rowless' <=>
           /\ x \in DOMAIN hostNames'
           /\ \E t \in FakeThreads : /\ fakeThread'[t].pc = "opened" /\ fakeThread'[t].new
                                     /\ hostNames'[x].id = fakeThread'[t].id
BY DEF Rowless, Homes

LEMMA TouchedIs ==
  ASSUME NEW c \in HostStates, NEW x \in FakePaths
  PROVE  /\ c.op = "rename" => (x \in Touched(c) <=> IsPrefix(c.p, x) \/ IsPrefix(c.q, x))
         /\ c.op = "link" => (x \in Touched(c) <=> x = c.q)
         /\ c.op \notin {"rename", "link"} => (x \in Touched(c) <=> x = c.p)
<1>1. c.p \in Seq(STRING) /\ c.q \in Seq(STRING)
  BY FakeAssumption DEF HostStates
<1>2. IsPrefix(c.p, c.p) /\ IsPrefix(c.q, c.q)
  BY <1>1, PrefixIs
<1> QED BY <1>2 DEF Touched, Under, IsStrictPrefix

LEMMA NextRowIs ==
  ASSUME FakeTypes
  PROVE  NextRow \in Nat /\ NextRow >= 1 /\ NextRow \notin DOMAIN fakeStats
<1>1. CASE DOMAIN fakeStats = {}
  BY <1>1 DEF NextRow
<1>2. CASE DOMAIN fakeStats # {}
  <2>1. DOMAIN fakeStats \in SUBSET (1 .. MaxRows) /\ MaxRows \in Nat
    BY FakeAssumption DEF FakeTypes, IsTable
  <2>2. /\ Max(DOMAIN fakeStats) \in DOMAIN fakeStats
        /\ \A y \in DOMAIN fakeStats : Max(DOMAIN fakeStats) >= y
    BY <1>2, <2>1, LargestIs
  <2>3. NextRow = Max(DOMAIN fakeStats) + 1
    BY <1>2 DEF NextRow
  <2> QED BY <2>1, <2>2, <2>3
<1> QED BY <1>1, <1>2

LEMMA FreshIs ==
  ASSUME HostFiles \ UsedFiles # {}
  PROVE  FreshFile \in HostFiles
<1>1. \E i \in HostFiles \ UsedFiles : \A j \in HostFiles \ UsedFiles : i <= j
  <2> DEFINE T == HostFiles \ UsedFiles
  <2>1. T \in SUBSET Nat /\ T # {}
    BY FakeAssumption
  <2> HIDE DEF T
  <2>2. \E i \in T : \A j \in T : i <= j
    BY <2>1, LeastNatural
  <2> QED BY <2>2 DEF T
<1> QED BY <1>1 DEF FreshFile

(* An invariant says what the properties say.                              *)
LEMMA FakeInvSafe == FakeInv => FakeSafe
<1> SUFFICES ASSUME FakeInv PROVE FakeSafe
  OBVIOUS
<1>1. FakeTypeOK
  BY DEF FakeInv, FakeTypes, FakeTypeOK, IsTable, HostFacts
<1>2. Agreement
  <2> SUFFICES ASSUME NEW x \in FakePaths \ torn PROVE Agrees(x) \/ Underway(x)
    BY DEF Agreement
  <2>1. CASE \E t \in FakeThreads : fakeThread[t].pc = "host" /\ x \in Touched(fakeThread[t])
    BY <2>1 DEF Underway, Pending
  <2>2. CASE AgreeOn(hostNames, fakePaths, fakeStats, x)
    BY <2>2 DEF AgreeOn, Agrees
  <2>3. CASE Unrowed(hostNames, fakeThread, fakePaths, x)
    <3>1. x \in Rowless
      BY <2>3, RowlessIs DEF Unrowed
    <3> QED BY <3>1 DEF Underway
  <2> QED BY <2>1, <2>2, <2>3 DEF FakeInv, MatchedNow, Matched
<1>3. OpenHasRow
  <2> SUFFICES ASSUME NEW t \in FakeThreads, fakeThread[t].pc = "fd"
               PROVE  fakeThread[t].ino \in DOMAIN fakeStats /\ fakeThread[t].ino \in DOMAIN fakeInodes
    BY DEF OpenHasRow
  <2>1. fakeThread[t].ino \in 1 .. MaxRows
    BY ThreadIs DEF FakeInv, FdStates
  <2>2. t \in FakeUsers(fakeThread[t].ino)
    BY DEF FakeUsers
  <2> QED BY <2>1, <2>2 DEF FakeInv, FakeInodesCounted
<1> QED BY <1>1, <1>2, <1>3 DEF FakeSafe

LEMMA FakeInitInv == FakeInit => FakeInv
<1> SUFFICES ASSUME FakeInit PROVE FakeInv
  OBVIOUS
<1>1. DOMAIN NoRows = {} /\ \A X, Y : IsTable(NoRows, X, Y)
  BY DEF NoRows, IsTable
<1>2. \A t \in FakeThreads : fakeThread[t] = Idle /\ fakeThread[t].pc = "idle"
  BY DEF FakeInit, Idle
<1>3. FakeTypes
  BY <1>1, <1>2 DEF FakeInit, FakeTypes
<1>4. OneTransaction /\ RowsKept /\ MatchedThen
  BY <1>1, <1>2 DEF FakeInit, OneTransaction, RowsKept, MatchedThen
<1>5. FakeInodesCounted
  BY <1>1, <1>2 DEF FakeInit, FakeInodesCounted, FakeUsers
<1>6. MatchedNow
  BY <1>1 DEF FakeInit, MatchedNow, Matched, AgreeOn
<1> QED BY <1>3, <1>4, <1>5, <1>6 DEF FakeInv

LEMMA TryCleanupIs ==
  ASSUME FakeTypes, NEW i
  PROVE  LET after == TryCleanup(fakeStats, fakePaths, i)
         IN  /\ IsTable(after, 1 .. MaxRows, RowFacts) /\ DOMAIN after \subseteq DOMAIN fakeStats
             /\ \A j \in DOMAIN after : after[j] = fakeStats[j]
             /\ \A j \in DOMAIN fakeStats : j # i \/ (\E x \in DOMAIN fakePaths : fakePaths[x] = j) => j \in DOMAIN after
<1>1. IsTable(fakeStats, 1 .. MaxRows, RowFacts)
  BY DEF FakeTypes
<1>2. CASE i \in DOMAIN fakeStats /\ i \notin Range(fakePaths)
  <2>1. TryCleanup(fakeStats, fakePaths, i) = Without(fakeStats, {i})
    BY <1>2 DEF TryCleanup
  <2>2. /\ IsTable(Without(fakeStats, {i}), 1 .. MaxRows, RowFacts)
        /\ DOMAIN Without(fakeStats, {i}) = DOMAIN fakeStats \ {i}
        /\ \A x \in DOMAIN fakeStats \ {i} : Without(fakeStats, {i})[x] = fakeStats[x]
    BY <1>1 DEF Without, Restrict, IsTable
  <2>3. \A x \in DOMAIN fakePaths : fakePaths[x] # i
    BY <1>2 DEF Range
  <2> QED BY <2>1, <2>2, <2>3
<1>3. CASE ~(i \in DOMAIN fakeStats /\ i \notin Range(fakePaths))
  <2>1. TryCleanup(fakeStats, fakePaths, i) = fakeStats
    BY <1>3 DEF TryCleanup
  <2> QED BY <1>1, <2>1
<1> QED BY <1>2, <1>3

(* Rows go that no name has: every name stays matched.                     *)
LEMMA RowsCleaned ==
  ASSUME FakeInv, NEW x \in FakePaths, Matched(hostNames, fakeThread, fakePaths, fakeStats, x),
         \A j \in DOMAIN fakeStats : (\E y \in DOMAIN fakePaths : fakePaths[y] = j) =>
                                       j \in DOMAIN fakeStats' /\ fakeStats'[j] = fakeStats[j],
         UNCHANGED <<hostNames, fakePaths>>,
         \A t \in FakeThreads : fakeThread[t].pc = "opened" => fakeThread'[t] = fakeThread[t]
  PROVE  Matched(hostNames, fakeThread, fakePaths, fakeStats, x)'
<1>1. CASE AgreeOn(hostNames, fakePaths, fakeStats, x)
  BY <1>1 DEF AgreeOn, Matched
<1>2. CASE Unrowed(hostNames, fakeThread, fakePaths, x)
  BY <1>2 DEF Unrowed, Matched
<1> QED BY <1>1, <1>2 DEF Matched

LEMMA CheckOrphanedInv ==
  ASSUME FakeInv, NEW t \in FakeThreads, CheckOrphaned(t)
  PROVE  FakeInv'
<1> DEFINE i == fakeThread[t].ino
           after == TryCleanup(fakeStats, fakePaths, i)
<1>1. /\ fakeThread[t].pc = "check" /\ \A u \in FakeThreads : fakeThread[u].pc # "host"
      /\ fakeStats' = IF i \in DOMAIN fakeInodes THEN fakeStats ELSE after
      /\ fakeThread' = [fakeThread EXCEPT ![t] = Idle]
      /\ UNCHANGED <<hostNames, fakePaths, fakeInodes, torn, stops>>
  BY DEF CheckOrphaned, NoTransaction
<1>2. /\ IsTable(after, 1 .. MaxRows, RowFacts) /\ DOMAIN after \subseteq DOMAIN fakeStats
      /\ \A j \in DOMAIN after : after[j] = fakeStats[j]
      /\ \A j \in DOMAIN fakeStats : j # i \/ (\E x \in DOMAIN fakePaths : fakePaths[x] = j) => j \in DOMAIN after
  BY TryCleanupIs DEF FakeInv
<1> HIDE DEF after
<1>3. /\ fakeThread'[t] = Idle /\ fakeThread'[t].pc = "idle"
      /\ \A u \in FakeThreads \ {t} : fakeThread'[u] = fakeThread[u]
      /\ fakeThread' \in [FakeThreads -> {Idle} \cup HostStates \cup OpenStates \cup FdStates \cup CheckStates]
  BY <1>1 DEF FakeInv, FakeTypes, Idle
<1>4. FakeTypes'
  <2>1. IsTable(fakeStats, 1 .. MaxRows, RowFacts)'
    BY <1>1, <1>2 DEF FakeInv, FakeTypes
  <2> QED BY <1>1, <1>3, <2>1 DEF FakeInv, FakeTypes
<1>5. \A u \in FakeThreads : fakeThread'[u].pc # "host"
  BY <1>1, <1>3
<1>6. OneTransaction' /\ MatchedThen'
  BY <1>5 DEF OneTransaction, MatchedThen
<1>7. RowsKept'
  BY <1>1, <1>2 DEF FakeInv, RowsKept
<1>8. FakeInodesCounted'
  <2>1. \A j \in 1 .. MaxRows : FakeUsers(j)' = FakeUsers(j)
    BY <1>1, <1>3 DEF FakeUsers
  <2>2. \A j \in DOMAIN fakeInodes : j \in 1 .. MaxRows
    BY DEF FakeInv, FakeTypes, IsTable
  <2>3. \A j \in DOMAIN fakeInodes : j \in DOMAIN fakeStats => j \in DOMAIN fakeStats'
    BY <1>1, <1>2
  <2> QED BY <1>1, <2>1, <2>2, <2>3 DEF FakeInv, FakeInodesCounted
<1>9. MatchedNow'
  <2> SUFFICES ASSUME NEW x \in FakePaths \ torn
               PROVE  Matched(hostNames, fakeThread, fakePaths, fakeStats, x)'
    BY <1>1 DEF MatchedNow
  <2>1. Matched(hostNames, fakeThread, fakePaths, fakeStats, x)
    BY <1>1 DEF FakeInv, MatchedNow
  <2>2. \A j \in DOMAIN fakeStats : (\E y \in DOMAIN fakePaths : fakePaths[y] = j) =>
          j \in DOMAIN fakeStats' /\ fakeStats'[j] = fakeStats[j]
    BY <1>1, <1>2
  <2>3. \A u \in FakeThreads : fakeThread[u].pc = "opened" => fakeThread'[u] = fakeThread[u]
    BY <1>1, <1>3
  <2> QED BY <1>1, <2>1, <2>2, <2>3, RowsCleaned
<1> QED BY <1>4, <1>6, <1>7, <1>8, <1>9 DEF FakeInv

(* The inode number of the name is read, or the new file gets its row; a   *)
(* file that was taken away in the meantime has torn the name.             *)
LEMMA OpenRowInv ==
  ASSUME FakeInv, NEW t \in FakeThreads, OpenRow(t)
  PROVE  FakeInv'
<1> DEFINE c == fakeThread[t]
<1>1. /\ c.pc = "opened" /\ \A u \in FakeThreads : fakeThread[u].pc # "host"
      /\ UNCHANGED <<hostNames, fakeInodes, stops>>
  BY DEF OpenRow, NoTransaction
<1>2. c \in OpenStates /\ c.p \in FakePaths /\ c.id \in HostFiles /\ (c.new => c.creat)
  <2>1. c \in OpenStates
    BY <1>1, ThreadIs DEF FakeInv
  <2> QED BY <1>1, <2>1 DEF OpenStates, FakeInv, FakeTypes
<1>3. \E n : /\ n \in {Idle} \cup FdStates /\ n.pc \in {"idle", "rowed"}
             /\ fakeThread' = [fakeThread EXCEPT ![t] = n]
  <2>1. CASE c.p \in DOMAIN fakePaths
    <3> DEFINE n == [pc |-> "rowed", id |-> c.id, ino |-> fakePaths[c.p]]
    <3>1. n \in FdStates /\ n.pc = "rowed"
      BY <1>2, <2>1 DEF FdStates, FakeInv, FakeTypes, IsTable
    <3> QED BY <2>1, <3>1 DEF OpenRow
  <2>2. CASE c.p \notin DOMAIN fakePaths /\ ~c.creat
    <3>1. Idle.pc = "idle" /\ fakeThread' = [fakeThread EXCEPT ![t] = Idle]
      BY <2>2 DEF OpenRow, Idle
    <3> QED BY <3>1
  <2>3. CASE c.p \notin DOMAIN fakePaths /\ c.creat
    <3> DEFINE n == [pc |-> "rowed", id |-> c.id, ino |-> NextRow]
    <3>1. NextRow \in 1 .. MaxRows
      BY <2>3, NextRowIs, FakeAssumption DEF OpenRow, FakeInv
    <3>2. n \in FdStates /\ n.pc = "rowed"
      BY <1>2, <3>1 DEF FdStates
    <3> QED BY <2>3, <3>2 DEF OpenRow
  <2> QED BY <2>1, <2>2, <2>3
<1>4. PICK n : /\ n \in {Idle} \cup FdStates /\ n.pc \in {"idle", "rowed"}
               /\ fakeThread' = [fakeThread EXCEPT ![t] = n]
  BY <1>3
<1>5. /\ fakeThread'[t] = n /\ \A u \in FakeThreads \ {t} : fakeThread'[u] = fakeThread[u]
      /\ fakeThread' \in [FakeThreads -> {Idle} \cup HostStates \cup OpenStates \cup FdStates \cup CheckStates]
  BY <1>4 DEF FakeInv, FakeTypes
<1>6. \A u \in FakeThreads : fakeThread'[u].pc # "host"
  BY <1>1, <1>4, <1>5
<1>7. OneTransaction' /\ MatchedThen'
  BY <1>6 DEF OneTransaction, MatchedThen
<1>8. /\ \A j \in 1 .. MaxRows : FakeUsers(j)' = FakeUsers(j)
      /\ \A u \in FakeThreads : /\ fakeThread'[u].pc = "host" /\ Making(fakeThread'[u].op) => fakeThread'[u].id \in HostFiles
                                /\ fakeThread'[u].pc = "opened" /\ fakeThread'[u].new => fakeThread'[u].creat
  BY <1>1, <1>4, <1>5 DEF FakeUsers, FakeInv, FakeTypes
<1>9. ASSUME NEW x \in FakePaths \ torn
      PROVE  Matched(hostNames, fakeThread, fakePaths, fakeStats, x)
  BY <1>1 DEF FakeInv, MatchedNow
<1>10. CASE c.p \in DOMAIN fakePaths \/ ~c.creat
  <2>1. UNCHANGED <<fakePaths, fakeStats, torn>>
    BY <1>10 DEF OpenRow
  <2>2. FakeTypes' /\ RowsKept' /\ FakeInodesCounted'
    BY <1>1, <1>5, <1>8, <2>1 DEF FakeInv, FakeTypes, RowsKept, FakeInodesCounted
  <2>3. MatchedNow'
    <3> SUFFICES ASSUME NEW x \in FakePaths \ torn
                 PROVE  Matched(hostNames, fakeThread, fakePaths, fakeStats, x)'
      BY <2>1 DEF MatchedNow
    <3>1. CASE AgreeOn(hostNames, fakePaths, fakeStats, x)
      BY <1>1, <2>1, <3>1 DEF AgreeOn, Matched
    <3>2. CASE Unrowed(hostNames, fakeThread, fakePaths, x)
      <4>1. PICK u \in FakeThreads : /\ fakeThread[u].pc = "opened" /\ fakeThread[u].new
                                     /\ fakeThread[u].p = x /\ fakeThread[u].id = hostNames[x].id
        BY <3>2 DEF Unrowed
      <4>2. u # t
        BY <1>2, <1>10, <3>2, <4>1 DEF Unrowed
      <4> QED BY <1>1, <1>5, <2>1, <3>2, <4>1, <4>2 DEF Unrowed, Matched
    <3> QED BY <1>9, <3>1, <3>2 DEF Matched
  <2> QED BY <1>7, <2>2, <2>3 DEF FakeInv
<1>11. CASE c.p \notin DOMAIN fakePaths /\ c.creat
  <2>1. /\ NextRow \in 1 .. MaxRows
        /\ fakePaths' = With(fakePaths, c.p, NextRow)
        /\ fakeStats' = With(fakeStats, NextRow, [of |-> c.id])
        /\ torn' = IF c.p \in DOMAIN hostNames /\ hostNames[c.p].id = c.id
                   THEN torn ELSE torn \cup {c.p} \cup Homes(c.id)
    BY <1>11, NextRowIs, FakeAssumption DEF OpenRow, FakeInv
  <2>2. NextRow \notin DOMAIN fakeStats
    BY NextRowIs DEF FakeInv
  <2>3. /\ DOMAIN fakePaths' = DOMAIN fakePaths \cup {c.p} /\ fakePaths'[c.p] = NextRow
        /\ \A y \in DOMAIN fakePaths : y # c.p => fakePaths'[y] = fakePaths[y]
        /\ DOMAIN fakeStats' = DOMAIN fakeStats \cup {NextRow} /\ fakeStats'[NextRow].of = c.id
        /\ \A j \in DOMAIN fakeStats : j # NextRow => fakeStats'[j] = fakeStats[j]
    <3> DEFINE row == [of |-> c.id]
    <3>1. row.of = c.id /\ fakeStats' = With(fakeStats, NextRow, row)
      BY <2>1
    <3> HIDE DEF row
    <3>2. /\ DOMAIN fakePaths' = DOMAIN fakePaths \cup {c.p} /\ fakePaths'[c.p] = NextRow
          /\ \A y \in DOMAIN fakePaths : y # c.p => fakePaths'[y] = fakePaths[y]
      BY <2>1 DEF With
    <3>3. /\ DOMAIN fakeStats' = DOMAIN fakeStats \cup {NextRow} /\ fakeStats'[NextRow] = row
          /\ \A j \in DOMAIN fakeStats : j # NextRow => fakeStats'[j] = fakeStats[j]
      BY <3>1 DEF With
    <3> QED BY <3>1, <3>2, <3>3
  <2>4. /\ IsTable(fakePaths, FakePaths, 1 .. MaxRows)' /\ IsTable(fakeStats, 1 .. MaxRows, RowFacts)'
    <3>1. [of |-> c.id] \in RowFacts
      BY <1>2 DEF RowFacts
    <3> QED BY <1>2, <2>1, <3>1, WithTable DEF FakeInv, FakeTypes
  <2>5. torn' \subseteq FakePaths /\ torn \subseteq torn'
    BY <1>2, <2>1 DEF FakeInv, FakeTypes, Homes, IsTable
  <2>6. FakeTypes'
    BY <1>1, <1>5, <1>8, <2>4, <2>5 DEF FakeInv, FakeTypes
  <2>7. RowsKept'
    BY <1>11, <2>3 DEF FakeInv, RowsKept
  <2>8. FakeInodesCounted'
    BY <1>1, <1>8, <2>3 DEF FakeInv, FakeInodesCounted
  <2>9. MatchedNow'
    <3> SUFFICES ASSUME NEW x \in FakePaths \ torn'
                 PROVE  Matched(hostNames, fakeThread, fakePaths, fakeStats, x)'
      BY DEF MatchedNow
    <3>1. x \in FakePaths \ torn
      BY <2>5
    <3>2. CASE x = c.p
      <4>1. c.p \in DOMAIN hostNames /\ hostNames[c.p].id = c.id
        BY <2>1, <3>2
      <4>2. AgreeOn(hostNames, fakePaths, fakeStats, x)'
        BY <1>1, <2>3, <3>2, <4>1 DEF AgreeOn
      <4> QED BY <4>2 DEF Matched
    <3>3. CASE x # c.p /\ AgreeOn(hostNames, fakePaths, fakeStats, x)
      BY <1>1, <2>2, <2>3, <3>3 DEF AgreeOn, Matched
    <3>4. CASE x # c.p /\ Unrowed(hostNames, fakeThread, fakePaths, x)
      <4>1. PICK u \in FakeThreads : /\ fakeThread[u].pc = "opened" /\ fakeThread[u].new
                                     /\ fakeThread[u].p = x /\ fakeThread[u].id = hostNames[x].id
        BY <3>4 DEF Unrowed
      <4>2. u # t
        BY <3>4, <4>1
      <4> QED BY <1>1, <1>5, <2>3, <3>4, <4>1, <4>2 DEF Unrowed, Matched
    <3> QED BY <1>9, <3>1, <3>2, <3>3, <3>4 DEF Matched
  <2> QED BY <1>7, <2>6, <2>7, <2>8, <2>9 DEF FakeInv
<1> QED BY <1>10, <1>11

(* A thread opens the inode of its row, and has it then.                   *)
LEMMA FakeOpenInodeInv ==
  ASSUME FakeInv, NEW t \in FakeThreads, FakeOpenInode(t)
  PROVE  FakeInv'
<1> DEFINE c == fakeThread[t]
<1>1. /\ c.pc = "rowed" /\ \A u \in FakeThreads : fakeThread[u].pc # "host"
      /\ UNCHANGED <<hostNames, fakePaths, fakeStats, torn, stops>>
  BY DEF FakeOpenInode, NoTransaction
<1>0. c \in FdStates /\ c.id \in HostFiles /\ c.ino \in 1 .. MaxRows
  <2>1. c \in FdStates
    BY <1>1, ThreadIs DEF FakeInv
  <2> QED BY <2>1 DEF FdStates
<1>2. PICK i : i = c.ino /\ c \in FdStates /\ c.id \in HostFiles /\ i \in 1 .. MaxRows
  BY <1>0
<1>3. \E n : /\ n \in {Idle} \cup FdStates /\ n.pc \in {"idle", "fd"} /\ (n.pc = "fd" => n.ino = i)
             /\ fakeThread' = [fakeThread EXCEPT ![t] = n]
             /\ n.pc = "fd" => /\ i \in DOMAIN fakeStats
                               /\ fakeInodes' = With(fakeInodes, i, IF i \in DOMAIN fakeInodes
                                                                    THEN fakeInodes[i] + 1 ELSE 1)
             /\ n.pc = "idle" => UNCHANGED fakeInodes
  <2>1. CASE i \in DOMAIN fakeStats
    <3> DEFINE n == [pc |-> "fd", id |-> c.id, ino |-> i]
    <3>1. n \in FdStates /\ n.pc = "fd" /\ n.ino = i
      BY <1>2 DEF FdStates
    <3>2. fakeThread' = [fakeThread EXCEPT ![t] = n]
      BY <1>2, <2>1 DEF FakeOpenInode
    <3>3. fakeInodes' = With(fakeInodes, i, IF i \in DOMAIN fakeInodes THEN fakeInodes[i] + 1 ELSE 1)
      BY <1>2, <2>1 DEF FakeOpenInode
    <3> QED BY <2>1, <3>1, <3>2, <3>3
  <2>2. CASE i \notin DOMAIN fakeStats
    <3>1. Idle.pc = "idle" /\ fakeThread' = [fakeThread EXCEPT ![t] = Idle] /\ UNCHANGED fakeInodes
      BY <1>2, <2>2 DEF FakeOpenInode, Idle
    <3> QED BY <3>1
  <2> QED BY <2>1, <2>2
<1>4. PICK n : /\ n \in {Idle} \cup FdStates /\ n.pc \in {"idle", "fd"} /\ (n.pc = "fd" => n.ino = i)
               /\ fakeThread' = [fakeThread EXCEPT ![t] = n]
               /\ n.pc = "fd" => /\ i \in DOMAIN fakeStats
                                 /\ fakeInodes' = With(fakeInodes, i, IF i \in DOMAIN fakeInodes
                                                                      THEN fakeInodes[i] + 1 ELSE 1)
               /\ n.pc = "idle" => UNCHANGED fakeInodes
  BY <1>3
<1>5. /\ fakeThread'[t] = n /\ \A u \in FakeThreads \ {t} : fakeThread'[u] = fakeThread[u]
      /\ fakeThread' \in [FakeThreads -> {Idle} \cup HostStates \cup OpenStates \cup FdStates \cup CheckStates]
  BY <1>4 DEF FakeInv, FakeTypes
<1>6. \A u \in FakeThreads : fakeThread'[u].pc # "host"
  BY <1>1, <1>4, <1>5
<1>7. OneTransaction' /\ MatchedThen'
  BY <1>6 DEF OneTransaction, MatchedThen
<1>8. \A u \in FakeThreads : /\ fakeThread'[u].pc = "host" /\ Making(fakeThread'[u].op) => fakeThread'[u].id \in HostFiles
                             /\ fakeThread'[u].pc = "opened" /\ fakeThread'[u].new => fakeThread'[u].creat
  BY <1>4, <1>5, <1>6 DEF FakeInv, FakeTypes
<1>9. MatchedNow'
  <2> SUFFICES ASSUME NEW x \in FakePaths \ torn
               PROVE  Matched(hostNames, fakeThread, fakePaths, fakeStats, x)'
    BY <1>1 DEF MatchedNow
  <2>1. Matched(hostNames, fakeThread, fakePaths, fakeStats, x)
    BY <1>1 DEF FakeInv, MatchedNow
  <2>2. \A u \in FakeThreads : fakeThread[u].pc = "opened" => fakeThread'[u] = fakeThread[u]
    BY <1>1, <1>5
  <2>3. \A j \in DOMAIN fakeStats : j \in DOMAIN fakeStats' /\ fakeStats'[j] = fakeStats[j]
    BY <1>1
  <2> QED BY <1>1, <2>1, <2>2, <2>3, RowsCleaned
<1>10. FakeTypes' /\ RowsKept' /\ FakeInodesCounted'
  <2>1. RowsKept'
    BY <1>1 DEF FakeInv, RowsKept
  <2>2. CASE n.pc = "idle"
    <3>1. \A j \in 1 .. MaxRows : FakeUsers(j)' = FakeUsers(j)
      BY <1>1, <1>5, <2>2 DEF FakeUsers
    <3> QED BY <1>1, <1>4, <1>5, <1>8, <2>1, <2>2, <3>1 DEF FakeInv, FakeTypes, FakeInodesCounted
  <2>3. CASE n.pc = "fd"
    <3> DEFINE v == IF i \in DOMAIN fakeInodes THEN fakeInodes[i] + 1 ELSE 1
    <3>1. v \in Nat /\ fakeInodes' = With(fakeInodes, i, v)
      BY <1>4, <2>3 DEF FakeInv, FakeTypes, IsTable
    <3>2. /\ DOMAIN fakeInodes' = DOMAIN fakeInodes \cup {i} /\ fakeInodes'[i] = v
          /\ \A j \in DOMAIN fakeInodes : j # i => fakeInodes'[j] = fakeInodes[j]
      BY <3>1 DEF With
    <3>3. IsTable(fakeInodes, 1 .. MaxRows, Nat)'
      BY <1>2, <3>1, WithTable DEF FakeInv, FakeTypes
    <3>4. FakeTypes'
      BY <1>1, <1>5, <1>8, <3>3 DEF FakeInv, FakeTypes
    <3>5. \A j \in 1 .. MaxRows : j # i => FakeUsers(j)' = FakeUsers(j)
      BY <1>1, <1>2, <1>4, <1>5, <2>3 DEF FakeUsers
    <3>6. FakeUsers(i)' = FakeUsers(i) \cup {t} /\ t \notin FakeUsers(i)
      BY <1>1, <1>2, <1>4, <1>5, <2>3 DEF FakeUsers
    <3>7. IsFiniteSet(FakeUsers(i))
      BY FakeAssumption, FS_Subset DEF FakeUsers
    <3>8. Cardinality(FakeUsers(i)') = Cardinality(FakeUsers(i)) + 1 /\ Cardinality(FakeUsers(i)) \in Nat
      BY <3>6, <3>7, FS_AddElement, FS_CardinalityType
    <3>9. i \notin DOMAIN fakeInodes => Cardinality(FakeUsers(i)) = 0
      BY <1>2, FS_EmptySet DEF FakeInv, FakeInodesCounted
    <3>10. i \in DOMAIN fakeInodes => fakeInodes[i] = Cardinality(FakeUsers(i))
      BY <1>2 DEF FakeInv, FakeInodesCounted
    <3>11. fakeInodes'[i] = Cardinality(FakeUsers(i)')
      BY <3>2, <3>8, <3>9, <3>10
    <3> HIDE DEF v
    <3>12. FakeInodesCounted'
      <4> SUFFICES ASSUME NEW j \in 1 .. MaxRows
                   PROVE  /\ j \in DOMAIN fakeInodes' <=> FakeUsers(j)' # {}
                          /\ j \in DOMAIN fakeInodes' =>
                               fakeInodes'[j] = Cardinality(FakeUsers(j)') /\ j \in DOMAIN fakeStats'
        BY DEF FakeInodesCounted
      <4>1. CASE j = i
        <5>1. j \in DOMAIN fakeInodes' /\ FakeUsers(j)' # {} /\ j \in DOMAIN fakeStats'
          BY <1>1, <1>4, <2>3, <3>2, <3>6, <4>1
        <5> QED BY <3>11, <4>1, <5>1
      <4>2. CASE j # i
        <5>1. FakeUsers(j)' = FakeUsers(j) /\ (j \in DOMAIN fakeInodes' <=> j \in DOMAIN fakeInodes)
          BY <3>2, <3>5, <4>2
        <5>2. j \in DOMAIN fakeInodes => fakeInodes'[j] = fakeInodes[j]
          BY <3>2, <4>2
        <5> QED BY <1>1, <5>1, <5>2 DEF FakeInv, FakeInodesCounted
      <4> QED BY <4>1, <4>2
    <3> QED BY <2>1, <3>4, <3>12
  <2> QED BY <1>4, <2>2, <2>3
<1> QED BY <1>7, <1>9, <1>10 DEF FakeInv

(* The last user of an inode takes its row away if it has no name left.    *)
LEMMA FakeCloseInv ==
  ASSUME FakeInv, NEW t \in FakeThreads, FakeClose(t)
  PROVE  FakeInv'
<1>0. PICK i : i = fakeThread[t].ino
  OBVIOUS
<1> DEFINE after == TryCleanup(fakeStats, fakePaths, i)
<1>1. /\ fakeThread[t].pc = "fd" /\ fakeThread[t].ino = i
      /\ \A u \in FakeThreads : fakeThread[u].pc # "host"
      /\ UNCHANGED <<hostNames, fakePaths, torn, stops>>
      /\ fakeInodes' = FakeReleased(i)
      /\ fakeStats' = IF i \in DOMAIN fakeInodes' THEN fakeStats ELSE after
      /\ fakeThread' = [fakeThread EXCEPT ![t] = Idle]
  BY <1>0 DEF FakeClose, NoTransaction
<1>2. i \in 1 .. MaxRows
  BY <1>0, <1>1, ThreadIs DEF FakeInv, FdStates
<1>3. /\ IsTable(after, 1 .. MaxRows, RowFacts) /\ DOMAIN after \subseteq DOMAIN fakeStats
      /\ \A j \in DOMAIN after : after[j] = fakeStats[j]
      /\ \A j \in DOMAIN fakeStats : j # i \/ (\E x \in DOMAIN fakePaths : fakePaths[x] = j) => j \in DOMAIN after
  BY TryCleanupIs DEF FakeInv
<1> HIDE DEF after
<1>4. /\ fakeThread'[t] = Idle /\ fakeThread'[t].pc = "idle"
      /\ \A u \in FakeThreads \ {t} : fakeThread'[u] = fakeThread[u]
      /\ fakeThread' \in [FakeThreads -> {Idle} \cup HostStates \cup OpenStates \cup FdStates \cup CheckStates]
  BY <1>1 DEF FakeInv, FakeTypes, Idle
<1>5. \A u \in FakeThreads : fakeThread'[u].pc # "host"
  BY <1>1, <1>4
<1>6. OneTransaction' /\ MatchedThen'
  BY <1>5 DEF OneTransaction, MatchedThen
<1>7. RowsKept'
  BY <1>1, <1>3 DEF FakeInv, RowsKept
<1>8. MatchedNow'
  <2> SUFFICES ASSUME NEW x \in FakePaths \ torn
               PROVE  Matched(hostNames, fakeThread, fakePaths, fakeStats, x)'
    BY <1>1 DEF MatchedNow
  <2>1. Matched(hostNames, fakeThread, fakePaths, fakeStats, x)
    BY <1>1 DEF FakeInv, MatchedNow
  <2>2. \A j \in DOMAIN fakeStats : (\E y \in DOMAIN fakePaths : fakePaths[y] = j) =>
          j \in DOMAIN fakeStats' /\ fakeStats'[j] = fakeStats[j]
    BY <1>1, <1>3
  <2>3. \A u \in FakeThreads : fakeThread[u].pc = "opened" => fakeThread'[u] = fakeThread[u]
    BY <1>1, <1>4
  <2> QED BY <1>1, <2>1, <2>2, <2>3, RowsCleaned
<1>9. /\ FakeUsers(i)' = FakeUsers(i) \ {t} /\ t \in FakeUsers(i)
      /\ \A j \in 1 .. MaxRows : j # i => FakeUsers(j)' = FakeUsers(j)
  BY <1>1, <1>4 DEF FakeUsers
<1>10. /\ IsFiniteSet(FakeUsers(i)) /\ Cardinality(FakeUsers(i)) \in Nat
       /\ Cardinality(FakeUsers(i)') = Cardinality(FakeUsers(i)) - 1
  <2>1. IsFiniteSet(FakeUsers(i))
    BY FakeAssumption, FS_Subset DEF FakeUsers
  <2> QED BY <1>9, <2>1, FS_RemoveElement, FS_CardinalityType
<1>11. /\ i \in DOMAIN fakeInodes /\ i \in DOMAIN fakeStats
       /\ fakeInodes[i] = Cardinality(FakeUsers(i)) /\ fakeInodes[i] >= 1
  <2>1. i \in DOMAIN fakeInodes /\ i \in DOMAIN fakeStats /\ fakeInodes[i] = Cardinality(FakeUsers(i))
    BY <1>2, <1>9 DEF FakeInv, FakeInodesCounted
  <2>2. Cardinality(FakeUsers(i)) # 0
    BY <1>9, <1>10, FS_EmptySet
  <2> QED BY <1>10, <2>1, <2>2
<1>12. /\ IsTable(fakeInodes, 1 .. MaxRows, Nat)'
       /\ \A j \in 1 .. MaxRows : j # i =>
            /\ j \in DOMAIN fakeInodes' <=> j \in DOMAIN fakeInodes
            /\ j \in DOMAIN fakeInodes => fakeInodes'[j] = fakeInodes[j]
       /\ i \in DOMAIN fakeInodes' <=> fakeInodes[i] # 1
       /\ i \in DOMAIN fakeInodes' => fakeInodes'[i] = fakeInodes[i] - 1
  <2>1. CASE fakeInodes[i] = 1
    BY <1>1, <2>1 DEF FakeReleased, Without, Restrict, FakeInv, FakeTypes, IsTable
  <2>2. CASE fakeInodes[i] # 1
    <3>1. fakeInodes' = [fakeInodes EXCEPT ![i] = @ - 1]
      BY <1>1, <2>2 DEF FakeReleased
    <3>2. fakeInodes \in [DOMAIN fakeInodes -> Nat] /\ DOMAIN fakeInodes \subseteq 1 .. MaxRows
      BY DEF FakeInv, FakeTypes, IsTable
    <3>3. fakeInodes[i] - 1 \in Nat
      BY <1>11, <3>2
    <3>4. DOMAIN fakeInodes' = DOMAIN fakeInodes
      BY <3>1
    <3>5. fakeInodes' \in [DOMAIN fakeInodes' -> Nat]
      BY <3>1, <3>2, <3>3, <3>4
    <3>6. IsTable(fakeInodes, 1 .. MaxRows, Nat)'
      BY <3>2, <3>4, <3>5 DEF IsTable
    <3>7. fakeInodes'[i] = fakeInodes[i] - 1 /\ \A j \in DOMAIN fakeInodes : j # i => fakeInodes'[j] = fakeInodes[j]
      BY <1>11, <3>1
    <3> QED BY <1>11, <2>2, <3>4, <3>6, <3>7
  <2> QED BY <2>1, <2>2
<1>13. FakeInodesCounted'
  <2> SUFFICES ASSUME NEW j \in 1 .. MaxRows
               PROVE  /\ j \in DOMAIN fakeInodes' <=> FakeUsers(j)' # {}
                      /\ j \in DOMAIN fakeInodes' =>
                           fakeInodes'[j] = Cardinality(FakeUsers(j)') /\ j \in DOMAIN fakeStats'
    BY DEF FakeInodesCounted
  <2>1. CASE j = i
    <3>1. i \in DOMAIN fakeInodes' => fakeInodes'[i] = Cardinality(FakeUsers(i)') /\ i \in DOMAIN fakeStats'
      BY <1>1, <1>10, <1>11, <1>12
    <3>2. FakeUsers(i)' = {} <=> Cardinality(FakeUsers(i)') = 0
      <4>1. IsFiniteSet(FakeUsers(i)')
        BY <1>9, <1>10, FS_RemoveElement
      <4> QED BY <4>1, FS_EmptySet
    <3>3. Cardinality(FakeUsers(i)') = 0 <=> fakeInodes[i] = 1
      BY <1>10, <1>11
    <3>4. i \in DOMAIN fakeInodes' <=> FakeUsers(i)' # {}
      BY <1>12, <3>2, <3>3
    <3> QED BY <2>1, <3>1, <3>4
  <2>2. CASE j # i
    <3>0. FakeUsers(j)' = FakeUsers(j)
      BY <1>9, <2>2
    <3>1. /\ j \in DOMAIN fakeInodes' <=> j \in DOMAIN fakeInodes
          /\ j \in DOMAIN fakeInodes => fakeInodes'[j] = fakeInodes[j]
      BY <1>12, <2>2
    <3>2. j \in DOMAIN fakeStats => j \in DOMAIN fakeStats'
      BY <1>1, <1>3, <2>2
    <3> QED BY <3>0, <3>1, <3>2 DEF FakeInv, FakeInodesCounted
  <2> QED BY <2>1, <2>2
<1>14. FakeTypes'
  <2>1. IsTable(fakeStats, 1 .. MaxRows, RowFacts)'
    BY <1>1, <1>3 DEF FakeInv, FakeTypes
  <2> QED BY <1>1, <1>4, <1>12, <2>1 DEF FakeInv, FakeTypes
<1> QED BY <1>6, <1>7, <1>8, <1>13, <1>14 DEF FakeInv

(* The program stops: what was under way is torn, what was settled stays.  *)
LEMMA CrashInv ==
  ASSUME FakeInv, Crash
  PROVE  FakeInv'
<1>1. /\ torn' = torn \cup (UNION {Touched(c) : c \in Pending}) \cup Rowless
      /\ fakeThread' = [t \in FakeThreads |-> Idle]
      /\ fakeInodes' = NoRows
      /\ fakeStats' = Restrict(fakeStats, Range(fakePaths))
      /\ UNCHANGED <<hostNames, fakePaths>>
  BY DEF Crash
<1>0. \A x : x \in torn' <=> \/ x \in torn \/ x \in Rowless
                            \/ \E t \in FakeThreads : fakeThread[t].pc = "host" /\ x \in Touched(fakeThread[t])
  <2> TAKE x
  <2> DEFINE K == UNION {Touched(c) : c \in Pending}
  <2>1. x \in K <=> \E c \in Pending : x \in Touched(c)
    OBVIOUS
  <2>2. (\E c \in Pending : x \in Touched(c)) <=>
          \E t \in FakeThreads : fakeThread[t].pc = "host" /\ x \in Touched(fakeThread[t])
    BY DEF Pending
  <2>3. torn' = torn \cup K \cup Rowless
    BY <1>1
  <2> HIDE DEF K
  <2> QED BY <2>1, <2>2, <2>3
<1>2. \A t \in FakeThreads : fakeThread'[t] = Idle /\ fakeThread'[t].pc = "idle"
  BY <1>1 DEF Idle
<1>3. DOMAIN NoRows = {} /\ IsTable(NoRows, 1 .. MaxRows, Nat)
  BY DEF NoRows, IsTable
<1>4. Range(fakePaths) \in SUBSET DOMAIN fakeStats
  BY DEF FakeInv, RowsKept, Range
<1>5. /\ IsTable(fakeStats, 1 .. MaxRows, RowFacts)'
      /\ \A x \in DOMAIN fakePaths : /\ fakePaths[x] \in DOMAIN fakeStats'
                                     /\ fakeStats'[fakePaths[x]] = fakeStats[fakePaths[x]]
  <2>1. \A x \in DOMAIN fakePaths : fakePaths[x] \in Range(fakePaths)
    BY DEF Range
  <2>2. /\ IsTable(fakeStats, 1 .. MaxRows, RowFacts)' /\ DOMAIN fakeStats' = Range(fakePaths)
        /\ \A j \in Range(fakePaths) : fakeStats'[j] = fakeStats[j]
    BY <1>1, <1>4 DEF FakeInv, FakeTypes, Restrict, IsTable
  <2> QED BY <2>1, <2>2
<1>6. \A x \in Rowless : x \in FakePaths
  BY RowlessIs DEF FakeInv, FakeTypes, IsTable
<1>7. ASSUME NEW t \in FakeThreads, fakeThread[t].pc = "host"
      PROVE  Touched(fakeThread[t]) \subseteq FakePaths
  <2>1. fakeThread[t].p \in FakePaths /\ fakeThread[t].q \in FakePaths
    BY <1>7, ThreadIs DEF FakeInv, HostStates
  <2> QED BY <2>1 DEF Touched, Under
<1>8. torn' \subseteq FakePaths
  BY <1>0, <1>6, <1>7 DEF FakeInv, FakeTypes
<1>9. FakeTypes'
  BY <1>1, <1>2, <1>3, <1>5, <1>8 DEF FakeInv, FakeTypes
<1>10. OneTransaction' /\ MatchedThen'
  BY <1>2 DEF OneTransaction, MatchedThen
<1>11. RowsKept'
  BY <1>1, <1>5 DEF RowsKept
<1>12. FakeInodesCounted'
  BY <1>1, <1>2, <1>3 DEF FakeInodesCounted, FakeUsers
<1>13. MatchedNow'
  <2> SUFFICES ASSUME NEW x \in FakePaths \ torn'
               PROVE  AgreeOn(hostNames, fakePaths, fakeStats, x)'
    BY DEF MatchedNow, Matched
  <2>1. /\ x \in FakePaths \ torn /\ x \notin Rowless
        /\ \A t \in FakeThreads : fakeThread[t].pc = "host" => x \notin Touched(fakeThread[t])
    BY <1>0
  <2>2. ~Unrowed(hostNames, fakeThread, fakePaths, x)
    BY <2>1, RowlessIs DEF Unrowed
  <2>3. AgreeOn(hostNames, fakePaths, fakeStats, x)
    BY <2>1, <2>2 DEF FakeInv, MatchedNow, Matched
  <2> QED BY <1>1, <1>5, <2>3 DEF AgreeOn
<1> QED BY <1>9, <1>10, <1>11, <1>12, <1>13 DEF FakeInv

-----------------------------------------------------------------------------
(* What a change does to each table.                                       *)
LEMMA AfterIs ==
  ASSUME NEW c, c.op \in FakeOps
  PROVE  /\ Making(c.op) => /\ PathsAfter(c) = With(fakePaths, c.p, NextRow)
                            /\ StatsAfter(c) = With(fakeStats, NextRow, [of |-> c.id])
         /\ ~Making(c.op) => StatsAfter(c) = fakeStats
         /\ c.op = "link" => PathsAfter(c) = With(fakePaths, c.q, fakePaths[c.p])
         /\ c.op \in {"unlink", "rmdir"} => PathsAfter(c) = Without(fakePaths, {c.p})
         /\ c.op = "rename" => PathsAfter(c) = RenameKeys(fakePaths, c.p, c.q)
         /\ ~Making(c.op) <=> c.op \in {"link", "unlink", "rmdir", "rename"}
<1>1. CASE c.op \in {"mkdir", "mknod"}
  BY <1>1 DEF PathsAfter, StatsAfter, Making
<1>2. CASE c.op = "link"
  BY <1>2 DEF PathsAfter, StatsAfter, Making
<1>3. CASE c.op \in {"unlink", "rmdir"}
  BY <1>3 DEF PathsAfter, StatsAfter, Making
<1>4. CASE c.op = "rename"
  BY <1>4 DEF PathsAfter, StatsAfter, Making, PathRename
<1> QED BY <1>1, <1>2, <1>3, <1>4 DEF FakeOps

LEMMA HostAfterIs ==
  ASSUME NEW c, c.op \in FakeOps
  PROVE  /\ Making(c.op) => \E k \in {"dir", "file"} : HostAfter(c) = With(hostNames, c.p, [id |-> c.id, kind |-> k])
         /\ c.op = "link" => HostAfter(c) = With(hostNames, c.q, hostNames[c.p])
         /\ c.op \in {"unlink", "rmdir"} => HostAfter(c) = Without(hostNames, {c.p})
         /\ c.op = "rename" /\ ~c.same => HostAfter(c) = RenameKeys(hostNames, c.p, c.q)
         /\ c.op = "rename" /\ c.same => HostAfter(c) = hostNames
<1>1. CASE c.op = "mkdir"
  BY <1>1 DEF HostAfter, Making
<1>2. CASE c.op = "mknod"
  BY <1>2 DEF HostAfter, Making
<1>3. CASE c.op = "link"
  BY <1>3 DEF HostAfter, Making
<1>4. CASE c.op \in {"unlink", "rmdir"}
  BY <1>4 DEF HostAfter, Making
<1>5. CASE c.op = "rename"
  BY <1>5 DEF HostAfter, Making
<1> QED BY <1>1, <1>2, <1>3, <1>4, <1>5 DEF FakeOps

LEMMA AfterSame ==
  ASSUME NEW c, UNCHANGED <<fakePaths, fakeStats>>
  PROVE  PathsAfter(c)' = PathsAfter(c) /\ StatsAfter(c)' = StatsAfter(c) /\ (Dies(c)' <=> Dies(c))
<1>1. NextRow' = NextRow
  BY DEF NextRow
<1>2. \A src, dst : PathRename(src, dst)' = PathRename(src, dst)
  BY DEF PathRename
<1> QED BY <1>1, <1>2 DEF PathsAfter, StatsAfter, Dies

(* A rename leaves every name alone that is neither below its source nor   *)
(* below its goal.                                                         *)
LEMMA RenameElsewhere ==
  ASSUME NEW f, DOMAIN f \subseteq FakePaths, NEW src \in FakePaths, NEW dst \in FakePaths,
         NEW x \in FakePaths, ~IsPrefix(src, x), ~IsPrefix(dst, x)
  PROVE  /\ x \in DOMAIN RenameKeys(f, src, dst) <=> x \in DOMAIN f
         /\ x \in DOMAIN f => RenameKeys(f, src, dst)[x] = f[x]
<1>1. src \in Seq(STRING) /\ dst \in Seq(STRING) /\ DOMAIN f \subseteq Seq(STRING)
  BY FakeAssumption
<1>2. \A z \in DOMAIN f : IsPrefix(src, z) => x # Moved(src, dst, z)
  BY <1>1, MovedIs
<1> QED BY <1>1, <1>2, RenameIs

LEMMA Elsewhere ==
  ASSUME FakeTypes, NEW c \in HostStates, NEW x \in FakePaths, x \notin Touched(c)
  PROVE  /\ x \in DOMAIN HostAfter(c) <=> x \in DOMAIN hostNames
         /\ x \in DOMAIN hostNames => HostAfter(c)[x] = hostNames[x]
         /\ x \in DOMAIN PathsAfter(c) <=> x \in DOMAIN fakePaths
         /\ x \in DOMAIN fakePaths => PathsAfter(c)[x] = fakePaths[x]
<1>1. c.op \in FakeOps /\ c.p \in FakePaths /\ c.q \in FakePaths
  BY DEF HostStates
<1>2. DOMAIN hostNames \subseteq FakePaths /\ DOMAIN fakePaths \subseteq FakePaths
  BY DEF FakeTypes, IsTable
<1>3. CASE Making(c.op)
  <2>1. x # c.p
    BY <1>3, TouchedIs DEF Making
  <2>2. PICK k : HostAfter(c) = With(hostNames, c.p, [id |-> c.id, kind |-> k])
    BY <1>1, <1>3, HostAfterIs
  <2>3. PathsAfter(c) = With(fakePaths, c.p, NextRow)
    BY <1>1, <1>3, AfterIs
  <2> QED BY <2>1, <2>2, <2>3 DEF With
<1>4. CASE c.op = "link"
  <2>1. x # c.q
    BY <1>4, TouchedIs
  <2>2. /\ HostAfter(c) = With(hostNames, c.q, hostNames[c.p])
        /\ PathsAfter(c) = With(fakePaths, c.q, fakePaths[c.p])
    BY <1>1, <1>4, AfterIs, HostAfterIs
  <2> QED BY <2>1, <2>2 DEF With
<1>5. CASE c.op \in {"unlink", "rmdir"}
  <2>1. x # c.p
    BY <1>5, TouchedIs
  <2>2. HostAfter(c) = Without(hostNames, {c.p})
    BY <1>1, <1>5, HostAfterIs
  <2>3. PathsAfter(c) = Without(fakePaths, {c.p})
    BY <1>1, <1>5, AfterIs
  <2> QED BY <2>1, <2>2, <2>3 DEF Without, Restrict
<1>6. CASE c.op = "rename"
  <2>1. ~IsPrefix(c.p, x) /\ ~IsPrefix(c.q, x)
    BY <1>6, TouchedIs
  <2>2. PathsAfter(c) = RenameKeys(fakePaths, c.p, c.q)
    BY <1>1, <1>6, AfterIs
  <2>3. /\ x \in DOMAIN PathsAfter(c) <=> x \in DOMAIN fakePaths
        /\ x \in DOMAIN fakePaths => PathsAfter(c)[x] = fakePaths[x]
    BY <1>1, <1>2, <2>1, <2>2, RenameElsewhere
  <2>4. CASE c.same
    <3>1. HostAfter(c) = hostNames
      BY <1>1, <1>6, <2>4, HostAfterIs
    <3> QED BY <2>3, <3>1
  <2>5. CASE ~c.same
    <3>1. HostAfter(c) = RenameKeys(hostNames, c.p, c.q)
      BY <1>1, <1>6, <2>5, HostAfterIs
    <3> QED BY <1>1, <1>2, <2>1, <2>3, <3>1, RenameElsewhere
  <2> QED BY <2>4, <2>5
<1> QED BY <1>1, <1>3, <1>4, <1>5, <1>6, AfterIs

-----------------------------------------------------------------------------
(* The host half of an open.  A new name has no row, and if a transaction  *)
(* is under way, none after it.                                            *)
LEMMA OpenHostInv ==
  ASSUME FakeInv, NEW t \in FakeThreads, OpenHost(t)
  PROVE  FakeInv'
<1>1. \E p \in FakePaths, creat \in BOOLEAN, new \in BOOLEAN, id \in HostFiles :
        /\ new = (p \notin DOMAIN hostNames) /\ (new => creat)
        /\ hostNames' = IF new THEN With(hostNames, p, [id |-> id, kind |-> "file"]) ELSE hostNames
        /\ fakeThread' = [fakeThread EXCEPT ![t] = [pc |-> "opened", p |-> p, id |-> id, creat |-> creat, new |-> new]]
  <2>1. PICK p \in Reach[t], creat \in BOOLEAN :
          LET new == p \notin DOMAIN hostNames
              id == IF new THEN FreshFile ELSE hostNames[p].id
          IN  /\ new => creat /\ IsDir(Parent(p)) /\ HostFiles \ UsedFiles # {}
              /\ hostNames' = IF new THEN With(hostNames, p, [id |-> id, kind |-> "file"]) ELSE hostNames
              /\ fakeThread' = [fakeThread EXCEPT ![t] = [pc |-> "opened", p |-> p, id |-> id, creat |-> creat, new |-> new]]
    BY DEF OpenHost
  <2> DEFINE new == p \notin DOMAIN hostNames
             id == IF new THEN FreshFile ELSE hostNames[p].id
  <2>2. p \in FakePaths
    BY FakeAssumption
  <2>3. id \in HostFiles
    <3>1. CASE new
      <4>1. FreshFile \in HostFiles
        BY <2>1, <3>1, FreshIs
      <4> QED BY <3>1, <4>1
    <3>2. CASE ~new
      BY <3>2 DEF FakeInv, FakeTypes, IsTable, HostFacts
    <3> QED BY <3>1, <3>2
  <2>4. new \in BOOLEAN
    OBVIOUS
  <2>5. /\ new => creat
        /\ hostNames' = IF new THEN With(hostNames, p, [id |-> id, kind |-> "file"]) ELSE hostNames
        /\ fakeThread' = [fakeThread EXCEPT ![t] = [pc |-> "opened", p |-> p, id |-> id, creat |-> creat, new |-> new]]
    BY <2>1
  <2>6. new = (p \notin DOMAIN hostNames)
    OBVIOUS
  <2> HIDE DEF new, id
  <2> QED BY <2>2, <2>3, <2>4, <2>5, <2>6
<1>2. PICK p \in FakePaths, creat \in BOOLEAN, new \in BOOLEAN, id \in HostFiles :
        /\ new = (p \notin DOMAIN hostNames) /\ (new => creat)
        /\ hostNames' = IF new THEN With(hostNames, p, [id |-> id, kind |-> "file"]) ELSE hostNames
        /\ fakeThread' = [fakeThread EXCEPT ![t] = [pc |-> "opened", p |-> p, id |-> id, creat |-> creat, new |-> new]]
  BY <1>1
<1>3. fakeThread[t].pc = "idle" /\ UNCHANGED <<fakePaths, fakeStats, fakeInodes, torn, stops>>
  BY DEF OpenHost
<1> DEFINE n == [pc |-> "opened", p |-> p, id |-> id, creat |-> creat, new |-> new]
<1>4. n \in OpenStates /\ n.pc = "opened" /\ n.p = p /\ n.id = id /\ n.new = new /\ n.creat = creat
  BY DEF OpenStates
<1>5. /\ fakeThread'[t] = n /\ \A u \in FakeThreads \ {t} : fakeThread'[u] = fakeThread[u]
      /\ fakeThread' \in [FakeThreads -> {Idle} \cup HostStates \cup OpenStates \cup FdStates \cup CheckStates]
  BY <1>2, <1>4 DEF FakeInv, FakeTypes
<1> HIDE DEF n
<1>6. /\ IsTable(hostNames, FakePaths, HostFacts)'
      /\ \A x \in DOMAIN hostNames : x \in DOMAIN hostNames' /\ hostNames'[x] = hostNames[x]
      /\ \A x \in DOMAIN hostNames' : x \in DOMAIN hostNames \/ (new /\ x = p /\ hostNames'[x].id = id)
  <2>1. CASE new
    <3> DEFINE v == [id |-> id, kind |-> "file"]
    <3>1. v \in HostFacts /\ v.id = id
      BY DEF HostFacts
    <3>2. hostNames' = With(hostNames, p, v)
      BY <1>2, <2>1
    <3> HIDE DEF v
    <3>3. IsTable(hostNames, FakePaths, HostFacts)'
      BY <3>1, <3>2, WithTable DEF FakeInv, FakeTypes
    <3>4. /\ DOMAIN hostNames' = DOMAIN hostNames \cup {p} /\ hostNames'[p] = v
          /\ \A y \in DOMAIN hostNames : y # p => hostNames'[y] = hostNames[y]
      BY <3>2 DEF With
    <3> QED BY <1>2, <2>1, <3>1, <3>3, <3>4
  <2>2. CASE ~new
    BY <1>2, <2>2 DEF FakeInv, FakeTypes
  <2> QED BY <2>1, <2>2
<1>7. FakeTypes'
  BY <1>2, <1>3, <1>4, <1>5, <1>6 DEF FakeInv, FakeTypes
<1>8. \A u \in FakeThreads : fakeThread'[u].pc = "host" => fakeThread[u].pc = "host" /\ fakeThread'[u] = fakeThread[u]
  BY <1>4, <1>5
<1>9. OneTransaction' /\ RowsKept'
  BY <1>3, <1>8 DEF FakeInv, OneTransaction, RowsKept
<1>10. FakeInodesCounted'
  <2>1. \A j \in 1 .. MaxRows : FakeUsers(j)' = FakeUsers(j)
    BY <1>3, <1>4, <1>5 DEF FakeUsers
  <2> QED BY <1>3, <2>1 DEF FakeInv, FakeInodesCounted
<1>11. ASSUME NEW paths, NEW stats, NEW x, Matched(hostNames, fakeThread, paths, stats, x)
       PROVE  Matched(hostNames', fakeThread', paths, stats, x)
  <2>1. CASE Unrowed(hostNames, fakeThread, paths, x)
    <3>1. PICK u \in FakeThreads : /\ fakeThread[u].pc = "opened" /\ fakeThread[u].new
                                   /\ fakeThread[u].p = x /\ fakeThread[u].id = hostNames[x].id
      BY <2>1 DEF Unrowed
    <3>2. u # t
      BY <1>3, <3>1
    <3> QED BY <1>5, <1>6, <2>1, <3>1, <3>2 DEF Unrowed, Matched
  <2>2. CASE AgreeOn(hostNames, paths, stats, x) /\ (x \in DOMAIN hostNames' => x \in DOMAIN hostNames)
    <3>1. AgreeOn(hostNames', paths, stats, x)
      BY <1>6, <2>2 DEF AgreeOn
    <3> QED BY <3>1 DEF Matched
  <2>3. CASE AgreeOn(hostNames, paths, stats, x) /\ x \in DOMAIN hostNames' /\ x \notin DOMAIN hostNames
    <3>1. new /\ x = p /\ hostNames'[x].id = id /\ x \notin DOMAIN paths
      BY <1>6, <2>3 DEF AgreeOn
    <3>2. fakeThread'[t].pc = "opened" /\ fakeThread'[t].new /\ fakeThread'[t].p = x /\ fakeThread'[t].id = hostNames'[x].id
      BY <1>4, <1>5, <3>1
    <3> QED BY <2>3, <3>1, <3>2 DEF Unrowed, Matched
  <2> QED BY <1>11, <2>1, <2>2, <2>3 DEF Matched
<1>12. MatchedNow'
  <2> SUFFICES ASSUME NEW x \in FakePaths \ torn,
                      ~ \E u \in FakeThreads : fakeThread'[u].pc = "host" /\ x \in Touched(fakeThread'[u])
               PROVE  Matched(hostNames', fakeThread', fakePaths, fakeStats, x)
    BY <1>3 DEF MatchedNow
  <2>1. ~ \E u \in FakeThreads : fakeThread[u].pc = "host" /\ x \in Touched(fakeThread[u])
    BY <1>3, <1>5
  <2>2. Matched(hostNames, fakeThread, fakePaths, fakeStats, x)
    BY <2>1 DEF FakeInv, MatchedNow
  <2> QED BY <1>11, <2>2
<1>13. \A x \in Rowless : x \in Rowless'
  <2> SUFFICES ASSUME NEW x \in Rowless PROVE x \in Rowless'
    OBVIOUS
  <2>1. PICK u \in FakeThreads : x \in DOMAIN hostNames /\ fakeThread[u].pc = "opened" /\ fakeThread[u].new
                                 /\ hostNames[x].id = fakeThread[u].id
    BY RowlessIs
  <2>2. fakeThread'[u] = fakeThread[u]
    BY <1>3, <1>5, <2>1
  <2> QED BY <1>6, <2>1, <2>2, RowlessIsNext
<1>14. MatchedThen'
  <2> SUFFICES ASSUME NEW u \in FakeThreads, NEW c, c = fakeThread'[u], c.pc = "host", ~Dies(c)'
               PROVE  Settles(c)'
    BY DEF MatchedThen
  <2>1. c = fakeThread[u] /\ ~Dies(c)
    BY <1>3, <1>8, AfterSame
  <2>2. Settles(c)
    BY <2>1 DEF FakeInv, MatchedThen
  <2>3. PathsAfter(c)' = PathsAfter(c) /\ StatsAfter(c)' = StatsAfter(c)
    BY <1>3, AfterSame
  <2>4. \A x \in TornAfter(c) : x \in TornAfter(c)'
    BY <1>3, <1>13 DEF TornAfter
  <2>5. ASSUME NEW x \in FakePaths \ TornAfter(c)'
        PROVE  Matched(hostNames', fakeThread', PathsAfter(c), StatsAfter(c), x)
    <3>1. Matched(hostNames, fakeThread, PathsAfter(c), StatsAfter(c), x)
      BY <2>2, <2>4 DEF Settles
    <3> QED BY <1>11, <3>1
  <2> QED BY <1>3, <2>2, <2>3, <2>5 DEF Settles
<1> QED BY <1>7, <1>9, <1>10, <1>12, <1>14 DEF FakeInv

(* A transaction is committed: what was to be matched is.                  *)
LEMMA CommitInv ==
  ASSUME FakeInv, NEW t \in FakeThreads, Commit(t)
  PROVE  FakeInv'
<1>1. PICK c : c = fakeThread[t]
  OBVIOUS
<1>2. /\ c.pc = "host" /\ ~Dies(c) /\ c \in HostStates
      /\ fakePaths' = PathsAfter(c) /\ fakeStats' = StatsAfter(c) /\ torn' = TornAfter(c)
      /\ UNCHANGED <<hostNames, fakeInodes, stops>>
  BY <1>1, ThreadIs DEF Commit, FakeInv
<1>3. \E n \in {Idle} \cup CheckStates :
        n.pc \in {"idle", "check"} /\ fakeThread' = [fakeThread EXCEPT ![t] = n]
  <2>1. CASE c.op \in {"unlink", "rmdir"}
    <3>1. c.p \in DOMAIN fakePaths
      BY <1>2, <2>1 DEF Dies
    <3>2. fakePaths[c.p] \in 1 .. MaxRows
      BY <3>1 DEF FakeInv, FakeTypes, IsTable
    <3> DEFINE n == [pc |-> "check", ino |-> fakePaths[c.p]]
    <3>3. n \in CheckStates /\ n.pc = "check"
      BY <3>2 DEF CheckStates
    <3>4. fakeThread' = [fakeThread EXCEPT ![t] = n]
      BY <1>1, <2>1 DEF Commit
    <3> QED BY <3>3, <3>4
  <2>2. CASE c.op \notin {"unlink", "rmdir"}
    <3>1. Idle.pc = "idle" /\ fakeThread' = [fakeThread EXCEPT ![t] = Idle]
      BY <1>1, <2>2 DEF Commit, Idle
    <3> QED BY <3>1
  <2> QED BY <2>1, <2>2
<1>4. PICK n \in {Idle} \cup CheckStates :
        n.pc \in {"idle", "check"} /\ fakeThread' = [fakeThread EXCEPT ![t] = n]
  BY <1>3
<1>5. /\ fakeThread'[t] = n /\ \A u \in FakeThreads \ {t} : fakeThread'[u] = fakeThread[u]
      /\ fakeThread' \in [FakeThreads -> {Idle} \cup HostStates \cup OpenStates \cup FdStates \cup CheckStates]
  BY <1>4 DEF FakeInv, FakeTypes
<1>6. \A u \in FakeThreads : fakeThread'[u].pc # "host"
  BY <1>1, <1>2, <1>4, <1>5 DEF FakeInv, OneTransaction
<1>7. OneTransaction' /\ MatchedThen'
  BY <1>6 DEF OneTransaction, MatchedThen
<1>8. Settles(c)
  BY <1>1, <1>2 DEF FakeInv, MatchedThen
<1>9. torn \subseteq torn' /\ torn' \subseteq FakePaths
  <2>1. Touched(c) \subseteq FakePaths
    BY <1>2 DEF HostStates, Touched, Under
  <2>2. c.p \in FakePaths
    BY <1>2 DEF HostStates
  <2>3. torn \subseteq TornAfter(c) /\ TornAfter(c) \subseteq torn \cup Touched(c) \cup {c.p}
    BY DEF TornAfter
  <2> QED BY <1>2, <2>1, <2>2, <2>3 DEF FakeInv, FakeTypes
<1>10. \A u \in FakeThreads : fakeThread'[u].pc = "opened" => fakeThread'[u] = fakeThread[u]
  BY <1>4, <1>5
<1>11. FakeTypes'
  <2>1. IsTable(fakePaths, FakePaths, 1 .. MaxRows)' /\ IsTable(fakeStats, 1 .. MaxRows, RowFacts)'
    BY <1>2, <1>8 DEF Settles
  <2> QED BY <1>2, <1>5, <1>6, <1>9, <1>10, <2>1 DEF FakeInv, FakeTypes
<1>12. RowsKept'
  BY <1>2, <1>8 DEF RowsKept, Settles
<1>13. FakeInodesCounted'
  <2>1. \A j \in 1 .. MaxRows : FakeUsers(j)' = FakeUsers(j)
    BY <1>1, <1>2, <1>4, <1>5 DEF FakeUsers
  <2> QED BY <1>2, <1>8, <2>1 DEF FakeInv, FakeInodesCounted, Settles
<1>14. MatchedNow'
  <2> SUFFICES ASSUME NEW x \in FakePaths \ torn'
               PROVE  Matched(hostNames, fakeThread, fakePaths, fakeStats, x)'
    BY DEF MatchedNow
  <2>1. Matched(hostNames, fakeThread, fakePaths', fakeStats', x)
    BY <1>2, <1>8 DEF Settles
  <2>2. CASE AgreeOn(hostNames, fakePaths', fakeStats', x)
    BY <1>2, <2>2 DEF AgreeOn, Matched
  <2>3. CASE Unrowed(hostNames, fakeThread, fakePaths', x)
    <3>1. PICK u \in FakeThreads : /\ fakeThread[u].pc = "opened" /\ fakeThread[u].new
                                   /\ fakeThread[u].p = x /\ fakeThread[u].id = hostNames[x].id
      BY <2>3 DEF Unrowed
    <3>2. u # t
      BY <1>1, <1>2, <3>1
    <3> QED BY <1>2, <1>5, <2>3, <3>1, <3>2 DEF Unrowed, Matched
  <2> QED BY <2>1, <2>2, <2>3 DEF Matched
<1> QED BY <1>7, <1>11, <1>12, <1>13, <1>14 DEF FakeInv

-----------------------------------------------------------------------------
(* The host half of a change, by kind of change.                           *)
LEMMA HostAcceptsIs ==
  ASSUME NEW c, c.op \in FakeOps, HostAccepts(c)
  PROVE  /\ Making(c.op) => c.p \notin DOMAIN hostNames
         /\ c.op = "link" => c.p \in DOMAIN hostNames /\ c.q \notin DOMAIN hostNames
         /\ c.op = "unlink" => c.p \in DOMAIN hostNames
         /\ c.op = "rename" => /\ \A z \in Under(c.p, DOMAIN hostNames \cup DOMAIN fakePaths) :
                                    Moved(c.p, c.q, z) \in FakePaths
                               /\ ~IsPrefix(c.p, c.q)
                               /\ c.q \in DOMAIN hostNames => Under(c.q, DOMAIN hostNames) = {}
<1>1. CASE c.op \in {"mkdir", "mknod"}
  BY <1>1 DEF HostAccepts, Making
<1>2. CASE c.op = "link"
  BY <1>2 DEF HostAccepts, Making
<1>3. CASE c.op = "unlink"
  BY <1>3 DEF HostAccepts, Making
<1>4. CASE c.op = "rmdir"
  BY <1>4 DEF HostAccepts, Making
<1>5. CASE c.op = "rename"
  BY <1>5 DEF HostAccepts, Making
<1> QED BY <1>1, <1>2, <1>3, <1>4, <1>5 DEF FakeOps

LEMMA MovedItself ==
  ASSUME NEW src \in Seq(STRING), NEW dst \in Seq(STRING)
  PROVE  IsPrefix(src, src) /\ Moved(src, dst, src) = dst
<1> DEFINE m == Moved(src, dst, src)
<1>1. IsPrefix(src, src)
  BY PrefixIs
<1>2. m \in Seq(STRING) /\ Len(m) = Len(dst) + (Len(src) - Len(src)) /\ IsPrefix(dst, m)
  BY <1>1, MovedIs
<1> HIDE DEF m
<1>3. Len(dst) \in Nat /\ Len(src) \in Nat
  BY LenProperties
<1>4. Len(m) = Len(dst) /\ \A i \in 1 .. Len(dst) : dst[i] = m[i]
  BY <1>2, <1>3, PrefixIs
<1>5. m = dst
  BY <1>2, <1>4, SeqEqual
<1> QED BY <1>1, <1>5 DEF m

LEMMA MovedWithin ==
  ASSUME FakeTypes, NEW c \in HostStates, c.op = "rename", HostAccepts(c),
         NEW z \in DOMAIN hostNames \cup DOMAIN fakePaths, IsPrefix(c.p, z)
  PROVE  Moved(c.p, c.q, z) \in FakePaths
<1>1. /\ c.op \in FakeOps /\ c.p \in FakePaths /\ c.q \in FakePaths /\ z \in FakePaths
      /\ c.p \in Seq(STRING) /\ c.q \in Seq(STRING) /\ z \in Seq(STRING)
  BY FakeAssumption DEF HostStates, FakeTypes, IsTable
<1>2. CASE z = c.p
  BY <1>1, <1>2, MovedItself
<1>3. CASE z # c.p
  <2>1. z \in Under(c.p, DOMAIN hostNames \cup DOMAIN fakePaths)
    BY <1>3 DEF Under, IsStrictPrefix
  <2> QED BY <1>1, <2>1, HostAcceptsIs
<1> QED BY <1>2, <1>3

LEMMA RenameTable ==
  ASSUME FakeTypes, NEW c \in HostStates, c.op = "rename", HostAccepts(c), NEW Y,
         NEW f, IsTable(f, FakePaths, Y), DOMAIN f \subseteq DOMAIN hostNames \cup DOMAIN fakePaths
  PROVE  IsTable(RenameKeys(f, c.p, c.q), FakePaths, Y)
<1> DEFINE g == RenameKeys(f, c.p, c.q)
<1>1. c.p \in Seq(STRING) /\ c.q \in Seq(STRING) /\ DOMAIN f \subseteq Seq(STRING)
  BY FakeAssumption DEF HostStates, IsTable
<1>2. /\ \A x : x \in DOMAIN g <=>
           \/ x \in DOMAIN f /\ ~IsPrefix(c.p, x)
           \/ \E z \in DOMAIN f : IsPrefix(c.p, z) /\ x = Moved(c.p, c.q, z)
      /\ \A x \in DOMAIN g : \E z \in DOMAIN f : g[x] = f[z]
  <2> HIDE DEF g
  <2>1. LET h == RenameKeys(f, c.p, c.q)
        IN  /\ \A x : x \in DOMAIN h <=>
                 \/ x \in DOMAIN f /\ ~IsPrefix(c.p, x)
                 \/ \E z \in DOMAIN f : IsPrefix(c.p, z) /\ x = Moved(c.p, c.q, z)
            /\ \A z \in DOMAIN f : IsPrefix(c.p, z) => h[Moved(c.p, c.q, z)] = f[z]
            /\ \A x \in DOMAIN f :
                 ~IsPrefix(c.p, x) /\ (\A z \in DOMAIN f : IsPrefix(c.p, z) => x # Moved(c.p, c.q, z))
                   => h[x] = f[x]
            /\ \A x \in DOMAIN h : \E z \in DOMAIN f : h[x] = f[z]
    BY <1>1, RenameIs
  <2> QED BY <2>1 DEF g
<1>3. \A z \in DOMAIN f : IsPrefix(c.p, z) => Moved(c.p, c.q, z) \in FakePaths
  BY MovedWithin
<1>4. DOMAIN g \subseteq FakePaths
  BY <1>2, <1>3 DEF IsTable
<1>5. \A x \in DOMAIN g : g[x] \in Y
  BY <1>2 DEF IsTable
<1>6. g = [x \in DOMAIN g |-> g[x]]
  BY DEF RenameKeys
<1> HIDE DEF g
<1>7. g \in [DOMAIN g -> Y]
  BY <1>5, <1>6
<1> QED BY <1>4, <1>7 DEF IsTable, g

(* In the middle of a rename both sides go the same way, unless one of the *)
(* names was torn or had no row, and then all of them are torn.            *)
LEMMA RenameSettles ==
  ASSUME FakeInv, NEW c \in HostStates, c.op = "rename", ~c.same, HostAccepts(c), hostNames' = HostAfter(c),
         \A u \in FakeThreads : fakeThread[u].pc # "host",
         \A u \in FakeThreads : fakeThread[u].pc = "opened" => fakeThread'[u] = fakeThread[u],
         UNCHANGED torn, NEW x \in FakePaths, x \notin TornAfter(c)', x \in Touched(c)
  PROVE  Matched(hostNames', fakeThread', PathsAfter(c), StatsAfter(c), x)
<1> DEFINE H == RenameKeys(hostNames, c.p, c.q)
           P == RenameKeys(fakePaths, c.p, c.q)
<1>1. /\ c.op \in FakeOps /\ c.p \in FakePaths /\ c.q \in FakePaths
      /\ c.p \in Seq(STRING) /\ c.q \in Seq(STRING)
  BY FakeAssumption DEF HostStates
<1>2. /\ DOMAIN hostNames \subseteq FakePaths /\ DOMAIN fakePaths \subseteq FakePaths
      /\ DOMAIN hostNames \subseteq Seq(STRING) /\ DOMAIN fakePaths \subseteq Seq(STRING)
  BY FakeAssumption DEF FakeInv, FakeTypes, IsTable
<1>3. hostNames' = H /\ PathsAfter(c) = P /\ StatsAfter(c) = fakeStats
  BY <1>1, AfterIs, HostAfterIs
<1>4. \A y \in Touched(c) : y \notin torn /\ y \notin Rowless'
  BY DEF TornAfter
<1>5. /\ \A y : y \in DOMAIN H <=>
           \/ y \in DOMAIN hostNames /\ ~IsPrefix(c.p, y)
           \/ \E z \in DOMAIN hostNames : IsPrefix(c.p, z) /\ y = Moved(c.p, c.q, z)
      /\ \A z \in DOMAIN hostNames : IsPrefix(c.p, z) => H[Moved(c.p, c.q, z)] = hostNames[z]
      /\ \A y \in DOMAIN hostNames :
           ~IsPrefix(c.p, y) /\ (\A z \in DOMAIN hostNames : IsPrefix(c.p, z) => y # Moved(c.p, c.q, z))
             => H[y] = hostNames[y]
  BY <1>1, <1>2, RenameIs
<1>6. /\ \A y : y \in DOMAIN P <=>
           \/ y \in DOMAIN fakePaths /\ ~IsPrefix(c.p, y)
           \/ \E z \in DOMAIN fakePaths : IsPrefix(c.p, z) /\ y = Moved(c.p, c.q, z)
      /\ \A z \in DOMAIN fakePaths : IsPrefix(c.p, z) => P[Moved(c.p, c.q, z)] = fakePaths[z]
      /\ \A y \in DOMAIN fakePaths :
           ~IsPrefix(c.p, y) /\ (\A z \in DOMAIN fakePaths : IsPrefix(c.p, z) => y # Moved(c.p, c.q, z))
             => P[y] = fakePaths[y]
  <2> HIDE DEF H, P
  <2>1. DOMAIN fakePaths \subseteq Seq(STRING) /\ c.p \in Seq(STRING) /\ c.q \in Seq(STRING)
    BY <1>1, <1>2
  <2>2. LET g == RenameKeys(fakePaths, c.p, c.q)
        IN  /\ \A y : y \in DOMAIN g <=>
                 \/ y \in DOMAIN fakePaths /\ ~IsPrefix(c.p, y)
                 \/ \E z \in DOMAIN fakePaths : IsPrefix(c.p, z) /\ y = Moved(c.p, c.q, z)
            /\ \A z \in DOMAIN fakePaths : IsPrefix(c.p, z) => g[Moved(c.p, c.q, z)] = fakePaths[z]
            /\ \A y \in DOMAIN fakePaths :
                 ~IsPrefix(c.p, y) /\ (\A z \in DOMAIN fakePaths : IsPrefix(c.p, z) => y # Moved(c.p, c.q, z))
                   => g[y] = fakePaths[y]
    BY <2>1, RenameIs
  <2> QED BY <2>2 DEF P
<1> HIDE DEF H, P
<1>7. ASSUME NEW z \in Touched(c), z \in FakePaths PROVE Matched(hostNames, fakeThread, fakePaths, fakeStats, z)
  BY <1>4, <1>7 DEF FakeInv, MatchedNow
<1>8. ASSUME NEW z \in FakePaths, IsPrefix(c.p, z) PROVE AgreeOn(hostNames, fakePaths, fakeStats, z)
  <2>1. z \in Touched(c)
    BY <1>8, TouchedIs
  <2>2. CASE Unrowed(hostNames, fakeThread, fakePaths, z)
    <3> DEFINE m == Moved(c.p, c.q, z)
    <3>1. PICK u \in FakeThreads : /\ fakeThread[u].pc = "opened" /\ fakeThread[u].new
                                   /\ fakeThread[u].id = hostNames[z].id
      BY <2>2 DEF Unrowed
    <3>2. z \in DOMAIN hostNames /\ z \in Seq(STRING)
      BY <1>2, <2>2 DEF Unrowed
    <3>3. m \in FakePaths
      BY <1>8, <3>2, MovedWithin DEF FakeInv
    <3>4. IsPrefix(c.q, m)
      BY <1>1, <1>8, <3>2, MovedIs
    <3>5. m \in DOMAIN hostNames' /\ hostNames'[m] = hostNames[z]
      BY <1>3, <1>5, <1>8, <3>2
    <3> HIDE DEF m
    <3>6. m \in Rowless'
      BY <3>1, <3>5, RowlessIsNext
    <3>7. m \in Touched(c)
      BY <3>3, <3>4, TouchedIs
    <3> QED BY <1>4, <3>6, <3>7
  <2> QED BY <1>7, <1>8, <2>1, <2>2 DEF Matched
<1>9. CASE \E z \in DOMAIN hostNames : IsPrefix(c.p, z) /\ x = Moved(c.p, c.q, z)
  <2>1. PICK z \in DOMAIN hostNames : IsPrefix(c.p, z) /\ x = Moved(c.p, c.q, z)
    BY <1>9
  <2>2. /\ z \in DOMAIN fakePaths /\ fakePaths[z] \in DOMAIN fakeStats
        /\ fakeStats[fakePaths[z]].of = hostNames[z].id
    BY <1>2, <1>8, <2>1 DEF AgreeOn
  <2>3. x \in DOMAIN H /\ x \in DOMAIN P /\ H[x] = hostNames[z] /\ P[x] = fakePaths[z]
    BY <1>5, <1>6, <2>1, <2>2
  <2>4. AgreeOn(H, P, fakeStats, x)
    BY <2>2, <2>3 DEF AgreeOn
  <2> QED BY <1>3, <2>4 DEF Matched
<1>10. CASE \A z \in DOMAIN hostNames : IsPrefix(c.p, z) => x # Moved(c.p, c.q, z)
  <2>1. \A z \in DOMAIN fakePaths : IsPrefix(c.p, z) => x # Moved(c.p, c.q, z)
    <3> SUFFICES ASSUME NEW z \in DOMAIN fakePaths, IsPrefix(c.p, z) PROVE x # Moved(c.p, c.q, z)
      OBVIOUS
    <3>1. z \in DOMAIN hostNames
      BY <1>2, <1>8 DEF AgreeOn
    <3> QED BY <1>10, <3>1
  <2>2. CASE IsPrefix(c.p, x)
    <3>1. x \notin DOMAIN H /\ x \notin DOMAIN P
      BY <1>5, <1>6, <1>10, <2>1, <2>2
    <3> QED BY <1>3, <3>1 DEF AgreeOn, Matched
  <2>3. CASE ~IsPrefix(c.p, x)
    <3>1. /\ x \in DOMAIN H <=> x \in DOMAIN hostNames
          /\ x \in DOMAIN P <=> x \in DOMAIN fakePaths
          /\ x \in DOMAIN hostNames => H[x] = hostNames[x]
          /\ x \in DOMAIN fakePaths => P[x] = fakePaths[x]
      BY <1>5, <1>6, <1>10, <2>1, <2>3
    <3>2. CASE AgreeOn(hostNames, fakePaths, fakeStats, x)
      <4>1. AgreeOn(H, P, fakeStats, x)
        BY <3>1, <3>2 DEF AgreeOn
      <4> QED BY <1>3, <4>1 DEF Matched
    <3>3. CASE Unrowed(hostNames, fakeThread, fakePaths, x)
      <4>1. Unrowed(H, fakeThread', P, x)
        BY <3>1, <3>3 DEF Unrowed
      <4> QED BY <1>3, <4>1 DEF Matched
    <3> QED BY <1>7, <3>2, <3>3 DEF Matched
  <2> QED BY <2>2, <2>3
<1> QED BY <1>9, <1>10

(* A rename of a file to another of its names: the host does nothing, and  *)
(* the row of the other name is that of the one that was renamed.          *)
LEMMA SameSettles ==
  ASSUME FakeInv, NEW c \in HostStates, c.op = "rename", c.same, OneFile(c.op, c.p, c.q),
         HostAccepts(c), hostNames' = HostAfter(c),
         \A u \in FakeThreads : fakeThread[u].pc # "host",
         \A u \in FakeThreads : fakeThread[u].pc = "opened" => fakeThread'[u] = fakeThread[u],
         UNCHANGED torn, NEW x \in FakePaths, x \notin TornAfter(c)', x \in Touched(c)
  PROVE  Matched(hostNames', fakeThread', PathsAfter(c), StatsAfter(c), x)
<1> DEFINE P == RenameKeys(fakePaths, c.p, c.q)
<1>1. /\ c.op \in FakeOps /\ c.p \in FakePaths /\ c.q \in FakePaths
      /\ c.p \in Seq(STRING) /\ c.q \in Seq(STRING)
  BY FakeAssumption DEF HostStates
<1>2. DOMAIN fakePaths \subseteq FakePaths /\ DOMAIN fakePaths \subseteq Seq(STRING)
  BY FakeAssumption DEF FakeInv, FakeTypes, IsTable
<1>3. hostNames' = hostNames /\ PathsAfter(c) = P /\ StatsAfter(c) = fakeStats
  BY <1>1, AfterIs, HostAfterIs
<1>4. x # c.p /\ \A y \in Touched(c) : y \notin torn /\ y \notin Rowless'
  BY DEF TornAfter
<1>5. ASSUME NEW y \in Touched(c), y \in FakePaths PROVE AgreeOn(hostNames, fakePaths, fakeStats, y)
  <2>1. Matched(hostNames, fakeThread, fakePaths, fakeStats, y)
    BY <1>4, <1>5 DEF FakeInv, MatchedNow
  <2>2. ASSUME Unrowed(hostNames, fakeThread, fakePaths, y) PROVE FALSE
    <3>1. y \in Rowless'
      BY <1>3, <2>2, RowlessIsNext DEF Unrowed
    <3> QED BY <1>4, <3>1
  <2> QED BY <2>1, <2>2 DEF Matched
<1>6. /\ c.p \in DOMAIN hostNames /\ c.q \in DOMAIN hostNames /\ hostNames[c.p].id = hostNames[c.q].id
      /\ Under(c.p, DOMAIN hostNames) = {} /\ Under(c.q, DOMAIN hostNames) = {} /\ ~IsPrefix(c.p, c.q)
  BY <1>1, HostAcceptsIs DEF OneFile
<1>7. c.p \in Touched(c) /\ c.q \in Touched(c)
  BY DEF Touched
<1>8. \A z \in DOMAIN fakePaths : IsPrefix(c.p, z) => z = c.p
  <2> SUFFICES ASSUME NEW z \in DOMAIN fakePaths, IsPrefix(c.p, z), z # c.p PROVE FALSE
    OBVIOUS
  <2>1. z \in Touched(c)
    BY <1>2, TouchedIs
  <2>2. z \in DOMAIN hostNames
    BY <1>2, <1>5, <2>1 DEF AgreeOn
  <2> QED BY <1>6, <2>2 DEF Under, IsStrictPrefix
<1>9. c.p \in DOMAIN fakePaths /\ fakePaths[c.p] \in DOMAIN fakeStats
      /\ fakeStats[fakePaths[c.p]].of = hostNames[c.q].id
  BY <1>1, <1>5, <1>6, <1>7 DEF AgreeOn
<1>10. IsPrefix(c.p, c.p) /\ Moved(c.p, c.q, c.p) = c.q
  BY <1>1, MovedItself
<1>11. /\ \A y : y \in DOMAIN P <=>
           \/ y \in DOMAIN fakePaths /\ ~IsPrefix(c.p, y)
           \/ \E z \in DOMAIN fakePaths : IsPrefix(c.p, z) /\ y = Moved(c.p, c.q, z)
       /\ \A z \in DOMAIN fakePaths : IsPrefix(c.p, z) => P[Moved(c.p, c.q, z)] = fakePaths[z]
  BY <1>1, <1>2, RenameIs
<1> HIDE DEF P
<1>12. CASE x = c.q
  <2>1. x \in DOMAIN P /\ P[x] = fakePaths[c.p]
    BY <1>9, <1>10, <1>11, <1>12
  <2>2. AgreeOn(hostNames, P, fakeStats, x)
    BY <1>6, <1>9, <1>12, <2>1 DEF AgreeOn
  <2> QED BY <1>3, <2>2 DEF Matched
<1>13. CASE x # c.q
  <2>1. x \notin DOMAIN hostNames
    BY <1>4, <1>6, <1>13, TouchedIs DEF Under, IsStrictPrefix
  <2>2. x \notin DOMAIN fakePaths
    BY <1>5, <2>1 DEF AgreeOn
  <2>3. x \notin DOMAIN P
    BY <1>8, <1>10, <1>11, <1>13, <2>2
  <2>4. AgreeOn(hostNames, P, fakeStats, x)
    BY <2>1, <2>3 DEF AgreeOn
  <2> QED BY <1>3, <2>4 DEF Matched
<1> QED BY <1>12, <1>13

LEMMA ChangeSettles ==
  ASSUME FakeInv, NEW t \in FakeThreads, NEW c \in HostStates, c.pc = "host", HostAccepts(c), ~Dies(c),
         c.same => OneFile(c.op, c.p, c.q),
         Making(c.op) => c.id \in HostFiles /\ NextRow <= MaxRows,
         hostNames' = HostAfter(c), UNCHANGED <<fakePaths, fakeStats, torn>>,
         \A u \in FakeThreads : fakeThread[u].pc # "host",
         \A u \in FakeThreads : fakeThread[u].pc = "opened" => fakeThread'[u] = fakeThread[u]
  PROVE  Settles(c)'
<1>1. c.op \in FakeOps /\ c.p \in FakePaths /\ c.q \in FakePaths
  BY DEF HostStates
<1>2. PathsAfter(c)' = PathsAfter(c) /\ StatsAfter(c)' = StatsAfter(c)
  BY AfterSame
<1>3. /\ IsTable(hostNames, FakePaths, HostFacts) /\ IsTable(fakePaths, FakePaths, 1 .. MaxRows)
      /\ IsTable(fakeStats, 1 .. MaxRows, RowFacts)
      /\ \A x \in DOMAIN fakePaths : fakePaths[x] \in DOMAIN fakeStats
  BY DEF FakeInv, FakeTypes, RowsKept
<1>4. NextRow \in Nat /\ NextRow >= 1 /\ NextRow \notin DOMAIN fakeStats /\ MaxRows \in Nat
  BY NextRowIs, FakeAssumption DEF FakeInv
<1>5. /\ IsTable(StatsAfter(c), 1 .. MaxRows, RowFacts)
      /\ \A i \in DOMAIN fakeStats : i \in DOMAIN StatsAfter(c) /\ StatsAfter(c)[i] = fakeStats[i]
      /\ Making(c.op) => NextRow \in DOMAIN StatsAfter(c) /\ StatsAfter(c)[NextRow].of = c.id
  <2>1. CASE Making(c.op)
    <3> DEFINE v == [of |-> c.id]
    <3>1. v \in RowFacts /\ v.of = c.id
      BY <2>1 DEF RowFacts
    <3>2. StatsAfter(c) = With(fakeStats, NextRow, v)
      BY <1>1, <2>1, AfterIs
    <3> HIDE DEF v
    <3>3. NextRow \in 1 .. MaxRows
      BY <1>4, <2>1
    <3>4. IsTable(StatsAfter(c), 1 .. MaxRows, RowFacts)
      BY <1>3, <3>1, <3>2, <3>3, WithTable
    <3> QED BY <1>4, <3>1, <3>2, <3>4 DEF With
  <2>2. CASE ~Making(c.op)
    BY <1>1, <1>3, <2>2, AfterIs
  <2> QED BY <2>1, <2>2
<1>6. ASSUME NEW x \in FakePaths \ torn PROVE Matched(hostNames, fakeThread, fakePaths, fakeStats, x)
  BY <1>6 DEF FakeInv, MatchedNow
<1>7. ASSUME NEW x \in FakePaths \ TornAfter(c)', x \notin Touched(c)
      PROVE  Matched(hostNames', fakeThread', PathsAfter(c), StatsAfter(c), x)
  <2>1. x \in FakePaths \ torn
    BY DEF TornAfter
  <2>2. /\ x \in DOMAIN hostNames' <=> x \in DOMAIN hostNames
        /\ x \in DOMAIN hostNames => hostNames'[x] = hostNames[x]
        /\ x \in DOMAIN PathsAfter(c) <=> x \in DOMAIN fakePaths
        /\ x \in DOMAIN fakePaths => PathsAfter(c)[x] = fakePaths[x]
    BY <1>7, Elsewhere DEF FakeInv
  <2>3. CASE AgreeOn(hostNames, fakePaths, fakeStats, x)
    <3>1. AgreeOn(hostNames', PathsAfter(c), StatsAfter(c), x)
      BY <1>5, <2>2, <2>3 DEF AgreeOn
    <3> QED BY <3>1 DEF Matched
  <2>4. CASE Unrowed(hostNames, fakeThread, fakePaths, x)
    <3>1. Unrowed(hostNames', fakeThread', PathsAfter(c), x)
      BY <2>2, <2>4 DEF Unrowed
    <3> QED BY <3>1 DEF Matched
  <2> QED BY <1>6, <2>1, <2>3, <2>4 DEF Matched
<1>8. /\ IsTable(PathsAfter(c), FakePaths, 1 .. MaxRows)
      /\ \A x \in DOMAIN PathsAfter(c) : PathsAfter(c)[x] \in DOMAIN StatsAfter(c)
      /\ \A x \in FakePaths \ TornAfter(c)' : x \in Touched(c) =>
           Matched(hostNames', fakeThread', PathsAfter(c), StatsAfter(c), x)
  <2>1. CASE Making(c.op)
    <3>1. PICK k \in {"dir", "file"} : hostNames' = With(hostNames, c.p, [id |-> c.id, kind |-> k])
      BY <1>1, <2>1, HostAfterIs
    <3>2. PathsAfter(c) = With(fakePaths, c.p, NextRow) /\ NextRow \in 1 .. MaxRows
      <4>1. PathsAfter(c) = With(fakePaths, c.p, NextRow)
        BY <1>1, <2>1, AfterIs
      <4>2. NextRow \in 1 .. MaxRows
        BY <1>4, <2>1
      <4> QED BY <4>1, <4>2
    <3>3. IsTable(PathsAfter(c), FakePaths, 1 .. MaxRows)
      BY <1>1, <1>3, <3>2, WithTable
    <3>4. \A x \in DOMAIN PathsAfter(c) : PathsAfter(c)[x] \in DOMAIN StatsAfter(c)
      BY <1>3, <1>5, <2>1, <3>2 DEF With
    <3>5. AgreeOn(hostNames', PathsAfter(c), StatsAfter(c), c.p)
      BY <1>5, <2>1, <3>1, <3>2 DEF With, AgreeOn
    <3>6. \A x \in FakePaths : x \in Touched(c) => x = c.p
      BY <2>1, TouchedIs DEF Making
    <3> QED BY <3>3, <3>4, <3>5, <3>6 DEF Matched
  <2>2. CASE c.op = "link"
    <3>1. /\ hostNames' = With(hostNames, c.q, hostNames[c.p])
          /\ PathsAfter(c) = With(fakePaths, c.q, fakePaths[c.p])
          /\ c.p \in DOMAIN hostNames /\ c.q \notin DOMAIN hostNames /\ c.p # c.q
      BY <1>1, <2>2, AfterIs, HostAfterIs, HostAcceptsIs
    <3>2. c.p \in DOMAIN fakePaths /\ fakePaths[c.p] \in 1 .. MaxRows /\ fakePaths[c.p] \in DOMAIN fakeStats
      <4>1. c.p \in DOMAIN fakePaths
        BY <2>2 DEF Dies
      <4> QED BY <1>3, <4>1 DEF IsTable
    <3>3. IsTable(PathsAfter(c), FakePaths, 1 .. MaxRows)
      BY <1>1, <1>3, <3>1, <3>2, WithTable
    <3>4. \A x \in DOMAIN PathsAfter(c) : PathsAfter(c)[x] \in DOMAIN StatsAfter(c)
      BY <1>3, <1>5, <3>1, <3>2 DEF With
    <3>5. ASSUME c.q \notin TornAfter(c)' PROVE AgreeOn(hostNames', PathsAfter(c), StatsAfter(c), c.q)
      <4>1. c.p \notin torn
        BY <2>2, <3>5 DEF TornAfter, Touched
      <4>2. AgreeOn(hostNames, fakePaths, fakeStats, c.p)
        BY <1>1, <1>6, <3>2, <4>1 DEF Matched, Unrowed
      <4> QED BY <1>5, <3>1, <3>2, <4>2 DEF With, AgreeOn
    <3>6. \A x \in FakePaths : x \in Touched(c) => x = c.q
      BY <2>2, TouchedIs
    <3> QED BY <3>3, <3>4, <3>5, <3>6 DEF Matched
  <2>3. CASE c.op \in {"unlink", "rmdir"}
    <3>1. hostNames' = Without(hostNames, {c.p}) /\ PathsAfter(c) = Without(fakePaths, {c.p})
      BY <1>1, <2>3, AfterIs, HostAfterIs
    <3>2. /\ IsTable(PathsAfter(c), FakePaths, 1 .. MaxRows)
          /\ DOMAIN PathsAfter(c) = DOMAIN fakePaths \ {c.p} /\ DOMAIN hostNames' = DOMAIN hostNames \ {c.p}
          /\ \A x \in DOMAIN fakePaths \ {c.p} : PathsAfter(c)[x] = fakePaths[x]
      BY <1>3, <3>1 DEF Without, Restrict, IsTable
    <3>3. AgreeOn(hostNames', PathsAfter(c), StatsAfter(c), c.p)
      BY <3>2 DEF AgreeOn
    <3>4. \A x \in FakePaths : x \in Touched(c) => x = c.p
      BY <2>3, TouchedIs
    <3>5. \A x \in DOMAIN PathsAfter(c) : PathsAfter(c)[x] \in DOMAIN StatsAfter(c)
      BY <1>3, <1>5, <3>2
    <3> QED BY <3>2, <3>3, <3>4, <3>5 DEF Matched
  <2>4. CASE c.op = "rename"
    <3>1. PathsAfter(c) = RenameKeys(fakePaths, c.p, c.q)
      BY <1>1, <2>4, AfterIs
    <3>2. IsTable(PathsAfter(c), FakePaths, 1 .. MaxRows)
      BY <1>3, <2>4, <3>1, RenameTable DEF FakeInv
    <3>3. \A x \in DOMAIN PathsAfter(c) : PathsAfter(c)[x] \in DOMAIN StatsAfter(c)
      <4>1. c.p \in Seq(STRING) /\ c.q \in Seq(STRING) /\ DOMAIN fakePaths \subseteq Seq(STRING)
        BY <1>1, <1>3, FakeAssumption DEF IsTable
      <4>2. \A x \in DOMAIN PathsAfter(c) : \E z \in DOMAIN fakePaths : PathsAfter(c)[x] = fakePaths[z]
        BY <3>1, <4>1, RenameIs
      <4> QED BY <1>3, <1>5, <4>2
    <3>4. \A x \in FakePaths \ TornAfter(c)' : x \in Touched(c) =>
            Matched(hostNames', fakeThread', PathsAfter(c), StatsAfter(c), x)
      BY <2>4, RenameSettles, SameSettles
    <3> QED BY <3>2, <3>3, <3>4
  <2> QED BY <1>1, <2>1, <2>2, <2>3, <2>4, AfterIs
<1>9. \A x \in FakePaths \ TornAfter(c)' : Matched(hostNames', fakeThread', PathsAfter(c), StatsAfter(c), x)
  BY <1>7, <1>8
<1> QED BY <1>2, <1>5, <1>8, <1>9 DEF Settles

LEMMA ChangeInv ==
  ASSUME FakeInv, NEW t \in FakeThreads, Change(t)
  PROVE  FakeInv'
<1>1. \E c \in HostStates :
        /\ c.pc = "host" /\ HostAccepts(c) /\ (Making(c.op) => c.id \in HostFiles /\ NextRow <= MaxRows)
        /\ (c.same => OneFile(c.op, c.p, c.q))
        /\ hostNames' = HostAfter(c) /\ fakeThread' = [fakeThread EXCEPT ![t] = c]
  <2>1. PICK op \in FakeOps, p \in Reach[t], q \in Reach[t] :
          /\ Making(op) => HostFiles \ UsedFiles # {} /\ NextRow <= MaxRows
          /\ LET c == [pc |-> "host", op |-> op, p |-> p, q |-> q, same |-> OneFile(op, p, q),
                       id |-> IF Making(op) THEN FreshFile ELSE 0]
             IN  /\ HostAccepts(c) /\ hostNames' = HostAfter(c)
                 /\ fakeThread' = [fakeThread EXCEPT ![t] = c]
    BY DEF Change, FakeOps
  <2> DEFINE id == IF Making(op) THEN FreshFile ELSE 0
             same == OneFile(op, p, q)
             c == [pc |-> "host", op |-> op, p |-> p, q |-> q, same |-> same, id |-> id]
  <2>2. p \in FakePaths /\ q \in FakePaths
    BY FakeAssumption
  <2>3. id \in HostFiles \cup {0} /\ (Making(op) => id \in HostFiles)
    BY <2>1, FreshIs
  <2>4. HostAccepts(c) /\ hostNames' = HostAfter(c) /\ fakeThread' = [fakeThread EXCEPT ![t] = c]
    BY <2>1
  <2>b. same \in BOOLEAN
    BY DEF OneFile
  <2> HIDE DEF id, same
  <2>5. c \in HostStates /\ c.pc = "host" /\ c.op = op /\ c.id = id
    BY <2>2, <2>3, <2>b DEF HostStates
  <2>6. c.same = same /\ c.p = p /\ c.q = q
    OBVIOUS
  <2> HIDE DEF c
  <2>7. c.same => OneFile(c.op, c.p, c.q)
    BY <2>5, <2>6, Zenon DEF same
  <2> QED BY <2>1, <2>3, <2>4, <2>5, <2>7
<1>2. PICK c \in HostStates :
        /\ c.pc = "host" /\ HostAccepts(c) /\ (Making(c.op) => c.id \in HostFiles /\ NextRow <= MaxRows)
        /\ (c.same => OneFile(c.op, c.p, c.q))
        /\ hostNames' = HostAfter(c) /\ fakeThread' = [fakeThread EXCEPT ![t] = c]
  BY <1>1
<1>3. /\ fakeThread[t].pc = "idle" /\ \A u \in FakeThreads : fakeThread[u].pc # "host"
      /\ UNCHANGED <<fakePaths, fakeStats, fakeInodes, torn, stops>>
  BY DEF Change, NoTransaction
<1>4. /\ fakeThread'[t] = c /\ \A u \in FakeThreads \ {t} : fakeThread'[u] = fakeThread[u]
      /\ fakeThread' \in [FakeThreads -> {Idle} \cup HostStates \cup OpenStates \cup FdStates \cup CheckStates]
  BY <1>2 DEF FakeInv, FakeTypes
<1>5. c.op \in FakeOps /\ c.p \in FakePaths /\ c.q \in FakePaths
  BY DEF HostStates
<1>6. IsTable(hostNames, FakePaths, HostFacts)'
  <2>1. IsTable(hostNames, FakePaths, HostFacts)
    BY DEF FakeInv, FakeTypes
  <2>2. CASE Making(c.op)
    <3>1. PICK k \in {"dir", "file"} : hostNames' = With(hostNames, c.p, [id |-> c.id, kind |-> k])
      BY <1>2, <1>5, <2>2, HostAfterIs
    <3>2. [id |-> c.id, kind |-> k] \in HostFacts
      BY <1>2, <2>2 DEF HostFacts
    <3> QED BY <1>5, <2>1, <3>1, <3>2, WithTable
  <2>3. CASE c.op = "link"
    <3>1. hostNames' = With(hostNames, c.q, hostNames[c.p]) /\ c.p \in DOMAIN hostNames
      BY <1>2, <1>5, <2>3, HostAfterIs, HostAcceptsIs
    <3>2. hostNames[c.p] \in HostFacts
      BY <2>1, <3>1 DEF IsTable
    <3> QED BY <1>5, <2>1, <3>1, <3>2, WithTable
  <2>4. CASE c.op \in {"unlink", "rmdir"}
    <3>1. hostNames' = Without(hostNames, {c.p})
      BY <1>2, <1>5, <2>4, HostAfterIs
    <3> QED BY <2>1, <3>1 DEF Without, Restrict, IsTable
  <2>5. CASE c.op = "rename"
    <3>1. CASE c.same
      <4>1. hostNames' = hostNames
        BY <1>2, <1>5, <2>5, <3>1, HostAfterIs
      <4> QED BY <2>1, <4>1
    <3>2. CASE ~c.same
      <4>1. hostNames' = RenameKeys(hostNames, c.p, c.q)
        BY <1>2, <1>5, <2>5, <3>2, HostAfterIs
      <4> QED BY <1>2, <2>1, <2>5, <4>1, RenameTable DEF FakeInv
    <3> QED BY <3>1, <3>2
  <2> QED BY <1>5, <2>2, <2>3, <2>4, <2>5, AfterIs
<1>7. FakeTypes'
  BY <1>2, <1>3, <1>4, <1>6 DEF FakeInv, FakeTypes
<1>8. OneTransaction' /\ RowsKept'
  BY <1>3, <1>4 DEF FakeInv, OneTransaction, RowsKept
<1>9. FakeInodesCounted'
  <2>1. \A j \in 1 .. MaxRows : FakeUsers(j)' = FakeUsers(j)
    BY <1>2, <1>3, <1>4 DEF FakeUsers
  <2> QED BY <1>3, <2>1 DEF FakeInv, FakeInodesCounted
<1>10. \A u \in FakeThreads : fakeThread[u].pc = "opened" => fakeThread'[u] = fakeThread[u]
  BY <1>3, <1>4
<1>11. MatchedNow'
  <2> SUFFICES ASSUME NEW x \in FakePaths \ torn, x \notin Touched(c)
               PROVE  Matched(hostNames', fakeThread', fakePaths, fakeStats, x)
    BY <1>2, <1>3, <1>4 DEF MatchedNow
  <2>1. Matched(hostNames, fakeThread, fakePaths, fakeStats, x)
    BY <1>3 DEF FakeInv, MatchedNow
  <2>2. /\ x \in DOMAIN hostNames' <=> x \in DOMAIN hostNames
        /\ x \in DOMAIN hostNames => hostNames'[x] = hostNames[x]
    BY <1>2, Elsewhere DEF FakeInv
  <2>3. CASE AgreeOn(hostNames, fakePaths, fakeStats, x)
    BY <2>2, <2>3 DEF AgreeOn, Matched
  <2>4. CASE Unrowed(hostNames, fakeThread, fakePaths, x)
    BY <1>10, <2>2, <2>4 DEF Unrowed, Matched
  <2> QED BY <2>1, <2>3, <2>4 DEF Matched
<1>12. MatchedThen'
  <2> SUFFICES ASSUME NEW u \in FakeThreads, NEW e, e = fakeThread'[u], e.pc = "host", ~Dies(e)'
               PROVE  Settles(e)'
    BY DEF MatchedThen
  <2>1. e = c
    BY <1>3, <1>4
  <2>2. ~Dies(c)
    BY <1>3, <2>1, AfterSame
  <2>3. Settles(c)'
    BY <1>2, <1>3, <1>10, <2>2, ChangeSettles
  <2> QED BY <2>1, <2>3
<1> QED BY <1>7, <1>8, <1>9, <1>11, <1>12 DEF FakeInv

-----------------------------------------------------------------------------
LEMMA FakeNextInv == FakeInv /\ [FakeNext]_fakeVars => FakeInv'
<1> SUFFICES ASSUME FakeInv, [FakeNext]_fakeVars PROVE FakeInv'
  OBVIOUS
<1>1. CASE UNCHANGED fakeVars
  <2>1. UNCHANGED <<hostNames, fakePaths, fakeStats, fakeThread, fakeInodes, torn>>
    BY <1>1 DEF fakeVars
  <2>2. FakeTypes' /\ OneTransaction' /\ RowsKept' /\ FakeInodesCounted' /\ MatchedNow'
    BY <2>1 DEF FakeInv, FakeTypes, OneTransaction, RowsKept, FakeInodesCounted, FakeUsers, MatchedNow
  <2>3. MatchedThen'
    <3> SUFFICES ASSUME NEW t \in FakeThreads, NEW c, c = fakeThread[t], c.pc = "host", ~Dies(c)'
                 PROVE  Settles(c)'
      BY <2>1 DEF MatchedThen
    <3>1. /\ PathsAfter(c)' = PathsAfter(c) /\ StatsAfter(c)' = StatsAfter(c) /\ (Dies(c)' <=> Dies(c))
      BY <2>1, AfterSame
    <3>2. TornAfter(c)' = TornAfter(c)
      BY <2>1 DEF TornAfter, Rowless, Homes
    <3>3. Settles(c)
      BY <3>1 DEF FakeInv, MatchedThen
    <3> QED BY <2>1, <3>1, <3>2, <3>3 DEF Settles
  <2> QED BY <2>2, <2>3 DEF FakeInv
<1>2. ASSUME NEW t \in FakeThreads, Change(t) PROVE FakeInv'
  BY <1>2, ChangeInv
<1>3. ASSUME NEW t \in FakeThreads, Commit(t) PROVE FakeInv'
  BY <1>3, CommitInv
<1>4. ASSUME NEW t \in FakeThreads, CheckOrphaned(t) PROVE FakeInv'
  BY <1>4, CheckOrphanedInv
<1>5. ASSUME NEW t \in FakeThreads, OpenHost(t) PROVE FakeInv'
  BY <1>5, OpenHostInv
<1>6. ASSUME NEW t \in FakeThreads, OpenRow(t) PROVE FakeInv'
  BY <1>6, OpenRowInv
<1>7. ASSUME NEW t \in FakeThreads, FakeOpenInode(t) PROVE FakeInv'
  BY <1>7, FakeOpenInodeInv
<1>8. ASSUME NEW t \in FakeThreads, FakeClose(t) PROVE FakeInv'
  BY <1>8, FakeCloseInv
<1>9. CASE Crash
  BY <1>9, CrashInv
<1> QED BY <1>1, <1>2, <1>3, <1>4, <1>5, <1>6, <1>7, <1>8, <1>9 DEF FakeNext

(* fakefs, for any names, threads, files, rows and crashes: the host's     *)
(* directory and the database agree on every name that no crash, no race   *)
(* of an open and no rename between two links of one file has torn, and an *)
(* open file keeps its row and its inode (fakefs_open, fakefs_unlink,      *)
(* fakefs_rename, inode_release).                                          *)
THEOREM FakeFilesAreSafe == FakeSpec => []FakeSafe
<1>1. FakeInit => FakeInv
  BY FakeInitInv
<1>2. FakeInv /\ [FakeNext]_fakeVars => FakeInv'
  BY FakeNextInv
<1>3. FakeInv => FakeSafe
  BY FakeInvSafe
<1> QED BY <1>1, <1>2, <1>3, PTL DEF FakeSpec

-----------------------------------------------------------------------------
(* tmpfs.  The tree, the bytes, the descriptors, and the calls that        *)
(* threads are in the middle of, each with the steps it goes through.      *)
TmpNumbers == 1 .. Len(tmpTree)
EntryNames == TmpNames \cup {""}
Dents == [name : EntryNames, parent : Nat, kind : {"dir", "file"}]
DataBytes == TmpBytes \cup {0}
OpenFiles == [entry : TmpNumbers, offset : Int, pos : TmpNumbers \cup {0}]
FileCalls(call, steps) ==
  [pc : steps, call : {call}, f : TmpFds, off : Int, bytes : Seq(TmpBytes), n : Nat, val : Int, saved : Int]
SeekCalls == FileCalls("lseek", {"seek"})
MoveCalls == FileCalls("readwrite", {"sized", "copied", "moving"})
AtCalls == FileCalls("preadwrite", {"seek", "sought", "saved", "moved", "sized", "copied", "moving", "done"})
ListCalls == [pc : {"telldir", "readdir", "seekdir"}, call : {"getdents"}, f : TmpFds, room : Nat,
              ptr : TmpNumbers \cup {0}]
TmpCalls == SeekCalls \cup MoveCalls \cup AtCalls \cup ListCalls

DataTypes ==
  /\ tmpData \in Seq(Seq(DataBytes)) /\ Len(tmpData) = Len(tmpTree)
  /\ refData \in Seq(Seq(DataBytes)) /\ Len(refData) = Len(tmpTree)
TmpTypes ==
  /\ tmpTree \in Seq(Dents) /\ Len(tmpTree) >= 1 /\ DataTypes
  /\ tmpFd \in [TmpFds -> {Closed} \cup OpenFiles]
  /\ tmpThread \in [TmpThreads -> {TmpIdle} \cup TmpCalls]
  /\ refOffset \in [TmpFds -> Int] /\ listed \in [TmpFds -> SUBSET TmpNumbers]
  /\ again \in [TmpFds -> BOOLEAN] /\ mixed \in [TmpFds -> BOOLEAN]

(* The first entry is the root and has no parent; every other has one.     *)
TreeGrows ==
  /\ tmpTree[Root].parent = 0 /\ tmpTree[Root].kind = "dir"
  /\ \A e \in TmpNumbers : e # Root => tmpTree[e].parent \in TmpNumbers

(* Where a call that is alone on its descriptor has brought the offset,    *)
(* and where the reference has it.                                         *)
Right(c, offset, ref) ==
  /\ c.call = "lseek" => c.val = ref
  /\ c.call = "readwrite" =>
       /\ c.pc = "sized" => offset = ref
       /\ c.pc = "copied" => offset + c.n = ref
       /\ c.pc = "moving" => c.val = ref
  /\ c.call = "preadwrite" =>
       /\ c.pc \in {"seek", "sought"} =>
            IF c.off < 0 THEN ref = c.off ELSE ref = offset /\ (c.pc = "seek" => c.val = offset)
       /\ c.pc = "saved" /\ c.off < 0 => ref = c.off
       /\ c.pc \in {"saved", "moved", "sized", "copied", "moving", "done"} /\ c.off >= 0 => c.saved = ref
       /\ c.pc \in {"moved", "sized", "copied", "moving", "done"} => c.off >= 0
       /\ c.pc \in {"moved", "sized"} => offset = c.off
  /\ c.call = "getdents" => offset = ref

(* Of the children C of a directory those before a position have been      *)
(* listed, and nothing else.  A listing that ends goes back to one of them *)
(* or to the end.                                                          *)
Behind(S, C, pos) == pos # 0 => (\A x \in S : x < pos) /\ \A e \in C : e < pos => e \in S
ListRight(c, S, C, pos) ==
  IF c.pc = "seekdir" THEN c.ptr \in C \cup {0} /\ Behind(S, C, c.ptr)
  ELSE Behind(S, C, pos) /\ (c.pc = "readdir" => c.ptr = pos)

AtRest(f) == /\ tmpFd[f].offset = refOffset[f]
             /\ Behind(listed[f], Children(tmpFd[f].entry), tmpFd[f].pos)
InCall(f, c) == /\ Right(c, tmpFd[f].offset, refOffset[f])
                /\ ListRight(c, listed[f], Children(tmpFd[f].entry), tmpFd[f].pos)
FdSound(f) ==
  IF tmpFd[f] = Closed THEN AtWork(f) = {} /\ ~mixed[f]
  ELSE /\ tmpFd[f].pos \in Children(tmpFd[f].entry) \cup {0}
       /\ mixed[f] => AtWork(f) # {}
       /\ ~mixed[f] => /\ ~again[f]
                       /\ AtWork(f) = {} => AtRest(f)
                       /\ \A t \in AtWork(f) : AtWork(f) = {t} /\ InCall(f, tmpThread[t])

(* One call at a time has an inode locked; and what a write has made of    *)
(* the bytes so far, if it is alone on its descriptor.                     *)
InFile(t) == tmpThread[t].pc \in {"sized", "copied", "moving"}
EntryOf(t) == tmpFd[tmpThread[t].f].entry
OneInode == \A t, u \in TmpThreads : InFile(t) /\ InFile(u) /\ EntryOf(t) = EntryOf(u) => t = u
Grown(t) == Resized(refData[EntryOf(t)], tmpFd[tmpThread[t].f].offset + Len(tmpThread[t].bytes))
DataSound == \A t \in TmpThreads : tmpThread[t].pc = "sized" =>
  /\ tmpThread[t].bytes # <<>> /\ tmpThread[t].n = Len(tmpThread[t].bytes)
  /\ ~mixed[tmpThread[t].f] => tmpData[EntryOf(t)] = Grown(t)

TmpInv ==
  /\ TmpTypes /\ TreeGrows /\ NamesUnique /\ BytesKept /\ OneInode /\ DataSound
  /\ \A f \in TmpFds : FdSound(f)

-----------------------------------------------------------------------------
(* What a write makes of the bytes is what the reference does.             *)
LEMMA WrittenIs ==
  ASSUME NEW B, 0 \in B, NEW data \in Seq(B), NEW offset \in Nat, NEW bytes \in Seq(B), bytes # <<>>
  PROVE  Copied(Resized(data, offset + Len(bytes)), offset, bytes) = RefWritten(data, offset, bytes)
<1> DEFINE end == IF Len(data) > offset + Len(bytes) THEN Len(data) ELSE offset + Len(bytes)
           big == Resized(data, offset + Len(bytes))
<1>1. Len(data) \in Nat /\ Len(bytes) \in Nat /\ Len(bytes) > 0 /\ end \in Nat
  BY LenProperties, EmptySeq
<1>2. /\ DOMAIN big = 1 .. end
      /\ \A i \in 1 .. end : big[i] = ByteAt(data, i)
  <2>1. CASE offset + Len(bytes) <= Len(data)
    BY <1>1, <2>1, LenProperties DEF Resized, ByteAt
  <2>2. CASE ~(offset + Len(bytes) <= Len(data))
    <3> DEFINE z == Zeros(offset + Len(bytes) - Len(data))
    <3>1. z \in Seq(B) /\ Len(z) = offset + Len(bytes) - Len(data) /\ \A i \in 1 .. Len(z) : z[i] = 0
      BY <1>1, <2>2 DEF Zeros
    <3>2. big = data \o z
      BY <2>2 DEF Resized
    <3> HIDE DEF big, z
    <3>3. /\ Len(data \o z) = Len(data) + Len(z) /\ data \o z \in Seq(B)
          /\ \A i \in 1 .. Len(data) + Len(z) :
               (data \o z)[i] = IF i <= Len(data) THEN data[i] ELSE z[i - Len(data)]
      BY <3>1, ConcatProperties
    <3>4. end = Len(data) + Len(z)
      BY <1>1, <2>2, <3>1
    <3>5. DOMAIN big = 1 .. end
      BY <3>2, <3>3, <3>4, LenProperties
    <3>6. ASSUME NEW i \in 1 .. end PROVE big[i] = ByteAt(data, i)
      <4>1. CASE i <= Len(data)
        BY <1>1, <3>2, <3>3, <3>4, <4>1, LenProperties DEF ByteAt
      <4>2. CASE ~(i <= Len(data))
        <5>1. i - Len(data) \in 1 .. Len(z) /\ i \notin DOMAIN data
          BY <1>1, <3>4, <4>2, LenProperties
        <5> QED BY <3>1, <3>2, <3>3, <3>4, <4>2, <5>1 DEF ByteAt
      <4> QED BY <4>1, <4>2
    <3> QED BY <3>5, <3>6
  <2> QED BY <2>1, <2>2
<1>3. DOMAIN bytes = 1 .. Len(bytes)
  BY LenProperties
<1> DEFINE w == [i \in DOMAIN big |-> IF i - offset \in DOMAIN bytes THEN bytes[i - offset] ELSE big[i]]
           r == [i \in 1 .. end |-> IF i > offset /\ i <= offset + Len(bytes) THEN bytes[i - offset] ELSE ByteAt(data, i)]
<1>4. Copied(big, offset, bytes) = w /\ RefWritten(data, offset, bytes) = r
  BY DEF Copied, RefWritten
<1> HIDE DEF big, end
<1>5. ASSUME NEW i \in 1 .. end PROVE w[i] = r[i]
  <2>1. i - offset \in DOMAIN bytes <=> i > offset /\ i <= offset + Len(bytes)
    BY <1>1, <1>3
  <2> QED BY <1>2, <2>1
<1>6. w = r
  BY <1>2, <1>5
<1> QED BY <1>4, <1>6 DEF big

LEMMA RefWrittenType ==
  ASSUME NEW B, 0 \in B, NEW data \in Seq(B), NEW offset \in Nat, NEW bytes \in Seq(B)
  PROVE  RefWritten(data, offset, bytes) \in Seq(B)
<1>1. Len(data) \in Nat /\ Len(bytes) \in Nat /\ DOMAIN data = 1 .. Len(data)
  BY LenProperties
<1> DEFINE end == IF Len(data) > offset + Len(bytes) THEN Len(data) ELSE offset + Len(bytes)
           r == [i \in 1 .. end |-> IF i > offset /\ i <= offset + Len(bytes) THEN bytes[i - offset] ELSE ByteAt(data, i)]
<1>2. CASE bytes = <<>>
  BY <1>2 DEF RefWritten
<1>3. CASE bytes # <<>>
  <2>1. RefWritten(data, offset, bytes) = r
    BY <1>3 DEF RefWritten
  <2>2. end \in Nat
    BY <1>1
  <2> HIDE DEF end
  <2>3. ASSUME NEW i \in 1 .. end PROVE r[i] \in B
    <3>1. CASE i > offset /\ i <= offset + Len(bytes)
      <4>1. i - offset \in 1 .. Len(bytes)
        BY <1>1, <2>2, <3>1
      <4> QED BY <3>1, <4>1, ElementOfSeq
    <3>2. CASE ~(i > offset /\ i <= offset + Len(bytes))
      BY <1>1, <3>2, ElementOfSeq DEF ByteAt
    <3> QED BY <3>1, <3>2
  <2>4. r \in [1 .. end -> B]
    BY <2>3
  <2> HIDE DEF r
  <2> QED BY <2>1, <2>2, <2>4, SeqDef
<1> QED BY <1>2, <1>3

LEMMA SmallestIs ==
  ASSUME NEW S \in SUBSET Nat
  PROVE  /\ S = {} => Smallest(S) = 0
         /\ S # {} => Smallest(S) \in S /\ \A y \in S : Smallest(S) <= y
<1>1. CASE S # {}
  <2>1. \E x \in S : \A y \in S : x <= y
    BY <1>1, LeastNatural
  <2>2. Smallest(S) = CHOOSE x \in S : \A y \in S : x <= y
    BY <1>1 DEF Smallest
  <2> QED BY <1>1, <2>1, <2>2
<1>2. CASE S = {}
  BY <1>2 DEF Smallest
<1> QED BY <1>1, <1>2

-----------------------------------------------------------------------------
(* Lookups find an entry or an error.                                      *)
LEMMA TreeIs ==
  ASSUME TmpTypes
  PROVE  /\ Len(tmpTree) \in Nat /\ DOMAIN tmpTree = TmpNumbers /\ DOMAIN tmpData = TmpNumbers /\ DOMAIN refData = TmpNumbers
         /\ Root \in TmpNumbers
         /\ \A e \in TmpNumbers : tmpTree[e] \in Dents /\ tmpData[e] \in Seq(DataBytes) /\ refData[e] \in Seq(DataBytes)
         /\ \A d : Children(d) \in SUBSET TmpNumbers
<1>1. /\ Len(tmpTree) \in Nat /\ DOMAIN tmpTree = TmpNumbers /\ DOMAIN tmpData = TmpNumbers /\ DOMAIN refData = TmpNumbers
  BY LenProperties DEF TmpTypes, DataTypes, TmpNumbers
<1>2. \A e \in TmpNumbers : tmpTree[e] \in Dents /\ tmpData[e] \in Seq(DataBytes) /\ refData[e] \in Seq(DataBytes)
  BY ElementOfSeq DEF TmpTypes, DataTypes, TmpNumbers
<1>3. Root \in TmpNumbers
  BY <1>1 DEF TmpTypes, DataTypes, TmpNumbers, Root
<1>4. \A d : Children(d) \in SUBSET TmpNumbers
  BY <1>1 DEF Children
<1> QED BY <1>1, <1>2, <1>3, <1>4

LEMMA TmpLookupIs ==
  ASSUME TmpTypes, NEW d \in TmpNumbers, NEW name
  PROVE  /\ TmpLookup(d, name) \in {-1, -2} \cup TmpNumbers
         /\ TmpLookup(d, name) = ENOENT => IsDirectory(d) /\ \A e \in Children(d) : tmpTree[e].name # name
<1> DEFINE found == {e \in Children(d) : tmpTree[e].name = name}
<1>1. found \in SUBSET TmpNumbers /\ found \in SUBSET Nat /\ Len(tmpTree) \in Nat
  BY TreeIs DEF TmpNumbers
<1>2. CASE ~IsDirectory(d)
  BY <1>2 DEF TmpLookup, ENOENT, ENOTDIR
<1>3. CASE IsDirectory(d) /\ found = {}
  <2>1. TmpLookup(d, name) = -1
    BY <1>3 DEF TmpLookup, ENOENT
  <2> QED BY <1>3, <2>1
<1>4. CASE IsDirectory(d) /\ found # {}
  <2>1. TmpLookup(d, name) = Smallest(found)
    BY <1>4 DEF TmpLookup
  <2> HIDE DEF found
  <2>2. Smallest(found) \in TmpNumbers
    BY <1>1, <1>4, SmallestIs
  <2> QED BY <1>1, <2>1, <2>2 DEF ENOENT, TmpNumbers
<1> QED BY <1>2, <1>3, <1>4

Walked(g, path, n) ==
  g = [i \in 0 .. n |-> IF i = 0 THEN Root
                        ELSE IF g[i - 1] < 0 THEN g[i - 1] ELSE TmpLookup(g[i - 1], path[i])]

LEMMA WalkExists ==
  ASSUME NEW path, NEW m \in Nat
  PROVE  \E g : Walked(g, path, m)
<1> DEFINE I == {n \in Nat : \E g : Walked(g, path, n)}
<1>1. 0 \in I
  <2>1. Walked([i \in 0 .. 0 |-> Root], path, 0)
    BY DEF Walked
  <2> QED BY <2>1
<1>2. ASSUME NEW n \in Nat, n \in I PROVE n + 1 \in I
  <2>1. PICK g : Walked(g, path, n)
    BY <1>2
  <2> DEFINE h == [i \in 0 .. n + 1 |->
                     IF i <= n THEN g[i]
                     ELSE IF g[i - 1] < 0 THEN g[i - 1] ELSE TmpLookup(g[i - 1], path[i])]
  <2>2. Walked(h, path, n + 1)
    <3>1. \A i \in 0 .. n : g[i] = IF i = 0 THEN Root
              ELSE IF g[i - 1] < 0 THEN g[i - 1] ELSE TmpLookup(g[i - 1], path[i])
      BY <2>1 DEF Walked
    <3>2. ASSUME NEW i \in 0 .. n + 1
          PROVE  h[i] = IF i = 0 THEN Root
              ELSE IF h[i - 1] < 0 THEN h[i - 1] ELSE TmpLookup(h[i - 1], path[i])
      BY <3>1
    <3>3. h = [i \in 0 .. n + 1 |-> h[i]]
      OBVIOUS
    <3> HIDE DEF h
    <3> QED BY <3>2, <3>3 DEF Walked
  <2> QED BY <2>2
<1>3. \A n \in Nat : n \in I
  <2> HIDE DEF I
  <2> QED BY <1>1, <1>2, SetInduction
<1> QED BY <1>3

LEMMA LookupPathIs ==
  ASSUME TmpTypes, NEW path, Len(path) \in Nat
  PROVE  LookupPath(path) \in {-1, -2} \cup TmpNumbers
<1> DEFINE g == CHOOSE h : Walked(h, path, Len(path))
<1>1. Walked(g, path, Len(path))
  BY WalkExists
<1>2. LookupPath(path) = g[Len(path)]
  BY DEF LookupPath, Walked
<1> HIDE DEF g
<1>3. \A i \in 0 .. Len(path) :
        g[i] = IF i = 0 THEN Root ELSE IF g[i - 1] < 0 THEN g[i - 1] ELSE TmpLookup(g[i - 1], path[i])
  BY <1>1 DEF Walked
<1> DEFINE I == {n \in Nat : g[n] \in {-1, -2} \cup TmpNumbers}
<1>4. 0 \in I
  BY <1>3, TreeIs
<1>5. ASSUME NEW n \in Nat, n < Len(path), n \in I PROVE n + 1 \in I
  <2>1. g[n + 1] = IF g[n] < 0 THEN g[n] ELSE TmpLookup(g[n], path[n + 1])
    BY <1>3, <1>5
  <2>2. CASE g[n] \in TmpNumbers
    <3>1. TmpLookup(g[n], path[n + 1]) \in {-1, -2} \cup TmpNumbers
      BY <2>2, TmpLookupIs
    <3> QED BY <2>1, <2>2, <3>1
  <2>3. CASE g[n] \in {-1, -2}
    BY <2>1, <2>3
  <2> QED BY <1>5, <2>2, <2>3
<1>6. Len(path) \in I
  <2> HIDE DEF I
  <2>1. \A n \in 0 .. Len(path) : n \in I
    BY <1>4, <1>5, BoundedInduction
  <2>2. Len(path) \in 0 .. Len(path)
    OBVIOUS
  <2> QED BY <2>1, <2>2
<1> QED BY <1>2, <1>6

LEMMA EntryNamesAre == TmpNames \subseteq EntryNames /\ FileName(<<>>) \in EntryNames
<1>1. TmpNames \subseteq EntryNames
  BY Zenon DEF EntryNames
<1>2. FileName(<<>>) \in EntryNames
  BY Zenon DEF EntryNames, FileName
<1> QED BY <1>1, <1>2

LEMMA ParentIs ==
  ASSUME TmpTypes, NEW path \in TmpPaths
  PROVE  /\ ParentOf(path) \in {-1, -2} \cup TmpNumbers /\ LookupPath(path) \in {-1, -2} \cup TmpNumbers
         /\ FileName(path) \in EntryNames
<1>1. path = <<>> \/ (\E n \in TmpNames : path = <<n>>) \/ (\E m, n \in TmpNames : path = <<m, n>>)
  BY DEF TmpPaths
<1>2. /\ Len(path) \in Nat /\ (path # <<>> => Len(Front(path)) \in Nat)
      /\ FileName(path) \in EntryNames
  <2>1. CASE path = <<>>
    BY <2>1, EntryNamesAre
  <2>2. CASE \E n \in TmpNames : path = <<n>>
    <3>1. PICK n \in TmpNames : path = <<n>>
      BY <2>2
    <3>2. path \in Seq(TmpNames) /\ Len(path) = 1 /\ path[1] = n /\ path # <<>>
      BY <3>1
    <3>4. Len(Front(path)) \in Nat
      <4>1. Front(path) = SubSeq(path, 1, 0)
        <5>1. Len(path) - 1 = 0
          BY <3>2
        <5> QED BY <5>1 DEF Front
      <4> QED BY <3>2, <4>1, SubSeqEmpty, EmptySeq
    <3>5. FileName(path) = path[1]
      <4>1. FileName(path) = path[Len(path)]
        BY <3>2 DEF FileName, Last
      <4> QED BY <3>2, <4>1
    <3>6. Len(path) \in Nat
      BY <3>2
    <3>7. FileName(path) = n
      BY <3>2, <3>5
    <3> QED BY <3>4, <3>6, <3>7, EntryNamesAre
  <2>3. CASE \E m, n \in TmpNames : path = <<m, n>>
    <3>1. PICK m \in TmpNames, n \in TmpNames : path = <<m, n>>
      BY <2>3
    <3>2. path \in Seq(TmpNames) /\ Len(path) = 2 /\ path[2] = n /\ path # <<>>
      BY <3>1
    <3>4. Len(Front(path)) \in Nat
      <4>1. Front(path) = SubSeq(path, 1, 1)
        <5>1. Len(path) - 1 = 1
          BY <3>2
        <5> QED BY <5>1 DEF Front
      <4>2. \A i \in 1 .. 1 : path[i] \in TmpNames
        BY <3>2, ElementOfSeq
      <4> QED BY <4>1, <4>2, SubSeqProperties, LenProperties
    <3>5. FileName(path) = path[2]
      <4>1. FileName(path) = path[Len(path)]
        BY <3>2 DEF FileName, Last
      <4> QED BY <3>2, <4>1
    <3>6. Len(path) \in Nat
      BY <3>2
    <3>7. FileName(path) = n
      BY <3>2, <3>5
    <3> QED BY <3>4, <3>6, <3>7, EntryNamesAre
  <2> QED BY <1>1, <2>1, <2>2, <2>3
<1>3. LookupPath(path) \in {-1, -2} \cup TmpNumbers
  BY <1>2, LookupPathIs
<1>4. ParentOf(path) \in {-1, -2} \cup TmpNumbers
  <2>1. CASE path = <<>>
    BY <2>1, TreeIs DEF ParentOf
  <2>2. CASE path # <<>>
    BY <1>2, <2>2, LookupPathIs DEF ParentOf
  <2> QED BY <2>1, <2>2
<1> QED BY <1>2, <1>3, <1>4

-----------------------------------------------------------------------------
(* The tree only grows: what was there stays where it was.                 *)
TreeExtends ==
  /\ tmpTree' \in Seq(Dents) /\ Len(tmpTree') >= Len(tmpTree)
  /\ \A e \in TmpNumbers : tmpTree'[e] = tmpTree[e]

LEMMA TreeKept ==
  ASSUME TmpTypes, TreeExtends
  PROVE  /\ TmpNumbers \subseteq TmpNumbers' /\ OpenFiles \subseteq OpenFiles' /\ TmpCalls \subseteq TmpCalls'
         /\ \A e \in TmpNumbers : (IsDirectory(e)' <=> IsDirectory(e)) /\ (\A d : e \in Children(d)' <=> e \in Children(d))
         /\ \A d : Children(d)' \subseteq TmpNumbers'
<1>1. Len(tmpTree) \in Nat /\ Len(tmpTree') \in Nat /\ DOMAIN tmpTree' = 1 .. Len(tmpTree') /\ DOMAIN tmpTree = TmpNumbers
  BY TreeIs, LenProperties DEF TreeExtends
<1>2. TmpNumbers \subseteq TmpNumbers'
  BY <1>1 DEF TmpNumbers, TreeExtends
<1>3. OpenFiles \subseteq OpenFiles'
  BY <1>2 DEF OpenFiles
<1>4. TmpCalls \subseteq TmpCalls'
  <2>1. ListCalls \subseteq ListCalls'
    BY <1>2 DEF ListCalls
  <2>2. SeekCalls' = SeekCalls /\ MoveCalls' = MoveCalls /\ AtCalls' = AtCalls
    BY DEF SeekCalls, MoveCalls, AtCalls, FileCalls
  <2> QED BY <2>1, <2>2, Zenon DEF TmpCalls
<1>5. \A e \in TmpNumbers : (IsDirectory(e)' <=> IsDirectory(e)) /\ (\A d : e \in Children(d)' <=> e \in Children(d))
  <2> TAKE e \in TmpNumbers
  <2>1. IsDirectory(e)' <=> IsDirectory(e)
    BY DEF IsDirectory, TreeExtends
  <2>2. e \in DOMAIN tmpTree /\ e \in DOMAIN tmpTree' /\ tmpTree'[e] = tmpTree[e]
    BY <1>1, <1>2 DEF TmpNumbers, TreeExtends
  <2>3. \A d : e \in Children(d)' <=> e \in Children(d)
    BY <2>2 DEF Children
  <2> QED BY <2>1, <2>3
<1>6. \A d : Children(d)' \subseteq TmpNumbers'
  BY <1>1 DEF Children, TmpNumbers
<1> QED BY <1>2, <1>3, <1>4, <1>5, <1>6

(* Children that come later come after every position there is.            *)
LEMMA BehindKept ==
  ASSUME NEW n \in Nat, NEW S, NEW C \in SUBSET (1 .. n), NEW D \in SUBSET Nat,
         \A e \in 1 .. n : e \in D <=> e \in C, 0 \notin D, NEW pos \in C \cup {0}
  PROVE  pos \in D \cup {0} /\ (Behind(S, C, pos) => Behind(S, D, pos))
BY DEF Behind

LEMMA ChildrenKept ==
  ASSUME TmpTypes, TreeExtends, NEW d
  PROVE  /\ Len(tmpTree) \in Nat /\ Children(d) \in SUBSET (1 .. Len(tmpTree)) /\ Children(d)' \in SUBSET Nat
         /\ \A e \in 1 .. Len(tmpTree) : e \in Children(d)' <=> e \in Children(d)
         /\ 0 \notin Children(d)'
<1>1. Len(tmpTree) \in Nat /\ Children(d) \in SUBSET TmpNumbers
  BY TreeIs
<1>2. /\ Children(d)' \subseteq TmpNumbers'
      /\ \A e \in TmpNumbers : e \in Children(d)' <=> e \in Children(d)
  BY TreeKept
<1>3. TmpNumbers' \subseteq Nat /\ 0 \notin TmpNumbers'
  <2>1. Len(tmpTree') \in Nat
    BY LenProperties DEF TreeExtends
  <2> QED BY <2>1 DEF TmpNumbers
<1> QED BY <1>1, <1>2, <1>3 DEF TmpNumbers

-----------------------------------------------------------------------------
(* Calls and the descriptors they are at work on.                          *)
LEMMA CallIs ==
  ASSUME NEW c \in TmpCalls
  PROVE  /\ c.f \in TmpFds /\ c.pc # "idle" /\ c # TmpIdle
         /\ c.pc \in {"telldir", "readdir", "seekdir"} => c \in ListCalls
         /\ c.pc = "seek" => c \in SeekCalls \cup AtCalls
         /\ c.pc \in {"sought", "saved", "moved", "done"} => c \in AtCalls
         /\ c.pc \in {"sized", "copied", "moving"} => c \in MoveCalls \cup AtCalls
<1>1. CASE c \in SeekCalls
  BY <1>1 DEF SeekCalls, FileCalls, TmpIdle
<1>2. CASE c \in MoveCalls
  BY <1>2 DEF MoveCalls, FileCalls, TmpIdle
<1>3. CASE c \in AtCalls
  BY <1>3 DEF AtCalls, FileCalls, TmpIdle
<1>4. CASE c \in ListCalls
  BY <1>4 DEF ListCalls, TmpIdle
<1> QED BY <1>1, <1>2, <1>3, <1>4 DEF TmpCalls

LEMMA CallerIs ==
  ASSUME TmpTypes, NEW t \in TmpThreads
  PROVE  /\ tmpThread[t] = TmpIdle <=> tmpThread[t].pc = "idle"
         /\ tmpThread[t].pc # "idle" => tmpThread[t] \in TmpCalls /\ tmpThread[t].f \in TmpFds
         /\ \A f : t \in AtWork(f) <=> tmpThread[t].pc # "idle" /\ tmpThread[t].f = f
<1>1. tmpThread[t] = TmpIdle \/ tmpThread[t] \in TmpCalls
  BY DEF TmpTypes
<1>2. TmpIdle.pc = "idle"
  BY DEF TmpIdle
<1>3. tmpThread[t] \in TmpCalls => tmpThread[t].pc # "idle" /\ tmpThread[t].f \in TmpFds
  BY CallIs
<1>4. \A f : t \in AtWork(f) <=> tmpThread[t].pc # "idle" /\ tmpThread[t].f = f
  BY DEF AtWork
<1> QED BY <1>1, <1>2, <1>3, <1>4

LEMMA FdIs ==
  ASSUME TmpTypes, NEW f \in TmpFds
  PROVE  /\ tmpFd[f] # Closed => /\ tmpFd[f] \in OpenFiles /\ tmpFd[f].entry \in TmpNumbers
                                 /\ tmpFd[f].offset \in Int /\ tmpFd[f].pos \in TmpNumbers \cup {0}
         /\ refOffset[f] \in Int /\ listed[f] \in SUBSET TmpNumbers
         /\ again[f] \in BOOLEAN /\ mixed[f] \in BOOLEAN
<1>1. tmpFd[f] # Closed => tmpFd[f] \in OpenFiles
  BY DEF TmpTypes
<1> QED BY <1>1 DEF TmpTypes, OpenFiles

(* What a call does that goes on, and what one does that ends.             *)
Went(t, c, f, ref) ==
  /\ tmpThread' \in [TmpThreads -> {TmpIdle} \cup TmpCalls] /\ tmpThread'[t] = c
  /\ \A u \in TmpThreads \ {t} : tmpThread'[u] = tmpThread[u]
  /\ mixed' \in [TmpFds -> BOOLEAN] /\ refOffset' \in [TmpFds -> Int]
  /\ AtWork(f)' = AtWork(f) \cup {t}
  /\ \A g \in TmpFds \ {f} : AtWork(g)' = AtWork(g) /\ mixed'[g] = mixed[g] /\ refOffset'[g] = refOffset[g]
  /\ mixed'[f] <=> mixed[f] \/ AtWork(f) \ {t} # {}
  /\ ~mixed'[f] => refOffset'[f] = ref
Left(t, f) ==
  /\ tmpThread' \in [TmpThreads -> {TmpIdle} \cup TmpCalls] /\ tmpThread'[t] = TmpIdle
  /\ \A u \in TmpThreads \ {t} : tmpThread'[u] = tmpThread[u]
  /\ mixed' \in [TmpFds -> BOOLEAN] /\ refOffset' \in [TmpFds -> Int]
  /\ listed' \in [TmpFds -> SUBSET TmpNumbers] /\ again' \in [TmpFds -> BOOLEAN]
  /\ t \in AtWork(f) /\ AtWork(f)' = AtWork(f) \ {t}
  /\ \A g \in TmpFds \ {f} : /\ AtWork(g)' = AtWork(g) /\ mixed'[g] = mixed[g]
                             /\ refOffset'[g] = refOffset[g]
                             /\ listed'[g] = listed[g] /\ again'[g] = again[g]
  /\ mixed[f] /\ AtWork(f) = {t} =>
       /\ ~mixed'[f] /\ ~again'[f] /\ refOffset'[f] = tmpFd'[f].offset
       /\ listed'[f] = Before(tmpFd[f].entry, tmpFd'[f].pos)
  /\ ~(mixed[f] /\ AtWork(f) = {t}) =>
       /\ mixed'[f] = mixed[f] /\ again'[f] = again[f]
       /\ refOffset'[f] = refOffset[f] /\ listed'[f] = listed[f]

LEMMA GoesIs ==
  ASSUME TmpTypes, NEW t \in TmpThreads, NEW c \in TmpCalls, NEW f \in TmpFds, c.f = f, NEW ref \in Int,
         Goes(t, c, ref), tmpThread[t].pc # "idle" => tmpThread[t].f = f
  PROVE  Went(t, c, f, ref)
<1> DEFINE overlaps == mixed[f] \/ AtWork(f) \ {t} # {}
<1>1. /\ tmpThread' = [tmpThread EXCEPT ![t] = c] /\ mixed' = [mixed EXCEPT ![f] = overlaps]
      /\ refOffset' = [refOffset EXCEPT ![f] = IF overlaps THEN 0 ELSE ref]
  BY DEF Goes
<1>2. overlaps \in BOOLEAN
  OBVIOUS
<1>3. /\ tmpThread' \in [TmpThreads -> {TmpIdle} \cup TmpCalls] /\ tmpThread'[t] = c
      /\ \A u \in TmpThreads \ {t} : tmpThread'[u] = tmpThread[u]
  BY <1>1 DEF TmpTypes
<1>4. /\ AtWork(f)' = AtWork(f) \cup {t}
      /\ \A g \in TmpFds \ {f} : AtWork(g)' = AtWork(g)
  <2>1. c.pc # "idle"
    BY CallIs
  <2> QED BY <1>3, <2>1 DEF AtWork
<1> HIDE DEF overlaps
<1>5. /\ mixed' \in [TmpFds -> BOOLEAN] /\ mixed'[f] = overlaps
      /\ \A g \in TmpFds \ {f} : mixed'[g] = mixed[g]
  BY <1>1, <1>2, Zenon DEF TmpTypes
<1>6. /\ refOffset' \in [TmpFds -> Int] /\ (~overlaps => refOffset'[f] = ref)
      /\ \A g \in TmpFds \ {f} : refOffset'[g] = refOffset[g]
  BY <1>1 DEF TmpTypes
<1> QED BY <1>3, <1>4, <1>5, <1>6 DEF overlaps, Went

LEMMA LeavesIs ==
  ASSUME TmpTypes, UNCHANGED tmpTree, NEW t \in TmpThreads, NEW f \in TmpFds, Leaves(t, f),
         tmpThread[t].pc # "idle", tmpThread[t].f = f, tmpFd'[f].offset \in Int
  PROVE  Left(t, f)
<1> DEFINE anew == mixed[f] /\ AtWork(f) = {t}
<1>1. /\ tmpThread' = [tmpThread EXCEPT ![t] = TmpIdle] /\ mixed' = [mixed EXCEPT ![f] = @ /\ ~anew]
      /\ refOffset' = IF anew THEN [refOffset EXCEPT ![f] = tmpFd'[f].offset] ELSE refOffset
      /\ listed' = IF anew THEN [listed EXCEPT ![f] = Before(tmpFd[f].entry, tmpFd'[f].pos)] ELSE listed
      /\ again' = [again EXCEPT ![f] = @ /\ ~anew]
  BY DEF Leaves
<1>2. anew \in BOOLEAN /\ (anew => mixed[f])
  OBVIOUS
<1>3. /\ tmpThread' \in [TmpThreads -> {TmpIdle} \cup TmpCalls] /\ tmpThread'[t] = TmpIdle
      /\ \A u \in TmpThreads \ {t} : tmpThread'[u] = tmpThread[u]
  BY <1>1 DEF TmpTypes
<1>4. /\ t \in AtWork(f) /\ AtWork(f)' = AtWork(f) \ {t}
      /\ \A g \in TmpFds \ {f} : AtWork(g)' = AtWork(g)
  <2>1. TmpIdle.pc = "idle"
    BY DEF TmpIdle
  <2> QED BY <1>3, <2>1 DEF AtWork
<1> HIDE DEF anew
<1>5. /\ mixed' \in [TmpFds -> BOOLEAN] /\ mixed'[f] = (mixed[f] /\ ~anew)
      /\ \A g \in TmpFds \ {f} : mixed'[g] = mixed[g]
  BY <1>1, <1>2, Zenon DEF TmpTypes
<1>6. /\ again' \in [TmpFds -> BOOLEAN] /\ again'[f] = (again[f] /\ ~anew)
      /\ \A g \in TmpFds \ {f} : again'[g] = again[g]
  BY <1>1, <1>2, Zenon DEF TmpTypes
<1>7. /\ refOffset' \in [TmpFds -> Int] /\ refOffset'[f] = IF anew THEN tmpFd'[f].offset ELSE refOffset[f]
      /\ \A g \in TmpFds \ {f} : refOffset'[g] = refOffset[g]
  BY <1>1 DEF TmpTypes
<1>8. Before(tmpFd[f].entry, tmpFd'[f].pos) \in SUBSET TmpNumbers
  BY TreeIs DEF Before
<1>9. /\ listed' \in [TmpFds -> SUBSET TmpNumbers]
      /\ listed'[f] = IF anew THEN Before(tmpFd[f].entry, tmpFd'[f].pos) ELSE listed[f]
      /\ \A g \in TmpFds \ {f} : listed'[g] = listed[g]
  BY <1>1, <1>8 DEF TmpTypes
<1>10. mixed[f] \in BOOLEAN /\ again[f] \in BOOLEAN
  BY FdIs
<1>11. CASE anew
  <2>1. ~mixed'[f] /\ ~again'[f] /\ mixed[f] /\ AtWork(f) = {t}
    BY <1>5, <1>6, <1>11, Zenon DEF anew
  <2> QED BY <1>3, <1>4, <1>5, <1>6, <1>7, <1>9, <1>11, <2>1 DEF Left
<1>12. CASE ~anew
  <2>1. mixed'[f] = mixed[f] /\ again'[f] = again[f]
    BY <1>5, <1>6, <1>10, <1>12, Zenon
  <2>2. ~(mixed[f] /\ AtWork(f) = {t})
    BY <1>12 DEF anew
  <2> QED BY <1>3, <1>4, <1>5, <1>6, <1>7, <1>9, <1>12, <2>1, <2>2 DEF Left
<1> QED BY <1>11, <1>12

-----------------------------------------------------------------------------
(* Descriptors on which nothing happens.                                   *)
LEMMA Undisturbed ==
  ASSUME TmpTypes, TreeExtends, NEW f \in TmpFds, FdSound(f), tmpFd'[f] = tmpFd[f],
         mixed'[f] = mixed[f], refOffset'[f] = refOffset[f], listed'[f] = listed[f], again'[f] = again[f],
         AtWork(f)' = AtWork(f), \A t \in AtWork(f) : tmpThread'[t] = tmpThread[t]
  PROVE  FdSound(f)'
<1>1. CASE tmpFd[f] = Closed
  BY <1>1 DEF FdSound, Closed
<1>2. CASE tmpFd[f] # Closed
  <2> PICK d : d = tmpFd[f].entry
    OBVIOUS
  <2> DEFINE C == Children(d)
             D == Children(d)'
             n == Len(tmpTree)
             S == listed[f]
             pos == tmpFd[f].pos
  <2>1. /\ n \in Nat /\ C \in SUBSET (1 .. n) /\ D \in SUBSET Nat
        /\ \A e \in 1 .. n : e \in D <=> e \in C
        /\ 0 \notin D
    BY ChildrenKept
  <2>2. /\ pos \in C \cup {0} /\ (mixed[f] => AtWork(f) # {})
        /\ ~mixed[f] =>
             /\ ~again[f]
             /\ AtWork(f) = {} => tmpFd[f].offset = refOffset[f] /\ Behind(S, C, pos)
             /\ \A t \in AtWork(f) : AtWork(f) = {t} /\ Right(tmpThread[t], tmpFd[f].offset, refOffset[f])
                                     /\ ListRight(tmpThread[t], S, C, pos)
    BY <1>2 DEF FdSound, AtRest, InCall
  <2> HIDE DEF C, D, n, S, pos
  <2>3. pos \in D \cup {0} /\ (Behind(S, C, pos) => Behind(S, D, pos))
    BY <2>1, <2>2, BehindKept
  <2>4. ASSUME NEW c, ListRight(c, S, C, pos) PROVE ListRight(c, S, D, pos)
    <3>1. CASE c.pc = "seekdir"
      <4>1. c.ptr \in C \cup {0} /\ Behind(S, C, c.ptr)
        BY <2>4, <3>1 DEF ListRight
      <4>2. c.ptr \in D \cup {0} /\ Behind(S, D, c.ptr)
        BY <2>1, <4>1, BehindKept
      <4> QED BY <3>1, <4>2 DEF ListRight
    <3>2. CASE c.pc # "seekdir"
      BY <2>3, <2>4, <3>2 DEF ListRight
    <3> QED BY <3>1, <3>2
  <2>5. /\ pos \in D \cup {0} /\ (mixed[f] => AtWork(f) # {})
        /\ ~mixed[f] =>
             /\ ~again[f]
             /\ AtWork(f) = {} => tmpFd[f].offset = refOffset[f] /\ Behind(S, D, pos)
             /\ \A t \in AtWork(f) : AtWork(f) = {t} /\ Right(tmpThread[t], tmpFd[f].offset, refOffset[f])
                                     /\ ListRight(tmpThread[t], S, D, pos)
    BY <2>2, <2>3, <2>4
  <2>6. tmpFd'[f] # Closed /\ Closed' = Closed
    BY <1>2 DEF Closed
  <2>7. Children(tmpFd[f].entry)' = D
    BY DEF Children, D
  <2>8. AtRest(f)' <=> tmpFd[f].offset = refOffset[f] /\ Behind(S, D, pos)
    BY <2>7 DEF AtRest, S, pos
  <2>9. ASSUME NEW t \in AtWork(f)
        PROVE  InCall(f, tmpThread[t])' <=> /\ Right(tmpThread[t], tmpFd[f].offset, refOffset[f])
                                           /\ ListRight(tmpThread[t], S, D, pos)
    <3>1. tmpThread'[t] = tmpThread[t]
      OBVIOUS
    <3> QED BY <2>7, <3>1 DEF InCall, S, pos
  <2>10. /\ tmpFd'[f].pos \in Children(tmpFd[f].entry)' \cup {0}
         /\ mixed'[f] => AtWork(f)' # {}
    BY <2>5, <2>7 DEF pos
  <2>11. ASSUME ~mixed'[f]
         PROVE  /\ ~again'[f] /\ (AtWork(f)' = {} => AtRest(f)')
                /\ \A t \in AtWork(f)' : AtWork(f)' = {t} /\ InCall(f, tmpThread[t])'
    BY <2>5, <2>8, <2>9, <2>11
  <2> QED BY <2>6, <2>10, <2>11 DEF FdSound
<1> QED BY <1>1, <1>2

(* Bytes and locked inodes, in a step that writes none and in which no     *)
(* other inode is locked.                                                  *)
LEMMA DataKept ==
  ASSUME TmpInv, UNCHANGED <<tmpTree, tmpData, refData>>, NEW t \in TmpThreads, NEW f \in TmpFds,
         \A u \in TmpThreads \ {t} : tmpThread'[u] = tmpThread[u],
         \A g \in TmpFds \ {f} : tmpFd'[g] = tmpFd[g] /\ mixed'[g] = mixed[g],
         tmpFd'[f].entry = tmpFd[f].entry, tmpThread[t].pc # "idle" => tmpThread[t].f = f,
         AtWork(f) \ {t} # {} => mixed'[f],
         tmpThread[t].pc # "sized", tmpThread'[t].pc # "sized",
         InFile(t)' => tmpThread'[t].f = f /\ (InFile(t) \/ ~InodeLocked(tmpFd[f].entry))
  PROVE  DataTypes' /\ BytesKept' /\ OneInode' /\ DataSound'
<1>1. TmpTypes /\ BytesKept /\ OneInode /\ DataSound
  BY DEF TmpInv
<1>2. DataTypes'
  BY <1>1 DEF TmpTypes, DataTypes, DataBytes
<1>3. ASSUME NEW u \in TmpThreads, u # t, tmpThread[u].pc # "idle"
      PROVE  /\ tmpThread'[u] = tmpThread[u] /\ tmpThread[u].f \in TmpFds /\ u \in AtWork(tmpThread[u].f)
             /\ EntryOf(u)' = EntryOf(u)
  <2>1. tmpThread'[u] = tmpThread[u] /\ tmpThread[u].f \in TmpFds /\ u \in AtWork(tmpThread[u].f)
    BY <1>1, <1>3, CallerIs
  <2>2. tmpFd'[tmpThread[u].f].entry = tmpFd[tmpThread[u].f].entry
    BY <2>1
  <2> QED BY <2>1, <2>2 DEF EntryOf
<1>4. BytesKept'
  <2> SUFFICES ASSUME NEW e \in DOMAIN tmpTree,
                      ~\E u \in TmpThreads : tmpThread'[u].pc = "sized" /\ tmpFd'[tmpThread'[u].f].entry = e
               PROVE  tmpData[e] = refData[e]
    BY DEF BytesKept
  <2>1. ASSUME NEW u \in TmpThreads, tmpThread[u].pc = "sized", tmpFd[tmpThread[u].f].entry = e PROVE FALSE
    <3>1. u # t
      BY <2>1
    <3> QED BY <1>3, <2>1, <3>1 DEF EntryOf
  <2> QED BY <1>1, <2>1 DEF BytesKept
<1>5. ASSUME InFile(t)' PROVE EntryOf(t)' = tmpFd[f].entry
  BY <1>5 DEF EntryOf
<1>6. ASSUME NEW u \in TmpThreads, u # t, InFile(u)', InFile(t)', EntryOf(u)' = EntryOf(t)' PROVE FALSE
  <2>1. tmpThread[u].pc \in {"sized", "copied", "moving"} /\ EntryOf(u)' = EntryOf(u) /\ EntryOf(u) = tmpFd[f].entry
    <3>1. tmpThread'[u] = tmpThread[u]
      BY <1>6
    <3>2. tmpThread[u].pc \in {"sized", "copied", "moving"}
      BY <1>6, <3>1 DEF InFile
    <3>3. EntryOf(u)' = EntryOf(u)
      BY <1>3, <1>6, <3>2
    <3> QED BY <1>5, <1>6, <3>2, <3>3
  <2>2. CASE InFile(t)
    <3>1. EntryOf(t) = tmpFd[f].entry
      BY <2>2 DEF EntryOf, InFile
    <3> QED BY <1>1, <1>6, <2>1, <2>2, <3>1 DEF OneInode, InFile
  <2>3. CASE ~InodeLocked(tmpFd[f].entry)
    BY <2>1, <2>3 DEF InodeLocked, EntryOf
  <2> QED BY <1>6, <2>2, <2>3
<1>7. OneInode'
  <2> SUFFICES ASSUME NEW u \in TmpThreads, NEW v \in TmpThreads, InFile(u)', InFile(v)', EntryOf(u)' = EntryOf(v)'
               PROVE  u = v
    BY DEF OneInode
  <2>1. CASE u # t /\ v # t
    <3>1. tmpThread'[u] = tmpThread[u] /\ tmpThread'[v] = tmpThread[v]
      BY <2>1
    <3>2. InFile(u) /\ InFile(v) /\ tmpThread[u].pc # "idle" /\ tmpThread[v].pc # "idle"
      BY <3>1 DEF InFile
    <3>3. EntryOf(u)' = EntryOf(u) /\ EntryOf(v)' = EntryOf(v)
      BY <1>3, <2>1, <3>2
    <3> QED BY <1>1, <3>2, <3>3 DEF OneInode
  <2> QED BY <1>6, <2>1
<1>8. DataSound'
  <2> SUFFICES ASSUME NEW u \in TmpThreads, tmpThread'[u].pc = "sized"
               PROVE  /\ tmpThread'[u].bytes # <<>> /\ tmpThread'[u].n = Len(tmpThread'[u].bytes)
                      /\ ~mixed'[tmpThread'[u].f] => tmpData'[EntryOf(u)'] = Grown(u)'
    BY DEF DataSound
  <2>1. u # t
    OBVIOUS
  <2>2. /\ tmpThread'[u] = tmpThread[u] /\ tmpThread[u].pc = "sized" /\ EntryOf(u)' = EntryOf(u)
        /\ tmpThread[u].f \in TmpFds /\ u \in AtWork(tmpThread[u].f)
    <3>1. tmpThread'[u] = tmpThread[u]
      BY <2>1
    <3> QED BY <1>3, <2>1, <3>1
  <2>3. /\ tmpThread[u].bytes # <<>> /\ tmpThread[u].n = Len(tmpThread[u].bytes)
        /\ ~mixed[tmpThread[u].f] => tmpData[EntryOf(u)] = Grown(u)
    BY <1>1, <2>2 DEF DataSound
  <2>4. CASE tmpThread[u].f = f
    <3>1. u \in AtWork(f) \ {t}
      BY <2>1, <2>2, <2>4
    <3>2. mixed'[f]
      BY <3>1
    <3> QED BY <2>2, <2>3, <2>4, <3>2
  <2>5. CASE tmpThread[u].f # f
    <3>1. mixed'[tmpThread[u].f] = mixed[tmpThread[u].f] /\ tmpFd'[tmpThread[u].f] = tmpFd[tmpThread[u].f]
      BY <2>2, <2>5
    <3>2. Grown(u)' = Grown(u)
      BY <2>2, <3>1 DEF Grown, EntryOf
    <3> QED BY <2>2, <2>3, <3>1, <3>2
  <2> QED BY <2>4, <2>5
<1> QED BY <1>2, <1>4, <1>7, <1>8

-----------------------------------------------------------------------------
(* A step of one call keeps the invariant if it keeps what is said of the  *)
(* descriptor that the call is at work on.                                 *)
LEMMA Alone ==
  ASSUME TmpInv, NEW t \in TmpThreads, NEW f \in TmpFds, tmpFd[f] # Closed
  PROVE  /\ tmpFd[f].pos \in Children(tmpFd[f].entry) \cup {0}
         /\ ~mixed[f] /\ AtWork(f) \ {t} = {} =>
              /\ ~again[f]
              /\ tmpThread[t].pc = "idle" => AtRest(f)
              /\ tmpThread[t].pc # "idle" /\ tmpThread[t].f = f => InCall(f, tmpThread[t])
<1>1. TmpTypes /\ FdSound(f)
  BY DEF TmpInv
<1>2. t \in AtWork(f) <=> tmpThread[t].pc # "idle" /\ tmpThread[t].f = f
  BY <1>1, CallerIs
<1> QED BY <1>1, <1>2 DEF FdSound

LEMMA OthersKept ==
  ASSUME TmpInv, UNCHANGED tmpTree, NEW t \in TmpThreads, NEW f \in TmpFds,
         tmpThread[t].pc # "idle" => tmpThread[t].f = f,
         \A u \in TmpThreads \ {t} : tmpThread'[u] = tmpThread[u],
         \A g \in TmpFds \ {f} : /\ tmpFd'[g] = tmpFd[g] /\ mixed'[g] = mixed[g]
                                 /\ refOffset'[g] = refOffset[g] /\ listed'[g] = listed[g]
                                 /\ again'[g] = again[g] /\ AtWork(g)' = AtWork(g)
  PROVE  TmpTypes /\ TreeExtends /\ \A g \in TmpFds \ {f} : FdSound(g)'
<1>1. TmpTypes /\ \A g \in TmpFds : FdSound(g)
  BY DEF TmpInv
<1>2. TreeExtends
  <2>1. tmpTree \in Seq(Dents) /\ Len(tmpTree) \in Nat
    BY <1>1, LenProperties DEF TmpTypes
  <2> QED BY <2>1 DEF TreeExtends
<1>3. ASSUME NEW g \in TmpFds \ {f} PROVE FdSound(g)'
  <2>1. \A u \in AtWork(g) : u # t /\ tmpThread'[u] = tmpThread[u]
    BY <1>1, <1>3, CallerIs DEF AtWork
  <2> QED BY <1>1, <1>2, <1>3, <2>1, Undisturbed
<1> QED BY <1>1, <1>2, <1>3

Moves(f, x) ==
  /\ x \in OpenFiles /\ x.entry = tmpFd[f].entry /\ x.pos \in Children(x.entry) \cup {0}
  /\ tmpFd' = [tmpFd EXCEPT ![f] = x]
Lists(f) ==
  /\ listed' \in [TmpFds -> SUBSET TmpNumbers] /\ again' \in [TmpFds -> BOOLEAN]
  /\ \A g \in TmpFds \ {f} : listed'[g] = listed[g] /\ again'[g] = again[g]

LEMMA GoesInv ==
  ASSUME TmpInv, UNCHANGED tmpTree, DataTypes', BytesKept', OneInode', DataSound',
         NEW t \in TmpThreads, NEW f \in TmpFds, NEW c \in TmpCalls, c.f = f, NEW ref \in Int,
         Goes(t, c, ref), tmpThread[t].pc # "idle" => tmpThread[t].f = f, tmpFd[f] # Closed,
         NEW x, Moves(f, x), Lists(f),
         ~mixed'[f] => ~again'[f] /\ Right(c, x.offset, ref)
                       /\ ListRight(c, listed'[f], Children(x.entry), x.pos)
  PROVE  TmpInv'
<1>1. TmpTypes /\ TreeGrows /\ NamesUnique
  BY DEF TmpInv
<1> USE DEF Moves, Lists
<1>2. /\ tmpThread' \in [TmpThreads -> {TmpIdle} \cup TmpCalls] /\ tmpThread'[t] = c
      /\ \A u \in TmpThreads \ {t} : tmpThread'[u] = tmpThread[u]
      /\ mixed' \in [TmpFds -> BOOLEAN] /\ refOffset' \in [TmpFds -> Int]
      /\ AtWork(f)' = AtWork(f) \cup {t}
      /\ \A g \in TmpFds \ {f} : AtWork(g)' = AtWork(g) /\ mixed'[g] = mixed[g] /\ refOffset'[g] = refOffset[g]
      /\ mixed'[f] <=> mixed[f] \/ AtWork(f) \ {t} # {}
      /\ ~mixed'[f] => refOffset'[f] = ref
  <2>1. Went(t, c, f, ref)
    BY <1>1, GoesIs
  <2> QED BY <2>1 DEF Went
<1>3. /\ tmpFd' \in [TmpFds -> {Closed} \cup OpenFiles] /\ tmpFd'[f] = x
      /\ \A g \in TmpFds \ {f} : tmpFd'[g] = tmpFd[g]
  BY <1>1 DEF TmpTypes
<1>4. TreeExtends /\ \A g \in TmpFds \ {f} : FdSound(g)'
  BY <1>2, <1>3, OthersKept
<1>5. TmpTypes'
  <2>1. TmpNumbers' = TmpNumbers /\ OpenFiles' = OpenFiles /\ Closed' = Closed /\ TmpIdle' = TmpIdle /\ Dents' = Dents
    BY DEF TmpNumbers, OpenFiles, Closed, TmpIdle, Dents, EntryNames
  <2>2. TmpCalls' = TmpCalls
    <3>1. ListCalls' = ListCalls
      BY <2>1 DEF ListCalls
    <3>2. SeekCalls' = SeekCalls /\ MoveCalls' = MoveCalls /\ AtCalls' = AtCalls
      BY DEF SeekCalls, MoveCalls, AtCalls, FileCalls
    <3> QED BY <3>1, <3>2, Zenon DEF TmpCalls
  <2>3. tmpTree' \in Seq(Dents') /\ Len(tmpTree') >= 1
    BY <1>1, <2>1 DEF TmpTypes
  <2> QED BY <1>2, <1>3, <2>1, <2>2, <2>3 DEF TmpTypes
<1>6. TreeGrows' /\ NamesUnique'
  BY <1>1 DEF TreeGrows, NamesUnique, TmpNumbers, Root
<1>7. FdSound(f)'
  <2> PICK d : d = x.entry
    OBVIOUS
  <2>1. x # Closed /\ Closed' = Closed
    <3>1. Closed.entry = 0 /\ x.entry # 0
      <4>1. x.entry \in TmpNumbers
        BY DEF OpenFiles
      <4> QED BY <4>1 DEF Closed, TmpNumbers
    <3> QED BY <3>1 DEF Closed
  <2>2. Children(tmpFd[f].entry)' = Children(x.entry)
    BY <1>3 DEF Children
  <2>3. tmpFd'[f].pos \in Children(tmpFd[f].entry)' \cup {0} /\ AtWork(f)' # {}
    BY <1>2, <1>3, <2>2
  <2>4. ASSUME ~mixed'[f]
        PROVE  /\ ~again'[f] /\ AtWork(f)' = {t}
               /\ InCall(f, tmpThread[t])'
    <3>1. AtWork(f)' = {t} /\ refOffset'[f] = ref
      BY <1>2, <2>4
    <3>2. /\ ~again'[f] /\ Right(c, x.offset, ref)
          /\ ListRight(c, listed'[f], Children(x.entry), x.pos)
      BY <2>4
    <3> QED BY <1>2, <1>3, <2>2, <3>1, <3>2 DEF InCall
  <2> QED BY <1>3, <2>1, <2>3, <2>4 DEF FdSound
<1> QED BY <1>4, <1>5, <1>6, <1>7 DEF TmpInv

(* The same for steps that write no bytes, of calls that go on...          *)
LEMMA GoesKept ==
  ASSUME TmpInv, UNCHANGED <<tmpTree, tmpData, refData>>,
         NEW t \in TmpThreads, NEW f \in TmpFds, NEW c \in TmpCalls, c.f = f, NEW ref \in Int,
         Goes(t, c, ref), tmpThread[t].pc # "idle" => tmpThread[t].f = f, tmpFd[f] # Closed,
         tmpThread[t].pc # "sized", c.pc # "sized",
         c.pc \in {"copied", "moving"} => InFile(t) \/ ~InodeLocked(tmpFd[f].entry),
         NEW x, Moves(f, x), Lists(f),
         ~mixed'[f] => ~again'[f] /\ Right(c, x.offset, ref)
                       /\ ListRight(c, listed'[f], Children(x.entry), x.pos)
  PROVE  TmpInv'
<1>1. TmpTypes
  BY DEF TmpInv
<1>2. Went(t, c, f, ref)
  BY <1>1, GoesIs
<1>3. /\ tmpThread'[t] = c /\ \A u \in TmpThreads \ {t} : tmpThread'[u] = tmpThread[u]
      /\ \A g \in TmpFds \ {f} : mixed'[g] = mixed[g]
      /\ AtWork(f) \ {t} # {} => mixed'[f]
  BY <1>2 DEF Went
<1>4. tmpFd'[f].entry = tmpFd[f].entry /\ \A g \in TmpFds \ {f} : tmpFd'[g] = tmpFd[g]
  BY <1>1 DEF TmpTypes, Moves
<1>5. InFile(t)' => tmpThread'[t].f = f /\ (InFile(t) \/ ~InodeLocked(tmpFd[f].entry))
  BY <1>3 DEF InFile
<1>6. DataTypes' /\ BytesKept' /\ OneInode' /\ DataSound'
  <2>1. tmpThread'[t].pc # "sized"
    BY <1>3
  <2> QED BY <1>3, <1>4, <1>5, <2>1, DataKept
<1> QED BY <1>6, GoesInv

(* ... and of calls that end.                                              *)
LEMMA LeavesInv ==
  ASSUME TmpInv, UNCHANGED <<tmpTree, tmpData, refData>>,
         NEW t \in TmpThreads, NEW f \in TmpFds, Leaves(t, f),
         tmpThread[t].pc # "idle", tmpThread[t].f = f, tmpThread[t].pc # "sized", tmpFd[f] # Closed,
         NEW x, Moves(f, x),
         ~mixed[f] => x.offset = refOffset[f] /\ Behind(listed[f], Children(x.entry), x.pos)
  PROVE  TmpInv'
<1>1. TmpTypes /\ TreeGrows /\ NamesUnique /\ FdSound(f)
  BY DEF TmpInv
<1> USE DEF Moves
<1>2. /\ tmpFd' \in [TmpFds -> {Closed} \cup OpenFiles] /\ tmpFd'[f] = x
      /\ \A g \in TmpFds \ {f} : tmpFd'[g] = tmpFd[g]
  BY <1>1 DEF TmpTypes
<1>3. Left(t, f)
  <2>1. tmpFd'[f].offset \in Int
    BY <1>2 DEF OpenFiles
  <2> QED BY <1>1, <2>1, LeavesIs
<1>4. /\ tmpThread' \in [TmpThreads -> {TmpIdle} \cup TmpCalls] /\ tmpThread'[t] = TmpIdle
      /\ \A u \in TmpThreads \ {t} : tmpThread'[u] = tmpThread[u]
      /\ mixed' \in [TmpFds -> BOOLEAN] /\ refOffset' \in [TmpFds -> Int]
      /\ listed' \in [TmpFds -> SUBSET TmpNumbers] /\ again' \in [TmpFds -> BOOLEAN]
      /\ t \in AtWork(f) /\ AtWork(f)' = AtWork(f) \ {t}
      /\ \A g \in TmpFds \ {f} : /\ AtWork(g)' = AtWork(g) /\ mixed'[g] = mixed[g]
                                 /\ refOffset'[g] = refOffset[g]
                                 /\ listed'[g] = listed[g] /\ again'[g] = again[g]
  BY <1>3 DEF Left
<1>5. /\ mixed[f] /\ AtWork(f) = {t} =>
           /\ ~mixed'[f] /\ ~again'[f] /\ refOffset'[f] = x.offset
           /\ listed'[f] = Before(x.entry, x.pos)
      /\ ~(mixed[f] /\ AtWork(f) = {t}) =>
           /\ mixed'[f] = mixed[f] /\ again'[f] = again[f]
           /\ refOffset'[f] = refOffset[f] /\ listed'[f] = listed[f]
  BY <1>2, <1>3 DEF Left
<1>6. ~mixed[f] => ~again[f] /\ AtWork(f) = {t}
  BY <1>1, <1>4 DEF FdSound
<1>7. DataTypes' /\ BytesKept' /\ OneInode' /\ DataSound'
  <2>1. AtWork(f) \ {t} # {} => mixed'[f]
    BY <1>5, <1>6
  <2>2. tmpThread'[t].pc # "sized" /\ ~InFile(t)'
    BY <1>4 DEF TmpIdle, InFile
  <2>3. tmpFd'[f].entry = tmpFd[f].entry
    BY <1>2
  <2> QED BY <1>2, <1>4, <2>1, <2>2, <2>3, DataKept
<1>8. TreeExtends /\ \A g \in TmpFds \ {f} : FdSound(g)'
  BY <1>2, <1>4, OthersKept
<1>9. TmpTypes'
  <2>1. TmpNumbers' = TmpNumbers /\ OpenFiles' = OpenFiles /\ Closed' = Closed /\ TmpIdle' = TmpIdle /\ Dents' = Dents
    BY DEF TmpNumbers, OpenFiles, Closed, TmpIdle, Dents, EntryNames
  <2>2. TmpCalls' = TmpCalls
    <3>1. ListCalls' = ListCalls
      BY <2>1 DEF ListCalls
    <3>2. SeekCalls' = SeekCalls /\ MoveCalls' = MoveCalls /\ AtCalls' = AtCalls
      BY DEF SeekCalls, MoveCalls, AtCalls, FileCalls
    <3> QED BY <3>1, <3>2, Zenon DEF TmpCalls
  <2>3. tmpTree' \in Seq(Dents') /\ Len(tmpTree') >= 1
    BY <1>1, <2>1 DEF TmpTypes
  <2> QED BY <1>2, <1>4, <1>7, <2>1, <2>2, <2>3 DEF TmpTypes
<1>10. TreeGrows' /\ NamesUnique'
  BY <1>1 DEF TreeGrows, NamesUnique, TmpNumbers, Root
<1>11. FdSound(f)'
  <2>1. x # Closed /\ Closed' = Closed
    <3>1. Closed.entry = 0 /\ x.entry # 0
      <4>1. x.entry \in TmpNumbers
        BY DEF OpenFiles
      <4> QED BY <4>1 DEF Closed, TmpNumbers
    <3> QED BY <3>1 DEF Closed
  <2>2. Children(tmpFd[f].entry)' = Children(x.entry)
    BY <1>2 DEF Children
  <2>3. tmpFd'[f].pos \in Children(tmpFd[f].entry)' \cup {0} /\ (mixed'[f] => AtWork(f)' # {})
    <3>1. mixed'[f] => AtWork(f) \ {t} # {}
      BY <1>4, <1>5, <1>6
    <3> QED BY <1>2, <1>4, <2>2, <3>1
  <2>4. ASSUME ~mixed'[f]
        PROVE  ~again'[f] /\ AtWork(f)' = {} /\ AtRest(f)'
    <3>1. CASE mixed[f] /\ AtWork(f) = {t}
      <4>1. ~again'[f] /\ AtWork(f)' = {} /\ refOffset'[f] = x.offset /\ listed'[f] = Before(x.entry, x.pos)
        BY <1>4, <1>5, <3>1
      <4>2. Behind(listed'[f], Children(x.entry), x.pos)
        BY <4>1 DEF Before, Behind
      <4> QED BY <1>2, <2>2, <4>1, <4>2 DEF AtRest
    <3>2. CASE ~(mixed[f] /\ AtWork(f) = {t})
      <4>1. ~mixed[f]
        BY <1>5, <2>4, <3>2
      <4>2. ~again'[f] /\ AtWork(f)' = {} /\ refOffset'[f] = refOffset[f] /\ listed'[f] = listed[f]
        BY <1>4, <1>5, <1>6, <3>2, <4>1
      <4>3. x.offset = refOffset[f] /\ Behind(listed[f], Children(x.entry), x.pos)
        BY <4>1
      <4> QED BY <1>2, <2>2, <4>2, <4>3 DEF AtRest
    <3> QED BY <3>1, <3>2
  <2> QED BY <1>2, <2>1, <2>3, <2>4 DEF FdSound
<1> QED BY <1>7, <1>8, <1>9, <1>10, <1>11 DEF TmpInv

-----------------------------------------------------------------------------
(* What is known of a call at work, and of a descriptor on which one       *)
(* starts.                                                                 *)
LEMMA WorkIs ==
  ASSUME TmpInv, NEW t \in TmpThreads, NEW c, c = tmpThread[t], c.pc # "idle", NEW f, f = c.f
  PROVE  /\ c \in TmpCalls /\ f \in TmpFds /\ tmpFd[f] # Closed /\ tmpFd[f] \in OpenFiles
         /\ tmpFd[f].entry \in TmpNumbers /\ tmpFd[f].offset \in Int /\ refOffset[f] \in Int
         /\ tmpFd[f].pos \in Children(tmpFd[f].entry) \cup {0} /\ t \in AtWork(f)
         /\ ~mixed[f] => /\ ~again[f] /\ AtWork(f) = {t}
                         /\ Right(c, tmpFd[f].offset, refOffset[f])
                         /\ ListRight(c, listed[f], Children(tmpFd[f].entry), tmpFd[f].pos)
<1>1. TmpTypes
  BY DEF TmpInv
<1>2. c \in TmpCalls /\ f \in TmpFds /\ t \in AtWork(f) /\ refOffset[f] \in Int
  BY <1>1, CallerIs, FdIs
<1>3. FdSound(f)
  BY <1>2 DEF TmpInv
<1>4. tmpFd[f] # Closed
  BY <1>2, <1>3 DEF FdSound
<1>5. tmpFd[f] \in OpenFiles /\ tmpFd[f].entry \in TmpNumbers /\ tmpFd[f].offset \in Int
  BY <1>1, <1>2, <1>4, FdIs
<1> QED BY <1>2, <1>3, <1>4, <1>5 DEF FdSound, InCall

LEMMA StartIs ==
  ASSUME TmpInv, NEW t \in TmpThreads, tmpThread[t] = TmpIdle, NEW f \in TmpFds, tmpFd[f] # Closed
  PROVE  /\ tmpThread[t].pc = "idle" /\ tmpFd[f] \in OpenFiles
         /\ tmpFd[f].entry \in TmpNumbers /\ tmpFd[f].offset \in Int /\ refOffset[f] \in Int
         /\ tmpFd[f].pos \in Children(tmpFd[f].entry) \cup {0}
         /\ ~mixed[f] /\ AtWork(f) \ {t} = {} =>
              /\ ~again[f] /\ tmpFd[f].offset = refOffset[f]
              /\ Behind(listed[f], Children(tmpFd[f].entry), tmpFd[f].pos)
<1>1. TmpTypes
  BY DEF TmpInv
<1>2. tmpThread[t].pc = "idle"
  BY DEF TmpIdle
<1> QED BY <1>1, <1>2, FdIs, Alone DEF AtRest

LEMMA Overlaps ==
  ASSUME TmpInv, NEW t \in TmpThreads, NEW c \in TmpCalls, NEW f \in TmpFds, c.f = f, NEW ref, Goes(t, c, ref)
  PROVE  ~mixed'[f] => ~mixed[f] /\ AtWork(f) \ {t} = {}
<1> DEFINE overlaps == mixed[f] \/ AtWork(f) \ {t} # {}
<1>1. mixed' = [mixed EXCEPT ![f] = overlaps] /\ mixed \in [TmpFds -> BOOLEAN]
  BY DEF Goes, TmpInv, TmpTypes
<1>2. mixed'[f] = overlaps
  BY <1>1, Zenon
<1> QED BY <1>2

(* Steps that leave the descriptors alone and steps that move an offset,   *)
(* of calls that go on and write no bytes.                                 *)
LEMMA GoesStill ==
  ASSUME TmpInv, UNCHANGED <<tmpTree, tmpData, refData>>, UNCHANGED <<tmpFd, listVars>>,
         NEW t \in TmpThreads, NEW f \in TmpFds, NEW c \in TmpCalls, c.f = f, NEW ref \in Int,
         Goes(t, c, ref), tmpThread[t].pc # "idle" => tmpThread[t].f = f, tmpFd[f] # Closed,
         tmpThread[t].pc # "sized", c.pc # "sized",
         c.pc \in {"copied", "moving"} => InFile(t) \/ ~InodeLocked(tmpFd[f].entry),
         ~mixed[f] /\ AtWork(f) \ {t} = {} =>
           /\ Right(c, tmpFd[f].offset, ref)
           /\ ListRight(c, listed[f], Children(tmpFd[f].entry), tmpFd[f].pos)
  PROVE  TmpInv'
<1>1. TmpTypes
  BY DEF TmpInv
<1>2. PICK x : x = tmpFd[f]
  OBVIOUS
<1>3. Moves(f, x)
  BY <1>1, <1>2, FdIs, Alone DEF TmpTypes, Moves
<1>4. listed' = listed /\ again' = again
  BY DEF listVars
<1>5. Lists(f)
  BY <1>1, <1>4 DEF TmpTypes, Lists
<1>6. ASSUME ~mixed'[f]
      PROVE  /\ ~again'[f] /\ Right(c, x.offset, ref)
             /\ ListRight(c, listed'[f], Children(x.entry), x.pos)
  <2>1. ~mixed[f] /\ AtWork(f) \ {t} = {}
    BY <1>6, Overlaps
  <2>2. ~again[f]
    BY <2>1, Alone
  <2> QED BY <1>2, <1>4, <2>1, <2>2
<1> QED BY <1>3, <1>5, <1>6, GoesKept

LEMMA GoesOffset ==
  ASSUME TmpInv, UNCHANGED <<tmpTree, tmpData, refData>>, UNCHANGED listVars,
         NEW t \in TmpThreads, NEW f \in TmpFds, NEW c \in TmpCalls, c.f = f, GoesOn(t, c),
         tmpThread[t].pc # "idle", tmpThread[t].f = f,
         tmpThread[t].pc # "sized", c.pc # "sized", c.pc \in {"copied", "moving"} => InFile(t),
         NEW v \in Int, tmpFd' = [tmpFd EXCEPT ![f].offset = v],
         Right(tmpThread[t], tmpFd[f].offset, refOffset[f]) => Right(c, v, refOffset[f]),
         tmpThread[t].pc \notin {"readdir", "telldir", "seekdir"}, c.pc \notin {"readdir", "seekdir"}
  PROVE  TmpInv'
<1>1. TmpTypes
  BY DEF TmpInv
<1>2. /\ tmpFd[f] # Closed /\ tmpFd[f] \in OpenFiles /\ refOffset[f] \in Int
      /\ tmpFd[f].pos \in Children(tmpFd[f].entry) \cup {0}
      /\ ~mixed[f] => /\ ~again[f] /\ Right(tmpThread[t], tmpFd[f].offset, refOffset[f])
                      /\ ListRight(tmpThread[t], listed[f], Children(tmpFd[f].entry), tmpFd[f].pos)
  <2> PICK d : d = tmpThread[t]
    OBVIOUS
  <2> QED BY WorkIs
<1>3. PICK x : x = [tmpFd[f] EXCEPT !.offset = v]
  OBVIOUS
<1>4. x \in OpenFiles /\ x.entry = tmpFd[f].entry /\ x.pos = tmpFd[f].pos /\ x.offset = v
  BY <1>2, <1>3 DEF OpenFiles
<1>5. Moves(f, x)
  BY <1>1, <1>2, <1>3, <1>4 DEF TmpTypes, Moves
<1>6. listed' = listed /\ again' = again
  BY DEF listVars
<1>7. Lists(f)
  BY <1>1, <1>6 DEF TmpTypes, Lists
<1>8. PICK ref : ref = refOffset[f]
  OBVIOUS
<1>9. ref \in Int /\ Goes(t, c, ref)
  BY <1>2, <1>8 DEF GoesOn
<1>10. ASSUME ~mixed'[f]
       PROVE  /\ ~again'[f] /\ Right(c, x.offset, ref)
              /\ ListRight(c, listed'[f], Children(x.entry), x.pos)
  <2>1. ~mixed[f]
    BY <1>9, <1>10, Overlaps
  <2>2. ListRight(tmpThread[t], listed[f], Children(tmpFd[f].entry), tmpFd[f].pos)
          => ListRight(c, listed[f], Children(tmpFd[f].entry), tmpFd[f].pos)
    BY DEF ListRight
  <2> QED BY <1>2, <1>4, <1>6, <1>8, <2>1, <2>2
<1> QED BY <1>2, <1>5, <1>7, <1>9, <1>10, GoesKept

LEMMA MoveLoadInv ==
  ASSUME TmpInv, NEW t \in TmpThreads, MoveLoad(t)
  PROVE  TmpInv'
<1>1. PICK c : c = tmpThread[t]
  OBVIOUS
<1>2. PICK f : f = c.f
  OBVIOUS
<1>3. PICK d : d = [c EXCEPT !.pc = "moving", !.n = 0, !.val = tmpFd[f].offset + c.n]
  OBVIOUS
<1>4. /\ c.pc = "copied" /\ UNCHANGED <<tmpTree, tmpData, refData>> /\ UNCHANGED <<tmpFd, listVars>>
      /\ Goes(t, d, refOffset[f])
  BY <1>1, <1>2, <1>3 DEF MoveLoad, GoesOn
<1>5. /\ c \in TmpCalls /\ f \in TmpFds /\ tmpFd[f] # Closed /\ tmpFd[f] \in OpenFiles
      /\ tmpFd[f].offset \in Int /\ refOffset[f] \in Int
      /\ tmpFd[f].pos \in Children(tmpFd[f].entry) \cup {0}
      /\ ~mixed[f] => /\ ~again[f] /\ Right(c, tmpFd[f].offset, refOffset[f])
                      /\ ListRight(c, listed[f], Children(tmpFd[f].entry), tmpFd[f].pos)
  BY <1>1, <1>2, <1>4, WorkIs
<1>6. c \in MoveCalls \cup AtCalls
  BY <1>4, <1>5, CallIs
<1>7. d \in MoveCalls \cup AtCalls /\ d.f = f /\ d.pc = "moving"
  <2>1. CASE c \in MoveCalls
    <3>1. c.n \in Nat /\ tmpFd[f].offset + c.n \in Int
      BY <1>5, <2>1 DEF MoveCalls, FileCalls
    <3>2. PICK v : v = tmpFd[f].offset + c.n
      OBVIOUS
    <3>3. v \in Int /\ d = [c EXCEPT !.pc = "moving", !.n = 0, !.val = v]
      BY <1>3, <3>1, <3>2
    <3> QED BY <1>2, <2>1, <3>3 DEF MoveCalls, FileCalls
  <2>2. CASE c \in AtCalls
    <3>1. c.n \in Nat /\ tmpFd[f].offset + c.n \in Int
      BY <1>5, <2>2 DEF AtCalls, FileCalls
    <3>2. PICK v : v = tmpFd[f].offset + c.n
      OBVIOUS
    <3>3. v \in Int /\ d = [c EXCEPT !.pc = "moving", !.n = 0, !.val = v]
      BY <1>3, <3>1, <3>2
    <3> QED BY <1>2, <2>2, <3>3 DEF AtCalls, FileCalls
  <2> QED BY <1>6, <2>1, <2>2
<1>8. d \in TmpCalls
  BY <1>7, Zenon DEF TmpCalls
<1>9. ASSUME ~mixed[f]
      PROVE  /\ Right(d, tmpFd[f].offset, refOffset[f])
             /\ ListRight(d, listed[f], Children(tmpFd[f].entry), tmpFd[f].pos)
  <2>1. Right(c, tmpFd[f].offset, refOffset[f]) => Right(d, tmpFd[f].offset, refOffset[f])
    BY <1>3, <1>4, <1>5, <1>6 DEF Right, MoveCalls, AtCalls, FileCalls
  <2>2. ListRight(c, listed[f], Children(tmpFd[f].entry), tmpFd[f].pos)
          => ListRight(d, listed[f], Children(tmpFd[f].entry), tmpFd[f].pos)
    BY <1>4, <1>7 DEF ListRight
  <2> QED BY <1>5, <1>9, <2>1, <2>2
<1>10. InFile(t)
  BY <1>1, <1>4 DEF InFile
<1>11. tmpThread[t].pc # "idle" /\ tmpThread[t].pc # "sized" /\ tmpThread[t].f = f
  BY <1>1, <1>2, <1>4
<1> QED BY <1>4, <1>5, <1>7, <1>8, <1>9, <1>10, <1>11, GoesStill

LEMMA LeavesOffset ==
  ASSUME TmpInv, UNCHANGED <<tmpTree, tmpData, refData>>,
         NEW t \in TmpThreads, NEW f \in TmpFds, Leaves(t, f), tmpThread[t].pc # "idle", tmpThread[t].f = f,
         tmpThread[t].pc \notin {"sized", "readdir", "telldir", "seekdir"},
         NEW v \in Int, tmpFd' = [tmpFd EXCEPT ![f].offset = v],
         Right(tmpThread[t], tmpFd[f].offset, refOffset[f]) => v = refOffset[f]
  PROVE  TmpInv'
<1>1. TmpTypes
  BY DEF TmpInv
<1>2. /\ tmpFd[f] # Closed /\ tmpFd[f] \in OpenFiles
      /\ tmpFd[f].pos \in Children(tmpFd[f].entry) \cup {0}
      /\ ~mixed[f] => /\ Right(tmpThread[t], tmpFd[f].offset, refOffset[f])
                      /\ ListRight(tmpThread[t], listed[f], Children(tmpFd[f].entry), tmpFd[f].pos)
  <2> PICK d : d = tmpThread[t]
    OBVIOUS
  <2> QED BY WorkIs
<1>3. PICK x : x = [tmpFd[f] EXCEPT !.offset = v]
  OBVIOUS
<1>4. x \in OpenFiles /\ x.entry = tmpFd[f].entry /\ x.pos = tmpFd[f].pos /\ x.offset = v
  BY <1>2, <1>3 DEF OpenFiles
<1>5. Moves(f, x)
  BY <1>1, <1>2, <1>3, <1>4 DEF TmpTypes, Moves
<1>6. ~mixed[f] => x.offset = refOffset[f] /\ Behind(listed[f], Children(x.entry), x.pos)
  BY <1>2, <1>4 DEF ListRight
<1> QED BY <1>2, <1>5, <1>6, LeavesInv

LEMMA SeekStoreInv ==
  ASSUME TmpInv, NEW t \in TmpThreads, SeekStore(t)
  PROVE  TmpInv'
<1>1. PICK c : c = tmpThread[t]
  OBVIOUS
<1>2. PICK f : f = c.f
  OBVIOUS
<1>3. /\ c.pc = "seek" /\ UNCHANGED <<tmpTree, tmpData, refData>>
      /\ tmpFd' = [tmpFd EXCEPT ![f].offset = c.val]
      /\ IF c.call = "lseek" THEN Leaves(t, f)
         ELSE GoesOn(t, [c EXCEPT !.pc = "sought", !.val = 0]) /\ UNCHANGED listVars
  BY <1>1, <1>2 DEF SeekStore
<1>4. c \in TmpCalls /\ f \in TmpFds /\ c \in SeekCalls \cup AtCalls
  BY <1>1, <1>2, <1>3, WorkIs, CallIs
<1>5. c.val \in Int
  BY <1>4 DEF SeekCalls, AtCalls, FileCalls
<1>6. tmpThread[t].pc = "seek" /\ tmpThread[t].f = f
  BY <1>1, <1>2, <1>3
<1>7. CASE c.call = "lseek"
  <2>1. Right(tmpThread[t], tmpFd[f].offset, refOffset[f]) => c.val = refOffset[f]
    BY <1>1, <1>7 DEF Right
  <2> QED BY <1>3, <1>4, <1>5, <1>6, <1>7, <2>1, LeavesOffset
<1>8. CASE c.call # "lseek"
  <2>0. PICK z : z = 0 /\ z \in Int
    OBVIOUS
  <2>1. PICK d : d = [c EXCEPT !.pc = "sought", !.val = z]
    OBVIOUS
  <2>2. c \in AtCalls
    BY <1>4, <1>8 DEF SeekCalls, FileCalls
  <2>3. d \in AtCalls /\ d.f = f /\ d.pc = "sought"
    BY <1>2, <2>0, <2>1, <2>2 DEF AtCalls, FileCalls
  <2>4. d \in TmpCalls
    BY <2>3, Zenon DEF TmpCalls
  <2>5. Right(c, tmpFd[f].offset, refOffset[f]) => Right(d, c.val, refOffset[f])
    BY <1>3, <2>1, <2>2 DEF Right, AtCalls, FileCalls
  <2> QED BY <1>1, <1>3, <1>4, <1>5, <1>6, <1>8, <2>0, <2>1, <2>3, <2>4, <2>5, GoesOffset
<1> QED BY <1>7, <1>8

LEMMA MoveStoreInv ==
  ASSUME TmpInv, NEW t \in TmpThreads, MoveStore(t)
  PROVE  TmpInv'
<1>1. PICK c : c = tmpThread[t]
  OBVIOUS
<1>2. PICK f : f = c.f
  OBVIOUS
<1>3. /\ c.pc = "moving" /\ UNCHANGED <<tmpTree, tmpData, refData>>
      /\ tmpFd' = [tmpFd EXCEPT ![f].offset = c.val]
      /\ IF c.call = "readwrite" THEN Leaves(t, f)
         ELSE GoesOn(t, [c EXCEPT !.pc = "done", !.val = 0]) /\ UNCHANGED listVars
  BY <1>1, <1>2 DEF MoveStore
<1>4. c \in TmpCalls /\ f \in TmpFds /\ c \in MoveCalls \cup AtCalls
  BY <1>1, <1>2, <1>3, WorkIs, CallIs
<1>5. c.val \in Int
  BY <1>4 DEF MoveCalls, AtCalls, FileCalls
<1>6. tmpThread[t].pc = "moving" /\ tmpThread[t].f = f
  BY <1>1, <1>2, <1>3
<1>7. CASE c.call = "readwrite"
  <2>1. Right(tmpThread[t], tmpFd[f].offset, refOffset[f]) => c.val = refOffset[f]
    BY <1>1, <1>3, <1>7 DEF Right
  <2> QED BY <1>3, <1>4, <1>5, <1>6, <1>7, <2>1, LeavesOffset
<1>8. CASE c.call # "readwrite"
  <2>0. PICK z : z = 0 /\ z \in Int
    OBVIOUS
  <2>1. PICK d : d = [c EXCEPT !.pc = "done", !.val = z]
    OBVIOUS
  <2>2. c \in AtCalls
    BY <1>4, <1>8 DEF MoveCalls, FileCalls
  <2>3. d \in AtCalls /\ d.f = f /\ d.pc = "done"
    BY <1>2, <2>0, <2>1, <2>2 DEF AtCalls, FileCalls
  <2>4. d \in TmpCalls
    BY <2>3, Zenon DEF TmpCalls
  <2>5. Right(c, tmpFd[f].offset, refOffset[f]) => Right(d, c.val, refOffset[f])
    BY <1>3, <2>1, <2>2 DEF Right, AtCalls, FileCalls
  <2> QED BY <1>1, <1>3, <1>4, <1>5, <1>6, <1>8, <2>0, <2>1, <2>3, <2>4, <2>5, GoesOffset
<1> QED BY <1>7, <1>8

LEMMA PSaveInv ==
  ASSUME TmpInv, NEW t \in TmpThreads, PSave(t)
  PROVE  TmpInv'
<1>1. PICK c : c = tmpThread[t]
  OBVIOUS
<1>2. PICK f : f = c.f
  OBVIOUS
<1>3. PICK v : v = tmpFd[f].offset
  OBVIOUS
<1>4. PICK d : d = [c EXCEPT !.pc = "saved", !.saved = v]
  OBVIOUS
<1>5. /\ c.pc = "sought" /\ UNCHANGED <<tmpTree, tmpData, refData>> /\ UNCHANGED <<tmpFd, listVars>>
      /\ Goes(t, d, refOffset[f])
  BY <1>1, <1>2, <1>3, <1>4 DEF PSave, GoesOn
<1>6. /\ c \in TmpCalls /\ f \in TmpFds /\ tmpFd[f] # Closed /\ v \in Int /\ refOffset[f] \in Int
      /\ ~mixed[f] => /\ Right(c, tmpFd[f].offset, refOffset[f])
                      /\ ListRight(c, listed[f], Children(tmpFd[f].entry), tmpFd[f].pos)
  BY <1>1, <1>2, <1>3, <1>5, WorkIs
<1>7. c \in AtCalls
  BY <1>5, <1>6, CallIs
<1>8. d \in AtCalls /\ d.f = f /\ d.pc = "saved"
  BY <1>2, <1>4, <1>6, <1>7 DEF AtCalls, FileCalls
<1>9. d \in TmpCalls
  BY <1>8, Zenon DEF TmpCalls
<1>10. ASSUME ~mixed[f]
       PROVE  /\ Right(d, tmpFd[f].offset, refOffset[f])
              /\ ListRight(d, listed[f], Children(tmpFd[f].entry), tmpFd[f].pos)
  <2>1. Right(c, tmpFd[f].offset, refOffset[f]) => Right(d, tmpFd[f].offset, refOffset[f])
    BY <1>3, <1>4, <1>5, <1>6, <1>7 DEF Right, AtCalls, FileCalls
  <2>2. ListRight(c, listed[f], Children(tmpFd[f].entry), tmpFd[f].pos)
          => ListRight(d, listed[f], Children(tmpFd[f].entry), tmpFd[f].pos)
    BY <1>5, <1>8 DEF ListRight
  <2> QED BY <1>6, <1>10, <2>1, <2>2
<1>11. tmpThread[t].pc # "idle" /\ tmpThread[t].pc # "sized" /\ tmpThread[t].f = f
  BY <1>1, <1>2, <1>5
<1> QED BY <1>5, <1>6, <1>8, <1>9, <1>10, <1>11, GoesStill

LEMMA PMoveInv ==
  ASSUME TmpInv, NEW t \in TmpThreads, PMove(t)
  PROVE  TmpInv'
<1>1. PICK c : c = tmpThread[t]
  OBVIOUS
<1>2. PICK f : f = c.f
  OBVIOUS
<1>3. /\ c.pc = "saved" /\ UNCHANGED <<tmpTree, tmpData, refData>>
      /\ tmpFd' = [tmpFd EXCEPT ![f].offset = c.off]
      /\ IF c.off < 0 THEN Leaves(t, f)
         ELSE GoesOn(t, [c EXCEPT !.pc = "moved"]) /\ UNCHANGED listVars
  BY <1>1, <1>2 DEF PMove
<1>4. c \in TmpCalls /\ f \in TmpFds /\ c \in AtCalls
  BY <1>1, <1>2, <1>3, WorkIs, CallIs
<1>5. c.off \in Int /\ c.call = "preadwrite"
  BY <1>4 DEF AtCalls, FileCalls
<1>6. tmpThread[t].pc = "saved" /\ tmpThread[t].f = f
  BY <1>1, <1>2, <1>3
<1>7. CASE c.off < 0
  <2>1. Right(tmpThread[t], tmpFd[f].offset, refOffset[f]) => c.off = refOffset[f]
    BY <1>1, <1>3, <1>5, <1>7 DEF Right
  <2> QED BY <1>3, <1>4, <1>5, <1>6, <1>7, <2>1, LeavesOffset
<1>8. CASE ~(c.off < 0)
  <2>1. PICK d : d = [c EXCEPT !.pc = "moved"]
    OBVIOUS
  <2>2. d \in AtCalls /\ d.f = f /\ d.pc = "moved"
    BY <1>2, <1>4, <2>1 DEF AtCalls, FileCalls
  <2>3. d \in TmpCalls
    BY <2>2, Zenon DEF TmpCalls
  <2>4. Right(c, tmpFd[f].offset, refOffset[f]) => Right(d, c.off, refOffset[f])
    BY <1>3, <1>4, <1>5, <1>8, <2>1 DEF Right, AtCalls, FileCalls
  <2> QED BY <1>1, <1>3, <1>4, <1>5, <1>6, <1>8, <2>1, <2>2, <2>3, <2>4, GoesOffset
<1> QED BY <1>7, <1>8

LEMMA PFinishInv ==
  ASSUME TmpInv, NEW t \in TmpThreads, PFinish(t)
  PROVE  TmpInv'
<1>1. PICK c : c = tmpThread[t]
  OBVIOUS
<1>2. PICK f : f = c.f
  OBVIOUS
<1>3. /\ c.pc = "done" /\ UNCHANGED <<tmpTree, tmpData, refData>> /\ Leaves(t, f)
      /\ tmpFd' = [tmpFd EXCEPT ![f].offset = c.saved]
  BY <1>1, <1>2 DEF PFinish, Restored
<1>4. c \in TmpCalls /\ f \in TmpFds /\ c \in AtCalls
  BY <1>1, <1>2, <1>3, WorkIs, CallIs
<1>5. c.off \in Int /\ c.saved \in Int /\ c.call = "preadwrite"
  BY <1>4 DEF AtCalls, FileCalls
<1>6. tmpThread[t].pc = "done" /\ tmpThread[t].f = f
  BY <1>1, <1>2, <1>3
<1>7. Right(tmpThread[t], tmpFd[f].offset, refOffset[f]) => c.saved = refOffset[f]
  BY <1>1, <1>3, <1>5 DEF Right
<1> QED BY <1>3, <1>4, <1>5, <1>6, <1>7, LeavesOffset

-----------------------------------------------------------------------------
(* Seeks, and the start of a pread or pwrite.                              *)
LEMMA QuietBytes ==
  ASSUME TmpInv, NEW e \in TmpNumbers, ~InodeLocked(e)
  PROVE  tmpData[e] = refData[e]
<1>1. TmpTypes /\ BytesKept
  BY DEF TmpInv
<1>2. e \in DOMAIN tmpTree
  BY <1>1, TreeIs
<1> QED BY <1>1, <1>2 DEF BytesKept, InodeLocked

LEMMA LSeekInv ==
  ASSUME TmpInv, NEW t \in TmpThreads, NEW f \in TmpFds, NEW off \in Int, NEW whence \in {"set", "cur", "end"},
         LSeek(t, f, off, whence)
  PROVE  TmpInv'
<1>1. PICK e : e = tmpFd[f].entry
  OBVIOUS
<1> DEFINE Sum(offset, data) == off + CASE whence = "set" -> 0 [] whence = "cur" -> offset
                                        [] whence = "end" -> Len(data[e])
<1>2. PICK v : v = Sum(tmpFd[f].offset, tmpData)
  OBVIOUS
<1>3. PICK r : r = IF whence # "set" /\ Sum(refOffset[f], refData) < 0 THEN refOffset[f]
                   ELSE Sum(refOffset[f], refData)
  OBVIOUS
<1>4. PICK d : d = FileCall("lseek", f, 0, <<>>, 0, v)
  OBVIOUS
<1>5. /\ tmpThread[t] = TmpIdle /\ tmpFd[f] # Closed
      /\ (whence = "end" => ~InodeLocked(e)) /\ (whence # "set" => v >= 0)
      /\ Goes(t, d, r)
      /\ UNCHANGED <<tmpTree, tmpData, refData>> /\ UNCHANGED <<tmpFd, listVars>>
  BY <1>1, <1>2, <1>3, <1>4 DEF LSeek, IsFile
<1>6. /\ tmpThread[t].pc = "idle" /\ e \in TmpNumbers /\ tmpFd[f].offset \in Int /\ refOffset[f] \in Int
      /\ ~mixed[f] /\ AtWork(f) \ {t} = {} =>
           /\ tmpFd[f].offset = refOffset[f]
           /\ Behind(listed[f], Children(tmpFd[f].entry), tmpFd[f].pos)
  BY <1>1, <1>5, StartIs
<1>7. Len(tmpData[e]) \in Int /\ Len(refData[e]) \in Int
  <2>1. tmpData[e] \in Seq(DataBytes) /\ refData[e] \in Seq(DataBytes)
    BY <1>6, TreeIs DEF TmpInv
  <2> QED BY <2>1, LenProperties
<1>8. v \in Int /\ r \in Int
  BY <1>2, <1>3, <1>6, <1>7
<1>9. d \in SeekCalls /\ d.f = f /\ d.pc = "seek" /\ d.call = "lseek" /\ d.val = v
  <2>1. <<>> \in Seq(TmpBytes)
    BY EmptySeq
  <2> QED BY <1>4, <1>8, <2>1 DEF FileCall, SeekCalls, FileCalls
<1>10. d \in TmpCalls
  BY <1>9, Zenon DEF TmpCalls
<1>11. ASSUME ~mixed[f] /\ AtWork(f) \ {t} = {}
       PROVE  /\ Right(d, tmpFd[f].offset, r)
              /\ ListRight(d, listed[f], Children(tmpFd[f].entry), tmpFd[f].pos)
  <2>1. v = r
    <3>1. whence = "end" => tmpData[e] = refData[e]
      BY <1>5, <1>6, QuietBytes
    <3> QED BY <1>2, <1>3, <1>5, <1>6, <1>7, <1>11, <3>1
  <2>2. Right(d, tmpFd[f].offset, r)
    BY <1>9, <2>1 DEF Right
  <2> QED BY <1>6, <1>9, <1>11, <2>2 DEF ListRight
<1> QED BY <1>5, <1>6, <1>8, <1>9, <1>10, <1>11, GoesStill

LEMMA PStartInv ==
  ASSUME TmpInv, NEW t \in TmpThreads, NEW f \in TmpFds, NEW off \in Int, NEW bytes \in Seq(TmpBytes),
         PStart(t, f, off, bytes)
  PROVE  TmpInv'
<1>1. PICK v : v = tmpFd[f].offset
  OBVIOUS
<1>2. PICK r : r = IF off < 0 THEN off ELSE refOffset[f]
  OBVIOUS
<1>3. PICK d : d = FileCall("preadwrite", f, off, bytes, 1, v)
  OBVIOUS
<1>4. /\ tmpThread[t] = TmpIdle /\ tmpFd[f] # Closed /\ Goes(t, d, r)
      /\ UNCHANGED <<tmpTree, tmpData, refData>> /\ UNCHANGED <<tmpFd, listVars>>
  BY <1>1, <1>2, <1>3 DEF PStart, IsFile
<1>5. /\ tmpThread[t].pc = "idle" /\ v \in Int /\ refOffset[f] \in Int
      /\ ~mixed[f] /\ AtWork(f) \ {t} = {} =>
           /\ v = refOffset[f]
           /\ Behind(listed[f], Children(tmpFd[f].entry), tmpFd[f].pos)
  BY <1>1, <1>4, StartIs
<1>6. r \in Int
  BY <1>2, <1>5
<1>7. d \in AtCalls /\ d.f = f /\ d.pc = "seek" /\ d.call = "preadwrite" /\ d.off = off /\ d.val = v
  BY <1>3, <1>5 DEF FileCall, AtCalls, FileCalls
<1>8. d \in TmpCalls
  BY <1>7, Zenon DEF TmpCalls
<1>9. ASSUME ~mixed[f] /\ AtWork(f) \ {t} = {}
      PROVE  /\ Right(d, tmpFd[f].offset, r)
             /\ ListRight(d, listed[f], Children(tmpFd[f].entry), tmpFd[f].pos)
  <2>1. Right(d, tmpFd[f].offset, r)
    BY <1>1, <1>2, <1>5, <1>7, <1>9 DEF Right
  <2> QED BY <1>5, <1>7, <1>9, <2>1 DEF ListRight
<1> QED BY <1>4, <1>5, <1>6, <1>7, <1>8, <1>9, GoesStill

-----------------------------------------------------------------------------
(* The inode is locked: how much there is to read, or the length of the    *)
(* file.                                                                   *)
LEMMA ReadSizeIs ==
  ASSUME NEW data, Len(data) \in Nat, NEW o \in Int, o >= 0, NEW size \in Nat
  PROVE  /\ ReadSize(data, o, size) \in Nat
         /\ o + ReadSize(data, o, size) = IF o + size <= Len(data) THEN o + size
                                          ELSE IF o > Len(data) THEN o ELSE Len(data)
BY DEF ReadSize

LEMMA ResizedType ==
  ASSUME NEW B, 0 \in B, NEW data \in Seq(B), NEW size \in Nat
  PROVE  Resized(data, size) \in Seq(B)
<1>1. CASE size <= Len(data)
  BY <1>1 DEF Resized
<1>2. CASE ~(size <= Len(data))
  <2>1. Len(data) \in Nat /\ size - Len(data) \in Nat
    BY <1>2, LenProperties
  <2>2. Zeros(size - Len(data)) \in Seq(B)
    BY <2>1, SeqDef DEF Zeros
  <2> QED BY <1>2, <2>2, ConcatProperties DEF Resized
<1> QED BY <1>1, <1>2

LEMMA SizedData ==
  ASSUME TmpInv, UNCHANGED <<tmpTree, tmpFd, refData>>, NEW t \in TmpThreads, NEW f \in TmpFds, NEW d,
         tmpThread[t].pc # "sized", tmpThread'[t] = d, d.f = f, d.pc = "sized",
         d.bytes # <<>>, d.n = Len(d.bytes), Len(d.bytes) \in Nat,
         \A u \in TmpThreads \ {t} : tmpThread'[u] = tmpThread[u],
         \A g \in TmpFds \ {f} : mixed'[g] = mixed[g],
         NEW e \in TmpNumbers, e = tmpFd[f].entry, ~InodeLocked(e), tmpFd[f].offset \in Nat,
         tmpData' = [tmpData EXCEPT ![e] = Resized(@, tmpFd[f].offset + Len(d.bytes))]
  PROVE  DataTypes' /\ BytesKept' /\ OneInode' /\ DataSound'
<1>1. TmpTypes /\ DataTypes /\ BytesKept /\ OneInode /\ DataSound
  BY DEF TmpInv, TmpTypes
<1>2. PICK w : w = Resized(tmpData[e], tmpFd[f].offset + Len(d.bytes))
  OBVIOUS
<1>3. /\ tmpData \in Seq(Seq(DataBytes)) /\ tmpData[e] \in Seq(DataBytes) /\ 0 \in DataBytes
      /\ e \in 1 .. Len(tmpData) /\ DOMAIN tmpTree = TmpNumbers /\ DOMAIN tmpData = TmpNumbers
  BY <1>1, TreeIs DEF DataTypes, DataBytes, TmpNumbers
<1>4. w \in Seq(DataBytes)
  <2>1. PICK B : B = DataBytes
    OBVIOUS
  <2>2. tmpFd[f].offset + Len(d.bytes) \in Nat
    OBVIOUS
  <2> QED BY <1>2, <1>3, <2>1, <2>2, ResizedType
<1>5. tmpData' = [tmpData EXCEPT ![e] = w]
  BY <1>2
<1>6. tmpData' \in Seq(Seq(DataBytes)) /\ Len(tmpData') = Len(tmpData)
  BY <1>3, <1>4, <1>5, ExceptSeq
<1>7. tmpData'[e] = w /\ \A a \in TmpNumbers \ {e} : tmpData'[a] = tmpData[a]
  BY <1>3, <1>5
<1>8. DataTypes'
  BY <1>1, <1>6 DEF DataTypes, DataBytes
<1>9. EntryOf(t)' = e
  BY DEF EntryOf
<1>10. ASSUME NEW u \in TmpThreads, u # t, InFile(u)'
       PROVE  /\ InFile(u) /\ tmpThread'[u] = tmpThread[u] /\ EntryOf(u)' = EntryOf(u) /\ EntryOf(u) # e
              /\ tmpThread[u].f \in TmpFds \ {f} /\ EntryOf(u) \in TmpNumbers
  <2>1. tmpThread'[u] = tmpThread[u]
    BY <1>10
  <2>2. InFile(u) /\ EntryOf(u)' = EntryOf(u)
    BY <1>10, <2>1 DEF InFile, EntryOf
  <2>3. EntryOf(u) # e
    BY <2>2 DEF InFile, EntryOf, InodeLocked
  <2>4. tmpThread[u].pc # "idle"
    BY <2>2 DEF InFile
  <2>5. tmpThread[u].f \in TmpFds /\ EntryOf(u) \in TmpNumbers
    <3> PICK c : c = tmpThread[u]
      OBVIOUS
    <3> PICK g : g = c.f
      OBVIOUS
    <3> QED BY <2>4, WorkIs DEF EntryOf
  <2> QED BY <2>1, <2>2, <2>3, <2>5 DEF EntryOf
<1>11. BytesKept'
  <2> SUFFICES ASSUME NEW a \in TmpNumbers,
                      ~\E u \in TmpThreads : tmpThread'[u].pc = "sized" /\ tmpFd[tmpThread'[u].f].entry = a
               PROVE  tmpData'[a] = refData[a]
    BY <1>3 DEF BytesKept
  <2>1. a # e
    OBVIOUS
  <2>2. ASSUME NEW u \in TmpThreads, tmpThread[u].pc = "sized", tmpFd[tmpThread[u].f].entry = a PROVE FALSE
    BY <2>2
  <2> QED BY <1>1, <1>3, <1>7, <2>1, <2>2 DEF BytesKept
<1>12. OneInode'
  <2> SUFFICES ASSUME NEW u \in TmpThreads, NEW v \in TmpThreads, InFile(u)', InFile(v)', EntryOf(u)' = EntryOf(v)'
               PROVE  u = v
    BY DEF OneInode
  <2>1. CASE u # t /\ v # t
    BY <1>1, <1>10, <2>1 DEF OneInode
  <2> QED BY <1>9, <1>10, <2>1
<1>13. DataSound'
  <2> SUFFICES ASSUME NEW u \in TmpThreads, tmpThread'[u].pc = "sized"
               PROVE  /\ tmpThread'[u].bytes # <<>> /\ tmpThread'[u].n = Len(tmpThread'[u].bytes)
                      /\ ~mixed'[tmpThread'[u].f] => tmpData'[EntryOf(u)'] = Grown(u)'
    BY DEF DataSound
  <2>1. CASE u = t
    <3>1. tmpData[e] = refData[e]
      BY QuietBytes
    <3>2. Grown(u)' = w
      BY <1>2, <1>9, <2>1, <3>1 DEF Grown
    <3> QED BY <1>7, <1>9, <2>1, <3>2
  <2>2. CASE u # t
    <3>1. InFile(u)'
      BY DEF InFile
    <3>2. /\ tmpThread'[u] = tmpThread[u] /\ EntryOf(u)' = EntryOf(u) /\ EntryOf(u) \in TmpNumbers \ {e}
          /\ mixed'[tmpThread[u].f] = mixed[tmpThread[u].f]
      BY <1>10, <2>2, <3>1
    <3>3. /\ tmpThread[u].bytes # <<>> /\ tmpThread[u].n = Len(tmpThread[u].bytes)
          /\ ~mixed[tmpThread[u].f] => tmpData[EntryOf(u)] = Grown(u)
      BY <1>1, <3>2 DEF DataSound
    <3>4. Grown(u)' = Grown(u)
      BY <3>2 DEF Grown
    <3> QED BY <1>7, <3>2, <3>3, <3>4
  <2> QED BY <2>1, <2>2
<1> QED BY <1>8, <1>11, <1>12, <1>13

Stepped(c, pc, k) == [c EXCEPT !.pc = pc, !.n = k]
LEMMA FileStep ==
  ASSUME NEW call \in {"readwrite", "preadwrite"}, NEW pc \in {"sized", "copied"}, NEW steps,
         NEW c \in FileCalls(call, steps), NEW k \in Nat, NEW d, d = Stepped(c, pc, k)
  PROVE  /\ d \in TmpCalls /\ d.f = c.f /\ d.pc = pc /\ d.call = call /\ d.n = k
         /\ d.bytes = c.bytes /\ d.off = c.off /\ d.saved = c.saved
<1>1. /\ d \in FileCalls(call, {"sized", "copied"}) /\ d.f = c.f /\ d.pc = pc /\ d.call = call /\ d.n = k
      /\ d.bytes = c.bytes /\ d.off = c.off /\ d.saved = c.saved
  BY DEF FileCalls, Stepped
<1>2. d \in MoveCalls \cup AtCalls
  BY <1>1 DEF FileCalls, MoveCalls, AtCalls
<1> QED BY <1>1, <1>2, Zenon DEF TmpCalls

LEMMA TransferInv ==
  ASSUME TmpInv, UNCHANGED <<tmpTree, refData>>, UNCHANGED <<tmpFd, listVars>>,
         NEW t \in TmpThreads, NEW f \in TmpFds, NEW call \in {"readwrite", "preadwrite"}, NEW steps,
         NEW c \in FileCalls(call, steps), c.f = f, NEW ref \in Int, Transfer(t, c, ref),
         tmpThread[t].pc # "idle" => tmpThread[t].f = f, tmpThread[t].pc # "sized", tmpFd[f] # Closed,
         ~mixed[f] /\ AtWork(f) \ {t} = {} =>
           /\ Behind(listed[f], Children(tmpFd[f].entry), tmpFd[f].pos)
           /\ IF call = "preadwrite" THEN c.off >= 0 /\ c.saved = ref /\ tmpFd[f].offset = c.off
              ELSE ref = IF c.bytes # <<>> THEN tmpFd[f].offset
                         ELSE tmpFd[f].offset + ReadSize(tmpData[tmpFd[f].entry], tmpFd[f].offset, c.n)
  PROVE  TmpInv'
<1>1. PICK e : e = tmpFd[f].entry
  OBVIOUS
<1>2. TmpTypes /\ DataTypes
  BY DEF TmpInv, TmpTypes
<1>3. /\ tmpFd[f] \in OpenFiles /\ e \in TmpNumbers /\ tmpFd[f].offset \in Int
      /\ tmpFd[f].pos \in Children(e) \cup {0}
  BY <1>1, <1>2, FdIs, Alone
<1>4. ~InodeLocked(e) /\ tmpFd[f].offset >= 0
  BY <1>1 DEF Transfer
<1>5. c.n \in Nat /\ c.bytes \in Seq(TmpBytes) /\ c.off \in Int /\ Len(c.bytes) \in Nat
  <2>1. c.n \in Nat /\ c.bytes \in Seq(TmpBytes) /\ c.off \in Int
    BY DEF FileCalls
  <2> QED BY <2>1, LenProperties
<1>6. CASE c.bytes = <<>>
  <2>1. PICK k : k = ReadSize(tmpData[e], tmpFd[f].offset, c.n)
    OBVIOUS
  <2>2. k \in Nat
    <3>1. tmpData[e] \in Seq(DataBytes)
      BY <1>2, <1>3, TreeIs
    <3>2. Len(tmpData[e]) \in Nat
      BY <3>1, LenProperties
    <3> QED BY <1>3, <1>4, <1>5, <2>1, <3>2, ReadSizeIs
  <2> PICK pc : pc = "copied"
    OBVIOUS
  <2>3. PICK d : d = Stepped(c, pc, k)
    OBVIOUS
  <2>4. Goes(t, d, ref) /\ UNCHANGED tmpData
    BY <1>1, <1>6, <2>1, <2>3 DEF Transfer, Stepped
  <2>5. d \in TmpCalls /\ d.f = f /\ d.pc = "copied" /\ d.call = call /\ d.n = k /\ d.off = c.off /\ d.saved = c.saved
    BY <2>2, <2>3, FileStep
  <2>6. ASSUME ~mixed[f] /\ AtWork(f) \ {t} = {}
        PROVE  /\ Right(d, tmpFd[f].offset, ref)
               /\ ListRight(d, listed[f], Children(tmpFd[f].entry), tmpFd[f].pos)
    <3>1. Right(d, tmpFd[f].offset, ref)
      BY <1>1, <1>6, <2>1, <2>5, <2>6 DEF Right
    <3> QED BY <2>5, <2>6, <3>1 DEF ListRight
  <2> QED BY <1>1, <1>4, <2>4, <2>5, <2>6, GoesStill
<1>7. CASE c.bytes # <<>>
  <2>1. PICK k : k = Len(c.bytes)
    OBVIOUS
  <2> PICK pc : pc = "sized"
    OBVIOUS
  <2>2. PICK d : d = Stepped(c, pc, k)
    OBVIOUS
  <2>3. Goes(t, d, ref) /\ tmpData' = [tmpData EXCEPT ![e] = Resized(@, tmpFd[f].offset + k)]
    BY <1>1, <1>7, <2>1, <2>2 DEF Transfer, Stepped
  <2>4. /\ d \in TmpCalls /\ d.f = f /\ d.pc = "sized" /\ d.call = call /\ d.n = k
        /\ d.bytes = c.bytes /\ d.off = c.off /\ d.saved = c.saved
    BY <1>5, <2>1, <2>2, FileStep
  <2>5. Went(t, d, f, ref)
    BY <1>2, <2>3, <2>4, GoesIs
  <2>6. DataTypes' /\ BytesKept' /\ OneInode' /\ DataSound'
    <3>1. /\ tmpThread'[t] = d /\ \A u \in TmpThreads \ {t} : tmpThread'[u] = tmpThread[u]
          /\ \A g \in TmpFds \ {f} : mixed'[g] = mixed[g]
      BY <2>5 DEF Went
    <3>2. tmpFd[f].offset \in Nat
      BY <1>3, <1>4
    <3>3. d.bytes # <<>> /\ d.n = Len(d.bytes) /\ Len(d.bytes) \in Nat
      BY <1>5, <1>7, <2>1, <2>4
    <3>4. tmpData' = [tmpData EXCEPT ![e] = Resized(@, tmpFd[f].offset + Len(d.bytes))]
      BY <2>1, <2>3, <2>4
    <3> QED BY <1>1, <1>3, <1>4, <2>4, <3>1, <3>2, <3>3, <3>4, SizedData
  <2>7. PICK x : x = tmpFd[f]
    OBVIOUS
  <2>8. Moves(f, x)
    BY <1>1, <1>2, <1>3, <2>7 DEF TmpTypes, Moves
  <2>9. listed' = listed /\ again' = again
    BY DEF listVars
  <2>10. Lists(f)
    BY <1>2, <2>9 DEF TmpTypes, Lists
  <2>11. ASSUME ~mixed'[f]
         PROVE  /\ ~again'[f] /\ Right(d, x.offset, ref)
                /\ ListRight(d, listed'[f], Children(x.entry), x.pos)
    <3>1. ~mixed[f] /\ AtWork(f) \ {t} = {}
      BY <2>3, <2>4, <2>11, Overlaps
    <3>2. ~again[f]
      BY <3>1, Alone
    <3>3. Right(d, tmpFd[f].offset, ref)
      BY <1>7, <2>4, <3>1 DEF Right
    <3>4. ListRight(d, listed[f], Children(tmpFd[f].entry), tmpFd[f].pos)
      BY <2>4, <3>1 DEF ListRight
    <3> QED BY <2>7, <2>9, <3>2, <3>3, <3>4
  <2> QED BY <2>3, <2>4, <2>6, <2>8, <2>10, <2>11, GoesInv
<1> QED BY <1>6, <1>7

LEMMA ReadWriteInv ==
  ASSUME TmpInv, NEW t \in TmpThreads, NEW f \in TmpFds, NEW bytes \in Seq(TmpBytes), NEW n \in Nat,
         ReadWrite(t, f, bytes, n)
  PROVE  TmpInv'
<1>1. PICK e : e = tmpFd[f].entry
  OBVIOUS
<1>2. PICK end : end = Len(refData[e])
  OBVIOUS
<1>3. PICK ref : ref = IF bytes # <<>> THEN refOffset[f]
                       ELSE IF refOffset[f] + n <= end THEN refOffset[f] + n
                       ELSE IF refOffset[f] > end THEN refOffset[f] ELSE end
  OBVIOUS
<1>4. PICK c : c = FileCall("readwrite", f, 0, bytes, n, 0)
  OBVIOUS
<1>5. /\ tmpThread[t] = TmpIdle /\ tmpFd[f] # Closed /\ Transfer(t, c, ref)
      /\ UNCHANGED <<tmpTree, refData>> /\ UNCHANGED <<tmpFd, listVars>>
  BY <1>1, <1>2, <1>3, <1>4 DEF ReadWrite, IsFile
<1>6. /\ tmpThread[t].pc = "idle" /\ e \in TmpNumbers /\ tmpFd[f].offset \in Int /\ refOffset[f] \in Int
      /\ ~mixed[f] /\ AtWork(f) \ {t} = {} =>
           /\ tmpFd[f].offset = refOffset[f]
           /\ Behind(listed[f], Children(tmpFd[f].entry), tmpFd[f].pos)
  BY <1>1, <1>5, StartIs
<1>7. PICK call : call = "readwrite"
  OBVIOUS
<1>8. PICK steps : steps = {"seek"}
  OBVIOUS
<1>9. c \in FileCalls(call, steps) /\ c.f = f /\ c.bytes = bytes /\ c.n = n
  BY <1>4, <1>7, <1>8 DEF FileCall, FileCalls
<1>10. ~InodeLocked(e) /\ tmpFd[f].offset >= 0
  BY <1>1, <1>5, <1>9 DEF Transfer
<1>11. tmpData[e] = refData[e]
  BY <1>6, <1>10, QuietBytes
<1>12. end \in Nat /\ Len(tmpData[e]) = end
  <2>1. refData[e] \in Seq(DataBytes)
    BY <1>6, TreeIs DEF TmpInv
  <2> QED BY <1>2, <1>11, <2>1, LenProperties
<1>13. ref \in Int
  BY <1>3, <1>6, <1>12
<1>14. ASSUME ~mixed[f] /\ AtWork(f) \ {t} = {}
       PROVE  /\ Behind(listed[f], Children(tmpFd[f].entry), tmpFd[f].pos)
              /\ ref = IF c.bytes # <<>> THEN tmpFd[f].offset
                       ELSE tmpFd[f].offset + ReadSize(tmpData[tmpFd[f].entry], tmpFd[f].offset, c.n)
  <2>1. tmpFd[f].offset + ReadSize(tmpData[e], tmpFd[f].offset, n)
          = IF tmpFd[f].offset + n <= end THEN tmpFd[f].offset + n
            ELSE IF tmpFd[f].offset > end THEN tmpFd[f].offset ELSE end
    <3> PICK o : o = tmpFd[f].offset
      OBVIOUS
    <3> PICK data : data = tmpData[e]
      OBVIOUS
    <3> QED BY <1>6, <1>10, <1>12, ReadSizeIs
  <2> QED BY <1>1, <1>3, <1>6, <1>9, <1>14, <2>1
<1> QED BY <1>5, <1>6, <1>7, <1>9, <1>13, <1>14, TransferInv

LEMMA PTransferInv ==
  ASSUME TmpInv, NEW t \in TmpThreads, PTransfer(t)
  PROVE  TmpInv'
<1>1. PICK c : c = tmpThread[t]
  OBVIOUS
<1>2. PICK f : f = c.f
  OBVIOUS
<1>3. PICK ref : ref = refOffset[f]
  OBVIOUS
<1>4. /\ c.pc = "moved" /\ Transfer(t, c, ref)
      /\ UNCHANGED <<tmpTree, refData>> /\ UNCHANGED <<tmpFd, listVars>>
  BY <1>1, <1>2, <1>3 DEF PTransfer
<1>5. /\ c \in TmpCalls /\ f \in TmpFds /\ tmpFd[f] # Closed /\ ref \in Int
      /\ ~mixed[f] => /\ Right(c, tmpFd[f].offset, ref)
                      /\ ListRight(c, listed[f], Children(tmpFd[f].entry), tmpFd[f].pos)
  BY <1>1, <1>2, <1>3, <1>4, WorkIs
<1>6. PICK call : call = "preadwrite"
  OBVIOUS
<1>7. PICK steps : steps = {"seek", "sought", "saved", "moved", "sized", "copied", "moving", "done"}
  OBVIOUS
<1>8. c \in FileCalls(call, steps) /\ c.call = call
  <2>1. c \in AtCalls
    BY <1>4, <1>5, CallIs
  <2> QED BY <1>6, <1>7, <2>1 DEF AtCalls, FileCalls
<1>9. ASSUME ~mixed[f]
      PROVE  /\ Behind(listed[f], Children(tmpFd[f].entry), tmpFd[f].pos)
             /\ c.off >= 0 /\ c.saved = ref /\ tmpFd[f].offset = c.off
  BY <1>4, <1>5, <1>6, <1>8, <1>9 DEF Right, ListRight
<1>10. tmpThread[t].pc = "moved" /\ tmpThread[t].f = f
  BY <1>1, <1>2, <1>4
<1> QED BY <1>2, <1>4, <1>5, <1>6, <1>8, <1>9, <1>10, TransferInv

(* The bytes are copied, and are what the reference makes of them.         *)
LEMMA CopiedType ==
  ASSUME NEW B, NEW data \in Seq(B), NEW offset \in Int, NEW bytes \in Seq(B)
  PROVE  Copied(data, offset, bytes) \in Seq(B)
<1>1. Len(data) \in Nat /\ DOMAIN data = 1 .. Len(data) /\ (\A i \in 1 .. Len(data) : data[i] \in B)
  BY LenProperties, ElementOfSeq
<1>2. \A j \in DOMAIN bytes : bytes[j] \in B
  BY LenProperties, ElementOfSeq
<1>3. Copied(data, offset, bytes) \in [1 .. Len(data) -> B]
  BY <1>1, <1>2 DEF Copied
<1> QED BY <1>1, <1>3, SeqDef

LEMMA CopiedData ==
  ASSUME TmpInv, UNCHANGED <<tmpTree, tmpFd>>, NEW t \in TmpThreads, NEW f \in TmpFds, NEW d,
         tmpThread[t].pc = "sized", tmpThread[t].f = f, tmpThread'[t] = d, d.f = f, d.pc = "copied",
         \A u \in TmpThreads \ {t} : tmpThread'[u] = tmpThread[u],
         \A g \in TmpFds \ {f} : mixed'[g] = mixed[g],
         NEW e \in TmpNumbers, e = tmpFd[f].entry, NEW w \in Seq(DataBytes),
         tmpData' = [tmpData EXCEPT ![e] = w], refData' = [refData EXCEPT ![e] = w]
  PROVE  DataTypes' /\ BytesKept' /\ OneInode' /\ DataSound'
<1>1. TmpTypes /\ DataTypes /\ BytesKept /\ OneInode /\ DataSound
  BY DEF TmpInv, TmpTypes
<1>2. /\ tmpData \in Seq(Seq(DataBytes)) /\ e \in 1 .. Len(tmpData)
      /\ refData \in Seq(Seq(DataBytes)) /\ e \in 1 .. Len(refData)
      /\ DOMAIN tmpTree = TmpNumbers /\ DOMAIN tmpData = TmpNumbers /\ DOMAIN refData = TmpNumbers
  BY <1>1, TreeIs DEF DataTypes, TmpNumbers
<1>3. /\ tmpData' \in Seq(Seq(DataBytes)) /\ Len(tmpData') = Len(tmpData)
      /\ refData' \in Seq(Seq(DataBytes)) /\ Len(refData') = Len(refData)
  BY <1>2, ExceptSeq
<1>4. DataTypes'
  BY <1>1, <1>3 DEF DataTypes, DataBytes
<1>5. /\ tmpData'[e] = w /\ \A a \in TmpNumbers \ {e} : tmpData'[a] = tmpData[a]
      /\ refData'[e] = w /\ \A a \in TmpNumbers \ {e} : refData'[a] = refData[a]
  BY <1>2
<1>6. EntryOf(t)' = e /\ EntryOf(t) = e /\ InFile(t)
  BY DEF EntryOf, InFile
<1>7. ASSUME NEW u \in TmpThreads, u # t, InFile(u)'
      PROVE  /\ InFile(u) /\ tmpThread'[u] = tmpThread[u] /\ EntryOf(u)' = EntryOf(u) /\ EntryOf(u) # e
             /\ tmpThread[u].f \in TmpFds \ {f} /\ EntryOf(u) \in TmpNumbers
  <2>1. tmpThread'[u] = tmpThread[u]
    BY <1>7
  <2>2. InFile(u) /\ EntryOf(u)' = EntryOf(u)
    BY <1>7, <2>1 DEF InFile, EntryOf
  <2>3. EntryOf(u) # e
    BY <1>1, <1>6, <1>7, <2>2 DEF OneInode
  <2>4. tmpThread[u].pc # "idle"
    BY <2>2 DEF InFile
  <2>5. tmpThread[u].f \in TmpFds /\ EntryOf(u) \in TmpNumbers
    <3> PICK c : c = tmpThread[u]
      OBVIOUS
    <3> PICK g : g = c.f
      OBVIOUS
    <3> QED BY <2>4, WorkIs DEF EntryOf
  <2> QED BY <2>1, <2>2, <2>3, <2>5 DEF EntryOf
<1>8. BytesKept'
  <2> SUFFICES ASSUME NEW a \in TmpNumbers,
                      ~\E u \in TmpThreads : tmpThread'[u].pc = "sized" /\ tmpFd[tmpThread'[u].f].entry = a
               PROVE  tmpData'[a] = refData'[a]
    BY <1>2 DEF BytesKept
  <2>1. CASE a = e
    BY <1>5, <2>1
  <2>2. CASE a # e
    <3>1. ASSUME NEW u \in TmpThreads, tmpThread[u].pc = "sized", tmpFd[tmpThread[u].f].entry = a PROVE FALSE
      <4>1. u # t
        BY <2>2, <3>1
      <4> QED BY <3>1, <4>1
    <3> QED BY <1>1, <1>2, <1>5, <2>2, <3>1 DEF BytesKept
  <2> QED BY <2>1, <2>2
<1>9. OneInode'
  <2> SUFFICES ASSUME NEW u \in TmpThreads, NEW v \in TmpThreads, InFile(u)', InFile(v)', EntryOf(u)' = EntryOf(v)'
               PROVE  u = v
    BY DEF OneInode
  <2>1. CASE u # t /\ v # t
    BY <1>1, <1>7, <2>1 DEF OneInode
  <2> QED BY <1>6, <1>7, <2>1
<1>10. DataSound'
  <2> SUFFICES ASSUME NEW u \in TmpThreads, tmpThread'[u].pc = "sized"
               PROVE  /\ tmpThread'[u].bytes # <<>> /\ tmpThread'[u].n = Len(tmpThread'[u].bytes)
                      /\ ~mixed'[tmpThread'[u].f] => tmpData'[EntryOf(u)'] = Grown(u)'
    BY DEF DataSound
  <2>1. u # t
    OBVIOUS
  <2>2. InFile(u)'
    BY DEF InFile
  <2>3. /\ tmpThread'[u] = tmpThread[u] /\ EntryOf(u)' = EntryOf(u) /\ EntryOf(u) \in TmpNumbers \ {e}
        /\ mixed'[tmpThread[u].f] = mixed[tmpThread[u].f]
    BY <1>7, <2>1, <2>2
  <2>4. /\ tmpThread[u].bytes # <<>> /\ tmpThread[u].n = Len(tmpThread[u].bytes)
        /\ ~mixed[tmpThread[u].f] => tmpData[EntryOf(u)] = Grown(u)
    BY <1>1, <2>3 DEF DataSound
  <2>5. Grown(u)' = Grown(u)
    BY <1>5, <2>3 DEF Grown
  <2> QED BY <1>5, <2>3, <2>4, <2>5
<1> QED BY <1>4, <1>8, <1>9, <1>10

LEMMA CopyInv ==
  ASSUME TmpInv, NEW t \in TmpThreads, Copy(t)
  PROVE  TmpInv'
<1>1. PICK c : c = tmpThread[t]
  OBVIOUS
<1>2. PICK f : f = c.f
  OBVIOUS
<1>3. PICK e : e = tmpFd[f].entry
  OBVIOUS
<1>4. PICK o : o = tmpFd[f].offset
  OBVIOUS
<1>5. PICK r : r = refOffset[f]
  OBVIOUS
<1>6. PICK ref : ref = IF c.call = "readwrite" THEN r + Len(c.bytes) ELSE r
  OBVIOUS
<1>7. PICK d : d = [c EXCEPT !.pc = "copied"]
  OBVIOUS
<1>8. PICK w : w = Copied(tmpData[e], o, c.bytes)
  OBVIOUS
<1>9. /\ c.pc = "sized" /\ 0 <= o
      /\ tmpData' = [tmpData EXCEPT ![e] = w]
      /\ refData' = [refData EXCEPT ![e] =
           IF mixed[f] THEN tmpData'[e] ELSE RefWritten(@, IF c.call = "readwrite" THEN r ELSE c.off, c.bytes)]
      /\ Goes(t, d, ref) /\ UNCHANGED tmpTree /\ UNCHANGED <<tmpFd, listVars>>
  BY <1>1, <1>2, <1>3, <1>4, <1>5, <1>6, <1>7, <1>8 DEF Copy
<1>10. /\ c \in TmpCalls /\ f \in TmpFds /\ tmpFd[f] # Closed /\ tmpFd[f] \in OpenFiles
       /\ e \in TmpNumbers /\ o \in Int /\ r \in Int
       /\ tmpFd[f].pos \in Children(e) \cup {0}
       /\ ~mixed[f] => /\ ~again[f] /\ Right(c, o, r)
                       /\ ListRight(c, listed[f], Children(tmpFd[f].entry), tmpFd[f].pos)
  BY <1>1, <1>2, <1>3, <1>4, <1>5, <1>9, WorkIs
<1>11. c \in MoveCalls \cup AtCalls
  BY <1>9, <1>10, CallIs
<1>12. /\ c.bytes \in Seq(TmpBytes) /\ c.off \in Int
       /\ d \in MoveCalls \cup AtCalls /\ d.f = f /\ d.pc = "copied" /\ d.call = c.call /\ d.n = c.n
       /\ d.off = c.off /\ d.saved = c.saved /\ c.call \in {"readwrite", "preadwrite"}
  <2>1. CASE c \in MoveCalls
    BY <1>2, <1>7, <2>1 DEF MoveCalls, FileCalls
  <2>2. CASE c \in AtCalls
    BY <1>2, <1>7, <1>9, <2>2 DEF AtCalls, FileCalls
  <2> QED BY <1>11, <2>1, <2>2
<1>13. d \in TmpCalls
  BY <1>12, Zenon DEF TmpCalls
<1>14. Len(c.bytes) \in Nat /\ c.bytes \in Seq(DataBytes) /\ o \in Nat
  <2>1. c.bytes \in Seq(DataBytes)
    BY <1>12, LenProperties, ElementOfSeq, SeqDef DEF DataBytes
  <2> QED BY <1>9, <1>10, <2>1, LenProperties
<1>15. ref \in Int
  BY <1>6, <1>10, <1>14
<1>16. TmpTypes /\ DataSound
  BY DEF TmpInv
<1>17. tmpData[e] \in Seq(DataBytes) /\ refData[e] \in Seq(DataBytes) /\ 0 \in DataBytes
  BY <1>10, <1>16, TreeIs DEF DataBytes
<1>18. w \in Seq(DataBytes)
  <2> PICK B : B = DataBytes
    OBVIOUS
  <2> QED BY <1>8, <1>10, <1>14, <1>17, CopiedType
<1>19. tmpData'[e] = w
  BY <1>9, <1>10, <1>16, TreeIs
<1>20. c.bytes # <<>> /\ c.n = Len(c.bytes) /\ (~mixed[f] => tmpData[e] = Resized(refData[e], o + Len(c.bytes)))
  BY <1>1, <1>2, <1>3, <1>4, <1>9, <1>16 DEF DataSound, Grown, EntryOf
<1>21. ASSUME ~mixed[f] PROVE RefWritten(refData[e], IF c.call = "readwrite" THEN r ELSE c.off, c.bytes) = w
  <2>1. o = IF c.call = "readwrite" THEN r ELSE c.off
    BY <1>9, <1>10, <1>12, <1>21 DEF Right
  <2>2. Copied(Resized(refData[e], o + Len(c.bytes)), o, c.bytes) = RefWritten(refData[e], o, c.bytes)
    <3> PICK B : B = DataBytes
      OBVIOUS
    <3> PICK bytes : bytes = c.bytes
      OBVIOUS
    <3> QED BY <1>14, <1>17, <1>20, WrittenIs
  <2> QED BY <1>8, <1>20, <1>21, <2>1, <2>2
<1>22. refData' = [refData EXCEPT ![e] = w]
  BY <1>9, <1>19, <1>21
<1>23. Went(t, d, f, ref)
  BY <1>1, <1>2, <1>9, <1>10, <1>12, <1>13, <1>15, <1>16, GoesIs
<1>24. DataTypes' /\ BytesKept' /\ OneInode' /\ DataSound'
  <2>1. /\ tmpThread'[t] = d /\ \A u \in TmpThreads \ {t} : tmpThread'[u] = tmpThread[u]
        /\ \A g \in TmpFds \ {f} : mixed'[g] = mixed[g]
    BY <1>23 DEF Went
  <2>2. tmpThread[t].pc = "sized" /\ tmpThread[t].f = f /\ UNCHANGED <<tmpTree, tmpFd>>
    BY <1>1, <1>2, <1>9
  <2>3. tmpData' = [tmpData EXCEPT ![e] = w] /\ f \in TmpFds /\ e \in TmpNumbers /\ d.f = f /\ d.pc = "copied"
    BY <1>9, <1>10, <1>12
  <2> QED BY <1>3, <1>18, <1>22, <2>1, <2>2, <2>3, CopiedData
<1>25. PICK x : x = tmpFd[f]
  OBVIOUS
<1>26. Moves(f, x)
  BY <1>3, <1>9, <1>10, <1>16, <1>25 DEF TmpTypes, Moves
<1>27. listed' = listed /\ again' = again
  BY <1>9 DEF listVars
<1>28. Lists(f)
  BY <1>16, <1>27 DEF TmpTypes, Lists
<1>29. ASSUME ~mixed'[f]
       PROVE  /\ ~again'[f] /\ Right(d, x.offset, ref)
              /\ ListRight(d, listed'[f], Children(x.entry), x.pos)
  <2>1. ~mixed[f]
    BY <1>9, <1>10, <1>12, <1>13, <1>29, Overlaps
  <2>2. Right(c, o, r) => Right(d, o, ref)
    BY <1>6, <1>9, <1>10, <1>12, <1>14, <1>20 DEF Right
  <2>3. ListRight(c, listed[f], Children(tmpFd[f].entry), tmpFd[f].pos)
          => ListRight(d, listed[f], Children(tmpFd[f].entry), tmpFd[f].pos)
    BY <1>9, <1>12 DEF ListRight
  <2> QED BY <1>4, <1>10, <1>25, <1>27, <2>1, <2>2, <2>3
<1>30. tmpThread[t].f = f
  BY <1>1, <1>2
<1> QED BY <1>9, <1>10, <1>12, <1>13, <1>15, <1>24, <1>26, <1>28, <1>29, <1>30, GoesInv

-----------------------------------------------------------------------------
(* Listings.                                                               *)
LEMMA GetDentsInv ==
  ASSUME TmpInv, NEW t \in TmpThreads, NEW f \in TmpFds, NEW room \in Nat, GetDents(t, f, room)
  PROVE  TmpInv'
<1>1. PICK p : p = tmpFd[f].pos
  OBVIOUS
<1>2. PICK d : d = [pc |-> "readdir", call |-> "getdents", f |-> f, room |-> room, ptr |-> p]
  OBVIOUS
<1>3. PICK r : r = refOffset[f]
  OBVIOUS
<1>4. /\ tmpThread[t] = TmpIdle /\ tmpFd[f] # Closed /\ Goes(t, d, r)
      /\ UNCHANGED <<tmpTree, tmpData, refData>> /\ UNCHANGED <<tmpFd, listVars>>
  BY <1>1, <1>2, <1>3 DEF GetDents, GoesOn
<1>5. /\ tmpThread[t].pc = "idle" /\ r \in Int /\ p \in Children(tmpFd[f].entry) \cup {0}
      /\ ~mixed[f] /\ AtWork(f) \ {t} = {} =>
           /\ tmpFd[f].offset = r /\ Behind(listed[f], Children(tmpFd[f].entry), p)
  BY <1>1, <1>3, <1>4, StartIs
<1>6. p \in TmpNumbers \cup {0}
  BY <1>5, TreeIs DEF TmpInv
<1>7. d \in ListCalls /\ d.f = f /\ d.pc = "readdir" /\ d.call = "getdents" /\ d.ptr = p
  BY <1>2, <1>6 DEF ListCalls
<1>8. d \in TmpCalls
  BY <1>7, Zenon DEF TmpCalls
<1>9. ASSUME ~mixed[f] /\ AtWork(f) \ {t} = {}
      PROVE  /\ Right(d, tmpFd[f].offset, r)
             /\ ListRight(d, listed[f], Children(tmpFd[f].entry), tmpFd[f].pos)
  BY <1>1, <1>5, <1>7, <1>9 DEF Right, ListRight
<1> QED BY <1>4, <1>5, <1>7, <1>8, <1>9, GoesStill

LEMMA TellDirInv ==
  ASSUME TmpInv, NEW t \in TmpThreads, TellDir(t)
  PROVE  TmpInv'
<1>1. PICK c : c = tmpThread[t]
  OBVIOUS
<1>2. PICK f : f = c.f
  OBVIOUS
<1>3. PICK p : p = tmpFd[f].pos
  OBVIOUS
<1>4. PICK d : d = [c EXCEPT !.pc = "readdir", !.ptr = p]
  OBVIOUS
<1>5. PICK r : r = refOffset[f]
  OBVIOUS
<1>6. /\ c.pc = "telldir" /\ Goes(t, d, r)
      /\ UNCHANGED <<tmpTree, tmpData, refData>> /\ UNCHANGED <<tmpFd, listVars>>
  BY <1>1, <1>2, <1>3, <1>4, <1>5 DEF TellDir, GoesOn
<1>7. /\ c \in TmpCalls /\ f \in TmpFds /\ tmpFd[f] # Closed /\ r \in Int
      /\ p \in Children(tmpFd[f].entry) \cup {0}
      /\ ~mixed[f] => /\ Right(c, tmpFd[f].offset, r)
                      /\ ListRight(c, listed[f], Children(tmpFd[f].entry), p)
  BY <1>1, <1>2, <1>3, <1>5, <1>6, WorkIs
<1>8. p \in TmpNumbers \cup {0}
  BY <1>7, TreeIs DEF TmpInv
<1>9. c \in ListCalls
  BY <1>6, <1>7, CallIs
<1>10. d \in ListCalls /\ d.f = f /\ d.pc = "readdir" /\ d.call = "getdents" /\ d.ptr = p /\ c.call = "getdents"
  BY <1>2, <1>4, <1>8, <1>9 DEF ListCalls
<1>11. d \in TmpCalls
  BY <1>10, Zenon DEF TmpCalls
<1>12. ASSUME ~mixed[f]
       PROVE  /\ Right(d, tmpFd[f].offset, r)
              /\ ListRight(d, listed[f], Children(tmpFd[f].entry), tmpFd[f].pos)
  BY <1>3, <1>6, <1>7, <1>10, <1>12 DEF Right, ListRight
<1>13. tmpThread[t].pc = "telldir" /\ tmpThread[t].f = f
  BY <1>1, <1>2, <1>6
<1> QED BY <1>6, <1>7, <1>10, <1>11, <1>12, <1>13, GoesStill

(* The next position is behind the entry that has been taken.              *)
After(C, p) == Smallest({e \in C : e > p})
From(C, p) == Smallest({e \in C : e >= p})
LEMMA NextIs ==
  ASSUME NEW C \in SUBSET Nat, NEW p \in Nat
  PROVE  /\ After(C, p) \in C \cup {0} /\ (After(C, p) # 0 => After(C, p) > p)
         /\ (\A e \in C : e > p => After(C, p) # 0 /\ After(C, p) <= e) \/ 0 \in C
         /\ From(C, p) \in C \cup {0} /\ (p \in C => From(C, p) = p)
<1> DEFINE A == {e \in C : e > p}
           B == {e \in C : e >= p}
<1>1. A \in SUBSET Nat /\ B \in SUBSET Nat
  OBVIOUS
<1>2. After(C, p) = Smallest(A) /\ From(C, p) = Smallest(B)
  BY DEF After, From
<1>3. PICK a : a = Smallest(A)
  OBVIOUS
<1>4. PICK b : b = Smallest(B)
  OBVIOUS
<1>5. /\ A = {} => a = 0
      /\ A # {} => a \in A /\ \A y \in A : a <= y
      /\ B = {} => b = 0
      /\ B # {} => b \in B /\ \A y \in B : b <= y
  <2> HIDE DEF A, B
  <2> QED BY <1>1, <1>3, <1>4, SmallestIs
<1>6. a \in C \cup {0} /\ (a # 0 => a > p) /\ ((\A e \in C : e > p => a # 0 /\ a <= e) \/ 0 \in C)
  BY <1>5
<1>7. b \in C \cup {0}
  BY <1>5
<1>8. p \in C => b = p
  <2> SUFFICES ASSUME p \in C PROVE b = p
    OBVIOUS
  <2>1. p \in B
    OBVIOUS
  <2>2. b \in B /\ b <= p
    BY <1>5, <2>1
  <2>3. b \in Nat /\ b >= p
    BY <2>2
  <2> QED BY <2>2, <2>3
<1> HIDE DEF A, B
<1> QED BY <1>2, <1>3, <1>4, <1>6, <1>7, <1>8

LEMMA BehindMoves ==
  ASSUME NEW S \in SUBSET Nat, NEW C \in SUBSET Nat, 0 \notin C, NEW p \in Nat, p # 0, Behind(S, C, p)
  PROVE  (\A x \in S : x < p) /\ Behind(S \cup {p}, C, After(C, p))
<1>1. PICK q : q = After(C, p)
  OBVIOUS
<1>2. q \in C \cup {0} /\ (q # 0 => q > p) /\ \A e \in C : e > p => q # 0 /\ q <= e
  BY <1>1, NextIs
<1>3. q \in Nat
  BY <1>2
<1>4. (\A x \in S : x < p) /\ (\A e \in C : e < p => e \in S)
  BY DEF Behind
<1>5. ASSUME q # 0, NEW x \in S \cup {p} PROVE x < q
  BY <1>2, <1>3, <1>4, <1>5
<1>6. ASSUME q # 0, NEW e \in C, e < q PROVE e \in S \cup {p}
  <2>1. ~(e > p)
    BY <1>2, <1>3, <1>6
  <2>2. e < p \/ e = p
    BY <2>1
  <2> QED BY <1>4, <2>2
<1>7. Behind(S \cup {p}, C, q)
  BY <1>5, <1>6 DEF Behind
<1> QED BY <1>1, <1>4, <1>7

LEMMA ReadDirInv ==
  ASSUME TmpInv, NEW t \in TmpThreads, ReadDir(t)
  PROVE  TmpInv'
<1>1. PICK c : c = tmpThread[t]
  OBVIOUS
<1>2. PICK f : f = c.f
  OBVIOUS
<1>3. PICK p : p = tmpFd[f].pos
  OBVIOUS
<1>4. PICK C : C = Children(tmpFd[f].entry)
  OBVIOUS
<1>5. PICK q : q = IF p = 0 THEN 0 ELSE After(C, p)
  OBVIOUS
<1>6. PICK taken : taken = (p # 0 /\ c.room > 0)
  OBVIOUS
<1>7. PICK d : d = IF taken THEN [c EXCEPT !.pc = "telldir", !.room = @ - 1] ELSE [c EXCEPT !.pc = "seekdir"]
  OBVIOUS
<1>8. PICK r : r = refOffset[f]
  OBVIOUS
<1>9. /\ c.pc = "readdir" /\ Goes(t, d, r) /\ UNCHANGED <<tmpTree, tmpData, refData>>
      /\ tmpFd' = IF p = 0 THEN tmpFd ELSE [tmpFd EXCEPT ![f].pos = q]
      /\ listed' = IF taken THEN [listed EXCEPT ![f] = @ \cup {p}] ELSE listed
      /\ again' = IF taken THEN [again EXCEPT ![f] = @ \/ \E e \in listed[f] : e >= p] ELSE again
  <2>1. c.pc = "readdir" /\ UNCHANGED <<tmpTree, tmpData, refData>>
    BY <1>1 DEF ReadDir
  <2>2. Goes(t, d, r)
    <3>1. GoesOn(t, IF taken THEN [c EXCEPT !.pc = "telldir", !.room = @ - 1] ELSE [c EXCEPT !.pc = "seekdir"])
      BY <1>1, <1>2, <1>3, <1>6 DEF ReadDir
    <3>2. CASE taken
      BY <1>2, <1>7, <1>8, <3>1, <3>2 DEF GoesOn
    <3>3. CASE ~taken
      BY <1>2, <1>7, <1>8, <3>1, <3>3 DEF GoesOn
    <3> QED BY <3>2, <3>3
  <2>3. tmpFd' = IF p = 0 THEN tmpFd ELSE [tmpFd EXCEPT ![f].pos = q]
    BY <1>1, <1>2, <1>3, <1>4, <1>5 DEF ReadDir, After
  <2>4. listed' = IF taken THEN [listed EXCEPT ![f] = @ \cup {p}] ELSE listed
    BY <1>1, <1>2, <1>3, <1>6 DEF ReadDir
  <2>5. again' = IF taken THEN [again EXCEPT ![f] = @ \/ \E e \in listed[f] : e >= p] ELSE again
    BY <1>1, <1>2, <1>3, <1>6 DEF ReadDir
  <2> QED BY <2>1, <2>2, <2>3, <2>4, <2>5
<1>10. /\ c \in TmpCalls /\ f \in TmpFds /\ tmpFd[f] # Closed /\ tmpFd[f] \in OpenFiles
       /\ p \in C \cup {0} /\ r \in Int
       /\ ~mixed[f] => /\ ~again[f] /\ Right(c, tmpFd[f].offset, r) /\ ListRight(c, listed[f], C, p)
  BY <1>1, <1>2, <1>3, <1>4, <1>8, <1>9, WorkIs
<1>11. TmpTypes
  BY DEF TmpInv
<1>12. C \in SUBSET TmpNumbers /\ TmpNumbers \in SUBSET Nat /\ 0 \notin TmpNumbers
  <2>1. Children(tmpFd[f].entry) \in SUBSET TmpNumbers /\ Len(tmpTree) \in Nat
    BY <1>11, TreeIs
  <2> QED BY <1>4, <2>1 DEF TmpNumbers
<1>13. q \in C \cup {0} /\ p \in Nat
  <2>1. p \in Nat
    <3>1. p \in C \cup {0}
      BY <1>10
    <3>2. C \in SUBSET Nat
      BY <1>12
    <3> QED BY <3>1, <3>2
  <2>2. After(C, p) \in C \cup {0}
    BY <1>12, <2>1, NextIs
  <2> QED BY <1>5, <2>1, <2>2
<1>14. c \in ListCalls
  BY <1>9, <1>10, CallIs
<1>15. /\ d \in ListCalls /\ d.f = f /\ d.call = "getdents" /\ c.call = "getdents" /\ d.ptr = c.ptr
       /\ d.pc = IF taken THEN "telldir" ELSE "seekdir"
  <2>1. CASE taken
    <3>1. c.room \in Nat /\ c.room > 0
      BY <1>6, <1>14, <2>1 DEF ListCalls
    <3>2. PICK room : room = c.room - 1
      OBVIOUS
    <3>3. room \in Nat /\ d = [c EXCEPT !.pc = "telldir", !.room = room]
      BY <1>7, <2>1, <3>1, <3>2
    <3> QED BY <1>2, <1>14, <2>1, <3>3 DEF ListCalls
  <2>2. CASE ~taken
    BY <1>2, <1>7, <1>14, <2>2 DEF ListCalls
  <2> QED BY <2>1, <2>2
<1>16. d \in TmpCalls
  BY <1>15, Zenon DEF TmpCalls
<1>17. PICK x : x = [tmpFd[f] EXCEPT !.pos = q]
  OBVIOUS
<1>18. x \in OpenFiles /\ x.entry = tmpFd[f].entry /\ x.pos = q /\ x.offset = tmpFd[f].offset
  BY <1>10, <1>12, <1>13, <1>17 DEF OpenFiles
<1>19. tmpFd' = [tmpFd EXCEPT ![f] = x]
  <2>1. CASE p = 0
    <3>1. x = tmpFd[f]
      BY <1>3, <1>5, <1>10, <1>17, <2>1 DEF OpenFiles
    <3> QED BY <1>9, <1>11, <2>1, <3>1 DEF TmpTypes
  <2>2. CASE p # 0
    BY <1>9, <1>17, <2>2
  <2> QED BY <2>1, <2>2
<1>20. Moves(f, x)
  BY <1>4, <1>13, <1>18, <1>19 DEF Moves
<1>21. PICK a : a = ((again[f] \/ \E e \in listed[f] : e >= p))
  OBVIOUS
<1>22. /\ listed' \in [TmpFds -> SUBSET TmpNumbers]
       /\ \A g \in TmpFds \ {f} : listed'[g] = listed[g]
       /\ listed'[f] = IF taken THEN listed[f] \cup {p} ELSE listed[f]
  <2>1. CASE taken
    <3>1. p \in TmpNumbers
      BY <1>6, <1>10, <1>12, <2>1
    <3> QED BY <1>9, <1>10, <1>11, <2>1, <3>1 DEF TmpTypes
  <2>2. CASE ~taken
    BY <1>9, <1>11, <2>2 DEF TmpTypes
  <2> QED BY <2>1, <2>2
<1>23. /\ again' \in [TmpFds -> BOOLEAN]
       /\ \A g \in TmpFds \ {f} : again'[g] = again[g]
       /\ again'[f] <=> again[f] \/ (taken /\ \E e \in listed[f] : e >= p)
  <2>1. CASE taken
    <3>1. again' = [again EXCEPT ![f] = a] /\ a \in BOOLEAN
      BY <1>9, <1>21, <2>1, Zenon
    <3>2. again' \in [TmpFds -> BOOLEAN] /\ again'[f] = a /\ \A g \in TmpFds \ {f} : again'[g] = again[g]
      BY <1>10, <1>11, <3>1, Zenon DEF TmpTypes
    <3> QED BY <1>21, <2>1, <3>2
  <2>2. CASE ~taken
    BY <1>9, <1>11, <2>2 DEF TmpTypes
  <2> QED BY <2>1, <2>2
<1>24. Lists(f)
  BY <1>22, <1>23 DEF Lists
<1>25. ASSUME ~mixed'[f]
       PROVE  /\ ~again'[f] /\ Right(d, x.offset, r)
              /\ ListRight(d, listed'[f], Children(x.entry), x.pos)
  <2>1. ~mixed[f]
    BY <1>9, <1>10, <1>15, <1>16, <1>25, Overlaps
  <2>2. Behind(listed[f], C, p) /\ c.ptr = p /\ ~again[f] /\ tmpFd[f].offset = r
    BY <1>9, <1>10, <1>15, <2>1 DEF ListRight, Right
  <2>3. Right(d, x.offset, r)
    BY <1>15, <1>18, <2>2 DEF Right
  <2>4. CASE taken
    <3>1. p # 0
      BY <1>6, <2>4
    <3>2. listed[f] \in SUBSET Nat /\ C \in SUBSET Nat
      BY <1>10, <1>11, <1>12 DEF TmpTypes
    <3>3. /\ \A y \in listed[f] : y < p
          /\ Behind(listed[f] \cup {p}, C, q)
      <4> PICK S : S = listed[f]
        OBVIOUS
      <4>1. q = After(C, p) /\ 0 \notin C
        BY <1>5, <1>12, <3>1
      <4> QED BY <1>13, <2>2, <3>1, <3>2, <4>1, BehindMoves
    <3>4. ~again'[f]
      <4>1. \A e \in listed[f] : ~(e >= p)
        BY <1>13, <3>2, <3>3
      <4> QED BY <1>23, <2>2, <4>1
    <3>5. listed'[f] = listed[f] \cup {p}
      BY <1>22, <2>4
    <3> QED BY <1>4, <1>15, <1>18, <2>3, <2>4, <3>3, <3>4, <3>5 DEF ListRight
  <2>5. CASE ~taken
    <3>1. ~again'[f] /\ listed'[f] = listed[f]
      BY <1>22, <1>23, <2>2, <2>5
    <3> QED BY <1>4, <1>10, <1>15, <1>18, <2>2, <2>3, <2>5, <3>1 DEF ListRight
  <2> QED BY <2>4, <2>5
<1>26. tmpThread[t].pc = "readdir" /\ tmpThread[t].f = f
  BY <1>1, <1>2, <1>9
<1>27. d.pc \notin {"sized", "copied", "moving"}
  BY <1>15
<1> QED BY <1>9, <1>10, <1>15, <1>16, <1>20, <1>24, <1>25, <1>26, <1>27, GoesKept

LEMMA SeekBackInv ==
  ASSUME TmpInv, NEW t \in TmpThreads, SeekBack(t)
  PROVE  TmpInv'
<1>1. PICK c : c = tmpThread[t]
  OBVIOUS
<1>2. PICK f : f = c.f
  OBVIOUS
<1>3. PICK C : C = Children(tmpFd[f].entry)
  OBVIOUS
<1>4. PICK q : q = SeekDir(tmpFd[f].entry, c.ptr)
  OBVIOUS
<1>5. /\ c.pc = "seekdir" /\ Leaves(t, f) /\ UNCHANGED <<tmpTree, tmpData, refData>>
      /\ tmpFd' = [tmpFd EXCEPT ![f].pos = q]
  BY <1>1, <1>2, <1>4 DEF SeekBack
<1>6. /\ c \in TmpCalls /\ f \in TmpFds /\ tmpFd[f] # Closed /\ tmpFd[f] \in OpenFiles
      /\ ~mixed[f] => /\ Right(c, tmpFd[f].offset, refOffset[f]) /\ ListRight(c, listed[f], C, tmpFd[f].pos)
  BY <1>1, <1>2, <1>3, <1>5, WorkIs
<1>7. TmpTypes
  BY DEF TmpInv
<1>8. c.ptr \in TmpNumbers \cup {0} /\ c.call = "getdents"
  <2>1. c \in ListCalls
    BY <1>5, <1>6, CallIs
  <2> QED BY <2>1 DEF ListCalls
<1>9. C \in SUBSET TmpNumbers /\ c.ptr \in Nat /\ 0 \notin TmpNumbers
  <2>1. Children(tmpFd[f].entry) \in SUBSET TmpNumbers /\ Len(tmpTree) \in Nat
    BY <1>7, TreeIs
  <2> QED BY <1>3, <1>8, <2>1 DEF TmpNumbers
<1>10. q \in C \cup {0} /\ (c.ptr \in C \cup {0} => q = c.ptr)
  <2>1. q = IF c.ptr = 0 THEN 0 ELSE From(C, c.ptr)
    BY <1>3, <1>4 DEF SeekDir, From
  <2>2. PICK p : p = c.ptr
    OBVIOUS
  <2>3. From(C, p) \in C \cup {0} /\ (p \in C => From(C, p) = p)
    <3>1. C \in SUBSET Nat
      <4>1. Len(tmpTree) \in Nat
        BY <1>7, TreeIs
      <4> QED BY <1>9, <4>1 DEF TmpNumbers
    <3> QED BY <1>9, <2>2, <3>1, NextIs
  <2> QED BY <2>1, <2>2, <2>3
<1>11. PICK x : x = [tmpFd[f] EXCEPT !.pos = q]
  OBVIOUS
<1>12. x \in OpenFiles /\ x.entry = tmpFd[f].entry /\ x.pos = q /\ x.offset = tmpFd[f].offset
  BY <1>6, <1>9, <1>10, <1>11 DEF OpenFiles
<1>13. Moves(f, x)
  BY <1>3, <1>5, <1>10, <1>11, <1>12 DEF Moves
<1>14. ~mixed[f] => x.offset = refOffset[f] /\ Behind(listed[f], Children(x.entry), x.pos)
  BY <1>3, <1>5, <1>6, <1>8, <1>10, <1>12 DEF Right, ListRight
<1>15. tmpThread[t].pc = "seekdir" /\ tmpThread[t].f = f
  BY <1>1, <1>2, <1>5
<1> QED BY <1>5, <1>6, <1>13, <1>14, <1>15, LeavesInv

-----------------------------------------------------------------------------
(* Steps of the tree and of descriptors that no call is at work on.        *)
LEMMA WorkKept ==
  ASSUME TmpInv, TreeExtends, UNCHANGED <<tmpThread, mixed>>,
         \A g \in TmpFds : AtWork(g) # {} => tmpFd'[g] = tmpFd[g],
         \A e \in TmpNumbers : tmpData'[e] = tmpData[e] /\ refData'[e] = refData[e],
         \A e \in TmpNumbers' \ TmpNumbers : tmpData'[e] = refData'[e]
  PROVE  BytesKept' /\ OneInode' /\ DataSound'
<1>1. TmpTypes /\ BytesKept /\ OneInode /\ DataSound
  BY DEF TmpInv
<1>2. DOMAIN tmpTree = TmpNumbers /\ DOMAIN tmpTree' = TmpNumbers'
  <2>1. DOMAIN tmpTree' = 1 .. Len(tmpTree')
    BY LenProperties DEF TreeExtends
  <2> QED BY <1>1, <2>1, TreeIs DEF TmpNumbers
<1>3. ASSUME NEW u \in TmpThreads, tmpThread[u].pc # "idle"
      PROVE  /\ tmpThread[u].f \in TmpFds /\ EntryOf(u) \in TmpNumbers
             /\ tmpFd'[tmpThread[u].f] = tmpFd[tmpThread[u].f] /\ EntryOf(u)' = EntryOf(u)
  <2> PICK c : c = tmpThread[u]
    OBVIOUS
  <2> PICK g : g = c.f
    OBVIOUS
  <2>1. g \in TmpFds /\ tmpFd[g].entry \in TmpNumbers /\ AtWork(g) # {}
    BY <1>3, WorkIs
  <2> QED BY <2>1 DEF EntryOf
<1>4. BytesKept'
  <2> SUFFICES ASSUME NEW e \in TmpNumbers',
                      ~\E u \in TmpThreads : tmpThread[u].pc = "sized" /\ tmpFd'[tmpThread[u].f].entry = e
               PROVE  tmpData'[e] = refData'[e]
    BY <1>2 DEF BytesKept
  <2>1. CASE e \in TmpNumbers
    <3>1. ASSUME NEW u \in TmpThreads, tmpThread[u].pc = "sized", tmpFd[tmpThread[u].f].entry = e PROVE FALSE
      BY <1>3, <3>1
    <3> QED BY <1>1, <1>2, <2>1, <3>1 DEF BytesKept
  <2>2. CASE e \notin TmpNumbers
    BY <2>2
  <2> QED BY <2>1, <2>2
<1>5. OneInode'
  <2> SUFFICES ASSUME NEW u \in TmpThreads, NEW v \in TmpThreads, InFile(u)', InFile(v)', EntryOf(u)' = EntryOf(v)'
               PROVE  u = v
    BY DEF OneInode
  <2>1. InFile(u) /\ InFile(v) /\ tmpThread[u].pc # "idle" /\ tmpThread[v].pc # "idle"
    BY DEF InFile
  <2>2. EntryOf(u) = EntryOf(v)
    BY <1>3, <2>1
  <2> QED BY <1>1, <2>1, <2>2 DEF OneInode
<1>6. DataSound'
  <2> SUFFICES ASSUME NEW u \in TmpThreads, tmpThread[u].pc = "sized"
               PROVE  /\ tmpThread[u].bytes # <<>> /\ tmpThread[u].n = Len(tmpThread[u].bytes)
                      /\ ~mixed[tmpThread[u].f] => tmpData'[EntryOf(u)'] = Grown(u)'
    BY DEF DataSound
  <2>1. EntryOf(u) \in TmpNumbers /\ tmpFd'[tmpThread[u].f] = tmpFd[tmpThread[u].f] /\ EntryOf(u)' = EntryOf(u)
    BY <1>3
  <2>2. Grown(u)' = Grown(u)
    BY <2>1 DEF Grown
  <2> QED BY <1>1, <2>1, <2>2 DEF DataSound
<1> QED BY <1>4, <1>5, <1>6

LEMMA TreeInv ==
  ASSUME TmpInv, TreeExtends, UNCHANGED <<tmpThread, mixed>>, DataTypes', TreeGrows', NamesUnique',
         \A e \in TmpNumbers : tmpData'[e] = tmpData[e] /\ refData'[e] = refData[e],
         \A e \in TmpNumbers' \ TmpNumbers : tmpData'[e] = refData'[e],
         tmpFd' \in [TmpFds -> {Closed} \cup OpenFiles'], refOffset' \in [TmpFds -> Int],
         listed' \in [TmpFds -> SUBSET TmpNumbers'], again' \in [TmpFds -> BOOLEAN],
         NEW F \in SUBSET TmpFds, \A g \in F : AtWork(g) = {} /\ FdSound(g)',
         \A g \in TmpFds \ F : /\ tmpFd'[g] = tmpFd[g] /\ refOffset'[g] = refOffset[g]
                               /\ listed'[g] = listed[g] /\ again'[g] = again[g]
  PROVE  TmpInv'
<1>1. TmpTypes /\ \A g \in TmpFds : FdSound(g)
  BY DEF TmpInv
<1>2. BytesKept' /\ OneInode' /\ DataSound'
  <2>1. \A g \in TmpFds : AtWork(g) # {} => tmpFd'[g] = tmpFd[g]
    OBVIOUS
  <2> QED BY <2>1, WorkKept
<1>3. TmpTypes'
  <2>1. TmpCalls \subseteq TmpCalls'
    BY <1>1, TreeKept
  <2>2. tmpThread' \in [TmpThreads -> {TmpIdle} \cup TmpCalls'] /\ mixed' \in [TmpFds -> BOOLEAN]
    BY <1>1, <2>1 DEF TmpTypes
  <2>3. tmpTree' \in Seq(Dents) /\ Len(tmpTree') >= 1
    <3>1. Len(tmpTree') >= Len(tmpTree) /\ Len(tmpTree) >= 1 /\ Len(tmpTree) \in Nat /\ Len(tmpTree') \in Nat
      BY <1>1, LenProperties DEF TmpTypes, TreeExtends
    <3> QED BY <3>1 DEF TreeExtends
  <2>4. Dents' = Dents /\ Closed' = Closed /\ TmpIdle' = TmpIdle
    BY DEF Dents, EntryNames, Closed, TmpIdle
  <2> QED BY <2>2, <2>3, <2>4 DEF TmpTypes
<1>4. ASSUME NEW g \in TmpFds PROVE FdSound(g)'
  <2>1. CASE g \in F
    BY <2>1
  <2>2. CASE g \notin F
    <3>1. /\ tmpFd'[g] = tmpFd[g] /\ mixed'[g] = mixed[g] /\ refOffset'[g] = refOffset[g]
          /\ listed'[g] = listed[g] /\ again'[g] = again[g]
          /\ \A u \in AtWork(g) : tmpThread'[u] = tmpThread[u]
      BY <2>2
    <3>2. AtWork(g)' = AtWork(g)
      BY DEF AtWork
    <3> QED BY <1>1, <3>1, <3>2, Undisturbed
  <2> QED BY <2>1, <2>2
<1> QED BY <1>2, <1>3, <1>4 DEF TmpInv

LEMMA LinkIs ==
  ASSUME TmpTypes, TreeGrows, NamesUnique, NEW d \in TmpNumbers,
         NEW name \in EntryNames, TmpLookup(d, name) = ENOENT,
         NEW kind \in {"dir", "file"}, Link(name, d, kind)
  PROVE  /\ tmpTree' \in Seq(Dents) /\ Len(tmpTree') = Len(tmpTree) + 1
         /\ \A e \in TmpNumbers : tmpTree'[e] = tmpTree[e]
         /\ tmpTree'[Len(tmpTree) + 1].kind = kind
         /\ DataTypes' /\ tmpData'[Len(tmpTree) + 1] = refData'[Len(tmpTree) + 1]
         /\ \A e \in TmpNumbers : tmpData'[e] = tmpData[e] /\ refData'[e] = refData[e]
         /\ TreeGrows' /\ NamesUnique'
<1> DEFINE n == Len(tmpTree) + 1
           x == [name |-> name, parent |-> d, kind |-> kind]
<1>1. Len(tmpTree) \in Nat /\ DOMAIN tmpTree = TmpNumbers /\ Root \in TmpNumbers
  BY TreeIs
<1>2. d \in Nat /\ x \in Dents
  <2>1. d \in Nat
    BY <1>1 DEF TmpNumbers
  <2> QED BY <2>1 DEF Dents
<1>3. tmpTree' = Append(tmpTree, x) /\ tmpData' = Append(tmpData, <<>>) /\ refData' = Append(refData, <<>>)
  BY DEF Link
<1> HIDE DEF x
<1>4. /\ tmpTree' \in Seq(Dents) /\ Len(tmpTree') = n /\ tmpTree'[n] = x
      /\ \A e \in 1 .. Len(tmpTree) : tmpTree'[e] = tmpTree[e]
  <2>1. tmpTree \in Seq(Dents)
    BY DEF TmpTypes
  <2> QED BY <1>2, <1>3, <2>1, AppendProperties
<1>5. /\ DataTypes' /\ tmpData'[n] = refData'[n]
      /\ \A e \in TmpNumbers : tmpData'[e] = tmpData[e] /\ refData'[e] = refData[e]
  <2>1. <<>> \in Seq(DataBytes)
    BY EmptySeq
  <2>2. DataTypes
    BY DEF TmpTypes
  <2>3. /\ tmpData' \in Seq(Seq(DataBytes)) /\ Len(tmpData') = Len(tmpData) + 1 /\ tmpData'[Len(tmpData) + 1] = <<>>
        /\ \A e \in 1 .. Len(tmpData) : tmpData'[e] = tmpData[e]
    BY <1>3, <2>1, <2>2, AppendProperties DEF DataTypes
  <2>4. /\ refData' \in Seq(Seq(DataBytes)) /\ Len(refData') = Len(refData) + 1 /\ refData'[Len(refData) + 1] = <<>>
        /\ \A e \in 1 .. Len(refData) : refData'[e] = refData[e]
    BY <1>3, <2>1, <2>2, AppendProperties DEF DataTypes
  <2>5. DataTypes'
    BY <1>4, <2>2, <2>3, <2>4 DEF DataTypes, DataBytes
  <2> QED BY <2>2, <2>3, <2>4, <2>5 DEF DataTypes, TmpNumbers
<1>7. x.name = name /\ x.parent = d /\ x.kind = kind
  BY DEF x
<1>12. Len(tmpTree) \in Nat /\ Len(tmpTree') = Len(tmpTree) + 1
  BY <1>1, <1>4
<1>8. \A e \in TmpNumbers' : e \in TmpNumbers \/ e = n
  BY <1>12 DEF TmpNumbers
<1>9. \A e \in TmpNumbers : tmpTree'[e] = tmpTree[e] /\ e # n /\ e \in TmpNumbers'
  <2>1. \A e \in TmpNumbers : e # n /\ e \in TmpNumbers'
    BY <1>12 DEF TmpNumbers
  <2> QED BY <1>4, <2>1 DEF TmpNumbers
<1>10. TreeGrows'
  <2>1. tmpTree'[Root] = tmpTree[Root] /\ Root # n
    BY <1>1, <1>9
  <2>2. ASSUME NEW e \in TmpNumbers', e # Root PROVE tmpTree'[e].parent \in TmpNumbers'
    <3>1. CASE e \in TmpNumbers
      BY <1>9, <2>2, <3>1 DEF TreeGrows
    <3>2. CASE e = n
      BY <1>4, <1>7, <1>9, <3>2
    <3> QED BY <1>8, <3>1, <3>2
  <2> QED BY <2>1, <2>2 DEF TreeGrows, Root
<1>11. NamesUnique'
  <2>1. DOMAIN tmpTree' = TmpNumbers'
    BY <1>4, LenProperties DEF TmpNumbers
  <2>2. \A e \in TmpNumbers : ~(tmpTree[e].parent = d /\ tmpTree[e].name = name)
    BY <1>1, TmpLookupIs DEF Children
  <2>3. ASSUME NEW a \in TmpNumbers', NEW b \in TmpNumbers',
               tmpTree'[a].parent = tmpTree'[b].parent, tmpTree'[a].name = tmpTree'[b].name
        PROVE  a = b
    <3>1. CASE a \in TmpNumbers /\ b \in TmpNumbers
      BY <1>1, <1>9, <2>3, <3>1 DEF NamesUnique
    <3>2. CASE a \in TmpNumbers /\ b = n
      BY <1>4, <1>7, <1>9, <2>2, <2>3, <3>2
    <3>3. CASE a = n /\ b \in TmpNumbers
      BY <1>4, <1>7, <1>9, <2>2, <2>3, <3>3
    <3> QED BY <1>8, <3>1, <3>2, <3>3
  <2> QED BY <2>1, <2>3 DEF NamesUnique
<1> QED BY <1>4, <1>5, <1>7, <1>9, <1>10, <1>11

LEMMA MkdirInv ==
  ASSUME TmpInv, NEW path \in TmpPaths, Mkdir(path)
  PROVE  TmpInv'
<1>1. TmpTypes /\ TreeGrows /\ NamesUnique
  BY DEF TmpInv
<1>2. PICK d \in TmpNumbers, name \in EntryNames :
        TmpLookup(d, name) = ENOENT /\ Link(name, d, "dir")
  <2>1. ParentOf(path) \in {-1, -2} \cup TmpNumbers /\ FileName(path) \in EntryNames
    BY <1>1, ParentIs
  <2>2. ParentOf(path) > 0
    BY DEF Mkdir
  <2>3. ParentOf(path) \in TmpNumbers
    BY <2>1, <2>2
  <2> QED BY <2>1, <2>3 DEF Mkdir
<1>3. UNCHANGED <<tmpFd, tmpThread, mixed, refOffset, listed, again>>
  BY DEF Mkdir, callVars, listVars
<1>4. /\ tmpTree' \in Seq(Dents) /\ Len(tmpTree') = Len(tmpTree) + 1
      /\ \A e \in TmpNumbers : tmpTree'[e] = tmpTree[e]
      /\ DataTypes' /\ tmpData'[Len(tmpTree) + 1] = refData'[Len(tmpTree) + 1]
      /\ \A e \in TmpNumbers : tmpData'[e] = tmpData[e] /\ refData'[e] = refData[e]
      /\ TreeGrows' /\ NamesUnique'
  BY <1>1, <1>2, LinkIs
<1>5. Len(tmpTree) \in Nat
  BY <1>1, TreeIs
<1>6. TreeExtends
  BY <1>4, <1>5 DEF TreeExtends
<1>7. \A e \in TmpNumbers' \ TmpNumbers : tmpData'[e] = refData'[e]
  BY <1>4, <1>5 DEF TmpNumbers
<1>8. TmpNumbers \subseteq TmpNumbers' /\ OpenFiles \subseteq OpenFiles'
  BY <1>1, <1>6, TreeKept
<1>9. /\ tmpFd' \in [TmpFds -> {Closed} \cup OpenFiles'] /\ refOffset' \in [TmpFds -> Int]
      /\ listed' \in [TmpFds -> SUBSET TmpNumbers'] /\ again' \in [TmpFds -> BOOLEAN]
  BY <1>1, <1>3, <1>8 DEF TmpTypes
<1>10. PICK F : F = {}
  OBVIOUS
<1>11. /\ F \in SUBSET TmpFds /\ \A g \in F : AtWork(g) = {} /\ FdSound(g)'
       /\ \A g \in TmpFds \ F : /\ tmpFd'[g] = tmpFd[g] /\ refOffset'[g] = refOffset[g]
                               /\ listed'[g] = listed[g] /\ again'[g] = again[g]
  BY <1>3, <1>10
<1>12. /\ UNCHANGED <<tmpThread, mixed>> /\ DataTypes' /\ TreeGrows' /\ NamesUnique'
       /\ \A e \in TmpNumbers : tmpData'[e] = tmpData[e] /\ refData'[e] = refData[e]
  BY <1>3, <1>4
<1> QED BY <1>6, <1>7, <1>9, <1>11, <1>12, TreeInv

-----------------------------------------------------------------------------
(* Open and close.                                                         *)
LEMMA TmpOpenIs ==
  ASSUME TmpInv, NEW f \in TmpFds, NEW path \in TmpPaths, NEW creat \in BOOLEAN, NEW excl \in BOOLEAN,
         NEW writing \in BOOLEAN, NEW directory \in BOOLEAN, TmpOpen(f, path, creat, excl, writing, directory)
  PROVE  \E e \in Nat :
           /\ \/ e \in TmpNumbers /\ UNCHANGED <<tmpTree, tmpData, refData>>
              \/ /\ e = Len(tmpTree) + 1
                 /\ \E d \in TmpNumbers, name \in EntryNames : TmpLookup(d, name) = ENOENT /\ Link(name, d, "file")
           /\ \/ tmpFd' = tmpFd
              \/ tmpFd' = [tmpFd EXCEPT ![f] = [entry |-> e, offset |-> 0, pos |-> Smallest(Children(e))]]
<1> DEFINE parent == ParentOf(path)
           old == IF creat THEN (IF parent < 0 THEN parent ELSE TmpLookup(parent, FileName(path)))
                  ELSE LookupPath(path)
           new == creat /\ old = ENOENT /\ parent > 0
           entry == IF new THEN Len(tmpTree) + 1 ELSE old
<1>1. /\ entry > 0
      /\ new => Link(FileName(path), parent, "file")
      /\ ~new => UNCHANGED <<tmpTree, tmpData, refData>>
      /\ \/ tmpFd' = tmpFd
         \/ tmpFd' = [tmpFd EXCEPT ![f] = [entry |-> entry, offset |-> 0, pos |-> Smallest(Children(entry))]]
  BY DEF TmpOpen
<1>2. TmpTypes
  BY DEF TmpInv
<1>3. Len(tmpTree) \in Nat /\ \A e \in TmpNumbers : e \in Nat
  BY <1>2, TreeIs DEF TmpNumbers
<1>4. /\ parent \in {-1, -2} \cup TmpNumbers /\ LookupPath(path) \in {-1, -2} \cup TmpNumbers
      /\ FileName(path) \in EntryNames
  BY <1>2, ParentIs
<1>5. CASE new
  <2>1. parent \in TmpNumbers /\ ~(parent < 0)
    BY <1>3, <1>4, <1>5
  <2>2. TmpLookup(parent, FileName(path)) = ENOENT
    BY <1>5, <2>1
  <2>3. entry = Len(tmpTree) + 1 /\ entry \in Nat
    BY <1>3, <1>5
  <2> HIDE DEF entry, new, parent, old
  <2> QED BY <1>1, <1>4, <1>5, <2>1, <2>2, <2>3
<1>6. CASE ~new
  <2>1. entry = old
    BY <1>6
  <2>2. old \in {-1, -2} \cup TmpNumbers
    <3>1. CASE ~creat
      BY <1>4, <3>1
    <3>2. CASE creat /\ parent < 0
      BY <1>3, <1>4, <3>2
    <3>3. CASE creat /\ ~(parent < 0)
      <4>1. parent \in TmpNumbers
        BY <1>4, <3>3
      <4>2. TmpLookup(parent, FileName(path)) \in {-1, -2} \cup TmpNumbers
        BY <1>2, <4>1, TmpLookupIs
      <4> QED BY <3>3, <4>2
    <3> QED BY <3>1, <3>2, <3>3
  <2> HIDE DEF entry, new, parent, old
  <2>3. entry \in TmpNumbers
    BY <1>1, <2>1, <2>2
  <2> QED BY <1>1, <1>3, <1>6, <2>3
<1> QED BY <1>5, <1>6

LEMMA TmpOpenInv ==
  ASSUME TmpInv, NEW f \in TmpFds, NEW path \in TmpPaths, NEW creat \in BOOLEAN, NEW excl \in BOOLEAN,
         NEW writing \in BOOLEAN, NEW directory \in BOOLEAN, TmpOpen(f, path, creat, excl, writing, directory)
  PROVE  TmpInv'
<1>1. TmpTypes /\ TreeGrows /\ NamesUnique /\ FdSound(f)
  BY DEF TmpInv
<1>2. /\ tmpFd[f] = Closed /\ UNCHANGED <<tmpThread, mixed>>
      /\ refOffset' = [refOffset EXCEPT ![f] = 0]
      /\ listed' = [listed EXCEPT ![f] = {}] /\ again' = [again EXCEPT ![f] = FALSE]
  BY DEF TmpOpen
<1>3. PICK e \in Nat :
        /\ \/ e \in TmpNumbers /\ UNCHANGED <<tmpTree, tmpData, refData>>
           \/ /\ e = Len(tmpTree) + 1
              /\ \E d \in TmpNumbers, name \in EntryNames : TmpLookup(d, name) = ENOENT /\ Link(name, d, "file")
        /\ \/ tmpFd' = tmpFd
           \/ tmpFd' = [tmpFd EXCEPT ![f] = [entry |-> e, offset |-> 0, pos |-> Smallest(Children(e))]]
  BY TmpOpenIs
<1>4. Len(tmpTree) \in Nat /\ \A d : Children(d) \in SUBSET TmpNumbers
  BY <1>1, TreeIs
<1>5. /\ TreeExtends /\ DataTypes' /\ TreeGrows' /\ NamesUnique' /\ e \in TmpNumbers'
      /\ \A a \in TmpNumbers : tmpData'[a] = tmpData[a] /\ refData'[a] = refData[a]
      /\ \A a \in TmpNumbers' \ TmpNumbers : tmpData'[a] = refData'[a]
  <2>1. CASE e \in TmpNumbers /\ UNCHANGED <<tmpTree, tmpData, refData>>
    <3>1. TreeGrows' /\ NamesUnique' /\ DataTypes'
      BY <1>1, <2>1 DEF TreeGrows, NamesUnique, TmpNumbers, TmpTypes, DataTypes, DataBytes
    <3>2. TmpNumbers' = TmpNumbers
      BY <2>1 DEF TmpNumbers
    <3>3. TreeExtends
      BY <1>1, <1>4, <2>1 DEF TmpTypes, TreeExtends
    <3> QED BY <2>1, <3>1, <3>2, <3>3
  <2>2. CASE /\ e = Len(tmpTree) + 1
             /\ \E d \in TmpNumbers, name \in EntryNames : TmpLookup(d, name) = ENOENT /\ Link(name, d, "file")
    <3>1. PICK d \in TmpNumbers, name \in EntryNames : TmpLookup(d, name) = ENOENT /\ Link(name, d, "file")
      BY <2>2
    <3>2. /\ tmpTree' \in Seq(Dents) /\ Len(tmpTree') = Len(tmpTree) + 1
          /\ \A a \in TmpNumbers : tmpTree'[a] = tmpTree[a]
          /\ DataTypes' /\ tmpData'[Len(tmpTree) + 1] = refData'[Len(tmpTree) + 1]
          /\ \A a \in TmpNumbers : tmpData'[a] = tmpData[a] /\ refData'[a] = refData[a]
          /\ TreeGrows' /\ NamesUnique'
      BY <1>1, <3>1, LinkIs
    <3>3. TreeExtends
      BY <1>4, <3>2 DEF TreeExtends
    <3>4. e \in TmpNumbers' /\ \A a \in TmpNumbers' \ TmpNumbers : a = Len(tmpTree) + 1
      <4>1. Len(tmpTree') = Len(tmpTree) + 1
        BY <3>2
      <4> QED BY <1>4, <2>2, <4>1 DEF TmpNumbers
    <3> QED BY <3>2, <3>3, <3>4
  <2> QED BY <1>3, <2>1, <2>2
<1>6. /\ TmpNumbers \subseteq TmpNumbers' /\ OpenFiles \subseteq OpenFiles'
      /\ \A x \in TmpNumbers : \A d : x \in Children(d)' <=> x \in Children(d)
      /\ \A d : Children(d)' \subseteq TmpNumbers'
  BY <1>1, <1>5, TreeKept
<1>7. PICK pos : /\ pos = Smallest(Children(e))
                 /\ pos \in TmpNumbers \cup {0}
                 /\ pos # 0 => pos \in Children(e) /\ \A y \in Children(e) : pos <= y
  <2>1. Children(e) \in SUBSET TmpNumbers /\ Children(e) \in SUBSET Nat
    BY <1>4 DEF TmpNumbers
  <2>2. /\ Children(e) = {} => Smallest(Children(e)) = 0
        /\ Children(e) # {} => /\ Smallest(Children(e)) \in Children(e)
                               /\ \A y \in Children(e) : Smallest(Children(e)) <= y
    BY <2>1, SmallestIs
  <2> QED BY <2>1, <2>2
<1>8. \/ tmpFd' = tmpFd
      \/ tmpFd' = [tmpFd EXCEPT ![f] = [entry |-> e, offset |-> 0, pos |-> pos]]
  BY <1>3, <1>7
<1>9. /\ tmpFd' \in [TmpFds -> {Closed} \cup OpenFiles'] /\ refOffset' \in [TmpFds -> Int]
      /\ listed' \in [TmpFds -> SUBSET TmpNumbers'] /\ again' \in [TmpFds -> BOOLEAN]
  <2>1. tmpFd \in [TmpFds -> {Closed} \cup OpenFiles']
    BY <1>1, <1>6 DEF TmpTypes
  <2>2. [entry |-> e, offset |-> 0, pos |-> pos] \in OpenFiles'
    <3>1. e \in TmpNumbers' /\ pos \in TmpNumbers' \cup {0}
      BY <1>5, <1>6, <1>7
    <3> QED BY <3>1 DEF OpenFiles
  <2>3. tmpFd' \in [TmpFds -> {Closed} \cup OpenFiles']
    BY <1>8, <2>1, <2>2
  <2>4. listed' \in [TmpFds -> SUBSET TmpNumbers']
    BY <1>1, <1>2, <1>6 DEF TmpTypes
  <2>5. refOffset' \in [TmpFds -> Int]
    BY <1>1, <1>2 DEF TmpTypes
  <2>6. again' \in [TmpFds -> BOOLEAN]
    BY <1>1, <1>2, Zenon DEF TmpTypes
  <2> QED BY <2>3, <2>4, <2>5, <2>6
<1>10. AtWork(f) = {} /\ ~mixed[f] /\ AtWork(f)' = {} /\ ~mixed'[f]
  BY <1>1, <1>2 DEF FdSound, AtWork
<1>11. FdSound(f)'
  <2>1. tmpFd'[f] = Closed \/ tmpFd'[f] = [entry |-> e, offset |-> 0, pos |-> pos]
    BY <1>1, <1>2, <1>8 DEF TmpTypes
  <2>2. CASE tmpFd'[f] = Closed
    BY <1>10, <2>2 DEF FdSound, Closed
  <2>3. CASE tmpFd'[f] = [entry |-> e, offset |-> 0, pos |-> pos]
    <3>1. tmpFd'[f].entry = e /\ tmpFd'[f].offset = 0 /\ tmpFd'[f].pos = pos
      BY <2>3
    <3>2. refOffset'[f] = 0 /\ listed'[f] = {} /\ again'[f] = FALSE
      BY <1>1, <1>2 DEF TmpTypes
    <3>3. pos \in Children(e)' \cup {0}
      BY <1>6, <1>7
    <3>4. ASSUME pos # 0, NEW y \in Children(e)', y < pos PROVE FALSE
      <4>1. y \in TmpNumbers' /\ pos \in TmpNumbers
        BY <1>6, <1>7, <3>4
      <4>2. y \in TmpNumbers
        <5>1. Len(tmpTree') \in Nat
          BY <1>5, LenProperties DEF TreeExtends
        <5> QED BY <1>4, <3>4, <4>1, <5>1 DEF TmpNumbers
      <4>3. y \in Children(e) /\ pos <= y
        BY <1>6, <1>7, <3>4, <4>2
      <4>4. y \in Int /\ pos \in Int
        BY <4>1, <4>2 DEF TmpNumbers
      <4> QED BY <3>4, <4>3, <4>4
    <3>5. Behind({}, Children(e)', pos)
      BY <3>4 DEF Behind
    <3>6. Children(tmpFd[f].entry)' = Children(e)'
      BY <3>1 DEF Children
    <3>7. AtRest(f)'
      BY <3>1, <3>2, <3>5, <3>6 DEF AtRest
    <3> QED BY <1>10, <3>1, <3>2, <3>3, <3>6, <3>7 DEF FdSound
  <2> QED BY <2>1, <2>2, <2>3
<1>12. \A g \in TmpFds \ {f} : /\ tmpFd'[g] = tmpFd[g] /\ refOffset'[g] = refOffset[g]
                                /\ listed'[g] = listed[g] /\ again'[g] = again[g]
  BY <1>1, <1>2, <1>8 DEF TmpTypes
<1>13. PICK F : F = {f}
  OBVIOUS
<1>14. /\ F \in SUBSET TmpFds /\ \A g \in F : AtWork(g) = {} /\ FdSound(g)'
       /\ \A g \in TmpFds \ F : /\ tmpFd'[g] = tmpFd[g] /\ refOffset'[g] = refOffset[g]
                               /\ listed'[g] = listed[g] /\ again'[g] = again[g]
  BY <1>10, <1>11, <1>12, <1>13
<1>15. UNCHANGED <<tmpThread, mixed>>
  BY <1>2
<1> QED BY <1>5, <1>9, <1>14, <1>15, TreeInv

LEMMA Same ==
  ASSUME TmpInv, UNCHANGED <<tmpTree, tmpData, refData>>
  PROVE  /\ TreeExtends /\ DataTypes' /\ TreeGrows' /\ NamesUnique'
         /\ \A e \in TmpNumbers : tmpData'[e] = tmpData[e] /\ refData'[e] = refData[e]
         /\ \A e \in TmpNumbers' \ TmpNumbers : tmpData'[e] = refData'[e]
         /\ TmpNumbers' = TmpNumbers /\ OpenFiles' = OpenFiles
<1>1. TmpTypes /\ DataTypes /\ TreeGrows /\ NamesUnique /\ Len(tmpTree) \in Nat
  BY TreeIs DEF TmpInv, TmpTypes
<1>2. TmpNumbers' = TmpNumbers /\ OpenFiles' = OpenFiles
  BY DEF TmpNumbers, OpenFiles
<1>3. TreeExtends
  BY <1>1 DEF TreeExtends, TmpTypes
<1>4. DataTypes' /\ TreeGrows' /\ NamesUnique'
  BY <1>1 DEF DataTypes, DataBytes, TreeGrows, NamesUnique, TmpNumbers
<1> QED BY <1>2, <1>3, <1>4

LEMMA TmpCloseInv ==
  ASSUME TmpInv, NEW f \in TmpFds, TmpClose(f)
  PROVE  TmpInv'
<1>1. /\ tmpFd[f] # Closed /\ AtWork(f) = {} /\ tmpFd' = [tmpFd EXCEPT ![f] = Closed]
      /\ UNCHANGED <<tmpTree, tmpData, refData>> /\ UNCHANGED <<tmpThread, mixed>>
      /\ UNCHANGED <<refOffset, listed, again>>
  BY DEF TmpClose, callVars, listVars
<1>2. TmpTypes /\ FdSound(f)
  BY DEF TmpInv
<1>3. /\ tmpFd'[f] = Closed /\ tmpFd' \in [TmpFds -> {Closed} \cup OpenFiles]
      /\ \A g \in TmpFds \ {f} : tmpFd'[g] = tmpFd[g]
  BY <1>1, <1>2 DEF TmpTypes
<1>4. ~mixed[f]
  BY <1>1, <1>2 DEF FdSound
<1>5. FdSound(f)'
  <2>1. AtWork(f)' = {} /\ ~mixed'[f]
    BY <1>1, <1>4 DEF AtWork
  <2> QED BY <1>3, <2>1 DEF FdSound, Closed
<1>6. /\ TreeExtends /\ DataTypes' /\ TreeGrows' /\ NamesUnique'
      /\ \A e \in TmpNumbers : tmpData'[e] = tmpData[e] /\ refData'[e] = refData[e]
      /\ \A e \in TmpNumbers' \ TmpNumbers : tmpData'[e] = refData'[e]
      /\ TmpNumbers' = TmpNumbers /\ OpenFiles' = OpenFiles
  BY <1>1, Same
<1>7. /\ tmpFd' \in [TmpFds -> {Closed} \cup OpenFiles'] /\ refOffset' \in [TmpFds -> Int]
      /\ listed' \in [TmpFds -> SUBSET TmpNumbers'] /\ again' \in [TmpFds -> BOOLEAN]
  BY <1>1, <1>2, <1>3, <1>6 DEF TmpTypes
<1>8. PICK F : F = {f}
  OBVIOUS
<1> QED BY <1>1, <1>3, <1>5, <1>6, <1>7, <1>8, TreeInv

LEMMA StutterInv ==
  ASSUME TmpInv, UNCHANGED tmpVars
  PROVE  TmpInv'
<1>1. /\ UNCHANGED <<tmpTree, tmpData, refData>> /\ UNCHANGED <<tmpThread, mixed>>
      /\ UNCHANGED <<tmpFd, refOffset, listed, again>>
  BY DEF tmpVars, callVars, listVars
<1>2. TmpTypes
  BY DEF TmpInv
<1>3. /\ TreeExtends /\ DataTypes' /\ TreeGrows' /\ NamesUnique'
      /\ \A e \in TmpNumbers : tmpData'[e] = tmpData[e] /\ refData'[e] = refData[e]
      /\ \A e \in TmpNumbers' \ TmpNumbers : tmpData'[e] = refData'[e]
      /\ TmpNumbers' = TmpNumbers /\ OpenFiles' = OpenFiles
  BY <1>1, Same
<1>4. /\ tmpFd' \in [TmpFds -> {Closed} \cup OpenFiles'] /\ refOffset' \in [TmpFds -> Int]
      /\ listed' \in [TmpFds -> SUBSET TmpNumbers'] /\ again' \in [TmpFds -> BOOLEAN]
  BY <1>1, <1>2, <1>3 DEF TmpTypes
<1>5. PICK F : F = {}
  OBVIOUS
<1> QED BY <1>1, <1>3, <1>4, <1>5, TreeInv

-----------------------------------------------------------------------------
(* The beginning and the steps.                                            *)
LEMMA TmpInitInv == TmpInit => TmpInv
<1> SUFFICES ASSUME TmpInit PROVE TmpInv
  OBVIOUS
<1> DEFINE x == [name |-> FileName(<<>>), parent |-> 0, kind |-> "dir"]
<1>1. tmpTree = <<x>>
  BY Zenon DEF TmpInit, FileName
<1>2. /\ tmpData = <<<<>>>> /\ refData = <<<<>>>>
      /\ tmpFd = [f \in TmpFds |-> Closed] /\ tmpThread = [t \in TmpThreads |-> TmpIdle]
      /\ refOffset = [f \in TmpFds |-> 0] /\ listed = [f \in TmpFds |-> {}]
      /\ again = [f \in TmpFds |-> FALSE] /\ mixed = [f \in TmpFds |-> FALSE]
  BY DEF TmpInit
<1>3. x \in Dents /\ x.parent = 0 /\ x.kind = "dir"
  BY EntryNamesAre DEF Dents
<1> HIDE DEF x
<1>4. tmpTree \in Seq(Dents) /\ Len(tmpTree) = 1 /\ tmpTree[1] = x /\ DOMAIN tmpTree = {1}
  BY <1>1, <1>3
<1>5. TmpNumbers = {1}
  BY <1>4 DEF TmpNumbers
<1>6. DataTypes
  <2>1. <<>> \in Seq(DataBytes)
    BY EmptySeq
  <2> DEFINE D == Seq(DataBytes)
  <2> HIDE DEF D
  <2>2. <<>> \in D
    BY <2>1 DEF D
  <2>3. tmpData \in Seq(D) /\ Len(tmpData) = 1 /\ refData \in Seq(D) /\ Len(refData) = 1
    BY <1>2, <2>2
  <2> QED BY <1>4, <2>3 DEF D, DataTypes
<1>7. TmpTypes
  BY <1>2, <1>4, <1>6 DEF TmpTypes
<1>8. TreeGrows /\ NamesUnique /\ BytesKept
  BY <1>2, <1>3, <1>4, <1>5 DEF TreeGrows, NamesUnique, BytesKept, Root
<1>9. \A t \in TmpThreads : tmpThread[t].pc = "idle"
  BY <1>2 DEF TmpIdle
<1>10. OneInode /\ DataSound
  BY <1>9 DEF OneInode, DataSound, InFile
<1>11. ASSUME NEW f \in TmpFds PROVE FdSound(f)
  <2>1. tmpFd[f] = Closed /\ AtWork(f) = {} /\ ~mixed[f]
    BY <1>2, <1>9 DEF AtWork
  <2> QED BY <2>1 DEF FdSound
<1> QED BY <1>7, <1>8, <1>10, <1>11 DEF TmpInv

LEMMA AskInv ==
  ASSUME TmpInv, NEW t \in TmpThreads, NEW f \in TmpFds, NEW ask \in TmpAsks[t],
         \/ ask.call = "readwrite" /\ ReadWrite(t, f, ask.bytes, ask.n)
         \/ ask.call = "lseek" /\ LSeek(t, f, ask.off, ask.whence)
         \/ ask.call = "preadwrite" /\ PStart(t, f, ask.off, ask.bytes)
         \/ ask.call = "getdents" /\ GetDents(t, f, ask.room)
  PROVE  TmpInv'
<1>1. \/ ask \in [call : {"readwrite"}, bytes : Seq(TmpBytes), n : Nat]
      \/ ask \in [call : {"lseek"}, off : Int, whence : {"set", "cur", "end"}]
      \/ ask \in [call : {"preadwrite"}, off : Int, bytes : Seq(TmpBytes)]
      \/ ask \in [call : {"getdents"}, room : Nat]
  BY TmpAsksAssumption
<1>2. CASE ask.call = "readwrite" /\ ReadWrite(t, f, ask.bytes, ask.n)
  <2>1. ask.bytes \in Seq(TmpBytes) /\ ask.n \in Nat
    BY <1>1, <1>2
  <2> QED BY <1>2, <2>1, ReadWriteInv
<1>3. CASE ask.call = "lseek" /\ LSeek(t, f, ask.off, ask.whence)
  <2>1. ask.off \in Int /\ ask.whence \in {"set", "cur", "end"}
    BY <1>1, <1>3
  <2> QED BY <1>3, <2>1, LSeekInv
<1>4. CASE ask.call = "preadwrite" /\ PStart(t, f, ask.off, ask.bytes)
  <2>1. ask.off \in Int /\ ask.bytes \in Seq(TmpBytes)
    BY <1>1, <1>4
  <2> QED BY <1>4, <2>1, PStartInv
<1>5. CASE ask.call = "getdents" /\ GetDents(t, f, ask.room)
  <2>1. ask.room \in Nat
    BY <1>1, <1>5
  <2> QED BY <1>5, <2>1, GetDentsInv
<1> QED BY <1>2, <1>3, <1>4, <1>5

LEMMA TmpNextInv == TmpInv /\ [TmpNext]_tmpVars => TmpInv'
<1> SUFFICES ASSUME TmpInv, [TmpNext]_tmpVars PROVE TmpInv'
  OBVIOUS
<1>1. ASSUME NEW path \in TmpPaths, Mkdir(path) PROVE TmpInv'
  BY <1>1, MkdirInv
<1>2. ASSUME NEW f \in TmpFds, NEW path \in TmpPaths, NEW c \in BOOLEAN, NEW x \in BOOLEAN,
             NEW w \in BOOLEAN, NEW d \in BOOLEAN, TmpOpen(f, path, c, x, w, d)
      PROVE  TmpInv'
  BY <1>2, TmpOpenInv
<1>3. ASSUME NEW f \in TmpFds, TmpClose(f) PROVE TmpInv'
  BY <1>3, TmpCloseInv
<1>4. ASSUME NEW t \in TmpThreads, NEW f \in TmpFds, NEW ask \in TmpAsks[t],
             \/ ask.call = "readwrite" /\ ReadWrite(t, f, ask.bytes, ask.n)
             \/ ask.call = "lseek" /\ LSeek(t, f, ask.off, ask.whence)
             \/ ask.call = "preadwrite" /\ PStart(t, f, ask.off, ask.bytes)
             \/ ask.call = "getdents" /\ GetDents(t, f, ask.room)
      PROVE  TmpInv'
  BY <1>4, AskInv
<1>5. ASSUME NEW t \in TmpThreads, Copy(t) \/ MoveLoad(t) \/ MoveStore(t) \/ SeekStore(t) PROVE TmpInv'
  BY <1>5, CopyInv, MoveLoadInv, MoveStoreInv, SeekStoreInv
<1>6. ASSUME NEW t \in TmpThreads, PSave(t) \/ PMove(t) \/ PTransfer(t) \/ PFinish(t) PROVE TmpInv'
  BY <1>6, PSaveInv, PMoveInv, PTransferInv, PFinishInv
<1>7. ASSUME NEW t \in TmpThreads, TellDir(t) \/ ReadDir(t) \/ SeekBack(t) PROVE TmpInv'
  BY <1>7, TellDirInv, ReadDirInv, SeekBackInv
<1>8. CASE UNCHANGED tmpVars
  BY <1>8, StutterInv
<1>9. CASE TmpNext
  BY <1>1, <1>2, <1>3, <1>4, <1>5, <1>6, <1>7, <1>9 DEF TmpNext
<1> QED BY <1>8, <1>9

LEMMA TmpInvSafe == TmpInv => TmpSafe
<1> SUFFICES ASSUME TmpInv PROVE TmpSafe
  OBVIOUS
<1>1. TmpTypes /\ NamesUnique /\ BytesKept /\ \A f \in TmpFds : FdSound(f)
  BY DEF TmpInv
<1>2. ASSUME NEW f \in TmpFds, tmpFd[f] # Closed
      PROVE  /\ ~mixed[f] => ~again[f]
             /\ AtWork(f) = {} => AtRest(f)
  BY <1>1, <1>2 DEF FdSound
<1>3. OffsetKept
  BY <1>2 DEF OffsetKept, AtRest
<1>4. ListedOnce
  BY <1>2 DEF ListedOnce, AtRest, Behind
<1> QED BY <1>1, <1>3, <1>4 DEF TmpSafe

(* TmpFilesAreSafe: whatever reads, writes, seeks, preads, pwrites and     *)
(* listings threads make, step by step, on descriptors they share, a name  *)
(* is that of one entry, and the bytes of a file nobody is writing are     *)
(* POSIX's; so are the offsets between calls, and getdents returns each    *)
(* entry once and misses none that was there, unless calls were at work on *)
(* the descriptor under different locks, and again when they have ended    *)
(* (tmpfs_write, tmpfs_read, sys_pread, sys_pwrite, generic_seek,          *)
(* sys_getdents_common).                                                   *)
THEOREM TmpFilesAreSafe == TmpSpec => []TmpSafe
<1>1. TmpInit => TmpInv
  BY TmpInitInv
<1>2. TmpInv /\ [TmpNext]_tmpVars => TmpInv'
  BY TmpNextInv
<1>3. TmpInv => TmpSafe
  BY TmpInvSafe
<1> QED BY <1>1, <1>2, <1>3, PTL DEF TmpSpec
=============================================================================
