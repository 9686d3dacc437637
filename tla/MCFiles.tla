------------------------------ MODULE MCFiles ------------------------------
(* Files of every kind: record locks, polling, sockets, paths, mounts and  *)
(* the file systems behind them.  One part runs per behaviour, so those    *)
(* that are instances share the variables v1, v2, ...                      *)
EXTENDS Integers, Sequences, FiniteSets, TLC, PollCalls, Paths, RecordLocks, Poll, Mounts, FakeFS, TmpFS

CONSTANTS
  Parts,
  MaxTorn,      \* fakefs goes on while no more names are torn (bound)
  Socks, SockThreads, Passed, Scms, MaxInbox, RecvFlags,
  NameSocks, PathNames, AbstractNames, MaxIds, MaxNameRefs

VARIABLES part, v1, v2, v3, v4, v5, v6, v7, v8, v9, v10, v11

So == INSTANCE Sockets WITH
  sock <- v1, hostLink <- v2, hostIn <- v3, backlog <- v4, greeted <- v5,
  peerLock <- v6, sockAt <- v7, scmSt <- v8, passRefs <- v9, passGot <- v10,
  sockOdd <- v11
Na == INSTANCE SockNames WITH
  nsock <- v1, nameTab <- v2, nameFile <- v3, nameIds <- v4, nameOdd <- v5

(* Locks of the bytes 0 to 2, to the end of the file, backwards and below  *)
(* zero, from files open for reading, for writing and for both; and ranges *)
(* that end or start past the last offset and before the first.            *)
Flock(t, offset, start, len, mode) ==
  [type |-> t, offset |-> offset, start |-> start, len |-> len, mode |-> mode]
SomeFlocks ==
  {Flock(t, 0, at[1], at[2], "rdwr") : t \in {"read", "write", "unlock"},
                                       at \in {<<0, 1>>, <<1, 1>>, <<1, 0>>, <<-1, 2>>}}
    \cup {Flock("write", 1, 1, -1, "rdwr"), Flock("read", 0, 1, 2, "rdonly"),
          Flock("write", 0, 0, 0, "rdonly"), Flock("write", 0, 0, 2, "wronly"),
          Flock("read", 0, -1, 0, "rdwr"), Flock("write", 0, 1, -2, "rdwr"),
          Flock("write", 0, 2, 3, "rdwr"), Flock("unlock", 3, 2, 1, "rdwr"),
          Flock("read", 0, -3, -2, "rdwr"), Flock("read", 0, -4, 0, "rdwr")}

(* One thread renames a directory with something in it, another comes in   *)
(* between at one of the names.                                            *)
SomeNames == {<<"a">>, <<"d">>, <<"d", "a">>, <<"a", "a">>}
SomeReach == "p" :> SomeNames @@ "q" :> {<<"a">>}

(* What the threads of tmpfs do with a descriptor: one whatever there is,  *)
(* the other comes in between with one call of each kind.                  *)
AskRW(bytes, n) == [call |-> "readwrite", bytes |-> bytes, n |-> n]
AskSeek(off, whence) == [call |-> "lseek", off |-> off, whence |-> whence]
AskAt(off, bytes) == [call |-> "preadwrite", off |-> off, bytes |-> bytes]
AskDents(room) == [call |-> "getdents", room |-> room]
SomeAsks ==
  "p" :> {AskRW(<<>>, 1), AskRW(<<>>, 2), AskRW(<<1>>, 1), AskRW(<<1, 1>>, 2),
          AskSeek(-1, "set"), AskSeek(2, "set"), AskSeek(-1, "cur"),
          AskSeek(1, "cur"), AskSeek(-1, "end"), AskSeek(1, "end"),
          AskAt(-1, <<>>), AskAt(1, <<>>), AskAt(0, <<1>>), AskAt(1, <<1>>),
          AskDents(0), AskDents(2)}
    @@ "q" :> {AskRW(<<>>, 1), AskSeek(1, "set"), AskAt(0, <<1>>), AskDents(1)}

SomePoints == {<<>>, <<"m">>, <<"m", "n">>}

(* A root with a directory that may not be searched, links in and across   *)
(* mounts and to themselves; a mount over another.                         *)
DirNode == [kind |-> "dir", search |-> TRUE]
Closet == [kind |-> "dir", search |-> FALSE]
FileNode == [kind |-> "file"]
LinkTo(abs, comps) == [kind |-> "link", target |-> RawPath(abs, comps, FALSE)]
RootTree ==
  <<>> :> DirNode @@ <<"d">> :> DirNode @@ <<"d", "p">> :> Closet @@ <<"m">> :> DirNode
    @@ <<"d", "f">> :> FileNode @@ <<"d", "p", "f">> :> FileNode @@ <<"m", "f">> :> FileNode
    @@ <<"l">> :> LinkTo(TRUE, <<"d", "l">>) @@ <<"d", "l">> :> LinkTo(FALSE, <<"..", "m", "l">>)
    @@ <<"o">> :> LinkTo(FALSE, <<"o">>)
LowerTree == <<>> :> DirNode @@ <<"d">> :> DirNode @@ <<"f">> :> FileNode @@ <<"l">> :> LinkTo(FALSE, <<"d">>)
UpperTree == <<>> :> DirNode @@ <<"f">> :> FileNode @@ <<"p">> :> DirNode
CoveredTree == <<>> :> DirNode @@ <<"x">> :> DirNode
SomeMounts == <<<<>>, <<"m">>, <<"m", "d">>, <<"m", "d">>>>
SomeTrees == <<RootTree, LowerTree, CoveredTree, UpperTree>>
WrittenNames == UNION {[1..n -> {"d", "f", "l", "p", "o", "m", ".", "..", "x"}] : n \in 1..3}
Walks == {<<>>, <<"d">>, <<"m", "d">>} \X [abs : BOOLEAN, comps : WrittenNames, slash : BOOLEAN] \X BOOLEAN

(* Descriptors of one file and of another, of a regular file, closed and   *)
(* negative ones; every readiness that matters.                            *)
SomeTable == 0 :> "x" @@ 1 :> "x" @@ 2 :> "y" @@ 3 :> "g"
Entry(fds, events) == [fd : fds, events : events]
Events == {{}, {"in"}, {"out"}, {"in", "out"}, {"pri"}}
Entries == LET some == Entry({0, 1, 3}, {{"in"}, {"out"}})
               all == Entry(-1..4, Events)
           IN  [1..1 -> all] \cup [1..2 -> all] \cup [1..3 -> some]
Readies == {("x" :> x @@ "y" :> y @@ "g" :> {"in", "out"}) :
              x \in {{}, {"in"}, {"out"}, {"hup"}, {"in", "err"}}, y \in {{}, {"in"}}}
Selects == {2, 4, 5} \X (SUBSET {0, 2}) \X (SUBSET {0, 1, 3}) \X (SUBSET {0, 1, 4}) \X Readies

Asks(kind) == CASE kind = "path" -> Walks
                [] kind = "poll" -> Entries \X Readies
                [] kind = "select" -> Selects

(* ZeroFrom<n>: the part that runs does not use v<n> and the ones above.   *)
ZeroFrom6 == v6 = 0 /\ v7 = 0 /\ v8 = 0 /\ v9 = 0 /\ v10 = 0 /\ v11 = 0
ZeroFrom2 == v2 = 0 /\ v3 = 0 /\ v4 = 0 /\ v5 = 0 /\ ZeroFrom6

MCInit ==
  /\ part \in Parts /\ LocksInit /\ PollInit /\ MountsInit /\ FakeInit /\ TmpInit
  /\ \/ part \in {"locks", "poll", "mounts", "fakefs", "tmpfs"} /\ v1 = 0 /\ ZeroFrom2
     \/ part = "sockets" /\ So!SocketsInit
     \/ part = "names" /\ Na!NameInit /\ ZeroFrom6
     \/ /\ part = "functions"
        /\ \E k \in {"path", "poll", "select"} : \E x \in Asks(k) : v1 = <<k>> \o x
        /\ ZeroFrom2

(* Threads, sockets and slots are alike: no property, no choice names one. *)
Swap == {f @@ g @@ h : f \in Permutations(PollThreads), g \in Permutations(Socks),
                        h \in Permutations(Slots)}

Others == <<v1, v2, v3, v4, v5, v6, v7, v8, v9, v10, v11>>

InstanceNext ==
  \/ part = "sockets" /\ So!SocketsNext
  \/ part = "names" /\ Na!NameNext /\ UNCHANGED <<v6, v7, v8, v9, v10, v11>>

(* A bound of tmpfs: once there are many entries nothing is in the files.  *)
SmallOrEmpty == \/ Len(tmpTree) <= 2
                \/ (\A f \in TmpFds : ~IsFile(f)) /\ \A e \in DOMAIN tmpData : tmpData[e] = <<>>

MCNext ==
  /\ UNCHANGED part
  /\ \/ part = "locks" /\ LocksNext /\ UNCHANGED <<pollVars, mountVars, fakeVars, tmpVars, Others>>
     \/ part = "poll" /\ PollNext /\ UNCHANGED <<lockVars, mountVars, fakeVars, tmpVars, Others>>
     \/ part = "mounts" /\ MountsNext /\ UNCHANGED <<lockVars, pollVars, fakeVars, tmpVars, Others>>
     \/ part = "fakefs" /\ Cardinality(torn) <= MaxTorn /\ FakeNext /\ UNCHANGED <<lockVars, pollVars, mountVars, tmpVars, Others>>
     \/ part = "tmpfs" /\ TmpNext /\ SmallOrEmpty' /\ UNCHANGED <<lockVars, pollVars, mountVars, fakeVars, Others>>
     \/ InstanceNext /\ UNCHANGED <<lockVars, pollVars, mountVars, fakeVars, tmpVars>>

(* Sockets: peers, passed descriptors and names (fs/sock.c).               *)
SocketsSound == (part = "sockets" => So!SocketsSafe) /\ (part = "names" => Na!NamesSafe)

(* path_normalize finds what a walk of the directories finds (fs/path.c),  *)
(* and poll and select report of each descriptor what its file is ready    *)
(* for, however many of them are the same file (kernel/poll.c).            *)
CallsExact ==
  part = "functions" =>
    CASE v1[1] = "path" -> PathExact(v1[2], v1[3], v1[4])
      [] v1[1] = "poll" -> PollExact(v1[2], v1[3])
      [] v1[1] = "select" -> SelectExact(v1[2], v1[3], v1[4], v1[5], v1[6])
============================================================================
