----------------------------- MODULE PollCalls -----------------------------
(***************************************************************************)
(* poll and select (kernel/poll.c), as functions of what the caller asks   *)
(* and of what the files are ready for.  poll keeps one registration for   *)
(* each file, however many entries of the array name it, and distributes   *)
(* what poll_wait reports over them.  Waiting itself is module Poll.       *)
(***************************************************************************)
EXTENDS Integers, Sequences, SequencesExt, FiniteSets

CONSTANTS PollTable,    \* descriptor -> file, for the open descriptors
          RegularFiles  \* the files that are regular files or directories

Conditions == {"in", "out", "pri", "hup", "err"}
NoFile == "none"
AlwaysListening == {"err", "hup", "nval"}

\* fdtable_get: nothing for a negative or a closed descriptor.
FileOf(fd) == IF fd \in DOMAIN PollTable THEN PollTable[fd] ELSE NoFile

\* What one pass of poll_wait reports of a file.
Reports(ready, types) == ready \cap (types \cup {"hup", "err"})

-----------------------------------------------------------------------------
(* sys_poll(entries), an entry being fd and events.                        *)

\* poll_event_callback: every entry of the file gets what it asked for.
Distribute(entries, revents, f, types) ==
  [i \in DOMAIN entries |-> IF FileOf(entries[i].fd) = f
                            THEN types \cap (entries[i].events \cup AlwaysListening) ELSE revents[i]]

\* The entries from i that are registered together.
JustThis(entries, added, i) == {i}
Together(entries, added, i) ==
  {i} \cup {j \in DOMAIN entries \ added : FileOf(entries[j].fd) = FileOf(entries[i].fd)}

\* One turn of the loop that turns the array into registrations.
Register(entries, st, i) ==
  LET f == FileOf(entries[i].fd)
      group == Together(entries, st.added, i)
      events == UNION {entries[j].events : j \in group} IN
  IF entries[i].fd < 0 \/ i \in st.added THEN st
  ELSE IF f = NoFile
  THEN [st EXCEPT !.added = @ \cup {i}, !.revents[i] = {"nval"}, !.ready = TRUE]
  ELSE IF f \in RegularFiles
  THEN [st EXCEPT !.added = @ \cup group,
                  !.revents = Distribute(entries, @, f, {"in", "out"}),
                  !.ready = @ \/ events \cap {"in", "out"} # {}]
  ELSE [st EXCEPT !.added = @ \cup group,
                  !.polled = Append(@, [file |-> f, types |-> events \cup AlwaysListening])]

Registered(entries) ==
  FoldLeft(LAMBDA st, i : Register(entries, st, i),
           [added |-> {}, revents |-> [i \in DOMAIN entries |-> {}], ready |-> FALSE, polled |-> <<>>],
           [i \in 1..Len(entries) |-> i])

\* poll_wait over the registrations and the count of the entries with a result.
\* "waits" holds when the call goes to sleep.
PollCall(entries, readyOf) ==
  LET st == Registered(entries)
      firing == SelectSeq(st.polled, LAMBDA p : Reports(readyOf[p.file], p.types) # {})
      revents == FoldLeft(LAMBDA r, p : Distribute(entries, r, p.file, Reports(readyOf[p.file], p.types)),
                          st.revents, firing) IN
  [revents |-> revents, waits |-> ~st.ready /\ firing = <<>>,
   count |-> Cardinality({i \in DOMAIN entries : revents[i] # {}})]

\* Every entry is answered as if it had been asked about alone, also when
\* several name one file with different events; the call sleeps exactly when no
\* entry has an answer, and otherwise counts the entries that do.
PollExact(entries, readyOf) ==
  LET r == PollCall(entries, readyOf)
      Alone(e) == LET f == FileOf(e.fd) IN
                  IF e.fd < 0 THEN {}
                  ELSE IF f = NoFile THEN {"nval"}
                  ELSE IF f \in RegularFiles THEN e.events \cap {"in", "out"}
                  ELSE readyOf[f] \cap (e.events \cup {"hup", "err"}) IN
  /\ \A i \in DOMAIN entries : r.revents[i] = Alone(entries[i])
  /\ r.waits <=> r.count = 0

-----------------------------------------------------------------------------
(* select_common(nfds, reads, writes, excepts), sets of descriptors.       *)

SelectRead == {"in", "hup", "err"}
SelectWrite == {"out", "err"}
SelectEx == {"pri"}
BadFd == [reads |-> {}, writes |-> {}, excepts |-> {}, count |-> -9]   \* _EBADF

SelectCall(nfds, reads, writes, excepts, readyOf) ==
  LET asked == {i \in reads \cup writes \cup excepts : i < nfds}
      Events(i) == (IF i \in reads THEN SelectRead ELSE {}) \cup (IF i \in writes THEN SelectWrite ELSE {})
                     \cup (IF i \in excepts THEN SelectEx ELSE {})
      Types(i) == Reports(readyOf[FileOf(i)], Events(i))
      Bits(which) == {i \in asked : Types(i) \cap which # {}} IN
  IF \E i \in asked : FileOf(i) = NoFile THEN BadFd
  ELSE [reads |-> Bits(SelectRead), writes |-> Bits(SelectWrite), excepts |-> Bits(SelectEx),
        count |-> Cardinality({i \in asked : Types(i) # {}})]

\* The bits that were asked for come back exactly when the file is ready for
\* them; another bit only for a file in error or hung up, and none at all only
\* when the count is zero.
SelectExact(nfds, reads, writes, excepts, readyOf) ==
  LET r == SelectCall(nfds, reads, writes, excepts, readyOf)
      Ready(i, which) == i < nfds /\ readyOf[FileOf(i)] \cap which # {} IN
  r # BadFd =>
    /\ r.reads \cap reads = {i \in reads : Ready(i, SelectRead)}
    /\ r.writes \cap writes = {i \in writes : Ready(i, SelectWrite)}
    /\ r.excepts = {i \in excepts : Ready(i, SelectEx)}
    /\ \A i \in (r.reads \ reads) \cup (r.writes \ writes) : readyOf[FileOf(i)] \cap {"hup", "err"} # {}
    /\ r.count = 0 <=> r.reads \cup r.writes \cup r.excepts = {}
=============================================================================
