------------------------------ MODULE Sockets ------------------------------
(***************************************************************************)
(* Local sockets (AF_LOCAL) of fs/sock.c on the host's sockets.  Two facts *)
(* about a connection live in the emulator and not in the host: which      *)
(* struct fd is at the other end (unix_peer, under peer_lock), and the     *)
(* descriptors sent with a message (struct scm on unix_scm); the host      *)
(* message only carries a dummy descriptor that says "one scm".  The two   *)
(* sides must agree although a call changes them in separate steps.        *)
(*                                                                         *)
(* A program does not close a socket while it is in another call on it     *)
(* (FdTable models that hazard).  Each scm holds one descriptor.           *)
(***************************************************************************)
EXTENDS Integers, Sequences, FiniteSets, SequencesExt

CONSTANTS Socks,        \* struct fd with socket_fdops
          SockThreads,  \* guest threads
          Passed,       \* files whose descriptors are sent
          Scms,         \* struct scm ever allocated (bound)
          MaxInbox,     \* messages in a host buffer (bound)
          RecvFlags     \* subset of {"none", "peek"}: flags given to recvmsg

NoSock == "no socket"
NoScm == "no scm"
Anyone == "nobody"

VARIABLES
  sock,      \* socket -> state, host (its host socket), peer (unix_peer), scm (unix_scm)
  hostLink,  \* socket -> the socket whose host end its own host end is connected to
  hostIn,    \* socket -> messages in the host's receive buffer, the scm sent with each
  backlog,   \* listening socket -> connections the host keeps for accept
  greeted,   \* sockets whose pointer is in the host stream, not read yet
  peerLock,  \* who holds peer_lock
  sockAt,    \* thread -> the call it is in: at, s, other, scm
  scmSt,     \* scm -> state and file
  passRefs,  \* file -> refcount
  passGot,   \* file -> descriptors installed by recvmsg
  sockOdd    \* history of what puts the two sides out of step

sockVars == <<sock, hostLink, hostIn, backlog, greeted, peerLock, sockAt, scmSt,
              passRefs, passGot, sockOdd>>

NotInCall == [at |-> "idle", s |-> NoSock, other |-> NoSock, scm |-> NoScm]
FreshScm == [state |-> "new", file |-> CHOOSE f \in Passed : TRUE]
Unmade == [state |-> "none", host |-> "new", peer |-> NoSock, scm |-> <<>>]
InCall(s) == \E t \in SockThreads : sockAt[t].at # "idle" /\ s \in {sockAt[t].s, sockAt[t].other}

SocketsInit ==
  /\ sock = [s \in Socks |-> Unmade]
  /\ hostLink = [s \in Socks |-> NoSock]
  /\ hostIn = [s \in Socks |-> <<>>]
  /\ backlog = [s \in Socks |-> <<>>]
  /\ greeted = {} /\ peerLock = Anyone
  /\ sockAt = [t \in SockThreads |-> NotInCall]
  /\ scmSt = [i \in Scms |-> FreshScm]
  /\ passRefs = [f \in Passed |-> 1]
  /\ passGot = [f \in Passed |-> 0]
  /\ sockOdd = {}

SockOpen(s) == sock[s].state = "open"
Enter(t, call) == sockAt[t].at = "idle" /\ sockAt' = [sockAt EXCEPT ![t] = call]
Move(t, from, to) == sockAt[t].at = from /\ sockAt' = [sockAt EXCEPT ![t].at = to]
Leave(t, from) == sockAt[t].at = from /\ sockAt' = [sockAt EXCEPT ![t] = NotInCall]

ScmSame == UNCHANGED <<scmSt, passRefs, passGot, sockOdd>>

-----------------------------------------------------------------------------
(* Making and connecting sockets.                                          *)

SysSocket(s) ==
  /\ sock[s].state = "none"
  /\ sock' = [sock EXCEPT ![s].state = "open"]
  /\ UNCHANGED <<hostLink, hostIn, backlog, greeted, peerLock, sockAt>> /\ ScmSame

\* sys_socketpair: two installed descriptors, then each is the peer of the
\* other.  Every failure closes what was made, which Close does.
SysSocketpair(a, b) ==
  /\ a # b /\ sock[a].state = "none" /\ sock[b].state = "none" /\ peerLock = Anyone
  /\ sock' = [sock EXCEPT ![a] = [Unmade EXCEPT !.state = "open", !.host = "linked", !.peer = b],
                          ![b] = [Unmade EXCEPT !.state = "open", !.host = "linked", !.peer = a]]
  /\ hostLink' = [hostLink EXCEPT ![a] = b, ![b] = a]
  /\ UNCHANGED <<hostIn, backlog, greeted, peerLock, sockAt>> /\ ScmSame

SysListen(s) ==
  /\ SockOpen(s) /\ sock[s].host = "new"
  /\ sock' = [sock EXCEPT ![s].host = "listening"]
  /\ UNCHANGED <<hostLink, hostIn, backlog, greeted, peerLock, sockAt>> /\ ScmSame

\* sys_connect: the host connects at once; the pointer goes through the host
\* socket; then the call waits, whatever signals arrive, for accept to set the peer.
Connect(t, c, l) ==
  /\ SockOpen(c) /\ sock[c].host = "new" /\ ~InCall(c)
  /\ SockOpen(l) /\ sock[l].host = "listening"
  /\ Enter(t, [NotInCall EXCEPT !.at = "connected", !.s = c])
  /\ sock' = [sock EXCEPT ![c].host = "linked"]
  /\ backlog' = [backlog EXCEPT ![l] = Append(@, c)]
  /\ UNCHANGED <<hostLink, hostIn, greeted, peerLock>> /\ ScmSame

SendPointer(t) ==
  LET c == sockAt[t].s IN
  /\ sockAt[t].at = "connected"
  /\ IF sock[c].host = "linked"
     THEN Move(t, "connected", "wait") /\ greeted' = greeted \cup {c}
     ELSE Leave(t, "connected") /\ UNCHANGED greeted
  /\ UNCHANGED <<sock, hostLink, hostIn, backlog, peerLock>> /\ ScmSame

GotPeer(t) ==
  /\ sockAt[t].at = "wait" /\ peerLock = Anyone /\ sock[sockAt[t].s].peer # NoSock
  /\ Leave(t, "wait")
  /\ UNCHANGED <<sock, hostLink, hostIn, backlog, greeted, peerLock>> /\ ScmSame

\* sys_accept: the host end gets a struct fd and is installed, or closed if
\* there is no room, or left open if the address cannot be written; only then
\* is the pointer read, under peer_lock.
Accept(t, l, d) ==
  LET c == Head(backlog[l]) IN
  /\ SockOpen(l) /\ backlog[l] # <<>>
  /\ backlog' = [backlog EXCEPT ![l] = Tail(@)]
  /\ \/ /\ sock[d].state = "none"
        /\ Enter(t, [NotInCall EXCEPT !.at = "accepted", !.s = l, !.other = d])
        /\ sock' = [sock EXCEPT ![d].state = "open", ![d].host = "linked"]
        /\ hostLink' = [hostLink EXCEPT ![c] = d, ![d] = c]
     \/ /\ sockAt[t].at = "idle"
        /\ sock' \in {sock, [sock EXCEPT ![c].host = "eof"]}
        /\ UNCHANGED <<hostLink, sockAt>>
  /\ UNCHANGED <<hostIn, greeted, peerLock>> /\ ScmSame

AcceptLock(t) ==
  /\ peerLock = Anyone /\ Move(t, "accepted", "reading")
  /\ peerLock' = t
  /\ UNCHANGED <<sock, hostLink, hostIn, backlog, greeted>> /\ ScmSame

PairUp(d, c) == [sock EXCEPT ![d].peer = c, ![c].peer = d]

AcceptRead(t) ==
  LET d == sockAt[t].other
      c == hostLink[d] IN
  /\ Leave(t, "reading") /\ peerLock' = Anyone
  /\ c \in greeted
  /\ sock' = PairUp(d, c)
  /\ greeted' = greeted \ {c}
  /\ UNCHANGED <<hostLink, hostIn, backlog>> /\ ScmSame

-----------------------------------------------------------------------------
(* Messages.  The host delivers to the other end while that is open.       *)

FarEnd(s) == IF sock[s].host = "linked" THEN hostLink[s] ELSE NoSock
InboxRoom(s) == FarEnd(s) # NoSock /\ Len(hostIn[FarEnd(s)]) < MaxInbox
Sends(t) == sockAt[t].at \in {"queued", "undo"}

\* sys_sendto, sys_send, sock_write: bytes only.  A socket that is still
\* connecting is not sent to: its peer reads the pointer first.
SysSendto(s) ==
  /\ SockOpen(s) /\ ~InCall(s) /\ InboxRoom(s)
  /\ hostIn' = [hostIn EXCEPT ![FarEnd(s)] = Append(@, NoScm)]
  /\ UNCHANGED <<sock, hostLink, backlog, greeted, peerLock, sockAt>> /\ ScmSame

\* sys_sendmsg with SCM_RIGHTS: the scm is on the peer's queue before the host
\* is asked to send.  Without a peer the call fails and nothing is changed.
SysSendmsg(t, s, i, f) ==
  LET p == sock[s].peer IN
  /\ SockOpen(s) /\ p # NoSock /\ peerLock = Anyone /\ scmSt[i].state = "new"
  /\ Enter(t, [NotInCall EXCEPT !.at = "queued", !.s = s, !.scm = i])
  /\ scmSt' = [scmSt EXCEPT ![i] = [state |-> "live", file |-> f]]
  /\ passRefs' = [passRefs EXCEPT ![f] = @ + 1]
  /\ sock' = [sock EXCEPT ![p].scm = Append(@, i)]
  /\ sockOdd' = sockOdd \cup
       IF \E u \in SockThreads : Sends(u) /\ sockAt[u].s = s THEN {"crossed"} ELSE {}
  /\ UNCHANGED <<hostLink, hostIn, backlog, greeted, peerLock, passGot>>

HostSends(t) ==
  LET s == sockAt[t].s IN
  /\ Leave(t, "queued") /\ InboxRoom(s)
  /\ hostIn' = [hostIn EXCEPT ![FarEnd(s)] = Append(@, sockAt[t].scm)]
  /\ UNCHANGED <<sock, hostLink, backlog, greeted, peerLock>> /\ ScmSame

\* The host refuses: the other end is closed, or its buffer is full.
HostRefuses(t) ==
  /\ Move(t, "queued", "undo")
  /\ UNCHANGED <<sock, hostLink, hostIn, backlog, greeted, peerLock>> /\ ScmSame

\* scm_free closes the descriptors it holds, whoever else uses them by now.
Freed(i) == [scmSt EXCEPT ![i].state = "freed"]
FewerRefs(is) ==
  [f \in Passed |-> passRefs[f] - Cardinality({i \in is : scmSt[i].file = f})]

\* out_free_scm: list_remove_safe unlinks the scm from the list it is still on.
Unqueued(i) == [s \in Socks |-> [sock[s] EXCEPT !.scm = SelectSeq(@, LAMBDA j : j # i)]]

SendUndo(t) ==
  LET i == sockAt[t].scm IN
  /\ Leave(t, "undo") /\ peerLock = Anyone
  /\ sock' = IF sock[sockAt[t].s].peer = NoSock THEN sock ELSE Unqueued(i)
  /\ scmSt' = Freed(i)
  /\ passRefs' = FewerRefs({i})
  /\ sockOdd' = sockOdd \cup IF scmSt[i].state = "live" THEN {} ELSE {"freed twice"}
  /\ UNCHANGED <<hostLink, hostIn, backlog, greeted, peerLock, passGot>>

\* sys_recvfrom, sys_recv, sock_read, and sys_recvmsg without room for control
\* data or with a bad buffer: the dummy descriptor is lost, the scm stays queued.
SysRecvfrom(s) ==
  /\ SockOpen(s) /\ ~InCall(s) /\ hostIn[s] # <<>>
  /\ hostIn' = [hostIn EXCEPT ![s] = Tail(@)]
  /\ sockOdd' = sockOdd \cup IF Head(hostIn[s]) = NoScm THEN {} ELSE {"rights dropped"}
  /\ UNCHANGED <<sock, hostLink, backlog, greeted, peerLock, sockAt, scmSt, passRefs, passGot>>

\* sys_recvmsg with room: a message with a dummy descriptor means one scm.
SysRecvmsg(t, s, flag) ==
  /\ SockOpen(s) /\ hostIn[s] # <<>>
  /\ hostIn' = IF flag = "peek" THEN hostIn ELSE [hostIn EXCEPT ![s] = Tail(@)]
  /\ IF Head(hostIn[s]) = NoScm THEN sockAt[t].at = "idle" /\ UNCHANGED sockAt
     ELSE Enter(t, [NotInCall EXCEPT !.at = "take", !.s = s, !.scm = Head(hostIn[s])])
  /\ sockOdd' = sockOdd \cup
       IF \E u \in SockThreads : sockAt[u].at = "take" /\ sockAt[u].s = s THEN {"crossed"} ELSE {}
  /\ UNCHANGED <<sock, hostLink, backlog, greeted, peerLock, scmSt, passRefs, passGot>>

NewestScm(s) == Last(sock[s].scm)
NextScm(s) == Head(sock[s].scm)

TakeScm(t) ==
  LET s == sockAt[t].s
      i == NextScm(s) IN
  /\ Leave(t, "take") /\ sock[s].scm # <<>>
  /\ sock' = Unqueued(i)
  /\ scmSt' = [scmSt EXCEPT ![i].state = "installed"]
  /\ \/ passGot' = [passGot EXCEPT ![scmSt[i].file] = @ + 1] /\ UNCHANGED passRefs
     \/ UNCHANGED passGot /\ passRefs' = FewerRefs({i})   \* f_install failed and closed it
  /\ sockOdd' = sockOdd
       \cup (IF sockAt[t].scm = i THEN {} ELSE {"wrong rights"})
       \cup (IF scmSt[i].state = "live" THEN {} ELSE {"freed twice"})
       \cup (IF \E u \in SockThreads : Sends(u) /\ sockAt[u].scm = i THEN {"taken early"} ELSE {})
  /\ UNCHANGED <<hostLink, hostIn, backlog, greeted, peerLock>>

\* sock_close: the peer forgets this socket, the descriptors nobody received
\* are closed, the host end goes with its buffer and its backlog.
PeerForgets(s) == [x \in Socks |-> IF x = sock[s].peer THEN [sock[x] EXCEPT !.peer = NoSock] ELSE sock[x]]

SockClose(s) ==
  LET is == ToSet(sock[s].scm)
      cut == {x \in Socks : x = FarEnd(s) \/ x \in ToSet(backlog[s])} IN
  /\ SockOpen(s) /\ ~InCall(s) /\ peerLock = Anyone
  /\ sock' = [x \in Socks |->
       IF x = s THEN [Unmade EXCEPT !.state = "closed"]
       ELSE [PeerForgets(s)[x] EXCEPT !.host = IF x \in cut THEN "eof" ELSE @]]
  /\ scmSt' = [i \in Scms |-> IF i \in is THEN [scmSt[i] EXCEPT !.state = "freed"] ELSE scmSt[i]]
  /\ passRefs' = FewerRefs(is)
  /\ sockOdd' = sockOdd \cup
       IF \E t \in SockThreads : Sends(t) /\ sockAt[t].scm \in is THEN {"closed early"} ELSE {}
  /\ hostIn' = [hostIn EXCEPT ![s] = <<>>]
  /\ backlog' = [backlog EXCEPT ![s] = <<>>]
  /\ UNCHANGED <<hostLink, greeted, peerLock, sockAt, passGot>>

Calling(t) ==
  \/ \E c, l \in Socks : Connect(t, c, l) \/ Accept(t, c, l)
  \/ \E s \in Socks, i \in Scms, f \in Passed : SysSendmsg(t, s, i, f)
  \/ \E s \in Socks, flag \in RecvFlags : SysRecvmsg(t, s, flag)

Going(t) ==
  \/ SendPointer(t) \/ GotPeer(t) \/ AcceptLock(t) \/ AcceptRead(t)
  \/ HostSends(t) \/ HostRefuses(t) \/ SendUndo(t) \/ TakeScm(t)

SocketsNext ==
  \/ \E s \in Socks : SysSocket(s) \/ SysListen(s) \/ SysSendto(s) \/ SysRecvfrom(s) \/ SockClose(s)
  \/ \E a, b \in Socks : SysSocketpair(a, b)
  \/ \E t \in SockThreads : Calling(t) \/ Going(t)

SocketsSpec == SocketsInit /\ [][SocketsNext]_sockVars

-----------------------------------------------------------------------------
(* Properties.                                                             *)

SocketsTypeOK ==
  /\ \A s \in Socks : /\ sock[s].state \in {"none", "open", "closed"}
                      /\ sock[s].host \in {"new", "listening", "linked", "eof"}
                      /\ sock[s].peer \in Socks \cup {NoSock}
                      /\ sock[s].scm \in Seq(Scms)
  /\ peerLock \in SockThreads \cup {Anyone}
  /\ \A f \in Passed : passRefs[f] \in Int

\* unix_peer points to an open socket that points back, on the host connection
\* the two share; nobody ever follows a pointer to a closed socket.
PeersMutual ==
  \A s \in Socks : sock[s].peer # NoSock =>
    LET p == sock[s].peer IN
    /\ SockOpen(s) /\ SockOpen(p) /\ sock[p].peer = s
    /\ hostLink[s] = p /\ hostLink[p] = s

\* A host message that carries the dummy descriptor, in the buffer or just
\* received, has an scm on the queue: the assertion of sys_recvmsg.
RightsIn(s) == Cardinality({k \in 1..Len(hostIn[s]) : hostIn[s][k] # NoScm})
ScmNotEmpty ==
  \A s \in Socks : SockOpen(s) =>
    Len(sock[s].scm) >= RightsIn(s) + Cardinality({t \in SockThreads : sockAt[t].at = "take" /\ sockAt[t].s = s})

\* A message is received with its own descriptors, unless an earlier receiver
\* gave no room for them or two calls to sendmsg, or to recvmsg, on one socket
\* overlapped.
OwnRights == "wrong rights" \in sockOdd => sockOdd \cap {"rights dropped", "crossed"} # {}

\* Every reference to a passed file is the sender's own, an installed
\* descriptor, or an scm that is still to be received.  The count is short
\* only after the receiver took or closed the scm before the host refused its
\* message.
PassedCounted ==
  IF "freed twice" \in sockOdd
  THEN sockOdd \cap {"closed early", "taken early"} # {}
  ELSE \A f \in Passed :
         passRefs[f] = 1 + passGot[f]
           + Cardinality({i \in Scms : scmSt[i].state = "live" /\ scmSt[i].file = f})

\* An scm is on the queue of at most one socket, once, and until it is received,
\* taken back or freed.
QueuesSound ==
  \A i \in Scms :
    Cardinality({<<s, k>> \in Socks \X (1..Cardinality(Scms)) :
                   k <= Len(sock[s].scm) /\ sock[s].scm[k] = i})
      = IF scmSt[i].state = "live" THEN 1 ELSE 0

\* Peer pointers, queues of descriptors and host messages of local sockets stay
\* in step through connect, accept, sendmsg, recvmsg and close.
SocketsSafe ==
  SocketsTypeOK /\ PeersMutual /\ ScmNotEmpty /\ OwnRights /\ PassedCounted /\ QueuesSound
=============================================================================
