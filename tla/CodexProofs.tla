---------------------------- MODULE CodexProofs ----------------------------
(***************************************************************************)
(* The Codex application for any number of requests, connections, threads, *)
(* tasks, texts, turns and faults.  Its client of the app-server: every    *)
(* continuation is resumed exactly once, and nothing waits without a       *)
(* connection.  Its workspace: what the user typed is kept, no turn is     *)
(* shown that has ended, and timelines are true.                           *)
(***************************************************************************)
EXTENDS RPCClient, Workspace, SequenceTheorems, FiniteSetTheorems, TLAPS

(* An id that has not been handed out has not been resumed either.         *)
FreshUnresumed == \A i \in Ids : i >= nextRequestID => outcome[i] = "none"

IInv ==
  /\ ClientTypeOK
  /\ ResumedExactlyOnce
  /\ FreshUnresumed
  /\ NothingPendingOffline

(* The part of the invariant that concerns the table of requests.          *)
Table == ResumedExactlyOnce /\ FreshUnresumed /\ NothingPendingOffline

(* Ids are natural numbers.                                                *)
LEMMA IdsNat == Ids \subseteq Nat /\ \A i \in Ids : i <= MaxRequests /\ i >= 1
BY RPCAssumption DEF Ids

(* Nothing is known and nothing waits at the start.                        *)
LEMMA InitIInv == ClientInit => IInv
<1> SUFFICES ASSUME ClientInit PROVE IInv
  OBVIOUS
<1>1. ClientTypeOK
  BY RPCAssumption DEF ClientInit, ClientTypeOK, Idle, NoSocket, Ids, Sockets
<1>2. Table
  BY IdsNat DEF ClientInit, Table, ResumedExactlyOnce, FreshUnresumed,
     NothingPendingOffline
<1> QED  BY <1>1, <1>2 DEF IInv, Table

(* Resolving a request, pending or not, keeps the table in order.          *)
LEMMA ResolveTable ==
  ASSUME IInv, NEW id \in Ids, NEW how \in {"ok", "error"}, Resolve(id, how),
         UNCHANGED <<socket, nextRequestID, via>>
  PROVE  /\ Table'
         /\ pending' \subseteq Ids /\ deadlines' \subseteq Ids
         /\ outcome' \in [Ids -> {"none", "ok", "error", "twice"}]
<1>1. outcome' \in [Ids -> {"none", "ok", "error", "twice"}]
  BY DEF IInv, ClientTypeOK, Resolve, WithOutcome
<1>2. pending' \subseteq Ids /\ deadlines' \subseteq Ids
  BY DEF IInv, ClientTypeOK, Resolve
<1>3. CASE id \in pending
  <2>1. \A i \in Ids : outcome'[i] = IF i = id THEN how ELSE outcome[i]
    BY <1>3 DEF IInv, ResumedExactlyOnce, Resolve, WithOutcome
  <2>2. pending' = pending \ {id} /\ deadlines' = deadlines \ {id}
    BY <1>3 DEF Resolve
  <2>3. id < nextRequestID
    BY <1>3 DEF IInv, ResumedExactlyOnce
  <2>4. ResumedExactlyOnce'
    BY <2>1, <2>2 DEF IInv, ResumedExactlyOnce
  <2>5. FreshUnresumed'
    BY <2>1, <2>3, IdsNat DEF IInv, ClientTypeOK, FreshUnresumed
  <2>6. NothingPendingOffline'
    BY <2>2 DEF IInv, NothingPendingOffline
  <2> QED  BY <1>1, <1>2, <2>4, <2>5, <2>6 DEF Table
<1>4. CASE id \notin pending
  <2>1. outcome' = outcome /\ pending' = pending /\ deadlines' = deadlines
    BY <1>4 DEF IInv, ClientTypeOK, Resolve, WithOutcome
  <2> QED
    BY <1>1, <1>2, <2>1
    DEF Table, IInv, ResumedExactlyOnce, FreshUnresumed, NothingPendingOffline
<1> QED  BY <1>3, <1>4

(* disconnect resumes everyone and empties the table.                      *)
LEMMA DisconnectTable ==
  ASSUME IInv, NEW final, Disconnect(final), UNCHANGED <<nextRequestID, via>>
  PROVE  /\ Table'
         /\ pending' = {} /\ deadlines' = {}
         /\ outcome' \in [Ids -> {"none", "ok", "error", "twice"}]
<1>1. \A i \in Ids :
        outcome'[i] = IF i \in pending THEN "error" ELSE outcome[i]
  BY DEF IInv, ResumedExactlyOnce, Disconnect, RejectPending, WithOutcome
<1>2. pending' = {} /\ deadlines' = {}
  BY DEF Disconnect, RejectPending
<1>3. ResumedExactlyOnce'
  BY <1>1, <1>2 DEF IInv, ResumedExactlyOnce
<1>4. FreshUnresumed'
  BY <1>1, IdsNat, RPCAssumption
  DEF IInv, ClientTypeOK, ResumedExactlyOnce, FreshUnresumed
<1>5. NothingPendingOffline'
  BY <1>2 DEF NothingPendingOffline
<1>6. outcome' \in [Ids -> {"none", "ok", "error", "twice"}]
  BY DEF IInv, ClientTypeOK, Disconnect, RejectPending, WithOutcome
<1> QED  BY <1>2, <1>3, <1>4, <1>5, <1>6 DEF Table

(* Steps that leave the table and the connection alone.                    *)
LEMMA QuietTable ==
  ASSUME IInv,
         UNCHANGED <<socket, nextRequestID, pending, deadlines, via, outcome>>
  PROVE  Table'
BY DEF IInv, Table, ResumedExactlyOnce, FreshUnresumed, NothingPendingOffline

(* connect starts: the old table is emptied, one new request enters.       *)
LEMMA ConnectBeginIInv ==
  ASSUME IInv, NEW c \in Callers, ConnectBegin(c) PROVE IInv'
<1> DEFINE id == nextRequestID
<1>1. id \in Ids /\ generation' \in Sockets /\ generation' = generation + 1
  BY RPCAssumption DEF ConnectBegin, FreshId, IInv, ClientTypeOK, Sockets
<1>2. /\ \A i \in Ids :
           outcome'[i] = IF i \in pending THEN "error" ELSE outcome[i]
      /\ pending' = {id} /\ deadlines' = {id}
      /\ nextRequestID' = id + 1
      /\ socket' = generation'
  BY DEF IInv, ResumedExactlyOnce, ConnectBegin, RejectPending, WithOutcome,
     FreshId
<1>3. outcome' \in [Ids -> {"none", "ok", "error", "twice"}]
  BY DEF IInv, ClientTypeOK, ConnectBegin, RejectPending, WithOutcome
<1>4. via' = [via EXCEPT ![id] = generation']
  BY DEF ConnectBegin, FreshId
<1>5. id \notin pending /\ outcome[id] = "none" /\ id \in Nat
  BY <1>1, IdsNat DEF IInv, ResumedExactlyOnce, FreshUnresumed
<1>6. ResumedExactlyOnce'
  <2> SUFFICES ASSUME NEW i \in Ids
               PROVE  /\ i \in {id} <=> i < id + 1 /\ outcome'[i] = "none"
                      /\ outcome'[i] # "twice"
    BY <1>2 DEF ResumedExactlyOnce
  <2>1. CASE i = id
    BY <2>1, <1>2, <1>5
  <2>2. CASE i # id
    <3>1. i < id + 1 <=> i < id
      BY <2>2, <1>5, IdsNat
    <3> QED  BY <2>2, <3>1, <1>2 DEF IInv, ResumedExactlyOnce
  <2> QED  BY <2>1, <2>2
<1>7. FreshUnresumed'
  BY <1>2, <1>5, IdsNat DEF IInv, ResumedExactlyOnce, FreshUnresumed
<1>8. NothingPendingOffline'
  BY <1>1, <1>2, <1>4, RPCAssumption
  DEF IInv, ClientTypeOK, NothingPendingOffline, Sockets, NoSocket
<1>9. ClientTypeOK'
  <2>1. /\ state' \in {"disconnected", "connecting", "connected", "failed"}
        /\ generation' \in Nat /\ socket' \in 0 .. MaxGeneration
        /\ nextRequestID' \in 1 .. MaxRequests + 1
        /\ pending' \subseteq Ids /\ deadlines' \subseteq Ids
        /\ expired' \subseteq Ids /\ cancelling' \subseteq Ids
        /\ served' \subseteq Ids /\ broken' \subseteq Sockets
    BY <1>1, <1>2, RPCAssumption
    DEF IInv, ClientTypeOK, ConnectBegin, taskVars, Sockets, Ids
  <2>2. sending' \subseteq Ids /\ receivers' \subseteq Sockets
    BY <1>1 DEF IInv, ClientTypeOK, ConnectBegin, FreshId
  <2>3. via' \in [Ids -> 0 .. MaxGeneration]
    BY <1>1, <1>4, RPCAssumption DEF IInv, ClientTypeOK, Sockets
  <2>4. call' \in [Callers -> [at : {"idle", "initialize", "notify"},
                               gen : 0 .. MaxGeneration, id : 0 .. MaxRequests]]
    BY <1>1, RPCAssumption
    DEF IInv, ClientTypeOK, ConnectBegin, FreshId, Sockets, Ids
  <2> QED  BY <2>1, <2>2, <2>3, <2>4, <1>3 DEF ClientTypeOK
<1> QED  BY <1>6, <1>7, <1>8, <1>9 DEF IInv

(* The rest of connect.                                                    *)
LEMMA ConnectIInv ==
  ASSUME IInv, NEW c \in Callers,
         ConnectNotify(c) \/ ConnectEnd(c) \/ ConnectFails(c)
  PROVE  IInv'
<1>1. CASE ConnectNotify(c)
  <2>1. Table'
    BY <1>1, QuietTable DEF ConnectNotify
  <2>2. ClientTypeOK'
    BY <1>1 DEF IInv, ClientTypeOK, ConnectNotify, taskVars
  <2> QED  BY <2>1, <2>2 DEF IInv, Table
<1>2. CASE ConnectEnd(c)
  <2>1. Table'
    BY <1>2, QuietTable DEF ConnectEnd
  <2>2. ClientTypeOK'
    BY <1>2, RPCAssumption DEF IInv, ClientTypeOK, ConnectEnd, taskVars, Idle
  <2> QED  BY <2>1, <2>2 DEF IInv, Table
<1>3. CASE ConnectFails(c)
  <2>1. call' \in [Callers -> [at : {"idle", "initialize", "notify"},
                               gen : 0 .. MaxGeneration, id : 0 .. MaxRequests]]
    BY <1>3, RPCAssumption DEF IInv, ClientTypeOK, ConnectFails, Idle
  <2>2. CASE generation = call[c].gen
    <3>1. Disconnect("failed")
      BY <1>3, <2>2 DEF ConnectFails
    <3>2. /\ Table' /\ pending' = {} /\ deadlines' = {}
          /\ outcome' \in [Ids -> {"none", "ok", "error", "twice"}]
      BY <1>3, <3>1, DisconnectTable DEF ConnectFails
    <3>3. ClientTypeOK'
      BY <1>3, <2>1, <3>1, <3>2, RPCAssumption
      DEF IInv, ClientTypeOK, ConnectFails, Disconnect, taskVars, NoSocket
    <3> QED  BY <3>2, <3>3 DEF IInv, Table
  <2>3. CASE generation # call[c].gen
    <3>1. UNCHANGED <<state, socket, generation, pending, deadlines, outcome>>
      BY <1>3, <2>3 DEF ConnectFails
    <3>2. Table'
      BY <1>3, <3>1, QuietTable DEF ConnectFails
    <3>3. ClientTypeOK'
      BY <1>3, <2>1, <3>1 DEF IInv, ClientTypeOK, ConnectFails, taskVars
    <3> QED  BY <3>2, <3>3 DEF IInv, Table
  <2> QED  BY <2>2, <2>3
<1> QED  BY <1>1, <1>2, <1>3

(* A new request enters the table of the connection of the moment.         *)
LEMMA RequestIInv ==
  ASSUME IInv, NEW timed \in BOOLEAN, Request(timed) PROVE IInv'
<1> DEFINE id == nextRequestID
<1>1. /\ id \in Ids /\ id \notin pending /\ outcome[id] = "none" /\ id \in Nat
      /\ socket # NoSocket
  BY IdsNat DEF Request, FreshId, IInv, ResumedExactlyOnce, FreshUnresumed
<1>2. /\ pending' = pending \cup {id}
      /\ deadlines' \subseteq deadlines \cup {id}
      /\ nextRequestID' = id + 1 /\ outcome' = outcome /\ socket' = socket
      /\ via' = [via EXCEPT ![id] = socket]
  BY DEF Request, FreshId
<1>3. ResumedExactlyOnce'
  <2> SUFFICES ASSUME NEW i \in Ids
               PROVE  /\ i \in pending' <=> i < id + 1 /\ outcome[i] = "none"
                      /\ outcome[i] # "twice"
    BY <1>2 DEF ResumedExactlyOnce
  <2>1. CASE i = id
    BY <2>1, <1>1, <1>2
  <2>2. CASE i # id
    <3>1. i < id + 1 <=> i < id
      BY <2>2, <1>1, IdsNat
    <3> QED  BY <2>2, <3>1, <1>2 DEF IInv, ResumedExactlyOnce
  <2> QED  BY <2>1, <2>2
<1>4. FreshUnresumed'
  BY <1>1, <1>2, IdsNat DEF IInv, FreshUnresumed
<1>5. NothingPendingOffline'
  BY <1>1, <1>2 DEF IInv, ClientTypeOK, NothingPendingOffline
<1>6. ClientTypeOK'
  <2>1. /\ pending' \subseteq Ids /\ deadlines' \subseteq Ids
        /\ nextRequestID' \in 1 .. MaxRequests + 1
        /\ via' \in [Ids -> 0 .. MaxGeneration]
    BY <1>1, <1>2, RPCAssumption DEF IInv, ClientTypeOK, Ids
  <2>2. sending' \subseteq Ids
    BY <1>1 DEF IInv, ClientTypeOK, Request, FreshId
  <2> QED
    BY <2>1, <2>2, <1>2 DEF IInv, ClientTypeOK, Request, taskVars
<1> QED  BY <1>3, <1>4, <1>5, <1>6 DEF IInv

(* The tasks of one request: sending, its deadline, its cancellation and   *)
(* its answer.                                                             *)
LEMMA TaskIInv ==
  ASSUME IInv, NEW id \in Ids,
         \/ SendOk(id) \/ SendFails(id) \/ DeadlineElapses(id)
         \/ DeadlineRuns(id) \/ Cancel(id) \/ CancelRuns(id)
         \/ \E s \in Sockets : ReceiveAnswer(s, id)
  PROVE  IInv'
<1>1. CASE SendOk(id)
  BY <1>1, QuietTable DEF SendOk, IInv, ClientTypeOK, Table
<1>2. CASE DeadlineElapses(id)
  BY <1>2, QuietTable DEF DeadlineElapses, IInv, ClientTypeOK, Table
<1>3. CASE Cancel(id)
  BY <1>3, QuietTable DEF Cancel, IInv, ClientTypeOK, Table
<1>4. CASE SendFails(id)
  BY <1>4, ResolveTable DEF SendFails, IInv, ClientTypeOK, Table, taskVars
<1>5. CASE DeadlineRuns(id)
  BY <1>5, ResolveTable DEF DeadlineRuns, IInv, ClientTypeOK, Table
<1>6. CASE CancelRuns(id)
  BY <1>6, ResolveTable DEF CancelRuns, IInv, ClientTypeOK, Table
<1>7. CASE \E s \in Sockets : ReceiveAnswer(s, id)
  <2>1. PICK s \in Sockets : ReceiveAnswer(s, id)
    BY <1>7
  <2>2. PICK how \in {"ok", "error"} : Resolve(id, how)
    BY <2>1 DEF ReceiveAnswer
  <2> QED
    BY <2>1, <2>2, ResolveTable DEF ReceiveAnswer, IInv, ClientTypeOK, Table, taskVars
<1> QED  BY <1>1, <1>2, <1>3, <1>4, <1>5, <1>6, <1>7

(* The receive loops, and the transport.                                   *)
LEMMA SocketIInv ==
  ASSUME IInv, NEW s \in Sockets,
         ReceiveStale(s) \/ ReceiveFails(s) \/ SocketBreaks(s)
  PROVE  IInv'
<1>1. CASE ReceiveStale(s)
  BY <1>1, QuietTable DEF ReceiveStale, IInv, ClientTypeOK, Table, taskVars
<1>2. CASE SocketBreaks(s)
  BY <1>2, QuietTable DEF SocketBreaks, IInv, ClientTypeOK, Table
<1>3. CASE ReceiveFails(s)
  <2>1. /\ Table' /\ pending' = {} /\ deadlines' = {}
        /\ outcome' \in [Ids -> {"none", "ok", "error", "twice"}]
    BY <1>3, DisconnectTable DEF ReceiveFails
  <2>2. ClientTypeOK'
    BY <1>3, <2>1, RPCAssumption
    DEF IInv, ClientTypeOK, ReceiveFails, Disconnect, taskVars, NoSocket
  <2> QED  BY <2>1, <2>2 DEF IInv, Table
<1> QED  BY <1>1, <1>2, <1>3

(* The invariant is inductive.                                             *)
LEMMA NextIInv == IInv /\ [ClientNext]_clientVars => IInv'
<1> SUFFICES ASSUME IInv, [ClientNext]_clientVars PROVE IInv'
  OBVIOUS
<1>1. CASE UNCHANGED clientVars
  BY <1>1 DEF clientVars, IInv, ClientTypeOK, ResumedExactlyOnce, FreshUnresumed,
     NothingPendingOffline
<1>2. CASE \E c \in Callers : \/ ConnectBegin(c) \/ ConnectNotify(c)
                              \/ ConnectEnd(c) \/ ConnectFails(c)
  BY <1>2, ConnectBeginIInv, ConnectIInv
<1>3. CASE UserDisconnect
  <2>1. /\ Table' /\ pending' = {} /\ deadlines' = {}
        /\ outcome' \in [Ids -> {"none", "ok", "error", "twice"}]
    BY <1>3, DisconnectTable DEF UserDisconnect
  <2>2. ClientTypeOK'
    BY <1>3, <2>1, RPCAssumption
    DEF IInv, ClientTypeOK, UserDisconnect, Disconnect, taskVars, NoSocket
  <2> QED  BY <2>1, <2>2 DEF IInv, Table
<1>4. CASE \E timed \in BOOLEAN : Request(timed)
  BY <1>4, RequestIInv
<1>5. CASE \E id \in Ids : \/ SendOk(id) \/ SendFails(id)
                           \/ DeadlineElapses(id) \/ DeadlineRuns(id)
                           \/ Cancel(id) \/ CancelRuns(id)
                           \/ \E s \in Sockets : ReceiveAnswer(s, id)
  BY <1>5, TaskIInv
<1>6. CASE \E s \in Sockets :
             ReceiveStale(s) \/ ReceiveFails(s) \/ SocketBreaks(s)
  BY <1>6, SocketIInv
<1> QED  BY <1>1, <1>2, <1>3, <1>4, <1>5, <1>6 DEF ClientNext

(* However many requests and connections there are, each continuation is   *)
(* resumed exactly once and no request outlives its connection.            *)
THEOREM ExactlyOnce ==
  ClientSpec => [](ClientTypeOK /\ ResumedExactlyOnce /\ NothingPendingOffline)
<1>1. IInv => ClientTypeOK /\ ResumedExactlyOnce /\ NothingPendingOffline
  BY DEF IInv
<1> QED  BY <1>1, InitIInv, NextIInv, PTL DEF ClientSpec

(* The client's socket is the one made last.                               *)
SocketIsGeneration == socket \in {NoSocket, generation}

(* A step makes a new socket with a new generation, drops the socket, or   *)
(* keeps both.                                                             *)
LEMMA NextSocket == SocketIsGeneration /\ [ClientNext]_clientVars => SocketIsGeneration'
<1> SUFFICES ASSUME SocketIsGeneration, [ClientNext]_clientVars PROVE SocketIsGeneration'
  OBVIOUS
<1> USE DEF SocketIsGeneration
<1>1. CASE UNCHANGED clientVars
  BY <1>1 DEF clientVars
<1>2. ASSUME NEW c \in Callers,
             ConnectBegin(c) \/ ConnectNotify(c) \/ ConnectEnd(c)
      PROVE  SocketIsGeneration'
  BY <1>2 DEF ConnectBegin, ConnectNotify, ConnectEnd
<1>3. ASSUME NEW c \in Callers, ConnectFails(c) PROVE SocketIsGeneration'
  BY <1>3 DEF ConnectFails, Disconnect
<1>4. CASE UserDisconnect
  BY <1>4 DEF UserDisconnect, Disconnect
<1>5. CASE \E timed \in BOOLEAN : Request(timed)
  BY <1>5 DEF Request
<1>6. ASSUME NEW id \in Ids,
             \/ SendOk(id) \/ SendFails(id) \/ DeadlineElapses(id)
             \/ DeadlineRuns(id) \/ Cancel(id) \/ CancelRuns(id)
             \/ \E s \in Sockets : ReceiveAnswer(s, id)
      PROVE  UNCHANGED <<socket, generation>>
  BY <1>6 DEF SendOk, SendFails, DeadlineElapses, DeadlineRuns, Cancel,
     CancelRuns, ReceiveAnswer
<1>7. ASSUME NEW s \in Sockets,
             ReceiveStale(s) \/ ReceiveFails(s) \/ SocketBreaks(s)
      PROVE  SocketIsGeneration'
  BY <1>7 DEF ReceiveStale, ReceiveFails, SocketBreaks, Disconnect
<1> QED  BY <1>1, <1>2, <1>3, <1>4, <1>5, <1>6, <1>7 DEF ClientNext

(* Nobody else's failure takes a live connection down.                     *)
THEOREM NotPoisoned == ClientSpec => NoPoisoning
<1>1. ClientInit => SocketIsGeneration
  BY DEF ClientInit, SocketIsGeneration
<1>2. SocketIsGeneration /\ [ClientNext]_clientVars => [FailsForCause]_clientVars
  <2> SUFFICES ASSUME SocketIsGeneration, ClientNext,
                      state' = "failed", socket # NoSocket, socket' = NoSocket
               PROVE  \/ socket \in broken
                      \/ \E c \in Callers : /\ call[c].at # "idle"
                                            /\ call[c].gen = socket
    BY DEF FailsForCause
  <2>1. ASSUME NEW c \in Callers, ConnectFails(c)
        PROVE  call[c].at # "idle" /\ call[c].gen = socket
    BY <2>1 DEF ConnectFails, SocketIsGeneration
  <2>2. ASSUME NEW c \in Callers,
               ConnectBegin(c) \/ ConnectNotify(c) \/ ConnectEnd(c)
        PROVE  FALSE
    BY <2>2 DEF ConnectBegin, ConnectNotify, ConnectEnd
  <2>3. UserDisconnect => FALSE
    BY DEF UserDisconnect, Disconnect
  <2>4. (\E timed \in BOOLEAN : Request(timed)) => FALSE
    BY DEF Request
  <2>5. ASSUME NEW id \in Ids,
               \/ SendOk(id) \/ SendFails(id) \/ DeadlineElapses(id)
               \/ DeadlineRuns(id) \/ Cancel(id) \/ CancelRuns(id)
               \/ \E s \in Sockets : ReceiveAnswer(s, id)
        PROVE  FALSE
    BY <2>5 DEF SendOk, SendFails, DeadlineElapses, DeadlineRuns, Cancel,
       CancelRuns, ReceiveAnswer
  <2>6. ASSUME NEW s \in Sockets, ReceiveFails(s) PROVE socket \in broken
    BY <2>6 DEF ReceiveFails, StillMine
  <2>7. ASSUME NEW s \in Sockets, ReceiveStale(s) \/ SocketBreaks(s)
        PROVE  FALSE
    BY <2>7 DEF ReceiveStale, SocketBreaks
  <2> QED  BY <2>1, <2>2, <2>3, <2>4, <2>5, <2>6, <2>7 DEF ClientNext
<1> QED  BY <1>1, <1>2, NextSocket, PTL DEF ClientSpec, NoPoisoning

-----------------------------------------------------------------------------
Texts == Seq(Nat)
Items == [kind : {"prompt"}, text : Texts] \cup [kind : {"answer"}, turn : Nat]
Creates == {"create", "sendCreate"}
Ops == {"none", "resume", "turn", "archive", "list"} \cup Creates
TaskRec == [op : Ops, at : {"none", "sent", "answered", "failed"}, thread : Keys,
            text : Texts, sel : BOOLEAN, tn : BOOLEAN, tl : BOOLEAN, got : Nat,
            with : SUBSET (Threads \cup Items)]
Requests == [task : Tasks \cup {NoThread}, op : Ops, thread : Keys, text : Texts]
Notes == [kind : {"thread/started", "turn/started", "turn/completed", "item/started"},
          thread : Threads, turn : Nat, text : Texts]

ClientTypes ==
  /\ ready \in BOOLEAN /\ creating \in BOOLEAN
  /\ threads \in SUBSET Threads /\ starting \in SUBSET Threads /\ selected \in Keys
  /\ drafts \in [Keys -> Texts] /\ composer \in Texts /\ typed \in Nat
  /\ timeline \in [Threads -> SUBSET Items] /\ seen \in [Threads -> SUBSET Items]
  /\ active \in [Threads -> Nat]
  /\ task \in [Tasks -> TaskRec]

ServerTypes ==
  /\ inbox \in SUBSET Requests /\ wire \in Seq(Notes)
  /\ has \in SUBSET Threads /\ archived \in SUBSET Threads /\ heard \in SUBSET Threads
  /\ turn \in [Threads -> Nat] /\ items \in [Threads -> SUBSET Items]
  /\ nextTurn \in Nat \ {0} /\ accepted \in SUBSET Nat

Known == has \cup archived

(* A task waits only on a connection, and carries the text of a send.      *)
TaskOK(c) ==
  /\ c.at \in {"sent", "answered"} => ready
  /\ c.text # <<>> => c.op \in {"sendCreate", "turn"}
  /\ c.op \in {"turn", "resume", "archive"} => c.thread \in Known
  /\ c.op \in Creates /\ c.at = "answered" => c.thread \in Known
  /\ c.op = "list" /\ c.at = "answered" => c.with \subseteq Known
  /\ c.op = "turn" /\ c.at = "answered" => ToSet(c.text) \subseteq accepted
TasksInv == \A k \in Tasks : TaskOK(task[k])

(* One thread is created at a time.                                        *)
CreateInv ==
  \A j, k \in Tasks : task[k].op \in Creates => creating /\ (task[j].op \in Creates => j = k)

(* A request that nobody gave up is that of its task.                      *)
InboxInv ==
  \A r \in inbox :
    /\ r.task \in Tasks => /\ task[r.task].at = "sent" /\ task[r.task].op = r.op
                           /\ task[r.task].thread = r.thread /\ task[r.task].text = r.text
    /\ r.op \in {"turn", "resume", "archive"} => r.thread \in Known

(* The app knows only threads that the server made, and others are blank.  *)
KnownInv ==
  /\ has \cap archived = {} /\ heard \subseteq has
  /\ threads \subseteq Known /\ selected \in Known \cup {NoThread}
  /\ \A i \in DOMAIN wire : wire[i].thread \in Known
  /\ \A t \in Threads \ Known : drafts[t] = <<>> /\ seen[t] = {} /\ turn[t] = NoTurn

(* Until createThread goes on, nothing is sent in the new thread, and      *)
(* nothing is written there unless the selection moves.                    *)
NewThreadInv ==
  \A k \in Tasks : task[k].op \in Creates /\ task[k].at = "answered" =>
    LET n == task[k].thread IN
    /\ task[k].sel => n # selected /\ drafts[n] = <<>>
    /\ \A j \in Tasks : task[j].op = "turn" => task[j].thread # n
    /\ \A r \in inbox : r.op = "turn" => r.thread # n
    /\ turn[n] = NoTurn /\ seen[n] = {}
    /\ \A i \in DOMAIN wire : wire[i].thread = n => wire[i].kind = "thread/started"

(* The text in the editor of a thread, or of none, and in a task.          *)
Pots == ({"editor"} \X Keys) \cup ({"task"} \X Tasks)
Contents ==
  [p \in Pots |->
     IF p[1] = "task" THEN ToSet(task[p[2]].text)
     ELSE IF p[2] = selected THEN ToSet(composer) ELSE ToSet(drafts[p[2]])]

(* Every text is in one place or was taken, if it was ever typed.          *)
KeptIn(c, n, taken) ==
  /\ \A p \in Pots : c[p] \subseteq 1 .. n
  /\ \A i \in 1 .. n : /\ \A p, q \in Pots : i \in c[p] /\ i \in c[q] => p = q
                       /\ i \in taken \/ \E p \in Pots : i \in c[p]
TextInv ==
  /\ KeptIn(Contents, typed, accepted)
  /\ ToSet(drafts[selected]) \subseteq 1 .. typed

(* Turn n of t runs and the app will hear its end, or the notice is on its *)
(* way at place i or later.                                                *)
EndComes(t, n, i) ==
  \/ turn[t] = n /\ t \in heard
  \/ \E j \in DOMAIN wire : j >= i /\ wire[j] = Note("turn/completed", t, n, <<>>)

TurnsInv ==
  /\ \A t \in Threads : active[t] # NoTurn => EndComes(t, active[t], 1)
  /\ \A k \in Tasks :
       /\ task[k].op \in {"turn", "resume"} /\ task[k].at = "answered"
       /\ task[k].tn /\ task[k].got # NoTurn
       => EndComes(task[k].thread, task[k].got, 1)
  /\ \A i \in DOMAIN wire : wire[i].kind = "turn/started" =>
       wire[i].turn # NoTurn /\ EndComes(wire[i].thread, wire[i].turn, i)
  /\ \A t \in Threads : active[t] \in Turns \cup {NoTurn} /\ turn[t] \in Turns \cup {NoTurn}
  /\ \A k \in Tasks : task[k].got \in Turns \cup {NoTurn}
  /\ \A i \in DOMAIN wire : wire[i].turn \in Turns \cup {NoTurn}

(* The app saw what the server keeps, and the server keeps what it took.   *)
TimelineInv ==
  /\ \A t \in Threads :
       /\ seen[t] \subseteq timeline[t] /\ seen[t] \subseteq items[t]
       /\ \A p \in items[t] : p.kind = "prompt" => ToSet(p.text) \subseteq accepted
       /\ \A p \in timeline[t] : p.kind = "prompt" =>
            \/ ToSet(p.text) \subseteq accepted
            \/ \E k \in Tasks : /\ task[k].op = "turn" /\ task[k].thread = t
                                /\ task[k].text = p.text
  /\ \A i \in DOMAIN wire :
       /\ wire[i].kind = "item/started" => Prompt(wire[i].text) \in items[wire[i].thread]
       /\ wire[i].kind = "turn/completed" => Answer(wire[i].turn) \in items[wire[i].thread]
  /\ \A k \in Tasks : task[k].op = "resume" /\ task[k].at = "answered" =>
       /\ task[k].with \subseteq items[task[k].thread]
       /\ task[k].tl => seen[task[k].thread] \subseteq task[k].with

WSInv ==
  /\ ClientTypes /\ ServerTypes /\ TasksInv /\ CreateInv /\ InboxInv /\ KnownInv
  /\ NewThreadInv /\ TextInv /\ TurnsInv /\ TimelineInv

---------------------------------------------------------------------------
(* Texts.                                                                  *)
LEMMA TextSets ==
  /\ <<>> \in Texts /\ ToSet(<<>>) = {}
  /\ \A s \in Texts : ToSet(s) \subseteq Nat
  /\ \A s \in Texts, n \in Nat : Append(s, n) \in Texts /\ ToSet(Append(s, n)) = ToSet(s) \cup {n}
  /\ \A s, u \in Texts : s \o u \in Texts /\ ToSet(s \o u) = ToSet(s) \cup ToSet(u)
<1>1. <<>> \in Texts /\ ToSet(<<>>) = {} /\ \A s \in Texts : ToSet(s) \subseteq Nat
  BY DEF Texts, ToSet
<1>2. ASSUME NEW s \in Texts, NEW n \in Nat
      PROVE  Append(s, n) \in Texts /\ ToSet(Append(s, n)) = ToSet(s) \cup {n}
  <2>1. /\ Append(s, n) \in Seq(Nat) /\ Len(Append(s, n)) = Len(s) + 1 /\ Len(s) \in Nat
        /\ \A i \in 1 .. Len(s) : Append(s, n)[i] = s[i]
        /\ Append(s, n)[Len(s) + 1] = n
        /\ DOMAIN Append(s, n) = 1 .. Len(s) + 1 /\ DOMAIN s = 1 .. Len(s)
    BY DEF Texts
  <2>2. ASSUME NEW x \in ToSet(Append(s, n)) PROVE x \in ToSet(s) \cup {n}
    BY <2>1 DEF ToSet
  <2>3. ASSUME NEW x \in ToSet(s) \cup {n} PROVE x \in ToSet(Append(s, n))
    <3>1. CASE x = n
      BY <2>1, <3>1 DEF ToSet
    <3>2. CASE x \in ToSet(s)
      BY <2>1, <3>2 DEF ToSet
    <3> QED  BY <2>3, <3>1, <3>2
  <2> QED  BY <2>1, <2>2, <2>3 DEF Texts
<1>3. ASSUME NEW s \in Texts, NEW u \in Texts
      PROVE  s \o u \in Texts /\ ToSet(s \o u) = ToSet(s) \cup ToSet(u)
  <2>1. /\ s \o u \in Seq(Nat) /\ Len(s \o u) = Len(s) + Len(u) /\ Len(s) \in Nat /\ Len(u) \in Nat
        /\ \A i \in 1 .. Len(s \o u) : (s \o u)[i] = IF i <= Len(s) THEN s[i] ELSE u[i - Len(s)]
        /\ DOMAIN (s \o u) = 1 .. Len(s \o u) /\ DOMAIN s = 1 .. Len(s) /\ DOMAIN u = 1 .. Len(u)
    BY ConcatProperties DEF Texts
  <2>2. ASSUME NEW x \in ToSet(s \o u) PROVE x \in ToSet(s) \cup ToSet(u)
    <3>1. PICK i \in 1 .. Len(s \o u) : x = (s \o u)[i]
      BY <2>1 DEF ToSet
    <3>2. CASE i <= Len(s)
      BY <2>1, <3>1, <3>2 DEF ToSet
    <3>3. CASE i > Len(s)
      <4>1. i - Len(s) \in DOMAIN u /\ x = u[i - Len(s)]
        BY <2>1, <3>1, <3>3
      <4> QED  BY <4>1 DEF ToSet
    <3> QED  BY <2>1, <3>2, <3>3
  <2>3. ASSUME NEW x \in ToSet(s) PROVE x \in ToSet(s \o u)
    <3>1. PICK i \in 1 .. Len(s) : x = s[i]
      BY <2>1 DEF ToSet
    <3>2. i \in DOMAIN (s \o u) /\ (s \o u)[i] = x
      BY <2>1, <3>1
    <3> QED  BY <3>2 DEF ToSet
  <2>4. ASSUME NEW x \in ToSet(u) PROVE x \in ToSet(s \o u)
    <3>1. PICK i \in 1 .. Len(u) : x = u[i]
      BY <2>1 DEF ToSet
    <3>2. i + Len(s) \in DOMAIN (s \o u) /\ (s \o u)[i + Len(s)] = x
      BY <2>1, <3>1
    <3> QED  BY <3>2 DEF ToSet
  <2> QED  BY <2>1, <2>2, <2>3, <2>4 DEF Texts
<1> QED  BY <1>1, <1>2, <1>3

Editor(k) == IF k = selected THEN ToSet(composer) ELSE ToSet(drafts[k])

(* The places where text is: the editors and the tasks.                    *)
LEMMA PotsAre ==
  /\ \A k \in Keys : <<"editor", k>> \in Pots
  /\ \A k \in Tasks : <<"task", k>> \in Pots
  /\ \A p \in Pots : (\E k \in Keys : p = <<"editor", k>>) \/ (\E k \in Tasks : p = <<"task", k>>)
BY DEF Pots

(* What is in them, before and after a step.                               *)
LEMMA PotsHold ==
  /\ \A k \in Keys : Contents[<<"editor", k>>] = Editor(k) /\ Contents'[<<"editor", k>>] = Editor(k)'
  /\ \A k \in Tasks : /\ Contents[<<"task", k>>] = ToSet(task[k].text)
                      /\ Contents'[<<"task", k>>] = ToSet(task'[k].text)
BY PotsAre DEF Contents, Editor

(* Text that goes from one place to another is kept.                       *)
LEMMA Moving ==
  ASSUME NEW c, NEW d, NEW n \in Nat, NEW took, NEW takes, KeptIn(c, n, took), took \subseteq takes,
         NEW a \in Pots, NEW b \in Pots, a # b, d[a] = {}, d[b] = c[a] \cup c[b],
         \A p \in Pots \ {a, b} : d[p] = c[p]
  PROVE  KeptIn(d, n, takes)
<1>1. \A p \in Pots : d[p] \subseteq 1 .. n
  BY DEF KeptIn
<1>2. ASSUME NEW i \in 1 .. n
      PROVE  /\ \A p, q \in Pots : i \in d[p] /\ i \in d[q] => p = q
             /\ i \in takes \/ \E p \in Pots : i \in d[p]
  <2>1. /\ \A p, q \in Pots : i \in c[p] /\ i \in c[q] => p = q
        /\ i \in took \/ \E p \in Pots : i \in c[p]
    BY DEF KeptIn
  <2>2. \A p \in Pots \ {b} : i \in d[p] => i \in c[p]
    BY <2>1
  <2>3. i \in d[b] => i \in c[b] \/ i \in c[a]
    OBVIOUS
  <2>4. \A p, q \in Pots : i \in d[p] /\ i \in d[q] => p = q
    BY <2>1, <2>2, <2>3
  <2>5. ASSUME i \notin took PROVE \E p \in Pots : i \in d[p]
    <3>1. PICK p \in Pots : i \in c[p]
      BY <2>1, <2>5
    <3> QED  BY <3>1
  <2> QED  BY <2>4, <2>5
<1> QED  BY <1>1, <1>2 DEF KeptIn

(* So is text that stays, and text that the server took may go.            *)
LEMMA Staying ==
  ASSUME NEW c, NEW d, NEW n \in Nat, NEW took, NEW takes, KeptIn(c, n, took), took \subseteq takes,
         \A p \in Pots : d[p] = c[p] \/ (d[p] = {} /\ c[p] \subseteq took)
  PROVE  KeptIn(d, n, takes)
<1>1. \A p \in Pots : d[p] \subseteq 1 .. n
  BY DEF KeptIn
<1>2. ASSUME NEW i \in 1 .. n
      PROVE  /\ \A p, q \in Pots : i \in d[p] /\ i \in d[q] => p = q
             /\ i \in takes \/ \E p \in Pots : i \in d[p]
  <2>1. /\ \A p, q \in Pots : i \in c[p] /\ i \in c[q] => p = q
        /\ i \in took \/ \E p \in Pots : i \in c[p]
    BY DEF KeptIn
  <2>2. \A p \in Pots : i \in d[p] => i \in c[p]
    OBVIOUS
  <2>3. ASSUME i \notin took PROVE \E p \in Pots : i \in d[p]
    <3>1. PICK p \in Pots : i \in c[p]
      BY <2>1, <2>3
    <3> QED  BY <2>3, <3>1
  <2> QED  BY <2>1, <2>2, <2>3
<1> QED  BY <1>1, <1>2 DEF KeptIn

---------------------------------------------------------------------------
(* Tasks.                                                                  *)

(* A task that goes on waiting may only see that a counter has moved.      *)
Steady(x, y) ==
  /\ y.op = x.op /\ y.at = x.at /\ y.thread = x.thread /\ y.text = x.text
  /\ y.got = x.got /\ y.with = x.with
  /\ (y.sel => x.sel) /\ (y.tn => x.tn) /\ (y.tl => x.tl)

(* The three counters: tasks are steady, and the ones that compare the     *)
(* counter see it.                                                         *)
LEMMA Counters ==
  ASSUME NEW tasks \in [Tasks -> TaskRec], NEW t, NEW x \in Tasks
  PROVE  /\ Moved(tasks, t) \in [Tasks -> TaskRec] /\ Steady(tasks[x], Moved(tasks, t)[x])
         /\ TurnMoved(tasks, t) \in [Tasks -> TaskRec] /\ Steady(tasks[x], TurnMoved(tasks, t)[x])
         /\ TimelineMoved(tasks, t) \in [Tasks -> TaskRec] /\ Steady(tasks[x], TimelineMoved(tasks, t)[x])
         /\ t # selected /\ tasks[x].op \in Creates => ~Moved(tasks, t)[x].sel
         /\ tasks[x].op \in {"resume", "turn"} /\ tasks[x].thread = t => ~TurnMoved(tasks, t)[x].tn
         /\ tasks[x].op = "resume" /\ tasks[x].thread = t => ~TimelineMoved(tasks, t)[x].tl
<1>0. \A y \in Tasks : tasks[y] \in TaskRec
  OBVIOUS
<1>1. ASSUME NEW y \in TaskRec, NEW b \in BOOLEAN
      PROVE  /\ [y EXCEPT !.sel = b] \in TaskRec /\ [y EXCEPT !.tn = b] \in TaskRec
             /\ [y EXCEPT !.tl = b] \in TaskRec
             /\ y.sel \in BOOLEAN /\ y.tn \in BOOLEAN /\ y.tl \in BOOLEAN
  BY DEF TaskRec
<1>2. ASSUME NEW y \in TaskRec, NEW b \in BOOLEAN
      PROVE  /\ (b => y.sel) => Steady(y, [y EXCEPT !.sel = b])
             /\ (b => y.tn) => Steady(y, [y EXCEPT !.tn = b])
             /\ (b => y.tl) => Steady(y, [y EXCEPT !.tl = b])
             /\ [y EXCEPT !.sel = b].sel = b
             /\ [y EXCEPT !.tn = b].tn = b
             /\ [y EXCEPT !.tl = b].tl = b
             /\ Steady(y, y)
  BY DEF TaskRec, Steady
<1> DEFINE s(y) == tasks[y].sel /\ tasks[y].op \notin Creates
           n(y) == tasks[y].tn /\ ~(tasks[y].op \in {"resume", "turn"} /\ tasks[y].thread = t)
           l(y) == tasks[y].tl /\ ~(tasks[y].op = "resume" /\ tasks[y].thread = t)
<1>3. \A y \in Tasks : s(y) \in BOOLEAN /\ n(y) \in BOOLEAN /\ l(y) \in BOOLEAN
  BY Zenon
<1>4. /\ Moved(tasks, t) = IF t = selected THEN tasks ELSE [y \in Tasks |-> [tasks[y] EXCEPT !.sel = s(y)]]
      /\ TurnMoved(tasks, t) = [y \in Tasks |-> [tasks[y] EXCEPT !.tn = n(y)]]
      /\ TimelineMoved(tasks, t) = [y \in Tasks |-> [tasks[y] EXCEPT !.tl = l(y)]]
  BY DEF Moved, TurnMoved, TimelineMoved, Creates
<1>5. /\ t # selected => Moved(tasks, t)[x] = [tasks[x] EXCEPT !.sel = s(x)]
      /\ t = selected => Moved(tasks, t)[x] = tasks[x]
      /\ TurnMoved(tasks, t)[x] = [tasks[x] EXCEPT !.tn = n(x)]
      /\ TimelineMoved(tasks, t)[x] = [tasks[x] EXCEPT !.tl = l(x)]
  BY <1>4
<1>6. /\ Moved(tasks, t) \in [Tasks -> TaskRec] /\ TurnMoved(tasks, t) \in [Tasks -> TaskRec]
      /\ TimelineMoved(tasks, t) \in [Tasks -> TaskRec]
  <2> HIDE DEF s, n, l
  <2>1. \A y \in Tasks : /\ [tasks[y] EXCEPT !.sel = s(y)] \in TaskRec
                        /\ [tasks[y] EXCEPT !.tn = n(y)] \in TaskRec
                        /\ [tasks[y] EXCEPT !.tl = l(y)] \in TaskRec
    BY <1>0, <1>1, <1>3
  <2>2. [y \in Tasks |-> [tasks[y] EXCEPT !.sel = s(y)]] \in [Tasks -> TaskRec]
    BY <2>1
  <2>3. [y \in Tasks |-> [tasks[y] EXCEPT !.tn = n(y)]] \in [Tasks -> TaskRec]
    BY <2>1
  <2>4. [y \in Tasks |-> [tasks[y] EXCEPT !.tl = l(y)]] \in [Tasks -> TaskRec]
    BY <2>1
  <2> QED  BY <1>4, <2>2, <2>3, <2>4, Zenon
<1>7. /\ Steady(tasks[x], TurnMoved(tasks, t)[x]) /\ TurnMoved(tasks, t)[x].tn = n(x)
      /\ Steady(tasks[x], TimelineMoved(tasks, t)[x]) /\ TimelineMoved(tasks, t)[x].tl = l(x)
      /\ Steady(tasks[x], Moved(tasks, t)[x])
      /\ t # selected => Moved(tasks, t)[x].sel = s(x)
  <2>1. (s(x) => tasks[x].sel) /\ (n(x) => tasks[x].tn) /\ (l(x) => tasks[x].tl)
    BY Zenon
  <2> HIDE DEF s, n, l
  <2>2. tasks[x] \in TaskRec /\ s(x) \in BOOLEAN /\ n(x) \in BOOLEAN /\ l(x) \in BOOLEAN
    BY <1>0, <1>3
  <2>3. /\ Steady(tasks[x], [tasks[x] EXCEPT !.sel = s(x)]) /\ [tasks[x] EXCEPT !.sel = s(x)].sel = s(x)
        /\ Steady(tasks[x], [tasks[x] EXCEPT !.tn = n(x)]) /\ [tasks[x] EXCEPT !.tn = n(x)].tn = n(x)
        /\ Steady(tasks[x], [tasks[x] EXCEPT !.tl = l(x)]) /\ [tasks[x] EXCEPT !.tl = l(x)].tl = l(x)
        /\ Steady(tasks[x], tasks[x])
    BY <1>2, <2>1, <2>2
  <2> QED  BY <1>5, <2>3, Zenon
<1> QED  BY <1>6, <1>7

(* A task that has just called, and one that is over.                      *)
LEMMA CallsAre ==
  /\ None \in TaskRec /\ None.op = "none" /\ None.at = "none" /\ None.text = <<>>
  /\ None.got = NoTurn
  /\ \A op \in Ops, t \in Keys, text \in Texts :
       /\ Call(op, t, text) \in TaskRec /\ Call(op, t, text).op = op /\ Call(op, t, text).at = "sent"
       /\ Call(op, t, text).thread = t /\ Call(op, t, text).text = text
       /\ Call(op, t, text).got = NoTurn
<1>1. NoThread \in Keys /\ <<>> \in Texts /\ "none" \in Ops
  BY DEF Keys, Texts, Ops
<1>2. /\ None \in TaskRec /\ None.op = "none" /\ None.at = "none" /\ None.text = <<>>
      /\ None.got = NoTurn
  BY <1>1 DEF None, TaskRec, NoTurn
<1>3. ASSUME NEW op \in Ops, NEW t \in Keys, NEW text \in Texts
      PROVE  /\ Call(op, t, text) \in TaskRec /\ Call(op, t, text).op = op
             /\ Call(op, t, text).at = "sent" /\ Call(op, t, text).thread = t
             /\ Call(op, t, text).text = text /\ Call(op, t, text).got = NoTurn
  BY <1>1 DEF None, Call, TaskRec, NoTurn
<1> QED  BY <1>2, <1>3

(* A step of the app: task k goes on, and is over or has a new call.       *)
AppStep(k, c) ==
  /\ c \in TaskRec /\ c.at \in {"none", "sent"} /\ c.got = NoTurn
  /\ task[k].at # "sent" /\ task' \in [Tasks -> TaskRec] /\ task'[k] = c
  /\ \A x \in Tasks \ {k} : Steady(task[x], task'[x])
  /\ UNCHANGED <<ready, wire, server>>
  /\ \/ inbox' = inbox
     \/ /\ c.at = "sent"
        /\ inbox' = inbox \cup {[task |-> k, op |-> c.op, thread |-> c.thread, text |-> c.text]}

(* What such a step keeps, whatever the task does.                         *)
LEMMA AppTasks ==
  ASSUME WSInv, NEW k \in Tasks, NEW c, AppStep(k, c), TaskOK(c)
  PROVE  ServerTypes' /\ TasksInv' /\ InboxInv'
<1> USE DEF AppStep
<1>1. Known' = Known /\ accepted' = accepted /\ ready' = ready
  BY DEF Known, server
<1>2. TasksInv'
  <2> SUFFICES ASSUME NEW x \in Tasks PROVE TaskOK(task[x])'
    BY DEF TasksInv
  <2>1. CASE x = k
    BY <1>1, <2>1 DEF TaskOK
  <2>2. CASE x # k
    <3>1. Steady(task[x], task'[x]) /\ TaskOK(task[x])
      BY <2>2 DEF WSInv, TasksInv
    <3> QED  BY <1>1, <3>1 DEF TaskOK, Steady
  <2> QED  BY <2>1, <2>2
<1>3. ServerTypes'
  <2>1. inbox' \in SUBSET Requests
    BY DEF WSInv, ServerTypes, Requests, TaskRec
  <2> QED  BY <2>1 DEF WSInv, ServerTypes, server
<1>4. InboxInv'
  <2> SUFFICES ASSUME NEW r \in inbox'
               PROVE  /\ r.task \in Tasks => /\ task'[r.task].at = "sent" /\ task'[r.task].op = r.op
                                             /\ task'[r.task].thread = r.thread
                                             /\ task'[r.task].text = r.text
                      /\ r.op \in {"turn", "resume", "archive"} => r.thread \in Known
    BY <1>1 DEF InboxInv
  <2>1. CASE r \in inbox
    <3>1. /\ r.task \in Tasks => /\ task[r.task].at = "sent" /\ task[r.task].op = r.op
                                 /\ task[r.task].thread = r.thread /\ task[r.task].text = r.text
          /\ r.op \in {"turn", "resume", "archive"} => r.thread \in Known
      BY <2>1 DEF WSInv, InboxInv
    <3>2. r.task \in Tasks => r.task # k /\ Steady(task[r.task], task'[r.task])
      BY <3>1
    <3> QED  BY <3>1, <3>2 DEF Steady
  <2>2. CASE r \notin inbox
    <3>1. c.at = "sent" /\ r = [task |-> k, op |-> c.op, thread |-> c.thread, text |-> c.text]
      BY <2>2
    <3> QED  BY <3>1 DEF TaskOK
  <2> QED  BY <2>1, <2>2
<1> QED  BY <1>2, <1>3, <1>4

(* And a step of the app that writes no more than it may keeps the         *)
(* invariant.                                                              *)
LEMMA AppSteps ==
  ASSUME WSInv, NEW k \in Tasks, NEW c, AppStep(k, c), TaskOK(c), ClientTypes', TextInv',
         c.op \in Creates => creating',
         c.op \in Creates \cup {"turn"} => \A x \in Tasks \ {k} : task[x].op \notin Creates,
         \A x \in Tasks \ {k} : task[x].op \in Creates => creating',
         threads' \subseteq Known, selected' \in Known \cup {NoThread},
         \A t \in Threads \ Known : drafts'[t] = <<>>,
         \A x \in Tasks \ {k} : task[x].op \in Creates /\ task[x].at = "answered" /\ task'[x].sel =>
            task[x].thread # selected' /\ drafts'[task[x].thread] = <<>>,
         \A t \in Threads : \/ active'[t] \in {active[t], NoTurn}
                            \/ active'[t] \in Turns /\ EndComes(t, active'[t], 1),
         \A t \in Threads : seen'[t] \subseteq seen[t] /\ seen'[t] \subseteq timeline'[t],
         \A t \in Threads : \A p \in timeline'[t] : p.kind = "prompt" =>
            \/ ToSet(p.text) \subseteq accepted
            \/ \E x \in Tasks : /\ task'[x].op = "turn" /\ task'[x].thread = t
                                /\ task'[x].text = p.text
  PROVE  WSInv'
<1> USE DEF AppStep
<1>1. /\ Known' = Known /\ accepted' = accepted /\ ready' = ready /\ wire' = wire /\ turn' = turn
      /\ items' = items /\ has' = has /\ archived' = archived /\ heard' = heard
  BY DEF Known, server
<1>2. ServerTypes' /\ TasksInv' /\ InboxInv'
  BY AppTasks
<1>3. /\ \A x \in Tasks \ {k} : Steady(task[x], task'[x])
      /\ task'[k] = c /\ c.at # "answered"
  OBVIOUS
<1>4. CreateInv'
  <2> SUFFICES ASSUME NEW j \in Tasks, NEW x \in Tasks, task'[x].op \in Creates
               PROVE  creating' /\ (task'[j].op \in Creates => j = x)
    BY DEF CreateInv
  <2>1. CASE x = k
    BY <1>3, <2>1 DEF Steady
  <2>2. CASE x # k
    BY <1>3, <2>2 DEF Steady, WSInv, CreateInv
  <2> QED  BY <2>1, <2>2
<1>5. KnownInv'
  BY <1>1 DEF WSInv, KnownInv
<1>6. NewThreadInv'
  <2> SUFFICES ASSUME NEW x \in Tasks, task'[x].op \in Creates, task'[x].at = "answered"
               PROVE  LET n == task'[x].thread IN
                      /\ task'[x].sel => n # selected' /\ drafts'[n] = <<>>
                      /\ \A j \in Tasks : task'[j].op = "turn" => task'[j].thread # n
                      /\ \A r \in inbox' : r.op = "turn" => r.thread # n
                      /\ turn[n] = NoTurn /\ seen'[n] = {}
                      /\ \A i \in DOMAIN wire : wire[i].thread = n => wire[i].kind = "thread/started"
    BY <1>1 DEF NewThreadInv
  <2> DEFINE n == task[x].thread
  <2>1. x # k /\ Steady(task[x], task'[x]) /\ task[x].op \in Creates /\ task[x].at = "answered"
        /\ task'[x].thread = n
    BY <1>3 DEF Steady
  <2>2. /\ \A j \in Tasks : task[j].op = "turn" => task[j].thread # n
        /\ \A r \in inbox : r.op = "turn" => r.thread # n
        /\ turn[n] = NoTurn /\ seen[n] = {}
        /\ \A i \in DOMAIN wire : wire[i].thread = n => wire[i].kind = "thread/started"
    BY <2>1 DEF WSInv, NewThreadInv
  <2>3. n \in Threads /\ c.op # "turn"
    BY <2>1 DEF WSInv, TasksInv, TaskOK, ServerTypes, Known
  <2>4. seen'[n] = {}
    BY <2>2, <2>3
  <2>5. \A j \in Tasks : task'[j].op = "turn" => task'[j].thread # n
    BY <1>3, <2>2, <2>3 DEF Steady
  <2>6. \A r \in inbox' : r.op = "turn" => r.thread # n
    BY <2>2, <2>3
  <2> QED  BY <2>1, <2>2, <2>4, <2>5, <2>6
<1>7. TurnsInv'
  <2>1. \A t, n, i : EndComes(t, n, i)' <=> EndComes(t, n, i)
    BY <1>1 DEF EndComes
  <2>2. \A t \in Threads : /\ active'[t] # NoTurn => EndComes(t, active'[t], 1)
                           /\ active'[t] \in Turns \cup {NoTurn} /\ turn[t] \in Turns \cup {NoTurn}
    BY DEF WSInv, TurnsInv
  <2>3. \A x \in Tasks :
          /\ task'[x].op \in {"turn", "resume"} /\ task'[x].at = "answered"
             /\ task'[x].tn /\ task'[x].got # NoTurn => EndComes(task'[x].thread, task'[x].got, 1)
          /\ task'[x].got \in Turns \cup {NoTurn}
    BY <1>3 DEF WSInv, TurnsInv, Steady
  <2>4. \A i \in DOMAIN wire :
          /\ wire[i].kind = "turn/started" =>
               wire[i].turn # NoTurn /\ EndComes(wire[i].thread, wire[i].turn, i)
          /\ wire[i].turn \in Turns \cup {NoTurn}
    BY DEF WSInv, TurnsInv
  <2> QED  BY <1>1, <2>1, <2>2, <2>3, <2>4 DEF TurnsInv
<1>8. TimelineInv'
  <2>1. \A t \in Threads : /\ seen[t] \subseteq items[t]
                           /\ \A p \in items[t] : p.kind = "prompt" => ToSet(p.text) \subseteq accepted
    BY DEF WSInv, TimelineInv
  <2>2. \A i \in DOMAIN wire :
          /\ wire[i].kind = "item/started" => Prompt(wire[i].text) \in items[wire[i].thread]
          /\ wire[i].kind = "turn/completed" => Answer(wire[i].turn) \in items[wire[i].thread]
    BY DEF WSInv, TimelineInv
  <2>3. ASSUME NEW x \in Tasks, task'[x].op = "resume", task'[x].at = "answered"
        PROVE  /\ task'[x].with \subseteq items[task'[x].thread]
               /\ task'[x].tl => seen'[task'[x].thread] \subseteq task'[x].with
    <3>1. Steady(task[x], task'[x])
      BY <1>3, <2>3
    <3>2. task[x].op = "resume" /\ task[x].at = "answered" /\ task[x].thread \in Threads
      BY <2>3, <3>1 DEF Steady, WSInv, TasksInv, TaskOK, Known, ServerTypes
    <3>3. /\ task[x].with \subseteq items[task[x].thread]
          /\ task[x].tl => seen[task[x].thread] \subseteq task[x].with
      BY <3>2 DEF WSInv, TimelineInv
    <3> QED  BY <3>1, <3>2, <3>3 DEF Steady
  <2> QED  BY <1>1, <2>1, <2>2, <2>3 DEF TimelineInv
<1> QED  BY <1>2, <1>4, <1>5, <1>6, <1>7, <1>8 DEF WSInv

(* A task that is not waiting calls the server, or is over.                *)
LEMMA Requesting ==
  ASSUME WSInv, NEW k \in Tasks, task[k].at # "sent", UNCHANGED <<ready, wire, server>>,
         NEW tasks \in [Tasks -> TaskRec], \A x \in Tasks \ {k} : Steady(task[x], tasks[x])
  PROVE  /\ \A op \in Ops, t \in Keys, text \in Texts : SendRequest(tasks, k, Call(op, t, text)) =>
              AppStep(k, IF ready THEN Call(op, t, text) ELSE None)
         /\ task' = [tasks EXCEPT ![k] = None] /\ inbox' = inbox => AppStep(k, None)
<1>1. ASSUME NEW op \in Ops, NEW t \in Keys, NEW text \in Texts, SendRequest(tasks, k, Call(op, t, text))
      PROVE  AppStep(k, IF ready THEN Call(op, t, text) ELSE None)
  <2> DEFINE new == Call(op, t, text)
             c == IF ready THEN new ELSE None
  <2>1. c \in TaskRec /\ c.at \in {"none", "sent"} /\ c.got = NoTurn /\ (ready => c.at = "sent")
    BY CallsAre
  <2>2. /\ task' = [tasks EXCEPT ![k] = c]
        /\ \/ inbox' = inbox
           \/ /\ ready /\ c = new
              /\ inbox' = inbox \cup {[task |-> k, op |-> new.op, thread |-> new.thread,
                                       text |-> new.text]}
    BY <1>1 DEF SendRequest
  <2> HIDE DEF c, new
  <2>3. task' \in [Tasks -> TaskRec] /\ task'[k] = c /\ \A x \in Tasks \ {k} : task'[x] = tasks[x]
    BY <2>1, <2>2
  <2>4. AppStep(k, c)
    BY <2>1, <2>2, <2>3 DEF AppStep
  <2> QED  BY <2>4 DEF c, new
<1>2. ASSUME task' = [tasks EXCEPT ![k] = None], inbox' = inbox PROVE AppStep(k, None)
  <2>1. None \in TaskRec /\ None.at = "none" /\ None.got = NoTurn
    BY CallsAre
  <2>2. task' \in [Tasks -> TaskRec] /\ task'[k] = None /\ \A x \in Tasks \ {k} : task'[x] = tasks[x]
    BY <1>2, <2>1
  <2> QED  BY <1>2, <2>1, <2>2 DEF AppStep
<1> QED  BY <1>1, <1>2

(* The new call sends no text, and the texts are kept.                     *)
Quiet(k, c) ==
  /\ AppStep(k, c) /\ TaskOK(c) /\ c.text = <<>> /\ c.op # "turn"
  /\ c.op \in Creates => creating' /\ \A x \in Tasks \ {k} : task[x].op \notin Creates
Settled(k) ==
  /\ \E c : Quiet(k, c)
  /\ selected' \in Known \cup {NoThread} /\ drafts' \in [Keys -> Texts] /\ composer' \in Texts
  /\ typed' = typed /\ TextInv'
  /\ \A t \in Threads \ Known : drafts'[t] = <<>>
  /\ \A x \in Tasks \ {k} : task[x].op \in Creates /\ task[x].at = "answered" /\ task'[x].sel =>
        task[x].thread # selected' /\ drafts'[task[x].thread] = <<>>

(* What Settled needs of the editors.                                      *)
LEMMA Settling ==
  ASSUME WSInv, NEW k \in Tasks, NEW c, Quiet(k, c),
         selected' \in Known \cup {NoThread}, drafts' \in [Keys -> Texts], composer' \in Texts,
         typed' = typed, ToSet(task[k].text) \subseteq accepted,
         \A j \in Keys : Editor(j)' = Editor(j),
         ToSet(drafts'[selected']) \subseteq 1 .. typed,
         \A t \in Keys : t # selected => drafts'[t] = drafts[t],
         selected' # selected => \A x \in Tasks \ {k} : task[x].op \in Creates => ~task'[x].sel
  PROVE  Settled(k)
<1>1. accepted' = accepted /\ task'[k] = c /\ \A x \in Tasks \ {k} : Steady(task[x], task'[x])
  BY DEF Quiet, AppStep, server
<1>2. c.text = <<>>
  BY DEF Quiet
<1>3. TextInv'
  <2>1. \A p \in Pots : \/ Contents'[p] = Contents[p]
                        \/ Contents'[p] = {} /\ Contents[p] \subseteq accepted
    <3> SUFFICES ASSUME NEW p \in Pots PROVE \/ Contents'[p] = Contents[p]
                                             \/ Contents'[p] = {} /\ Contents[p] \subseteq accepted
      OBVIOUS
    <3>1. ASSUME NEW j \in Keys, p = <<"editor", j>> PROVE Contents'[p] = Contents[p]
      BY <3>1, PotsHold
    <3>2. ASSUME NEW j \in Tasks, p = <<"task", j>>, j # k PROVE Contents'[p] = Contents[p]
      BY <1>1, <3>2, PotsHold DEF Steady
    <3>3. ASSUME p = <<"task", k>> PROVE Contents'[p] = {} /\ Contents[p] \subseteq accepted
      <4>1. ToSet(task'[k].text) = {}
        BY <1>1, <1>2, TextSets
      <4>2. Contents'[<<"task", k>>] = ToSet(task'[k].text) /\ Contents[<<"task", k>>] = ToSet(task[k].text)
        BY PotsHold
      <4> QED  BY <3>3, <4>1, <4>2
    <3> QED  BY <3>1, <3>2, <3>3, PotsAre
  <2>2. typed \in Nat /\ KeptIn(Contents, typed, accepted)
    BY DEF WSInv, ClientTypes, TextInv
  <2>3. KeptIn(Contents', typed, accepted)
    BY <2>1, <2>2, Staying
  <2> QED  BY <1>1, <2>3 DEF TextInv, KeptIn, Pots
<1>4. \A t \in Threads \ Known : drafts'[t] = <<>>
  <2>1. NoThread \notin Threads
    BY WorkspaceAssumption
  <2> QED  BY <2>1 DEF WSInv, KnownInv, Keys
<1>5. ASSUME NEW x \in Tasks \ {k}, task[x].op \in Creates, task[x].at = "answered", task'[x].sel
      PROVE  task[x].thread # selected' /\ drafts'[task[x].thread] = <<>>
  <2>1. selected' = selected /\ task[x].sel
    BY <1>1, <1>5 DEF Steady
  <2>2. task[x].thread # selected /\ drafts[task[x].thread] = <<>> /\ task[x].thread \in Keys
    BY <1>5, <2>1 DEF WSInv, NewThreadInv, ClientTypes, TaskRec
  <2> QED  BY <2>1, <2>2
<1> QED  BY <1>3, <1>4, <1>5 DEF Settled

(* The task is over and nothing is edited.                                 *)
LEMMA StayingPut ==
  ASSUME WSInv, NEW k \in Tasks, task[k].at # "sent", ToSet(task[k].text) \subseteq accepted,
         task' = [task EXCEPT ![k] = None], UNCHANGED <<selected, edit, inbox>>,
         UNCHANGED <<ready, wire, server>>
  PROVE  Settled(k)
<1>1. task \in [Tasks -> TaskRec] /\ \A x \in Tasks : Steady(task[x], task[x])
  BY DEF WSInv, ClientTypes, Steady
<1>2. AppStep(k, None)
  BY <1>1, Requesting
<1>3. Quiet(k, None)
  BY <1>2, CallsAre DEF Quiet, TaskOK, Creates
<1>4. \A j \in Keys : Editor(j)' = Editor(j)
  BY DEF Editor, edit
<1>5. /\ selected' \in Known \cup {NoThread} /\ drafts' \in [Keys -> Texts] /\ composer' \in Texts
      /\ typed' = typed /\ drafts' = drafts /\ selected' = selected
      /\ ToSet(drafts'[selected']) \subseteq 1 .. typed
  BY DEF WSInv, KnownInv, ClientTypes, edit, TextInv
<1> QED  BY <1>3, <1>4, <1>5, Settling

(* selectedThreadID.didSet, in a step that carries no text.                *)
LEMMA Swapping ==
  ASSUME WSInv, NEW k \in Tasks, NEW c, Quiet(k, c), ToSet(task[k].text) \subseteq accepted,
         NEW id \in Known \cup {NoThread}, typed' = typed,
         selected' = id, drafts' = PutAway(id), composer' = BringOut(id),
         \A x \in Tasks \ {k} : task'[x] = Moved(task, id)[x]
  PROVE  Settled(k)
<1>1. /\ task \in [Tasks -> TaskRec] /\ drafts \in [Keys -> Texts] /\ composer \in Texts
      /\ selected \in Keys /\ id \in Keys /\ NoThread \notin Threads
      /\ ToSet(drafts[selected]) \subseteq 1 .. typed
  BY WorkspaceAssumption DEF WSInv, ClientTypes, ServerTypes, Known, Keys, TextInv
<1>2. \A x \in Tasks : id # selected /\ task[x].op \in Creates => ~Moved(task, id)[x].sel
  BY <1>1, Counters
<1>5. /\ drafts' = IF id = selected THEN drafts ELSE [drafts EXCEPT ![selected] = composer]
      /\ composer' = IF id = selected THEN composer ELSE drafts[id]
  BY <1>1 DEF PutAway, BringOut
<1>6. /\ drafts' \in [Keys -> Texts] /\ composer' \in Texts
      /\ \A t \in Keys : t # selected => drafts'[t] = drafts[t]
      /\ id # selected => drafts'[selected] = composer
  BY <1>1, <1>5
<1>7. \A j \in Keys : Editor(j)' = Editor(j)
  BY <1>1, <1>5, <1>6 DEF Editor
<1>8. ToSet(drafts'[selected']) \subseteq 1 .. typed
  <2>1. CASE id = selected
    BY <1>1, <1>5, <2>1
  <2>2. CASE id # selected
    <3>1. Contents[<<"editor", id>>] = ToSet(drafts[id]) /\ <<"editor", id>> \in Pots
      BY <1>1, <2>2, PotsAre, PotsHold DEF Editor
    <3>2. Contents[<<"editor", id>>] \subseteq 1 .. typed
      BY <3>1 DEF WSInv, TextInv, KeptIn
    <3> QED  BY <1>1, <1>5, <1>6, <2>2, <3>1, <3>2
  <2> QED  BY <2>1, <2>2
<1> QED  BY <1>2, <1>5, <1>6, <1>7, <1>8, Settling

(* selectThread from a task that carries no text.                          *)
LEMMA GoingTo ==
  ASSUME WSInv, NEW k \in Tasks, task[k].at # "sent", task[k].text = <<>>,
         NEW id \in Known \cup {NoThread}, GoTo(k, id), typed' = typed,
         UNCHANGED <<ready, wire, server>>
  PROVE  Settled(k)
<1>1. /\ task \in [Tasks -> TaskRec] /\ id \in Keys /\ NoThread \notin Threads
      /\ (id # NoThread => id \in Known)
  BY WorkspaceAssumption DEF WSInv, ClientTypes, ServerTypes, Known, Keys
<1>2. /\ Moved(task, id) \in [Tasks -> TaskRec]
      /\ \A x \in Tasks : Steady(task[x], Moved(task, id)[x])
  BY <1>1, Counters
<1>3. \E c : Quiet(k, c) /\ \A x \in Tasks \ {k} : task'[x] = Moved(task, id)[x]
  <2>1. CASE id = NoThread
    <3>1. AppStep(k, None)
      BY <1>2, <2>1, Requesting DEF GoTo
    <3>2. Quiet(k, None)
      BY <3>1, CallsAre DEF Quiet, TaskOK, Creates
    <3>3. \A x \in Tasks \ {k} : task'[x] = Moved(task, id)[x]
      BY <1>2, <2>1 DEF GoTo
    <3> QED  BY <3>2, <3>3
  <2>2. CASE id # NoThread
    <3> DEFINE c == IF ready THEN Call("resume", id, <<>>) ELSE None
    <3>0. "resume" \in Ops /\ <<>> \in Texts
      BY TextSets DEF Ops
    <3>1. SendRequest(Moved(task, id), k, Call("resume", id, <<>>))
      BY <2>2 DEF GoTo
    <3>2. AppStep(k, c)
      BY <1>1, <1>2, <3>0, <3>1, Requesting
    <3>3. /\ TaskOK(c) /\ c.text = <<>> /\ c.op \in {"none", "resume"}
      BY <1>1, <2>2, <3>0, CallsAre DEF TaskOK, Creates
    <3>4. \A x \in Tasks \ {k} : task'[x] = Moved(task, id)[x]
      BY <1>2, <3>1 DEF SendRequest
    <3> QED  BY <3>2, <3>3, <3>4 DEF Quiet, Creates
  <2> QED  BY <2>1, <2>2
<1>4. selected' = id /\ drafts' = PutAway(id) /\ composer' = BringOut(id)
  BY DEF GoTo
<1>5. ToSet(task[k].text) \subseteq accepted
  BY TextSets
<1> QED  BY <1>3, <1>4, <1>5, Swapping

(* A settled step keeps the invariant if what it shows is true.            *)
LEMMA SettledSteps ==
  ASSUME WSInv, NEW k \in Tasks, Settled(k),
         task[k].op = "turn" => \/ ToSet(task[k].text) \subseteq accepted
                                \/ Prompt(task[k].text) \notin timeline'[task[k].thread],
         threads' \subseteq Known, starting' \subseteq Threads, creating' \in BOOLEAN,
         \A x \in Tasks \ {k} : task[x].op \in Creates => creating',
         timeline' \in [Threads -> SUBSET Items], seen' \in [Threads -> SUBSET Items],
         active' \in [Threads -> Nat],
         \A t \in Threads : \/ active'[t] \in {active[t], NoTurn}
                            \/ active'[t] \in Turns /\ EndComes(t, active'[t], 1),
         \A t \in Threads : seen'[t] \subseteq seen[t] /\ seen'[t] \subseteq timeline'[t],
         \A t \in Threads : \A p \in timeline'[t] : p.kind = "prompt" =>
            p \in timeline[t] \/ ToSet(p.text) \subseteq accepted
  PROVE  WSInv'
<1>1. PICK c : Quiet(k, c)
  BY DEF Settled
<1>2. /\ AppStep(k, c) /\ TaskOK(c)
      /\ c.op \in Creates => creating'
      /\ c.op \in Creates \cup {"turn"} => \A x \in Tasks \ {k} : task[x].op \notin Creates
  BY <1>1 DEF Quiet
<1>3. ClientTypes'
  <2>1. Known \subseteq Threads /\ ready' = ready /\ task' \in [Tasks -> TaskRec]
    BY <1>2 DEF Known, WSInv, ServerTypes, AppStep
  <2> QED  BY <2>1 DEF ClientTypes, WSInv, Settled, Keys
<1>4. ASSUME NEW t \in Threads, NEW p \in timeline'[t], p.kind = "prompt"
      PROVE  \/ ToSet(p.text) \subseteq accepted
             \/ \E x \in Tasks : /\ task'[x].op = "turn" /\ task'[x].thread = t
                                 /\ task'[x].text = p.text
  <2> SUFFICES ASSUME ~(ToSet(p.text) \subseteq accepted)
               PROVE  \E x \in Tasks : /\ task'[x].op = "turn" /\ task'[x].thread = t
                                       /\ task'[x].text = p.text
    OBVIOUS
  <2>1. PICK x \in Tasks : task[x].op = "turn" /\ task[x].thread = t /\ task[x].text = p.text
    BY <1>4 DEF WSInv, TimelineInv
  <2>2. p = Prompt(p.text)
    BY <1>4 DEF Items, Prompt
  <2>3. x # k
    BY <2>1, <2>2
  <2>4. Steady(task[x], task'[x])
    BY <1>2, <2>3 DEF AppStep
  <2> QED  BY <2>1, <2>4 DEF Steady
<1>5. /\ TextInv' /\ selected' \in Known \cup {NoThread}
      /\ \A t \in Threads \ Known : drafts'[t] = <<>>
      /\ \A x \in Tasks \ {k} : task[x].op \in Creates /\ task[x].at = "answered" /\ task'[x].sel =>
            task[x].thread # selected' /\ drafts'[task[x].thread] = <<>>
  BY DEF Settled
<1> QED  BY <1>2, <1>3, <1>4, <1>5, AppSteps

(* What the timelines are before the step.                                 *)
LEMMA Shown ==
  ASSUME WSInv
  PROVE  /\ threads \subseteq Known /\ Known \subseteq Threads /\ starting \subseteq Threads
         /\ creating \in BOOLEAN
         /\ timeline \in [Threads -> SUBSET Items] /\ seen \in [Threads -> SUBSET Items]
         /\ active \in [Threads -> Nat] /\ task \in [Tasks -> TaskRec]
         /\ \A t \in Threads : seen[t] \subseteq timeline[t]
         /\ \A x, y \in Tasks : task[x].op \in Creates => creating /\ (task[y].op \in Creates => y = x)
         /\ \A x \in Tasks : TaskOK(task[x])
BY DEF WSInv, ClientTypes, ServerTypes, TimelineInv, CreateInv, TasksInv, KnownInv, Known

(* selectThread.                                                           *)
LEMMA SelectThreadKeeps ==
  ASSUME WSInv, NEW k \in Tasks, NEW id \in Keys, SelectThread(k, id) PROVE WSInv'
<1>1. task[k] = None /\ id \in Known \cup {NoThread}
  BY Shown DEF SelectThread, UserStarts, Free
<1>2. task[k].at # "sent" /\ task[k].text = <<>> /\ ToSet(task[k].text) \subseteq accepted
  BY <1>1, CallsAre, TextSets
<1>3. GoTo(k, id) /\ typed' = typed /\ UNCHANGED <<ready, wire, server>>
  BY DEF SelectThread
<1>4. Settled(k)
  BY <1>1, <1>2, <1>3, GoingTo
<1>5. UNCHANGED <<threads, timeline, active, starting, creating, seen>>
  BY DEF SelectThread
<1> QED  BY <1>2, <1>4, <1>5, Shown, SettledSteps

(* The catch of resumeThread, refreshThreads and archiveThread.            *)
LEMMA ReportKeeps ==
  ASSUME WSInv, NEW k \in Tasks, Report(k) PROVE WSInv'
<1>1. task[k].at # "sent" /\ task[k].text = <<>> /\ ToSet(task[k].text) \subseteq accepted
  BY Shown, TextSets DEF Report, TaskOK
<1>2. Settled(k)
  BY <1>1, StayingPut DEF Report
<1>3. UNCHANGED <<threads, timeline, active, starting, creating, seen>>
  BY DEF Report
<1> QED  BY <1>1, <1>2, <1>3, Shown, SettledSteps

(* sendComposer after the answer to turn/start.                            *)
LEMMA TurnDoneKeeps ==
  ASSUME WSInv, NEW k \in Tasks, TurnDone(k) PROVE WSInv'
<1>1. task[k].at # "sent" /\ ToSet(task[k].text) \subseteq accepted
  BY Shown DEF TurnDone, TaskOK
<1>2. Settled(k)
  BY <1>1, StayingPut DEF TurnDone
<1>3. /\ UNCHANGED <<threads, timeline, creating, seen>> /\ starting' \subseteq Threads
  BY Shown DEF TurnDone
<1>4. task[k].got \in Nat /\ task[k].got \in Turns \cup {NoTurn}
  BY Shown DEF TaskRec, WSInv, TurnsInv
<1>5. /\ active' \in [Threads -> Nat]
      /\ \A t \in Threads : \/ active'[t] \in {active[t], NoTurn}
                            \/ active'[t] \in Turns /\ EndComes(t, active'[t], 1)
  <2> DEFINE n == task[k].got
             u == task[k].thread
             m == IF task[k].tn THEN n ELSE active[u]
  <2>1. active' = [active EXCEPT ![u] = m]
    BY DEF TurnDone
  <2>2. u \in Threads /\ n \in Nat /\ active \in [Threads -> Nat] /\ m \in Nat
    BY <1>4, Shown DEF TurnDone, TaskOK
  <2>3. m = active[u] \/ m = NoTurn \/ (m \in Turns /\ EndComes(u, m, 1))
    BY <1>4 DEF TurnDone, WSInv, TurnsInv
  <2> HIDE DEF m
  <2> QED  BY <2>1, <2>2, <2>3
<1> QED  BY <1>1, <1>2, <1>3, <1>5, Shown, SettledSteps

(* resumeThread after its answer.                                          *)
LEMMA ResumeDoneKeeps ==
  ASSUME WSInv, NEW k \in Tasks, ResumeDone(k) PROVE WSInv'
<1> DEFINE n == task[k].got
           u == task[k].thread
           m == IF task[k].tn THEN n ELSE active[u]
           l == IF task[k].tl THEN task[k].with ELSE timeline[u]
<1>1. task[k].at # "sent" /\ task[k].text = <<>> /\ ToSet(task[k].text) \subseteq accepted
  BY Shown, TextSets DEF ResumeDone, TaskOK
<1>2. Settled(k)
  BY <1>1, StayingPut DEF ResumeDone
<1>3. u \in Known /\ u \in Threads /\ n \in Nat /\ n \in Turns \cup {NoTurn}
  BY Shown DEF ResumeDone, TaskOK, TaskRec, WSInv, TurnsInv
<1>4. UNCHANGED <<creating, seen, starting>> /\ threads' \subseteq Known
  BY <1>3, Shown DEF ResumeDone
<1>5. /\ active' \in [Threads -> Nat]
      /\ \A t \in Threads : \/ active'[t] \in {active[t], NoTurn}
                            \/ active'[t] \in Turns /\ EndComes(t, active'[t], 1)
  <2>1. active' = [active EXCEPT ![u] = m]
    BY DEF ResumeDone
  <2>2. active \in [Threads -> Nat] /\ m \in Nat
    BY <1>3, Shown
  <2>3. m = active[u] \/ m = NoTurn \/ (m \in Turns /\ EndComes(u, m, 1))
    BY <1>3 DEF ResumeDone, WSInv, TurnsInv
  <2> HIDE DEF m
  <2> QED  BY <1>3, <2>1, <2>2, <2>3
<1>6. /\ timeline' \in [Threads -> SUBSET Items]
      /\ \A t \in Threads : seen'[t] \subseteq seen[t] /\ seen'[t] \subseteq timeline'[t]
      /\ \A t \in Threads : \A p \in timeline'[t] : p.kind = "prompt" =>
            p \in timeline[t] \/ ToSet(p.text) \subseteq accepted
  <2>1. timeline' = [timeline EXCEPT ![u] = l]
    BY DEF ResumeDone
  <2>2. /\ task[k].with \subseteq items[u] /\ (task[k].tl => seen[u] \subseteq task[k].with)
        /\ items[u] \subseteq Items
        /\ \A p \in items[u] : p.kind = "prompt" => ToSet(p.text) \subseteq accepted
    BY <1>3 DEF ResumeDone, WSInv, TimelineInv, ServerTypes
  <2>3. l \subseteq Items /\ seen[u] \subseteq l
    BY <1>3, <2>2, Shown
  <2>4. \A p \in l : p.kind = "prompt" => p \in timeline[u] \/ ToSet(p.text) \subseteq accepted
    BY <2>2
  <2> HIDE DEF l
  <2> QED  BY <1>3, <1>4, <2>1, <2>3, <2>4, Shown
<1> QED  BY <1>1, <1>2, <1>4, <1>5, <1>6, Shown, SettledSteps

(* refreshThreads after its answer.                                        *)
LEMMA ListDoneKeeps ==
  ASSUME WSInv, NEW k \in Tasks, ListDone(k) PROVE WSInv'
<1>1. task[k].at # "sent" /\ task[k].text = <<>> /\ ToSet(task[k].text) \subseteq accepted
      /\ task[k].with \subseteq Known
  BY Shown, TextSets DEF ListDone, TaskOK
<1>2. threads' \subseteq Known
  BY <1>1, Shown DEF ListDone, Listed
<1>3. UNCHANGED <<ready, timeline, active, starting, creating, typed, wire, server, seen>>
  BY DEF ListDone
<1>4. Settled(k)
  <2>1. ASSUME NEW id \in threads', GoTo(k, id) PROVE Settled(k)
    BY <1>1, <1>2, <1>3, <2>1, GoingTo
  <2>2. ASSUME Stay(k) PROVE Settled(k)
    BY <1>1, <1>3, <2>2, StayingPut DEF Stay, edit
  <2> QED  BY <2>1, <2>2 DEF ListDone
<1> QED  BY <1>1, <1>2, <1>3, <1>4, Shown, SettledSteps

(* archiveThread after its answer.                                         *)
LEMMA ArchiveDoneKeeps ==
  ASSUME WSInv, NEW k \in Tasks, ArchiveDone(k) PROVE WSInv'
<1> DEFINE u == task[k].thread
<1>1. task[k].at # "sent" /\ task[k].text = <<>> /\ ToSet(task[k].text) \subseteq accepted
      /\ u \in Threads
  BY Shown, TextSets DEF ArchiveDone, TaskOK
<1>2. threads' \subseteq Known
  BY <1>1, Shown DEF ArchiveDone
<1>3. UNCHANGED <<ready, starting, creating, typed, wire, server>>
  BY DEF ArchiveDone
<1>4. Settled(k)
  <2>1. ASSUME NEW id \in Known \cup {NoThread}, GoTo(k, id) PROVE Settled(k)
    BY <1>1, <1>3, <2>1, GoingTo
  <2>2. ASSUME Stay(k) PROVE Settled(k)
    BY <1>1, <1>3, <2>2, StayingPut DEF Stay, edit
  <2>3. Stay(k) \/ \E id \in Known \cup {NoThread} : GoTo(k, id)
    BY <1>2 DEF ArchiveDone
  <2> QED  BY <2>1, <2>2, <2>3
<1>5. /\ timeline' = [timeline EXCEPT ![u] = {}] /\ seen' = [seen EXCEPT ![u] = {}]
      /\ active' = [active EXCEPT ![u] = NoTurn] /\ NoTurn \in Nat
  BY DEF ArchiveDone, NoTurn
<1>6. /\ timeline' \in [Threads -> SUBSET Items] /\ seen' \in [Threads -> SUBSET Items]
      /\ active' \in [Threads -> Nat]
      /\ \A t \in Threads : active'[t] \in {active[t], NoTurn}
      /\ \A t \in Threads : seen'[t] \subseteq seen[t] /\ seen'[t] \subseteq timeline'[t]
      /\ \A t \in Threads : timeline'[t] \subseteq timeline[t]
  BY <1>1, <1>5, Shown
<1> QED  BY <1>1, <1>2, <1>3, <1>4, <1>6, Shown, SettledSteps

(* The text that restoreDraft leaves: that of the send and what is there.  *)
LEMMA RecoveredIs ==
  ASSUME WSInv, NEW text \in Texts, NEW b \in Keys
  PROVE  /\ Recovered(text, b) \in Texts
         /\ ToSet(Recovered(text, b)) = ToSet(text) \cup Editor(b)
<1> DEFINE typing == IF selected = b THEN composer ELSE drafts[b]
<1>1. typing \in Texts /\ Editor(b) = ToSet(typing)
  BY DEF WSInv, ClientTypes, Editor
<1>2. Recovered(text, b) = IF typing \in {<<>>, text} THEN text ELSE text \o typing
  BY DEF Recovered
<1> HIDE DEF typing
<1> QED  BY <1>1, <1>2, TextSets

(* The text of a failed send goes back into an editor.                     *)
LEMMA Restoring ==
  ASSUME WSInv, NEW k \in Tasks, task[k].at # "sent", NEW b \in Known \cup {NoThread},
         RestoreDraft(task[k].text, b), task' = [task EXCEPT ![k] = None],
         UNCHANGED <<selected, typed, inbox>>, UNCHANGED <<ready, wire, server>>,
         \A x \in Tasks \ {k} : task[x].op \in Creates /\ task[x].at = "answered" =>
            task[x].thread # b
  PROVE  Settled(k)
<1> DEFINE text == task[k].text
           new == Recovered(text, b)
<1>1. /\ task \in [Tasks -> TaskRec] /\ \A x \in Tasks : Steady(task[x], task[x])
      /\ text \in Texts /\ drafts \in [Keys -> Texts] /\ composer \in Texts /\ selected \in Keys
      /\ b \in Keys /\ typed \in Nat /\ NoThread \notin Threads
  BY WorkspaceAssumption DEF WSInv, ClientTypes, Steady, TaskRec, Known, ServerTypes, Keys
<1>2. AppStep(k, None)
  BY <1>1, Requesting
<1>3. Quiet(k, None)
  BY <1>2, CallsAre DEF Quiet, TaskOK, Creates
<1>4. new \in Texts /\ ToSet(new) = ToSet(text) \cup Editor(b)
  BY <1>1, RecoveredIs
<1>5. drafts' = [drafts EXCEPT ![b] = new] /\ composer' = IF selected = b THEN new ELSE composer
  BY DEF RestoreDraft
<1> HIDE DEF new
<1>6. /\ drafts' \in [Keys -> Texts] /\ composer' \in Texts
      /\ \A j \in Keys \ {b} : drafts'[j] = drafts[j] /\ Editor(j)' = Editor(j)
      /\ drafts'[b] = new /\ Editor(b)' = ToSet(new)
  BY <1>1, <1>4, <1>5 DEF Editor
<1>7. TextInv'
  <2> DEFINE p == <<"task", k>>
             q == <<"editor", b>>
  <2>1. p \in Pots /\ q \in Pots /\ p # q
    BY <1>1, PotsAre
  <2>2. Contents[p] = ToSet(text) /\ Contents[q] = Editor(b)
    BY <1>1, PotsHold
  <2>3. task'[k].text = <<>> /\ \A x \in Tasks \ {k} : task'[x] = task[x]
    BY <1>1, CallsAre
  <2>4. Contents'[p] = {} /\ Contents'[q] = Contents[p] \cup Contents[q]
    <3>1. Contents'[p] = ToSet(task'[k].text) /\ Contents'[q] = Editor(b)'
      BY <1>1, PotsHold
    <3>2. ToSet(task'[k].text) = {}
      BY <2>3, TextSets
    <3> QED  BY <1>4, <1>6, <2>2, <3>1, <3>2
  <2>5. ASSUME NEW z \in Pots \ {p, q} PROVE Contents'[z] = Contents[z]
    <3>1. CASE \E j \in Keys : z = <<"editor", j>>
      <4>1. PICK j \in Keys : z = <<"editor", j>>
        BY <3>1
      <4>2. j # b
        BY <2>5, <4>1
      <4> QED  BY <1>6, <4>1, <4>2, PotsHold
    <3>2. CASE \E j \in Tasks : z = <<"task", j>>
      <4>1. PICK j \in Tasks : z = <<"task", j>>
        BY <3>2
      <4>2. j # k
        BY <2>5, <4>1
      <4> QED  BY <2>3, <4>1, <4>2, PotsHold
    <3> QED  BY <2>5, <3>1, <3>2, PotsAre
  <2>6. KeptIn(Contents, typed, accepted) /\ ToSet(drafts[selected]) \subseteq 1 .. typed
    BY DEF WSInv, TextInv
  <2> HIDE DEF p, q
  <2>7. KeptIn(Contents', typed, accepted)
    BY <1>1, <2>1, <2>4, <2>5, <2>6, Moving
  <2>8. ToSet(drafts'[selected]) \subseteq 1 .. typed
    <3>1. Contents'[q] \subseteq 1 .. typed
      BY <2>1, <2>7 DEF KeptIn
    <3> QED  BY <1>1, <1>4, <1>6, <2>2, <2>4, <2>6, <3>1
  <2>9. accepted' = accepted /\ typed' = typed /\ selected' = selected
    BY DEF server
  <2> QED  BY <2>7, <2>8, <2>9 DEF TextInv, KeptIn, Pots
<1>8. \A t \in Threads \ Known : drafts'[t] = <<>>
  BY <1>1, <1>6 DEF WSInv, KnownInv, Keys
<1>9. ASSUME NEW x \in Tasks \ {k}, task[x].op \in Creates, task[x].at = "answered", task'[x].sel
      PROVE  task[x].thread # selected' /\ drafts'[task[x].thread] = <<>>
  <2>1. task[x].sel /\ task[x].thread \in Keys
    BY <1>1, <1>9 DEF TaskRec
  <2>2. task[x].thread # selected /\ drafts[task[x].thread] = <<>>
    BY <1>9, <2>1 DEF WSInv, NewThreadInv
  <2>3. task[x].thread # b
    BY <1>9
  <2> QED  BY <1>6, <2>1, <2>2, <2>3
<1>10. selected' \in Known \cup {NoThread} /\ typed' = typed
  BY DEF WSInv, KnownInv
<1> QED  BY <1>3, <1>6, <1>7, <1>8, <1>9, <1>10 DEF Settled

(* createThread's catch, and the guard of sendComposer after it.           *)
LEMMA CreateFailedKeeps ==
  ASSUME WSInv, NEW k \in Tasks, CreateFailed(k) PROVE WSInv'
<1>1. task[k].at # "sent" /\ task[k].op # "turn" /\ task[k].op \in Creates
  BY DEF CreateFailed, Creates
<1>2. /\ UNCHANGED <<threads, starting, timeline, seen, active>> /\ creating' = FALSE
      /\ UNCHANGED <<selected, typed, inbox>> /\ UNCHANGED <<ready, wire, server>>
      /\ task' = [task EXCEPT ![k] = None]
  BY DEF CreateFailed
<1>3. \A x \in Tasks \ {k} : task[x].op \notin Creates
  BY <1>1, Shown
<1>4. Settled(k)
  <2>1. CASE task[k].op = "sendCreate"
    <3>1. RestoreDraft(task[k].text, NoThread)
      BY <2>1 DEF CreateFailed
    <3> QED  BY <1>1, <1>2, <1>3, <3>1, Restoring
  <2>2. CASE task[k].op # "sendCreate"
    <3>1. UNCHANGED <<drafts, composer>>
      BY <2>2 DEF CreateFailed
    <3>2. task[k].text = <<>>
      BY <1>1, <2>2, Shown DEF TaskOK
    <3>3. ToSet(task[k].text) \subseteq accepted
      BY <3>2, TextSets
    <3> QED  BY <1>1, <1>2, <3>1, <3>3, StayingPut DEF edit
  <2> QED  BY <2>1, <2>2
<1> QED  BY <1>1, <1>2, <1>3, <1>4, Shown, SettledSteps

(* The catch of sendComposer after turn/start.                             *)
LEMMA TurnFailedKeeps ==
  ASSUME WSInv, NEW k \in Tasks, TurnFailed(k) PROVE WSInv'
<1> DEFINE u == task[k].thread
           q == Prompt(task[k].text)
<1>1. task[k].at # "sent" /\ task[k].op = "turn" /\ u \in Known /\ u \in Threads
  BY Shown DEF TurnFailed, TaskOK
<1>2. /\ UNCHANGED <<threads, creating, active>> /\ starting' \subseteq Threads
      /\ UNCHANGED <<selected, typed, inbox>> /\ UNCHANGED <<ready, wire, server>>
      /\ task' = [task EXCEPT ![k] = None] /\ RestoreDraft(task[k].text, u)
      /\ timeline' = [timeline EXCEPT ![u] = timeline[u] \ {q}]
      /\ seen' = [seen EXCEPT ![u] = seen[u] \ {q}]
  BY Shown DEF TurnFailed, TakePrompt
<1>3. \A x \in Tasks \ {k} : task[x].op \in Creates /\ task[x].at = "answered" => task[x].thread # u
  BY <1>1 DEF WSInv, NewThreadInv
<1>4. Settled(k)
  BY <1>1, <1>2, <1>3, Restoring
<1>5. /\ timeline' \in [Threads -> SUBSET Items] /\ seen' \in [Threads -> SUBSET Items]
      /\ \A t \in Threads : seen'[t] \subseteq seen[t] /\ seen'[t] \subseteq timeline'[t]
      /\ \A t \in Threads : timeline'[t] \subseteq timeline[t]
      /\ q \notin timeline'[u]
  BY <1>1, <1>2, Shown
<1> QED  BY <1>1, <1>2, <1>4, <1>5, Shown, SettledSteps

(* The task calls without text, and nothing is edited.                     *)
LEMMA QuietCalls ==
  ASSUME WSInv, NEW k \in Tasks, NEW c, Quiet(k, c), UNCHANGED <<selected, edit>>,
         ToSet(task[k].text) \subseteq accepted
  PROVE  Settled(k)
<1>1. \A j \in Keys : Editor(j)' = Editor(j)
  BY DEF Editor, edit
<1>2. /\ selected' \in Known \cup {NoThread} /\ drafts' \in [Keys -> Texts] /\ composer' \in Texts
      /\ typed' = typed /\ drafts' = drafts /\ selected' = selected
      /\ ToSet(drafts'[selected']) \subseteq 1 .. typed
  BY DEF WSInv, KnownInv, ClientTypes, edit, TextInv
<1> QED  BY <1>1, <1>2, Settling

(* createThread and archiveThread up to their awaits.                      *)
LEMMA UserCallsKeep ==
  ASSUME WSInv, NEW k \in Tasks
  PROVE  /\ CreateThread(k) => WSInv'
         /\ \A t \in Threads : ArchiveThread(k, t) => WSInv'
<1>1. task \in [Tasks -> TaskRec] /\ \A x \in Tasks : Steady(task[x], task[x])
  BY DEF WSInv, ClientTypes, Steady
<1>2. /\ "create" \in Ops /\ "archive" \in Ops /\ NoThread \in Keys /\ Threads \subseteq Keys
      /\ <<>> \in Texts /\ "create" \in Creates /\ "archive" \notin Creates
  BY TextSets DEF Ops, Creates, Keys
<1>3. ASSUME CreateThread(k) PROVE WSInv'
  <2> DEFINE c == Call("create", NoThread, <<>>)
  <2>1. task[k] = None /\ ready /\ ~creating
    BY <1>3 DEF CreateThread, UserStarts, Free
  <2>2. task[k].at # "sent" /\ ToSet(task[k].text) \subseteq accepted /\ task[k].op # "turn"
    BY <2>1, CallsAre, TextSets
  <2>3. /\ UNCHANGED <<ready, wire, server>> /\ UNCHANGED <<selected, edit>> /\ creating' = TRUE
        /\ UNCHANGED <<threads, timeline, active, starting, seen>>
    BY <1>3 DEF CreateThread
  <2>4. SendRequest(task, k, c)
    BY <1>3 DEF CreateThread
  <2>5. AppStep(k, c)
    BY <1>1, <1>2, <2>1, <2>2, <2>3, <2>4, Requesting
  <2>6. TaskOK(c) /\ c.text = <<>> /\ c.op = "create"
    BY <1>2, <2>1, CallsAre DEF TaskOK
  <2>7. Quiet(k, c)
    BY <2>1, <2>3, <2>5, <2>6, Shown DEF Quiet
  <2>8. Settled(k)
    BY <2>2, <2>3, <2>7, QuietCalls
  <2> QED  BY <2>2, <2>3, <2>8, Shown, SettledSteps
<1>4. ASSUME NEW t \in Threads, ArchiveThread(k, t) PROVE WSInv'
  <2> DEFINE c == Call("archive", t, <<>>)
  <2>1. task[k] = None /\ ready /\ t \in Known
    BY <1>4, Shown DEF ArchiveThread, UserStarts, Free
  <2>2. task[k].at # "sent" /\ ToSet(task[k].text) \subseteq accepted /\ task[k].op # "turn"
    BY <2>1, CallsAre, TextSets
  <2>3. /\ UNCHANGED <<ready, wire, server>> /\ UNCHANGED <<selected, edit>>
        /\ UNCHANGED <<threads, timeline, active, starting, creating, seen>>
    BY <1>4 DEF ArchiveThread
  <2>4. SendRequest(task, k, c)
    BY <1>4 DEF ArchiveThread
  <2>5. AppStep(k, c)
    BY <1>1, <1>2, <2>1, <2>2, <2>3, <2>4, Requesting
  <2>6. TaskOK(c) /\ c.text = <<>> /\ c.op = "archive"
    BY <1>2, <2>1, CallsAre DEF TaskOK
  <2>7. Quiet(k, c)
    BY <1>2, <2>5, <2>6 DEF Quiet
  <2>8. Settled(k)
    BY <2>2, <2>3, <2>7, QuietCalls
  <2> QED  BY <2>2, <2>3, <2>8, Shown, SettledSteps
<1> QED  BY <1>3, <1>4

(* A step that moves text between two places keeps the texts.              *)
LEMMA TextMoves ==
  ASSUME WSInv, accepted' = accepted, typed' = typed, NEW a \in Pots, NEW b \in Pots, a # b,
         Contents'[a] = {}, Contents'[b] = Contents[a] \cup Contents[b],
         \A p \in Pots \ {a, b} : Contents'[p] = Contents[p],
         ToSet(drafts'[selected']) \subseteq 1 .. typed
  PROVE  TextInv'
<1>1. typed \in Nat /\ KeptIn(Contents, typed, accepted)
  BY DEF WSInv, ClientTypes, TextInv
<1>2. KeptIn(Contents', typed, accepted)
  BY <1>1, Moving
<1> QED  BY <1>2 DEF TextInv, KeptIn, Pots

(* sendComposer up to its first await.                                     *)
LEMMA SendComposerKeeps ==
  ASSUME WSInv, NEW k \in Tasks, SendComposer(k) PROVE WSInv'
<1> DEFINE u == selected
           op == IF u = NoThread THEN "sendCreate" ELSE "turn"
           c == Call(op, u, composer)
           tasks == IF u = NoThread THEN task ELSE TimelineMoved(task, u)
<1>1. task[k] = None /\ ready /\ ~creating /\ composer' = <<>>
  BY DEF SendComposer, UserStarts, Free, Running
<1>2. task[k].at # "sent" /\ task[k].text = <<>> /\ task[k].op # "turn"
  BY <1>1, CallsAre
<1>3. /\ task \in [Tasks -> TaskRec] /\ drafts \in [Keys -> Texts] /\ composer \in Texts
      /\ selected \in Keys /\ NoThread \notin Threads /\ op \in Ops
      /\ (u # NoThread => u \in Known /\ u \in Threads)
      /\ ToSet(drafts[selected]) \subseteq 1 .. typed
  BY WorkspaceAssumption DEF WSInv, ClientTypes, KnownInv, Keys, TextInv, Ops, Creates
<1>4. tasks \in [Tasks -> TaskRec] /\ \A x \in Tasks : Steady(task[x], tasks[x])
  <2>1. /\ TimelineMoved(task, u) \in [Tasks -> TaskRec]
        /\ \A x \in Tasks : Steady(task[x], TimelineMoved(task, u)[x])
    BY <1>3, Counters
  <2>2. \A x \in Tasks : Steady(task[x], task[x])
    BY DEF Steady
  <2> QED  BY <1>3, <2>1, <2>2
<1>5. UNCHANGED <<ready, wire, server>> /\ UNCHANGED <<threads, selected, drafts, active, typed, seen>>
  BY DEF SendComposer
<1>6. SendRequest(tasks, k, c)
  BY DEF SendComposer, StartTurn
<1> HIDE DEF tasks
<1>7. AppStep(k, c)
  BY <1>1, <1>2, <1>3, <1>4, <1>5, <1>6, Requesting
<1>8. c.op = op /\ c.thread = u /\ c.text = composer
  BY <1>3, CallsAre
<1>9. TaskOK(c)
  BY <1>1, <1>3, <1>7, <1>8 DEF TaskOK, Creates, AppStep
<1>10. /\ task'[k] = c /\ \A x \in Tasks \ {k} : Steady(task[x], task'[x])
       /\ task' \in [Tasks -> TaskRec] /\ accepted' = accepted
  BY <1>7 DEF AppStep, server
<1>11. TextInv'
  <2> DEFINE p == <<"editor", u>>
             q == <<"task", k>>
  <2>1. p \in Pots /\ q \in Pots /\ p # q
    BY <1>3, PotsAre
  <2>2. Contents[p] = ToSet(composer) /\ Contents[q] = {}
    <3>1. Contents[p] = Editor(u) /\ Contents[q] = ToSet(task[k].text)
      BY <1>3, PotsHold
    <3> QED  BY <1>2, <3>1, TextSets DEF Editor
  <2>3. Contents'[p] = {} /\ Contents'[q] = ToSet(composer)
    <3>1. Contents'[p] = ToSet(composer') /\ Contents'[q] = ToSet(task'[k].text)
      BY <1>3, <1>5, PotsHold DEF Editor
    <3> QED  BY <1>1, <1>8, <1>10, <3>1, TextSets
  <2>4. ASSUME NEW z \in Pots \ {p, q} PROVE Contents'[z] = Contents[z]
    <3>1. CASE \E j \in Keys : z = <<"editor", j>>
      <4>1. PICK j \in Keys : z = <<"editor", j>>
        BY <3>1
      <4>2. j # u
        BY <2>4, <4>1
      <4>3. Editor(j)' = Editor(j)
        BY <1>5, <4>2 DEF Editor
      <4> QED  BY <4>1, <4>3, PotsHold
    <3>2. CASE \E j \in Tasks : z = <<"task", j>>
      <4>1. PICK j \in Tasks : z = <<"task", j>>
        BY <3>2
      <4>2. j # k
        BY <2>4, <4>1
      <4> QED  BY <1>10, <4>1, <4>2, PotsHold DEF Steady
    <3> QED  BY <2>4, <3>1, <3>2, PotsAre
  <2>5. ToSet(drafts'[selected']) \subseteq 1 .. typed
    BY <1>3, <1>5
  <2> HIDE DEF p, q
  <2> QED  BY <1>5, <1>10, <2>1, <2>2, <2>3, <2>4, <2>5, TextMoves
<1>12. \A x \in Tasks : task[x].op \notin Creates
  BY <1>1, Shown
<1>13. /\ starting' \in SUBSET Threads /\ creating' \in BOOLEAN /\ (op = "sendCreate" => creating')
       /\ timeline' \in [Threads -> SUBSET Items]
       /\ \A t \in Threads : timeline[t] \subseteq timeline'[t]
       /\ \A t \in Threads : \A p \in timeline'[t] : p \in timeline[t] \/ (p = Prompt(composer) /\ t = u /\ op = "turn")
  <2>1. CASE u = NoThread
    <3>1. UNCHANGED <<starting, timeline>> /\ creating' = TRUE
      BY <2>1 DEF SendComposer
    <3> QED  BY <2>1, <3>1, Shown
  <2>2. CASE u # NoThread
    <3>1. /\ timeline' = [timeline EXCEPT ![u] = timeline[u] \cup {Prompt(composer)}]
          /\ starting' = starting \cup {u} /\ creating' = creating
      BY <2>2 DEF SendComposer, StartTurn
    <3>2. Prompt(composer) \in Items
      BY <1>3 DEF Prompt, Items
    <3> QED  BY <1>3, <2>2, <3>1, <3>2, Shown
  <2> QED  BY <2>1, <2>2
<1>14. ClientTypes'
  BY <1>1, <1>3, <1>5, <1>10, <1>13, TextSets DEF WSInv, ClientTypes
<1>15. ASSUME NEW t \in Threads, NEW p \in timeline'[t], p.kind = "prompt"
       PROVE  \/ ToSet(p.text) \subseteq accepted
              \/ \E x \in Tasks : /\ task'[x].op = "turn" /\ task'[x].thread = t
                                  /\ task'[x].text = p.text
  <2>1. CASE p \in timeline[t]
    <3> SUFFICES ASSUME ~(ToSet(p.text) \subseteq accepted)
                 PROVE  \E x \in Tasks : /\ task'[x].op = "turn" /\ task'[x].thread = t
                                         /\ task'[x].text = p.text
      OBVIOUS
    <3>1. PICK x \in Tasks : task[x].op = "turn" /\ task[x].thread = t /\ task[x].text = p.text
      BY <1>15, <2>1 DEF WSInv, TimelineInv
    <3>2. x # k
      BY <1>2, <3>1
    <3> QED  BY <1>10, <3>1, <3>2 DEF Steady
  <2>2. CASE p = Prompt(composer) /\ t = u /\ op = "turn"
    <3>1. p.text = composer
      BY <2>2 DEF Prompt
    <3> QED  BY <1>8, <1>10, <2>2, <3>1
  <2> QED  BY <1>13, <2>1, <2>2
<1>16. /\ threads' \subseteq Known /\ selected' \in Known \cup {NoThread}
       /\ \A t \in Threads \ Known : drafts'[t] = <<>>
       /\ \A t \in Threads : seen'[t] \subseteq seen[t] /\ seen'[t] \subseteq timeline'[t]
       /\ \A t \in Threads : active'[t] \in {active[t], NoTurn}
  BY <1>5, <1>13, Shown DEF WSInv, KnownInv
<1>17. /\ c.op \in Creates => creating'
       /\ c.op \in Creates \cup {"turn"} => \A x \in Tasks \ {k} : task[x].op \notin Creates
  BY <1>8, <1>12, <1>13 DEF Creates
<1> HIDE DEF c, op, u
<1> QED  BY <1>7, <1>9, <1>11, <1>12, <1>14, <1>15, <1>16, <1>17, AppSteps

(* createThread after thread/start without a text to send.                 *)
LEMMA CreateDoneAlone ==
  ASSUME WSInv, NEW k \in Tasks, CreateDone(k), task[k].op = "create" PROVE WSInv'
<1> DEFINE n == task[k].thread
<1>1. /\ task[k].at # "sent" /\ task[k].at = "answered" /\ task[k].op \in Creates
      /\ n \in Known /\ n \in Threads /\ task[k].text = <<>>
  BY Shown DEF CreateDone, TaskOK, Creates
<1>2. ToSet(task[k].text) \subseteq accepted
  BY <1>1, TextSets
<1>3. /\ creating' = FALSE /\ threads' = threads \cup {n} /\ UNCHANGED <<active, typed, seen, starting, inbox>>
      /\ timeline' = [timeline EXCEPT ![n] = {}] /\ UNCHANGED <<ready, wire, server>>
  BY DEF CreateDone
<1>4. Settled(k)
  <2>1. CASE ~task[k].sel
    <3>1. UNCHANGED <<selected, drafts, composer>> /\ task' = [task EXCEPT ![k] = None]
      BY <2>1 DEF CreateDone
    <3> QED  BY <1>1, <1>2, <1>3, <3>1, StayingPut DEF edit
  <2>2. CASE task[k].sel
    <3>1. /\ selected' = n /\ drafts' = PutAway(n) /\ composer' = BringOut(n)
          /\ task' = [Moved(task, n) EXCEPT ![k] = None]
      BY <2>2 DEF CreateDone, CarryDraft
    <3>2. /\ Moved(task, n) \in [Tasks -> TaskRec]
          /\ \A x \in Tasks : Steady(task[x], Moved(task, n)[x])
      BY Shown, Counters
    <3>3. AppStep(k, None)
      BY <1>1, <1>3, <3>1, <3>2, Requesting
    <3>4. Quiet(k, None)
      BY <3>3, CallsAre DEF Quiet, TaskOK, Creates
    <3>5. \A x \in Tasks \ {k} : task'[x] = Moved(task, n)[x]
      BY <3>1, <3>2
    <3> HIDE DEF n
    <3> QED  BY <1>1, <1>2, <1>3, <3>1, <3>4, <3>5, Swapping
  <2> QED  BY <2>1, <2>2, <1>1, Shown DEF TaskRec
<1>5. /\ threads' \subseteq Known /\ \A x \in Tasks \ {k} : task[x].op \notin Creates
      /\ timeline' \in [Threads -> SUBSET Items]
      /\ \A t \in Threads : timeline'[t] \subseteq timeline[t]
  BY <1>1, <1>3, Shown
<1>6. \A t \in Threads : seen'[t] \subseteq seen[t] /\ seen'[t] \subseteq timeline'[t]
  <2>1. seen[n] = {}
    BY <1>1 DEF WSInv, NewThreadInv
  <2> QED  BY <1>1, <1>3, <2>1, Shown
<1> QED  BY <1>1, <1>2, <1>3, <1>4, <1>5, <1>6, Shown, SettledSteps

(* And with one: the editor's text goes along if the new thread is         *)
(* selected.                                                               *)
LEMMA CreateDoneText ==
  ASSUME WSInv, NEW k \in Tasks, CreateDone(k), task[k].op = "sendCreate",
         task'[k].text = task[k].text, \A x \in Tasks : task'[x].text = task[x].text
  PROVE  /\ TextInv' /\ drafts' \in [Keys -> Texts] /\ composer' \in Texts
         /\ \A t \in Threads \ Known : drafts'[t] = <<>>
<1>1. /\ drafts \in [Keys -> Texts] /\ composer \in Texts /\ selected \in Keys
      /\ NoThread \notin Threads /\ typed \in Nat /\ KeptIn(Contents, typed, accepted)
      /\ ToSet(drafts[selected]) \subseteq 1 .. typed
      /\ selected \in Known \cup {NoThread} /\ \A t \in Threads \ Known : drafts[t] = <<>>
  BY WorkspaceAssumption DEF WSInv, ClientTypes, TextInv, KnownInv
<1>2. typed' = typed /\ accepted' = accepted /\ composer' = composer
  BY DEF CreateDone, server
<1>3. CASE ~task[k].sel
  <2>1. selected' = selected /\ drafts' = drafts
    BY <1>3 DEF CreateDone
  <2>2. ASSUME NEW p \in Pots PROVE Contents'[p] = Contents[p]
    <3>1. \A j \in Keys : Editor(j)' = Editor(j)
      BY <1>2, <2>1 DEF Editor
    <3> QED  BY <3>1, PotsAre, PotsHold
  <2>3. KeptIn(Contents', typed, accepted)
    BY <1>1, <2>2, Staying
  <2>4. TextInv'
    BY <1>1, <1>2, <2>1, <2>3 DEF TextInv, KeptIn, Pots
  <2> QED  BY <1>1, <1>2, <2>1, <2>4
<1>4. CASE task[k].sel
  <2>0. PICK n : n = task[k].thread
    OBVIOUS
  <2>1. selected' = n /\ drafts' = [PutAway(n) EXCEPT ![selected] = <<>>]
    BY <1>4, <2>0 DEF CreateDone, CarryDraft
  <2>2. n # selected /\ drafts[n] = <<>> /\ n \in Known /\ n \in Threads /\ n \in Keys
    BY <1>4, <2>0, Shown DEF CreateDone, WSInv, NewThreadInv, TaskOK, Creates, Keys
  <2>3. PutAway(n) = [drafts EXCEPT ![selected] = composer]
    BY <2>2 DEF PutAway
  <2>4. /\ drafts' \in [Keys -> Texts] /\ drafts'[selected] = <<>>
        /\ \A t \in Keys \ {selected} : drafts'[t] = drafts[t]
    BY <1>1, <2>1, <2>3, TextSets
  <2>5. /\ Editor(n)' = ToSet(composer) /\ Editor(selected) = ToSet(composer) /\ Editor(n) = {}
        /\ \A j \in Keys \ {selected, n} : Editor(j)' = Editor(j)
    BY <1>2, <2>1, <2>2, <2>4, TextSets DEF Editor
  <2> DEFINE p == <<"editor", selected>>
             q == <<"editor", n>>
  <2>6. p \in Pots /\ q \in Pots /\ p # q
    BY <1>1, <2>2, PotsAre
  <2>7. Contents[p] = ToSet(composer) /\ Contents[q] = {} /\ Contents'[q] = ToSet(composer)
    BY <1>1, <2>2, <2>5, PotsHold
  <2>8. Contents'[p] = {}
    BY <1>1, <2>1, <2>2, <2>4, PotsHold, TextSets DEF Editor
  <2>9. ASSUME NEW z \in Pots \ {p, q} PROVE Contents'[z] = Contents[z]
    <3>1. CASE \E j \in Keys : z = <<"editor", j>>
      <4>1. PICK j \in Keys : z = <<"editor", j>>
        BY <3>1
      <4>2. j # n /\ j # selected
        BY <2>9, <4>1
      <4> QED  BY <2>5, <4>1, <4>2, PotsHold
    <3>2. CASE \E j \in Tasks : z = <<"task", j>>
      BY <3>2, PotsHold
    <3> QED  BY <2>9, <3>1, <3>2, PotsAre
  <2>10. ToSet(drafts'[selected']) \subseteq 1 .. typed
    BY <2>1, <2>2, <2>4, TextSets
  <2> HIDE DEF p, q
  <2>11. TextInv'
    BY <1>2, <2>6, <2>7, <2>8, <2>9, <2>10, TextMoves
  <2>12. \A t \in Threads \ Known : drafts'[t] = <<>>
    BY <1>1, <2>4 DEF Keys
  <2> QED  BY <1>1, <1>2, <2>4, <2>11, <2>12
<1> QED  BY <1>3, <1>4

(* sendComposer goes on in the new thread.                                 *)
LEMMA CreateDoneSends ==
  ASSUME WSInv, NEW k \in Tasks, CreateDone(k), task[k].op = "sendCreate" PROVE WSInv'
<1>0. PICK n : n = task[k].thread
  OBVIOUS
<1>1. PICK text : text = task[k].text
  OBVIOUS
<1> DEFINE c == Call("turn", n, text)
           base == IF task[k].sel THEN Moved(task, n) ELSE task
           tasks == TimelineMoved(base, n)
<1>2. /\ task[k].at = "answered" /\ task[k].op \in Creates /\ n \in Known /\ n \in Threads
      /\ n \in Keys /\ text \in Texts /\ ready /\ "turn" \in Ops
  BY <1>0, <1>1, Shown DEF CreateDone, TaskOK, Creates, Keys, TaskRec, Ops
<1>3. base \in [Tasks -> TaskRec] /\ \A x \in Tasks : Steady(task[x], base[x])
  <2>1. /\ Moved(task, n) \in [Tasks -> TaskRec]
        /\ \A x \in Tasks : Steady(task[x], Moved(task, n)[x])
    BY Shown, Counters
  <2>2. \A x \in Tasks : Steady(task[x], task[x])
    BY DEF Steady
  <2> QED  BY <2>1, <2>2, Shown
<1>4. SendRequest(tasks, k, c) /\ starting' = starting \cup {n}
  BY <1>0, <1>1, <1>2 DEF CreateDone, StartTurn
<1> HIDE DEF base
<1>5. tasks \in [Tasks -> TaskRec] /\ \A x \in Tasks : Steady(task[x], tasks[x])
  <2>1. tasks \in [Tasks -> TaskRec] /\ \A x \in Tasks : Steady(base[x], tasks[x])
    BY <1>3, Counters
  <2> QED  BY <1>3, <2>1 DEF Steady
<1> HIDE DEF tasks
<1>6. /\ UNCHANGED <<ready, wire, server>> /\ UNCHANGED <<active, typed, seen>>
      /\ creating' = FALSE /\ threads' = threads \cup {n} /\ selected' \in {selected, n}
      /\ timeline' = [timeline EXCEPT ![n] = {Prompt(text)}]
  BY <1>0, <1>1 DEF CreateDone
<1>7. AppStep(k, c)
  BY <1>2, <1>4, <1>5, <1>6, Requesting
<1>8. c.op = "turn" /\ c.thread = n /\ c.text = text
  BY <1>2, CallsAre
<1>9. TaskOK(c)
  BY <1>2, <1>7, <1>8 DEF TaskOK, Creates, AppStep
<1> HIDE DEF c
<1>10. /\ task'[k] = c /\ \A x \in Tasks \ {k} : Steady(task[x], task'[x])
       /\ task' \in [Tasks -> TaskRec]
  BY <1>7 DEF AppStep
<1>11. \A x \in Tasks : task'[x].text = task[x].text
  BY <1>1, <1>8, <1>10 DEF Steady
<1>12. /\ TextInv' /\ drafts' \in [Keys -> Texts] /\ composer' \in Texts
       /\ \A t \in Threads \ Known : drafts'[t] = <<>>
  BY <1>11, CreateDoneText
<1>13. \A x \in Tasks \ {k} : task[x].op \notin Creates
  BY <1>2, Shown
<1>14. /\ timeline' \in [Threads -> SUBSET Items] /\ timeline'[n] = {Prompt(text)}
       /\ \A t \in Threads \ {n} : timeline'[t] = timeline[t]
  <2>1. Prompt(text) \in Items
    BY <1>2 DEF Prompt, Items
  <2> QED  BY <1>2, <1>6, <2>1, Shown
<1>15. ClientTypes'
  BY <1>2, <1>4, <1>6, <1>10, <1>12, <1>14 DEF WSInv, ClientTypes
<1>16. ASSUME NEW t \in Threads, NEW p \in timeline'[t], p.kind = "prompt"
       PROVE  \/ ToSet(p.text) \subseteq accepted
              \/ \E x \in Tasks : /\ task'[x].op = "turn" /\ task'[x].thread = t
                                  /\ task'[x].text = p.text
  <2>1. CASE t # n
    <3> SUFFICES ASSUME ~(ToSet(p.text) \subseteq accepted)
                 PROVE  \E x \in Tasks : /\ task'[x].op = "turn" /\ task'[x].thread = t
                                         /\ task'[x].text = p.text
      OBVIOUS
    <3>1. PICK x \in Tasks : task[x].op = "turn" /\ task[x].thread = t /\ task[x].text = p.text
      BY <1>14, <1>16, <2>1 DEF WSInv, TimelineInv
    <3>2. x # k
      BY <3>1
    <3> QED  BY <1>10, <3>1, <3>2 DEF Steady
  <2>2. CASE t = n
    <3>1. p.text = text
      BY <1>14, <1>16, <2>2 DEF Prompt
    <3> QED  BY <1>8, <1>10, <2>2, <3>1
  <2> QED  BY <2>1, <2>2
<1>17. /\ threads' \subseteq Known /\ selected' \in Known \cup {NoThread}
       /\ \A t \in Threads : active'[t] \in {active[t], NoTurn}
  BY <1>2, <1>6, Shown DEF WSInv, KnownInv
<1>18. \A t \in Threads : seen'[t] \subseteq seen[t] /\ seen'[t] \subseteq timeline'[t]
  <2>1. seen[n] = {}
    BY <1>0, <1>2 DEF WSInv, NewThreadInv
  <2> QED  BY <1>2, <1>6, <1>14, <2>1, Shown
<1>19. task[k].at # "sent" /\ c.op \notin Creates
  BY <1>2, <1>8 DEF Creates
<1> QED  BY <1>7, <1>9, <1>12, <1>13, <1>15, <1>16, <1>17, <1>18, <1>19, AppSteps

---------------------------------------------------------------------------
(* Typing.                                                                 *)

(* New text in the editor.                                                 *)
LEMMA TypeKeeps ==
  ASSUME WSInv, Type PROVE WSInv'
<1>1. /\ typed \in Nat /\ typed' = typed + 1 /\ composer' = Append(composer, typed')
      /\ UNCHANGED <<ready, threads, selected, drafts, timeline, active, starting,
                     creating, task, inbox, wire, server, seen>>
      /\ composer \in Texts /\ selected \in Keys
  BY DEF Type, WSInv, ClientTypes
<1>2. composer' \in Texts /\ ToSet(composer') = ToSet(composer) \cup {typed'} /\ typed' \in Nat
  BY <1>1, TextSets
<1>3. TextInv'
  <2> DEFINE q == <<"editor", selected>>
  <2>1. /\ q \in Pots /\ Contents'[q] = Contents[q] \cup {typed'}
        /\ \A p \in Pots \ {q} : Contents'[p] = Contents[p]
    <3>1. q \in Pots /\ Contents'[q] = ToSet(composer') /\ Contents[q] = ToSet(composer)
      BY <1>1, PotsAre, PotsHold DEF Editor
    <3>2. ASSUME NEW p \in Pots \ {q} PROVE Contents'[p] = Contents[p]
      <4>1. CASE \E j \in Keys : p = <<"editor", j>>
        <5>1. PICK j \in Keys : p = <<"editor", j>>
          BY <4>1
        <5>2. j # selected
          BY <3>2, <5>1
        <5>3. Editor(j)' = Editor(j)
          BY <1>1, <5>2 DEF Editor
        <5> QED  BY <5>1, <5>3, PotsHold
      <4>2. CASE \E j \in Tasks : p = <<"task", j>>
        BY <1>1, <4>2, PotsHold
      <4> QED  BY <3>2, <4>1, <4>2, PotsAre
    <3> QED  BY <1>2, <3>1, <3>2
  <2>2. KeptIn(Contents, typed, accepted) /\ ToSet(drafts[selected]) \subseteq 1 .. typed
    BY DEF WSInv, TextInv
  <2>3. PICK d, e : d = Contents /\ e = Contents'
    OBVIOUS
  <2>4. KeptIn(e, typed', accepted)
    <3> HIDE DEF q
    <3>1. /\ \A p \in Pots : d[p] \subseteq 1 .. typed
          /\ \A i \in 1 .. typed : /\ \A p, r \in Pots : i \in d[p] /\ i \in d[r] => p = r
                                   /\ i \in accepted \/ \E p \in Pots : i \in d[p]
      BY <2>2, <2>3 DEF KeptIn
    <3>2. e[q] = d[q] \cup {typed'} /\ \A p \in Pots \ {q} : e[p] = d[p]
      BY <2>1, <2>3
    <3>3. \A p \in Pots : e[p] \subseteq 1 .. typed'
      BY <1>1, <2>1, <3>1, <3>2
    <3>4. ASSUME NEW i \in 1 .. typed'
          PROVE  /\ \A p, r \in Pots : i \in e[p] /\ i \in e[r] => p = r
                 /\ i \in accepted \/ \E p \in Pots : i \in e[p]
      <4>1. CASE i = typed'
        <5>1. \A p \in Pots : i \notin d[p]
          BY <1>1, <3>1, <4>1
        <5> QED  BY <2>1, <3>2, <4>1, <5>1
      <4>2. CASE i # typed'
        <5>1. i \in 1 .. typed
          BY <1>1, <4>2
        <5>2. \A p \in Pots : i \in e[p] <=> i \in d[p]
          BY <3>2, <4>2
        <5> QED  BY <3>1, <5>1, <5>2
      <4> QED  BY <4>1, <4>2
    <3> QED  BY <3>3, <3>4 DEF KeptIn
  <2>5. ToSet(drafts'[selected']) \subseteq 1 .. typed'
    BY <1>1, <2>2
  <2> QED  BY <1>1, <2>3, <2>4, <2>5 DEF TextInv, KeptIn, Pots, server
<1>4. ClientTypes' /\ ServerTypes'
  BY <1>1, <1>2 DEF WSInv, ClientTypes, ServerTypes, server
<1>5. TasksInv' /\ CreateInv' /\ InboxInv' /\ KnownInv'
  BY <1>1 DEF WSInv, TasksInv, TaskOK, CreateInv, InboxInv, KnownInv, Known, server
<1>6. NewThreadInv' /\ TurnsInv' /\ TimelineInv'
  BY <1>1 DEF WSInv, NewThreadInv, TurnsInv, EndComes, TimelineInv, server
<1> QED  BY <1>3, <1>4, <1>5, <1>6 DEF WSInv

---------------------------------------------------------------------------
(* The server.                                                             *)

(* Steps that edit nothing keep the texts.                                 *)
LEMMA TextStays ==
  ASSUME WSInv, UNCHANGED <<selected, edit>>, \A x \in Tasks : task'[x].text = task[x].text,
         accepted \subseteq accepted'
  PROVE  TextInv'
<1>1. \A j \in Keys : Editor(j)' = Editor(j)
  BY DEF Editor, edit
<1>2. \A p \in Pots : Contents'[p] = Contents[p]
  BY <1>1, PotsAre, PotsHold
<1>3. /\ typed \in Nat /\ KeptIn(Contents, typed, accepted) /\ typed' = typed
      /\ ToSet(drafts'[selected']) \subseteq 1 .. typed
  BY DEF WSInv, ClientTypes, TextInv, edit
<1>4. KeptIn(Contents', typed, accepted')
  BY <1>2, <1>3, Staying
<1> QED  BY <1>3, <1>4 DEF TextInv, KeptIn, Pots

(* Notifications behind those on the wire.                                 *)
LEMMA Wired ==
  ASSUME NEW w \in Seq(Notes), NEW notes \in Seq(Notes)
  PROVE  /\ w \o notes \in Seq(Notes) /\ Len(w) \in Nat /\ DOMAIN w = 1 .. Len(w)
         /\ \A i \in DOMAIN w : i \in DOMAIN (w \o notes) /\ (w \o notes)[i] = w[i]
         /\ \A j \in DOMAIN notes : /\ Len(w) + j \in DOMAIN (w \o notes)
                                    /\ (w \o notes)[Len(w) + j] = notes[j]
                                    /\ j >= 1 /\ j \in Nat
         /\ \A i \in DOMAIN (w \o notes) : i \in DOMAIN w \/ i - Len(w) \in DOMAIN notes
         /\ \A i \in DOMAIN (w \o notes) : i \in Nat /\ i >= 1
<1>1. /\ w \o notes \in Seq(Notes) /\ Len(w \o notes) = Len(w) + Len(notes)
      /\ Len(w) \in Nat /\ Len(notes) \in Nat
      /\ \A i \in 1 .. Len(w \o notes) :
           (w \o notes)[i] = IF i <= Len(w) THEN w[i] ELSE notes[i - Len(w)]
      /\ DOMAIN (w \o notes) = 1 .. Len(w \o notes)
      /\ DOMAIN w = 1 .. Len(w) /\ DOMAIN notes = 1 .. Len(notes)
  BY ConcatProperties
<1> QED  BY <1>1

(* A step of the server: it answers task r.task, if anyone still waits,    *)
(* and sends notes.                                                        *)
ServerStep(J, notes) ==
  /\ UNCHANGED client /\ ServerTypes' /\ task' \in [Tasks -> TaskRec]
  /\ inbox' \subseteq inbox /\ \A r \in inbox' : r.task \notin J
  /\ \A x \in Tasks \ J : task'[x] = task[x]
  /\ \A x \in J : /\ task[x].at = "sent" /\ task'[x].op = task[x].op /\ task'[x].text = task[x].text
                  /\ (task[x].op = "turn" => task'[x].thread = task[x].thread)
                  /\ TaskOK(task[x])' /\ task'[x].got \in Turns \cup {NoTurn}
  /\ notes \in Seq(Notes) /\ wire' = wire \o notes
  /\ Known \subseteq Known' /\ accepted \subseteq accepted'
  /\ has' \cap archived' = {} /\ heard' \subseteq has'

(* What it keeps of turns.                                                 *)
LEMMA ServerTurns ==
  ASSUME WSInv, NEW J \in SUBSET Tasks, NEW notes, ServerStep(J, notes),
         \A t \in Threads : turn'[t] \in Turns \cup {NoTurn},
         \A t \in Threads : turn[t] # NoTurn /\ t \in heard =>
            \/ turn'[t] = turn[t] /\ t \in heard'
            \/ \E j \in DOMAIN notes : notes[j] = Note("turn/completed", t, turn[t], <<>>),
         \A j \in DOMAIN notes : notes[j].turn \in Turns \cup {NoTurn},
         \A j \in DOMAIN notes : notes[j].kind = "turn/started" =>
            /\ notes[j].turn # NoTurn /\ turn'[notes[j].thread] = notes[j].turn
            /\ notes[j].thread \in heard',
         \A x \in J : task'[x].op \in {"turn", "resume"} /\ task'[x].at = "answered"
                      /\ task'[x].got # NoTurn =>
            turn'[task'[x].thread] = task'[x].got /\ task'[x].thread \in heard'
  PROVE  TurnsInv'
<1> USE DEF ServerStep
<1>1. wire \in Seq(Notes) /\ active' = active
  BY DEF WSInv, ServerTypes, client
<1>2. /\ Len(wire) \in Nat /\ DOMAIN wire = 1 .. Len(wire)
      /\ \A i \in DOMAIN wire : i \in DOMAIN wire' /\ wire'[i] = wire[i]
      /\ \A j \in DOMAIN notes : /\ Len(wire) + j \in DOMAIN wire' /\ wire'[Len(wire) + j] = notes[j]
                                 /\ j >= 1 /\ j \in Nat
      /\ \A i \in DOMAIN wire' : i \in DOMAIN wire \/ i - Len(wire) \in DOMAIN notes
      /\ \A i \in DOMAIN wire' : i \in Nat /\ i >= 1
  BY <1>1, Wired
<1>3. ASSUME NEW t \in Threads, NEW n, n # NoTurn, NEW i \in (DOMAIN wire) \cup {1}, EndComes(t, n, i)
      PROVE  EndComes(t, n, i)'
  <2>1. CASE turn[t] = n /\ t \in heard
    <3>1. CASE turn'[t] = turn[t] /\ t \in heard'
      BY <2>1, <3>1 DEF EndComes
    <3>2. CASE \E j \in DOMAIN notes : notes[j] = Note("turn/completed", t, turn[t], <<>>)
      <4>1. PICK j \in DOMAIN notes : notes[j] = Note("turn/completed", t, n, <<>>)
        BY <2>1, <3>2
      <4>2. Len(wire) + j >= i
        BY <1>2, <4>1
      <4> QED  BY <1>2, <4>1, <4>2 DEF EndComes, Note
    <3> QED  BY <1>3, <2>1, <3>1, <3>2
  <2>2. CASE \E j \in DOMAIN wire : j >= i /\ wire[j] = Note("turn/completed", t, n, <<>>)
    BY <1>2, <2>2 DEF EndComes, Note
  <2> QED  BY <1>3, <2>1, <2>2 DEF EndComes
<1>4. \A t \in Threads : active'[t] # NoTurn => EndComes(t, active[t], 1)'
  <2> SUFFICES ASSUME NEW t \in Threads, active[t] # NoTurn PROVE EndComes(t, active[t], 1)'
    BY <1>1
  <2>1. PICK n : n = active[t]
    OBVIOUS
  <2>2. EndComes(t, n, 1)
    BY <2>1 DEF WSInv, TurnsInv
  <2>3. EndComes(t, n, 1)'
    BY <1>3, <2>1, <2>2
  <2> QED  BY <1>1, <2>1, <2>3 DEF EndComes
<1>5. ASSUME NEW x \in Tasks, task'[x].op \in {"turn", "resume"}, task'[x].at = "answered",
             task'[x].tn, task'[x].got # NoTurn
      PROVE  EndComes(task[x].thread, task[x].got, 1)'
  <2>1. CASE x \in J
    BY <1>5, <2>1 DEF EndComes
  <2>2. CASE x \notin J
    <3>1. task'[x] = task[x]
      BY <2>2
    <3>2. PICK t, n : t = task[x].thread /\ n = task[x].got
      OBVIOUS
    <3>3. EndComes(t, n, 1) /\ t \in Threads /\ n # NoTurn
      BY <1>5, <3>1, <3>2, Shown DEF WSInv, TurnsInv, TaskOK
    <3>4. EndComes(t, n, 1)'
      BY <1>3, <3>3
    <3> QED  BY <3>1, <3>2, <3>4 DEF EndComes
  <2> QED  BY <2>1, <2>2
<1>6. ASSUME NEW i \in DOMAIN wire', wire'[i].kind = "turn/started"
      PROVE  wire'[i].turn # NoTurn /\ EndComes(wire[i].thread, wire[i].turn, i)'
  <2>1. CASE i \in DOMAIN wire
    <3>1. PICK t, n : t = wire[i].thread /\ n = wire[i].turn
      OBVIOUS
    <3>2. wire[i] \in Notes
      BY <1>1, <1>2, <2>1
    <3>3. t \in Threads /\ n # NoTurn /\ EndComes(t, n, i)
      BY <1>2, <1>6, <2>1, <3>1, <3>2 DEF WSInv, TurnsInv, Notes
    <3>4. EndComes(t, n, i)'
      BY <1>3, <2>1, <3>3
    <3> QED  BY <1>2, <2>1, <3>1, <3>3, <3>4 DEF EndComes
  <2>2. CASE i \notin DOMAIN wire
    <3>1. PICK j \in DOMAIN notes : wire'[i] = notes[j]
      BY <1>2, <1>6, <2>2
    <3> QED  BY <1>6, <3>1 DEF EndComes
  <2> QED  BY <2>1, <2>2
<1>7. \A i \in DOMAIN wire' : wire'[i].turn \in Turns \cup {NoTurn}
  BY <1>2 DEF WSInv, TurnsInv
<1>8. \A x \in Tasks : task'[x].got \in Turns \cup {NoTurn}
  BY DEF WSInv, TurnsInv
<1>9. \A t \in Threads : active'[t] \in Turns \cup {NoTurn}
  BY <1>1 DEF WSInv, TurnsInv
<1> QED  BY <1>4, <1>5, <1>6, <1>7, <1>8, <1>9 DEF TurnsInv, EndComes

(* A step of the server keeps the invariant if it keeps turns, and what it *)
(* says is so.                                                             *)
LEMMA ServerSteps ==
  ASSUME WSInv, NEW J \in SUBSET Tasks, NEW notes, ServerStep(J, notes), TurnsInv',
         \A t \in Threads \ Known' : turn'[t] = NoTurn,
         \A j \in DOMAIN notes : notes[j].thread \in Known',
         \A x \in J : task'[x].op \in Creates /\ task'[x].at = "answered" =>
            task'[x].thread \in Known' \ Known /\ turn'[task'[x].thread] = NoTurn,
         \A x \in Tasks : task'[x].op \in Creates /\ task'[x].at = "answered" =>
            \A j \in DOMAIN notes : notes[j].thread = task'[x].thread => notes[j].kind = "thread/started",
         \A t \in Known : turn[t] = NoTurn => turn'[t] = NoTurn \/ \E r \in inbox : r.op = "turn" /\ r.thread = t,
         \A t \in Threads : items[t] \subseteq items'[t],
         \A t \in Threads : \A p \in items'[t] :
            p.kind = "prompt" => p \in items[t] \/ ToSet(p.text) \subseteq accepted',
         \A j \in DOMAIN notes :
            /\ notes[j].kind = "item/started" => Prompt(notes[j].text) \in items'[notes[j].thread]
            /\ notes[j].kind = "turn/completed" => Answer(notes[j].turn) \in items'[notes[j].thread],
         \A x \in J : task'[x].op = "resume" /\ task'[x].at = "answered" =>
            task'[x].with \subseteq items'[task'[x].thread] /\ seen[task'[x].thread] \subseteq task'[x].with
  PROVE  WSInv'
<1> USE DEF ServerStep
<1>1. /\ UNCHANGED <<ready, threads, selected, drafts, composer, typed, timeline, active, starting,
                     creating, seen>>
      /\ UNCHANGED <<selected, edit>>
      /\ wire \in Seq(Notes) /\ Known' \subseteq Threads /\ NoThread \notin Threads
  BY WorkspaceAssumption DEF WSInv, ServerTypes, client, edit, Known
<1>2. /\ \A i \in DOMAIN wire : i \in DOMAIN wire' /\ wire'[i] = wire[i]
      /\ \A i \in DOMAIN wire' : i \in DOMAIN wire \/ \E j \in DOMAIN notes : wire'[i] = notes[j]
      /\ DOMAIN wire = 1 .. Len(wire)
  <2>1. /\ Len(wire) \in Nat /\ DOMAIN wire = 1 .. Len(wire)
        /\ \A i \in DOMAIN wire : i \in DOMAIN wire' /\ wire'[i] = wire[i]
        /\ \A j \in DOMAIN notes : wire'[Len(wire) + j] = notes[j] /\ j \in Nat
        /\ \A i \in DOMAIN wire' : i \in DOMAIN wire \/ i - Len(wire) \in DOMAIN notes
        /\ \A i \in DOMAIN wire' : i \in Nat
    BY <1>1, Wired
  <2>2. ASSUME NEW i \in DOMAIN wire', i - Len(wire) \in DOMAIN notes
        PROVE  \E j \in DOMAIN notes : wire'[i] = notes[j]
    <3>1. Len(wire) + (i - Len(wire)) = i
      BY <2>1
    <3> QED  BY <2>1, <2>2, <3>1
  <2> QED  BY <2>1, <2>2
<1>3. \A x \in Tasks : task'[x].op = task[x].op /\ task'[x].text = task[x].text
  OBVIOUS
<1>4. TextInv' /\ ClientTypes' /\ CreateInv'
  <2>1. TextInv'
    BY <1>1, <1>3, TextStays
  <2>2. ClientTypes'
    BY <1>1 DEF WSInv, ClientTypes
  <2>3. CreateInv'
    BY <1>1, <1>3 DEF WSInv, CreateInv
  <2> QED  BY <2>1, <2>2, <2>3
<1>5. TasksInv'
  <2> SUFFICES ASSUME NEW x \in Tasks PROVE TaskOK(task[x])'
    BY DEF TasksInv
  <2>1. CASE x \in J
    BY <2>1
  <2>2. CASE x \notin J
    <3>1. TaskOK(task[x]) /\ task'[x] = task[x]
      BY <2>2, Shown
    <3> QED  BY <1>1, <3>1 DEF TaskOK
  <2> QED  BY <2>1, <2>2
<1>6. InboxInv'
  <2> SUFFICES ASSUME NEW r \in inbox'
               PROVE  /\ r.task \in Tasks => /\ task'[r.task].at = "sent" /\ task'[r.task].op = r.op
                                             /\ task'[r.task].thread = r.thread
                                             /\ task'[r.task].text = r.text
                      /\ r.op \in {"turn", "resume", "archive"} => r.thread \in Known'
    BY DEF InboxInv
  <2> QED  BY DEF WSInv, InboxInv
<1>7. KnownInv'
  <2>1. \A i \in DOMAIN wire' : wire'[i].thread \in Known'
    BY <1>2 DEF WSInv, KnownInv
  <2>2. \A t \in Threads \ Known' : drafts'[t] = <<>> /\ seen'[t] = {} /\ turn'[t] = NoTurn
    BY <1>1 DEF WSInv, KnownInv
  <2> QED  BY <1>1, <2>1, <2>2 DEF WSInv, KnownInv
<1>8. NewThreadInv'
  <2> SUFFICES ASSUME NEW x \in Tasks, task'[x].op \in Creates, task'[x].at = "answered"
               PROVE  LET n == task'[x].thread IN
                      /\ task'[x].sel => n # selected' /\ drafts'[n] = <<>>
                      /\ \A j \in Tasks : task'[j].op = "turn" => task'[j].thread # n
                      /\ \A r \in inbox' : r.op = "turn" => r.thread # n
                      /\ turn'[n] = NoTurn /\ seen'[n] = {}
                      /\ \A i \in DOMAIN wire' : wire'[i].thread = n => wire'[i].kind = "thread/started"
    BY DEF NewThreadInv
  <2>0. PICK n : n = task'[x].thread
    OBVIOUS
  <2> SUFFICES /\ task'[x].sel => n # selected /\ drafts[n] = <<>>
               /\ \A j \in Tasks : task'[j].op = "turn" => task'[j].thread # n
               /\ \A r \in inbox' : r.op = "turn" => r.thread # n
               /\ turn'[n] = NoTurn /\ seen[n] = {}
               /\ \A i \in DOMAIN wire' : wire'[i].thread = n => wire'[i].kind = "thread/started"
    BY <1>1, <2>0
  <2>1. \A j \in DOMAIN notes : notes[j].thread = n => notes[j].kind = "thread/started"
    BY <2>0
  <2>2. \A j \in Tasks : task'[j].op = "turn" => task[j].op = "turn" /\ task'[j].thread = task[j].thread
    OBVIOUS
  <2>3. CASE x \in J
    <3>1. n \in Known' \ Known /\ turn'[n] = NoTurn /\ n \in Threads /\ n # NoThread
      BY <1>1, <2>0, <2>3
    <3>2. drafts[n] = <<>> /\ seen[n] = {} /\ n # selected /\ \A i \in DOMAIN wire : wire[i].thread # n
      BY <3>1 DEF WSInv, KnownInv
    <3>3. \A j \in Tasks : task[j].op = "turn" => task[j].thread # n
      BY <3>1, Shown DEF TaskOK
    <3>4. \A r \in inbox : r.op = "turn" => r.thread # n
      BY <3>1 DEF WSInv, InboxInv
    <3> QED  BY <1>2, <2>1, <2>2, <3>1, <3>2, <3>3, <3>4
  <2>4. CASE x \notin J
    <3>1. task'[x] = task[x] /\ n \in Known
      BY <2>0, <2>4, Shown DEF TaskOK
    <3>2. /\ task[x].sel => n # selected /\ drafts[n] = <<>>
          /\ \A j \in Tasks : task[j].op = "turn" => task[j].thread # n
          /\ \A r \in inbox : r.op = "turn" => r.thread # n
          /\ turn[n] = NoTurn /\ seen[n] = {}
          /\ \A i \in DOMAIN wire : wire[i].thread = n => wire[i].kind = "thread/started"
      BY <2>0, <3>1 DEF WSInv, NewThreadInv
    <3>3. turn'[n] = NoTurn
      BY <3>1, <3>2
    <3> QED  BY <1>2, <2>1, <2>2, <3>1, <3>2, <3>3
  <2> QED  BY <2>3, <2>4
<1>9. TimelineInv'
  <2>1. ASSUME NEW t \in Threads
        PROVE  /\ seen'[t] \subseteq timeline'[t] /\ seen'[t] \subseteq items'[t]
               /\ \A p \in items'[t] : p.kind = "prompt" => ToSet(p.text) \subseteq accepted'
    BY <1>1 DEF WSInv, TimelineInv
  <2>2. ASSUME NEW t \in Threads, NEW p \in timeline'[t], p.kind = "prompt"
        PROVE  \/ ToSet(p.text) \subseteq accepted'
               \/ \E x \in Tasks : /\ task'[x].op = "turn" /\ task'[x].thread = t
                                   /\ task'[x].text = p.text
    <3> SUFFICES ASSUME ~(ToSet(p.text) \subseteq accepted')
                 PROVE  \E x \in Tasks : /\ task'[x].op = "turn" /\ task'[x].thread = t
                                         /\ task'[x].text = p.text
      OBVIOUS
    <3>1. PICK x \in Tasks : task[x].op = "turn" /\ task[x].thread = t /\ task[x].text = p.text
      BY <1>1, <2>2 DEF WSInv, TimelineInv
    <3>2. task'[x].thread = task[x].thread
      BY <3>1
    <3> QED  BY <1>3, <3>1, <3>2
  <2>3. ASSUME NEW i \in DOMAIN wire'
        PROVE  /\ wire'[i].kind = "item/started" => Prompt(wire'[i].text) \in items'[wire'[i].thread]
               /\ wire'[i].kind = "turn/completed" => Answer(wire'[i].turn) \in items'[wire'[i].thread]
    <3>1. CASE i \in DOMAIN wire
      <4>1. wire[i] \in Notes /\ wire'[i] = wire[i]
        BY <1>1, <1>2, <3>1
      <4>2. wire[i].thread \in Threads
        BY <4>1 DEF Notes
      <4>3. /\ wire[i].kind = "item/started" => Prompt(wire[i].text) \in items[wire[i].thread]
            /\ wire[i].kind = "turn/completed" => Answer(wire[i].turn) \in items[wire[i].thread]
        BY <3>1 DEF WSInv, TimelineInv
      <4> QED  BY <4>1, <4>2, <4>3
    <3>2. CASE i \notin DOMAIN wire
      BY <1>2, <2>3, <3>2
    <3> QED  BY <3>1, <3>2
  <2>4. ASSUME NEW x \in Tasks, task'[x].op = "resume", task'[x].at = "answered"
        PROVE  /\ task'[x].with \subseteq items'[task'[x].thread]
               /\ task'[x].tl => seen'[task'[x].thread] \subseteq task'[x].with
    <3>1. CASE x \in J
      BY <1>1, <2>4, <3>1
    <3>2. CASE x \notin J
      <4>1. task'[x] = task[x] /\ task[x].thread \in Threads
        BY <2>4, <3>2, Shown DEF TaskOK
      <4>2. /\ task[x].with \subseteq items[task[x].thread]
            /\ task[x].tl => seen[task[x].thread] \subseteq task[x].with
        BY <2>4, <4>1 DEF WSInv, TimelineInv
      <4> QED  BY <1>1, <4>1, <4>2
    <3> QED  BY <3>1, <3>2
  <2> QED  BY <2>1, <2>2, <2>3, <2>4 DEF TimelineInv
<1> QED  BY <1>4, <1>5, <1>6, <1>7, <1>8, <1>9 DEF WSInv

(* Two requests of one task are one.                                       *)
LEMMA OneRequest ==
  ASSUME WSInv, NEW r \in inbox, NEW q \in inbox, r.task \in Tasks, q.task = r.task
  PROVE  q = r
<1>1. r \in Requests /\ q \in Requests
  BY DEF WSInv, ServerTypes
<1>2. q.op = r.op /\ q.thread = r.thread /\ q.text = r.text
  BY DEF WSInv, InboxInv
<1> QED  BY <1>1, <1>2 DEF Requests

(* What an answer changes.                                                 *)
LEMMA Answering ==
  ASSUME WSInv, NEW r \in inbox, NEW t \in Keys, NEW n \in Nat,
         NEW with \in SUBSET (Threads \cup Items), Answered(r, t, n, with)
  PROVE  LET J == {r.task} \cap Tasks IN
         /\ task' \in [Tasks -> TaskRec] /\ inbox' \subseteq inbox
         /\ \A q \in inbox' : q.task \notin J
         /\ \A x \in Tasks \ J : task'[x] = task[x]
         /\ \A x \in J : /\ task[x].at = "sent" /\ task[x].op = r.op /\ task[x].thread = r.thread
                         /\ task[x].text = r.text /\ ready
                         /\ task'[x].op = r.op /\ task'[x].text = r.text /\ task'[x].at = "answered"
                         /\ task'[x].thread = t /\ task'[x].got = n /\ task'[x].with = with
<1> DEFINE J == {r.task} \cap Tasks
<1>1. inbox' = inbox \ {r} /\ task \in [Tasks -> TaskRec]
  BY DEF Answered, WSInv, ClientTypes
<1>2. \A q \in inbox' : q.task \notin J
  BY <1>1, OneRequest
<1>3. CASE r.task \notin Tasks
  BY <1>1, <1>2, <1>3 DEF Answered
<1>4. CASE r.task \in Tasks
  <2>1. PICK j \in Tasks : j = r.task
    BY <1>4
  <2> DEFINE c == [task[j] EXCEPT !.at = "answered", !.thread = t, !.got = n, !.with = with]
  <2>2. task' = [task EXCEPT ![j] = c]
    BY <1>4, <2>1 DEF Answered
  <2>3. task[j] \in TaskRec
    BY <1>1
  <2>4. /\ c \in TaskRec /\ c.op = task[j].op /\ c.text = task[j].text /\ c.at = "answered"
        /\ c.thread = t /\ c.got = n /\ c.with = with
    BY <2>3 DEF TaskRec
  <2> HIDE DEF c
  <2>5. task' \in [Tasks -> TaskRec] /\ task'[j] = c /\ \A x \in Tasks \ {j} : task'[x] = task[x]
    BY <1>1, <2>2, <2>4
  <2>6. /\ task[j].at = "sent" /\ task[j].op = r.op /\ task[j].thread = r.thread
        /\ task[j].text = r.text
    BY <2>1 DEF WSInv, InboxInv
  <2>7. ready
    BY <2>6, Shown DEF TaskOK
  <2> QED  BY <1>1, <1>2, <2>1, <2>4, <2>5, <2>6, <2>7
<1> QED  BY <1>3, <1>4

(* What a refusal changes.                                                 *)
LEMMA RefuseKeeps ==
  ASSUME WSInv, NEW r \in inbox, Refuse(r) PROVE WSInv'
<1> DEFINE J == {r.task} \cap Tasks
<1>1. /\ inbox' = inbox \ {r} /\ task \in [Tasks -> TaskRec] /\ UNCHANGED <<wire, server, client>>
      /\ wire \in Seq(Notes) /\ J \in SUBSET Tasks
  BY DEF Refuse, WSInv, ClientTypes, ServerTypes
<1>2. \A q \in inbox' : q.task \notin J
  BY <1>1, OneRequest
<1>3. /\ task' \in [Tasks -> TaskRec] /\ \A x \in Tasks \ J : task'[x] = task[x]
      /\ \A x \in J : /\ task[x].at = "sent" /\ task'[x].op = task[x].op
                      /\ task'[x].text = task[x].text /\ task'[x].thread = task[x].thread
                      /\ task'[x].at = "failed" /\ task'[x].got = task[x].got
  <2>1. CASE r.task \notin Tasks
    BY <1>1, <2>1 DEF Refuse
  <2>2. CASE r.task \in Tasks
    <3>1. PICK j \in Tasks : j = r.task
      BY <2>2
    <3> DEFINE c == [task[j] EXCEPT !.at = "failed"]
    <3>2. task' = [task EXCEPT ![j] = c]
      BY <2>2, <3>1 DEF Refuse
    <3>3. task[j] \in TaskRec
      BY <1>1
    <3>4. /\ c \in TaskRec /\ c.op = task[j].op /\ c.text = task[j].text /\ c.at = "failed"
          /\ c.thread = task[j].thread /\ c.got = task[j].got
      BY <3>3 DEF TaskRec
    <3> HIDE DEF c
    <3>5. task' \in [Tasks -> TaskRec] /\ task'[j] = c /\ \A x \in Tasks \ {j} : task'[x] = task[x]
      BY <1>1, <3>2, <3>4
    <3>6. task[j].at = "sent"
      BY <3>1 DEF WSInv, InboxInv
    <3> QED  BY <3>1, <3>4, <3>5, <3>6
  <2> QED  BY <2>1, <2>2
<1>4. /\ has' = has /\ archived' = archived /\ turn' = turn /\ items' = items /\ heard' = heard
      /\ accepted' = accepted /\ Known' = Known /\ ready' = ready /\ ServerTypes'
  BY <1>1 DEF server, client, Known, WSInv, ServerTypes
<1>5. \A x \in J : TaskOK(task[x])'
  BY <1>3, <1>4, Shown DEF TaskOK
<1>6. <<>> \in Seq(Notes) /\ wire' = wire \o <<>> /\ DOMAIN <<>> = {}
  BY <1>1
<1>7. ServerStep(J, <<>>)
  BY <1>1, <1>2, <1>3, <1>4, <1>5, <1>6 DEF ServerStep, WSInv, TurnsInv, KnownInv
<1>8. TurnsInv'
  <2>1. \A t \in Threads : turn'[t] \in Turns \cup {NoTurn}
    BY <1>4 DEF WSInv, TurnsInv
  <2>2. \A x \in J : task'[x].at # "answered"
    BY <1>3
  <2> HIDE DEF J
  <2> QED  BY <1>1, <1>4, <1>6, <1>7, <2>1, <2>2, ServerTurns
<1>9. /\ \A t \in Threads \ Known' : turn'[t] = NoTurn
      /\ \A t \in Threads : \A p \in items'[t] : p \in items[t]
      /\ \A x \in J : task'[x].at # "answered"
  BY <1>3, <1>4 DEF WSInv, KnownInv
<1> HIDE DEF J
<1> QED  BY <1>1, <1>4, <1>6, <1>7, <1>8, <1>9, ServerSteps

(* What the server has, before the step.                                   *)
LEMMA ServerHas ==
  ASSUME WSInv
  PROVE  /\ wire \in Seq(Notes) /\ inbox \in SUBSET Requests
         /\ has \in SUBSET Threads /\ archived \in SUBSET Threads /\ heard \in SUBSET Threads
         /\ has \cap archived = {} /\ heard \subseteq has /\ Known = has \cup archived
         /\ turn \in [Threads -> Nat] /\ items \in [Threads -> SUBSET Items]
         /\ nextTurn \in Nat \ {0} /\ accepted \in SUBSET Nat
         /\ NoTurn \in Nat /\ NoThread \in Keys /\ Threads \subseteq Keys /\ <<>> \in Texts
         /\ \A t \in Threads : turn[t] \in Turns \cup {NoTurn}
         /\ \A t \in Threads \ Known : turn[t] = NoTurn
         /\ \A r \in inbox : r.op \in {"turn", "resume", "archive"} => r.thread \in Known
         /\ <<>> \in Seq(Notes) /\ wire \o <<>> = wire /\ DOMAIN <<>> = {}
BY TextSets DEF WSInv, ServerTypes, KnownInv, Known, NoTurn, TurnsInv, InboxInv, Keys

(* One notification and two.                                               *)
LEMMA NotesAre ==
  ASSUME NEW m \in Notes, NEW n \in Notes
  PROVE  /\ <<m>> \in Seq(Notes) /\ DOMAIN <<m>> = {1} /\ <<m>>[1] = m
         /\ <<m, n>> \in Seq(Notes) /\ DOMAIN <<m, n>> = {1, 2} /\ <<m, n>>[1] = m /\ <<m, n>>[2] = n
         /\ \A w \in Seq(Notes) : Append(w, m) = w \o <<m>>
OBVIOUS

(* thread/resume                                                           *)
LEMMA ServeResumeKeeps ==
  ASSUME WSInv, NEW r \in inbox, ServeResume(r) PROVE WSInv'
<1> DEFINE J == {r.task} \cap Tasks
<1>1. PICK t : t = r.thread
  OBVIOUS
<1>2. /\ r.op = "resume" /\ t \in has /\ heard' = heard \cup {t} /\ t \in Threads
      /\ Answered(r, t, turn[t], items[t])
      /\ UNCHANGED <<wire, has, archived, turn, items, nextTurn, accepted, client>>
      /\ t \in Keys /\ turn[t] \in Nat /\ items[t] \in SUBSET (Threads \cup Items)
      /\ Known' = Known /\ ready' = ready /\ t \in Known
  BY <1>1, ServerHas DEF ServeResume, Known, client
<1>3. /\ task' \in [Tasks -> TaskRec] /\ inbox' \subseteq inbox
      /\ \A q \in inbox' : q.task \notin J
      /\ \A x \in Tasks \ J : task'[x] = task[x]
      /\ \A x \in J : /\ task[x].at = "sent" /\ task[x].op = r.op /\ task[x].thread = r.thread
                      /\ task[x].text = r.text /\ ready
                      /\ task'[x].op = r.op /\ task'[x].text = r.text /\ task'[x].at = "answered"
                      /\ task'[x].thread = t /\ task'[x].got = turn[t] /\ task'[x].with = items[t]
  BY <1>2, Answering
<1>4. \A x \in J : TaskOK(task[x])'
  <2> SUFFICES ASSUME NEW x \in J PROVE TaskOK(task[x])'
    OBVIOUS
  <2>1. TaskOK(task[x]) /\ x \in Tasks
    BY Shown
  <2> QED  BY <1>2, <1>3, <2>1 DEF TaskOK, Creates
<1>5. ServerTypes'
  BY <1>2, <1>3, ServerHas DEF ServerTypes
<1>6. ServerStep(J, <<>>)
  BY <1>2, <1>3, <1>4, <1>5, ServerHas DEF ServerStep
<1>7. /\ J \in SUBSET Tasks /\ \A x \in J : task'[x].op \notin Creates
      /\ \A u \in Threads \ Known' : turn'[u] = NoTurn
      /\ \A x \in J : turn'[task'[x].thread] = task'[x].got /\ task'[x].thread \in heard'
      /\ \A x \in J : /\ task'[x].with \subseteq items'[task'[x].thread]
                      /\ seen[task'[x].thread] \subseteq task'[x].with
  BY <1>2, <1>3, ServerHas DEF Creates, WSInv, TimelineInv
<1> HIDE DEF J
<1>8. TurnsInv'
  BY <1>2, <1>6, <1>7, ServerHas, ServerTurns
<1> QED  BY <1>2, <1>6, <1>7, <1>8, ServerHas, ServerSteps

(* thread/list                                                             *)
LEMMA ServeListKeeps ==
  ASSUME WSInv, NEW r \in inbox, ServeList(r) PROVE WSInv'
<1> DEFINE J == {r.task} \cap Tasks
<1>2. /\ r.op = "list" /\ Answered(r, NoThread, NoTurn, has) /\ UNCHANGED <<wire, server, client>>
      /\ has \in SUBSET (Threads \cup Items)
      /\ UNCHANGED <<has, archived, turn, items, heard, nextTurn, accepted, ready>>
      /\ Known' = Known
  BY ServerHas DEF ServeList, Known, client, server
<1>3. /\ task' \in [Tasks -> TaskRec] /\ inbox' \subseteq inbox
      /\ \A q \in inbox' : q.task \notin J
      /\ \A x \in Tasks \ J : task'[x] = task[x]
      /\ \A x \in J : /\ task[x].at = "sent" /\ task[x].op = r.op /\ task[x].thread = r.thread
                      /\ task[x].text = r.text /\ ready
                      /\ task'[x].op = r.op /\ task'[x].text = r.text /\ task'[x].at = "answered"
                      /\ task'[x].thread = NoThread /\ task'[x].got = NoTurn /\ task'[x].with = has
  BY <1>2, ServerHas, Answering
<1>4. \A x \in J : TaskOK(task[x])'
  <2> SUFFICES ASSUME NEW x \in J PROVE TaskOK(task[x])'
    OBVIOUS
  <2>1. TaskOK(task[x]) /\ x \in Tasks
    BY Shown
  <2> QED  BY <1>2, <1>3, <2>1, ServerHas DEF TaskOK, Creates
<1>5. ServerTypes'
  BY <1>2, <1>3, ServerHas DEF ServerTypes
<1>6. ServerStep(J, <<>>)
  BY <1>2, <1>3, <1>4, <1>5, ServerHas DEF ServerStep
<1>7. /\ J \in SUBSET Tasks /\ \A x \in J : task'[x].op \notin Creates \cup {"turn", "resume"}
      /\ \A u \in Threads \ Known' : turn'[u] = NoTurn
  BY <1>2, <1>3, ServerHas DEF Creates
<1> HIDE DEF J
<1>8. TurnsInv'
  BY <1>2, <1>6, <1>7, ServerHas, ServerTurns
<1> QED  BY <1>2, <1>6, <1>7, <1>8, ServerHas, ServerSteps

(* thread/start                                                            *)
LEMMA ServeCreateKeeps ==
  ASSUME WSInv, NEW r \in inbox, ServeCreate(r) PROVE WSInv'
<1> DEFINE J == {r.task} \cap Tasks
<1>1. PICK n \in Threads \ (has \cup archived) :
        /\ has' = has \cup {n} /\ heard' = heard \cup {n}
        /\ Tell(n, <<Note("thread/started", n, NoTurn, <<>>)>>)
        /\ Answered(r, n, NoTurn, {})
  BY DEF ServeCreate
<1>2. PICK m : m = Note("thread/started", n, NoTurn, <<>>)
  OBVIOUS
<1>3. m \in Notes /\ m.kind = "thread/started" /\ m.thread = n /\ m.turn = NoTurn
  BY <1>2, ServerHas DEF Note, Notes
<1>4. /\ r.op \in Creates /\ wire' = wire \o <<m>>
      /\ UNCHANGED <<archived, turn, items, nextTurn, accepted, client>>
      /\ Known' = Known \cup {n} /\ n \notin Known /\ ready' = ready /\ {} \in SUBSET (Threads \cup Items)
      /\ turn[n] = NoTurn /\ n \in Keys
  BY <1>1, <1>2, ServerHas DEF ServeCreate, Creates, Tell, Known, client
<1>5. /\ task' \in [Tasks -> TaskRec] /\ inbox' \subseteq inbox
      /\ \A q \in inbox' : q.task \notin J
      /\ \A x \in Tasks \ J : task'[x] = task[x]
      /\ \A x \in J : /\ task[x].at = "sent" /\ task[x].op = r.op /\ task[x].thread = r.thread
                      /\ task[x].text = r.text /\ ready
                      /\ task'[x].op = r.op /\ task'[x].text = r.text /\ task'[x].at = "answered"
                      /\ task'[x].thread = n /\ task'[x].got = NoTurn /\ task'[x].with = {}
  BY <1>1, <1>4, ServerHas, Answering
<1>6. \A x \in J : TaskOK(task[x])'
  <2> SUFFICES ASSUME NEW x \in J PROVE TaskOK(task[x])'
    OBVIOUS
  <2>1. TaskOK(task[x]) /\ x \in Tasks
    BY Shown
  <2> QED  BY <1>4, <1>5, <2>1, ServerHas DEF TaskOK, Creates
<1>7. /\ <<m>> \in Seq(Notes) /\ DOMAIN <<m>> = {1} /\ <<m>>[1] = m /\ wire' \in Seq(Notes)
  BY <1>3, <1>4, ServerHas, NotesAre, Wired
<1>8. PICK notes : notes = <<m>>
  OBVIOUS
<1>9. ServerTypes'
  BY <1>1, <1>4, <1>5, <1>7, ServerHas DEF ServerTypes
<1>10. ServerStep(J, notes)
  <2>1. has' \cap archived' = {} /\ heard' \subseteq has' /\ Known \subseteq Known' /\ accepted \subseteq accepted'
    BY <1>1, <1>4, ServerHas
  <2>2. \A x \in J : /\ task[x].at = "sent" /\ task'[x].op = task[x].op /\ task'[x].text = task[x].text
                     /\ task[x].op # "turn" /\ task'[x].got \in Turns \cup {NoTurn}
    BY <1>4, <1>5 DEF Creates
  <2>3. /\ UNCHANGED client /\ task' \in [Tasks -> TaskRec] /\ inbox' \subseteq inbox
        /\ \A q \in inbox' : q.task \notin J
        /\ \A x \in Tasks \ J : task'[x] = task[x]
        /\ notes \in Seq(Notes) /\ wire' = wire \o notes
    BY <1>4, <1>5, <1>7, <1>8
  <2> HIDE DEF J
  <2> QED  BY <1>6, <1>9, <2>1, <2>2, <2>3 DEF ServerStep
<1>11. /\ J \in SUBSET Tasks /\ \A x \in J : task'[x].op \notin {"turn", "resume"}
       /\ \A u \in Threads \ Known' : turn'[u] = NoTurn
       /\ \A x \in J : task'[x].thread \in Known' \ Known /\ turn'[task'[x].thread] = NoTurn
       /\ \A j \in DOMAIN notes : /\ notes[j].kind = "thread/started" /\ notes[j].thread \in Known'
                                  /\ notes[j].turn = NoTurn
       /\ UNCHANGED <<turn, items>> /\ heard \subseteq heard'
  BY <1>1, <1>3, <1>4, <1>5, <1>7, <1>8, ServerHas DEF Creates
<1> HIDE DEF J
<1>12. TurnsInv'
  BY <1>10, <1>11, ServerHas, ServerTurns
<1> QED  BY <1>10, <1>11, <1>12, ServerHas, ServerSteps

(* turn/start                                                              *)
LEMMA ServeTurnKeeps ==
  ASSUME WSInv, NEW r \in inbox, ServeTurn(r) PROVE WSInv'
<1> DEFINE J == {r.task} \cap Tasks
<1>1. PICK t, n, text : t = r.thread /\ n = nextTurn /\ text = r.text
  OBVIOUS
<1>2. /\ r.op = "turn" /\ t \in has /\ turn[t] = NoTurn /\ n \in Turns /\ nextTurn' = n + 1
      /\ heard' = heard \cup {t} /\ turn' = [turn EXCEPT ![t] = n]
      /\ items' = [items EXCEPT ![t] = items[t] \cup {Prompt(text)}]
      /\ accepted' = accepted \cup ToSet(text)
      /\ Tell(t, <<Note("turn/started", t, n, <<>>), Note("item/started", t, n, text)>>)
      /\ Answered(r, t, n, {}) /\ UNCHANGED <<has, archived, client>>
  BY <1>1 DEF ServeTurn
<1>3. /\ t \in Threads /\ t \in Keys /\ n \in Nat \ {0} /\ n # NoTurn /\ text \in Texts /\ t \in Known
      /\ Known' = Known /\ ready' = ready /\ {} \in SUBSET (Threads \cup Items)
      /\ Prompt(text) \in Items /\ ToSet(text) \subseteq Nat /\ seen' = seen
  <2>1. r \in Requests /\ t \in Threads
    BY <1>2, ServerHas
  <2>2. text \in Texts
    BY <1>1, <2>1 DEF Requests
  <2> QED  BY <1>1, <1>2, <2>1, <2>2, ServerHas, TextSets DEF Known, client, Prompt, Items, Turns, NoTurn
<1>4. PICK l, m : l = Note("turn/started", t, n, <<>>) /\ m = Note("item/started", t, n, text)
  OBVIOUS
<1>5. /\ l \in Notes /\ l.kind = "turn/started" /\ l.thread = t /\ l.turn = n
      /\ m \in Notes /\ m.kind = "item/started" /\ m.thread = t /\ m.turn = n /\ m.text = text
  BY <1>3, <1>4, ServerHas DEF Note, Notes
<1>6. wire' = wire \o <<l, m>>
  BY <1>2, <1>4 DEF Tell
<1>7. /\ task' \in [Tasks -> TaskRec] /\ inbox' \subseteq inbox
      /\ \A q \in inbox' : q.task \notin J
      /\ \A x \in Tasks \ J : task'[x] = task[x]
      /\ \A x \in J : /\ task[x].at = "sent" /\ task[x].op = r.op /\ task[x].thread = r.thread
                      /\ task[x].text = r.text /\ ready
                      /\ task'[x].op = r.op /\ task'[x].text = r.text /\ task'[x].at = "answered"
                      /\ task'[x].thread = t /\ task'[x].got = n /\ task'[x].with = {}
  BY <1>2, <1>3, Answering
<1>8. \A x \in J : TaskOK(task[x])'
  <2> SUFFICES ASSUME NEW x \in J PROVE TaskOK(task[x])'
    OBVIOUS
  <2>1. TaskOK(task[x]) /\ x \in Tasks /\ task'[x].text = text
    BY <1>1, <1>7, Shown
  <2> QED  BY <1>1, <1>2, <1>3, <1>7, <2>1 DEF TaskOK, Creates
<1>9. /\ <<l, m>> \in Seq(Notes) /\ DOMAIN <<l, m>> = {1, 2} /\ <<l, m>>[1] = l /\ <<l, m>>[2] = m
      /\ wire' \in Seq(Notes)
  BY <1>5, <1>6, ServerHas, NotesAre, Wired
<1>10. PICK notes : notes = <<l, m>>
  OBVIOUS
<1>11. \A j \in DOMAIN notes : notes[j] = l \/ notes[j] = m
  BY <1>9, <1>10
<1>12. /\ turn' \in [Threads -> Nat] /\ turn'[t] = n /\ \A u \in Threads \ {t} : turn'[u] = turn[u]
       /\ items' \in [Threads -> SUBSET Items] /\ items'[t] = items[t] \cup {Prompt(text)}
       /\ \A u \in Threads \ {t} : items'[u] = items[u]
  BY <1>2, <1>3, ServerHas
<1>13. ServerTypes'
  BY <1>2, <1>3, <1>7, <1>9, <1>12, ServerHas DEF ServerTypes
<1>14. ServerStep(J, notes)
  <2>1. has' \cap archived' = {} /\ heard' \subseteq has' /\ Known \subseteq Known' /\ accepted \subseteq accepted'
    BY <1>2, <1>3, ServerHas
  <2>2. \A x \in J : /\ task[x].at = "sent" /\ task'[x].op = task[x].op /\ task'[x].text = task[x].text
                     /\ task'[x].thread = task[x].thread /\ task'[x].got \in Turns \cup {NoTurn}
    BY <1>1, <1>2, <1>7
  <2>3. /\ UNCHANGED client /\ task' \in [Tasks -> TaskRec] /\ inbox' \subseteq inbox
        /\ \A q \in inbox' : q.task \notin J
        /\ \A x \in Tasks \ J : task'[x] = task[x]
        /\ notes \in Seq(Notes) /\ wire' = wire \o notes
    BY <1>2, <1>6, <1>7, <1>9, <1>10
  <2> HIDE DEF J
  <2> QED  BY <1>8, <1>13, <2>1, <2>2, <2>3 DEF ServerStep
<1>15. J \in SUBSET Tasks /\ \A x \in J : /\ task'[x].op = "turn" /\ task'[x].op \notin Creates
                                          /\ task'[x].thread = t /\ task'[x].got = n
  BY <1>2, <1>7 DEF Creates
<1>16. \A x \in Tasks : task'[x].op \in Creates /\ task'[x].at = "answered" => task'[x].thread # t
  <2> SUFFICES ASSUME NEW x \in Tasks, task'[x].op \in Creates, task'[x].at = "answered"
               PROVE  task'[x].thread # t
    OBVIOUS
  <2>1. task'[x] = task[x]
    BY <1>7, <1>15
  <2> QED  BY <1>1, <1>2, <2>1 DEF WSInv, NewThreadInv
<1> HIDE DEF J
<1>17. TurnsInv'
  <2>1. \A u \in Threads : turn'[u] \in Turns \cup {NoTurn}
    BY <1>2, <1>12, ServerHas
  <2>2. \A u \in Threads : turn[u] # NoTurn /\ u \in heard => turn'[u] = turn[u] /\ u \in heard'
    BY <1>2, <1>12
  <2>3. \A j \in DOMAIN notes : notes[j].turn \in Turns \cup {NoTurn}
    BY <1>2, <1>5, <1>11
  <2>4. \A j \in DOMAIN notes : /\ notes[j].turn # NoTurn /\ turn'[notes[j].thread] = notes[j].turn
                                /\ notes[j].thread \in heard'
    BY <1>2, <1>3, <1>5, <1>11, <1>12
  <2>5. \A x \in J : turn'[task'[x].thread] = task'[x].got /\ task'[x].thread \in heard'
    BY <1>2, <1>12, <1>15
  <2> QED  BY <1>14, <1>15, <2>1, <2>2, <2>3, <2>4, <2>5, ServerTurns
<1>18. \A u \in Threads \ Known' : turn'[u] = NoTurn
  BY <1>3, <1>12, ServerHas
<1>19. \A j \in DOMAIN notes : notes[j].thread = t /\ notes[j].thread \in Known'
  BY <1>3, <1>5, <1>11
<1>20. \A u \in Known : turn[u] = NoTurn => turn'[u] = NoTurn \/ \E q \in inbox : q.op = "turn" /\ q.thread = u
  BY <1>1, <1>2, <1>3, <1>12, ServerHas
<1>21. /\ \A u \in Threads : items[u] \subseteq items'[u]
       /\ \A u \in Threads : \A p \in items'[u] :
            p.kind = "prompt" => p \in items[u] \/ ToSet(p.text) \subseteq accepted'
  <2>1. Prompt(text).text = text
    BY DEF Prompt
  <2> QED  BY <1>2, <1>3, <1>12, <2>1
<1>22. \A j \in DOMAIN notes :
         /\ notes[j].kind = "item/started" => Prompt(notes[j].text) \in items'[notes[j].thread]
         /\ notes[j].kind = "turn/completed" => Answer(notes[j].turn) \in items'[notes[j].thread]
  <2>1. Prompt(m.text) \in items'[t] /\ m.thread = t
    BY <1>5, <1>12
  <2> QED  BY <1>5, <1>11, <2>1
<1>23. \A x \in J : task'[x].op # "resume" /\ task'[x].op \notin Creates
  BY <1>15
<1> QED  BY <1>14, <1>15, <1>16, <1>17, <1>18, <1>19, <1>20, <1>21, <1>22, <1>23, ServerSteps

(* A turn that ends: its notice is sent to whoever hears of the thread.    *)
LEMMA Ending ==
  ASSUME WSInv, NEW t \in Threads, NEW n, End(t, n)
  PROVE  /\ t \in Known /\ turn[t] = n /\ n # NoTurn /\ n \in Nat /\ n \in Turns
         /\ turn' \in [Threads -> Nat] /\ turn'[t] = NoTurn
         /\ \A u \in Threads \ {t} : turn'[u] = turn[u] /\ items'[u] = items[u]
         /\ items' \in [Threads -> SUBSET Items] /\ items'[t] = items[t] \cup {Answer(n)}
         /\ Answer(n) \in Items /\ Answer(n).kind # "prompt"
         /\ \E notes \in Seq(Notes) :
              /\ wire' = wire \o notes
              /\ \A j \in DOMAIN notes : notes[j] = Note("turn/completed", t, n, <<>>)
              /\ t \in heard => 1 \in DOMAIN notes
<1>1. /\ turn[t] = n /\ n # NoTurn /\ turn' = [turn EXCEPT ![t] = NoTurn]
      /\ items' = [items EXCEPT ![t] = items[t] \cup {Answer(n)}]
      /\ wire' = IF t \in heard THEN Append(wire, Note("turn/completed", t, n, <<>>)) ELSE wire
  BY DEF End
<1>2. t \in Known /\ n \in Nat /\ n \in Turns
  BY <1>1, ServerHas
<1>3. Answer(n) \in Items /\ Answer(n).kind # "prompt"
  BY <1>2 DEF Answer, Items
<1>4. \E notes \in Seq(Notes) :
        /\ wire' = wire \o notes
        /\ \A j \in DOMAIN notes : notes[j] = Note("turn/completed", t, n, <<>>)
        /\ t \in heard => 1 \in DOMAIN notes
  <2>1. PICK m : m = Note("turn/completed", t, n, <<>>)
    OBVIOUS
  <2>2. m \in Notes
    BY <1>2, <2>1, ServerHas DEF Note, Notes
  <2>3. CASE t \in heard
    <3>1. wire' = wire \o <<m>> /\ <<m>> \in Seq(Notes) /\ DOMAIN <<m>> = {1} /\ <<m>>[1] = m
      BY <1>1, <2>1, <2>2, <2>3, ServerHas, NotesAre
    <3> QED  BY <2>1, <3>1
  <2>4. CASE t \notin heard
    BY <1>1, <2>4, ServerHas
  <2> QED  BY <2>3, <2>4
<1>5. /\ turn' \in [Threads -> Nat] /\ turn'[t] = NoTurn
      /\ \A u \in Threads \ {t} : turn'[u] = turn[u] /\ items'[u] = items[u]
      /\ items' \in [Threads -> SUBSET Items] /\ items'[t] = items[t] \cup {Answer(n)}
  BY <1>1, <1>3, ServerHas
<1> QED  BY <1>1, <1>2, <1>3, <1>4, <1>5

(* A step that ends a turn keeps the invariant.                            *)
LEMMA EndsKeep ==
  ASSUME WSInv, NEW J \in SUBSET Tasks, NEW notes, ServerStep(J, notes),
         NEW t \in Threads, NEW n, End(t, n), Known' = Known, heard \ {t} \subseteq heard',
         \A j \in DOMAIN notes : notes[j] = Note("turn/completed", t, n, <<>>),
         t \in heard => 1 \in DOMAIN notes,
         \A x \in J : task'[x].op \notin Creates \cup {"turn", "resume"}
  PROVE  WSInv'
<1>1. /\ t \in Known /\ turn[t] = n /\ n # NoTurn /\ n \in Turns
      /\ turn' \in [Threads -> Nat] /\ turn'[t] = NoTurn
      /\ \A u \in Threads \ {t} : turn'[u] = turn[u] /\ items'[u] = items[u]
      /\ items'[t] = items[t] \cup {Answer(n)} /\ Answer(n).kind # "prompt"
  BY Ending
<1>2. \A j \in DOMAIN notes : /\ notes[j].kind = "turn/completed" /\ notes[j].thread = t
                              /\ notes[j].turn = n
  BY DEF Note
<1>3. \A x \in Tasks : task'[x].op \in Creates /\ task'[x].at = "answered" => task'[x].thread # t
  <2> SUFFICES ASSUME NEW x \in Tasks, task'[x].op \in Creates, task'[x].at = "answered"
               PROVE  task'[x].thread # t
    OBVIOUS
  <2>1. task'[x] = task[x]
    BY DEF ServerStep
  <2> QED  BY <1>1, <2>1 DEF WSInv, NewThreadInv
<1>4. TurnsInv'
  <2>1. \A u \in Threads : turn'[u] \in Turns \cup {NoTurn}
    BY <1>1, ServerHas
  <2>2. \A u \in Threads : turn[u] # NoTurn /\ u \in heard =>
          \/ turn'[u] = turn[u] /\ u \in heard'
          \/ \E j \in DOMAIN notes : notes[j] = Note("turn/completed", u, turn[u], <<>>)
    BY <1>1
  <2>3. \A j \in DOMAIN notes : notes[j].turn \in Turns \cup {NoTurn}
    BY <1>1, <1>2
  <2>4. \A j \in DOMAIN notes : notes[j].kind = "turn/started" =>
          /\ notes[j].turn # NoTurn /\ turn'[notes[j].thread] = notes[j].turn
          /\ notes[j].thread \in heard'
    BY <1>2
  <2>5. \A x \in J : task'[x].op \in {"turn", "resume"} /\ task'[x].at = "answered"
                      /\ task'[x].got # NoTurn =>
          turn'[task'[x].thread] = task'[x].got /\ task'[x].thread \in heard'
    OBVIOUS
  <2> QED  BY <2>1, <2>2, <2>3, <2>4, <2>5, ServerTurns
<1>5. \A u \in Threads \ Known' : turn'[u] = NoTurn
  BY <1>1, ServerHas
<1>6. \A j \in DOMAIN notes : notes[j].thread \in Known'
  BY <1>1, <1>2
<1>7. \A u \in Known : turn[u] = NoTurn => turn'[u] = NoTurn
  BY <1>1, ServerHas
<1>8. /\ \A u \in Threads : items[u] \subseteq items'[u]
      /\ \A u \in Threads : \A p \in items'[u] : p.kind = "prompt" => p \in items[u]
  BY <1>1
<1>9. \A j \in DOMAIN notes :
        /\ notes[j].kind # "item/started"
        /\ Answer(notes[j].turn) \in items'[notes[j].thread]
  BY <1>1, <1>2
<1>10. \A x \in Tasks : task'[x].op \in Creates /\ task'[x].at = "answered" =>
         \A j \in DOMAIN notes : notes[j].thread # task'[x].thread
  BY <1>2, <1>3
<1> QED  BY <1>4, <1>5, <1>6, <1>7, <1>8, <1>9, <1>10, ServerSteps

(* The server ends a turn by itself.                                       *)
LEMMA EndTurnKeeps ==
  ASSUME WSInv, NEW t \in Threads, EndTurn(t) PROVE WSInv'
<1>1. PICK n : n = turn[t]
  OBVIOUS
<1>2. /\ End(t, n) /\ UNCHANGED <<inbox, task, has, archived, heard, nextTurn, accepted, client>>
      /\ Known' = Known
  BY <1>1 DEF EndTurn, Known
<1>3. PICK notes \in Seq(Notes) :
        /\ wire' = wire \o notes
        /\ \A j \in DOMAIN notes : notes[j] = Note("turn/completed", t, n, <<>>)
        /\ t \in heard => 1 \in DOMAIN notes
  BY <1>2, Ending
<1>4. turn' \in [Threads -> Nat] /\ items' \in [Threads -> SUBSET Items] /\ wire' \in Seq(Notes)
  BY <1>2, <1>3, Ending, ServerHas, Wired
<1>5. ServerTypes'
  BY <1>2, <1>4, ServerHas DEF ServerTypes
<1>6. ServerStep({}, notes)
  BY <1>2, <1>3, <1>5, Shown, ServerHas DEF ServerStep
<1> QED  BY <1>2, <1>3, <1>6, EndsKeep

(* thread/archive                                                          *)
LEMMA ServeArchiveKeeps ==
  ASSUME WSInv, NEW r \in inbox, ServeArchive(r) PROVE WSInv'
<1> DEFINE J == {r.task} \cap Tasks
<1>1. PICK t : t = r.thread
  OBVIOUS
<1>2. /\ r.op = "archive" /\ t \in has /\ has' = has \ {t} /\ archived' = archived \cup {t}
      /\ heard' = heard \ {t} /\ Answered(r, t, NoTurn, {})
      /\ UNCHANGED <<nextTurn, accepted, client>>
      /\ t \in Threads /\ t \in Keys /\ t \in Known /\ Known' = Known /\ ready' = ready
      /\ {} \in SUBSET (Threads \cup Items)
  BY <1>1, ServerHas DEF ServeArchive, Known, client
<1>3. /\ task' \in [Tasks -> TaskRec] /\ inbox' \subseteq inbox
      /\ \A q \in inbox' : q.task \notin J
      /\ \A x \in Tasks \ J : task'[x] = task[x]
      /\ \A x \in J : /\ task[x].at = "sent" /\ task[x].op = r.op /\ task[x].thread = r.thread
                      /\ task[x].text = r.text /\ ready
                      /\ task'[x].op = r.op /\ task'[x].text = r.text /\ task'[x].at = "answered"
                      /\ task'[x].thread = t /\ task'[x].got = NoTurn /\ task'[x].with = {}
  BY <1>2, ServerHas, Answering
<1>4. \A x \in J : TaskOK(task[x])'
  <2> SUFFICES ASSUME NEW x \in J PROVE TaskOK(task[x])'
    OBVIOUS
  <2>1. TaskOK(task[x]) /\ x \in Tasks
    BY Shown
  <2> QED  BY <1>2, <1>3, <2>1 DEF TaskOK, Creates
<1>5. /\ J \in SUBSET Tasks /\ \A x \in J : task'[x].op \notin Creates \cup {"turn", "resume"}
  BY <1>2, <1>3 DEF Creates
<1>6. ASSUME NEW notes \in Seq(Notes), wire' = wire \o notes, turn' \in [Threads -> Nat],
             items' \in [Threads -> SUBSET Items]
      PROVE  ServerStep(J, notes)
  <2>1. has' \cap archived' = {} /\ heard' \subseteq has' /\ Known \subseteq Known' /\ accepted \subseteq accepted'
    BY <1>2, ServerHas
  <2>2. \A x \in J : /\ task[x].at = "sent" /\ task'[x].op = task[x].op /\ task'[x].text = task[x].text
                     /\ task[x].op # "turn" /\ task'[x].got \in Turns \cup {NoTurn}
    BY <1>2, <1>3
  <2>3. wire' \in Seq(Notes)
    BY <1>6, ServerHas, Wired
  <2>4. ServerTypes'
    BY <1>2, <1>3, <1>6, <2>3, ServerHas DEF ServerTypes
  <2>5. /\ UNCHANGED client /\ task' \in [Tasks -> TaskRec] /\ inbox' \subseteq inbox
        /\ \A q \in inbox' : q.task \notin J
        /\ \A x \in Tasks \ J : task'[x] = task[x]
    BY <1>2, <1>3
  <2> HIDE DEF J
  <2> QED  BY <1>4, <1>6, <2>1, <2>2, <2>4, <2>5 DEF ServerStep
<1> HIDE DEF J
<1>7. CASE turn[t] # NoTurn
  <2>1. PICK n : n = turn[t]
    OBVIOUS
  <2>2. End(t, n)
    BY <1>1, <1>7, <2>1 DEF ServeArchive
  <2>3. PICK notes \in Seq(Notes) :
          /\ wire' = wire \o notes
          /\ \A j \in DOMAIN notes : notes[j] = Note("turn/completed", t, n, <<>>)
          /\ t \in heard => 1 \in DOMAIN notes
    BY <1>2, <2>2, Ending
  <2>4. turn' \in [Threads -> Nat] /\ items' \in [Threads -> SUBSET Items]
    BY <1>2, <2>2, Ending
  <2>5. ServerStep(J, notes)
    BY <1>6, <2>3, <2>4
  <2> QED  BY <1>2, <1>5, <2>2, <2>3, <2>5, EndsKeep
<1>8. CASE turn[t] = NoTurn
  <2>1. UNCHANGED <<turn, items, wire>>
    BY <1>1, <1>8 DEF ServeArchive
  <2>2. ServerStep(J, <<>>)
    BY <1>6, <2>1, ServerHas
  <2>3. /\ \A u \in Threads : turn[u] # NoTurn /\ u \in heard => turn'[u] = turn[u] /\ u \in heard'
        /\ \A u \in Threads : turn'[u] \in Turns \cup {NoTurn}
        /\ \A u \in Threads \ Known' : turn'[u] = NoTurn
    BY <1>2, <1>8, <2>1, ServerHas
  <2>4. TurnsInv'
    BY <1>5, <2>2, <2>3, ServerHas, ServerTurns
  <2> QED  BY <1>5, <2>1, <2>2, <2>3, <2>4, ServerHas, ServerSteps
<1> QED  BY <1>7, <1>8

---------------------------------------------------------------------------
(* handleNotification.                                                     *)

(* The first notification leaves the wire.                                 *)
LEMMA Unwired ==
  ASSUME WSInv, wire # <<>>, wire' = Tail(wire)
  PROVE  /\ wire' \in Seq(Notes) /\ Head(wire) \in Notes /\ 1 \in DOMAIN wire /\ wire[1] = Head(wire)
         /\ \A i \in DOMAIN wire' : /\ i \in Nat /\ i >= 1 /\ i + 1 \in DOMAIN wire
                                    /\ wire'[i] = wire[i + 1] /\ wire[i + 1] \in Notes
         /\ \A j \in DOMAIN wire : /\ j \in Nat /\ j >= 1
                                   /\ j # 1 => j - 1 \in DOMAIN wire' /\ wire'[j - 1] = wire[j]
<1>1. wire \in Seq(Notes) /\ Len(wire) \in Nat /\ Len(wire) # 0 /\ DOMAIN wire = 1 .. Len(wire)
  BY DEF WSInv, ServerTypes
<1>2. /\ wire' \in Seq(Notes) /\ Len(wire') = Len(wire) - 1 /\ Head(wire) = wire[1]
      /\ DOMAIN wire' = 1 .. Len(wire')
      /\ \A i \in 1 .. Len(wire') : wire'[i] = wire[i + 1]
  BY <1>1
<1>3. \A i \in DOMAIN wire : wire[i] \in Notes
  BY <1>1
<1>4. ASSUME NEW i \in DOMAIN wire'
      PROVE  /\ i \in Nat /\ i >= 1 /\ i + 1 \in DOMAIN wire
             /\ wire'[i] = wire[i + 1] /\ wire[i + 1] \in Notes
  BY <1>1, <1>2, <1>3
<1>5. ASSUME NEW j \in DOMAIN wire
      PROVE  /\ j \in Nat /\ j >= 1
             /\ j # 1 => j - 1 \in DOMAIN wire' /\ wire'[j - 1] = wire[j]
  <2>1. j \in Nat /\ j >= 1 /\ j <= Len(wire)
    BY <1>1
  <2>2. ASSUME j # 1 PROVE j - 1 \in DOMAIN wire' /\ wire'[j - 1] = wire[j]
    <3>1. j - 1 \in 1 .. Len(wire') /\ (j - 1) + 1 = j
      BY <1>1, <1>2, <2>1, <2>2
    <3> QED  BY <1>2, <3>1
  <2> QED  BY <2>1, <2>2
<1> QED  BY <1>1, <1>2, <1>3, <1>4, <1>5

(* A notification keeps the invariant if what it shows is true, and the    *)
(* tasks that waited for an older snapshot see it.                         *)
LEMMA NotedSteps ==
  ASSUME WSInv, wire # <<>>, wire' = Tail(wire), NEW m, m = Head(wire),
         UNCHANGED <<ready, selected, edit, creating, inbox, server>>,
         task' \in [Tasks -> TaskRec], \A x \in Tasks : Steady(task[x], task'[x]),
         threads' \subseteq Known, starting' \subseteq Threads, active' \in [Threads -> Nat],
         \A t \in Threads : active'[t] # NoTurn =>
            /\ active'[t] \in Turns /\ EndComes(t, active'[t], 1)
            /\ m # Note("turn/completed", t, active'[t], <<>>),
         \A x \in Tasks : m.kind = "turn/completed" /\ task[x].op \in {"turn", "resume"}
                          /\ task[x].thread = m.thread => ~task'[x].tn,
         NEW new, new \subseteq items[m.thread],
         new # {} => /\ m.kind # "thread/started"
                     /\ \A x \in Tasks : task[x].op = "resume" /\ task[x].thread = m.thread => ~task'[x].tl,
         timeline' = [timeline EXCEPT ![m.thread] = timeline[m.thread] \cup new],
         seen' = [seen EXCEPT ![m.thread] = seen[m.thread] \cup new]
  PROVE  WSInv'
<1>1. /\ wire' \in Seq(Notes) /\ m \in Notes /\ 1 \in DOMAIN wire /\ wire[1] = m
      /\ \A i \in DOMAIN wire' : /\ i \in Nat /\ i >= 1 /\ i + 1 \in DOMAIN wire
                                 /\ wire'[i] = wire[i + 1] /\ wire[i + 1] \in Notes
      /\ \A j \in DOMAIN wire : /\ j \in Nat /\ j >= 1
                                /\ j # 1 => j - 1 \in DOMAIN wire' /\ wire'[j - 1] = wire[j]
  BY Unwired
<1>2. /\ UNCHANGED <<selected, edit>> /\ UNCHANGED <<drafts, composer, typed>>
      /\ UNCHANGED <<has, archived, turn, items, heard, nextTurn, accepted>> /\ Known' = Known
  BY DEF edit, server, Known
<1>3. m.thread \in Known /\ m.thread \in Threads
  BY <1>1, Shown DEF WSInv, KnownInv
<1>4. /\ timeline' \in [Threads -> SUBSET Items] /\ seen' \in [Threads -> SUBSET Items]
      /\ timeline'[m.thread] = timeline[m.thread] \cup new
      /\ seen'[m.thread] = seen[m.thread] \cup new
      /\ \A t \in Threads \ {m.thread} : timeline'[t] = timeline[t] /\ seen'[t] = seen[t]
  <2>1. new \subseteq Items
    BY <1>3, ServerHas
  <2> QED  BY <1>3, <2>1, Shown
<1>5. ClientTypes' /\ ServerTypes'
  <2>1. ClientTypes'
    BY <1>2, <1>4, Shown DEF WSInv, ClientTypes
  <2>2. ServerTypes'
    BY <1>1, <1>2 DEF WSInv, ServerTypes
  <2> QED  BY <2>1, <2>2
<1>6. TextInv'
  BY <1>2, TextStays DEF Steady
<1>7. TasksInv' /\ CreateInv' /\ InboxInv'
  <2>1. TasksInv'
    <3> SUFFICES ASSUME NEW x \in Tasks PROVE TaskOK(task[x])'
      BY DEF TasksInv
    <3>1. TaskOK(task[x]) /\ Steady(task[x], task'[x])
      BY Shown
    <3> QED  BY <1>2, <3>1 DEF TaskOK, Steady
  <2>2. CreateInv'
    BY DEF WSInv, CreateInv, Steady
  <2>3. InboxInv'
    <3>1. InboxInv /\ inbox' = inbox /\ \A x \in Tasks : Steady(task[x], task'[x])
      BY DEF WSInv
    <3> QED  BY <1>2, <3>1 DEF InboxInv, Steady
  <2> QED  BY <2>1, <2>2, <2>3
<1>8. KnownInv'
  <2>1. \A i \in DOMAIN wire' : wire'[i].thread \in Known
    BY <1>1 DEF WSInv, KnownInv
  <2> QED  BY <1>2, <1>3, <1>4, <2>1 DEF WSInv, KnownInv
<1>9. NewThreadInv'
  <2> SUFFICES ASSUME NEW x \in Tasks, task'[x].op \in Creates, task'[x].at = "answered"
               PROVE  LET n == task'[x].thread IN
                      /\ task'[x].sel => n # selected' /\ drafts'[n] = <<>>
                      /\ \A j \in Tasks : task'[j].op = "turn" => task'[j].thread # n
                      /\ \A r \in inbox' : r.op = "turn" => r.thread # n
                      /\ turn'[n] = NoTurn /\ seen'[n] = {}
                      /\ \A i \in DOMAIN wire' : wire'[i].thread = n => wire'[i].kind = "thread/started"
    BY DEF NewThreadInv
  <2>1. PICK n : n = task[x].thread
    OBVIOUS
  <2>2. /\ task[x].op \in Creates /\ task[x].at = "answered" /\ task'[x].thread = n
        /\ (task'[x].sel => task[x].sel)
    BY <2>1 DEF Steady
  <2>3. /\ task[x].sel => n # selected /\ drafts[n] = <<>>
        /\ \A j \in Tasks : task[j].op = "turn" => task[j].thread # n
        /\ \A r \in inbox : r.op = "turn" => r.thread # n
        /\ turn[n] = NoTurn /\ seen[n] = {}
        /\ \A i \in DOMAIN wire : wire[i].thread = n => wire[i].kind = "thread/started"
    BY <2>1, <2>2 DEF WSInv, NewThreadInv
  <2>4. n \in Threads
    BY <2>1, <2>2, Shown DEF TaskOK
  <2>5. seen'[n] = {}
    BY <1>1, <1>4, <2>3, <2>4
  <2>6. \A j \in Tasks : task'[j].op = "turn" => task'[j].thread # n
    BY <2>3 DEF Steady
  <2> QED  BY <1>1, <1>2, <2>2, <2>3, <2>5, <2>6
<1>10. TurnsInv'
  <2>1. ASSUME NEW t, NEW n, EndComes(t, n, 1), m # Note("turn/completed", t, n, <<>>)
        PROVE  EndComes(t, n, 1)'
    <3>1. CASE turn[t] = n /\ t \in heard
      BY <1>2, <3>1 DEF EndComes
    <3>2. CASE \E j \in DOMAIN wire : j >= 1 /\ wire[j] = Note("turn/completed", t, n, <<>>)
      <4>1. PICK j \in DOMAIN wire : wire[j] = Note("turn/completed", t, n, <<>>)
        BY <3>2
      <4>2. j # 1
        BY <1>1, <2>1, <4>1
      <4>3. j - 1 \in DOMAIN wire' /\ wire'[j - 1] = wire[j] /\ j - 1 >= 1
        BY <1>1, <4>1, <4>2
      <4> QED  BY <4>1, <4>3 DEF EndComes, Note
    <3> QED  BY <2>1, <3>1, <3>2 DEF EndComes
  <2>2. ASSUME NEW t \in Threads, active'[t] # NoTurn PROVE EndComes(t, active[t], 1)'
    <3>1. PICK n : n = active'[t]
      OBVIOUS
    <3>2. EndComes(t, n, 1)'
      BY <2>1, <2>2, <3>1
    <3> QED  BY <3>1, <3>2 DEF EndComes
  <2>3. ASSUME NEW x \in Tasks, task'[x].op \in {"turn", "resume"}, task'[x].at = "answered",
               task'[x].tn, task'[x].got # NoTurn
        PROVE  EndComes(task[x].thread, task[x].got, 1)'
    <3>1. PICK t, n : t = task[x].thread /\ n = task[x].got
      OBVIOUS
    <3>2. Steady(task[x], task'[x])
      OBVIOUS
    <3>3. EndComes(t, n, 1) /\ task[x].op \in {"turn", "resume"}
      BY <2>3, <3>1, <3>2 DEF WSInv, TurnsInv, Steady
    <3>4. m # Note("turn/completed", t, n, <<>>)
      BY <2>3, <3>1, <3>3 DEF Note
    <3>5. EndComes(t, n, 1)'
      BY <2>1, <3>3, <3>4
    <3> QED  BY <3>1, <3>2, <3>5 DEF EndComes, Steady
  <2>4. ASSUME NEW i \in DOMAIN wire', wire'[i].kind = "turn/started"
        PROVE  wire'[i].turn # NoTurn /\ EndComes(wire[i].thread, wire[i].turn, i)'
    <3>1. PICK t, n : t = wire'[i].thread /\ n = wire'[i].turn
      OBVIOUS
    <3>2. n # NoTurn /\ EndComes(t, n, i + 1)
      BY <1>1, <2>4, <3>1 DEF WSInv, TurnsInv
    <3>3. EndComes(t, n, i)'
      <4>1. CASE turn[t] = n /\ t \in heard
        BY <1>2, <4>1 DEF EndComes
      <4>2. CASE \E j \in DOMAIN wire : j >= i + 1 /\ wire[j] = Note("turn/completed", t, n, <<>>)
        <5>1. PICK j \in DOMAIN wire : j >= i + 1 /\ wire[j] = Note("turn/completed", t, n, <<>>)
          BY <4>2
        <5>2. j - 1 \in DOMAIN wire' /\ wire'[j - 1] = wire[j] /\ j - 1 >= i
          BY <1>1, <5>1
        <5> QED  BY <5>1, <5>2 DEF EndComes, Note
      <4> QED  BY <3>2, <4>1, <4>2 DEF EndComes
    <3> QED  BY <3>1, <3>2, <3>3 DEF EndComes
  <2>5. /\ \A t \in Threads : active'[t] \in Turns \cup {NoTurn} /\ turn'[t] \in Turns \cup {NoTurn}
        /\ \A i \in DOMAIN wire' : wire'[i].turn \in Turns \cup {NoTurn}
        /\ \A x \in Tasks : task'[x].got \in Turns \cup {NoTurn}
    <3>1. \A t \in Threads : active'[t] \in Turns \cup {NoTurn} /\ turn'[t] \in Turns \cup {NoTurn}
      BY <1>2 DEF WSInv, TurnsInv
    <3>2. \A i \in DOMAIN wire : wire[i].turn \in Turns \cup {NoTurn}
      BY DEF WSInv, TurnsInv
    <3>3. \A i \in DOMAIN wire' : wire'[i].turn \in Turns \cup {NoTurn}
      BY <1>1, <3>2
    <3>4. ASSUME NEW x \in Tasks PROVE task'[x].got \in Turns \cup {NoTurn}
      <4>1. task[x].got \in Turns \cup {NoTurn} /\ Steady(task[x], task'[x])
        BY DEF WSInv, TurnsInv
      <4> QED  BY <4>1 DEF Steady
    <3> QED  BY <3>1, <3>3, <3>4
  <2> QED  BY <2>2, <2>3, <2>4, <2>5 DEF TurnsInv
<1>11. TimelineInv'
  <2>1. ASSUME NEW t \in Threads
        PROVE  /\ seen'[t] \subseteq timeline'[t] /\ seen'[t] \subseteq items'[t]
               /\ \A p \in items'[t] : p.kind = "prompt" => ToSet(p.text) \subseteq accepted'
    BY <1>2, <1>4 DEF WSInv, TimelineInv
  <2>2. ASSUME NEW t \in Threads, NEW p \in timeline'[t], p.kind = "prompt"
        PROVE  \/ ToSet(p.text) \subseteq accepted'
               \/ \E x \in Tasks : /\ task'[x].op = "turn" /\ task'[x].thread = t
                                   /\ task'[x].text = p.text
    <3> SUFFICES ASSUME ~(ToSet(p.text) \subseteq accepted')
                 PROVE  \E x \in Tasks : /\ task'[x].op = "turn" /\ task'[x].thread = t
                                         /\ task'[x].text = p.text
      OBVIOUS
    <3>1. p \in timeline[t]
      BY <1>2, <1>4, <2>1, <2>2
    <3>2. PICK x \in Tasks : task[x].op = "turn" /\ task[x].thread = t /\ task[x].text = p.text
      BY <1>2, <2>2, <3>1 DEF WSInv, TimelineInv
    <3> QED  BY <3>2 DEF Steady
  <2>3. ASSUME NEW i \in DOMAIN wire'
        PROVE  /\ wire'[i].kind = "item/started" => Prompt(wire'[i].text) \in items'[wire'[i].thread]
               /\ wire'[i].kind = "turn/completed" => Answer(wire'[i].turn) \in items'[wire'[i].thread]
    BY <1>1, <1>2 DEF WSInv, TimelineInv
  <2>4. ASSUME NEW x \in Tasks, task'[x].op = "resume", task'[x].at = "answered"
        PROVE  /\ task'[x].with \subseteq items'[task'[x].thread]
               /\ task'[x].tl => seen'[task'[x].thread] \subseteq task'[x].with
    <3>1. /\ task[x].op = "resume" /\ task[x].at = "answered" /\ task'[x].thread = task[x].thread
          /\ task'[x].with = task[x].with /\ (task'[x].tl => task[x].tl)
      BY <2>4 DEF Steady
    <3>2. task[x].thread \in Threads
      BY <3>1, Shown DEF TaskOK
    <3>3. /\ task[x].with \subseteq items[task[x].thread]
          /\ task[x].tl => seen[task[x].thread] \subseteq task[x].with
      BY <3>1 DEF WSInv, TimelineInv
    <3>4. ASSUME task'[x].tl PROVE seen'[task[x].thread] = seen[task[x].thread]
      <4>1. CASE task[x].thread # m.thread
        BY <1>4, <3>2, <4>1
      <4>2. CASE task[x].thread = m.thread
        <5>1. new = {}
          BY <3>1, <3>4, <4>2
        <5> QED  BY <1>4, <4>2, <5>1
      <4> QED  BY <4>1, <4>2
    <3> QED  BY <1>2, <3>1, <3>3, <3>4
  <2> QED  BY <2>1, <2>2, <2>3, <2>4 DEF TimelineInv
<1> QED  BY <1>5, <1>6, <1>7, <1>8, <1>9, <1>10, <1>11 DEF WSInv

(* The four notifications.                                                 *)
LEMMA NotifiedKeeps ==
  ASSUME WSInv, Notified PROVE WSInv'
<1>1. PICK m : m = Head(wire)
  OBVIOUS
<1>2. /\ wire # <<>> /\ wire' = Tail(wire)
      /\ UNCHANGED <<ready, selected, edit, creating, inbox, server>>
  BY DEF Notified
<1>3. m \in Notes /\ 1 \in DOMAIN wire /\ wire[1] = m
  BY <1>1, <1>2, Unwired
<1>4. /\ m.thread \in Known /\ m.thread \in Threads /\ m.turn \in Nat
  BY <1>3, Shown DEF WSInv, KnownInv, Notes
<1>5. /\ task \in [Tasks -> TaskRec] /\ active \in [Threads -> Nat]
      /\ timeline \in [Threads -> SUBSET Items] /\ seen \in [Threads -> SUBSET Items]
      /\ \A x \in Tasks : Steady(task[x], task[x])
      /\ \A t \in Threads : active[t] # NoTurn => active[t] \in Turns /\ EndComes(t, active[t], 1)
  BY Shown DEF Steady, WSInv, TurnsInv
<1>6. /\ timeline = [timeline EXCEPT ![m.thread] = timeline[m.thread] \cup {}]
      /\ seen = [seen EXCEPT ![m.thread] = seen[m.thread] \cup {}]
  BY <1>4, <1>5
<1>7. \A t, n : m.kind # "turn/completed" => m # Note("turn/completed", t, n, <<>>)
  BY DEF Note
<1>8. ASSUME ThreadStarted(m) PROVE WSInv'
  <2>1. /\ m.kind = "thread/started" /\ threads' \subseteq Known
        /\ UNCHANGED <<active, starting, task, timeline, seen>>
    BY <1>4, <1>8, Shown DEF ThreadStarted
  <2>2. PICK new : new = {}
    OBVIOUS
  <2>3. /\ timeline' = [timeline EXCEPT ![m.thread] = timeline[m.thread] \cup new]
        /\ seen' = [seen EXCEPT ![m.thread] = seen[m.thread] \cup new]
        /\ new \subseteq items[m.thread] /\ ~(new # {})
    BY <1>6, <2>1, <2>2
  <2>4. /\ task' \in [Tasks -> TaskRec] /\ \A x \in Tasks : Steady(task[x], task'[x])
        /\ active' \in [Threads -> Nat] /\ starting' \subseteq Threads /\ m.kind # "turn/completed"
        /\ \A t \in Threads : active'[t] # NoTurn =>
              /\ active'[t] \in Turns /\ EndComes(t, active'[t], 1)
              /\ m # Note("turn/completed", t, active'[t], <<>>)
    BY <1>5, <1>7, <2>1, Shown
  <2> QED  BY <1>1, <1>2, <2>1, <2>3, <2>4, NotedSteps
<1>9. ASSUME TurnStarted(m) PROVE WSInv'
  <2>1. /\ m.kind = "turn/started" /\ task' = TurnMoved(task, m.thread)
        /\ active' = [active EXCEPT ![m.thread] = m.turn]
        /\ UNCHANGED <<threads, starting, timeline, seen>>
    BY <1>9 DEF TurnStarted
  <2>2. task' \in [Tasks -> TaskRec] /\ \A x \in Tasks : Steady(task[x], task'[x])
    <3>1. CASE Tasks = {}
      BY <1>5, <2>1, <3>1 DEF TurnMoved
    <3>2. CASE Tasks # {}
      BY <1>5, <2>1, <3>2, Counters
    <3> QED  BY <3>1, <3>2
  <2>3. m.turn \in Turns /\ EndComes(m.thread, m.turn, 1)
    BY <1>3, <2>1 DEF WSInv, TurnsInv
  <2>4. /\ active' \in [Threads -> Nat]
        /\ \A t \in Threads : active'[t] # NoTurn => active'[t] \in Turns /\ EndComes(t, active'[t], 1)
    BY <1>4, <1>5, <2>1, <2>3
  <2>5. PICK new : new = {}
    OBVIOUS
  <2>6. /\ timeline' = [timeline EXCEPT ![m.thread] = timeline[m.thread] \cup new]
        /\ seen' = [seen EXCEPT ![m.thread] = seen[m.thread] \cup new]
        /\ new \subseteq items[m.thread] /\ ~(new # {})
    BY <1>6, <2>1, <2>5
  <2>7. /\ starting' \subseteq Threads /\ threads' \subseteq Known /\ m.kind # "turn/completed"
        /\ \A t \in Threads : active'[t] # NoTurn =>
              /\ active'[t] \in Turns /\ EndComes(t, active'[t], 1)
              /\ m # Note("turn/completed", t, active'[t], <<>>)
    BY <1>7, <2>1, <2>4, Shown
  <2> QED  BY <1>1, <1>2, <2>2, <2>4, <2>6, <2>7, NotedSteps
<1>10. ASSUME ItemStarted(m) PROVE WSInv'
  <2>1. PICK new : new = {Prompt(m.text)}
    OBVIOUS
  <2>2. /\ m.kind = "item/started" /\ task' = TimelineMoved(task, m.thread)
        /\ timeline' = [timeline EXCEPT ![m.thread] = timeline[m.thread] \cup new]
        /\ seen' = [seen EXCEPT ![m.thread] = seen[m.thread] \cup new]
        /\ UNCHANGED <<threads, active, starting>>
    BY <1>10, <2>1 DEF ItemStarted, Upsert
  <2>3. /\ task' \in [Tasks -> TaskRec] /\ \A x \in Tasks : Steady(task[x], task'[x])
        /\ \A x \in Tasks : task[x].op = "resume" /\ task[x].thread = m.thread => ~task'[x].tl
    <3>1. CASE Tasks = {}
      BY <1>5, <2>2, <3>1 DEF TimelineMoved
    <3>2. CASE Tasks # {}
      BY <1>5, <2>2, <3>2, Counters
    <3> QED  BY <3>1, <3>2
  <2>4. new \subseteq items[m.thread]
    BY <1>3, <2>1, <2>2 DEF WSInv, TimelineInv
  <2> QED  BY <1>1, <1>2, <1>5, <1>7, <2>2, <2>3, <2>4, Shown, NotedSteps
<1>11. ASSUME TurnCompleted(m) PROVE WSInv'
  <2>1. PICK new : new = {Answer(m.turn)}
    OBVIOUS
  <2>2. /\ m.kind = "turn/completed" /\ task' = TimelineMoved(TurnMoved(task, m.thread), m.thread)
        /\ active' = [active EXCEPT ![m.thread] = IF active[m.thread] = m.turn THEN NoTurn ELSE active[m.thread]]
        /\ starting' = starting \ {m.thread}
        /\ timeline' = [timeline EXCEPT ![m.thread] = timeline[m.thread] \cup new]
        /\ seen' = [seen EXCEPT ![m.thread] = seen[m.thread] \cup new]
        /\ UNCHANGED <<threads>>
    BY <1>11, <2>1 DEF TurnCompleted, Upsert
  <2>3. PICK tasks : tasks = TurnMoved(task, m.thread)
    OBVIOUS
  <2>4. /\ task' \in [Tasks -> TaskRec] /\ \A x \in Tasks : Steady(task[x], task'[x])
        /\ \A x \in Tasks : task[x].op = "resume" /\ task[x].thread = m.thread => ~task'[x].tl
        /\ \A x \in Tasks : task[x].op \in {"turn", "resume"} /\ task[x].thread = m.thread => ~task'[x].tn
    <3>1. CASE Tasks = {}
      BY <1>5, <2>2, <2>3, <3>1 DEF TimelineMoved
    <3>2. CASE Tasks # {}
      <4>1. /\ tasks \in [Tasks -> TaskRec] /\ \A x \in Tasks : Steady(task[x], tasks[x])
            /\ \A x \in Tasks : task[x].op \in {"turn", "resume"} /\ task[x].thread = m.thread => ~tasks[x].tn
        BY <1>5, <2>3, <3>2, Counters
      <4>2. task' = TimelineMoved(tasks, m.thread)
        BY <2>2, <2>3
      <4>3. /\ task' \in [Tasks -> TaskRec] /\ \A x \in Tasks : Steady(tasks[x], task'[x])
            /\ \A x \in Tasks : tasks[x].op = "resume" /\ tasks[x].thread = m.thread => ~task'[x].tl
        BY <3>2, <4>1, <4>2, Counters
      <4> QED  BY <4>1, <4>3 DEF Steady
    <3> QED  BY <3>1, <3>2
  <2>5. new \subseteq items[m.thread]
    BY <1>3, <2>1, <2>2 DEF WSInv, TimelineInv
  <2>6. /\ active' \in [Threads -> Nat] /\ NoTurn \in Nat
        /\ \A t \in Threads : active'[t] # NoTurn => active'[t] = active[t] /\ (t = m.thread => active[t] # m.turn)
    BY <1>4, <1>5, <2>2 DEF NoTurn
  <2>7. \A t \in Threads : active'[t] # NoTurn =>
          /\ active'[t] \in Turns /\ EndComes(t, active'[t], 1)
          /\ m # Note("turn/completed", t, active'[t], <<>>)
    BY <1>5, <2>6 DEF Note
  <2>8. starting' \subseteq Threads /\ threads' \subseteq Known
    BY <2>2, Shown
  <2>9. m.kind # "thread/started"
    BY <2>2
  <2> QED  BY <1>1, <1>2, <2>2, <2>4, <2>5, <2>6, <2>7, <2>8, <2>9, NotedSteps
<1> QED  BY <1>1, <1>8, <1>9, <1>10, <1>11 DEF Notified

---------------------------------------------------------------------------
(* The connection.                                                         *)

(* A step of the connection: tasks fail, or the first one calls; nothing   *)
(* is edited and nothing comes from the server.                            *)
LEMMA ConnectionSteps ==
  ASSUME WSInv, UNCHANGED <<threads, selected, edit, timeline, creating, has, archived, turn, items,
                            nextTurn, accepted, seen>>,
         task' \in [Tasks -> TaskRec], ServerTypes', TasksInv', InboxInv', TurnsInv',
         \A x \in Tasks : /\ task'[x].text = task[x].text
                          /\ \/ task'[x].op = "list" /\ task[x].op = "none" /\ task'[x].at = "sent"
                             \/ /\ task'[x].op = task[x].op /\ task'[x].thread = task[x].thread
                                /\ (task'[x].at = "answered" => task'[x] = task[x]),
         \A r \in inbox' : r.op = "turn" => \E q \in inbox : q.op = "turn" /\ q.thread = r.thread,
         wire' \in {wire, <<>>}, heard' \in {heard, {}}, ready' \in BOOLEAN,
         starting' \subseteq Threads, active' \in [Threads -> Nat]
  PROVE  WSInv'
<1>1. /\ UNCHANGED <<selected, edit>> /\ UNCHANGED <<drafts, composer, typed>> /\ Known' = Known
      /\ \A i \in DOMAIN wire' : i \in DOMAIN wire /\ wire'[i] = wire[i]
  BY ServerHas DEF edit, Known
<1>2. \A x \in Tasks : /\ task'[x].op \in Creates => task[x].op \in Creates
                       /\ task'[x].op = "turn" => task[x].op = "turn" /\ task'[x].thread = task[x].thread
                       /\ task[x].op = "turn" => task'[x].op = "turn" /\ task'[x].thread = task[x].thread
                       /\ task'[x].at = "answered" => task'[x] = task[x]
  BY DEF Creates
<1>3. TextInv'
  BY <1>1, TextStays
<1>4. ClientTypes'
  BY <1>1 DEF WSInv, ClientTypes
<1>5. CreateInv'
  BY <1>2 DEF WSInv, CreateInv
<1>6. KnownInv'
  <2>1. heard' \subseteq has /\ \A i \in DOMAIN wire' : wire'[i].thread \in Known
    BY <1>1 DEF WSInv, KnownInv
  <2> QED  BY <1>1, <2>1 DEF WSInv, KnownInv
<1>7. NewThreadInv'
  <2> SUFFICES ASSUME NEW x \in Tasks, task'[x].op \in Creates, task'[x].at = "answered"
               PROVE  LET n == task'[x].thread IN
                      /\ task'[x].sel => n # selected' /\ drafts'[n] = <<>>
                      /\ \A j \in Tasks : task'[j].op = "turn" => task'[j].thread # n
                      /\ \A r \in inbox' : r.op = "turn" => r.thread # n
                      /\ turn'[n] = NoTurn /\ seen'[n] = {}
                      /\ \A i \in DOMAIN wire' : wire'[i].thread = n => wire'[i].kind = "thread/started"
    BY DEF NewThreadInv
  <2>1. PICK n : n = task[x].thread
    OBVIOUS
  <2>2. task'[x] = task[x]
    BY <1>2
  <2>3. /\ task[x].sel => n # selected /\ drafts[n] = <<>>
        /\ \A j \in Tasks : task[j].op = "turn" => task[j].thread # n
        /\ \A r \in inbox : r.op = "turn" => r.thread # n
        /\ turn[n] = NoTurn /\ seen[n] = {}
        /\ \A i \in DOMAIN wire : wire[i].thread = n => wire[i].kind = "thread/started"
    BY <2>1, <2>2 DEF WSInv, NewThreadInv
  <2>4. \A j \in Tasks : task'[j].op = "turn" => task'[j].thread # n
    BY <1>2, <2>3
  <2> QED  BY <1>1, <2>1, <2>2, <2>3, <2>4
<1>8. TimelineInv'
  <2>1. ASSUME NEW t \in Threads
        PROVE  /\ seen'[t] \subseteq timeline'[t] /\ seen'[t] \subseteq items'[t]
               /\ \A p \in items'[t] : p.kind = "prompt" => ToSet(p.text) \subseteq accepted'
    BY DEF WSInv, TimelineInv
  <2>2. ASSUME NEW t \in Threads, NEW p \in timeline'[t], p.kind = "prompt"
        PROVE  \/ ToSet(p.text) \subseteq accepted'
               \/ \E x \in Tasks : /\ task'[x].op = "turn" /\ task'[x].thread = t
                                   /\ task'[x].text = p.text
    BY <1>2, <2>2 DEF WSInv, TimelineInv
  <2>3. ASSUME NEW i \in DOMAIN wire'
        PROVE  /\ wire'[i].kind = "item/started" => Prompt(wire'[i].text) \in items'[wire'[i].thread]
               /\ wire'[i].kind = "turn/completed" => Answer(wire'[i].turn) \in items'[wire'[i].thread]
    BY <1>1 DEF WSInv, TimelineInv
  <2>4. ASSUME NEW x \in Tasks, task'[x].op = "resume", task'[x].at = "answered"
        PROVE  /\ task'[x].with \subseteq items'[task'[x].thread]
               /\ task'[x].tl => seen'[task'[x].thread] \subseteq task'[x].with
    BY <1>2, <2>4 DEF WSInv, TimelineInv
  <2> QED  BY <2>1, <2>2, <2>3, <2>4 DEF TimelineInv
<1> QED  BY <1>3, <1>4, <1>5, <1>6, <1>7, <1>8 DEF WSInv

(* The socket fails.                                                       *)
LEMMA LoseConnectionKeeps ==
  ASSUME WSInv, LoseConnection PROVE WSInv'
<1>1. /\ ready' = FALSE /\ active' = [t \in Threads |-> NoTurn] /\ starting' = {}
      /\ task' = [x \in Tasks |-> IF Free(x) THEN None ELSE [task[x] EXCEPT !.at = "failed"]]
      /\ inbox' = {} /\ wire' = <<>> /\ heard' = {}
      /\ UNCHANGED <<threads, selected, edit, timeline, creating, has, archived, turn, items,
                     nextTurn, accepted, seen>>
      /\ Known' = Known
  BY DEF LoseConnection, ClearTurns, Known
<1>2. ASSUME NEW x \in Tasks
      PROVE  /\ task'[x] \in TaskRec /\ task'[x].op = task[x].op /\ task'[x].text = task[x].text
             /\ task'[x].thread = task[x].thread /\ task'[x].got = task[x].got
             /\ task'[x].at \in {"none", "failed"}
  <2>1. task[x] \in TaskRec
    BY Shown
  <2>2. CASE Free(x)
    BY <1>1, <2>2, CallsAre DEF Free
  <2>3. CASE ~Free(x)
    <3>1. task'[x] = [task[x] EXCEPT !.at = "failed"]
      BY <1>1, <2>3
    <3> QED  BY <2>1, <3>1 DEF TaskRec
  <2> QED  BY <2>2, <2>3
<1>3. task' \in [Tasks -> TaskRec]
  <2>1. DOMAIN task' = Tasks /\ task' = [x \in Tasks |-> task'[x]]
    BY <1>1
  <2> QED  BY <1>2, <2>1
<1>4. ServerTypes'
  BY <1>1, ServerHas DEF ServerTypes
<1>5. TasksInv'
  <2> SUFFICES ASSUME NEW x \in Tasks PROVE TaskOK(task[x])'
    BY DEF TasksInv
  <2>1. TaskOK(task[x])
    BY Shown
  <2>2. /\ task'[x].op = task[x].op /\ task'[x].text = task[x].text
        /\ task'[x].thread = task[x].thread /\ task'[x].at \notin {"sent", "answered"}
    BY <1>2
  <2>3. Known' = Known
    BY <1>1
  <2> QED  BY <2>1, <2>2, <2>3 DEF TaskOK
<1>6. InboxInv' /\ \A r \in inbox' : r.op # "turn"
  BY <1>1 DEF InboxInv
<1>7. TurnsInv'
  <2>1. /\ \A t \in Threads : active'[t] = NoTurn /\ turn'[t] \in Turns \cup {NoTurn}
        /\ \A x \in Tasks : task'[x].at # "answered" /\ task'[x].got \in Turns \cup {NoTurn}
        /\ DOMAIN wire' = {}
    <3>1. \A x \in Tasks : task'[x].at # "answered" /\ task'[x].got = task[x].got
      BY <1>2
    <3>2. /\ \A t \in Threads : turn[t] \in Turns \cup {NoTurn}
          /\ \A x \in Tasks : task[x].got \in Turns \cup {NoTurn}
      BY DEF WSInv, TurnsInv
    <3> QED  BY <1>1, <3>1, <3>2
  <2> QED  BY <2>1 DEF TurnsInv
<1>8. active' \in [Threads -> Nat] /\ starting' \subseteq Threads /\ ready' \in BOOLEAN
  BY <1>1 DEF NoTurn
<1>9. \A x \in Tasks : /\ task'[x].text = task[x].text
                       /\ task'[x].op = task[x].op /\ task'[x].thread = task[x].thread
                       /\ task'[x].at # "answered"
  BY <1>2
<1> QED  BY <1>1, <1>3, <1>4, <1>5, <1>6, <1>7, <1>8, <1>9, ConnectionSteps

(* A deadline.                                                             *)
LEMMA TimeOutKeeps ==
  ASSUME WSInv, NEW k \in Tasks, TimeOut(k) PROVE WSInv'
<1>1. /\ task' = [task EXCEPT ![k].at = "failed"]
      /\ inbox' = {IF r.task = k THEN [r EXCEPT !.task = NoThread] ELSE r : r \in inbox}
      /\ UNCHANGED <<ready, threads, selected, edit, timeline, active, starting, creating, wire,
                     has, archived, turn, items, heard, nextTurn, accepted, seen>>
      /\ Known' = Known
  BY DEF TimeOut, server, Known
<1>2. /\ task' \in [Tasks -> TaskRec] /\ \A x \in Tasks \ {k} : task'[x] = task[x]
      /\ task'[k].op = task[k].op /\ task'[k].text = task[k].text /\ task'[k].got = task[k].got
      /\ task'[k].thread = task[k].thread /\ task'[k].at = "failed"
  <2> DEFINE c == [task[k] EXCEPT !.at = "failed"]
  <2>1. task \in [Tasks -> TaskRec] /\ task[k] \in TaskRec
    BY Shown
  <2>2. /\ c \in TaskRec /\ c.op = task[k].op /\ c.text = task[k].text /\ c.at = "failed"
        /\ c.thread = task[k].thread /\ c.got = task[k].got
    BY <2>1 DEF TaskRec
  <2>3. task' = [task EXCEPT ![k] = c]
    BY <1>1
  <2> HIDE DEF c
  <2> QED  BY <2>1, <2>2, <2>3
<1>3. ASSUME NEW r \in inbox'
      PROVE  /\ r \in Requests
             /\ \E q \in inbox : q.op = r.op /\ q.thread = r.thread
             /\ r.task \in Tasks => r \in inbox /\ r.task # k
  <2>1. PICK q \in inbox : r = IF q.task = k THEN [q EXCEPT !.task = NoThread] ELSE q
    BY <1>1
  <2>2. q \in Requests /\ NoThread \notin Tasks
    BY ServerHas, WorkspaceAssumption
  <2>3. CASE q.task = k
    <3>1. /\ [q EXCEPT !.task = NoThread] \in Requests /\ [q EXCEPT !.task = NoThread].task = NoThread
          /\ [q EXCEPT !.task = NoThread].op = q.op /\ [q EXCEPT !.task = NoThread].thread = q.thread
      BY <2>2 DEF Requests
    <3> QED  BY <2>1, <2>2, <2>3, <3>1
  <2>4. CASE q.task # k
    BY <2>1, <2>2, <2>4
  <2> QED  BY <2>3, <2>4
<1>4. ServerTypes'
  BY <1>1, <1>3, ServerHas DEF ServerTypes
<1>5. TasksInv'
  <2> SUFFICES ASSUME NEW x \in Tasks PROVE TaskOK(task[x])'
    BY DEF TasksInv
  <2>1. TaskOK(task[x])
    BY Shown
  <2>2. CASE x = k
    BY <1>1, <1>2, <2>1, <2>2 DEF TaskOK
  <2>3. CASE x # k
    BY <1>1, <1>2, <2>1, <2>3 DEF TaskOK
  <2> QED  BY <2>2, <2>3
<1>6. InboxInv'
  <2> SUFFICES ASSUME NEW r \in inbox'
               PROVE  /\ r.task \in Tasks => /\ task'[r.task].at = "sent" /\ task'[r.task].op = r.op
                                             /\ task'[r.task].thread = r.thread
                                             /\ task'[r.task].text = r.text
                      /\ r.op \in {"turn", "resume", "archive"} => r.thread \in Known
    BY <1>1 DEF InboxInv
  <2> QED  BY <1>2, <1>3 DEF WSInv, InboxInv
<1>7. TurnsInv'
  <2>1. \A t, n, i : EndComes(t, n, i)' <=> EndComes(t, n, i)
    BY <1>1 DEF EndComes
  <2>2. \A x \in Tasks :
          /\ task'[x].op \in {"turn", "resume"} /\ task'[x].at = "answered"
             /\ task'[x].tn /\ task'[x].got # NoTurn => EndComes(task'[x].thread, task'[x].got, 1)
          /\ task'[x].got \in Turns \cup {NoTurn}
    BY <1>2 DEF WSInv, TurnsInv
  <2> QED  BY <1>1, <2>1, <2>2 DEF WSInv, TurnsInv
<1>8. active' \in [Threads -> Nat] /\ starting' \subseteq Threads /\ ready' \in BOOLEAN
  BY <1>1, Shown DEF WSInv, ClientTypes
<1>9. \A x \in Tasks : /\ task'[x].text = task[x].text
                       /\ task'[x].op = task[x].op /\ task'[x].thread = task[x].thread
                       /\ task'[x].at = "answered" => task'[x] = task[x]
  BY <1>2
<1>10. \A r \in inbox' : r.op = "turn" => \E q \in inbox : q.op = "turn" /\ q.thread = r.thread
  BY <1>3
<1> QED  BY <1>1, <1>2, <1>4, <1>5, <1>6, <1>7, <1>8, <1>9, <1>10, ConnectionSteps

(* connectToLocalEngine                                                    *)
LEMMA ConnectKeeps ==
  ASSUME WSInv, NEW k \in Tasks, Connect(k) PROVE WSInv'
<1>1. PICK c : c = Call("list", NoThread, <<>>)
  OBVIOUS
<1>2. /\ c \in TaskRec /\ c.op = "list" /\ c.at = "sent" /\ c.thread = NoThread /\ c.text = <<>>
      /\ c.got = NoTurn
  <2>1. "list" \in Ops /\ NoThread \in Keys /\ <<>> \in Texts
    BY TextSets DEF Ops, Keys
  <2> QED  BY <1>1, <2>1, CallsAre
<1>3. /\ ~ready /\ ready' = TRUE /\ task[k] = None /\ task' = [task EXCEPT ![k] = c]
      /\ inbox' = {[task |-> k, op |-> "list", thread |-> NoThread, text |-> <<>>]}
      /\ UNCHANGED <<threads, selected, edit, timeline, active, starting, creating, wire,
                     has, archived, turn, items, heard, nextTurn, accepted, seen>>
      /\ Known' = Known
  BY <1>1 DEF Connect, Free, server, Known
<1>4. /\ task' \in [Tasks -> TaskRec] /\ task'[k] = c /\ \A x \in Tasks \ {k} : task'[x] = task[x]
      /\ task[k].op = "none" /\ task[k].text = <<>>
  BY <1>2, <1>3, Shown, CallsAre
<1>5. ServerTypes'
  <2>1. inbox' \subseteq Requests
    BY <1>3, ServerHas DEF Requests, Ops
  <2> QED  BY <1>3, <2>1, ServerHas DEF ServerTypes
<1>6. TasksInv'
  <2> SUFFICES ASSUME NEW x \in Tasks PROVE TaskOK(task[x])'
    BY DEF TasksInv
  <2>1. TaskOK(task[x])
    BY Shown
  <2>2. CASE x = k
    BY <1>2, <1>3, <1>4, <2>2 DEF TaskOK, Creates
  <2>3. CASE x # k
    BY <1>3, <1>4, <2>1, <2>3 DEF TaskOK
  <2> QED  BY <2>2, <2>3
<1>7. InboxInv' /\ \A r \in inbox' : r.op # "turn"
  <2> SUFFICES ASSUME NEW r \in inbox'
               PROVE  /\ r.task \in Tasks => /\ task'[r.task].at = "sent" /\ task'[r.task].op = r.op
                                             /\ task'[r.task].thread = r.thread
                                             /\ task'[r.task].text = r.text
                      /\ r.op \notin {"turn", "resume", "archive"}
    BY DEF InboxInv
  <2> QED  BY <1>2, <1>3, <1>4
<1>8. TurnsInv'
  <2>1. \A t, n, i : EndComes(t, n, i)' <=> EndComes(t, n, i)
    BY <1>3 DEF EndComes
  <2>2. \A x \in Tasks :
          /\ task'[x].op \in {"turn", "resume"} /\ task'[x].at = "answered"
             /\ task'[x].tn /\ task'[x].got # NoTurn => EndComes(task'[x].thread, task'[x].got, 1)
          /\ task'[x].got \in Turns \cup {NoTurn}
    BY <1>2, <1>4 DEF WSInv, TurnsInv
  <2> QED  BY <1>3, <2>1, <2>2 DEF WSInv, TurnsInv
<1>9. active' \in [Threads -> Nat] /\ starting' \subseteq Threads /\ ready' \in BOOLEAN
  BY <1>3, Shown
<1>10. \A x \in Tasks : /\ task'[x].text = task[x].text
                        /\ \/ task'[x].op = "list" /\ task[x].op = "none" /\ task'[x].at = "sent"
                           \/ task'[x] = task[x]
  BY <1>2, <1>4
<1> QED  BY <1>3, <1>4, <1>5, <1>6, <1>7, <1>8, <1>9, <1>10, ConnectionSteps

---------------------------------------------------------------------------
(* The initial state: no text, no task, no turn.                           *)
LEMMA InitKeeps == Init => WSInv
<1> SUFFICES ASSUME Init PROVE WSInv
  OBVIOUS
<1> USE DEF Init
<1>1. /\ Existing \subseteq Threads /\ NoThread \in Keys /\ Threads \subseteq Keys /\ NoTurn = 0
      /\ <<>> \in Texts /\ ToSet(<<>>) = {} /\ None \in TaskRec
  BY WorkspaceAssumption, TextSets, CallsAre DEF Keys, NoTurn
<1>2. ClientTypes /\ ServerTypes
  <2>1. /\ drafts \in [Keys -> Texts] /\ timeline \in [Threads -> SUBSET Items]
        /\ seen \in [Threads -> SUBSET Items] /\ active \in [Threads -> Nat]
    BY <1>1
  <2>2. task \in [Tasks -> TaskRec]
    BY <1>1
  <2>3. ClientTypes
    BY <1>1, <2>1, <2>2 DEF ClientTypes
  <2>4. ServerTypes
    BY <1>1 DEF ServerTypes
  <2> QED  BY <2>3, <2>4
<1>3. \A k \in Tasks : /\ task[k].op = "none" /\ task[k].at = "none" /\ task[k].text = <<>>
                       /\ task[k].got = NoTurn
  BY CallsAre
<1>4. TasksInv /\ CreateInv /\ InboxInv /\ NewThreadInv
  BY <1>3 DEF TasksInv, TaskOK, CreateInv, InboxInv, NewThreadInv, Creates
<1>5. KnownInv
  BY <1>1 DEF KnownInv, Known
<1>6. TextInv
  <2>1. \A p \in Pots : Contents[p] = {}
    <3>1. \A k \in Keys : Editor(k) = {}
      BY <1>1 DEF Editor
    <3>2. \A k \in Tasks : ToSet(task[k].text) = {}
      BY <1>1, <1>3
    <3> QED  BY <3>1, <3>2, PotsAre, PotsHold
  <2> QED  BY <1>1, <2>1 DEF TextInv, KeptIn
<1>7. TurnsInv /\ TimelineInv
  BY <1>1, <1>3 DEF TurnsInv, TimelineInv
<1> QED  BY <1>2, <1>4, <1>5, <1>6, <1>7 DEF WSInv

(* Every step keeps the invariant.                                         *)
LEMMA StepKeeps == WSInv /\ [Next]_vars => WSInv'
<1> SUFFICES ASSUME WSInv, [Next]_vars PROVE WSInv'
  OBVIOUS
<1>1. CASE Type
  BY <1>1, TypeKeeps
<1>2. CASE LoseConnection
  BY <1>2, LoseConnectionKeeps
<1>3. CASE Notified
  BY <1>3, NotifiedKeeps
<1>4. ASSUME NEW k \in Tasks,
             \/ \E id \in Keys : SelectThread(k, id)
             \/ CreateThread(k) \/ SendComposer(k)
             \/ \E t \in Threads : ArchiveThread(k, t)
             \/ Connect(k) \/ TimeOut(k)
      PROVE  WSInv'
  BY <1>4, SelectThreadKeeps, UserCallsKeep, SendComposerKeeps, ConnectKeeps, TimeOutKeeps
<1>5. ASSUME NEW k \in Tasks, Resumed(k) PROVE WSInv'
  <2>1. ASSUME CreateDone(k) PROVE WSInv'
    BY <2>1, CreateDoneAlone, CreateDoneSends DEF CreateDone
  <2> QED  BY <1>5, <2>1, CreateFailedKeeps, TurnDoneKeeps, TurnFailedKeeps, ResumeDoneKeeps,
              ListDoneKeeps, ArchiveDoneKeeps, ReportKeeps DEF Resumed
<1>6. ASSUME NEW r \in inbox, Serve(r) PROVE WSInv'
  BY <1>6, ServeCreateKeeps, ServeTurnKeeps, ServeResumeKeeps, ServeListKeeps, ServeArchiveKeeps,
     RefuseKeeps DEF Serve
<1>7. ASSUME NEW t \in Threads, EndTurn(t) PROVE WSInv'
  BY <1>7, EndTurnKeeps
<1>8. CASE UNCHANGED vars
  <2>1. /\ UNCHANGED <<threads, selected, edit, timeline, creating, has, archived, turn, items,
                       nextTurn, accepted, seen>>
        /\ UNCHANGED <<ready, task, inbox, wire, heard, starting, active>>
    BY <1>8 DEF vars, edit
  <2>2. ServerTypes' /\ TasksInv' /\ InboxInv' /\ TurnsInv'
    BY <2>1 DEF WSInv, ServerTypes, TasksInv, TaskOK, Known, InboxInv, TurnsInv, EndComes
  <2>3. ready' \in BOOLEAN
    BY <2>1 DEF WSInv, ClientTypes
  <2> QED  BY <2>1, <2>2, <2>3, Shown, ConnectionSteps
<1> QED  BY <1>1, <1>2, <1>3, <1>4, <1>5, <1>6, <1>7, <1>8 DEF Next

(* The invariant of the workspace.                                         *)
LEMMA WorkspaceInvariant == Spec => []WSInv
BY InitKeeps, StepKeeps, PTL DEF Spec

(* What the user typed is never lost and never in two places, whatever     *)
(* selections, failures and lost connections happen (sendComposer,         *)
(* createThread, restoreDraft, selectedThreadID.didSet).                   *)
THEOREM TextIsKept == Spec => []TextKept
<1>1. WSInv => TextKept
  <2> SUFFICES ASSUME WSInv, NEW i \in 1 .. typed
               PROVE  Cardinality(Places(i)) <= 1 /\ (i \in accepted \/ Places(i) # {})
    BY DEF TextKept
  <2>1. /\ \A p, q \in Pots : i \in Contents[p] /\ i \in Contents[q] => p = q
        /\ i \in accepted \/ \E p \in Pots : i \in Contents[p]
    BY DEF WSInv, TextInv, KeptIn
  <2>2. /\ \A k, j \in Keys : i \in Editor(k) /\ i \in Editor(j) => k = j
        /\ \A k, j \in Tasks : i \in ToSet(task[k].text) /\ i \in ToSet(task[j].text) => k = j
        /\ \A k \in Keys, j \in Tasks : ~(i \in Editor(k) /\ i \in ToSet(task[j].text))
    BY <2>1, PotsAre, PotsHold
  <2>3. selected \in Keys
    BY DEF WSInv, ClientTypes
  <2>4. ASSUME NEW e \in Places(i)
        PROVE  \/ \E k \in Keys \ {selected} : e = <<"draft", k>> /\ i \in Editor(k)
               \/ e = <<"composer">> /\ i \in Editor(selected)
               \/ \E k \in Tasks : e = <<"task", k>> /\ i \in ToSet(task[k].text)
    BY <2>4 DEF Places, Editor
  <2>5. \A e, f \in Places(i) : e = f
    <3> SUFFICES ASSUME NEW e \in Places(i), NEW f \in Places(i) PROVE e = f
      OBVIOUS
    <3>1. CASE \E k \in Keys \ {selected} : e = <<"draft", k>> /\ i \in Editor(k)
      BY <2>2, <2>3, <2>4, <3>1
    <3>2. CASE e = <<"composer">> /\ i \in Editor(selected)
      BY <2>2, <2>3, <2>4, <3>2
    <3>3. CASE \E k \in Tasks : e = <<"task", k>> /\ i \in ToSet(task[k].text)
      BY <2>2, <2>3, <2>4, <3>3
    <3> QED  BY <2>4, <3>1, <3>2, <3>3
  <2>6. Cardinality(Places(i)) <= 1
    <3>1. CASE Places(i) = {}
      BY <3>1, FS_EmptySet
    <3>2. CASE Places(i) # {}
      <4>1. PICK e : Places(i) = {e}
        BY <2>5, <3>2
      <4>2. Cardinality({e}) = 1
        BY FS_Singleton
      <4> QED  BY <4>1, <4>2
    <3> QED  BY <3>1, <3>2
  <2>7. ASSUME i \notin accepted PROVE Places(i) # {}
    <3>1. \/ \E k \in Keys : i \in Editor(k)
          \/ \E k \in Tasks : i \in ToSet(task[k].text)
      BY <2>1, <2>7, PotsAre, PotsHold
    <3>2. ASSUME NEW k \in Keys, i \in Editor(k), k = selected PROVE Places(i) # {}
      <4>1. i \in {i} \cap ToSet(composer)
        BY <3>2 DEF Editor
      <4>2. <<"composer">> \in Places(i)
        BY <4>1 DEF Places
      <4> QED  BY <4>2
    <3>3. ASSUME NEW k \in Keys, i \in Editor(k), k # selected PROVE Places(i) # {}
      <4>1. k \in {j \in Keys \ {selected} : i \in ToSet(drafts[j])}
        BY <3>3 DEF Editor
      <4>2. <<"draft", k>> \in Places(i)
        BY <4>1 DEF Places
      <4> QED  BY <4>2
    <3>4. ASSUME NEW k \in Tasks, i \in ToSet(task[k].text) PROVE Places(i) # {}
      <4>1. <<"task", k>> \in Places(i)
        BY <3>4 DEF Places
      <4> QED  BY <4>1
    <3> QED  BY <3>1, <3>2, <3>3, <3>4
  <2> QED  BY <2>6, <2>7
<1> QED  BY <1>1, WorkspaceInvariant, PTL

(* A turn shown as running runs, or the notice of its end is on its way,   *)
(* however late an answer comes (turnRevisions).                           *)
THEOREM NoTurnIsAGhost == Spec => []NoGhostTurn
<1>1. WSInv => NoGhostTurn
  BY DEF WSInv, TurnsInv, EndComes, NoGhostTurn
<1> QED  BY <1>1, WorkspaceInvariant, PTL

(* Timelines are true: what came by notification stays, and a prompt shown *)
(* is being sent or was taken (timelineRevisions, handleNotification).     *)
THEOREM TimelinesAreTrue == Spec => []TimelineSafe
<1>1. WSInv => TimelineSafe
  <2> SUFFICES ASSUME WSInv PROVE TimelineSafe
    OBVIOUS
  <2>1. TimelineSound
    BY DEF WSInv, TimelineInv, TimelineSound
  <2>2. \A k \in Keys : Editor(k) \subseteq 1 .. typed
    BY PotsAre, PotsHold DEF WSInv, TextInv, KeptIn
  <2>3. selected \in Keys /\ ToSet(drafts[selected]) \subseteq 1 .. typed
    BY DEF WSInv, ClientTypes, TextInv
  <2>4. /\ \A k \in Keys : ToSet(drafts[k]) \subseteq 1 .. typed
        /\ ToSet(composer) \subseteq 1 .. typed
    BY <2>2, <2>3 DEF Editor
  <2>5. /\ ready \in BOOLEAN /\ creating \in BOOLEAN /\ threads \subseteq Threads
        /\ starting \subseteq Threads /\ has \cap archived = {} /\ heard \subseteq has
    BY DEF WSInv, ClientTypes, KnownInv
  <2>6. active \in [Threads -> Turns \cup {NoTurn}]
    BY DEF WSInv, ClientTypes, TurnsInv
  <2>7. TypeOK
    BY <2>3, <2>4, <2>5, <2>6 DEF TypeOK
  <2> QED  BY <2>1, <2>7 DEF TimelineSafe
<1> QED  BY <1>1, WorkspaceInvariant, PTL
=============================================================================
