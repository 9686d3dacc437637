----------------------------- MODULE RPCClient -----------------------------
(***************************************************************************)
(* CodexRPCClient (app/CodexPad/CodexRPC.swift): JSON-RPC over a WebSocket *)
(* to the Codex app-server.  The class is bound to the main actor, so code *)
(* between two awaits is one action; the awaits are where the calls to     *)
(* connect, the send tasks, the deadline tasks, the cancellation tasks and *)
(* the receive loops of old and new sockets interleave.                    *)
(*                                                                         *)
(* connect makes one socket per generation: a socket is named by its       *)
(* generation, and 0 stands for nil.                                       *)
(***************************************************************************)
EXTENDS Naturals

CONSTANTS
  Callers,         \* tasks that call connect
  MaxRequests,     \* bound on nextRequestID
  MaxGeneration    \* bound on the generations that connect and the user make

ASSUME RPCAssumption == MaxRequests \in Nat /\ MaxGeneration \in Nat

Ids == 1 .. MaxRequests
Sockets == 1 .. MaxGeneration
NoSocket == 0

VARIABLES
  state, socket, generation, nextRequestID,
  pending,      \* ids with a continuation in `pending`
  deadlines,    \* ids with a task in `deadlines`: still sleeping
  expired,      \* ids whose deadline task woke up and waits for the actor
  sending,      \* ids whose send task has not finished
  cancelling,   \* ids whose onCancel handler has queued its task
  via,          \* the socket each request was made on
  outcome,      \* how each request's continuation was resumed
  served,       \* ids the server has read: it may answer, even repeatedly
  broken,       \* sockets on which receive or send now fails
  receivers,    \* sockets whose receive loop is still running
  call          \* each connect in progress: where it is, its generation
                \* and the id of its initialize request

clientVars == <<state, socket, generation, nextRequestID, pending, deadlines, expired,
          sending, cancelling, via, outcome, served, broken, receivers, call>>

taskVars == <<expired, cancelling, served, broken>>

Idle == [at |-> "idle", gen |-> 0, id |-> 0]

ClientInit ==
  /\ state = "disconnected" /\ socket = NoSocket
  /\ generation = 0 /\ nextRequestID = 1
  /\ pending = {} /\ deadlines = {} /\ expired = {}
  /\ sending = {} /\ cancelling = {}
  /\ via = [i \in Ids |-> NoSocket]
  /\ outcome = [i \in Ids |-> "none"]
  /\ served = {} /\ broken = {} /\ receivers = {}
  /\ call = [c \in Callers |-> Idle]

(* continuation.resume: resuming one twice is a crash in Swift.            *)
WithOutcome(ids, how) ==
  [i \in Ids |-> IF i \notin ids THEN outcome[i]
                 ELSE IF outcome[i] = "none" THEN how ELSE "twice"]

---------------------------------------------------------------------------

(* resolveRequest: only an id still in `pending` is resumed.               *)
Resolve(id, how) ==
  /\ outcome' = WithOutcome({id} \cap pending, how)
  /\ pending' = pending \ {id}
  /\ deadlines' = deadlines \ ({id} \cap pending)

(* Mutant: disconnect drops the table without resuming anyone.             *)
ForgetPending(newPending) ==
  /\ outcome' = outcome
  /\ pending' = newPending
  /\ deadlines' = newPending

(* What disconnect does to the tables, followed by at most one new timed   *)
(* request: every waiting caller is resumed with an error.                 *)
RejectPending(newPending) ==
  /\ outcome' = WithOutcome(pending, "error")
  /\ pending' = newPending
  /\ deadlines' = newPending

(* disconnect, ending in the given state (failConnection overrides it).    *)
Disconnect(final) ==
  /\ generation' = generation + 1
  /\ socket' = NoSocket
  /\ state' = final
  /\ RejectPending({})

(* The id a request gets: never used before, whatever the connection.      *)
FreshId == nextRequestID

(* connect up to its first await: disconnect, a new socket with its        *)
(* receive loop, and the initialize request on it.                         *)
ConnectBegin(c) ==
  /\ call[c].at = "idle"
  /\ state # "connected"
  /\ generation < MaxGeneration /\ FreshId \in Ids
  /\ generation' = generation + 1
  /\ socket' = generation'
  /\ state' = "connecting"
  /\ receivers' = receivers \cup {generation'}
  /\ RejectPending({FreshId})
  /\ nextRequestID' = nextRequestID + 1
  /\ via' = [via EXCEPT ![FreshId] = generation']
  /\ sending' = sending \cup {FreshId}
  /\ call' = [call EXCEPT ![c] =
                [at |-> "initialize", gen |-> generation', id |-> FreshId]]
  /\ UNCHANGED taskVars

(* The initialize request came back.  The generation is compared, then     *)
(* notify starts sending "initialized" and awaits it.                      *)
ConnectNotify(c) ==
  /\ call[c].at = "initialize" /\ outcome[call[c].id] = "ok"
  /\ generation = call[c].gen
  /\ socket # NoSocket
  /\ call' = [call EXCEPT ![c].at = "notify"]
  /\ UNCHANGED <<state, socket, generation, nextRequestID, pending, deadlines,
                 sending, via, outcome, receivers, taskVars>>

(* The notification was sent: the client is connected.                     *)
ConnectEnd(c) ==
  /\ call[c].at = "notify"
  /\ state' = "connected"
  /\ call' = [call EXCEPT ![c] = Idle]
  /\ UNCHANGED <<socket, generation, nextRequestID, pending, deadlines, sending,
                 via, outcome, receivers, taskVars>>

(* The request failed, the generation moved on, or the notification could  *)
(* not be sent: connect throws, and if the connection is still its own it  *)
(* tears it down first.                                                    *)
ConnectFails(c) ==
  /\ \/ call[c].at = "initialize" /\ outcome[call[c].id] \in {"error", "twice"}
     \/ /\ call[c].at = "initialize" /\ outcome[call[c].id] = "ok"
        /\ generation # call[c].gen
     \/ call[c].at = "notify" /\ (call[c].gen \in broken \/ call[c].gen # socket)
  /\ IF generation = call[c].gen
       THEN Disconnect("failed")
       ELSE UNCHANGED <<state, socket, generation, pending, deadlines, outcome>>
  /\ call' = [call EXCEPT ![c] = Idle]
  /\ UNCHANGED <<nextRequestID, sending, via, receivers, taskVars>>

(* The user, or the model, disconnects.                                    *)
UserDisconnect ==
  /\ generation < MaxGeneration
  /\ Disconnect("disconnected")
  /\ UNCHANGED <<nextRequestID, sending, via, receivers, call, taskVars>>

(* request: a continuation, a deadline unless disableTimeout is set, and a *)
(* task that sends the message through the socket of the moment.           *)
Request(timed) ==
  /\ socket # NoSocket
  /\ FreshId \in Ids
  /\ nextRequestID' = nextRequestID + 1
  /\ pending' = pending \cup {FreshId}
  /\ deadlines' = IF timed THEN deadlines \cup {FreshId} ELSE deadlines
  /\ sending' = sending \cup {FreshId}
  /\ via' = [via EXCEPT ![FreshId] = socket]
  /\ UNCHANGED <<state, socket, generation, outcome, receivers, call, taskVars>>

(* The send task: the message goes out on a live socket, or the send       *)
(* throws and the request is resolved with the error.                      *)
SendOk(id) ==
  /\ id \in sending
  /\ via[id] \notin broken /\ via[id] = socket
  /\ sending' = sending \ {id}
  /\ served' = served \cup {id}
  /\ UNCHANGED <<state, socket, generation, nextRequestID, pending, deadlines,
                 expired, cancelling, via, outcome, broken, receivers, call>>

SendFails(id) ==
  /\ id \in sending
  /\ via[id] \in broken \/ via[id] # socket
  /\ sending' = sending \ {id}
  /\ Resolve(id, "error")
  /\ UNCHANGED <<state, socket, generation, nextRequestID, via, receivers,
                 call, taskVars>>

(* A deadline task's sleep ends; a task cancelled before that is gone, one *)
(* cancelled later still runs resolveRequest.                              *)
DeadlineElapses(id) ==
  /\ id \in deadlines \ expired
  /\ expired' = expired \cup {id}
  /\ UNCHANGED <<state, socket, generation, nextRequestID, pending, deadlines,
                 sending, cancelling, via, outcome, served, broken, receivers,
                 call>>

(* Mutant: the deadline passes and nobody is told.                         *)
DeadlineIgnored(id) ==
  /\ id \in expired
  /\ expired' = expired \ {id}
  /\ UNCHANGED <<state, socket, generation, nextRequestID, sending, cancelling,
                 via, served, broken, receivers, call, pending, deadlines,
                 outcome>>

DeadlineRuns(id) ==
  /\ id \in expired
  /\ expired' = expired \ {id}
  /\ Resolve(id, "error")
  /\ UNCHANGED <<state, socket, generation, nextRequestID, sending, cancelling,
                 via, served, broken, receivers, call>>

(* The caller's task is cancelled: onCancel queues a task for the actor.   *)
Cancel(id) ==
  /\ id \in pending \ cancelling
  /\ cancelling' = cancelling \cup {id}
  /\ UNCHANGED <<state, socket, generation, nextRequestID, pending, deadlines,
                 expired, sending, via, outcome, served, broken, receivers,
                 call>>

CancelRuns(id) ==
  /\ id \in cancelling
  /\ cancelling' = cancelling \ {id}
  /\ Resolve(id, "error")
  /\ UNCHANGED <<state, socket, generation, nextRequestID, expired, sending,
                 via, served, broken, receivers, call>>

(* receiveMessages gets an answer and handles it, if its socket is still   *)
(* the client's; if not, the loop ends.                                    *)
ReceiveAnswer(s, id) ==
  /\ s \in receivers /\ s = socket /\ s \notin broken
  /\ id \in served /\ via[id] = s
  /\ \E how \in {"ok", "error"} : Resolve(id, how)
  /\ UNCHANGED <<state, socket, generation, nextRequestID, sending, via,
                 receivers, call, taskVars>>

ReceiveStale(s) ==
  /\ s \in receivers /\ s # socket
  /\ receivers' = receivers \ {s}
  /\ UNCHANGED <<state, socket, generation, nextRequestID, pending, deadlines,
                 sending, via, outcome, call, taskVars>>

(* Mutant: the loop does not ask whose connection it is about to fail.     *)
AnyConnection(s) == TRUE

(* self.socket === socket                                                  *)
StillMine(s) == s = socket

(* receive throws (a closed socket, or a message that does not decode): a  *)
(* loop whose socket is still the client's fails the connection.           *)
ReceiveFails(s) ==
  /\ s \in receivers /\ s \in broken
  /\ StillMine(s)
  /\ Disconnect("failed")
  /\ receivers' = receivers \ {s}
  /\ UNCHANGED <<nextRequestID, sending, via, call, taskVars>>

(* The server closes a connection, or the transport fails.                 *)
SocketBreaks(s) ==
  /\ s \in receivers \ broken
  /\ broken' = broken \cup {s}
  /\ UNCHANGED <<state, socket, generation, nextRequestID, pending, deadlines,
                 expired, sending, cancelling, via, outcome, served, receivers,
                 call>>

ClientNext ==
  \/ \E c \in Callers : \/ ConnectBegin(c) \/ ConnectNotify(c)
                        \/ ConnectEnd(c) \/ ConnectFails(c)
  \/ UserDisconnect
  \/ \E timed \in BOOLEAN : Request(timed)
  \/ \E id \in Ids : \/ SendOk(id) \/ SendFails(id)
                     \/ DeadlineElapses(id) \/ DeadlineRuns(id)
                     \/ Cancel(id) \/ CancelRuns(id)
                     \/ \E s \in Sockets : ReceiveAnswer(s, id)
  \/ \E s \in Sockets : ReceiveStale(s) \/ ReceiveFails(s) \/ SocketBreaks(s)

(* Sleeps end and tasks queued for the main actor run; awaits of the       *)
(* transport end, one way or the other.                                    *)
Fairness ==
  /\ \A id \in Ids : WF_clientVars(DeadlineElapses(id)) /\ WF_clientVars(DeadlineRuns(id))
  /\ \A c \in Callers :
       WF_clientVars(ConnectNotify(c) \/ ConnectEnd(c) \/ ConnectFails(c))

ClientSpec == ClientInit /\ [][ClientNext]_clientVars
FairSpec == ClientSpec /\ Fairness

---------------------------------------------------------------------------
(* The types of the variables.                                             *)
ClientTypeOK ==
  /\ state \in {"disconnected", "connecting", "connected", "failed"}
  /\ generation \in Nat /\ socket \in 0 .. MaxGeneration
  /\ nextRequestID \in 1 .. MaxRequests + 1
  /\ pending \subseteq Ids /\ deadlines \subseteq Ids
  /\ expired \subseteq Ids /\ sending \subseteq Ids /\ cancelling \subseteq Ids
  /\ served \subseteq Ids
  /\ via \in [Ids -> 0 .. MaxGeneration]
  /\ outcome \in [Ids -> {"none", "ok", "error", "twice"}]
  /\ broken \subseteq Sockets /\ receivers \subseteq Sockets
  /\ call \in [Callers -> [at : {"idle", "initialize", "notify"},
                           gen : 0 .. MaxGeneration, id : 0 .. MaxRequests]]

(* Every continuation is resumed exactly once: a request that was made is  *)
(* either in `pending` and not yet resumed, or was resumed once, whichever *)
(* of the answer, the send error, the deadline, the cancellation and the   *)
(* disconnect came first and however many of them follow.                  *)
ResumedExactlyOnce ==
  \A i \in Ids :
    /\ i \in pending <=> i < nextRequestID /\ outcome[i] = "none"
    /\ outcome[i] # "twice"

(* A deadline task is kept only for a request that still waits, and what   *)
(* waits waits for the present connection: with no socket nothing waits.   *)
NothingPendingOffline ==
  /\ deadlines \subseteq pending
  /\ \A i \in pending : via[i] = socket /\ socket # NoSocket

(* "old receive tasks cannot poison a replacement connection"              *)
(* (tests/codexpad/RPCRegression.swift): a live connection is failed only  *)
(* because its own socket broke or its own connect could not finish.       *)
FailsForCause ==
  state' = "failed" /\ socket # NoSocket /\ socket' = NoSocket =>
    \/ socket \in broken
    \/ \E c \in Callers : call[c].at # "idle" /\ call[c].gen = socket
NoPoisoning == [][FailsForCause]_clientVars

(* "Server close left stale connected state" is a failure of the transport *)
(* regression: a client that says it is connected has a socket.            *)
ConnectedHasSocket == state = "connected" => socket # NoSocket

(* "all ordinary RPCs must eventually release UI": a request that has a    *)
(* deadline is eventually resumed, even if the server never answers.       *)
OrdinaryRequestEnds ==
  \A i \in Ids : i \in deadlines ~> i \notin pending

(* A call of connect that has begun returns or throws.                     *)
ConnectReturns == \A c \in Callers : call[c].at # "idle" ~> call[c].at = "idle"
=============================================================================
