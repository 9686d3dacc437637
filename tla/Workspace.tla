----------------------------- MODULE Workspace -----------------------------
(***************************************************************************)
(* CodexWorkspaceModel (app/CodexPad/CodexWorkspaceModel.swift): threads,  *)
(* drafts, turns and timelines of the app.  The class is bound to the main *)
(* actor, so what runs between two awaits is one action.  A task of the    *)
(* app suspends only in rpc.request; `task` says on which request, and     *)
(* what it captured before.                                                *)
(*                                                                         *)
(* selectionGeneration, turnRevisions and timelineRevisions are counters   *)
(* that a task reads before an await and compares after it.  The model     *)
(* keeps the outcome of the comparison: sel, tn and tl say that the        *)
(* counter has not moved since the task read it.                           *)
(*                                                                         *)
(* The app-server is external: it reads requests in any order, may refuse  *)
(* one, tells of a turn on its notification stream, and answers before or  *)
(* after the notifications a request causes.                               *)
(***************************************************************************)
EXTENDS Naturals, Sequences, SequencesExt, FiniteSets

CONSTANTS
  Threads,      \* thread ids
  Existing,     \* the threads the server has before the app starts
  NoThread,     \* nil: no thread is selected
  Tasks,        \* tasks of the app that may be suspended at once
  MaxActs,      \* bound on what the user starts: selections, sends, ...
  MaxTexts,     \* bound on the pieces of text the user types
  MaxTurns,     \* bound on the turns the server starts
  MaxFaults     \* bound on lost connections and missed deadlines together

ASSUME WorkspaceAssumption ==
  /\ Existing \subseteq Threads /\ NoThread \notin Threads \cup Tasks
  /\ MaxActs \in Nat /\ MaxTexts \in Nat /\ MaxTurns \in Nat /\ MaxFaults \in Nat

Keys == Threads \cup {NoThread}
Turns == 1 .. MaxTurns
NoTurn == 0

VARIABLES
  ready,       \* enginePhase.isReady, and the socket is open
  threads,     \* ids of `threads`
  selected,    \* selectedThreadID
  drafts, composer,
  timeline,    \* ids in timelineByThread: prompts (texts) and turns' answers
  active,      \* activeTurns
  starting,    \* startingTurns
  creating,    \* isCreatingThread
  task,        \* what each task is suspended on
  typed, acts, faults,
  \* the app-server
  inbox,       \* requests that it has not read
  wire,        \* notifications on their way to the app
  has,         \* the threads it has
  archived,    \* and those it had
  turn,        \* the turn that runs on each thread
  items,       \* what it keeps of each thread
  heard,       \* threads whose notifications this connection gets
  nextTurn,
  accepted,    \* texts that it took
  seen         \* history: what each timeline got from notifications

edit == <<drafts, composer, typed>>
server == <<has, archived, turn, items, heard, nextTurn, accepted>>
vars == <<ready, threads, selected, drafts, composer, timeline, active, starting,
          creating, task, typed, acts, faults, inbox, wire, has, archived, turn,
          items, heard, nextTurn, accepted, seen>>

Prompt(text) == [kind |-> "prompt", text |-> text]
Answer(n) == [kind |-> "answer", turn |-> n]

None == [op |-> "none", at |-> "none", thread |-> NoThread, text |-> <<>>,
         sel |-> TRUE, tn |-> TRUE, tl |-> TRUE, got |-> NoTurn, with |-> {}]

(* A task that has just called rpc.request.                                *)
Call(op, t, text) == [None EXCEPT !.op = op, !.at = "sent",
                                  !.thread = t, !.text = text]

Init ==
  /\ ready = FALSE /\ threads = {} /\ selected = NoThread
  /\ drafts = [k \in Keys |-> <<>>] /\ composer = <<>>
  /\ timeline = [t \in Threads |-> {}]
  /\ active = [t \in Threads |-> NoTurn]
  /\ starting = {} /\ creating = FALSE
  /\ task = [k \in Tasks |-> None]
  /\ typed = 0 /\ acts = 0 /\ faults = 0
  /\ inbox = {} /\ wire = <<>>
  /\ has = Existing /\ archived = {} /\ heard = {}
  /\ turn = [t \in Threads |-> NoTurn]
  /\ items = [t \in Threads |-> {}]
  /\ nextTurn = 1 /\ accepted = {}
  /\ seen = [t \in Threads |-> {}]

---------------------------------------------------------------------------
(* Parts of handlers.                                                      *)

(* selectedThreadID.didSet: the draft of the old thread is put away, that  *)
(* of the new one is brought out.                                          *)
PutAway(k) == [drafts EXCEPT ![selected] = IF k = selected THEN @ ELSE composer]
BringOut(k) == IF k = selected THEN composer ELSE drafts[k]

(* selectionGeneration += 1, seen by the tasks that compare it.            *)
Moved(tasks, k) ==
  IF k = selected THEN tasks
  ELSE [x \in Tasks |-> [tasks[x] EXCEPT !.sel =
          @ /\ tasks[x].op \notin {"create", "sendCreate"}]]

(* Mutant: a notification does not count.                                  *)
NotMoved(tasks, t) == tasks

(* turnRevisions[t] += 1 and timelineRevisions[t] += 1.                    *)
TurnMoved(tasks, t) ==
  [x \in Tasks |-> [tasks[x] EXCEPT !.tn =
     @ /\ ~(tasks[x].op \in {"resume", "turn"} /\ tasks[x].thread = t)]]
TimelineMoved(tasks, t) ==
  [x \in Tasks |-> [tasks[x] EXCEPT !.tl =
     @ /\ ~(tasks[x].op = "resume" /\ tasks[x].thread = t)]]

(* isTurnRunning                                                           *)
Running == creating \/ selected \in starting
           \/ (selected # NoThread /\ active[selected] # NoTurn)

(* Mutant: the restored text replaces what was typed since.                *)
Overwrite(text, k) == text

(* restoreDraft: the text of a failed send goes before what was typed      *)
(* since, in the composer or in the draft of its thread.                   *)
Recovered(text, k) ==
  LET pending == IF selected = k THEN composer ELSE drafts[k]
  IN  IF pending \in {<<>>, text} THEN text ELSE text \o pending

RestoreDraft(text, k) ==
  /\ drafts' = [drafts EXCEPT ![k] = Recovered(text, k)]
  /\ composer' = IF selected = k THEN Recovered(text, k) ELSE composer

(* rpc.request of task k: it throws at once when the socket is closed, and *)
(* the task is over when the caller only reports that.                     *)
SendRequest(tasks, k, call) ==
  /\ task' = [tasks EXCEPT ![k] = IF ready THEN call ELSE None]
  /\ inbox' = IF ready THEN inbox \cup {[task |-> k, op |-> call.op,
                             thread |-> call.thread, text |-> call.text]}
              ELSE inbox

Free(k) == task[k] = None

(* selectThread: the selection moves at once, then resumeThread.           *)
GoTo(k, id) ==
  /\ selected' = id
  /\ drafts' = PutAway(id) /\ composer' = BringOut(id)
  /\ IF id = NoThread
     THEN task' = [Moved(task, id) EXCEPT ![k] = None] /\ UNCHANGED inbox
     ELSE SendRequest(Moved(task, id), k, Call("resume", id, <<>>))

---------------------------------------------------------------------------
(* What the user does.                                                     *)

Type ==
  /\ typed < MaxTexts
  /\ typed' = typed + 1
  /\ composer' = Append(composer, typed')
  /\ UNCHANGED <<ready, threads, selected, drafts, timeline, active, starting,
                 creating, task, acts, faults, inbox, wire, server, seen>>

(* The user starts a task, which runs on the main actor at once.           *)
UserStarts(k) == Free(k) /\ acts < MaxActs /\ acts' = acts + 1

(* The user picks a thread of the list, or none.                           *)
SelectThread(k, id) ==
  /\ UserStarts(k) /\ id \in threads \cup {NoThread}
  /\ GoTo(k, id)
  /\ UNCHANGED <<ready, threads, timeline, active, starting, creating, typed,
                 faults, wire, server, seen>>

(* The New thread button: createThread up to its await.                    *)
CreateThread(k) ==
  /\ UserStarts(k) /\ ready /\ ~creating
  /\ creating' = TRUE
  /\ SendRequest(task, k, Call("create", NoThread, <<>>))
  /\ UNCHANGED <<ready, threads, selected, edit, timeline, active, starting,
                 faults, wire, server, seen>>

(* The part of sendComposer from upsertTimeline to turn/start, on thread t.*)
StartTurn(tasks, k, t, text) ==
  /\ starting' = starting \cup {t}
  /\ SendRequest(TimelineMoved(tasks, t), k, Call("turn", t, text))

(* sendComposer up to its first await: to create a thread when none is     *)
(* selected, else to start the turn.                                       *)
SendComposer(k) ==
  /\ UserStarts(k) /\ ready /\ composer # <<>> /\ ~Running
  /\ composer' = <<>>
  /\ IF selected = NoThread
     THEN /\ creating' = TRUE
          /\ SendRequest(task, k, Call("sendCreate", NoThread, composer))
          /\ UNCHANGED <<starting, timeline>>
     ELSE /\ timeline' = [timeline EXCEPT ![selected] = @ \cup {Prompt(composer)}]
          /\ StartTurn(task, k, selected, composer)
          /\ UNCHANGED creating
  /\ UNCHANGED <<ready, threads, selected, drafts, active, typed, faults, wire, server, seen>>

(* archiveThread up to its await.                                          *)
ArchiveThread(k, t) ==
  /\ UserStarts(k) /\ ready /\ t \in threads
  /\ SendRequest(task, k, Call("archive", t, <<>>))
  /\ UNCHANGED <<ready, threads, selected, edit, timeline, active, starting,
                 creating, faults, wire, server, seen>>

(* connectToLocalEngine when it succeeds, up to the await in refreshThreads.*)
(* isConnecting holds until that returns.                                  *)
Connect(k) ==
  /\ ~ready /\ Free(k) /\ \A x \in Tasks : task[x].op # "list"
  /\ ready' = TRUE
  /\ task' = [task EXCEPT ![k] = Call("list", NoThread, <<>>)]
  /\ inbox' = {[task |-> k, op |-> "list", thread |-> NoThread, text |-> <<>>]}
  /\ UNCHANGED <<acts, threads, selected, edit, timeline, active, starting, creating,
                 faults, wire, server, seen>>

---------------------------------------------------------------------------
(* The connection.                                                         *)

(* stateHandler on .failed: no turn is known to run any more.              *)
ClearTurns == active' = [t \in Threads |-> NoTurn] /\ starting' = {}

(* The socket fails: the RPC client resumes every request with an error,   *)
(* and the tasks run when the actor gets to them.                          *)
LoseConnection ==
  /\ ready /\ faults < MaxFaults
  /\ faults' = faults + 1
  /\ ready' = FALSE
  /\ ClearTurns
  /\ task' = [x \in Tasks |-> IF Free(x) THEN None ELSE [task[x] EXCEPT !.at = "failed"]]
  /\ inbox' = {} /\ wire' = <<>> /\ heard' = {}
  /\ UNCHANGED <<acts, threads, selected, edit, timeline, creating,
                 has, archived, turn, items, nextTurn, accepted, seen>>

(* A deadline: the request fails here, and the server may still read it.   *)
TimeOut(k) ==
  /\ task[k].at \in {"sent", "answered"} /\ faults < MaxFaults
  /\ faults' = faults + 1
  /\ task' = [task EXCEPT ![k].at = "failed"]
  /\ inbox' = {IF r.task = k THEN [r EXCEPT !.task = NoThread] ELSE r : r \in inbox}
  /\ UNCHANGED <<acts, ready, threads, selected, edit, timeline, active, starting,
                 creating, wire, server, seen>>

---------------------------------------------------------------------------
(* Tasks after their await.                                                *)

(* The drafts when a new thread is selected.  A first send takes the       *)
(* unsent text with it.                                                    *)
CarryDraft(send, n) ==
  IF send THEN [PutAway(n) EXCEPT ![selected] = <<>>] ELSE PutAway(n)

(* createThread after thread/start: the new thread is selected unless the  *)
(* user moved meanwhile.  sendComposer goes on with turn/start in it.      *)
CreateDone(k) ==
  LET n == task[k].thread
      send == task[k].op = "sendCreate"
      stay == ~task[k].sel
  IN
  /\ task[k].op \in {"create", "sendCreate"} /\ task[k].at = "answered"
  /\ creating' = FALSE
  /\ threads' = threads \cup {n}
  /\ selected' = IF stay THEN selected ELSE n
  /\ drafts' = IF stay THEN drafts ELSE CarryDraft(send, n)
  /\ composer' = IF stay \/ send THEN composer ELSE BringOut(n)
  /\ timeline' = [timeline EXCEPT ![n] = IF send THEN {Prompt(task[k].text)} ELSE {}]
  /\ LET tasks == IF stay THEN task ELSE Moved(task, n)
     IN  IF send THEN StartTurn(tasks, k, n, task[k].text)
         ELSE /\ task' = [tasks EXCEPT ![k] = None]
              /\ UNCHANGED <<starting, inbox>>
  /\ UNCHANGED <<acts, ready, active, typed, faults, wire, server, seen>>

(* createThread's catch, and the guard of sendComposer after it.           *)
CreateFailed(k) ==
  /\ task[k].op \in {"create", "sendCreate"} /\ task[k].at = "failed"
  /\ creating' = FALSE
  /\ IF task[k].op = "sendCreate" THEN RestoreDraft(task[k].text, NoThread)
     ELSE UNCHANGED <<drafts, composer>>
  /\ task' = [task EXCEPT ![k] = None]
  /\ UNCHANGED <<acts, ready, threads, selected, timeline, active, starting, typed,
                 faults, inbox, wire, server, seen>>

(* sendComposer after the answer to turn/start.                            *)
TurnDone(k) ==
  LET t == task[k].thread IN
  /\ task[k].op = "turn" /\ task[k].at = "answered"
  /\ active' = [active EXCEPT ![t] = IF task[k].tn THEN task[k].got ELSE @]
  /\ starting' = starting \ {t}
  /\ task' = [task EXCEPT ![k] = None]
  /\ UNCHANGED <<acts, ready, threads, selected, edit, timeline, creating, faults,
                 inbox, wire, server, seen>>

(* timelineByThread[t]?.removeAll of the prompt.                           *)
TakePrompt(t, text) ==
  /\ timeline' = [timeline EXCEPT ![t] = @ \ {Prompt(text)}]
  /\ seen' = [seen EXCEPT ![t] = @ \ {Prompt(text)}]

(* Its catch: the prompt goes back from the timeline into the draft.       *)
TurnFailed(k) ==
  LET t == task[k].thread IN
  /\ task[k].op = "turn" /\ task[k].at = "failed"
  /\ TakePrompt(t, task[k].text)
  /\ RestoreDraft(task[k].text, t)
  /\ starting' = starting \ {t}
  /\ task' = [task EXCEPT ![k] = None]
  /\ UNCHANGED <<acts, ready, threads, selected, active, creating, typed, faults,
                 inbox, wire, server>>

(* resumeThread after its answer: a snapshot older than a notification is  *)
(* not applied.                                                            *)
ResumeDone(k) ==
  LET t == task[k].thread IN
  /\ task[k].op = "resume" /\ task[k].at = "answered"
  /\ threads' = threads \cup {t}
  /\ timeline' = [timeline EXCEPT ![t] = IF task[k].tl THEN task[k].with ELSE @]
  /\ active' = [active EXCEPT ![t] = IF task[k].tn THEN task[k].got ELSE @]
  /\ task' = [task EXCEPT ![k] = None]
  /\ UNCHANGED <<acts, ready, selected, edit, starting, creating, faults, inbox, wire,
                 server, seen>>

Stay(k) ==
  /\ task' = [task EXCEPT ![k] = None]
  /\ UNCHANGED <<selected, drafts, composer, inbox>>

(* The list that the server gave and the selected thread, which may be     *)
(* younger than it.                                                        *)
Listed(list) == list \cup (threads \cap {selected})

(* refreshThreads after its answer.  The list's order is left out: any     *)
(* thread may be the first.                                                *)
ListDone(k) ==
  /\ task[k].op = "list" /\ task[k].at = "answered"
  /\ threads' = Listed(task[k].with)
  /\ IF selected = NoThread /\ threads' # {}
     THEN \E id \in threads' : GoTo(k, id)
     ELSE Stay(k)
  /\ UNCHANGED <<acts, ready, timeline, active, starting, creating, typed, faults,
                 wire, server, seen>>

(* archiveThread after its answer.                                         *)
ArchiveDone(k) ==
  LET t == task[k].thread IN
  /\ task[k].op = "archive" /\ task[k].at = "answered"
  /\ threads' = threads \ {t}
  /\ timeline' = [timeline EXCEPT ![t] = {}]
  /\ seen' = [seen EXCEPT ![t] = {}]
  /\ active' = [active EXCEPT ![t] = NoTurn]
  /\ IF selected # t THEN Stay(k)
     ELSE \E id \in IF threads' = {} THEN {NoThread} ELSE threads' : GoTo(k, id)
  /\ UNCHANGED <<acts, ready, starting, creating, typed, faults, wire, server>>

(* The catch of resumeThread, refreshThreads and archiveThread.            *)
Report(k) ==
  /\ task[k].op \in {"resume", "list", "archive"} /\ task[k].at = "failed"
  /\ task' = [task EXCEPT ![k] = None]
  /\ UNCHANGED <<acts, ready, threads, selected, edit, timeline, active, starting,
                 creating, faults, inbox, wire, server, seen>>

---------------------------------------------------------------------------
(* handleNotification.                                                     *)

(* upsertTimeline                                                          *)
Upsert(t, new) ==
  /\ timeline' = [timeline EXCEPT ![t] = @ \cup new]
  /\ seen' = [seen EXCEPT ![t] = @ \cup new]

ThreadStarted(m) ==
  /\ m.kind = "thread/started"
  /\ threads' = threads \cup {m.thread}
  /\ UNCHANGED <<active, starting, task, timeline, seen>>

TurnStarted(m) ==
  /\ m.kind = "turn/started"
  /\ task' = TurnMoved(task, m.thread)
  /\ active' = [active EXCEPT ![m.thread] = m.turn]
  /\ UNCHANGED <<threads, starting, timeline, seen>>

TurnCompleted(m) ==
  /\ m.kind = "turn/completed"
  /\ task' = TimelineMoved(TurnMoved(task, m.thread), m.thread)
  /\ active' = [active EXCEPT ![m.thread] = IF @ = m.turn THEN NoTurn ELSE @]
  /\ starting' = starting \ {m.thread}
  /\ Upsert(m.thread, {Answer(m.turn)})
  /\ UNCHANGED threads

ItemStarted(m) ==
  /\ m.kind = "item/started"
  /\ task' = TimelineMoved(task, m.thread)
  /\ Upsert(m.thread, {Prompt(m.text)})
  /\ UNCHANGED <<threads, active, starting>>

Notified ==
  /\ wire # <<>> /\ wire' = Tail(wire)
  /\ \/ ThreadStarted(Head(wire)) \/ TurnStarted(Head(wire))
     \/ TurnCompleted(Head(wire)) \/ ItemStarted(Head(wire))
  /\ UNCHANGED <<acts, ready, selected, edit, creating, faults, inbox, server>>

---------------------------------------------------------------------------
(* The app-server (external).                                              *)

Note(kind, t, n, text) == [kind |-> kind, thread |-> t, turn |-> n, text |-> text]

(* Notifications of thread t go to a connection that created it, resumed   *)
(* it or started a turn in it.                                             *)
Tell(t, notes) == wire' = IF t \in heard' THEN wire \o notes ELSE wire

Answered(r, t, n, with) ==
  /\ inbox' = inbox \ {r}
  /\ task' = IF r.task \in Tasks
             THEN [task EXCEPT ![r.task] = [@ EXCEPT !.at = "answered", !.thread = t,
                                                     !.got = n, !.with = with]]
             ELSE task

client == <<acts, ready, threads, selected, edit, timeline, active, starting, creating,
            faults, seen>>

ServeCreate(r) ==
  /\ r.op \in {"create", "sendCreate"}
  /\ \E n \in Threads \ (has \cup archived) :
        /\ has' = has \cup {n} /\ heard' = heard \cup {n}
        /\ Tell(n, <<Note("thread/started", n, NoTurn, <<>>)>>)
        /\ Answered(r, n, NoTurn, {})
  /\ UNCHANGED <<archived, turn, items, nextTurn, accepted, client>>

ServeTurn(r) ==
  LET t == r.thread
      n == nextTurn
  IN
  /\ r.op = "turn" /\ t \in has /\ turn[t] = NoTurn
  /\ n \in Turns /\ nextTurn' = n + 1
  /\ heard' = heard \cup {t}
  /\ turn' = [turn EXCEPT ![t] = n]
  /\ items' = [items EXCEPT ![t] = @ \cup {Prompt(r.text)}]
  /\ accepted' = accepted \cup ToSet(r.text)
  /\ Tell(t, <<Note("turn/started", t, n, <<>>), Note("item/started", t, n, r.text)>>)
  /\ Answered(r, t, n, {})
  /\ UNCHANGED <<has, archived, client>>

ServeResume(r) ==
  /\ r.op = "resume" /\ r.thread \in has
  /\ heard' = heard \cup {r.thread}
  /\ Answered(r, r.thread, turn[r.thread], items[r.thread])
  /\ UNCHANGED <<wire, has, archived, turn, items, nextTurn, accepted, client>>

ServeList(r) ==
  /\ r.op = "list"
  /\ Answered(r, NoThread, NoTurn, has)
  /\ UNCHANGED <<wire, server, client>>

(* Turn n of thread t ends.                                                *)
End(t, n) ==
  /\ turn[t] = n /\ n # NoTurn
  /\ turn' = [turn EXCEPT ![t] = NoTurn]
  /\ items' = [items EXCEPT ![t] = @ \cup {Answer(n)}]
  /\ wire' = IF t \in heard THEN Append(wire, Note("turn/completed", t, n, <<>>))
             ELSE wire

ServeArchive(r) ==
  /\ r.op = "archive" /\ r.thread \in has
  /\ has' = has \ {r.thread} /\ archived' = archived \cup {r.thread}
  /\ heard' = heard \ {r.thread}
  /\ IF turn[r.thread] = NoTurn THEN UNCHANGED <<turn, items, wire>>
     ELSE End(r.thread, turn[r.thread])
  /\ Answered(r, r.thread, NoTurn, {})
  /\ UNCHANGED <<nextTurn, accepted, client>>

Refuse(r) ==
  /\ inbox' = inbox \ {r}
  /\ task' = IF r.task \in Tasks THEN [task EXCEPT ![r.task].at = "failed"] ELSE task
  /\ UNCHANGED <<wire, server, client>>

Serve(r) ==
  \/ ServeCreate(r) \/ ServeTurn(r) \/ ServeResume(r)
  \/ ServeList(r) \/ ServeArchive(r) \/ Refuse(r)

EndTurn(t) ==
  /\ End(t, turn[t])
  /\ UNCHANGED <<inbox, task, has, archived, heard, nextTurn, accepted, client>>

---------------------------------------------------------------------------
Resumed(k) ==
  \/ CreateDone(k) \/ CreateFailed(k) \/ TurnDone(k) \/ TurnFailed(k)
  \/ ResumeDone(k) \/ ListDone(k) \/ ArchiveDone(k) \/ Report(k)

Next ==
  \/ Type \/ LoseConnection \/ Notified
  \/ \E k \in Tasks :
       \/ \E id \in Keys : SelectThread(k, id)
       \/ CreateThread(k) \/ SendComposer(k)
       \/ \E t \in Threads : ArchiveThread(k, t)
       \/ Connect(k) \/ TimeOut(k) \/ Resumed(k)
  \/ \E r \in inbox : Serve(r)
  \/ \E t \in Threads : EndTurn(t)

Spec == Init /\ [][Next]_vars

---------------------------------------------------------------------------
TypeOK ==
  /\ ready \in BOOLEAN /\ creating \in BOOLEAN
  /\ threads \subseteq Threads /\ starting \subseteq Threads
  /\ selected \in Keys
  /\ \A k \in Keys : ToSet(drafts[k]) \subseteq 1 .. typed
  /\ ToSet(composer) \subseteq 1 .. typed
  /\ active \in [Threads -> Turns \cup {NoTurn}]
  /\ has \cap archived = {} /\ heard \subseteq has

(* The places where text i waits to be sent or is being sent.  The draft   *)
(* of the selected thread is in the composer.                              *)
Places(i) ==
  {<<"draft", k>> : k \in {k \in Keys \ {selected} : i \in ToSet(drafts[k])}}
  \cup {<<"composer">> : x \in {i} \cap ToSet(composer)}
  \cup {<<"task", k>> : k \in {k \in Tasks : i \in ToSet(task[k].text)}}

(* What the user typed is never lost, and never in two places: until the   *)
(* server has taken it, it is in the composer, in the draft of one thread  *)
(* or in one send that is under way, whatever selections, failures and     *)
(* lost connections happen around it (sendComposer, createThread,          *)
(* restoreDraft, selectedThreadID.didSet).                                 *)
TextKept ==
  \A i \in 1 .. typed : /\ Cardinality(Places(i)) <= 1
                        /\ i \in accepted \/ Places(i) # {}

(* A turn shown as running runs, or the notice of its end is on its way: a *)
(* late answer to turn/start or thread/resume cannot bring back a turn     *)
(* that the app saw complete (turnRevisions).                              *)
NoGhostTurn ==
  \A t \in Threads : active[t] # NoTurn =>
    \/ turn[t] = active[t]
    \/ \E i \in DOMAIN wire : wire[i] = Note("turn/completed", t, active[t], <<>>)

(* A timeline is true.  What it got from notifications stays: neither the  *)
(* snapshot of a resume that began earlier (timelineRevisions) nor the end *)
(* of createThread erases it; only archiving does, and a failed send its   *)
(* own prompt.  And a prompt shown is being sent, or the server took it.   *)
TimelineSound ==
  \A t \in Threads :
    /\ seen[t] \subseteq timeline[t]
    /\ \A p \in timeline[t] : p.kind = "prompt" =>
         \/ ToSet(p.text) \subseteq accepted
         \/ \E k \in Tasks : /\ task[k].op = "turn" /\ task[k].thread = t
                             /\ task[k].text = p.text

(* Timelines are true and the model's variables keep their types           *)
(* (CodexWorkspaceModel).                                                  *)
TimelineSafe == TypeOK /\ TimelineSound
=============================================================================
