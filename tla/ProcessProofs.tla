--------------------------- MODULE ProcessProofs ---------------------------
(***************************************************************************)
(* Tasks and thread groups, for any number of pids and any guests: no      *)
(* pointer outlives what it points to, a group is a zombie exactly when    *)
(* it has no thread left, and nobody sleeps for an exit that has happened. *)
(*                                                                         *)
(* Process groups, sessions and the controlling terminal, for any finite   *)
(* table of pids: the lists in the pid table, what each process believes   *)
(* and the references of the terminal agree.                               *)
(*                                                                         *)
(* Tracing, for any number of stops: requests never reach a child that     *)
(* runs, a child that was continued wakes, and a tracer that handles       *)
(* SIGCHLD is told of every stop it waits for.                             *)
(*                                                                         *)
(* kill for any finite table of tasks: what a call answers is what it did, *)
(* and pids_lock has one holder, for groups that last.                     *)
(***************************************************************************)
EXTENDS Process, Groups, Ptrace, Kill, Induction, FiniteSetTheorems, SequenceTheorems, TLAPS

Pid0 == Pid \cup {NoTask}
Sent == {"KILL", "TSTP"}
Places == {"none", "new", "user", "signals", "stopped", "clone", "vfork", "wait",
           "exit", "dead"}
CloneRec == [child : Pid0, thread : BOOLEAN, vfork : BOOLEAN]

(* TypeOK, the queues apart.                                               *)
Shapes ==
  /\ guest \in Guests /\ at \in [Pid -> Places]
  /\ leader \in [Pid -> Pid0] /\ parent \in [Pid -> Pid0] /\ want \in [Pid -> Pid0]
  /\ new \in [Pid -> CloneRec]
  /\ code \in [Pid -> Codes] /\ meant \in [Pid -> Codes]
  /\ asleep \subseteq Pid /\ stopped \subseteq Pid /\ doing \subseteq Pid
  /\ zombie \subseteq Pid /\ inherited \subseteq Pid /\ released \subseteq Pid
  /\ pdeath \subseteq Pid /\ halt \in 0..4

Once(q) == \A i, j \in DOMAIN q : q[i] = q[j] => i = j
Queues == sigs \in [Pid -> Seq(Sent)] /\ \A p \in Pid : Once(sigs[p])

(* Init is never freed or a zombie and has no parent.                      *)
Root == Exists(1) /\ leader[1] = 1 /\ parent[1] = NoTask /\ 1 \notin zombie

(* FamilySound, with the range of its pointers: the leader leads itself,   *)
(* and a parent was joined to its group and is not exiting unless it is    *)
(* init.                                                                   *)
Led(p) == leader[p] \in Pid /\ Exists(leader[p]) /\ leader[leader[p]] = leader[p]
Raised(p) ==
  IF parent[p] = NoTask THEN p = 1
  ELSE at[parent[p]] \notin {"none", "new"} /\ (Exiting(parent[p]) => parent[p] = 1)
Family == \A p \in Pid : Exists(p) => Led(p) /\ Raised(p)

(* A leader's parent is of another group, a thread's of its own.           *)
Generations ==
  \A p \in Pid : Exists(p) /\ parent[p] # NoTask =>
    (leader[parent[p]] = leader[p] <=> leader[p] # p)

(* A task that clone makes has its maker for parent, and belongs to a      *)
(* group that it does not lead.                                            *)
Creating ==
  /\ \A p \in Pid : at[p] = "clone" =>
       /\ new[p].child \in Pid /\ at[new[p].child] = "new"
       /\ parent[new[p].child] = p /\ leader[new[p].child] = leader[p]
  /\ \A q \in Pid : at[q] = "new" =>
       /\ parent[q] # NoTask /\ at[parent[q]] = "clone" /\ new[parent[q]].child = q
       /\ leader[q] # q

(* Only init's group, when it dies, leaves threads that are not freed.     *)
Remains == \A p \in Pid : Exiting(p) /\ leader[p] # p => leader[p] = 1

(* A zombie is a leader that has exited.                                   *)
Zombies == \A g \in zombie : Exiting(g) /\ leader[g] = g

(* A vfork parent that was not let go has a child that runs.               *)
Vforks ==
  \A p \in Pid : at[p] = "vfork" /\ p \notin released =>
    new[p].child \in Pid /\ at[new[p].child] \notin {"none", "new", "dead"}

Sleepers == \A p \in asleep : at[p] = "wait"

Tree == Root /\ Family /\ Generations /\ Creating /\ Remains /\ Zombies /\ ZombieExact
ProcessInv == Shapes /\ Queues /\ Tree /\ Vforks /\ Sleepers /\ NoMissedExit

---------------------------------------------------------------------------
(* Pids are numbers from 1; no task has the number 0.                      *)
LEMMA PidFacts ==
  /\ Pid \subseteq Nat /\ 1 \in Pid /\ NoTask \notin Pid /\ Pid0 = 0..MaxPid
  /\ \A g \in Guests : /\ \A id \in 0..g.pids : id \in Pid0
                       /\ g.pids \in Nat /\ g.signals \subseteq {"KILL", "TSTP", "CONT"}
<1>1. MaxPid \in Nat \ {0}
  BY ProcessAssumption
<1>2. ASSUME NEW g \in Guests
      PROVE  /\ \A id \in 0..g.pids : id \in Pid0
             /\ g.pids \in Nat /\ g.signals \subseteq {"KILL", "TSTP", "CONT"}
  <2>1. g.pids \in 1..MaxPid /\ g.signals \in SUBSET {"KILL", "TSTP", "CONT"}
    BY <1>2, ProcessAssumption
  <2> QED  BY <1>1, <2>1 DEF Pid0, Pid, NoTask
<1> QED  BY <1>1, <1>2 DEF Pid0, Pid, NoTask

(* The types say what TypeOK says.                                         *)
LEMMA TypesSafe == Shapes /\ Queues => TypeOK
<1>1. [Pid -> 0..MaxPid] = [Pid -> Pid0]
  BY PidFacts
<1>2. CloneRec = [child : 0..MaxPid, thread : BOOLEAN, vfork : BOOLEAN]
  BY PidFacts DEF CloneRec
<1> QED  BY <1>1, <1>2 DEF Shapes, Queues, Once, TypeOK, Places, Sent

(* The invariant says what the runs check.                                 *)
LEMMA InvSafe == ProcessInv => FamilySafe /\ EndIsSeen
<1> SUFFICES ASSUME ProcessInv PROVE FamilySafe /\ EndIsSeen
  OBVIOUS
<1> USE DEF ProcessInv
<1>1. TypeOK
  BY TypesSafe
<1>2. FamilySound
  BY DEF Tree, Family, Led, Raised, Exists, Exiting, FamilySound
<1>3. VforkEnds
  BY DEF Vforks, VforkEnds, Exists, Exiting
<1> QED  BY <1>1, <1>2, <1>3 DEF FamilySafe, EndIsSeen, Tree

(* At first there is init.                                                 *)
LEMMA InitInv == Init => ProcessInv
<1> SUFFICES ASSUME Init PROVE ProcessInv
  OBVIOUS
<1> USE PidFacts DEF Init
<1>1. Shapes
  <2>1. NoClone \in CloneRec
    BY DEF NoClone, CloneRec, Pid0
  <2> QED  BY <2>1 DEF Shapes, Pid0, Places, Codes, NoTask
<1>2. Queues
  BY DEF Queues, Once
<1>3. \A p \in Pid : Exists(p) <=> p = 1
  BY DEF Exists
<1>4. Tree
  <2>1. Root
    BY DEF Root, Exists
  <2>2. Family /\ Generations
    BY <1>3 DEF Family, Led, Raised, Generations
  <2>3. Creating /\ Remains /\ Zombies
    BY DEF Creating, Remains, Zombies, Exiting
  <2>4. ZombieExact
    <3>1. 1 \in Threads(1)
      BY DEF Threads
    <3> QED  BY <1>3, <3>1 DEF ZombieExact
  <2> QED  BY <2>1, <2>2, <2>3, <2>4 DEF Tree
<1>5. Vforks /\ Sleepers /\ NoMissedExit
  BY DEF Vforks, Sleepers, NoMissedExit
<1> QED  BY <1>1, <1>2, <1>4, <1>5 DEF ProcessInv

---------------------------------------------------------------------------
(* A signal that is queued already is not queued again.                    *)
LEMMA QueueKeeps ==
  ASSUME Queues, NEW p \in Pid, NEW sig \in Sent
  PROVE  Queue(p, sig) \in Seq(Sent) /\ Once(Queue(p, sig))
<1> DEFINE s == sigs[p]
<1>1. s \in Seq(Sent) /\ Once(s)
  BY DEF Queues
<1>2. CASE Has(p, sig)
  BY <1>1, <1>2 DEF Queue
<1>3. CASE ~Has(p, sig)
  <2>1. Queue(p, sig) = Append(s, sig)
    BY <1>3 DEF Queue
  <2>2. \A i \in 1..Len(s) : s[i] # sig
    BY <1>1, <1>3 DEF Has
  <2> HIDE DEF s
  <2>3. Append(s, sig) \in Seq(Sent) /\ Once(Append(s, sig))
    BY <1>1, <2>2 DEF Once
  <2> QED  BY <2>1, <2>3
<1> QED  BY <1>2, <1>3

(* Nor is one that is delivered to several tasks.                          *)
LEMMA DeliverKeeps ==
  ASSUME Queues, NEW to, NEW sig \in Sent, Deliver(to, sig)
  PROVE  Queues'
<1>1. sigs' = [p \in Pid |-> IF p \in to THEN Queue(p, sig) ELSE sigs[p]]
  BY DEF Deliver
<1>2. \A p \in Pid : sigs'[p] \in Seq(Sent) /\ Once(sigs'[p])
  BY <1>1, QueueKeeps DEF Queues
<1> QED  BY <1>1, <1>2 DEF Queues

(* The queue of a task that starts or ends is empty.                       *)
LEMMA EmptyKeeps == Once(<<>>) /\ <<>> \in Seq(Sent)
BY DEF Once

(* Taking the first signal leaves the others queued once.                  *)
LEMMA TailKeeps ==
  ASSUME Queues, NEW p \in Pid, sigs[p] # <<>>
  PROVE  Tail(sigs[p]) \in Seq(Sent) /\ Once(Tail(sigs[p]))
<1> DEFINE s == sigs[p]
<1>1. s \in Seq(Sent) /\ Once(s) /\ s # <<>>
  BY DEF Queues
<1> HIDE DEF s
<1>2. Tail(s) \in Seq(Sent) /\ Len(Tail(s)) = Len(s) - 1 /\ \A i \in 1..Len(Tail(s)) : Tail(s)[i] = s[i + 1]
  BY <1>1, HeadTailProperties
<1>3. Once(Tail(s))
  BY <1>1, <1>2 DEF Once
<1> QED  BY <1>2, <1>3 DEF s

---------------------------------------------------------------------------
(* Who runs, outside of clone, and stays on the list of a group.           *)
Running == {"user", "signals", "stopped", "vfork", "wait", "exit"}

(* A step in which tasks only go from one place to another.                *)
Moves ==
  /\ UNCHANGED <<leader, parent, zombie>> /\ (halt' > 0 <=> halt > 0)
  /\ \A p \in Pid : /\ at'[p] = at[p] \/ (at[p] \in Running /\ at'[p] \in Running)
                    /\ at[p] = "clone" => new'[p] = new[p]

(* Then the families stay as they are.                                     *)
LEMMA MovesTree ==
  ASSUME Shapes, Tree, Moves
  PROVE  Tree' /\ (\A g \in Pid : Threads(g)' = Threads(g))
<1> USE PidFacts
<1>1. /\ leader' = leader /\ parent' = parent /\ zombie' = zombie
      /\ \A p \in Pid : /\ (at'[p] = "none" <=> at[p] = "none") /\ (at'[p] = "new" <=> at[p] = "new")
                        /\ (at'[p] = "dead" <=> at[p] = "dead")
                        /\ (at'[p] = "clone" <=> at[p] = "clone")
                        /\ (at[p] = "clone" => new'[p] = new[p])
  BY DEF Moves, Running
<1>2. \A p \in Pid : (Exists(p)' <=> Exists(p)) /\ (Exiting(p)' <=> Exiting(p))
  BY <1>1 DEF Exists, Exiting
<1>3. \A g \in Pid : Threads(g)' = Threads(g)
  BY <1>1 DEF Threads
<1>4. \A p \in Pid : leader[p] \in Pid0 /\ parent[p] \in Pid0
  BY DEF Shapes
<1>5. Root'
  BY <1>1, <1>2 DEF Tree, Root
<1>6. Family'
  <2> SUFFICES ASSUME NEW p \in Pid, Exists(p) PROVE Led(p)' /\ Raised(p)'
    BY <1>2 DEF Family
  <2>1. Led(p) /\ Raised(p)
    BY DEF Tree, Family
  <2>2. Led(p)'
    BY <1>1, <1>2, <2>1 DEF Led
  <2>3. Raised(p)'
    BY <1>1, <1>2, <1>4, <2>1 DEF Raised, Pid0
  <2> QED  BY <2>2, <2>3
<1>7. Generations'
  BY <1>1, <1>2 DEF Tree, Generations
<1>8. Creating'
  <2>1. ASSUME NEW p \in Pid, at'[p] = "clone"
        PROVE  new'[p].child \in Pid /\ at'[new'[p].child] = "new"
               /\ parent'[new'[p].child] = p /\ leader'[new'[p].child] = leader'[p]
    <3>1. at[p] = "clone" /\ new'[p] = new[p]
      BY <1>1, <2>1
    <3>2. /\ new[p].child \in Pid /\ at[new[p].child] = "new"
          /\ parent[new[p].child] = p /\ leader[new[p].child] = leader[p]
      BY <3>1 DEF Tree, Creating
    <3> QED  BY <1>1, <3>1, <3>2
  <2>2. ASSUME NEW q \in Pid, at'[q] = "new"
        PROVE  /\ parent'[q] # NoTask /\ at'[parent'[q]] = "clone" /\ new'[parent'[q]].child = q
               /\ leader'[q] # q
    BY <1>1, <1>4, <2>2 DEF Tree, Creating, Pid0
  <2> QED  BY <2>1, <2>2 DEF Creating
<1>9. Remains' /\ Zombies'
  <2>1. \A g \in zombie : g \in Pid
    BY DEF Shapes
  <2> QED  BY <1>1, <1>2, <2>1 DEF Tree, Remains, Zombies
<1>10. ZombieExact'
  BY <1>1, <1>2, <1>3 DEF Tree, ZombieExact, Moves
<1> QED  BY <1>3, <1>5, <1>6, <1>7, <1>8, <1>9, <1>10 DEF Tree

---------------------------------------------------------------------------
(* Nothing that exists points to a pid that is free.                       *)
LEMMA FreePid ==
  ASSUME Shapes, Tree, NEW q \in Pid, ~Exists(q), NEW x \in Pid, Exists(x)
  PROVE  x # q /\ leader[x] # q /\ parent[x] # q
<1>1. Led(x) /\ Raised(x)
  BY DEF Tree, Family
<1> QED  BY <1>1, PidFacts DEF Led, Raised, Exists

(* sys_clone makes a task that is on no list but its parent's.             *)
LEMMA CloneTree ==
  ASSUME Shapes, Tree, NEW p \in Pid, NEW q \in Pid, NEW thread \in BOOLEAN, NEW vfork \in BOOLEAN,
         Clone(p, q, thread, vfork)
  PROVE  Tree' /\ (\A g \in Pid : Threads(g)' = Threads(g))
<1> USE PidFacts
<1>1. /\ at[p] = "user" /\ at[q] = "none" /\ p # q
      /\ at'[p] = "clone" /\ at'[q] = "new" /\ leader'[q] = leader[p] /\ parent'[q] = p
      /\ new'[p].child = q /\ zombie' = zombie /\ halt' = halt
      /\ \A x \in Pid : x # p /\ x # q => at'[x] = at[x]
      /\ \A x \in Pid : x # q => leader'[x] = leader[x] /\ parent'[x] = parent[x]
      /\ \A x \in Pid : x # p => new'[x] = new[x]
  BY DEF Clone, Shapes, Exists
<1>2. \A x \in Pid : Exists(x) => x # q /\ leader[x] # q /\ parent[x] # q
  BY <1>1, FreePid DEF Exists
<1>3. \A x \in Pid : Exists(x)' <=> Exists(x) \/ x = q
  BY <1>1 DEF Exists
<1>4. \A x \in Pid : (Exiting(x)' <=> Exiting(x)) /\ (Exiting(x) => Exists(x))
  BY <1>1 DEF Exists, Exiting
<1>5. \A x \in Pid : leader[x] \in Pid0 /\ parent[x] \in Pid0
  BY DEF Shapes
<1>6. Exists(p) /\ Led(p) /\ ~Exiting(p) /\ leader[p] # q
  BY <1>1, <1>2 DEF Exists, Exiting, Tree, Family
<1>7. Root'
  BY <1>1, <1>2, <1>3 DEF Tree, Root
<1>8. Family'
  <2> SUFFICES ASSUME NEW x \in Pid, Exists(x) \/ x = q PROVE Led(x)' /\ Raised(x)'
    BY <1>3 DEF Family
  <2>1. CASE x = q
    BY <1>1, <1>3, <1>4, <1>6, <2>1 DEF Led, Raised
  <2>2. CASE Exists(x)
    <3>1. Led(x) /\ Raised(x) /\ x # q /\ leader[x] # q /\ parent[x] # q
      BY <1>2, <2>2 DEF Tree, Family
    <3>2. leader'[x] = leader[x] /\ parent'[x] = parent[x]
      BY <1>1, <3>1
    <3>3. Led(x)'
      BY <1>1, <1>3, <3>1, <3>2 DEF Led
    <3>4. Raised(x)'
      BY <1>1, <1>4, <1>5, <3>1, <3>2 DEF Raised, Pid0
    <3> QED  BY <3>3, <3>4
  <2> QED  BY <2>1, <2>2
<1>9. Generations'
  <2> SUFFICES ASSUME NEW x \in Pid, Exists(x) \/ x = q, parent'[x] # NoTask
               PROVE  leader'[parent'[x]] = leader'[x] <=> leader'[x] # x
    BY <1>3 DEF Generations
  <2>1. CASE x = q
    BY <1>1, <1>6, <2>1 DEF Led
  <2>2. CASE Exists(x)
    <3>1. leader[parent[x]] = leader[x] <=> leader[x] # x
      BY <1>1, <1>2, <2>2 DEF Tree, Generations
    <3>2. parent[x] \in Pid /\ parent[x] # q /\ x # q
      BY <1>1, <1>2, <1>5, <2>2 DEF Pid0
    <3> QED  BY <1>1, <3>1, <3>2
  <2> QED  BY <2>1, <2>2
<1>10. Creating'
  <2>1. ASSUME NEW x \in Pid, at'[x] = "clone"
        PROVE  /\ new'[x].child \in Pid /\ at'[new'[x].child] = "new"
               /\ parent'[new'[x].child] = x /\ leader'[new'[x].child] = leader'[x]
    <3>1. CASE x = p
      BY <1>1, <3>1
    <3>2. CASE x # p
      <4>1. at[x] = "clone" /\ x # q /\ new'[x] = new[x]
        BY <1>1, <2>1, <3>2
      <4>2. /\ new[x].child \in Pid /\ at[new[x].child] = "new"
            /\ parent[new[x].child] = x /\ leader[new[x].child] = leader[x]
        BY <4>1 DEF Tree, Creating
      <4>3. new[x].child # p /\ new[x].child # q
        BY <1>1, <4>2
      <4>4. /\ at'[new[x].child] = at[new[x].child] /\ parent'[new[x].child] = parent[new[x].child]
            /\ leader'[new[x].child] = leader[new[x].child] /\ leader'[x] = leader[x]
        BY <1>1, <4>1, <4>2, <4>3
      <4> QED  BY <4>1, <4>2, <4>4
    <3> QED  BY <3>1, <3>2
  <2>2. ASSUME NEW x \in Pid, at'[x] = "new"
        PROVE  /\ parent'[x] # NoTask /\ at'[parent'[x]] = "clone" /\ new'[parent'[x]].child = x
               /\ leader'[x] # x
    <3>1. CASE x = q
      BY <1>1, <1>6, <3>1
    <3>2. CASE x # q
      <4>1. at[x] = "new" /\ Exists(x)
        BY <1>1, <2>2, <3>2 DEF Exists
      <4>2. /\ parent[x] \in Pid /\ at[parent[x]] = "clone" /\ new[parent[x]].child = x
            /\ leader[x] # x
        BY <1>5, <4>1 DEF Tree, Creating, Pid0
      <4>3. parent[x] # p /\ parent[x] # q /\ x # p
        BY <1>1, <4>1, <4>2
      <4>4. /\ parent'[x] = parent[x] /\ leader'[x] = leader[x] /\ at'[parent[x]] = at[parent[x]]
            /\ new'[parent[x]] = new[parent[x]] /\ parent[x] # NoTask
        BY <1>1, <3>2, <4>2, <4>3
      <4> QED  BY <4>2, <4>4
    <3> QED  BY <3>1, <3>2
  <2> QED  BY <2>1, <2>2 DEF Creating
<1>11. Remains' /\ Zombies'
  <2>1. \A g \in zombie : g \in Pid
    BY DEF Shapes
  <2>2. \A x \in Pid : Exiting(x) => x # q /\ leader'[x] = leader[x]
    BY <1>1, <1>2, <1>4
  <2> QED  BY Zenon, <1>1, <1>4, <2>1, <2>2 DEF Tree, Remains, Zombies
<1>12. \A g \in Pid : Threads(g)' = Threads(g)
  <2>1. \A x \in Pid : at[x] \notin {"none", "new", "dead"} <=> at'[x] \notin {"none", "new", "dead"}
    BY <1>1
  <2>2. \A x \in Pid : at[x] \notin {"none", "new", "dead"} => leader'[x] = leader[x]
    BY <1>1
  <2> QED  BY <2>1, <2>2 DEF Threads
<1>13. ZombieExact'
  <2> SUFFICES ASSUME NEW g \in Pid, Exists(g)', leader'[g] = g
               PROVE  g \in zombie <=> Threads(g) = {} /\ ~(g = 1 /\ halt > 0)
    BY <1>1, <1>12 DEF ZombieExact
  <2>1. Exists(g) /\ leader[g] = g
    BY <1>1, <1>3, <1>6
  <2> QED  BY <2>1 DEF Tree, ZombieExact
<1> QED  BY <1>7, <1>8, <1>9, <1>10, <1>11, <1>12, <1>13 DEF Tree

(* What clone is about to join, or to give up.                             *)
LEMMA Made ==
  ASSUME Shapes, Tree, NEW p \in Pid, at[p] = "clone", NEW q, q = new[p].child
  PROVE  /\ q \in Pid /\ at[q] = "new" /\ parent[q] = p /\ leader[q] = leader[p] /\ p # q
         /\ Exists(p) /\ Exists(q) /\ leader[p] \in Pid /\ Exists(leader[p]) /\ leader[p] # q
         /\ leader[leader[p]] = leader[p] /\ p \in Threads(leader[p])
         /\ \A x \in Pid : Exists(x) => leader[x] # q /\ parent[x] # q
<1>1. /\ q \in Pid /\ at[q] = "new" /\ parent[q] = p /\ leader[q] = leader[p]
  BY DEF Tree, Creating
<1>2. p # q /\ Exists(p) /\ Exists(q)
  BY <1>1 DEF Exists
<1>3. leader[p] \in Pid /\ Exists(leader[p]) /\ leader[leader[p]] = leader[p]
  BY <1>2 DEF Tree, Family, Led
<1>4. leader[q] # q
  BY <1>1 DEF Tree, Creating
<1>5. p \in Threads(leader[p])
  BY DEF Threads
<1>6. ASSUME NEW x \in Pid, Exists(x) PROVE leader[x] # q /\ parent[x] # q
  <2>1. Led(x) /\ Raised(x)
    BY <1>6 DEF Tree, Family
  <2> QED  BY <1>1, <1>4, <2>1, PidFacts DEF Led, Raised
<1> QED  BY <1>1, <1>2, <1>3, <1>4, <1>5, <1>6

(* The rest of clone: the task is on the list of its parent's group, or    *)
(* of its own.                                                             *)
LEMMA CloneJoinTree ==
  ASSUME Shapes, Tree, NEW p \in Pid, CloneJoin(p)
  PROVE  Tree'
<1> USE PidFacts
<1> DEFINE q == new[p].child
<1>1. at[p] = "clone"
  BY DEF CloneJoin
<1>2. /\ q \in Pid /\ at[q] = "new" /\ parent[q] = p /\ leader[q] = leader[p] /\ p # q
      /\ Exists(p) /\ Exists(q) /\ leader[p] \in Pid /\ Exists(leader[p]) /\ leader[p] # q
      /\ leader[leader[p]] = leader[p] /\ p \in Threads(leader[p])
      /\ \A x \in Pid : Exists(x) => leader[x] # q /\ parent[x] # q
  BY <1>1, Made
<1>3. /\ at'[p] \in {"user", "vfork"} /\ at'[q] = "user" /\ leader'[q] \in {q, leader[p]}
      /\ parent' = parent /\ zombie' = zombie /\ halt' = halt
      /\ \A x \in Pid : x # p /\ x # q => at'[x] = at[x]
      /\ \A x \in Pid : x # q => leader'[x] = leader[x]
      /\ \A x \in Pid : x # p => new'[x] = new[x]
  BY <1>2 DEF CloneJoin, Shapes
<1> HIDE DEF q
<1>4. \A x \in Pid : (Exists(x)' <=> Exists(x)) /\ (Exiting(x)' <=> Exiting(x))
  BY <1>1, <1>2, <1>3 DEF Exists, Exiting
<1>5. \A x \in Pid : leader[x] \in Pid0 /\ parent[x] \in Pid0
  BY DEF Shapes
<1>6. Root'
  BY <1>2, <1>3, <1>4 DEF Tree, Root, NoTask
<1>7. Family'
  <2> SUFFICES ASSUME NEW x \in Pid, Exists(x) PROVE Led(x)' /\ Raised(x)'
    BY <1>4 DEF Family
  <2>1. Led(x) /\ Raised(x) /\ leader[x] # q /\ parent[x] # q
    BY <1>2 DEF Tree, Family
  <2>2. Led(x)'
    <3>1. leader'[x] = leader[x] \/ (x = q /\ leader'[x] \in {q, leader[p]})
      BY <1>3
    <3>2. leader'[x] \in Pid /\ Exists(leader'[x])
      BY <1>2, <2>1, <3>1 DEF Led
    <3>3. leader'[leader'[x]] = leader'[x]
      BY <1>2, <1>3, <2>1, <3>1 DEF Led
    <3>4. Exists(leader[x])'
      BY <1>4, <3>2 DEF Exists
    <3> QED  BY <3>2, <3>3, <3>4 DEF Led
  <2>3. Raised(x)'
    BY <1>1, <1>2, <1>3, <1>4, <1>5, <2>1 DEF Raised, Pid0
  <2> QED  BY <2>2, <2>3
<1>8. Generations'
  <2> SUFFICES ASSUME NEW x \in Pid, Exists(x), parent[x] # NoTask
               PROVE  leader'[parent[x]] = leader'[x] <=> leader'[x] # x
    BY <1>3, <1>4 DEF Generations
  <2>1. leader[parent[x]] = leader[x] <=> leader[x] # x
    BY DEF Tree, Generations
  <2>2. parent[x] \in Pid /\ parent[x] # q
    BY <1>2, <1>5 DEF Pid0
  <2>3. CASE x = q
    BY <1>2, <1>3, <2>3
  <2>4. CASE x # q
    BY <1>3, <2>1, <2>2, <2>4
  <2> QED  BY <2>3, <2>4
<1>9. Creating'
  <2>1. ASSUME NEW x \in Pid, at'[x] = "clone"
        PROVE  /\ new'[x].child \in Pid /\ at'[new'[x].child] = "new"
               /\ parent'[new'[x].child] = x /\ leader'[new'[x].child] = leader'[x]
    <3>1. at[x] = "clone" /\ x # p /\ x # q /\ new'[x] = new[x]
      BY <1>3, <2>1
    <3>2. /\ new[x].child \in Pid /\ at[new[x].child] = "new"
          /\ parent[new[x].child] = x /\ leader[new[x].child] = leader[x]
      BY <3>1 DEF Tree, Creating
    <3>3. new[x].child # q /\ new[x].child # p
      BY <1>1, <1>2, <3>1, <3>2
    <3>4. /\ at'[new[x].child] = at[new[x].child] /\ parent'[new[x].child] = parent[new[x].child]
          /\ leader'[new[x].child] = leader[new[x].child] /\ leader'[x] = leader[x]
      BY <1>3, <3>1, <3>2, <3>3
    <3> QED  BY <3>1, <3>2, <3>4
  <2>2. ASSUME NEW x \in Pid, at'[x] = "new"
        PROVE  /\ parent'[x] # NoTask /\ at'[parent'[x]] = "clone" /\ new'[parent'[x]].child = x
               /\ leader'[x] # x
    <3>1. at[x] = "new" /\ x # p /\ x # q
      BY <1>3, <2>2
    <3>2. /\ parent[x] \in Pid /\ at[parent[x]] = "clone" /\ new[parent[x]].child = x
          /\ leader[x] # x
      BY <1>5, <3>1 DEF Tree, Creating, Pid0
    <3>3. parent[x] # p /\ parent[x] # q
      BY <1>2, <3>1, <3>2 DEF q
    <3> QED  BY <1>3, <3>1, <3>2, <3>3
  <2> QED  BY <2>1, <2>2 DEF Creating
<1>10. \A g \in zombie : g \in Pid /\ Exiting(g) /\ g # q /\ g # p
  BY <1>1, <1>2 DEF Shapes, Tree, Zombies, Exiting
<1>11. Remains' /\ Zombies'
  <2>1. \A x \in Pid : Exiting(x) => x # q
    BY <1>2 DEF Exiting
  <2> QED  BY <1>3, <1>4, <1>10, <2>1 DEF Tree, Remains, Zombies
<1>12. ZombieExact'
  <2> SUFFICES ASSUME NEW h \in Pid, Exists(h), leader'[h] = h
               PROVE  h \in zombie <=> Threads(h)' = {} /\ ~(h = 1 /\ halt > 0)
    BY <1>3, <1>4 DEF ZombieExact
  <2>1. CASE h = q
    <3>1. h \in Threads(h)'
      BY <1>3, <2>1 DEF Threads
    <3> QED  BY <1>10, <2>1, <3>1
  <2>2. CASE h # q
    <3>1. leader[h] = h
      BY <1>3, <2>2
    <3>2. Threads(h) \subseteq Threads(h)'
      BY <1>1, <1>2, <1>3 DEF Threads
    <3>3. \A x \in Threads(h)' : x \in Threads(h) \/ (x = q /\ h = leader[p])
      BY <1>1, <1>2, <1>3, <2>2 DEF Threads
    <3>4. Threads(h)' = {} <=> Threads(h) = {}
      BY <1>2, <3>2, <3>3
    <3> QED  BY <3>1, <3>4 DEF Tree, ZombieExact
  <2> QED  BY <2>1, <2>2
<1> QED  BY <1>6, <1>7, <1>8, <1>9, <1>11, <1>12 DEF Tree

(* A clone that fails leaves nothing behind.                               *)
LEMMA CloneFailsTree ==
  ASSUME Shapes, Tree, NEW p \in Pid, CloneFails(p)
  PROVE  Tree' /\ (\A g \in Pid : Threads(g)' = Threads(g))
<1> USE PidFacts
<1> DEFINE q == new[p].child
<1>1. at[p] = "clone"
  BY DEF CloneFails
<1>2. /\ q \in Pid /\ at[q] = "new" /\ parent[q] = p /\ leader[q] = leader[p] /\ p # q
      /\ Exists(p) /\ Exists(q) /\ leader[p] \in Pid /\ Exists(leader[p]) /\ leader[p] # q
      /\ leader[leader[p]] = leader[p] /\ p \in Threads(leader[p])
      /\ \A x \in Pid : Exists(x) => leader[x] # q /\ parent[x] # q
  BY <1>1, Made
<1>3. /\ at'[p] = "user" /\ at'[q] = "none" /\ zombie' = zombie /\ halt' = halt
      /\ \A x \in Pid : x # p /\ x # q => at'[x] = at[x]
      /\ \A x \in Pid : x # q => leader'[x] = leader[x] /\ parent'[x] = parent[x]
      /\ \A x \in Pid : x # p => new'[x] = new[x]
  BY <1>2 DEF CloneFails, Shapes
<1> HIDE DEF q
<1>4. \A x \in Pid : (Exists(x)' <=> Exists(x) /\ x # q) /\ (Exiting(x)' <=> Exiting(x))
  BY <1>1, <1>2, <1>3 DEF Exists, Exiting
<1>5. \A x \in Pid : leader[x] \in Pid0 /\ parent[x] \in Pid0
  BY DEF Shapes
<1>6. Root'
  BY <1>2, <1>3, <1>4 DEF Tree, Root, NoTask
<1>7. Family'
  <2> SUFFICES ASSUME NEW x \in Pid, Exists(x), x # q PROVE Led(x)' /\ Raised(x)'
    BY <1>4 DEF Family
  <2>1. Led(x) /\ Raised(x) /\ leader[x] # q /\ parent[x] # q
    BY <1>2 DEF Tree, Family
  <2>2. Led(x)'
    BY <1>2, <1>3, <1>4, <2>1 DEF Led
  <2>3. Raised(x)'
    BY <1>1, <1>2, <1>3, <1>4, <1>5, <2>1 DEF Raised, Pid0
  <2> QED  BY <2>2, <2>3
<1>8. Generations'
  <2> SUFFICES ASSUME NEW x \in Pid, Exists(x), x # q, parent[x] # NoTask
               PROVE  leader'[parent[x]] = leader'[x] <=> leader'[x] # x
    BY <1>3, <1>4 DEF Generations
  <2>1. leader[parent[x]] = leader[x] <=> leader[x] # x
    BY DEF Tree, Generations
  <2>2. parent[x] \in Pid /\ parent[x] # q
    BY <1>2, <1>5 DEF Pid0
  <2> QED  BY <1>3, <2>1, <2>2
<1>9. Creating'
  <2>1. ASSUME NEW x \in Pid, at'[x] = "clone"
        PROVE  /\ new'[x].child \in Pid /\ at'[new'[x].child] = "new"
               /\ parent'[new'[x].child] = x /\ leader'[new'[x].child] = leader'[x]
    <3>1. at[x] = "clone" /\ x # p /\ x # q /\ new'[x] = new[x]
      BY <1>3, <2>1
    <3>2. /\ new[x].child \in Pid /\ at[new[x].child] = "new"
          /\ parent[new[x].child] = x /\ leader[new[x].child] = leader[x]
      BY <3>1 DEF Tree, Creating
    <3>3. new[x].child # q /\ new[x].child # p
      BY <1>1, <1>2, <3>1, <3>2
    <3>4. /\ at'[new[x].child] = at[new[x].child] /\ parent'[new[x].child] = parent[new[x].child]
          /\ leader'[new[x].child] = leader[new[x].child] /\ leader'[x] = leader[x]
      BY <1>3, <3>1, <3>2, <3>3
    <3> QED  BY <3>1, <3>2, <3>4
  <2>2. ASSUME NEW x \in Pid, at'[x] = "new"
        PROVE  /\ parent'[x] # NoTask /\ at'[parent'[x]] = "clone" /\ new'[parent'[x]].child = x
               /\ leader'[x] # x
    <3>1. at[x] = "new" /\ x # p /\ x # q
      BY <1>3, <2>2
    <3>2. /\ parent[x] \in Pid /\ at[parent[x]] = "clone" /\ new[parent[x]].child = x
          /\ leader[x] # x
      BY <1>5, <3>1 DEF Tree, Creating, Pid0
    <3>3. parent[x] # p /\ parent[x] # q
      BY <1>2, <3>1, <3>2 DEF q
    <3>4. /\ parent'[x] = parent[x] /\ leader'[x] = leader[x] /\ at'[parent[x]] = at[parent[x]]
          /\ new'[parent[x]] = new[parent[x]] /\ parent[x] # NoTask
      BY <1>3, <3>1, <3>2, <3>3
    <3> QED  BY <3>2, <3>4
  <2> QED  BY <2>1, <2>2 DEF Creating
<1>10. Remains' /\ Zombies'
  <2>1. \A x \in Pid : Exiting(x) => x # q
    BY <1>2 DEF Exiting
  <2>2. \A g \in zombie : g \in Pid
    BY DEF Shapes
  <2> QED  BY <1>3, <1>4, <2>1, <2>2 DEF Tree, Remains, Zombies
<1>11. \A g \in Pid : Threads(g)' = Threads(g)
  <2>1. \A x \in Pid : at[x] \notin {"none", "new", "dead"} <=> at'[x] \notin {"none", "new", "dead"}
    BY <1>1, <1>2, <1>3
  <2>2. \A x \in Pid : at[x] \notin {"none", "new", "dead"} => leader'[x] = leader[x]
    BY <1>2, <1>3
  <2> QED  BY <2>1, <2>2 DEF Threads
<1>12. ZombieExact'
  BY <1>3, <1>4, <1>11 DEF Tree, ZombieExact
<1> QED  BY <1>6, <1>7, <1>8, <1>9, <1>10, <1>11, <1>12 DEF Tree

(* Nothing points to a zombie's task but the zombie itself.                *)
LEMMA DeadGroup ==
  ASSUME Shapes, Tree, NEW q \in Pid, Exists(q), leader[q] = q, q \in zombie
  PROVE  /\ at[q] = "dead" /\ q # 1
         /\ \A x \in Pid : Exists(x) => parent[x] # q /\ (leader[x] = q => x = q)
<1> USE PidFacts
<1>1. at[q] = "dead" /\ q # 1 /\ Threads(q) = {}
  BY DEF Tree, Zombies, Exiting, Root, ZombieExact
<1>2. ASSUME NEW x \in Pid, Exists(x) PROVE parent[x] # q
  <2>1. Raised(x)
    BY <1>2 DEF Tree, Family
  <2> QED  BY <1>1, <2>1 DEF Raised, Exiting
<1>3. ASSUME NEW x \in Pid, Exists(x), leader[x] = q, x # q PROVE FALSE
  <2>1. at[x] \in {"new", "dead"}
    BY <1>1, <1>3 DEF Exists, Threads
  <2>2. CASE at[x] = "new"
    <3>1. parent[x] \in Pid /\ at[parent[x]] = "clone" /\ new[parent[x]].child = x
      BY <2>2 DEF Tree, Creating, Shapes, Pid0
    <3>2. leader[new[parent[x]].child] = leader[parent[x]]
      BY Zenon, <3>1 DEF Tree, Creating
    <3>3. parent[x] \in Threads(q)
      BY <1>3, <3>1, <3>2 DEF Threads
    <3> QED  BY <1>1, <3>3
  <2>3. CASE at[x] = "dead"
    BY <1>1, <1>3, <2>3 DEF Tree, Remains, Exiting
  <2> QED  BY <2>1, <2>2, <2>3
<1> QED  BY <1>1, <1>2, <1>3

(* wait frees a group and its leader's task.                               *)
LEMMA ReapTree ==
  ASSUME Shapes, Tree, NEW p \in Pid, NEW q \in Pid, at[p] \in {"user", "wait"},
         Exists(q), leader[q] = q, Reap(p, q)
  PROVE  Tree' /\ (\A g \in Pid : g # q => Threads(g)' = Threads(g))
<1> USE PidFacts
<1>1. q \in zombie
  BY DEF Reap
<1>2. /\ at[q] = "dead" /\ q # 1 /\ p # q
      /\ \A x \in Pid : Exists(x) => parent[x] # q /\ (leader[x] = q => x = q)
  BY <1>1, DeadGroup
<1>3. /\ at'[p] = "user" /\ at'[q] = "none" /\ zombie' = zombie \ {q} /\ halt' = halt
      /\ \A x \in Pid : x # p /\ x # q => at'[x] = at[x]
      /\ \A x \in Pid : x # q => leader'[x] = leader[x] /\ parent'[x] = parent[x]
      /\ new' = new
  BY <1>2 DEF Reap, Shapes
<1>4. \A x \in Pid : (Exists(x)' <=> Exists(x) /\ x # q) /\ (Exiting(x)' <=> Exiting(x) /\ x # q)
  BY <1>2, <1>3 DEF Exists, Exiting
<1>5. \A x \in Pid : leader[x] \in Pid0 /\ parent[x] \in Pid0
  BY DEF Shapes
<1>6. Root'
  BY <1>2, <1>3, <1>4 DEF Tree, Root, NoTask
<1>7. Family'
  <2> SUFFICES ASSUME NEW x \in Pid, Exists(x), x # q PROVE Led(x)' /\ Raised(x)'
    BY <1>4 DEF Family
  <2>1. Led(x) /\ Raised(x) /\ leader[x] # q /\ parent[x] # q
    BY <1>2 DEF Tree, Family
  <2>2. Led(x)'
    BY <1>3, <1>4, <2>1 DEF Led
  <2>3. Raised(x)'
    BY <1>2, <1>3, <1>4, <1>5, <2>1 DEF Raised, Pid0
  <2> QED  BY <2>2, <2>3
<1>8. Generations'
  <2> SUFFICES ASSUME NEW x \in Pid, Exists(x), x # q, parent[x] # NoTask
               PROVE  leader'[parent[x]] = leader'[x] <=> leader'[x] # x
    BY <1>3, <1>4 DEF Generations
  <2>1. leader[parent[x]] = leader[x] <=> leader[x] # x
    BY DEF Tree, Generations
  <2>2. parent[x] \in Pid /\ parent[x] # q
    BY <1>2, <1>5 DEF Pid0
  <2> QED  BY <1>3, <2>1, <2>2
<1>9. Creating'
  <2>1. ASSUME NEW x \in Pid, at'[x] = "clone"
        PROVE  /\ new'[x].child \in Pid /\ at'[new'[x].child] = "new"
               /\ parent'[new'[x].child] = x /\ leader'[new'[x].child] = leader'[x]
    <3>1. at[x] = "clone" /\ x # p /\ x # q /\ new'[x] = new[x]
      BY <1>3, <2>1
    <3>2. /\ new[x].child \in Pid /\ at[new[x].child] = "new"
          /\ parent[new[x].child] = x /\ leader[new[x].child] = leader[x]
      BY <3>1 DEF Tree, Creating
    <3>3. new[x].child # q /\ new[x].child # p
      BY <1>2, <3>2
    <3>4. /\ at'[new[x].child] = at[new[x].child] /\ parent'[new[x].child] = parent[new[x].child]
          /\ leader'[new[x].child] = leader[new[x].child] /\ leader'[x] = leader[x]
      BY <1>3, <3>1, <3>2, <3>3
    <3> QED  BY <3>1, <3>2, <3>4
  <2>2. ASSUME NEW x \in Pid, at'[x] = "new"
        PROVE  /\ parent'[x] # NoTask /\ at'[parent'[x]] = "clone" /\ new'[parent'[x]].child = x
               /\ leader'[x] # x
    <3>1. at[x] = "new" /\ x # p /\ x # q
      BY <1>3, <2>2
    <3>2. /\ parent[x] \in Pid /\ at[parent[x]] = "clone" /\ new[parent[x]].child = x
          /\ leader[x] # x
      BY <1>5, <3>1 DEF Tree, Creating, Pid0
    <3>3. parent[x] # p /\ parent[x] # q
      BY <1>2, <3>1, <3>2
    <3>4. /\ parent'[x] = parent[x] /\ leader'[x] = leader[x] /\ at'[parent[x]] = at[parent[x]]
          /\ new'[parent[x]] = new[parent[x]] /\ parent[x] # NoTask
      BY <1>3, <3>1, <3>2, <3>3
    <3> QED  BY <3>2, <3>4
  <2> QED  BY <2>1, <2>2 DEF Creating
<1>10. Remains' /\ Zombies'
  <2>1. \A g \in zombie : g \in Pid
    BY DEF Shapes
  <2> QED  BY <1>3, <1>4, <2>1 DEF Tree, Remains, Zombies
<1>11. ASSUME NEW g \in Pid, g # q PROVE Threads(g)' = Threads(g)
  <2>1. \A x \in Pid : at[x] \notin {"none", "new", "dead"} <=> at'[x] \notin {"none", "new", "dead"}
    BY <1>2, <1>3
  <2>2. \A x \in Pid : at[x] \notin {"none", "new", "dead"} => leader'[x] = leader[x]
    BY <1>2, <1>3
  <2> QED  BY <2>1, <2>2 DEF Threads
<1>12. ZombieExact'
  BY <1>3, <1>4, <1>11 DEF Tree, ZombieExact
<1> QED  BY <1>6, <1>7, <1>8, <1>9, <1>10, <1>11, <1>12 DEF Tree

---------------------------------------------------------------------------
(* The task that exits is the last thread of init's group; it is freed at  *)
(* once.                                                                   *)
InitDies(p) == GroupDead(p) /\ leader[p] = 1
Freed(p) == p # leader[p] /\ ~InitDies(p)

(* Where an exiting task is, and who takes its children.                   *)
Leaves(p, np) ==
  /\ p \in Threads(leader[p]) /\ at[p] \in {"user", "exit"}
  /\ leader[p] \in Pid /\ Exists(leader[p]) /\ leader[leader[p]] = leader[p] /\ leader[p] \notin zombie
  /\ np \in Pid /\ Exists(np)
  /\ IF GroupDead(p) THEN np = 1 ELSE np \in Threads(leader[p]) /\ np # p

(* What do_exit leaves, pid by pid.                                        *)
Left(p, np) ==
  /\ at'[p] = IF Freed(p) THEN "none" ELSE "dead"
  /\ \A x \in Pid : x # p => at'[x] = at[x]
  /\ leader'[p] = IF Freed(p) THEN NoTask ELSE leader[p]
  /\ \A x \in Pid : x # p => leader'[x] = leader[x]
  /\ \A x \in Pid : (x = p => ~Freed(p)) =>
       parent'[x] = IF Exists(x) /\ parent[x] = p THEN np ELSE parent[x]
  /\ zombie' = IF GroupDead(p) /\ ~InitDies(p) THEN zombie \cup {leader[p]} ELSE zombie
  /\ halt' = (IF InitDies(p) THEN 1 ELSE halt) /\ new' = new

(* That is what do_exit does.                                              *)
LEMMA ExitFacts ==
  ASSUME Shapes, Tree, NEW p \in Pid, at[p] \in {"user", "exit"}, DoExit(p)
  PROVE  \E np \in Pid : Leaves(p, np) /\ Left(p, np)
<1> USE PidFacts
<1> DEFINE g == leader[p]
<1>1. /\ Exists(p) /\ g \in Pid /\ Exists(g) /\ leader[g] = g
  BY DEF Exists, Tree, Family, Led
<1>2. p \in Threads(g)
  BY DEF Threads
<1>3. g \notin zombie
  BY <1>1, <1>2 DEF Tree, ZombieExact
<1>4. parent[g] = NoTask <=> g = 1
  BY <1>1 DEF Tree, Root, Family, Raised
<1>5. InitDies(p) <=> GroupDead(p) /\ parent[g] = NoTask
  BY <1>4 DEF InitDies
<1>6. /\ at' = [at EXCEPT ![p] = IF Freed(p) THEN "none" ELSE "dead"]
      /\ leader' = IF Freed(p) THEN [leader EXCEPT ![p] = NoTask] ELSE leader
      /\ zombie' = IF GroupDead(p) /\ ~InitDies(p) THEN zombie \cup {g} ELSE zombie
      /\ halt' = (IF InitDies(p) THEN 1 ELSE halt) /\ new' = new
  BY <1>5 DEF DoExit, Freed
<1>7. PICK np \in NewParent(p) :
         parent' = [c \in Pid |-> IF c = p /\ Freed(p) THEN NoTask
                                  ELSE IF c \in Children(p) THEN np ELSE parent[c]]
  BY <1>5 DEF DoExit, Freed
<1>8. IF GroupDead(p) THEN np = 1 ELSE np \in Threads(g) /\ np # p
  BY <1>2, <1>7 DEF NewParent, GroupDead
<1>9. np \in Pid /\ Exists(np)
  BY <1>8 DEF Threads, Exists, Tree, Root
<1>10. Leaves(p, np)
  BY <1>1, <1>2, <1>3, <1>8, <1>9 DEF Leaves
<1>11. /\ \A x \in Pid : x # p => at'[x] = at[x] /\ leader'[x] = leader[x]
       /\ at'[p] = IF Freed(p) THEN "none" ELSE "dead"
       /\ leader'[p] = IF Freed(p) THEN NoTask ELSE leader[p]
  BY <1>6 DEF Shapes
<1>12. \A x \in Pid : (x = p => ~Freed(p)) =>
         parent'[x] = IF Exists(x) /\ parent[x] = p THEN np ELSE parent[x]
  BY <1>7 DEF Children
<1>13. Left(p, np)
  BY <1>6, <1>11, <1>12 DEF Left
<1> QED  BY <1>9, <1>10, <1>13

(* exit keeps the families: the children have a new parent before the      *)
(* task is gone.                                                           *)
LEMMA ExitTree ==
  ASSUME Shapes, Tree, NEW p \in Pid, NEW np \in Pid, Leaves(p, np), Left(p, np)
  PROVE  Tree'
<1> USE PidFacts
<1> DEFINE g == leader[p]
<1>1. /\ p \in Threads(g) /\ at[p] \in {"user", "exit"} /\ Exists(p)
      /\ g \in Pid /\ Exists(g) /\ leader[g] = g /\ g \notin zombie
  BY DEF Leaves, Exists
<1>2. /\ at[np] \notin {"none", "new"} /\ (np = p => p = 1) /\ (np # 1 => at[np] # "dead")
      /\ leader[np] = g \/ np = 1
  <2>1. CASE GroupDead(p)
    BY <2>1 DEF Leaves, Tree, Root, Exists, Creating
  <2>2. CASE ~GroupDead(p)
    BY <2>2 DEF Leaves, Threads
  <2> QED  BY <2>1, <2>2
<1>3. \A x \in Pid : leader[x] \in Pid0 /\ parent[x] \in Pid0
  BY DEF Shapes
<1>4. /\ \A x \in Pid : Exists(x)' <=> Exists(x) /\ (x = p => ~Freed(p))
      /\ \A x \in Pid : Exiting(x)' <=> Exiting(x) \/ (x = p /\ ~Freed(p))
  BY <1>1 DEF Left, Exists, Exiting
<1>5. /\ \A x \in Pid : Exists(x)' => leader'[x] = leader[x]
      /\ \A x \in Pid : Exists(x)' =>
           parent'[x] = IF Exists(x) /\ parent[x] = p THEN np ELSE parent[x]
  BY <1>4 DEF Left
<1>6. Freed(p) => p # 1 /\ \A x \in Pid : Exists(x) => leader[x] # p
  <2>1. Freed(p) => leader[p] # p
    BY DEF Freed
  <2> QED  BY <2>1 DEF Tree, Root, Family, Led
<1>7. np = p => ~Freed(p)
  BY <1>2, <1>6
<1>8. Root'
  <2>1. 1 \notin zombie'
    BY DEF Left, InitDies, Tree, Root
  <2> QED  BY <1>4, <1>5, <1>6, <2>1 DEF Tree, Root
<1>9. Family'
  <2> SUFFICES ASSUME NEW x \in Pid, Exists(x)' PROVE Led(x)' /\ Raised(x)'
    BY DEF Family
  <2>1. Exists(x) /\ Led(x) /\ Raised(x)
    BY <1>4 DEF Tree, Family
  <2>2. Led(x)'
    <3>1. leader'[x] = leader[x] /\ leader[x] \in Pid /\ Exists(leader[x])'
      BY <1>4, <1>5, <1>6, <2>1 DEF Led
    <3> QED  BY <1>5, <2>1, <3>1 DEF Led
  <2>3. Raised(x)'
    <3>1. CASE parent[x] = p
      <4>1. parent'[x] = np /\ np # NoTask
        BY <1>5, <2>1, <3>1
      <4>2. at'[np] \notin {"none", "new"} /\ (Exiting(np)' => np = 1)
        BY <1>2, <1>4, <1>7 DEF Left, Exiting
      <4> QED  BY <4>1, <4>2 DEF Raised
    <3>2. CASE parent[x] # p
      <4>1. parent'[x] = parent[x]
        BY <1>5, <2>1, <3>2
      <4>2. parent[x] # NoTask => at'[parent[x]] = at[parent[x]]
        BY <1>3, <3>2 DEF Left, Pid0
      <4> QED  BY <2>1, <4>1, <4>2 DEF Raised, Exiting
    <3> QED  BY <3>1, <3>2
  <2> QED  BY <2>2, <2>3
<1>10. Generations'
  <2> SUFFICES ASSUME NEW x \in Pid, Exists(x)', parent'[x] # NoTask
               PROVE  leader'[parent'[x]] = leader'[x] <=> leader'[x] # x
    BY DEF Generations
  <2>1. Exists(x) /\ Led(x) /\ Raised(x) /\ leader'[x] = leader[x]
    BY <1>4, <1>5 DEF Tree, Family
  <2>2. CASE parent[x] # p
    <3>1. parent'[x] = parent[x] /\ parent[x] \in Pid
      BY <1>3, <1>5, <2>1, <2>2 DEF Pid0
    <3>2. leader'[parent[x]] = leader[parent[x]]
      BY <2>2, <3>1 DEF Left
    <3> QED  BY <2>1, <3>1, <3>2 DEF Tree, Generations
  <2>3. CASE parent[x] = p
    <3>1. parent'[x] = np /\ leader'[np] = leader[np]
      BY <1>2, <1>5, <1>7, <2>1, <2>3 DEF Left
    <3>2. leader[x] = g <=> leader[x] # x
      BY <1>1, <2>1, <2>3 DEF Tree, Generations
    <3>3. CASE leader[np] = g
      BY <2>1, <3>1, <3>2, <3>3
    <3>4. CASE leader[np] # g
      <4>1. np = 1 /\ leader[np] = 1 /\ GroupDead(p)
        BY <1>2, <3>4 DEF Leaves, Tree, Root, Threads
      <4>2. CASE leader[x] = x
        BY <2>1, <2>3, <3>1, <4>1, <4>2 DEF Tree, Root
      <4>3. CASE leader[x] # x
        <5>1. leader[x] = g /\ x # g
          BY <3>2, <4>3
        <5>2. at[x] # "new"
          BY <1>1, <2>3 DEF Tree, Creating
        <5>3. CASE x = p
          BY <1>4, <3>4, <4>1, <5>1, <5>3 DEF Freed, InitDies
        <5>4. CASE x # p
          <6>1. at[x] = "dead"
            BY <2>1, <4>1, <5>1, <5>2, <5>4 DEF GroupDead, Threads, Exists
          <6> QED  BY <3>4, <4>1, <4>3, <5>1, <6>1 DEF Tree, Remains, Exiting
        <5> QED  BY <5>3, <5>4
      <4> QED  BY <4>2, <4>3
    <3> QED  BY <3>3, <3>4
  <2> QED  BY <2>2, <2>3
<1>11. Creating'
  <2>1. ASSUME NEW x \in Pid, at'[x] = "clone"
        PROVE  /\ new'[x].child \in Pid /\ at'[new'[x].child] = "new"
               /\ parent'[new'[x].child] = x /\ leader'[new'[x].child] = leader'[x]
    <3>1. at[x] = "clone" /\ x # p /\ new'[x] = new[x]
      BY <2>1 DEF Left
    <3>2. /\ new[x].child \in Pid /\ at[new[x].child] = "new"
          /\ parent[new[x].child] = x /\ leader[new[x].child] = leader[x]
      BY <3>1 DEF Tree, Creating
    <3>3. new[x].child # p
      BY <1>1, <3>2
    <3> QED  BY <3>1, <3>2, <3>3 DEF Left
  <2>2. ASSUME NEW x \in Pid, at'[x] = "new"
        PROVE  /\ parent'[x] # NoTask /\ at'[parent'[x]] = "clone" /\ new'[parent'[x]].child = x
               /\ leader'[x] # x
    <3>1. at[x] = "new" /\ x # p
      BY <2>2 DEF Left
    <3>2. /\ parent[x] \in Pid /\ at[parent[x]] = "clone" /\ new[parent[x]].child = x
          /\ leader[x] # x
      BY <1>3, <3>1 DEF Tree, Creating, Pid0
    <3>3. parent[x] # p
      BY <1>1, <3>2
    <3>4. /\ parent'[x] = parent[x] /\ leader'[x] = leader[x] /\ at'[parent[x]] = at[parent[x]]
          /\ new'[parent[x]] = new[parent[x]] /\ parent[x] # NoTask
      BY <3>1, <3>2, <3>3 DEF Left
    <3> QED  BY <3>2, <3>4
  <2> QED  BY <2>1, <2>2 DEF Creating
<1>12. Remains'
  <2> SUFFICES ASSUME NEW x \in Pid, Exiting(x)', leader'[x] # x PROVE leader'[x] = 1
    BY DEF Remains
  <2>1. CASE x = p
    <3>1. ~Freed(p)
      BY <1>1, <1>4, <2>1 DEF Exiting
    <3>2. leader'[x] = leader[p]
      BY <2>1, <3>1 DEF Left
    <3> QED  BY <2>1, <3>1, <3>2 DEF Freed, InitDies
  <2>2. CASE x # p
    BY <1>4, <2>2 DEF Left, Tree, Remains
  <2> QED  BY <2>1, <2>2
<1>13. Zombies'
  <2>1. ASSUME NEW z \in zombie PROVE Exiting(z)' /\ leader'[z] = z
    <3>1. z \in Pid /\ Exiting(z) /\ leader[z] = z
      BY DEF Shapes, Tree, Zombies
    <3>2. z # p
      BY <1>1, <3>1 DEF Exiting
    <3> QED  BY <1>4, <3>1, <3>2 DEF Left
  <2>2. ASSUME GroupDead(p), ~InitDies(p) PROVE at'[g] = "dead" /\ leader'[g] = g
    <3>1. CASE g = p
      BY <1>1, <1>4, <3>1 DEF Left, Freed
    <3>2. CASE g # p
      <4>1. at[g] \in {"new", "dead"}
        BY <1>1, <2>2, <3>2 DEF GroupDead, Threads, Exists
      <4>2. at[g] # "new"
        BY <1>1 DEF Tree, Creating
      <4> QED  BY <1>1, <1>4, <3>2, <4>1, <4>2 DEF Left, Exiting
    <3> QED  BY <3>1, <3>2
  <2>3. ASSUME NEW z \in zombie' PROVE at'[z] = "dead" /\ leader'[z] = z
    <3>1. z \in zombie \/ (z = g /\ GroupDead(p) /\ ~InitDies(p))
      BY <2>3 DEF Left
    <3> QED  BY <2>1, <2>2, <3>1 DEF Exiting
  <2> QED  BY <2>3 DEF Zombies, Exiting
<1>14. ZombieExact'
  <2> SUFFICES ASSUME NEW h \in Pid, Exists(h)', leader'[h] = h
               PROVE  h \in zombie' <=> Threads(h)' = {} /\ ~(h = 1 /\ halt' > 0)
    BY DEF ZombieExact
  <2>1. Exists(h) /\ leader[h] = h
    BY <1>4, <1>5
  <2>2. Threads(h)' = Threads(h) \ {p}
    BY DEF Threads, Left
  <2>3. CASE h = g
    <3>1. Threads(h)' = {} <=> GroupDead(p)
      BY <1>1, <2>2, <2>3 DEF GroupDead
    <3>2. h \in zombie' <=> GroupDead(p) /\ ~InitDies(p)
      BY <1>1, <2>3 DEF Left
    <3>3. GroupDead(p) /\ h = 1 => InitDies(p) /\ halt' = 1
      BY <2>3 DEF InitDies, Left
    <3> QED  BY <2>3, <3>1, <3>2, <3>3 DEF InitDies
  <2>4. CASE h # g
    <3>1. p \notin Threads(h)
      BY <2>4 DEF Threads
    <3>2. Threads(h)' = Threads(h) /\ (h \in zombie' <=> h \in zombie) /\ (h = 1 => halt' = halt)
      BY <2>2, <2>4, <3>1 DEF Left, InitDies
    <3> QED  BY <2>1, <3>2 DEF Tree, ZombieExact
  <2> QED  BY <2>3, <2>4
<1> QED  BY <1>8, <1>9, <1>10, <1>11, <1>12, <1>13, <1>14 DEF Tree

---------------------------------------------------------------------------
(* Every step keeps the types.  First clone.                               *)
LEMMA CloneShapes ==
  ASSUME Shapes, guest' = guest, NEW p \in Pid,
         NEW q \in Pid, NEW thread \in BOOLEAN, NEW vfork \in BOOLEAN,
         Clone(p, q, thread, vfork)
  PROVE  Shapes'
<1>1. [child |-> q, thread |-> thread, vfork |-> vfork] \in CloneRec
  BY DEF CloneRec, Pid0
<1>2. at' \in [Pid -> Places] /\ leader' \in [Pid -> Pid0] /\ parent' \in [Pid -> Pid0]
  BY DEF Shapes, Clone, Places, Pid0
<1>3. new' \in [Pid -> CloneRec]
  BY <1>1 DEF Shapes, Clone
<1> QED  BY <1>2, <1>3 DEF Shapes, Clone

(* A task that is in no clone.                                             *)
LEMMA NoCloneRec == NoClone \in CloneRec
BY DEF NoClone, CloneRec, Pid0

(* The rest of clone.                                                      *)
LEMMA MakerShapes ==
  ASSUME Shapes, Tree, guest' = guest, NEW p \in Pid, CloneJoin(p) \/ CloneFails(p) \/ VforkReturns(p)
  PROVE  Shapes'
<1> USE NoCloneRec
<1>1. CASE CloneJoin(p)
  <2> DEFINE q == new[p].child
  <2>1. at' \in [Pid -> Places] /\ new' \in [Pid -> CloneRec] /\ parent' = parent
    BY <1>1 DEF Shapes, CloneJoin, Places
  <2>2. leader' \in [Pid -> Pid0]
    BY <1>1 DEF Shapes, CloneJoin, Pid0
  <2>3. leader[p] \in Pid /\ q \in Pid
    BY <1>1, Made DEF CloneJoin
  <2>4. code[leader[p]] \in Codes /\ "none" \in Codes
    BY <2>3 DEF Shapes, Codes
  <2>5. /\ UNCHANGED <<want, asleep, doing, zombie, inherited, released, pdeath, halt>>
        /\ stopped' \in {stopped, stopped \cup {q}}
        /\ code' \in {code, [code EXCEPT ![q] = code[leader[p]]]}
        /\ meant' \in {meant, [meant EXCEPT ![q] = "none"]}
    BY <1>1 DEF CloneJoin
  <2> HIDE DEF q
  <2> QED  BY <2>1, <2>2, <2>3, <2>4, <2>5 DEF Shapes
<1>2. CASE CloneFails(p)
  BY <1>2 DEF Shapes, CloneFails, Places, Pid0
<1>3. CASE VforkReturns(p)
  BY <1>3 DEF Shapes, VforkReturns, Places
<1> QED  BY <1>1, <1>2, <1>3

(* Calls, signals and stops.                                               *)
LEMMA CallShapes ==
  ASSUME Shapes, guest' = guest, NEW p \in Pid, NEW setuid \in BOOLEAN, NEW sig,
         Exec(p, setuid) \/ SetPdeath(p) \/ Kill(p, sig)
           \/ ReceiveStop(p) \/ Stop(p) \/ Continue(p)
  PROVE  Shapes'
<1>1. CASE Exec(p, setuid)
  BY <1>1 DEF Shapes, Exec, VforkNotify, VforkParents
<1>2. CASE SetPdeath(p)
  BY <1>2 DEF Shapes, SetPdeath
<1>3. CASE Kill(p, sig)
  BY <1>3 DEF Shapes, Kill
<1>4. CASE ReceiveStop(p)
  <2>1. at' \in [Pid -> Places]
    BY <1>4 DEF Shapes, ReceiveStop, Places
  <2>2. "stop" \in Codes
    BY DEF Codes
  <2>3. code' \in [Pid -> Codes]
    BY <1>4, <2>2 DEF Shapes, ReceiveStop
  <2> QED  BY <1>4, <2>1, <2>3 DEF Shapes, ReceiveStop
<1>5. CASE Stop(p)
  BY <1>5 DEF Shapes, Stop, Places
<1>6. CASE Continue(p)
  BY <1>6 DEF Shapes, Continue, Places
<1> QED  BY <1>1, <1>2, <1>3, <1>4, <1>5, <1>6

(* The ways out.                                                           *)
LEMMA GroupExitShapes ==
  ASSUME Shapes, Tree, guest' = guest, NEW p \in Pid, Exists(p), NEW status \in {"exit", "kill"},
         DoExitGroup(p, status)
  PROVE  Shapes'
<1>1. leader[p] \in Pid
  BY DEF Tree, Family, Led
<1>2. at' \in [Pid -> Places]
  BY DEF Shapes, DoExitGroup, Places
<1>3. code' \in [Pid -> Codes] /\ meant' \in [Pid -> Codes]
  BY DEF Shapes, DoExitGroup, Codes
<1> QED  BY <1>1, <1>2, <1>3 DEF Shapes, DoExitGroup

(* The end of a task.                                                      *)
LEMMA ExitShapes ==
  ASSUME Shapes, Tree, guest' = guest, NEW p \in Pid, at[p] \in {"user", "exit"}, DoExit(p)
  PROVE  Shapes'
<1>1. leader[p] \in Pid
  BY DEF Tree, Family, Led, Exists
<1>2. at' \in [Pid -> Places] /\ leader' \in [Pid -> Pid0]
  BY DEF Shapes, DoExit, Places, Pid0
<1>3. NewParent(p) \subseteq Pid
  BY PidFacts DEF NewParent, Threads
<1>4. parent' \in [Pid -> Pid0]
  BY <1>3 DEF Shapes, DoExit, Pid0
<1>5. zombie' \subseteq Pid /\ inherited' \subseteq Pid /\ halt' \in 0..4
  BY <1>1 DEF Shapes, DoExit
<1>6. stopped' \subseteq Pid /\ asleep' \subseteq Pid
  BY DEF Shapes, DoExit, WakeParentGroup
<1>7. released' \subseteq Pid /\ pdeath' \subseteq Pid
  BY DEF Shapes, DoExit, VforkNotify, VforkParents
<1> QED  BY <1>2, <1>4, <1>5, <1>6, <1>7 DEF Shapes, DoExit

(* wait.                                                                   *)
LEMMA WaitShapes ==
  ASSUME Shapes, guest' = guest, NEW p \in Pid, NEW id \in Pid0, NEW q \in Pid,
         Reap(p, q) \/ ReportStop(p, q) \/ WaitReturns(p) \/ WaitSleeps(p, id)
  PROVE  Shapes'
<1> USE DEF Shapes, Places, Codes, Pid0, NoTask
<1>1. CASE Reap(p, q)
  BY <1>1 DEF Reap
<1>2. CASE ReportStop(p, q)
  BY <1>2 DEF ReportStop
<1>3. CASE WaitReturns(p)
  BY <1>3 DEF WaitReturns
<1>4. CASE WaitSleeps(p, id)
  BY <1>4 DEF WaitSleeps
<1> QED  BY <1>1, <1>2, <1>3, <1>4

(* The shutdown after init's death.                                        *)
LEMMA HaltShapes == ASSUME Shapes, guest' = guest, HaltRound PROVE Shapes'
<1>1. asleep' \subseteq asleep /\ halt' \in 0..4
  BY DEF HaltRound
<1> QED  BY <1>1 DEF Shapes, HaltRound

---------------------------------------------------------------------------
(* Every step keeps the queues.                                            *)
LEMMA QueuesKept ==
  ASSUME Queues, NEW p \in Pid, NEW sig \in {"KILL", "TSTP", "CONT"},
         NEW status, \/ CloneFails(p) \/ Kill(p, sig) \/ ReceiveStop(p) \/ DoExitGroup(p, status)
                     \/ DoExit(p) \/ HaltRound \/ UNCHANGED sigs
  PROVE  Queues'
<1> USE EmptyKeeps
<1>0. "KILL" \in Sent
  BY DEF Sent
<1>1. CASE CloneFails(p)
  BY <1>1 DEF Queues, CloneFails
<1>2. CASE Kill(p, sig)
  <2>1. CASE UNCHANGED sigs
    BY <2>1 DEF Queues
  <2>2. CASE sig # "CONT" /\ Deliver({p}, sig)
    BY <2>2, DeliverKeeps DEF Sent
  <2> QED  BY <1>2, <2>1, <2>2 DEF Kill
<1>3. CASE ReceiveStop(p)
  <2>1. sigs[p] # <<>> /\ sigs' = [sigs EXCEPT ![p] = Tail(sigs[p])]
    BY <1>3 DEF ReceiveStop
  <2>2. Tail(sigs[p]) \in Seq(Sent) /\ Once(Tail(sigs[p]))
    BY <2>1, TailKeeps
  <2> QED  BY <2>1, <2>2 DEF Queues
<1>4. CASE DoExitGroup(p, status)
  <2>1. Deliver(Threads(leader[p]), "KILL")
    BY <1>4 DEF DoExitGroup
  <2> QED  BY <1>0, <2>1, DeliverKeeps
<1>5. CASE DoExit(p)
  <2> DEFINE told == {c \in Children(p) \cap pdeath : ~Exiting(c)}
  <2>1. sigs' = [t \in Pid |-> IF t = p THEN <<>> ELSE IF t \in told THEN Queue(t, "KILL") ELSE sigs[t]]
    BY <1>5 DEF DoExit
  <2> HIDE DEF told
  <2>2. ASSUME NEW t \in Pid PROVE sigs'[t] \in Seq(Sent) /\ Once(sigs'[t])
    <3>1. Queue(t, "KILL") \in Seq(Sent) /\ Once(Queue(t, "KILL")) /\ sigs[t] \in Seq(Sent) /\ Once(sigs[t])
      BY <1>0, QueueKeeps DEF Queues
    <3>2. sigs'[t] \in {<<>>, Queue(t, "KILL"), sigs[t]}
      BY <2>1
    <3> QED  BY <3>1, <3>2
  <2>3. sigs' \in [Pid -> Seq(Sent)]
    BY <2>1, <2>2
  <2> QED  BY <2>2, <2>3 DEF Queues
<1>6. CASE HaltRound
  <2>1. UNCHANGED sigs \/ \E hit : Deliver(hit, "KILL")
    BY <1>6 DEF HaltRound
  <2>2. CASE UNCHANGED sigs
    BY <2>2 DEF Queues
  <2>3. CASE \E hit : Deliver(hit, "KILL")
    BY <1>0, <2>3, DeliverKeeps
  <2> QED  BY <2>1, <2>2, <2>3
<1>7. CASE UNCHANGED sigs
  BY <1>7 DEF Queues
<1> QED  BY <1>1, <1>2, <1>3, <1>4, <1>5, <1>6, <1>7

---------------------------------------------------------------------------
Waits == Vforks /\ Sleepers /\ NoMissedExit

(* Where a sleeper may find a zombie that it would have to be told of: a   *)
(* child of its group's.                                                   *)
LEMMA Awaited ==
  ASSUME Shapes, Tree, NEW p \in Pid, at[p] \in {"user", "wait"}, NEW id \in Pid0, NEW z \in zombie
  PROVE  /\ z \in Pid /\ Exists(z) /\ leader[z] = z /\ leader[p] # z
         /\ z \in Candidates(p, id) <=>
              IF id = NoTask THEN parent[z] = p
              ELSE id = z /\ parent[z] # NoTask /\ leader[parent[z]] = leader[p]
<1> USE PidFacts
<1>1. z \in Pid /\ Exists(z) /\ leader[z] = z
  BY DEF Shapes, Tree, Zombies, Exists, Exiting
<1>2. p \in Threads(leader[p]) /\ Exists(p)
  BY DEF Threads, Exists
<1>3. leader[p] # z
  BY <1>1, <1>2 DEF Tree, ZombieExact
<1>4. CASE id = NoTask
  BY <1>1, <1>3, <1>4 DEF Candidates, Children, NoTask
<1>5. CASE id # NoTask
  <2>1. z \in Candidates(p, id) <=>
          Exists(id) /\ parent[id] # NoTask /\ leader[parent[id]] = leader[p] /\ leader[id] = z
    BY <1>5 DEF Candidates, NoTask
  <2>2. id \in Pid
    BY <1>5 DEF Pid0
  <2>3. Exists(id) /\ parent[id] # NoTask /\ leader[parent[id]] = leader[p] /\ leader[id] = z => id = z
    BY <1>3, <2>2 DEF Tree, Generations
  <2>4. z \in Candidates(p, id) <=> id = z /\ parent[z] # NoTask /\ leader[parent[z]] = leader[p]
    BY Zenon, <1>1, <2>1, <2>3
  <2> QED  BY Zenon, <1>1, <1>3, <1>5, <2>4
<1> QED  BY <1>1, <1>3, <1>4, <1>5

(* The same of the next state, as far as it is needed.                     *)
LEMMA AwaitedNext ==
  ASSUME Shapes', Tree', NEW p \in Pid, at'[p] = "wait", NEW z \in zombie',
         z \in Candidates(p, want[p])'
  PROVE  IF want'[p] = NoTask THEN parent'[z] = p
         ELSE want'[p] = z /\ parent'[z] # NoTask /\ leader'[parent'[z]] = leader'[p]
<1> USE PidFacts
<1>1. z \in Pid /\ Exists(z)' /\ leader'[z] = z
  BY DEF Shapes, Tree, Zombies, Exists, Exiting
<1>2. \A g \in Pid : leader'[p] = g => p \in Threads(g)'
  BY DEF Threads
<1>3. leader'[p] # z
  BY <1>1, <1>2 DEF Tree, ZombieExact
<1>4. CASE want'[p] = NoTask
  BY <1>1, <1>3, <1>4 DEF Candidates, Children, NoTask
<1>5. CASE want'[p] # NoTask
  <2>1. /\ Exists(want[p])' /\ parent'[want'[p]] # NoTask
        /\ leader'[parent'[want'[p]]] = leader'[p] /\ leader'[want'[p]] = z
    BY <1>5 DEF Candidates, NoTask
  <2>2. want'[p] \in Pid
    BY <1>5 DEF Pid0, Shapes
  <2>3. want'[p] = z
    BY <1>3, <2>1, <2>2 DEF Tree, Generations
  <2> QED  BY <1>5, <2>1, <2>3
<1> QED  BY <1>4, <1>5

(* Nobody misses an exit when those who sleep have looked, or slept        *)
(* already, and each new zombie wakes the group of its parent.             *)
LEMMA NothingMissed ==
  ASSUME Shapes, Tree, Shapes', Tree',
         \A p \in asleep' :
           /\ at[p] \in {"user", "wait"} /\ at'[p] = "wait" /\ leader'[p] = leader[p]
           /\ Candidates(p, want'[p]) \cap zombie \subseteq inherited,
         \A z \in zombie' :
           \/ z \in inherited'
           \/ /\ z \in zombie /\ parent'[z] = parent[z] /\ leader'[parent[z]] = leader[parent[z]]
              /\ z \in inherited => z \in inherited'
           \/ \A p \in asleep' : leader[p] # leader'[parent'[z]]
  PROVE  NoMissedExit'
<1> SUFFICES ASSUME NEW p \in asleep', NEW z \in zombie', z \in Candidates(p, want[p])'
             PROVE  z \in inherited'
  BY DEF NoMissedExit
<1>1. p \in Pid /\ want'[p] \in Pid0
  BY DEF Shapes
<1>2. /\ at[p] \in {"user", "wait"} /\ at'[p] = "wait" /\ leader'[p] = leader[p]
      /\ Candidates(p, want'[p]) \cap zombie \subseteq inherited
  OBVIOUS
<1>3. IF want'[p] = NoTask THEN parent'[z] = p
      ELSE want'[p] = z /\ parent'[z] # NoTask /\ leader'[parent'[z]] = leader'[p]
  BY <1>1, <1>2, AwaitedNext
<1>4. leader'[parent'[z]] = leader[p]
  BY <1>2, <1>3
<1>5. CASE /\ z \in zombie /\ parent'[z] = parent[z] /\ leader'[parent[z]] = leader[parent[z]]
           /\ z \in inherited => z \in inherited'
  <2>1. z \in Candidates(p, want'[p]) <=>
          IF want'[p] = NoTask THEN parent[z] = p
          ELSE want'[p] = z /\ parent[z] # NoTask /\ leader[parent[z]] = leader[p]
    BY <1>1, <1>2, <1>5, Awaited
  <2>2. z \in Candidates(p, want'[p])
    BY <1>2, <1>3, <1>5, <2>1
  <2> QED  BY <1>2, <1>5, <2>2
<1> QED  BY <1>4, <1>5

(* A vfork parent that waits has a child that goes on.                     *)
LEMMA VforksKept ==
  ASSUME Vforks,
         \A v \in Pid : at'[v] = "vfork" => /\ at[v] = "vfork" /\ new'[v] = new[v]
                                            /\ v \in released => v \in released',
         \A x \in Pid : at[x] \notin {"none", "new", "dead"} => at'[x] \notin {"none", "new", "dead"}
  PROVE  Vforks'
<1> SUFFICES ASSUME NEW v \in Pid, at'[v] = "vfork", v \notin released'
             PROVE  new'[v].child \in Pid /\ at'[new'[v].child] \notin {"none", "new", "dead"}
  BY DEF Vforks
<1>1. at[v] = "vfork" /\ new'[v] = new[v] /\ v \notin released
  OBVIOUS
<1>2. new[v].child \in Pid /\ at[new[v].child] \notin {"none", "new", "dead"}
  BY <1>1 DEF Vforks
<1> QED  BY <1>1, <1>2

(* A step of one task that moves, of which others take no notice.          *)
LEMMA MovesKeep ==
  ASSUME ProcessInv, Shapes', Queues', Moves, inherited' = inherited, NEW p \in Pid,
         \A x \in Pid : x # p => /\ at'[x] = at[x] /\ new'[x] = new[x] /\ want'[x] = want[x]
                                 /\ x \in released => x \in released'
                                 /\ x \in asleep' => x \in asleep,
         at'[p] = "vfork" => at[p] = "vfork" /\ new'[p] = new[p] /\ (p \in released => p \in released'),
         p \in asleep' =>
           /\ at[p] \in {"user", "wait"} /\ at'[p] = "wait"
           /\ Candidates(p, want'[p]) \cap zombie \subseteq inherited
  PROVE  ProcessInv'
<1> USE DEF ProcessInv
<1>1. Tree'
  BY MovesTree
<1>2. Vforks'
  <2>1. \A x \in Pid : at[x] \notin {"none", "new", "dead"} => at'[x] \notin {"none", "new", "dead"}
    BY DEF Moves, Running
  <2> QED  BY <2>1, VforksKept
<1>3. \A x \in asleep' :
        /\ at[x] \in {"user", "wait"} /\ at'[x] = "wait" /\ leader'[x] = leader[x]
        /\ Candidates(x, want'[x]) \cap zombie \subseteq inherited
  <2> SUFFICES ASSUME NEW x \in asleep'
               PROVE  /\ at[x] \in {"user", "wait"} /\ at'[x] = "wait" /\ leader'[x] = leader[x]
                      /\ Candidates(x, want'[x]) \cap zombie \subseteq inherited
    OBVIOUS
  <2>1. x \in Pid /\ leader'[x] = leader[x]
    BY DEF Shapes, Moves
  <2>2. CASE x = p
    BY <2>1, <2>2
  <2>3. CASE x # p
    <3>1. x \in asleep /\ at'[x] = at[x] /\ want'[x] = want[x]
      BY <2>1, <2>3
    <3> QED  BY <2>1, <3>1 DEF Sleepers, NoMissedExit
  <2> QED  BY <2>2, <2>3
<1>4. Sleepers'
  BY <1>3 DEF Sleepers
<1>5. NoMissedExit'
  <2>1. \A z \in zombie' : z \in zombie /\ parent'[z] = parent[z] /\ leader'[parent[z]] = leader[parent[z]]
    BY DEF Moves
  <2> QED  BY <1>1, <1>3, <2>1, NothingMissed
<1> QED  BY <1>1, <1>2, <1>4, <1>5

---------------------------------------------------------------------------
(* Each operation keeps the invariant.  First the calls that only set      *)
(* something, signals, and the start of exit_group.                        *)
LEMMA CallKeeps ==
  ASSUME ProcessInv, guest' = guest, NEW p \in Pid, NEW setuid \in BOOLEAN,
         NEW sig \in {"KILL", "TSTP", "CONT"},
         \/ VforkReturns(p) \/ Exec(p, setuid) \/ SetPdeath(p) \/ Kill(p, sig)
         \/ ReceiveStop(p) \/ Stop(p) \/ Continue(p)
  PROVE  ProcessInv'
<1> USE PidFacts DEF ProcessInv
<1>1. Shapes'
  BY MakerShapes, CallShapes
<1>2. Queues'
  <2>1. Kill(p, sig) \/ ReceiveStop(p) \/ UNCHANGED sigs
    BY DEF VforkReturns, Exec, SetPdeath, Stop, Continue
  <2> QED  BY <2>1, QueuesKept
<1>3. \A x \in asleep : x \in Pid /\ at[x] = "wait" /\ Candidates(x, want[x]) \cap zombie \subseteq inherited
  BY DEF Shapes, Sleepers, NoMissedExit
<1>4. CASE VforkReturns(p)
  <2>1. Moves
    BY <1>4 DEF VforkReturns, Moves, Running, Shapes
  <2> QED  BY <1>1, <1>2, <1>3, <1>4, <2>1, MovesKeep DEF VforkReturns, Shapes
<1>5. CASE Exec(p, setuid)
  <2>1. Moves
    BY <1>5 DEF Exec, Moves
  <2> QED  BY <1>1, <1>2, <1>3, <1>5, <2>1, MovesKeep DEF Exec, VforkNotify
<1>6. CASE SetPdeath(p)
  <2>1. Moves
    BY <1>6 DEF SetPdeath, Moves
  <2> QED  BY <1>1, <1>2, <1>3, <1>6, <2>1, MovesKeep DEF SetPdeath
<1>7. CASE Kill(p, sig)
  <2>1. Moves
    BY <1>7 DEF Kill, Moves
  <2>2. asleep' \subseteq asleep
    BY <1>7 DEF Kill
  <2> QED  BY <1>1, <1>2, <1>3, <1>7, <2>1, <2>2, MovesKeep DEF Kill
<1>8. CASE ReceiveStop(p)
  <2>1. Moves
    BY <1>8 DEF ReceiveStop, Moves, Running, Shapes
  <2>2. asleep' \subseteq asleep
    BY <1>8 DEF ReceiveStop
  <2> QED  BY <1>1, <1>2, <1>3, <1>8, <2>1, <2>2, MovesKeep DEF ReceiveStop, Shapes
<1>9. CASE Stop(p)
  <2>1. Moves
    BY <1>9 DEF Stop, Moves, Running, Shapes
  <2> QED  BY <1>1, <1>2, <1>3, <1>9, <2>1, MovesKeep DEF Stop, Shapes
<1>10. CASE Continue(p)
  <2>1. Moves
    BY <1>10 DEF Continue, Moves, Running, Shapes
  <2> QED  BY <1>1, <1>2, <1>3, <1>10, <2>1, MovesKeep DEF Continue, Shapes
<1> QED  BY <1>4, <1>5, <1>6, <1>7, <1>8, <1>9, <1>10

(* exit_group only marks, tells and moves.                                 *)
LEMMA GroupExitKeeps ==
  ASSUME ProcessInv, guest' = guest, NEW p \in Pid, at[p] \in {"user", "signals"},
         NEW status \in {"exit", "kill"}, DoExitGroup(p, status)
  PROVE  ProcessInv'
<1> USE PidFacts DEF ProcessInv
<1>1. Shapes' /\ Queues'
  BY GroupExitShapes, QueuesKept DEF Exists
<1>2. Moves
  BY DEF DoExitGroup, Moves, Running, Shapes
<1>3. asleep' \subseteq asleep /\ p \notin asleep
  BY DEF DoExitGroup, Sleepers
<1> QED  BY <1>1, <1>2, <1>3, MovesKeep DEF DoExitGroup, Shapes

(* The shutdown sends signals.                                             *)
LEMMA HaltKeeps == ASSUME ProcessInv, guest' = guest, HaltRound PROVE ProcessInv'
<1> USE PidFacts DEF ProcessInv
<1>1. Shapes'
  BY HaltShapes
<1>2. Queues'
  BY QueuesKept
<1>3. Moves
  BY DEF HaltRound, Moves, Shapes
<1>4. asleep' \subseteq asleep
  BY DEF HaltRound
<1>5. \A x \in asleep : at[x] = "wait" /\ Candidates(x, want[x]) \cap zombie \subseteq inherited
  BY DEF Sleepers, NoMissedExit
<1> QED  BY <1>1, <1>2, <1>3, <1>4, <1>5, MovesKeep DEF HaltRound

(* clone, which shows a task that nobody waits for yet.                    *)
LEMMA CloneKeeps ==
  ASSUME ProcessInv, guest' = guest, NEW p \in Pid, NEW q \in Pid,
         NEW thread \in BOOLEAN, NEW vfork \in BOOLEAN, Clone(p, q, thread, vfork)
  PROVE  ProcessInv'
<1> USE PidFacts DEF ProcessInv
<1>1. Shapes' /\ Tree'
  BY CloneShapes, CloneTree
<1>2. Queues'
  BY QueuesKept DEF Clone
<1>3. /\ at[p] = "user" /\ at[q] = "none" /\ at'[p] = "clone" /\ at'[q] = "new"
      /\ \A x \in Pid : x # p /\ x # q => at'[x] = at[x]
      /\ \A x \in Pid : x # q => leader'[x] = leader[x] /\ parent'[x] = parent[x]
      /\ \A x \in Pid : x # p => new'[x] = new[x]
      /\ UNCHANGED <<want, asleep, zombie, inherited, released>>
  BY DEF Clone, Shapes, Exists
<1>4. Vforks'
  BY <1>3, VforksKept
<1>5. \A x \in asleep : x \in Pid /\ at[x] = "wait" /\ Candidates(x, want[x]) \cap zombie \subseteq inherited
  BY DEF Shapes, Sleepers, NoMissedExit
<1>6. \A x \in asleep' :
        /\ at[x] \in {"user", "wait"} /\ at'[x] = "wait" /\ leader'[x] = leader[x]
        /\ Candidates(x, want'[x]) \cap zombie \subseteq inherited
  BY <1>3, <1>5
<1>7. \A z \in zombie' : z \in zombie /\ parent'[z] = parent[z] /\ leader'[parent[z]] = leader[parent[z]]
  <2> SUFFICES ASSUME NEW z \in zombie PROVE parent'[z] = parent[z] /\ leader'[parent[z]] = leader[parent[z]]
    BY <1>3
  <2>1. z \in Pid /\ Exists(z)
    BY DEF Shapes, Tree, Zombies, Exists, Exiting
  <2>2. z # q /\ parent[z] # q /\ parent[z] \in Pid
    BY <1>3, <2>1, FreePid DEF Exists, Shapes, Pid0, Tree, Family, Raised, Root
  <2> QED  BY <1>3, <2>1, <2>2
<1>8. Sleepers' /\ NoMissedExit'
  BY <1>1, <1>3, <1>6, <1>7, NothingMissed DEF Sleepers
<1> QED  BY <1>1, <1>2, <1>4, <1>8

(* The task runs; nobody waits for it as a zombie.                         *)
LEMMA CloneJoinKeeps ==
  ASSUME ProcessInv, guest' = guest, NEW p \in Pid, CloneJoin(p)
  PROVE  ProcessInv'
<1> USE PidFacts DEF ProcessInv
<1> DEFINE q == new[p].child
<1>1. Shapes' /\ Tree'
  BY MakerShapes, CloneJoinTree
<1>2. Queues'
  BY QueuesKept DEF CloneJoin
<1>3. /\ q \in Pid /\ at[q] = "new" /\ p # q /\ at[p] = "clone"
      /\ \A x \in Pid : Exists(x) => leader[x] # q /\ parent[x] # q
  BY Made DEF CloneJoin
<1>4. /\ at'[p] \in {"user", "vfork"} /\ at'[q] = "user" /\ (at'[p] = "vfork" => new'[p] = new[p])
      /\ \A x \in Pid : x # p /\ x # q => at'[x] = at[x]
      /\ \A x \in Pid : x # q => leader'[x] = leader[x]
      /\ \A x \in Pid : x # p => new'[x] = new[x]
      /\ UNCHANGED <<parent, want, asleep, zombie, inherited, released>>
  BY <1>3 DEF CloneJoin, Shapes
<1>5. Vforks'
  <2> SUFFICES ASSUME NEW v \in Pid, at'[v] = "vfork", v \notin released
               PROVE  new'[v].child \in Pid /\ at'[new'[v].child] \notin {"none", "new", "dead"}
    BY <1>4 DEF Vforks
  <2>1. CASE v = p
    BY <1>3, <1>4, <2>1
  <2>2. CASE v # p
    <3>1. at[v] = "vfork" /\ new'[v] = new[v]
      BY <1>4, <2>2
    <3>2. new[v].child \in Pid /\ at[new[v].child] \notin {"none", "new", "dead"}
      BY <3>1 DEF Vforks
    <3> HIDE DEF q
    <3>3. at'[new[v].child] \notin {"none", "new", "dead"}
      BY <1>4, <3>2
    <3> QED  BY <3>1, <3>2, <3>3
  <2> QED  BY <2>1, <2>2
<1> HIDE DEF q
<1>6. \A x \in asleep : x \in Pid /\ at[x] = "wait" /\ Candidates(x, want[x]) \cap zombie \subseteq inherited
  BY DEF Shapes, Sleepers, NoMissedExit
<1>7. \A x \in asleep' :
        /\ at[x] \in {"user", "wait"} /\ at'[x] = "wait" /\ leader'[x] = leader[x]
        /\ Candidates(x, want'[x]) \cap zombie \subseteq inherited
  BY <1>3, <1>4, <1>6
<1>8. \A z \in zombie' : z \in zombie /\ parent'[z] = parent[z] /\ leader'[parent[z]] = leader[parent[z]]
  <2> SUFFICES ASSUME NEW z \in zombie PROVE leader'[parent[z]] = leader[parent[z]]
    BY <1>4
  <2>1. z \in Pid /\ Exists(z)
    BY DEF Shapes, Tree, Zombies, Exists, Exiting
  <2>2. parent[z] # q /\ parent[z] \in Pid
    BY <1>3, <2>1 DEF Shapes, Pid0, Tree, Family, Raised, Root
  <2> QED  BY <1>4, <2>2
<1>9. Sleepers' /\ NoMissedExit'
  BY <1>1, <1>4, <1>7, <1>8, NothingMissed DEF Sleepers
<1> QED  BY <1>1, <1>2, <1>5, <1>9

(* Nor for one that was never finished.                                    *)
LEMMA CloneFailsKeeps ==
  ASSUME ProcessInv, guest' = guest, NEW p \in Pid, CloneFails(p)
  PROVE  ProcessInv'
<1> USE PidFacts DEF ProcessInv
<1> DEFINE q == new[p].child
<1>1. Shapes' /\ Tree'
  BY MakerShapes, CloneFailsTree
<1>2. Queues'
  BY QueuesKept
<1>3. /\ q \in Pid /\ at[q] = "new" /\ p # q /\ at[p] = "clone"
      /\ \A x \in Pid : Exists(x) => leader[x] # q /\ parent[x] # q
  BY Made DEF CloneFails
<1>4. /\ at'[p] = "user" /\ at'[q] = "none"
      /\ \A x \in Pid : x # p /\ x # q => at'[x] = at[x]
      /\ \A x \in Pid : x # q => leader'[x] = leader[x] /\ parent'[x] = parent[x]
      /\ \A x \in Pid : x # p => new'[x] = new[x]
      /\ UNCHANGED <<want, asleep, zombie, inherited, released>>
  BY <1>3 DEF CloneFails, Shapes
<1> HIDE DEF q
<1>5. Vforks'
  BY <1>3, <1>4, VforksKept
<1>6. \A x \in asleep : x \in Pid /\ at[x] = "wait" /\ Candidates(x, want[x]) \cap zombie \subseteq inherited
  BY DEF Shapes, Sleepers, NoMissedExit
<1>7. \A x \in asleep' :
        /\ at[x] \in {"user", "wait"} /\ at'[x] = "wait" /\ leader'[x] = leader[x]
        /\ Candidates(x, want'[x]) \cap zombie \subseteq inherited
  BY <1>3, <1>4, <1>6
<1>8. \A z \in zombie' : z \in zombie /\ parent'[z] = parent[z] /\ leader'[parent[z]] = leader[parent[z]]
  <2> SUFFICES ASSUME NEW z \in zombie PROVE parent'[z] = parent[z] /\ leader'[parent[z]] = leader[parent[z]]
    BY <1>4
  <2>1. z \in Pid /\ Exists(z) /\ z # q
    BY <1>3 DEF Shapes, Tree, Zombies, Exists, Exiting
  <2>2. parent[z] # q /\ parent[z] \in Pid
    BY <1>3, <2>1 DEF Shapes, Pid0, Tree, Family, Raised, Root
  <2> QED  BY <1>4, <2>1, <2>2
<1>9. Sleepers' /\ NoMissedExit'
  BY <1>1, <1>4, <1>7, <1>8, NothingMissed DEF Sleepers
<1> QED  BY <1>1, <1>2, <1>5, <1>9

(* wait: who sleeps has looked.                                            *)
LEMMA WaitKeeps ==
  ASSUME ProcessInv, guest' = guest, NEW p \in Pid, at[p] \in {"user", "wait"}, p \notin asleep,
         NEW id \in Pid0, NEW nohang, WaitPass(p, id, nohang)
  PROVE  ProcessInv'
<1> USE PidFacts DEF ProcessInv
<1>1. \A x \in asleep : x \in Pid /\ at[x] = "wait" /\ Candidates(x, want[x]) \cap zombie \subseteq inherited
  BY DEF Shapes, Sleepers, NoMissedExit
<1>2. \A q \in Candidates(p, id) : q \in Pid /\ Exists(q) /\ leader[q] = q
  <2>1. \A x \in Pid : Exists(x) => Led(x)
    BY DEF Tree, Family
  <2>2. id # 0 => id \in Pid
    BY DEF Pid0, NoTask
  <2> QED  BY <2>1, <2>2 DEF Candidates, Children, Led
<1>3. ASSUME NEW q \in Pid, Exists(q), leader[q] = q, Reap(p, q) PROVE ProcessInv'
  <2>1. Shapes' /\ Tree'
    BY <1>3, WaitShapes, ReapTree
  <2>2. Queues'
    BY <1>3, QueuesKept DEF Reap
  <2>3. /\ at[q] = "dead" /\ p # q
        /\ \A x \in Pid : Exists(x) => parent[x] # q /\ (leader[x] = q => x = q)
    BY <1>3, DeadGroup DEF Reap
  <2>4. /\ at'[p] = "user" /\ at'[q] = "none" /\ zombie' = zombie \ {q}
        /\ \A x \in Pid : x # p /\ x # q => at'[x] = at[x]
        /\ \A x \in Pid : x # q => leader'[x] = leader[x] /\ parent'[x] = parent[x]
        /\ \A x \in Pid : x # p => want'[x] = want[x]
        /\ inherited' = inherited \ {q} /\ UNCHANGED <<new, asleep, released>>
    BY <1>3, <2>3 DEF Reap, Shapes
  <2>5. Vforks'
    BY <2>3, <2>4, VforksKept
  <2>6. \A x \in asleep' :
          /\ at[x] \in {"user", "wait"} /\ at'[x] = "wait" /\ leader'[x] = leader[x]
          /\ Candidates(x, want'[x]) \cap zombie \subseteq inherited
    <3> SUFFICES ASSUME NEW x \in asleep
                 PROVE  /\ at[x] \in {"user", "wait"} /\ at'[x] = "wait" /\ leader'[x] = leader[x]
                        /\ Candidates(x, want'[x]) \cap zombie \subseteq inherited
      BY <2>4
    <3>1. x \in Pid /\ at[x] = "wait" /\ x # p /\ x # q
      BY <1>1, <2>3
    <3>2. want'[x] = want[x] /\ at'[x] = at[x] /\ leader'[x] = leader[x]
      BY <2>4, <3>1
    <3> QED  BY <1>1, <3>1, <3>2
  <2>7. \A z \in zombie' : /\ z \in zombie /\ parent'[z] = parent[z] /\ leader'[parent[z]] = leader[parent[z]]
                           /\ z \in inherited => z \in inherited'
    <3> SUFFICES ASSUME NEW z \in zombie, z # q
                 PROVE  /\ parent'[z] = parent[z] /\ leader'[parent[z]] = leader[parent[z]]
                        /\ z \in inherited => z \in inherited'
      BY <2>4
    <3>1. z \in Pid /\ Exists(z)
      BY DEF Shapes, Tree, Zombies, Exists, Exiting
    <3>2. parent[z] # q /\ parent[z] \in Pid
      BY <2>3, <3>1 DEF Shapes, Pid0, Tree, Family, Raised, Root
    <3> QED  BY <2>4, <3>1, <3>2
  <2>8. Sleepers' /\ NoMissedExit'
    BY <2>1, <2>4, <2>6, <2>7, NothingMissed DEF Sleepers
  <2> QED  BY <2>1, <2>2, <2>5, <2>8
<1>4. ASSUME NEW q \in Pid, ReportStop(p, q) PROVE ProcessInv'
  <2>1. Shapes' /\ Queues'
    BY <1>4, WaitShapes, QueuesKept DEF ReportStop
  <2>2. Moves
    BY <1>4 DEF ReportStop, Moves, Running, Shapes
  <2> QED  BY <1>1, <1>4, <2>1, <2>2, MovesKeep DEF ReportStop, Shapes
<1>5. CASE WaitReturns(p)
  <2>1. Shapes' /\ Queues'
    BY <1>5, WaitShapes, QueuesKept DEF WaitReturns
  <2>2. Moves
    BY <1>5 DEF WaitReturns, Moves, Running, Shapes
  <2> QED  BY <1>1, <1>5, <2>1, <2>2, MovesKeep DEF WaitReturns, Shapes
<1>6. CASE Candidates(p, id) \cap zombie = {} /\ WaitSleeps(p, id)
  <2>1. Shapes' /\ Queues'
    BY <1>6, WaitShapes, QueuesKept DEF WaitSleeps
  <2>2. Moves
    BY <1>6 DEF WaitSleeps, Moves, Running, Shapes
  <2>3. /\ want'[p] = id /\ at'[p] = "wait" /\ asleep' = asleep \cup {p} /\ new' = new
        /\ \A x \in Pid : x # p => at'[x] = at[x] /\ want'[x] = want[x]
        /\ inherited' = inherited /\ released' = released
    BY <1>6 DEF WaitSleeps, Shapes
  <2> QED  BY <1>6, <2>1, <2>2, <2>3, MovesKeep
<1> QED  BY <1>2, <1>3, <1>4, <1>5, <1>6 DEF WaitPass

(* exit: a group that is gone wakes the group of its parent, and a task    *)
(* that is gone lets its vfork parent go.                                  *)
LEMMA ExitKeeps ==
  ASSUME ProcessInv, guest' = guest, NEW p \in Pid, at[p] \in {"user", "exit"}, DoExit(p)
  PROVE  ProcessInv'
<1> USE PidFacts DEF ProcessInv
<1>1. PICK np \in Pid : Leaves(p, np) /\ Left(p, np)
  BY ExitFacts
<1>2. Shapes' /\ Tree' /\ Queues'
  BY <1>1, ExitShapes, ExitTree, QueuesKept
<1> DEFINE g == leader[p]
<1>3. /\ \A x \in Pid : x # p => at'[x] = at[x] /\ leader'[x] = leader[x]
      /\ at'[p] \in {"none", "dead"} /\ new' = new
  BY <1>1 DEF Left
<1>4. /\ UNCHANGED want /\ inherited' = inherited \cup (Children(p) \cap zombie)
      /\ released' = released \cup VforkParents(p)
      /\ asleep' \subseteq asleep
      /\ GroupDead(p) /\ ~InitDies(p) => \A w \in asleep' : leader[w] # leader[parent[g]]
  <2>1. parent[g] = NoTask <=> g = 1
    BY <1>1 DEF Leaves, Tree, Root, Family, Raised
  <2>2. asleep' \subseteq (IF GroupDead(p) /\ ~InitDies(p) THEN WakeParentGroup(g) ELSE asleep)
    BY <2>1 DEF DoExit, InitDies
  <2>3. asleep \subseteq Pid
    BY DEF Shapes
  <2> QED  BY <2>2, <2>3 DEF DoExit, WakeParentGroup, VforkNotify
<1>5. \A x \in asleep : x \in Pid /\ at[x] = "wait" /\ Candidates(x, want[x]) \cap zombie \subseteq inherited
  BY DEF Shapes, Sleepers, NoMissedExit
<1>6. Vforks'
  <2> SUFFICES ASSUME NEW v \in Pid, at'[v] = "vfork", v \notin released'
               PROVE  new'[v].child \in Pid /\ at'[new'[v].child] \notin {"none", "new", "dead"}
    BY DEF Vforks
  <2>1. at[v] = "vfork" /\ v \notin released /\ v \notin VforkParents(p)
    BY <1>3, <1>4
  <2>2. new[v].child \in Pid /\ at[new[v].child] \notin {"none", "new", "dead"} /\ new[v].child # p
    BY <2>1 DEF Vforks, VforkParents
  <2> QED  BY <1>3, <2>2
<1>7. \A x \in asleep' :
        /\ at[x] \in {"user", "wait"} /\ at'[x] = "wait" /\ leader'[x] = leader[x]
        /\ Candidates(x, want'[x]) \cap zombie \subseteq inherited
  BY <1>3, <1>4, <1>5
<1>8. ASSUME NEW z \in zombie, z \notin inherited'
      PROVE  parent'[z] = parent[z] /\ leader'[parent[z]] = leader[parent[z]]
  <2>1. z \in Pid /\ Exists(z) /\ z # p
    BY DEF Shapes, Tree, Zombies, Exists, Exiting
  <2>2. parent[z] # p
    BY <1>4, <1>8, <2>1 DEF Children
  <2>3. parent[z] \in Pid
    BY <2>1 DEF Shapes, Pid0, Tree, Family, Raised, Root
  <2> QED  BY <1>1, <1>3, <2>1, <2>2, <2>3 DEF Left
<1>9. ASSUME GroupDead(p), ~InitDies(p)
      PROVE  \A w \in asleep' : leader[w] # leader'[parent'[g]]
  <2>1. g \in Pid /\ Exists(g) /\ leader[g] = g /\ g # 1
    BY <1>1, <1>9 DEF Leaves, InitDies
  <2>2. parent[g] \in Pid
    BY <2>1 DEF Shapes, Pid0, Tree, Family, Raised
  <2>3. leader[parent[g]] # g
    BY <2>1, <2>2 DEF Tree, Generations
  <2>4. parent[g] # p
    BY <2>3
  <2>5. g = p => ~Freed(p)
    BY DEF Freed
  <2>6. parent'[g] = parent[g]
    BY <1>1, <2>1, <2>4, <2>5 DEF Left
  <2>7. leader'[parent[g]] = leader[parent[g]]
    BY <1>3, <2>2, <2>4
  <2> QED  BY <1>4, <1>9, <2>6, <2>7
<1>10. \A z \in zombie' :
         \/ z \in inherited'
         \/ /\ z \in zombie /\ parent'[z] = parent[z] /\ leader'[parent[z]] = leader[parent[z]]
            /\ z \in inherited => z \in inherited'
         \/ \A w \in asleep' : leader[w] # leader'[parent'[z]]
  <2> SUFFICES ASSUME NEW z \in zombie', z \notin inherited'
               PROVE  \/ /\ z \in zombie /\ parent'[z] = parent[z]
                         /\ leader'[parent[z]] = leader[parent[z]] /\ z \notin inherited
                      \/ \A w \in asleep' : leader[w] # leader'[parent'[z]]
    OBVIOUS
  <2>1. z \in zombie \/ (z = g /\ GroupDead(p) /\ ~InitDies(p))
    BY <1>1 DEF Left
  <2>2. CASE z \in zombie
    BY <1>4, <1>8, <2>2
  <2>3. CASE z = g /\ GroupDead(p) /\ ~InitDies(p)
    BY <1>9, <2>3
  <2> QED  BY <2>1, <2>2, <2>3
<1>11. Sleepers' /\ NoMissedExit'
  BY <1>2, <1>7, <1>10, NothingMissed DEF Sleepers
<1> QED  BY <1>2, <1>6, <1>11

---------------------------------------------------------------------------
(* Every step keeps the invariant.                                         *)
LEMMA NextInv == ProcessInv /\ [Next]_vars => ProcessInv'
<1> SUFFICES ASSUME ProcessInv, [Next]_vars PROVE ProcessInv'
  OBVIOUS
<1>1. CASE UNCHANGED vars
  BY <1>1 DEF vars, ProcessInv, Shapes, Queues, Tree, Root, Family, Led, Raised, Generations,
              Creating, Remains, Zombies, ZombieExact, Vforks, Sleepers, NoMissedExit,
              Exists, Exiting, Threads, Candidates, Children
<1>2. CASE Next
  <2> USE PidFacts
  <2>1. guest' = guest /\ guest \in Guests
    BY <1>2 DEF Next, ProcessInv, Shapes
  <2>2. guest.signals \subseteq {"KILL", "TSTP", "CONT"} /\ \A id \in 0..guest.pids : id \in Pid0
    BY <2>1
  <2>3. CASE HaltRound
    BY <2>1, <2>3, HaltKeeps
  <2>4. CASE ~HaltRound
    <3>1. PICK p \in Pid :
            \/ \E q \in Pid, thread, vfork \in BOOLEAN : Clone(p, q, thread, vfork)
            \/ CloneJoin(p) \/ CloneFails(p) \/ VforkReturns(p)
            \/ \E setuid \in BOOLEAN : Exec(p, setuid)
            \/ SetPdeath(p)
            \/ \E sig \in guest.signals : Kill(p, sig)
            \/ ReceiveStop(p) \/ Stop(p) \/ Continue(p)
            \/ ExitGroup(p) \/ ReceiveKill(p) \/ ExitThread(p) \/ ExitEnds(p)
            \/ \E id \in 0..guest.pids, nohang \in BOOLEAN : Wait(p, id, nohang)
            \/ WaitRetries(p)
      BY <1>2, <2>4 DEF Next, TaskNext
    <3>2. CASE \E q \in Pid, thread, vfork \in BOOLEAN : Clone(p, q, thread, vfork)
      BY <2>1, <3>2, CloneKeeps
    <3>3. CASE CloneJoin(p)
      BY <2>1, <3>3, CloneJoinKeeps
    <3>4. CASE CloneFails(p)
      BY <2>1, <3>4, CloneFailsKeeps
    <3>5. CASE \E setuid \in BOOLEAN : Exec(p, setuid)
      BY <2>1, <3>5, CallKeeps
    <3>6. CASE \E sig \in guest.signals : Kill(p, sig)
      BY <2>1, <2>2, <3>6, CallKeeps
    <3>7. CASE VforkReturns(p) \/ SetPdeath(p) \/ ReceiveStop(p) \/ Stop(p) \/ Continue(p)
      BY <2>1, <3>7, CallKeeps
    <3>8. CASE ExitGroup(p) \/ ReceiveKill(p)
      BY <2>1, <3>8, GroupExitKeeps DEF ExitGroup, ReceiveKill
    <3>9. CASE ExitThread(p) \/ ExitEnds(p)
      BY <2>1, <3>9, ExitKeeps DEF ExitThread, ExitEnds
    <3>10. CASE \E id \in 0..guest.pids, nohang \in BOOLEAN : Wait(p, id, nohang)
      <4>1. PICK id \in Pid0, nohang \in BOOLEAN : Wait(p, id, nohang)
        BY <2>2, <3>10
      <4>2. at[p] \in {"user", "wait"} /\ p \notin asleep /\ WaitPass(p, id, nohang)
        BY <4>1 DEF Wait, ProcessInv, Sleepers
      <4> QED  BY <2>1, <4>2, WaitKeeps
    <3>11. CASE WaitRetries(p)
      <4>1. want[p] \in Pid0 /\ at[p] \in {"user", "wait"} /\ p \notin asleep /\ WaitPass(p, want[p], FALSE)
        BY <3>11 DEF WaitRetries, ProcessInv, Shapes
      <4> QED  BY <2>1, <4>1, WaitKeeps
    <3> QED  BY <3>1, <3>2, <3>3, <3>4, <3>5, <3>6, <3>7, <3>8, <3>9, <3>10, <3>11
  <2> QED  BY <2>3, <2>4
<1> QED  BY <1>1, <1>2

(* Whoever reaches a task, a group or a parent through a pointer finds it, *)
(* and a group is a zombie exactly when its last thread has exited         *)
(* (kernel/exit.c, do_exit and reap_if_zombie; kernel/fork.c, copy_task),  *)
(* whatever tasks are made, killed or waited for.                          *)
THEOREM FamiliesAreSafe == Spec => []FamilySafe
<1>1. Init => ProcessInv
  BY InitInv
<1>2. ProcessInv /\ [Next]_vars => ProcessInv'
  BY NextInv
<1>3. ProcessInv => FamilySafe
  BY InvSafe
<1> QED  BY <1>1, <1>2, <1>3, PTL DEF Spec

(* Nobody sleeps in wait for a child that has died as its group's child,   *)
(* or in vfork for one that has ended (kernel/exit.c, do_wait;             *)
(* kernel/fork.c, vfork_notify).                                           *)
THEOREM EndsAreSeen == Spec => []EndIsSeen
<1>1. Init => ProcessInv
  BY InitInv
<1>2. ProcessInv /\ [Next]_vars => ProcessInv'
  BY NextInv
<1>3. ProcessInv => EndIsSeen
  BY InvSafe
<1> QED  BY <1>1, <1>2, <1>3, PTL DEF Spec

-----------------------------------------------------------------------------
(* Process groups, sessions and the controlling terminal.                  *)
MemberRec == [sid : Pids, pgid : Pids, parent : Pids \cup {0}, tty : BOOLEAN]
TtyRec == [refs : Int, session : Pids \cup {0}, fg : Pids \cup {0}, fds : SUBSET Pids]
Holders == {p \in Live : grpOf[p].tty}

GroupsType ==
  /\ grpOf \in [Live -> MemberRec] /\ Live \subseteq Pids /\ FirstPid \in Live
  /\ grpSession \in [Pids -> SUBSET Live] /\ grpGroup \in [Pids -> SUBSET Live]
  /\ grpTty \in TtyRec /\ grpTty.fds \subseteq Live
  /\ grpAstray \subseteq Live

(* ListsExact without counting.                                            *)
SessionsExact == \A i \in Pids : \A p \in Live : p \in grpSession[i] <=> grpOf[p].sid = i
OneList == \A p \in Live : \E i \in Pids : \A j \in Pids : p \in grpGroup[j] <=> j = i
OwnList == \A p \in Live \ grpAstray : p \in grpGroup[grpOf[p].pgid]

TtyCounted == grpTty.refs = Cardinality(grpTty.fds) + Cardinality(Holders)
TtyOfSession == \A p \in Holders : grpOf[p].sid = grpTty.session

GroupsInv ==
  GroupsType /\ SessionsExact /\ OneList /\ OwnList /\ SessionLed /\ TtyCounted /\ TtyOfSession

(* The sets that are counted are finite.                                   *)
LEMMA Finite ==
  ASSUME GroupsType
  PROVE  /\ IsFiniteSet(grpTty.fds) /\ IsFiniteSet(Holders)
         /\ Cardinality(grpTty.fds) \in Nat /\ Cardinality(Holders) \in Nat
<1>1. grpTty.fds \in SUBSET Pids /\ Holders \in SUBSET Pids
  BY DEF GroupsType, Holders
<1>2. IsFiniteSet(grpTty.fds) /\ IsFiniteSet(Holders)
  BY <1>1, FS_Subset, GroupsAssumption
<1> QED  BY <1>2, FS_CardinalityType

(* The invariant says what GroupsSafe says.                                *)
LEMMA GroupsInvSafe == GroupsInv => GroupsSafe
<1> SUFFICES ASSUME GroupsInv PROVE GroupsSafe
  OBVIOUS
<1> USE DEF GroupsInv
<1>1. \A i \in Pids : grpSession[i] = {p \in Live : grpOf[p].sid = i}
  BY DEF GroupsType, SessionsExact
<1>2. \A p \in Live : Cardinality({i \in Pids : p \in grpGroup[i]}) = 1
  <2> SUFFICES ASSUME NEW p \in Live PROVE Cardinality({i \in Pids : p \in grpGroup[i]}) = 1
    OBVIOUS
  <2>1. PICK i \in Pids : \A j \in Pids : p \in grpGroup[j] <=> j = i
    BY DEF OneList
  <2>2. {j \in Pids : p \in grpGroup[j]} = {i}
    BY <2>1
  <2> QED  BY <2>2, FS_Singleton
<1>3. TtyExact
  BY DEF TtyExact, TtyCounted, TtyOfSession, Holders
<1> QED  BY <1>1, <1>2, <1>3 DEF GroupsSafe, ListsExact, OwnList

(* At first there is init, in a session of its own without a terminal.     *)
LEMMA GroupsInitInv == GroupsInit => GroupsInv
<1> SUFFICES ASSUME GroupsInit PROVE GroupsInv
  OBVIOUS
<1> USE GroupsAssumption DEF GroupsInit
<1>1. /\ Live = {FirstPid} /\ ~grpOf[FirstPid].tty
      /\ grpOf[FirstPid].sid = FirstPid /\ grpOf[FirstPid].pgid = FirstPid
  BY DEF Live
<1>2. GroupsType
  <2>1. grpOf \in [Live -> MemberRec]
    BY <1>1 DEF MemberRec
  <2>2. /\ grpSession \in [Pids -> SUBSET Live] /\ grpGroup \in [Pids -> SUBSET Live]
    BY <1>1
  <2>3. grpTty \in TtyRec /\ grpTty.fds \subseteq Live
    BY DEF TtyRec
  <2> QED  BY <1>1, <2>1, <2>2, <2>3 DEF GroupsType
<1>3. SessionsExact /\ OneList /\ OwnList /\ SessionLed
  BY <1>1 DEF SessionsExact, OneList, OwnList, SessionLed
<1>4. Holders = {} /\ grpTty.fds = {} /\ grpTty.refs = 0
  BY <1>1 DEF Holders
<1>5. TtyCounted /\ TtyOfSession
  BY <1>4, FS_EmptySet DEF TtyCounted, TtyOfSession
<1> QED  BY <1>2, <1>3, <1>5 DEF GroupsInv

---------------------------------------------------------------------------
(* Fork puts the child on the lists of its parent; its number was on none, *)
(* and no list has that number for its head.                               *)
LEMMA ForkKeeps ==
  ASSUME GroupsInv, NEW p \in Pids, NEW q \in Pids, Fork(p, q)
  PROVE  GroupsInv'
<1> USE DEF GroupsInv
<1>1. /\ p \in Live /\ q \notin Live /\ grpSession[q] = {} /\ grpGroup[q] = {}
      /\ Live' = Live \cup {q}
  BY DEF Fork, PidEmpty, Live
<1>2. \A r \in Live : grpOf'[r] = grpOf[r]
  BY <1>1 DEF Fork
<1>3. /\ grpOf'[q] \in MemberRec /\ grpOf'[q].tty = grpOf[p].tty
      /\ grpOf'[q].sid = grpOf[p].sid /\ grpOf'[q].pgid = grpOf[p].pgid
  <2>1. grpOf'[q] = [grpOf[p] EXCEPT !.parent = p]
    BY <1>1 DEF Fork
  <2> QED  BY <1>1, <2>1 DEF GroupsType, MemberRec
<1>4. \A i \in Pids, r \in Live' :
        /\ r \in grpSession'[i] <=> IF r = q THEN p \in grpSession[i] ELSE r \in grpSession[i]
        /\ r \in grpGroup'[i] <=> IF r = q THEN p \in grpGroup[i] ELSE r \in grpGroup[i]
  BY <1>1 DEF Fork, SameList, GroupsType
<1>5. grpAstray' = IF p \in grpAstray THEN grpAstray \cup {q} ELSE grpAstray
  BY DEF Fork
<1>t. /\ grpTty'.fds = grpTty.fds /\ grpTty'.session = grpTty.session /\ grpTty' \in TtyRec
      /\ grpTty'.refs = IF grpOf[p].tty THEN grpTty.refs + 1 ELSE grpTty.refs
  BY DEF Fork, GroupsType, TtyRec
<1>m. \A r \in Live : grpOf[r].sid \in Pids /\ grpOf[r].pgid \in Pids
  BY DEF GroupsType, MemberRec
<1>6. GroupsType'
  <2>1. grpOf' \in [Live' -> MemberRec]
    BY <1>1, <1>2, <1>3 DEF GroupsType, Fork
  <2>2. grpSession' \in [Pids -> SUBSET Live'] /\ grpGroup' \in [Pids -> SUBSET Live']
    BY <1>1 DEF GroupsType, Fork, SameList
  <2> QED  BY <1>1, <1>5, <1>t, <2>1, <2>2 DEF GroupsType
<1>7. SessionsExact'
  BY <1>1, <1>2, <1>3, <1>4 DEF SessionsExact
<1>8. OneList'
  <2> SUFFICES ASSUME NEW r \in Live'
               PROVE  \E i \in Pids : \A j \in Pids : r \in grpGroup'[j] <=> j = i
    BY DEF OneList
  <2>1. CASE r = q
    <3>1. PICK i \in Pids : \A j \in Pids : p \in grpGroup[j] <=> j = i
      BY <1>1 DEF OneList
    <3> QED  BY <1>4, <2>1, <3>1
  <2>2. CASE r \in Live
    <3>1. PICK i \in Pids : \A j \in Pids : r \in grpGroup[j] <=> j = i
      BY <2>2 DEF OneList
    <3> QED  BY <1>1, <1>4, <2>2, <3>1
  <2> QED  BY <1>1, <2>1, <2>2
<1>9. OwnList'
  BY <1>1, <1>2, <1>3, <1>4, <1>5, <1>m DEF OwnList
<1>10. SessionLed'
  <2> SUFFICES ASSUME NEW r \in Live', grpSession'[r] # {} PROVE grpOf'[r].sid = r
    BY DEF SessionLed
  <2>1. r \in Pids /\ grpSession'[r] \subseteq Live'
    BY <1>6 DEF GroupsType
  <2>2. PICK o \in Live' : o \in grpSession'[r]
    BY <2>1
  <2>3. grpSession[r] # {}
    BY <1>4, <2>1, <2>2
  <2> QED  BY <1>1, <1>2, <2>3 DEF SessionLed
<1>11. TtyCounted'
  <2>1. Holders' = IF grpOf[p].tty THEN Holders \cup {q} ELSE Holders
    BY <1>1, <1>2, <1>3 DEF Holders
  <2>2. q \notin Holders
    BY <1>1 DEF Holders
  <2>4. Cardinality(Holders \cup {q}) = Cardinality(Holders) + 1
    BY <2>2, Finite, FS_AddElement
  <2> QED  BY <1>t, <2>1, <2>4, Finite DEF TtyCounted
<1>12. TtyOfSession'
  BY <1>1, <1>2, <1>3, <1>t DEF TtyOfSession, Holders
<1> QED  BY <1>6, <1>7, <1>8, <1>9, <1>10, <1>11, <1>12

(* What a process leaves behind when it leaves its session: a terminal     *)
(* that counts the others and is of their session.                         *)
LEMMA Leaving ==
  ASSUME GroupsInv, NEW p \in Live
  PROVE  /\ LeftSession(p, grpTty) \in TtyRec /\ LeftSession(p, grpTty).fds = grpTty.fds
         /\ LeftSession(p, grpTty).refs = Cardinality(grpTty.fds) + Cardinality(Holders \ {p})
         /\ \A r \in Holders \ {p} : grpOf[r].sid = LeftSession(p, grpTty).session
<1> USE DEF GroupsInv
<1>1. CASE ~grpOf[p].tty
  <2>1. LeftSession(p, grpTty) = grpTty
    BY <1>1 DEF LeftSession
  <2>2. Holders \ {p} = Holders
    BY <1>1 DEF Holders
  <2> QED  BY <2>1, <2>2 DEF GroupsType, TtyCounted, TtyOfSession
<1>2. CASE grpOf[p].tty
  <2> DEFINE none == Take(grpSession, p)[grpOf[p].sid] = {}
             left == IF none THEN 0 ELSE grpTty.session
             refs == grpTty.refs - 1
  <2>1. LeftSession(p, grpTty) = [grpTty EXCEPT !.refs = refs, !.session = left]
    BY <1>2 DEF LeftSession
  <2>2. grpTty \in TtyRec /\ refs \in Int /\ left \in Pids \cup {0}
    BY DEF GroupsType, TtyRec
  <2>3. \A r \in Holders \ {p} : grpOf[r].sid = left
    <3> SUFFICES ASSUME NEW r \in Holders \ {p} PROVE grpOf[r].sid = left
      OBVIOUS
    <3>1. p \in Holders /\ r \in Live /\ grpOf[p].sid \in Pids
      BY <1>2 DEF Holders, GroupsType, MemberRec
    <3>2. grpOf[r].sid = grpTty.session /\ grpOf[p].sid = grpTty.session
      BY <3>1 DEF TtyOfSession
    <3>3. r \in grpSession[grpOf[p].sid]
      BY <3>1, <3>2 DEF SessionsExact
    <3>4. ~none
      BY <3>1, <3>3 DEF Take
    <3> QED  BY <3>2, <3>4
  <2>4. Cardinality(Holders \ {p}) = Cardinality(Holders) - 1
    <3>1. p \in Holders
      BY <1>2 DEF Holders
    <3> QED  BY <3>1, Finite, FS_RemoveElement
  <2>5. refs = Cardinality(grpTty.fds) + Cardinality(Holders \ {p})
    BY <2>4, Finite DEF TtyCounted
  <2> HIDE DEF left, refs
  <2>6. /\ LeftSession(p, grpTty) \in TtyRec /\ LeftSession(p, grpTty).fds = grpTty.fds
        /\ LeftSession(p, grpTty).refs = refs /\ LeftSession(p, grpTty).session = left
    BY <2>1, <2>2 DEF TtyRec
  <2> QED  BY <2>3, <2>5, <2>6
<1> QED  BY <1>1, <1>2

(* A process that is reaped leaves its lists and its terminal.             *)
LEMMA ReapKeeps ==
  ASSUME GroupsInv, NEW p \in Pids, ReapMember(p)
  PROVE  GroupsInv'
<1> USE DEF GroupsInv
<1>1. /\ p \in Live /\ p # FirstPid /\ p \notin grpTty.fds
      /\ Live' = Live \ {p}
  BY DEF ReapMember, Live
<1>2. \A r \in Live' : /\ grpOf'[r] \in MemberRec /\ grpOf'[r].tty = grpOf[r].tty
                       /\ grpOf'[r].sid = grpOf[r].sid /\ grpOf'[r].pgid = grpOf[r].pgid
  <2> SUFFICES ASSUME NEW r \in Live'
               PROVE  /\ grpOf'[r] \in MemberRec /\ grpOf'[r].tty = grpOf[r].tty
                      /\ grpOf'[r].sid = grpOf[r].sid /\ grpOf'[r].pgid = grpOf[r].pgid
    OBVIOUS
  <2>1. grpOf[r] \in MemberRec
    BY <1>1 DEF GroupsType
  <2>2. grpOf'[r] = IF grpOf[r].parent = p THEN [grpOf[r] EXCEPT !.parent = FirstPid] ELSE grpOf[r]
    BY <1>1 DEF ReapMember
  <2>3. [grpOf[r] EXCEPT !.parent = FirstPid] \in MemberRec
    BY <2>1, GroupsAssumption DEF MemberRec
  <2> QED  BY <2>1, <2>2, <2>3 DEF MemberRec
<1>3. \A i \in Pids, r \in Live' : /\ r \in grpSession'[i] <=> r \in grpSession[i]
                                   /\ r \in grpGroup'[i] <=> r \in grpGroup[i]
  BY <1>1 DEF ReapMember, Take
<1>4. /\ grpTty' = LeftSession(p, grpTty) /\ grpAstray' = grpAstray \ {p}
      /\ Holders' = Holders \ {p}
  BY <1>1, <1>2 DEF ReapMember, Holders
<1>m. \A r \in Live : grpOf[r].sid \in Pids /\ grpOf[r].pgid \in Pids
  BY DEF GroupsType, MemberRec
<1>5. GroupsType'
  <2>1. grpOf' \in [Live' -> MemberRec]
    BY <1>1, <1>2 DEF ReapMember
  <2>2. grpSession' \in [Pids -> SUBSET Live'] /\ grpGroup' \in [Pids -> SUBSET Live']
    BY <1>1 DEF GroupsType, ReapMember, Take
  <2>3. grpTty' \in TtyRec /\ grpTty'.fds \subseteq Live'
    BY <1>1, <1>4, Leaving DEF GroupsType
  <2> QED  BY <1>1, <1>4, <2>1, <2>2, <2>3 DEF GroupsType
<1>6. SessionsExact'
  BY <1>1, <1>2, <1>3 DEF SessionsExact
<1>7. OneList'
  BY <1>1, <1>3 DEF OneList
<1>8. OwnList'
  BY <1>1, <1>2, <1>3, <1>4, <1>m DEF OwnList
<1>9. SessionLed'
  <2> SUFFICES ASSUME NEW r \in Live', grpSession'[r] # {} PROVE grpOf'[r].sid = r
    BY DEF SessionLed
  <2>1. r \in Pids /\ grpSession'[r] \subseteq Live'
    BY <1>5 DEF GroupsType
  <2>2. grpSession[r] # {}
    BY <1>3, <2>1
  <2> QED  BY <1>1, <1>2, <2>2 DEF SessionLed
<1>10. TtyCounted' /\ TtyOfSession'
  BY <1>1, <1>2, <1>4, Leaving DEF TtyCounted, TtyOfSession, Holders
<1> QED  BY <1>5, <1>6, <1>7, <1>8, <1>9, <1>10

(* setpgid changes the group and its list, and nothing else.               *)
LEMMA SetpgidKeeps ==
  ASSUME GroupsInv, NEW me \in Pids, NEW p \in Pids, NEW pgid \in Pids, Setpgid(me, p, pgid)
  PROVE  GroupsInv'
<1> USE DEF GroupsInv
<1>1. p \in Live /\ Live' = Live
  BY DEF Setpgid, Live
<1>2. \A r \in Live : /\ grpOf'[r] \in MemberRec /\ grpOf'[r].tty = grpOf[r].tty
                      /\ grpOf'[r].sid = grpOf[r].sid
                      /\ grpOf'[r].pgid = IF r = p THEN pgid ELSE grpOf[r].pgid
  <2>1. ASSUME NEW r \in Live, r # p PROVE grpOf'[r] = grpOf[r] /\ grpOf[r] \in MemberRec
    BY <1>1, <2>1 DEF Setpgid, GroupsType
  <2>2. grpOf[p] \in MemberRec /\ grpOf'[p] = [grpOf[p] EXCEPT !.pgid = pgid]
    BY <1>1 DEF Setpgid, GroupsType
  <2>3. /\ grpOf'[p] \in MemberRec /\ grpOf'[p].pgid = pgid
        /\ grpOf'[p].sid = grpOf[p].sid /\ grpOf'[p].tty = grpOf[p].tty
    BY <2>2 DEF MemberRec
  <2> QED  BY <1>1, <2>1, <2>3
<1>3. \A i \in Pids, r \in Live :
        r \in grpGroup'[i] <=> IF r = p THEN i = p ELSE r \in grpGroup[i]
  BY <1>1 DEF Setpgid, Take, Put
<1>4. /\ grpSession' = grpSession /\ grpTty' = grpTty
      /\ grpAstray' = IF p = pgid THEN grpAstray \ {p} ELSE grpAstray \cup {p}
  BY DEF Setpgid
<1>m. \A r \in Live : grpOf[r].sid \in Pids /\ grpOf[r].pgid \in Pids
  BY DEF GroupsType, MemberRec
<1>5. GroupsType'
  <2>1. grpOf' \in [Live' -> MemberRec]
    BY <1>1, <1>2 DEF Setpgid, GroupsType
  <2>2. grpGroup' \in [Pids -> SUBSET Live']
    BY <1>1 DEF GroupsType, Setpgid, Take, Put
  <2> QED  BY <1>1, <1>4, <2>1, <2>2 DEF GroupsType
<1>6. SessionsExact' /\ SessionLed'
  BY <1>1, <1>2, <1>4 DEF SessionsExact, SessionLed
<1>7. OneList'
  BY <1>1, <1>3 DEF OneList
<1>8. OwnList'
  BY <1>1, <1>2, <1>3, <1>4, <1>m DEF OwnList
<1>9. TtyCounted' /\ TtyOfSession'
  <2>1. Holders' = Holders
    BY <1>1, <1>2 DEF Holders
  <2> QED  BY <1>1, <1>2, <1>4, <2>1 DEF TtyCounted, TtyOfSession, Holders
<1> QED  BY <1>5, <1>6, <1>7, <1>8, <1>9

(* setsid: a process leaves its session and leads one of its own.          *)
LEMMA SetsidKeeps ==
  ASSUME GroupsInv, NEW p \in Pids, Setsid(p)
  PROVE  GroupsInv'
<1> USE DEF GroupsInv
<1>1. p \in Live /\ Live' = Live /\ grpOf[p].sid # p
  BY DEF Setsid, NewSession, Live
<1>2. \A r \in Live : /\ grpOf'[r] \in MemberRec
                      /\ grpOf'[r].sid = IF r = p THEN p ELSE grpOf[r].sid
                      /\ grpOf'[r].pgid = IF r = p THEN p ELSE grpOf[r].pgid
                      /\ grpOf'[r].tty <=> r # p /\ grpOf[r].tty
  <2>0. FALSE \in BOOLEAN
    OBVIOUS
  <2>1. ASSUME NEW r \in Live, r # p PROVE grpOf'[r] = grpOf[r] /\ grpOf[r] \in MemberRec
    BY <1>1, <2>1 DEF Setsid, NewSession, GroupsType
  <2>2. /\ grpOf[p] \in MemberRec
        /\ grpOf'[p] = [grpOf[p] EXCEPT !.sid = p, !.pgid = p, !.tty = FALSE]
    BY <1>1 DEF Setsid, NewSession, GroupsType
  <2>3. /\ grpOf'[p] \in MemberRec /\ grpOf'[p].sid = p /\ grpOf'[p].pgid = p
        /\ grpOf'[p].tty = FALSE
    BY <2>2 DEF MemberRec
  <2> QED  BY <1>1, <2>1, <2>3
<1>3. \A i \in Pids, r \in Live :
        /\ r \in grpSession'[i] <=> IF r = p THEN i = p ELSE r \in grpSession[i]
        /\ r \in grpGroup'[i] <=> IF r = p THEN i = p ELSE r \in grpGroup[i]
  BY <1>1 DEF Setsid, Take, Put
<1>4. /\ grpTty' = LeftSession(p, grpTty) /\ grpAstray' = grpAstray \ {p}
      /\ Holders' = Holders \ {p}
  BY <1>1, <1>2 DEF Setsid, Holders
<1>m. \A r \in Live : grpOf[r].sid \in Pids /\ grpOf[r].pgid \in Pids
  BY DEF GroupsType, MemberRec
<1>5. GroupsType'
  <2>1. grpOf' \in [Live' -> MemberRec]
    BY <1>1, <1>2 DEF Setsid, NewSession, GroupsType
  <2>2. grpSession' \in [Pids -> SUBSET Live'] /\ grpGroup' \in [Pids -> SUBSET Live']
    BY <1>1 DEF GroupsType, Setsid, Take, Put
  <2>3. grpTty' \in TtyRec /\ grpTty'.fds \subseteq Live'
    BY <1>1, <1>4, Leaving DEF GroupsType
  <2> QED  BY <1>1, <1>4, <2>1, <2>2, <2>3 DEF GroupsType
<1>6. SessionsExact'
  BY <1>1, <1>2, <1>3 DEF SessionsExact
<1>7. OneList'
  BY <1>1, <1>3 DEF OneList
<1>8. OwnList'
  BY <1>1, <1>2, <1>3, <1>4, <1>m DEF OwnList
<1>9. SessionLed'
  <2> SUFFICES ASSUME NEW r \in Live, grpSession'[r] # {}, r # p PROVE grpOf'[r].sid = r
    BY <1>1, <1>2 DEF SessionLed
  <2>1. r \in Pids /\ grpSession'[r] \subseteq Live
    BY <1>1, <1>5 DEF GroupsType
  <2>2. grpSession[r] # {}
    BY <1>3, <2>1
  <2> QED  BY <1>2, <2>2 DEF SessionLed
<1>10. TtyCounted' /\ TtyOfSession'
  <2>1. \A r \in Holders \ {p} : grpOf'[r].sid = grpOf[r].sid
    BY <1>2 DEF Holders
  <2> QED  BY <1>1, <1>4, <2>1, Leaving DEF TtyCounted, TtyOfSession
<1> QED  BY <1>5, <1>6, <1>7, <1>8, <1>9, <1>10

---------------------------------------------------------------------------
(* The steps of the terminal leave the lists, and all but who has it.      *)
OnlyTty ==
  /\ Live' = Live /\ UNCHANGED <<grpSession, grpGroup, grpAstray>>
  /\ grpOf' \in [Live -> MemberRec]
  /\ \A r \in Live : grpOf'[r].sid = grpOf[r].sid /\ grpOf'[r].pgid = grpOf[r].pgid
  /\ grpTty' \in TtyRec /\ grpTty'.fds \subseteq Live

(* So only the count and the session of the terminal remain to be shown.   *)
LEMMA TtySteps == ASSUME GroupsInv, OnlyTty, TtyCounted', TtyOfSession' PROVE GroupsInv'
<1> USE DEF GroupsInv, OnlyTty
<1>1. GroupsType'
  BY DEF GroupsType
<1>2. SessionsExact' /\ SessionLed'
  BY DEF SessionsExact, SessionLed
<1>3. OneList' /\ OwnList'
  BY DEF OneList, OwnList
<1> QED  BY <1>1, <1>2, <1>3

(* A terminal without a session has no process.                            *)
LEMMA FreeTty == ASSUME GroupsInv, grpTty.session = 0 PROVE Holders = {}
BY GroupsAssumption DEF GroupsInv, GroupsType, MemberRec, TtyOfSession, Holders

(* tty_set_controlling counts one more and takes session and group over.   *)
LEMMA Controlling ==
  ASSUME GroupsType, NEW p \in Live, ~grpOf[p].tty, NEW tty \in TtyRec
  PROVE  /\ Controlled(p, tty) \in TtyRec /\ Controlled(p, tty).fds = tty.fds
         /\ Controlled(p, tty).refs = tty.refs + 1
         /\ Controlled(p, tty).session = grpOf[p].sid
<1> DEFINE refs == tty.refs + 1  sid == grpOf[p].sid  pgid == grpOf[p].pgid
<1>1. refs \in Int /\ sid \in Pids /\ pgid \in Pids
  BY DEF GroupsType, MemberRec, TtyRec
<1>2. Controlled(p, tty) = [tty EXCEPT !.refs = refs, !.session = sid, !.fg = pgid]
  BY DEF Controlled
<1> HIDE DEF refs, sid, pgid
<1>3. /\ Controlled(p, tty) \in TtyRec /\ Controlled(p, tty).fds = tty.fds
      /\ Controlled(p, tty).refs = refs /\ Controlled(p, tty).session = sid
  BY <1>1, <1>2 DEF TtyRec
<1> QED  BY <1>3 DEF refs, sid

(* Opening the terminal counts a file, and the process that gets it.       *)
LEMMA OpenKeeps ==
  ASSUME GroupsInv, NEW p \in Pids, NEW noctty \in BOOLEAN, OpenTty(p, noctty)
  PROVE  GroupsInv'
<1> USE DEF GroupsInv
<1> DEFINE refs == grpTty.refs + 1
           fds == grpTty.fds \cup {p}
           tty == [grpTty EXCEPT !.refs = refs, !.fds = fds]
           ctty == ~noctty /\ grpTty.session = 0 /\ grpOf[p].sid = p
<1>1. /\ p \in Live /\ p \notin grpTty.fds
      /\ grpTty' = IF ctty THEN Controlled(p, tty) ELSE tty
      /\ grpOf' = IF ctty THEN [grpOf EXCEPT ![p].tty = TRUE] ELSE grpOf
      /\ UNCHANGED <<grpSession, grpGroup, grpAstray>>
  BY DEF OpenTty
<1>2. refs \in Int /\ fds \in SUBSET Pids /\ fds \subseteq Live /\ grpTty \in TtyRec
  BY <1>1 DEF GroupsType, TtyRec
<1>3. tty \in TtyRec /\ tty.refs = refs /\ tty.fds = fds /\ tty.session = grpTty.session
  <2> HIDE DEF refs, fds
  <2> QED  BY <1>2 DEF TtyRec
<1>4. Cardinality(fds) = Cardinality(grpTty.fds) + 1
  BY <1>1, Finite, FS_AddElement
<1>5. refs = Cardinality(fds) + Cardinality(Holders) /\ Cardinality(fds) \in Nat
  BY <1>4, Finite DEF TtyCounted
<1> HIDE DEF refs, fds, tty, ctty
<1>6. CASE ~ctty
  <2>1. grpTty' = tty /\ grpOf' = grpOf /\ Live' = Live /\ Holders' = Holders
    BY <1>1, <1>6 DEF Live, Holders
  <2>2. OnlyTty
    BY <1>1, <1>2, <1>3, <2>1 DEF OnlyTty, GroupsType
  <2>3. TtyCounted' /\ TtyOfSession'
    BY <1>3, <1>5, <2>1 DEF TtyCounted, TtyOfSession
  <2> QED  BY <2>2, <2>3, TtySteps
<1>7. CASE ctty
  <2>0. Holders = {}
    BY <1>7, FreeTty DEF ctty
  <2>1. ~grpOf[p].tty
    BY <1>1, <2>0 DEF Holders
  <2>2. /\ grpTty' \in TtyRec /\ grpTty'.fds = fds /\ grpTty'.refs = refs + 1
        /\ grpTty'.session = grpOf[p].sid
    BY <1>1, <1>3, <1>7, <2>1, Controlling
  <2>3. /\ Live' = Live /\ grpOf' \in [Live -> MemberRec]
        /\ \A r \in Live : /\ grpOf'[r].sid = grpOf[r].sid /\ grpOf'[r].pgid = grpOf[r].pgid
                           /\ grpOf'[r].tty <=> r = p \/ grpOf[r].tty
    <3>0. TRUE \in BOOLEAN
      OBVIOUS
    <3>1. Live' = Live /\ grpOf' = [grpOf EXCEPT ![p] = [grpOf[p] EXCEPT !.tty = TRUE]]
      BY <1>1, <1>7 DEF Live
    <3>2. ASSUME NEW r \in Live, r # p PROVE grpOf'[r] = grpOf[r] /\ grpOf[r] \in MemberRec
      BY <1>1, <3>1, <3>2 DEF GroupsType
    <3>3. grpOf[p] \in MemberRec /\ grpOf'[p] = [grpOf[p] EXCEPT !.tty = TRUE]
      BY <1>1, <3>1 DEF GroupsType
    <3>4. /\ grpOf'[p] \in MemberRec /\ grpOf'[p].tty = TRUE
          /\ grpOf'[p].sid = grpOf[p].sid /\ grpOf'[p].pgid = grpOf[p].pgid
      BY <3>3 DEF MemberRec
    <3>5. grpOf' \in [Live -> MemberRec]
      BY <1>1, <3>1, <3>2, <3>4 DEF GroupsType
    <3> QED  BY <3>1, <3>2, <3>4, <3>5
  <2>4. Holders' = {p}
    BY <1>1, <2>0, <2>3 DEF Holders
  <2>5. OnlyTty
    BY <1>1, <1>2, <2>2, <2>3 DEF OnlyTty
  <2>6. Cardinality({p}) = 1 /\ Cardinality({}) = 0
    BY FS_Singleton, FS_EmptySet
  <2>7. TtyCounted'
    BY <1>5, <2>0, <2>2, <2>4, <2>6 DEF TtyCounted
  <2>8. TtyOfSession'
    BY <1>1, <2>2, <2>3, <2>4 DEF TtyOfSession
  <2> QED  BY <2>5, <2>7, <2>8, TtySteps
<1> QED  BY <1>6, <1>7

(* Closing it counts one file less.                                        *)
LEMMA CloseKeeps ==
  ASSUME GroupsInv, NEW p \in Pids, CloseTty(p)
  PROVE  GroupsInv'
<1> USE DEF GroupsInv
<1> DEFINE refs == grpTty.refs - 1
           fds == grpTty.fds \ {p}
<1>1. /\ p \in grpTty.fds /\ grpTty' = [grpTty EXCEPT !.refs = refs, !.fds = fds]
      /\ grpOf' = grpOf /\ Live' = Live /\ Holders' = Holders
      /\ UNCHANGED <<grpSession, grpGroup, grpAstray>>
  BY DEF CloseTty, Live, Holders
<1>2. refs \in Int /\ fds \in SUBSET Pids /\ fds \subseteq Live /\ grpTty \in TtyRec
  BY DEF GroupsType, TtyRec
<1>3. Cardinality(fds) = Cardinality(grpTty.fds) - 1
  BY <1>1, Finite, FS_RemoveElement
<1>4. refs = Cardinality(fds) + Cardinality(Holders)
  BY <1>3, Finite DEF TtyCounted
<1> HIDE DEF refs, fds
<1>5. /\ grpTty' \in TtyRec /\ grpTty'.refs = refs /\ grpTty'.fds = fds
      /\ grpTty'.session = grpTty.session
  BY <1>1, <1>2 DEF TtyRec
<1>6. OnlyTty
  BY <1>1, <1>2, <1>5 DEF OnlyTty, GroupsType
<1>7. TtyCounted' /\ TtyOfSession'
  BY <1>1, <1>4, <1>5 DEF TtyCounted, TtyOfSession
<1> QED  BY <1>6, <1>7, TtySteps

(* Whoever has the terminal is on the list of the terminal's session: that *)
(* is where tiocsctty looks for the processes to take it from.             *)
LEMMA RobbedIsAll ==
  ASSUME GroupsInv, grpTty.session # 0
  PROVE  Robbed = Holders
<1>1. grpTty.session \in Pids
  BY DEF GroupsInv, GroupsType, TtyRec
<1>2. grpSession[grpTty.session] \subseteq Live
  BY <1>1 DEF GroupsInv, GroupsType
<1>3. \A r \in Holders : r \in grpSession[grpTty.session]
  BY <1>1 DEF GroupsInv, TtyOfSession, SessionsExact, Holders
<1> QED  BY <1>2, <1>3 DEF Robbed, Holders

(* tiocsctty takes the terminal from all who have it: p alone has it then. *)
LEMMA TiocscttyKeeps ==
  ASSUME GroupsInv, NEW p \in Pids, NEW force \in BOOLEAN, Tiocsctty(p, force)
  PROVE  GroupsInv'
<1> USE DEF GroupsInv
<1> DEFINE robbed == IF grpTty.session = 0 THEN {} ELSE Robbed
           refs == grpTty.refs - Cardinality(robbed)
           tty == [grpTty EXCEPT !.refs = refs]
<1>1. /\ p \in grpTty.fds /\ ~grpOf[p].tty
      /\ grpTty' = Controlled(p, tty)
      /\ grpOf' = [q \in Live |-> [grpOf[q] EXCEPT !.tty = q = p \/ (@ /\ q \notin robbed)]]
      /\ UNCHANGED <<grpSession, grpGroup, grpAstray>>
  BY DEF Tiocsctty
<1>2. robbed = Holders
  BY FreeTty, RobbedIsAll
<1>3. p \in Live /\ grpTty \in TtyRec /\ grpTty.fds \subseteq Live
  BY <1>1 DEF GroupsType
<1>4. refs = Cardinality(grpTty.fds) /\ refs \in Int
  <2>1. refs = grpTty.refs - Cardinality(Holders)
    BY <1>2
  <2> HIDE DEF refs
  <2> QED  BY <2>1, Finite DEF TtyCounted
<1>5. \A r \in Live : /\ grpOf'[r] \in MemberRec
                      /\ grpOf'[r].sid = grpOf[r].sid /\ grpOf'[r].pgid = grpOf[r].pgid
                      /\ grpOf'[r].tty <=> r = p
  <2> SUFFICES ASSUME NEW r \in Live
               PROVE  /\ grpOf'[r] \in MemberRec
                      /\ grpOf'[r].sid = grpOf[r].sid /\ grpOf'[r].pgid = grpOf[r].pgid
                      /\ grpOf'[r].tty <=> r = p
    OBVIOUS
  <2> DEFINE has == r = p \/ (grpOf[r].tty /\ r \notin robbed)
  <2>1. grpOf[r] \in MemberRec /\ grpOf'[r] = [grpOf[r] EXCEPT !.tty = has]
    BY <1>1 DEF GroupsType
  <2>2. has \in BOOLEAN /\ (has <=> r = p)
    BY <1>2 DEF Holders
  <2> HIDE DEF has
  <2>3. /\ grpOf'[r] \in MemberRec /\ grpOf'[r].tty = has
        /\ grpOf'[r].sid = grpOf[r].sid /\ grpOf'[r].pgid = grpOf[r].pgid
    BY <2>1, <2>2 DEF MemberRec
  <2> QED  BY <2>2, <2>3
<1>6. Live' = Live /\ grpOf' \in [Live -> MemberRec]
  BY <1>1, <1>5 DEF Live
<1>7. Holders' = {p}
  BY <1>3, <1>5, <1>6 DEF Holders
<1> HIDE DEF refs
<1>8. tty \in TtyRec /\ tty.fds = grpTty.fds /\ tty.refs = refs
  BY <1>3, <1>4 DEF TtyRec
<1> HIDE DEF tty, robbed
<1>9. /\ grpTty' \in TtyRec /\ grpTty'.fds = grpTty.fds /\ grpTty'.refs = refs + 1
      /\ grpTty'.session = grpOf[p].sid
  BY <1>1, <1>3, <1>8, Controlling
<1>10. OnlyTty
  BY <1>1, <1>3, <1>5, <1>6, <1>9 DEF OnlyTty
<1>11. TtyCounted'
  <2>1. Cardinality({p}) = 1
    BY FS_Singleton
  <2> QED  BY <1>4, <1>7, <1>9, <2>1 DEF TtyCounted
<1>12. TtyOfSession'
  BY <1>3, <1>5, <1>7, <1>9 DEF TtyOfSession
<1> QED  BY <1>10, <1>11, <1>12, TtySteps

(* TIOCSPGRP changes the foreground group only.                            *)
LEMMA TiocspgrpKeeps ==
  ASSUME GroupsInv, NEW p \in Pids, NEW g \in Pids, Tiocspgrp(p, g)
  PROVE  GroupsInv'
<1> USE DEF GroupsInv
<1>1. /\ grpTty' = [grpTty EXCEPT !.fg = g] /\ grpTty \in TtyRec
      /\ grpOf' = grpOf /\ Live' = Live /\ Holders' = Holders
      /\ UNCHANGED <<grpSession, grpGroup, grpAstray>>
  BY DEF Tiocspgrp, Live, Holders, GroupsType
<1>2. /\ grpTty' \in TtyRec /\ grpTty'.fds = grpTty.fds /\ grpTty'.refs = grpTty.refs
      /\ grpTty'.session = grpTty.session
  BY <1>1 DEF TtyRec
<1>3. OnlyTty
  BY <1>1, <1>2 DEF OnlyTty, GroupsType
<1>4. TtyCounted' /\ TtyOfSession'
  BY <1>1, <1>2 DEF TtyCounted, TtyOfSession
<1> QED  BY <1>3, <1>4, TtySteps

---------------------------------------------------------------------------
(* Every step keeps the invariant.                                         *)
LEMMA GroupsNextInv == GroupsInv /\ [GroupsNext]_grpVars => GroupsInv'
<1> SUFFICES ASSUME GroupsInv, [GroupsNext]_grpVars PROVE GroupsInv'
  OBVIOUS
<1>1. CASE GroupsNext
  <2>1. PICK p \in Pids, q \in Pids :
          \/ Fork(p, q) \/ (\E r \in Pids : Setpgid(p, q, r)) \/ Tiocspgrp(p, q)
          \/ p = q /\ \/ ReapMember(p) \/ Setsid(p) \/ CloseTty(p)
                      \/ \E b \in BOOLEAN : OpenTty(p, b) \/ Tiocsctty(p, b)
    BY <1>1 DEF GroupsNext
  <2>2. CASE Fork(p, q)
    BY <2>2, ForkKeeps
  <2>3. ASSUME NEW r \in Pids, Setpgid(p, q, r) PROVE GroupsInv'
    BY <2>3, SetpgidKeeps
  <2>4. CASE Tiocspgrp(p, q)
    BY <2>4, TiocspgrpKeeps
  <2>5. CASE ReapMember(p)
    BY <2>5, ReapKeeps
  <2>6. CASE Setsid(p)
    BY <2>6, SetsidKeeps
  <2>7. CASE CloseTty(p)
    BY <2>7, CloseKeeps
  <2>8. ASSUME NEW b \in BOOLEAN, OpenTty(p, b) PROVE GroupsInv'
    BY <2>8, OpenKeeps
  <2>9. ASSUME NEW b \in BOOLEAN, Tiocsctty(p, b) PROVE GroupsInv'
    BY <2>9, TiocscttyKeeps
  <2> QED  BY <2>1, <2>2, <2>3, <2>4, <2>5, <2>6, <2>7, <2>8, <2>9
<1>2. CASE UNCHANGED grpVars
  <2>1. /\ Live' = Live /\ Holders' = Holders
        /\ UNCHANGED <<grpOf, grpSession, grpGroup, grpTty, grpAstray>>
    BY <1>2 DEF grpVars, Live, Holders
  <2>2. OnlyTty
    BY <2>1 DEF OnlyTty, GroupsInv, GroupsType
  <2>3. TtyCounted' /\ TtyOfSession'
    BY <2>1 DEF GroupsInv, TtyCounted, TtyOfSession
  <2> QED  BY <2>2, <2>3, TtySteps
<1> QED  BY <1>1, <1>2

(* Over every sequence of fork, exit, setsid, setpgid, open and close of   *)
(* the terminal and its ioctls, and for any finite pid table: every        *)
(* process is on the list of its session and on one list of groups, a      *)
(* number that heads a session is its leader's, and the terminal's count   *)
(* is its open files and the processes that have it, all of its session.   *)
THEOREM GroupsAreSafe == GroupsSpec => []GroupsSafe
BY GroupsInitInv, GroupsNextInv, GroupsInvSafe, PTL DEF GroupsSpec

-----------------------------------------------------------------------------
(* ptrace.lock is the child's between its test and its sleep, and it is    *)
(* registered as a sleeper from the test until it wakes.                   *)
AtTheLock ==
  /\ (ptLock = "child") <=> ptChild \in {"test", "sleep"}
  /\ ptWaiting <=> ptChild \in {"sleep", "asleep"}
  /\ ptChild = "sleep" => ptStopped

(* Why a child that SIGKILL was sent to does not sleep on: the sender has  *)
(* yet to look for a sleeper, found one, or came too early.                *)
KillAttended ==
  ptKilled => \/ ptKiller = "wake" \/ "early" \in ptOdd \/ ptChild = "gone"
              \/ ptChild = "asleep" /\ "child" \in ptWoken

(* Why a tracer about to sleep has not missed the child's stop: SIGCHLD is *)
(* pending and will end the call.                                          *)
Reported == ptSignal /\ ptStopped /\ ptChild \in {"lock", "test", "sleep", "asleep"}
StopAttended ==
  /\ ptTracer = "wait" /\ Reported => ptChld \/ ptIgnores
  /\ ptTracer = "asleep" /\ ptChld => "tracer" \in ptWoken

Flags ==
  /\ ptStopped \in BOOLEAN /\ ptSignal \in BOOLEAN /\ ptWaiting \in BOOLEAN
  /\ ptKilled \in BOOLEAN /\ ptChld \in BOOLEAN /\ ptIgnores \in BOOLEAN

IInv ==
  /\ PtraceSafe
  /\ Flags
  /\ AtTheLock
  /\ KillAttended
  /\ StopAttended

(* Nothing is traced, sent or awaited yet.                                 *)
LEMMA InitIInv == PtInit => IInv
BY DEF PtInit, IInv, Flags, PtraceSafe, PtTypeOK, NeverRunning, ContinueWakes, NoMissedStop,
       AtTheLock, KillAttended, StopAttended, Reported

(* The steps of the child keep the invariant.                              *)
LEMMA ChildStep == ASSUME IInv, Child PROVE IInv'
<1> USE DEF IInv, Flags, PtraceSafe, PtTypeOK, NeverRunning, ContinueWakes, NoMissedStop,
            AtTheLock, KillAttended, StopAttended, Reported, ChildGoes, TracerSame
<1>1. CASE StopSet     BY <1>1 DEF StopSet
<1>2. CASE StopNotify  BY <1>2 DEF StopNotify, NotifyParent
<1>3. CASE StopSignal  BY <1>3 DEF StopSignal, NotifyParent
<1>4. CASE StopLock    BY <1>4 DEF StopLock
<1>5. CASE StopTest
  <2>1. Flags'                           BY <1>5 DEF StopTest
  <2>2. PtraceSafe'                      BY <1>5 DEF StopTest
  <2>3. AtTheLock'                       BY <1>5 DEF StopTest
  <2>4. KillAttended' /\ StopAttended'   BY <1>5 DEF StopTest
  <2> HIDE DEF Flags, PtraceSafe, AtTheLock, KillAttended, StopAttended
  <2> QED  BY <2>1, <2>2, <2>3, <2>4
<1>6. CASE StopSleep   BY <1>6 DEF StopSleep
<1>7. CASE StopWake
  <2>1. Flags'                           BY <1>7 DEF StopWake
  <2>2. PtraceSafe'                      BY <1>7 DEF StopWake
  <2>3. AtTheLock'                       BY <1>7 DEF StopWake
  <2>4. KillAttended' /\ StopAttended'   BY <1>7 DEF StopWake
  <2> HIDE DEF Flags, PtraceSafe, AtTheLock, KillAttended, StopAttended
  <2> QED  BY <2>1, <2>2, <2>3, <2>4
<1>8. CASE Die         BY <1>8 DEF Die
<1> QED  BY <1>1, <1>2, <1>3, <1>4, <1>5, <1>6, <1>7, <1>8 DEF Child

(* The steps of the tracer keep the invariant.                             *)
LEMMA TracerStep == ASSUME IInv, Tracer PROVE IInv'
<1> USE DEF IInv, Flags, PtraceSafe, PtTypeOK, NeverRunning, ContinueWakes, NoMissedStop,
            AtTheLock, KillAttended, StopAttended, Reported, TracerGoes, ChildSame
<1>1. CASE WaitChecks
  <2>1. UNCHANGED <<ptChild, ptKiller, ptWaiting, ptIgnores, ptStopped, ptLock, ptWoken,
                    ptKilled, ptChld, ptOdd>>
    BY <1>1 DEF WaitChecks
  <2>2. CASE ptTracer' = "idle" /\ ptSignal' = FALSE
    <3>1. Flags'
      BY <2>1, <2>2
    <3>2. PtraceSafe'
      BY <2>1, <2>2
    <3>3. AtTheLock'
      BY <2>1, <2>2
    <3>4. KillAttended' /\ StopAttended'
      BY <2>1, <2>2
    <3> HIDE DEF Flags, PtraceSafe, AtTheLock, KillAttended, StopAttended
    <3> QED  BY <3>1, <3>2, <3>3, <3>4
  <2>3. CASE ptTracer' = "wait" /\ ptSignal' = ptSignal /\ ~(ptStopped /\ ptSignal)
    BY <2>1, <2>3
  <2> QED  BY <1>1, <2>2, <2>3 DEF WaitChecks
<1>2. CASE TracerSleeps
  <2>1. UNCHANGED <<ptChild, ptKiller, ptWaiting, ptIgnores, ptStopped, ptSignal, ptLock,
                    ptKilled, ptOdd>>
    BY <1>2 DEF TracerSleeps
  <2>2. /\ "child" \in ptWoken' <=> "child" \in ptWoken
        /\ ptWoken' \subseteq {"child", "tracer"}
    BY <1>2 DEF TracerSleeps
  <2>3. CASE ptChld' = FALSE /\ ptTracer' = "idle"
    <3>1. Flags'
      BY <2>1, <2>2, <2>3
    <3>2. PtraceSafe'
      BY <2>1, <2>2, <2>3
    <3>3. AtTheLock'
      BY <2>1, <2>2, <2>3
    <3>4. KillAttended' /\ StopAttended'
      BY <2>1, <2>2, <2>3
    <3> HIDE DEF Flags, PtraceSafe, AtTheLock, KillAttended, StopAttended
    <3> QED  BY <3>1, <3>2, <3>3, <3>4
  <2>4. CASE ~ptChld /\ ptChld' = ptChld /\ ptTracer = "wait" /\ ptTracer' = "asleep"
    BY <2>1, <2>2, <2>4
  <2> QED  BY <1>2, <2>3, <2>4 DEF TracerSleeps
<1>3. CASE WaitWakes
  <2>1. /\ UNCHANGED <<ptChild, ptKiller, ptWaiting, ptIgnores, ptStopped, ptSignal, ptLock,
                       ptKilled, ptOdd>>
        /\ ptChld' = FALSE /\ ptTracer' = "idle"
    BY <1>3 DEF WaitWakes
  <2>2. /\ "child" \in ptWoken' <=> "child" \in ptWoken
        /\ ptWoken' \subseteq {"child", "tracer"}
    BY <1>3 DEF WaitWakes
  <2>3. Flags'
    BY <2>1, <2>2
  <2>4. PtraceSafe'
    BY <2>1, <2>2
  <2>5. AtTheLock'
    BY <2>1, <2>2
  <2>6. KillAttended' /\ StopAttended'
    BY <2>1, <2>2
  <2> HIDE DEF Flags, PtraceSafe, AtTheLock, KillAttended, StopAttended
  <2> QED  BY <2>3, <2>4, <2>5, <2>6
<1>4. CASE Inspect
  <2>1. /\ ptOdd \subseteq ptOdd'
        /\ ptChild # "run" => "running" \notin ptOdd'
    BY <1>4 DEF Inspect
  <2>2. ptChild # "run" /\ UNCHANGED <<ptChild, ptTracer, ptKiller, ptStopped, ptSignal, ptLock>>
    BY <1>4 DEF Inspect, FindChild
  <2>3. UNCHANGED <<ptWaiting, ptWoken, ptKilled, ptChld, ptIgnores>>
    BY <1>4 DEF Inspect
  <2> QED  BY <2>1, <2>2, <2>3
<1>5. CASE BadRequest    BY <1>5 DEF BadRequest, FindChild
<1>6. CASE Resume
  <2>1. Flags'                           BY <1>6 DEF Resume, FindChild, WakeChild
  <2>2. PtraceSafe'                      BY <1>6 DEF Resume, FindChild, WakeChild
  <2>3. AtTheLock'                       BY <1>6 DEF Resume, FindChild, WakeChild
  <2>4. KillAttended' /\ StopAttended'   BY <1>6 DEF Resume, FindChild, WakeChild
  <2> HIDE DEF Flags, PtraceSafe, AtTheLock, KillAttended, StopAttended
  <2> QED  BY <2>1, <2>2, <2>3, <2>4
<1>7. CASE KillRequest   BY <1>7 DEF KillRequest, FindChild, WakeChild
<1> QED
  BY <1>1, <1>2, <1>3, <1>4, <1>5, <1>6, <1>7
  DEF Tracer, Inspects, PeekData, PeekUser, PokeData, GetRegs, SetRegs, FpuRegs,
      TracerContinues, SingleStep

(* The steps of who sends SIGKILL keep the invariant.                      *)
LEMMA KillerStep == ASSUME IInv, Killer PROVE IInv'
<1> USE DEF IInv, Flags, PtraceSafe, PtTypeOK, NeverRunning, ContinueWakes, NoMissedStop,
            AtTheLock, KillAttended, StopAttended, Reported
<1>1. CASE KillAdds   BY <1>1 DEF KillAdds
<1>2. CASE KillWakes  BY <1>2 DEF KillWakes, WakeChild
<1> QED  BY <1>1, <1>2 DEF Killer

(* The invariant is inductive.                                             *)
LEMMA NextIInv == IInv /\ [PtNext]_ptVars => IInv'
<1> SUFFICES ASSUME IInv, [PtNext]_ptVars PROVE IInv'
  OBVIOUS
<1>1. CASE UNCHANGED ptVars
  BY <1>1 DEF ptVars, IInv, Flags, PtraceSafe, PtTypeOK, NeverRunning, ContinueWakes, NoMissedStop,
              AtTheLock, KillAttended, StopAttended, Reported
<1>2. CASE PtNext
  BY <1>2, ChildStep, TracerStep, KillerStep DEF PtNext
<1> QED  BY <1>1, <1>2

(* However often the child stops: no request finds it running, it does not *)
(* sleep on when it was continued, and no stop is missed.                  *)
THEOREM TracingSafe == PtSpec => []PtraceSafe
<1>1. IInv => PtraceSafe
  BY DEF IInv
<1> QED  BY <1>1, InitIInv, NextIInv, PTL DEF PtSpec

-----------------------------------------------------------------------------
(* kill.  A group lasts when a task that is never reaped keeps its entry   *)
(* in the table of pids.  For a group that does not, kill_group releases   *)
(* pids_lock twice (kernel/signal.c:715) and PidsLockHeld is false.        *)
Immortal == DOMAIN KillTasks \ (KillMortal \ KillCallers)
Lasting(g) ==
  \E p \in Immortal : p = g \/ (KillTasks[p].tgid = p /\ KillTasks[p].pgid = g)
LastingGroups ==
  /\ \A a \in KillArgs : a < -1 => Lasting(-a)
  /\ \A c \in KillCallers : Lasting(KillTasks[c].pgid)

(* A function that computes what the loop has found after i tasks.         *)
Loops(g, c, tasks, n) ==
  g = [i \in 0 .. n |->
         IF i = 0 THEN "EPERM"
         ELSE IF g[i - 1] = "EPERM" THEN Answer(c, tasks[i]) ELSE g[i - 1]]

(* The recursive function of LoopError exists.                             *)
LEMMA LoopsExists ==
  ASSUME NEW c, NEW tasks, NEW m \in Nat
  PROVE  \E g : Loops(g, c, tasks, m)
<1> DEFINE I == {n \in Nat : \E g : Loops(g, c, tasks, n)}
<1>1. 0 \in I
  <2>1. Loops([i \in 0 .. 0 |-> "EPERM"], c, tasks, 0)
    BY DEF Loops
  <2> QED BY <2>1
<1>2. ASSUME NEW n \in Nat, n \in I PROVE n + 1 \in I
  <2>1. PICK g : Loops(g, c, tasks, n)
    BY <1>2
  <2> DEFINE h == [i \in 0 .. n + 1 |->
                     IF i <= n THEN g[i]
                     ELSE IF g[i - 1] = "EPERM" THEN Answer(c, tasks[i]) ELSE g[i - 1]]
  <2>2. Loops(h, c, tasks, n + 1)
    <3>1. \A i \in 0 .. n : g[i] = IF i = 0 THEN "EPERM"
              ELSE IF g[i - 1] = "EPERM" THEN Answer(c, tasks[i]) ELSE g[i - 1]
      BY <2>1 DEF Loops
    <3>2. ASSUME NEW i \in 0 .. n + 1
          PROVE  h[i] = IF i = 0 THEN "EPERM"
              ELSE IF h[i - 1] = "EPERM" THEN Answer(c, tasks[i]) ELSE h[i - 1]
      BY <3>1
    <3>3. h = [i \in 0 .. n + 1 |-> h[i]]
      OBVIOUS
    <3> HIDE DEF h
    <3> QED BY <3>2, <3>3 DEF Loops
  <2> QED BY <2>2
<1>3. \A n \in Nat : n \in I
  <2> HIDE DEF I
  <2> QED BY <1>1, <1>2, SetInduction
<1> QED BY <1>3

(* The loop returns 0 when one of the tasks may be signalled.              *)
LEMMA LoopErrorIs ==
  ASSUME NEW c, NEW A, NEW tasks \in Seq(A)
  PROVE  LoopError(c, tasks) = IF \E i \in 1 .. Len(tasks) : Permitted(c, tasks[i])
                               THEN "ok" ELSE "EPERM"
<1> DEFINE g == CHOOSE f : Loops(f, c, tasks, Len(tasks))
<1>1. Len(tasks) \in Nat
  BY LenProperties
<1>2. Loops(g, c, tasks, Len(tasks))
  BY <1>1, LoopsExists
<1>3. LoopError(c, tasks) = g[Len(tasks)]
  BY DEF LoopError, Loops
<1> HIDE DEF g
<1>4. \A i \in 0 .. Len(tasks) :
        g[i] = IF i = 0 THEN "EPERM"
               ELSE IF g[i - 1] = "EPERM" THEN Answer(c, tasks[i]) ELSE g[i - 1]
  BY <1>2 DEF Loops
<1> DEFINE P(n) == g[n] = IF \E i \in 1 .. n : Permitted(c, tasks[i]) THEN "ok" ELSE "EPERM"
           I == {n \in Nat : P(n)}
<1>5. 0 \in I
  BY <1>1, <1>4
<1>6. ASSUME NEW n \in Nat, n < Len(tasks), n \in I PROVE n + 1 \in I
  <2>1. P(n)
    BY <1>6
  <2>2. g[n + 1] = IF g[n] = "EPERM" THEN Answer(c, tasks[n + 1]) ELSE g[n]
    BY <1>1, <1>4, <1>6
  <2>3. (\E i \in 1 .. n + 1 : Permitted(c, tasks[i])) <=>
          (\E i \in 1 .. n : Permitted(c, tasks[i])) \/ Permitted(c, tasks[n + 1])
    OBVIOUS
  <2>4. P(n + 1)
    BY <2>1, <2>2, <2>3 DEF Answer
  <2> QED BY <2>4
<1>7. Len(tasks) \in I
  <2> HIDE DEF I
  <2>1. \A n \in 0 .. Len(tasks) : n \in I
    BY <1>1, <1>5, <1>6, BoundedInduction
  <2> QED BY <1>1, <2>1
<1> QED BY <1>3, <1>7

(* The list of a set has all of its elements.                              *)
LEMMA ListOf ==
  ASSUME NEW S, IsFiniteSet(S)
  PROVE  /\ SetToSeq(S) \in Seq(S)
         /\ \A p : p \in S <=> \E i \in 1 .. Len(SetToSeq(S)) : SetToSeq(S)[i] = p
<1> DEFINE n == Cardinality(S)
           f == SetToSeq(S)
<1>1. n \in Nat /\ ExistsBijection(1 .. n, S)
  BY FS_CardinalityType
<1>2. PICK b \in Bijection(1 .. n, S) : TRUE
  BY <1>1 DEF ExistsBijection
<1>3. b \in [1 .. n -> S] /\ IsInjective(b)
  BY <1>2 DEF Bijection, Injection
<1>4. f \in [1 .. n -> S] /\ IsInjective(f)
  BY <1>3 DEF SetToSeq
<1>5. f \in Seq(S) /\ Len(f) = n /\ DOMAIN f = 1 .. n
  BY <1>1, <1>4, SeqDef, LenProperties
<1>6. f \in Surjection(1 .. n, S)
  <2>1. f \in Injection(1 .. n, S)
    BY <1>4 DEF Injection
  <2>2. IsFiniteSet(1 .. n) /\ Cardinality(1 .. n) = n
    BY <1>1, FS_Interval
  <2> HIDE DEF f
  <2> QED BY <2>1, <2>2, FS_Injection
<1> HIDE DEF f
<1> QED BY <1>4, <1>5, <1>6 DEF f, Surjection

(* The invariant: who is past the lock, that the lock is taken by exactly  *)
(* them, what a call has done before its body, and which groups it names.  *)
KillInv ==
  /\ killAt \in [KillCallers -> {"idle", "want", "in", "out"}]
  /\ killCall \in [KillCallers -> [pid : Int, tgid : {0} \cup DOMAIN KillTasks, asks : BOOLEAN]]
  /\ DOMAIN killSent = KillCallers /\ DOMAIN killErr = KillCallers
  /\ killLive \subseteq DOMAIN KillTasks /\ Immortal \subseteq killLive
  /\ killHolders = {c \in KillCallers : killAt[c] \in {"in", "out"}}
  /\ \A c, e \in killHolders : c = e
  /\ killLocked = (killHolders # {})
  /\ \A c \in KillCallers : killAt[c] # "out" => killSent[c] = {}
  /\ \A c \in KillCallers :
       /\ killCall[c].asks /\ killCall[c].pid < -1 => Lasting(-killCall[c].pid)
       /\ killAt[c] # "idle" => killCall[c].pid # 0
  /\ KillAnswers

(* A lasting group is known: kill_group finds its entry.                   *)
LEMMA LastingIsKnown ==
  ASSUME KillInv, NEW g, Lasting(g)
  PROVE  GroupKnown(g)
BY DEF KillInv, Lasting, GroupKnown, GroupMembers, Leaders

(* What the loops over tasks leave behind.                                 *)
LEMMA KillSomeDoes ==
  ASSUME KillInv, NEW c \in KillCallers, NEW T \in SUBSET DOMAIN KillTasks, KillSome(c, T)
  PROVE  /\ killSent' = [killSent EXCEPT ![c] = {p \in T : Permitted(c, p)}]
         /\ killErr' = [killErr EXCEPT ![c] = IF \E p \in T : Permitted(c, p) THEN "ok" ELSE "EPERM"]
         /\ killLocked' = killLocked
<1> DEFINE s == SetToSeq(T)
<1>1. IsFiniteSet(T)
  BY KillAssumption, FS_Subset
<1>2. s \in Seq(T) /\ \A p : p \in T <=> \E i \in 1 .. Len(s) : s[i] = p
  BY <1>1, ListOf
<1>3. LoopError(c, s) = IF \E i \in 1 .. Len(s) : Permitted(c, s[i]) THEN "ok" ELSE "EPERM"
  BY <1>2, LoopErrorIs
<1>4. killErr' = [killErr EXCEPT ![c] = LoopError(c, s)]
  BY DEF KillSome
<1> HIDE DEF s
<1>5. (\E i \in 1 .. Len(s) : Permitted(c, s[i])) <=> \E p \in T : Permitted(c, p)
  BY <1>2
<1> QED BY <1>3, <1>4, <1>5 DEF KillSome

(* What the body of a call that asks leaves behind.                        *)
BodyResult(c) ==
  /\ killLocked' = TRUE
  /\ DOMAIN killSent' = KillCallers /\ DOMAIN killErr' = KillCallers
  /\ \A e \in KillCallers : e # c => killSent'[e] = killSent[e] /\ killErr'[e] = killErr[e]
  /\ killCall[c].asks =>
       /\ killErr'[c] = "ok" <=> killSent'[c] # {}
       /\ \A p \in killSent'[c] : Permitted(c, p)
       /\ killErr'[c] = "EPERM" /\ killCall[c].pid < -1 =>
            \A p \in GroupMembers(-killCall[c].pid) : ~Permitted(c, p)

LEMMA KillBodyDoes ==
  ASSUME KillInv, NEW c \in KillCallers, KillBody(c)
  PROVE  BodyResult(c)
<1>1. PICK pid \in Int : pid = killCall[c].pid
  BY DEF KillInv
<1>2. killAt[c] = "in" /\ killSent[c] = {} /\ killLocked = TRUE
  BY DEF KillInv, KillBody, KillGoes
<1>3. DOMAIN killSent = KillCallers /\ DOMAIN killErr = KillCallers
  BY DEF KillInv
<1>4. ASSUME NEW T \in SUBSET DOMAIN KillTasks, KillSome(c, T),
             pid < -1 => GroupMembers(-pid) \subseteq T
      PROVE  BodyResult(c)
  <2>1. /\ killSent' = [killSent EXCEPT ![c] = {p \in T : Permitted(c, p)}]
        /\ killErr' = [killErr EXCEPT ![c] = IF \E p \in T : Permitted(c, p) THEN "ok" ELSE "EPERM"]
        /\ killLocked' = killLocked
    BY <1>4, KillSomeDoes
  <2>2. /\ killSent'[c] = {p \in T : Permitted(c, p)}
        /\ killErr'[c] = IF \E p \in T : Permitted(c, p) THEN "ok" ELSE "EPERM"
    BY <1>3, <2>1
  <2>3. killErr'[c] = "EPERM" /\ killCall[c].pid < -1 =>
            \A p \in GroupMembers(-killCall[c].pid) : ~Permitted(c, p)
    BY <1>1, <1>4, <2>2
  <2>4. /\ DOMAIN killSent' = KillCallers /\ DOMAIN killErr' = KillCallers
        /\ \A e \in KillCallers : e # c => killSent'[e] = killSent[e] /\ killErr'[e] = killErr[e]
    BY <1>3, <2>1
  <2>5. (killErr'[c] = "ok" <=> killSent'[c] # {}) /\ \A p \in killSent'[c] : Permitted(c, p)
    BY <2>2
  <2> QED BY <1>2, <2>1, <2>3, <2>4, <2>5 DEF BodyResult
<1>5. \A g : GroupMembers(g) \subseteq DOMAIN KillTasks
  BY DEF KillInv, GroupMembers, Leaders
<1>6. CASE ~killCall[c].asks
  BY <1>2, <1>3, <1>6 DEF KillBody, BodyResult
<1>7. CASE killCall[c].asks /\ pid = -1
  <2>1. KillSome(c, {p \in Leaders : p >= 2} \ {c})
    BY <1>1, <1>7 DEF KillBody
  <2>2. {p \in Leaders : p >= 2} \ {c} \subseteq DOMAIN KillTasks
    BY DEF KillInv, Leaders
  <2> QED BY <1>4, <1>7, <2>1, <2>2
<1>8. CASE killCall[c].asks /\ pid < -1
  <2>1. GroupKnown(-pid)
    BY <1>1, <1>8, LastingIsKnown DEF KillInv
  <2>2. KillSome(c, GroupMembers(-pid))
    BY <1>1, <1>8, <2>1 DEF KillBody
  <2> QED BY <1>4, <1>5, <2>2
<1>9. CASE killCall[c].asks /\ pid >= 0
  <2> DEFINE found == pid \in killLive /\ killCall[c].tgid \in {0, KillTasks[pid].tgid}
  <2>0. pid > 0
    <3>1. pid # 0
      BY <1>1, <1>2 DEF KillInv
    <3> QED BY <1>9, <3>1
  <2>1. CASE found
    <3>1. KillSome(c, {pid})
      BY <1>1, <1>9, <2>0, <2>1 DEF KillBody
    <3>2. {pid} \subseteq DOMAIN KillTasks
      BY <2>1 DEF KillInv
    <3> QED BY <1>4, <1>9, <3>1, <3>2
  <2>2. CASE ~found
    <3>1. /\ killErr' = [killErr EXCEPT ![c] = "ESRCH"] /\ killLocked' = (pid > 0)
          /\ killSent' = killSent
      BY <1>1, <1>9, <2>0, <2>2 DEF KillBody
    <3> QED BY <1>2, <1>3, <2>0, <3>1 DEF BodyResult
  <2> QED BY <2>1, <2>2
<1> QED BY <1>6, <1>7, <1>8, <1>9

(* The table is full, and nobody is in a call.                             *)
LEMMA KillInitInv == KillInit => KillInv
<1> SUFFICES ASSUME KillInit PROVE KillInv
  OBVIOUS
<1>1. NoKill \in [pid : Int, tgid : {0} \cup DOMAIN KillTasks, asks : BOOLEAN]
  BY DEF NoKill
<1>2. \A c \in KillCallers : killCall[c].pid = 0
  BY DEF KillInit, NoKill
<1>3. Immortal \subseteq DOMAIN KillTasks
  BY DEF Immortal
<1>4. /\ killAt \in [KillCallers -> {"idle", "want", "in", "out"}]
      /\ \A c \in KillCallers : killAt[c] = "idle" /\ killSent[c] = {}
      /\ killHolders = {} /\ killLocked = FALSE /\ killLive = DOMAIN KillTasks
      /\ DOMAIN killSent = KillCallers /\ DOMAIN killErr = KillCallers
  BY DEF KillInit
<1>5. killCall \in [KillCallers -> [pid : Int, tgid : {0} \cup DOMAIN KillTasks, asks : BOOLEAN]]
  BY <1>1 DEF KillInit
<1>6. KillAnswers
  BY <1>4 DEF KillAnswers
<1>7. killHolders = {c \in KillCallers : killAt[c] \in {"in", "out"}}
  BY <1>4
<1>8. killLocked = (killHolders # {}) /\ \A c, e \in killHolders : c = e
  BY <1>4
<1>9. \A c \in KillCallers :
        /\ killCall[c].asks /\ killCall[c].pid < -1 => Lasting(-killCall[c].pid)
        /\ killAt[c] # "idle" => killCall[c].pid # 0
  BY <1>2, <1>4
<1> QED BY <1>3, <1>4, <1>5, <1>6, <1>7, <1>8, <1>9 DEF KillInv

(* A call begins: it is not past the lock yet.                             *)
LEMMA KillEnters ==
  ASSUME KillInv, NEW c \in KillCallers, NEW call,
         call \in [pid : Int, tgid : {0} \cup DOMAIN KillTasks, asks : BOOLEAN],
         call.pid # 0, call.asks /\ call.pid < -1 => Lasting(-call.pid),
         KillGoes(c, "idle", "want"), killCall' = [killCall EXCEPT ![c] = call],
         UNCHANGED <<killHolders, killLocked, killLive, killSent, killErr>>
  PROVE  KillInv'
<1>1. /\ killAt[c] = "idle"
      /\ killAt' \in [KillCallers -> {"idle", "want", "in", "out"}] /\ killAt'[c] = "want"
      /\ \A e \in KillCallers : e # c => killAt'[e] = killAt[e]
  BY DEF KillInv, KillGoes
<1>2. /\ killCall' \in [KillCallers -> [pid : Int, tgid : {0} \cup DOMAIN KillTasks, asks : BOOLEAN]]
      /\ killCall'[c] = call
      /\ \A e \in KillCallers : e # c => killCall'[e] = killCall[e]
  BY DEF KillInv
<1>3. killHolders' = {e \in KillCallers : killAt'[e] \in {"in", "out"}}
  BY <1>1 DEF KillInv
<1>4. \A e \in KillCallers :
        /\ killCall'[e].asks /\ killCall'[e].pid < -1 => Lasting(-killCall'[e].pid)
        /\ killAt'[e] # "idle" => killCall'[e].pid # 0
  BY <1>1, <1>2 DEF KillInv
<1>5. \A e \in KillCallers : killAt'[e] = "out" => killAt[e] = "out" /\ killCall'[e] = killCall[e]
  BY <1>1, <1>2
<1>6. KillAnswers'
  BY <1>5 DEF KillInv, KillAnswers, GroupMembers, Leaders
<1>7. \A e \in KillCallers : killAt'[e] # "out" => killSent'[e] = {}
  BY <1>1 DEF KillInv
<1> QED BY <1>1, <1>2, <1>3, <1>4, <1>6, <1>7 DEF KillInv

LEMMA KillEnterInv ==
  ASSUME LastingGroups, KillInv, NEW c \in KillCallers, NEW pid \in KillArgs,
         NEW tgid \in {0} \cup DOMAIN KillTasks, KillEnter(c, pid, tgid)
  PROVE  KillInv'
<1> DEFINE q == IF pid = 0 THEN -KillTasks[c].pgid ELSE pid
           call == [pid |-> q, tgid |-> tgid, asks |-> TRUE]
<1>1. KillTasks[c].pgid \in Nat \ {0} /\ pid \in Int
  BY KillAssumption
<1>2. q \in Int /\ q # 0
  BY <1>1
<1>3. q < -1 => Lasting(-q)
  <2>1. CASE pid = 0
    <3>1. -q = KillTasks[c].pgid
      BY <1>1, <2>1
    <3> QED BY <3>1 DEF LastingGroups
  <2>2. CASE pid # 0
    BY <2>2 DEF LastingGroups
  <2> QED BY <2>1, <2>2
<1>4. killCall' = [killCall EXCEPT ![c] = call]
  BY DEF KillEnter
<1>5. KillGoes(c, "idle", "want") /\ UNCHANGED <<killHolders, killLocked, killLive, killSent, killErr>>
  BY DEF KillEnter
<1> HIDE DEF q
<1>6. call \in [pid : Int, tgid : {0} \cup DOMAIN KillTasks, asks : BOOLEAN] /\ call.pid = q
  BY <1>2
<1> HIDE DEF call
<1> QED BY <1>2, <1>3, <1>4, <1>5, <1>6, KillEnters

LEMMA GroupSignalInv ==
  ASSUME KillInv, NEW c \in KillCallers,
         NEW g \in {KillTasks[p].pgid : p \in DOMAIN KillTasks}, GroupSignal(c, g)
  PROVE  KillInv'
<1> DEFINE call == [pid |-> -g, tgid |-> 0, asks |-> FALSE]
<1>1. g \in Nat \ {0}
  BY KillAssumption
<1>2. -g \in Int /\ -g # 0
  BY <1>1
<1>3. call \in [pid : Int, tgid : {0} \cup DOMAIN KillTasks, asks : BOOLEAN]
      /\ call.pid # 0 /\ ~call.asks
  BY <1>2
<1>4. /\ KillGoes(c, "idle", "want") /\ killCall' = [killCall EXCEPT ![c] = call]
      /\ UNCHANGED <<killHolders, killLocked, killLive, killSent, killErr>>
  BY DEF GroupSignal
<1> HIDE DEF call
<1> QED BY <1>3, <1>4, KillEnters

(* The lock is free: nobody else is past it.                               *)
LEMMA KillLockInv ==
  ASSUME KillInv, NEW c \in KillCallers, KillLock(c)
  PROVE  KillInv'
<1>1. /\ killAt[c] = "want"
      /\ killAt' \in [KillCallers -> {"idle", "want", "in", "out"}] /\ killAt'[c] = "in"
      /\ \A e \in KillCallers : e # c => killAt'[e] = killAt[e]
  BY DEF KillInv, KillLock, KillGoes
<1>2. killHolders = {} /\ killHolders' = {c} /\ killLocked' = TRUE
  BY DEF KillInv, KillLock
<1>3. UNCHANGED <<killCall, killLive, killSent, killErr>>
  BY DEF KillLock
<1>4. killHolders' = {e \in KillCallers : killAt'[e] \in {"in", "out"}}
  BY <1>1, <1>2 DEF KillInv
<1>5. \A e \in KillCallers : killAt'[e] # "out"
  BY <1>1, <1>2 DEF KillInv
<1>6. KillAnswers'
  BY <1>5 DEF KillAnswers
<1>7. \A e \in KillCallers : killAt[e] # "out" /\ (killAt'[e] # "idle" => killAt[e] # "idle")
  BY <1>1, <1>2 DEF KillInv
<1>8. \A e \in KillCallers : killSent'[e] = {}
  BY <1>3, <1>7 DEF KillInv
<1>9. \A e \in KillCallers :
        /\ killCall'[e].asks /\ killCall'[e].pid < -1 => Lasting(-killCall'[e].pid)
        /\ killAt'[e] # "idle" => killCall'[e].pid # 0
  BY <1>3, <1>7 DEF KillInv
<1> QED BY <1>1, <1>2, <1>3, <1>4, <1>6, <1>8, <1>9 DEF KillInv

LEMMA KillBodyInv ==
  ASSUME KillInv, NEW c \in KillCallers, KillBody(c)
  PROVE  KillInv'
<1>1. BodyResult(c)
  BY KillBodyDoes
<1>2. /\ killAt[c] = "in"
      /\ killAt' \in [KillCallers -> {"idle", "want", "in", "out"}] /\ killAt'[c] = "out"
      /\ \A e \in KillCallers : e # c => killAt'[e] = killAt[e]
  BY DEF KillInv, KillBody, KillGoes
<1>3. UNCHANGED <<killCall, killHolders, killLive>>
  BY DEF KillBody
<1>4. c \in killHolders /\ \A e \in KillCallers : killAt[e] = "out" => e = c
  BY <1>2 DEF KillInv
<1>5. killHolders' = {e \in KillCallers : killAt'[e] \in {"in", "out"}}
  BY <1>2, <1>3 DEF KillInv
<1>6. KillAnswers'
  <2>1. \A e \in KillCallers : GroupMembers(-killCall[e].pid)' = GroupMembers(-killCall[e].pid)
    BY <1>3 DEF GroupMembers, Leaders
  <2> SUFFICES ASSUME NEW e \in KillCallers, killAt'[e] = "out", killCall'[e].asks
               PROVE  /\ killErr'[e] = "ok" <=> killSent'[e] # {}
                      /\ \A p \in killSent'[e] : Permitted(e, p)
                      /\ killErr'[e] = "EPERM" /\ killCall'[e].pid < -1 =>
                           \A p \in GroupMembers(-killCall[e].pid) : ~Permitted(e, p)
    BY <1>3, <2>1 DEF KillAnswers, Permitted
  <2>2. e = c
    BY <1>2, <1>4
  <2> QED BY <1>1, <1>3, <2>1, <2>2 DEF BodyResult
<1>7. \A e \in KillCallers : killAt'[e] # "out" => killSent'[e] = {}
  BY <1>1, <1>2 DEF KillInv, BodyResult
<1>8. DOMAIN killSent' = KillCallers /\ DOMAIN killErr' = KillCallers /\ killLocked' = TRUE
  BY <1>1 DEF BodyResult
<1>9. \A e \in KillCallers :
        /\ killCall'[e].asks /\ killCall'[e].pid < -1 => Lasting(-killCall'[e].pid)
        /\ killAt'[e] # "idle" => killCall'[e].pid # 0
  BY <1>2, <1>3 DEF KillInv
<1> QED BY <1>2, <1>3, <1>4, <1>5, <1>6, <1>7, <1>8, <1>9 DEF KillInv

LEMMA KillUnlockInv ==
  ASSUME KillInv, NEW c \in KillCallers, KillUnlock(c)
  PROVE  KillInv'
<1>1. /\ killAt[c] = "out"
      /\ killAt' \in [KillCallers -> {"idle", "want", "in", "out"}] /\ killAt'[c] = "idle"
      /\ \A e \in KillCallers : e # c => killAt'[e] = killAt[e]
  BY DEF KillInv, KillUnlock, KillGoes
<1>2. c \in killHolders /\ \A e \in KillCallers : e # c => killAt[e] \notin {"in", "out"}
  BY <1>1 DEF KillInv
<1>3. killHolders' = {} /\ killLocked' = FALSE /\ killLive' = killLive
  BY <1>2 DEF KillInv, KillUnlock
<1>4. \A e \in KillCallers : killAt'[e] \notin {"in", "out"}
  BY <1>1, <1>2
<1>5. NoKill \in [pid : Int, tgid : {0} \cup DOMAIN KillTasks, asks : BOOLEAN] /\ NoKill.pid = 0
  BY DEF NoKill
<1>6. /\ killCall' \in [KillCallers -> [pid : Int, tgid : {0} \cup DOMAIN KillTasks, asks : BOOLEAN]]
      /\ killCall'[c] = NoKill
      /\ \A e \in KillCallers : e # c => killCall'[e] = killCall[e]
  BY <1>5 DEF KillInv, KillUnlock
<1>7. \A e \in KillCallers :
        /\ killCall'[e].asks /\ killCall'[e].pid < -1 => Lasting(-killCall'[e].pid)
        /\ killAt'[e] # "idle" => killCall'[e].pid # 0
  BY <1>1, <1>5, <1>6 DEF KillInv
<1>8. /\ DOMAIN killSent' = KillCallers /\ DOMAIN killErr' = KillCallers
      /\ \A e \in KillCallers : killSent'[e] = {}
  BY <1>1, <1>2 DEF KillInv, KillUnlock
<1>9. KillAnswers'
  BY <1>4 DEF KillAnswers
<1> QED BY <1>1, <1>3, <1>4, <1>6, <1>7, <1>8, <1>9 DEF KillInv

(* A process is reaped under the lock, when no call has its answer.        *)
LEMMA KillReapedInv ==
  ASSUME KillInv, NEW p \in KillMortal, KillReaped(p)
  PROVE  KillInv'
<1>1. killHolders = {} /\ p \in KillMortal \ KillCallers
  BY DEF KillInv, KillReaped
<1>2. UNCHANGED <<killAt, killCall, killHolders, killLocked, killSent, killErr>>
  BY DEF KillReaped
<1>3. killLive' \subseteq DOMAIN KillTasks /\ Immortal \subseteq killLive'
  BY <1>1 DEF KillInv, KillReaped, Immortal
<1>4. KillAnswers'
  BY <1>1, <1>2 DEF KillInv, KillAnswers
<1> QED BY <1>2, <1>3, <1>4 DEF KillInv

(* kill, tgkill, tkill and the signals of a terminal, by any number of     *)
(* threads while processes are reaped: kill answers what it did, and       *)
(* pids_lock has one holder from each lock to its unlock, as long as the   *)
(* groups that are named last.                                             *)
THEOREM KillsAreSafe ==
  ASSUME LastingGroups
  PROVE  KillSpec => []KillSafe
<1>1. KillInv /\ [KillNext]_killVars => KillInv'
  <2> SUFFICES ASSUME KillInv, [KillNext]_killVars PROVE KillInv'
    OBVIOUS
  <2>1. ASSUME NEW c \in KillCallers, NEW pid \in KillArgs,
               NEW tgid \in {0} \cup DOMAIN KillTasks, KillEnter(c, pid, tgid)
        PROVE  KillInv'
    BY <2>1, KillEnterInv
  <2>2. ASSUME NEW c \in KillCallers, KillLock(c) PROVE KillInv'
    BY <2>2, KillLockInv
  <2>3. ASSUME NEW c \in KillCallers, KillBody(c) PROVE KillInv'
    BY <2>3, KillBodyInv
  <2>4. ASSUME NEW c \in KillCallers, KillUnlock(c) PROVE KillInv'
    BY <2>4, KillUnlockInv
  <2>5. ASSUME NEW c \in KillCallers,
               NEW g \in {KillTasks[p].pgid : p \in DOMAIN KillTasks}, GroupSignal(c, g)
        PROVE  KillInv'
    BY <2>5, GroupSignalInv
  <2>6. ASSUME NEW p \in KillMortal, KillReaped(p) PROVE KillInv'
    BY <2>6, KillReapedInv
  <2>7. CASE UNCHANGED killVars
    BY <2>7 DEF KillInv, KillAnswers, GroupMembers, Leaders, killVars
  <2> QED BY <2>1, <2>2, <2>3, <2>4, <2>5, <2>6, <2>7 DEF KillNext
<1>2. KillInv => KillSafe
  BY DEF KillInv, KillSafe, PidsLockHeld
<1> QED BY <1>1, <1>2, KillInitInv, PTL DEF KillSpec
=============================================================================
