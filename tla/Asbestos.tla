------------------------------ MODULE Asbestos ------------------------------
(***************************************************************************)
(* asbestos/asbestos.c: the translated blocks of one address space, shared *)
(* by its threads.  A block is compiled once, found again by address,      *)
(* jumped to from other blocks whose jumps are patched, thrown out when    *)
(* its page is written or unmapped (jetsam), and freed when no thread can  *)
(* be inside.  Sections under asbestos->lock are single steps; a thread    *)
(* holds jetsam_lock for reading from "loop" to "exit".                    *)
(***************************************************************************)
EXTENDS Integers, FiniteSets, SequencesExt

CONSTANTS Addrs,        \* guest addresses where blocks start
          Jumps,        \* address -> <<target, target>>, "none" for no such jump
          Calls,        \* addresses of blocks that end in a call (jump 2 is the return)
          PagesOf,      \* address -> pages the block lies on
          AsbThreads,   \* threads of the address space
          Blocks        \* memory for blocks (bound)

Nil == 0

ASSUME AsbAssumption == IsFiniteSet(Blocks) /\ Nil \notin Blocks

VARIABLES
  asbBlock,    \* block -> state ("free", "live", "jetsam"), addr, jump (patched
               \* targets), from (blocks whose jump i leads here)
  asbThread,   \* thread -> place, the block it enters, last_block, the block in
               \* its return cache, and its cache of blocks by address
  asbCount     \* num_blocks

asbVars == <<asbBlock, asbThread, asbCount>>

NoBlock == [state |-> "free", addr |-> "none", jump |-> <<Nil, Nil>>, from |-> <<{}, {}>>]
Outside(at) == [at |-> at, blk |-> Nil, last |-> Nil, ret |-> Nil, cache |-> [a \in Addrs |-> Nil]]

AsbInit ==
  /\ asbBlock = [b \in Blocks |-> NoBlock]
  /\ asbThread = [t \in AsbThreads |-> Outside("out")]
  /\ asbCount = 0

Having(s) == {b \in Blocks : asbBlock[b].state = s}
Executing == {t \in AsbThreads : asbThread[t].at \in {"loop", "chain", "run", "exit"}}

-----------------------------------------------------------------------------
\* fiber_lookup.
Lookup(a) == {b \in Having("live") : asbBlock[b].addr = a}

\* gen_start to gen_end and fiber_insert.
Compiled(a) == [NoBlock EXCEPT !.state = "live", !.addr = a]

\* fiber_block_disconnect: no other block jumps to b or is listed as jumping to
\* it any more.  The jumps of b itself stay patched.
LeftLinked(blocks, b) ==
  [c \in Blocks |->
     IF c = b THEN [blocks[c] EXCEPT !.state = "jetsam", !.from = <<{}, {}>>]
     ELSE [blocks[c] EXCEPT !.from = [i \in 1..2 |-> @[i] \ {b}]]]
Disconnected(blocks, b) ==
  [c \in Blocks |->
     IF c = b THEN [blocks[c] EXCEPT !.state = "jetsam", !.from = <<{}, {}>>]
     ELSE [blocks[c] EXCEPT
             !.jump = [i \in 1..2 |-> IF c \in blocks[b].from[i] THEN Nil ELSE @[i]],
             !.from = [i \in 1..2 |-> @[i] \ {b}]]]

\* cpu_run_to_interrupt, cpu_step_to_interrupt.
Enter(t) ==
  /\ asbThread[t].at = "out"
  /\ asbThread' = [asbThread EXCEPT ![t] = Outside("loop")]
  /\ UNCHANGED <<asbBlock, asbCount>>

\* The block for the next instruction: from the thread's cache, from the table,
\* or compiled.
Fetch(t, a) ==
  /\ asbThread[t].at = "loop"
  /\ \E b \in Blocks :
       LET hit == asbThread[t].cache[a]
           new == hit = Nil /\ Lookup(a) = {}
       IN  /\ IF hit # Nil THEN b = hit
              ELSE IF new THEN asbBlock[b].state = "free" ELSE b \in Lookup(a)
           /\ asbBlock' = IF new THEN [asbBlock EXCEPT ![b] = Compiled(a)] ELSE asbBlock
           /\ asbCount' = IF new THEN asbCount + 1 ELSE asbCount
           /\ asbThread' = [asbThread EXCEPT ![t].at = "chain", ![t].blk = b, ![t].cache[a] = b]

\* The jumps of the last block that lead to this one are patched, unless either
\* is jetsam by now.
ChainAnyway(last, b) == TRUE
Chainable(last, b) == asbBlock[last].state = "live" /\ asbBlock[b].state = "live"
Patched(last, b) ==
  {i \in 1..2 : Jumps[asbBlock[last].addr][i] = asbBlock[b].addr /\ asbBlock[last].jump[i] = Nil}
Chain(t) ==
  LET b == asbThread[t].blk  last == asbThread[t].last IN
  /\ asbThread[t].at = "chain"
  /\ asbBlock' =
       IF last = Nil \/ ~Chainable(last, b) THEN asbBlock
       ELSE [c \in Blocks |->
              [asbBlock[c] EXCEPT
                 !.jump = [i \in 1..2 |-> IF c = last /\ i \in Patched(last, b) THEN b ELSE @[i]],
                 !.from = [i \in 1..2 |-> IF c = b /\ i \in Patched(last, b)
                                          THEN @[i] \cup {last} ELSE @[i]]]]
  /\ asbThread' = [asbThread EXCEPT ![t].at = "run", ![t].last = b, ![t].blk = Nil]
  /\ UNCHANGED asbCount

\* fiber_enter: translated code runs.  A patched jump leads on to another block
\* (fiber_ret_chain); a call remembers its block in the return cache, and a
\* return goes on from there or leaves with that block as the last one.
Jump(t, i) ==
  LET b == asbThread[t].last IN
  /\ asbThread[t].at = "run"
  /\ asbBlock[b].addr \in Calls => i = 1
  /\ asbThread' = [asbThread EXCEPT ![t].last = IF asbBlock[b].jump[i] # Nil
                                                THEN asbBlock[b].jump[i] ELSE @,
                                    ![t].at = IF asbBlock[b].jump[i] # Nil THEN @ ELSE "loop",
                                    ![t].ret = IF asbBlock[b].addr \in Calls THEN b ELSE @]
  /\ UNCHANGED <<asbBlock, asbCount>>

Return(t) ==
  LET r == asbThread[t].ret IN
  /\ asbThread[t].at = "run" /\ r # Nil
  /\ asbThread' = [asbThread EXCEPT ![t].last = IF asbBlock[r].jump[2] # Nil
                                                THEN asbBlock[r].jump[2] ELSE r,
                                    ![t].at = IF asbBlock[r].jump[2] # Nil THEN @ ELSE "loop"]
  /\ UNCHANGED <<asbBlock, asbCount>>

\* An interrupt ends the loop; the frame and the cache are freed with it.
Interrupted(t) ==
  /\ asbThread[t].at = "run"
  /\ asbThread' = [asbThread EXCEPT ![t].at = "exit"]
  /\ UNCHANGED <<asbBlock, asbCount>>
Leave(t) ==
  /\ asbThread[t].at = "exit"
  /\ asbThread' = [asbThread EXCEPT ![t] = Outside("check")]
  /\ UNCHANGED <<asbBlock, asbCount>>

\* ... and of each block of a list.
AllDisconnected(order) ==
  LET upto[n \in 0..Len(order)] ==
        IF n = 0 THEN asbBlock ELSE Disconnected(upto[n - 1], order[n])
  IN  upto[Len(order)]

\* asbestos_invalidate_range, from a store inside a block or from a system call.
Invalidate(t, page) ==
  LET bs == {b \in Having("live") : page \in PagesOf[asbBlock[b].addr]} IN
  /\ asbThread[t].at \in {"run", "out"} /\ bs # {}
  /\ \E order \in SetToSeqs(bs) : asbBlock' = AllDisconnected(order)
  /\ asbCount' = asbCount - Cardinality(bs)
  /\ UNCHANGED asbThread

\* The end of cpu_run_to_interrupt: look for jetsam under asbestos->lock, give
\* it up, and wait for jetsam_lock.
Check(t) ==
  /\ asbThread[t].at = "check"
  /\ asbThread' = [asbThread EXCEPT ![t].at = IF Having("jetsam") = {} THEN "out" ELSE "want"]
  /\ UNCHANGED <<asbBlock, asbCount>>
OnlyLooked(t) == TRUE
AllOut(t) == Executing = {}
FreeJetsam(t) ==
  /\ asbThread[t].at = "want" /\ AllOut(t)
  /\ asbBlock' = [b \in Blocks |-> IF b \in Having("jetsam") THEN NoBlock ELSE asbBlock[b]]
  /\ asbThread' = [asbThread EXCEPT ![t].at = "out"]
  /\ UNCHANGED asbCount

AsbNext ==
  \E t \in AsbThreads :
    \/ Enter(t) \/ Chain(t) \/ Return(t) \/ Interrupted(t) \/ Leave(t) \/ Check(t) \/ FreeJetsam(t)
    \/ \E a \in Addrs : Fetch(t, a)
    \/ \E i \in 1..2 : Jump(t, i)
    \/ \E page \in UNION {PagesOf[a] : a \in Addrs} : Invalidate(t, page)

AsbSpec == AsbInit /\ [][AsbNext]_asbVars

-----------------------------------------------------------------------------
(* Properties.                                                             *)
\* What a thread can still reach is not freed: its own pointers, and along the
\* patched jumps of any block.
NothingDangles ==
  /\ \A t \in AsbThreads :
       LET th == asbThread[t]
       IN  \A b \in ({th.blk, th.last, th.ret} \cup {th.cache[a] : a \in Addrs}) \ {Nil} :
             asbBlock[b].state # "free"
  /\ \A b \in Blocks, i \in 1..2 :
       asbBlock[b].jump[i] # Nil => asbBlock[asbBlock[b].jump[i]].state # "free"

\* Blocks that can still be found lead only to blocks that can be found, and
\* each of those knows who leads to it.
LinksExact ==
  \A b \in Having("live"), i \in 1..2 :
    /\ LET c == asbBlock[b].jump[i]
       IN  c # Nil => c \in Having("live") /\ b \in asbBlock[c].from[i]
                        /\ asbBlock[c].addr = Jumps[asbBlock[b].addr][i]
    /\ \A c \in asbBlock[b].from[i] : asbBlock[c].state = "live" /\ asbBlock[c].jump[i] = b

TableExact ==
  /\ asbCount = Cardinality(Having("live"))
  /\ \A a \in Addrs : Cardinality(Lookup(a)) <= 1

\* asbestos.c with threads that run, chain, invalidate and free in any order: no
\* thread reaches a freed block, an invalidated block is reached from no block
\* that a thread could still find, and there is one block for an address.
AsbSafe == NothingDangles /\ LinksExact /\ TableExact
=============================================================================
