------------------------------- MODULE Memory -------------------------------
(***************************************************************************)
(* Guest memory: page tables over reference-counted host mappings, fork by *)
(* copy on write, page faults (kernel/memory.c, mmap.c, calls.c) and the   *)
(* translation caches of running threads (emu/tlb.c, asbestos.c).          *)
(*                                                                         *)
(* A thread that runs guest code, or uses a pointer from mem_ptr, holds    *)
(* mem->lock for reading; whoever changes a page table holds it for        *)
(* writing, except mremap.  What WRLock shows of the lock is used here: a  *)
(* section under the write lock is one action that needs the absence of    *)
(* running threads.                                                        *)
(*                                                                         *)
(* `cell` and `val` are the memory the guest expects: each private page of *)
(* each address space is a cell of its own, fork copies private cells and  *)
(* shares those of MAP_SHARED.                                             *)
(***************************************************************************)
EXTENDS Naturals, FiniteSets

CONSTANTS
  Mems,        \* address spaces
  Threads,
  Pages,       \* the pages of an address space, 1 .. n
  Datas,       \* host mappings (struct data), 1 .. n
  Values,      \* what a page can hold; 0 is a fresh one
  MaxChanges,  \* bound on mmu.changes
  Guests       \* what guests do: the pages and the system calls they use

NoMem == 0

ASSUME MemoryAssumption ==
  /\ IsFiniteSet(Mems) /\ Mems # {} /\ NoMem \notin Mems
  /\ IsFiniteSet(Pages) /\ Datas \subseteq Nat \ {0}
  /\ Guests \subseteq [pages : SUBSET Pages,
                       calls : SUBSET {"fork", "clone", "mmap", "shared", "stack",
                                       "munmap", "mprotect", "mremap",
                                       "write"}]
  /\ 0 \in Values /\ MaxChanges \in Nat

None == [data |-> 0]
Cells == 1 .. Cardinality(Mems) * Cardinality(Pages)

VARIABLES
  guest,     \* the guest that runs; it never changes
  pt,        \* page tables
  refs,      \* data->refcount; 0 when the mapping is freed
  content,   \* what each page of a host mapping holds
  changes,   \* mmu.changes
  mm,        \* the address space of each thread
  at,        \* "off", "kernel", "user" (running), "fault", "resolve"
  fault,     \* the page and the kind of a thread's fault
  tlb,       \* each thread's cached translations
  seen,      \* tlb->mem_changes
  cell, val  \* what the guest expects

vars == <<guest, pt, refs, content, changes, mm, at, fault, tlb, seen, cell, val>>
threads == <<mm, at, fault, tlb, seen>>

NoTLB == [p \in Pages |-> None]
NoFault == [page |-> 0, write |-> FALSE, user |-> FALSE, value |-> 0]
First == CHOOSE m \in Mems : TRUE
FirstThread == CHOOSE t \in Threads : TRUE

Init ==
  /\ guest \in Guests
  /\ pt = [m \in Mems |-> [p \in Pages |-> None]]
  /\ refs = [d \in Datas |-> 0]
  /\ content = [d \in Datas |-> [p \in Pages |-> 0]]
  /\ changes = [m \in Mems |-> 0]
  /\ mm = [t \in Threads |-> IF t = FirstThread THEN First ELSE NoMem]
  /\ at = [t \in Threads |-> IF t = FirstThread THEN "kernel" ELSE "off"]
  /\ fault = [t \in Threads |-> NoFault]
  /\ tlb = [t \in Threads |-> NoTLB]
  /\ seen = [t \in Threads |-> 0]
  /\ cell = [m \in Mems |-> [p \in Pages |-> 0]]
  /\ val = [c \in Cells |-> 0]

---------------------------------------------------------------------------
Mapped(m, p) == pt[m][p] # None
Has(e, flag) == e # None /\ flag \in e.flags
Writable(e) == Has(e, "w") /\ ~Has(e, "cow")
Free(S, used) == CHOOSE x \in S \ used : \A y \in S \ used : x <= y
Live == {d \in Datas : refs[d] > 0}
UsedCells == {cell[m][p] : m \in Mems, p \in Pages}

(* Nobody holds mem->lock for reading.                                     *)
NoReaders(m) == \A t \in Threads : mm[t] = m => at[t] # "user"

(* How many of these entries refer to d.                                   *)
Count(entries, d) == Cardinality({p \in DOMAIN entries : entries[p].data = d})

(* Mutant: a mapping loses one reference per call, not one per page.       *)
DropOnce(before, after, d) ==
  IF Count(before, d) > Count(after, d) THEN refs[d] - 1
  ELSE refs[d] + Count(after, d) - Count(before, d)

(* pt_map and pt_unmap_always count each page that comes and goes.         *)
Recount(before, after, d) == refs[d] + Count(after, d) - Count(before, d)

(* A page table of m changes from pt[m] to `table`; what the host mappings *)
(* hold is `held`, and a mapping without references is unmapped.           *)
Blank == [p \in Pages |-> 0]
SetTable(m, table, held) ==
  /\ pt' = [pt EXCEPT ![m] = table]
  /\ refs' = [d \in Datas |-> Recount(pt[m], table, d)]
  /\ content' = [d \in Datas |-> IF refs'[d] = 0 THEN Blank ELSE held[d]]

(* The same for what the guest expects of m.                               *)
SetCells(m, cells, v) ==
  /\ cell' = [cell EXCEPT ![m] = cells]
  /\ val' = [c \in Cells |-> IF \E n \in Mems, p \in Pages : cell'[n][p] = c
                               THEN v[c] ELSE 0]

(* Mutant: the translations of running threads stay valid.                 *)
NoFlush(m, n) == changes

(* n calls of mem_changed                                                  *)
Changed(m, n) == [changes EXCEPT ![m] = @ + n]

(* pt_map over the pages that get an entry: what was mapped there is       *)
(* unmapped first, and only that invalidates translations.                 *)
Map(m, entries, held) ==
  /\ SetTable(m, [p \in Pages |-> IF p \in DOMAIN entries THEN entries[p]
                                                         ELSE pt[m][p]], held)
  /\ changes' = Changed(m, Cardinality({p \in DOMAIN entries : Mapped(m, p)}))

---------------------------------------------------------------------------
(* mmap of anonymous memory, in a hole or at an address the guest gives,   *)
(* over what is there; the flags "gd" are those of exec's stack.           *)
Mmap(t, ps, flags) ==
  LET m == mm[t]
      d == Free(Datas, Live)
      c == CHOOSE f \in [ps -> Cells \ UsedCells] :
             \A x, y \in ps : f[x] = f[y] => x = y
      entry == [p \in ps |->
                  [data |-> d, off |-> p, flags |-> {"w", "anon"} \cup flags]] IN
  /\ "mmap" \in guest.calls
  /\ "shared" \in flags => "shared" \in guest.calls
  /\ "gd" \in flags => "stack" \in guest.calls
  /\ at[t] = "kernel" /\ NoReaders(m)
  /\ Live # Datas /\ Cardinality(Cells \ UsedCells) >= Cardinality(ps)
  /\ changes[m] + Cardinality(ps) <= MaxChanges
  /\ Map(m, entry, content)
  /\ SetCells(m, [p \in Pages |-> IF p \in ps THEN c[p] ELSE cell[m][p]], val)
  /\ UNCHANGED threads

(* pt_unmap_always, from munmap, or from mremap that shrinks a mapping.    *)
Unmap(m, ps) ==
  /\ changes[m] < MaxChanges
  /\ SetTable(m, [p \in Pages |-> IF p \in ps THEN None ELSE pt[m][p]], content)
  /\ changes' = Changed(m, 1)
  /\ SetCells(m, [p \in Pages |-> IF p \in ps THEN 0 ELSE cell[m][p]], val)
  /\ UNCHANGED threads

Munmap(t, ps) ==
  /\ "munmap" \in guest.calls /\ at[t] = "kernel" /\ NoReaders(mm[t])
  /\ Unmap(mm[t], ps)

(* sys_mremap takes no lock.                                               *)
MremapShrinks(t, ps) ==
  /\ "mremap" \in guest.calls /\ at[t] = "kernel"
  /\ \A p \in ps : Mapped(mm[t], p)
  /\ Unmap(mm[t], ps)

(* mremap grows an anonymous mapping into the hole behind it, with the     *)
(* flags of its first page; nor does this take a lock.                     *)
MremapGrows(t, from, p) ==
  LET m == mm[t]
      d == Free(Datas, Live)
      c == Free(Cells, UsedCells)
      entry == [q \in {p} |-> [pt[m][from] EXCEPT !.data = d, !.off = q]] IN
  /\ "mremap" \in guest.calls /\ at[t] = "kernel"
  /\ Live # Datas /\ Cells \ UsedCells # {}
  /\ from < p /\ \A q \in from .. p - 1 : Mapped(m, q)
  /\ Has(pt[m][from], "anon") /\ ~Mapped(m, p)
  /\ Map(m, entry, content)
  /\ SetCells(m, [cell[m] EXCEPT ![p] = c], val)
  /\ UNCHANGED threads

(* pt_set_flags replaces all flags by the protection bits.                 *)
Mprotect(t, p, w) ==
  LET m == mm[t] IN
  /\ "mprotect" \in guest.calls /\ at[t] = "kernel" /\ NoReaders(m)
  /\ Mapped(m, p) /\ changes[m] < MaxChanges
  /\ SetTable(m, [pt[m] EXCEPT ![p].flags = IF w THEN {"w"} ELSE {}], content)
  /\ changes' = Changed(m, 1)
  /\ UNCHANGED <<cell, val, threads>>

(* A page that fork shares: a private one must be copied when written.     *)
CowEntry(e) ==
  IF e = None \/ Has(e, "shared") THEN e
  ELSE [e EXCEPT !.flags = @ \cup {"cow"}]

(* Mutant: only the child's page is marked.                                *)
ChildOnlyCow(e) == e

(* pt_copy_on_write marks the page in the parent too.                      *)
MarkCow(e) == CowEntry(e)

(* fork: mm_copy shares every page with the new address space, marking the *)
(* private ones in both.                                                   *)
Fork(t, u, n) ==
  LET m == mm[t]
      child == [p \in Pages |-> CowEntry(pt[m][p])]
      mapped == {p \in Pages : Mapped(m, p)}
      private == {p \in mapped : ~Has(pt[m][p], "shared")}
      c == CHOOSE f \in [private -> Cells \ UsedCells] :
             \A x, y \in private : f[x] = f[y] => x = y IN
  /\ "fork" \in guest.calls
  /\ at[t] = "kernel" /\ NoReaders(m)
  /\ at[u] = "off" /\ \A x \in Threads : mm[x] # n
  /\ Cardinality(Cells \ UsedCells) >= Cardinality(private)
  /\ changes[m] < MaxChanges /\ Cardinality(mapped) < MaxChanges
  /\ pt' = [pt EXCEPT ![m] = [p \in Pages |-> MarkCow(pt[m][p])], ![n] = child]
  /\ refs' = [d \in Datas |-> Recount(pt[n], child, d)]
  /\ changes' = [Changed(m, 1) EXCEPT ![n] = 1 + Cardinality(mapped)]
  /\ mm' = [mm EXCEPT ![u] = n]
  /\ at' = [at EXCEPT ![u] = "kernel"]
  /\ tlb' = [tlb EXCEPT ![u] = NoTLB]
  /\ seen' = [seen EXCEPT ![u] = changes'[n]]
  /\ SetCells(n, [p \in Pages |-> IF p \in private THEN c[p] ELSE cell[m][p]],
              [x \in Cells |-> IF \E p \in private : c[p] = x
                 THEN val[cell[m][CHOOSE p \in private : c[p] = x]] ELSE val[x]])
  /\ UNCHANGED <<content, fault>>

(* clone with CLONE_VM: another thread in the same address space.          *)
CloneVM(t, u) ==
  /\ "clone" \in guest.calls
  /\ at[t] = "kernel" /\ at[u] = "off"
  /\ mm' = [mm EXCEPT ![u] = mm[t]]
  /\ at' = [at EXCEPT ![u] = "kernel"]
  /\ tlb' = [tlb EXCEPT ![u] = NoTLB]
  /\ seen' = [seen EXCEPT ![u] = changes[mm[t]]]
  /\ UNCHANGED <<pt, refs, content, changes, fault, cell, val>>

(* exit: mm_release; the last thread takes the address space with it.      *)
Exit(t) ==
  LET m == mm[t]
      last == \A u \in Threads \ {t} : mm[u] # m IN
  /\ at[t] = "kernel"
  /\ IF last
       THEN /\ SetTable(m, [p \in Pages |-> None], content)
            /\ changes' = [changes EXCEPT ![m] = 0]
            /\ SetCells(m, [p \in Pages |-> 0], val)
       ELSE UNCHANGED <<pt, refs, content, changes, cell, val>>
  /\ mm' = [mm EXCEPT ![t] = NoMem]
  /\ at' = [at EXCEPT ![t] = "off"]
  /\ tlb' = [tlb EXCEPT ![t] = NoTLB] /\ seen' = [seen EXCEPT ![t] = 0]
  /\ UNCHANGED fault

---------------------------------------------------------------------------
(* tlb_refresh                                                             *)
Refreshed(t) == IF seen[t] = changes[mm[t]] THEN tlb[t] ELSE NoTLB

(* task_run_current: lock mem for reading and run guest code.              *)
Run(t) ==
  /\ at[t] = "kernel"
  /\ at' = [at EXCEPT ![t] = "user"]
  /\ tlb' = [tlb EXCEPT ![t] = Refreshed(t)]
  /\ seen' = [seen EXCEPT ![t] = changes[mm[t]]]
  /\ UNCHANGED <<pt, refs, content, changes, mm, fault, cell, val>>

(* An interrupt: back to the kernel, unlocked.                             *)
Interrupt(t) ==
  /\ at[t] = "user"
  /\ at' = [at EXCEPT ![t] = "kernel"]
  /\ UNCHANGED <<pt, refs, content, changes, mm, fault, tlb, seen, cell, val>>

(* mem_ptr_nofault                                                         *)
Translates(e, write) == e # None /\ (write => Writable(e))

(* tlb_handle_miss: an access that is not cached.                          *)
Miss(t, p, write) ==
  LET e == pt[mm[t]][p]
      old == Refreshed(t) IN
  /\ at[t] = "user"
  /\ tlb[t][p] # None => write /\ ~tlb[t][p].w
  /\ seen' = [seen EXCEPT ![t] = changes[mm[t]]]
  /\ IF Translates(e, write)
       THEN /\ tlb' = [tlb EXCEPT ![t] = [old EXCEPT ![p] =
                         [data |-> e.data, off |-> e.off, w |-> write]]]
            /\ UNCHANGED <<at, fault>>
       ELSE /\ tlb' = [tlb EXCEPT ![t] = old]
            /\ at' = [at EXCEPT ![t] = "fault"]
            /\ fault' = [fault EXCEPT ![t] =
                           [page |-> p, write |-> write, user |-> FALSE,
                            value |-> 0]]
  /\ UNCHANGED <<pt, refs, content, changes, mm, cell, val>>

(* The guest stores through a cached translation.                          *)
Store(t, p, v) ==
  /\ at[t] = "user" /\ tlb[t][p] # None /\ tlb[t][p].w
  /\ content' = [content EXCEPT ![tlb[t][p].data][tlb[t][p].off] = v]
  /\ val' = IF cell[mm[t]][p] = 0 THEN val ELSE [val EXCEPT ![cell[mm[t]][p]] = v]
  /\ UNCHANGED <<pt, refs, changes, threads, cell>>

(* A system call stores to guest memory (user_write): mem_ptr is entered   *)
(* with the lock held for reading.                                         *)
UserWrite(t, p, v) ==
  /\ "write" \in guest.calls
  /\ at[t] = "kernel"
  /\ at' = [at EXCEPT ![t] = "fault"]
  /\ fault' = [fault EXCEPT ![t] = [page |-> p, write |-> TRUE, user |-> TRUE,
                                     value |-> v]]
  /\ UNCHANGED <<pt, refs, content, changes, mm, tlb, seen, cell, val>>

(* The head of mem_ptr's loop, under the read lock: the page is there, or  *)
(* the access is not allowed, or the lock is given up to resolve the fault.*)
(* A pointer is used before the read lock is released.                     *)
FaultDone(t) ==
  LET f == fault[t]
      e == pt[mm[t]][f.page] IN
  /\ at[t] = "fault" /\ Translates(e, f.write)
  /\ at' = [at EXCEPT ![t] = "kernel"]
  /\ fault' = [fault EXCEPT ![t] = NoFault]
  /\ IF f.user
       THEN /\ content' = [content EXCEPT ![e.data][e.off] = f.value]
            /\ val' = [val EXCEPT ![cell[mm[t]][f.page]] = f.value]
       ELSE UNCHANGED <<content, val>>
  /\ UNCHANGED <<pt, refs, changes, mm, tlb, seen, cell>>

FaultDenied(t) ==
  LET f == fault[t]
      e == pt[mm[t]][f.page] IN
  /\ at[t] = "fault" /\ e # None /\ f.write /\ ~Has(e, "w")
  /\ at' = [at EXCEPT ![t] = "kernel"]
  /\ fault' = [fault EXCEPT ![t] = NoFault]
  /\ UNCHANGED <<pt, refs, content, changes, mm, tlb, seen, cell, val>>

FaultUnlocks(t) ==
  LET f == fault[t]
      e == pt[mm[t]][f.page] IN
  /\ at[t] = "fault" /\ ~Translates(e, f.write)
  /\ e # None /\ f.write => Has(e, "w")
  /\ at' = [at EXCEPT ![t] = "resolve"]
  /\ UNCHANGED <<pt, refs, content, changes, mm, fault, tlb, seen, cell, val>>

(* The stack grows into p: the next mapped page above it is P_GROWSDOWN.   *)
Grows(m, p) ==
  \E q \in Pages : /\ q > p /\ Has(pt[m][q], "gd")
                   /\ \A r \in Pages : p < r /\ r < q => ~Mapped(m, r)

(* Whether mem_resolve_fault, which looks the page up again, must copy it. *)
MustCopy(e, f) == f.write /\ Has(e, "w") /\ Has(e, "cow")

(* mem_resolve_fault under the write lock: nothing left to do, a new page  *)
(* of stack, or a private copy; then mem_ptr looks again.                  *)
ResolveQuietly(t) ==
  LET f == fault[t]
      e == pt[mm[t]][f.page] IN
  /\ at[t] = "resolve" /\ NoReaders(mm[t])
  /\ IF e = None THEN ~Grows(mm[t], f.page) ELSE ~MustCopy(e, f)
  /\ IF e = None \/ (f.write /\ ~Has(e, "w"))
       THEN /\ at' = [at EXCEPT ![t] = "kernel"]   \* _EFAULT
            /\ fault' = [fault EXCEPT ![t] = NoFault]
       ELSE /\ at' = [at EXCEPT ![t] = "fault"]
            /\ UNCHANGED fault
  /\ UNCHANGED <<pt, refs, content, changes, mm, tlb, seen, cell, val>>

ResolveStack(t) ==
  LET m == mm[t]
      p == fault[t].page
      d == Free(Datas, Live)
      c == Free(Cells, UsedCells)
      entry == [q \in {p} |->
                  [data |-> d, off |-> q, flags |-> {"w", "gd", "anon"}]] IN
  /\ at[t] = "resolve" /\ NoReaders(m)
  /\ pt[m][p] = None /\ Grows(m, p)
  /\ Live # Datas /\ Cells \ UsedCells # {}
  /\ Map(m, entry, content)
  /\ SetCells(m, [cell[m] EXCEPT ![p] = c], val)
  /\ at' = [at EXCEPT ![t] = "fault"]
  /\ UNCHANGED <<mm, fault, tlb, seen>>

ResolveCopy(t) ==
  LET m == mm[t]
      p == fault[t].page
      e == pt[m][p]
      d == Free(Datas, Live)
      entry == [q \in {p} |->
                  [data |-> d, off |-> q, flags |-> e.flags \ {"cow"}]] IN
  /\ at[t] = "resolve" /\ NoReaders(m)
  /\ MustCopy(e, fault[t])
  /\ Live # Datas /\ changes[m] < MaxChanges
  /\ Map(m, entry,
         [content EXCEPT ![d] = [Blank EXCEPT ![p] = content[e.data][e.off]]])
  /\ at' = [at EXCEPT ![t] = "fault"]
  /\ UNCHANGED <<mm, fault, tlb, seen, cell, val>>

ThreadNext ==
  \E t \in Threads :
    \/ \E ps \in SUBSET guest.pages \ {{}} :
         \/ \E flags \in SUBSET {"shared", "gd"} : Mmap(t, ps, flags)
         \/ Munmap(t, ps) \/ MremapShrinks(t, ps)
    \/ \E p, q \in guest.pages : MremapGrows(t, p, q)
    \/ \E p \in guest.pages, w \in BOOLEAN : Mprotect(t, p, w) \/ Miss(t, p, w)
    \/ \E u \in Threads : CloneVM(t, u) \/ \E n \in Mems : Fork(t, u, n)
    \/ Exit(t) \/ Run(t) \/ Interrupt(t)
    \/ \E p \in guest.pages, v \in Values \ {0} : Store(t, p, v) \/ UserWrite(t, p, v)
    \/ FaultDone(t) \/ FaultDenied(t) \/ FaultUnlocks(t)
    \/ ResolveQuietly(t) \/ ResolveStack(t) \/ ResolveCopy(t)

Next == ThreadNext /\ UNCHANGED guest

Spec == Init /\ [][Next]_vars

---------------------------------------------------------------------------
Flags == {"w", "cow", "shared", "gd", "anon"}
Entries == [data : Datas, off : Pages, flags : SUBSET Flags] \cup {None}

(* The types of the variables.                                             *)
TypeOK ==
  /\ guest \in Guests
  /\ pt \in [Mems -> [Pages -> Entries]]
  /\ refs \in [Datas -> Nat] /\ content \in [Datas -> [Pages -> Values]]
  /\ changes \in [Mems -> 0 .. MaxChanges]
  /\ mm \in [Threads -> Mems \cup {NoMem}]
  /\ at \in [Threads -> {"off", "kernel", "user", "fault", "resolve"}]
  /\ seen \in [Threads -> 0 .. MaxChanges]
  /\ cell \in [Mems -> [Pages -> 0 .. Cardinality(Cells)]]
  /\ val \in [Cells -> Values]

(* A host mapping has as many references as pages map it, in all address   *)
(* spaces: it is unmapped when the last one goes, and not before.          *)
RefcountExact ==
  \A d \in Datas :
    refs[d] = Cardinality({x \in Mems \X Pages : pt[x[1]][x[2]].data = d})

(* A thread that runs guest code uses no translation that the page table   *)
(* does not give: it never touches memory that was unmapped, and never     *)
(* writes a page that is read-only or must be copied first.                *)
NoStaleTranslation ==
  \A t \in Threads, p \in Pages : at[t] = "user" /\ tlb[t][p] # None =>
    LET e == pt[mm[t]][p] IN
    /\ Translates(e, tlb[t][p].w)
    /\ e.data = tlb[t][p].data /\ e.off = tlb[t][p].off

(* What kernel/memory.c and emu/tlb.c keep: RefcountExact and              *)
(* NoStaleTranslation.                                                     *)
MemorySafe == TypeOK /\ RefcountExact /\ NoStaleTranslation

(* "Copy pages from src memory to dst memory using copy-on-write"          *)
(* (memory.h): every address space holds what its own guest wrote.  What   *)
(* one writes after a fork is never seen by another, and no write is lost  *)
(* when pages are copied by faults that race.                              *)
Isolation ==
  \A m \in Mems, p \in Pages : Mapped(m, p) =>
    content[pt[m][p].data][pt[m][p].off] = val[cell[m][p]]
=============================================================================
