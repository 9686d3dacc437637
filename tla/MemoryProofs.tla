---------------------------- MODULE MemoryProofs ----------------------------
(***************************************************************************)
(* Guest memory for any number of address spaces, threads, pages and host  *)
(* mappings: the mappings are counted, a running thread uses no stale      *)
(* translation, and after any forks and copies every address space holds   *)
(* what its own guest wrote.  Translated blocks for any number of threads, *)
(* blocks and addresses: nobody reaches one that was freed.                *)
(***************************************************************************)
EXTENDS Memory, Asbestos, Induction, SequenceTheorems, FiniteSetTheorems, FunctionTheorems, TLAPS

(* A set of numbers that is not empty has a least one.                     *)
LEMMA Least ==
  ASSUME NEW T, T \subseteq Nat, T # {}
  PROVE  \E i \in T : \A j \in T : i <= j
<1>1. PICK i \in T : \A j \in T : ~ (<<j, i>> \in OpToRel(<, Nat))
  BY Zenon, NatLessThanWellFounded, WFMin
<1>2. \A j \in T : ~ (j < i)
  BY <1>1 DEF OpToRel
<1> QED  BY <1>2

(* What Free takes is free.                                                *)
LEMMA FreeIsFree ==
  ASSUME NEW S, S \subseteq Nat, NEW used, S \ used # {}
  PROVE  Free(S, used) \in S \ used
<1>1. \E x \in S \ used : \A y \in S \ used : x <= y
  BY Least
<1> QED  BY <1>1 DEF Free

(* A set can be numbered with the elements of one that is not smaller.     *)
LEMMA Numbering ==
  ASSUME NEW S, NEW T, IsFiniteSet(S), IsFiniteSet(T), Cardinality(S) <= Cardinality(T)
  PROVE  \E f \in [S -> T] : \A x, y \in S : f[x] = f[y] => x = y
<1> DEFINE n == Cardinality(S)  k == Cardinality(T)
<1>1. n \in Nat /\ k \in Nat /\ ExistsBijection(1..n, S) /\ ExistsBijection(1..k, T)
  BY FS_CardinalityType
<1>2. ExistsBijection(S, 1..n)
  BY <1>1, Fun_ExistsBijSymmetric
<1> HIDE DEF n, k
<1>3. PICK g : g \in Bijection(S, 1..n)
  BY <1>2, Fun_ExistsBij
<1>4. PICK h : h \in Bijection(1..k, T)
  BY <1>1, Fun_ExistsBij
<1>5. g \in [S -> 1..n] /\ \A x, y \in S : g[x] = g[y] => x = y
  BY <1>3, Fun_BijectionProperties
<1>6. h \in [1..k -> T] /\ \A i, j \in 1..k : h[i] = h[j] => i = j
  BY <1>4, Fun_BijectionProperties
<1>7. \A x \in S : g[x] \in 1..k
  BY <1>1, <1>5 DEF n, k
<1> DEFINE f == [x \in S |-> h[g[x]]]
<1>8. f \in [S -> T] /\ \A x, y \in S : f[x] = f[y] => x = y
  BY <1>5, <1>6, <1>7
<1> QED  BY <1>8

---------------------------------------------------------------------------
(* sys_mremap takes no lock: guests that use it have one thread.           *)
LockedGuests == \A g \in Guests : "mremap" \in g.calls => "clone" \notin g.calls

Translations == [data : Datas, off : Pages, w : BOOLEAN] \cup {None}
Faults == [page : Pages \cup {0}, write : BOOLEAN, user : BOOLEAN, value : Values]

MemTypes ==
  /\ TypeOK /\ tlb \in [Threads -> [Pages -> Translations]] /\ fault \in [Threads -> Faults]
  /\ \A t \in Threads : at[t] \in {"fault", "resolve"} => fault[t].page \in Pages

(* Who runs has an address space, to itself unless it clones.              *)
Spaces ==
  /\ \A t \in Threads : at[t] = "off" <=> mm[t] = NoMem
  /\ "clone" \notin guest.calls =>
       \A t, u \in Threads : mm[t] = mm[u] /\ mm[t] # NoMem => t = u

(* A thread that runs has seen the last change.                            *)
SeenInv ==
  \A t \in Threads : mm[t] # NoMem =>
    seen[t] <= changes[mm[t]] /\ (at[t] = "user" => seen[t] = changes[mm[t]])

(* Whoever has seen the last change caches what the page table says.       *)
Sound(e, x) == Translates(e, x.w) /\ e.data = x.data /\ e.off = x.off
TlbSound ==
  \A t \in Threads, p \in Pages :
    mm[t] # NoMem /\ seen[t] = changes[mm[t]] /\ tlb[t][p] # None
      => Sound(pt[mm[t]][p], tlb[t][p])

(* The pages that are mapped are those that have a cell.                   *)
CellsMapped == \A m \in Mems, p \in Pages : cell[m][p] = 0 <=> pt[m][p] = None

MemInv ==
  LockedGuests /\ MemTypes /\ Spaces /\ SeenInv /\ TlbSound /\ RefcountExact /\ CellsMapped

(* The invariant says what MemorySafe says.                                *)
LEMMA InvSafe == MemInv => MemorySafe
<1> SUFFICES ASSUME MemInv PROVE MemorySafe
  OBVIOUS
<1>1. NoStaleTranslation
  <2> SUFFICES ASSUME NEW t \in Threads, NEW p \in Pages, at[t] = "user", tlb[t][p] # None
               PROVE  Sound(pt[mm[t]][p], tlb[t][p])
    BY DEF NoStaleTranslation, Sound
  <2>1. mm[t] # NoMem
    BY DEF MemInv, Spaces
  <2> QED  BY <2>1 DEF MemInv, SeenInv, TlbSound
<1> QED  BY <1>1 DEF MemInv, MemTypes, MemorySafe

---------------------------------------------------------------------------
(* An entry that is not empty names a page of a host mapping.              *)
LEMMA EntryFacts ==
  /\ None \in Entries /\ None.data \notin Datas
  /\ \A e \in Entries : /\ e # None => e.data \in Datas /\ e.off \in Pages /\ e.flags \in SUBSET Flags
                        /\ e.data \in Datas <=> e # None
<1>1. 0 \notin Datas
  BY MemoryAssumption
<1>2. None.data = 0
  BY DEF None
<1> QED  BY <1>1, <1>2 DEF Entries

(* How the model makes entries.                                            *)
LEMMA NewEntry ==
  ASSUME NEW d \in Datas, NEW p \in Pages, NEW f \in SUBSET Flags
  PROVE  [data |-> d, off |-> p, flags |-> f] \in Entries \ {None}
<1> DEFINE e == [data |-> d, off |-> p, flags |-> f]
<1>1. e \in Entries /\ e.data \in Datas
  BY DEF Entries
<1> QED  BY <1>1, EntryFacts

(* How it changes them.                                                    *)
LEMMA ChangedFlags ==
  ASSUME NEW e \in Entries \ {None}, NEW f \in SUBSET Flags, NEW x, x = [e EXCEPT !.flags = f]
  PROVE  x \in Entries \ {None} /\ x.data = e.data /\ x.off = e.off /\ x.flags = f
<1>1. e \in [data : Datas, off : Pages, flags : SUBSET Flags]
  BY DEF Entries
<1>2. /\ x \in [data : Datas, off : Pages, flags : SUBSET Flags]
      /\ x.data = e.data /\ x.off = e.off /\ x.flags = f
  BY <1>1
<1> QED  BY <1>2, EntryFacts DEF Entries

(* Cells are numbers.                                                      *)
LEMMA CellNumbers ==
  /\ IsFiniteSet(Cells) /\ Cells \subseteq Nat \ {0}
  /\ 0 .. Cardinality(Cells) = Cells \cup {0}
<1> DEFINE n == Cardinality(Mems) * Cardinality(Pages)
<1>1. n \in Nat
  BY MemoryAssumption, FS_CardinalityType
<1>2. Cells = 1..n
  BY DEF Cells
<1> HIDE DEF n
<1>3. IsFiniteSet(1..n) /\ Cardinality(1..n) = n
  BY <1>1, FS_Interval
<1> QED  BY <1>1, <1>2, <1>3

---------------------------------------------------------------------------
(* References, counted in one address space and in the others.             *)
Refs(tables, d) == {x \in Mems \X Pages : tables[x[1]][x[2]].data = d}
Others(tables, m, d) == {x \in (Mems \ {m}) \X Pages : tables[x[1]][x[2]].data = d}

(* Both are numbers.                                                       *)
LEMMA FiniteRefs ==
  ASSUME NEW tables, NEW m \in Mems, NEW d
  PROVE  /\ IsFiniteSet(Others(tables, m, d)) /\ Cardinality(Others(tables, m, d)) \in Nat
         /\ IsFiniteSet(Refs(tables, d)) /\ Cardinality(Refs(tables, d)) \in Nat
<1>1. IsFiniteSet(Mems \X Pages)
  BY MemoryAssumption, FS_Product
<1>2. Others(tables, m, d) \in SUBSET (Mems \X Pages) /\ Refs(tables, d) \in SUBSET (Mems \X Pages)
  BY DEF Others, Refs
<1>3. IsFiniteSet(Others(tables, m, d)) /\ IsFiniteSet(Refs(tables, d))
  BY <1>1, <1>2, FS_Subset
<1> QED  BY <1>3, FS_CardinalityType

(* A table is counted by its pages.                                        *)
LEMMA FiniteCount ==
  ASSUME NEW table, DOMAIN table = Pages, NEW d
  PROVE  /\ IsFiniteSet({p \in Pages : table[p].data = d}) /\ Count(table, d) \in Nat
         /\ Count(table, d) = Cardinality({p \in Pages : table[p].data = d})
<1>1. IsFiniteSet({p \in Pages : table[p].data = d})
  BY MemoryAssumption, FS_Subset
<1> QED  BY <1>1, FS_CardinalityType DEF Count

(* The references are those of one address space and those of the others.  *)
LEMMA SplitRefs ==
  ASSUME NEW tables, NEW m \in Mems, DOMAIN tables[m] = Pages, NEW d
  PROVE  Cardinality(Refs(tables, d)) = Count(tables[m], d) + Cardinality(Others(tables, m, d))
<1> DEFINE ps == {p \in Pages : tables[m][p].data = d}
           mine == {<<m, p>> : p \in ps}
           f == [p \in ps |-> <<m, p>>]
<1>1. IsFiniteSet(ps) /\ Count(tables[m], d) = Cardinality(ps) /\ Count(tables[m], d) \in Nat
  <2>1. IsFiniteSet(ps)
    BY MemoryAssumption, FS_Subset
  <2> QED  BY <2>1, FS_CardinalityType DEF Count
<1>2. f \in [ps -> mine] /\ \A a, b \in ps : f[a] = f[b] => a = b
  OBVIOUS
<1>3. \A y \in mine : \E x \in ps : f[x] = y
  OBVIOUS
<1> HIDE DEF f, mine
<1>4. f \in Bijection(ps, mine)
  BY <1>2, <1>3, Fun_IsBij
<1>5. ExistsBijection(ps, mine)
  BY <1>4, Fun_ExistsBij
<1>6. IsFiniteSet(mine) /\ Cardinality(mine) = Cardinality(ps)
  BY <1>1, <1>5, FS_Bijection
<1>7. Refs(tables, d) = mine \cup Others(tables, m, d) /\ mine \cap Others(tables, m, d) = {}
  <2>1. \A x \in Refs(tables, d) : x \in mine \/ x \in Others(tables, m, d)
    BY DEF Refs, Others, mine
  <2>2. \A x \in mine : x \in Refs(tables, d) /\ x \notin Others(tables, m, d)
    BY DEF Refs, Others, mine
  <2>3. \A x \in Others(tables, m, d) : x \in Refs(tables, d)
    BY DEF Refs, Others
  <2> QED  BY <2>1, <2>2, <2>3
<1>8. IsFiniteSet(Others(tables, m, d)) /\ Cardinality(Others(tables, m, d)) \in Nat
  BY FiniteRefs
<1>9. Cardinality(mine \cup Others(tables, m, d))
        = Cardinality(mine) + Cardinality(Others(tables, m, d)) - Cardinality(mine \cap Others(tables, m, d))
  BY <1>6, <1>8, FS_Union
<1>10. Cardinality(mine \cap Others(tables, m, d)) = 0
  BY <1>7, FS_EmptySet
<1> HIDE DEF ps
<1> QED  BY <1>1, <1>6, <1>7, <1>8, <1>9, <1>10

(* Changing one table by the rule of pt_map and pt_unmap_always keeps the  *)
(* count of every mapping exact.                                           *)
LEMMA TableCounts ==
  ASSUME TypeOK, RefcountExact, NEW m \in Mems, NEW table \in [Pages -> Entries],
         pt' = [pt EXCEPT ![m] = table], refs' = [d \in Datas |-> Recount(pt[m], table, d)]
  PROVE  RefcountExact' /\ refs' \in [Datas -> Nat]
<1> SUFFICES ASSUME NEW d \in Datas
             PROVE  refs'[d] = Cardinality(Refs(pt', d)) /\ refs'[d] \in Nat
  BY DEF RefcountExact, Refs
<1>1. DOMAIN pt[m] = Pages /\ pt'[m] = table /\ DOMAIN table = Pages
  BY DEF TypeOK
<1>2. \A n \in Mems \ {m} : pt'[n] = pt[n]
  BY DEF TypeOK
<1>3. Others(pt', m, d) = Others(pt, m, d)
  BY <1>2 DEF Others
<1>4. Cardinality(Refs(pt, d)) = Count(pt[m], d) + Cardinality(Others(pt, m, d))
  BY <1>1, SplitRefs
<1>5. Cardinality(Refs(pt', d)) = Count(table, d) + Cardinality(Others(pt, m, d))
  <2>1. Cardinality(Refs(pt', d)) = Count(pt'[m], d) + Cardinality(Others(pt', m, d))
    BY <1>1, SplitRefs
  <2> QED  BY <1>1, <1>3, <2>1
<1>6. refs'[d] = refs[d] + Count(table, d) - Count(pt[m], d)
  BY DEF Recount
<1>7. refs[d] = Cardinality(Refs(pt, d))
  BY DEF RefcountExact, Refs
<1>8. Count(table, d) \in Nat /\ Count(pt[m], d) \in Nat /\ Cardinality(Others(pt, m, d)) \in Nat
  BY <1>1, FiniteCount, FiniteRefs
<1> QED  BY <1>4, <1>5, <1>6, <1>7, <1>8

---------------------------------------------------------------------------
(* At first one thread runs in an empty address space.                     *)
LEMMA InitInv == LockedGuests /\ Init => MemInv
<1> SUFFICES ASSUME LockedGuests, Init PROVE MemInv
  OBVIOUS
<1> USE DEF Init
<1>1. First \in Mems
  BY MemoryAssumption DEF First
<1>2. None \in Entries /\ None.data \notin Datas /\ None \in Translations
  BY EntryFacts DEF Translations
<1>3. TypeOK
  <2>1. pt \in [Mems -> [Pages -> Entries]]
    BY <1>2
  <2>2. 0 \in Values /\ 0 \in Nat /\ 0 \in 0..MaxChanges
    BY MemoryAssumption
  <2>3. cell \in [Mems -> [Pages -> 0 .. Cardinality(Cells)]]
    BY CellNumbers
  <2>4. refs \in [Datas -> Nat] /\ content \in [Datas -> [Pages -> Values]]
    BY <2>2
  <2>5. changes \in [Mems -> 0..MaxChanges] /\ seen \in [Threads -> 0..MaxChanges]
    BY <2>2
  <2>6. mm \in [Threads -> Mems \cup {NoMem}]
    BY <1>1
  <2>7. at \in [Threads -> {"off", "kernel", "user", "fault", "resolve"}]
    OBVIOUS
  <2> QED  BY <2>1, <2>2, <2>3, <2>4, <2>5, <2>6, <2>7 DEF TypeOK
<1>4. MemTypes
  <2>1. NoFault \in Faults
    BY MemoryAssumption DEF NoFault, Faults
  <2>2. tlb \in [Threads -> [Pages -> Translations]]
    BY <1>2 DEF NoTLB
  <2> QED  BY <1>3, <2>1, <2>2 DEF MemTypes
<1>5. Spaces
  BY <1>1, MemoryAssumption DEF Spaces
<1>6. SeenInv
  BY <1>1 DEF SeenInv
<1>7. TlbSound
  BY DEF TlbSound, NoTLB
<1>8. RefcountExact
  <2> SUFFICES ASSUME NEW d \in Datas
               PROVE  refs[d] = Cardinality({x \in Mems \X Pages : pt[x[1]][x[2]].data = d})
    BY DEF RefcountExact
  <2>1. \A x \in Mems \X Pages : pt[x[1]][x[2]] = None
    OBVIOUS
  <2>2. {x \in Mems \X Pages : pt[x[1]][x[2]].data = d} = {}
    BY <1>2, <2>1
  <2> QED  BY <2>2, FS_EmptySet
<1>9. CellsMapped
  BY DEF CellsMapped
<1> QED  BY <1>4, <1>5, <1>6, <1>7, <1>8, <1>9 DEF MemInv

---------------------------------------------------------------------------
(* A page table changes.                                                   *)
LEMMA TableStep ==
  ASSUME TypeOK, RefcountExact, NEW m \in Mems, NEW table \in [Pages -> Entries],
         NEW held \in [Datas -> [Pages -> Values]], SetTable(m, table, held)
  PROVE  /\ pt' \in [Mems -> [Pages -> Entries]] /\ pt'[m] = table
         /\ \A n \in Mems \ {m} : pt'[n] = pt[n]
         /\ refs' \in [Datas -> Nat] /\ RefcountExact'
         /\ content' \in [Datas -> [Pages -> Values]]
<1>1. pt' = [pt EXCEPT ![m] = table] /\ refs' = [d \in Datas |-> Recount(pt[m], table, d)]
  BY DEF SetTable
<1>2. RefcountExact' /\ refs' \in [Datas -> Nat]
  BY <1>1, TableCounts
<1>3. /\ pt' \in [Mems -> [Pages -> Entries]] /\ pt'[m] = table
      /\ \A n \in Mems \ {m} : pt'[n] = pt[n]
  BY <1>1 DEF TypeOK
<1>4. content' \in [Datas -> [Pages -> Values]]
  <2>1. Blank \in [Pages -> Values]
    BY MemoryAssumption DEF Blank
  <2>2. content' = [d \in Datas |-> IF refs'[d] = 0 THEN Blank ELSE held[d]]
    BY DEF SetTable
  <2> QED  BY <2>1, <2>2
<1> QED  BY <1>2, <1>3, <1>4

(* What the guest expects changes with it.                                 *)
LEMMA CellsStep ==
  ASSUME TypeOK, NEW m \in Mems, NEW cells \in [Pages -> Cells \cup {0}],
         NEW v \in [Cells -> Values], SetCells(m, cells, v)
  PROVE  /\ cell' \in [Mems -> [Pages -> 0 .. Cardinality(Cells)]] /\ cell'[m] = cells
         /\ \A n \in Mems \ {m} : cell'[n] = cell[n]
         /\ val' \in [Cells -> Values]
<1>1. cell' = [cell EXCEPT ![m] = cells] /\ cells \in [Pages -> 0 .. Cardinality(Cells)]
  BY CellNumbers DEF SetCells
<1>2. /\ cell' \in [Mems -> [Pages -> 0 .. Cardinality(Cells)]] /\ cell'[m] = cells
      /\ \A n \in Mems \ {m} : cell'[n] = cell[n]
  BY <1>1 DEF TypeOK
<1>3. val' \in [Cells -> Values]
  BY MemoryAssumption DEF SetCells
<1> QED  BY <1>2, <1>3

(* k calls of mem_changed: no thread that runs misses a change, and no     *)
(* cached translation of a page that changed is used.                      *)
LEMMA Invalidated ==
  ASSUME MemInv, NEW m \in Mems, NEW k \in Nat,
         changes' = Changed(m, k), UNCHANGED <<mm, tlb, seen>>,
         \A n \in Mems \ {m} : pt'[n] = pt[n],
         k = 0 => \A p \in Pages : pt[m][p] # None => pt'[m][p] = pt[m][p],
         k > 0 => NoReaders(m),
         \A t \in Threads : at'[t] = "user" => at[t] = "user"
  PROVE  SeenInv' /\ TlbSound'
<1> USE DEF MemInv
<1>1. /\ changes'[m] = changes[m] + k /\ changes[m] \in Nat
      /\ \A n \in Mems \ {m} : changes'[n] = changes[n]
  BY MemoryAssumption DEF Changed, MemTypes, TypeOK
<1>2. \A t \in Threads : mm[t] # NoMem => mm[t] \in Mems /\ seen[t] \in Nat
  BY MemoryAssumption DEF MemTypes, TypeOK
<1>3. SeenInv'
  <2> SUFFICES ASSUME NEW t \in Threads, mm[t] # NoMem
               PROVE  seen[t] <= changes'[mm[t]] /\ (at'[t] = "user" => seen[t] = changes'[mm[t]])
    BY DEF SeenInv
  <2>1. seen[t] <= changes[mm[t]] /\ (at[t] = "user" => seen[t] = changes[mm[t]])
    BY DEF SeenInv
  <2>2. CASE mm[t] = m
    BY <1>1, <1>2, <2>1, <2>2 DEF NoReaders
  <2>3. CASE mm[t] # m
    BY <1>1, <1>2, <2>1, <2>3
  <2> QED  BY <2>2, <2>3
<1>4. TlbSound'
  <2> SUFFICES ASSUME NEW t \in Threads, NEW p \in Pages, mm[t] # NoMem,
                      seen[t] = changes'[mm[t]], tlb[t][p] # None
               PROVE  Sound(pt'[mm[t]][p], tlb[t][p])
    BY DEF TlbSound
  <2>1. seen[t] <= changes[mm[t]]
    BY DEF SeenInv
  <2>2. seen[t] = changes[mm[t]] /\ (mm[t] = m => k = 0)
    BY <1>1, <1>2, <2>1
  <2>3. Sound(pt[mm[t]][p], tlb[t][p])
    BY <2>2 DEF TlbSound
  <2>4. pt'[mm[t]][p] = pt[mm[t]][p]
    <3>1. CASE mm[t] = m
      <4>1. pt[m][p] # None
        BY <2>3, <3>1 DEF Sound, Translates
      <4> QED  BY <2>2, <3>1, <4>1
    <3>2. CASE mm[t] # m
      BY <1>2, <3>2
    <3> QED  BY <3>1, <3>2
  <2> QED  BY <2>3, <2>4
<1> QED  BY <1>3, <1>4

(* What a thread may be doing after the page table changed: as before, or  *)
(* back at the head of mem_ptr's loop.                                     *)
StillAt ==
  /\ at' \in [Threads -> {"off", "kernel", "user", "fault", "resolve"}]
  /\ \A t \in Threads : at'[t] = at[t] \/ (at[t] = "resolve" /\ at'[t] = "fault")

(* Every step that changes one page table and no thread.                   *)
LEMMA MemoryStep ==
  ASSUME MemInv, NEW m \in Mems, NEW table \in [Pages -> Entries],
         NEW held \in [Datas -> [Pages -> Values]], SetTable(m, table, held),
         NEW k \in Nat, changes' = Changed(m, k), changes[m] + k <= MaxChanges,
         k = 0 => \A p \in Pages : pt[m][p] # None => table[p] = pt[m][p],
         k > 0 => NoReaders(m),
         StillAt, UNCHANGED <<guest, mm, fault, tlb, seen>>,
         cell' \in [Mems -> [Pages -> 0 .. Cardinality(Cells)]], val' \in [Cells -> Values],
         \A n \in Mems \ {m} : cell'[n] = cell[n],
         \A p \in Pages : cell'[m][p] = 0 <=> table[p] = None
  PROVE  MemInv'
<1> USE DEF MemInv
<1>1. /\ pt' \in [Mems -> [Pages -> Entries]] /\ pt'[m] = table
      /\ \A n \in Mems \ {m} : pt'[n] = pt[n]
      /\ refs' \in [Datas -> Nat] /\ RefcountExact'
      /\ content' \in [Datas -> [Pages -> Values]]
  BY TableStep DEF MemTypes
<1>2. changes' \in [Mems -> 0..MaxChanges]
  BY MemoryAssumption DEF MemTypes, TypeOK, Changed
<1>3. TypeOK'
  BY <1>1, <1>2 DEF MemTypes, TypeOK, StillAt
<1>4. MemTypes'
  <2>1. \A t \in Threads : at'[t] \in {"fault", "resolve"} => at[t] \in {"fault", "resolve"}
    BY DEF StillAt
  <2> QED  BY <1>3, <2>1 DEF MemTypes
<1>5. Spaces'
  <2>1. \A t \in Threads : at'[t] = "off" <=> at[t] = "off"
    BY DEF StillAt
  <2> QED  BY <2>1 DEF Spaces
<1>6. \A t \in Threads : at'[t] = "user" => at[t] = "user"
  BY DEF StillAt
<1>7. SeenInv' /\ TlbSound'
  BY <1>1, <1>6, Invalidated
<1>8. CellsMapped'
  <2> SUFFICES ASSUME NEW n \in Mems, NEW p \in Pages
               PROVE  cell'[n][p] = 0 <=> pt'[n][p] = None
    BY DEF CellsMapped
  <2>1. CASE n = m
    <3>1. cell'[m][p] = 0 <=> table[p] = None
      OBVIOUS
    <3>2. pt'[n][p] = table[p] /\ cell'[n][p] = cell'[m][p]
      BY <1>1, <2>1
    <3> QED  BY <3>1, <3>2
  <2>2. CASE n # m
    <3>1. cell[n][p] = 0 <=> pt[n][p] = None
      BY DEF CellsMapped
    <3>2. cell'[n] = cell[n] /\ pt'[n] = pt[n]
      BY <1>1, <2>2
    <3> QED  BY <3>1, <3>2
  <2> QED  BY <2>1, <2>2
<1> QED  BY <1>1, <1>4, <1>5, <1>7, <1>8 DEF LockedGuests

(* Steps that leave the threads alone.                                     *)
LEMMA ThreadsAlone ==
  ASSUME MemInv, UNCHANGED threads
  PROVE  StillAt /\ UNCHANGED <<mm, fault, tlb, seen>>
BY DEF MemInv, MemTypes, TypeOK, StillAt, threads

(* A thread in the kernel, or at a fault, has an address space.            *)
LEMMA HasMem ==
  ASSUME MemInv, NEW t \in Threads, at[t] # "off"
  PROVE  mm[t] \in Mems
BY DEF MemInv, Spaces, MemTypes, TypeOK

(* pt_map gives entries to pages; it invalidates what was mapped there.    *)
LEMMA MapStep ==
  ASSUME MemInv, NEW m \in Mems, NEW ps \in SUBSET Pages, NEW entries \in [ps -> Entries],
         NEW held, Map(m, entries, held),
         NEW table, table = [p \in Pages |-> IF p \in ps THEN entries[p] ELSE pt[m][p]],
         NEW k, k = Cardinality({p \in ps : Mapped(m, p)})
  PROVE  /\ table \in [Pages -> Entries] /\ SetTable(m, table, held)
         /\ k \in Nat /\ k <= Cardinality(ps) /\ changes' = Changed(m, k)
         /\ k = 0 => \A p \in Pages : pt[m][p] # None => table[p] = pt[m][p]
<1> DEFINE over == {p \in ps : Mapped(m, p)}
<1>1. DOMAIN entries = ps
  OBVIOUS
<1>2. SetTable(m, table, held) /\ changes' = Changed(m, Cardinality(over))
  BY <1>1 DEF Map
<1>3. table \in [Pages -> Entries]
  BY DEF MemInv, MemTypes, TypeOK
<1>4. IsFiniteSet(ps) /\ IsFiniteSet(over) /\ Cardinality(over) <= Cardinality(ps)
  <2>1. IsFiniteSet(ps)
    BY MemoryAssumption, FS_Subset
  <2>2. over \in SUBSET ps
    OBVIOUS
  <2> QED  BY <2>1, <2>2, FS_Subset
<1>5. Cardinality(over) \in Nat /\ (Cardinality(over) = 0 => over = {})
  BY <1>4, FS_CardinalityType, FS_EmptySet
<1>6. over = {} => \A p \in Pages : pt[m][p] # None => table[p] = pt[m][p]
  BY DEF Mapped
<1>7. k = Cardinality(over)
  OBVIOUS
<1> HIDE DEF over
<1> QED  BY <1>2, <1>3, <1>4, <1>5, <1>6, <1>7

(* Free pages of the host and of the expected memory.                      *)
LEMMA FreeData == Live # Datas => Free(Datas, Live) \in Datas \ Live
<1>1. Live \subseteq Datas /\ Datas \subseteq Nat
  BY MemoryAssumption DEF Live
<1> QED  BY <1>1, FreeIsFree

(* Likewise for cells.                                                     *)
LEMMA FreeCell == Cells \ UsedCells # {} => Free(Cells, UsedCells) \in Cells \ UsedCells
<1>1. Cells \subseteq Nat
  BY CellNumbers
<1> QED  BY <1>1, FreeIsFree

(* Cells for several pages at once.                                        *)
LEMMA FreeCells ==
  ASSUME NEW S \in SUBSET Pages, Cardinality(Cells \ UsedCells) >= Cardinality(S)
  PROVE  LET c == CHOOSE f \in [S -> Cells \ UsedCells] : \A x, y \in S : f[x] = f[y] => x = y
         IN  c \in [S -> Cells \ UsedCells] /\ \A x, y \in S : c[x] = c[y] => x = y
<1>1. IsFiniteSet(S) /\ IsFiniteSet(Cells \ UsedCells)
  BY MemoryAssumption, CellNumbers, FS_Subset, FS_Difference
<1>2. Cardinality(S) <= Cardinality(Cells \ UsedCells)
  BY <1>1, FS_CardinalityType
<1>3. \E f \in [S -> Cells \ UsedCells] : \A x, y \in S : f[x] = f[y] => x = y
  BY <1>1, <1>2, Numbering
<1> QED  BY <1>3

---------------------------------------------------------------------------
(* mmap, mremap that grows and a stack that grows give pages a new host    *)
(* mapping d, page by page, and cells of their own.                        *)
MapsFresh(m, ps, entries, d, c) ==
  /\ entries \in [ps -> Entries \ {None}] /\ d \in Datas \ Live
  /\ \A p \in ps : entries[p].data = d /\ entries[p].off = p
  /\ c \in [ps -> Cells \ UsedCells] /\ \A x, y \in ps : c[x] = c[y] => x = y
  /\ Map(m, entries, content)
  /\ SetCells(m, [p \in Pages |-> IF p \in ps THEN c[p] ELSE cell[m][p]], val)

(* The page tables stay sound, under the write lock or in a hole.          *)
LEMMA FreshKeeps ==
  ASSUME MemInv, NEW m \in Mems, NEW ps \in SUBSET Pages, NEW entries, NEW d, NEW c,
         MapsFresh(m, ps, entries, d, c),
         \/ NoReaders(m) /\ changes[m] + Cardinality(ps) <= MaxChanges
         \/ \A p \in ps : ~Mapped(m, p),
         StillAt, UNCHANGED <<guest, mm, fault, tlb, seen>>
  PROVE  MemInv'
<1> DEFINE table == [p \in Pages |-> IF p \in ps THEN entries[p] ELSE pt[m][p]]
           k == Cardinality({p \in ps : Mapped(m, p)})
           cells == [p \in Pages |-> IF p \in ps THEN c[p] ELSE cell[m][p]]
<1>1. entries \in [ps -> Entries] /\ Map(m, entries, content) /\ SetCells(m, cells, val)
  BY DEF MapsFresh
<1>2. /\ table \in [Pages -> Entries] /\ SetTable(m, table, content)
      /\ k \in Nat /\ k <= Cardinality(ps) /\ changes' = Changed(m, k)
      /\ k = 0 => \A p \in Pages : pt[m][p] # None => table[p] = pt[m][p]
  BY <1>1, MapStep
<1>3. TypeOK /\ content \in [Datas -> [Pages -> Values]] /\ val \in [Cells -> Values]
  BY DEF MemInv, MemTypes, TypeOK
<1>4. cells \in [Pages -> Cells \cup {0}]
  <2>1. cell[m] \in [Pages -> Cells \cup {0}]
    BY <1>3, CellNumbers DEF TypeOK
  <2>2. c \in [ps -> Cells \ UsedCells]
    BY DEF MapsFresh
  <2> QED  BY <2>1, <2>2
<1>5. /\ cell' \in [Mems -> [Pages -> 0 .. Cardinality(Cells)]] /\ val' \in [Cells -> Values]
      /\ cell'[m] = cells /\ \A n \in Mems \ {m} : cell'[n] = cell[n]
  <2> HIDE DEF cells
  <2> QED  BY <1>1, <1>3, <1>4, CellsStep
<1>c. \A p \in Pages : cells[p] = 0 <=> table[p] = None
  <2>1. \A p \in ps : entries[p] # None /\ c[p] # 0
    BY CellNumbers DEF MapsFresh
  <2>2. \A p \in Pages : cell[m][p] = 0 <=> pt[m][p] = None
    BY DEF MemInv, CellsMapped
  <2> QED  BY <2>1, <2>2
<1>6. (\A p \in ps : ~Mapped(m, p)) => k = 0
  <2>1. (\A p \in ps : ~Mapped(m, p)) => {p \in ps : Mapped(m, p)} = {}
    OBVIOUS
  <2> QED  BY <2>1, FS_EmptySet
<1>7. changes[m] + k <= MaxChanges /\ (k > 0 => NoReaders(m))
  <2>1. changes[m] \in Nat /\ changes[m] <= MaxChanges /\ MaxChanges \in Nat
    BY <1>3, MemoryAssumption DEF TypeOK
  <2>2. Cardinality(ps) \in Nat
    BY MemoryAssumption, FS_Subset, FS_CardinalityType
  <2> HIDE DEF k
  <2> QED  BY <1>2, <1>6, <2>1, <2>2
<1> HIDE DEF table, k, cells
<1> QED  BY <1>2, <1>3, <1>5, <1>7, <1>c, MemoryStep

(* mmap maps fresh pages.                                                  *)
LEMMA MmapFresh ==
  ASSUME MemInv, NEW t \in Threads, NEW ps \in SUBSET Pages, NEW flags \in SUBSET {"shared", "gd"},
         Mmap(t, ps, flags)
  PROVE  \E entries, d, c :
           /\ MapsFresh(mm[t], ps, entries, d, c)
           /\ \A p \in ps : "cow" \notin entries[p].flags
<1> DEFINE m == mm[t]
           d == Free(Datas, Live)
           fl == {"w", "anon"} \cup flags
           entries == [p \in ps |-> [data |-> d, off |-> p, flags |-> fl]]
           c == CHOOSE f \in [ps -> Cells \ UsedCells] : \A x, y \in ps : f[x] = f[y] => x = y
<1>1. /\ Live # Datas /\ Cardinality(Cells \ UsedCells) >= Cardinality(ps)
      /\ Map(m, entries, content)
      /\ SetCells(m, [p \in Pages |-> IF p \in ps THEN c[p] ELSE cell[m][p]], val)
  BY DEF Mmap
<1>2. d \in Datas \ Live /\ fl \in SUBSET Flags /\ "cow" \notin fl
  BY <1>1, FreeData DEF Flags
<1>3. c \in [ps -> Cells \ UsedCells] /\ \A x, y \in ps : c[x] = c[y] => x = y
  BY <1>1, FreeCells
<1> HIDE DEF d, fl
<1>4. \A p \in ps : /\ entries[p] \in Entries \ {None} /\ entries[p].data = d /\ entries[p].off = p
                    /\ entries[p].flags = fl
  BY <1>2, NewEntry
<1>5. entries \in [ps -> Entries \ {None}]
  BY <1>4
<1> HIDE DEF entries, c
<1>6. MapsFresh(m, ps, entries, d, c)
  BY <1>1, <1>2, <1>3, <1>4, <1>5 DEF MapsFresh
<1>7. \A p \in ps : "cow" \notin entries[p].flags
  BY <1>2, <1>4
<1> QED  BY <1>6, <1>7

(* mremap that grows maps a fresh page with the flags of another.          *)
LEMMA GrowsFresh ==
  ASSUME MemInv, NEW t \in Threads, NEW from \in Pages, NEW p \in Pages, MremapGrows(t, from, p)
  PROVE  \E entries, d, c :
           /\ MapsFresh(mm[t], {p}, entries, d, c) /\ Mapped(mm[t], from)
           /\ entries[p].flags = pt[mm[t]][from].flags
<1> DEFINE m == mm[t]
           d == Free(Datas, Live)
           x == Free(Cells, UsedCells)
           e == pt[m][from]
           entries == [q \in {p} |-> [e EXCEPT !.data = d, !.off = q]]
           c == [q \in {p} |-> x]
<1>1. /\ Live # Datas /\ Cells \ UsedCells # {} /\ Has(e, "anon") /\ at[t] = "kernel"
      /\ Map(m, entries, content) /\ SetCells(m, [cell[m] EXCEPT ![p] = x], val)
  BY DEF MremapGrows
<1>2. m \in Mems /\ TypeOK
  BY <1>1, HasMem DEF MemInv, MemTypes
<1>3. d \in Datas \ Live /\ x \in Cells \ UsedCells
  BY <1>1, FreeData, FreeCell
<1>4. e \in Entries \ {None} /\ Mapped(m, from)
  BY <1>1, <1>2 DEF TypeOK, Has, Mapped
<1>5. [cell[m] EXCEPT ![p] = x] = [q \in Pages |-> IF q \in {p} THEN c[q] ELSE cell[m][q]]
  BY <1>2 DEF TypeOK
<1>6. c \in [{p} -> Cells \ UsedCells] /\ \A a, b \in {p} : c[a] = c[b] => a = b
  BY <1>3
<1> HIDE DEF d, x, e
<1>7. /\ entries[p] \in Entries \ {None} /\ entries[p].data = d /\ entries[p].off = p
      /\ entries[p].flags = e.flags
  <2>1. entries[p] = [e EXCEPT !.data = d, !.off = p]
    OBVIOUS
  <2> HIDE DEF entries
  <2>2. e \in Entries \ {None} /\ d \in Datas
    BY <1>3, <1>4
  <2> DEFINE new == entries[p]
  <2> HIDE DEF new
  <2>3. new = [e EXCEPT !.data = d, !.off = p]
    BY <2>1 DEF new
  <2>4. e \in [data : Datas, off : Pages, flags : SUBSET Flags]
    BY <2>2 DEF Entries
  <2>5. /\ new \in [data : Datas, off : Pages, flags : SUBSET Flags]
        /\ new.data = d /\ new.off = p /\ new.flags = e.flags
    BY <2>2, <2>3, <2>4
  <2>6. new \in Entries \ {None}
    BY <2>5, EntryFacts DEF Entries
  <2> QED  BY <2>5, <2>6 DEF new
<1>8. entries \in [{p} -> Entries \ {None}]
  BY <1>7
<1> HIDE DEF entries, c
<1>9. MapsFresh(m, {p}, entries, d, c)
  BY <1>1, <1>3, <1>5, <1>6, <1>7, <1>8 DEF MapsFresh
<1> QED  BY <1>4, <1>7, <1>9 DEF e

(* So does a stack that grows.                                             *)
LEMMA StackFresh ==
  ASSUME MemInv, NEW t \in Threads, ResolveStack(t)
  PROVE  LET p == fault[t].page
         IN  /\ p \in Pages /\ mm[t] \in Mems
             /\ \E entries, d, c :
                  /\ MapsFresh(mm[t], {p}, entries, d, c)
                  /\ entries[p].flags = {"w", "gd", "anon"}
<1> DEFINE m == mm[t]
           p == fault[t].page
           d == Free(Datas, Live)
           x == Free(Cells, UsedCells)
           fl == {"w", "gd", "anon"}
           entries == [q \in {p} |-> [data |-> d, off |-> q, flags |-> fl]]
           c == [q \in {p} |-> x]
<1>1. /\ Live # Datas /\ Cells \ UsedCells # {} /\ at[t] = "resolve"
      /\ Map(m, entries, content) /\ SetCells(m, [cell[m] EXCEPT ![p] = x], val)
  BY DEF ResolveStack
<1>2. m \in Mems /\ TypeOK /\ p \in Pages
  BY <1>1, HasMem DEF MemInv, MemTypes
<1>3. d \in Datas \ Live /\ x \in Cells \ UsedCells /\ fl \in SUBSET Flags
  BY <1>1, FreeData, FreeCell DEF Flags
<1>5. [cell[m] EXCEPT ![p] = x] = [q \in Pages |-> IF q \in {p} THEN c[q] ELSE cell[m][q]]
  BY <1>2 DEF TypeOK
<1>6. c \in [{p} -> Cells \ UsedCells] /\ \A a, b \in {p} : c[a] = c[b] => a = b
  BY <1>3
<1> HIDE DEF d, x, fl, p
<1>7. /\ entries[p] \in Entries \ {None} /\ entries[p].data = d /\ entries[p].off = p
      /\ entries[p].flags = fl
  BY <1>2, <1>3, NewEntry
<1>8. entries \in [{p} -> Entries \ {None}]
  BY <1>7
<1> HIDE DEF entries, c
<1>9. MapsFresh(m, {p}, entries, d, c)
  BY <1>1, <1>3, <1>5, <1>6, <1>7, <1>8 DEF MapsFresh
<1> QED  BY <1>2, <1>7, <1>9 DEF fl, p

---------------------------------------------------------------------------
(* The steps, one by one: first those that map fresh pages.                *)
LEMMA MmapKeeps ==
  ASSUME MemInv, NEW t \in Threads, NEW ps \in SUBSET Pages, NEW flags \in SUBSET {"shared", "gd"},
         Mmap(t, ps, flags), guest' = guest
  PROVE  MemInv'
<1>1. /\ at[t] = "kernel" /\ NoReaders(mm[t]) /\ UNCHANGED threads
      /\ changes[mm[t]] + Cardinality(ps) <= MaxChanges
  BY DEF Mmap
<1>2. mm[t] \in Mems /\ StillAt /\ UNCHANGED <<mm, fault, tlb, seen>>
  BY <1>1, HasMem, ThreadsAlone
<1>3. PICK entries, d, c : MapsFresh(mm[t], ps, entries, d, c)
  BY MmapFresh
<1> QED  BY <1>1, <1>2, <1>3, FreshKeeps

(* mremap that grows needs no lock: the page was a hole.                   *)
LEMMA GrowsKeeps ==
  ASSUME MemInv, NEW t \in Threads, NEW from \in Pages, NEW p \in Pages,
         MremapGrows(t, from, p), guest' = guest
  PROVE  MemInv'
<1>1. at[t] = "kernel" /\ ~Mapped(mm[t], p) /\ UNCHANGED threads
  BY DEF MremapGrows
<1>2. mm[t] \in Mems /\ StillAt /\ UNCHANGED <<mm, fault, tlb, seen>>
  BY <1>1, HasMem, ThreadsAlone
<1>3. PICK entries, d, c : MapsFresh(mm[t], {p}, entries, d, c)
  BY GrowsFresh
<1>4. {p} \in SUBSET Pages /\ \A q \in {p} : ~Mapped(mm[t], q)
  BY <1>1
<1> QED  BY <1>2, <1>3, <1>4, FreshKeeps

(* Nor does the stack change a page that was there.                        *)
LEMMA StackKeeps ==
  ASSUME MemInv, NEW t \in Threads, ResolveStack(t), guest' = guest
  PROVE  MemInv'
<1> DEFINE p == fault[t].page
<1>1. /\ at[t] = "resolve" /\ pt[mm[t]][p] = None /\ at' = [at EXCEPT ![t] = "fault"]
      /\ UNCHANGED <<mm, fault, tlb, seen>>
  BY DEF ResolveStack
<1>2. StillAt
  BY <1>1 DEF StillAt, MemInv, MemTypes, TypeOK
<1>3. p \in Pages /\ mm[t] \in Mems
  BY StackFresh
<1>4. PICK entries, d, c : MapsFresh(mm[t], {p}, entries, d, c)
  BY StackFresh
<1> HIDE DEF p
<1>5. {p} \in SUBSET Pages /\ \A q \in {p} : ~Mapped(mm[t], q)
  BY <1>1, <1>3 DEF Mapped
<1> QED  BY <1>1, <1>2, <1>3, <1>4, <1>5, FreshKeeps

(* munmap, and mremap that shrinks: that one by the only thread.           *)
LEMMA UnmapKeeps ==
  ASSUME MemInv, NEW t \in Threads, NEW ps \in SUBSET Pages,
         Munmap(t, ps) \/ MremapShrinks(t, ps), guest' = guest
  PROVE  MemInv'
<1> DEFINE m == mm[t]
           table == [p \in Pages |-> IF p \in ps THEN None ELSE pt[m][p]]
           cells == [p \in Pages |-> IF p \in ps THEN 0 ELSE cell[m][p]]
<1>1. /\ at[t] = "kernel" /\ changes[m] < MaxChanges /\ SetTable(m, table, content)
      /\ changes' = Changed(m, 1) /\ SetCells(m, cells, val) /\ UNCHANGED threads
  BY DEF Munmap, MremapShrinks, Unmap
<1>2. m \in Mems /\ StillAt /\ UNCHANGED <<mm, fault, tlb, seen>> /\ TypeOK
  BY <1>1, HasMem, ThreadsAlone DEF MemInv, MemTypes
<1>3. NoReaders(m)
  <2>1. CASE Munmap(t, ps)
    BY <2>1 DEF Munmap
  <2>2. CASE MremapShrinks(t, ps)
    <3>1. "mremap" \in guest.calls /\ guest \in Guests
      BY <1>2, <2>2 DEF MremapShrinks, TypeOK
    <3>2. "clone" \notin guest.calls
      BY <3>1 DEF MemInv, LockedGuests
    <3>3. \A u \in Threads : mm[u] = m => u = t
      BY <1>2, <3>2, MemoryAssumption DEF MemInv, Spaces
    <3> QED  BY <1>1, <3>3 DEF NoReaders
  <2> QED  BY <2>1, <2>2
<1>4. /\ table \in [Pages -> Entries] /\ cells \in [Pages -> Cells \cup {0}]
      /\ content \in [Datas -> [Pages -> Values]] /\ val \in [Cells -> Values]
      /\ changes[m] \in Nat
  <2>1. cell[m] \in [Pages -> Cells \cup {0}]
    BY <1>2, CellNumbers DEF TypeOK
  <2>2. pt[m] \in [Pages -> Entries] /\ None \in Entries
    BY <1>2, EntryFacts DEF TypeOK
  <2> QED  BY <1>2, <2>1, <2>2 DEF TypeOK
<1>c. \A p \in Pages : cells[p] = 0 <=> table[p] = None
  BY <1>2 DEF MemInv, CellsMapped
<1> HIDE DEF table, cells
<1>5. /\ cell' \in [Mems -> [Pages -> 0 .. Cardinality(Cells)]] /\ val' \in [Cells -> Values]
      /\ cell'[m] = cells /\ \A n \in Mems \ {m} : cell'[n] = cell[n]
  BY <1>1, <1>2, <1>4, CellsStep
<1>6. changes[m] + 1 <= MaxChanges /\ 1 \in Nat /\ 1 # 0
  BY <1>1, <1>4, MemoryAssumption
<1> QED  BY <1>1, <1>2, <1>3, <1>4, <1>5, <1>6, <1>c, MemoryStep

(* mprotect gives a page other flags.                                      *)
LEMMA MprotectKeeps ==
  ASSUME MemInv, NEW t \in Threads, NEW p \in Pages, NEW w \in BOOLEAN, Mprotect(t, p, w),
         guest' = guest
  PROVE  MemInv'
<1> DEFINE m == mm[t]
           fl == IF w THEN {"w"} ELSE {}
           table == [pt[m] EXCEPT ![p].flags = fl]
<1>1. /\ at[t] = "kernel" /\ NoReaders(m) /\ Mapped(m, p) /\ changes[m] < MaxChanges
      /\ SetTable(m, table, content) /\ changes' = Changed(m, 1)
      /\ UNCHANGED <<cell, val, threads>>
  BY DEF Mprotect
<1>2. m \in Mems /\ StillAt /\ UNCHANGED <<mm, fault, tlb, seen>> /\ TypeOK
  BY <1>1, HasMem, ThreadsAlone DEF MemInv, MemTypes
<1>3. /\ table \in [Pages -> Entries]
      /\ \A q \in Pages : table[q] = None <=> pt[m][q] = None
  <2>1. pt[m] \in [Pages -> Entries] /\ pt[m][p] \in Entries \ {None} /\ fl \in SUBSET Flags
    BY <1>1, <1>2 DEF TypeOK, Mapped, Flags
  <2> DEFINE new == [pt[m][p] EXCEPT !.flags = fl]
  <2>2. table = [pt[m] EXCEPT ![p] = new]
    OBVIOUS
  <2>3. new \in Entries /\ new # None
    BY <2>1, ChangedFlags
  <2> HIDE DEF new
  <2> QED  BY <1>1, <2>1, <2>2, <2>3 DEF Mapped
<1>4. /\ content \in [Datas -> [Pages -> Values]] /\ changes[m] \in Nat
      /\ cell' \in [Mems -> [Pages -> 0 .. Cardinality(Cells)]] /\ val' \in [Cells -> Values]
  BY <1>1, <1>2 DEF TypeOK
<1> HIDE DEF table
<1>c. \A q \in Pages : cell'[m][q] = 0 <=> table[q] = None
  BY <1>1, <1>2, <1>3 DEF MemInv, CellsMapped
<1>5. changes[m] + 1 <= MaxChanges /\ 1 \in Nat /\ 1 # 0
  BY <1>1, <1>4, MemoryAssumption
<1> QED  BY <1>1, <1>2, <1>3, <1>4, <1>5, <1>c, MemoryStep

(* A page is copied to a fresh host mapping, under the write lock.         *)
Copied(t, d, new, held) ==
  LET m == mm[t]
      p == fault[t].page
      e == pt[m][p]
  IN  /\ m \in Mems /\ p \in Pages /\ e \in Entries \ {None} /\ Has(e, "w") /\ Has(e, "cow")
      /\ d \in Datas \ Live /\ new \in Entries \ {None}
      /\ new.data = d /\ new.off = p /\ new.flags = e.flags \ {"cow"}
      /\ held \in [Datas -> [Pages -> Values]]
      /\ held[d][p] = content[e.data][e.off]
      /\ \A b \in Datas \ {d} : held[b] = content[b]
      /\ \A q \in Pages \ {p} : held[d][q] = 0
      /\ Map(m, [q \in {p} |-> new], held)

(* That is what mem_resolve_fault does.                                    *)
LEMMA CopyFacts ==
  ASSUME MemInv, NEW t \in Threads, ResolveCopy(t)
  PROVE  \E d, new, held : Copied(t, d, new, held)
<1> DEFINE m == mm[t]
           p == fault[t].page
           e == pt[m][p]
           d == Free(Datas, Live)
           fl == e.flags \ {"cow"}
           new == [data |-> d, off |-> p, flags |-> fl]
           v == content[e.data][e.off]
           page == [Blank EXCEPT ![p] = v]
           held == [content EXCEPT ![d] = page]
<1>1. /\ at[t] = "resolve" /\ MustCopy(e, fault[t]) /\ Live # Datas
      /\ Map(m, [q \in {p} |-> [data |-> d, off |-> q, flags |-> fl]], held)
  BY Zenon DEF ResolveCopy
<1>7. [q \in {p} |-> [data |-> d, off |-> q, flags |-> fl]] = [q \in {p} |-> new]
  OBVIOUS
<1> HIDE DEF d, page, held, new, v
<1>2. m \in Mems /\ TypeOK /\ p \in Pages
  BY <1>1, HasMem DEF MemInv, MemTypes
<1>3. e \in Entries \ {None} /\ Has(e, "w") /\ Has(e, "cow")
  <2>1. e \in Entries
    BY <1>2 DEF TypeOK
  <2> HIDE DEF e
  <2> QED  BY <1>1, <2>1 DEF MustCopy, Has
<1>4. d \in Datas \ Live
  BY <1>1, FreeData DEF d
<1>5. e.data \in Datas /\ e.off \in Pages /\ fl \in SUBSET Flags
  BY <1>3, EntryFacts
<1>6. v \in Values
  BY <1>2, <1>5 DEF TypeOK, v
<1> HIDE DEF fl, e, p
<1>8. new \in Entries \ {None} /\ new.data = d /\ new.off = p /\ new.flags = fl
  BY <1>2, <1>4, <1>5, NewEntry DEF new
<1>9. page \in [Pages -> Values] /\ page[p] = v /\ \A q \in Pages \ {p} : page[q] = 0
  BY <1>2, <1>6, MemoryAssumption DEF Blank, page
<1>10. /\ held \in [Datas -> [Pages -> Values]] /\ held[d] = page
       /\ \A b \in Datas \ {d} : held[b] = content[b]
  BY Zenon, <1>2, <1>4, <1>9 DEF TypeOK, held
<1>11. Copied(t, d, new, held)
  BY Zenon, <1>1, <1>2, <1>3, <1>4, <1>7, <1>8, <1>9, <1>10 DEF Copied, p, e, fl, v
<1> QED  BY Zenon, <1>11

(* It changes an entry that was there, so translations are invalidated.    *)
LEMMA CopyKeeps ==
  ASSUME MemInv, NEW t \in Threads, ResolveCopy(t), guest' = guest
  PROVE  MemInv'
<1>1. PICK d, new, held : Copied(t, d, new, held)
  BY CopyFacts
<1> DEFINE m == mm[t]
           x == fault[t].page
           ps == {x}
           entries == [q \in ps |-> new]
           table == [p \in Pages |-> IF p \in ps THEN entries[p] ELSE pt[m][p]]
           k == Cardinality({p \in ps : Mapped(m, p)})
<1>2. /\ at[t] = "resolve" /\ NoReaders(m) /\ changes[m] < MaxChanges
      /\ at' = [at EXCEPT ![t] = "fault"]
      /\ UNCHANGED <<mm, fault, tlb, seen, cell, val>>
  BY Zenon DEF ResolveCopy
<1> HIDE DEF table, k
<1>3. /\ m \in Mems /\ x \in Pages /\ pt[m][x] # None /\ new \in Entries \ {None}
      /\ held \in [Datas -> [Pages -> Values]] /\ Map(m, entries, held)
  BY Zenon, <1>1 DEF Copied
<1>4. StillAt /\ TypeOK
  BY <1>2 DEF StillAt, MemInv, MemTypes, TypeOK
<1> HIDE DEF x
<1>5. ps \in SUBSET Pages /\ entries \in [ps -> Entries]
  BY <1>3
<1> HIDE DEF entries, ps, m
<1>t. /\ table = [p \in Pages |-> IF p \in ps THEN entries[p] ELSE pt[m][p]]
      /\ k = Cardinality({p \in ps : Mapped(m, p)})
  BY DEF table, k
<1>6. /\ table \in [Pages -> Entries] /\ SetTable(m, table, held)
      /\ k \in Nat /\ k <= Cardinality(ps) /\ changes' = Changed(m, k)
      /\ k = 0 => \A p \in Pages : pt[m][p] # None => table[p] = pt[m][p]
  <2>1. m \in Mems /\ ps \in SUBSET Pages /\ entries \in [ps -> Entries] /\ Map(m, entries, held)
    BY <1>3, <1>5
  <2>2. /\ table = [p \in Pages |-> IF p \in ps THEN entries[p] ELSE pt[m][p]]
        /\ k = Cardinality({p \in ps : Mapped(m, p)})
    BY <1>t
  <2>3. table \in [Pages -> Entries]
    BY <2>1, <2>2, MapStep
  <2>4. SetTable(m, table, held)
    BY <2>1, <2>2, MapStep
  <2>5. k \in Nat
    BY <2>1, <2>2, MapStep
  <2> QED BY <2>1, <2>2, MapStep
<1>7. Cardinality(ps) = 1
  BY FS_Singleton DEF ps
<1>8. changes[m] + k <= MaxChanges
  <2>1. changes[m] \in Nat /\ MaxChanges \in Nat
    BY <1>3, <1>4, MemoryAssumption DEF TypeOK
  <2> QED  BY <1>2, <1>6, <1>7, <2>1
<1>9. \A q \in Pages : cell'[m][q] = 0 <=> table[q] = None
  <2>1. \A q \in Pages : table[q] = None <=> pt[m][q] = None
    BY <1>3 DEF entries, ps, table
  <2> QED  BY <1>2, <1>3, <2>1 DEF MemInv, CellsMapped
<1>10. cell' \in [Mems -> [Pages -> 0 .. Cardinality(Cells)]] /\ val' \in [Cells -> Values]
  BY <1>2, <1>4 DEF TypeOK
<1> QED  BY Zenon, <1>2, <1>3, <1>4, <1>6, <1>8, <1>9, <1>10, MemoryStep

---------------------------------------------------------------------------
(* Steps of one thread that change no page table.                          *)
LEMMA ThreadStep ==
  ASSUME MemInv, NEW t \in Threads, at[t] # "off",
         UNCHANGED <<guest, pt, refs, changes, mm, cell>>,
         content' \in [Datas -> [Pages -> Values]], val' \in [Cells -> Values],
         NEW a \in {"kernel", "user", "fault", "resolve"}, at' = [at EXCEPT ![t] = a],
         NEW f \in Faults, fault' = [fault EXCEPT ![t] = f],
         a \in {"fault", "resolve"} => f.page \in Pages,
         NEW table \in [Pages -> Translations], tlb' = [tlb EXCEPT ![t] = table],
         NEW s, s = seen[t] \/ s = changes[mm[t]], seen' = [seen EXCEPT ![t] = s],
         a = "user" => s = changes[mm[t]],
         s = changes[mm[t]] => \A p \in Pages : table[p] # None => Sound(pt[mm[t]][p], table[p])
  PROVE  MemInv'
<1> USE DEF MemInv
<1>1. mm[t] \in Mems
  BY HasMem
<1>2. TypeOK
  BY DEF MemTypes
<1>3. s \in 0..MaxChanges
  BY <1>1, <1>2 DEF TypeOK
<1>4. TypeOK'
  BY <1>2, <1>3 DEF TypeOK
<1>5. MemTypes'
  BY <1>4 DEF MemTypes, TypeOK
<1>6. Spaces'
  BY <1>2 DEF Spaces, TypeOK
<1>7. SeenInv'
  <2> SUFFICES ASSUME NEW u \in Threads, mm[u] # NoMem
               PROVE  seen'[u] <= changes[mm[u]] /\ (at'[u] = "user" => seen'[u] = changes[mm[u]])
    BY DEF SeenInv
  <2>1. CASE u = t
    <3>1. seen'[u] = s /\ at'[u] = a
      BY <1>2, <2>1 DEF TypeOK
    <3>2. seen[t] <= changes[mm[t]] /\ changes[mm[t]] \in Nat
      BY <1>1, <1>2, <2>1, MemoryAssumption DEF SeenInv, TypeOK
    <3> QED  BY <2>1, <3>1, <3>2
  <2>2. CASE u # t
    <3>1. seen'[u] = seen[u] /\ at'[u] = at[u]
      BY <1>2, <2>2 DEF TypeOK
    <3> QED  BY <3>1 DEF SeenInv
  <2> QED  BY <2>1, <2>2
<1>8. TlbSound'
  <2> SUFFICES ASSUME NEW u \in Threads, NEW p \in Pages, mm[u] # NoMem,
                      seen'[u] = changes[mm[u]], tlb'[u][p] # None
               PROVE  Sound(pt[mm[u]][p], tlb'[u][p])
    BY DEF TlbSound
  <2>1. CASE u = t
    <3>1. seen'[u] = s /\ tlb'[u] = table
      BY <1>2, <2>1 DEF TypeOK, MemTypes
    <3> QED  BY <2>1, <3>1
  <2>2. CASE u # t
    <3>1. seen'[u] = seen[u] /\ tlb'[u] = tlb[u]
      BY <1>2, <2>2 DEF TypeOK, MemTypes
    <3> QED  BY <3>1 DEF TlbSound
  <2> QED  BY <2>1, <2>2
<1>9. RefcountExact' /\ CellsMapped'
  BY DEF RefcountExact, CellsMapped
<1> QED  BY <1>5, <1>6, <1>7, <1>8, <1>9 DEF LockedGuests

(* What a thread has cached when it has just compared its mem_changes.     *)
LEMMA RefreshedSound ==
  ASSUME MemInv, NEW t \in Threads, at[t] # "off"
  PROVE  /\ Refreshed(t) \in [Pages -> Translations]
         /\ \A p \in Pages : Refreshed(t)[p] # None => Sound(pt[mm[t]][p], Refreshed(t)[p])
<1>1. mm[t] \in Mems /\ mm[t] # NoMem
  BY HasMem, MemoryAssumption
<1>2. NoTLB \in [Pages -> Translations] /\ \A p \in Pages : NoTLB[p] = None
  BY DEF NoTLB, Translations
<1>3. CASE seen[t] = changes[mm[t]]
  BY <1>1, <1>3 DEF Refreshed, MemInv, TlbSound, MemTypes
<1>4. CASE seen[t] # changes[mm[t]]
  BY <1>2, <1>4 DEF Refreshed
<1> QED  BY <1>3, <1>4

(* Steps that keep a thread's translations and what memory holds.          *)
LEMMA ControlStep ==
  ASSUME MemInv, NEW t \in Threads, at[t] # "off",
         UNCHANGED <<guest, pt, refs, content, changes, mm, tlb, seen, cell, val>>,
         NEW a \in {"kernel", "fault", "resolve"}, at' = [at EXCEPT ![t] = a],
         NEW f \in Faults, fault' = [fault EXCEPT ![t] = f],
         a \in {"fault", "resolve"} => f.page \in Pages
  PROVE  MemInv'
<1>1. mm[t] \in Mems /\ mm[t] # NoMem
  BY HasMem, MemoryAssumption
<1>2. /\ tlb[t] \in [Pages -> Translations] /\ tlb' = [tlb EXCEPT ![t] = tlb[t]]
      /\ seen' = [seen EXCEPT ![t] = seen[t]]
      /\ content' \in [Datas -> [Pages -> Values]] /\ val' \in [Cells -> Values]
  BY DEF MemInv, MemTypes, TypeOK
<1>3. seen[t] = changes[mm[t]] =>
        \A p \in Pages : tlb[t][p] # None => Sound(pt[mm[t]][p], tlb[t][p])
  BY <1>1 DEF MemInv, TlbSound
<1>4. a \in {"kernel", "user", "fault", "resolve"} /\ a # "user"
  OBVIOUS
<1> QED  BY <1>2, <1>3, <1>4, ThreadStep

(* The faults a thread has, and none.                                      *)
LEMMA FaultTypes ==
  ASSUME MemInv, NEW t \in Threads
  PROVE  /\ NoFault \in Faults /\ fault[t] \in Faults
         /\ fault' = fault => fault' = [fault EXCEPT ![t] = fault[t]]
         /\ at[t] \in {"fault", "resolve"} => fault[t].page \in Pages
<1>1. NoFault \in Faults
  BY MemoryAssumption DEF NoFault, Faults
<1>2. fault \in [Threads -> Faults]
  BY DEF MemInv, MemTypes
<1> QED  BY <1>1, <1>2 DEF MemInv, MemTypes

(* task_run_current: the translations are compared with mem_changes.       *)
LEMMA RunKeeps ==
  ASSUME MemInv, NEW t \in Threads, Run(t), guest' = guest
  PROVE  MemInv'
<1>1. /\ at[t] = "kernel" /\ at' = [at EXCEPT ![t] = "user"]
      /\ tlb' = [tlb EXCEPT ![t] = Refreshed(t)] /\ seen' = [seen EXCEPT ![t] = changes[mm[t]]]
      /\ UNCHANGED <<pt, refs, content, changes, mm, fault, cell, val>>
  BY DEF Run
<1>2. /\ Refreshed(t) \in [Pages -> Translations]
      /\ \A p \in Pages : Refreshed(t)[p] # None => Sound(pt[mm[t]][p], Refreshed(t)[p])
  BY <1>1, RefreshedSound
<1>3. fault[t] \in Faults /\ fault' = [fault EXCEPT ![t] = fault[t]]
  BY <1>1, FaultTypes
<1>4. content' \in [Datas -> [Pages -> Values]] /\ val' \in [Cells -> Values]
  BY <1>1 DEF MemInv, MemTypes, TypeOK
<1> DEFINE a == "user"
<1>5. a \in {"kernel", "user", "fault", "resolve"} /\ a \notin {"fault", "resolve"}
  OBVIOUS
<1>6. at' = [at EXCEPT ![t] = a]
  BY <1>1
<1> HIDE DEF a
<1> QED  BY <1>1, <1>2, <1>3, <1>4, <1>5, <1>6, ThreadStep

(* tlb_handle_miss caches what the page table allows, or faults.           *)
LEMMA MissKeeps ==
  ASSUME MemInv, NEW t \in Threads, NEW p \in Pages, NEW w \in BOOLEAN, Miss(t, p, w),
         guest' = guest
  PROVE  MemInv'
<1> DEFINE e == pt[mm[t]][p]
           old == Refreshed(t)
           x == [data |-> e.data, off |-> e.off, w |-> w]
<1>1. /\ at[t] = "user" /\ seen' = [seen EXCEPT ![t] = changes[mm[t]]]
      /\ UNCHANGED <<pt, refs, content, changes, mm, cell, val>>
  BY DEF Miss
<1>2. /\ old \in [Pages -> Translations]
      /\ \A q \in Pages : old[q] # None => Sound(pt[mm[t]][q], old[q])
  BY <1>1, RefreshedSound
<1>3. content' \in [Datas -> [Pages -> Values]] /\ val' \in [Cells -> Values] /\ at[t] # "off"
  BY <1>1 DEF MemInv, MemTypes, TypeOK
<1>4. e \in Entries
  <2>1. mm[t] \in Mems
    BY <1>3, HasMem
  <2> QED  BY <2>1 DEF MemInv, MemTypes, TypeOK
<1>5. CASE Translates(e, w)
  <2> DEFINE table == [old EXCEPT ![p] = x]
             a == "user"
  <2>1. tlb' = [tlb EXCEPT ![t] = table] /\ UNCHANGED <<at, fault>>
    BY <1>5 DEF Miss
  <2>2. e.data \in Datas /\ e.off \in Pages
    BY <1>4, <1>5, EntryFacts DEF Translates
  <2>3. x \in Translations /\ x.w = w /\ x.data = e.data /\ x.off = e.off
    BY <2>2 DEF Translations
  <2>4. Sound(e, x)
    BY <1>5, <2>3 DEF Sound
  <2> HIDE DEF x
  <2>5. /\ table \in [Pages -> Translations]
        /\ \A q \in Pages : table[q] # None => Sound(pt[mm[t]][q], table[q])
    BY <1>2, <2>3, <2>4
  <2> HIDE DEF table
  <2>6. fault[t] \in Faults /\ fault' = [fault EXCEPT ![t] = fault[t]]
    BY <2>1, FaultTypes
  <2>7. /\ a \in {"kernel", "user", "fault", "resolve"} /\ a \notin {"fault", "resolve"}
        /\ at' = [at EXCEPT ![t] = a]
    BY <1>1, <2>1 DEF MemInv, MemTypes, TypeOK
  <2> HIDE DEF a
  <2> QED  BY <1>1, <1>3, <2>1, <2>5, <2>6, <2>7, ThreadStep
<1>6. CASE ~Translates(e, w)
  <2> DEFINE f == [page |-> p, write |-> w, user |-> FALSE, value |-> 0]
             a == "fault"
  <2>1. /\ tlb' = [tlb EXCEPT ![t] = old] /\ at' = [at EXCEPT ![t] = a]
        /\ fault' = [fault EXCEPT ![t] = f]
    BY <1>6 DEF Miss
  <2>2. f \in Faults /\ f.page \in Pages
    BY MemoryAssumption DEF Faults
  <2>3. a \in {"kernel", "user", "fault", "resolve"} /\ a # "user"
    OBVIOUS
  <2> HIDE DEF f, a, old
  <2> QED  BY <1>1, <1>2, <1>3, <2>1, <2>2, <2>3, ThreadStep
<1> QED  BY <1>5, <1>6

(* The steps between the kernel, guest code and a fault.                   *)
LEMMA ControlKeeps ==
  ASSUME MemInv, NEW t \in Threads, guest' = guest,
         \/ Interrupt(t) \/ FaultDenied(t) \/ FaultUnlocks(t) \/ ResolveQuietly(t)
         \/ \E p \in Pages, v \in Values : UserWrite(t, p, v)
  PROVE  MemInv'
<1>1. at \in [Threads -> {"off", "kernel", "user", "fault", "resolve"}]
  BY DEF MemInv, MemTypes, TypeOK
<1>2. CASE Interrupt(t) \/ FaultUnlocks(t)
  <2>1. PICK a \in {"kernel", "resolve"} :
          /\ at' = [at EXCEPT ![t] = a] /\ at[t] # "off"
          /\ a = "resolve" => at[t] = "fault"
          /\ UNCHANGED <<pt, refs, content, changes, mm, fault, tlb, seen, cell, val>>
    BY <1>2 DEF Interrupt, FaultUnlocks
  <2>2. /\ fault[t] \in Faults /\ fault' = [fault EXCEPT ![t] = fault[t]]
        /\ at[t] = "fault" => fault[t].page \in Pages
    BY <2>1, FaultTypes
  <2> QED  BY <2>1, <2>2, ControlStep
<1>3. CASE FaultDenied(t)
  <2>1. /\ at[t] # "off" /\ at' = [at EXCEPT ![t] = "kernel"]
        /\ fault' = [fault EXCEPT ![t] = NoFault]
        /\ UNCHANGED <<pt, refs, content, changes, mm, tlb, seen, cell, val>>
    BY <1>3 DEF FaultDenied
  <2>2. NoFault \in Faults
    BY FaultTypes
  <2> QED  BY <2>1, <2>2, ControlStep
<1>4. CASE ResolveQuietly(t)
  <2>1. /\ at[t] = "resolve"
        /\ \/ at' = [at EXCEPT ![t] = "kernel"] /\ fault' = [fault EXCEPT ![t] = NoFault]
           \/ at' = [at EXCEPT ![t] = "fault"] /\ fault' = fault
        /\ UNCHANGED <<pt, refs, content, changes, mm, tlb, seen, cell, val>>
    BY <1>4 DEF ResolveQuietly
  <2>2. CASE at' = [at EXCEPT ![t] = "kernel"] /\ fault' = [fault EXCEPT ![t] = NoFault]
    <3>1. NoFault \in Faults
      BY FaultTypes
    <3> QED  BY <2>1, <2>2, <3>1, ControlStep
  <2>3. CASE at' = [at EXCEPT ![t] = "fault"] /\ fault' = fault
    <3>1. /\ fault[t] \in Faults /\ fault' = [fault EXCEPT ![t] = fault[t]]
          /\ fault[t].page \in Pages
      BY <2>1, <2>3, FaultTypes
    <3> QED  BY <2>1, <2>3, <3>1, ControlStep
  <2> QED  BY <2>1, <2>2, <2>3
<1>5. ASSUME NEW p \in Pages, NEW v \in Values, UserWrite(t, p, v)
      PROVE  MemInv'
  <2> DEFINE f == [page |-> p, write |-> TRUE, user |-> TRUE, value |-> v]
  <2>1. /\ at[t] # "off" /\ at' = [at EXCEPT ![t] = "fault"] /\ fault' = [fault EXCEPT ![t] = f]
        /\ UNCHANGED <<pt, refs, content, changes, mm, tlb, seen, cell, val>>
    BY <1>5 DEF UserWrite
  <2>2. f \in Faults /\ f.page \in Pages
    BY DEF Faults
  <2> HIDE DEF f
  <2> QED  BY <2>1, <2>2, ControlStep
<1> QED  BY <1>2, <1>3, <1>4, <1>5

(* A thread writes to a page that it may write.                            *)
LEMMA WritesKeep ==
  ASSUME MemInv, NEW t \in Threads, guest' = guest,
         FaultDone(t) \/ \E p \in Pages, v \in Values : Store(t, p, v)
  PROVE  MemInv'
<1>1. TypeOK /\ (at[t] # "off" => mm[t] \in Mems)
  BY HasMem DEF MemInv, MemTypes
<1>2. CASE FaultDone(t)
  <2> DEFINE f == fault[t]
             e == pt[mm[t]][f.page]
  <2>1. /\ at[t] = "fault" /\ Translates(e, f.write) /\ at' = [at EXCEPT ![t] = "kernel"]
        /\ fault' = [fault EXCEPT ![t] = NoFault]
        /\ UNCHANGED <<pt, refs, changes, mm, tlb, seen, cell>>
        /\ \/ /\ content' = [content EXCEPT ![e.data][e.off] = f.value]
              /\ val' = [val EXCEPT ![cell[mm[t]][f.page]] = f.value]
           \/ UNCHANGED <<content, val>>
    BY Zenon, <1>2 DEF FaultDone
  <2>2. f \in Faults /\ f.page \in Pages /\ NoFault \in Faults
    BY Zenon, <2>1, FaultTypes
  <2>3. e \in Entries /\ e.data \in Datas /\ e.off \in Pages /\ f.value \in Values
    <3>1. e \in Entries /\ e # None
      BY Zenon, <1>1, <2>1, <2>2 DEF TypeOK, Translates
    <3> QED  BY Zenon, <2>2, <3>1, EntryFacts DEF Faults
  <2> HIDE DEF f, e
  <2>4. content' \in [Datas -> [Pages -> Values]] /\ val' \in [Cells -> Values]
    <3>1. content \in [Datas -> [Pages -> Values]] /\ val \in [Cells -> Values]
      BY <1>1 DEF TypeOK
    <3> DEFINE page == [content[e.data] EXCEPT ![e.off] = f.value]
    <3>2. page \in [Pages -> Values]
      BY <2>3, <3>1
    <3>3. [content EXCEPT ![e.data][e.off] = f.value] = [content EXCEPT ![e.data] = page]
      OBVIOUS
    <3> HIDE DEF page
    <3>4. [content EXCEPT ![e.data] = page] \in [Datas -> [Pages -> Values]]
      BY <3>1, <3>2
    <3>5. content' \in [Datas -> [Pages -> Values]]
      BY <2>1, <3>1, <3>3, <3>4
    <3> QED  BY <2>1, <2>3, <3>1, <3>5
  <2>5. mm[t] \in Mems /\ mm[t] # NoMem
    BY <1>1, <2>1, MemoryAssumption
  <2>6. /\ tlb[t] \in [Pages -> Translations] /\ tlb' = [tlb EXCEPT ![t] = tlb[t]]
        /\ seen' = [seen EXCEPT ![t] = seen[t]]
    BY <2>1 DEF MemInv, MemTypes, TypeOK
  <2>7. seen[t] = changes[mm[t]] =>
          \A p \in Pages : tlb[t][p] # None => Sound(pt[mm[t]][p], tlb[t][p])
    BY <2>5 DEF MemInv, TlbSound
  <2> DEFINE a == "kernel"
  <2>8. a \in {"kernel", "user", "fault", "resolve"} \ {"user", "fault", "resolve"}
    OBVIOUS
  <2>9. at' = [at EXCEPT ![t] = a]
    BY <2>1
  <2> HIDE DEF a
  <2> QED  BY Zenon, <2>1, <2>2, <2>4, <2>6, <2>7, <2>8, <2>9, ThreadStep
<1>3. ASSUME NEW p \in Pages, NEW v \in Values, Store(t, p, v)
      PROVE  MemInv'
  <2> DEFINE x == tlb[t][p]
  <2>1. /\ at[t] = "user" /\ x # None
        /\ content' = [content EXCEPT ![x.data][x.off] = v]
        /\ val' = IF cell[mm[t]][p] = 0 THEN val ELSE [val EXCEPT ![cell[mm[t]][p]] = v]
        /\ UNCHANGED <<pt, refs, changes, mm, at, fault, tlb, seen, cell>>
    BY <1>3 DEF Store, threads
  <2>2. x.data \in Datas /\ x.off \in Pages
    <3>1. x \in Translations
      BY DEF MemInv, MemTypes
    <3> QED  BY <2>1, <3>1 DEF Translations
  <2> HIDE DEF x
  <2>3. content' \in [Datas -> [Pages -> Values]] /\ val' \in [Cells -> Values]
    BY <1>1, <2>1, <2>2 DEF TypeOK
  <2>4. TypeOK' /\ MemTypes'
    BY <2>1, <2>3 DEF MemInv, MemTypes, TypeOK
  <2>5. Spaces' /\ SeenInv' /\ TlbSound' /\ RefcountExact' /\ CellsMapped'
    BY <2>1 DEF MemInv, Spaces, SeenInv, TlbSound, RefcountExact, CellsMapped
  <2> QED  BY <2>4, <2>5 DEF MemInv, LockedGuests
<1> QED  BY <1>2, <1>3

---------------------------------------------------------------------------
(* A thread that comes or goes.  Where the page table of another thread    *)
(* changes, that thread is not running and will see it.                    *)
LEMMA JoinStep ==
  ASSUME MemInv, NEW u \in Threads, NEW n \in Mems \cup {NoMem}, NEW a \in {"off", "kernel"},
         a = "off" <=> n = NoMem, NEW s \in 0..MaxChanges, guest' = guest,
         mm' = [mm EXCEPT ![u] = n], at' = [at EXCEPT ![u] = a],
         tlb' = [tlb EXCEPT ![u] = NoTLB], seen' = [seen EXCEPT ![u] = s], fault' = fault,
         n # NoMem => /\ s <= changes'[n]
                      /\ "clone" \notin guest.calls => \A x \in Threads \ {u} : mm[x] # n,
         \A x \in Threads \ {u} : mm[x] # NoMem =>
           \/ changes'[mm[x]] = changes[mm[x]] /\ pt'[mm[x]] = pt[mm[x]]
           \/ changes'[mm[x]] = changes[mm[x]] + 1 /\ at[x] # "user",
         pt' \in [Mems -> [Pages -> Entries]], refs' \in [Datas -> Nat],
         content' \in [Datas -> [Pages -> Values]], changes' \in [Mems -> 0..MaxChanges],
         cell' \in [Mems -> [Pages -> 0..Cardinality(Cells)]], val' \in [Cells -> Values],
         RefcountExact', CellsMapped'
  PROVE  MemInv'
<1> USE DEF MemInv
<1>1. TypeOK
  BY DEF MemTypes
<1>2. \A x \in Threads \ {u} : /\ mm'[x] = mm[x] /\ at'[x] = at[x]
                               /\ tlb'[x] = tlb[x] /\ seen'[x] = seen[x]
  BY <1>1 DEF TypeOK, MemTypes
<1>3. mm'[u] = n /\ at'[u] = a /\ tlb'[u] = NoTLB /\ seen'[u] = s
  BY <1>1 DEF TypeOK, MemTypes
<1>4. TypeOK'
  BY <1>1 DEF TypeOK
<1>5. MemTypes'
  <2>1. NoTLB \in [Pages -> Translations]
    BY DEF NoTLB, Translations
  <2> QED  BY <1>4, <2>1 DEF MemTypes, TypeOK
<1>6. Spaces'
  <2>1. \A x \in Threads : at'[x] = "off" <=> mm'[x] = NoMem
    BY <1>2, <1>3 DEF Spaces
  <2>2. ASSUME "clone" \notin guest.calls, NEW x \in Threads, NEW y \in Threads,
               mm'[x] = mm'[y], mm'[x] # NoMem
        PROVE  x = y
    BY <1>2, <1>3, <2>2 DEF Spaces
  <2> QED  BY <2>1, <2>2 DEF Spaces
<1>7. SeenInv'
  <2> SUFFICES ASSUME NEW x \in Threads, mm'[x] # NoMem
               PROVE  /\ seen'[x] <= changes'[mm'[x]]
                      /\ at'[x] = "user" => seen'[x] = changes'[mm'[x]]
    BY DEF SeenInv
  <2>1. CASE x = u
    BY <1>3, <2>1
  <2>2. CASE x # u
    <3>1. seen[x] <= changes[mm[x]] /\ (at[x] = "user" => seen[x] = changes[mm[x]])
      BY <1>2, <2>2 DEF SeenInv
    <3>2. changes[mm[x]] \in Nat /\ seen[x] \in Nat
      BY <1>1, <1>2, <2>2, MemoryAssumption DEF TypeOK
    <3>3. /\ mm'[x] = mm[x] /\ at'[x] = at[x] /\ seen'[x] = seen[x]
          /\ \/ changes'[mm[x]] = changes[mm[x]]
             \/ changes'[mm[x]] = changes[mm[x]] + 1 /\ at[x] # "user"
      BY <1>2, <2>2
    <3>4. seen[x] <= changes'[mm[x]] /\ (at[x] = "user" => seen[x] = changes'[mm[x]])
      BY <3>1, <3>2, <3>3
    <3> QED  BY <3>3, <3>4
  <2> QED  BY <2>1, <2>2
<1>8. TlbSound'
  <2> SUFFICES ASSUME NEW x \in Threads, NEW p \in Pages, mm'[x] # NoMem,
                      seen'[x] = changes'[mm'[x]], tlb'[x][p] # None
               PROVE  Sound(pt'[mm'[x]][p], tlb'[x][p])
    BY DEF TlbSound
  <2>1. x # u
    BY <1>3 DEF NoTLB
  <2>2. seen[x] <= changes[mm[x]]
    BY <1>2, <2>1 DEF SeenInv
  <2>3. changes[mm[x]] \in Nat /\ seen[x] \in Nat
    BY <1>1, <1>2, <2>1, MemoryAssumption DEF TypeOK
  <2>4. changes'[mm[x]] = changes[mm[x]] /\ pt'[mm[x]] = pt[mm[x]]
    BY <1>2, <2>1, <2>2, <2>3
  <2> QED  BY <1>2, <2>1, <2>4 DEF TlbSound
<1> QED  BY <1>5, <1>6, <1>7, <1>8 DEF LockedGuests

(* clone with CLONE_VM.                                                    *)
LEMMA CloneKeeps ==
  ASSUME MemInv, NEW t \in Threads, NEW u \in Threads, CloneVM(t, u), guest' = guest
  PROVE  MemInv'
<1> DEFINE n == mm[t]
           s == changes[n]
           a == "kernel"
<1>1. /\ "clone" \in guest.calls /\ at[t] = "kernel" /\ mm' = [mm EXCEPT ![u] = n]
      /\ at' = [at EXCEPT ![u] = a] /\ tlb' = [tlb EXCEPT ![u] = NoTLB]
      /\ seen' = [seen EXCEPT ![u] = s]
      /\ UNCHANGED <<pt, refs, content, changes, fault, cell, val>>
  BY DEF CloneVM
<1>2. TypeOK /\ n \in Mems /\ n # NoMem
  BY <1>1, HasMem, MemoryAssumption DEF MemInv, MemTypes
<1>3. s \in 0..MaxChanges /\ s \in Nat
  BY <1>2, MemoryAssumption DEF TypeOK
<1>4. /\ pt' \in [Mems -> [Pages -> Entries]] /\ refs' \in [Datas -> Nat]
      /\ content' \in [Datas -> [Pages -> Values]] /\ changes' \in [Mems -> 0..MaxChanges]
      /\ cell' \in [Mems -> [Pages -> 0..Cardinality(Cells)]] /\ val' \in [Cells -> Values]
  BY <1>1, <1>2 DEF TypeOK
<1>5. RefcountExact' /\ CellsMapped'
  BY <1>1 DEF MemInv, RefcountExact, CellsMapped
<1>6. s <= changes'[n]
  BY <1>1, <1>3
<1>7. a \in {"off", "kernel"} /\ a # "off"
  OBVIOUS
<1> HIDE DEF n, s, a
<1> QED  BY <1>1, <1>2, <1>3, <1>4, <1>5, <1>6, <1>7, JoinStep

(* exit: the last thread takes the address space with it.                  *)
LEMMA ExitKeeps ==
  ASSUME MemInv, NEW t \in Threads, Exit(t), guest' = guest
  PROVE  MemInv'
<1> DEFINE m == mm[t]
           n == NoMem
           a == "off"
           s == 0
           table == [p \in Pages |-> None]
           cells == [p \in Pages |-> 0]
<1>1. /\ at[t] = "kernel" /\ mm' = [mm EXCEPT ![t] = n] /\ at' = [at EXCEPT ![t] = a]
      /\ tlb' = [tlb EXCEPT ![t] = NoTLB] /\ seen' = [seen EXCEPT ![t] = s] /\ fault' = fault
      /\ \/ /\ \A x \in Threads \ {t} : mm[x] # m
            /\ SetTable(m, table, content) /\ changes' = [changes EXCEPT ![m] = 0]
            /\ SetCells(m, cells, val)
         \/ UNCHANGED <<pt, refs, content, changes, cell, val>>
  BY DEF Exit
<1>2. TypeOK /\ m \in Mems
  BY <1>1, HasMem DEF MemInv, MemTypes
<1>3. n \in Mems \cup {NoMem} /\ n = NoMem /\ a \in {"off", "kernel"} /\ a = "off" /\ s \in 0..MaxChanges
  BY MemoryAssumption
<1>4. /\ table \in [Pages -> Entries] /\ cells \in [Pages -> Cells \cup {0}]
      /\ \A p \in Pages : table[p] = None /\ cells[p] = 0
  BY EntryFacts
<1>5. content \in [Datas -> [Pages -> Values]] /\ val \in [Cells -> Values] /\ RefcountExact
  BY <1>2 DEF TypeOK, MemInv
<1> HIDE DEF m, n, a, s, table, cells
<1>6. CASE /\ \A x \in Threads \ {t} : mm[x] # m
           /\ SetTable(m, table, content) /\ changes' = [changes EXCEPT ![m] = 0]
           /\ SetCells(m, cells, val)
  <2>1. /\ pt' \in [Mems -> [Pages -> Entries]] /\ pt'[m] = table
        /\ \A o \in Mems \ {m} : pt'[o] = pt[o]
        /\ refs' \in [Datas -> Nat] /\ RefcountExact'
        /\ content' \in [Datas -> [Pages -> Values]]
    BY <1>2, <1>4, <1>5, <1>6, TableStep
  <2>2. /\ cell' \in [Mems -> [Pages -> 0 .. Cardinality(Cells)]] /\ cell'[m] = cells
        /\ \A o \in Mems \ {m} : cell'[o] = cell[o]
        /\ val' \in [Cells -> Values]
    BY <1>2, <1>4, <1>5, <1>6, CellsStep
  <2>3. CellsMapped'
    <3> SUFFICES ASSUME NEW o \in Mems, NEW p \in Pages
                 PROVE  cell'[o][p] = 0 <=> pt'[o][p] = None
      BY DEF CellsMapped
    <3>1. CASE o = m
      BY <1>4, <2>1, <2>2, <3>1
    <3>2. CASE o # m
      <4>1. cell'[o] = cell[o] /\ pt'[o] = pt[o]
        BY <2>1, <2>2, <3>2
      <4> QED  BY <4>1 DEF MemInv, CellsMapped
    <3> QED  BY <3>1, <3>2
  <2>4. /\ changes' \in [Mems -> 0..MaxChanges]
        /\ \A x \in Threads \ {t} : mm[x] # NoMem =>
             changes'[mm[x]] = changes[mm[x]] /\ pt'[mm[x]] = pt[mm[x]]
    BY <1>2, <1>6, <2>1, MemoryAssumption DEF TypeOK
  <2> QED  BY <1>1, <1>3, <2>1, <2>2, <2>3, <2>4, JoinStep
<1>7. CASE UNCHANGED <<pt, refs, content, changes, cell, val>>
  <2>1. /\ pt' \in [Mems -> [Pages -> Entries]] /\ refs' \in [Datas -> Nat]
        /\ content' \in [Datas -> [Pages -> Values]] /\ changes' \in [Mems -> 0..MaxChanges]
        /\ cell' \in [Mems -> [Pages -> 0..Cardinality(Cells)]] /\ val' \in [Cells -> Values]
    BY <1>2, <1>7 DEF TypeOK
  <2>2. RefcountExact' /\ CellsMapped'
    BY <1>7 DEF MemInv, RefcountExact, CellsMapped
  <2> QED  BY <1>1, <1>3, <1>7, <2>1, <2>2, JoinStep
<1> QED  BY <1>1, <1>6, <1>7

---------------------------------------------------------------------------
(* pt_copy_on_write changes an entry by its flags alone.                   *)
LEMMA CowFacts ==
  ASSUME NEW e \in Entries
  PROVE  /\ CowEntry(e) \in Entries /\ CowEntry(e).data = e.data /\ CowEntry(e).off = e.off
         /\ CowEntry(e) = None <=> e = None
         /\ e = None \/ Has(e, "shared") => CowEntry(e) = e
         /\ e # None /\ ~Has(e, "shared") => CowEntry(e).flags = e.flags \cup {"cow"}
<1>1. CASE e = None \/ Has(e, "shared")
  BY <1>1 DEF CowEntry, Has
<1>2. CASE e # None /\ ~Has(e, "shared")
  <2> DEFINE fl == e.flags \cup {"cow"}
             x == CowEntry(e)
  <2>1. fl \in SUBSET Flags
    BY <1>2, EntryFacts DEF Flags
  <2>2. x = [e EXCEPT !.flags = fl]
    BY <1>2 DEF CowEntry
  <2> HIDE DEF x, fl
  <2>3. e \in Entries \ {None}
    BY <1>2
  <2>4. x \in Entries \ {None} /\ x.data = e.data /\ x.off = e.off /\ x.flags = fl
    BY <2>1, <2>2, <2>3, ChangedFlags
  <2> QED  BY <1>2, <2>4 DEF x, fl
<1> QED  BY <1>1, <1>2

(* The pages of an address space that fork must not share for ever.        *)
Private(m) == {p \in Pages : Mapped(m, p) /\ ~Has(pt[m][p], "shared")}

(* fork gives n what m has: the same entries, and cells of its own for the *)
(* private ones.                                                           *)
Forks(m, n, c, v) ==
  /\ m \in Mems /\ n \in Mems /\ n # m
  /\ c \in [Private(m) -> Cells \ UsedCells] /\ \A x, y \in Private(m) : c[x] = c[y] => x = y
  /\ v \in [Cells -> Values]
  /\ \A p \in Private(m) : v[c[p]] = val[cell[m][p]]
  /\ \A x \in Cells \cap UsedCells : v[x] = val[x]
  /\ \A p \in Pages : pt'[m][p] = CowEntry(pt[m][p]) /\ pt'[n][p] = CowEntry(pt[m][p])
  /\ \A o \in Mems \ {m, n} : pt'[o] = pt[o]
  /\ SetCells(n, [p \in Pages |-> IF p \in Private(m) THEN c[p] ELSE cell[m][p]], v)

(* That is what mm_copy does.                                              *)
LEMMA ForkFacts ==
  ASSUME MemInv, NEW t \in Threads, NEW u \in Threads, NEW n \in Mems, Fork(t, u, n)
  PROVE  \E c, v : Forks(mm[t], n, c, v)
<1> DEFINE m == mm[t]
           private == {p \in {q \in Pages : Mapped(m, q)} : ~Has(pt[m][p], "shared")}
           c == CHOOSE f \in [private -> Cells \ UsedCells] :
                  \A x, y \in private : f[x] = f[y] => x = y
           v == [x \in Cells |-> IF \E p \in private : c[p] = x
                   THEN val[cell[m][CHOOSE p \in private : c[p] = x]] ELSE val[x]]
           cells == [p \in Pages |-> IF p \in private THEN c[p] ELSE cell[m][p]]
<1>1. /\ at[t] = "kernel" /\ Cardinality(Cells \ UsedCells) >= Cardinality(private)
      /\ pt' = [pt EXCEPT ![m] = [p \in Pages |-> MarkCow(pt[m][p])],
                          ![n] = [p \in Pages |-> CowEntry(pt[m][p])]]
      /\ SetCells(n, cells, v) /\ \A x \in Threads : mm[x] # n
  BY Zenon DEF Fork
<1> HIDE DEF cells, v, c
<1>2. m \in Mems /\ TypeOK /\ n # m
  BY <1>1, HasMem DEF MemInv, MemTypes
<1>3. private = Private(m) /\ private \in SUBSET Pages
  BY DEF Private
<1>4. c \in [private -> Cells \ UsedCells] /\ \A x, y \in private : c[x] = c[y] => x = y
  BY <1>1, <1>3, FreeCells DEF c
<1>5. /\ \A p \in Pages : pt'[m][p] = CowEntry(pt[m][p]) /\ pt'[n][p] = CowEntry(pt[m][p])
      /\ \A o \in Mems \ {m, n} : pt'[o] = pt[o]
  BY <1>1, <1>2 DEF TypeOK, MarkCow
<1>6. \A p \in private : cell[m][p] \in Cells
  <2>1. \A p \in private : cell[m][p] \in 0 .. Cardinality(Cells) /\ cell[m][p] # 0
    BY <1>2, <1>3 DEF TypeOK, MemInv, CellsMapped, Mapped
  <2> QED  BY <2>1, CellNumbers
<1> HIDE DEF private
<1>7. v \in [Cells -> Values]
  <2> USE DEF v
  <2> SUFFICES ASSUME NEW x \in Cells PROVE v[x] \in Values
    OBVIOUS
  <2>1. val \in [Cells -> Values]
    BY <1>2 DEF TypeOK
  <2>2. (\E p \in private : c[p] = x) => (CHOOSE p \in private : c[p] = x) \in private
    OBVIOUS
  <2> QED  BY <1>6, <2>1, <2>2
<1>8. \A p \in private : v[c[p]] = val[cell[m][p]]
  <2> SUFFICES ASSUME NEW p \in private PROVE v[c[p]] = val[cell[m][p]]
    OBVIOUS
  <2>1. c[p] \in Cells /\ (CHOOSE q \in private : c[q] = c[p]) = p
    BY <1>4
  <2> QED  BY <2>1 DEF v
<1>9. \A x \in Cells \cap UsedCells : v[x] = val[x]
  BY <1>4 DEF v
<1> HIDE DEF m
<1>10. SetCells(n, [p \in Pages |-> IF p \in Private(m) THEN c[p] ELSE cell[m][p]], v)
  BY <1>1, <1>3 DEF cells
<1>11. Forks(m, n, c, v)
  BY <1>2, <1>3, <1>4, <1>5, <1>7, <1>8, <1>9, <1>10 DEF Forks
<1> QED  BY Zenon, <1>11 DEF m

(* What fork does to the page tables and to what the guest expects.        *)
LEMMA ForkTables ==
  ASSUME MemInv, NEW m, NEW n, NEW c, NEW v, Forks(m, n, c, v)
  PROVE  /\ cell' \in [Mems -> [Pages -> 0 .. Cardinality(Cells)]] /\ val' \in [Cells -> Values]
         /\ \A p \in Private(m) : cell'[n][p] = c[p]
         /\ \A p \in Pages \ Private(m) : cell'[n][p] = cell[m][p]
         /\ \A o \in Mems \ {n} : cell'[o] = cell[o]
         /\ CellsMapped'
         /\ \A o \in Mems \ {n}, p \in Pages :
              /\ pt'[o][p] \in Entries /\ pt'[o][p].data = pt[o][p].data /\ pt'[o][p].off = pt[o][p].off
              /\ pt'[o][p] = None <=> pt[o][p] = None
         /\ \A p \in Pages :
              /\ pt'[n][p] \in Entries /\ pt'[n][p].data = pt[m][p].data /\ pt'[n][p].off = pt[m][p].off
              /\ pt'[n][p] = None <=> pt[m][p] = None
<1> DEFINE cells == [p \in Pages |-> IF p \in Private(m) THEN c[p] ELSE cell[m][p]]
<1>1. /\ m \in Mems /\ n \in Mems /\ n # m /\ v \in [Cells -> Values] /\ SetCells(n, cells, v)
      /\ c \in [Private(m) -> Cells \ UsedCells]
      /\ \A p \in Pages : pt'[m][p] = CowEntry(pt[m][p]) /\ pt'[n][p] = CowEntry(pt[m][p])
      /\ \A o \in Mems \ {m, n} : pt'[o] = pt[o]
  BY DEF Forks
<1>2. TypeOK /\ Private(m) \in SUBSET Pages
  BY DEF MemInv, MemTypes, Private
<1>3. /\ cells \in [Pages -> Cells \cup {0}]
      /\ \A p \in Private(m) : cells[p] = c[p] /\ c[p] # 0
      /\ \A p \in Pages \ Private(m) : cells[p] = cell[m][p]
  <2>1. cell[m] \in [Pages -> Cells \cup {0}]
    BY <1>1, <1>2, CellNumbers DEF TypeOK
  <2> QED  BY <1>1, <1>2, <2>1, CellNumbers
<1> HIDE DEF cells
<1>4. /\ cell' \in [Mems -> [Pages -> 0 .. Cardinality(Cells)]] /\ cell'[n] = cells
      /\ \A o \in Mems \ {n} : cell'[o] = cell[o]
      /\ val' \in [Cells -> Values]
  BY <1>1, <1>2, <1>3, CellsStep
<1>5. \A p \in Pages :
        /\ CowEntry(pt[m][p]) \in Entries /\ CowEntry(pt[m][p]).data = pt[m][p].data
        /\ CowEntry(pt[m][p]).off = pt[m][p].off
        /\ CowEntry(pt[m][p]) = None <=> pt[m][p] = None
  BY <1>1, <1>2, CowFacts DEF TypeOK
<1>6. \A o \in Mems \ {n}, p \in Pages :
        /\ pt'[o][p] \in Entries /\ pt'[o][p].data = pt[o][p].data /\ pt'[o][p].off = pt[o][p].off
        /\ pt'[o][p] = None <=> pt[o][p] = None
  <2> SUFFICES ASSUME NEW o \in Mems \ {n}, NEW p \in Pages
               PROVE  /\ pt'[o][p] \in Entries /\ pt'[o][p].data = pt[o][p].data
                      /\ pt'[o][p].off = pt[o][p].off
                      /\ pt'[o][p] = None <=> pt[o][p] = None
    OBVIOUS
  <2>1. CASE o = m
    BY <1>1, <1>5, <2>1
  <2>2. CASE o # m
    <3>1. pt'[o] = pt[o] /\ pt[o][p] \in Entries
      BY <1>1, <1>2, <2>2 DEF TypeOK
    <3> QED  BY <3>1
  <2> QED  BY <2>1, <2>2
<1>7. \A p \in Pages :
        /\ pt'[n][p] \in Entries /\ pt'[n][p].data = pt[m][p].data /\ pt'[n][p].off = pt[m][p].off
        /\ pt'[n][p] = None <=> pt[m][p] = None
  BY <1>1, <1>5
<1>8. CellsMapped'
  <2> SUFFICES ASSUME NEW o \in Mems, NEW p \in Pages
               PROVE  cell'[o][p] = 0 <=> pt'[o][p] = None
    BY DEF CellsMapped
  <2>1. CASE o = n /\ p \in Private(m)
    <3>1. cell'[n][p] # 0 /\ pt'[n][p] # None
      BY <1>3, <1>4, <1>7, <2>1 DEF Private, Mapped
    <3> QED  BY <2>1, <3>1
  <2>2. CASE o = n /\ p \notin Private(m)
    <3>1. cell'[n][p] = cell[m][p] /\ (pt'[n][p] = None <=> pt[m][p] = None)
      BY <1>3, <1>4, <1>7, <2>2
    <3>2. cell[m][p] = 0 <=> pt[m][p] = None
      BY <1>1 DEF MemInv, CellsMapped
    <3> QED  BY <2>2, <3>1, <3>2
  <2>3. CASE o # n
    <3>1. cell'[o] = cell[o] /\ (pt'[o][p] = None <=> pt[o][p] = None)
      BY <1>4, <1>6, <2>3
    <3>2. cell[o][p] = 0 <=> pt[o][p] = None
      BY DEF MemInv, CellsMapped
    <3> QED  BY <3>1, <3>2
  <2> QED  BY <2>1, <2>2, <2>3
<1>9. /\ \A p \in Private(m) : cell'[n][p] = c[p]
      /\ \A p \in Pages \ Private(m) : cell'[n][p] = cell[m][p]
  BY <1>2, <1>3, <1>4
<1> QED  BY <1>4, <1>6, <1>7, <1>8, <1>9

(* fork: both tables count, and whoever shares the parent sees the change. *)
LEMMA ForkKeeps ==
  ASSUME MemInv, NEW t \in Threads, NEW u \in Threads, NEW n \in Mems, Fork(t, u, n),
         guest' = guest
  PROVE  MemInv'
<1> DEFINE m == mm[t]
           mapped == {p \in Pages : Mapped(m, p)}
           child == [p \in Pages |-> CowEntry(pt[m][p])]
           parent == [p \in Pages |-> MarkCow(pt[m][p])]
           k == Cardinality(mapped)
           s == 1 + k
           a == "kernel"
<1>1. /\ at[t] = "kernel" /\ NoReaders(m) /\ at[u] = "off" /\ \A x \in Threads : mm[x] # n
      /\ changes[m] < MaxChanges /\ k < MaxChanges
      /\ pt' = [pt EXCEPT ![m] = parent, ![n] = child]
      /\ refs' = [d \in Datas |-> Recount(pt[n], child, d)]
      /\ changes' = [Changed(m, 1) EXCEPT ![n] = s]
      /\ mm' = [mm EXCEPT ![u] = n] /\ at' = [at EXCEPT ![u] = a]
      /\ tlb' = [tlb EXCEPT ![u] = NoTLB] /\ seen' = [seen EXCEPT ![u] = changes'[n]]
      /\ UNCHANGED <<content, fault>>
  BY Zenon DEF Fork
<1>2. m \in Mems /\ TypeOK /\ n # m /\ RefcountExact /\ n # NoMem /\ m # NoMem
  BY <1>1, HasMem, MemoryAssumption DEF MemInv, MemTypes
<1>3. PICK c, v : Forks(m, n, c, v)
  BY ForkFacts
<1>4. /\ cell' \in [Mems -> [Pages -> 0 .. Cardinality(Cells)]] /\ val' \in [Cells -> Values]
      /\ CellsMapped'
      /\ \A o \in Mems \ {n}, p \in Pages : pt'[o][p] \in Entries /\ pt'[o][p].data = pt[o][p].data
      /\ \A p \in Pages : pt'[n][p] \in Entries
  BY <1>3, ForkTables
<1>5. \A o \in Mems \ {m, n} : pt'[o] = pt[o]
  BY <1>3 DEF Forks
<1>6. pt' \in [Mems -> [Pages -> Entries]] /\ pt'[n] = child /\ DOMAIN child = Pages
  <2>1. pt'[n] = child /\ pt'[m] = parent /\ DOMAIN child = Pages /\ DOMAIN parent = Pages
    BY <1>1, <1>2 DEF TypeOK
  <2>2. DOMAIN pt' = Mems /\ pt' = [o \in Mems |-> pt'[o]]
    BY <1>1, <1>2 DEF TypeOK
  <2>3. child \in [Pages -> Entries] /\ parent \in [Pages -> Entries]
    <3> HIDE DEF child, parent
    <3>1. child = [p \in Pages |-> child[p]] /\ parent = [p \in Pages |-> parent[p]]
      BY DEF child, parent
    <3> QED  BY <1>2, <1>4, <2>1, <3>1
  <2> HIDE DEF child, parent
  <2>4. \A o \in Mems : pt'[o] \in [Pages -> Entries]
    BY <1>2, <1>5, <2>1, <2>3 DEF TypeOK
  <2> QED  BY <2>1, <2>2, <2>4
<1>7. k \in Nat
  BY MemoryAssumption, FS_Subset, FS_CardinalityType
<1> HIDE DEF child, parent, k, m
<1>8. /\ changes' \in [Mems -> 0..MaxChanges] /\ changes'[n] = s /\ changes'[m] = changes[m] + 1
      /\ \A o \in Mems \ {m, n} : changes'[o] = changes[o]
  <2>1. Changed(m, 1) \in [Mems -> 0..MaxChanges] /\ Changed(m, 1)[m] = changes[m] + 1
        /\ \A o \in Mems \ {m} : Changed(m, 1)[o] = changes[o]
    BY <1>1, <1>2, MemoryAssumption DEF TypeOK, Changed
  <2>2. s \in 0..MaxChanges
    BY <1>1, <1>7, MemoryAssumption
  <2> QED  BY <1>1, <1>2, <2>1, <2>2
<1>9. s \in 0..MaxChanges /\ s \in Nat /\ seen' = [seen EXCEPT ![u] = s]
  <2>1. k < MaxChanges /\ MaxChanges \in Nat
    BY <1>1, MemoryAssumption
  <2>2. s \in 0..MaxChanges /\ s \in Nat
    BY ONLY <1>7, <2>1
  <2> QED  BY <1>1, <1>8, <2>2
<1> HIDE DEF s
<1>10. \A x \in Threads \ {u} : mm[x] # NoMem =>
         \/ changes'[mm[x]] = changes[mm[x]] /\ pt'[mm[x]] = pt[mm[x]]
         \/ changes'[mm[x]] = changes[mm[x]] + 1 /\ at[x] # "user"
  <2> SUFFICES ASSUME NEW x \in Threads, mm[x] # NoMem
               PROVE  \/ changes'[mm[x]] = changes[mm[x]] /\ pt'[mm[x]] = pt[mm[x]]
                      \/ changes'[mm[x]] = changes[mm[x]] + 1 /\ at[x] # "user"
    OBVIOUS
  <2>1. mm[x] \in Mems /\ mm[x] # n
    BY <1>1, <1>2 DEF TypeOK
  <2>2. CASE mm[x] = m
    BY <1>1, <1>8, <2>2 DEF NoReaders
  <2>3. CASE mm[x] # m
    BY <1>5, <1>8, <2>1, <2>3
  <2> QED  BY <2>2, <2>3
<1>11. RefcountExact' /\ refs' \in [Datas -> Nat]
  <2> SUFFICES ASSUME NEW d \in Datas
               PROVE  refs'[d] = Cardinality(Refs(pt', d)) /\ refs'[d] \in Nat
    BY <1>1 DEF RefcountExact, Refs
  <2>1. Others(pt', n, d) = Others(pt, n, d)
    <3>1. \A x \in (Mems \ {n}) \X Pages : pt'[x[1]][x[2]].data = pt[x[1]][x[2]].data
      BY <1>4
    <3> QED  BY <3>1 DEF Others
  <2>2. DOMAIN pt[n] = Pages /\ DOMAIN pt'[n] = Pages
    BY <1>2, <1>6 DEF TypeOK
  <2>3. /\ Cardinality(Refs(pt, d)) = Count(pt[n], d) + Cardinality(Others(pt, n, d))
        /\ Cardinality(Refs(pt', d)) = Count(pt'[n], d) + Cardinality(Others(pt', n, d))
    BY <2>2, SplitRefs
  <2>4. refs'[d] = refs[d] + Count(child, d) - Count(pt[n], d)
    BY <1>1 DEF Recount
  <2>5. refs[d] = Cardinality(Refs(pt, d))
    BY <1>2 DEF RefcountExact, Refs
  <2>6. /\ Count(pt[n], d) \in Nat /\ Count(child, d) \in Nat
        /\ Cardinality(Others(pt, n, d)) \in Nat
    BY <1>6, <2>2, FiniteCount, FiniteRefs
  <2> QED  BY <1>6, <2>1, <2>3, <2>4, <2>5, <2>6
<1>12. content' \in [Datas -> [Pages -> Values]]
  BY <1>1, <1>2 DEF TypeOK
<1>13. a \in {"off", "kernel"} /\ a # "off" /\ n \in Mems \cup {NoMem}
  OBVIOUS
<1>14. s <= changes'[n] /\ \A x \in Threads \ {u} : mm[x] # n
  BY <1>1, <1>8, <1>9
<1> HIDE DEF a
<1>15. a = "off" <=> n = NoMem
  BY <1>2, <1>13
<1> QED  BY Zenon, <1>1, <1>4, <1>6, <1>8, <1>9, <1>10, <1>11, <1>12, <1>13, <1>14, <1>15, JoinStep

---------------------------------------------------------------------------
(* Every step keeps the invariant.                                         *)
LEMMA NextInv ==
  ASSUME MemInv, [Next]_vars
  PROVE  MemInv'
<1>1. CASE Next
  <2>1. /\ guest' = guest /\ guest.pages \subseteq Pages
        /\ Values \ {0} \subseteq Values
    BY <1>1, MemoryAssumption DEF Next, MemInv, MemTypes, TypeOK
  <2>2. PICK t \in Threads :
          \/ \E ps \in SUBSET guest.pages \ {{}} :
               \/ \E flags \in SUBSET {"shared", "gd"} : Mmap(t, ps, flags)
               \/ Munmap(t, ps) \/ MremapShrinks(t, ps)
          \/ \E p, q \in guest.pages : MremapGrows(t, p, q)
          \/ \E p \in guest.pages, w \in BOOLEAN : Mprotect(t, p, w) \/ Miss(t, p, w)
          \/ \E u \in Threads : CloneVM(t, u) \/ \E n \in Mems : Fork(t, u, n)
          \/ Exit(t) \/ Run(t) \/ Interrupt(t)
          \/ \E p \in guest.pages, v \in Values \ {0} : Store(t, p, v) \/ UserWrite(t, p, v)
          \/ FaultDone(t) \/ FaultDenied(t) \/ FaultUnlocks(t)
          \/ ResolveQuietly(t) \/ ResolveStack(t) \/ ResolveCopy(t)
    BY <1>1 DEF Next, ThreadNext
  <2>3. ASSUME NEW ps \in SUBSET guest.pages,
               \/ \E flags \in SUBSET {"shared", "gd"} : Mmap(t, ps, flags)
               \/ Munmap(t, ps) \/ MremapShrinks(t, ps)
        PROVE  MemInv'
    <3>1. ps \in SUBSET Pages
      BY <2>1
    <3> QED  BY <2>1, <2>3, <3>1, MmapKeeps, UnmapKeeps
  <2>4. ASSUME NEW p \in guest.pages, NEW q \in guest.pages, MremapGrows(t, p, q)
        PROVE  MemInv'
    BY <2>1, <2>4, GrowsKeeps
  <2>5. ASSUME NEW p \in guest.pages, NEW w \in BOOLEAN, Mprotect(t, p, w) \/ Miss(t, p, w)
        PROVE  MemInv'
    BY <2>1, <2>5, MprotectKeeps, MissKeeps
  <2>6. ASSUME NEW u \in Threads, CloneVM(t, u) \/ \E n \in Mems : Fork(t, u, n)
        PROVE  MemInv'
    BY <2>1, <2>6, CloneKeeps, ForkKeeps
  <2>7. ASSUME NEW p \in guest.pages, NEW v \in Values \ {0},
               Store(t, p, v) \/ UserWrite(t, p, v)
        PROVE  MemInv'
    <3>1. p \in Pages /\ v \in Values
      BY <2>1
    <3>2. CASE Store(t, p, v)
      BY <2>1, <3>1, <3>2, WritesKeep
    <3>3. CASE UserWrite(t, p, v)
      BY <2>1, <3>1, <3>3, ControlKeeps
    <3> QED  BY <2>7, <3>2, <3>3
  <2>8. CASE Exit(t) \/ Run(t) \/ FaultDone(t)
    BY <2>1, <2>8, ExitKeeps, RunKeeps, WritesKeep
  <2>9. CASE Interrupt(t) \/ FaultDenied(t) \/ FaultUnlocks(t) \/ ResolveQuietly(t)
    BY <2>1, <2>9, ControlKeeps
  <2>10. CASE ResolveStack(t) \/ ResolveCopy(t)
    BY <2>1, <2>10, StackKeeps, CopyKeeps
  <2> QED  BY <2>2, <2>3, <2>4, <2>5, <2>6, <2>7, <2>8, <2>9, <2>10
<1>2. CASE UNCHANGED vars
  BY <1>2 DEF vars, MemInv, LockedGuests, MemTypes, TypeOK, Spaces, SeenInv, TlbSound,
              RefcountExact, CellsMapped
<1> QED  BY <1>1, <1>2

(* Where only guests of one thread call mremap, every host mapping has as  *)
(* many references as pages map it, and a running thread uses only what    *)
(* its page table says (kernel/memory.c, emu/tlb.c).                       *)
THEOREM MemoryIsSafe == LockedGuests /\ Spec => []MemorySafe
<1>1. LockedGuests /\ Init => MemInv
  BY InitInv
<1>2. MemInv /\ [Next]_vars => MemInv'
  BY NextInv
<1>3. MemInv => MemorySafe
  BY InvSafe
<1> QED  BY <1>1, <1>2, <1>3, PTL DEF Spec

---------------------------------------------------------------------------
(* mprotect drops the copy-on-write flag (kernel/memory.c, pt_set_flags):  *)
(* guests that fork do not call it.                                        *)
UnprotectedForks == \A g \in Guests : "fork" \in g.calls => "mprotect" \notin g.calls

SamePlace(e, f) == e.data = f.data /\ e.off = f.off

(* An address space that nobody uses is empty.                             *)
Idle == \A m \in Mems : (\A t \in Threads : mm[t] # m) => \A p \in Pages : pt[m][p] = None

(* Only system calls that write store through a fault.                     *)
FaultWrites == \A t \in Threads : fault[t].user => fault[t].write

(* What nobody maps is blank.                                              *)
Contents ==
  /\ \A d \in Datas : refs[d] = 0 => content[d] = Blank
  /\ \A c \in Cells : c \notin UsedCells => val[c] = 0

(* A page of MAP_SHARED is never copied.                                   *)
NoSharedCow == \A m \in Mems, p \in Pages : ~ (Has(pt[m][p], "shared") /\ Has(pt[m][p], "cow"))

(* Two pages hold the same expected memory only after a fork, when both    *)
(* are MAP_SHARED and one page of the host.                                *)
OwnCells ==
  \A m, n \in Mems, p, q \in Pages :
    pt[m][p] # None /\ pt[n][q] # None /\ ~ (m = n /\ p = q) /\ cell[m][p] = cell[n][q]
      => /\ "fork" \in guest.calls
         /\ Has(pt[m][p], "shared") /\ Has(pt[n][q], "shared") /\ SamePlace(pt[m][p], pt[n][q])

(* Two pages are one page of the host only after a fork, when the guest    *)
(* expects it, or else neither can be written without a copy.              *)
Aliases ==
  \A m, n \in Mems, p, q \in Pages :
    pt[m][p] # None /\ pt[n][q] # None /\ ~ (m = n /\ p = q) /\ SamePlace(pt[m][p], pt[n][q])
      => /\ "fork" \in guest.calls
         /\ cell[m][p] = cell[n][q] \/ (~Writable(pt[m][p]) /\ ~Writable(pt[n][q]))

IsoInv ==
  UnprotectedForks /\ Idle /\ FaultWrites /\ Contents /\ NoSharedCow /\ OwnCells /\ Aliases /\ Isolation

(* A mapping has no references exactly when no page maps it.               *)
LEMMA Unreferenced ==
  ASSUME NEW tables, NEW d
  PROVE  /\ Cardinality(Refs(tables, d)) \in Nat
         /\ Cardinality(Refs(tables, d)) = 0 <=>
              \A m \in Mems, p \in Pages : tables[m][p].data # d
<1>1. PICK m \in Mems : TRUE
  BY MemoryAssumption
<1>2. IsFiniteSet(Refs(tables, d)) /\ Cardinality(Refs(tables, d)) \in Nat
  BY FiniteRefs
<1>3. Cardinality(Refs(tables, d)) = 0 <=> Refs(tables, d) = {}
  BY <1>2, FS_EmptySet
<1>4. Refs(tables, d) = {} <=> \A x \in Mems \X Pages : tables[x[1]][x[2]].data # d
  BY DEF Refs
<1>5. (\A x \in Mems \X Pages : tables[x[1]][x[2]].data # d)
        <=> \A o \in Mems, p \in Pages : tables[o][p].data # d
  <2>1. ASSUME \A x \in Mems \X Pages : tables[x[1]][x[2]].data # d,
               NEW o \in Mems, NEW p \in Pages
        PROVE  tables[o][p].data # d
    <3>1. <<o, p>> \in Mems \X Pages
      OBVIOUS
    <3> QED  BY <2>1, <3>1
  <2>2. ASSUME \A o \in Mems, p \in Pages : tables[o][p].data # d,
               NEW x \in Mems \X Pages
        PROVE  tables[x[1]][x[2]].data # d
    BY <2>2
  <2> QED  BY <2>1, <2>2
<1> QED  BY <1>2, <1>3, <1>4, <1>5

(* What a page that is mapped refers to.                                   *)
LEMMA MappedFacts ==
  ASSUME MemInv, NEW m \in Mems, NEW p \in Pages, pt[m][p] # None
  PROVE  /\ pt[m][p] \in Entries \ {None} /\ pt[m][p].data \in Live /\ pt[m][p].off \in Pages
         /\ cell[m][p] \in Cells \cap UsedCells
<1>1. TypeOK
  BY DEF MemInv, MemTypes
<1>2. pt[m][p] \in Entries /\ pt[m][p].data \in Datas /\ pt[m][p].off \in Pages
  BY <1>1, EntryFacts DEF TypeOK
<1>3. refs[pt[m][p].data] > 0
  <2>1. refs[pt[m][p].data] = Cardinality(Refs(pt, pt[m][p].data))
    BY <1>2 DEF MemInv, RefcountExact, Refs
  <2> QED  BY <2>1, Unreferenced
<1>4. cell[m][p] \in Cells
  BY <1>1, CellNumbers DEF MemInv, CellsMapped, TypeOK
<1> QED  BY <1>2, <1>3, <1>4 DEF Live, UsedCells

(* The same after a step.                                                  *)
LEMMA MappedNext ==
  ASSUME MemInv', NEW m \in Mems, NEW p \in Pages, pt'[m][p] # None
  PROVE  /\ pt'[m][p] \in Entries \ {None} /\ pt'[m][p].data \in Datas /\ pt'[m][p].off \in Pages
         /\ refs'[pt'[m][p].data] # 0 /\ cell'[m][p] \in Cells
<1>1. /\ pt' \in [Mems -> [Pages -> Entries]]
      /\ cell' \in [Mems -> [Pages -> 0 .. Cardinality(Cells)]]
  BY DEF MemInv, MemTypes, TypeOK
<1>2. pt'[m][p] \in Entries /\ pt'[m][p].data \in Datas /\ pt'[m][p].off \in Pages
  BY <1>1, EntryFacts
<1>3. refs'[pt'[m][p].data] # 0
  <2>1. refs'[pt'[m][p].data] = Cardinality(Refs(pt', pt'[m][p].data))
    BY <1>2 DEF MemInv, RefcountExact, Refs
  <2> QED  BY <2>1, Unreferenced
<1>4. cell'[m][p] \in Cells
  BY <1>1, CellNumbers DEF MemInv, CellsMapped
<1> QED  BY <1>2, <1>3, <1>4

(* After a table and its cells change, what is mapped holds what it was    *)
(* given, and what is not mapped is blank.                                 *)
LEMMA HeldStep ==
  ASSUME MemInv', NEW m \in Mems, NEW table, NEW held, SetTable(m, table, held)
  PROVE  /\ \A n \in Mems, p \in Pages : pt'[n][p] # None =>
              content'[pt'[n][p].data] = held[pt'[n][p].data]
         /\ \A d \in Datas : refs'[d] = 0 => content'[d] = Blank
<1>1. content' = [d \in Datas |-> IF refs'[d] = 0 THEN Blank ELSE held[d]]
  BY DEF SetTable
<1> QED  BY <1>1, MappedNext

(* Likewise for what the guest expects.                                    *)
LEMMA ValStep ==
  ASSUME MemInv', NEW m \in Mems, NEW cells, NEW v, SetCells(m, cells, v)
  PROVE  /\ \A n \in Mems, p \in Pages : pt'[n][p] # None =>
              val'[cell'[n][p]] = v[cell'[n][p]]
         /\ \A c \in Cells : c \notin UsedCells' => val'[c] = 0
<1>1. val' = [c \in Cells |-> IF \E n \in Mems, p \in Pages : cell'[n][p] = c THEN v[c] ELSE 0]
  BY DEF SetCells
<1>2. \A n \in Mems, p \in Pages : pt'[n][p] # None => cell'[n][p] \in Cells
  BY MappedNext
<1> QED  BY <1>1, <1>2 DEF UsedCells

---------------------------------------------------------------------------
(* After a step, a page that is mapped is as it was, or shares neither its *)
(* place nor its cell with any other.                                      *)
Kept(m, p) ==
  /\ pt[m][p] # None /\ SamePlace(pt'[m][p], pt[m][p]) /\ cell'[m][p] = cell[m][p]
  /\ Writable(pt'[m][p]) => Writable(pt[m][p])
  /\ Has(pt[m][p], "shared") => Has(pt'[m][p], "shared")

Alone(m, p) ==
  \A n \in Mems, q \in Pages : pt'[n][q] # None /\ ~ (m = n /\ p = q)
    => ~ SamePlace(pt'[m][p], pt'[n][q]) /\ cell'[m][p] # cell'[n][q]

(* Then no two pages become the same.                                      *)
LEMMA PairsStep ==
  ASSUME OwnCells, Aliases, guest' = guest,
         \A m \in Mems, p \in Pages : pt'[m][p] # None => Kept(m, p) \/ Alone(m, p)
  PROVE  OwnCells' /\ Aliases'
<1>1. ASSUME NEW m \in Mems, NEW n \in Mems, NEW p \in Pages, NEW q \in Pages,
             pt'[m][p] # None, pt'[n][q] # None, ~ (m = n /\ p = q),
             cell'[m][p] = cell'[n][q] \/ SamePlace(pt'[m][p], pt'[n][q])
      PROVE  Kept(m, p) /\ Kept(n, q)
  <2>1. ~Alone(m, p)
    BY <1>1 DEF Alone
  <2>2. ~Alone(n, q)
    BY <1>1 DEF Alone, SamePlace
  <2> QED  BY <1>1, <2>1, <2>2
<1>2. OwnCells'
  <2> SUFFICES ASSUME NEW m \in Mems, NEW n \in Mems, NEW p \in Pages, NEW q \in Pages,
                      pt'[m][p] # None, pt'[n][q] # None, ~ (m = n /\ p = q),
                      cell'[m][p] = cell'[n][q]
               PROVE  /\ "fork" \in guest.calls /\ Has(pt'[m][p], "shared")
                      /\ Has(pt'[n][q], "shared") /\ SamePlace(pt'[m][p], pt'[n][q])
    BY DEF OwnCells
  <2>1. Kept(m, p) /\ Kept(n, q)
    BY <1>1
  <2>2. pt[m][p] # None /\ pt[n][q] # None /\ cell[m][p] = cell[n][q]
    BY <2>1 DEF Kept
  <2>3. /\ "fork" \in guest.calls /\ Has(pt[m][p], "shared") /\ Has(pt[n][q], "shared")
        /\ SamePlace(pt[m][p], pt[n][q])
    BY <2>2 DEF OwnCells
  <2> QED  BY <2>1, <2>3 DEF Kept, SamePlace
<1>3. Aliases'
  <2> SUFFICES ASSUME NEW m \in Mems, NEW n \in Mems, NEW p \in Pages, NEW q \in Pages,
                      pt'[m][p] # None, pt'[n][q] # None, ~ (m = n /\ p = q),
                      SamePlace(pt'[m][p], pt'[n][q])
               PROVE  /\ "fork" \in guest.calls
                      /\ \/ cell'[m][p] = cell'[n][q]
                         \/ ~Writable(pt'[m][p]) /\ ~Writable(pt'[n][q])
    BY DEF Aliases
  <2>1. Kept(m, p) /\ Kept(n, q)
    BY <1>1
  <2>2. SamePlace(pt[m][p], pt[n][q])
    BY <2>1 DEF Kept, SamePlace
  <2>3. /\ "fork" \in guest.calls
        /\ cell[m][p] = cell[n][q] \/ (~Writable(pt[m][p]) /\ ~Writable(pt[n][q]))
    BY <2>1, <2>2 DEF Kept, Aliases
  <2> QED  BY <2>1, <2>3 DEF Kept
<1> QED  BY <1>2, <1>3

(* What stays of the invariant when no page table of another changes.      *)
LEMMA IdleStep ==
  ASSUME MemInv, Idle, NEW t \in Threads, at[t] # "off", mm' = mm,
         \A n \in Mems \ {mm[t]} : pt'[n] = pt[n]
  PROVE  Idle'
<1> SUFFICES ASSUME NEW n \in Mems, \A x \in Threads : mm[x] # n, NEW p \in Pages
             PROVE  pt'[n][p] = None
  BY DEF Idle
<1>1. n # mm[t]
  OBVIOUS
<1> QED  BY <1>1 DEF Idle

(* mmap and the like give pages that nobody else has.                      *)
LEMMA FreshIso ==
  ASSUME MemInv, MemInv', IsoInv, NEW t \in Threads, at[t] # "off", NEW ps \in SUBSET Pages,
         NEW entries, NEW d, NEW c, MapsFresh(mm[t], ps, entries, d, c),
         \A p \in ps : ~ (Has(entries[p], "shared") /\ Has(entries[p], "cow")),
         UNCHANGED <<guest, mm, fault>>
  PROVE  IsoInv'
<1> DEFINE m == mm[t]
           table == [p \in Pages |-> IF p \in ps THEN entries[p] ELSE pt[m][p]]
           cells == [p \in Pages |-> IF p \in ps THEN c[p] ELSE cell[m][p]]
<1>1. /\ entries \in [ps -> Entries \ {None}] /\ d \in Datas \ Live
      /\ \A p \in ps : entries[p].data = d /\ entries[p].off = p
      /\ c \in [ps -> Cells \ UsedCells] /\ \A x, y \in ps : c[x] = c[y] => x = y
      /\ Map(m, entries, content) /\ SetCells(m, cells, val)
  BY DEF MapsFresh
<1>2. m \in Mems /\ TypeOK
  BY HasMem DEF MemInv, MemTypes
<1>3. SetTable(m, table, content)
  BY <1>1, <1>2 DEF Map
<1>4. /\ \A p \in ps : pt'[m][p] = entries[p] /\ cell'[m][p] = c[p]
      /\ \A p \in Pages \ ps : pt'[m][p] = pt[m][p] /\ cell'[m][p] = cell[m][p]
      /\ \A n \in Mems \ {m} : pt'[n] = pt[n] /\ cell'[n] = cell[n]
  <2>1. pt' = [pt EXCEPT ![m] = table] /\ cell' = [cell EXCEPT ![m] = cells]
    BY <1>1, <1>3 DEF SetTable, SetCells
  <2>2. pt'[m] = table /\ cell'[m] = cells /\ \A n \in Mems \ {m} : pt'[n] = pt[n] /\ cell'[n] = cell[n]
    BY <1>2, <2>1 DEF TypeOK
  <2> QED  BY <2>2
<1> HIDE DEF table, cells, m
<1>5. \A n \in Mems, q \in Pages : pt'[n][q] # None =>
        (n = m /\ q \in ps) \/ (pt'[n][q] = pt[n][q] /\ cell'[n][q] = cell[n][q])
  BY <1>4
<1>6. ASSUME NEW p \in ps PROVE Alone(m, p)
  <2> SUFFICES ASSUME NEW n \in Mems, NEW q \in Pages, pt'[n][q] # None, ~ (m = n /\ p = q)
               PROVE  ~ SamePlace(pt'[m][p], pt'[n][q]) /\ cell'[m][p] # cell'[n][q]
    BY DEF Alone
  <2>1. pt'[m][p].data = d /\ pt'[m][p].off = p /\ cell'[m][p] = c[p] /\ c[p] \in Cells \ UsedCells
    BY <1>1, <1>4
  <2>2. CASE n = m /\ q \in ps
    <3>1. pt'[n][q].off = q /\ cell'[n][q] = c[q] /\ p # q
      BY <1>1, <1>4, <2>2
    <3> QED  BY <1>1, <2>1, <2>2, <3>1 DEF SamePlace
  <2>3. CASE pt'[n][q] = pt[n][q] /\ cell'[n][q] = cell[n][q]
    <3>1. pt[n][q].data \in Live /\ cell[n][q] \in UsedCells
      BY <2>3, MappedFacts
    <3> QED  BY <1>1, <2>1, <2>3, <3>1 DEF SamePlace
  <2> QED  BY <1>5, <2>2, <2>3
<1>7. OwnCells' /\ Aliases'
  <2>1. \A n \in Mems, q \in Pages : pt'[n][q] # None => Kept(n, q) \/ Alone(n, q)
    <3> SUFFICES ASSUME NEW n \in Mems, NEW q \in Pages, pt'[n][q] # None
                 PROVE  Kept(n, q) \/ Alone(n, q)
      OBVIOUS
    <3>1. CASE n = m /\ q \in ps
      BY <1>6, <3>1
    <3>2. CASE pt'[n][q] = pt[n][q] /\ cell'[n][q] = cell[n][q]
      BY <3>2 DEF Kept, SamePlace
    <3> QED  BY <1>5, <3>1, <3>2
  <2> QED  BY <2>1, PairsStep DEF IsoInv
<1>8. /\ \A n \in Mems, p \in Pages : pt'[n][p] # None =>
           content'[pt'[n][p].data] = content[pt'[n][p].data] /\ val'[cell'[n][p]] = val[cell'[n][p]]
      /\ Contents'
  BY <1>1, <1>2, <1>3, HeldStep, ValStep DEF Contents
<1>9. Isolation'
  <2> SUFFICES ASSUME NEW n \in Mems, NEW q \in Pages, pt'[n][q] # None
               PROVE  content'[pt'[n][q].data][pt'[n][q].off] = val'[cell'[n][q]]
    BY DEF Isolation, Mapped
  <2>1. CASE n = m /\ q \in ps
    <3>1. pt'[n][q].data = d /\ cell'[n][q] = c[q] /\ c[q] \in Cells \ UsedCells
      BY <1>1, <1>4, <2>1
    <3>2. content[d] = Blank
      <4>1. refs[d] = 0
        BY <1>1, <1>2 DEF Live, TypeOK
      <4> QED  BY <1>1, <4>1 DEF IsoInv, Contents
    <3>3. val[c[q]] = 0
      BY <3>1 DEF IsoInv, Contents
    <3>4. pt'[n][q].off \in Pages
      BY MappedNext
    <3> QED  BY <1>8, <3>1, <3>2, <3>3, <3>4 DEF Blank
  <2>2. CASE pt'[n][q] = pt[n][q] /\ cell'[n][q] = cell[n][q]
    <3>1. content[pt[n][q].data][pt[n][q].off] = val[cell[n][q]]
      BY <2>2 DEF IsoInv, Isolation, Mapped
    <3> QED  BY <1>8, <2>2, <3>1
  <2> QED  BY <1>5, <2>1, <2>2
<1>10. NoSharedCow'
  <2> SUFFICES ASSUME NEW n \in Mems, NEW q \in Pages
               PROVE  ~ (Has(pt'[n][q], "shared") /\ Has(pt'[n][q], "cow"))
    BY DEF NoSharedCow
  <2>1. CASE n = m /\ q \in ps
    BY <1>4, <2>1
  <2>2. CASE pt'[n][q] = pt[n][q]
    BY <2>2 DEF IsoInv, NoSharedCow
  <2>3. CASE pt'[n][q] = None
    BY <2>3 DEF Has
  <2> QED  BY <1>5, <2>1, <2>2, <2>3
<1>11. Idle'
  <2>1. \A n \in Mems \ {mm[t]} : pt'[n] = pt[n]
    BY <1>4 DEF m
  <2> QED  BY <2>1, IdleStep DEF IsoInv
<1> QED  BY <1>7, <1>8, <1>9, <1>10, <1>11 DEF IsoInv, UnprotectedForks, FaultWrites

(* Three ways to get fresh pages: mmap,                                     *)
LEMMA MmapIso ==
  ASSUME MemInv, MemInv', IsoInv, NEW t \in Threads, guest' = guest,
         NEW ps \in SUBSET Pages, NEW flags \in SUBSET {"shared", "gd"}, Mmap(t, ps, flags)
  PROVE  IsoInv'
<1>1. at[t] # "off" /\ UNCHANGED <<mm, fault>>
  BY DEF Mmap, threads
<1>2. \E entries, d, c :
        /\ MapsFresh(mm[t], ps, entries, d, c)
        /\ \A p \in ps : "cow" \notin entries[p].flags
  BY MmapFresh
<1>3. PICK entries, d, c :
        /\ MapsFresh(mm[t], ps, entries, d, c)
        /\ \A p \in ps : "cow" \notin entries[p].flags
  BY <1>2
<1>4. \A p \in ps : ~ (Has(entries[p], "shared") /\ Has(entries[p], "cow"))
  BY <1>3 DEF Has
<1> QED  BY <1>1, <1>3, <1>4, FreshIso

(* mremap that grows,                                                      *)
LEMMA GrowsIso ==
  ASSUME MemInv, MemInv', IsoInv, NEW t \in Threads, guest' = guest,
         NEW from \in Pages, NEW p \in Pages, MremapGrows(t, from, p)
  PROVE  IsoInv'
<1>1. at[t] # "off" /\ UNCHANGED <<mm, fault>>
  BY DEF MremapGrows, threads
<1>2. PICK entries, d, c :
        /\ MapsFresh(mm[t], {p}, entries, d, c) /\ Mapped(mm[t], from)
        /\ entries[p].flags = pt[mm[t]][from].flags
  BY GrowsFresh
<1>3. \A q \in {p} : ~ (Has(entries[q], "shared") /\ Has(entries[q], "cow"))
  <2>1. mm[t] \in Mems
    BY <1>1, HasMem
  <2>2. ~ (Has(pt[mm[t]][from], "shared") /\ Has(pt[mm[t]][from], "cow"))
    BY <2>1 DEF IsoInv, NoSharedCow
  <2> QED  BY <1>2, <2>2 DEF Has, Mapped
<1>4. {p} \in SUBSET Pages
  OBVIOUS
<1> QED  BY <1>1, <1>2, <1>3, <1>4, FreshIso

(* a fault below the stack.                                                *)
LEMMA StackIso ==
  ASSUME MemInv, MemInv', IsoInv, NEW t \in Threads, guest' = guest, ResolveStack(t)
  PROVE  IsoInv'
<1> DEFINE p == fault[t].page
<1>1. at[t] # "off" /\ UNCHANGED <<mm, fault>>
  BY DEF ResolveStack
<1>2. PICK entries, d, c :
        /\ MapsFresh(mm[t], {p}, entries, d, c)
        /\ entries[p].flags = {"w", "gd", "anon"}
  BY StackFresh
<1>3. \A q \in {p} : ~ (Has(entries[q], "shared") /\ Has(entries[q], "cow"))
  BY <1>2 DEF Has
<1>4. {p} \in SUBSET Pages
  BY StackFresh
<1> QED  BY <1>1, <1>2, <1>3, <1>4, FreshIso

(* Pages that go: the others stay as they were.                            *)
LEMMA LossIso ==
  ASSUME MemInv, MemInv', IsoInv, NEW m \in Mems, NEW table, NEW cells, guest' = guest,
         SetTable(m, table, content), SetCells(m, cells, val),
         \A p \in Pages : table[p] = None \/ (table[p] = pt[m][p] /\ cells[p] = cell[m][p])
  PROVE  Contents' /\ NoSharedCow' /\ OwnCells' /\ Aliases' /\ Isolation'
<1>1. TypeOK
  BY DEF MemInv, MemTypes
<1>2. /\ pt'[m] = table /\ cell'[m] = cells
      /\ \A n \in Mems \ {m} : pt'[n] = pt[n] /\ cell'[n] = cell[n]
  BY <1>1 DEF SetTable, SetCells, TypeOK
<1>3. \A n \in Mems, q \in Pages : pt'[n][q] # None =>
        pt'[n][q] = pt[n][q] /\ cell'[n][q] = cell[n][q]
  BY <1>2
<1>4. OwnCells' /\ Aliases'
  <2>1. \A n \in Mems, q \in Pages : pt'[n][q] # None => Kept(n, q) \/ Alone(n, q)
    BY <1>3 DEF Kept, SamePlace
  <2> QED  BY <2>1, PairsStep DEF IsoInv
<1>5. /\ \A n \in Mems, p \in Pages : pt'[n][p] # None =>
           content'[pt'[n][p].data] = content[pt'[n][p].data] /\ val'[cell'[n][p]] = val[cell'[n][p]]
      /\ Contents'
  BY HeldStep, ValStep DEF Contents
<1>6. Isolation'
  <2> SUFFICES ASSUME NEW n \in Mems, NEW q \in Pages, pt'[n][q] # None
               PROVE  content'[pt'[n][q].data][pt'[n][q].off] = val'[cell'[n][q]]
    BY DEF Isolation, Mapped
  <2>1. content[pt[n][q].data][pt[n][q].off] = val[cell[n][q]]
    BY <1>3 DEF IsoInv, Isolation, Mapped
  <2> QED  BY <1>3, <1>5, <2>1
<1>7. NoSharedCow'
  <2> SUFFICES ASSUME NEW n \in Mems, NEW q \in Pages
               PROVE  ~ (Has(pt'[n][q], "shared") /\ Has(pt'[n][q], "cow"))
    BY DEF NoSharedCow
  <2>1. pt'[n][q] = None \/ pt'[n][q] = pt[n][q]
    BY <1>3
  <2> QED  BY <2>1 DEF IsoInv, NoSharedCow, Has
<1> QED  BY <1>4, <1>5, <1>6, <1>7

(* munmap, and mremap that shrinks.                                        *)
LEMMA UnmapIso ==
  ASSUME MemInv, MemInv', IsoInv, NEW t \in Threads, NEW ps \in SUBSET Pages, guest' = guest,
         Munmap(t, ps) \/ MremapShrinks(t, ps)
  PROVE  IsoInv'
<1> DEFINE m == mm[t]
           table == [p \in Pages |-> IF p \in ps THEN None ELSE pt[m][p]]
           cells == [p \in Pages |-> IF p \in ps THEN 0 ELSE cell[m][p]]
<1>1. /\ at[t] # "off" /\ SetTable(m, table, content) /\ SetCells(m, cells, val)
      /\ UNCHANGED <<mm, fault>>
  BY DEF Munmap, MremapShrinks, Unmap, threads
<1>2. m \in Mems /\ TypeOK
  BY <1>1, HasMem DEF MemInv, MemTypes
<1>3. \A p \in Pages : table[p] = None \/ (table[p] = pt[m][p] /\ cells[p] = cell[m][p])
  OBVIOUS
<1> HIDE DEF table, cells
<1>4. Contents' /\ NoSharedCow' /\ OwnCells' /\ Aliases' /\ Isolation'
  BY <1>1, <1>2, <1>3, LossIso
<1>5. \A n \in Mems \ {m} : pt'[n] = pt[n]
  BY <1>1, <1>2 DEF SetTable, TypeOK
<1>6. Idle'
  BY <1>1, <1>5, IdleStep DEF IsoInv
<1> QED  BY <1>1, <1>4, <1>6 DEF IsoInv, UnprotectedForks, FaultWrites

(* The last thread that exits.                                             *)
LEMMA ExitIso ==
  ASSUME MemInv, MemInv', IsoInv, NEW t \in Threads, guest' = guest, Exit(t)
  PROVE  IsoInv'
<1> DEFINE m == mm[t]
           table == [p \in Pages |-> None]
           cells == [p \in Pages |-> 0]
<1>1. /\ at[t] # "off" /\ mm' = [mm EXCEPT ![t] = NoMem] /\ fault' = fault
      /\ \/ /\ SetTable(m, table, content) /\ SetCells(m, cells, val)
         \/ /\ \E u \in Threads \ {t} : mm[u] = m
            /\ UNCHANGED <<pt, refs, content, cell, val>>
  BY DEF Exit
<1>2. m \in Mems /\ TypeOK /\ \A p \in Pages : table[p] = None
  BY <1>1, HasMem DEF MemInv, MemTypes
<1>3. \A u \in Threads \ {t} : mm'[u] = mm[u]
  BY <1>1, <1>2 DEF TypeOK
<1>4. UnprotectedForks /\ FaultWrites'
  BY <1>1 DEF IsoInv, FaultWrites
<1> HIDE DEF table, cells
<1>5. CASE SetTable(m, table, content) /\ SetCells(m, cells, val)
  <2>1. Contents' /\ NoSharedCow' /\ OwnCells' /\ Aliases' /\ Isolation'
    BY <1>2, <1>5, LossIso
  <2>2. pt'[m] = table /\ \A n \in Mems \ {m} : pt'[n] = pt[n]
    BY <1>2, <1>5 DEF SetTable, TypeOK
  <2>3. Idle'
    <3> SUFFICES ASSUME NEW n \in Mems, \A u \in Threads : mm'[u] # n, NEW p \in Pages
                 PROVE  pt'[n][p] = None
      BY DEF Idle
    <3>1. CASE n = m
      BY <1>2, <2>2, <3>1
    <3>2. CASE n # m
      <4>1. \A u \in Threads : mm[u] # n
        BY <1>3, <3>2
      <4> QED  BY <2>2, <3>2, <4>1 DEF IsoInv, Idle
    <3> QED  BY <3>1, <3>2
  <2> QED  BY <1>4, <2>1, <2>3 DEF IsoInv, UnprotectedForks
<1>6. CASE /\ \E u \in Threads \ {t} : mm[u] = m
           /\ UNCHANGED <<pt, refs, content, cell, val>>
  <2>1. Idle'
    <3> SUFFICES ASSUME NEW n \in Mems, \A u \in Threads : mm'[u] # n, NEW p \in Pages
                 PROVE  pt'[n][p] = None
      BY DEF Idle
    <3>1. \A u \in Threads : mm[u] # n
      BY <1>3, <1>6
    <3> QED  BY <1>6, <3>1 DEF IsoInv, Idle
  <2>2. Contents' /\ NoSharedCow' /\ OwnCells' /\ Aliases' /\ Isolation'
    BY <1>6 DEF IsoInv, Contents, NoSharedCow, OwnCells, Aliases, Isolation, Mapped, UsedCells
  <2> QED  BY <1>4, <2>1, <2>2 DEF IsoInv, UnprotectedForks
<1> QED  BY <1>1, <1>5, <1>6

(* mprotect: a guest that calls it has forked nothing, so that no page has *)
(* another to be kept apart from.                                          *)
LEMMA MprotectIso ==
  ASSUME MemInv, MemInv', IsoInv, NEW t \in Threads, NEW p \in Pages, NEW w \in BOOLEAN,
         guest' = guest, Mprotect(t, p, w)
  PROVE  IsoInv'
<1> DEFINE m == mm[t]
           fl == IF w THEN {"w"} ELSE {}
           table == [pt[m] EXCEPT ![p].flags = fl]
<1>1. /\ at[t] # "off" /\ Mapped(m, p) /\ SetTable(m, table, content)
      /\ UNCHANGED <<cell, val, mm, fault>> /\ "mprotect" \in guest.calls
  BY DEF Mprotect, threads
<1>2. m \in Mems /\ TypeOK
  BY <1>1, HasMem DEF MemInv, MemTypes
<1>3. "fork" \notin guest.calls
  BY <1>1, <1>2 DEF IsoInv, UnprotectedForks, TypeOK
<1>4. /\ \A n \in Mems \ {m} : pt'[n] = pt[n]
      /\ \A q \in Pages \ {p} : pt'[m][q] = pt[m][q]
      /\ pt[m][p] # None /\ SamePlace(pt'[m][p], pt[m][p])
      /\ ~ (Has(pt'[m][p], "shared") /\ Has(pt'[m][p], "cow"))
  <2> DEFINE e == pt[m][p]
             new == [e EXCEPT !.flags = fl]
  <2>1. e \in Entries \ {None} /\ fl \in SUBSET Flags
    BY <1>1, <1>2 DEF TypeOK, Mapped, Flags
  <2>2. new.data = e.data /\ new.off = e.off /\ new.flags = fl
    BY <2>1, ChangedFlags
  <2>3. table = [pt[m] EXCEPT ![p] = new]
    OBVIOUS
  <2> HIDE DEF new, table
  <2>4. pt' = [pt EXCEPT ![m] = table]
    BY <1>1 DEF SetTable
  <2>5. pt'[m] = table /\ \A n \in Mems \ {m} : pt'[n] = pt[n]
    BY <1>2, <2>4 DEF TypeOK
  <2>6. table[p] = new /\ \A q \in Pages \ {p} : table[q] = pt[m][q]
    BY <1>2, <2>3 DEF TypeOK
  <2> QED  BY <2>1, <2>2, <2>5, <2>6 DEF SamePlace, Has
<1> HIDE DEF table, m
<1>5. \A n \in Mems, q \in Pages : pt'[n][q] # None =>
        pt[n][q] # None /\ SamePlace(pt'[n][q], pt[n][q])
  BY <1>4 DEF SamePlace
<1>6. ASSUME NEW n \in Mems, NEW o \in Mems, NEW q \in Pages, NEW r \in Pages,
             pt[n][q] # None, pt[o][r] # None, ~ (n = o /\ q = r)
      PROVE  cell[n][q] # cell[o][r] /\ ~ SamePlace(pt[n][q], pt[o][r])
  BY <1>3, <1>6 DEF IsoInv, OwnCells, Aliases
<1>7. OwnCells' /\ Aliases'
  <2>1. ASSUME NEW n \in Mems, NEW o \in Mems, NEW q \in Pages, NEW r \in Pages,
               pt'[n][q] # None, pt'[o][r] # None, ~ (n = o /\ q = r)
        PROVE  cell'[n][q] # cell'[o][r] /\ ~ SamePlace(pt'[n][q], pt'[o][r])
    <3>1. cell[n][q] # cell[o][r] /\ ~ SamePlace(pt[n][q], pt[o][r])
      BY <1>5, <1>6, <2>1
    <3>2. SamePlace(pt'[n][q], pt[n][q]) /\ SamePlace(pt'[o][r], pt[o][r])
      BY <1>5, <2>1
    <3> QED  BY <1>1, <3>1, <3>2 DEF SamePlace
  <2> QED  BY <2>1 DEF OwnCells, Aliases
<1>8. /\ \A n \in Mems, q \in Pages : pt'[n][q] # None =>
           content'[pt'[n][q].data] = content[pt'[n][q].data]
      /\ \A d \in Datas : refs'[d] = 0 => content'[d] = Blank
  BY <1>1, <1>2, HeldStep
<1>9. Isolation'
  <2> SUFFICES ASSUME NEW n \in Mems, NEW q \in Pages, pt'[n][q] # None
               PROVE  content'[pt'[n][q].data][pt'[n][q].off] = val'[cell'[n][q]]
    BY DEF Isolation, Mapped
  <2>1. content[pt[n][q].data][pt[n][q].off] = val[cell[n][q]]
    BY <1>5 DEF IsoInv, Isolation, Mapped
  <2> QED  BY <1>1, <1>5, <1>8, <2>1 DEF SamePlace
<1>10. Contents'
  BY <1>1, <1>8 DEF IsoInv, Contents, UsedCells
<1>11. NoSharedCow'
  <2> SUFFICES ASSUME NEW n \in Mems, NEW q \in Pages
               PROVE  ~ (Has(pt'[n][q], "shared") /\ Has(pt'[n][q], "cow"))
    BY DEF NoSharedCow
  <2>1. (n = m /\ q = p) \/ pt'[n][q] = pt[n][q]
    BY <1>4
  <2> QED  BY <1>4, <2>1 DEF IsoInv, NoSharedCow
<1>12. Idle'
  <2>1. \A n \in Mems \ {mm[t]} : pt'[n] = pt[n]
    BY <1>4 DEF m
  <2> QED  BY <1>1, <2>1, IdleStep DEF IsoInv
<1> QED  BY <1>1, <1>7, <1>9, <1>10, <1>11, <1>12 DEF IsoInv, UnprotectedForks, FaultWrites

(* A private page that is copied leaves the others to those that have them.*)
LEMMA CopyIso ==
  ASSUME MemInv, MemInv', IsoInv, NEW t \in Threads, guest' = guest, ResolveCopy(t)
  PROVE  IsoInv'
<1>1. PICK d, new, held : Copied(t, d, new, held)
  BY CopyFacts
<1> DEFINE m == mm[t]
           x == fault[t].page
           e == pt[m][x]
           entries == [q \in {x} |-> new]
           table == [p \in Pages |-> IF p \in {x} THEN entries[p] ELSE pt[m][p]]
<1>2. at[t] # "off" /\ UNCHANGED <<mm, fault, cell, val>>
  BY DEF ResolveCopy
<1>3. /\ m \in Mems /\ x \in Pages /\ e \in Entries \ {None} /\ Has(e, "w") /\ Has(e, "cow")
      /\ d \in Datas \ Live /\ new \in Entries \ {None}
      /\ new.data = d /\ new.off = x /\ new.flags = e.flags \ {"cow"}
      /\ held[d][x] = content[e.data][e.off]
      /\ \A b \in Datas \ {d} : held[b] = content[b]
      /\ Map(m, entries, held)
  BY <1>1 DEF Copied
<1>4. TypeOK
  BY DEF MemInv, MemTypes
<1>5. SetTable(m, table, held)
  BY <1>3 DEF Map
<1>6. /\ pt'[m][x] = new /\ \A q \in Pages \ {x} : pt'[m][q] = pt[m][q]
      /\ \A n \in Mems \ {m} : pt'[n] = pt[n]
  <2>1. pt' = [pt EXCEPT ![m] = table]
    BY <1>5 DEF SetTable
  <2>2. pt'[m] = table /\ \A n \in Mems \ {m} : pt'[n] = pt[n]
    BY <1>3, <1>4, <2>1 DEF TypeOK
  <2> QED  BY <1>3, <2>2
<1> HIDE DEF table, entries, m, x
<1>7. \A n \in Mems, q \in Pages : (n = m /\ q = x) \/ pt'[n][q] = pt[n][q]
  BY <1>6
<1>8. Alone(m, x)
  <2> SUFFICES ASSUME NEW n \in Mems, NEW q \in Pages, pt'[n][q] # None, ~ (m = n /\ x = q)
               PROVE  ~ SamePlace(pt'[m][x], pt'[n][q]) /\ cell[m][x] # cell[n][q]
    BY <1>2 DEF Alone
  <2>1. pt'[n][q] = pt[n][q]
    BY <1>7
  <2>2. pt[n][q].data \in Live
    BY <2>1, MappedFacts
  <2>3. ~ SamePlace(pt'[m][x], pt'[n][q])
    BY <1>3, <1>6, <2>1, <2>2 DEF SamePlace
  <2>4. ~ Has(pt[m][x], "shared")
    BY <1>3 DEF IsoInv, NoSharedCow
  <2>5. cell[m][x] # cell[n][q]
    <3>1. pt[m][x] # None /\ pt[n][q] # None
      BY <1>3, <2>1
    <3> QED  BY <1>3, <2>4, <3>1 DEF IsoInv, OwnCells
  <2> QED  BY <2>3, <2>5
<1>9. OwnCells' /\ Aliases'
  <2>1. \A n \in Mems, q \in Pages : pt'[n][q] # None => Kept(n, q) \/ Alone(n, q)
    <3> SUFFICES ASSUME NEW n \in Mems, NEW q \in Pages, pt'[n][q] # None
                 PROVE  Kept(n, q) \/ Alone(n, q)
      OBVIOUS
    <3>1. CASE n = m /\ q = x
      BY <1>8, <3>1
    <3>2. CASE pt'[n][q] = pt[n][q]
      BY <1>2, <3>2 DEF Kept, SamePlace
    <3> QED  BY <1>7, <3>1, <3>2
  <2> QED  BY <2>1, PairsStep DEF IsoInv
<1>10. /\ \A n \in Mems, q \in Pages : pt'[n][q] # None =>
            content'[pt'[n][q].data] = held[pt'[n][q].data]
       /\ \A b \in Datas : refs'[b] = 0 => content'[b] = Blank
  BY <1>3, <1>5, HeldStep
<1>11. Isolation'
  <2> SUFFICES ASSUME NEW n \in Mems, NEW q \in Pages, pt'[n][q] # None
               PROVE  content'[pt'[n][q].data][pt'[n][q].off] = val[cell[n][q]]
    BY <1>2 DEF Isolation, Mapped
  <2>1. CASE n = m /\ q = x
    <3>1. content[e.data][e.off] = val[cell[m][x]]
      BY <1>3 DEF IsoInv, Isolation, Mapped
    <3> QED  BY <1>3, <1>6, <1>10, <2>1, <3>1
  <2>2. CASE pt'[n][q] = pt[n][q]
    <3>1. pt[n][q].data \in Live /\ pt[n][q].data \in Datas
      BY <2>2, MappedFacts DEF Live
    <3>2. content[pt[n][q].data][pt[n][q].off] = val[cell[n][q]]
      BY <2>2 DEF IsoInv, Isolation, Mapped
    <3> QED  BY <1>3, <1>10, <2>2, <3>1, <3>2
  <2> QED  BY <1>7, <2>1, <2>2
<1>12. Contents'
  BY <1>2, <1>10 DEF IsoInv, Contents, UsedCells
<1>13. NoSharedCow'
  <2> SUFFICES ASSUME NEW n \in Mems, NEW q \in Pages
               PROVE  ~ (Has(pt'[n][q], "shared") /\ Has(pt'[n][q], "cow"))
    BY DEF NoSharedCow
  <2>1. CASE n = m /\ q = x
    BY <1>3, <1>6, <2>1 DEF Has
  <2>2. CASE pt'[n][q] = pt[n][q]
    BY <2>2 DEF IsoInv, NoSharedCow
  <2> QED  BY <1>7, <2>1, <2>2
<1>14. Idle'
  <2>1. \A n \in Mems \ {mm[t]} : pt'[n] = pt[n]
    BY <1>6 DEF m
  <2> QED  BY <1>2, <2>1, IdleStep DEF IsoInv
<1> QED  BY <1>2, <1>9, <1>11, <1>12, <1>13, <1>14 DEF IsoInv, UnprotectedForks, FaultWrites

(* The page of the parent that a page of n, or of another, comes from.     *)
Source(m, n, o) == IF o = n THEN m ELSE o

(* fork shares every page: two that the guest keeps apart are both marked  *)
(* before either can be written.                                           *)
LEMMA ForkPairs ==
  ASSUME MemInv, IsoInv, NEW m, NEW n, NEW c, NEW v, Forks(m, n, c, v), guest' = guest,
         "fork" \in guest.calls,
         NEW o1 \in Mems, NEW o2 \in Mems, NEW p \in Pages, NEW q \in Pages,
         pt'[o1][p] # None, pt'[o2][q] # None, ~ (o1 = o2 /\ p = q)
  PROVE  /\ cell'[o1][p] = cell'[o2][q] =>
              /\ Has(pt'[o1][p], "shared") /\ Has(pt'[o2][q], "shared")
              /\ SamePlace(pt'[o1][p], pt'[o2][q])
         /\ SamePlace(pt'[o1][p], pt'[o2][q]) =>
              \/ cell'[o1][p] = cell'[o2][q]
              \/ ~Writable(pt'[o1][p]) /\ ~Writable(pt'[o2][q])
<1> DEFINE s1 == Source(m, n, o1)
           s2 == Source(m, n, o2)
           e1 == pt[s1][p]
           e2 == pt[s2][q]
<1>1. /\ m \in Mems /\ n \in Mems /\ n # m
      /\ c \in [Private(m) -> Cells \ UsedCells] /\ \A x, y \in Private(m) : c[x] = c[y] => x = y
      /\ \A r \in Pages : pt'[m][r] = CowEntry(pt[m][r]) /\ pt'[n][r] = CowEntry(pt[m][r])
      /\ \A o \in Mems \ {m, n} : pt'[o] = pt[o]
  BY DEF Forks
<1>2. /\ \A r \in Private(m) : cell'[n][r] = c[r]
      /\ \A r \in Pages \ Private(m) : cell'[n][r] = cell[m][r]
      /\ \A o \in Mems \ {n} : cell'[o] = cell[o]
      /\ \A o \in Mems \ {n}, r \in Pages :
           /\ pt'[o][r].data = pt[o][r].data /\ pt'[o][r].off = pt[o][r].off
           /\ pt'[o][r] = None <=> pt[o][r] = None
      /\ \A r \in Pages :
           /\ pt'[n][r].data = pt[m][r].data /\ pt'[n][r].off = pt[m][r].off
           /\ pt'[n][r] = None <=> pt[m][r] = None
  BY ForkTables
<1>3. /\ s1 \in Mems /\ s2 \in Mems /\ e1 # None /\ e2 # None
      /\ SamePlace(pt'[o1][p], e1) /\ SamePlace(pt'[o2][q], e2)
  BY <1>1, <1>2 DEF Source, SamePlace
<1>4. e1 \in Entries /\ e2 \in Entries /\ cell[s1][p] \in UsedCells /\ cell[s2][q] \in UsedCells
  BY <1>3, MappedFacts
(* A page keeps being MAP_SHARED, or not to be writable.                   *)
<1>5. /\ Has(e1, "shared") => Has(pt'[o1][p], "shared")
      /\ Has(e2, "shared") => Has(pt'[o2][q], "shared")
      /\ Writable(pt'[o1][p]) => Writable(e1)
      /\ Writable(pt'[o2][q]) => Writable(e2)
      /\ s1 = m /\ ~Has(e1, "shared") => ~Writable(pt'[o1][p])
      /\ s2 = m /\ ~Has(e2, "shared") => ~Writable(pt'[o2][q])
  <2>1. /\ pt'[o1][p] = e1 \/ pt'[o1][p] = CowEntry(e1)
        /\ pt'[o2][q] = e2 \/ pt'[o2][q] = CowEntry(e2)
        /\ s1 = m => pt'[o1][p] = CowEntry(e1)
        /\ s2 = m => pt'[o2][q] = CowEntry(e2)
    BY <1>1 DEF Source
  <2>2. ASSUME NEW e \in Entries, e # None
        PROVE  /\ Has(e, "shared") => CowEntry(e) = e
               /\ ~Has(e, "shared") => ~Writable(CowEntry(e))
    BY <2>2, CowFacts DEF Writable, Has
  <2>3. /\ Has(e1, "shared") => CowEntry(e1) = e1
        /\ ~Has(e1, "shared") => ~Writable(CowEntry(e1))
        /\ Has(e2, "shared") => CowEntry(e2) = e2
        /\ ~Has(e2, "shared") => ~Writable(CowEntry(e2))
    BY <1>3, <1>4, <2>2
  <2> HIDE DEF s1, s2, e1, e2
  <2>4. /\ Has(e1, "shared") => Has(pt'[o1][p], "shared")
        /\ Has(e2, "shared") => Has(pt'[o2][q], "shared")
    BY <2>1, <2>3
  <2>5. /\ Writable(pt'[o1][p]) => Writable(e1)
        /\ Writable(pt'[o2][q]) => Writable(e2)
    BY <2>1, <2>3
  <2> QED  BY <2>1, <2>3, <2>4, <2>5
(* A cell is that of the source, but for private pages of n.               *)
<1>6. /\ o1 = n /\ ~Has(e1, "shared") =>
           cell'[o1][p] = c[p] /\ c[p] \in Cells \ UsedCells /\ p \in Private(m)
      /\ o1 = n /\ Has(e1, "shared") => cell'[o1][p] = cell[s1][p]
      /\ o1 # n => cell'[o1][p] = cell[s1][p]
  BY <1>1, <1>2, <1>3 DEF Private, Mapped, Source
<1>7. /\ o2 = n /\ ~Has(e2, "shared") =>
           cell'[o2][q] = c[q] /\ c[q] \in Cells \ UsedCells /\ q \in Private(m)
      /\ o2 = n /\ Has(e2, "shared") => cell'[o2][q] = cell[s2][q]
      /\ o2 # n => cell'[o2][q] = cell[s2][q]
  BY <1>1, <1>2, <1>3 DEF Private, Mapped, Source
<1>8. ~ (s1 = s2 /\ p = q) =>
        /\ cell[s1][p] = cell[s2][q] =>
             Has(e1, "shared") /\ Has(e2, "shared") /\ SamePlace(e1, e2)
        /\ SamePlace(e1, e2) =>
             cell[s1][p] = cell[s2][q] \/ (~Writable(e1) /\ ~Writable(e2))
  BY <1>3 DEF IsoInv, OwnCells, Aliases
<1>9. s1 = s2 /\ p = q => s1 = m /\ s2 = m /\ e1 = e2 /\ o1 # o2 /\ (o1 = n \/ o2 = n)
  BY DEF Source
<1>10. SamePlace(pt'[o1][p], pt'[o2][q]) <=> SamePlace(e1, e2)
  BY <1>3 DEF SamePlace
<1> HIDE DEF s1, s2, e1, e2
<1>11. ASSUME cell'[o1][p] = cell'[o2][q]
       PROVE  /\ Has(pt'[o1][p], "shared") /\ Has(pt'[o2][q], "shared")
              /\ SamePlace(pt'[o1][p], pt'[o2][q])
  <2>1. cell'[o1][p] = cell[s1][p] /\ cell'[o2][q] = cell[s2][q]
    <3>1. CASE o1 = n /\ ~Has(e1, "shared")
      <4>1. o2 = n /\ ~Has(e2, "shared")
        BY <1>4, <1>6, <1>7, <1>11, <3>1
      <4> QED  BY <1>1, <1>6, <1>7, <1>11, <3>1, <4>1
    <3>2. CASE o2 = n /\ ~Has(e2, "shared")
      <4>1. o1 = n /\ ~Has(e1, "shared")
        BY <1>4, <1>6, <1>7, <1>11, <3>2
      <4> QED  BY <1>1, <1>6, <1>7, <1>11, <3>2, <4>1
    <3> QED  BY <1>6, <1>7, <3>1, <3>2
  <2>2. CASE s1 = s2 /\ p = q
    <3>1. Has(e1, "shared") /\ e1 = e2
      BY <1>4, <1>6, <1>7, <1>9, <2>1, <2>2
    <3> QED  BY <1>5, <1>10, <3>1 DEF SamePlace
  <2>3. CASE ~ (s1 = s2 /\ p = q)
    BY <1>5, <1>8, <1>10, <1>11, <2>1, <2>3
  <2> QED  BY <2>2, <2>3
<1>12. ASSUME SamePlace(pt'[o1][p], pt'[o2][q])
       PROVE  \/ cell'[o1][p] = cell'[o2][q]
              \/ ~Writable(pt'[o1][p]) /\ ~Writable(pt'[o2][q])
  <2>1. CASE s1 = s2 /\ p = q
    BY <1>5, <1>6, <1>7, <1>9, <2>1
  <2>2. CASE ~ (s1 = s2 /\ p = q)
    <3>1. CASE cell[s1][p] = cell[s2][q]
      <4>1. Has(e1, "shared") /\ Has(e2, "shared")
        BY <1>8, <2>2, <3>1
      <4> QED  BY <1>6, <1>7, <3>1, <4>1
    <3>2. CASE ~Writable(e1) /\ ~Writable(e2)
      BY <1>5, <3>2
    <3> QED  BY <1>8, <1>10, <1>12, <2>2, <3>1, <3>2
  <2> QED  BY <2>1, <2>2
<1> QED  BY <1>11, <1>12

(* After fork both address spaces hold what the parent's held.             *)
LEMMA ForkIso ==
  ASSUME MemInv, MemInv', IsoInv, NEW t \in Threads, NEW u \in Threads, NEW n \in Mems,
         Fork(t, u, n), guest' = guest
  PROVE  IsoInv'
<1> DEFINE m == mm[t]
<1>1. /\ at[t] # "off" /\ at[u] = "off" /\ \A x \in Threads : mm[x] # n
      /\ mm' = [mm EXCEPT ![u] = n] /\ UNCHANGED <<content, fault>> /\ "fork" \in guest.calls
  BY DEF Fork
<1>2. TypeOK /\ m \in Mems
  BY <1>1, HasMem DEF MemInv, MemTypes
<1>3. PICK c, v : Forks(m, n, c, v)
  BY ForkFacts
<1> DEFINE cells == [p \in Pages |-> IF p \in Private(m) THEN c[p] ELSE cell[m][p]]
<1>4. /\ n # m /\ c \in [Private(m) -> Cells \ UsedCells]
      /\ \A p \in Private(m) : v[c[p]] = val[cell[m][p]]
      /\ \A x \in Cells \cap UsedCells : v[x] = val[x]
      /\ \A p \in Pages : pt'[m][p] = CowEntry(pt[m][p]) /\ pt'[n][p] = CowEntry(pt[m][p])
      /\ \A o \in Mems \ {m, n} : pt'[o] = pt[o]
      /\ SetCells(n, cells, v)
  BY <1>3 DEF Forks
<1> HIDE DEF m, cells
<1>5. /\ \A r \in Private(m) : cell'[n][r] = c[r]
      /\ \A r \in Pages \ Private(m) : cell'[n][r] = cell[m][r]
      /\ \A o \in Mems \ {n} : cell'[o] = cell[o]
      /\ \A o \in Mems \ {n}, r \in Pages :
           /\ pt'[o][r].data = pt[o][r].data /\ pt'[o][r].off = pt[o][r].off
           /\ pt'[o][r] = None <=> pt[o][r] = None
      /\ \A r \in Pages :
           /\ pt'[n][r].data = pt[m][r].data /\ pt'[n][r].off = pt[m][r].off
           /\ pt'[n][r] = None <=> pt[m][r] = None
  BY <1>3, ForkTables
<1>6. OwnCells'
  <2> SUFFICES ASSUME NEW o1 \in Mems, NEW o2 \in Mems, NEW p \in Pages, NEW q \in Pages,
                      pt'[o1][p] # None, pt'[o2][q] # None, ~ (o1 = o2 /\ p = q),
                      cell'[o1][p] = cell'[o2][q]
               PROVE  /\ Has(pt'[o1][p], "shared") /\ Has(pt'[o2][q], "shared")
                      /\ SamePlace(pt'[o1][p], pt'[o2][q])
    BY <1>1 DEF OwnCells
  <2> QED  BY <1>1, <1>3, ForkPairs
<1>7. Aliases'
  <2> SUFFICES ASSUME NEW o1 \in Mems, NEW o2 \in Mems, NEW p \in Pages, NEW q \in Pages,
                      pt'[o1][p] # None, pt'[o2][q] # None, ~ (o1 = o2 /\ p = q),
                      SamePlace(pt'[o1][p], pt'[o2][q])
               PROVE  \/ cell'[o1][p] = cell'[o2][q]
                      \/ ~Writable(pt'[o1][p]) /\ ~Writable(pt'[o2][q])
    BY <1>1 DEF Aliases
  <2> QED  BY <1>1, <1>3, ForkPairs
<1>8. /\ \A o \in Mems, p \in Pages : pt'[o][p] # None => val'[cell'[o][p]] = v[cell'[o][p]]
      /\ \A x \in Cells : x \notin UsedCells' => val'[x] = 0
  BY <1>4, ValStep
<1>9. Isolation'
  <2> SUFFICES ASSUME NEW o \in Mems, NEW p \in Pages, pt'[o][p] # None
               PROVE  content[pt'[o][p].data][pt'[o][p].off] = v[cell'[o][p]]
    BY <1>1, <1>8 DEF Isolation, Mapped
  <2>1. CASE o # n
    <3>1. /\ pt[o][p] # None /\ pt'[o][p].data = pt[o][p].data /\ pt'[o][p].off = pt[o][p].off
          /\ cell'[o][p] = cell[o][p]
      BY <1>5, <2>1
    <3>2. cell[o][p] \in Cells \cap UsedCells
      BY <3>1, MappedFacts
    <3>3. content[pt[o][p].data][pt[o][p].off] = val[cell[o][p]]
      BY <3>1 DEF IsoInv, Isolation, Mapped
    <3> QED  BY <1>4, <3>1, <3>2, <3>3
  <2>2. CASE o = n
    <3>1. pt[m][p] # None /\ pt'[n][p].data = pt[m][p].data /\ pt'[n][p].off = pt[m][p].off
      BY <1>5, <2>2
    <3>2. content[pt[m][p].data][pt[m][p].off] = val[cell[m][p]] /\ cell[m][p] \in Cells \cap UsedCells
      BY <1>2, <3>1, MappedFacts DEF IsoInv, Isolation, Mapped
    <3>3. v[cell'[n][p]] = val[cell[m][p]]
      <4>1. CASE p \in Private(m)
        BY <1>4, <1>5, <4>1
      <4>2. CASE p \notin Private(m)
        BY <1>4, <1>5, <3>2, <4>2
      <4> QED  BY <4>1, <4>2
    <3> QED  BY <2>2, <3>1, <3>2, <3>3
  <2> QED  BY <2>1, <2>2
<1>10. \A p \in Pages : pt[n][p] = None
  BY <1>1 DEF IsoInv, Idle
<1>11. Contents'
  <2> SUFFICES ASSUME NEW d \in Datas, refs'[d] = 0 PROVE content[d] = Blank
    BY <1>1, <1>8 DEF Contents
  <2>1. refs'[d] = Cardinality(Refs(pt', d)) /\ refs[d] = Cardinality(Refs(pt, d))
    BY DEF MemInv, RefcountExact, Refs
  <2>2. \A o \in Mems, p \in Pages : pt'[o][p].data # d
    BY <2>1, Unreferenced
  <2>3. \A o \in Mems, p \in Pages : pt[o][p].data # d
    <3> SUFFICES ASSUME NEW o \in Mems, NEW p \in Pages PROVE pt[o][p].data # d
      OBVIOUS
    <3>1. CASE o = n
      BY <1>10, <3>1, EntryFacts
    <3>2. CASE o # n
      BY <1>5, <2>2, <3>2
    <3> QED  BY <3>1, <3>2
  <2>4. refs[d] = 0
    BY <2>1, <2>3, Unreferenced
  <2> QED  BY <2>4 DEF IsoInv, Contents
<1>12. NoSharedCow'
  <2> SUFFICES ASSUME NEW o \in Mems, NEW p \in Pages
               PROVE  ~ (Has(pt'[o][p], "shared") /\ Has(pt'[o][p], "cow"))
    BY DEF NoSharedCow
  <2>1. CASE o \in Mems \ {m, n}
    BY <1>4, <2>1 DEF IsoInv, NoSharedCow
  <2>2. CASE o \in {m, n}
    <3> DEFINE e == pt[m][p]
    <3>1. pt'[o][p] = CowEntry(e)
      BY <1>4, <2>2
    <3>2. e \in Entries /\ ~ (Has(e, "shared") /\ Has(e, "cow"))
      BY <1>2 DEF IsoInv, NoSharedCow, TypeOK
    <3> HIDE DEF e
    <3>3. CASE e = None \/ Has(e, "shared")
      BY <3>1, <3>2, <3>3, CowFacts
    <3>4. CASE e # None /\ ~Has(e, "shared")
      <4>1. CowEntry(e).flags = e.flags \cup {"cow"} /\ "shared" \notin e.flags
        BY <3>2, <3>4, CowFacts DEF Has
      <4> QED  BY <3>1, <4>1 DEF Has
    <3> QED  BY <3>3, <3>4
  <2> QED  BY <2>1, <2>2
<1>13. Idle'
  <2> SUFFICES ASSUME NEW o \in Mems, \A x \in Threads : mm'[x] # o, NEW p \in Pages
               PROVE  pt'[o][p] = None
    BY DEF Idle
  <2>1. mm[u] = NoMem /\ t # u /\ mm'[t] = m /\ mm'[u] = n
    BY <1>1, <1>2 DEF MemInv, Spaces, TypeOK, m
  <2>2. o # n /\ o # m /\ \A x \in Threads : mm[x] # o
    BY <1>1, <1>2, <2>1, MemoryAssumption DEF TypeOK
  <2> QED  BY <1>4, <2>2 DEF IsoInv, Idle
<1> QED  BY <1>1, <1>6, <1>7, <1>9, <1>11, <1>12, <1>13 DEF IsoInv, UnprotectedForks, FaultWrites

(* Another thread in the same address space.                               *)
LEMMA CloneIso ==
  ASSUME MemInv, IsoInv, NEW t \in Threads, NEW u \in Threads, CloneVM(t, u), guest' = guest
  PROVE  IsoInv'
<1>1. /\ at[u] = "off" /\ mm' = [mm EXCEPT ![u] = mm[t]]
      /\ UNCHANGED <<pt, refs, content, fault, cell, val>>
  BY DEF CloneVM
<1>2. mm[u] = NoMem /\ mm \in [Threads -> Mems \cup {NoMem}]
  BY <1>1 DEF MemInv, Spaces, MemTypes, TypeOK
<1>3. Idle'
  <2> SUFFICES ASSUME NEW n \in Mems, \A x \in Threads : mm'[x] # n, NEW p \in Pages
               PROVE  pt[n][p] = None
    BY <1>1 DEF Idle
  <2>1. \A x \in Threads : mm[x] # n
    BY <1>1, <1>2, MemoryAssumption
  <2> QED  BY <2>1 DEF IsoInv, Idle
<1> QED  BY <1>1, <1>3 DEF IsoInv, UnprotectedForks, FaultWrites, Contents, NoSharedCow,
             OwnCells, Aliases, Isolation, Mapped, UsedCells

(* A write to a page that may be written reaches those that expect it, and *)
(* nobody else.                                                            *)
LEMMA WriteIso ==
  ASSUME MemInv, IsoInv, NEW m \in Mems, NEW p \in Pages, NEW v, Writable(pt[m][p]),
         content' = [content EXCEPT ![pt[m][p].data][pt[m][p].off] = v],
         val' = [val EXCEPT ![cell[m][p]] = v], UNCHANGED <<pt, refs, cell>>
  PROVE  Isolation' /\ Contents'
<1> DEFINE e == pt[m][p]
           b == e.data
           o == e.off
           x == cell[m][p]
<1>1. /\ e # None /\ b \in Live /\ b \in Datas /\ o \in Pages /\ x \in Cells \cap UsedCells
  <2>1. e # None
    BY DEF Writable, Has
  <2> QED  BY <2>1, MappedFacts DEF Live
<1>2. TypeOK
  BY DEF MemInv, MemTypes
<1> HIDE DEF b, o, x
<1>3. /\ content' = [content EXCEPT ![b][o] = v] /\ val' = [val EXCEPT ![x] = v]
  BY DEF b, o, x
<1>4. /\ content'[b][o] = v /\ val'[x] = v
      /\ \A d \in Datas, r \in Pages : ~ (d = b /\ r = o) => content'[d][r] = content[d][r]
      /\ \A d \in Datas \ {b} : content'[d] = content[d]
      /\ \A y \in Cells \ {x} : val'[y] = val[y]
  BY <1>1, <1>2, <1>3 DEF TypeOK
<1>5. Isolation'
  <2> SUFFICES ASSUME NEW n \in Mems, NEW q \in Pages, pt[n][q] # None
               PROVE  content'[pt[n][q].data][pt[n][q].off] = val'[cell[n][q]]
    BY DEF Isolation, Mapped
  <2> DEFINE f == pt[n][q]
  <2>1. f.data \in Datas /\ f.off \in Pages /\ cell[n][q] \in Cells
    BY MappedFacts DEF Live
  <2>2. content[f.data][f.off] = val[cell[n][q]]
    BY DEF IsoInv, Isolation, Mapped
  <2>3. CASE n = m /\ q = p
    BY <1>4, <2>3 DEF b, o, x
  <2>4. CASE ~ (m = n /\ p = q)
    <3>1. cell[m][p] = cell[n][q] => SamePlace(pt[m][p], pt[n][q])
      BY <1>1, <2>4 DEF IsoInv, OwnCells
    <3>2. SamePlace(pt[m][p], pt[n][q]) => cell[m][p] = cell[n][q]
      BY <1>1, <2>4 DEF IsoInv, Aliases
    <3>3. CASE SamePlace(pt[m][p], pt[n][q])
      BY <1>4, <3>2, <3>3 DEF SamePlace, b, o, x
    <3>4. CASE ~ SamePlace(pt[m][p], pt[n][q])
      <4>1. ~ (f.data = b /\ f.off = o) /\ cell[n][q] # x
        BY <3>1, <3>4 DEF SamePlace, b, o, x
      <4> QED  BY <1>4, <2>1, <2>2, <4>1
    <3> QED  BY <3>3, <3>4
  <2> QED  BY <2>3, <2>4
<1>6. Contents'
  <2>1. ASSUME NEW d \in Datas, refs[d] = 0 PROVE content'[d] = Blank
    <3>1. d # b
      BY <1>1, <2>1 DEF Live
    <3> QED  BY <1>4, <2>1, <3>1 DEF IsoInv, Contents
  <2>2. ASSUME NEW y \in Cells, y \notin UsedCells PROVE val'[y] = 0
    <3>1. y # x
      BY <1>1, <2>2
    <3> QED  BY <1>4, <2>2, <3>1 DEF IsoInv, Contents
  <2> QED  BY <2>1, <2>2 DEF Contents, UsedCells
<1> QED  BY <1>5, <1>6

(* Steps that change neither page tables nor memory.                       *)
LEMMA QuietIso ==
  ASSUME IsoInv, UNCHANGED <<guest, pt, refs, content, mm, cell, val>>, FaultWrites'
  PROVE  IsoInv'
BY DEF IsoInv, UnprotectedForks, Idle, Contents, NoSharedCow, OwnCells, Aliases, Isolation, Mapped,
       UsedCells

(* A guest that stores through a cached translation may write the page.    *)
LEMMA StoreIso ==
  ASSUME MemInv, IsoInv, NEW t \in Threads, NEW p \in Pages, NEW v \in Values, Store(t, p, v),
         guest' = guest
  PROVE  IsoInv'
<1> DEFINE m == mm[t]
           x == tlb[t][p]
<1>1. /\ at[t] = "user" /\ x # None /\ x.w
      /\ content' = [content EXCEPT ![x.data][x.off] = v]
      /\ val' = IF cell[m][p] = 0 THEN val ELSE [val EXCEPT ![cell[m][p]] = v]
      /\ UNCHANGED <<pt, refs, cell, mm, fault>>
  BY DEF Store, threads
<1>2. m \in Mems
  BY <1>1, HasMem
<1>3. Translates(pt[m][p], x.w) /\ pt[m][p].data = x.data /\ pt[m][p].off = x.off
  BY <1>1, InvSafe DEF MemorySafe, NoStaleTranslation
<1>4. Writable(pt[m][p]) /\ pt[m][p] # None
  BY <1>1, <1>3 DEF Translates
<1>5. cell[m][p] # 0
  BY <1>2, <1>4 DEF MemInv, CellsMapped
<1>6. Isolation' /\ Contents'
  <2>1. /\ content' = [content EXCEPT ![pt[m][p].data][pt[m][p].off] = v]
        /\ val' = [val EXCEPT ![cell[m][p]] = v]
    BY <1>1, <1>3, <1>5
  <2> HIDE DEF m
  <2> QED  BY <1>1, <1>2, <1>4, <2>1, WriteIso
<1> QED  BY <1>1, <1>6 DEF IsoInv, UnprotectedForks, Idle, FaultWrites, NoSharedCow, OwnCells, Aliases

(* So may a system call that finds the page writable.                      *)
LEMMA FaultDoneIso ==
  ASSUME MemInv, IsoInv, NEW t \in Threads, FaultDone(t), guest' = guest
  PROVE  IsoInv'
<1> DEFINE m == mm[t]
           p == fault[t].page
<1>1. /\ at[t] = "fault" /\ Translates(pt[m][p], fault[t].write)
      /\ fault' = [fault EXCEPT ![t] = NoFault]
      /\ IF fault[t].user
           THEN /\ content' = [content EXCEPT ![pt[m][p].data][pt[m][p].off] = fault[t].value]
                /\ val' = [val EXCEPT ![cell[m][p]] = fault[t].value]
           ELSE UNCHANGED <<content, val>>
      /\ UNCHANGED <<pt, refs, mm, cell>>
  BY DEF FaultDone
<1>2. m \in Mems /\ p \in Pages
  BY <1>1, HasMem, FaultTypes
<1>3. FaultWrites'
  <2>1. fault \in [Threads -> Faults] /\ NoFault.user = FALSE
    BY DEF MemInv, MemTypes, NoFault
  <2> QED  BY <1>1, <2>1 DEF IsoInv, FaultWrites
<1>4. CASE fault[t].user
  <2>1. Writable(pt[m][p])
    BY <1>1, <1>4 DEF Translates, IsoInv, FaultWrites
  <2> HIDE DEF m, p
  <2> DEFINE v == fault[t].value
  <2>2. /\ content' = [content EXCEPT ![pt[m][p].data][pt[m][p].off] = v]
        /\ val' = [val EXCEPT ![cell[m][p]] = v]
    BY <1>1, <1>4
  <2> HIDE DEF v
  <2>3. Isolation' /\ Contents'
    BY <1>1, <1>2, <2>1, <2>2, WriteIso
  <2> QED  BY <1>1, <1>3, <2>3 DEF IsoInv, UnprotectedForks, Idle, NoSharedCow, OwnCells, Aliases
<1>5. CASE ~fault[t].user
  BY <1>1, <1>3, <1>5, QuietIso
<1> QED  BY <1>4, <1>5

(* Running, trapping and faulting write nothing.                           *)
LEMMA ControlIso ==
  ASSUME MemInv, IsoInv, NEW t \in Threads, guest' = guest,
         \/ Run(t) \/ Interrupt(t) \/ FaultDenied(t) \/ FaultUnlocks(t) \/ ResolveQuietly(t)
         \/ \E p \in Pages, w \in BOOLEAN : Miss(t, p, w)
         \/ \E p \in Pages, v \in Values : UserWrite(t, p, v)
  PROVE  IsoInv'
<1>1. UNCHANGED <<pt, refs, content, mm, cell, val>>
  BY DEF Run, Interrupt, FaultDenied, FaultUnlocks, ResolveQuietly, Miss, UserWrite
<1>2. PICK f : fault' = fault \/ (fault' = [fault EXCEPT ![t] = f] /\ (f.user => f.write))
  <2>1. CASE Run(t) \/ Interrupt(t) \/ FaultUnlocks(t)
    BY <2>1 DEF Run, Interrupt, FaultUnlocks
  <2>2. CASE FaultDenied(t) \/ ResolveQuietly(t)
    <3>1. fault' = fault \/ fault' = [fault EXCEPT ![t] = NoFault]
      BY <2>2 DEF FaultDenied, ResolveQuietly
    <3>2. NoFault.user = FALSE
      BY DEF NoFault
    <3> QED  BY <3>1, <3>2
  <2>3. ASSUME NEW p \in Pages, NEW w \in BOOLEAN, Miss(t, p, w)
        PROVE  \E f : fault' = fault \/ (fault' = [fault EXCEPT ![t] = f] /\ (f.user => f.write))
    <3> DEFINE f == [page |-> p, write |-> w, user |-> FALSE, value |-> 0]
    <3>1. fault' = fault \/ fault' = [fault EXCEPT ![t] = f]
      BY <2>3 DEF Miss
    <3>2. f.user = FALSE
      OBVIOUS
    <3> HIDE DEF f
    <3> QED  BY <3>1, <3>2
  <2>4. ASSUME NEW p \in Pages, NEW v \in Values, UserWrite(t, p, v)
        PROVE  \E f : fault' = fault \/ (fault' = [fault EXCEPT ![t] = f] /\ (f.user => f.write))
    <3> DEFINE f == [page |-> p, write |-> TRUE, user |-> TRUE, value |-> v]
    <3>1. fault' = [fault EXCEPT ![t] = f]
      BY <2>4 DEF UserWrite
    <3>2. f.write = TRUE
      OBVIOUS
    <3> HIDE DEF f
    <3> QED  BY <3>1, <3>2
  <2> QED  BY <2>1, <2>2, <2>3, <2>4
<1>3. FaultWrites'
  <2>1. fault \in [Threads -> Faults]
    BY DEF MemInv, MemTypes
  <2> QED  BY <1>2, <2>1 DEF IsoInv, FaultWrites
<1> QED  BY <1>1, <1>3, QuietIso

(* Every step keeps what address spaces hold apart.                        *)
LEMMA NextIso ==
  ASSUME MemInv, MemInv', IsoInv, [Next]_vars
  PROVE  IsoInv'
<1>1. CASE Next
  <2>1. guest' = guest /\ guest.pages \subseteq Pages
    BY <1>1, MemoryAssumption DEF Next, MemInv, MemTypes, TypeOK
  <2>2. PICK t \in Threads :
          \/ \E ps \in SUBSET guest.pages \ {{}} :
               \/ \E flags \in SUBSET {"shared", "gd"} : Mmap(t, ps, flags)
               \/ Munmap(t, ps) \/ MremapShrinks(t, ps)
          \/ \E p, q \in guest.pages : MremapGrows(t, p, q)
          \/ \E p \in guest.pages, w \in BOOLEAN : Mprotect(t, p, w) \/ Miss(t, p, w)
          \/ \E u \in Threads : CloneVM(t, u) \/ \E n \in Mems : Fork(t, u, n)
          \/ Exit(t) \/ Run(t) \/ Interrupt(t)
          \/ \E p \in guest.pages, v \in Values \ {0} : Store(t, p, v) \/ UserWrite(t, p, v)
          \/ FaultDone(t) \/ FaultDenied(t) \/ FaultUnlocks(t)
          \/ ResolveQuietly(t) \/ ResolveStack(t) \/ ResolveCopy(t)
    BY <1>1 DEF Next, ThreadNext
  <2>3. ASSUME NEW ps \in SUBSET guest.pages,
               \/ \E flags \in SUBSET {"shared", "gd"} : Mmap(t, ps, flags)
               \/ Munmap(t, ps) \/ MremapShrinks(t, ps)
        PROVE  IsoInv'
    <3>1. ps \in SUBSET Pages
      BY <2>1
    <3> QED  BY <2>1, <2>3, <3>1, MmapIso, UnmapIso
  <2>4. ASSUME NEW p \in guest.pages, NEW q \in guest.pages, MremapGrows(t, p, q)
        PROVE  IsoInv'
    BY <2>1, <2>4, GrowsIso
  <2>5. ASSUME NEW p \in guest.pages, NEW w \in BOOLEAN, Mprotect(t, p, w) \/ Miss(t, p, w)
        PROVE  IsoInv'
    <3>1. p \in Pages
      BY <2>1
    <3>2. CASE Mprotect(t, p, w)
      BY <2>1, <3>1, <3>2, MprotectIso
    <3>3. CASE Miss(t, p, w)
      BY <2>1, <3>1, <3>3, ControlIso
    <3> QED  BY <2>5, <3>2, <3>3
  <2>6. ASSUME NEW u \in Threads, CloneVM(t, u) \/ \E n \in Mems : Fork(t, u, n)
        PROVE  IsoInv'
    BY <2>1, <2>6, CloneIso, ForkIso
  <2>7. ASSUME NEW p \in guest.pages, NEW v \in Values \ {0},
               Store(t, p, v) \/ UserWrite(t, p, v)
        PROVE  IsoInv'
    <3>1. p \in Pages /\ v \in Values
      BY <2>1
    <3>2. CASE Store(t, p, v)
      BY <2>1, <3>1, <3>2, StoreIso
    <3>3. CASE UserWrite(t, p, v)
      BY <2>1, <3>1, <3>3, ControlIso
    <3> QED  BY <2>7, <3>2, <3>3
  <2>8. CASE Exit(t) \/ FaultDone(t) \/ ResolveStack(t) \/ ResolveCopy(t)
    BY <2>1, <2>8, ExitIso, FaultDoneIso, StackIso, CopyIso
  <2>9. CASE Run(t) \/ Interrupt(t) \/ FaultDenied(t) \/ FaultUnlocks(t) \/ ResolveQuietly(t)
    BY <2>1, <2>9, ControlIso
  <2> QED  BY <2>2, <2>3, <2>4, <2>5, <2>6, <2>7, <2>8, <2>9
<1>2. CASE UNCHANGED vars
  <2>1. UNCHANGED <<guest, pt, refs, content, mm, cell, val, fault>>
    BY <1>2 DEF vars
  <2>2. FaultWrites'
    BY <2>1 DEF IsoInv, FaultWrites
  <2> QED  BY <2>1, <2>2, QuietIso
<1> QED  BY <1>1, <1>2

(* At first all is empty.                                                  *)
LEMMA InitIso == UnprotectedForks /\ Init => IsoInv
<1> SUFFICES ASSUME UnprotectedForks, Init PROVE IsoInv
  OBVIOUS
<1>1. \A m \in Mems, p \in Pages : pt[m][p] = None
  BY DEF Init
<1>2. Contents /\ FaultWrites
  BY DEF Init, Contents, FaultWrites, NoFault, Blank
<1>3. Idle /\ NoSharedCow /\ OwnCells /\ Aliases /\ Isolation
  BY <1>1 DEF Idle, NoSharedCow, OwnCells, Aliases, Isolation, Mapped, Has
<1> QED  BY <1>2, <1>3 DEF IsoInv

(* Where, besides, guests that fork do not call mprotect, every address    *)
(* space holds what its own guest wrote: copy on write as memory.h states  *)
(* it.                                                                     *)
THEOREM MemoryIsIsolated == LockedGuests /\ UnprotectedForks /\ Spec => []Isolation
<1>1. LockedGuests /\ UnprotectedForks /\ Init => MemInv /\ IsoInv
  BY InitInv, InitIso
<1>2. MemInv /\ IsoInv /\ [Next]_vars => MemInv' /\ IsoInv'
  BY NextInv, NextIso
<1>3. MemInv /\ IsoInv => Isolation
  BY DEF IsoInv
<1> QED  BY <1>1, <1>2, <1>3, PTL DEF Spec

-----------------------------------------------------------------------------
(* Translated blocks.  What the table of blocks must be, whoever runs.     *)
BlockRecs == [state : {"free", "live", "jetsam"}, addr : Addrs \cup {"none"},
              jump : [1 .. 2 -> Blocks \cup {Nil}], from : [1 .. 2 -> SUBSET Blocks]]

JumpsKept(bl) ==
  \A b \in Blocks, i \in 1 .. 2 : bl[b].jump[i] # Nil =>
    bl[b].state # "free" /\ bl[bl[b].jump[i]].state # "free"
JumpsFound(bl) ==
  \A b, c \in Blocks, i \in 1 .. 2 : bl[b].state = "live" /\ bl[b].jump[i] = c =>
    bl[c].state = "live" /\ b \in bl[c].from[i] /\ bl[c].addr = Jumps[bl[b].addr][i]
FromFound(bl) ==
  \A b, c \in Blocks, i \in 1 .. 2 : bl[b].state = "live" /\ c \in bl[b].from[i] =>
    bl[c].state = "live" /\ bl[c].jump[i] = b
OneBlock(bl) ==
  \A b, c \in Blocks :
    bl[b].state = "live" /\ bl[c].state = "live" /\ bl[b].addr = bl[c].addr => b = c

LinkedUp(bl) ==
  bl \in [Blocks -> BlockRecs] /\ JumpsKept(bl) /\ JumpsFound(bl) /\ FromFound(bl) /\ OneBlock(bl)

(* What a thread points at is not freed, it has a block where it needs     *)
(* one, and it has none outside of the loop: that is what jetsam_lock is   *)
(* good for.                                                               *)
ThreadRecs == [at : {"out", "loop", "chain", "run", "exit", "check", "want"},
               blk : Blocks \cup {Nil}, last : Blocks \cup {Nil}, ret : Blocks \cup {Nil},
               cache : [Addrs -> Blocks \cup {Nil}]]
ThreadSound(r, bl) ==
  /\ r.blk # Nil => bl[r.blk].state # "free"
  /\ r.last # Nil => bl[r.last].state # "free"
  /\ r.ret # Nil => bl[r.ret].state # "free"
  /\ \A a \in Addrs : r.cache[a] # Nil => bl[r.cache[a]].state # "free"
  /\ r.at \in {"out", "check", "want"} =>
       r.blk = Nil /\ r.last = Nil /\ r.ret = Nil /\ \A a \in Addrs : r.cache[a] = Nil
  /\ r.at = "chain" => r.blk # Nil
  /\ r.at = "run" => r.last # Nil

AsbInv ==
  /\ LinkedUp(asbBlock)
  /\ asbThread \in [AsbThreads -> ThreadRecs]
  /\ \A t \in AsbThreads : ThreadSound(asbThread[t], asbBlock)
  /\ asbCount = Cardinality(Having("live"))

LEMMA NoBlockIs ==
  /\ NoBlock \in BlockRecs /\ NoBlock.state = "free"
  /\ \A i \in 1 .. 2 : NoBlock.jump[i] = Nil /\ NoBlock.from[i] = {}
<1>1. <<Nil, Nil>> \in [1 .. 2 -> Blocks \cup {Nil}] /\ \A i \in 1 .. 2 : <<Nil, Nil>>[i] = Nil
  OBVIOUS
<1>2. <<{}, {}>> \in [1 .. 2 -> SUBSET Blocks] /\ \A i \in 1 .. 2 : <<{}, {}>>[i] = {}
  OBVIOUS
<1> QED BY <1>1, <1>2 DEF NoBlock, BlockRecs

LEMMA CompiledIs ==
  ASSUME NEW a \in Addrs
  PROVE  /\ Compiled(a) \in BlockRecs /\ Compiled(a).state = "live" /\ Compiled(a).addr = a
         /\ \A i \in 1 .. 2 : Compiled(a).jump[i] = Nil /\ Compiled(a).from[i] = {}
<1>1. NoBlock \in BlockRecs
  BY NoBlockIs
<1>2. Compiled(a).jump = NoBlock.jump /\ Compiled(a).from = NoBlock.from
  BY <1>1 DEF Compiled, BlockRecs
<1>3. Compiled(a) \in BlockRecs /\ Compiled(a).state = "live" /\ Compiled(a).addr = a
  BY <1>1 DEF Compiled, BlockRecs
<1> QED BY <1>2, <1>3, NoBlockIs

LEMMA OutsideIs ==
  ASSUME NEW place \in {"out", "loop", "check"}, NEW bl
  PROVE  Outside(place) \in ThreadRecs /\ ThreadSound(Outside(place), bl)
BY DEF Outside, ThreadRecs, ThreadSound

LEMMA AsbInitInv == AsbInit => AsbInv
<1> SUFFICES ASSUME AsbInit PROVE AsbInv
  OBVIOUS
<1>1. \A b \in Blocks : asbBlock[b] = NoBlock
  BY DEF AsbInit
<1>2. asbBlock \in [Blocks -> BlockRecs]
  BY NoBlockIs DEF AsbInit
<1>3. LinkedUp(asbBlock)
  BY <1>1, <1>2, NoBlockIs DEF LinkedUp, JumpsKept, JumpsFound, FromFound, OneBlock
<1>4. Having("live") = {}
  BY <1>1, NoBlockIs DEF Having
<1>5. asbThread \in [AsbThreads -> ThreadRecs] /\ \A t \in AsbThreads : ThreadSound(asbThread[t], asbBlock)
  BY OutsideIs DEF AsbInit
<1> QED BY <1>3, <1>4, <1>5, FS_EmptySet DEF AsbInv, AsbInit

(* A step of one thread that frees nothing.                                *)
LEMMA ThreadSteps ==
  ASSUME AsbInv, NEW t \in AsbThreads, NEW r \in ThreadRecs,
         asbThread' = [asbThread EXCEPT ![t] = r], ThreadSound(r, asbBlock'),
         \A b \in Blocks : asbBlock[b].state # "free" => asbBlock'[b].state # "free",
         LinkedUp(asbBlock'), asbCount' = Cardinality(Having("live")')
  PROVE  AsbInv'
<1>1. asbThread' \in [AsbThreads -> ThreadRecs]
  BY DEF AsbInv
<1>2. ASSUME NEW u \in AsbThreads PROVE ThreadSound(asbThread'[u], asbBlock')
  <2>1. CASE u = t
    BY <2>1 DEF AsbInv
  <2>2. CASE u # t
    <3>1. asbThread'[u] = asbThread[u] /\ asbThread[u] \in ThreadRecs
      BY <2>2 DEF AsbInv
    <3>2. ThreadSound(asbThread[u], asbBlock)
      BY DEF AsbInv
    <3> QED BY <3>1, <3>2 DEF ThreadSound, ThreadRecs
  <2> QED BY <2>1, <2>2
<1> QED BY <1>1, <1>2 DEF AsbInv

(* A step of one thread that leaves the blocks alone.                      *)
LEMMA ThreadMoves ==
  ASSUME AsbInv, NEW t \in AsbThreads, NEW r \in ThreadRecs,
         asbThread' = [asbThread EXCEPT ![t] = r], ThreadSound(r, asbBlock),
         UNCHANGED <<asbBlock, asbCount>>
  PROVE  AsbInv'
<1>1. LinkedUp(asbBlock') /\ asbCount' = Cardinality(Having("live")')
  BY DEF AsbInv, Having
<1>2. ThreadSound(r, asbBlock')
  OBVIOUS
<1> QED BY <1>1, <1>2, ThreadSteps

LEMMA ThreadIs ==
  ASSUME AsbInv, NEW t \in AsbThreads
  PROVE  asbThread[t] \in ThreadRecs /\ ThreadSound(asbThread[t], asbBlock)
BY DEF AsbInv

LEMMA EnterInv ==
  ASSUME AsbInv, NEW t \in AsbThreads, Enter(t)
  PROVE  AsbInv'
BY OutsideIs, ThreadMoves DEF Enter

LEMMA LeaveInv ==
  ASSUME AsbInv, NEW t \in AsbThreads, Leave(t)
  PROVE  AsbInv'
BY OutsideIs, ThreadMoves DEF Leave

LEMMA InterruptedInv ==
  ASSUME AsbInv, NEW t \in AsbThreads, Interrupted(t)
  PROVE  AsbInv'
<1> DEFINE r == [asbThread[t] EXCEPT !.at = "exit"]
<1>1. asbThread' = [asbThread EXCEPT ![t] = r] /\ UNCHANGED <<asbBlock, asbCount>>
  BY DEF Interrupted
<1>2. r \in ThreadRecs /\ ThreadSound(r, asbBlock)
  BY ThreadIs DEF ThreadRecs, ThreadSound
<1> HIDE DEF r
<1> QED BY <1>1, <1>2, ThreadMoves

LEMMA CheckInv ==
  ASSUME AsbInv, NEW t \in AsbThreads, Check(t)
  PROVE  AsbInv'
<1> DEFINE r == [asbThread[t] EXCEPT !.at = IF Having("jetsam") = {} THEN "out" ELSE "want"]
<1>1. asbThread' = [asbThread EXCEPT ![t] = r] /\ UNCHANGED <<asbBlock, asbCount>>
  BY DEF Check
<1>2. asbThread[t].at = "check"
  BY DEF Check
<1>3. r \in ThreadRecs /\ ThreadSound(r, asbBlock)
  BY <1>2, ThreadIs DEF ThreadRecs, ThreadSound
<1> HIDE DEF r
<1> QED BY <1>1, <1>3, ThreadMoves

(* A patched jump leads to a block that was not freed.                     *)
LEMMA JumpLeads ==
  ASSUME AsbInv, NEW b \in Blocks, NEW i \in 1 .. 2, asbBlock[b].jump[i] # Nil
  PROVE  /\ asbBlock[b].jump[i] \in Blocks /\ asbBlock[asbBlock[b].jump[i]].state # "free"
         /\ asbBlock[b].state # "free"
BY DEF AsbInv, LinkedUp, JumpsKept, BlockRecs

LEMMA JumpInv ==
  ASSUME AsbInv, NEW t \in AsbThreads, NEW i \in 1 .. 2, Jump(t, i)
  PROVE  AsbInv'
<1> DEFINE b == asbThread[t].last
           c == asbBlock[b].jump[i]
           r == [asbThread[t] EXCEPT !.last = IF c # Nil THEN c ELSE @,
                                     !.at = IF c # Nil THEN @ ELSE "loop",
                                     !.ret = IF asbBlock[b].addr \in Calls THEN b ELSE @]
<1>1. asbThread' = [asbThread EXCEPT ![t] = r] /\ UNCHANGED <<asbBlock, asbCount>>
  BY DEF Jump
<1>2. asbThread[t].at = "run" /\ b \in Blocks /\ b # Nil /\ asbBlock[b].state # "free"
  BY ThreadIs DEF Jump, ThreadSound, ThreadRecs
<1>3. c # Nil => c \in Blocks /\ asbBlock[c].state # "free"
  BY <1>2, JumpLeads
<1> HIDE DEF b, c
<1>4. r \in ThreadRecs
  BY <1>2, <1>3, ThreadIs DEF ThreadRecs
<1>5. ThreadSound(r, asbBlock)
  BY <1>2, <1>3, ThreadIs DEF ThreadRecs, ThreadSound, b
<1> HIDE DEF r
<1> QED BY <1>1, <1>4, <1>5, ThreadMoves

LEMMA ReturnInv ==
  ASSUME AsbInv, NEW t \in AsbThreads, Return(t)
  PROVE  AsbInv'
<1> DEFINE b == asbThread[t].ret
           c == asbBlock[b].jump[2]
           r == [asbThread[t] EXCEPT !.last = IF c # Nil THEN c ELSE b,
                                     !.at = IF c # Nil THEN @ ELSE "loop"]
<1>1. asbThread' = [asbThread EXCEPT ![t] = r] /\ UNCHANGED <<asbBlock, asbCount>>
  BY DEF Return
<1>2. asbThread[t].at = "run" /\ b \in Blocks /\ b # Nil /\ asbBlock[b].state # "free"
  BY ThreadIs DEF Return, ThreadSound, ThreadRecs
<1>3. c # Nil => c \in Blocks /\ asbBlock[c].state # "free"
  BY <1>2, JumpLeads
<1> HIDE DEF b, c
<1>4. r \in ThreadRecs
  BY <1>2, <1>3, ThreadIs DEF ThreadRecs
<1>5. ThreadSound(r, asbBlock)
  BY <1>2, <1>3, ThreadIs DEF ThreadRecs, ThreadSound, b
<1> HIDE DEF r
<1> QED BY <1>1, <1>4, <1>5, ThreadMoves

-----------------------------------------------------------------------------
LEMMA LiveFinite == IsFiniteSet(Having("live"))
BY AsbAssumption, FS_Subset DEF Having

LEMMA FetchInv ==
  ASSUME AsbInv, NEW t \in AsbThreads, NEW a \in Addrs, Fetch(t, a)
  PROVE  AsbInv'
<1> DEFINE hit == asbThread[t].cache[a]
           fresh == hit = Nil /\ Lookup(a) = {}
<1>1. PICK b \in Blocks :
        /\ IF hit # Nil THEN b = hit
           ELSE IF fresh THEN asbBlock[b].state = "free" ELSE b \in Lookup(a)
        /\ asbBlock' = IF fresh THEN [asbBlock EXCEPT ![b] = Compiled(a)] ELSE asbBlock
        /\ asbCount' = IF fresh THEN asbCount + 1 ELSE asbCount
        /\ asbThread' = [asbThread EXCEPT ![t].at = "chain", ![t].blk = b, ![t].cache[a] = b]
  BY DEF Fetch
<1> DEFINE r == [asbThread[t] EXCEPT !.at = "chain", !.blk = b, !.cache[a] = b]
<1>2. asbThread' = [asbThread EXCEPT ![t] = r]
  BY <1>1
<1>3. hit = Nil \/ asbBlock[hit].state # "free"
  BY ThreadIs DEF ThreadSound
<1>4. asbBlock \in [Blocks -> BlockRecs]
  BY DEF AsbInv, LinkedUp
<1>5. asbBlock'[b].state # "free"
  BY <1>1, <1>3, <1>4, CompiledIs DEF Lookup, Having
<1>6. \A c \in Blocks : asbBlock[c].state # "free" => asbBlock'[c].state # "free"
  BY <1>1, <1>4, CompiledIs
<1>7. r \in ThreadRecs
  BY ThreadIs DEF ThreadRecs
<1>8. ThreadSound(r, asbBlock')
  <2>1. asbThread[t] \in ThreadRecs /\ ThreadSound(asbThread[t], asbBlock)
    BY ThreadIs
  <2>2. b # Nil
    BY AsbAssumption
  <2> QED BY <1>5, <1>6, <2>1, <2>2 DEF ThreadSound, ThreadRecs
<1> HIDE DEF r
<1>9. LinkedUp(asbBlock')
  <2>1. CASE ~fresh
    BY <1>1, <2>1 DEF AsbInv
  <2>2. CASE fresh
    <3>1. /\ asbBlock[b].state = "free" /\ asbBlock' = [asbBlock EXCEPT ![b] = Compiled(a)]
          /\ asbBlock' \in [Blocks -> BlockRecs]
      BY <1>1, <1>4, <2>2, CompiledIs
    <3>2. \A c \in Blocks : asbBlock[c].state = "live" => asbBlock[c].addr # a
      BY <2>2 DEF Lookup, Having
    <3> HIDE DEF fresh
    <3>3. JumpsKept(asbBlock')
      BY <1>4, <3>1, CompiledIs DEF AsbInv, LinkedUp, JumpsKept, BlockRecs
    <3>4. JumpsFound(asbBlock')
      BY <1>4, <3>1, CompiledIs, AsbAssumption DEF AsbInv, LinkedUp, JumpsFound
    <3>5. FromFound(asbBlock')
      BY <1>4, <3>1, CompiledIs DEF AsbInv, LinkedUp, FromFound
    <3>6. OneBlock(asbBlock')
      BY <1>4, <3>1, <3>2, CompiledIs DEF AsbInv, LinkedUp, OneBlock
    <3> QED BY <3>1, <3>3, <3>4, <3>5, <3>6 DEF LinkedUp
  <2> QED BY <2>1, <2>2
<1>10. asbCount' = Cardinality(Having("live")')
  <2>1. CASE ~fresh
    BY <1>1, <2>1 DEF AsbInv, Having
  <2>2. CASE fresh
    <3>1. b \notin Having("live") /\ Having("live")' = Having("live") \cup {b}
      BY <1>1, <1>4, <2>2, CompiledIs DEF Having
    <3> QED BY <1>1, <2>2, <3>1, LiveFinite, FS_AddElement DEF AsbInv
  <2> QED BY <2>1, <2>2
<1> QED BY <1>2, <1>6, <1>7, <1>8, <1>9, <1>10, ThreadSteps

LEMMA ChainInv ==
  ASSUME AsbInv, NEW t \in AsbThreads, Chain(t)
  PROVE  AsbInv'
<1> DEFINE b == asbThread[t].blk
           last == asbThread[t].last
           r == [asbThread[t] EXCEPT !.at = "run", !.last = b, !.blk = Nil]
<1>1. asbThread' = [asbThread EXCEPT ![t] = r] /\ asbCount' = asbCount
  BY DEF Chain
<1>2. /\ b \in Blocks /\ b # Nil /\ asbBlock[b].state # "free"
      /\ last # Nil => last \in Blocks
  BY ThreadIs DEF Chain, ThreadSound, ThreadRecs
<1>3. r \in ThreadRecs
  BY <1>2, ThreadIs DEF ThreadRecs
<1>4. ThreadSound(r, asbBlock)
  BY <1>2, ThreadIs DEF ThreadRecs, ThreadSound
<1>5. CASE last = Nil \/ ~Chainable(last, b)
  <2>1. asbBlock' = asbBlock
    BY <1>5 DEF Chain
  <2> HIDE DEF r
  <2> QED BY <1>1, <1>3, <1>4, <2>1, ThreadMoves
<1>6. CASE ~(last = Nil \/ ~Chainable(last, b))
  <2>1. /\ last \in Blocks /\ asbBlock[last].state = "live" /\ asbBlock[b].state = "live"
        /\ asbBlock' = [c \in Blocks |->
              [asbBlock[c] EXCEPT
                 !.jump = [i \in 1..2 |-> IF c = last /\ i \in Patched(last, b) THEN b ELSE @[i]],
                 !.from = [i \in 1..2 |-> IF c = b /\ i \in Patched(last, b)
                                          THEN @[i] \cup {last} ELSE @[i]]]]
    BY <1>2, <1>6 DEF Chain, Chainable
  <2> DEFINE Pa == Patched(last, b)
  <2>2. \A i \in 1 .. 2 : i \in Pa =>
          Jumps[asbBlock[last].addr][i] = asbBlock[b].addr /\ asbBlock[last].jump[i] = Nil
    BY DEF Patched
  <2> HIDE DEF b, last, Pa
  <2>3. asbBlock \in [Blocks -> BlockRecs]
    BY DEF AsbInv, LinkedUp
  <2>4. ASSUME NEW c \in Blocks
        PROVE  /\ asbBlock'[c].state = asbBlock[c].state /\ asbBlock'[c].addr = asbBlock[c].addr
               /\ asbBlock'[c].jump = [i \in 1..2 |-> IF c = last /\ i \in Pa THEN b ELSE asbBlock[c].jump[i]]
               /\ asbBlock'[c].from = [i \in 1..2 |-> IF c = b /\ i \in Pa THEN asbBlock[c].from[i] \cup {last}
                                                                        ELSE asbBlock[c].from[i]]
               /\ asbBlock'[c] \in BlockRecs
    BY <1>2, <2>1, <2>3 DEF BlockRecs, Pa
  <2>5. asbBlock' \in [Blocks -> BlockRecs]
    BY <2>1, <2>4
  <2>6. \A c \in Blocks, i \in 1 .. 2 :
          /\ asbBlock'[c].jump[i] = IF c = last /\ i \in Pa THEN b ELSE asbBlock[c].jump[i]
          /\ asbBlock'[c].from[i] = IF c = b /\ i \in Pa THEN asbBlock[c].from[i] \cup {last}
                                                      ELSE asbBlock[c].from[i]
    BY <2>4
  <2>7. JumpsKept(asbBlock')
    <3> SUFFICES ASSUME NEW x \in Blocks, NEW i \in 1 .. 2, asbBlock'[x].jump[i] # Nil
                 PROVE  asbBlock'[x].state # "free" /\ asbBlock'[asbBlock'[x].jump[i]].state # "free"
      BY DEF JumpsKept
    <3>0. \A c \in Blocks : asbBlock'[c].state = asbBlock[c].state
      BY <2>4
    <3>1. CASE x = last /\ i \in Pa
      <4>1. asbBlock'[x].jump[i] = b
        BY <2>6, <3>1
      <4> QED BY <1>2, <2>1, <3>0, <3>1, <4>1
    <3>2. CASE ~(x = last /\ i \in Pa)
      <4>1. asbBlock'[x].jump[i] = asbBlock[x].jump[i]
        BY <2>6, <3>2
      <4>2. /\ asbBlock[x].jump[i] \in Blocks /\ asbBlock[x].state # "free"
            /\ asbBlock[asbBlock[x].jump[i]].state # "free"
        BY <4>1, JumpLeads
      <4> QED BY <3>0, <4>1, <4>2
    <3> QED BY <3>1, <3>2
  <2>8. JumpsFound(asbBlock')
    <3> SUFFICES ASSUME NEW x \in Blocks, NEW c \in Blocks, NEW i \in 1 .. 2,
                        asbBlock'[x].state = "live", asbBlock'[x].jump[i] = c
                 PROVE  /\ asbBlock'[c].state = "live" /\ x \in asbBlock'[c].from[i]
                        /\ asbBlock'[c].addr = Jumps[asbBlock'[x].addr][i]
      BY DEF JumpsFound
    <3>1. CASE x = last /\ i \in Pa
      <4>1. c = b
        BY <2>6, <3>1
      <4>2. last \in asbBlock'[b].from[i]
        BY <1>2, <2>6, <3>1
      <4>3. /\ asbBlock'[b].state = asbBlock[b].state /\ asbBlock'[b].addr = asbBlock[b].addr
            /\ asbBlock'[last].addr = asbBlock[last].addr
        BY <1>2, <2>1, <2>4
      <4> QED BY <2>1, <2>2, <3>1, <4>1, <4>2, <4>3
    <3>2. CASE ~(x = last /\ i \in Pa)
      <4>1. asbBlock[x].jump[i] = c /\ asbBlock[x].state = "live"
        BY <2>4, <2>6, <3>2
      <4>2. /\ asbBlock[c].state = "live" /\ x \in asbBlock[c].from[i]
            /\ asbBlock[c].addr = Jumps[asbBlock[x].addr][i]
        BY <4>1 DEF AsbInv, LinkedUp, JumpsFound
      <4>3. x \in asbBlock'[c].from[i]
        BY <2>6, <4>2
      <4> QED BY <2>4, <4>2, <4>3
    <3> QED BY <3>1, <3>2
  <2>9. FromFound(asbBlock')
    <3> SUFFICES ASSUME NEW x \in Blocks, NEW c \in Blocks, NEW i \in 1 .. 2,
                        asbBlock'[x].state = "live", c \in asbBlock'[x].from[i]
                 PROVE  asbBlock'[c].state = "live" /\ asbBlock'[c].jump[i] = x
      BY DEF FromFound
    <3>1. asbBlock[x].state = "live"
      BY <2>4
    <3>2. CASE c \in asbBlock[x].from[i]
      <4>1. asbBlock[c].state = "live" /\ asbBlock[c].jump[i] = x
        BY <3>1, <3>2 DEF AsbInv, LinkedUp, FromFound
      <4>2. ~(c = last /\ i \in Pa)
        BY <2>2, <4>1, AsbAssumption
      <4>3. asbBlock'[c].jump[i] = x
        BY <2>6, <4>1, <4>2
      <4> QED BY <2>4, <4>1, <4>3
    <3>3. CASE c \notin asbBlock[x].from[i]
      <4>1. c = last /\ x = b /\ i \in Pa
        BY <2>6, <3>3
      <4>2. asbBlock'[last].jump[i] = b
        BY <2>1, <2>6, <4>1
      <4>3. asbBlock'[last].state = asbBlock[last].state
        BY <2>1, <2>4
      <4> QED BY <2>1, <4>1, <4>2, <4>3
    <3> QED BY <3>2, <3>3
  <2>10. OneBlock(asbBlock')
    <3> SUFFICES ASSUME NEW x \in Blocks, NEW c \in Blocks, asbBlock'[x].state = "live",
                        asbBlock'[c].state = "live", asbBlock'[x].addr = asbBlock'[c].addr
                 PROVE  x = c
      BY DEF OneBlock
    <3>1. asbBlock[x].state = "live" /\ asbBlock[c].state = "live" /\ asbBlock[x].addr = asbBlock[c].addr
      BY <2>4
    <3> QED BY <3>1 DEF AsbInv, LinkedUp, OneBlock
  <2>11. Having("live")' = Having("live")
    BY <2>4 DEF Having
  <2>12. ThreadSound(r, asbBlock')
    <3>1. \A c \in Blocks : asbBlock'[c].state = asbBlock[c].state
      BY <2>4
    <3> HIDE DEF r
    <3> QED BY <1>3, <1>4, <3>1 DEF ThreadSound, ThreadRecs
  <2> HIDE DEF r
  <2>13. \A c \in Blocks : asbBlock[c].state # "free" => asbBlock'[c].state # "free"
    BY <2>4
  <2>14. LinkedUp(asbBlock')
    BY <2>5, <2>7, <2>8, <2>9, <2>10 DEF LinkedUp
  <2>15. asbCount' = Cardinality(Having("live")')
    BY <1>1, <2>11 DEF AsbInv
  <2> QED BY <1>1, <1>3, <2>12, <2>13, <2>14, <2>15, ThreadSteps
<1> QED BY <1>5, <1>6

-----------------------------------------------------------------------------
(* One block is disconnected: the others stay linked up.                   *)
LEMMA DisconnectedIs ==
  ASSUME NEW bl, LinkedUp(bl), NEW b \in Blocks, bl[b].state = "live"
  PROVE  /\ LinkedUp(Disconnected(bl, b))
         /\ \A c \in Blocks :
              /\ Disconnected(bl, b)[c].addr = bl[c].addr
              /\ Disconnected(bl, b)[c].state = IF c = b THEN "jetsam" ELSE bl[c].state
<1> DEFINE D == Disconnected(bl, b)
<1>1. bl \in [Blocks -> BlockRecs]
  BY DEF LinkedUp
<1>2. ASSUME NEW c \in Blocks
      PROVE  /\ D[c].state = IF c = b THEN "jetsam" ELSE bl[c].state
             /\ D[c].addr = bl[c].addr
             /\ D[c] \in BlockRecs
             /\ \A i \in 1 .. 2 :
                  /\ D[c].jump[i] = IF c # b /\ c \in bl[b].from[i] THEN Nil ELSE bl[c].jump[i]
                  /\ D[c].from[i] = IF c = b THEN {} ELSE bl[c].from[i] \ {b}
  <2>1. CASE c = b
    <3>1. D[c] = [bl[c] EXCEPT !.state = "jetsam", !.from = <<{}, {}>>]
      BY <2>1 DEF Disconnected
    <3>2. <<{}, {}>> \in [1 .. 2 -> SUBSET Blocks] /\ \A i \in 1 .. 2 : <<{}, {}>>[i] = {}
      OBVIOUS
    <3> HIDE DEF D
    <3>3. bl[c] \in BlockRecs
      BY <1>1
    <3>4. D[c].from = <<{}, {}>> /\ D[c].jump = bl[c].jump /\ D[c].state = "jetsam" /\ D[c].addr = bl[c].addr
      BY <3>1, <3>3 DEF BlockRecs
    <3>5. D[c] \in BlockRecs
      BY <3>1, <3>2, <3>3 DEF BlockRecs
    <3> QED BY <2>1, <3>2, <3>4, <3>5
  <2>2. CASE c # b
    <3>1. D[c] = [bl[c] EXCEPT
             !.jump = [i \in 1..2 |-> IF c \in bl[b].from[i] THEN Nil ELSE @[i]],
             !.from = [i \in 1..2 |-> @[i] \ {b}]]
      BY <2>2 DEF Disconnected
    <3> HIDE DEF D
    <3>2. bl[c] \in BlockRecs
      BY <1>1
    <3>3. /\ D[c].jump = [i \in 1..2 |-> IF c \in bl[b].from[i] THEN Nil ELSE bl[c].jump[i]]
          /\ D[c].from = [i \in 1..2 |-> bl[c].from[i] \ {b}]
          /\ D[c].state = bl[c].state /\ D[c].addr = bl[c].addr
      BY <3>1, <3>2 DEF BlockRecs
    <3> DEFINE j == [i \in 1..2 |-> IF c \in bl[b].from[i] THEN Nil ELSE bl[c].jump[i]]
               f == [i \in 1..2 |-> bl[c].from[i] \ {b}]
    <3>4. D[c] = [bl[c] EXCEPT !.jump = j, !.from = f]
      BY <3>1, <3>2 DEF BlockRecs
    <3>5. j \in [1 .. 2 -> Blocks \cup {Nil}] /\ f \in [1 .. 2 -> SUBSET Blocks]
      BY <3>2 DEF BlockRecs
    <3> HIDE DEF j, f
    <3>6. D[c] \in BlockRecs
      BY <3>2, <3>4, <3>5 DEF BlockRecs
    <3>7. \A i \in 1 .. 2 :
            /\ D[c].jump[i] = IF c \in bl[b].from[i] THEN Nil ELSE bl[c].jump[i]
            /\ D[c].from[i] = bl[c].from[i] \ {b}
      BY <3>3
    <3> QED BY <2>2, <3>3, <3>6, <3>7
  <2> QED BY <2>1, <2>2
<1>3. D \in [Blocks -> BlockRecs]
  <2>1. D = [c \in Blocks |-> D[c]]
    BY DEF Disconnected
  <2> HIDE DEF D
  <2> QED BY <1>2, <2>1
<1> HIDE DEF D
<1>4. JumpsKept(D)
  <2> SUFFICES ASSUME NEW x \in Blocks, NEW i \in 1 .. 2, D[x].jump[i] # Nil
               PROVE  D[x].state # "free" /\ D[D[x].jump[i]].state # "free"
    BY DEF JumpsKept
  <2>1. D[x].jump[i] = bl[x].jump[i]
    <3>1. D[x].jump[i] = IF x # b /\ x \in bl[b].from[i] THEN Nil ELSE bl[x].jump[i]
      BY <1>2
    <3> QED BY <3>1
  <2> DEFINE c == bl[x].jump[i]
  <2>2. c \in Blocks /\ bl[c].state # "free" /\ bl[x].state # "free"
    BY <1>1, <2>1 DEF LinkedUp, JumpsKept, BlockRecs
  <2> HIDE DEF c
  <2>3. \A y \in Blocks : D[y].state = IF y = b THEN "jetsam" ELSE bl[y].state
    BY <1>2
  <2>4. D[x].state # "free" /\ D[c].state # "free"
    BY <2>2, <2>3
  <2> QED BY <2>1, <2>4 DEF c
<1>5. JumpsFound(D)
  <2> SUFFICES ASSUME NEW x \in Blocks, NEW c \in Blocks, NEW i \in 1 .. 2,
                      D[x].state = "live", D[x].jump[i] = c
               PROVE  D[c].state = "live" /\ x \in D[c].from[i] /\ D[c].addr = Jumps[D[x].addr][i]
    BY DEF JumpsFound
  <2>1. x # b /\ bl[x].state = "live" /\ x \notin bl[b].from[i] /\ bl[x].jump[i] = c
    <3>1. /\ D[x].state = IF x = b THEN "jetsam" ELSE bl[x].state
          /\ D[x].jump[i] = IF x # b /\ x \in bl[b].from[i] THEN Nil ELSE bl[x].jump[i]
      BY <1>2
    <3>2. x # b
      BY <3>1
    <3>3. D[x].jump[i] # Nil
      BY AsbAssumption
    <3> QED BY <3>1, <3>2, <3>3
  <2>2. bl[c].state = "live" /\ x \in bl[c].from[i] /\ bl[c].addr = Jumps[bl[x].addr][i]
    BY <2>1 DEF LinkedUp, JumpsFound
  <2>3. c # b
    BY <2>1, <2>2
  <2>4. /\ D[c].state = IF c = b THEN "jetsam" ELSE bl[c].state
        /\ D[c].from[i] = IF c = b THEN {} ELSE bl[c].from[i] \ {b}
        /\ D[c].addr = bl[c].addr /\ D[x].addr = bl[x].addr
    BY <1>2
  <2>5. D[c].state = "live" /\ D[c].addr = Jumps[D[x].addr][i]
    BY <2>2, <2>3, <2>4
  <2>6. x \in D[c].from[i]
    BY <2>1, <2>2, <2>3, <2>4
  <2> QED BY <2>5, <2>6
<1>6. FromFound(D)
  <2> SUFFICES ASSUME NEW x \in Blocks, NEW c \in Blocks, NEW i \in 1 .. 2,
                      D[x].state = "live", c \in D[x].from[i]
               PROVE  D[c].state = "live" /\ D[c].jump[i] = x
    BY DEF FromFound
  <2>1. x # b /\ bl[x].state = "live" /\ c # b /\ c \in bl[x].from[i]
    <3>1. /\ D[x].state = IF x = b THEN "jetsam" ELSE bl[x].state
          /\ D[x].from[i] = IF x = b THEN {} ELSE bl[x].from[i] \ {b}
      BY <1>2
    <3> QED BY <3>1
  <2>2. bl[c].state = "live" /\ bl[c].jump[i] = x
    BY <2>1 DEF LinkedUp, FromFound
  <2>3. c \notin bl[b].from[i]
    BY <2>1, <2>2 DEF LinkedUp, FromFound
  <2>4. D[c].jump[i] = IF c # b /\ c \in bl[b].from[i] THEN Nil ELSE bl[c].jump[i]
    BY <1>2
  <2>5. D[c].state = IF c = b THEN "jetsam" ELSE bl[c].state
    BY <1>2
  <2> QED BY <2>1, <2>2, <2>3, <2>4, <2>5
<1>7. OneBlock(D)
  <2> SUFFICES ASSUME NEW x \in Blocks, NEW c \in Blocks,
                      D[x].state = "live", D[c].state = "live", D[x].addr = D[c].addr
               PROVE  x = c
    BY DEF OneBlock
  <2>1. bl[x].state = "live" /\ bl[c].state = "live" /\ bl[x].addr = bl[c].addr
    BY <1>2
  <2> QED BY <2>1 DEF LinkedUp, OneBlock
<1>8. LinkedUp(D)
  BY <1>3, <1>4, <1>5, <1>6, <1>7 DEF LinkedUp
<1> QED BY <1>2, <1>8 DEF D

(* A function that computes what disconnecting the blocks of a list, one   *)
(* after the other, has made of the table after i of them.                 *)
Disconnects(g, order, n) ==
  g = [i \in 0 .. n |-> IF i = 0 THEN asbBlock ELSE Disconnected(g[i - 1], order[i])]

(* The recursive function of AllDisconnected exists.                       *)
LEMMA DisconnectsExists ==
  ASSUME NEW order, NEW m \in Nat
  PROVE  \E g : Disconnects(g, order, m)
<1> DEFINE I == {n \in Nat : \E g : Disconnects(g, order, n)}
<1>1. 0 \in I
  <2>1. Disconnects([i \in 0 .. 0 |-> asbBlock], order, 0)
    BY DEF Disconnects
  <2> QED BY <2>1
<1>2. ASSUME NEW n \in Nat, n \in I PROVE n + 1 \in I
  <2>1. PICK g : Disconnects(g, order, n)
    BY <1>2
  <2> DEFINE h == [i \in 0 .. n + 1 |-> IF i <= n THEN g[i] ELSE Disconnected(g[i - 1], order[i])]
  <2>2. Disconnects(h, order, n + 1)
    <3>1. \A i \in 0 .. n : g[i] = IF i = 0 THEN asbBlock ELSE Disconnected(g[i - 1], order[i])
      BY <2>1 DEF Disconnects
    <3>2. ASSUME NEW i \in 0 .. n + 1
          PROVE  h[i] = IF i = 0 THEN asbBlock ELSE Disconnected(h[i - 1], order[i])
      BY <3>1
    <3>3. h = [i \in 0 .. n + 1 |-> h[i]]
      OBVIOUS
    <3> HIDE DEF h
    <3> QED BY <3>2, <3>3 DEF Disconnects
  <2> QED BY <2>2
<1>3. \A n \in Nat : n \in I
  <2> HIDE DEF I
  <2> QED BY <1>1, <1>2, SetInduction
<1> QED BY <1>3

(* Whatever the order, the blocks of the list are jetsam, the others are   *)
(* as they were, and all of them are linked up.                            *)
LEMMA AllDisconnectedIs ==
  ASSUME LinkedUp(asbBlock), NEW bs \in SUBSET Having("live"), NEW order \in SetToSeqs(bs)
  PROVE  /\ LinkedUp(AllDisconnected(order))
         /\ \A c \in Blocks : AllDisconnected(order)[c].state =
                               IF c \in bs THEN "jetsam" ELSE asbBlock[c].state
<1> DEFINE m == Cardinality(bs)
           g == CHOOSE f : Disconnects(f, order, Len(order))
<1>1. IsFiniteSet(bs) /\ m \in Nat
  BY LiveFinite, FS_Subset, FS_CardinalityType
<1>2. order \in [1 .. m -> bs] /\ \A i, j \in 1 .. m : i # j => order[i] # order[j]
  BY DEF SetToSeqs
<1>3. order \in Seq(bs) /\ Len(order) = m
  <2> HIDE DEF m
  <2> QED BY <1>1, <1>2, SeqDef, LenProperties
<1>4. \A c \in bs : \E i \in 1 .. m : order[i] = c
  <2>1. order \in Injection(1 .. m, bs)
    BY <1>2 DEF Injection, IsInjective
  <2>2. IsFiniteSet(1 .. m) /\ Cardinality(1 .. m) = m
    BY <1>1, FS_Interval
  <2>3. order \in Surjection(1 .. m, bs)
    BY <1>1, <2>1, <2>2, FS_Injection
  <2> QED BY <2>3 DEF Surjection
<1>5. Disconnects(g, order, m)
  BY <1>1, <1>3, DisconnectsExists
<1>6. AllDisconnected(order) = g[m]
  BY <1>3 DEF AllDisconnected, Disconnects
<1> HIDE DEF g, m
<1>7. \A i \in 0 .. m : g[i] = IF i = 0 THEN asbBlock ELSE Disconnected(g[i - 1], order[i])
  BY <1>5 DEF Disconnects
<1> DEFINE Gone(n) == {order[i] : i \in 1 .. n}
           P(n) == /\ LinkedUp(g[n])
                   /\ \A c \in Blocks : g[n][c].state = IF c \in Gone(n) THEN "jetsam" ELSE asbBlock[c].state
           I == {n \in Nat : P(n)}
<1>8. 0 \in I
  <2>1. Gone(0) = {}
    OBVIOUS
  <2>2. g[0] = asbBlock
    BY <1>1, <1>7
  <2> QED BY <2>1, <2>2
<1>9. ASSUME NEW n \in Nat, n < m, n \in I PROVE n + 1 \in I
  <2>1. P(n)
    BY <1>9
  <2> DEFINE b == order[n + 1]
  <2>2. g[n + 1] = Disconnected(g[n], b)
    BY <1>1, <1>7, <1>9
  <2>3. b \in bs /\ b \in Blocks /\ asbBlock[b].state = "live" /\ b \notin Gone(n)
    BY <1>1, <1>2, <1>9 DEF Having
  <2>4. Gone(n + 1) = Gone(n) \cup {b}
    BY <1>1, <1>9
  <2> HIDE DEF b, Gone
  <2>5. g[n][b].state = "live"
    BY <2>1, <2>3
  <2>6. LinkedUp(g[n + 1])
    BY <2>1, <2>2, <2>3, <2>5, DisconnectedIs
  <2>7. ASSUME NEW c \in Blocks
        PROVE  g[n + 1][c].state = IF c \in Gone(n + 1) THEN "jetsam" ELSE asbBlock[c].state
    <3>1. g[n + 1][c].state = IF c = b THEN "jetsam" ELSE g[n][c].state
      BY <2>1, <2>2, <2>3, <2>5, DisconnectedIs
    <3> QED BY <2>1, <2>4, <3>1
  <2> QED BY <2>6, <2>7
<1>10. P(m)
  <2> HIDE DEF P
  <2>1. \A n \in 0 .. m : n \in I
    <3> HIDE DEF I
    <3> QED BY <1>1, <1>8, <1>9, BoundedInduction
  <2> QED BY <1>1, <2>1
<1>11. Gone(m) = bs
  BY <1>2, <1>4
<1> QED BY <1>6, <1>10, <1>11

LEMMA InvalidateInv ==
  ASSUME AsbInv, NEW t \in AsbThreads, NEW page, Invalidate(t, page)
  PROVE  AsbInv'
<1> DEFINE bs == {b \in Having("live") : page \in PagesOf[asbBlock[b].addr]}
<1>1. PICK order \in SetToSeqs(bs) : asbBlock' = AllDisconnected(order)
  BY DEF Invalidate
<1>2. asbCount' = asbCount - Cardinality(bs) /\ asbThread' = asbThread
  BY DEF Invalidate
<1>3. bs \in SUBSET Having("live") /\ \A b \in bs : b \in Blocks /\ asbBlock[b].state = "live"
  BY DEF Having
<1> HIDE DEF bs
<1>4. /\ LinkedUp(asbBlock')
      /\ \A c \in Blocks : asbBlock'[c].state = IF c \in bs THEN "jetsam" ELSE asbBlock[c].state
  BY <1>1, <1>3, AllDisconnectedIs DEF AsbInv
<1>5. Having("live")' = Having("live") \ bs
  BY <1>3, <1>4 DEF Having
<1>6. Cardinality(Having("live") \ bs) = Cardinality(Having("live")) - Cardinality(bs)
  <2>1. Having("live") \cap bs = bs
    BY <1>3
  <2> QED BY <2>1, LiveFinite, FS_Difference
<1>7. asbCount' = Cardinality(Having("live")')
  BY <1>2, <1>5, <1>6 DEF AsbInv
<1>8. \A c \in Blocks : asbBlock[c].state # "free" => asbBlock'[c].state # "free"
  BY <1>4
<1>9. asbThread' = [asbThread EXCEPT ![t] = asbThread[t]]
  BY <1>2 DEF AsbInv
<1>10. asbThread[t] \in ThreadRecs /\ ThreadSound(asbThread[t], asbBlock')
  <2>1. asbThread[t] \in ThreadRecs /\ ThreadSound(asbThread[t], asbBlock)
    BY ThreadIs
  <2> QED BY <1>8, <2>1 DEF ThreadSound, ThreadRecs
<1> QED BY <1>4, <1>7, <1>8, <1>9, <1>10, ThreadSteps

(* Jetsam is freed when nobody holds jetsam_lock: no thread points at a    *)
(* block then, and only jetsam leads to jetsam.                            *)
LEMMA FreeJetsamInv ==
  ASSUME AsbInv, NEW t \in AsbThreads, FreeJetsam(t)
  PROVE  AsbInv'
<1>1. /\ asbBlock' = [b \in Blocks |-> IF b \in Having("jetsam") THEN NoBlock ELSE asbBlock[b]]
      /\ asbThread' = [asbThread EXCEPT ![t].at = "out"]
      /\ asbCount' = asbCount /\ asbThread[t].at = "want" /\ Executing = {}
  BY DEF FreeJetsam, AllOut
<1>2. asbBlock \in [Blocks -> BlockRecs]
  BY DEF AsbInv, LinkedUp
<1>3. ASSUME NEW b \in Blocks
      PROVE  IF asbBlock[b].state = "jetsam" THEN asbBlock'[b] = NoBlock ELSE asbBlock'[b] = asbBlock[b]
  BY <1>1 DEF Having
<1>4. asbBlock' \in [Blocks -> BlockRecs]
  BY <1>1, <1>2, NoBlockIs
<1>5. \A b \in Blocks : asbBlock[b].state = "live" => asbBlock'[b] = asbBlock[b]
  BY <1>3
<1>live. \A b \in Blocks : asbBlock'[b].state = "live" => asbBlock[b].state = "live"
  <2> SUFFICES ASSUME NEW b \in Blocks, asbBlock'[b].state = "live" PROVE asbBlock[b].state = "live"
    OBVIOUS
  <2>1. CASE asbBlock[b].state = "jetsam"
    BY <1>3, <2>1, NoBlockIs
  <2>2. CASE asbBlock[b].state # "jetsam"
    BY <1>3, <2>2
  <2> QED BY <2>1, <2>2
<1>6. JumpsKept(asbBlock')
  <2> SUFFICES ASSUME NEW b \in Blocks, NEW i \in 1 .. 2, asbBlock'[b].jump[i] # Nil
               PROVE  asbBlock'[b].state # "free" /\ asbBlock'[asbBlock'[b].jump[i]].state # "free"
    BY DEF JumpsKept
  <2>1. asbBlock'[b] = asbBlock[b] /\ asbBlock[b].state # "jetsam"
    BY <1>3, NoBlockIs
  <2> DEFINE c == asbBlock[b].jump[i]
  <2>2. c \in Blocks /\ asbBlock[b].state # "free"
    BY <2>1, JumpLeads
  <2>3. asbBlock[b].state = "live"
    BY <1>2, <2>1, <2>2 DEF BlockRecs
  <2>4. asbBlock[c].state = "live"
    BY <2>2, <2>3 DEF AsbInv, LinkedUp, JumpsFound
  <2>5. asbBlock'[c] = asbBlock[c]
    BY <1>5, <2>2, <2>4
  <2> QED BY <2>1, <2>2, <2>4, <2>5
<1>7. JumpsFound(asbBlock') /\ FromFound(asbBlock')
  <2> SUFFICES ASSUME NEW x \in Blocks, NEW c \in Blocks, NEW i \in 1 .. 2, asbBlock'[x].state = "live"
               PROVE  /\ asbBlock'[x].jump[i] = c =>
                           /\ asbBlock'[c].state = "live" /\ x \in asbBlock'[c].from[i]
                           /\ asbBlock'[c].addr = Jumps[asbBlock'[x].addr][i]
                      /\ c \in asbBlock'[x].from[i] =>
                           asbBlock'[c].state = "live" /\ asbBlock'[c].jump[i] = x
    BY DEF JumpsFound, FromFound
  <2>1. asbBlock[x].state = "live" /\ asbBlock'[x] = asbBlock[x]
    BY <1>5, <1>live
  <2>2. ASSUME asbBlock[x].jump[i] = c
        PROVE  /\ asbBlock[c].state = "live" /\ x \in asbBlock[c].from[i]
               /\ asbBlock[c].addr = Jumps[asbBlock[x].addr][i]
    BY <2>1, <2>2 DEF AsbInv, LinkedUp, JumpsFound
  <2>3. ASSUME c \in asbBlock[x].from[i]
        PROVE  asbBlock[c].state = "live" /\ asbBlock[c].jump[i] = x
    BY <2>1, <2>3 DEF AsbInv, LinkedUp, FromFound
  <2>4. asbBlock[c].state = "live" => asbBlock'[c] = asbBlock[c]
    BY <1>5
  <2> QED BY <2>1, <2>2, <2>3, <2>4
<1>one. OneBlock(asbBlock')
  <2> SUFFICES ASSUME NEW x \in Blocks, NEW c \in Blocks, asbBlock'[x].state = "live",
                      asbBlock'[c].state = "live", asbBlock'[x].addr = asbBlock'[c].addr
               PROVE  x = c
    BY DEF OneBlock
  <2>1. /\ asbBlock[x].state = "live" /\ asbBlock'[x] = asbBlock[x]
        /\ asbBlock[c].state = "live" /\ asbBlock'[c] = asbBlock[c]
    BY <1>5, <1>live
  <2> QED BY <2>1 DEF AsbInv, LinkedUp, OneBlock
<1>8. LinkedUp(asbBlock')
  BY <1>4, <1>6, <1>7, <1>one DEF LinkedUp
<1>9. Having("live")' = Having("live")
  <2>1. \A b \in Blocks : asbBlock'[b].state = "live" <=> asbBlock[b].state = "live"
    BY <1>5, <1>live
  <2> QED BY <2>1 DEF Having
<1>10. asbThread' \in [AsbThreads -> ThreadRecs]
  BY <1>1 DEF AsbInv, ThreadRecs
<1>11. ASSUME NEW u \in AsbThreads PROVE ThreadSound(asbThread'[u], asbBlock')
  <2>1. asbThread[u] \in ThreadRecs /\ ThreadSound(asbThread[u], asbBlock)
    BY ThreadIs
  <2>2. asbThread[u].at \in {"out", "check", "want"}
    BY <1>1, <2>1 DEF Executing, ThreadRecs
  <2>3. /\ asbThread'[u].at \in {"out", "check", "want"} /\ asbThread'[u].blk = asbThread[u].blk
        /\ asbThread'[u].last = asbThread[u].last /\ asbThread'[u].ret = asbThread[u].ret
        /\ asbThread'[u].cache = asbThread[u].cache
    BY <1>1, <2>1, <2>2 DEF AsbInv, ThreadRecs
  <2> QED BY <2>1, <2>2, <2>3 DEF ThreadSound
<1> QED BY <1>1, <1>8, <1>9, <1>10, <1>11 DEF AsbInv

LEMMA AsbNextInv == AsbInv /\ [AsbNext]_asbVars => AsbInv'
<1> SUFFICES ASSUME AsbInv, [AsbNext]_asbVars PROVE AsbInv'
  OBVIOUS
<1>1. CASE UNCHANGED asbVars
  BY <1>1 DEF asbVars, AsbInv, Having
<1>2. ASSUME NEW t \in AsbThreads,
             Enter(t) \/ Chain(t) \/ Return(t) \/ Interrupted(t) \/ Leave(t) \/ Check(t) \/ FreeJetsam(t)
      PROVE  AsbInv'
  BY <1>2, EnterInv, ChainInv, ReturnInv, InterruptedInv, LeaveInv, CheckInv, FreeJetsamInv
<1>3. ASSUME NEW t \in AsbThreads, NEW a \in Addrs, Fetch(t, a) PROVE AsbInv'
  BY <1>3, FetchInv
<1>4. ASSUME NEW t \in AsbThreads, NEW i \in 1 .. 2, Jump(t, i) PROVE AsbInv'
  BY <1>4, JumpInv
<1>5. ASSUME NEW t \in AsbThreads, NEW page, Invalidate(t, page) PROVE AsbInv'
  BY <1>5, InvalidateInv
<1> QED BY <1>1, <1>2, <1>3, <1>4, <1>5 DEF AsbNext

LEMMA AsbInvSafe == AsbInv => AsbSafe
<1> SUFFICES ASSUME AsbInv PROVE AsbSafe
  OBVIOUS
<1>1. NothingDangles
  <2>1. ASSUME NEW t \in AsbThreads,
               NEW b \in ({asbThread[t].blk, asbThread[t].last, asbThread[t].ret}
                            \cup {asbThread[t].cache[a] : a \in Addrs}) \ {Nil}
        PROVE  asbBlock[b].state # "free"
    BY ThreadIs DEF ThreadSound
  <2> QED BY <2>1, JumpLeads DEF NothingDangles
<1>2. LinksExact
  <2>1. ASSUME NEW b \in Having("live"), NEW i \in 1 .. 2, asbBlock[b].jump[i] # Nil
        PROVE  /\ asbBlock[b].jump[i] \in Having("live") /\ b \in asbBlock[asbBlock[b].jump[i]].from[i]
               /\ asbBlock[asbBlock[b].jump[i]].addr = Jumps[asbBlock[b].addr][i]
    <3>1. b \in Blocks /\ asbBlock[b].state = "live"
      BY DEF Having
    <3>2. asbBlock[b].jump[i] \in Blocks
      BY <2>1, <3>1, JumpLeads
    <3> QED BY <3>1, <3>2 DEF Having, AsbInv, LinkedUp, JumpsFound
  <2>2. ASSUME NEW b \in Having("live"), NEW i \in 1 .. 2, NEW c \in asbBlock[b].from[i]
        PROVE  asbBlock[c].state = "live" /\ asbBlock[c].jump[i] = b
    <3>1. b \in Blocks /\ asbBlock[b].state = "live"
      BY DEF Having
    <3>2. c \in Blocks
      BY <3>1 DEF AsbInv, LinkedUp, BlockRecs
    <3> QED BY <3>1, <3>2 DEF AsbInv, LinkedUp, FromFound
  <2> QED BY <2>1, <2>2 DEF LinksExact
<1>3. ASSUME NEW a \in Addrs PROVE Cardinality(Lookup(a)) <= 1
  <2>1. CASE Lookup(a) = {}
    BY <2>1, FS_EmptySet
  <2>2. CASE Lookup(a) # {}
    <3>1. PICK b \in Lookup(a) : TRUE
      BY <2>2
    <3>2. Lookup(a) = {b}
      BY <3>1 DEF Lookup, Having, AsbInv, LinkedUp, OneBlock
    <3> QED BY <3>2, FS_Singleton
  <2> QED BY <2>1, <2>2
<1> QED BY <1>1, <1>2, <1>3 DEF AsbSafe, TableExact, AsbInv

(* No thread reaches a freed block, an invalidated block is reached from   *)
(* no block that can still be found, and an address has one block          *)
(* (asbestos/asbestos.c), for any number of threads, blocks and addresses. *)
THEOREM BlocksAreSafe == AsbSpec => []AsbSafe
BY AsbInitInv, AsbNextInv, AsbInvSafe, PTL DEF AsbSpec
=============================================================================
