-------------------------------- MODULE Exec --------------------------------
(***************************************************************************)
(* What kernel/exec.c computes when a program is started, as functions:    *)
(* the memory the program headers of an ELF file give (load_entry), the    *)
(* layout of the initial stack (the second half of elf_exec), and the      *)
(* arguments a "#!" line leads to (shebang_exec).  Process has execve as   *)
(* a step of a process.                                                    *)
(***************************************************************************)
EXTENDS Integers, Sequences, SequencesExt

CONSTANTS PageBytes,   \* PAGE_SIZE (4096 in the code)
          MemBytes,    \* addresses that are followed (bound)
          FileBytes,   \* length of the ELF file
          StackTop,    \* 0xffffe000: where the stack starts
          ArgvMax,     \* ARGV_MAX: bytes of the buffers for argv and envp
          LineBytes    \* what shebang_exec reads of a file (127 in the code)

Unmapped == -1
PageOf(a) == a \div PageBytes
PgOffset(a) == a % PageBytes
PagesUp(n) == (n + PageBytes - 1) \div PageBytes

\* A byte of the file, never zero; past its end a mapping reads zeroes.
FileByte(o) == IF o \in 0..FileBytes - 1 THEN o + 1 ELSE 0

-----------------------------------------------------------------------------
(* load_entry.  A program header ph: vaddr, offset, filesize, memsize, w.  *)

MapFile(mem, page, pages, off) ==
  [a \in DOMAIN mem |->
     IF PageOf(a) \in page..page + pages - 1 THEN FileByte(off + a - page * PageBytes) ELSE mem[a]]
MapNothing(mem, page, pages) ==
  [a \in DOMAIN mem |-> IF PageOf(a) \in page..page + pages - 1 THEN 0 ELSE mem[a]]
UserMemset(mem, start, len) ==
  [a \in DOMAIN mem |-> IF a \in start..start + len - 1 THEN 0 ELSE mem[a]]

\* The bytes from the end of the file's part to the end of its page.
TailUnwrapped(fileEnd) == PageBytes - PgOffset(fileEnd)
TailSize(fileEnd) == IF PgOffset(fileEnd) = 0 THEN 0 ELSE PageBytes - PgOffset(fileEnd)

LoadEntry(mem, ph, bias) ==
  LET addr == ph.vaddr + bias
      mapped == MapFile(mem, PageOf(addr), PagesUp(ph.filesize + PgOffset(addr)), ph.offset - PgOffset(addr))
      bss == ph.memsize - ph.filesize
      fileEnd == addr + ph.filesize
      tail == TailSize(fileEnd)
      \* user_memset fails on a page that is not writable, which nobody notices
      zeroed == IF ph.w THEN UserMemset(mapped, fileEnd, tail) ELSE mapped
      rest == bss - IF tail > bss THEN bss ELSE tail IN
  IF bss = 0 THEN mapped
  ELSE IF rest = 0 THEN zeroed
  ELSE MapNothing(zeroed, PagesUp(fileEnd), PagesUp(rest))

\* The loop over the program headers, with the start of the heap.
LoadAll(phs, bias) ==
  FoldLeft(LAMBDA m, ph : LoadEntry(m, ph, bias), [a \in 0..MemBytes - 1 |-> Unmapped], phs)

StartBrk(phs, bias) ==
  FoldLeft(LAMBDA brk, ph : LET b == bias + ph.vaddr + ph.memsize IN
                            IF b > brk THEN PagesUp(b) * PageBytes ELSE brk, 0, phs)

\* The interpreter's headers are loaded from the last to the first.
LoadInterp(phs, base) == LoadAll(Reverse(phs), base)

\* find_hole_for_elf: the pages from the first header to the end of the last.
HolePages(phs) == PagesUp(Last(phs).vaddr + Last(phs).memsize) - PageOf(Head(phs).vaddr)

\* Headers as a linker makes them: in order, each on pages of its own, at an
\* offset congruent to its address, with some of the file in its first page;
\* only a writable one has memory beyond its part of the file.
WellFormed(phs) ==
  /\ \A i \in DOMAIN phs :
       /\ phs[i].filesize <= phs[i].memsize
       /\ PgOffset(phs[i].vaddr) = PgOffset(phs[i].offset)
       /\ phs[i].filesize + PgOffset(phs[i].vaddr) > 0
       /\ phs[i].memsize > phs[i].filesize => phs[i].w
       /\ phs[i].offset + phs[i].filesize <= FileBytes
  /\ \A i, j \in DOMAIN phs :
       i < j => PagesUp(phs[i].vaddr + phs[i].memsize) <= PageOf(phs[j].vaddr)

\* Every byte of every header is the file's byte or zero, as the header says,
\* whatever page boundaries its three ends fall on; the heap starts above them
\* on a page of its own, and the hole that is looked for holds them all.
LoadExact(phs, bias) ==
  WellFormed(phs) =>
    /\ \A i \in DOMAIN phs : \A k \in 0..phs[i].memsize - 1 :
         LET at == phs[i].vaddr + bias + k IN
         LoadAll(phs, bias)[at] = LoadInterp(phs, bias)[at]
         /\ LoadAll(phs, bias)[at] = IF k < phs[i].filesize THEN FileByte(phs[i].offset + k) ELSE 0
    /\ StartBrk(phs, bias) % PageBytes = 0
    /\ \A i \in DOMAIN phs :
         /\ phs[i].vaddr + bias + phs[i].memsize <= StartBrk(phs, bias)
         /\ PagesUp(phs[i].vaddr + phs[i].memsize) - PageOf(Head(phs).vaddr) <= HolePages(phs)

-----------------------------------------------------------------------------
(* The arguments and the stack.  Strings are given by their lengths without *)
(* the terminator.                                                          *)

SumOf(lens) == FoldLeft(LAMBDA s, n : s + n + 1, 0, lens)
ArgsSize(lens) == SumOf(lens) + 1

\* user_read_string_array: E2BIG unless the strings and a last terminator fit.
Readable(lens) == SumOf(lens) < ArgvMax

\* do_execve counts the environment up to its first empty string.
Counted(lens) ==
  IF \E i \in DOMAIN lens : lens[i] = 0
  THEN SubSeq(lens, 1, (CHOOSE i \in DOMAIN lens : lens[i] = 0 /\ \A j \in 1..i - 1 : lens[j] # 0) - 1)
  ELSE lens
Align16(sp) == sp - (sp % 16)
AuxBytes == 21 * 8

\* Addresses of consecutive strings from base, as user_strlen walks them.
Walk(base, lens) == [i \in DOMAIN lens |-> base + SumOf(SubSeq(lens, 1, i - 1))]

Stack(file, environment, argv) ==
  LET envp == Counted(environment)
      fileAddr == StackTop - 8 - (file + 1)
      envpAddr == fileAddr - ArgsSize(envp)
      argvAddr == envpAddr - ArgsSize(argv)
      platform == Align16(argvAddr) - 5
      random == platform - 16
      sp == Align16(random - (Len(argv) + 1 + Len(envp) + 1 + 1) * 4 - AuxBytes) IN
  [sp |-> sp, random |-> random, platform |-> platform,
   file |-> fileAddr, argv |-> Walk(argvAddr, argv), envp |-> Walk(envpAddr, envp),
   auxStart |-> sp + 4 + (Len(argv) + 1) * 4 + (Len(envp) + 1) * 4]

\* What was read fits its buffer; the stack pointer is aligned, the vectors end
\* below the random bytes they lie under, and no string overlaps another or
\* reaches past the top.
StackExact(file, environment, argv) ==
  LET s == Stack(file, environment, argv)
      envp == Counted(environment)
      strings == {<<s.file, file>>, <<s.platform, 4>>, <<s.random, 15>>}
                   \cup {<<s.argv[i], argv[i]>> : i \in DOMAIN argv}
                   \cup {<<s.envp[i], envp[i]>> : i \in DOMAIN envp} IN
  Readable(argv) /\ Readable(environment) =>
  /\ ArgsSize(argv) <= ArgvMax /\ ArgsSize(envp) <= ArgvMax
  /\ s.sp % 16 = 0
  /\ s.auxStart + AuxBytes <= s.random
  /\ \A x \in strings : s.random <= x[1] /\ x[1] + x[2] + 1 <= StackTop
  /\ \A x, y \in strings : x = y \/ x[1] + x[2] < y[1] \/ y[1] + y[2] < x[1]

-----------------------------------------------------------------------------
(* shebang_exec.  The first line, without its newline, as characters.      *)

NoExec == <<"ENOEXEC">>
ArgsTooBig == <<"E2BIG">>
Lens(strings) == [i \in DOMAIN strings |-> Len(strings[i])]

\* while (*p == ' ') p++, and the same for other characters, from position p.
Skip(line, p, blank) ==
  IF \E q \in p..Len(line) : (line[q] = " ") # blank
  THEN CHOOSE q \in p..Len(line) :
         (line[q] = " ") # blank /\ \A r \in p..q - 1 : (line[r] = " ") = blank
  ELSE Len(line) + 1

\* Trailing blanks are stripped backwards, but not past where the argument starts.
StripOne(line, start) == Len(line) - IF line # <<>> /\ Last(line) = " " THEN 1 ELSE 0
StripEnd(line, start) ==
  IF \E q \in start..Len(line) : line[q] # " "
  THEN CHOOSE q \in start..Len(line) : line[q] # " " /\ \A r \in q + 1..Len(line) : line[r] = " "
  ELSE start - 1

ShebangArgs(line, file, argv) ==
  LET start == Skip(line, 3, TRUE)
      end == Skip(line, start, FALSE)
      argStart == Skip(line, end, TRUE)
      argument == SubSeq(line, argStart, StripEnd(line, argStart))
      extra == <<SubSeq(line, start, end - 1)>> \o (IF argument = <<>> THEN <<>> ELSE <<argument>>) \o <<file>> IN
  IF Len(line) >= LineBytes \/ Len(line) < 2 \/ SubSeq(line, 1, 2) # <<"#", "!">> \/ start > Len(line)
  THEN NoExec
  ELSE IF ArgsSize(Lens(Tail(argv))) + SumOf(Lens(extra)) >= ArgvMax THEN ArgsTooBig
  ELSE extra \o Tail(argv)

\* A script runs as its interpreter with at most one argument, the rest of the
\* line without the blanks around it, then the script and the arguments it was
\* given, all within the buffer; the blanks of the line may be anywhere.
Words(line) == {<<i, j>> \in (3..Len(line)) \X (3..Len(line)) :
                  /\ i <= j /\ \A k \in i..j : line[k] # " "
                  /\ i = 3 \/ line[i - 1] = " "
                  /\ j = Len(line) \/ line[j + 1] = " "}
ShebangExact(line, file, argv) ==
  LET args == ShebangArgs(line, file, argv)
      ws == Words(line)
      first == CHOOSE w \in ws : \A v \in ws : w[1] <= v[1]
      last == CHOOSE w \in ws : \A v \in ws : w[2] >= v[2]
      second == CHOOSE w \in ws \ {first} : \A v \in ws \ {first} : w[1] <= v[1]
      expected == <<SubSeq(line, first[1], first[2])>>
                    \o (IF ws = {first} THEN <<>> ELSE <<SubSeq(line, second[1], last[2])>>)
                    \o <<file>> \o Tail(argv) IN
  IF Len(line) < 2 \/ line[1] # "#" \/ line[2] # "!" \/ ws = {} THEN args = NoExec
  ELSE \/ args = expected /\ ArgsSize(Lens(args)) <= ArgvMax
       \/ args = ArgsTooBig /\ ArgsSize(Lens(expected)) >= ArgvMax
       \/ args = NoExec /\ Len(line) >= LineBytes
=============================================================================
