------------------------------ MODULE MCMemory ------------------------------
(* Memory and the CPU that works on it: address spaces, translated blocks  *)
(* of code, the FPU and the arithmetic of its registers.  One part runs    *)
(* per behaviour; the others stay in their initial states.                 *)
EXTENDS Memory, Asbestos, Fpu, Float80, Vec

CONSTANT Parts
VARIABLES part,
          operation   \* input of the functions of float80.c, vec.c and mmx.c

Guest(pages, calls) == [pages |-> pages, calls |-> calls]

(* Threads and processes around one page; pages shared by MAP_SHARED;      *)
(* system calls that write to the guest; one thread with two pages and the *)
(* calls that are unsound only in company (mprotect after fork, mremap     *)
(* with threads).                                                          *)
AllGuests == {Guest({1}, {"fork", "clone", "mmap", "munmap"}),
              Guest({1}, {"fork", "mmap", "shared"}),
              Guest({1}, {"fork", "mmap", "write"}),
              Guest({1, 2}, {"mmap", "stack", "munmap", "mprotect", "mremap"})}
Protecting == {Guest({1}, {"fork", "mmap", "mprotect", "write"})}

(* A block that ends in a jump and one with two ways on; the second lies   *)
(* on two pages, one of them that of the first.                            *)
TwoJumps == "a" :> <<"b", "none">> @@ "b" :> <<"a", "b">>
TwoPages == "a" :> {1} @@ "b" :> {1, 2}

(* Every pair of finite numbers and rounding mode; every lane operation on *)
(* every pair of small lanes and on wide ones near the limits, counts      *)
(* included; every unpack, shuffle and pack with its registers different   *)
(* or equal, packs of runs of lanes across every limit.                    *)
Limits(n) == UNION {{x - 1, x, x + 1} :
                      x \in {0, Bits(n), Span(1), 2^(Bits(2) - 1), Span(2), 2^(Bits(n) - 1), Span(n)}}
LaneValues(n) == IF n = 4 THEN Limits(4) \cap 0..Span(4) - 1 ELSE 0..Span(n) - 1
Registers(m, starts) ==
  {RegOf(m, LAMBDA i : (a + i * step) % Span(m)) : a \in starts, step \in {1, 3}}
Starts(m) == {0, Span(m \div 2) \div 2 - 2, Span(m) \div 2 - 2, Span(m) - Span(m \div 2) \div 2 - 2, Span(m) - 3}
PackInputs == [ssw |-> Registers(2, Starts(2)), suw |-> Registers(2, Starts(2)), ssd |-> Registers(4, Starts(4))]
Operations(kind) ==
  CASE kind = "float" -> Modes \X Finite \X Finite
    [] kind = "lane" -> UNION {{op} \X LaneValues(op[2]) \X LaneValues(op[2]) :
                                 op \in XmmOps \cup XmmMore \cup MmOps \cup MmMore}
    [] kind = "unpack" -> Unpacks \X BOOLEAN
    [] kind = "shuffle" -> (0..255) \X BOOLEAN
    [] kind = "pack" -> UNION {{k} \X PackInputs[k] \X PackInputs[k] \X BOOLEAN : k \in DOMAIN PackInputs}
    [] kind = "compare" -> (-1..1 \cup {NaN}) \X (-1..1 \cup {NaN})

MCInit ==
  /\ part \in Parts /\ Init /\ AsbInit /\ FpuInit
  /\ IF part = "arithmetic"
     THEN \E k \in {"float", "lane", "unpack", "shuffle", "pack", "compare"} :
            \E x \in Operations(k) : operation = <<k>> \o x
     ELSE operation = <<>>
  /\ part # "memory" => guest = CHOOSE g \in Guests : TRUE

MCNext ==
  /\ UNCHANGED <<part, operation>>
  /\ \/ part = "memory" /\ Next /\ UNCHANGED <<asbVars, fpuVars>>
     \/ part = "asbestos" /\ AsbNext /\ UNCHANGED <<vars, fpuVars>>
     \/ part = "fpu" /\ FpuNext /\ UNCHANGED <<vars, asbVars>>

(* The registers hold what the instructions mean.  The FPU stack of        *)
(* emu/fpu.c does at any point of a program.  What emu/float80.c computes  *)
(* is next to the exact result always, and correctly rounded with the      *)
(* exceptions FloatExact names.  The lanes of emu/vec.c and emu/mmx.c      *)
(* saturate, wrap and move as the manual says, also when source and        *)
(* destination are one register, except for shift counts of more than a    *)
(* byte (CountCut) and for six bytes of a register packed into itself      *)
(* (PackedTwice).                                                          *)
ArithmeticExact ==
  /\ FpuSafe
  /\ part = "arithmetic" =>
    CASE operation[1] = "float" -> FloatExact(operation[2], operation[3], operation[4])
      [] operation[1] = "lane" -> LanesExact(operation[2], operation[3], operation[4])
      [] operation[1] = "unpack" -> UnpackExact(operation[2], operation[3])
      [] operation[1] = "shuffle" -> ShuffleExact(operation[2], operation[3])
      [] operation[1] = "pack" -> PackExact(operation[2], operation[3], operation[4], operation[5])
      [] operation[1] = "compare" -> ComparesAgree(operation[2], operation[3]) /\ DoublesKept
=============================================================================
