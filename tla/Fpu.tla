-------------------------------- MODULE Fpu --------------------------------
(***************************************************************************)
(* The x87 unit of emu/fpu.c: eight registers addressed relative to top,   *)
(* the status and control words, and the rounding mode.  Arithmetic takes  *)
(* its rounding mode not from the control word but from a variable of the  *)
(* host thread (f80_rounding_mode), which only fldcw sets.                 *)
(*                                                                         *)
(* What the arithmetic computes is Float80's business: here a value is one *)
(* of a small set, Minus stands for any operation that tells its operands  *)
(* apart, and a comparison may have any outcome.                           *)
(***************************************************************************)
EXTENDS Integers, Sequences

CONSTANTS FpRegs,    \* number of registers, a power of two (8 in the code)
          FpVals,    \* values of a register: 0..n
          RcModes    \* rounding modes; 0 is what a new host thread has

Indices == 0..FpRegs - 1
Outcomes == {"gt", "lt", "eq", "un"}

VARIABLES
  fpu,     \* fp (registers), top, rc: the part of cpu_state
  fpMode,  \* f80_rounding_mode of the host thread
  fpFlags, \* outcome of the last fcomi: cf, zf and pf
  fpMem,   \* what fsave last stored
  fpList,  \* the stack as a program sees it: st(0), st(1), ...
  fpMemo,  \* fpList at the last fsave
  fpStale  \* the mode of the host thread was not set with the control word

fpuVars == <<fpu, fpMode, fpFlags, fpMem, fpList, fpMemo, fpStale>>

Zeroes == [fp |-> [r \in Indices |-> 0], top |-> 0, rc |-> 0]

FpuInit ==
  /\ fpu = Zeroes /\ fpMem = Zeroes
  /\ fpMode = 0 /\ fpFlags = "gt" /\ fpStale = FALSE
  /\ fpList = [i \in 1..FpRegs |-> 0]
  /\ fpMemo = [i \in 1..FpRegs |-> 0]

\* ST(i), and the register file with ST(i) set to v.
Reg(f, i) == (f.top + i) % FpRegs
ST(i) == fpu.fp[Reg(fpu, i)]
SetST(f, i, v) == [f EXCEPT !.fp[Reg(f, i)] = v]

Turned(f, n) == [f EXCEPT !.top = (@ + n) % FpRegs]
PushedFirst(f, v) == Turned(SetST(f, 0, v), -1)
Pushed(f, v) == SetST(Turned(f, -1), 0, v)
Popped(f) == Turned(f, 1)

\* The same on the list: a push loses the deepest value, a pop turns the list.
Push(l, v) == <<v>> \o SubSeq(l, 1, FpRegs - 1)
Pop(l) == Tail(l) \o <<Head(l)>>

Mem == UNCHANGED <<fpMem, fpMemo>>
Ctl == UNCHANGED <<fpMode, fpFlags, fpStale>>

-----------------------------------------------------------------------------
(* Instructions.                                                           *)

\* fld st(i), fild, fld m, fld1 and the other constants.
Load(v) ==
  /\ fpu' = Pushed(fpu, v)
  /\ fpList' = Push(fpList, v)
  /\ Ctl /\ Mem

LoadReg(i) ==
  /\ fpu' = Pushed(fpu, ST(i))
  /\ fpList' = Push(fpList, fpList[i + 1])
  /\ Ctl /\ Mem

\* fstp st(i): fpu_st, then fpu_pop; fincstp turns the stack alone.
StorePop(i) ==
  /\ fpu' = Popped(SetST(fpu, i, ST(0)))
  /\ fpList' = Pop([fpList EXCEPT ![i + 1] = fpList[1]])
  /\ Ctl /\ Mem

Incstp == fpu' = Popped(fpu) /\ fpList' = Pop(fpList) /\ Ctl /\ Mem

Xch(i) ==
  /\ fpu' = SetST(SetST(fpu, 0, ST(i)), i, ST(0))
  /\ fpList' = [fpList EXCEPT ![1] = fpList[i + 1], ![i + 1] = fpList[1]]
  /\ Ctl /\ Mem

\* fadd, fsub, fmul, fdiv and their reversed forms, between registers or with
\* memory: one operand is replaced by the result.
Minus(x, y) == IF y = 0 THEN x ELSE 0
Results(x, y) == {Minus(x, y), Minus(y, x)}

Arith(src, dst) ==
  /\ \E v \in Results(ST(dst), ST(src)) :
       /\ v \in Results(fpList[dst + 1], fpList[src + 1])
       /\ fpu' = SetST(fpu, dst, v)
       /\ fpList' = [fpList EXCEPT ![dst + 1] = v]
  /\ Ctl /\ Mem

\* fyl2x and fpatan leave their result in st(1) and pop; fxtract replaces st(0)
\* by the exponent and pushes the significand; the others work on st(0) alone.
BinaryPop(v) ==
  /\ fpu' = Popped(SetST(fpu, 1, v))
  /\ fpList' = Pop([fpList EXCEPT ![2] = v])
  /\ Ctl /\ Mem

Xtract(e, s) ==
  /\ fpu' = Pushed(SetST(fpu, 0, e), s)
  /\ fpList' = Push([fpList EXCEPT ![1] = e], s)
  /\ Ctl /\ Mem

Unary(v) ==
  /\ fpu' = SetST(fpu, 0, v)
  /\ fpList' = [fpList EXCEPT ![1] = v]
  /\ Ctl /\ Mem

\* fcomi: cf, zf and pf; fcmovcc moves st(i) to st(0) on one of their conditions.
Compare(o) == fpFlags' = o /\ UNCHANGED <<fpu, fpMode, fpMem, fpList, fpMemo, fpStale>>

Conditions == [b |-> {"lt", "un"}, e |-> {"eq", "un"}, be |-> {"lt", "eq", "un"}, u |-> {"un"}]

Cmov(cc, negated, i) ==
  /\ (fpFlags \in Conditions[cc]) # negated
  /\ fpu' = SetST(fpu, 0, ST(i))
  /\ fpList' = [fpList EXCEPT ![1] = fpList[i + 1]]
  /\ Ctl /\ Mem

\* fldcw: the control word and with it the mode of the host thread.
Ldcw(m) ==
  /\ fpu' = [fpu EXCEPT !.rc = m] /\ fpMode' = m /\ fpStale' = FALSE
  /\ UNCHANGED <<fpFlags, fpList>> /\ Mem

\* fsave (fpu_save32): the words and the registers counted from top.
Saved(f) == [f EXCEPT !.fp = [i \in Indices |-> f.fp[Reg(f, i)]]]
Save ==
  /\ fpMem' = Saved(fpu) /\ fpMemo' = fpList
  /\ UNCHANGED <<fpu, fpMode, fpFlags, fpList, fpStale>>

\* frstor (fpu_restore32): the words first, so the registers are counted from
\* the restored top.  The mode of the host thread is not touched.
RestoredOld(f) == [f EXCEPT !.fp = [r \in Indices |-> f.fp[(r - fpu.top) % FpRegs]]]
Restored(f) == [f EXCEPT !.fp = [r \in Indices |-> f.fp[(r - f.top) % FpRegs]]]
Restore ==
  /\ fpu' = Restored(fpMem) /\ fpList' = fpMemo
  /\ fpStale' = (fpStale \/ fpMem.rc # fpMode)
  /\ UNCHANGED <<fpMode, fpFlags>> /\ Mem

\* fldenv: the two words alone; the status word moves top under the registers.
Ldenv(t, m) ==
  LET n == (t - fpu.top) % FpRegs IN
  /\ fpu' = [fpu EXCEPT !.top = t, !.rc = m]
  /\ fpList' = SubSeq(fpList, n + 1, FpRegs) \o SubSeq(fpList, 1, n)
  /\ fpStale' = (fpStale \/ m # fpMode)
  /\ UNCHANGED <<fpMode, fpFlags>> /\ Mem

\* execve sets the control word to round to nearest, on the same host thread.
ExecResets ==
  /\ fpu' = [fpu EXCEPT !.rc = 0]
  /\ fpStale' = (fpStale \/ fpMode # 0)
  /\ UNCHANGED <<fpMode, fpFlags, fpList>> /\ Mem

\* clone: the child has the registers and the words, on a new host thread.
NewThread ==
  /\ fpMode' = 0
  /\ fpStale' = (fpStale \/ fpu.rc # 0)
  /\ UNCHANGED <<fpu, fpFlags, fpList>> /\ Mem

\* fscale reads its exponent with chopping and puts the mode back.
Scale(v) ==
  LET old == fpMode IN
  /\ fpMode' = old
  /\ fpu' = SetST(fpu, 0, v) /\ fpList' = [fpList EXCEPT ![1] = v]
  /\ UNCHANGED <<fpFlags, fpStale>> /\ Mem

FpuNext ==
  \/ \E v \in FpVals : Load(v) \/ BinaryPop(v) \/ Unary(v) \/ Scale(v)
  \/ \E e, s \in FpVals : Xtract(e, s)
  \/ \E i \in Indices : LoadReg(i) \/ StorePop(i) \/ Xch(i)
  \/ \E i \in Indices : Arith(i, 0) \/ Arith(0, i)
  \/ \E o \in Outcomes : Compare(o)
  \/ \E cc \in DOMAIN Conditions, n \in BOOLEAN, i \in Indices : Cmov(cc, n, i)
  \/ \E m \in RcModes : Ldcw(m) \/ \E t \in Indices : Ldenv(t, m)
  \/ ExecResets \/ Incstp \/ Save \/ Restore \/ NewThread

FpuSpec == FpuInit /\ [][FpuNext]_fpuVars

-----------------------------------------------------------------------------
(* Properties.                                                             *)

FpuTypeOK ==
  /\ fpu \in [fp : [Indices -> FpVals], top : Indices, rc : RcModes]
  /\ fpMode \in RcModes /\ fpFlags \in Outcomes

\* The registers, read from top around the ring, are the stack the program sees,
\* now and in the image that fsave stored.
StackExact ==
  /\ \A i \in Indices : ST(i) = fpList[i + 1]
  /\ \A i \in Indices : fpMem.fp[i] = fpMemo[i + 1]

\* Arithmetic rounds the way the control word says, unless the control word
\* came with frstor, fldenv or execve, or the thread was created with it.
ModeFollows == fpStale \/ fpMode = fpu.rc

\* The register stack and the rounding mode are the ones the program asked for.
FpuSafe == FpuTypeOK /\ StackExact /\ ModeFollows
=============================================================================
