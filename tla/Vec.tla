-------------------------------- MODULE Vec --------------------------------
(***************************************************************************)
(* The vector instructions of emu/vec.c and emu/mmx.c, as functions on     *)
(* registers of small bytes.  A register is read as lanes of 1, 2, 4 or 8  *)
(* bytes.  The source of an instruction may be its destination ("alias"):  *)
(* the helpers that write the destination piece by piece then read what    *)
(* they have already written.                                              *)
(***************************************************************************)
EXTENDS Integers, Sequences, SequencesExt

CONSTANT ByteBits      \* bits of a byte (8 in the code)

Bits(n) == n * ByteBits
Span(n) == 2^Bits(n)
SignedLane(n, x) == IF x >= 2^(Bits(n) - 1) THEN x - Span(n) ELSE x

-----------------------------------------------------------------------------
(* Saturation, by comparisons on unsigned values.                          *)

\* satsw, satud, satsb: from lanes of m bytes to lanes of n, both signed.
SatAbove(m, n, x) == IF x > 2^(Bits(n) - 1) - 1 THEN 2^(Bits(n) - 1) - 1 ELSE x
Sat(m, n, x) ==
  IF x > Span(m) - 2^(Bits(n) - 1) THEN x % Span(n)
  ELSE IF x > 2^(Bits(m) - 1) - 1 THEN 2^(Bits(n) - 1)
  ELSE IF x > 2^(Bits(n) - 1) - 1 THEN 2^(Bits(n) - 1) - 1
  ELSE x

\* satub: from signed words to unsigned bytes.
SatU(x) ==
  IF x >= 2^(Bits(2) - 1) THEN 0 ELSE IF x > Span(1) - 1 THEN Span(1) - 1 ELSE x

-----------------------------------------------------------------------------
(* Operations on one lane of n bytes: d of the destination, s of the source, *)
(* which for a shift is the count, a number that may need more than a byte.  *)

Wrap(n, x) == x % Span(n)
Mask(n, b) == IF b THEN Span(n) - 1 ELSE 0
Add(n, d, s) == Wrap(n, d + s)
Sub(n, d, s) == Wrap(n, d - s)
CompareEq(n, d, s) == Mask(n, d = s)
CompareGt(n, d, s) == Mask(n, SignedLane(n, d) > SignedLane(n, s))

\* _SHIFT, for the logical shifts.  The amount is the count's first byte.
Amount(s) == s % Span(1)
ShiftR(n, d, amount) == IF amount > Bits(n) - 1 THEN 0 ELSE d \div 2^amount
ShiftL(n, d, amount) == IF amount > Bits(n) - 1 THEN 0 ELSE Wrap(n, d * 2^amount)
ShiftRs(n, d, amount) ==
  IF amount > Bits(n) - 1 THEN Mask(n, d \div 2^(Bits(n) - 1) = 1)
  ELSE Wrap(n, SignedLane(n, d) \div 2^amount)

AddUs(n, d, s) == IF d + s > Span(n) - 1 THEN Span(n) - 1 ELSE d + s
AddSs(n, d, s) == Sat(4, n, Wrap(4, SignedLane(n, d) + SignedLane(n, s)))
SubUs(n, d, s) == IF d - s < 0 THEN 0 ELSE d - s
SubSs(n, d, s) == Sat(4, n, Wrap(4, SignedLane(n, d) - SignedLane(n, s)))

MinU(n, d, s) == IF s < d THEN s ELSE d
MaxU(n, d, s) == IF s > d THEN s ELSE d
MinS(n, d, s) == IF SignedLane(n, d) < SignedLane(n, s) THEN d ELSE s
MaxS(n, d, s) == IF SignedLane(n, d) > SignedLane(n, s) THEN d ELSE s
Avg(n, d, s) == (1 + d + s) \div 2
MulL(n, d, s) == Wrap(n, d * s)
MulH(n, d, s) == (Wrap(4, SignedLane(n, d) * SignedLane(n, s)) \div Span(2)) % Span(2)
MulUH(n, d, s) == (Wrap(4, d * s) \div Span(2)) % Span(2)

\* Which operation exists for which lanes, in each file.
XmmOps == {<<o, n>> : o \in {"add", "sub"}, n \in {1, 2, 4}}
            \cup {<<o, n>> : o \in {"eq", "gt"}, n \in {1, 2, 4}}
            \cup {<<o, n>> : o \in {"shiftr", "shiftl"}, n \in {2, 4}}
XmmMore == {<<o, n>> : o \in {"addus", "addss", "subus", "subss", "avg"}, n \in {1, 2}}
             \cup {<<"shiftrs", 2>>, <<"shiftrs", 4>>, <<"minu", 1>>, <<"maxu", 1>>}
             \cup {<<o, 2>> : o \in {"mins", "maxs", "mull", "mulh", "muluh"}}
MmOps == {<<o, n>> : o \in {"add", "sub", "eq", "gt"}, n \in {1, 2, 4}}
           \cup {<<o, n>> : o \in {"shiftr", "shiftl"}, n \in {2, 4}}
MmMore == {<<"shiftrs", 2>>, <<"shiftrs", 4>>, <<"mulh", 2>>, <<"mull", 2>>}

LaneOp(o, n, d, s) ==
  CASE o = "add" -> Add(n, d, s) [] o = "sub" -> Sub(n, d, s)
    [] o = "eq" -> CompareEq(n, d, s) [] o = "gt" -> CompareGt(n, d, s)
    [] o = "shiftr" -> ShiftR(n, d, Amount(s)) [] o = "shiftl" -> ShiftL(n, d, Amount(s))
    [] o = "shiftrs" -> ShiftRs(n, d, Amount(s))
    [] o = "addus" -> AddUs(n, d, s) [] o = "addss" -> AddSs(n, d, s)
    [] o = "subus" -> SubUs(n, d, s) [] o = "subss" -> SubSs(n, d, s)
    [] o = "minu" -> MinU(n, d, s) [] o = "maxu" -> MaxU(n, d, s)
    [] o = "mins" -> MinS(n, d, s) [] o = "maxs" -> MaxS(n, d, s)
    [] o = "avg" -> Avg(n, d, s) [] o = "mull" -> MulL(n, d, s)
    [] o = "mulh" -> MulH(n, d, s) [] o = "muluh" -> MulUH(n, d, s)

\* What the instruction means, on exact integers; a shift is by the whole count.
Clamp(lo, hi, x) == IF x < lo THEN lo ELSE IF x > hi THEN hi ELSE x
ClampS(n, x) == Wrap(n, Clamp(-(2^(Bits(n) - 1)), 2^(Bits(n) - 1) - 1, x))
ClampU(n, x) == Clamp(0, Span(n) - 1, x)
Meaning(o, n, d, s) ==
  LET sd == SignedLane(n, d)
      ss == SignedLane(n, s)
      power == 2^s
      out == s >= Bits(n) IN
  CASE o = "add" -> Wrap(n, sd + ss) [] o = "sub" -> Wrap(n, sd - ss)
    [] o = "eq" -> Mask(n, sd = ss) [] o = "gt" -> Mask(n, sd > ss)
    [] o = "shiftr" -> IF out THEN 0 ELSE d \div power
    [] o = "shiftl" -> IF out THEN 0 ELSE Wrap(n, d * power)
    [] o = "shiftrs" -> IF out THEN Mask(n, sd < 0) ELSE Wrap(n, sd \div power)
    [] o = "addus" -> ClampU(n, d + s) [] o = "addss" -> ClampS(n, sd + ss)
    [] o = "subus" -> ClampU(n, d - s) [] o = "subss" -> ClampS(n, sd - ss)
    [] o = "minu" -> Clamp(0, s, d) [] o = "maxu" -> Clamp(s, Span(n), d)
    [] o = "mins" -> Wrap(n, IF sd < ss THEN sd ELSE ss) [] o = "maxs" -> Wrap(n, IF sd > ss THEN sd ELSE ss)
    [] o = "avg" -> (d \div 2) + (s \div 2) + (IF d % 2 = 1 \/ s % 2 = 1 THEN 1 ELSE 0)
    [] o = "mull" -> Wrap(n, sd * ss) [] o = "mulh" -> Wrap(n, (sd * ss) \div Span(n))
    [] o = "muluh" -> (d * s) \div Span(n)

\* The known difference: a count in a register that needs more than one byte.
CountCut(o, s) == o \in {"shiftr", "shiftl", "shiftrs"} /\ s >= Span(1)

\* On every pair of lanes each operation of both files gives what its
\* instruction means: wraparound, saturation and the signs are right at every
\* boundary, and shifts by more than the lane.  Only a count of more than a byte
\* shifts by its first byte instead.
LanesExact(op, d, s) ==
  op \in XmmOps \cup XmmMore \cup MmOps \cup MmMore =>
    LaneOp(op[1], op[2], d, s) =
      Meaning(op[1], op[2], d, IF CountCut(op[1], s) THEN Amount(s) ELSE s)

-----------------------------------------------------------------------------
(* Stores, one after the other.  A store writes lane "to" (of n bytes) with *)
(* lane "from" of "who": d and s are the registers as they are at the time,  *)
(* D and S copies made before the first store.                              *)

Move(n, to, who, from) == [n |-> n, to |-> to, who |-> who, from |-> from]
InLane(n, i, k) == k \div n = i

RunMoves(moves, d, s, alias) ==
  FoldLeft(LAMBDA r, m :
             LET read == CASE m.who = "d" -> r [] m.who = "s" -> IF alias THEN r ELSE s
                           [] m.who = "D" -> d [] m.who = "S" -> IF alias THEN d ELSE s IN
             [k \in DOMAIN r |-> IF InLane(m.n, m.to, k) THEN read[m.from * m.n + (k % m.n)] ELSE r[k]],
           d, moves)

\* vec_unpackl_bw128, _w128 go down; dq, ps and the quadword forms are written out.
UnpackLUp(n) == FlattenSeq([k \in 1..8 \div n |-> <<Move(n, 2 * k - 1, "s", k - 1), Move(n, 2 * k - 2, "d", k - 1)>>])
UnpackL(n) == FlattenSeq([k \in 1..8 \div n |-> LET i == (8 \div n) - k IN
                             <<Move(n, 2 * i + 1, "s", i), Move(n, 2 * i, "d", i)>>])
UnpackLDq == <<Move(4, 3, "s", 1), Move(4, 2, "d", 1), Move(4, 1, "s", 0)>>
UnpackLPs == <<Move(4, 2, "D", 1), Move(4, 1, "S", 0), Move(4, 3, "S", 1)>>
UnpackLQ == <<Move(8, 1, "s", 0)>>
UnpackH(n) == FlattenSeq([k \in 1..8 \div n |->
                            <<Move(n, 2 * k - 2, "d", k - 1 + (8 \div n)), Move(n, 2 * k - 1, "s", k - 1 + (8 \div n))>>])
UnpackHD == <<Move(4, 0, "d", 2), Move(4, 1, "s", 2), Move(4, 2, "d", 3), Move(4, 3, "s", 3)>>
UnpackHQ == <<Move(8, 0, "d", 1), Move(8, 1, "s", 1)>>

Unpacks == {[moves |-> UnpackL(1), n |-> 1, half |-> 0], [moves |-> UnpackL(2), n |-> 2, half |-> 0],
            [moves |-> UnpackLDq, n |-> 4, half |-> 0], [moves |-> UnpackLPs, n |-> 4, half |-> 0],
            [moves |-> UnpackLQ, n |-> 8, half |-> 0],
            [moves |-> UnpackH(1), n |-> 1, half |-> 1], [moves |-> UnpackH(2), n |-> 2, half |-> 1],
            [moves |-> UnpackHD, n |-> 4, half |-> 1], [moves |-> UnpackHQ, n |-> 8, half |-> 1]}

\* Two bits of the encoding choose each lane.
Choice(enc, i) == (enc \div 4^i) % 4
ShuffleLw(enc) == [k \in 1..4 |-> Move(2, k - 1, "S", Choice(enc, k - 1))] \o <<Move(8, 1, "s", 1)>>
ShuffleHw(enc) == <<Move(8, 0, "s", 0)>> \o [k \in 1..4 |-> Move(2, k + 3, "S", Choice(enc, k - 1) + 4)]
ShuffleD(enc) == [k \in 1..4 |-> Move(4, k - 1, "S", Choice(enc, k - 1))]
ShufflePs(enc) == [k \in 1..4 |-> Move(4, k - 1, IF k <= 2 THEN "D" ELSE "S", Choice(enc, k - 1))]
ShufflePd(enc) == <<Move(8, 0, "D", enc % 2), Move(8, 1, "S", (enc \div 2) % 2)>>
ShuffleW64(enc) == [k \in 1..4 |-> Move(2, k - 1, "S", Choice(enc, k - 1))]

\* A lane that no instruction moves may be told by where it came from.
TagsD(bytes) == [k \in 0..bytes - 1 |-> <<"d", k>>]
TagsS(bytes) == [k \in 0..bytes - 1 |-> <<"s", k>>]
LaneAt(r, n, i) == [k \in 0..n - 1 |-> r[n * i + k]]

\* Also when the destination is the source, unpacking interleaves the halves as
\* they were, the destination's lane first.
UnpackExact(u, alias) ==
  LET d == TagsD(16)
      s == IF alias THEN d ELSE TagsS(16)
      r == RunMoves(u.moves, d, s, alias) IN
  \A i \in 0..(8 \div u.n) - 1 :
    /\ LaneAt(r, u.n, 2 * i) = LaneAt(d, u.n, i + u.half * (8 \div u.n))
    /\ LaneAt(r, u.n, 2 * i + 1) = LaneAt(s, u.n, i + u.half * (8 \div u.n))

\* The same for shuffles: every chosen lane is the lane as it was.
ShuffleExact(enc, alias) ==
  LET d == TagsD(16)
      s == IF alias THEN d ELSE TagsS(16)
      Of(moves) == RunMoves(moves, d, s, alias) IN
  /\ \A i \in 0..3 : /\ LaneAt(Of(ShuffleLw(enc)), 2, i) = LaneAt(s, 2, Choice(enc, i))
                     /\ LaneAt(Of(ShuffleLw(enc)), 2, i + 4) = LaneAt(s, 2, i + 4)
                     /\ LaneAt(Of(ShuffleHw(enc)), 2, i + 4) = LaneAt(s, 2, Choice(enc, i) + 4)
                     /\ LaneAt(Of(ShuffleHw(enc)), 2, i) = LaneAt(s, 2, i)
                     /\ LaneAt(Of(ShuffleD(enc)), 4, i) = LaneAt(s, 4, Choice(enc, i))
                     /\ LaneAt(Of(ShufflePs(enc)), 4, i) = LaneAt(IF i < 2 THEN d ELSE s, 4, Choice(enc, i))
                     /\ LaneAt(Of(ShuffleW64(enc)), 2, i) = LaneAt(s, 2, Choice(enc, i))
  /\ LaneAt(Of(ShufflePd(enc)), 8, 0) = LaneAt(d, 8, enc % 2)
  /\ LaneAt(Of(ShufflePd(enc)), 8, 1) = LaneAt(s, 8, (enc \div 2) % 2)

-----------------------------------------------------------------------------
(* Packing: four doublewords, each made of the lanes read when it is stored. *)
(* A register is a sequence of numbers by lane of m bytes.                   *)

Num(r, m, i) == FoldLeft(LAMBDA x, k : x * Span(1) + r[m * i + m - k], 0, [k \in 1..m |-> k])
RegOf(m, lane(_)) == [k \in 0..15 |-> (lane(k \div m) \div Span(1)^(k % m)) % Span(1)]

PackConv(kind, x) ==
  CASE kind = "ssw" -> Sat(2, 1, x) [] kind = "ssd" -> Sat(4, 2, x) [] kind = "suw" -> SatU(x)
PackLane(kind) == IF kind = "ssd" THEN 4 ELSE 2

\* Doubleword w takes 4 \div (m \div 2) lanes, from r for w < 2 and from src after.
PackStore(kind, r, src, w) ==
  LET m == PackLane(kind)
      n == m \div 2
      first == (w % 2) * (4 \div n)
      value(j) == PackConv(kind, Num(IF w < 2 THEN r ELSE src, m, first + j)) IN
  [k \in DOMAIN r |-> IF InLane(4, w, k)
                      THEN LET b == k % 4 IN (value(b \div n) \div Span(1)^(b % n)) % Span(1)
                      ELSE r[k]]

Pack(kind, d, s, alias) ==
  FoldLeft(LAMBDA r, w : PackStore(kind, r, IF alias THEN r ELSE s, w), d, <<0, 1, 2, 3>>)

PackMeaning(kind, d, s) ==
  LET m == PackLane(kind)
      n == m \div 2
      lanes == 16 \div m
      exact(x) == IF kind = "suw" THEN ClampU(n, SignedLane(m, x)) ELSE ClampS(n, SignedLane(m, x))
      lane(i) == exact(IF i < lanes THEN Num(d, m, i) ELSE Num(s, m, i - lanes)) IN
  RegOf(n, lane)

\* The known difference: packing a register into itself reads for the upper half
\* lanes that were stored before, all but the last one.
PackedTwice(alias) == IF alias THEN 8 .. 13 ELSE {}

\* Packing saturates every lane and keeps their order, with two registers in all of
\* the result, with one in its lower half and its last lane.
PackExact(kind, d, s, alias) ==
  LET own == IF alias THEN d ELSE s
      r == Pack(kind, d, own, alias) IN
  \A k \in 0..15 \ PackedTwice(alias) : r[k] = PackMeaning(kind, d, own)[k]

-----------------------------------------------------------------------------
(* Comparisons of floating-point values: an order and NaN.                 *)

NaN == 1000      \* no ordered value in use
IsNaN(a) == a = NaN
Less(a, b) == ~IsNaN(a) /\ ~IsNaN(b) /\ a < b
Same(a, b) == ~IsNaN(a) /\ ~IsNaN(b) /\ a = b

\* cmpd and cmps.
FCmp(a, b, type) ==
  LET res == CASE type % 4 = 0 -> Same(a, b) [] type % 4 = 1 -> Less(a, b)
               [] type % 4 = 2 -> Less(a, b) \/ Same(a, b) [] type % 4 = 3 -> IsNaN(a) \/ IsNaN(b) IN
  IF type >= 4 THEN ~res ELSE res

FMax(src, dst) == IF Less(dst, src) \/ IsNaN(src) \/ IsNaN(dst) THEN src ELSE dst
FMin(src, dst) == IF Less(src, dst) \/ IsNaN(src) \/ IsNaN(dst) THEN src ELSE dst

Ucomi(src, dst) ==
  IF IsNaN(src) \/ IsNaN(dst) THEN [zf |-> TRUE, cf |-> TRUE, pf |-> TRUE]
  ELSE [zf |-> Same(src, dst), cf |-> Less(dst, src), pf |-> FALSE]

\* The flags, the eight predicates and the two selections agree on every pair,
\* whichever of the two is a NaN.
ComparesAgree(a, b) ==
  LET f == Ucomi(b, a) IN
  /\ FCmp(a, b, 0) <=> f.zf /\ ~f.pf
  /\ FCmp(a, b, 1) <=> f.cf /\ ~f.pf
  /\ FCmp(a, b, 5) <=> ~f.cf \/ f.pf
  /\ FCmp(a, b, 3) <=> f.pf
  /\ \A t \in 0..3 : FCmp(a, b, t) # FCmp(a, b, t + 4)
  /\ FCmp(a, b, 7) => {FMax(b, a), FMin(b, a)} = {a, b} /\ ~Less(FMax(b, a), FMin(b, a))
  /\ FCmp(a, b, 3) => FMax(b, a) = b /\ FMin(b, a) = b
=============================================================================
