------------------------------ MODULE Float80 ------------------------------
(***************************************************************************)
(* emu/float80.c: extended precision arithmetic in software, for a smaller *)
(* format.  SigBits stands for 64 (so 2 * SigBits for the 128-bit          *)
(* intermediate results) and ExpBits for 15.  Every operation is compared  *)
(* with the exact result rounded as IEEE 754 says.                         *)
(***************************************************************************)
EXTENDS Integers, FiniteSets

CONSTANTS SigBits, ExpBits,         \* float80: 64 and 15
          DblBits, DblExpBits       \* double: 52 (without the integer bit) and 11

Bias80 == 2 ^ (ExpBits - 1) - 1
ExpSpecial == 2 ^ ExpBits - 1
ExpMax == ExpSpecial - 1
ExpMin == 1
ExpDenormal == 0
Cursed == 2 ^ (SigBits - 1)                       \* CURSED_BIT
SigMod == 2 ^ SigBits
WideMod == 2 ^ (2 * SigBits)

Modes == {"nearest", "down", "up", "chop"}
F80(sign, exp, sig) == [sign |-> sign, exp |-> exp % 2 ^ ExpBits, sig |-> sig % SigMod]
F80Nan == F80(0, ExpSpecial, Cursed + (Cursed \div 2))
F80Inf == F80(0, ExpSpecial, Cursed)
F80Zero == F80(0, 0, 0)

Unbias(e) == e - Bias80
UnbiasDenormal(e) == IF e = ExpDenormal THEN Unbias(ExpMin) ELSE Unbias(e)

IsSupported(f) == (f.exp = ExpDenormal) = (f.sig < Cursed)
IsNan(f) == f.exp = ExpSpecial /\ f.sig % Cursed # 0
IsInf(f) == f.exp = ExpSpecial /\ f.sig % Cursed = 0
IsZero(f) == f.exp = ExpDenormal /\ f.sig = 0

\* Leading zeros of x in a word of the given width (__builtin_clzl, u128_clz).
Clz(x, width) == CHOOSE n \in 0..width : x < 2 ^ (width - n) /\ (n = width \/ x >= 2 ^ (width - n - 1))
Ctz(x) == CHOOSE n \in 0..SigBits - 1 : x % 2 ^ n = 0 /\ x % 2 ^ (n + 1) # 0

-----------------------------------------------------------------------------
AwayFromZero(mode, sign) == (mode = "up" /\ sign = 0) \/ (mode = "down" /\ sign = 1)

NeverUp(mode, i, shift, sign) == IF shift > 2 * SigBits - 1 THEN 0 ELSE i \div 2 ^ shift
\* u128_shift_right_round; rest is kept in 64 bits.
ShiftRightRound(mode, i, shift, sign) ==
  IF shift = 0 THEN i
  ELSE IF shift > 2 * SigBits - 1 THEN IF AwayFromZero(mode, sign) /\ i # 0 THEN 1 ELSE 0
  ELSE LET guard == (i \div 2 ^ (shift - 1)) % 2
           rest  == (i % 2 ^ (shift - 1)) % SigMod
           q     == i \div 2 ^ shift
           up    == \/ AwayFromZero(mode, sign) /\ (guard # 0 \/ rest # 0)
                    \/ mode = "nearest" /\ guard = 1 /\ (rest # 0 \/ q % 2 = 1)
       IN  IF up THEN q + 1 ELSE q

ShiftLeft(f, n) == F80(f.sign, f.exp - n, f.sig * 2 ^ n)
ShiftRight(mode, f, n) == F80(f.sign, f.exp + n, ShiftRightRound(mode, f.sig, n, f.sign))

\* f80_normalize.
Normalize80(f) ==
  LET shift == Clz(f.sig, SigBits)
  IN  IF f.exp = ExpDenormal THEN f
      ELSE IF f.exp - shift < ExpMin
           THEN [ShiftLeft(f, f.exp - ExpMin) EXCEPT !.exp = ExpDenormal]
           ELSE ShiftLeft(f, shift)

\* u128_normalize_round.
TooBig(mode, sig, sign) ==
  IF sig # WideMod \div 2
       /\ (mode = "chop" \/ (mode = "up" /\ sign = 1) \/ (mode = "down" /\ sign = 0))
  THEN F80(sign, ExpMax, SigMod - 1) ELSE [F80Inf EXCEPT !.sign = sign]
NormalizeRound(mode, sig, exp, sign) ==
  LET shift == Clz(sig, 2 * SigBits)
      low   == exp - shift < Unbias(ExpMin)
      wide  == IF ~low THEN (sig * 2 ^ shift) % WideMod
               ELSE IF exp > Unbias(ExpMin) THEN (sig * 2 ^ (exp - Unbias(ExpMin))) % WideMod
               ELSE ShiftRightRound(mode, sig, Unbias(ExpMin) - exp, sign)
      field == IF low THEN ExpDenormal ELSE exp - shift + Bias80
      round == ShiftRightRound(mode, wide, SigBits, sign)
  IN  IF ~low /\ exp - shift > Unbias(ExpMax) THEN TooBig(mode, sig, sign)
      ELSE IF round >= SigMod THEN F80(sign, field + 1, round \div 2) ELSE F80(sign, field, round)

\* handle_nans: the operand or indefinite value that the macro returns.
NanResult(a, b) == {a, b} \cap {f \in {a, b} : ~IsSupported(f) \/ IsNan(f)} # {}
NanOf(a, b) ==
  IF ~IsSupported(a) \/ ~IsSupported(b) THEN F80Nan
  ELSE IF IsNan(a) /\ IsNan(b) /\ a.sign = 1 /\ b.sign = 0 THEN b
  ELSE IF IsNan(a) THEN a ELSE b

Neg80(f) == [f EXCEPT !.sign = 1 - @]

\* f80_add.
Add80(mode, x, y) ==
  LET a0    == IF x.exp < y.exp THEN y ELSE x
      b0    == IF x.exp < y.exp THEN x ELSE y
      flip  == a0.sign = 1
      a     == IF flip THEN Neg80(a0) ELSE a0
      b     == IF flip THEN Neg80(b0) ELSE b0
      asig  == a.sig * SigMod
      bsh   == ShiftRightRound(mode, b.sig * SigMod, a.exp - b.exp, b0.sign)
      exp   == UnbiasDenormal(a.exp)
      out(sig, e, sign) == NormalizeRound(mode, sig, e, IF flip THEN 1 - sign ELSE sign)
      bsub  == IF IsInf(a) THEN 0
               ELSE IF mode = "chop" /\ bsh = 0 /\ b.sig # 0 THEN 1 ELSE bsh
  IN  IF NanResult(x, y) THEN NanOf(x, y)
      ELSE IF b.sign = 0
           THEN IF IsInf(a) THEN out(asig, exp, 0)
                ELSE IF asig + bsh < WideMod THEN out(asig + bsh, exp, 0)
                ELSE LET s == ShiftRightRound(mode, (asig + bsh) % WideMod, 1, 0)
                     IN  out(IF s >= WideMod \div 2 THEN s ELSE s + (WideMod \div 2), exp + 1, 0)
           ELSE IF IsInf(a) /\ IsInf(b) THEN F80Nan
           ELSE IF asig = bsub
                THEN IF asig # 0 /\ mode = "down" THEN F80(1, 0, 0) ELSE F80Zero
           ELSE IF asig > bsub THEN out(asig - bsub, exp, 0) ELSE out(bsub - asig, exp, 1)

Sub80(mode, a, b) == Add80(mode, a, Neg80(b))

\* f80_mul.
Mul80(mode, a, b) ==
  LET sign == (a.sign + b.sign) % 2
  IN  IF NanResult(a, b) THEN NanOf(a, b)
      ELSE IF IsInf(a) \/ IsInf(b)
           THEN IF IsZero(a) \/ IsZero(b) THEN F80Nan ELSE [F80Inf EXCEPT !.sign = sign]
      ELSE NormalizeRound(mode, a.sig * b.sig, UnbiasDenormal(a.exp) + UnbiasDenormal(b.exp) + 1, sign)

\* f80_div.
Div80(mode, a, b) ==
  LET sign == (a.sign + b.sign) % 2
      trail == Ctz(b.sig)
      den  == b.sig \div 2 ^ trail
      quo  == (a.sig * SigMod) \div den
      rem  == (a.sig * SigMod) % den
      more == IF quo = 0 THEN 0 ELSE Clz(quo, 2 * SigBits)
      sig  == IF quo = 0 THEN 0 ELSE quo * 2 ^ more + ((rem * 2 ^ more) \div den)
      exp  == UnbiasDenormal(a.exp) - UnbiasDenormal(b.exp) + SigBits - 1 - trail - more
      f    == IF IsInf(a) THEN F80Inf
              ELSE IF IsInf(b) THEN F80Zero
              ELSE IF IsZero(b) THEN IF IsZero(a) THEN F80Nan ELSE F80Inf
              ELSE NormalizeRound(mode, sig, exp, sign)
  IN  IF NanResult(a, b) THEN NanOf(a, b)
      ELSE IF IsInf(a) /\ IsInf(b) THEN F80Nan ELSE [f EXCEPT !.sign = sign]

\* f80_lt, f80_eq.
Lt80(mode, a, b) ==
  LET diff == Sub80(mode, a, b)
  IN  /\ ~NanResult(a, b)
      /\ ~(IsInf(a) /\ IsInf(b) /\ a.sign = b.sign)
      /\ ~(IsZero(a) /\ IsZero(b))
      /\ diff.sign = 1 /\ ~IsZero(diff)
Eq80(a, b) ==
  /\ ~NanResult(a, b)
  /\ IF IsZero(a) THEN IsZero([b EXCEPT !.sign = 0]) ELSE a = b

\* f80_round and f80_to_int.
Round80(mode, f) ==
  LET n == SigBits - 1 - Unbias(f.exp)
      g == ShiftRight(mode, f, n)
  IN  IF ~IsSupported(f) THEN F80Nan
      ELSE IF n <= 0 THEN f
      ELSE IF g.sig = 0 THEN [g EXCEPT !.exp = ExpDenormal] ELSE Normalize80(g)

Indefinite == 0 - Cursed
Int64(n) == IF n % SigMod >= Cursed THEN (n % SigMod) - SigMod ELSE n % SigMod
ToInt80(mode, f) ==
  LET g == ShiftRight(mode, f, SigBits - 1 + Bias80 - f.exp)
  IN  IF ~IsSupported(f) \/ f.exp > SigBits - 1 + Bias80 THEN Indefinite
      ELSE Int64(IF f.sign = 0 THEN g.sig ELSE 0 - g.sig)
FromInt80(i) ==
  LET mag == IF i < 0 THEN 0 - i ELSE i
  IN  Normalize80(F80(IF i < 0 THEN 1 ELSE 0, IF i = 0 THEN 0 ELSE SigBits - 1 + Bias80, mag))

\* f80_from_double and f80_to_double; a double has an implicit integer bit.
DblBias == 2 ^ (DblExpBits - 1) - 1
DblSpecial == 2 ^ DblExpBits - 1
DblDrop == SigBits - 1 - DblBits                  \* 11
Doubles == [sign: 0..1, exp: 0..DblSpecial, sig: 0..2 ^ DblBits - 1]
FromDouble(d) ==
  LET exp == IF d.exp = DblSpecial THEN ExpSpecial
             ELSE IF d.exp # 0 THEN d.exp - DblBias + Bias80
             ELSE IF d.sig = 0 THEN 0 ELSE 1 - DblBias + Bias80
  IN  Normalize80(F80(d.sign, exp, d.sig * 2 ^ DblDrop + (IF d.exp = 0 THEN 0 ELSE Cursed)))
ToDouble(mode, f) ==
  LET exp == IF f.exp = ExpSpecial THEN DblSpecial ELSE Unbias(f.exp) + DblBias
      g   == IF exp > 0 THEN f ELSE ShiftRight(mode, [f EXCEPT !.sig = @ \div 2], 0 - exp)
      sig == ShiftRightRound(mode, g.sig, DblDrop, f.sign)
      big == sig >= 2 ^ (DblBits + 1)
  IN  IF f.exp # ExpSpecial /\ exp >= DblSpecial THEN [sign |-> f.sign, exp |-> DblSpecial, sig |-> 0]
      ELSE [sign |-> f.sign,
            exp |-> (IF exp > 0 THEN exp ELSE 0) + (IF big THEN 1 ELSE 0),
            sig |-> (IF big THEN sig \div 2 ELSE sig) % 2 ^ DblBits]

-----------------------------------------------------------------------------
(* The reference.  A finite value is sig * 2^k for k >= MinPower; One       *)
(* stands for 1 in units of the smallest denormal.                          *)
Floats == [sign: 0..1, exp: 0..ExpSpecial, sig: 0..SigMod - 1]
Supported == {f \in Floats : IsSupported(f)}
Finite == {f \in Supported : f.exp # ExpSpecial}
Units(f) == f.sig * 2 ^ (IF f.exp = ExpDenormal THEN 0 ELSE f.exp - ExpMin)
One80 == 2 ^ (SigBits - 1 + Bias80 - ExpMin)
Signed(f) == IF f.sign = 1 THEN 0 - Units(f) ELSE Units(f)

\* The finite magnitudes in order, and one past them for infinity.
FromRank(r, sign) ==
  IF r < Cursed THEN F80(sign, 0, r)
  ELSE F80(sign, ((r - Cursed) \div Cursed) + 1, Cursed + ((r - Cursed) % Cursed))
MaxRank == Cursed * (ExpMax + 1)
RankUnits(r) == Units(FromRank(r, 0))

\* num/den units, rounded.
IeeeRound(mode, num, den, sign) ==
  LET lo  == CHOOSE r \in 0..MaxRank - 1 :
               RankUnits(r) * den <= num /\ (r = MaxRank - 1 \/ num < RankUnits(r + 1) * den)
      hiU == IF lo = MaxRank - 1 THEN 2 ^ (SigBits + ExpMax - ExpMin) ELSE RankUnits(lo + 1)
      exact == RankUnits(lo) * den = num
      twice == 2 * num - (RankUnits(lo) + hiU) * den
      up  == \/ AwayFromZero(mode, sign)
             \/ mode = "nearest" /\ (twice > 0 \/ (twice = 0 /\ lo % 2 = 1))
  IN  IF exact \/ ~up THEN FromRank(lo, sign) ELSE FromRank(lo + 1, sign)

\* A denormal that is rounded up to the smallest normal keeps the exponent of a
\* denormal (and is then no longer supported).
SameValue(f, g) == f = g \/ (f = F80(g.sign, 0, Cursed) /\ g = F80(g.sign, 1, Cursed))

\* One of the two neighbours of the exact result, or the result itself.
Faithful(f, num, den, sign) ==
  \E m \in {"up", "down"} : SameValue(f, IeeeRound(m, num, den, sign))

InNormalRange(num, den) ==
  num >= Cursed * den /\ num <= Units(F80(0, ExpMax, SigMod - 1)) * den

Magnitude(n) == IF n < 0 THEN 0 - n ELSE n
SignOf(n) == IF n < 0 THEN 1 ELSE 0

-----------------------------------------------------------------------------
(* Properties of a mode and two finite operands.                            *)
\* Products are neighbours of the exact product, and correctly rounded in the
\* directed modes, and in every mode when the exact product is normal.  (A product
\* that is denormal is rounded twice, which shows in the nearest mode.)
MulExact(mode, a, b) ==
  LET num == Units(a) * Units(b)
      sign == (a.sign + b.sign) % 2
      want == IeeeRound(mode, num, One80, sign)
  IN  /\ Faithful(Mul80(mode, a, b), num, One80, sign)
      /\ mode # "nearest" => SameValue(Mul80(mode, a, b), want)
      /\ InNormalRange(num, One80) => Mul80(mode, a, b) = want

\* The division keeps 2 * SigBits bits of the quotient and forgets whether the
\* rest is zero: a quotient that is above the middle of two neighbours by less
\* than those bits tell looks like the middle.
LooksHalfway(num, den) ==
  \E r \in 0..MaxRank - 2 :
    LET gap == RankUnits(r + 1) - RankUnits(r)
        over == 2 * num - (RankUnits(r) + RankUnits(r + 1)) * den
    IN  over > 0 /\ over * SigMod < 2 * den * gap

\* Quotients are neighbours of the exact quotient; they are correctly rounded to
\* the nearest unless they look halfway, and in the directed modes when the exact
\* quotient is normal.  A divisor of zero gives infinity or no number.
DivExact(mode, a, b) ==
  LET num == Units(a) * One80
      want == IeeeRound(mode, num, Units(b), (a.sign + b.sign) % 2)
  IN  IF IsZero(b) THEN IsInf(Div80(mode, a, b)) = ~IsZero(a)
      ELSE /\ Faithful(Div80(mode, a, b), num, Units(b), (a.sign + b.sign) % 2)
           /\ mode = "nearest" => \/ SameValue(Div80(mode, a, b), want)
                                  \/ LooksHalfway(num, Units(b))
           /\ mode # "nearest" /\ InNormalRange(num, Units(b)) => Div80(mode, a, b) = want

\* A denormal beside a normal number is shifted one place too far, so it counts
\* half: twice what x contributes to its sum with y.
Contributes(x, y) == IF x.exp = 0 /\ y.exp # 0 THEN Signed(x) ELSE 2 * Signed(x)
Apart(a, b) == Magnitude(a.exp - b.exp)

\* Sums are neighbours of the exact sum (with that half).  They are correctly
\* rounded to the nearest when the exponents are at most SigBits apart (beyond
\* that the smaller operand is rounded before it is added), and in the directed
\* modes when both or none are denormal and the exact sum is normal.
AddExact(mode, a, b) ==
  LET sum == Contributes(a, b) + Contributes(b, a)
      want == IeeeRound(mode, Magnitude(sum), 2, SignOf(sum))
  IN  IF sum = 0 THEN IsZero(Add80(mode, a, b))
      ELSE /\ Faithful(Add80(mode, a, b), Magnitude(sum), 2, SignOf(sum))
           /\ mode = "nearest" /\ Apart(a, b) <= SigBits => SameValue(Add80(mode, a, b), want)
           /\ mode # "nearest" /\ (a.exp = 0) = (b.exp = 0) /\ InNormalRange(Magnitude(sum), 2)
                => Add80(mode, a, b) = want

\* Comparisons are those of the values, although f80_lt subtracts and rounds.
OrderExact(mode, a, b) ==
  /\ Lt80(mode, a, b) <=> Signed(a) < Signed(b)
  /\ Eq80(a, b) <=> Signed(a) = Signed(b)

\* f80_round gives an integer next to its argument, f80_to_int that integer when
\* it fits, and integers come back as they were.
RoundExact(mode, a) ==
  LET r == Round80(mode, a)
      fits == Units(r) < Cursed * One80
  IN  /\ Signed(r) % One80 = 0 /\ Magnitude(Signed(r) - Signed(a)) < One80
      /\ fits => ToInt80(mode, a) * One80 = Signed(r)
      /\ fits => Signed(FromInt80(ToInt80(mode, a))) = Signed(r)

\* emu/float80.c for every pair of finite numbers and every rounding mode: a
\* neighbour of the exact result always, correctly rounded except where each of
\* the definitions above says so; a double survives the conversion and back.
FloatExact(mode, a, b) ==
  /\ MulExact(mode, a, b) /\ DivExact(mode, a, b) /\ AddExact(mode, a, b)
  /\ OrderExact(mode, a, b) /\ RoundExact(mode, a)
DoublesKept == \A d \in Doubles, mode \in Modes : ToDouble(mode, FromDouble(d)) = d
=============================================================================
