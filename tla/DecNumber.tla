------------------------------ MODULE DecNumber -----------------------------
(***************************************************************************)
(* decnumber (src/dft2lnt/decnumber.h): the decimal floating point numbers *)
(* of arbitrary precision in which dftcalc keeps times and probabilities.  *)
(* A number is sign * blocks * 10^exp, with the blocks in base Base, the   *)
(* first one the most significant.  MaxBT is the largest value of a block  *)
(* (unsigned int in the code), so that small values exercise every carry.  *)
(***************************************************************************)
EXTENDS Integers, Sequences, SequencesExt

CONSTANT MaxBT
ASSUME MaxBTAssumption == MaxBT \in Nat /\ MaxBT >= 10

Base == (MaxBT \div 10) * 10
NoNumber == [sign |-> 1, blocks |-> <<>>, exp |-> 0]
IsZero(n) == n.blocks = <<>>
Negated(n) == [n EXCEPT !.sign = -@]
Bit(b) == IF b THEN 1 ELSE 0
\* The loops over the blocks start at the last one: the carry out of block i.
Carried(c, digits) == (IF c > 0 THEN <<c>> ELSE <<>>) \o digits
PadTo(b, len) == [i \in 1..(len - Len(b)) |-> 0] \o b

\* mul_unnorm: twice the number.
Doubled(b) ==
    LET twice(x, c) == (x % (Base \div 2)) * 2 + c
        out[i \in 1..(Len(b) + 1)] ==
            IF i = Len(b) + 1 THEN 0
            ELSE LET c == out[i + 1]
                 IN  Bit(b[i] >= Base \div 2) + Bit(twice(b[i], c) >= Base)
        digits == [i \in DOMAIN b |-> twice(b[i], out[i + 1]) % Base]
    IN  Carried(IF b = <<>> THEN 0 ELSE out[1], digits)

\* mul_unnorm: the value itself once more, for an odd factor.
PlusOld(b, old) ==
    LET o == PadTo(old, Len(b))
        out[i \in 1..(Len(b) + 1)] ==
            IF i = Len(b) + 1 THEN 0 ELSE Bit(b[i] + out[i + 1] + o[i] >= Base)
        digits == [i \in DOMAIN b |-> (b[i] + out[i + 1] + o[i]) % Base]
    IN  Carried(IF b = <<>> THEN 0 ELSE out[1], digits)

mul_unnorm(b, val) ==
    LET f[v \in 0..Base] ==
            IF v = 0 THEN <<>>
            ELSE IF v = 1 THEN b
            ELSE IF v = Base THEN Append(b, 0)
            ELSE LET half == Doubled(IF v > 2 THEN f[v \div 2] ELSE b)
                 IN  IF v % 2 = 1 THEN PlusOld(half, b) ELSE half
    IN  f[val]

\* Division of every block, and at most one leading zero block dropped.
divint(b, num) ==
    LET q == [i \in DOMAIN b |->
                b[i] \div num + (IF i = 1 THEN 0 ELSE (b[i - 1] % num) * (Base \div num))]
    IN  IF q # <<>> /\ q[1] = 0 THEN Tail(q) ELSE Carried(0, q)

\* A mutant for NumbersExact: zero blocks in front are kept.
StripZerosNot(b) == b
RECURSIVE normalize(_), StripZeros(_)
StripZeros(b) == IF b # <<>> /\ b[1] = 0 THEN StripZeros(Tail(b)) ELSE b
normalize(n) ==
    IF n.blocks # <<>> /\ Last(n.blocks) % 10 = 0
    THEN normalize([n EXCEPT !.blocks = divint(@, 10), !.exp = @ + 1])
    ELSE LET b == StripZeros(n.blocks)
         IN  [n EXCEPT !.blocks = b, !.exp = IF b = <<>> THEN 0 ELSE @]

\* The number with the same value and a smaller exponent.
RECURSIVE Lowered(_, _)
Lowered(n, exp) ==
    IF n.exp <= exp THEN n
    ELSE Lowered([n EXCEPT !.blocks = mul_unnorm(@, 10), !.exp = @ - 1], exp)

\* parse_string: the literal's digits, those after the point, its exponent.  The
\* exponent is applied with the sign of the number, not with its own.
parse_string(lit) ==
    LET append(b, d) ==
            LET x == IF b = <<>> THEN <<0>> ELSE mul_unnorm(b, 10) IN Front(x) \o <<Last(x) + d>>
        digits == FoldLeft(append, <<>>, lit.digits)
    IN  normalize([sign |-> lit.sign, blocks |-> digits, exp |-> lit.sign * lit.exp - lit.frac])

\* operator=(intmax_t): bit by bit, the highest first.
RECURSIVE FromNat(_)
FromNat(i) ==
    IF i = 0 THEN <<>>
    ELSE LET b == mul_unnorm(FromNat(i \div 2), 2)
             c == IF b = <<>> THEN <<0>> ELSE b
         IN  [c EXCEPT ![Len(c)] = @ + (i % 2)]
FromInt(i) ==
    [normalize([NoNumber EXCEPT !.blocks = FromNat(IF i < 0 THEN -i ELSE i)])
        EXCEPT !.sign = IF i < 0 THEN -1 ELSE 1]

\* The addition loop.  A carry into a block equal to Base - 1 is forgotten when
\* the second test finds no carry, and a block that reaches Base exactly is kept.
AddBlocks(a, b) ==
    LET len == IF Len(a) > Len(b) THEN Len(a) ELSE Len(b)
        x == PadTo(a, len)
        d == len - Len(b)
        step[i \in 1..(len + 1)] ==     \* <<block, carry out>>
            IF i = len + 1 THEN <<0, 0>>
            ELSE LET c == step[i + 1][2]
                     full == x[i] = Base - 1 /\ c = 1
                     y == IF full THEN 0 ELSE x[i] + c
                 IN  IF i <= d THEN <<y, Bit(full)>>
                     ELSE IF y > Base - b[i - d] THEN <<y - (Base - b[i - d]), 1>>
                     ELSE <<y + b[i - d], 0>>
        digits == [i \in 1..len |-> step[i][1]]
    IN  Carried(step[1][2], digits)

SubBlocks(a, b) ==      \* <<blocks, borrow left over>>
    LET len == IF Len(a) > Len(b) THEN Len(a) ELSE Len(b)
        x == PadTo(a, len)
        d == len - Len(b)
        step[i \in 1..(len + 1)] ==
            IF i = len + 1 THEN <<0, 0>>
            ELSE LET c == step[i + 1][2]
                     y == IF x[i] < c THEN x[i] + Base - c ELSE x[i] - c
                     o == Bit(x[i] < c)
                 IN  IF i <= d THEN <<y, o>>
                     ELSE IF y < b[i - d] THEN <<y + Base - b[i - d], o + 1>>
                     ELSE <<y - b[i - d], o>>
    IN  <<Carried(0, [i \in 1..len |-> step[i][1]]), step[1][2]>>

RECURSIVE Plus(_, _), Minus(_, _)
\* operator+=.  For a negative left operand the difference is negated.
Plus(a, b) ==
    IF IsZero(b) THEN a
    ELSE IF IsZero(a) THEN b
    ELSE IF b.sign = -1 THEN Minus(a, Negated(b))
    ELSE IF a.sign = -1 THEN Negated(Minus(b, [a EXCEPT !.sign = 1]))
    ELSE LET x == Lowered(a, b.exp)
             y == Lowered(b, a.exp)
         IN  normalize([x EXCEPT !.blocks = AddBlocks(x.blocks, y.blocks)])
Minus(a, b) ==
    IF IsZero(b) THEN a
    ELSE IF IsZero(a) THEN Negated(b)
    ELSE IF b.sign = -1 THEN Plus(a, Negated(b))
    ELSE IF a.sign = -1 THEN Negated(Plus([a EXCEPT !.sign = 1], b))
    ELSE LET x == Lowered(a, b.exp)
             y == Lowered(b, a.exp)
             r == SubBlocks(x.blocks, y.blocks)
         IN  IF r[2] > 0 THEN [Minus(b, a) EXCEPT !.sign = -1]
             ELSE normalize([x EXCEPT !.blocks = r[1]])

\* operator*=: one product per block of the right operand, the last one first.
Times(a, b) ==
    LET part(i) ==
            [sign |-> 1, blocks |-> a.blocks \o [k \in 1..(Len(b.blocks) - i) |-> 0], exp |-> 0]
        sum[i \in 1..(Len(b.blocks) + 1)] ==
            IF i = Len(b.blocks) + 1 THEN NoNumber
            ELSE Plus(sum[i + 1],
                      normalize([part(i) EXCEPT !.blocks = mul_unnorm(@, b.blocks[i])]))
        s == sum[1]
    IN  IF IsZero(a) \/ IsZero(b) THEN NoNumber
        ELSE normalize([s EXCEPT !.sign = IF a.sign = b.sign THEN 1 ELSE -1,
                                 !.exp = @ + a.exp + b.exp])

Equal(a, b) == (IsZero(a) /\ IsZero(b)) \/ a = b
\* operator<: numbers of one exponent by their blocks, whatever their sign.
Less(a, b) ==
    LET differ == {i \in DOMAIN a.blocks : a.blocks[i] # b.blocks[i]}
        first == CHOOSE i \in differ : \A j \in differ : i <= j
    IN  IF IsZero(a) \/ IsZero(b)
        THEN (IsZero(a) /\ ~IsZero(b) /\ b.sign > 0) \/ (~IsZero(a) /\ IsZero(b) /\ a.sign < 0)
        ELSE IF a.sign # b.sign THEN a.sign < b.sign
        ELSE IF a.exp = b.exp /\ Len(a.blocks) # Len(b.blocks) THEN Len(a.blocks) < Len(b.blocks)
        ELSE IF a.exp = b.exp /\ differ # {} THEN a.blocks[first] < b.blocks[first]
        ELSE Minus(a, b).sign < 0

RECURSIVE DigitsOf(_)
DigitsOf(b) == IF b = <<>> THEN <<>> ELSE Append(DigitsOf(divint(b, 10)), Last(b) % 10)
\* str, as the literal it prints: plain digits, a point among them, or an exponent.
str(n) ==
    LET ds == DigitsOf(n.blocks)
        zeros(k) == [i \in 1..k |-> 0]
        len == Len(ds)
        neg == -n.exp
        lit(digits, frac, exp) == [sign |-> n.sign, digits |-> digits, frac |-> frac, exp |-> exp]
    IN  IF IsZero(n) THEN [sign |-> 1, digits |-> <<0>>, frac |-> 0, exp |-> 0]
        ELSE IF n.exp \in 0..2 THEN lit(ds \o zeros(n.exp), 0, 0)
        ELSE IF n.exp > 2 THEN lit(ds, 0, n.exp)
        ELSE IF neg - len \in 0..2 THEN lit(zeros(neg - len + 1) \o ds, neg, 0)
        ELSE IF len > neg THEN lit(ds, neg, 0)
        ELSE lit(ds, len - 1, -(neg - (len - 1)))
=============================================================================
