----------------------------- MODULE NumberSpec -----------------------------
(***************************************************************************)
(* What the operations of module DecNumber promise: those of the numbers   *)
(* they stand for.  Exponents are kept above Unit, so that every number is *)
(* a multiple of 10^Unit and its value one of TLA+'s integers.             *)
(***************************************************************************)
EXTENDS DecNumber

Unit == -2
Magnitude(b) == FoldLeft(LAMBDA v, block : v * Base + block, 0, b)
Value(n) == n.sign * Magnitude(n.blocks) * 10 ^ (n.exp - Unit)
Number(i, e) == IF i = 0 THEN NoNumber ELSE [FromInt(i) EXCEPT !.exp = @ + e]

\* No block but zeros in front, no trailing decimal zero: one form per value.
Normal(n) ==
    IF IsZero(n) THEN n.exp = 0
    ELSE n.blocks[1] > 0 /\ Last(n.blocks) % 10 > 0 /\ \A i \in DOMAIN n.blocks : n.blocks[i] \in 0..(Base - 1)

\* Differences and comparisons of numbers that are not negative.
DifferenceIsExact(a, b) ==
    /\ Value(Minus(a, b)) = Value(a) - Value(b) /\ Normal(Minus(a, b))
    /\ Less(a, b) <=> Value(a) < Value(b)
    /\ Equal(a, b) <=> Value(a) = Value(b)

\* Sums that fit in one block of their common exponent, as the answers of a few
\* digits do: longer ones may lose a carry.
Aligned(a, b) == IF a.exp < b.exp THEN a.exp ELSE b.exp
SumIsExact(a, b) ==
    Value(a) + Value(b) < Base * 10 ^ (Aligned(a, b) - Unit) =>
        Value(Plus(a, b)) = Value(a) + Value(b) /\ Normal(Plus(a, b))

\* What is printed is read back as the same number.
SameWhenRead(n) == Normal(n) /\ parse_string(str(n)) = n
=============================================================================
