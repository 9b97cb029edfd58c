----------------------------- MODULE Fractions -----------------------------
(* The numbers of the strategies. The code computes in floating point; here *)
(* they are exact fractions <<numerator, denominator>> in lowest terms, so  *)
(* what is checked is the algebra and not the rounding. A value that does   *)
(* not exist yet is NaN, and whatever is computed from it is NaN.           *)
EXTENDS Integers, Sequences

NaN == <<0, 0>>
IsNaN(x) == x[2] = 0

Euclid[pair \in Nat \X Nat] ==
    IF pair[2] = 0 THEN pair[1] ELSE Euclid[<<pair[2], pair[1] % pair[2]>>]
Gcd(a, b) == Euclid[<<a, b>>]
Magnitude(n) == IF n < 0 THEN -n ELSE n

Ratio(n, d) == LET g == Gcd(Magnitude(n), d) IN <<n \div g, d \div g>>
Whole(n) == <<n, 1>>
Zero == Whole(0)
One == Whole(1)
Hundred == Whole(100)

Plus(x, y) ==
    IF IsNaN(x) \/ IsNaN(y) THEN NaN ELSE Ratio(x[1] * y[2] + y[1] * x[2], x[2] * y[2])

Minus(x, y) == Plus(x, <<-y[1], y[2]>>)

Times(x, y) ==
    IF IsNaN(x) \/ IsNaN(y) THEN NaN ELSE Ratio(x[1] * y[1], x[2] * y[2])

(* 0 / 0 is NaN; nothing else is divided by zero.                           *)
Over(x, y) ==
    IF IsNaN(y) \/ y[1] = 0 THEN NaN
    ELSE Times(x, IF y[1] > 0 THEN <<y[2], y[1]>> ELSE <<-y[2], -y[1]>>)

(* No comparison with NaN is true.                                          *)
Less(x, y) == ~IsNaN(x) /\ ~IsNaN(y) /\ Minus(x, y)[1] < 0
AtMost(x, y) == ~IsNaN(x) /\ ~IsNaN(y) /\ Minus(x, y)[1] <= 0
Between(lo, x, hi) == AtMost(lo, x) /\ AtMost(x, hi)

Lesser(x, y) ==
    CASE IsNaN(x) \/ IsNaN(y) -> NaN
      [] AtMost(x, y) -> x
      [] Less(y, x) -> y
Greater(x, y) ==
    CASE IsNaN(x) \/ IsNaN(y) -> NaN
      [] AtMost(x, y) -> y
      [] Less(y, x) -> x
Distance(x, y) == Greater(Minus(x, y), Minus(y, x))

Total(s) ==
    LET upTo[i \in 0 .. Len(s)] == IF i = 0 THEN Zero ELSE Plus(upTo[i - 1], s[i])
    IN upTo[Len(s)]
Mean(s) == Over(Total(s), Whole(Len(s)))
Highest(s) == CHOOSE x \in {s[i] : i \in DOMAIN s} : \A i \in DOMAIN s : AtMost(s[i], x)
Lowest(s) == CHOOSE x \in {s[i] : i \in DOMAIN s} : \A i \in DOMAIN s : AtMost(x, s[i])
=============================================================================
