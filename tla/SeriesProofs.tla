-------------------------- MODULE SeriesProofs --------------------------
(***************************************************************************)
(* What the strategies are computed from, for candles of any number: the   *)
(* arithmetic of fractions in lowest terms (Euclid's algorithm, an ordered *)
(* field), the recurrences of the smoothed series, and of each indicator   *)
(* where it begins to exist, in which range it stays, and which candles it *)
(* depends on.                                                             *)
(***************************************************************************)
EXTENDS Strategies, FiniteSetTheorems, TLAPS

(* Every set of numbers that is not empty has a least one.                  *)
LEMMA Least ==
    ASSUME NEW T \in SUBSET Nat, T # {}
    PROVE  \E x \in T : \A y \in T : x <= y
<1> DEFINE U == {0 .. n : n \in T}
           R == StrictSubsetOrdering(Nat)
<1>1. U \subseteq FiniteSubsetsOf(Nat) /\ U # {}
    <2>1. \A n \in Nat : IsFiniteSet(0 .. n) /\ 0 .. n \in SUBSET Nat
        BY FS_Interval
    <2> QED BY <2>1 DEF FiniteSubsetsOf
<1>2. IsWellFoundedOn(R, FiniteSubsetsOf(Nat))
    BY FS_StrictSubsetOrderingWellFounded
<1> HIDE DEF U, R
<1>3. PICK s \in U : \A t \in U : <<t, s>> \notin R
    BY <1>1, <1>2, WFMin
<1>4. PICK x \in T : s = 0 .. x
    BY DEF U
<1>5. ASSUME NEW y \in T, y < x PROVE FALSE
    <2>1. 0 .. y \in U /\ 0 .. y \subseteq 0 .. x /\ x \in 0 .. x /\ x \notin 0 .. y
        BY <1>5 DEF U
    <2>2. <<0 .. y, 0 .. x>> \in R
        <3>1. 0 .. y \in SUBSET Nat /\ 0 .. x \in SUBSET Nat
            BY <1>5
        <3> QED BY <2>1, <3>1, Zenon DEF R, StrictSubsetOrdering
    <2> QED BY <2>1, <2>2, <1>3, <1>4
<1> QED BY <1>5

(* Induction, over a set in place of a predicate: what holds of a number    *)
(* when it holds of all the lesser ones holds of every number.              *)
LEMMA Induction ==
    ASSUME NEW S, \A n \in Nat : (\A m \in Nat : m < n => m \in S) => n \in S
    PROVE  Nat \subseteq S
<1> SUFFICES ASSUME Nat \ S # {} PROVE FALSE
    OBVIOUS
<1>1. PICK x \in Nat \ S : \A y \in Nat \ S : x <= y
    BY Least
<1> QED BY <1>1

-----------------------------------------------------------------------------
(* The greatest common divisor of Euclid.                                   *)
Divides(g, n) == \E k \in Int : n = g * k
Common(a, b) == {g \in Nat : Divides(g, a) /\ Divides(g, b)}

LEMMA Quotient ==
    ASSUME NEW a \in Nat, NEW b \in Nat, b # 0
    PROVE  /\ a % b \in Nat /\ a % b < b /\ a \div b \in Nat
           /\ a = (b * (a \div b)) + (a % b)
OBVIOUS

LEMMA CommonStep ==
    ASSUME NEW a \in Nat, NEW b \in Nat, b # 0
    PROVE  Common(a, b) = Common(b, a % b)
<1> DEFINE q == a \div b
           r == a % b
<1>1. r \in Nat /\ q \in Nat /\ a = (b * q) + r
    BY Quotient
<1> HIDE DEF q, r
<1>2. ASSUME NEW g \in Nat, Divides(g, a), Divides(g, b) PROVE Divides(g, r)
    <2>1. PICK k \in Int : a = g * k
        BY <1>2 DEF Divides
    <2>2. PICK l \in Int : b = g * l
        BY <1>2 DEF Divides
    <2>3. r = (g * k) - ((g * l) * q) /\ (g * k) - ((g * l) * q) = g * (k - (l * q))
        BY <1>1, <2>1, <2>2
    <2>4. k - (l * q) \in Int
        BY <1>1
    <2> QED BY <2>3, <2>4 DEF Divides
<1>3. ASSUME NEW g \in Nat, Divides(g, b), Divides(g, r) PROVE Divides(g, a)
    <2>1. PICK k \in Int : r = g * k
        BY <1>3 DEF Divides
    <2>2. PICK l \in Int : b = g * l
        BY <1>3 DEF Divides
    <2>3. a = ((g * l) * q) + (g * k) /\ ((g * l) * q) + (g * k) = g * ((l * q) + k)
        BY <1>1, <2>1, <2>2
    <2>4. (l * q) + k \in Int
        BY <1>1
    <2> QED BY <2>3, <2>4 DEF Divides
<1> QED BY <1>2, <1>3 DEF Common, r

LEMMA CommonZero ==
    ASSUME NEW a \in Nat, a # 0
    PROVE  /\ a \in Common(a, 0)
           /\ \A g \in Common(a, 0) : g <= a
<1>1. Divides(a, a) /\ Divides(a, 0)
    <2>1. a = a * 1 /\ 0 = a * 0
        OBVIOUS
    <2> QED BY <2>1 DEF Divides
<1>2. ASSUME NEW g \in Nat, Divides(g, a) PROVE g <= a
    <2>1. PICK k \in Int : a = g * k
        BY <1>2 DEF Divides
    <2>2. k >= 1
        BY <2>1
    <2> QED BY <2>1, <2>2
<1> QED BY <1>1, <1>2 DEF Common

(* Gcd is what its definition says.                                         *)
LEMMA GcdIs ==
    ASSUME NEW a \in Nat, NEW b \in Nat
    PROVE  Gcd(a, b) = IF b = 0 THEN a ELSE Gcd(b, a % b)
<1> DEFINE best(S) == CHOOSE g \in S : \A h \in S : h <= g
           G == [p \in Nat \X Nat |->
                    IF p[1] = 0 /\ p[2] = 0 THEN 0 ELSE best(Common(p[1], p[2]))]
           Step(f) == [p \in Nat \X Nat |->
                          IF p[2] = 0 THEN p[1] ELSE f[<<p[2], p[1] % p[2]>>]]
<1>1. ASSUME NEW x \in Nat, NEW y \in Nat
      PROVE  G[<<x, y>>] = IF y = 0 THEN x ELSE G[<<y, x % y>>]
    <2>1. CASE y # 0
        <3>1. x % y \in Nat
            BY <2>1, Quotient
        <3>2. Common(x, y) = Common(y, x % y)
            BY <2>1, CommonStep
        <3> DEFINE z == x % y
        <3> HIDE DEF best, z
        <3> QED BY <2>1, <3>1, <3>2 DEF z
    <2>2. CASE y = 0 /\ x = 0
        BY <2>2
    <2>3. CASE y = 0 /\ x # 0
        <3>1. Common(x, 0) \subseteq Nat /\ x \in Common(x, 0)
              /\ \A g \in Common(x, 0) : g <= x
            BY <2>3, CommonZero DEF Common
        <3>2. \A g \in Common(x, 0) : (\A h \in Common(x, 0) : h <= g) => g = x
            BY <3>1
        <3>3. best(Common(x, 0)) = x
            BY <3>1, <3>2
        <3> HIDE DEF best
        <3> QED BY <2>3, <3>3
    <2> QED BY <2>1, <2>2, <2>3
<1>2. G = Step(G)
    <2>1. \A p \in Nat \X Nat : G[p] = IF p[2] = 0 THEN p[1] ELSE G[<<p[2], p[1] % p[2]>>]
        <3> HIDE DEF G
        <3> QED BY <1>1
    <2>2. G = [p \in Nat \X Nat |-> G[p]]
        OBVIOUS
    <2> HIDE DEF G
    <2> QED BY <2>1, <2>2
<1>3. Euclid = CHOOSE f : f = Step(f)
    BY DEF Euclid
<1> HIDE DEF G, Step
<1>4. Euclid = Step(Euclid)
    BY <1>2, <1>3
<1> DEFINE f == Euclid
<1>5. f = [p \in Nat \X Nat |-> IF p[2] = 0 THEN p[1] ELSE f[<<p[2], p[1] % p[2]>>]]
    BY <1>4 DEF Step
<1> HIDE DEF f
<1>6. f[<<a, b>>] = IF b = 0 THEN a ELSE f[<<b, a % b>>]
    BY <1>5
<1> QED BY <1>6 DEF f, Gcd

(* It divides both, and is made of both (Bezout).                           *)
LEMMA GcdFacts ==
    ASSUME NEW a \in Nat, NEW b \in Nat
    PROVE  /\ Gcd(a, b) \in Nat
           /\ Divides(Gcd(a, b), a) /\ Divides(Gcd(a, b), b)
           /\ \E u, v \in Int : Gcd(a, b) = (u * a) + (v * b)
<1> DEFINE Good(x, y) ==
               /\ Gcd(x, y) \in Nat
               /\ Divides(Gcd(x, y), x) /\ Divides(Gcd(x, y), y)
               /\ \E u, v \in Int : Gcd(x, y) = (u * x) + (v * y)
           S == {y \in Nat : \A x \in Nat : Good(x, y)}
<1>1. ASSUME NEW y \in Nat, \A m \in Nat : m < y => m \in S, NEW x \in Nat
      PROVE  Good(x, y)
    <2>1. CASE y = 0
        <3>1. Gcd(x, y) = x
            BY <2>1, GcdIs
        <3>2. x = x * 1 /\ 0 = x * 0 /\ x = (1 * x) + (0 * 0)
            OBVIOUS
        <3>3. Divides(x, x) /\ Divides(x, 0)
            BY <3>2 DEF Divides
        <3>4. \E u, v \in Int : x = (u * x) + (v * 0)
            BY <3>2
        <3> QED BY <2>1, <3>1, <3>3, <3>4
    <2>2. CASE y # 0
        <3> DEFINE q == x \div y
                   r == x % y
                   g == Gcd(y, r)
        <3>1. r \in Nat /\ r < y /\ q \in Nat /\ x = (y * q) + r
            BY <2>2, Quotient
        <3>2. Gcd(x, y) = g
            BY <2>2, GcdIs
        <3>3. Good(y, r)
            BY <1>1, <3>1
        <3>4. g \in Common(y, r)
            BY <3>3 DEF Common
        <3>5. g \in Common(x, y)
            BY <3>4, <2>2, CommonStep
        <3>6. PICK u \in Int, v \in Int : g = (u * y) + (v * r)
            BY <3>3
        <3> HIDE DEF q, r, g
        <3>7. g = (v * x) + ((u - (v * q)) * y)
            <4>1. v * r = v * (x - (y * q))
                BY <3>1
            <4>2. v * (x - (y * q)) = (v * x) - ((v * q) * y)
                BY <3>1
            <4>3. (u - (v * q)) * y = (u * y) - ((v * q) * y)
                BY <3>1
            <4>4. v * x \in Int /\ u * y \in Int /\ (v * q) * y \in Int
                BY <3>1
            <4> QED BY <3>6, <4>1, <4>2, <4>3, <4>4
        <3>8. u - (v * q) \in Int
            BY <3>1
        <3> QED BY <3>2, <3>5, <3>7, <3>8 DEF Common
    <2> QED BY <2>1, <2>2
<1>2. Nat \subseteq S
    <2>1. \A n \in Nat : (\A m \in Nat : m < n => m \in S) => n \in S
        BY <1>1
    <2> HIDE DEF S
    <2> QED BY <2>1, Induction
<1> QED BY <1>2

LEMMA GcdPositive ==
    ASSUME NEW a \in Nat, NEW b \in Nat, a # 0 \/ b # 0
    PROVE  Gcd(a, b) > 0
<1>1. /\ Gcd(a, b) \in Nat
      /\ \E k \in Int : a = Gcd(a, b) * k
      /\ \E k \in Int : b = Gcd(a, b) * k
    BY GcdFacts DEF Divides
<1> QED BY <1>1

(* What divides 1 = u a + v b is 1.                                         *)
LEMMA Coprime ==
    ASSUME NEW a \in Nat, NEW b \in Nat, NEW u \in Int, NEW v \in Int, (u * a) + (v * b) = 1
    PROVE  Gcd(a, b) = 1
<1> DEFINE g == Gcd(a, b)
<1>1. g \in Nat /\ Divides(g, a) /\ Divides(g, b)
    BY GcdFacts
<1> HIDE DEF g
<1>2. PICK k \in Int : a = g * k
    BY <1>1 DEF Divides
<1>3. PICK l \in Int : b = g * l
    BY <1>1 DEF Divides
<1>4. (u * (g * k)) + (v * (g * l)) = g * ((u * k) + (v * l))
    BY <1>1
<1>5. g * ((u * k) + (v * l)) = 1 /\ (u * k) + (v * l) \in Int
    BY <1>2, <1>3, <1>4
<1>6. g = 1
    <2> DEFINE w == (u * k) + (v * l)
    <2>1. w \in Int /\ g * w = 1
        BY <1>5
    <2> HIDE DEF w
    <2>2. w > 0
        BY <1>1, <2>1
    <2>3. g * w >= g
        BY <1>1, <2>1, <2>2
    <2> QED BY <1>1, <2>1, <2>3
<1> QED BY <1>6 DEF g

-----------------------------------------------------------------------------
(* The fractions in lowest terms, and the numbers: fractions and NaN.       *)
Fraction ==
    {x \in Int \X Nat : x[2] # 0 /\ \E u, v \in Int : (u * x[1]) + (v * x[2]) = 1}
Numbers == Fraction \cup {NaN}

(* The value of a fraction is n / d.                                        *)
Is(x, n, d) == x \in Fraction /\ n \in Int /\ d \in Nat /\ d # 0 /\ x[1] * d = n * x[2]

LEMMA FractionIs ==
    ASSUME NEW x \in Fraction
    PROVE  /\ x = <<x[1], x[2]>> /\ x[1] \in Int /\ x[2] \in Nat /\ x[2] # 0
           /\ Is(x, x[1], x[2]) /\ ~IsNaN(x) /\ x \in Numbers /\ x # NaN
<1>1. x = <<x[1], x[2]>> /\ x[1] \in Int /\ x[2] \in Nat /\ x[2] # 0
    BY DEF Fraction
<1>2. x # NaN
    BY <1>1 DEF NaN
<1> QED BY <1>1, <1>2 DEF Is, IsNaN, Numbers

LEMMA NaNIs == IsNaN(NaN) /\ NaN \in Numbers /\ NaN \notin Fraction /\ NaN[2] = 0
BY DEF NaN, IsNaN, Numbers, Fraction

LEMMA NumbersAre == \A x \in Numbers : IF IsNaN(x) THEN x = NaN ELSE x \in Fraction
BY FractionIs, NaNIs DEF Numbers

LEMMA Bezout ==
    ASSUME NEW n \in Int, NEW d \in Nat, d # 0
    PROVE  LET g == Gcd(Magnitude(n), d)
           IN /\ g \in Nat /\ g > 0
              /\ \E k \in Int, l \in Nat, u, v \in Int :
                    n = g * k /\ d = g * l /\ l # 0 /\ n \div g = k /\ d \div g = l
                    /\ (u * k) + (v * l) = 1
<1> DEFINE m == Magnitude(n)
           g == Gcd(m, d)
<1>1. m \in Nat /\ (m = n \/ m = -n)
    BY DEF Magnitude
<1> HIDE DEF m
<1>2. g \in Nat /\ g > 0
    BY <1>1, GcdFacts, GcdPositive
<1>3. /\ \E k \in Int : m = g * k
      /\ \E l \in Int : d = g * l
      /\ \E u, v \in Int : g = (u * m) + (v * d)
    BY <1>1, GcdFacts DEF Divides
<1> HIDE DEF g
<1>4. PICK j \in Int : m = g * j
    BY <1>3
<1>5. PICK l \in Int : d = g * l
    BY <1>3
<1>6. PICK w \in Int, v \in Int : g = (w * m) + (v * d)
    BY <1>3
<1>7. l \in Nat /\ l # 0
    BY <1>2, <1>5
<1>8. (w * j) + (v * l) = 1
    <2>1. (w * (g * j)) + (v * (g * l)) = g * ((w * j) + (v * l))
        BY <1>2
    <2> DEFINE e == (w * j) + (v * l)
    <2>2. e \in Int /\ g * e = g * 1
        BY <1>2, <1>4, <1>5, <1>6, <2>1
    <2> HIDE DEF e
    <2>3. e = 1
        BY <1>2, <2>2
    <2> QED BY <2>3 DEF e
<1>9. \E k \in Int, u \in Int : n = g * k /\ (u * k) + (v * l) = 1
    <2>1. CASE m = n
        BY <1>4, <1>8, <2>1
    <2>2. CASE m = -n
        <3>1. n = g * (-j) /\ ((-w) * (-j)) + (v * l) = 1 /\ -j \in Int /\ -w \in Int
            BY <1>1, <1>2, <1>4, <1>8, <2>2
        <3> QED BY <3>1
    <2> QED BY <1>1, <2>1, <2>2
<1>10. PICK k \in Int, u \in Int : n = g * k /\ (u * k) + (v * l) = 1
    BY <1>9
<1>11. n \div g = k /\ d \div g = l
    BY <1>2, <1>5, <1>7, <1>10
<1>12. \E a \in Int, b \in Nat, c, e \in Int :
          n = g * a /\ d = g * b /\ b # 0 /\ n \div g = a /\ d \div g = b
          /\ (c * a) + (e * b) = 1
    BY <1>5, <1>7, <1>10, <1>11
<1> QED BY <1>2, <1>12 DEF g, m

LEMMA RatioIs ==
    ASSUME NEW n \in Int, NEW d \in Nat, d # 0
    PROVE  Is(Ratio(n, d), n, d)
<1> DEFINE g == Gcd(Magnitude(n), d)
<1>1. g \in Nat /\ g > 0
    BY Bezout
<1>2. PICK k \in Int, l \in Nat, u \in Int, v \in Int :
          n = g * k /\ d = g * l /\ l # 0 /\ n \div g = k /\ d \div g = l
          /\ (u * k) + (v * l) = 1
    BY Bezout
<1>3. Ratio(n, d) = <<k, l>>
    BY <1>2 DEF Ratio
<1> HIDE DEF g
<1>4. k * (g * l) = (g * k) * l
    BY <1>1
<1>5. <<k, l>> \in Fraction
    BY <1>2 DEF Fraction
<1>6. k * d = n * l
    BY <1>2, <1>4
<1> QED BY <1>3, <1>5, <1>6 DEF Is

(* Two fractions of one value are one, and the lesser has the lesser value. *)
LEMMA SameValue ==
    ASSUME NEW x, NEW y, NEW n, NEW d, NEW m, NEW e, Is(x, n, d), Is(y, m, e), n * e = m * d
    PROVE  x = y
<1> DEFINE a == x[1]
           b == x[2]
           p == y[1]
           q == y[2]
<1>1. /\ a \in Int /\ b \in Nat /\ b # 0 /\ x = <<a, b>> /\ n \in Int /\ d \in Nat /\ d # 0
      /\ p \in Int /\ q \in Nat /\ q # 0 /\ y = <<p, q>> /\ m \in Int /\ e \in Nat /\ e # 0
      /\ a * d = n * b /\ p * e = m * q
    BY DEF Is, Fraction
<1>2. PICK u \in Int, v \in Int : (u * a) + (v * b) = 1
    BY DEF Is, Fraction
<1>3. PICK w \in Int, z \in Int : (w * p) + (z * q) = 1
    BY DEF Is, Fraction
<1> HIDE DEF a, b, p, q
<1>4. a * q = p * b
    <2>1. (a * q) * (d * e) = (a * d) * (q * e) /\ (n * b) * (q * e) = (n * e) * (b * q)
          /\ (m * d) * (b * q) = (m * q) * (d * b) /\ (p * e) * (d * b) = (p * b) * (d * e)
        BY <1>1
    <2>2. (a * q) * (d * e) = (p * b) * (d * e)
        BY <1>1, <2>1
    <2> DEFINE f == d * e
               s == a * q
               t == p * b
    <2>3. f \in Int /\ f # 0 /\ s \in Int /\ t \in Int /\ s * f = t * f
        BY <1>1, <2>2
    <2> HIDE DEF f, s, t
    <2>4. s = t
        BY <2>3
    <2> QED BY <2>4 DEF s, t
<1>5. ASSUME NEW g \in Int, NEW h \in Int, NEW i \in Int, NEW j \in Int,
             NEW r \in Int, NEW s \in Int, (r * g) + (s * h) = 1, g * j = i * h
      PROVE  j = h * ((r * i) + (s * j))
    <2>1. j = j * ((r * g) + (s * h))
        BY <1>5
    <2>2. j * ((r * g) + (s * h)) = (r * (g * j)) + (s * (h * j))
        OBVIOUS
    <2>3. (r * (i * h)) + (s * (h * j)) = h * ((r * i) + (s * j))
        OBVIOUS
    <2> QED BY <1>5, <2>1, <2>2, <2>3
<1>6. q = b * ((u * p) + (v * q))
    BY <1>1, <1>2, <1>4, <1>5
<1>7. b = q * ((w * a) + (z * b))
    BY <1>1, <1>3, <1>4, <1>5
<1>8. b = q
    <2> DEFINE i == (u * p) + (v * q)
               j == (w * a) + (z * b)
    <2>1. i \in Int /\ j \in Int /\ q = b * i /\ b = q * j
        BY <1>1, <1>6, <1>7
    <2> HIDE DEF i, j
    <2>2. i >= 1 /\ j >= 1
        BY <1>1, <2>1
    <2>3. b * i >= b /\ q * j >= q
        BY <1>1, <2>1, <2>2
    <2> QED BY <1>1, <2>1, <2>3
<1>9. a = p
    BY <1>1, <1>4, <1>8
<1> QED BY <1>1, <1>8, <1>9

LEMMA NegativeIs ==
    ASSUME NEW y, NEW m, NEW e, Is(y, m, e)
    PROVE  Is(<<-y[1], y[2]>>, -m, e)
<1>1. /\ y[1] \in Int /\ y[2] \in Nat /\ y[2] # 0 /\ m \in Int /\ e \in Nat /\ e # 0
      /\ y[1] * e = m * y[2]
    BY DEF Is, Fraction
<1>2. PICK u \in Int, v \in Int : (u * y[1]) + (v * y[2]) = 1
    BY DEF Is, Fraction
<1>3. ((-u) * (-y[1])) + (v * y[2]) = 1 /\ -u \in Int
    BY <1>1, <1>2
<1>4. (-y[1]) * e = (-m) * y[2]
    BY <1>1
<1>5. <<-y[1], y[2]>> \in Fraction
    BY <1>1, <1>3 DEF Fraction
<1> QED BY <1>1, <1>4, <1>5 DEF Is

(* What is a ratio is every ratio that is equal to it.                      *)
LEMMA SameRatio ==
    ASSUME NEW r, NEW s, NEW t, NEW f \in Int, NEW h \in Nat, h # 0, Is(r, s, t), s * h = f * t
    PROVE  Is(r, f, h)
<1>1. r \in Fraction /\ r[1] \in Int /\ r[2] \in Nat /\ r[1] * t = s * r[2]
      /\ s \in Int /\ t \in Nat /\ t # 0
    BY DEF Is, Fraction
<1>2. (r[1] * h) * t = (r[1] * t) * h /\ (s * r[2]) * h = (s * h) * r[2]
      /\ (f * t) * r[2] = (f * r[2]) * t
    BY <1>1
<1>3. (r[1] * h) * t = (f * r[2]) * t
    BY <1>1, <1>2
<1> DEFINE i == r[1] * h
           j == f * r[2]
<1>4. i \in Int /\ j \in Int /\ i * t = j * t
    BY <1>1, <1>3
<1> HIDE DEF i, j
<1>5. i = j
    BY <1>1, <1>4
<1> QED BY <1>1, <1>5 DEF Is, i, j

LEMMA PlusIs ==
    ASSUME NEW x, NEW y, NEW n, NEW d, NEW m, NEW e, Is(x, n, d), Is(y, m, e)
    PROVE  Is(Plus(x, y), (n * e) + (m * d), d * e)
<1> DEFINE a == x[1]
           b == x[2]
           p == y[1]
           q == y[2]
           s == (a * q) + (p * b)
           t == b * q
           f == (n * e) + (m * d)
           h == d * e
<1>1. /\ a \in Int /\ b \in Nat /\ b # 0 /\ n \in Int /\ d \in Nat /\ d # 0
      /\ p \in Int /\ q \in Nat /\ q # 0 /\ m \in Int /\ e \in Nat /\ e # 0
      /\ a * d = n * b /\ p * e = m * q
    BY DEF Is, Fraction
<1>2. Plus(x, y) = Ratio(s, t)
    BY <1>1 DEF Plus, IsNaN
<1> HIDE DEF a, b, p, q
<1>3. s \in Int /\ t \in Nat /\ t # 0 /\ f \in Int /\ h \in Nat /\ h # 0
    BY <1>1
<1>4. s * h = f * t
    <2>1. (a * q) * (d * e) = (a * d) * (q * e) /\ (n * b) * (q * e) = (n * e) * (b * q)
        BY <1>1
    <2>2. (p * b) * (d * e) = (p * e) * (b * d) /\ (m * q) * (b * d) = (m * d) * (b * q)
        BY <1>1
    <2>3. s * h = ((a * q) * (d * e)) + ((p * b) * (d * e))
        BY <1>1
    <2>4. f * t = ((n * e) * (b * q)) + ((m * d) * (b * q))
        BY <1>1
    <2> QED BY <1>1, <2>1, <2>2, <2>3, <2>4
<1> HIDE DEF s, t, f, h
<1>5. Is(Ratio(s, t), f, h)
    BY <1>3, <1>4, RatioIs, SameRatio
<1> QED BY <1>2, <1>5 DEF f, h

LEMMA MinusIs ==
    ASSUME NEW x, NEW y, NEW n, NEW d, NEW m, NEW e, Is(x, n, d), Is(y, m, e)
    PROVE  Is(Minus(x, y), (n * e) - (m * d), d * e)
<1>1. n \in Int /\ d \in Nat /\ m \in Int /\ e \in Nat
    BY DEF Is
<1>2. Is(Minus(x, y), (n * e) + ((-m) * d), d * e)
    BY NegativeIs, PlusIs DEF Minus
<1>3. (n * e) + ((-m) * d) = (n * e) - (m * d)
    BY <1>1
<1> QED BY <1>2, <1>3

LEMMA TimesIs ==
    ASSUME NEW x, NEW y, NEW n, NEW d, NEW m, NEW e, Is(x, n, d), Is(y, m, e)
    PROVE  Is(Times(x, y), n * m, d * e)
<1> DEFINE a == x[1]
           b == x[2]
           p == y[1]
           q == y[2]
           s == a * p
           t == b * q
           f == n * m
           h == d * e
<1>1. /\ a \in Int /\ b \in Nat /\ b # 0 /\ n \in Int /\ d \in Nat /\ d # 0
      /\ p \in Int /\ q \in Nat /\ q # 0 /\ m \in Int /\ e \in Nat /\ e # 0
      /\ a * d = n * b /\ p * e = m * q
    BY DEF Is, Fraction
<1>2. Times(x, y) = Ratio(s, t)
    BY <1>1 DEF Times, IsNaN
<1> HIDE DEF a, b, p, q
<1>3. s \in Int /\ t \in Nat /\ t # 0 /\ f \in Int /\ h \in Nat /\ h # 0
    BY <1>1
<1>4. s * h = f * t
    <2>1. (a * p) * (d * e) = (a * d) * (p * e) /\ (n * b) * (m * q) = (n * m) * (b * q)
        BY <1>1
    <2> QED BY <1>1, <2>1
<1> HIDE DEF s, t, f, h
<1>5. Is(Ratio(s, t), f, h)
    BY <1>3, <1>4, RatioIs, SameRatio
<1> QED BY <1>2, <1>5 DEF f, h

LEMMA OverIs ==
    ASSUME NEW x, NEW y, NEW n, NEW d, NEW m, NEW e, Is(x, n, d), Is(y, m, e), m > 0
    PROVE  Is(Over(x, y), n * e, d * m)
<1>1. /\ y = <<y[1], y[2]>> /\ y[1] \in Int /\ y[2] \in Nat /\ y[2] # 0
      /\ m \in Int /\ e \in Nat /\ e # 0 /\ y[1] * e = m * y[2]
    BY DEF Is, Fraction
<1>2. y[1] > 0
    <2>1. m * y[2] > 0
        BY <1>1
    <2> QED BY <1>1, <2>1
<1>3. PICK u \in Int, v \in Int : (u * y[1]) + (v * y[2]) = 1
    BY DEF Is, Fraction
<1>4. (v * y[2]) + (u * y[1]) = 1 /\ y[2] * m = e * y[1]
    BY <1>1, <1>3
<1>5. <<y[2], y[1]>> \in Fraction
    BY <1>1, <1>2, <1>4 DEF Fraction
<1>6. Is(<<y[2], y[1]>>, e, m)
    BY <1>1, <1>4, <1>5 DEF Is
<1>7. Is(Times(x, <<y[2], y[1]>>), n * e, d * m)
    BY <1>6, TimesIs
<1>8. Over(x, y) = Times(x, <<y[2], y[1]>>)
    BY <1>1, <1>2 DEF Over, IsNaN
<1> QED BY <1>7, <1>8

LEMMA OrderIs ==
    ASSUME NEW x, NEW y, NEW n, NEW d, NEW m, NEW e, Is(x, n, d), Is(y, m, e)
    PROVE  /\ AtMost(x, y) <=> n * e <= m * d
           /\ Less(x, y) <=> n * e < m * d
<1> DEFINE r == Minus(x, y)
           s == (n * e) - (m * d)
           t == d * e
<1>1. Is(r, s, t)
    BY MinusIs
<1>2. n \in Int /\ d \in Nat /\ m \in Int /\ e \in Nat /\ x \in Fraction /\ y \in Fraction
    BY DEF Is
<1>3. ~IsNaN(x) /\ ~IsNaN(y)
    BY <1>2, FractionIs
<1>4. /\ s \in Int /\ t \in Nat /\ t # 0 /\ r[1] \in Int /\ r[2] \in Nat /\ r[2] # 0
      /\ r[1] * t = s * r[2]
    BY <1>1 DEF Is, Fraction
<1> HIDE DEF r, s, t
<1>5. (r[1] < 0 <=> s < 0) /\ (r[1] <= 0 <=> s <= 0)
    <2>1. r[1] < 0 => r[1] * t < 0
        BY <1>4
    <2>2. r[1] > 0 => r[1] * t > 0
        BY <1>4
    <2>3. s < 0 => s * r[2] < 0
        BY <1>4
    <2>4. s > 0 => s * r[2] > 0
        BY <1>4
    <2>5. (r[1] = 0 => r[1] * t = 0) /\ (s = 0 => s * r[2] = 0)
        BY <1>4
    <2> QED BY <1>4, <2>1, <2>2, <2>3, <2>4, <2>5
<1> QED BY <1>2, <1>3, <1>5 DEF AtMost, Less, r, s

-----------------------------------------------------------------------------
(* The laws of an ordered field, for fractions.                             *)
LEMMA WholeIs ==
    ASSUME NEW n \in Int
    PROVE  Whole(n) \in Fraction /\ Is(Whole(n), n, 1) /\ Whole(n)[1] = n /\ Whole(n)[2] = 1
<1>1. (0 * n) + (1 * 1) = 1
    OBVIOUS
<1> QED BY <1>1 DEF Whole, Fraction, Is

LEMMA ConstantsAre ==
    /\ Zero \in Fraction /\ Is(Zero, 0, 1) /\ One \in Fraction /\ Is(One, 1, 1)
    /\ Hundred \in Fraction /\ Is(Hundred, 100, 1)
BY WholeIs DEF Zero, One, Hundred

(* The parts of a fraction.                                                 *)
LEMMA Parts ==
    ASSUME NEW x \in Fraction
    PROVE  \E n \in Int, d \in Nat : d # 0 /\ Is(x, n, d) /\ n = x[1] /\ d = x[2]
BY FractionIs

LEMMA Closed ==
    ASSUME NEW x \in Fraction, NEW y \in Fraction
    PROVE  Plus(x, y) \in Fraction /\ Minus(x, y) \in Fraction /\ Times(x, y) \in Fraction
<1>1. PICK a \in Int, b \in Nat : Is(x, a, b)
    BY Parts
<1>2. PICK p \in Int, q \in Nat : Is(y, p, q)
    BY Parts
<1>3. /\ Is(Plus(x, y), (a * q) + (p * b), b * q)
      /\ Is(Minus(x, y), (a * q) - (p * b), b * q)
      /\ Is(Times(x, y), a * p, b * q)
    BY <1>1, <1>2, PlusIs, MinusIs, TimesIs
<1> QED BY <1>3 DEF Is

LEMMA PlusLaws ==
    ASSUME NEW x \in Fraction, NEW y \in Fraction
    PROVE  /\ Plus(x, y) = Plus(y, x)
           /\ Plus(x, Zero) = x /\ Plus(Zero, x) = x
           /\ Minus(Plus(x, y), y) = x /\ Plus(Minus(x, y), y) = x
           /\ Minus(x, x) = Zero
<1>1. PICK a \in Int, b \in Nat : b # 0 /\ Is(x, a, b)
    BY Parts
<1>2. PICK p \in Int, q \in Nat : q # 0 /\ Is(y, p, q)
    BY Parts
<1>3. Is(Plus(x, y), (a * q) + (p * b), b * q) /\ Is(Plus(y, x), (p * b) + (a * q), q * b)
    BY <1>1, <1>2, PlusIs
<1>4. Plus(x, y) = Plus(y, x)
    <2>1. ((a * q) + (p * b)) * (q * b) = ((p * b) + (a * q)) * (b * q)
        OBVIOUS
    <2> QED BY <1>3, <2>1, SameValue
<1>5. Plus(x, Zero) = x /\ Plus(Zero, x) = x
    <2>1. Is(Plus(x, Zero), (a * 1) + (0 * b), b * 1) /\ Is(Plus(Zero, x), (0 * b) + (a * 1), 1 * b)
        BY <1>1, ConstantsAre, PlusIs
    <2>2. /\ ((a * 1) + (0 * b)) * b = a * (b * 1)
          /\ ((0 * b) + (a * 1)) * b = a * (1 * b)
        OBVIOUS
    <2> QED BY <1>1, <2>1, <2>2, SameValue
<1>6. Minus(Plus(x, y), y) = x
    <2>1. Is(Minus(Plus(x, y), y), (((a * q) + (p * b)) * q) - (p * (b * q)), (b * q) * q)
        BY <1>2, <1>3, MinusIs
    <2>2. ((((a * q) + (p * b)) * q) - (p * (b * q))) * b = a * ((b * q) * q)
        OBVIOUS
    <2> QED BY <1>1, <2>1, <2>2, SameValue
<1>7. Plus(Minus(x, y), y) = x
    <2>1. Is(Minus(x, y), (a * q) - (p * b), b * q)
        BY <1>1, <1>2, MinusIs
    <2>2. Is(Plus(Minus(x, y), y), (((a * q) - (p * b)) * q) + (p * (b * q)), (b * q) * q)
        BY <1>2, <2>1, PlusIs
    <2>3. ((((a * q) - (p * b)) * q) + (p * (b * q))) * b = a * ((b * q) * q)
        OBVIOUS
    <2> QED BY <1>1, <2>2, <2>3, SameValue
<1>8. Minus(x, x) = Zero
    <2>1. Is(Minus(x, x), (a * b) - (a * b), b * b)
        BY <1>1, MinusIs
    <2>2. ((a * b) - (a * b)) * 1 = 0 * (b * b)
        OBVIOUS
    <2> QED BY <2>1, <2>2, ConstantsAre, SameValue
<1> QED BY <1>4, <1>5, <1>6, <1>7, <1>8

LEMMA PlusAssociates ==
    ASSUME NEW x \in Fraction, NEW y \in Fraction, NEW z \in Fraction
    PROVE  /\ Plus(Plus(x, y), z) = Plus(x, Plus(y, z))
           /\ Plus(x, Minus(y, z)) = Minus(Plus(x, y), z)
<1>1. PICK a \in Int, b \in Nat : b # 0 /\ Is(x, a, b)
    BY Parts
<1>2. PICK p \in Int, q \in Nat : q # 0 /\ Is(y, p, q)
    BY Parts
<1>3. PICK m \in Int, n \in Nat : n # 0 /\ Is(z, m, n)
    BY Parts
<1>4. Is(Plus(x, y), (a * q) + (p * b), b * q)
    BY <1>1, <1>2, PlusIs
<1>5. Plus(Plus(x, y), z) = Plus(x, Plus(y, z))
    <2>1. Is(Plus(Plus(x, y), z), (((a * q) + (p * b)) * n) + (m * (b * q)), (b * q) * n)
        BY <1>3, <1>4, PlusIs
    <2>2. Is(Plus(y, z), (p * n) + (m * q), q * n)
        BY <1>2, <1>3, PlusIs
    <2>3. Is(Plus(x, Plus(y, z)), (a * (q * n)) + (((p * n) + (m * q)) * b), b * (q * n))
        BY <1>1, <2>2, PlusIs
    <2>4. ((((a * q) + (p * b)) * n) + (m * (b * q))) * (b * (q * n))
          = ((a * (q * n)) + (((p * n) + (m * q)) * b)) * ((b * q) * n)
        OBVIOUS
    <2> QED BY <2>1, <2>3, <2>4, SameValue
<1>6. Plus(x, Minus(y, z)) = Minus(Plus(x, y), z)
    <2>1. Is(Minus(Plus(x, y), z), (((a * q) + (p * b)) * n) - (m * (b * q)), (b * q) * n)
        BY <1>3, <1>4, MinusIs
    <2>2. Is(Minus(y, z), (p * n) - (m * q), q * n)
        BY <1>2, <1>3, MinusIs
    <2>3. Is(Plus(x, Minus(y, z)), (a * (q * n)) + (((p * n) - (m * q)) * b), b * (q * n))
        BY <1>1, <2>2, PlusIs
    <2>4. ((((a * q) + (p * b)) * n) - (m * (b * q))) * (b * (q * n))
          = ((a * (q * n)) + (((p * n) - (m * q)) * b)) * ((b * q) * n)
        OBVIOUS
    <2> QED BY <2>1, <2>3, <2>4, SameValue
<1> QED BY <1>5, <1>6

LEMMA TimesLaws ==
    ASSUME NEW x \in Fraction, NEW y \in Fraction
    PROVE  /\ Times(x, y) = Times(y, x)
           /\ Times(x, One) = x /\ Times(x, Zero) = Zero
<1>1. PICK a \in Int, b \in Nat : b # 0 /\ Is(x, a, b)
    BY Parts
<1>2. PICK p \in Int, q \in Nat : q # 0 /\ Is(y, p, q)
    BY Parts
<1>3. /\ Is(Times(x, y), a * p, b * q) /\ Is(Times(y, x), p * a, q * b)
      /\ Is(Times(x, One), a * 1, b * 1) /\ Is(Times(x, Zero), a * 0, b * 1)
    BY <1>1, <1>2, ConstantsAre, TimesIs
<1>4. /\ (a * p) * (q * b) = (p * a) * (b * q)
      /\ (a * 1) * b = a * (b * 1) /\ (a * 0) * 1 = 0 * (b * 1)
    OBVIOUS
<1>5. Times(x, y) = Times(y, x)
    BY <1>3, <1>4, SameValue
<1>6. Times(x, One) = x
    BY <1>1, <1>3, <1>4, SameValue
<1>7. Times(x, Zero) = Zero
    BY <1>3, <1>4, ConstantsAre, SameValue
<1> QED BY <1>5, <1>6, <1>7

LEMMA TimesAssociates ==
    ASSUME NEW x \in Fraction, NEW y \in Fraction, NEW z \in Fraction
    PROVE  /\ Times(Times(x, y), z) = Times(x, Times(y, z))
           /\ Times(Plus(x, y), z) = Plus(Times(x, z), Times(y, z))
           /\ Times(Minus(x, y), z) = Minus(Times(x, z), Times(y, z))
<1>1. PICK a \in Int, b \in Nat : b # 0 /\ Is(x, a, b)
    BY Parts
<1>2. PICK p \in Int, q \in Nat : q # 0 /\ Is(y, p, q)
    BY Parts
<1>3. PICK m \in Int, n \in Nat : n # 0 /\ Is(z, m, n)
    BY Parts
<1>4. /\ Is(Times(x, y), a * p, b * q) /\ Is(Times(x, z), a * m, b * n)
      /\ Is(Times(y, z), p * m, q * n)
      /\ Is(Plus(x, y), (a * q) + (p * b), b * q) /\ Is(Minus(x, y), (a * q) - (p * b), b * q)
    BY <1>1, <1>2, <1>3, PlusIs, MinusIs, TimesIs
<1>5. Times(Times(x, y), z) = Times(x, Times(y, z))
    <2>1. Is(Times(Times(x, y), z), (a * p) * m, (b * q) * n)
        BY <1>3, <1>4, TimesIs
    <2>2. Is(Times(x, Times(y, z)), a * (p * m), b * (q * n))
        BY <1>1, <1>4, TimesIs
    <2>3. ((a * p) * m) * (b * (q * n)) = (a * (p * m)) * ((b * q) * n)
        OBVIOUS
    <2> QED BY <2>1, <2>2, <2>3, SameValue
<1>6. Times(Plus(x, y), z) = Plus(Times(x, z), Times(y, z))
    <2>1. Is(Times(Plus(x, y), z), ((a * q) + (p * b)) * m, (b * q) * n)
        BY <1>3, <1>4, TimesIs
    <2>2. Is(Plus(Times(x, z), Times(y, z)), ((a * m) * (q * n)) + ((p * m) * (b * n)),
             (b * n) * (q * n))
        BY <1>4, PlusIs
    <2>3. (((a * q) + (p * b)) * m) * ((b * n) * (q * n))
          = (((a * m) * (q * n)) + ((p * m) * (b * n))) * ((b * q) * n)
        OBVIOUS
    <2> QED BY <2>1, <2>2, <2>3, SameValue
<1>7. Times(Minus(x, y), z) = Minus(Times(x, z), Times(y, z))
    <2>1. Is(Times(Minus(x, y), z), ((a * q) - (p * b)) * m, (b * q) * n)
        BY <1>3, <1>4, TimesIs
    <2>2. Is(Minus(Times(x, z), Times(y, z)), ((a * m) * (q * n)) - ((p * m) * (b * n)),
             (b * n) * (q * n))
        BY <1>4, MinusIs
    <2>3. (((a * q) - (p * b)) * m) * ((b * n) * (q * n))
          = (((a * m) * (q * n)) - ((p * m) * (b * n))) * ((b * q) * n)
        OBVIOUS
    <2> QED BY <2>1, <2>2, <2>3, SameValue
<1> QED BY <1>5, <1>6, <1>7

(* A fraction that is more than 0.                                          *)
Positive == {x \in Fraction : x[1] > 0}

LEMMA PositiveIs ==
    ASSUME NEW x \in Fraction
    PROVE  /\ x \in Positive <=> Less(Zero, x)
           /\ x[1] = 0 <=> x = Zero
           /\ x[1] >= 0 <=> AtMost(Zero, x)
<1>1. x = <<x[1], x[2]>> /\ x[1] \in Int /\ x[2] \in Nat /\ x[2] # 0 /\ Is(x, x[1], x[2])
    BY FractionIs
<1> DEFINE a == x[1]
           b == x[2]
<1>2. /\ AtMost(Zero, x) <=> 0 * b <= a * 1
      /\ Less(Zero, x) <=> 0 * b < a * 1
    BY <1>1, OrderIs, ConstantsAre
<1>3. a = 0 => x = Zero
    <2> SUFFICES ASSUME a = 0 PROVE x = Zero
        OBVIOUS
    <2>1. a * 1 = 0 * b
        BY <1>1
    <2> QED BY <1>1, <2>1, ConstantsAre, SameValue
<1>4. Zero[1] = 0
    BY DEF Zero, Whole
<1> QED BY <1>1, <1>2, <1>3, <1>4 DEF Positive

LEMMA OverLaws ==
    ASSUME NEW x \in Fraction, NEW y \in Positive
    PROVE  /\ Over(x, y) \in Fraction
           /\ Times(Over(x, y), y) = x
           /\ Over(Times(x, y), y) = x
<1>1. PICK a \in Int, b \in Nat : b # 0 /\ Is(x, a, b)
    BY Parts
<1>2. PICK p \in Int, q \in Nat : q # 0 /\ Is(y, p, q) /\ p > 0
    BY Parts DEF Positive
<1>3. Is(Over(x, y), a * q, b * p) /\ Is(Times(x, y), a * p, b * q)
    BY <1>1, <1>2, OverIs, TimesIs
<1>4. Is(Times(Over(x, y), y), (a * q) * p, (b * p) * q)
    BY <1>2, <1>3, TimesIs
<1>5. Is(Over(Times(x, y), y), (a * p) * q, (b * q) * p)
    BY <1>2, <1>3, OverIs
<1>6. ((a * q) * p) * b = a * ((b * p) * q) /\ ((a * p) * q) * b = a * ((b * q) * p)
    OBVIOUS
<1>7. Times(Over(x, y), y) = x
    BY <1>1, <1>4, <1>6, SameValue
<1>8. Over(Times(x, y), y) = x
    BY <1>1, <1>5, <1>6, SameValue
<1> QED BY <1>3, <1>7, <1>8 DEF Is

LEMMA OverNegative ==
    ASSUME NEW x \in Fraction, NEW y \in Fraction, y[1] < 0
    PROVE  Over(x, y) \in Fraction
<1>1. y[1] \in Int /\ y[2] \in Nat /\ y[2] # 0 /\ ~IsNaN(y)
    BY FractionIs
<1>2. PICK u \in Int, v \in Int : (u * y[1]) + (v * y[2]) = 1
    BY DEF Fraction
<1>3. ((-v) * (-y[2])) + ((-u) * (-y[1])) = 1 /\ -u \in Int /\ -v \in Int
    BY <1>1, <1>2
<1>4. -y[1] \in Nat /\ -y[1] # 0 /\ -y[2] \in Int
    BY <1>1
<1>5. <<-y[2], -y[1]>> \in Fraction
    BY <1>3, <1>4 DEF Fraction
<1>6. Over(x, y) = Times(x, <<-y[2], -y[1]>>)
    BY <1>1 DEF Over
<1> QED BY <1>5, <1>6, Closed

(* The order of fractions is total.                                         *)
LEMMA Order ==
    ASSUME NEW x \in Fraction, NEW y \in Fraction
    PROVE  /\ AtMost(x, x) /\ ~Less(x, x)
           /\ AtMost(x, y) <=> ~Less(y, x)
           /\ AtMost(x, y) /\ AtMost(y, x) => x = y
           /\ Less(x, y) => AtMost(x, y)
<1>1. PICK a \in Int, b \in Nat : b # 0 /\ Is(x, a, b)
    BY Parts
<1>2. PICK p \in Int, q \in Nat : q # 0 /\ Is(y, p, q)
    BY Parts
<1>3. /\ AtMost(x, x) <=> a * b <= a * b
      /\ Less(x, x) <=> a * b < a * b
      /\ AtMost(x, y) <=> a * q <= p * b
      /\ Less(x, y) <=> a * q < p * b
      /\ AtMost(y, x) <=> p * b <= a * q
      /\ Less(y, x) <=> p * b < a * q
    BY <1>1, <1>2, OrderIs
<1> DEFINE l == a * q
           r == p * b
           s == a * b
<1>4. l \in Int /\ r \in Int /\ s \in Int
    OBVIOUS
<1>5. l = r => x = y
    BY <1>1, <1>2, SameValue
<1>6. /\ AtMost(x, x) <=> s <= s
      /\ Less(x, x) <=> s < s
      /\ AtMost(x, y) <=> l <= r
      /\ Less(x, y) <=> l < r
      /\ AtMost(y, x) <=> r <= l
      /\ Less(y, x) <=> r < l
    BY <1>3
<1> HIDE DEF l, r, s
<1> QED BY <1>4, <1>5, <1>6

LEMMA OrderPasses ==
    ASSUME NEW x \in Fraction, NEW y \in Fraction, NEW z \in Fraction, AtMost(x, y), AtMost(y, z)
    PROVE  AtMost(x, z)
<1>1. PICK a \in Int, b \in Nat : b # 0 /\ Is(x, a, b)
    BY Parts
<1>2. PICK p \in Int, q \in Nat : q # 0 /\ Is(y, p, q)
    BY Parts
<1>3. PICK m \in Int, n \in Nat : n # 0 /\ Is(z, m, n)
    BY Parts
<1>4. a * q <= p * b /\ p * n <= m * q
    BY <1>1, <1>2, <1>3, OrderIs
<1>5. (a * q) * n <= (p * b) * n /\ (p * n) * b <= (m * q) * b
    <2> DEFINE s == a * q
               t == p * b
               u == p * n
               v == m * q
    <2>1. s \in Int /\ t \in Int /\ u \in Int /\ v \in Int /\ s <= t /\ u <= v
        BY <1>4
    <2> HIDE DEF s, t, u, v
    <2>2. s * n <= t * n /\ u * b <= v * b
        BY <1>1, <1>3, <2>1
    <2> QED BY <2>2 DEF s, t, u, v
<1>6. /\ (a * q) * n = (a * n) * q /\ (p * b) * n = (p * n) * b
      /\ (m * q) * b = (m * b) * q
    OBVIOUS
<1>7. a * n <= m * b
    <2> DEFINE s == a * n
               t == m * b
    <2>1. s \in Int /\ t \in Int /\ (p * b) * n \in Int /\ s * q <= t * q
        BY <1>5, <1>6
    <2> HIDE DEF s, t
    <2>2. s <= t
        BY <1>2, <2>1
    <2> QED BY <2>2 DEF s, t
<1> QED BY <1>1, <1>3, <1>7, OrderIs

LEMMA LessPasses ==
    ASSUME NEW x \in Fraction, NEW y \in Fraction, NEW z \in Fraction
    PROVE  /\ Less(x, y) /\ AtMost(y, z) => Less(x, z)
           /\ AtMost(x, y) /\ Less(y, z) => Less(x, z)
BY Order, OrderPasses

(* What is added to both sides, and what both sides are multiplied with.    *)
LEMMA OrderAdds ==
    ASSUME NEW x \in Fraction, NEW y \in Fraction, NEW z \in Fraction
    PROVE  /\ AtMost(x, y) <=> AtMost(Plus(x, z), Plus(y, z))
           /\ AtMost(x, y) <=> AtMost(Minus(x, z), Minus(y, z))
           /\ AtMost(x, y) <=> AtMost(Minus(z, y), Minus(z, x))
<1>1. PICK a \in Int, b \in Nat : b # 0 /\ Is(x, a, b)
    BY Parts
<1>2. PICK p \in Int, q \in Nat : q # 0 /\ Is(y, p, q)
    BY Parts
<1>3. PICK m \in Int, n \in Nat : n # 0 /\ Is(z, m, n)
    BY Parts
<1> DEFINE s == a * q
           t == p * b
           w == n * n
<1>4. s \in Int /\ t \in Int /\ w \in Int /\ w > 0 /\ (AtMost(x, y) <=> s <= t)
    <2>1. w \in Int /\ w > 0
        BY <1>3
    <2>2. AtMost(x, y) <=> s <= t
        BY <1>1, <1>2, OrderIs
    <2> QED BY <2>1, <2>2
<1>5. /\ Is(Plus(x, z), (a * n) + (m * b), b * n) /\ Is(Plus(y, z), (p * n) + (m * q), q * n)
      /\ Is(Minus(x, z), (a * n) - (m * b), b * n) /\ Is(Minus(y, z), (p * n) - (m * q), q * n)
      /\ Is(Minus(z, x), (m * b) - (a * n), n * b) /\ Is(Minus(z, y), (m * q) - (p * n), n * q)
    BY <1>1, <1>2, <1>3, PlusIs, MinusIs
<1>6. /\ AtMost(Plus(x, z), Plus(y, z)) <=>
             ((a * n) + (m * b)) * (q * n) <= ((p * n) + (m * q)) * (b * n)
      /\ AtMost(Minus(x, z), Minus(y, z)) <=>
             ((a * n) - (m * b)) * (q * n) <= ((p * n) - (m * q)) * (b * n)
      /\ AtMost(Minus(z, y), Minus(z, x)) <=>
             ((m * q) - (p * n)) * (n * b) <= ((m * b) - (a * n)) * (n * q)
    BY <1>5, OrderIs
<1> DEFINE c == (m * b) * (q * n)
<1>7. /\ ((a * n) + (m * b)) * (q * n) = (s * w) + c
      /\ ((p * n) + (m * q)) * (b * n) = (t * w) + c
      /\ ((a * n) - (m * b)) * (q * n) = (s * w) - c
      /\ ((p * n) - (m * q)) * (b * n) = (t * w) - c
      /\ ((m * q) - (p * n)) * (n * b) = c - (t * w)
      /\ ((m * b) - (a * n)) * (n * q) = c - (s * w)
    OBVIOUS
<1>8. c \in Int
    OBVIOUS
<1>9. /\ AtMost(Plus(x, z), Plus(y, z)) <=> (s * w) + c <= (t * w) + c
      /\ AtMost(Minus(x, z), Minus(y, z)) <=> (s * w) - c <= (t * w) - c
      /\ AtMost(Minus(z, y), Minus(z, x)) <=> c - (t * w) <= c - (s * w)
    BY <1>6, <1>7
<1> HIDE DEF s, t, w, c
<1>10. s <= t <=> s * w <= t * w
    BY <1>4
<1>11. s * w \in Int /\ t * w \in Int
    BY <1>4
<1> DEFINE i == s * w
           j == t * w
<1> HIDE DEF i, j
<1>12. i \in Int /\ j \in Int /\ (s <= t <=> i <= j)
    BY <1>10, <1>11 DEF i, j
<1>13. /\ AtMost(Plus(x, z), Plus(y, z)) <=> i + c <= j + c
       /\ AtMost(Minus(x, z), Minus(y, z)) <=> i - c <= j - c
       /\ AtMost(Minus(z, y), Minus(z, x)) <=> c - j <= c - i
    BY <1>9 DEF i, j
<1>14. (i <= j <=> i + c <= j + c) /\ (i <= j <=> i - c <= j - c) /\ (i <= j <=> c - j <= c - i)
    BY <1>8, <1>12
<1> QED BY <1>4, <1>12, <1>13, <1>14

LEMMA OrderMultiplies ==
    ASSUME NEW x \in Fraction, NEW y \in Fraction, NEW z \in Fraction, AtMost(Zero, z)
    PROVE  AtMost(x, y) => AtMost(Times(x, z), Times(y, z))
<1> SUFFICES ASSUME AtMost(x, y) PROVE AtMost(Times(x, z), Times(y, z))
    OBVIOUS
<1>1. PICK a \in Int, b \in Nat : b # 0 /\ Is(x, a, b)
    BY Parts
<1>2. PICK p \in Int, q \in Nat : q # 0 /\ Is(y, p, q)
    BY Parts
<1>3. PICK m \in Int, n \in Nat : n # 0 /\ Is(z, m, n) /\ m >= 0
    BY Parts, PositiveIs
<1> DEFINE s == a * q
           t == p * b
           w == m * n
<1>4. s \in Int /\ t \in Int /\ w \in Int /\ w >= 0 /\ s <= t
    <2>1. w \in Int /\ w >= 0
        BY <1>3
    <2>2. s <= t
        BY <1>1, <1>2, OrderIs
    <2> QED BY <2>1, <2>2
<1>5. Is(Times(x, z), a * m, b * n) /\ Is(Times(y, z), p * m, q * n)
    BY <1>1, <1>2, <1>3, TimesIs
<1>6. AtMost(Times(x, z), Times(y, z)) <=> (a * m) * (q * n) <= (p * m) * (b * n)
    BY <1>5, OrderIs
<1>7. (a * m) * (q * n) = s * w /\ (p * m) * (b * n) = t * w
    OBVIOUS
<1>8. AtMost(Times(x, z), Times(y, z)) <=> s * w <= t * w
    BY <1>6, <1>7
<1> HIDE DEF s, t, w
<1>9. s * w <= t * w
    BY <1>4
<1> QED BY <1>8, <1>9

LEMMA OrderDivides ==
    ASSUME NEW x \in Fraction, NEW y \in Fraction, NEW z \in Positive
    PROVE  /\ AtMost(x, y) <=> AtMost(Over(x, z), Over(y, z))
           /\ AtMost(x, Times(y, z)) <=> AtMost(Over(x, z), y)
           /\ AtMost(Times(y, z), x) <=> AtMost(y, Over(x, z))
<1>1. PICK a \in Int, b \in Nat : b # 0 /\ Is(x, a, b)
    BY Parts
<1>2. PICK p \in Int, q \in Nat : q # 0 /\ Is(y, p, q)
    BY Parts
<1>3. PICK m \in Int, n \in Nat : n # 0 /\ Is(z, m, n) /\ m > 0
    BY Parts DEF Positive
<1>4. /\ Is(Over(x, z), a * n, b * m) /\ Is(Over(y, z), p * n, q * m)
      /\ Is(Times(y, z), p * m, q * n)
    BY <1>1, <1>2, <1>3, OverIs, TimesIs
<1>5. /\ AtMost(x, y) <=> a * q <= p * b
      /\ AtMost(Over(x, z), Over(y, z)) <=> (a * n) * (q * m) <= (p * n) * (b * m)
      /\ AtMost(x, Times(y, z)) <=> a * (q * n) <= (p * m) * b
      /\ AtMost(Over(x, z), y) <=> (a * n) * q <= p * (b * m)
      /\ AtMost(Times(y, z), x) <=> (p * m) * b <= a * (q * n)
      /\ AtMost(y, Over(x, z)) <=> p * (b * m) <= (a * n) * q
    BY <1>1, <1>2, <1>4, OrderIs
<1> DEFINE s == a * q
           t == p * b
           w == m * n
<1>6. s \in Int /\ t \in Int /\ w \in Int /\ w > 0
    BY <1>3
<1>7. /\ (a * n) * (q * m) = s * w /\ (p * n) * (b * m) = t * w
      /\ a * (q * n) = (a * n) * q /\ (p * m) * b = p * (b * m)
    OBVIOUS
<1>8. /\ AtMost(x, y) <=> s <= t
      /\ AtMost(Over(x, z), Over(y, z)) <=> s * w <= t * w
      /\ AtMost(x, Times(y, z)) <=> AtMost(Over(x, z), y)
      /\ AtMost(Times(y, z), x) <=> AtMost(y, Over(x, z))
    BY <1>5, <1>7
<1> HIDE DEF s, t, w
<1>9. s <= t <=> s * w <= t * w
    BY <1>6
<1> QED BY <1>8, <1>9

(* Whole numbers are fractions like any other.                              *)
LEMMA WholesAre ==
    ASSUME NEW n \in Int, NEW m \in Int
    PROVE  /\ Whole(n) \in Fraction
           /\ AtMost(Whole(n), Whole(m)) <=> n <= m
           /\ Less(Whole(n), Whole(m)) <=> n < m
           /\ Plus(Whole(n), Whole(m)) = Whole(n + m)
           /\ n > 0 => Whole(n) \in Positive
<1>1. Is(Whole(n), n, 1) /\ Is(Whole(m), m, 1) /\ Is(Whole(n + m), n + m, 1)
    BY WholeIs
<1>2. /\ AtMost(Whole(n), Whole(m)) <=> n * 1 <= m * 1
      /\ Less(Whole(n), Whole(m)) <=> n * 1 < m * 1
    BY <1>1, OrderIs
<1>3. Is(Plus(Whole(n), Whole(m)), (n * 1) + (m * 1), 1 * 1)
    BY <1>1, PlusIs
<1>4. ((n * 1) + (m * 1)) * 1 = (n + m) * (1 * 1)
    OBVIOUS
<1>5. Plus(Whole(n), Whole(m)) = Whole(n + m)
    BY <1>1, <1>3, <1>4, SameValue
<1> QED BY <1>2, <1>5, WholeIs DEF Positive

LEMMA RatiosAre ==
    ASSUME NEW n \in Int, NEW d \in Nat, d # 0
    PROVE  /\ Ratio(n, d) \in Fraction
           /\ n >= 0 => AtMost(Zero, Ratio(n, d))
           /\ n > 0 => Ratio(n, d) \in Positive
           /\ n <= d => AtMost(Ratio(n, d), One)
<1>1. Is(Ratio(n, d), n, d) /\ Is(Zero, 0, 1) /\ Is(One, 1, 1)
    BY RatioIs, ConstantsAre
<1>2. /\ AtMost(Zero, Ratio(n, d)) <=> 0 * d <= n * 1
      /\ Less(Zero, Ratio(n, d)) <=> 0 * d < n * 1
      /\ AtMost(Ratio(n, d), One) <=> n * 1 <= 1 * d
    BY <1>1, OrderIs
<1>3. Ratio(n, d) \in Fraction
    BY <1>1 DEF Is
<1> QED BY <1>2, <1>3, PositiveIs

-----------------------------------------------------------------------------
(* Numbers: whatever is computed from numbers is one, and NaN where it must *)
(* be.                                                                      *)
LEMMA NumbersClosed ==
    ASSUME NEW x \in Numbers, NEW y \in Numbers
    PROVE  /\ Plus(x, y) \in Numbers /\ Minus(x, y) \in Numbers
           /\ Times(x, y) \in Numbers /\ Over(x, y) \in Numbers
           /\ (IsNaN(x) \/ IsNaN(y)) =>
                 /\ Plus(x, y) = NaN /\ Minus(x, y) = NaN /\ Times(x, y) = NaN /\ Over(x, y) = NaN
                 /\ ~Less(x, y) /\ ~AtMost(x, y)
<1>1. CASE x \in Fraction /\ y \in Fraction
    <2>1. ~IsNaN(x) /\ ~IsNaN(y) /\ Fraction \subseteq Numbers
        BY <1>1, FractionIs
    <2>2. Plus(x, y) \in Fraction /\ Minus(x, y) \in Fraction /\ Times(x, y) \in Fraction
        BY <1>1, Closed
    <2>3. Over(x, y) \in Numbers
        <3>1. y[1] \in Int
            BY <1>1, FractionIs
        <3>2. CASE y[1] > 0
            BY <1>1, <2>1, <3>2, OverLaws DEF Positive
        <3>3. CASE y[1] = 0
            BY <3>3, NaNIs DEF Over
        <3>4. CASE y[1] < 0
            BY <1>1, <2>1, <3>4, OverNegative
        <3> QED BY <3>1, <3>2, <3>3, <3>4
    <2> QED BY <2>1, <2>2, <2>3
<1>2. CASE IsNaN(x) \/ IsNaN(y)
    <2>1. Plus(x, y) = NaN /\ Times(x, y) = NaN
        BY <1>2 DEF Plus, Times
    <2>2. Minus(x, y) = NaN
        BY <1>2 DEF Minus, Plus, IsNaN
    <2>3. Over(x, y) = NaN
        BY <1>2 DEF Over, Times
    <2> QED BY <1>2, <2>1, <2>2, <2>3, NaNIs DEF Less, AtMost
<1> QED BY <1>1, <1>2, NumbersAre

(* The larger and the lesser of two numbers, and how far they are apart.    *)
LEMMA Larger ==
    ASSUME NEW x \in Fraction, NEW y \in Fraction
    PROVE  /\ Greater(x, y) \in {x, y} /\ AtMost(x, Greater(x, y)) /\ AtMost(y, Greater(x, y))
           /\ Lesser(x, y) \in {x, y} /\ AtMost(Lesser(x, y), x) /\ AtMost(Lesser(x, y), y)
<1>1. ~IsNaN(x) /\ ~IsNaN(y) /\ (AtMost(x, y) <=> ~Less(y, x)) /\ AtMost(x, x) /\ AtMost(y, y)
      /\ (Less(y, x) => AtMost(y, x))
    BY FractionIs, Order
<1>2. CASE AtMost(x, y)
    <2>1. Greater(x, y) = y /\ Lesser(x, y) = x
        BY <1>1, <1>2 DEF Greater, Lesser
    <2> QED BY <1>1, <1>2, <2>1
<1>3. CASE ~AtMost(x, y)
    <2>1. Greater(x, y) = x /\ Lesser(x, y) = y
        BY <1>1, <1>3 DEF Greater, Lesser
    <2> QED BY <1>1, <1>3, <2>1
<1> QED BY <1>2, <1>3

LEMMA LargerOfNumbers ==
    ASSUME NEW x \in Numbers, NEW y \in Numbers
    PROVE  /\ Greater(x, y) \in Numbers /\ Lesser(x, y) \in Numbers /\ Distance(x, y) \in Numbers
           /\ (IsNaN(x) \/ IsNaN(y)) =>
                 Greater(x, y) = NaN /\ Lesser(x, y) = NaN /\ Distance(x, y) = NaN
<1>1. ASSUME NEW a \in Numbers, NEW b \in Numbers
      PROVE  /\ Greater(a, b) \in Numbers /\ Lesser(a, b) \in Numbers
             /\ (IsNaN(a) \/ IsNaN(b)) => Greater(a, b) = NaN /\ Lesser(a, b) = NaN
    <2>1. CASE IsNaN(a) \/ IsNaN(b)
        <3>1. Greater(a, b) = NaN /\ Lesser(a, b) = NaN
            <4>1. ~AtMost(a, b) /\ ~Less(b, a)
                BY <2>1 DEF AtMost, Less
            <4> QED BY <2>1, <4>1 DEF Greater, Lesser
        <3> QED BY <3>1, NaNIs
    <2>2. CASE ~IsNaN(a) /\ ~IsNaN(b)
        <3>1. a \in Fraction /\ b \in Fraction
            BY <2>2, NumbersAre
        <3>2. Greater(a, b) \in {a, b} /\ Lesser(a, b) \in {a, b}
            BY <3>1, Larger
        <3> QED BY <2>2, <3>2
    <2> QED BY <2>1, <2>2
<1>2. Minus(x, y) \in Numbers /\ Minus(y, x) \in Numbers
      /\ ((IsNaN(x) \/ IsNaN(y)) => Minus(x, y) = NaN)
    BY NumbersClosed
<1> QED BY <1>1, <1>2, NaNIs DEF Distance

LEMMA DistanceIs ==
    ASSUME NEW x \in Fraction, NEW y \in Fraction
    PROVE  /\ Distance(x, y) \in Fraction /\ AtMost(Zero, Distance(x, y))
           /\ AtMost(Minus(x, y), Distance(x, y)) /\ AtMost(Minus(y, x), Distance(x, y))
           /\ Distance(x, y) \in {Minus(x, y), Minus(y, x)}
<1> DEFINE u == Minus(x, y)
           v == Minus(y, x)
<1>1. u \in Fraction /\ v \in Fraction
    BY Closed
<1>2. /\ Distance(x, y) \in {u, v} /\ AtMost(u, Distance(x, y)) /\ AtMost(v, Distance(x, y))
    BY <1>1, Larger DEF Distance
<1>3. AtMost(Zero, u) \/ AtMost(Zero, v)
    <2>1. AtMost(x, y) \/ AtMost(y, x)
        BY Order
    <2>2. (AtMost(x, y) <=> AtMost(Minus(x, x), Minus(y, x)))
          /\ (AtMost(y, x) <=> AtMost(Minus(y, y), Minus(x, y)))
        BY OrderAdds
    <2>3. Minus(x, x) = Zero /\ Minus(y, y) = Zero
        BY PlusLaws
    <2> QED BY <2>1, <2>2, <2>3
<1>4. AtMost(Zero, Distance(x, y))
    <2> HIDE DEF u, v
    <2> QED BY <1>1, <1>2, <1>3, OrderPasses, ConstantsAre
<1> QED BY <1>1, <1>2, <1>4

-----------------------------------------------------------------------------
(* A function on 0 .. L that starts at base and goes on by step[n].         *)
Follows(f, L, V, base, step) ==
    /\ f \in [0 .. L -> V]
    /\ f[0] = base
    /\ \A n \in 1 .. L : f[n] = step[n][f[n - 1]]

(* Such a function exists.                                                  *)
LEMMA Recursion ==
    ASSUME NEW L \in Nat, NEW V, NEW base \in V, NEW step \in [1 .. L -> [V -> V]]
    PROVE  \E f : Follows(f, L, V, base, step)
<1> DEFINE S == {m \in Nat : m <= L => \E f : Follows(f, m, V, base, step)}
<1>1. 0 \in S
    <2> DEFINE f == [n \in 0 .. 0 |-> base]
    <2>1. f \in [0 .. 0 -> V] /\ f[0] = base /\ 1 .. 0 = {}
        OBVIOUS
    <2> QED BY <2>1 DEF Follows
<1>2. ASSUME NEW m \in Nat, m \in S PROVE m + 1 \in S
    <2> SUFFICES ASSUME m + 1 <= L PROVE \E f : Follows(f, m + 1, V, base, step)
        OBVIOUS
    <2>1. PICK f : Follows(f, m, V, base, step)
        BY <1>2
    <2> DEFINE g == [n \in 0 .. (m + 1) |-> IF n = m + 1 THEN step[m + 1][f[m]] ELSE f[n]]
    <2>2. f[m] \in V /\ m + 1 \in 1 .. L
        BY <2>1 DEF Follows
    <2>3. step[m + 1][f[m]] \in V
        BY <2>2
    <2>4. g \in [0 .. (m + 1) -> V] /\ g[0] = base
        BY <2>1, <2>3 DEF Follows
    <2>5. ASSUME NEW n \in 1 .. (m + 1) PROVE g[n] = step[n][g[n - 1]]
        <3>1. g[n - 1] = f[n - 1]
            OBVIOUS
        <3>2. CASE n = m + 1
            BY <3>1, <3>2
        <3>3. CASE n \in 1 .. m
            <4>1. g[n] = f[n]
                BY <3>3
            <4> QED BY <2>1, <3>1, <3>3, <4>1 DEF Follows
        <3> QED BY <3>2, <3>3
    <2> HIDE DEF g
    <2> QED BY <2>4, <2>5 DEF Follows
<1>3. \A n \in Nat : (\A m \in Nat : m < n => m \in S) => n \in S
    <2> SUFFICES ASSUME NEW n \in Nat, \A m \in Nat : m < n => m \in S PROVE n \in S
        OBVIOUS
    <2>1. CASE n = 0
        BY <1>1, <2>1
    <2>2. CASE n # 0
        <3>1. n - 1 \in Nat /\ n - 1 < n /\ (n - 1) + 1 = n
            BY <2>2
        <3> HIDE DEF S
        <3>2. n - 1 \in S
            BY <3>1
        <3>3. (n - 1) + 1 \in S
            BY <1>2, <3>1, <3>2
        <3> QED BY <3>1, <3>3
    <2> QED BY <2>1, <2>2
<1>4. Nat \subseteq S
    <2> HIDE DEF S
    <2> QED BY <1>3, Induction
<1> QED BY <1>4

(* The sum of a sequence is made of the sums of its beginnings.             *)
Sums(f, s) == Follows(f, Len(s), Numbers, Zero,
                      [i \in 1 .. Len(s) |-> [v \in Numbers |-> Plus(v, s[i])]])

LEMMA TotalIs ==
    ASSUME NEW s \in Seq(Numbers)
    PROVE  \E f : Sums(f, s) /\ Total(s) = f[Len(s)]
<1> DEFINE n == Len(s)
           Body(f) == [i \in 0 .. n |-> IF i = 0 THEN Zero ELSE Plus(f[i - 1], s[i])]
           step == [i \in 1 .. n |-> [v \in Numbers |-> Plus(v, s[i])]]
<1>1. n \in Nat /\ Zero \in Numbers
    BY ConstantsAre DEF Numbers
<1>2. step \in [1 .. n -> [Numbers -> Numbers]]
    <2>1. \A i \in 1 .. n : s[i] \in Numbers
        OBVIOUS
    <2> QED BY <2>1, NumbersClosed
<1>3. PICK f : Follows(f, n, Numbers, Zero, step)
    <2> HIDE DEF n, step
    <2> QED BY <1>1, <1>2, Recursion
<1>4. f = Body(f)
    <2>1. f = [i \in 0 .. n |-> f[i]] /\ f[0] = Zero
        BY <1>3 DEF Follows
    <2>2. \A i \in 1 .. n : f[i] = Plus(f[i - 1], s[i])
        <3> SUFFICES ASSUME NEW i \in 1 .. n PROVE f[i] = Plus(f[i - 1], s[i])
            OBVIOUS
        <3>1. i - 1 \in 0 .. n
            BY <1>1
        <3>2. f[i - 1] \in Numbers /\ f[i] = step[i][f[i - 1]]
            BY <1>3, <3>1 DEF Follows
        <3> QED BY <3>2
    <2>3. \A i \in 0 .. n : f[i] = IF i = 0 THEN Zero ELSE Plus(f[i - 1], s[i])
        <3>1. \A i \in 0 .. n : i = 0 \/ i \in 1 .. n
            BY <1>1
        <3>2. \A i \in 1 .. n : i # 0
            BY <1>1
        <3> HIDE DEF n
        <3> QED BY <2>1, <2>2, <3>1, <3>2
    <2> HIDE DEF n
    <2> QED BY <2>1, <2>3
<1> DEFINE c == CHOOSE g : g = Body(g)
<1>5. Total(s) = c[n]
    BY DEF Total
<1>6. c = Body(c)
    <2> HIDE DEF Body
    <2> QED BY <1>4
<1> HIDE DEF c
<1>7. \A i \in 0 .. n : c[i] = IF i = 0 THEN Zero ELSE Plus(c[i - 1], s[i])
    <2> HIDE DEF n
    <2> QED BY <1>6
<1>8. DOMAIN c = 0 .. n /\ c = [i \in 0 .. n |-> c[i]]
    <2> HIDE DEF n
    <2> QED BY <1>6
<1>9. \A i \in 0 .. n : c[i] \in Numbers
    <2> DEFINE S == {i \in Nat : i <= n => c[i] \in Numbers}
    <2>1. \A i \in Nat : (\A m \in Nat : m < i => m \in S) => i \in S
        <3> SUFFICES ASSUME NEW i \in Nat, \A m \in Nat : m < i => m \in S, i <= n
                     PROVE  c[i] \in Numbers
            OBVIOUS
        <3>1. CASE i = 0
            BY <1>1, <1>7, <3>1
        <3>2. CASE i # 0
            <4>1. i - 1 \in Nat /\ i \in 1 .. n /\ i \in 0 .. n
                BY <1>1, <3>2
            <4>2. c[i - 1] \in Numbers
                BY <1>1, <4>1
            <4>3. s[i] \in Numbers
                BY <4>1
            <4>4. c[i] = Plus(c[i - 1], s[i])
                BY <1>7, <3>2, <4>1
            <4> QED BY <4>2, <4>3, <4>4, NumbersClosed
        <3> QED BY <3>1, <3>2
    <2>2. Nat \subseteq S
        <3> HIDE DEF S
        <3> QED BY <2>1, Induction
    <2> QED BY <1>1, <2>2
<1>10. Follows(c, n, Numbers, Zero, step)
    <2>1. c \in [0 .. n -> Numbers]
        BY <1>8, <1>9
    <2>2. c[0] = Zero /\ \A i \in 1 .. n : c[i] = Plus(c[i - 1], s[i]) /\ c[i - 1] \in Numbers
        BY <1>1, <1>7, <1>9
    <2> QED BY <2>1, <2>2 DEF Follows
<1> QED BY <1>5, <1>10 DEF Sums

-----------------------------------------------------------------------------
(* A series that begins at first and goes from each value to the next.      *)
Runs(r, n, first, start, V, step) ==
    /\ r \in Seq(V \cup {NaN}) /\ Len(r) = n
    /\ \A i \in 1 .. n :
          /\ i < first => r[i] = NaN
          /\ i = first => r[i] = start
          /\ i > first => r[i] = step[i][r[i - 1]]
          /\ i >= first => r[i] \in V

(* F builds it up, as far as its values are in V.                           *)
Builds(F, n, first, start, V, step) ==
    /\ F[0] = <<>>
    /\ \A i \in 1 .. n :
          /\ i < first => F[i] = Append(F[i - 1], NaN)
          /\ i = first => F[i] = Append(F[i - 1], start)
          /\ i > first /\ F[i - 1][i - 1] \in V =>
                F[i] = Append(F[i - 1], step[i][F[i - 1][i - 1]])

LEMMA Appended ==
    ASSUME NEW W, NEW s \in Seq(W), NEW v \in W
    PROVE  /\ Append(s, v) \in Seq(W) /\ Len(Append(s, v)) = Len(s) + 1
           /\ \A j \in 1 .. Len(s) : Append(s, v)[j] = s[j]
           /\ Append(s, v)[Len(s) + 1] = v
OBVIOUS

LEMMA BuiltIs ==
    ASSUME NEW n \in Nat, NEW first \in Nat, first > 0, NEW V, NEW step, NEW F, NEW start,
           first <= n => start \in V, step \in [1 .. n -> [V -> V]],
           Builds(F, n, first, start, V, step)
    PROVE  \A i \in 0 .. n : Runs(F[i], i, first, start, V, step)
<1> DEFINE W == V \cup {NaN}
           S == {i \in Nat : i <= n => Runs(F[i], i, first, start, V, step)}
<1>1. ASSUME NEW i \in Nat, i <= n, i = 0 PROVE Runs(F[i], i, first, start, V, step)
    <2>1. F[i] = <<>> /\ <<>> \in Seq(W) /\ Len(<<>>) = 0 /\ 1 .. 0 = {}
        BY <1>1 DEF Builds
    <2> QED BY <1>1, <2>1 DEF Runs
<1>2. ASSUME NEW i \in Nat, i <= n, i # 0, Runs(F[i - 1], i - 1, first, start, V, step)
      PROVE  Runs(F[i], i, first, start, V, step)
    <2> DEFINE done == F[i - 1]
    <2>1. done \in Seq(W) /\ Len(done) = i - 1 /\ i \in 1 .. n /\ i - 1 \in Nat
        BY <1>2 DEF Runs
    <2>2. i > first => done[i - 1] \in V
        BY <1>2, <2>1 DEF Runs
    <2> DEFINE v == IF i < first THEN NaN ELSE IF i = first THEN start ELSE step[i][done[i - 1]]
    <2>3. v \in W /\ (i >= first => v \in V)
        BY <1>2, <2>1, <2>2
    <2>4. F[i] = Append(done, v)
        <3>1. /\ i < first => F[i] = Append(done, NaN)
              /\ i = first => F[i] = Append(done, start)
              /\ i > first => F[i] = Append(done, step[i][done[i - 1]])
            BY <1>2, <2>1, <2>2 DEF Builds
        <3> HIDE DEF done
        <3>2. CASE i < first
            BY <3>1, <3>2
        <3>3. CASE i = first
            BY <3>1, <3>3
        <3>4. CASE i > first
            BY <3>1, <3>4
        <3> QED BY <2>1, <3>2, <3>3, <3>4
    <2>5. \A j \in 1 .. i - 1 : /\ j < first => done[j] = NaN
                                /\ j = first => done[j] = start
                                /\ j > first => done[j] = step[j][done[j - 1]]
                                /\ j >= first => done[j] \in V
        BY <1>2 DEF Runs
    <2> DEFINE r == Append(done, v)
    <2> HIDE DEF done, W
    <2>6. r \in Seq(W) /\ Len(r) = i /\ (\A j \in 1 .. i - 1 : r[j] = done[j]) /\ r[i] = v
        <3>1. (i - 1) + 1 = i
            BY <1>2
        <3> HIDE DEF v
        <3> QED BY <2>1, <2>3, <3>1, Appended
    <2> HIDE DEF r
    <2>7. ASSUME NEW j \in 1 .. i
          PROVE  /\ j < first => r[j] = NaN
                 /\ j = first => r[j] = start
                 /\ j > first => r[j] = step[j][r[j - 1]]
                 /\ j >= first => r[j] \in V
        <3>1. CASE j = i
            <4>1. i > first => r[i - 1] = done[i - 1]
                BY <1>2, <2>1, <2>6
            <4> QED BY <2>3, <2>6, <3>1, <4>1
        <3>2. CASE j \in 1 .. i - 1
            <4>1. j > first => j - 1 \in 1 .. i - 1
                BY <1>2, <3>2
            <4>2. r[j] = done[j] /\ (j > first => r[j - 1] = done[j - 1])
                BY <2>6, <3>2, <4>1
            <4> QED BY <2>5, <3>2, <4>2
        <3> QED BY <1>2, <3>1, <3>2
    <2> QED BY <2>4, <2>6, <2>7 DEF Runs, r, W
<1>3. \A i \in Nat : (\A m \in Nat : m < i => m \in S) => i \in S
    <2> SUFFICES ASSUME NEW i \in Nat, \A m \in Nat : m < i => m \in S, i <= n
                 PROVE  Runs(F[i], i, first, start, V, step)
        OBVIOUS
    <2>1. CASE i = 0
        BY <1>1, <2>1
    <2>2. CASE i # 0
        <3>1. i - 1 \in Nat /\ i - 1 < i /\ i - 1 <= n
            BY <2>2
        <3> QED BY <1>2, <2>2, <3>1
    <2> QED BY <2>1, <2>2
<1>4. Nat \subseteq S
    <2> HIDE DEF S
    <2> QED BY <1>3, Induction
<1> QED BY <1>4

(* There is such an F.                                                      *)
Made(F, n, first, start, step) ==
    /\ F = [i \in 0 .. n |-> F[i]]
    /\ F[0] = <<>>
    /\ \A i \in 1 .. n :
          F[i] = Append(F[i - 1], CASE i < first -> NaN
                                    [] i = first -> start
                                    [] OTHER -> step[i][F[i - 1][i - 1]])

LEMMA MadeBuilds ==
    ASSUME NEW n \in Nat, NEW first \in Nat, NEW V, NEW step, NEW F, NEW start,
           Made(F, n, first, start, step)
    PROVE  Builds(F, n, first, start, V, step)
<1> SUFFICES ASSUME NEW i \in 1 .. n
             PROVE  /\ i < first => F[i] = Append(F[i - 1], NaN)
                    /\ i = first => F[i] = Append(F[i - 1], start)
                    /\ i > first => F[i] = Append(F[i - 1], step[i][F[i - 1][i - 1]])
    BY DEF Made, Builds
<1> DEFINE v == CASE i < first -> NaN
                  [] i = first -> start
                  [] OTHER -> step[i][F[i - 1][i - 1]]
<1>1. F[i] = Append(F[i - 1], v)
    BY DEF Made
<1>2. /\ i < first => v = NaN
      /\ i = first => v = start
      /\ i > first => v = step[i][F[i - 1][i - 1]]
    OBVIOUS
<1> HIDE DEF v
<1> QED BY <1>1, <1>2

LEMMA MadeExists ==
    ASSUME NEW n \in Nat, NEW first \in Nat, first > 0, NEW V, NEW step, NEW start,
           first <= n => start \in V, step \in [1 .. n -> [V -> V]]
    PROVE  \E F : Made(F, n, first, start, step)
<1> DEFINE W == V \cup {NaN}
           fits(i, done) == i < first \/ i = first \/ done[i - 1] \in V
           value(i, done) == CASE i < first -> NaN
                               [] i = first -> start
                               [] OTHER -> step[i][done[i - 1]]
           grow == [i \in 1 .. n |-> [done \in Seq(W) |->
                       IF fits(i, done) THEN Append(done, value(i, done)) ELSE <<>>]]
<1>1. ASSUME NEW i \in 1 .. n, NEW done \in Seq(W), fits(i, done)
      PROVE  value(i, done) \in W
    <2>1. CASE i < first
        BY <2>1
    <2>2. CASE i = first
        BY <2>2
    <2>3. CASE i > first
        <3>1. step[i][done[i - 1]] \in V
            BY <1>1, <2>3
        <3> QED BY <2>3, <3>1
    <2> QED BY <2>1, <2>2, <2>3
<1>2. grow \in [1 .. n -> [Seq(W) -> Seq(W)]]
    <2> SUFFICES ASSUME NEW i \in 1 .. n, NEW done \in Seq(W)
                 PROVE  (IF fits(i, done) THEN Append(done, value(i, done)) ELSE <<>>) \in Seq(W)
        BY Zenon
    <2>1. CASE fits(i, done)
        <3> DEFINE v == value(i, done)
        <3>1. v \in W
            BY <1>1, <2>1
        <3> HIDE DEF v, W, fits
        <3>2. Append(done, v) \in Seq(W)
            BY <3>1, Appended
        <3> QED BY <2>1, <3>2 DEF v
    <2>2. CASE ~fits(i, done)
        <3>1. <<>> \in Seq(W)
            OBVIOUS
        <3> HIDE DEF fits, value
        <3> QED BY <2>2, <3>1
    <2> QED BY <2>1, <2>2
<1>3. PICK F : Follows(F, n, Seq(W), <<>>, grow)
    <2>1. <<>> \in Seq(W)
        OBVIOUS
    <2> HIDE DEF grow, W
    <2> QED BY <1>2, <2>1, Recursion
<1>4. F \in [0 .. n -> Seq(W)] /\ F[0] = <<>>
    BY <1>3 DEF Follows
<1>5. \A i \in 1 .. n : F[i] = IF fits(i, F[i - 1]) THEN Append(F[i - 1], value(i, F[i - 1])) ELSE <<>>
    <2> SUFFICES ASSUME NEW i \in 1 .. n
                 PROVE  F[i] = IF fits(i, F[i - 1]) THEN Append(F[i - 1], value(i, F[i - 1]))
                               ELSE <<>>
        OBVIOUS
    <2>1. F[i] = grow[i][F[i - 1]]
        <3> HIDE DEF grow
        <3> QED BY <1>3 DEF Follows
    <2>2. F[i - 1] \in Seq(W)
        <3>1. i - 1 \in 0 .. n
            OBVIOUS
        <3> HIDE DEF W
        <3> QED BY <1>4, <3>1
    <2> DEFINE done == F[i - 1]
    <2>3. grow[i][done] = IF fits(i, done) THEN Append(done, value(i, done)) ELSE <<>>
        <3> HIDE DEF done, W, fits, value
        <3> QED BY <2>2 DEF done
    <2> QED BY <2>1, <2>3
<1>6. Builds(F, n, first, start, V, step)
    <2>1. ASSUME NEW i \in 1 .. n, fits(i, F[i - 1])
          PROVE  F[i] = Append(F[i - 1], value(i, F[i - 1]))
        <3> HIDE DEF fits, value
        <3> QED BY <1>5, <2>1
    <2>2. ASSUME NEW i \in 1 .. n
          PROVE  /\ i < first => F[i] = Append(F[i - 1], NaN)
                 /\ i = first => F[i] = Append(F[i - 1], start)
                 /\ i > first /\ F[i - 1][i - 1] \in V =>
                       F[i] = Append(F[i - 1], step[i][F[i - 1][i - 1]])
        <3> DEFINE done == F[i - 1]
        <3>1. /\ i < first => fits(i, done) /\ value(i, done) = NaN
              /\ i = first => fits(i, done) /\ value(i, done) = start
              /\ i > first /\ done[i - 1] \in V =>
                    fits(i, done) /\ value(i, done) = step[i][done[i - 1]]
            OBVIOUS
        <3> HIDE DEF done, fits, value
        <3>2. fits(i, done) => F[i] = Append(done, value(i, done))
            BY <2>1 DEF done
        <3> QED BY <3>1, <3>2 DEF done
    <2> QED BY <1>4, <2>2 DEF Builds
<1>7. \A i \in 0 .. n : Runs(F[i], i, first, start, V, step)
    BY <1>6, BuiltIs
<1>8. \A i \in 1 .. n : fits(i, F[i - 1])
    <2> SUFFICES ASSUME NEW i \in 1 .. n, i > first PROVE F[i - 1][i - 1] \in V
        OBVIOUS
    <2>1. i - 1 \in 0 .. n /\ i - 1 \in 1 .. i - 1 /\ i - 1 >= first
        OBVIOUS
    <2> QED BY <1>7, <2>1 DEF Runs
<1>9. \A i \in 1 .. n : F[i] = Append(F[i - 1], value(i, F[i - 1]))
    <2> HIDE DEF fits, value
    <2> QED BY <1>5, <1>8
<1>10. F = [i \in 0 .. n |-> F[i]]
    BY <1>4
<1> QED BY <1>4, <1>9, <1>10 DEF Made

-----------------------------------------------------------------------------
(* Candles, and the series that are made of them.                           *)
ObvStep(bs, v, i) ==
    CASE bs[i].close > bs[i - 1].close -> Plus(v, Whole(bs[i].volume))
      [] bs[i].close < bs[i - 1].close -> Minus(v, Whole(bs[i].volume))
      [] OTHER -> v

LEMMA WholeIsNumber == \A n \in Int : Whole(n) \in Numbers
BY WholeIs DEF Numbers

LEMMA SeqParts == \A W : \A s \in Seq(W) :
    /\ Len(s) \in Nat /\ DOMAIN s = 1 .. Len(s)
    /\ \A i \in 1 .. Len(s) : s[i] \in W
OBVIOUS

LEMMA WindowIs ==
    ASSUME NEW W, NEW s \in Seq(W), NEW i \in 1 .. Len(s), NEW period \in Nat, period <= i
    PROVE  /\ Window(s, i, period) \in Seq(W) /\ Len(Window(s, i, period)) = period
           /\ \A j \in 1 .. period : Window(s, i, period)[j] = s[(i - period) + j]
BY DEF Window

LEMMA MeanIs ==
    ASSUME NEW s \in Seq(Numbers)
    PROVE  Total(s) \in Numbers /\ Mean(s) \in Numbers
<1>1. Total(s) \in Numbers
    <2>1. PICK f : Sums(f, s) /\ Total(s) = f[Len(s)]
        BY TotalIs
    <2>2. f \in [0 .. Len(s) -> Numbers] /\ Len(s) \in 0 .. Len(s)
        BY <2>1 DEF Sums, Follows
    <2> QED BY <2>1, <2>2
<1>2. Whole(Len(s)) \in Numbers
    BY WholesAre DEF Numbers
<1> QED BY <1>1, <1>2, NumbersClosed DEF Mean

(* The running sums of the moving average.                                  *)
LEMMA SmaRuns ==
    ASSUME NEW s \in Seq(Numbers), NEW period \in Nat, period > 0
    PROVE  \E r : /\ Runs(r, Len(s), 1, s[1], Numbers,
                          [i \in 1 .. Len(s) |-> [v \in Numbers |-> Plus(v, IF i <= period THEN s[i] ELSE Minus(s[i], s[i - period]))]])
                  /\ Sma(s, period) = [i \in DOMAIN s |->
                        IF i < period THEN NaN ELSE Over(r[i], Whole(period))]
<1> DEFINE n == Len(s)
           first == 1
           start == s[1]
           V == Numbers
           next(v, i) == Plus(v, IF i <= period THEN s[i] ELSE Minus(s[i], s[i - period]))
           step == [i \in 1 .. n |-> [v \in V |-> next(v, i)]]
           Body(F) == [i \in 0 .. n |->
                          IF i = 0 THEN <<>>
                          ELSE LET done == F[i - 1]
                               IN Append(done, CASE i < first -> NaN
                                                 [] i = first -> start
                                                 [] OTHER -> next(done[i - 1], i))]
           c == CHOOSE F : F = Body(F)
<1>1. n \in Nat /\ first \in Nat /\ first > 0 /\ (first <= n => start \in V)
    BY SeqParts
<1>2. step \in [1 .. n -> [V -> V]]
    <2> SUFFICES ASSUME NEW i \in 1 .. n, NEW v \in V PROVE next(v, i) \in V
        BY Zenon
    <2>1. s[i] \in Numbers /\ (i > period => s[i - period] \in Numbers)
        OBVIOUS
    <2>2. (IF i <= period THEN s[i] ELSE Minus(s[i], s[i - period])) \in Numbers
        BY <2>1, NumbersClosed
    <2> QED BY <2>2, NumbersClosed
<1>3. Sma(s, period) = [i \in DOMAIN s |->
                        IF i < period THEN NaN ELSE Over(c[n][i], Whole(period))]
    BY DEF Sma, Scan
<1> HIDE DEF n, first, start, V, next
<1>4. PICK F : Made(F, n, first, start, step)
    <2> HIDE DEF step
    <2> QED BY <1>1, <1>2, MadeExists
<1>5. \A i \in 1 .. n : i > first => F[i - 1][i - 1] \in V
    <2> SUFFICES ASSUME NEW i \in 1 .. n, i > first PROVE F[i - 1][i - 1] \in V
        OBVIOUS
    <2>1. \A j \in 0 .. n : Runs(F[j], j, first, start, V, step)
        <3> HIDE DEF step
        <3> QED BY <1>1, <1>2, <1>4, MadeBuilds, BuiltIs
    <2>2. i - 1 \in 0 .. n /\ i - 1 \in 1 .. i - 1 /\ i - 1 >= first
        BY <1>1
    <2> QED BY <2>1, <2>2 DEF Runs
<1>6. F = Body(F)
    <2>1. ASSUME NEW i \in 0 .. n, i # 0
          PROVE  F[i] = Append(F[i - 1], CASE i < first -> NaN
                                           [] i = first -> start
                                           [] OTHER -> next(F[i - 1][i - 1], i))
        <3>1. i \in 1 .. n
            BY <1>1, <2>1
        <3>2. F[i] = Append(F[i - 1], CASE i < first -> NaN
                                        [] i = first -> start
                                        [] OTHER -> step[i][F[i - 1][i - 1]])
            <4> HIDE DEF step
            <4> QED BY <1>4, <3>1 DEF Made
        <3>3. i > first => step[i][F[i - 1][i - 1]] = next(F[i - 1][i - 1], i)
            BY <1>5, <3>1
        <3>4. i < first \/ i = first \/ i > first
            BY <1>1, <3>1
        <3> HIDE DEF step
        <3>5. CASE i < first
            BY <3>2, <3>5
        <3>6. CASE i = first
            BY <3>2, <3>6
        <3>7. CASE i > first
            <4>1. ~(i < first) /\ i # first
                BY <1>1, <3>1, <3>7
            <4> QED BY <3>2, <3>3, <3>7, <4>1
        <3> QED BY <3>4, <3>5, <3>6, <3>7
    <2>2. F[0] = <<>> /\ F = [i \in 0 .. n |-> F[i]]
        BY <1>4 DEF Made
    <2> QED BY <2>1, <2>2
<1>7. c = Body(c)
    <2> HIDE DEF Body
    <2> QED BY <1>6
<1> HIDE DEF c
<1>8. /\ c[0] = <<>>
      /\ \A i \in 1 .. n : c[i] = Append(c[i - 1], CASE i < first -> NaN
                                                     [] i = first -> start
                                                     [] OTHER -> next(c[i - 1][i - 1], i))
    <2>1. 0 \in 0 .. n /\ \A i \in 1 .. n : i \in 0 .. n /\ i # 0
        BY <1>1
    <2> QED BY <1>7, <2>1
<1>9. Builds(c, n, first, start, V, step)
    <2> SUFFICES ASSUME NEW i \in 1 .. n
                 PROVE  /\ i < first => c[i] = Append(c[i - 1], NaN)
                        /\ i = first => c[i] = Append(c[i - 1], start)
                        /\ i > first /\ c[i - 1][i - 1] \in V =>
                              c[i] = Append(c[i - 1], step[i][c[i - 1][i - 1]])
        BY <1>8 DEF Builds
    <2> DEFINE w == CASE i < first -> NaN
                      [] i = first -> start
                      [] OTHER -> next(c[i - 1][i - 1], i)
    <2>1. c[i] = Append(c[i - 1], w)
        BY <1>8
    <2>2. /\ i < first => w = NaN
          /\ i = first => w = start
          /\ i > first => w = next(c[i - 1][i - 1], i)
        BY <1>1
    <2>3. c[i - 1][i - 1] \in V => step[i][c[i - 1][i - 1]] = next(c[i - 1][i - 1], i)
        OBVIOUS
    <2> HIDE DEF w, step
    <2> QED BY <2>1, <2>2, <2>3
<1>10. Runs(c[n], n, first, start, V, step)
    <2> HIDE DEF step
    <2>1. n \in 0 .. n
        BY <1>1
    <2> QED BY <1>1, <1>2, <1>9, <2>1, BuiltIs
<1> QED BY <1>3, <1>10 DEF n, first, start, V, next

(* The exponential average.                                                 *)
LEMMA EmaRuns ==
    ASSUME NEW s \in Seq(Numbers), NEW period \in Nat, period > 0
    PROVE  \E r : /\ Runs(r, Len(s), period, Mean(SubSeq(s, 1, period)), Numbers,
                          [i \in 1 .. Len(s) |-> [v \in Numbers |-> Plus(Times(s[i], Ratio(2, period + 1)), Times(v, Minus(One, Ratio(2, period + 1))))]])
                  /\ Ema(s, period) = r
<1> DEFINE n == Len(s)
           first == period
           start == Mean(SubSeq(s, 1, period))
           V == Numbers
           next(v, i) == Plus(Times(s[i], Ratio(2, period + 1)), Times(v, Minus(One, Ratio(2, period + 1))))
           step == [i \in 1 .. n |-> [v \in V |-> next(v, i)]]
           Body(F) == [i \in 0 .. n |->
                          IF i = 0 THEN <<>>
                          ELSE LET done == F[i - 1]
                               IN Append(done, CASE i < first -> NaN
                                                 [] i = first -> start
                                                 [] OTHER -> next(done[i - 1], i))]
           c == CHOOSE F : F = Body(F)
<1>1. n \in Nat /\ first \in Nat /\ first > 0 /\ (first <= n => start \in V)
    <2>1. period <= Len(s) => SubSeq(s, 1, period) \in Seq(Numbers)
        OBVIOUS
    <2> QED BY <2>1, MeanIs, SeqParts
<1>2. step \in [1 .. n -> [V -> V]]
    <2> SUFFICES ASSUME NEW i \in 1 .. n, NEW v \in V PROVE next(v, i) \in V
        BY Zenon
    <2>1. s[i] \in Numbers /\ Ratio(2, period + 1) \in Numbers /\ One \in Numbers
        BY RatiosAre, ConstantsAre DEF Numbers
    <2>2. Minus(One, Ratio(2, period + 1)) \in Numbers
        BY <2>1, NumbersClosed
    <2>3. Times(s[i], Ratio(2, period + 1)) \in Numbers
          /\ Times(v, Minus(One, Ratio(2, period + 1))) \in Numbers
        BY <2>1, <2>2, NumbersClosed
    <2> QED BY <2>3, NumbersClosed
<1>3. Ema(s, period) = c[n]
    BY DEF Ema, Scan
<1> HIDE DEF n, first, start, V, next
<1>4. PICK F : Made(F, n, first, start, step)
    <2> HIDE DEF step
    <2> QED BY <1>1, <1>2, MadeExists
<1>5. \A i \in 1 .. n : i > first => F[i - 1][i - 1] \in V
    <2> SUFFICES ASSUME NEW i \in 1 .. n, i > first PROVE F[i - 1][i - 1] \in V
        OBVIOUS
    <2>1. \A j \in 0 .. n : Runs(F[j], j, first, start, V, step)
        <3> HIDE DEF step
        <3> QED BY <1>1, <1>2, <1>4, MadeBuilds, BuiltIs
    <2>2. i - 1 \in 0 .. n /\ i - 1 \in 1 .. i - 1 /\ i - 1 >= first
        BY <1>1
    <2> QED BY <2>1, <2>2 DEF Runs
<1>6. F = Body(F)
    <2>1. ASSUME NEW i \in 0 .. n, i # 0
          PROVE  F[i] = Append(F[i - 1], CASE i < first -> NaN
                                           [] i = first -> start
                                           [] OTHER -> next(F[i - 1][i - 1], i))
        <3>1. i \in 1 .. n
            BY <1>1, <2>1
        <3>2. F[i] = Append(F[i - 1], CASE i < first -> NaN
                                        [] i = first -> start
                                        [] OTHER -> step[i][F[i - 1][i - 1]])
            <4> HIDE DEF step
            <4> QED BY <1>4, <3>1 DEF Made
        <3>3. i > first => step[i][F[i - 1][i - 1]] = next(F[i - 1][i - 1], i)
            BY <1>5, <3>1
        <3>4. i < first \/ i = first \/ i > first
            BY <1>1, <3>1
        <3> HIDE DEF step
        <3>5. CASE i < first
            BY <3>2, <3>5
        <3>6. CASE i = first
            BY <3>2, <3>6
        <3>7. CASE i > first
            <4>1. ~(i < first) /\ i # first
                BY <1>1, <3>1, <3>7
            <4> QED BY <3>2, <3>3, <3>7, <4>1
        <3> QED BY <3>4, <3>5, <3>6, <3>7
    <2>2. F[0] = <<>> /\ F = [i \in 0 .. n |-> F[i]]
        BY <1>4 DEF Made
    <2> QED BY <2>1, <2>2
<1>7. c = Body(c)
    <2> HIDE DEF Body
    <2> QED BY <1>6
<1> HIDE DEF c
<1>8. /\ c[0] = <<>>
      /\ \A i \in 1 .. n : c[i] = Append(c[i - 1], CASE i < first -> NaN
                                                     [] i = first -> start
                                                     [] OTHER -> next(c[i - 1][i - 1], i))
    <2>1. 0 \in 0 .. n /\ \A i \in 1 .. n : i \in 0 .. n /\ i # 0
        BY <1>1
    <2> QED BY <1>7, <2>1
<1>9. Builds(c, n, first, start, V, step)
    <2> SUFFICES ASSUME NEW i \in 1 .. n
                 PROVE  /\ i < first => c[i] = Append(c[i - 1], NaN)
                        /\ i = first => c[i] = Append(c[i - 1], start)
                        /\ i > first /\ c[i - 1][i - 1] \in V =>
                              c[i] = Append(c[i - 1], step[i][c[i - 1][i - 1]])
        BY <1>8 DEF Builds
    <2> DEFINE w == CASE i < first -> NaN
                      [] i = first -> start
                      [] OTHER -> next(c[i - 1][i - 1], i)
    <2>1. c[i] = Append(c[i - 1], w)
        BY <1>8
    <2>2. /\ i < first => w = NaN
          /\ i = first => w = start
          /\ i > first => w = next(c[i - 1][i - 1], i)
        BY <1>1
    <2>3. c[i - 1][i - 1] \in V => step[i][c[i - 1][i - 1]] = next(c[i - 1][i - 1], i)
        OBVIOUS
    <2> HIDE DEF w, step
    <2> QED BY <2>1, <2>2, <2>3
<1>10. Runs(c[n], n, first, start, V, step)
    <2> HIDE DEF step
    <2>1. n \in 0 .. n
        BY <1>1
    <2> QED BY <1>1, <1>2, <1>9, <2>1, BuiltIs
<1> QED BY <1>3, <1>10 DEF n, first, start, V, next

(* Wilder's smoothing.                                                      *)
LEMMA WilderRuns ==
    ASSUME NEW s \in Seq(Numbers), NEW period \in Nat, period > 0,
           NEW begin \in Nat, begin >= period
    PROVE  \E r : /\ Runs(r, Len(s), begin, Mean(Window(s, begin, period)), Numbers,
                          [i \in 1 .. Len(s) |-> [v \in Numbers |-> Over(Plus(Times(v, Whole(period - 1)), s[i]), Whole(period))]])
                  /\ Wilder(s, begin, period) = r
<1> DEFINE n == Len(s)
           first == begin
           start == Mean(Window(s, begin, period))
           V == Numbers
           next(v, i) == Over(Plus(Times(v, Whole(period - 1)), s[i]), Whole(period))
           step == [i \in 1 .. n |-> [v \in V |-> next(v, i)]]
           Body(F) == [i \in 0 .. n |->
                          IF i = 0 THEN <<>>
                          ELSE LET done == F[i - 1]
                               IN Append(done, CASE i < first -> NaN
                                                 [] i = first -> start
                                                 [] OTHER -> next(done[i - 1], i))]
           c == CHOOSE F : F = Body(F)
<1>1. n \in Nat /\ first \in Nat /\ first > 0 /\ (first <= n => start \in V)
    <2>1. begin <= Len(s) => Window(s, begin, period) \in Seq(Numbers)
        BY WindowIs
    <2> QED BY <2>1, MeanIs, SeqParts
<1>2. step \in [1 .. n -> [V -> V]]
    <2> SUFFICES ASSUME NEW i \in 1 .. n, NEW v \in V PROVE next(v, i) \in V
        BY Zenon
    <2>1. s[i] \in Numbers /\ Whole(period) \in Numbers /\ Whole(period - 1) \in Numbers
        BY WholeIsNumber
    <2>2. Times(v, Whole(period - 1)) \in Numbers
        BY <2>1, NumbersClosed
    <2>3. Plus(Times(v, Whole(period - 1)), s[i]) \in Numbers
        BY <2>1, <2>2, NumbersClosed
    <2> QED BY <2>1, <2>3, NumbersClosed
<1>3. Wilder(s, begin, period) = c[n]
    BY DEF Wilder, Scan
<1> HIDE DEF n, first, start, V, next
<1>4. PICK F : Made(F, n, first, start, step)
    <2> HIDE DEF step
    <2> QED BY <1>1, <1>2, MadeExists
<1>5. \A i \in 1 .. n : i > first => F[i - 1][i - 1] \in V
    <2> SUFFICES ASSUME NEW i \in 1 .. n, i > first PROVE F[i - 1][i - 1] \in V
        OBVIOUS
    <2>1. \A j \in 0 .. n : Runs(F[j], j, first, start, V, step)
        <3> HIDE DEF step
        <3> QED BY <1>1, <1>2, <1>4, MadeBuilds, BuiltIs
    <2>2. i - 1 \in 0 .. n /\ i - 1 \in 1 .. i - 1 /\ i - 1 >= first
        BY <1>1
    <2> QED BY <2>1, <2>2 DEF Runs
<1>6. F = Body(F)
    <2>1. ASSUME NEW i \in 0 .. n, i # 0
          PROVE  F[i] = Append(F[i - 1], CASE i < first -> NaN
                                           [] i = first -> start
                                           [] OTHER -> next(F[i - 1][i - 1], i))
        <3>1. i \in 1 .. n
            BY <1>1, <2>1
        <3>2. F[i] = Append(F[i - 1], CASE i < first -> NaN
                                        [] i = first -> start
                                        [] OTHER -> step[i][F[i - 1][i - 1]])
            <4> HIDE DEF step
            <4> QED BY <1>4, <3>1 DEF Made
        <3>3. i > first => step[i][F[i - 1][i - 1]] = next(F[i - 1][i - 1], i)
            BY <1>5, <3>1
        <3>4. i < first \/ i = first \/ i > first
            BY <1>1, <3>1
        <3> HIDE DEF step
        <3>5. CASE i < first
            BY <3>2, <3>5
        <3>6. CASE i = first
            BY <3>2, <3>6
        <3>7. CASE i > first
            <4>1. ~(i < first) /\ i # first
                BY <1>1, <3>1, <3>7
            <4> QED BY <3>2, <3>3, <3>7, <4>1
        <3> QED BY <3>4, <3>5, <3>6, <3>7
    <2>2. F[0] = <<>> /\ F = [i \in 0 .. n |-> F[i]]
        BY <1>4 DEF Made
    <2> QED BY <2>1, <2>2
<1>7. c = Body(c)
    <2> HIDE DEF Body
    <2> QED BY <1>6
<1> HIDE DEF c
<1>8. /\ c[0] = <<>>
      /\ \A i \in 1 .. n : c[i] = Append(c[i - 1], CASE i < first -> NaN
                                                     [] i = first -> start
                                                     [] OTHER -> next(c[i - 1][i - 1], i))
    <2>1. 0 \in 0 .. n /\ \A i \in 1 .. n : i \in 0 .. n /\ i # 0
        BY <1>1
    <2> QED BY <1>7, <2>1
<1>9. Builds(c, n, first, start, V, step)
    <2> SUFFICES ASSUME NEW i \in 1 .. n
                 PROVE  /\ i < first => c[i] = Append(c[i - 1], NaN)
                        /\ i = first => c[i] = Append(c[i - 1], start)
                        /\ i > first /\ c[i - 1][i - 1] \in V =>
                              c[i] = Append(c[i - 1], step[i][c[i - 1][i - 1]])
        BY <1>8 DEF Builds
    <2> DEFINE w == CASE i < first -> NaN
                      [] i = first -> start
                      [] OTHER -> next(c[i - 1][i - 1], i)
    <2>1. c[i] = Append(c[i - 1], w)
        BY <1>8
    <2>2. /\ i < first => w = NaN
          /\ i = first => w = start
          /\ i > first => w = next(c[i - 1][i - 1], i)
        BY <1>1
    <2>3. c[i - 1][i - 1] \in V => step[i][c[i - 1][i - 1]] = next(c[i - 1][i - 1], i)
        OBVIOUS
    <2> HIDE DEF w, step
    <2> QED BY <2>1, <2>2, <2>3
<1>10. Runs(c[n], n, first, start, V, step)
    <2> HIDE DEF step
    <2>1. n \in 0 .. n
        BY <1>1
    <2> QED BY <1>1, <1>2, <1>9, <2>1, BuiltIs
<1> QED BY <1>3, <1>10 DEF n, first, start, V, next

(* The running totals of the directional movement.                          *)
LEMMA SmoothedRuns ==
    ASSUME NEW s \in Seq(Numbers), NEW period \in Nat, period > 0
    PROVE  \E r : /\ Runs(r, Len(s), period + 1, Total(Window(s, period + 1, period)), Numbers,
                          [i \in 1 .. Len(s) |-> [v \in Numbers |-> Plus(Minus(v, Over(v, Whole(period))), s[i])]])
                  /\ Smoothed(s, period) = r
<1> DEFINE n == Len(s)
           first == period + 1
           start == Total(Window(s, period + 1, period))
           V == Numbers
           next(v, i) == Plus(Minus(v, Over(v, Whole(period))), s[i])
           step == [i \in 1 .. n |-> [v \in V |-> next(v, i)]]
           Body(F) == [i \in 0 .. n |->
                          IF i = 0 THEN <<>>
                          ELSE LET done == F[i - 1]
                               IN Append(done, CASE i < first -> NaN
                                                 [] i = first -> start
                                                 [] OTHER -> next(done[i - 1], i))]
           c == CHOOSE F : F = Body(F)
<1>1. n \in Nat /\ first \in Nat /\ first > 0 /\ (first <= n => start \in V)
    <2>1. period + 1 <= Len(s) => Window(s, period + 1, period) \in Seq(Numbers)
        BY WindowIs
    <2> QED BY <2>1, MeanIs, SeqParts
<1>2. step \in [1 .. n -> [V -> V]]
    <2> SUFFICES ASSUME NEW i \in 1 .. n, NEW v \in V PROVE next(v, i) \in V
        BY Zenon
    <2>1. s[i] \in Numbers /\ Whole(period) \in Numbers
        BY WholeIsNumber
    <2>2. Over(v, Whole(period)) \in Numbers
        BY <2>1, NumbersClosed
    <2>3. Minus(v, Over(v, Whole(period))) \in Numbers
        BY <2>2, NumbersClosed
    <2> QED BY <2>1, <2>3, NumbersClosed
<1>3. Smoothed(s, period) = c[n]
    BY DEF Smoothed, Scan
<1> HIDE DEF n, first, start, V, next
<1>4. PICK F : Made(F, n, first, start, step)
    <2> HIDE DEF step
    <2> QED BY <1>1, <1>2, MadeExists
<1>5. \A i \in 1 .. n : i > first => F[i - 1][i - 1] \in V
    <2> SUFFICES ASSUME NEW i \in 1 .. n, i > first PROVE F[i - 1][i - 1] \in V
        OBVIOUS
    <2>1. \A j \in 0 .. n : Runs(F[j], j, first, start, V, step)
        <3> HIDE DEF step
        <3> QED BY <1>1, <1>2, <1>4, MadeBuilds, BuiltIs
    <2>2. i - 1 \in 0 .. n /\ i - 1 \in 1 .. i - 1 /\ i - 1 >= first
        BY <1>1
    <2> QED BY <2>1, <2>2 DEF Runs
<1>6. F = Body(F)
    <2>1. ASSUME NEW i \in 0 .. n, i # 0
          PROVE  F[i] = Append(F[i - 1], CASE i < first -> NaN
                                           [] i = first -> start
                                           [] OTHER -> next(F[i - 1][i - 1], i))
        <3>1. i \in 1 .. n
            BY <1>1, <2>1
        <3>2. F[i] = Append(F[i - 1], CASE i < first -> NaN
                                        [] i = first -> start
                                        [] OTHER -> step[i][F[i - 1][i - 1]])
            <4> HIDE DEF step
            <4> QED BY <1>4, <3>1 DEF Made
        <3>3. i > first => step[i][F[i - 1][i - 1]] = next(F[i - 1][i - 1], i)
            BY <1>5, <3>1
        <3>4. i < first \/ i = first \/ i > first
            BY <1>1, <3>1
        <3> HIDE DEF step
        <3>5. CASE i < first
            BY <3>2, <3>5
        <3>6. CASE i = first
            BY <3>2, <3>6
        <3>7. CASE i > first
            <4>1. ~(i < first) /\ i # first
                BY <1>1, <3>1, <3>7
            <4> QED BY <3>2, <3>3, <3>7, <4>1
        <3> QED BY <3>4, <3>5, <3>6, <3>7
    <2>2. F[0] = <<>> /\ F = [i \in 0 .. n |-> F[i]]
        BY <1>4 DEF Made
    <2> QED BY <2>1, <2>2
<1>7. c = Body(c)
    <2> HIDE DEF Body
    <2> QED BY <1>6
<1> HIDE DEF c
<1>8. /\ c[0] = <<>>
      /\ \A i \in 1 .. n : c[i] = Append(c[i - 1], CASE i < first -> NaN
                                                     [] i = first -> start
                                                     [] OTHER -> next(c[i - 1][i - 1], i))
    <2>1. 0 \in 0 .. n /\ \A i \in 1 .. n : i \in 0 .. n /\ i # 0
        BY <1>1
    <2> QED BY <1>7, <2>1
<1>9. Builds(c, n, first, start, V, step)
    <2> SUFFICES ASSUME NEW i \in 1 .. n
                 PROVE  /\ i < first => c[i] = Append(c[i - 1], NaN)
                        /\ i = first => c[i] = Append(c[i - 1], start)
                        /\ i > first /\ c[i - 1][i - 1] \in V =>
                              c[i] = Append(c[i - 1], step[i][c[i - 1][i - 1]])
        BY <1>8 DEF Builds
    <2> DEFINE w == CASE i < first -> NaN
                      [] i = first -> start
                      [] OTHER -> next(c[i - 1][i - 1], i)
    <2>1. c[i] = Append(c[i - 1], w)
        BY <1>8
    <2>2. /\ i < first => w = NaN
          /\ i = first => w = start
          /\ i > first => w = next(c[i - 1][i - 1], i)
        BY <1>1
    <2>3. c[i - 1][i - 1] \in V => step[i][c[i - 1][i - 1]] = next(c[i - 1][i - 1], i)
        OBVIOUS
    <2> HIDE DEF w, step
    <2> QED BY <2>1, <2>2, <2>3
<1>10. Runs(c[n], n, first, start, V, step)
    <2> HIDE DEF step
    <2>1. n \in 0 .. n
        BY <1>1
    <2> QED BY <1>1, <1>2, <1>9, <2>1, BuiltIs
<1> QED BY <1>3, <1>10 DEF n, first, start, V, next

(* The on-balance volume.                                                   *)
LEMMA ObvRuns ==
    ASSUME NEW bs \in Seq(Candles)
    PROVE  \E r : /\ Runs(r, Len(bs), 1, Zero, Numbers,
                          [i \in 1 .. Len(bs) |-> [v \in Numbers |-> ObvStep(bs, v, i)]])
                  /\ Obv(bs) = r
<1> DEFINE n == Len(bs)
           first == 1
           start == Zero
           V == Numbers
           next(v, i) == ObvStep(bs, v, i)
           step == [i \in 1 .. n |-> [v \in V |-> next(v, i)]]
           Body(F) == [i \in 0 .. n |->
                          IF i = 0 THEN <<>>
                          ELSE LET done == F[i - 1]
                               IN Append(done, CASE i < first -> NaN
                                                 [] i = first -> start
                                                 [] OTHER -> next(done[i - 1], i))]
           c == CHOOSE F : F = Body(F)
<1>1. n \in Nat /\ first \in Nat /\ first > 0 /\ (first <= n => start \in V)
    BY SeqParts, ConstantsAre DEF Numbers
<1>2. step \in [1 .. n -> [V -> V]]
    <2> SUFFICES ASSUME NEW i \in 1 .. n, NEW v \in V PROVE next(v, i) \in V
        BY Zenon
    <2>0. bs[i] \in Candles
        BY SeqParts
    <2>1. Whole(bs[i].volume) \in Numbers
        <3>1. bs[i].volume \in Int
            BY <2>0 DEF Candles
        <3> QED BY <3>1, WholeIsNumber
    <2>2. Plus(v, Whole(bs[i].volume)) \in Numbers /\ Minus(v, Whole(bs[i].volume)) \in Numbers
        BY <2>1, NumbersClosed
    <2> QED BY <2>2 DEF ObvStep
<1>3. Obv(bs) = c[n]
    BY DEF Obv, Scan, ObvStep
<1> HIDE DEF n, first, start, V, next
<1>4. PICK F : Made(F, n, first, start, step)
    <2> HIDE DEF step
    <2> QED BY <1>1, <1>2, MadeExists
<1>5. \A i \in 1 .. n : i > first => F[i - 1][i - 1] \in V
    <2> SUFFICES ASSUME NEW i \in 1 .. n, i > first PROVE F[i - 1][i - 1] \in V
        OBVIOUS
    <2>1. \A j \in 0 .. n : Runs(F[j], j, first, start, V, step)
        <3> HIDE DEF step
        <3> QED BY <1>1, <1>2, <1>4, MadeBuilds, BuiltIs
    <2>2. i - 1 \in 0 .. n /\ i - 1 \in 1 .. i - 1 /\ i - 1 >= first
        BY <1>1
    <2> QED BY <2>1, <2>2 DEF Runs
<1>6. F = Body(F)
    <2>1. ASSUME NEW i \in 0 .. n, i # 0
          PROVE  F[i] = Append(F[i - 1], CASE i < first -> NaN
                                           [] i = first -> start
                                           [] OTHER -> next(F[i - 1][i - 1], i))
        <3>1. i \in 1 .. n
            BY <1>1, <2>1
        <3>2. F[i] = Append(F[i - 1], CASE i < first -> NaN
                                        [] i = first -> start
                                        [] OTHER -> step[i][F[i - 1][i - 1]])
            <4> HIDE DEF step
            <4> QED BY <1>4, <3>1 DEF Made
        <3>3. i > first => step[i][F[i - 1][i - 1]] = next(F[i - 1][i - 1], i)
            BY <1>5, <3>1
        <3>4. i < first \/ i = first \/ i > first
            BY <1>1, <3>1
        <3> HIDE DEF step
        <3>5. CASE i < first
            BY <3>2, <3>5
        <3>6. CASE i = first
            BY <3>2, <3>6
        <3>7. CASE i > first
            <4>1. ~(i < first) /\ i # first
                BY <1>1, <3>1, <3>7
            <4> QED BY <3>2, <3>3, <3>7, <4>1
        <3> QED BY <3>4, <3>5, <3>6, <3>7
    <2>2. F[0] = <<>> /\ F = [i \in 0 .. n |-> F[i]]
        BY <1>4 DEF Made
    <2> QED BY <2>1, <2>2
<1>7. c = Body(c)
    <2> HIDE DEF Body
    <2> QED BY <1>6
<1> HIDE DEF c
<1>8. /\ c[0] = <<>>
      /\ \A i \in 1 .. n : c[i] = Append(c[i - 1], CASE i < first -> NaN
                                                     [] i = first -> start
                                                     [] OTHER -> next(c[i - 1][i - 1], i))
    <2>1. 0 \in 0 .. n /\ \A i \in 1 .. n : i \in 0 .. n /\ i # 0
        BY <1>1
    <2> QED BY <1>7, <2>1
<1>9. Builds(c, n, first, start, V, step)
    <2> SUFFICES ASSUME NEW i \in 1 .. n
                 PROVE  /\ i < first => c[i] = Append(c[i - 1], NaN)
                        /\ i = first => c[i] = Append(c[i - 1], start)
                        /\ i > first /\ c[i - 1][i - 1] \in V =>
                              c[i] = Append(c[i - 1], step[i][c[i - 1][i - 1]])
        BY <1>8 DEF Builds
    <2> DEFINE w == CASE i < first -> NaN
                      [] i = first -> start
                      [] OTHER -> next(c[i - 1][i - 1], i)
    <2>1. c[i] = Append(c[i - 1], w)
        BY <1>8
    <2>2. /\ i < first => w = NaN
          /\ i = first => w = start
          /\ i > first => w = next(c[i - 1][i - 1], i)
        BY <1>1
    <2>3. c[i - 1][i - 1] \in V => step[i][c[i - 1][i - 1]] = next(c[i - 1][i - 1], i)
        OBVIOUS
    <2> HIDE DEF w, step
    <2> QED BY <2>1, <2>2, <2>3
<1>10. Runs(c[n], n, first, start, V, step)
    <2> HIDE DEF step
    <2>1. n \in 0 .. n
        BY <1>1
    <2> QED BY <1>1, <1>2, <1>9, <2>1, BuiltIs
<1> QED BY <1>3, <1>10 DEF n, first, start, V, next

-----------------------------------------------------------------------------
(* What holds at first, and goes from each index to the next.               *)
LEMMA Steps ==
    ASSUME NEW first \in Nat, NEW n \in Nat, NEW T,
           first <= n => first \in T,
           \A i \in (first + 1) .. n : i - 1 \in T => i \in T
    PROVE  \A i \in first .. n : i \in T
<1> DEFINE S == {i \in Nat : first <= i /\ i <= n => i \in T}
<1>1. \A i \in Nat : (\A m \in Nat : m < i => m \in S) => i \in S
    <2> SUFFICES ASSUME NEW i \in Nat, \A m \in Nat : m < i => m \in S, first <= i, i <= n
                 PROVE  i \in T
        OBVIOUS
    <2>1. CASE i = first
        BY <2>1
    <2>2. CASE i # first
        <3>1. i - 1 \in Nat /\ i - 1 < i /\ i - 1 >= first /\ i - 1 <= n
              /\ i \in (first + 1) .. n
            BY <2>2
        <3>2. i - 1 \in T
            BY <3>1
        <3> QED BY <3>1, <3>2
    <2> QED BY <2>1, <2>2
<1> HIDE DEF S
<1>2. Nat \subseteq S
    BY <1>1, Induction
<1>3. SUFFICES ASSUME NEW i \in first .. n PROVE i \in T
    OBVIOUS
<1>4. i \in Nat /\ first <= i /\ i <= n
    OBVIOUS
<1> QED BY <1>2, <1>4 DEF S

(* The recursions of the indicators, as equations.                          *)
LEMMA EmaIs ==
    ASSUME NEW s \in Seq(Numbers), NEW period \in Nat, period > 0
    PROVE  /\ Ema(s, period) \in Seq(Numbers) /\ Len(Ema(s, period)) = Len(s)
           /\ \A i \in 1 .. Len(s) :
                 /\ i < period => Ema(s, period)[i] = NaN
                 /\ i = period => Ema(s, period)[i] = Mean(SubSeq(s, 1, period))
                 /\ i > period => Ema(s, period)[i] =
                        Plus(Times(s[i], Ratio(2, period + 1)),
                             Times(Ema(s, period)[i - 1], Minus(One, Ratio(2, period + 1))))
<1> DEFINE k == Ratio(2, period + 1)
           next(v, i) == Plus(Times(s[i], k), Times(v, Minus(One, k)))
           start == Mean(SubSeq(s, 1, period))
           step == [i \in 1 .. Len(s) |-> [v \in Numbers |-> next(v, i)]]
           e == Ema(s, period)
<1>1. PICK r : Runs(r, Len(s), period, start, Numbers, step) /\ Ema(s, period) = r
    BY EmaRuns
<1>2. Numbers \cup {NaN} = Numbers
    BY NaNIs
<1>3. Runs(e, Len(s), period, start, Numbers, step)
    BY <1>1
<1>4. \A i \in 1 .. Len(s), v \in Numbers : step[i][v] = next(v, i)
    OBVIOUS
<1> HIDE DEF k, next, start, step, e
<1>5. e \in Seq(Numbers) /\ Len(e) = Len(s)
    BY <1>2, <1>3 DEF Runs
<1>6. ASSUME NEW i \in 1 .. Len(s)
      PROVE  /\ i < period => e[i] = NaN
             /\ i = period => e[i] = start
             /\ i > period => e[i] = next(e[i - 1], i)
    <2>1. i > period => i - 1 \in 1 .. Len(s)
        OBVIOUS
    <2>2. i > period => e[i - 1] \in Numbers
        BY <1>5, <2>1
    <2> QED BY <1>3, <1>4, <2>2 DEF Runs
<1> QED BY <1>5, <1>6 DEF e, start, next, k

LEMMA WilderIs ==
    ASSUME NEW s \in Seq(Numbers), NEW period \in Nat, period > 0,
           NEW begin \in Nat, begin >= period
    PROVE  /\ Wilder(s, begin, period) \in Seq(Numbers) /\ Len(Wilder(s, begin, period)) = Len(s)
           /\ \A i \in 1 .. Len(s) :
                 /\ i < begin => Wilder(s, begin, period)[i] = NaN
                 /\ i = begin => Wilder(s, begin, period)[i] = Mean(Window(s, begin, period))
                 /\ i > begin => Wilder(s, begin, period)[i] =
                        Over(Plus(Times(Wilder(s, begin, period)[i - 1], Whole(period - 1)), s[i]), Whole(period))
<1> DEFINE next(v, i) == Over(Plus(Times(v, Whole(period - 1)), s[i]), Whole(period))
           start == Mean(Window(s, begin, period))
           step == [i \in 1 .. Len(s) |-> [v \in Numbers |-> next(v, i)]]
           e == Wilder(s, begin, period)
<1>1. PICK r : Runs(r, Len(s), begin, start, Numbers, step) /\ Wilder(s, begin, period) = r
    BY WilderRuns
<1>2. Numbers \cup {NaN} = Numbers
    BY NaNIs
<1>3. Runs(e, Len(s), begin, start, Numbers, step)
    BY <1>1
<1>4. \A i \in 1 .. Len(s), v \in Numbers : step[i][v] = next(v, i)
    OBVIOUS
<1> HIDE DEF next, start, step, e
<1>5. e \in Seq(Numbers) /\ Len(e) = Len(s)
    BY <1>2, <1>3 DEF Runs
<1>6. ASSUME NEW i \in 1 .. Len(s)
      PROVE  /\ i < begin => e[i] = NaN
             /\ i = begin => e[i] = start
             /\ i > begin => e[i] = next(e[i - 1], i)
    <2>1. i > begin => i - 1 \in 1 .. Len(s)
        OBVIOUS
    <2>2. i > begin => e[i - 1] \in Numbers
        BY <1>5, <2>1
    <2> QED BY <1>3, <1>4, <2>2 DEF Runs
<1> QED BY <1>5, <1>6 DEF e, start, next

LEMMA SmoothedIs ==
    ASSUME NEW s \in Seq(Numbers), NEW period \in Nat, period > 0
    PROVE  /\ Smoothed(s, period) \in Seq(Numbers) /\ Len(Smoothed(s, period)) = Len(s)
           /\ \A i \in 1 .. Len(s) :
                 /\ i < period + 1 => Smoothed(s, period)[i] = NaN
                 /\ i = period + 1 => Smoothed(s, period)[i] = Total(Window(s, period + 1, period))
                 /\ i > period + 1 => Smoothed(s, period)[i] =
                        Plus(Minus(Smoothed(s, period)[i - 1], Over(Smoothed(s, period)[i - 1], Whole(period))), s[i])
<1> DEFINE next(v, i) == Plus(Minus(v, Over(v, Whole(period))), s[i])
           start == Total(Window(s, period + 1, period))
           step == [i \in 1 .. Len(s) |-> [v \in Numbers |-> next(v, i)]]
           e == Smoothed(s, period)
<1>1. PICK r : Runs(r, Len(s), period + 1, start, Numbers, step) /\ Smoothed(s, period) = r
    BY SmoothedRuns
<1>2. Numbers \cup {NaN} = Numbers
    BY NaNIs
<1>3. Runs(e, Len(s), period + 1, start, Numbers, step)
    BY <1>1
<1>4. \A i \in 1 .. Len(s), v \in Numbers : step[i][v] = next(v, i)
    OBVIOUS
<1> HIDE DEF next, start, step, e
<1>5. e \in Seq(Numbers) /\ Len(e) = Len(s)
    BY <1>2, <1>3 DEF Runs
<1>6. ASSUME NEW i \in 1 .. Len(s)
      PROVE  /\ i < period + 1 => e[i] = NaN
             /\ i = period + 1 => e[i] = start
             /\ i > period + 1 => e[i] = next(e[i - 1], i)
    <2>1. i > period + 1 => i - 1 \in 1 .. Len(s)
        OBVIOUS
    <2>2. i > period + 1 => e[i - 1] \in Numbers
        BY <1>5, <2>1
    <2> QED BY <1>3, <1>4, <2>2 DEF Runs
<1> QED BY <1>5, <1>6 DEF e, start, next

LEMMA ObvIs ==
    ASSUME NEW bs \in Seq(Candles)
    PROVE  /\ Obv(bs) \in Seq(Numbers) /\ Len(Obv(bs)) = Len(bs)
           /\ \A i \in 1 .. Len(bs) :
                 /\ i < 1 => Obv(bs)[i] = NaN
                 /\ i = 1 => Obv(bs)[i] = Zero
                 /\ i > 1 => Obv(bs)[i] =
                        ObvStep(bs, Obv(bs)[i - 1], i)
<1> DEFINE next(v, i) == ObvStep(bs, v, i)
           start == Zero
           step == [i \in 1 .. Len(bs) |-> [v \in Numbers |-> next(v, i)]]
           e == Obv(bs)
<1>1. PICK r : Runs(r, Len(bs), 1, start, Numbers, step) /\ Obv(bs) = r
    BY ObvRuns
<1>2. Numbers \cup {NaN} = Numbers
    BY NaNIs
<1>3. Runs(e, Len(bs), 1, start, Numbers, step)
    BY <1>1
<1>4. \A i \in 1 .. Len(bs), v \in Numbers : step[i][v] = next(v, i)
    OBVIOUS
<1> HIDE DEF next, start, step, e
<1>5. e \in Seq(Numbers) /\ Len(e) = Len(bs)
    BY <1>2, <1>3 DEF Runs
<1>6. ASSUME NEW i \in 1 .. Len(bs)
      PROVE  /\ i < 1 => e[i] = NaN
             /\ i = 1 => e[i] = start
             /\ i > 1 => e[i] = next(e[i - 1], i)
    <2>1. i > 1 => i - 1 \in 1 .. Len(bs)
        OBVIOUS
    <2>2. i > 1 => e[i - 1] \in Numbers
        BY <1>5, <2>1
    <2> QED BY <1>3, <1>4, <2>2 DEF Runs
<1> QED BY <1>5, <1>6 DEF e, start, next

-----------------------------------------------------------------------------
(* Totals and means of fractions.                                           *)
Upto(f, s) ==
    /\ f \in [0 .. Len(s) -> Fraction] /\ f[0] = Zero
    /\ \A n \in 1 .. Len(s) : f[n] = Plus(f[n - 1], s[n])

LEMMA FractionsAre ==
    /\ Fraction \subseteq Numbers
    /\ Seq(Fraction) \subseteq Seq(Numbers)
    /\ \A x \in Fraction, y \in Fraction : Plus(x, y) \in Fraction /\ Minus(x, y) \in Fraction
                                           /\ Times(x, y) \in Fraction
BY Closed DEF Numbers

LEMMA TotalsAre ==
    ASSUME NEW s \in Seq(Fraction)
    PROVE  \E f : Upto(f, s) /\ Total(s) = f[Len(s)]
<1>1. s \in Seq(Numbers) /\ Len(s) \in Nat /\ \A i \in 1 .. Len(s) : s[i] \in Fraction
    BY FractionsAre
<1>2. PICK f : Sums(f, s) /\ Total(s) = f[Len(s)]
    BY <1>1, TotalIs
<1> DEFINE step == [i \in 1 .. Len(s) |-> [v \in Numbers |-> Plus(v, s[i])]]
<1>3. f \in [0 .. Len(s) -> Numbers] /\ f[0] = Zero
      /\ \A n \in 1 .. Len(s) : f[n] = step[n][f[n - 1]]
    BY <1>2 DEF Sums, Follows
<1>4. \A n \in 1 .. Len(s) : f[n] = Plus(f[n - 1], s[n])
    <2> SUFFICES ASSUME NEW n \in 1 .. Len(s) PROVE f[n] = Plus(f[n - 1], s[n])
        OBVIOUS
    <2>1. f[n - 1] \in Numbers
        BY <1>1, <1>3
    <2> QED BY <1>3, <2>1
<1> HIDE DEF step
<1> DEFINE T == {i \in 0 .. Len(s) : f[i] \in Fraction}
<1>5. 0 <= Len(s) => 0 \in T
    BY <1>1, <1>3, ConstantsAre
<1>6. \A i \in (0 + 1) .. Len(s) : i - 1 \in T => i \in T
    <2> SUFFICES ASSUME NEW i \in (0 + 1) .. Len(s), i - 1 \in T PROVE i \in T
        OBVIOUS
    <2>1. f[i - 1] \in Fraction /\ s[i] \in Fraction /\ f[i] = Plus(f[i - 1], s[i])
          /\ i \in 0 .. Len(s)
        BY <1>1, <1>4
    <2> QED BY <2>1, FractionsAre
<1>7. \A i \in 0 .. Len(s) : i \in T
    <2> HIDE DEF T
    <2> QED BY <1>1, <1>5, <1>6, Steps
<1>8. f \in [0 .. Len(s) -> Fraction]
    BY <1>3, <1>7
<1> QED BY <1>2, <1>3, <1>4, <1>8 DEF Upto

LEMMA TotalFollows ==
    ASSUME NEW s \in Seq(Fraction), NEW f, NEW g, NEW n \in 0 .. Len(s),
           f[0] = Zero, \A i \in 1 .. n : f[i] = Plus(f[i - 1], s[i]), Upto(g, s)
    PROVE  f[n] = g[n]
<1> DEFINE T == {i \in 0 .. n : f[i] = g[i]}
<1>1. n \in Nat /\ Len(s) \in Nat /\ n <= Len(s)
    OBVIOUS
<1>2. 0 <= n => 0 \in T
    BY <1>1 DEF Upto
<1>3. \A i \in (0 + 1) .. n : i - 1 \in T => i \in T
    BY <1>1 DEF Upto
<1>4. \A i \in 0 .. n : i \in T
    <2> HIDE DEF T
    <2> QED BY <1>1, <1>2, <1>3, Steps
<1> QED BY <1>1, <1>4

LEMMA TotalOfFractions ==
    ASSUME NEW s \in Seq(Fraction)
    PROVE  Total(s) \in Fraction /\ (Len(s) > 0 => Mean(s) \in Fraction)
<1>1. PICK f : Upto(f, s) /\ Total(s) = f[Len(s)]
    BY TotalsAre
<1>2. Len(s) \in Nat /\ f[Len(s)] \in Fraction
    BY <1>1 DEF Upto
<1>3. Len(s) > 0 => Whole(Len(s)) \in Positive
    BY <1>2, WholesAre
<1> QED BY <1>1, <1>2, <1>3, OverLaws DEF Mean

(* The total of the first n is the total of a window of n at n.             *)
LEMMA TotalOfFirst ==
    ASSUME NEW s \in Seq(Fraction), NEW f, Upto(f, s), NEW n \in 1 .. Len(s)
    PROVE  f[n] = Total(Window(s, n, n))
<1> DEFINE w == Window(s, n, n)
<1>1. w \in Seq(Fraction) /\ Len(w) = n /\ \A j \in 1 .. n : w[j] = s[(n - n) + j]
    BY WindowIs
<1>2. \A j \in 1 .. n : w[j] = s[j]
    BY <1>1
<1> HIDE DEF w
<1>3. PICK g : Upto(g, w) /\ Total(w) = g[Len(w)]
    BY <1>1, TotalsAre
<1>4. f[0] = Zero /\ \A i \in 1 .. n : f[i] = Plus(f[i - 1], w[i])
    BY <1>2 DEF Upto
<1>5. n \in 0 .. Len(w)
    BY <1>1
<1>6. f[n] = g[n]
    BY <1>1, <1>3, <1>4, <1>5, TotalFollows
<1> QED BY <1>1, <1>3, <1>6 DEF w

(* A window that moves: one comes in, one goes out.                         *)
LEMMA WindowMoves ==
    ASSUME NEW s \in Seq(Fraction), NEW period \in Nat, period > 0,
           NEW i \in 1 .. Len(s), i > period
    PROVE  Total(Window(s, i, period)) =
               Plus(Total(Window(s, i - 1, period)), Minus(s[i], s[i - period]))
<1> DEFINE v == Window(s, i - 1, period)
           w == Window(s, i, period)
<1>1. /\ w \in Seq(Fraction) /\ Len(w) = period
      /\ \A j \in 1 .. period : w[j] = s[(i - period) + j]
    <2>1. period <= i
        OBVIOUS
    <2> QED BY <2>1, WindowIs
<1>2. i - 1 \in 1 .. Len(s) /\ period <= i - 1
    OBVIOUS
<1>3. /\ v \in Seq(Fraction) /\ Len(v) = period
      /\ \A j \in 1 .. period : v[j] = s[((i - 1) - period) + j]
    BY <1>2, WindowIs
<1>4. /\ s[i - period] = v[1] /\ s[i] = w[period]
      /\ \A j \in 1 .. (period - 1) : w[j] = v[j + 1]
    <2>1. ((i - 1) - period) + 1 = i - period /\ (i - period) + period = i
          /\ 1 \in 1 .. period /\ period \in 1 .. period
        OBVIOUS
    <2>2. ASSUME NEW j \in 1 .. (period - 1) PROVE w[j] = v[j + 1]
        <3>1. j \in 1 .. period /\ j + 1 \in 1 .. period
              /\ ((i - 1) - period) + (j + 1) = (i - period) + j
            OBVIOUS
        <3> HIDE DEF v, w
        <3> QED BY <1>1, <1>3, <3>1
    <2> HIDE DEF v, w
    <2> QED BY <1>1, <1>3, <2>1, <2>2
<1> HIDE DEF v, w
<1>5. PICK f : Upto(f, v) /\ Total(v) = f[Len(v)]
    BY <1>3, TotalsAre
<1>6. PICK g : Upto(g, w) /\ Total(w) = g[Len(w)]
    BY <1>1, TotalsAre
<1>7. /\ f \in [0 .. period -> Fraction] /\ f[0] = Zero
      /\ \A n \in 1 .. period : f[n] = Plus(f[n - 1], v[n])
      /\ g \in [0 .. period -> Fraction] /\ g[0] = Zero
      /\ \A n \in 1 .. period : g[n] = Plus(g[n - 1], w[n])
    BY <1>1, <1>3, <1>5, <1>6 DEF Upto
<1>8. (\A j \in 1 .. period : v[j] \in Fraction) /\ w[period] \in Fraction
    BY <1>1, <1>3
<1> DEFINE T == {j \in 0 .. (period - 1) : Plus(g[j], v[1]) = f[j + 1]}
<1>9. 0 <= period - 1 => 0 \in T
    <2>1. 1 \in 1 .. period /\ 0 \in 0 .. (period - 1) /\ 1 - 1 = 0 /\ 0 + 1 = 1
        OBVIOUS
    <2>2. f[1] = Plus(Zero, v[1])
        BY <1>7, <2>1
    <2> QED BY <1>7, <2>1, <2>2
<1>10. \A j \in (0 + 1) .. (period - 1) : j - 1 \in T => j \in T
    <2> SUFFICES ASSUME NEW j \in (0 + 1) .. (period - 1), j - 1 \in T PROVE j \in T
        OBVIOUS
    <2>1. /\ j \in 1 .. period /\ j + 1 \in 1 .. period /\ j - 1 \in 0 .. period
          /\ (j - 1) + 1 = j /\ (j + 1) - 1 = j /\ j \in 1 .. (period - 1)
          /\ j \in 0 .. (period - 1)
        OBVIOUS
    <2>2. g[j] = Plus(g[j - 1], v[j + 1]) /\ f[j + 1] = Plus(f[j], v[j + 1])
        BY <1>4, <1>7, <2>1
    <2>3. Plus(g[j - 1], v[1]) = f[j]
        BY <2>1
    <2>4. g[j - 1] \in Fraction /\ v[1] \in Fraction /\ v[j + 1] \in Fraction
        BY <1>7, <1>8, <2>1
    <2>5. Plus(Plus(g[j - 1], v[j + 1]), v[1]) = Plus(Plus(g[j - 1], v[1]), v[j + 1])
        <3>1. Plus(Plus(g[j - 1], v[j + 1]), v[1]) = Plus(g[j - 1], Plus(v[j + 1], v[1]))
            BY <2>4, PlusAssociates
        <3>2. Plus(Plus(g[j - 1], v[1]), v[j + 1]) = Plus(g[j - 1], Plus(v[1], v[j + 1]))
            BY <2>4, PlusAssociates
        <3>3. Plus(v[j + 1], v[1]) = Plus(v[1], v[j + 1])
            BY <2>4, PlusLaws
        <3> QED BY <3>1, <3>2, <3>3
    <2> QED BY <2>1, <2>2, <2>3, <2>5
<1>11. \A j \in 0 .. (period - 1) : j \in T
    <2> HIDE DEF T
    <2>1. 0 \in Nat /\ period - 1 \in Nat
        OBVIOUS
    <2> QED BY <1>9, <1>10, <2>1, Steps
<1>12. Plus(g[period - 1], v[1]) = f[period] /\ g[period] = Plus(g[period - 1], w[period])
       /\ g[period - 1] \in Fraction
    <2>1. period - 1 \in 0 .. (period - 1) /\ (period - 1) + 1 = period /\ period \in 1 .. period
          /\ period - 1 \in 0 .. period
        OBVIOUS
    <2>2. period - 1 \in T
        BY <1>11, <2>1
    <2> QED BY <1>7, <2>1, <2>2
<1>13. Total(w) = g[period] /\ Total(v) = f[period]
    BY <1>1, <1>3, <1>5, <1>6
<1>14. Plus(Plus(g[period - 1], v[1]), Minus(w[period], v[1])) = Plus(g[period - 1], w[period])
    <2> DEFINE a == g[period - 1]
               b == v[1]
               c == w[period]
    <2>1. a \in Fraction /\ b \in Fraction /\ c \in Fraction
        BY <1>8, <1>12
    <2> HIDE DEF a, b, c
    <2>2. Minus(c, b) \in Fraction
        BY <2>1, Closed
    <2>3. Plus(Plus(a, b), Minus(c, b)) = Plus(a, Plus(b, Minus(c, b)))
        BY <2>1, <2>2, PlusAssociates
    <2>4. Plus(b, Minus(c, b)) = c
        BY <2>1, <2>2, PlusLaws
    <2> QED BY <2>3, <2>4 DEF a, b, c
<1> QED BY <1>4, <1>12, <1>13, <1>14 DEF v, w

(* The moving average is the mean of each window.                           *)
THEOREM SmaIs ==
    ASSUME NEW s \in Seq(Fraction), NEW period \in Nat, period > 0
    PROVE  Sma(s, period) =
               [i \in 1 .. Len(s) |-> IF i < period THEN NaN ELSE Mean(Window(s, i, period))]
<1> DEFINE next(v, i) == Plus(v, IF i <= period THEN s[i] ELSE Minus(s[i], s[i - period]))
           step == [i \in 1 .. Len(s) |-> [v \in Numbers |-> next(v, i)]]
           n == Len(s)
<1>1. s \in Seq(Numbers) /\ n \in Nat /\ DOMAIN s = 1 .. n /\ \A i \in 1 .. n : s[i] \in Fraction
    BY FractionsAre
<1>2. PICK r : /\ Runs(r, n, 1, s[1], Numbers, step)
               /\ Sma(s, period) = [i \in DOMAIN s |->
                        IF i < period THEN NaN ELSE Over(r[i], Whole(period))]
    BY <1>1, SmaRuns
<1>3. \A i \in 1 .. n, v \in Numbers : step[i][v] = next(v, i)
    OBVIOUS
<1> HIDE DEF step
<1>4. /\ n > 0 => r[1] = s[1]
      /\ \A i \in 2 .. n : r[i] = next(r[i - 1], i) /\ r[i - 1] \in Numbers
    <2>1. ASSUME NEW i \in 2 .. n PROVE r[i] = next(r[i - 1], i) /\ r[i - 1] \in Numbers
        <3>1. i \in 1 .. n /\ i > 1 /\ i - 1 \in 1 .. n /\ i - 1 >= 1
            BY <1>1
        <3>2. r[i - 1] \in Numbers
            BY <1>2, <3>1 DEF Runs
        <3>3. r[i] = step[i][r[i - 1]]
            BY <1>2, <3>1 DEF Runs
        <3> QED BY <1>3, <3>1, <3>2, <3>3
    <2>2. n > 0 => 1 \in 1 .. n
        BY <1>1
    <2> QED BY <1>2, <2>1, <2>2 DEF Runs
<1> HIDE DEF n
<1>5. PICK f : Upto(f, s)
    BY TotalsAre
<1> DEFINE T == {i \in 1 .. n : i <= period => r[i] = f[i]}
<1>6. 1 <= n => 1 \in T
    <2> SUFFICES ASSUME 1 <= n PROVE r[1] = f[1] /\ 1 \in 1 .. n
        OBVIOUS
    <2>1. 1 \in 1 .. n /\ 1 - 1 = 0 /\ n > 0
        BY <1>1
    <2>2. f[1] = Plus(Zero, s[1])
        BY <1>5, <2>1 DEF Upto, n
    <2> QED BY <1>1, <1>4, <2>1, <2>2, PlusLaws
<1>7. \A i \in (1 + 1) .. n : i - 1 \in T => i \in T
    <2> SUFFICES ASSUME NEW i \in 2 .. n, i - 1 \in T, i <= period PROVE r[i] = f[i]
        BY <1>1
    <2>1. i \in 1 .. n /\ i - 1 <= period
        BY <1>1
    <2>2. f[i] = Plus(f[i - 1], s[i])
        BY <1>5, <2>1 DEF Upto, n
    <2>3. r[i] = Plus(r[i - 1], s[i])
        BY <1>4
    <2> QED BY <2>1, <2>2, <2>3
<1>8. \A i \in 1 .. n : i \in T
    <2> HIDE DEF T
    <2> QED BY <1>1, <1>6, <1>7, Steps
<1> DEFINE U == {i \in 1 .. n : r[i] = Total(Window(s, i, period))}
<1>9. period <= n => period \in U
    <2> SUFFICES ASSUME period <= n PROVE r[period] = Total(Window(s, period, period)) /\ period \in 1 .. n
        OBVIOUS
    <2>1. period \in 1 .. n /\ period <= period
        BY <1>1
    <2>2. f[period] = Total(Window(s, period, period))
        BY <1>5, <2>1, TotalOfFirst DEF n
    <2> QED BY <1>8, <2>1, <2>2
<1>10. \A i \in (period + 1) .. n : i - 1 \in U => i \in U
    <2> SUFFICES ASSUME NEW i \in (period + 1) .. n, i - 1 \in U
                 PROVE  i \in 1 .. n /\ r[i] = Total(Window(s, i, period))
        BY <1>1
    <2>1. i \in 1 .. n /\ i > period /\ i \in 2 .. n /\ ~(i <= period)
        BY <1>1
    <2>2. r[i] = Plus(r[i - 1], Minus(s[i], s[i - period]))
        BY <1>4, <2>1
    <2>3. r[i - 1] = Total(Window(s, i - 1, period))
        OBVIOUS
    <2>4. Total(Window(s, i, period)) =
               Plus(Total(Window(s, i - 1, period)), Minus(s[i], s[i - period]))
        BY <2>1, WindowMoves DEF n
    <2> QED BY <2>1, <2>2, <2>3, <2>4
<1>11. \A i \in period .. n : i \in U
    <2> HIDE DEF U
    <2> QED BY <1>1, <1>9, <1>10, Steps
<1>12. ASSUME NEW i \in 1 .. n, ~(i < period)
       PROVE  Over(r[i], Whole(period)) = Mean(Window(s, i, period))
    <2>1. i \in period .. n /\ period <= i /\ i \in 1 .. Len(s)
        BY <1>1, <1>12 DEF n
    <2>2. r[i] = Total(Window(s, i, period)) /\ Len(Window(s, i, period)) = period
        BY <1>11, <2>1, WindowIs
    <2> QED BY <2>2 DEF Mean
<1> DEFINE a == [i \in 1 .. n |-> IF i < period THEN NaN ELSE Over(r[i], Whole(period))]
           b == [i \in 1 .. n |-> IF i < period THEN NaN ELSE Mean(Window(s, i, period))]
<1>13. a = b
    BY <1>12
<1> QED BY <1>1, <1>2, <1>13 DEF n

-----------------------------------------------------------------------------
(* The highest and the lowest of some fractions.                            *)
LEMMA HighestIs ==
    ASSUME NEW s \in Seq(Fraction), Len(s) > 0
    PROVE  /\ \E k \in 1 .. Len(s) : Highest(s) = s[k] /\ \A i \in 1 .. Len(s) : AtMost(s[i], s[k])
           /\ \E k \in 1 .. Len(s) : Lowest(s) = s[k] /\ \A i \in 1 .. Len(s) : AtMost(s[k], s[i])
<1> DEFINE n == Len(s)
           T == {m \in 1 .. n : \E k \in 1 .. m : \A i \in 1 .. m : AtMost(s[i], s[k])}
           U == {m \in 1 .. n : \E k \in 1 .. m : \A i \in 1 .. m : AtMost(s[k], s[i])}
<1>1. n \in Nat /\ n > 0 /\ 1 \in 1 .. n /\ DOMAIN s = 1 .. n /\ \A i \in 1 .. n : s[i] \in Fraction
    OBVIOUS
<1> HIDE DEF n
<1>2. 1 \in T /\ 1 \in U
    <2>1. AtMost(s[1], s[1])
        BY <1>1, Order
    <2>2. 1 \in 1 .. 1 /\ \A i \in 1 .. 1 : i = 1
        OBVIOUS
    <2> QED BY <1>1, <2>1, <2>2
<1>3. ASSUME NEW m \in (1 + 1) .. n
      PROVE  (m - 1 \in T => m \in T) /\ (m - 1 \in U => m \in U)
    <2>1. m \in 1 .. n /\ m \in 1 .. m /\ (\A i \in 1 .. m : i \in 1 .. (m - 1) \/ i = m)
          /\ (\A i \in 1 .. (m - 1) : i \in 1 .. n /\ i \in 1 .. m)
        BY <1>1
    <2>2. AtMost(s[m], s[m])
        BY <1>1, <2>1, Order
    <2>3. ASSUME m - 1 \in T PROVE m \in T
        <3>1. PICK k \in 1 .. (m - 1) : \A i \in 1 .. (m - 1) : AtMost(s[i], s[k])
            BY <2>3
        <3>2. s[k] \in Fraction /\ s[m] \in Fraction /\ k \in 1 .. m
            BY <1>1, <2>1
        <3>3. CASE AtMost(s[m], s[k])
            BY <2>1, <3>1, <3>2, <3>3
        <3>4. CASE ~AtMost(s[m], s[k])
            <4>1. AtMost(s[k], s[m])
                BY <3>2, <3>4, Order
            <4>2. \A i \in 1 .. (m - 1) : AtMost(s[i], s[m])
                <5> SUFFICES ASSUME NEW i \in 1 .. (m - 1) PROVE AtMost(s[i], s[m])
                    OBVIOUS
                <5>1. s[i] \in Fraction /\ AtMost(s[i], s[k])
                    BY <1>1, <2>1, <3>1
                <5> QED BY <3>2, <4>1, <5>1, OrderPasses
            <4> QED BY <2>1, <2>2, <4>2
        <3> QED BY <3>3, <3>4
    <2>4. ASSUME m - 1 \in U PROVE m \in U
        <3>1. PICK k \in 1 .. (m - 1) : \A i \in 1 .. (m - 1) : AtMost(s[k], s[i])
            BY <2>4
        <3>2. s[k] \in Fraction /\ s[m] \in Fraction /\ k \in 1 .. m
            BY <1>1, <2>1
        <3>3. CASE AtMost(s[k], s[m])
            BY <2>1, <3>1, <3>2, <3>3
        <3>4. CASE ~AtMost(s[k], s[m])
            <4>1. AtMost(s[m], s[k])
                BY <3>2, <3>4, Order
            <4>2. \A i \in 1 .. (m - 1) : AtMost(s[m], s[i])
                <5> SUFFICES ASSUME NEW i \in 1 .. (m - 1) PROVE AtMost(s[m], s[i])
                    OBVIOUS
                <5>1. s[i] \in Fraction /\ AtMost(s[k], s[i])
                    BY <1>1, <2>1, <3>1
                <5> QED BY <3>2, <4>1, <5>1, OrderPasses
            <4> QED BY <2>1, <2>2, <4>2
        <3> QED BY <3>3, <3>4
    <2> QED BY <2>3, <2>4
<1>4. n \in T /\ n \in U
    <2> HIDE DEF T, U
    <2>1. (1 <= n => 1 \in T) /\ (1 <= n => 1 \in U)
        BY <1>2
    <2>2. /\ \A i \in (1 + 1) .. n : i - 1 \in T => i \in T
          /\ \A i \in (1 + 1) .. n : i - 1 \in U => i \in U
        BY <1>3
    <2>3. 1 \in Nat /\ n \in 1 .. n
        BY <1>1
    <2>4. \A i \in 1 .. n : i \in T
        BY <1>1, <2>1, <2>2, <2>3, Steps
    <2>5. \A i \in 1 .. n : i \in U
        BY <1>1, <2>1, <2>2, <2>3, Steps
    <2> QED BY <2>3, <2>4, <2>5
<1> DEFINE all == {s[i] : i \in DOMAIN s}
<1>5. \E k \in 1 .. n : Highest(s) = s[k] /\ \A i \in 1 .. n : AtMost(s[i], s[k])
    <2>1. \E x \in all : \A i \in DOMAIN s : AtMost(s[i], x)
        BY <1>1, <1>4
    <2>2. Highest(s) \in all /\ \A i \in DOMAIN s : AtMost(s[i], Highest(s))
        BY <2>1 DEF Highest
    <2> QED BY <1>1, <2>2
<1>6. \E k \in 1 .. n : Lowest(s) = s[k] /\ \A i \in 1 .. n : AtMost(s[k], s[i])
    <2>1. \E x \in all : \A i \in DOMAIN s : AtMost(x, s[i])
        BY <1>1, <1>4
    <2>2. Lowest(s) \in all /\ \A i \in DOMAIN s : AtMost(Lowest(s), s[i])
        BY <2>1 DEF Lowest
    <2> QED BY <1>1, <2>2
<1> QED BY <1>5, <1>6 DEF n

LEMMA HighestOf ==
    ASSUME NEW s \in Seq(Fraction), Len(s) > 0
    PROVE  /\ Highest(s) \in Fraction /\ Lowest(s) \in Fraction
           /\ \A i \in 1 .. Len(s) : AtMost(s[i], Highest(s)) /\ AtMost(Lowest(s), s[i])
<1>1. \A i \in 1 .. Len(s) : s[i] \in Fraction
    OBVIOUS
<1> QED BY <1>1, HighestIs

(* Sums of both sides, and what is not negative.                            *)
NotNegative == {x \in Fraction : AtMost(Zero, x)}

LEMMA OrderAddsBoth ==
    ASSUME NEW a \in Fraction, NEW b \in Fraction, NEW c \in Fraction, NEW d \in Fraction,
           AtMost(a, b), AtMost(c, d)
    PROVE  AtMost(Plus(a, c), Plus(b, d))
<1>1. AtMost(Plus(a, c), Plus(b, c))
    BY OrderAdds
<1>2. AtMost(Plus(c, b), Plus(d, b))
    BY OrderAdds
<1>3. Plus(c, b) = Plus(b, c) /\ Plus(d, b) = Plus(b, d)
    BY PlusLaws
<1>4. Plus(a, c) \in Fraction /\ Plus(b, c) \in Fraction /\ Plus(b, d) \in Fraction
    BY Closed
<1> QED BY <1>1, <1>2, <1>3, <1>4, OrderPasses

LEMMA NotNegatives ==
    /\ Zero \in NotNegative /\ One \in NotNegative /\ Hundred \in NotNegative
    /\ \A n \in Nat : Whole(n) \in NotNegative
    /\ \A x \in NotNegative, y \in NotNegative : Plus(x, y) \in NotNegative /\ Times(x, y) \in NotNegative
    /\ \A x \in NotNegative, y \in Positive : Over(x, y) \in NotNegative
    /\ \A x \in NotNegative : x \in Positive \/ x = Zero
    /\ Positive \subseteq NotNegative
<1>1. \A n \in Nat : Whole(n) \in NotNegative
    <2> SUFFICES ASSUME NEW n \in Nat PROVE Whole(n) \in NotNegative
        OBVIOUS
    <2>1. 0 \in Int /\ n \in Int /\ 0 <= n
        OBVIOUS
    <2> QED BY <2>1, WholesAre DEF NotNegative, Zero
<1>2. Zero \in NotNegative /\ One \in NotNegative /\ Hundred \in NotNegative
    BY <1>1 DEF Zero, One, Hundred
<1>3. ASSUME NEW x \in NotNegative, NEW y \in NotNegative
      PROVE  Plus(x, y) \in NotNegative /\ Times(x, y) \in NotNegative
    <2>1. x \in Fraction /\ y \in Fraction /\ Zero \in Fraction /\ AtMost(Zero, x) /\ AtMost(Zero, y)
        BY ConstantsAre DEF NotNegative
    <2>2. AtMost(Plus(Zero, Zero), Plus(x, y)) /\ Plus(Zero, Zero) = Zero
        BY <2>1, OrderAddsBoth, PlusLaws
    <2>3. AtMost(Times(Zero, y), Times(x, y)) /\ Times(Zero, y) = Times(y, Zero) /\ Times(y, Zero) = Zero
        BY <2>1, OrderMultiplies, TimesLaws
    <2> QED BY <2>1, <2>2, <2>3, Closed DEF NotNegative
<1>4. ASSUME NEW x \in NotNegative, NEW y \in Positive
      PROVE  Over(x, y) \in NotNegative
    <2>1. x \in Fraction /\ y \in Fraction /\ Zero \in Fraction /\ AtMost(Zero, x)
        BY ConstantsAre DEF NotNegative, Positive
    <2>2. Times(Zero, y) = Zero
        BY <2>1, TimesLaws
    <2>3. AtMost(Times(Zero, y), x) => AtMost(Zero, Over(x, y))
        BY <2>1, OrderDivides
    <2> QED BY <2>1, <2>2, <2>3, OverLaws DEF NotNegative
<1>5. ASSUME NEW x \in NotNegative PROVE x \in Positive \/ x = Zero
    <2>1. x \in Fraction /\ Zero \in Fraction /\ AtMost(Zero, x)
        BY ConstantsAre DEF NotNegative
    <2>2. Less(Zero, x) => x \in Positive
        BY <2>1, PositiveIs
    <2>3. AtMost(x, Zero) <=> ~Less(Zero, x)
        BY <2>1, Order
    <2>4. AtMost(x, Zero) => x = Zero
        BY <2>1, Order
    <2> QED BY <2>2, <2>3, <2>4
<1>6. ASSUME NEW x \in Positive PROVE x \in NotNegative
    <2>1. x \in Fraction /\ Zero \in Fraction
        BY ConstantsAre DEF Positive
    <2>2. Less(Zero, x)
        BY <2>1, PositiveIs
    <2> QED BY <2>1, <2>2, Order DEF NotNegative
<1> QED BY <1>1, <1>2, <1>3, <1>4, <1>5, <1>6

LEMMA BetweenIs ==
    ASSUME NEW lo \in Fraction, NEW x \in Fraction, NEW hi \in Fraction
    PROVE  Between(lo, x, hi) <=> AtMost(lo, x) /\ AtMost(x, hi)
BY DEF Between

LEMMA TimesNext ==
    ASSUME NEW x \in Fraction, NEW n \in Nat, n > 0
    PROVE  Times(x, Whole(n)) = Plus(Times(x, Whole(n - 1)), x)
<1>1. Whole(n - 1) \in Fraction /\ One \in Fraction /\ One = Whole(1) /\ n - 1 \in Int /\ 1 \in Int
      /\ (n - 1) + 1 = n
    BY WholesAre, ConstantsAre DEF One
<1>2. Plus(Whole(n - 1), Whole(1)) = Whole((n - 1) + 1)
    BY <1>1, WholesAre
<1>3. Times(Plus(Whole(n - 1), One), x) = Plus(Times(Whole(n - 1), x), Times(One, x))
    BY <1>1, TimesAssociates
<1>4. Times(Whole(n - 1), x) = Times(x, Whole(n - 1)) /\ Times(One, x) = Times(x, One)
      /\ Times(x, One) = x
    BY <1>1, TimesLaws
<1>5. Plus(Whole(n - 1), One) \in Fraction
    BY <1>1, Closed
<1>6. Times(Plus(Whole(n - 1), One), x) = Times(x, Plus(Whole(n - 1), One))
    BY <1>5, TimesLaws
<1> QED BY <1>1, <1>2, <1>3, <1>4, <1>6

(* A mean is between what its members are between.                          *)
LEMMA MeanBetween ==
    ASSUME NEW s \in Seq(Fraction), Len(s) > 0, NEW lo \in Fraction, NEW hi \in Fraction,
           \A i \in 1 .. Len(s) : AtMost(lo, s[i]) /\ AtMost(s[i], hi)
    PROVE  AtMost(lo, Mean(s)) /\ AtMost(Mean(s), hi) /\ Mean(s) \in Fraction
<1> DEFINE n == Len(s)
<1>1. n \in Nat /\ n > 0 /\ \A i \in 1 .. n : s[i] \in Fraction
    OBVIOUS
<1>2. PICK f : Upto(f, s) /\ Total(s) = f[n]
    BY TotalsAre
<1>3. f \in [0 .. n -> Fraction] /\ f[0] = Zero /\ \A i \in 1 .. n : f[i] = Plus(f[i - 1], s[i])
    BY <1>2 DEF Upto
<1>4. \A i \in 1 .. n : AtMost(lo, s[i]) /\ AtMost(s[i], hi)
    OBVIOUS
<1> HIDE DEF n
<1> DEFINE T == {i \in 0 .. n : AtMost(Times(lo, Whole(i)), f[i]) /\ AtMost(f[i], Times(hi, Whole(i)))}
<1>5. 0 <= n => 0 \in T
    <2>1. Times(lo, Whole(0)) = Zero /\ Times(hi, Whole(0)) = Zero /\ AtMost(Zero, Zero)
        BY TimesLaws, ConstantsAre, Order DEF Zero
    <2> QED BY <1>1, <1>3, <2>1
<1>6. \A i \in (0 + 1) .. n : i - 1 \in T => i \in T
    <2> SUFFICES ASSUME NEW i \in (0 + 1) .. n, i - 1 \in T PROVE i \in T
        OBVIOUS
    <2>1. i \in 1 .. n /\ i \in 0 .. n /\ i \in Nat /\ i > 0 /\ i - 1 \in 0 .. n /\ i - 1 \in Int
        BY <1>1
    <2>2. Times(lo, Whole(i)) = Plus(Times(lo, Whole(i - 1)), lo)
          /\ Times(hi, Whole(i)) = Plus(Times(hi, Whole(i - 1)), hi)
        BY <2>1, TimesNext
    <2>3. Times(lo, Whole(i - 1)) \in Fraction /\ Times(hi, Whole(i - 1)) \in Fraction
          /\ f[i - 1] \in Fraction /\ s[i] \in Fraction
        <3>1. Whole(i - 1) \in Fraction
            BY <2>1, WholesAre
        <3> QED BY <1>1, <1>3, <2>1, <3>1, Closed
    <2>4. AtMost(Plus(Times(lo, Whole(i - 1)), lo), Plus(f[i - 1], s[i]))
        BY <1>4, <2>1, <2>3, OrderAddsBoth
    <2>5. AtMost(Plus(f[i - 1], s[i]), Plus(Times(hi, Whole(i - 1)), hi))
        BY <1>4, <2>1, <2>3, OrderAddsBoth
    <2> QED BY <1>3, <2>1, <2>2, <2>4, <2>5
<1>7. n \in T
    <2> HIDE DEF T
    <2>1. \A i \in 0 .. n : i \in T
        BY <1>1, <1>5, <1>6, Steps
    <2> QED BY <1>1, <2>1
<1>8. Whole(n) \in Positive /\ f[n] \in Fraction
    BY <1>1, <1>3, WholesAre
<1>9. AtMost(lo, Over(f[n], Whole(n))) /\ AtMost(Over(f[n], Whole(n)), hi)
    BY <1>7, <1>8, OrderDivides
<1> QED BY <1>2, <1>8, <1>9, OverLaws DEF Mean, n

LEMMA TotalNotNegative ==
    ASSUME NEW s \in Seq(NotNegative)
    PROVE  Total(s) \in NotNegative /\ (Len(s) > 0 => Mean(s) \in NotNegative)
<1>1. s \in Seq(Fraction) /\ Len(s) \in Nat /\ \A i \in 1 .. Len(s) : s[i] \in NotNegative
    BY DEF NotNegative
<1>2. PICK f : Upto(f, s) /\ Total(s) = f[Len(s)]
    BY <1>1, TotalsAre
<1> DEFINE T == {i \in 0 .. Len(s) : f[i] \in NotNegative}
<1>3. 0 <= Len(s) => 0 \in T
    BY <1>1, <1>2, NotNegatives DEF Upto
<1>4. \A i \in (0 + 1) .. Len(s) : i - 1 \in T => i \in T
    <2> SUFFICES ASSUME NEW i \in (0 + 1) .. Len(s), i - 1 \in T PROVE i \in T
        OBVIOUS
    <2>1. i \in 0 .. Len(s) /\ i \in 1 .. Len(s) /\ f[i - 1] \in NotNegative
        BY <1>1
    <2>2. f[i] = Plus(f[i - 1], s[i]) /\ s[i] \in NotNegative
        BY <1>1, <1>2, <2>1 DEF Upto
    <2> QED BY <2>1, <2>2, NotNegatives
<1>5. Len(s) \in T
    <2> HIDE DEF T
    <2>1. \A i \in 0 .. Len(s) : i \in T
        BY <1>1, <1>3, <1>4, Steps
    <2> QED BY <1>1, <2>1
<1>6. Len(s) > 0 => Whole(Len(s)) \in Positive
    BY <1>1, WholesAre
<1> QED BY <1>2, <1>5, <1>6, NotNegatives DEF Mean

-----------------------------------------------------------------------------
(* Sequences that are given by their values, and windows of them.           *)
LEMMA Tabled ==
    ASSUME NEW V, NEW n \in Nat, NEW f \in [1 .. n -> V]
    PROVE  f \in Seq(V) /\ Len(f) = n
OBVIOUS

Begins(s, t) == Len(s) <= Len(t) /\ \A i \in 1 .. Len(s) : s[i] = t[i]

(* A window at the same place of two series.                                *)
LEMMA WindowsSame ==
    ASSUME NEW W, NEW s \in Seq(W), NEW t \in Seq(W), Begins(s, t),
           NEW i \in 1 .. Len(s), NEW period \in Nat, period <= i
    PROVE  Window(s, i, period) = Window(t, i, period)
<1>1. i \in 1 .. Len(t)
    BY DEF Begins
<1>2. /\ Window(s, i, period) \in Seq(W) /\ Len(Window(s, i, period)) = period
      /\ \A j \in 1 .. period : Window(s, i, period)[j] = s[(i - period) + j]
    BY WindowIs
<1>3. /\ Window(t, i, period) \in Seq(W) /\ Len(Window(t, i, period)) = period
      /\ \A j \in 1 .. period : Window(t, i, period)[j] = t[(i - period) + j]
    BY <1>1, WindowIs
<1>4. \A j \in 1 .. period : (i - period) + j \in 1 .. Len(s)
    OBVIOUS
<1>5. \A j \in 1 .. period : Window(s, i, period)[j] = Window(t, i, period)[j]
    BY <1>2, <1>3, <1>4 DEF Begins
<1> DEFINE v == Window(s, i, period)
           w == Window(t, i, period)
<1> HIDE DEF v, w
<1>6. v = w
    BY <1>2, <1>3, <1>5 DEF v, w
<1> QED BY <1>6 DEF v, w

(* The prices and volumes of candles.                                       *)
LEMMA CandleIs ==
    ASSUME NEW bs \in Seq(Candles), NEW i \in 1 .. Len(bs)
    PROVE  /\ bs[i].high \in Nat /\ bs[i].low \in Nat /\ bs[i].close \in Nat /\ bs[i].volume \in Nat
           /\ bs[i].low > 0 /\ bs[i].low <= bs[i].close /\ bs[i].close <= bs[i].high
           /\ bs[i].open \in Nat
<1>1. bs[i] \in Candles
    OBVIOUS
<1> QED BY <1>1 DEF Candles

LEMMA PricesAre ==
    ASSUME NEW bs \in Seq(Candles)
    PROVE  /\ Closes(bs) \in Seq(NotNegative) /\ Highs(bs) \in Seq(NotNegative)
           /\ Lows(bs) \in Seq(NotNegative) /\ Volumes(bs) \in Seq(NotNegative)
           /\ Len(Closes(bs)) = Len(bs) /\ Len(Highs(bs)) = Len(bs)
           /\ Len(Lows(bs)) = Len(bs) /\ Len(Volumes(bs)) = Len(bs)
           /\ \A i \in 1 .. Len(bs) :
                 /\ Closes(bs)[i] = Whole(bs[i].close) /\ Highs(bs)[i] = Whole(bs[i].high)
                 /\ Lows(bs)[i] = Whole(bs[i].low) /\ Volumes(bs)[i] = Whole(bs[i].volume)
<1>1. Len(bs) \in Nat /\ DOMAIN bs = 1 .. Len(bs)
    OBVIOUS
<1>2. \A i \in 1 .. Len(bs) :
         /\ Whole(bs[i].close) \in NotNegative /\ Whole(bs[i].high) \in NotNegative
         /\ Whole(bs[i].low) \in NotNegative /\ Whole(bs[i].volume) \in NotNegative
    BY CandleIs, NotNegatives
<1> DEFINE n == Len(bs)
<1>3. /\ [i \in 1 .. n |-> Whole(bs[i].close)] \in [1 .. n -> NotNegative]
      /\ [i \in 1 .. n |-> Whole(bs[i].high)] \in [1 .. n -> NotNegative]
      /\ [i \in 1 .. n |-> Whole(bs[i].low)] \in [1 .. n -> NotNegative]
      /\ [i \in 1 .. n |-> Whole(bs[i].volume)] \in [1 .. n -> NotNegative]
    BY <1>2
<1>4. /\ Closes(bs) = [i \in 1 .. n |-> Whole(bs[i].close)]
      /\ Highs(bs) = [i \in 1 .. n |-> Whole(bs[i].high)]
      /\ Lows(bs) = [i \in 1 .. n |-> Whole(bs[i].low)]
      /\ Volumes(bs) = [i \in 1 .. n |-> Whole(bs[i].volume)]
    BY <1>1 DEF Closes, Highs, Lows, Volumes
<1> HIDE DEF n
<1>5. n \in Nat
    BY <1>1 DEF n
<1>6. /\ Closes(bs) \in Seq(NotNegative) /\ Len(Closes(bs)) = n
      /\ Highs(bs) \in Seq(NotNegative) /\ Len(Highs(bs)) = n
      /\ Lows(bs) \in Seq(NotNegative) /\ Len(Lows(bs)) = n
      /\ Volumes(bs) \in Seq(NotNegative) /\ Len(Volumes(bs)) = n
    BY <1>3, <1>4, <1>5, Tabled
<1> QED BY <1>4, <1>6 DEF n

LEMMA NotNegativeSeq ==
    /\ Seq(NotNegative) \subseteq Seq(Fraction)
    /\ Seq(NotNegative) \subseteq Seq(Numbers)
    /\ NotNegative \subseteq Fraction
BY DEF NotNegative, Numbers

LEMMA PricesBegin ==
    ASSUME NEW b \in Seq(Candles), NEW c \in Seq(Candles), Begins(b, c)
    PROVE  /\ Begins(Closes(b), Closes(c)) /\ Begins(Highs(b), Highs(c))
           /\ Begins(Lows(b), Lows(c)) /\ Begins(Volumes(b), Volumes(c))
<1>1. Len(b) <= Len(c) /\ \A i \in 1 .. Len(b) : i \in 1 .. Len(c) /\ b[i] = c[i]
    BY DEF Begins
<1>2. /\ Len(Closes(b)) = Len(b) /\ Len(Highs(b)) = Len(b) /\ Len(Lows(b)) = Len(b)
      /\ Len(Volumes(b)) = Len(b) /\ Len(Closes(c)) = Len(c) /\ Len(Highs(c)) = Len(c)
      /\ Len(Lows(c)) = Len(c) /\ Len(Volumes(c)) = Len(c)
    BY PricesAre
<1>3. ASSUME NEW i \in 1 .. Len(b)
      PROVE  /\ Closes(b)[i] = Closes(c)[i] /\ Highs(b)[i] = Highs(c)[i]
             /\ Lows(b)[i] = Lows(c)[i] /\ Volumes(b)[i] = Volumes(c)[i]
    <2>1. /\ Closes(b)[i] = Whole(b[i].close) /\ Highs(b)[i] = Whole(b[i].high)
          /\ Lows(b)[i] = Whole(b[i].low) /\ Volumes(b)[i] = Whole(b[i].volume)
        BY PricesAre
    <2>2. /\ Closes(c)[i] = Whole(c[i].close) /\ Highs(c)[i] = Whole(c[i].high)
          /\ Lows(c)[i] = Whole(c[i].low) /\ Volumes(c)[i] = Whole(c[i].volume)
        BY <1>1, PricesAre
    <2> QED BY <1>1, <2>1, <2>2
<1> QED BY <1>1, <1>2, <1>3 DEF Begins

(* Where each indicator that goes from value to value agrees on both.       *)
LEMMA EmaBegins ==
    ASSUME NEW s \in Seq(Numbers), NEW t \in Seq(Numbers), Begins(s, t),
           NEW period \in Nat, period > 0
    PROVE  Begins(Ema(s, period), Ema(t, period))
<1>1. /\ Len(s) \in Nat /\ Len(t) \in Nat /\ Len(s) <= Len(t)
      /\ \A i \in 1 .. Len(s) : i \in 1 .. Len(t) /\ s[i] = t[i]
    BY DEF Begins
<1> DEFINE k == Ratio(2, period + 1)
           d == Ema(s, period)
           e == Ema(t, period)
<1>2. /\ Len(d) = Len(s)
      /\ \A i \in 1 .. Len(s) :
            /\ i < period => d[i] = NaN
            /\ i = period => d[i] = Mean(SubSeq(s, 1, period))
            /\ i > period => d[i] = Plus(Times(s[i], k), Times(d[i - 1], Minus(One, k)))
    BY EmaIs
<1>3. /\ Len(e) = Len(t)
      /\ \A i \in 1 .. Len(t) :
            /\ i < period => e[i] = NaN
            /\ i = period => e[i] = Mean(SubSeq(t, 1, period))
            /\ i > period => e[i] = Plus(Times(t[i], k), Times(e[i - 1], Minus(One, k)))
    BY EmaIs
<1> HIDE DEF k, d, e
<1> DEFINE T == {i \in 1 .. Len(s) : d[i] = e[i]}
<1>4. period <= Len(s) => period \in T
    <2> SUFFICES ASSUME period <= Len(s) PROVE d[period] = e[period] /\ period \in 1 .. Len(s)
        OBVIOUS
    <2>1. period \in 1 .. Len(s) /\ period \in 1 .. Len(t)
        BY <1>1
    <2>2. Window(s, period, period) = Window(t, period, period) /\ (period - period) + 1 = 1
        BY <2>1, WindowsSame
    <2>3. SubSeq(s, 1, period) = SubSeq(t, 1, period)
        BY <2>2 DEF Window
    <2> QED BY <1>2, <1>3, <2>1, <2>3
<1>5. \A i \in (period + 1) .. Len(s) : i - 1 \in T => i \in T
    <2> SUFFICES ASSUME NEW i \in (period + 1) .. Len(s), i - 1 \in T PROVE i \in T
        OBVIOUS
    <2>1. i \in 1 .. Len(s) /\ i \in 1 .. Len(t) /\ i > period
        BY <1>1
    <2> QED BY <1>1, <1>2, <1>3, <2>1
<1>6. \A i \in period .. Len(s) : i \in T
    <2> HIDE DEF T
    <2> QED BY <1>1, <1>4, <1>5, Steps
<1>7. ASSUME NEW i \in 1 .. Len(s) PROVE d[i] = e[i]
    <2>1. i < period \/ i \in period .. Len(s)
        BY <1>1
    <2> QED BY <1>1, <1>2, <1>3, <1>6, <2>1
<1> QED BY <1>1, <1>2, <1>3, <1>7 DEF Begins, d, e

LEMMA WilderBegins ==
    ASSUME NEW s \in Seq(Numbers), NEW t \in Seq(Numbers), Begins(s, t),
           NEW period \in Nat, period > 0,
           NEW begin \in Nat, begin >= period
    PROVE  Begins(Wilder(s, begin, period), Wilder(t, begin, period))
<1>1. /\ Len(s) \in Nat /\ Len(t) \in Nat /\ Len(s) <= Len(t)
      /\ \A i \in 1 .. Len(s) : i \in 1 .. Len(t) /\ s[i] = t[i]
    BY DEF Begins
<1> DEFINE d == Wilder(s, begin, period)
           e == Wilder(t, begin, period)
<1>2. /\ Len(d) = Len(s)
      /\ \A i \in 1 .. Len(s) :
            /\ i < begin => d[i] = NaN
            /\ i = begin => d[i] = Mean(Window(s, begin, period))
            /\ i > begin => d[i] = Over(Plus(Times(d[i - 1], Whole(period - 1)), s[i]), Whole(period))
    BY WilderIs
<1>3. /\ Len(e) = Len(t)
      /\ \A i \in 1 .. Len(t) :
            /\ i < begin => e[i] = NaN
            /\ i = begin => e[i] = Mean(Window(t, begin, period))
            /\ i > begin => e[i] = Over(Plus(Times(e[i - 1], Whole(period - 1)), t[i]), Whole(period))
    BY WilderIs
<1> HIDE DEF d, e
<1> DEFINE first == begin
           T == {i \in 1 .. Len(s) : d[i] = e[i]}
<1>4. first <= Len(s) => first \in T
    <2> SUFFICES ASSUME first <= Len(s) PROVE d[first] = e[first] /\ first \in 1 .. Len(s)
        OBVIOUS
    <2>1. first \in 1 .. Len(s) /\ first \in 1 .. Len(t) /\ period <= first
        BY <1>1
    <2>2. Window(s, first, period) = Window(t, first, period)
        BY <2>1, WindowsSame
    <2> QED BY <1>2, <1>3, <2>1, <2>2
<1>5. \A i \in (first + 1) .. Len(s) : i - 1 \in T => i \in T
    <2> SUFFICES ASSUME NEW i \in (first + 1) .. Len(s), i - 1 \in T PROVE i \in T
        OBVIOUS
    <2>1. i \in 1 .. Len(s) /\ i \in 1 .. Len(t) /\ i > first
        BY <1>1
    <2> QED BY <1>1, <1>2, <1>3, <2>1
<1>6. \A i \in first .. Len(s) : i \in T
    <2>1. first \in Nat
        OBVIOUS
    <2> HIDE DEF T, first
    <2> QED BY <1>1, <1>4, <1>5, <2>1, Steps
<1>7. ASSUME NEW i \in 1 .. Len(s) PROVE d[i] = e[i]
    <2>1. i < first \/ i \in first .. Len(s)
        BY <1>1
    <2> QED BY <1>1, <1>2, <1>3, <1>6, <2>1
<1> QED BY <1>1, <1>2, <1>3, <1>7 DEF Begins, d, e

LEMMA SmoothedBegins ==
    ASSUME NEW s \in Seq(Numbers), NEW t \in Seq(Numbers), Begins(s, t),
           NEW period \in Nat, period > 0
    PROVE  Begins(Smoothed(s, period), Smoothed(t, period))
<1>1. /\ Len(s) \in Nat /\ Len(t) \in Nat /\ Len(s) <= Len(t)
      /\ \A i \in 1 .. Len(s) : i \in 1 .. Len(t) /\ s[i] = t[i]
    BY DEF Begins
<1> DEFINE d == Smoothed(s, period)
           e == Smoothed(t, period)
<1>2. /\ Len(d) = Len(s)
      /\ \A i \in 1 .. Len(s) :
            /\ i < (period + 1) => d[i] = NaN
            /\ i = (period + 1) => d[i] = Total(Window(s, period + 1, period))
            /\ i > (period + 1) => d[i] = Plus(Minus(d[i - 1], Over(d[i - 1], Whole(period))), s[i])
    BY SmoothedIs
<1>3. /\ Len(e) = Len(t)
      /\ \A i \in 1 .. Len(t) :
            /\ i < (period + 1) => e[i] = NaN
            /\ i = (period + 1) => e[i] = Total(Window(t, period + 1, period))
            /\ i > (period + 1) => e[i] = Plus(Minus(e[i - 1], Over(e[i - 1], Whole(period))), t[i])
    BY SmoothedIs
<1> HIDE DEF d, e
<1> DEFINE first == (period + 1)
           T == {i \in 1 .. Len(s) : d[i] = e[i]}
<1>4. first <= Len(s) => first \in T
    <2> SUFFICES ASSUME first <= Len(s) PROVE d[first] = e[first] /\ first \in 1 .. Len(s)
        OBVIOUS
    <2>1. first \in 1 .. Len(s) /\ first \in 1 .. Len(t) /\ period <= first
        BY <1>1
    <2>2. Window(s, first, period) = Window(t, first, period)
        BY <2>1, WindowsSame
    <2> QED BY <1>2, <1>3, <2>1, <2>2
<1>5. \A i \in (first + 1) .. Len(s) : i - 1 \in T => i \in T
    <2> SUFFICES ASSUME NEW i \in (first + 1) .. Len(s), i - 1 \in T PROVE i \in T
        OBVIOUS
    <2>1. i \in 1 .. Len(s) /\ i \in 1 .. Len(t) /\ i > first
        BY <1>1
    <2> QED BY <1>1, <1>2, <1>3, <2>1
<1>6. \A i \in first .. Len(s) : i \in T
    <2>1. first \in Nat
        OBVIOUS
    <2> HIDE DEF T, first
    <2> QED BY <1>1, <1>4, <1>5, <2>1, Steps
<1>7. ASSUME NEW i \in 1 .. Len(s) PROVE d[i] = e[i]
    <2>1. i < first \/ i \in first .. Len(s)
        BY <1>1
    <2> QED BY <1>1, <1>2, <1>3, <1>6, <2>1
<1> QED BY <1>1, <1>2, <1>3, <1>7 DEF Begins, d, e

LEMMA ObvBegins ==
    ASSUME NEW b \in Seq(Candles), NEW c \in Seq(Candles), Begins(b, c)
    PROVE  Begins(Obv(b), Obv(c))
<1>1. /\ Len(b) \in Nat /\ Len(c) \in Nat /\ Len(b) <= Len(c)
      /\ \A i \in 1 .. Len(b) : i \in 1 .. Len(c) /\ b[i] = c[i]
    BY DEF Begins
<1> DEFINE d == Obv(b)
           e == Obv(c)
<1>2. Len(d) = Len(b) /\ \A i \in 1 .. Len(b) :
          (i = 1 => d[i] = Zero) /\ (i > 1 => d[i] = ObvStep(b, d[i - 1], i))
    BY ObvIs
<1>3. Len(e) = Len(c) /\ \A i \in 1 .. Len(c) :
          (i = 1 => e[i] = Zero) /\ (i > 1 => e[i] = ObvStep(c, e[i - 1], i))
    BY ObvIs
<1> HIDE DEF d, e
<1> DEFINE T == {i \in 1 .. Len(b) : d[i] = e[i]}
<1>4. 1 <= Len(b) => 1 \in T
    BY <1>1, <1>2, <1>3
<1>5. \A i \in (1 + 1) .. Len(b) : i - 1 \in T => i \in T
    <2> SUFFICES ASSUME NEW i \in (1 + 1) .. Len(b), i - 1 \in T PROVE d[i] = e[i] /\ i \in 1 .. Len(b)
        OBVIOUS
    <2>1. i \in 1 .. Len(b) /\ i \in 1 .. Len(c) /\ i > 1 /\ i - 1 \in 1 .. Len(b)
        BY <1>1
    <2>2. b[i] = c[i] /\ b[i - 1] = c[i - 1] /\ d[i - 1] = e[i - 1]
        BY <1>1, <2>1
    <2>3. ObvStep(b, d[i - 1], i) = ObvStep(c, e[i - 1], i)
        BY <2>2 DEF ObvStep
    <2> QED BY <1>2, <1>3, <2>1, <2>3
<1>6. \A i \in 1 .. Len(b) : i \in T
    <2> HIDE DEF T
    <2> QED BY <1>1, <1>4, <1>5, Steps
<1> QED BY <1>1, <1>2, <1>3, <1>6 DEF Begins, d, e

-----------------------------------------------------------------------------
(* What is between two bounds stays there.                                  *)
LEMMA Shares ==
    ASSUME NEW x \in Fraction, NEW k \in Fraction
    PROVE  Plus(Times(x, k), Times(x, Minus(One, k))) = x
<1>1. One \in Fraction /\ Minus(One, k) \in Fraction
    BY ConstantsAre, Closed
<1>2. Times(Plus(k, Minus(One, k)), x) = Plus(Times(k, x), Times(Minus(One, k), x))
    BY <1>1, TimesAssociates
<1>3. Plus(k, Minus(One, k)) = One
    <2>1. Plus(k, Minus(One, k)) = Plus(Minus(One, k), k)
        BY <1>1, PlusLaws
    <2> QED BY <1>1, <2>1, PlusLaws
<1>4. Times(One, x) = x
    BY <1>1, TimesLaws
<1>5. Times(k, x) = Times(x, k) /\ Times(Minus(One, k), x) = Times(x, Minus(One, k))
    BY <1>1, TimesLaws
<1> QED BY <1>2, <1>3, <1>4, <1>5

LEMMA SharesBetween ==
    ASSUME NEW x \in Fraction, NEW y \in Fraction, NEW k \in Fraction,
           AtMost(Zero, k), AtMost(k, One), NEW lo \in Fraction, NEW hi \in Fraction,
           AtMost(lo, x), AtMost(x, hi), AtMost(lo, y), AtMost(y, hi)
    PROVE  LET z == Plus(Times(x, k), Times(y, Minus(One, k)))
           IN z \in Fraction /\ AtMost(lo, z) /\ AtMost(z, hi)
<1> DEFINE c == Minus(One, k)
<1>1. One \in Fraction /\ Zero \in Fraction /\ c \in Fraction
    BY ConstantsAre, Closed
<1>2. AtMost(Zero, c)
    <2>1. AtMost(k, One) <=> AtMost(Minus(k, k), Minus(One, k))
        BY <1>1, OrderAdds
    <2>2. Minus(k, k) = Zero
        BY PlusLaws
    <2> QED BY <2>1, <2>2
<1>3. \A v \in Fraction : Plus(Times(v, k), Times(v, c)) = v
    BY Shares
<1> HIDE DEF c
<1>4. \A v \in Fraction : Times(v, k) \in Fraction /\ Times(v, c) \in Fraction
    BY <1>1, Closed
<1>5. AtMost(Times(lo, k), Times(x, k)) /\ AtMost(Times(x, k), Times(hi, k))
    BY OrderMultiplies
<1>6. AtMost(Times(lo, c), Times(y, c)) /\ AtMost(Times(y, c), Times(hi, c))
    BY <1>1, <1>2, OrderMultiplies
<1>7. AtMost(Plus(Times(lo, k), Times(lo, c)), Plus(Times(x, k), Times(y, c)))
    BY <1>4, <1>5, <1>6, OrderAddsBoth
<1>8. AtMost(Plus(Times(x, k), Times(y, c)), Plus(Times(hi, k), Times(hi, c)))
    BY <1>4, <1>5, <1>6, OrderAddsBoth
<1>9. Plus(Times(x, k), Times(y, c)) \in Fraction
    BY <1>4, Closed
<1> QED BY <1>3, <1>7, <1>8, <1>9 DEF c

LEMMA WilderStep ==
    ASSUME NEW x \in Fraction, NEW v \in Fraction, NEW period \in Nat, period > 0,
           NEW lo \in Fraction, NEW hi \in Fraction,
           AtMost(lo, x), AtMost(x, hi), AtMost(lo, v), AtMost(v, hi)
    PROVE  LET z == Over(Plus(Times(v, Whole(period - 1)), x), Whole(period))
           IN z \in Fraction /\ AtMost(lo, z) /\ AtMost(z, hi)
<1> DEFINE w == Whole(period - 1)
           p == Whole(period)
<1>1. w \in Fraction /\ AtMost(Zero, w) /\ p \in Positive
    <2>1. period \in Int /\ period - 1 \in Int /\ 0 <= period - 1 /\ 0 \in Int
        OBVIOUS
    <2> QED BY <2>1, WholesAre DEF Zero
<1>2. \A a \in Fraction : Times(a, p) = Plus(Times(a, w), a)
    BY TimesNext
<1> HIDE DEF w, p
<1>3. AtMost(Times(lo, w), Times(v, w)) /\ AtMost(Times(v, w), Times(hi, w))
    BY <1>1, OrderMultiplies
<1>4. \A a \in Fraction : Times(a, w) \in Fraction /\ Plus(Times(a, w), x) \in Fraction
    BY <1>1, Closed
<1>5. AtMost(Plus(Times(lo, w), lo), Plus(Times(v, w), x))
      /\ AtMost(Plus(Times(v, w), x), Plus(Times(hi, w), hi))
    BY <1>3, <1>4, OrderAddsBoth
<1>6. AtMost(Times(lo, p), Plus(Times(v, w), x)) /\ AtMost(Plus(Times(v, w), x), Times(hi, p))
    BY <1>2, <1>5
<1>7. AtMost(lo, Over(Plus(Times(v, w), x), p)) /\ AtMost(Over(Plus(Times(v, w), x), p), hi)
    BY <1>1, <1>4, <1>6, OrderDivides
<1>8. Over(Plus(Times(v, w), x), p) \in Fraction
    BY <1>1, <1>4, OverLaws
<1> QED BY <1>7, <1>8 DEF w, p

(* A series that exists from first on, between two bounds.                  *)
Valid(s, first) ==
    /\ s \in Seq(Numbers)
    /\ \A i \in 1 .. Len(s) : IF i < first THEN s[i] = NaN ELSE s[i] \in Fraction
Kept(s, first, lo, hi) ==
    Valid(s, first) /\ \A i \in first .. Len(s) : AtMost(lo, s[i]) /\ AtMost(s[i], hi)

LEMMA EmaBetween ==
    ASSUME NEW s \in Seq(Fraction), NEW period \in Nat, period > 0,
           NEW lo \in Fraction, NEW hi \in Fraction,
           \A i \in 1 .. Len(s) : AtMost(lo, s[i]) /\ AtMost(s[i], hi)
    PROVE  Kept(Ema(s, period), period, lo, hi) /\ Len(Ema(s, period)) = Len(s)
<1> DEFINE k == Ratio(2, period + 1)
           e == Ema(s, period)
<1>1. s \in Seq(Numbers) /\ Len(s) \in Nat /\ \A i \in 1 .. Len(s) : s[i] \in Fraction
    BY FractionsAre
<1>2. /\ e \in Seq(Numbers) /\ Len(e) = Len(s)
      /\ \A i \in 1 .. Len(s) :
            /\ i < period => e[i] = NaN
            /\ i = period => e[i] = Mean(SubSeq(s, 1, period))
            /\ i > period => e[i] = Plus(Times(s[i], k), Times(e[i - 1], Minus(One, k)))
    BY <1>1, EmaIs
<1>3. k \in Fraction /\ AtMost(Zero, k) /\ AtMost(k, One)
    <2>1. 2 \in Int /\ period + 1 \in Nat /\ period + 1 # 0 /\ 2 >= 0 /\ 2 <= period + 1
        OBVIOUS
    <2> QED BY <2>1, RatiosAre
<1> HIDE DEF k, e
<1> DEFINE T == {i \in 1 .. Len(s) : e[i] \in Fraction /\ AtMost(lo, e[i]) /\ AtMost(e[i], hi)}
<1>4. period <= Len(s) => period \in T
    <2> SUFFICES ASSUME period <= Len(s) PROVE period \in T
        OBVIOUS
    <2>1. period \in 1 .. Len(s)
        BY <1>1
    <2> DEFINE w == SubSeq(s, 1, period)
    <2>2. w \in Seq(Fraction) /\ Len(w) = period /\ \A i \in 1 .. period : w[i] = s[i]
        BY <2>1
    <2> HIDE DEF w
    <2>3. \A i \in 1 .. Len(w) : AtMost(lo, w[i]) /\ AtMost(w[i], hi)
        BY <1>1, <2>1, <2>2
    <2>4. AtMost(lo, Mean(w)) /\ AtMost(Mean(w), hi) /\ Mean(w) \in Fraction
        BY <2>2, <2>3, MeanBetween
    <2> QED BY <1>2, <2>1, <2>4 DEF w
<1>5. \A i \in (period + 1) .. Len(s) : i - 1 \in T => i \in T
    <2> SUFFICES ASSUME NEW i \in (period + 1) .. Len(s), i - 1 \in T PROVE i \in T
        OBVIOUS
    <2>1. i \in 1 .. Len(s) /\ i > period
        BY <1>1
    <2>2. e[i] = Plus(Times(s[i], k), Times(e[i - 1], Minus(One, k)))
        BY <1>2, <2>1
    <2>3. /\ s[i] \in Fraction /\ AtMost(lo, s[i]) /\ AtMost(s[i], hi)
          /\ e[i - 1] \in Fraction /\ AtMost(lo, e[i - 1]) /\ AtMost(e[i - 1], hi)
        BY <1>1, <2>1
    <2> QED BY <1>3, <2>1, <2>2, <2>3, SharesBetween
<1>6. \A i \in period .. Len(s) : i \in T
    <2> HIDE DEF T
    <2> QED BY <1>1, <1>4, <1>5, Steps
<1>7. \A i \in 1 .. Len(s) : i < period \/ i \in period .. Len(s)
    BY <1>1
<1> QED BY <1>1, <1>2, <1>6, <1>7 DEF Valid, Kept, e

LEMMA WilderBetween ==
    ASSUME NEW s \in Seq(Numbers), NEW period \in Nat, period > 0,
           NEW begin \in Nat, begin >= period, NEW lo \in Fraction, NEW hi \in Fraction,
           \A i \in ((begin - period) + 1) .. Len(s) :
               s[i] \in Fraction /\ AtMost(lo, s[i]) /\ AtMost(s[i], hi)
    PROVE  Kept(Wilder(s, begin, period), begin, lo, hi)
           /\ Len(Wilder(s, begin, period)) = Len(s)
<1> DEFINE e == Wilder(s, begin, period)
<1>1. Len(s) \in Nat
    OBVIOUS
<1>2. /\ e \in Seq(Numbers) /\ Len(e) = Len(s)
      /\ \A i \in 1 .. Len(s) :
            /\ i < begin => e[i] = NaN
            /\ i = begin => e[i] = Mean(Window(s, begin, period))
            /\ i > begin => e[i] = Over(Plus(Times(e[i - 1], Whole(period - 1)), s[i]), Whole(period))
    BY <1>1, WilderIs
<1> HIDE DEF e
<1> DEFINE T == {i \in 1 .. Len(s) : e[i] \in Fraction /\ AtMost(lo, e[i]) /\ AtMost(e[i], hi)}
<1>4. begin <= Len(s) => begin \in T
    <2> SUFFICES ASSUME begin <= Len(s) PROVE begin \in T
        OBVIOUS
    <2>1. begin \in 1 .. Len(s)
        BY <1>1
    <2> DEFINE w == Window(s, begin, period)
    <2>2. w \in Seq(Numbers) /\ Len(w) = period /\ \A j \in 1 .. period : w[j] = s[(begin - period) + j]
        BY <2>1, WindowIs
    <2> HIDE DEF w
    <2>3. \A j \in 1 .. period : w[j] \in Fraction /\ AtMost(lo, w[j]) /\ AtMost(w[j], hi)
        <3> SUFFICES ASSUME NEW j \in 1 .. period
                     PROVE  w[j] \in Fraction /\ AtMost(lo, w[j]) /\ AtMost(w[j], hi)
            OBVIOUS
        <3>1. (begin - period) + j \in ((begin - period) + 1) .. Len(s)
            BY <1>1, <2>1
        <3> QED BY <2>2, <3>1
    <2>4. w \in Seq(Fraction)
        BY <2>2, <2>3
    <2>5. AtMost(lo, Mean(w)) /\ AtMost(Mean(w), hi) /\ Mean(w) \in Fraction
        BY <2>2, <2>3, <2>4, MeanBetween
    <2> QED BY <1>2, <2>1, <2>5 DEF w
<1>5. \A i \in (begin + 1) .. Len(s) : i - 1 \in T => i \in T
    <2> SUFFICES ASSUME NEW i \in (begin + 1) .. Len(s), i - 1 \in T PROVE i \in T
        OBVIOUS
    <2>1. i \in 1 .. Len(s) /\ i > begin /\ i \in ((begin - period) + 1) .. Len(s)
        BY <1>1
    <2>2. e[i] = Over(Plus(Times(e[i - 1], Whole(period - 1)), s[i]), Whole(period))
        BY <1>2, <2>1
    <2>3. /\ s[i] \in Fraction /\ AtMost(lo, s[i]) /\ AtMost(s[i], hi)
          /\ e[i - 1] \in Fraction /\ AtMost(lo, e[i - 1]) /\ AtMost(e[i - 1], hi)
        BY <1>1, <2>1
    <2> QED BY <2>1, <2>2, <2>3, WilderStep
<1>6. \A i \in begin .. Len(s) : i \in T
    <2> HIDE DEF T
    <2> QED BY <1>1, <1>4, <1>5, Steps
<1>7. \A i \in 1 .. Len(s) : i < begin \/ i \in begin .. Len(s)
    BY <1>1
<1> QED BY <1>1, <1>2, <1>6, <1>7 DEF Valid, Kept, e

LEMMA SmaBetween ==
    ASSUME NEW s \in Seq(Fraction), NEW period \in Nat, period > 0,
           NEW lo \in Fraction, NEW hi \in Fraction,
           \A i \in 1 .. Len(s) : AtMost(lo, s[i]) /\ AtMost(s[i], hi)
    PROVE  Kept(Sma(s, period), period, lo, hi) /\ Len(Sma(s, period)) = Len(s)
<1> DEFINE n == Len(s)
           value(i) == IF i < period THEN NaN ELSE Mean(Window(s, i, period))
           e == [i \in 1 .. n |-> value(i)]
<1>1. n \in Nat /\ \A i \in 1 .. n : s[i] \in Fraction
    OBVIOUS
<1>2. Sma(s, period) = e
    BY SmaIs
<1>3. ASSUME NEW i \in 1 .. n, ~(i < period)
      PROVE  LET m == Mean(Window(s, i, period))
             IN m \in Fraction /\ AtMost(lo, m) /\ AtMost(m, hi)
    <2> DEFINE w == Window(s, i, period)
    <2>1. w \in Seq(Fraction) /\ Len(w) = period /\ \A j \in 1 .. period : w[j] = s[(i - period) + j]
        <3>1. period <= i /\ i \in 1 .. Len(s)
            BY <1>3
        <3> QED BY <3>1, WindowIs
    <2>2. \A j \in 1 .. period : (i - period) + j \in 1 .. n
        BY <1>1, <1>3
    <2> HIDE DEF w
    <2>3. \A j \in 1 .. Len(w) : AtMost(lo, w[j]) /\ AtMost(w[j], hi)
        BY <2>1, <2>2
    <2>4. AtMost(lo, Mean(w)) /\ AtMost(Mean(w), hi) /\ Mean(w) \in Fraction
        BY <2>1, <2>3, MeanBetween
    <2> QED BY <2>4 DEF w
<1>4. ASSUME NEW i \in 1 .. n
      PROVE  /\ value(i) \in Numbers
             /\ IF i < period THEN value(i) = NaN
                ELSE value(i) \in Fraction /\ AtMost(lo, value(i)) /\ AtMost(value(i), hi)
    BY <1>3, NaNIs, FractionsAre
<1> HIDE DEF value
<1>5. e \in [1 .. n -> Numbers] /\ \A i \in 1 .. n : e[i] = value(i)
    BY <1>4
<1>6. e \in Seq(Numbers) /\ Len(e) = n
    BY <1>1, <1>5, Tabled
<1> HIDE DEF e, n
<1>7. \A i \in period .. n : i \in 1 .. n /\ ~(i < period)
    BY <1>1
<1> QED BY <1>2, <1>4, <1>5, <1>6, <1>7 DEF Valid, Kept, n

LEMMA ValidIs ==
    ASSUME NEW n \in Nat, NEW first \in Nat, NEW e, e = [i \in 1 .. n |-> e[i]],
           \A i \in 1 .. n : IF i < first THEN e[i] = NaN ELSE e[i] \in Fraction
    PROVE  Valid(e, first) /\ Len(e) = n
<1>1. \A i \in 1 .. n : e[i] \in Numbers
    BY NaNIs, FractionsAre
<1>2. e \in [1 .. n -> Numbers]
    BY <1>1
<1>3. e \in Seq(Numbers) /\ Len(e) = n
    BY <1>2, Tabled
<1> QED BY <1>3 DEF Valid

LEMMA BeginsIs ==
    ASSUME NEW W, NEW s \in Seq(W), NEW t \in Seq(W), Begins(s, t)
    PROVE  /\ Len(s) \in Nat /\ Len(t) \in Nat /\ Len(s) <= Len(t)
           /\ \A i \in 1 .. Len(s) : i \in 1 .. Len(t) /\ s[i] = t[i]
BY DEF Begins

-----------------------------------------------------------------------------
(* The RSI.                                                                 *)
LEMMA StrengthIs ==
    /\ \A x \in Numbers, y \in Numbers : (IsNaN(x) \/ IsNaN(y)) => Strength(x, y) = NaN
    /\ \A x \in NotNegative, y \in NotNegative :
          /\ Strength(x, y) \in Fraction
          /\ AtMost(Zero, Strength(x, y)) /\ AtMost(Strength(x, y), Hundred)
<1>1. ASSUME NEW x \in Numbers, NEW y \in Numbers, IsNaN(x) \/ IsNaN(y)
      PROVE  Strength(x, y) = NaN
    <2>1. ~(~IsNaN(x) /\ y = Zero)
        BY <1>1, ConstantsAre, FractionIs
    <2> QED BY <1>1, <2>1 DEF Strength
<1>2. ASSUME NEW x \in NotNegative, NEW y \in NotNegative
      PROVE  /\ Strength(x, y) \in Fraction
             /\ AtMost(Zero, Strength(x, y)) /\ AtMost(Strength(x, y), Hundred)
    <2>1. ~IsNaN(x) /\ ~IsNaN(y) /\ x \in Fraction /\ y \in Fraction
          /\ Zero \in Fraction /\ One \in Fraction /\ Hundred \in Fraction
          /\ AtMost(Zero, Hundred) /\ AtMost(Zero, One) /\ AtMost(Hundred, Hundred)
        BY FractionIs, ConstantsAre, NotNegatives, Order DEF NotNegative
    <2>2. CASE y = Zero
        <3>1. Strength(x, y) = Hundred
            BY <2>1, <2>2 DEF Strength
        <3> QED BY <2>1, <3>1
    <2>3. CASE y # Zero
        <3> DEFINE q == Over(x, y)
                   p == Plus(One, q)
                   z == Over(Hundred, p)
        <3>1. Strength(x, y) = Minus(Hundred, z)
            BY <2>1, <2>3 DEF Strength
        <3>2. q \in NotNegative
            BY <2>3, NotNegatives
        <3>3. q \in Fraction /\ AtMost(Zero, q)
            BY <3>2 DEF NotNegative
        <3> HIDE DEF q
        <3>4. p \in Fraction /\ AtMost(One, p)
            <4>1. AtMost(Zero, q) <=> AtMost(Plus(Zero, One), Plus(q, One))
                BY <2>1, <3>3, OrderAdds
            <4>2. Plus(Zero, One) = One /\ Plus(q, One) = Plus(One, q)
                BY <2>1, <3>3, PlusLaws
            <4> QED BY <2>1, <3>3, <4>1, <4>2, Closed
        <3>5. p \in Positive
            <4>1. Less(Zero, One)
                BY WholesAre DEF Zero, One
            <4>2. Less(Zero, p)
                BY <2>1, <3>4, <4>1, LessPasses
            <4> QED BY <3>4, <4>2, PositiveIs
        <3> HIDE DEF p
        <3>6. z \in Fraction /\ AtMost(Zero, z)
            <4>1. Hundred \in NotNegative
                BY NotNegatives
            <4> QED BY <3>5, <4>1, NotNegatives DEF NotNegative
        <3>7. AtMost(z, Hundred)
            <4>1. AtMost(Times(One, Hundred), Times(p, Hundred))
                BY <2>1, <3>4, OrderMultiplies
            <4>2. Times(One, Hundred) = Hundred /\ Times(p, Hundred) = Times(Hundred, p)
                BY <2>1, <3>4, TimesLaws
            <4>3. AtMost(Hundred, Times(Hundred, p)) <=> AtMost(Over(Hundred, p), Hundred)
                BY <2>1, <3>5, OrderDivides
            <4> QED BY <4>1, <4>2, <4>3
        <3> HIDE DEF z
        <3>8. Minus(Hundred, z) \in Fraction
            BY <2>1, <3>6, Closed
        <3>9. AtMost(Zero, Minus(Hundred, z))
            <4>1. AtMost(z, Hundred) <=> AtMost(Minus(z, z), Minus(Hundred, z))
                BY <2>1, <3>6, OrderAdds
            <4> QED BY <3>6, <3>7, <4>1, PlusLaws
        <3>10. AtMost(Minus(Hundred, z), Hundred)
            <4>1. AtMost(Zero, z) <=> AtMost(Minus(Hundred, z), Minus(Hundred, Zero))
                BY <2>1, <3>6, OrderAdds
            <4>2. Minus(Hundred, Zero) = Hundred
                <5>1. Minus(Plus(Hundred, Zero), Zero) = Hundred /\ Plus(Hundred, Zero) = Hundred
                    BY <2>1, PlusLaws
                <5> QED BY <5>1
            <4> QED BY <3>6, <4>1, <4>2
        <3> QED BY <3>1, <3>8, <3>9, <3>10
    <2> QED BY <2>2, <2>3
<1> QED BY <1>1, <1>2

Changes(s) == [i \in DOMAIN s |-> IF i = 1 THEN Zero ELSE Minus(s[i], s[i - 1])]
Gains(s) == [i \in DOMAIN s |-> Greater(Changes(s)[i], Zero)]
Losses(s) == [i \in DOMAIN s |-> Greater(Minus(Zero, Changes(s)[i]), Zero)]

LEMMA GreaterThanZero ==
    ASSUME NEW x \in Fraction
    PROVE  Greater(x, Zero) \in NotNegative
<1>1. Zero \in Fraction
    BY ConstantsAre
<1> QED BY <1>1, Larger DEF NotNegative

LEMMA GainsAre ==
    ASSUME NEW s \in Seq(Fraction)
    PROVE  /\ Gains(s) \in Seq(NotNegative) /\ Len(Gains(s)) = Len(s)
           /\ Losses(s) \in Seq(NotNegative) /\ Len(Losses(s)) = Len(s)
<1> DEFINE n == Len(s)
<1>1. n \in Nat /\ DOMAIN s = 1 .. n /\ \A i \in 1 .. n : s[i] \in Fraction
    OBVIOUS
<1> HIDE DEF n
<1>2. ASSUME NEW i \in 1 .. n
      PROVE  Changes(s)[i] \in Fraction
    <2>1. Changes(s)[i] = IF i = 1 THEN Zero ELSE Minus(s[i], s[i - 1])
        BY <1>1 DEF Changes
    <2>2. i # 1 => i - 1 \in 1 .. n
        BY <1>1
    <2> QED BY <1>1, <2>1, <2>2, ConstantsAre, Closed
<1>3. ASSUME NEW i \in 1 .. n
      PROVE  /\ Greater(Changes(s)[i], Zero) \in NotNegative
             /\ Greater(Minus(Zero, Changes(s)[i]), Zero) \in NotNegative
    <2>1. Changes(s)[i] \in Fraction /\ Minus(Zero, Changes(s)[i]) \in Fraction
        BY <1>2, ConstantsAre, Closed
    <2> QED BY <2>1, GreaterThanZero
<1>4. Gains(s) \in [1 .. n -> NotNegative] /\ Losses(s) \in [1 .. n -> NotNegative]
    BY <1>1, <1>3 DEF Gains, Losses
<1>5. Gains(s) \in Seq(NotNegative) /\ Len(Gains(s)) = n
      /\ Losses(s) \in Seq(NotNegative) /\ Len(Losses(s)) = n
    BY <1>1, <1>4, Tabled
<1> QED BY <1>5 DEF n

LEMMA GainsBegin ==
    ASSUME NEW s \in Seq(Fraction), NEW t \in Seq(Fraction), Begins(s, t)
    PROVE  Begins(Gains(s), Gains(t)) /\ Begins(Losses(s), Losses(t))
<1>1. /\ Len(s) \in Nat /\ Len(t) \in Nat /\ Len(s) <= Len(t)
      /\ \A i \in 1 .. Len(s) : i \in 1 .. Len(t) /\ s[i] = t[i]
      /\ DOMAIN s = 1 .. Len(s) /\ DOMAIN t = 1 .. Len(t)
    BY BeginsIs
<1>2. ASSUME NEW i \in 1 .. Len(s) PROVE Changes(s)[i] = Changes(t)[i]
    <2>1. i # 1 => i - 1 \in 1 .. Len(s)
        BY <1>1
    <2> QED BY <1>1, <2>1 DEF Changes
<1>3. ASSUME NEW i \in 1 .. Len(s)
      PROVE  Gains(s)[i] = Gains(t)[i] /\ Losses(s)[i] = Losses(t)[i]
    BY <1>1, <1>2 DEF Gains, Losses
<1> QED BY <1>1, <1>3, GainsAre DEF Begins

(* Something that is not negative is between 0 and a highest.               *)
LEMMA BoundsExist ==
    ASSUME NEW s \in Seq(NotNegative)
    PROVE  \E hi \in Fraction : \A i \in 1 .. Len(s) : AtMost(Zero, s[i]) /\ AtMost(s[i], hi)
<1>1. s \in Seq(Fraction) /\ \A i \in 1 .. Len(s) : AtMost(Zero, s[i])
    BY DEF NotNegative
<1>2. CASE Len(s) > 0
    BY <1>1, <1>2, HighestOf
<1>3. CASE ~(Len(s) > 0)
    <2>1. 1 .. Len(s) = {}
        BY <1>3
    <2> QED BY <2>1, ConstantsAre
<1> QED BY <1>2, <1>3

LEMMA WilderNotNegative ==
    ASSUME NEW s \in Seq(NotNegative), NEW period \in Nat, period > 0,
           NEW begin \in Nat, begin >= period
    PROVE  /\ Valid(Wilder(s, begin, period), begin) /\ Len(Wilder(s, begin, period)) = Len(s)
           /\ \A i \in begin .. Len(s) : Wilder(s, begin, period)[i] \in NotNegative
<1>1. PICK hi \in Fraction : \A i \in 1 .. Len(s) : AtMost(Zero, s[i]) /\ AtMost(s[i], hi)
    BY BoundsExist
<1>2. s \in Seq(Numbers) /\ Zero \in Fraction /\ \A i \in 1 .. Len(s) : s[i] \in Fraction
    BY NotNegativeSeq, ConstantsAre
<1>3. \A i \in ((begin - period) + 1) .. Len(s) :
          s[i] \in Fraction /\ AtMost(Zero, s[i]) /\ AtMost(s[i], hi)
    <2>1. \A i \in ((begin - period) + 1) .. Len(s) : i \in 1 .. Len(s)
        OBVIOUS
    <2> QED BY <1>1, <1>2, <2>1
<1> DEFINE e == Wilder(s, begin, period)
<1>4. Kept(e, begin, Zero, hi) /\ Len(e) = Len(s)
    BY <1>2, <1>3, WilderBetween
<1> HIDE DEF e
<1>5. ASSUME NEW i \in begin .. Len(s)
      PROVE  (begin > 0 => e[i] \in Fraction) /\ AtMost(Zero, e[i])
    BY <1>4 DEF Kept, Valid
<1>6. begin > 0
    OBVIOUS
<1> QED BY <1>4, <1>5, <1>6 DEF Kept, e, NotNegative

LEMMA RsiIs ==
    ASSUME NEW s \in Seq(Fraction), NEW period \in Nat, period > 0
    PROVE  Kept(Rsi(s, period), period + 1, Zero, Hundred) /\ Len(Rsi(s, period)) = Len(s)
<1> DEFINE n == Len(s)
           gain == Wilder(Gains(s), period + 1, period)
           loss == Wilder(Losses(s), period + 1, period)
           e == Rsi(s, period)
<1>1. n \in Nat /\ DOMAIN s = 1 .. n /\ period + 1 \in Nat /\ period + 1 >= period
    OBVIOUS
<1>2. e = [i \in 1 .. n |-> Strength(gain[i], loss[i])]
    BY <1>1 DEF Rsi, Gains, Losses, Changes
<1>3. /\ Valid(gain, period + 1) /\ Len(gain) = n /\ \A i \in (period + 1) .. n : gain[i] \in NotNegative
      /\ Valid(loss, period + 1) /\ Len(loss) = n /\ \A i \in (period + 1) .. n : loss[i] \in NotNegative
    BY <1>1, GainsAre, WilderNotNegative
<1> HIDE DEF n, gain, loss, e
<1>4. ASSUME NEW i \in 1 .. n
      PROVE  IF i < period + 1 THEN e[i] = NaN
             ELSE e[i] \in Fraction /\ AtMost(Zero, e[i]) /\ AtMost(e[i], Hundred)
    <2>1. e[i] = Strength(gain[i], loss[i])
        BY <1>2
    <2>2. CASE i < period + 1
        <3>1. gain[i] = NaN /\ loss[i] = NaN /\ NaN \in Numbers /\ IsNaN(NaN)
            BY <1>3, <2>2, NaNIs DEF Valid
        <3> QED BY <2>1, <2>2, <3>1, StrengthIs
    <2>3. CASE ~(i < period + 1)
        <3>1. i \in (period + 1) .. n
            BY <1>1, <2>3
        <3> QED BY <1>3, <2>1, <2>3, <3>1, StrengthIs
    <2> QED BY <2>2, <2>3
<1>5. e = [i \in 1 .. n |-> e[i]]
    BY <1>2
<1>6. Valid(e, period + 1) /\ Len(e) = n
    BY <1>1, <1>4, <1>5, ValidIs
<1>7. \A i \in (period + 1) .. n : i \in 1 .. n /\ ~(i < period + 1)
    BY <1>1
<1> QED BY <1>4, <1>6, <1>7 DEF Kept, n, e

LEMMA RsiBegins ==
    ASSUME NEW s \in Seq(Fraction), NEW t \in Seq(Fraction), Begins(s, t),
           NEW period \in Nat, period > 0
    PROVE  Begins(Rsi(s, period), Rsi(t, period))
<1>1. /\ Len(s) \in Nat /\ Len(t) \in Nat /\ Len(s) <= Len(t)
      /\ \A i \in 1 .. Len(s) : i \in 1 .. Len(t)
      /\ DOMAIN s = 1 .. Len(s) /\ DOMAIN t = 1 .. Len(t)
      /\ period + 1 \in Nat /\ period + 1 >= period
    BY BeginsIs
<1> DEFINE gain(x) == Wilder(Gains(x), period + 1, period)
           loss(x) == Wilder(Losses(x), period + 1, period)
<1>2. /\ Gains(s) \in Seq(Numbers) /\ Gains(t) \in Seq(Numbers) /\ Len(Gains(s)) = Len(s)
      /\ Losses(s) \in Seq(Numbers) /\ Losses(t) \in Seq(Numbers) /\ Len(Losses(s)) = Len(s)
    BY GainsAre, NotNegativeSeq
<1>3. Begins(gain(s), gain(t)) /\ Begins(loss(s), loss(t))
    BY <1>1, <1>2, GainsBegin, WilderBegins
<1>4. Len(gain(s)) = Len(s) /\ Len(loss(s)) = Len(s)
    BY <1>1, GainsAre, WilderNotNegative
<1>5. /\ Rsi(s, period) = [i \in 1 .. Len(s) |-> Strength(gain(s)[i], loss(s)[i])]
      /\ Rsi(t, period) = [i \in 1 .. Len(t) |-> Strength(gain(t)[i], loss(t)[i])]
    BY <1>1 DEF Rsi, Gains, Losses, Changes
<1> HIDE DEF gain, loss
<1>6. \A i \in 1 .. Len(s) : Rsi(s, period)[i] = Rsi(t, period)[i]
    BY <1>1, <1>3, <1>4, <1>5 DEF Begins
<1> QED BY <1>1, <1>6, RsiIs DEF Begins

-----------------------------------------------------------------------------
(* The part of a series that exists, and a series over it.                  *)
LEMMA ExistingIs ==
    ASSUME NEW s \in Seq(Numbers), NEW first \in Nat, first > 0, Valid(s, first)
    PROVE  /\ first <= Len(s) => FirstValid(s) = first /\ Len(Existing(s)) = (Len(s) - first) + 1
           /\ first > Len(s) => FirstValid(s) = Len(s) + 1 /\ Len(Existing(s)) = 0
           /\ Existing(s) \in Seq(Fraction)
           /\ \A j \in 1 .. Len(Existing(s)) : Existing(s)[j] = s[(first + j) - 1]
<1> DEFINE exists == {i \in DOMAIN s : ~IsNaN(s[i])}
           n == Len(s)
<1>1. n \in Nat /\ DOMAIN s = 1 .. n
    OBVIOUS
<1>2. ASSUME NEW i \in 1 .. n
      PROVE  /\ i < first => s[i] = NaN /\ IsNaN(s[i])
             /\ i >= first => s[i] \in Fraction /\ ~IsNaN(s[i])
    <2>1. IF i < first THEN s[i] = NaN ELSE s[i] \in Fraction
        BY DEF Valid
    <2>2. i < first => ~(i >= first)
        BY <1>1
    <2> QED BY <1>1, <2>1, <2>2, NaNIs, FractionIs
<1>3. exists = {i \in 1 .. n : i >= first}
    <2>1. \A i \in 1 .. n : ~IsNaN(s[i]) <=> i >= first
        <3> SUFFICES ASSUME NEW i \in 1 .. n PROVE ~IsNaN(s[i]) <=> i >= first
            OBVIOUS
        <3>1. i < first \/ i >= first
            BY <1>1
        <3> QED BY <1>2, <3>1
    <2> QED BY <1>1, <2>1
<1>4. CASE first <= n
    <2>1. first \in exists /\ exists # {} /\ \A j \in exists : first <= j
        BY <1>1, <1>3, <1>4
    <2>2. FirstValid(s) = CHOOSE i \in exists : \A j \in exists : i <= j
        BY <2>1 DEF FirstValid
    <2>3. FirstValid(s) \in exists /\ \A j \in exists : FirstValid(s) <= j
        BY <2>1, <2>2
    <2>4. FirstValid(s) = first
        BY <1>1, <1>3, <2>1, <2>3
    <2>5. Existing(s) = SubSeq(s, first, n)
        BY <2>4 DEF Existing
    <2>6. /\ Existing(s) \in Seq(Numbers) /\ Len(Existing(s)) = (n - first) + 1
          /\ \A j \in 1 .. ((n - first) + 1) : Existing(s)[j] = s[(first + j) - 1]
        BY <1>1, <1>4, <2>5
    <2>7. \A j \in 1 .. ((n - first) + 1) : (first + j) - 1 \in 1 .. n /\ (first + j) - 1 >= first
        BY <1>1, <1>4
    <2>8. \A j \in 1 .. Len(Existing(s)) : Existing(s)[j] \in Fraction
        BY <1>2, <2>6, <2>7
    <2>9. Existing(s) \in Seq(Fraction)
        BY <2>6, <2>8
    <2>10. Len(Existing(s)) = Len(s) - first + 1
        BY <2>6
    <2>11. ~(first > Len(s))
        BY <1>1, <1>4
    <2>12. \A j \in 1 .. Len(Existing(s)) : Existing(s)[j] = s[(first + j) - 1]
        BY <2>6
    <2> HIDE DEF exists
    <2> QED BY <2>4, <2>9, <2>10, <2>11, <2>12
<1>5. CASE first > n
    <2>1. exists = {}
        BY <1>1, <1>3, <1>5
    <2>2. FirstValid(s) = n + 1
        BY <2>1 DEF FirstValid
    <2>3. Existing(s) = SubSeq(s, n + 1, n)
        BY <2>2 DEF Existing
    <2>4. SubSeq(s, n + 1, n) \in Seq(Fraction) /\ Len(SubSeq(s, n + 1, n)) = 0
        BY <1>1
    <2>5. ~(first <= n) /\ 1 .. 0 = {}
        BY <1>1, <1>5
    <2> QED BY <2>2, <2>3, <2>4, <2>5
<1> QED BY <1>1, <1>4, <1>5

LEMMA InPlaceIs ==
    ASSUME NEW s \in Seq(Numbers), NEW first \in Nat, first > 0, Valid(s, first),
           NEW tail, NEW later \in Nat, later > 0, Valid(tail, later), Len(tail) = Len(Existing(s))
    PROVE  /\ Valid(InPlace(tail, s), (first + later) - 1) /\ Len(InPlace(tail, s)) = Len(s)
           /\ \A i \in 1 .. Len(s) :
                 /\ i < first => InPlace(tail, s)[i] = NaN
                 /\ i >= first => (i - first) + 1 \in 1 .. Len(tail)
                                  /\ InPlace(tail, s)[i] = tail[(i - first) + 1]
<1> DEFINE n == Len(s)
           e == InPlace(tail, s)
<1>1. n \in Nat /\ DOMAIN s = 1 .. n
    OBVIOUS
<1>2. e = [i \in 1 .. n |-> IF i < FirstValid(s) THEN NaN ELSE tail[(i - FirstValid(s)) + 1]]
    BY <1>1 DEF InPlace
<1>3. /\ first <= n => FirstValid(s) = first /\ Len(tail) = (n - first) + 1
      /\ first > n => FirstValid(s) = n + 1
    BY ExistingIs
<1> HIDE DEF n, e
<1>4. ASSUME NEW i \in 1 .. n
      PROVE  /\ i < first => e[i] = NaN
             /\ i >= first => (i - first) + 1 \in 1 .. Len(tail) /\ e[i] = tail[(i - first) + 1]
    <2>1. e[i] = IF i < FirstValid(s) THEN NaN ELSE tail[(i - FirstValid(s)) + 1]
        BY <1>2
    <2>2. CASE first <= n
        BY <1>1, <1>3, <2>1, <2>2
    <2>3. CASE first > n
        BY <1>1, <1>3, <2>1, <2>3
    <2> QED BY <1>1, <2>2, <2>3
<1>5. ASSUME NEW i \in 1 .. n
      PROVE  IF i < (first + later) - 1 THEN e[i] = NaN ELSE e[i] \in Fraction
    <2>1. CASE i < first
        BY <1>1, <1>4, <2>1
    <2>2. CASE i >= first
        <3> DEFINE j == (i - first) + 1
        <3>1. j \in 1 .. Len(tail) /\ e[i] = tail[j]
            BY <1>4, <2>2
        <3>2. IF j < later THEN tail[j] = NaN ELSE tail[j] \in Fraction
            BY <3>1 DEF Valid
        <3>3. i < (first + later) - 1 <=> j < later
            BY <1>1
        <3> QED BY <3>1, <3>2, <3>3
    <2> QED BY <1>1, <2>1, <2>2
<1>6. e = [i \in 1 .. n |-> e[i]] /\ (first + later) - 1 \in Nat
    BY <1>2
<1>7. Valid(e, (first + later) - 1) /\ Len(e) = n
    BY <1>1, <1>5, <1>6, ValidIs
<1> QED BY <1>4, <1>7 DEF n, e

LEMMA TailBegins ==
    ASSUME NEW s \in Seq(Numbers), NEW t \in Seq(Numbers), Begins(s, t),
           NEW first \in Nat, first > 0, Valid(s, first), Valid(t, first)
    PROVE  Begins(Existing(s), Existing(t))
<1>1. /\ Len(s) \in Nat /\ Len(t) \in Nat /\ Len(s) <= Len(t)
      /\ \A i \in 1 .. Len(s) : i \in 1 .. Len(t) /\ s[i] = t[i]
    BY BeginsIs
<1>2. /\ first <= Len(s) => Len(Existing(s)) = (Len(s) - first) + 1
      /\ first > Len(s) => Len(Existing(s)) = 0
      /\ \A j \in 1 .. Len(Existing(s)) : Existing(s)[j] = s[(first + j) - 1]
    BY ExistingIs
<1>3. /\ first <= Len(t) => Len(Existing(t)) = (Len(t) - first) + 1
      /\ first > Len(t) => Len(Existing(t)) = 0
      /\ \A j \in 1 .. Len(Existing(t)) : Existing(t)[j] = t[(first + j) - 1]
    BY ExistingIs
<1>4. Len(Existing(s)) <= Len(Existing(t))
    BY <1>1, <1>2, <1>3
<1>5. ASSUME NEW j \in 1 .. Len(Existing(s)) PROVE Existing(s)[j] = Existing(t)[j]
    <2>1. first <= Len(s)
        BY <1>1, <1>2
    <2>2. (first + j) - 1 \in 1 .. Len(s) /\ j \in 1 .. Len(Existing(t))
        BY <1>1, <1>2, <1>3, <2>1
    <2> QED BY <1>1, <1>2, <1>3, <2>2
<1> QED BY <1>4, <1>5 DEF Begins

LEMMA InPlaceBegins ==
    ASSUME NEW s \in Seq(Numbers), NEW t \in Seq(Numbers), Begins(s, t),
           NEW first \in Nat, first > 0, Valid(s, first), Valid(t, first),
           NEW x, NEW y, NEW later \in Nat, later > 0, Valid(x, later), Valid(y, later),
           Len(x) = Len(Existing(s)), Len(y) = Len(Existing(t)), Begins(x, y)
    PROVE  Begins(InPlace(x, s), InPlace(y, t))
<1>1. /\ Len(s) \in Nat /\ Len(t) \in Nat /\ Len(s) <= Len(t)
      /\ \A i \in 1 .. Len(s) : i \in 1 .. Len(t)
    BY BeginsIs
<1>2. /\ Len(InPlace(x, s)) = Len(s)
      /\ \A i \in 1 .. Len(s) :
            /\ i < first => InPlace(x, s)[i] = NaN
            /\ i >= first => (i - first) + 1 \in 1 .. Len(x)
                             /\ InPlace(x, s)[i] = x[(i - first) + 1]
    BY InPlaceIs
<1>3. /\ Len(InPlace(y, t)) = Len(t)
      /\ \A i \in 1 .. Len(t) :
            /\ i < first => InPlace(y, t)[i] = NaN
            /\ i >= first => (i - first) + 1 \in 1 .. Len(y)
                             /\ InPlace(y, t)[i] = y[(i - first) + 1]
    BY InPlaceIs
<1>4. ASSUME NEW i \in 1 .. Len(s) PROVE InPlace(x, s)[i] = InPlace(y, t)[i]
    <2>1. i \in 1 .. Len(t) /\ (i < first \/ i >= first)
        BY <1>1
    <2> QED BY <1>2, <1>3, <2>1 DEF Begins
<1> QED BY <1>1, <1>2, <1>3, <1>4 DEF Begins

LEMMA SmaBegins ==
    ASSUME NEW s \in Seq(Fraction), NEW t \in Seq(Fraction), Begins(s, t),
           NEW period \in Nat, period > 0
    PROVE  Begins(Sma(s, period), Sma(t, period))
<1>1. /\ Len(s) \in Nat /\ Len(t) \in Nat /\ Len(s) <= Len(t)
      /\ \A i \in 1 .. Len(s) : i \in 1 .. Len(t)
    BY BeginsIs
<1> DEFINE value(x, i) == IF i < period THEN NaN ELSE Mean(Window(x, i, period))
<1>2. /\ Sma(s, period) = [i \in 1 .. Len(s) |-> value(s, i)]
      /\ Sma(t, period) = [i \in 1 .. Len(t) |-> value(t, i)]
    BY SmaIs
<1>3. ASSUME NEW i \in 1 .. Len(s) PROVE value(s, i) = value(t, i)
    <2>1. CASE i < period
        BY <2>1
    <2>2. CASE ~(i < period)
        <3>1. period <= i
            BY <1>1, <2>2
        <3>2. Window(s, i, period) = Window(t, i, period)
            BY <3>1, WindowsSame
        <3> QED BY <3>2
    <2> QED BY <2>1, <2>2
<1> HIDE DEF value
<1>4. \A i \in 1 .. Len(s) : Sma(s, period)[i] = Sma(t, period)[i]
    BY <1>1, <1>2, <1>3
<1>5. Len(Sma(s, period)) = Len(s) /\ Len(Sma(t, period)) = Len(t)
    BY <1>1, <1>2
<1> QED BY <1>1, <1>4, <1>5 DEF Begins

LEMMA FractionBounds ==
    ASSUME NEW s \in Seq(Fraction)
    PROVE  \E lo \in Fraction, hi \in Fraction :
               \A i \in 1 .. Len(s) : AtMost(lo, s[i]) /\ AtMost(s[i], hi)
<1>1. CASE Len(s) > 0
    BY <1>1, HighestOf
<1>2. CASE ~(Len(s) > 0)
    <2>1. 1 .. Len(s) = {}
        BY <1>2
    <2> QED BY <2>1, ConstantsAre
<1> QED BY <1>1, <1>2

LEMMA AveragesAre ==
    ASSUME NEW s \in Seq(Fraction), NEW period \in Nat, period > 0
    PROVE  /\ Valid(Ema(s, period), period) /\ Len(Ema(s, period)) = Len(s)
           /\ Valid(Sma(s, period), period) /\ Len(Sma(s, period)) = Len(s)
<1>1. PICK lo \in Fraction, hi \in Fraction :
          \A i \in 1 .. Len(s) : AtMost(lo, s[i]) /\ AtMost(s[i], hi)
    BY FractionBounds
<1>2. Kept(Ema(s, period), period, lo, hi) /\ Len(Ema(s, period)) = Len(s)
    BY <1>1, EmaBetween
<1>3. Kept(Sma(s, period), period, lo, hi) /\ Len(Sma(s, period)) = Len(s)
    BY <1>1, SmaBetween
<1> QED BY <1>2, <1>3 DEF Kept

-----------------------------------------------------------------------------
(* The MACD.                                                                *)
LEMMA LargerOfIs ==
    ASSUME NEW a \in Nat, NEW b \in Nat
    PROVE  /\ LargerOf(a, b) \in Nat /\ LargerOf(a, b) >= a /\ LargerOf(a, b) >= b
           /\ LargerOf(a, b) \in {a, b}
           /\ \A i \in Int : i < LargerOf(a, b) <=> i < a \/ i < b
BY DEF LargerOf

(* The difference of two series.                                            *)
LEMMA HistogramIs ==
    ASSUME NEW n \in Nat, NEW s \in Seq(Numbers), NEW t \in Seq(Numbers), Len(s) = n, Len(t) = n,
           NEW a \in Nat, NEW b \in Nat, Valid(s, a), Valid(t, b)
    PROVE  LET e == [i \in 1 .. n |-> Minus(s[i], t[i])]
           IN Valid(e, LargerOf(a, b)) /\ Len(e) = n
<1> DEFINE e == [i \in 1 .. n |-> Minus(s[i], t[i])]
<1>1. ASSUME NEW i \in 1 .. n
      PROVE  IF i < LargerOf(a, b) THEN e[i] = NaN ELSE e[i] \in Fraction
    <2>1. s[i] \in Numbers /\ t[i] \in Numbers /\ e[i] = Minus(s[i], t[i])
        OBVIOUS
    <2>2. /\ IF i < a THEN s[i] = NaN ELSE s[i] \in Fraction
          /\ IF i < b THEN t[i] = NaN ELSE t[i] \in Fraction
        BY DEF Valid
    <2>3. i < LargerOf(a, b) <=> i < a \/ i < b
        BY LargerOfIs
    <2>4. CASE i < a \/ i < b
        <3>1. IsNaN(s[i]) \/ IsNaN(t[i])
            BY <2>2, <2>4, NaNIs
        <3>2. Minus(s[i], t[i]) = NaN
            BY <2>1, <3>1, NumbersClosed
        <3> QED BY <2>1, <2>3, <2>4, <3>2
    <2>5. CASE ~(i < a \/ i < b)
        <3>1. Minus(s[i], t[i]) \in Fraction
            BY <2>2, <2>5, Closed
        <3> QED BY <2>1, <2>3, <2>5, <3>1
    <2> QED BY <2>4, <2>5
<1>2. e = [i \in 1 .. n |-> e[i]] /\ LargerOf(a, b) \in Nat
    BY LargerOfIs
<1> HIDE DEF e
<1>3. Valid(e, LargerOf(a, b)) /\ Len(e) = n
    BY <1>1, <1>2, ValidIs
<1> QED BY <1>3 DEF e

LEMMA LineIs ==
    ASSUME NEW s \in Seq(Fraction), NEW fast \in Nat, fast > 0, NEW slow \in Nat, slow > 0
    PROVE  /\ Valid(MacdLine(s, fast, slow), LargerOf(fast, slow))
           /\ Len(MacdLine(s, fast, slow)) = Len(s)
<1>1. Len(s) \in Nat /\ DOMAIN s = 1 .. Len(s)
    OBVIOUS
<1>2. /\ Valid(Ema(s, fast), fast) /\ Len(Ema(s, fast)) = Len(s)
      /\ Valid(Ema(s, slow), slow) /\ Len(Ema(s, slow)) = Len(s)
    BY AveragesAre
<1>3. Ema(s, fast) \in Seq(Numbers) /\ Ema(s, slow) \in Seq(Numbers)
    BY <1>2 DEF Valid
<1>4. MacdLine(s, fast, slow) = [i \in 1 .. Len(s) |-> Minus(Ema(s, fast)[i], Ema(s, slow)[i])]
    BY <1>1 DEF MacdLine
<1>5. LET e == [i \in 1 .. Len(s) |-> Minus(Ema(s, fast)[i], Ema(s, slow)[i])]
      IN Valid(e, LargerOf(fast, slow)) /\ Len(e) = Len(s)
    BY <1>1, <1>2, <1>3, HistogramIs
<1> QED BY <1>4, <1>5

LEMMA SignalIs ==
    ASSUME NEW line \in Seq(Numbers), NEW first \in Nat, first > 0, Valid(line, first),
           NEW period \in Nat, period > 0
    PROVE  /\ Valid(MacdSignal(line, period), (first + period) - 1)
           /\ Len(MacdSignal(line, period)) = Len(line)
<1> DEFINE tail == Ema(Existing(line), period)
<1>1. Existing(line) \in Seq(Fraction)
    BY ExistingIs
<1>2. Valid(tail, period) /\ Len(tail) = Len(Existing(line))
    BY <1>1, AveragesAre
<1> HIDE DEF tail
<1>3. Valid(InPlace(tail, line), (first + period) - 1) /\ Len(InPlace(tail, line)) = Len(line)
    BY <1>2, InPlaceIs
<1> QED BY <1>3 DEF MacdSignal, tail

LEMMA SignalBegins ==
    ASSUME NEW s \in Seq(Numbers), NEW t \in Seq(Numbers), Begins(s, t),
           NEW first \in Nat, first > 0, Valid(s, first), Valid(t, first),
           NEW period \in Nat, period > 0
    PROVE  Begins(MacdSignal(s, period), MacdSignal(t, period))
<1> DEFINE x == Ema(Existing(s), period)
           y == Ema(Existing(t), period)
<1>1. Existing(s) \in Seq(Fraction) /\ Existing(t) \in Seq(Fraction)
    BY ExistingIs
<1>2. /\ Valid(x, period) /\ Len(x) = Len(Existing(s))
      /\ Valid(y, period) /\ Len(y) = Len(Existing(t))
    BY <1>1, AveragesAre
<1>3. Begins(Existing(s), Existing(t))
    BY TailBegins
<1>4. Begins(x, y)
    BY <1>1, <1>3, FractionsAre, EmaBegins
<1> HIDE DEF x, y
<1>5. Begins(InPlace(x, s), InPlace(y, t))
    BY <1>2, <1>4, InPlaceBegins
<1> QED BY <1>5 DEF MacdSignal, x, y

(* Series that are made of two series, value by value.                      *)
LEMMA HistogramBegins ==
    ASSUME NEW n \in Nat, NEW m \in Nat, n <= m,
           NEW s, NEW t, NEW x, NEW y, Len(s) = n, Len(x) = n, Begins(s, t), Begins(x, y)
    PROVE  \A i \in 1 .. n : Minus(s[i], x[i]) = Minus(t[i], y[i])
BY DEF Begins

LEMMA LineBegins ==
    ASSUME NEW s \in Seq(Fraction), NEW t \in Seq(Fraction), Begins(s, t),
           NEW fast \in Nat, fast > 0, NEW slow \in Nat, slow > 0
    PROVE  Begins(MacdLine(s, fast, slow), MacdLine(t, fast, slow))
<1>1. /\ Len(s) \in Nat /\ Len(t) \in Nat /\ Len(s) <= Len(t)
      /\ DOMAIN s = 1 .. Len(s) /\ DOMAIN t = 1 .. Len(t)
      /\ \A i \in 1 .. Len(s) : i \in 1 .. Len(t)
    BY BeginsIs
<1>2. /\ Begins(Ema(s, fast), Ema(t, fast)) /\ Begins(Ema(s, slow), Ema(t, slow))
      /\ Len(Ema(s, fast)) = Len(s) /\ Len(Ema(s, slow)) = Len(s)
    BY FractionsAre, EmaBegins, AveragesAre
<1>3. /\ MacdLine(s, fast, slow) = [i \in 1 .. Len(s) |-> Minus(Ema(s, fast)[i], Ema(s, slow)[i])]
      /\ MacdLine(t, fast, slow) = [i \in 1 .. Len(t) |-> Minus(Ema(t, fast)[i], Ema(t, slow)[i])]
    BY <1>1 DEF MacdLine
<1>4. \A i \in 1 .. Len(s) : Minus(Ema(s, fast)[i], Ema(s, slow)[i])
                             = Minus(Ema(t, fast)[i], Ema(t, slow)[i])
    BY <1>1, <1>2, HistogramBegins
<1>5. \A i \in 1 .. Len(s) : MacdLine(s, fast, slow)[i] = MacdLine(t, fast, slow)[i]
    BY <1>1, <1>3, <1>4
<1> QED BY <1>1, <1>5, LineIs DEF Begins

-----------------------------------------------------------------------------
(* The place of the close in the range of a window.                         *)
LEMMA PlaceIs ==
    ASSUME NEW bs \in Seq(Candles), NEW i \in 1 .. Len(bs),
           NEW period \in Nat, period > 0, period <= i
    PROVE  /\ Place(bs, i, period) \in Fraction
           /\ AtMost(Zero, Place(bs, i, period)) /\ AtMost(Place(bs, i, period), One)
<1> DEFINE highs == Window(Highs(bs), i, period)
           lows == Window(Lows(bs), i, period)
           high == Highest(highs)
           low == Lowest(lows)
           close == Whole(bs[i].close)
<1>1. /\ Highs(bs) \in Seq(Fraction) /\ Len(Highs(bs)) = Len(bs) /\ Highs(bs)[i] = Whole(bs[i].high)
      /\ Lows(bs) \in Seq(Fraction) /\ Len(Lows(bs)) = Len(bs) /\ Lows(bs)[i] = Whole(bs[i].low)
    BY PricesAre, NotNegativeSeq
<1>2. /\ highs \in Seq(Fraction) /\ Len(highs) = period
      /\ \A j \in 1 .. period : highs[j] = Highs(bs)[(i - period) + j]
    <2>1. i \in 1 .. Len(Highs(bs))
        BY <1>1
    <2> QED BY <1>1, <2>1, WindowIs
<1>3. /\ lows \in Seq(Fraction) /\ Len(lows) = period
      /\ \A j \in 1 .. period : lows[j] = Lows(bs)[(i - period) + j]
    <2>1. i \in 1 .. Len(Lows(bs))
        BY <1>1
    <2> QED BY <1>1, <2>1, WindowIs
<1>4. period \in 1 .. period /\ (i - period) + period = i
    OBVIOUS
<1> HIDE DEF highs, lows
<1>5. high \in Fraction /\ AtMost(highs[period], high)
    BY <1>2, <1>4, HighestOf
<1>6. low \in Fraction /\ AtMost(low, lows[period])
    BY <1>3, <1>4, HighestOf
<1>7. highs[period] = Whole(bs[i].high) /\ lows[period] = Whole(bs[i].low)
    BY <1>1, <1>2, <1>3, <1>4
<1>8. /\ close \in Fraction /\ Whole(bs[i].high) \in Fraction /\ Whole(bs[i].low) \in Fraction
      /\ AtMost(Whole(bs[i].low), close) /\ AtMost(close, Whole(bs[i].high))
    <2>1. /\ bs[i].high \in Int /\ bs[i].low \in Int /\ bs[i].close \in Int
          /\ bs[i].low <= bs[i].close /\ bs[i].close <= bs[i].high
        BY CandleIs
    <2> QED BY <2>1, WholesAre
<1>9. AtMost(low, close) /\ AtMost(close, high)
    BY <1>5, <1>6, <1>7, <1>8, OrderPasses
<1>10. Place(bs, i, period) = IF high = low THEN Ratio(1, 2)
                              ELSE Over(Minus(close, low), Minus(high, low))
    BY DEF Place, highs, lows
<1> HIDE DEF high, low, close
<1>11. CASE high = low
    <2>1. 1 \in Int /\ 2 \in Nat /\ 2 # 0 /\ 1 >= 0 /\ 1 <= 2
        OBVIOUS
    <2>2. Ratio(1, 2) \in Fraction /\ AtMost(Zero, Ratio(1, 2)) /\ AtMost(Ratio(1, 2), One)
        BY <2>1, RatiosAre
    <2> QED BY <1>10, <1>11, <2>2
<1>12. CASE high # low
    <2> DEFINE part == Minus(close, low)
               all == Minus(high, low)
    <2>1. part \in Fraction /\ all \in Fraction /\ Zero \in Fraction /\ One \in Fraction
        BY <1>5, <1>6, <1>8, Closed, ConstantsAre
    <2>2. AtMost(Zero, part) /\ AtMost(part, all)
        <3>1. AtMost(low, close) <=> AtMost(Minus(low, low), Minus(close, low))
            BY <1>6, <1>8, OrderAdds
        <3>2. AtMost(close, high) <=> AtMost(Minus(close, low), Minus(high, low))
            BY <1>5, <1>6, <1>8, OrderAdds
        <3>3. Minus(low, low) = Zero
            BY <1>6, PlusLaws
        <3> QED BY <1>9, <3>1, <3>2, <3>3
    <2>3. all # Zero
        <3>1. Plus(Minus(high, low), low) = high /\ Plus(Zero, low) = low
            BY <1>5, <1>6, PlusLaws
        <3> QED BY <1>12, <3>1
    <2>4. all \in Positive
        <3>1. AtMost(Zero, all)
            BY <2>1, <2>2, OrderPasses
        <3> QED BY <2>1, <2>3, <3>1, NotNegatives DEF NotNegative
    <2> HIDE DEF part, all
    <2>5. Over(part, all) \in Fraction /\ AtMost(Zero, Over(part, all))
        <3>1. part \in NotNegative
            BY <2>1, <2>2 DEF NotNegative
        <3> QED BY <2>4, <3>1, NotNegatives DEF NotNegative
    <2>6. AtMost(Over(part, all), One)
        <3>1. AtMost(part, Times(One, all)) <=> AtMost(Over(part, all), One)
            BY <2>1, <2>4, OrderDivides
        <3>2. Times(One, all) = all
            BY <2>1, TimesLaws
        <3> QED BY <2>2, <3>1, <3>2
    <2> QED BY <1>10, <1>12, <2>5, <2>6 DEF part, all
<1> QED BY <1>11, <1>12

LEMMA PlaceSame ==
    ASSUME NEW b \in Seq(Candles), NEW c \in Seq(Candles), Begins(b, c), NEW i \in 1 .. Len(b),
           NEW period \in Nat, period > 0, period <= i
    PROVE  Place(b, i, period) = Place(c, i, period)
<1>1. b[i] = c[i]
    BY BeginsIs
<1>2. /\ Highs(b) \in Seq(Fraction) /\ Highs(c) \in Seq(Fraction) /\ Len(Highs(b)) = Len(b)
      /\ Lows(b) \in Seq(Fraction) /\ Lows(c) \in Seq(Fraction) /\ Len(Lows(b)) = Len(b)
    BY PricesAre, NotNegativeSeq
<1>3. Window(Highs(b), i, period) = Window(Highs(c), i, period)
      /\ Window(Lows(b), i, period) = Window(Lows(c), i, period)
    BY <1>2, PricesBegin, WindowsSame
<1> QED BY <1>1, <1>3 DEF Place

LEMMA StochasticIs ==
    ASSUME NEW bs \in Seq(Candles), NEW period \in Nat, period > 0
    PROVE  /\ Kept(StochasticK(bs, period), period, Zero, Hundred)
           /\ Len(StochasticK(bs, period)) = Len(bs)
           /\ \A i \in 1 .. Len(bs) : i >= period =>
                 StochasticK(bs, period)[i] = Times(Place(bs, i, period), Hundred)
<1> DEFINE n == Len(bs)
           e == StochasticK(bs, period)
<1>1. n \in Nat /\ DOMAIN bs = 1 .. n
    OBVIOUS
<1>2. e = [i \in 1 .. n |-> IF i < period THEN NaN ELSE Times(Place(bs, i, period), Hundred)]
    BY <1>1 DEF StochasticK
<1> HIDE DEF e, n
<1>3. ASSUME NEW i \in 1 .. n
      PROVE  IF i < period THEN e[i] = NaN
             ELSE e[i] \in Fraction /\ AtMost(Zero, e[i]) /\ AtMost(e[i], Hundred)
                  /\ e[i] = Times(Place(bs, i, period), Hundred)
    <2>1. CASE i < period
        BY <1>2, <2>1
    <2>2. CASE ~(i < period)
        <3> DEFINE p == Place(bs, i, period)
        <3>1. e[i] = Times(p, Hundred) /\ period <= i
            BY <1>1, <1>2, <2>2
        <3>2. p \in Fraction /\ AtMost(Zero, p) /\ AtMost(p, One)
            BY <3>1, PlaceIs DEF n
        <3> HIDE DEF p
        <3>3. Zero \in Fraction /\ One \in Fraction /\ Hundred \in Fraction /\ AtMost(Zero, Hundred)
            BY ConstantsAre, NotNegatives DEF NotNegative
        <3>4. AtMost(Times(Zero, Hundred), Times(p, Hundred))
              /\ AtMost(Times(p, Hundred), Times(One, Hundred))
            BY <3>2, <3>3, OrderMultiplies
        <3>5. Times(Zero, Hundred) = Zero /\ Times(One, Hundred) = Hundred
            BY <3>3, TimesLaws
        <3>6. Times(p, Hundred) \in Fraction
            BY <3>2, <3>3, Closed
        <3> QED BY <2>2, <3>1, <3>4, <3>5, <3>6 DEF p
    <2> QED BY <2>1, <2>2
<1>4. e = [i \in 1 .. n |-> e[i]]
    BY <1>2
<1>5. Valid(e, period) /\ Len(e) = n
    BY <1>1, <1>3, <1>4, ValidIs
<1>6. \A i \in 1 .. n : i >= period => ~(i < period)
    BY <1>1
<1>7. \A i \in period .. n : i \in 1 .. n /\ ~(i < period)
    BY <1>1
<1> QED BY <1>3, <1>5, <1>6, <1>7 DEF Kept, e, n

LEMMA StochasticBegins ==
    ASSUME NEW b \in Seq(Candles), NEW c \in Seq(Candles), Begins(b, c),
           NEW period \in Nat, period > 0
    PROVE  Begins(StochasticK(b, period), StochasticK(c, period))
<1>1. /\ Len(b) \in Nat /\ Len(c) \in Nat /\ Len(b) <= Len(c)
      /\ \A i \in 1 .. Len(b) : i \in 1 .. Len(c)
    BY BeginsIs
<1>2. ASSUME NEW i \in 1 .. Len(b) PROVE StochasticK(b, period)[i] = StochasticK(c, period)[i]
    <2>1. CASE i < period
        BY <1>1, <2>1, StochasticIs DEF Kept, Valid
    <2>2. CASE ~(i < period)
        <3>1. i >= period /\ period <= i
            BY <1>1, <2>2
        <3> QED BY <1>1, <3>1, StochasticIs, PlaceSame
    <2> QED BY <2>1, <2>2
<1> QED BY <1>1, <1>2, StochasticIs DEF Begins

LEMMA StochasticDIs ==
    ASSUME NEW bs \in Seq(Candles), NEW period \in Nat, period > 0,
           NEW smoothing \in Nat, smoothing > 0
    PROVE  LET d == StochasticD(StochasticK(bs, period), smoothing)
           IN Kept(d, (period + smoothing) - 1, Zero, Hundred) /\ Len(d) = Len(bs)
<1> DEFINE k == StochasticK(bs, period)
           tail == Sma(Existing(k), smoothing)
           d == InPlace(tail, k)
           first == (period + smoothing) - 1
<1>1. /\ Valid(k, period) /\ Len(k) = Len(bs) /\ k \in Seq(Numbers)
      /\ \A i \in period .. Len(k) : AtMost(Zero, k[i]) /\ AtMost(k[i], Hundred)
    BY StochasticIs DEF Kept, Valid
<1> HIDE DEF k
<1>2. /\ Existing(k) \in Seq(Fraction)
      /\ \A j \in 1 .. Len(Existing(k)) : Existing(k)[j] = k[(period + j) - 1]
      /\ period <= Len(k) => Len(Existing(k)) = (Len(k) - period) + 1
      /\ period > Len(k) => Len(Existing(k)) = 0
    BY <1>1, ExistingIs
<1>3. ASSUME NEW j \in 1 .. Len(Existing(k))
      PROVE  AtMost(Zero, Existing(k)[j]) /\ AtMost(Existing(k)[j], Hundred)
    <2>1. (period + j) - 1 \in period .. Len(k)
        BY <1>1, <1>2
    <2> QED BY <1>1, <1>2, <2>1
<1>4. Kept(tail, smoothing, Zero, Hundred) /\ Len(tail) = Len(Existing(k))
    BY <1>2, <1>3, ConstantsAre, SmaBetween
<1> HIDE DEF tail
<1>5. /\ Valid(d, first) /\ Len(d) = Len(k)
      /\ \A i \in 1 .. Len(k) : i >= period =>
             (i - period) + 1 \in 1 .. Len(tail) /\ d[i] = tail[(i - period) + 1]
    BY <1>1, <1>4, InPlaceIs DEF Kept
<1> HIDE DEF d
<1>6. ASSUME NEW i \in first .. Len(d) PROVE AtMost(Zero, d[i]) /\ AtMost(d[i], Hundred)
    <2>1. i \in 1 .. Len(k) /\ i >= period /\ (i - period) + 1 >= smoothing
        BY <1>1, <1>5
    <2>2. (i - period) + 1 \in smoothing .. Len(tail)
        BY <1>1, <1>5, <2>1
    <2> QED BY <1>4, <1>5, <2>1, <2>2 DEF Kept
<1>7. StochasticD(k, smoothing) = d
    BY DEF StochasticD, d, tail
<1> QED BY <1>1, <1>5, <1>6, <1>7 DEF Kept, k

LEMMA StochasticDBegins ==
    ASSUME NEW s \in Seq(Numbers), NEW t \in Seq(Numbers), Begins(s, t),
           NEW first \in Nat, first > 0, Valid(s, first), Valid(t, first),
           NEW period \in Nat, period > 0
    PROVE  Begins(StochasticD(s, period), StochasticD(t, period))
<1> DEFINE x == Sma(Existing(s), period)
           y == Sma(Existing(t), period)
<1>1. Existing(s) \in Seq(Fraction) /\ Existing(t) \in Seq(Fraction)
    BY ExistingIs
<1>2. /\ Valid(x, period) /\ Len(x) = Len(Existing(s))
      /\ Valid(y, period) /\ Len(y) = Len(Existing(t))
    BY <1>1, AveragesAre
<1>3. Begins(Existing(s), Existing(t))
    BY TailBegins
<1>4. Begins(x, y)
    BY <1>1, <1>3, SmaBegins
<1> HIDE DEF x, y
<1>5. Begins(InPlace(x, s), InPlace(y, t))
    BY <1>2, <1>4, InPlaceBegins
<1> QED BY <1>5 DEF StochasticD, x, y

-----------------------------------------------------------------------------
(* True ranges and directional movements.                                   *)
Counted(a, b) == IF Less(b, a) /\ Less(Zero, a) THEN a ELSE Zero
Rises(bs) == [i \in DOMAIN bs |->
                 IF i = 1 THEN Zero
                 ELSE Counted(Minus(Highs(bs)[i], Highs(bs)[i - 1]), Minus(Lows(bs)[i - 1], Lows(bs)[i]))]
Falls(bs) == [i \in DOMAIN bs |->
                 IF i = 1 THEN Zero
                 ELSE Counted(Minus(Lows(bs)[i - 1], Lows(bs)[i]), Minus(Highs(bs)[i], Highs(bs)[i - 1]))]

LEMMA MovementIs ==
    ASSUME NEW bs
    PROVE  Movement(bs).plus = Rises(bs) /\ Movement(bs).minus = Falls(bs)
BY DEF Movement, Rises, Falls, Counted

LEMMA PricesOf ==
    ASSUME NEW bs \in Seq(Candles), NEW i \in 1 .. Len(bs)
    PROVE  /\ Highs(bs)[i] \in Fraction /\ Lows(bs)[i] \in Fraction /\ Closes(bs)[i] \in Fraction
           /\ AtMost(Lows(bs)[i], Closes(bs)[i]) /\ AtMost(Closes(bs)[i], Highs(bs)[i])
           /\ AtMost(Lows(bs)[i], Highs(bs)[i])
<1>1. /\ Closes(bs)[i] = Whole(bs[i].close) /\ Highs(bs)[i] = Whole(bs[i].high)
      /\ Lows(bs)[i] = Whole(bs[i].low)
    BY PricesAre
<1>2. /\ bs[i].high \in Int /\ bs[i].low \in Int /\ bs[i].close \in Int
      /\ bs[i].low <= bs[i].close /\ bs[i].close <= bs[i].high /\ bs[i].low <= bs[i].high
    BY CandleIs
<1> QED BY <1>1, <1>2, WholesAre

LEMMA DifferenceIs ==
    ASSUME NEW x \in Fraction, NEW y \in Fraction, AtMost(x, y)
    PROVE  Minus(y, x) \in Fraction /\ AtMost(Zero, Minus(y, x)) /\ Minus(y, x) \in NotNegative
<1>1. AtMost(x, y) <=> AtMost(Minus(x, x), Minus(y, x))
    BY OrderAdds
<1>2. Minus(x, x) = Zero /\ Minus(y, x) \in Fraction
    BY PlusLaws, Closed
<1> QED BY <1>1, <1>2 DEF NotNegative

LEMMA RangesAre ==
    ASSUME NEW bs \in Seq(Candles)
    PROVE  /\ TrueRanges(bs) \in Seq(NotNegative) /\ Len(TrueRanges(bs)) = Len(bs)
           /\ Rises(bs) \in Seq(NotNegative) /\ Len(Rises(bs)) = Len(bs)
           /\ Falls(bs) \in Seq(NotNegative) /\ Len(Falls(bs)) = Len(bs)
           /\ \A i \in 1 .. Len(bs) : /\ AtMost(Rises(bs)[i], TrueRanges(bs)[i])
                                      /\ AtMost(Falls(bs)[i], TrueRanges(bs)[i])
<1> DEFINE n == Len(bs)
           h == Highs(bs)
           l == Lows(bs)
           c == Closes(bs)
           range(i) == Greater(Minus(h[i], l[i]), Greater(Distance(h[i], c[i - 1]), Distance(l[i], c[i - 1])))
           up(i) == Minus(h[i], h[i - 1])
           down(i) == Minus(l[i - 1], l[i])
           r == TrueRanges(bs)
           p == Rises(bs)
           m == Falls(bs)
<1>1. n \in Nat /\ DOMAIN bs = 1 .. n
    OBVIOUS
<1>2. /\ r = [i \in 1 .. n |-> IF i = 1 THEN Zero ELSE range(i)]
      /\ p = [i \in 1 .. n |-> IF i = 1 THEN Zero ELSE Counted(up(i), down(i))]
      /\ m = [i \in 1 .. n |-> IF i = 1 THEN Zero ELSE Counted(down(i), up(i))]
    BY <1>1 DEF TrueRanges, Rises, Falls
<1>3. ASSUME NEW i \in 1 .. n, i # 1
      PROVE  /\ range(i) \in NotNegative
             /\ Counted(up(i), down(i)) \in NotNegative /\ Counted(down(i), up(i)) \in NotNegative
             /\ AtMost(Counted(up(i), down(i)), range(i)) /\ AtMost(Counted(down(i), up(i)), range(i))
    <2>1. i - 1 \in 1 .. n /\ i \in 1 .. Len(bs) /\ i - 1 \in 1 .. Len(bs)
        BY <1>1, <1>3
    <2>2. /\ h[i] \in Fraction /\ l[i] \in Fraction /\ AtMost(l[i], h[i])
          /\ h[i - 1] \in Fraction /\ l[i - 1] \in Fraction /\ c[i - 1] \in Fraction
          /\ AtMost(l[i - 1], c[i - 1]) /\ AtMost(c[i - 1], h[i - 1])
        BY <2>1, PricesOf
    <2> HIDE DEF h, l, c, n
    <2> DEFINE a == Distance(h[i], c[i - 1])
               b == Distance(l[i], c[i - 1])
               g == Greater(a, b)
               w == Minus(h[i], l[i])
    <2>3. a \in Fraction /\ b \in Fraction /\ AtMost(Minus(h[i], c[i - 1]), a)
          /\ AtMost(Minus(c[i - 1], l[i]), b)
        BY <2>2, DistanceIs
    <2>4. w \in Fraction /\ AtMost(Zero, w)
        BY <2>2, DifferenceIs
    <2>5. up(i) \in Fraction /\ AtMost(up(i), Minus(h[i], c[i - 1])) /\ Minus(h[i], c[i - 1]) \in Fraction
        BY <2>2, OrderAdds, Closed
    <2>6. down(i) \in Fraction /\ AtMost(down(i), Minus(c[i - 1], l[i])) /\ Minus(c[i - 1], l[i]) \in Fraction
        BY <2>2, OrderAdds, Closed
    <2> HIDE DEF a, b, w, up, down
    <2>7. g \in Fraction /\ AtMost(a, g) /\ AtMost(b, g)
        BY <2>3, Larger
    <2> HIDE DEF g
    <2>8. range(i) = Greater(w, g)
        BY DEF w, g, a, b
    <2>9. range(i) \in Fraction /\ AtMost(w, range(i)) /\ AtMost(g, range(i))
        BY <2>4, <2>7, <2>8, Larger
    <2> HIDE DEF range
    <2>10. AtMost(Zero, range(i)) /\ Zero \in Fraction
        BY <2>4, <2>9, ConstantsAre, OrderPasses
    <2>11. AtMost(up(i), range(i))
        <3>1. AtMost(up(i), a)
            BY <2>3, <2>5, OrderPasses
        <3>2. AtMost(up(i), g)
            BY <2>3, <2>5, <2>7, <3>1, OrderPasses
        <3> QED BY <2>5, <2>7, <2>9, <3>2, OrderPasses
    <2>12. AtMost(down(i), range(i))
        <3>1. AtMost(down(i), b)
            BY <2>3, <2>6, OrderPasses
        <3>2. AtMost(down(i), g)
            BY <2>3, <2>6, <2>7, <3>1, OrderPasses
        <3> QED BY <2>6, <2>7, <2>9, <3>2, OrderPasses
    <2>13. \A x \in Fraction, y \in Fraction : AtMost(x, range(i)) =>
                Counted(x, y) \in NotNegative /\ AtMost(Counted(x, y), range(i))
        <3> SUFFICES ASSUME NEW x \in Fraction, NEW y \in Fraction, AtMost(x, range(i))
                     PROVE  Counted(x, y) \in NotNegative /\ AtMost(Counted(x, y), range(i))
            OBVIOUS
        <3>1. CASE Less(y, x) /\ Less(Zero, x)
            <4>1. AtMost(Zero, x) /\ Counted(x, y) = x
                BY <2>10, <3>1, Order DEF Counted
            <4> QED BY <4>1 DEF NotNegative
        <3>2. CASE ~(Less(y, x) /\ Less(Zero, x))
            <4>1. Counted(x, y) = Zero
                BY <3>2 DEF Counted
            <4> QED BY <2>10, <4>1, NotNegatives
        <3> QED BY <3>1, <3>2
    <2> QED BY <2>5, <2>6, <2>9, <2>10, <2>11, <2>12, <2>13 DEF NotNegative
<1> HIDE DEF h, l, c, range, up, down, r, p, m, n
<1>4. ASSUME NEW i \in 1 .. n
      PROVE  /\ r[i] \in NotNegative /\ p[i] \in NotNegative /\ m[i] \in NotNegative
             /\ AtMost(p[i], r[i]) /\ AtMost(m[i], r[i])
    <2>1. CASE i = 1
        <3>1. r[i] = Zero /\ p[i] = Zero /\ m[i] = Zero
            BY <1>2, <2>1
        <3>2. AtMost(Zero, Zero)
            BY ConstantsAre, Order
        <3> QED BY <3>1, <3>2, NotNegatives
    <2>2. CASE i # 1
        <3>1. r[i] = range(i) /\ p[i] = Counted(up(i), down(i)) /\ m[i] = Counted(down(i), up(i))
            BY <1>2, <2>2
        <3> QED BY <1>3, <2>2, <3>1
    <2> QED BY <2>1, <2>2
<1>5. r \in [1 .. n -> NotNegative] /\ p \in [1 .. n -> NotNegative] /\ m \in [1 .. n -> NotNegative]
    <2>1. r = [i \in 1 .. n |-> r[i]] /\ p = [i \in 1 .. n |-> p[i]] /\ m = [i \in 1 .. n |-> m[i]]
        BY <1>2
    <2> QED BY <1>4, <2>1
<1>6. /\ r \in Seq(NotNegative) /\ Len(r) = n /\ p \in Seq(NotNegative) /\ Len(p) = n
      /\ m \in Seq(NotNegative) /\ Len(m) = n
    BY <1>1, <1>5, Tabled
<1> QED BY <1>4, <1>6 DEF n, r, p, m

LEMMA RangesBegin ==
    ASSUME NEW b \in Seq(Candles), NEW c \in Seq(Candles), Begins(b, c)
    PROVE  /\ Begins(TrueRanges(b), TrueRanges(c))
           /\ Begins(Rises(b), Rises(c)) /\ Begins(Falls(b), Falls(c))
<1>1. /\ Len(b) \in Nat /\ Len(c) \in Nat /\ Len(b) <= Len(c)
      /\ \A i \in 1 .. Len(b) : i \in 1 .. Len(c)
      /\ DOMAIN b = 1 .. Len(b) /\ DOMAIN c = 1 .. Len(c)
    BY BeginsIs
<1>2. \A i \in 1 .. Len(b) : /\ Highs(b)[i] = Highs(c)[i] /\ Lows(b)[i] = Lows(c)[i]
                              /\ Closes(b)[i] = Closes(c)[i]
    BY PricesBegin, PricesAre DEF Begins
<1>3. ASSUME NEW i \in 1 .. Len(b)
      PROVE  /\ TrueRanges(b)[i] = TrueRanges(c)[i]
             /\ Rises(b)[i] = Rises(c)[i] /\ Falls(b)[i] = Falls(c)[i]
    <2>1. i # 1 => i - 1 \in 1 .. Len(b)
        BY <1>1
    <2>2. TrueRanges(b)[i] = TrueRanges(c)[i]
        BY <1>1, <1>2, <2>1 DEF TrueRanges
    <2>3. Rises(b)[i] = Rises(c)[i]
        BY <1>1, <1>2, <2>1 DEF Rises
    <2>4. Falls(b)[i] = Falls(c)[i]
        BY <1>1, <1>2, <2>1 DEF Falls
    <2> QED BY <2>2, <2>3, <2>4
<1> QED BY <1>1, <1>3, RangesAre DEF Begins

LEMMA AtrIs ==
    ASSUME NEW bs \in Seq(Candles), NEW period \in Nat, period > 0
    PROVE  /\ Valid(Atr(bs, period), period + 1) /\ Len(Atr(bs, period)) = Len(bs)
           /\ \A i \in (period + 1) .. Len(bs) : Atr(bs, period)[i] \in NotNegative
<1>1. period + 1 \in Nat /\ period + 1 >= period
    OBVIOUS
<1>2. TrueRanges(bs) \in Seq(NotNegative) /\ Len(TrueRanges(bs)) = Len(bs)
    BY RangesAre
<1> QED BY <1>1, <1>2, WilderNotNegative DEF Atr

LEMMA AtrBegins ==
    ASSUME NEW b \in Seq(Candles), NEW c \in Seq(Candles), Begins(b, c),
           NEW period \in Nat, period > 0
    PROVE  Begins(Atr(b, period), Atr(c, period))
<1>1. period + 1 \in Nat /\ period + 1 >= period
    OBVIOUS
<1>2. TrueRanges(b) \in Seq(Numbers) /\ TrueRanges(c) \in Seq(Numbers)
    BY RangesAre, NotNegativeSeq
<1> QED BY <1>1, <1>2, RangesBegin, WilderBegins DEF Atr

-----------------------------------------------------------------------------
(* The directional index.                                                   *)
LEMMA TotalLess ==
    ASSUME NEW s \in Seq(Fraction), NEW t \in Seq(Fraction), Len(s) = Len(t),
           \A i \in 1 .. Len(s) : AtMost(s[i], t[i])
    PROVE  AtMost(Total(s), Total(t))
<1> DEFINE n == Len(s)
<1>1. n \in Nat /\ \A i \in 1 .. n : s[i] \in Fraction /\ t[i] \in Fraction /\ AtMost(s[i], t[i])
    OBVIOUS
<1>2. PICK f : Upto(f, s) /\ Total(s) = f[n]
    BY TotalsAre
<1>3. PICK g : Upto(g, t) /\ Total(t) = g[n]
    BY TotalsAre
<1>4. /\ f \in [0 .. n -> Fraction] /\ f[0] = Zero /\ \A i \in 1 .. n : f[i] = Plus(f[i - 1], s[i])
      /\ g \in [0 .. n -> Fraction] /\ g[0] = Zero /\ \A i \in 1 .. n : g[i] = Plus(g[i - 1], t[i])
    BY <1>2, <1>3 DEF Upto
<1> HIDE DEF n
<1> DEFINE T == {i \in 0 .. n : AtMost(f[i], g[i])}
<1>5. 0 <= n => 0 \in T
    BY <1>1, <1>4, ConstantsAre, Order
<1>6. \A i \in (0 + 1) .. n : i - 1 \in T => i \in T
    <2> SUFFICES ASSUME NEW i \in (0 + 1) .. n, i - 1 \in T PROVE i \in T
        OBVIOUS
    <2>1. i \in 1 .. n /\ i \in 0 .. n /\ i - 1 \in 0 .. n
        BY <1>1
    <2>2. f[i - 1] \in Fraction /\ g[i - 1] \in Fraction /\ AtMost(f[i - 1], g[i - 1])
        BY <1>4, <2>1
    <2>3. AtMost(Plus(f[i - 1], s[i]), Plus(g[i - 1], t[i]))
        BY <1>1, <2>1, <2>2, OrderAddsBoth
    <2> QED BY <1>4, <2>1, <2>3
<1>7. n \in T
    <2> HIDE DEF T
    <2>1. \A i \in 0 .. n : i \in T
        BY <1>1, <1>5, <1>6, Steps
    <2> QED BY <1>1, <2>1
<1> QED BY <1>2, <1>3, <1>7

(* What is left when one period-th is dropped.                              *)
LEMMA RestIs ==
    ASSUME NEW period \in Nat, period > 0
    PROVE  /\ \A v \in NotNegative : Minus(v, Over(v, Whole(period))) \in NotNegative
           /\ \A v \in NotNegative, w \in NotNegative : AtMost(v, w) =>
                  AtMost(Minus(v, Over(v, Whole(period))), Minus(w, Over(w, Whole(period))))
<1> DEFINE p == Whole(period)
           r == Whole(period - 1)
<1>1. p \in Positive /\ r \in NotNegative /\ r \in Fraction /\ AtMost(Zero, r)
    <2>1. period \in Int /\ period - 1 \in Nat
        OBVIOUS
    <2> QED BY <2>1, WholesAre, NotNegatives DEF NotNegative
<1>2. \A q \in Fraction : Times(q, p) = Plus(Times(q, r), q)
    BY TimesNext
<1> HIDE DEF p, r
<1>3. ASSUME NEW v \in NotNegative
      PROVE  /\ Over(v, p) \in NotNegative /\ Over(v, p) \in Fraction /\ v \in Fraction
             /\ Minus(v, Over(v, p)) = Times(Over(v, p), r)
    <2>1. Over(v, p) \in NotNegative /\ v \in Fraction
        BY <1>1, NotNegatives DEF NotNegative
    <2> DEFINE q == Over(v, p)
    <2>2. q \in Fraction /\ Times(q, p) = v
        BY <1>1, <2>1, OverLaws
    <2> HIDE DEF q
    <2>3. v = Plus(Times(q, r), q) /\ Times(q, r) \in Fraction
        BY <1>1, <1>2, <2>2, Closed
    <2>4. Minus(Plus(Times(q, r), q), q) = Times(q, r)
        BY <2>2, <2>3, PlusLaws
    <2>5. Minus(v, q) = Times(q, r)
        BY <2>3, <2>4
    <2> QED BY <2>1, <2>2, <2>5 DEF q
<1>4. ASSUME NEW v \in NotNegative
      PROVE  Minus(v, Over(v, p)) \in NotNegative
    BY <1>1, <1>3, NotNegatives
<1>5. ASSUME NEW v \in NotNegative, NEW w \in NotNegative, AtMost(v, w)
      PROVE  AtMost(Minus(v, Over(v, p)), Minus(w, Over(w, p)))
    <2>1. AtMost(Over(v, p), Over(w, p))
        BY <1>1, <1>3, <1>5, OrderDivides
    <2>2. AtMost(Times(Over(v, p), r), Times(Over(w, p), r))
        BY <1>1, <1>3, <2>1, OrderMultiplies
    <2> QED BY <1>3, <2>2
<1> QED BY <1>4, <1>5 DEF p

LEMMA WindowNotNegative ==
    ASSUME NEW s \in Seq(NotNegative), NEW i \in 1 .. Len(s), NEW period \in Nat, period <= i
    PROVE  Total(Window(s, i, period)) \in NotNegative
<1>1. Window(s, i, period) \in Seq(NotNegative)
    BY WindowIs
<1> QED BY <1>1, TotalNotNegative

LEMMA SmoothedNotNegative ==
    ASSUME NEW s \in Seq(NotNegative), NEW period \in Nat, period > 0
    PROVE  /\ Valid(Smoothed(s, period), period + 1) /\ Len(Smoothed(s, period)) = Len(s)
           /\ \A i \in (period + 1) .. Len(s) : Smoothed(s, period)[i] \in NotNegative
<1> DEFINE e == Smoothed(s, period)
           n == Len(s)
           first == period + 1
<1>1. n \in Nat /\ s \in Seq(Numbers) /\ \A i \in 1 .. n : s[i] \in NotNegative
    BY NotNegativeSeq
<1>2. /\ e \in Seq(Numbers) /\ Len(e) = n
      /\ \A i \in 1 .. n :
            /\ i < first => e[i] = NaN
            /\ i = first => e[i] = Total(Window(s, first, period))
            /\ i > first => e[i] = Plus(Minus(e[i - 1], Over(e[i - 1], Whole(period))), s[i])
    BY <1>1, SmoothedIs
<1> HIDE DEF e
<1> DEFINE T == {i \in 1 .. n : e[i] \in NotNegative}
<1>3. first <= n => first \in T
    <2> SUFFICES ASSUME first <= n PROVE first \in T
        OBVIOUS
    <2>1. first \in 1 .. n /\ period <= first
        BY <1>1
    <2>2. Total(Window(s, first, period)) \in NotNegative
        BY <2>1, WindowNotNegative
    <2> QED BY <1>2, <2>1, <2>2
<1>4. \A i \in (first + 1) .. n : i - 1 \in T => i \in T
    <2> SUFFICES ASSUME NEW i \in (first + 1) .. n, i - 1 \in T PROVE i \in T
        OBVIOUS
    <2>1. i \in 1 .. n /\ i > first /\ e[i - 1] \in NotNegative
        BY <1>1
    <2>2. Minus(e[i - 1], Over(e[i - 1], Whole(period))) \in NotNegative
        BY <2>1, RestIs
    <2> QED BY <1>1, <1>2, <2>1, <2>2, NotNegatives
<1>5. \A i \in first .. n : i \in T
    <2>1. first \in Nat
        OBVIOUS
    <2> HIDE DEF T, first
    <2> QED BY <1>1, <1>3, <1>4, <2>1, Steps
<1>6. \A i \in 1 .. n : i < first \/ i \in first .. n
    BY <1>1
<1> QED BY <1>1, <1>2, <1>5, <1>6, NotNegativeSeq DEF Valid, e

LEMMA SmoothedLess ==
    ASSUME NEW s \in Seq(NotNegative), NEW t \in Seq(NotNegative), Len(s) = Len(t),
           NEW period \in Nat, period > 0, \A i \in 1 .. Len(s) : AtMost(s[i], t[i])
    PROVE  \A i \in (period + 1) .. Len(s) : AtMost(Smoothed(s, period)[i], Smoothed(t, period)[i])
<1> DEFINE d == Smoothed(s, period)
           e == Smoothed(t, period)
           n == Len(s)
           first == period + 1
<1>1. /\ n \in Nat /\ s \in Seq(Numbers) /\ t \in Seq(Numbers)
      /\ s \in Seq(Fraction) /\ t \in Seq(Fraction)
      /\ \A i \in 1 .. n : s[i] \in Fraction /\ t[i] \in Fraction /\ AtMost(s[i], t[i])
    BY NotNegativeSeq
<1>2. /\ \A i \in 1 .. n :
            /\ i = first => d[i] = Total(Window(s, first, period))
            /\ i > first => d[i] = Plus(Minus(d[i - 1], Over(d[i - 1], Whole(period))), s[i])
      /\ \A i \in first .. n : d[i] \in NotNegative
    BY <1>1, SmoothedIs, SmoothedNotNegative
<1>3. /\ \A i \in 1 .. n :
            /\ i = first => e[i] = Total(Window(t, first, period))
            /\ i > first => e[i] = Plus(Minus(e[i - 1], Over(e[i - 1], Whole(period))), t[i])
      /\ \A i \in first .. n : e[i] \in NotNegative
    BY <1>1, SmoothedIs, SmoothedNotNegative
<1> HIDE DEF d, e
<1> DEFINE T == {i \in 1 .. n : AtMost(d[i], e[i])}
<1>4. first <= n => first \in T
    <2> SUFFICES ASSUME first <= n PROVE first \in T
        OBVIOUS
    <2>1. /\ first \in 1 .. Len(s) /\ first \in 1 .. Len(t) /\ period <= first
          /\ s \in Seq(Fraction) /\ t \in Seq(Fraction) /\ period \in Nat
        BY <1>1
    <2> DEFINE v == Window(s, first, period)
               w == Window(t, first, period)
    <2> HIDE DEF first
    <2>2. v \in Seq(Fraction) /\ Len(v) = period /\ \A j \in 1 .. period : v[j] = s[(first - period) + j]
        BY <2>1, WindowIs
    <2>3. w \in Seq(Fraction) /\ Len(w) = period /\ \A j \in 1 .. period : w[j] = t[(first - period) + j]
        BY <2>1, WindowIs
    <2>4. \A j \in 1 .. period : (first - period) + j \in 1 .. n
        BY <1>1, <2>1
    <2> HIDE DEF v, w
    <2>5. \A j \in 1 .. Len(v) : AtMost(v[j], w[j])
        BY <1>1, <2>2, <2>3, <2>4
    <2>6. AtMost(Total(v), Total(w))
        BY <2>2, <2>3, <2>5, TotalLess
    <2> QED BY <1>2, <1>3, <2>1, <2>6 DEF v, w
<1>5. \A i \in (first + 1) .. n : i - 1 \in T => i \in T
    <2> SUFFICES ASSUME NEW i \in (first + 1) .. n, i - 1 \in T PROVE i \in T
        OBVIOUS
    <2>1. i \in 1 .. n /\ i > first /\ i - 1 \in first .. n /\ AtMost(d[i - 1], e[i - 1])
        BY <1>1
    <2> DEFINE x == Minus(d[i - 1], Over(d[i - 1], Whole(period)))
               y == Minus(e[i - 1], Over(e[i - 1], Whole(period)))
    <2>2. x \in NotNegative /\ y \in NotNegative /\ AtMost(x, y)
        BY <1>2, <1>3, <2>1, RestIs
    <2>3. d[i] = Plus(x, s[i]) /\ e[i] = Plus(y, t[i])
        BY <1>2, <1>3, <2>1
    <2> HIDE DEF x, y
    <2>4. AtMost(Plus(x, s[i]), Plus(y, t[i]))
        BY <1>1, <2>1, <2>2, OrderAddsBoth DEF NotNegative
    <2> QED BY <2>1, <2>3, <2>4
<1>6. \A i \in first .. n : i \in T
    <2>1. first \in Nat
        OBVIOUS
    <2> HIDE DEF T, first
    <2> QED BY <1>1, <1>4, <1>5, <2>1, Steps
<1> QED BY <1>6 DEF d, e

LEMMA PercentIs ==
    /\ \A part \in Numbers, all \in Numbers : IsNaN(all) => Percent(part, all) = NaN
    /\ \A part \in NotNegative, all \in NotNegative : AtMost(part, all) =>
          /\ Percent(part, all) \in NotNegative /\ AtMost(Percent(part, all), Hundred)
<1>1. ASSUME NEW part \in Numbers, NEW all \in Numbers, IsNaN(all)
      PROVE  Percent(part, all) = NaN
    <2>1. Over(part, all) = NaN /\ Over(part, all) \in Numbers /\ Hundred \in Numbers
        BY <1>1, NumbersClosed, ConstantsAre, FractionsAre
    <2>2. Times(Over(part, all), Hundred) = NaN
        BY <2>1, NaNIs, NumbersClosed
    <2> QED BY <1>1, <2>2 DEF Percent
<1>2. ASSUME NEW part \in NotNegative, NEW all \in NotNegative, AtMost(part, all)
      PROVE  Percent(part, all) \in NotNegative /\ AtMost(Percent(part, all), Hundred)
    <2>1. /\ part \in Fraction /\ all \in Fraction /\ ~IsNaN(all) /\ One \in Fraction
          /\ Hundred \in Fraction /\ Zero \in NotNegative /\ Hundred \in NotNegative
          /\ AtMost(Zero, Hundred)
        BY FractionIs, ConstantsAre, NotNegatives DEF NotNegative
    <2>2. CASE all = Zero
        <3>1. Percent(part, all) = Zero
            BY <2>1, <2>2 DEF Percent
        <3> QED BY <2>1, <3>1
    <2>3. CASE all # Zero
        <3> DEFINE q == Over(part, all)
        <3>1. Percent(part, all) = Times(q, Hundred)
            BY <2>1, <2>3 DEF Percent
        <3>2. all \in Positive
            BY <2>3, NotNegatives
        <3>3. q \in NotNegative
            BY <3>2, NotNegatives
        <3>4. AtMost(part, Times(One, all)) <=> AtMost(q, One)
            BY <2>1, <3>2, OrderDivides
        <3>5. Times(One, all) = all /\ Times(One, Hundred) = Hundred
            BY <2>1, TimesLaws
        <3> HIDE DEF q
        <3>6. AtMost(q, One) /\ q \in Fraction
            BY <1>2, <3>3, <3>4, <3>5 DEF NotNegative
        <3>7. AtMost(Times(q, Hundred), Times(One, Hundred))
            BY <2>1, <3>6, OrderMultiplies
        <3> QED BY <2>1, <3>1, <3>3, <3>5, <3>7, NotNegatives
    <2> QED BY <2>2, <2>3
<1> QED BY <1>1, <1>2

PlusDI(bs, period) ==
    [i \in 1 .. Len(bs) |-> Percent(Smoothed(Rises(bs), period)[i], Smoothed(TrueRanges(bs), period)[i])]
MinusDI(bs, period) ==
    [i \in 1 .. Len(bs) |-> Percent(Smoothed(Falls(bs), period)[i], Smoothed(TrueRanges(bs), period)[i])]
Dx(bs, period) ==
    [i \in 1 .. Len(bs) |-> Percent(Distance(PlusDI(bs, period)[i], MinusDI(bs, period)[i]),
                                    Plus(PlusDI(bs, period)[i], MinusDI(bs, period)[i]))]

LEMMA AdxIs ==
    ASSUME NEW bs \in Seq(Candles), NEW period \in Nat
    PROVE  Adx(bs, period) =
               IF Len(bs) < 2 * period
               THEN [adx |-> Nothing(Len(bs)), plusDI |-> Nothing(Len(bs)), minusDI |-> Nothing(Len(bs))]
               ELSE [adx |-> Wilder(Dx(bs, period), 2 * period, period),
                     plusDI |-> PlusDI(bs, period), minusDI |-> MinusDI(bs, period)]
<1>1. Movement(bs).plus = Rises(bs) /\ Movement(bs).minus = Falls(bs)
    BY MovementIs
<1> QED BY <1>1 DEF Adx, PlusDI, MinusDI, Dx

LEMMA SharesAre ==
    ASSUME NEW bs \in Seq(Candles), NEW period \in Nat, period > 0
    PROVE  /\ Kept(PlusDI(bs, period), period + 1, Zero, Hundred) /\ Len(PlusDI(bs, period)) = Len(bs)
           /\ Kept(MinusDI(bs, period), period + 1, Zero, Hundred) /\ Len(MinusDI(bs, period)) = Len(bs)
           /\ \A i \in (period + 1) .. Len(bs) :
                  PlusDI(bs, period)[i] \in NotNegative /\ MinusDI(bs, period)[i] \in NotNegative
<1> DEFINE n == Len(bs)
           a == Smoothed(Rises(bs), period)
           b == Smoothed(Falls(bs), period)
           r == Smoothed(TrueRanges(bs), period)
           p == PlusDI(bs, period)
           m == MinusDI(bs, period)
           first == period + 1
<1>1. n \in Nat
    OBVIOUS
<1>2. p = [i \in 1 .. n |-> Percent(a[i], r[i])] /\ m = [i \in 1 .. n |-> Percent(b[i], r[i])]
    BY DEF PlusDI, MinusDI
<1>3. /\ Rises(bs) \in Seq(NotNegative) /\ Len(Rises(bs)) = n
      /\ Falls(bs) \in Seq(NotNegative) /\ Len(Falls(bs)) = n
      /\ TrueRanges(bs) \in Seq(NotNegative) /\ Len(TrueRanges(bs)) = n
      /\ \A i \in 1 .. n : AtMost(Rises(bs)[i], TrueRanges(bs)[i]) /\ AtMost(Falls(bs)[i], TrueRanges(bs)[i])
    BY RangesAre
<1>4. /\ Valid(a, first) /\ Len(a) = n /\ \A i \in first .. n : a[i] \in NotNegative
      /\ Valid(b, first) /\ Len(b) = n /\ \A i \in first .. n : b[i] \in NotNegative
      /\ Valid(r, first) /\ Len(r) = n /\ \A i \in first .. n : r[i] \in NotNegative
    BY <1>3, SmoothedNotNegative
<1>5. \A i \in first .. n : AtMost(a[i], r[i])
    BY <1>3, SmoothedLess
<1>6. \A i \in first .. n : AtMost(b[i], r[i])
    BY <1>3, SmoothedLess
<1> HIDE DEF n, a, b, r, p, m
<1>7. ASSUME NEW i \in 1 .. n
      PROVE  /\ IF i < first THEN p[i] = NaN ELSE p[i] \in NotNegative /\ AtMost(p[i], Hundred)
             /\ IF i < first THEN m[i] = NaN ELSE m[i] \in NotNegative /\ AtMost(m[i], Hundred)
    <2>1. p[i] = Percent(a[i], r[i]) /\ m[i] = Percent(b[i], r[i])
        BY <1>2
    <2>2. CASE i < first
        <3>1. a[i] = NaN /\ b[i] = NaN /\ r[i] = NaN
            BY <1>4, <2>2 DEF Valid
        <3>2. Percent(NaN, NaN) = NaN
            BY NaNIs, PercentIs
        <3> QED BY <2>1, <2>2, <3>1, <3>2
    <2>3. CASE ~(i < first)
        <3>1. i \in first .. n
            BY <1>1, <2>3
        <3> QED BY <1>4, <1>5, <1>6, <2>1, <2>3, <3>1, PercentIs
    <2> QED BY <2>2, <2>3
<1>8. p = [i \in 1 .. n |-> p[i]] /\ m = [i \in 1 .. n |-> m[i]] /\ first \in Nat
    BY <1>2
<1>9. /\ \A i \in 1 .. n : IF i < first THEN p[i] = NaN ELSE p[i] \in Fraction
      /\ \A i \in 1 .. n : IF i < first THEN m[i] = NaN ELSE m[i] \in Fraction
    BY <1>7 DEF NotNegative
<1> HIDE DEF first
<1>10. Valid(p, first) /\ Len(p) = n /\ Valid(m, first) /\ Len(m) = n
    BY <1>1, <1>8, <1>9, ValidIs
<1>11. \A i \in first .. n : i \in 1 .. n /\ ~(i < first)
    BY <1>1 DEF first
<1>12. \A i \in first .. n : /\ p[i] \in NotNegative /\ AtMost(p[i], Hundred)
                              /\ m[i] \in NotNegative /\ AtMost(m[i], Hundred)
    BY <1>7, <1>11
<1> QED BY <1>10, <1>12 DEF Kept, NotNegative, n, p, m, first

LEMMA DxIs ==
    ASSUME NEW bs \in Seq(Candles), NEW period \in Nat, period > 0
    PROVE  /\ Kept(Dx(bs, period), period + 1, Zero, Hundred) /\ Len(Dx(bs, period)) = Len(bs)
<1> DEFINE n == Len(bs)
           p == PlusDI(bs, period)
           m == MinusDI(bs, period)
           e == Dx(bs, period)
           first == period + 1
<1>1. n \in Nat
    OBVIOUS
<1>2. e = [i \in 1 .. n |-> Percent(Distance(p[i], m[i]), Plus(p[i], m[i]))]
    BY DEF Dx
<1>3. /\ Valid(p, first) /\ Len(p) = n /\ Valid(m, first) /\ Len(m) = n
      /\ \A i \in first .. n : p[i] \in NotNegative /\ m[i] \in NotNegative
    BY SharesAre DEF Kept
<1> HIDE DEF n, p, m, e
<1>4. ASSUME NEW i \in 1 .. n
      PROVE  IF i < first THEN e[i] = NaN ELSE e[i] \in NotNegative /\ AtMost(e[i], Hundred)
    <2>1. e[i] = Percent(Distance(p[i], m[i]), Plus(p[i], m[i]))
        BY <1>2
    <2>2. CASE i < first
        <3>1. p[i] = NaN /\ m[i] = NaN
            BY <1>3, <2>2 DEF Valid
        <3>2. /\ Plus(NaN, NaN) = NaN /\ Distance(NaN, NaN) \in Numbers
              /\ IsNaN(NaN) /\ NaN \in Numbers
            BY NaNIs, NumbersClosed, LargerOfNumbers
        <3>3. Percent(Distance(NaN, NaN), NaN) = NaN
            BY <3>2, PercentIs
        <3> QED BY <2>1, <2>2, <3>1, <3>2, <3>3
    <2>3. CASE ~(i < first)
        <3>1. i \in first .. n
            BY <1>1, <2>3
        <3> DEFINE x == p[i]
                   y == m[i]
        <3>2. x \in NotNegative /\ y \in NotNegative
            BY <1>3, <3>1
        <3> HIDE DEF x, y
        <3>3. /\ x \in Fraction /\ y \in Fraction /\ Zero \in Fraction
              /\ AtMost(Zero, x) /\ AtMost(Zero, y)
            BY <3>2, ConstantsAre DEF NotNegative
        <3>4. Plus(x, y) \in NotNegative /\ Plus(x, y) \in Fraction
            BY <3>2, NotNegatives DEF NotNegative
        <3>5. Distance(x, y) \in NotNegative /\ Distance(x, y) \in {Minus(x, y), Minus(y, x)}
            BY <3>3, DistanceIs DEF NotNegative
        <3>6. AtMost(Minus(x, y), x) /\ AtMost(Minus(y, x), y) /\ AtMost(x, Plus(x, y)) /\ AtMost(y, Plus(x, y))
            <4>1. \A a \in Fraction, b \in Fraction : AtMost(Zero, b) => AtMost(Minus(a, b), a) /\ AtMost(a, Plus(a, b))
                <5> SUFFICES ASSUME NEW a \in Fraction, NEW b \in Fraction, AtMost(Zero, b)
                             PROVE  AtMost(Minus(a, b), a) /\ AtMost(a, Plus(a, b))
                    OBVIOUS
                <5>1. AtMost(Zero, b) <=> AtMost(Minus(a, b), Minus(a, Zero))
                    BY <3>3, OrderAdds
                <5>2. Minus(a, Zero) = a
                    <6>1. Minus(Plus(a, Zero), Zero) = a /\ Plus(a, Zero) = a
                        BY <3>3, PlusLaws
                    <6> QED BY <6>1
                <5>3. AtMost(Zero, b) <=> AtMost(Plus(Zero, a), Plus(b, a))
                    BY <3>3, OrderAdds
                <5>4. Plus(Zero, a) = a /\ Plus(b, a) = Plus(a, b)
                    BY <3>3, PlusLaws
                <5> QED BY <5>1, <5>2, <5>3, <5>4
            <4>2. Plus(y, x) = Plus(x, y)
                BY <3>3, PlusLaws
            <4> QED BY <3>3, <4>1, <4>2
        <3>7. Minus(x, y) \in Fraction /\ Minus(y, x) \in Fraction
            BY <3>3, Closed
        <3>8. AtMost(Minus(x, y), Plus(x, y)) /\ AtMost(Minus(y, x), Plus(x, y))
            BY <3>3, <3>4, <3>6, <3>7, OrderPasses
        <3>9. AtMost(Distance(x, y), Plus(x, y))
            BY <3>5, <3>8
        <3>10. Percent(Distance(x, y), Plus(x, y)) \in NotNegative
               /\ AtMost(Percent(Distance(x, y), Plus(x, y)), Hundred)
            BY <3>4, <3>5, <3>9, PercentIs
        <3> QED BY <2>1, <2>3, <3>10 DEF x, y
    <2> QED BY <2>2, <2>3
<1>5. e = [i \in 1 .. n |-> e[i]] /\ first \in Nat
    BY <1>2
<1>6. \A i \in 1 .. n : IF i < first THEN e[i] = NaN ELSE e[i] \in Fraction
    BY <1>4 DEF NotNegative
<1> HIDE DEF first
<1>7. Valid(e, first) /\ Len(e) = n
    BY <1>1, <1>5, <1>6, ValidIs
<1>8. \A i \in first .. n : i \in 1 .. n /\ ~(i < first)
    BY <1>1 DEF first
<1> QED BY <1>4, <1>7, <1>8 DEF Kept, NotNegative, n, e, first

(* What is shown of a candle stays: it was not there yet, or it is the same. *)
Agrees(s, t) ==
    Len(s) <= Len(t) /\ \A i \in 1 .. Len(s) : IsNaN(s[i]) \/ s[i] = t[i]
(* A series of n numbers that are between two bounds, where there are any.  *)
Shows(s, n, lo, hi) ==
    s \in Seq(Numbers) /\ Len(s) = n /\ \A i \in 1 .. n : IsNaN(s[i]) \/ Between(lo, s[i], hi)

LEMMA BeginsAgrees ==
    ASSUME NEW s, NEW t, Begins(s, t)
    PROVE  Agrees(s, t)
BY DEF Begins, Agrees

LEMMA KeptShows ==
    ASSUME NEW s, NEW first \in Nat, NEW lo \in Fraction, NEW hi \in Fraction, Kept(s, first, lo, hi)
    PROVE  Shows(s, Len(s), lo, hi)
<1>1. s \in Seq(Numbers) /\ Len(s) \in Nat
    BY DEF Kept, Valid
<1> SUFFICES ASSUME NEW i \in 1 .. Len(s) PROVE IsNaN(s[i]) \/ Between(lo, s[i], hi)
    BY <1>1 DEF Shows
<1>2. CASE i < first
    BY <1>2, NaNIs DEF Kept, Valid
<1>3. CASE ~(i < first)
    <2>1. i \in first .. Len(s)
        BY <1>1, <1>3
    <2> QED BY <1>3, <2>1 DEF Kept, Valid, Between
<1> QED BY <1>2, <1>3

LEMMA KeptIs ==
    ASSUME NEW n \in Nat, NEW first \in Nat, first > 0, NEW lo \in Fraction, NEW hi \in Fraction,
           NEW e, e = [i \in 1 .. n |-> e[i]],
           \A i \in 1 .. n : IF i < first THEN e[i] = NaN
                             ELSE e[i] \in Fraction /\ AtMost(lo, e[i]) /\ AtMost(e[i], hi)
    PROVE  Kept(e, first, lo, hi) /\ Len(e) = n
<1>1. Valid(e, first) /\ Len(e) = n
    BY ValidIs
<1>2. \A i \in first .. n : i \in 1 .. n /\ ~(i < first)
    OBVIOUS
<1> QED BY <1>1, <1>2 DEF Kept

(* The ADX and the directional indicators.                                  *)
LEMMA NothingIs ==
    ASSUME NEW n \in Nat
    PROVE  /\ Nothing(n) \in Seq(Numbers) /\ Len(Nothing(n)) = n
           /\ \A i \in 1 .. n : IsNaN(Nothing(n)[i])
<1>1. Nothing(n) \in [1 .. n -> Numbers] /\ \A i \in 1 .. n : Nothing(n)[i] = NaN
    BY NaNIs DEF Nothing
<1> QED BY <1>1, Tabled, NaNIs

AdxOutputs == {"adx", "plusDI", "minusDI"}

LEMMA AdxAre ==
    ASSUME NEW bs \in Seq(Candles), NEW period \in Nat, period > 0
    PROVE  /\ \A o \in AdxOutputs : Shows(Adx(bs, period)[o], Len(bs), Zero, Hundred)
           /\ Len(bs) >= 2 * period => \A o \in AdxOutputs : Valid(Adx(bs, period)[o], 2 * period)
                                          \/ Valid(Adx(bs, period)[o], period + 1)
<1> DEFINE n == Len(bs)
           a == Wilder(Dx(bs, period), 2 * period, period)
           p == PlusDI(bs, period)
           m == MinusDI(bs, period)
<1>1. n \in Nat /\ 2 * period \in Nat /\ 2 * period >= period /\ (2 * period) - period = period
      /\ period + 1 \in Nat
    OBVIOUS
<1>2. Zero \in Fraction /\ Hundred \in Fraction
    BY ConstantsAre
<1>3. Kept(p, period + 1, Zero, Hundred) /\ Len(p) = n /\ Kept(m, period + 1, Zero, Hundred) /\ Len(m) = n
    BY SharesAre
<1>4. Kept(Dx(bs, period), period + 1, Zero, Hundred) /\ Len(Dx(bs, period)) = n
    BY DxIs
<1>5. Kept(a, 2 * period, Zero, Hundred) /\ Len(a) = n
    <2>1. \A i \in (period + 1) .. n : ~(i < period + 1) /\ i \in 1 .. n
        BY <1>1
    <2>2. Dx(bs, period) \in Seq(Numbers)
          /\ \A i \in (period + 1) .. Len(Dx(bs, period)) :
                Dx(bs, period)[i] \in Fraction /\ AtMost(Zero, Dx(bs, period)[i]) /\ AtMost(Dx(bs, period)[i], Hundred)
        BY <1>4, <2>1 DEF Kept, Valid
    <2> QED BY <1>1, <1>2, <1>4, <2>2, WilderBetween
<1>6. Shows(a, n, Zero, Hundred) /\ Shows(p, n, Zero, Hundred) /\ Shows(m, n, Zero, Hundred)
    BY <1>1, <1>2, <1>3, <1>5, KeptShows
<1>7. Shows(Nothing(n), n, Zero, Hundred)
    BY <1>1, NothingIs DEF Shows
<1>8. Adx(bs, period) = IF n < 2 * period
                        THEN [adx |-> Nothing(n), plusDI |-> Nothing(n), minusDI |-> Nothing(n)]
                        ELSE [adx |-> a, plusDI |-> p, minusDI |-> m]
    BY AdxIs
<1>9. Valid(a, 2 * period) /\ Valid(p, period + 1) /\ Valid(m, period + 1)
    BY <1>3, <1>5 DEF Kept
<1> HIDE DEF n, a, p, m
<1>10. CASE n < 2 * period
    <2>1. \A o \in AdxOutputs : Adx(bs, period)[o] = Nothing(n)
        BY <1>8, <1>10 DEF AdxOutputs
    <2> QED BY <1>1, <1>7, <1>10, <2>1 DEF n
<1>11. CASE ~(n < 2 * period)
    <2>1. Adx(bs, period).adx = a /\ Adx(bs, period).plusDI = p /\ Adx(bs, period).minusDI = m
        BY <1>8, <1>11
    <2> QED BY <1>6, <1>9, <2>1 DEF AdxOutputs, n
<1> QED BY <1>10, <1>11

LEMMA SharesBegin ==
    ASSUME NEW b \in Seq(Candles), NEW c \in Seq(Candles), Begins(b, c),
           NEW period \in Nat, period > 0
    PROVE  /\ Begins(PlusDI(b, period), PlusDI(c, period))
           /\ Begins(MinusDI(b, period), MinusDI(c, period))
           /\ Begins(Dx(b, period), Dx(c, period))
<1>1. /\ Len(b) \in Nat /\ Len(c) \in Nat /\ Len(b) <= Len(c)
      /\ \A i \in 1 .. Len(b) : i \in 1 .. Len(c)
    BY DEF Begins
<1>2. /\ TrueRanges(b) \in Seq(Numbers) /\ TrueRanges(c) \in Seq(Numbers)
      /\ Rises(b) \in Seq(Numbers) /\ Rises(c) \in Seq(Numbers)
      /\ Falls(b) \in Seq(Numbers) /\ Falls(c) \in Seq(Numbers)
      /\ Len(TrueRanges(b)) = Len(b) /\ Len(Rises(b)) = Len(b) /\ Len(Falls(b)) = Len(b)
    BY RangesAre, NotNegativeSeq
<1>3. /\ Begins(Smoothed(TrueRanges(b), period), Smoothed(TrueRanges(c), period))
      /\ Begins(Smoothed(Rises(b), period), Smoothed(Rises(c), period))
      /\ Begins(Smoothed(Falls(b), period), Smoothed(Falls(c), period))
    BY <1>2, RangesBegin, SmoothedBegins
<1>4. /\ Len(Smoothed(TrueRanges(b), period)) = Len(b)
      /\ Len(Smoothed(Rises(b), period)) = Len(b) /\ Len(Smoothed(Falls(b), period)) = Len(b)
    BY <1>2, SmoothedIs
<1>5. /\ Len(PlusDI(b, period)) = Len(b) /\ Len(PlusDI(c, period)) = Len(c)
      /\ Len(MinusDI(b, period)) = Len(b) /\ Len(MinusDI(c, period)) = Len(c)
      /\ Len(Dx(b, period)) = Len(b) /\ Len(Dx(c, period)) = Len(c)
    BY SharesAre, DxIs
<1>6. \A i \in 1 .. Len(b) : /\ PlusDI(b, period)[i] = PlusDI(c, period)[i]
                              /\ MinusDI(b, period)[i] = MinusDI(c, period)[i]
    <2> SUFFICES ASSUME NEW i \in 1 .. Len(b)
                 PROVE  /\ PlusDI(b, period)[i] = PlusDI(c, period)[i]
                        /\ MinusDI(b, period)[i] = MinusDI(c, period)[i]
        OBVIOUS
    <2>1. i \in 1 .. Len(c)
        BY <1>1
    <2>2. /\ Smoothed(TrueRanges(b), period)[i] = Smoothed(TrueRanges(c), period)[i]
          /\ Smoothed(Rises(b), period)[i] = Smoothed(Rises(c), period)[i]
          /\ Smoothed(Falls(b), period)[i] = Smoothed(Falls(c), period)[i]
        BY <1>3, <1>4 DEF Begins
    <2> QED BY <2>1, <2>2 DEF PlusDI, MinusDI
<1>7. \A i \in 1 .. Len(b) : Dx(b, period)[i] = Dx(c, period)[i]
    BY <1>1, <1>6 DEF Dx
<1> QED BY <1>1, <1>5, <1>6, <1>7 DEF Begins

LEMMA AdxAgrees ==
    ASSUME NEW b \in Seq(Candles), NEW c \in Seq(Candles), Begins(b, c),
           NEW period \in Nat, period > 0
    PROVE  \A o \in AdxOutputs : Agrees(Adx(b, period)[o], Adx(c, period)[o])
<1>1. /\ Len(b) \in Nat /\ Len(c) \in Nat /\ Len(b) <= Len(c)
      /\ 2 * period \in Nat /\ 2 * period >= period
    BY DEF Begins
<1>2. \A o \in AdxOutputs : Len(Adx(b, period)[o]) = Len(b) /\ Len(Adx(c, period)[o]) = Len(c)
    BY AdxAre DEF Shows
<1>3. CASE Len(b) < 2 * period
    <2>0. Adx(b, period) = [adx |-> Nothing(Len(b)), plusDI |-> Nothing(Len(b)),
                            minusDI |-> Nothing(Len(b))]
        <3>1. Adx(b, period) = IF Len(b) < 2 * period
                 THEN [adx |-> Nothing(Len(b)), plusDI |-> Nothing(Len(b)), minusDI |-> Nothing(Len(b))]
                 ELSE [adx |-> Wilder(Dx(b, period), 2 * period, period),
                       plusDI |-> PlusDI(b, period), minusDI |-> MinusDI(b, period)]
            BY AdxIs
        <3> QED BY <1>3, <3>1
    <2>1. \A o \in AdxOutputs : Adx(b, period)[o] = Nothing(Len(b))
        BY <2>0 DEF AdxOutputs
    <2> QED BY <1>1, <1>2, <2>1, NothingIs DEF Agrees
<1>4. CASE ~(Len(b) < 2 * period)
    <2>1. ~(Len(c) < 2 * period)
        BY <1>1, <1>4
    <2>2. /\ Adx(b, period).adx = Wilder(Dx(b, period), 2 * period, period)
          /\ Adx(b, period).plusDI = PlusDI(b, period) /\ Adx(b, period).minusDI = MinusDI(b, period)
          /\ Adx(c, period).adx = Wilder(Dx(c, period), 2 * period, period)
          /\ Adx(c, period).plusDI = PlusDI(c, period) /\ Adx(c, period).minusDI = MinusDI(c, period)
        <3>1. \A x \in {b, c} : ~(Len(x) < 2 * period) =>
                 Adx(x, period) = [adx |-> Wilder(Dx(x, period), 2 * period, period),
                                   plusDI |-> PlusDI(x, period), minusDI |-> MinusDI(x, period)]
            <4> SUFFICES ASSUME NEW x \in {b, c}, ~(Len(x) < 2 * period)
                         PROVE Adx(x, period) = [adx |-> Wilder(Dx(x, period), 2 * period, period),
                                                 plusDI |-> PlusDI(x, period), minusDI |-> MinusDI(x, period)]
                OBVIOUS
            <4>1. Adx(x, period) = IF Len(x) < 2 * period
                     THEN [adx |-> Nothing(Len(x)), plusDI |-> Nothing(Len(x)), minusDI |-> Nothing(Len(x))]
                     ELSE [adx |-> Wilder(Dx(x, period), 2 * period, period),
                           plusDI |-> PlusDI(x, period), minusDI |-> MinusDI(x, period)]
                <5>1. x \in Seq(Candles)
                    OBVIOUS
                <5> QED BY <5>1, AdxIs
            <4> QED BY <4>1
        <3> QED BY <1>4, <2>1, <3>1
    <2>3. Dx(b, period) \in Seq(Numbers) /\ Dx(c, period) \in Seq(Numbers)
        BY DxIs DEF Kept, Valid
    <2>4. Begins(Wilder(Dx(b, period), 2 * period, period), Wilder(Dx(c, period), 2 * period, period))
        BY <1>1, <2>3, SharesBegin, WilderBegins
    <2>5. /\ Agrees(Adx(b, period).adx, Adx(c, period).adx)
          /\ Agrees(Adx(b, period).plusDI, Adx(c, period).plusDI)
          /\ Agrees(Adx(b, period).minusDI, Adx(c, period).minusDI)
        BY <2>2, <2>4, SharesBegin, BeginsAgrees
    <2> QED BY <2>5 DEF AdxOutputs
<1> QED BY <1>3, <1>4

(* A series within another, d places further on, and its windows.           *)
Part(s, t, d) ==
    d \in Nat /\ Len(s) + d <= Len(t) /\ \A i \in 1 .. Len(s) : s[i] = t[d + i]

LEMMA BeginsPart ==
    ASSUME NEW W, NEW s \in Seq(W), NEW t \in Seq(W)
    PROVE  Begins(s, t) <=> Part(s, t, 0)
<1>1. Len(s) \in Nat /\ \A i \in 1 .. Len(s) : 0 + i = i
    OBVIOUS
<1> QED BY <1>1 DEF Begins, Part

LEMMA PartIs ==
    ASSUME NEW V, NEW W, NEW s \in Seq(V), NEW t \in Seq(W), NEW d, Part(s, t, d)
    PROVE  /\ d \in Nat /\ Len(s) \in Nat /\ Len(t) \in Nat /\ Len(s) + d <= Len(t)
           /\ \A i \in 1 .. Len(s) : d + i \in 1 .. Len(t) /\ s[i] = t[d + i]
BY DEF Part

LEMMA WindowsPart ==
    ASSUME NEW W, NEW s \in Seq(W), NEW t \in Seq(W), NEW d \in Nat, Len(s) + d <= Len(t),
           NEW i \in 1 .. Len(s), NEW period \in Nat, period <= i,
           \A j \in ((i - period) + 1) .. i : s[j] = t[d + j]
    PROVE  Window(s, i, period) = Window(t, d + i, period)
<1> DEFINE a == Window(s, i, period)
           b == Window(t, d + i, period)
<1>1. d + i \in 1 .. Len(t) /\ period <= d + i /\ (d + i) - period = d + (i - period)
    OBVIOUS
<1>2. a \in Seq(W) /\ Len(a) = period /\ \A j \in 1 .. period : a[j] = s[(i - period) + j]
    BY WindowIs
<1>3. b \in Seq(W) /\ Len(b) = period /\ \A j \in 1 .. period : b[j] = t[((d + i) - period) + j]
    <2> DEFINE k == d + i
    <2>1. k \in 1 .. Len(t) /\ period <= k
        BY <1>1
    <2> HIDE DEF k
    <2>2. /\ Window(t, k, period) \in Seq(W) /\ Len(Window(t, k, period)) = period
          /\ \A j \in 1 .. period : Window(t, k, period)[j] = t[(k - period) + j]
        BY <2>1, WindowIs
    <2> QED BY <2>2 DEF k
<1> HIDE DEF a, b
<1>4. ASSUME NEW j \in 1 .. period
      PROVE  a[j] = b[j]
    <2>1. (i - period) + j \in ((i - period) + 1) .. i /\ ((d + i) - period) + j = d + ((i - period) + j)
        OBVIOUS
    <2> QED BY <1>2, <1>3, <2>1
<1>5. a = b
    BY <1>2, <1>3, <1>4
<1> QED BY <1>5 DEF a, b

(* The indicators that look at a window are the same on any part.           *)
LEMMA PricesPart ==
    ASSUME NEW b \in Seq(Candles), NEW c \in Seq(Candles), NEW d, Part(b, c, d)
    PROVE  /\ Part(Closes(b), Closes(c), d) /\ Part(Highs(b), Highs(c), d)
           /\ Part(Lows(b), Lows(c), d) /\ Part(Volumes(b), Volumes(c), d)
<1>1. /\ d \in Nat /\ Len(b) \in Nat /\ Len(c) \in Nat /\ Len(b) + d <= Len(c)
      /\ \A i \in 1 .. Len(b) : d + i \in 1 .. Len(c) /\ b[i] = c[d + i]
    BY PartIs
<1> DEFINE Priced(x) ==
        /\ Len(Closes(x)) = Len(x) /\ Len(Highs(x)) = Len(x)
        /\ Len(Lows(x)) = Len(x) /\ Len(Volumes(x)) = Len(x)
        /\ \A i \in 1 .. Len(x) :
              /\ Closes(x)[i] = Whole(x[i].close) /\ Highs(x)[i] = Whole(x[i].high)
              /\ Lows(x)[i] = Whole(x[i].low) /\ Volumes(x)[i] = Whole(x[i].volume)
<1>2. Priced(b) /\ Priced(c)
    BY PricesAre
<1> HIDE DEF Priced
<1>3. ASSUME NEW i \in 1 .. Len(b)
      PROVE  /\ Closes(b)[i] = Closes(c)[d + i] /\ Highs(b)[i] = Highs(c)[d + i]
             /\ Lows(b)[i] = Lows(c)[d + i] /\ Volumes(b)[i] = Volumes(c)[d + i]
    <2>1. d + i \in 1 .. Len(c) /\ b[i] = c[d + i]
        BY <1>1
    <2> DEFINE j == d + i
    <2>2. j \in 1 .. Len(c) /\ b[i] = c[j]
        BY <2>1
    <2> HIDE DEF j
    <2>3. /\ Closes(b)[i] = Closes(c)[j] /\ Highs(b)[i] = Highs(c)[j]
          /\ Lows(b)[i] = Lows(c)[j] /\ Volumes(b)[i] = Volumes(c)[j]
        BY <1>2, <2>2 DEF Priced
    <2> QED BY <2>3 DEF j
<1>4. /\ Len(Closes(b)) = Len(b) /\ Len(Closes(c)) = Len(c) /\ Len(Highs(b)) = Len(b)
      /\ Len(Highs(c)) = Len(c) /\ Len(Lows(b)) = Len(b) /\ Len(Lows(c)) = Len(c)
      /\ Len(Volumes(b)) = Len(b) /\ Len(Volumes(c)) = Len(c)
    BY <1>2 DEF Priced
<1> QED BY <1>1, <1>3, <1>4 DEF Part

LEMMA SmaPart ==
    ASSUME NEW s \in Seq(Fraction), NEW t \in Seq(Fraction), NEW d, Part(s, t, d),
           NEW period \in Nat, period > 0, NEW i \in 1 .. Len(s), i >= period
    PROVE  Sma(s, period)[i] = Sma(t, period)[d + i]
<1>1. /\ d \in Nat /\ Len(s) \in Nat /\ Len(t) \in Nat /\ Len(s) + d <= Len(t)
      /\ \A j \in 1 .. Len(s) : s[j] = t[d + j]
    BY PartIs
<1>2. \A j \in ((i - period) + 1) .. i : j \in 1 .. Len(s)
    BY <1>1
<1>3. Window(s, i, period) = Window(t, d + i, period)
    BY <1>1, <1>2, WindowsPart
<1>4. d + i \in 1 .. Len(t) /\ ~(d + i < period) /\ ~(i < period)
    BY <1>1
<1> QED BY <1>3, <1>4, SmaIs

LEMMA PlacePart ==
    ASSUME NEW b \in Seq(Candles), NEW c \in Seq(Candles), NEW d, Part(b, c, d),
           NEW period \in Nat, period > 0, NEW i \in 1 .. Len(b), i >= period
    PROVE  /\ Window(Highs(b), i, period) = Window(Highs(c), d + i, period)
           /\ Window(Lows(b), i, period) = Window(Lows(c), d + i, period)
           /\ Place(b, i, period) = Place(c, d + i, period)
<1>1. /\ d \in Nat /\ Len(b) \in Nat /\ Len(c) \in Nat /\ Len(b) + d <= Len(c)
      /\ \A j \in 1 .. Len(b) : b[j] = c[d + j]
    BY PartIs
<1>2. \A j \in ((i - period) + 1) .. i : j \in 1 .. Len(b)
    BY <1>1
<1>3. /\ Highs(b) \in Seq(Fraction) /\ Highs(c) \in Seq(Fraction)
      /\ Lows(b) \in Seq(Fraction) /\ Lows(c) \in Seq(Fraction)
      /\ Len(Highs(b)) = Len(b) /\ Len(Highs(c)) = Len(c)
      /\ Len(Lows(b)) = Len(b) /\ Len(Lows(c)) = Len(c)
    BY PricesAre, NotNegativeSeq
<1>4. /\ \A j \in 1 .. Len(b) : Highs(b)[j] = Highs(c)[d + j]
      /\ \A j \in 1 .. Len(b) : Lows(b)[j] = Lows(c)[d + j]
    <2>1. Part(Highs(b), Highs(c), d) /\ Part(Lows(b), Lows(c), d)
        BY PricesPart
    <2> QED BY <1>3, <2>1 DEF Part
<1>5. Window(Highs(b), i, period) = Window(Highs(c), d + i, period)
    <2> DEFINE s == Highs(b)
               t == Highs(c)
    <2>1. /\ s \in Seq(Fraction) /\ t \in Seq(Fraction) /\ Len(s) = Len(b) /\ Len(t) = Len(c)
          /\ \A j \in 1 .. Len(b) : s[j] = t[d + j]
        BY <1>3, <1>4
    <2> HIDE DEF s, t
    <2>2. i \in 1 .. Len(s) /\ Len(s) + d <= Len(t)
          /\ \A j \in ((i - period) + 1) .. i : s[j] = t[d + j]
        BY <1>1, <1>2, <2>1
    <2>3. Window(s, i, period) = Window(t, d + i, period)
        BY <1>1, <2>1, <2>2, WindowsPart
    <2> QED BY <2>3 DEF s, t
<1>6. Window(Lows(b), i, period) = Window(Lows(c), d + i, period)
    <2> DEFINE s == Lows(b)
               t == Lows(c)
    <2>1. /\ s \in Seq(Fraction) /\ t \in Seq(Fraction) /\ Len(s) = Len(b) /\ Len(t) = Len(c)
          /\ \A j \in 1 .. Len(b) : s[j] = t[d + j]
        BY <1>3, <1>4
    <2> HIDE DEF s, t
    <2>2. i \in 1 .. Len(s) /\ Len(s) + d <= Len(t)
          /\ \A j \in ((i - period) + 1) .. i : s[j] = t[d + j]
        BY <1>1, <1>2, <2>1
    <2>3. Window(s, i, period) = Window(t, d + i, period)
        BY <1>1, <2>1, <2>2, WindowsPart
    <2> QED BY <2>3 DEF s, t
<1>7. b[i].close = c[d + i].close
    BY <1>1
<1> QED BY <1>5, <1>6, <1>7 DEF Place

LEMMA WilliamsIs ==
    ASSUME NEW bs \in Seq(Candles), NEW period \in Nat, period > 0
    PROVE  /\ Kept(WilliamsR(bs, period), period, Minus(Zero, Hundred), Zero)
           /\ Len(WilliamsR(bs, period)) = Len(bs)
           /\ \A i \in 1 .. Len(bs) : i >= period =>
                 WilliamsR(bs, period)[i] = Minus(Times(Place(bs, i, period), Hundred), Hundred)
<1> DEFINE n == Len(bs)
           e == WilliamsR(bs, period)
           k == StochasticK(bs, period)
<1>1. n \in Nat /\ DOMAIN bs = 1 .. n
    OBVIOUS
<1>2. e = [i \in 1 .. n |-> IF i < period THEN NaN
                            ELSE Minus(Times(Place(bs, i, period), Hundred), Hundred)]
    BY <1>1 DEF WilliamsR
<1>3. Zero \in Fraction /\ Hundred \in Fraction
    BY ConstantsAre
<1>4. Kept(k, period, Zero, Hundred) /\ Len(k) = n
      /\ \A i \in 1 .. n : i >= period => k[i] = Times(Place(bs, i, period), Hundred)
    BY StochasticIs
<1> HIDE DEF e, k, n
<1>5. ASSUME NEW i \in 1 .. n
      PROVE  IF i < period THEN e[i] = NaN
             ELSE /\ e[i] \in Fraction /\ AtMost(Minus(Zero, Hundred), e[i]) /\ AtMost(e[i], Zero)
                  /\ e[i] = Minus(Times(Place(bs, i, period), Hundred), Hundred)
    <2>1. CASE i < period
        BY <1>2, <2>1
    <2>2. CASE ~(i < period)
        <3>1. i >= period /\ i \in period .. n
            BY <1>1, <2>2
        <3>2. e[i] = Minus(k[i], Hundred)
            BY <1>2, <1>4, <2>2, <3>1
        <3>3. k[i] \in Fraction /\ AtMost(Zero, k[i]) /\ AtMost(k[i], Hundred)
            BY <1>4, <2>2, <3>1 DEF Kept, Valid
        <3>4. AtMost(Minus(Zero, Hundred), Minus(k[i], Hundred)) /\ AtMost(Minus(k[i], Hundred), Minus(Hundred, Hundred))
            BY <1>3, <3>3, OrderAdds
        <3>5. Minus(Hundred, Hundred) = Zero /\ Minus(k[i], Hundred) \in Fraction
            BY <1>3, <3>3, PlusLaws, Closed
        <3> QED BY <1>2, <2>2, <3>2, <3>4, <3>5
    <2> QED BY <2>1, <2>2
<1>6. e = [i \in 1 .. n |-> e[i]] /\ Minus(Zero, Hundred) \in Fraction
    BY <1>2, <1>3, Closed
<1>7. Kept(e, period, Minus(Zero, Hundred), Zero) /\ Len(e) = n
    <2> DEFINE lo == Minus(Zero, Hundred)
    <2>1. lo \in Fraction /\ Zero \in Fraction /\ e = [i \in 1 .. n |-> e[i]]
        BY <1>3, <1>6
    <2>2. \A i \in 1 .. n : IF i < period THEN e[i] = NaN
                             ELSE e[i] \in Fraction /\ AtMost(lo, e[i]) /\ AtMost(e[i], Zero)
        BY <1>5
    <2> HIDE DEF lo
    <2>3. Kept(e, period, lo, Zero) /\ Len(e) = n
        BY <1>1, <2>1, <2>2, KeptIs
    <2> QED BY <2>3 DEF lo
<1>8. \A i \in 1 .. n : i >= period => ~(i < period)
    BY <1>1
<1> QED BY <1>5, <1>7, <1>8 DEF e, n

(* The typical price.                                                       *)
LEMMA TypicalIs ==
    ASSUME NEW bs \in Seq(Candles)
    PROVE  /\ TypicalPrice(bs) \in Seq(Positive) /\ TypicalPrice(bs) \in Seq(Fraction)
           /\ Len(TypicalPrice(bs)) = Len(bs)
           /\ \A i \in 1 .. Len(bs) :
                 /\ TypicalPrice(bs)[i] \in NotNegative
                 /\ AtMost(Lows(bs)[i], TypicalPrice(bs)[i])
                 /\ AtMost(TypicalPrice(bs)[i], Highs(bs)[i])
<1> DEFINE n == Len(bs)
           e == TypicalPrice(bs)
<1>1. n \in Nat /\ DOMAIN bs = 1 .. n
    OBVIOUS
<1>2. e = [i \in 1 .. n |-> Ratio(bs[i].high + bs[i].low + bs[i].close, 3)]
    BY <1>1 DEF TypicalPrice
<1>3. ASSUME NEW i \in 1 .. n
      PROVE  e[i] \in Positive /\ AtMost(Lows(bs)[i], e[i]) /\ AtMost(e[i], Highs(bs)[i])
    <2> DEFINE h == bs[i].high
               l == bs[i].low
               c == bs[i].close
               sum == h + l + c
    <2>1. h \in Int /\ l \in Int /\ c \in Int /\ l > 0 /\ l <= c /\ c <= h
        BY CandleIs
    <2>2. Lows(bs)[i] = Whole(l) /\ Highs(bs)[i] = Whole(h) /\ e[i] = Ratio(sum, 3)
        BY <1>2, PricesAre
    <2>3. sum \in Int /\ sum > 0 /\ l * 3 <= sum * 1 /\ sum * 1 <= h * 3
        BY <2>1
    <2> HIDE DEF h, l, c, sum, e
    <2>4. 3 \in Nat /\ 3 # 0
        OBVIOUS
    <2>5. Is(Whole(l), l, 1) /\ Is(Whole(h), h, 1) /\ Is(Ratio(sum, 3), sum, 3)
        BY <2>1, <2>3, <2>4, WholeIs, RatioIs
    <2>6. AtMost(Whole(l), Ratio(sum, 3)) /\ AtMost(Ratio(sum, 3), Whole(h))
        <3>1. AtMost(Whole(l), Ratio(sum, 3)) <=> l * 3 <= sum * 1
            BY <2>5, OrderIs
        <3>2. AtMost(Ratio(sum, 3), Whole(h)) <=> sum * 1 <= h * 3
            BY <2>5, OrderIs
        <3> QED BY <2>3, <3>1, <3>2
    <2>7. Ratio(sum, 3) \in Positive
        BY <2>3, <2>4, RatiosAre
    <2> QED BY <2>2, <2>6, <2>7
<1> HIDE DEF e
<1>4. e \in [1 .. n -> Positive]
    BY <1>2, <1>3
<1>5. e \in Seq(Positive) /\ Len(e) = n
    BY <1>1, <1>4, Tabled
<1>6. e \in Seq(Fraction)
    BY <1>5 DEF Positive
<1>7. Positive \subseteq NotNegative
    BY NotNegatives
<1> QED BY <1>3, <1>5, <1>6, <1>7 DEF e

LEMMA TypicalPart ==
    ASSUME NEW b \in Seq(Candles), NEW c \in Seq(Candles), NEW d, Part(b, c, d)
    PROVE  Part(TypicalPrice(b), TypicalPrice(c), d)
<1>1. /\ d \in Nat /\ Len(b) \in Nat /\ Len(c) \in Nat /\ Len(b) + d <= Len(c)
      /\ \A i \in 1 .. Len(b) : d + i \in 1 .. Len(c) /\ b[i] = c[d + i]
    BY PartIs
<1>2. Len(TypicalPrice(b)) = Len(b) /\ Len(TypicalPrice(c)) = Len(c)
    BY TypicalIs
<1>3. /\ \A i \in 1 .. Len(b) : TypicalPrice(b)[i] = Ratio(b[i].high + b[i].low + b[i].close, 3)
      /\ \A i \in 1 .. Len(c) : TypicalPrice(c)[i] = Ratio(c[i].high + c[i].low + c[i].close, 3)
    BY DEF TypicalPrice
<1> QED BY <1>1, <1>2, <1>3 DEF Part

LEMMA PositiveTimes ==
    ASSUME NEW x \in Positive, NEW y \in Positive
    PROVE  Times(x, y) \in Positive
<1>1. x \in Fraction /\ y \in Fraction /\ x \in NotNegative /\ y \in NotNegative /\ Zero \in Fraction
    BY NotNegatives, ConstantsAre DEF Positive
<1>2. Times(x, y) \in NotNegative
    BY <1>1, NotNegatives
<1>3. Times(x, y) # Zero
    <2>1. Over(Times(x, y), y) = x /\ Over(Times(Zero, y), y) = Zero
        BY <1>1, OverLaws
    <2>2. Times(Zero, y) = Zero
        BY <1>1, TimesLaws
    <2>3. ~Less(Zero, Zero) /\ Less(Zero, x)
        BY <1>1, PositiveIs, Order
    <2> QED BY <2>1, <2>2, <2>3
<1> QED BY <1>2, <1>3, NotNegatives

(* The CCI.                                                                 *)
Deviation(bs, period, i) ==
    Mean([j \in 1 .. period |-> Distance(Window(TypicalPrice(bs), i, period)[j],
                                         Sma(TypicalPrice(bs), period)[i])])

LEMMA CciIs ==
    ASSUME NEW bs \in Seq(Candles), NEW period \in Nat, period > 0
    PROVE  /\ Valid(Cci(bs, period), period) /\ Len(Cci(bs, period)) = Len(bs)
           /\ \A i \in 1 .. Len(bs) : i >= period =>
                 Cci(bs, period)[i] =
                    IF Deviation(bs, period, i) = Zero THEN Zero
                    ELSE Over(Minus(TypicalPrice(bs)[i], Sma(TypicalPrice(bs), period)[i]),
                              Times(Ratio(3, 200), Deviation(bs, period, i)))
<1> DEFINE n == Len(bs)
           e == Cci(bs, period)
           tp == TypicalPrice(bs)
           means == Sma(tp, period)
           value(i) == IF Deviation(bs, period, i) = Zero THEN Zero
                       ELSE Over(Minus(tp[i], means[i]), Times(Ratio(3, 200), Deviation(bs, period, i)))
<1>1. n \in Nat /\ DOMAIN bs = 1 .. n
    OBVIOUS
<1>2. e = [i \in 1 .. n |->
              CASE i < period -> NaN
                [] i >= period /\ Deviation(bs, period, i) = Zero -> Zero
                [] OTHER -> Over(Minus(tp[i], means[i]), Times(Ratio(3, 200), Deviation(bs, period, i)))]
    BY <1>1 DEF Cci, Deviation
<1>3. tp \in Seq(Fraction) /\ Len(tp) = n
    BY TypicalIs
<1>4. Valid(means, period) /\ Len(means) = n
    BY <1>3, AveragesAre
<1>5. ASSUME NEW i \in 1 .. n, i >= period
      PROVE  Deviation(bs, period, i) \in NotNegative /\ tp[i] \in Fraction /\ means[i] \in Fraction
    <2>1. tp[i] \in Fraction /\ means[i] \in Fraction
        BY <1>1, <1>3, <1>4, <1>5 DEF Valid
    <2> DEFINE w == Window(tp, i, period)
               s == [j \in 1 .. period |-> Distance(w[j], means[i])]
    <2>2. w \in Seq(Fraction) /\ Len(w) = period
        <3>1. i \in 1 .. Len(tp)
            BY <1>3
        <3> QED BY <1>3, <1>5, <3>1, WindowIs
    <2>3. Deviation(bs, period, i) = Mean(s)
        BY DEF Deviation
    <2> HIDE DEF tp, means, w
    <2>4. \A j \in 1 .. period : Distance(w[j], means[i]) \in NotNegative
        <3>1. \A j \in 1 .. period : w[j] \in Fraction
            BY <2>2
        <3> QED BY <2>1, <3>1, DistanceIs DEF NotNegative
    <2>5. s \in [1 .. period -> NotNegative]
        BY <2>4
    <2>6. s \in Seq(NotNegative) /\ Len(s) = period
        BY <2>5, Tabled
    <2> HIDE DEF s
    <2>7. Mean(s) \in NotNegative
        BY <2>6, TotalNotNegative
    <2> QED BY <2>1, <2>3, <2>7
<1> HIDE DEF e, n, tp, means
<1>6. ASSUME NEW i \in 1 .. n
      PROVE  IF i < period THEN e[i] = NaN ELSE e[i] \in Fraction /\ e[i] = value(i)
    <2>1. CASE i < period
        <3>1. ~(i >= period)
            BY <1>1, <2>1
        <3> QED BY <1>2, <2>1, <3>1
    <2>2. CASE ~(i < period)
        <3>0. i >= period
            BY <1>1, <2>2
        <3> DEFINE v == Deviation(bs, period, i)
        <3>1. v \in NotNegative /\ tp[i] \in Fraction /\ means[i] \in Fraction
            BY <1>5, <3>0
        <3>2. CASE v = Zero
            <4>1. e[i] = Zero
                BY <1>2, <2>2, <3>0, <3>2
            <4> QED BY <2>2, <3>2, <4>1, ConstantsAre
        <3>3. CASE v # Zero
            <4>1. e[i] = Over(Minus(tp[i], means[i]), Times(Ratio(3, 200), v))
                BY <1>2, <2>2, <3>0, <3>3
            <4> HIDE DEF v
            <4>2. v \in Positive /\ v \in Fraction
                BY <3>1, <3>3, NotNegatives DEF NotNegative
            <4>3. Ratio(3, 200) \in Positive
                <5>1. 3 \in Int /\ 200 \in Nat /\ 200 # 0 /\ 3 > 0
                    BY SMT
                <5> QED BY <5>1, RatiosAre
            <4>4. Times(Ratio(3, 200), v) \in Positive
                BY <4>2, <4>3, PositiveTimes
            <4>5. Minus(tp[i], means[i]) \in Fraction
                BY <3>1, Closed
            <4>6. Over(Minus(tp[i], means[i]), Times(Ratio(3, 200), v)) \in Fraction
                BY <4>4, <4>5, OverLaws
            <4> QED BY <2>2, <3>3, <4>1, <4>6 DEF v
        <3> QED BY <3>2, <3>3
    <2> QED BY <2>1, <2>2
<1>7. e = [i \in 1 .. n |-> e[i]]
    BY <1>2
<1>8. Valid(e, period) /\ Len(e) = n
    BY <1>1, <1>6, <1>7, ValidIs
<1>9. \A i \in 1 .. n : i >= period => ~(i < period)
    BY <1>1
<1> QED BY <1>6, <1>8, <1>9 DEF e, n, tp, means

LEMMA CciPart ==
    ASSUME NEW b \in Seq(Candles), NEW c \in Seq(Candles), NEW d, Part(b, c, d),
           NEW period \in Nat, period > 0, NEW i \in 1 .. Len(b), i >= period
    PROVE  Cci(b, period)[i] = Cci(c, period)[d + i]
<1> DEFINE s == TypicalPrice(b)
           t == TypicalPrice(c)
           k == d + i
<1>1. /\ d \in Nat /\ Len(b) \in Nat /\ Len(c) \in Nat /\ Len(b) + d <= Len(c)
      /\ k \in 1 .. Len(c) /\ k >= period
    BY PartIs
<1>2. /\ s \in Seq(Fraction) /\ t \in Seq(Fraction) /\ Len(s) = Len(b) /\ Len(t) = Len(c)
      /\ Part(s, t, d)
    BY TypicalIs, TypicalPart
<1>3. \A j \in 1 .. Len(b) : s[j] = t[d + j]
    BY <1>2 DEF Part
<1>4. Deviation(b, period, i) = Mean([j \in 1 .. period |-> Distance(Window(s, i, period)[j], Sma(s, period)[i])])
      /\ Deviation(c, period, k) = Mean([j \in 1 .. period |-> Distance(Window(t, k, period)[j], Sma(t, period)[k])])
    BY DEF Deviation
<1>5. /\ Cci(b, period)[i] = IF Deviation(b, period, i) = Zero THEN Zero
              ELSE Over(Minus(s[i], Sma(s, period)[i]), Times(Ratio(3, 200), Deviation(b, period, i)))
      /\ Cci(c, period)[k] = IF Deviation(c, period, k) = Zero THEN Zero
              ELSE Over(Minus(t[k], Sma(t, period)[k]), Times(Ratio(3, 200), Deviation(c, period, k)))
    <2> HIDE DEF k
    <2> QED BY <1>1, CciIs
<1> HIDE DEF s, t
<1>6. Window(s, i, period) = Window(t, d + i, period)
    <2>1. i \in 1 .. Len(s) /\ Len(s) + d <= Len(t) /\ \A j \in ((i - period) + 1) .. i : s[j] = t[d + j]
        BY <1>1, <1>2, <1>3
    <2>2. d \in Nat /\ s \in Seq(Fraction) /\ t \in Seq(Fraction) /\ period <= i
        BY <1>1, <1>2
    <2> QED BY <2>1, <2>2, WindowsPart
<1>7. Sma(s, period)[i] = Sma(t, period)[d + i]
    <2>1. i \in 1 .. Len(s)
        BY <1>2
    <2> QED BY <1>2, <2>1, SmaPart
<1>8. s[i] = t[d + i]
    BY <1>3
<1>9. Deviation(b, period, i) = Deviation(c, period, k)
    BY <1>4, <1>6, <1>7
<1> QED BY <1>5, <1>7, <1>8, <1>9

(* The MFI.                                                                 *)
Flow(bs, i) == Times(TypicalPrice(bs)[i], Whole(bs[i].volume))
Ups(bs) == [i \in DOMAIN bs |->
               IF i > 1 /\ Less(TypicalPrice(bs)[i - 1], TypicalPrice(bs)[i]) THEN Flow(bs, i) ELSE Zero]
Downs(bs) == [i \in DOMAIN bs |->
               IF i > 1 /\ Less(TypicalPrice(bs)[i], TypicalPrice(bs)[i - 1]) THEN Flow(bs, i) ELSE Zero]

LEMMA UpsAre ==
    ASSUME NEW bs \in Seq(Candles)
    PROVE  /\ Ups(bs) \in Seq(NotNegative) /\ Len(Ups(bs)) = Len(bs)
           /\ Downs(bs) \in Seq(NotNegative) /\ Len(Downs(bs)) = Len(bs)
<1> DEFINE n == Len(bs)
           u == Ups(bs)
           v == Downs(bs)
<1>1. n \in Nat /\ DOMAIN bs = 1 .. n
    OBVIOUS
<1>2. \A i \in 1 .. n : Flow(bs, i) \in NotNegative
    <2> SUFFICES ASSUME NEW i \in 1 .. n PROVE Flow(bs, i) \in NotNegative
        OBVIOUS
    <2>1. TypicalPrice(bs)[i] \in NotNegative
        BY TypicalIs
    <2>2. bs[i].volume \in Nat
        BY CandleIs
    <2> QED BY <2>1, <2>2, NotNegatives DEF Flow
<1>3. Zero \in NotNegative
    BY NotNegatives
<1>4. u \in [1 .. n -> NotNegative]
    BY <1>1, <1>2, <1>3 DEF Ups
<1>5. v \in [1 .. n -> NotNegative]
    BY <1>1, <1>2, <1>3 DEF Downs
<1> HIDE DEF u, v
<1> QED BY <1>1, <1>4, <1>5, Tabled DEF u, v, n

LEMMA MfiIs ==
    ASSUME NEW bs \in Seq(Candles), NEW period \in Nat, period > 0
    PROVE  /\ Kept(Mfi(bs, period), period + 1, Zero, Hundred) /\ Len(Mfi(bs, period)) = Len(bs)
           /\ \A i \in 1 .. Len(bs) : i > period =>
                 Mfi(bs, period)[i] = Strength(Total(Window(Ups(bs), i, period)),
                                               Total(Window(Downs(bs), i, period)))
<1> DEFINE n == Len(bs)
           e == Mfi(bs, period)
           u == Ups(bs)
           v == Downs(bs)
           first == period + 1
<1>1. n \in Nat /\ DOMAIN bs = 1 .. n /\ first \in Nat /\ first > 0
    OBVIOUS
<1>2. e = [i \in 1 .. n |-> IF i <= period THEN NaN
                            ELSE Strength(Total(Window(u, i, period)), Total(Window(v, i, period)))]
    BY <1>1 DEF Mfi, Ups, Downs, Flow
<1>3. u \in Seq(NotNegative) /\ Len(u) = n /\ v \in Seq(NotNegative) /\ Len(v) = n
    BY UpsAre
<1> HIDE DEF e, n, u, v
<1>4. ASSUME NEW i \in 1 .. n
      PROVE  IF i < first THEN e[i] = NaN
             ELSE /\ e[i] \in Fraction /\ AtMost(Zero, e[i]) /\ AtMost(e[i], Hundred)
                  /\ e[i] = Strength(Total(Window(u, i, period)), Total(Window(v, i, period)))
    <2>1. CASE i <= period
        BY <1>1, <1>2, <2>1
    <2>2. CASE ~(i <= period)
        <3>1. i \in 1 .. Len(u) /\ i \in 1 .. Len(v) /\ period <= i
            BY <1>1, <1>3, <2>2
        <3>2. Total(Window(u, i, period)) \in NotNegative /\ Total(Window(v, i, period)) \in NotNegative
            BY <1>3, <3>1, WindowNotNegative
        <3>3. e[i] = Strength(Total(Window(u, i, period)), Total(Window(v, i, period)))
            BY <1>2, <2>2
        <3>4. ~(i < first)
            BY <1>1, <2>2
        <3> QED BY <3>2, <3>3, <3>4, StrengthIs
    <2> QED BY <2>1, <2>2
<1>5. e = [i \in 1 .. n |-> e[i]] /\ Zero \in Fraction /\ Hundred \in Fraction
    BY <1>2, ConstantsAre
<1>6. Kept(e, first, Zero, Hundred) /\ Len(e) = n
    <2> HIDE DEF first
    <2> QED BY <1>1, <1>4, <1>5, KeptIs
<1>7. \A i \in 1 .. n : i > period => ~(i < first)
    BY <1>1
<1> QED BY <1>4, <1>6, <1>7 DEF e, n, u, v

LEMMA MfiPart ==
    ASSUME NEW b \in Seq(Candles), NEW c \in Seq(Candles), NEW d, Part(b, c, d),
           NEW period \in Nat, period > 0, NEW i \in 1 .. Len(b), i > period
    PROVE  Mfi(b, period)[i] = Mfi(c, period)[d + i]
<1> DEFINE s == TypicalPrice(b)
           t == TypicalPrice(c)
<1>1. /\ d \in Nat /\ Len(b) \in Nat /\ Len(c) \in Nat /\ Len(b) + d <= Len(c)
      /\ DOMAIN b = 1 .. Len(b) /\ DOMAIN c = 1 .. Len(c)
      /\ \A j \in 1 .. Len(b) : d + j \in 1 .. Len(c) /\ b[j] = c[d + j]
    BY PartIs
<1>2. \A j \in 1 .. Len(b) : s[j] = t[d + j]
    <2>1. Part(s, t, d) /\ Len(s) = Len(b)
        BY TypicalIs, TypicalPart
    <2> QED BY <2>1 DEF Part
<1>3. ASSUME NEW j \in 1 .. Len(b), j > 1
      PROVE  Ups(b)[j] = Ups(c)[d + j] /\ Downs(b)[j] = Downs(c)[d + j]
    <2> DEFINE k == d + j
    <2>1. j - 1 \in 1 .. Len(b) /\ d + (j - 1) = k - 1 /\ k > 1 /\ k \in 1 .. Len(c)
        BY <1>1, <1>3
    <2>2. s[j] = t[k] /\ s[j - 1] = t[k - 1] /\ b[j] = c[k]
        BY <1>1, <1>2, <2>1
    <2> HIDE DEF k
    <2>3. /\ Ups(b)[j] = IF j > 1 /\ Less(s[j - 1], s[j]) THEN Flow(b, j) ELSE Zero
          /\ Downs(b)[j] = IF j > 1 /\ Less(s[j], s[j - 1]) THEN Flow(b, j) ELSE Zero
        BY <1>1 DEF Ups, Downs
    <2>4. /\ Ups(c)[k] = IF k > 1 /\ Less(t[k - 1], t[k]) THEN Flow(c, k) ELSE Zero
          /\ Downs(c)[k] = IF k > 1 /\ Less(t[k], t[k - 1]) THEN Flow(c, k) ELSE Zero
        BY <1>1, <2>1 DEF Ups, Downs
    <2>5. Flow(b, j) = Flow(c, k)
        BY <2>2 DEF Flow
    <2>6. Ups(b)[j] = Ups(c)[k] /\ Downs(b)[j] = Downs(c)[k]
        BY <1>3, <2>1, <2>2, <2>3, <2>4, <2>5
    <2> QED BY <2>6 DEF k
<1>4. /\ Ups(b) \in Seq(NotNegative) /\ Ups(c) \in Seq(NotNegative)
      /\ Downs(b) \in Seq(NotNegative) /\ Downs(c) \in Seq(NotNegative)
      /\ Len(Ups(b)) = Len(b) /\ Len(Ups(c)) = Len(c) /\ Len(Downs(b)) = Len(b) /\ Len(Downs(c)) = Len(c)
    BY UpsAre
<1>5. \A j \in ((i - period) + 1) .. i : j \in 1 .. Len(b) /\ j > 1
    BY <1>1
<1>6. period <= i
    OBVIOUS
<1>7. Window(Ups(b), i, period) = Window(Ups(c), d + i, period)
    <2> DEFINE x == Ups(b)
               y == Ups(c)
    <2>1. /\ x \in Seq(NotNegative) /\ y \in Seq(NotNegative)
          /\ i \in 1 .. Len(x) /\ Len(x) + d <= Len(y) /\ d \in Nat
          /\ \A j \in ((i - period) + 1) .. i : x[j] = y[d + j]
        BY <1>1, <1>3, <1>4, <1>5
    <2> HIDE DEF x, y
    <2>2. Window(x, i, period) = Window(y, d + i, period)
        BY <1>6, <2>1, WindowsPart
    <2> QED BY <2>2 DEF x, y
<1>8. Window(Downs(b), i, period) = Window(Downs(c), d + i, period)
    <2> DEFINE x == Downs(b)
               y == Downs(c)
    <2>1. /\ x \in Seq(NotNegative) /\ y \in Seq(NotNegative)
          /\ i \in 1 .. Len(x) /\ Len(x) + d <= Len(y) /\ d \in Nat
          /\ \A j \in ((i - period) + 1) .. i : x[j] = y[d + j]
        BY <1>1, <1>3, <1>4, <1>5
    <2> HIDE DEF x, y
    <2>2. Window(x, i, period) = Window(y, d + i, period)
        BY <1>6, <2>1, WindowsPart
    <2> QED BY <2>2 DEF x, y
<1> DEFINE k == d + i
<1>9. k \in 1 .. Len(c) /\ k > period
    BY <1>1
<1>10. /\ Mfi(b, period)[i] = Strength(Total(Window(Ups(b), i, period)), Total(Window(Downs(b), i, period)))
       /\ Mfi(c, period)[k] = Strength(Total(Window(Ups(c), k, period)), Total(Window(Downs(c), k, period)))
    <2> HIDE DEF k
    <2> QED BY <1>9, MfiIs
<1> QED BY <1>7, <1>8, <1>10

(* The rate of change.                                                      *)
LEMMA RocIs ==
    ASSUME NEW s \in Seq(Fraction), NEW period \in Nat
    PROVE  /\ Valid(Roc(s, period), period + 1) /\ Len(Roc(s, period)) = Len(s)
           /\ \A i \in 1 .. Len(s) : i > period =>
                 Roc(s, period)[i] =
                    IF s[i - period] = Zero THEN Zero
                    ELSE Times(Over(Minus(s[i], s[i - period]), s[i - period]), Hundred)
<1> DEFINE n == Len(s)
           e == Roc(s, period)
           first == period + 1
           value(i) == IF s[i - period] = Zero THEN Zero
                       ELSE Times(Over(Minus(s[i], s[i - period]), s[i - period]), Hundred)
<1>1. n \in Nat /\ DOMAIN s = 1 .. n /\ first \in Nat /\ \A i \in 1 .. n : s[i] \in Fraction
    OBVIOUS
<1>2. e = [i \in 1 .. n |->
              CASE i <= period -> NaN
                [] i > period /\ s[i - period] = Zero -> Zero
                [] OTHER -> Times(Over(Minus(s[i], s[i - period]), s[i - period]), Hundred)]
    BY <1>1 DEF Roc
<1> HIDE DEF e, n
<1>3. ASSUME NEW i \in 1 .. n
      PROVE  IF i < first THEN e[i] = NaN ELSE e[i] \in Fraction /\ e[i] = value(i)
    <2>1. CASE i <= period
        <3>1. ~(i > period)
            BY <1>1, <2>1
        <3> QED BY <1>1, <1>2, <2>1, <3>1
    <2>2. CASE ~(i <= period)
        <3>0. i > period /\ ~(i < first) /\ i - period \in 1 .. n
            BY <1>1, <2>2
        <3> DEFINE x == s[i]
                   y == s[i - period]
        <3>1. x \in Fraction /\ y \in Fraction
            BY <1>1, <3>0
        <3>2. CASE y = Zero
            <4>1. e[i] = Zero
                BY <1>2, <2>2, <3>0, <3>2
            <4> QED BY <3>0, <3>2, <4>1, ConstantsAre
        <3>3. CASE y # Zero
            <4>1. e[i] = Times(Over(Minus(x, y), y), Hundred)
                BY <1>2, <2>2, <3>0, <3>3
            <4> HIDE DEF x, y
            <4>2. Minus(x, y) \in Fraction /\ y[1] # 0 /\ y[1] \in Int
                BY <3>1, <3>3, Closed, PositiveIs, FractionIs
            <4>3. Over(Minus(x, y), y) \in Fraction
                <5>1. CASE y[1] > 0
                    BY <3>1, <4>2, <5>1, OverLaws DEF Positive
                <5>2. CASE y[1] < 0
                    BY <3>1, <4>2, <5>2, OverNegative
                <5> QED BY <4>2, <5>1, <5>2
            <4>4. Times(Over(Minus(x, y), y), Hundred) \in Fraction
                BY <4>3, ConstantsAre, Closed
            <4> QED BY <3>0, <3>3, <4>1, <4>4 DEF x, y
        <3> QED BY <3>2, <3>3
    <2> QED BY <2>1, <2>2
<1>4. e = [i \in 1 .. n |-> e[i]]
    BY <1>2
<1>5. Valid(e, first) /\ Len(e) = n
    <2> HIDE DEF first
    <2> QED BY <1>1, <1>3, <1>4, ValidIs
<1>6. \A i \in 1 .. n : i > period => ~(i < first)
    BY <1>1
<1> QED BY <1>3, <1>5, <1>6 DEF e, n

LEMMA RocPart ==
    ASSUME NEW s \in Seq(Fraction), NEW t \in Seq(Fraction), NEW d, Part(s, t, d),
           NEW period \in Nat, NEW i \in 1 .. Len(s), i > period
    PROVE  Roc(s, period)[i] = Roc(t, period)[d + i]
<1> DEFINE k == d + i
<1>1. /\ d \in Nat /\ k \in 1 .. Len(t) /\ k > period /\ i - period \in 1 .. Len(s)
      /\ d + (i - period) = k - period
      /\ \A j \in 1 .. Len(s) : s[j] = t[d + j]
    BY PartIs
<1>2. s[i] = t[k] /\ s[i - period] = t[k - period]
    BY <1>1
<1> HIDE DEF k
<1>3. /\ Roc(s, period)[i] = IF s[i - period] = Zero THEN Zero
              ELSE Times(Over(Minus(s[i], s[i - period]), s[i - period]), Hundred)
      /\ Roc(t, period)[k] = IF t[k - period] = Zero THEN Zero
              ELSE Times(Over(Minus(t[k], t[k - period]), t[k - period]), Hundred)
    BY <1>1, RocIs
<1>4. Roc(s, period)[i] = Roc(t, period)[k]
    BY <1>2, <1>3
<1> QED BY <1>4 DEF k

(* The average price, weighted by volume.                                   *)
LEMMA TotalTimes ==
    ASSUME NEW s \in Seq(Fraction), NEW x \in Fraction, NEW t \in Seq(Fraction), Len(t) = Len(s),
           \A i \in 1 .. Len(s) : t[i] = Times(x, s[i])
    PROVE  Total(t) = Times(x, Total(s))
<1> DEFINE n == Len(s)
<1>1. n \in Nat /\ \A i \in 1 .. n : s[i] \in Fraction /\ t[i] = Times(x, s[i])
    OBVIOUS
<1>2. PICK f : Upto(f, s) /\ Total(s) = f[n]
    BY TotalsAre
<1>3. PICK g : Upto(g, t) /\ Total(t) = g[n]
    BY TotalsAre
<1>4. /\ f \in [0 .. n -> Fraction] /\ f[0] = Zero /\ \A i \in 1 .. n : f[i] = Plus(f[i - 1], s[i])
      /\ g[0] = Zero /\ \A i \in 1 .. n : g[i] = Plus(g[i - 1], t[i])
    BY <1>2, <1>3 DEF Upto
<1> HIDE DEF n
<1> DEFINE T == {i \in 0 .. n : g[i] = Times(x, f[i])}
<1>5. 0 <= n => 0 \in T
    BY <1>1, <1>4, ConstantsAre, TimesLaws
<1>6. \A i \in (0 + 1) .. n : i - 1 \in T => i \in T
    <2> SUFFICES ASSUME NEW i \in (0 + 1) .. n, i - 1 \in T PROVE i \in T
        OBVIOUS
    <2>1. i \in 1 .. n /\ i \in 0 .. n /\ i - 1 \in 0 .. n
        BY <1>1
    <2>2. f[i - 1] \in Fraction /\ s[i] \in Fraction
        BY <1>1, <1>4, <2>1
    <2>3. g[i - 1] = Times(x, f[i - 1]) /\ g[i] = Plus(g[i - 1], Times(x, s[i])) /\ f[i] = Plus(f[i - 1], s[i])
        BY <1>1, <1>4, <2>1
    <2>4. Times(x, Plus(f[i - 1], s[i])) = Plus(Times(x, f[i - 1]), Times(x, s[i]))
        <3>1. Times(Plus(f[i - 1], s[i]), x) = Plus(Times(f[i - 1], x), Times(s[i], x))
            BY <2>2, TimesAssociates
        <3>2. /\ Times(Plus(f[i - 1], s[i]), x) = Times(x, Plus(f[i - 1], s[i]))
              /\ Times(f[i - 1], x) = Times(x, f[i - 1]) /\ Times(s[i], x) = Times(x, s[i])
            BY <2>2, Closed, TimesLaws
        <3> QED BY <3>1, <3>2
    <2> QED BY <2>1, <2>3, <2>4
<1>7. n \in T
    <2> HIDE DEF T
    <2>1. \A i \in 0 .. n : i \in T
        BY <1>1, <1>5, <1>6, Steps
    <2> QED BY <1>1, <2>1
<1> QED BY <1>2, <1>3, <1>7

(* A weighted mean is between what its members are between.                 *)
LEMMA WeightedBetween ==
    ASSUME NEW s \in Seq(Fraction), NEW w \in Seq(NotNegative), Len(w) = Len(s),
           NEW t \in Seq(Fraction), Len(t) = Len(s),
           \A i \in 1 .. Len(s) : t[i] = Times(s[i], w[i]),
           NEW lo \in Fraction, NEW hi \in Fraction,
           \A i \in 1 .. Len(s) : AtMost(lo, s[i]) /\ AtMost(s[i], hi),
           Total(w) # Zero
    PROVE  LET z == Over(Total(t), Total(w))
           IN z \in Fraction /\ AtMost(lo, z) /\ AtMost(z, hi)
<1> DEFINE n == Len(s)
           lows == [i \in 1 .. n |-> Times(lo, w[i])]
           highs == [i \in 1 .. n |-> Times(hi, w[i])]
<1>1. /\ n \in Nat
      /\ \A i \in 1 .. n : s[i] \in Fraction /\ w[i] \in NotNegative /\ w[i] \in Fraction
                           /\ t[i] = Times(s[i], w[i])
    BY DEF NotNegative
<1>2. Total(w) \in Positive
    BY TotalNotNegative, NotNegatives
<1>3. w \in Seq(Fraction) /\ Total(t) \in Fraction
    BY NotNegativeSeq, TotalOfFractions
<1>4. lows \in [1 .. n -> Fraction] /\ highs \in [1 .. n -> Fraction]
    BY <1>1, Closed
<1>5. lows \in Seq(Fraction) /\ Len(lows) = n /\ highs \in Seq(Fraction) /\ Len(highs) = n
    <2> HIDE DEF lows, highs, n
    <2> QED BY <1>1, <1>4, Tabled
<1>6. \A i \in 1 .. n : lows[i] = Times(lo, w[i]) /\ highs[i] = Times(hi, w[i])
    OBVIOUS
<1>7. ASSUME NEW i \in 1 .. n
      PROVE  AtMost(lows[i], t[i]) /\ AtMost(t[i], highs[i])
    <2> DEFINE x == s[i]
               y == w[i]
    <2>1. x \in Fraction /\ y \in Fraction /\ AtMost(Zero, y) /\ AtMost(lo, x) /\ AtMost(x, hi)
        BY <1>1 DEF NotNegative
    <2> HIDE DEF x, y
    <2>2. AtMost(Times(lo, y), Times(x, y)) /\ AtMost(Times(x, y), Times(hi, y))
        BY <2>1, OrderMultiplies
    <2> QED BY <1>1, <1>6, <2>2 DEF x, y
<1> HIDE DEF n, lows, highs
<1>8. Len(w) = n /\ Len(t) = n
    BY DEF n
<1>9. Total(lows) = Times(lo, Total(w)) /\ Total(highs) = Times(hi, Total(w))
    <2>1. Len(lows) = Len(w) /\ Len(highs) = Len(w)
          /\ (\A i \in 1 .. Len(w) : lows[i] = Times(lo, w[i]))
          /\ (\A i \in 1 .. Len(w) : highs[i] = Times(hi, w[i]))
        BY <1>5, <1>6, <1>8
    <2> QED BY <1>3, <1>5, <2>1, TotalTimes
<1>10. AtMost(Total(lows), Total(t)) /\ AtMost(Total(t), Total(highs))
    <2>1. Len(lows) = Len(t) /\ Len(t) = Len(highs)
          /\ (\A i \in 1 .. Len(lows) : AtMost(lows[i], t[i]))
          /\ (\A i \in 1 .. Len(t) : AtMost(t[i], highs[i]))
        BY <1>5, <1>7, <1>8
    <2>2. AtMost(Total(lows), Total(t))
        BY <1>5, <2>1, TotalLess
    <2>3. AtMost(Total(t), Total(highs))
        BY <1>5, <2>1, TotalLess
    <2> QED BY <2>2, <2>3
<1>11. AtMost(lo, Over(Total(t), Total(w))) /\ AtMost(Over(Total(t), Total(w)), hi)
    BY <1>2, <1>3, <1>9, <1>10, OrderDivides
<1>12. Over(Total(t), Total(w)) \in Fraction
    BY <1>2, <1>3, OverLaws
<1> QED BY <1>11, <1>12

Traded(bs, period, i) == Total(Window(Volumes(bs), i, period))
Worth(bs, period, i) ==
    Total([j \in 1 .. period |-> Times(Window(TypicalPrice(bs), i, period)[j],
                                       Window(Volumes(bs), i, period)[j])])

LEMMA VwapIs ==
    ASSUME NEW bs \in Seq(Candles), NEW period \in Nat, period > 0,
           NEW lo \in Fraction, NEW hi \in Fraction,
           \A i \in 1 .. Len(bs) : AtMost(lo, TypicalPrice(bs)[i]) /\ AtMost(TypicalPrice(bs)[i], hi)
    PROVE  /\ Kept(Vwap(bs, period), period, lo, hi) /\ Len(Vwap(bs, period)) = Len(bs)
           /\ \A i \in 1 .. Len(bs) : i >= period =>
                 Vwap(bs, period)[i] =
                    IF Traded(bs, period, i) = Zero THEN TypicalPrice(bs)[i]
                    ELSE Over(Worth(bs, period, i), Traded(bs, period, i))
<1> DEFINE n == Len(bs)
           e == Vwap(bs, period)
           tp == TypicalPrice(bs)
           volume == Volumes(bs)
           value(i) == IF Traded(bs, period, i) = Zero THEN tp[i]
                       ELSE Over(Worth(bs, period, i), Traded(bs, period, i))
<1>1. n \in Nat /\ DOMAIN bs = 1 .. n
    OBVIOUS
<1>2. e = [i \in 1 .. n |->
              CASE i < period -> NaN
                [] i >= period /\ Traded(bs, period, i) = Zero -> tp[i]
                [] OTHER -> Over(Worth(bs, period, i), Traded(bs, period, i))]
    BY <1>1 DEF Vwap, Traded, Worth
<1>3. /\ tp \in Seq(Fraction) /\ Len(tp) = n /\ volume \in Seq(NotNegative) /\ Len(volume) = n
      /\ \A i \in 1 .. n : tp[i] \in Fraction /\ AtMost(lo, tp[i]) /\ AtMost(tp[i], hi)
    <2>1. tp \in Seq(Fraction) /\ Len(tp) = n
        BY TypicalIs
    <2>2. volume \in Seq(NotNegative) /\ Len(volume) = n
        BY PricesAre
    <2> QED BY <2>1, <2>2
<1>4. \A i \in 1 .. n : Traded(bs, period, i) = Total(Window(volume, i, period))
                        /\ Worth(bs, period, i) = Total([j \in 1 .. period |->
                              Times(Window(tp, i, period)[j], Window(volume, i, period)[j])])
    BY DEF Traded, Worth
<1> HIDE DEF e, n, tp, volume
<1>5. ASSUME NEW i \in 1 .. n, i >= period, Traded(bs, period, i) # Zero
      PROVE  LET z == Over(Worth(bs, period, i), Traded(bs, period, i))
             IN z \in Fraction /\ AtMost(lo, z) /\ AtMost(z, hi)
    <2> DEFINE x == Window(tp, i, period)
               y == Window(volume, i, period)
               t == [j \in 1 .. period |-> Times(x[j], y[j])]
    <2>1. i \in 1 .. Len(tp) /\ i \in 1 .. Len(volume) /\ period <= i
        BY <1>3, <1>5
    <2>2. x \in Seq(Fraction) /\ Len(x) = period /\ \A j \in 1 .. period : x[j] = tp[(i - period) + j]
        BY <1>3, <2>1, WindowIs
    <2>3. y \in Seq(NotNegative) /\ Len(y) = period
        BY <1>3, <2>1, WindowIs
    <2>4. \A j \in 1 .. period : (i - period) + j \in 1 .. n
        BY <1>1, <1>3, <2>1
    <2> HIDE DEF x, y
    <2>5. \A j \in 1 .. period : x[j] \in Fraction /\ y[j] \in Fraction
        BY <2>2, <2>3 DEF NotNegative
    <2>6. t \in [1 .. period -> Fraction] /\ \A j \in 1 .. period : t[j] = Times(x[j], y[j])
        BY <2>5, Closed
    <2> HIDE DEF t
    <2>7. t \in Seq(Fraction) /\ Len(t) = period
        BY <2>6, Tabled
    <2>8. \A j \in 1 .. period : AtMost(lo, x[j]) /\ AtMost(x[j], hi)
        BY <1>3, <2>2, <2>4
    <2>9. Total(y) # Zero
        BY <1>4, <1>5 DEF y
    <2>10. LET z == Over(Total(t), Total(y)) IN z \in Fraction /\ AtMost(lo, z) /\ AtMost(z, hi)
        BY <2>2, <2>3, <2>6, <2>7, <2>8, <2>9, WeightedBetween
    <2> QED BY <1>4, <2>10 DEF t, x, y
<1>6. ASSUME NEW i \in 1 .. n
      PROVE  IF i < period THEN e[i] = NaN
             ELSE e[i] \in Fraction /\ AtMost(lo, e[i]) /\ AtMost(e[i], hi) /\ e[i] = value(i)
    <2>1. CASE i < period
        <3>1. ~(i >= period)
            BY <1>1, <2>1
        <3> QED BY <1>2, <2>1, <3>1
    <2>2. CASE ~(i < period)
        <3>0. i >= period
            BY <1>1, <2>2
        <3>1. CASE Traded(bs, period, i) = Zero
            <4>1. e[i] = tp[i]
                BY <1>2, <2>2, <3>0, <3>1
            <4> QED BY <1>3, <2>2, <3>1, <4>1
        <3>2. CASE Traded(bs, period, i) # Zero
            <4>1. e[i] = Over(Worth(bs, period, i), Traded(bs, period, i))
                BY <1>2, <2>2, <3>0, <3>2
            <4> QED BY <1>5, <2>2, <3>0, <3>2, <4>1
        <3> QED BY <3>1, <3>2
    <2> QED BY <2>1, <2>2
<1>7. e = [i \in 1 .. n |-> e[i]]
    BY <1>2
<1>8. Kept(e, period, lo, hi) /\ Len(e) = n
    BY <1>1, <1>6, <1>7, KeptIs
<1>9. \A i \in 1 .. n : i >= period => ~(i < period)
    BY <1>1
<1> QED BY <1>6, <1>8, <1>9 DEF e, n, tp

LEMMA TabledLength ==
    \A n \in Nat : \A f : f = [i \in 1 .. n |-> f[i]] => Len(f) = n
OBVIOUS

LEMMA WindowPart ==
    ASSUME NEW W, NEW s \in Seq(W), NEW t \in Seq(W), NEW d, Part(s, t, d),
           NEW i \in 1 .. Len(s), NEW period \in Nat, period <= i
    PROVE  Window(s, i, period) = Window(t, d + i, period)
<1>1. /\ d \in Nat /\ Len(s) \in Nat /\ Len(s) + d <= Len(t)
      /\ \A j \in 1 .. Len(s) : s[j] = t[d + j]
    BY PartIs
<1>2. \A j \in ((i - period) + 1) .. i : s[j] = t[d + j]
    BY <1>1
<1> QED BY <1>1, <1>2, WindowsPart

LEMMA TypicalBounds ==
    ASSUME NEW bs \in Seq(Candles)
    PROVE  \E lo \in Fraction, hi \in Fraction :
              \A i \in 1 .. Len(bs) : AtMost(lo, TypicalPrice(bs)[i]) /\ AtMost(TypicalPrice(bs)[i], hi)
<1>1. TypicalPrice(bs) \in Seq(Fraction) /\ Len(TypicalPrice(bs)) = Len(bs)
    BY TypicalIs
<1> QED BY <1>1, FractionBounds

LEMMA VwapPart ==
    ASSUME NEW b \in Seq(Candles), NEW c \in Seq(Candles), NEW d, Part(b, c, d),
           NEW period \in Nat, period > 0, NEW i \in 1 .. Len(b), i >= period
    PROVE  Vwap(b, period)[i] = Vwap(c, period)[d + i]
<1> DEFINE k == d + i
<1>1. /\ d \in Nat /\ Len(b) \in Nat /\ Len(c) \in Nat /\ Len(b) + d <= Len(c)
      /\ k \in 1 .. Len(c) /\ k >= period
    BY PartIs
<1> HIDE DEF k
<1>2. \A x \in {b, c} : \A j \in 1 .. Len(x) : j >= period =>
          Vwap(x, period)[j] = IF Traded(x, period, j) = Zero THEN TypicalPrice(x)[j]
                               ELSE Over(Worth(x, period, j), Traded(x, period, j))
    <2> SUFFICES ASSUME NEW x \in {b, c}, NEW j \in 1 .. Len(x), j >= period
                 PROVE  Vwap(x, period)[j] = IF Traded(x, period, j) = Zero THEN TypicalPrice(x)[j]
                                             ELSE Over(Worth(x, period, j), Traded(x, period, j))
        OBVIOUS
    <2>1. x \in Seq(Candles)
        OBVIOUS
    <2>2. PICK lo \in Fraction : \E hi \in Fraction :
              \A m \in 1 .. Len(x) : AtMost(lo, TypicalPrice(x)[m]) /\ AtMost(TypicalPrice(x)[m], hi)
        BY <2>1, TypicalBounds
    <2>3. PICK hi \in Fraction :
              \A m \in 1 .. Len(x) : AtMost(lo, TypicalPrice(x)[m]) /\ AtMost(TypicalPrice(x)[m], hi)
        BY <2>2
    <2> QED BY <2>1, <2>3, VwapIs
<1>3. Part(TypicalPrice(b), TypicalPrice(c), d) /\ Part(Volumes(b), Volumes(c), d)
    BY TypicalPart, PricesPart
<1>4. /\ TypicalPrice(b) \in Seq(Fraction) /\ TypicalPrice(c) \in Seq(Fraction)
      /\ Volumes(b) \in Seq(Fraction) /\ Volumes(c) \in Seq(Fraction)
      /\ Len(TypicalPrice(b)) = Len(b) /\ Len(Volumes(b)) = Len(b)
    BY TypicalIs, PricesAre, NotNegativeSeq
<1>5. Window(TypicalPrice(b), i, period) = Window(TypicalPrice(c), d + i, period)
    <2> DEFINE x == TypicalPrice(b)
               y == TypicalPrice(c)
    <2>1. x \in Seq(Fraction) /\ y \in Seq(Fraction) /\ Len(x) = Len(b) /\ Part(x, y, d)
        BY <1>3, <1>4
    <2> HIDE DEF x, y
    <2>2. Window(x, i, period) = Window(y, d + i, period)
        BY <2>1, WindowPart
    <2> QED BY <2>2 DEF x, y
<1>6. Window(Volumes(b), i, period) = Window(Volumes(c), d + i, period)
    <2> DEFINE x == Volumes(b)
               y == Volumes(c)
    <2>1. x \in Seq(Fraction) /\ y \in Seq(Fraction) /\ Len(x) = Len(b) /\ Part(x, y, d)
        BY <1>3, <1>4
    <2> HIDE DEF x, y
    <2>2. Window(x, i, period) = Window(y, d + i, period)
        BY <2>1, WindowPart
    <2> QED BY <2>2 DEF x, y
<1>7. Traded(b, period, i) = Traded(c, period, k) /\ Worth(b, period, i) = Worth(c, period, k)
    BY <1>5, <1>6 DEF Traded, Worth, k
<1>8. TypicalPrice(b)[i] = TypicalPrice(c)[k]
    BY <1>3, <1>4 DEF Part, k
<1>9. Vwap(b, period)[i] = Vwap(c, period)[k]
    BY <1>1, <1>2, <1>7, <1>8
<1> QED BY <1>9 DEF k

(* The channel around a middle line.                                        *)
LEMMA ChannelIs ==
    ASSUME NEW x \in Seq(Numbers), NEW y \in Seq(Numbers), Len(x) = Len(y),
           NEW a \in Nat, NEW b \in Nat, Valid(x, a), Valid(y, b), NEW z \in Fraction
    PROVE  /\ Valid(Above(x, y, z), LargerOf(a, b)) /\ Len(Above(x, y, z)) = Len(x)
           /\ Valid(Below(x, y, z), LargerOf(a, b)) /\ Len(Below(x, y, z)) = Len(x)
<1> DEFINE n == Len(x)
           e == Above(x, y, z)
           f == Below(x, y, z)
<1>1. n \in Nat /\ DOMAIN x = 1 .. n /\ z \in Numbers
    BY FractionIs
<1>2. e = [i \in 1 .. n |-> Plus(x[i], Times(y[i], z))] /\ f = [i \in 1 .. n |-> Minus(x[i], Times(y[i], z))]
    BY <1>1 DEF Above, Below
<1>3. /\ \A i \in 1 .. n : IF i < a THEN x[i] = NaN ELSE x[i] \in Fraction
      /\ \A i \in 1 .. n : IF i < b THEN y[i] = NaN ELSE y[i] \in Fraction
      /\ \A i \in 1 .. n : x[i] \in Numbers /\ y[i] \in Numbers
    BY DEF Valid
<1> HIDE DEF e, f, n
<1>4. LargerOf(a, b) \in Nat /\ \A i \in Int : i < LargerOf(a, b) <=> i < a \/ i < b
    BY LargerOfIs
<1>5. ASSUME NEW i \in 1 .. n
      PROVE  /\ IF i < LargerOf(a, b) THEN e[i] = NaN ELSE e[i] \in Fraction
             /\ IF i < LargerOf(a, b) THEN f[i] = NaN ELSE f[i] \in Fraction
    <2>1. e[i] = Plus(x[i], Times(y[i], z)) /\ f[i] = Minus(x[i], Times(y[i], z))
        BY <1>2
    <2>2. x[i] \in Numbers /\ y[i] \in Numbers /\ Times(y[i], z) \in Numbers /\ i \in Int
        BY <1>1, <1>3, NumbersClosed
    <2>3. CASE i < LargerOf(a, b)
        <3>1. i < a \/ i < b
            BY <1>4, <2>2, <2>3
        <3>2. IsNaN(x[i]) \/ IsNaN(Times(y[i], z))
            <4>1. i < a => x[i] = NaN
                BY <1>3
            <4>2. i < b => y[i] = NaN
                BY <1>3
            <4>3. IsNaN(y[i]) => Times(y[i], z) = NaN
                BY <1>1, <2>2, NumbersClosed
            <4> QED BY <3>1, <4>1, <4>2, <4>3, NaNIs
        <3>3. e[i] = NaN /\ f[i] = NaN
            BY <2>1, <2>2, <3>2, NumbersClosed
        <3> QED BY <2>3, <3>3
    <2>4. CASE ~(i < LargerOf(a, b))
        <3>1. ~(i < a) /\ ~(i < b)
            BY <1>4, <2>2, <2>4
        <3>2. x[i] \in Fraction /\ y[i] \in Fraction
            BY <1>3, <3>1
        <3>3. Times(y[i], z) \in Fraction
            BY <3>2, Closed
        <3>4. e[i] \in Fraction /\ f[i] \in Fraction
            BY <2>1, <3>2, <3>3, Closed
        <3> QED BY <2>4, <3>4
    <2> QED BY <2>3, <2>4
<1>6. e = [i \in 1 .. n |-> e[i]] /\ f = [i \in 1 .. n |-> f[i]]
    BY <1>2
<1>7. Valid(e, LargerOf(a, b)) /\ Len(e) = n
    BY <1>1, <1>4, <1>5, <1>6, ValidIs
<1>8. Valid(f, LargerOf(a, b)) /\ Len(f) = n
    BY <1>1, <1>4, <1>5, <1>6, ValidIs
<1> QED BY <1>7, <1>8 DEF e, f, n

LEMMA ChannelBegins ==
    ASSUME NEW s \in Seq(Numbers), NEW t \in Seq(Numbers), Begins(s, t),
           NEW x \in Seq(Numbers), NEW y \in Seq(Numbers), Begins(x, y),
           Len(x) = Len(s), Len(y) = Len(t), NEW z
    PROVE  Begins(Above(s, x, z), Above(t, y, z)) /\ Begins(Below(s, x, z), Below(t, y, z))
<1>1. /\ Len(s) \in Nat /\ Len(t) \in Nat /\ Len(s) <= Len(t)
      /\ DOMAIN s = 1 .. Len(s) /\ DOMAIN t = 1 .. Len(t)
      /\ \A i \in 1 .. Len(s) : i \in 1 .. Len(t) /\ s[i] = t[i] /\ x[i] = y[i]
    BY DEF Begins
<1>2. /\ Above(s, x, z) = [i \in 1 .. Len(s) |-> Plus(s[i], Times(x[i], z))]
      /\ Above(t, y, z) = [i \in 1 .. Len(t) |-> Plus(t[i], Times(y[i], z))]
      /\ Below(s, x, z) = [i \in 1 .. Len(s) |-> Minus(s[i], Times(x[i], z))]
      /\ Below(t, y, z) = [i \in 1 .. Len(t) |-> Minus(t[i], Times(y[i], z))]
    BY <1>1 DEF Above, Below
<1>3. /\ Len(Above(s, x, z)) = Len(s) /\ Len(Above(t, y, z)) = Len(t)
      /\ Len(Below(s, x, z)) = Len(s) /\ Len(Below(t, y, z)) = Len(t)
    BY <1>1, <1>2, TabledLength
<1>4. \A i \in 1 .. Len(s) : Above(s, x, z)[i] = Above(t, y, z)[i] /\ Below(s, x, z)[i] = Below(t, y, z)[i]
    BY <1>1, <1>2
<1> QED BY <1>1, <1>3, <1>4 DEF Begins

(* The middle of the range of a window.                                     *)
LEMMA HalfBetween ==
    ASSUME NEW x \in Fraction, NEW y \in Fraction, NEW lo \in Fraction, NEW hi \in Fraction,
           AtMost(lo, x), AtMost(x, hi), AtMost(lo, y), AtMost(y, hi)
    PROVE  LET z == Over(Plus(x, y), Whole(2))
           IN z \in Fraction /\ AtMost(lo, z) /\ AtMost(z, hi)
<1>1. Whole(2) \in Positive /\ Whole(1) = One
    BY WholesAre DEF One
<1>2. \A v \in Fraction : Times(v, Whole(2)) = Plus(v, v)
    <2> SUFFICES ASSUME NEW v \in Fraction PROVE Times(v, Whole(2)) = Plus(v, v)
        OBVIOUS
    <2>1. 2 \in Nat /\ 2 > 0 /\ 2 - 1 = 1
        OBVIOUS
    <2>2. Times(v, Whole(2)) = Plus(Times(v, Whole(2 - 1)), v)
        BY <2>1, TimesNext
    <2>3. Times(v, One) = v
        BY ConstantsAre, TimesLaws
    <2> QED BY <1>1, <2>1, <2>2, <2>3
<1>3. Plus(x, y) \in Fraction
    BY Closed
<1>4. AtMost(Plus(lo, lo), Plus(x, y)) /\ AtMost(Plus(x, y), Plus(hi, hi))
    BY OrderAddsBoth
<1>5. AtMost(Times(lo, Whole(2)), Plus(x, y)) /\ AtMost(Plus(x, y), Times(hi, Whole(2)))
    BY <1>2, <1>4
<1> QED BY <1>1, <1>3, <1>5, OrderDivides, OverLaws

LEMMA MidpointIs ==
    ASSUME NEW bs \in Seq(Candles), NEW period \in Nat, period > 0,
           NEW lo \in Fraction, NEW hi \in Fraction,
           \A i \in 1 .. Len(bs) : AtMost(lo, Lows(bs)[i]) /\ AtMost(Highs(bs)[i], hi)
    PROVE  /\ Kept(Midpoint(bs, period), period, lo, hi) /\ Len(Midpoint(bs, period)) = Len(bs)
<1> DEFINE n == Len(bs)
           e == Midpoint(bs, period)
           h == Highs(bs)
           l == Lows(bs)
<1>1. n \in Nat /\ DOMAIN bs = 1 .. n
    OBVIOUS
<1>2. e = [i \in 1 .. n |-> IF i < period THEN NaN
                            ELSE Over(Plus(Highest(Window(h, i, period)), Lowest(Window(l, i, period))), Whole(2))]
    BY <1>1 DEF Midpoint
<1>3. /\ h \in Seq(Fraction) /\ Len(h) = n /\ l \in Seq(Fraction) /\ Len(l) = n
    BY PricesAre, NotNegativeSeq
<1>4. \A i \in 1 .. n : /\ h[i] \in Fraction /\ l[i] \in Fraction /\ AtMost(lo, l[i]) /\ AtMost(l[i], hi)
                        /\ AtMost(lo, h[i]) /\ AtMost(h[i], hi)
    <2> SUFFICES ASSUME NEW i \in 1 .. n
                 PROVE  /\ h[i] \in Fraction /\ l[i] \in Fraction /\ AtMost(lo, l[i]) /\ AtMost(l[i], hi)
                        /\ AtMost(lo, h[i]) /\ AtMost(h[i], hi)
        OBVIOUS
    <2>1. h[i] \in Fraction /\ l[i] \in Fraction /\ AtMost(l[i], h[i])
        BY PricesOf
    <2>2. AtMost(lo, l[i]) /\ AtMost(h[i], hi)
        OBVIOUS
    <2> QED BY <2>1, <2>2, OrderPasses
<1> HIDE DEF e, n, h, l
<1>5. ASSUME NEW i \in 1 .. n
      PROVE  IF i < period THEN e[i] = NaN
             ELSE e[i] \in Fraction /\ AtMost(lo, e[i]) /\ AtMost(e[i], hi)
    <2>1. CASE i < period
        BY <1>2, <2>1
    <2>2. CASE ~(i < period)
        <3> DEFINE x == Window(h, i, period)
                   y == Window(l, i, period)
        <3>1. i \in 1 .. Len(h) /\ i \in 1 .. Len(l) /\ period <= i
            BY <1>1, <1>3, <2>2
        <3>2. x \in Seq(Fraction) /\ Len(x) = period /\ \A j \in 1 .. period : x[j] = h[(i - period) + j]
            BY <1>3, <3>1, WindowIs
        <3>3. y \in Seq(Fraction) /\ Len(y) = period /\ \A j \in 1 .. period : y[j] = l[(i - period) + j]
            BY <1>3, <3>1, WindowIs
        <3>4. \A j \in 1 .. period : (i - period) + j \in 1 .. n
            BY <1>1, <3>1
        <3> HIDE DEF x, y
        <3>5. PICK j \in 1 .. period : Highest(x) = x[j]
            BY <3>2, HighestIs
        <3>6. PICK k \in 1 .. period : Lowest(y) = y[k]
            BY <3>3, HighestIs
        <3>7. Highest(x) \in Fraction /\ AtMost(lo, Highest(x)) /\ AtMost(Highest(x), hi)
            BY <1>4, <3>2, <3>4, <3>5
        <3>8. Lowest(y) \in Fraction /\ AtMost(lo, Lowest(y)) /\ AtMost(Lowest(y), hi)
            BY <1>4, <3>3, <3>4, <3>6
        <3>9. e[i] = Over(Plus(Highest(x), Lowest(y)), Whole(2))
            BY <1>2, <2>2 DEF x, y
        <3> QED BY <2>2, <3>7, <3>8, <3>9, HalfBetween
    <2> QED BY <2>1, <2>2
<1>6. e = [i \in 1 .. n |-> e[i]]
    BY <1>2
<1>7. Kept(e, period, lo, hi) /\ Len(e) = n
    BY <1>1, <1>5, <1>6, KeptIs
<1> QED BY <1>7 DEF e, n

LEMMA BeginsFrom ==
    ASSUME NEW first \in Nat, NEW s, NEW t, Valid(s, first), Valid(t, first), Len(s) <= Len(t),
           \A i \in 1 .. Len(s) : i >= first => s[i] = t[0 + i]
    PROVE  Begins(s, t)
<1>1. s \in Seq(Numbers) /\ t \in Seq(Numbers) /\ Len(s) \in Nat /\ Len(t) \in Nat
    BY DEF Valid
<1>2. ASSUME NEW i \in 1 .. Len(s)
      PROVE  s[i] = t[i]
    <2>1. i \in 1 .. Len(t) /\ 0 + i = i
        BY <1>1
    <2>2. CASE i < first
        BY <2>1, <2>2 DEF Valid
    <2>3. CASE ~(i < first)
        <3>1. i >= first
            BY <1>1, <2>3
        <3> QED BY <2>1, <3>1
    <2> QED BY <2>2, <2>3
<1> QED BY <1>2 DEF Begins

LEMMA CandlesBegin ==
    ASSUME NEW b \in Seq(Candles), NEW c \in Seq(Candles), Begins(b, c)
    PROVE  /\ Part(b, c, 0) /\ Len(b) \in Nat /\ Len(c) \in Nat /\ Len(b) <= Len(c)
           /\ Closes(b) \in Seq(Fraction) /\ Closes(c) \in Seq(Fraction)
           /\ Volumes(b) \in Seq(Fraction) /\ Volumes(c) \in Seq(Fraction)
           /\ Len(Closes(b)) = Len(b) /\ Len(Closes(c)) = Len(c)
           /\ Len(Volumes(b)) = Len(b) /\ Len(Volumes(c)) = Len(c)
           /\ Begins(Closes(b), Closes(c)) /\ Begins(Volumes(b), Volumes(c))
<1>1. Part(b, c, 0) /\ Len(b) \in Nat /\ Len(c) \in Nat /\ Len(b) <= Len(c)
    BY BeginsPart DEF Begins
<1> QED BY <1>1, PricesAre, NotNegativeSeq, PricesBegin

LEMMA WindowedBegin ==
    ASSUME NEW b \in Seq(Candles), NEW c \in Seq(Candles), Begins(b, c),
           NEW period \in Nat, period > 0
    PROVE  /\ Begins(WilliamsR(b, period), WilliamsR(c, period))
           /\ Begins(Cci(b, period), Cci(c, period))
           /\ Begins(Mfi(b, period), Mfi(c, period))
           /\ Begins(Vwap(b, period), Vwap(c, period))
<1>1. Part(b, c, 0) /\ Len(b) \in Nat /\ Len(c) \in Nat /\ Len(b) <= Len(c)
    BY CandlesBegin
<1>2. Begins(WilliamsR(b, period), WilliamsR(c, period))
    <2>1. /\ Valid(WilliamsR(b, period), period) /\ Valid(WilliamsR(c, period), period)
          /\ Len(WilliamsR(b, period)) = Len(b) /\ Len(WilliamsR(c, period)) = Len(c)
          /\ \A i \in 1 .. Len(b) : i >= period =>
                WilliamsR(b, period)[i] = Minus(Times(Place(b, i, period), Hundred), Hundred)
          /\ \A i \in 1 .. Len(c) : i >= period =>
                WilliamsR(c, period)[i] = Minus(Times(Place(c, i, period), Hundred), Hundred)
        BY WilliamsIs DEF Kept
    <2>2. \A i \in 1 .. Len(b) : i >= period => WilliamsR(b, period)[i] = WilliamsR(c, period)[0 + i]
        <3> SUFFICES ASSUME NEW i \in 1 .. Len(b), i >= period
                     PROVE  WilliamsR(b, period)[i] = WilliamsR(c, period)[0 + i]
            OBVIOUS
        <3>1. Place(b, i, period) = Place(c, 0 + i, period)
            BY <1>1, PlacePart
        <3>2. 0 + i = i /\ i \in 1 .. Len(c)
            BY <1>1
        <3> QED BY <2>1, <3>1, <3>2
    <2> QED BY <1>1, <2>1, <2>2, BeginsFrom
<1>3. Begins(Cci(b, period), Cci(c, period))
    <2>1. /\ Valid(Cci(b, period), period) /\ Valid(Cci(c, period), period)
          /\ Len(Cci(b, period)) = Len(b) /\ Len(Cci(c, period)) = Len(c)
        BY CciIs
    <2>2. \A i \in 1 .. Len(b) : i >= period => Cci(b, period)[i] = Cci(c, period)[0 + i]
        BY <1>1, CciPart
    <2> QED BY <1>1, <2>1, <2>2, BeginsFrom
<1>4. Begins(Mfi(b, period), Mfi(c, period))
    <2>1. /\ Valid(Mfi(b, period), period + 1) /\ Valid(Mfi(c, period), period + 1)
          /\ Len(Mfi(b, period)) = Len(b) /\ Len(Mfi(c, period)) = Len(c) /\ period + 1 \in Nat
        BY MfiIs DEF Kept
    <2>2. \A i \in 1 .. Len(b) : i > period => Mfi(b, period)[i] = Mfi(c, period)[0 + i]
        BY <1>1, MfiPart
    <2>3. \A i \in 1 .. Len(b) : i >= period + 1 => i > period
        BY <1>1
    <2> QED BY <1>1, <2>1, <2>2, <2>3, BeginsFrom
<1>5. Begins(Vwap(b, period), Vwap(c, period))
    <2>1. \A x \in {b, c} : Valid(Vwap(x, period), period) /\ Len(Vwap(x, period)) = Len(x)
        <3> SUFFICES ASSUME NEW x \in {b, c}
                     PROVE  Valid(Vwap(x, period), period) /\ Len(Vwap(x, period)) = Len(x)
            OBVIOUS
        <3>1. x \in Seq(Candles)
            OBVIOUS
        <3>2. PICK lo \in Fraction : \E hi \in Fraction :
                  \A m \in 1 .. Len(x) : AtMost(lo, TypicalPrice(x)[m]) /\ AtMost(TypicalPrice(x)[m], hi)
            BY <3>1, TypicalBounds
        <3>3. PICK hi \in Fraction :
                  \A m \in 1 .. Len(x) : AtMost(lo, TypicalPrice(x)[m]) /\ AtMost(TypicalPrice(x)[m], hi)
            BY <3>2
        <3> QED BY <3>1, <3>3, VwapIs DEF Kept
    <2>2. \A i \in 1 .. Len(b) : i >= period => Vwap(b, period)[i] = Vwap(c, period)[0 + i]
        BY <1>1, VwapPart
    <2> QED BY <1>1, <2>1, <2>2, BeginsFrom
<1> QED BY <1>2, <1>3, <1>4, <1>5

LEMMA RocBegins ==
    ASSUME NEW s \in Seq(Fraction), NEW t \in Seq(Fraction), Begins(s, t), NEW period \in Nat
    PROVE  Begins(Roc(s, period), Roc(t, period))
<1>1. Part(s, t, 0) /\ Len(s) \in Nat /\ Len(t) \in Nat /\ Len(s) <= Len(t) /\ period + 1 \in Nat
    BY BeginsPart DEF Begins
<1>2. /\ Valid(Roc(s, period), period + 1) /\ Valid(Roc(t, period), period + 1)
      /\ Len(Roc(s, period)) = Len(s) /\ Len(Roc(t, period)) = Len(t)
    BY RocIs
<1>3. \A i \in 1 .. Len(s) : i > period => Roc(s, period)[i] = Roc(t, period)[0 + i]
    BY <1>1, RocPart
<1>4. \A i \in 1 .. Len(s) : i >= period + 1 => i > period
    BY <1>1
<1> QED BY <1>1, <1>2, <1>3, <1>4, BeginsFrom

(* The lines of Ichimoku.                                                   *)
LEMMA PriceBounds ==
    ASSUME NEW bs \in Seq(Candles)
    PROVE  \E lo \in Fraction, hi \in Fraction :
              \A i \in 1 .. Len(bs) : AtMost(lo, Lows(bs)[i]) /\ AtMost(Highs(bs)[i], hi)
<1>1. /\ Lows(bs) \in Seq(Fraction) /\ Highs(bs) \in Seq(Fraction)
      /\ Len(Lows(bs)) = Len(bs) /\ Len(Highs(bs)) = Len(bs)
    BY PricesAre, NotNegativeSeq
<1>2. PICK lo \in Fraction : \E hi \in Fraction : \A i \in 1 .. Len(Lows(bs)) :
            AtMost(lo, Lows(bs)[i]) /\ AtMost(Lows(bs)[i], hi)
    BY <1>1, FractionBounds
<1>3. \E lo2 \in Fraction, hi \in Fraction : \A i \in 1 .. Len(Highs(bs)) :
            AtMost(lo2, Highs(bs)[i]) /\ AtMost(Highs(bs)[i], hi)
    BY <1>1, FractionBounds
<1>4. PICK hi \in Fraction : \A i \in 1 .. Len(Highs(bs)) : AtMost(Highs(bs)[i], hi)
    BY <1>3
<1> QED BY <1>1, <1>2, <1>4

LEMMA MidpointValid ==
    ASSUME NEW bs \in Seq(Candles), NEW period \in Nat, period > 0
    PROVE  Valid(Midpoint(bs, period), period) /\ Len(Midpoint(bs, period)) = Len(bs)
<1>1. PICK lo \in Fraction : \E hi \in Fraction :
           \A i \in 1 .. Len(bs) : AtMost(lo, Lows(bs)[i]) /\ AtMost(Highs(bs)[i], hi)
    BY PriceBounds
<1>2. PICK hi \in Fraction :
           \A i \in 1 .. Len(bs) : AtMost(lo, Lows(bs)[i]) /\ AtMost(Highs(bs)[i], hi)
    BY <1>1
<1> QED BY <1>2, MidpointIs DEF Kept

LEMMA MidpointBegins ==
    ASSUME NEW b \in Seq(Candles), NEW c \in Seq(Candles), Begins(b, c),
           NEW period \in Nat, period > 0
    PROVE  Begins(Midpoint(b, period), Midpoint(c, period))
<1>1. Part(b, c, 0) /\ Len(b) \in Nat /\ Len(c) \in Nat /\ Len(b) <= Len(c)
      /\ DOMAIN b = 1 .. Len(b) /\ DOMAIN c = 1 .. Len(c)
    BY CandlesBegin
<1>2. /\ Valid(Midpoint(b, period), period) /\ Len(Midpoint(b, period)) = Len(b)
      /\ Valid(Midpoint(c, period), period) /\ Len(Midpoint(c, period)) = Len(c)
    BY MidpointValid
<1>3. ASSUME NEW i \in 1 .. Len(b), i >= period
      PROVE  Midpoint(b, period)[i] = Midpoint(c, period)[0 + i]
    <2>1. 0 + i = i /\ i \in 1 .. Len(c) /\ ~(i < period)
        BY <1>1, <1>3
    <2>2. /\ Window(Highs(b), i, period) = Window(Highs(c), i, period)
          /\ Window(Lows(b), i, period) = Window(Lows(c), i, period)
        BY <1>1, <1>3, <2>1, PlacePart
    <2>3. /\ Midpoint(b, period)[i] = Over(Plus(Highest(Window(Highs(b), i, period)),
                                                Lowest(Window(Lows(b), i, period))), Whole(2))
          /\ Midpoint(c, period)[i] = Over(Plus(Highest(Window(Highs(c), i, period)),
                                                Lowest(Window(Lows(c), i, period))), Whole(2))
        BY <1>1, <2>1 DEF Midpoint
    <2> QED BY <2>1, <2>2, <2>3
<1> QED BY <1>1, <1>2, <1>3, BeginsFrom

LEMMA SpanIs ==
    ASSUME NEW x, NEW y, Len(x) = Len(y), NEW a \in Nat, a > 0, NEW b \in Nat, b > 0,
           NEW lo \in Fraction, NEW hi \in Fraction, Kept(x, a, lo, hi), Kept(y, b, lo, hi)
    PROVE  Kept(SpanA(x, y), LargerOf(a, b), lo, hi) /\ Len(SpanA(x, y)) = Len(y)
<1> DEFINE n == Len(y)
           e == SpanA(x, y)
<1>1. /\ x \in Seq(Numbers) /\ y \in Seq(Numbers) /\ n \in Nat /\ DOMAIN y = 1 .. n
    BY DEF Kept, Valid
<1>2. e = [i \in 1 .. n |-> Over(Plus(x[i], y[i]), Whole(2))]
    BY <1>1 DEF SpanA
<1>3. /\ \A i \in 1 .. n : IF i < a THEN x[i] = NaN ELSE x[i] \in Fraction
      /\ \A i \in 1 .. n : IF i < b THEN y[i] = NaN ELSE y[i] \in Fraction
      /\ \A i \in a .. n : AtMost(lo, x[i]) /\ AtMost(x[i], hi)
      /\ \A i \in b .. n : AtMost(lo, y[i]) /\ AtMost(y[i], hi)
      /\ \A i \in 1 .. n : x[i] \in Numbers /\ y[i] \in Numbers
    BY DEF Kept, Valid
<1> HIDE DEF e, n
<1>4. LargerOf(a, b) \in Nat /\ LargerOf(a, b) > 0 /\ \A i \in Int : i < LargerOf(a, b) <=> i < a \/ i < b
    BY LargerOfIs
<1>5. ASSUME NEW i \in 1 .. n
      PROVE  IF i < LargerOf(a, b) THEN e[i] = NaN
             ELSE e[i] \in Fraction /\ AtMost(lo, e[i]) /\ AtMost(e[i], hi)
    <2>1. e[i] = Over(Plus(x[i], y[i]), Whole(2)) /\ x[i] \in Numbers /\ y[i] \in Numbers
        BY <1>2, <1>3
    <2>2. CASE i < LargerOf(a, b)
        <3>1. i < a \/ i < b
            BY <1>1, <1>4, <2>2
        <3>2. IsNaN(x[i]) \/ IsNaN(y[i])
            BY <1>3, <3>1, NaNIs
        <3>3. Plus(x[i], y[i]) = NaN
            BY <2>1, <3>2, NumbersClosed
        <3>4. Whole(2) \in Numbers
            BY WholeIsNumber
        <3>5. Over(NaN, Whole(2)) = NaN
            BY <3>4, NaNIs, NumbersClosed
        <3> QED BY <2>1, <2>2, <3>3, <3>5
    <2>3. CASE ~(i < LargerOf(a, b))
        <3>1. ~(i < a) /\ ~(i < b) /\ i \in a .. n /\ i \in b .. n
            BY <1>1, <1>4, <2>3
        <3>2. /\ x[i] \in Fraction /\ AtMost(lo, x[i]) /\ AtMost(x[i], hi)
              /\ y[i] \in Fraction /\ AtMost(lo, y[i]) /\ AtMost(y[i], hi)
            BY <1>3, <3>1
        <3> QED BY <2>1, <2>3, <3>2, HalfBetween
    <2> QED BY <2>2, <2>3
<1>6. e = [i \in 1 .. n |-> e[i]]
    BY <1>2
<1> DEFINE m == LargerOf(a, b)
<1>7. m \in Nat /\ m > 0 /\ n \in Nat
    BY <1>1, <1>4
<1>8. \A i \in 1 .. n : IF i < m THEN e[i] = NaN
                        ELSE e[i] \in Fraction /\ AtMost(lo, e[i]) /\ AtMost(e[i], hi)
    BY <1>5
<1> HIDE DEF m
<1>9. Kept(e, m, lo, hi) /\ Len(e) = n
    BY <1>6, <1>7, <1>8, KeptIs
<1> QED BY <1>9 DEF e, n, m

LEMMA SpanBegins ==
    ASSUME NEW s \in Seq(Numbers), NEW t \in Seq(Numbers), Begins(s, t),
           NEW x \in Seq(Numbers), NEW y \in Seq(Numbers), Begins(x, y),
           Len(x) = Len(s), Len(y) = Len(t)
    PROVE  Begins(SpanA(s, x), SpanA(t, y))
<1>1. /\ Len(x) \in Nat /\ Len(y) \in Nat /\ Len(x) <= Len(y)
      /\ DOMAIN x = 1 .. Len(x) /\ DOMAIN y = 1 .. Len(y)
      /\ \A i \in 1 .. Len(x) : i \in 1 .. Len(y) /\ s[i] = t[i] /\ x[i] = y[i]
    BY DEF Begins
<1>2. /\ SpanA(s, x) = [i \in 1 .. Len(x) |-> Over(Plus(s[i], x[i]), Whole(2))]
      /\ SpanA(t, y) = [i \in 1 .. Len(y) |-> Over(Plus(t[i], y[i]), Whole(2))]
    BY <1>1 DEF SpanA
<1>3. Len(SpanA(s, x)) = Len(x) /\ Len(SpanA(t, y)) = Len(y)
    BY <1>1, <1>2, TabledLength
<1>4. \A i \in 1 .. Len(x) : SpanA(s, x)[i] = SpanA(t, y)[i]
    BY <1>1, <1>2
<1> QED BY <1>1, <1>3, <1>4 DEF Begins

(* The parabolic stop: it, and the extreme it moves to, never leave what    *)
(* the prices leave, and its speed is a share.                              *)
Reached(lo, hi) == {x \in Fraction : AtMost(lo, x) /\ AtMost(x, hi)}
Speeds == {x \in Fraction : AtMost(Zero, x) /\ AtMost(x, One)}
Stops(lo, hi) ==
    [sar : Reached(lo, hi), rising : BOOLEAN, extreme : Reached(lo, hi), speed : Speeds]
Bounds(bs, lo, hi) ==
    /\ lo \in Fraction /\ hi \in Fraction
    /\ \A i \in 1 .. Len(bs) : AtMost(lo, Lows(bs)[i]) /\ AtMost(Highs(bs)[i], hi)
SarSpeeds == SarStep \in Speeds /\ SarMaxStep \in Speeds

LEMMA EndsReached ==
    ASSUME NEW bs \in Seq(Candles), NEW lo, NEW hi, Bounds(bs, lo, hi), NEW i \in 1 .. Len(bs)
    PROVE  Whole(bs[i].high) \in Reached(lo, hi) /\ Whole(bs[i].low) \in Reached(lo, hi)
<1>1. Highs(bs)[i] = Whole(bs[i].high) /\ Lows(bs)[i] = Whole(bs[i].low)
    BY PricesAre
<1>2. Highs(bs)[i] \in Fraction /\ Lows(bs)[i] \in Fraction /\ AtMost(Lows(bs)[i], Highs(bs)[i])
    BY PricesOf
<1>3. AtMost(lo, Lows(bs)[i]) /\ AtMost(Highs(bs)[i], hi) /\ lo \in Fraction /\ hi \in Fraction
    BY DEF Bounds
<1>4. AtMost(lo, Highs(bs)[i]) /\ AtMost(Lows(bs)[i], hi)
    BY <1>2, <1>3, OrderPasses
<1> QED BY <1>1, <1>2, <1>3, <1>4 DEF Reached

LEMMA SarStarts ==
    ASSUME NEW bs \in Seq(Candles), Len(bs) >= 2, NEW lo, NEW hi, Bounds(bs, lo, hi), SarSpeeds
    PROVE  SarStart(bs) \in Stops(lo, hi)
<1>1. 1 \in 1 .. Len(bs) /\ 2 \in 1 .. Len(bs)
    OBVIOUS
<1>2. /\ Whole(bs[1].high) \in Reached(lo, hi) /\ Whole(bs[1].low) \in Reached(lo, hi)
      /\ Whole(bs[2].high) \in Reached(lo, hi) /\ Whole(bs[2].low) \in Reached(lo, hi)
    BY <1>1, EndsReached
<1>3. CASE bs[2].close >= bs[1].close
    <2>1. SarStart(bs) = [sar |-> Whole(bs[1].low), rising |-> TRUE,
                          extreme |-> Whole(bs[2].high), speed |-> SarStep]
        BY <1>3 DEF SarStart
    <2> QED BY <1>2, <2>1 DEF Stops, SarSpeeds
<1>4. CASE ~(bs[2].close >= bs[1].close)
    <2>1. SarStart(bs) = [sar |-> Whole(bs[1].high), rising |-> FALSE,
                          extreme |-> Whole(bs[2].low), speed |-> SarStep]
        <3>1. (bs[2].close >= bs[1].close) = FALSE
            BY <1>4
        <3> QED BY <3>1, Zenon DEF SarStart
    <2> QED BY <1>2, <2>1 DEF Stops, SarSpeeds
<1> QED BY <1>3, <1>4

LEMMA ThreeReached ==
    ASSUME NEW lo, NEW hi, NEW x \in Reached(lo, hi), NEW y \in Reached(lo, hi),
           NEW z \in Reached(lo, hi)
    PROVE  Highest(<<x, y, z>>) \in Reached(lo, hi) /\ Lowest(<<x, y, z>>) \in Reached(lo, hi)
<1> DEFINE s == <<x, y, z>>
<1>1. s \in Seq(Reached(lo, hi)) /\ Len(s) = 3
    OBVIOUS
<1>2. s \in Seq(Fraction)
    BY DEF Reached
<1> HIDE DEF s
<1>0. Len(s) > 0
    BY <1>1
<1>3. PICK k \in 1 .. Len(s) : Highest(s) = s[k]
    BY <1>0, <1>2, HighestIs
<1>4. PICK m \in 1 .. Len(s) : Lowest(s) = s[m]
    BY <1>0, <1>2, HighestIs
<1>5. Highest(s) \in Reached(lo, hi) /\ Lowest(s) \in Reached(lo, hi)
    BY <1>1, <1>3, <1>4
<1> QED BY <1>5 DEF s

(* Towards the extreme, by a share of the way.                              *)
LEMMA TowardsReached ==
    ASSUME NEW lo \in Fraction, NEW hi \in Fraction, NEW x \in Reached(lo, hi), NEW y \in Reached(lo, hi),
           NEW k \in Speeds
    PROVE  Plus(x, Times(k, Minus(y, x))) \in Reached(lo, hi)
<1>1. /\ x \in Fraction /\ AtMost(lo, x) /\ AtMost(x, hi) /\ y \in Fraction /\ AtMost(lo, y) /\ AtMost(y, hi)
      /\ k \in Fraction /\ AtMost(Zero, k) /\ AtMost(k, One)
    BY DEF Reached, Speeds
<1> DEFINE z == Plus(Times(y, k), Times(x, Minus(One, k)))
<1>2. z \in Fraction /\ AtMost(lo, z) /\ AtMost(z, hi)
    BY <1>1, SharesBetween
<1>3. Plus(x, Times(k, Minus(y, x))) = z
    <2>1. Times(k, Minus(y, x)) = Minus(Times(y, k), Times(x, k))
        <3>1. Times(Minus(y, x), k) = Minus(Times(y, k), Times(x, k))
            BY <1>1, TimesAssociates
        <3>2. Times(k, Minus(y, x)) = Times(Minus(y, x), k)
            BY <1>1, Closed, TimesLaws
        <3> QED BY <3>1, <3>2
    <2>2. Times(x, Minus(One, k)) = Minus(x, Times(x, k))
        <3>1. Times(Minus(One, k), x) = Minus(Times(One, x), Times(k, x))
            BY <1>1, ConstantsAre, TimesAssociates
        <3>2. /\ Times(One, x) = x /\ Times(k, x) = Times(x, k)
              /\ Times(Minus(One, k), x) = Times(x, Minus(One, k))
            BY <1>1, ConstantsAre, Closed, TimesLaws
        <3> QED BY <3>1, <3>2
    <2> DEFINE a == Times(y, k)
               b == Times(x, k)
    <2>3. a \in Fraction /\ b \in Fraction
        BY <1>1, Closed
    <2> HIDE DEF a, b
    <2>4. Plus(x, Minus(a, b)) = Minus(Plus(x, a), b) /\ Plus(a, Minus(x, b)) = Minus(Plus(a, x), b)
        BY <1>1, <2>3, PlusAssociates
    <2>5. Plus(x, a) = Plus(a, x)
        BY <1>1, <2>3, PlusLaws
    <2> QED BY <2>1, <2>2, <2>4, <2>5 DEF a, b
<1> QED BY <1>2, <1>3 DEF Reached

LEMMA SarNexts ==
    ASSUME NEW bs \in Seq(Candles), NEW lo, NEW hi, Bounds(bs, lo, hi), SarSpeeds,
           NEW v \in Stops(lo, hi), NEW i \in 3 .. Len(bs)
    PROVE  SarNext(v, bs, i) \in Stops(lo, hi)
<1>1. i \in 1 .. Len(bs) /\ i - 1 \in 1 .. Len(bs) /\ i - 2 \in 1 .. Len(bs)
    OBVIOUS
<1>2. lo \in Fraction /\ hi \in Fraction
    BY DEF Bounds
<1>3. /\ v.sar \in Reached(lo, hi) /\ v.extreme \in Reached(lo, hi) /\ v.speed \in Speeds
      /\ v.rising \in BOOLEAN
      /\ v = [sar |-> v.sar, rising |-> v.rising, extreme |-> v.extreme, speed |-> v.speed]
    BY DEF Stops
<1>4. \A j \in 1 .. Len(bs) : Whole(bs[j].high) \in Reached(lo, hi) /\ Whole(bs[j].low) \in Reached(lo, hi)
    BY EndsReached
<1> DEFINE m == SarMoves(v, bs, i)
           moved == Plus(v.sar, Times(v.speed, Minus(v.extreme, v.sar)))
           high == Whole(bs[i].high)
           low == Whole(bs[i].low)
           faster == Lesser(Plus(v.speed, SarStep), SarMaxStep)
<1>5. m \in Reached(lo, hi)
    <2>1. moved \in Reached(lo, hi)
        BY <1>2, <1>3, TowardsReached
    <2>2. m = IF v.rising THEN Lowest(<<moved, Whole(bs[i - 1].low), Whole(bs[i - 2].low)>>)
              ELSE Highest(<<moved, Whole(bs[i - 1].high), Whole(bs[i - 2].high)>>)
        BY DEF SarMoves
    <2> HIDE DEF m, moved
    <2>3. /\ Lowest(<<moved, Whole(bs[i - 1].low), Whole(bs[i - 2].low)>>) \in Reached(lo, hi)
          /\ Highest(<<moved, Whole(bs[i - 1].high), Whole(bs[i - 2].high)>>) \in Reached(lo, hi)
        BY <1>1, <1>4, <2>1, ThreeReached
    <2> QED BY <2>2, <2>3
<1>6. high \in Reached(lo, hi) /\ low \in Reached(lo, hi)
    BY <1>1, <1>4
<1>7. faster \in Speeds
    <2> DEFINE x == Plus(v.speed, SarStep)
    <2>1. v.speed \in NotNegative /\ SarStep \in NotNegative /\ SarMaxStep \in NotNegative
          /\ SarMaxStep \in Fraction /\ AtMost(SarMaxStep, One)
        BY <1>3 DEF Speeds, SarSpeeds, NotNegative
    <2>2. x \in NotNegative /\ x \in Fraction
        BY <2>1, NotNegatives DEF NotNegative
    <2> HIDE DEF x
    <2>3. Lesser(x, SarMaxStep) \in {x, SarMaxStep} /\ AtMost(Lesser(x, SarMaxStep), SarMaxStep)
        BY <2>1, <2>2, Larger
    <2>4. Lesser(x, SarMaxStep) \in NotNegative /\ Lesser(x, SarMaxStep) \in Fraction
        BY <2>1, <2>2, <2>3
    <2>5. AtMost(Lesser(x, SarMaxStep), One)
        BY <2>1, <2>3, <2>4, ConstantsAre, OrderPasses
    <2> QED BY <2>4, <2>5 DEF Speeds, NotNegative, x
<1>8. SarNext(v, bs, i) \in
          {[sar |-> v.extreme, rising |-> ~v.rising, extreme |-> IF ~v.rising THEN high ELSE low, speed |-> SarStep],
           [sar |-> m, rising |-> v.rising, extreme |-> IF v.rising THEN high ELSE low, speed |-> faster],
           [v EXCEPT !.sar = m]}
    <2>1. CASE v.rising
        <3> DEFINE turns == Less(low, m)
                   further == Less(v.extreme, high)
        <3>1. SarNext(v, bs, i) =
                 CASE turns -> [sar |-> v.extreme, rising |-> ~v.rising, extreme |-> low, speed |-> SarStep]
                   [] ~turns /\ further -> [sar |-> m, rising |-> v.rising, extreme |-> high, speed |-> faster]
                   [] OTHER -> [v EXCEPT !.sar = m]
            BY <2>1 DEF SarNext
        <3> HIDE DEF m, high, low, faster, turns, further
        <3> QED BY <2>1, <3>1
    <2>2. CASE ~v.rising
        <3> DEFINE turns == Less(m, high)
                   further == Less(low, v.extreme)
        <3>1. SarNext(v, bs, i) =
                 CASE turns -> [sar |-> v.extreme, rising |-> ~v.rising, extreme |-> high, speed |-> SarStep]
                   [] ~turns /\ further -> [sar |-> m, rising |-> v.rising, extreme |-> low, speed |-> faster]
                   [] OTHER -> [v EXCEPT !.sar = m]
            BY <2>2 DEF SarNext
        <3> HIDE DEF m, high, low, faster, turns, further
        <3> QED BY <2>2, <3>1
    <2> QED BY <2>1, <2>2
<1> HIDE DEF m, high, low, faster
<1>9. /\ (IF ~v.rising THEN high ELSE low) \in Reached(lo, hi)
      /\ (IF v.rising THEN high ELSE low) \in Reached(lo, hi) /\ (~v.rising) \in BOOLEAN
    BY <1>6
<1>10. [v EXCEPT !.sar = m] = [sar |-> m, rising |-> v.rising, extreme |-> v.extreme, speed |-> v.speed]
    BY <1>3
<1> DEFINE e == IF ~v.rising THEN high ELSE low
           f == IF v.rising THEN high ELSE low
           r == ~v.rising
<1>11. /\ SarStep \in Speeds /\ e \in Reached(lo, hi) /\ f \in Reached(lo, hi) /\ r \in BOOLEAN
    BY <1>9 DEF SarSpeeds
<1>12. SarNext(v, bs, i) \in
          {[sar |-> v.extreme, rising |-> r, extreme |-> e, speed |-> SarStep],
           [sar |-> m, rising |-> v.rising, extreme |-> f, speed |-> faster],
           [sar |-> m, rising |-> v.rising, extreme |-> v.extreme, speed |-> v.speed]}
    BY <1>8, <1>10, Zenon
<1> HIDE DEF e, f, r
<1>13. /\ [sar |-> v.extreme, rising |-> r, extreme |-> e, speed |-> SarStep] \in Stops(lo, hi)
       /\ [sar |-> m, rising |-> v.rising, extreme |-> f, speed |-> faster] \in Stops(lo, hi)
       /\ [sar |-> m, rising |-> v.rising, extreme |-> v.extreme, speed |-> v.speed] \in Stops(lo, hi)
    BY <1>3, <1>5, <1>7, <1>11 DEF Stops
<1> QED BY <1>12, <1>13

StopNext(v, bs, i) == IF i < 3 THEN v ELSE SarNext(v, bs, i)
StopSteps(bs, lo, hi) ==
    [i \in 1 .. Len(bs) |-> [v \in Stops(lo, hi) |-> StopNext(v, bs, i)]]

LEMMA PsarRuns ==
    ASSUME NEW bs \in Seq(Candles), Len(bs) >= 2, NEW lo, NEW hi, Bounds(bs, lo, hi), SarSpeeds
    PROVE  \E r : /\ Runs(r, Len(bs), 2, SarStart(bs), Stops(lo, hi), StopSteps(bs, lo, hi))
                  /\ Psar(bs) = IF Len(bs) < 3 THEN Nothing(Len(bs))
                                ELSE [i \in 1 .. Len(bs) |-> IF i = 1 THEN NaN ELSE r[i].sar]
<1> DEFINE n == Len(bs)
           first == 2
           start == SarStart(bs)
           V == Stops(lo, hi)
           next(v, i) == SarNext(v, bs, i)
           step == [i \in 1 .. n |-> [v \in V |-> StopNext(v, bs, i)]]
           Body(F) == [i \in 0 .. n |->
                          IF i = 0 THEN <<>>
                          ELSE LET done == F[i - 1]
                               IN Append(done, CASE i < first -> NaN
                                                 [] i = first -> start
                                                 [] OTHER -> next(done[i - 1], i))]
           c == CHOOSE F : F = Body(F)
<1>1. n \in Nat /\ first \in Nat /\ first > 0 /\ (first <= n => start \in V)
    BY SarStarts
<1>2. step \in [1 .. n -> [V -> V]]
    <2> SUFFICES ASSUME NEW i \in 1 .. n, NEW v \in V PROVE StopNext(v, bs, i) \in V
        BY Zenon
    <2>1. CASE i < 3
        BY <2>1 DEF StopNext
    <2>2. CASE ~(i < 3)
        <3>1. i \in 3 .. Len(bs)
            BY <2>2
        <3>2. SarNext(v, bs, i) \in Stops(lo, hi)
            BY <3>1, SarNexts
        <3> QED BY <2>2, <3>2 DEF StopNext
    <2> QED BY <2>1, <2>2
<1>2a. \A i \in 1 .. n, v \in V : i > first => step[i][v] = next(v, i)
    <2> SUFFICES ASSUME NEW i \in 1 .. n, NEW v \in V, i > first PROVE StopNext(v, bs, i) = next(v, i)
        OBVIOUS
    <2>1. ~(i < 3)
        BY <1>1
    <2> QED BY <2>1 DEF StopNext
<1>3. Psar(bs) = IF n < 3 THEN Nothing(n) ELSE [i \in 1 .. n |-> IF i = 1 THEN NaN ELSE c[n][i].sar]
    BY DEF Psar, Scan
<1> HIDE DEF n, first, start, V, next
<1>4. PICK F : Made(F, n, first, start, step)
    <2> HIDE DEF step
    <2> QED BY <1>1, <1>2, MadeExists
<1>5. \A i \in 1 .. n : i > first => F[i - 1][i - 1] \in V
    <2> SUFFICES ASSUME NEW i \in 1 .. n, i > first PROVE F[i - 1][i - 1] \in V
        OBVIOUS
    <2>1. \A j \in 0 .. n : Runs(F[j], j, first, start, V, step)
        <3> HIDE DEF step
        <3> QED BY <1>1, <1>2, <1>4, MadeBuilds, BuiltIs
    <2>2. i - 1 \in 0 .. n /\ i - 1 \in 1 .. i - 1 /\ i - 1 >= first
        BY <1>1
    <2> QED BY <2>1, <2>2 DEF Runs
<1>6. F = Body(F)
    <2>1. ASSUME NEW i \in 0 .. n, i # 0
          PROVE  F[i] = Append(F[i - 1], CASE i < first -> NaN
                                           [] i = first -> start
                                           [] OTHER -> next(F[i - 1][i - 1], i))
        <3>1. i \in 1 .. n
            BY <1>1, <2>1
        <3>2. F[i] = Append(F[i - 1], CASE i < first -> NaN
                                        [] i = first -> start
                                        [] OTHER -> step[i][F[i - 1][i - 1]])
            <4> HIDE DEF step
            <4> QED BY <1>4, <3>1 DEF Made
        <3>3. i > first => step[i][F[i - 1][i - 1]] = next(F[i - 1][i - 1], i)
            <4> HIDE DEF step
            <4> QED BY <1>2a, <1>5, <3>1
        <3>4. i < first \/ i = first \/ i > first
            BY <1>1, <3>1
        <3> HIDE DEF step
        <3>5. CASE i < first
            BY <3>2, <3>5
        <3>6. CASE i = first
            BY <3>2, <3>6
        <3>7. CASE i > first
            <4>1. ~(i < first) /\ i # first
                BY <1>1, <3>1, <3>7
            <4> QED BY <3>2, <3>3, <3>7, <4>1
        <3> QED BY <3>4, <3>5, <3>6, <3>7
    <2>2. F[0] = <<>> /\ F = [i \in 0 .. n |-> F[i]]
        BY <1>4 DEF Made
    <2> QED BY <2>1, <2>2
<1>7. c = Body(c)
    <2> HIDE DEF Body
    <2> QED BY <1>6
<1> HIDE DEF c
<1>8. /\ c[0] = <<>>
      /\ \A i \in 1 .. n : c[i] = Append(c[i - 1], CASE i < first -> NaN
                                                     [] i = first -> start
                                                     [] OTHER -> next(c[i - 1][i - 1], i))
    <2>1. 0 \in 0 .. n /\ \A i \in 1 .. n : i \in 0 .. n /\ i # 0
        BY <1>1
    <2> QED BY <1>7, <2>1
<1>9. Builds(c, n, first, start, V, step)
    <2> SUFFICES ASSUME NEW i \in 1 .. n
                 PROVE  /\ i < first => c[i] = Append(c[i - 1], NaN)
                        /\ i = first => c[i] = Append(c[i - 1], start)
                        /\ i > first /\ c[i - 1][i - 1] \in V =>
                              c[i] = Append(c[i - 1], step[i][c[i - 1][i - 1]])
        BY <1>8 DEF Builds
    <2> DEFINE w == CASE i < first -> NaN
                      [] i = first -> start
                      [] OTHER -> next(c[i - 1][i - 1], i)
    <2>1. c[i] = Append(c[i - 1], w)
        BY <1>8
    <2>2. /\ i < first => w = NaN
          /\ i = first => w = start
          /\ i > first => w = next(c[i - 1][i - 1], i)
        BY <1>1
    <2>3. i > first /\ c[i - 1][i - 1] \in V => step[i][c[i - 1][i - 1]] = next(c[i - 1][i - 1], i)
        <3> HIDE DEF step
        <3> QED BY <1>2a
    <2> HIDE DEF w, step
    <2> QED BY <2>1, <2>2, <2>3
<1>10. Runs(c[n], n, first, start, V, step)
    <2> HIDE DEF step
    <2>1. n \in 0 .. n
        BY <1>1
    <2> QED BY <1>1, <1>2, <1>9, <2>1, BuiltIs
<1> QED BY <1>3, <1>10 DEF n, first, start, V, next, StopSteps

LEMMA PsarIs ==
    ASSUME NEW bs \in Seq(Candles), NEW lo, NEW hi, Bounds(bs, lo, hi), SarSpeeds
    PROVE  Shows(Psar(bs), Len(bs), lo, hi)
<1> DEFINE n == Len(bs)
<1>1. n \in Nat
    OBVIOUS
<1>2. CASE n < 3
    <2>1. Psar(bs) = Nothing(n)
        BY <1>2 DEF Psar
    <2> QED BY <1>1, <2>1, NothingIs DEF Shows
<1>3. CASE ~(n < 3)
    <2>0. n >= 2
        BY <1>1, <1>3
    <2> DEFINE start == SarStart(bs)
               step == StopSteps(bs, lo, hi)
               e == Psar(bs)
    <2>1. PICK r : /\ Runs(r, n, 2, start, Stops(lo, hi), step)
                   /\ e = IF n < 3 THEN Nothing(n)
                          ELSE [i \in 1 .. n |-> IF i = 1 THEN NaN ELSE r[i].sar]
        <3>1. \E r : /\ Runs(r, Len(bs), 2, SarStart(bs), Stops(lo, hi), StopSteps(bs, lo, hi))
                    /\ Psar(bs) = IF Len(bs) < 3 THEN Nothing(Len(bs))
                                  ELSE [i \in 1 .. Len(bs) |-> IF i = 1 THEN NaN ELSE r[i].sar]
            BY <2>0, PsarRuns
        <3> QED BY <3>1
    <2> HIDE DEF start, step, e
    <2>2. e = [i \in 1 .. n |-> IF i = 1 THEN NaN ELSE r[i].sar]
        BY <1>3, <2>1
    <2>3. ASSUME NEW i \in 1 .. n
          PROVE  e[i] \in Numbers /\ (IsNaN(e[i]) \/ Between(lo, e[i], hi))
        <3>1. CASE i = 1
            <4>1. e[i] = NaN
                BY <2>2, <3>1
            <4> QED BY <4>1, NaNIs
        <3>2. CASE i # 1
            <4>1. i >= 2
                BY <1>1, <3>2
            <4>2. r[i] \in Stops(lo, hi)
                BY <2>1, <4>1 DEF Runs
            <4>3. e[i] = r[i].sar
                BY <2>2, <3>2
            <4>4. e[i] \in Reached(lo, hi)
                BY <4>2, <4>3 DEF Stops
            <4> QED BY <4>4 DEF Reached, Between, Numbers
        <3> QED BY <3>1, <3>2
    <2>4. e \in [1 .. n -> Numbers]
        BY <2>2, <2>3
    <2>5. e \in Seq(Numbers) /\ Len(e) = n
        BY <1>1, <2>4, Tabled
    <2> QED BY <2>3, <2>5 DEF Shows, e
<1> QED BY <1>2, <1>3

LEMMA StopsSame ==
    ASSUME NEW b \in Seq(Candles), NEW c \in Seq(Candles), Begins(b, c), NEW v, NEW i \in 1 .. Len(b)
    PROVE  StopNext(v, b, i) = StopNext(v, c, i)
<1>1. Len(b) \in Nat /\ \A j \in 1 .. Len(b) : b[j] = c[j]
    BY DEF Begins
<1>2. CASE i < 3
    BY <1>2 DEF StopNext
<1>3. CASE ~(i < 3)
    <2> DEFINE m == Len(b)
    <2>0. m \in Nat /\ i \in 1 .. m /\ \A j \in 1 .. m : b[j] = c[j]
        BY <1>1
    <2> HIDE DEF m
    <2>4. i - 1 \in 1 .. m /\ i - 2 \in 1 .. m
        BY <1>3, <2>0
    <2>1. b[i] = c[i] /\ b[i - 1] = c[i - 1] /\ b[i - 2] = c[i - 2]
        BY <2>0, <2>4
    <2>2. SarMoves(v, b, i) = SarMoves(v, c, i)
        BY <2>1 DEF SarMoves
    <2>3. SarNext(v, b, i) = SarNext(v, c, i)
        BY <2>1, <2>2 DEF SarNext
    <2> QED BY <1>3, <2>3 DEF StopNext
<1> QED BY <1>2, <1>3

LEMMA BoundsExists ==
    ASSUME NEW bs \in Seq(Candles)
    PROVE  \E lo, hi : Bounds(bs, lo, hi)
<1>1. PICK lo \in Fraction : \E hi \in Fraction :
           \A i \in 1 .. Len(bs) : AtMost(lo, Lows(bs)[i]) /\ AtMost(Highs(bs)[i], hi)
    BY PriceBounds
<1>2. PICK hi \in Fraction :
           \A i \in 1 .. Len(bs) : AtMost(lo, Lows(bs)[i]) /\ AtMost(Highs(bs)[i], hi)
    BY <1>1
<1> QED BY <1>2 DEF Bounds

LEMMA PsarAgrees ==
    ASSUME NEW b \in Seq(Candles), NEW c \in Seq(Candles), Begins(b, c), SarSpeeds
    PROVE  Agrees(Psar(b), Psar(c))
<1>1. /\ Len(b) \in Nat /\ Len(c) \in Nat /\ Len(b) <= Len(c)
      /\ \A i \in 1 .. Len(b) : i \in 1 .. Len(c) /\ b[i] = c[i]
    BY DEF Begins
<1>2. PICK lo, hi : Bounds(c, lo, hi)
    BY BoundsExists
<1>3. Bounds(b, lo, hi)
    <2>1. Begins(Lows(b), Lows(c)) /\ Begins(Highs(b), Highs(c)) /\ Len(Lows(b)) = Len(b) /\ Len(Highs(b)) = Len(b)
        BY PricesBegin, PricesAre
    <2> QED BY <1>1, <1>2, <2>1 DEF Bounds, Begins
<1>4. Len(Psar(b)) = Len(b) /\ Len(Psar(c)) = Len(c)
    BY <1>2, <1>3, PsarIs DEF Shows
<1>5. CASE Len(b) < 3
    <2>1. Psar(b) = Nothing(Len(b))
        BY <1>5 DEF Psar
    <2> QED BY <1>1, <1>4, <2>1, NothingIs DEF Agrees
<1>6. CASE ~(Len(b) < 3)
    <2> DEFINE V == Stops(lo, hi)
               s == StopSteps(b, lo, hi)
               t == StopSteps(c, lo, hi)
    <2>1. Len(b) >= 2 /\ Len(c) >= 2 /\ ~(Len(c) < 3)
        BY <1>1, <1>6
    <2>2. PICK x : Runs(x, Len(b), 2, SarStart(b), V, s)
                   /\ Psar(b) = IF Len(b) < 3 THEN Nothing(Len(b))
                                ELSE [i \in 1 .. Len(b) |-> IF i = 1 THEN NaN ELSE x[i].sar]
        <3>1. \E r : /\ Runs(r, Len(b), 2, SarStart(b), Stops(lo, hi), StopSteps(b, lo, hi))
                    /\ Psar(b) = IF Len(b) < 3 THEN Nothing(Len(b))
                                  ELSE [i \in 1 .. Len(b) |-> IF i = 1 THEN NaN ELSE r[i].sar]
            BY <1>3, <2>1, PsarRuns
        <3> QED BY <3>1
    <2>3. PICK y : Runs(y, Len(c), 2, SarStart(c), V, t)
                   /\ Psar(c) = IF Len(c) < 3 THEN Nothing(Len(c))
                                ELSE [i \in 1 .. Len(c) |-> IF i = 1 THEN NaN ELSE y[i].sar]
        <3>1. \E r : /\ Runs(r, Len(c), 2, SarStart(c), Stops(lo, hi), StopSteps(c, lo, hi))
                    /\ Psar(c) = IF Len(c) < 3 THEN Nothing(Len(c))
                                  ELSE [i \in 1 .. Len(c) |-> IF i = 1 THEN NaN ELSE r[i].sar]
            BY <1>2, <2>1, PsarRuns
        <3> QED BY <3>1
    <2>4. SarStart(b) = SarStart(c)
        <3>1. b[1] = c[1] /\ b[2] = c[2]
            BY <1>1, <2>1
        <3> QED BY <3>1 DEF SarStart
    <2>5. /\ \A i \in 1 .. Len(b), v \in V : s[i][v] = StopNext(v, b, i)
          /\ \A i \in 1 .. Len(c), v \in V : t[i][v] = StopNext(v, c, i)
        BY DEF StopSteps
    <2> HIDE DEF V, s, t
    <2>6. /\ \A i \in 1 .. Len(b) : /\ i = 2 => x[i] = SarStart(b)
                                    /\ i > 2 => x[i] = s[i][x[i - 1]]
                                    /\ i >= 2 => x[i] \in V
          /\ \A i \in 1 .. Len(c) : /\ i = 2 => y[i] = SarStart(c)
                                    /\ i > 2 => y[i] = t[i][y[i - 1]]
        BY <2>2, <2>3 DEF Runs
    <2> DEFINE T == {i \in 1 .. Len(b) : x[i] = y[i]}
    <2>7. 2 <= Len(b) => 2 \in T
        BY <1>1, <2>4, <2>6
    <2>8. \A i \in (2 + 1) .. Len(b) : i - 1 \in T => i \in T
        <3> SUFFICES ASSUME NEW i \in (2 + 1) .. Len(b), i - 1 \in T PROVE i \in T
            OBVIOUS
        <3>1. i \in 1 .. Len(b) /\ i \in 1 .. Len(c) /\ i > 2 /\ i - 1 \in 1 .. Len(b) /\ i - 1 >= 2
            BY <1>1
        <3>2. x[i - 1] = y[i - 1] /\ x[i - 1] \in V
            BY <2>6, <3>1
        <3>3. x[i] = s[i][x[i - 1]] /\ y[i] = t[i][y[i - 1]]
            BY <2>6, <3>1
        <3>4. s[i][x[i - 1]] = StopNext(x[i - 1], b, i) /\ t[i][x[i - 1]] = StopNext(x[i - 1], c, i)
            BY <2>5, <3>1, <3>2
        <3>5. StopNext(x[i - 1], b, i) = StopNext(x[i - 1], c, i)
            BY <3>1, StopsSame
        <3> QED BY <3>1, <3>2, <3>3, <3>4, <3>5
    <2>9. \A i \in 2 .. Len(b) : i \in T
        <3> HIDE DEF T
        <3>1. 2 \in Nat
            OBVIOUS
        <3> QED BY <1>1, <2>7, <2>8, <3>1, Steps
    <2>10. \A i \in 1 .. Len(b) : i # 1 => i \in 2 .. Len(b) /\ i \in 1 .. Len(c)
        BY <1>1
    <2>11. \A i \in 1 .. Len(b) : Psar(b)[i] = Psar(c)[i]
        <3> SUFFICES ASSUME NEW i \in 1 .. Len(b) PROVE Psar(b)[i] = Psar(c)[i]
            OBVIOUS
        <3>1. /\ Psar(b)[i] = IF i = 1 THEN NaN ELSE x[i].sar
              /\ Psar(c)[i] = IF i = 1 THEN NaN ELSE y[i].sar
            BY <1>1, <1>6, <2>1, <2>2, <2>3
        <3> QED BY <2>9, <2>10, <3>1
    <2> QED BY <1>1, <1>4, <2>11 DEF Agrees
<1> QED BY <1>5, <1>6

=============================================================================
