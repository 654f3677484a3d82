------------------------------ MODULE CoreTime ------------------------------
(***************************************************************************)
(* The exact arithmetic that all times are kept in (src/src/core/time.cpp, *)
(* source_time.cpp): reduced fractions of 64-bit integers.  A result is a  *)
(* set: empty where the code throws, else of one value.  TLC's runs check  *)
(* it with small integers; ProjectModel's ticks rest on it.                *)
(***************************************************************************)
EXTENDS Integers, FiniteSetsExt

CONSTANT Largest    \* numeric_limits<int64_t>::max()

ASSUME TimeAssumption == Largest \in Nat \ {0}

\* std::gcd, of which the second argument is positive wherever it is called.
Gcd(a, b) == Max({d \in 1..b : a % d = 0 /\ b % d = 0})

Times == [value : 0..Largest, rate : 1..Largest]

\* RationalTime(value, rate), reduced.
RationalTime(value, rate) ==
  IF value < 0 \/ rate <= 0 THEN {}
  ELSE {[value |-> value \div Gcd(value, rate), rate |-> rate \div Gcd(value, rate)]}

\* multiply(): checked.
Product(a, b) == IF a # 0 /\ b > Largest \div a THEN {} ELSE {a * b}

\* operator<=>: -1, 0 or 1 as a / b is before, at or after c / d, by their continued
\* fractions; with every turn of its loop the order is turned about.
Continued[q \in Nat \X (Nat \ {0}) \X Nat \X (Nat \ {0})] ==
  LET a == q[1]  b == q[2]  c == q[3]  d == q[4]
      sign(less) == IF less THEN -1 ELSE 1
  IN  IF a \div b # c \div d THEN sign(a \div b < c \div d)
      ELSE IF a % b = 0 \/ c % d = 0 THEN IF a % b = c % d THEN 0 ELSE sign(a % b = 0)
      ELSE -Continued[<<b, a % b, d, c % d>>]

Compare(x, y) == Continued[<<x.value, x.rate, y.value, y.rate>>]

\* Two times with one denominator: what operator+ and operator- have before they combine.
Common(x, y) ==
  LET common == Gcd(x.rate, y.rate)
  IN  [left : Product(x.value, y.rate \div common), right : Product(y.value, x.rate \div common),
       rate : Product(x.rate, y.rate \div common)]

Plus(x, y) ==
  UNION {RationalTime(c.left + c.right, c.rate) :
           c \in {k \in Common(x, y) : k.right <= Largest - k.left}}

Minus(x, y) ==
  IF Compare(x, y) = -1 THEN {}
  ELSE UNION {RationalTime(c.left - c.right, c.rate) : c \in Common(x, y)}
-----------------------------------------------------------------------------
(* Times of a file may be before zero: [magnitude, negative].              *)

Magnitude(value) == IF value < 0 THEN -value ELSE value

\* SourceTime(value, rate); the least integer has no magnitude.
SourceTime(value, rate) ==
  IF value = -Largest - 1 THEN {}
  ELSE {[magnitude |-> m, negative |-> value < 0] : m \in RationalTime(Magnitude(value), rate)}

\* from_ticks(): a number of ticks of a time base, reduced before it is scaled.
FromTicks(ticks, base) ==
  LET common  == Gcd(Magnitude(ticks), base.rate)
      reduced == Magnitude(ticks) \div common
      scaled  == reduced * base.value
  IN  IF ticks = -Largest - 1 \/ base.value = 0 \/ reduced > Largest \div base.value THEN {}
      ELSE SourceTime(IF ticks < 0 THEN -scaled ELSE scaled, base.rate \div common)

\* Mutant of CompareSource: of two times before zero the greater magnitude is the later.
CompareMagnitudes(x, y) ==
  IF x.negative # y.negative THEN IF x.negative THEN -1 ELSE 1
  ELSE Compare(x.magnitude, y.magnitude)

CompareSource(x, y) ==
  CASE x.negative # y.negative -> IF x.negative THEN -1 ELSE 1
    [] x.negative /\ y.negative -> Compare(y.magnitude, x.magnitude)
    [] OTHER                    -> Compare(x.magnitude, y.magnitude)

\* since(): how long after an origin.
Since(x, origin) ==
  CASE CompareSource(x, origin) = -1  -> {}
    [] x.negative # origin.negative   -> Plus(x.magnitude, origin.magnitude)
    [] x.negative /\ origin.negative  -> Minus(origin.magnitude, x.magnitude)
    [] OTHER                          -> Minus(x.magnitude, origin.magnitude)
-----------------------------------------------------------------------------
\* What the arithmetic promises.  Sums and differences are refused or exact: their cross
\* products with what they are made of are equal.
SumsExact ==
  \A x, y \in Times : \A r \in Plus(x, y) :
    /\ r \in Times
    /\ r.value * (x.rate * y.rate) = (x.value * y.rate + y.value * x.rate) * r.rate

DifferencesExact ==
  \A x, y \in Times : \A r \in Minus(x, y) :
    /\ r \in Times
    /\ r.value * (x.rate * y.rate) = (x.value * y.rate - y.value * x.rate) * r.rate

\* The order is that of the cross products, which are never formed.
OrderExact ==
  \A x, y \in Times :
    LET left == x.value * y.rate
        right == y.value * x.rate
    IN  Compare(x, y) = IF left < right THEN -1 ELSE IF left = right THEN 0 ELSE 1

\* On a grid of a number of ticks a second, sums are refused only beyond the largest
\* value: what ProjectModel takes times to be.
TicksAdd ==
  \A rate \in 1..Largest : \A a, b \in 0..Largest :
    \A x \in RationalTime(a, rate), y \in RationalTime(b, rate) :
      a + b <= Largest => Plus(x, y) = RationalTime(a + b, rate)

\* How long a time stamp is after an origin, to the tick, also where either is negative.
SinceExact ==
  \A a, b \in -Largest..Largest, rate \in 1..Largest :
    \A x \in FromTicks(a, [value |-> 1, rate |-> rate]),
       y \in FromTicks(b, [value |-> 1, rate |-> rate]) :
      a - b \in 0..Largest => Since(x, y) = RationalTime(a - b, rate)
=============================================================================
