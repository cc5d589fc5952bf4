----------------------------- MODULE FixedNumber -----------------------------
(***************************************************************************)
(* Decimal numbers as fin/numeric keeps them: an integer part m_int, the      *)
(* digits after the point m_base, which carry the same sign, and their number *)
(* m_exp, -1 for a number written without a point.  A program holds one       *)
(* number and applies the class's operations to it, with literals as          *)
(* operands.  Beside them stands the number as a double, m_doubleValue: doubles *)
(* are counted in parts of which One make 1, and every operation on them rounds *)
(* to the nearest double.                                                      *)
(***************************************************************************)
EXTENDS Integers

CONSTANTS Literals,          \* decimals the program reads: sign, integer part,
                             \* digits and their number (-1 without a point)
          DefaultAccuracy,   \* DEFAULT_ACCURACY
          TenPowers,         \* the table of powers of ten
          MaxPower,          \* the largest of them
          LongMax,           \* the largest long
          Garbage,           \* what memory may hold where a number is constructed
          One,               \* parts that make 1: fine enough for every double
          Ulps,              \* the distances between neighbouring doubles
          Mantissa,          \* below a distance times this, doubles lie that close
          MaxOps             \* bound: operations in a row

\* The constructor of the table multiplies by ten; a long holds all of it.
ASSUME TableAssumption ==
  /\ MaxPower \in Nat \ {0} /\ TenPowers \in [0..MaxPower -> Nat]
  /\ TenPowers[0] = 1
  /\ \A p \in 1..MaxPower : TenPowers[p] = 10 * TenPowers[p - 1]
  /\ LongMax \in Nat /\ TenPowers[MaxPower] <= LongMax

ASSUME LiteralsAssumption ==
  \A s \in Literals :
    /\ s \in [neg : BOOLEAN, whole : 0..LongMax, frac : Nat, places : -1..MaxPower]
    /\ s.frac < TenPowers[IF s.places < 0 THEN 0 ELSE s.places]

ASSUME NumberBoundsAssumption ==
  DefaultAccuracy \in 0..MaxPower /\ MaxOps \in Nat /\ Garbage \subseteq Int

VARIABLES x,      \* the number
          double, \* its m_doubleValue
          last,   \* history: the last operation, the number before it, its operand
          ops

numberVars == <<x, double, last, ops>>

-----------------------------------------------------------------------------
\* Arithmetic of the machine.

\* TenPowers::get; it throws beyond the largest power.
Power(p) == IF p < 0 THEN 0 ELSE TenPowers[p]

\* A signed long that overflows wraps around.
Wrap(n) == ((n + LongMax + 1) % (2 * (LongMax + 1))) - (LongMax + 1)
Fits(n) == Wrap(n) = n

Times(a, b) == Wrap(a * b)

Abs(n) == IF n < 0 THEN -n ELSE n
MaxOf(a, b) == IF a > b THEN a ELSE b

\* C's division and remainder round toward zero.
Quot(n, d) == IF (n < 0) = (d < 0) THEN Abs(n) \div Abs(d) ELSE -(Abs(n) \div Abs(d))
Rem(n, d) == n - d * Quot(n, d)

\* A double's distance to its neighbours, and rounding to the nearest of them or,
\* between two, to the even one.
InReach(v) == \E u \in Ulps : Abs(v) < Mantissa * u
Spacing(v) ==
  CHOOSE u \in Ulps :
    Abs(v) < Mantissa * u /\ \A t \in Ulps : t < u => Abs(v) >= Mantissa * t

Nearest(v, u) ==
  LET k == v \div u
      rest == v % u
  IN u * (IF 2 * rest < u \/ (2 * rest = u /\ k % 2 = 0) THEN k ELSE k + 1)

Round(v) == Nearest(v, Spacing(v))

Number(int, base, exp) == [int |-> int, base |-> base, exp |-> exp]

-----------------------------------------------------------------------------
\* Conversions.

\* initFromString.  m_base takes the sign of m_int, which "-0" does not have; the
\* digits of "5." are none, and m_base keeps what it was.
FromString(s, old) ==
  LET int == IF s.neg THEN -s.whole ELSE s.whole
      digits == IF s.places = 0 THEN old ELSE s.frac
  IN Number(int, IF s.places < 0 THEN 0 ELSE IF int < 0 THEN -digits ELSE digits,
            s.places)

\* initFromDouble: the product with the power of ten is rounded, then cut off;
\* zeros at the end are dropped.
Strip(base, exp) ==
  LET kept == CHOOSE e \in 0..exp :
                /\ Rem(base, Power(exp - e)) = 0
                /\ e = 0 \/ Rem(base, Power(exp - e + 1)) # 0
  IN <<Quot(base, Power(exp - kept)), kept>>

FromDouble(val) ==
  LET int == Quot(val, One)
      digits == Quot(Round(Round(val - int * One) * Power(DefaultAccuracy)), One)
      stripped == Strip(digits, DefaultAccuracy)
  IN Number(int, stripped[1], stripped[2])

\* m_doubleValue, computed from the parts of a string in steps that all round.
DoubleOf(n) ==
  IF n.exp < 0 THEN Round(n.int * One)
  ELSE Round(Round(n.int * One) + Round(Quot(Round(n.base * One), Power(n.exp))))

\* The double that a compiler, or whoever calls, has for a literal.
Parts(s) ==
  LET parts == s.whole * One + s.frac * (One \div Power(MaxOf(s.places, 0)))
  IN IF s.neg THEN -parts ELSE parts
DoubleRead(s) == Round(Parts(s))

\* The distances double, and all are as coarse as the digits of a literal need; 1
\* and whole numbers up to the power of DEFAULT_ACCURACY are doubles.
ASSUME DoublesAssumption ==
  /\ Mantissa \in Nat \ {0} /\ Mantissa % 2 = 0
  /\ Ulps \subseteq Nat \ {0} /\ One \in Nat \ {0}
  /\ \A t, u \in Ulps : t < u => u % t = 0 /\ \E h \in Ulps : t <= h /\ u = 2 * h
  /\ \A u \in Ulps : One % u = 0 \/ u % One = 0
  /\ \A s \in Literals, u \in Ulps \cup {One} : u % Power(MaxOf(s.places, 0)) = 0
  /\ One % Spacing(One * Power(DefaultAccuracy)) = 0

\* All of a long is in reach of the doubles, and literals are.
ASSUME ReachAssumption ==
  /\ InReach((LongMax + 1) * One)
  /\ \A s \in Literals : InReach(DoubleRead(s))

\* No double below 1 has so many digits that cutting them off makes it 1.
ASSUME BelowOneAssumption ==
  \A v \in 1 - One..One - 1 :
    Round(v) = v => Abs(Round(v * Power(DefaultAccuracy))) < One * Power(DefaultAccuracy)

\* toString: at least m_exp digits, without the sign that m_base may have alone.
Digits(n) ==
  IF n >= Power(MaxPower) THEN MaxPower + 1
  ELSE CHOOSE d \in 1..MaxPower : n < Power(d) /\ (d = 1 \/ n >= Power(d - 1))
ToString(n) ==
  [neg |-> n.int < 0, whole |-> Abs(n.int),
   frac |-> IF n.exp < 0 THEN 0 ELSE Abs(n.base),
   places |-> IF n.exp < 0 THEN -1 ELSE MaxOf(n.exp, Digits(Abs(n.base)))]

-----------------------------------------------------------------------------
\* Comparison: m_base of both at the larger number of digits.

Aligned(a, b) ==
  IF b.exp > a.exp THEN <<a.base * Power(b.exp - a.exp), b.base>>
  ELSE <<a.base, b.base * Power(a.exp - b.exp)>>

Less(a, b) ==
  a.int < b.int \/ (a.int = b.int /\ Aligned(a, b)[1] < Aligned(a, b)[2])
Greater(a, b) ==
  a.int > b.int \/ (a.int = b.int /\ Aligned(a, b)[1] > Aligned(a, b)[2])
Equal(a, b) ==
  a.int = b.int /\ Aligned(a, b)[1] = Aligned(a, b)[2]

\* With an int; < does not look at m_base.
LessInt(a, n) == a.int < n
GreaterInt(a, n) == a.int > n \/ (a.int = n /\ a.base > 0)
EqualInt(a, n) == a.int = n /\ a.base = 0

\* toDouble and the comparisons with a double look at nothing else.
DoubleLess(d, e) == d < e
DoubleGreater(d, e) == d > e

-----------------------------------------------------------------------------
\* Arithmetic.

Minus(a) == Number(Wrap(-a.int), Wrap(-a.base), a.exp)

\* Mutant: a fraction below zero does not borrow from the integer part.
MutNoBorrow(int, base, exp) == IF int > 0 /\ base > Power(exp) THEN 1 ELSE 0

\* What += and -= move between the parts at the end.
Carry(int, base, exp) ==
  CASE int < 0 /\ base < -Power(exp) -> -1
    [] int > 0 /\ base < 0 -> -1
    [] int > 0 /\ base > Power(exp) -> 1
    [] int < 0 /\ base > 0 -> 1
    [] OTHER -> 0

Carried(int, base, exp) ==
  LET carry == Carry(int, base, exp)
  IN Number(Wrap(int + carry), Wrap(base - carry * Power(exp)), exp)

\* The digits of a number with exp of them.
Lifted(a, exp) == a.base * Power(exp - a.exp)

Sum(a, b) ==
  LET exp == MaxOf(a.exp, b.exp)
  IN Carried(Wrap(a.int + b.int), Wrap(Lifted(a, exp) + Lifted(b, exp)), exp)

Difference(a, b) ==
  LET exp == MaxOf(a.exp, b.exp)
  IN Carried(Wrap(a.int - b.int), Wrap(Lifted(a, exp) - Lifted(b, exp)), exp)

\* Mutant: the powers go with the wrong factors.
MutCrossed(a, b) ==
  <<Times(Times(a.int, b.base), Power(b.exp)),
    Times(Times(b.int, a.base), Power(a.exp)), Times(a.base, b.base)>>

\* The digits of a product come from three terms; Power(-1) is 0 and takes one away.
Cross(a, b) ==
  <<Times(Times(a.int, b.base), Power(a.exp)),
    Times(Times(b.int, a.base), Power(b.exp)), Times(a.base, b.base)>>

ProductExp(a, b) == IF a.exp + b.exp < 0 THEN -1 ELSE a.exp + b.exp

Divisor(exp) == IF exp < 0 THEN 1 ELSE Power(exp)

Product(a, b) ==
  LET exp == ProductExp(a, b)
      base == Wrap(Cross(a, b)[1] + Cross(a, b)[2] + Cross(a, b)[3])
  IN Number(Wrap(a.int * b.int + Quot(base, Divisor(exp))), Rem(base, Divisor(exp)), exp)

\* /=, to the digits of the dividend, which keeps its m_exp.  theirs >> 1 rounds down.
Mine(a, b) ==
  a.int * Power(MaxOf(a.exp, 0) + MaxOf(b.exp, 0)) + a.base * Power(MaxOf(b.exp, 0))
Theirs(b) == Wrap(b.int * Power(MaxOf(b.exp, 0)) + b.base)
Rounded(a, b) == Mine(a, b) + Theirs(b) \div 2

Quotient(a, b) ==
  LET result == Quot(Wrap(Rounded(a, b)), Theirs(b))
      unit == Power(MaxOf(a.exp, 0))
  IN Number(Quot(result, unit), Rem(result, unit), a.exp)

\* setAccuracy.  m_exp is not set where digits are added or taken away.
WithAccuracy(a, accuracy) ==
  CASE a.exp < 0 \/ accuracy < 0 -> Number(a.int, 0, accuracy)
    [] a.exp >= 0 /\ accuracy \in 0..a.exp - 1 ->
         Number(a.int, Quot(a.base, Power(a.exp - accuracy)), a.exp)
    [] a.exp >= 0 /\ accuracy > a.exp ->
         Number(a.int, Wrap(a.base * Power(accuracy - a.exp)), a.exp)
    [] OTHER -> a

-----------------------------------------------------------------------------
\* The program.

NumberInit == x = Number(0, 0, 0) /\ double = 0 /\ last = [op |-> "none"] /\ ops = 0

Do(op, operand, result) ==
  /\ ops < MaxOps /\ ops' = ops + 1
  /\ last' = [op |-> op, before |-> x, operand |-> operand]
  /\ x' = result

\* The arithmetic and setAccuracy leave the double as it was.
Compute(op, operand, result) == Do(op, operand, result) /\ UNCHANGED double

\* The assign functions; one number is constructed, the other assigned.  An int goes
\* through initFromDouble as well.
AssignString(s) ==
  Do("string", s, FromString(s, x.base)) /\ double' = DoubleOf(FromString(s, x.base))
AssignNumber(s, old) ==
  Do("number", s, FromString(s, old)) /\ double' = DoubleOf(FromString(s, old))

\* A double beyond a long is undefined behaviour, which is left out.
AssignDouble(s) ==
  /\ Abs(DoubleRead(s)) \div One <= LongMax
  /\ Do("double", s, FromDouble(DoubleRead(s))) /\ double' = DoubleRead(s)

\* The result starts as a number of its own.
Negate == Do("negate", x, Minus(x)) /\ double' = 0

\* Powers of ten beyond the table throw, += and -= with the integer part changed; a
\* number without a point counts as -1 digits.
Alignable(a, b) == a.exp - b.exp \in -MaxPower..MaxPower

AddTo(b) ==
  \/ Alignable(x, b) /\ Compute("add", b, Sum(x, b))
  \/ /\ ~Alignable(x, b)
     /\ Compute("thrown", b, Number(Wrap(x.int + b.int), x.base, x.exp))
TakeFrom(b) ==
  \/ Alignable(x, b) /\ Compute("subtract", b, Difference(x, b))
  \/ /\ ~Alignable(x, b)
     /\ Compute("thrown", b, Number(Wrap(x.int - b.int), x.base, x.exp))

InTable(b) == x.exp + b.exp <= MaxPower

Multiply(b) == InTable(b) /\ Compute("multiply", b, Product(x, b))

\* A divisor of zero ends the process, and so does a quotient beyond a long.
Divide(b) ==
  /\ InTable(b) /\ Theirs(b) # 0
  /\ Fits(Quot(Wrap(Rounded(x, b)), Theirs(b)))
  /\ Compute("divide", b, Quotient(x, b))

SetAccuracy(n) == Compute("accuracy", n, WithAccuracy(x, n))

\* Bound: accuracies are no larger than the default.
NumberNext ==
  \/ \E s \in Literals :
       \/ AssignString(s) \/ AssignDouble(s)
       \/ \E old \in Garbage :
            \/ AssignNumber(s, old)
            \/ LET b == FromString(s, old)
               IN AddTo(b) \/ TakeFrom(b) \/ Multiply(b) \/ Divide(b)
  \/ Negate
  \/ \E n \in -1..DefaultAccuracy : SetAccuracy(n)

NumberSpec == NumberInit /\ [][NumberNext]_numberVars

-----------------------------------------------------------------------------
\* The numbers denoted: Value(n) / 10 ^ Scale(n).

Scale(n) == MaxOf(n.exp, 0)
Value(n) == n.int * Power(Scale(n)) + n.base
At(n, scale) == Value(n) * Power(scale - Scale(n))

Read(s) ==
  LET units == s.whole * Power(MaxOf(s.places, 0)) + s.frac
  IN IF s.neg THEN -units ELSE units

Normal(n) ==
  /\ Abs(n.base) < Power(Scale(n))
  /\ n.int > 0 => n.base >= 0
  /\ n.int < 0 => n.base <= 0

\* No step of a computation leaves the range of a long.
CarriedFits(int, base, exp) ==
  LET carry == Carry(int, base, exp)
  IN Fits(int) /\ Fits(base) /\ Fits(int + carry) /\ Fits(base - carry * Power(exp))

SumFits(a, b) ==
  LET exp == MaxOf(a.exp, b.exp)
  IN CarriedFits(a.int + b.int, Lifted(a, exp) + Lifted(b, exp), exp)

DifferenceFits(a, b) ==
  LET exp == MaxOf(a.exp, b.exp)
  IN CarriedFits(a.int - b.int, Lifted(a, exp) - Lifted(b, exp), exp)

MinusFits(a) == Fits(-a.int) /\ Fits(-a.base)

TimesFits(a, b, c) == Fits(a * b) /\ Fits(a * b * c)

ProductFits(a, b) ==
  LET base == Cross(a, b)[1] + Cross(a, b)[2] + Cross(a, b)[3]
  IN /\ TimesFits(a.int, b.base, Power(a.exp))
     /\ TimesFits(b.int, a.base, Power(b.exp))
     /\ Fits(a.base * b.base)
     /\ Fits(base) /\ Fits(a.int * b.int + Quot(base, Divisor(ProductExp(a, b))))

\* What is lost where: a sign, digits that are not there, a term of the product.
SignLost(s) == s.neg /\ s.whole = 0 /\ s.frac # 0
Stale(s, old) == s.places = 0 /\ old.base # 0
TermLost(a, b) == (a.exp < 0 /\ b.base # 0) \/ (b.exp < 0 /\ a.base # 0)
Rescaled(a, n) == a.base # 0 /\ a.exp >= 0 /\ n >= 0 /\ n # a.exp

\* Reading, adding, subtracting and multiplying are exact in a long; what is read of
\* a double is off by less than a unit of the last digit, a quotient by half a unit
\* if nothing is negative and by less than one and a half if something is.  Except:
\* "-0.5" loses its sign, "5." keeps the digits that memory held, a number without a
\* point takes a term out of a product, setAccuracy changes the value, and so does
\* what throws.
ArithmeticExact ==
  LET a == last.before
      b == last.operand
  IN CASE last.op = "none" -> TRUE
       [] last.op = "string" -> SignLost(b) \/ Stale(b, a) \/ Value(x) = Read(b)
       [] last.op = "number" -> SignLost(b) \/ b.places = 0 \/ Value(x) = Read(b)
       [] last.op = "double" ->
            Abs(double * Power(DefaultAccuracy) - At(x, DefaultAccuracy) * One) < One
       [] last.op = "negate" -> MinusFits(a) => Value(x) = -Value(a)
       [] last.op = "add" ->
            SumFits(a, b) => Value(x) = At(a, Scale(x)) + At(b, Scale(x))
       [] last.op = "subtract" ->
            DifferenceFits(a, b) => Value(x) = At(a, Scale(x)) - At(b, Scale(x))
       [] last.op = "multiply" ->
            ProductFits(a, b) /\ ~TermLost(a, b) =>
              At(x, Scale(a) + Scale(b)) = Value(a) * Value(b)
       [] last.op = "divide" ->
            Fits(Rounded(a, b)) =>
              LET off == Abs(Value(x) * Theirs(b) - Mine(a, b))
              IN IF Mine(a, b) >= 0 /\ Theirs(b) > 0 THEN 2 * off <= Theirs(b)
                 ELSE 2 * off < 3 * Abs(Theirs(b))
       [] last.op = "accuracy" ->
            Rescaled(a, b) \/ At(x, MaxOf(Scale(x), Scale(a)))
                              = At(IF b < 0 THEN Number(a.int, 0, -1) ELSE a,
                                   MaxOf(Scale(x), Scale(a)))
       [] last.op = "thrown" -> TRUE

\* A number in normal form is printed as what it is, unless it is a negative
\* fraction,
PrintsAgree ==
  Normal(x) /\ (x.int = 0 => x.base >= 0) =>
    \A old \in Garbage :
      LET y == FromString(ToString(x), old)
          scale == MaxOf(Scale(x), Scale(y))
      IN At(y, scale) = At(x, scale)

\* and compares as what it is, unless it is a fraction below the int it is
\* compared with.
ComparesAgree ==
  Normal(x) =>
    \A s \in Literals, old \in Garbage :
      LET y == FromString(s, old)
          scale == MaxOf(Scale(x), Scale(y))
      IN /\ Normal(y) /\ Alignable(x, y) =>
              /\ Less(x, y) <=> At(x, scale) < At(y, scale)
              /\ Greater(x, y) <=> At(x, scale) > At(y, scale)
              /\ Equal(x, y) <=> At(x, scale) = At(y, scale)
         /\ x.int # s.whole \/ x.base >= 0 =>
              (LessInt(x, s.whole) <=> Value(x) < s.whole * Power(Scale(x)))
         /\ GreaterInt(x, s.whole) <=> Value(x) > s.whole * Power(Scale(x))
         /\ EqualInt(x, s.whole) <=> Value(x) = s.whole * Power(Scale(x))

\* The operations keep the normal form of number and operand, but for the digits that
\* "5." leaves, what throws, and a sum or difference whose integer parts cancel or
\* whose digits make exactly one.
NormalKept ==
  last.op # "none" /\ Normal(last.before) =>
    \/ Normal(x)
    \/ last.op \in {"string", "number"} /\ last.operand.places = 0
    \/ last.op \in {"add", "subtract", "multiply"} /\ ~Normal(last.operand)
    \/ last.op = "thrown"
    \/ last.op = "accuracy" /\ Rescaled(last.before, last.operand)
    \/ last.op = "negate" /\ ~MinusFits(last.before)
    \/ last.op = "add" /\ ~SumFits(last.before, last.operand)
    \/ last.op = "subtract" /\ ~DifferenceFits(last.before, last.operand)
    \/ last.op \in {"add", "subtract"} /\ x.int = 0
    \/ last.op \in {"add", "subtract"} /\ Abs(x.base) = Power(x.exp)
    \/ last.op = "multiply" /\ ~ProductFits(last.before, last.operand)

\* As long as nothing has been computed with it, the rounding of m_doubleValue never
\* puts it on the wrong side of a double: one from a string whose parts are doubles is
\* not less than a double that is no more than it is, and one from a double keeps to
\* it but for the last digit.
HeldExactly(n) ==
  Normal(n) /\ Round(n.int * One) = n.int * One /\ Round(n.base * One) = n.base * One

DoublesAgree ==
  (last.op = "double" \/ (last.op \in {"string", "number"} /\ HeldExactly(x))) =>
  LET scale == MaxOf(DefaultAccuracy, Scale(x))
      exact == At(x, scale) * One
      unit == IF last.op = "double" THEN One ELSE 0
  IN \A s \in Literals :
       LET d == DoubleRead(s)
       IN /\ DoubleLess(double, d) => exact < d * Power(scale) + unit
          /\ DoubleGreater(double, d) => exact > d * Power(scale) - unit

\* What a number looks like, in print and in comparisons, is what it is: each with
\* the exceptions named above.
ViewsAgree == PrintsAgree /\ ComparesAgree /\ NormalKept /\ DoublesAgree
===============================================================================
