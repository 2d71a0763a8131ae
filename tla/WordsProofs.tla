----------------------------- MODULE WordsProofs -----------------------------
(***************************************************************************)
(* The multi-word arithmetic of Words is the arithmetic of naturals, for   *)
(* every width of a machine word.  Each level of the code works on two     *)
(* halves: the lemmas on halves are stated once, for numbers, with H the   *)
(* size of a half, and cited for machine words (H = 2^B) and for uint128   *)
(* (H = 2^(2B)).  The second part is about products: the recursion over    *)
(* halves, the two loops over machine words and the power by squaring.  A  *)
(* step is stated for numbers, with its halves or digits named; equations  *)
(* with products in them are kept behind a name until the step that needs  *)
(* them.                                                                   *)
(***************************************************************************)
EXTENDS Words, Induction

-----------------------------------------------------------------------------
(* Quotients and remainders *)

LEMMA QuotRem ==
    ASSUME NEW x \in Int, NEW d \in Nat, d > 0
    PROVE  /\ x \div d \in Int /\ x % d \in 0 .. d - 1
           /\ x = (x \div d) * d + (x % d)
  <1>1. PICK q \in Int : q = x \div d
    OBVIOUS
  <1>2. PICK r \in Int : r = x % d
    OBVIOUS
  <1>3. x = q * d + r
    BY <1>1, <1>2
  <1> QED
    BY <1>1, <1>2, <1>3

LEMMA QuotRemUnique ==
    ASSUME NEW q \in Int, NEW d \in Nat, NEW r \in Nat, r < d
    PROVE  (q * d + r) \div d = q /\ (q * d + r) % d = r
  OBVIOUS

LEMMA ProductOfNaturals ==
    ASSUME NEW a \in Nat, NEW b \in Nat
    PROVE  a * b \in Nat /\ (a > 0 /\ b > 0 => a * b > 0)
  OBVIOUS

\* A product is monotonic in each factor.
LEMMA ProductMonotonic ==
    ASSUME NEW a \in Int, NEW b \in Int, NEW c \in Nat
    PROVE  /\ a <= b => a * c <= b * c
           /\ a < b => a * c + c <= b * c
           /\ a < b /\ c > 0 => a * c < b * c
  <1>1. \A u, v \in Nat : u * v \in Nat
    OBVIOUS
  <1>2. (b - a) * c = b * c - a * c /\ (b - a - 1) * c = b * c - a * c - c
    OBVIOUS
  <1> QED
    BY <1>1, <1>2

\* The quotient of a natural.
LEMMA QuotNat ==
    ASSUME NEW x \in Nat, NEW d \in Nat, d > 0
    PROVE  /\ x \div d \in Nat /\ x % d \in 0 .. d - 1
           /\ x = (x \div d) * d + (x % d)
           /\ (x \div d) * d <= x
  <1>1. PICK q \in Int : q = x \div d
    OBVIOUS
  <1>2. PICK r \in Int : r = x % d
    OBVIOUS
  <1>3. x = q * d + r /\ r \in 0 .. d - 1
    BY <1>1, <1>2
  <1>4. q >= 0
    <2> SUFFICES ASSUME q < 0 PROVE FALSE
      OBVIOUS
    <2>1. q * d + d <= 0 * d
      BY ProductMonotonic
    <2> QED
      BY <1>3, <2>1
  <1> QED
    BY <1>1, <1>2, <1>3, <1>4

\* A bound on the number is a bound on its quotient.
LEMMA QuotBelow ==
    ASSUME NEW x \in Nat, NEW d \in Nat, NEW n \in Nat, d > 0, x < n * d
    PROVE  x \div d \in 0 .. n - 1
  <1>1. PICK q \in Nat : q = x \div d /\ q * d <= x
    BY QuotNat
  <1>2. q < n
    <2> SUFFICES ASSUME n <= q PROVE FALSE
      OBVIOUS
    <2>1. n * d <= q * d
      BY ProductMonotonic
    <2> QED
      BY <1>1, <2>1
  <1> QED
    BY <1>1, <1>2

\* Two numbers below their sizes make one below the product of the sizes.
LEMMA PairBelow ==
    ASSUME NEW d \in Nat, NEW n \in Nat, NEW q \in 0 .. n - 1, NEW r \in 0 .. d - 1
    PROVE  q * d + r \in 0 .. n * d - 1
  <1>1. q * d + d <= n * d
    BY ProductMonotonic
  <1>2. q * d \in Nat /\ n * d \in Nat
    BY ProductOfNaturals
  <1> QED
    BY <1>1, <1>2

\* Adding a multiple of the modulus changes nothing.
LEMMA ModAdd ==
    ASSUME NEW x \in Int, NEW k \in Int, NEW d \in Nat, d > 0
    PROVE  (k * d + x) % d = x % d
  <1>1. PICK q \in Int, r \in 0 .. d - 1 : q = x \div d /\ r = x % d /\ x = q * d + r
    BY QuotRem
  <1>2. k * d + x = (k + q) * d + r
    BY <1>1
  <1>3. ((k + q) * d + r) % d = r
    BY QuotRemUnique
  <1> QED
    BY <1>1, <1>2, <1>3

LEMMA ModAddOnce ==
    ASSUME NEW x \in Int, NEW d \in Nat, d > 0
    PROVE  (x + d) % d = x % d
  <1>1. PICK q \in Int, r \in 0 .. d - 1 : q = x \div d /\ r = x % d /\ x = q * d + r
    BY QuotRem
  <1>2. x + d = (q + 1) * d + r
    BY <1>1
  <1>3. ((q + 1) * d + r) % d = r
    BY QuotRemUnique
  <1> QED
    BY <1>1, <1>2, <1>3

\* Dividing twice is dividing by the product.
LEMMA QuotOfQuot ==
    ASSUME NEW x \in Nat, NEW a \in Nat, NEW b \in Nat, a > 0, b > 0
    PROVE  (x \div a) \div b = x \div (a * b)
  <1>1. PICK q \in Nat, r \in 0 .. a - 1 : q = x \div a /\ x = q * a + r
    BY QuotNat
  <1>2. PICK p \in Nat, s \in 0 .. b - 1 : p = q \div b /\ q = p * b + s
    BY QuotNat
  <1>3. s * a + r \in 0 .. b * a - 1
    BY PairBelow
  <1>4. x = p * (a * b) + (s * a + r) /\ b * a = a * b
    BY <1>1, <1>2
  <1>5. (p * (a * b) + (s * a + r)) \div (a * b) = p
    <2>1. a * b \in Nat
      BY ProductOfNaturals
    <2> QED
      BY <1>3, <1>4, <2>1, QuotRemUnique
  <1> QED
    BY <1>1, <1>2, <1>4, <1>5

\* A factor may be reduced first.
LEMMA ModProduct ==
    ASSUME NEW x \in Int, NEW y \in Int, NEW d \in Nat, d > 0
    PROVE  ((x % d) * y) % d = (x * y) % d
  <1>1. PICK q \in Int, r \in 0 .. d - 1 : q = x \div d /\ r = x % d /\ x = q * d + r
    BY QuotRem
  <1>2. x * y = (q * y) * d + r * y /\ q * y \in Int /\ r * y \in Int
    BY <1>1
  <1>3. ((q * y) * d + r * y) % d = (r * y) % d
    BY <1>2, ModAdd
  <1> QED
    BY <1>1, <1>2, <1>3

LEMMA ModSum ==
    ASSUME NEW x \in Int, NEW y \in Int, NEW d \in Nat, d > 0
    PROVE  ((x % d) + y) % d = (x + y) % d
  <1>1. PICK q \in Int, r \in 0 .. d - 1 : q = x \div d /\ r = x % d /\ x = q * d + r
    BY QuotRem
  <1>2. x + y = q * d + (r + y)
    BY <1>1
  <1>3. (q * d + (r + y)) % d = (r + y) % d
    <2>1. PICK z \in Int : z = r + y
      BY <1>1
    <2>2. (q * d + z) % d = z % d
      BY ModAdd
    <2> QED
      BY <2>1, <2>2
  <1> QED
    BY <1>1, <1>2, <1>3

LEMMA ModSmall ==
    ASSUME NEW d \in Nat, NEW x \in 0 .. d - 1
    PROVE  x % d = x /\ x \div d = 0
  <1>1. 0 * d + x = x
    OBVIOUS
  <1> QED
    BY <1>1, QuotRemUnique, 0 \in Int
-----------------------------------------------------------------------------
(* Powers of two *)

LEMMA TwoToDefined == \A n \in Nat : TwoTo[n] = IF n = 0 THEN 1 ELSE 2 * TwoTo[n - 1]
  <1> DEFINE P(f) == f = [n \in Nat |-> IF n = 0 THEN 1 ELSE 2 * f[n - 1]]
             step == [i \in Nat |-> [v \in Nat |-> 2 * v]]
  <1>1. step \in [Nat -> [Nat -> Nat]]
    OBVIOUS
  <1>2. \A m \in Nat : \E f \in [0 .. m -> Nat] : Iterates(f, 1, step, m)
    <2> HIDE DEF step
    <2> TAKE m \in Nat
    <2> QED
      BY <1>1, 1 \in Nat, Recursion
  <1>3. \A m \in Nat : \E f \in [0 .. m -> Nat] :
           \A i \in 0 .. m : f[i] = IF i = 0 THEN 1 ELSE 2 * f[i - 1]
    <2> TAKE m \in Nat
    <2>1. PICK f \in [0 .. m -> Nat] : Iterates(f, 1, step, m)
      BY <1>2
    <2>2. ASSUME NEW i \in 1 .. m PROVE f[i] = 2 * f[i - 1]
      <3>1. f[i] = step[i][f[i - 1]]
        BY <2>1, Zenon DEF Iterates
      <3>2. f[i - 1] \in Nat /\ i \in Nat
        <4> HIDE DEF step
        <4>1. i - 1 \in 0 .. m
          OBVIOUS
        <4> QED
          BY <4>1
      <3> QED
        BY <3>1, <3>2
    <2>3. f[0] = 1
      BY <2>1 DEF Iterates
    <2> HIDE DEF step
    <2>4. \A i \in 0 .. m : f[i] = IF i = 0 THEN 1 ELSE 2 * f[i - 1]
      BY <2>2, <2>3
    <2> QED
      BY <2>1, <2>4
  <1> DEFINE F(m) == CHOOSE f \in [0 .. m -> Nat] :
                        \A i \in 0 .. m : f[i] = IF i = 0 THEN 1 ELSE 2 * f[i - 1]
             g == [n \in Nat |-> F(n)[n]]
  <1>4. \A m \in Nat : /\ F(m) \in [0 .. m -> Nat]
                       /\ \A i \in 0 .. m : F(m)[i] = IF i = 0 THEN 1 ELSE 2 * F(m)[i - 1]
    BY <1>3
  <1> HIDE DEF F
  <1>5. \A m \in Nat : \A i \in 0 .. m : F(m)[i] = F(i)[i]
    <2> DEFINE Good == {i \in Nat : \A m \in Nat : i <= m => F(m)[i] = F(i)[i]}
    <2>1. 0 \in Good
      BY <1>4
    <2>2. ASSUME NEW n \in Nat, n \in Good PROVE n + 1 \in Good
      <3>1. ASSUME NEW m \in Nat, n + 1 <= m PROVE F(m)[n + 1] = F(n + 1)[n + 1]
        <4>1. F(m)[n + 1] = 2 * F(m)[n] /\ F(n + 1)[n + 1] = 2 * F(n + 1)[n]
          BY <1>4, <3>1
        <4>2. F(m)[n] = F(n)[n] /\ F(n + 1)[n] = F(n)[n]
          BY <2>2, <3>1
        <4> QED
          BY <4>1, <4>2
      <3> QED
        BY <3>1
    <2> HIDE DEF Good
    <2>3. Nat \subseteq Good
      BY <2>1, <2>2, AllNaturals
    <2> QED
      BY <2>3 DEF Good
  <1>6. P(g)
    <2>1. ASSUME NEW n \in Nat PROVE g[n] = IF n = 0 THEN 1 ELSE 2 * g[n - 1]
      <3>1. CASE n = 0
        BY <1>4, <3>1
      <3>2. CASE n # 0
        <4>1. F(n)[n] = 2 * F(n)[n - 1] /\ F(n)[n - 1] = F(n - 1)[n - 1]
          BY <1>4, <1>5, <3>2
        <4> QED
          BY <4>1, <3>2
      <3> QED
        BY <3>1, <3>2
    <2> QED
      BY <2>1
  <1>7. TwoTo = CHOOSE f : P(f)
    BY DEF TwoTo
  <1>8. P(TwoTo)
    <2> HIDE DEF P, g
    <2> QED
      BY <1>6, <1>7
  <1> HIDE DEF g
  <1> QED
    BY <1>8

LEMMA TwoToStep ==
    /\ TwoTo[0] = 1 /\ TwoTo[1] = 2
    /\ \A n \in Nat : TwoTo[n + 1] = 2 * TwoTo[n]
    /\ \A n \in Nat : TwoTo[n] \in Nat /\ TwoTo[n] > n
  <1>1. TwoTo[0] = 1 /\ \A n \in Nat : TwoTo[n + 1] = 2 * TwoTo[n]
    BY TwoToDefined
  <1> DEFINE Good == {n \in Nat : TwoTo[n] \in Nat /\ TwoTo[n] > n}
  <1>2. 0 \in Good
    BY <1>1
  <1>3. ASSUME NEW n \in Nat, n \in Good PROVE n + 1 \in Good
    BY <1>1, <1>3
  <1> HIDE DEF Good
  <1>4. Nat \subseteq Good
    BY <1>2, <1>3, AllNaturals
  <1>5. TwoTo[0 + 1] = 2 * TwoTo[0]
    BY <1>1
  <1> QED
    BY <1>1, <1>4, <1>5 DEF Good

LEMMA TwoToSum ==
    ASSUME NEW a \in Nat, NEW b \in Nat
    PROVE  TwoTo[a + b] = TwoTo[a] * TwoTo[b]
  <1> DEFINE Good == {n \in Nat : TwoTo[a + n] = TwoTo[a] * TwoTo[n]}
  <1>1. 0 \in Good
    BY TwoToStep
  <1>2. ASSUME NEW n \in Nat, n \in Good PROVE n + 1 \in Good
    <2>1. TwoTo[a + n + 1] = 2 * TwoTo[a + n] /\ TwoTo[n + 1] = 2 * TwoTo[n]
      BY TwoToStep
    <2>2. PICK u \in Nat, v \in Nat : u = TwoTo[a] /\ v = TwoTo[n]
      BY TwoToStep
    <2>3. TwoTo[a + n] = u * v
      BY <1>2, <2>2
    <2>4. 2 * (u * v) = u * (2 * v)
      BY <2>2
    <2> QED
      BY <2>1, <2>2, <2>3, <2>4
  <1> HIDE DEF Good
  <1>3. Nat \subseteq Good
    BY <1>1, <1>2, AllNaturals
  <1> QED
    BY <1>3 DEF Good

LEMMA TwoToMonotonic ==
    ASSUME NEW a \in Nat, NEW b \in Nat, a <= b
    PROVE  TwoTo[a] <= TwoTo[b] /\ TwoTo[b] = TwoTo[b - a] * TwoTo[a]
  <1>1. b - a \in Nat /\ (b - a) + a = b
    OBVIOUS
  <1>2. TwoTo[b] = TwoTo[b - a] * TwoTo[a]
    BY <1>1, TwoToSum
  <1>3. PICK u \in Nat, v \in Nat : u = TwoTo[a] /\ v = TwoTo[b - a] /\ v >= 1
    BY <1>1, TwoToStep
  <1>4. 1 * u <= v * u
    BY <1>3, ProductMonotonic
  <1> QED
    BY <1>2, <1>3, <1>4

-----------------------------------------------------------------------------
(* Machine words, and what their halves and digits are *)

Word(w) == 0 .. Size(w) - 1

LEMMA SizeFacts ==
    /\ B \in Nat /\ B > 1
    /\ Beta = Size(1) /\ Size(0) = 1
    /\ \A w \in Nat : w * B \in Nat /\ Size(w) \in Nat /\ Size(w) >= 1 /\ TwoTo[w * B] = Size(w)
    /\ \A v, w \in Nat : Size(v + w) = Size(v) * Size(w)
    /\ Beta \in Nat /\ Beta >= 4
  <1>1. B \in Nat /\ B > 1
    BY WidthAssumption
  <1>2. \A w \in Nat : w * B \in Nat
    BY <1>1, ProductOfNaturals
  <1>3. \A w \in Nat : Size(w) \in Nat /\ Size(w) >= 1 /\ TwoTo[w * B] = Size(w)
    BY <1>2, TwoToStep DEF Size
  <1>4. ASSUME NEW v \in Nat, NEW w \in Nat PROVE Size(v + w) = Size(v) * Size(w)
    <2>1. (v + w) * B = v * B + w * B
      BY <1>1
    <2> QED
      BY <1>2, <2>1, TwoToSum DEF Size
  <1>5. Beta = Size(1) /\ Size(0) = 1
    <2>1. 1 * B = B /\ 0 * B = 0
      BY <1>1
    <2> QED
      BY <2>1, TwoToStep DEF Beta, Size
  <1>6. Beta \in Nat /\ Beta >= 4
    <2>1. TwoTo[2] <= TwoTo[B] /\ TwoTo[1 + 1] = 2 * TwoTo[1]
      <3>1. 2 \in Nat /\ 2 <= B /\ 1 \in Nat
        BY <1>1
      <3> QED
        BY <1>1, <3>1, TwoToMonotonic, TwoToStep, Zenon
    <2>2. TwoTo[2] = 4
      BY <2>1, TwoToStep
    <2> QED
      BY <1>1, <2>1, <2>2, TwoToStep DEF Beta
  <1> QED
    BY <1>1, <1>2, <1>3, <1>4, <1>5, <1>6

\* x is made of the halves hi and lo, each below H.
Split(H, x, hi, lo) == /\ hi \in 0 .. H - 1 /\ lo \in 0 .. H - 1
                       /\ x = hi * H + lo

\* The halves of a number and the number made of two halves.
LEMMA HalvesOf ==
    ASSUME NEW H \in Nat, NEW x \in 0 .. H * H - 1, H > 0
    PROVE  /\ x \div H \in 0 .. H - 1 /\ x % H \in 0 .. H - 1
           /\ x = (x \div H) * H + (x % H)
  <1>1. x \in Nat /\ x < H * H
    BY ProductOfNaturals
  <1> QED
    BY <1>1, QuotNat, QuotBelow

LEMMA JoinOf ==
    ASSUME NEW H \in Nat, NEW hi \in 0 .. H - 1, NEW lo \in 0 .. H - 1
    PROVE  /\ hi * H + lo \in 0 .. H * H - 1
           /\ (hi * H + lo) \div H = hi /\ (hi * H + lo) % H = lo
  BY PairBelow, QuotRemUnique

LEMMA HalfSizes ==
    /\ Size(2 \div 2) = Beta /\ Size(4 \div 2) = Size(2) /\ Size(8 \div 2) = Size(4)
    /\ Size(2) = Beta * Beta /\ Size(4) = Size(2) * Size(2) /\ Size(8) = Size(4) * Size(4)
    /\ Beta \in Nat /\ Size(2) \in Nat /\ Size(4) \in Nat /\ Size(8) \in Nat
    /\ Beta >= 4 /\ Size(2) >= 16 /\ Size(4) >= 256 /\ Size(1) = Beta
  <1>1. 2 \div 2 = 1 /\ 4 \div 2 = 2 /\ 8 \div 2 = 4
    OBVIOUS
  <1>2. Size(1 + 1) = Size(1) * Size(1) /\ Size(2 + 2) = Size(2) * Size(2) /\ Size(4 + 4) = Size(4) * Size(4)
    BY SizeFacts, Zenon, 1 \in Nat, 2 \in Nat, 4 \in Nat
  <1>3. Size(2) = Size(1) * Size(1) /\ Size(4) = Size(2) * Size(2) /\ Size(8) = Size(4) * Size(4)
    BY <1>2
  <1>4. \A n \in {1, 2, 4, 8} : Size(n) \in Nat
    BY SizeFacts
  <1>5. Size(1) = Beta /\ Beta \in Nat /\ Beta >= 4
    BY SizeFacts
  <1>6. PICK b \in Nat, c \in Nat, d \in Nat : b = Beta /\ c = Size(2) /\ d = Size(4)
    BY <1>4, <1>5
  <1>7. c = b * b /\ d = c * c /\ b >= 4
    BY <1>3, <1>5, <1>6
  <1>8. c >= 16
    BY <1>7, 4 * b <= b * b, ProductMonotonic
  <1>9. d >= 256
    BY <1>7, <1>8, 16 * c <= c * c, ProductMonotonic
  <1> QED
    BY <1>1, <1>3, <1>4, <1>5, <1>6, <1>8, <1>9

LEMMA Halves ==
    /\ \A x \in Word(2) : Split(Beta, x, HiHalf(2, x), LoHalf(2, x))
    /\ \A x \in Word(4) : Split(Size(2), x, HiHalf(4, x), LoHalf(4, x))
    /\ \A x \in Word(8) : Split(Size(4), x, HiHalf(8, x), LoHalf(8, x))
  <1>1. ASSUME NEW x \in Word(2) PROVE Split(Beta, x, HiHalf(2, x), LoHalf(2, x))
    <2>1. Beta \in Nat /\ Beta > 0 /\ x \in 0 .. Beta * Beta - 1
      BY HalfSizes DEF Word
    <2>2. HiHalf(2, x) = x \div Beta /\ LoHalf(2, x) = x % Beta
      BY HalfSizes DEF HiHalf, LoHalf
    <2> QED
      BY <2>1, <2>2, HalvesOf DEF Split
  <1>2. ASSUME NEW x \in Word(4) PROVE Split(Size(2), x, HiHalf(4, x), LoHalf(4, x))
    <2>1. Size(2) \in Nat /\ Size(2) > 0 /\ x \in 0 .. Size(2) * Size(2) - 1
      BY HalfSizes DEF Word
    <2>2. HiHalf(4, x) = x \div Size(2) /\ LoHalf(4, x) = x % Size(2)
      BY HalfSizes DEF HiHalf, LoHalf
    <2> QED
      BY <2>1, <2>2, HalvesOf DEF Split
  <1>3. ASSUME NEW x \in Word(8) PROVE Split(Size(4), x, HiHalf(8, x), LoHalf(8, x))
    <2>1. Size(4) \in Nat /\ Size(4) > 0 /\ x \in 0 .. Size(4) * Size(4) - 1
      BY HalfSizes DEF Word
    <2>2. HiHalf(8, x) = x \div Size(4) /\ LoHalf(8, x) = x % Size(4)
      BY HalfSizes DEF HiHalf, LoHalf
    <2> QED
      BY <2>1, <2>2, HalvesOf DEF Split
  <1> QED
    BY <1>1, <1>2, <1>3

LEMMA Joins ==
    /\ \A hi, lo \in Word(1) :
          /\ Join(2, hi, lo) \in Word(2) /\ Split(Beta, Join(2, hi, lo), hi, lo)
          /\ HiHalf(2, Join(2, hi, lo)) = hi /\ LoHalf(2, Join(2, hi, lo)) = lo
    /\ \A hi, lo \in Word(2) :
          /\ Join(4, hi, lo) \in Word(4) /\ Split(Size(2), Join(4, hi, lo), hi, lo)
          /\ HiHalf(4, Join(4, hi, lo)) = hi /\ LoHalf(4, Join(4, hi, lo)) = lo
    /\ \A hi, lo \in Word(4) :
          /\ Join(8, hi, lo) \in Word(8) /\ Split(Size(4), Join(8, hi, lo), hi, lo)
          /\ HiHalf(8, Join(8, hi, lo)) = hi /\ LoHalf(8, Join(8, hi, lo)) = lo
  <1>1. ASSUME NEW hi \in Word(1), NEW lo \in Word(1)
        PROVE  /\ Join(2, hi, lo) \in Word(2) /\ Split(Beta, Join(2, hi, lo), hi, lo)
               /\ HiHalf(2, Join(2, hi, lo)) = hi /\ LoHalf(2, Join(2, hi, lo)) = lo
    <2>1. Beta \in Nat /\ Word(1) = 0 .. Beta - 1 /\ Word(2) = 0 .. Beta * Beta - 1
      BY HalfSizes DEF Word
    <2>2. Join(2, hi, lo) = hi * Beta + lo
      BY HalfSizes DEF Join
    <2>3. PICK j : j = hi * Beta + lo
      OBVIOUS
    <2>4. HiHalf(2, j) = j \div Beta /\ LoHalf(2, j) = j % Beta
      BY HalfSizes DEF HiHalf, LoHalf
    <2>5. j \in 0 .. Beta * Beta - 1 /\ j \div Beta = hi /\ j % Beta = lo
      BY <2>1, <2>3, JoinOf
    <2> QED
      BY <2>1, <2>2, <2>3, <2>4, <2>5 DEF Split
  <1>2. ASSUME NEW hi \in Word(2), NEW lo \in Word(2)
        PROVE  /\ Join(4, hi, lo) \in Word(4) /\ Split(Size(2), Join(4, hi, lo), hi, lo)
               /\ HiHalf(4, Join(4, hi, lo)) = hi /\ LoHalf(4, Join(4, hi, lo)) = lo
    <2>1. Size(2) \in Nat /\ Word(2) = 0 .. Size(2) - 1 /\ Word(4) = 0 .. Size(2) * Size(2) - 1
      BY HalfSizes DEF Word
    <2>2. Join(4, hi, lo) = hi * Size(2) + lo
      BY HalfSizes DEF Join
    <2>3. PICK j : j = hi * Size(2) + lo
      OBVIOUS
    <2>4. HiHalf(4, j) = j \div Size(2) /\ LoHalf(4, j) = j % Size(2)
      BY HalfSizes DEF HiHalf, LoHalf
    <2>5. j \in 0 .. Size(2) * Size(2) - 1 /\ j \div Size(2) = hi /\ j % Size(2) = lo
      BY <2>1, <2>3, JoinOf
    <2> QED
      BY <2>1, <2>2, <2>3, <2>4, <2>5 DEF Split
  <1>3. ASSUME NEW hi \in Word(4), NEW lo \in Word(4)
        PROVE  /\ Join(8, hi, lo) \in Word(8) /\ Split(Size(4), Join(8, hi, lo), hi, lo)
               /\ HiHalf(8, Join(8, hi, lo)) = hi /\ LoHalf(8, Join(8, hi, lo)) = lo
    <2>1. Size(4) \in Nat /\ Word(4) = 0 .. Size(4) - 1 /\ Word(8) = 0 .. Size(4) * Size(4) - 1
      BY HalfSizes DEF Word
    <2>2. Join(8, hi, lo) = hi * Size(4) + lo
      BY HalfSizes DEF Join
    <2>3. PICK j : j = hi * Size(4) + lo
      OBVIOUS
    <2>4. HiHalf(8, j) = j \div Size(4) /\ LoHalf(8, j) = j % Size(4)
      BY HalfSizes DEF HiHalf, LoHalf
    <2>5. j \in 0 .. Size(4) * Size(4) - 1 /\ j \div Size(4) = hi /\ j % Size(4) = lo
      BY <2>1, <2>3, JoinOf
    <2> QED
      BY <2>1, <2>2, <2>3, <2>4, <2>5 DEF Split
  <1> QED
    BY <1>1, <1>2, <1>3

LEMMA JoinedSplit ==
    /\ \A x, hi, lo : Split(Beta, x, hi, lo) => Join(2, hi, lo) \in Word(2) /\ Join(2, hi, lo) = x
    /\ \A x, hi, lo : Split(Size(2), x, hi, lo) => Join(4, hi, lo) \in Word(4) /\ Join(4, hi, lo) = x
    /\ \A x, hi, lo : Split(Size(4), x, hi, lo) => Join(8, hi, lo) \in Word(8) /\ Join(8, hi, lo) = x
  <1>1. Word(1) = 0 .. Beta - 1 /\ Word(2) = 0 .. Size(2) - 1 /\ Word(4) = 0 .. Size(4) - 1
    BY HalfSizes DEF Word
  <1> QED
    BY <1>1, Joins DEF Split

\* What the C type keeps of an integer.
LEMMA Kept ==
    /\ \A n \in Int : U(1, n) \in Word(1) /\ U(1, n) = n % Beta
    /\ \A n \in Word(1) : U(1, n) = n
    /\ \A n \in Word(1) : n \in Nat /\ n < Beta
    /\ \A n \in Word(2) : n \in Nat /\ n < Size(2)
    /\ \A n \in Word(4) : n \in Nat /\ n < Size(4)
  <1>1. ASSUME NEW n \in Int PROVE U(1, n) \in Word(1) /\ U(1, n) = n % Beta
    BY HalfSizes, QuotRem DEF U, Word
  <1>2. ASSUME NEW n \in Word(1) PROVE U(1, n) = n
    BY HalfSizes, ModSmall DEF U, Word
  <1> QED
    BY <1>1, <1>2, HalfSizes DEF Word

LEMMA KeptWord == \A n \in Int : U(1, n) \in 0 .. Beta - 1 /\ U(1, n) = n % Beta
  BY Kept, HalfSizes DEF Word

-----------------------------------------------------------------------------
(* Sums *)

\* The sum of x, y and c is s, modulo n, and carries k.
Carries(n, x, y, c, k, s) == /\ s \in 0 .. n - 1 /\ k \in Int
                             /\ x + y + c = k * n + s

\* A sum by halves: what the low halves carry enters the high halves.
LEMMA SumOfHalves ==
    ASSUME NEW H \in Nat, H > 0,
           NEW xh, NEW xl, NEW yh, NEW yl, NEW hi, NEW lo, NEW c \in Int, NEW d \in Int, NEW k \in Int,
           NEW x, NEW y, NEW s,
           Split(H, x, xh, xl), Split(H, y, yh, yl), Split(H, s, hi, lo),
           Carries(H, xl, yl, d, c, lo), Carries(H, xh, yh, c, k, hi)
    PROVE  Carries(H * H, x, y, d, k, s)
  <1> USE DEF Split, Carries
  <1>1. x + y + d = k * (H * H) + (hi * H + lo)
    <2>1. (xh + yh + c) * H = xh * H + yh * H + c * H /\ (k * H + hi) * H = k * (H * H) + hi * H
      OBVIOUS
    <2> QED
      BY <2>1
  <1>2. hi * H + lo \in 0 .. H * H - 1
    BY JoinOf
  <1> QED
    BY <1>1, <1>2

LEMMA CarriedSum ==
    ASSUME NEW n \in Nat, NEW x \in Int, NEW y \in Int, NEW c \in Int, NEW k, NEW s, Carries(n, x, y, c, k, s)
    PROVE  (x + y + c) % n = s /\ (x + y + c) \div n = k
  BY QuotRemUnique DEF Carries

\* A sum of two numbers below H wrapped around exactly when it is below one of
\* them.
LEMMA WrappedSum ==
    ASSUME NEW H \in Nat, H > 0, NEW x \in 0 .. H - 1, NEW y \in 0 .. H - 1, NEW s \in Int, s = x + y
    PROVE  /\ s % H = IF s < H THEN s ELSE s - H
           /\ x > s % H <=> s >= H
  <1>1. s < H => s % H = s
    BY ModSmall
  <1>2. s >= H => s % H = s - H
    <2> SUFFICES ASSUME s >= H PROVE s % H = s - H
      OBVIOUS
    <2>1. PICK r \in Nat : r = s - H /\ r < H
      OBVIOUS
    <2>2. (1 * H + r) % H = r
      BY <2>1, QuotRemUnique
    <2>3. 1 * H + r = s
      BY <2>1
    <2> QED
      BY <2>1, <2>2, <2>3
  <1> QED
    BY <1>1, <1>2

\* Comparing by halves is comparing.
LEMMA LessOfHalves ==
    ASSUME NEW h \in Nat, NEW x, NEW xh, NEW xl, NEW y, NEW yh, NEW yl, Split(h, x, xh, xl), Split(h, y, yh, yl)
    PROVE  x < y <=> xh < yh \/ (xh = yh /\ xl < yl)
  <1> USE DEF Split
  <1>1. xh < yh => xh * h + h <= yh * h
    BY ProductMonotonic
  <1>2. yh < xh => yh * h + h <= xh * h
    BY ProductMonotonic
  <1>3. PICK p \in Nat, q \in Nat : p = xh * h /\ q = yh * h
    BY ProductOfNaturals
  <1>4. xh = yh => p = q
    BY <1>3
  <1> QED
    BY <1>1, <1>2, <1>3, <1>4

LEMMA Less128Right == \A x, y \in Word(2) : Less128(x, y) <=> x < y
  <1> TAKE x \in Word(2), y \in Word(2)
  <1>1. Split(Beta, x, HiHalf(2, x), LoHalf(2, x)) /\ Split(Beta, y, HiHalf(2, y), LoHalf(2, y))
    BY Halves
  <1>2. x < y <=> \/ HiHalf(2, x) < HiHalf(2, y)
                  \/ HiHalf(2, x) = HiHalf(2, y) /\ LoHalf(2, x) < LoHalf(2, y)
    BY <1>1, HalfSizes, LessOfHalves
  <1> QED
    BY <1>2 DEF Less128, LessHalves

LEMMA Less256Right == \A x, y \in Word(4) : Less256(x, y) <=> x < y
  <1> TAKE x \in Word(4), y \in Word(4)
  <1>1. Split(Size(2), x, HiHalf(4, x), LoHalf(4, x)) /\ Split(Size(2), y, HiHalf(4, y), LoHalf(4, y))
    BY Halves
  <1>2. x < y <=> \/ HiHalf(4, x) < HiHalf(4, y)
                  \/ HiHalf(4, x) = HiHalf(4, y) /\ LoHalf(4, x) < LoHalf(4, y)
    BY <1>1, HalfSizes, LessOfHalves
  <1>3. HiHalf(4, x) \in Word(2) /\ LoHalf(4, x) \in Word(2) /\ HiHalf(4, y) \in Word(2) /\ LoHalf(4, y) \in Word(2)
    BY <1>1 DEF Split, Word
  <1> QED
    BY <1>2, <1>3, Less128Right DEF Less256, LessHalves

LEMMA Add128Carries ==
    ASSUME NEW x \in Word(2), NEW y \in Word(2)
    PROVE  \E k \in Int : Carries(Size(2), x, y, 0, k, Add128(x, y))
  <1>1. PICK h \in Nat : h = Beta /\ h > 0
    BY HalfSizes
  <1>2. PICK xh \in 0 .. h - 1, xl \in 0 .. h - 1 :
           xh = HiHalf(2, x) /\ xl = LoHalf(2, x) /\ Split(h, x, xh, xl)
    BY <1>1, Halves DEF Split
  <1>3. PICK yh \in 0 .. h - 1, yl \in 0 .. h - 1 :
           yh = HiHalf(2, y) /\ yl = LoHalf(2, y) /\ Split(h, y, yh, yl)
    BY <1>1, Halves DEF Split
  <1>4. PICK s \in Int : s = xl + yl
    OBVIOUS
  <1>5. PICK lo \in 0 .. h - 1 : lo = U(1, s) /\ lo = s % h
    BY <1>1, <1>4, KeptWord
  <1>6. PICK c \in 0 .. 1 : c = (IF xl > lo THEN 1 ELSE 0)
    OBVIOUS
  <1>7. Carries(h, xl, yl, 0, c, lo)
    <2>1. xl > s % h <=> s >= h
      BY <1>1, <1>4, WrappedSum
    <2>2. s % h = IF s < h THEN s ELSE s - h
      BY <1>1, <1>4, WrappedSum
    <2> QED
      BY <1>4, <1>5, <1>6, <2>1, <2>2 DEF Carries
  <1>8. PICK t \in Int : t = xh + yh + c
    OBVIOUS
  <1>9. PICK hi \in 0 .. h - 1, k \in Int : hi = U(1, t) /\ t = k * h + hi
    BY <1>1, <1>8, KeptWord, QuotRem
  <1>10. Carries(h, xh, yh, c, k, hi)
    BY <1>8, <1>9 DEF Carries
  <1>11. Add128(x, y) = Join(2, hi, lo)
    BY <1>2, <1>3, <1>4, <1>5, <1>6, <1>8, <1>9 DEF Add128
  <1>12. Split(h, Join(2, hi, lo), hi, lo)
    BY <1>1, HalfSizes DEF Join, Split
  <1>13. Carries(h * h, x, y, 0, k, Join(2, hi, lo))
    BY <1>1, <1>2, <1>3, <1>7, <1>10, <1>12, SumOfHalves
  <1> QED
    BY <1>1, <1>11, <1>13, HalfSizes

LEMMA Add128Right ==
    \A x, y \in Word(2) : Add128(x, y) \in Word(2) /\ Add128(x, y) = (x + y) % Size(2)
  <1> TAKE x \in Word(2), y \in Word(2)
  <1> DEFINE s == Add128(x, y)
  <1>1. PICK k \in Int : Carries(Size(2), x, y, 0, k, s)
    BY Add128Carries
  <1> HIDE DEF s
  <1>2. PICK n \in Nat : n = Size(2)
    BY HalfSizes
  <1>3. x \in Int /\ y \in Int /\ x + y + 0 = x + y
    BY Kept
  <1>4. (x + y + 0) % n = s
    BY <1>1, <1>2, <1>3, CarriedSum
  <1>5. s \in Word(2)
    BY <1>1 DEF Carries, Word
  <1> QED
    BY <1>2, <1>3, <1>4, <1>5 DEF s

\* A sum of two numbers below n carries at most one.
LEMMA CarryIsABit ==
    ASSUME NEW n \in Nat, NEW x \in 0 .. n - 1, NEW y \in 0 .. n - 1, NEW k, NEW s, Carries(n, x, y, 0, k, s)
    PROVE  k \in 0 .. 1 /\ (k = 1 <=> x + y >= n)
  <1> USE DEF Carries
  <1>1. k > 1 => k * n >= 2 * n
    BY ProductMonotonic
  <1>2. k < 0 => k * n + n <= 0 * n
    BY ProductMonotonic
  <1>3. k = 0 => k * n = 0
    OBVIOUS
  <1>4. k = 1 => k * n = n
    OBVIOUS
  <1>5. PICK p \in Int : p = k * n
    OBVIOUS
  <1> QED
    BY <1>1, <1>2, <1>3, <1>4, <1>5

\* The carry of a sum as the code keeps it, a Boolean, and as a number.
LEMMA AddCarry128Right ==
    ASSUME NEW x \in Word(2), NEW y \in Word(2)
    PROVE  \E k \in 0 .. 1, s \in Word(2) :
              /\ AddCarry128(x, y) = [value |-> s, carry |-> k = 1]
              /\ Carries(Size(2), x, y, 0, k, s)
  <1> DEFINE s == Add128(x, y)
  <1>1. PICK k \in Int : Carries(Size(2), x, y, 0, k, s)
    BY Add128Carries
  <1>2. s \in Word(2) /\ s = (x + y) % Size(2)
    BY Add128Right
  <1>3. AddCarry128(x, y) = [value |-> s, carry |-> Less128(s, x)]
    BY DEF AddCarry128
  <1> HIDE DEF s
  <1>4. PICK n \in Nat, t \in Int : n = Size(2) /\ n > 0 /\ t = x + y /\ x \in 0 .. n - 1 /\ y \in 0 .. n - 1
    BY HalfSizes DEF Word
  <1>5. k \in 0 .. 1 /\ (k = 1 <=> t >= n)
    BY <1>1, <1>4, CarryIsABit
  <1>6. x > t % n <=> t >= n
    BY <1>4, WrappedSum
  <1>7. Less128(s, x) <=> k = 1
    <2>1. s < x <=> k = 1
      BY <1>2, <1>4, <1>5, <1>6, Kept
    <2> QED
      BY <1>2, <2>1, Less128Right
  <1>8. Less128(s, x) = (k = 1)
    BY <1>7 DEF Less128, LessHalves
  <1> QED
    BY <1>1, <1>2, <1>3, <1>5, <1>8

\* The carry of the low halves is added to the sum of the high ones, and both
\* of these sums may carry out.
LEMMA AddCarry256Right ==
    ASSUME NEW x \in Word(4), NEW y \in Word(4)
    PROVE  \E k \in 0 .. 1, s \in Word(4) :
              /\ AddCarry256(x, y) = [value |-> s, carry |-> k = 1]
              /\ Carries(Size(4), x, y, 0, k, s)
  <1>1. PICK xh \in Word(2), xl \in Word(2) :
           xh = HiHalf(4, x) /\ xl = LoHalf(4, x) /\ Split(Size(2), x, xh, xl)
    BY Halves DEF Split, Word
  <1>2. PICK yh \in Word(2), yl \in Word(2) :
           yh = HiHalf(4, y) /\ yl = LoHalf(4, y) /\ Split(Size(2), y, yh, yl)
    BY Halves DEF Split, Word
  <1>3. PICK c1 \in 0 .. 1, lo \in Word(2) :
           AddCarry128(xl, yl) = [value |-> lo, carry |-> c1 = 1] /\ Carries(Size(2), xl, yl, 0, c1, lo)
    BY AddCarry128Right
  <1>4. PICK c2 \in 0 .. 1, tt \in Word(2) :
           AddCarry128(xh, yh) = [value |-> tt, carry |-> c2 = 1] /\ Carries(Size(2), xh, yh, 0, c2, tt)
    BY AddCarry128Right
  <1>5. c1 \in Word(2)
    BY HalfSizes DEF Word
  <1>6. PICK c3 \in 0 .. 1, hi \in Word(2) :
           AddCarry128(tt, c1) = [value |-> hi, carry |-> c3 = 1] /\ Carries(Size(2), tt, c1, 0, c3, hi)
    BY <1>5, AddCarry128Right
  <1>7. PICK k \in Int : k = c2 + c3
    OBVIOUS
  <1>8. Carries(Size(2), xh, yh, c1, k, hi)
    <2>1. PICK n \in Nat : n = Size(2)
      BY HalfSizes
    <2>2. k * n = c2 * n + c3 * n
      BY <1>7
    <2>3. xh \in Int /\ yh \in Int /\ tt \in Int
      BY Kept
    <2>4. PICK p \in Int, q \in Int, r \in Int : p = c2 * n /\ q = c3 * n /\ r = k * n
      BY <1>7, <2>1
    <2>5. xh + yh + 0 = p + tt /\ tt + c1 + 0 = q + hi /\ hi \in 0 .. n - 1
      BY <1>4, <1>6, <2>1, <2>4 DEF Carries
    <2>6. xh + yh + c1 = r + hi
      BY <2>2, <2>3, <2>4, <2>5
    <2> QED
      BY <2>1, <2>4, <2>5, <2>6 DEF Carries
  <1>9. Join(4, hi, lo) \in Word(4) /\ Split(Size(2), Join(4, hi, lo), hi, lo)
    BY Joins
  <1>10. Carries(Size(2) * Size(2), x, y, 0, k, Join(4, hi, lo))
    BY <1>1, <1>2, <1>3, <1>8, <1>9, HalfSizes, SumOfHalves
  <1>11. Carries(Size(4), x, y, 0, k, Join(4, hi, lo))
    BY <1>10, HalfSizes
  <1>12. k \in 0 .. 1
    BY <1>11, HalfSizes, CarryIsABit DEF Word
  <1>13. AddCarry256(x, y) = [value |-> Join(4, hi, lo), carry |-> c2 = 1 \/ c3 = 1]
    <2>1. (IF c1 = 1 THEN 1 ELSE 0) = c1
      OBVIOUS
    <2>2. AddCarry128(xl, yl).value = lo /\ AddCarry128(xl, yl).carry = (c1 = 1)
      BY <1>3
    <2>3. AddCarry128(xh, yh).value = tt /\ AddCarry128(xh, yh).carry = (c2 = 1)
      BY <1>4
    <2>4. AddCarry128(tt, c1).value = hi /\ AddCarry128(tt, c1).carry = (c3 = 1)
      BY <1>6
    <2>5. AddCarry256(x, y) =
             [value |-> Join(4, AddCarry128(tt, IF c1 = 1 THEN 1 ELSE 0).value, lo),
              carry |-> c2 = 1 \/ AddCarry128(tt, IF c1 = 1 THEN 1 ELSE 0).carry]
      BY <1>1, <1>2, <2>2, <2>3 DEF AddCarry256
    <2> QED
      BY <2>1, <2>4, <2>5
  <1>14. (c2 = 1 \/ c3 = 1) = (k = 1)
    BY <1>7, <1>12
  <1> QED
    BY <1>9, <1>11, <1>12, <1>13, <1>14

LEMMA Add256Right ==
    \A x, y \in Word(4) : Add256(x, y) \in Word(4) /\ Add256(x, y) = (x + y) % Size(4)
  <1> TAKE x \in Word(4), y \in Word(4)
  <1>1. PICK k \in 0 .. 1, s \in Word(4) :
           AddCarry256(x, y) = [value |-> s, carry |-> k = 1] /\ Carries(Size(4), x, y, 0, k, s)
    BY AddCarry256Right
  <1>2. x \in Int /\ y \in Int /\ x + y + 0 = x + y
    BY Kept
  <1>3. (x + y + 0) % Size(4) = s
    BY <1>1, <1>2, HalfSizes, CarriedSum
  <1>4. Add256(x, y) = s
    BY <1>1 DEF Add256
  <1> QED
    BY <1>2, <1>3, <1>4

\* ~x + 1 is the complement of x, and adding it subtracts x.
LEMMA Neg256Right ==
    \A x \in Word(4) : Neg256(x) \in Word(4) /\ Neg256(x) = (-x) % Size(4)
  <1> TAKE x \in Word(4)
  <1>1. PICK n \in Nat : n = Size(4) /\ n > 1 /\ x \in 0 .. n - 1
    BY HalfSizes DEF Word
  <1>2. n - 1 - x \in Word(4) /\ 1 \in Word(4)
    BY <1>1 DEF Word
  <1>3. Neg256(x) \in Word(4) /\ Neg256(x) = (n - 1 - x + 1) % n
    BY <1>1, <1>2, Add256Right DEF Neg256
  <1>4. PICK z \in Int : z = -x
    BY <1>1
  <1>5. (z + n) % n = z % n
    BY <1>1, ModAddOnce
  <1>6. n - 1 - x + 1 = z + n
    BY <1>1, <1>4
  <1> QED
    BY <1>1, <1>3, <1>4, <1>5, <1>6

LEMMA Sub256Right ==
    \A x, y \in Word(4) : Sub256(x, y) \in Word(4) /\ Sub256(x, y) = (x - y) % Size(4)
  <1> TAKE x \in Word(4), y \in Word(4)
  <1>1. PICK n \in Nat : n = Size(4) /\ n > 1 /\ x \in 0 .. n - 1 /\ y \in 0 .. n - 1
    BY HalfSizes DEF Word
  <1>2. PICK z \in Int : z = -y
    BY <1>1
  <1>3. Neg256(y) \in Word(4) /\ Neg256(y) = z % n
    BY <1>1, <1>2, Neg256Right
  <1>4. Sub256(x, y) \in Word(4) /\ Sub256(x, y) = (x + (z % n)) % n
    BY <1>1, <1>3, Add256Right DEF Sub256
  <1>5. ((z % n) + x) % n = (z + x) % n
    BY <1>1, ModSum
  <1>6. PICK r \in Int : r = z % n
    BY <1>1, QuotRem
  <1>7. x + r = r + x /\ z + x = x - y
    BY <1>1, <1>2
  <1> QED
    BY <1>1, <1>4, <1>5, <1>6, <1>7

-----------------------------------------------------------------------------
(* Shifts *)

\* H is P times Q: a shift by P leaves Q for the rest of the half.
Parts(H, P, Q) == P > 0 /\ Q > 0 /\ H = P * Q

\* With H = P * Q, the remainder of a product by P is P times a remainder by Q.
LEMMA ScaledMod ==
    ASSUME NEW P \in Nat, NEW Q \in Nat, P > 0, Q > 0, NEW H \in Nat, H = P * Q, NEW x \in Nat
    PROVE  /\ (x * P) % H = (x % Q) * P /\ (x * P) \div H = x \div Q
           /\ (x % Q) * P + P <= H
           /\ x * P = (x \div Q) * H + (x % Q) * P
  <1>1. PICK q \in Nat, r \in 0 .. Q - 1 : q = x \div Q /\ r = x % Q /\ x = q * Q + r
    BY QuotNat
  <1>2. r * P + P <= Q * P
    BY ProductMonotonic
  <1>3. PICK t \in Nat : t = r * P /\ t < H /\ t + P <= H
    <2>1. Q * P = H /\ r * P \in Nat
      BY ProductOfNaturals
    <2> QED
      BY <1>2, <2>1
  <1>4. x * P = q * H + t
    <2>1. (q * Q + r) * P = q * (P * Q) + r * P
      OBVIOUS
    <2> QED
      BY <1>1, <1>3, <2>1
  <1>5. (q * H + t) % H = t /\ (q * H + t) \div H = q
    <2>1. t < H
      BY <1>3
    <2> QED
      BY ONLY <2>1, QuotRemUnique, q \in Int, H \in Nat, t \in Nat
  <1> QED
    BY <1>1, <1>3, <1>4, <1>5

\* Left: what the low half loses at its top is what the high half gains at its
\* bottom.
LEMMA ShlOfHalves ==
    ASSUME NEW P \in Nat, NEW Q \in Nat, NEW H \in Nat, Parts(H, P, Q),
           NEW x, NEW xh, NEW xl, Split(H, x, xh, xl)
    PROVE  Split(H, (x * P) % (H * H), ((xh * P) % H) + (xl \div Q), (xl * P) % H)
  <1> USE DEF Parts
  <1>1. xh \in Nat /\ xl \in Nat /\ xl < P * Q /\ x = xh * H + xl
    BY DEF Split
  <1>2. PICK a \in Int, u \in Nat : u = (xh * P) % H /\ xh * P = a * H + u /\ u + P <= H
    <2>1. xh \div Q \in Int /\ (xh % Q) * P \in Nat
      BY <1>1, QuotNat, ProductOfNaturals
    <2>2. /\ (xh * P) % H = (xh % Q) * P /\ (xh % Q) * P + P <= H
          /\ xh * P = (xh \div Q) * H + (xh % Q) * P
      BY <1>1, ScaledMod
    <2> QED
      BY <2>1, <2>2
  <1>3. PICK q \in 0 .. P - 1, v \in Nat : q = xl \div Q /\ v = (xl * P) % H /\ xl * P = q * H + v /\ v + P <= H
    <2>1. xl \div Q \in 0 .. P - 1 /\ (xl % Q) * P \in Nat
      BY <1>1, QuotNat, QuotBelow, ProductOfNaturals
    <2>2. /\ (xl * P) % H = (xl % Q) * P /\ (xl % Q) * P + P <= H
          /\ xl * P = (xl \div Q) * H + (xl % Q) * P
      BY <1>1, ScaledMod
    <2> QED
      BY <2>1, <2>2
  <1>4. u + q \in 0 .. H - 1 /\ v \in 0 .. H - 1
    BY <1>2, <1>3
  <1>5. PICK w \in 0 .. H - 1 : w = u + q
    BY <1>4
  <1>6. x * P = a * (H * H) + (w * H + v)
    <2>1. x * P = (xh * P) * H + xl * P
      BY <1>1
    <2>2. (a * H + u) * H + (q * H + v) = a * (H * H) + ((u + q) * H + v)
      BY <1>2, <1>3
    <2> QED
      BY <1>2, <1>3, <1>5, <2>1, <2>2
  <1>7. PICK n \in Nat, y \in Nat : n = H * H /\ y = w * H + v /\ y < n
    BY <1>4, <1>5, JoinOf, ProductOfNaturals
  <1>8. (a * n + y) % n = y
    BY ONLY <1>7, a \in Int, QuotRemUnique, Zenon
  <1>9. (x * P) % n = w * H + v
    BY <1>6, <1>7, <1>8
  <1> QED
    BY <1>2, <1>3, <1>4, <1>5, <1>7, <1>9 DEF Split

\* Right: what the high half loses at its bottom is what the low half gains at
\* its top.
LEMMA ShrOfHalves ==
    ASSUME NEW P \in Nat, NEW Q \in Nat, NEW H \in Nat, Parts(H, P, Q),
           NEW x, NEW xh, NEW xl, Split(H, x, xh, xl)
    PROVE  Split(H, x \div P, xh \div P, (xl \div P) + ((xh * Q) % H))
  <1> USE DEF Parts
  <1>1. xh \in Nat /\ xl \in Nat /\ xl < Q * P /\ x = xh * H + xl /\ H = Q * P
    BY DEF Split
  <1>2. PICK a \in Nat, u \in Nat : a = xh \div P /\ u = (xh * Q) % H /\ xh * Q = a * H + u /\ u + Q <= H
    <2>1. xh \div P \in Nat /\ (xh % P) * Q \in Nat
      BY <1>1, QuotNat, ProductOfNaturals
    <2>2. /\ (xh * Q) % H = (xh % P) * Q /\ (xh % P) * Q + Q <= H
          /\ xh * Q = (xh \div P) * H + (xh % P) * Q
      BY <1>1, ScaledMod
    <2> QED
      BY <2>1, <2>2
  <1>3. PICK c \in 0 .. Q - 1, e \in 0 .. P - 1 : c = xl \div P /\ xl = c * P + e
    BY <1>1, QuotNat, QuotBelow
  <1>4. c + u \in 0 .. H - 1
    BY <1>2, <1>3
  <1>5. a \in 0 .. H - 1
    <2>1. a * P <= xh
      BY <1>1, <1>2, QuotNat
    <2>2. a * 1 <= a * P
      BY ProductMonotonic
    <2> QED
      BY <1>2, <2>1, <2>2 DEF Split
  <1>6. x = (a * H + (c + u)) * P + e
    <2>1. x = xh * (P * Q) + xl
      BY <1>1
    <2>2. xh * (P * Q) = (xh * Q) * P
      BY <1>1
    <2>3. (a * H + u) * P + (c * P + e) = (a * H + (c + u)) * P + e
      BY ONLY a \in Nat, H \in Nat, u \in Nat, P \in Nat, c \in Nat, e \in Nat
    <2> QED
      BY <1>2, <1>3, <2>1, <2>2, <2>3
  <1>7. PICK w \in Int : w = a * H + (c + u)
    OBVIOUS
  <1>8. (w * P + e) \div P = w
    BY ONLY QuotRemUnique, w \in Int, P \in Nat, e \in 0 .. P - 1
  <1>9. x \div P = a * H + (c + u)
    BY <1>6, <1>7, <1>8
  <1> QED
    BY <1>2, <1>3, <1>4, <1>5, <1>9 DEF Split

LEMMA ShlAcross ==
    ASSUME NEW T \in Nat, NEW H \in Nat, H > 0, NEW x, NEW xh, NEW xl, Split(H, x, xh, xl)
    PROVE  (x * (T * H)) % (H * H) = ((xl * T) % H) * H /\ (xl * T) % H \in 0 .. H - 1
  <1>1. xh \in Nat /\ xl \in Nat /\ x = xh * H + xl
    BY DEF Split
  <1>2. PICK z \in Nat : z = xl * T
    BY <1>1, ProductOfNaturals
  <1>3. PICK k \in Int, r \in 0 .. H - 1 : k = z \div H /\ r = z % H /\ z = k * H + r
    BY QuotRem
  <1>4. PICK m \in Int : m = xh * T + k
    BY <1>1
  <1>5. x * (T * H) = m * (H * H) + r * H
    <2>1. x * (T * H) = (xh * T) * (H * H) + (xl * T) * H
      BY ONLY <1>1, T \in Nat, H \in Nat
    <2>2. (xl * T) * H = k * (H * H) + r * H
      <3>1. (k * H + r) * H = k * (H * H) + r * H
        OBVIOUS
      <3> QED
        BY <1>2, <1>3, <3>1
    <2>3. m * (H * H) = (xh * T) * (H * H) + k * (H * H)
      BY <1>1, <1>4
    <2>4. PICK d \in Int, e \in Int, g \in Int : d = (xh * T) * (H * H) /\ e = k * (H * H) /\ g = r * H
      BY <1>1
    <2> QED
      BY <2>1, <2>2, <2>3, <2>4
  <1>6. r * H + 0 \in 0 .. H * H - 1
    BY PairBelow
  <1>7. PICK n \in Nat, y \in Nat : n = H * H /\ y = r * H /\ y < n
    BY <1>6, ProductOfNaturals
  <1>8. (m * n + y) % n = y
    BY <1>7, QuotRemUnique
  <1>9. (x * (T * H)) % n = y
    BY <1>5, <1>7, <1>8
  <1> QED
    BY <1>2, <1>3, <1>7, <1>9

LEMMA ShrAcross ==
    ASSUME NEW T \in Nat, T > 0, NEW H \in Nat, H > 0, NEW x, NEW xh, NEW xl, Split(H, x, xh, xl)
    PROVE  x \div (T * H) = xh \div T /\ xh \div T \in 0 .. H - 1
  <1>1. xh \in 0 .. H - 1 /\ xl \in Nat /\ xl < H /\ x = xh * H + xl
    BY DEF Split
  <1>2. PICK y \in Nat : y = x
    BY <1>1, ProductOfNaturals
  <1>3. y \div H = xh
    <2>1. (xh * H + xl) \div H = xh
      BY <1>1, QuotRemUnique
    <2> QED
      BY <1>1, <1>2, <2>1
  <1>4. (y \div H) \div T = y \div (H * T)
    BY QuotOfQuot
  <1>5. H * T = T * H
    OBVIOUS
  <1>6. xh \div T \in 0 .. H - 1
    <2>1. 1 * xh <= T * xh
      BY <1>1, ProductMonotonic
    <2>2. PICK q \in Nat : q = xh \div T /\ q * T <= xh
      BY <1>1, QuotNat
    <2>3. q * 1 <= q * T
      BY ProductMonotonic
    <2> QED
      BY <1>1, <2>2, <2>3
  <1> QED
    BY <1>2, <1>3, <1>4, <1>5, <1>6

\* A half of m bits as 2^s times 2^(m - s).
LEMMA HalfParts ==
    ASSUME NEW m \in Nat, NEW s \in 0 .. m - 1
    PROVE  /\ TwoTo[s] \in Nat /\ TwoTo[m - s] \in Nat /\ TwoTo[m - 1 - s] \in Nat
           /\ TwoTo[s] > 0 /\ TwoTo[m - s] > 0 /\ TwoTo[m - 1 - s] > 0
           /\ TwoTo[m - s] = 2 * TwoTo[m - 1 - s]
           /\ Parts(TwoTo[m], TwoTo[s], TwoTo[m - s])
  <1>1. s \in Nat /\ m - s \in Nat /\ m - 1 - s \in Nat /\ m \in Nat /\ s <= m /\ (m - 1 - s) + 1 = m - s
    OBVIOUS
  <1>2. TwoTo[(m - 1 - s) + 1] = 2 * TwoTo[m - 1 - s]
    BY <1>1, TwoToStep
  <1>3. TwoTo[m] = TwoTo[m - s] * TwoTo[s]
    BY <1>1, TwoToMonotonic
  <1>4. \A n \in Nat : TwoTo[n] \in Nat /\ TwoTo[n] > 0
    BY TwoToStep
  <1>5. PICK P \in Nat, Q \in Nat, R \in Nat : P = TwoTo[s] /\ Q = TwoTo[m - s] /\ R = TwoTo[m - 1 - s]
    BY <1>1, <1>4
  <1>6. P > 0 /\ Q > 0 /\ R > 0
    BY <1>1, <1>4, <1>5
  <1>7. Q = 2 * R
    BY <1>1, <1>2, <1>5
  <1>8. TwoTo[m] = P * Q
    BY <1>3, <1>5
  <1> QED
    BY <1>5, <1>6, <1>7, <1>8 DEF Parts

LEMMA Shl128Right ==
    ASSUME NEW x \in Word(2), NEW s \in 0 .. 2 * B - 1
    PROVE  Shl128(x, s) \in Word(2) /\ Shl128(x, s) = (x * TwoTo[s]) % Size(2)
  <1>1. PICK H \in Nat : H = Beta /\ H > 0
    BY HalfSizes
  <1>2. PICK xh \in 0 .. H - 1, xl \in 0 .. H - 1 :
           xh = HiHalf(2, x) /\ xl = LoHalf(2, x) /\ Split(H, x, xh, xl)
    BY <1>1, Halves DEF Split
  <1>3. Word(1) = 0 .. H - 1 /\ Word(2) = 0 .. H * H - 1 /\ Size(2) = H * H
    BY <1>1, HalfSizes DEF Word
  <1>4. ASSUME s < B PROVE Shl128(x, s) \in Word(2) /\ Shl128(x, s) = (x * TwoTo[s]) % Size(2)
    <2>1. s \in 0 .. B - 1 /\ B \in Nat /\ H = TwoTo[B]
      BY <1>1, <1>4, SizeFacts DEF Beta
    <2>2. PICK P \in Nat, Q \in Nat, R \in Nat :
             /\ P = TwoTo[s] /\ Q = TwoTo[B - s] /\ R = TwoTo[B - 1 - s]
             /\ P > 0 /\ Q > 0 /\ R > 0 /\ Q = 2 * R /\ Parts(H, P, Q)
      BY <2>1, HalfParts
    <2>3. (xl \div 2) \div R = xl \div Q
      BY <2>2, QuotOfQuot, 2 \in Nat
    <2>4. PICK a \in Int, b \in Int : a = xh * P /\ b = xl * P
      BY <2>2
    <2>5. U(1, a) = a % H /\ U(1, b) = b % H
      BY <1>1, KeptWord
    <2>6. Shl128(x, s) = Join(2, (a % H) + (xl \div Q), b % H)
      BY <1>2, <1>4, <2>2, <2>3, <2>4, <2>5 DEF Shl128
    <2>7. Split(H, (x * P) % (H * H), (a % H) + (xl \div Q), b % H)
      <3>1. Parts(H, P, Q) /\ Split(H, x, xh, xl)
        BY <1>2, <2>2
      <3>2. Split(H, (x * P) % (H * H), ((xh * P) % H) + (xl \div Q), (xl * P) % H)
        BY <3>1, ShlOfHalves
      <3> QED
        BY <2>4, <3>2
    <2>8. Join(2, (a % H) + (xl \div Q), b % H) \in Word(2)
          /\ Join(2, (a % H) + (xl \div Q), b % H) = (x * P) % (H * H)
      BY <1>1, <2>7, JoinedSplit
    <2> QED
      BY <1>3, <2>2, <2>6, <2>8
  <1>5. ASSUME s >= B PROVE Shl128(x, s) \in Word(2) /\ Shl128(x, s) = (x * TwoTo[s]) % Size(2)
    <2>1. s - B \in Nat /\ B \in Nat /\ B <= s /\ s \in Nat /\ s < 2 * B /\ ~(s < B)
      BY <1>5, SizeFacts
    <2>2. PICK T \in Nat : T = TwoTo[s - B] /\ TwoTo[s] = T * H
      BY <1>1, <2>1, TwoToMonotonic, TwoToStep DEF Beta
    <2>3. PICK a \in Int : a = xl * T
      OBVIOUS
    <2>4. U(1, a) = a % H
      BY <1>1, KeptWord
    <2>5. Shl128(x, s) = Join(2, a % H, 0)
      BY <1>2, <2>1, <2>2, <2>3, <2>4 DEF Shl128
    <2>6. (x * (T * H)) % (H * H) = (a % H) * H /\ a % H \in 0 .. H - 1
      BY <1>1, <1>2, <2>3, ShlAcross
    <2>7. PICK u \in 0 .. H - 1 : u = a % H
      BY <2>6
    <2>8. Join(2, u, 0) \in Word(2) /\ Join(2, u, 0) = u * H + 0
      <3>1. u \in Word(1) /\ 0 \in Word(1)
        BY <1>1, <1>3
      <3>2. Join(2, u, 0) \in Word(2) /\ Split(Beta, Join(2, u, 0), u, 0)
        BY <3>1, Joins
      <3> QED
        BY <1>1, <3>2 DEF Split
    <2>9. u * H + 0 = u * H
      OBVIOUS
    <2> QED
      BY <1>3, <2>2, <2>5, <2>6, <2>7, <2>8, <2>9
  <1>6. s \in Nat /\ B \in Nat
    BY SizeFacts
  <1> QED
    BY <1>4, <1>5, <1>6

LEMMA Shr128Right ==
    ASSUME NEW x \in Word(2), NEW s \in 0 .. 2 * B - 1
    PROVE  Shr128(x, s) \in Word(2) /\ Shr128(x, s) = x \div TwoTo[s]
  <1>1. PICK H \in Nat : H = Beta /\ H > 0
    BY HalfSizes
  <1>2. PICK xh \in 0 .. H - 1, xl \in 0 .. H - 1 :
           xh = HiHalf(2, x) /\ xl = LoHalf(2, x) /\ Split(H, x, xh, xl)
    BY <1>1, Halves DEF Split
  <1>3. Word(1) = 0 .. H - 1 /\ Word(2) = 0 .. H * H - 1 /\ Size(2) = H * H
    BY <1>1, HalfSizes DEF Word
  <1>4. ASSUME s < B PROVE Shr128(x, s) \in Word(2) /\ Shr128(x, s) = x \div TwoTo[s]
    <2>1. s \in 0 .. B - 1 /\ B \in Nat /\ H = TwoTo[B]
      BY <1>1, <1>4, SizeFacts DEF Beta
    <2>2. PICK P \in Nat, Q \in Nat, R \in Nat :
             /\ P = TwoTo[s] /\ Q = TwoTo[B - s] /\ R = TwoTo[B - 1 - s]
             /\ P > 0 /\ Q > 0 /\ R > 0 /\ Q = 2 * R /\ Parts(H, P, Q)
      BY <2>1, HalfParts
    <2>3. PICK a \in Int, c \in Int, d \in Int : a = xh * 2 /\ c = a * R /\ d = xh * Q
      BY <2>2
    <2>4. c = d
      <3>1. (xh * 2) * R = xh * (2 * R)
        OBVIOUS
      <3> QED
        BY <2>2, <2>3, <3>1
    <2>5. PICK b \in Int : b = U(1, a) /\ b = a % H
      BY <1>1, KeptWord, QuotRem
    <2>6. PICK e \in Int : e = b * R
      OBVIOUS
    <2>7. U(1, e) = e % H
      BY <1>1, KeptWord
    <2>8. e % H = d % H
      BY <1>1, <2>3, <2>4, <2>5, <2>6, ModProduct
    <2>9. Shr128(x, s) = Join(2, xh \div P, (xl \div P) + (d % H))
      BY <1>2, <1>4, <2>2, <2>3, <2>5, <2>6, <2>7, <2>8 DEF Shr128
    <2>10. Split(H, x \div P, xh \div P, (xl \div P) + (d % H))
      <3>1. Parts(H, P, Q) /\ Split(H, x, xh, xl)
        BY <1>2, <2>2
      <3>2. Split(H, x \div P, xh \div P, (xl \div P) + ((xh * Q) % H))
        BY <3>1, ShrOfHalves
      <3> QED
        BY <2>3, <3>2
    <2>11. Join(2, xh \div P, (xl \div P) + (d % H)) \in Word(2)
           /\ Join(2, xh \div P, (xl \div P) + (d % H)) = x \div P
      BY <1>1, <2>10, JoinedSplit
    <2> QED
      BY <2>2, <2>9, <2>11
  <1>5. ASSUME s >= B PROVE Shr128(x, s) \in Word(2) /\ Shr128(x, s) = x \div TwoTo[s]
    <2>1. s - B \in Nat /\ B \in Nat /\ B <= s /\ s \in Nat /\ s < 2 * B /\ ~(s < B)
      BY <1>5, SizeFacts
    <2>2. PICK T \in Nat : T = TwoTo[s - B] /\ TwoTo[s] = T * H /\ T > 0
      <3>1. TwoTo[s] = TwoTo[s - B] * TwoTo[B]
        BY <2>1, TwoToMonotonic
      <3>2. TwoTo[s - B] \in Nat /\ TwoTo[s - B] > 0
        BY <2>1, TwoToStep
      <3> QED
        BY <1>1, <3>1, <3>2 DEF Beta
    <2>3. Shr128(x, s) = xh \div T
      BY <1>2, <2>1, <2>2 DEF Shr128
    <2>4. x \div (T * H) = xh \div T /\ xh \div T \in 0 .. H - 1
      BY <1>1, <1>2, <2>2, ShrAcross
    <2>5. H <= H * H
      <3>1. 1 * H <= H * H
        BY <1>1, ProductMonotonic
      <3> QED
        BY <3>1
    <2>6. xh \div T \in Word(2)
      <3>1. PICK u \in 0 .. H - 1, n \in Nat : u = xh \div T /\ n = H * H
        BY <2>4, ProductOfNaturals
      <3> QED
        BY <1>3, <2>5, <3>1
    <2> QED
      BY <2>2, <2>3, <2>4, <2>6
  <1>6. s \in Nat /\ B \in Nat
    BY SizeFacts
  <1> QED
    BY <1>4, <1>5, <1>6

LEMMA Shl256Right ==
    ASSUME NEW x \in Word(4), NEW s \in 0 .. 4 * B - 1
    PROVE  Shl256(x, s) \in Word(4) /\ Shl256(x, s) = (x * TwoTo[s]) % Size(4)
  <1>1. PICK H \in Nat, m \in Nat : /\ H = Size(2) /\ H > 0 /\ m = 2 * B /\ m > 2 /\ H = TwoTo[m]
    BY HalfSizes, SizeFacts DEF Size
  <1>2. PICK xh \in 0 .. H - 1, xl \in 0 .. H - 1 :
           xh = HiHalf(4, x) /\ xl = LoHalf(4, x) /\ Split(H, x, xh, xl)
    BY <1>1, Halves DEF Split
  <1>3. Word(2) = 0 .. H - 1 /\ Word(4) = 0 .. H * H - 1 /\ Size(4) = H * H
    BY <1>1, HalfSizes DEF Word
  <1>4. s \in Nat /\ B \in Nat /\ s < 2 * m
    BY <1>1, SizeFacts
  <1>5. ASSUME s < m PROVE Shl256(x, s) \in Word(4) /\ Shl256(x, s) = (x * TwoTo[s]) % Size(4)
    <2>1. s \in 0 .. m - 1
      BY <1>4, <1>5
    <2>2. PICK P \in Nat, Q \in Nat, R \in Nat :
             /\ P = TwoTo[s] /\ Q = TwoTo[m - s] /\ R = TwoTo[m - 1 - s]
             /\ P > 0 /\ Q > 0 /\ R > 0 /\ Q = 2 * R /\ Parts(H, P, Q)
      <3>1. /\ TwoTo[s] \in Nat /\ TwoTo[m - s] \in Nat /\ TwoTo[m - 1 - s] \in Nat
            /\ TwoTo[s] > 0 /\ TwoTo[m - s] > 0 /\ TwoTo[m - 1 - s] > 0
            /\ TwoTo[m - s] = 2 * TwoTo[m - 1 - s]
            /\ Parts(TwoTo[m], TwoTo[s], TwoTo[m - s])
        BY <2>1, HalfParts
      <3> QED
        BY <1>1, <3>1
    <2>3. m - s - 1 \in 0 .. 2 * B - 1 /\ 1 \in 0 .. 2 * B - 1 /\ s \in 0 .. 2 * B - 1
      BY <1>1, <2>1
    <2>4. PICK y \in Word(2) : y = Shr128(xl, m - s - 1) /\ y = xl \div R
      <3>1. m - s - 1 = m - 1 - s
        BY <1>4
      <3> QED
        BY <1>3, <2>2, <2>3, <3>1, Shr128Right
    <2>5. Shr128(y, 1) = xl \div Q
      <3>1. Shr128(y, 1) = y \div 2
        BY <2>3, Shr128Right, TwoToStep
      <3>2. (xl \div R) \div 2 = xl \div (R * 2) /\ R * 2 = Q
        BY <2>2, QuotOfQuot, 2 \in Nat
      <3> QED
        BY <2>4, <3>1, <3>2
    <2>6. Shl128(xh, s) = (xh * P) % H /\ Shl128(xl, s) = (xl * P) % H
      BY <1>1, <1>3, <2>2, <2>3, Shl128Right
    <2>7. Shl256(x, s) = Join(4, ((xh * P) % H) + (xl \div Q), (xl * P) % H)
      BY <1>1, <1>2, <1>5, <2>4, <2>5, <2>6 DEF Shl256
    <2>8. Parts(H, P, Q)
      BY <2>2
    <2>9. Split(H, (x * P) % (H * H), ((xh * P) % H) + (xl \div Q), (xl * P) % H)
      BY <1>2, <2>8, ShlOfHalves
    <2>10. Shl256(x, s) \in Word(4) /\ Shl256(x, s) = (x * P) % (H * H)
      BY <1>1, <2>7, <2>9, JoinedSplit
    <2> QED
      BY <1>3, <2>2, <2>10
  <1>6. ASSUME s >= m PROVE Shl256(x, s) \in Word(4) /\ Shl256(x, s) = (x * TwoTo[s]) % Size(4)
    <2>1. s - m \in 0 .. 2 * B - 1 /\ ~(s < m) /\ s - m \in Nat
      BY <1>1, <1>4, <1>6
    <2>2. PICK T \in Nat : T = TwoTo[s - m] /\ TwoTo[s] = T * H
      <3>1. TwoTo[s] = TwoTo[s - m] * TwoTo[m]
        BY <1>4, <1>6, TwoToMonotonic
      <3>2. TwoTo[s - m] \in Nat
        BY <2>1, TwoToStep
      <3> QED
        BY <1>1, <3>1, <3>2
    <2>3. PICK u \in 0 .. H - 1 : u = Shl128(xl, s - m) /\ u = (xl * T) % H
      BY <1>1, <1>3, <2>1, <2>2, Shl128Right
    <2>4. Shl256(x, s) = Join(4, u, 0)
      BY <1>1, <1>2, <1>4, <2>1, <2>3 DEF Shl256
    <2>5. (x * (T * H)) % (H * H) = ((xl * T) % H) * H
      BY <1>1, <1>2, ShlAcross
    <2>6. Split(H, u * H, u, 0)
      BY <1>1 DEF Split
    <2>7. Join(4, u, 0) \in Word(4) /\ Join(4, u, 0) = u * H
      BY <1>1, <2>6, JoinedSplit
    <2> QED
      BY <1>3, <2>2, <2>3, <2>4, <2>5, <2>7
  <1> QED
    BY <1>1, <1>4, <1>5, <1>6

LEMMA Shr256Right ==
    ASSUME NEW x \in Word(4), NEW s \in 0 .. 4 * B - 1
    PROVE  Shr256(x, s) \in Word(4) /\ Shr256(x, s) = x \div TwoTo[s]
  <1>1. PICK H \in Nat, m \in Nat : /\ H = Size(2) /\ H > 0 /\ m = 2 * B /\ m > 2 /\ H = TwoTo[m]
    BY HalfSizes, SizeFacts DEF Size
  <1>2. PICK xh \in 0 .. H - 1, xl \in 0 .. H - 1 :
           xh = HiHalf(4, x) /\ xl = LoHalf(4, x) /\ Split(H, x, xh, xl)
    BY <1>1, Halves DEF Split
  <1>3. Word(2) = 0 .. H - 1 /\ Word(4) = 0 .. H * H - 1 /\ Size(4) = H * H
    BY <1>1, HalfSizes DEF Word
  <1>4. s \in Nat /\ B \in Nat /\ s < 2 * m
    BY <1>1, SizeFacts
  <1>5. ASSUME s < m PROVE Shr256(x, s) \in Word(4) /\ Shr256(x, s) = x \div TwoTo[s]
    <2>1. s \in 0 .. m - 1
      BY <1>4, <1>5
    <2>2. PICK P \in Nat, Q \in Nat, R \in Nat :
             /\ P = TwoTo[s] /\ Q = TwoTo[m - s] /\ R = TwoTo[m - 1 - s]
             /\ P > 0 /\ Q > 0 /\ R > 0 /\ Q = 2 * R /\ Parts(H, P, Q)
      <3>1. /\ TwoTo[s] \in Nat /\ TwoTo[m - s] \in Nat /\ TwoTo[m - 1 - s] \in Nat
            /\ TwoTo[s] > 0 /\ TwoTo[m - s] > 0 /\ TwoTo[m - 1 - s] > 0
            /\ TwoTo[m - s] = 2 * TwoTo[m - 1 - s]
            /\ Parts(TwoTo[m], TwoTo[s], TwoTo[m - s])
        BY <2>1, HalfParts
      <3> QED
        BY <1>1, <3>1
    <2>3. m - s - 1 \in 0 .. 2 * B - 1 /\ 1 \in 0 .. 2 * B - 1 /\ s \in 0 .. 2 * B - 1
      BY <1>1, <2>1
    <2>4. PICK y \in 0 .. H - 1 : y = Shl128(xh, m - s - 1) /\ y = (xh * R) % H
      <3>1. m - s - 1 = m - 1 - s
        BY <1>4
      <3> QED
        BY <1>1, <1>3, <2>2, <2>3, <3>1, Shl128Right
    <2>5. Shl128(y, 1) = (xh * Q) % H
      <3>1. Shl128(y, 1) = (y * 2) % H
        BY <1>1, <1>3, <2>3, Shl128Right, TwoToStep
      <3>2. PICK a \in Int, b \in Int : a = xh * R /\ b = xh * Q
        BY <2>2
      <3>3. ((a % H) * 2) % H = (a * 2) % H
        BY <1>1, ModProduct, 2 \in Int
      <3>4. a * 2 = b
        <4>1. (xh * R) * 2 = xh * (2 * R)
          OBVIOUS
        <4> QED
          BY <2>2, <3>2, <4>1
      <3> QED
        BY <2>4, <3>1, <3>2, <3>3, <3>4
    <2>6. Shr128(xh, s) = xh \div P /\ Shr128(xl, s) = xl \div P
      BY <1>1, <1>3, <2>2, <2>3, Shr128Right
    <2>7. Shr256(x, s) = Join(4, xh \div P, (xl \div P) + ((xh * Q) % H))
      BY <1>1, <1>2, <1>5, <2>4, <2>5, <2>6 DEF Shr256
    <2>8. Parts(H, P, Q)
      BY <2>2
    <2>9. Split(H, x \div P, xh \div P, (xl \div P) + ((xh * Q) % H))
      BY <1>2, <2>8, ShrOfHalves
    <2>10. Shr256(x, s) \in Word(4) /\ Shr256(x, s) = x \div P
      BY <1>1, <2>7, <2>9, JoinedSplit
    <2> QED
      BY <2>2, <2>10
  <1>6. ASSUME s >= m PROVE Shr256(x, s) \in Word(4) /\ Shr256(x, s) = x \div TwoTo[s]
    <2>1. s - m \in 0 .. 2 * B - 1 /\ ~(s < m) /\ s - m \in Nat
      BY <1>1, <1>4, <1>6
    <2>2. PICK T \in Nat : T = TwoTo[s - m] /\ TwoTo[s] = T * H /\ T > 0
      <3>1. TwoTo[s] = TwoTo[s - m] * TwoTo[m]
        BY <1>4, <1>6, TwoToMonotonic
      <3>2. TwoTo[s - m] \in Nat /\ TwoTo[s - m] > 0
        BY <2>1, TwoToStep
      <3> QED
        BY <1>1, <3>1, <3>2
    <2>3. PICK u \in 0 .. H - 1 : u = Shr128(xh, s - m) /\ u = xh \div T
      BY <1>1, <1>3, <2>1, <2>2, Shr128Right
    <2>4. Shr256(x, s) = u
      BY <1>1, <1>2, <1>4, <2>1, <2>3 DEF Shr256
    <2>5. x \div (T * H) = xh \div T
      BY <1>1, <1>2, <2>2, ShrAcross
    <2>6. u \in Word(4)
      <3>1. 1 * H <= H * H
        BY <1>1, ProductMonotonic
      <3>2. PICK n \in Nat : n = H * H
        BY ProductOfNaturals
      <3> QED
        BY <1>3, <3>1, <3>2
    <2> QED
      BY <2>2, <2>3, <2>4, <2>5, <2>6
  <1> QED
    BY <1>1, <1>4, <1>5, <1>6

-----------------------------------------------------------------------------
(* Loops over the machine words *)

\* f holds the states of a loop of n steps over the indices at[0], at[1], ...
Runs(f, step, base, at, n) ==
    f = [i \in 0 .. n |-> IF i = 0 THEN base ELSE step[at[i - 1]][f[i - 1]]]

\* ... and their equations.
Steps(f, step, base, at, n) ==
    f[0] = base /\ \A i \in 0 .. n - 1 : f[i + 1] = step[at[i]][f[i]]

LEMMA LoopEquations ==
    \A f, step, base, at : \A n \in Nat :
        Runs(f, step, base, at, n) => Steps(f, step, base, at, n)
  <1> SUFFICES ASSUME NEW f, NEW step, NEW base, NEW at, NEW n \in Nat, Runs(f, step, base, at, n)
               PROVE  f[0] = base /\ \A i \in 0 .. n - 1 : f[i + 1] = step[at[i]][f[i]]
    BY Zenon DEF Steps
  <1>1. \A i \in 0 .. n : f[i] = IF i = 0 THEN base ELSE step[at[i - 1]][f[i - 1]]
    <2> DEFINE g == [i \in 0 .. n |-> IF i = 0 THEN base ELSE step[at[i - 1]][f[i - 1]]]
    <2>1. f = g
      BY DEF Runs
    <2>2. \A i \in 0 .. n : g[i] = IF i = 0 THEN base ELSE step[at[i - 1]][f[i - 1]]
      BY Zenon
    <2> HIDE DEF g
    <2> QED
      BY <2>1, <2>2, Zenon
  <1>2. 0 \in 0 .. n
    OBVIOUS
  <1>3. \A i \in 0 .. n - 1 : i + 1 \in 0 .. n /\ i + 1 # 0 /\ i + 1 - 1 = i
    OBVIOUS
  <1>4. \A i \in 0 .. n - 1 : f[i + 1] = step[at[i]][f[i]]
    <2> TAKE i \in 0 .. n - 1
    <2>1. i + 1 \in 0 .. n /\ i + 1 # 0 /\ i + 1 - 1 = i
      BY <1>3
    <2>2. PICK k : k = i + 1
      OBVIOUS
    <2>3. k \in 0 .. n /\ k # 0 /\ k - 1 = i
      BY <2>1, <2>2
    <2>4. f[k] = step[at[k - 1]][f[k - 1]]
      BY <1>1, <2>3, Zenon
    <2> QED
      BY <2>2, <2>3, <2>4, Zenon
  <1> QED
    BY <1>1, <1>2, <1>4, Zenon

LEMMA LoopStates ==
    ASSUME NEW step, NEW base, NEW n \in Nat, NEW at
    PROVE  \E f : Runs(f, step, base, at, n)
  <1> DEFINE Ms == {m \in Nat : \E f : Runs(f, step, base, at, m)}
  <1>1. 0 \in Ms
    <2>1. \A i \in 0 .. 0 : i = 0
      OBVIOUS
    <2>2. Runs([i \in 0 .. 0 |-> base], step, base, at, 0)
      BY <2>1 DEF Runs
    <2> QED
      BY <2>2
  <1>2. ASSUME NEW m \in Nat, m \in Ms PROVE m + 1 \in Ms
    <2>1. PICK f : Runs(f, step, base, at, m)
      BY <1>2
    <2>2. f[0] = base /\ \A i \in 0 .. m - 1 : f[i + 1] = step[at[i]][f[i]]
      <3>1. Steps(f, step, base, at, m)
        BY <2>1, LoopEquations
      <3> QED
        BY <3>1, Zenon DEF Steps
    <2> DEFINE g == [i \in 0 .. m + 1 |-> IF i = m + 1 THEN step[at[m]][f[m]] ELSE f[i]]
    <2>3. \A i \in 0 .. m : i \in 0 .. m + 1 /\ i # m + 1
      OBVIOUS
    <2>4. \A i \in 0 .. m : g[i] = f[i]
      BY <2>3, Zenon
    <2>5. g[m + 1] = step[at[m]][f[m]]
      <3>1. m + 1 \in 0 .. m + 1
        OBVIOUS
      <3> QED
        BY <3>1, Zenon
    <2>6. g = [i \in 0 .. m + 1 |-> g[i]]
      BY Zenon
    <2> HIDE DEF g
    <2>7. ASSUME NEW i \in 0 .. m + 1
          PROVE  g[i] = IF i = 0 THEN base ELSE step[at[i - 1]][g[i - 1]]
      <3>1. ASSUME i = 0 PROVE g[i] = base
        <4>1. 0 \in 0 .. m
          OBVIOUS
        <4> QED
          BY <2>2, <2>4, <3>1, <4>1, Zenon
      <3>2. ASSUME i = m + 1 PROVE g[i] = step[at[i - 1]][g[i - 1]]
        <4>1. i - 1 = m /\ m \in 0 .. m
          BY <3>2
        <4> QED
          BY <2>4, <2>5, <3>2, <4>1, Zenon
      <3>3. ASSUME i # m + 1, i # 0 PROVE g[i] = step[at[i - 1]][g[i - 1]]
        <4>1. i - 1 \in 0 .. m - 1 /\ i - 1 + 1 = i /\ i \in 0 .. m /\ i - 1 \in 0 .. m
          BY <3>3
        <4>2. f[i] = step[at[i - 1]][f[i - 1]]
          <5>1. f[i - 1 + 1] = step[at[i - 1]][f[i - 1]]
            BY <2>2, <4>1, Zenon
          <5> QED
            BY <4>1, <5>1, Zenon
        <4> QED
          BY <2>4, <4>1, <4>2, Zenon
      <3>4. i = 0 => i # m + 1
        OBVIOUS
      <3> QED
        BY <3>1, <3>2, <3>3, Zenon
    <2>8. Runs(g, step, base, at, m + 1)
      <3>1. [i \in 0 .. m + 1 |-> g[i]]
            = [i \in 0 .. m + 1 |-> IF i = 0 THEN base ELSE step[at[i - 1]][g[i - 1]]]
        BY <2>7, Zenon
      <3> QED
        BY <2>6, <3>1, Zenon DEF Runs
    <2> QED
      BY <2>8
  <1>3. Nat \subseteq Ms
    <2> HIDE DEF Ms
    <2> QED
      BY <1>1, <1>2, AllNaturals
  <1> QED
    BY <1>3

UptoLoop(f, step, base, n) ==
    /\ f[0] = base
    /\ \A i \in 0 .. n - 1 : f[i + 1] = step[i][f[i]]
    /\ Upto(step, base, n) = f[n]

LEMMA UptoRuns ==
    ASSUME NEW step, NEW base, NEW n \in Nat
    PROVE  \E f : UptoLoop(f, step, base, n)
  <1> SUFFICES \E f : /\ f[0] = base
                      /\ \A i \in 0 .. n - 1 : f[i + 1] = step[i][f[i]]
                      /\ Upto(step, base, n) = f[n]
    BY Zenon DEF UptoLoop
  <1> DEFINE Loop(f) == f = [i \in 0 .. n |-> IF i = 0 THEN base ELSE step[i - 1][f[i - 1]]]
             after == CHOOSE f : Loop(f)
             at == [i \in Int |-> i]
  <1>1. Upto(step, base, n) = after[n]
    BY DEF Upto
  <1>2. \A i \in 0 .. n : at[i - 1] = i - 1
    OBVIOUS
  <1>3. \A i \in 0 .. n - 1 : at[i] = i
    OBVIOUS
  <1> HIDE DEF at
  <1>4. \A f : Runs(f, step, base, at, n) <=> Loop(f)
    <2> TAKE f
    <2>1. [i \in 0 .. n |-> IF i = 0 THEN base ELSE step[at[i - 1]][f[i - 1]]]
          = [i \in 0 .. n |-> IF i = 0 THEN base ELSE step[i - 1][f[i - 1]]]
      BY <1>2, Zenon
    <2> QED
      BY <2>1, Zenon DEF Runs
  <1> HIDE DEF Loop
  <1>5. Loop(after)
    BY <1>4, LoopStates
  <1>6. Runs(after, step, base, at, n)
    BY <1>4, <1>5
  <1> HIDE DEF after
  <1>7. after[0] = base /\ \A i \in 0 .. n - 1 : after[i + 1] = step[at[i]][after[i]]
    <2>1. Steps(after, step, base, at, n)
      BY <1>6, LoopEquations
    <2> QED
      BY <2>1, Zenon DEF Steps
  <1> QED
    BY <1>1, <1>3, <1>7, Zenon

DowntoLoop(f, step, base, n) ==
    /\ f[0] = base
    /\ \A i \in 0 .. n : f[i + 1] = step[n - i][f[i]]
    /\ Downto(step, base, n) = f[n + 1]

LEMMA DowntoRuns ==
    ASSUME NEW step, NEW base, NEW n \in Int, n >= -1
    PROVE  \E f : DowntoLoop(f, step, base, n)
  <1> SUFFICES \E f : /\ f[0] = base
                      /\ \A i \in 0 .. n : f[i + 1] = step[n - i][f[i]]
                      /\ Downto(step, base, n) = f[n + 1]
    BY Zenon DEF DowntoLoop
  <1> DEFINE Loop(f) == f = [i \in 0 .. n + 1 |-> IF i = 0 THEN base ELSE step[n + 1 - i][f[i - 1]]]
             after == CHOOSE f : Loop(f)
             at == [i \in Int |-> n - i]
  <1>1. Downto(step, base, n) = after[n + 1]
    BY DEF Downto
  <1>2. \A i \in 0 .. n + 1 : at[i - 1] = n + 1 - i
    OBVIOUS
  <1>3. \A i \in 0 .. n : at[i] = n - i
    OBVIOUS
  <1> HIDE DEF at
  <1>4. \A f : Runs(f, step, base, at, n + 1) <=> Loop(f)
    <2> TAKE f
    <2>1. [i \in 0 .. n + 1 |-> IF i = 0 THEN base ELSE step[at[i - 1]][f[i - 1]]]
          = [i \in 0 .. n + 1 |-> IF i = 0 THEN base ELSE step[n + 1 - i][f[i - 1]]]
      BY <1>2, Zenon
    <2> QED
      BY <2>1, Zenon DEF Runs
  <1> HIDE DEF Loop
  <1>5. n + 1 \in Nat /\ n + 1 - 1 = n
    OBVIOUS
  <1>6. Loop(after)
    BY <1>4, <1>5, LoopStates
  <1>7. Runs(after, step, base, at, n + 1)
    BY <1>4, <1>6
  <1> HIDE DEF after
  <1>8. after[0] = base /\ \A i \in 0 .. n : after[i + 1] = step[at[i]][after[i]]
    <2>1. PICK m \in Nat : m = n + 1 /\ m - 1 = n
      BY <1>5
    <2>2. Steps(after, step, base, at, m)
      BY <1>7, <2>1, LoopEquations
    <2> QED
      BY <2>1, <2>2, Zenon DEF Steps
  <1> QED
    BY <1>1, <1>3, <1>5, <1>8, Zenon

\* What every step keeps, at its index, the loop's result has: G[i] holds the
\* states that are right before step i.
UptoStep(step, G, n) == \A i \in 0 .. n - 1 : \A acc \in G[i] : step[i][acc] \in G[i + 1]

LEMMA UptoKeeps ==
    \A step, base, G : \A n \in Nat :
        base \in G[0] /\ UptoStep(step, G, n)
            => Upto(step, base, n) \in G[n]
  <1> SUFFICES ASSUME NEW step, NEW base, NEW G, NEW n \in Nat, base \in G[0],
                      UptoStep(step, G, n)
               PROVE  Upto(step, base, n) \in G[n]
    BY Zenon
  <1>0. PICK f : UptoLoop(f, step, base, n)
    BY UptoRuns
  <1>1. /\ f[0] = base
        /\ \A i \in 0 .. n - 1 : f[i + 1] = step[i][f[i]]
        /\ Upto(step, base, n) = f[n]
    BY <1>0, Zenon DEF UptoLoop
  <1> DEFINE In(i) == f[i] \in G[i]
             Good == {i \in Nat : i <= n => In(i)}
  <1> HIDE DEF In
  <1>2. 0 \in Good
    BY <1>1, Zenon, 0 \in Nat DEF In
  <1>3. ASSUME NEW i \in Nat, i \in Good PROVE i + 1 \in Good
    <2> SUFFICES ASSUME i + 1 <= n PROVE In(i + 1)
      OBVIOUS
    <2>1. i \in 0 .. n - 1 /\ In(i)
      BY <1>3
    <2>2. step[i][f[i]] \in G[i + 1]
      BY <2>1, Zenon DEF In, UptoStep
    <2>3. f[i + 1] = step[i][f[i]]
      BY <1>1, <2>1, Zenon
    <2> QED
      BY <2>2, <2>3, Zenon DEF In
  <1>4. Nat \subseteq Good
    <2> HIDE DEF Good
    <2> QED
      BY <1>2, <1>3, AllNaturals
  <1>5. In(n)
    BY <1>4
  <1> QED
    BY <1>1, <1>5, Zenon DEF In

DowntoStep(step, G, n) == \A i \in 0 .. n : \A acc \in G[i] : step[n - i][acc] \in G[i + 1]

LEMMA DowntoKeeps ==
    \A step, base, G : \A n \in Int :
        n >= -1 /\ base \in G[0] /\ DowntoStep(step, G, n)
            => Downto(step, base, n) \in G[n + 1]
  <1> SUFFICES ASSUME NEW step, NEW base, NEW G, NEW n \in Int, n >= -1, base \in G[0],
                      DowntoStep(step, G, n)
               PROVE  Downto(step, base, n) \in G[n + 1]
    BY Zenon
  <1>0. PICK f : DowntoLoop(f, step, base, n)
    BY DowntoRuns
  <1>1. /\ f[0] = base
        /\ \A i \in 0 .. n : f[i + 1] = step[n - i][f[i]]
        /\ Downto(step, base, n) = f[n + 1]
    BY <1>0, Zenon DEF DowntoLoop
  <1> DEFINE In(i) == f[i] \in G[i]
             Good == {i \in Nat : i <= n + 1 => In(i)}
  <1> HIDE DEF In
  <1>2. 0 \in Good
    BY <1>1, Zenon, 0 \in Nat DEF In
  <1>3. ASSUME NEW i \in Nat, i \in Good PROVE i + 1 \in Good
    <2> SUFFICES ASSUME i + 1 <= n + 1 PROVE In(i + 1)
      OBVIOUS
    <2>1. i \in 0 .. n /\ In(i)
      BY <1>3
    <2>2. step[n - i][f[i]] \in G[i + 1]
      BY <2>1, Zenon DEF In, DowntoStep
    <2>3. f[i + 1] = step[n - i][f[i]]
      BY <1>1, <2>1, Zenon
    <2> QED
      BY <2>2, <2>3, Zenon DEF In
  <1>4. Nat \subseteq Good
    <2> HIDE DEF Good
    <2> QED
      BY <1>2, <1>3, AllNaturals
  <1>5. In(n + 1)
    <2>1. n + 1 \in Nat
      OBVIOUS
    <2> QED
      BY <1>4, <2>1
  <1> QED
    BY <1>1, <1>5, Zenon DEF In

LEMMA SizeNat == \A w \in Nat : Size(w) \in Nat /\ Size(w) > 0
  <1> TAKE w \in Nat
  <1>1. PICK n \in Nat : n = Size(w) /\ n >= 1
    BY SizeFacts
  <1> QED
    BY <1>1

LEMMA SizeNext == \A w \in Nat : Size(w + 1) = Beta * Size(w)
  <1> TAKE w \in Nat
  <1>1. \A u, v \in Nat : Size(u + v) = Size(u) * Size(v)
    BY SizeFacts
  <1>2. Size(w + 1) = Size(w) * Size(1)
    BY <1>1, 1 \in Nat
  <1>3. PICK b \in Nat, S \in Nat : b = Beta /\ S = Size(w) /\ b = Size(1)
    BY SizeNat, HalfSizes
  <1>4. S * b = b * S
    OBVIOUS
  <1> QED
    BY <1>2, <1>3, <1>4

LEMMA SizeMonotonic == \A v, w \in Nat : v <= w => Size(v) <= Size(w)
  <1> TAKE v \in Nat, w \in Nat
  <1> SUFFICES ASSUME v <= w PROVE Size(v) <= Size(w)
    OBVIOUS
  <1>1. v * B \in Nat /\ w * B \in Nat
    BY SizeFacts
  <1>2. v * B <= w * B
    BY SizeFacts, ProductMonotonic
  <1> QED
    BY <1>1, <1>2, TwoToMonotonic DEF Size

\* One digit more.
LEMMA DigitStep ==
    ASSUME NEW x \in Nat, NEW i \in Nat
    PROVE  /\ Digit(x, i) \in 0 .. Beta - 1
           /\ x % Size(i) \in 0 .. Size(i) - 1
           /\ x % Size(i + 1) = Digit(x, i) * Size(i) + (x % Size(i))
  <1>1. PICK S \in Nat, b \in Nat : S = Size(i) /\ S > 0 /\ b = Beta /\ b > 0
    BY SizeNat, HalfSizes
  <1>2. PICK T \in Nat : T = Size(i + 1) /\ T = b * S
    BY <1>1, SizeNat, SizeNext
  <1>3. PICK q \in Nat, r \in 0 .. S - 1 : q = x \div S /\ r = x % S /\ x = q * S + r
    <2>1. x \div S \in Nat /\ x % S \in 0 .. S - 1 /\ x = (x \div S) * S + (x % S)
      BY <1>1, QuotNat
    <2> QED
      BY <2>1, Zenon
  <1>4. PICK k \in Nat, d \in 0 .. b - 1 : k = q \div b /\ d = q % b /\ q = k * b + d
    BY <1>1, QuotNat
  <1>5. d = Digit(x, i)
    BY <1>1, <1>3, <1>4 DEF Digit
  <1>6. PICK v \in 0 .. T - 1 : v = d * S + r
    BY <1>2, PairBelow
  <1>7. x = k * T + v
    <2>1. (k * b + d) * S + r = k * (b * S) + (d * S + r)
      BY ONLY k \in Nat, b \in Nat, d \in Int, S \in Nat, r \in Int
    <2> QED
      BY <1>2, <1>3, <1>4, <1>6, <2>1
  <1>8. (k * T + v) % T = v
    BY QuotRemUnique
  <1> QED
    BY <1>1, <1>2, <1>3, <1>4, <1>5, <1>6, <1>7, <1>8

LEMMA DigitWord == \A x, i \in Nat : Digit(x, i) \in 0 .. Beta - 1 /\ Digit(x, i) \in Int
  BY DigitStep

LEMMA DigitsFirstLast ==
    /\ \A x \in Nat : x % Size(0) = 0
    /\ \A w \in Nat : \A x \in Word(w) : x \in Nat /\ x % Size(w) = x
  <1>1. \A x \in Nat : x % 1 = 0
    OBVIOUS
  <1>2. ASSUME NEW w \in Nat, NEW x \in Word(w) PROVE x \in Nat /\ x % Size(w) = x
    <2>1. PICK n \in Nat : n = Size(w) /\ x \in 0 .. n - 1
      BY SizeNat DEF Word
    <2> QED
      BY <2>1, ModSmall
  <1> QED
    BY <1>1, <1>2, SizeFacts

\* One digit of a sum: the two comparisons of the loop find the carry.
LoopDigit(b, x, y, k, z, zk, c) == /\ z = (x + y) % b /\ zk = (z + k) % b
                                   /\ c = IF zk < k \/ z < x THEN 1 ELSE 0

LEMMA DigitSum ==
    ASSUME NEW b \in Nat, b > 0, NEW x \in 0 .. b - 1, NEW y \in 0 .. b - 1, NEW k \in 0 .. 1,
           NEW z, NEW zk, NEW c, LoopDigit(b, x, y, k, z, zk, c)
    PROVE  zk \in 0 .. b - 1 /\ c \in 0 .. 1 /\ x + y + k = c * b + zk
  <1>0. z = (x + y) % b /\ zk = (z + k) % b /\ c = IF zk < k \/ z < x THEN 1 ELSE 0
    BY DEF LoopDigit
  <1>1. z \in 0 .. b - 1
    BY <1>0, QuotRem
  <1>2. x + y = z \/ x + y = z + b
    <2>1. CASE x + y \in 0 .. b - 1
      BY <1>0, <2>1, ModSmall
    <2>2. CASE x + y - b \in 0 .. b - 1
      <3>1. PICK u \in 0 .. b - 1 : u = x + y - b /\ x + y = u + b
        BY <2>2
      <3>2. (u + b) % b = u % b /\ u % b = u
        BY ModAddOnce, ModSmall
      <3> QED
        BY <1>0, <3>1, <3>2
    <2> QED
      BY <2>1, <2>2
  <1>3. zk \in 0 .. b - 1 /\ z + k \in Nat
    BY <1>0, <1>1, QuotRem
  <1>4. z + k = zk \/ (z + k = b /\ zk = 0 /\ k = 1)
    <2>1. CASE z + k \in 0 .. b - 1
      BY <1>0, <2>1, ModSmall
    <2>2. CASE z + k = b
      <3>1. b = 1 * b + 0 /\ (1 * b + 0) % b = 0
        BY QuotRemUnique, 0 \in 0 .. b - 1
      <3> QED
        BY <1>0, <1>1, <2>2, <3>1
    <2> QED
      BY <1>1, <2>1, <2>2
  <1>5. z < x <=> x + y = z + b
    BY <1>1, <1>2
  <1>6. x + y <= 2 * b - 2
    OBVIOUS
  <1> QED
    BY <1>0, <1>1, <1>2, <1>3, <1>4, <1>5, <1>6


\* The loop over machine words: after i of them, the partial sum and its carry
\* are the sum of the numbers' low i digits.
PartialSum(x, y, z, k, i) == /\ z \in 0 .. Size(i) - 1 /\ k \in 0 .. 1
                             /\ z + k * Size(i) = (x % Size(i)) + (y % Size(i))

LEMMA PartialSumStep ==
    ASSUME NEW x \in Nat, NEW y \in Nat, NEW i \in Nat, NEW z, NEW k, PartialSum(x, y, z, k, i),
           NEW d \in 0 .. Beta - 1, NEW c \in 0 .. 1, Digit(x, i) + Digit(y, i) + k = c * Beta + d
    PROVE  PartialSum(x, y, z + d * Size(i), c, i + 1)
  <1>1. PICK S \in Nat, b \in Nat : S = Size(i) /\ S > 0 /\ b = Beta
    BY SizeNat, HalfSizes
  <1>2. PICK T \in Nat : T = Size(i + 1) /\ T = b * S
    BY <1>1, SizeNat, SizeNext
  <1>3. PICK xi \in Int, yi \in Int : xi = Digit(x, i) /\ yi = Digit(y, i)
    BY DigitStep
  <1>4. PICK xr \in Int, yr \in Int : xr = x % S /\ yr = y % S
    BY <1>1, QuotRem
  <1>5. x % T = xi * S + xr /\ y % T = yi * S + yr
    BY <1>1, <1>2, <1>3, <1>4, DigitStep
  <1>6. z \in 0 .. S - 1 /\ k \in 0 .. 1 /\ z \in Int /\ k \in Int /\ z + k * S = xr + yr
    BY <1>1, <1>4 DEF PartialSum
  <1>7. xi + yi + k = c * b + d
    BY <1>1, <1>3
  <1>8. (z + d * S) + c * (b * S) = (xi * S + xr) + (yi * S + yr)
    <2>1. c * (b * S) + d * S = (c * b + d) * S
      BY ONLY c \in Int, b \in Int, d \in Int, S \in Int
    <2>2. (xi + yi + k) * S = xi * S + yi * S + k * S
      BY <1>6
    <2>3. PICK P \in Int, Q \in Int, R \in Int, V \in Int, W \in Int, M \in Int :
             P = c * (b * S) /\ Q = d * S /\ R = xi * S /\ V = yi * S /\ W = k * S /\ M = (c * b + d) * S
      BY <1>6
    <2> QED
      BY <1>6, <1>7, <2>1, <2>2, <2>3
  <1>9. z + d * S \in 0 .. b * S - 1
    <2>1. d * S + z \in 0 .. b * S - 1
      BY <1>1, <1>6, PairBelow
    <2>2. PICK p \in Int : p = d * S
      BY <1>1
    <2> QED
      BY <1>6, <2>1, <2>2
  <1> QED
    BY <1>1, <1>2, <1>4, <1>5, <1>8, <1>9 DEF PartialSum

LEMMA AddLoopRight ==
    \A x, y \in Word(4) : AddLoop(4, x, y) = (x + y) % Size(4)
  <1> TAKE x \in Word(4), y \in Word(4)
  <1> DEFINE S == [z : Nat, k : 0 .. 1]
             Next1(acc, i) ==
                LET z == U(1, Digit(x, i) + Digit(y, i))
                    zk == U(1, z + acc.k)
                IN  [z |-> acc.z + zk * Size(i),
                     k |-> IF zk < acc.k \/ z < Digit(x, i) THEN 1 ELSE 0]
             step == [i \in 0 .. 4 - 1 |-> [acc \in S |-> Next1(acc, i)]]
             base == [z |-> 0, k |-> 0]
             Good(acc, i) == PartialSum(x, y, acc.z, acc.k, i)
             G == [i \in Nat |-> {acc \in S : Good(acc, i)}]
  <1>1. x \in Nat /\ y \in Nat
    BY Kept
  <1>2. AddLoop(4, x, y) = Upto(step, base, 4).z
    BY DEF AddLoop
  <1>3. ASSUME NEW i \in 0 .. 3, NEW acc \in S, Good(acc, i)
        PROVE  Next1(acc, i) \in S /\ Good(Next1(acc, i), i + 1)
    <2>0. PICK b \in Nat : b = Beta /\ b > 0
      BY HalfSizes
    <2>1. PICK xi \in 0 .. b - 1, yi \in 0 .. b - 1 : xi = Digit(x, i) /\ yi = Digit(y, i)
      <3>1. Digit(x, i) \in 0 .. Beta - 1 /\ Digit(y, i) \in 0 .. Beta - 1
        BY <1>1, DigitWord, i \in Nat
      <3> QED
        BY <2>0, <3>1, Zenon
    <2>2. PICK k \in 0 .. 1 : k = acc.k
      OBVIOUS
    <2>3. PICK z \in 0 .. b - 1 : z = U(1, xi + yi) /\ z = (xi + yi) % b
      <3>1. xi + yi \in Int
        OBVIOUS
      <3> QED
        BY <2>0, <3>1, KeptWord, Zenon
    <2>4. PICK d \in 0 .. b - 1 : d = U(1, z + k) /\ d = (z + k) % b
      <3>1. z + k \in Int
        OBVIOUS
      <3> QED
        BY <2>0, <3>1, KeptWord, Zenon
    <2>5. PICK c : c = IF d < k \/ z < xi THEN 1 ELSE 0
      OBVIOUS
    <2>6. c \in 0 .. 1 /\ xi + yi + k = c * b + d
      <3>1. LoopDigit(b, xi, yi, k, z, d, c)
        BY <2>3, <2>4, <2>5, Zenon DEF LoopDigit
      <3>2. d \in 0 .. b - 1 /\ c \in 0 .. 1 /\ xi + yi + k = c * b + d
        BY <2>0, <3>1, DigitSum, SMTT(30)
      <3> QED
        BY <3>2
    <2>7. PICK t \in Nat : t = acc.z + d * Size(i)
      BY SizeNat, ProductOfNaturals
    <2>8. Next1(acc, i) = [z |-> t, k |-> c]
      BY <2>1, <2>2, <2>3, <2>4, <2>5, <2>7
    <2>9. PartialSum(x, y, t, c, i + 1)
      <3>1. PartialSum(x, y, acc.z, k, i) /\ i \in Nat
        BY <1>3, <2>2
      <3> QED
        BY <1>1, <2>0, <2>1, <2>6, <2>7, <3>1, PartialSumStep
    <2> HIDE DEF Next1
    <2> QED
      BY <2>6, <2>8, <2>9
  <1>4. base \in S /\ Good(base, 0)
    <2>1. 0 + 0 * Size(0) = (x % Size(0)) + (y % Size(0)) /\ 0 \in 0 .. Size(0) - 1
      <3>1. Size(0) = 1 /\ x % Size(0) = 0 /\ y % Size(0) = 0
        BY <1>1, DigitsFirstLast, SizeFacts, Zenon
      <3> QED
        BY <3>1
    <2>2. PartialSum(x, y, 0, 0, 0)
      BY <2>1 DEF PartialSum
    <2> QED
      BY <2>2
  <1>5. ASSUME NEW acc \in S, Good(acc, 4) PROVE acc.z = (x + y) % Size(4)
    <2>1. PICK n \in Nat : n = Size(4) /\ n > 0
      BY SizeNat, 4 \in Nat
    <2>2. PICK z, k : z = acc.z /\ k = acc.k
      OBVIOUS
    <2>3. z \in 0 .. n - 1 /\ k \in Int /\ z + k * n = x + y
      <3>1. PartialSum(x, y, z, k, 4)
        BY <1>5, <2>2
      <3>2. x % Size(4) = x /\ y % Size(4) = y
        BY DigitsFirstLast, 4 \in Nat
      <3> QED
        BY <2>1, <3>1, <3>2 DEF PartialSum
    <2>4. (k * n + z) % n = z
      BY <2>1, <2>3, QuotRemUnique
    <2> QED
      BY <1>1, <2>1, <2>2, <2>3, <2>4
  <1>6. base \in G[0]
    <2> HIDE DEF Good, base, S
    <2> QED
      BY <1>4
  <1>7. UptoStep(step, G, 4)
    <2> HIDE DEF Good, Next1, S
    <2>1. ASSUME NEW i \in 0 .. 4 - 1, NEW acc \in G[i] PROVE step[i][acc] \in G[i + 1]
      <3>1. i \in Nat /\ i + 1 \in Nat /\ i \in 0 .. 3
        OBVIOUS
      <3>2. acc \in S /\ Good(acc, i)
        BY <3>1
      <3>3. step[i][acc] = Next1(acc, i)
        BY <3>2
      <3> HIDE DEF step
      <3> QED
        BY <1>3, <3>1, <3>2, <3>3
    <2> HIDE DEF step, G
    <2> QED
      BY <2>1 DEF UptoStep
  <1>8. Upto(step, base, 4) \in G[4]
    <2> HIDE DEF step, G, base
    <2> QED
      BY <1>6, <1>7, UptoKeeps, 4 \in Nat
  <1> HIDE DEF step, base, Good, S
  <1> QED
    BY <1>2, <1>5, <1>8, 4 \in Nat

Scaled(P, Q, H, x) == /\ (x * P) % H = (x % Q) * P /\ (x % Q) * P + P <= H
                      /\ x * P = (x \div Q) * H + (x % Q) * P

LEMMA ScaledParts ==
    ASSUME NEW P \in Nat, NEW Q \in Nat, NEW H \in Nat, Parts(H, P, Q), NEW x \in Nat
    PROVE  Scaled(P, Q, H, x)
  <1> USE DEF Parts
  <1>1. PICK q \in Nat, r \in 0 .. Q - 1 : q = x \div Q /\ r = x % Q /\ x = q * Q + r
    BY QuotNat
  <1>2. r * P + P <= Q * P
    BY ProductMonotonic
  <1>3. PICK t \in Nat : t = r * P /\ t < H /\ t + P <= H
    <2>1. Q * P = H /\ r * P \in Nat
      BY ProductOfNaturals
    <2> QED
      BY <1>2, <2>1
  <1>4. x * P = q * H + t
    <2>1. (q * Q + r) * P = q * (P * Q) + r * P
      OBVIOUS
    <2> QED
      BY <1>1, <1>3, <2>1
  <1>5. (q * H + t) % H = t /\ (q * H + t) \div H = q
    <2>1. t < H
      BY <1>3
    <2> QED
      BY ONLY <2>1, QuotRemUnique, q \in Int, H \in Nat, t \in Nat
  <1> QED
    BY <1>1, <1>3, <1>4, <1>5 DEF Scaled

\* A shift left by one machine word at a time.  P is the shift inside a machine
\* word, K the words skipped; c holds the bits that left the last digit.
LEMMA DigitShift ==
    ASSUME NEW b \in Nat, NEW P \in Nat, NEW Q \in Nat, Parts(b, P, Q),
           NEW d, NEW c, d \in 0 .. b - 1, c \in 0 .. P - 1
    PROVE  /\ ((d * P) % b) + c \in 0 .. b - 1 /\ d \div Q \in 0 .. P - 1
           /\ d * P = (d \div Q) * b + ((d * P) % b)
  <1> USE DEF Parts
  <1>1. d \in Nat /\ d < P * Q
    OBVIOUS
  <1>2. d \div Q \in 0 .. P - 1
    BY <1>1, QuotBelow
  <1>3. /\ (d * P) % b = (d % Q) * P /\ (d % Q) * P + P <= b
        /\ d * P = (d \div Q) * b + (d % Q) * P
    <2>1. Scaled(P, Q, b, d)
      <3> HIDE DEF Parts
      <3> QED
        BY <1>1, ScaledParts
    <2> QED
      BY <2>1, Zenon DEF Scaled
  <1>4. (d % Q) * P \in Nat
    BY <1>1, QuotNat, ProductOfNaturals
  <1>5. PICK u \in Nat : u = (d % Q) * P
    BY <1>4
  <1>6. u + c \in 0 .. b - 1
    BY <1>3, <1>5
  <1> QED
    BY <1>2, <1>3, <1>5, <1>6

PartialShift(x, P, K, r, c, i) == /\ r \in 0 .. Size(i) * K - 1 /\ c \in 0 .. P - 1
                                  /\ r + c * (Size(i) * K) = (x % Size(i)) * (P * K)

LEMMA PartialShiftStep ==
    ASSUME NEW x \in Nat, NEW i \in Nat, NEW P \in Nat, NEW Q \in Nat, Parts(Beta, P, Q),
           NEW K \in Nat, K > 0, NEW r, NEW c, PartialShift(x, P, K, r, c, i),
           NEW d \in Nat, d = Digit(x, i)
    PROVE  PartialShift(x, P, K, r + (((d * P) % Beta) + c) * (Size(i) * K), d \div Q, i + 1)
  <1>1. PICK S \in Nat, b \in Nat : S = Size(i) /\ S > 0 /\ b = Beta /\ b > 0
    BY SizeNat, HalfSizes
  <1>2. PICK T \in Nat : T = Size(i + 1) /\ T = b * S
    BY <1>1, SizeNat, SizeNext
  <1>3. d \in 0 .. b - 1
    BY <1>1, DigitWord
  <1>4. PICK xr \in Nat : xr = x % S /\ x % T = d * S + xr
    BY <1>1, <1>2, DigitStep
  <1>5. PICK V \in Nat : V = S * K
    BY ProductOfNaturals
  <1>6. r \in 0 .. V - 1 /\ c \in 0 .. P - 1 /\ r \in Int /\ c \in Int /\ r + c * V = xr * (P * K)
    BY <1>1, <1>4, <1>5 DEF PartialShift
  <1>7. PICK u \in Nat, e \in Int : u = (d * P) % b /\ e = d \div Q /\ u + c \in 0 .. b - 1 /\ e \in 0 .. P - 1
                                    /\ d * P = e * b + u
    <2>1. /\ ((d * P) % b) + c \in 0 .. b - 1 /\ d \div Q \in 0 .. P - 1
          /\ d * P = (d \div Q) * b + ((d * P) % b)
      BY <1>1, <1>3, <1>6, DigitShift
    <2>2. (d * P) % b \in Nat
      <3>1. PICK p \in Nat : p = d * P
        BY ProductOfNaturals
      <3> QED
        BY <1>1, <3>1, QuotNat
    <2> QED
      BY <2>1, <2>2
  <1>8. PICK v \in 0 .. b - 1 : v = u + c
    BY <1>7
  <1>9. T * K = b * V
    <2>1. (b * S) * K = b * (S * K)
      BY ONLY b \in Int, S \in Int, K \in Int
    <2> QED
      BY <1>2, <1>5, <2>1
  <1>10. r + v * V \in 0 .. b * V - 1
    <2>1. v * V + r \in 0 .. b * V - 1
      BY <1>6, PairBelow
    <2>2. PICK p \in Int : p = v * V
      OBVIOUS
    <2> QED
      BY <1>6, <2>1, <2>2
  <1>11. (r + v * V) + e * (b * V) = (d * S + xr) * (P * K)
    <2>1. v * V + e * (b * V) = (e * b + u) * V + c * V
      BY <1>6, <1>7, <1>8
    <2>2. (d * S + xr) * (P * K) = (d * P) * (S * K) + xr * (P * K)
      BY ONLY d \in Int, S \in Int, xr \in Int, P \in Int, K \in Int
    <2>3. PICK p \in Int, q \in Int, m \in Int, n \in Int : p = v * V /\ q = e * (b * V) /\ m = (e * b + u) * V /\ n = c * V
      BY <1>6, <1>7
    <2> QED
      BY <1>5, <1>6, <1>7, <2>1, <2>2, <2>3
  <1> QED
    BY <1>1, <1>2, <1>4, <1>5, <1>7, <1>8, <1>9, <1>10, <1>11 DEF PartialShift

LEMMA ShlLoopRight ==
    ASSUME NEW x \in Word(4), NEW shift \in 0 .. 4 * B - 1
    PROVE  ShlLoop(4, x, shift) = (x * TwoTo[shift]) % Size(4)
  <1> DEFINE s == shift % B
             skip == shift \div B
             n == 4 - skip
  <1>1. x \in Nat /\ B \in Nat /\ B > 1
    BY Kept, SizeFacts
  <1>2. /\ s \in 0 .. B - 1 /\ skip \in 0 .. 3 /\ shift = skip * B + s
        /\ n \in 0 .. 4 /\ n + skip = 4
    <2>1. shift \in Nat /\ shift < 4 * B
      BY <1>1
    <2>2. skip \in 0 .. 3 /\ shift = skip * B + s /\ s \in 0 .. B - 1
      BY <1>1, <2>1, QuotNat, QuotBelow, 4 \in Nat
    <2> QED
      BY <2>2
  <1> HIDE DEF s, skip
  <1>3. PICK P \in Nat, Q \in Nat, R \in Nat :
           /\ P = TwoTo[s] /\ Q = 2 * R /\ R = TwoTo[B - s - 1] /\ R > 0 /\ P > 0
           /\ Parts(Beta, P, Q)
    <2>1. B - 1 - s = B - s - 1
      BY <1>1, <1>2
    <2>2. /\ TwoTo[s] \in Nat /\ TwoTo[B - s] \in Nat /\ TwoTo[B - 1 - s] \in Nat
          /\ TwoTo[s] > 0 /\ TwoTo[B - s] > 0 /\ TwoTo[B - 1 - s] > 0
          /\ TwoTo[B - s] = 2 * TwoTo[B - 1 - s]
          /\ Parts(TwoTo[B], TwoTo[s], TwoTo[B - s])
      BY <1>1, <1>2, HalfParts
    <2> QED
      BY <2>1, <2>2 DEF Beta
  <1>4. PICK K \in Nat : K = Size(skip) /\ K > 0
    BY <1>2, SizeNat
  <1>5. \A i \in Nat : Size(i + skip) = Size(i) * K
    BY <1>2, <1>4, SizeFacts
  <1>6. TwoTo[shift] = P * K
    <2>1. PICK m \in Nat : m = skip * B /\ shift = m + s /\ s \in Nat /\ K = TwoTo[m]
      <3>1. skip * B \in Nat /\ s \in Nat
        BY <1>1, <1>2, ProductOfNaturals
      <3> QED
        BY <1>2, <1>4, <3>1 DEF Size
    <2>2. TwoTo[m + s] = TwoTo[m] * TwoTo[s]
      BY <2>1, TwoToSum
    <2>3. P * K = K * P
      OBVIOUS
    <2> QED
      BY <1>3, <2>1, <2>2, <2>3
  <1> DEFINE S == [r : Nat, carry : Nat]
             Next1(acc, i) ==
                [r |-> acc.r + (U(1, Digit(x, i) * TwoTo[s]) + acc.carry) * Size(i + skip),
                 carry |-> (Digit(x, i) \div TwoTo[B - s - 1]) \div 2]
             step == [i \in 0 .. 4 - 1 |-> [acc \in S |-> Next1(acc, i)]]
             base == [r |-> 0, carry |-> 0]
             Good(acc, i) == PartialShift(x, P, K, acc.r, acc.carry, i)
             G == [i \in Nat |-> {acc \in S : Good(acc, i)}]
  <1>7. ShlLoop(4, x, shift) = Upto(step, base, n).r
    BY DEF ShlLoop, s, skip
  <1>8. ASSUME NEW i \in 0 .. n - 1, NEW acc \in S, Good(acc, i)
        PROVE  Next1(acc, i) \in S /\ Good(Next1(acc, i), i + 1)
    <2>1. i \in Nat
      BY <1>2
    <2>2. PICK d \in Nat : d = Digit(x, i) /\ d \in 0 .. Beta - 1
      BY <1>1, <2>1, DigitWord
    <2>3. PICK p \in Nat : p = d * P
      BY ProductOfNaturals
    <2>4. PICK u \in Nat : u = U(1, p) /\ u = p % Beta
      <3>1. U(1, p) \in 0 .. Beta - 1 /\ U(1, p) = p % Beta
        BY KeptWord
      <3> QED
        BY <3>1, HalfSizes
    <2>5. PICK e \in Nat : e = (d \div R) \div 2 /\ e = d \div Q
      <3>1. (d \div R) \div 2 = d \div (R * 2) /\ R * 2 = Q
        BY <1>3, QuotOfQuot, 2 \in Nat
      <3>2. d \div Q \in Nat
        BY <1>3, QuotNat
      <3> QED
        BY <3>1, <3>2
    <2>6. PICK v \in Nat : v = (u + acc.carry) * Size(i + skip) /\ v = (u + acc.carry) * (Size(i) * K)
      <3>1. Size(i) * K \in Nat
        BY <2>1, SizeNat, ProductOfNaturals
      <3>2. (u + acc.carry) * (Size(i) * K) \in Nat
        BY <3>1, ProductOfNaturals
      <3> QED
        BY <1>5, <2>1, <3>2
    <2>7. PICK r \in Nat : r = acc.r + v
      OBVIOUS
    <2>8. Next1(acc, i) = [r |-> r, carry |-> e]
      BY <1>3, <2>2, <2>3, <2>4, <2>5, <2>6, <2>7
    <2>9. PartialShift(x, P, K, r, e, i + 1)
      <3>1. PartialShift(x, P, K, acc.r, acc.carry, i)
        BY <1>8
      <3>2. PartialShift(x, P, K, acc.r + (((d * P) % Beta) + acc.carry) * (Size(i) * K), d \div Q, i + 1)
        BY <1>1, <1>3, <1>4, <2>1, <2>2, <3>1, PartialShiftStep
      <3> QED
        BY <2>3, <2>4, <2>5, <2>6, <2>7, <3>2
    <2> HIDE DEF Next1
    <2> QED
      BY <2>8, <2>9
  <1>9. base \in S /\ Good(base, 0)
    <2>1. Size(0) = 1 /\ x % Size(0) = 0
      BY <1>1, DigitsFirstLast, SizeFacts
    <2>2. 0 \in 0 .. 1 * K - 1 /\ 0 \in 0 .. P - 1 /\ 0 + 0 * (1 * K) = 0 * (P * K)
      BY <1>3, <1>4
    <2>3. PartialShift(x, P, K, 0, 0, 0)
      BY <2>1, <2>2 DEF PartialShift
    <2> QED
      BY <2>3
  <1>10. ASSUME NEW acc \in S, Good(acc, n) PROVE acc.r = (x * TwoTo[shift]) % Size(4)
    <2>1. PICK W \in Nat, T \in Nat : W = Size(4) /\ W > 0 /\ T = Size(n) /\ T > 0 /\ W = T * K
      <3>1. n \in Nat /\ n + skip = 4 /\ 4 \in Nat
        BY <1>2
      <3>2. Size(n + skip) = Size(n) * K
        BY <1>5, <3>1
      <3> HIDE DEF n
      <3> QED
        BY <3>1, <3>2, SizeNat
    <2>2. PICK q \in Nat, xr \in Nat : q = x \div T /\ xr = x % T /\ x = q * T + xr
      <3>1. x \div T \in Nat /\ x % T \in 0 .. T - 1 /\ x = (x \div T) * T + (x % T)
        BY <1>1, <2>1, QuotNat
      <3> QED
        BY <3>1
    <2>3. PICK r \in Nat, c \in Nat : r = acc.r /\ c = acc.carry
      OBVIOUS
    <2>4. r < W /\ r + c * W = xr * (P * K)
      <3>1. PartialShift(x, P, K, r, c, n)
        BY <1>10, <2>3
      <3> HIDE DEF n
      <3> QED
        BY <2>1, <2>2, <3>1 DEF PartialShift
    <2>5. PICK m \in Int : m = q * P + c
      OBVIOUS
    <2>6. x * (P * K) = m * W + r
      <3>1. (q * T + xr) * (P * K) = (q * P) * (T * K) + xr * (P * K)
        BY ONLY q \in Int, T \in Int, xr \in Int, P \in Int, K \in Int
      <3>2. (q * P + c) * W = (q * P) * W + c * W
        OBVIOUS
      <3>3. PICK a \in Int, b \in Int, e \in Int : a = (q * P) * W /\ b = c * W /\ e = xr * (P * K)
        OBVIOUS
      <3>4. x * (P * K) = a + e
        BY <2>1, <2>2, <3>1, <3>3
      <3>5. m * W = a + b
        BY <2>5, <3>2, <3>3
      <3>6. r + b = e
        BY <2>4, <3>3
      <3> QED
        BY ONLY <3>4, <3>5, <3>6, a \in Int, b \in Int, e \in Int, r \in Nat
    <2>7. (m * W + r) % W = r
      BY <2>1, <2>4, QuotRemUnique
    <2> QED
      BY <1>6, <2>1, <2>3, <2>6, <2>7
  <1>11. base \in G[0]
    <2> HIDE DEF Good, base, S
    <2> QED
      BY <1>9
  <1>12. UptoStep(step, G, n)
    <2> HIDE DEF Good, Next1, S
    <2>1. ASSUME NEW i \in 0 .. n - 1, NEW acc \in G[i] PROVE step[i][acc] \in G[i + 1]
      <3>1. i \in Nat /\ i + 1 \in Nat /\ i \in 0 .. 4 - 1
        BY <1>2
      <3>2. acc \in S /\ Good(acc, i)
        BY <3>1
      <3>3. step[i][acc] = Next1(acc, i)
        BY <3>1, <3>2
      <3> HIDE DEF step
      <3> QED
        BY <1>8, <3>1, <3>2, <3>3
    <2> HIDE DEF step, G, n
    <2> QED
      BY <2>1 DEF UptoStep
  <1>13. Upto(step, base, n) \in G[n]
    <2>1. n \in Nat
      BY <1>2
    <2> HIDE DEF step, G, base, n
    <2> QED
      BY <1>11, <1>12, <2>1, UptoKeeps
  <1>14. n \in Nat
    BY <1>2
  <1> HIDE DEF step, base, Good, S, n
  <1> QED
    BY <1>7, <1>10, <1>13, <1>14

-----------------------------------------------------------------------------
(* Single bits: the loop that ors two words *)

RemSplit(x, b, S) == x % (b * S) = ((x \div S) % b) * S + (x % S)

LEMMA RemOfProduct ==
    ASSUME NEW x \in Nat, NEW b \in Nat, NEW S \in Nat, b > 0, S > 0
    PROVE  RemSplit(x, b, S)
  <1>1. PICK q \in Nat, r \in 0 .. S - 1 : q = x \div S /\ r = x % S /\ x = q * S + r
    <2>1. x \div S \in Nat /\ x % S \in 0 .. S - 1 /\ x = (x \div S) * S + (x % S)
      BY QuotNat
    <2> QED
      BY <2>1, Zenon
  <1>2. PICK k \in Nat, d \in 0 .. b - 1 : k = q \div b /\ d = q % b /\ q = k * b + d
    <2>1. q \div b \in Nat /\ q % b \in 0 .. b - 1 /\ q = (q \div b) * b + (q % b)
      BY QuotNat
    <2> QED
      BY <2>1, Zenon
  <1>6. PICK T \in Nat : T = b * S
    BY ProductOfNaturals
  <1>3. PICK v \in 0 .. T - 1 : v = d * S + r
    BY <1>6, PairBelow
  <1>4. x = k * T + v
    <2>1. (k * b + d) * S + r = k * (b * S) + (d * S + r)
      BY ONLY k \in Nat, b \in Nat, d \in Int, S \in Nat, r \in Int
    <2> QED
      BY <1>1, <1>2, <1>3, <1>6, <2>1
  <1>5. (k * T + v) % T = v
    BY QuotRemUnique
  <1> QED
    BY <1>1, <1>2, <1>3, <1>4, <1>5, <1>6 DEF RemSplit

BitOf(x, i) == (x \div TwoTo[i]) % 2

LEMMA BitStep ==
    ASSUME NEW x \in Nat, NEW i \in Nat
    PROVE  BitOf(x, i) \in 0 .. 1 /\ x % TwoTo[i + 1] = (x % TwoTo[i]) + TwoTo[i] * BitOf(x, i)
  <1>1. PICK S \in Nat : S = TwoTo[i] /\ S > 0 /\ TwoTo[i + 1] = 2 * S
    BY TwoToStep
  <1>2. PICK q \in Nat, r \in Nat : q = x \div S /\ r = x % S
    BY <1>1, QuotNat
  <1>3. x % (2 * S) = (q % 2) * S + r
    <2>1. RemSplit(x, 2, S)
      BY <1>1, RemOfProduct, 2 \in Nat
    <2> QED
      BY <1>2, <2>1 DEF RemSplit
  <1>4. PICK d \in 0 .. 1 : d = q % 2
    OBVIOUS
  <1>5. d * S + r = r + S * d
    BY <1>1, <1>2
  <1> QED
    BY <1>1, <1>2, <1>3, <1>4, <1>5 DEF BitOf

\* All bits from k to n - 1.
LEMMA BitsFrom ==
    ASSUME NEW n \in Nat, NEW k \in 0 .. n, NEW i \in 0 .. n - 1
    PROVE  /\ TwoTo[n] - TwoTo[k] \in Nat
           /\ BitOf(TwoTo[n] - TwoTo[k], i) = 1 <=> i >= k
  <1>1. TwoTo[k] \in Nat /\ TwoTo[n] \in Nat /\ TwoTo[k] <= TwoTo[n]
    <2>1. k \in Nat /\ k <= n
      OBVIOUS
    <2>2. TwoTo[k] <= TwoTo[n]
      BY <2>1, TwoToMonotonic
    <2>3. TwoTo[k] \in Nat /\ TwoTo[n] \in Nat
      BY <2>1, TwoToStep
    <2> QED
      BY <2>2, <2>3
  <1>2. PICK y \in Nat : y = TwoTo[n] - TwoTo[k]
    BY <1>1
  <1>3. PICK S \in Nat : S = TwoTo[i] /\ S > 0
    BY TwoToStep
  <1>4. PICK a \in Nat : TwoTo[n] = (2 * a) * S /\ a > 0
    <2>1. TwoTo[n] = TwoTo[n - i] * TwoTo[i]
      BY TwoToMonotonic
    <2>2. n - i - 1 \in Nat /\ n - i - 1 + 1 = n - i
      OBVIOUS
    <2>3. TwoTo[n - i] = 2 * TwoTo[n - i - 1] /\ TwoTo[n - i - 1] \in Nat /\ TwoTo[n - i - 1] > 0
      BY <2>2, TwoToStep
    <2> QED
      BY <1>3, <2>1, <2>3
  <1>5. ASSUME i < k PROVE BitOf(y, i) = 0
    <2>1. PICK c \in Nat : TwoTo[k] = (2 * c) * S
      <3>1. TwoTo[k] = TwoTo[k - i] * TwoTo[i]
        BY <1>5, TwoToMonotonic
      <3>2. k - i - 1 \in Nat /\ k - i - 1 + 1 = k - i
        BY <1>5
      <3>3. TwoTo[k - i] = 2 * TwoTo[k - i - 1] /\ TwoTo[k - i - 1] \in Nat
        BY <3>2, TwoToStep
      <3> QED
        BY <1>3, <3>1, <3>3
    <2>2. PICK m \in Int : m = a - c
      OBVIOUS
    <2>3. y = (2 * m) * S + 0
      <3>1. (2 * m) * S = (2 * a) * S - (2 * c) * S
        BY <2>2
      <3> QED
        BY <1>2, <1>4, <2>1, <3>1
    <2>4. ((2 * m) * S + 0) \div S = 2 * m
      BY <1>3, QuotRemUnique, 2 * m \in Int
    <2>5. (2 * m) % 2 = 0
      OBVIOUS
    <2> QED
      BY <1>3, <2>3, <2>4, <2>5 DEF BitOf
  <1>6. ASSUME i >= k PROVE BitOf(y, i) = 1
    <2>1. TwoTo[k] <= S /\ TwoTo[k] \in Nat /\ TwoTo[k] > 0
      <3>1. k \in Nat /\ i \in Nat /\ k <= i
        BY <1>6
      <3>2. TwoTo[k] <= TwoTo[i]
        BY <3>1, TwoToMonotonic
      <3>3. TwoTo[k] \in Nat /\ TwoTo[k] > k
        BY <3>1, TwoToStep
      <3> QED
        BY <1>3, <3>1, <3>2, <3>3
    <2>2. PICK r \in 0 .. S - 1 : r = S - TwoTo[k]
      BY <2>1
    <2>3. PICK m \in Int : m = 2 * a - 1
      OBVIOUS
    <2>4. y = m * S + r
      <3>1. m * S = (2 * a) * S - S
        BY <2>3
      <3> QED
        BY <1>1, <1>2, <1>4, <2>1, <2>2, <3>1
    <2>5. (m * S + r) \div S = m
      BY <1>3, QuotRemUnique, SMTT(30)
    <2>6. m % 2 = 1
      BY <2>3
    <2> QED
      BY <1>3, <2>4, <2>5, <2>6 DEF BitOf
  <1> QED
    BY <1>2, <1>5, <1>6

\* Or with the word whose bits are set from k on.
LEMMA OrWordsRight ==
    ASSUME NEW x \in Word(4), NEW k \in 0 .. Bits, NEW y, y = Size(4) - TwoTo[k]
    PROVE  y \in Word(4) /\ OrWords(x, y) = (x % TwoTo[k]) + y
  <1>1. x \in Nat /\ Bits \in Nat /\ Size(4) = TwoTo[Bits] /\ Bits > 0
    BY Kept, SizeFacts DEF Size, Bits
  <1>2. PICK n \in Nat : n = Bits
    BY <1>1
  <1>3. k \in Nat /\ k <= n /\ k \in 0 .. n
    BY <1>2
  <1>4. PICK K \in Nat, N \in Nat : K = TwoTo[k] /\ K > 0 /\ N = TwoTo[n] /\ K <= N
    <2>1. TwoTo[k] <= TwoTo[n]
      BY <1>3, TwoToMonotonic
    <2>2. TwoTo[k] \in Nat /\ TwoTo[k] > k /\ TwoTo[n] \in Nat
      BY <1>3, TwoToStep
    <2> QED
      BY <1>3, <2>1, <2>2
  <1>5. y \in Nat /\ y = TwoTo[n] - TwoTo[k] /\ y < N /\ Size(4) = N
    BY <1>1, <1>2, <1>4
  <1>6. y \in Word(4)
    BY <1>5 DEF Word
  <1> DEFINE Value(i) == IF i <= k THEN x % TwoTo[i] ELSE (x % K) + (TwoTo[i] - K)
             Next1(acc, i) == acc + TwoTo[i] * Truth((x \div TwoTo[i]) % 2 = 1 \/ (y \div TwoTo[i]) % 2 = 1)
             step == [i \in 0 .. Bits - 1 |-> [acc \in Nat |-> Next1(acc, i)]]
             G == [i \in Nat |-> {acc \in Nat : acc = Value(i)}]
  <1>7. OrWords(x, y) = Upto(step, 0, Bits)
    BY DEF OrWords
  <1>8. ASSUME NEW i \in 0 .. n - 1, NEW acc \in Nat, acc = Value(i)
        PROVE  Next1(acc, i) \in Nat /\ Next1(acc, i) = Value(i + 1)
    <2>1. PICK S \in Nat : S = TwoTo[i] /\ S > 0 /\ TwoTo[i + 1] = 2 * S
      BY TwoToStep
    <2>2. PICK b \in 0 .. 1 : b = BitOf(x, i) /\ x % TwoTo[i + 1] = (x % S) + S * b
      <3>1. BitOf(x, i) \in 0 .. 1 /\ x % TwoTo[i + 1] = (x % TwoTo[i]) + TwoTo[i] * BitOf(x, i)
        BY <1>1, BitStep, i \in Nat
      <3> QED
        BY <2>1, <3>1
    <2>3. BitOf(y, i) = 1 <=> i >= k
      BY <1>3, <1>5, BitsFrom
    <2>4. PICK t \in 0 .. 1 : t = Truth(BitOf(x, i) = 1 \/ BitOf(y, i) = 1)
      BY DEF Truth
    <2>5. t = 1 <=> b = 1 \/ i >= k
      BY <2>2, <2>3, <2>4 DEF Truth
    <2>6. Next1(acc, i) = acc + S * t
      BY <2>1, <2>4 DEF BitOf
    <2>7. S * 0 = 0 /\ S * 1 = S
      OBVIOUS
    <2>8. x % S \in Nat /\ x % K \in Nat
      BY <1>1, <1>4, <2>1, QuotNat
    <2>9. ASSUME i < k PROVE acc + S * t = Value(i + 1)
      <3>1. t = b /\ i + 1 <= k /\ i <= k
        BY <2>5, <2>9
      <3> QED
        BY <1>8, <2>1, <2>2, <3>1
    <2>10. ASSUME i >= k PROVE acc + S * t = Value(i + 1)
      <3>1. t = 1 /\ ~(i + 1 <= k)
        BY <2>5, <2>10
      <3>2. acc = (x % K) + (S - K)
        <4>1. CASE i = k
          BY <1>4, <1>8, <2>1, <2>8, <4>1
        <4>2. CASE i > k
          BY <1>8, <2>1, <4>2
        <4> QED
          BY <2>10, <4>1, <4>2
      <3> QED
        BY <2>1, <2>7, <2>8, <3>1, <3>2
    <2>11. acc + S * t \in Nat
      BY <2>7
    <2> HIDE DEF Value, Next1
    <2> QED
      BY <2>6, <2>9, <2>10, <2>11
  <1>9. 0 \in G[0]
    <2>1. x % 1 = 0 /\ TwoTo[0] = 1 /\ 0 <= k
      BY <1>1, <1>3, TwoToStep
    <2>2. Value(0) = 0
      BY <2>1
    <2> HIDE DEF Value
    <2> QED
      BY <2>2
  <1>10. UptoStep(step, G, n)
    <2> HIDE DEF Value, Next1
    <2>1. ASSUME NEW i \in 0 .. n - 1, NEW acc \in G[i] PROVE step[i][acc] \in G[i + 1]
      <3>1. i \in Nat /\ i + 1 \in Nat /\ i \in 0 .. Bits - 1
        BY <1>2
      <3>2. acc \in Nat /\ acc = Value(i)
        BY <3>1
      <3>3. step[i][acc] = Next1(acc, i)
        BY <3>1, <3>2
      <3> HIDE DEF step
      <3> QED
        BY <1>8, <3>1, <3>2, <3>3
    <2> HIDE DEF step, G
    <2> QED
      BY <2>1 DEF UptoStep
  <1>11. Upto(step, 0, n) \in G[n]
    <2> HIDE DEF step, G
    <2> QED
      BY <1>9, <1>10, UptoKeeps
  <1>12. Upto(step, 0, n) = Value(n)
    <2> HIDE DEF step, Value
    <2> QED
      BY <1>11
  <1>13. Value(n) = (x % K) + y
    <2>1. CASE n = k
      <3>1. x % N \in Nat /\ y = 0
        BY <1>1, <1>4, <1>5, <2>1, QuotNat
      <3> QED
        BY <1>4, <2>1, <3>1
    <2>2. CASE n # k
      BY <1>3, <1>4, <1>5, <2>2
    <2> QED
      BY <2>1, <2>2
  <1> HIDE DEF step, Value
  <1> QED
    BY <1>2, <1>4, <1>6, <1>7, <1>12, <1>13

-----------------------------------------------------------------------------
(* The opcodes that carry *)

LEMMA SignFacts ==
    /\ Size(4) \in Nat /\ Size(4) > 1 /\ Size(4) % 2 = 0
    /\ \A x \in Word(4) : /\ x \in Nat /\ x < Size(4)
                          /\ Negative(4, x) <=> 2 * x >= Size(4)
                          /\ Signed(x) = IF Negative(4, x) THEN x - Size(4) ELSE x
                          /\ Signed(x) < 0 <=> Negative(4, x)
  <1>1. PICK n \in Nat : n = Size(4) /\ n > 1
    BY HalfSizes
  <1>2. n % 2 = 0
    <2>1. 4 * B \in Nat /\ 4 * B - 1 \in Nat /\ 4 * B - 1 + 1 = 4 * B
      BY SizeFacts
    <2>2. TwoTo[4 * B - 1 + 1] = 2 * TwoTo[4 * B - 1] /\ TwoTo[4 * B - 1] \in Nat
      BY <2>1, TwoToStep
    <2>3. PICK m \in Nat : n = 2 * m
      BY <1>1, <2>1, <2>2 DEF Size
    <2> QED
      BY <2>3
  <1>3. ASSUME NEW x \in Word(4)
        PROVE  /\ x \in Nat /\ x < n
               /\ Negative(4, x) <=> 2 * x >= n
               /\ Signed(x) = IF Negative(4, x) THEN x - n ELSE x
               /\ Signed(x) < 0 <=> Negative(4, x)
    <2>1. x \in Nat /\ x < n
      BY <1>1, Kept
    <2>2. Negative(4, x) <=> 2 * x >= n
      BY <1>1, <1>2, <2>1 DEF Negative
    <2> QED
      BY <1>1, <2>1, <2>2 DEF Signed
  <1> QED
    BY <1>1, <1>2, <1>3

LEMMA SignedRight ==
    \A x, y \in Word(4) : /\ SignedLess(x, y) <=> Signed(x) < Signed(y)
                          /\ SignedGreater(x, y) <=> Signed(x) > Signed(y)
  <1> TAKE x \in Word(4), y \in Word(4)
  <1>1. PICK n \in Nat : n = Size(4)
    BY SignFacts
  <1>2. /\ x \in Nat /\ x < n /\ y \in Nat /\ y < n
        /\ Signed(x) = IF Negative(4, x) THEN x - n ELSE x
        /\ Signed(y) = IF Negative(4, y) THEN y - n ELSE y
    BY <1>1, SignFacts
  <1>3. Negative(4, x) \in BOOLEAN /\ Negative(4, y) \in BOOLEAN
    BY DEF Negative
  <1>4. (Less256(x, y) <=> x < y) /\ (Less256(y, x) <=> y < x)
    BY Less256Right
  <1>5. /\ SignedLess(x, y) <=> IF Negative(4, x) # Negative(4, y) THEN Negative(4, x) ELSE x < y
        /\ SignedGreater(x, y) <=> IF Negative(4, x) # Negative(4, y) THEN Negative(4, y) ELSE y < x
    BY <1>4 DEF SignedLess, SignedGreater
  <1>6. PICK u \in Int, v \in Int : u = Signed(x) /\ v = Signed(y)
    BY <1>2
  <1>8. CASE Negative(4, x) /\ Negative(4, y)
    <2>1. u = x - n /\ v = y - n
      BY <1>2, <1>6, <1>8
    <2>2. (SignedLess(x, y) <=> x < y) /\ (SignedGreater(x, y) <=> y < x)
      BY <1>5, <1>8, Zenon
    <2> QED
      BY <1>2, <1>6, <2>1, <2>2
  <1>9. CASE Negative(4, x) /\ ~Negative(4, y)
    <2>1. u = x - n /\ v = y
      BY <1>2, <1>6, <1>9
    <2>2. SignedLess(x, y) /\ ~SignedGreater(x, y)
      BY <1>5, <1>9, Zenon
    <2> QED
      BY <1>2, <1>6, <2>1, <2>2
  <1>10. CASE ~Negative(4, x) /\ Negative(4, y)
    <2>1. u = x /\ v = y - n
      BY <1>2, <1>6, <1>10
    <2>2. ~SignedLess(x, y) /\ SignedGreater(x, y)
      BY <1>5, <1>10, Zenon
    <2> QED
      BY <1>2, <1>6, <2>1, <2>2
  <1>11. CASE ~Negative(4, x) /\ ~Negative(4, y)
    <2>1. u = x /\ v = y
      BY <1>2, <1>6, <1>11
    <2>2. (SignedLess(x, y) <=> x < y) /\ (SignedGreater(x, y) <=> y < x)
      <3>1. Negative(4, x) = FALSE /\ Negative(4, y) = FALSE
        BY <1>3, <1>11
      <3> QED
        BY <1>5, <3>1
    <2> QED
      BY <1>2, <1>6, <2>1, <2>2
  <1> QED
    BY <1>8, <1>9, <1>10, <1>11, Zenon

LEMMA ByteFacts ==
    /\ ByteBits \in Nat /\ ByteBits > 0 /\ Bytes \in Nat /\ Bytes > 0
    /\ Bits \in Nat /\ Bits = Bytes * ByteBits /\ Bits = 4 * B
    /\ Size(4) = TwoTo[Bits]
  <1>1. B \in Nat /\ B > 1 /\ ByteBits \in Nat /\ ByteBits > 0 /\ B % ByteBits = 0
    BY WidthAssumption
  <1>2. PICK q \in Nat : q = B \div ByteBits /\ B = q * ByteBits + 0 /\ q > 0
    <2>1. B \div ByteBits \in Nat /\ B = (B \div ByteBits) * ByteBits + (B % ByteBits)
      BY <1>1, QuotNat
    <2>2. PICK q \in Nat : q = B \div ByteBits
      BY <2>1
    <2>3. B = q * ByteBits + 0
      BY <1>1, <2>1, <2>2
    <2>4. q # 0
      BY <1>1, <2>3
    <2> QED
      BY <2>2, <2>3, <2>4
  <1>3. 4 * B = (4 * q) * ByteBits + 0
    BY <1>1, <1>2
  <1>4. ((4 * q) * ByteBits + 0) \div ByteBits = 4 * q
    BY <1>1, <1>2, QuotRemUnique, 4 * q \in Int, 0 \in Nat
  <1>5. Bits = 4 * B /\ Bytes = 4 * q
    BY <1>3, <1>4 DEF Bits, Bytes
  <1> QED
    BY <1>1, <1>2, <1>3, <1>5 DEF Size

\* A shift amount of whole bytes stays below the width.
LEMMA ByteAtRight ==
    ASSUME NEW i \in Word(4), NEW x \in Word(4)
    PROVE  ByteAt(i, x) = IF i >= Bytes THEN 0
                          ELSE (x \div TwoTo[ByteBits * (Bytes - 1 - i)]) % TwoTo[ByteBits]
  <1>1. i \in Nat /\ Bytes \in Nat /\ ByteBits \in Nat /\ ByteBits > 0 /\ Bits = Bytes * ByteBits /\ Bits = 4 * B
    BY Kept, ByteFacts
  <1>2. ASSUME i < Bytes
        PROVE  ByteAt(i, x) = (x \div TwoTo[ByteBits * (Bytes - 1 - i)]) % TwoTo[ByteBits]
    <2>1. PICK m \in Nat : m = Bytes - 1 - i /\ m < Bytes
      BY <1>1, <1>2
    <2>2. PICK s \in Nat : s = ByteBits * m /\ s = m * ByteBits
      BY <1>1, ProductOfNaturals
    <2>3. m * ByteBits < Bytes * ByteBits
      BY <1>1, <2>1, ProductMonotonic
    <2>4. s \in 0 .. 4 * B - 1
      <3>1. PICK n \in Nat : n = 4 * B
        BY <1>1, ByteFacts
      <3> QED
        BY <1>1, <2>2, <2>3, <3>1
    <2>5. Shr256(x, s) = x \div TwoTo[s]
      BY <2>4, Shr256Right
    <2> QED
      BY <1>2, <2>1, <2>2, <2>5 DEF ByteAt
  <1>3. ASSUME i >= Bytes PROVE ByteAt(i, x) = 0
    BY <1>1, <1>3 DEF ByteAt
  <1> QED
    BY <1>1, <1>2, <1>3

\* n - 2^k as a word: all bits from k on.
LEMMA ShiftedOnes ==
    ASSUME NEW k \in 1 .. Bits
    PROVE  Shl256(MaxWord, k) = Size(4) - TwoTo[k]
  <1>1. Bits \in Nat /\ Bits = 4 * B /\ Size(4) = TwoTo[Bits] /\ k \in Nat
    BY ByteFacts
  <1>2. PICK n \in Nat : n = Size(4) /\ n > 1
    BY SignFacts
  <1>3. CASE k = Bits
    <2>1. Shl256(MaxWord, k) = 0
      <3>1. ~(4 * B < 2 * B) /\ ~(4 * B < 2 * (2 * B))
        BY SizeFacts
      <3> QED
        BY <1>1, <1>3, <3>1 DEF Shl256
    <2> QED
      BY <1>1, <1>2, <1>3, <2>1
  <1>4. CASE k # Bits
    <2>1. MaxWord \in Word(4) /\ k \in 0 .. 4 * B - 1 /\ MaxWord = n - 1
      BY <1>1, <1>2, <1>4 DEF MaxWord, Word
    <2>2. Shl256(MaxWord, k) = (MaxWord * TwoTo[k]) % Size(4)
      BY <2>1, Shl256Right
    <2>3. PICK K \in Nat : K = TwoTo[k] /\ K > 0 /\ K <= n
      <3>1. TwoTo[k] <= TwoTo[Bits]
        BY <1>1, TwoToMonotonic
      <3>2. TwoTo[k] \in Nat /\ TwoTo[k] > k
        BY <1>1, TwoToStep
      <3> QED
        BY <1>1, <1>2, <3>1, <3>2
    <2>4. PICK r \in Nat : r = n - K /\ r < n
      BY <2>3
    <2>5. PICK m \in Int : m = K - 1
      OBVIOUS
    <2>6. (n - 1) * K = m * n + r
      <3>1. (n - 1) * K = n * K - K /\ m * n = n * K - n
        BY <2>5
      <3> QED
        BY <2>4, <3>1
    <2>7. (m * n + r) % n = r
      BY <2>4, QuotRemUnique
    <2> QED
      BY <1>2, <2>1, <2>2, <2>3, <2>4, <2>6, <2>7
  <1> QED
    BY <1>3, <1>4

\* The value of an arithmetic shift.
LEMMA ShiftArithmeticRight ==
    ASSUME NEW s \in Word(4), NEW x \in Word(4)
    PROVE  ShiftArithmetic(s, x) =
               (IF s >= Bits THEN (IF Signed(x) < 0 THEN -1 ELSE 0) ELSE Signed(x) \div TwoTo[s]) % Size(4)
  <1>1. PICK n \in Nat : n = Size(4) /\ n > 1
    BY SignFacts
  <1>2. /\ s \in Nat /\ x \in Nat /\ x < n /\ x \in 0 .. n - 1
        /\ Signed(x) = IF Negative(4, x) THEN x - n ELSE x
        /\ Signed(x) < 0 <=> Negative(4, x)
    BY <1>1, SignFacts
  <1>3. Bits \in Nat /\ Bits = 4 * B /\ n = TwoTo[Bits]
    BY <1>1, ByteFacts
  <1>4. ASSUME s >= Bits
        PROVE  ShiftArithmetic(s, x) = (IF Signed(x) < 0 THEN -1 ELSE 0) % n
    <2>1. (-1) % n = n - 1 /\ 0 % n = 0
      <3>1. (-1) * n + (n - 1) = -1 /\ ((-1) * n + (n - 1)) % n = n - 1
        BY <1>1, QuotRemUnique, -1 \in Int, n - 1 \in Nat
      <3>2. 0 % n = 0
        BY <1>1, ModSmall, 0 \in 0 .. n - 1
      <3> QED
        BY <3>1, <3>2
    <2>2. ShiftArithmetic(s, x) = IF Negative(4, x) THEN n - 1 ELSE 0
      BY <1>1, <1>4 DEF ShiftArithmetic, MaxWord
    <2> QED
      BY <1>2, <2>1, <2>2
  <1>5. ASSUME s < Bits PROVE ShiftArithmetic(s, x) = (Signed(x) \div TwoTo[s]) % n
    <2>1. s \in 0 .. 4 * B - 1 /\ ~(s >= Bits) /\ s <= Bits /\ Bits - s \in 1 .. Bits
      BY <1>2, <1>3, <1>5
    <2>2. PICK T \in Nat, K \in Nat : T = TwoTo[s] /\ T > 0 /\ K = TwoTo[Bits - s] /\ K > 0 /\ n = K * T
      <3>1. TwoTo[Bits] = TwoTo[Bits - s] * TwoTo[s]
        BY <1>2, <1>3, <2>1, TwoToMonotonic
      <3>2. Bits - s \in Nat
        BY <2>1
      <3>3. TwoTo[s] \in Nat /\ TwoTo[s] > s /\ TwoTo[Bits - s] \in Nat /\ TwoTo[Bits - s] > Bits - s
        BY <1>2, <3>2, TwoToStep
      <3> QED
        BY <1>2, <1>3, <3>1, <3>2, <3>3
    <2>3. PICK q \in Nat, r \in 0 .. T - 1 : q = x \div T /\ x = q * T + r
      <3>1. x \div T \in Nat /\ x % T \in 0 .. T - 1 /\ x = (x \div T) * T + (x % T)
        BY <1>2, <2>2, QuotNat
      <3> QED
        BY <3>1, Zenon
    <2>4. q < K
      <3>1. x \div T \in 0 .. K - 1
        BY <1>2, <2>2, QuotBelow
      <3> QED
        BY <2>3, <3>1
    <2>5. Shr256(x, s) = q /\ q \in Word(4)
      BY <2>1, <2>2, <2>3, Shr256Right
    <2>6. q \in 0 .. n - 1
      BY <1>1, <2>5 DEF Word
    <2>7. ASSUME ~Negative(4, x) PROVE ShiftArithmetic(s, x) = (Signed(x) \div T) % n
      <3>1. ShiftArithmetic(s, x) = q /\ Signed(x) = x
        BY <1>2, <2>1, <2>5, <2>7 DEF ShiftArithmetic
      <3>2. q % n = q
        BY <2>6, ModSmall
      <3> QED
        BY <2>3, <3>1, <3>2
    <2>8. ASSUME Negative(4, x) PROVE ShiftArithmetic(s, x) = (Signed(x) \div T) % n
      <3>1. ShiftArithmetic(s, x) = OrWords(Shr256(x, s), Shl256(MaxWord, Bits - s))
        BY <2>1, <2>8 DEF ShiftArithmetic
      <3>2. Shl256(MaxWord, Bits - s) = n - K
        BY <1>1, <2>1, <2>2, ShiftedOnes
      <3>3. PICK k \in 0 .. Bits : k = Bits - s
        BY <2>1
      <3>4. OrWords(q, n - K) = (q % K) + (n - K)
        BY <1>1, <2>2, <2>5, <3>3, OrWordsRight
      <3>5. q % K = q
        BY <2>2, <2>4, ModSmall
      <3>6. ShiftArithmetic(s, x) = q + (n - K)
        BY <2>5, <3>1, <3>2, <3>4, <3>5
      <3>7. PICK m \in Int : m = q - K
        OBVIOUS
      <3>8. Signed(x) = m * T + r
        <4>1. m * T = q * T - K * T
          BY <3>7
        <4> QED
          BY <1>2, <2>2, <2>3, <2>8, <4>1
      <3>9. (m * T + r) \div T = m
        <4>1. r \in Nat /\ r < T
          BY <2>2
        <4> QED
          BY <4>1, QuotRemUnique
      <3>10. K <= n
        <4>1. K * 1 <= K * T
          BY <2>2, ProductMonotonic
        <4> QED
          BY <2>2, <4>1
      <3>11. PICK z \in 0 .. n - 1 : z = m + n
        BY <2>4, <3>7, <3>10
      <3>12. (m + n) % n = m % n /\ z % n = z
        BY <1>1, <3>11, ModAddOnce, ModSmall
      <3> QED
        BY <3>6, <3>7, <3>8, <3>9, <3>11, <3>12
    <2> QED
      BY <2>2, <2>7, <2>8
  <1> QED
    BY <1>1, <1>2, <1>3, <1>4, <1>5

\* The value of a sign extension: the bytes up to the i-th are kept, the bits
\* above follow the sign bit.
LEMMA SignExtendRight ==
    ASSUME NEW i \in Word(4), NEW x \in Word(4)
    PROVE  LET w == TwoTo[(i + 1) * ByteBits]
               low == x % w
           IN  SignExtend(i, x) = (IF i >= Bytes - 1 THEN x
                                   ELSE IF 2 * low >= w THEN low - w ELSE low) % Size(4)
  <1>1. PICK n \in Nat : n = Size(4) /\ n > 1
    BY SignFacts
  <1>2. i \in Nat /\ x \in Nat /\ x < n /\ x \in 0 .. n - 1
    BY <1>1, SignFacts
  <1>3. /\ ByteBits \in Nat /\ ByteBits > 0 /\ Bytes \in Nat /\ Bits \in Nat /\ Bits = 4 * B
        /\ Bits = Bytes * ByteBits /\ n = TwoTo[Bits]
    BY <1>1, ByteFacts
  <1> DEFINE w == TwoTo[(i + 1) * ByteBits]
             low == x % w
             Value == (IF i >= Bytes - 1 THEN x ELSE IF 2 * low >= w THEN low - w ELSE low) % Size(4)
             testBit == i * ByteBits + ByteBits - 1
             mask == Sub256(Shl256(1, testBit), 1)
  <1>4. ASSUME i >= Bytes - 1 PROVE SignExtend(i, x) = Value
    <2>1. SignExtend(i, x) = x
      BY <1>4 DEF SignExtend
    <2>2. x % n = x
      BY <1>2, ModSmall
    <2> HIDE DEF w
    <2> QED
      BY <1>1, <1>4, <2>1, <2>2
  <1>5. ASSUME i < Bytes - 1 PROVE SignExtend(i, x) = Value
    <2>1. PICK t \in Nat : t = testBit /\ (i + 1) * ByteBits = t + 1 /\ t < Bits /\ t \in 0 .. 4 * B - 1 /\ t \in 0 .. Bits
      <3>1. PICK p \in Nat : p = i * ByteBits
        BY <1>2, <1>3, ProductOfNaturals
      <3>2. (i + 1) * ByteBits = p + ByteBits
        BY <1>2, <1>3, <3>1
      <3>3. (i + 1) * ByteBits <= Bytes * ByteBits
        BY <1>2, <1>3, <1>5, ProductMonotonic
      <3>4. PICK u \in Nat : u = Bits /\ u = 4 * B
        BY <1>3
      <3> QED
        BY <1>3, <3>1, <3>2, <3>3, <3>4
    <2>2. PICK T \in Nat : T = TwoTo[t] /\ T > 0 /\ 2 * T = w /\ 2 * T <= n
      <3>1. TwoTo[t + 1] = 2 * TwoTo[t] /\ TwoTo[t] \in Nat /\ TwoTo[t] > t
        BY TwoToStep
      <3>2. TwoTo[t + 1] <= TwoTo[Bits]
        <4>1. t + 1 \in Nat /\ t + 1 <= Bits
          BY <1>3, <2>1
        <4> QED
          BY <1>3, <4>1, TwoToMonotonic
      <3> QED
        BY <1>3, <2>1, <3>1, <3>2
    <2>3. mask = T - 1
      <3>1. 1 \in Word(4)
        BY <1>1 DEF Word
      <3>2. Shl256(1, t) \in Word(4) /\ Shl256(1, t) = (1 * T) % n
        BY <1>1, <2>1, <2>2, <3>1, Shl256Right
      <3>3. (1 * T) % n = T
        BY <2>2, ModSmall, T \in 0 .. n - 1
      <3>4. T \in Word(4) /\ Sub256(T, 1) = (T - 1) % n
        BY <1>1, <3>1, <3>2, <3>3, Sub256Right
      <3>5. (T - 1) % n = T - 1
        <4>1. T - 1 \in 0 .. n - 1
          BY <2>2
        <4> QED
          BY <4>1, ModSmall
      <3> QED
        BY <2>1, <3>2, <3>3, <3>4, <3>5
    <2> HIDE DEF w, testBit, mask
    <2>4. PICK b \in 0 .. 1, r \in 0 .. T - 1 : b = BitOf(x, t) /\ r = x % T /\ low = r + T * b
      <3>1. BitOf(x, t) \in 0 .. 1 /\ x % TwoTo[t + 1] = (x % TwoTo[t]) + TwoTo[t] * BitOf(x, t)
        BY <1>2, BitStep
      <3>2. x % T \in 0 .. T - 1
        BY <1>2, <2>2, QuotNat
      <3>3. low = x % TwoTo[t + 1]
        BY <2>1 DEF w
      <3> QED
        BY <2>2, <3>1, <3>2, <3>3
    <2> HIDE DEF low
    <2>5. SignExtend(i, x) = IF b = 1 THEN OrWords(x, n - T) ELSE r
      <3>1. ~(i >= Bytes - 1)
        BY <1>2, <1>3, <1>5
      <3>2. MaxWord - mask = n - T /\ mask + 1 = T
        BY <1>1, <2>3 DEF MaxWord
      <3>3. SignExtend(i, x) = IF (x \div TwoTo[t]) % 2 = 1 THEN OrWords(x, MaxWord - mask) ELSE x % (mask + 1)
        BY <2>1, <3>1 DEF SignExtend, testBit, mask
      <3> QED
        BY <2>4, <3>2, <3>3 DEF BitOf
    <2>6. Value = (IF 2 * low >= 2 * T THEN low - 2 * T ELSE low) % n
      BY <1>1, <1>2, <1>3, <1>5, <2>2
    <2>7. ASSUME b = 1 PROVE SignExtend(i, x) = Value
      <3>1. OrWords(x, n - T) = r + (n - T)
        BY <1>1, <2>1, <2>2, <2>4, OrWordsRight
      <3>2. low = r + T
        BY <2>4, <2>7
      <3>3. PICK m \in Int : m = low - 2 * T /\ m = r - T
        BY <3>2
      <3>4. PICK z \in 0 .. n - 1 : z = m + n
        BY <2>2, <3>3
      <3>5. (m + n) % n = m % n /\ z % n = z
        BY <1>1, <3>4, ModAddOnce, ModSmall
      <3>6. Value = m % n
        BY <2>6, <3>2, <3>3
      <3> HIDE DEF Value
      <3> QED
        BY <2>5, <2>7, <3>1, <3>3, <3>4, <3>5, <3>6
    <2>8. ASSUME b = 0 PROVE SignExtend(i, x) = Value
      <3>1. low = r
        BY <2>4, <2>8
      <3>2. r \in 0 .. n - 1 /\ ~(2 * r >= 2 * T)
        BY <2>2
      <3>3. r % n = r
        BY <3>2, ModSmall
      <3>4. Value = r
        BY <2>6, <3>1, <3>2, <3>3
      <3> HIDE DEF Value
      <3> QED
        BY <2>5, <2>8, <3>4
    <2> HIDE DEF Value
    <2> QED
      BY <2>7, <2>8
  <1>6. SignExtend(i, x) = Value
    <2> HIDE DEF Value
    <2> QED
      BY <1>2, <1>3, <1>4, <1>5
  <1> QED
    BY <1>6, Zenon

\* What CarriesRight says of one operation, its arguments and its result.
Carried(op, x, y, r) ==
    /\ op = "ADD" => r = (x + y) % Size(4) /\ r = AddLoop(4, x, y)
    /\ op = "SUB" => r = (x - y) % Size(4)
    /\ op = "LT" => r = Truth(x < y)
    /\ op = "GT" => r = Truth(x > y)
    /\ op = "SLT" => r = Truth(Signed(x) < Signed(y))
    /\ op = "SGT" => r = Truth(Signed(x) > Signed(y))
    /\ op = "SHL" => r = (IF x >= Bits THEN 0 ELSE (y * TwoTo[x]) % Size(4))
    /\ op = "SHL" /\ x < Bits => r = ShlLoop(4, y, x)
    /\ op = "SHR" => r = (IF x >= Bits THEN 0 ELSE y \div TwoTo[x])
    /\ op = "SAR" => r = (IF x >= Bits THEN (IF Signed(y) < 0 THEN -1 ELSE 0)
                          ELSE Signed(y) \div TwoTo[x]) % Size(4)
    /\ op = "BYTE" => r = (IF x >= Bytes THEN 0
                           ELSE (y \div TwoTo[ByteBits * (Bytes - 1 - x)]) % TwoTo[ByteBits])
    /\ op = "SIGNEXTEND" =>
          LET w == TwoTo[(x + 1) * ByteBits]
              low == y % w
          IN  r = (IF x >= Bytes - 1 THEN y ELSE IF 2 * low >= w THEN low - w ELSE low) % Size(4)

CarryOps == {"ADD", "SUB", "LT", "GT", "SLT", "SGT", "SHL", "SHR", "SAR", "BYTE", "SIGNEXTEND"}

LEMMA CarriedOps ==
    ASSUME NEW x \in Word(4), NEW y \in Word(4)
    PROVE  /\ Carried("ADD", x, y, Add256(x, y))
           /\ Carried("SUB", x, y, Sub256(x, y))
           /\ Carried("LT", x, y, Truth(Less256(x, y)))
           /\ Carried("GT", x, y, Truth(Less256(y, x)))
           /\ Carried("SLT", x, y, Truth(SignedLess(x, y)))
           /\ Carried("SGT", x, y, Truth(SignedGreater(x, y)))
           /\ Carried("SHL", x, y, IF x >= Bits THEN 0 ELSE Shl256(y, x))
           /\ Carried("SHR", x, y, IF x >= Bits THEN 0 ELSE Shr256(y, x))
           /\ Carried("SAR", x, y, ShiftArithmetic(x, y))
           /\ Carried("BYTE", x, y, ByteAt(x, y))
           /\ Carried("SIGNEXTEND", x, y, SignExtend(x, y))
           /\ \A op, r : op \notin CarryOps => Carried(op, x, y, r)
  <1>1. Carried("ADD", x, y, Add256(x, y))
    <2>1. Add256(x, y) = (x + y) % Size(4) /\ AddLoop(4, x, y) = (x + y) % Size(4)
      BY Add256Right, AddLoopRight
    <2> QED
      BY <2>1 DEF Carried
  <1>2. Carried("SUB", x, y, Sub256(x, y))
    <2>1. Sub256(x, y) = (x - y) % Size(4)
      BY Sub256Right
    <2> QED
      BY <2>1 DEF Carried
  <1>3. Carried("LT", x, y, Truth(Less256(x, y)))
    <2>1. Less256(x, y) <=> x < y
      BY Less256Right
    <2> QED
      BY <2>1 DEF Carried, Truth
  <1>4. Carried("GT", x, y, Truth(Less256(y, x)))
    <2>1. x \in Nat /\ y \in Nat /\ (Less256(y, x) <=> y < x)
      BY Less256Right, Kept
    <2> QED
      BY <2>1 DEF Carried, Truth
  <1>5. Carried("SLT", x, y, Truth(SignedLess(x, y)))
    <2>1. SignedLess(x, y) <=> Signed(x) < Signed(y)
      BY SignedRight
    <2> QED
      BY <2>1 DEF Carried, Truth
  <1>6. Carried("SGT", x, y, Truth(SignedGreater(x, y)))
    <2>1. SignedGreater(x, y) <=> Signed(x) > Signed(y)
      BY SignedRight
    <2> QED
      BY <2>1 DEF Carried, Truth
  <1>7. x \in Nat /\ Bits \in Nat /\ Bits = 4 * B
    BY Kept, ByteFacts
  <1>8. Carried("SHL", x, y, IF x >= Bits THEN 0 ELSE Shl256(y, x))
    <2>1. ASSUME x < Bits
          PROVE  Shl256(y, x) = (y * TwoTo[x]) % Size(4) /\ ShlLoop(4, y, x) = (y * TwoTo[x]) % Size(4)
      <3>1. x \in 0 .. 4 * B - 1
        BY <1>7, <2>1
      <3> QED
        BY <3>1, Shl256Right, ShlLoopRight
    <2>2. x < Bits <=> ~(x >= Bits)
      BY <1>7
    <2> QED
      BY <2>1, <2>2 DEF Carried
  <1>9. Carried("SHR", x, y, IF x >= Bits THEN 0 ELSE Shr256(y, x))
    <2>1. ASSUME ~(x >= Bits) PROVE Shr256(y, x) = y \div TwoTo[x]
      <3>1. x \in 0 .. 4 * B - 1
        BY <1>7, <2>1
      <3> QED
        BY <3>1, Shr256Right
    <2> QED
      BY <2>1 DEF Carried
  <1>10. Carried("SAR", x, y, ShiftArithmetic(x, y))
    BY ShiftArithmeticRight DEF Carried
  <1>11. Carried("BYTE", x, y, ByteAt(x, y))
    BY ByteAtRight DEF Carried
  <1>12. Carried("SIGNEXTEND", x, y, SignExtend(x, y))
    BY SignExtendRight DEF Carried
  <1>13. \A op, r : op \notin CarryOps => Carried(op, x, y, r)
    BY DEF Carried, CarryOps
  <1> QED
    BY <1>1, <1>2, <1>3, <1>4, <1>5, <1>6, <1>8, <1>9, <1>10, <1>11, <1>12, <1>13

-----------------------------------------------------------------------------
(* The opcodes over the stack: an operation asks for the two words on top of *)
(* it, so it is enough that the first stack holds words and that every later *)
(* state remembers the arguments the result was computed from.              *)

Stacks == {<<x, y, z>> : x \in Word(4), y \in Word(4), z \in Word(4)}

WordsOnStack == last.op = "none" => stack \in Stacks
CarriesInv == WordsOnStack /\ CarriesRight

LEMMA CarriesAsAsked == CarriesRight <=> Carried(last.op, last.a[1], last.a[2], last.result)
  <1>1. SumsRight /\ ShiftsRight <=> Carried(last.op, last.a[1], last.a[2], last.result)
    <2> DEFINE op == last.op
    <2>1. /\ Asked({"ADD"}) <=> op = "ADD"
          /\ Asked({"SUB"}) <=> op = "SUB"
          /\ Asked({"LT"}) <=> op = "LT"
          /\ Asked({"GT"}) <=> op = "GT"
          /\ Asked({"SLT"}) <=> op = "SLT"
          /\ Asked({"SGT"}) <=> op = "SGT"
          /\ Asked({"SHL"}) <=> op = "SHL"
          /\ Asked({"SHR"}) <=> op = "SHR"
          /\ Asked({"SAR"}) <=> op = "SAR"
          /\ Asked({"BYTE"}) <=> op = "BYTE"
          /\ Asked({"SIGNEXTEND"}) <=> op = "SIGNEXTEND"
      BY DEF Asked
    <2> HIDE DEF op
    <2>2. SumsRight /\ ShiftsRight <=> Carried(op, last.a[1], last.a[2], last.result)
      BY <2>1, SMT DEF SumsRight, ShiftsRight, Carried, A, C
    <2> QED
      BY <2>2 DEF op
  <1> QED
    BY <1>1 DEF CarriesRight

LEMMA CarriesAsAskedNext ==
    CarriesRight' <=> Carried(last.op, last.a[1], last.a[2], last.result)'
  BY CarriesAsAsked, PTL

\* What an operation leaves: its name, the words it was asked for, its result.
LEMMA Popped ==
    ASSUME NEW n \in {2, 3}, NEW op, NEW r, WordsOnStack, Pop(n, op, r)
    PROVE  /\ X \in Word(4) /\ Y \in Word(4)
           /\ last'.op = op /\ last'.a[1] = X /\ last'.a[2] = Y /\ last'.result = r
  <1>1. PICK x \in Word(4), y \in Word(4), z \in Word(4) : stack = <<x, y, z>>
    BY DEF WordsOnStack, Pop, Stacks
  <1>2. X = x /\ Y = y
    BY <1>1 DEF X, Y
  <1>3. last' = [op |-> op, a |-> SubSeq(stack, 1, n), result |-> r]
    BY DEF Pop
  <1>4. SubSeq(stack, 1, n)[1] = x /\ SubSeq(stack, 1, n)[2] = y
    <2> SUFFICES ASSUME NEW s, s = SubSeq(<<x, y, z>>, 1, n) PROVE s[1] = x /\ s[2] = y
      BY <1>1
    <2>1. s = [i \in 1 .. n |-> <<x, y, z>>[i]]
      OBVIOUS
    <2>2. 1 \in 1 .. n /\ 2 \in 1 .. n
      OBVIOUS
    <2> QED
      BY <2>1, <2>2
  <1> QED
    BY <1>2, <1>3, <1>4

\* A step that leaves what Carried asks for re-establishes the invariant.
LEMMA PoppedRight ==
    ASSUME NEW n \in {2, 3}, NEW op, op # "none", NEW r, CarriesInv, Pop(n, op, r), Carried(op, X, Y, r)
    PROVE  CarriesInv'
  <1>1. last'.op = op /\ last'.a[1] = X /\ last'.a[2] = Y /\ last'.result = r
    BY Popped DEF CarriesInv
  <1>2. CarriesRight' <=> Carried(last'.op, last'.a[1], last'.a[2], last'.result)
    BY CarriesAsAskedNext
  <1> QED
    BY <1>1, <1>2 DEF CarriesInv, WordsOnStack

\* A carry operation hands CarriedOps' result to the next state.
LEMMA CarryStep ==
    ASSUME NEW op \in CarryOps, NEW r, CarriesInv, Pop(2, op, r),
           \A x, y \in Word(4) : x = X /\ y = Y => Carried(op, x, y, r)
    PROVE  CarriesInv'
  <1>1. X \in Word(4) /\ Y \in Word(4) /\ 2 \in {2, 3}
    BY Popped DEF CarriesInv
  <1>2. op # "none"
    BY DEF CarryOps
  <1>3. Carried(op, X, Y, r)
    BY <1>1
  <1> QED
    BY <1>1, <1>2, <1>3, PoppedRight

\* The other operations promise nothing about carries.
LEMMA OtherStep ==
    ASSUME NEW n \in {2, 3}, NEW op, op \notin CarryOps, op # "none", NEW r, CarriesInv, Pop(n, op, r)
    PROVE  CarriesInv'
  <1>1. X \in Word(4) /\ Y \in Word(4)
    BY Popped DEF CarriesInv
  <1>2. Carried(op, X, Y, r)
    BY <1>1, CarriedOps
  <1> QED
    BY <1>2, PoppedRight

\* CarriesRight is inductive once the first stack is known to hold words: the
\* state between two operations carries nothing but the arguments and result.
LEMMA CarriesStep ==
    ASSUME CarriesInv, [Next]_vars
    PROVE  CarriesInv'
  <1> USE DEF CarryOps
  <1>1. ASSUME ADD PROVE CarriesInv'
    <2>1. \A x, y \in Word(4) : x = X /\ y = Y => Carried("ADD", x, y, Add256(X, Y))
      BY CarriedOps, Zenon
    <2> QED
      BY <1>1, <2>1, CarryStep DEF ADD
  <1>2. ASSUME SUB PROVE CarriesInv'
    <2>1. \A x, y \in Word(4) : x = X /\ y = Y => Carried("SUB", x, y, Sub256(X, Y))
      BY CarriedOps, Zenon
    <2> QED
      BY <1>2, <2>1, CarryStep DEF SUB
  <1>3. ASSUME LT PROVE CarriesInv'
    <2>1. \A x, y \in Word(4) : x = X /\ y = Y => Carried("LT", x, y, Truth(Less256(X, Y)))
      BY CarriedOps, Zenon
    <2> QED
      BY <1>3, <2>1, CarryStep DEF LT
  <1>4. ASSUME GT PROVE CarriesInv'
    <2>1. \A x, y \in Word(4) : x = X /\ y = Y => Carried("GT", x, y, Truth(Less256(Y, X)))
      BY CarriedOps, Zenon
    <2> QED
      BY <1>4, <2>1, CarryStep DEF GT
  <1>5. ASSUME SLT PROVE CarriesInv'
    <2>1. \A x, y \in Word(4) : x = X /\ y = Y => Carried("SLT", x, y, Truth(SignedLess(X, Y)))
      BY CarriedOps, Zenon
    <2> QED
      BY <1>5, <2>1, CarryStep DEF SLT
  <1>6. ASSUME SGT PROVE CarriesInv'
    <2>1. \A x, y \in Word(4) : x = X /\ y = Y => Carried("SGT", x, y, Truth(SignedGreater(X, Y)))
      BY CarriedOps, Zenon
    <2> QED
      BY <1>6, <2>1, CarryStep DEF SGT
  <1>7. ASSUME SHL PROVE CarriesInv'
    <2>1. \A x, y \in Word(4) : x = X /\ y = Y => Carried("SHL", x, y, IF X >= Bits THEN 0 ELSE Shl256(Y, X))
      BY CarriedOps, Zenon
    <2> QED
      BY <1>7, <2>1, CarryStep DEF SHL
  <1>8. ASSUME SHR PROVE CarriesInv'
    <2>1. \A x, y \in Word(4) : x = X /\ y = Y => Carried("SHR", x, y, IF X >= Bits THEN 0 ELSE Shr256(Y, X))
      BY CarriedOps, Zenon
    <2> QED
      BY <1>8, <2>1, CarryStep DEF SHR
  <1>9. ASSUME SAR PROVE CarriesInv'
    <2>1. \A x, y \in Word(4) : x = X /\ y = Y => Carried("SAR", x, y, ShiftArithmetic(X, Y))
      BY CarriedOps, Zenon
    <2> QED
      BY <1>9, <2>1, CarryStep DEF SAR
  <1>10. ASSUME BYTE PROVE CarriesInv'
    <2>1. \A x, y \in Word(4) : x = X /\ y = Y => Carried("BYTE", x, y, ByteAt(X, Y))
      BY CarriedOps, Zenon
    <2> QED
      BY <1>10, <2>1, CarryStep DEF BYTE
  <1>11. ASSUME SIGNEXTEND PROVE CarriesInv'
    <2>1. \A x, y \in Word(4) : x = X /\ y = Y => Carried("SIGNEXTEND", x, y, SignExtend(X, Y))
      BY CarriedOps, Zenon
    <2> QED
      BY <1>11, <2>1, CarryStep DEF SIGNEXTEND
  <1>12. ASSUME MUL PROVE CarriesInv'
    BY <1>12, OtherStep DEF MUL
  <1>13. ASSUME DIV PROVE CarriesInv'
    BY <1>13, OtherStep DEF DIV
  <1>14. ASSUME MOD PROVE CarriesInv'
    BY <1>14, OtherStep DEF MOD
  <1>15. ASSUME SDIV PROVE CarriesInv'
    BY <1>15, OtherStep DEF SDIV
  <1>16. ASSUME SMOD PROVE CarriesInv'
    BY <1>16, OtherStep DEF SMOD
  <1>17. ASSUME EXP PROVE CarriesInv'
    BY <1>17, OtherStep DEF EXP
  <1>18. ASSUME ADDMOD PROVE CarriesInv'
    BY <1>18, OtherStep DEF ADDMOD
  <1>19. ASSUME MULMOD PROVE CarriesInv'
    BY <1>19, OtherStep DEF MULMOD
  <1>20. ASSUME UNCHANGED vars PROVE CarriesInv'
    BY <1>20, CarriesAsAsked, CarriesAsAskedNext DEF CarriesInv, WordsOnStack, vars
  <1> QED
    BY <1>1, <1>2, <1>3, <1>4, <1>5, <1>6, <1>7, <1>8, <1>9, <1>10, <1>11, <1>12, <1>13, <1>14, <1>15, <1>16, <1>17, <1>18, <1>19, <1>20 DEF Next

\* Every bit a sum carries, or a shift moves, from one half of a word to the
\* other arrives there once, for every width of the machine word: the operators
\* + - < << >> of intx::uint128 and uint256, the loops over machine words that
\* stand beside them, and the opcodes of VM.cpp that use them.
THEOREM CarriesAreRight == Spec => []CarriesRight
  <1>1. Init => CarriesInv
    <2> SUFFICES ASSUME Init PROVE CarriesInv
      OBVIOUS
    <2>1. Operand \subseteq Word(4) /\ Third \subseteq Word(4)
      BY OperandAssumption DEF Word
    <2>2. stack \in Stacks
      BY <2>1 DEF Init, Stacks
    <2>3. last.op = "none"
      BY DEF Init
    <2>4. Carried("none", last.a[1], last.a[2], last.result)
      BY DEF Carried
    <2> QED
      BY <2>2, <2>3, <2>4, CarriesAsAsked DEF CarriesInv, WordsOnStack
  <1>2. CarriesInv /\ [Next]_vars => CarriesInv'
    BY CarriesStep
  <1>3. CarriesInv => CarriesRight
    BY DEF CarriesInv
  <1> QED
    BY <1>1, <1>2, <1>3, PTL DEF Spec

-----------------------------------------------------------------------------
(* Products *)

\* The product of two numbers below H leaves room for two more of them.
LEMMA SmallProduct ==
    ASSUME NEW H \in Nat, NEW x \in 0 .. H - 1, NEW y \in 0 .. H - 1
    PROVE  x * y \in Nat /\ x * y + H + H <= H * H + 1 /\ x * y \in 0 .. H * H - 1
  <1>1. PICK h \in Nat : h = H - 1 /\ x <= h /\ y <= h
    OBVIOUS
  <1>2. x * y <= h * y /\ y * h <= h * h /\ x * y \in Nat /\ h * y = y * h
    BY <1>1, ProductMonotonic
  <1>3. H * H = h * h + h + h + 1
    <2>1. H = h + 1
      BY <1>1
    <2> QED
      BY <2>1
  <1>4. PICK p \in Nat, q \in Int, r \in Int, s \in Int : p = x * y /\ q = h * y /\ r = h * h /\ s = H * H
    BY <1>2
  <1> QED
    BY <1>1, <1>2, <1>3, <1>4

\* The four products of the halves and the sums that umul makes of them: u1, u2
\* and hi.
Crossed(H, xh, xl, yh, yl, a0, b0, a1, b1, a2, b2, hi) ==
    /\ xl * yl = a0 * H + b0
    /\ xh * yl + a0 = a1 * H + b1
    /\ xl * yh + b1 = a2 * H + b2
    /\ hi = xh * yh + a2 + a1

\* The number of the four parts is the product.
CrossedIs(H, xh, xl, yh, yl, b0, b2, hi) ==
    (xh * H + xl) * (yh * H + yl) = hi * (H * H) + (b2 * H + b0)

LEMMA CrossedProduct ==
    ASSUME NEW H \in Nat, NEW xh \in Int, NEW xl \in Int, NEW yh \in Int, NEW yl \in Int,
           NEW a0 \in Int, NEW b0 \in Int, NEW a1 \in Int, NEW b1 \in Int, NEW a2 \in Int, NEW b2 \in Int,
           NEW hi \in Int, Crossed(H, xh, xl, yh, yl, a0, b0, a1, b1, a2, b2, hi)
    PROVE  CrossedIs(H, xh, xl, yh, yl, b0, b2, hi)
  <1>1. PICK t0 \in Int, t1 \in Int, t2 \in Int, t3 \in Int :
           t0 = xl * yl /\ t1 = xh * yl /\ t2 = xl * yh /\ t3 = xh * yh
    OBVIOUS
  <1>2. (xh * H + xl) * (yh * H + yl) = t3 * (H * H) + t1 * H + t2 * H + t0
    <2>1. (xh * H) * (yh * H) = (xh * yh) * (H * H) /\ (xh * H) * yl = (xh * yl) * H
          /\ xl * (yh * H) = (xl * yh) * H
      OBVIOUS
    <2>2. PICK a \in Int, b \in Int : a = xh * H /\ b = yh * H
      OBVIOUS
    <2>3. (a + xl) * (b + yl) = a * b + a * yl + xl * b + xl * yl
      OBVIOUS
    <2> QED
      BY <1>1, <2>1, <2>2, <2>3
  <1>3. t0 = a0 * H + b0 /\ t1 = a1 * H + b1 - a0 /\ t2 = a2 * H + b2 - b1 /\ hi = t3 + a2 + a1
    <2>1. t0 = a0 * H + b0 /\ t1 + a0 = a1 * H + b1 /\ t2 + b1 = a2 * H + b2 /\ hi = t3 + a2 + a1
      BY <1>1 DEF Crossed
    <2>2. PICK p \in Int, q \in Int : p = a1 * H /\ q = a2 * H
      OBVIOUS
    <2> QED
      BY <2>1, <2>2
  <1>4. t1 * H = a1 * (H * H) + b1 * H - a0 * H /\ t2 * H = a2 * (H * H) + b2 * H - b1 * H
    <2>1. (a1 * H + b1 - a0) * H = a1 * (H * H) + b1 * H - a0 * H
          /\ (a2 * H + b2 - b1) * H = a2 * (H * H) + b2 * H - b1 * H
      OBVIOUS
    <2> QED
      BY <1>3, <2>1
  <1>5. PICK n \in Int : n = H * H
    OBVIOUS
  <1>6. t3 * n + t1 * H + t2 * H + t0 = (t3 + a2 + a1) * n + (b2 * H + b0)
    <2>1. (t3 + a2 + a1) * n = t3 * n + a2 * n + a1 * n
      OBVIOUS
    <2> QED
      BY <1>3, <1>4, <1>5, <2>1
  <1> QED
    BY <1>2, <1>3, <1>5, <1>6 DEF CrossedIs

\* A sum that fits is not reduced.
LEMMA PlainSum ==
    /\ \A x, y \in Word(2) : x + y < Size(2) => Add128(x, y) = x + y
    /\ \A x, y \in Word(4) : x + y < Size(4) => Add256(x, y) = x + y
  <1>1. ASSUME NEW x \in Word(2), NEW y \in Word(2), x + y < Size(2) PROVE Add128(x, y) = x + y
    <2>1. Size(2) \in Nat /\ x + y \in 0 .. Size(2) - 1
      BY <1>1, HalfSizes, Kept
    <2>2. (x + y) % Size(2) = x + y
      BY <2>1, ModSmall
    <2> QED
      BY <2>2, Add128Right
  <1>2. ASSUME NEW x \in Word(4), NEW y \in Word(4), x + y < Size(4) PROVE Add256(x, y) = x + y
    <2>1. Size(4) \in Nat /\ x + y \in 0 .. Size(4) - 1
      BY <1>2, HalfSizes, Kept
    <2>2. (x + y) % Size(4) = x + y
      BY <2>1, ModSmall
    <2> QED
      BY <2>2, Add256Right
  <1> QED
    BY <1>1, <1>2

\* Of a number below N * N the part above N is below N.
LEMMA HighPart ==
    ASSUME NEW N \in Nat, NEW x \in 0 .. N * N - 1, NEW q \in Nat, NEW r \in 0 .. N - 1, x = q * N + r
    PROVE  q \in 0 .. N - 1
  <1> SUFFICES ASSUME N <= q PROVE FALSE
    OBVIOUS
  <1>1. N * N <= q * N
    BY ProductMonotonic
  <1>2. PICK p \in Int, n \in Int : p = q * N /\ n = N * N
    OBVIOUS
  <1> QED
    BY <1>1, <1>2

\* What an addition promises that nobody has to check for a carry.
Fits(n, x, y, s) == /\ s \in 0 .. n - 1
                    /\ x + y < n => s = x + y

\* The steps of umul on halves below H, with n = H * H: t0 to t3 are the half
\* products, hi and lo the halves of what it returns.
UmulSteps(H, n, xh, xl, yh, yl, t0, t1, t2, t3, a0, b0, u1, a1, b1, u2, a2, b2, s, hi, left, lo) ==
    /\ n = H * H
    /\ t0 = xl * yl /\ t1 = xh * yl /\ t2 = xl * yh /\ t3 = xh * yh
    /\ Split(H, t0, a0, b0)
    /\ Fits(n, t1, a0, u1) /\ Split(H, u1, a1, b1)
    /\ Fits(n, t2, b1, u2) /\ Split(H, u2, a2, b2)
    /\ Fits(n, t3, a2, s) /\ Fits(n, s, a1, hi)
    /\ left = (u2 * H) % n /\ lo = left + b0

UmulIs(n, x, y, hi, lo) == /\ hi \in 0 .. n - 1 /\ lo \in 0 .. n - 1
                           /\ x * y = hi * n + lo

\* All its sums fit.
LEMMA UmulOfHalves ==
    ASSUME NEW H \in Nat, H > 0, NEW n \in Nat,
           NEW x, NEW y, NEW xh, NEW xl, NEW yh, NEW yl, Split(H, x, xh, xl), Split(H, y, yh, yl),
           NEW t0, NEW t1, NEW t2, NEW t3, NEW a0, NEW b0, NEW u1, NEW a1, NEW b1, NEW u2, NEW a2, NEW b2,
           NEW s, NEW hi, NEW left, NEW lo,
           UmulSteps(H, n, xh, xl, yh, yl, t0, t1, t2, t3, a0, b0, u1, a1, b1, u2, a2, b2, s, hi, left, lo)
    PROVE  UmulIs(n, x, y, hi, lo)
  <1>1. /\ xh \in 0 .. H - 1 /\ xl \in 0 .. H - 1 /\ yh \in 0 .. H - 1 /\ yl \in 0 .. H - 1
        /\ x = xh * H + xl /\ y = yh * H + yl
    BY DEF Split
  <1>2. /\ a0 \in 0 .. H - 1 /\ b0 \in 0 .. H - 1 /\ a1 \in 0 .. H - 1 /\ b1 \in 0 .. H - 1
        /\ a2 \in 0 .. H - 1 /\ b2 \in 0 .. H - 1
        /\ t0 = a0 * H + b0 /\ u1 = a1 * H + b1 /\ u2 = a2 * H + b2
    BY DEF UmulSteps, Split
  <1>3. n = H * H /\ t0 = xl * yl /\ t1 = xh * yl /\ t2 = xl * yh /\ t3 = xh * yh
    BY DEF UmulSteps
  <1>4. t1 \in Nat /\ t1 + H + H <= n + 1 /\ t2 \in Nat /\ t2 + H + H <= n + 1 /\ t3 \in Nat
    BY <1>1, <1>3, SmallProduct
  <1>5. u1 = t1 + a0
    <2>1. t1 + a0 < n
      BY <1>2, <1>4
    <2> QED
      BY <2>1 DEF UmulSteps, Fits
  <1>6. u2 = t2 + b1
    <2>1. t2 + b1 < n
      BY <1>2, <1>4
    <2> QED
      BY <2>1 DEF UmulSteps, Fits
  <1>7. PICK g \in Nat : g = t3 + a2 + a1
    BY <1>2, <1>4
  <1>8. Crossed(H, xh, xl, yh, yl, a0, b0, a1, b1, a2, b2, g)
    BY <1>2, <1>3, <1>5, <1>6, <1>7 DEF Crossed
  <1>9. CrossedIs(H, xh, xl, yh, yl, b0, b2, g)
    <2>1. /\ xh \in Int /\ xl \in Int /\ yh \in Int /\ yl \in Int /\ g \in Int
          /\ a0 \in Int /\ b0 \in Int /\ a1 \in Int /\ b1 \in Int /\ a2 \in Int /\ b2 \in Int
      BY <1>1, <1>2
    <2> QED
      BY ONLY H \in Nat, <1>8, <2>1, CrossedProduct, Zenon
  <1>10. PICK r \in 0 .. n - 1 : r = b2 * H + b0
    BY <1>2, <1>3, JoinOf
  <1>11. PICK p \in 0 .. n * n - 1 : p = x * y
    <2>1. x \in 0 .. n - 1 /\ y \in 0 .. n - 1
      BY <1>1, <1>3, JoinOf
    <2> QED
      BY <2>1, SmallProduct
  <1>12. p = g * n + r
    BY <1>1, <1>3, <1>9, <1>10, <1>11 DEF CrossedIs
  <1>13. g \in 0 .. n - 1
    BY <1>12, HighPart
  <1>14. hi = g
    <2>1. Fits(n, t3, a2, s) /\ Fits(n, s, a1, hi)
      BY DEF UmulSteps
    <2>2. s = t3 + a2
      BY <1>2, <1>4, <1>7, <1>13, <2>1 DEF Fits
    <2> QED
      BY <1>2, <1>4, <1>7, <1>13, <2>1, <2>2 DEF Fits
  <1>15. lo = r
    <2>1. PICK v \in 0 .. n - 1 : v = b2 * H
      BY <1>2, <1>10, ProductOfNaturals
    <2>2. u2 * H = a2 * n + v
      <3>1. (a2 * H + b2) * H = a2 * (H * H) + b2 * H
        BY <1>2
      <3> QED
        BY <1>2, <1>3, <2>1, <3>1
    <2>3. (a2 * n + v) % n = v
      <3>1. v \in Nat /\ v < n /\ a2 \in Int
        BY <1>2
      <3> QED
        BY <3>1, QuotRemUnique
    <2>4. left = (u2 * H) % n /\ lo = left + b0
      BY DEF UmulSteps
    <2> QED
      BY <1>10, <2>1, <2>2, <2>3, <2>4
  <1> QED
    BY <1>10, <1>11, <1>12, <1>13, <1>14, <1>15 DEF UmulIs

LEMMA SumsFit ==
    /\ \A x, y \in Word(2) : Fits(Size(2), x, y, Add128(x, y)) /\ Add128(x, y) \in Word(2)
    /\ \A x, y \in Word(4) : Fits(Size(4), x, y, Add256(x, y)) /\ Add256(x, y) \in Word(4)
  BY PlainSum, Add128Right, Add256Right DEF Fits, Word

\* umul of two uint128: four machine products make the product.
LEMMA Umul128Right == \A x, y \in Word(2) : Umul128(x, y) \in Word(4) /\ Umul128(x, y) = x * y
  <1> TAKE x \in Word(2), y \in Word(2)
  <1>1. PICK h \in Nat, n \in Nat : h = Beta /\ h >= 1 /\ n = Size(2)
    BY HalfSizes
  <1>2. /\ h > 0 /\ n = h * h /\ Size(4) = n * n
        /\ Word(1) = 0 .. h - 1 /\ Word(2) = 0 .. n - 1 /\ Word(4) = 0 .. n * n - 1
    BY <1>1, HalfSizes DEF Word
  <1>3. \A z \in Word(2) : HiHalf(2, z) \in Word(1) /\ LoHalf(2, z) \in Word(1)
                           /\ Split(h, z, HiHalf(2, z), LoHalf(2, z))
    BY <1>1, <1>2, Halves DEF Split
  <1>4. PICK xh \in Word(1), xl \in Word(1) : xh = HiHalf(2, x) /\ xl = LoHalf(2, x) /\ Split(h, x, xh, xl)
    BY <1>3
  <1>5. PICK yh \in Word(1), yl \in Word(1) : yh = HiHalf(2, y) /\ yl = LoHalf(2, y) /\ Split(h, y, yh, yl)
    BY <1>3
  <1>6. PICK t0 \in Word(2), t1 \in Word(2), t2 \in Word(2), t3 \in Word(2) :
           t0 = xl * yl /\ t1 = xh * yl /\ t2 = xl * yh /\ t3 = xh * yh
    BY <1>2, SmallProduct
  <1>7. \A z \in Word(1) : z \in Word(2)
    <2>1. 1 * h <= h * h
      BY <1>1, ProductMonotonic
    <2>2. h <= n
      BY <1>2, <2>1
    <2>3. Word(1) = 0 .. h - 1 /\ Word(2) = 0 .. n - 1
      BY <1>2
    <2> QED
      BY ONLY h \in Nat, n \in Nat, <2>2, <2>3
  <1>8. \A a, b \in Word(2) : Fits(n, a, b, Add128(a, b)) /\ Add128(a, b) \in Word(2)
    BY <1>1, SumsFit
  <1>9. PICK a0 \in Word(1), b0 \in Word(1) : a0 = HiHalf(2, t0) /\ b0 = LoHalf(2, t0) /\ Split(h, t0, a0, b0)
    BY <1>3
  <1>10. PICK u1 \in Word(2) : u1 = Add128(t1, a0) /\ Fits(n, t1, a0, u1)
    BY <1>7, <1>8
  <1>11. PICK a1 \in Word(1), b1 \in Word(1) : a1 = HiHalf(2, u1) /\ b1 = LoHalf(2, u1) /\ Split(h, u1, a1, b1)
    BY <1>3
  <1>12. PICK u2 \in Word(2) : u2 = Add128(t2, b1) /\ Fits(n, t2, b1, u2)
    BY <1>7, <1>8
  <1>13. PICK a2 \in Word(1), b2 \in Word(1) : a2 = HiHalf(2, u2) /\ b2 = LoHalf(2, u2) /\ Split(h, u2, a2, b2)
    BY <1>3
  <1>14. PICK s \in Word(2) : s = Add128(t3, a2) /\ Fits(n, t3, a2, s)
    BY <1>7, <1>8
  <1>15. PICK hi \in Word(2) : hi = Add128(s, a1) /\ Fits(n, s, a1, hi)
    BY <1>7, <1>8
  <1>16. PICK left : left = Shl128(u2, B) /\ left = (u2 * h) % n
    BY <1>1, WidthAssumption, Shl128Right DEF Beta
  <1>17. PICK lo : lo = left + b0
    OBVIOUS
  <1>18. UmulSteps(h, n, xh, xl, yh, yl, t0, t1, t2, t3, a0, b0, u1, a1, b1, u2, a2, b2, s, hi, left, lo)
    BY <1>2, <1>6, <1>9, <1>10, <1>11, <1>12, <1>13, <1>14, <1>15, <1>16, <1>17 DEF UmulSteps
  <1>19. UmulIs(n, x, y, hi, lo)
    BY ONLY h \in Nat, n \in Nat, <1>2, <1>4, <1>5, <1>18, UmulOfHalves, Zenon
  <1>20. Umul128(x, y) = Join(4, hi, lo)
    <2>1. (2 \div 2) * B = B /\ 2 * 2 = 4
      BY WidthAssumption
    <2> QED
      BY ONLY <1>4, <1>5, <1>6, <1>9, <1>10, <1>11, <1>12, <1>13, <1>14, <1>15, <1>16, <1>17, <2>1
         DEF Umul128, UmulHalves, Umul64
  <1>21. hi \in Word(2) /\ lo \in Word(2) /\ x * y = hi * n + lo
    BY <1>2, <1>19 DEF UmulIs
  <1>22. Join(4, hi, lo) \in Word(4) /\ Join(4, hi, lo) = hi * n + lo
    BY <1>1, <1>21, Joins, HalfSizes DEF Join
  <1> QED
    BY <1>20, <1>21, <1>22

\* umul of two uint256, of which the upper half is thrown away by MULMOD only
\* after the reduction.
LEMMA Umul256Right == \A x, y \in Word(4) : Umul256(x, y) \in Word(8) /\ Umul256(x, y) = x * y
  <1> TAKE x \in Word(4), y \in Word(4)
  <1>1. PICK h \in Nat, n \in Nat : h = Size(2) /\ h >= 1 /\ n = Size(4)
    BY HalfSizes
  <1>2. /\ h > 0 /\ n = h * h /\ Size(8) = n * n
        /\ Word(2) = 0 .. h - 1 /\ Word(4) = 0 .. n - 1 /\ Word(8) = 0 .. n * n - 1
    BY <1>1, HalfSizes DEF Word
  <1>3. \A z \in Word(4) : HiHalf(4, z) \in Word(2) /\ LoHalf(4, z) \in Word(2)
                           /\ Split(h, z, HiHalf(4, z), LoHalf(4, z))
    BY <1>1, <1>2, Halves DEF Split
  <1>4. PICK xh \in Word(2), xl \in Word(2) : xh = HiHalf(4, x) /\ xl = LoHalf(4, x) /\ Split(h, x, xh, xl)
    BY <1>3
  <1>5. PICK yh \in Word(2), yl \in Word(2) : yh = HiHalf(4, y) /\ yl = LoHalf(4, y) /\ Split(h, y, yh, yl)
    BY <1>3
  <1>6. PICK t0 \in Word(4), t1 \in Word(4), t2 \in Word(4), t3 \in Word(4) :
           t0 = xl * yl /\ t1 = xh * yl /\ t2 = xl * yh /\ t3 = xh * yh
           /\ t0 = Umul128(xl, yl) /\ t1 = Umul128(xh, yl) /\ t2 = Umul128(xl, yh) /\ t3 = Umul128(xh, yh)
    BY Umul128Right
  <1>7. \A z \in Word(2) : z \in Word(4)
    <2>1. 1 * h <= h * h
      BY <1>1, ProductMonotonic
    <2>2. h <= n
      BY <1>2, <2>1
    <2>3. Word(2) = 0 .. h - 1 /\ Word(4) = 0 .. n - 1
      BY <1>2
    <2> QED
      BY ONLY h \in Nat, n \in Nat, <2>2, <2>3
  <1>8. \A a, b \in Word(4) : Fits(n, a, b, Add256(a, b)) /\ Add256(a, b) \in Word(4)
    BY <1>1, SumsFit
  <1>9. PICK a0 \in Word(2), b0 \in Word(2) : a0 = HiHalf(4, t0) /\ b0 = LoHalf(4, t0) /\ Split(h, t0, a0, b0)
    BY <1>3
  <1>10. PICK u1 \in Word(4) : u1 = Add256(t1, a0) /\ Fits(n, t1, a0, u1)
    BY <1>7, <1>8
  <1>11. PICK a1 \in Word(2), b1 \in Word(2) : a1 = HiHalf(4, u1) /\ b1 = LoHalf(4, u1) /\ Split(h, u1, a1, b1)
    BY <1>3
  <1>12. PICK u2 \in Word(4) : u2 = Add256(t2, b1) /\ Fits(n, t2, b1, u2)
    BY <1>7, <1>8
  <1>13. PICK a2 \in Word(2), b2 \in Word(2) : a2 = HiHalf(4, u2) /\ b2 = LoHalf(4, u2) /\ Split(h, u2, a2, b2)
    BY <1>3
  <1>14. PICK s \in Word(4) : s = Add256(t3, a2) /\ Fits(n, t3, a2, s)
    BY <1>7, <1>8
  <1>15. PICK hi \in Word(4) : hi = Add256(s, a1) /\ Fits(n, s, a1, hi)
    BY <1>7, <1>8
  <1>16. PICK left : left = Shl256(u2, 2 * B) /\ left = (u2 * h) % n
    <2>1. 2 * B \in 0 .. 4 * B - 1 /\ TwoTo[2 * B] = h
      BY <1>1, WidthAssumption DEF Size
    <2>2. Shl256(u2, 2 * B) = (u2 * TwoTo[2 * B]) % Size(4)
      BY <2>1, Shl256Right
    <2> QED
      BY <1>1, <2>1, <2>2
  <1>17. PICK lo : lo = left + b0
    OBVIOUS
  <1>18. UmulSteps(h, n, xh, xl, yh, yl, t0, t1, t2, t3, a0, b0, u1, a1, b1, u2, a2, b2, s, hi, left, lo)
    BY <1>2, <1>6, <1>9, <1>10, <1>11, <1>12, <1>13, <1>14, <1>15, <1>16, <1>17 DEF UmulSteps
  <1>19. UmulIs(n, x, y, hi, lo)
    BY ONLY h \in Nat, n \in Nat, <1>2, <1>4, <1>5, <1>18, UmulOfHalves, Zenon
  <1>20. Umul256(x, y) = Join(8, hi, lo)
    <2>1. (4 \div 2) * B = 2 * B /\ 2 * 4 = 8
      BY WidthAssumption
    <2> QED
      BY ONLY <1>4, <1>5, <1>6, <1>9, <1>10, <1>11, <1>12, <1>13, <1>14, <1>15, <1>16, <1>17, <2>1
         DEF Umul256, UmulHalves
  <1>21. hi \in Word(4) /\ lo \in Word(4) /\ x * y = hi * n + lo
    BY <1>2, <1>19 DEF UmulIs
  <1>22. Join(8, hi, lo) \in Word(8) /\ Join(8, hi, lo) = hi * n + lo
    BY <1>1, <1>21, Joins, HalfSizes DEF Join
  <1> QED
    BY <1>20, <1>21, <1>22

\* A product modulo H * H from the full product of the low halves and the two
\* wrapping cross products.
LowSteps(H, n, xh, xl, yh, yl, ph, pl, hi) ==
    /\ n = H * H
    /\ Split(H, xl * yl, ph, pl)
    /\ hi = (xl * yh + xh * yl + ph) % H

LowIs(H, n, x, y, hi, lo) == (x * y) % n = hi * H + lo

LEMMA LowProduct ==
    ASSUME NEW H \in Nat, H > 0, NEW n \in Nat,
           NEW x, NEW y, NEW xh, NEW xl, NEW yh, NEW yl, NEW ph, NEW pl, NEW hi,
           Split(H, x, xh, xl), Split(H, y, yh, yl), LowSteps(H, n, xh, xl, yh, yl, ph, pl, hi)
    PROVE  LowIs(H, n, x, y, hi, pl)
  <1>1. /\ xh \in 0 .. H - 1 /\ xl \in 0 .. H - 1 /\ yh \in 0 .. H - 1 /\ yl \in 0 .. H - 1
        /\ x = xh * H + xl /\ y = yh * H + yl
        /\ ph \in 0 .. H - 1 /\ pl \in 0 .. H - 1 /\ xl * yl = ph * H + pl
    BY DEF Split, LowSteps
  <1>2. PICK m \in Int, c \in Int, t \in Int : m = xl * yh + xh * yl + ph /\ c = xl * yh + xh * yl /\ t = xh * yh
    BY <1>1
  <1>3. PICK q \in Int, r \in 0 .. H - 1 : m = q * H + r /\ r = m % H
    BY <1>2, QuotRem
  <1>4. hi = r /\ n = H * H
    BY <1>2, <1>3 DEF LowSteps
  <1>5. x * y = t * (H * H) + c * H + (ph * H + pl)
    <2>1. (xh * H) * (yh * H) = (xh * yh) * (H * H) /\ (xh * H) * yl = (xh * yl) * H
          /\ xl * (yh * H) = (xl * yh) * H
      BY <1>1
    <2>2. PICK a \in Int, b \in Int : a = xh * H /\ b = yh * H
      BY <1>1
    <2>3. (a + xl) * (b + yl) = a * b + a * yl + xl * b + xl * yl
      BY <1>1, <2>2
    <2>4. PICK e \in Int, f \in Int : e = xl * yh /\ f = xh * yl
      BY <1>1
    <2>5. (e + f) * H = e * H + f * H
      BY <2>4
    <2> QED
      BY <1>1, <1>2, <2>1, <2>2, <2>3, <2>4, <2>5
  <1>6. c * H + ph * H = m * H /\ m * H = q * (H * H) + r * H
    <2>1. m = c + ph
      BY <1>2
    <2>2. (c + ph) * H = c * H + ph * H /\ (q * H + r) * H = q * (H * H) + r * H
      BY <1>1, <1>2, <1>3
    <2> QED
      BY <1>3, <2>1, <2>2
  <1>7. x * y = (t + q) * n + (r * H + pl)
    <2>1. (t + q) * n = t * n + q * n
      BY <1>2, <1>3
    <2> QED
      BY <1>1, <1>2, <1>3, <1>4, <1>5, <1>6, <2>1
  <1>8. PICK v \in 0 .. n - 1 : v = r * H + pl
    BY <1>1, <1>3, <1>4, JoinOf
  <1>9. ((t + q) * n + v) % n = v
    <2>1. t + q \in Int /\ v \in Nat /\ v < n
      BY <1>2, <1>3, <1>8
    <2> QED
      BY <2>1, QuotRemUnique
  <1> QED
    BY <1>4, <1>7, <1>8, <1>9 DEF LowIs

\* A sum of three numbers, two of them reduced before and once in between.
ReducedSum(d, e, f, g) == ((((e % d) + (f % d)) % d) + g) % d = (e + f + g) % d

LEMMA ModThreeSum ==
    ASSUME NEW d \in Nat, d > 0, NEW e \in Int, NEW f \in Int, NEW g \in Int
    PROVE  ReducedSum(d, e, f, g)
  <1>1. PICK u \in Int, v \in Int : u = e % d /\ v = f % d
    BY QuotRem
  <1>2. (((u + v) % d) + g) % d = (u + v + g) % d
    <2>1. PICK w \in Int : w = u + v
      OBVIOUS
    <2>2. ((w % d) + g) % d = (w + g) % d
      BY ModSum
    <2> QED
      BY <2>1, <2>2
  <1>3. ((e % d) + (v + g)) % d = (e + (v + g)) % d
    <2>1. PICK w \in Int : w = v + g
      OBVIOUS
    <2>2. ((e % d) + w) % d = (e + w) % d
      BY ModSum
    <2> QED
      BY <2>1, <2>2
  <1>4. ((f % d) + (e + g)) % d = (f + (e + g)) % d
    <2>1. PICK w \in Int : w = e + g
      OBVIOUS
    <2>2. ((f % d) + w) % d = (f + w) % d
      BY ModSum
    <2> QED
      BY <2>1, <2>2
  <1>5. u + v + g = u + (v + g) /\ e + (v + g) = v + (e + g) /\ f + (e + g) = e + f + g
    OBVIOUS
  <1> QED
    BY <1>1, <1>2, <1>3, <1>4, <1>5 DEF ReducedSum

LEMMA Mul128Right == \A x, y \in Word(2) : Mul128(x, y) \in Word(2) /\ Mul128(x, y) = (x * y) % Size(2)
  <1> TAKE x \in Word(2), y \in Word(2)
  <1>1. PICK h \in Nat, n \in Nat : h = Beta /\ h >= 1 /\ n = Size(2)
    BY HalfSizes
  <1>2. h > 0 /\ n = h * h /\ Word(1) = 0 .. h - 1 /\ Word(2) = 0 .. n - 1
    BY <1>1, HalfSizes DEF Word
  <1>3. \A z \in Word(2) : HiHalf(2, z) \in Word(1) /\ LoHalf(2, z) \in Word(1)
                           /\ Split(h, z, HiHalf(2, z), LoHalf(2, z))
    BY <1>1, <1>2, Halves DEF Split
  <1>4. PICK xh \in Word(1), xl \in Word(1) : xh = HiHalf(2, x) /\ xl = LoHalf(2, x) /\ Split(h, x, xh, xl)
    BY <1>3
  <1>5. PICK yh \in Word(1), yl \in Word(1) : yh = HiHalf(2, y) /\ yl = LoHalf(2, y) /\ Split(h, y, yh, yl)
    BY <1>3
  <1>6. PICK p \in Word(2) : p = xl * yl
    BY <1>2, SmallProduct
  <1>7. PICK ph \in Word(1), pl \in Word(1) : ph = HiHalf(2, p) /\ pl = LoHalf(2, p) /\ Split(h, p, ph, pl)
    BY <1>3
  <1>8. PICK hi \in Word(1) : hi = U(1, ph + xl * yh + xh * yl) /\ hi = (xl * yh + xh * yl + ph) % h
    <2>1. xl * yh \in Int /\ xh * yl \in Int /\ ph \in Int
      BY <1>2
    <2>2. PICK m \in Int : m = ph + xl * yh + xh * yl /\ m = xl * yh + xh * yl + ph
      BY <2>1
    <2>3. U(1, m) \in Word(1) /\ U(1, m) = m % h
      BY <1>1, Kept
    <2> QED
      BY <2>2, <2>3
  <1>9. (x * y) % n = hi * h + pl
    <2>1. LowSteps(h, n, xh, xl, yh, yl, ph, pl, hi)
      BY <1>2, <1>6, <1>7, <1>8 DEF LowSteps
    <2>2. LowIs(h, n, x, y, hi, pl)
      BY ONLY h \in Nat, n \in Nat, <1>2, <1>4, <1>5, <2>1, LowProduct, Zenon
    <2> QED
      BY <2>2 DEF LowIs
  <1>10. Mul128(x, y) = Join(2, hi, pl)
    BY <1>4, <1>5, <1>6, <1>7, <1>8 DEF Mul128, Umul64
  <1>11. Join(2, hi, pl) \in Word(2) /\ Join(2, hi, pl) = hi * h + pl
    BY <1>1, Joins, HalfSizes DEF Join
  <1> QED
    BY <1>1, <1>9, <1>10, <1>11

\* mul: only the product of the low halves is made in full.
LEMMA Mul256Right == \A x, y \in Word(4) : Mul256(x, y) \in Word(4) /\ Mul256(x, y) = (x * y) % Size(4)
  <1> TAKE x \in Word(4), y \in Word(4)
  <1>1. PICK h \in Nat, n \in Nat : h = Size(2) /\ h >= 1 /\ n = Size(4)
    BY HalfSizes
  <1>2. h > 0 /\ n = h * h /\ Word(2) = 0 .. h - 1 /\ Word(4) = 0 .. n - 1
    BY <1>1, HalfSizes DEF Word
  <1>3. \A z \in Word(4) : HiHalf(4, z) \in Word(2) /\ LoHalf(4, z) \in Word(2)
                           /\ Split(h, z, HiHalf(4, z), LoHalf(4, z))
    BY <1>1, <1>2, Halves DEF Split
  <1>4. PICK xh \in Word(2), xl \in Word(2) : xh = HiHalf(4, x) /\ xl = LoHalf(4, x) /\ Split(h, x, xh, xl)
    BY <1>3
  <1>5. PICK yh \in Word(2), yl \in Word(2) : yh = HiHalf(4, y) /\ yl = LoHalf(4, y) /\ Split(h, y, yh, yl)
    BY <1>3
  <1>6. PICK p \in Word(4) : p = Umul128(xl, yl) /\ p = xl * yl
    BY Umul128Right
  <1>7. PICK ph \in Word(2), pl \in Word(2) : ph = HiHalf(4, p) /\ pl = LoHalf(4, p) /\ Split(h, p, ph, pl)
    BY <1>3
  <1>8. PICK hi \in Word(2) : /\ hi = Add128(Add128(Mul128(xl, yh), Mul128(xh, yl)), ph)
                              /\ hi = (xl * yh + xh * yl + ph) % h
    <2>1. PICK e \in Int, f \in Int : e = xl * yh /\ f = xh * yl
      BY <1>2
    <2>2. PICK u \in Word(2), v \in Word(2) : u = Mul128(xl, yh) /\ u = e % h /\ v = Mul128(xh, yl) /\ v = f % h
      BY <1>1, <2>1, Mul128Right
    <2>3. PICK s \in Word(2) : s = Add128(u, v) /\ s = (u + v) % h
      BY <1>1, Add128Right
    <2>4. PICK hi \in Word(2) : hi = Add128(s, ph) /\ hi = (s + ph) % h
      BY <1>1, Add128Right
    <2>5. (((u + v) % h) + ph) % h = (e + f + ph) % h
      <3>1. u \in Int /\ v \in Int /\ ph \in Int /\ u = e % h /\ v = f % h
        BY <1>2, <2>2
      <3>2. ReducedSum(h, e, f, ph)
        BY <1>2, <3>1, ModThreeSum
      <3> QED
        BY <3>1, <3>2 DEF ReducedSum
    <2> QED
      BY <2>1, <2>2, <2>3, <2>4, <2>5
  <1>9. (x * y) % n = hi * h + pl
    <2>1. LowSteps(h, n, xh, xl, yh, yl, ph, pl, hi)
      BY <1>2, <1>6, <1>7, <1>8 DEF LowSteps
    <2>2. LowIs(h, n, x, y, hi, pl)
      BY ONLY h \in Nat, n \in Nat, <1>2, <1>4, <1>5, <2>1, LowProduct, Zenon
    <2> QED
      BY <2>2 DEF LowIs
  <1>10. Mul256(x, y) = Join(4, hi, pl)
    BY <1>4, <1>5, <1>6, <1>7, <1>8 DEF Mul256
  <1>11. Join(4, hi, pl) \in Word(4) /\ Join(4, hi, pl) = hi * h + pl
    BY <1>1, Joins, HalfSizes DEF Join
  <1> QED
    BY <1>1, <1>9, <1>10, <1>11

-----------------------------------------------------------------------------
(* Powers: p holds the powers of a modulo N, as far as any exponent goes *)

Powers(p, a, N) == /\ p[0] = 1
                   /\ \A i \in 1 .. N : p[i] = (p[i - 1] * a) % N

LEMMA PowersExist ==
    ASSUME NEW N \in Nat, N > 1, NEW a \in 0 .. N - 1
    PROVE  \E p \in [0 .. N -> 0 .. N - 1] : Powers(p, a, N)
  <1> DEFINE S == 0 .. N - 1
             step == [i \in Nat |-> [v \in S |-> (v * a) % N]]
  <1>1. step \in [Nat -> [S -> S]] /\ 1 \in S
    <2>1. \A v \in S : (v * a) % N \in S
      <3> TAKE v \in S
      <3>1. PICK w \in Int : w = v * a
        OBVIOUS
      <3> QED
        BY <3>1, QuotRem
    <2> QED
      BY <2>1
  <1>2. PICK p \in [0 .. N -> S] : Iterates(p, 1, step, N)
    <2> HIDE DEF step, S
    <2> QED
      BY <1>1, Recursion
  <1>3. ASSUME NEW i \in 1 .. N PROVE p[i] = (p[i - 1] * a) % N
    <2>1. p[i] = step[i][p[i - 1]]
      BY <1>2, Zenon DEF Iterates
    <2>2. p[i - 1] \in S /\ i \in Nat
      <3> HIDE DEF S
      <3>1. i - 1 \in 0 .. N
        OBVIOUS
      <3> QED
        BY <1>2, <3>1
    <2> HIDE DEF S
    <2> QED
      BY <2>1, <2>2
  <1>4. p[0] = 1
    BY <1>2 DEF Iterates
  <1> HIDE DEF step
  <1> QED
    BY <1>2, <1>3, <1>4 DEF Powers

\* The power of a sum is the product of the powers.
PowerSum(p, N, i, j) == p[i + j] = (p[i] * p[j]) % N

LEMMA PowersAdd ==
    ASSUME NEW N \in Nat, N > 1, NEW a \in 0 .. N - 1, NEW p \in [0 .. N -> 0 .. N - 1], Powers(p, a, N),
           NEW i \in Nat, NEW j \in Nat, i + j <= N
    PROVE  PowerSum(p, N, i, j)
  <1> DEFINE Good == {k \in Nat : i + k <= N => PowerSum(p, N, i, k)}
  <1>1. 0 \in Good
    <2>1. i \in 0 .. N /\ i + 0 = i
      OBVIOUS
    <2>2. PICK v \in 0 .. N - 1 : v = p[i]
      BY <2>1
    <2>3. v % N = v
      BY ModSmall
    <2>4. v * 1 = v
      OBVIOUS
    <2> QED
      BY <2>1, <2>2, <2>3, <2>4 DEF PowerSum, Powers
  <1>2. ASSUME NEW k \in Nat, k \in Good PROVE k + 1 \in Good
    <2> SUFFICES ASSUME i + (k + 1) <= N PROVE PowerSum(p, N, i, k + 1)
      OBVIOUS
    <2>1. PICK m \in 1 .. N : m = i + (k + 1) /\ m - 1 = i + k
      OBVIOUS
    <2>2. PICK l \in 1 .. N : l = k + 1 /\ l - 1 = k
      OBVIOUS
    <2>3. p[m] = (p[m - 1] * a) % N /\ p[l] = (p[l - 1] * a) % N
      BY DEF Powers
    <2>4. PICK u \in Int, v \in Int, w \in Int : u = p[i] /\ v = p[k] /\ w = p[i + k]
      <3>1. i \in 0 .. N /\ k \in 0 .. N /\ i + k \in 0 .. N
        OBVIOUS
      <3> QED
        BY <3>1
    <2>5. w = (u * v) % N
      BY <1>2, <2>4 DEF PowerSum
    <2>6. p[m] = (((u * v) % N) * a) % N /\ p[l] = (v * a) % N
      BY <2>1, <2>2, <2>3, <2>4, <2>5
    <2>7. PICK s \in Int, t \in Int : s = u * v /\ t = v * a /\ s * a = t * u
      OBVIOUS
    <2>8. ((s % N) * a) % N = (s * a) % N /\ ((t % N) * u) % N = (t * u) % N
      <3>1. N > 0 /\ a \in Int
        OBVIOUS
      <3> QED
        BY <3>1, ModProduct, Zenon
    <2>9. PICK r \in Int : r = t % N
      <3>1. N > 0
        OBVIOUS
      <3>2. t % N \in 0 .. N - 1
        BY <3>1, QuotRem, Zenon
      <3> QED
        BY <3>2
    <2>10. u * r = r * u
      BY <2>4
    <2>11. p[m] = (u * r) % N
      BY <2>6, <2>7, <2>8, <2>9, <2>10
    <2>12. p[m] = (p[i] * p[l]) % N
      BY <2>4, <2>6, <2>7, <2>9, <2>11
    <2> QED
      BY <2>1, <2>2, <2>12 DEF PowerSum
  <1> HIDE DEF Good
  <1>3. j \in Good
    BY <1>1, <1>2, AllNaturals
  <1> QED
    BY <1>3 DEF Good

\* Where the powers an exponent below N needs are: half of it, its last bits.
LEMMA ExponentParts ==
    ASSUME NEW e \in Nat, NEW i \in Nat
    PROVE  /\ e % TwoTo[i] \in 0 .. e /\ e \div TwoTo[i] \in 0 .. e
           /\ e \div TwoTo[i] = 2 * (e \div TwoTo[i + 1]) + BitOf(e, i)
  <1>1. PICK S \in Nat : S = TwoTo[i] /\ S > 0 /\ TwoTo[i + 1] = 2 * S
    BY TwoToStep
  <1>2. PICK q \in Nat, r \in 0 .. S - 1 : q = e \div S /\ r = e % S /\ e = q * S + r /\ q * S <= e
    <2>1. e \div S \in Nat /\ e % S \in 0 .. S - 1 /\ e = (e \div S) * S + (e % S) /\ (e \div S) * S <= e
      BY <1>1, QuotNat
    <2> QED
      BY <2>1, Zenon
  <1>3. q * 1 <= q * S
    <2>1. 1 * q <= S * q
      BY <1>1, ProductMonotonic
    <2> QED
      BY <2>1
  <1>4. PICK h \in Nat, b \in 0 .. 1 : h = q \div 2 /\ b = q % 2 /\ q = 2 * h + b
    OBVIOUS
  <1>5. (e \div S) \div 2 = e \div (S * 2) /\ S * 2 = 2 * S
    BY <1>1, QuotOfQuot, 2 \in Nat
  <1>6. r <= e /\ q <= e
    <2>1. PICK t \in Int : t = q * S
      OBVIOUS
    <2> QED
      BY <1>2, <1>3, <2>1
  <1>7. e % TwoTo[i] = r /\ e \div TwoTo[i] = q
    BY <1>1, <1>2
  <1>8. e \div TwoTo[i + 1] = h /\ BitOf(e, i) = b
    BY <1>1, <1>2, <1>4, <1>5 DEF BitOf
  <1> QED
    BY <1>4, <1>6, <1>7, <1>8

\* exp: from the lowest bit of the exponent up, base is the power of the bit's
\* weight and result the power of the bits seen.
LEMMA ExpRight ==
    ASSUME NEW x \in Word(4), NEW e \in Word(4),
           NEW p \in [0 .. Size(4) -> Word(4)], Powers(p, x, Size(4))
    PROVE  Exp(x, e) = p[e]
  <1>1. PICK N \in Nat, n \in Nat : N = Size(4) /\ n = 4 * B /\ N > 1 /\ TwoTo[n] = N /\ n > 0
    BY HalfSizes, WidthAssumption DEF Size
  <1>2. /\ Word(4) = 0 .. N - 1 /\ e \in Nat /\ e < N
        /\ p \in [0 .. N -> 0 .. N - 1] /\ x \in 0 .. N - 1 /\ Powers(p, x, N)
    BY <1>1 DEF Word
  <1> DEFINE S == [result : Nat, base : Nat]
             Next1(acc, i) == [result |-> IF (e \div TwoTo[i]) % 2 = 1 THEN Mul256(acc.result, acc.base)
                                          ELSE acc.result,
                               base |-> Mul256(acc.base, acc.base)]
             step == [i \in 0 .. 4 * B - 1 |-> [acc \in S |-> Next1(acc, i)]]
             Good(acc, i) == acc.result = p[e % TwoTo[i]] /\ acc.base = p[TwoTo[i]]
             G == [i \in Nat |-> {acc \in S : Good(acc, i)}]
             start == [result |-> 1, base |-> x]
  <1>3. Exp(x, e) = Upto(step, start, 4 * B).result
    BY DEF Exp
  <1>4. start \in G[0]
    <2>1. TwoTo[0] = 1 /\ e % 1 = 0
      BY <1>2, TwoToStep
    <2>2. p[0] = 1 /\ p[1] = (1 * x) % N
      <3>1. 1 \in 1 .. N /\ 1 - 1 = 0
        BY <1>1
      <3> QED
        BY <1>2, <3>1 DEF Powers
    <2>3. 1 * x = x /\ x % N = x /\ x \in Nat
      BY <1>1, <1>2, ModSmall
    <2> QED
      BY <2>1, <2>2, <2>3
  <1>5. ASSUME NEW i \in 0 .. n - 1, NEW acc \in S, Good(acc, i)
        PROVE  Next1(acc, i) \in S /\ Good(Next1(acc, i), i + 1)
    <2>1. PICK T \in Nat : T = TwoTo[i] /\ T > 0 /\ TwoTo[i + 1] = T + T /\ T + T <= N
      <3>1. i \in Nat /\ i + 1 \in Nat /\ i + 1 <= n
        BY <1>1
      <3>2. TwoTo[i + 1] <= TwoTo[n]
        BY <3>1, TwoToMonotonic
      <3>3. TwoTo[i] \in Nat /\ TwoTo[i] > i /\ TwoTo[i + 1] = 2 * TwoTo[i]
        BY <3>1, TwoToStep, Zenon
      <3> QED
        BY <1>1, <3>1, <3>2, <3>3
    <2>2. PICK b \in 0 .. 1, r \in Nat : b = BitOf(e, i) /\ r = e % T /\ e % TwoTo[i + 1] = r + T * b
      <3>1. e \in Nat /\ i \in Nat
        BY <1>2
      <3>2. BitOf(e, i) \in 0 .. 1 /\ e % TwoTo[i + 1] = (e % TwoTo[i]) + TwoTo[i] * BitOf(e, i)
        BY <3>1, BitStep
      <3>3. e % T \in Nat
        BY <2>1, <3>1, QuotNat
      <3> QED
        BY <2>1, <3>2, <3>3
    <2>3. r <= e /\ r + T * b <= e
      <3>1. e \in Nat /\ i \in Nat /\ i + 1 \in Nat
        BY <1>2
      <3>2. e % TwoTo[i + 1] \in 0 .. e /\ e % TwoTo[i] \in 0 .. e
        BY <3>1, ExponentParts
      <3> QED
        BY <2>1, <2>2, <3>2
    <2>4. acc.result = p[r] /\ acc.base = p[T]
      BY <1>5, <2>1, <2>2
    <2>5. p[r] \in Word(4) /\ p[T] \in Word(4)
      <3>1. e \in Nat /\ e < N /\ r <= e /\ T + T <= N
        BY <1>2, <2>1, <2>3
      <3>2. r \in 0 .. N /\ T \in 0 .. N
        BY ONLY <3>1, r \in Nat, T \in Nat, N \in Nat
      <3> QED
        BY <1>1, <3>2
    <2>6. Mul256(p[T], p[T]) = p[T + T] /\ Mul256(p[T], p[T]) \in Nat
      <3>1. PowerSum(p, N, T, T)
        BY <1>1, <1>2, <2>1, PowersAdd
      <3>2. Mul256(p[T], p[T]) \in Word(4) /\ Mul256(p[T], p[T]) = (p[T] * p[T]) % Size(4)
        BY <2>5, Mul256Right
      <3>3. p[T + T] = (p[T] * p[T]) % Size(4)
        BY <1>1, <3>1, Zenon DEF PowerSum
      <3>4. Mul256(p[T], p[T]) \in Nat
        BY <3>2, Kept
      <3> QED
        BY <3>2, <3>3, <3>4, Zenon
    <2>7. ASSUME b = 1 PROVE Mul256(p[r], p[T]) = p[r + T] /\ Mul256(p[r], p[T]) \in Nat
      <3>1. r + T <= N
        BY <1>2, <2>3, <2>7
      <3>2. PowerSum(p, N, r, T)
        BY <1>1, <1>2, <2>1, <3>1, PowersAdd
      <3>3. Mul256(p[r], p[T]) \in Word(4) /\ Mul256(p[r], p[T]) = (p[r] * p[T]) % Size(4)
        BY <2>5, Mul256Right
      <3>4. p[r + T] = (p[r] * p[T]) % Size(4)
        BY <1>1, <3>2, Zenon DEF PowerSum
      <3>5. Mul256(p[r], p[T]) \in Nat
        BY <3>3, Kept
      <3> QED
        BY <3>3, <3>4, <3>5, Zenon
    <2>8. (e \div TwoTo[i]) % 2 = b
      BY <2>2 DEF BitOf
    <2>9. T * 0 = 0 /\ T * 1 = T /\ r + 0 = r
      OBVIOUS
    <2>10. ASSUME b = 1 PROVE Next1(acc, i) \in S /\ Good(Next1(acc, i), i + 1)
      <3>1. Next1(acc, i) = [result |-> p[r + T], base |-> p[T + T]]
        BY <2>4, <2>6, <2>7, <2>8, <2>10
      <3>2. e % TwoTo[i + 1] = r + T
        BY <2>2, <2>9, <2>10
      <3> HIDE DEF Next1
      <3> QED
        BY <2>1, <2>6, <2>7, <2>10, <3>1, <3>2
    <2>11. ASSUME b = 0 PROVE Next1(acc, i) \in S /\ Good(Next1(acc, i), i + 1)
      <3>1. Next1(acc, i) = [result |-> p[r], base |-> p[T + T]]
        BY <2>4, <2>6, <2>8, <2>11
      <3>2. e % TwoTo[i + 1] = r
        BY <2>2, <2>9, <2>11
      <3>3. p[r] \in Nat
        BY <2>5, Kept
      <3> HIDE DEF Next1
      <3> QED
        BY <2>1, <2>6, <2>11, <3>1, <3>2, <3>3
    <2> HIDE DEF Next1, Good, S
    <2> QED
      BY <2>10, <2>11
  <1>6. UptoStep(step, G, n)
    <2> HIDE DEF Next1, Good, S
    <2>1. ASSUME NEW i \in 0 .. n - 1, NEW acc \in G[i] PROVE step[i][acc] \in G[i + 1]
      <3>1. i \in Nat /\ i + 1 \in Nat /\ i \in 0 .. 4 * B - 1
        BY <1>1
      <3>2. acc \in S /\ Good(acc, i)
        BY <3>1
      <3>3. step[i][acc] = Next1(acc, i)
        BY <3>1, <3>2
      <3> HIDE DEF step
      <3> QED
        BY <1>5, <3>1, <3>2, <3>3
    <2> HIDE DEF step, G
    <2> QED
      BY <2>1 DEF UptoStep
  <1>7. Upto(step, start, n) \in G[n]
    <2> HIDE DEF step, G, start
    <2> QED
      BY <1>4, <1>6, UptoKeeps
  <1>8. Upto(step, start, n).result = p[e % TwoTo[n]]
    <2> HIDE DEF step, S, start
    <2> QED
      BY <1>7
  <1>9. e % N = e
    BY <1>1, <1>2, ModSmall
  <1> HIDE DEF step, start
  <1> QED
    BY <1>1, <1>3, <1>8, <1>9

\* Power goes from the highest bit of the exponent down: its value is the power
\* of the bits it has seen, read as a number.
LEMMA PowerRight ==
    ASSUME NEW a \in Word(4), NEW e \in Word(4),
           NEW p \in [0 .. Size(4) -> Word(4)], Powers(p, a, Size(4))
    PROVE  Power(a, e) = p[e]
  <1>1. PICK N \in Nat, n \in Nat : N = Size(4) /\ n = Bits /\ N > 1 /\ TwoTo[n] = N /\ n > 0
    BY HalfSizes, WidthAssumption DEF Size, Bits
  <1>2. /\ Word(4) = 0 .. N - 1 /\ e \in Nat /\ e < N
        /\ p \in [0 .. N -> 0 .. N - 1] /\ a \in 0 .. N - 1 /\ Powers(p, a, N)
    BY <1>1 DEF Word
  <1> DEFINE S == 0 .. Size(4) - 1
             Next1(acc, i) == (((acc * acc) % Size(4)) * (IF (e \div TwoTo[i]) % 2 = 1 THEN a ELSE 1)) % Size(4)
             step == [i \in 0 .. Bits - 1 |-> [acc \in S |-> Next1(acc, i)]]
             Good(acc, i) == acc = p[e \div TwoTo[i]]
             G == [i \in Nat |-> {acc \in S : Good(acc, n - i)}]
  <1>3. Power(a, e) = Downto(step, 1, Bits - 1)
    BY DEF Power
  <1>4. 1 \in G[0]
    <2>1. e \div N = 0 /\ p[0] = 1 /\ n - 0 = n
      BY <1>1, <1>2, ModSmall DEF Powers
    <2>2. Good(1, n - 0)
      BY <1>1, <2>1
    <2> HIDE DEF Good
    <2> QED
      BY <1>1, <2>2
  <1>5. ASSUME NEW i \in 0 .. n - 1, NEW acc \in S, Good(acc, i + 1)
        PROVE  Next1(acc, i) \in S /\ Good(Next1(acc, i), i)
    <2>1. e \in Nat /\ e < N /\ i \in Nat /\ i + 1 \in Nat /\ N > 0
      BY <1>1, <1>2
    <2>2. PICK h \in Nat, b \in 0 .. 1, q \in Nat :
             h = e \div TwoTo[i + 1] /\ b = BitOf(e, i) /\ q = e \div TwoTo[i] /\ q = 2 * h + b /\ q <= e
      <3>1. /\ e \div TwoTo[i] \in 0 .. e /\ e \div TwoTo[i + 1] \in 0 .. e
            /\ e \div TwoTo[i] = 2 * (e \div TwoTo[i + 1]) + BitOf(e, i)
        BY <2>1, ExponentParts, Zenon
      <3>2. BitOf(e, i) \in 0 .. 1
        BY <2>1, BitStep, Zenon
      <3>3. e \div TwoTo[i] \in Nat /\ e \div TwoTo[i + 1] \in Nat /\ e \div TwoTo[i] <= e
        BY ONLY <2>1, <3>1
      <3> QED
        BY <3>1, <3>2, <3>3, Zenon
    <2>3. PICK u \in Nat : u = acc /\ acc = p[h]
      BY <1>1, <1>5, <2>2, SMTT(30)
    <2>4. PICK w \in Nat : w = p[h + h] /\ w \in 0 .. N - 1 /\ w = (u * u) % N
      <3>1. h + h <= N /\ h + h \in 0 .. N
        BY ONLY <2>1, <2>2, N \in Nat
      <3>2. PowerSum(p, N, h, h)
        BY <1>1, <1>2, <3>1, PowersAdd
      <3>3. p[h + h] \in 0 .. N - 1
        BY <1>2, <3>1
      <3> QED
        BY <2>3, <3>2, <3>3 DEF PowerSum
    <2>5. ASSUME b = 1 PROVE Next1(acc, i) = p[q]
      <3>1. q \in 1 .. N /\ q - 1 = h + h
        BY ONLY <2>1, <2>2, <2>5, N \in Nat
      <3>2. p[q] = (p[q - 1] * a) % N
        BY <1>2, <3>1 DEF Powers
      <3>3. Next1(acc, i) = (w * a) % N
        BY <1>1, <2>2, <2>3, <2>4, <2>5 DEF BitOf
      <3> QED
        BY <2>4, <3>1, <3>2, <3>3, Zenon
    <2>6. ASSUME b = 0 PROVE Next1(acc, i) = p[q]
      <3>1. q = h + h
        BY <2>2, <2>6
      <3>2. Next1(acc, i) = (w * 1) % N
        <4>1. (e \div TwoTo[i]) % 2 = 0
          BY <2>2, <2>6 DEF BitOf
        <4>2. (acc * acc) % Size(4) = w
          BY <1>1, <2>3, <2>4
        <4> QED
          BY <1>1, <4>1, <4>2, SMTT(30)
      <3>3. w % N = w
        BY <2>4, ModSmall
      <3>4. w * 1 = w
        OBVIOUS
      <3> QED
        BY <2>4, <3>1, <3>2, <3>3, <3>4
    <2>7. p[q] \in S
      <3>1. q \in 0 .. N
        BY <1>2, <2>1, <2>2
      <3> QED
        BY <1>1, <1>2, <3>1
    <2>8. Next1(acc, i) = p[q]
      BY <2>2, <2>5, <2>6
    <2> HIDE DEF Next1, S
    <2> QED
      BY <2>2, <2>7, <2>8
  <1>6. DowntoStep(step, G, n - 1)
    <2> HIDE DEF Next1, Good, S
    <2>1. ASSUME NEW i \in 0 .. n - 1, NEW acc \in G[i] PROVE step[n - 1 - i][acc] \in G[i + 1]
      <3>1. PICK j \in 0 .. n - 1 : j = n - 1 - i /\ n - i = j + 1 /\ n - (i + 1) = j
        OBVIOUS
      <3>2. i \in Nat /\ i + 1 \in Nat /\ j \in 0 .. Bits - 1
        BY <1>1
      <3>3. acc \in S /\ Good(acc, j + 1)
        BY <3>1, <3>2
      <3>4. step[j][acc] = Next1(acc, j)
        BY <3>2, <3>3
      <3>5. Next1(acc, j) \in S /\ Good(Next1(acc, j), j)
        BY <1>5, <3>3
      <3> HIDE DEF step
      <3> QED
        BY <3>1, <3>2, <3>4, <3>5
    <2> HIDE DEF step, G
    <2> QED
      BY <2>1 DEF DowntoStep
  <1>7. Downto(step, 1, n - 1) \in G[n]
    <2>1. n - 1 \in Int /\ n - 1 >= -1 /\ n - 1 + 1 = n
      BY <1>1
    <2> HIDE DEF step, G
    <2>2. Downto(step, 1, n - 1) \in G[n - 1 + 1]
      BY <1>4, <1>6, <2>1, DowntoKeeps
    <2> QED
      BY <2>1, <2>2
  <1>8. Downto(step, 1, n - 1) = p[e \div TwoTo[n - n]]
    <2> HIDE DEF step, S
    <2> QED
      BY <1>7
  <1>9. e \div TwoTo[n - n] = e
    <2>1. n - n = 0 /\ TwoTo[0] = 1 /\ e \div 1 = e
      BY <1>2, TwoToStep
    <2> QED
      BY <2>1
  <1> HIDE DEF step
  <1> QED
    BY <1>1, <1>3, <1>8, <1>9

-----------------------------------------------------------------------------
(* Numbers of w digits *)

\* The run of FromWords: after i steps the number of the i highest digits.
Horner(f, w, d) ==
    /\ f[0] = 0
    /\ \A i \in 0 .. w - 1 : f[i + 1] = f[i] * Beta + d[w - 1 - i]
    /\ \A i \in 0 .. w : f[i] \in Word(i)
    /\ FromWords(w, d) = f[w]

LEMMA FromWordsRuns ==
    ASSUME NEW w \in Nat, NEW d \in Digits(w)
    PROVE  \E f : Horner(f, w, d)
  <1> DEFINE step == [i \in 0 .. w - 1 |-> [acc \in Nat |-> acc * Beta + d[i]]]
  <1>1. PICK f : DowntoLoop(f, step, 0, w - 1)
    <2>1. w - 1 \in Int /\ w - 1 >= -1
      OBVIOUS
    <2> HIDE DEF step
    <2> QED
      BY <2>1, DowntoRuns
  <1>2. /\ f[0] = 0
        /\ \A i \in 0 .. w - 1 : f[i + 1] = step[w - 1 - i][f[i]]
        /\ Downto(step, 0, w - 1) = f[w - 1 + 1]
    BY <1>1, Zenon DEF DowntoLoop
  <1>3. FromWords(w, d) = f[w]
    <2>1. FromWords(w, d) = Downto(step, 0, w - 1)
      BY DEF FromWords
    <2>2. w - 1 + 1 = w
      OBVIOUS
    <2> HIDE DEF step
    <2> QED
      BY <1>2, <2>1, <2>2
  <1>4. PICK b \in Nat : b = Beta /\ b > 0
    BY HalfSizes
  <1>5. ASSUME NEW i \in 0 .. w - 1, f[i] \in Word(i)
        PROVE  f[i + 1] = f[i] * Beta + d[w - 1 - i] /\ f[i + 1] \in Word(i + 1)
    <2>1. PICK j \in 0 .. w - 1 : j = w - 1 - i
      OBVIOUS
    <2>2. i \in Nat /\ i + 1 \in Nat
      OBVIOUS
    <2>3. PICK n \in Nat : n = Size(i)
      BY <2>2, SizeNat
    <2>9. PICK v \in 0 .. n - 1 : v = f[i]
      BY <1>5, <2>3 DEF Word
    <2>4. PICK r \in 0 .. b - 1 : r = d[j]
      BY <1>4 DEF Digits
    <2>5. f[i + 1] = step[j][v]
      BY <1>2, <2>1, <2>9
    <2>6. f[i + 1] = v * b + r
      BY <1>4, <2>4, <2>5
    <2>7. v * b + r \in 0 .. n * b - 1
      BY <1>4, PairBelow
    <2>8. Size(i + 1) = n * b
      <3>1. Size(i + 1) = Beta * Size(i) /\ b * n = n * b
        BY <2>2, SizeNext
      <3> QED
        BY <1>4, <2>3, <3>1
    <2> QED
      BY <1>4, <2>1, <2>9, <2>4, <2>6, <2>7, <2>8 DEF Word
  <1> DEFINE Good == {i \in Nat : i <= w => f[i] \in Word(i)}
  <1>6. 0 \in Good
    <2>1. Size(0) = 1
      BY SizeFacts
    <2>2. f[0] \in Word(0)
      BY <1>2, <2>1 DEF Word
    <2> QED
      BY <2>2
  <1>7. ASSUME NEW i \in Nat, i \in Good PROVE i + 1 \in Good
    <2> HIDE DEF step
    <2> QED
      BY <1>5, <1>7
  <1>8. Nat \subseteq Good
    <2> HIDE DEF Good
    <2> QED
      BY <1>6, <1>7, AllNaturals
  <1>9. \A i \in 0 .. w : f[i] \in Word(i)
    BY <1>8
  <1>10. \A i \in 0 .. w - 1 : f[i + 1] = f[i] * Beta + d[w - 1 - i]
    <2> HIDE DEF step, Good
    <2>1. \A i \in 0 .. w - 1 : i \in 0 .. w
      OBVIOUS
    <2> QED
      BY <1>5, <1>9, <2>1, Zenon
  <1> QED
    BY <1>2, <1>3, <1>9, <1>10, Zenon DEF Horner

LEMMA FromWordsInt == \A w \in Nat : \A d \in Digits(w) : FromWords(w, d) \in Word(w) /\ FromWords(w, d) \in Nat
  <1> TAKE w \in Nat
  <1> TAKE d \in Digits(w)
  <1>1. PICK f : Horner(f, w, d)
    BY FromWordsRuns
  <1>2. f[w] \in Word(w)
    BY <1>1, w \in 0 .. w DEF Horner
  <1>3. Size(w) \in Nat
    BY SizeNat
  <1> QED
    BY <1>1, <1>2, <1>3 DEF Horner, Word

\* Another digit at k changes the number by the difference, at its place.
DigitChanges(w, d, k, v) ==
    FromWords(w, [d EXCEPT ![k] = v]) = FromWords(w, d) + (v - d[k]) * Size(k)

LEMMA DigitChanged ==
    ASSUME NEW w \in Nat, NEW d \in Digits(w), NEW k \in 0 .. w - 1, NEW v \in 0 .. Beta - 1
    PROVE  [d EXCEPT ![k] = v] \in Digits(w) /\ DigitChanges(w, d, k, v)
  <1>1. PICK e : e = [d EXCEPT ![k] = v]
    OBVIOUS
  <1>2. e \in Digits(w) /\ e[k] = v /\ \A i \in 0 .. w - 1 : i # k => e[i] = d[i]
    BY <1>1 DEF Digits
  <1>3. PICK f : Horner(f, w, d)
    BY FromWordsRuns
  <1>4. PICK g : Horner(g, w, e)
    BY <1>2, FromWordsRuns
  <1>5. PICK b \in Nat : b = Beta
    BY HalfSizes
  <1>6. PICK u \in Int : u = v - d[k]
    BY <1>5 DEF Digits
  <1> DEFINE Value(i) == IF i <= w - 1 - k THEN f[i] ELSE f[i] + u * Size(i - (w - k))
             Good == {i \in Nat : i <= w => g[i] = Value(i)}
  <1>7. 0 \in Good
    <2>1. g[0] = 0 /\ f[0] = 0 /\ 0 <= w - 1 - k
      BY <1>3, <1>4 DEF Horner
    <2> QED
      BY <2>1
  <1>8. ASSUME NEW i \in Nat, i + 1 <= w, g[i] = Value(i) PROVE g[i + 1] = Value(i + 1)
    <2>1. PICK j \in 0 .. w - 1 : j = w - 1 - i
      BY <1>8
    <2>2. f[i + 1] = f[i] * b + d[j] /\ g[i + 1] = g[i] * b + e[j]
      <3>1. i \in 0 .. w - 1
        BY <1>8
      <3> QED
        BY <1>3, <1>4, <1>5, <2>1, <3>1 DEF Horner
    <2>3. PICK m \in Nat, n \in 0 .. b - 1 : m = f[i] /\ n = d[j]
      <3>1. d[j] \in 0 .. b - 1
        BY <1>5 DEF Digits
      <3>2. i \in 0 .. w
        BY <1>8
      <3>3. f[i] \in Word(i)
        BY <1>3, <3>2 DEF Horner
      <3>4. f[i] \in Nat
        BY <3>3, SizeNat DEF Word
      <3> QED
        BY <3>1, <3>4
    <2>4. CASE i + 1 <= w - 1 - k
      <3>1. e[j] = d[j] /\ i <= w - 1 - k
        BY <1>2, <2>1, <2>4
      <3> QED
        BY <1>8, <2>2, <2>4, <3>1
    <2>5. CASE i = w - 1 - k
      <3>1. j = k /\ i <= w - 1 - k /\ ~(i + 1 <= w - 1 - k) /\ i + 1 - (w - k) = 0
        BY <2>1, <2>5
      <3>2. Size(0) = 1 /\ u * 1 = u
        BY SizeFacts
      <3>3. g[i + 1] = m * b + v /\ f[i + 1] = m * b + d[k]
        BY <1>2, <1>8, <2>2, <2>3, <3>1
      <3>4. f[i + 1] + u = g[i + 1]
        <4>1. PICK p \in Int : p = m * b
          OBVIOUS
        <4>2. d[k] \in Int
          BY <2>3, <3>1
        <4> QED
          BY <1>6, <3>3, <4>1, <4>2
      <3>5. Value(i + 1) = f[i + 1] + u * Size(i + 1 - (w - k))
        BY <3>1
      <3> HIDE DEF Value
      <3> QED
        BY <3>1, <3>2, <3>4, <3>5
    <2>6. CASE i >= w - k
      <3>1. j # k /\ ~(i <= w - 1 - k) /\ ~(i + 1 <= w - 1 - k)
        BY <2>1, <2>6
      <3>2. PICK a \in Nat : a = i - (w - k) /\ a + 1 = i + 1 - (w - k)
        BY <2>6
      <3>3. PICK S \in Nat : S = Size(a) /\ Size(a + 1) = b * S
        BY <1>5, SizeNat, SizeNext
      <3>4. g[i] = m + u * S /\ e[j] = n
        BY <1>2, <1>8, <2>3, <3>1, <3>2, <3>3
      <3>5. (m + u * S) * b + n = m * b + n + u * (b * S)
        OBVIOUS
      <3>6. g[i + 1] = f[i + 1] + u * Size(a + 1)
        BY <2>2, <2>3, <3>3, <3>4, <3>5
      <3> QED
        BY <3>1, <3>2, <3>6
    <2>7. i + 1 <= w - 1 - k \/ i = w - 1 - k \/ i >= w - k
      OBVIOUS
    <2> HIDE DEF Value
    <2> QED
      BY <2>4, <2>5, <2>6, <2>7
  <1>9. ASSUME NEW i \in Nat, i \in Good PROVE i + 1 \in Good
    <2> HIDE DEF Value
    <2> QED
      BY <1>8, <1>9
  <1>10. w \in Good
    <2> HIDE DEF Good
    <2> QED
      BY <1>7, <1>9, AllNaturals
  <1>11. g[w] = f[w] + u * Size(k)
    <2>1. ~(w <= w - 1 - k) /\ w - (w - k) = k
      OBVIOUS
    <2> QED
      BY <1>10, <2>1
  <1>12. DigitChanges(w, d, k, v)
    BY <1>1, <1>3, <1>4, <1>6, <1>11 DEF DigitChanges, Horner
  <1> QED
    BY <1>1, <1>2, <1>12

\* No digits: the number zero.
LEMMA NoDigits ==
    \A w \in Nat : /\ AsWords(w, 0) \in Digits(w) /\ FromWords(w, AsWords(w, 0)) = 0
                   /\ \A i \in 0 .. w - 1 : AsWords(w, 0)[i] = 0
  <1> TAKE w \in Nat
  <1>1. PICK b \in Nat : b = Beta /\ b > 0
    BY HalfSizes
  <1>2. ASSUME NEW i \in Nat PROVE Digit(0, i) = 0
    <2>1. Size(i) \in Nat /\ Size(i) > 0
      BY SizeNat
    <2>2. 0 \div Size(i) = 0 /\ 0 % b = 0
      BY <1>1, <2>1, ModSmall
    <2> QED
      BY <1>1, <2>2 DEF Digit
  <1>3. PICK d : d = AsWords(w, 0)
    OBVIOUS
  <1>13. d \in Digits(w) /\ \A i \in 0 .. w - 1 : d[i] = 0
    <2>1. \A i \in 0 .. w - 1 : i \in Nat /\ Digit(0, i) = 0
      BY <1>2
    <2>2. 0 \in 0 .. b - 1
      BY <1>1
    <2>3. d = [i \in 0 .. w - 1 |-> Digit(0, i)]
      BY <1>3 DEF AsWords
    <2> QED
      BY <1>1, <2>1, <2>2, <2>3 DEF Digits
  <1>4. PICK f : Horner(f, w, d)
    BY <1>13, FromWordsRuns
  <1> DEFINE Good == {i \in Nat : i <= w => f[i] = 0}
  <1>5. 0 \in Good
    BY <1>4 DEF Horner
  <1>6. ASSUME NEW i \in Nat, i \in Good PROVE i + 1 \in Good
    <2> SUFFICES ASSUME i + 1 <= w PROVE f[i + 1] = 0
      OBVIOUS
    <2>1. i \in 0 .. w - 1 /\ w - 1 - i \in 0 .. w - 1 /\ f[i] = 0
      BY <1>6
    <2>2. f[i + 1] = 0 * b + 0
      BY <1>1, <1>13, <1>4, <2>1 DEF Horner
    <2> QED
      BY <2>2
  <1>7. w \in Good
    <2> HIDE DEF Good
    <2> QED
      BY <1>5, <1>6, AllNaturals
  <1> QED
    <2>1. w <= w => f[w] = 0
      BY <1>7
    <2> QED
      BY <1>3, <1>13, <1>4, <2>1 DEF Horner

-----------------------------------------------------------------------------
(* The loops over machine words: umul_loop and mul_loop_opt *)

\* The inner loop: row j of the product is added to the digits p.
RowState(D) == [p : Digits(D), k : 0 .. Beta - 1]
RowNext(x, y, j, acc, i) ==
    LET t == Add128(Add128(Umul64(Digit(x, i), Digit(y, j)), acc.p[i + j]), acc.k)
    IN  [p |-> [acc.p EXCEPT ![i + j] = LoHalf(2, t)], k |-> HiHalf(2, t)]
RowLoop(w, D, x, y, j) == [i \in 0 .. w - 1 |-> [acc \in RowState(D) |-> RowNext(x, y, j, acc, i)]]

\* What the first i steps of a row have added to p0, the carry included.
Row(D, x, y, j, p0, acc, i) ==
    /\ FromWords(D, acc.p) + acc.k * Size(i + j) = FromWords(D, p0) + (x % Size(i)) * (Digit(y, j) * Size(j))
    /\ \A m \in 0 .. D - 1 : m >= i + j => acc.p[m] = p0[m]

\* The arithmetic of one step.
Moved(N, b, f0, f, g, c, e, k, xi, q, r, d, lo, hi) ==
    /\ g = f + (lo - e) * N
    /\ xi * d + e + k = hi * b + lo
    /\ f + k * N = f0 + r * (d * c)
    /\ N = q * c
MovedTo(N, b, f0, g, c, xi, q, r, d, hi) == g + hi * (b * N) = f0 + (xi * q + r) * (d * c)

LEMMA RowArithmetic ==
    ASSUME NEW N \in Int, NEW b \in Int, NEW f0 \in Int, NEW f \in Int, NEW g \in Int, NEW c \in Int,
           NEW e \in Int, NEW k \in Int, NEW xi \in Int, NEW q \in Int, NEW r \in Int, NEW d \in Int,
           NEW lo \in Int, NEW hi \in Int, Moved(N, b, f0, f, g, c, e, k, xi, q, r, d, lo, hi)
    PROVE  MovedTo(N, b, f0, g, c, xi, q, r, d, hi)
  <1>1. PICK xd \in Int : xd = xi * d
    OBVIOUS
  <1>2. PICK hb \in Int : hb = hi * b
    OBVIOUS
  <1>3. /\ g = f + (lo - e) * N /\ xd + e + k = hb + lo
        /\ f + k * N = f0 + r * (d * c) /\ N = q * c
    BY <1>1, <1>2 DEF Moved
  <1>4. hi * (b * N) = hb * N
    BY <1>2
  <1>5. (lo - e) * N + hb * N = (xd + k) * N
    <2>1. (lo - e) * N + hb * N = (lo - e + hb) * N
      OBVIOUS
    <2>2. lo - e + hb = xd + k
      BY <1>3
    <2> QED
      BY <2>1, <2>2
  <1>6. (xd + k) * N = xd * N + k * N
    OBVIOUS
  <1>7. xd * N = (xi * q) * (d * c)
    <2>1. (xi * d) * (q * c) = (xi * q) * (d * c)
      OBVIOUS
    <2> QED
      BY <1>1, <1>3, <2>1
  <1>8. (xi * q + r) * (d * c) = (xi * q) * (d * c) + r * (d * c)
    OBVIOUS
  <1>9. PICK u \in Int : u = xd * N
    OBVIOUS
  <1>10. PICK v \in Int : v = r * (d * c)
    OBVIOUS
  <1>11. PICK s \in Int : s = k * N
    OBVIOUS
  <1>12. PICK z \in Int : z = hb * N
    OBVIOUS
  <1>13. PICK m \in Int : m = (lo - e) * N
    OBVIOUS
  <1>14. g + z = f0 + (u + v)
    <2>1. g = f + m /\ m + z = u + s /\ f + s = f0 + v
      BY <1>3, <1>5, <1>6, <1>9, <1>10, <1>11, <1>12, <1>13
    <2> QED
      BY ONLY <2>1, g \in Int, f \in Int, f0 \in Int, <1>9, <1>10, <1>11, <1>12, <1>13
  <1> QED
    BY <1>4, <1>7, <1>8, <1>9, <1>10, <1>12, <1>14 DEF MovedTo

\* One step of a row: the sum fits two machine words, its halves are the new
\* digit and the new carry.
RowDigitIs(b, u, v, e, k, t) ==
    /\ LoHalf(2, t) \in 0 .. b - 1 /\ HiHalf(2, t) \in 0 .. b - 1
    /\ u * v + e + k = HiHalf(2, t) * b + LoHalf(2, t)

LEMMA RowDigit ==
    ASSUME NEW b \in Nat, b = Beta, NEW u \in 0 .. b - 1, NEW v \in 0 .. b - 1,
           NEW e \in 0 .. b - 1, NEW k \in 0 .. b - 1,
           NEW t, t = Add128(Add128(Umul64(u, v), e), k)
    PROVE  RowDigitIs(b, u, v, e, k, t)
  <1>1. PICK q \in Nat : q = u * v /\ q = Umul64(u, v)
    BY SmallProduct DEF Umul64
  <1>2. PICK n \in Nat : n = Size(2) /\ n = b * b
    BY HalfSizes
  <1>3. q + b + b <= n + 1
    <2>1. u * v + b + b <= b * b + 1
      BY SmallProduct
    <2> QED
      BY <1>1, <1>2, <2>1
  <1>4. q + e + k < n /\ q + e < n /\ q \in 0 .. n - 1 /\ e \in 0 .. n - 1 /\ k \in 0 .. n - 1 /\ q + e \in 0 .. n - 1
    <2>1. b <= n
      <3>1. b >= 4
        BY HalfSizes
      <3> QED
        BY <1>2, <3>1
    <2> QED
      BY ONLY <1>1, <1>2, <1>3, <2>1, b \in Nat, e \in 0 .. b - 1, k \in 0 .. b - 1
  <1>5. Add128(q, e) = q + e
    BY <1>2, <1>4, PlainSum DEF Word
  <1>6. Add128(q + e, k) = q + e + k
    BY <1>2, <1>4, PlainSum DEF Word
  <1>7. t = q + e + k /\ t \in 0 .. n - 1
    BY <1>1, <1>4, <1>5, <1>6
  <1>8. Split(Beta, t, HiHalf(2, t), LoHalf(2, t))
    BY <1>2, <1>7, Halves DEF Word
  <1> QED
    BY <1>1, <1>7, <1>8 DEF Split, RowDigitIs

LEMMA RowStep ==
    ASSUME NEW D \in Nat, NEW x \in Nat, NEW y \in Nat, NEW i \in Nat, NEW j \in Nat, i + j < D,
           NEW p0 \in Digits(D), NEW acc \in RowState(D), Row(D, x, y, j, p0, acc, i)
    PROVE  /\ RowNext(x, y, j, acc, i) \in RowState(D)
           /\ Row(D, x, y, j, p0, RowNext(x, y, j, acc, i), i + 1)
  <1>1. PICK b \in Nat : b = Beta /\ b > 0
    BY HalfSizes
  <1>2. PICK h \in 0 .. D - 1 : h = i + j
    OBVIOUS
  <1>3. PICK p, k : p = acc.p /\ k = acc.k
    OBVIOUS
  <1>4. p \in Digits(D) /\ k \in 0 .. b - 1
    BY <1>1, <1>3 DEF RowState
  <1>5. PICK xi \in 0 .. b - 1, yj \in 0 .. b - 1 : xi = Digit(x, i) /\ yj = Digit(y, j)
    BY <1>1, DigitWord
  <1>6. PICK e \in 0 .. b - 1 : e = p[h]
    BY <1>1, <1>2, <1>4 DEF Digits
  <1>7. PICK t : t = Add128(Add128(Umul64(xi, yj), e), k)
    OBVIOUS
  <1>8. PICK lo \in 0 .. b - 1, hi \in 0 .. b - 1 :
           lo = LoHalf(2, t) /\ hi = HiHalf(2, t) /\ xi * yj + e + k = hi * b + lo
    <2>1. RowDigitIs(b, xi, yj, e, k, t)
      BY <1>1, <1>4, <1>7, RowDigit, Zenon
    <2> QED
      BY <2>1 DEF RowDigitIs
  <1>9. PICK s : s = [p EXCEPT ![h] = lo]
    OBVIOUS
  <1>10. RowNext(x, y, j, acc, i) = [p |-> s, k |-> hi]
    BY <1>2, <1>3, <1>5, <1>6, <1>7, <1>8, <1>9 DEF RowNext
  <1>11. s \in Digits(D) /\ DigitChanges(D, p, h, lo)
    <2>1. lo \in 0 .. Beta - 1
      BY <1>1
    <2> QED
      BY <1>4, <1>9, <2>1, DigitChanged
  <1>12. \A m \in 0 .. D - 1 : m # h => s[m] = p[m]
    BY <1>4, <1>9 DEF Digits
  <1>13. PICK q \in Nat, c \in Nat, N \in Nat : q = Size(i) /\ c = Size(j) /\ N = Size(h) /\ N = q * c /\ q > 0
    <2>1. Size(i + j) = Size(i) * Size(j)
      BY SizeFacts
    <2> QED
      BY <1>2, <2>1, SizeNat
  <1>14. PICK r \in Nat : r = x % Size(i) /\ x % Size(i + 1) = xi * q + r
    <2>1. /\ x % Size(i) \in 0 .. Size(i) - 1
          /\ x % Size(i + 1) = Digit(x, i) * Size(i) + (x % Size(i))
      BY DigitStep
    <2> QED
      BY <1>5, <1>13, <2>1
  <1>15. PICK f0 \in Nat, f \in Nat, g \in Nat :
            f0 = FromWords(D, p0) /\ f = FromWords(D, p) /\ g = FromWords(D, s)
    BY <1>4, <1>11, FromWordsInt
  <1>16. MovedTo(N, b, f0, g, c, xi, q, r, yj, hi)
    <2>1. g = f + (lo - e) * N
      BY <1>6, <1>9, <1>11, <1>13, <1>15 DEF DigitChanges
    <2>2. f + k * N = f0 + r * (yj * c)
      BY <1>2, <1>3, <1>5, <1>13, <1>14, <1>15 DEF Row
    <2>3. Moved(N, b, f0, f, g, c, e, k, xi, q, r, yj, lo, hi)
      BY <1>8, <1>13, <2>1, <2>2 DEF Moved
    <2>4. /\ N \in Int /\ b \in Int /\ f0 \in Int /\ f \in Int /\ g \in Int /\ c \in Int /\ e \in Int
          /\ k \in Int /\ xi \in Int /\ q \in Int /\ r \in Int /\ yj \in Int /\ lo \in Int /\ hi \in Int
      BY <1>4
    <2> QED
      BY ONLY <2>3, <2>4, RowArithmetic, Zenon
  <1>17. Size(h + 1) = b * N
    BY <1>1, <1>2, <1>13, SizeNext
  <1>18. RowNext(x, y, j, acc, i) \in RowState(D)
    BY <1>1, <1>10, <1>11 DEF RowState
  <1>19. FromWords(D, s) + hi * Size(i + 1 + j) = FromWords(D, p0) + (x % Size(i + 1)) * (Digit(y, j) * Size(j))
    <2>1. i + 1 + j = h + 1
      BY <1>2
    <2>2. g + hi * (b * N) = f0 + (xi * q + r) * (yj * c)
      BY <1>16 DEF MovedTo
    <2> QED
      BY <1>5, <1>13, <1>14, <1>15, <1>17, <2>1, <2>2
  <1>20. \A m \in 0 .. D - 1 : m >= i + 1 + j => s[m] = p0[m]
    <2>1. \A m \in 0 .. D - 1 : m >= i + j => p[m] = p0[m]
      BY <1>3 DEF Row
    <2> QED
      BY <1>2, <1>12, <2>1
  <1> QED
    BY <1>10, <1>18, <1>19, <1>20 DEF Row

\* A whole row of n digits.
LEMMA RowRight ==
    ASSUME NEW w \in Nat, NEW n \in 0 .. w, NEW D \in Nat, NEW x \in Nat, NEW y \in Nat, NEW j \in Nat, n + j <= D,
           NEW p0 \in Digits(D),
           NEW acc, acc = Upto(RowLoop(w, D, x, y, j), [p |-> p0, k |-> 0], n)
    PROVE  acc \in RowState(D) /\ Row(D, x, y, j, p0, acc, n)
  <1> DEFINE S == RowState(D)
             Good(a, i) == Row(D, x, y, j, p0, a, i)
             step == RowLoop(w, D, x, y, j)
             base == [p |-> p0, k |-> 0]
             G == [i \in Nat |-> {a \in S : Good(a, i)}]
  <1>1. base \in S
    <2>1. 0 \in 0 .. Beta - 1
      BY HalfSizes
    <2> QED
      BY <2>1 DEF RowState
  <1>2. Good(base, 0)
    <2>1. PICK f \in Nat : f = FromWords(D, p0)
      BY FromWordsInt
    <2>2. PICK c \in Nat : c = Digit(y, j) * Size(j)
      <3>1. Digit(y, j) \in Nat /\ Size(j) \in Nat
        <4>1. Beta \in Nat
          BY HalfSizes
        <4> QED
          BY <4>1, DigitWord, SizeNat
      <3> QED
        BY <3>1, ProductOfNaturals
    <2>3. x % Size(0) = 0 /\ 0 * c = 0 /\ 0 * Size(0 + j) = 0
      BY DigitsFirstLast, SizeNat
    <2>4. f + 0 * Size(0 + j) = f + (x % Size(0)) * c
      BY <2>3
    <2> QED
      BY <2>1, <2>2, <2>4 DEF Row
  <1>3. base \in G[0]
    <2> HIDE DEF S, Good, base
    <2> QED
      BY <1>1, <1>2
  <1>4. UptoStep(step, G, n)
    <2> HIDE DEF Good
    <2>1. ASSUME NEW i \in 0 .. n - 1, NEW a \in G[i] PROVE step[i][a] \in G[i + 1]
      <3>1. i \in Nat /\ i + 1 \in Nat /\ i + j < D /\ i \in 0 .. w - 1
        OBVIOUS
      <3>2. a \in S /\ Good(a, i)
        BY <3>1
      <3>3. step[i][a] = RowNext(x, y, j, a, i)
        BY <3>1, <3>2 DEF RowLoop
      <3>4. RowNext(x, y, j, a, i) \in S /\ Good(RowNext(x, y, j, a, i), i + 1)
        BY <3>1, <3>2, RowStep DEF Good
      <3> HIDE DEF step, S
      <3> QED
        BY <3>1, <3>3, <3>4
    <2> HIDE DEF step, G
    <2> QED
      BY <2>1 DEF UptoStep
  <1>5. Upto(step, base, n) \in G[n]
    <2> HIDE DEF step, G, base
    <2> QED
      BY <1>3, <1>4, UptoKeeps, n \in Nat
  <1> HIDE DEF step, base
  <1>6. acc \in S /\ Good(acc, n)
    <2>1. acc = Upto(step, base, n)
      BY DEF step, base
    <2> HIDE DEF S, Good
    <2> QED
      BY <1>5, <2>1, n \in Nat
  <1> QED
    BY <1>6

\* The outer loop of umul_loop: rows below j have been added.
UmulNext(w, x, y, p, j) ==
    LET acc == Upto(RowLoop(w, 2 * w, x, y, j), [p |-> p, k |-> 0], w)
    IN  [acc.p EXCEPT ![j + w] = acc.k]
UmulRows(w, x, y, p, j) ==
    /\ FromWords(2 * w, p) = x * (y % Size(j))
    /\ \A m \in 0 .. 2 * w - 1 : m >= j + w => p[m] = 0

LEMMA UmulRow ==
    ASSUME NEW w \in Nat, NEW x \in Word(w), NEW y \in Nat, NEW j \in 0 .. w - 1,
           NEW p \in Digits(2 * w), UmulRows(w, x, y, p, j)
    PROVE  UmulNext(w, x, y, p, j) \in Digits(2 * w) /\ UmulRows(w, x, y, UmulNext(w, x, y, p, j), j + 1)
  <1>1. PICK D \in Nat : D = 2 * w
    OBVIOUS
  <1>2. PICK h \in 0 .. D - 1 : h = j + w /\ h = w + j
    BY <1>1
  <1>3. PICK acc : acc = Upto(RowLoop(w, D, x, y, j), [p |-> p, k |-> 0], w)
    OBVIOUS
  <1>4. x \in Nat /\ x % Size(w) = x
    BY DigitsFirstLast
  <1>5. acc \in RowState(D) /\ Row(D, x, y, j, p, acc, w)
    <2>1. w \in 0 .. w /\ w + j <= D /\ j \in Nat /\ p \in Digits(D)
      BY <1>1
    <2> QED
      BY <1>3, <1>4, <2>1, RowRight
  <1>6. PICK q, k : q = acc.p /\ k = acc.k
    OBVIOUS
  <1>7. q \in Digits(D) /\ k \in 0 .. Beta - 1
    BY <1>5, <1>6 DEF RowState
  <1>8. PICK s : s = [q EXCEPT ![h] = k]
    OBVIOUS
  <1>9. s = UmulNext(w, x, y, p, j)
    BY <1>1, <1>2, <1>3, <1>6, <1>8 DEF UmulNext
  <1>10. s \in Digits(D) /\ DigitChanges(D, q, h, k)
    BY <1>7, <1>8, DigitChanged
  <1>11. \A m \in 0 .. D - 1 : m >= h => q[m] = 0
    <2>1. \A m \in 0 .. D - 1 : m >= w + j => q[m] = p[m]
      BY <1>5, <1>6 DEF Row
    <2>2. \A m \in 0 .. D - 1 : m >= j + w => p[m] = 0
      BY <1>1 DEF UmulRows
    <2> QED
      BY <1>2, <2>1, <2>2
  <1>12. PICK r \in Nat, d \in Nat, c \in Nat :
            r = y % Size(j) /\ d = Digit(y, j) /\ c = Size(j) /\ y % Size(j + 1) = d * c + r
    <2>1. j \in Nat
      OBVIOUS
    <2>2. Size(j) \in Nat /\ Beta \in Nat
      BY <2>1, SizeNat, HalfSizes
    <2>3. /\ Digit(y, j) \in 0 .. Beta - 1 /\ y % Size(j) \in 0 .. Size(j) - 1
          /\ y % Size(j + 1) = Digit(y, j) * Size(j) + (y % Size(j))
      BY <2>1, DigitStep
    <2>4. Digit(y, j) \in Nat /\ y % Size(j) \in Nat
      BY <2>2, <2>3
    <2> QED
      BY <2>2, <2>3, <2>4, Zenon
  <1>13. PICK N \in Nat, e \in Nat : N = Size(h) /\ e = k
    <2>1. Beta \in Nat
      BY HalfSizes
    <2> QED
      BY <1>7, <2>1, SizeNat
  <1>14. PICK f \in Int, g \in Int : f = FromWords(D, q) /\ g = FromWords(D, s)
    BY <1>7, <1>10, FromWordsInt
  <1>15. f + e * N = x * r + x * (d * c)
    BY <1>1, <1>2, <1>4, <1>5, <1>6, <1>12, <1>13, <1>14 DEF Row, UmulRows
  <1>16. g = f + (e - 0) * N
    BY <1>8, <1>10, <1>11, <1>13, <1>14 DEF DigitChanges
  <1>17. FromWords(D, s) = x * (y % Size(j + 1))
    <2>1. x * (d * c + r) = x * r + x * (d * c)
      BY <1>4
    <2>2. (e - 0) * N = e * N
      OBVIOUS
    <2>3. g = x * (d * c + r)
      BY <1>15, <1>16, <2>1, <2>2
    <2> QED
      BY <1>12, <1>14, <2>3
  <1>18. \A m \in 0 .. D - 1 : m >= j + 1 + w => s[m] = 0
    <2>1. \A m \in 0 .. D - 1 : m # h => s[m] = q[m]
      BY <1>7, <1>8 DEF Digits
    <2> QED
      BY <1>2, <1>11, <2>1
  <1> QED
    BY <1>1, <1>9, <1>10, <1>17, <1>18 DEF UmulRows

LEMMA UmulLoopRight == \A w \in Nat : \A x, y \in Word(w) : UmulLoop(w, x, y) = x * y
  <1> TAKE w \in Nat
  <1> TAKE x \in Word(w), y \in Word(w)
  <1> DEFINE S == Digits(2 * w)
             Good(p, j) == UmulRows(w, x, y, p, j)
             step == [j \in 0 .. w - 1 |-> [p \in S |-> UmulNext(w, x, y, p, j)]]
             base == AsWords(2 * w, 0)
             G == [j \in Nat |-> {p \in S : Good(p, j)}]
  <1>1. x \in Nat /\ y \in Nat /\ y % Size(w) = y /\ y % Size(0) = 0
    BY DigitsFirstLast
  <1>2. UmulLoop(w, x, y) = FromWords(2 * w, Upto(step, base, w))
    BY DEF UmulLoop, UmulNext, RowLoop, RowNext, RowState
  <1>3. base \in S /\ Good(base, 0)
    <2>1. 2 * w \in Nat /\ x * 0 = 0
      BY <1>1
    <2>2. /\ base \in Digits(2 * w) /\ FromWords(2 * w, base) = 0
          /\ \A i \in 0 .. 2 * w - 1 : base[i] = 0
      BY <2>1, NoDigits
    <2> HIDE DEF base
    <2> QED
      BY <1>1, <2>1, <2>2 DEF UmulRows
  <1>4. base \in G[0]
    <2> HIDE DEF S, Good, base
    <2> QED
      BY <1>3
  <1>5. UptoStep(step, G, w)
    <2> HIDE DEF Good
    <2>1. ASSUME NEW j \in 0 .. w - 1, NEW p \in G[j] PROVE step[j][p] \in G[j + 1]
      <3>1. j \in Nat /\ j + 1 \in Nat
        OBVIOUS
      <3>2. p \in S /\ Good(p, j)
        BY <3>1
      <3>3. step[j][p] = UmulNext(w, x, y, p, j)
        BY <3>2
      <3>4. UmulNext(w, x, y, p, j) \in S /\ Good(UmulNext(w, x, y, p, j), j + 1)
        BY <1>1, <3>2, UmulRow DEF Good
      <3> HIDE DEF step, S
      <3> QED
        BY <3>1, <3>3, <3>4
    <2> HIDE DEF step, G
    <2> QED
      BY <2>1 DEF UptoStep
  <1>6. Upto(step, base, w) \in G[w]
    <2> HIDE DEF step, G, base
    <2> QED
      BY <1>4, <1>5, UptoKeeps
  <1>7. FromWords(2 * w, Upto(step, base, w)) = x * (y % Size(w))
    <2> HIDE DEF step, base
    <2> QED
      BY <1>6 DEF UmulRows
  <1> HIDE DEF step, base
  <1> QED
    BY <1>1, <1>2, <1>7

\* The outer loop of mul_loop_opt: what is above w digits is dropped, and the
\* last digit of a row is added without a carry.
MulNext(w, x, y, p, j) ==
    LET acc == Upto(RowLoop(w, w, x, y, j), [p |-> p, k |-> 0], w - j - 1)
    IN  [acc.p EXCEPT ![w - 1] = U(1, acc.p[w - 1] + Digit(x, w - j - 1) * Digit(y, j) + acc.k)]
MulRows(w, x, y, p, j) == \E c \in Int : x * (y % Size(j)) = FromWords(w, p) + c * Size(w)

\* The arithmetic of one row: M and N are Size(w - 1) and Size(w), x is hx * a + l
\* with l its lowest digits, and s = qb * b + v the sum that the last digit wraps.
Wrapped(x, hx, a, l, dx, lx, n, c, M, N, b, r, d, f0, f, g, e, k, qb, v, z) ==
    /\ x = hx * a + l /\ l = dx * n + lx /\ a * c = N /\ n * c = M /\ N = b * M
    /\ f + k * M = f0 + lx * (d * c)
    /\ e + dx * d + k = qb * b + v
    /\ g = f + (v - e) * M
    /\ x * r = f0 + z * N
WrappedTo(x, hx, c, N, r, d, g, qb, z) == x * (d * c + r) = g + (z + hx * d + qb) * N

LEMMA WrappedRow ==
    ASSUME NEW x \in Int, NEW hx \in Int, NEW a \in Int, NEW l \in Int, NEW dx \in Int, NEW lx \in Int,
           NEW n \in Int, NEW c \in Int, NEW M \in Int, NEW N \in Int, NEW b \in Int, NEW r \in Int,
           NEW d \in Int, NEW f0 \in Int, NEW f \in Int, NEW g \in Int, NEW e \in Int, NEW k \in Int,
           NEW qb \in Int, NEW v \in Int, NEW z \in Int,
           Wrapped(x, hx, a, l, dx, lx, n, c, M, N, b, r, d, f0, f, g, e, k, qb, v, z)
    PROVE  WrappedTo(x, hx, c, N, r, d, g, qb, z)
  <1>1. /\ x = hx * a + l /\ l = dx * n + lx /\ a * c = N /\ n * c = M /\ N = b * M
        /\ f + k * M = f0 + lx * (d * c)
        /\ e + dx * d + k = qb * b + v
        /\ g = f + (v - e) * M
        /\ x * r = f0 + z * N
    BY DEF Wrapped
  <1>2. x * (d * c + r) = x * (d * c) + x * r
    OBVIOUS
  <1>3. x * (d * c) = hx * (a * (d * c)) + l * (d * c)
    <2>1. (hx * a + l) * (d * c) = hx * (a * (d * c)) + l * (d * c)
      OBVIOUS
    <2> QED
      BY <1>1, <2>1
  <1>4. hx * (a * (d * c)) = (hx * d) * N
    <2>1. hx * (a * (d * c)) = (hx * d) * (a * c)
      OBVIOUS
    <2> QED
      BY <1>1, <2>1
  <1>5. l * (d * c) = (dx * d) * M + lx * (d * c)
    <2>1. (dx * n + lx) * (d * c) = (dx * d) * (n * c) + lx * (d * c)
      OBVIOUS
    <2> QED
      BY <1>1, <2>1
  <1>6. PICK dd \in Int : dd = dx * d
    OBVIOUS
  <1>7. (v - e) * M = dd * M + k * M - qb * N
    <2>1. PICK bb \in Int : bb = qb * b
      OBVIOUS
    <2>2. v - e = dd + k - bb
      BY <1>1, <1>6, <2>1
    <2>3. (dd + k - bb) * M = dd * M + k * M - bb * M
      OBVIOUS
    <2>4. bb * M = qb * N
      BY <1>1, <2>1
    <2> QED
      BY <2>2, <2>3, <2>4
  <1>8. (z + hx * d + qb) * N = z * N + (hx * d) * N + qb * N
    OBVIOUS
  <1>9. PICK t1 \in Int, t2 \in Int, t3 \in Int, t4 \in Int, t5 \in Int, t6 \in Int :
           /\ t1 = (hx * d) * N /\ t2 = dd * M /\ t3 = lx * (d * c) /\ t4 = k * M /\ t5 = qb * N /\ t6 = z * N
    OBVIOUS
  <1>10. PICK m \in Int : m = (v - e) * M
    OBVIOUS
  <1>11. f + t4 = f0 + t3 /\ m = t2 + t4 - t5 /\ g = f + m
    BY <1>1, <1>7, <1>9, <1>10
  <1>12. x * (d * c + r) = t1 + (t2 + t3) + (f0 + t6)
    BY <1>1, <1>2, <1>3, <1>4, <1>5, <1>6, <1>9
  <1>13. t1 + (t2 + t3) + (f0 + t6) = g + (t6 + t1 + t5)
    BY ONLY <1>9, <1>10, <1>11, f \in Int, f0 \in Int, g \in Int
  <1>14. (z + hx * d + qb) * N = t6 + t1 + t5
    BY <1>8, <1>9
  <1> QED
    BY <1>12, <1>13, <1>14 DEF WrappedTo

LEMMA MulRow ==
    ASSUME NEW w \in Nat, NEW x \in Word(w), NEW y \in Nat, NEW j \in 0 .. w - 1,
           NEW p \in Digits(w), MulRows(w, x, y, p, j)
    PROVE  MulNext(w, x, y, p, j) \in Digits(w) /\ MulRows(w, x, y, MulNext(w, x, y, p, j), j + 1)
  <1>1. PICK h \in 0 .. w - 1 : h = w - 1 /\ h + 1 = w
    OBVIOUS
  <1>2. PICK i \in Nat : i = w - j - 1 /\ i \in 0 .. w /\ i + j = h /\ i + j <= w /\ i + 1 + j = w
    BY <1>1
  <1>3. PICK acc : acc = Upto(RowLoop(w, w, x, y, j), [p |-> p, k |-> 0], i)
    OBVIOUS
  <1>4. x \in Nat /\ j \in Nat
    BY DigitsFirstLast
  <1>5. acc \in RowState(w) /\ Row(w, x, y, j, p, acc, i)
    BY <1>2, <1>3, <1>4, RowRight
  <1>6. PICK q, kk : q = acc.p /\ kk = acc.k
    OBVIOUS
  <1>7. PICK b \in Nat : b = Beta /\ b > 0
    BY HalfSizes
  <1>8. q \in Digits(w) /\ kk \in 0 .. b - 1
    BY <1>5, <1>6, <1>7 DEF RowState
  <1>9. PICK k \in Int, e \in Int : k = kk /\ e = q[h]
    BY <1>1, <1>7, <1>8 DEF Digits
  <1>10. PICK dx \in Nat, lx \in Nat, n \in Nat :
            dx = Digit(x, i) /\ lx = x % Size(i) /\ n = Size(i) /\ x % Size(i + 1) = dx * n + lx
    <2>1. Size(i) \in Nat
      BY SizeNat
    <2>2. /\ Digit(x, i) \in 0 .. Beta - 1 /\ x % Size(i) \in 0 .. Size(i) - 1
          /\ x % Size(i + 1) = Digit(x, i) * Size(i) + (x % Size(i))
      BY <1>4, DigitStep
    <2>3. Digit(x, i) \in Nat /\ x % Size(i) \in Nat
      BY <1>7, <2>1, <2>2
    <2> QED
      BY <2>1, <2>2, <2>3, Zenon
  <1>11. PICK d \in Nat, r \in Nat, c \in Nat :
            d = Digit(y, j) /\ r = y % Size(j) /\ c = Size(j) /\ y % Size(j + 1) = d * c + r
    <2>1. Size(j) \in Nat
      BY <1>4, SizeNat
    <2>2. /\ Digit(y, j) \in 0 .. Beta - 1 /\ y % Size(j) \in 0 .. Size(j) - 1
          /\ y % Size(j + 1) = Digit(y, j) * Size(j) + (y % Size(j))
      BY <1>4, DigitStep
    <2>3. Digit(y, j) \in Nat /\ y % Size(j) \in Nat
      BY <1>7, <2>1, <2>2
    <2> QED
      BY <2>1, <2>2, <2>3, Zenon
  <1>12. PICK a \in Nat, M \in Nat, N \in Nat :
            /\ a = Size(i + 1) /\ a > 0 /\ M = Size(h) /\ N = Size(w) /\ a * c = N /\ n * c = M /\ N = b * M
    <2>1. Size(i + 1 + j) = Size(i + 1) * Size(j) /\ Size(i + j) = Size(i) * Size(j)
      <3>1. i + 1 \in Nat
        OBVIOUS
      <3>2. \A m1, m2 \in Nat : Size(m1 + m2) = Size(m1) * Size(m2)
        BY SizeFacts
      <3> QED
        BY <1>4, <3>1, <3>2, Zenon
    <2>2. Size(h + 1) = Beta * Size(h)
      BY SizeNext
    <2>3. Size(i + 1) \in Nat /\ Size(i + 1) > 0 /\ Size(h) \in Nat /\ Size(w) \in Nat
      BY SizeNat
    <2> QED
      BY <1>1, <1>2, <1>7, <1>10, <1>11, <2>1, <2>2, <2>3
  <1>13. PICK hx \in Nat, l \in Nat : l = x % Size(i + 1) /\ x = hx * a + l
    <2>1. x \div a \in Nat /\ x % a \in 0 .. a - 1 /\ x = (x \div a) * a + (x % a)
      BY <1>4, <1>12, QuotNat
    <2> QED
      BY <1>12, <2>1
  <1>14. PICK t \in Int : t = e + dx * d + k
    BY <1>9
  <1>15. PICK qb \in Int, v \in 0 .. b - 1 : v = U(1, t) /\ t = qb * b + v
    <2>1. U(1, t) \in 0 .. b - 1 /\ U(1, t) = t % b
      BY <1>7, KeptWord
    <2>2. t \div b \in Int /\ t = (t \div b) * b + (t % b)
      BY <1>7, QuotRem
    <2> QED
      BY <2>1, <2>2
  <1>16. PICK s : s = [q EXCEPT ![h] = v]
    OBVIOUS
  <1>17. s = MulNext(w, x, y, p, j)
    <2>1. w - j - 1 = i /\ w - 1 = h
      BY <1>1, <1>2
    <2>2. v = U(1, q[h] + dx * d + kk)
      BY <1>9, <1>14, <1>15
    <2>3. MulNext(w, x, y, p, j) = [acc.p EXCEPT ![w - 1] = U(1, acc.p[w - 1] + Digit(x, w - j - 1) * Digit(y, j) + acc.k)]
      BY <1>3, <2>1 DEF MulNext
    <2> QED
      BY <1>6, <1>10, <1>11, <1>16, <2>1, <2>2, <2>3
  <1>18. s \in Digits(w) /\ DigitChanges(w, q, h, v)
    BY <1>7, <1>8, <1>16, DigitChanged
  <1>19. PICK f0 \in Int, f \in Int, g \in Int :
            f0 = FromWords(w, p) /\ f = FromWords(w, q) /\ g = FromWords(w, s)
    BY <1>8, <1>18, FromWordsInt
  <1>20. PICK z \in Int : x * r = f0 + z * N
    BY <1>11, <1>12, <1>19 DEF MulRows
  <1>21. e = p[h]
    BY <1>2, <1>5, <1>6, <1>9 DEF Row
  <1>22. f + k * M = f0 + lx * (d * c)
    BY <1>2, <1>5, <1>6, <1>9, <1>10, <1>11, <1>12, <1>19 DEF Row
  <1>23. g = f + (v - e) * M
    BY <1>9, <1>12, <1>16, <1>18, <1>19 DEF DigitChanges
  <1>24. Wrapped(x, hx, a, l, dx, lx, n, c, M, N, b, r, d, f0, f, g, e, k, qb, v, z)
    <2>1. l = dx * n + lx
      BY <1>10, <1>13
    <2>2. e + dx * d + k = qb * b + v
      BY <1>14, <1>15
    <2> QED
      BY <1>12, <1>13, <1>20, <1>22, <1>23, <2>1, <2>2, Zenon DEF Wrapped
  <1>25. WrappedTo(x, hx, c, N, r, d, g, qb, z)
    <2>1. /\ x \in Int /\ hx \in Int /\ a \in Int /\ l \in Int /\ dx \in Int /\ lx \in Int /\ n \in Int
          /\ c \in Int /\ M \in Int /\ N \in Int /\ b \in Int /\ r \in Int /\ d \in Int /\ v \in Int
      BY <1>4
    <2> QED
      BY <1>24, <2>1, WrappedRow, Zenon
  <1>26. x * (y % Size(j + 1)) = FromWords(w, s) + (z + hx * d + qb) * Size(w)
    BY <1>11, <1>12, <1>19, <1>25 DEF WrappedTo
  <1>27. z + hx * d + qb \in Int
    OBVIOUS
  <1> QED
    BY <1>17, <1>18, <1>26, <1>27, Zenon DEF MulRows

LEMMA MulLoopOptRight == \A w \in Nat : \A x, y \in Word(w) : MulLoopOpt(w, x, y) = (x * y) % Size(w)
  <1> TAKE w \in Nat
  <1> TAKE x \in Word(w), y \in Word(w)
  <1> DEFINE S == Digits(w)
             Good(p, j) == MulRows(w, x, y, p, j)
             step == [j \in 0 .. w - 1 |-> [p \in S |-> MulNext(w, x, y, p, j)]]
             base == AsWords(w, 0)
             G == [j \in Nat |-> {p \in S : Good(p, j)}]
  <1>1. x \in Nat /\ y \in Nat /\ y % Size(w) = y /\ y % Size(0) = 0
    BY DigitsFirstLast
  <1>2. MulLoopOpt(w, x, y) = FromWords(w, Upto(step, base, w))
    BY DEF MulLoopOpt, MulNext, RowLoop, RowNext, RowState
  <1>3. base \in S /\ Good(base, 0)
    <2>1. base \in Digits(w) /\ FromWords(w, base) = 0
      BY NoDigits
    <2>2. x * 0 = 0 + 0 * Size(w)
      BY <1>1, SizeNat
    <2> HIDE DEF base
    <2> QED
      BY <1>1, <2>1, <2>2 DEF MulRows
  <1>4. base \in G[0]
    <2> HIDE DEF S, Good, base
    <2> QED
      BY <1>3
  <1>5. UptoStep(step, G, w)
    <2> HIDE DEF Good
    <2>1. ASSUME NEW j \in 0 .. w - 1, NEW p \in G[j] PROVE step[j][p] \in G[j + 1]
      <3>1. j \in Nat /\ j + 1 \in Nat
        OBVIOUS
      <3>2. p \in S /\ Good(p, j)
        BY <3>1
      <3>3. step[j][p] = MulNext(w, x, y, p, j)
        BY <3>2
      <3>4. MulNext(w, x, y, p, j) \in S /\ Good(MulNext(w, x, y, p, j), j + 1)
        BY <1>1, <3>2, MulRow DEF Good
      <3> HIDE DEF step, S
      <3> QED
        BY <3>1, <3>3, <3>4
    <2> HIDE DEF step, G
    <2> QED
      BY <2>1 DEF UptoStep
  <1>6. PICK p \in Digits(w) : p = Upto(step, base, w) /\ MulRows(w, x, y, p, w)
    <2>1. Upto(step, base, w) \in G[w]
      <3> HIDE DEF step, G, base
      <3> QED
        BY <1>4, <1>5, UptoKeeps
    <2> HIDE DEF step, base
    <2> QED
      BY <2>1
  <1>7. PICK c \in Int : x * y = FromWords(w, p) + c * Size(w)
    BY <1>1, <1>6 DEF MulRows
  <1>11. PICK N \in Nat : N = Size(w)
    BY SizeNat
  <1>8. PICK f \in 0 .. N - 1 : N = Size(w) /\ f = FromWords(w, p)
    BY <1>11, FromWordsInt DEF Word
  <1>9. (c * N + f) % N = f
    BY <1>8, QuotRemUnique
  <1>10. x * y = c * N + f
    BY <1>7, <1>8
  <1> HIDE DEF step, base
  <1> QED
    BY <1>2, <1>6, <1>8, <1>9, <1>10

-----------------------------------------------------------------------------
(* The opcodes MUL and EXP over the stack *)

\* What ProductsRight says of one operation, its arguments and its result.
Produced(op, x, y, r) ==
    /\ op = "MUL" => /\ r = (x * y) % Size(4)
                     /\ r = MulLoopOpt(4, x, y)
                     /\ Umul256(x, y) = x * y /\ UmulLoop(4, x, y) = x * y
    /\ op = "EXP" => r = Power(x, y)

LEMMA ProducedOps ==
    ASSUME NEW x \in Word(4), NEW y \in Word(4)
    PROVE  /\ Produced("MUL", x, y, Mul256(x, y))
           /\ Produced("EXP", x, y, Exp(x, y))
           /\ \A op, r : op \notin {"MUL", "EXP"} => Produced(op, x, y, r)
  <1>1. Produced("MUL", x, y, Mul256(x, y))
    <2>1. Mul256(x, y) = (x * y) % Size(4)
      BY Mul256Right
    <2>2. MulLoopOpt(4, x, y) = (x * y) % Size(4)
      BY MulLoopOptRight, 4 \in Nat
    <2>3. Umul256(x, y) = x * y
      BY Umul256Right
    <2>4. UmulLoop(4, x, y) = x * y
      BY UmulLoopRight, 4 \in Nat
    <2> QED
      BY <2>1, <2>2, <2>3, <2>4, Zenon DEF Produced
  <1>2. Produced("EXP", x, y, Exp(x, y))
    <2>1. PICK N \in Nat : N = Size(4) /\ N > 1
      BY HalfSizes
    <2>2. x \in 0 .. N - 1
      BY <2>1 DEF Word
    <2>3. PICK p \in [0 .. N -> 0 .. N - 1] : Powers(p, x, N)
      BY <2>1, <2>2, PowersExist
    <2>4. p \in [0 .. Size(4) -> Word(4)] /\ Powers(p, x, Size(4))
      BY <2>1, <2>3 DEF Word
    <2>5. Exp(x, y) = p[y] /\ Power(x, y) = p[y]
      BY <2>4, ExpRight, PowerRight
    <2> QED
      BY <2>5 DEF Produced
  <1>3. \A op, r : op \notin {"MUL", "EXP"} => Produced(op, x, y, r)
    BY DEF Produced
  <1> QED
    BY <1>1, <1>2, <1>3

ProductsInv == WordsOnStack /\ ProductsRight

LEMMA ProductsAsAsked == ProductsRight <=> Produced(last.op, last.a[1], last.a[2], last.result)
  <1>1. (Asked({"MUL"}) <=> last.op = "MUL") /\ (Asked({"EXP"}) <=> last.op = "EXP")
    BY DEF Asked
  <1> QED
    BY <1>1, Zenon DEF ProductsRight, Produced, A, C

LEMMA ProductsAsAskedNext ==
    ProductsRight' <=> Produced(last.op, last.a[1], last.a[2], last.result)'
  BY ProductsAsAsked, PTL

LEMMA ProductStep ==
    ASSUME NEW n \in {2, 3}, NEW op, op # "none", NEW r, ProductsInv, Pop(n, op, r),
           \A x, y \in Word(4) : x = X /\ y = Y => Produced(op, x, y, r)
    PROVE  ProductsInv'
  <1>1. /\ X \in Word(4) /\ Y \in Word(4)
        /\ last'.op = op /\ last'.a[1] = X /\ last'.a[2] = Y /\ last'.result = r
    BY Popped DEF ProductsInv
  <1>2. Produced(op, X, Y, r)
    BY <1>1
  <1>3. ProductsRight' <=> Produced(last'.op, last'.a[1], last'.a[2], last'.result)
    BY ProductsAsAskedNext
  <1> QED
    BY <1>1, <1>2, <1>3 DEF ProductsInv, WordsOnStack

LEMMA OtherProductStep ==
    ASSUME NEW n \in {2, 3}, NEW op, op \notin {"none", "MUL", "EXP"}, NEW r, ProductsInv, Pop(n, op, r)
    PROVE  ProductsInv'
  <1>1. \A x, y \in Word(4) : Produced(op, x, y, r)
    BY ProducedOps
  <1>2. op # "none"
    OBVIOUS
  <1> QED
    BY <1>1, <1>2, ProductStep

LEMMA ProductsStep ==
    ASSUME ProductsInv, [Next]_vars
    PROVE  ProductsInv'
  <1>1. ASSUME MUL PROVE ProductsInv'
    <2>1. \A x, y \in Word(4) : x = X /\ y = Y => Produced("MUL", x, y, Mul256(X, Y))
      BY ProducedOps, Zenon
    <2>2. Pop(2, "MUL", Mul256(X, Y)) /\ "MUL" # "none" /\ 2 \in {2, 3}
      BY <1>1 DEF MUL
    <2> QED
      BY <2>1, <2>2, ProductStep
  <1>2. ASSUME EXP PROVE ProductsInv'
    <2>1. \A x, y \in Word(4) : x = X /\ y = Y => Produced("EXP", x, y, Exp(X, Y))
      BY ProducedOps, Zenon
    <2>2. Pop(2, "EXP", Exp(X, Y)) /\ "EXP" # "none" /\ 2 \in {2, 3}
      BY <1>2 DEF EXP
    <2> QED
      BY <2>1, <2>2, ProductStep
  <1>3. ASSUME ADD \/ SUB \/ DIV \/ MOD \/ SDIV \/ SMOD PROVE ProductsInv'
    BY <1>3, OtherProductStep DEF ADD, SUB, DIV, MOD, SDIV, SMOD
  <1>4. ASSUME LT \/ GT \/ SLT \/ SGT \/ BYTE PROVE ProductsInv'
    BY <1>4, OtherProductStep DEF LT, GT, SLT, SGT, BYTE
  <1>5. ASSUME SHL \/ SHR \/ SAR \/ SIGNEXTEND PROVE ProductsInv'
    BY <1>5, OtherProductStep DEF SHL, SHR, SAR, SIGNEXTEND
  <1>6. ASSUME ADDMOD \/ MULMOD PROVE ProductsInv'
    BY <1>6, OtherProductStep DEF ADDMOD, MULMOD
  <1>7. ASSUME UNCHANGED vars PROVE ProductsInv'
    BY <1>7, ProductsAsAsked, ProductsAsAskedNext DEF ProductsInv, WordsOnStack, vars
  <1> QED
    BY <1>1, <1>2, <1>3, <1>4, <1>5, <1>6, <1>7 DEF Next

\* A product drops exactly what overflows 256 bits, whichever way it is built,
\* and the power by squaring is the power by one factor after the other, for
\* every width of the machine word: operator * and umul of intx::uint128 and
\* uint256, umul_loop, mul_loop_opt and exp, and the opcodes MUL and EXP.
THEOREM ProductsAreRight == Spec => []ProductsRight
  <1>1. Init => ProductsInv
    <2> SUFFICES ASSUME Init PROVE ProductsInv
      OBVIOUS
    <2>1. Operand \subseteq Word(4) /\ Third \subseteq Word(4)
      BY OperandAssumption DEF Word
    <2>2. stack \in Stacks
      BY <2>1 DEF Init, Stacks
    <2>3. last.op = "none"
      BY DEF Init
    <2>4. Produced(last.op, last.a[1], last.a[2], last.result)
      BY <2>3 DEF Produced
    <2> QED
      BY <2>2, <2>3, <2>4, ProductsAsAsked DEF ProductsInv, WordsOnStack
  <1>2. ProductsInv /\ [Next]_vars => ProductsInv'
    BY ProductsStep
  <1>3. ProductsInv => ProductsRight
    BY DEF ProductsInv
  <1> QED
    BY <1>1, <1>2, <1>3, PTL DEF Spec
=============================================================================
