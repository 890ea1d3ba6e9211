--------------------------- MODULE KeyCodecProofs ---------------------------
(***************************************************************************)
(* Proofs about KeyCodec: base58 decodes what it encoded, for sequences of *)
(* bytes of every length, and neither conversion runs out of room.  Both   *)
(* conversions keep the number that their digits stand for; two sequences  *)
(* of digits without a leading zero that stand for one number are equal.   *)
(***************************************************************************)
EXTENDS KeyCodec, ArithmeticLemmas, SequenceTheorems

----------------------------------------------------------------------------
(* The number that digits stand for.                                       *)

\* The numbers of the beginnings of s in base B, and the number of s.
Numbers(s, B) ==
    CHOOSE v : v = [i \in 0 .. Len(s) |-> IF i = 0 THEN 0 ELSE v[i - 1] * B + s[i]]
Number(s, B) == Numbers(s, B)[Len(s)]

\* The recursion defines them.
LEMMA NumbersAre ==
    ASSUME NEW B \in Nat, NEW s \in Seq(Nat)
    PROVE  /\ Numbers(s, B) \in [0 .. Len(s) -> Nat]
           /\ Numbers(s, B)[0] = 0
           /\ \A i \in 1 .. Len(s) : Numbers(s, B)[i] = Numbers(s, B)[i - 1] * B + s[i]
<1> DEFINE n == Len(s)
           g == [q \in Nat \X Nat |-> IF q[1] \in 1 .. n THEN q[2] * B + s[q[1]] ELSE 0]
<1>0. n \in Nat /\ 0 \in Nat /\ \A i \in 1 .. n : s[i] \in Nat
  OBVIOUS
<1>1. g \in [Nat \X Nat -> Nat]
  <2> SUFFICES ASSUME NEW i \in Nat, NEW x \in Nat, i \in 1 .. n PROVE x * B + s[i] \in Nat
    OBVIOUS
  <2> QED
    BY <1>0
<1>2. \A i \in 0 .. n - 1, x \in Nat : g[<<i + 1, x>>] = x * B + s[i + 1]
  OBVIOUS
<1> HIDE DEF g
<1>3. PICK f \in [0 .. n -> Nat] : Follows(f, 0, g, n)
  BY <1>0, <1>1, RecursionTo
<1> HIDE DEF n
<1>4. ASSUME NEW i \in 0 .. n
      PROVE  f[i] = IF i = 0 THEN 0 ELSE f[i - 1] * B + s[i]
  <2>1. i # 0 => i - 1 \in 0 .. n - 1 /\ i - 1 \in 0 .. n /\ (i - 1) + 1 = i
    BY <1>0
  <2>2. i # 0 => f[i - 1] \in Nat
    BY <1>3, <2>1
  <2> QED
    BY <1>2, <1>3, <2>1, <2>2 DEF Follows
<1>5. f = [i \in 0 .. n |-> IF i = 0 THEN 0 ELSE f[i - 1] * B + s[i]]
  BY <1>4
<1> DEFINE v == Numbers(s, B)
<1>6. v = [i \in 0 .. n |-> IF i = 0 THEN 0 ELSE v[i - 1] * B + s[i]]
  BY <1>5 DEF Numbers, n
<1> HIDE DEF v
<1>7. v[0] = 0 /\ \A i \in 1 .. n : v[i] = v[i - 1] * B + s[i]
  <2>1. 0 \in 0 .. n /\ \A i \in 1 .. n : i \in 0 .. n /\ i # 0
    BY <1>0
  <2> QED
    BY <1>6, <2>1
<1> DEFINE S == {i \in Nat : i <= n => v[i] \in Nat}
<1>8. ASSUME NEW i \in Nat, i \in S
      PROVE  i + 1 \in S
  <2> SUFFICES ASSUME i + 1 <= n PROVE v[i + 1] \in Nat
    OBVIOUS
  <2>1. i + 1 \in 1 .. n /\ (i + 1) - 1 = i /\ v[i] \in Nat
    BY <1>0, <1>8
  <2>2. v[i + 1] = v[i] * B + s[i + 1] /\ s[i + 1] \in Nat
    BY <1>0, <1>7, <2>1
  <2>3. \A x, y \in Nat : x * B + y \in Nat
    OBVIOUS
  <2> QED
    BY <2>1, <2>2, <2>3
<1>9. 0 \in S
  BY <1>7
<1> HIDE DEF S
<1>10. Nat \subseteq S
  BY <1>8, <1>9, Induct
<1>11. \A i \in 0 .. n : v[i] \in Nat
  BY <1>0, <1>10 DEF S
<1>12. v \in [0 .. n -> Nat]
  BY <1>6, <1>11
<1> QED
  BY <1>7, <1>12 DEF v, n

\* Digits stand for a natural number.
LEMMA NumberNat ==
    ASSUME NEW B \in Nat, NEW s \in Seq(Nat)
    PROVE  Number(s, B) \in Nat
<1>1. Numbers(s, B) \in [0 .. Len(s) -> Nat]
  BY NumbersAre
<1>2. Len(s) \in 0 .. Len(s)
  OBVIOUS
<1> QED
  BY ONLY <1>1, <1>2 DEF Number

\* A digit c after a number below y makes one below y * B.
LEMMA DigitBelow ==
    ASSUME NEW B \in Nat \ {0}, NEW x \in Nat, NEW y \in Nat, NEW c \in 0 .. B - 1, x < y
    PROVE  x * B + c < y * B
<1>1. x * B + B = (x + 1) * B /\ x + 1 <= y
  OBVIOUS
<1>2. (x + 1) * B <= y * B
  BY <1>1
<1>3. x * B \in Nat /\ y * B \in Nat
  OBVIOUS
<1> DEFINE p == x * B
           q == y * B
<1>4. p + B <= q /\ p \in Nat /\ q \in Nat
  BY ONLY <1>1, <1>2, <1>3
<1> HIDE DEF p, q
<1>5. p + c < q
  BY <1>4
<1> QED
  BY <1>5 DEF p, q

\* Digits of base B make less than B to the power of their number.
LEMMA NumbersBelow ==
    ASSUME NEW B \in Nat \ {0}, NEW s \in Seq(0 .. B - 1), NEW k \in 0 .. Len(s)
    PROVE  Numbers(s, B)[k] < Pow(B, k)
<1> DEFINE v == Numbers(s, B)
           n == Len(s)
           S == {i \in Nat : i <= n => v[i] < Pow(B, i)}
<1>0. s \in Seq(Nat) /\ n \in Nat
  OBVIOUS
<1>1. /\ v \in [0 .. n -> Nat] /\ v[0] = 0
      /\ \A i \in 1 .. n : v[i] = v[i - 1] * B + s[i]
  BY <1>0, NumbersAre
<1> HIDE DEF v
<1>2. 0 \in S
  BY <1>1, PowDef
<1>3. ASSUME NEW i \in Nat, i \in S
      PROVE  i + 1 \in S
  <2> SUFFICES ASSUME i + 1 <= n PROVE v[i + 1] < Pow(B, i + 1)
    OBVIOUS
  <2>1. i + 1 \in 1 .. n /\ (i + 1) - 1 = i /\ i \in 0 .. n
    BY <1>0
  <2>2. v[i + 1] = v[i] * B + s[i + 1] /\ v[i] \in Nat
    BY ONLY <1>1, <2>1
  <2>3. s[i + 1] \in 0 .. B - 1
    BY <2>1
  <2>4. Pow(B, i + 1) = Pow(B, i) * B /\ Pow(B, i) \in Nat
    BY ONLY B \in Nat \ {0}, i \in Nat, PowDef
  <2>5. v[i] < Pow(B, i)
    BY <1>3, <2>1
  <2>6. v[i] * B + s[i + 1] < Pow(B, i) * B
    BY ONLY B \in Nat \ {0}, <2>2, <2>3, <2>4, <2>5, DigitBelow
  <2> QED
    BY ONLY <2>2, <2>4, <2>6
<1> HIDE DEF S
<1>4. Nat \subseteq S
  BY <1>2, <1>3, Induct
<1> QED
  BY <1>0, <1>4 DEF S, v

----------------------------------------------------------------------------
(* Scaled multiplies and adds.                                             *)

\* c are the carries from the last digit of d on.
AreCarries(c, d, n, x, scale, B) ==
    /\ c \in [0 .. n -> Nat] /\ c[0] = x
    /\ \A i \in 0 .. n - 1 : c[i + 1] = (c[i] + scale * d[n - i]) \div B

\* The loops compute them.
LEMMA CarriesAre ==
    ASSUME NEW B \in Nat \ {0}, NEW d \in Seq(Nat), NEW x \in Nat, NEW scale \in Nat
    PROVE  AreCarries(Carries(d, x, scale, B), d, Len(d), x, scale, B)
<1> DEFINE n == Len(d)
           G(i, y) == (y + scale * d[n + 1 - i]) \div B
           g == [q \in Nat \X Nat |-> IF q[1] \in 1 .. n THEN G(q[1], q[2]) ELSE 0]
<1>0. n \in Nat /\ 0 \in Nat /\ \A i \in 1 .. n : d[i] \in Nat
  OBVIOUS
<1> HIDE DEF n
<1>1. ASSUME NEW i \in 1 .. n, NEW y \in Nat
      PROVE  G(i, y) \in Nat
  <2>1. n + 1 - i \in 1 .. n
    BY <1>0
  <2>2. d[n + 1 - i] \in Nat
    BY <1>0, <2>1
  <2>3. \A z \in Nat : y + scale * z \in Nat
    OBVIOUS
  <2>4. y + scale * d[n + 1 - i] \in Nat
    BY <2>2, <2>3
  <2>5. \A z \in Nat : z \div B \in 0 .. z
    BY DivNat
  <2>6. (y + scale * d[n + 1 - i]) \div B \in 0 .. (y + scale * d[n + 1 - i])
    BY ONLY <2>4, <2>5
  <2> QED
    BY <2>6
<1> HIDE DEF G
<1>2. g \in [Nat \X Nat -> Nat]
  BY <1>1
<1>3. \A i \in 1 .. n, y \in Nat : g[<<i, y>>] = G(i, y)
  BY <1>0
<1> HIDE DEF g
<1>4. PICK f \in [0 .. n -> Nat] : Follows(f, x, g, n)
  BY <1>0, <1>2, RecursionTo
<1>5. ASSUME NEW i \in 0 .. n
      PROVE  f[i] = IF i = 0 THEN x ELSE G(i, f[i - 1])
  <2>1. i # 0 => i - 1 \in 0 .. n - 1 /\ i - 1 \in 0 .. n /\ (i - 1) + 1 = i /\ i \in 1 .. n
    BY <1>0
  <2>2. i # 0 => f[i - 1] \in Nat
    BY <1>4, <2>1
  <2>3. i # 0 => f[i] = g[<<i, f[i - 1]>>]
    BY <1>4, <2>1 DEF Follows
  <2> QED
    BY <1>3, <1>4, <2>1, <2>2, <2>3 DEF Follows
<1>6. f = [i \in 0 .. n |-> IF i = 0 THEN x ELSE G(i, f[i - 1])]
  BY <1>5
<1> DEFINE c == Carries(d, x, scale, B)
<1>7. c = [i \in 0 .. n |-> IF i = 0 THEN x ELSE G(i, c[i - 1])]
  BY <1>6 DEF Carries, G, n
<1> HIDE DEF c
<1>8. c[0] = x
  <2>1. 0 \in 0 .. n
    BY <1>0
  <2> QED
    BY <1>7, <2>1
<1>9. ASSUME NEW i \in 0 .. n - 1
      PROVE  c[i + 1] = (c[i] + scale * d[n - i]) \div B
  <2>1. i + 1 \in 0 .. n /\ i + 1 # 0 /\ (i + 1) - 1 = i /\ n + 1 - (i + 1) = n - i
    BY <1>0
  <2>2. c[i + 1] = G(i + 1, c[i])
    BY <1>7, <2>1
  <2> QED
    BY <2>1, <2>2 DEF G
<1> DEFINE S == {i \in Nat : i <= n => c[i] \in Nat}
<1>10. ASSUME NEW i \in Nat, i \in S
       PROVE  i + 1 \in S
  <2> SUFFICES ASSUME i + 1 <= n PROVE c[i + 1] \in Nat
    OBVIOUS
  <2>1. i + 1 \in 1 .. n /\ i + 1 \in 0 .. n /\ i + 1 # 0 /\ (i + 1) - 1 = i /\ c[i] \in Nat
    BY <1>0, <1>10
  <2>2. c[i + 1] = G(i + 1, c[i])
    BY <1>7, <2>1
  <2> QED
    BY <1>1, <2>1, <2>2
<1>11. 0 \in S
  BY <1>8
<1> HIDE DEF S
<1>12. Nat \subseteq S
  BY <1>10, <1>11, Induct
<1>13. \A i \in 0 .. n : c[i] \in Nat
  BY <1>0, <1>12 DEF S
<1>14. c \in [0 .. n -> Nat]
  BY <1>7, <1>13
<1>15. AreCarries(c, d, n, x, scale, B)
  BY ONLY <1>8, <1>9, <1>14, Zenon DEF AreCarries
<1> QED
  BY ONLY <1>15 DEF c, n

\* The numbers around one digit: d before and f after it, c carried in and e out.
DigitSum(B, scale, c, e, d, f, v, w, p, wn) ==
    /\ {B, scale, c, e, d, f, v, w, p, wn} \subseteq Int
    /\ c + scale * d = B * e + f

\* One digit: what is written and what is carried on make up the sum.
LEMMA OneDigit ==
    ASSUME NEW B, NEW scale, NEW c, NEW e, NEW d, NEW f, NEW v, NEW w, NEW p, NEW wn,
           DigitSum(B, scale, c, e, d, f, v, w, p, wn)
    PROVE  (scale * (v * B + d) + c) * p + (wn - (w * B + f) * p)
             = (scale * v + e) * (p * B) + (wn - w * (p * B))
<1>0. /\ B \in Int /\ scale \in Int /\ c \in Int /\ e \in Int /\ d \in Int
      /\ f \in Int /\ v \in Int /\ w \in Int /\ p \in Int /\ wn \in Int
      /\ c + scale * d = B * e + f
  BY DEF DigitSum
<1>1. scale * (v * B + d) = scale * (v * B) + scale * d
  BY ONLY <1>0
<1>2. (scale * (v * B + d) + c) - (w * B + f) = (scale * v + e - w) * B
  BY ONLY <1>0, <1>1
<1>3. ((scale * (v * B + d) + c) - (w * B + f)) * p = ((scale * v + e - w) * B) * p
  BY ONLY <1>2
<1>4. scale * (v * B + d) + c \in Int /\ w * B + f \in Int /\ scale * v + e \in Int
  BY ONLY <1>0
<1>5. \A X, Y \in Int : (X - Y) * p = X * p - Y * p
  BY ONLY <1>0
<1>6. \A X \in Int : (X * B) * p = X * (p * B)
  BY ONLY <1>0
<1>7. p * B \in Int
  BY ONLY <1>0
<1>8. \A X, Y \in Int : (X - Y) * (p * B) = X * (p * B) - Y * (p * B)
  BY ONLY <1>7
<1>9. scale * v + e - w \in Int
  BY ONLY <1>0
<1>10. ((scale * v + e - w) * B) * p = (scale * v + e - w) * (p * B)
  BY ONLY <1>6, <1>9
<1>11. ((scale * (v * B + d) + c) - (w * B + f)) * p
         = (scale * (v * B + d) + c) * p - (w * B + f) * p
  BY ONLY <1>4, <1>5
<1>12. (scale * v + e - w) * (p * B) = (scale * v + e) * (p * B) - w * (p * B)
  BY ONLY <1>0, <1>4, <1>8
<1>13. (scale * (v * B + d) + c) * p - (w * B + f) * p
         = (scale * v + e) * (p * B) - w * (p * B)
  BY ONLY <1>3, <1>10, <1>11, <1>12
<1>14. \A X, Y \in Int : X * Y \in Int
  BY ONLY <1>0
<1>15. /\ (scale * (v * B + d) + c) * p \in Int /\ (w * B + f) * p \in Int
       /\ (scale * v + e) * (p * B) \in Int /\ w * (p * B) \in Int
  BY ONLY <1>0, <1>4, <1>7, <1>14
<1>16. \A X, Y, Z, U \in Int : X - Y = Z - U => X + (wn - Y) = Z + (wn - U)
  BY ONLY <1>0
<1> QED
  BY ONLY <1>13, <1>15, <1>16

\* b is a buffer with digits e; its digits and the assertion follow from d and c.
IsScaled(b, e, c, d, n, fits, scale, B) ==
    /\ b = [digits |-> e, fits |-> fits /\ c[n] = 0]
    /\ e \in Seq(0 .. B - 1) /\ Len(e) = n
    /\ \A j \in 1 .. n : e[j] = (c[n - j] + scale * d[j]) % B

\* The digits after a step, and what the loops leave in carry.
LEMMA ScaledDigits ==
    ASSUME NEW B \in Nat \ {0}, NEW d \in Seq(0 .. B - 1), NEW x \in Nat, NEW scale \in Nat,
           NEW fits
    PROVE  \E e : IsScaled(Scaled([digits |-> d, fits |-> fits], x, scale, B), e,
                          Carries(d, x, scale, B), d, Len(d), fits, scale, B)
<1> DEFINE n == Len(d)
           c == Carries(d, x, scale, B)
           D(j) == (c[n - j] + scale * d[j]) % B
           e == [j \in 1 .. n |-> D(j)]
<1>0. n \in Nat /\ d \in Seq(Nat) /\ \A j \in 1 .. n : d[j] \in Nat
  OBVIOUS
<1>1. c \in [0 .. n -> Nat]
  <2>1. AreCarries(c, d, n, x, scale, B)
    BY <1>0, CarriesAre
  <2> QED
    BY ONLY <2>1, Zenon DEF AreCarries
<1>2. Scaled([digits |-> d, fits |-> fits], x, scale, B)
        = [digits |-> e, fits |-> fits /\ c[n] = 0]
  BY DEF Scaled
<1> HIDE DEF c, n
<1>3. ASSUME NEW j \in 1 .. n
      PROVE  D(j) \in 0 .. B - 1
  <2>1. n - j \in 0 .. n
    BY <1>0
  <2>2. c[n - j] \in Nat /\ d[j] \in Nat
    BY <1>0, <1>1, <2>1
  <2>3. \A y, z \in Nat : y + scale * z \in Int
    OBVIOUS
  <2> QED
    BY <2>2, <2>3, Mod
<1> HIDE DEF D
<1>4. e \in [1 .. n -> 0 .. B - 1] /\ \A j \in 1 .. n : e[j] = D(j)
  BY <1>3
<1> HIDE DEF e
<1>5. e \in Seq(0 .. B - 1) /\ Len(e) = n
  BY <1>0, <1>4, LenProperties
<1>6. IsScaled(Scaled([digits |-> d, fits |-> fits], x, scale, B), e, c, d, n, fits, scale, B)
  BY ONLY <1>2, <1>4, <1>5, Zenon DEF D, IsScaled
<1> QED
  BY ONLY <1>6 DEF c, n

\* The columns of the multiplication: digits d before and e after it, the
\* carries c, and the numbers v and w of the beginnings of d and e.
Columns(B, scale, n, d, e, c, v, w) ==
    /\ d \in [1 .. n -> Nat] /\ e \in [1 .. n -> Nat] /\ c \in [0 .. n -> Nat]
    /\ v \in [0 .. n -> Nat] /\ v[0] = 0 /\ \A i \in 1 .. n : v[i] = v[i - 1] * B + d[i]
    /\ w \in [0 .. n -> Nat] /\ w[0] = 0 /\ \A i \in 1 .. n : w[i] = w[i - 1] * B + e[i]
    /\ \A i \in 0 .. n - 1 : c[i] + scale * d[n - i] = B * c[i + 1] + e[n - i]

\* What they say of one column.
LEMMA Column ==
    ASSUME NEW B \in Nat \ {0}, NEW scale \in Nat, NEW n \in Nat, NEW d, NEW e, NEW c,
           NEW v, NEW w, Columns(B, scale, n, d, e, c, v, w), NEW i \in 0 .. n - 1
    PROVE  LET j == n - i
           IN  /\ v[j] = v[j - 1] * B + d[j] /\ w[j] = w[j - 1] * B + e[j]
               /\ v[j - 1] \in Nat /\ w[j - 1] \in Nat /\ c[i] \in Nat /\ c[i + 1] \in Nat
               /\ d[j] \in Nat /\ e[j] \in Nat
               /\ c[i] + scale * d[j] = B * c[i + 1] + e[j]
<1> DEFINE j == n - i
<1>1. j \in 1 .. n /\ j - 1 \in 0 .. n /\ i \in 0 .. n /\ i + 1 \in 0 .. n
  OBVIOUS
<1>2. c[i] + scale * d[j] = B * c[i + 1] + e[j]
  BY Zenon DEF Columns
<1> HIDE DEF j
<1>3. v[j] = v[j - 1] * B + d[j] /\ w[j] = w[j - 1] * B + e[j]
  BY <1>1, Zenon DEF Columns
<1>4. /\ v[j - 1] \in Nat /\ w[j - 1] \in Nat /\ c[i] \in Nat /\ c[i + 1] \in Nat
      /\ d[j] \in Nat /\ e[j] \in Nat
  BY <1>1, Zenon DEF Columns
<1> QED
  BY ONLY <1>2, <1>3, <1>4 DEF j

\* scale times the number of d, plus what is carried in: what does not fit into
\* e is carried out.
LEMMA Multiplied ==
    ASSUME NEW B \in Nat \ {0}, NEW scale \in Nat, NEW n \in Nat, NEW d, NEW e, NEW c,
           NEW v, NEW w, Columns(B, scale, n, d, e, c, v, w)
    PROVE  scale * v[n] + c[0] = w[n] + c[n] * Pow(B, n)
<1> DEFINE all == scale * v[n] + c[0]
           S == {i \in Nat : i <= n =>
                   all = (scale * v[n - i] + c[i]) * Pow(B, i)
                           + (w[n] - w[n - i] * Pow(B, i))}
<1>1. n \in 0 .. n /\ 0 \in 0 .. n
  OBVIOUS
<1>2. v[n] \in Nat /\ w[n] \in Nat /\ c[n] \in Nat /\ c[0] \in Nat /\ v[0] = 0 /\ w[0] = 0
  BY <1>1, Zenon DEF Columns
<1>3. 0 \in S
  <2>0. \A X, Y \in Nat : scale * X + Y \in Int
    OBVIOUS
  <2>1. n - 0 = n /\ Pow(B, 0) = 1
    BY PowDef
  <2>4. scale * v[n] + c[0] \in Int
    BY ONLY <1>2, <2>0
  <2>2. \A X, Y \in Int : X = X * 1 + (Y - Y * 1)
    OBVIOUS
  <2>3. all = (scale * v[n] + c[0]) * 1 + (w[n] - w[n] * 1)
    BY ONLY <1>2, <2>4, <2>2
  <2> QED
    BY <2>1, <2>3
<1>4. ASSUME NEW i \in Nat, i \in S
      PROVE  i + 1 \in S
  <2> SUFFICES ASSUME i + 1 <= n
               PROVE  all = (scale * v[n - (i + 1)] + c[i + 1]) * Pow(B, i + 1)
                              + (w[n] - w[n - (i + 1)] * Pow(B, i + 1))
    OBVIOUS
  <2> DEFINE j == n - i
  <2>1. i \in 0 .. n - 1 /\ j - 1 = n - (i + 1) /\ i <= n
    OBVIOUS
  <2>2. all = (scale * v[j] + c[i]) * Pow(B, i) + (w[n] - w[j] * Pow(B, i))
    BY <1>4, <2>1
  <2>3. /\ v[j] = v[j - 1] * B + d[j] /\ w[j] = w[j - 1] * B + e[j]
        /\ v[j - 1] \in Nat /\ w[j - 1] \in Nat /\ c[i] \in Nat /\ c[i + 1] \in Nat
        /\ d[j] \in Nat /\ e[j] \in Nat
        /\ c[i] + scale * d[j] = B * c[i + 1] + e[j]
    BY <2>1, Column
  <2> HIDE DEF j, all
  <2>4. Pow(B, i) \in Nat /\ Pow(B, i + 1) = Pow(B, i) * B
    BY PowDef
  <2>5. (scale * (v[j - 1] * B + d[j]) + c[i]) * Pow(B, i)
          + (w[n] - (w[j - 1] * B + e[j]) * Pow(B, i))
          = (scale * v[j - 1] + c[i + 1]) * (Pow(B, i) * B)
              + (w[n] - w[j - 1] * (Pow(B, i) * B))
    <3>1. Nat \subseteq Int
      OBVIOUS
    <3>2. /\ scale \in Int /\ c[i] \in Int /\ c[i + 1] \in Int /\ d[j] \in Int /\ e[j] \in Int
          /\ v[j - 1] \in Int /\ w[j - 1] \in Int /\ Pow(B, i) \in Int /\ w[n] \in Int
      BY <1>2, <2>3, <2>4, <3>1, Zenon
    <3>3. DigitSum(B, scale, c[i], c[i + 1], d[j], e[j], v[j - 1], w[j - 1], Pow(B, i), w[n])
      BY <2>3, <3>1, <3>2, Zenon DEF DigitSum
    <3> QED
      BY ONLY <3>3, OneDigit
  <2>6. all = (scale * v[j - 1] + c[i + 1]) * Pow(B, i + 1) + (w[n] - w[j - 1] * Pow(B, i + 1))
    BY ONLY <2>2, <2>3, <2>4, <2>5, Zenon
  <2> QED
    BY ONLY <2>1, <2>6
<1> HIDE DEF S
<1>5. Nat \subseteq S
  BY <1>3, <1>4, Induct
<1>6. all = (scale * v[0] + c[n]) * Pow(B, n) + (w[n] - w[0] * Pow(B, n))
  <2>1. n <= n /\ n - n = 0
    OBVIOUS
  <2> QED
    BY <1>5, <2>1 DEF S
<1>7. Pow(B, n) \in Nat
  BY PowDef
<1>8. scale * 0 + c[n] = c[n] /\ 0 * Pow(B, n) = 0 /\ c[n] * Pow(B, n) \in Int
  BY <1>2, <1>7
<1> HIDE DEF all
<1>9. all = w[n] + c[n] * Pow(B, n)
  BY ONLY <1>2, <1>6, <1>8
<1> QED
  BY <1>9 DEF all

\* r has n digits of base B, that stand for m.
ScaledTo(r, B, n, m) ==
    \E e \in Seq(0 .. B - 1) :
      r = [digits |-> e, fits |-> TRUE] /\ Len(e) = n /\ Number(e, B) = m

\* A step multiplies and adds, if there is room for the result.
LEMMA ScaledRight ==
    ASSUME NEW B \in Nat \ {0}, NEW d \in Seq(0 .. B - 1), NEW x \in Nat, NEW scale \in Nat,
           scale * Number(d, B) + x < Pow(B, Len(d))
    PROVE  ScaledTo(Scaled([digits |-> d, fits |-> TRUE], x, scale, B), B, Len(d),
                    scale * Number(d, B) + x)
<1> DEFINE n == Len(d)
           c == Carries(d, x, scale, B)
           v == Numbers(d, B)
<1>0. PICK e : IsScaled(Scaled([digits |-> d, fits |-> TRUE], x, scale, B), e, c, d, n, TRUE, scale, B)
  BY ScaledDigits
<1> DEFINE w == Numbers(e, B)
<1>1. /\ Scaled([digits |-> d, fits |-> TRUE], x, scale, B)
           = [digits |-> e, fits |-> TRUE /\ c[n] = 0]
      /\ e \in Seq(0 .. B - 1) /\ Len(e) = n
      /\ \A j \in 1 .. n : e[j] = (c[n - j] + scale * d[j]) % B
  BY ONLY <1>0, Zenon DEF IsScaled
<1>2. n \in Nat /\ d \in Seq(Nat) /\ d \in [1 .. n -> Nat]
  OBVIOUS
<1>3. e \in Seq(Nat) /\ e \in [1 .. n -> Nat]
  BY <1>1
<1>4. /\ c \in [0 .. n -> Nat] /\ c[0] = x
      /\ \A i \in 0 .. n - 1 : c[i + 1] = (c[i] + scale * d[n - i]) \div B
  <2>1. AreCarries(c, d, n, x, scale, B)
    BY <1>2, CarriesAre
  <2> QED
    BY ONLY <2>1, Zenon DEF AreCarries
<1>5. /\ v \in [0 .. n -> Nat] /\ v[0] = 0
      /\ \A i \in 1 .. n : v[i] = v[i - 1] * B + d[i]
  BY <1>2, NumbersAre
<1>6. /\ w \in [0 .. n -> Nat] /\ w[0] = 0
      /\ \A i \in 1 .. n : w[i] = w[i - 1] * B + e[i]
  BY <1>1, <1>3, NumbersAre
<1>7. v[n] = Number(d, B) /\ w[n] = Number(e, B)
  BY <1>1 DEF Number
<1> HIDE DEF n, c, v, w
<1>8. ASSUME NEW i \in 0 .. n - 1
      PROVE  c[i] + scale * d[n - i] = B * c[i + 1] + e[n - i]
  <2>1. n - i \in 1 .. n /\ n - (n - i) = i /\ i \in 0 .. n
    BY ONLY <1>2
  <2>2. e[n - i] = (c[i] + scale * d[n - i]) % B
    BY ONLY <1>1, <2>1
  <2>3. c[i + 1] = (c[i] + scale * d[n - i]) \div B
    BY ONLY <1>4
  <2>4. c[i] \in Nat /\ d[n - i] \in Nat
    BY ONLY <1>2, <1>4, <2>1
  <2>5. \A y, z \in Nat : y + scale * z \in Int
    OBVIOUS
  <2>6. c[i] + scale * d[n - i] \in Int
    BY ONLY <2>4, <2>5
  <2>7. \A y \in Int : y = B * (y \div B) + (y % B)
    BY DivMod
  <2> QED
    BY ONLY <2>2, <2>3, <2>6, <2>7
<1>9. Columns(B, scale, n, d, e, c, v, w)
  BY ONLY <1>2, <1>3, <1>4, <1>5, <1>6, <1>8, Zenon DEF Columns
<1>10. scale * v[n] + c[0] = w[n] + c[n] * Pow(B, n)
  BY ONLY <1>2, <1>9, Multiplied, B \in Nat \ {0}, scale \in Nat
<1>11. w[n] \in Nat /\ c[n] \in Nat /\ Pow(B, n) \in Nat \ {0}
  BY <1>2, <1>4, <1>6, PowPos
<1>12. scale * v[n] + x < Pow(B, n)
  BY <1>7 DEF n
<1>13. w[n] + c[n] * Pow(B, n) < Pow(B, n)
  BY ONLY <1>4, <1>10, <1>12
<1>14. \A X, Y \in Nat, Z \in Nat \ {0} : X + Y * Z < Z => Y = 0
  <2> SUFFICES ASSUME NEW X \in Nat, NEW Y \in Nat, NEW Z \in Nat \ {0}, Y # 0
               PROVE  ~ (X + Y * Z < Z)
    OBVIOUS
  <2>1. Y * Z >= Z
    OBVIOUS
  <2> QED
    BY ONLY <2>1, X \in Nat, Y \in Nat, Z \in Nat
<1>15. c[n] = 0
  BY ONLY <1>11, <1>13, <1>14
<1>16. w[n] = scale * v[n] + x
  <2>1. 0 * Pow(B, n) = 0
    BY <1>11
  <2> QED
    BY ONLY <1>4, <1>10, <1>11, <1>15, <2>1
<1>17. Scaled([digits |-> d, fits |-> TRUE], x, scale, B) = [digits |-> e, fits |-> TRUE]
  BY ONLY <1>1, <1>15
<1> QED
  BY ONLY <1>1, <1>7, <1>16, <1>17 DEF n, ScaledTo

----------------------------------------------------------------------------
(* Convert keeps the number.                                               *)

Buffer(B, size) == [digits : {d \in Seq(0 .. B - 1) : Len(d) = size}, fits : BOOLEAN]

\* A step leaves a buffer of the same size.
LEMMA ScaledBuffer ==
    ASSUME NEW B \in Nat \ {0}, NEW scale \in Nat, NEW size \in Nat, NEW x \in Nat,
           NEW b \in Buffer(B, size)
    PROVE  Scaled(b, x, scale, B) \in Buffer(B, size)
<1>1. PICK d \in Seq(0 .. B - 1), f \in BOOLEAN : b = [digits |-> d, fits |-> f] /\ Len(d) = size
  <2>1. b.digits \in Seq(0 .. B - 1) /\ Len(b.digits) = size /\ b.fits \in BOOLEAN
        /\ b = [digits |-> b.digits, fits |-> b.fits]
    BY DEF Buffer
  <2> QED
    BY <2>1, Zenon
<1> DEFINE r == Scaled([digits |-> d, fits |-> f], x, scale, B)
           o == Carries(d, x, scale, B)[Len(d)] = 0
<1>0. PICK e : IsScaled(r, e, Carries(d, x, scale, B), d, Len(d), f, scale, B)
  BY ScaledDigits
<1>2. r = [digits |-> e, fits |-> f /\ o] /\ e \in Seq(0 .. B - 1) /\ Len(e) = Len(d)
  BY ONLY <1>0, Zenon DEF IsScaled
<1> HIDE DEF r, o
<1>3. (f /\ o) \in BOOLEAN
  OBVIOUS
<1>4. PICK z \in {z \in Seq(0 .. B - 1) : Len(z) = size}, h \in BOOLEAN :
        r = [digits |-> z, fits |-> h]
  BY ONLY <1>1, <1>2, <1>3, Zenon
<1>5. r \in Buffer(B, size)
  BY ONLY <1>4 DEF Buffer
<1> QED
  BY <1>1, <1>5 DEF r

\* The buffers of Convert, one after each digit of s.
LEMMA ConvertIs ==
    ASSUME NEW B \in Nat \ {0}, NEW scale \in Nat, NEW size \in Nat, NEW s \in Seq(Nat)
    PROVE  \E b : /\ b[0] = [digits |-> Repeat(0, size), fits |-> TRUE]
                  /\ \A i \in 0 .. Len(s) - 1 : b[i + 1] = Scaled(b[i], s[i + 1], scale, B)
                  /\ Convert(s, scale, B, size) = b[Len(s)]
<1> DEFINE n == Len(s)
           T == Buffer(B, size)
           a == [digits |-> Repeat(0, size), fits |-> TRUE]
           G(i, b) == Scaled(b, s[i], scale, B)
           g == [q \in Nat \X T |-> IF q[1] \in 1 .. n THEN G(q[1], q[2]) ELSE a]
<1>1. n \in Nat /\ \A i \in 1 .. n : s[i] \in Nat
  OBVIOUS
<1>2. a \in T
  <2>1. Repeat(0, size) \in [1 .. size -> 0 .. B - 1]
    BY DEF Repeat
  <2>2. Repeat(0, size) \in Seq(0 .. B - 1) /\ Len(Repeat(0, size)) = size
    BY <2>1, LenProperties
  <2> QED
    BY <2>2 DEF Buffer
<1>3. ASSUME NEW i \in 1 .. n, NEW b \in T
      PROVE  G(i, b) \in T
  <2>1. s[i] \in Nat
    BY <1>1
  <2> QED
    BY <2>1, ScaledBuffer
<1> HIDE DEF G, T, a, n
<1>4. g \in [Nat \X T -> T]
  BY <1>2, <1>3
<1>5. \A i \in 1 .. n, b \in T : g[<<i, b>>] = G(i, b)
  BY <1>1
<1> HIDE DEF g
<1>6. PICK f \in [0 .. n -> T] : Follows(f, a, g, n)
  BY <1>1, <1>2, <1>4, RecursionTo
<1>7. ASSUME NEW i \in 0 .. n
      PROVE  f[i] = IF i = 0 THEN a ELSE G(i, f[i - 1])
  <2>1. i # 0 => i - 1 \in 0 .. n - 1 /\ i - 1 \in 0 .. n /\ (i - 1) + 1 = i /\ i \in 1 .. n
    BY <1>1
  <2>2. i # 0 => f[i - 1] \in T
    BY <1>6, <2>1
  <2>3. i # 0 => f[i] = g[<<i, f[i - 1]>>]
    BY <1>6, <2>1 DEF Follows
  <2> QED
    BY <1>5, <1>6, <2>1, <2>2, <2>3 DEF Follows
<1>8. f = [i \in 0 .. n |-> IF i = 0 THEN a ELSE G(i, f[i - 1])]
  BY <1>7
<1> DEFINE b == CHOOSE b : b = [i \in 0 .. n |-> IF i = 0 THEN a ELSE G(i, b[i - 1])]
<1>9. b = [i \in 0 .. n |-> IF i = 0 THEN a ELSE G(i, b[i - 1])]
  BY <1>8
<1>10. Convert(s, scale, B, size) = b[Len(s)]
  BY DEF Convert, G, a, n
<1> HIDE DEF b
<1>11. b[0] = a
  <2>1. 0 \in 0 .. n
    BY <1>1
  <2> QED
    BY <1>9, <2>1
<1>12. ASSUME NEW i \in 0 .. n - 1
       PROVE  b[i + 1] = G(i + 1, b[i])
  <2>1. i + 1 \in 0 .. n /\ i + 1 # 0 /\ (i + 1) - 1 = i
    BY <1>1
  <2> QED
    BY <1>9, <2>1
<1> QED
  BY <1>10, <1>11, <1>12 DEF G, a, n

\* Zeroes in front count nothing.
LEMMA ZeroesNumber ==
    ASSUME NEW B \in Nat, NEW s \in Seq(Nat), NEW z \in 0 .. Len(s), \A i \in 1 .. z : s[i] = 0
    PROVE  Numbers(s, B)[z] = 0
<1> DEFINE v == Numbers(s, B)
           n == Len(s)
           S == {i \in Nat : i <= z => v[i] = 0}
<1>1. v[0] = 0 /\ \A i \in 1 .. n : v[i] = v[i - 1] * B + s[i]
  BY NumbersAre
<1>2. n \in Nat
  OBVIOUS
<1> HIDE DEF v, n
<1>3. 0 \in S
  BY <1>1
<1>4. ASSUME NEW i \in Nat, i \in S
      PROVE  i + 1 \in S
  <2> SUFFICES ASSUME i + 1 <= z PROVE v[i + 1] = 0
    OBVIOUS
  <2>1. i + 1 \in 1 .. n /\ i + 1 \in 1 .. z /\ (i + 1) - 1 = i /\ i <= z
    BY <1>2 DEF n
  <2>2. v[i + 1] = v[i] * B + s[i + 1] /\ s[i + 1] = 0 /\ v[i] = 0
    BY <1>1, <1>4, <2>1
  <2>3. 0 * B + 0 = 0
    OBVIOUS
  <2> QED
    BY ONLY <2>2, <2>3
<1> HIDE DEF S
<1>5. Nat \subseteq S
  BY <1>3, <1>4, Induct
<1> QED
  BY <1>2, <1>5 DEF S, v, n

\* They may be left out.
LEMMA StripNumber ==
    ASSUME NEW B \in Nat, NEW s \in Seq(Nat), NEW z \in 0 .. Len(s), \A i \in 1 .. z : s[i] = 0
    PROVE  Number(SubSeq(s, z + 1, Len(s)), B) = Number(s, B)
<1> DEFINE t == SubSeq(s, z + 1, Len(s))
           v == Numbers(s, B)
           w == Numbers(t, B)
           n == Len(s)
           m == Len(t)
           S == {i \in Nat : i <= m => w[i] = v[z + i]}
<1>1. /\ n \in Nat /\ m = n - z /\ t \in Seq(Nat)
      /\ \A i \in 1 .. m : t[i] = s[z + i]
  OBVIOUS
<1> HIDE DEF t
<1>2. v[0] = 0 /\ \A i \in 1 .. n : v[i] = v[i - 1] * B + s[i]
  BY NumbersAre
<1>3. w[0] = 0 /\ \A i \in 1 .. m : w[i] = w[i - 1] * B + t[i]
  BY <1>1, NumbersAre
<1>4. v[z] = 0
  BY ZeroesNumber
<1>5. v[n] = Number(s, B) /\ w[m] = Number(t, B)
  BY DEF Number
<1>6. z \in 0 .. n
  OBVIOUS
<1> HIDE DEF v, w, n, m
<1>7. 0 \in S
  BY <1>3, <1>4, <1>6
<1>8. ASSUME NEW i \in Nat, i \in S
      PROVE  i + 1 \in S
  <2> SUFFICES ASSUME i + 1 <= m PROVE w[i + 1] = v[z + (i + 1)]
    OBVIOUS
  <2>1. /\ i + 1 \in 1 .. m /\ (i + 1) - 1 = i /\ i <= m
        /\ z + (i + 1) \in 1 .. n /\ (z + (i + 1)) - 1 = z + i
    BY <1>1, <1>6
  <2>2. w[i + 1] = w[i] * B + t[i + 1] /\ t[i + 1] = s[z + (i + 1)] /\ w[i] = v[z + i]
    BY <1>1, <1>3, <1>8, <2>1
  <2>3. v[z + (i + 1)] = v[z + i] * B + s[z + (i + 1)]
    BY <1>2, <2>1
  <2> QED
    BY ONLY <2>2, <2>3
<1> HIDE DEF S
<1>9. Nat \subseteq S
  BY <1>7, <1>8, Induct
<1>10. m \in Nat /\ m <= m /\ z + m = n
  BY <1>1, <1>6
<1>11. w[m] = v[n]
  BY <1>9, <1>10 DEF S
<1> QED
  BY <1>5, <1>11 DEF t, n

\* Beginnings stand for smaller numbers.
LEMMA NumbersGrow ==
    ASSUME NEW B \in Nat \ {0}, NEW s \in Seq(Nat), NEW j \in 0 .. Len(s), NEW k \in j .. Len(s)
    PROVE  Numbers(s, B)[j] <= Numbers(s, B)[k]
<1> DEFINE v == Numbers(s, B)
           n == Len(s)
           S == {i \in Nat : j + i <= n => v[j] <= v[j + i]}
<1>1. /\ v \in [0 .. n -> Nat]
      /\ \A i \in 1 .. n : v[i] = v[i - 1] * B + s[i]
  BY NumbersAre
<1>2. n \in Nat /\ j \in 0 .. n /\ k \in j .. n /\ \A i \in 1 .. n : s[i] \in Nat
  OBVIOUS
<1> HIDE DEF v, n
<1>3. 0 \in S
  <2>1. j + 0 = j /\ v[j] \in Nat
    BY <1>1, <1>2
  <2> QED
    BY <2>1
<1>4. ASSUME NEW i \in Nat, i \in S
      PROVE  i + 1 \in S
  <2> SUFFICES ASSUME j + (i + 1) <= n PROVE v[j] <= v[j + (i + 1)]
    OBVIOUS
  <2>1. j + (i + 1) \in 1 .. n /\ (j + (i + 1)) - 1 = j + i /\ j + i <= n /\ j + i \in 0 .. n
    BY <1>2
  <2>2. v[j + (i + 1)] = v[j + i] * B + s[j + (i + 1)] /\ s[j + (i + 1)] \in Nat
    BY <1>1, <1>2, <2>1
  <2>3. v[j] \in Nat /\ v[j + i] \in Nat /\ v[j] <= v[j + i]
    BY <1>1, <1>2, <1>4, <2>1
  <2>4. \A X, Y \in Nat : X <= X * B + Y
    <3> SUFFICES ASSUME NEW X \in Nat, NEW Y \in Nat PROVE X <= X * B + Y
      OBVIOUS
    <3>1. X <= X * B /\ X * B \in Nat
      OBVIOUS
    <3> QED
      BY ONLY <3>1, X \in Nat, Y \in Nat
  <2>5. v[j + i] <= v[j + i] * B + s[j + (i + 1)]
    BY ONLY <2>2, <2>3, <2>4
  <2>6. v[j + (i + 1)] \in Nat /\ v[j + i] <= v[j + (i + 1)]
    BY <1>1, <1>2, <2>1, <2>2, <2>5
  <2> QED
    BY ONLY <2>3, <2>6
<1> HIDE DEF S
<1>5. Nat \subseteq S
  BY <1>3, <1>4, Induct
<1>6. k - j \in Nat /\ j + (k - j) = k /\ k <= n
  BY <1>2
<1>7. v[j] <= v[k]
  BY <1>5, <1>6 DEF S
<1> QED
  BY <1>7 DEF v

\* With room for the number, the digits in the new base stand for it.
LEMMA ConvertRight ==
    ASSUME NEW B \in Nat \ {0}, NEW scale \in Nat \ {0}, NEW size \in Nat, NEW s \in Seq(Nat),
           Number(s, scale) < Pow(B, size)
    PROVE  \E e \in Seq(0 .. B - 1) :
             /\ Convert(s, scale, B, size) = [digits |-> e, fits |-> TRUE]
             /\ Len(e) = size /\ Number(e, B) = Number(s, scale)
<1> DEFINE n == Len(s)
           v == Numbers(s, scale)
           R(i, b) == \E e \in Seq(0 .. B - 1) :
                        /\ b = [digits |-> e, fits |-> TRUE]
                        /\ Len(e) = size /\ Number(e, B) = v[i]
<1>1. PICK b : /\ b[0] = [digits |-> Repeat(0, size), fits |-> TRUE]
               /\ \A i \in 0 .. n - 1 : b[i + 1] = Scaled(b[i], s[i + 1], scale, B)
               /\ Convert(s, scale, B, size) = b[n]
  BY ConvertIs
<1> DEFINE S == {i \in Nat : i <= n => R(i, b[i])}
<1>2. /\ v \in [0 .. n -> Nat] /\ v[0] = 0
      /\ \A i \in 1 .. n : v[i] = v[i - 1] * scale + s[i]
  BY NumbersAre
<1>3. n \in Nat /\ \A i \in 1 .. n : s[i] \in Nat
  OBVIOUS
<1>5. v[n] = Number(s, scale)
  BY DEF Number
<1> HIDE DEF n, v
<1>4. \A i \in 0 .. n : v[i] < Pow(B, size)
  <2> SUFFICES ASSUME NEW i \in 0 .. n PROVE v[i] < Pow(B, size)
    OBVIOUS
  <2>1. v[i] <= v[n] /\ v[n] < Pow(B, size)
    BY <1>3, <1>5, NumbersGrow DEF n, v
  <2>2. v[i] \in Nat /\ v[n] \in Nat
    BY ONLY <1>2, <1>3, i \in 0 .. n
  <2>3. Pow(B, size) \in Nat
    BY PowDef
  <2> QED
    BY ONLY <2>1, <2>2, <2>3
<1>6. 0 \in S
  <2> DEFINE e == Repeat(0, size)
  <2>1. e \in [1 .. size -> 0 .. B - 1] /\ \A i \in 1 .. size : e[i] = 0
    BY DEF Repeat
  <2> HIDE DEF e
  <2>2. e \in Seq(0 .. B - 1) /\ Len(e) = size
    BY <2>1, LenProperties
  <2>3. e \in Seq(Nat) /\ size \in 0 .. Len(e)
    BY <2>2
  <2>4. Number(e, B) = 0
    BY <2>1, <2>2, <2>3, ZeroesNumber DEF Number
  <2>5. R(0, b[0])
    BY <1>1, <1>2, <2>2, <2>4 DEF e
  <2> QED
    BY <2>5
<1>7. ASSUME NEW i \in Nat, i \in S
      PROVE  i + 1 \in S
  <2> SUFFICES ASSUME i + 1 <= n PROVE R(i + 1, b[i + 1])
    OBVIOUS
  <2>1. i \in 0 .. n - 1 /\ i + 1 \in 1 .. n /\ (i + 1) - 1 = i /\ i + 1 \in 0 .. n /\ i <= n
        /\ i \in 0 .. n
    BY <1>3
  <2>2. PICK d \in Seq(0 .. B - 1) :
          b[i] = [digits |-> d, fits |-> TRUE] /\ Len(d) = size /\ Number(d, B) = v[i]
    BY <1>7, <2>1
  <2>3. v[i + 1] = v[i] * scale + s[i + 1] /\ s[i + 1] \in Nat /\ v[i] \in Nat
    BY <1>2, <1>3, <2>1
  <2>4. v[i + 1] = scale * Number(d, B) + s[i + 1]
    <3>1. v[i] * scale = scale * v[i]
      BY ONLY <2>3, scale \in Nat
    <3> QED
      BY ONLY <2>2, <2>3, <3>1
  <2>5. scale * Number(d, B) + s[i + 1] < Pow(B, Len(d))
    BY ONLY <1>4, <2>1, <2>2, <2>4
  <2>6. PICK e \in Seq(0 .. B - 1) :
          /\ Scaled([digits |-> d, fits |-> TRUE], s[i + 1], scale, B) = [digits |-> e, fits |-> TRUE]
          /\ Len(e) = Len(d) /\ Number(e, B) = scale * Number(d, B) + s[i + 1]
    <3> DEFINE x == s[i + 1]
    <3>1. x \in Nat /\ scale * Number(d, B) + x < Pow(B, Len(d))
      BY ONLY <2>3, <2>5
    <3> HIDE DEF x
    <3>2. ScaledTo(Scaled([digits |-> d, fits |-> TRUE], x, scale, B), B, Len(d),
                   scale * Number(d, B) + x)
      BY ONLY B \in Nat \ {0}, scale \in Nat, d \in Seq(0 .. B - 1), <3>1, ScaledRight
    <3> QED
      BY ONLY <3>2 DEF ScaledTo, x
  <2>7. b[i + 1] = [digits |-> e, fits |-> TRUE]
    BY <1>1, <2>1, <2>2, <2>6
  <2> QED
    BY <2>2, <2>4, <2>6, <2>7
<1> HIDE DEF S, R
<1>8. Nat \subseteq S
  BY <1>6, <1>7, Induct
<1>9. R(n, b[n])
  BY <1>3, <1>8 DEF S
<1> QED
  BY ONLY <1>1, <1>5, <1>9 DEF R

----------------------------------------------------------------------------
(* Digits are determined by their number.                                  *)

\* s does not begin with a zero.
Plain(s) == Len(s) > 0 => s[1] # 0

\* Two ways to write a number with one digit more.
SameNumber(B, a, q, b, r) ==
    a \in Nat /\ b \in Nat /\ {q, r} \subseteq 0 .. B - 1 /\ a * B + q = b * B + r

\* Quotient and remainder are determined.
LEMMA SameDigit ==
    ASSUME NEW B \in Nat \ {0}, NEW a, NEW b, NEW q, NEW r, SameNumber(B, a, q, b, r)
    PROVE  a = b /\ q = r
<1>0. /\ a \in Nat /\ b \in Nat /\ q \in 0 .. B - 1 /\ r \in 0 .. B - 1
      /\ a * B + q = b * B + r
  BY DEF SameNumber
<1>1. ASSUME NEW x \in Nat, NEW y \in Nat, x < y
      PROVE  x * B + B <= y * B
  <2>1. x * B + B = (x + 1) * B /\ x + 1 <= y
    BY <1>1
  <2>2. (x + 1) * B <= y * B
    BY <2>1
  <2> QED
    BY ONLY <2>1, <2>2
<1>2. a * B \in Nat /\ b * B \in Nat
  BY ONLY <1>0, B \in Nat
<1>3. ~(a < b) /\ ~(b < a)
  <2>1. a < b => a * B + B <= b * B
    BY <1>0, <1>1
  <2>2. b < a => b * B + B <= a * B
    BY <1>0, <1>1
  <2> QED
    BY ONLY <1>0, <1>2, <2>1, <2>2, B \in Nat
<1>4. a = b
  BY ONLY <1>0, <1>3
<1> QED
  BY ONLY <1>0, <1>2, <1>4

\* Without a zero in front the number is not 0.
LEMMA PlainPositive ==
    ASSUME NEW B \in Nat \ {0}, NEW s \in Seq(Nat), Plain(s), NEW k \in 1 .. Len(s)
    PROVE  Numbers(s, B)[k] \in Nat \ {0}
<1> DEFINE v == Numbers(s, B)
           n == Len(s)
<1>1. /\ v \in [0 .. n -> Nat] /\ v[0] = 0
      /\ \A i \in 1 .. n : v[i] = v[i - 1] * B + s[i]
  BY NumbersAre
<1>2. n \in Nat /\ 1 \in 1 .. n /\ 1 \in 0 .. n /\ k \in 1 .. n /\ 1 - 1 = 0 /\ k \in 0 .. n
  OBVIOUS
<1>3. s[1] \in Nat /\ s[1] # 0
  BY <1>2 DEF Plain
<1>4. v[1] <= v[k]
  BY <1>2, NumbersGrow
<1> HIDE DEF v, n
<1>5. v[1] = v[0] * B + s[1]
  BY ONLY <1>1, <1>2
<1>6. 0 * B = 0
  OBVIOUS
<1>7. v[1] = s[1]
  BY ONLY <1>1, <1>3, <1>5, <1>6
<1>8. v[k] \in Nat
  BY ONLY <1>1, <1>2
<1>9. v[k] \in Nat \ {0}
  BY ONLY <1>3, <1>4, <1>7, <1>8
<1> QED
  BY <1>9 DEF v

\* The last digits agree, one after the other.
LEMMA SameEnds ==
    ASSUME NEW B \in Nat \ {0}, NEW s \in Seq(0 .. B - 1), NEW t \in Seq(0 .. B - 1),
           Number(s, B) = Number(t, B), NEW i \in Nat, i <= Len(s), i <= Len(t)
    PROVE  Numbers(s, B)[Len(s) - i] = Numbers(t, B)[Len(t) - i]
<1> DEFINE v == Numbers(s, B)
           w == Numbers(t, B)
           n == Len(s)
           m == Len(t)
           S == {h \in Nat : h <= n /\ h <= m => v[n - h] = w[m - h]}
<1>1. /\ n \in Nat /\ m \in Nat /\ s \in Seq(Nat) /\ t \in Seq(Nat)
      /\ s \in [1 .. n -> 0 .. B - 1] /\ t \in [1 .. m -> 0 .. B - 1]
  OBVIOUS
<1>2. v \in [0 .. n -> Nat] /\ \A h \in 1 .. n : v[h] = v[h - 1] * B + s[h]
  BY <1>1, NumbersAre
<1>3. w \in [0 .. m -> Nat] /\ \A h \in 1 .. m : w[h] = w[h - 1] * B + t[h]
  BY <1>1, NumbersAre
<1>4. v[n] = w[m]
  BY DEF Number
<1>5. i <= n /\ i <= m
  OBVIOUS
<1> HIDE DEF v, w, n, m
<1>6. 0 \in S
  <2>1. n - 0 = n /\ m - 0 = m
    BY <1>1
  <2> QED
    BY <1>4, <2>1
<1>7. ASSUME NEW h \in Nat, h \in S
      PROVE  h + 1 \in S
  <2> SUFFICES ASSUME h + 1 <= n, h + 1 <= m PROVE v[n - (h + 1)] = w[m - (h + 1)]
    OBVIOUS
  <2> DEFINE j == n - h
             k == m - h
  <2>1. /\ j \in 1 .. n /\ j - 1 \in 0 .. n /\ j - 1 = n - (h + 1)
        /\ k \in 1 .. m /\ k - 1 \in 0 .. m /\ k - 1 = m - (h + 1) /\ h <= n /\ h <= m
    BY <1>1
  <2>2. v[j] = w[k]
    BY <1>7, <2>1
  <2> HIDE DEF j, k
  <2>3. v[j] = v[j - 1] * B + s[j] /\ w[k] = w[k - 1] * B + t[k]
    BY ONLY <1>2, <1>3, <2>1
  <2>4. v[j - 1] \in Nat /\ w[k - 1] \in Nat /\ s[j] \in 0 .. B - 1 /\ t[k] \in 0 .. B - 1
    BY ONLY <1>1, <1>2, <1>3, <2>1
  <2>5. v[j - 1] * B + s[j] = w[k - 1] * B + t[k]
    BY ONLY <2>2, <2>3
  <2>6. v[j - 1] = w[k - 1]
    <3>1. SameNumber(B, v[j - 1], s[j], w[k - 1], t[k])
      BY ONLY <2>4, <2>5 DEF SameNumber
    <3> QED
      BY ONLY <3>1, SameDigit, B \in Nat \ {0}
  <2> QED
    BY ONLY <2>1, <2>6
<1> HIDE DEF S
<1>8. Nat \subseteq S
  BY <1>6, <1>7, Induct
<1>9. v[n - i] = w[m - i]
  BY <1>5, <1>8 DEF S
<1> QED
  BY <1>9 DEF v, w, n, m

\* Plain digits that stand for the same number are the same.
LEMMA SameDigits ==
    ASSUME NEW B \in Nat \ {0}, NEW s \in Seq(0 .. B - 1), NEW t \in Seq(0 .. B - 1),
           Plain(s), Plain(t), Number(s, B) = Number(t, B)
    PROVE  s = t
<1> DEFINE v == Numbers(s, B)
           w == Numbers(t, B)
           n == Len(s)
           m == Len(t)
<1>1. /\ n \in Nat /\ m \in Nat /\ s \in Seq(Nat) /\ t \in Seq(Nat)
      /\ s \in [1 .. n -> 0 .. B - 1] /\ t \in [1 .. m -> 0 .. B - 1]
  OBVIOUS
<1>2. v \in [0 .. n -> Nat] /\ v[0] = 0 /\ \A h \in 1 .. n : v[h] = v[h - 1] * B + s[h]
  BY <1>1, NumbersAre
<1>3. w \in [0 .. m -> Nat] /\ w[0] = 0 /\ \A h \in 1 .. m : w[h] = w[h - 1] * B + t[h]
  BY <1>1, NumbersAre
<1>4. \A i \in Nat : i <= n /\ i <= m => v[n - i] = w[m - i]
  BY SameEnds
<1>5. (\A k \in 1 .. n : v[k] # 0) /\ (\A k \in 1 .. m : w[k] # 0)
  BY <1>1, PlainPositive
<1> HIDE DEF v, w, n, m
<1>6. n = m
  <2>1. CASE n < m
    <3>1. n <= n /\ n <= m /\ n - n = 0 /\ m - n \in 1 .. m
      BY <1>1, <2>1
    <3> QED
      BY <1>1, <1>2, <1>4, <1>5, <3>1
  <2>2. CASE m < n
    <3>1. m <= m /\ m <= n /\ m - m = 0 /\ n - m \in 1 .. n
      BY <1>1, <2>2
    <3> QED
      BY <1>1, <1>3, <1>4, <1>5, <3>1
  <2> QED
    BY <1>1, <2>1, <2>2
<1>7. ASSUME NEW i \in 1 .. n
      PROVE  s[i] = t[i]
  <2>1. /\ n - i \in Nat /\ n - (n - i) = i /\ m - (n - i) = i /\ n - i <= n /\ n - i <= m
        /\ i - 1 \in 0 .. n
    BY <1>1, <1>6
  <2>2. v[i] = w[i]
    BY ONLY <1>4, <2>1
  <2>3. v[i] = v[i - 1] * B + s[i] /\ w[i] = w[i - 1] * B + t[i]
    BY ONLY <1>2, <1>3, <1>6
  <2>4. v[i - 1] \in Nat /\ w[i - 1] \in Nat /\ s[i] \in 0 .. B - 1 /\ t[i] \in 0 .. B - 1
    BY ONLY <1>1, <1>2, <1>3, <1>6, <2>1
  <2>5. v[i - 1] * B + s[i] = w[i - 1] * B + t[i]
    BY ONLY <2>2, <2>3
  <2>6. SameNumber(B, v[i - 1], s[i], w[i - 1], t[i])
    BY ONLY <2>4, <2>5 DEF SameNumber
  <2> QED
    BY ONLY <2>6, SameDigit, B \in Nat \ {0}
<1> QED
  BY ONLY <1>1, <1>6, <1>7

----------------------------------------------------------------------------
(* There is room: 138 / 100 is above log(256) / log(58), 733 / 1000 is     *)
(* above log(58) / log(256).                                               *)

\* 8 * 100 / 138 is below 29 / 5, and 129 / 22 below 8 * 733 / 1000.
LEMMA Logarithms ==
    /\ Pow(2, 8) = 256
    /\ Pow(2, 29) <= Pow(58, 5)
    /\ Pow(58, 22) <= Pow(2, 129)
<1>1. \A n \in Nat : Pow(2, n) \in Nat /\ Pow(58, n) \in Nat
  BY PowDef
<1>2. Pow(2, 1) = 2 /\ Pow(58, 1) = 58
  BY PowOne
<1>3. \A j, k \in Nat : /\ Pow(2, j + k) = Pow(2, j) * Pow(2, k)
                        /\ Pow(58, j + k) = Pow(58, j) * Pow(58, k)
  BY PowAdd
<1>4. Pow(2, 2) = 4 /\ Pow(58, 2) = 3364
  <2>1. Pow(2, 1 + 1) = Pow(2, 1) * Pow(2, 1) /\ Pow(58, 1 + 1) = Pow(58, 1) * Pow(58, 1)
    BY <1>3
  <2> QED
    BY ONLY <1>2, <2>1, SMT
<1>5. Pow(2, 5) = 32 /\ Pow(58, 5) = 656356768
  <2>1. Pow(2, 2 + 2) = Pow(2, 2) * Pow(2, 2) /\ Pow(58, 2 + 2) = Pow(58, 2) * Pow(58, 2)
    BY <1>3
  <2>2. Pow(2, 4) = 16 /\ Pow(58, 4) = 11316496
    BY ONLY <1>4, <2>1, SMT
  <2>3. Pow(2, 4 + 1) = Pow(2, 4) * Pow(2, 1) /\ Pow(58, 4 + 1) = Pow(58, 4) * Pow(58, 1)
    BY <1>3
  <2> QED
    BY ONLY <1>2, <2>2, <2>3, SMT
<1>6. Pow(2, 10) = 1024 /\ Pow(2, 8) = 256
  <2>1. /\ Pow(2, 5 + 5) = Pow(2, 5) * Pow(2, 5)
        /\ Pow(2, 5 + 2) = Pow(2, 5) * Pow(2, 2)
        /\ Pow(2, 7 + 1) = Pow(2, 7) * Pow(2, 1)
    BY <1>3
  <2>2. Pow(2, 7) = 128
    BY ONLY <1>4, <1>5, <2>1, SMT
  <2> QED
    BY ONLY <1>2, <1>5, <2>1, <2>2, SMT
<1>7. Pow(2, 20) = 1048576
  <2>1. Pow(2, 10 + 10) = Pow(2, 10) * Pow(2, 10)
    BY <1>3
  <2> QED
    BY ONLY <1>6, <2>1, SMT
<1>8. Pow(2, 29) = 536870912
  <2>1. /\ Pow(2, 20 + 8) = Pow(2, 20) * Pow(2, 8)
        /\ Pow(2, 28 + 1) = Pow(2, 28) * Pow(2, 1)
    BY <1>3
  <2>2. Pow(2, 28) = 268435456
    BY ONLY <1>6, <1>7, <2>1, SMT
  <2> QED
    BY ONLY <1>2, <2>1, <2>2, SMT
<1>9. Pow(2, 49) = 562949953421312
  <2>1. Pow(2, 29 + 20) = Pow(2, 29) * Pow(2, 20)
    BY <1>3
  <2> QED
    BY ONLY <1>7, <1>8, <2>1, SMT
<1>10. Pow(58, 22) = ((Pow(58, 5) * Pow(58, 5)) * (Pow(58, 5) * Pow(58, 5))) * Pow(58, 2)
  <2>1. /\ Pow(58, 5 + 5) = Pow(58, 5) * Pow(58, 5)
        /\ Pow(58, 10 + 10) = Pow(58, 10) * Pow(58, 10)
        /\ Pow(58, 20 + 2) = Pow(58, 20) * Pow(58, 2)
    BY <1>3
  <2> QED
    BY ONLY <2>1, SMT
<1>11. Pow(2, 129) = ((Pow(2, 20) * Pow(2, 20)) * (Pow(2, 20) * Pow(2, 20))) * Pow(2, 49)
  <2>1. /\ Pow(2, 20 + 20) = Pow(2, 20) * Pow(2, 20)
        /\ Pow(2, 40 + 40) = Pow(2, 40) * Pow(2, 40)
        /\ Pow(2, 80 + 49) = Pow(2, 80) * Pow(2, 49)
    BY <1>3
  <2> QED
    BY ONLY <2>1, SMT
\* 58^5 is below 626 * 2^20, and 626^4 * 58^2 below 2^49.
<1>12. Pow(58, 22) <= Pow(2, 129)
  <2> DEFINE x == Pow(58, 5)
             P == Pow(2, 20)
             X == x * x
             Q == P * P
             Y == X * X
             R == Q * Q
  <2>1. x \in Nat /\ P \in Nat /\ x <= 626 * P
    BY ONLY <1>5, <1>7, SMT
  <2>2. \A a, b, u, c \in Nat : a <= u * b /\ c = u * u => a * a <= c * (b * b)
    <3> SUFFICES ASSUME NEW a \in Nat, NEW b \in Nat, NEW u \in Nat, a <= u * b
                 PROVE  a * a <= (u * u) * (b * b)
      OBVIOUS
    <3>1. u * b \in Nat
      OBVIOUS
    <3>2. \A y, z \in Nat : y <= z => y * y <= z * z
      <4> SUFFICES ASSUME NEW y \in Nat, NEW z \in Nat, y <= z PROVE y * y <= z * z
        OBVIOUS
      <4>1. y * y <= y * z /\ y * z <= z * z
        OBVIOUS
      <4> QED
        BY ONLY <4>1, y \in Nat, z \in Nat
    <3>3. a * a <= (u * b) * (u * b)
      BY <3>1, <3>2
    <3>4. (u * b) * (u * b) = (u * u) * (b * b)
      OBVIOUS
    <3> QED
      BY ONLY <3>3, <3>4
  <2>3. X \in Nat /\ Q \in Nat /\ Y \in Nat /\ R \in Nat
    BY ONLY <2>1, SMT
  <2> HIDE DEF x, P
  <2>4. X <= 391876 * Q
    <3>1. 626 \in Nat /\ 391876 \in Nat /\ 391876 = 626 * 626
      BY SMT
    <3> QED
      BY ONLY <2>1, <2>2, <3>1, SMT
  <2> HIDE DEF X, Q
  <2>5. Y <= 153566799376 * R
    <3>1. 391876 \in Nat /\ 153566799376 \in Nat /\ 153566799376 = 391876 * 391876
      BY SMT
    <3> QED
      BY ONLY <2>2, <2>3, <2>4, <3>1, SMT
  <2> HIDE DEF Y, R
  <2>6. Y * 3364 <= R * 562949953421312
    BY ONLY <2>3, <2>5, SMT
  <2> QED
    BY ONLY <1>4, <1>9, <1>10, <1>11, <2>6, SMT DEF x, X, Y, P, Q, R
<1>13. Pow(2, 29) <= Pow(58, 5)
  BY ONLY <1>5, <1>8, SMT
<1> QED
  BY ONLY <1>6, <1>12, <1>13, SMT

\* base58_encode: b58 has room for the number of n bytes.
LEMMA EncodedRoom ==
    ASSUME NEW n \in Nat
    PROVE  EncodedSize(n) \in Nat /\ Pow(256, n) <= Pow(58, EncodedSize(n))
<1> DEFINE e == EncodedSize(n)
<1>1. e \in Nat /\ 40 * n <= 29 * e
  BY DEF EncodedSize
<1> HIDE DEF e
<1>0. Pow(58, e) \in Nat /\ Pow(256, n) \in Nat
  BY ONLY n \in Nat, <1>1, 58 \in Nat, 256 \in Nat, PowNat
<1>2. ASSUME Pow(58, e) < Pow(256, n) PROVE FALSE
  <2>1. Pow(58, e) \in Nat /\ Pow(256, n) \in Nat
    BY <1>0
  <2>2. Pow(Pow(58, e), 5) < Pow(Pow(256, n), 5)
    BY <1>2, <2>1, PowStrict
  <2>3. Pow(Pow(58, e), 5) = Pow(Pow(58, 5), e)
    <3>1. Pow(Pow(58, e), 5) = Pow(58, e * 5) /\ Pow(Pow(58, 5), e) = Pow(58, 5 * e)
      BY <1>1, PowPow
    <3> QED
      BY <1>1, <3>1
  <2>4. Pow(Pow(256, n), 5) = Pow(2, 40 * n)
    <3>1. Pow(256, n) = Pow(2, 8 * n)
      BY Logarithms, PowPow
    <3>2. 8 * n \in Nat /\ (8 * n) * 5 = 40 * n
      OBVIOUS
    <3>3. Pow(Pow(2, 8 * n), 5) = Pow(2, (8 * n) * 5)
      BY <3>2, PowPow
    <3> QED
      BY <3>1, <3>2, <3>3
  <2>5. Pow(2, 40 * n) <= Pow(2, 29 * e)
    <3>1. 40 * n \in Nat /\ 29 * e \in Nat
      BY <1>1
    <3> QED
      BY <1>1, <3>1, PowGrows
  <2>6. Pow(2, 29 * e) = Pow(Pow(2, 29), e)
    BY <1>1, PowPow
  <2>7. Pow(2, 29) \in Nat /\ Pow(58, 5) \in Nat
    BY PowDef
  <2>8. Pow(Pow(2, 29), e) <= Pow(Pow(58, 5), e)
    BY <1>1, <2>7, Logarithms, PowBase
  <2>9. Pow(Pow(2, 29), e) \in Nat /\ Pow(Pow(58, 5), e) \in Nat /\ Pow(2, 40 * n) \in Nat
    <3>1. 40 * n \in Nat
      BY <1>1
    <3> QED
      BY <1>1, <2>7, <3>1, PowNat
  <2> QED
    BY ONLY <2>2, <2>3, <2>4, <2>5, <2>6, <2>8, <2>9
<1> QED
  BY <1>0, <1>1, <1>2 DEF e

\* base58_decode: b256 has room for the number of n characters.
LEMMA DecodedRoom ==
    ASSUME NEW n \in Nat
    PROVE  DecodedSize(n) \in Nat /\ Pow(58, n) <= Pow(256, DecodedSize(n))
<1> DEFINE e == DecodedSize(n)
<1>1. e \in Nat /\ 129 * n <= 176 * e
  BY DEF DecodedSize
<1> HIDE DEF e
<1>0. Pow(256, e) \in Nat /\ Pow(58, n) \in Nat
  BY ONLY n \in Nat, <1>1, 58 \in Nat, 256 \in Nat, PowNat
<1>2. ASSUME Pow(256, e) < Pow(58, n) PROVE FALSE
  <2>1. Pow(256, e) \in Nat /\ Pow(58, n) \in Nat
    BY <1>0
  <2>2. Pow(Pow(256, e), 22) < Pow(Pow(58, n), 22)
    BY <1>2, <2>1, PowStrict
  <2>3. Pow(Pow(58, n), 22) = Pow(Pow(58, 22), n)
    <3>1. Pow(Pow(58, n), 22) = Pow(58, n * 22) /\ Pow(Pow(58, 22), n) = Pow(58, 22 * n)
      BY <1>1, PowPow
    <3> QED
      BY <1>1, <3>1
  <2>4. Pow(Pow(256, e), 22) = Pow(2, 176 * e)
    <3>1. Pow(256, e) = Pow(2, 8 * e)
      BY <1>1, Logarithms, PowPow
    <3>2. 8 * e \in Nat /\ (8 * e) * 22 = 176 * e
      BY <1>1
    <3>3. Pow(Pow(2, 8 * e), 22) = Pow(2, (8 * e) * 22)
      BY <3>2, PowPow
    <3> QED
      BY <3>1, <3>2, <3>3
  <2>5. Pow(2, 129 * n) <= Pow(2, 176 * e)
    <3>1. 129 * n \in Nat /\ 176 * e \in Nat
      BY <1>1
    <3> QED
      BY <1>1, <3>1, PowGrows
  <2>6. Pow(2, 129 * n) = Pow(Pow(2, 129), n)
    BY <1>1, PowPow
  <2>7. Pow(2, 129) \in Nat /\ Pow(58, 22) \in Nat
    BY PowDef
  <2>8. Pow(Pow(58, 22), n) <= Pow(Pow(2, 129), n)
    BY <1>1, <2>7, Logarithms, PowBase
  <2>9. Pow(Pow(2, 129), n) \in Nat /\ Pow(Pow(58, 22), n) \in Nat /\ Pow(2, 176 * e) \in Nat
    <3>1. 176 * e \in Nat
      BY <1>1
    <3> QED
      BY <1>1, <2>7, <3>1, PowNat
  <2> QED
    BY ONLY <2>2, <2>3, <2>4, <2>5, <2>6, <2>8, <2>9
<1> QED
  BY <1>0, <1>1, <1>2 DEF e

----------------------------------------------------------------------------
(* Leading characters.                                                     *)

\* Leading counts them.
LEMMA LeadingIs ==
    ASSUME NEW s \in Seq(Nat), NEW x \in Nat
    PROVE  /\ Leading(s, x) \in 0 .. Len(s)
           /\ \A i \in 1 .. Leading(s, x) : s[i] = x
           /\ Leading(s, x) < Len(s) => s[Leading(s, x) + 1] # x
<1> DEFINE a == Append(s, -1)
           I == {i \in 1 .. Len(a) : a[i] # x}
           k == Min(I)
<1>1. /\ Len(a) = Len(s) + 1 /\ a[Len(s) + 1] = -1 /\ Len(s) \in Nat
      /\ \A i \in 1 .. Len(s) : a[i] = s[i]
  OBVIOUS
<1>2. Leading(s, x) = (IF I # {} THEN k ELSE 0) - 1
  BY DEF Leading, SelectInSeq
<1> HIDE DEF a
<1>3. Len(s) + 1 \in I /\ I \subseteq Nat
  BY <1>1
<1> HIDE DEF I
<1>4. k \in I /\ \A y \in I : k <= y
  BY <1>3, Least DEF Min
<1> HIDE DEF k
<1>5. k \in 1 .. Len(s) + 1 /\ a[k] # x
  BY <1>1, <1>4 DEF I
<1>6. Leading(s, x) = k - 1
  BY <1>2, <1>4
<1>7. ASSUME NEW i \in 1 .. k - 1
      PROVE  s[i] = x
  <2>1. i \in 1 .. Len(s) /\ i \in 1 .. Len(a) /\ ~(k <= i)
    BY <1>1, <1>5
  <2>2. i \notin I
    BY <1>4, <2>1
  <2> QED
    BY <1>1, <2>1, <2>2 DEF I
<1>8. k - 1 < Len(s) => s[k] # x
  BY <1>1, <1>5
<1> QED
  BY <1>1, <1>5, <1>6, <1>7, <1>8

\* Nothing else does.
LEMMA LeadingUnique ==
    ASSUME NEW s \in Seq(Nat), NEW x \in Nat, NEW z \in 0 .. Len(s),
           \A i \in 1 .. z : s[i] = x, z < Len(s) => s[z + 1] # x
    PROVE  Leading(s, x) = z
<1> DEFINE k == Leading(s, x)
<1>1. k \in 0 .. Len(s) /\ (\A i \in 1 .. k : s[i] = x) /\ (k < Len(s) => s[k + 1] # x)
  BY LeadingIs
<1> HIDE DEF k
<1>2. Len(s) \in Nat
  OBVIOUS
<1>3. ~(k < z)
  <2>1. k < z => k + 1 \in 1 .. z /\ k < Len(s)
    BY <1>1, <1>2
  <2> QED
    BY <1>1, <2>1
<1>4. ~(z < k)
  <2>1. z < k => z + 1 \in 1 .. k /\ z < Len(s)
    BY <1>1, <1>2
  <2> QED
    BY <1>1, <2>1
<1> QED
  BY <1>1, <1>2, <1>3, <1>4 DEF k

\* A sequence that does not begin with x is left as it is.
LEMMA StripNone ==
    ASSUME NEW s \in Seq(Nat), NEW x \in Nat, Len(s) > 0 => s[1] # x
    PROVE  Leading(s, x) = 0 /\ Strip(s, x) = s
<1>1. 0 \in 0 .. Len(s) /\ \A i \in 1 .. 0 : s[i] = x
  OBVIOUS
<1>2. 0 < Len(s) => s[0 + 1] # x
  OBVIOUS
<1>3. Leading(s, x) = 0
  BY <1>1, <1>2, LeadingUnique
<1>4. Strip(s, x) = SubSeq(s, 1, Len(s))
  BY <1>3 DEF Strip
<1>5. SubSeq(s, 1, Len(s)) = s
  OBVIOUS
<1> QED
  BY <1>3, <1>4, <1>5

\* Without its leading zeroes, a sequence of digits is plain.
LEMMA StripPlain ==
    ASSUME NEW B \in Nat \ {0}, NEW s \in Seq(0 .. B - 1)
    PROVE  /\ Strip(s, 0) \in Seq(0 .. B - 1) /\ Plain(Strip(s, 0))
           /\ Number(Strip(s, 0), B) = Number(s, B)
           /\ Leading(s, 0) \in Nat
           /\ Repeat(0, Leading(s, 0)) \o Strip(s, 0) = s
<1> DEFINE k == Leading(s, 0)
           t == Strip(s, 0)
           r == Repeat(0, k)
<1>0. s \in Seq(Nat) /\ Len(s) \in Nat
  OBVIOUS
<1>1. k \in 0 .. Len(s) /\ (\A i \in 1 .. k : s[i] = 0) /\ (k < Len(s) => s[k + 1] # 0)
  BY <1>0, LeadingIs
<1>2. t = SubSeq(s, k + 1, Len(s))
  BY DEF Strip
<1> HIDE DEF k
<1>3. Number(t, B) = Number(s, B)
  BY <1>0, <1>1, <1>2, StripNumber
<1>4. /\ SubSeq(s, k + 1, Len(s)) \in Seq(0 .. B - 1)
      /\ Len(SubSeq(s, k + 1, Len(s))) = Len(s) - k
      /\ \A i \in 1 .. Len(s) - k : SubSeq(s, k + 1, Len(s))[i] = s[k + i]
  BY <1>1
<1> HIDE DEF t
<1>5. t \in Seq(0 .. B - 1) /\ Len(t) = Len(s) - k /\ \A i \in 1 .. Len(s) - k : t[i] = s[k + i]
  BY <1>2, <1>4
<1>6. Plain(t)
  <2>1. Len(t) > 0 => k < Len(s) /\ 1 \in 1 .. Len(s) - k
    BY <1>0, <1>1, <1>5
  <2> QED
    BY <1>1, <1>5, <2>1 DEF Plain
<1>7. r \in [1 .. k -> {0}] /\ \A i \in 1 .. k : r[i] = 0
  BY DEF Repeat
<1> HIDE DEF r
<1>8. r \in Seq({0}) /\ Len(r) = k
  BY <1>1, <1>7, LenProperties
<1>9. r \in Seq(Nat) /\ t \in Seq(Nat)
  BY <1>5, <1>8
<1>10. /\ r \o t \in Seq(Nat) /\ Len(r \o t) = Len(s)
       /\ \A i \in 1 .. Len(s) : (r \o t)[i] = IF i <= k THEN r[i] ELSE t[i - k]
  <2>1. /\ r \o t \in Seq(Nat) /\ Len(r \o t) = Len(r) + Len(t)
        /\ \A i \in 1 .. Len(r) + Len(t) :
             (r \o t)[i] = IF i <= Len(r) THEN r[i] ELSE t[i - Len(r)]
    BY ONLY <1>9, ConcatProperties
  <2>2. Len(r) + Len(t) = Len(s)
    BY ONLY <1>0, <1>1, <1>5, <1>8
  <2> QED
    BY ONLY <1>8, <2>1, <2>2
<1>11. ASSUME NEW i \in 1 .. Len(s)
       PROVE  (r \o t)[i] = s[i]
  <2>1. CASE i <= k
    <3>1. i \in 1 .. k
      BY <1>1, <2>1
    <3> QED
      BY <1>1, <1>7, <1>10, <2>1, <3>1
  <2>2. CASE ~(i <= k)
    <3>1. i - k \in 1 .. Len(s) - k /\ k + (i - k) = i
      BY <1>0, <1>1, <2>2
    <3> QED
      BY <1>5, <1>10, <2>2, <3>1
  <2> QED
    BY <2>1, <2>2
<1>12. r \o t = s
  BY <1>0, <1>10, <1>11, SeqEqual
<1> QED
  BY <1>1, <1>3, <1>5, <1>6, <1>12 DEF k, t, r

----------------------------------------------------------------------------
(* base58.                                                                 *)

B256 == 256
B58 == 58

\* A byte is a digit of base 256, a character one of base 58.
LEMMA Bases ==
    /\ B256 \in Nat \ {0} /\ B58 \in Nat \ {0} /\ Byte = 0 .. B256 - 1
    /\ Space \in Nat /\ \A c \in 0 .. B58 - 1 : c # Space /\ c # Other
  BY SMT DEF Byte, Space, Other, B256, B58

\* The room for digits of one base in the other.
LEMMA Rooms ==
    ASSUME NEW n \in Nat
    PROVE  /\ EncodedSize(n) \in Nat /\ Pow(B256, n) <= Pow(B58, EncodedSize(n))
           /\ DecodedSize(n) \in Nat /\ Pow(B58, n) <= Pow(B256, DecodedSize(n))
  BY EncodedRoom, DecodedRoom DEF B256, B58

\* The text of some bytes: a character for each leading zero, then plain digits
\* of the same number.
LEMMA Encodes ==
    ASSUME NEW bytes \in Seq(Byte)
    PROVE  \E t \in Seq(0 .. B58 - 1) :
             /\ Plain(t) /\ Number(t, B58) = Number(Strip(bytes, 0), B256)
             /\ base58_encode(bytes) = [text |-> Repeat(0, Leading(bytes, 0)) \o t, fits |-> TRUE]
<1> DEFINE s == Strip(bytes, 0)
           size == EncodedSize(Len(s))
<1>1. s \in Seq(0 .. B256 - 1)
  BY Bases, StripPlain
<1> HIDE DEF s
<1>2. Len(s) \in Nat /\ s \in Seq(Nat)
  BY <1>1, Bases
<1>3. size \in Nat /\ Pow(B256, Len(s)) <= Pow(B58, size)
  BY <1>2, Rooms
<1>4. Number(s, B256) < Pow(B256, Len(s))
  <2>1. Len(s) \in 0 .. Len(s)
    BY ONLY <1>2
  <2> QED
    BY ONLY <1>1, <2>1, Bases, NumbersBelow DEF Number
<1>5. Number(s, B256) \in Nat /\ Pow(B256, Len(s)) \in Nat /\ Pow(B58, size) \in Nat
  <2>1. Number(s, B256) \in Nat
    BY ONLY <1>2, Bases, NumberNat
  <2> QED
    BY <1>2, <1>3, <2>1, Bases, PowNat
<1>6. Number(s, B256) < Pow(B58, size)
  BY ONLY <1>3, <1>4, <1>5
<1> HIDE DEF size
<1>7. PICK e \in Seq(0 .. B58 - 1) :
        /\ Convert(s, B256, B58, size) = [digits |-> e, fits |-> TRUE]
        /\ Len(e) = size /\ Number(e, B58) = Number(s, B256)
  BY <1>2, <1>3, <1>6, Bases, ConvertRight
<1> DEFINE t == Strip(e, 0)
<1>8. t \in Seq(0 .. B58 - 1) /\ Plain(t) /\ Number(t, B58) = Number(s, B256)
  BY <1>7, Bases, StripPlain
<1>9. base58_encode(bytes) = [text |-> Repeat(0, Leading(bytes, 0)) \o t, fits |-> TRUE]
  <2> DEFINE b == Convert(s, B256, B58, size)
  <2>1. base58_encode(bytes) = [text |-> Repeat(0, Leading(bytes, 0)) \o Strip(b.digits, 0), fits |-> b.fits]
    BY ONLY Zenon DEF base58_encode, s, size, B256, B58
  <2>2. b.digits = e /\ b.fits = TRUE
    BY ONLY <1>7
  <2> HIDE DEF b
  <2> QED
    BY ONLY <2>1, <2>2, Zenon
<1> HIDE DEF t
<1> QED
  BY <1>8, <1>9 DEF s

\* How a text of z times '1' and the digits t is taken apart.
LEMMA TakenApart ==
    ASSUME NEW z \in Nat, NEW t \in Seq(0 .. B58 - 1), Plain(t)
    PROVE  LET text == Repeat(0, z) \o t
           IN  Strip(text, Space) = text /\ Leading(text, 0) = z /\ Strip(text, 0) = t
<1> DEFINE r == Repeat(0, z)
           x == r \o t
<1>0. Len(t) \in Nat /\ \A i \in 1 .. Len(t) : t[i] \in 0 .. B58 - 1
  BY Bases
<1>1. r \in [1 .. z -> {0}] /\ \A i \in 1 .. z : r[i] = 0
  BY DEF Repeat
<1> HIDE DEF r
<1>2. r \in Seq({0}) /\ Len(r) = z
  BY <1>1, LenProperties
<1>3. r \in Seq(Nat) /\ t \in Seq(Nat)
  BY <1>2, Bases
<1>4. /\ x \in Seq(Nat) /\ Len(x) = Len(r) + Len(t)
      /\ \A i \in 1 .. Len(r) + Len(t) : x[i] = IF i <= Len(r) THEN r[i] ELSE t[i - Len(r)]
  BY ONLY <1>3, ConcatProperties
<1> HIDE DEF x
<1>5. /\ Len(x) = z + Len(t) /\ \A i \in 1 .. z : x[i] = 0
      /\ \A i \in 1 .. Len(t) : x[z + i] = t[i]
  <2>1. \A i \in 1 .. z : i \in 1 .. Len(r) + Len(t) /\ i <= Len(r)
    BY <1>0, <1>2
  <2>2. \A i \in 1 .. Len(t) : z + i \in 1 .. Len(r) + Len(t) /\ ~(z + i <= Len(r))
                               /\ (z + i) - Len(r) = i
    BY <1>0, <1>2
  <2>3. \A i \in 1 .. z : x[i] = 0
    BY ONLY <1>1, <1>4, <2>1
  <2>4. \A i \in 1 .. Len(t) : x[z + i] = t[i]
    BY ONLY <1>4, <2>2
  <2> QED
    BY ONLY <1>2, <1>4, <2>3, <2>4
<1>6. Len(x) > 0 => x[1] # Space
  <2>1. CASE z > 0
    <3>1. 1 \in 1 .. z /\ 0 \in 0 .. B58 - 1
      BY <2>1, Bases
    <3> QED
      BY <1>5, <3>1, Bases
  <2>2. CASE z = 0
    <3>1. Len(x) > 0 => 1 \in 1 .. Len(t) /\ z + 1 = 1
      BY <1>0, <1>5, <2>2
    <3> QED
      BY <1>0, <1>5, <3>1, Bases
  <2> QED
    BY <2>1, <2>2
<1>7. Strip(x, Space) = x
  BY <1>4, <1>6, Bases, StripNone
<1>8. Leading(x, 0) = z
  <2>1. z \in 0 .. Len(x)
    BY <1>0, <1>5
  <2>2. z < Len(x) => x[z + 1] # 0
    <3>1. z < Len(x) => 1 \in 1 .. Len(t) /\ Len(t) > 0
      BY <1>0, <1>5
    <3> QED
      BY <1>5, <3>1 DEF Plain
  <2> QED
    BY <1>4, <1>5, <2>1, <2>2, LeadingUnique
<1>9. Strip(x, 0) = SubSeq(x, z + 1, Len(x))
  BY <1>8 DEF Strip
<1>10. SubSeq(x, z + 1, Len(x)) = t
  <2> DEFINE y == SubSeq(x, z + 1, Len(x))
  <2>1. y \in Seq(Nat) /\ Len(y) = Len(t) /\ \A i \in 1 .. Len(t) : y[i] = x[z + i]
    <3>1. Len(x) - z = Len(t) /\ z + 1 \in 1 .. Len(x) + 1 /\ Len(x) \in Nat
      BY <1>0, <1>5
    <3> QED
      BY <1>0, <1>4, <3>1
  <2> HIDE DEF y
  <2>2. y = t
    BY <1>3, <1>5, <2>1, SeqEqual
  <2> QED
    BY <2>2 DEF y
<1> QED
  BY <1>7, <1>8, <1>9, <1>10 DEF x, r

\* The digits of a text without spaces end at its end.
LEMMA NoSpace ==
    ASSUME NEW t \in Seq(0 .. B58 - 1)
    PROVE  BeforeSpace(t) = Len(t)
<1> DEFINE a == Append(t, Space)
           I == {i \in 1 .. Len(a) : a[i] = Space}
<1>1. /\ Len(a) = Len(t) + 1 /\ a[Len(t) + 1] = Space /\ Len(t) \in Nat
      /\ \A i \in 1 .. Len(t) : a[i] = t[i] /\ t[i] \in 0 .. B58 - 1
  BY Bases
<1>2. BeforeSpace(t) = (IF I # {} THEN Min(I) ELSE 0) - 1
  BY DEF BeforeSpace, SelectInSeq
<1> HIDE DEF a
<1>3. ASSUME NEW i \in I
      PROVE  i = Len(t) + 1
  <2>1. i \in 1 .. Len(t) + 1 /\ a[i] = Space
    BY <1>1
  <2>2. i \notin 1 .. Len(t)
    BY <1>1, <2>1, Bases
  <2> QED
    BY <1>1, <2>1, <2>2
<1>4. Len(t) + 1 \in I
  BY <1>1
<1>5. I = {Len(t) + 1}
  BY <1>3, <1>4
<1> HIDE DEF I
<1>6. Min(I) = Len(t) + 1
  BY <1>1, <1>5 DEF Min
<1> QED
  BY <1>1, <1>2, <1>4, <1>6

\* base58 decodes what it encoded, and no assertion of the conversions fails:
\* for bytes of every number, with any number of zeroes in front, the buffers
\* sized by the rounded logarithms of base58_encode and base58_decode suffice.
THEOREM Base58RoundTrip ==
    ASSUME NEW bytes \in Seq(Byte)
    PROVE  /\ base58_encode(bytes).fits = TRUE
           /\ base58_decode(base58_encode(bytes).text) = [ok |-> TRUE, fits |-> TRUE, bytes |-> bytes]
<1> DEFINE s == Strip(bytes, 0)
           z == Leading(bytes, 0)
<1>1. PICK t \in Seq(0 .. B58 - 1) :
        /\ Plain(t) /\ Number(t, B58) = Number(s, B256)
        /\ base58_encode(bytes) = [text |-> Repeat(0, z) \o t, fits |-> TRUE]
  BY Encodes
<1> DEFINE text == Repeat(0, z) \o t
           size == DecodedSize(Len(t))
           n == BeforeSpace(t)
<1>2. /\ s \in Seq(0 .. B256 - 1) /\ Plain(s) /\ z \in Nat /\ Repeat(0, z) \o s = bytes
  BY Bases, StripPlain
<1> HIDE DEF s, z
<1>3. Strip(text, Space) = text /\ Leading(text, 0) = z /\ Strip(text, 0) = t
  BY <1>1, <1>2, TakenApart
<1> HIDE DEF text
<1>4. n = Len(t)
  BY <1>1, NoSpace
<1>5. Len(t) \in Nat /\ t \in Seq(Nat) /\ \A i \in 1 .. Len(t) : t[i] \in 0 .. B58 - 1
  BY <1>1, Bases
<1>6. SubSeq(t, 1, Len(t)) = t
  BY <1>5
<1>7. size \in Nat /\ Pow(B58, Len(t)) <= Pow(B256, size)
  BY <1>5, Rooms
<1>8. Number(t, B58) < Pow(B58, Len(t))
  <2>1. Len(t) \in 0 .. Len(t)
    BY ONLY <1>5
  <2> QED
    BY ONLY t \in Seq(0 .. B58 - 1), <2>1, Bases, NumbersBelow DEF Number
<1>9. Number(t, B58) \in Nat /\ Pow(B58, Len(t)) \in Nat /\ Pow(B256, size) \in Nat
  <2>1. Number(t, B58) \in Nat
    BY ONLY <1>5, Bases, NumberNat
  <2> QED
    BY <1>5, <1>7, <2>1, Bases, PowNat
<1>10. Number(t, B58) < Pow(B256, size)
  BY ONLY <1>7, <1>8, <1>9
<1> HIDE DEF size
<1>11. PICK e \in Seq(0 .. B256 - 1) :
        /\ Convert(t, B58, B256, size) = [digits |-> e, fits |-> TRUE]
        /\ Len(e) = size /\ Number(e, B256) = Number(t, B58)
  BY <1>5, <1>7, <1>10, Bases, ConvertRight
<1>12. Strip(e, 0) \in Seq(0 .. B256 - 1) /\ Plain(Strip(e, 0)) /\ Number(Strip(e, 0), B256) = Number(s, B256)
  BY <1>1, <1>11, Bases, StripPlain
<1>13. Strip(e, 0) = s
  BY <1>2, <1>12, Bases, SameDigits
<1>14. /\ \A i \in 1 .. n : t[i] # Other
       /\ \A i \in n + 1 .. Len(t) : t[i] = Space
  BY <1>4, <1>5, Bases
<1>15. base58_decode(text)
         = IF /\ \A i \in 1 .. n : t[i] # Other
              /\ \A i \in n + 1 .. Len(t) : t[i] = Space
           THEN [ok |-> TRUE, fits |-> Convert(SubSeq(t, 1, n), B58, B256, size).fits,
                 bytes |-> Repeat(0, z) \o Strip(Convert(SubSeq(t, 1, n), B58, B256, size).digits, 0)]
           ELSE [ok |-> FALSE, fits |-> TRUE, bytes |-> <<>>]
  <2> DEFINE D(u, k) ==
        IF /\ \A i \in 1 .. BeforeSpace(u) : u[i] # Other
           /\ \A i \in BeforeSpace(u) + 1 .. Len(u) : u[i] = Space
        THEN [ok |-> TRUE,
              fits |-> Convert(SubSeq(u, 1, BeforeSpace(u)), B58, B256, DecodedSize(Len(u))).fits,
              bytes |-> Repeat(0, k) \o
                Strip(Convert(SubSeq(u, 1, BeforeSpace(u)), B58, B256, DecodedSize(Len(u))).digits, 0)]
        ELSE [ok |-> FALSE, fits |-> TRUE, bytes |-> <<>>]
  <2>1. base58_decode(text) = D(Strip(Strip(text, Space), 0), Leading(Strip(text, Space), 0))
    BY ONLY Zenon DEF base58_decode, B256, B58
  <2> HIDE DEF D
  <2>2. base58_decode(text) = D(t, z)
    BY ONLY <1>3, <2>1
  <2> QED
    BY ONLY <2>2, Zenon DEF D, size
<1> HIDE DEF n
<1>16. Convert(SubSeq(t, 1, n), B58, B256, size) = [digits |-> e, fits |-> TRUE]
  BY ONLY <1>4, <1>6, <1>11
<1>17. base58_decode(text) = [ok |-> TRUE, fits |-> TRUE, bytes |-> bytes]
  <2> DEFINE b == Convert(SubSeq(t, 1, n), B58, B256, size)
  <2>1. b.digits = e /\ b.fits = TRUE
    BY ONLY <1>16
  <2> HIDE DEF b
  <2>2. base58_decode(text) = [ok |-> TRUE, fits |-> b.fits, bytes |-> Repeat(0, z) \o Strip(b.digits, 0)]
    BY ONLY <1>14, <1>15, Zenon DEF b
  <2>3. base58_decode(text) = [ok |-> TRUE, fits |-> TRUE, bytes |-> Repeat(0, z) \o s]
    BY ONLY <1>13, <2>1, <2>2, Zenon
  <2> QED
    BY ONLY <1>2, <2>3, Zenon
<1> QED
  BY ONLY <1>1, <1>17 DEF text

----------------------------------------------------------------------------
(* Keys.                                                                   *)

\* A type, the bytes of a key and their checksum, and how they are read back.
Framed(pk, ty, p, c) ==
    /\ pk \in Seq(Byte) /\ Len(pk) = Len(p) + 5 /\ pk # <<>>
    /\ pk[1] = ty /\ Payload(pk) = p /\ Checksum(pk) = c

LEMMA FramedIs ==
    ASSUME NEW ty \in Byte, NEW p \in Seq(Byte), NEW c \in [1 .. 4 -> Byte]
    PROVE  Framed(<<ty>> \o p \o c, ty, p, c)
<1> DEFINE a == <<ty>>
           b == a \o p
           pk == b \o c
<1>1. a \in Seq(Byte) /\ Len(a) = 1 /\ a[1] = ty
  OBVIOUS
<1> HIDE DEF a
<1>2. c \in Seq(Byte) /\ Len(c) = 4
  <2> DEFINE n == 4
  <2>1. n \in Nat /\ c \in [1 .. n -> Byte]
    OBVIOUS
  <2> HIDE DEF n
  <2>2. c \in Seq(Byte) /\ Len(c) = n
    BY <2>1, LenProperties
  <2> QED
    BY <2>2 DEF n
<1>3. Len(p) \in Nat
  OBVIOUS
<1>4. /\ b \in Seq(Byte) /\ Len(b) = Len(a) + Len(p)
      /\ \A i \in 1 .. Len(a) + Len(p) : b[i] = IF i <= Len(a) THEN a[i] ELSE p[i - Len(a)]
  BY ONLY p \in Seq(Byte), <1>1, ConcatProperties
<1> HIDE DEF b
<1>5. /\ pk \in Seq(Byte) /\ Len(pk) = Len(b) + Len(c)
      /\ \A i \in 1 .. Len(b) + Len(c) : pk[i] = IF i <= Len(b) THEN b[i] ELSE c[i - Len(b)]
  <2>1. b \in Seq(Byte) /\ c \in Seq(Byte)
    BY <1>2, <1>4
  <2> QED
    BY ONLY <2>1, ConcatProperties
<1> HIDE DEF pk
<1>6. Len(pk) = Len(p) + 5 /\ pk # <<>>
  BY <1>1, <1>2, <1>3, <1>4, <1>5
<1>7. pk[1] = ty
  BY <1>1, <1>2, <1>3, <1>4, <1>5
<1>8. \A i \in 1 .. Len(p) : pk[i + 1] = p[i]
  BY <1>1, <1>2, <1>3, <1>4, <1>5
<1>9. \A i \in 1 .. 4 : pk[Len(p) + 1 + i] = c[i]
  BY <1>1, <1>2, <1>3, <1>4, <1>5
<1>10. Payload(pk) = p
  <2> DEFINE q == Payload(pk)
  <2>1. q = SubSeq(pk, 2, Len(p) + 1)
    BY <1>3, <1>6 DEF Payload
  <2>2. q \in Seq(Byte) /\ Len(q) = Len(p) /\ \A i \in 1 .. Len(p) : q[i] = pk[i + 1]
    BY <1>3, <1>5, <1>6, <2>1
  <2> HIDE DEF q
  <2>3. q = p
    BY <1>8, <2>2, SeqEqual
  <2> QED
    BY <2>3 DEF q
<1>11. Checksum(pk) = c
  <2> DEFINE q == Checksum(pk)
  <2>1. q = SubSeq(pk, Len(p) + 2, Len(p) + 5)
    BY <1>3, <1>6 DEF Checksum
  <2>2. q \in Seq(Byte) /\ Len(q) = 4 /\ \A i \in 1 .. 4 : q[i] = pk[Len(p) + 1 + i]
    BY <1>3, <1>5, <1>6, <2>1
  <2> HIDE DEF q
  <2>3. q = c
    BY <1>2, <1>9, <2>2, SeqEqual
  <2> QED
    BY <2>3 DEF q
<1> QED
  BY <1>5, <1>6, <1>7, <1>10, <1>11 DEF Framed, pk, b, a

\* No assertion of the conversion to the text e failed, and e is parsed as a key
\* of type ty with bytes p.
Reads(e, types, room, ty, p) ==
    /\ e.fits = TRUE
    /\ Parsed(e.text, types, room) = [outcome |-> "key", type |-> ty, payload |-> p]

\* A key that was written as text is parsed as the same key: its type is known,
\* its checksum matches and its bytes are the ones written.
LEMMA ParsesWritten ==
    ASSUME NEW ty \in Byte, NEW p \in Seq(Byte), NEW types, ty \in types,
           NEW room \in Nat, Len(p) <= room,
           calculate_checksum(p, ty) \in [1 .. 4 -> Byte]
    PROVE  Reads(base58_encode(<<ty>> \o p \o calculate_checksum(p, ty)), types, room, ty, p)
<1> DEFINE c == calculate_checksum(p, ty)
           pk == <<ty>> \o p \o c
           e == base58_encode(pk)
<1>1. Framed(pk, ty, p, c)
  BY FramedIs
<1> HIDE DEF pk
<1>2. e.fits = TRUE /\ base58_decode(e.text) = [ok |-> TRUE, fits |-> TRUE, bytes |-> pk]
  BY <1>1, Base58RoundTrip DEF Framed
<1> HIDE DEF e
<1>3. base58_decode(e.text).bytes = pk
  BY <1>2
<1>4. /\ pk # <<>> /\ pk[1] = ty /\ Payload(pk) = p /\ Checksum(pk) = c
      /\ ~(Len(pk) < 5) /\ ~(Len(Payload(pk)) > room)
  BY <1>1 DEF Framed
<1>5. Parsed(e.text, types, room) = [outcome |-> "key", type |-> ty, payload |-> p]
  BY <1>3, <1>4, Zenon DEF Parsed
<1> QED
  BY <1>2, <1>5 DEF Reads, e, pk

\* For every secret whose checksum is 4 bytes: the text that private_key makes
\* of it, whatever zeroes it starts with, is parsed as an account's private key
\* with that secret.
THEOREM PrivateKeyRoundTrip ==
    ASSUME NEW secret \in [1 .. SecretSize -> Byte],
           calculate_checksum(secret, account_private_key) \in [1 .. 4 -> Byte]
    PROVE  LET e == base58_encode(PrivateBytes(secret))
           IN  /\ e.fits = TRUE
               /\ private_key(e.text) = [outcome |-> "key", type |-> account_private_key,
                                         payload |-> secret]
<1>1. secret \in Seq(Byte) /\ Len(secret) = SecretSize
  BY SizeAssumption, LenProperties
<1>2. Len(secret) <= SecretSize
  BY <1>1, SizeAssumption
<1>3. account_private_key \in Byte
  BY SMT DEF account_private_key, Byte
<1> DEFINE types == {account_private_key, smart_contract_private_key}
<1>4. account_private_key \in types
  OBVIOUS
<1> HIDE DEF types
<1>5. Reads(base58_encode(PrivateBytes(secret)), types, SecretSize, account_private_key, secret)
  BY <1>1, <1>2, <1>3, <1>4, SizeAssumption, ParsesWritten DEF PrivateBytes
<1> QED
  BY ONLY <1>5, Zenon DEF Reads, types, private_key

\* The same for the address that create_public_key makes of a secret: its text
\* is parsed as an account's public key with the secret's hash.
THEOREM PublicKeyRoundTrip ==
    ASSUME NEW secret, hash160(secret) \in [1 .. HashSize -> Byte],
           calculate_checksum(hash160(secret), account_public_key) \in [1 .. 4 -> Byte]
    PROVE  LET e == base58_encode(create_public_key(secret))
           IN  /\ e.fits = TRUE
               /\ public_key(e.text) = [outcome |-> "key", type |-> account_public_key,
                                        payload |-> hash160(secret)]
<1> DEFINE h == hash160(secret)
<1>0. create_public_key(secret) = <<account_public_key>> \o h \o calculate_checksum(h, account_public_key)
  BY DEF create_public_key
<1>1. h \in Seq(Byte) /\ Len(h) = HashSize
  BY SizeAssumption, LenProperties
<1>2. Len(h) <= HashSize
  BY <1>1, SizeAssumption
<1>3. account_public_key \in Byte
  BY SMT DEF account_public_key, Byte
<1> HIDE DEF h
<1> DEFINE types == {account_public_key, smart_contract_public_key}
<1>4. account_public_key \in types /\ calculate_checksum(h, account_public_key) \in [1 .. 4 -> Byte]
  BY DEF h
<1> HIDE DEF types
<1>5. Reads(base58_encode(create_public_key(secret)), types, HashSize, account_public_key, h)
  BY ONLY <1>0, <1>1, <1>2, <1>3, <1>4, SizeAssumption, ParsesWritten
<1> QED
  BY ONLY <1>5, Zenon DEF Reads, h, types, public_key

=============================================================================
