-------------------------- MODULE ArithmeticLemmas --------------------------
(***************************************************************************)
(* Facts about natural numbers that several proofs use: least elements,    *)
(* division and remainders (the virtual machine's registers wrap, and its  *)
(* EXP recurs on half the exponent), functions that recur from one number  *)
(* to the next, and powers (the loops of base58).                          *)
(***************************************************************************)
EXTENDS Integers, WellFoundedInduction, TLAPS

\* Every nonempty set of naturals has a least element.
LEMMA Least ==
    ASSUME NEW T, T \subseteq Nat, T # {}
    PROVE  \E x \in T : \A y \in T : x <= y
<1> DEFINE R == {ss \in Nat \X Nat : ss[1] < ss[2]}
<1>1. IsWellFoundedOn(R, Nat)
  BY NatLessThanWellFounded DEF OpToRel
<1>2. \A x, y \in Nat : y < x => <<y, x>> \in R
  OBVIOUS
<1> HIDE DEF R
<1>3. PICK x \in T : \A y \in T : ~ (<<y, x>> \in R)
  BY <1>1, WFMin
<1>4. ASSUME NEW y \in T
      PROVE  x <= y
  <2>1. x \in Nat /\ y \in Nat /\ ~(y < x)
    BY <1>2, <1>3
  <2> QED
    BY <2>1
<1> QED
  BY <1>4

\* Induction, with the property as a set.
LEMMA Induct ==
    ASSUME NEW S, 0 \in S, \A n \in Nat : n \in S => n + 1 \in S
    PROVE  Nat \subseteq S
<1> SUFFICES ASSUME Nat \ S # {}
             PROVE  FALSE
  OBVIOUS
<1>1. PICK x \in Nat \ S : \A y \in Nat \ S : x <= y
  BY Least
<1>2. x # 0 /\ x - 1 \in Nat /\ x - 1 \notin Nat \ S
  BY <1>1
<1> QED
  BY <1>2

\* Induction from all smaller numbers.
LEMMA StrongInduct ==
    ASSUME NEW S, \A n \in Nat : (\A m \in 0 .. n - 1 : m \in S) => n \in S
    PROVE  Nat \subseteq S
<1> SUFFICES ASSUME Nat \ S # {}
             PROVE  FALSE
  OBVIOUS
<1>1. PICK x \in Nat \ S : \A y \in Nat \ S : x <= y
  BY Least
<1>2. \A m \in 0 .. x - 1 : m \in Nat /\ ~(x <= m)
  BY <1>1
<1>3. \A m \in 0 .. x - 1 : m \in S
  BY <1>1, <1>2
<1> QED
  BY <1>1, <1>3

\* A remainder is below the modulus.
LEMMA Mod ==
    ASSUME NEW W \in Nat \ {0}, NEW x \in Int
    PROVE  x % W \in 0 .. W - 1
  OBVIOUS

\* What is below the modulus is its own remainder.
LEMMA ModSmall ==
    ASSUME NEW W \in Nat \ {0}, NEW x \in 0 .. W - 1
    PROVE  x % W = x
  OBVIOUS

\* A number that is a little negative wraps once.
LEMMA ModNeg ==
    ASSUME NEW W \in Nat \ {0}, NEW x \in Int, x < 0, -W <= x
    PROVE  x % W = x + W
  OBVIOUS

\* Quotient and remainder.
LEMMA DivMod ==
    ASSUME NEW W \in Nat \ {0}, NEW x \in Int
    PROVE  x \div W \in Int /\ x = W * (x \div W) + (x % W)
  OBVIOUS

\* A quotient is not above its dividend.
LEMMA DivNat ==
    ASSUME NEW W \in Nat \ {0}, NEW x \in Nat
    PROVE  x \div W \in 0 .. x
  OBVIOUS

\* Adding a multiple does not change the remainder.
LEMMA ModUnique ==
    ASSUME NEW W \in Nat \ {0}, NEW q \in Int, NEW r \in 0 .. W - 1
    PROVE  (W * q + r) % W = r
  OBVIOUS

\* A factor may be reduced before a multiplication.
LEMMA ModMul ==
    ASSUME NEW W \in Nat \ {0}, NEW a \in Int, NEW b \in Int
    PROVE  ((a % W) * b) % W = (a * b) % W
<1> DEFINE q == a \div W
           r == a % W
           s == (r * b) \div W
           t == (r * b) % W
<1>1. q \in Int /\ r \in Int /\ a = W * q + r
  BY DivMod
<1>2. r * b \in Int
  BY <1>1
<1>3. s \in Int /\ t \in 0 .. W - 1 /\ r * b = W * s + t
  BY <1>2, DivMod, Mod
<1> HIDE DEF q, r, s, t
<1>4. a * b = W * (q * b + s) + t
  BY <1>1, <1>3
<1>5. q * b + s \in Int
  BY <1>1, <1>3
<1>6. (a * b) % W = t
  BY <1>3, <1>4, <1>5, ModUnique
<1> QED
  BY <1>6 DEF t, r

----------------------------------------------------------------------------
(* Recursion: a function is defined by its first value and a step.         *)

\* f follows the recursion up to n.
Follows(f, a, g, n) == f[0] = a /\ \A i \in 0 .. n - 1 : f[i + 1] = g[<<i + 1, f[i]>>]

\* There is such a function for every n.
LEMMA FollowsExists ==
    ASSUME NEW T, NEW a \in T, NEW g \in [Nat \X T -> T], NEW n \in Nat
    PROVE  \E f \in [Nat -> T] : Follows(f, a, g, n)
<1> DEFINE S == {m \in Nat : \E f \in [Nat -> T] : Follows(f, a, g, m)}
<1>1. 0 \in S
  <2> DEFINE f == [i \in Nat |-> a]
  <2>1. f \in [Nat -> T] /\ Follows(f, a, g, 0)
    BY DEF Follows
  <2> QED
    BY <2>1
<1>2. ASSUME NEW m \in Nat, m \in S
      PROVE  m + 1 \in S
  <2>1. PICK f \in [Nat -> T] : Follows(f, a, g, m)
    BY <1>2
  <2> DEFINE h == [i \in Nat |-> IF i = m + 1 THEN g[<<m + 1, f[m]>>] ELSE f[i]]
  <2>2. h \in [Nat -> T]
    OBVIOUS
  <2>3. h[0] = a
    BY <2>1 DEF Follows
  <2>4. ASSUME NEW i \in 0 .. m
        PROVE  h[i + 1] = g[<<i + 1, h[i]>>]
    <3>1. h[i] = f[i] /\ (i # m => h[i + 1] = f[i + 1] /\ i \in 0 .. m - 1)
      OBVIOUS
    <3>2. i = m => h[i + 1] = g[<<m + 1, f[m]>>]
      OBVIOUS
    <3> HIDE DEF h
    <3>3. i # m => f[i + 1] = g[<<i + 1, f[i]>>]
      BY <2>1, <3>1 DEF Follows
    <3> QED
      BY <3>1, <3>2, <3>3
  <2> HIDE DEF h
  <2>5. Follows(h, a, g, m + 1)
    BY <2>3, <2>4 DEF Follows
  <2> QED
    BY <2>2, <2>5
<1> HIDE DEF S
<1>3. Nat \subseteq S
  BY <1>1, <1>2, Induct
<1> QED
  BY <1>3 DEF S

\* Two that follow it agree.
LEMMA FollowsAgree ==
    ASSUME NEW a, NEW g, NEW m \in Nat, NEW n \in Nat, m <= n, NEW f, NEW h,
           Follows(f, a, g, m), Follows(h, a, g, n)
    PROVE  \A i \in 0 .. m : f[i] = h[i]
<1> DEFINE S == {i \in Nat : i <= m => f[i] = h[i]}
<1>1. 0 \in S
  BY DEF Follows
<1>2. ASSUME NEW i \in Nat, i \in S
      PROVE  i + 1 \in S
  <2> SUFFICES ASSUME i + 1 <= m PROVE f[i + 1] = h[i + 1]
    OBVIOUS
  <2>1. i \in 0 .. m - 1 /\ i \in 0 .. n - 1 /\ f[i] = h[i]
    BY <1>2
  <2> QED
    BY <2>1 DEF Follows
<1> HIDE DEF S
<1>3. Nat \subseteq S
  BY <1>1, <1>2, Induct
<1> QED
  BY <1>3 DEF S

\* f follows the recursion for ever.
Recurs(f, a, g) == f[0] = a /\ \A i \in Nat : f[i + 1] = g[<<i + 1, f[i]>>]

\* One function does.
LEMMA Recursion ==
    ASSUME NEW T, NEW a \in T, NEW g \in [Nat \X T -> T]
    PROVE  \E f \in [Nat -> T] : Recurs(f, a, g)
<1> DEFINE F(n) == CHOOSE f \in [Nat -> T] : Follows(f, a, g, n)
           f == [n \in Nat |-> F(n)[n]]
<1>1. \A n \in Nat : F(n) \in [Nat -> T] /\ Follows(F(n), a, g, n)
  BY FollowsExists
<1> HIDE DEF F
<1>2. f \in [Nat -> T]
  BY <1>1
<1>3. f[0] = a
  BY <1>1 DEF Follows
<1>4. ASSUME NEW i \in Nat
      PROVE  f[i + 1] = g[<<i + 1, f[i]>>]
  <2>1. i + 1 \in Nat /\ i <= i + 1 /\ i \in 0 .. i /\ i \in 0 .. (i + 1) - 1
    OBVIOUS
  <2>2. F(i)[i] = F(i + 1)[i]
    BY <1>1, <2>1, FollowsAgree
  <2>3. F(i + 1)[i + 1] = g[<<i + 1, F(i + 1)[i]>>]
    BY <1>1, <2>1 DEF Follows
  <2> QED
    BY <2>1, <2>2, <2>3
<1> HIDE DEF f
<1> QED
  BY <1>2, <1>3, <1>4 DEF Recurs

\* And one that is defined up to n only.
LEMMA RecursionTo ==
    ASSUME NEW T, NEW a \in T, NEW g \in [Nat \X T -> T], NEW n \in Nat
    PROVE  \E f \in [0 .. n -> T] : Follows(f, a, g, n)
<1>1. PICK f \in [Nat -> T] : Follows(f, a, g, n)
  BY FollowsExists
<1> DEFINE h == [i \in 0 .. n |-> f[i]]
<1>2. h \in [0 .. n -> T] /\ 0 \in 0 .. n /\ \A i \in 0 .. n : h[i] = f[i]
  OBVIOUS
<1>3. \A i \in 0 .. n - 1 : i \in 0 .. n /\ i + 1 \in 0 .. n
  OBVIOUS
<1> HIDE DEF h
<1>4. Follows(h, a, g, n)
  BY <1>1, <1>2, <1>3 DEF Follows
<1> QED
  BY <1>2, <1>4

----------------------------------------------------------------------------
(* Powers of a natural number.                                             *)

PowFcn(v) == CHOOSE p : p = [k \in Nat |-> IF k = 0 THEN 1 ELSE p[k - 1] * v]
Pow(v, n) == PowFcn(v)[n]

\* They are what their recursion says.
LEMMA PowDef ==
    ASSUME NEW v \in Nat
    PROVE  Pow(v, 0) = 1 /\ \A n \in Nat : Pow(v, n) \in Nat /\ Pow(v, n + 1) = Pow(v, n) * v
<1> DEFINE g == [q \in Nat \X Nat |-> q[2] * v]
<1>0. 1 \in Nat /\ g \in [Nat \X Nat -> Nat]
  OBVIOUS
<1>1. \A i \in Nat, x \in Nat : g[<<i + 1, x>>] = x * v
  OBVIOUS
<1> HIDE DEF g
<1>2. PICK f \in [Nat -> Nat] : Recurs(f, 1, g)
  BY <1>0, Recursion
<1>3. f[0] = 1 /\ \A i \in Nat : f[i + 1] = f[i] * v
  BY <1>1, <1>2 DEF Recurs
<1>4. ASSUME NEW k \in Nat
      PROVE  f[k] = IF k = 0 THEN 1 ELSE f[k - 1] * v
  <2>1. k # 0 => k - 1 \in Nat /\ (k - 1) + 1 = k
    OBVIOUS
  <2> QED
    BY <1>3, <2>1
<1>5. f = [k \in Nat |-> IF k = 0 THEN 1 ELSE f[k - 1] * v]
  BY <1>4
<1>6. PowFcn(v) = [k \in Nat |-> IF k = 0 THEN 1 ELSE PowFcn(v)[k - 1] * v]
  BY <1>5 DEF PowFcn
<1> DEFINE p == PowFcn(v)
           S == {n \in Nat : p[n] \in Nat}
<1> HIDE DEF p
<1>7. p[0] = 1
  BY <1>6 DEF p
<1>8. ASSUME NEW n \in Nat
      PROVE  p[n + 1] = p[n] * v
  <2>1. n + 1 # 0 /\ n + 1 \in Nat /\ (n + 1) - 1 = n
    OBVIOUS
  <2> QED
    BY <1>6, <2>1 DEF p
<1>9. 0 \in S /\ \A n \in Nat : n \in S => n + 1 \in S
  BY <1>7, <1>8
<1> HIDE DEF S
<1>10. Nat \subseteq S
  BY <1>9, Induct
<1> QED
  BY <1>7, <1>8, <1>10 DEF S, Pow, p

\* They are naturals.
LEMMA PowNat ==
    ASSUME NEW v \in Nat, NEW n \in Nat
    PROVE  Pow(v, n) \in Nat
  BY PowDef

\* The first power.
LEMMA PowOne ==
    ASSUME NEW v \in Nat
    PROVE  Pow(v, 1) = v
<1>1. Pow(v, 0) = 1 /\ Pow(v, 0 + 1) = Pow(v, 0) * v
  BY PowDef
<1> QED
  BY <1>1

\* Powers of a positive number are positive.
LEMMA PowPos ==
    ASSUME NEW v \in Nat \ {0}, NEW n \in Nat
    PROVE  Pow(v, n) \in Nat \ {0}
<1> DEFINE S == {m \in Nat : Pow(v, m) \in Nat \ {0}}
<1>1. 0 \in S
  BY PowDef
<1>2. ASSUME NEW m \in Nat, m \in S
      PROVE  m + 1 \in S
  <2>1. Pow(v, m + 1) = Pow(v, m) * v /\ Pow(v, m) \in Nat \ {0}
    BY <1>2, PowDef
  <2>2. \A x, y \in Nat \ {0} : x * y \in Nat \ {0}
    OBVIOUS
  <2> QED
    BY <2>1, <2>2
<1> HIDE DEF S
<1> QED
  BY <1>1, <1>2, Induct DEF S

\* Exponents add.
LEMMA PowAdd ==
    ASSUME NEW v \in Nat, NEW j \in Nat, NEW k \in Nat
    PROVE  Pow(v, j + k) = Pow(v, j) * Pow(v, k)
<1> DEFINE S == {m \in Nat : Pow(v, j + m) = Pow(v, j) * Pow(v, m)}
<1>0. \A n \in Nat : Pow(v, n) \in Nat
  BY PowDef
<1>1. 0 \in S
  <2>1. j + 0 = j /\ Pow(v, 0) = 1
    BY PowDef
  <2> QED
    BY <1>0, <2>1
<1>2. ASSUME NEW m \in Nat, m \in S
      PROVE  m + 1 \in S
  <2>1. j + m \in Nat /\ j + (m + 1) = (j + m) + 1
    OBVIOUS
  <2>2. /\ Pow(v, (j + m) + 1) = Pow(v, j + m) * v
        /\ Pow(v, m + 1) = Pow(v, m) * v
    BY <2>1, PowDef
  <2>3. Pow(v, j + m) = Pow(v, j) * Pow(v, m)
    BY <1>2
  <2>4. \A x, y \in Nat : (x * y) * v = x * (y * v)
    OBVIOUS
  <2>5. Pow(v, (j + m) + 1) = Pow(v, j) * Pow(v, m + 1)
    BY <1>0, <2>2, <2>3, <2>4
  <2> QED
    BY <2>1, <2>5
<1> HIDE DEF S
<1> QED
  BY <1>1, <1>2, Induct DEF S

\* A power of a power.
LEMMA PowPow ==
    ASSUME NEW v \in Nat, NEW j \in Nat, NEW k \in Nat
    PROVE  Pow(Pow(v, j), k) = Pow(v, j * k)
<1> DEFINE S == {m \in Nat : Pow(Pow(v, j), m) = Pow(v, j * m)}
<1>0. Pow(v, j) \in Nat
  BY PowDef
<1>1. 0 \in S
  <2>1. j * 0 = 0 /\ Pow(v, 0) = 1 /\ Pow(Pow(v, j), 0) = 1
    BY <1>0, PowDef
  <2> QED
    BY <2>1
<1>2. ASSUME NEW m \in Nat, m \in S
      PROVE  m + 1 \in S
  <2>1. j * m \in Nat /\ j * (m + 1) = j * m + j
    OBVIOUS
  <2>2. Pow(Pow(v, j), m + 1) = Pow(Pow(v, j), m) * Pow(v, j)
    BY <1>0, PowDef
  <2>3. Pow(v, j * m + j) = Pow(v, j * m) * Pow(v, j)
    BY <2>1, PowAdd
  <2>4. Pow(Pow(v, j), m) = Pow(v, j * m)
    BY <1>2
  <2>5. Pow(Pow(v, j), m + 1) = Pow(v, j * (m + 1))
    BY <2>1, <2>2, <2>3, <2>4
  <2> QED
    BY <2>5
<1> HIDE DEF S
<1> QED
  BY <1>1, <1>2, Induct DEF S

\* Powers grow with the exponent.
LEMMA PowGrows ==
    ASSUME NEW v \in Nat \ {0}, NEW j \in Nat, NEW k \in Nat, j <= k
    PROVE  Pow(v, j) <= Pow(v, k)
<1>1. k - j \in Nat /\ k = j + (k - j)
  OBVIOUS
<1>2. Pow(v, k) = Pow(v, j) * Pow(v, k - j)
  BY <1>1, PowAdd
<1>3. Pow(v, j) \in Nat \ {0} /\ Pow(v, k - j) \in Nat \ {0}
  BY <1>1, PowPos
<1>4. \A x, y \in Nat \ {0} : x <= x * y
  OBVIOUS
<1> QED
  BY <1>2, <1>3, <1>4

\* Powers grow with the base.
LEMMA PowBase ==
    ASSUME NEW a \in Nat, NEW b \in Nat, a <= b, NEW n \in Nat
    PROVE  Pow(a, n) <= Pow(b, n)
<1> DEFINE S == {m \in Nat : Pow(a, m) <= Pow(b, m)}
<1>1. 0 \in S
  BY PowDef
<1>2. ASSUME NEW m \in Nat, m \in S
      PROVE  m + 1 \in S
  <2>1. /\ Pow(a, m) \in Nat /\ Pow(b, m) \in Nat /\ Pow(a, m) <= Pow(b, m)
        /\ Pow(a, m + 1) = Pow(a, m) * a /\ Pow(b, m + 1) = Pow(b, m) * b
    BY <1>2, PowDef
  <2>2. \A x, y \in Nat : x <= y => x * a <= y * b
    <3> SUFFICES ASSUME NEW x \in Nat, NEW y \in Nat, x <= y
                 PROVE  x * a <= y * b
      OBVIOUS
    <3>1. x * a <= y * a /\ y * a <= y * b
      OBVIOUS
    <3> QED
      BY <3>1
  <2> QED
    BY <2>1, <2>2
<1> HIDE DEF S
<1> QED
  BY <1>1, <1>2, Induct DEF S

\* Strictly, if there is a factor.
LEMMA PowStrict ==
    ASSUME NEW a \in Nat, NEW b \in Nat, a < b, NEW n \in Nat \ {0}
    PROVE  Pow(a, n) < Pow(b, n)
<1>1. n - 1 \in Nat /\ n = (n - 1) + 1 /\ b \in Nat \ {0}
  OBVIOUS
<1>2. Pow(a, n) = Pow(a, n - 1) * a /\ Pow(b, n) = Pow(b, n - 1) * b
  BY <1>1, PowDef
<1>3. Pow(a, n - 1) \in Nat /\ Pow(b, n - 1) \in Nat \ {0}
  BY <1>1, PowDef, PowPos
<1>4. Pow(a, n - 1) <= Pow(b, n - 1)
  BY <1>1, PowBase
<1>5. ASSUME NEW x \in Nat, NEW y \in Nat \ {0}, x <= y
      PROVE  x * a < y * b
  <2>1. x * a <= y * a
    BY <1>5
  <2>2. y * a < y * b
    OBVIOUS
  <2> QED
    BY <2>1, <2>2
<1> QED
  BY <1>2, <1>3, <1>4, <1>5

=============================================================================
