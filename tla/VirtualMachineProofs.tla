------------------------ MODULE VirtualMachineProofs ------------------------
(***************************************************************************)
(* Proofs about VirtualMachine, for every program, stack and span.         *)
(*                                                                         *)
(* TypeOK is inductive only for well-formed programs, and because what a   *)
(* call pushes lies in two cells of the stack (Frame).  FramesIntact says  *)
(* where a frame lies by the one above it; that a write below the stack    *)
(* pointer keeps off every frame needs the order of all pairs (Ordered).   *)
(* A tidy program's stack pointer is at or below the last frame: so a PUSH *)
(* or a CALL writes below all frames, a STORE is off them by assumption,   *)
(* and a RET at the last frame finds what its CALL has put there.          *)
(***************************************************************************)
EXTENDS VirtualMachine, ArithmeticLemmas, SequenceTheorems

----------------------------------------------------------------------------
(* EXP, the one instruction that is computed by recursion.  Its recursive  *)
(* function exists and has words as values; and with p the powers of the   *)
(* base, computed without any bound, it gives the remainder of p by the    *)
(* word, up to where int overflows.                                        *)

\* The spans as numbers.
LEMMA Spans ==
    /\ WordSpan \in Nat \ {0} /\ AddrSpan \in Nat \ {0} /\ IntSpan \in Nat \ {0}
    /\ StackSize \in Nat /\ StackSize < AddrSpan /\ StackSize % 8 = 0
    /\ 16 <= AddrSpan /\ 8 * AddrSpan <= WordSpan
    /\ 4 <= IntSpan /\ IntSpan <= WordSpan
  BY SpanAssumption, StackAssumption

\* Remainders by the spans.
LEMMA Wraps ==
    ASSUME NEW x \in Int
    PROVE  x % WordSpan \in Word /\ x % AddrSpan \in 0 .. AddrSpan - 1
  BY Mod, Spans DEF Word

\* A register, or a bit pattern of an int, read as signed.
LEMMA SignedInt ==
    ASSUME NEW v \in Int, NEW n \in Nat
    PROVE  Signed(v, n) \in Int
  BY DEF Signed

\* A step of the recursion gives a word, if the step before it gave a number.
LEMMA StepType ==
    ASSUME NEW v1 \in Word, NEW e, NEW n \in Nat, n # 0 => e[n \div 2] \in Int
    PROVE  ExpStep(v1, e, n) \in Word
<1>1. CASE n = 0
  BY <1>1, Spans DEF ExpStep, Word
<1>2. CASE n # 0
  <2> DEFINE temp == Signed(e[n \div 2] % IntSpan, IntSpan)
  <2>1. temp \in Int
    BY <1>2, Spans DEF Signed
  <2> HIDE DEF temp
  <2>2. temp * temp \in Int /\ v1 * temp \in Int
    BY <2>1 DEF Word
  <2>3. Signed((temp * temp) % IntSpan, IntSpan) \in Int
    BY <2>2, Spans DEF Signed
  <2>4. (v1 * temp) % WordSpan \in Int
    BY <2>2, Spans
  <2>5. ((v1 * temp) % WordSpan) * temp \in Int
    BY <2>1, <2>4
  <2>6. /\ Signed((temp * temp) % IntSpan, IntSpan) % WordSpan \in Word
        /\ (((v1 * temp) % WordSpan) * temp) % WordSpan \in Word
    BY <2>3, <2>5, Wraps
  <2> QED
    BY <1>2, <2>6 DEF ExpStep, temp
<1> QED
  BY <1>1, <1>2

\* A step depends on the result for half the exponent only.
LEMMA StepSame ==
    ASSUME NEW v1, NEW e, NEW f, NEW n \in Nat, n # 0 => e[n \div 2] = f[n \div 2]
    PROVE  ExpStep(v1, e, n) = ExpStep(v1, f, n)
  BY DEF ExpStep

\* The recursion of Exp defines a function.
LEMMA ExpsExist ==
    ASSUME NEW v1 \in Word, NEW v2 \in Nat
    PROVE  \E f \in [0 .. v2 -> Word] : f = [n \in 0 .. v2 |-> ExpStep(v1, f, n)]
<1> DEFINE S == {m \in Nat : \E f \in [0 .. m -> Word] :
                                f = [n \in 0 .. m |-> ExpStep(v1, f, n)]}
<1>1. 0 \in S
  <2> DEFINE f == [n \in 0 .. 0 |-> 1]
  <2>1. f \in [0 .. 0 -> Word]
    BY Spans DEF Word
  <2>2. f = [n \in 0 .. 0 |-> ExpStep(v1, f, n)]
    BY DEF ExpStep
  <2> HIDE DEF f
  <2> QED
    BY <2>1, <2>2
<1>2. ASSUME NEW m \in Nat, m \in S
      PROVE  m + 1 \in S
  <2>1. PICK f \in [0 .. m -> Word] : f = [n \in 0 .. m |-> ExpStep(v1, f, n)]
    BY <1>2
  <2> DEFINE g == [n \in 0 .. m + 1 |->
                      IF n \in 0 .. m THEN f[n] ELSE ExpStep(v1, f, n)]
  <2>2. \A n \in 0 .. m + 1 : n # 0 => n \div 2 \in 0 .. m
    OBVIOUS
  <2>3. ExpStep(v1, f, m + 1) \in Word
    <3>1. (m + 1) \div 2 \in 0 .. m /\ f[(m + 1) \div 2] \in Int
      BY <2>1 DEF Word
    <3> QED
      BY <3>1, StepType
  <2>4. g \in [0 .. m + 1 -> Word]
    BY <2>1, <2>3
  <2>5. ASSUME NEW n \in 0 .. m + 1
        PROVE  g[n] = ExpStep(v1, g, n)
    <3>1. n # 0 => g[n \div 2] = f[n \div 2]
      BY <2>2
    <3>2. ExpStep(v1, g, n) = ExpStep(v1, f, n)
      BY <3>1, StepSame
    <3>3. CASE n \in 0 .. m
      <4>1. g[n] = f[n] /\ f[n] = ExpStep(v1, f, n)
        BY <2>1, <3>3
      <4> QED
        BY <3>2, <4>1
    <3>4. CASE n = m + 1
      <4>1. g[n] = ExpStep(v1, f, n)
        BY <3>4
      <4> QED
        BY <3>2, <4>1
    <3> QED
      BY <3>3, <3>4
  <2> HIDE DEF g
  <2>6. g = [n \in 0 .. m + 1 |-> ExpStep(v1, g, n)]
    BY <2>4, <2>5
  <2> QED
    BY <2>4, <2>6
<1> HIDE DEF S
<1>3. v2 \in S
  BY <1>1, <1>2, Induct
<1> QED
  BY <1>3 DEF S

\* The recursive function of Exp.
Exps(v1, v2) == CHOOSE e : e = [n \in 0 .. v2 |-> ExpStep(v1, e, n)]

\* It is what its recursion says, and gives words.
LEMMA ExpsAre ==
    ASSUME NEW v1 \in Word, NEW v2 \in Nat
    PROVE  /\ Exp(v1, v2) = Exps(v1, v2)[v2]
           /\ \A n \in 0 .. v2 : Exps(v1, v2)[n] = ExpStep(v1, Exps(v1, v2), n)
<1>1. \E f : f = [n \in 0 .. v2 |-> ExpStep(v1, f, n)]
  BY ExpsExist
<1>2. Exps(v1, v2) = [n \in 0 .. v2 |-> ExpStep(v1, Exps(v1, v2), n)]
  BY <1>1 DEF Exps
<1>3. Exp(v1, v2) = Exps(v1, v2)[v2]
  BY DEF Exp, Exps
<1> HIDE DEF Exps
<1> QED
  BY <1>2, <1>3

\* EXP leaves a word in its register.
LEMMA ExpWord ==
    ASSUME NEW v1 \in Word, NEW v2 \in Nat
    PROVE  Exp(v1, v2) \in Word
<1> DEFINE e == Exps(v1, v2)
           S == {n \in Nat : n <= v2 => e[n] \in Word}
<1>1. \A n \in 0 .. v2 : e[n] = ExpStep(v1, e, n)
  BY ExpsAre
<1> HIDE DEF e
<1>2. ASSUME NEW n \in Nat, \A m \in 0 .. n - 1 : m \in S
      PROVE  n \in S
  <2>1. SUFFICES ASSUME n <= v2 PROVE e[n] \in Word
    OBVIOUS
  <2>2. ASSUME n # 0 PROVE e[n \div 2] \in Int
    <3>1. n \div 2 \in 0 .. n - 1 /\ n \div 2 <= v2
      BY <2>1, <2>2
    <3>2. e[n \div 2] \in Word
      BY <1>2, <3>1
    <3> QED
      BY <3>2, Spans DEF Word
  <2>3. ExpStep(v1, e, n) \in Word
    BY <2>2, StepType
  <2> QED
    BY <1>1, <2>1, <2>3
<1> HIDE DEF S
<1>3. v2 \in S
  BY <1>2, StrongInduct
<1>4. e[v2] \in Word
  BY <1>3 DEF S
<1> QED
  BY <1>4, ExpsAre DEF e

----------------------------------------------------------------------------
(* EXP against the powers of its base.                                     *)

\* p gives the powers of v, up to the n-th.
PowersOf(v, n, p) ==
    /\ p \in [0 .. n -> Nat]
    /\ p[0] = 1
    /\ \A k \in 1 .. n : p[k] = p[k - 1] * v

\* There are such powers.
LEMMA PowersExist ==
    ASSUME NEW v \in Nat, NEW n \in Nat
    PROVE  \E p : PowersOf(v, n, p)
<1> DEFINE S == {m \in Nat : \E p : PowersOf(v, m, p)}
<1>1. 0 \in S
  <2> DEFINE p == [k \in 0 .. 0 |-> 1]
  <2>1. PowersOf(v, 0, p)
    BY DEF PowersOf
  <2> QED
    BY <2>1
<1>2. ASSUME NEW m \in Nat, m \in S
      PROVE  m + 1 \in S
  <2>1. PICK p : PowersOf(v, m, p)
    BY <1>2
  <2> DEFINE q == [k \in 0 .. m + 1 |-> IF k \in 0 .. m THEN p[k] ELSE p[m] * v]
  <2>2. p \in [0 .. m -> Nat] /\ p[m] \in Nat /\ p[m] * v \in Nat
    BY <2>1 DEF PowersOf
  <2>3. q \in [0 .. m + 1 -> Nat]
    BY <2>2
  <2>4. q[0] = 1
    BY <2>1 DEF PowersOf
  <2>5. ASSUME NEW k \in 1 .. m + 1 PROVE q[k] = q[k - 1] * v
    <3>1. CASE k \in 1 .. m
      <4>1. q[k] = p[k] /\ q[k - 1] = p[k - 1]
        BY <3>1
      <4> QED
        BY <2>1, <3>1, <4>1 DEF PowersOf
    <3>2. CASE k = m + 1
      <4>1. q[k] = p[m] * v /\ q[k - 1] = p[m]
        BY <3>2
      <4> QED
        BY <4>1
    <3> QED
      BY <3>1, <3>2
  <2> HIDE DEF q
  <2>6. PowersOf(v, m + 1, q)
    BY <2>3, <2>4, <2>5 DEF PowersOf
  <2> QED
    BY <2>6
<1> HIDE DEF S
<1>3. n \in S
  BY <1>1, <1>2, Induct
<1> QED
  BY <1>3 DEF S

\* The sum of two exponents is that of the product.
LEMMA PowersAdd ==
    ASSUME NEW v \in Nat, NEW n \in Nat, NEW p, PowersOf(v, n, p),
           NEW j \in Nat, NEW k \in Nat, j + k <= n
    PROVE  p[j + k] = p[j] * p[k]
<1> DEFINE S == {m \in Nat : j + m <= n => p[j + m] = p[j] * p[m]}
<1>0. j \in 0 .. n /\ p[j] \in Nat
  BY DEF PowersOf
<1>1. 0 \in S
  BY <1>0 DEF PowersOf
<1>2. ASSUME NEW m \in Nat, m \in S
      PROVE  m + 1 \in S
  <2>1. SUFFICES ASSUME j + (m + 1) <= n
                 PROVE  p[j + (m + 1)] = p[j] * p[m + 1]
    OBVIOUS
  <2>2. p[j + m] = p[j] * p[m]
    BY <1>2, <2>1
  <2>3. m \in 0 .. n /\ m + 1 \in 1 .. n /\ j + (m + 1) \in 1 .. n
        /\ (m + 1) - 1 = m /\ (j + (m + 1)) - 1 = j + m
    BY <2>1
  <2>4. p[m + 1] = p[m] * v /\ p[j + (m + 1)] = p[j + m] * v /\ p[m] \in Nat
    BY <2>3 DEF PowersOf
  <2>5. \A a, b \in Nat : (a * b) * v = a * (b * v)
    OBVIOUS
  <2> QED
    BY <1>0, <2>2, <2>4, <2>5
<1> HIDE DEF S
<1>3. k \in S
  BY <1>1, <1>2, Induct
<1> QED
  BY <1>3 DEF S

\* Powers do not fall, but for those of 0, which are 0 and 1.
LEMMA PowersGrow ==
    ASSUME NEW v \in Nat, NEW n \in Nat, NEW p, PowersOf(v, n, p),
           NEW j \in Nat, NEW k \in Nat, j <= k, k <= n
    PROVE  p[j] <= p[k] \/ p[j] <= 1
<1>1. j \in 0 .. n /\ k \in 0 .. n /\ p[j] \in Nat /\ p[k] \in Nat
  BY DEF PowersOf
<1>2. CASE v = 0
  <2>1. CASE j = 0
    BY <2>1 DEF PowersOf
  <2>2. CASE j # 0
    <3>1. j \in 1 .. n /\ j - 1 \in 0 .. n
      BY <1>1, <2>2
    <3>2. p[j] = p[j - 1] * 0 /\ p[j - 1] \in Nat
      BY <1>2, <3>1 DEF PowersOf
    <3> QED
      BY <3>2
  <2> QED
    BY <2>1, <2>2
<1>3. CASE v # 0
  <2> DEFINE S == {m \in Nat : m <= n => p[m] >= 1}
  <2>1. 0 \in S
    BY DEF PowersOf
  <2>2. ASSUME NEW m \in Nat, m \in S
        PROVE  m + 1 \in S
    <3>1. SUFFICES ASSUME m + 1 <= n PROVE p[m + 1] >= 1
      OBVIOUS
    <3>2. m \in 0 .. n /\ m + 1 \in 1 .. n /\ (m + 1) - 1 = m
      BY <3>1
    <3>3. p[m + 1] = p[m] * v /\ p[m] \in Nat /\ p[m] >= 1
      BY <2>2, <3>2 DEF PowersOf
    <3>4. \A a, b \in Nat \ {0} : a * b >= 1
      OBVIOUS
    <3> QED
      BY <1>3, <3>3, <3>4
  <2> HIDE DEF S
  <2>3. k - j \in S
    <3>1. k - j \in Nat
      BY <1>1
    <3> QED
      BY <2>1, <2>2, <3>1, Induct
  <2>4. k - j \in 0 .. n /\ j + (k - j) = k
    BY <1>1
  <2>5. p[k - j] >= 1 /\ p[k - j] \in Nat
    BY <2>3, <2>4 DEF S, PowersOf
  <2>6. p[k] = p[j] * p[k - j]
    <3>1. k - j \in Nat /\ j + (k - j) <= n
      BY <1>1
    <3>2. p[j + (k - j)] = p[j] * p[k - j]
      BY <3>1, PowersAdd
    <3> QED
      BY <2>4, <3>2
  <2>7. \A a \in Nat : \A b \in Nat \ {0} : a <= a * b
    OBVIOUS
  <2> QED
    BY <1>1, <2>5, <2>6, <2>7
<1> QED
  BY <1>2, <1>3

\* The reference of ExpIsPower modulo the word.
PowerMods(v, n) ==
    CHOOSE q : q = [k \in 0 .. n |-> IF k = 0 THEN 1 ELSE (q[k - 1] * v) % WordSpan]

\* It is the power's remainder.
LEMMA PowerModIs ==
    ASSUME NEW v \in Nat, NEW n \in Nat, NEW p, PowersOf(v, n, p)
    PROVE  PowerMod(v, n) = p[n] % WordSpan
<1> DEFINE r == [k \in 0 .. n |-> p[k] % WordSpan]
           q == PowerMods(v, n)
           S == {k \in Nat : k <= n => q[k] = p[k] % WordSpan}
<1>0. 1 % WordSpan = 1
  BY Spans, ModSmall
<1>1. ASSUME NEW k \in 1 .. n
      PROVE  /\ k - 1 \in 0 .. n /\ k \in 0 .. n
             /\ ((p[k - 1] % WordSpan) * v) % WordSpan = p[k] % WordSpan
  <2>1. k - 1 \in 0 .. n /\ k \in 0 .. n
    OBVIOUS
  <2>2. p[k - 1] \in Int /\ v \in Int /\ p[k] = p[k - 1] * v
    BY <2>1 DEF PowersOf
  <2> QED
    BY <2>1, <2>2, ModMul, Spans, Zenon
<1>2. ASSUME NEW k \in 0 .. n
      PROVE  r[k] = IF k = 0 THEN 1 ELSE (r[k - 1] * v) % WordSpan
  <2>1. CASE k = 0
    BY <1>0, <2>1 DEF PowersOf
  <2>2. CASE k # 0
    <3>1. k \in 1 .. n
      BY <2>2
    <3>2. r[k - 1] = p[k - 1] % WordSpan /\ r[k] = p[k] % WordSpan
      BY <1>1, <3>1
    <3> QED
      BY <1>1, <2>2, <3>1, <3>2
  <2> QED
    BY <2>1, <2>2
<1>3. r = [k \in 0 .. n |-> IF k = 0 THEN 1 ELSE (r[k - 1] * v) % WordSpan]
  <2>1. r = [k \in 0 .. n |-> r[k]]
    OBVIOUS
  <2> HIDE DEF r
  <2> QED
    BY <1>2, <2>1
<1>4. \E f : f = [k \in 0 .. n |-> IF k = 0 THEN 1 ELSE (f[k - 1] * v) % WordSpan]
  <2> HIDE DEF r
  <2> QED
    BY <1>3
<1>5. q = [k \in 0 .. n |-> IF k = 0 THEN 1 ELSE (q[k - 1] * v) % WordSpan]
  BY <1>4 DEF PowerMods
<1>6. PowerMod(v, n) = q[n]
  BY DEF PowerMod, PowerMods
<1> HIDE DEF q, r
<1>7. 0 \in S
  BY <1>0, <1>5 DEF PowersOf
<1>8. ASSUME NEW k \in Nat, k \in S
      PROVE  k + 1 \in S
  <2>1. SUFFICES ASSUME k + 1 <= n
                 PROVE  q[k + 1] = p[k + 1] % WordSpan
    OBVIOUS
  <2>2. k + 1 \in 1 .. n /\ k + 1 \in 0 .. n /\ (k + 1) - 1 = k /\ k + 1 # 0
    BY <2>1
  <2>3. q[k + 1] = (q[k] * v) % WordSpan
    BY <1>5, <2>2
  <2>4. q[k] = p[k] % WordSpan
    BY <1>8, <2>1
  <2> QED
    BY <1>1, <2>2, <2>3, <2>4
<1> HIDE DEF S
<1>9. n \in S
  BY <1>7, <1>8, Induct
<1>10. q[n] = p[n] % WordSpan
  BY <1>9 DEF S
<1> QED
  BY <1>6, <1>10

\* The reference of ExpIsPower up to a cap.
Caps(v, n) ==
    CHOOSE q : q = [k \in 0 .. n |->
                       IF k = 0 THEN 1
                       ELSE LET x == q[k - 1] * v IN IF x > IntSpan THEN IntSpan ELSE x]

\* A number up to the cap.
Cap(x) == IF x > IntSpan THEN IntSpan ELSE x

\* The cap may be applied before a multiplication.
LEMMA CapMul ==
    ASSUME NEW a \in Nat, NEW v \in Nat
    PROVE  Cap(Cap(a) * v) = Cap(a * v)
<1>1. CASE a <= IntSpan
  BY <1>1, Spans DEF Cap
<1>2. CASE a > IntSpan /\ v = 0
  BY <1>2, Spans DEF Cap
<1>3. CASE a > IntSpan /\ v # 0
  <2>1. \A x, y \in Nat : y # 0 => x <= x * y
    OBVIOUS
  <2>2. Cap(a) = IntSpan /\ IntSpan <= IntSpan * v /\ a <= a * v
    BY <1>3, <2>1, Spans DEF Cap
  <2>3. Cap(IntSpan * v) = IntSpan
    BY <2>2, Spans DEF Cap
  <2>4. Cap(a * v) = IntSpan
    BY <1>3, <2>2, Spans DEF Cap
  <2> QED
    BY <2>2, <2>3, <2>4
<1> QED
  BY <1>1, <1>2, <1>3, Spans

\* It is the power up to the cap.
LEMMA CappedIs ==
    ASSUME NEW v \in Nat, NEW n \in Nat, NEW p, PowersOf(v, n, p)
    PROVE  Capped(v, n) = Cap(p[n])
<1> DEFINE r == [k \in 0 .. n |-> Cap(p[k])]
           q == Caps(v, n)
           S == {k \in Nat : k <= n => q[k] = Cap(p[k])}
<1>0. Cap(1) = 1
  BY Spans DEF Cap
<1>1. ASSUME NEW k \in 1 .. n
      PROVE  k - 1 \in 0 .. n /\ k \in 0 .. n /\ Cap(Cap(p[k - 1]) * v) = Cap(p[k])
  <2>1. k - 1 \in 0 .. n /\ k \in 0 .. n
    OBVIOUS
  <2>2. p[k - 1] \in Nat /\ p[k] = p[k - 1] * v
    BY <2>1 DEF PowersOf
  <2> QED
    BY <2>1, <2>2, CapMul
<1>2. ASSUME NEW k \in 0 .. n
      PROVE  r[k] = IF k = 0 THEN 1 ELSE Cap(r[k - 1] * v)
  <2>1. CASE k = 0
    BY <1>0, <2>1 DEF PowersOf
  <2>2. CASE k # 0
    <3>1. k \in 1 .. n
      BY <2>2
    <3>2. r[k - 1] = Cap(p[k - 1]) /\ r[k] = Cap(p[k])
      BY <1>1, <3>1
    <3> QED
      BY <1>1, <2>2, <3>1, <3>2
  <2> QED
    BY <2>1, <2>2
<1>3. r = [k \in 0 .. n |-> IF k = 0 THEN 1 ELSE Cap(r[k - 1] * v)]
  <2>1. r = [k \in 0 .. n |-> r[k]]
    OBVIOUS
  <2> HIDE DEF r
  <2> QED
    BY <1>2, <2>1
<1>4. \E f : f = [k \in 0 .. n |-> IF k = 0 THEN 1 ELSE Cap(f[k - 1] * v)]
  <2> HIDE DEF r
  <2> QED
    BY <1>3
<1>5. q = [k \in 0 .. n |-> IF k = 0 THEN 1 ELSE Cap(q[k - 1] * v)]
  BY <1>4 DEF Caps, Cap
<1>6. Capped(v, n) = q[n]
  BY DEF Capped, Caps
<1> HIDE DEF q, r
<1>7. 0 \in S
  BY <1>0, <1>5 DEF PowersOf
<1>8. ASSUME NEW k \in Nat, k \in S
      PROVE  k + 1 \in S
  <2>1. SUFFICES ASSUME k + 1 <= n
                 PROVE  q[k + 1] = Cap(p[k + 1])
    OBVIOUS
  <2>2. k + 1 \in 1 .. n /\ k + 1 \in 0 .. n /\ (k + 1) - 1 = k /\ k + 1 # 0
    BY <2>1
  <2>3. q[k + 1] = Cap(q[k] * v)
    BY <1>5, <2>2
  <2>4. q[k] = Cap(p[k])
    BY <1>8, <2>1
  <2> QED
    BY <1>1, <2>2, <2>3, <2>4
<1> HIDE DEF S
<1>9. n \in S
  BY <1>7, <1>8, Induct
<1>10. q[n] = Cap(p[n])
  BY <1>9 DEF S
<1> QED
  BY <1>6, <1>10

\* The smaller powers are powers.
LEMMA PowersRestrict ==
    ASSUME NEW v \in Nat, NEW n \in Nat, NEW p, PowersOf(v, n, p), NEW m \in 0 .. n
    PROVE  PowersOf(v, m, [k \in 0 .. m |-> p[k]])
<1> DEFINE q == [k \in 0 .. m |-> p[k]]
<1>1. q \in [0 .. m -> Nat] /\ q[0] = 1
  BY DEF PowersOf
<1>2. ASSUME NEW k \in 1 .. m PROVE q[k] = q[k - 1] * v
  <2>1. q[k] = p[k] /\ q[k - 1] = p[k - 1] /\ k \in 1 .. n
    OBVIOUS
  <2> QED
    BY <2>1 DEF PowersOf
<1> HIDE DEF q
<1>3. PowersOf(v, m, q)
  BY <1>1, <1>2 DEF PowersOf
<1> QED
  BY <1>3 DEF q

\* The int that carries a result below half its span loses nothing of it.
LEMMA IntKeeps ==
    ASSUME NEW x \in Nat, x < IntSpan \div 2
    PROVE  /\ x \in 0 .. IntSpan - 1 /\ x \in 0 .. WordSpan - 1
           /\ Signed(x % IntSpan, IntSpan) = x /\ x % WordSpan = x
<1>1. IntSpan \div 2 \in Nat /\ IntSpan \div 2 < IntSpan
  BY Spans
<1>2. x \in 0 .. IntSpan - 1 /\ x \in 0 .. WordSpan - 1 /\ ~(x >= IntSpan \div 2)
  BY <1>1, Spans
<1>3. x % IntSpan = x /\ x % WordSpan = x
  BY <1>2, ModSmall, Spans
<1> QED
  BY <1>2, <1>3 DEF Signed

\* An exponent is twice its half, and one more if it is odd.
LEMMA Halves ==
    ASSUME NEW n \in Nat
    PROVE  /\ n \div 2 \in Nat /\ n \div 2 <= n /\ (n # 0 => n \div 2 < n)
           /\ n % 2 = 0 => n = (n \div 2) + (n \div 2)
           /\ n % 2 # 0 => n - 1 = (n \div 2) + (n \div 2)
  OBVIOUS

\* What int can carry of Exp's recursion with exponent n.
Carried(p, n) ==
    /\ p[n \div 2] < IntSpan \div 2
    /\ n % 2 = 1 \/ p[n] < IntSpan \div 2

\* One step of Exp's recursion, from the half exponent's power.
LEMMA StepPower ==
    ASSUME NEW v \in Word, NEW N \in Nat, NEW p, PowersOf(v, N, p), NEW n \in 1 .. N,
           NEW e, e[n \div 2] = p[n \div 2] % WordSpan, Carried(p, n)
    PROVE  ExpStep(v, e, n) = p[n] % WordSpan
<1>1. v \in Nat /\ v < WordSpan
  BY Spans DEF Word
<1>2. PICK h \in Nat : h = n \div 2
  BY Halves
<1>3. h \in 0 .. N /\ p[h] \in Nat /\ p[h] < IntSpan \div 2 /\ n \in Nat /\ n # 0
  BY <1>2, Halves DEF PowersOf, Carried
<1>4. PICK x \in Nat : x = p[h]
  BY <1>3
<1>5. e[h] = x /\ Signed(x % IntSpan, IntSpan) = x
  BY <1>2, <1>3, <1>4, IntKeeps
<1>6. Signed(e[n \div 2] % IntSpan, IntSpan) = x
  BY <1>2, <1>5
<1>7. CASE n % 2 = 0
  <2>1. p[n] = x * x /\ p[n] \in Nat
    <3>1. n = h + h /\ h + h <= N
      BY <1>2, <1>7, Halves
    <3>2. p[h + h] = p[h] * p[h]
      BY <1>1, <3>1, PowersAdd
    <3> QED
      BY <1>4, <3>1, <3>2
  <2>2. p[n] < IntSpan \div 2
    BY <1>7 DEF Carried
  <2>3. Signed((x * x) % IntSpan, IntSpan) = p[n]
    BY <2>1, <2>2, IntKeeps
  <2> QED
    BY <1>3, <1>6, <1>7, <2>3 DEF ExpStep
<1>8. CASE n % 2 # 0
  <2>1. p[n] = (x * x) * v
    <3>1. n - 1 = h + h /\ h + h <= N
      BY <1>2, <1>3, <1>8, Halves
    <3>2. p[h + h] = p[h] * p[h]
      BY <1>1, <3>1, PowersAdd
    <3>3. p[n] = p[n - 1] * v
      BY DEF PowersOf
    <3> QED
      BY <1>4, <3>1, <3>2, <3>3
  <2>2. v * x \in Int /\ x \in Int /\ (v * x) * x = (x * x) * v
    BY <1>1
  <2>3. (((v * x) % WordSpan) * x) % WordSpan = ((v * x) * x) % WordSpan
    BY <2>2, ModMul, Spans
  <2> QED
    BY <1>3, <1>6, <1>8, <2>1, <2>2, <2>3 DEF ExpStep
<1> QED
  BY <1>7, <1>8

\* Exp is the power modulo the word as long as int carries it.
LEMMA ExpPower ==
    ASSUME NEW v \in Word, NEW n \in Nat, NEW p, PowersOf(v, n, p), Carried(p, n)
    PROVE  Exp(v, n) = p[n] % WordSpan
<1> DEFINE e == Exps(v, n)
           S == {m \in Nat : m <= n /\ Carried(p, m) => e[m] = p[m] % WordSpan}
<1>0. v \in Nat
  BY Spans DEF Word
<1>1. \A m \in 0 .. n : e[m] = ExpStep(v, e, m)
  BY ExpsAre
<1> HIDE DEF e
<1>2. ASSUME NEW m \in Nat, \A k \in 0 .. m - 1 : k \in S
      PROVE  m \in S
  <2>1. SUFFICES ASSUME m <= n, Carried(p, m)
                 PROVE  e[m] = p[m] % WordSpan
    OBVIOUS
  <2>2. CASE m = 0
    <3>1. e[0] = 1 /\ p[0] = 1
      BY <1>1, <2>1 DEF ExpStep, PowersOf
    <3>2. 1 % WordSpan = 1
      BY ModSmall, Spans
    <3> QED
      BY <2>2, <3>1, <3>2
  <2>3. CASE m # 0
    <3>1. PICK h \in Nat : h = m \div 2
      BY Halves
    <3>2. h \in 0 .. m - 1 /\ h <= n /\ h \in 0 .. n /\ p[h] \in Nat /\ p[h] < IntSpan \div 2
      BY <2>1, <2>3, <3>1, Halves DEF Carried, PowersOf
    <3>3. Carried(p, h)
      <4>1. PICK g \in Nat : g = h \div 2 /\ g <= h
        BY Halves
      <4>2. g \in 0 .. n /\ p[g] \in Nat
        BY <3>2, <4>1 DEF PowersOf
      <4>3. p[g] <= p[h] \/ p[g] <= 1
        BY <1>0, <3>2, <4>1, PowersGrow
      <4>4. IntSpan \div 2 \in Nat /\ 1 < IntSpan \div 2
        BY Spans
      <4>5. p[g] < IntSpan \div 2
        BY <3>2, <4>2, <4>3, <4>4
      <4> QED
        BY <3>2, <4>1, <4>5 DEF Carried
    <3>4. e[h] = p[h] % WordSpan
      BY <1>2, <3>2, <3>3
    <3>5. m \in 1 .. n
      BY <2>1, <2>3
    <3>6. ExpStep(v, e, m) = p[m] % WordSpan
      BY <2>1, <3>1, <3>4, <3>5, StepPower
    <3> QED
      BY <1>1, <3>5, <3>6
  <2> QED
    BY <2>2, <2>3
<1> HIDE DEF S
<1>3. n \in S
  BY <1>2, StrongInduct
<1>4. e[n] = p[n] % WordSpan
  BY <1>3 DEF S
<1> QED
  BY <1>4, ExpsAre DEF e

\* EXP computes the power modulo the word, for every word and every exponent, as
\* long as the int that carries its half-way value does not overflow.
THEOREM ExpRight ==
    ASSUME NEW v \in Word, NEW n \in Nat,
           Capped(v, n \div 2) < IntSpan \div 2,
           n % 2 = 1 \/ Capped(v, n) < IntSpan \div 2
    PROVE  Exp(v, n) = PowerMod(v, n)
<1>1. v \in Nat
  BY Spans DEF Word
<1>2. PICK p : PowersOf(v, n, p)
  BY <1>1, PowersExist
<1>3. PICK h \in Nat : h = n \div 2
  BY Halves
<1>4. h \in 0 .. n /\ p[h] \in Nat /\ p[n] \in Nat
  BY <1>2, <1>3, Halves DEF PowersOf
<1>5. Capped(v, h) = Cap(p[h])
  <2> DEFINE q == [k \in 0 .. h |-> p[k]]
  <2>1. PowersOf(v, h, q) /\ q[h] = p[h]
    BY <1>1, <1>2, <1>4, PowersRestrict
  <2> HIDE DEF q
  <2>2. Capped(v, h) = Cap(q[h])
    BY <1>1, <2>1, CappedIs
  <2> QED
    BY <2>1, <2>2
<1>6. Capped(v, n) = Cap(p[n])
  BY <1>1, <1>2, CappedIs
<1>7. \A x \in Nat : Cap(x) < IntSpan \div 2 => x < IntSpan \div 2
  <2>1. IntSpan \div 2 \in Nat /\ IntSpan \div 2 < IntSpan
    BY Spans
  <2> QED
    BY <2>1, Spans DEF Cap
<1>8. Carried(p, n)
  BY <1>3, <1>4, <1>5, <1>6, <1>7 DEF Carried
<1>9. Exp(v, n) = p[n] % WordSpan
  BY <1>2, <1>8, ExpPower
<1> QED
  BY <1>1, <1>2, <1>9, PowerModIs

----------------------------------------------------------------------------
(* Frames, and the inductive invariant.                                    *)

\* A call in progress: both its words lie in the stack, and it returns into
\* what an address can hold.
Frame == {f \in [sp : Cells, ret : Word, size : Word] :
             f.sp + 8 \in Cells /\ f.ret < AddrSpan}

\* The words of a frame are where CALL put them.
Kept(f, s) == s[f.sp] = f.ret /\ s[f.sp + 8] = f.size

\* FramesIntact relates a frame to the one above it; a write is kept off all
\* frames only if each lies above every younger one.
Ordered(fs) == \A j, k \in 1 .. Len(fs) : j < k => fs[k].sp + 16 <= fs[j].sp

Inv ==
    /\ TypeOK
    /\ code \in Programs
    /\ frames \in Seq(Frame)
    /\ tidy => /\ \A k \in 1 .. Len(frames) : Kept(frames[k], stack)
               /\ Ordered(frames)
               /\ regs["SP"] <= Floor(frames)

----------------------------------------------------------------------------
(* Cells and spans.                                                        *)

\* The cells are the aligned addresses of whole words of the stack.
LEMMA CellsAre ==
    \A c : c \in Cells <=> c \in Nat /\ c % 8 = 0 /\ c + 8 <= StackSize
<1>1. ASSUME NEW c \in Cells
      PROVE  c \in Nat /\ c % 8 = 0 /\ c + 8 <= StackSize
  <2>1. PICK k \in 0 .. (StackSize \div 8) - 1 : c = 8 * k
    BY DEF Cells
  <2> QED
    BY <2>1, Spans
<1>2. ASSUME NEW c \in Nat, c % 8 = 0, c + 8 <= StackSize
      PROVE  c \in Cells
  <2>1. c \div 8 \in 0 .. (StackSize \div 8) - 1 /\ c = 8 * (c \div 8)
    BY <1>2, Spans
  <2> QED
    BY <2>1 DEF Cells
<1> QED
  BY <1>1, <1>2

\* A cell two words below which are cells is not near the wrap.
LEMMA CellRange ==
    ASSUME NEW c \in Cells
    PROVE  /\ c \in Nat /\ c + 8 <= StackSize /\ c < AddrSpan /\ c \in Word
           /\ \A d \in Cells : c = d \/ c + 8 <= d \/ d + 8 <= c
<1>1. c \in Nat /\ c % 8 = 0 /\ c + 8 <= StackSize
  BY CellsAre
<1>2. ASSUME NEW d \in Cells PROVE c = d \/ c + 8 <= d \/ d + 8 <= c
  <2>1. d \in Nat /\ d % 8 = 0
    BY CellsAre
  <2> QED
    BY <1>1, <2>1
<1> QED
  BY <1>1, <1>2, Spans DEF Word

\* The stack pointer is not below what it takes to push.
LEMMA PushRange ==
    ASSUME NEW sp \in Word, NEW n \in {8, 16}, (sp - n) % WordSpan \in Cells
    PROVE  sp >= n /\ sp - n \in Cells
<1>1. sp \in Nat /\ sp < WordSpan /\ n \in Nat /\ n <= 16
  BY Spans DEF Word
<1>2. CASE sp < n
  <2>1. sp - n < 0 /\ -WordSpan <= sp - n
    BY <1>1, <1>2, Spans
  <2>2. (sp - n) % WordSpan = sp - n + WordSpan
    BY <1>1, <2>1, Spans, ModNeg
  <2>3. (sp - n) % WordSpan < AddrSpan
    BY CellRange
  <2> QED
    BY <1>1, <1>2, <2>2, <2>3, Spans
<1>3. CASE sp >= n
  <2>1. sp - n \in 0 .. WordSpan - 1
    BY <1>1, <1>3, Spans
  <2>2. (sp - n) % WordSpan = sp - n
    BY <2>1, Spans, ModSmall
  <2> QED
    BY <1>3, <2>2
<1> QED
  BY <1>1, <1>2, <1>3

----------------------------------------------------------------------------
(* What instructions compute is a word.                                    *)

\* Division of signed numbers.
LEMMA QuotientInt ==
    ASSUME NEW x \in Int, NEW y \in Int, y # 0
    PROVE  Quotient(x, y) \in Int /\ Remainder(x, y) \in Int
<1>1. Abs(x) \in Nat /\ Abs(y) \in Nat \ {0}
  BY DEF Abs
<1>2. Abs(x) \div Abs(y) \in Int
  BY <1>1, DivNat
<1>3. Quotient(x, y) \in Int
  BY <1>2 DEF Quotient
<1> QED
  BY <1>3 DEF Remainder

\* Each unary operation.
LEMMA UnaryWord ==
    ASSUME NEW op \in UnaryOps, NEW v \in Word
    PROVE  Unary(op, v) \in Word
<1>1. v \in Nat /\ v < WordSpan
  BY Spans DEF Word
<1>2. (-Signed(v, WordSpan)) % WordSpan \in Word
  <2>1. Signed(v, WordSpan) \in Int
    BY <1>1, SignedInt, Spans
  <2>2. -Signed(v, WordSpan) \in Int
    BY <2>1
  <2> QED
    BY <2>2, Wraps
<1>3. WordSpan - 1 - v \in Word
  BY <1>1, Spans DEF Word
<1> QED
  BY <1>2, <1>3 DEF Unary, UnaryOps

\* The bytes of an instruction.
LEMMA SizeNat ==
    ASSUME NEW i
    PROVE  Size(i) \in Nat
<1>1. \A o : ConstSize(o) \in Nat /\ AddrSize(o) \in Nat
  BY DEF ConstSize, AddrSize
<1> QED
  BY <1>1 DEF Size

\* The machine executes a well-formed instruction, which ends below the
\* largest address.
LEMMA Fetched ==
    ASSUME Inv, Running
    PROVE  WellFormed(This) /\ After \in 0 .. AddrSpan - 1
<1>1. /\ regs["IP"] \in Nat /\ regs["IP"] + Size(This) < AddrSpan
      /\ WellFormed(This)
  BY ProgramAssumption DEF Inv, Running, This
<1>2. Size(This) \in Nat
  BY SizeNat
<1> QED
  BY <1>1, <1>2, Spans DEF After

\* Operands are words.
LEMMA ValueWord ==
    ASSUME Inv, NEW o, Operand(o)
    PROVE  Value(o) \in Word /\ Address(o) \in 0 .. AddrSpan - 1
<1>1. Value(o) \in Word
  BY DEF Inv, TypeOK, Value, Operand, Source
<1>2. Value(o) \in Int
  BY <1>1, Spans DEF Word
<1> QED
  BY <1>1, <1>2, Wraps DEF Address

\* Targets of JMP and CALL.
LEMMA TargetAddr ==
    ASSUME Inv, Operand(This.a), NEW e \in Int
    PROVE  Target(e) \in 0 .. AddrSpan - 1
<1>1. Address(This.a) \in 0 .. AddrSpan - 1
  BY ValueWord
<1>2. Address(This.a) + (e - 1) \in Int
  BY <1>1, Spans
<1> QED
  BY <1>1, <1>2, Wraps DEF Target

\* Addresses are words.
LEMMA AddrWord == 0 .. AddrSpan - 1 \subseteq Word
  BY Spans DEF Word

\* Each operation with two operands; the divisions, of what is not zero.
LEMMA BinaryWord ==
    ASSUME NEW op \in BinaryOps, NEW v1 \in Word, NEW v2 \in Word,
           op \in Divisions => v2 # 0
    PROVE  Binary(op, v1, v2) \in Word
<1> DEFINE s1 == Signed(v1, WordSpan)
           s2 == Signed(v2, WordSpan)
<1>1. v1 \in Nat /\ v1 < WordSpan /\ v2 \in Nat /\ v2 < WordSpan
  BY Spans DEF Word
<1>2. s1 \in Int /\ s2 \in Int /\ (v2 # 0 => s2 # 0)
  BY <1>1, Spans DEF Signed
<1> HIDE DEF s1, s2
<1>3. /\ (v1 + v2) % WordSpan \in Word /\ (v1 - v2) % WordSpan \in Word
      /\ (v1 * v2) % WordSpan \in Word /\ (s1 * s2) % WordSpan \in Word
  <2>1. v1 + v2 \in Int /\ v1 - v2 \in Int /\ v1 * v2 \in Int /\ s1 * s2 \in Int
    BY <1>1, <1>2
  <2> QED
    BY <2>1, Wraps
<1>4. ASSUME v2 # 0
      PROVE  /\ v1 \div v2 \in Word /\ v1 % v2 \in Word
             /\ Quotient(s1, s2) % WordSpan \in Word
             /\ Remainder(s1, s2) % WordSpan \in Word
  <2>1. v1 \div v2 \in 0 .. v1 /\ v1 % v2 \in 0 .. v2 - 1
    BY <1>1, <1>4, DivNat, Mod
  <2>2. v1 \div v2 \in Word /\ v1 % v2 \in Word
    BY <1>1, <2>1, Spans DEF Word
  <2>3. Quotient(s1, s2) \in Int /\ Remainder(s1, s2) \in Int
    BY <1>2, <1>4, QuotientInt
  <2> QED
    BY <2>2, <2>3, Wraps
<1>5. Exp(v1, v2) \in Word
  BY <1>1, ExpWord
<1> QED
  BY <1>3, <1>4, <1>5 DEF Binary, BinaryOps, Divisions, s1, s2

----------------------------------------------------------------------------
(* The history of calls.                                                   *)

\* Every frame of a sequence is one.
LEMMA FrameFacts ==
    ASSUME NEW fs \in Seq(Frame), NEW k \in 1 .. Len(fs)
    PROVE  /\ fs[k] \in [sp : Cells, ret : Word, size : Word]
           /\ fs[k].sp \in Cells /\ fs[k].sp + 8 \in Cells
           /\ fs[k].ret \in Word /\ fs[k].size \in Word /\ fs[k].ret < AddrSpan
           /\ fs[k].sp \in Nat /\ fs[k].sp + 16 <= StackSize
<1>1. fs[k] \in Frame
  BY ElementOfSeq
<1>2. /\ fs[k] \in [sp : Cells, ret : Word, size : Word]
      /\ fs[k].sp \in Cells /\ fs[k].sp + 8 \in Cells /\ fs[k].ret < AddrSpan
  BY <1>1 DEF Frame
<1>3. fs[k].sp \in Nat /\ fs[k].sp + 8 + 8 <= StackSize
  BY <1>2, CellsAre
<1> QED
  BY <1>2, <1>3, Spans

\* What lies below the last frame lies below all.
LEMMA BelowAll ==
    ASSUME NEW fs \in Seq(Frame), Ordered(fs), NEW x \in Nat, x <= Floor(fs)
    PROVE  /\ \A k \in 1 .. Len(fs) : x <= fs[k].sp
           /\ fs = <<>> => x <= StackSize
<1>1. PICK n \in Nat : n = Len(fs)
  BY LenProperties
<1>2. ASSUME NEW k \in 1 .. n PROVE x <= fs[k].sp
  <2>1. fs # <<>> /\ n \in 1 .. n
    BY <1>1, <1>2
  <2>2. x <= fs[n].sp
    BY <1>1, <2>1 DEF Floor
  <2>3. fs[k].sp \in Nat /\ fs[n].sp \in Nat
    BY <1>1, <2>1, FrameFacts
  <2>4. k = n \/ fs[n].sp + 16 <= fs[k].sp
    BY <1>1, <2>1 DEF Ordered
  <2> QED
    BY <2>2, <2>3, <2>4
<1> QED
  BY <1>1, <1>2 DEF Floor

\* The sequence of frames, typed.
LEMMA FrameType == Seq(Frame) \subseteq Seq([sp : Cells, ret : Word, size : Word])
<1>1. Frame \subseteq [sp : Cells, ret : Word, size : Word]
  BY DEF Frame
<1> QED
  BY <1>1, SeqMonotonic

\* A write outside the frames leaves their words alone.
LEMMA WriteKeeps ==
    ASSUME NEW s \in [Cells -> Word], NEW fs \in Seq(Frame),
           \A k \in 1 .. Len(fs) : Kept(fs[k], s),
           NEW c \in Cells, NEW v,
           \A k \in 1 .. Len(fs) : c # fs[k].sp /\ c # fs[k].sp + 8
    PROVE  \A k \in 1 .. Len(fs) : Kept(fs[k], [s EXCEPT ![c] = v])
<1> SUFFICES ASSUME NEW k \in 1 .. Len(fs)
             PROVE  Kept(fs[k], [s EXCEPT ![c] = v])
  OBVIOUS
<1>1. fs[k].sp \in Cells /\ fs[k].sp + 8 \in Cells
  BY FrameFacts
<1>2. [s EXCEPT ![c] = v][fs[k].sp] = s[fs[k].sp]
  BY <1>1
<1>3. [s EXCEPT ![c] = v][fs[k].sp + 8] = s[fs[k].sp + 8]
  BY <1>1
<1>4. Kept(fs[k], s)
  OBVIOUS
<1> QED
  BY <1>2, <1>3, <1>4 DEF Kept

----------------------------------------------------------------------------
(* Steps.                                                                  *)

\* The modes of the machine.
Mode == {"running", "stopped", "stray", "killed"}

\* An instruction that neither calls nor returns nor writes to the stack.
LEMMA KeepStep ==
    ASSUME Inv, NEW ok \in BOOLEAN, Keeps(ok), regs' \in [Register -> Word],
           UNCHANGED <<code, stack>>, mode' \in Mode
    PROVE  Inv'
<1>1. tidy' \in BOOLEAN /\ frames' = frames
  BY DEF Keeps
<1>2. TypeOK'
  BY <1>1 DEF Inv, TypeOK, Mode, Cells, Word
<1>3. tidy' => tidy /\ regs'["SP"] <= Floor(frames)
  BY DEF Keeps
<1>4. Floor(frames)' = Floor(frames) /\ Ordered(frames)' = Ordered(frames)
      /\ (\A k \in 1 .. Len(frames) : Kept(frames[k], stack))'
         = (\A k \in 1 .. Len(frames) : Kept(frames[k], stack))
      /\ Frame' = Frame
  BY <1>1 DEF Floor, Ordered, Kept, Frame, Cells, Word
<1> QED
  BY <1>1, <1>2, <1>3, <1>4 DEF Inv

\* One that writes one cell, off the frames of a tidy program.
LEMMA WriteStep ==
    ASSUME Inv, NEW ok \in BOOLEAN, Keeps(ok), regs' \in [Register -> Word],
           code' = code, mode' \in Mode,
           NEW c \in Cells, NEW v \in Word, stack' = [stack EXCEPT ![c] = v],
           tidy /\ ok => \A k \in 1 .. Len(frames) : c # frames[k].sp /\ c # frames[k].sp + 8
    PROVE  Inv'
<1>1. tidy' \in BOOLEAN /\ frames' = frames
  BY DEF Keeps
<1>2. stack' \in [Cells -> Word]
  BY DEF Inv, TypeOK
<1>3. TypeOK'
  BY <1>1, <1>2 DEF Inv, TypeOK, Mode, Cells, Word
<1>4. tidy' => tidy /\ ok /\ regs'["SP"] <= Floor(frames)
  BY DEF Keeps
<1>5. tidy' => \A k \in 1 .. Len(frames) : Kept(frames[k], stack')
  BY <1>4, WriteKeeps DEF Inv, TypeOK
<1>6. Floor(frames)' = Floor(frames) /\ Ordered(frames)' = Ordered(frames)
      /\ (\A k \in 1 .. Len(frames) : Kept(frames[k], stack))'
         = (\A k \in 1 .. Len(frames) : Kept(frames[k], stack'))
      /\ Frame' = Frame
  BY <1>1 DEF Floor, Ordered, Kept, Frame, Cells, Word
<1> QED
  BY <1>1, <1>3, <1>4, <1>5, <1>6 DEF Inv

\* Results go to registers.
LEMMA Assign ==
    ASSUME Inv, NEW d \in Register, NEW v \in Word, NEW w \in Word
    PROVE  [regs EXCEPT !["IP"] = w, ![d] = v] \in [Register -> Word]
  BY DEF Inv, TypeOK

\* So does where to go on.
LEMMA Advance ==
    ASSUME Inv, NEW w \in Word
    PROVE  [regs EXCEPT !["IP"] = w] \in [Register -> Word]
  BY DEF Inv, TypeOK

\* Arithmetic ends in a register.
LEMMA ComputeStep ==
    ASSUME Inv, Compute
    PROVE  Inv'
<1>1. Running /\ This.op \in BinaryOps
  BY DEF Compute, Does
<1>2. WellFormed(This) /\ After \in Word
  BY <1>1, Fetched, AddrWord
<1>3. Binary(This.op, Value(This.a), Value(This.b)) \in Word /\ This.dst \in Register
  <2>1. Operand(This.a) /\ Operand(This.b) /\ This.dst \in Register
    BY <1>1, <1>2 DEF WellFormed
  <2>2. Value(This.a) \in Word /\ Value(This.b) \in Word
    BY <2>1, ValueWord
  <2>3. This.op \in Divisions => Value(This.b) # 0
    BY DEF Compute
  <2> QED
    BY <1>1, <2>1, <2>2, <2>3, BinaryWord
<1>4. regs' \in [Register -> Word]
  BY <1>2, <1>3, Assign DEF Compute
<1>5. Keeps(TRUE) /\ UNCHANGED <<code, stack>> /\ mode' = mode /\ mode \in Mode
  BY DEF Compute, Inv, TypeOK, Mode
<1> QED
  BY <1>4, <1>5, KeepStep

\* So does that with one operand.
LEMMA InvertStep ==
    ASSUME Inv, Invert
    PROVE  Inv'
<1>1. Running /\ This.op \in UnaryOps
  BY DEF Invert, Does
<1>2. WellFormed(This) /\ After \in Word
  BY <1>1, Fetched, AddrWord
<1>3. Unary(This.op, Value(This.a)) \in Word /\ This.dst \in Register
  <2>1. Operand(This.a) /\ This.dst \in Register
    BY <1>1, <1>2 DEF WellFormed
  <2> QED
    BY <1>1, <2>1, ValueWord, UnaryWord
<1>4. regs' \in [Register -> Word]
  BY <1>2, <1>3, Assign DEF Invert
<1>5. Keeps(TRUE) /\ UNCHANGED <<code, stack>> /\ mode' = mode /\ mode \in Mode
  BY DEF Invert, Inv, TypeOK, Mode
<1> QED
  BY <1>4, <1>5, KeepStep

\* A branch leads to an address.
LEMMA BranchStep ==
    ASSUME Inv, Branch
    PROVE  Inv'
<1>1. Running /\ This.op \in BranchOps
  BY DEF Branch, Does
<1>2. WellFormed(This) /\ After \in Word
  BY <1>1, Fetched, AddrWord
<1>3. This.to \in Word
  <2>1. This.to \in 0 .. AddrSpan - 1
    BY <1>1, <1>2 DEF WellFormed
  <2> QED
    BY <2>1, AddrWord
<1>4. regs' \in [Register -> Word]
  <2> DEFINE w == IF Holds(This.op, Value(This.a), Value(This.b)) THEN This.to ELSE After
  <2>1. w \in Word
    BY <1>2, <1>3
  <2>2. regs' = [regs EXCEPT !["IP"] = w]
    BY DEF Branch
  <2> HIDE DEF w
  <2> QED
    BY <2>1, <2>2, Advance
<1>5. Keeps(TRUE) /\ UNCHANGED <<code, stack>> /\ mode' = mode /\ mode \in Mode
  BY DEF Branch, Inv, TypeOK, Mode
<1> QED
  BY <1>4, <1>5, KeepStep

\* The stack holds words.
LEMMA LoadStep ==
    ASSUME Inv, Load
    PROVE  Inv'
<1>1. Running /\ This.op \in {"LOAD"}
  BY DEF Load, Does
<1>2. WellFormed(This) /\ After \in Word
  BY <1>1, Fetched, AddrWord
<1>3. stack[Address(This.b)] \in Word /\ This.dst \in Register
  <2>1. This.dst \in Register
    BY <1>1, <1>2 DEF WellFormed
  <2>2. Address(This.b) \in Cells
    BY <1>1 DEF Load, Does, Accessed
  <2> QED
    BY <2>1, <2>2 DEF Inv, TypeOK
<1>4. regs' \in [Register -> Word]
  BY <1>2, <1>3, Assign DEF Load
<1>5. Keeps(TRUE) /\ UNCHANGED <<code, stack>> /\ mode' = mode /\ mode \in Mode
  BY DEF Load, Inv, TypeOK, Mode
<1> QED
  BY <1>4, <1>5, KeepStep

\* So does a jump.
LEMMA JumpStep ==
    ASSUME Inv, Jump
    PROVE  Inv'
<1>1. Running /\ This.op \in {"JMP"}
  BY DEF Jump, Does
<1>2. WellFormed(This) /\ After \in Word
  BY <1>1, Fetched, AddrWord
<1>3. Target(After) \in Word
  <2>1. Operand(This.a) /\ After \in Int
    BY <1>1, <1>2, Spans DEF WellFormed, Word
  <2> QED
    BY <2>1, TargetAddr, AddrWord
<1>4. regs' \in [Register -> Word]
  BY <1>3, Advance DEF Jump
<1>5. Keeps(TRUE) /\ UNCHANGED <<code, stack>> /\ mode' = mode /\ mode \in Mode
  BY DEF Jump, Inv, TypeOK, Mode
<1> QED
  BY <1>4, <1>5, KeepStep

\* A cell lies below the end of the stack.
LEMMA PopStep ==
    ASSUME Inv, Pop
    PROVE  Inv'
<1>1. Running /\ This.op \in {"POP"}
  BY DEF Pop, Does
<1>2. WellFormed(This) /\ After \in Word
  BY <1>1, Fetched, AddrWord
<1>3. stack[regs["SP"]] \in Word /\ This.dst \in Register /\ regs["SP"] + 8 \in Word
  <2>1. This.dst \in Register
    BY <1>1, <1>2 DEF WellFormed
  <2>2. regs["SP"] \in Cells
    BY <1>1 DEF Pop, Does, Accessed
  <2>3. regs["SP"] \in Nat /\ regs["SP"] + 8 <= StackSize
    BY <2>2, CellsAre
  <2>4. regs["SP"] + 8 \in Word
    BY <2>3, Spans DEF Word
  <2> QED
    BY <2>1, <2>2, <2>4 DEF Inv, TypeOK
<1>4. regs' \in [Register -> Word]
  <2>1. regs' = [regs EXCEPT !["IP"] = After, !["SP"] = regs["SP"] + 8,
                               ![This.dst] = stack[regs["SP"]]]
    BY DEF Pop
  <2> QED
    BY <1>2, <1>3, <2>1 DEF Inv, TypeOK
<1>5. Keeps(TRUE) /\ UNCHANGED <<code, stack>> /\ mode' = mode /\ mode \in Mode
  BY DEF Pop, Inv, TypeOK, Mode
<1> QED
  BY <1>4, <1>5, KeepStep

\* A move takes a word.
LEMMA MovStep ==
    ASSUME Inv, Mov
    PROVE  Inv'
<1>1. Running /\ This.op \in {"MOV"}
  BY DEF Mov, Does
<1>2. WellFormed(This) /\ After \in Word
  BY <1>1, Fetched, AddrWord
<1>3. Value(This.b) \in Word /\ This.dst \in Register
  <2>1. Operand(This.b) /\ This.dst \in Register
    BY <1>1, <1>2 DEF WellFormed
  <2> QED
    BY <2>1, ValueWord
<1>4. regs' \in [Register -> Word]
  BY <1>2, <1>3, Assign DEF Mov
<1>5. Keeps(TRUE) /\ UNCHANGED <<code, stack>> /\ mode' = mode /\ mode \in Mode
  BY DEF Mov, Inv, TypeOK, Mode
<1> QED
  BY <1>4, <1>5, KeepStep

\* What is passed over leaves the rest as it is.
LEMMA IllegalStep ==
    ASSUME Inv, Illegal
    PROVE  Inv'
<1>1. Running /\ This.op \in {"illegal"}
  BY DEF Illegal, Does
<1>2. WellFormed(This) /\ After \in Word
  BY <1>1, Fetched, AddrWord
<1>4. regs' \in [Register -> Word]
  BY <1>2, Advance DEF Illegal
<1>5. Keeps(TRUE) /\ UNCHANGED <<code, stack>> /\ mode' = mode /\ mode \in Mode
  BY DEF Illegal, Inv, TypeOK, Mode
<1> QED
  BY <1>4, <1>5, KeepStep

\* The words that Stout pops are words of the stack.
LEMMA StoutRange ==
    ASSUME Inv, Running, This.op = "SYSCALL", regs["R0"] = 3, Accessed \subseteq Cells
    PROVE  regs["SP"] + 8 * StoutWords \in Word
<1>1. PICK n \in Nat : n = StoutWords
  <2>1. regs["R1"] \in Word
    BY DEF Inv, TypeOK, Register, General
  <2>2. regs["R1"] - 1 \in Int
    BY <2>1, Spans DEF Word
  <2>3. (regs["R1"] - 1) % WordSpan \in Int
    BY <2>2, Wraps, Spans DEF Word
  <2>4. ((regs["R1"] - 1) % WordSpan) \div 8 + 1 \in Int
    BY <2>3
  <2>5. StoutWords \in 0 .. AddrSpan - 1
    BY <2>4, Wraps DEF StoutWords
  <2> QED
    BY <2>5, Spans
<1>2. PICK sp \in Nat : sp = regs["SP"] /\ sp \in Word
  BY Spans DEF Inv, TypeOK, Register, Word
<1>3. CASE n = 0
  BY <1>1, <1>2, <1>3
<1>4. CASE n # 0
  <2>1. Accessed = {regs["SP"] + 8 * k : k \in 0 .. StoutWords - 1}
    BY DEF Accessed
  <2>2. n - 1 \in 0 .. n - 1
    BY <1>4
  <2>3. sp + 8 * (n - 1) \in Cells
    BY <1>1, <1>2, <2>1, <2>2
  <2>4. sp + 8 * (n - 1) + 8 <= StackSize
    BY <2>3, CellsAre
  <2>5. sp + 8 * n \in Word
    BY <1>1, <1>2, <1>4, <2>4, Spans DEF Word
  <2> QED
    BY <1>1, <1>2, <2>5
<1> QED
  BY <1>3, <1>4

\* A system call reads a port, or pops what it prints.
LEMMA SyscallStep ==
    ASSUME Inv, Syscall
    PROVE  Inv'
<1>1. Running /\ This.op = "SYSCALL" /\ Accessed \subseteq Cells
  BY DEF Syscall, Does
<1>2. After \in Word
  BY <1>1, Fetched, AddrWord
<1>3. regs' \in [Register -> Word]
  <2>1. CASE \E v \in {0, 1} : regs' = [regs EXCEPT !["IP"] = After, !["R2"] = v]
    <3>1. PICK v \in {0, 1} : regs' = [regs EXCEPT !["IP"] = After, !["R2"] = v]
      BY <2>1
    <3>2. v \in Word /\ "R2" \in Register
      BY Spans DEF Word, Register, General
    <3> QED
      BY <1>2, <3>1, <3>2, Assign
  <2>2. CASE /\ regs["R0"] = 3
             /\ regs' = [regs EXCEPT !["IP"] = After, !["SP"] = @ + 8 * StoutWords]
    <3>1. regs["SP"] + 8 * StoutWords \in Word /\ "SP" \in Register
      BY <1>1, <2>2, StoutRange DEF Register
    <3>2. regs' = [regs EXCEPT !["IP"] = After, !["SP"] = regs["SP"] + 8 * StoutWords]
      BY <2>2 DEF Inv, TypeOK, Register
    <3> QED
      BY <1>2, <3>1, <3>2, Assign
  <2>3. CASE regs' = [regs EXCEPT !["IP"] = After]
    BY <1>2, <2>3, Advance
  <2> QED
    BY <2>1, <2>2, <2>3 DEF Syscall
<1>4. Keeps(TRUE) /\ UNCHANGED <<code, stack>> /\ mode' = mode /\ mode \in Mode
  BY DEF Syscall, Inv, TypeOK, Mode
<1> QED
  BY <1>3, <1>4, KeepStep

\* STOP ends the loop behind it.
LEMMA StopStep ==
    ASSUME Inv, Stop
    PROVE  Inv'
<1>1. After \in Word
  BY Fetched, AddrWord DEF Stop, Does
<1>2. regs' \in [Register -> Word]
  BY <1>1, Advance DEF Stop
<1>3. Keeps(TRUE) /\ UNCHANGED <<code, stack>> /\ mode' \in Mode
  BY DEF Stop, Mode
<1> QED
  BY <1>2, <1>3, KeepStep

\* A machine that is over, or has gone astray, keeps its state.
LEMMA EndStep ==
    ASSUME Inv, Trap \/ Stray \/ Over \/ UNCHANGED vars
    PROVE  Inv'
<1>1. UNCHANGED <<code, regs, stack, frames, tidy>>
  BY DEF Trap, Stray, Over, vars
<1>2. mode' \in Mode
  BY DEF Trap, Stray, Over, vars, Inv, TypeOK, Mode
<1>3. TypeOK'
  BY <1>1, <1>2 DEF Inv, TypeOK, Mode, Cells, Word
<1>4. Floor(frames)' = Floor(frames) /\ Ordered(frames)' = Ordered(frames)
      /\ (\A k \in 1 .. Len(frames) : Kept(frames[k], stack))'
         = (\A k \in 1 .. Len(frames) : Kept(frames[k], stack))
      /\ Frame' = Frame
  BY <1>1 DEF Floor, Ordered, Kept, Frame, Cells, Word
<1> QED
  BY <1>1, <1>3, <1>4 DEF Inv

\* A store to a cell of no frame keeps the frames; any other is not tidy.
LEMMA StoreStep ==
    ASSUME Inv, Store
    PROVE  Inv'
<1>1. Running /\ This.op = "STORE" /\ Accessed \subseteq Cells
  BY DEF Store, Does
<1>2. WellFormed(This) /\ After \in Word
  BY <1>1, Fetched, AddrWord
<1>3. PICK c \in Cells : c = Address(This.b)
  BY <1>1 DEF Accessed
<1>4. PICK v \in Word : v = regs[This.src]
  BY <1>1, <1>2 DEF WellFormed, Source, Inv, TypeOK
<1>5. regs' \in [Register -> Word]
  BY <1>2, Advance DEF Store
<1>6. PICK ok \in BOOLEAN : ok = (c \notin FrameCells)
  OBVIOUS
<1>7. /\ Keeps(ok) /\ code' = code /\ mode' \in Mode
      /\ stack' = [stack EXCEPT ![c] = v]
  BY <1>3, <1>4, <1>6 DEF Store, Inv, TypeOK, Mode
<1>8. ok => \A k \in 1 .. Len(frames) : c # frames[k].sp /\ c # frames[k].sp + 8
  <2>1. ASSUME NEW k \in 1 .. Len(frames)
        PROVE  frames[k].sp \in FrameCells /\ frames[k].sp + 8 \in FrameCells
    <3>1. frames[k] \in {frames[j] : j \in 1 .. Len(frames)}
      OBVIOUS
    <3>2. /\ frames[k].sp \in {frames[k].sp, frames[k].sp + 8}
          /\ frames[k].sp + 8 \in {frames[k].sp, frames[k].sp + 8}
      OBVIOUS
    <3> QED
      BY <3>1, <3>2, Zenon DEF FrameCells
  <2> QED
    BY <1>6, <2>1
<1> QED
  BY <1>5, <1>7, <1>8, WriteStep

\* A push writes below the frames.
LEMMA PushStep ==
    ASSUME Inv, Push
    PROVE  Inv'
<1>1. Running /\ This.op = "PUSH" /\ Accessed \subseteq Cells
  BY DEF Push, Does
<1>2. WellFormed(This) /\ After \in Word
  BY <1>1, Fetched, AddrWord
<1>3. PICK sp \in Word : sp = regs["SP"]
  BY DEF Inv, TypeOK, Register
<1>4. (sp - 8) % WordSpan \in Cells
  BY <1>1, <1>3 DEF Accessed
<1>5. sp >= 8 /\ sp - 8 \in Cells /\ sp \in Nat
  BY <1>4, PushRange, Spans DEF Word
<1>6. PICK c \in Cells : c = sp - 8 /\ c \in Word
  BY <1>5, CellRange
<1>7. PICK v \in Word : v = Value(This.a)
  <2>1. Operand(This.a)
    BY <1>1, <1>2 DEF WellFormed
  <2> QED
    BY <2>1, ValueWord
<1>8. regs' \in [Register -> Word]
  <2>1. regs' = [regs EXCEPT !["IP"] = After, !["SP"] = c]
    BY <1>3, <1>6 DEF Push
  <2>2. "SP" \in Register
    BY DEF Register
  <2> QED
    BY <1>2, <1>6, <2>1, <2>2, Assign
<1>9. /\ Keeps(TRUE) /\ code' = code /\ mode' \in Mode
      /\ stack' = [stack EXCEPT ![c] = v]
  BY <1>3, <1>6, <1>7 DEF Push, Inv, TypeOK, Mode
<1>10. ASSUME tidy, NEW k \in 1 .. Len(frames)
       PROVE  c # frames[k].sp /\ c # frames[k].sp + 8
  <2>1. sp <= frames[k].sp
    BY <1>3, <1>5, <1>10, BelowAll DEF Inv
  <2>2. frames[k].sp \in Nat
    BY FrameFacts DEF Inv
  <2> QED
    BY <1>5, <1>6, <2>1, <2>2
<1> QED
  BY <1>8, <1>9, <1>10, WriteStep

\* A frame below all others is put on them.
LEMMA AppendFrame ==
    ASSUME NEW fs \in Seq(Frame), NEW f \in Frame,
           Ordered(fs), \A k \in 1 .. Len(fs) : f.sp + 16 <= fs[k].sp
    PROVE  Ordered(Append(fs, f)) /\ Floor(Append(fs, f)) = f.sp
<1>1. PICK n \in Nat : n = Len(fs)
  BY LenProperties
<1>2. PICK gs \in Seq(Frame) : gs = Append(fs, f)
  BY AppendProperties
<1>3. Len(gs) = n + 1 /\ gs[n + 1] = f /\ \A k \in 1 .. n : gs[k] = fs[k]
  BY <1>1, <1>2, AppendProperties
<1>4. gs # <<>>
  BY <1>1, <1>3
<1>5. ASSUME NEW j \in 1 .. n + 1, NEW k \in 1 .. n + 1, j < k
      PROVE  gs[k].sp + 16 <= gs[j].sp
  <2>1. j \in 1 .. n
    BY <1>5
  <2>2. CASE k = n + 1
    BY <1>1, <1>3, <2>1, <2>2
  <2>3. CASE k \in 1 .. n
    BY <1>1, <1>3, <1>5, <2>1, <2>3 DEF Ordered
  <2> QED
    BY <2>2, <2>3
<1>6. Ordered(gs)
  BY <1>3, <1>5 DEF Ordered
<1>7. Floor(gs) = f.sp
  BY <1>3, <1>4 DEF Floor
<1> QED
  BY <1>2, <1>6, <1>7

\* A call puts its frame below the others.
LEMMA CallStep ==
    ASSUME Inv, Call
    PROVE  Inv'
<1>1. Running /\ This.op = "CALL" /\ Accessed \subseteq Cells
  BY DEF Call, Does
<1>2. WellFormed(This) /\ After \in 0 .. AddrSpan - 1 /\ After \in Word
  BY <1>1, Fetched, AddrWord
<1>3. PICK top \in Word : top = regs["SP"]
  BY DEF Inv, TypeOK, Register
<1>4. (top - 8) % WordSpan \in Cells /\ (top - 16) % WordSpan \in Cells
  BY <1>1, <1>3 DEF Accessed
<1>5. top \in Nat /\ top >= 16 /\ top - 8 \in Cells /\ top - 16 \in Cells
  BY <1>4, PushRange, Spans DEF Word
<1>6. PICK sp \in Cells : sp = top - 16 /\ sp + 8 = top - 8 /\ sp \in Nat /\ sp \in Word
  BY <1>5, CellRange
<1>7. sp + 8 \in Cells
  BY <1>5, <1>6
<1>8. PICK size \in Word : size = This.size
  BY <1>1, <1>2 DEF WellFormed
<1>9. PICK ret \in Word : ret = After /\ ret < AddrSpan
  BY <1>2, Spans
<1>10. PICK to \in Word : to = Target(After - 8)
  <2>1. Operand(This.a) /\ After - 8 \in Int
    BY <1>1, <1>2, Spans DEF WellFormed
  <2> QED
    BY <2>1, TargetAddr, AddrWord
<1> DEFINE f == [sp |-> sp, ret |-> ret, size |-> size]
           s1 == [stack EXCEPT ![sp + 8] = size]
           s2 == [s1 EXCEPT ![sp] = ret]
<1>11. /\ stack' = [stack EXCEPT ![sp + 8] = size, ![sp] = ret]
       /\ regs' = [regs EXCEPT !["SP"] = sp, !["IP"] = to]
       /\ frames' = Append(frames, f)
       /\ UNCHANGED <<code, mode, tidy>>
  BY <1>3, <1>6, <1>8, <1>9, <1>10 DEF Call, CallWords
<1>12. stack' = s2
  BY <1>11
<1>13. s1 \in [Cells -> Word] /\ s2 \in [Cells -> Word]
  BY DEF Inv, TypeOK
<1>14. f \in Frame /\ f.sp = sp /\ f.ret = ret /\ f.size = size
  BY <1>7, <1>9 DEF Frame
<1>15. Kept(f, s2)
  <2>1. sp # sp + 8
    BY <1>6
  <2>2. s2[sp] = ret /\ s2[sp + 8] = size
    BY <1>7, <1>13, <2>1 DEF Inv, TypeOK
  <2> QED
    BY <1>14, <2>2 DEF Kept
<1> HIDE DEF f
<1>16. regs' \in [Register -> Word] /\ regs'["SP"] = sp
  BY <1>11, <1>6 DEF Inv, TypeOK, Register
<1>17. frames' \in Seq(Frame) /\ frames \in Seq(Frame)
  BY <1>11, <1>14, AppendProperties DEF Inv
<1>18. TypeOK'
  <2>1. frames' \in Seq([sp : Cells, ret : Word, size : Word])
    BY <1>17, FrameType
  <2> QED
    BY <1>11, <1>12, <1>13, <1>16, <2>1 DEF Inv, TypeOK, Cells, Word
<1>19. ASSUME tidy
       PROVE  /\ \A k \in 1 .. Len(frames') : Kept(frames'[k], stack')
              /\ Ordered(frames') /\ regs'["SP"] <= Floor(frames')
  <2>1. Ordered(frames) /\ \A k \in 1 .. Len(frames) : Kept(frames[k], stack)
    BY <1>19 DEF Inv
  <2>2. ASSUME NEW k \in 1 .. Len(frames)
        PROVE  /\ sp + 16 <= frames[k].sp
               /\ sp # frames[k].sp /\ sp # frames[k].sp + 8
               /\ sp + 8 # frames[k].sp /\ sp + 8 # frames[k].sp + 8
    <3>1. top <= frames[k].sp
      BY <1>3, <1>5, <1>17, <1>19, BelowAll DEF Inv
    <3>2. frames[k].sp \in Nat
      BY <1>17, FrameFacts
    <3> QED
      BY <1>5, <1>6, <3>1, <3>2
  <2>3. \A k \in 1 .. Len(frames) : Kept(frames[k], s1)
    BY <1>7, <1>17, <2>1, <2>2, WriteKeeps DEF Inv, TypeOK
  <2> HIDE DEF s1
  <2>4. \A k \in 1 .. Len(frames) : Kept(frames[k], s2)
    BY <1>13, <1>17, <2>2, <2>3, WriteKeeps
  <2>5. Ordered(frames') /\ Floor(frames') = sp
    BY <1>11, <1>14, <1>17, <2>1, <2>2, AppendFrame
  <2>6. PICK n \in Nat : n = Len(frames)
    BY <1>17, LenProperties
  <2>7. /\ Len(frames') = n + 1 /\ frames'[n + 1] = f
        /\ \A k \in 1 .. n : frames'[k] = frames[k]
    BY <1>11, <1>14, <1>17, <2>6, AppendProperties
  <2> HIDE DEF s2
  <2>8. ASSUME NEW k \in 1 .. n + 1 PROVE Kept(frames'[k], stack')
    <3>1. CASE k = n + 1
      BY <1>12, <1>15, <2>7, <3>1
    <3>2. CASE k \in 1 .. n
      BY <1>12, <2>4, <2>6, <2>7, <3>2
    <3> QED
      BY <3>1, <3>2
  <2> QED
    BY <1>6, <1>16, <2>5, <2>7, <2>8
<1>20. Frame' = Frame
  BY DEF Frame, Cells, Word
<1>21. /\ Ordered(frames)' = Ordered(frames') /\ Floor(frames)' = Floor(frames')
       /\ (\A k \in 1 .. Len(frames) : Kept(frames[k], stack))'
          = \A k \in 1 .. Len(frames') : Kept(frames'[k], stack')
  BY DEF Ordered, Floor, Kept
<1> QED
  BY <1>11, <1>17, <1>18, <1>19, <1>20, <1>21 DEF Inv

\* The outer calls, when the last one returns.
LEMMA OuterFrames ==
    ASSUME NEW fs \in Seq(Frame)
    PROVE  LET gs == SubSeq(fs, 1, Len(fs) - 1)
           IN  /\ gs \in Seq(Frame) /\ Len(gs) <= Len(fs)
               /\ \A k \in 1 .. Len(gs) : gs[k] = fs[k]
               /\ fs # <<>> => Len(gs) = Len(fs) - 1
               /\ fs = <<>> => gs = <<>>
<1>1. PICK n \in Nat : n = Len(fs)
  BY LenProperties
<1>2. \A k \in 1 .. n - 1 : fs[k] \in Frame
  BY <1>1, ElementOfSeq
<1> DEFINE gs == SubSeq(fs, 1, n - 1)
<1>3. /\ gs \in Seq(Frame)
      /\ Len(gs) = IF 1 <= n - 1 THEN (n - 1) - 1 + 1 ELSE 0
      /\ \A k \in 1 .. (n - 1) - 1 + 1 : gs[k] = fs[1 + k - 1]
  BY <1>2, SubSeqProperties
<1>4. n # 0 => Len(gs) = n - 1
  BY <1>3
<1>5. n = 0 => gs = <<>> /\ Len(gs) = 0
  BY <1>3, SubSeqEmpty
<1>6. \A k \in 1 .. n - 1 : gs[k] = fs[k]
  BY <1>3
<1>7. fs = <<>> <=> n = 0
  BY <1>1, EmptySeq
<1> HIDE DEF gs
<1>8. Len(gs) <= n /\ \A k \in 1 .. Len(gs) : gs[k] = fs[k]
  BY <1>4, <1>5, <1>6
<1> QED
  BY <1>1, <1>3, <1>4, <1>5, <1>7, <1>8 DEF gs

\* A return takes the last frame away.
LEMMA RetStep ==
    ASSUME Inv, Ret
    PROVE  Inv'
<1>1. Running /\ This.op = "RET" /\ Accessed \subseteq Cells
  BY DEF Ret, Does
<1>2. PICK sp \in Cells : sp = regs["SP"] /\ sp + 8 \in Cells
  BY <1>1 DEF Accessed
<1>3. sp \in Nat /\ stack[sp] \in Word /\ stack[sp + 8] \in Word
  BY <1>2, CellsAre DEF Inv, TypeOK
<1>4. PICK up \in Word : up = (sp + 16 + (stack[sp + 8] % AddrSpan)) % WordSpan
  <2>1. stack[sp + 8] \in Int
    BY <1>3, Spans DEF Word
  <2>2. stack[sp + 8] % AddrSpan \in Int
    BY <2>1, Wraps, Spans
  <2>3. sp + 16 + (stack[sp + 8] % AddrSpan) \in Int
    BY <1>3, <2>2
  <2> QED
    BY <2>3, Wraps
<1>5. PICK to \in Word : to = stack[sp] % AddrSpan
  <2>1. stack[sp] \in Int
    BY <1>3, Spans DEF Word
  <2> QED
    BY <2>1, Wraps, AddrWord
<1>6. PICK outer : outer = SubSeq(frames, 1, Len(frames) - 1)
  OBVIOUS
<1>7. /\ regs' = [regs EXCEPT !["SP"] = up, !["IP"] = to]
      /\ frames' = outer
      /\ tidy' = (tidy /\ frames # <<>> /\ sp = Floor(frames) /\ up <= Floor(outer))
      /\ UNCHANGED <<code, stack, mode>>
  BY <1>2, <1>4, <1>5, <1>6 DEF Ret
<1>8. /\ outer \in Seq(Frame) /\ Len(outer) <= Len(frames)
      /\ \A k \in 1 .. Len(outer) : outer[k] = frames[k]
  BY <1>6, OuterFrames DEF Inv
<1>9. regs' \in [Register -> Word] /\ regs'["SP"] = up
  BY <1>7 DEF Inv, TypeOK, Register
<1>10. TypeOK'
  <2>1. frames' \in Seq([sp : Cells, ret : Word, size : Word])
    BY <1>7, <1>8, FrameType
  <2>2. tidy' \in BOOLEAN
    BY <1>7
  <2> QED
    BY <1>7, <1>9, <2>1, <2>2 DEF Inv, TypeOK, Cells, Word
<1>11. ASSUME tidy'
       PROVE  /\ \A k \in 1 .. Len(frames') : Kept(frames'[k], stack')
              /\ Ordered(frames') /\ regs'["SP"] <= Floor(frames')
  <2>1. PICK n \in Nat, m \in Nat : n = Len(frames) /\ m = Len(outer) /\ m <= n
    BY <1>8, LenProperties DEF Inv
  <2>2. \A k \in 1 .. m : k \in 1 .. n /\ outer[k] = frames[k]
    BY <1>8, <2>1
  <2>3. tidy /\ up <= Floor(outer)
    BY <1>7, <1>11
  <2>4. Ordered(outer)
    BY <2>1, <2>2, <2>3 DEF Ordered, Inv
  <2>5. \A k \in 1 .. m : Kept(outer[k], stack)
    BY <2>1, <2>2, <2>3 DEF Inv
  <2> QED
    BY <1>7, <1>9, <2>1, <2>3, <2>4, <2>5
<1>12. Frame' = Frame
  BY DEF Frame, Cells, Word
<1>13. /\ Ordered(frames)' = Ordered(frames') /\ Floor(frames)' = Floor(frames')
       /\ (\A k \in 1 .. Len(frames) : Kept(frames[k], stack))'
          = \A k \in 1 .. Len(frames') : Kept(frames'[k], stack')
  BY DEF Ordered, Floor, Kept
<1> QED
  BY <1>7, <1>8, <1>10, <1>11, <1>12, <1>13 DEF Inv

\* The constructor.
LEMMA InvInit == Init => Inv
<1> SUFFICES ASSUME Init PROVE Inv
  OBVIOUS
<1>1. regs \in [Register -> Word]
  BY Spans DEF Init, Word
<1>2. stack \in [Cells -> Word]
  BY FreshAssumption DEF Init
<1>3. frames = <<>> /\ Len(frames) = 0 /\ \A S : frames \in Seq(S)
  BY DEF Init
<1>4. TypeOK
  BY <1>1, <1>2, <1>3 DEF Init, TypeOK
<1>5. regs["SP"] <= Floor(frames)
  BY <1>3, Spans DEF Init, Floor, Register
<1> QED
  BY <1>3, <1>4, <1>5 DEF Init, Inv, Ordered

\* Every step keeps the invariant.
LEMMA InvStep == Inv /\ [Next]_vars => Inv'
  BY ComputeStep, InvertStep, BranchStep, StoreStep, LoadStep, JumpStep, CallStep,
     RetStep, PushStep, PopStep, MovStep, SyscallStep, IllegalStep, StopStep, EndStep
     DEF Next, Execute

\* Whatever the bytecode, registers and stack hold words, and the machine's
\* history is well formed: no instruction computes outside uint64_t.
THEOREM TypeCorrect == Spec => []TypeOK
<1>1. Inv => TypeOK
  BY DEF Inv
<1> QED
  BY InvInit, InvStep, <1>1, PTL DEF Spec

\* The invariant gives the property's chain of frames.
LEMMA InvFrames == Inv => FramesIntact
<1> SUFFICES ASSUME Inv, tidy
             PROVE  /\ \A k \in 1 .. Len(frames) :
                         /\ stack[frames[k].sp] = frames[k].ret
                         /\ stack[frames[k].sp + 8] = frames[k].size
                         /\ frames[k].sp + 16 <= Floor(SubSeq(frames, 1, k - 1))
                    /\ regs["SP"] <= Floor(frames)
  BY DEF FramesIntact
<1>1. PICK n \in Nat : n = Len(frames)
  BY LenProperties DEF Inv
<1>2. ASSUME NEW k \in 1 .. n
      PROVE  frames[k].sp + 16 <= Floor(SubSeq(frames, 1, k - 1))
  <2>1. frames[k].sp + 16 <= StackSize
    BY <1>1, FrameFacts DEF Inv
  <2>2. CASE k = 1
    <3>1. SubSeq(frames, 1, k - 1) = <<>>
      BY <2>2, SubSeqEmpty
    <3> QED
      BY <2>1, <3>1 DEF Floor
  <2>3. CASE k # 1
    <3> DEFINE gs == SubSeq(frames, 1, k - 1)
    <3>1. \A j \in 1 .. k - 1 : frames[j] \in Frame
      BY <1>1, ElementOfSeq DEF Inv
    <3>2. /\ Len(gs) = IF 1 <= k - 1 THEN (k - 1) - 1 + 1 ELSE 0
          /\ \A j \in 1 .. (k - 1) - 1 + 1 : gs[j] = frames[1 + j - 1]
      BY <3>1, SubSeqProperties
    <3>3. Len(gs) = k - 1 /\ k - 1 \in 1 .. (k - 1) - 1 + 1 /\ 1 + (k - 1) - 1 = k - 1
      BY <2>3, <3>2
    <3>4. gs[k - 1] = frames[k - 1]
      BY <3>2, <3>3
    <3> HIDE DEF gs
    <3>5. gs # <<>>
      BY <2>3, <3>3
    <3>6. Floor(gs) = frames[k - 1].sp
      BY <3>3, <3>4, <3>5 DEF Floor
    <3>7. k - 1 \in 1 .. n /\ k - 1 < k
      BY <2>3
    <3>8. frames[k].sp + 16 <= frames[k - 1].sp
      BY <1>1, <3>7 DEF Inv, Ordered
    <3> QED
      BY <3>6, <3>8 DEF gs
  <2> QED
    BY <2>2, <2>3
<1> QED
  BY <1>1, <1>2 DEF Inv, Kept

\* Whatever is called, pushed, popped and stored, by a program that keeps off its
\* callers' frames, every call in progress keeps its return address and size.
THEOREM CallsSafe == Spec => []FramesIntact
  BY InvInit, InvStep, InvFrames, PTL DEF Spec

\* The step of ReturnsHome: only RET makes the history shorter.
LEMMA ReturnStep ==
    ASSUME Inv, [Next]_vars, Len(frames') < Len(frames), tidy'
    PROVE  LET f == frames[Len(frames)]
           IN  /\ regs'["IP"] = f.ret
               /\ regs'["SP"] = f.sp + 16 + (f.size % AddrSpan)
<1>1. PICK n \in Nat : n = Len(frames)
  BY LenProperties DEF Inv
<1>2. CASE frames' = frames
  BY <1>1, <1>2
<1>3. CASE Call
  <2>1. Len(frames') = n + 1
    BY <1>1, <1>3, AppendProperties DEF Call, Inv, TypeOK
  <2> QED
    BY <1>1, <2>1
<1>4. CASE Ret
  <2>1. frames # <<>> /\ tidy /\ regs["SP"] = Floor(frames)
    BY <1>4 DEF Ret
  <2>2. n \in 1 .. n
    BY <1>1, <2>1, EmptySeq DEF Inv
  <2>3. PICK sp : sp = regs["SP"] /\ sp = frames[n].sp
    BY <1>1, <2>1 DEF Floor
  <2>4. PICK ret, size : ret = frames[n].ret /\ size = frames[n].size
    OBVIOUS
  <2>5. /\ sp \in Nat /\ sp + 16 <= StackSize /\ ret \in Word /\ size \in Word
        /\ ret < AddrSpan
    BY <1>1, <2>2, <2>3, <2>4, FrameFacts DEF Inv
  <2>6. stack[sp] = ret /\ stack[sp + 8] = size
    BY <1>1, <2>1, <2>2, <2>3, <2>4 DEF Inv, Kept
  <2>7. ret % AddrSpan = ret
    <3>1. ret \in 0 .. AddrSpan - 1
      BY <2>5, Spans DEF Word
    <3> QED
      BY <3>1, ModSmall, Spans
  <2>8. (sp + 16 + (size % AddrSpan)) % WordSpan = sp + 16 + (size % AddrSpan)
    <3>1. size % AddrSpan \in 0 .. AddrSpan - 1
      <4>1. size \in Int
        BY <2>5, Spans DEF Word
      <4> QED
        BY <4>1, Wraps
    <3>2. sp + 16 + (size % AddrSpan) \in 0 .. WordSpan - 1
      BY <2>5, <3>1, Spans
    <3> QED
      BY <3>2, ModSmall, Spans
  <2>9. regs' = [regs EXCEPT !["SP"] = (sp + 16 + (size % AddrSpan)) % WordSpan,
                             !["IP"] = ret % AddrSpan]
    BY <1>4, <2>3, <2>6 DEF Ret
  <2>10. regs'["SP"] = sp + 16 + (size % AddrSpan) /\ regs'["IP"] = ret
    BY <2>7, <2>8, <2>9 DEF Inv, TypeOK, Register
  <2> QED
    BY <1>1, <2>3, <2>4, <2>10
<1>5. frames' = frames \/ Call \/ Ret
  BY DEF Next, Execute, Compute, Trap, Invert, Branch, Store, Load, Jump, Push, Pop,
         Mov, Syscall, Illegal, Stop, Stray, Over, Keeps, vars
<1> QED
  BY <1>2, <1>3, <1>4, <1>5

\* A return goes back behind the call it ends, and drops that call's arguments,
\* however deep calls nest and wherever their arguments come from.
THEOREM ReturnsRight == Spec => ReturnsHome
<1>1. Inv /\ [Next]_vars =>
        [LET f == frames[Len(frames)]
         IN  Len(frames') < Len(frames) /\ tidy' =>
               /\ regs'["IP"] = f.ret
               /\ regs'["SP"] = f.sp + 16 + (f.size % AddrSpan)]_vars
  BY ReturnStep
<1> QED
  BY InvInit, InvStep, <1>1, PTL DEF Spec, ReturnsHome

\* What EXP is given when it is executed are words.
LEMMA InvExp == Inv => ExpIsPower
<1> SUFFICES ASSUME Inv, Does({"EXP"})
             PROVE  LET v == Value(This.a)
                        n == Value(This.b)
                    IN  /\ Capped(v, n \div 2) < IntSpan \div 2
                        /\ n % 2 = 1 \/ Capped(v, n) < IntSpan \div 2
                        => Exp(v, n) = PowerMod(v, n)
  BY DEF ExpIsPower
<1>1. Running /\ This.op = "EXP"
  BY DEF Does
<1>2. Operand(This.a) /\ Operand(This.b)
  BY <1>1, Fetched DEF WellFormed, BinaryOps
<1>3. Value(This.a) \in Word /\ Value(This.b) \in Nat
  BY <1>2, ValueWord, Spans DEF Word
<1> QED
  BY <1>3, ExpRight

\* Every EXP that is executed gives the power modulo the word, up to where the
\* int of its recursion overflows.
THEOREM PowersRight == Spec => []ExpIsPower
  BY InvInit, InvStep, InvExp, PTL DEF Spec

----------------------------------------------------------------------------
(* Programs that only lead forward.                                        *)

\* The places of a state and of a sequence of frames.
LEMMA StandsAre ==
    ASSUME Inv, NEW n \in Nat, n = Len(frames)
    PROVE  /\ Len(Stands) = n + 1 /\ Stands[n + 1] = regs["IP"]
           /\ \A k \in 1 .. n : Stands[k] = frames[k].ret
<1>1. Stands = [k \in 1 .. n + 1 |-> IF k <= n THEN frames[k].ret ELSE regs["IP"]]
  BY DEF Stands
<1> QED
  BY <1>1

\* The same after a step.
LEMMA StandsNext ==
    ASSUME NEW m \in Nat, m = Len(frames')
    PROVE  /\ Len(Stands') = m + 1 /\ Stands'[m + 1] = regs'["IP"]
           /\ \A k \in 1 .. m : Stands'[k] = frames'[k].ret
<1>1. Stands' = [k \in 1 .. m + 1 |-> IF k <= m THEN frames'[k].ret ELSE regs'["IP"]]
  BY DEF Stands
<1> QED
  BY <1>1

\* Further on in the newest call.
LEMMA LaterHere ==
    ASSUME Inv, frames' = frames, regs["IP"] < regs'["IP"]
    PROVE  Later(Stands, Stands')
<1>1. PICK n \in Nat : n = Len(frames)
  BY LenProperties DEF Inv
<1>2. PICK s, t : s = Stands /\ t = Stands'
  OBVIOUS
<1>3. /\ Len(s) = n + 1 /\ Len(t) = n + 1 /\ s[n + 1] < t[n + 1]
      /\ \A j \in 1 .. n : s[j] = t[j]
  BY <1>1, <1>2, StandsAre, StandsNext
<1>4. n + 1 \in 1 .. Len(s) /\ n + 1 <= Len(t) + 1 /\ (n + 1) - 1 = n
  BY <1>3
<1>5. Later(s, t)
  BY ONLY <1>3, <1>4 DEF Later
<1> QED
  BY <1>2, <1>5

\* A new call, which ends further on.
LEMMA LaterCall ==
    ASSUME Inv, NEW f, frames' = Append(frames, f), regs["IP"] < f.ret
    PROVE  Later(Stands, Stands')
<1>1. PICK n \in Nat : n = Len(frames)
  BY LenProperties DEF Inv
<1>2. PICK s, t : s = Stands /\ t = Stands'
  OBVIOUS
<1>3. /\ Len(frames') = n + 1 /\ n + 1 \in Nat /\ frames'[n + 1] = f
      /\ \A j \in 1 .. n : frames'[j] = frames[j]
  <2>1. frames \in Seq(Frame \cup {f})
    BY SeqMonotonic DEF Inv
  <2> QED
    BY <1>1, <2>1, AppendProperties
<1>4. /\ Len(s) = n + 1 /\ s[n + 1] = regs["IP"] /\ \A j \in 1 .. n : s[j] = frames[j].ret
  BY <1>1, <1>2, StandsAre
<1>5. /\ Len(t) = n + 2 /\ t[n + 1] = f.ret /\ \A j \in 1 .. n : t[j] = frames[j].ret
  <2>1. Len(t) = (n + 1) + 1 /\ \A j \in 1 .. n + 1 : t[j] = frames'[j].ret
    BY <1>2, <1>3, StandsNext
  <2> QED
    BY <1>3, <2>1
<1>6. n + 1 \in 1 .. Len(s) /\ n + 1 <= Len(t) + 1 /\ (n + 1) - 1 = n
  BY <1>4, <1>5
<1>7. s[n + 1] < t[n + 1] /\ \A j \in 1 .. n : s[j] = t[j]
  BY <1>4, <1>5
<1>8. Later(s, t)
  BY ONLY <1>6, <1>7 DEF Later
<1> QED
  BY <1>2, <1>8

\* Back behind the newest call.
LEMMA LaterReturn ==
    ASSUME Inv, NEW n \in Nat, n + 1 = Len(frames), frames' = SubSeq(frames, 1, n),
           regs'["IP"] = frames[n + 1].ret
    PROVE  Later(Stands, Stands')
<1>1. PICK s, t : s = Stands /\ t = Stands'
  OBVIOUS
<1>2. Len(frames') = n /\ \A j \in 1 .. n : frames'[j] = frames[j]
  <2>1. frames \in Seq(Frame) /\ n <= Len(frames)
    BY DEF Inv
  <2> QED
    BY <2>1
<1>3. Len(s) = n + 2 /\ \A j \in 1 .. n + 1 : s[j] = frames[j].ret
  <2>1. Len(s) = (n + 1) + 1 /\ \A j \in 1 .. n + 1 : s[j] = frames[j].ret
    BY <1>1, StandsAre
  <2> QED
    BY <2>1
<1>4. /\ Len(t) = n + 1 /\ t[n + 1] = frames[n + 1].ret
      /\ \A j \in 1 .. n : t[j] = frames[j].ret
  BY <1>1, <1>2, StandsNext
<1>5. n + 2 \in 1 .. Len(s) /\ ~(n + 2 <= Len(t)) /\ n + 2 <= Len(t) + 1 /\ (n + 2) - 1 = n + 1
  BY <1>3, <1>4
<1>6. \A j \in 1 .. n + 1 : s[j] = t[j]
  <2>1. \A j \in 1 .. n + 1 : j \in 1 .. n \/ j = n + 1
    OBVIOUS
  <2> QED
    BY ONLY <1>3, <1>4, <2>1
<1>7. Later(s, t)
  BY ONLY <1>5, <1>6 DEF Later
<1> QED
  BY <1>1, <1>7

\* An instruction takes bytes, so it ends behind itself.
LEMMA Ends ==
    ASSUME Inv, Running
    PROVE  regs["IP"] \in Nat /\ After \in Nat /\ regs["IP"] < After
<1>1. \A o : ConstSize(o) \in Nat /\ AddrSize(o) \in Nat
  BY DEF ConstSize, AddrSize
<1>2. Size(This) \in Nat \ {0}
  BY <1>1 DEF Size
<1>3. regs["IP"] \in Nat
  BY Spans DEF Inv, TypeOK, Word, Register
<1> QED
  BY <1>2, <1>3 DEF After

\* A jump of a forward program lands behind itself.
LEMMA Lands ==
    ASSUME Inv, Running, Forward, This.op = "JMP"
    PROVE  /\ AddrSize(This.a) = 3
           /\ Target(regs["IP"] + 4) \in Nat /\ regs["IP"] < Target(regs["IP"] + 4)
<1> DEFINE ip == regs["IP"]
           x == This.a.x
<1>1. /\ This.a.const = TRUE
      /\ LET to == x + (IF This.relative THEN ip + AddrSize(This.a) ELSE 0)
         IN  to > ip /\ to < AddrSpan
  <2>1. ip \in DOMAIN code
    BY DEF Running
  <2>2. This.a.const
    BY <2>1 DEF Forward, This
  <2>3. Operand(This.a)
    BY Fetched DEF WellFormed
  <2> QED
    BY <2>1, <2>2, <2>3 DEF Forward, This, Operand
<1>2. AddrSize(This.a) = 3 /\ Address(This.a) = x % AddrSpan
  BY <1>1 DEF AddrSize, Address, Value
<1>3. x \in Nat /\ ip \in Nat
  <2>1. Operand(This.a)
    BY Fetched DEF WellFormed
  <2> QED
    BY <1>1, <2>1, Ends, Spans DEF Operand, Word
<1> HIDE DEF x, ip
<1>4. x \in 0 .. AddrSpan - 1
  BY <1>1, <1>2, <1>3, Spans
<1>5. x % AddrSpan = x
  BY <1>4, ModSmall, Spans
<1>6. Target(ip + 4) = IF This.relative THEN (x + ((ip + 4) - 1)) % AddrSpan ELSE x
  BY <1>2, <1>5 DEF Target
<1>7. CASE This.relative
  <2>1. x + ((ip + 4) - 1) = x + (ip + 3) /\ x + (ip + 3) \in 0 .. AddrSpan - 1
    BY <1>1, <1>2, <1>3, <1>7, Spans
  <2>2. Target(ip + 4) = x + (ip + 3)
    BY <1>6, <1>7, <2>1, ModSmall, Spans
  <2> QED
    BY <1>1, <1>2, <1>3, <1>7, <2>2 DEF ip
<1>8. CASE ~This.relative
  BY <1>1, <1>2, <1>3, <1>6, <1>8 DEF ip
<1> QED
  BY <1>7, <1>8

\* The step of Advances.
LEMMA AdvanceStep ==
    ASSUME Inv, Execute, Forward, tidy', mode' = "running"
    PROVE  Later(Stands, Stands')
<1>0. regs \in [Register -> Word] /\ "IP" \in Register
  BY DEF Inv, TypeOK, Register
<1>1. CASE Compute \/ Invert \/ Load \/ Pop \/ Mov
  <2>1. Running /\ This.op \in BinaryOps \cup UnaryOps \cup {"LOAD", "POP", "MOV"}
        /\ frames' = frames
    BY <1>1 DEF Compute, Invert, Load, Pop, Mov, Does, Keeps
  <2>2. This.dst # "IP"
    BY <2>1 DEF Forward, Running, This
  <2>3. regs'["IP"] = After
    BY <1>0, <1>1, <2>2 DEF Compute, Invert, Load, Pop, Mov
  <2> QED
    BY <2>1, <2>3, Ends, LaterHere
<1>2. CASE Store \/ Push \/ Syscall \/ Illegal
  <2>1. Running /\ frames' = frames
    BY <1>2 DEF Store, Push, Syscall, Illegal, Does, Keeps
  <2>2. regs'["IP"] = After
    BY <1>0, <1>2 DEF Store, Push, Syscall, Illegal
  <2> QED
    BY <2>1, <2>2, Ends, LaterHere
<1>3. CASE Branch
  <2>1. Running /\ This.op \in BranchOps /\ frames' = frames
    BY <1>3 DEF Branch, Does, Keeps
  <2>2. This.to > regs["IP"]
    BY <2>1 DEF Forward, Running, This
  <2>3. regs'["IP"] = This.to \/ regs'["IP"] = After
    BY <1>0, <1>3 DEF Branch
  <2>4. This.to \in Nat
    BY <2>1, Fetched, Spans DEF WellFormed
  <2> QED
    BY <2>1, <2>2, <2>3, <2>4, Ends, LaterHere
<1>4. CASE Jump
  <2>1. Running /\ This.op = "JMP" /\ frames' = frames /\ regs'["IP"] = Target(After)
    BY <1>0, <1>4 DEF Jump, Does, Keeps
  <2>2. AddrSize(This.a) = 3 /\ regs["IP"] < Target(regs["IP"] + 4)
    BY <2>1, Lands
  <2>3. After = regs["IP"] + 4
    <3>1. Size(This) = 1 + AddrSize(This.a)
      BY <2>1 DEF Size, BinaryOps, UnaryOps, BranchOps
    <3> QED
      BY <2>2, <3>1 DEF After
  <2> QED
    BY <2>1, <2>2, <2>3, LaterHere
<1>5. CASE Call
  <2>1. Running /\ This.op = "CALL"
    BY <1>5 DEF Call, Does
  <2>2. PICK f : frames' = Append(frames, f) /\ f.ret = After
    BY <1>5 DEF Call
  <2> QED
    BY <2>1, <2>2, Ends, LaterCall
<1>6. CASE Ret
  <2>1. PICK n \in Nat : n + 1 = Len(frames)
    <3>1. frames # <<>> /\ frames \in Seq(Frame)
      BY <1>6 DEF Ret, Inv
    <3>2. Len(frames) \in Nat /\ Len(frames) # 0
      BY <3>1, LenProperties, EmptySeq
    <3>3. Len(frames) - 1 \in Nat /\ (Len(frames) - 1) + 1 = Len(frames)
      BY <3>2
    <3> QED
      BY <3>3
  <2>2. frames' = SubSeq(frames, 1, n)
    <3>1. Len(frames) - 1 = n
      BY <2>1
    <3> QED
      BY <1>6, <3>1 DEF Ret
  <2>3. Len(frames') < Len(frames)
    <3>1. frames \in Seq(Frame)
      BY DEF Inv
    <3> QED
      BY <2>1, <2>2, <3>1
  <2>4. regs'["IP"] = frames[n + 1].ret
    BY <2>1, <2>3, ReturnStep DEF Next
  <2> QED
    BY <2>1, <2>2, <2>4, LaterReturn
<1>7. mode = "running" /\ ~Trap /\ ~Stop /\ ~Stray
  BY DEF Trap, Stop, Stray, Execute, Compute, Invert, Branch, Store, Load, Jump, Call, Ret,
         Push, Pop, Mov, Syscall, Illegal, Does, Running
<1> QED
  BY <1>1, <1>2, <1>3, <1>4, <1>5, <1>6, <1>7 DEF Execute

\* In every program whose jumps and branches all lead forward, each iteration
\* of Execute gets further, as long as the program keeps off its frames: it never
\* comes back to a place with the same calls in progress.
THEOREM ForwardAdvances == Spec => Advances
<1>1. Inv /\ [Next]_vars =>
        [Forward /\ tidy' /\ mode' = "running" => Later(Stands, Stands')]_vars
  <2> SUFFICES ASSUME Inv, Next, Forward, tidy', mode' = "running", ~UNCHANGED vars
               PROVE  Later(Stands, Stands')
    OBVIOUS
  <2>1. Execute
    BY DEF Next, Over
  <2> QED
    BY <2>1, AdvanceStep
<1> QED
  BY InvInit, InvStep, <1>1, PTL DEF Spec, Advances

\* A tidy program's calls have room in the stack, 16 bytes each: so its places
\* are bounded, and getting further must come to an end.
LEMMA CallsFit == Inv /\ tidy => 16 * Len(frames) <= StackSize
<1> SUFFICES ASSUME Inv, tidy PROVE 16 * Len(frames) <= StackSize
  OBVIOUS
<1>1. PICK n \in Nat : n = Len(frames)
  BY LenProperties DEF Inv
<1>2. \A k \in 1 .. n : frames[k].sp \in Nat /\ frames[k].sp + 16 <= StackSize
  BY <1>1, FrameFacts DEF Inv
<1>3. \A j, k \in 1 .. n : j < k => frames[k].sp + 16 <= frames[j].sp
  BY <1>1 DEF Inv, Ordered
<1> DEFINE S == {k \in Nat : k + 1 \in 1 .. n => frames[k + 1].sp + 16 * (k + 1) <= StackSize}
<1>4. 0 \in S
  BY <1>2
<1>5. ASSUME NEW k \in Nat, k \in S
      PROVE  k + 1 \in S
  <2> SUFFICES ASSUME (k + 1) + 1 \in 1 .. n
               PROVE  frames[(k + 1) + 1].sp + 16 * ((k + 1) + 1) <= StackSize
    OBVIOUS
  <2>1. k + 1 \in 1 .. n /\ k + 1 < (k + 1) + 1
    OBVIOUS
  <2>2. frames[(k + 1) + 1].sp + 16 <= frames[k + 1].sp
    BY <1>3, <2>1
  <2>3. frames[k + 1].sp + 16 * (k + 1) <= StackSize
    BY <1>5, <2>1
  <2> QED
    BY <1>2, <2>1, <2>2, <2>3, Spans
<1> HIDE DEF S
<1>6. Nat \subseteq S
  BY <1>4, <1>5, Induct
<1>7. CASE n = 0
  BY <1>1, <1>7, Spans
<1>8. CASE n > 0
  <2>1. n - 1 \in S /\ (n - 1) + 1 = n /\ n \in 1 .. n
    BY <1>6, <1>8
  <2>2. frames[n].sp + 16 * n <= StackSize
    BY <2>1 DEF S
  <2>3. frames[n].sp \in Nat
    BY <1>2, <2>1
  <2>4. 16 * n <= StackSize
    BY ONLY n \in Nat, <2>2, <2>3, Spans
  <2> QED
    BY ONLY <1>1, <2>4
<1> QED
  BY <1>7, <1>8

\* In any run of any program that keeps off its frames the number of calls in
\* progress is bounded by the stack.
THEOREM CallsBounded == Spec => [](tidy => 16 * Len(frames) <= StackSize)
  BY InvInit, InvStep, CallsFit, PTL DEF Spec

=============================================================================
